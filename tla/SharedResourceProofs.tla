------------------------ MODULE SharedResourceProofs ------------------------
(***************************************************************************)
(* Theorems about SharedResource for any set of workers and any bounds.    *)
(***************************************************************************)
EXTENDS SharedResource, TLAPS

-----------------------------------------------------------------------------
(* The changes that are written back keep the document well formed.        *)

LEMMA EditsKeepData ==
    ASSUME disk \in Data, NEW w \in Worker
    PROVE  /\ \A s \in Status : WithStatus(w, s) \in Data
           /\ \A s \in MainStatus : WithMainStatus(s) \in Data
           /\ [disk EXCEPT !.mainStatus = "recovering", !.mainWatcher = w] \in Data
           /\ [disk EXCEPT !.watchers = @ \ {w}, !.statuses[w] = "absent"] \in Data
           /\ Registered(w, disk) \in Data
  <1>. USE DEF Data, Status, MainStatus
  <1>1. \A s \in Status : WithStatus(w, s) \in Data
    BY DEF WithStatus
  <1>2. \A s \in MainStatus : WithMainStatus(s) \in Data
    BY DEF WithMainStatus
  <1>3. [disk EXCEPT !.mainStatus = "recovering", !.mainWatcher = w] \in Data
    OBVIOUS
  <1>4. [disk EXCEPT !.watchers = @ \ {w}, !.statuses[w] = "absent"] \in Data
    OBVIOUS
  <1>5. Registered(w, disk) \in Data
    BY DEF Registered
  <1>. QED  BY <1>1, <1>2, <1>3, <1>4, <1>5

LEMMA NewFileIsData ==
    ASSUME NEW w \in Worker
    PROVE  Registered(w, NewFile(w)) \in Data
  BY DEF Data, NewFile, Registered, Status, MainStatus

-----------------------------------------------------------------------------
(* Type correctness and the lock discipline.  A locked call can be typed   *)
(* only because the file it reads is never Torn, so both are one           *)
(* inductive invariant: Torn is seen only between the two halves of        *)
(* write_text(), whose caller holds the lock and stays where it is.        *)

Writing == {"registering", "readying", "takeOver", "markActing", "markDone",
            "markError", "markActionError", "exit", "exitError",
            "markMainError", "exitDone"}

LockInv ==
    /\ disk = Torn => stage = "write"
    /\ lock = NoWorker => stage = "idle"
    /\ stage # "idle" => buf \in Data
    /\ \A w \in Worker : lock = w => \/ stage = "idle" /\ pc[w] = "registering"
                                     \/ stage # "idle" /\ pc[w] \in Writing
    /\ \A w \in Worker : pc[w] = "registering" => lock = w

TypeInv == TypeOK /\ LockInv

LEMMA InitTypeInv == Init => TypeInv
  BY ConstantsAssumption DEF Init, TypeInv, TypeOK, LockInv, PC, Writing

LEMMA LockAndEditKeepsTypeInv ==
    ASSUME TypeInv, NEW w \in Worker, NEW data \in Data,
           pc[w] \in Writing, lock = NoWorker,
           LockAndEdit(w, data),
           isMain' \in [Worker -> BOOLEAN], isRecovering' \in [Worker -> BOOLEAN],
           UNCHANGED <<depth, exc>>
    PROVE  TypeInv'
  BY ConstantsAssumption DEF TypeInv, TypeOK, LockInv, LockAndEdit, history

LEMMA AfterWriteTypes ==
    ASSUME TypeInv, NEW w \in Worker, pc[w] \in Writing, AfterWrite(w)
    PROVE  /\ pc' \in [Worker -> PC]
           /\ depth' \in [Worker -> Nat]
           /\ exc' \in [Worker -> {"none", "fnf", "error"}]
           /\ pc'[w] # "registering"
           /\ \A v \in Worker : v # w => pc'[v] = pc[v]
  <1>. USE DEF TypeInv, TypeOK, PC, Goto, Raise
  <1>1. CASE pc[w] = "markDone"
    BY <1>1 DEF AfterWrite, Continue, ReturnFromWait
  <1>2. CASE pc[w] # "markDone"
    BY <1>2 DEF AfterWrite, Continue, Writing, WaitBranch, ExitBranch
  <1>. QED  BY <1>1, <1>2

LEMMA StepKeepsTypeInv ==
    ASSUME TypeInv, NEW w \in Worker, Step(w)
    PROVE  TypeInv'
  <1>. USE ConstantsAssumption
  <1>1. CASE OpenForWrite(w)
    BY <1>1 DEF OpenForWrite, TypeInv, TypeOK, LockInv, local, history
  <1>2. CASE WriteBack(w)
    <2>1. pc[w] \in Writing
      BY <1>2 DEF WriteBack, TypeInv, LockInv
    <2>2. AfterWrite(w)
      BY <1>2 DEF WriteBack
    <2>3. /\ pc' \in [Worker -> PC] /\ depth' \in [Worker -> Nat]
          /\ exc' \in [Worker -> {"none", "fnf", "error"}]
          /\ pc'[w] # "registering" /\ \A v \in Worker : v # w => pc'[v] = pc[v]
      BY <2>1, <2>2, AfterWriteTypes
    <2>. QED  BY <1>2, <2>3 DEF WriteBack, TypeInv, TypeOK, LockInv, history
  <1>3. CASE Register(w)
    BY <1>3 DEF Register, Entering, Goto, TypeInv, TypeOK, LockInv, PC, Writing, history
  <1>4. CASE RegisterSelf(w)
    <2>1. disk # NoFile => disk \in Data
      BY <1>4 DEF RegisterSelf, TypeInv, TypeOK, LockInv
    <2>2. buf' \in Data
      BY <1>4, <2>1, EditsKeepData, NewFileIsData DEF RegisterSelf
    <2>. QED  BY <1>4, <2>2 DEF RegisterSelf, TypeInv, TypeOK, LockInv, Writing, local
  <1>5. CASE RegisterMisses(w)
    BY <1>5 DEF RegisterMisses, Goto, TypeInv, TypeOK, LockInv, PC, Writing, local, history
  <1>6. CASE BodyAdvances(w)
    BY <1>6 DEF BodyAdvances, Goto, TypeInv, TypeOK, LockInv, PC, Writing, file, local, history
  <1>7. CASE BodyRaises(w)
    BY <1>7 DEF BodyRaises, Raise, Goto, TypeInv, TypeOK, LockInv, PC, Writing, file
  <1>8. CASE Ready(w)
    <2>1. disk \in Data
      BY <1>8 DEF Ready, Reads, Entering, TypeInv, TypeOK, LockInv
    <2>. QED  BY <1>8, <2>1, EditsKeepData, LockAndEditKeepsTypeInv
              DEF Ready, Reads, Entering, Writing, Status, local, TypeInv, TypeOK
  <1>9. CASE WaitMissesFile(w)
    BY <1>9 DEF WaitMissesFile, Misses, Entering, Raise, Goto, TypeInv, TypeOK, LockInv, PC,
                Writing, file, history
  <1>10. CASE AllReady(w)
    BY <1>10 DEF AllReady, Reads, Entering, Goto, TypeInv, TypeOK, LockInv, PC, Writing,
                 file, local, history
  <1>11. ASSUME NEW at \in Writing, NEW s \in MainStatus, UpdateMainStatus(w, at, s)
         PROVE  TypeInv'
    <2>1. disk \in Data
      BY <1>11 DEF UpdateMainStatus, Reads, Entering, TypeInv, TypeOK, LockInv
    <2>. QED  BY <1>11, <2>1, EditsKeepData, LockAndEditKeepsTypeInv
              DEF UpdateMainStatus, Reads, Entering, local, TypeInv, TypeOK
  <1>12. CASE MainUpdates(w)
    BY <1>11, <1>12 DEF MainUpdates, Writing, MainStatus
  <1>13. CASE ActionSucceeds(w)
    <2>1. performed' \subseteq Nat
      BY <1>13 DEF ActionSucceeds, TypeInv, TypeOK
    <2>2. TypeOK'
      BY <1>13, <2>1 DEF ActionSucceeds, Goto, TypeInv, TypeOK, PC, file, local
    <2>3. LockInv'
      BY <1>13 DEF ActionSucceeds, Goto, TypeInv, TypeOK, LockInv, Writing, file
    <2>. QED  BY <2>2, <2>3 DEF TypeInv
  <1>14. CASE ActionFails(w)
    BY <1>14 DEF ActionFails, Goto, TypeInv, TypeOK, LockInv, PC, Writing, file, local
  <1>15. CASE RemoveFailed(w)
    BY <1>15 DEF RemoveFailed, Raise, Goto, TypeInv, TypeOK, LockInv, PC, Writing, history
  <1>16. CASE Poll(w)
    BY <1>16 DEF Poll, ReturnFromWait, Raise, Goto, TypeInv, TypeOK, LockInv, PC, Writing,
                 file, history
  <1>17. CASE PollFails(w)
    BY <1>17 DEF PollFails, Raise, Goto, TypeInv, TypeOK, LockInv, PC, Writing, file, history
  <1>18. CASE TakeOver(w)
    <2>1. disk \in Data
      BY <1>18 DEF TakeOver, Reads, Entering, TypeInv, TypeOK, LockInv
    <2>. QED  BY <1>18, <2>1, EditsKeepData, LockAndEditKeepsTypeInv
              DEF TakeOver, Reads, Entering, Writing, TypeInv, TypeOK
  <1>19. CASE TakenOverByAnother(w)
    BY <1>19 DEF TakenOverByAnother, Reads, Entering, WaitBranch, Goto, TypeInv, TypeOK,
                 LockInv, PC, Writing, file, local, history
  <1>20. CASE Unregister(w)
    <2>1. disk \in Data
      BY <1>20 DEF Unregister, Reads, Entering, TypeInv, TypeOK, LockInv
    <2>. QED  BY <1>20, <2>1, EditsKeepData, LockAndEditKeepsTypeInv
              DEF Unregister, Reads, Entering, Writing, local, TypeInv, TypeOK
  <1>21. CASE UnregisterFails(w)
    BY <1>21 DEF UnregisterFails, Entering, ExitBranch, Goto, TypeInv, TypeOK, LockInv, PC,
                 Writing, file, local, history
  <1>22. CASE ReportError(w)
    <2>1. disk \in Data
      BY <1>22 DEF ReportError, Reads, Entering, TypeInv, TypeOK, LockInv
    <2>. QED  BY <1>22, <2>1, EditsKeepData, LockAndEditKeepsTypeInv
              DEF ReportError, Reads, Entering, Writing, Status, local, TypeInv, TypeOK
  <1>23. CASE CheckErrors(w)
    BY <1>23 DEF CheckErrors, Reads, Entering, Goto, TypeInv, TypeOK, LockInv, PC, Writing,
                 file, local, history
  <1>24. CASE RemoveErrors(w)
    BY <1>24 DEF RemoveErrors, Goto, TypeInv, TypeOK, LockInv, PC, Writing, local, history
  <1>25. CASE Done(w)
    <2>1. disk \in Data
      BY <1>25 DEF Done, Reads, Entering, TypeInv, TypeOK, LockInv
    <2>. QED  BY <1>25, <2>1, EditsKeepData, LockAndEditKeepsTypeInv
              DEF Done, Reads, Entering, Writing, Status, local, TypeInv, TypeOK
  <1>26. CASE AllDone(w)
    BY <1>26 DEF AllDone, Reads, Entering, Goto, TypeInv, TypeOK, LockInv, PC, Writing,
                 file, local, history
  <1>27. CASE RemoveDone(w)
    BY <1>27 DEF RemoveDone, Goto, TypeInv, TypeOK, LockInv, PC, Writing, local, history
  <1>28. CASE ExitMissesFile(w)
    BY <1>28 DEF ExitMissesFile, Misses, Entering, Goto, TypeInv, TypeOK, LockInv, PC,
                 Writing, file, local, history
  <1>. QED  BY <1>1, <1>2, <1>3, <1>4, <1>5, <1>6, <1>7, <1>8, <1>9, <1>10, <1>12, <1>13,
               <1>14, <1>15, <1>16, <1>17, <1>18, <1>19, <1>20, <1>21, <1>22, <1>23,
               <1>24, <1>25, <1>26, <1>27, <1>28 DEF Step

\* The type invariant together with the lock discipline, of the whole specification.
THEOREM TypeInvariance == Spec => []TypeInv
  <1>1. TypeInv /\ [Next]_vars => TypeInv'
    <2>1. ASSUME TypeInv, UNCHANGED vars  PROVE TypeInv'
      BY <2>1 DEF TypeInv, TypeOK, LockInv, vars, file, local, history
    <2>. QED  BY <2>1, StepKeepsTypeInv DEF Next, Terminated
  <1>. QED  BY InitTypeInv, <1>1, PTL DEF Spec

\* Every variable keeps its type, whatever fails and whoever takes over.
THEOREM TypeCorrect == Spec => []TypeOK
  <1>1. TypeInv => TypeOK
    BY DEF TypeInv
  <1>. QED  BY TypeInvariance, <1>1, PTL

\* A locked read never meets a half-written file: json.loads() inside the lock
\* finds a document, or there is no file, in every interleaving with the unlocked
\* unlink() calls.
THEOREM FileIsProtected == Spec => []LockProtectsFile
  <1>1. TypeInv => LockProtectsFile
    BY DEF TypeInv, LockInv, LockProtectsFile
  <1>. QED  BY TypeInvariance, <1>1, PTL

-----------------------------------------------------------------------------
(* Success.  "done" can be on the file, or about to be written to it, only *)
(* after an action has succeeded; and only "done" lets a worker past its   *)
(* wait() or into the normal part of __exit__.                             *)

PastBarrier == {"markDone", "body", "exitDone", "drain", "removeDone", "finished"}

SuccessInv ==
    performed = {} =>
        /\ disk \in Data => disk.mainStatus # "done"
        /\ stage # "idle" => buf.mainStatus # "done"
        /\ \A w \in Worker : /\ pc[w] \notin PastBarrier
                             /\ pc[w] = "exit" => exc[w] # "none"

LEMMA EditsAndMainStatus ==
    ASSUME disk \in Data, NEW w \in Worker
    PROVE  /\ \A s \in Status : WithStatus(w, s).mainStatus = disk.mainStatus
           /\ \A s \in MainStatus : WithMainStatus(s).mainStatus = s
           /\ [disk EXCEPT !.mainStatus = "recovering", !.mainWatcher = w].mainStatus
                = "recovering"
           /\ [disk EXCEPT !.watchers = @ \ {w}, !.statuses[w] = "absent"].mainStatus
                = disk.mainStatus
           /\ Registered(w, disk).mainStatus = disk.mainStatus
  BY DEF Data, WithStatus, WithMainStatus, Registered

LEMMA NewFileIsWaiting ==
    ASSUME NEW w \in Worker
    PROVE  Registered(w, NewFile(w)).mainStatus = "waiting"
  BY DEF NewFile, Registered

LEMMA ReadsData ==
    ASSUME TypeInv, NEW w \in Worker, NEW at, Reads(w, at)
    PROVE  disk \in Data
  BY DEF TypeInv, TypeOK, LockInv, Reads, Entering

LEMMA StepKeepsSuccessInv ==
    ASSUME TypeInv, SuccessInv, NEW w \in Worker, Step(w)
    PROVE  SuccessInv'
  <1>. USE ConstantsAssumption DEF SuccessInv, PastBarrier
  <1>. pc \in [Worker -> PC] /\ exc \in [Worker -> {"none", "fnf", "error"}]
    BY DEF TypeInv, TypeOK
  <1>0. ASSUME NEW data, LockAndEdit(w, data), lock = NoWorker, UNCHANGED exc,
               performed = {} => data.mainStatus # "done"
        PROVE  SuccessInv'
    BY <1>0 DEF LockAndEdit, history
  <1>1. CASE OpenForWrite(w)
    BY <1>1 DEF OpenForWrite, local, history
  <1>2. CASE WriteBack(w)
    <2>1. pc[w] \in Writing
      BY <1>2 DEF WriteBack, TypeInv, LockInv
    <2>2. AfterWrite(w)
      BY <1>2 DEF WriteBack
    <2>3. performed = {} => /\ pc'[w] \notin PastBarrier
                            /\ pc'[w] = "exit" => exc'[w] # "none"
      <3>1. CASE pc[w] = "markDone"
        BY <3>1
      <3>2. CASE pc[w] # "markDone"
        BY <2>2, <3>2 DEF AfterWrite, Continue, Raise, Goto, WaitBranch, ExitBranch
      <3>. QED  BY <3>1, <3>2
    <2>4. \A v \in Worker : v # w => pc'[v] = pc[v] /\ exc'[v] = exc[v]
      BY <2>2 DEF AfterWrite, Continue, ReturnFromWait, Raise, Goto
    <2>. QED  BY <1>2, <2>3, <2>4 DEF WriteBack, history
  <1>3. CASE Register(w)
    BY <1>3 DEF Register, Entering, Goto, history
  <1>4. CASE RegisterSelf(w)
    <2>1. disk # NoFile => disk \in Data
      BY <1>4 DEF RegisterSelf, TypeInv, TypeOK, LockInv
    <2>2. performed = {} => buf'.mainStatus # "done"
      BY <1>4, <2>1, EditsAndMainStatus, NewFileIsWaiting DEF RegisterSelf
    <2>. QED  BY <1>4, <2>2 DEF RegisterSelf, local
  <1>5. CASE RegisterMisses(w)
    BY <1>5 DEF RegisterMisses, Goto, local, history
  <1>6. CASE BodyAdvances(w)
    BY <1>6 DEF BodyAdvances, Goto, file, local, history
  <1>7. CASE BodyRaises(w)
    BY <1>7 DEF BodyRaises, Raise, Goto, file
  <1>8. CASE Ready(w)
    BY <1>0, <1>8, ReadsData, EditsAndMainStatus DEF Ready, Reads, Entering, Status, local
  <1>9. CASE WaitMissesFile(w)
    BY <1>9 DEF WaitMissesFile, Raise, Goto, file, history
  <1>10. CASE AllReady(w)
    BY <1>10 DEF AllReady, Goto, file, local, history
  <1>11. ASSUME NEW at \in Writing, NEW s \in MainStatus, UpdateMainStatus(w, at, s),
                s = "done" => at = "markDone"
         PROVE  SuccessInv'
    <2>1. WithMainStatus(s).mainStatus = s
      BY <1>11, ReadsData, EditsAndMainStatus DEF UpdateMainStatus
    <2>2. performed = {} => s # "done"
      BY <1>11 DEF UpdateMainStatus, Reads, Entering
    <2>. QED  BY <1>0, <1>11, <2>1, <2>2 DEF UpdateMainStatus, Reads, Entering, local
  <1>12. CASE MainUpdates(w)
    BY <1>11, <1>12 DEF MainUpdates, Writing, MainStatus
  <1>13. CASE ActionSucceeds(w)
    BY <1>13 DEF ActionSucceeds
  <1>14. CASE ActionFails(w)
    BY <1>14 DEF ActionFails, Goto, file, local
  <1>15. CASE RemoveFailed(w)
    BY <1>15 DEF RemoveFailed, Raise, Goto, history
  <1>16. CASE Poll(w)
    <2>1. disk \in Data
      BY <1>16 DEF Poll, TypeInv, TypeOK
    <2>. QED  BY <1>16, <2>1 DEF Poll, Raise, Goto, file, history
  <1>17. CASE PollFails(w)
    BY <1>17 DEF PollFails, Raise, Goto, file, history
  <1>18. CASE TakeOver(w)
    BY <1>0, <1>18, ReadsData, EditsAndMainStatus DEF TakeOver, Reads, Entering
  <1>19. CASE TakenOverByAnother(w)
    BY <1>19 DEF TakenOverByAnother, WaitBranch, Goto, file, local, history
  <1>20. CASE Unregister(w)
    BY <1>0, <1>20, ReadsData, EditsAndMainStatus DEF Unregister, Reads, Entering, local
  <1>21. CASE UnregisterFails(w)
    BY <1>21 DEF UnregisterFails, Entering, ExitBranch, Goto, file, local, history
  <1>22. CASE ReportError(w)
    BY <1>0, <1>22, ReadsData, EditsAndMainStatus DEF ReportError, Reads, Entering, Status, local
  <1>23. CASE CheckErrors(w)
    BY <1>23 DEF CheckErrors, Goto, file, local, history
  <1>24. CASE RemoveErrors(w)
    BY <1>24 DEF RemoveErrors, Goto, local, history
  <1>25. CASE Done(w)
    BY <1>0, <1>25, ReadsData, EditsAndMainStatus DEF Done, Reads, Entering, Status, local
  <1>26. CASE AllDone(w)
    BY <1>26 DEF AllDone, Reads, Entering, Goto, file, local, history
  <1>27. CASE RemoveDone(w)
    BY <1>27 DEF RemoveDone, Goto, local, history
  <1>28. CASE ExitMissesFile(w)
    BY <1>28 DEF ExitMissesFile, Goto, file, local, history
  <1>. QED  BY <1>1, <1>2, <1>3, <1>4, <1>5, <1>6, <1>7, <1>8, <1>9, <1>10, <1>12, <1>13,
               <1>14, <1>15, <1>16, <1>17, <1>18, <1>19, <1>20, <1>21, <1>22, <1>23,
               <1>24, <1>25, <1>26, <1>27, <1>28 DEF Step

\* No worker gets past ready(), or ends its with statement well, unless the action
\* has succeeded: with any number of failures, takeovers and stale files.
THEOREM NoFalseSuccess == Spec => []NoSuccessWithoutAction
  <1>1. Init => SuccessInv
    BY ConstantsAssumption DEF Init, SuccessInv, PastBarrier
  <1>2. TypeInv /\ SuccessInv /\ [Next]_vars => SuccessInv'
    <2>1. ASSUME SuccessInv, UNCHANGED vars  PROVE SuccessInv'
      BY <2>1 DEF SuccessInv, vars, file, local, history
    <2>. QED  BY <2>1, StepKeepsSuccessInv DEF Next, Terminated
  <1>3. SuccessInv => NoSuccessWithoutAction
    BY DEF SuccessInv, PastBarrier, NoSuccessWithoutAction
  <1>. QED  BY TypeInvariance, <1>1, <1>2, <1>3, PTL DEF Spec

-----------------------------------------------------------------------------
(* No failures.  Without exceptions from the action or from a body every   *)
(* main watcher leads the round of the file it created, the file stays     *)
(* until that main watcher unlinks it, and so there is one at a time.      *)

FailurePC == {"markError", "removeFailed", "markActionError", "takeOver",
              "checkErrors", "removeErrors", "markMainError"}
MainPC    == {"barrier", "markActing", "acting", "markDone", "drain", "removeDone"}

\* What a main watcher and the others are up to.
RolesInv ==
    \A w \in Worker :
        /\ pc[w] \notin FailurePC
        /\ ~isRecovering[w] /\ depth[w] = 0
        /\ isMain[w] => exc[w] = "none" /\ pc[w] \notin {"enter", "poll", "exitError", "failed"}
        /\ ~isMain[w] => pc[w] \notin MainPC
        /\ pc[w] = "enter" => exc[w] = "none"

\* The main status on the file, or about to be written to it.
StatusInv ==
    /\ disk \in Data => disk.mainStatus \in {"waiting", "acting", "done"}
    /\ stage # "idle" => buf.mainStatus \in {"waiting", "acting", "done"}

Owner(w) == isMain[w] /\ pc[w] # "finished"

\* A main watcher that has not finished has its file, unless it is creating it.
OwnerInv ==
    /\ \A w \in Worker : Owner(w) =>
            \/ disk # NoFile
            \/ lock = w /\ pc[w] = "registering" /\ stage # "write"
    /\ \A v, w \in Worker : Owner(v) /\ Owner(w) => v = w

QuietInv == TypeInv /\ RolesInv /\ StatusInv /\ OwnerInv

LEMMA StepKeepsQuietInv ==
    ASSUME Quiet', QuietInv, NEW w \in Worker, Step(w)
    PROVE  (RolesInv /\ StatusInv /\ OwnerInv)'
  <1>. USE ConstantsAssumption DEF RolesInv, StatusInv, OwnerInv, Owner
  <1>. TypeInv /\ RolesInv /\ StatusInv /\ OwnerInv
    BY DEF QuietInv
  <1>. /\ pc \in [Worker -> PC] /\ exc \in [Worker -> {"none", "fnf", "error"}]
       /\ isMain \in [Worker -> BOOLEAN] /\ isRecovering \in [Worker -> BOOLEAN]
       /\ depth \in [Worker -> Nat]
    BY DEF TypeInv, TypeOK
  <1>0. ASSUME NEW data, LockAndEdit(w, data), lock = NoWorker, UNCHANGED local,
               data.mainStatus \in {"waiting", "acting", "done"}, disk \in Data
        PROVE  (RolesInv /\ StatusInv /\ OwnerInv)'
    BY <1>0 DEF LockAndEdit, local
  <1>1. CASE OpenForWrite(w)
    BY <1>1 DEF OpenForWrite, local
  <1>2. CASE WriteBack(w)
    <2>1. /\ pc[w] \in Writing /\ buf \in Data
      BY <1>2 DEF WriteBack, TypeInv, LockInv
    <2>2. AfterWrite(w) /\ UNCHANGED <<isMain, isRecovering>>
      BY <1>2 DEF WriteBack
    <2>3. \A v \in Worker : v # w => pc'[v] = pc[v] /\ exc'[v] = exc[v] /\ depth'[v] = depth[v]
      BY <2>2 DEF AfterWrite, Continue, ReturnFromWait, Raise, Goto
    <2>4. /\ depth'[w] = 0 /\ exc'[w] = exc[w] /\ pc'[w] \notin FailurePC \cup {"enter"}
          /\ isMain[w] => pc'[w] \notin {"enter", "poll", "exitError", "failed", "finished"}
          /\ ~isMain[w] => pc'[w] \notin MainPC
      <3>1. CASE pc[w] = "markDone"
        BY <2>2, <3>1 DEF AfterWrite, Continue, ReturnFromWait, Goto, FailurePC, MainPC
      <3>2. CASE pc[w] \in Writing \ {"markDone"}
        BY <2>2, <3>2
           DEF AfterWrite, Continue, Raise, Goto, WaitBranch, ExitBranch, FailurePC, MainPC
      <3>. QED  BY <2>1, <3>1, <3>2
    <2>5. RolesInv'
      BY <2>2, <2>3, <2>4
    <2>6. StatusInv'
      BY <1>2 DEF WriteBack
    <2>7. pc[w] # "finished"
      BY <2>1 DEF Writing
    <2>8. \A v \in Worker : Owner(v) => disk # NoFile
      BY <1>2 DEF WriteBack
    <2>9. OwnerInv'
      BY <1>2, <2>1, <2>2, <2>3, <2>7, <2>8 DEF WriteBack
    <2>. QED  BY <2>5, <2>6, <2>9
  <1>3. CASE Register(w)
    <2>1. stage = "idle" /\ (disk = NoFile => \A v \in Worker : ~Owner(v))
      BY <1>3 DEF Register, Entering, TypeInv, LockInv
    <2>2. /\ pc' = [pc EXCEPT ![w] = "registering"] /\ pc[w] = "enter"
          /\ isMain' = [isMain EXCEPT ![w] = (disk = NoFile)]
          /\ UNCHANGED <<disk, buf, stage, isRecovering, depth, exc>> /\ lock' = w
          /\ lock = NoWorker
      BY <1>3 DEF Register, Entering, Goto
    <2>3. RolesInv'
      BY <2>2 DEF FailurePC, MainPC
    <2>4. OwnerInv'
      BY <2>1, <2>2
    <2>. QED  BY <2>2, <2>3, <2>4
  <1>4. CASE RegisterSelf(w)
    <2>1. disk # NoFile => disk \in Data
      BY <1>4 DEF RegisterSelf, TypeInv, TypeOK, LockInv
    <2>2. buf'.mainStatus \in {"waiting", "acting", "done"}
      BY <1>4, <2>1, EditsAndMainStatus, NewFileIsWaiting DEF RegisterSelf
    <2>. QED  BY <1>4, <2>2 DEF RegisterSelf, local
  <1>5. CASE RegisterMisses(w)
    BY <1>5 DEF RegisterMisses, Goto, local, FailurePC, MainPC
  <1>6. CASE BodyAdvances(w)
    BY <1>6 DEF BodyAdvances, Goto, file, local, FailurePC, MainPC
  <1>7. CASE BodyRaises(w)
    BY <1>7 DEF BodyRaises, Quiet, TypeInv, TypeOK
  <1>8. CASE Ready(w)
    BY <1>0, <1>8, ReadsData, EditsAndMainStatus DEF Ready, Reads, Entering, Status
  <1>9. CASE WaitMissesFile(w)
    <2>1. ~isMain[w]
      BY <1>9 DEF WaitMissesFile, Misses, Entering
    <2>2. pc[w] # "finished"
      BY <1>9 DEF WaitMissesFile, Misses, Entering
    <2>. QED  BY <1>9, <2>1, <2>2 DEF WaitMissesFile, Raise, Goto, file, FailurePC, MainPC
  <1>10. CASE AllReady(w)
    BY <1>10 DEF AllReady, Reads, Entering, Goto, file, local, FailurePC, MainPC
  <1>11. ASSUME NEW at \in Writing, NEW s \in {"acting", "done"}, UpdateMainStatus(w, at, s)
         PROVE  (RolesInv /\ StatusInv /\ OwnerInv)'
    <2>1. disk \in Data /\ WithMainStatus(s).mainStatus = s
      BY <1>11, ReadsData, EditsAndMainStatus DEF UpdateMainStatus, MainStatus
    <2>. QED  BY <1>0, <1>11, <2>1 DEF UpdateMainStatus, Reads, Entering
  <1>12. CASE MainUpdates(w)
    <2>1. ASSUME NEW at \in FailurePC, NEW s, UpdateMainStatus(w, at, s)  PROVE FALSE
      BY <2>1 DEF UpdateMainStatus, Reads, Entering
    <2>. QED  BY <1>11, <1>12, <2>1 DEF MainUpdates, Writing, FailurePC
  <1>13. CASE ActionSucceeds(w)
    BY <1>13 DEF ActionSucceeds, Goto, file, local, FailurePC, MainPC
  <1>14. CASE ActionFails(w)
    BY <1>14 DEF ActionFails, Quiet, TypeInv, TypeOK
  <1>15. CASE RemoveFailed(w)
    BY <1>15 DEF RemoveFailed, FailurePC
  <1>16. CASE Poll(w)
    <2>1. disk \in Data
      BY <1>16 DEF Poll, TypeInv, TypeOK
    <2>. QED  BY <1>16, <2>1 DEF Poll, ReturnFromWait, Raise, Goto, file, FailurePC, MainPC
  <1>17. CASE PollFails(w)
    BY <1>17 DEF PollFails, Raise, Goto, file, FailurePC, MainPC
  <1>18. CASE TakeOver(w)
    BY <1>18 DEF TakeOver, Reads, Entering, FailurePC
  <1>19. CASE TakenOverByAnother(w)
    BY <1>19 DEF TakenOverByAnother, Reads, Entering, FailurePC
  <1>20. CASE Unregister(w)
    BY <1>0, <1>20, ReadsData, EditsAndMainStatus DEF Unregister, Reads, Entering
  <1>21. CASE UnregisterFails(w)
    BY <1>21 DEF UnregisterFails, Entering, ExitBranch, Goto, file, local, FailurePC, MainPC
  <1>22. CASE ReportError(w)
    BY <1>0, <1>22, ReadsData, EditsAndMainStatus DEF ReportError, Reads, Entering, Status
  <1>23. CASE CheckErrors(w)
    BY <1>23 DEF CheckErrors, Reads, Entering, FailurePC
  <1>24. CASE RemoveErrors(w)
    BY <1>24 DEF RemoveErrors, FailurePC
  <1>25. CASE Done(w)
    BY <1>0, <1>25, ReadsData, EditsAndMainStatus DEF Done, Reads, Entering, Status
  <1>26. CASE AllDone(w)
    BY <1>26 DEF AllDone, Reads, Entering, Goto, file, local, FailurePC, MainPC
  <1>27. CASE RemoveDone(w)
    <2>1. Owner(w) /\ disk # NoFile
      BY <1>27 DEF RemoveDone, MainPC
    <2>. QED  BY <1>27, <2>1 DEF RemoveDone, Goto, local, FailurePC, MainPC
  <1>28. CASE ExitMissesFile(w)
    <2>1. ~isMain[w]
      BY <1>28 DEF ExitMissesFile, Misses, Entering
    <2>. QED  BY <1>28, <2>1 DEF ExitMissesFile, Misses, Entering, Goto, file, local,
                                 FailurePC, MainPC
  <1>. QED  BY <1>1, <1>2, <1>3, <1>4, <1>5, <1>6, <1>7, <1>8, <1>9, <1>10, <1>12, <1>13,
               <1>14, <1>15, <1>16, <1>17, <1>18, <1>19, <1>20, <1>21, <1>22, <1>23,
               <1>24, <1>25, <1>26, <1>27, <1>28 DEF Step

\* What has failed has failed for good.
LEMMA FailuresStay ==
    ASSUME TypeInv, NEW w \in Worker, Step(w), Quiet'
    PROVE  Quiet
  <1>1. actionErrors \in Nat /\ bodyErrors \in Nat
    BY ConstantsAssumption DEF TypeInv, TypeOK
  <1>2. CASE BodyRaises(w)
    BY <1>1, <1>2 DEF BodyRaises, Quiet
  <1>3. CASE ActionFails(w)
    BY <1>1, <1>3 DEF ActionFails, Quiet
  <1>4. OpenForWrite(w) => UNCHANGED <<actionErrors, bodyErrors>>
    BY DEF OpenForWrite, history
  <1>5. WriteBack(w) => UNCHANGED <<actionErrors, bodyErrors>>
    BY DEF WriteBack, history, AfterWrite
  <1>6. Register(w) => UNCHANGED <<actionErrors, bodyErrors>>
    BY DEF Register, history
  <1>7. RegisterSelf(w) => UNCHANGED <<actionErrors, bodyErrors>>
    BY DEF RegisterSelf, NewFile
  <1>8. RegisterMisses(w) => UNCHANGED <<actionErrors, bodyErrors>>
    BY DEF RegisterMisses, history
  <1>9. BodyAdvances(w) => UNCHANGED <<actionErrors, bodyErrors>>
    BY DEF BodyAdvances, history
  <1>10. Ready(w) => UNCHANGED <<actionErrors, bodyErrors>>
    BY DEF Ready, LockAndEdit, WithStatus, Reads, history
  <1>11. WaitMissesFile(w) => UNCHANGED <<actionErrors, bodyErrors>>
    BY DEF WaitMissesFile, history, Misses
  <1>12. AllReady(w) => UNCHANGED <<actionErrors, bodyErrors>>
    BY DEF AllReady, history, Reads
  <1>13. MainUpdates(w) => UNCHANGED <<actionErrors, bodyErrors>>
    BY DEF MainUpdates, UpdateMainStatus, LockAndEdit, history
  <1>14. ActionSucceeds(w) => UNCHANGED <<actionErrors, bodyErrors>>
    BY DEF ActionSucceeds
  <1>15. RemoveFailed(w) => UNCHANGED <<actionErrors, bodyErrors>>
    BY DEF RemoveFailed, history
  <1>16. Poll(w) => UNCHANGED <<actionErrors, bodyErrors>>
    BY DEF Poll, history
  <1>17. PollFails(w) => UNCHANGED <<actionErrors, bodyErrors>>
    BY DEF PollFails, history
  <1>18. TakeOver(w) => UNCHANGED <<actionErrors, bodyErrors>>
    BY DEF TakeOver, LockAndEdit, Reads, history
  <1>19. TakenOverByAnother(w) => UNCHANGED <<actionErrors, bodyErrors>>
    BY DEF TakenOverByAnother, history, Reads
  <1>20. Unregister(w) => UNCHANGED <<actionErrors, bodyErrors>>
    BY DEF Unregister, LockAndEdit, Reads, history
  <1>21. UnregisterFails(w) => UNCHANGED <<actionErrors, bodyErrors>>
    BY DEF UnregisterFails, history
  <1>22. ReportError(w) => UNCHANGED <<actionErrors, bodyErrors>>
    BY DEF ReportError, LockAndEdit, WithStatus, Reads, history
  <1>23. CheckErrors(w) => UNCHANGED <<actionErrors, bodyErrors>>
    BY DEF CheckErrors, history, Reads
  <1>24. RemoveErrors(w) => UNCHANGED <<actionErrors, bodyErrors>>
    BY DEF RemoveErrors, history
  <1>25. Done(w) => UNCHANGED <<actionErrors, bodyErrors>>
    BY DEF Done, LockAndEdit, WithStatus, Reads, history
  <1>26. AllDone(w) => UNCHANGED <<actionErrors, bodyErrors>>
    BY DEF AllDone, history, Reads
  <1>27. RemoveDone(w) => UNCHANGED <<actionErrors, bodyErrors>>
    BY DEF RemoveDone, history
  <1>28. ExitMissesFile(w) => UNCHANGED <<actionErrors, bodyErrors>>
    BY DEF ExitMissesFile, history, Misses
  <1>. QED
    BY <1>2, <1>3, <1>4, <1>5, <1>6, <1>7, <1>8, <1>9, <1>10, <1>11, <1>12, <1>13, <1>14, <1>15, <1>16, <1>17, <1>18, <1>19, <1>20, <1>21, <1>22, <1>23, <1>24, <1>25, <1>26, <1>27, <1>28 DEF Step, Quiet

THEOREM QuietInvariance == Spec => [](Quiet => QuietInv)
  <1>1. Init => QuietInv
    BY InitTypeInv, ConstantsAssumption
       DEF Init, QuietInv, RolesInv, StatusInv, OwnerInv, Owner, FailurePC, MainPC
  <1>2. TypeInv /\ (Quiet => QuietInv) /\ [Next]_vars => (Quiet => QuietInv)'
    <2>1. ASSUME TypeInv, Quiet => QuietInv, NEW w \in Worker, Step(w), Quiet'
          PROVE  QuietInv'
      <3>1. QuietInv
        BY <2>1, FailuresStay
      <3>. QED  BY <2>1, <3>1, StepKeepsTypeInv, StepKeepsQuietInv DEF QuietInv
    <2>2. ASSUME Quiet => QuietInv, UNCHANGED vars, Quiet'  PROVE QuietInv'
      BY <2>2 DEF Quiet, QuietInv, TypeInv, TypeOK, LockInv, RolesInv, StatusInv, OwnerInv,
                  Owner, vars, file, local, history
    <2>. QED  BY <2>1, <2>2 DEF Next, Terminated
  <1>. QED  BY <1>1, <1>2, TypeInvariance, PTL DEF Spec

\* Two workers are never in the action at once, as long as nothing fails.
THEOREM OneActsAtATime == Spec => []MutualExclusion
  <1>1. (Quiet => QuietInv) => MutualExclusion
    BY DEF QuietInv, RolesInv, OwnerInv, Owner, MainPC, MutualExclusion
  <1>. QED  BY QuietInvariance, <1>1, PTL

-----------------------------------------------------------------------------
(* Rounds: a round is complete exactly from the success of its main         *)
(* watcher on, and nobody is left waiting in a round that is neither        *)
(* complete nor the current one.                                            *)

\* It leads a round from the moment it has made up the document.
Leading(w) == Owner(w) /\ ~(pc[w] = "registering" /\ stage = "idle")
HasJoined(w) ==
    /\ pc[w] \notin {"enter", "finished", "failed"}
    /\ ~(pc[w] = "registering" /\ stage = "idle")

\* Its main watcher has performed the action of the round.
Complete(w) == pc[w] \in {"markDone", "body", "exit", "exitDone", "drain", "removeDone"}

RoundInv ==
    /\ performed \subseteq 1..round
    /\ disk # NoFile \/ stage # "idle" => round > 0
    /\ \A w \in Worker :
        /\ HasJoined(w) => (joined[w] = round /\ round > 0) \/ joined[w] \in performed
        /\ Leading(w) => joined[w] = round /\ (round \in performed <=> Complete(w))
        /\ pc[w] = "registering" /\ stage = "idle" /\ isMain[w] => disk = NoFile
        /\ pc[w] = "body" => joined[w] \in performed
    /\ (\E w \in Worker : Leading(w)) \/ round = 0 \/ round \in performed
    /\ disk \in Data /\ disk.mainStatus = "done" => round \in performed
    /\ stage # "idle" /\ buf.mainStatus = "done" => round \in performed

\* A step that neither opens nor completes a round, and moves no worker between
\* the stages a round tells apart.
LEMMA KeepsRoundInv ==
    ASSUME RoundInv, UNCHANGED <<round, joined, performed>>,
           disk' # NoFile \/ stage' # "idle" => disk # NoFile \/ stage # "idle",
           \A v \in Worker :
              /\ HasJoined(v)' => HasJoined(v)
              /\ Leading(v)' => Leading(v) /\ (Complete(v)' <=> Complete(v))
              /\ Leading(v) => Leading(v)' \/ round \in performed
              /\ pc'[v] = "registering" /\ stage' = "idle" /\ isMain'[v] => disk' = NoFile
              /\ pc'[v] = "body" => joined[v] \in performed,
           disk' \in Data /\ disk'.mainStatus = "done" => round \in performed,
           stage' # "idle" /\ buf'.mainStatus = "done" => round \in performed
    PROVE  RoundInv'
  BY DEF RoundInv

LEMMA StepKeepsRoundInv ==
    ASSUME Quiet', QuietInv, RoundInv, NEW w \in Worker, Step(w)
    PROVE  RoundInv'
  <1>. USE ConstantsAssumption
  <1>. TypeInv /\ RolesInv /\ StatusInv /\ OwnerInv
    BY DEF QuietInv
  <1>. /\ pc \in [Worker -> PC] /\ isMain \in [Worker -> BOOLEAN]
       /\ joined \in [Worker -> Nat] /\ round \in Nat
    BY DEF TypeInv, TypeOK
  <1>. /\ disk \in Data /\ disk.mainStatus = "done" => round \in performed
       /\ stage # "idle" /\ buf.mainStatus = "done" => round \in performed
       /\ \A v \in Worker : pc[v] = "body" => joined[v] \in performed
       /\ \A v \in Worker : pc[v] = "registering" /\ stage = "idle" /\ isMain[v] => disk = NoFile
    BY DEF RoundInv
  <1>. \A v \in Worker : pc[v] = "registering" => lock = v
    BY DEF TypeInv, LockInv
  \* A main watcher past the action.
  <1>m. isMain[w] /\ pc[w] \in {"markDone", "removeDone"} => joined[w] = round /\ round \in performed
    BY DEF RoundInv, Leading, Owner, Complete
  \* A locked call that has read the file.
  <1>a. ASSUME NEW data, LockAndEdit(w, data), lock = NoWorker, disk # NoFile, UNCHANGED local,
               data.mainStatus = "done" => round \in performed
        PROVE  RoundInv'
    BY <1>a, KeepsRoundInv DEF LockAndEdit, history, local, HasJoined, Leading, Owner, Complete
  \* A call that moves w on without the lock, and may remove the file.
  <1>b. ASSUME NEW to \in PC \ {"enter", "registering"}, Goto(w, to),
               pc[w] \notin {"enter", "registering", "finished", "failed"},
               isMain[w] => \/ to # "finished" /\ (Complete(w) <=> Complete(w)')
                            \/ round \in performed /\ to = "finished",
               to = "body" => joined[w] \in performed,
               UNCHANGED <<isMain, history, stage, buf>>, disk' \in {disk, NoFile}
        PROVE  RoundInv'
    <2>1. \A v \in Worker : v # w => pc'[v] = pc[v]
      BY <1>b DEF Goto
    <2>2. pc'[w] = to
      BY <1>b DEF Goto
    <2>3. disk' \in Data => disk' = disk
      BY <1>b
    <2>4. \A v \in Worker :
             /\ HasJoined(v)' => HasJoined(v)
             /\ pc'[v] = "registering" => pc[v] = "registering"
             /\ pc'[v] = "body" => joined[v] \in performed
      BY <1>b, <2>1, <2>2 DEF HasJoined
    <2>5. \A v \in Worker :
             /\ Leading(v)' => Leading(v) /\ (Complete(v)' <=> Complete(v))
             /\ Leading(v) => Leading(v)' \/ round \in performed
      BY <1>b, <2>1, <2>2 DEF Leading, Owner, Complete
    <2>. QED  BY <1>b, <2>3, <2>4, <2>5, KeepsRoundInv DEF history
  <1>1. CASE OpenForWrite(w)
    BY <1>1, KeepsRoundInv
       DEF OpenForWrite, local, history, HasJoined, Leading, Owner, Complete
  <1>2. CASE WriteBack(w)
    <2>1. /\ pc[w] \in Writing /\ lock = w /\ stage # "idle"
          /\ AfterWrite(w) /\ UNCHANGED <<isMain, isRecovering, history>>
          /\ stage' = "idle" /\ disk' \in {NoFile, buf} /\ (disk' = buf => disk # NoFile)
      BY <1>2 DEF WriteBack, TypeInv, LockInv
    <2>2. \A v \in Worker : v # w => pc'[v] = pc[v] /\ pc[v] # "registering"
      BY <2>1 DEF AfterWrite, Continue, ReturnFromWait, Raise, Goto
    <2>3. /\ pc'[w] \notin {"enter", "registering"}
          /\ isMain[w] => pc'[w] # "finished" /\ (Complete(w)' <=> Complete(w))
          /\ pc'[w] = "body" => joined[w] \in performed
      <3>1. CASE pc[w] = "markDone"
        BY <1>m, <2>1, <3>1 DEF AfterWrite, Continue, ReturnFromWait, Goto, Complete, RolesInv, MainPC
      <3>2. CASE pc[w] \in Writing \ {"markDone"}
        BY <2>1, <3>2 DEF AfterWrite, Continue, Raise, Goto, WaitBranch, ExitBranch,
                          Complete, RolesInv, FailurePC, Writing
      <3>. QED  BY <2>1, <3>1, <3>2
    <2>4. \A v \in Worker :
             /\ HasJoined(v)' => HasJoined(v)
             /\ pc'[v] # "registering"
             /\ pc'[v] = "body" => joined[v] \in performed
      BY <2>1, <2>2, <2>3 DEF HasJoined, Writing
    <2>5. \A v \in Worker :
             /\ Leading(v)' => Leading(v) /\ (Complete(v)' <=> Complete(v))
             /\ Leading(v) => Leading(v)'
      BY <2>1, <2>2, <2>3 DEF Leading, Owner, Complete, Writing
    <2>. QED  BY <2>1, <2>4, <2>5, KeepsRoundInv DEF history
  <1>3. CASE Register(w)
    <2>1. /\ pc' = [pc EXCEPT ![w] = "registering"] /\ pc[w] = "enter"
          /\ isMain' = [isMain EXCEPT ![w] = (disk = NoFile)] /\ ~isMain[w]
          /\ UNCHANGED <<disk, buf, stage, history>> /\ stage = "idle"
          /\ \A v \in Worker : pc[v] # "registering"
      BY <1>3 DEF Register, Entering, Goto, TypeInv, LockInv, RolesInv
    <2>. QED  BY <2>1, KeepsRoundInv DEF HasJoined, Leading, Owner, Complete, history
  <1>4. CASE RegisterSelf(w)
    <2>1. /\ pc[w] = "registering" /\ lock = w /\ stage = "idle" /\ stage' = "open"
          /\ UNCHANGED <<disk, pc, isMain, performed>>
          /\ round' = (IF isMain[w] THEN round + 1 ELSE round)
          /\ joined' = [joined EXCEPT ![w] = round']
      BY <1>4 DEF RegisterSelf, local
    <2>2. \A v \in Worker : v # w =>
             /\ pc[v] # "registering" /\ joined'[v] = joined[v]
             /\ HasJoined(v)' = HasJoined(v) /\ Leading(v)' = Leading(v)
      BY <2>1 DEF HasJoined, Leading, Owner
    <2>3. Leading(w)' = isMain[w] /\ ~Leading(w) /\ ~Complete(w) /\ \A v \in Worker : Complete(v)' = Complete(v)
      BY <2>1 DEF Leading, Owner, Complete
    <2>4. CASE isMain[w]
      <3>1. \A v \in Worker : ~Leading(v)
        BY <2>1, <2>3, <2>4 DEF Leading, OwnerInv, Owner
      <3>2. (round = 0 \/ round \in performed) /\ performed \subseteq 1..round
        BY <3>1 DEF RoundInv
      <3>3. round' = round + 1 /\ joined'[w] = round' /\ round' \notin performed
            /\ performed \subseteq 1..round' /\ round' > 0
        BY <2>1, <2>4, <3>2
      <3>4. \A v \in Worker : HasJoined(v)' => joined'[v] = round' \/ joined'[v] \in performed
        BY <2>2, <3>2, <3>3 DEF RoundInv
      <3>5. \A v \in Worker : Leading(v)' => v = w
        BY <2>2, <3>1
      <3>6. buf'.mainStatus = "waiting"
        BY <1>4, <2>4, NewFileIsWaiting DEF RegisterSelf
      <3>7. disk = NoFile
        BY <2>1, <2>4
      <3>. QED  BY <2>1, <2>2, <2>3, <2>4, <3>3, <3>4, <3>5, <3>6, <3>7 DEF RoundInv
    <2>5. CASE ~isMain[w]
      <3>1. disk \in Data /\ disk # NoFile
        BY <1>4, <2>5 DEF RegisterSelf, TypeInv, TypeOK, LockInv
      <3>2. buf'.mainStatus = disk.mainStatus
        BY <1>4, <2>5, <3>1, EditsAndMainStatus DEF RegisterSelf
      <3>3. round' = round /\ joined'[w] = round /\ round > 0
        BY <2>1, <2>5, <3>1 DEF RoundInv
      <3>. QED  BY <2>1, <2>2, <2>3, <2>5, <3>1, <3>2, <3>3 DEF RoundInv
    <2>. QED  BY <2>4, <2>5
  <1>5. CASE RegisterMisses(w)
    BY <1>5, KeepsRoundInv
       DEF RegisterMisses, Goto, local, history, HasJoined, Leading, Owner, Complete
  <1>6. CASE BodyAdvances(w)
    BY <1>6, <1>b DEF BodyAdvances, Goto, file, local, PC, Complete
  <1>7. CASE BodyRaises(w)
    BY <1>7 DEF BodyRaises, Quiet, TypeInv, TypeOK
  <1>8. CASE Ready(w)
    BY <1>a, <1>8, ReadsData, EditsAndMainStatus DEF Ready, Reads, Entering, Status
  <1>9. CASE WaitMissesFile(w)
    <2>1. ~isMain[w]
      BY <1>9 DEF WaitMissesFile, Misses, Entering, OwnerInv, Owner
    <2>. QED  BY <1>9, <1>b, <2>1 DEF WaitMissesFile, Misses, Entering, Raise, file, PC
  <1>10. CASE AllReady(w)
    BY <1>10, <1>b DEF AllReady, Reads, Entering, Goto, file, local, PC, Complete
  <1>11. CASE MainUpdates(w)
    <2>1. ASSUME NEW at \in FailurePC, NEW s, UpdateMainStatus(w, at, s)  PROVE FALSE
      BY <2>1 DEF UpdateMainStatus, Reads, Entering, RolesInv
    <2>2. ASSUME NEW at, NEW s \in {"acting", "done"}, UpdateMainStatus(w, at, s),
                 s = "done" => at = "markDone"
          PROVE  RoundInv'
      <3>1. disk \in Data /\ WithMainStatus(s).mainStatus = s
        BY <2>2, ReadsData, EditsAndMainStatus DEF UpdateMainStatus, MainStatus
      <3>2. s = "done" => round \in performed
        BY <1>m, <2>2 DEF UpdateMainStatus, Reads, Entering, RolesInv, MainPC
      <3>. QED  BY <1>a, <2>2, <3>1, <3>2 DEF UpdateMainStatus, Reads, Entering
    <2>. QED  BY <1>11, <2>1, <2>2 DEF MainUpdates, FailurePC
  <1>12. CASE ActionSucceeds(w)
    <2>1. /\ pc[w] = "acting" /\ isMain[w] /\ UNCHANGED <<disk, lock, buf, stage, isMain, round, joined>>
          /\ pc' = [pc EXCEPT ![w] = "markDone"] /\ performed' = performed \cup {joined[w]}
      BY <1>12 DEF ActionSucceeds, Goto, file, local, RolesInv, MainPC
    <2>2. Leading(w) /\ HasJoined(w) /\ joined[w] = round /\ round > 0 /\ performed \subseteq 1..round
      <3>1. Leading(w) /\ HasJoined(w)
        BY <2>1 DEF Leading, Owner, HasJoined
      <3>. QED  BY <3>1 DEF RoundInv
    <2>3. performed' \subseteq 1..round /\ round \in performed'
      BY <2>1, <2>2
    <2>4. \A v \in Worker : Leading(v)' => v = w
      BY <2>1, <2>2 DEF Leading, OwnerInv, Owner
    <2>5. Leading(w)' /\ Complete(w)'
      BY <2>1 DEF Leading, Owner, Complete
    <2>6. \A v \in Worker : HasJoined(v)' => joined'[v] = round \/ joined'[v] \in performed'
      BY <2>1 DEF HasJoined, RoundInv
    <2>7. \A v \in Worker :
             /\ pc'[v] = "registering" => pc[v] = "registering"
             /\ pc'[v] = "body" => joined'[v] \in performed'
      BY <2>1
    <2>. QED  BY <2>1, <2>2, <2>3, <2>4, <2>5, <2>6, <2>7 DEF RoundInv
  <1>13. CASE ActionFails(w)
    BY <1>13 DEF ActionFails, Quiet, TypeInv, TypeOK
  <1>14. CASE Poll(w)
    <2>1. disk \in Data
      BY <1>14 DEF Poll, TypeInv, TypeOK
    <2>2. pc[w] = "poll" /\ disk.mainStatus = "done" /\ Goto(w, "body")
          /\ UNCHANGED <<file, isMain, history>>
      BY <1>14, <2>1 DEF Poll, ReturnFromWait, RolesInv, StatusInv
    <2>3. joined[w] \in performed /\ ~isMain[w]
      BY <2>1, <2>2 DEF RoundInv, HasJoined, RolesInv
    <2>. QED  BY <1>b, <2>2, <2>3 DEF file, PC
  <1>15. CASE PollFails(w)
    BY <1>15, <1>b DEF PollFails, Raise, file, PC, RolesInv
  <1>16. CASE RemoveFailed(w) \/ TakeOver(w) \/ TakenOverByAnother(w) \/ CheckErrors(w) \/ RemoveErrors(w)
    BY <1>16 DEF RemoveFailed, TakeOver, TakenOverByAnother, CheckErrors, RemoveErrors,
                 Reads, Entering, RolesInv, FailurePC
  <1>17. CASE Unregister(w)
    BY <1>a, <1>17, ReadsData, EditsAndMainStatus DEF Unregister, Reads, Entering
  <1>18. CASE UnregisterFails(w)
    <2>1. pc[w] = "exit" /\ Goto(w, ExitBranch(w)) /\ UNCHANGED <<file, isMain, history>>
      BY <1>18 DEF UnregisterFails, Entering, local
    <2>2. ExitBranch(w) \in {"failed", "exitError", "exitDone"}
          /\ (isMain[w] => ExitBranch(w) = "exitDone")
      BY DEF ExitBranch, RolesInv
    <2>. QED  BY <1>b, <2>1, <2>2 DEF file, PC, Goto, Complete
  <1>19. CASE ReportError(w)
    BY <1>a, <1>19, ReadsData, EditsAndMainStatus DEF ReportError, Reads, Entering, Status
  <1>20. CASE Done(w)
    BY <1>a, <1>20, ReadsData, EditsAndMainStatus DEF Done, Reads, Entering, Status
  <1>21. CASE AllDone(w)
    BY <1>21, <1>b DEF AllDone, Reads, Entering, Goto, file, local, PC, Complete
  <1>22. CASE RemoveDone(w)
    <2>1. isMain[w] /\ disk # NoFile
      BY <1>22 DEF RemoveDone, RolesInv, MainPC, OwnerInv, Owner
    <2>. QED  BY <1>22, <1>b, <1>m, <2>1 DEF RemoveDone, local, PC
  <1>23. CASE ExitMissesFile(w)
    <2>1. ~isMain[w]
      BY <1>23 DEF ExitMissesFile, Misses, Entering, OwnerInv, Owner
    <2>. QED  BY <1>23, <1>b, <2>1 DEF ExitMissesFile, Misses, Entering, file, local, PC
  <1>. QED  BY <1>1, <1>2, <1>3, <1>4, <1>5, <1>6, <1>7, <1>8, <1>9, <1>10, <1>11, <1>12,
               <1>13, <1>14, <1>15, <1>16, <1>17, <1>18, <1>19, <1>20, <1>21, <1>22,
               <1>23 DEF Step

THEOREM RoundInvariance == Spec => [](Quiet => RoundInv)
  <1>1. Init => RoundInv
    BY ConstantsAssumption DEF Init, RoundInv, Leading, Owner, HasJoined, Complete
  <1>2. TypeInv /\ (Quiet => QuietInv) /\ (Quiet => RoundInv) /\ [Next]_vars
          => (Quiet => RoundInv)'
    <2>1. ASSUME Quiet => RoundInv, UNCHANGED vars, Quiet'  PROVE RoundInv'
      BY <2>1 DEF Quiet, RoundInv, Leading, Owner, HasJoined, Complete, vars, file, local, history
    <2>2. ASSUME TypeInv, Quiet => QuietInv, Quiet => RoundInv, NEW w \in Worker, Step(w), Quiet'
          PROVE  RoundInv'
      BY <2>2, FailuresStay, StepKeepsRoundInv
    <2>. QED  BY <2>1, <2>2 DEF Next, Terminated
  <1>. QED  BY TypeInvariance, QuietInvariance, <1>1, <1>2, PTL DEF Spec

\* As long as nothing fails, ready() returns to a worker only after the action of
\* the file that worker registered in, whatever files came before.
THEOREM ReleaseIsEarned == Spec => []ReleaseAfterAction
  <1>1. (Quiet => RoundInv) => ReleaseAfterAction
    BY DEF RoundInv, ReleaseAfterAction
  <1>. QED  BY RoundInvariance, <1>1, PTL

\* As long as nothing fails, the action succeeds once in the life of a file.
THEOREM ActionIsPerformedOnce == Spec => PerformedOnce
  <1>1. (Quiet => QuietInv) /\ (Quiet => RoundInv) /\ [Next]_vars
          => [\A w \in Worker : Quiet /\ ActionSucceeds(w) => joined[w] \notin performed]_vars
    <2>. SUFFICES ASSUME QuietInv, RoundInv, NEW w \in Worker, ActionSucceeds(w)
                  PROVE  joined[w] \notin performed
      OBVIOUS
    <2>1. pc[w] = "acting" /\ isMain[w]
      BY DEF ActionSucceeds, QuietInv, RolesInv, MainPC
    <2>. QED  BY <2>1 DEF RoundInv, Leading, Owner, Complete
  <1>. QED  BY QuietInvariance, RoundInvariance, <1>1, PTL DEF Spec, PerformedOnce

-----------------------------------------------------------------------------
(* Registrations.  Between a locked read and the write that follows it the *)
(* file does not change, unless it is unlinked: so what is written back    *)
(* has every watcher the file has, but for a caller of unregister().       *)

RosterInv ==
    /\ stage = "write" => disk \in {Torn, NoFile}
    /\ stage = "open" /\ disk \in Data =>
          \A v \in disk.watchers \ buf.watchers : lock = v /\ pc[v] = "exit"
    /\ \A w \in Worker :
          pc[w] = "registering" /\ stage = "idle" /\ isMain[w] => disk = NoFile

LEMMA EditsAndWatchers ==
    ASSUME disk \in Data, NEW w \in Worker
    PROVE  /\ \A s : WithStatus(w, s).watchers = disk.watchers
           /\ \A s : WithMainStatus(s).watchers = disk.watchers
           /\ [disk EXCEPT !.mainStatus = "recovering", !.mainWatcher = w].watchers
                = disk.watchers
           /\ [disk EXCEPT !.watchers = @ \ {w}, !.statuses[w] = "absent"].watchers
                = disk.watchers \ {w}
           /\ Registered(w, disk).watchers = disk.watchers \cup {w}
  BY DEF Data, WithStatus, WithMainStatus, Registered

LEMMA StepKeepsRosterInv ==
    ASSUME TypeInv, RosterInv, NEW w \in Worker, Step(w)
    PROVE  RosterInv'
  <1>. USE ConstantsAssumption DEF RosterInv
  <1>. pc \in [Worker -> PC] /\ (disk = NoFile => disk \notin Data) /\ (disk = Torn => disk \notin Data)
    BY DEF TypeInv, TypeOK
  <1>. lock = NoWorker => stage = "idle"
    BY DEF TypeInv, LockInv
  <1>. \A v \in Worker : pc[v] = "registering" => lock = v
    BY DEF TypeInv, LockInv
  \* A locked call that has read the file, and keeps its watchers.
  <1>a. ASSUME NEW data, LockAndEdit(w, data), lock = NoWorker,
               \A v \in disk.watchers \ data.watchers : v = w /\ pc[w] = "exit"
        PROVE  RosterInv'
    BY <1>a DEF LockAndEdit
  \* A call without the lock, of a worker that does not have it.
  <1>b. ASSUME NEW to, to # "registering", Goto(w, to), UNCHANGED <<lock, buf, stage, isMain>>,
               disk' \in {disk, NoFile}, lock # w
        PROVE  RosterInv'
    BY <1>b DEF Goto
  <1>c. pc[w] \notin Writing => lock # w
    BY DEF TypeInv, LockInv, Writing
  <1>1. CASE OpenForWrite(w)
    BY <1>1 DEF OpenForWrite, local
  <1>2. CASE WriteBack(w)
    <2>1. \A v \in Worker : pc'[v] # "registering"
      <3>1. pc[w] \in Writing
        BY <1>2 DEF WriteBack, TypeInv, LockInv
      <3>2. pc'[w] # "registering" /\ \A v \in Worker : v # w => pc'[v] = pc[v]
        BY <1>2, <3>1, AfterWriteTypes DEF WriteBack
      <3>. QED  BY <1>2, <3>2 DEF WriteBack
    <2>. QED  BY <1>2, <2>1 DEF WriteBack
  <1>3. CASE Register(w)
    BY <1>3 DEF Register, Entering, Goto, TypeInv, TypeOK
  <1>4. CASE RegisterSelf(w)
    <2>1. disk \in Data => buf'.watchers = disk.watchers \cup {w}
      BY <1>4, EditsAndWatchers DEF RegisterSelf
    <2>. QED  BY <1>4, <2>1 DEF RegisterSelf, local
  <1>5. CASE RegisterMisses(w)
    BY <1>5 DEF RegisterMisses, Goto, local
  <1>6. CASE BodyAdvances(w) \/ BodyRaises(w)
    BY <1>6, <1>b, <1>c DEF BodyAdvances, BodyRaises, Raise, Writing, file, local
  <1>7. CASE WaitMissesFile(w) \/ AllReady(w) \/ TakenOverByAnother(w) \/ UnregisterFails(w)
             \/ CheckErrors(w) \/ AllDone(w) \/ ExitMissesFile(w)
    <2>1. lock # w
      BY <1>7 DEF WaitMissesFile, AllReady, TakenOverByAnother, UnregisterFails, CheckErrors,
                  AllDone, ExitMissesFile, Reads, Misses, Entering
    <2>2. \E to : to # "registering" /\ Goto(w, to)
      BY <1>7 DEF WaitMissesFile, AllReady, TakenOverByAnother, UnregisterFails, CheckErrors,
                  AllDone, ExitMissesFile, Raise, WaitBranch, ExitBranch
    <2>3. UNCHANGED file /\ UNCHANGED isMain
      BY <1>7 DEF WaitMissesFile, AllReady, TakenOverByAnother, UnregisterFails, CheckErrors,
                  AllDone, ExitMissesFile, local
    <2>. QED  BY <1>b, <2>1, <2>2, <2>3 DEF file
  <1>8. CASE ActionSucceeds(w) \/ ActionFails(w) \/ Poll(w) \/ PollFails(w)
    <2>1. pc[w] \in {"acting", "poll"} /\ UNCHANGED file /\ UNCHANGED isMain
      BY <1>8 DEF ActionSucceeds, ActionFails, Poll, PollFails, local
    <2>2. \E to : to # "registering" /\ Goto(w, to)
      BY <1>8 DEF ActionSucceeds, ActionFails, Poll, PollFails, Raise, ReturnFromWait
    <2>. QED  BY <1>b, <1>c, <2>1, <2>2 DEF file, Writing
  <1>9. CASE RemoveFailed(w) \/ RemoveErrors(w) \/ RemoveDone(w)
    <2>1. pc[w] \in {"removeFailed", "removeErrors", "removeDone"} /\ disk' = NoFile
          /\ UNCHANGED <<lock, buf, stage, isMain>>
      BY <1>9 DEF RemoveFailed, RemoveErrors, RemoveDone, local
    <2>2. \E to : to # "registering" /\ Goto(w, to)
      BY <1>9 DEF RemoveFailed, RemoveErrors, RemoveDone, Raise
    <2>. QED  BY <1>b, <1>c, <2>1, <2>2 DEF Writing
  <1>10. CASE Ready(w) \/ ReportError(w) \/ Done(w) \/ MainUpdates(w) \/ TakeOver(w)
    <2>1. \E at : Reads(w, at)
      BY <1>10 DEF Ready, ReportError, Done, MainUpdates, UpdateMainStatus, TakeOver
    <2>2. disk \in Data /\ lock = NoWorker
      BY <2>1, ReadsData DEF Reads, Entering
    <2>3. \E data : LockAndEdit(w, data) /\ data.watchers = disk.watchers
      <3>1. CASE MainUpdates(w)
        <4>1. \E s : LockAndEdit(w, WithMainStatus(s))
          BY <3>1 DEF MainUpdates, UpdateMainStatus
        <4>. QED  BY <2>2, <4>1, EditsAndWatchers
      <3>2. CASE TakeOver(w)
        BY <2>2, <3>2, EditsAndWatchers DEF TakeOver
      <3>3. CASE Ready(w) \/ ReportError(w) \/ Done(w)
        <4>1. \E s : LockAndEdit(w, WithStatus(w, s))
          BY <3>3 DEF Ready, ReportError, Done
        <4>. QED  BY <2>2, <4>1, EditsAndWatchers
      <3>. QED  BY <1>10, <3>1, <3>2, <3>3
    <2>. QED  BY <1>a, <2>2, <2>3
  <1>11. CASE Unregister(w)
    <2>1. disk \in Data /\ lock = NoWorker /\ pc[w] = "exit"
      BY <1>11, ReadsData DEF Unregister, Reads, Entering
    <2>2. \A v \in disk.watchers \ [disk EXCEPT !.watchers = @ \ {w}, !.statuses[w] = "absent"].watchers : v = w
      BY <2>1, EditsAndWatchers
    <2>. QED  BY <1>a, <1>11, <2>1, <2>2 DEF Unregister
  <1>. QED  BY <1>1, <1>2, <1>3, <1>4, <1>5, <1>6, <1>7, <1>8, <1>9, <1>10, <1>11 DEF Step

\* Registrations survive what the others do to the file, for any failures and takeovers.
THEOREM RegistrationsSurvive == Spec => NoLostRegistration
  <1>. DEFINE Kept == \A v \in Worker : v \in Roster /\ v \notin Roster'
                                          => pc[v] = "exit" \/ disk' = NoFile
  <1>1. Init => RosterInv
    BY ConstantsAssumption DEF Init, RosterInv
  <1>2. TypeInv /\ RosterInv /\ [Next]_vars => RosterInv'
    <2>1. ASSUME RosterInv, UNCHANGED vars  PROVE RosterInv'
      BY <2>1 DEF RosterInv, vars, file, local
    <2>. QED  BY <2>1, StepKeepsRosterInv DEF Next, Terminated
  <1>3. ASSUME TypeInv, RosterInv, NEW w \in Worker, Step(w)  PROVE Kept
    <2>. USE ConstantsAssumption DEF Roster
    <2>. disk \in Data \cup {NoFile, Torn} /\ (stage = "write" => disk \in {Torn, NoFile})
      BY <1>3 DEF TypeInv, TypeOK, RosterInv
    <2>1. CASE OpenForWrite(w)
      BY <1>3, <2>1 DEF OpenForWrite, RosterInv
    <2>2. CASE WriteBack(w)
      BY <1>3, <2>2 DEF WriteBack, TypeInv, LockInv
    <2>3. CASE ~OpenForWrite(w) /\ ~WriteBack(w)
      <3>1. disk' = NoFile \/ disk' = disk
        BY <1>3, <2>3 DEF Step, Register, RegisterSelf, RegisterMisses, BodyAdvances, BodyRaises,
             Ready, WaitMissesFile, AllReady, MainUpdates, UpdateMainStatus, ActionSucceeds,
             ActionFails, RemoveFailed, Poll, PollFails, TakeOver, TakenOverByAnother, Unregister,
             UnregisterFails, ReportError, CheckErrors, RemoveErrors, Done, AllDone, RemoveDone,
             ExitMissesFile, LockAndEdit, file
      <3>2. stage # "idle" => buf' = buf
        <4>1. stage # "idle" => lock # NoWorker
          BY <1>3 DEF TypeInv, LockInv
        <4>. QED
          BY <1>3, <2>3, <4>1 DEF Step, Register, RegisterSelf, RegisterMisses, BodyAdvances,
             BodyRaises, Ready, WaitMissesFile, AllReady, MainUpdates, UpdateMainStatus,
             ActionSucceeds, ActionFails, RemoveFailed, Poll, PollFails, TakeOver,
             TakenOverByAnother, Unregister, UnregisterFails, ReportError, CheckErrors,
             RemoveErrors, Done, AllDone, RemoveDone, ExitMissesFile, Reads, Entering, file
      <3>3. disk = Torn => stage # "idle"
        BY <1>3 DEF TypeInv, LockInv
      <3>. QED  BY <3>1, <3>2, <3>3
    <2>. QED  BY <2>1, <2>2, <2>3
  <1>4. TypeInv /\ RosterInv /\ [Next]_vars => [Kept]_vars
    BY <1>3 DEF Next, Terminated
  <1>. QED  BY <1>1, <1>2, <1>4, TypeInvariance, PTL DEF Spec, NoLostRegistration

-----------------------------------------------------------------------------
(* Refinement.  A step of SharedResource is one of the Rendezvous or       *)
(* changes nothing of it.  The one that needs an invariant is the barrier: *)
(* a worker that has registered in the current round and is not ready yet  *)
(* is pending on the file, so the main watcher, which finds everybody      *)
(* there ready, has missed nobody.                                         *)

Pending(v, data) == v \in data.watchers /\ data.statuses[v] = "pending"
Preparing(v) == pc[v] \in {"setup", "readying"}

ArrivalInv ==
    /\ \A v \in Worker :
        /\ pc[v] = "enter" \/ (pc[v] = "registering" /\ stage = "idle") => joined[v] = 0
        /\ joined[v] <= round
        /\ pc[v] = "registering" /\ stage # "idle" => joined[v] = round /\ Pending(v, buf)
    /\ round \notin performed =>
        \A v \in Worker : Preparing(v) /\ joined[v] = round =>
            /\ disk \in Data => Pending(v, disk)
            /\ stage # "idle" /\ lock # v => Pending(v, buf)

LEMMA EditsAndPending ==
    ASSUME disk \in Data, NEW w \in Worker, NEW v \in Worker, v # w, Pending(v, disk)
    PROVE  /\ \A s : Pending(v, WithStatus(w, s))
           /\ \A s : Pending(v, WithMainStatus(s))
           /\ Pending(v, [disk EXCEPT !.mainStatus = "recovering", !.mainWatcher = w])
           /\ Pending(v, [disk EXCEPT !.watchers = @ \ {w}, !.statuses[w] = "absent"])
           /\ Pending(v, Registered(w, disk))
  BY DEF Data, WithStatus, WithMainStatus, Registered, Pending

LEMMA RegisteredIsPending ==
    ASSUME NEW w \in Worker
    PROVE  /\ disk \in Data => Pending(w, Registered(w, disk))
           /\ Pending(w, Registered(w, NewFile(w)))
  BY DEF Data, NewFile, Registered, Pending

LEMMA StepKeepsArrivalInv ==
    ASSUME Quiet', QuietInv, RoundInv, ArrivalInv, NEW w \in Worker, Step(w)
    PROVE  ArrivalInv'
  <1>. USE ConstantsAssumption DEF ArrivalInv, Preparing
  <1>. TypeInv /\ RolesInv
    BY DEF QuietInv
  <1>. /\ pc \in [Worker -> PC] /\ joined \in [Worker -> Nat] /\ round \in Nat
       /\ NoFile \notin Data /\ Torn \notin Data
    BY DEF TypeInv, TypeOK
  <1>. /\ lock = NoWorker => stage = "idle"
       /\ stage # "idle" => buf \in Data
       /\ \A v \in Worker : pc[v] = "registering" => lock = v
       /\ pc[w] \notin Writing => lock # w
    BY DEF TypeInv, LockInv, Writing
  \* A locked call that has read the file, of a worker that does not prepare or is ready now.
  <1>a. ASSUME NEW data, LockAndEdit(w, data), lock = NoWorker, disk \in Data,
               \A v \in Worker : v # w /\ Pending(v, disk) => Pending(v, data)
        PROVE  ArrivalInv'
    <2>1. lock' = w /\ buf' = data /\ UNCHANGED <<disk, pc, round, joined, performed>>
      BY <1>a DEF LockAndEdit, history
    <2>2. \A v \in Worker : pc[v] # "registering"
      BY <1>a
    <2>3. \A v \in Worker : Pending(v, disk) => Pending(v, disk')
      BY <2>1
    <2>. QED  BY <1>a, <2>1, <2>2 DEF Pending
  \* A call without the lock, of a worker that does not have it.
  <1>b. ASSUME NEW to, to \notin {"enter", "registering", "setup"}, Goto(w, to), lock # w,
               to = "readying" => pc[w] = "setup",
               UNCHANGED <<lock, buf, stage, round, joined>>, performed \subseteq performed',
               disk' \in {disk, NoFile}
        PROVE  ArrivalInv'
    <2>1. \A v \in Worker : /\ Preparing(v)' => Preparing(v)
                            /\ pc'[v] \in {"enter", "registering"} => pc'[v] = pc[v]
      BY <1>b DEF Goto
    <2>2. disk' \in Data => disk' = disk
      BY <1>b
    <2>. QED  BY <1>b, <2>1, <2>2 DEF Pending
  <1>1. CASE OpenForWrite(w)
    BY <1>1 DEF OpenForWrite, local, history, Pending
  <1>2. CASE WriteBack(w)
    <2>1. /\ pc[w] \in Writing /\ lock = w /\ stage # "idle" /\ buf \in Data
          /\ AfterWrite(w) /\ UNCHANGED <<round, joined, performed>>
          /\ stage' = "idle" /\ (disk' = buf \/ disk' \notin Data)
      BY <1>2 DEF WriteBack, TypeInv, LockInv, history
    <2>2. /\ \A v \in Worker : v # w => pc'[v] = pc[v]
          /\ pc'[w] = "setup" => pc[w] = "registering"
          /\ pc'[w] \notin {"enter", "registering", "readying"}
      <3>1. CASE pc[w] = "markDone"
        BY <2>1, <3>1 DEF AfterWrite, Continue, ReturnFromWait, Goto
      <3>2. CASE pc[w] \in Writing \ {"markDone"}
        BY <2>1, <3>2 DEF AfterWrite, Continue, Raise, Goto, WaitBranch, ExitBranch, Writing
      <3>. QED  BY <2>1, <3>1, <3>2
    <2>3. \A v \in Worker : /\ pc'[v] # "registering"
                            /\ pc'[v] = "enter" => pc[v] = "enter"
      BY <2>1, <2>2
    <2>4. \A v \in Worker : Preparing(v)' => (v # w /\ Preparing(v)) \/ (v = w /\ pc[w] = "registering")
      BY <2>2
    <2>5. round \notin performed => \A v \in Worker : Preparing(v)' /\ joined[v] = round => Pending(v, buf)
      BY <2>1, <2>4
    <2>6. (round \notin performed =>
            \A v \in Worker : Preparing(v) /\ joined[v] = round =>
                /\ disk \in Data => Pending(v, disk)
                /\ stage # "idle" /\ lock # v => Pending(v, buf))'
      BY <2>1, <2>5 DEF Pending
    <2>7. (\A v \in Worker :
            /\ pc[v] = "enter" \/ (pc[v] = "registering" /\ stage = "idle") => joined[v] = 0
            /\ joined[v] <= round
            /\ pc[v] = "registering" /\ stage # "idle" => joined[v] = round /\ Pending(v, buf))'
      BY <2>1, <2>3
    <2>. QED  BY <2>6, <2>7
  <1>3. CASE Register(w)
    <2>1. /\ pc' = [pc EXCEPT ![w] = "registering"] /\ pc[w] = "enter" /\ stage' = "idle"
          /\ UNCHANGED <<disk, buf, history>>
      BY <1>3 DEF Register, Entering, Goto
    <2>2. \A v \in Worker : /\ Preparing(v)' => Preparing(v)
                            /\ pc'[v] = "enter" => pc[v] = "enter"
                            /\ pc'[v] = "registering" => v = w
      BY <2>1, <1>3 DEF Register, Entering
    <2>. QED  BY <2>1, <2>2 DEF history, Pending
  <1>4. CASE RegisterSelf(w)
    <2>1. /\ pc[w] = "registering" /\ lock = w /\ stage = "idle" /\ stage' = "open"
          /\ UNCHANGED <<disk, lock, pc, performed>>
          /\ round' = (IF isMain[w] THEN round + 1 ELSE round)
          /\ joined' = [joined EXCEPT ![w] = round']
          /\ isMain[w] \/ disk # NoFile
          /\ buf' = Registered(w, IF isMain[w] THEN NewFile(w) ELSE disk)
      BY <1>4 DEF RegisterSelf
    <2>2. disk # NoFile => disk \in Data
      BY <2>1 DEF TypeInv, TypeOK, LockInv
    <2>3. Pending(w, buf')
      BY <2>1, <2>2, RegisteredIsPending
    <2>4. \A v \in Worker : v # w => joined'[v] = joined[v] /\ pc[v] # "registering"
      BY <2>1
    <2>5. round' \in Nat /\ round' >= round /\ joined'[w] = round'
      BY <2>1
    <2>6. CASE isMain[w]
      <3>1. \A v \in Worker : v # w => joined'[v] # round'
        BY <2>1, <2>4, <2>6
      <3>. QED  BY <2>1, <2>3, <2>4, <2>5, <3>1 DEF Pending
    <2>7. CASE ~isMain[w]
      <3>1. disk \in Data /\ round' = round
        BY <2>1, <2>2, <2>7
      <3>2. \A v \in Worker : v # w /\ Pending(v, disk) => Pending(v, buf')
        BY <2>1, <2>7, <3>1, EditsAndPending
      <3>. QED  BY <2>1, <2>3, <2>4, <2>5, <3>1, <3>2 DEF Pending
    <2>. QED  BY <2>6, <2>7
  <1>5. CASE RegisterMisses(w)
    BY <1>5 DEF RegisterMisses, Goto, local, history, Pending
  <1>6. CASE BodyAdvances(w) \/ BodyRaises(w)
    BY <1>6, <1>b DEF BodyAdvances, BodyRaises, Raise, Writing, file, history
  <1>7. CASE WaitMissesFile(w) \/ AllReady(w) \/ UnregisterFails(w) \/ AllDone(w)
             \/ ExitMissesFile(w)
    <2>1. lock # w /\ UNCHANGED file /\ UNCHANGED history
      BY <1>7 DEF WaitMissesFile, AllReady, UnregisterFails, AllDone, ExitMissesFile,
                  Reads, Misses, Entering
    <2>2. \E to : to \notin {"enter", "registering", "setup", "readying"} /\ Goto(w, to)
      BY <1>7 DEF WaitMissesFile, AllReady, UnregisterFails, AllDone, ExitMissesFile, Raise,
                  ExitBranch
    <2>. QED  BY <1>b, <2>1, <2>2 DEF file, history
  <1>8. CASE ActionSucceeds(w) \/ ActionFails(w) \/ Poll(w) \/ PollFails(w)
    <2>1. pc[w] \in {"acting", "poll"} /\ UNCHANGED file /\ UNCHANGED <<round, joined>>
          /\ performed \subseteq performed'
      BY <1>8 DEF ActionSucceeds, ActionFails, Poll, PollFails, history
    <2>2. \E to : to \notin {"enter", "registering", "setup", "readying"} /\ Goto(w, to)
      BY <1>8 DEF ActionSucceeds, ActionFails, Poll, PollFails, Raise, ReturnFromWait
    <2>. QED  BY <1>b, <2>1, <2>2 DEF file, Writing
  <1>9. CASE RemoveDone(w)
    BY <1>9, <1>b DEF RemoveDone, Writing, local, history
  <1>10. CASE Ready(w) \/ ReportError(w) \/ Done(w)
    <2>1. \E at, s : Reads(w, at) /\ LockAndEdit(w, WithStatus(w, s))
      BY <1>10 DEF Ready, ReportError, Done
    <2>2. disk \in Data /\ lock = NoWorker
      BY <2>1, ReadsData DEF Reads, Entering
    <2>. QED  BY <1>a, <2>1, <2>2, EditsAndPending
  <1>11. CASE MainUpdates(w)
    <2>1. \E at, s : Reads(w, at) /\ LockAndEdit(w, WithMainStatus(s)) /\ at # "readying"
      BY <1>11 DEF MainUpdates, UpdateMainStatus
    <2>2. disk \in Data /\ lock = NoWorker
      BY <2>1, ReadsData DEF Reads, Entering
    <2>. QED  BY <1>a, <2>1, <2>2, EditsAndPending
  <1>12. CASE Unregister(w)
    <2>2. disk \in Data /\ lock = NoWorker
      BY <1>12, ReadsData DEF Unregister, Reads, Entering
    <2>3. \A v \in Worker : v # w /\ Pending(v, disk) => Pending(v, [disk EXCEPT !.watchers = @ \ {w}, !.statuses[w] = "absent"])
      BY <2>2, EditsAndPending
    <2>. QED  BY <1>a, <1>12, <2>2, <2>3 DEF Unregister
  <1>13. CASE RemoveFailed(w) \/ TakeOver(w) \/ TakenOverByAnother(w) \/ CheckErrors(w) \/ RemoveErrors(w)
    BY <1>13 DEF RemoveFailed, TakeOver, TakenOverByAnother, CheckErrors, RemoveErrors,
                 Reads, Entering, RolesInv, FailurePC
  <1>. QED  BY <1>1, <1>2, <1>3, <1>4, <1>5, <1>6, <1>7, <1>8, <1>9, <1>10, <1>11, <1>12,
               <1>13 DEF Step

\* The state of the Rendezvous.
Phases == [w \in Worker |-> PhaseOf(pc[w])]
Rounds == [w \in Worker |-> IF PhaseOf(pc[w]) = "outside" THEN 0 ELSE joined[w]]
AnyOf(S) == IF S = {} THEN NoWorker ELSE CHOOSE w \in S : TRUE
Performer == AnyOf(Chosen)
rendezvous == <<Phases, Rounds, round, Performer, performed>>

LEMMA RendezvousInit == Init => R!Init
  BY ConstantsAssumption DEF Init, R!Init, PhaseOf, Chosen

\* The steps of the Rendezvous, on that state.
LEMMA RendezvousSteps ==
    ASSUME NEW w \in Worker
    PROVE  /\ /\ round = 0 \/ round \in performed
              /\ Performer = NoWorker
              /\ round' = round + 1
              /\ UNCHANGED <<Phases, Rounds, Performer, performed>>
              => R!Next
           /\ /\ Phases[w] = "outside" /\ Phases' = [Phases EXCEPT ![w] = "preparing"]
              /\ round > 0 /\ Rounds' = [Rounds EXCEPT ![w] = round]
              /\ UNCHANGED <<round, Performer, performed>>
              => R!Next
           /\ /\ Phases[w] = "preparing" /\ Phases' = [Phases EXCEPT ![w] = "waiting"]
              /\ UNCHANGED <<Rounds, round, Performer, performed>>
              => R!Next
           /\ /\ Performer = NoWorker /\ round \notin performed
              /\ Phases[w] = "waiting" /\ Rounds[w] = round
              /\ \A v \in Worker : Rounds[v] = round => Phases[v] # "preparing"
              /\ Performer' = w
              /\ UNCHANGED <<Phases, Rounds, round, performed>>
              => R!Next
           /\ /\ Performer = w
              /\ performed' = performed \cup {round} /\ Performer' = NoWorker
              /\ UNCHANGED <<Phases, Rounds, round>>
              => R!Next
           /\ /\ Rounds[w] \in performed
              /\ Phases[w] = "waiting" /\ Phases' = [Phases EXCEPT ![w] = "released"]
              /\ UNCHANGED <<Rounds, round, Performer, performed>>
              => R!Next
           /\ /\ Performer # w
              /\ Phases[w] \in {"outside", "preparing", "waiting", "released"}
              /\ Phases' = [Phases EXCEPT ![w] = "left"]
              /\ UNCHANGED <<Rounds, round, Performer, performed>>
              => R!Next
  <1>1. /\ round = 0 \/ round \in performed
        /\ Performer = NoWorker
        /\ round' = round + 1
        /\ UNCHANGED <<Phases, Rounds, Performer, performed>>
        => R!OpenRound
    BY DEF R!OpenRound, Phases, Rounds, Performer, AnyOf
  <1>2. /\ Phases[w] = "outside" /\ Phases' = [Phases EXCEPT ![w] = "preparing"]
        /\ round > 0 /\ Rounds' = [Rounds EXCEPT ![w] = round]
        /\ UNCHANGED <<round, Performer, performed>>
        => R!Join(w)
    BY DEF R!Join, R!Move, Phases, Rounds, Performer, AnyOf
  <1>3. /\ Phases[w] = "preparing" /\ Phases' = [Phases EXCEPT ![w] = "waiting"]
        /\ UNCHANGED <<Rounds, round, Performer, performed>>
        => R!Arrive(w)
    BY DEF R!Arrive, R!Move, Phases, Rounds, Performer, AnyOf
  <1>4. /\ Performer = NoWorker /\ round \notin performed
        /\ Phases[w] = "waiting" /\ Rounds[w] = round
        /\ \A v \in Worker : Rounds[v] = round => Phases[v] # "preparing"
        /\ Performer' = w
        /\ UNCHANGED <<Phases, Rounds, round, performed>>
        => R!Begin(w)
    BY DEF R!Begin, Phases, Rounds, Performer, AnyOf
  <1>5. /\ Performer = w
        /\ performed' = performed \cup {round} /\ Performer' = NoWorker
        /\ UNCHANGED <<Phases, Rounds, round>>
        => R!Complete(w)
    BY DEF R!Complete, Phases, Rounds, Performer, AnyOf
  <1>6. /\ Rounds[w] \in performed
        /\ Phases[w] = "waiting" /\ Phases' = [Phases EXCEPT ![w] = "released"]
        /\ UNCHANGED <<Rounds, round, Performer, performed>>
        => R!Release(w)
    BY DEF R!Release, R!Move, Phases, Rounds, Performer, AnyOf
  <1>7. /\ Performer # w
        /\ Phases[w] \in {"outside", "preparing", "waiting", "released"}
        /\ Phases' = [Phases EXCEPT ![w] = "left"]
        /\ UNCHANGED <<Rounds, round, Performer, performed>>
        => R!Leave(w)
    BY DEF R!Leave, R!Move, R!Phase, Phases, Rounds, Performer, AnyOf
  <1>. QED  BY <1>1, <1>2, <1>3, <1>4, <1>5, <1>6, <1>7 DEF R!Next

\* Where a call takes a worker, as the Rendezvous sees it.
LEMMA RendezvousGoto ==
    ASSUME pc \in [Worker -> PC], NEW w \in Worker, NEW to, Goto(w, to), joined' = joined
    PROVE  /\ Phases[w] = PhaseOf(pc[w]) /\ Phases' = [Phases EXCEPT ![w] = PhaseOf(to)]
           /\ PhaseOf(to) = PhaseOf(pc[w]) => UNCHANGED Phases
           /\ joined[w] = 0 \/ (PhaseOf(pc[w]) # "outside" /\ PhaseOf(to) # "outside")
                => UNCHANGED Rounds
           /\ (pc[w] \in {"markActing", "acting"} <=> to \in {"markActing", "acting"})
                => UNCHANGED Performer
  <1>1. pc' = [pc EXCEPT ![w] = to]
    BY DEF Goto
  <1>2. Phases[w] = PhaseOf(pc[w]) /\ Phases' = [Phases EXCEPT ![w] = PhaseOf(to)]
    BY <1>1 DEF Phases
  <1>3. PhaseOf(to) = PhaseOf(pc[w]) => UNCHANGED Phases
    BY <1>1 DEF Phases
  <1>4. joined[w] = 0 \/ (PhaseOf(pc[w]) # "outside" /\ PhaseOf(to) # "outside")
          => UNCHANGED Rounds
    <2>. SUFFICES ASSUME joined[w] = 0 \/ (PhaseOf(pc[w]) # "outside" /\ PhaseOf(to) # "outside"),
                         NEW v \in Worker
                  PROVE  (IF PhaseOf(pc'[v]) = "outside" THEN 0 ELSE joined[v])
                           = (IF PhaseOf(pc[v]) = "outside" THEN 0 ELSE joined[v])
      BY DEF Rounds
    <2>1. pc'[v] = IF v = w THEN to ELSE pc[v]
      BY <1>1
    <2>2. CASE v = w
      BY <2>1, <2>2
    <2>3. CASE v # w
      BY <2>1, <2>3
    <2>. QED  BY <2>2, <2>3
  <1>5. (pc[w] \in {"markActing", "acting"} <=> to \in {"markActing", "acting"})
          => UNCHANGED Performer
    <2>1. (pc[w] \in {"markActing", "acting"} <=> to \in {"markActing", "acting"})
            => UNCHANGED Chosen
      BY <1>1 DEF Chosen
    <2>. QED  BY <2>1 DEF Performer
  <1>. QED  BY <1>2, <1>3, <1>4, <1>5

\* At most one worker is chosen.
LEMMA OnePerformer ==
    ASSUME QuietInv, NEW w \in Worker
    PROVE  /\ pc[w] \in {"markActing", "acting"} => Performer = w
           /\ Performer = w => pc[w] \in {"markActing", "acting"}
           /\ isMain[w] /\ pc[w] # "finished" /\ pc[w] \notin {"markActing", "acting"}
                => Performer = NoWorker
           /\ Performer \in Worker \cup {NoWorker}
  <1>1. \A v \in Chosen : v \in Worker /\ Owner(v)
    BY DEF QuietInv, RolesInv, Chosen, MainPC, Owner
  <1>2. \A u, v \in Chosen : u = v
    BY <1>1 DEF QuietInv, OwnerInv
  <1>3. Performer = NoWorker \/ Performer \in Chosen
    BY DEF Performer, AnyOf
  <1>4. Chosen = {} => Performer = NoWorker
    BY DEF Performer, AnyOf
  <1>5. Chosen # {} => Performer \in Chosen
    BY DEF Performer, AnyOf
  <1>6. pc[w] \in {"markActing", "acting"} => Performer = w
    BY <1>2, <1>5 DEF Chosen
  <1>7. Performer = w => pc[w] \in {"markActing", "acting"}
    BY <1>3, ConstantsAssumption DEF Chosen
  <1>8. isMain[w] /\ pc[w] # "finished" /\ pc[w] \notin {"markActing", "acting"}
          => Performer = NoWorker
    <2>. SUFFICES ASSUME isMain[w], pc[w] # "finished", pc[w] \notin {"markActing", "acting"},
                         NEW v \in Chosen
                  PROVE  FALSE
      BY <1>3
    <2>1. v = w
      BY <1>1 DEF QuietInv, OwnerInv, Owner
    <2>. QED  BY <2>1 DEF Chosen
  <1>9. Performer \in Worker \cup {NoWorker}
    BY <1>3 DEF Chosen
  <1>. QED  BY <1>6, <1>7, <1>8, <1>9

LEMMA StepIsRendezvous ==
    ASSUME Quiet', QuietInv, RoundInv, ArrivalInv, NEW w \in Worker, Step(w)
    PROVE  R!Next \/ UNCHANGED rendezvous
  <1>. USE ConstantsAssumption
  <1>. TypeInv /\ RolesInv /\ OwnerInv
    BY DEF QuietInv
  <1>. /\ pc \in [Worker -> PC] /\ joined \in [Worker -> Nat] /\ round \in Nat
       /\ isMain \in [Worker -> BOOLEAN]
    BY DEF TypeInv, TypeOK
  <1>. \A v \in Worker : pc[v] = "registering" => lock = v
    BY DEF TypeInv, LockInv
  <1>. DEFINE Act == {"markActing", "acting"}
  \* Nobody moves, opens a round or joins one.
  <1>a. ASSUME UNCHANGED <<pc, history>>  PROVE UNCHANGED rendezvous
    BY <1>a DEF rendezvous, Phases, Rounds, Performer, Chosen, history
  \* A call that moves w, but not to another phase.
  <1>b. ASSUME NEW to, Goto(w, to), UNCHANGED history, PhaseOf(to) = PhaseOf(pc[w]),
               PhaseOf(to) # "outside" \/ joined[w] = 0, pc[w] \in Act <=> to \in Act
        PROVE  UNCHANGED rendezvous
    BY <1>b, RendezvousGoto DEF rendezvous, history
  \* A call of a worker that does not perform the action, with which it leaves.
  <1>c. ASSUME NEW to, Goto(w, to), UNCHANGED history, PhaseOf(to) = "left",
               pc[w] \notin Act, to \notin Act, PhaseOf(pc[w]) # "outside" \/ joined[w] = 0,
               PhaseOf(pc[w]) \in {"outside", "preparing", "waiting", "released"}
        PROVE  R!Next
    <2>1. Performer # w
      BY <1>c, OnePerformer
    <2>2. /\ Phases[w] = PhaseOf(pc[w]) /\ Phases' = [Phases EXCEPT ![w] = "left"]
          /\ UNCHANGED <<Rounds, Performer, round, performed>>
      BY <1>c, RendezvousGoto DEF history
    <2>. QED  BY <1>c, <2>1, <2>2, RendezvousSteps
  \* A call of a worker that is released.
  <1>d. ASSUME Goto(w, "body"), UNCHANGED history, pc[w] \in {"poll", "markDone"},
               joined[w] \in performed
        PROVE  R!Next
    <2>1. PhaseOf(pc[w]) = "waiting" /\ PhaseOf("body") = "released"
      BY <1>d DEF PhaseOf
    <2>2. /\ Phases[w] = "waiting" /\ Phases' = [Phases EXCEPT ![w] = "released"]
          /\ UNCHANGED <<Rounds, Performer, round, performed>>
      BY <1>d, <2>1, RendezvousGoto DEF history
    <2>3. Rounds[w] = joined[w]
      BY <2>1 DEF Rounds
    <2>. QED  BY <1>d, <2>2, <2>3, RendezvousSteps
  <1>1. CASE OpenForWrite(w)
    BY <1>1, <1>a DEF OpenForWrite
  <1>2. CASE WriteBack(w)
    <2>1. /\ pc[w] \in Writing /\ lock = w /\ stage # "idle"
          /\ AfterWrite(w) /\ UNCHANGED history
      BY <1>2 DEF WriteBack, TypeInv, LockInv
    <2>2. CASE pc[w] = "registering"
      <3>1. Goto(w, "setup")
        BY <2>1, <2>2 DEF AfterWrite, Continue
      <3>2. PhaseOf(pc[w]) = "outside" /\ PhaseOf("setup") = "preparing"
        BY <2>2 DEF PhaseOf
      <3>3. /\ Phases[w] = "outside" /\ Phases' = [Phases EXCEPT ![w] = "preparing"]
            /\ UNCHANGED <<Performer, round, performed>>
        BY <2>1, <2>2, <3>1, <3>2, RendezvousGoto DEF history
      <3>4. joined[w] = round /\ round > 0
        BY <2>1, <2>2 DEF ArrivalInv, RoundInv, HasJoined
      <3>5. Rounds' = [Rounds EXCEPT ![w] = round]
        <4>1. \A v \in Worker : pc'[v] = IF v = w THEN "setup" ELSE pc[v]
          BY <3>1 DEF Goto
        <4>2. ASSUME NEW v \in Worker
              PROVE  (IF PhaseOf(pc'[v]) = "outside" THEN 0 ELSE joined[v])
                       = IF v = w THEN round
                         ELSE IF PhaseOf(pc[v]) = "outside" THEN 0 ELSE joined[v]
          <5>1. CASE v = w
            BY <3>2, <3>4, <4>1, <5>1
          <5>2. CASE v # w
            BY <4>1, <5>2
          <5>. QED  BY <5>1, <5>2
        <4>. QED  BY <2>1, <4>2 DEF Rounds, history
      <3>. QED  BY <3>3, <3>4, <3>5, RendezvousSteps
    <2>3. CASE pc[w] = "readying"
      <3>1. PICK to \in {"barrier", "poll"} : Goto(w, to)
        BY <2>1, <2>3 DEF AfterWrite, Continue, WaitBranch
      <3>2. PhaseOf(pc[w]) = "preparing" /\ PhaseOf(to) = "waiting"
        BY <2>3 DEF PhaseOf
      <3>3. /\ Phases[w] = "preparing" /\ Phases' = [Phases EXCEPT ![w] = "waiting"]
            /\ UNCHANGED <<Rounds, Performer, round, performed>>
        BY <2>1, <2>3, <3>1, <3>2, RendezvousGoto DEF history
      <3>. QED  BY <3>3, RendezvousSteps
    <2>4. CASE pc[w] = "markActing"
      <3>1. Goto(w, "acting")
        BY <2>1, <2>4 DEF AfterWrite, Continue
      <3>. QED  BY <1>b, <2>1, <2>4, <3>1 DEF PhaseOf
    <2>5. CASE pc[w] = "markDone"
      <3>1. Goto(w, "body")
        BY <2>1, <2>5 DEF AfterWrite, Continue, ReturnFromWait, RolesInv
      <3>2. Leading(w) /\ Complete(w)
        BY <2>5 DEF Leading, Owner, Complete, RolesInv, MainPC
      <3>. QED  BY <1>d, <2>1, <2>5, <3>1, <3>2 DEF RoundInv
    <2>6. CASE pc[w] \in {"exit", "exitError", "exitDone"}
      <3>1. PICK to \in {"failed", "exitError", "exitDone", "checkErrors", "drain", "finished"} : Goto(w, to)
        BY <2>1, <2>6 DEF AfterWrite, Continue, ExitBranch
      <3>. QED  BY <1>b, <2>1, <2>6, <3>1 DEF PhaseOf
    <2>7. pc[w] \notin FailurePC
      BY DEF RolesInv
    <2>. QED  BY <2>1, <2>2, <2>3, <2>4, <2>5, <2>6, <2>7 DEF Writing, FailurePC
  <1>3. CASE Register(w)
    <2>1. pc[w] = "enter" /\ Goto(w, "registering") /\ UNCHANGED history /\ joined[w] = 0
      BY <1>3 DEF Register, Entering, ArrivalInv
    <2>. QED  BY <1>b, <2>1 DEF PhaseOf
  <1>4. CASE RegisterSelf(w)
    <2>1. /\ pc[w] = "registering" /\ lock = w /\ stage = "idle"
          /\ UNCHANGED <<pc, performed>>
          /\ round' = (IF isMain[w] THEN round + 1 ELSE round)
          /\ joined' = [joined EXCEPT ![w] = round']
      BY <1>4 DEF RegisterSelf
    <2>2. UNCHANGED <<Phases, Performer>>
      BY <2>1 DEF Phases, Performer, Chosen
    <2>3. PhaseOf(pc[w]) = "outside"
      BY <2>1 DEF PhaseOf
    <2>4. \A v \in Worker : v # w => joined'[v] = joined[v]
      BY <2>1
    <2>5. UNCHANGED Rounds
      BY <2>1, <2>3, <2>4 DEF Rounds
    <2>6. CASE isMain[w]
      <3>1. \A v \in Worker : ~Leading(v)
        BY <2>1, <2>6 DEF Leading, OwnerInv, Owner
      <3>2. round = 0 \/ round \in performed
        BY <3>1 DEF RoundInv
      <3>3. Performer = NoWorker
        BY <2>1, <2>6, OnePerformer
      <3>. QED  BY <2>1, <2>2, <2>5, <2>6, <3>2, <3>3, RendezvousSteps
    <2>7. CASE ~isMain[w]
      BY <2>1, <2>2, <2>5, <2>7 DEF rendezvous
    <2>. QED  BY <2>6, <2>7
  <1>5. CASE RegisterMisses(w)
    <2>1. pc[w] = "registering" /\ Goto(w, "failed") /\ UNCHANGED history /\ joined[w] = 0
      BY <1>5 DEF RegisterMisses, ArrivalInv
    <2>. QED  BY <1>c, <2>1 DEF PhaseOf
  <1>6. CASE BodyAdvances(w)
    <2>1. CASE pc[w] = "setup" /\ Goto(w, "readying")
      BY <1>6, <1>b, <2>1 DEF BodyAdvances, PhaseOf
    <2>2. CASE pc[w] = "body" /\ Goto(w, "exit")
      BY <1>6, <1>c, <2>2 DEF BodyAdvances, PhaseOf
    <2>. QED  BY <1>6, <2>1, <2>2 DEF BodyAdvances
  <1>7. CASE BodyRaises(w) \/ ActionFails(w)
    BY <1>7 DEF BodyRaises, ActionFails, Quiet, TypeInv, TypeOK
  <1>8. CASE Ready(w) \/ MainUpdates(w) \/ Unregister(w) \/ ReportError(w) \/ Done(w)
    BY <1>8, <1>a DEF Ready, MainUpdates, UpdateMainStatus, Unregister, ReportError, Done,
                      LockAndEdit
  <1>9. CASE WaitMissesFile(w)
    <2>1. ~isMain[w] /\ Goto(w, "exit") /\ UNCHANGED history
      BY <1>9 DEF WaitMissesFile, Misses, Entering, Raise, Owner, OwnerInv
    <2>2. pc[w] = "readying"
      BY <1>9, <2>1 DEF WaitMissesFile, Misses, Entering, RolesInv, MainPC, FailurePC
    <2>. QED  BY <1>c, <2>1, <2>2 DEF PhaseOf
  <1>10. CASE AllReady(w)
    <2>1. /\ pc[w] = "barrier" /\ lock = NoWorker /\ AllWatchers("ready") /\ disk \in Data
          /\ Goto(w, "markActing") /\ UNCHANGED history /\ isMain[w]
      BY <1>10, ReadsData DEF AllReady, Reads, Entering, RolesInv, MainPC
    <2>2. Leading(w) /\ HasJoined(w) /\ ~Complete(w)
      BY <2>1 DEF Leading, Owner, HasJoined, Complete
    <2>3. joined[w] = round /\ round \notin performed
      BY <2>2 DEF RoundInv
    <2>4. PhaseOf("markActing") = "waiting" /\ PhaseOf(pc[w]) = "waiting"
      BY <2>1 DEF PhaseOf
    <2>5. Performer = NoWorker
      BY <2>1, OnePerformer
    <2>6. Phases[w] = "waiting" /\ Rounds[w] = round /\ UNCHANGED <<Phases, Rounds, round, performed>>
      <3>1. Rounds[w] = joined[w]
        BY <2>4 DEF Rounds
      <3>. QED  BY <2>1, <2>3, <2>4, <3>1, RendezvousGoto DEF history
    <2>7. ASSUME NEW v \in Worker, Rounds[v] = round  PROVE Phases[v] # "preparing"
      <3>. SUFFICES ASSUME PhaseOf(pc[v]) = "preparing"  PROVE FALSE
        BY DEF Phases
      <3>1. Preparing(v)
        BY DEF PhaseOf, Preparing
      <3>2. joined[v] = round
        BY <2>7 DEF Rounds
      <3>3. Pending(v, disk)
        BY <2>1, <2>3, <3>1, <3>2 DEF ArrivalInv
      <3>. QED  BY <2>1, <3>3 DEF Pending, AllWatchers
    <2>8. Performer' = w
      <3>1. Chosen = {}
        BY <2>5 DEF Performer, AnyOf, Chosen
      <3>2. pc' = [pc EXCEPT ![w] = "markActing"]
        BY <2>1 DEF Goto
      <3>3. Chosen' = {w}
        BY <3>1, <3>2 DEF Chosen
      <3>. QED  BY <3>3 DEF Performer, AnyOf
    <2>. QED  BY <2>3, <2>5, <2>6, <2>7, <2>8, RendezvousSteps
  <1>11. CASE ActionSucceeds(w)
    <2>1. /\ pc[w] = "acting" /\ Goto(w, "markDone") /\ isMain[w]
          /\ performed' = performed \cup {joined[w]} /\ UNCHANGED <<round, joined>>
      BY <1>11 DEF ActionSucceeds, RolesInv, MainPC
    <2>2. Leading(w)
      BY <2>1 DEF Leading, Owner
    <2>3. joined[w] = round
      BY <2>2 DEF RoundInv
    <2>4. UNCHANGED <<Phases, Rounds>>
      BY <2>1, RendezvousGoto DEF PhaseOf
    <2>5. Performer = w
      BY <2>1, OnePerformer
    <2>6. Performer' = NoWorker
      <3>1. pc' = [pc EXCEPT ![w] = "markDone"]
        BY <2>1 DEF Goto
      <3>2. \A v \in Worker : v # w => pc[v] \notin Act
        BY <2>5, OnePerformer
      <3>3. Chosen' = {}
        BY <3>1, <3>2 DEF Chosen
      <3>. QED  BY <3>3 DEF Performer, AnyOf
    <2>. QED  BY <2>1, <2>3, <2>4, <2>5, <2>6, RendezvousSteps
  <1>12. CASE Poll(w)
    <2>1. disk \in Data
      BY <1>12 DEF Poll, TypeInv, TypeOK
    <2>2. pc[w] = "poll" /\ disk.mainStatus = "done" /\ Goto(w, "body") /\ UNCHANGED history
      BY <1>12, <2>1 DEF Poll, ReturnFromWait, RolesInv, StatusInv, QuietInv
    <2>3. joined[w] \in performed
      BY <2>1, <2>2 DEF RoundInv, HasJoined
    <2>. QED  BY <1>d, <2>2, <2>3
  <1>13. CASE PollFails(w)
    <2>1. pc[w] = "poll" /\ Goto(w, "exit") /\ UNCHANGED history
      BY <1>13 DEF PollFails, Raise
    <2>. QED  BY <1>c, <2>1 DEF PhaseOf
  <1>14. CASE UnregisterFails(w) \/ AllDone(w) \/ RemoveDone(w) \/ ExitMissesFile(w)
    <2>1. pc[w] \in {"exit", "drain", "removeDone", "exitError", "checkErrors", "markMainError", "exitDone"}
          /\ UNCHANGED history
      BY <1>14 DEF UnregisterFails, AllDone, RemoveDone, ExitMissesFile, Reads, Misses, Entering
    <2>2. PICK to \in {"failed", "exitError", "exitDone", "removeDone", "finished"} : Goto(w, to)
      BY <1>14 DEF UnregisterFails, AllDone, RemoveDone, ExitMissesFile, ExitBranch
    <2>. QED  BY <1>b, <2>1, <2>2 DEF PhaseOf
  <1>15. CASE RemoveFailed(w) \/ TakeOver(w) \/ TakenOverByAnother(w) \/ CheckErrors(w) \/ RemoveErrors(w)
    BY <1>15 DEF RemoveFailed, TakeOver, TakenOverByAnother, CheckErrors, RemoveErrors,
                 Reads, Entering, RolesInv, FailurePC
  <1>. QED  BY <1>1, <1>2, <1>3, <1>4, <1>5, <1>6, <1>7, <1>8, <1>9, <1>10, <1>11, <1>12,
               <1>13, <1>14, <1>15 DEF Step

\* The main watcher finds on the file whoever is still preparing in its round.
THEOREM ArrivalInvariance == Spec => [](Quiet => ArrivalInv)
  <1>1. Init => ArrivalInv
    BY ConstantsAssumption DEF Init, ArrivalInv, Preparing
  <1>2. TypeInv /\ (Quiet => QuietInv) /\ (Quiet => RoundInv) /\ (Quiet => ArrivalInv) /\ [Next]_vars
          => (Quiet => ArrivalInv)'
    <2>1. ASSUME Quiet => ArrivalInv, UNCHANGED vars, Quiet'  PROVE ArrivalInv'
      BY <2>1 DEF Quiet, ArrivalInv, Preparing, Pending, vars, file, local, history
    <2>2. ASSUME TypeInv, Quiet => QuietInv, Quiet => RoundInv, Quiet => ArrivalInv,
                 NEW w \in Worker, Step(w), Quiet'
          PROVE  ArrivalInv'
      BY <2>2, FailuresStay, StepKeepsArrivalInv
    <2>. QED  BY <2>1, <2>2 DEF Next, Terminated
  <1>. QED  BY TypeInvariance, QuietInvariance, RoundInvariance, <1>1, <1>2, PTL DEF Spec

\* As long as nothing fails, SharedResource is a Rendezvous: every step of its is one of the
\* Rendezvous, or changes nothing that can be seen of it.
THEOREM ImplementsRendezvous == Spec => IsRendezvous
  <1>1. TypeInv /\ (Quiet => QuietInv) /\ (Quiet => RoundInv) /\ (Quiet => ArrivalInv) /\ [Next]_vars
          => [R!Next \/ ~Quiet']_(R!vars)
    <2>1. ASSUME UNCHANGED vars  PROVE UNCHANGED rendezvous
      BY <2>1 DEF rendezvous, Phases, Rounds, Performer, Chosen, vars, history
    <2>2. ASSUME TypeInv, Quiet => QuietInv, Quiet => RoundInv, Quiet => ArrivalInv,
                 NEW w \in Worker, Step(w), Quiet'
          PROVE  R!Next \/ UNCHANGED rendezvous
      BY <2>2, FailuresStay, StepIsRendezvous
    <2>3. UNCHANGED rendezvous => UNCHANGED R!vars
      BY DEF rendezvous, Phases, Rounds, Performer, AnyOf, R!vars
    <2>. QED  BY <2>1, <2>2, <2>3 DEF Next, Terminated
  <1>. QED
    BY TypeInvariance, QuietInvariance, RoundInvariance, ArrivalInvariance, RendezvousInit, <1>1,
       PTL DEF Spec, IsRendezvous
=============================================================================
