--------------------------- MODULE SharedResource ---------------------------
(***************************************************************************)
(* robottelo/utils/shared_resource.py: several pytest-xdist workers meet   *)
(* at a JSON file in /tmp.  The first to register is the main watcher; it  *)
(* waits until every registered watcher is ready, performs the action      *)
(* once, and publishes the outcome through the file.                       *)
(*                                                                         *)
(* A worker is one SharedResource instance used as a context manager:      *)
(* __enter__, the part of the body before ready(), ready(), the rest of    *)
(* the body, __exit__.  pc names the call a worker is in.  The file lock   *)
(* is broker's FileLock (outside this repository): a mutex.  Every locked  *)
(* method is two or three steps, because two things ignore the lock: the   *)
(* poll of a waiting watcher, which can read a file another one has just   *)
(* truncated, and unlink(), which can remove a file another one has read   *)
(* and is about to write back.                                             *)
(***************************************************************************)
EXTENDS Naturals

CONSTANTS
    Worker,           \* the SharedResource instances of one resource name
    Recoverable,      \* those created with action_is_recoverable=True
    NoWorker,         \* nobody holds the lock
    NoFile,           \* the resource file does not exist
    Torn,             \* truncated by write_text(), its data not yet written
    MaxActionErrors,  \* bound: failed attempts of the action
    MaxBodyErrors     \* bound: exceptions in the bodies of the with statements

Status == {"absent", "pending", "ready", "done", "error"}
MainStatus == {"waiting", "acting", "done", "error", "action_error", "recovering"}

\* The JSON document. A watcher without a key in "statuses" has status "absent".
Data == [watchers : SUBSET Worker, statuses : [Worker -> Status],
         mainWatcher : Worker, mainStatus : MainStatus]

ASSUME ConstantsAssumption ==
    /\ Recoverable \subseteq Worker
    /\ NoWorker \notin Worker
    /\ NoFile \notin Data /\ Torn \notin Data /\ NoFile # Torn
    /\ MaxActionErrors \in Nat /\ MaxBodyErrors \in Nat

VARIABLES
    disk,         \* the resource file: NoFile, Torn or its data
    lock,         \* who is inside `with self.lock_file`
    buf,          \* curr_data of the lock holder
    stage,        \* the holder's write_text(): "idle", "open" or "write" comes next
    pc, isMain, isRecovering,
    depth,        \* wait() calls a worker is nested in, through _try_take_over()
    exc,          \* the exception __exit__ is given
    round,        \* history: how many files register() has created
    joined,       \* history: the round each worker registered in
    performed,    \* history: the rounds whose action has succeeded
    actionErrors, bodyErrors

file == <<disk, lock, buf, stage>>
local == <<isMain, isRecovering, depth, exc>>
history == <<round, joined, performed, actionErrors, bodyErrors>>
vars == <<file, pc, local, history>>

PC == {"enter", "registering", "setup", "readying", "barrier", "markActing",
       "acting", "markDone", "markError", "removeFailed", "markActionError",
       "poll", "takeOver", "body", "exit", "exitError", "checkErrors",
       "removeErrors", "markMainError", "exitDone", "drain", "removeDone",
       "finished", "failed"}

Init ==
    /\ disk = NoFile /\ lock = NoWorker /\ buf = NoFile /\ stage = "idle"
    /\ pc = [w \in Worker |-> "enter"]
    /\ isMain = [w \in Worker |-> FALSE]
    /\ isRecovering = [w \in Worker |-> FALSE]
    /\ depth = [w \in Worker |-> 0]
    /\ exc = [w \in Worker |-> "none"]
    /\ round = 0 /\ joined = [w \in Worker |-> 0] /\ performed = {}
    /\ actionErrors = 0 /\ bodyErrors = 0

-----------------------------------------------------------------------------
(* Control flow shared by the methods.                                     *)

Goto(w, to) == pc' = [pc EXCEPT ![w] = to]

\* An exception leaves the body of the with statement and enters __exit__.
Raise(w, e) == Goto(w, "exit") /\ exc' = [exc EXCEPT ![w] = e]

\* Mutant: is_main is not looked at.
WaitBranch_AnyMain(w, main, recovering) ==
    IF ~(recovering /\ w \notin Recoverable) THEN "barrier" ELSE "poll"

\* wait(): the branch a worker takes, given its is_main and is_recovering.
WaitBranch(w, main, recovering) ==
    IF main /\ ~(recovering /\ w \notin Recoverable) THEN "barrier" ELSE "poll"

\* wait() returns: to the body, or to the polling loop that was taking over.
ReturnFromWait(w) ==
    IF depth[w] = 0
    THEN Goto(w, "body") /\ UNCHANGED depth
    ELSE Goto(w, "poll") /\ depth' = [depth EXCEPT ![w] = @ - 1]

\* __exit__ after unregister(), by the exception it was given.
ExitBranch(w) ==
    IF exc[w] = "fnf" THEN "failed"
    ELSE IF exc[w] = "error" THEN "exitError" ELSE "exitDone"

\* _check_all_status(status): vacuously true when nobody is registered.
AllWatchers(status) == \A v \in disk.watchers : disk.statuses[v] = status

\* At call `at`, with the lock free: the file can be read, or it is gone.
Entering(w, at) == pc[w] = at /\ lock = NoWorker
Reads(w, at)    == Entering(w, at) /\ disk # NoFile
Misses(w, at)   == Entering(w, at) /\ disk = NoFile

\* A locked read-modify-write: what was read, as changed, is about to be written.
LockAndEdit(w, data) ==
    /\ lock' = w /\ buf' = data /\ stage' = "open"
    /\ UNCHANGED <<disk, pc, history>>

\* _update_status(status) and _update_main_status(status).
WithStatus(w, status) == [disk EXCEPT !.statuses[w] = status]
WithMainStatus(status) == [disk EXCEPT !.mainStatus = status]

-----------------------------------------------------------------------------
(* write_text() inside the lock: open(path, "w") creates or truncates the  *)
(* file, then the data is written and the lock released.  A file that is   *)
(* unlinked in between takes the data with it.                             *)

\* Mutant: the lock covers the read only.
OpenForWrite_Unlocked(w) ==
    /\ lock = w /\ stage = "open"
    /\ disk' = Torn /\ stage' = "idle" /\ lock' = NoWorker
    /\ UNCHANGED <<buf, pc, local, history>>

OpenForWrite(w) ==
    /\ lock = w /\ stage = "open"
    /\ disk' = Torn /\ stage' = "write"
    /\ UNCHANGED <<lock, buf, pc, local, history>>

\* Where a locked call returns to.
Continue(w, at, to) == pc[w] = at /\ Goto(w, to) /\ UNCHANGED <<depth, exc>>

AfterWrite(w) ==
    \/ Continue(w, "registering", "setup")
    \/ Continue(w, "readying", WaitBranch(w, isMain[w], isRecovering[w]))
    \/ Continue(w, "takeOver", WaitBranch(w, isMain[w], isRecovering[w]))
    \/ Continue(w, "markActing", "acting")
    \/ pc[w] = "markDone" /\ ReturnFromWait(w) /\ UNCHANGED exc
    \/ Continue(w, "markError", "removeFailed")
    \/ pc[w] = "markActionError" /\ Raise(w, "error") /\ UNCHANGED depth
    \/ Continue(w, "exit", ExitBranch(w))
    \/ Continue(w, "exitError", IF isMain[w] THEN "checkErrors" ELSE "failed")
    \/ Continue(w, "markMainError", "failed")
    \/ Continue(w, "exitDone", IF isMain[w] THEN "drain" ELSE "finished")

WriteBack(w) ==
    /\ lock = w /\ stage = "write"
    /\ disk' = IF disk = NoFile THEN NoFile ELSE buf
    /\ lock' = NoWorker /\ buf' = NoFile /\ stage' = "idle"
    /\ AfterWrite(w)
    /\ UNCHANGED <<isMain, isRecovering, history>>

-----------------------------------------------------------------------------
(* register(), in __enter__.                                               *)

\* The lock is taken and exists() decides who is the main watcher.
Register(w) ==
    /\ Entering(w, "enter")
    /\ lock' = w
    /\ isMain' = [isMain EXCEPT ![w] = (disk = NoFile)]
    /\ Goto(w, "registering")
    /\ UNCHANGED <<disk, buf, stage, isRecovering, depth, exc, history>>

NewFile(w) ==
    [watchers |-> {}, statuses |-> [v \in Worker |-> "absent"],
     mainWatcher |-> w, mainStatus |-> "waiting"]

\* Mutant: the list of watchers is assigned, not appended to.
Registered_Assigns(w, data) ==
    [data EXCEPT !.watchers = {w}, !.statuses[w] = "pending"]

Registered(w, data) ==
    [data EXCEPT !.watchers = @ \cup {w}, !.statuses[w] = "pending"]

\* The file is read, or made up by the main watcher, and the worker added to it.
RegisterSelf(w) ==
    /\ pc[w] = "registering" /\ lock = w /\ stage = "idle"
    /\ isMain[w] \/ disk # NoFile
    /\ buf' = Registered(w, IF isMain[w] THEN NewFile(w) ELSE disk)
    /\ stage' = "open"
    /\ round' = IF isMain[w] THEN round + 1 ELSE round
    /\ joined' = [joined EXCEPT ![w] = round']
    /\ UNCHANGED <<disk, lock, pc, local, performed, actionErrors, bodyErrors>>

\* The file was unlinked between exists() and read_text(): __enter__ raises.
RegisterMisses(w) ==
    /\ pc[w] = "registering" /\ lock = w /\ stage = "idle"
    /\ ~isMain[w] /\ disk = NoFile
    /\ lock' = NoWorker
    /\ Goto(w, "failed")
    /\ UNCHANGED <<disk, buf, stage, local, history>>

-----------------------------------------------------------------------------
(* The body of the with statement, around its call of ready().             *)

BodyAdvances(w) ==
    /\ \/ pc[w] = "setup" /\ Goto(w, "readying")
       \/ pc[w] = "body"  /\ Goto(w, "exit")
    /\ UNCHANGED <<file, local, history>>

\* Any exception; a FileNotFoundError of the body's own is told apart by __exit__.
BodyRaises(w) ==
    /\ pc[w] \in {"setup", "body"}
    /\ bodyErrors < MaxBodyErrors /\ bodyErrors' = bodyErrors + 1
    /\ \E e \in {"error", "fnf"} : Raise(w, e)
    /\ UNCHANGED <<file, isMain, isRecovering, depth, round, joined, performed, actionErrors>>

\* ready(): _update_status("ready"), then wait().
Ready(w) ==
    /\ Reads(w, "readying")
    /\ LockAndEdit(w, WithStatus(w, "ready"))
    /\ UNCHANGED local

\* A FileNotFoundError in ready() or in what wait() calls reaches __exit__.
WaitMissesFile(w) ==
    /\ \E at \in {"readying", "barrier", "markActing", "markDone", "markError",
                  "markActionError", "takeOver"} : Misses(w, at)
    /\ Raise(w, "fnf")
    /\ UNCHANGED <<file, isMain, isRecovering, depth, history>>

-----------------------------------------------------------------------------
(* wait() of the main watcher: _wait_for_status("ready"), act().           *)

\* Mutant: the main watcher asks only for its own status.
AllReady_OwnStatus(w) ==
    /\ Reads(w, "barrier") /\ disk.statuses[w] = "ready"
    /\ Goto(w, "markActing")
    /\ UNCHANGED <<file, local, history>>

AllReady(w) ==
    /\ Reads(w, "barrier") /\ AllWatchers("ready")
    /\ Goto(w, "markActing")
    /\ UNCHANGED <<file, local, history>>

UpdateMainStatus(w, at, status) ==
    /\ Reads(w, at)
    /\ LockAndEdit(w, WithMainStatus(status))
    /\ UNCHANGED local

MainUpdates(w) ==
    \/ UpdateMainStatus(w, "markActing", "acting")
    \/ UpdateMainStatus(w, "markDone", "done")
    \/ UpdateMainStatus(w, "markError", "error")
    \/ UpdateMainStatus(w, "markActionError", "action_error")
    \/ UpdateMainStatus(w, "markMainError", "error")

\* Mutant: the result of the action is not published.
ActionSucceeds_Unpublished(w) ==
    /\ pc[w] = "acting"
    /\ performed' = performed \cup {joined[w]}
    /\ ReturnFromWait(w)
    /\ UNCHANGED <<file, isMain, isRecovering, exc, round, joined, actionErrors, bodyErrors>>

\* _perform_action_with_validation() returns a result its validator accepts.
ActionSucceeds(w) ==
    /\ pc[w] = "acting"
    /\ performed' = performed \cup {joined[w]}
    /\ Goto(w, "markDone")
    /\ UNCHANGED <<file, local, round, joined, actionErrors, bodyErrors>>

\* Mutant: the exception of the action is swallowed.
ActionFails_Swallowed(w) ==
    /\ pc[w] = "acting"
    /\ actionErrors < MaxActionErrors /\ actionErrors' = actionErrors + 1
    /\ Goto(w, "markDone")
    /\ UNCHANGED <<file, local, round, joined, performed, bodyErrors>>

\* It raises, or wait_for() gives up on it.
ActionFails(w) ==
    /\ pc[w] = "acting"
    /\ actionErrors < MaxActionErrors /\ actionErrors' = actionErrors + 1
    /\ Goto(w, IF w \in Recoverable THEN "markActionError" ELSE "markError")
    /\ UNCHANGED <<file, local, round, joined, performed, bodyErrors>>

\* act() removes the file outside the lock, then raises SharedResourceError.
RemoveFailed(w) ==
    /\ pc[w] = "removeFailed"
    /\ disk' = NoFile
    /\ Raise(w, IF disk = NoFile THEN "fnf" ELSE "error")
    /\ UNCHANGED <<lock, buf, stage, isMain, isRecovering, depth, history>>

-----------------------------------------------------------------------------
(* wait() of the others: _wait_for_main_watcher() reads without the lock.  *)

\* Mutant: whatever is not "waiting" counts as done.
Poll_Impatient(w) ==
    /\ pc[w] = "poll" /\ disk \notin {NoFile, Torn}
    /\ disk.mainStatus # "waiting"
    /\ ReturnFromWait(w)
    /\ UNCHANGED <<file, isMain, isRecovering, exc, history>>

Poll(w) ==
    /\ pc[w] = "poll" /\ disk \notin {NoFile, Torn}
    /\ \/ /\ disk.mainStatus = "done"
          /\ ReturnFromWait(w) /\ UNCHANGED exc
       \/ /\ disk.mainStatus = "error"
          /\ Raise(w, "error") /\ UNCHANGED depth
       \/ /\ disk.mainStatus = "action_error"
          /\ Goto(w, "takeOver")
          /\ depth' = [depth EXCEPT ![w] = @ + 1] /\ UNCHANGED exc
    /\ UNCHANGED <<file, isMain, isRecovering, history>>

\* No file: FileNotFoundError. A truncated one: JSONDecodeError.
PollFails(w) ==
    /\ pc[w] = "poll" /\ disk \in {NoFile, Torn}
    /\ Raise(w, IF disk = NoFile THEN "fnf" ELSE "error")
    /\ UNCHANGED <<file, isMain, isRecovering, depth, history>>

\* _try_take_over(): the first to find the failure becomes the main watcher.
TakeOver(w) ==
    /\ Reads(w, "takeOver")
    /\ disk.mainStatus \in {"action_error", "error"}
    /\ LockAndEdit(w, [disk EXCEPT !.mainStatus = "recovering", !.mainWatcher = w])
    /\ isMain' = [isMain EXCEPT ![w] = TRUE]
    /\ isRecovering' = [isRecovering EXCEPT ![w] = TRUE]
    /\ UNCHANGED <<depth, exc>>

TakenOverByAnother(w) ==
    /\ Reads(w, "takeOver")
    /\ disk.mainStatus \notin {"action_error", "error"}
    /\ Goto(w, WaitBranch(w, isMain[w], isRecovering[w]))
    /\ UNCHANGED <<file, local, history>>

-----------------------------------------------------------------------------
(* __exit__.                                                               *)

Unregister(w) ==
    /\ Reads(w, "exit") /\ w \in disk.watchers
    /\ LockAndEdit(w, [disk EXCEPT !.watchers = @ \ {w}, !.statuses[w] = "absent"])
    /\ UNCHANGED local

\* unregister() raises (no file, or not the file it registered in): only logged.
UnregisterFails(w) ==
    /\ Entering(w, "exit") /\ (disk # NoFile => w \notin disk.watchers)
    /\ Goto(w, ExitBranch(w))
    /\ UNCHANGED <<file, local, history>>

ReportError(w) ==
    /\ Reads(w, "exitError")
    /\ LockAndEdit(w, WithStatus(w, "error"))
    /\ UNCHANGED local

\* A main watcher that failed: the others have failed too, or are told to.
CheckErrors(w) ==
    /\ Reads(w, "checkErrors")
    /\ Goto(w, IF AllWatchers("error") THEN "removeErrors" ELSE "markMainError")
    /\ UNCHANGED <<file, local, history>>

RemoveErrors(w) ==
    /\ pc[w] = "removeErrors"
    /\ disk' = NoFile
    /\ Goto(w, "failed")
    /\ UNCHANGED <<lock, buf, stage, local, history>>

\* done(): _update_status("done").
Done(w) ==
    /\ Reads(w, "exitDone")
    /\ LockAndEdit(w, WithStatus(w, "done"))
    /\ UNCHANGED local

\* The main watcher's _wait_for_status("done") ...
AllDone(w) ==
    /\ Reads(w, "drain") /\ AllWatchers("done")
    /\ Goto(w, "removeDone")
    /\ UNCHANGED <<file, local, history>>

\* ... and unlink(), outside the lock.
RemoveDone(w) ==
    /\ pc[w] = "removeDone"
    /\ disk' = NoFile
    /\ Goto(w, IF disk = NoFile THEN "failed" ELSE "finished")
    /\ UNCHANGED <<lock, buf, stage, local, history>>

\* No file: caught while handling an exception, raised out of __exit__ otherwise.
ExitMissesFile(w) ==
    /\ \E at \in {"exitError", "checkErrors", "markMainError", "exitDone", "drain"} :
            Misses(w, at)
    /\ Goto(w, "failed")
    /\ UNCHANGED <<file, local, history>>

-----------------------------------------------------------------------------
Step(w) ==
    \/ OpenForWrite(w) \/ WriteBack(w)
    \/ Register(w) \/ RegisterSelf(w) \/ RegisterMisses(w)
    \/ BodyAdvances(w) \/ BodyRaises(w) \/ Ready(w) \/ WaitMissesFile(w)
    \/ AllReady(w) \/ MainUpdates(w)
    \/ ActionSucceeds(w) \/ ActionFails(w) \/ RemoveFailed(w)
    \/ Poll(w) \/ PollFails(w) \/ TakeOver(w) \/ TakenOverByAnother(w)
    \/ Unregister(w) \/ UnregisterFails(w)
    \/ ReportError(w) \/ CheckErrors(w) \/ RemoveErrors(w)
    \/ Done(w) \/ AllDone(w) \/ RemoveDone(w) \/ ExitMissesFile(w)

Gone(w) == pc[w] \in {"finished", "failed"}

\* Every worker has left: nothing more happens to this resource.
Terminated == (\A w \in Worker : Gone(w)) /\ UNCHANGED vars

Next == (\E w \in Worker : Step(w)) \/ Terminated

Spec == Init /\ [][Next]_vars
FairSpec == Spec /\ \A w \in Worker : WF_vars(Step(w))

-----------------------------------------------------------------------------
TypeOK ==
    /\ disk \in Data \cup {NoFile, Torn} /\ buf \in Data \cup {NoFile}
    /\ lock \in Worker \cup {NoWorker} /\ stage \in {"idle", "open", "write"}
    /\ pc \in [Worker -> PC]
    /\ isMain \in [Worker -> BOOLEAN] /\ isRecovering \in [Worker -> BOOLEAN]
    /\ depth \in [Worker -> Nat] /\ exc \in [Worker -> {"none", "fnf", "error"}]
    /\ round \in Nat /\ joined \in [Worker -> Nat] /\ performed \subseteq Nat
    /\ actionErrors \in 0..MaxActionErrors /\ bodyErrors \in 0..MaxBodyErrors

\* Whoever takes the lock finds a whole JSON document or no file, whatever was
\* unlinked or raised meanwhile: json.loads() cannot fail inside the lock.
LockProtectsFile == lock = NoWorker => disk # Torn

\* The watchers on the file, counting the write that is under way.
Roster == CASE disk = NoFile -> {}
            [] disk = Torn   -> buf.watchers
            [] OTHER         -> disk.watchers

\* No update of one worker wipes out the registration of another: a watcher goes
\* from the file only by its own unregister(), or with the file.
NoLostRegistration ==
    [][\A v \in Worker : v \in Roster /\ v \notin Roster'
                           => pc[v] = "exit" \/ disk' = NoFile]_vars

\* Whatever fails, no worker gets past ready(), or ends well, unless the action
\* has succeeded for somebody.
NoSuccessWithoutAction ==
    (\E w \in Worker : pc[w] \in {"body", "exitDone", "drain", "removeDone", "finished"})
        => performed # {}

\* Nothing has failed yet: no exception from an action or a body.
Quiet == actionErrors = 0 /\ bodyErrors = 0


\* Until something fails, never two workers are in the action at once, though main
\* watchers come and go.
MutualExclusion ==
    Quiet => \A v, w \in Worker : pc[v] = "acting" /\ pc[w] = "acting" => v = w

\* Until something fails, ready() returns only after the action of the file the worker registered in has
\* succeeded, never on what an earlier file left behind.
ReleaseAfterAction ==
    Quiet => \A w \in Worker : pc[w] = "body" => joined[w] \in performed

\* Until something fails, the action succeeds once in the life of a file.
PerformedOnce ==
    [][\A w \in Worker : Quiet /\ ActionSucceeds(w) => joined[w] \notin performed]_vars

\* Every worker gets out of the with statement: the barrier neither deadlocks nor
\* leaves a worker polling.
EveryoneLeaves == <>(\A w \in Worker : Gone(w))

\* SharedResource is a Rendezvous.
PhaseOf(p) ==
    CASE p \in {"enter", "registering"}   -> "outside"
      [] p \in {"setup", "readying"}      -> "preparing"
      [] p \in {"barrier", "markActing", "acting", "markDone", "poll", "takeOver"}
                                          -> "waiting"
      [] p = "body"                       -> "released"
      [] OTHER                            -> "left"

Chosen == {w \in Worker : pc[w] \in {"markActing", "acting"}}

R == INSTANCE Rendezvous WITH
        phase     <- [w \in Worker |-> PhaseOf(pc[w])],
        joined    <- [w \in Worker |-> IF PhaseOf(pc[w]) = "outside" THEN 0 ELSE joined[w]],
        current   <- round,
        performer <- IF Chosen = {} THEN NoWorker ELSE CHOOSE w \in Chosen : TRUE,
        completed <- performed

\* Until something fails, every step is one of the rendezvous: the main watcher starts only
\* when every watcher of the round has arrived, one acts at a time, and the rest wait for
\* its result.
IsRendezvous == R!Init /\ [][R!Next \/ ~Quiet']_(R!vars)

(* What the code's own documentation and tests say, and the code does not.  *)

\* "If the main actor fails to complete the action, and the action is recoverable,
\* another process will take over": while somebody is waiting, the failure it
\* announced does not turn into an error that sends the waiting ones away.
AnnouncedStatus == CASE disk = NoFile -> "none"
                     [] disk = Torn   -> buf.mainStatus
                     [] OTHER         -> disk.mainStatus

FailureAwaitsTakeOver ==
    [][(\E w \in Worker : pc[w] = "poll") /\ AnnouncedStatus = "action_error"
         => AnnouncedStatus' # "error"]_vars
=============================================================================
