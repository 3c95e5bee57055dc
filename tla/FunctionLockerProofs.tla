------------------------ MODULE FunctionLockerProofs ------------------------
(***************************************************************************)
(* FunctionLocker for any processes, functions and bounds: the types, that *)
(* workers of one scope take turns, that recursion is seen and refused     *)
(* rightly, and that no call's data is lost but by a cut between truncation*)
(* and writing.  Everything rests on Held(p), the functions p is inside of:*)
(* a process holds the lock files of exactly those, and the process id in a*)
(* lock file is that of its holder, or was left by one that was killed.    *)
(***************************************************************************)
EXTENDS FunctionLocker, SequenceTheorems, TLAPS

LEMMA PopFacts ==
    ASSUME NEW s \in Seq(Function), s # <<>>
    PROVE  LET t == SubSeq(s, 1, Len(s) - 1) IN
           /\ t \in Seq(Function) /\ Len(s) \in Nat \ {0} /\ Len(t) = Len(s) - 1
           /\ \A i \in 1..(Len(s) - 1) : t[i] = s[i]
           /\ s[Len(s)] \in Function /\ (t = <<>> <=> Len(s) = 1)
<1> DEFINE n == Len(s) - 1
           t == SubSeq(s, 1, n)
<1>1. n \in Nat /\ Len(s) = n + 1 /\ \A i \in 1..Len(s) : s[i] \in Function
  BY EmptySeq, LenProperties
<1> HIDE DEF n
<1>2. 1 \in Int /\ n \in Int /\ \A i \in 1..n : s[i] \in Function
  BY <1>1
<1>3. /\ t \in Seq(Function) /\ Len(t) = (IF 1 <= n THEN n - 1 + 1 ELSE 0)
      /\ \A i \in 1..(n - 1 + 1) : t[i] = s[1 + i - 1]
  BY <1>2, SubSeqProperties
<1> HIDE DEF t
<1>4. t \in Seq(Function) /\ Len(t) = n /\ \A i \in 1..n : t[i] = s[i]
  BY <1>1, <1>3
<1>5. t = <<>> <=> n = 0
  BY <1>4, EmptySeq
<1>6. /\ t \in Seq(Function) /\ Len(s) \in Nat \ {0} /\ Len(t) = Len(s) - 1
      /\ \A i \in 1..(Len(s) - 1) : t[i] = s[i]
      /\ s[Len(s)] \in Function /\ (t = <<>> <=> Len(s) = 1)
  BY <1>1, <1>4, <1>5 DEF n
<1> QED
  BY <1>6 DEF t, n

LEMMA AppendFacts ==
    ASSUME NEW s \in Seq(Function), NEW f \in Function
    PROVE  /\ Append(s, f) \in Seq(Function) /\ Len(s) \in Nat
           /\ Len(Append(s, f)) = Len(s) + 1 /\ Append(s, f) # <<>>
           /\ \A i \in 1..Len(s) : Append(s, f)[i] = s[i]
           /\ Append(s, f)[Len(s) + 1] = f
  OBVIOUS

-----------------------------------------------------------------------------
(* Type correctness.                                                       *)

PidInv == \A p, q \in Process : pid[p] = pid[q] => p = q

LEMMA LockFileType ==
    ASSUME TypeOK, NEW p \in Process, NEW f \in Function
    PROVE  LockFile(p, f) \in Files /\ pid[p] \in PidSpace /\ pid[p] # None /\ p # None
  BY ConstantsAssumption DEF TypeOK, LockFile, Files

LEMMA CalledType ==
    ASSUME TypeOK, NEW p \in Process, pc[p] # "idle"
    PROVE  /\ Called(p) \in Function /\ Mine(p) \in Files
           /\ Pop(p) \in Seq(Function) /\ Len(stack[p]) \in Nat \ {0}
           /\ (Pop(p) = <<>> <=> Len(stack[p]) = 1)
  <1>1. stack[p] \in Seq(Function) /\ stack[p] # <<>>
    BY DEF TypeOK
  <1>2. Called(p) \in Function /\ Pop(p) \in Seq(Function) /\ Len(stack[p]) \in Nat \ {0}
        /\ (Pop(p) = <<>> <=> Len(stack[p]) = 1)
    BY <1>1, PopFacts DEF Called, Pop
  <1> QED
    BY <1>2, LockFileType DEF Mine

\* The parts of TypeOK: the places of the workers, the lock files, the shared files.
PlaceOK(st, c) ==
    /\ c \in [Process -> PC] /\ st \in [Process -> Seq(Function)]
    /\ \A q \in Process : c[q] = "idle" <=> st[q] = <<>>
FilesOK ==
    /\ holder \in [Files -> Process \cup {None}] /\ content \in [Files -> PidSpace \cup {None}]
    /\ stale \subseteq Files
DataOK ==
    /\ buf \in [Process -> [Function -> SUBSET Entry]]
    /\ data \in [Function -> SUBSET Entry] /\ torn \subseteq Function
    /\ saved \in [Function -> SUBSET Entry] /\ cut \subseteq Function
CountOK ==
    /\ pid \in [Process -> PidSpace] /\ PidInv /\ calls \in 0..MaxCalls
    /\ errors \in 0..MaxErrors /\ kills \in 0..MaxKills

LEMMA TypeParts == TypeOK /\ PidInv <=> PlaceOK(stack, pc) /\ FilesOK /\ DataOK /\ CountOK
BY DEF TypeOK, PlaceOK, FilesOK, DataOK, CountOK

LEMMA PlaceStep ==
    ASSUME TypeOK, [Next]_vars
    PROVE  PlaceOK(stack, pc)'
<1>0. PlaceOK(stack, pc)
  BY DEF TypeOK, PlaceOK
<1>a. ASSUME NEW q \in Process, NEW to \in PC \ {"idle"}, pc[q] # "idle",
             pc' = [pc EXCEPT ![q] = to], stack' = stack
      PROVE  PlaceOK(stack, pc)'
  BY <1>0, <1>a DEF PlaceOK
<1>b. ASSUME NEW q \in Process, pc[q] # "idle", NEW r \in BOOLEAN, LeaveCall(q, r)
      PROVE  PlaceOK(stack, pc)'
  <2>1. /\ stack' = [stack EXCEPT ![q] = Pop(q)] /\ Pop(q) \in Seq(Function)
        /\ (Pop(q) = <<>> <=> Len(stack[q]) = 1)
    BY <1>b, CalledType DEF LeaveCall
  <2>2. PICK to \in PC : /\ pc' = [pc EXCEPT ![q] = to] /\ (to = "idle" <=> Len(stack[q]) = 1)
    <3> DEFINE e == IF Len(stack[q]) = 1 THEN "idle" ELSE IF r THEN "raising" ELSE "body"
    <3>1. e \in PC /\ (e = "idle" <=> Len(stack[q]) = 1)
      BY DEF PC
    <3>2. pc' = [pc EXCEPT ![q] = e]
      BY <1>b DEF LeaveCall
    <3> QED
      BY <3>1, <3>2
  <2> QED
    BY <1>0, <2>1, <2>2 DEF PlaceOK
<1>1. ASSUME NEW q \in Process, CheckPasses(q) \/ Acquire(q) \/ Truncate(q) \/ WriteData(q)
      PROVE  PlaceOK(stack, pc)'
  BY <1>1, <1>a DEF CheckPasses, Acquire, Truncate, WriteData, PC
<1>2. ASSUME NEW q \in Process, ReadData(q) \/ FunctionRaises(q) PROVE PlaceOK(stack, pc)'
  BY <1>2, <1>a DEF ReadData, FunctionRaises, PC
<1>3. ASSUME NEW q \in Process, RecursionDetected(q) \/ TimeOut(q) \/ Leave(q)
      PROVE  PlaceOK(stack, pc)'
  <2>1. pc[q] # "idle" /\ \E r \in BOOLEAN : LeaveCall(q, r)
    BY <1>3 DEF RecursionDetected, TimeOut, Leave
  <2> QED
    BY <2>1, <1>b
<1>4. ASSUME NEW q \in Process, NEW f \in Function, Call(q, f) PROVE PlaceOK(stack, pc)'
  <2>1. /\ stack' = [stack EXCEPT ![q] = Append(stack[q], f)] /\ pc' = [pc EXCEPT ![q] = "check"]
        /\ Append(stack[q], f) \in Seq(Function) /\ Append(stack[q], f) # <<>>
    BY <1>0, <1>4, AppendFacts DEF Call, PlaceOK
  <2> QED
    BY <1>0, <2>1 DEF PlaceOK, PC
<1>5. ASSUME NEW q \in Process, Kill(q) PROVE PlaceOK(stack, pc)'
  BY <1>0, <1>5 DEF Kill, PlaceOK, PC
<1>6. CASE UNCHANGED vars
  BY <1>0, <1>6 DEF vars, PlaceOK
<1> QED
  BY <1>1, <1>2, <1>3, <1>4, <1>5, <1>6 DEF Next, Step

LEMMA DataStep ==
    ASSUME TypeOK, NEW p \in Process,
           ReadData(p) \/ Truncate(p) \/ WriteData(p) \/ FunctionRaises(p)
    PROVE  DataOK'
<1>0. DataOK /\ Called(p) \in Function
  BY CalledType DEF TypeOK, DataOK, ReadData, Truncate, WriteData, FunctionRaises
<1>1. \A X \in SUBSET Entry : [buf EXCEPT ![p][Called(p)] = X] \in [Process -> [Function -> SUBSET Entry]]
  BY <1>0 DEF DataOK
<1>2. data[Called(p)] \in SUBSET Entry /\ buf[p][Called(p)] \in SUBSET Entry
      /\ saved[Called(p)] \in SUBSET Entry /\ {} \in SUBSET Entry /\ <<p, calls>> \in Entry
  BY <1>0 DEF DataOK, Entry, TypeOK
<1>3. CASE ReadData(p)
  BY <1>0, <1>1, <1>2, <1>3 DEF ReadData, DataOK
<1>4. CASE Truncate(p)
  BY <1>0, <1>2, <1>4 DEF Truncate, DataOK
<1>5. CASE WriteData(p)
  <2>1. /\ buf[p][Called(p)] \cup {<<p, calls>>} \in SUBSET Entry
        /\ saved[Called(p)] \cup {<<p, calls>>} \in SUBSET Entry
    BY <1>2
  <2>2. data' \in [Function -> SUBSET Entry] /\ saved' \in [Function -> SUBSET Entry]
    BY <1>0, <1>5, <2>1 DEF WriteData, DataOK
  <2>3. buf' \in [Process -> [Function -> SUBSET Entry]]
    BY <1>1, <1>2, <1>5 DEF WriteData
  <2> QED
    BY <1>0, <1>5, <2>2, <2>3 DEF WriteData, DataOK
<1>6. CASE FunctionRaises(p)
  BY <1>0, <1>1, <1>2, <1>6 DEF FunctionRaises, CutShort, DataOK
<1> QED
  BY <1>3, <1>4, <1>5, <1>6

\* The state has the types of TypeOK, in every behaviour, and no two workers have one process id.
THEOREM TypeInvariance == Spec => [](TypeOK /\ PidInv)
<1>1. Init => TypeOK /\ PidInv
  <2> SUFFICES ASSUME Init PROVE TypeOK /\ PidInv
    OBVIOUS
  <2>1. PlaceOK(stack, pc) /\ DataOK
    BY DEF Init, PlaceOK, PC, DataOK
  <2>2. CountOK
    BY ConstantsAssumption DEF Init, CountOK, PidInv
  <2>3. FilesOK
    <3>1. \A p \in Process, f \in Function : LockFile(p, f) \in Files
      BY ConstantsAssumption DEF Init, LockFile, Files
    <3> QED
      BY <3>1 DEF Init, FilesOK
  <2> QED
    BY <2>1, <2>2, <2>3, TypeParts
<1>2. TypeOK /\ PidInv /\ [Next]_vars => TypeOK' /\ PidInv'
  <2> SUFFICES ASSUME TypeOK, PidInv, [Next]_vars PROVE TypeOK' /\ PidInv'
    OBVIOUS
  <2>0. FilesOK /\ DataOK /\ CountOK
    BY TypeParts
  <2>a. PlaceOK(stack, pc)'
    BY PlaceStep
  <2>b. files' = files => FilesOK'
    BY <2>0 DEF files, FilesOK
  <2>c. saving' = saving => DataOK'
    BY <2>0 DEF saving, DataOK
  <2>d. pid' = pid /\ calls' = calls /\ errors' \in 0..MaxErrors /\ kills' = kills => CountOK'
    BY <2>0 DEF CountOK, PidInv
  <2>e. PlaceOK(stack, pc)' /\ FilesOK' /\ DataOK' /\ CountOK' => TypeOK' /\ PidInv'
    BY DEF TypeOK, PlaceOK, FilesOK, DataOK, CountOK
  <2>f. errors \in 0..MaxErrors
    BY <2>0 DEF CountOK
  <2>1. ASSUME NEW p \in Process, CheckPasses(p) \/ RecursionDetected(p) \/ TimeOut(p)
        PROVE  TypeOK' /\ PidInv'
    BY <2>1, <2>a, <2>b, <2>c, <2>d, <2>e, <2>f DEF CheckPasses, RecursionDetected, TimeOut
  <2>2. ASSUME NEW p \in Process, Acquire(p) PROVE TypeOK' /\ PidInv'
    <3>1. FilesOK'
      <4>1. pc[p] # "idle"
        BY <2>2 DEF Acquire
      <4>2. pid[p] \in PidSpace /\ Mine(p) \in Files
        BY <2>0, <4>1, CalledType DEF CountOK
      <4> QED
        BY <2>0, <2>2, <4>2 DEF FilesOK, Acquire
    <3> QED
      BY <2>2, <3>1, <2>a, <2>c, <2>d, <2>e, <2>f DEF Acquire
  <2>3. ASSUME NEW p \in Process, ReadData(p) \/ Truncate(p) \/ WriteData(p) \/ FunctionRaises(p)
        PROVE  TypeOK' /\ PidInv'
    <3>1. errors' \in 0..MaxErrors
      BY <2>3, <2>0, ConstantsAssumption DEF ReadData, Truncate, WriteData, FunctionRaises, CountOK
    <3>2. pid' = pid /\ files' = files /\ calls' = calls /\ kills' = kills
      BY <2>3 DEF ReadData, Truncate, WriteData, FunctionRaises
    <3>3. DataOK'
      BY <2>3, DataStep
    <3> QED
      BY <3>1, <3>2, <3>3, <2>a, <2>b, <2>d, <2>e
  <2>4. ASSUME NEW p \in Process, Leave(p) PROVE TypeOK' /\ PidInv'
    <3>1. FilesOK'
      BY <2>0, <2>4 DEF FilesOK, Leave, Cleared
    <3> QED
      BY <2>4, <3>1, <2>a, <2>c, <2>d, <2>e, <2>f DEF Leave
  <2>5. ASSUME NEW p \in Process, NEW f \in Function, Call(p, f) PROVE TypeOK' /\ PidInv'
    <3>1. CountOK'
      BY <2>0, <2>5, ConstantsAssumption DEF CountOK, PidInv, Call
    <3> QED
      BY <2>5, <3>1, <2>a, <2>b, <2>c, <2>e DEF Call
  <2>6. ASSUME NEW p \in Process, Kill(p) PROVE TypeOK' /\ PidInv'
    <3>1. FilesOK'
      BY <2>0, <2>6 DEF FilesOK, Kill
    <3>2. CountOK'
      <4>1. PICK new \in PidSpace \ {pid[q] : q \in Process \ {p}} : pid' = [pid EXCEPT ![p] = new]
        BY <2>6 DEF Kill
      <4>2. pid' \in [Process -> PidSpace] /\ PidInv'
        BY <2>0, <4>1 DEF CountOK, PidInv
      <4>3. kills' \in 0..MaxKills /\ calls' = calls /\ errors' = errors
        BY <2>0, <2>6, ConstantsAssumption DEF CountOK, Kill
      <4> QED
        BY <2>0, <4>2, <4>3 DEF CountOK
    <3>3. DataOK'
      <4>1. [f \in Function |-> {}] \in [Function -> SUBSET Entry]
        OBVIOUS
      <4>2. pc[p] # "idle" /\ Called(p) \in Function
        BY <2>6, CalledType DEF Kill
      <4>3. buf' \in [Process -> [Function -> SUBSET Entry]]
        BY <2>0, <2>6, <4>1 DEF DataOK, Kill
      <4>4. cut' \subseteq Function /\ UNCHANGED <<data, torn, saved>>
        BY <2>0, <2>6, <4>2 DEF DataOK, Kill, CutShort
      <4> QED
        BY <2>0, <4>3, <4>4 DEF DataOK
    <3> QED
      BY <3>1, <3>2, <3>3, <2>a, <2>e
  <2>7. CASE UNCHANGED vars
    BY <2>7 DEF TypeOK, PidInv, vars, files, saving
  <2> QED
    BY <2>1, <2>2, <2>3, <2>4, <2>5, <2>6, <2>7 DEF Next, Step
<1> QED
  BY <1>1, <1>2, PTL DEF Spec

\* Type correctness for any processes and functions.
THEOREM TypeCorrect == Spec => []TypeOK
  BY TypeInvariance, PTL

-----------------------------------------------------------------------------
(* The lock files and the functions the processes are inside of.           *)

Held(p) == {stack[p][i] : i \in 1..Depth(p)}

HeldInv == \A p \in Process : \A f \in Held(p) : holder[LockFile(p, f)] = p

DistinctInv ==
    \A p \in Process : \A i, j \in 1..Depth(p) : stack[p][i] = stack[p][j] => i = j

WaitInv == \A p \in Process : pc[p] = "wait" => Called(p) \notin Held(p)

OwnerInv ==
    \A l \in Files : holder[l] # None =>
        \E p \in Process : holder[l] = p /\ \E f \in Held(p) : l = LockFile(p, f)

ContentInv ==
    \A l \in Files :
        /\ holder[l] # None => content[l] = pid[holder[l]] /\ l \notin stale
        /\ content[l] # None /\ l \notin stale => holder[l] # None

LockInv == PidInv /\ HeldInv /\ DistinctInv /\ WaitInv /\ OwnerInv /\ ContentInv

LEMMA NameFacts ==
    ASSUME TypeOK, PidInv, NEW p \in Process, NEW q \in Process, NEW f \in Function, NEW g \in Function
    PROVE  /\ (LockFile(p, f) = LockFile(q, g) => f = g)
           /\ (LockFile(p, f) = LockFile(q, g) /\ ~CommonScope => p = q)
BY DEF LockFile, PidInv

LEMMA HeldType ==
    ASSUME TypeOK, NEW p \in Process
    PROVE  /\ Held(p) \subseteq Function /\ Depth(p) \in Nat /\ Depth(p) <= Len(stack[p])
           /\ (pc[p] \in {"body", "read", "truncated", "written", "raising"}
                 => Called(p) \in Held(p) /\ Depth(p) = Len(stack[p]))
<1>1. stack[p] \in Seq(Function) /\ Len(stack[p]) \in Nat
  BY LenProperties DEF TypeOK
<1>2. pc[p] # "idle" => Len(stack[p]) \in Nat \ {0}
  BY CalledType
<1>3. Depth(p) \in Nat /\ Depth(p) <= Len(stack[p])
  BY <1>1, <1>2 DEF Depth
<1>4. \A i \in 1..Len(stack[p]) : stack[p][i] \in Function
  BY <1>1, LenProperties
<1> QED
  BY <1>1, <1>2, <1>3, <1>4 DEF Held, Depth, Called

(* What a step does to Held and Depth, by what it does to the stack.       *)

LEMMA SameStack ==
    ASSUME NEW q \in Process, stack'[q] = stack[q],
           \/ pc'[q] = pc[q]
           \/ pc[q] \in {"check", "wait"} /\ pc'[q] \in {"check", "wait"}
           \/ pc[q] \notin {"check", "wait"} /\ pc'[q] \notin {"check", "wait"}
    PROVE  Held(q)' = Held(q) /\ Depth(q)' = Depth(q) /\ Called(q)' = Called(q)
  BY DEF Held, Depth, Called

LEMMA LockedStack ==
    ASSUME TypeOK, NEW q \in Process, stack'[q] = stack[q], pc[q] = "wait", pc'[q] = "body"
    PROVE  /\ Held(q)' = Held(q) \cup {Called(q)}
           /\ Depth(q)' = Depth(q) + 1 /\ stack[q][Depth(q) + 1] = Called(q)
<1>1. Len(stack[q]) \in Nat \ {0}
  BY CalledType
<1>2. Depth(q) = Len(stack[q]) - 1 /\ Depth(q)' = Len(stack[q])
  BY DEF Depth
<1>3. 1..Depth(q)' = 1..Depth(q) \cup {Len(stack[q])}
  BY <1>1, <1>2
<1> QED
  BY <1>1, <1>2, <1>3 DEF Held, Called

LEMMA PushedStack ==
    ASSUME TypeOK, NEW q \in Process, NEW f \in Function, stack'[q] = Append(stack[q], f),
           pc[q] \in {"idle", "body"}, pc'[q] = "check"
    PROVE  /\ Held(q)' = Held(q) /\ Depth(q)' = Depth(q)
           /\ \A i \in 1..Depth(q) : stack'[q][i] = stack[q][i]
<1>1. stack[q] \in Seq(Function)
  BY DEF TypeOK
<1>2. /\ Len(stack[q]) \in Nat /\ Len(stack'[q]) = Len(stack[q]) + 1
      /\ \A i \in 1..Len(stack[q]) : stack'[q][i] = stack[q][i]
  BY <1>1, AppendFacts
<1>3. Depth(q) = Len(stack[q]) /\ Depth(q)' = Len(stack[q])
  BY <1>2 DEF Depth
<1> QED
  BY <1>2, <1>3 DEF Held

LEMMA PoppedStack ==
    ASSUME TypeOK, NEW q \in Process, stack'[q] = Pop(q),
           pc[q] # "idle", pc'[q] \notin {"check", "wait"}
    PROVE  /\ Depth(q)' = Len(stack[q]) - 1
           /\ \A i \in 1..Depth(q)' : stack'[q][i] = stack[q][i]
           /\ pc[q] \in {"check", "wait"} => Held(q)' = Held(q) /\ Depth(q)' = Depth(q)
           /\ pc[q] \notin {"check", "wait"} => Depth(q) = Len(stack[q])
<1>1. stack[q] \in Seq(Function) /\ stack[q] # <<>>
  BY DEF TypeOK
<1>2. /\ Len(stack[q]) \in Nat \ {0} /\ Len(stack'[q]) = Len(stack[q]) - 1
      /\ \A i \in 1..(Len(stack[q]) - 1) : stack'[q][i] = stack[q][i]
  BY <1>1, PopFacts DEF Pop
<1>3. Depth(q)' = Len(stack[q]) - 1
  BY <1>2 DEF Depth
<1> QED
  BY <1>2, <1>3 DEF Held, Depth

LEMMA LeftStack ==
    ASSUME TypeOK, DistinctInv, NEW q \in Process, stack'[q] = Pop(q),
           pc[q] \in {"body", "read", "truncated", "written", "raising"}, pc'[q] \notin {"check", "wait"}
    PROVE  Held(q)' = Held(q) \ {Called(q)} /\ Depth(q)' <= Depth(q)
<1>1. /\ Depth(q) = Len(stack[q]) /\ Depth(q)' = Len(stack[q]) - 1
      /\ \A i \in 1..Depth(q)' : stack'[q][i] = stack[q][i]
  BY PoppedStack
<1>2. Len(stack[q]) \in Nat \ {0}
  BY CalledType
<1>3. \A i \in 1..Depth(q)' : stack[q][i] # Called(q)
  BY <1>1, <1>2 DEF DistinctInv, Called
<1>4. 1..Depth(q) = 1..Depth(q)' \cup {Len(stack[q])}
  BY <1>1, <1>2
<1> QED
  BY <1>1, <1>2, <1>3, <1>4, SMTT(30) DEF Held, Called

-----------------------------------------------------------------------------
\* A step that neither locks nor unlocks keeps LockInv.
LEMMA UnlockedStep ==
    ASSUME LockInv, UNCHANGED <<pid, files>>, WaitInv',
           \A q \in Process : /\ Held(q)' = Held(q) /\ Depth(q)' = Depth(q)
                              /\ \A i \in 1..Depth(q) : stack'[q][i] = stack[q][i]
    PROVE  LockInv'
<1>1. UNCHANGED <<holder, content, stale>>
  BY DEF files
<1>2. \A q \in Process : \A f : LockFile(q, f)' = LockFile(q, f)
  BY DEF LockFile
<1>3. HeldInv' /\ PidInv'
  BY <1>1, <1>2 DEF LockInv, HeldInv, PidInv
<1>4. DistinctInv'
  BY DEF LockInv, DistinctInv
<1>5. OwnerInv'
  BY <1>1, <1>2 DEF LockInv, OwnerInv
<1>6. ContentInv'
  BY <1>1 DEF LockInv, ContentInv
<1> QED
  BY <1>3, <1>4, <1>5, <1>6 DEF LockInv

LEMMA PopStep ==
    ASSUME TypeOK, LockInv, NEW p \in Process, pc[p] \in {"check", "wait"},
           stack'[p] = Pop(p), pc'[p] \in {"idle", "raising", "body"},
           \A q \in Process \ {p} : stack'[q] = stack[q] /\ pc'[q] = pc[q],
           UNCHANGED <<pid, files>>
    PROVE  LockInv'
<1>1. /\ Held(p)' = Held(p) /\ Depth(p)' = Depth(p)
      /\ \A i \in 1..Depth(p) : stack'[p][i] = stack[p][i]
  BY PoppedStack
<1>2. \A q \in Process \ {p} : Held(q)' = Held(q) /\ Depth(q)' = Depth(q) /\ Called(q)' = Called(q)
  BY SameStack
<1>3. WaitInv'
  BY <1>2 DEF LockInv, WaitInv
<1> QED
  BY <1>1, <1>2, <1>3, UnlockedStep

LEMMA AcquireStep ==
    ASSUME TypeOK, LockInv, NEW p \in Process, Acquire(p)
    PROVE  LockInv'
<1>1. /\ pc[p] = "wait" /\ pc'[p] = "body" /\ stack' = stack /\ pid' = pid
      /\ \A q \in Process \ {p} : pc'[q] = pc[q]
  BY DEF Acquire, TypeOK
<1>2. Held(p)' = Held(p) \cup {Called(p)} /\ Depth(p)' = Depth(p) + 1
      /\ stack[p][Depth(p) + 1] = Called(p)
  BY <1>1, LockedStack
<1>3. \A q \in Process \ {p} : Held(q)' = Held(q) /\ Depth(q)' = Depth(q) /\ Called(q)' = Called(q)
  BY <1>1, SameStack
<1>4. \A q \in Process : \A f : LockFile(q, f)' = LockFile(q, f)
  BY <1>1 DEF LockFile
<1>5. Called(p) \in Function /\ Mine(p) \in Files /\ Called(p) \notin Held(p)
      /\ Mine(p) = LockFile(p, Called(p))
  BY <1>1, CalledType DEF LockInv, WaitInv, Mine
<1>6. /\ holder[Mine(p)] = None /\ p # None /\ pid[p] # None
      /\ holder' = [holder EXCEPT ![Mine(p)] = p]
      /\ content' = [content EXCEPT ![Mine(p)] = pid[p]]
      /\ stale' = stale \ {Mine(p)}
  BY <1>5, LockFileType DEF Acquire
<1>7. HeldInv'
  <2> SUFFICES ASSUME NEW q \in Process, NEW f \in Held(q)'
               PROVE  holder'[LockFile(q, f)] = q
    BY <1>4 DEF HeldInv
  <2>1. f \in Function /\ LockFile(q, f) \in Files /\ q # None
    BY <1>2, <1>3, <1>5, HeldType, LockFileType
  <2>2. CASE q = p /\ f = Called(p)
    BY <2>2, <1>5, <1>6 DEF TypeOK
  <2>3. CASE f \in Held(q)
    <3>1. holder[LockFile(q, f)] = q
      BY <2>3 DEF LockInv, HeldInv
    <3> QED
      BY <3>1, <2>1, <1>6 DEF TypeOK
  <2> QED
    BY <2>2, <2>3, <1>2, <1>3
<1>8. DistinctInv'
  <2>1. \A i \in 1..Depth(p) : stack[p][i] # Called(p)
    BY <1>5 DEF Held
  <2>2. Depth(p) \in Nat
    BY HeldType
  <2>3. \A i, j \in 1..Depth(p)' : stack'[p][i] = stack'[p][j] => i = j
    BY <1>1, <1>2, <2>1, <2>2 DEF LockInv, DistinctInv
  <2> QED
    BY <1>1, <1>3, <2>3 DEF LockInv, DistinctInv
<1>9. WaitInv' /\ PidInv'
  BY <1>1, <1>3 DEF LockInv, WaitInv, PidInv
<1>10. OwnerInv'
  <2> SUFFICES ASSUME NEW l \in Files, holder'[l] # None
               PROVE  \E q \in Process : holder'[l] = q /\ \E f \in Held(q)' : l = LockFile(q, f)
    BY <1>4 DEF OwnerInv
  <2>1. CASE l = Mine(p)
    BY <2>1, <1>2, <1>5, <1>6 DEF TypeOK
  <2>2. CASE l # Mine(p)
    <3>1. holder'[l] = holder[l]
      BY <2>2, <1>6 DEF TypeOK
    <3>2. PICK q \in Process : holder[l] = q /\ \E f \in Held(q) : l = LockFile(q, f)
      BY <3>1 DEF LockInv, OwnerInv
    <3>3. Held(q) \subseteq Held(q)'
      BY <1>2, <1>3
    <3> QED
      BY <3>1, <3>2, <3>3
  <2> QED
    BY <2>1, <2>2
<1>11. ContentInv'
  <2> SUFFICES ASSUME NEW l \in Files
               PROVE  /\ holder'[l] # None => content'[l] = pid[holder'[l]] /\ l \notin stale'
                      /\ content'[l] # None /\ l \notin stale' => holder'[l] # None
    BY <1>1 DEF ContentInv
  <2>1. CASE l = Mine(p)
    BY <2>1, <1>6 DEF TypeOK
  <2>2. CASE l # Mine(p)
    <3>1. holder'[l] = holder[l] /\ content'[l] = content[l] /\ (l \in stale' <=> l \in stale)
      BY <2>2, <1>6 DEF TypeOK
    <3> QED
      BY <3>1 DEF LockInv, ContentInv
  <2> QED
    BY <2>1, <2>2
<1> QED
  BY <1>7, <1>8, <1>9, <1>10, <1>11 DEF LockInv

LEMMA LeaveStep ==
    ASSUME TypeOK, LockInv, NEW p \in Process, Leave(p)
    PROVE  LockInv'
<1>1. /\ stack'[p] = Pop(p) /\ pc'[p] \in {"idle", "raising", "body"} /\ pid' = pid
      /\ \A q \in Process \ {p} : stack'[q] = stack[q] /\ pc'[q] = pc[q]
      /\ pc[p] \in {"body", "written", "raising"}
  BY DEF Leave, LeaveCall, TypeOK
<1>2. Held(p)' = Held(p) \ {Called(p)} /\ Depth(p)' <= Depth(p)
  BY <1>1, LeftStack DEF LockInv
<1>3. \A q \in Process \ {p} : Held(q)' = Held(q) /\ Depth(q)' = Depth(q) /\ Called(q)' = Called(q)
  BY <1>1, SameStack
<1>4. \A q \in Process : \A f : LockFile(q, f)' = LockFile(q, f)
  BY <1>1 DEF LockFile
<1>5. /\ Called(p) \in Function /\ Mine(p) \in Files /\ Called(p) \in Held(p)
      /\ Mine(p) = LockFile(p, Called(p))
  BY <1>1, CalledType, HeldType DEF Mine
<1>6. /\ holder[Mine(p)] = p
      /\ holder' = [holder EXCEPT ![Mine(p)] = None]
      /\ content' = [content EXCEPT ![Mine(p)] = None] /\ stale' = stale
  BY <1>5 DEF Leave, Cleared, LockInv, HeldInv
<1>7. HeldInv'
  <2> SUFFICES ASSUME NEW q \in Process, NEW f \in Held(q)'
               PROVE  holder'[LockFile(q, f)] = q
    BY <1>4 DEF HeldInv
  <2>1. f \in Held(q) /\ f \in Function /\ LockFile(q, f) \in Files
    BY <1>2, <1>3, HeldType, LockFileType
  <2>2. holder[LockFile(q, f)] = q
    BY <2>1 DEF LockInv, HeldInv
  <2>3. LockFile(q, f) # Mine(p)
    BY <2>1, <2>2, <1>2, <1>5, <1>6, NameFacts DEF LockInv
  <2> QED
    BY <2>1, <2>2, <2>3, <1>6 DEF TypeOK
<1>8. DistinctInv'
  <2>1. \A i \in 1..Depth(p)' : stack'[p][i] = stack[p][i]
    BY <1>1, PoppedStack
  <2>2. Depth(p) \in Nat /\ Depth(p)' \in Int
    <3>1. Depth(p)' = Len(stack[p]) - 1 /\ Len(stack[p]) \in Nat \ {0}
      BY <1>1, PoppedStack, CalledType
    <3> QED
      BY <3>1, HeldType
  <2>3. \A i, j \in 1..Depth(p)' : stack'[p][i] = stack'[p][j] => i = j
    BY <1>2, <2>1, <2>2 DEF LockInv, DistinctInv
  <2> QED
    BY <1>1, <1>3, <2>3 DEF LockInv, DistinctInv
<1>9. WaitInv' /\ PidInv'
  BY <1>1, <1>3 DEF LockInv, WaitInv, PidInv
<1>10. OwnerInv'
  <2> SUFFICES ASSUME NEW l \in Files, holder'[l] # None
               PROVE  \E q \in Process : holder'[l] = q /\ \E f \in Held(q)' : l = LockFile(q, f)
    BY <1>4 DEF OwnerInv
  <2>1. l # Mine(p) /\ holder'[l] = holder[l]
    BY <1>5, <1>6 DEF TypeOK
  <2>2. PICK q \in Process : holder[l] = q /\ \E f \in Held(q) : l = LockFile(q, f)
    BY <2>1 DEF LockInv, OwnerInv
  <2>3. PICK f \in Held(q) : l = LockFile(q, f)
    BY <2>2
  <2>4. f \in Held(q)'
    BY <2>1, <2>3, <1>2, <1>3, <1>5
  <2> QED
    BY <2>1, <2>2, <2>3, <2>4
<1>11. ContentInv'
  BY <1>1, <1>5, <1>6 DEF LockInv, ContentInv, TypeOK
<1> QED
  BY <1>7, <1>8, <1>9, <1>10, <1>11 DEF LockInv

\* The locks of a killed process go, and the text that it has written is stale.
LEMMA KillStep ==
    ASSUME TypeOK, LockInv, NEW p \in Process, Kill(p)
    PROVE  LockInv'
<1>0. PICK new \in PidSpace \ {pid[q] : q \in Process \ {p}} : pid' = [pid EXCEPT ![p] = new]
  BY DEF Kill
<1>1. /\ stack'[p] = <<>> /\ pc'[p] = "idle" /\ content' = content
      /\ \A q \in Process \ {p} : stack'[q] = stack[q] /\ pc'[q] = pc[q] /\ pid'[q] = pid[q]
  BY <1>0 DEF Kill, TypeOK
<1>2. Held(p)' = {} /\ Depth(p)' = 0
  BY <1>1 DEF Held, Depth
<1>3. \A q \in Process \ {p} : Held(q)' = Held(q) /\ Depth(q)' = Depth(q) /\ Called(q)' = Called(q)
  BY <1>1, SameStack
<1>4. \A q \in Process \ {p} : \A f : LockFile(q, f)' = LockFile(q, f)
  BY <1>1 DEF LockFile
<1>5. /\ \A l \in Files : holder'[l] = IF holder[l] = p THEN None ELSE holder[l]
      /\ \A l \in Files : l \in stale' <=> l \in stale \/ holder[l] = p
      /\ \A q \in Process : q # None
  BY ConstantsAssumption DEF Kill
<1>6. HeldInv'
  <2> SUFFICES ASSUME NEW q \in Process, NEW f \in Held(q)'
               PROVE  holder'[LockFile(q, f)'] = q
    BY DEF HeldInv
  <2>1. q \in Process \ {p} /\ f \in Held(q)
    BY <1>2, <1>3
  <2>2. LockFile(q, f) \in Files /\ holder[LockFile(q, f)] = q
    BY <2>1, HeldType, LockFileType DEF LockInv, HeldInv
  <2>3. holder'[LockFile(q, f)] = q
    BY <2>1, <2>2, <1>5
  <2> QED
    BY <2>1, <2>3, <1>4
<1>7. DistinctInv'
  BY <1>1, <1>2, <1>3 DEF LockInv, DistinctInv
<1>8. WaitInv'
  BY <1>1, <1>3 DEF LockInv, WaitInv
<1>9. OwnerInv'
  <2> SUFFICES ASSUME NEW l \in Files, holder'[l] # None
               PROVE  \E q \in Process : holder'[l] = q /\ \E f \in Held(q)' : l = LockFile(q, f)'
    BY DEF OwnerInv
  <2>1. holder'[l] = holder[l] /\ holder[l] # p /\ holder[l] # None
    BY <1>5
  <2>2. PICK q \in Process : holder[l] = q /\ \E f \in Held(q) : l = LockFile(q, f)
    BY <2>1 DEF LockInv, OwnerInv
  <2>3. q \in Process \ {p}
    BY <2>1, <2>2
  <2> QED
    BY <2>1, <2>2, <2>3, <1>3, <1>4
<1>10. ContentInv'
  <2> SUFFICES ASSUME NEW l \in Files
               PROVE  /\ holder'[l] # None => content'[l] = pid'[holder'[l]] /\ l \notin stale'
                      /\ content'[l] # None /\ l \notin stale' => holder'[l] # None
    BY DEF ContentInv
  <2>1. holder'[l] # None => holder'[l] = holder[l] /\ holder[l] \in Process \ {p}
    BY <1>5 DEF TypeOK
  <2> QED
    BY <2>1, <1>1, <1>5 DEF LockInv, ContentInv
<1>11. PidInv'
  BY <1>0 DEF LockInv, PidInv, TypeOK
<1> QED
  BY <1>6, <1>7, <1>8, <1>9, <1>10, <1>11 DEF LockInv

\* A process is in the functions whose lock files it holds, each of them once,
\* and a lock file has the process id of its holder in it, or that of a killed one.
THEOREM LockInvariance == Spec => [](TypeOK /\ LockInv)
<1>1. Init => LockInv
  <2> SUFFICES ASSUME Init PROVE LockInv
    OBVIOUS
  <2>1. \A p \in Process : Len(stack[p]) = 0 /\ pc[p] = "idle"
    BY EmptySeq DEF Init
  <2>2. \A p \in Process : Depth(p) = 0 /\ Held(p) = {}
    <3>1. \A p \in Process : Depth(p) = 0
      BY <2>1 DEF Depth
    <3>2. 1..0 = {}
      OBVIOUS
    <3> QED
      BY <3>1, <3>2 DEF Held
  <2>3. \A l \in Files : holder[l] = None /\ (content[l] # None <=> l \in stale)
    BY DEF Init
  <2>4. HeldInv /\ DistinctInv /\ WaitInv /\ OwnerInv
    BY <2>1, <2>2, <2>3 DEF HeldInv, DistinctInv, WaitInv, OwnerInv
  <2>5. ContentInv /\ PidInv
    BY <2>3 DEF ContentInv, PidInv, Init
  <2> QED
    BY <2>4, <2>5 DEF LockInv
<1>2. TypeOK /\ LockInv /\ [Next]_vars => LockInv'
  <2> SUFFICES ASSUME TypeOK, LockInv, [Next]_vars PROVE LockInv'
    OBVIOUS
  <2>a. ASSUME NEW p \in Process, UNCHANGED <<pid, files, stack>>,
               \A q \in Process \ {p} : pc'[q] = pc[q],
               \/ pc'[p] = pc[p]
               \/ pc[p] \in {"check", "wait"} /\ pc'[p] \in {"check", "wait"}
               \/ pc[p] \notin {"check", "wait"} /\ pc'[p] \notin {"check", "wait"},
               pc'[p] = "wait" => Called(p) \notin Held(p)
        PROVE  LockInv'
    <3>1. \A q \in Process : Held(q)' = Held(q) /\ Depth(q)' = Depth(q) /\ Called(q)' = Called(q)
      BY <2>a, SameStack
    <3>2. WaitInv'
      BY <2>a, <3>1 DEF LockInv, WaitInv
    <3> QED
      BY <2>a, <3>1, <3>2, UnlockedStep
  <2>1. ASSUME NEW p \in Process, CheckPasses(p) PROVE LockInv'
    <3>1. pc[p] = "check" /\ content[Mine(p)] # pid[p]
      BY <2>1 DEF CheckPasses, IsRecursion
    <3>2. Called(p) \in Function /\ Mine(p) \in Files /\ Mine(p) = LockFile(p, Called(p)) /\ p # None
      BY <3>1, CalledType, ConstantsAssumption DEF Mine
    <3>3. Called(p) \notin Held(p)
      <4> SUFFICES ASSUME Called(p) \in Held(p) PROVE FALSE
        OBVIOUS
      <4>1. holder[Mine(p)] = p
        BY <3>2 DEF LockInv, HeldInv
      <4> QED
        BY <4>1, <3>1, <3>2 DEF LockInv, ContentInv
    <3> QED
      BY <2>1, <3>3, <2>a DEF CheckPasses, TypeOK
  <2>2. ASSUME NEW p \in Process, RecursionDetected(p) \/ TimeOut(p) PROVE LockInv'
    <3>1. /\ pc[p] \in {"check", "wait"} /\ LeaveCall(p, TRUE)
          /\ UNCHANGED <<pid, files>>
      BY <2>2 DEF RecursionDetected, TimeOut
    <3>2. /\ stack'[p] = Pop(p) /\ pc'[p] \in {"idle", "raising", "body"}
          /\ \A q \in Process \ {p} : stack'[q] = stack[q] /\ pc'[q] = pc[q]
      BY <3>1 DEF LeaveCall, TypeOK
    <3> QED
      BY <3>1, <3>2, PopStep
  <2>3. ASSUME NEW p \in Process, ReadData(p) \/ Truncate(p) \/ WriteData(p) \/ FunctionRaises(p)
        PROVE  LockInv'
    BY <2>3, <2>a DEF ReadData, Truncate, WriteData, FunctionRaises, TypeOK
  <2>4. ASSUME NEW p \in Process, NEW f \in Function, Call(p, f) PROVE LockInv'
    <3>1. /\ stack'[p] = Append(stack[p], f) /\ pc[p] \in {"idle", "body"} /\ pc'[p] = "check"
          /\ \A q \in Process \ {p} : stack'[q] = stack[q] /\ pc'[q] = pc[q]
          /\ UNCHANGED <<pid, files>>
      BY <2>4 DEF Call, TypeOK
    <3>2. /\ Held(p)' = Held(p) /\ Depth(p)' = Depth(p)
          /\ \A i \in 1..Depth(p) : stack'[p][i] = stack[p][i]
      BY <3>1, PushedStack
    <3>3. \A q \in Process \ {p} : Held(q)' = Held(q) /\ Depth(q)' = Depth(q) /\ Called(q)' = Called(q)
      BY <3>1, SameStack
    <3>4. WaitInv'
      BY <3>1, <3>3 DEF LockInv, WaitInv
    <3> QED
      BY <3>1, <3>2, <3>3, <3>4, UnlockedStep
  <2>5. CASE UNCHANGED vars
    <3>1. UNCHANGED <<pid, files, stack, pc>>
      BY <2>5 DEF vars
    <3>2. \A q \in Process : Held(q)' = Held(q) /\ Depth(q)' = Depth(q) /\ Called(q)' = Called(q)
      BY <3>1, SameStack
    <3>3. WaitInv'
      BY <3>1, <3>2 DEF LockInv, WaitInv
    <3> QED
      BY <3>1, <3>2, <3>3, UnlockedStep
  <2> QED
    BY <2>1, <2>2, <2>3, <2>4, <2>5, AcquireStep, LeaveStep, KillStep DEF Next, Step
<1> QED
  BY <1>1, <1>2, TypeInvariance, PTL DEF Spec

-----------------------------------------------------------------------------
(* What LockInv says of the calls.                                         *)

LEMMA HolderIsInside ==
    ASSUME TypeOK, LockInv, NEW p \in Process, pc[p] # "idle", holder[Mine(p)] = p
    PROVE  Called(p) \in Held(p)
<1>1. Called(p) \in Function /\ Mine(p) \in Files /\ Mine(p) = LockFile(p, Called(p)) /\ p # None
  BY CalledType, ConstantsAssumption DEF Mine
<1>2. PICK f \in Held(p) : LockFile(p, Called(p)) = LockFile(p, f)
  BY <1>1 DEF LockInv, OwnerInv
<1> QED
  BY <1>1, <1>2, HeldType, NameFacts DEF LockInv

LEMMA OneHolder ==
    ASSUME TypeOK, LockInv, CommonScope, NEW p \in Process, NEW q \in Process,
           NEW f \in Held(p), f \in Held(q)
    PROVE  p = q
<1>1. holder[LockFile(p, f)] = p /\ holder[LockFile(q, f)] = q
  BY DEF LockInv, HeldInv
<1>2. LockFile(p, f) = LockFile(q, f)
  BY DEF LockFile
<1> QED
  BY <1>1, <1>2

\* Workers that share a scope take turns in a locked function, and none is in it
\* twice: lock_function and locking_function exclude what they say they exclude.
THEOREM TakeTurns == CommonScope => (Spec => []OneInFunction)
<1>1. CommonScope /\ TypeOK /\ LockInv => OneInFunction
  <2> SUFFICES ASSUME CommonScope, TypeOK, LockInv, NEW p \in Process, NEW q \in Process,
                      NEW f \in Function, NEW i \in Inside(p, f), NEW j \in Inside(q, f)
               PROVE  p = q /\ i = j
    BY DEF OneInFunction
  <2>1. /\ i \in 1..Depth(p) /\ stack[p][i] = f
        /\ j \in 1..Depth(q) /\ stack[q][j] = f
    BY DEF Inside
  <2>2. f \in Held(p) /\ f \in Held(q)
    BY <2>1 DEF Held
  <2>3. p = q
    BY <2>2, OneHolder
  <2> QED
    BY <2>1, <2>3 DEF LockInv, DistinctInv
<1> SUFFICES ASSUME CommonScope PROVE Spec => []OneInFunction
  OBVIOUS
<1>2. TypeOK /\ LockInv => OneInFunction
  BY <1>1
<1> QED
  BY <1>2, LockInvariance, PTL

\* _check_deadlock lets no process wait for a lock it holds, whatever the scope.
THEOREM NoSelfDeadlockHolds == Spec => []NoSelfDeadlock
<1>1. TypeOK /\ LockInv => NoSelfDeadlock
  BY HolderIsInside DEF LockInv, WaitInv, NoSelfDeadlock
<1> QED
  BY <1>1, LockInvariance, PTL

\* The text that is taken for the own one is that of the holder, or stale.
LEMMA RecursionIsReal == TypeOK /\ LockInv => OnlyRecursionIsRefused
<1> SUFFICES ASSUME TypeOK, LockInv, NEW p \in Process, RecursionDetected(p), Mine(p) \notin stale
             PROVE  \E i \in 1..Depth(p) : stack[p][i] = Called(p)
  BY DEF OnlyRecursionIsRefused
<1>1. pc[p] = "check" /\ content[Mine(p)] = pid[p] /\ pid[p] # None /\ Mine(p) \in Files
  <2>1. pc[p] = "check" /\ content[Mine(p)] = pid[p]
    BY DEF RecursionDetected, IsRecursion
  <2>2. pid[p] # None
    BY ConstantsAssumption DEF TypeOK
  <2> QED
    BY <2>1, <2>2, CalledType
<1>2. holder[Mine(p)] \in Process /\ pid[holder[Mine(p)]] = pid[p]
  BY <1>1 DEF LockInv, ContentInv, TypeOK
<1>3. holder[Mine(p)] = p
  BY <1>2 DEF LockInv, PidInv
<1> QED
  BY <1>1, <1>3, HolderIsInside DEF Held

\* The check for recursion is right both ways: no process waits for a lock it holds itself, and
\* only one is refused that is inside of the function, or that has the process id of one killed
\* in it, with nobody having had the lock since.
THEOREM RecursionIsHandled == Spec => RecursionIsSeen
<1>1. (TypeOK /\ LockInv) /\ NoSelfDeadlock' /\ [Next]_vars
        => [NoSelfDeadlock' /\ OnlyRecursionIsRefused]_vars
  BY RecursionIsReal
<1> QED
  BY <1>1, LockInvariance, NoSelfDeadlockHolds, PTL DEF Spec, RecursionIsSeen

-----------------------------------------------------------------------------
(* What the functions save.                                                *)

\* The calls of f that are between reading and writing, and what they have read.
Saving(p, f) == pc[p] \in {"read", "truncated"} /\ Called(p) = f

DataInv ==
    \A f \in Function \ cut :
        /\ (\A p \in Process : ~Writing(p, f)) => f \notin torn /\ data[f] = saved[f]
        /\ \A p \in Process : Saving(p, f) => buf[p][f] = saved[f]

LEMMA DataInvStep == CommonScope /\ TypeOK /\ LockInv /\ DataInv /\ [Next]_vars => DataInv'
<1> SUFFICES ASSUME CommonScope, TypeOK, LockInv, DataInv, [Next]_vars, NEW f \in Function \ cut'
             PROVE  /\ (\A p \in Process : ~Writing(p, f)') => f \notin torn' /\ data'[f] = saved'[f]
                    /\ \A p \in Process : Saving(p, f)' => buf'[p][f] = saved'[f]
  BY DEF DataInv
<1> DEFINE Goal == /\ (\A p \in Process : ~Writing(p, f)') => f \notin torn' /\ data'[f] = saved'[f]
                   /\ \A p \in Process : Saving(p, f)' => buf'[p][f] = saved'[f]
<1> SUFFICES Goal
  OBVIOUS
<1>0. cut \subseteq cut' /\ f \notin cut
  <2>1. cut \subseteq cut'
    BY DEF Next, Step, CheckPasses, RecursionDetected, Acquire, TimeOut, ReadData, Truncate, WriteData,
           Leave, Call, FunctionRaises, Kill, CutShort, vars, saving
  <2> QED
    BY <2>1
\* Nobody else has the lock of a function that one is inside of.
<1>a. ASSUME NEW p \in Process, Called(p) = f,
             pc[p] \in {"body", "read", "truncated", "written", "raising"}
      PROVE  \A q \in Process : q # p => ~Saving(q, f)
  BY <1>a, HeldType, OneHolder DEF Saving
\* Steps that leave the file and all that are saving alone.
<1>b. ASSUME UNCHANGED <<data, torn, saved>>,
             \A q \in Process : /\ Saving(q, f)' => Saving(q, f) /\ buf'[q] = buf[q]
                                /\ Writing(q, f) => Writing(q, f)'
      PROVE  Goal
  BY <1>0, <1>b DEF DataInv
<1>c. ASSUME NEW q \in Process, stack'[q] = stack[q], pc'[q] = pc[q]
      PROVE  Saving(q, f)' = Saving(q, f) /\ Writing(q, f)' = Writing(q, f)
  BY <1>c DEF Saving, Writing, Called
<1>d. ASSUME NEW p \in Process, saving' = saving, pc[p] \notin {"read", "truncated"},
             pc'[p] \notin {"read", "truncated"},
             \A q \in Process \ {p} : stack'[q] = stack[q] /\ pc'[q] = pc[q]
      PROVE  Goal
  <2>1. ~Saving(p, f)' /\ ~Writing(p, f)
    BY <1>d DEF Saving, Writing
  <2>2. UNCHANGED <<buf, data, torn, saved>>
    BY <1>d DEF saving
  <2> HIDE DEF Goal
  <2> QED
    BY <1>b, <1>c, <1>d, <2>1, <2>2
<1> HIDE DEF Goal
<1>1. ASSUME NEW p \in Process, CheckPasses(p) \/ Acquire(p) PROVE Goal
  BY <1>1, <1>d DEF CheckPasses, Acquire, TypeOK
<1>2. ASSUME NEW p \in Process, RecursionDetected(p) \/ TimeOut(p) \/ Leave(p) PROVE Goal
  <2>1. pc[p] \notin {"read", "truncated"} /\ saving' = saving /\ \E r \in BOOLEAN : LeaveCall(p, r)
    BY <1>2 DEF RecursionDetected, TimeOut, Leave
  <2>2. /\ pc'[p] \notin {"read", "truncated"}
        /\ \A q \in Process \ {p} : stack'[q] = stack[q] /\ pc'[q] = pc[q]
    BY <2>1 DEF LeaveCall, TypeOK
  <2> QED
    BY <2>1, <2>2, <1>d
<1>3. ASSUME NEW p \in Process, NEW g \in Function, Call(p, g) PROVE Goal
  BY <1>3, <1>d DEF Call, TypeOK
<1>4. ASSUME NEW p \in Process, ReadData(p) PROVE Goal
  <2>1. /\ pc[p] = "body" /\ UNCHANGED <<stack, data, torn, saved>> /\ Called(p)' = Called(p)
        /\ Called(p) \in Function
        /\ \A q \in Process \ {p} : pc'[q] = pc[q] /\ buf'[q] = buf[q]
        /\ pc'[p] \in {"raising", "read"}
    BY <1>4, CalledType DEF ReadData, Called, TypeOK
  <2>2. ~Writing(p, f) /\ ~Writing(p, f)'
    BY <2>1 DEF Writing
  <2>3. \A q \in Process \ {p} : /\ Saving(q, f)' = Saving(q, f)
                                 /\ Writing(q, f)' = Writing(q, f)
    BY <1>c, <2>1
  <2>4. CASE Saving(p, f)'
    <3>1. Called(p) = f /\ pc'[p] = "read"
      BY <2>1, <2>4 DEF Saving
    <3>2. buf'[p][f] = data[f]
      BY <1>4, <2>1, <3>1 DEF ReadData, TypeOK
    <3>3. \A q \in Process \ {p} : ~Saving(q, f) /\ ~Writing(q, f)
      BY <1>a, <2>1, <3>1 DEF Writing, Saving
    <3>4. f \notin torn /\ data[f] = saved[f]
      BY <1>0, <2>2, <3>3 DEF DataInv
    <3> QED
      BY <2>1, <2>3, <3>2, <3>3, <3>4 DEF Goal
  <2>5. CASE ~Saving(p, f)'
    BY <1>b, <2>1, <2>2, <2>3, <2>5
  <2> QED
    BY <2>4, <2>5
<1>5. ASSUME NEW p \in Process, Truncate(p) PROVE Goal
  <2>1. /\ pc[p] = "read" /\ pc'[p] = "truncated" /\ stack' = stack /\ buf' = buf /\ saved' = saved
        /\ Called(p)' = Called(p) /\ Called(p) \in Function
        /\ \A q \in Process \ {p} : pc'[q] = pc[q]
        /\ Called(p) # f => data'[f] = data[f] /\ (f \in torn' <=> f \in torn)
    BY <1>5, CalledType DEF Truncate, Called, TypeOK
  <2>2. \A q \in Process \ {p} : Saving(q, f)' = Saving(q, f) /\ Writing(q, f)' = Writing(q, f)
    BY <1>c, <2>1
  <2>3. Saving(p, f)' = Saving(p, f) /\ ~Writing(p, f) /\ (Called(p) = f <=> Writing(p, f)')
    BY <2>1 DEF Saving, Writing
  <2> QED
    BY <1>0, <2>1, <2>2, <2>3 DEF DataInv, Goal
<1>6. ASSUME NEW p \in Process, WriteData(p) PROVE Goal
  <2>1. /\ pc[p] = "truncated" /\ pc'[p] = "written" /\ stack' = stack
        /\ Called(p) \in Function
        /\ \A q \in Process \ {p} : pc'[q] = pc[q] /\ buf'[q] = buf[q]
    BY <1>6, CalledType DEF WriteData, TypeOK
  <2>2. \A q \in Process \ {p} : Saving(q, f)' = Saving(q, f) /\ Writing(q, f)' = Writing(q, f)
    BY <1>c, <2>1
  <2>3. ~Saving(p, f)' /\ (Writing(p, f) <=> Called(p) = f) /\ (Saving(p, f) <=> Called(p) = f)
    BY <2>1 DEF Saving, Writing
  <2>4. CASE Called(p) = f
    <3>1. buf[p][f] = saved[f]
      BY <1>0, <2>3, <2>4 DEF DataInv
    <3>2. f \notin torn' /\ data'[f] = saved'[f]
      BY <1>6, <3>1, <2>4 DEF WriteData, TypeOK
    <3>3. \A q \in Process \ {p} : ~Saving(q, f)
      BY <1>a, <2>1, <2>4
    <3> QED
      BY <2>2, <2>3, <3>2, <3>3 DEF Goal
  <2>5. CASE Called(p) # f
    <3>1. data'[f] = data[f] /\ saved'[f] = saved[f] /\ (f \in torn' <=> f \in torn)
      BY <1>6, <2>1, <2>5 DEF WriteData, TypeOK
    <3> QED
      BY <1>0, <2>1, <2>2, <2>3, <2>5, <3>1 DEF DataInv, Goal
  <2> QED
    BY <2>4, <2>5
<1>7. ASSUME NEW p \in Process, FunctionRaises(p) \/ Kill(p) PROVE Goal
  <2>1. /\ pc'[p] \in {"raising", "idle"} /\ UNCHANGED <<data, torn, saved>> /\ cut' = CutShort(p)
        /\ \A q \in Process \ {p} : pc'[q] = pc[q] /\ buf'[q] = buf[q] /\ stack'[q] = stack[q]
    BY <1>7 DEF FunctionRaises, Kill, TypeOK
  <2>2. \A q \in Process \ {p} : Saving(q, f)' = Saving(q, f) /\ Writing(q, f)' = Writing(q, f)
    BY <1>c, <2>1
  <2>3. ~Saving(p, f)' /\ ~Writing(p, f)
    BY <2>1 DEF Saving, Writing, CutShort
  <2> QED
    BY <1>b, <2>1, <2>2, <2>3
<1>8. CASE UNCHANGED vars
  <2>1. UNCHANGED <<buf, data, torn, saved, stack, pc>>
    BY <1>8 DEF vars, saving
  <2> QED
    BY <1>b, <1>c, <2>1
<1> QED
  BY <1>1, <1>2, <1>3, <1>4, <1>5, <1>6, <1>7, <1>8 DEF Next, Step

\* What a call has saved is not lost to another call that had read before it, provided
\* the workers share a scope: only a call that is killed, or that raises, between the
\* truncation and the writing of the file loses it.
THEOREM NothingOverwritten == CommonScope => (Spec => []UpdatesSurvive)
<1> SUFFICES ASSUME CommonScope PROVE Spec => []UpdatesSurvive
  OBVIOUS
<1>1. Init => DataInv
  BY DEF Init, DataInv, Saving
<1>2. TypeOK /\ LockInv /\ DataInv /\ [Next]_vars => DataInv'
  BY DataInvStep
<1>3. DataInv => UpdatesSurvive
  BY DEF DataInv, UpdatesSurvive
<1> QED
  BY <1>1, <1>2, <1>3, LockInvariance, PTL DEF Spec

=============
