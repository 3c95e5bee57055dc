--------------------------- MODULE FunctionLocker ---------------------------
(***************************************************************************)
(* robottelo/utils/decorators/func_locker.py: functions that xdist workers *)
(* must not run at the same time.  lock_function and locking_function take *)
(* a lock on a file named for the function, in a directory named for the   *)
(* scope, write their process id into the file while they hold the lock,   *)
(* and refuse a call of a function that the same process is already in.    *)
(*                                                                         *)
(* A locked function may call others.  What it does is what _save_test_data*)
(* (tests/upgrades/conftest.py) and the functions of the tests do: read a  *)
(* file that the workers share, add to it and write it back.               *)
(***************************************************************************)
EXTENDS Naturals, Sequences

CONSTANTS
    Process,      \* the workers, each named for the process id it starts with
    PidSpace,     \* the process ids the system gives out
    Function,     \* the locked functions
    CommonScope,  \* set_default_scope() was called, with the same name by all
    MaxCalls,     \* bound: calls of locked functions
    MaxErrors,    \* bound: exceptions raised by the functions themselves
    MaxKills,     \* bound: processes killed and replaced
    None

Entry == Process \X Nat

ASSUME ConstantsAssumption ==
    /\ CommonScope \in BOOLEAN
    /\ MaxCalls \in Nat /\ MaxErrors \in Nat /\ MaxKills \in Nat
    /\ Process \subseteq PidSpace /\ None \notin PidSpace

VARIABLES
    pid,      \* the process id of each worker
    holder,   \* the worker that has each lock file locked, or None
    content,  \* the process id written in each lock file, or None
    stack,    \* the locked functions a process is in, and the one it calls
    pc,       \* where it is in the call on top of its stack
    buf,      \* what it has read of the shared file of a function
    calls,    \* calls made so far
    data,     \* the file each function works on: the calls it records
    torn,     \* the functions whose file is no JSON: truncated, and not yet written
    errors, kills,
    stale,    \* history: lock files with the text of a process that was killed
    saved,    \* history: the calls that have written the file of a function
    cut       \* history: functions that ended between truncation and writing

files == <<holder, content, stale>>
saving == <<buf, data, torn, saved, cut>>
vars == <<pid, files, stack, pc, saving, calls, errors, kills>>

\* Mutant: the scope that was set is not looked at.
LockFile_PerProcess(p, f) == <<pid[p], f>>

\* _get_default_scope() and _get_function_name_lock_path().
LockFile(p, f) == <<IF CommonScope THEN None ELSE pid[p], f>>
Files == (PidSpace \cup {None}) \X Function

Called(p) == stack[p][Len(stack[p])]
Mine(p)   == LockFile(p, Called(p))
Pop(p)    == SubSeq(stack[p], 1, Len(stack[p]) - 1)

\* The lock files stay in /tmp: those of workers killed in earlier sessions have their
\* process ids in them, which may be in use again.
Init ==
    /\ pid = [p \in Process |-> p]
    /\ stale \in SUBSET {LockFile(p, f) : p \in Process, f \in Function}
    /\ content \in [Files -> PidSpace \cup {None}]
    /\ \A l \in Files : content[l] # None <=> l \in stale
    /\ holder = [l \in Files |-> None]
    /\ stack = [p \in Process |-> <<>>] /\ pc = [p \in Process |-> "idle"]
    /\ buf = [p \in Process |-> [f \in Function |-> {}]]
    /\ calls = 0
    /\ data = [f \in Function |-> {}] /\ torn = {}
    /\ errors = 0 /\ kills = 0
    /\ saved = [f \in Function |-> {}] /\ cut = {}

-----------------------------------------------------------------------------
\* The process leaves the call on top of its stack. Its caller goes on, or gets
\* the exception.
LeaveCall(p, raising) ==
    /\ stack' = [stack EXCEPT ![p] = Pop(p)]
    /\ pc' = [pc EXCEPT ![p] = IF Len(stack[p]) = 1 THEN "idle"
                               ELSE IF raising THEN "raising" ELSE "body"]

\* A call from outside, or from the body of a locked function.
Call(p, f) ==
    /\ pc[p] \in {"idle", "body"} /\ calls < MaxCalls
    /\ calls' = calls + 1
    /\ stack' = [stack EXCEPT ![p] = Append(@, f)]
    /\ pc' = [pc EXCEPT ![p] = "check"]
    /\ UNCHANGED <<pid, files, saving, errors, kills>>

\* _check_deadlock(): the file has this process's id in it.
IsRecursion(p) == content[Mine(p)] = pid[p]

CheckPasses(p) ==
    /\ pc[p] = "check" /\ ~IsRecursion(p)
    /\ pc' = [pc EXCEPT ![p] = "wait"]
    /\ UNCHANGED <<pid, files, stack, saving, calls, errors, kills>>

RecursionDetected(p) ==
    /\ pc[p] = "check" /\ IsRecursion(p)
    /\ LeaveCall(p, TRUE)
    /\ UNCHANGED <<pid, files, saving, calls, errors, kills>>

\* file_lock() succeeds, and the process id is written over what there was.
Acquire(p) ==
    /\ pc[p] = "wait" /\ holder[Mine(p)] = None
    /\ holder' = [holder EXCEPT ![Mine(p)] = p]
    /\ content' = [content EXCEPT ![Mine(p)] = pid[p]]
    /\ stale' = stale \ {Mine(p)}
    /\ pc' = [pc EXCEPT ![p] = "body"]
    /\ UNCHANGED <<pid, stack, saving, calls, errors, kills>>

\* Mutant: timeout=0, no timeout.
TimeOut_Never(p) == FALSE /\ UNCHANGED vars

\* file_lock() gives up and raises.
TimeOut(p) ==
    /\ pc[p] = "wait" /\ holder[Mine(p)] # None
    /\ LeaveCall(p, TRUE)
    /\ UNCHANGED <<pid, files, saving, calls, errors, kills>>

\* The function reads the shared file, which raises if the text is torn ...
ReadData(p) ==
    LET f == Called(p) IN
    /\ pc[p] = "body"
    /\ \/ f \in torn /\ pc' = [pc EXCEPT ![p] = "raising"] /\ UNCHANGED buf
       \/ /\ f \notin torn /\ pc' = [pc EXCEPT ![p] = "read"]
          /\ buf' = [buf EXCEPT ![p][f] = data[f]]
    /\ UNCHANGED <<pid, files, stack, data, torn, saved, cut, calls, errors, kills>>

\* ... opens it again, with 'w', which truncates it ...
Truncate(p) ==
    /\ pc[p] = "read"
    /\ data' = [data EXCEPT ![Called(p)] = {}] /\ torn' = torn \cup {Called(p)}
    /\ pc' = [pc EXCEPT ![p] = "truncated"]
    /\ UNCHANGED <<pid, files, stack, buf, saved, cut, calls, errors, kills>>

\* ... and writes it back with what this call adds.
WriteData(p) ==
    LET f == Called(p)
        entry == <<p, calls>> IN
    /\ pc[p] = "truncated"
    /\ data' = [data EXCEPT ![f] = buf[p][f] \cup {entry}] /\ torn' = torn \ {f}
    /\ saved' = [saved EXCEPT ![f] = @ \cup {entry}]
    /\ buf' = [buf EXCEPT ![p][f] = {}]
    /\ pc' = [pc EXCEPT ![p] = "written"]
    /\ UNCHANGED <<pid, files, stack, cut, calls, errors, kills>>

\* History: p does not get from the truncation to the writing.
CutShort(p) == IF pc[p] = "truncated" THEN cut \cup {Called(p)} ELSE cut

FunctionRaises(p) ==
    /\ pc[p] \in {"body", "read", "truncated"} /\ errors < MaxErrors
    /\ errors' = errors + 1
    /\ buf' = [buf EXCEPT ![p][Called(p)] = {}]
    /\ pc' = [pc EXCEPT ![p] = "raising"]
    /\ cut' = CutShort(p)
    /\ UNCHANGED <<pid, files, stack, calls, data, torn, saved, kills>>

\* Mutant: the finally clause is missing, the file is cleared after a return only.
Cleared_Returning(p) == IF pc[p] = "raising" THEN pid[p] ELSE None

\* What the finally clause leaves in the lock file.
Cleared(p) == None

\* The function returns or raises: the file is cleared and unlocked either way.
Leave(p) ==
    /\ pc[p] \in {"body", "written", "raising"}
    /\ content' = [content EXCEPT ![Mine(p)] = Cleared(p)]
    /\ holder' = [holder EXCEPT ![Mine(p)] = None]
    /\ LeaveCall(p, pc[p] = "raising")
    /\ UNCHANGED <<pid, stale, saving, calls, errors, kills>>

\* The process is killed: its locks go, what it has written stays. xdist starts
\* another in its place, with any process id that is not in use, its own one too.
Kill(p) ==
    /\ pc[p] # "idle" /\ kills < MaxKills
    /\ kills' = kills + 1
    /\ holder' = [l \in Files |-> IF holder[l] = p THEN None ELSE holder[l]]
    /\ stale' = stale \cup {l \in Files : holder[l] = p}
    /\ \E new \in PidSpace \ {pid[q] : q \in Process \ {p}} : pid' = [pid EXCEPT ![p] = new]
    /\ stack' = [stack EXCEPT ![p] = <<>>]
    /\ pc' = [pc EXCEPT ![p] = "idle"]
    /\ buf' = [buf EXCEPT ![p] = [f \in Function |-> {}]]
    /\ cut' = CutShort(p)
    /\ UNCHANGED <<content, calls, data, torn, saved, errors>>

-----------------------------------------------------------------------------
Step(p) ==
    \/ CheckPasses(p) \/ RecursionDetected(p) \/ Acquire(p) \/ TimeOut(p)
    \/ ReadData(p) \/ Truncate(p) \/ WriteData(p) \/ Leave(p)

Next == \E p \in Process :
    Step(p) \/ (\E f \in Function : Call(p, f)) \/ FunctionRaises(p) \/ Kill(p)

Spec == Init /\ [][Next]_vars

\* A process in a call keeps running: file_lock() polls and gives up in the end.
FairSpec == Spec /\ \A p \in Process : WF_vars(Step(p))

-----------------------------------------------------------------------------
PC == {"idle", "check", "wait", "body", "read", "truncated", "written", "raising"}

TypeOK ==
    /\ pid \in [Process -> PidSpace]
    /\ holder \in [Files -> Process \cup {None}] /\ content \in [Files -> PidSpace \cup {None}]
    /\ stack \in [Process -> Seq(Function)] /\ pc \in [Process -> PC]
    /\ calls \in 0..MaxCalls
    /\ buf \in [Process -> [Function -> SUBSET Entry]]
    /\ data \in [Function -> SUBSET Entry] /\ torn \subseteq Function
    /\ errors \in 0..MaxErrors /\ kills \in 0..MaxKills
    /\ stale \subseteq Files /\ saved \in [Function -> SUBSET Entry] /\ cut \subseteq Function
    /\ \A p \in Process : pc[p] = "idle" <=> stack[p] = <<>>

\* The calls a process is inside of: those that have got their lock.
Depth(p) == IF pc[p] \in {"check", "wait"} THEN Len(stack[p]) - 1 ELSE Len(stack[p])
Inside(p, f) == {i \in 1..Depth(p) : stack[p][i] = f}

\* Workers that share a scope take turns, and no process is in a function twice,
\* whatever functions call each other, time out, raise or are killed.
OneInFunction ==
    \A p, q \in Process, f \in Function :
        \A i \in Inside(p, f), j \in Inside(q, f) : p = q /\ i = j

\* A process never waits for a lock that it holds itself.
NoSelfDeadlock == \A p \in Process : pc[p] = "wait" => holder[Mine(p)] # p

\* "recursion detected" is raised only in a process that is in the function, or that
\* has the process id of one that was killed in it: the text of a file that nobody has
\* locked since is taken for its own. No other text is, whatever raises or times out.
OnlyRecursionIsRefused ==
    \A p \in Process :
        RecursionDetected(p) =>
            \/ \E i \in 1..Depth(p) : stack[p][i] = Called(p)
            \/ Mine(p) \in stale

\* The check for recursion, made before the lock is taken, is right both ways.
RecursionIsSeen == [][NoSelfDeadlock' /\ OnlyRecursionIsRefused]_vars

Writing(p, f) == pc[p] = "truncated" /\ Called(p) = f

\* The file holds what every call has saved, and nothing else, whenever nobody is
\* writing it: no call overwrites what another has saved since it read. Only one that
\* is killed or raises between the truncation and the writing loses it, all of it.
UpdatesSurvive ==
    \A f \in Function \ cut :
        (\A p \in Process : ~Writing(p, f)) => f \notin torn /\ data[f] = saved[f]

\* Functions that call each other in opposite orders do not wait for ever.
WaitingEnds == \A p \in Process : pc[p] = "wait" ~> pc[p] # "wait"
=============================================================================
