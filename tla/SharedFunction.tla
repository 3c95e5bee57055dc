---------------------------- MODULE SharedFunction ----------------------------
(***************************************************************************)
(* robottelo/utils/decorators/func_shared: a function decorated with       *)
(* @shared runs once, under a lock, and its result or its failure is kept  *)
(* in a file or in redis for every other process until it expires.         *)
(*                                                                         *)
(* One key: the functions of a namespace are independent of each other.    *)
(* A process is a pytest-xdist worker; it may be killed anywhere and       *)
(* replaced.  The two storages differ in two ways that matter: writing a   *)
(* file truncates it first, while SET is atomic; and the operating system  *)
(* drops the file lock of a dead process, while a redis lock stays.        *)
(***************************************************************************)
EXTENDS Naturals, Sequences

CONSTANTS
    Process,       \* the xdist workers
    NoProcess,     \* nobody holds the lock
    Orphan,        \* a process that died holding the redis lock
    NoValue,       \* the key is not in the storage
    Torn,          \* the key's file is truncated, its value not written
    Retries,       \* retries: how often a failing function is called
    ShareTimeout,  \* timeout: how long a value is valid
    MaxClock,      \* bound: the time a behaviour may take
    MaxCalls,      \* bound: the calls a worker makes
    MaxCrashes     \* bound: the workers that are killed

\* What is stored, and when the run that made it looked the key up. `ok` is history:
\* whether that run of the function succeeded.
Value == [state : {"READY", "FAILED"}, created : Nat, began : Nat, ok : BOOLEAN]

ASSUME ConstantsAssumption ==
    /\ NoProcess \notin Process /\ Orphan \notin Process /\ Orphan # NoProcess
    /\ NoValue \notin Value /\ Torn \notin Value /\ NoValue # Torn
    /\ Retries \in Nat \ {0} /\ ShareTimeout \in Nat
    /\ MaxClock \in Nat /\ MaxCalls \in Nat /\ MaxCrashes \in Nat

VARIABLES
    storage,   \* settings.shared_function.storage: "file" or "redis"
    inject,    \* the decorator's inject=
    clock,
    store,     \* the key: NoValue, Torn or a Value
    holder,    \* who holds the key's lock
    pc, attempt,
    pending,   \* the value the lock holder is about to store
    answer,    \* how a worker's last call ended, and with which stored value
    calls, crashes,
    log        \* history: every value ever stored, in order

config == <<storage, inject>>
worker == <<pc, attempt, answer, calls>>
vars == <<config, clock, store, holder, worker, pending, crashes, log>>

NoAnswer == [kind |-> "none", from |-> 0]
Raised(kind) == [kind |-> kind, from |-> 0]

Init ==
    /\ storage \in {"file", "redis"} /\ inject \in BOOLEAN
    /\ clock = 0 /\ store = NoValue /\ holder = NoProcess
    /\ pc = [p \in Process |-> "idle"]
    /\ attempt = [p \in Process |-> 0]
    /\ pending = NoValue
    /\ answer = [p \in Process |-> NoAnswer]
    /\ calls = [p \in Process |-> 0] /\ crashes = 0
    /\ log = <<>>

-----------------------------------------------------------------------------
Goto(p, to) == pc' = [pc EXCEPT ![p] = to]

\* The call ends: the result, or the exception, is the caller's.
Answer(p, a) ==
    /\ answer' = [answer EXCEPT ![p] = a]
    /\ Goto(p, "idle")

\* _has_result_expired()
Expired(value) == clock >= value.created + ShareTimeout

\* A call of the decorated function.
Call(p) ==
    /\ pc[p] = "idle" /\ calls[p] < MaxCalls
    /\ calls' = [calls EXCEPT ![p] = @ + 1]
    /\ answer' = [answer EXCEPT ![p] = NoAnswer]
    /\ Goto(p, "locking")
    /\ UNCHANGED <<config, clock, store, holder, attempt, pending, crashes, log>>

\* Mutant: every transaction locks a key of its own.
Lock_PerTransaction(p) ==
    /\ pc[p] = "locking"
    /\ holder' = p
    /\ Goto(p, "lookup")
    /\ UNCHANGED <<config, clock, store, attempt, pending, answer, calls, crashes, log>>

\* `with self.storage.lock(self.key)` ...
Lock(p) ==
    /\ pc[p] = "locking" /\ holder = NoProcess
    /\ holder' = p
    /\ Goto(p, "lookup")
    /\ UNCHANGED <<config, clock, store, attempt, pending, answer, calls, crashes, log>>

\* Mutant: the redis lock is waited for without a blocking_timeout.
LockTimesOut_Never(p) ==
    /\ pc[p] = "locking" /\ holder \in Process
    /\ Answer(p, Raised("LockError"))
    /\ UNCHANGED <<config, clock, store, holder, attempt, pending, calls, crashes, log>>

\* ... or gives up after lock_timeout.
LockTimesOut(p) ==
    /\ pc[p] = "locking" /\ holder # NoProcess
    /\ Answer(p, Raised("LockError"))
    /\ UNCHANGED <<config, clock, store, holder, attempt, pending, calls, crashes, log>>

\* Mutant: a failure is not worth keeping.
Valid_ReadyOnly(value) == value.state = "READY" /\ ~Expired(value)

Valid(value) == value.state \in {"READY", "FAILED"} /\ ~Expired(value)

\* get() of a truncated file: json.loads() raises and the lock is released.
LookupFails(p) ==
    /\ pc[p] = "lookup" /\ store = Torn
    /\ holder' = NoProcess
    /\ Answer(p, Raised("JSONDecodeError"))
    /\ UNCHANGED <<config, clock, store, attempt, pending, calls, crashes, log>>

\* No value, or an expired one: the function is called.
LookupMisses(p) ==
    /\ pc[p] = "lookup" /\ store # Torn
    /\ store # NoValue => ~Valid(store)
    /\ attempt' = [attempt EXCEPT ![p] = 1]
    /\ pending' = [state |-> "READY", created |-> 0, began |-> clock, ok |-> TRUE]
    /\ Goto(p, "running")
    /\ UNCHANGED <<config, clock, store, holder, answer, calls, crashes, log>>

\* A valid value: the result is returned, or, with inject, passed to another call of
\* the function, made without the lock; a failure is raised again.
LookupHits(p) ==
    /\ pc[p] = "lookup" /\ store \notin {NoValue, Torn} /\ Valid(store)
    /\ holder' = NoProcess
    /\ \/ store.state = "FAILED" /\ Answer(p, Raised("restored"))
       \/ store.state = "READY" /\ ~inject
          /\ Answer(p, [kind |-> "returned", from |-> Len(log)])
       \/ store.state = "READY" /\ inject
          /\ answer' = [answer EXCEPT ![p].from = Len(log)]
          /\ Goto(p, "injecting")
    /\ UNCHANGED <<config, clock, store, attempt, pending, calls, crashes, log>>

\* The injected call returns or raises; nothing is stored.
InjectedCall(p) ==
    /\ pc[p] = "injecting"
    /\ \/ Answer(p, [answer[p] EXCEPT !.kind = "returned"])
       \/ Answer(p, Raised("function"))
    /\ UNCHANGED <<config, clock, store, holder, attempt, pending, calls, crashes, log>>

-----------------------------------------------------------------------------
(* _call_function(), and set().                                            *)

FunctionReturns(p) ==
    /\ pc[p] = "running"
    /\ pending' = [pending EXCEPT !.state = "READY", !.created = clock, !.ok = TRUE]
    /\ Goto(p, "store")
    /\ UNCHANGED <<config, clock, store, holder, attempt, answer, calls, crashes, log>>

MoreAttempts(p) == attempt[p] < Retries

\* Mutant: the exception of the last attempt is lost.
FunctionRaises_Swallowed(p) ==
    /\ pc[p] = "running"
    /\ \/ MoreAttempts(p)
          /\ attempt' = [attempt EXCEPT ![p] = @ + 1] /\ UNCHANGED <<pc, pending>>
       \/ ~MoreAttempts(p)
          /\ pending' = [pending EXCEPT !.state = "READY", !.created = clock, !.ok = FALSE]
          /\ Goto(p, "store") /\ UNCHANGED attempt
    /\ UNCHANGED <<config, clock, store, holder, answer, calls, crashes, log>>

FunctionRaises(p) ==
    /\ pc[p] = "running"
    /\ \/ MoreAttempts(p)
          /\ attempt' = [attempt EXCEPT ![p] = @ + 1] /\ UNCHANGED <<pc, pending>>
       \/ ~MoreAttempts(p)
          /\ pending' = [pending EXCEPT !.state = "FAILED", !.created = clock, !.ok = FALSE]
          /\ Goto(p, "store") /\ UNCHANGED attempt
    /\ UNCHANGED <<config, clock, store, holder, answer, calls, crashes, log>>

\* The result is no JSON: encode() raises before anything is written.
EncodeFails(p) ==
    /\ pc[p] = "store" /\ pending.state = "READY"
    /\ holder' = NoProcess /\ pending' = NoValue
    /\ Answer(p, Raised("TypeError"))
    /\ UNCHANGED <<config, clock, store, attempt, calls, crashes, log>>

\* open(key_file_path, "w")
OpenFile(p) ==
    /\ pc[p] = "store" /\ storage = "file"
    /\ store' = Torn
    /\ Goto(p, "write")
    /\ UNCHANGED <<config, clock, holder, attempt, pending, answer, calls, crashes, log>>

\* The value is in the storage, and the lock released; the caller gets its own result.
Store(p) ==
    /\ pc[p] = IF storage = "file" THEN "write" ELSE "store"
    /\ store' = pending
    /\ log' = Append(log, pending)
    /\ holder' = NoProcess /\ pending' = NoValue
    /\ Answer(p, IF pending.state = "READY"
                 THEN [kind |-> "returned", from |-> Len(log) + 1]
                 ELSE Raised("function"))
    /\ UNCHANGED <<config, clock, attempt, calls, crashes>>

-----------------------------------------------------------------------------
\* A worker is killed and replaced: its file lock is gone, its redis lock is not.
Crash(p) ==
    /\ pc[p] # "idle" /\ crashes < MaxCrashes
    /\ crashes' = crashes + 1
    /\ IF holder = p
       THEN /\ holder' = IF storage = "file" THEN NoProcess ELSE Orphan
            /\ pending' = NoValue
       ELSE UNCHANGED <<holder, pending>>
    /\ answer' = [answer EXCEPT ![p] = Raised("killed")]
    /\ Goto(p, "idle")
    /\ UNCHANGED <<config, clock, store, attempt, calls, log>>

Tick ==
    /\ clock < MaxClock /\ clock' = clock + 1
    /\ UNCHANGED <<config, store, holder, worker, pending, crashes, log>>

\* What a live worker does next.
Step(p) ==
    \/ Lock(p) \/ LookupFails(p) \/ LookupMisses(p) \/ LookupHits(p) \/ InjectedCall(p)
    \/ FunctionReturns(p) \/ FunctionRaises(p)
    \/ EncodeFails(p) \/ OpenFile(p) \/ Store(p)

Next ==
    \/ \E p \in Process : Call(p) \/ Step(p) \/ LockTimesOut(p) \/ Crash(p)
    \/ Tick

Spec == Init /\ [][Next]_vars

\* A live worker goes on; waiting for a lock that nobody will release times out.
FairSpec ==
    /\ Spec
    /\ \A p \in Process : /\ WF_vars(Step(p))
                          /\ WF_vars(holder = Orphan /\ LockTimesOut(p))

-----------------------------------------------------------------------------
PC == {"idle", "locking", "lookup", "injecting", "running", "store", "write"}

AnswerType ==
    [kind : {"none", "returned", "LockError", "JSONDecodeError", "restored", "function",
             "TypeError", "killed"}, from : Nat]

TypeOK ==
    /\ storage \in {"file", "redis"} /\ inject \in BOOLEAN /\ clock \in Nat
    /\ store \in Value \cup {NoValue, Torn} /\ pending \in Value \cup {NoValue}
    /\ holder \in Process \cup {NoProcess, Orphan}
    /\ pc \in [Process -> PC]
    /\ attempt \in [Process -> 0..Retries]
    /\ answer \in [Process -> AnswerType]
    /\ calls \in [Process -> Nat] /\ crashes \in Nat /\ log \in Seq(Value)

\* "Any parallel pytest xdist worker will wait for this function to finish": two
\* workers never make the value at once.
OneMaker ==
    \A p, q \in Process : pc[p] \in {"running", "store", "write"}
                            /\ pc[q] \in {"running", "store", "write"} => p = q

\* A value, or a failure, is shared for as long as it is valid: whatever crashes or
\* times out, the run behind a later value began after the earlier one expired.
SharedWhileValid ==
    \A i, j \in DOMAIN log : i < j => log[j].began >= log[i].created + ShareTimeout

\* Every result a worker is given was stored, and by a run that succeeded.
ResultsAreShared ==
    \A p \in Process : answer[p].kind = "returned"
        => answer[p].from \in DOMAIN log /\ log[answer[p].from].ok

\* The storage is unreadable to the next worker only if one was killed writing it.
TornOnlyByCrash == store = Torn /\ holder = NoProcess => crashes > 0

\* Every call ends: a worker that waits for the lock gets it, or gives up.
EveryCallEnds == \A p \in Process : pc[p] = "locking" ~> pc[p] = "idle"
=============================================================================
