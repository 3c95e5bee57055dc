------------------------- MODULE SharedFunctionProofs -------------------------
(***************************************************************************)
(* Theorems about SharedFunction for any workers, retries, timeout and     *)
(* bounds, and both storages.                                              *)
(***************************************************************************)
EXTENDS SharedFunction, SequenceTheorems, TLAPS

-----------------------------------------------------------------------------
(* The lock.  A worker is inside `with self.storage.lock(key)` exactly     *)
(* when its call is between the lookup and the store, and then it is alone *)
(* with the pending value.                                                 *)

Making == {"running", "store", "write"}

LockInv ==
    /\ \A p \in Process : pc[p] \in Making \cup {"lookup"} <=> holder = p
    /\ \A p \in Process : /\ pc[p] \in Making => pending \in Value
                          /\ pc[p] = "write" => storage = "file"
                          /\ pc[p] = "lookup" => pending = NoValue
    /\ holder \in {NoProcess, Orphan} => pending = NoValue

(* The log.  The storage holds the last value of the log or nothing        *)
(* readable, and the value being made began after everything logged had    *)
(* expired.                                                                *)

Follows(value, i) == value.began >= log[i].created + ShareTimeout

LogInv ==
    /\ store \in Value => log # <<>> /\ store = log[Len(log)]
    /\ store = NoValue => log = <<>>
    /\ \A i \in DOMAIN log : /\ log[i].began <= log[i].created /\ log[i].created <= clock
                             /\ log[i].state = "READY" => log[i].ok
    /\ SharedWhileValid

MakingInv ==
    \A p \in Process :
        /\ pc[p] \in Making => /\ store # Torn \/ pc[p] = "write"
                               /\ pending.began <= clock
                               /\ \A i \in DOMAIN log : Follows(pending, i)
        /\ pc[p] \in {"store", "write"} =>
               /\ pending.began <= pending.created /\ pending.created <= clock
               /\ pending.state = "READY" => pending.ok

AnswerInv ==
    \A p \in Process :
        answer[p].kind = "returned" \/ pc[p] = "injecting"
            => answer[p].from \in DOMAIN log /\ log[answer[p].from].ok

Inv == TypeOK /\ LockInv /\ LogInv /\ MakingInv /\ AnswerInv

LEMMA InitInv == Init => Inv
  BY ConstantsAssumption
     DEF Init, Inv, TypeOK, LockInv, LogInv, MakingInv, AnswerInv, SharedWhileValid,
         Making, PC, NoAnswer, AnswerType

\* What a worker or the clock may do.
Move(p) == Call(p) \/ Step(p) \/ LockTimesOut(p) \/ Crash(p)

LEMMA MoveKeepsTypes ==
    ASSUME TypeOK, LockInv, NEW p \in Process, Move(p)
    PROVE  TypeOK' /\ LockInv'
  <1>. USE ConstantsAssumption DEF TypeOK, LockInv, Making, PC, Goto, Answer, config
  <1>a. /\ NoAnswer \in AnswerType
        /\ \A k \in {"LockError", "JSONDecodeError", "restored", "function", "TypeError",
                    "killed"} : Raised(k) \in AnswerType
        /\ \A n \in Nat : [kind |-> "returned", from |-> n] \in AnswerType
        /\ \A a \in AnswerType : [a EXCEPT !.kind = "returned"] \in AnswerType
        /\ \A a \in AnswerType, n \in Nat : [a EXCEPT !.from = n] \in AnswerType
    BY DEF AnswerType, NoAnswer, Raised
  <1>1. CASE Call(p)
    BY <1>a, <1>1, SMTT(30) DEF Call
  <1>2. CASE Lock(p)
    BY <1>2 DEF Lock
  <1>3. CASE LockTimesOut(p)
    BY <1>a, <1>3 DEF LockTimesOut
  <1>4. CASE LookupFails(p)
    BY <1>a, <1>4 DEF LookupFails
  <1>5. CASE LookupMisses(p)
    BY <1>5 DEF LookupMisses, Value
  <1>6. CASE LookupHits(p)
    <2>1. Len(log) \in Nat /\ answer' \in [Process -> AnswerType]
      BY <1>a, <1>6 DEF LookupHits
    <2>. QED  BY <1>6, <2>1, ZenonT(30) DEF LookupHits
  <1>7. CASE InjectedCall(p)
    <2>1. answer' \in [Process -> AnswerType]
      <3>1. [answer[p] EXCEPT !.kind = "returned"] \in AnswerType /\ Raised("function") \in AnswerType
        BY <1>a
      <3>. QED  BY <1>7, <3>1 DEF InjectedCall
    <2>. QED  BY <1>7, <2>1 DEF InjectedCall
  <1>8. CASE FunctionReturns(p)
    <2>1. pending' \in Value
      BY <1>8 DEF FunctionReturns, Value
    <2>. QED  BY <1>8, <2>1 DEF FunctionReturns
  <1>9. CASE FunctionRaises(p)
    <2>1. pending' \in Value
      BY <1>9 DEF FunctionRaises, Value
    <2>2. attempt' \in [Process -> 0..Retries]
      <3>1. attempt[p] \in 0..Retries /\ Retries \in Nat
        OBVIOUS
      <3>2. attempt' = attempt \/ (attempt' = [attempt EXCEPT ![p] = @ + 1] /\ attempt[p] < Retries)
        BY <1>9 DEF FunctionRaises, MoreAttempts
      <3>3. attempt[p] < Retries => attempt[p] + 1 \in 0..Retries
        BY <3>1
      <3>. QED  BY <3>2, <3>3
    <2>. QED  BY <1>9, <2>1, <2>2 DEF FunctionRaises
  <1>10. CASE EncodeFails(p)
    BY <1>a, <1>10 DEF EncodeFails
  <1>11. CASE OpenFile(p)
    BY <1>11 DEF OpenFile
  <1>12. CASE Store(p)
    <2>1. pending \in Value
      BY <1>12 DEF Store
    <2>2. log' \in Seq(Value) /\ Len(log) + 1 \in Nat
      BY <1>12, <2>1 DEF Store
    <2>3. store' \in Value /\ pending' = NoValue /\ holder' = NoProcess /\ holder = p
          /\ pc' = [pc EXCEPT ![p] = "idle"]
          /\ UNCHANGED <<storage, inject, clock, attempt, calls, crashes>>
      BY <1>12, <2>1 DEF Store
    <2>4. answer' \in [Process -> AnswerType]
      BY <1>a, <1>12, <2>2 DEF Store
    <2>. QED  BY <2>1, <2>2, <2>3, <2>4
  <1>13. CASE Crash(p)
    BY <1>a, <1>13, SMTT(30) DEF Crash
  <1>. QED  BY <1>1, <1>2, <1>3, <1>4, <1>5, <1>6, <1>7, <1>8, <1>9, <1>10, <1>11, <1>12, <1>13 DEF Move, Step

\* Nobody else is making a value while p holds the lock.
LEMMA MoveKeepsLog ==
    ASSUME Inv, NEW p \in Process, Move(p)
    PROVE  LogInv' /\ MakingInv' /\ AnswerInv'
  <1>. USE ConstantsAssumption DEF Making, Goto, Answer, config
  <1>. TypeOK /\ LockInv /\ LogInv /\ MakingInv /\ AnswerInv
    BY DEF Inv
  <1>. /\ pc \in [Process -> PC] /\ answer \in [Process -> AnswerType] /\ clock \in Nat
       /\ log \in Seq(Value) /\ store \in Value \cup {NoValue, Torn}
       /\ \A q \in Process : pc[q] \in Making \cup {"lookup"} <=> holder = q
       /\ NoProcess \notin Process /\ Orphan \notin Process
    BY DEF TypeOK, LockInv
  \* A move that leaves the values alone, and gives w no result.
  <1>a. ASSUME UNCHANGED <<clock, store, log>>,
               pc' \in [Process -> PC], answer' \in [Process -> AnswerType],
               \A q \in Process : q # p => pc'[q] = pc[q] /\ answer'[q] = answer[q],
               pc'[p] \notin Making, holder = p \/ UNCHANGED pending,
               answer'[p].kind = "returned" \/ pc'[p] = "injecting"
                 => answer'[p].from \in DOMAIN log /\ log[answer'[p].from].ok
        PROVE  LogInv' /\ MakingInv' /\ AnswerInv'
    <2>1. LogInv'
      BY <1>a DEF LogInv, SharedWhileValid
    <2>2. MakingInv'
      BY <1>a DEF MakingInv, Follows
    <2>3. AnswerInv'
      BY <1>a DEF AnswerInv
    <2>. QED  BY <2>1, <2>2, <2>3
  \* A move of the worker that is making the value, and has not stored it.
  <1>b. ASSUME holder = p, UNCHANGED <<clock, log, answer>>, store' \in {store, Torn},
               pc'[p] \in Making, \A q \in Process : q # p => pc'[q] = pc[q],
               store' # Torn \/ pc'[p] = "write",
               pending'.began <= clock, \A i \in DOMAIN log : Follows(pending', i),
               pc'[p] \in {"store", "write"} =>
                 /\ pending'.began <= pending'.created /\ pending'.created <= clock
                 /\ pending'.state = "READY" => pending'.ok
        PROVE  LogInv' /\ MakingInv' /\ AnswerInv'
    <2>1. LogInv'
      BY <1>b DEF LogInv, SharedWhileValid
    <2>2. MakingInv'
      BY <1>b DEF MakingInv, Follows
    <2>3. AnswerInv'
      BY <1>b DEF AnswerInv
    <2>. QED  BY <2>1, <2>2, <2>3
  <1>c. TypeOK' /\ LockInv'
    BY MoveKeepsTypes
  <1>d. pc' \in [Process -> PC] /\ answer' \in [Process -> AnswerType]
    BY <1>c DEF TypeOK
  <1>e. \A q \in Process : q # p => pc[q] \notin Making \/ holder # p
    OBVIOUS
  <1>1. CASE Call(p)
    BY <1>1, <1>a, <1>d DEF Call, NoAnswer
  <1>2. CASE Lock(p)
    <2>1. answer'[p] = answer[p] /\ pc'[p] = "lookup"
      BY <1>2 DEF Lock
    <2>. QED  BY <1>2, <2>1, <1>a, <1>d DEF Lock, AnswerInv
  <1>3. CASE LockTimesOut(p)
    BY <1>3, <1>a, <1>d DEF LockTimesOut, Raised
  <1>4. CASE LookupFails(p)
    BY <1>4, <1>a, <1>d DEF LookupFails, Raised
  <1>5. CASE LookupMisses(p)
    <2>1. /\ holder = p /\ store # Torn /\ (store # NoValue => ~Valid(store))
          /\ pending' = [state |-> "READY", created |-> 0, began |-> clock, ok |-> TRUE]
          /\ pc' = [pc EXCEPT ![p] = "running"] /\ UNCHANGED <<clock, store, log, answer>>
      BY <1>5 DEF LookupMisses
    <2>2. ASSUME NEW i \in DOMAIN log  PROVE clock >= log[i].created + ShareTimeout
      <3>1. store # NoValue /\ log # <<>>
        BY <2>2 DEF LogInv
      <3>2. store \in Value /\ store = log[Len(log)] /\ Len(log) \in DOMAIN log
        BY <2>1, <3>1 DEF LogInv
      <3>3. clock >= store.created + ShareTimeout
        BY <2>1, <3>1, <3>2 DEF Valid, Expired, Value
      <3>4. CASE i = Len(log)
        BY <3>2, <3>3, <3>4
      <3>5. CASE i # Len(log)
        <4>1. i < Len(log)
          BY <2>2, <3>5
        <4>2. store.began >= log[i].created + ShareTimeout
          BY <2>2, <3>2, <4>1 DEF LogInv, SharedWhileValid
        <4>3. store.began <= store.created /\ store.created <= clock
          BY <3>2 DEF LogInv
        <4>4. log[i] \in Value
          BY <2>2
        <4>. QED  BY <3>2, <4>2, <4>3, <4>4 DEF Value
      <3>. QED  BY <3>4, <3>5
    <2>. QED  BY <1>b, <2>1, <2>2 DEF Follows
  <1>6. CASE LookupHits(p)
    <2>1. store \in Value /\ holder = p /\ UNCHANGED <<clock, store, log, pending>>
      BY <1>6 DEF LookupHits
    <2>2. log # <<>> /\ Len(log) \in DOMAIN log /\ (store.state = "READY" => log[Len(log)].ok)
      BY <2>1 DEF LogInv
    <2>3. answer'[p].kind = "returned" \/ pc'[p] = "injecting"
            => answer'[p].from = Len(log) /\ store.state = "READY"
      BY <1>6 DEF LookupHits, Raised, AnswerType
    <2>. QED  BY <1>6, <1>a, <1>d, <2>1, <2>2, <2>3 DEF LookupHits
  <1>7. CASE InjectedCall(p)
    <2>1. pc[p] = "injecting" /\ pc'[p] = "idle"
          /\ (answer'[p].kind = "returned" => answer'[p].from = answer[p].from)
      BY <1>7 DEF InjectedCall, Raised, AnswerType
    <2>. QED  BY <1>7, <1>a, <1>d, <2>1 DEF InjectedCall, AnswerInv
  <1>8. CASE FunctionReturns(p)
    <2>1. holder = p /\ pending \in Value
      BY <1>8 DEF FunctionReturns, LockInv
    <2>2. /\ pending'.began = pending.began /\ pending'.created = clock
          /\ pending'.ok = TRUE /\ pc'[p] = "store" /\ pc[p] = "running"
          /\ UNCHANGED <<clock, log, answer, store>>
          /\ \A q \in Process : q # p => pc'[q] = pc[q]
      BY <1>8, <2>1 DEF FunctionReturns, Value
    <2>. QED  BY <1>b, <2>1, <2>2 DEF MakingInv, Follows
  <1>9. CASE FunctionRaises(p)
    <2>1. holder = p /\ pending \in Value /\ pc[p] = "running"
      BY <1>9 DEF FunctionRaises, LockInv
    <2>2. /\ pending'.began = pending.began
          /\ pc'[p] = "store" => pending'.created = clock /\ pending'.state = "FAILED"
          /\ pc'[p] \in {"running", "store"}
          /\ UNCHANGED <<clock, log, answer, store>>
          /\ \A q \in Process : q # p => pc'[q] = pc[q]
      BY <1>9, <2>1 DEF FunctionRaises, Value
    <2>. QED  BY <1>b, <2>1, <2>2 DEF MakingInv, Follows
  <1>10. CASE EncodeFails(p)
    BY <1>10, <1>a, <1>d DEF EncodeFails, Raised
  <1>11. CASE OpenFile(p)
    <2>1. holder = p /\ pending \in Value /\ pc[p] = "store"
      BY <1>11 DEF OpenFile, LockInv
    <2>. QED  BY <1>11, <1>b, <2>1 DEF OpenFile, MakingInv
  <1>12. CASE Store(p)
    <2>1. /\ pc[p] \in {"store", "write"} /\ holder = p /\ pending \in Value
          /\ store' = pending /\ log' = Append(log, pending) /\ clock' = clock
          /\ pc' = [pc EXCEPT ![p] = "idle"]
          /\ answer' = [answer EXCEPT ![p] =
                IF pending.state = "READY" THEN [kind |-> "returned", from |-> Len(log) + 1]
                ELSE Raised("function")]
      BY <1>12 DEF Store, LockInv
    <2>2. /\ log' \in Seq(Value) /\ Len(log') = Len(log) + 1 /\ log'[Len(log) + 1] = pending
          /\ DOMAIN log' = 1..Len(log) + 1 /\ DOMAIN log = 1..Len(log) /\ Len(log) \in Nat
          /\ \A i \in DOMAIN log : log'[i] = log[i]
      BY <2>1, AppendProperties
    <2>3. /\ pending.began <= pending.created /\ pending.created <= clock
          /\ pending.state = "READY" => pending.ok
          /\ \A i \in DOMAIN log : Follows(pending, i)
      BY <2>1 DEF MakingInv
    <2>4. SharedWhileValid'
      <3>. SUFFICES ASSUME NEW i \in 1..Len(log) + 1, NEW j \in 1..Len(log) + 1, i < j
                    PROVE  log'[j].began >= log'[i].created + ShareTimeout
        BY <2>2 DEF SharedWhileValid
      <3>1. CASE j = Len(log) + 1
        BY <2>2, <2>3, <3>1 DEF Follows
      <3>2. CASE j # Len(log) + 1
        <4>1. i \in DOMAIN log /\ j \in DOMAIN log
          BY <2>2, <3>2
        <4>. QED  BY <2>2, <4>1 DEF LogInv, SharedWhileValid
      <3>. QED  BY <3>1, <3>2
    <2>5. LogInv'
      <3>1. \A i \in DOMAIN log' : /\ log'[i].began <= log'[i].created /\ log'[i].created <= clock
                                   /\ log'[i].state = "READY" => log'[i].ok
        BY <2>2, <2>3 DEF LogInv
      <3>2. log' # <<>>
        BY <2>2
      <3>. QED  BY <2>1, <2>2, <2>4, <3>1, <3>2 DEF LogInv
    <2>6. MakingInv'
      BY <2>1, <1>e DEF MakingInv
    <2>7. AnswerInv'
      <3>. SUFFICES ASSUME NEW q \in Process, answer'[q].kind = "returned" \/ pc'[q] = "injecting"
                    PROVE  answer'[q].from \in DOMAIN log' /\ log'[answer'[q].from].ok
        BY DEF AnswerInv
      <3>1. CASE q = p
        BY <2>1, <2>2, <2>3, <3>1 DEF Raised
      <3>2. CASE q # p
        BY <2>1, <2>2, <3>2 DEF AnswerInv
      <3>. QED  BY <3>1, <3>2
    <2>. QED  BY <2>5, <2>6, <2>7
  <1>13. CASE Crash(p)
    BY <1>13, <1>a, <1>d DEF Crash, Raised
  <1>. QED  BY <1>1, <1>2, <1>3, <1>4, <1>5, <1>6, <1>7, <1>8, <1>9, <1>10, <1>11, <1>12,
               <1>13 DEF Move, Step

LEMMA TickKeepsInv == ASSUME Inv, Tick  PROVE Inv'
  <1>. USE DEF Inv, Tick, config, worker
  <1>1. clock \in Nat /\ clock' = clock + 1
    BY DEF TypeOK
  <1>2. TypeOK' /\ LockInv'
    BY <1>1 DEF TypeOK, LockInv
  <1>3. \A i \in DOMAIN log : log[i].created \in Nat
    <2>1. \A i \in DOMAIN log : log[i] \in Value
      BY DEF TypeOK
    <2>. QED  BY <2>1 DEF Value
  <1>4. LogInv'
    <2>1. UNCHANGED <<store, log>> /\ \A i \in DOMAIN log : log[i].created <= clock => log[i].created <= clock'
      BY <1>1, <1>3
    <2>. QED  BY <2>1 DEF LogInv, SharedWhileValid
  <1>5. ASSUME NEW p \in Process, pc[p] \in Making
        PROVE  pending.began \in Nat /\ pending.created \in Nat
    BY <1>5 DEF LockInv, Value
  <1>6. MakingInv'
    BY <1>1, <1>5 DEF MakingInv, Follows, Making
  <1>7. AnswerInv'
    BY DEF AnswerInv
  <1>. QED  BY <1>2, <1>4, <1>6, <1>7

THEOREM Invariance == Spec => []Inv
  <1>1. Inv /\ [Next]_vars => Inv'
    <2>1. ASSUME Inv, NEW p \in Process, Move(p)  PROVE Inv'
      BY <2>1, MoveKeepsTypes, MoveKeepsLog DEF Inv
    <2>2. ASSUME Inv, UNCHANGED vars  PROVE Inv'
      BY <2>2 DEF Inv, TypeOK, LockInv, LogInv, MakingInv, AnswerInv, SharedWhileValid, Follows,
                  vars, config, worker
    <2>. QED  BY <2>1, <2>2, TickKeepsInv DEF Next, Move
  <1>. QED  BY InitInv, <1>1, PTL DEF Spec

\* Every variable of a shared function keeps its type.
THEOREM TypeCorrect == Spec => []TypeOK
  <1>1. Inv => TypeOK
    BY DEF Inv
  <1>. QED  BY Invariance, <1>1, PTL

\* No two workers make the value at once, in either storage, whoever is killed.
THEOREM OnlyOneMaker == Spec => []OneMaker
  <1>1. Inv => OneMaker
    BY DEF Inv, LockInv, Making, OneMaker
  <1>. QED  BY Invariance, <1>1, PTL

\* The function is not run again before what is stored, a result or a failure, has
\* expired: neither by a race, nor by a retry, nor because a worker was killed.
THEOREM OncePerPeriod == Spec => []SharedWhileValid
  <1>1. Inv => SharedWhileValid
    BY DEF Inv, LogInv
  <1>. QED  BY Invariance, <1>1, PTL

\* A worker is never given a result that no successful run has stored.
THEOREM NoInventedResult == Spec => []ResultsAreShared
  <1>1. Inv => ResultsAreShared
    BY DEF Inv, AnswerInv, ResultsAreShared
  <1>. QED  BY Invariance, <1>1, PTL
=============================================================================
