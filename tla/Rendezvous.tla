----------------------------- MODULE Rendezvous -----------------------------
(***************************************************************************)
(* What SharedResource promises its users while nothing fails: workers     *)
(* meet in rounds.  A worker joins the current round, prepares, and waits; *)
(* once nobody in the round is preparing one of those waiting performs the *)
(* action, alone; nobody is released before the action of the round it     *)
(* joined is complete.  A worker may join while the action is under way    *)
(* and may leave without having been released: the class promises no more. *)
(***************************************************************************)
EXTENDS Naturals

CONSTANTS Worker, NoWorker

VARIABLES
    phase,      \* where each worker is in its round
    joined,     \* the round a worker joined, 0 before it has
    current,    \* the round that can be joined, 0 before the first
    performer,  \* who performs the action
    completed   \* the rounds whose action is complete

vars == <<phase, joined, current, performer, completed>>

Phase == {"outside", "preparing", "waiting", "released", "left"}

TypeOK ==
    /\ phase \in [Worker -> Phase] /\ joined \in [Worker -> Nat]
    /\ current \in Nat /\ completed \subseteq Nat
    /\ performer \in Worker \cup {NoWorker}

Init ==
    /\ phase = [w \in Worker |-> "outside"] /\ joined = [w \in Worker |-> 0]
    /\ current = 0 /\ performer = NoWorker /\ completed = {}

Move(w, from, to) == phase[w] = from /\ phase' = [phase EXCEPT ![w] = to]

\* A new round starts once the action of the last one is complete.
OpenRound ==
    /\ current = 0 \/ current \in completed
    /\ performer = NoWorker
    /\ current' = current + 1
    /\ UNCHANGED <<phase, joined, performer, completed>>

Join(w) ==
    /\ Move(w, "outside", "preparing")
    /\ current > 0 /\ joined' = [joined EXCEPT ![w] = current]
    /\ UNCHANGED <<current, performer, completed>>

Arrive(w) ==
    /\ Move(w, "preparing", "waiting")
    /\ UNCHANGED <<joined, current, performer, completed>>

\* The barrier: everybody in the round has arrived.
Begin(w) ==
    /\ performer = NoWorker /\ current \notin completed
    /\ phase[w] = "waiting" /\ joined[w] = current
    /\ \A v \in Worker : joined[v] = current => phase[v] # "preparing"
    /\ performer' = w
    /\ UNCHANGED <<phase, joined, current, completed>>

Complete(w) ==
    /\ performer = w
    /\ completed' = completed \cup {current} /\ performer' = NoWorker
    /\ UNCHANGED <<phase, joined, current>>

Release(w) ==
    /\ joined[w] \in completed
    /\ Move(w, "waiting", "released")
    /\ UNCHANGED <<joined, current, performer, completed>>

Leave(w) ==
    /\ performer # w
    /\ \E from \in Phase \ {"left"} : Move(w, from, "left")
    /\ UNCHANGED <<joined, current, performer, completed>>

Next ==
    \/ OpenRound
    \/ \E w \in Worker : \/ Join(w) \/ Arrive(w) \/ Begin(w) \/ Complete(w)
                         \/ Release(w) \/ Leave(w)

Spec == Init /\ [][Next]_vars
=============================================================================
