-------------------------- MODULE CollectionProofs --------------------------
(***************************************************************************)
(* Theorems about Collection, for any workers, tests, issues and sessions. *)
(***************************************************************************)
EXTENDS Collection, TLAPS, FiniteSetTheorems, WellFoundedInduction, SequenceTheorems

Loaded(w) == at[w] \notin {"start", "lost"}

\* Who writes the file has loaded it, and keeps what it loaded: nothing that was known
\* when the session started is lost from a file that can be read.
KeepsLoaded ==
    /\ \A w \in Worker : saves[w] > 0 => Loaded(w)
    /\ \A w \in Worker : Loaded(w) => DOMAIN origin.cached \subseteq DOMAIN memory[w]
    /\ file.state \in {"missing", "whole"} =>
            DOMAIN origin.cached \subseteq DOMAIN Unexpired(file.issues)

\* The status of an issue that every worker goes by while Jira is steady.
Answer(i) ==
    IF i \in DOMAIN origin.cached THEN origin.cached[i].status
    ELSE IF Given(options, "jira_api_key") THEN origin.jira[i].status ELSE ""

AnswersAgree ==
    JiraIsSteady =>
        /\ \A i \in Issue : jira[i].status = origin.jira[i].status
        /\ \A w \in Worker : \A i \in DOMAIN memory[w] : memory[w][i].status = Answer(i)
        /\ file.state \in {"missing", "whole"} =>
              \A i \in DOMAIN Unexpired(file.issues) :
                  Unexpired(file.issues)[i].status = Answer(i)

OpenIssues == {i \in Issue : Answer(i) \in {"New", ""}}

\* What the hooks leave of the suite if everyone goes by these answers.
Selected ==
    ToTheIssues(options, MetadataMarkers(Suite, Deselected(options, Suite, OpenIssues)))

ItemsAgree ==
    JiraIsSteady /\ ~Given(options, "only_failed") =>
        \A w \in Worker :
            /\ at[w] = "metadata" => items[w] = Suite
            /\ at[w] = "issues" => items[w] = Selected
            /\ Collected(w) => items[w] = SelectRandomTests(options, Selected)

\* What a worker has reported when an issue is no longer on its list.
HasReported ==
    "error" \notin trouble =>
        \A w \in Worker : at[w] \in {"reporting", "finished"} =>
            \A i \in UNION {Issues(t) : t \in failed[w]} :
                \/ i \in todo[w]
                \/ /\ i \in DOMAIN memory[w]
                   /\ Reportable(memory[w][i]) =>
                        [issue |-> i, by |-> w, outcome |-> "failed"] \in comments

NothingLeft == \A w \in Worker : at[w] = "finished" => todo[w] = {}
FailedWereRun == \A w \in Worker : failed[w] \subseteq ran[w]

-----------------------------------------------------------------------------
(* The types.                                                              *)

LEMMA UnexpiredType ==
    ASSUME NEW f \in FileRecord
    PROVE  Unexpired(f.issues) \in Memory
  <1>1. PICK S \in SUBSET Issue : f.issues \in [S -> Entry]
    BY DEF FileRecord
  <1>2. Unexpired(f.issues) \in [{j \in S : ~f.issues[j].expired} -> Known]
    BY <1>1 DEF Unexpired, Entry
  <1> QED
    BY <1>2 DEF Memory

LEMMA LearnedType ==
    ASSUME NEW m \in Memory, NEW i \in Issue, NEW data \in Known
    PROVE  [j \in DOMAIN m \cup {i} |-> IF j = i THEN data ELSE m[j]] \in Memory
  <1>1. PICK S \in SUBSET Issue : m \in [S -> Known]
    BY DEF Memory
  <1>2. [j \in DOMAIN m \cup {i} |-> IF j = i THEN data ELSE m[j]] \in [S \cup {i} -> Known]
    BY <1>1
  <1>3. S \cup {i} \in SUBSET Issue
    OBVIOUS
  <1> QED
    BY <1>2, <1>3 DEF Memory

LEMMA EmptyTypes ==
    /\ Nothing \in Memory
    /\ [state |-> "empty", issues |-> [i \in {} |-> {}]] \in FileRecord
    /\ [state |-> "garbled", issues |-> [i \in {} |-> {}]] \in FileRecord
  <1>1. Nothing \in [{} -> Known] /\ [i \in {} |-> {}] \in [{} -> Entry]
    BY DEF Nothing
  <1>2. {} \in SUBSET Issue
    OBVIOUS
  <1> QED
    BY <1>1, <1>2 DEF Memory, FileRecord

LEMMA WrittenType ==
    ASSUME NEW w \in Worker, memory[w] \in Memory
    PROVE  Written(w) \in FileRecord
  <1>1. PICK S \in SUBSET Issue : memory[w] \in [S -> Known]
    BY DEF Memory
  <1>2. Written(w).issues \in [S -> Entry] /\ Written(w).state = "whole"
    BY <1>1 DEF Written, Entry
  <1> QED
    BY <1>2 DEF FileRecord, Written

TypeInv == TypeOK /\ \A w \in Worker : truncated[w] => saves[w] > 0

LEMMA TypeInit == Init => TypeInv
  <1> SUFFICES ASSUME Init PROVE TypeInv
    OBVIOUS
  <1> USE ConstantsAssumption
  <1>1. file \in FileRecord /\ jira \in [Issue -> Data] /\ options \in Session
    BY DEF Init
  <1>2. origin \in [jira : [Issue -> Data], cached : Memory]
    BY <1>1, UnexpiredType DEF Init
  <1>3. memory \in [Worker -> Memory]
    BY EmptyTypes DEF Init
  <1>4. /\ at \in [Worker -> Place] /\ saves \in [Worker -> 0..2]
        /\ truncated \in [Worker -> BOOLEAN] /\ \A w \in Worker : ~truncated[w]
    BY DEF Init, Place
  <1>5. /\ DOMAIN items = Worker /\ DOMAIN ran = Worker
        /\ DOMAIN failed = Worker /\ DOMAIN todo = Worker
    BY DEF Init
  <1>6. session \in {"collecting", "running", "refused"} /\ replaced \in 0..MaxReplacements
    BY DEF Init
  <1>7. trouble \subseteq Trouble
    BY DEF Init
  <1> QED
    BY <1>1, <1>2, <1>3, <1>4, <1>5, <1>6, <1>7 DEF TypeInv, TypeOK

\* What a worker learns of an issue has the type of what it knows.
LEMMA FetchTypes ==
    ASSUME TypeInv, NEW w \in Worker, NEW i \in Issue, NEW data \in Known, Learns(w, i, data)
    PROVE  memory' \in [Worker -> Memory]
  <1>1. memory \in [Worker -> Memory]
    BY DEF TypeInv, TypeOK
  <1>2. [j \in DOMAIN memory[w] \cup {i} |-> IF j = i THEN data ELSE memory[w][j]] \in Memory
    BY <1>1, LearnedType
  <1> QED
    BY <1>1, <1>2 DEF Learns

LEMMA LosesTypes ==
    ASSUME TypeInv, NEW w \in Worker, Loses(w)
    PROVE  at' \in [Worker -> Place] /\ replaced' \in 0..MaxReplacements
  <1>1. at \in [Worker -> Place] /\ replaced \in 0..MaxReplacements /\ MaxReplacements \in Nat
    BY ConstantsAssumption DEF TypeInv, TypeOK
  <1>2. {"start", "lost"} \subseteq Place
    BY DEF Place
  <1> QED
    BY <1>1, <1>2 DEF Loses

LEMMA TypeStep == TypeInv /\ [Next]_vars => TypeInv'
  <1> SUFFICES ASSUME TypeInv, [Next]_vars PROVE TypeInv'
    OBVIOUS
  <1>t. /\ at \in [Worker -> Place] /\ file \in FileRecord /\ memory \in [Worker -> Memory]
        /\ saves \in [Worker -> 0..2] /\ truncated \in [Worker -> BOOLEAN]
        /\ jira \in [Issue -> Data] /\ options \in Session /\ trouble \subseteq Trouble
        /\ origin \in [jira : [Issue -> Data], cached : Memory]
        /\ replaced \in 0..MaxReplacements
        /\ \A w \in Worker : truncated[w] => saves[w] > 0
    BY DEF TypeInv, TypeOK
  <1>f. DOMAIN items = Worker /\ DOMAIN ran = Worker /\ DOMAIN failed = Worker /\ DOMAIN todo = Worker
    BY DEF TypeInv, TypeOK
  <1>s. session \in {"collecting", "running", "refused"}
    BY DEF TypeInv, TypeOK
  <1>p. /\ "metadata" \in Place /\ "issues" \in Place /\ "collected" \in Place
        /\ "raised" \in Place /\ "reporting" \in Place /\ "finished" \in Place
    BY DEF Place
  <1>1. CASE UNCHANGED vars
    BY <1>1, <1>t, <1>f, <1>s DEF TypeInv, TypeOK, vars, external, cache, running, xdist
  <1>2. ASSUME NEW w \in Worker, Load(w) PROVE TypeInv'
    <2>1. Unexpired(file.issues) \in Memory
      BY <1>t, UnexpiredType
    <2>2. at' \in [Worker -> Place] /\ replaced' \in 0..MaxReplacements
      BY <1>2, <1>t, <1>p, LosesTypes DEF Load
    <2>3. memory' \in [Worker -> Memory] /\ DOMAIN items' = Worker
      BY <1>2, <2>1, <1>t, <1>f DEF Load
    <2> QED
      BY <1>2, <2>2, <2>3, <1>t, <1>f, <1>s DEF Load, TypeInv, TypeOK, external, running
  <1>3. ASSUME NEW w \in Worker, Fetch(w) PROVE TypeInv'
    <2>1. PICK i \in Issue :
            Learns(w, i, IF Given(options, "jira_api_key") THEN jira[i] ELSE Default)
      BY <1>3 DEF Fetch
    <2>2. (IF Given(options, "jira_api_key") THEN jira[i] ELSE Default) \in Known
      BY <1>t DEF Known
    <2>3. memory' \in [Worker -> Memory]
      BY <2>1, <2>2, FetchTypes
    <2>4. saves' \in [Worker -> 0..2] /\ \A v \in Worker : truncated[v] => saves'[v] > 0
      BY <1>3, <1>t DEF Fetch
    <2> QED
      BY <1>3, <2>3, <2>4, <1>t, <1>f, <1>s DEF Fetch, TypeInv, TypeOK, external, running, xdist
  <1>4. ASSUME NEW w \in Worker, FetchTimedOut(w) PROVE TypeInv'
    <2>1. PICK i \in Issue : Learns(w, i, Default)
      BY <1>4 DEF FetchTimedOut
    <2>2. memory' \in [Worker -> Memory]
      BY <2>1, FetchTypes DEF Known
    <2>3. saves' \in [Worker -> 0..2] /\ \A v \in Worker : truncated[v] => saves'[v] > 0
      BY <1>4, <1>t DEF FetchTimedOut
    <2>4. trouble' \subseteq Trouble
      BY <1>4, <1>t DEF FetchTimedOut, Trouble
    <2> QED
      BY <1>4, <2>2, <2>3, <2>4, <1>t, <1>f, <1>s
      DEF FetchTimedOut, TypeInv, TypeOK, external, running, xdist
  <1>5. ASSUME NEW w \in Worker, Truncate(w) PROVE TypeInv'
    <2>1. file' \in FileRecord
      BY <1>5, EmptyTypes DEF Truncate
    <2>2. truncated' \in [Worker -> BOOLEAN] /\ \A v \in Worker : truncated'[v] => saves[v] > 0
      BY <1>5, <1>t DEF Truncate
    <2> QED
      BY <1>5, <2>1, <2>2, <1>t, <1>f, <1>s DEF Truncate, TypeInv, TypeOK, external, running, xdist
  <1>6. ASSUME NEW w \in Worker, WriteBack(w) PROVE TypeInv'
    <2>1. file' \in FileRecord
      BY <1>6, <1>t, EmptyTypes, WrittenType DEF WriteBack
    <2>2. saves' \in [Worker -> 0..2] /\ truncated' \in [Worker -> BOOLEAN]
      BY <1>6, <1>t DEF WriteBack
    <2>3. \A v \in Worker : truncated'[v] => saves'[v] > 0
      BY <1>6, <1>t DEF WriteBack
    <2> QED
      BY <1>6, <2>1, <2>2, <2>3, <1>t, <1>f, <1>s
      DEF WriteBack, TypeInv, TypeOK, external, running, xdist
  <1>7. ASSUME NEW w \in Worker, EndMetadata(w) PROVE TypeInv'
    <2>1. at' \in [Worker -> Place] /\ DOMAIN items' = Worker
      BY <1>7, <1>t, <1>f, <1>p DEF EndMetadata
    <2> QED
      BY <1>7, <2>1, <1>t, <1>f, <1>s
      DEF EndMetadata, TypeInv, TypeOK, external, cache, running, xdist
  <1>8. ASSUME NEW w \in Worker, EndIssues(w) PROVE TypeInv'
    <2>1. at' \in [Worker -> Place] /\ DOMAIN items' = Worker
      BY <1>8, <1>t, <1>f, <1>p DEF EndIssues
    <2> QED
      BY <1>8, <2>1, <1>t, <1>f, <1>s
      DEF EndIssues, TypeInv, TypeOK, external, cache, running, xdist
  <1>9. CASE Distribute
    <2>1. session' \in {"collecting", "running", "refused"}
      BY <1>9 DEF Distribute
    <2> QED
      BY <1>9, <2>1, <1>t, <1>f DEF Distribute, TypeInv, TypeOK, external, cache, running
  <1>10. ASSUME NEW w \in Worker, RunTest(w) PROVE TypeInv'
    <2>1. DOMAIN ran' = Worker /\ DOMAIN failed' = Worker
      BY <1>10, <1>f DEF RunTest
    <2> QED
      BY <1>10, <2>1, <1>t, <1>f, <1>s DEF RunTest, TypeInv, TypeOK, external, cache, xdist
  <1>11. ASSUME NEW w \in Worker, SessionFinish(w) PROVE TypeInv'
    <2>1. at' \in [Worker -> Place] /\ DOMAIN todo' = Worker
      BY <1>11, <1>t, <1>f, <1>p DEF SessionFinish
    <2> QED
      BY <1>11, <2>1, <1>t, <1>f, <1>s DEF SessionFinish, TypeInv, TypeOK, external, cache, xdist
  <1>12. ASSUME NEW w \in Worker, Report(w) PROVE TypeInv'
    <2>1. PICK i \in todo[w] \cap DOMAIN memory[w] :
            \/ AddComment(w, i)
            \/ UNCHANGED <<jira, comments, trouble>>
      BY <1>12 DEF Report
    <2>2. Outcome(w, i) \in Label
      BY DEF Outcome, Label
    <2>3. jira' \in [Issue -> Data] /\ trouble' \subseteq Trouble
      BY <2>1, <2>2, <1>t DEF AddComment, Data, Trouble
    <2>4. DOMAIN todo' = Worker
      BY <1>12, <1>f DEF Report
    <2> QED
      BY <1>12, <2>3, <2>4, <1>t, <1>f, <1>s DEF Report, TypeInv, TypeOK, cache, xdist
  <1>13. ASSUME NEW w \in Worker, Finish(w) PROVE TypeInv'
    <2>1. at' \in [Worker -> Place]
      BY <1>13, <1>t, <1>p DEF Finish
    <2> QED
      BY <1>13, <2>1, <1>t, <1>f, <1>s DEF Finish, TypeInv, TypeOK, external, cache, running, xdist
  <1>14. ASSUME NEW w \in Worker, Crash(w) PROVE TypeInv'
    <2>1. at' \in [Worker -> Place] /\ replaced' \in 0..MaxReplacements
      BY <1>14, LosesTypes DEF Crash
    <2>2. memory' \in [Worker -> Memory]
      BY <1>14, <1>t, EmptyTypes DEF Crash
    <2>3. /\ saves' \in [Worker -> 0..2] /\ truncated' \in [Worker -> BOOLEAN]
          /\ \A v \in Worker : truncated'[v] => saves'[v] > 0
      BY <1>14, <1>t DEF Crash
    <2>4. DOMAIN items' = Worker /\ DOMAIN ran' = Worker /\ DOMAIN failed' = Worker
      BY <1>14, <1>f DEF Crash
    <2>5. trouble' \subseteq Trouble
      BY <1>14, <1>t DEF Crash, Trouble
    <2> QED
      BY <1>14, <2>1, <2>2, <2>3, <2>4, <2>5, <1>t, <1>f, <1>s DEF Crash, TypeInv, TypeOK, external
  <1>15. CASE JiraChanges
    <2>1. jira' \in [Issue -> Data] /\ trouble' \subseteq Trouble
      BY <1>15, <1>t, ConstantsAssumption DEF JiraChanges, Trouble
    <2> QED
      BY <1>15, <2>1, <1>t, <1>f, <1>s DEF JiraChanges, TypeInv, TypeOK, cache, running, xdist
  <1> QED
    BY <1>1, <1>2, <1>3, <1>4, <1>5, <1>6, <1>7, <1>8, <1>9, <1>10, <1>11, <1>12, <1>13, <1>14,
       <1>15 DEF Next, Step

\* The settings, the file, the memories and the places hold what they should.
THEOREM TypeCorrect == Spec => []TypeOK
  <1>1. TypeInv => TypeOK
    BY DEF TypeInv
  <1> QED
    BY <1>1, TypeInit, TypeStep, PTL DEF Spec

-----------------------------------------------------------------------------
(* The workers agree.                                                      *)

\* No step of a session changes its options, or what there was when it started.
LEMMA Constant == [Next]_vars => UNCHANGED <<options, origin>>
  BY DEF Next, Step, Load, Fetch, FetchTimedOut, Truncate, WriteBack, EndMetadata, EndIssues,
         Distribute, RunTest, SessionFinish, Report, Finish, Crash, JiraChanges, vars, external

LEMMA AsksUnknown ==
    ASSUME NEW w \in Worker, NEW i \in Asks(w)
    PROVE  Loaded(w) /\ i \notin DOMAIN memory[w]
  <1>1. CASE at[w] = "metadata"
    <2>1. i \in NextBlocker(items[w], DOMAIN memory[w], Open(w))
      BY <1>1 DEF Asks
    <2>2. PICK t : i \in PendingBlocker(t, DOMAIN memory[w], Open(w))
      BY <2>1 DEF NextBlocker
    <2> QED
      BY <1>1, <2>2 DEF PendingBlocker, Loaded
  <1>2. CASE at[w] = "issues"
    <2>1. i \in NextReason(items[w], DOMAIN memory[w])
      BY <1>2 DEF Asks
    <2> QED
      BY <1>2, <2>1 DEF NextReason, First, Loaded
  <1>3. CASE at[w] = "reporting"
    BY <1>3 DEF Asks, Loaded
  <1>4. CASE at[w] \notin {"metadata", "issues", "reporting"}
    BY <1>4 DEF Asks
  <1> QED
    BY <1>1, <1>2, <1>3, <1>4

\* A worker that reads what another one wrote knows what that one knew.
LEMMA WhatIsWritten ==
    ASSUME NEW w \in Worker, memory[w] \in Memory
    PROVE  Unexpired(Written(w).issues) = memory[w]
  <1>1. PICK S \in SUBSET Issue : memory[w] \in [S -> Known]
    BY DEF Memory
  <1>2. Written(w).issues = [i \in S |-> [data |-> memory[w][i], expired |-> FALSE]]
    BY <1>1 DEF Written
  <1>3. Unexpired(Written(w).issues) = [i \in S |-> memory[w][i]]
    BY <1>2 DEF Unexpired
  <1> QED
    BY <1>1, <1>3

\* With an answer to every question, what it knows of the issues is all that matters.
LEMMA SameDeselected ==
    ASSUME TypeInv, NEW w \in Worker,
           \A i \in DOMAIN memory[w] : memory[w][i].status = Answer(i),
           \A t \in ToSet(Suite) :
              AsksAbout(options, t) => HasAnswer(t, DOMAIN memory[w], Open(w))
    PROVE  Deselected(options, Suite, Open(w)) = Deselected(options, Suite, OpenIssues)
  <1>1. DOMAIN memory[w] \subseteq Issue
    BY DEF TypeInv, TypeOK, Memory
  <1>2. \A i \in DOMAIN memory[w] : i \in Open(w) <=> i \in OpenIssues
    BY <1>1 DEF Open, OpenIssues, IsOpen
  <1>3. Open(w) \subseteq DOMAIN memory[w]
    BY DEF Open
  <1>4. ASSUME NEW t \in ToSet(Suite), ~Has(t, "unit")
        PROVE  Passes(options, t, Open(w)) <=> Passes(options, t, OpenIssues)
    <2> DEFINE blockers == ToSet(About[t].blocked_by)
    <2>1. CASE ~AsksAbout(options, t)
      BY <1>4, <2>1 DEF AsksAbout, Passes, Unblocked
    <2>2. CASE AsksAbout(options, t) /\ blockers \subseteq DOMAIN memory[w] \ Open(w)
      <3>1. blockers \cap Open(w) = {} /\ blockers \cap OpenIssues = {}
        BY <2>2, <1>2
      <3> QED
        BY <2>2, <3>1 DEF Passes, Unblocked, AsksAbout
    <2>3. CASE AsksAbout(options, t) /\ ~(blockers \subseteq DOMAIN memory[w] \ Open(w))
      <3>1. PICK c \in DOMAIN About[t].blocked_by : About[t].blocked_by[c] \in Open(w)
        BY <2>3 DEF HasAnswer
      <3>2. About[t].blocked_by[c] \in blockers
        BY DEF ToSet
      <3>3. blockers \cap Open(w) # {} /\ blockers \cap OpenIssues # {}
        BY <3>1, <3>2, <1>2, <1>3
      <3> QED
        BY <2>3, <3>3 DEF Passes, Unblocked, AsksAbout
    <2> QED
      BY <2>1, <2>2, <2>3
  <1> QED
    BY <1>4 DEF Deselected

LEMMA KeepsStep == TypeInv /\ KeepsLoaded /\ [Next]_vars => KeepsLoaded'
  <1> SUFFICES ASSUME TypeInv, KeepsLoaded, [Next]_vars PROVE KeepsLoaded'
    OBVIOUS
  <1>o. UNCHANGED <<options, origin>>
    BY Constant
  <1>t. /\ at \in [Worker -> Place] /\ memory \in [Worker -> Memory]
        /\ saves \in [Worker -> 0..2] /\ truncated \in [Worker -> BOOLEAN]
        /\ \A w \in Worker : truncated[w] => saves[w] > 0
    BY DEF TypeInv, TypeOK
  <1>k. /\ \A w \in Worker : saves[w] > 0 => Loaded(w)
        /\ \A w \in Worker : Loaded(w) => DOMAIN origin.cached \subseteq DOMAIN memory[w]
        /\ file.state \in {"missing", "whole"} =>
                DOMAIN origin.cached \subseteq DOMAIN Unexpired(file.issues)
    BY DEF KeepsLoaded
  <1>1. ASSUME NEW w \in Worker, Load(w) PROVE KeepsLoaded'
    <2>1. UNCHANGED <<file, saves>>
      BY <1>1 DEF Load
    <2>2. CASE file.state \in {"empty", "garbled"}
      <3>1. /\ UNCHANGED memory /\ at' \in [Worker -> {at[v] : v \in Worker} \cup {"start", "lost"}]
            /\ \A v \in Worker \ {w} : at'[v] = at[v]
            /\ at'[w] \in {"start", "lost"}
        BY <1>1, <2>2, <1>t DEF Load, Loses
      <3> QED
        BY <1>1, <2>1, <3>1, <1>k, <1>o, <1>t DEF KeepsLoaded, Loaded, Load
    <2>3. CASE file.state \notin {"empty", "garbled"}
      <3>1. file.state \in {"missing", "whole"}
        BY <2>3 DEF TypeInv, TypeOK, FileRecord
      <3>2. /\ memory' = [memory EXCEPT ![w] = Unexpired(file.issues)]
            /\ at' = [at EXCEPT ![w] = "metadata"]
        BY <1>1, <2>3 DEF Load
      <3> QED
        BY <2>1, <3>1, <3>2, <1>k, <1>o, <1>t DEF KeepsLoaded, Loaded
    <2> QED
      BY <2>2, <2>3
  <1>2. ASSUME NEW w \in Worker, NEW i \in Issue, i \in Asks(w), NEW data, Learns(w, i, data),
               NEW n \in 1..2, saves' = [saves EXCEPT ![w] = n], UNCHANGED <<at, file>>
        PROVE  KeepsLoaded'
    <2>1. Loaded(w)
      BY <1>2, AsksUnknown
    <2>2. \A v \in Worker : DOMAIN memory[v] \subseteq DOMAIN memory'[v]
      BY <1>2, <1>t DEF Learns
    <2>3. \A v \in Worker : saves'[v] > 0 => Loaded(v)
      BY <1>2, <2>1, <1>k, <1>t
    <2> QED
      BY <1>2, <2>2, <2>3, <1>k, <1>o DEF KeepsLoaded, Loaded
  <1>3. ASSUME NEW w \in Worker, Fetch(w) PROVE KeepsLoaded'
    <2>1. PICK i \in Issue : /\ i \in Asks(w)
                             /\ Learns(w, i, IF Given(options, "jira_api_key") THEN jira[i] ELSE Default)
      BY <1>3 DEF Fetch
    <2>2. saves' = [saves EXCEPT ![w] = 2] /\ UNCHANGED <<at, file>>
      BY <1>3 DEF Fetch
    <2>3. 2 \in 1..2
      OBVIOUS
    <2> QED
      BY <2>1, <2>2, <2>3, <1>2
  <1>4. ASSUME NEW w \in Worker, FetchTimedOut(w) PROVE KeepsLoaded'
    <2>1. PICK i \in Issue : i \in Asks(w) /\ Learns(w, i, Default)
      BY <1>4 DEF FetchTimedOut
    <2>2. saves' = [saves EXCEPT ![w] = 1] /\ UNCHANGED <<at, file>>
      BY <1>4 DEF FetchTimedOut
    <2>3. 1 \in 1..2
      OBVIOUS
    <2> QED
      BY <2>1, <2>2, <2>3, <1>2
  <1>5. ASSUME NEW w \in Worker, Truncate(w) PROVE KeepsLoaded'
    BY <1>5, <1>k, <1>o DEF Truncate, KeepsLoaded, Loaded
  <1>6. ASSUME NEW w \in Worker, WriteBack(w) PROVE KeepsLoaded'
    <2>1. Loaded(w)
      BY <1>6, <1>k, <1>t DEF WriteBack
    <2>2. Unexpired(Written(w).issues) = memory[w]
      BY <1>t, WhatIsWritten
    <2>3. file'.state \in {"missing", "whole"} =>
              DOMAIN origin.cached \subseteq DOMAIN Unexpired(file'.issues)
      BY <1>6, <2>1, <2>2, <1>k DEF WriteBack
    <2>4. \A v \in Worker : saves'[v] > 0 => saves[v] > 0
      BY <1>6, <1>t DEF WriteBack
    <2> QED
      BY <1>6, <2>3, <2>4, <1>k, <1>o DEF WriteBack, KeepsLoaded, Loaded
  <1>7. ASSUME NEW w \in Worker, NEW place \in {"issues", "collected", "raised", "reporting", "finished"},
               Loaded(w), at' = [at EXCEPT ![w] = place], UNCHANGED cache
        PROVE  KeepsLoaded'
    BY <1>7, <1>k, <1>o, <1>t DEF KeepsLoaded, Loaded, cache
  <1>8. ASSUME NEW w \in Worker, EndMetadata(w) PROVE KeepsLoaded'
    BY <1>8, <1>7 DEF EndMetadata, Loaded
  <1>9. ASSUME NEW w \in Worker, EndIssues(w) PROVE KeepsLoaded'
    BY <1>9, <1>7 DEF EndIssues, Loaded
  <1>10. ASSUME NEW w \in Worker, SessionFinish(w) PROVE KeepsLoaded'
    BY <1>10, <1>7 DEF SessionFinish, Works, Loaded
  <1>11. ASSUME NEW w \in Worker, Finish(w) PROVE KeepsLoaded'
    BY <1>11, <1>7 DEF Finish, Loaded
  <1>12. ASSUME UNCHANGED <<at, cache>> PROVE KeepsLoaded'
    BY <1>12, <1>k, <1>o DEF KeepsLoaded, Loaded, cache
  <1>13. ASSUME NEW w \in Worker, RunTest(w) \/ Report(w) PROVE KeepsLoaded'
    BY <1>13, <1>12 DEF RunTest, Report
  <1>14. CASE Distribute \/ JiraChanges \/ UNCHANGED vars
    BY <1>14, <1>12 DEF Distribute, JiraChanges, vars
  <1>15. ASSUME NEW w \in Worker, Crash(w) PROVE KeepsLoaded'
    <2>1. /\ UNCHANGED file /\ \A v \in Worker \ {w} : at'[v] = at[v]
          /\ at'[w] \in {"start", "lost"}
      BY <1>15, <1>t DEF Crash, Loses
    <2>2. /\ \A v \in Worker \ {w} : memory'[v] = memory[v] /\ saves'[v] = saves[v]
          /\ saves'[w] = 0
      BY <1>15, <1>t DEF Crash
    <2>3. \A v \in Worker : saves'[v] > 0 => Loaded(v)'
      BY <2>1, <2>2, <1>k DEF Loaded
    <2>4. \A v \in Worker : Loaded(v)' => DOMAIN origin.cached \subseteq DOMAIN memory'[v]
      BY <2>1, <2>2, <1>k DEF Loaded
    <2> QED
      BY <2>1, <2>3, <2>4, <1>k, <1>o DEF KeepsLoaded
  <1> QED
    BY <1>1, <1>3, <1>4, <1>5, <1>6, <1>8, <1>9, <1>10, <1>11, <1>13, <1>14, <1>15 DEF Next, Step

LEMMA AnswersStep == TypeInv /\ KeepsLoaded /\ AnswersAgree /\ [Next]_vars => AnswersAgree'
  <1> SUFFICES ASSUME TypeInv, KeepsLoaded, AnswersAgree, [Next]_vars, JiraIsSteady'
               PROVE  /\ \A i \in Issue : jira'[i].status = origin'.jira[i].status
                      /\ \A w \in Worker : \A i \in DOMAIN memory'[w] :
                            memory'[w][i].status = Answer(i)'
                      /\ file'.state \in {"missing", "whole"} =>
                            \A i \in DOMAIN Unexpired(file'.issues) :
                                Unexpired(file'.issues)[i].status = Answer(i)'
    BY DEF AnswersAgree
  <1> DEFINE JiraOf(j) == \A i \in Issue : j[i].status = origin.jira[i].status
             Agrees(m) == \A i \in DOMAIN m : m[i].status = Answer(i)
             FileOf(f) == f.state \in {"missing", "whole"} => Agrees(Unexpired(f.issues))
             Goal == JiraOf(jira') /\ (\A w \in Worker : Agrees(memory'[w])) /\ FileOf(file')
  <1>o. UNCHANGED <<options, origin>>
    BY Constant
  <1>a. \A i : Answer(i)' = Answer(i)
    BY <1>o DEF Answer
  <1>g. SUFFICES Goal
    BY <1>o, <1>a
  <1>t. /\ jira \in [Issue -> Data] /\ memory \in [Worker -> Memory] /\ file \in FileRecord
        /\ \A w \in Worker : truncated[w] => saves[w] > 0
    BY DEF TypeInv, TypeOK
  <1>s. trouble \subseteq trouble'
    BY DEF Next, Step, Load, Fetch, FetchTimedOut, Truncate, WriteBack, EndMetadata, EndIssues,
           Distribute, RunTest, SessionFinish, Report, AddComment, Finish, Crash, JiraChanges,
           vars
  <1>b. JiraOf(jira) /\ (\A w \in Worker : Agrees(memory[w])) /\ FileOf(file)
    BY <1>s DEF AnswersAgree, JiraIsSteady
  <1> HIDE DEF JiraOf, FileOf
  <1>1. ASSUME NEW w \in Worker, Load(w) PROVE Goal
    <2>1. UNCHANGED <<jira, file>>
      BY <1>1 DEF Load, external
    <2>2. CASE file.state \in {"empty", "garbled"}
      BY <1>1, <2>1, <2>2, <1>b DEF Load
    <2>3. CASE file.state \notin {"empty", "garbled"}
      <3>1. Agrees(Unexpired(file.issues))
        BY <2>3, <1>b, <1>t DEF FileOf, FileRecord
      <3>2. memory' = [memory EXCEPT ![w] = Unexpired(file.issues)]
        BY <1>1, <2>3 DEF Load
      <3>3. \A v \in Worker : memory'[v] = memory[v] \/ memory'[v] = Unexpired(file.issues)
        BY <3>2, <1>t
      <3>4. \A v \in Worker : Agrees(memory'[v])
        BY <3>1, <3>3, <1>b
      <3> QED
        BY <2>1, <3>4, <1>b
    <2> QED
      BY <2>2, <2>3
  <1>2. ASSUME NEW w \in Worker, Fetch(w) PROVE Goal
    <2>1. PICK i \in Issue : /\ i \in Asks(w)
                             /\ Learns(w, i, IF Given(options, "jira_api_key") THEN jira[i] ELSE Default)
      BY <1>2 DEF Fetch
    <2> DEFINE data == IF Given(options, "jira_api_key") THEN jira[i] ELSE Default
    <2>2. i \notin DOMAIN origin.cached
      BY <2>1, AsksUnknown DEF KeepsLoaded
    <2>3. data.status = Answer(i)
      BY <2>2, <1>b DEF Answer, JiraOf, Default
    <2>4. memory' = [memory EXCEPT ![w] = [j \in DOMAIN memory[w] \cup {i} |->
                                              IF j = i THEN data ELSE memory[w][j]]]
      BY <2>1 DEF Learns
    <2> HIDE DEF data
    <2>5. Agrees([j \in DOMAIN memory[w] \cup {i} |-> IF j = i THEN data ELSE memory[w][j]])
      BY <2>3, <1>b
    <2>6. \A v \in Worker : Agrees(memory'[v])
      BY <2>4, <2>5, <1>b, <1>t
    <2>7. UNCHANGED <<jira, file>>
      BY <1>2 DEF Fetch, external
    <2> QED
      BY <2>6, <2>7, <1>b
  <1>3. ASSUME NEW w \in Worker, FetchTimedOut(w) PROVE FALSE
    BY <1>3 DEF FetchTimedOut, JiraIsSteady
  <1>4. ASSUME NEW w \in Worker, Truncate(w) PROVE Goal
    <2>1. FileOf(file')
      BY <1>4 DEF Truncate, FileOf
    <2>2. UNCHANGED <<jira, memory>>
      BY <1>4 DEF Truncate, external
    <2> QED
      BY <2>1, <2>2, <1>b
  <1>5. ASSUME NEW w \in Worker, WriteBack(w) PROVE Goal
    <2>1. file'.state \in {"missing", "whole"} => file' = Written(w)
      BY <1>5 DEF WriteBack
    <2>2. Unexpired(Written(w).issues) = memory[w]
      BY <1>t, WhatIsWritten
    <2>3. FileOf(file')
      BY <2>1, <2>2, <1>b DEF FileOf
    <2>4. UNCHANGED <<jira, memory>>
      BY <1>5 DEF WriteBack, external
    <2> QED
      BY <2>3, <2>4, <1>b
  <1>6. ASSUME NEW w \in Worker, Report(w) PROVE Goal
    <2>1. UNCHANGED <<memory, file>>
      BY <1>6 DEF Report, cache
    <2>2. PICK i \in todo[w] \cap DOMAIN memory[w] :
            jira' = jira \/ jira' = [jira EXCEPT ![i].label = Outcome(w, i)]
      BY <1>6 DEF Report, AddComment
    <2>3. \A j \in Issue : jira'[j].status = jira[j].status
      BY <2>2, <1>t DEF Data
    <2>4. JiraOf(jira')
      BY <2>3, <1>b DEF JiraOf
    <2> QED
      BY <2>1, <2>4, <1>b
  <1>7. ASSUME NEW w \in Worker, Crash(w) PROVE Goal
    <2>1. UNCHANGED <<jira, file>>
      BY <1>7 DEF Crash, external
    <2>2. Agrees(Nothing)
      BY DEF Nothing
    <2>3. \A v \in Worker : memory'[v] = memory[v] \/ memory'[v] = Nothing
      BY <1>7, <1>t DEF Crash
    <2>4. \A v \in Worker : Agrees(memory'[v])
      BY <2>2, <2>3, <1>b
    <2> QED
      BY <2>1, <2>4, <1>b
  <1>8. CASE JiraChanges
    BY <1>8 DEF JiraChanges, JiraIsSteady
  <1>9. ASSUME UNCHANGED <<jira, memory, file>> PROVE Goal
    BY <1>9, <1>b
  <1>10. ASSUME NEW w \in Worker,
                \/ EndMetadata(w) \/ EndIssues(w)
                \/ RunTest(w) \/ SessionFinish(w) \/ Finish(w)
         PROVE  Goal
    BY <1>10, <1>9 DEF EndMetadata, EndIssues, RunTest, SessionFinish, Finish, external, cache
  <1>11. CASE Distribute \/ UNCHANGED vars
    BY <1>11, <1>9 DEF Distribute, vars, external, cache
  <1> QED
    BY <1>1, <1>2, <1>3, <1>4, <1>5, <1>6, <1>7, <1>8, <1>10, <1>11 DEF Next, Step

LEMMA ItemsStep ==
    TypeInv /\ KeepsLoaded /\ AnswersAgree /\ ItemsAgree /\ [Next]_vars => ItemsAgree'
  <1> SUFFICES ASSUME TypeInv, AnswersAgree, ItemsAgree, [Next]_vars,
                      JiraIsSteady', ~Given(options', "only_failed")
               PROVE  \A v \in Worker :
                        /\ at'[v] = "metadata" => items'[v] = Suite
                        /\ at'[v] = "issues" => items'[v] = Selected'
                        /\ Collected(v)' => items'[v] = SelectRandomTests(options', Selected')
    BY DEF ItemsAgree
  <1> DEFINE ItemsOf(place, its) ==
                /\ place = "metadata" => its = Suite
                /\ place = "issues" => its = Selected
                /\ place \in {"collected", "reporting", "finished"} =>
                        its = SelectRandomTests(options, Selected)
             Goal == \A v \in Worker : ItemsOf(at'[v], items'[v])
  <1>o. UNCHANGED <<options, origin>>
    BY Constant
  <1>a. OpenIssues' = OpenIssues
    BY <1>o DEF OpenIssues, Answer
  <1>c. Selected' = Selected
    BY <1>o, <1>a DEF Selected
  <1>g. SUFFICES Goal
    BY <1>o, <1>c DEF Collected
  <1>t. at \in [Worker -> Place] /\ DOMAIN items = Worker
    BY DEF TypeInv, TypeOK
  <1>s. trouble \subseteq trouble'
    BY DEF Next, Step, Load, Fetch, FetchTimedOut, Truncate, WriteBack, EndMetadata, EndIssues,
           Distribute, RunTest, SessionFinish, Report, AddComment, Finish, Crash, JiraChanges,
           vars
  <1>j. JiraIsSteady /\ ~Given(options, "only_failed")
    BY <1>s, <1>o DEF JiraIsSteady
  <1>b. \A v \in Worker : ItemsOf(at[v], items[v])
    BY <1>j DEF ItemsAgree, Collected
  <1>p. \A its : ItemsOf("start", its) /\ ItemsOf("lost", its) /\ ItemsOf("raised", its)
    OBVIOUS
  <1>1. ASSUME NEW w \in Worker, ItemsOf(at'[w], items'[w]),
               \A v \in Worker \ {w} : at'[v] = at[v] /\ items'[v] = items[v]
        PROVE  Goal
    BY <1>1, <1>b
  <1> HIDE DEF Goal, ItemsOf
  <1>2. ASSUME NEW w \in Worker, Load(w) PROVE Goal
    <2>1. \A v \in Worker \ {w} : at'[v] = at[v] /\ items'[v] = items[v]
      BY <1>2, <1>t DEF Load, Loses
    <2>2. CASE file.state \in {"empty", "garbled"}
      <3>1. at'[w] \in {"start", "lost"}
        BY <1>2, <2>2, <1>t DEF Load, Loses
      <3> QED
        BY <3>1, <2>1, <1>1, <1>p
    <2>3. CASE file.state \notin {"empty", "garbled"}
      <3>1. Reruns(options, Suite) = {Suite}
        BY <1>j DEF Reruns
      <3>2. at'[w] = "metadata" /\ items'[w] = Suite
        BY <1>2, <2>3, <3>1, <1>t DEF Load
      <3>3. ItemsOf(at'[w], items'[w])
        BY <3>2 DEF ItemsOf
      <3> QED
        BY <3>3, <2>1, <1>1
    <2> QED
      BY <2>2, <2>3
  <1>3. ASSUME NEW w \in Worker, EndMetadata(w) PROVE Goal
    <2> DEFINE selected == MetadataMarkers(items[w], Deselected(options, items[w], Open(w)))
    <2>1. items[w] = Suite
      BY <1>3, <1>b DEF EndMetadata, ItemsOf
    <2>2. \A i \in DOMAIN memory[w] : memory[w][i].status = Answer(i)
      BY <1>j DEF AnswersAgree
    <2>3. \A t \in ToSet(Suite) :
              AsksAbout(options, t) => HasAnswer(t, DOMAIN memory[w], Open(w))
      BY <1>3, <2>1 DEF EndMetadata
    <2>4. Deselected(options, Suite, Open(w)) = Deselected(options, Suite, OpenIssues)
      BY <2>2, <2>3, SameDeselected
    <2>5. ToTheIssues(options, selected) = Selected
      BY <2>1, <2>4 DEF Selected
    <2>6. /\ \A v \in Worker \ {w} : at'[v] = at[v] /\ items'[v] = items[v]
          /\ \/ at'[w] = "raised"
             \/ at'[w] = "issues" /\ items'[w] = ToTheIssues(options, selected)
      BY <1>3, <1>t DEF EndMetadata
    <2>7. ItemsOf(at'[w], items'[w])
      BY <2>5, <2>6 DEF ItemsOf
    <2> QED
      BY <2>6, <2>7, <1>1
  <1>4. ASSUME NEW w \in Worker, EndIssues(w) PROVE Goal
    <2>1. items[w] = Selected
      BY <1>4, <1>b DEF EndIssues, ItemsOf
    <2>2. /\ \A v \in Worker \ {w} : at'[v] = at[v] /\ items'[v] = items[v]
          /\ \/ at'[w] = "raised"
             \/ at'[w] = "collected" /\ items'[w] = SelectRandomTests(options, items[w])
      BY <1>4, <1>t DEF EndIssues
    <2>3. ItemsOf(at'[w], items'[w])
      BY <2>1, <2>2 DEF ItemsOf
    <2> QED
      BY <2>2, <2>3, <1>1
  <1>5. ASSUME NEW w \in Worker, SessionFinish(w) \/ Finish(w) PROVE Goal
    <2>1. /\ at[w] \in {"collected", "reporting"} /\ at'[w] \in {"reporting", "finished"}
          /\ UNCHANGED items /\ \A v \in Worker \ {w} : at'[v] = at[v]
      BY <1>5, <1>t DEF SessionFinish, Finish, Works
    <2>2. ItemsOf(at'[w], items'[w])
      BY <2>1, <1>b DEF ItemsOf
    <2> QED
      BY <2>1, <2>2, <1>1
  <1>6. ASSUME NEW w \in Worker, Crash(w) PROVE Goal
    <2>1. /\ at'[w] \in {"start", "lost"}
          /\ \A v \in Worker \ {w} : at'[v] = at[v] /\ items'[v] = items[v]
      BY <1>6, <1>t DEF Crash, Loses
    <2> QED
      BY <2>1, <1>1, <1>p
  <1>7. ASSUME UNCHANGED <<at, items>> PROVE Goal
    BY <1>7, <1>b DEF Goal
  <1>8. ASSUME NEW w \in Worker,
               \/ Fetch(w) \/ FetchTimedOut(w) \/ Truncate(w) \/ WriteBack(w)
               \/ RunTest(w) \/ Report(w)
        PROVE  Goal
    BY <1>8, <1>7 DEF Fetch, FetchTimedOut, Truncate, WriteBack, RunTest, Report
  <1>9. CASE Distribute \/ JiraChanges \/ UNCHANGED vars
    BY <1>9, <1>7 DEF Distribute, JiraChanges, vars
  <1> QED
    BY <1>2, <1>3, <1>4, <1>5, <1>6, <1>8, <1>9 DEF Next, Step

AgreeInv == TypeInv /\ KeepsLoaded /\ AnswersAgree /\ ItemsAgree

LEMMA AgreeInit == Init => AgreeInv
  <1> SUFFICES ASSUME Init PROVE AgreeInv
    OBVIOUS
  <1>1. origin.jira = jira /\ origin.cached = Unexpired(file.issues)
    BY DEF Init
  <1>2. KeepsLoaded
    BY <1>1 DEF Init, KeepsLoaded, Loaded
  <1>3. AnswersAgree
    BY <1>1 DEF Init, AnswersAgree, Answer, Nothing
  <1>4. ItemsAgree
    BY DEF Init, ItemsAgree, Collected
  <1> QED
    BY <1>2, <1>3, <1>4, TypeInit DEF AgreeInv

\* Unless Jira changes or fails to answer, the workers collect the same.
THEOREM TheWorkersAgree == Spec => []WorkersAgree
  <1>1. AgreeInv /\ [Next]_vars => AgreeInv'
    BY TypeStep, KeepsStep, AnswersStep, ItemsStep DEF AgreeInv
  <1>2. AgreeInv => WorkersAgree
    BY DEF AgreeInv, ItemsAgree, WorkersAgree
  <1> QED
    BY <1>1, <1>2, AgreeInit, PTL DEF Spec

-----------------------------------------------------------------------------
(* The reports.                                                            *)

ReportInv == TypeInv /\ HasReported /\ NothingLeft /\ FailedWereRun

LEMMA ReportStep == ReportInv /\ [Next]_vars => ReportInv'
  <1> SUFFICES ASSUME ReportInv, [Next]_vars PROVE ReportInv'
    OBVIOUS
  <1> DEFINE Told(v, i, known, left, said) ==
                \/ i \in left
                \/ /\ i \in DOMAIN known
                   /\ Reportable(known[i]) => [issue |-> i, by |-> v, outcome |-> "failed"] \in said
             TellsAll(v, place, bad, known, left, said) ==
                place \in {"reporting", "finished"} =>
                    \A i \in UNION {Issues(t) : t \in bad} : Told(v, i, known, left, said)
             Reports == "error" \notin trouble' =>
                \A v \in Worker : TellsAll(v, at'[v], failed'[v], memory'[v], todo'[v], comments')
             Rest == (\A v \in Worker : at'[v] = "finished" => todo'[v] = {})
                     /\ (\A v \in Worker : failed'[v] \subseteq ran'[v])
             Goal == Reports /\ Rest
  <1>o. UNCHANGED <<options, origin>>
    BY Constant
  <1>i. \A t : Issues(t)' = Issues(t)
    BY <1>o DEF Issues
  <1>k. TypeInv'
    BY TypeStep DEF ReportInv
  <1>g. SUFFICES Goal
    BY <1>i, <1>k DEF ReportInv, HasReported, NothingLeft, FailedWereRun
  <1>t. /\ at \in [Worker -> Place] /\ memory \in [Worker -> Memory]
        /\ DOMAIN ran = Worker /\ DOMAIN failed = Worker /\ DOMAIN todo = Worker
    BY DEF ReportInv, TypeInv, TypeOK
  <1>b. /\ "error" \notin trouble =>
            \A v \in Worker : TellsAll(v, at[v], failed[v], memory[v], todo[v], comments)
        /\ \A v \in Worker : at[v] = "finished" => todo[v] = {}
        /\ \A v \in Worker : failed[v] \subseteq ran[v]
    BY DEF ReportInv, HasReported, NothingLeft, FailedWereRun
  <1>s. trouble \subseteq trouble' /\ comments \subseteq comments'
    BY DEF Next, Step, Load, Fetch, FetchTimedOut, Truncate, WriteBack, EndMetadata, EndIssues,
           Distribute, RunTest, SessionFinish, Report, AddComment, Finish, Crash, JiraChanges,
           vars, external
  <1>n. \A v, known, bad, left, said, place :
            place \notin {"reporting", "finished"} => TellsAll(v, place, bad, known, left, said)
    OBVIOUS
  <1>m. \A v, place, bad, known, left :
            TellsAll(v, place, bad, known, left, comments) => TellsAll(v, place, bad, known, left, comments')
    BY <1>s
  <1> HIDE DEF TellsAll
  \* A step of a worker that is not reporting, neither before nor after it.
  <1>1. ASSUME NEW w \in Worker, at'[w] \notin {"reporting", "finished"},
               failed'[w] \subseteq ran'[w],
               \A v \in Worker \ {w} : /\ at'[v] = at[v] /\ failed'[v] = failed[v] /\ ran'[v] = ran[v]
                                       /\ memory'[v] = memory[v] /\ todo'[v] = todo[v]
        PROVE  Goal
    <2>1. Rest
      BY <1>1, <1>b
    <2>2. Reports
      BY <1>1, <1>b, <1>s, <1>m, <1>n
    <2> QED
      BY <2>1, <2>2
  <1>2. ASSUME UNCHANGED <<at, ran, failed, memory, todo>> PROVE Goal
    <2>1. Rest
      BY <1>2, <1>b
    <2>2. Reports
      BY <1>2, <1>b, <1>s, <1>m
    <2> QED
      BY <2>1, <2>2
  <1>3. ASSUME NEW w \in Worker, Load(w) \/ Crash(w) PROVE Goal
    <2>1. at'[w] \in {"start", "lost", "metadata"} /\ \A v \in Worker \ {w} : at'[v] = at[v]
      BY <1>3, <1>t DEF Load, Crash, Loses
    <2>2. /\ failed'[w] \subseteq ran'[w] /\ UNCHANGED todo
          /\ \A v \in Worker \ {w} : failed'[v] = failed[v] /\ ran'[v] = ran[v] /\ memory'[v] = memory[v]
      BY <1>3, <1>t, <1>b DEF Load, Crash, running
    <2> QED
      BY <2>1, <2>2, <1>1
  <1>4. ASSUME NEW w \in Worker, EndMetadata(w) \/ EndIssues(w) PROVE Goal
    <2>1. at'[w] \in {"issues", "collected", "raised"} /\ \A v \in Worker \ {w} : at'[v] = at[v]
      BY <1>4, <1>t DEF EndMetadata, EndIssues
    <2>2. UNCHANGED <<memory, ran, failed, todo>>
      BY <1>4 DEF EndMetadata, EndIssues, cache, running
    <2> QED
      BY <2>1, <2>2, <1>1, <1>b
  <1>5. ASSUME NEW w \in Worker, RunTest(w) PROVE Goal
    <2>1. UNCHANGED <<at, memory, todo>> /\ at[w] = "collected"
      BY <1>5 DEF RunTest, Works, cache
    <2>2. /\ failed'[w] \subseteq ran'[w]
          /\ \A v \in Worker \ {w} : failed'[v] = failed[v] /\ ran'[v] = ran[v]
      BY <1>5, <1>t, <1>b DEF RunTest
    <2> QED
      BY <2>1, <2>2, <1>1
  <1>6. ASSUME NEW w \in Worker, NEW i \in Issue, i \in Asks(w), NEW data, Learns(w, i, data),
               UNCHANGED <<at, ran, failed, todo>>
        PROVE  Goal
    <2>1. Rest
      BY <1>6, <1>b
    <2>2. \A v \in Worker : \A j \in DOMAIN memory[v] :
            j \in DOMAIN memory'[v] /\ memory'[v][j] = memory[v][j]
      BY <1>6, <1>t, AsksUnknown DEF Learns
    <2>3. \A v \in Worker : \A place, bad, left :
            TellsAll(v, place, bad, memory[v], left, comments)
                => TellsAll(v, place, bad, memory'[v], left, comments)
      BY <2>2 DEF TellsAll
    <2>4. Reports
      BY <1>6, <2>3, <1>b, <1>s, <1>m
    <2> QED
      BY <2>1, <2>4
  <1>7. ASSUME NEW w \in Worker, Fetch(w) PROVE Goal
    <2>1. PICK i \in Issue : /\ i \in Asks(w)
                             /\ Learns(w, i, IF Given(options, "jira_api_key") THEN jira[i] ELSE Default)
      BY <1>7 DEF Fetch
    <2>2. UNCHANGED <<at, ran, failed, todo>>
      BY <1>7 DEF Fetch, running
    <2> QED
      BY <2>1, <2>2, <1>6
  <1>8. ASSUME NEW w \in Worker, FetchTimedOut(w) PROVE Goal
    <2>1. PICK i \in Issue : i \in Asks(w) /\ Learns(w, i, Default)
      BY <1>8 DEF FetchTimedOut
    <2>2. UNCHANGED <<at, ran, failed, todo>>
      BY <1>8 DEF FetchTimedOut, running
    <2> QED
      BY <2>1, <2>2, <1>6
  <1>9. ASSUME NEW w \in Worker, Truncate(w) \/ WriteBack(w) PROVE Goal
    BY <1>9, <1>2 DEF Truncate, WriteBack, running
  <1>10. ASSUME NEW w \in Worker, SessionFinish(w) PROVE Goal
    <2>1. /\ at' = [at EXCEPT ![w] = "reporting"]
          /\ todo' = [todo EXCEPT ![w] = UNION {Issues(t) : t \in ran[w]}]
          /\ UNCHANGED <<ran, failed, memory, comments, trouble>>
      BY <1>10 DEF SessionFinish, external, cache
    <2>2. Rest
      BY <2>1, <1>t, <1>b
    <2>3. \A i \in UNION {Issues(t) : t \in failed[w]} : i \in todo'[w]
      BY <2>1, <1>t, <1>b
    <2>4. TellsAll(w, at'[w], failed'[w], memory'[w], todo'[w], comments')
      BY <2>1, <2>3 DEF TellsAll
    <2>5. Reports
      BY <2>1, <2>4, <1>b, <1>t
    <2> QED
      BY <2>2, <2>5
  <1>11. ASSUME NEW w \in Worker, Report(w) PROVE Goal
    <2>1. PICK i \in todo[w] \cap DOMAIN memory[w] :
            /\ todo' = [todo EXCEPT ![w] = @ \ {i}]
            /\ Reportable(memory[w][i]) /\ IsNews(w, i) => AddComment(w, i)
      BY <1>11 DEF Report
    <2>2. UNCHANGED <<at, ran, failed, memory>> /\ at[w] = "reporting"
      BY <1>11 DEF Report, cache
    <2>3. Rest
      BY <2>1, <2>2, <1>t, <1>b
    <2>4. ASSUME "error" \notin trouble', i \in UNION {Issues(t) : t \in failed[w]},
                 Reportable(memory[w][i])
          PROVE  [issue |-> i, by |-> w, outcome |-> "failed"] \in comments'
      <3>1. Outcome(w, i) = "failed"
        BY <2>4 DEF Outcome
      <3>2. AddComment(w, i)
        BY <2>1, <2>4, <3>1 DEF IsNews
      <3>3. comments' = comments \cup {Comment(w, i)}
        BY <2>4, <3>2 DEF AddComment
      <3> QED
        BY <3>1, <3>3 DEF Comment
    <2>5. ASSUME "error" \notin trouble'
          PROVE  TellsAll(w, at'[w], failed'[w], memory'[w], todo'[w], comments')
      <3>1. "error" \notin trouble
        BY <2>5, <1>s
      <3>2. TellsAll(w, at[w], failed[w], memory[w], todo[w], comments')
        BY <3>1, <1>b, <1>m
      <3>3. \A j \in UNION {Issues(t) : t \in failed[w]} : Told(w, j, memory[w], todo[w], comments')
        BY <3>2, <2>2 DEF TellsAll
      <3>4. todo'[w] = todo[w] \ {i}
        BY <2>1, <1>t
      <3>5. \A j \in UNION {Issues(t) : t \in failed[w]} : Told(w, j, memory[w], todo'[w], comments')
        BY <3>3, <3>4, <2>4, <2>5
      <3> QED
        BY <3>5, <2>2 DEF TellsAll
    <2>6. Reports
      BY <2>1, <2>2, <2>5, <1>b, <1>s, <1>m, <1>t
    <2> QED
      BY <2>3, <2>6
  <1>12. ASSUME NEW w \in Worker, Finish(w) PROVE Goal
    <2>1. /\ at' = [at EXCEPT ![w] = "finished"] /\ at[w] = "reporting" /\ todo[w] = {}
          /\ UNCHANGED <<ran, failed, memory, todo, comments, trouble>>
      BY <1>12 DEF Finish, external, cache, running
    <2>2. Rest
      BY <2>1, <1>t, <1>b
    <2>3. \A bad, known, left, said :
            TellsAll(w, "reporting", bad, known, left, said)
                => TellsAll(w, "finished", bad, known, left, said)
      BY DEF TellsAll
    <2>4. Reports
      BY <2>1, <2>3, <1>b, <1>t
    <2> QED
      BY <2>2, <2>4
  <1>13. CASE Distribute \/ JiraChanges \/ UNCHANGED vars
    BY <1>13, <1>2 DEF Distribute, JiraChanges, vars, cache, running
  <1> QED
    BY <1>3, <1>4, <1>5, <1>7, <1>8, <1>9, <1>10, <1>11, <1>12, <1>13 DEF Next, Step

\* A worker that ended has commented on every issue of its failed tests that it knows to
\* be in a state that is reported.
THEOREM FailuresAreKnown == Spec => []FailuresAreReported
  <1>1. Init => ReportInv
    BY TypeInit DEF Init, ReportInv, HasReported, NothingLeft, FailedWereRun
  <1>2. ReportInv => FailuresAreReported
    BY DEF ReportInv, HasReported, NothingLeft, FailuresAreReported
  <1> QED
    BY <1>1, <1>2, ReportStep, PTL DEF Spec

-----------------------------------------------------------------------------
(* The labels.                                                             *)

\* The worker that ran tests of an issue and tells Jira, or has told it.
IssuesOf(w) == UNION {Issues(t) : t \in ran[w]}
Reporter(w, i) == at[w] \in {"reporting", "finished"} /\ i \in IssuesOf(w)
HasLabel(i) == \E w \in Worker : Reporter(w, i) /\ jira[i].label = Outcome(w, i)

NobodyElse == trouble \cap {"error", "change"} = {}
WasFresh(i) == i \in DOMAIN origin.cached => origin.cached[i] = origin.jira[i]

\* What is known of an issue: the label is the one of the start, or a worker has set one
\* since.
Tells(i, data) ==
    data.status # "" => data.label = origin.jira[i].label \/ HasLabel(i)

LabelsKnown ==
    NobodyElse =>
        \A i \in Issue :
            /\ jira[i].label = origin.jira[i].label \/ HasLabel(i)
            /\ WasFresh(i) =>
                 /\ \A w \in Worker : i \in DOMAIN memory[w] => Tells(i, memory[w][i])
                 /\ file.state \in {"missing", "whole"} /\ i \in DOMAIN Unexpired(file.issues)
                        => Tells(i, Unexpired(file.issues)[i])

HasLabelled ==
    NobodyElse =>
        \A w \in Worker : at[w] \in {"reporting", "finished"} =>
            \A i \in IssuesOf(w) :
                \/ i \in todo[w]
                \/ /\ i \in DOMAIN memory[w]
                   /\ Reportable(memory[w][i]) /\ WasFresh(i) => HasLabel(i)

OwnIssues == \A w \in Worker : at[w] = "reporting" => todo[w] \subseteq IssuesOf(w)

\* Reporters go on being that, and what their tests came to does not change.
LEMMA ReportersStay ==
    ASSUME TypeInv, [Next]_vars, NEW v \in Worker, at[v] \in {"reporting", "finished"}
    PROVE  /\ at'[v] \in {"reporting", "finished"}
           /\ ran'[v] = ran[v] /\ failed'[v] = failed[v]
           /\ \A i : Outcome(v, i)' = Outcome(v, i)
           /\ (IssuesOf(v))' = IssuesOf(v)
  <1>o. \A t : Issues(t)' = Issues(t)
    BY Constant DEF Issues
  <1>t. /\ at \in [Worker -> Place]
        /\ DOMAIN ran = Worker /\ DOMAIN failed = Worker
    BY DEF TypeInv, TypeOK
  <1>1. at'[v] \in {"reporting", "finished"}
    <2>1. \A w \in Worker : Step(w) => at'[v] \in {"reporting", "finished"}
      BY <1>t DEF Step, Load, Loses, Fetch, FetchTimedOut, Truncate, WriteBack, EndMetadata,
                  EndIssues, RunTest, SessionFinish, Report, Finish, Crash
    <2>2. Distribute \/ JiraChanges \/ UNCHANGED vars => at' = at
      BY DEF Distribute, JiraChanges, vars
    <2> QED
      BY <2>1, <2>2 DEF Next
  <1>2. ran'[v] = ran[v] /\ failed'[v] = failed[v]
    <2>1. \A w \in Worker : RunTest(w) \/ Crash(w) => ran'[v] = ran[v] /\ failed'[v] = failed[v]
      BY <1>t DEF RunTest, Works, Crash
    <2>2. \A w \in Worker : Step(w) => RunTest(w) \/ Crash(w) \/ UNCHANGED <<ran, failed>>
      BY DEF Step, Load, Fetch, FetchTimedOut, Truncate, WriteBack, EndMetadata,
             EndIssues, SessionFinish, Report, Finish, running
    <2>3. Distribute \/ JiraChanges \/ UNCHANGED vars => UNCHANGED <<ran, failed>>
      BY DEF Distribute, JiraChanges, vars, running
    <2> QED
      BY <2>1, <2>2, <2>3 DEF Next
  <1> QED
    BY <1>1, <1>2, <1>o DEF Outcome, IssuesOf

\* While only workers set labels, a label is what it was or what a worker has just set.
LEMMA LabelStep ==
    ASSUME TypeInv, OwnIssues, [Next]_vars, NobodyElse', NEW i \in Issue
    PROVE  jira'[i].label = jira[i].label \/ HasLabel(i)'
  <1>t. jira \in [Issue -> Data] /\ DOMAIN todo = Worker
    BY DEF TypeInv, TypeOK
  <1>1. ASSUME NEW w \in Worker, Report(w)
        PROVE  jira'[i].label = jira[i].label \/ HasLabel(i)'
    <2>1. PICK j \in todo[w] \cap DOMAIN memory[w] :
            AddComment(w, j) \/ UNCHANGED <<jira, comments, trouble>>
      BY <1>1 DEF Report
    <2>2. jira' = jira \/ jira' = [jira EXCEPT ![j].label = Outcome(w, j)]
      BY <2>1 DEF AddComment
    <2>3. CASE jira' = jira \/ i # j
      BY <2>2, <2>3, <1>t
    <2>4. CASE jira' = [jira EXCEPT ![j].label = Outcome(w, j)] /\ i = j
      <3>1. jira'[i].label = Outcome(w, i)
        BY <2>4, <1>t DEF Data
      <3>2. at[w] = "reporting" /\ i \in IssuesOf(w)
        BY <1>1, <2>1, <2>4 DEF Report, OwnIssues
      <3>3. Reporter(w, i)' /\ jira'[i].label = Outcome(w, i)'
        BY <3>1, <3>2, ReportersStay DEF Reporter
      <3> QED
        BY <3>3 DEF HasLabel
    <2> QED
      BY <2>2, <2>3, <2>4
  <1>2. \A w \in Worker : Step(w) => Report(w) \/ UNCHANGED jira
    BY DEF Step, Load, Fetch, FetchTimedOut, Truncate, WriteBack, EndMetadata,
           EndIssues, RunTest, SessionFinish, Finish, Crash, external
  <1>3. Distribute \/ UNCHANGED vars => UNCHANGED jira
    BY DEF Distribute, vars, external
  <1>4. ~JiraChanges
    BY DEF JiraChanges, NobodyElse
  <1> QED
    BY <1>1, <1>2, <1>3, <1>4 DEF Next

LEMMA LabelStays ==
    ASSUME TypeInv, OwnIssues, [Next]_vars, NobodyElse', NEW i \in Issue, HasLabel(i)
    PROVE  HasLabel(i)'
  <1>1. PICK v \in Worker : Reporter(v, i) /\ jira[i].label = Outcome(v, i)
    BY DEF HasLabel
  <1>2. Reporter(v, i)' /\ Outcome(v, i)' = Outcome(v, i)
    BY <1>1, ReportersStay DEF Reporter
  <1>3. CASE jira'[i].label = jira[i].label
    BY <1>1, <1>2, <1>3 DEF HasLabel
  <1> QED
    BY <1>3, LabelStep

\* Where the data a worker holds after a step comes from.
LEMMA MemoryStep ==
    ASSUME TypeInv, [Next]_vars, NEW w \in Worker, NEW i \in DOMAIN memory'[w]
    PROVE  \/ i \in DOMAIN memory[w] /\ memory'[w][i] = memory[w][i]
           \/ /\ file.state \in {"missing", "whole"} /\ i \in DOMAIN Unexpired(file.issues)
              /\ memory'[w][i] = Unexpired(file.issues)[i]
           \/ memory'[w][i] \in {jira[i], Default}
  <1>t. memory \in [Worker -> Memory] /\ file \in FileRecord
    BY DEF TypeInv, TypeOK
  <1>1. ASSUME NEW v \in Worker, Load(v) PROVE
          memory'[w] = memory[w] \/ (file.state \in {"missing", "whole"} /\ memory'[w] = Unexpired(file.issues))
    BY <1>1, <1>t DEF Load, FileRecord
  <1>2. ASSUME NEW v \in Worker, Fetch(v) \/ FetchTimedOut(v) PROVE
          \/ i \in DOMAIN memory[w] /\ memory'[w][i] = memory[w][i]
          \/ memory'[w][i] \in {jira[i], Default}
    <2>1. PICK j \in Issue : Learns(v, j, jira[j]) \/ Learns(v, j, Default)
      <3>1. CASE Given(options, "jira_api_key")
        BY <1>2, <3>1 DEF Fetch, FetchTimedOut
      <3>2. CASE ~Given(options, "jira_api_key")
        BY <1>2, <3>2 DEF Fetch, FetchTimedOut
      <3> QED
        BY <3>1, <3>2
    <2> QED
      BY <2>1, <1>t DEF Learns
  <1>3. ASSUME NEW v \in Worker, Crash(v) PROVE memory'[w] = memory[w]
    BY <1>3, <1>t DEF Crash, Nothing
  <1>4. \A v \in Worker : Step(v) =>
            Load(v) \/ Fetch(v) \/ FetchTimedOut(v) \/ Crash(v) \/ UNCHANGED memory
    BY DEF Step, Truncate, WriteBack, EndMetadata, EndIssues, RunTest, SessionFinish, Report,
           Finish, cache
  <1>5. Distribute \/ JiraChanges \/ UNCHANGED vars => UNCHANGED memory
    BY DEF Distribute, JiraChanges, vars, cache
  <1> QED
    BY <1>1, <1>2, <1>3, <1>4, <1>5 DEF Next

\* And the entries of a file that can be read.
LEMMA FileStep ==
    ASSUME TypeInv, [Next]_vars, file'.state \in {"missing", "whole"}
    PROVE  \/ file' = file
           \/ \E w \in Worker : Unexpired(file'.issues) = memory[w]
  <1>1. ASSUME NEW w \in Worker, Truncate(w) PROVE FALSE
    BY <1>1 DEF Truncate
  <1>2. ASSUME NEW w \in Worker, WriteBack(w) PROVE Unexpired(file'.issues) = memory[w]
    <2>1. file' = Written(w)
      BY <1>2 DEF WriteBack
    <2> QED
      BY <2>1, WhatIsWritten DEF TypeInv, TypeOK
  <1>3. \A w \in Worker : Step(w) => Truncate(w) \/ WriteBack(w) \/ UNCHANGED file
    BY DEF Step, Load, Fetch, FetchTimedOut, EndMetadata, EndIssues, RunTest, SessionFinish,
           Report, Finish, Crash, cache
  <1>4. Distribute \/ JiraChanges \/ UNCHANGED vars => UNCHANGED file
    BY DEF Distribute, JiraChanges, vars, cache
  <1> QED
    BY <1>1, <1>2, <1>3, <1>4 DEF Next

\* What a worker knows while it reports, it goes on knowing.
LEMMA KnownStays ==
    ASSUME TypeInv, [Next]_vars, NEW v \in Worker, at[v] \in {"reporting", "finished"},
           NEW j \in DOMAIN memory[v]
    PROVE  j \in DOMAIN memory'[v] /\ memory'[v][j] = memory[v][j]
  <1>t. memory \in [Worker -> Memory]
    BY DEF TypeInv, TypeOK
  <1>1. ASSUME NEW w \in Worker, NEW k \in Asks(w), NEW data, Learns(w, k, data)
        PROVE  j \in DOMAIN memory'[v] /\ memory'[v][j] = memory[v][j]
    <2>1. k \notin DOMAIN memory[w]
      BY AsksUnknown
    <2>2. memory'[v] = memory[v] \/
            (v = w /\ memory'[v] = [l \in DOMAIN memory[v] \cup {k} |->
                                        IF l = k THEN data ELSE memory[v][l]])
      BY <1>1, <1>t DEF Learns
    <2> QED
      BY <2>1, <2>2
  <1>2. ASSUME NEW w \in Worker, Fetch(w)
        PROVE  j \in DOMAIN memory'[v] /\ memory'[v][j] = memory[v][j]
    <2>1. PICK k \in Issue : /\ k \in Asks(w)
                             /\ Learns(w, k, IF Given(options, "jira_api_key") THEN jira[k] ELSE Default)
      BY <1>2 DEF Fetch
    <2> QED
      BY <2>1, <1>1
  <1>3. ASSUME NEW w \in Worker, FetchTimedOut(w)
        PROVE  j \in DOMAIN memory'[v] /\ memory'[v][j] = memory[v][j]
    <2>1. PICK k \in Issue : k \in Asks(w) /\ Learns(w, k, Default)
      BY <1>3 DEF FetchTimedOut
    <2> QED
      BY <2>1, <1>1
  <1>4. \A w \in Worker : Load(w) \/ Crash(w) => memory'[v] = memory[v]
    BY <1>t DEF Load, Crash
  <1>5. \A w \in Worker : Step(w) =>
            Load(w) \/ Fetch(w) \/ FetchTimedOut(w) \/ Crash(w) \/ UNCHANGED memory
    BY DEF Step, Truncate, WriteBack, EndMetadata, EndIssues, RunTest, SessionFinish, Report,
           Finish, cache
  <1>6. Distribute \/ JiraChanges \/ UNCHANGED vars => UNCHANGED memory
    BY DEF Distribute, JiraChanges, vars, cache
  <1> QED
    BY <1>2, <1>3, <1>4, <1>5, <1>6 DEF Next

LEMMA OwnIssuesStep == TypeInv /\ OwnIssues /\ [Next]_vars => OwnIssues'
  <1> SUFFICES ASSUME TypeInv, OwnIssues, [Next]_vars, NEW v \in Worker, at'[v] = "reporting"
               PROVE  todo'[v] \subseteq (IssuesOf(v))'
    BY DEF OwnIssues
  <1>o. \A t : Issues(t)' = Issues(t)
    BY Constant DEF Issues
  <1>t. at \in [Worker -> Place] /\ DOMAIN todo = Worker /\ DOMAIN ran = Worker
    BY DEF TypeInv, TypeOK
  <1>1. CASE at[v] \in {"reporting", "finished"}
    <2>1. (IssuesOf(v))' = IssuesOf(v)
      BY <1>1, ReportersStay
    <2>2. todo'[v] \subseteq todo[v]
      <3>1. \A w \in Worker : SessionFinish(w) => v # w /\ todo'[v] = todo[v]
        BY <1>1, <1>t DEF SessionFinish, Works
      <3>2. \A w \in Worker : Report(w) => todo'[v] \subseteq todo[v]
        BY <1>t DEF Report
      <3>3. \A w \in Worker : Step(w) => SessionFinish(w) \/ Report(w) \/ UNCHANGED todo
        BY DEF Step, Load, Fetch, FetchTimedOut, Truncate, WriteBack, EndMetadata, EndIssues,
               RunTest, Finish, Crash, running
      <3>4. Distribute \/ JiraChanges \/ UNCHANGED vars => UNCHANGED todo
        BY DEF Distribute, JiraChanges, vars, running
      <3> QED
        BY <3>1, <3>2, <3>3, <3>4 DEF Next
    <2>3. at[v] = "reporting"
      <3>1. \A w \in Worker : Step(w) => at'[v] = at[v] \/ at'[v] # "reporting" \/ at[v] = "collected"
        BY <1>t DEF Step, Load, Loses, Fetch, FetchTimedOut, Truncate, WriteBack, EndMetadata,
                    EndIssues, RunTest, SessionFinish, Works, Report, Finish, Crash
      <3>2. Distribute \/ JiraChanges \/ UNCHANGED vars => at' = at
        BY DEF Distribute, JiraChanges, vars
      <3> QED
        BY <1>1, <3>1, <3>2 DEF Next
    <2> QED
      BY <2>1, <2>2, <2>3 DEF OwnIssues
  <1>2. CASE at[v] \notin {"reporting", "finished"}
    <2>1. SessionFinish(v)
      <3>1. \A w \in Worker : Step(w) => at'[v] = at[v] \/ at'[v] # "reporting" \/ SessionFinish(v)
        BY <1>t DEF Step, Load, Loses, Fetch, FetchTimedOut, Truncate, WriteBack, EndMetadata,
                    EndIssues, RunTest, SessionFinish, Report, Finish, Crash
      <3>2. Distribute \/ JiraChanges \/ UNCHANGED vars => at' = at
        BY DEF Distribute, JiraChanges, vars
      <3> QED
        BY <1>2, <3>1, <3>2 DEF Next
    <2> QED
      BY <2>1, <1>o, <1>t DEF SessionFinish, IssuesOf
  <1> QED
    BY <1>1, <1>2

LEMMA LabelsStep ==
    TypeInv /\ OwnIssues /\ LabelsKnown /\ [Next]_vars => LabelsKnown'
  <1> SUFFICES ASSUME TypeInv, OwnIssues, LabelsKnown, [Next]_vars, NobodyElse', NEW i \in Issue
               PROVE  /\ jira'[i].label = origin'.jira[i].label \/ HasLabel(i)'
                      /\ WasFresh(i)' =>
                           /\ \A w \in Worker : i \in DOMAIN memory'[w] => Tells(i, memory[w][i])'
                           /\ file'.state \in {"missing", "whole"} /\ i \in DOMAIN Unexpired(file'.issues)
                                => Tells(i, Unexpired(file.issues)[i])'
    BY DEF LabelsKnown
  <1>o. origin' = origin
    BY Constant
  <1>s. trouble \subseteq trouble'
    BY DEF Next, Step, Load, Fetch, FetchTimedOut, Truncate, WriteBack, EndMetadata, EndIssues,
           Distribute, RunTest, SessionFinish, Report, AddComment, Finish, Crash, JiraChanges,
           vars
  <1>n. NobodyElse
    BY <1>s DEF NobodyElse
  <1>h. HasLabel(i) => HasLabel(i)'
    BY LabelStays
  <1> DEFINE Known1(data) ==
                data.status # "" => data.label = origin.jira[i].label \/ HasLabel(i)'
  <1>k. \A data : Tells(i, data) => Known1(data)
    BY <1>h DEF Tells
  <1>1. jira[i].label = origin.jira[i].label \/ HasLabel(i)
    BY <1>n DEF LabelsKnown
  <1>2. jira'[i].label = origin.jira[i].label \/ HasLabel(i)'
    BY <1>1, <1>h, LabelStep
  <1>3. Known1(jira[i]) /\ Known1(Default)
    BY <1>1, <1>h DEF Default
  <1>4. ASSUME WasFresh(i), NEW w \in Worker, i \in DOMAIN memory'[w]
        PROVE  Known1(memory'[w][i])
    <2>1. i \in DOMAIN memory[w] => Known1(memory[w][i])
      BY <1>4, <1>n, <1>k DEF LabelsKnown
    <2>2. file.state \in {"missing", "whole"} /\ i \in DOMAIN Unexpired(file.issues)
            => Known1(Unexpired(file.issues)[i])
      BY <1>4, <1>n, <1>k DEF LabelsKnown
    <2> HIDE DEF Known1
    <2> QED
      BY <2>1, <2>2, <1>3, <1>4, MemoryStep
  <1>5. ASSUME WasFresh(i), file'.state \in {"missing", "whole"}, i \in DOMAIN Unexpired(file'.issues)
        PROVE  Known1(Unexpired(file'.issues)[i])
    <2>1. \A w \in Worker : i \in DOMAIN memory[w] => Known1(memory[w][i])
      BY <1>5, <1>n, <1>k DEF LabelsKnown
    <2>2. file.state \in {"missing", "whole"} /\ i \in DOMAIN Unexpired(file.issues)
            => Known1(Unexpired(file.issues)[i])
      BY <1>5, <1>n, <1>k DEF LabelsKnown
    <2> HIDE DEF Known1
    <2>3. CASE file' = file
      BY <2>2, <2>3, <1>5
    <2>4. CASE \E w \in Worker : Unexpired(file'.issues) = memory[w]
      BY <2>1, <2>4, <1>5
    <2> QED
      BY <2>3, <2>4, <1>5, FileStep
  <1>6. WasFresh(i)' = WasFresh(i)
    BY <1>o DEF WasFresh
  <1> QED
    BY <1>o, <1>2, <1>4, <1>5, <1>6 DEF Tells

LEMMA HasLabelledStep ==
    TypeInv /\ OwnIssues /\ LabelsKnown /\ HasLabelled /\ [Next]_vars => HasLabelled'
  <1> SUFFICES ASSUME TypeInv, OwnIssues, LabelsKnown, HasLabelled, [Next]_vars, NobodyElse',
                      NEW v \in Worker, at'[v] \in {"reporting", "finished"},
                      NEW i \in (IssuesOf(v))', i \notin todo'[v]
               PROVE  /\ i \in DOMAIN memory'[v]
                      /\ Reportable(memory'[v][i]) /\ WasFresh(i)' => HasLabel(i)'
    BY DEF HasLabelled
  <1>o. origin' = origin /\ \A t : Issues(t)' = Issues(t)
    BY Constant DEF Issues
  <1>t. /\ at \in [Worker -> Place] /\ DOMAIN todo = Worker /\ DOMAIN ran = Worker
        /\ memory \in [Worker -> Memory]
    BY DEF TypeInv, TypeOK
  <1>s. trouble \subseteq trouble'
    BY DEF Next, Step, Load, Fetch, FetchTimedOut, Truncate, WriteBack, EndMetadata, EndIssues,
           Distribute, RunTest, SessionFinish, Report, AddComment, Finish, Crash, JiraChanges,
           vars
  <1>n. NobodyElse
    BY <1>s DEF NobodyElse
  <1>1. at[v] \in {"reporting", "finished"}
    <2>1. \A w \in Worker : Step(w) =>
            at'[v] = at[v] \/ at'[v] \notin {"reporting", "finished"} \/ SessionFinish(v)
              \/ at[v] = "reporting"
      BY <1>t DEF Step, Load, Loses, Fetch, FetchTimedOut, Truncate, WriteBack, EndMetadata,
                  EndIssues, RunTest, Report, SessionFinish, Finish, Crash
    <2>2. Distribute \/ JiraChanges \/ UNCHANGED vars => at' = at
      BY DEF Distribute, JiraChanges, vars
    <2>3. ~SessionFinish(v)
      BY <1>o, <1>t DEF SessionFinish, IssuesOf
    <2> QED
      BY <2>1, <2>2, <2>3 DEF Next
  <1>2. i \in IssuesOf(v)
    BY <1>1, ReportersStay
  <1>3. \A j \in DOMAIN memory[v] : j \in DOMAIN memory'[v] /\ memory'[v][j] = memory[v][j]
    BY <1>1, KnownStays
  <1>4. CASE i \notin todo[v]
    <2>1. i \in DOMAIN memory[v] /\ (Reportable(memory[v][i]) /\ WasFresh(i) => HasLabel(i))
      BY <1>1, <1>2, <1>4, <1>n DEF HasLabelled
    <2>2. i \in Issue
      BY <2>1, <1>t DEF Memory
    <2>3. HasLabel(i) => HasLabel(i)'
      BY <2>2, LabelStays
    <2> QED
      BY <2>1, <2>3, <1>3, <1>o DEF WasFresh
  <1>5. CASE i \in todo[v]
    <2>1. Report(v)
      <3>1. \A w \in Worker : SessionFinish(w) => v # w /\ todo'[v] = todo[v]
        BY <1>1, <1>t DEF SessionFinish, Works
      <3>2. \A w \in Worker : Report(w) => v = w \/ todo'[v] = todo[v]
        BY <1>t DEF Report
      <3>3. \A w \in Worker : Step(w) => SessionFinish(w) \/ Report(w) \/ UNCHANGED todo
        BY DEF Step, Load, Fetch, FetchTimedOut, Truncate, WriteBack, EndMetadata, EndIssues,
               RunTest, Finish, Crash, running
      <3>4. Distribute \/ JiraChanges \/ UNCHANGED vars => UNCHANGED todo
        BY DEF Distribute, JiraChanges, vars, running
      <3> QED
        BY <1>5, <3>1, <3>2, <3>3, <3>4 DEF Next
    <2>2. PICK j \in todo[v] \cap DOMAIN memory[v] :
            /\ todo' = [todo EXCEPT ![v] = @ \ {j}]
            /\ IF Reportable(memory[v][j]) /\ IsNews(v, j) THEN AddComment(v, j)
               ELSE UNCHANGED <<jira, comments, trouble>>
      BY <2>1 DEF Report
    <2>3. i = j /\ i \in DOMAIN memory[v] /\ UNCHANGED memory
      BY <1>5, <2>1, <2>2, <1>t DEF Report, cache
    <2>4. i \in Issue
      BY <2>3, <1>t DEF Memory
    <2>5. Reporter(v, i)' /\ Outcome(v, i)' = Outcome(v, i)
      BY <1>1, ReportersStay DEF Reporter
    <2>6. ASSUME Reportable(memory[v][i]), WasFresh(i), IsNews(v, i) PROVE HasLabel(i)'
      <3>1. AddComment(v, i)
        BY <2>2, <2>3, <2>6
      <3>2. jira' = [jira EXCEPT ![i].label = Outcome(v, i)]
        BY <3>1 DEF AddComment, NobodyElse
      <3>3. jira'[i].label = Outcome(v, i)
        BY <3>2, <2>4 DEF TypeInv, TypeOK, Data
      <3> QED
        BY <3>3, <2>5 DEF HasLabel
    <2>7. ASSUME Reportable(memory[v][i]), WasFresh(i), ~IsNews(v, i) PROVE HasLabel(i)'
      <3>1. memory[v][i].label = "passed" /\ Outcome(v, i) = "passed"
        BY <2>7 DEF IsNews, Outcome
      <3>2. memory[v][i].status # ""
        BY <2>7 DEF Reportable
      <3>3. HasLabel(i) \/ memory[v][i].label = origin.jira[i].label
        BY <2>3, <2>4, <2>7, <3>2, <1>n DEF LabelsKnown, Tells
      <3>4. HasLabel(i) \/ jira[i].label = origin.jira[i].label
        BY <2>4, <1>n DEF LabelsKnown
      <3>5. UNCHANGED jira
        BY <2>2, <2>3, <2>7
      <3>6. CASE HasLabel(i)
        BY <3>6, <2>4, LabelStays
      <3>7. CASE ~HasLabel(i)
        <4>1. jira'[i].label = Outcome(v, i)
          BY <3>1, <3>3, <3>4, <3>5, <3>7
        <4> QED
          BY <4>1, <2>5 DEF HasLabel
      <3> QED
        BY <3>6, <3>7
    <2> QED
      BY <2>3, <2>6, <2>7, <1>o DEF WasFresh
  <1> QED
    BY <1>4, <1>5

\* A worker that ended has told Jira what its tests of an issue came to: a comment for
\* each failure; and the label is the outcome, if nobody else had another one and the
\* file did not hold an older label.
THEOREM OutcomesAreKnown == Spec => []OutcomesAreReported
  <1> DEFINE Inv == ReportInv /\ OwnIssues /\ LabelsKnown /\ HasLabelled
  <1>1. Init => Inv
    <2> SUFFICES ASSUME Init PROVE Inv
      OBVIOUS
    <2>1. ReportInv
      BY TypeInit DEF Init, ReportInv, HasReported, NothingLeft, FailedWereRun
    <2>2. LabelsKnown
      BY DEF Init, LabelsKnown, Tells, WasFresh, Nothing
    <2>3. OwnIssues /\ HasLabelled
      BY DEF Init, OwnIssues, HasLabelled
    <2> QED
      BY <2>1, <2>2, <2>3
  <1>2. Inv /\ [Next]_vars => Inv'
    BY ReportStep, OwnIssuesStep, LabelsStep, HasLabelledStep DEF ReportInv
  <1>3. Inv => LabelsTellOutcomes
    <2> SUFFICES ASSUME Inv, trouble \cap {"error", "change"} = {},
                        NEW w \in Worker, NEW i \in IssuesOf(w),
                        at[w] = "finished", Reportable(memory[w][i]), SameOutcome(w, i), WasFresh(i)
                 PROVE  jira[i].label = Outcome(w, i)
      BY DEF LabelsTellOutcomes, IssuesOf, WasFresh
    <2>1. todo[w] = {}
      BY DEF ReportInv, NothingLeft
    <2>2. HasLabel(i)
      BY <2>1 DEF HasLabelled, NobodyElse
    <2> QED
      BY <2>2 DEF HasLabel, Reporter, IssuesOf, SameOutcome
  <1>4. Inv => OutcomesAreReported
    BY <1>3 DEF OutcomesAreReported, ReportInv, HasReported, NothingLeft, FailuresAreReported
  <1> QED
    BY <1>1, <1>2, <1>4, PTL DEF Spec

-----------------------------------------------------------------------------
(* What the hooks take out of the collection.                              *)

\* The least number principle, from which what follows by induction is proved.
LEMMA Least ==
    ASSUME NEW T \in SUBSET Nat, T # {}
    PROVE  \E m \in T : \A k \in T : m <= k
  <1> DEFINE less == OpToRel(<, Nat)
  <1>1. IsWellFoundedOn(less, Nat)
    BY NatLessThanWellFounded
  <1>2. \A k, m \in Nat : k < m => <<k, m>> \in less
    BY DEF OpToRel
  <1> HIDE DEF less
  <1>3. \E m \in T : \A k \in T : <<k, m>> \notin less
    BY <1>1, WFMin, Zenon
  <1>4. PICK m \in T : \A k \in T : <<k, m>> \notin less
    BY <1>3
  <1>5. \A k \in T : ~(k < m)
    BY <1>2, <1>4
  <1> QED  BY <1>4, <1>5

\* A recursive function on the first numbers exists.
LEMMA KeptOfIs ==
    ASSUME NEW s \in Seq(Test), NEW S
    PROVE  /\ DOMAIN KeptOf(s, S) = 0..Len(s) /\ KeptOf(s, S)[0] = << >>
           /\ \A n \in 1..Len(s) :
                 KeptOf(s, S)[n] = IF s[n] \in S THEN Append(KeptOf(s, S)[n - 1], s[n])
                                               ELSE KeptOf(s, S)[n - 1]
  <1> DEFINE Value(f, n) == IF n = 0 THEN << >>
                            ELSE IF s[n] \in S THEN Append(f[n - 1], s[n]) ELSE f[n - 1]
             Good(f, n) == f = [i \in 0..n |-> Value(f, i)]
             bad == {n \in Nat : ~\E f : Good(f, n)}
  <1>1. bad = {}
    <2> SUFFICES ASSUME bad # {}  PROVE FALSE
      OBVIOUS
    <2>4. bad \in SUBSET Nat
      OBVIOUS
    <2>5. \A n \in Nat : n \in bad <=> ~\E f : Good(f, n)
      OBVIOUS
    <2> HIDE DEF bad, Good
    <2>1. PICK m \in bad : \A k \in bad : m <= k
      BY <2>4, Least
    <2>2. CASE m = 0
      <3> DEFINE g == [i \in 0..0 |-> << >>]
      <3>1. \A i \in 0..0 : Value(g, i) = << >>
        OBVIOUS
      <3>2. Good(g, 0)
        BY <3>1 DEF Good
      <3> HIDE DEF g
      <3>3. \E h : Good(h, 0)
        BY <3>2
      <3> QED  BY <2>1, <2>2, <2>4, <2>5, <3>3
    <2>3. CASE m # 0
      <3>1. m \in Nat /\ m - 1 \in Nat /\ m - 1 \notin bad
        BY <2>1, <2>3, <2>4
      <3>2. PICK f : Good(f, m - 1)
        BY <2>5, <3>1
      <3>0. f = [i \in 0..(m - 1) |-> Value(f, i)]
        BY <3>2 DEF Good
      <3> DEFINE g == [i \in 0..m |-> IF i = m THEN Value(f, m) ELSE f[i]]
      <3>3. \A i \in 0..(m - 1) : g[i] = f[i]
        BY <3>1
      <3>4. \A i \in 0..m : i = 0 \/ i - 1 \in 0..(m - 1)
        BY <3>1
      <3>5. \A i \in 0..m : Value(g, i) = Value(f, i)
        <4> HIDE DEF g
        <4> QED  BY <3>3, <3>4
      <3>a. \A i \in 0..m : i = m \/ i \in 0..(m - 1)
        BY <3>1
      <3> HIDE DEF Value
      <3>6. \A i \in 0..m : g[i] = Value(f, i)
        BY <3>0, <3>a
      <3>7. Good(g, m)
        BY <3>5, <3>6 DEF Good
      <3> HIDE DEF g
      <3>8. \E h : Good(h, m)
        BY <3>7
      <3> QED  BY <2>1, <2>4, <2>5, <3>1, <3>8
    <2> QED  BY <2>2, <2>3
  <1>2. \E f : Good(f, Len(s))
    BY <1>1
  <1>3. KeptOf(s, S) = CHOOSE f : Good(f, Len(s))
    BY DEF KeptOf
  <1> DEFINE f == KeptOf(s, S)
  <1>4. Good(f, Len(s))
    BY <1>2, <1>3
  <1>5. Len(s) \in Nat
    OBVIOUS
  <1> HIDE DEF f
  <1>6. DOMAIN f = 0..Len(s) /\ \A n \in 0..Len(s) : f[n] = Value(f, n)
    BY <1>4
  <1>8. \A n \in 1..Len(s) : n \in 0..Len(s) /\ n # 0
    BY <1>5
  <1>9. 0 \in 0..Len(s)
    BY <1>5
  <1>7. f[0] = << >> /\ \A n \in 1..Len(s) : f[n] = IF s[n] \in S THEN Append(f[n - 1], s[n]) ELSE f[n - 1]
    BY <1>6, <1>8, <1>9
  <1> QED  BY <1>6, <1>7 DEF f

\* Each test once.
Fine(its) == its \in Seq(Test) /\ IsInjective(its)

LEMMA AppendIs ==
    ASSUME NEW its, Fine(its), NEW t \in Test, t \notin ToSet(its)
    PROVE  Fine(Append(its, t)) /\ ToSet(Append(its, t)) = ToSet(its) \cup {t}
  <1>1. /\ its \in Seq(Test) /\ Len(its) \in Nat /\ DOMAIN its = 1..Len(its)
        /\ \A i \in 1..Len(its) : its[i] # t
    BY DEF Fine, ToSet
  <1> DEFINE q == Append(its, t)
  <1>2. /\ q \in Seq(Test) /\ DOMAIN q = 1..(Len(its) + 1) /\ q[Len(its) + 1] = t
        /\ \A i \in 1..Len(its) : q[i] = its[i]
    BY <1>1
  <1> HIDE DEF q
  <1>3. IsInjective(q)
    BY <1>1, <1>2 DEF Fine, IsInjective
  <1>4. ToSet(q) = ToSet(its) \cup {t}
    BY <1>1, <1>2 DEF ToSet
  <1> QED  BY <1>2, <1>3, <1>4 DEF Fine, q

\* Keep leaves the tests of S, each once.
LEMMA KeepIs ==
    ASSUME NEW its, Fine(its), NEW S
    PROVE  Fine(Keep(its, S)) /\ ToSet(Keep(its, S)) = ToSet(its) \cap S
  <1> DEFINE kept == KeptOf(its, S)
             Good(n) == /\ Fine(kept[n])
                        /\ ToSet(kept[n]) = {its[j] : j \in 1..n} \cap S
             bad == {n \in 0..Len(its) : ~Good(n)}
  <1>1. /\ its \in Seq(Test) /\ Len(its) \in Nat /\ DOMAIN its = 1..Len(its)
        /\ \A i, j \in 1..Len(its) : its[i] = its[j] => i = j
    BY DEF Fine, IsInjective
  <1>2. /\ kept[0] = << >>
        /\ \A n \in 1..Len(its) :
              kept[n] = IF its[n] \in S THEN Append(kept[n - 1], its[n]) ELSE kept[n - 1]
    BY <1>1, KeptOfIs
  <1> HIDE DEF kept
  <1>3. Good(0)
    <2>1. Fine(<< >>) /\ ToSet(<< >>) = {}
      BY DEF Fine, IsInjective, ToSet
    <2> QED  BY <1>2, <2>1
  <1>4. ASSUME NEW n \in 1..Len(its), Good(n - 1)  PROVE Good(n)
    <2>1. n - 1 \in 0..Len(its) /\ n \in Nat
      BY <1>1
    <2>2. {its[j] : j \in 1..n} = {its[j] : j \in 1..(n - 1)} \cup {its[n]}
      BY <2>1
    <2>3. its[n] \in Test /\ its[n] \notin {its[j] : j \in 1..(n - 1)}
      BY <1>1, <2>1
    <2>4. CASE its[n] \in S
      <3>1. kept[n] = Append(kept[n - 1], its[n])
        BY <1>2, <2>4
      <3>2. its[n] \notin ToSet(kept[n - 1])
        BY <1>4, <2>3
      <3> QED  BY <1>4, <2>2, <2>3, <2>4, <3>1, <3>2, AppendIs
    <2>5. CASE its[n] \notin S
      <3>1. kept[n] = kept[n - 1]
        BY <1>2, <2>5
      <3> QED  BY <1>4, <2>2, <2>5, <3>1
    <2> QED  BY <2>4, <2>5
  <1>5. bad = {}
    <2> SUFFICES ASSUME bad # {}  PROVE FALSE
      OBVIOUS
    <2>1. bad \in SUBSET Nat /\ \A n \in bad : n \in 0..Len(its) /\ ~Good(n)
      OBVIOUS
    <2>2. \A n \in 0..Len(its) : ~Good(n) => n \in bad
      OBVIOUS
    <2> HIDE DEF bad, Good
    <2>3. PICK m \in bad : \A k \in bad : m <= k
      BY <2>1, Least
    <2>4. m \in 1..Len(its) /\ m - 1 \in 0..Len(its)
      BY <1>1, <1>3, <2>1
    <2>5. m - 1 \notin bad
      BY <2>1, <2>3, <2>4
    <2> QED  BY <1>4, <2>1, <2>2, <2>4, <2>5
  <1>6. Good(Len(its))
    BY <1>1, <1>5
  <1>7. ToSet(its) = {its[j] : j \in 1..Len(its)}
    BY <1>1 DEF ToSet
  <1> QED  BY <1>6, <1>7 DEF Keep, kept

\* There are as many tests as places, if each is there once.
LEMMA CardinalityIs ==
    ASSUME NEW its, Fine(its)
    PROVE  IsFiniteSet(ToSet(its)) /\ Cardinality(ToSet(its)) = Len(its) /\ Len(its) \in Nat
  <1>1. its \in Seq(Test) /\ Len(its) \in Nat /\ DOMAIN its = 1..Len(its)
    BY DEF Fine
  <1>2. IsFiniteSet(1..Len(its)) /\ Cardinality(1..Len(its)) = Len(its)
    BY <1>1, FS_Interval
  <1>3. its \in Bijection(1..Len(its), ToSet(its))
    <2>1. its \in [1..Len(its) -> ToSet(its)]
      BY <1>1 DEF ToSet
    <2>2. \A t \in ToSet(its) : \E i \in 1..Len(its) : its[i] = t
      BY <1>1 DEF ToSet
    <2> QED  BY <2>1, <2>2 DEF Fine, Bijection, Injection, Surjection, IsInjective
  <1>4. ExistsBijection(1..Len(its), ToSet(its))
    BY <1>3 DEF ExistsBijection
  <1> QED  BY <1>1, <1>2, <1>4, FS_Bijection

\* The last n tests, last first.
LEMMA SampleIs ==
    ASSUME NEW its, Fine(its), NEW n \in Nat, n < Len(its)
    PROVE  LET sample == SubSeq(Reverse(its), 1, n)
           IN  Fine(sample) /\ ToSet(sample) \subseteq ToSet(its) /\ Len(sample) = n
  <1>1. /\ its \in Seq(Test) /\ Len(its) \in Nat /\ DOMAIN its = 1..Len(its)
        /\ \A i, j \in 1..Len(its) : its[i] = its[j] => i = j
    BY DEF Fine, IsInjective
  <1> DEFINE r == Reverse(its)
             s == SubSeq(r, 1, n)
  <1>2. \A i \in 1..Len(its) : Len(its) - i + 1 \in 1..Len(its)
    BY <1>1
  <1>3. r = [i \in 1..Len(its) |-> its[Len(its) - i + 1]]
    BY DEF Reverse
  <1> HIDE DEF r
  <1>4. r \in Seq(Test) /\ Len(r) = Len(its)
    BY <1>1, <1>2, <1>3
  <1>5. s \in Seq(Test) /\ Len(s) = n /\ DOMAIN s = 1..n /\ \A i \in 1..n : s[i] = r[i]
    <2>1. \A i \in 1..n : r[i] \in Test
      BY <1>1, <1>4
    <2>2. /\ s \in Seq(Test) /\ Len(s) = (IF 1 <= n THEN n - 1 + 1 ELSE 0)
          /\ \A i \in 1..(n - 1 + 1) : s[i] = r[1 + i - 1]
      BY <2>1, SubSeqProperties
    <2> HIDE DEF s
    <2>3. n - 1 + 1 = n /\ Len(s) = n /\ s \in Seq(Test)
      BY <2>2
    <2>4. \A i \in 1..n : s[i] = r[i]
      <3> SUFFICES ASSUME NEW i \in 1..n  PROVE s[i] = r[i]
        OBVIOUS
      <3>1. 1 + i - 1 = i /\ s[i] = r[1 + i - 1]
        BY <2>2, <2>3
      <3> QED  BY <3>1
    <2>5. DOMAIN s = 1..Len(s)
      BY <2>3
    <2> QED  BY <2>3, <2>4, <2>5, Zenon
  <1> HIDE DEF s
  <1>6. \A i \in 1..n : s[i] = its[Len(its) - i + 1] /\ Len(its) - i + 1 \in 1..Len(its)
    <2>1. \A i \in 1..n : i \in 1..Len(its)
      BY <1>1
    <2>2. \A i \in 1..Len(its) : r[i] = its[Len(its) - i + 1]
      BY <1>3
    <2> QED  BY <1>2, <1>5, <2>1, <2>2
  <1>7. IsInjective(s)
    <2> SUFFICES ASSUME NEW i \in 1..n, NEW j \in 1..n, s[i] = s[j]  PROVE i = j
      BY <1>5 DEF IsInjective
    <2>1. Len(its) - i + 1 = Len(its) - j + 1
      BY <1>1, <1>6
    <2> QED  BY <1>1, <2>1
  <1>8. ToSet(s) \subseteq ToSet(its)
    BY <1>1, <1>5, <1>6 DEF ToSet
  <1> QED  BY <1>5, <1>7, <1>8 DEF Fine, s, r

\* What rerun_rp leaves, or all.
Base(o) == {t \in ToSet(Suite) : Given(o, "only_failed") => t \in o.failed}

LEMMA SuiteIsFine == Fine(Suite) /\ ToSet(Suite) \subseteq Test /\ IsFiniteSet(ToSet(Suite))
  <1>1. Fine(Suite)
    BY ConstantsAssumption DEF Fine
  <1>2. ToSet(Suite) \subseteq Test
    BY ConstantsAssumption DEF ToSet
  <1> QED  BY <1>1, <1>2, CardinalityIs

LEMMA RerunsAre ==
    ASSUME NEW o, NEW its \in Reruns(o, Suite)
    PROVE  Fine(its) /\ ToSet(its) = Base(o)
  <1>1. CASE ~Given(o, "only_failed")
    BY <1>1, SuiteIsFine DEF Reruns, Base
  <1>2. CASE Given(o, "only_failed")
    <2> DEFINE S == ToSet(Suite) \cap o.failed
               n == Cardinality(S)
    <2>1. its \in SetToSeqs(S) /\ Base(o) = S
      BY <1>2 DEF Reruns, Base
    <2>2. IsFiniteSet(S) /\ S \subseteq Test
      BY SuiteIsFine, FS_Subset
    <2>3. n \in Nat
      BY <2>2, FS_CardinalityType
    <2> HIDE DEF S, n
    <2>4. its \in [1..n -> S] /\ \A i, j \in 1..n : i # j => its[i] # its[j]
      BY <2>1 DEF SetToSeqs, n
    <2>5. its \in Seq(Test) /\ Len(its) = n /\ DOMAIN its = 1..n
      BY <2>2, <2>3, <2>4
    <2>6. Fine(its)
      BY <2>4, <2>5 DEF Fine, IsInjective
    <2>7. ToSet(its) \subseteq S /\ Cardinality(ToSet(its)) = n
      BY <2>4, <2>5, <2>6, CardinalityIs DEF ToSet
    <2>8. ToSet(its) = S
      BY <2>2, <2>7, FS_Subset DEF n
    <2> QED  BY <2>1, <2>6, <2>8
  <1> QED  BY <1>1, <1>2


\* metadata_markers takes away what it deselects, and the unit tests with it.
LEMMA MetadataMarkersIs ==
    ASSUME NEW o, NEW open, NEW its, Fine(its)
    PROVE  LET left == MetadataMarkers(its, Deselected(o, its, open))
           IN  /\ Fine(left) /\ ToSet(left) \subseteq ToSet(its)
               /\ \A t \in ToSet(left) : Has(t, "unit") \/ Passes(o, t, open)
               /\ \A t \in ToSet(its) : ~Has(t, "unit") /\ Passes(o, t, open) => t \in ToSet(left)
  <1> DEFINE deselected == Deselected(o, its, open)
             S == {t \in Test : ~Has(t, "unit") /\ t \notin deselected}
  <1>1. ToSet(its) \subseteq Test
    BY DEF Fine, ToSet
  <1>2. CASE deselected = {}
    BY <1>2 DEF MetadataMarkers, Deselected
  <1>3. CASE deselected # {}
    <2>1. MetadataMarkers(its, deselected) = Keep(its, S)
      BY <1>3 DEF MetadataMarkers
    <2>2. Fine(Keep(its, S)) /\ ToSet(Keep(its, S)) = ToSet(its) \cap S
      BY KeepIs
    <2> QED  BY <1>1, <2>1, <2>2 DEF Deselected
  <1> QED  BY <1>2, <1>3

\* marker_deselection leaves what fits the infrastructure, or everything if nothing does.
LEMMA MarkerDeselectionIs ==
    ASSUME NEW o, NEW its, Fine(its)
    PROVE  LET left == MarkerDeselection(o, its)
           IN  /\ Fine(left) /\ ToSet(left) \subseteq ToSet(its)
               /\ \A t \in ToSet(its) : FitsInfra(o, t) => t \in ToSet(left)
               /\ \/ \A t \in ToSet(left) : FitsInfra(o, t)
                  \/ \A t \in ToSet(left) : ~FitsInfra(o, t)
  <1> DEFINE S == {t \in Test : FitsInfra(o, t)}
             selected == Keep(its, S)
  <1>1. ToSet(its) \subseteq Test
    BY DEF Fine, ToSet
  <1>2. Fine(selected) /\ ToSet(selected) = ToSet(its) \cap S
    BY KeepIs
  <1>3. MarkerDeselection(o, its) = IF selected = << >> THEN its ELSE selected
    BY DEF MarkerDeselection
  <1>4. selected = << >> => ToSet(its) \cap S = {}
    BY <1>2 DEF ToSet
  <1> HIDE DEF selected
  <1> QED  BY <1>1, <1>2, <1>3, <1>4

\* sanity_plugin puts the installer test in front, and takes some of the others away.
LEMMA SanityPluginIs ==
    ASSUME NEW o, NEW its, Fine(its), ToSet(its) \subseteq ToSet(Suite),
           ~ConfigurationException(o, its)
    PROVE  LET left == SanityPlugin(o, its)
           IN  Fine(left) /\ ToSet(left) = {t \in ToSet(its) : ForSanity(o, t)}
  <1>1. ToSet(its) \subseteq Test
    BY DEF Fine, ToSet
  <1>2. CASE ~Given(o, "sanity")
    BY <1>2 DEF SanityPlugin, ForSanity
  <1>3. CASE Given(o, "sanity")
    <2> DEFINE I == {t \in Test : IsInstaller(t)}
               first == Keep(its, I)[1]
               S == {t \in Test : t # first /\ ForSanity(o, t)}
               rest == Keep(its, S)
    <2>1. SanityPlugin(o, its) = <<first>> \o rest
      BY <1>3 DEF SanityPlugin
    <2>2. Fine(Keep(its, I)) /\ ToSet(Keep(its, I)) = ToSet(its) \cap I
      BY KeepIs
    <2>3. Fine(rest) /\ ToSet(rest) = ToSet(its) \cap S
      BY KeepIs
    <2>4. first \in ToSet(its) \cap I
      <3>1. ToSet(its) \cap I # {}
        BY <1>1, <1>3 DEF ConfigurationException
      <3>2. 1 \in DOMAIN Keep(its, I)
        BY <2>2, <3>1 DEF Fine, ToSet
      <3> QED  BY <2>2, <3>2 DEF ToSet
    <2>5. ForSanity(o, first)
      BY <2>4, ConstantsAssumption DEF ForSanity
    <2>6. first \in Test /\ first \notin ToSet(rest)
      BY <2>3, <2>4
    <2> HIDE DEF first, rest
    <2>7. Fine(<<first>> \o rest) /\ ToSet(<<first>> \o rest) = {first} \cup ToSet(rest)
      <3> DEFINE q == <<first>> \o rest
      <3>1. rest \in Seq(Test) /\ Len(rest) \in Nat /\ DOMAIN rest = 1..Len(rest)
        BY <2>3 DEF Fine
      <3>2. /\ q \in Seq(Test) /\ DOMAIN q = 1..(Len(rest) + 1) /\ q[1] = first
            /\ \A i \in 1..Len(rest) : q[i + 1] = rest[i]
        BY <2>6, <3>1
      <3> HIDE DEF q
      <3>3. \A i \in DOMAIN q : i = 1 \/ (i - 1 \in 1..Len(rest) /\ q[i] = rest[i - 1])
        BY <3>1, <3>2
      <3>4. \A i \in 1..Len(rest) : rest[i] \in ToSet(rest) /\ rest[i] # first
        BY <2>6, <3>1 DEF ToSet
      <3>5. IsInjective(q)
        <4> SUFFICES ASSUME NEW i \in DOMAIN q, NEW j \in DOMAIN q, q[i] = q[j]  PROVE i = j
          BY DEF IsInjective
        <4>1. CASE i = 1 \/ j = 1
          BY <3>2, <3>3, <3>4, <4>1
        <4>2. CASE i # 1 /\ j # 1
          <5>1. i - 1 \in DOMAIN rest /\ j - 1 \in DOMAIN rest /\ rest[i - 1] = rest[j - 1]
            BY <3>1, <3>3, <4>2
          <5>2. i - 1 = j - 1
            BY <2>3, <5>1 DEF Fine, IsInjective
          <5>3. i \in Nat /\ j \in Nat
            BY <3>1, <3>2
          <5> QED  BY <5>2, <5>3
        <4> QED  BY <4>1, <4>2
      <3>6. ToSet(q) \subseteq {first} \cup ToSet(rest)
        BY <3>2, <3>3, <3>4 DEF ToSet
      <3>7. {first} \cup ToSet(rest) \subseteq ToSet(q)
        <4>1. 1 \in DOMAIN q /\ \A i \in 1..Len(rest) : i + 1 \in DOMAIN q
          BY <3>1, <3>2
        <4> QED  BY <3>1, <3>2, <4>1 DEF ToSet
      <3> QED  BY <3>2, <3>5, <3>6, <3>7 DEF Fine, q
    <2> QED  BY <1>1, <2>1, <2>3, <2>4, <2>5, <2>7
  <1> QED  BY <1>2, <1>3

Wanted(o, open) == {t \in ToSet(Suite) : IsWanted(o, t, open)}

\* What the hooks have left before the last one takes its sample.
LeftAsAsked(o, its, open) ==
    /\ Fine(its)
    /\ ToSet(its) \subseteq Wanted(o, open) \/ \A t \in ToSet(its) : ~FitsInfra(o, t)
    /\ {t \in Wanted(o, open) : ~Has(t, "unit")} \subseteq ToSet(its)

LEMMA ToTheIssuesIs ==
    ASSUME NEW o, NEW open, NEW its, Fine(its), ToSet(its) = Base(o), NEW left,
           left = MetadataMarkers(its, Deselected(o, its, open)),
           ~ConfigurationException(o, InBetween(o, left))
    PROVE  LeftAsAsked(o, ToTheIssues(o, left), open)
  <1> DEFINE fit == MarkerDeselection(o, left)
             here == ForemanConftest(fit)
             upstream == UpstreamPr(o, here)
             between == CapsuleNMinus(o, upstream)
             sane == SanityPlugin(o, between)
             automated == ManualSkipped(o, sane)
             marked == MarkExpression(o, automated)
  <1>1. /\ Fine(left) /\ ToSet(left) \subseteq Base(o)
        /\ \A t \in ToSet(left) : Has(t, "unit") \/ Passes(o, t, open)
        /\ \A t \in Base(o) : ~Has(t, "unit") /\ Passes(o, t, open) => t \in ToSet(left)
    BY MetadataMarkersIs
  <1>2. /\ Fine(fit) /\ ToSet(fit) \subseteq ToSet(left)
        /\ \A t \in ToSet(left) : FitsInfra(o, t) => t \in ToSet(fit)
        /\ (\A t \in ToSet(fit) : FitsInfra(o, t)) \/ (\A t \in ToSet(fit) : ~FitsInfra(o, t))
    BY <1>1, MarkerDeselectionIs
  <1>3. Fine(here) /\ ToSet(here) = ToSet(fit) \cap {t \in Test : ~Has(t, "deselect")}
    BY <1>2, KeepIs DEF ForemanConftest
  <1>4. Fine(upstream) /\ ToSet(upstream) = ToSet(here) \cap {t \in Test : OfUpstream(o, t)}
    BY <1>3, KeepIs DEF UpstreamPr
  <1>5. Fine(between) /\ ToSet(between) = ToSet(upstream) \cap {t \in Test : ForCapsule(o, t)}
    BY <1>4, KeepIs DEF CapsuleNMinus
  <1>b. Base(o) \subseteq ToSet(Suite) /\ ToSet(Suite) \subseteq Test
    BY SuiteIsFine DEF Base
  <1>6. Fine(sane) /\ ToSet(sane) = {t \in ToSet(between) : ForSanity(o, t)}
    <2>1. ~ConfigurationException(o, between)
      BY DEF InBetween
    <2>2. ToSet(between) \subseteq ToSet(Suite)
      BY <1>1, <1>2, <1>3, <1>4, <1>5, <1>b
    <2> HIDE DEF between
    <2> QED  BY <1>5, <2>1, <2>2, SanityPluginIs
  <1>7. Fine(automated) /\ ToSet(automated) = ToSet(sane) \cap {t \in Test : IsAutomated(o, t)}
    BY <1>6, KeepIs DEF ManualSkipped
  <1>8. Fine(marked) /\ ToSet(marked) = ToSet(automated) \cap {t \in Test : IsMarked(o, t)}
    BY <1>7, KeepIs DEF MarkExpression
  <1>9. ToTheIssues(o, left) = marked
    BY DEF ToTheIssues, InBetween
  <1> HIDE DEF fit, here, upstream, between, sane, automated, marked
  <1> DEFINE Through(t) == /\ ~Has(t, "deselect") /\ OfUpstream(o, t) /\ ForCapsule(o, t)
                           /\ ForSanity(o, t) /\ IsAutomated(o, t) /\ IsMarked(o, t)
  <1>10. ToSet(marked) = {t \in ToSet(fit) : Through(t)}
    BY <1>1, <1>2, <1>3, <1>4, <1>5, <1>6, <1>7, <1>8, <1>b
  <1>11. \A t \in ToSet(Suite) :
            IsWanted(o, t, open) <=> /\ t \in Base(o) /\ (Has(t, "unit") \/ Passes(o, t, open))
                                     /\ FitsInfra(o, t) /\ Through(t)
    BY DEF IsWanted, Base, Passes, Unblocked
  <1> HIDE DEF Through
  <1> QED  BY <1>1, <1>2, <1>8, <1>9, <1>10, <1>11, <1>b DEF LeftAsAsked, Wanted

\* A sample has as many tests as were asked for.
LEMMA SelectRandomTestsIs ==
    ASSUME NEW o \in Options, NEW open, NEW its, LeftAsAsked(o, its, open), ~ValueError(o, its),
           NEW moot
    PROVE  AsAsked(o, SelectRandomTests(o, its), open, moot)
  <1> DEFINE last == SelectRandomTests(o, its)
             few == Given(o, "random") /\ o.random < Cardinality(Wanted(o, open))
  <1>1. Fine(its) /\ Len(its) \in Nat /\ o.random \in Nat
    BY CardinalityIs DEF LeftAsAsked, Options
  <1>2. /\ IsFiniteSet(Wanted(o, open)) /\ Cardinality(Wanted(o, open)) \in Nat
        /\ ToSet(its) \subseteq Wanted(o, open) => Len(its) <= Cardinality(Wanted(o, open))
    <2>1. IsFiniteSet(Wanted(o, open))
      BY SuiteIsFine, FS_Subset DEF Wanted
    <2>2. Cardinality(ToSet(its)) = Len(its)
      BY <1>1, CardinalityIs
    <2>3. Cardinality(Wanted(o, open)) \in Nat
      BY <2>1, FS_CardinalityType
    <2>4. ToSet(its) \subseteq Wanted(o, open) => Cardinality(ToSet(its)) <= Cardinality(Wanted(o, open))
      BY <2>1, FS_Subset
    <2> QED  BY <2>1, <2>2, <2>3, <2>4
  <1>3. /\ Fine(last) /\ ToSet(last) \subseteq ToSet(its) /\ Cardinality(ToSet(last)) = Len(last)
        /\ IF Given(o, "random") /\ o.random < Len(its) THEN Len(last) = o.random ELSE last = its
    <2>1. CASE Given(o, "random") /\ o.random < Len(its)
      <3>1. last = SubSeq(Reverse(its), 1, o.random)
        BY <2>1 DEF SelectRandomTests
      <3>2. Fine(last) /\ ToSet(last) \subseteq ToSet(its) /\ Len(last) = o.random
        BY <1>1, <2>1, <3>1, SampleIs
      <3> HIDE DEF last
      <3> QED  BY <2>1, <3>2, CardinalityIs
    <2>2. CASE ~(Given(o, "random") /\ o.random < Len(its))
      <3>1. last = its
        BY <2>2 DEF SelectRandomTests
      <3> HIDE DEF last
      <3> QED  BY <1>1, <2>2, <3>1, CardinalityIs
    <2> QED  BY <2>1, <2>2
  <1> HIDE DEF last
  <1>4. IsInjective(last)
    BY <1>3 DEF Fine
  <1>5. ToSet(last) \subseteq Wanted(o, open) \/ \A t \in ToSet(last) : ~FitsInfra(o, t)
    BY <1>3 DEF LeftAsAsked
  <1> DEFINE Nonunit == {t \in Wanted(o, open) : ~Has(t, "unit")}
  <1>a. AsAsked(o, last, open, moot) <=>
            /\ IsInjective(last)
            /\ ToSet(last) \subseteq Wanted(o, open) \/ \A t \in ToSet(last) : ~FitsInfra(o, t)
            /\ few => Cardinality(ToSet(last)) >= o.random
            /\ ~few => Nonunit \ moot \subseteq ToSet(last)
    BY Zenon DEF AsAsked, Wanted
  <1>f. \A t \in Wanted(o, open) : FitsInfra(o, t)
    BY DEF Wanted, IsWanted
  <1>6. few => AsAsked(o, last, open, moot)
    <2> SUFFICES ASSUME few  PROVE AsAsked(o, last, open, moot)
      OBVIOUS
    <2>1. Len(last) >= o.random
      BY <1>1, <1>3 DEF ValueError
    <2>2. Cardinality(ToSet(last)) >= o.random
      BY <1>3, <2>1
    <2> QED  BY <1>4, <1>5, <1>a, <2>2
  <1>7. ~few => AsAsked(o, last, open, moot)
    <2> SUFFICES ASSUME ~few  PROVE AsAsked(o, last, open, moot)
      OBVIOUS
    <2>1. {t \in Wanted(o, open) : ~Has(t, "unit")} \subseteq ToSet(last)
      <3>1. CASE last = its
        BY <3>1 DEF LeftAsAsked
      <3>2. CASE last # its
        <4>1. ~(ToSet(its) \subseteq Wanted(o, open))
          BY <1>1, <1>2, <1>3, <3>2
        <4>2. \A t \in Wanted(o, open) : Has(t, "unit")
          BY <1>f, <4>1 DEF LeftAsAsked
        <4> QED  BY <4>2
      <3> QED  BY <3>1, <3>2
    <2> QED  BY <1>4, <1>5, <1>a, <2>1
  <1> QED  BY <1>6, <1>7 DEF last

-----------------------------------------------------------------------------
(* What a worker has collected.                                            *)

\* A worker that has been through the first hooks knows enough of the issues of every test.
Answered(w) ==
    \A t \in Base(options) :
        AsksAbout(options, t) => HasAnswer(t, DOMAIN memory[w], Open(w))

HooksInv ==
    \A w \in Worker :
        /\ at[w] = "metadata" => Fine(items[w]) /\ ToSet(items[w]) = Base(options)
        /\ at[w] = "issues" => Answered(w) /\ LeftAsAsked(options, items[w], Open(w))

OneMore(known, open, i, more) ==
    open \subseteq known /\ i \notin known /\ more \in {open, open \cup {i}}
Settled(t, known, open) == AsksAbout(options, t) => HasAnswer(t, known, open)
SameWish(t, open, more) == IsWanted(options, t, open) <=> IsWanted(options, t, more)

\* To know one more issue changes no answer that a worker has, and no test that is wanted.
LEMMA AnswersStay ==
    ASSUME NEW t, NEW known, NEW open, NEW i, NEW more, OneMore(known, open, i, more),
           Settled(t, known, open)
    PROVE  Settled(t, known \cup {i}, more) /\ SameWish(t, open, more)
  <1> USE DEF OneMore, Settled, SameWish
  <1> DEFINE blockers == About[t].blocked_by
  <1>1. CASE ~AsksAbout(options, t)
    BY <1>1 DEF AsksAbout, IsWanted
  <1>2. CASE AsksAbout(options, t) /\ ToSet(blockers) \subseteq known \ open
    <2>1. ToSet(blockers) \subseteq (known \cup {i}) \ more
      BY <1>2
    <2>2. \A j \in ToSet(blockers) : j \notin open /\ j \notin more
      BY <1>2
    <2>3. HasAnswer(t, known \cup {i}, more)
      BY <2>1 DEF HasAnswer
    <2> HIDE DEF blockers
    <2>4. IsWanted(options, t, open) <=> IsWanted(options, t, more)
      BY <2>2 DEF IsWanted, blockers
    <2> QED  BY <2>3, <2>4
  <1>3. CASE AsksAbout(options, t) /\ ~(ToSet(blockers) \subseteq known \ open)
    <2>1. PICK c \in DOMAIN blockers :
            blockers[c] \in open /\ \A d \in 1..(c - 1) : blockers[d] \in known \ open
      BY <1>3 DEF HasAnswer
    <2>2. blockers[c] \in more /\ \A d \in 1..(c - 1) : blockers[d] \in (known \cup {i}) \ more
      BY <2>1
    <2>3. HasAnswer(t, known \cup {i}, more)
      BY <2>2 DEF HasAnswer
    <2>4. blockers[c] \in ToSet(blockers)
      BY DEF ToSet
    <2>5. ~IsWanted(options, t, open) /\ ~IsWanted(options, t, more)
      BY <1>3, <2>1, <2>2, <2>4 DEF IsWanted, AsksAbout
    <2> QED  BY <2>3, <2>5
  <1> QED  BY <1>1, <1>2, <1>3

\* A worker that learns something in between leaves what it has collected as it was asked for.
LEMMA LearnsKeepsHooks ==
    ASSUME TypeInv, HooksInv, NEW w \in Worker, NEW i \in Asks(w), NEW data, Learns(w, i, data),
           UNCHANGED <<options, at, items>>
    PROVE  HooksInv'
  <1> DEFINE known == DOMAIN memory[w]
  <1>1. memory \in [Worker -> Memory]
    BY DEF TypeInv, TypeOK
  <1>2. i \notin known
    BY AsksUnknown
  <1>3. /\ \A v \in Worker \ {w} : memory'[v] = memory[v]
        /\ DOMAIN memory'[w] = known \cup {i}
        /\ \A j \in known : memory'[w][j] = memory[w][j]
    BY <1>1, <1>2 DEF Learns
  <1>4. Open(w) \subseteq known /\ Open(w)' \in {Open(w), Open(w) \cup {i}}
    BY <1>2, <1>3 DEF Open
  <1>5. \A v \in Worker \ {w} : Open(v)' = Open(v)
    BY <1>3 DEF Open
  <1>6. Base(options)' = Base(options)
    OBVIOUS
  <1>7. ASSUME at[w] = "issues"
        PROVE  Answered(w)' /\ LeftAsAsked(options, items[w], Open(w)')
    <2>1. Answered(w) /\ LeftAsAsked(options, items[w], Open(w))
      BY <1>7 DEF HooksInv
    <2>2. \A t \in Base(options) :
            /\ AsksAbout(options, t) => HasAnswer(t, known \cup {i}, Open(w)')
            /\ IsWanted(options, t, Open(w)) <=> IsWanted(options, t, Open(w)')
      <3> SUFFICES ASSUME NEW t \in Base(options)
                   PROVE  /\ AsksAbout(options, t) => HasAnswer(t, known \cup {i}, Open(w)')
                          /\ IsWanted(options, t, Open(w)) <=> IsWanted(options, t, Open(w)')
        OBVIOUS
      <3>1. Settled(t, known, Open(w))
        BY <2>1 DEF Answered, Settled
      <3>2. PICK more : more = Open(w)'
        OBVIOUS
      <3>3. OneMore(known, Open(w), i, more)
        BY <1>2, <1>4, <3>2 DEF OneMore
      <3>4. Settled(t, known \cup {i}, more) /\ SameWish(t, Open(w), more)
        BY <3>1, <3>3, AnswersStay
      <3> QED  BY <3>2, <3>4 DEF Settled, SameWish
    <2>3. \A open : \A t \in ToSet(Suite) \ Base(options) : ~IsWanted(options, t, open)
      BY DEF Base, IsWanted
    <2>4. Wanted(options, Open(w)) = Wanted(options, Open(w)')
      BY <2>2, <2>3 DEF Wanted
    <2>5. LeftAsAsked(options, items[w], Open(w)')
      BY <2>1, <2>4 DEF LeftAsAsked
    <2>6. Answered(w)'
      <3>1. ASSUME NEW t \in Base(options)', AsksAbout(options, t)'
            PROVE  HasAnswer(t, DOMAIN memory[w], Open(w))'
        <4>1. t \in Base(options) /\ AsksAbout(options, t)
          BY <1>6, <3>1
        <4>2. HasAnswer(t, known \cup {i}, Open(w)')
          BY <2>2, <4>1
        <4> QED  BY <1>3, <4>2
      <3> QED  BY <3>1 DEF Answered
    <2> QED  BY <2>5, <2>6
  <1>8. ASSUME NEW v \in Worker \ {w}, at[v] = "issues"
        PROVE  Answered(v)' /\ LeftAsAsked(options, items[v], Open(v)')
    <2>1. Answered(v) /\ LeftAsAsked(options, items[v], Open(v))
      BY <1>8 DEF HooksInv
    <2>2. Answered(v)'
      BY <1>3, <1>5, <1>6, <2>1 DEF Answered, AsksAbout, OfComponent, Verifies, Given
    <2> QED  BY <1>5, <2>1, <2>2
  <1>9. \A v \in Worker : at[v] = "metadata" => Fine(items[v]) /\ ToSet(items[v]) = Base(options)
    BY DEF HooksInv
  <1> QED
    BY <1>6, <1>7, <1>8, <1>9 DEF HooksInv, LeftAsAsked, Wanted, IsWanted

\* What HooksInv says of a worker, from where it is and what it has.
HooksAt(place, its, known, open) ==
    /\ place = "metadata" => Fine(its) /\ ToSet(its) = Base(options)
    /\ place = "issues" => /\ \A t \in Base(options) : Settled(t, known, open)
                           /\ LeftAsAsked(options, its, open)

LEMMA HooksIs ==
    HooksInv <=> \A w \in Worker : HooksAt(at[w], items[w], DOMAIN memory[w], Open(w))
  BY DEF HooksInv, HooksAt, Answered, Settled

\* The steps of one worker that leave what others have alone.
LEMMA OthersKeepHooks ==
    ASSUME HooksInv, NEW w \in Worker, options' = options,
           \A v \in Worker \ {w} : at'[v] = at[v] /\ items'[v] = items[v] /\ memory'[v] = memory[v],
           HooksAt(at[w], items[w], DOMAIN memory[w], Open(w))'
    PROVE  HooksInv'
  <1> SUFFICES ASSUME NEW v \in Worker
               PROVE  HooksAt(at[v], items[v], DOMAIN memory[v], Open(v))'
    BY HooksIs DEF HooksInv, HooksAt, Answered, Settled
  <1>1. CASE v = w
    BY <1>1
  <1>2. CASE v # w
    <2>1. Open(v)' = Open(v)
      BY <1>2 DEF Open
    <2>2. HooksAt(at[v], items[v], DOMAIN memory[v], Open(v))
      BY HooksIs
    <2>3. \A place, its, known, open :
             HooksAt(place, its, known, open)' <=> HooksAt(place, its, known, open)
      BY DEF HooksAt, Settled, AsksAbout, OfComponent, Verifies, Given
    <2>4. at'[v] = at[v] /\ items'[v] = items[v] /\ memory'[v] = memory[v]
      BY <1>2
    <2> QED  BY <2>1, <2>2, <2>3, <2>4 DEF HooksAt, Settled
  <1> QED  BY <1>1, <1>2

LEMMA ElsewhereKeepsHooks ==
    ASSUME HooksInv, NEW w \in Worker, options' = options, at'[w] \notin {"metadata", "issues"},
           \A v \in Worker \ {w} : at'[v] = at[v] /\ items'[v] = items[v] /\ memory'[v] = memory[v]
    PROVE  HooksInv'
  <1>1. HooksAt(at[w], items[w], DOMAIN memory[w], Open(w))'
    BY DEF HooksAt
  <1> QED  BY <1>1, OthersKeepHooks

LEMMA HooksStep == TypeInv /\ HooksInv /\ [Next]_vars => HooksInv'
  <1> SUFFICES ASSUME TypeInv, HooksInv, [Next]_vars
               PROVE  HooksInv'
    OBVIOUS
  <1>o. options' = options
    BY Constant
  <1>t. at \in [Worker -> Place] /\ DOMAIN items = Worker /\ memory \in [Worker -> Memory]
    BY DEF TypeInv, TypeOK
  <1>1. ASSUME NEW w \in Worker, Load(w) PROVE HooksInv'
    <2>1. \A v \in Worker \ {w} : at'[v] = at[v] /\ items'[v] = items[v] /\ memory'[v] = memory[v]
      BY <1>1, <1>t DEF Load, Loses
    <2>2. CASE file.state \in {"empty", "garbled"}
      <3>1. at'[w] \notin {"metadata", "issues"}
        BY <1>1, <1>t, <2>2 DEF Load, Loses
      <3> QED  BY <1>o, <2>1, <3>1, ElsewhereKeepsHooks
    <2>3. CASE file.state \notin {"empty", "garbled"}
      <3>1. at'[w] = "metadata" /\ items'[w] \in Reruns(options, Suite)
        BY <1>1, <1>t, <2>3 DEF Load
      <3>2. Fine(items'[w]) /\ ToSet(items'[w]) = Base(options)
        BY <3>1, RerunsAre
      <3>3. HooksAt(at[w], items[w], DOMAIN memory[w], Open(w))'
        BY <1>o, <3>1, <3>2 DEF HooksAt
      <3> QED  BY <1>o, <2>1, <3>3, OthersKeepHooks
    <2> QED  BY <2>2, <2>3
  <1>2. ASSUME NEW w \in Worker, Fetch(w) \/ FetchTimedOut(w) PROVE HooksInv'
    <2>1. PICK i \in Asks(w) : \E data : Learns(w, i, data)
      BY <1>2 DEF Fetch, FetchTimedOut
    <2>2. UNCHANGED <<options, at, items>>
      BY <1>2, <1>o DEF Fetch, FetchTimedOut
    <2> QED  BY <2>1, <2>2, LearnsKeepsHooks
  <1>3. ASSUME NEW w \in Worker, EndMetadata(w) PROVE HooksInv'
    <2> DEFINE left == MetadataMarkers(items[w], Deselected(options, items[w], Open(w)))
    <2>1. /\ \A v \in Worker \ {w} : at'[v] = at[v] /\ items'[v] = items[v] /\ memory'[v] = memory[v]
          /\ memory'[w] = memory[w] /\ Open(w)' = Open(w)
      BY <1>3, <1>t DEF EndMetadata, cache, Open
    <2>2. \/ at'[w] = "raised"
          \/ /\ ~ConfigurationException(options, InBetween(options, left))
             /\ at'[w] = "issues" /\ items'[w] = ToTheIssues(options, left)
      BY <1>3, <1>t DEF EndMetadata
    <2>3. CASE at'[w] = "raised"
      BY <1>o, <2>1, <2>3, ElsewhereKeepsHooks
    <2>4. CASE at'[w] = "issues"
      <3>1. Fine(items[w]) /\ ToSet(items[w]) = Base(options)
        BY <1>3 DEF EndMetadata, HooksInv
      <3>2. \A t \in Base(options) : Settled(t, DOMAIN memory[w], Open(w))
        BY <1>3, <3>1 DEF EndMetadata, Settled
      <3>3. ~ConfigurationException(options, InBetween(options, left))
            /\ items'[w] = ToTheIssues(options, left)
        BY <2>2, <2>4
      <3>4. LeftAsAsked(options, items'[w], Open(w))
        <4> HIDE DEF left
        <4>1. LeftAsAsked(options, ToTheIssues(options, left), Open(w))
          BY <3>1, <3>3, ToTheIssuesIs DEF left
        <4> QED  BY <3>3, <4>1
      <3> HIDE DEF left
      <3>5. HooksAt(at[w], items[w], DOMAIN memory[w], Open(w))'
        BY <1>o, <2>1, <2>4, <3>2, <3>4 DEF HooksAt, Settled
      <3> QED  BY <1>o, <2>1, <3>5, OthersKeepHooks
    <2> QED  BY <2>2, <2>3, <2>4
  <1>4. ASSUME NEW w \in Worker, EndIssues(w) \/ SessionFinish(w) \/ Finish(w) \/ Crash(w)
        PROVE  HooksInv'
    <2>1. /\ at'[w] \notin {"metadata", "issues"}
          /\ \A v \in Worker \ {w} : at'[v] = at[v] /\ items'[v] = items[v] /\ memory'[v] = memory[v]
      BY <1>4, <1>t DEF EndIssues, SessionFinish, Finish, Crash, Loses, Works, cache
    <2> QED  BY <1>o, <2>1, ElsewhereKeepsHooks
  <1>5. ASSUME UNCHANGED <<at, items, memory>> PROVE HooksInv'
    BY <1>5, <1>o DEF HooksInv, Answered, Open
  <1>6. ASSUME NEW w \in Worker, Truncate(w) \/ WriteBack(w) \/ RunTest(w) \/ Report(w)
        PROVE  HooksInv'
    BY <1>5, <1>6 DEF Truncate, WriteBack, RunTest, Report, cache
  <1>7. CASE Distribute \/ JiraChanges \/ UNCHANGED vars
    BY <1>5, <1>7 DEF Distribute, JiraChanges, vars, cache
  <1> QED
    BY <1>1, <1>2, <1>3, <1>4, <1>6, <1>7 DEF Next, Step

\* When a worker has been through all the hooks, what is left are the tests that all options
\* ask for, each once, but that tests skipped for an issue which will not be fixed may be
\* among them or not: of any collection, and whatever the other workers do to the cache.
THEOREM CollectedAsAsked == Spec => CollectionAsAsked
  <1>1. Init => HooksInv
    BY DEF Init, HooksInv
  <1>2. ASSUME TypeInv, HooksInv, [Next]_vars
        PROVE  [\A w \in Worker : at[w] # "collected" /\ at'[w] = "collected" =>
                    AsAsked(options, items'[w], Open(w), Moot(w))]_vars
    <2> SUFFICES ASSUME NEW w \in Worker, at[w] # "collected", at'[w] = "collected"
                 PROVE  AsAsked(options, items'[w], Open(w), Moot(w))
      OBVIOUS
    <2>t. at \in [Worker -> Place] /\ DOMAIN items = Worker /\ options \in Options
      BY <1>2, ConstantsAssumption DEF TypeInv, TypeOK
    <2>1. EndIssues(w)
      <3>1. at' # at
        OBVIOUS
      <3>2. PICK v \in Worker : Step(v)
        BY <1>2, <3>1 DEF Next, Distribute, JiraChanges, vars
      <3>3. v = w
        BY <2>t, <3>2 DEF Step, Load, Loses, Fetch, FetchTimedOut, Truncate, WriteBack, EndMetadata,
           EndIssues, RunTest, SessionFinish, Report, Finish, Crash, Works
      <3>4. ~Load(w) /\ ~EndMetadata(w) /\ ~SessionFinish(w) /\ ~Finish(w) /\ ~Crash(w)
        BY <2>t DEF Load, Loses, EndMetadata, SessionFinish, Finish, Crash
      <3> QED  BY <3>1, <3>2, <3>3, <3>4 DEF Step, Fetch, FetchTimedOut, Truncate, WriteBack, RunTest, Report
    <2>2. LeftAsAsked(options, items[w], Open(w))
      BY <1>2, <2>1 DEF EndIssues, HooksInv
    <2>3. ~ValueError(options, items[w]) /\ items'[w] = SelectRandomTests(options, items[w])
      BY <2>1, <2>t DEF EndIssues
    <2> QED  BY <2>2, <2>3, <2>t, SelectRandomTestsIs
  <1>3. HooksInv /\ TypeInv /\ [Next]_vars => HooksInv'
    BY HooksStep
  <1>4. Spec => []TypeInv
    BY TypeInit, TypeStep, PTL DEF Spec
  <1> QED  BY <1>1, <1>2, <1>3, <1>4, PTL DEF Spec, CollectionAsAsked
=============================================================================
