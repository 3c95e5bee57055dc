----------------------------- MODULE Collection -----------------------------
(***************************************************************************)
(* A session of pytest with xdist: every worker loads the file with what   *)
(* is known of Jira's issues (utils/issue_handlers/jira.py), collects the  *)
(* tests (TestSelection), and asks Jira about issues it does not know      *)
(* while it selects among them.  If the workers collected the same, xdist  *)
(* hands the tests out; in the end each worker comments on the issues of   *)
(* the tests it ran (pytest_plugins/jira_comments.py).                     *)
(*                                                                         *)
(* The workers share the file, without a lock: each keeps what it loaded   *)
(* and what it fetched since, and writes all of that over whatever the     *)
(* file holds.                                                             *)
(***************************************************************************)
EXTENDS TestSelection

CONSTANTS
    Worker,
    Suite,            \* the tests in the order pytest collects them
    Session,          \* the sessions considered: a subset of Options
    File, Jira,       \* what the file and Jira may hold when a session starts
    MaxReplacements,  \* xdist: --max-worker-restart
    MaxTroubles       \* bound: kinds of trouble in one session

\* "Testing" stands for the states of settings.jira.issue_status, "New" for those of an
\* open issue, "Wontfix" for a closed one with such a resolution; "" is the default's.
Status == {"New", "Testing", "Wontfix"}
Label == {"none", "passed", "failed"}
Data == [status: Status, label: Label]
Default == [status |-> "", label |-> "none"]
Known == Data \cup {Default}

\* Partial functions from issues to what is known of them.
Memory == UNION {[S -> Known] : S \in SUBSET Issue}
Entry == [data: Known, expired: BOOLEAN]

\* "empty" once truncated, "garbled" if two workers wrote at once.
FileRecord == [state: {"missing", "whole", "empty", "garbled"},
               issues: UNION {[S -> Entry] : S \in SUBSET Issue}]

Place == {"start", "metadata", "issues", "collected", "raised", "reporting", "finished", "lost"}
Trouble == {"timeout", "change", "error", "crash"}

\* No test is collected twice.  The installer test is none of those that sanity_plugin drops.
ASSUME ConstantsAssumption ==
    /\ NoIssue \notin Issue
    /\ About \in [Test -> TestRecord]
    /\ Suite \in Seq(Test) /\ IsInjective(Suite)
    /\ \A t \in ToSet(Suite): IsInstaller(t) => ~Has(t, "parametrized")
    /\ Session \subseteq Options
    /\ File \subseteq FileRecord /\ \A f \in File: f.state # "whole" => DOMAIN f.issues = {}
    /\ Jira \subseteq [Issue -> Data]
    /\ MaxReplacements \in Nat /\ MaxTroubles \in Nat

VARIABLES
    options,    \* of this session
    origin,     \* history: what the file and Jira held at the start
    jira,       \* what Jira holds
    comments,   \* the comments made on issues
    file,       \* settings.jira.cache_file
    at,         \* where a worker is
    memory,     \* its jira_cache.cache
    saves,      \* calls of jira_cache.save() it has yet to make or to complete
    truncated,  \* whether it is inside of write_text()
    items,      \* its collection
    ran,        \* the tests it ran
    failed,     \* those of them that failed and are linked to an issue
    todo,       \* the issues it has yet to report on
    session,    \* xdist: "collecting", "running" or "refused"
    collection, \* what xdist hands out
    gone,       \* tests that were run by workers that crashed
    replaced,   \* workers that xdist replaced
    trouble     \* history: what went wrong; each once

external == <<options, origin, jira, comments>>
cache == <<file, memory, saves, truncated>>
running == <<ran, failed, todo>>
xdist == <<session, collection, gone, replaced>>
vars == <<external, cache, at, items, running, xdist, trouble>>

\* What the hooks make of the tests is left to CollectionAsAsked.
TypeOK ==
    /\ options \in Session
    /\ origin \in [jira: [Issue -> Data], cached: Memory] /\ jira \in [Issue -> Data]
    /\ at \in [Worker -> Place]
    /\ file \in FileRecord /\ memory \in [Worker -> Memory]
    /\ saves \in [Worker -> 0..2] /\ truncated \in [Worker -> BOOLEAN]
    /\ DOMAIN items = Worker /\ DOMAIN ran = Worker
    /\ DOMAIN failed = Worker /\ DOMAIN todo = Worker
    /\ session \in {"collecting", "running", "refused"}
    /\ replaced \in 0..MaxReplacements /\ trouble \subseteq Trouble

MayFail == Cardinality(trouble) < MaxTroubles

Nothing == [i \in {} |-> Default]
IsOpen(data) == data.status \in {"New", ""}
Reportable(data) == data.status = "Testing"
Open(w) == {i \in DOMAIN memory[w]: IsOpen(memory[w][i])}

\* _clean_expired_entries()
Unexpired(issues) ==
    [i \in {j \in DOMAIN issues: ~issues[j].expired} |-> issues[i].data]

Init ==
    /\ options \in Session
    /\ jira \in Jira /\ file \in File
    /\ origin = [jira |-> jira, cached |-> Unexpired(file.issues)]
    /\ comments = {}
    /\ at = [w \in Worker |-> "start"]
    /\ memory = [w \in Worker |-> Nothing]
    /\ saves = [w \in Worker |-> 0] /\ truncated = [w \in Worker |-> FALSE]
    /\ items = [w \in Worker |-> <<>>]
    /\ ran = [w \in Worker |-> {}] /\ failed = [w \in Worker |-> {}]
    /\ todo = [w \in Worker |-> {}]
    /\ session = "collecting" /\ collection = <<>> /\ gone = {} /\ replaced = 0
    /\ trouble = {}

-----------------------------------------------------------------------------
(* The cache of a worker.                                                  *)

\* A worker that is gone is replaced by a new process while there are any left.
Loses(w) ==
    /\ at' = [at EXCEPT ![w] = IF replaced < MaxReplacements THEN "start" ELSE "lost"]
    /\ replaced' = IF replaced < MaxReplacements THEN replaced + 1 ELSE replaced

\* The import of jira.py, and rerun_rp: the first thing a worker does with the tests.
\* json does not parse a file that is empty or garbled: the worker does not come up.
Load(w) ==
    /\ at[w] = "start"
    /\ IF file.state \in {"empty", "garbled"}
       THEN /\ Loses(w)
            /\ UNCHANGED <<memory, items>>
       ELSE /\ memory' = [memory EXCEPT ![w] = Unexpired(file.issues)]
            /\ \E selected \in Reruns(options, Suite): items' = [items EXCEPT ![w] = selected]
            /\ at' = [at EXCEPT ![w] = "metadata"]
            /\ UNCHANGED replaced
    /\ UNCHANGED <<external, file, saves, truncated, running, session, collection, gone, trouble>>

\* The issue of a test that are_any_jira_open() fetches next, if any: it stops at the
\* first that is open.
PendingBlocker(t, known, open) ==
    LET blockers == About[t].blocked_by
    IN  {blockers[b] : b \in {c \in DOMAIN blockers :
            blockers[c] \notin known /\ \A d \in 1..(c - 1): blockers[d] \in known \ open}}

\* Whether it has an answer.
HasAnswer(t, known, open) ==
    LET blockers == About[t].blocked_by
    IN  \/ ToSet(blockers) \subseteq known \ open
        \/ \E c \in DOMAIN blockers:
              blockers[c] \in open /\ \A d \in 1..(c - 1): blockers[d] \in known \ open

First(places) == {k \in places: \A l \in places: k <= l}

NextBlocker(its, known, open) ==
    LET pending(k) == PendingBlocker(its[k], known, open)
    IN  UNION {pending(k) : k \in
            First({l \in DOMAIN its: AsksAbout(options, its[l]) /\ pending(l) # {}})}

\* issue_handlers asks about the Jira key that a skip or deselect marker gives as its
\* reason.
NextReason(its, known) ==
    LET reason(k) == About[its[k]].reason
    IN  {reason(k) : k \in
            First({l \in DOMAIN its: ~Has(its[l], "unit") /\ reason(l) \notin known \cup {NoIssue}})}

Asks(w) ==
    CASE at[w] = "metadata" -> NextBlocker(items[w], DOMAIN memory[w], Open(w))
      [] at[w] = "issues" -> NextReason(items[w], DOMAIN memory[w])
      [] at[w] = "reporting" -> todo[w] \ DOMAIN memory[w]
      [] OTHER -> {}

Learns(w, i, data) ==
    memory' = [memory EXCEPT ![w] = [j \in DOMAIN memory[w] \cup {i} |->
                                        IF j = i THEN data ELSE memory[w][j]]]

\* get_single_jira() of an issue the worker does not know.  Both get_data_jira() and
\* get_single_jira() save what came back; without a key it is the default.
Fetch(w) ==
    /\ saves[w] = 0
    /\ \E i \in Issue:
         /\ i \in Asks(w)
         /\ Learns(w, i, IF Given(options, "jira_api_key") THEN jira[i] ELSE Default)
    /\ saves' = [saves EXCEPT ![w] = 2]
    /\ UNCHANGED <<external, file, truncated, at, items, running, xdist, trouble>>

\* If Jira does not answer in time, only get_single_jira() saves, the default.
FetchTimedOut(w) ==
    /\ saves[w] = 0
    /\ Given(options, "jira_api_key") /\ "timeout" \notin trouble /\ MayFail
    /\ \E i \in Issue: i \in Asks(w) /\ Learns(w, i, Default)
    /\ saves' = [saves EXCEPT ![w] = 1]
    /\ trouble' = trouble \cup {"timeout"}
    /\ UNCHANGED <<external, file, truncated, at, items, running, xdist>>

\* save(): write_text() opens the file, which empties it,
Truncate(w) ==
    /\ saves[w] > 0 /\ ~truncated[w]
    /\ file' = [state |-> "empty", issues |-> [i \in {} |-> {}]]
    /\ truncated' = [truncated EXCEPT ![w] = TRUE]
    /\ UNCHANGED <<external, memory, saves, at, items, running, xdist, trouble>>

\* Mutant: save() writes only what the worker fetched.
Written_Fetched(w) ==
    [state |-> "whole",
     issues |-> [i \in DOMAIN memory[w] \ DOMAIN origin.cached |->
                    [data |-> memory[w][i], expired |-> FALSE]]]

Written(w) ==
    [state |-> "whole",
     issues |-> [i \in DOMAIN memory[w] |-> [data |-> memory[w][i], expired |-> FALSE]]]

\* and writes at its beginning: over what another worker wrote since, of which the end
\* remains if it was longer.
WriteBack(w) ==
    /\ truncated[w]
    /\ \/ file' = Written(w)
       \/ /\ file.state # "empty"
          /\ file' = [state |-> "garbled", issues |-> [i \in {} |-> {}]]
    /\ saves' = [saves EXCEPT ![w] = @ - 1]
    /\ truncated' = [truncated EXCEPT ![w] = FALSE]
    /\ UNCHANGED <<external, memory, at, items, running, xdist, trouble>>

-----------------------------------------------------------------------------
(* The collection.                                                         *)

\* metadata_markers knows enough: it and the hooks up to issue_handlers.
EndMetadata(w) ==
    /\ at[w] = "metadata" /\ saves[w] = 0
    /\ \A t \in ToSet(items[w]):
          AsksAbout(options, t) => HasAnswer(t, DOMAIN memory[w], Open(w))
    /\ LET selected == MetadataMarkers(items[w], Deselected(options, items[w], Open(w)))
       IN  IF ConfigurationException(options, InBetween(options, selected))
           THEN at' = [at EXCEPT ![w] = "raised"] /\ UNCHANGED items
           ELSE /\ at' = [at EXCEPT ![w] = "issues"]
                /\ items' = [items EXCEPT ![w] = ToTheIssues(options, selected)]
    /\ UNCHANGED <<external, cache, running, xdist, trouble>>

\* issue_handlers marks the tests whose reason is a wontfix "deselect": no hook that
\* follows looks at that mark.  The last hook is select_random_tests.
EndIssues(w) ==
    /\ at[w] = "issues" /\ saves[w] = 0 /\ Asks(w) = {}
    /\ IF ValueError(options, items[w])
       THEN at' = [at EXCEPT ![w] = "raised"] /\ UNCHANGED items
       ELSE /\ at' = [at EXCEPT ![w] = "collected"]
            /\ items' = [items EXCEPT ![w] = SelectRandomTests(options, items[w])]
    /\ UNCHANGED <<external, cache, running, xdist, trouble>>

\* xdist: "Different tests were collected" ends the session; so does a hook that raises.
Distribute ==
    /\ session = "collecting"
    /\ LET collected == {w \in Worker: at[w] = "collected"}
           agree == \A v, w \in collected: items[v] = items[w]
       IN  \/ /\ \A w \in Worker: at[w] \in {"collected", "lost"}
              /\ \E w \in collected:
                    IF agree THEN session' = "running" /\ collection' = items[w]
                    ELSE session' = "refused" /\ UNCHANGED collection
           \/ /\ \E w \in Worker: at[w] = "raised"
              /\ session' = "refused"
              /\ UNCHANGED collection
    /\ UNCHANGED <<external, cache, at, items, running, gone, replaced, trouble>>

-----------------------------------------------------------------------------
(* The tests and the reports.                                              *)

\* The issues of pytest_runtest_makereport().
Issues(t) ==
    IF ~Given(options, "jira_comments") THEN {}
    ELSE IF options.jira_comments # {} THEN options.jira_comments
    ELSE About[t].verifies \cup ToSet(About[t].blocked_by)

Remaining ==
    {k \in DOMAIN collection: collection[k] \notin gone \cup UNION {ran[w] : w \in Worker}}

\* Only a worker whose collection is the session's is given tests.
Works(w) == session = "running" /\ at[w] = "collected" /\ items[w] = collection

RunTest(w) ==
    /\ Works(w)
    /\ \E k \in First(Remaining):
         /\ ran' = [ran EXCEPT ![w] = @ \cup {collection[k]}]
         /\ \/ UNCHANGED failed
            \/ /\ Issues(collection[k]) # {}
               /\ failed' = [failed EXCEPT ![w] = @ \cup {collection[k]}]
    /\ UNCHANGED <<external, cache, at, items, todo, xdist, trouble>>

\* pytest_sessionfinish(): issue_to_tests_map has the issues of the tests it ran.
SessionFinish(w) ==
    /\ Works(w) /\ Remaining = {}
    /\ at' = [at EXCEPT ![w] = "reporting"]
    /\ todo' = [todo EXCEPT ![w] = UNION {Issues(t) : t \in ran[w]}]
    /\ UNCHANGED <<external, cache, items, ran, failed, xdist, trouble>>

Outcome(w, i) == IF \E t \in failed[w]: i \in Issues(t) THEN "failed" ELSE "passed"
Comment(w, i) == [issue |-> i, by |-> w, outcome |-> Outcome(w, i)]

\* add_comment_on_jira(): first the labels, then the comment.  An error of either is
\* logged and ends the report of this issue.
AddComment(w, i) ==
    \/ /\ Given(options, "jira_api_key")
       /\ jira' = [jira EXCEPT ![i].label = Outcome(w, i)]
       /\ \/ comments' = comments \cup {Comment(w, i)} /\ UNCHANGED trouble
          \/ /\ "error" \notin trouble /\ MayFail
             /\ trouble' = trouble \cup {"error"}
             /\ UNCHANGED comments
    \/ /\ Given(options, "jira_api_key") => "error" \notin trouble /\ MayFail
       /\ trouble' = trouble \cup {"error"}
       /\ UNCHANGED <<jira, comments>>

\* Mutant: only a change of the label is reported.
IsNews_OnChange(w, i) == memory[w][i].label # Outcome(w, i)

\* A failure is always reported, a success only if the label is not there yet.
IsNews(w, i) == Outcome(w, i) = "failed" \/ memory[w][i].label # "passed"

Report(w) ==
    /\ at[w] = "reporting" /\ saves[w] = 0
    /\ \E i \in todo[w] \cap DOMAIN memory[w]:
         /\ todo' = [todo EXCEPT ![w] = @ \ {i}]
         /\ IF Reportable(memory[w][i]) /\ IsNews(w, i)
            THEN AddComment(w, i)
            ELSE UNCHANGED <<jira, comments, trouble>>
    /\ UNCHANGED <<options, origin, cache, at, items, ran, failed, xdist>>

Finish(w) ==
    /\ at[w] = "reporting" /\ saves[w] = 0 /\ todo[w] = {}
    /\ at' = [at EXCEPT ![w] = "finished"]
    /\ UNCHANGED <<external, cache, items, running, xdist, trouble>>

-----------------------------------------------------------------------------
(* What else happens.                                                      *)

\* A worker is killed, with the test it runs: the file stays as it left it.
Crash(w) ==
    /\ "crash" \notin trouble /\ MayFail
    /\ at[w] \in {"metadata", "issues", "collected"} /\ session # "refused"
    /\ Loses(w)
    /\ IF Works(w) /\ Remaining # {}
       THEN \E k \in First(Remaining): gone' = gone \cup ran[w] \cup {collection[k]}
       ELSE gone' = gone \cup ran[w]
    /\ memory' = [memory EXCEPT ![w] = Nothing] /\ items' = [items EXCEPT ![w] = <<>>]
    /\ saves' = [saves EXCEPT ![w] = 0] /\ truncated' = [truncated EXCEPT ![w] = FALSE]
    /\ ran' = [ran EXCEPT ![w] = {}] /\ failed' = [failed EXCEPT ![w] = {}]
    /\ trouble' = trouble \cup {"crash"}
    /\ UNCHANGED <<external, file, todo, session, collection>>

\* People work on the issues.
JiraChanges ==
    /\ "change" \notin trouble /\ MayFail
    /\ jira' \in Jira
    /\ trouble' = trouble \cup {"change"}
    /\ UNCHANGED <<options, origin, comments, cache, at, items, running, xdist>>

Step(w) ==
    \/ Load(w) \/ Fetch(w) \/ FetchTimedOut(w) \/ Truncate(w) \/ WriteBack(w)
    \/ EndMetadata(w) \/ EndIssues(w)
    \/ RunTest(w) \/ SessionFinish(w) \/ Report(w) \/ Finish(w)
    \/ Crash(w)

Next == (\E w \in Worker: Step(w)) \/ Distribute \/ JiraChanges

Spec == Init /\ [][Next]_vars

-----------------------------------------------------------------------------
(* What the workers make of it.                                            *)

Collected(w) == at[w] \in {"collected", "reporting", "finished"}

\* No request to Jira timed out, and no issue changed while the session ran.
JiraIsSteady == trouble \cap {"timeout", "change"} = {}

\* Workers collect the same tests in the same order, or xdist refuses to run them: it
\* does not matter what each found in the file, who asked Jira first, whose data was
\* lost when another wrote the file, or which worker was started anew.  Sessions with
\* --only-failed are excluded: rerun_rp makes a set of the tests.
WorkersAgree ==
    JiraIsSteady /\ ~Given(options, "only_failed") =>
        \A v, w \in Worker: Collected(v) /\ Collected(w) => items[v] = items[w]

\* A test that the options, its markers and its issues let through.
IsWanted(o, t, open) ==
    /\ Given(o, "only_failed") => t \in o.failed
    /\ Has(t, "unit") \/
        /\ OfComponent(o, t) /\ Verifies(o, t)
        /\ IF Given(o, "blocked_by") THEN \E i \in o.blocked_by: i \in ToSet(About[t].blocked_by)
           ELSE \A i \in ToSet(About[t].blocked_by): i \notin open
    /\ FitsInfra(o, t) /\ ~Has(t, "deselect") /\ OfUpstream(o, t) /\ ForCapsule(o, t)
    /\ ForSanity(o, t) /\ IsAutomated(o, t) /\ IsMarked(o, t)

AsAsked(o, its, open, moot) ==
    LET wanted == {t \in ToSet(Suite): IsWanted(o, t, open)}
        got == ToSet(its)
    IN  /\ IsInjective(its)
        /\ got \subseteq wanted \/ \A t \in got: ~FitsInfra(o, t)
        /\ IF Given(o, "random") /\ o.random < Cardinality(wanted)
           THEN Cardinality(got) >= o.random
           ELSE {t \in wanted: ~Has(t, "unit")} \ moot \subseteq got

\* The tests that are skipped for an issue that, the worker knows, will not be fixed.
Moot(w) ==
    {t \in Test: About[t].reason \in DOMAIN memory[w]
                    /\ memory[w][About[t].reason].status = "Wontfix"}

\* Whatever the order in which a dozen hooks take tests out of the collection, put one
\* in front and fall back to "nothing deselected": what is left at the end are the tests
\* that all of the options ask for, each once, given what the worker knows of the issues.
\* Unit tests may go missing (metadata_markers), and tests that need an infrastructure
\* which is not there stay if nothing else was selected (marker_deselection).  Of tests
\* that are skipped for an issue that will not be fixed it asks nothing:
\* tests/foreman/conftest.py says that they are deselected, but its hook comes before the
\* one that would mark them, so that they stay.
CollectionAsAsked ==
    [][\A w \in Worker: at[w] # "collected" /\ at'[w] = "collected" =>
          AsAsked(options, items'[w], Open(w), Moot(w))]_vars

\* What a worker that ended has to have told Jira.  Its failures: a comment on each
\* issue of a failed test, if what it knows of the issue is a state that is reported.
FailuresAreReported ==
    "error" \notin trouble =>
        \A w \in Worker: \A i \in UNION {Issues(t) : t \in failed[w]} :
            (at[w] = "finished" /\ Reportable(memory[w][i]))
                => [issue |-> i, by |-> w, outcome |-> "failed"] \in comments

SameOutcome(w, i) ==
    \A v \in Worker: i \in UNION {Issues(t) : t \in ran[v]} => Outcome(v, i) = Outcome(w, i)

\* And the label: it is the outcome, if nobody else had another one and if the label
\* that the worker knew was Jira's.
LabelsTellOutcomes ==
    trouble \cap {"error", "change"} = {} =>
        \A w \in Worker: \A i \in UNION {Issues(t) : t \in ran[w]} :
            (/\ at[w] = "finished" /\ Reportable(memory[w][i])
             /\ SameOutcome(w, i)
             /\ i \in DOMAIN origin.cached => origin.cached[i] = origin.jira[i])
                => jira[i].label = Outcome(w, i)

\* Both of them: a session that ends has told Jira about the tests it ran.
OutcomesAreReported == FailuresAreReported /\ LabelsTellOutcomes
=============================================================================
