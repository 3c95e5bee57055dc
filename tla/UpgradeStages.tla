---------------------------- MODULE UpgradeStages ----------------------------
(***************************************************************************)
(* tests/upgrades/conftest.py: the two runs of pytest around an upgrade.   *)
(* The pre_upgrade run and the post_upgrade run share nothing but three    *)
(* files: the hosts that the pre_upgrade tests ran on                      *)
(* (upgrade_workers.json), the data they saved for the post_upgrade tests  *)
(* (scenario_entities) and the tests that failed, which the first run      *)
(* removes when it begins and writes when it ends.                         *)
(*                                                                         *)
(* A Test stands for a pre_upgrade test and the post_upgrade test that     *)
(* depends on it.  Several xdist workers run the tests of a stage.  The    *)
(* first two files are read, changed and written back by the workers; only *)
(* for the data there is a lock, that of FunctionLocker, which excludes    *)
(* other workers only if a common scope has been set.                      *)
(***************************************************************************)
EXTENDS Naturals, FiniteSets

CONSTANTS
    Worker, Test,
    NoWorker, NoTest,
    NoFile,      \* the file does not exist
    Torn,        \* truncated, its text not yet written
    Mixed,       \* two workers have written one over the other
    MaxCrashes   \* bound: workers killed, and pre_upgrade runs killed

HostEntry == {"absent", "gone", "current"}  \* "gone": no longer in the settings
DataEntry == {"absent", "old", "new"}       \* "old": saved by an earlier run

ASSUME ConstantsAssumption ==
    /\ NoTest \notin Test /\ NoWorker \notin Worker
    /\ Torn # NoFile /\ Mixed # NoFile
    /\ {Torn, Mixed, NoFile} \cap [Test -> HostEntry \cup DataEntry] = {}
    /\ MaxCrashes \in Nat

VARIABLES
    stage,        \* "start", "pre", "between", "post" or "end"
    hostsFile, dataFile, failedFile,
    failedTests,  \* pre_upgrade_failed_tests, in the memory of the second run
    lock,         \* the worker inside of _save_test_data, if the scope is common
    todo,         \* tests not yet given to a worker in this stage
    at, pc, buf,  \* a worker's test, where it is in it, and what it will write
    result,       \* of the pre_upgrade tests
    outcome,      \* of the post_upgrade tests
    given,        \* what pre_upgrade_data has returned to each of them
    started,      \* history: the pre_upgrade tests that a worker has begun
    commonScope,  \* configuration: the function locker has a common scope
    leftover,     \* configuration: there are files of earlier runs
    saving,       \* the tests that use save_test_data, and then pre_upgrade_data
    crashes

files   == <<hostsFile, dataFile, failedFile>>
workers == <<lock, at, pc, buf>>
reports == <<result, outcome, given>>
config  == <<commonScope, leftover, saving>>
vars == <<stage, files, failedTests, workers, todo, reports, started, config, crashes>>

Old(entry) == [t \in Test |-> entry]
Unreadable == {Torn, Mixed}
Loaded(f) == IF f = NoFile THEN [t \in Test |-> "absent"] ELSE f

Init ==
    /\ stage = "start" /\ failedTests = {} /\ lock = NoWorker /\ todo = {}
    /\ at = [w \in Worker |-> NoTest] /\ pc = [w \in Worker |-> "idle"]
    /\ buf = [w \in Worker |-> NoFile]
    /\ result = [t \in Test |-> "none"] /\ outcome = [t \in Test |-> "none"]
    /\ given = [t \in Test |-> "absent"] /\ started = {} /\ crashes = 0
    /\ commonScope \in BOOLEAN /\ leftover \in BOOLEAN /\ saving \in SUBSET Test
    /\ IF leftover
       THEN /\ hostsFile \in {Old("gone"), Old("current")} /\ dataFile = Old("old")
            /\ failedFile = Test
       ELSE hostsFile = NoFile /\ dataFile = NoFile /\ failedFile = NoFile

-----------------------------------------------------------------------------
(* The pre_upgrade run.                                                    *)

\* __initiate() when pre_upgrade is selected: what it does to the list.
Begin == failedFile' = NoFile

StartPre ==
    /\ stage = "start" /\ stage' = "pre"
    /\ Begin
    /\ todo' = Test
    /\ UNCHANGED <<hostsFile, dataFile, failedTests, workers, reports, started, config, crashes>>

Goto(w, to) == pc' = [pc EXCEPT ![w] = to]

\* A worker is given a test.
Take(w, t) ==
    /\ stage \in {"pre", "post"} /\ pc[w] = "idle" /\ t \in todo
    /\ todo' = todo \ {t} /\ at' = [at EXCEPT ![w] = t]
    /\ Goto(w, IF stage = "pre" THEN "record" ELSE "setup")
    /\ started' = IF stage = "pre" THEN started \cup {t} ELSE started
    /\ UNCHANGED <<stage, files, failedTests, lock, buf, reports, config, crashes>>

\* A worker's test ends in the pre_upgrade run.
Report(w, r) ==
    /\ result' = [result EXCEPT ![at[w]] = r]
    /\ at' = [at EXCEPT ![w] = NoTest] /\ Goto(w, "idle")
    /\ UNCHANGED <<outcome, given>>

Stays == UNCHANGED <<stage, failedFile, failedTests, todo, started, config, crashes>>

\* save_worker_hostname() reads the file, without any lock ...
RecordHost(w) ==
    /\ pc[w] = "record"
    /\ \/ hostsFile \in Unreadable /\ Report(w, "failed") /\ UNCHANGED buf
       \/ /\ hostsFile \notin Unreadable
          /\ buf' = [buf EXCEPT ![w] = [Loaded(hostsFile) EXCEPT ![at[w]] = "current"]]
          /\ Goto(w, "openHosts") /\ UNCHANGED <<reports, at>>
    /\ Stays /\ UNCHANGED <<hostsFile, dataFile, lock>>

\* ... and write_text() truncates it and writes it.
OpenHosts(w) ==
    /\ pc[w] = "openHosts" /\ Goto(w, "writeHosts")
    /\ hostsFile' = Torn
    /\ Stays /\ UNCHANGED <<dataFile, lock, at, buf, reports>>

\* What is there once w has written: two that have both opened the file may write
\* one text over the other.
Written(f, w) == IF f = Torn THEN {buf[w]} ELSE {buf[w], Mixed}

WriteHosts(w) ==
    /\ pc[w] = "writeHosts" /\ Goto(w, "body")
    /\ hostsFile' \in Written(hostsFile, w)
    /\ buf' = [buf EXCEPT ![w] = NoFile]
    /\ Stays /\ UNCHANGED <<dataFile, lock, at, reports>>

\* Mutant: every process has a lock of its own, whatever the scope.
MayEnter_PerProcess(w) == TRUE

\* The lock of _save_test_data.
MayEnter(w) == commonScope => lock = NoWorker

\* The test calls save_test_data, that is _save_test_data, which is locked.
Save(w) ==
    /\ stage = "pre" /\ pc[w] = "body" /\ at[w] \in saving
    /\ Goto(w, "enter")
    /\ Stays /\ UNCHANGED <<hostsFile, dataFile, lock, buf, reports, at>>

\* create_dict() reads the file ...
ReadData(w) ==
    /\ pc[w] = "enter"
    /\ MayEnter(w)
    /\ \/ dataFile \in Unreadable /\ Report(w, "failed") /\ UNCHANGED <<lock, buf>>
       \/ /\ dataFile \notin Unreadable
          /\ lock' = IF commonScope THEN w ELSE NoWorker
          /\ buf' = [buf EXCEPT ![w] = [Loaded(dataFile) EXCEPT ![at[w]] = "new"]]
          /\ Goto(w, "openData") /\ UNCHANGED <<reports, at>>
    /\ Stays /\ UNCHANGED <<hostsFile, dataFile>>

OpenData(w) ==
    /\ pc[w] = "openData" /\ Goto(w, "writeData")
    /\ dataFile' = Torn
    /\ Stays /\ UNCHANGED <<hostsFile, lock, at, buf, reports>>

\* Mutant: the lock is never released.
Unlock_Never(w) == lock

\* Who has the lock once w has left _save_test_data.
Unlock(w) == IF lock = w THEN NoWorker ELSE lock

\* ... and writes it, and leaves the lock.
WriteData(w) ==
    /\ pc[w] = "writeData" /\ Goto(w, "saved")
    /\ dataFile' \in Written(dataFile, w)
    /\ lock' = Unlock(w)
    /\ buf' = [buf EXCEPT ![w] = NoFile]
    /\ Stays /\ UNCHANGED <<hostsFile, at, reports>>

\* The rest of the test: one that saves data passes only after that. A skip mark,
\* or an exception in another fixture, ends it before anything is recorded.
EndPreTest(w) ==
    /\ stage = "pre" /\ pc[w] \in {"record", "body", "saved"}
    /\ \E r \in {"passed", "failed", "skipped"} :
            /\ r = "passed" => pc[w] = IF at[w] \in saving THEN "saved" ELSE "body"
            /\ Report(w, r)
    /\ Stays /\ UNCHANGED <<hostsFile, dataFile, lock, buf>>

\* pytest_terminal_summary(): every test that did not pass.
EndPre ==
    /\ stage = "pre" /\ todo = {} /\ \A w \in Worker : pc[w] = "idle"
    /\ stage' = "between"
    /\ failedFile' = {t \in Test : result[t] # "passed"}
    /\ UNCHANGED <<hostsFile, dataFile, failedTests, workers, todo, reports, started,
                   config, crashes>>

-----------------------------------------------------------------------------
(* Workers and runs that are killed leave the files as they are.           *)

\* xdist reports the test as failed and starts another worker.
KillWorker(w) ==
    /\ pc[w] # "idle" /\ crashes < MaxCrashes /\ crashes' = crashes + 1
    /\ IF stage = "pre"
       THEN result' = [result EXCEPT ![at[w]] = "failed"] /\ UNCHANGED outcome
       ELSE outcome' = [outcome EXCEPT ![at[w]] = "errored"] /\ UNCHANGED result
    /\ lock' = IF lock = w THEN NoWorker ELSE lock
    /\ at' = [at EXCEPT ![w] = NoTest] /\ Goto(w, "idle")
    /\ buf' = [buf EXCEPT ![w] = NoFile]
    /\ UNCHANGED <<stage, files, failedTests, todo, given, started, config>>

\* The whole pre_upgrade run, before its summary.
KillPre ==
    /\ stage = "pre" /\ crashes < MaxCrashes /\ crashes' = crashes + 1
    /\ stage' = "between" /\ todo' = {} /\ lock' = NoWorker
    /\ at' = [w \in Worker |-> NoTest] /\ pc' = [w \in Worker |-> "idle"]
    /\ buf' = [w \in Worker |-> NoFile]
    /\ UNCHANGED <<files, failedTests, reports, started, config>>

-----------------------------------------------------------------------------
(* The post_upgrade run.                                                   *)

StartPost ==
    /\ stage = "between" /\ stage' = "post"
    /\ failedTests' = IF failedFile = NoFile THEN {} ELSE failedFile
    /\ todo' = Test
    /\ UNCHANGED <<files, workers, reports, started, config, crashes>>

\* __pytest_node_id of a pre_upgrade test: a list.
NodeIds(t) == <<t>>

\* pytest_collection_modifyitems(): whether the test gets the mark "fail", on which
\* post_upgrade_dependant_fail raises. Lists are looked for among strings.
MarkedFail(t) == NodeIds(t) \in failedTests

\* A worker's test ends in the post_upgrade run.
Conclude(w, o) ==
    /\ outcome' = [outcome EXCEPT ![at[w]] = o]
    /\ at' = [at EXCEPT ![w] = NoTest] /\ Goto(w, "idle")

\* Mutant: a test whose host was not recorded runs anyway.
HostKnown_Always(w) == TRUE

HostKnown(w) == hostsFile[at[w]] = "current"

\* The fixtures of every test: post_upgrade_dependant_fail, shared_workers and
\* set_post_upgrade_hostname.
SetUp(w) ==
    /\ pc[w] = "setup"
    /\ LET broken == MarkedFail(at[w]) \/ hostsFile \in Unreadable \cup {NoFile} IN
       \/ broken /\ Conclude(w, "errored")
       \/ ~broken /\ ~HostKnown(w) /\ Conclude(w, "skipped")
       \/ ~broken /\ HostKnown(w) /\ Goto(w, "data") /\ UNCHANGED <<at, outcome>>
    /\ Stays /\ UNCHANGED <<hostsFile, dataFile, lock, buf, result, given>>

\* pre_upgrade_data: without a value there is nothing to make a Box of.
GetData(w) ==
    /\ pc[w] = "data"
    /\ LET entry == IF dataFile \in Unreadable THEN "absent" ELSE Loaded(dataFile)[at[w]] IN
       \/ /\ at[w] \notin saving
          /\ Goto(w, "body") /\ UNCHANGED <<given, at, outcome>>
       \/ /\ at[w] \in saving /\ entry = "absent"
          /\ Conclude(w, "errored") /\ UNCHANGED given
       \/ /\ at[w] \in saving /\ entry # "absent"
          /\ given' = [given EXCEPT ![at[w]] = entry]
          /\ Goto(w, "body") /\ UNCHANGED <<at, outcome>>
    /\ Stays /\ UNCHANGED <<hostsFile, dataFile, lock, buf, result>>

EndPostTest(w) ==
    /\ stage = "post" /\ pc[w] = "body"
    /\ Conclude(w, "ran")
    /\ UNCHANGED <<hostsFile, dataFile, lock, buf, result, given>> /\ Stays

EndPost ==
    /\ stage = "post" /\ todo = {} /\ \A w \in Worker : pc[w] = "idle"
    /\ stage' = "end"
    /\ UNCHANGED <<files, failedTests, workers, todo, reports, started, config, crashes>>

-----------------------------------------------------------------------------
Controller == StartPre \/ EndPre \/ StartPost \/ EndPost

Step(w) ==
    \/ \E t \in Test : Take(w, t)
    \/ RecordHost(w) \/ OpenHosts(w) \/ WriteHosts(w)
    \/ Save(w) \/ ReadData(w) \/ OpenData(w) \/ WriteData(w) \/ EndPreTest(w)
    \/ SetUp(w) \/ GetData(w) \/ EndPostTest(w)

Next == Controller \/ (\E w \in Worker : Step(w) \/ KillWorker(w)) \/ KillPre

Spec == Init /\ [][Next]_vars

\* pytest goes on with the next test, and its workers with theirs.
FairSpec == Spec /\ WF_vars(Controller) /\ \A w \in Worker : WF_vars(Step(w))

-----------------------------------------------------------------------------
TypeOK ==
    /\ stage \in {"start", "pre", "between", "post", "end"}
    /\ hostsFile \in [Test -> HostEntry] \cup Unreadable \cup {NoFile}
    /\ dataFile \in [Test -> DataEntry] \cup Unreadable \cup {NoFile}
    /\ failedFile \in (SUBSET Test) \cup {NoFile} /\ failedTests \subseteq Test
    /\ \A w \in Worker : pc[w] = "idle" <=> at[w] = NoTest
    /\ lock \in Worker \cup {NoWorker} /\ todo \subseteq Test /\ started \subseteq Test
    /\ at \in [Worker -> Test \cup {NoTest}]
    /\ pc \in [Worker -> {"idle", "record", "openHosts", "writeHosts", "body", "enter", "openData",
                          "writeData", "saved", "setup", "data"}]
    /\ buf \in [Worker -> [Test -> HostEntry \cup DataEntry] \cup {NoFile}]
    /\ result \in [Test -> {"none", "passed", "failed", "skipped"}]
    /\ outcome \in [Test -> {"none", "ran", "errored", "skipped"}]
    /\ given \in [Test -> DataEntry] /\ crashes \in 0..MaxCrashes
    /\ commonScope \in BOOLEAN /\ leftover \in BOOLEAN /\ saving \subseteq Test

\* With a common scope and nobody killed, what a passing pre_upgrade test saved is
\* there for its post_upgrade test, however many workers were saving.
NothingSavedIsLost ==
    commonScope /\ crashes = 0 /\ stage \in {"between", "post", "end"} =>
        \A t \in saving : result[t] = "passed" => dataFile \notin Unreadable /\ dataFile[t] = "new"

\* With a common scope a post_upgrade test whose pre_upgrade test passed is never
\* handed what an earlier pair of runs saved, even if workers or a run are killed.
NoStaleData ==
    commonScope => \A t \in Test : given[t] = "old" => result[t] # "passed"

\* The list of failed tests is that of this pre_upgrade run or empty, never that of
\* an earlier one, even if the run was killed before it wrote its own.
FailedListIsCurrent == \A t \in failedTests : result[t] # "passed"

\* In a fresh directory, no post_upgrade test runs unless its pre_upgrade test was
\* begun, whatever the unlocked writes have done to the file of hosts.
RunsOnlyAfterItsPre ==
    ~leftover => \A t \in Test : outcome[t] = "ran" => t \in started

\* Both runs come to their end: nobody waits for ever to save data.
BothRunsEnd == <>(stage = "end")

\* "if a dependent test fail, the post upgrade test will be errored".
DependentsFail == \A t \in Test : outcome[t] = "ran" => result[t] # "failed"
=============================================================================
