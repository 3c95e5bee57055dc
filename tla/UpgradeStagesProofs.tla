------------------------- MODULE UpgradeStagesProofs -------------------------
(***************************************************************************)
(* UpgradeStages for any workers, tests and number of kills: the types,    *)
(* that the list of failed tests is never an earlier one, and what a       *)
(* common scope of the function locker does for the saved data.            *)
(***************************************************************************)
EXTENDS UpgradeStages, TLAPS

PC == {"idle", "record", "openHosts", "writeHosts", "body", "enter", "openData",
       "writeData", "saved", "setup", "data"}

\* What a worker is about to write fits the file it writes.
BufInv ==
    \A w \in Worker :
        /\ pc[w] \in {"openHosts", "writeHosts"} => buf[w] \in [Test -> HostEntry]
        /\ pc[w] \in {"openData", "writeData"} => buf[w] \in [Test -> DataEntry]

\* Where a worker is belongs to the stage.
PhaseInv ==
    \A w \in Worker :
        /\ pc[w] # "idle" => stage \in {"pre", "post"}
        /\ pc[w] \in {"record", "openHosts", "writeHosts", "enter", "openData",
                      "writeData", "saved"} => stage = "pre"
        /\ pc[w] \in {"setup", "data"} => stage = "post"

TypeInv == TypeOK /\ BufInv /\ PhaseInv

LEMMA LoadedType ==
    ASSUME NEW f, NEW E, "absent" \in E, f \in [Test -> E] \cup {NoFile}, NEW t \in Test, NEW e \in E
    PROVE  [Loaded(f) EXCEPT ![t] = e] \in [Test -> E]
  BY DEF Loaded

\* The state has the types of TypeOK, in every behaviour.
THEOREM TypeInvariance == Spec => []TypeInv
<1> USE ConstantsAssumption
<1>1. Init => TypeInv
  BY DEF Init, TypeInv, TypeOK, BufInv, PhaseInv, Old, HostEntry, DataEntry
<1>2. TypeInv /\ [Next]_vars => TypeInv'
  <2> SUFFICES ASSUME TypeInv, [Next]_vars PROVE TypeInv'
    OBVIOUS
  <2> USE DEF TypeInv
  <2>1. CASE StartPre
    BY <2>1 DEF StartPre, Begin, TypeOK, BufInv, PhaseInv, workers, reports, config
  <2>2. CASE EndPre
    BY <2>2 DEF EndPre, TypeOK, BufInv, PhaseInv, workers, reports, config
  <2>3. CASE StartPost
    BY <2>3 DEF StartPost, TypeOK, BufInv, PhaseInv, workers, reports, config, files
  <2>4. CASE EndPost
    BY <2>4 DEF EndPost, TypeOK, BufInv, PhaseInv, workers, reports, config, files
  <2>5. ASSUME NEW w \in Worker, NEW t \in Test, Take(w, t) PROVE TypeInv'
    BY <2>5 DEF Take, Goto, TypeOK, BufInv, PhaseInv, reports, config, files
  <2>6. ASSUME NEW w \in Worker, RecordHost(w) PROVE TypeInv'
    <3>1. at[w] \in Test /\ stage = "pre"
      BY <2>6 DEF RecordHost, TypeOK, PhaseInv
    <3>2. hostsFile \notin Unreadable => [Loaded(hostsFile) EXCEPT ![at[w]] = "current"] \in [Test -> HostEntry]
      <4>1. "absent" \in HostEntry /\ "current" \in HostEntry
        BY DEF HostEntry
      <4>2. hostsFile \notin Unreadable => hostsFile \in [Test -> HostEntry] \cup {NoFile}
        BY DEF TypeOK
      <4> QED
        BY <3>1, <4>1, <4>2, LoadedType
    <3>3. CASE hostsFile \in Unreadable
      BY <2>6, <3>1, <3>3 DEF RecordHost, Report, Goto, Stays, config, TypeOK, BufInv, PhaseInv, Unreadable
    <3>4. CASE hostsFile \notin Unreadable
      BY <2>6, <3>1, <3>2, <3>4 DEF RecordHost, Goto, Stays, config, reports, TypeOK, BufInv, PhaseInv
    <3> QED
      BY <3>3, <3>4
  <2>7. ASSUME NEW w \in Worker, OpenHosts(w) \/ OpenData(w) \/ Save(w) PROVE TypeInv'
    BY <2>7 DEF OpenHosts, OpenData, Save, Goto, Stays, config, reports, TypeOK, BufInv, PhaseInv, Unreadable
  <2>8. ASSUME NEW w \in Worker, WriteHosts(w) \/ WriteData(w) PROVE TypeInv'
    <3>1. hostsFile' \in [Test -> HostEntry] \cup Unreadable \cup {NoFile}
      BY <2>8 DEF WriteHosts, WriteData, Written, TypeOK, BufInv, Unreadable
    <3>2. dataFile' \in [Test -> DataEntry] \cup Unreadable \cup {NoFile}
      BY <2>8 DEF WriteHosts, WriteData, Written, TypeOK, BufInv, Unreadable
    <3>3. /\ pc[w] # "idle" /\ stage = "pre" /\ Stays /\ UNCHANGED <<at, reports>>
          /\ buf' = [buf EXCEPT ![w] = NoFile]
          /\ pc' = [pc EXCEPT ![w] = "body"] \/ pc' = [pc EXCEPT ![w] = "saved"]
      BY <2>8 DEF WriteHosts, WriteData, Goto, PhaseInv
    <3>4. lock' \in Worker \cup {NoWorker}
      BY <2>8 DEF WriteHosts, WriteData, Unlock, TypeOK
    <3> QED
      BY <3>1, <3>2, <3>3, <3>4 DEF Stays, config, reports, TypeOK, BufInv, PhaseInv
  <2>9. ASSUME NEW w \in Worker, ReadData(w) PROVE TypeInv'
    <3>1. at[w] \in Test /\ stage = "pre"
      BY <2>9 DEF ReadData, TypeOK, PhaseInv
    <3>2. dataFile \notin Unreadable => [Loaded(dataFile) EXCEPT ![at[w]] = "new"] \in [Test -> DataEntry]
      <4>1. "absent" \in DataEntry /\ "new" \in DataEntry
        BY DEF DataEntry
      <4>2. dataFile \notin Unreadable => dataFile \in [Test -> DataEntry] \cup {NoFile}
        BY DEF TypeOK
      <4> QED
        BY <3>1, <4>1, <4>2, LoadedType
    <3>3. CASE dataFile \in Unreadable
      BY <2>9, <3>1, <3>3 DEF ReadData, Report, Goto, Stays, config, TypeOK, BufInv, PhaseInv, Unreadable
    <3>4. CASE dataFile \notin Unreadable
      BY <2>9, <3>1, <3>2, <3>4 DEF ReadData, Goto, Stays, config, reports, TypeOK, BufInv, PhaseInv
    <3> QED
      BY <3>3, <3>4
  <2>10. ASSUME NEW w \in Worker, EndPreTest(w) PROVE TypeInv'
    BY <2>10 DEF EndPreTest, Report, Goto, Stays, config, TypeOK, BufInv, PhaseInv
  <2>11. ASSUME NEW w \in Worker, SetUp(w) \/ EndPostTest(w) PROVE TypeInv'
    BY <2>11, SMTT(30) DEF SetUp, EndPostTest, Conclude, Goto, Stays, config, TypeOK, BufInv, PhaseInv
  <2>12. ASSUME NEW w \in Worker, GetData(w) PROVE TypeInv'
    <3> DEFINE e == IF dataFile \in Unreadable THEN "absent" ELSE Loaded(dataFile)[at[w]]
    <3>1. at[w] \in Test /\ stage = "post"
      BY <2>12 DEF GetData, TypeOK, PhaseInv
    <3>2. e \in DataEntry
      BY <3>1 DEF Loaded, TypeOK, DataEntry, Unreadable
    <3>3. /\ given' = given \/ given' = [given EXCEPT ![at[w]] = e]
          /\ \/ Conclude(w, "errored")
             \/ Goto(w, "body") /\ UNCHANGED <<at, outcome>>
          /\ Stays /\ UNCHANGED <<hostsFile, dataFile, lock, buf, result>>
      BY <2>12 DEF GetData
    <3> HIDE DEF e
    <3> QED
      BY <2>12, <3>1, <3>2, <3>3 DEF GetData, Conclude, Goto, Stays, config, TypeOK, BufInv, PhaseInv
  <2>13. ASSUME NEW w \in Worker, KillWorker(w) PROVE TypeInv'
    BY <2>13 DEF KillWorker, Goto, files, config, TypeOK, BufInv, PhaseInv
  <2>14. CASE KillPre
    BY <2>14 DEF KillPre, files, reports, config, TypeOK, BufInv, PhaseInv
  <2>15. CASE UNCHANGED vars
    BY <2>15 DEF vars, files, workers, reports, config, TypeOK, BufInv, PhaseInv
  <2> QED
    BY <2>1, <2>2, <2>3, <2>4, <2>5, <2>6, <2>7, <2>8, <2>9, <2>10, <2>11, <2>12, <2>13, <2>14, <2>15
       DEF Next, Controller, Step
<1> QED
  BY <1>1, <1>2, PTL DEF Spec

\* Type correctness for any workers, tests and kills.
THEOREM TypeCorrect == Spec => []TypeOK
<1>1. TypeInv => TypeOK
  BY DEF TypeInv
<1> QED
  BY <1>1, TypeInvariance, PTL

-----------------------------------------------------------------------------
(* The list of failed tests.                                               *)

ListInv ==
    /\ stage \in {"start", "pre", "between"} => failedTests = {}
    /\ stage = "pre" => failedFile = NoFile
    /\ stage \in {"between", "post", "end"} =>
           failedFile = NoFile \/ \A t \in failedFile : result[t] # "passed"
    /\ \A t \in failedTests : result[t] # "passed"

\* The second run never takes a test that passed in the first one for a failed one:
\* the list is of that run or empty, whatever earlier runs and kills have left.
THEOREM ListIsCurrent == Spec => []FailedListIsCurrent
<1>1. Init => ListInv
  BY DEF Init, ListInv
<1>2. TypeInv /\ ListInv /\ [Next]_vars => ListInv'
  <2> SUFFICES ASSUME TypeInv, ListInv, [Next]_vars PROVE ListInv'
    OBVIOUS
  <2>1. CASE StartPre
    BY <2>1 DEF StartPre, Begin, ListInv, reports
  <2>2. CASE EndPre
    BY <2>2 DEF EndPre, ListInv, reports
  <2>3. CASE StartPost
    BY <2>3 DEF StartPost, ListInv, reports, files
  <2>4. CASE EndPost
    BY <2>4 DEF EndPost, ListInv, reports, files
  <2>5. ASSUME UNCHANGED <<stage, failedFile, failedTests, result>> PROVE ListInv'
    BY <2>5 DEF ListInv
  <2>6. ASSUME stage = "pre", UNCHANGED <<stage, failedFile, failedTests>> PROVE ListInv'
    BY <2>6 DEF ListInv
  <2>7. ASSUME NEW w \in Worker, NEW t \in Test, Take(w, t) PROVE ListInv'
    BY <2>5, <2>7 DEF Take, files, reports
  <2>8. ASSUME NEW w \in Worker,
               OpenHosts(w) \/ WriteHosts(w) \/ Save(w) \/ OpenData(w) \/ WriteData(w)
        PROVE ListInv'
    BY <2>5, <2>8 DEF OpenHosts, WriteHosts, Save, OpenData, WriteData, Stays, reports
  <2>9. ASSUME NEW w \in Worker, RecordHost(w) \/ ReadData(w) \/ EndPreTest(w) PROVE ListInv'
    BY <2>6, <2>9 DEF RecordHost, ReadData, EndPreTest, Stays, TypeInv, PhaseInv
  <2>10. ASSUME NEW w \in Worker, SetUp(w) \/ GetData(w) \/ EndPostTest(w) PROVE ListInv'
    BY <2>5, <2>10 DEF SetUp, GetData, EndPostTest, Stays
  <2>11. ASSUME NEW w \in Worker, KillWorker(w) PROVE ListInv'
    BY <2>5, <2>6, <2>11 DEF KillWorker, files
  <2>12. CASE KillPre
    BY <2>12 DEF KillPre, files, reports, ListInv
  <2>13. CASE UNCHANGED vars
    BY <2>5, <2>13 DEF vars, files, reports
  <2> QED
    BY <2>1, <2>2, <2>3, <2>4, <2>7, <2>8, <2>9, <2>10, <2>11, <2>12, <2>13 DEF Next, Controller, Step
<1>3. ListInv => FailedListIsCurrent
  BY DEF ListInv, FailedListIsCurrent
<1> QED
  BY <1>1, <1>2, <1>3, TypeInvariance, PTL DEF Spec

-----------------------------------------------------------------------------
(* The saved data.                                                         *)

Saved(t) == result[t] = "passed" \/ \E w \in Worker : at[w] = t /\ pc[w] = "saved"

\* A worker between its reading and its writing of the data.
Writing(w) == pc[w] \in {"openData", "writeData"}

\* What f holds for the tests that have saved: the entries of this run.
Keeps(f) == \A t \in saving : Saved(t) => f[t] = "new"

\* What a common scope gives: one writer at a time, which has read everything saved
\* before, and writes it together with its own entry.
DataInv ==
    commonScope =>
        /\ \A w \in Worker : Writing(w) => lock = w /\ Keeps(buf[w]) /\ buf[w][at[w]] = "new"
        /\ \A w \in Worker : pc[w] = "writeData" => dataFile = Torn
        /\ \A t \in saving : Saved(t) => dataFile # NoFile
        /\ dataFile \in Unreadable \/ Keeps(dataFile)
        /\ crashes = 0 /\ dataFile \in Unreadable => \E w \in Worker : pc[w] = "writeData"

SavingInv == \A w \in Worker : pc[w] \in {"enter", "openData", "writeData", "saved"} => at[w] \in saving

\* What the second run has been given.
GivenInv ==
    /\ stage \in {"start", "pre", "between"} => \A t \in Test : given[t] = "absent"
    /\ commonScope => \A t \in Test : given[t] = "old" => t \in saving /\ result[t] # "passed"

\* A worker that is doing nothing with the data moves, or is killed.
DataFrame ==
    /\ UNCHANGED <<commonScope, saving, dataFile>>
    /\ \A t \in saving : Saved(t)' => Saved(t)
    /\ \A w \in Worker : Writing(w)' =>
           Writing(w) /\ buf'[w] = buf[w] /\ at'[w] = at[w] /\ (commonScope => lock' = lock)
    /\ \A w \in Worker : pc'[w] = "writeData" => pc[w] = "writeData"
    /\ crashes' = 0 => crashes = 0 /\ \A w \in Worker : pc[w] = "writeData" => pc'[w] = "writeData"

LEMMA DataFrameKeeps == DataInv /\ DataFrame => DataInv'
  <1> SUFFICES ASSUME DataInv, DataFrame, commonScope PROVE DataInv'
    BY DEF DataInv, DataFrame
  <1>1. \A w \in Worker : Writing(w)' =>
            lock' = w /\ Keeps(buf[w])' /\ buf'[w][at'[w]] = "new"
    BY DEF DataInv, DataFrame, Keeps
  <1>2. \A w \in Worker : pc'[w] = "writeData" => dataFile' = Torn
    BY DEF DataInv, DataFrame
  <1>3. \A t \in saving' : Saved(t)' => dataFile' # NoFile
    BY DEF DataInv, DataFrame
  <1>4. dataFile' \in Unreadable \/ Keeps(dataFile)'
    BY DEF DataInv, DataFrame, Keeps
  <1>5. crashes' = 0 /\ dataFile' \in Unreadable => \E w \in Worker : pc'[w] = "writeData"
    BY DEF DataInv, DataFrame
  <1> QED
    BY <1>1, <1>2, <1>3, <1>4, <1>5 DEF DataInv, Unreadable

LEMMA SavingStep == TypeInv /\ SavingInv /\ [Next]_vars => SavingInv'
  <1> SUFFICES ASSUME TypeInv, SavingInv, [Next]_vars PROVE SavingInv'
    OBVIOUS
  <1>1. saving' = saving
    BY DEF Next, Controller, StartPre, EndPre, StartPost, EndPost, Step, Take, RecordHost, OpenHosts,
           WriteHosts, Save, ReadData, OpenData, WriteData, EndPreTest, SetUp, GetData, EndPostTest,
           KillWorker, KillPre, Stays, vars, config
  <1>2. CASE Controller \/ UNCHANGED vars
    BY <1>1, <1>2 DEF Controller, StartPre, EndPre, StartPost, EndPost, vars, workers, SavingInv
  <1>3. ASSUME NEW w \in Worker, Step(w) \/ KillWorker(w) PROVE SavingInv'
    <2>1. /\ at' = at \/ at' = [at EXCEPT ![w] = NoTest] \/ \E t \in Test : at' = [at EXCEPT ![w] = t]
          /\ \E to : pc' = [pc EXCEPT ![w] = to]
      BY <1>3 DEF Step, Take, RecordHost, OpenHosts, WriteHosts, Save, ReadData, OpenData, WriteData,
           EndPreTest, SetUp, GetData, EndPostTest, KillWorker, Report, Conclude, Goto, reports
    <2>2. pc'[w] \in {"enter", "openData", "writeData", "saved"} => at'[w] \in saving
      BY <1>3 DEF Step, Take, RecordHost, OpenHosts, WriteHosts, Save, ReadData, OpenData, WriteData,
           EndPreTest, SetUp, GetData, EndPostTest, KillWorker, Report, Conclude, Goto, reports,
           SavingInv, TypeInv, TypeOK
    <2>3. ASSUME NEW v \in Worker, v # w PROVE pc'[v] = pc[v] /\ at'[v] = at[v]
      BY <2>1, <2>3 DEF TypeInv, TypeOK
    <2> QED
      BY <1>1, <2>2, <2>3 DEF SavingInv
  <1>4. CASE KillPre
    BY <1>4 DEF KillPre, SavingInv
  <1> QED
    BY <1>2, <1>3, <1>4 DEF Next

\* The steps of a worker that leave its entry and the file of data as they are.
LEMMA QuietWorker ==
    ASSUME TypeInv, SavingInv, NEW w \in Worker, NEW to,
           UNCHANGED <<commonScope, saving, dataFile, crashes, lock, result, at>>,
           pc' = [pc EXCEPT ![w] = to], to \notin {"openData", "writeData", "saved"},
           \A v \in Worker : v # w => buf'[v] = buf[v],
           pc[w] # "writeData"
    PROVE  DataFrame
  BY DEF DataFrame, Saved, Writing, TypeInv, TypeOK

\* Those that end its test.
LEMMA EndingWorker ==
    ASSUME TypeInv, SavingInv, NEW w \in Worker, NEW r, Report(w, r),
           UNCHANGED <<commonScope, saving, dataFile, crashes, lock, buf>>,
           pc[w] # "writeData", r = "passed" /\ at[w] \in saving => pc[w] = "saved"
    PROVE  DataFrame
<1>1. at[w] \in Test \/ pc[w] = "idle"
  BY DEF TypeInv, TypeOK
<1>2. ASSUME NEW v \in Worker, v # w PROVE pc'[v] = pc[v] /\ at'[v] = at[v]
  BY <1>2 DEF Report, Goto, TypeInv, TypeOK
<1>3. pc'[w] = "idle"
  BY DEF Report, Goto, TypeInv, TypeOK
<1>4. ASSUME NEW t \in saving, Saved(t)' PROVE Saved(t)
  <2>1. CASE result'[t] = "passed" /\ result[t] # "passed"
    <3>1. t \in Test
      BY DEF TypeInv, TypeOK
    <3>2. at[w] = t /\ r = "passed"
      BY <2>1, <3>1 DEF Report, TypeInv, TypeOK
    <3> QED
      BY <3>2 DEF Saved
  <2>2. CASE result[t] = "passed"
    BY <2>2 DEF Saved
  <2>3. CASE \E v \in Worker : at'[v] = t /\ pc'[v] = "saved"
    BY <2>3, <1>2, <1>3 DEF Saved
  <2> QED
    BY <1>4, <2>1, <2>2, <2>3 DEF Saved
<1> QED
  BY <1>2, <1>3, <1>4 DEF DataFrame, Writing

LEMMA DataStep == TypeInv /\ SavingInv /\ DataInv /\ [Next]_vars => DataInv'
  <1> SUFFICES ASSUME TypeInv, SavingInv, DataInv, [Next]_vars PROVE DataInv'
    OBVIOUS
  <1> USE ConstantsAssumption
  <1>1. CASE Controller \/ UNCHANGED vars
    <2>1. UNCHANGED <<commonScope, saving, dataFile, crashes, at, pc, buf, lock, result>>
      BY <1>1 DEF Controller, StartPre, EndPre, StartPost, EndPost, vars, workers, files, reports, config
    <2>2. DataFrame
      BY <2>1 DEF DataFrame, Saved, Writing
    <2> QED
      BY <2>2, DataFrameKeeps
  <1>2. ASSUME NEW w \in Worker, NEW t \in Test, Take(w, t) PROVE DataInv'
    <2>1. /\ UNCHANGED <<commonScope, saving, dataFile, crashes, lock, result, buf>>
          /\ at' = [at EXCEPT ![w] = t] /\ pc[w] = "idle"
          /\ pc' = [pc EXCEPT ![w] = "record"] \/ pc' = [pc EXCEPT ![w] = "setup"]
      BY <1>2 DEF Take, Goto, files, reports, config
    <2>2. DataFrame
      BY <2>1 DEF DataFrame, Saved, Writing, TypeInv, TypeOK
    <2> QED
      BY <2>2, DataFrameKeeps
  <1>3. ASSUME NEW w \in Worker, RecordHost(w) PROVE DataInv'
    <2>1. CASE Report(w, "failed") /\ UNCHANGED buf
      BY <1>3, <2>1, EndingWorker, DataFrameKeeps DEF RecordHost, Stays, config
    <2>2. CASE ~(Report(w, "failed") /\ UNCHANGED buf)
      <3>1. /\ UNCHANGED <<commonScope, saving, dataFile, crashes, lock, result, at>>
            /\ pc[w] = "record" /\ pc' = [pc EXCEPT ![w] = "openHosts"]
            /\ \A v \in Worker : v # w => buf'[v] = buf[v]
        BY <1>3, <2>2 DEF RecordHost, Stays, config, reports, Goto, TypeInv, TypeOK
      <3> QED
        BY <3>1, QuietWorker, DataFrameKeeps
    <2> QED
      BY <2>1, <2>2
  <1>4. ASSUME NEW w \in Worker, OpenHosts(w) \/ Save(w) PROVE DataInv'
    <2>1. PICK to \in {"writeHosts", "enter"} :
            /\ UNCHANGED <<commonScope, saving, dataFile, crashes, lock, result, at, buf>>
            /\ pc[w] # "writeData" /\ pc' = [pc EXCEPT ![w] = to]
      BY <1>4 DEF OpenHosts, Save, Stays, config, reports, Goto
    <2> QED
      BY <2>1, QuietWorker, DataFrameKeeps
  <1>5. ASSUME NEW w \in Worker, WriteHosts(w) PROVE DataInv'
    <2>1. /\ UNCHANGED <<commonScope, saving, dataFile, crashes, lock, result, at>>
          /\ pc[w] = "writeHosts" /\ pc' = [pc EXCEPT ![w] = "body"]
          /\ \A v \in Worker : v # w => buf'[v] = buf[v]
      BY <1>5 DEF WriteHosts, Stays, config, reports, Goto, TypeInv, TypeOK
    <2> QED
      BY <2>1, QuietWorker, DataFrameKeeps
  <1>6. ASSUME NEW w \in Worker, ReadData(w) PROVE DataInv'
    <2>1. CASE Report(w, "failed") /\ UNCHANGED <<lock, buf>>
      BY <1>6, <2>1, EndingWorker, DataFrameKeeps DEF ReadData, Stays, config
    <2>2. CASE ~(Report(w, "failed") /\ UNCHANGED <<lock, buf>>)
      <3> SUFFICES ASSUME commonScope PROVE DataInv'
        BY <1>6 DEF DataInv, ReadData, Stays, config
      <3> DEFINE b == [Loaded(dataFile) EXCEPT ![at[w]] = "new"]
      <3>1. /\ UNCHANGED <<commonScope, saving, dataFile, crashes, result, at>>
            /\ pc[w] = "enter" /\ pc' = [pc EXCEPT ![w] = "openData"] /\ lock = NoWorker /\ lock' = w
            /\ dataFile \notin Unreadable /\ buf' = [buf EXCEPT ![w] = b]
        BY <1>6, <2>2 DEF ReadData, MayEnter, Stays, config, reports, Goto
      <3>2. at[w] \in Test
        BY <3>1 DEF TypeInv, TypeOK
      <3>3. dataFile \in [Test -> DataEntry] \cup {NoFile}
        BY <3>1 DEF TypeInv, TypeOK
      <3>4. b[at[w]] = "new" /\ \A t \in Test : dataFile # NoFile /\ dataFile[t] = "new" => b[t] = "new"
        BY <3>2, <3>3 DEF Loaded
      <3>5. \A t \in saving : Saved(t) => b[t] = "new"
        BY <3>1, <3>4 DEF DataInv, Keeps, TypeInv, TypeOK
      <3> HIDE DEF b
      <3>6. \A t : Saved(t)' => Saved(t)
        BY <3>1 DEF Saved, TypeInv, TypeOK
      <3>7. Keeps(buf[w])' /\ buf'[w][at'[w]] = "new"
        BY <3>1, <3>4, <3>5, <3>6 DEF Keeps, TypeInv, TypeOK
      <3>8. \A v \in Worker : ~Writing(v)
        BY <3>1 DEF DataInv
      <3>9. \A v \in Worker : (Writing(v)' => v = w) /\ pc'[v] # "writeData"
        BY <3>1, <3>8 DEF Writing, TypeInv, TypeOK
      <3> QED
        BY <3>1, <3>6, <3>7, <3>9 DEF DataInv, Keeps, Unreadable
    <2> QED
      BY <2>1, <2>2
  <1>7. ASSUME NEW w \in Worker, OpenData(w) PROVE DataInv'
    <2> SUFFICES ASSUME commonScope PROVE DataInv'
      BY <1>7 DEF DataInv, OpenData, Stays, config
    <2>1. /\ UNCHANGED <<commonScope, saving, crashes, result, at, buf, lock>>
          /\ pc[w] = "openData" /\ pc' = [pc EXCEPT ![w] = "writeData"] /\ dataFile' = Torn
      BY <1>7 DEF OpenData, Stays, config, reports, Goto
    <2>2. \A t : Saved(t)' => Saved(t)
      BY <2>1 DEF Saved, TypeInv, TypeOK
    <2>3. pc'[w] = "writeData" /\ \A v \in Worker : Writing(v)' => Writing(v)
      BY <2>1 DEF Writing, TypeInv, TypeOK
    <2>4. \A v \in Worker : Writing(v)' => lock' = v /\ Keeps(buf[v])' /\ buf'[v][at'[v]] = "new"
      BY <2>1, <2>2, <2>3 DEF DataInv, Keeps
    <2> QED
      BY <2>1, <2>3, <2>4 DEF DataInv, Unreadable
  <1>8. ASSUME NEW w \in Worker, WriteData(w) PROVE DataInv'
    <2> SUFFICES ASSUME commonScope PROVE DataInv'
      BY <1>8 DEF DataInv, WriteData, Stays, config
    <2>1. Writing(w) /\ lock = w /\ dataFile = Torn /\ Keeps(buf[w]) /\ buf[w][at[w]] = "new"
      BY <1>8 DEF WriteData, DataInv, Writing
    <2>2. /\ UNCHANGED <<commonScope, saving, crashes, result, at>>
          /\ pc[w] = "writeData" /\ pc' = [pc EXCEPT ![w] = "saved"] /\ dataFile' = buf[w]
      BY <1>8, <2>1 DEF WriteData, Written, Stays, config, reports, Goto
    <2>3. dataFile' \notin Unreadable \cup {NoFile}
      BY <2>2 DEF TypeInv, BufInv, Unreadable
    <2>4. \A t : Saved(t)' => Saved(t) \/ t = at[w]
      BY <2>2 DEF Saved, TypeInv, TypeOK
    <2>5. Keeps(dataFile)'
      BY <2>1, <2>2, <2>4 DEF Keeps
    <2>6. \A v \in Worker : ~Writing(v)' /\ pc'[v] # "writeData"
      <3>1. \A v \in Worker : Writing(v) => v = w
        BY <2>1 DEF DataInv
      <3> QED
        BY <2>2, <3>1 DEF Writing, TypeInv, TypeOK
    <2> QED
      BY <2>3, <2>5, <2>6 DEF DataInv
  <1>9. ASSUME NEW w \in Worker, EndPreTest(w) PROVE DataInv'
    <2>1. PICK r \in {"passed", "failed", "skipped"} :
            Report(w, r) /\ (r = "passed" => pc[w] = IF at[w] \in saving THEN "saved" ELSE "body")
      BY <1>9 DEF EndPreTest
    <2>2. UNCHANGED <<commonScope, saving, dataFile, crashes, lock, buf>> /\ pc[w] # "writeData"
      BY <1>9 DEF EndPreTest, Stays, config
    <2>3. r = "passed" /\ at[w] \in saving => pc[w] = "saved"
      BY <2>1
    <2> QED
      BY <2>1, <2>2, <2>3, EndingWorker, DataFrameKeeps
  <1>10. ASSUME NEW w \in Worker, SetUp(w) \/ GetData(w) \/ EndPostTest(w) \/ KillWorker(w)
         PROVE DataInv'
    <2>1. /\ UNCHANGED <<commonScope, saving, dataFile>>
          /\ \/ crashes' = crashes /\ pc[w] # "writeData"
             \/ crashes' = crashes + 1
          /\ \/ result' = result
             \/ result' = [result EXCEPT ![at[w]] = "failed"]
          /\ lock' = lock \/ lock = w
      BY <1>10 DEF SetUp, GetData, EndPostTest, KillWorker, Stays, config, files, reports
    <2>2. /\ pc' = [pc EXCEPT ![w] = "idle"] \/ pc' = [pc EXCEPT ![w] = "data"] \/ pc' = [pc EXCEPT ![w] = "body"]
          /\ at' = at \/ at' = [at EXCEPT ![w] = NoTest]
          /\ buf' = buf \/ buf' = [buf EXCEPT ![w] = NoFile]
      BY <1>10 DEF SetUp, GetData, EndPostTest, KillWorker, Conclude, Goto
    <2>3. ~Writing(w)' /\ pc'[w] # "saved"
      BY <2>2 DEF Writing, TypeInv, TypeOK
    <2>4. ASSUME NEW v \in Worker, v # w PROVE pc'[v] = pc[v] /\ at'[v] = at[v] /\ buf'[v] = buf[v]
      BY <2>2, <2>4 DEF TypeInv, TypeOK
    <2>5. ASSUME NEW t \in saving, Saved(t)' PROVE Saved(t)
      <3>1. result'[t] = "passed" => result[t] = "passed"
        BY <2>1 DEF TypeInv, TypeOK
      <3> QED
        BY <2>3, <2>4, <2>5, <3>1 DEF Saved
    <2>6. crashes' = 0 => crashes = 0 /\ pc[w] # "writeData"
      BY <2>1 DEF TypeInv, TypeOK
    <2>7. ASSUME NEW v \in Worker, Writing(v)', commonScope PROVE lock' = lock
      BY <2>1, <2>3, <2>4, <2>7 DEF DataInv, Writing
    <2>8. DataFrame
      BY <2>1, <2>3, <2>4, <2>5, <2>6, <2>7 DEF DataFrame, Writing
    <2> QED
      BY <2>8, DataFrameKeeps
  <1>11. CASE KillPre
    <2>1. /\ UNCHANGED <<commonScope, saving, dataFile, result>> /\ crashes' # 0
          /\ \A v \in Worker : pc'[v] = "idle"
      BY <1>11 DEF KillPre, files, reports, config, TypeInv, TypeOK
    <2>2. DataFrame
      BY <2>1 DEF DataFrame, Saved, Writing
    <2> QED
      BY <2>2, DataFrameKeeps
  <1> QED
    BY <1>1, <1>2, <1>3, <1>4, <1>5, <1>6, <1>7, <1>8, <1>9, <1>10, <1>11 DEF Next, Step

LEMMA DataInvariance == Spec => [](TypeInv /\ SavingInv /\ DataInv)
<1>1. Init => SavingInv /\ DataInv
  <2> SUFFICES ASSUME Init PROVE SavingInv /\ DataInv
    OBVIOUS
  <2>1. \A w \in Worker : pc[w] = "idle"
    BY DEF Init
  <2>2. \A t \in saving : ~Saved(t)
    BY <2>1 DEF Init, Saved
  <2>3. dataFile \notin Unreadable
    BY ConstantsAssumption DEF Init, Old, Unreadable, DataEntry
  <2> QED
    BY <2>1, <2>2, <2>3 DEF SavingInv, DataInv, Keeps, Writing
<1>2. TypeInv /\ SavingInv /\ DataInv /\ [Next]_vars => SavingInv' /\ DataInv'
  BY SavingStep, DataStep
<1> QED
  BY <1>1, <1>2, TypeInvariance, PTL DEF Spec

\* With a common scope and nobody killed, whatever a passing test of the first run has
\* saved is in the file that the second run reads, however many workers were saving.
THEOREM NothingIsLost == Spec => []NothingSavedIsLost
<1>1. TypeInv /\ SavingInv /\ DataInv => NothingSavedIsLost
  BY DEF TypeInv, PhaseInv, DataInv, Keeps, Saved, NothingSavedIsLost
<1> QED
  BY <1>1, DataInvariance, PTL

LEMMA GivenStep ==
    TypeInv /\ SavingInv /\ DataInv /\ GivenInv /\ [Next]_vars => GivenInv'
<1> SUFFICES ASSUME TypeInv, DataInv, GivenInv, [Next]_vars PROVE GivenInv'
  OBVIOUS
<1>1. ASSUME UNCHANGED <<given, saving, commonScope, result>>,
             stage' = stage \/ stage' \in {"post", "end"} \/ stage = "start" \/ stage = "pre"
      PROVE  GivenInv'
  BY <1>1 DEF GivenInv, TypeInv, TypeOK
<1>2. CASE Controller \/ UNCHANGED vars \/ KillPre
  BY <1>1, <1>2 DEF Controller, StartPre, EndPre, StartPost, EndPost, KillPre, vars, reports, config
<1>3. ASSUME NEW w \in Worker, NEW t \in Test, Take(w, t) PROVE GivenInv'
  BY <1>1, <1>3 DEF Take, reports, config
<1>4. ASSUME NEW w \in Worker,
             \/ OpenHosts(w) \/ WriteHosts(w) \/ Save(w) \/ OpenData(w) \/ WriteData(w)
             \/ SetUp(w) \/ EndPostTest(w)
      PROVE GivenInv'
  BY <1>1, <1>4 DEF OpenHosts, WriteHosts, Save, OpenData, WriteData, SetUp, EndPostTest, Stays,
                    reports, config
<1>5. ASSUME stage = "pre", UNCHANGED <<stage, given, saving, commonScope>> PROVE GivenInv'
  BY <1>5 DEF GivenInv
<1>6. ASSUME NEW w \in Worker, RecordHost(w) \/ ReadData(w) \/ EndPreTest(w) PROVE GivenInv'
  BY <1>5, <1>6 DEF RecordHost, ReadData, EndPreTest, Report, Stays, reports, config, TypeInv, PhaseInv
<1>7. ASSUME NEW w \in Worker, KillWorker(w) PROVE GivenInv'
  BY <1>1, <1>5, <1>7 DEF KillWorker, config, TypeInv, PhaseInv
<1>8. ASSUME NEW w \in Worker, GetData(w) PROVE GivenInv'
  <2>1. at[w] \in Test /\ stage = "post" /\ stage' = stage /\ UNCHANGED <<saving, commonScope, result>>
    BY <1>8 DEF GetData, Stays, config, TypeInv, TypeOK, PhaseInv
  <2>2. CASE given' = given
    BY <1>1, <2>1, <2>2
  <2>3. CASE given' # given
    <3>1. /\ dataFile \notin Unreadable /\ at[w] \in saving
          /\ given' = [given EXCEPT ![at[w]] = Loaded(dataFile)[at[w]]]
      BY <1>8, <2>3 DEF GetData
    <3>2. commonScope /\ result[at[w]] = "passed" => Loaded(dataFile)[at[w]] = "new"
      BY <3>1 DEF DataInv, Keeps, Saved, Loaded
    <3>3. \A t \in Test : given'[t] = IF t = at[w] THEN Loaded(dataFile)[at[w]] ELSE given[t]
      BY <3>1 DEF TypeInv, TypeOK
    <3> QED
      BY <2>1, <3>1, <3>2, <3>3 DEF GivenInv
  <2> QED
    BY <2>2, <2>3
<1> QED
  BY <1>2, <1>3, <1>4, <1>6, <1>7, <1>8 DEF Next, Step

\* With a common scope the post_upgrade test of a passing pre_upgrade test is never
\* handed the data of an earlier pair of runs, whoever is killed and whenever.
THEOREM StaleDataIsNotGiven == Spec => []NoStaleData
<1>1. Init => GivenInv
  BY DEF Init, GivenInv
<1>2. GivenInv => NoStaleData
  BY DEF GivenInv, NoStaleData
<1> QED
  BY <1>1, <1>2, GivenStep, DataInvariance, PTL DEF Spec

-----------------------------------------------------------------------------
(* The hosts.                                                              *)

\* f records the hosts of tests that have been begun, and no others.
OfStarted(f) == \A t \in Test : f[t] = "current" => t \in started

\* In a fresh directory.
HostInv ==
    ~leftover =>
        /\ hostsFile \in Unreadable \cup {NoFile} \/ OfStarted(hostsFile)
        /\ \A w \in Worker : pc[w] \in {"openHosts", "writeHosts"} => OfStarted(buf[w])
        /\ \A w \in Worker : pc[w] \notin {"idle", "setup"} => at[w] \in started
        /\ \A t \in Test : outcome[t] = "ran" => t \in started

LEMMA HostStep == TypeInv /\ HostInv /\ [Next]_vars => HostInv'
<1> SUFFICES ASSUME TypeInv, HostInv, [Next]_vars PROVE HostInv'
  OBVIOUS
<1>1. leftover' = leftover /\ started \subseteq started'
  BY DEF Next, Controller, StartPre, EndPre, StartPost, EndPost, Step, Take, RecordHost, OpenHosts,
         WriteHosts, Save, ReadData, OpenData, WriteData, EndPreTest, SetUp, GetData, EndPostTest,
         KillWorker, KillPre, Stays, vars, config
<1> SUFFICES ASSUME ~leftover PROVE HostInv'
  BY <1>1 DEF HostInv
<1>2. CASE Controller \/ UNCHANGED vars \/ KillPre
  BY <1>2 DEF Controller, StartPre, EndPre, StartPost, EndPost, KillPre, vars, reports, config,
              files, workers, HostInv, OfStarted
\* A step of one worker that does not touch the file of hosts.
<1>3. ASSUME NEW w \in Worker, hostsFile' = hostsFile,
             \A v \in Worker : v # w => pc'[v] = pc[v] /\ at'[v] = at[v] /\ buf'[v] = buf[v],
             pc'[w] \notin {"openHosts", "writeHosts"} \/ OfStarted(buf'[w]),
             pc'[w] \notin {"idle", "setup"} => at'[w] \in started',
             \A t \in Test : outcome'[t] = "ran" => t \in started'
      PROVE  HostInv'
  BY <1>1, <1>3 DEF HostInv, OfStarted
<1>4. ASSUME NEW w \in Worker, NEW t \in Test, Take(w, t) PROVE HostInv'
  <2>1. /\ pc'[w] \in {"record", "setup"} /\ at'[w] = t /\ (pc'[w] = "record" => t \in started')
        /\ \A v \in Worker : v # w => pc'[v] = pc[v] /\ at'[v] = at[v]
        /\ hostsFile' = hostsFile /\ buf' = buf /\ outcome' = outcome
    BY <1>4 DEF Take, Goto, files, reports, TypeInv, TypeOK
  <2>2. \A s \in Test : outcome'[s] = "ran" => s \in started'
    BY <1>1, <2>1 DEF HostInv
  <2> QED
    BY <1>3, <2>1, <2>2
<1>5. ASSUME NEW w \in Worker, RecordHost(w) PROVE HostInv'
  <2>1. /\ at[w] \in started /\ at[w] \in Test
        /\ UNCHANGED <<hostsFile, outcome, started>>
        /\ \A v \in Worker : v # w => pc'[v] = pc[v] /\ at'[v] = at[v] /\ buf'[v] = buf[v]
    BY <1>5 DEF RecordHost, Report, Goto, Stays, reports, HostInv, TypeInv, TypeOK
  <2>2. \A t \in Test : outcome'[t] = "ran" => t \in started'
    BY <1>1, <2>1 DEF HostInv
  <2>3. CASE pc'[w] = "idle"
    BY <1>3, <2>1, <2>2, <2>3
  <2>4. CASE pc'[w] # "idle"
    <3> DEFINE b == [Loaded(hostsFile) EXCEPT ![at[w]] = "current"]
    <3>1. hostsFile \notin Unreadable /\ buf' = [buf EXCEPT ![w] = b] /\ pc'[w] = "openHosts" /\ at' = at
      BY <1>5, <2>4 DEF RecordHost, Report, Goto, Stays, reports, TypeInv, TypeOK
    <3>2. hostsFile \in [Test -> HostEntry] \cup {NoFile}
      BY <3>1 DEF TypeInv, TypeOK
    <3>3. \A t \in Test : b[t] = "current" => t = at[w] \/ (hostsFile # NoFile /\ hostsFile[t] = "current")
      BY <2>1, <3>2 DEF Loaded
    <3>4. OfStarted(b)
      BY <2>1, <3>1, <3>3 DEF OfStarted, HostInv
    <3>5. buf'[w] = b
      BY <3>1 DEF TypeInv, TypeOK
    <3> HIDE DEF b
    <3> QED
      BY <1>3, <2>1, <2>2, <3>1, <3>4, <3>5
  <2> QED
    BY <2>3, <2>4
<1>6. ASSUME NEW w \in Worker, OpenHosts(w) PROVE HostInv'
  <2>1. /\ hostsFile' = Torn /\ UNCHANGED <<at, buf, outcome, started>> /\ pc[w] = "openHosts"
        /\ pc' = [pc EXCEPT ![w] = "writeHosts"]
    BY <1>6 DEF OpenHosts, Goto, Stays, reports
  <2> QED
    BY <1>1, <2>1 DEF HostInv, OfStarted, Unreadable, TypeInv, TypeOK
<1>7. ASSUME NEW w \in Worker, WriteHosts(w) PROVE HostInv'
  <2>1. /\ hostsFile' \in {buf[w], Mixed} /\ UNCHANGED <<at, outcome, started>> /\ pc[w] = "writeHosts"
        /\ pc' = [pc EXCEPT ![w] = "body"] /\ buf' = [buf EXCEPT ![w] = NoFile]
    BY <1>7 DEF WriteHosts, Written, Goto, Stays, reports
  <2>2. \A v \in Worker : v # w => buf'[v] = buf[v] /\ pc'[v] = pc[v]
    BY <2>1 DEF TypeInv, TypeOK
  <2>3. OfStarted(buf[w]) /\ pc'[w] = "body" /\ at[w] \in started
    BY <2>1 DEF HostInv, TypeInv, TypeOK
  <2> QED
    BY <1>1, <2>1, <2>2, <2>3 DEF HostInv, OfStarted, Unreadable
<1>8. ASSUME NEW w \in Worker, Save(w) \/ ReadData(w) \/ OpenData(w) \/ WriteData(w) \/ EndPreTest(w)
      PROVE  HostInv'
  <2>1. /\ UNCHANGED <<hostsFile, started, outcome>> /\ at[w] \in started
        /\ \/ pc'[w] = "idle"
           \/ pc'[w] \in {"enter", "openData", "writeData", "saved"} /\ at' = at
        /\ \A v \in Worker : v # w => pc'[v] = pc[v] /\ at'[v] = at[v] /\ buf'[v] = buf[v]
    BY <1>8 DEF Save, ReadData, OpenData, WriteData, EndPreTest, Report, Goto, Stays, reports,
                HostInv, TypeInv, TypeOK
  <2>2. \A t \in Test : outcome'[t] = "ran" => t \in started'
    BY <1>1, <2>1 DEF HostInv
  <2> QED
    BY <1>3, <2>1, <2>2
<1>9. ASSUME NEW w \in Worker, SetUp(w) \/ GetData(w) \/ EndPostTest(w) \/ KillWorker(w)
      PROVE  HostInv'
  <2>1. /\ UNCHANGED <<hostsFile, started>>
        /\ buf' = buf \/ buf' = [buf EXCEPT ![w] = NoFile]
        /\ \/ pc' = [pc EXCEPT ![w] = "idle"] /\ at' = [at EXCEPT ![w] = NoTest]
           \/ pc' = [pc EXCEPT ![w] = "data"] /\ at' = at /\ pc[w] = "setup" /\ ~MarkedFail(at[w])
              /\ hostsFile \notin Unreadable \cup {NoFile} /\ HostKnown(w)
           \/ pc' = [pc EXCEPT ![w] = "body"] /\ at' = at /\ pc[w] = "data"
        /\ \/ outcome' = outcome
           \/ \E o \in {"errored", "skipped"} : outcome' = [outcome EXCEPT ![at[w]] = o]
           \/ outcome' = [outcome EXCEPT ![at[w]] = "ran"] /\ pc[w] = "body"
    BY <1>9 DEF SetUp, GetData, EndPostTest, KillWorker, Conclude, Goto, Stays, files
  <2>2. \A v \in Worker : v # w => pc'[v] = pc[v] /\ at'[v] = at[v] /\ buf'[v] = buf[v]
    BY <2>1 DEF TypeInv, TypeOK
  <2>3. pc'[w] \notin {"openHosts", "writeHosts"} /\ (pc'[w] \notin {"idle", "setup"} => at'[w] \in started')
    BY <2>1 DEF HostInv, HostKnown, OfStarted, TypeInv, TypeOK
  <2>4. \A t \in Test : outcome'[t] = "ran" => t \in started'
    BY <2>1 DEF HostInv, TypeInv, TypeOK
  <2> QED
    BY <1>3, <2>1, <2>2, <2>3, <2>4
<1> QED
  BY <1>2, <1>4, <1>5, <1>6, <1>7, <1>8, <1>9 DEF Next, Step

\* In a fresh directory no post_upgrade test runs unless its pre_upgrade test was begun,
\* although the file of hosts is written by all workers and without a lock.
THEOREM OnlyAfterItsPre == Spec => []RunsOnlyAfterItsPre
<1>1. Init => HostInv
  BY DEF Init, HostInv
<1>2. HostInv => RunsOnlyAfterItsPre
  BY DEF HostInv, RunsOnlyAfterItsPre
<1> QED
  BY <1>1, <1>2, HostStep, TypeInvariance, PTL DEF Spec
=============================================================================
