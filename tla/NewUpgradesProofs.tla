------------------------- MODULE NewUpgradesProofs -------------------------
(***************************************************************************)
(* The two protocols of tests/new_upgrades, for any workers and bounds:    *)
(* UpgradeFlow, the meetings of a group's tests at their Satellites, and   *)
(* NailgunSwap, the version of nailgun that each of these tests uses.      *)
(*                                                                         *)
(* UpgradeFlow: what a step does to a file (FileStep, WriteIs), to its     *)
(* lock (HoldStep) and to the places a worker is in (OnStep, LeadsOnStep,  *)
(* UpgradeStep, IntoStep) is stated once.  On top of TypeInv, FileInv says *)
(* what is true of a resource whose file has not been unlinked under       *)
(* anybody: one writer at a time, nothing read is stale, who is registered *)
(* is in the file, one main watcher. The three properties follow from it   *)
(* alone (UpgradesOneByOne), with SoundInv (no upgrade under a test), and  *)
(* with OldInv and ReachInv (nobody is late either).                       *)
(***************************************************************************)
EXTENDS UpgradeFlow, NailgunSwap, FiniteSetTheorems, WellFoundedInduction, TLAPS

-----------------------------------------------------------------------------
(* The operators on the file of a resource.                                *)

LEMMA NewFileType == NewFile \in File /\ NewFile.status = "waiting" /\ DOMAIN NewFile.watchers = {}
<1>1. <<>> \in [{} -> {"pending", "ready"}] /\ DOMAIN <<>> = {}
  OBVIOUS
<1>2. <<>> \in UNION {[W -> {"pending", "ready"}] : W \in SUBSET Worker}
  BY <1>1
<1> QED
  BY <1>1, <1>2 DEF NewFile, File

LEMMA FileIs ==
  ASSUME NEW f \in File
  PROVE  /\ f # NoFile /\ f = [status |-> f.status, watchers |-> f.watchers]
         /\ f.status \in {"waiting", "acting", "done", "error"}
         /\ DOMAIN f.watchers \subseteq Worker
         /\ f.watchers \in [DOMAIN f.watchers -> {"pending", "ready"}]
<1>1. f # NoFile
  BY ConstantsAssumption
<1>2. PICK W \in SUBSET Worker : f.watchers \in [W -> {"pending", "ready"}]
  BY DEF File
<1> QED
  BY <1>1, <1>2 DEF File

LEMMA WithIs ==
  ASSUME NEW f \in File, NEW w \in Worker, NEW st \in {"pending", "ready"}
  PROVE  /\ With(f, w, st) \in File /\ With(f, w, st).status = f.status
         /\ DOMAIN With(f, w, st).watchers = DOMAIN f.watchers \cup {w}
         /\ With(f, w, st).watchers[w] = st
         /\ \A v \in DOMAIN f.watchers : v # w => With(f, w, st).watchers[v] = f.watchers[v]
<1> DEFINE g == [v \in DOMAIN f.watchers \cup {w} |-> IF v = w THEN st ELSE f.watchers[v]]
<1>1. g \in [DOMAIN f.watchers \cup {w} -> {"pending", "ready"}]
  BY FileIs
<1>2. DOMAIN f.watchers \cup {w} \in SUBSET Worker
  BY FileIs
<1>3. g \in UNION {[W -> {"pending", "ready"}] : W \in SUBSET Worker}
  BY <1>1, <1>2
<1>4. With(f, w, st) = [status |-> f.status, watchers |-> g]
  BY FileIs DEF With
<1> HIDE DEF g
<1>5. With(f, w, st) \in File /\ With(f, w, st).status = f.status /\ With(f, w, st).watchers = g
  BY <1>3, <1>4, FileIs DEF File
<1> QED
  BY <1>5 DEF g

LEMMA WithoutIs ==
  ASSUME NEW f \in File, NEW w \in Worker
  PROVE  /\ Without(f, w) \in File /\ Without(f, w).status = f.status
         /\ DOMAIN Without(f, w).watchers = DOMAIN f.watchers \ {w}
         /\ \A v \in DOMAIN f.watchers : v # w => Without(f, w).watchers[v] = f.watchers[v]
<1> DEFINE g == [v \in DOMAIN f.watchers \ {w} |-> f.watchers[v]]
<1>1. g \in [DOMAIN f.watchers \ {w} -> {"pending", "ready"}]
  BY FileIs
<1>2. DOMAIN f.watchers \ {w} \in SUBSET Worker
  BY FileIs
<1>3. g \in UNION {[W -> {"pending", "ready"}] : W \in SUBSET Worker}
  BY <1>1, <1>2
<1>4. Without(f, w) = [status |-> f.status, watchers |-> g]
  BY FileIs DEF Without
<1> HIDE DEF g
<1>5. Without(f, w) \in File /\ Without(f, w).status = f.status /\ Without(f, w).watchers = g
  BY <1>3, <1>4, FileIs DEF File
<1> QED
  BY <1>5 DEF g

LEMMA StatusIs ==
  ASSUME NEW f \in File, NEW s \in {"waiting", "acting", "done", "error"}
  PROVE  /\ [f EXCEPT !.status = s] \in File
         /\ [f EXCEPT !.status = s].status = s /\ [f EXCEPT !.status = s].watchers = f.watchers
<1>1. [f EXCEPT !.status = s] = [status |-> s, watchers |-> f.watchers]
  BY FileIs
<1> QED
  BY <1>1 DEF File

-----------------------------------------------------------------------------
(* Types.                                                                  *)

\* The phases of a main watcher, and those in which a worker rewrites its file.
LeadPhase == {"begin", "act", "publish", "giveUp", "unlink", "drain", "remove", "check",
              "tell", "discard"}
WritePhase == {"registering", "setup", "begin", "publish", "giveUp", "exit", "leaving",
               "error", "fnf", "report", "tell"}

\* What holds of a worker wherever it is.
WorkerInv ==
    \A w \in Worker :
        /\ kind[w] # "checkout" => sat[w] # NoSat
        /\ kind[w] = "checkin" => "tests" \in leads[w]
        /\ phase[w] = "finished" <=> left[w] = 0
        /\ phase[w] = "finished" => kind[w] = "checkout"
        /\ phase[w] \in LeadPhase => kind[w] \in leads[w]
        /\ phase[w] = "act" => kind[w] # "tests"
        /\ buf[w] # NoFile => phase[w] \in WritePhase

\* The checkouts that w may still perform, and those of all workers that are spent.
Credit(w) ==
    IF kind[w] = "checkout"
       /\ phase[w] \in {"enter", "registering", "setup", "wait", "begin", "act", "finished"}
    THEN left[w] ELSE left[w] - 1
Spent == {p \in Worker \X (1 .. Tests) : p[2] > Credit(p[1])}

\* No Satellite is checked out that is not spent.
CountInv == provisioned <= Cardinality(Spent)

TypeInv == TypeOK /\ WorkerInv /\ CountInv

LEMMA MineIs ==
  ASSUME TypeOK, WorkerInv, NEW w \in Worker
  PROVE  /\ Mine(w) \in Resource /\ files[Mine(w)] \in File \cup {NoFile}
         /\ kind[w] # "checkout" => sat[w] \in Satellite
<1>1. kind[w] # "checkout" => sat[w] \in Satellite
  BY DEF TypeOK, WorkerInv
<1>2. Mine(w) \in Resource
  BY <1>1 DEF TypeOK, Mine, Name, Resource, Kind
<1> QED
  BY <1>1, <1>2 DEF TypeOK

LEMMA SatelliteIs == Satellite \subseteq Nat /\ NoSat \notin Satellite
<1>1. Cardinality(Worker) \in Nat
  BY ConstantsAssumption, FS_CardinalityType
<1> QED
  BY <1>1, ConstantsAssumption DEF Satellite

LEMMA OldestIs ==
  ASSUME TypeOK, inventory # {}
  PROVE  Oldest \in inventory /\ Oldest \in Satellite
<1>1. inventory \subseteq Nat
  BY SatelliteIs DEF TypeOK
<1> DEFINE Less == {ss \in Nat \X Nat : ss[1] < ss[2]}
<1>2. IsWellFoundedOn(Less, Nat)
  BY NatLessThanWellFounded DEF OpToRel
<1>3. PICK s \in inventory : \A t \in inventory : <<t, s>> \notin Less
  <2> HIDE DEF Less
  <2> QED
    BY <1>1, <1>2, WFMin
<1>4. ASSUME NEW t \in inventory PROVE s <= t
  <2>1. ~(t < s)
    BY <1>1, <1>3
  <2> QED
    BY <1>1, <2>1
<1>5. \E q \in inventory : \A t \in inventory : q <= t
  BY <1>4
<1> QED
  BY <1>5 DEF Oldest, TypeOK

\* The four ways out of a with statement.
LEMMA OutIs ==
  ASSUME NEW w \in Worker, NEW ok \in BOOLEAN, Out(w, ok)
  PROVE  \/ /\ kind[w] = "checkout" /\ ok /\ sat[w] # NoSat
            /\ kind' = [kind EXCEPT ![w] = "tests"] /\ phase' = [phase EXCEPT ![w] = "enter"]
            /\ sat' = sat /\ left' = left
         \/ /\ kind[w] = "upgrade"
            /\ kind' = [kind EXCEPT ![w] = "tests"] /\ phase' = [phase EXCEPT ![w] = "setup"]
            /\ sat' = sat /\ left' = left
         \/ /\ kind[w] = "checkin"
            /\ kind' = [kind EXCEPT ![w] = "tests"]
            /\ phase' = [phase EXCEPT ![w] = IF ok THEN "publish" ELSE "giveUp"]
            /\ sat' = sat /\ left' = left
         \/ /\ kind[w] = "tests" \/ (kind[w] = "checkout" /\ ~(ok /\ sat[w] # NoSat))
            /\ kind' = [kind EXCEPT ![w] = "checkout"]
            /\ phase' = [phase EXCEPT ![w] = IF left[w] = 1 THEN "finished" ELSE "enter"]
            /\ sat' = [sat EXCEPT ![w] = NoSat] /\ left' = [left EXCEPT ![w] = @ - 1]
<1>1. CASE kind[w] = "checkout" /\ GotSat(w, ok) /\ Go(w, "tests", "enter") /\ UNCHANGED <<sat, left>>
  BY <1>1 DEF GotSat, Go
<1>2. CASE kind[w] = "upgrade" /\ Go(w, "tests", "setup") /\ UNCHANGED <<sat, left>>
  BY <1>2 DEF Go
<1>3. CASE /\ kind[w] = "checkin" /\ Go(w, "tests", IF ok THEN "publish" ELSE "giveUp")
           /\ UNCHANGED <<sat, left>>
  BY <1>3 DEF Go
<1>4. CASE /\ kind[w] = "tests" \/ (kind[w] = "checkout" /\ ~GotSat(w, ok))
           /\ EndTest(w)
  BY <1>4 DEF Go, EndTest, GotSat
<1> QED
  BY <1>1, <1>2, <1>3, <1>4 DEF Out

\* One worker changes its own variables, and one file.
LEMMA FilesType ==
  ASSUME TypeOK, WorkerInv, NEW w \in Worker, Step(w)
  PROVE  /\ files' \in [Resource -> File \cup {NoFile}]
         /\ buf' \in [Worker -> File \cup {NoFile}]
         /\ late' \subseteq Resource /\ pulled' \subseteq Resource
         /\ \A r \in Resource : r # Mine(w) => files'[r] = files[r]
         /\ \A v \in Worker : v # w => buf'[v] = buf[v]
<1> DEFINE f == files[Mine(w)]
           Goal == /\ files' = files \/ files' = [files EXCEPT ![Mine(w)] = buf[w]]
                                    \/ files' = [files EXCEPT ![Mine(w)] = NoFile]
                   /\ \/ buf' = buf
                      \/ \E g \in File \cup {NoFile} : buf' = [buf EXCEPT ![w] = g]
                   /\ late' = late \/ late' = late \cup {Mine(w)}
                   /\ pulled' = pulled \/ pulled' = pulled \cup {Mine(w)}
<1>0. /\ Mine(w) \in Resource /\ f \in File \cup {NoFile}
      /\ files \in [Resource -> File \cup {NoFile}] /\ buf \in [Worker -> File \cup {NoFile}]
      /\ late \subseteq Resource /\ pulled \subseteq Resource
  BY MineIs DEF TypeOK
<1> SUFFICES Goal
  BY <1>0
<1> HIDE DEF f
<1>1. CASE Enter(w) \/ Register(w)
  <2>1. ASSUME Registers(w, f) PROVE \E g \in File \cup {NoFile} : buf' = [buf EXCEPT ![w] = g]
    BY <1>0, <2>1, WithIs, NewFileType DEF Registers
  <2> QED
    BY <1>1, <2>1 DEF Enter, Register, f
<1>2. CASE Ready(w)
  <2>1. f \in File
    BY <1>0, <1>2 DEF Ready, Finds, f
  <2> QED
    BY <1>2, <2>1, WithIs DEF Ready, Rewrite, f
<1>3. CASE UpdateMain(w)
  <2>1. f \in File
    BY <1>0, <1>3 DEF UpdateMain, Finds, f
  <2>2. PICK s \in {"acting", "done", "error"} : Rewrite(w, [f EXCEPT !.status = s])
    BY <1>3 DEF UpdateMain, MainStatus, f
  <2> QED
    BY <1>3, <2>1, <2>2, StatusIs DEF UpdateMain, Rewrite
<1>4. CASE Unregister(w) \/ Report(w)
  <2>1. f \in File
    BY <1>0, <1>4 DEF Unregister, Report, Finds, f
  <2> QED
    BY <1>4, <2>1, WithoutIs DEF Unregister, Report, Rewrite, f
<1>5. CASE WriteBack(w)
  BY <1>5 DEF WriteBack
<1>6. CASE Unlink(w)
  BY <1>6 DEF Unlink
<1>7. CASE SetupFails(w) \/ SeesAllReady(w) \/ MissesFile(w) \/ ActionSucceeds(w) \/ ActionFails(w)
  BY <1>7 DEF SetupFails, SeesAllReady, MissesFile, ActionSucceeds, ActionFails
<1>8. CASE Poll(w) \/ EndBody(w) \/ CannotUnregister(w) \/ Drain(w) \/ Check(w) \/ ExitMisses(w)
  BY <1>8 DEF Poll, EndBody, CannotUnregister, Drain, Check, ExitMisses
<1> QED
  BY <1>1, <1>2, <1>3, <1>4, <1>5, <1>6, <1>7, <1>8 DEF Step

\* The phases and kinds that a worker goes through.
LEMMA WorkerType ==
  ASSUME TypeOK, WorkerInv, NEW w \in Worker, Step(w)
  PROVE  /\ kind' \in [Worker -> Kind] /\ phase' \in [Worker -> Phase]
         /\ leads' \in [Worker -> SUBSET Kind] /\ left' \in [Worker -> 0..Tests]
         /\ sat' \in [Worker -> Satellite \cup {NoSat}]
         /\ \A v \in Worker : v # w => /\ kind'[v] = kind[v] /\ phase'[v] = phase[v]
                                       /\ leads'[v] = leads[v] /\ left'[v] = left[v]
                                       /\ sat'[v] = sat[v]
         /\ WorkerInv'
<1> DEFINE Types == /\ kind' \in [Worker -> Kind] /\ phase' \in [Worker -> Phase]
                    /\ leads' \in [Worker -> SUBSET Kind] /\ left' \in [Worker -> 0..Tests]
                    /\ sat' \in [Worker -> Satellite \cup {NoSat}]
           Others == \A v \in Worker : v # w => /\ kind'[v] = kind[v] /\ phase'[v] = phase[v]
                                       /\ leads'[v] = leads[v] /\ left'[v] = left[v]
                                       /\ sat'[v] = sat[v]
           Own == /\ kind'[w] # "checkout" => sat'[w] # NoSat
                  /\ kind'[w] = "checkin" => "tests" \in leads'[w]
                  /\ phase'[w] = "finished" <=> left'[w] = 0
                  /\ phase'[w] = "finished" => kind'[w] = "checkout"
                  /\ phase'[w] \in LeadPhase => kind'[w] \in leads'[w]
                  /\ phase'[w] = "act" => kind'[w] # "tests"
                  /\ buf'[w] # NoFile => phase'[w] \in WritePhase
           Good == Types /\ Others /\ Own
<1>0. SUFFICES Types /\ Others /\ Own
  BY FilesType DEF WorkerInv
<1>a. /\ kind \in [Worker -> Kind] /\ phase \in [Worker -> Phase]
      /\ leads \in [Worker -> SUBSET Kind] /\ left \in [Worker -> 0..Tests]
      /\ sat \in [Worker -> Satellite \cup {NoSat}] /\ Tests \in Nat
      /\ buf \in [Worker -> File \cup {NoFile}]
  BY ConstantsAssumption DEF TypeOK
<1>b. /\ kind[w] # "checkout" => sat[w] # NoSat
      /\ kind[w] = "checkin" => "tests" \in leads[w]
      /\ phase[w] = "finished" <=> left[w] = 0
      /\ phase[w] = "finished" => kind[w] = "checkout"
      /\ phase[w] \in LeadPhase => kind[w] \in leads[w]
      /\ phase[w] = "act" => kind[w] # "tests"
      /\ buf[w] # NoFile => phase[w] \in WritePhase
  BY DEF WorkerInv
<1> USE DEF Kind, Phase, LeadPhase, WritePhase, At
<1>1. ASSUME NEW ok \in BOOLEAN, Out(w, ok), leads' = leads, buf'[w] = NoFile,
             phase[w] \notin {"enter", "finished"},
             kind[w] = "checkin" => phase[w] # "wait"
      PROVE  Good
  <2>1. left[w] \in 1..Tests
    BY <1>1, <1>a, <1>b
  <2> QED
    BY <1>1, <2>1, <1>a, <1>b, OutIs
<1>2. ASSUME NEW p \in Phase, Stay(w, p), leads' = leads,
             buf'[w] # NoFile => p \in WritePhase,
             p # "finished", phase[w] # "finished",
             p \in LeadPhase => kind[w] \in leads[w], p = "act" => kind[w] # "tests"
      PROVE  Good
  BY <1>2, <1>a, <1>b DEF Stay, Go
<1>3. CASE WriteBack(w)
  <2>0. leads' = leads /\ buf'[w] = NoFile /\ phase[w] \in WritePhase
    BY <1>3, <1>a, <1>b DEF WriteBack
  <2>1. CASE \E p \in {"setup", "wait", "act", "body", "unlink", "leaving", "drain", "report", "check"} :
               /\ Stay(w, p) /\ (p \in {"act", "unlink", "drain", "check"} => kind[w] \in leads[w])
               /\ p = "act" => kind[w] # "tests"
    BY <2>0, <2>1, <1>2
  <2>2. CASE /\ kind[w] = "tests"
             /\ Into(w, "upgrade") \/ (Into(w, "checkin") /\ phase[w] = "begin")
    BY <2>0, <2>2, <1>a, <1>b DEF Into, Go
  <2>3. CASE Out(w, TRUE) \/ Out(w, FALSE)
    BY <2>0, <2>3, <1>1
  <2> QED
    BY <1>3, <2>1, <2>2, <2>3, <1>b DEF WriteBack, Leads
<1>4. CASE Enter(w)
  BY <1>4, <1>a, <1>b DEF Enter, Go, Stay
<1>5. CASE Register(w)
  <2>1. CASE files[Mine(w)] # NoFile
    BY <1>5, <2>1, <1>a, <1>b DEF Register
  <2>2. CASE files[Mine(w)] = NoFile
    BY <1>5, <2>2, <1>1 DEF Register
  <2> QED
    BY <2>1, <2>2
<1>6. CASE Ready(w) \/ UpdateMain(w) \/ Unregister(w) \/ Report(w)
  <2>1. /\ kind' = kind /\ phase' = phase /\ leads' = leads /\ sat' = sat /\ left' = left
        /\ phase[w] \in WritePhase
    BY <1>6 DEF Ready, UpdateMain, MainStatus, Unregister, Report, Rewrite
  <2> QED
    BY <2>1, <1>a, <1>b
<1>7. CASE SetupFails(w) \/ MissesFile(w) \/ Poll(w)
  BY <1>7, <1>2 DEF SetupFails, MissesFile, Poll
<1>8. CASE SeesAllReady(w) \/ ActionSucceeds(w) \/ ActionFails(w) \/ Drain(w) \/ Check(w)
  BY <1>8, <1>2, <1>b DEF SeesAllReady, ActionSucceeds, ActionFails, Drain, Check, Leads
<1>9. CASE EndBody(w)
  <2>1. sat' = [sat EXCEPT ![w] = NoSat] \/ sat' = sat \/ \E s \in Satellite : sat' = [sat EXCEPT ![w] = s]
    BY <1>9, OldestIs DEF EndBody
  <2>2. kind[w] # "checkout" => sat' = sat
    BY <1>9 DEF EndBody
  <2>3. /\ leads' = leads /\ left' = left /\ buf' = buf /\ buf[w] = NoFile
        /\ kind' = [kind EXCEPT ![w] = kind[w]] /\ phase' = [phase EXCEPT ![w] = "exit"]
    BY <1>9 DEF EndBody, Go, At
  <2>4. Types
    BY <2>1, <2>3, <1>a
  <2>5. Others
    BY <2>1, <2>3, <1>a
  <2>6. kind'[w] = kind[w] /\ phase'[w] = "exit" /\ leads'[w] = leads[w] /\ left'[w] = left[w] /\ buf'[w] = NoFile
    BY <2>3, <1>a
  <2>7. kind[w] # "checkout" => sat'[w] = sat[w]
    BY <2>2
  <2>8. phase[w] = "body"
    BY <1>9 DEF EndBody
  <2>9. Own
    BY <2>6, <2>7, <2>8, <1>b
  <2> QED
    BY <2>4, <2>5, <2>9
<1>10. CASE CannotUnregister(w)
  BY <1>10, <1>1, <1>2 DEF CannotUnregister
<1>11. CASE ExitMisses(w)
  BY <1>11, <1>1 DEF ExitMisses
<1>12. CASE Unlink(w)
  <2>1. CASE At(w, "unlink")
    BY <1>12, <2>1, <1>2 DEF Unlink
  <2>2. CASE ~At(w, "unlink")
    BY <1>12, <2>2, <1>1 DEF Unlink
  <2> QED
    BY <2>1, <2>2
<1> QED
  BY <1>3, <1>4, <1>5, <1>6, <1>7, <1>8, <1>9, <1>10, <1>11, <1>12 DEF Step

LEMMA SpentIs ==
  ASSUME TypeOK, WorkerInv
  PROVE  /\ Spent \subseteq Worker \X (1 .. Tests)
         /\ IsFiniteSet(Worker \X (1 .. Tests))
         /\ Cardinality(Worker \X (1 .. Tests)) \in Nat
         /\ 1 .. Cardinality(Worker \X (1 .. Tests)) = Satellite
         /\ \A w \in Worker : left[w] \in 0 .. Tests /\ Credit(w) \in 0 .. Tests
<1>1. Tests \in Nat /\ IsFiniteSet(Worker) /\ Cardinality(Worker) \in Nat
  BY ConstantsAssumption, FS_CardinalityType
<1>2. IsFiniteSet(1 .. Tests) /\ Cardinality(1 .. Tests) = Tests
  <2>1. 1 \in Int /\ Tests \in Int
    BY <1>1
  <2>2. /\ IsFiniteSet(1 .. Tests)
        /\ Cardinality(1 .. Tests) = IF 1 > Tests THEN 0 ELSE Tests - 1 + 1
    BY <2>1, FS_Interval
  <2> QED
    BY <1>1, <2>2, ConstantsAssumption
<1>3. /\ IsFiniteSet(Worker \X (1 .. Tests))
      /\ Cardinality(Worker \X (1 .. Tests)) = Cardinality(Worker) * Cardinality(1 .. Tests)
  BY <1>1, <1>2, FS_Product
<1>4. Cardinality(Worker) * Tests = Tests * Cardinality(Worker)
  BY <1>1
<1>5. \A w \in Worker : left[w] \in 0 .. Tests /\ Credit(w) \in 0 .. Tests
  BY <1>1 DEF TypeOK, WorkerInv, Credit
<1>6. Cardinality(Worker \X (1 .. Tests)) \in Nat
  BY <1>3, FS_CardinalityType
<1> QED
  BY <1>2, <1>3, <1>4, <1>5, <1>6 DEF Satellite, Spent

\* A checkout costs one, and nothing gives a credit back.
LEMMA CountStep ==
  ASSUME TypeInv, NEW w \in Worker, Step(w)
  PROVE  CountInv' /\ provisioned' \in {0} \cup Satellite /\ inventory' \subseteq Satellite
<1> USE DEF TypeInv
<1>0. /\ kind \in [Worker -> Kind] /\ phase \in [Worker -> Phase]
      /\ left \in [Worker -> 0..Tests] /\ Tests \in Nat
      /\ inventory \subseteq Satellite /\ provisioned \in {0} \cup Satellite
  BY ConstantsAssumption DEF TypeOK
<1>1. /\ kind' \in [Worker -> Kind] /\ phase' \in [Worker -> Phase]
      /\ left' \in [Worker -> 0..Tests]
      /\ \A v \in Worker : v # w => kind'[v] = kind[v] /\ phase'[v] = phase[v] /\ left'[v] = left[v]
      /\ WorkerInv'
  BY WorkerType
<1>2. /\ left[w] \in 0 .. Tests /\ left'[w] \in 0 .. Tests
      /\ phase[w] = "finished" <=> left[w] = 0
      /\ phase[w] = "finished" => kind[w] = "checkout"
      /\ phase'[w] = "finished" <=> left'[w] = 0
      /\ phase'[w] = "finished" => kind'[w] = "checkout"
  BY <1>0, <1>1 DEF WorkerInv
<1> DEFINE Own == IF kind'[w] = "checkout"
                     /\ phase'[w] \in {"enter", "registering", "setup", "wait", "begin", "act", "finished"}
                  THEN left'[w] ELSE left'[w] - 1
<1>3. Own <= Credit(w) /\ Own \in Int
  <2> USE <1>0, <1>2 DEF Credit, At
  <2>1. ASSUME NEW ok \in BOOLEAN, Out(w, ok), phase[w] \notin {"enter", "finished"}
        PROVE  Own <= Credit(w) /\ Own \in Int
    BY <2>1, OutIs
  <2>2. ASSUME NEW p \in Phase, Stay(w, p), p \notin {"enter", "finished"}, phase[w] # "finished",
               \/ p \notin {"registering", "setup", "wait", "begin", "act"}
               \/ phase[w] \in {"enter", "registering", "setup", "wait", "begin", "act"}
        PROVE  Own <= Credit(w) /\ Own \in Int
    BY <2>2 DEF Stay, Go
  <2>3. CASE WriteBack(w)
    <3>1. phase[w] \in WritePhase
      BY <2>3 DEF WriteBack, TypeInv, WorkerInv
    <3>2. CASE \E p \in {"setup", "wait", "act", "body", "unlink", "leaving", "drain", "report", "check"} :
                 /\ Stay(w, p)
                 /\ p \in {"setup", "wait", "act"} => phase[w] \in {"registering", "setup", "begin"}
      BY <2>2, <3>1, <3>2 DEF Phase, WritePhase
    <3>3. CASE Into(w, "upgrade") \/ Into(w, "checkin")
      BY <3>1, <3>3 DEF Into, Go, WritePhase
    <3>4. CASE Out(w, TRUE) \/ Out(w, FALSE)
      BY <2>1, <3>1, <3>4 DEF WritePhase
    <3> QED
      BY <2>3, <3>2, <3>3, <3>4 DEF WriteBack
  <2>4. CASE Enter(w) \/ SetupFails(w) \/ SeesAllReady(w) \/ MissesFile(w) \/ Poll(w)
    BY <2>2, <2>4 DEF Enter, SetupFails, SeesAllReady, MissesFile, Poll, Phase
  <2>5. CASE Register(w) \/ ExitMisses(w)
    <3>1. CASE Register(w) /\ files[Mine(w)] # NoFile
      <4>1. kind' = kind /\ phase' = phase /\ left' = left
        BY <3>1 DEF Register
      <4> QED
        BY <4>1
    <3>2. CASE ~(Register(w) /\ files[Mine(w)] # NoFile)
      BY <2>1, <2>5, <3>2 DEF Register, ExitMisses
    <3> QED
      BY <3>1, <3>2
  <2>6. CASE Ready(w) \/ UpdateMain(w) \/ Unregister(w) \/ Report(w)
    BY <2>6 DEF Ready, UpdateMain, Unregister, Report, Rewrite
  <2>7. CASE ActionSucceeds(w) \/ ActionFails(w) \/ Drain(w) \/ Check(w)
    BY <2>2, <2>7 DEF ActionSucceeds, ActionFails, Drain, Check, Phase
  <2>8. CASE EndBody(w)
    BY <2>8 DEF EndBody, Go
  <2>9. CASE CannotUnregister(w) \/ Unlink(w)
    BY <2>1, <2>2, <2>9 DEF CannotUnregister, Unlink, Phase
  <2> QED
    BY <2>3, <2>4, <2>5, <2>6, <2>7, <2>8, <2>9 DEF Step
<1>4. Credit(w)' = Own /\ \A v \in Worker : v # w => Credit(v)' = Credit(v)
  BY <1>1 DEF Credit
<1> HIDE DEF Own
<1>5. \A v \in Worker : Credit(v) \in 0 .. Tests
  BY SpentIs
<1>6. Spent \subseteq Spent'
  <2> SUFFICES ASSUME NEW v \in Worker, NEW n \in 1 .. Tests, n > Credit(v)
               PROVE  n > Credit(v)'
    BY DEF Spent
  <2> QED
    BY <1>3, <1>4, <1>5, <1>0
<1>7. IsFiniteSet(Spent') /\ IsFiniteSet(Spent)
      /\ Cardinality(Spent') \in Nat /\ Cardinality(Spent) \in Nat
      /\ Cardinality(Spent') <= Cardinality(Worker \X (1 .. Tests))
      /\ Cardinality(Spent) <= Cardinality(Spent')
  <2>1. Spent' \subseteq Worker \X (1 .. Tests)
    BY DEF Spent
  <2>2. IsFiniteSet(Worker \X (1 .. Tests))
    BY SpentIs
  <2>3. IsFiniteSet(Spent') /\ Cardinality(Spent') <= Cardinality(Worker \X (1 .. Tests))
    BY <2>1, <2>2, FS_Subset
  <2>4. IsFiniteSet(Spent) /\ Cardinality(Spent) <= Cardinality(Spent')
    BY <2>3, <1>6, FS_Subset
  <2> QED
    BY <2>3, <2>4, FS_CardinalityType
<1>8. CASE kind[w] = "checkout" /\ ActionSucceeds(w)
  <2>1. provisioned' = provisioned + 1 /\ inventory' = inventory \cup {provisioned + 1}
    BY <1>8 DEF ActionSucceeds, CheckOut
  <2>2. Credit(w) = left[w] /\ Credit(w)' = left[w] - 1 /\ left[w] \in 1 .. Tests
    BY <1>8, <1>0, <1>2, <1>4 DEF ActionSucceeds, At, Credit, Own, Go, Stay
  <2>3. <<w, left[w]>> \notin Spent /\ <<w, left[w]>> \in Spent'
    BY <2>2, <1>0 DEF Spent
  <2>4. Cardinality(Spent \cup {<<w, left[w]>>}) = Cardinality(Spent) + 1
    BY <2>3, <1>7, FS_AddElement
  <2>5. Spent \cup {<<w, left[w]>>} \subseteq Spent'
    BY <2>3, <1>6
  <2>6. Cardinality(Spent) + 1 <= Cardinality(Spent')
    BY <2>4, <2>5, <1>7, FS_Subset
  <2>7. provisioned \in Nat /\ provisioned <= Cardinality(Spent)
    BY <1>0, SatelliteIs DEF CountInv
  <2>8. provisioned + 1 <= Cardinality(Spent')
    BY <2>6, <2>7, <1>7
  <2>9. provisioned + 1 \in 1 .. Cardinality(Worker \X (1 .. Tests))
    BY <2>7, <2>8, <1>7, SpentIs
  <2> QED
    BY <2>1, <2>8, <2>9, <1>0, SpentIs DEF CountInv
<1>9. CASE ~(kind[w] = "checkout" /\ ActionSucceeds(w))
  <2>1. provisioned' = provisioned /\ inventory' \subseteq inventory
    BY <1>9 DEF Step, WriteBack, Enter, Register, Ready, SetupFails, SeesAllReady, UpdateMain,
                MissesFile, ActionSucceeds, ActionFails, Poll, EndBody, Unregister,
                CannotUnregister, Report, Drain, Check, ExitMisses, Unlink, CheckIn, world
  <2>2. provisioned \in Nat
    BY <1>0, SatelliteIs
  <2> QED
    BY <2>1, <2>2, <1>0, <1>7 DEF CountInv
<1> QED
  BY <1>8, <1>9

LEMMA InitialTypes == Init => TypeInv
<1> SUFFICES ASSUME Init PROVE TypeInv
  OBVIOUS
<1> USE DEF Init
<1>0. Tests \in Nat \ {0} /\ MaxFailures \in Nat
  BY ConstantsAssumption
<1>1. WorkerInv
  BY <1>0 DEF WorkerInv, LeadPhase
<1>2. TypeOK
  <2>1. files \in [Resource -> File \cup {NoFile}] /\ buf \in [Worker -> File \cup {NoFile}]
    OBVIOUS
  <2>2. /\ kind \in [Worker -> Kind] /\ phase \in [Worker -> Phase]
        /\ leads \in [Worker -> SUBSET Kind] /\ left \in [Worker -> 0..Tests]
        /\ sat \in [Worker -> Satellite \cup {NoSat}]
    BY <1>0 DEF Kind, Phase
  <2>3. /\ inventory \subseteq Satellite /\ provisioned \in {0} \cup Satellite
        /\ version \in [Satellite -> {"old", "upgrading", "new", "broken"}]
        /\ failures \in 0..MaxFailures /\ late \subseteq Resource /\ pulled \subseteq Resource
    BY <1>0
  <2> QED
    BY <2>1, <2>2, <2>3 DEF TypeOK
<1>3. IsFiniteSet(Spent)
  BY <1>1, <1>2, SpentIs, FS_Subset
<1>4. Cardinality(Spent) \in Nat
  BY <1>3, FS_CardinalityType
<1>5. CountInv
  BY <1>4 DEF CountInv
<1> QED
  BY <1>1, <1>2, <1>5 DEF TypeInv

\* The version of a Satellite is that which an action on it has left.
LEMMA VersionType ==
  ASSUME TypeInv, NEW w \in Worker, Step(w)
  PROVE  /\ version' \in [Satellite -> {"old", "upgrading", "new", "broken"}]
         /\ failures' \in 0..MaxFailures
<1>1. kind[w] = "upgrade" => sat[w] \in Satellite
  BY MineIs DEF TypeInv
<1>2. /\ version \in [Satellite -> {"old", "upgrading", "new", "broken"}]
      /\ failures \in 0..MaxFailures /\ MaxFailures \in Nat
  BY ConstantsAssumption DEF TypeInv, TypeOK
<1>3. CASE SeesAllReady(w) \/ ActionSucceeds(w) \/ ActionFails(w)
  BY <1>1, <1>2, <1>3 DEF SeesAllReady, ActionSucceeds, ActionFails, Upgrade
<1>4. CASE SetupFails(w)
  BY <1>2, <1>4 DEF SetupFails
<1>5. CASE ~(SeesAllReady(w) \/ ActionSucceeds(w) \/ ActionFails(w) \/ SetupFails(w))
  BY <1>2, <1>5 DEF Step, WriteBack, Enter, Register, Ready, UpdateMain, MissesFile, Poll, EndBody,
                    Unregister, CannotUnregister, Report, Drain, Check, ExitMisses, Unlink, world
<1> QED
  BY <1>3, <1>4, <1>5

LEMMA TypeStep == TypeInv /\ [Next]_vars => TypeInv'
<1>1. ASSUME TypeInv, NEW w \in Worker, Step(w) PROVE TypeInv'
  <2>1. /\ files' \in [Resource -> File \cup {NoFile}] /\ buf' \in [Worker -> File \cup {NoFile}]
        /\ late' \subseteq Resource /\ pulled' \subseteq Resource
    BY <1>1, FilesType DEF TypeInv
  <2>2. /\ kind' \in [Worker -> Kind] /\ phase' \in [Worker -> Phase]
        /\ leads' \in [Worker -> SUBSET Kind] /\ left' \in [Worker -> 0..Tests]
        /\ sat' \in [Worker -> Satellite \cup {NoSat}] /\ WorkerInv'
    BY <1>1, WorkerType DEF TypeInv
  <2>3. CountInv' /\ provisioned' \in {0} \cup Satellite /\ inventory' \subseteq Satellite
    BY <1>1, CountStep
  <2>4. /\ version' \in [Satellite -> {"old", "upgrading", "new", "broken"}]
        /\ failures' \in 0..MaxFailures
    BY <1>1, VersionType
  <2> QED
    BY <2>1, <2>2, <2>3, <2>4 DEF TypeInv, TypeOK
<1>2. ASSUME TypeInv, UNCHANGED vars PROVE TypeInv'
  <2>1. TypeOK' = TypeOK
    BY <1>2 DEF vars, worker, world, TypeOK
  <2>2. WorkerInv' = WorkerInv
    BY <1>2 DEF vars, worker, world, WorkerInv
  <2>3. Spent' = Spent
    BY <1>2 DEF vars, worker, world, Spent, Credit
  <2>4. CountInv' = CountInv
    BY <1>2, <2>3 DEF vars, worker, world, CountInv
  <2> QED
    BY <1>2, <2>1, <2>2, <2>4 DEF TypeInv
<1> QED
  BY <1>1, <1>2 DEF Next

\* The Satellites checked out are never more than the tests there are, and every worker is
\* always at a place that the code has.
THEOREM TypeCorrect == Spec => []TypeOK
<1>1. Spec => []TypeInv
  BY InitialTypes, TypeStep, PTL DEF Spec
<1> QED
  BY <1>1, PTL DEF TypeInv

-----------------------------------------------------------------------------
(* The lock, the file, and its main watcher, of a resource whose file has  *)
(* not been unlinked under anybody.                                        *)

T == <<"tests", 0>>

HolderInv ==
    \A v, w \in Worker : Holds(v) /\ Holds(w) /\ Mine(v) = Mine(w) => v = w

\* What w writes, having read f.
Written(w, f) ==
    IF phase[w] = "registering" THEN With(IF f = NoFile THEN NewFile ELSE f, w, "pending")
    ELSE IF phase[w] = "setup" THEN (IF w \in DOMAIN f.watchers THEN With(f, w, "ready") ELSE f)
    ELSE IF phase[w] \in DOMAIN MainStatus THEN [f EXCEPT !.status = MainStatus[phase[w]]]
    ELSE IF phase[w] \in {"exit", "error", "fnf"} THEN Without(f, w)
    ELSE f

\* What w has read is still there, and it leads if there was no file.
BufAt(w) ==
    /\ buf[w] # NoFile => /\ buf[w] = Written(w, files[Mine(w)])
                          /\ phase[w] # "registering" => files[Mine(w)] # NoFile
    /\ phase[w] = "registering" => /\ kind[w] \in leads[w] <=> files[Mine(w)] = NoFile
                                   /\ kind[w] \in leads[w] => buf[w] # NoFile
BufInv == \A w \in Worker : Mine(w) \notin pulled => BufAt(w)

\* w has registered in the file of r, and has still to unregister or to unlink it.
OnPhase == {"setup", "wait", "begin", "act", "publish", "giveUp", "unlink", "body", "exit"}
On(w, r) == \/ Mine(w) = r /\ phase[w] \in OnPhase
            \/ r = T /\ kind[w] \in {"upgrade", "checkin"}
Watches(w, r) == files[r] # NoFile /\ w \in DOMAIN files[r].watchers
WatchInv == \A w \in Worker, r \in Resource : On(w, r) /\ r \notin pulled => Watches(w, r)

\* It is, or is to be, the main watcher of r.
LeadsOn(w, r) == /\ r[1] \in leads[w]
                 /\ On(w, r) \/ (Mine(w) = r /\ phase[w] = "registering")
LeadInv ==
    \A v, w \in Worker, r \in Resource :
        LeadsOn(v, r) /\ LeadsOn(w, r) /\ r \notin pulled => v = w

FileInv == HolderInv /\ BufInv /\ WatchInv /\ LeadInv

LEMMA NameIs ==
  ASSUME TypeInv, NEW w \in Worker
  PROVE  /\ Mine(w)[1] = kind[w] /\ (Mine(w) = T <=> kind[w] = "tests")
         /\ kind[w] \in Kind /\ T \in Resource
         /\ kind[w] \in {"upgrade", "checkin"} => Mine(w) = <<kind[w], sat[w]>>
BY DEF TypeInv, TypeOK, Mine, Name, T, Kind, Resource

\* The types that the step of one worker leaves, and the variables of the others.
LEMMA StepTypes ==
  ASSUME TypeInv, NEW w \in Worker, Step(w)
  PROVE  /\ TypeInv' /\ pulled \subseteq pulled'
         /\ \A r \in Resource : r # Mine(w) => files'[r] = files[r]
         /\ \A v \in Worker : v # w =>
               /\ kind'[v] = kind[v] /\ phase'[v] = phase[v] /\ leads'[v] = leads[v]
               /\ sat'[v] = sat[v] /\ buf'[v] = buf[v] /\ Mine(v)' = Mine(v)
               /\ Holds(v)' = Holds(v) /\ \A r : On(v, r)' = On(v, r) /\ LeadsOn(v, r)' = LeadsOn(v, r)
<1>1. TypeInv'
  <2>1. [Next]_vars
    BY DEF Next
  <2> QED
    BY <2>1, TypeStep
<1>2. /\ \A r \in Resource : r # Mine(w) => files'[r] = files[r]
      /\ \A v \in Worker : v # w =>
            /\ kind'[v] = kind[v] /\ phase'[v] = phase[v] /\ leads'[v] = leads[v]
            /\ sat'[v] = sat[v] /\ buf'[v] = buf[v]
  BY FilesType, WorkerType DEF TypeInv
<1>3. \A v \in Worker : v # w =>
          /\ Mine(v)' = Mine(v) /\ Holds(v)' = Holds(v)
          /\ \A r : On(v, r)' = On(v, r) /\ LeadsOn(v, r)' = LeadsOn(v, r)
  BY <1>2 DEF Mine, Holds, On, LeadsOn
<1>4. pulled \subseteq pulled'
  BY DEF Step, WriteBack, Enter, Register, Ready, SetupFails, SeesAllReady, UpdateMain, Rewrite,
         MissesFile, ActionSucceeds, ActionFails, Poll, EndBody, Unregister,
         CannotUnregister, Report, Drain, Check, ExitMisses, Unlink
<1> QED
  BY <1>1, <1>2, <1>3, <1>4

\* A step writes back, unlinks, or leaves the files alone.
LEMMA FileStep ==
  ASSUME TypeInv, NEW w \in Worker, Step(w)
  PROVE  \/ /\ WriteBack(w) /\ buf[w] # NoFile /\ files'[Mine(w)] = buf[w] /\ buf'[w] = NoFile
            /\ pulled' = pulled /\ leads' = leads /\ phase[w] \in WritePhase
         \/ /\ Unlink(w) /\ phase[w] \in {"unlink", "discard", "remove"}
            /\ buf[w] = NoFile /\ buf' = buf /\ leads' = leads
            /\ files'[Mine(w)] = NoFile
            /\ files[Mine(w)] = NoFile \/ ~InUse(w) \/ Mine(w) \in pulled'
         \/ ~WriteBack(w) /\ ~Unlink(w) /\ files' = files /\ pulled' = pulled
<1>1. /\ Mine(w) \in Resource /\ files \in [Resource -> File \cup {NoFile}]
      /\ buf \in [Worker -> File \cup {NoFile}] /\ (buf[w] # NoFile => phase[w] \in WritePhase)
  BY MineIs DEF TypeInv, TypeOK, WorkerInv
<1>2. CASE WriteBack(w)
  BY <1>1, <1>2 DEF WriteBack
<1>3. CASE Unlink(w)
  BY <1>1, <1>3 DEF Unlink, At
<1>4. CASE ~WriteBack(w) /\ ~Unlink(w)
  BY <1>4 DEF Step, Enter, Register, Ready, SetupFails, SeesAllReady, UpdateMain, Rewrite,
              MissesFile, ActionSucceeds, ActionFails, Poll, EndBody, Unregister,
              CannotUnregister, Report, Drain, Check, ExitMisses
<1> QED
  BY <1>2, <1>3, <1>4

\* The file of one that holds its lock stays as it is, unless it is unlinked.
LEMMA HeldFile ==
  ASSUME TypeInv, HolderInv, NEW w \in Worker, Step(w),
         NEW v \in Worker, v # w, Holds(v), Mine(v) \notin pulled'
  PROVE  files'[Mine(v)] = files[Mine(v)]
<1>1. CASE Mine(v) # Mine(w)
  BY <1>1, MineIs, StepTypes DEF TypeInv
<1>2. CASE Mine(v) = Mine(w)
  <2>1. ~Holds(w) /\ buf[w] = NoFile
    BY <1>2 DEF HolderInv, Holds
  <2>2. InUse(w)
    BY <1>2 DEF InUse, Unlocked
  <2> QED
    BY <1>2, <2>1, <2>2, FileStep
<1> QED
  BY <1>1, <1>2

\* The lock is taken when it is free, and its holder stays at its resource.
LEMMA HoldStep ==
  ASSUME TypeInv, NEW w \in Worker, Step(w), Holds(w)'
  PROVE  /\ Mine(w)' = Mine(w) /\ kind'[w] = kind[w] /\ buf[w] = NoFile
         /\ files' = files /\ pulled' = pulled
         /\ \/ Enter(w) /\ Unlocked(Mine(w)) /\ phase'[w] = "registering"
            \/ /\ Register(w) /\ files[Mine(w)] # NoFile
               /\ phase[w] = "registering" /\ phase'[w] = phase[w] /\ leads' = leads
            \/ /\ Ready(w) \/ UpdateMain(w) \/ Unregister(w) \/ Report(w)
               /\ phase[w] # "registering" /\ Unlocked(Mine(w)) /\ files[Mine(w)] # NoFile
               /\ phase'[w] = phase[w] /\ leads' = leads
<1>0. /\ kind \in [Worker -> Kind] /\ phase \in [Worker -> Phase] /\ buf \in [Worker -> File \cup {NoFile}]
  BY DEF TypeInv, TypeOK
<1> USE DEF Holds, Mine, At
<1>1. ASSUME NEW p \in Phase, Stay(w, p), buf'[w] = NoFile, p # "registering" PROVE FALSE
  BY <1>0, <1>1 DEF Stay, Go
<1>2. ASSUME NEW ok \in BOOLEAN, Out(w, ok), buf'[w] = NoFile PROVE FALSE
  BY <1>0, <1>2, OutIs
<1> USE DEF Phase
<1>3. CASE WriteBack(w)
  <2>1. CASE \E p \in {"setup", "wait", "act", "body", "unlink", "leaving", "drain", "report", "check"} :
               Stay(w, p)
    BY <1>0, <1>1, <1>3, <2>1 DEF WriteBack
  <2>2. CASE Into(w, "upgrade") \/ Into(w, "checkin")
    BY <1>0, <1>3, <2>2 DEF WriteBack, Into, Go
  <2>3. CASE Out(w, TRUE) \/ Out(w, FALSE)
    BY <1>0, <1>2, <1>3, <2>3 DEF WriteBack
  <2> QED
    BY <1>3, <2>1, <2>2, <2>3 DEF WriteBack
<1>4. CASE Enter(w)
  BY <1>0, <1>4 DEF Enter, Stay, Go
<1>5. CASE Register(w)
  BY <1>0, <1>2, <1>5 DEF Register
<1>6. CASE Ready(w) \/ UpdateMain(w) \/ Unregister(w) \/ Report(w)
  <2>1. /\ kind' = kind /\ phase' = phase /\ sat' = sat /\ leads' = leads
        /\ phase[w] # "registering" /\ buf[w] = NoFile /\ files' = files /\ pulled' = pulled
        /\ Unlocked(Mine(w)) /\ files[Mine(w)] # NoFile
    BY <1>6 DEF Ready, UpdateMain, MainStatus, Unregister, Report, Rewrite, Finds
  <2> QED
    BY <1>6, <2>1
<1>7. CASE SetupFails(w) \/ SeesAllReady(w) \/ MissesFile(w) \/ ActionSucceeds(w) \/ ActionFails(w)
  BY <1>1, <1>7 DEF SetupFails, SeesAllReady, MissesFile, ActionSucceeds, ActionFails
<1>8. CASE Poll(w) \/ Drain(w) \/ Check(w)
  BY <1>1, <1>8 DEF Poll, Drain, Check
<1>9. CASE EndBody(w)
  BY <1>0, <1>9 DEF EndBody, Go
<1>10. CASE CannotUnregister(w) \/ ExitMisses(w) \/ Unlink(w)
  BY <1>1, <1>2, <1>10 DEF CannotUnregister, ExitMisses, Unlink
<1> QED
  BY <1>3, <1>4, <1>5, <1>6, <1>7, <1>8, <1>9, <1>10 DEF Step

\* A worker comes to a file by registering, and it leaves before it changes the file back.
LEMMA OnStep ==
  ASSUME TypeInv, NEW w \in Worker, Step(w), NEW q \in Resource, On(w, q)'
  PROVE  \/ q = Mine(w) /\ WriteBack(w) /\ phase[w] = "registering"
         \/ On(w, q) /\ q # Mine(w)
         \/ On(w, q) /\ q = Mine(w) /\ WriteBack(w) /\ phase[w] \in {"setup", "begin", "publish", "giveUp"}
         \/ On(w, q) /\ q = Mine(w) /\ ~WriteBack(w) /\ ~Unlink(w)
<1> DEFINE Goal == \/ q = Mine(w) /\ WriteBack(w) /\ phase[w] = "registering"
                   \/ On(w, q) /\ q # Mine(w)
                   \/ /\ On(w, q) /\ q = Mine(w) /\ WriteBack(w)
                      /\ phase[w] \in {"setup", "begin", "publish", "giveUp"}
                   \/ On(w, q) /\ q = Mine(w) /\ ~WriteBack(w) /\ ~Unlink(w)
<1>0. /\ kind \in [Worker -> Kind] /\ phase \in [Worker -> Phase] /\ sat \in [Worker -> Satellite \cup {NoSat}]
      /\ kind[w] \in Kind /\ (buf[w] # NoFile => phase[w] \in WritePhase)
      /\ phase[w] = "act" => kind[w] # "tests"
  BY DEF TypeInv, TypeOK, WorkerInv
<1>a. Mine(w) = T <=> kind[w] = "tests"
  BY NameIs
<1>b. kind'[w] = "tests" => Mine(w)' = T
  BY DEF Mine, Name, T
<1> USE DEF At
\* Out of upgrade and checkin, into tests, whose file is not that of the step.
<1>1. ASSUME NEW ok \in BOOLEAN, Out(w, ok) PROVE On(w, q) /\ q # Mine(w)
  <2>1. q = T /\ kind[w] \in {"upgrade", "checkin"}
    BY <1>0, <1>1, <1>a, <1>b, OutIs DEF On, OnPhase
  <2> QED
    BY <2>1, <1>a DEF On
<1>2. ASSUME NEW p \in Phase, Stay(w, p)
      PROVE  \/ q = Mine(w) /\ p \in OnPhase
             \/ q = T /\ kind[w] \in {"upgrade", "checkin"} /\ On(w, q) /\ q # Mine(w)
  <2>1. kind'[w] = kind[w] /\ phase'[w] = p /\ Mine(w)' = Mine(w)
    BY <1>0, <1>2 DEF Stay, Go, Mine
  <2> QED
    BY <2>1, <1>a DEF On
<1> HIDE DEF Goal
<1>3. CASE WriteBack(w)
  <2>0. phase[w] \in WritePhase
    BY <1>0, <1>3 DEF WriteBack
  <2>1. CASE phase[w] = "registering"
    <3>1. CASE Stay(w, "setup")
      BY <1>3, <2>1, <3>1, <1>2 DEF Goal, Phase
    <3>2. CASE kind[w] = "tests" /\ Into(w, "upgrade")
      <4>1. kind'[w] = "upgrade" /\ phase'[w] = "enter"
        BY <1>0, <3>2 DEF Into, Go
      <4>2. q = T
        BY <4>1 DEF On, OnPhase
      <4> QED
        BY <1>3, <2>1, <3>2, <4>2, <1>a DEF Goal
    <3> QED
      BY <1>3, <2>1, <3>1, <3>2 DEF WriteBack
  <2>2. CASE phase[w] \in {"setup", "begin", "publish", "giveUp"}
    <3>1. CASE \E p \in {"wait", "act", "body", "unlink"} : Stay(w, p)
      BY <1>3, <2>2, <3>1, <1>2 DEF Goal, Phase, On, OnPhase
    <3>2. CASE kind[w] = "tests" /\ Into(w, "checkin")
      <4>1. kind'[w] = "checkin" /\ phase'[w] = "enter"
        BY <1>0, <3>2 DEF Into, Go
      <4>2. q = T
        BY <4>1 DEF On, OnPhase
      <4> QED
        BY <1>3, <2>2, <3>2, <4>2, <1>a DEF Goal, On, OnPhase
    <3> QED
      BY <1>3, <2>2, <3>1, <3>2 DEF WriteBack
  <2>3. CASE phase[w] \in {"exit", "leaving", "error", "report"}
    <3>1. CASE \E p \in {"leaving", "drain", "report", "check"} : Stay(w, p)
      BY <3>1, <1>2 DEF Goal, Phase, OnPhase
    <3>2. CASE Out(w, TRUE) \/ Out(w, FALSE)
      BY <3>2, <1>1 DEF Goal
    <3> QED
      BY <1>3, <2>3, <3>1, <3>2 DEF WriteBack
  <2>4. CASE phase[w] \in {"fnf", "tell"}
    BY <1>1, <1>3, <2>4 DEF WriteBack, Goal
  <2> QED
    BY <2>0, <2>1, <2>2, <2>3, <2>4 DEF WritePhase
<1>4. CASE Unlink(w)
  <2>1. CASE Stay(w, "fnf") \/ Stay(w, "error")
    BY <2>1, <1>2 DEF Goal, Phase, OnPhase
  <2>2. CASE Out(w, TRUE) \/ Out(w, FALSE)
    BY <2>2, <1>1 DEF Goal
  <2> QED
    BY <1>4, <2>1, <2>2 DEF Unlink
<1> USE DEF Goal
<1>5. ASSUME ~WriteBack(w), ~Unlink(w) PROVE On(w, q)
  <2>1. ASSUME NEW p \in Phase, Stay(w, p), p \in OnPhase => phase[w] \in OnPhase PROVE On(w, q)
    BY <2>1, <1>2 DEF On
  <2>2. CASE Enter(w)
    BY <2>1, <2>2 DEF Enter, Phase, OnPhase
  <2>3. CASE Register(w)
    <3>1. CASE kind' = kind /\ phase' = phase /\ sat' = sat
      BY <3>1 DEF On, Mine
    <3>2. CASE Out(w, FALSE)
      BY <1>1, <3>2
    <3> QED
      BY <2>3, <3>1, <3>2 DEF Register
  <2>4. CASE Ready(w) \/ UpdateMain(w) \/ Unregister(w) \/ Report(w)
    <3>1. kind' = kind /\ phase' = phase /\ sat' = sat
      BY <2>4 DEF Ready, UpdateMain, Unregister, Report, Rewrite
    <3> QED
      BY <3>1 DEF On, Mine
  <2>5. CASE SetupFails(w) \/ SeesAllReady(w) \/ MissesFile(w) \/ ActionSucceeds(w) \/ ActionFails(w)
    BY <2>1, <2>5 DEF SetupFails, SeesAllReady, MissesFile, ActionSucceeds, ActionFails, Phase, OnPhase
  <2>6. CASE Poll(w) \/ Drain(w) \/ Check(w)
    BY <2>1, <2>6 DEF Poll, Drain, Check, Phase, OnPhase
  <2>7. CASE EndBody(w)
    <3>1. kind'[w] = kind[w] /\ phase[w] = "body" /\ (kind[w] # "checkout" => sat'[w] = sat[w])
      BY <1>0, <2>7 DEF EndBody, Go
    <3>2. Mine(w)' = Mine(w)
      BY <3>1 DEF Mine, Name
    <3> QED
      BY <3>1, <3>2 DEF On, OnPhase
  <2>8. CASE CannotUnregister(w) \/ ExitMisses(w)
    BY <1>1, <2>1, <2>8 DEF CannotUnregister, ExitMisses, Phase, OnPhase
  <2> QED
    BY <1>5, <2>2, <2>3, <2>4, <2>5, <2>6, <2>7, <2>8 DEF Step
<1> QED
  BY <1>3, <1>4, <1>5

LEMMA LeadsStep ==
  ASSUME TypeInv, NEW w \in Worker, Step(w)
  PROVE  leads' = leads \/ Enter(w)
BY DEF Step, WriteBack, Register, Ready, SetupFails, SeesAllReady, UpdateMain, Rewrite,
       MissesFile, ActionSucceeds, ActionFails, Poll, EndBody, Unregister,
       CannotUnregister, Report, Drain, Check, ExitMisses, Unlink

\* Only exists() makes a main watcher, when there is no file.
LEMMA LeadsOnStep ==
  ASSUME TypeInv, NEW w \in Worker, Step(w), NEW q \in Resource, LeadsOn(w, q)'
  PROVE  LeadsOn(w, q) \/ (Enter(w) /\ q = Mine(w) /\ files[q] = NoFile /\ Unlocked(q))
<1>0. /\ kind \in [Worker -> Kind] /\ phase \in [Worker -> Phase] /\ leads \in [Worker -> SUBSET Kind]
      /\ kind[w] \in Kind /\ Mine(w)[1] = kind[w]
  BY NameIs DEF TypeInv, TypeOK
<1>1. CASE Enter(w)
  <2>1. /\ kind'[w] = kind[w] /\ phase'[w] = "registering" /\ Mine(w)' = Mine(w)
        /\ Unlocked(Mine(w))
        /\ leads'[w] = IF IsFirst(files[Mine(w)]) THEN leads[w] \cup {kind[w]} ELSE leads[w] \ {kind[w]}
    BY <1>0, <1>1 DEF Enter, Stay, Go, Mine
  <2>2. CASE q = Mine(w)
    BY <1>0, <1>1, <2>1, <2>2 DEF LeadsOn, IsFirst
  <2>3. CASE q # Mine(w)
    <3>1. On(w, q)' /\ q = T /\ kind[w] \in {"upgrade", "checkin"}
      BY <2>1, <2>3 DEF LeadsOn, On
    <3>2. "tests" \in leads[w]
      BY <2>1, <3>1 DEF LeadsOn, T
    <3> QED
      BY <3>1, <3>2 DEF LeadsOn, On, T
  <2> QED
    BY <2>2, <2>3
<1>2. CASE ~Enter(w)
  <2>1. q[1] \in leads[w]
    BY <1>2, LeadsStep DEF LeadsOn
  <2>2. CASE On(w, q)'
    BY <2>1, <2>2, OnStep DEF LeadsOn
  <2>3. CASE Mine(w)' = q /\ phase'[w] = "registering"
    <3>1. Holds(w)'
      BY <2>3 DEF Holds
    <3>2. Mine(w) = q /\ phase[w] = "registering"
      BY <1>2, <2>3, <3>1, HoldStep
    <3> QED
      BY <2>1, <3>2 DEF LeadsOn
  <2> QED
    BY <2>2, <2>3 DEF LeadsOn
<1> QED
  BY <1>1, <1>2

\* What is written leaves the others' statuses, and the main one but for the main watcher.
LEMMA WrittenIs ==
  ASSUME NEW w \in Worker, NEW f \in File, phase[w] \in WritePhase
  PROVE  /\ Written(w, f) \in File
         /\ \A v \in Worker : v # w =>
               /\ v \in DOMAIN Written(w, f).watchers <=> v \in DOMAIN f.watchers
               /\ v \in DOMAIN f.watchers => Written(w, f).watchers[v] = f.watchers[v]
         /\ phase[w] = "registering" => /\ w \in DOMAIN Written(w, f).watchers
                                        /\ Written(w, f).watchers[w] = "pending"
         /\ phase[w] \notin {"exit", "error", "fnf"} /\ w \in DOMAIN f.watchers
               => w \in DOMAIN Written(w, f).watchers
         /\ Written(w, f).status = IF phase[w] \in DOMAIN MainStatus THEN MainStatus[phase[w]]
                                   ELSE f.status
<1>0. f # NoFile /\ DOMAIN f.watchers \subseteq Worker
  BY FileIs
<1>a. DOMAIN MainStatus = {"begin", "publish", "giveUp", "tell"}
  BY DEF MainStatus
<1>b. ASSUME NEW st \in {"pending", "ready"}
      PROVE  /\ With(f, w, st) \in File /\ With(f, w, st).status = f.status
             /\ w \in DOMAIN With(f, w, st).watchers /\ With(f, w, st).watchers[w] = st
             /\ \A v \in Worker : v # w =>
                   /\ v \in DOMAIN With(f, w, st).watchers <=> v \in DOMAIN f.watchers
                   /\ v \in DOMAIN f.watchers => With(f, w, st).watchers[v] = f.watchers[v]
  <2> DEFINE g == With(f, w, st)
  <2>1. /\ g \in File /\ g.status = f.status
        /\ DOMAIN g.watchers = DOMAIN f.watchers \cup {w} /\ g.watchers[w] = st
        /\ \A v \in DOMAIN f.watchers : v # w => g.watchers[v] = f.watchers[v]
    BY <1>b, WithIs
  <2> HIDE DEF g
  <2>2. /\ g \in File /\ g.status = f.status /\ w \in DOMAIN g.watchers /\ g.watchers[w] = st
        /\ \A v \in Worker : v # w =>
              /\ v \in DOMAIN g.watchers <=> v \in DOMAIN f.watchers
              /\ v \in DOMAIN f.watchers => g.watchers[v] = f.watchers[v]
    BY <2>1
  <2> QED
    BY <2>2 DEF g
<1>1. CASE phase[w] = "registering"
  <2>1. Written(w, f) = With(f, w, "pending")
    BY <1>0, <1>1 DEF Written
  <2>2. phase[w] \notin DOMAIN MainStatus /\ phase[w] # "setup"
    BY <1>1, <1>a
  <2> QED
    BY <1>b, <1>1, <2>1, <2>2
<1>2. CASE phase[w] = "setup"
  <2>1. Written(w, f) = f \/ (w \in DOMAIN f.watchers /\ Written(w, f) = With(f, w, "ready"))
    BY <1>0, <1>2 DEF Written
  <2>2. phase[w] \notin DOMAIN MainStatus /\ phase[w] \notin {"registering"}
    BY <1>2, <1>a
  <2>3. CASE Written(w, f) = f
    BY <1>2, <2>2, <2>3
  <2>4. CASE Written(w, f) = With(f, w, "ready")
    BY <1>b, <1>2, <2>2, <2>4
  <2> QED
    BY <2>1, <2>3, <2>4
<1>3. CASE phase[w] \in DOMAIN MainStatus
  <2>1. PICK s \in {"waiting", "acting", "done", "error"} : s = MainStatus[phase[w]]
    BY <1>3 DEF MainStatus
  <2>2. Written(w, f) = [f EXCEPT !.status = s]
    BY <1>3, <1>a, <2>1 DEF Written
  <2>3. /\ Written(w, f) \in File /\ Written(w, f).status = MainStatus[phase[w]]
        /\ Written(w, f).watchers = f.watchers
    <3> DEFINE g == [f EXCEPT !.status = s]
    <3>1. g \in File /\ g.status = s /\ g.watchers = f.watchers
      BY StatusIs
    <3> HIDE DEF g
    <3>2. Written(w, f) = g
      BY <2>2 DEF g
    <3> QED
      BY <2>1, <3>1, <3>2
  <2>4. phase[w] # "registering"
    BY <1>3, <1>a
  <2> QED
    BY <1>3, <2>3, <2>4
<1>4. CASE phase[w] \in {"exit", "error", "fnf"}
  <2>1. Written(w, f) = Without(f, w)
    BY <1>0, <1>4, <1>a DEF Written
  <2>2. phase[w] \notin DOMAIN MainStatus /\ phase[w] # "registering"
    BY <1>4, <1>a
  <2> DEFINE g == Written(w, f)
  <2>3. /\ g \in File /\ g.status = f.status /\ DOMAIN g.watchers = DOMAIN f.watchers \ {w}
        /\ \A v \in DOMAIN f.watchers : v # w => g.watchers[v] = f.watchers[v]
    BY <2>1, WithoutIs
  <2> HIDE DEF g
  <2>4. \A v \in Worker : v # w =>
           /\ v \in DOMAIN g.watchers <=> v \in DOMAIN f.watchers
           /\ v \in DOMAIN f.watchers => g.watchers[v] = f.watchers[v]
    BY <2>3
  <2> QED
    BY <1>4, <2>2, <2>3, <2>4 DEF g
<1>5. CASE phase[w] \in {"leaving", "report"}
  BY <1>0, <1>5, <1>a DEF Written
<1> QED
  BY <1>1, <1>2, <1>3, <1>4, <1>5, <1>a DEF WritePhase

LEMMA NewlyWritten ==
  ASSUME NEW w \in Worker, phase[w] = "registering"
  PROVE  /\ Written(w, NoFile) \in File /\ Written(w, NoFile).status = "waiting"
         /\ DOMAIN Written(w, NoFile).watchers = {w}
         /\ Written(w, NoFile).watchers[w] = "pending"
<1>1. Written(w, NoFile) = With(NewFile, w, "pending")
  BY DEF Written
<1> QED
  BY <1>1, NewFileType, WithIs

LEMMA HolderStep == TypeInv /\ HolderInv /\ [Next]_vars => HolderInv'
<1>1. ASSUME TypeInv, HolderInv, NEW w \in Worker, Step(w) PROVE HolderInv'
  <2> SUFFICES ASSUME NEW v \in Worker, v # w, Holds(v), Holds(w)', Mine(v) = Mine(w)'
               PROVE  FALSE
    BY <1>1, StepTypes DEF HolderInv
  <2>1. Mine(w) = Mine(v) /\ (Holds(w) \/ Unlocked(Mine(w)))
    BY <1>1, HoldStep DEF Holds
  <2> QED
    BY <1>1, <2>1 DEF HolderInv, Unlocked
<1>2. ASSUME HolderInv, UNCHANGED vars PROVE HolderInv'
  BY <1>2 DEF vars, worker, HolderInv, Holds, Mine
<1> QED
  BY <1>1, <1>2 DEF Next

LEMMA BufStep == TypeInv /\ HolderInv /\ BufInv /\ [Next]_vars => BufInv'
<1>1. ASSUME TypeInv, HolderInv, BufInv, NEW w \in Worker, Step(w) PROVE BufInv'
  <2>0. TypeInv' /\ pulled \subseteq pulled'
    BY <1>1, StepTypes
  <2>1. ASSUME NEW v \in Worker, v # w, Mine(v)' \notin pulled' PROVE BufAt(v)'
    <3>1. Mine(v) \notin pulled' /\ BufAt(v)
      BY <1>1, <2>0, <2>1, StepTypes DEF BufInv
    <3>2. CASE Holds(v)
      <4>1. files'[Mine(v)] = files[Mine(v)]
        BY <1>1, <2>1, <3>1, <3>2, HeldFile
      <4>2. /\ kind'[v] = kind[v] /\ phase'[v] = phase[v] /\ leads'[v] = leads[v]
            /\ buf'[v] = buf[v] /\ Mine(v)' = Mine(v)
        BY <1>1, <2>1, StepTypes
      <4>3. Written(v, files[Mine(v)])' = Written(v, files[Mine(v)])
        BY <4>1, <4>2 DEF Written
      <4> QED
        BY <3>1, <4>1, <4>2, <4>3 DEF BufAt
    <3>3. CASE ~Holds(v)
      BY <1>1, <2>1, <3>3, StepTypes DEF BufAt, Holds
    <3> QED
      BY <3>2, <3>3
  <2>2. ASSUME Mine(w)' \notin pulled' PROVE BufAt(w)'
    <3>1. CASE ~Holds(w)'
      BY <3>1 DEF BufAt, Holds
    <3>2. CASE Holds(w)'
      <4> DEFINE r == Mine(w)
                 f == files[r]
      <4>0. /\ Mine(w)' = r /\ kind'[w] = kind[w] /\ buf[w] = NoFile
            /\ files' = files /\ pulled' = pulled /\ files'[r] = f
        BY <1>1, <3>2, HoldStep
      <4>1. BufAt(w)
        BY <1>1, <2>2, <4>0 DEF BufInv
      <4>2. buf \in [Worker -> File \cup {NoFile}] /\ leads \in [Worker -> SUBSET Kind]
            /\ f \in File \cup {NoFile}
        BY <1>1, MineIs DEF TypeInv, TypeOK
      <4>3. ASSUME NEW g \in File, buf' = [buf EXCEPT ![w] = g], phase'[w] = phase[w],
                   phase[w] # "registering", f # NoFile, g = Written(w, f)
            PROVE  BufAt(w)'
        <5>1. Written(w, f)' = Written(w, f) /\ files[Mine(w)]' = f
          BY <4>0, <4>3 DEF Written
        <5> QED
          BY <4>0, <4>2, <4>3, <5>1 DEF BufAt
      <4>4. ASSUME buf'[w] = With(IF f = NoFile THEN NewFile ELSE f, w, "pending"),
                   phase'[w] = "registering", kind[w] \in leads'[w] <=> f = NoFile
            PROVE  BufAt(w)'
        <5>1. Written(w, files[Mine(w)])' = With(IF f = NoFile THEN NewFile ELSE f, w, "pending")
          BY <4>0, <4>4 DEF Written
        <5>2. buf'[w] # NoFile
          BY <4>2, <4>4, WithIs, NewFileType, ConstantsAssumption
        <5> QED
          BY <4>0, <4>4, <5>1, <5>2 DEF BufAt
      <4>5. CASE Enter(w)
        <5>1. phase'[w] = "registering" /\ (kind[w] \in leads'[w] <=> f = NoFile)
          BY <1>1, <4>2, <4>5 DEF Enter, IsFirst, Stay, Go, TypeInv, TypeOK
        <5>2. CASE f = NoFile
          BY <4>2, <4>4, <4>5, <5>1, <5>2 DEF Enter, Registers
        <5>3. CASE f # NoFile
          BY <4>0, <4>5, <5>1, <5>3 DEF Enter, BufAt
        <5> QED
          BY <5>2, <5>3
      <4>6. CASE Register(w) /\ f # NoFile /\ phase[w] = "registering" /\ phase'[w] = phase[w] /\ leads' = leads
        <5>1. buf'[w] = With(f, w, "pending")
          BY <4>2, <4>6 DEF Register, Registers
        <5> QED
          BY <4>1, <4>4, <4>6, <5>1 DEF BufAt
      <4>7. CASE /\ Ready(w) \/ UpdateMain(w) \/ Unregister(w) \/ Report(w)
                 /\ phase[w] # "registering" /\ f # NoFile
                 /\ phase'[w] = phase[w] /\ leads' = leads
        <5>1. f \in File
          BY <4>2, <4>7
        <5>2. phase[w] \in WritePhase /\ buf' = [buf EXCEPT ![w] = Written(w, f)]
          <6>1. CASE Ready(w)
            BY <6>1 DEF Ready, Rewrite, Written, At, WritePhase
          <6>2. CASE UpdateMain(w)
            BY <6>2 DEF UpdateMain, Rewrite, Written, MainStatus, WritePhase
          <6>3. CASE Unregister(w)
            BY <6>3 DEF Unregister, Rewrite, Written, MainStatus, At, WritePhase
          <6>4. CASE Report(w)
            BY <6>4 DEF Report, Rewrite, Written, MainStatus, At, WritePhase
          <6> QED
            BY <4>7, <6>1, <6>2, <6>3, <6>4
        <5>3. Written(w, f) \in File
          BY <5>1, <5>2, WrittenIs
        <5> QED
          BY <4>3, <4>7, <5>2, <5>3
      <4> QED
        BY <1>1, <3>2, <4>5, <4>6, <4>7, HoldStep
    <3> QED
      BY <3>1, <3>2
  <2> QED
    BY <2>1, <2>2 DEF BufInv
<1>2. ASSUME BufInv, UNCHANGED vars PROVE BufInv'
  BY <1>2 DEF vars, worker, BufInv, BufAt, Written, Mine
<1> QED
  BY <1>1, <1>2 DEF Next

\* What writing back does to a file that nobody has unlinked.
LEMMA WriteIs ==
  ASSUME TypeInv, BufInv, NEW w \in Worker, WriteBack(w), Mine(w) \notin pulled
  PROVE  LET f == files[Mine(w)]
             g == files'[Mine(w)] IN
         /\ g \in File /\ phase[w] \in WritePhase /\ Holds(w)
         /\ \/ /\ f \in File
               /\ \A v \in Worker : v # w =>
                     /\ v \in DOMAIN g.watchers <=> v \in DOMAIN f.watchers
                     /\ v \in DOMAIN f.watchers => g.watchers[v] = f.watchers[v]
               /\ phase[w] \notin {"exit", "error", "fnf"} /\ w \in DOMAIN f.watchers
                     => w \in DOMAIN g.watchers
               /\ g.status = IF phase[w] \in DOMAIN MainStatus THEN MainStatus[phase[w]] ELSE f.status
               /\ phase[w] = "registering" => kind[w] \notin leads[w]
            \/ /\ f = NoFile /\ phase[w] = "registering" /\ kind[w] \in leads[w]
               /\ g.status = "waiting" /\ DOMAIN g.watchers = {w}
         /\ phase[w] = "registering" => w \in DOMAIN g.watchers /\ g.watchers[w] = "pending"
<1> DEFINE f == files[Mine(w)]
           g == files'[Mine(w)]
<1>1. /\ f \in File \cup {NoFile} /\ phase[w] \in WritePhase /\ buf[w] # NoFile
      /\ g = Written(w, f) /\ (phase[w] # "registering" => f # NoFile)
      /\ phase[w] = "registering" => (kind[w] \in leads[w] <=> f = NoFile)
  BY MineIs DEF BufInv, BufAt, WriteBack, TypeInv, TypeOK, WorkerInv
<1>2. Holds(w)
  BY <1>1 DEF Holds
<1>3. CASE f = NoFile
  <2>1. /\ g \in File /\ g.status = "waiting" /\ DOMAIN g.watchers = {w}
        /\ g.watchers[w] = "pending" /\ phase[w] = "registering" /\ kind[w] \in leads[w]
    BY <1>1, <1>3, NewlyWritten
  <2> HIDE DEF f, g
  <2> QED
    BY <1>1, <1>2, <1>3, <2>1 DEF f, g
<1>4. CASE f \in File
  <2>0. f # NoFile
    BY <1>4, FileIs
  <2>1. /\ g \in File
        /\ \A v \in Worker : v # w =>
              /\ v \in DOMAIN g.watchers <=> v \in DOMAIN f.watchers
              /\ v \in DOMAIN f.watchers => g.watchers[v] = f.watchers[v]
        /\ phase[w] = "registering" => w \in DOMAIN g.watchers /\ g.watchers[w] = "pending"
        /\ phase[w] \notin {"exit", "error", "fnf"} /\ w \in DOMAIN f.watchers
              => w \in DOMAIN g.watchers
        /\ g.status = IF phase[w] \in DOMAIN MainStatus THEN MainStatus[phase[w]] ELSE f.status
    BY <1>1, <1>4, WrittenIs
  <2> HIDE DEF f, g
  <2> QED
    BY <1>1, <1>2, <1>4, <2>0, <2>1 DEF f, g
<1> QED
  BY <1>1, <1>3, <1>4

LEMMA WatchStep == TypeInv /\ BufInv /\ WatchInv /\ [Next]_vars => WatchInv'
<1>1. ASSUME TypeInv, BufInv, WatchInv, NEW w \in Worker, Step(w) PROVE WatchInv'
  <2>0. TypeInv' /\ pulled \subseteq pulled' /\ \A r \in Resource : r # Mine(w) => files'[r] = files[r]
    BY <1>1, StepTypes
  <2> SUFFICES ASSUME NEW v \in Worker, NEW r \in Resource, On(v, r)', r \notin pulled'
               PROVE  files'[r] # NoFile /\ v \in DOMAIN files'[r].watchers
    BY DEF WatchInv, Watches
  <2>a. Mine(w) \in Resource /\ r \notin pulled
    BY <1>1, <2>0, MineIs DEF TypeInv
  <2>b. On(v, r) => files[r] # NoFile /\ v \in DOMAIN files[r].watchers
    BY <1>1, <2>a DEF WatchInv, Watches
  <2>1. CASE v # w
    <3>1. files[r] # NoFile /\ v \in DOMAIN files[r].watchers
      BY <1>1, <2>1, <2>b, StepTypes
    <3>2. CASE r # Mine(w)
      BY <2>0, <3>1, <3>2
    <3>3. CASE r = Mine(w) /\ WriteBack(w)
      <4>1. files'[r] \in File /\ (v \in DOMAIN files'[r].watchers <=> v \in DOMAIN files[r].watchers)
        BY <1>1, <2>1, <2>a, <3>1, <3>3, WriteIs
      <4> QED
        BY <3>1, <4>1, FileIs
    <3>4. CASE r = Mine(w) /\ Unlink(w)
      <4>1. InUse(w)
        BY <2>1, <3>1, <3>4 DEF InUse
      <4> QED
        BY <1>1, <3>1, <3>4, <4>1 DEF Unlink
    <3>5. CASE r = Mine(w) /\ ~WriteBack(w) /\ ~Unlink(w)
      BY <1>1, <3>1, <3>5, FileStep
    <3> QED
      BY <3>2, <3>3, <3>4, <3>5
  <2>2. CASE v = w
    <3>1. CASE r = Mine(w) /\ WriteBack(w) /\ phase[w] = "registering"
      <4>1. files'[r] \in File /\ w \in DOMAIN files'[r].watchers
        BY <1>1, <2>a, <3>1, WriteIs
      <4> QED
        BY <2>2, <4>1, FileIs
    <3>2. CASE On(w, r) /\ r # Mine(w)
      BY <2>0, <2>2, <2>b, <3>2
    <3>3. CASE On(w, r) /\ r = Mine(w) /\ WriteBack(w) /\ phase[w] \in {"setup", "begin", "publish", "giveUp"}
      <4>1. files'[r] \in File /\ w \in DOMAIN files'[r].watchers
        BY <1>1, <2>2, <2>a, <2>b, <3>3, WriteIs
      <4> QED
        BY <2>2, <4>1, FileIs
    <3>4. CASE On(w, r) /\ r = Mine(w) /\ ~WriteBack(w) /\ ~Unlink(w)
      BY <1>1, <2>2, <2>b, <3>4, FileStep
    <3> QED
      BY <1>1, <2>2, <3>1, <3>2, <3>3, <3>4, OnStep
  <2> QED
    BY <2>1, <2>2
<1>2. ASSUME WatchInv, UNCHANGED vars PROVE WatchInv'
  BY <1>2 DEF vars, worker, WatchInv, Watches, On, Mine
<1> QED
  BY <1>1, <1>2 DEF Next

LEMMA LeadStep == TypeInv /\ WatchInv /\ LeadInv /\ [Next]_vars => LeadInv'
<1>1. ASSUME TypeInv, WatchInv, LeadInv, NEW w \in Worker, Step(w) PROVE LeadInv'
  <2> SUFFICES ASSUME NEW v \in Worker, v # w, NEW r \in Resource, LeadsOn(v, r), LeadsOn(w, r)',
                      r \notin pulled'
               PROVE  FALSE
    BY <1>1, StepTypes DEF LeadInv
  <2>1. r \notin pulled /\ ~LeadsOn(w, r)
    BY <1>1, StepTypes DEF LeadInv
  <2>2. Enter(w) /\ r = Mine(w) /\ files[r] = NoFile /\ Unlocked(r)
    BY <1>1, <2>1, LeadsOnStep
  <2>3. ~On(v, r)
    BY <1>1, <2>1, <2>2 DEF WatchInv, Watches
  <2> QED
    BY <2>2, <2>3 DEF LeadsOn, Unlocked, Holds
<1>2. ASSUME LeadInv, UNCHANGED vars PROVE LeadInv'
  BY <1>2 DEF vars, worker, LeadInv, LeadsOn, On, Mine
<1> QED
  BY <1>1, <1>2 DEF Next

LEMMA FileInvariance == Spec => [](TypeInv /\ FileInv)
<1>1. Init => TypeInv /\ FileInv
  <2> SUFFICES ASSUME Init PROVE FileInv
    BY InitialTypes
  <2>1. \A w \in Worker : phase[w] = "enter" /\ kind[w] = "checkout" /\ buf[w] = NoFile
    BY DEF Init
  <2>2. \A w \in Worker : ~Holds(w) /\ \A r : ~On(w, r)
    BY <2>1 DEF On, OnPhase, Holds
  <2> QED
    BY <2>1, <2>2 DEF FileInv, HolderInv, BufInv, BufAt, WatchInv, LeadInv, LeadsOn
<1>2. TypeInv /\ FileInv /\ [Next]_vars => (TypeInv /\ FileInv)'
  BY TypeStep, HolderStep, BufStep, WatchStep, LeadStep DEF FileInv
<1> QED
  BY <1>1, <1>2, PTL DEF Spec

\* A Satellite is upgraded by one worker at a time, however late the others come and
\* whatever fails, as long as its file is not unlinked under anybody: of those that are
\* registered in one file a single one leads.
THEOREM UpgradesOneByOne == Spec => []OneUpgradeAtATime
<1>1. TypeInv /\ FileInv => OneUpgradeAtATime
  <2> SUFFICES ASSUME TypeInv, FileInv, NEW v \in Worker, NEW w \in Worker,
                      Upgrades(v), Upgrades(w), sat[v] = sat[w], Mine(v) \notin pulled
               PROVE  v = w
    BY DEF OneUpgradeAtATime
  <2>1. Mine(v) = Mine(w) /\ Mine(v) \in Resource /\ Mine(v)[1] = "upgrade"
    BY MineIs, NameIs DEF Upgrades, Mine, TypeInv
  <2>2. "upgrade" \in leads[v] /\ "upgrade" \in leads[w]
    BY DEF Upgrades, TypeInv, WorkerInv, LeadPhase
  <2>3. LeadsOn(v, Mine(v)) /\ LeadsOn(w, Mine(v))
    BY <2>1, <2>2 DEF LeadsOn, On, OnPhase, Upgrades
  <2> QED
    BY <2>1, <2>3 DEF FileInv, LeadInv
<1> QED
  BY <1>1, FileInvariance, PTL

-----------------------------------------------------------------------------
(* The upgrade of a Satellite.                                             *)

\* How a worker goes on inside of its meeting at an upgrade.
LEMMA UpgradeStep ==
  ASSUME TypeInv, NEW w \in Worker, Step(w), kind'[w] = "upgrade", phase'[w] # "enter"
  PROVE  /\ kind[w] = "upgrade" /\ sat'[w] = sat[w] /\ Mine(w)' = Mine(w)
         /\ \/ Enter(w) /\ phase'[w] = "registering"
            \/ Holds(w)' /\ phase'[w] = phase[w] /\ files' = files
            \/ WriteBack(w) /\ phase[w] = "registering" /\ phase'[w] = "setup"
            \/ WriteBack(w) /\ phase[w] = "setup" /\ phase'[w] = "wait"
            \/ SeesAllReady(w) /\ phase[w] = "wait" /\ phase'[w] = "begin"
            \/ WriteBack(w) /\ phase[w] = "begin" /\ phase'[w] = "act"
            \/ ActionSucceeds(w) /\ phase[w] = "act" /\ phase'[w] = "publish"
            \/ WriteBack(w) /\ phase[w] = "publish" /\ phase'[w] = "body"
            \/ /\ Poll(w) /\ phase'[w] = "body" /\ files' = files
               /\ files[Mine(w)] # NoFile /\ files[Mine(w)].status = "done"
            \/ phase'[w] \notin {"registering", "setup", "wait", "begin", "act", "publish", "body"}
<1> DEFINE Goal == /\ kind[w] = "upgrade" /\ sat'[w] = sat[w] /\ Mine(w)' = Mine(w)
                   /\ \/ Enter(w) /\ phase'[w] = "registering"
                      \/ Holds(w)' /\ phase'[w] = phase[w] /\ files' = files
                      \/ WriteBack(w) /\ phase[w] = "registering" /\ phase'[w] = "setup"
                      \/ WriteBack(w) /\ phase[w] = "setup" /\ phase'[w] = "wait"
                      \/ SeesAllReady(w) /\ phase[w] = "wait" /\ phase'[w] = "begin"
                      \/ WriteBack(w) /\ phase[w] = "begin" /\ phase'[w] = "act"
                      \/ ActionSucceeds(w) /\ phase[w] = "act" /\ phase'[w] = "publish"
                      \/ WriteBack(w) /\ phase[w] = "publish" /\ phase'[w] = "body"
                      \/ /\ Poll(w) /\ phase'[w] = "body" /\ files' = files
                         /\ files[Mine(w)] # NoFile /\ files[Mine(w)].status = "done"
                      \/ phase'[w] \notin {"registering", "setup", "wait", "begin", "act", "publish", "body"}
<1>0. /\ kind \in [Worker -> Kind] /\ phase \in [Worker -> Phase]
      /\ sat \in [Worker -> Satellite \cup {NoSat}] /\ (buf[w] # NoFile => phase[w] \in WritePhase)
  BY DEF TypeInv, TypeOK, WorkerInv
<1> USE DEF At
<1>1. ASSUME NEW ok \in BOOLEAN, Out(w, ok) PROVE FALSE
  BY <1>0, <1>1, OutIs
<1>2. ASSUME NEW p \in Phase, Stay(w, p)
      PROVE  kind[w] = "upgrade" /\ sat'[w] = sat[w] /\ Mine(w)' = Mine(w) /\ phase'[w] = p
  BY <1>0, <1>2 DEF Stay, Go, Mine
<1> SUFFICES Goal
  BY DEF Goal
<1> HIDE DEF Goal
<1>3. CASE WriteBack(w)
  <2>0. phase[w] \in WritePhase
    BY <1>0, <1>3 DEF WriteBack
  <2>1. CASE phase[w] = "registering" /\ Stay(w, "setup")
    BY <1>2, <1>3, <2>1 DEF Goal, Phase
  <2>2. CASE phase[w] = "setup" /\ Stay(w, "wait")
    BY <1>2, <1>3, <2>2 DEF Goal, Phase
  <2>3. CASE phase[w] = "begin" /\ Stay(w, "act")
    BY <1>2, <1>3, <2>3 DEF Goal, Phase
  <2>4. CASE phase[w] = "publish" /\ Stay(w, "body")
    BY <1>2, <1>3, <2>4 DEF Goal, Phase
  <2>5. CASE \E p \in {"unlink", "leaving", "drain", "report", "check"} : Stay(w, p)
    BY <1>2, <2>5 DEF Goal, Phase
  <2>6. CASE Into(w, "upgrade") \/ Into(w, "checkin")
    BY <1>0, <2>6 DEF Into, Go
  <2>7. CASE Out(w, TRUE) \/ Out(w, FALSE)
    BY <1>1, <2>7
  <2> QED
    BY <1>3, <2>1, <2>2, <2>3, <2>4, <2>5, <2>6, <2>7 DEF WriteBack
<1>4. CASE Enter(w)
  BY <1>2, <1>4 DEF Enter, Goal, Phase
<1>5. CASE Register(w)
  <2>1. CASE files[Mine(w)] = NoFile
    BY <1>1, <1>5, <2>1 DEF Register
  <2>2. CASE files[Mine(w)] # NoFile
    <3>1. kind' = kind /\ phase' = phase /\ sat' = sat /\ files' = files /\ phase[w] = "registering"
      BY <1>5, <2>2 DEF Register
    <3> QED
      BY <3>1 DEF Goal, Mine, Holds
  <2> QED
    BY <2>1, <2>2
<1>6. CASE Ready(w) \/ UpdateMain(w) \/ Unregister(w) \/ Report(w)
  <2>1. /\ kind' = kind /\ phase' = phase /\ sat' = sat /\ files' = files
        /\ files[Mine(w)] # NoFile /\ buf[w] = NoFile
    BY <1>6 DEF Ready, UpdateMain, Unregister, Report, Rewrite, Finds
  <2>2. phase[w] \notin {"registering", "wait", "act", "body"}
    BY <1>6 DEF Ready, UpdateMain, MainStatus, Unregister, Report
  <2>3. buf'[w] # NoFile
    <3>1. files[Mine(w)] \in File
      BY <2>1, MineIs DEF TypeInv
    <3>2. phase[w] \in WritePhase /\ buf'[w] = Written(w, files[Mine(w)])
      <4>1. buf \in [Worker -> File \cup {NoFile}]
        BY DEF TypeInv, TypeOK
      <4>2. CASE Ready(w)
        BY <4>1, <4>2 DEF Ready, Rewrite, Written, WritePhase
      <4>3. CASE UpdateMain(w)
        BY <4>1, <4>3 DEF UpdateMain, Rewrite, Written, MainStatus, WritePhase
      <4>4. CASE Unregister(w)
        BY <4>1, <4>4 DEF Unregister, Rewrite, Written, MainStatus, WritePhase
      <4>5. CASE Report(w)
        BY <4>1, <4>5 DEF Report, Rewrite, Written, MainStatus, WritePhase
      <4> QED
        BY <1>6, <4>2, <4>3, <4>4, <4>5
    <3> QED
      BY <3>1, <3>2, WrittenIs, FileIs
  <2> QED
    BY <2>1, <2>3 DEF Goal, Mine, Holds
<1>7. CASE SetupFails(w) \/ MissesFile(w) \/ ActionFails(w)
  BY <1>2, <1>7 DEF SetupFails, MissesFile, ActionFails, Goal, Phase
<1>8. CASE SeesAllReady(w)
  BY <1>2, <1>8 DEF SeesAllReady, Goal, Phase
<1>9. CASE ActionSucceeds(w)
  BY <1>2, <1>9 DEF ActionSucceeds, Goal, Phase
<1>10. CASE Poll(w)
  BY <1>2, <1>10 DEF Poll, IsReleased, Goal, Phase
<1>11. CASE Drain(w) \/ Check(w)
  BY <1>2, <1>11 DEF Drain, Check, Goal, Phase
<1>12. CASE EndBody(w)
  <2>1. kind'[w] = kind[w] /\ phase'[w] = "exit"
    BY <1>0, <1>12 DEF EndBody, Go
  <2>2. sat' = sat
    BY <1>12, <2>1 DEF EndBody
  <2> QED
    BY <2>1, <2>2 DEF Goal, Mine
<1>13. CASE CannotUnregister(w) \/ ExitMisses(w) \/ Unlink(w)
  BY <1>1, <1>2, <1>13 DEF CannotUnregister, ExitMisses, Unlink, Goal, Phase
<1>14. \/ WriteBack(w) \/ Enter(w) \/ Register(w)
       \/ (Ready(w) \/ UpdateMain(w) \/ Unregister(w) \/ Report(w))
       \/ (SetupFails(w) \/ MissesFile(w) \/ ActionFails(w))
       \/ SeesAllReady(w) \/ ActionSucceeds(w) \/ Poll(w) \/ (Drain(w) \/ Check(w))
       \/ EndBody(w) \/ (CannotUnregister(w) \/ ExitMisses(w) \/ Unlink(w))
  BY DEF Step
<1> QED
  BY <1>14, <1>3, <1>4, <1>5, <1>6, <1>7, <1>8, <1>9, <1>10, <1>11, <1>12, <1>13

\* The version of a Satellite changes by the main watcher of its upgrade.
LEMMA VersionStep ==
  ASSUME TypeInv, NEW w \in Worker, Step(w), NEW s \in Satellite, version'[s] # version[s]
  PROVE  /\ Mine(w) = <<"upgrade", s>> /\ kind[w] = "upgrade" /\ sat[w] = s
         /\ "upgrade" \in leads[w] /\ LeadsOn(w, <<"upgrade", s>>)
         /\ \/ /\ SeesAllReady(w) /\ phase[w] = "wait" /\ version'[s] = "upgrading"
               /\ Unlocked(<<"upgrade", s>>) /\ AllReady(files[<<"upgrade", s>>])
               /\ phase'[w] = "begin" /\ Mine(w)' = Mine(w) /\ leads' = leads
            \/ /\ ActionSucceeds(w) /\ phase[w] = "act" /\ version'[s] = "new"
               /\ phase'[w] = "publish"
            \/ ActionFails(w) /\ phase[w] = "act" /\ phase'[w] = "giveUp"
<1>0. version \in [Satellite -> {"old", "upgrading", "new", "broken"}]
      /\ phase \in [Worker -> Phase]
      /\ (phase[w] = "act" => kind[w] \in leads[w]) /\ (phase[w] = "act" => kind[w] # "tests")
  BY DEF TypeInv, TypeOK, WorkerInv, LeadPhase
<1>1. /\ kind[w] = "upgrade" /\ sat[w] = s
      /\ \/ /\ SeesAllReady(w) /\ At(w, "wait") /\ Leads(w) /\ version'[s] = "upgrading"
            /\ Unlocked(Mine(w)) /\ AllReady(files[Mine(w)]) /\ Stay(w, "begin") /\ leads' = leads
         \/ ActionSucceeds(w) /\ At(w, "act") /\ version'[s] = "new" /\ Stay(w, "publish")
         \/ ActionFails(w) /\ At(w, "act") /\ Stay(w, "giveUp")
  <2>1. CASE SeesAllReady(w)
    BY <1>0, <2>1 DEF SeesAllReady, Finds
  <2>2. CASE ActionSucceeds(w)
    BY <1>0, <2>2 DEF ActionSucceeds, Upgrade
  <2>3. CASE ActionFails(w)
    BY <1>0, <2>3 DEF ActionFails
  <2>4. CASE ~(SeesAllReady(w) \/ ActionSucceeds(w) \/ ActionFails(w))
    BY <2>4 DEF Step, WriteBack, Enter, Register, Ready, SetupFails, UpdateMain, MissesFile, Poll,
                EndBody, Unregister, CannotUnregister, Report, Drain, Check, ExitMisses, Unlink, world
  <2> QED
    BY <2>1, <2>2, <2>3, <2>4
<1>2. Mine(w) = <<"upgrade", s>>
  BY <1>1 DEF Mine, Name
<1>3. "upgrade" \in leads[w] /\ phase[w] \in OnPhase
  BY <1>0, <1>1 DEF At, Leads, OnPhase
<1>4. ASSUME NEW p, Stay(w, p) PROVE phase'[w] = p /\ Mine(w)' = Mine(w)
  <2>1. kind'[w] = kind[w] /\ phase'[w] = p /\ sat' = sat
    BY <1>0, <1>4 DEF Stay, Go, TypeInv, TypeOK
  <2> QED
    BY <2>1 DEF Mine
<1> QED
  BY <1>1, <1>2, <1>3, <1>4 DEF LeadsOn, On, At

Early == {"registering", "setup", "wait", "begin", "act"}

\* The Satellite of a published action, of a released watcher and of a done file is new;
\* and who may still upgrade it has neither a done file nor a test beside it.
SoundAt(s, r) ==
    /\ \A w \in Worker : Mine(w) = r /\ phase[w] \in {"publish", "body"} => version[s] = "new"
    /\ files[r] # NoFile /\ files[r].status = "done" => version[s] = "new"
    /\ \A v \in Worker : LeadsOn(v, r) /\ phase[v] \in Early =>
          /\ files[r] # NoFile => files[r].status # "done"
          /\ \A w \in Worker : Mine(w) = r => phase[w] # "body"
SoundInv == \A s \in Satellite : <<"upgrade", s>> \notin pulled => SoundAt(s, <<"upgrade", s>>)

LEMMA SoundStep == TypeInv /\ FileInv /\ SoundInv /\ [Next]_vars => SoundInv'
<1>1. ASSUME TypeInv, FileInv, SoundInv, NEW w \in Worker, Step(w) PROVE SoundInv'
  <2> SUFFICES ASSUME NEW s \in Satellite, <<"upgrade", s>> \notin pulled'
               PROVE  SoundAt(s, <<"upgrade", s>>)'
    BY DEF SoundInv
  <2> DEFINE r == <<"upgrade", s>>
  <2>0. /\ r \in Resource /\ r # T /\ r[1] = "upgrade" /\ r \notin pulled /\ SoundAt(s, r) /\ TypeInv'
        /\ \A u \in Worker : Mine(u) = r => kind[u] = "upgrade" /\ sat[u] = s
        /\ \A u \in Worker : Mine(u)' = r => kind'[u] = "upgrade"
        /\ HolderInv /\ BufInv /\ WatchInv /\ LeadInv
    <3>1. r \in Resource /\ r # T /\ r[1] = "upgrade"
      BY DEF Resource, T
    <3>2. r \notin pulled /\ TypeInv'
      BY <1>1, StepTypes
    <3>3. \A u \in Worker : Mine(u) = r => kind[u] = "upgrade" /\ sat[u] = s
      BY <1>1 DEF TypeInv, TypeOK, Mine, Name
    <3>4. \A u \in Worker : Mine(u)' = r => kind'[u] = "upgrade"
      BY <3>2 DEF TypeInv, TypeOK, Mine, Name
    <3> QED
      BY <1>1, <3>1, <3>2, <3>3, <3>4 DEF SoundInv, FileInv
  <2> HIDE DEF r
  <2>a. /\ \A u \in Worker : Mine(u) = r /\ phase[u] \in {"publish", "body"} => version[s] = "new"
        /\ files[r] # NoFile /\ files[r].status = "done" => version[s] = "new"
        /\ \A v \in Worker : LeadsOn(v, r) /\ phase[v] \in Early =>
              /\ files[r] # NoFile => files[r].status # "done"
              /\ \A u \in Worker : Mine(u) = r => phase[u] # "body"
    BY <2>0 DEF SoundAt
  <2>b. \A u, v \in Worker : LeadsOn(u, r) /\ LeadsOn(v, r) => u = v
    BY <2>0 DEF LeadInv
  <2>c. \A u \in Worker : Mine(u) = r /\ phase[u] = "publish" => LeadsOn(u, r)
    BY <1>1, <2>0 DEF LeadsOn, On, OnPhase, TypeInv, WorkerInv, LeadPhase
  <2>d. version'[s] = version[s] \/ (LeadsOn(w, r) /\ phase[w] \in {"wait", "act"} /\ Mine(w) = r)
    BY <1>1, VersionStep DEF r
  <2>e. ASSUME NEW u \in Worker, Mine(u)' = r, phase'[u] # "enter", u # w
        PROVE  Mine(u) = r /\ phase'[u] = phase[u]
    BY <1>1, <2>e, StepTypes
  <2>f. ASSUME Mine(w)' = r, phase'[w] # "enter"
        PROVE  /\ Mine(w) = r
               /\ \/ Enter(w) /\ phase'[w] = "registering"
                  \/ phase'[w] = phase[w] /\ version'[s] = version[s]
                  \/ phase'[w] \in Early /\ phase[w] \in Early
                  \/ ActionSucceeds(w) /\ phase'[w] = "publish"
                  \/ WriteBack(w) /\ phase[w] = "publish" /\ phase'[w] = "body"
                  \/ Poll(w) /\ phase'[w] = "body" /\ files[r] # NoFile /\ files[r].status = "done"
                  \/ phase'[w] \notin Early \cup {"publish", "body"}
    <3>1. kind'[w] = "upgrade"
      BY <2>0, <2>f
    <3>2. Mine(w) = r
      BY <1>1, <2>f, <3>1, UpgradeStep
    <3>3. phase'[w] = phase[w] => version'[s] = version[s]
      BY <1>1, VersionStep
    <3> QED
      BY <1>1, <2>f, <3>1, <3>2, <3>3, UpgradeStep DEF Early
  \* Its status becomes "done" by the main watcher that publishes.
  <2>g. ASSUME files'[r] # NoFile, files'[r].status = "done"
        PROVE  \/ files[r] # NoFile /\ files[r].status = "done"
               \/ WriteBack(w) /\ Mine(w) = r /\ phase[w] = "publish"
    <3>1. CASE files'[r] = files[r]
      BY <2>g, <3>1
    <3>2. CASE files'[r] # files[r]
      <4>1. Mine(w) = r /\ WriteBack(w)
        BY <1>1, <2>0, <2>g, <3>2, FileStep, StepTypes
      <4>2. CASE files[r] = NoFile
        BY <1>1, <2>0, <2>g, <4>1, <4>2, WriteIs, FileIs
      <4>3. CASE files[r] # NoFile
        <5>1. files[r] \in File
          BY <1>1, <2>0, <4>3 DEF TypeInv, TypeOK
        <5>2. phase[w] \in DOMAIN MainStatus => MainStatus[phase[w]] = "done"
          BY <1>1, <2>0, <2>g, <4>1, <4>3, <5>1, WriteIs
        <5>3. phase[w] \notin DOMAIN MainStatus => files[r].status = "done"
          BY <1>1, <2>0, <2>g, <4>1, <4>3, <5>1, WriteIs
        <5> QED
          BY <4>1, <4>3, <5>2, <5>3 DEF MainStatus
      <4> QED
        BY <4>2, <4>3
    <3> QED
      BY <3>1, <3>2
  <2>h. WriteBack(w) => version'[s] = version[s]
    BY DEF WriteBack, world
  <2>i. Poll(w) => version'[s] = version[s]
    BY DEF Poll, world
  <2>1. ASSUME NEW u \in Worker, Mine(u)' = r, phase'[u] \in {"publish", "body"}
        PROVE  version'[s] = "new"
    <3>1. CASE Mine(u) = r /\ phase'[u] = phase[u] /\ (u = w => version'[s] = version[s])
      <4>1. version[s] = "new"
        BY <2>1, <2>a, <3>1
      <4>2. CASE version'[s] # version[s]
        <5>1. LeadsOn(w, r) /\ phase[w] \in {"wait", "act"} /\ u # w
          BY <2>d, <3>1, <4>2
        <5>2. phase[u] # "body"
          BY <2>a, <3>1, <5>1 DEF Early
        <5>3. phase[u] = "publish" => LeadsOn(u, r)
          BY <2>c, <3>1
        <5> QED
          BY <2>1, <2>b, <3>1, <5>1, <5>2, <5>3
      <4> QED
        BY <4>1, <4>2
    <3>2. CASE u # w
      BY <2>1, <2>e, <3>1, <3>2
    <3>3. CASE u = w
      <4>1. CASE ActionSucceeds(w) /\ phase'[w] = "publish" /\ Mine(w) = r
        <5>1. kind[w] = "upgrade" /\ sat[w] = s
          BY <2>0, <4>1
        <5> QED
          BY <1>1, <4>1, <5>1 DEF ActionSucceeds, Upgrade, TypeInv, TypeOK
      <4>2. CASE WriteBack(w) /\ phase[w] = "publish" /\ Mine(w) = r
        BY <2>a, <2>h, <4>2
      <4>3. CASE Poll(w) /\ files[r] # NoFile /\ files[r].status = "done"
        BY <2>a, <2>i, <4>3
      <4> QED
        BY <2>1, <2>f, <3>1, <3>3, <4>1, <4>2, <4>3 DEF Early
    <3> QED
      BY <3>2, <3>3
  <2>2. ASSUME files'[r] # NoFile, files'[r].status = "done" PROVE version'[s] = "new"
    <3>1. CASE files[r] # NoFile /\ files[r].status = "done"
      BY <2>a, <2>d, <3>1 DEF Early
    <3>2. CASE WriteBack(w) /\ Mine(w) = r /\ phase[w] = "publish"
      BY <2>a, <2>h, <3>2
    <3> QED
      BY <2>2, <2>g, <3>1, <3>2
  <2>3. ASSUME NEW v \in Worker, LeadsOn(v, r)', phase'[v] \in Early
        PROVE  /\ files'[r] # NoFile => files'[r].status # "done"
               /\ \A u \in Worker : Mine(u)' = r => phase'[u] # "body"
    <3>0. Mine(v)' = r
      BY <2>0, <2>3 DEF LeadsOn, On
    <3>1. CASE v = w /\ Enter(w) /\ files[r] = NoFile
      <4>1. files' = files /\ phase'[w] = "registering"
        BY <1>1, <3>1 DEF Enter, Stay, Go, TypeInv, TypeOK
      <4>2. ASSUME NEW u \in Worker, Mine(u)' = r, phase'[u] = "body" PROVE FALSE
        <5>1. u # w
          BY <4>1, <4>2
        <5>2. Mine(u) = r /\ phase[u] = "body"
          BY <2>e, <4>2, <5>1
        <5> QED
          BY <2>0, <3>1, <5>2 DEF WatchInv, Watches, On, OnPhase
      <4> QED
        BY <3>1, <4>1, <4>2
    <3>2. CASE LeadsOn(v, r) /\ phase[v] \in Early
      <4>0. ~(Mine(w) = r /\ phase[w] = "publish")
        BY <2>b, <2>c, <3>2 DEF Early
      <4>1. files'[r] # NoFile => files'[r].status # "done"
        BY <2>a, <2>g, <3>2, <4>0
      <4>2. ASSUME NEW u \in Worker, Mine(u)' = r, phase'[u] = "body" PROVE FALSE
        <5>1. CASE Mine(u) = r /\ phase[u] = "body"
          BY <2>a, <3>2, <5>1
        <5>2. CASE u # w
          BY <2>e, <4>2, <5>1, <5>2
        <5>3. CASE u = w
          BY <2>a, <2>f, <3>2, <4>0, <4>2, <5>1, <5>3 DEF Early
        <5> QED
          BY <5>2, <5>3
      <4> QED
        BY <4>1, <4>2
    <3>3. CASE v # w
      BY <1>1, <2>3, <3>2, <3>3, StepTypes
    <3>4. CASE v = w
      <4>1. LeadsOn(w, r) \/ (Enter(w) /\ files[r] = NoFile)
        BY <1>1, <2>0, <2>3, <3>4, LeadsOnStep
      <4>2. CASE LeadsOn(w, r) /\ ~(Enter(w) /\ files[r] = NoFile)
        <5>1. phase[w] # "enter"
          <6>1. On(w, r) => Mine(w) = r /\ phase[w] \in OnPhase
            BY <2>0 DEF On
          <6> QED
            BY <4>2, <6>1 DEF LeadsOn, OnPhase
        <5>2. phase[w] \in Early
          BY <2>3, <2>f, <3>0, <3>4, <5>1 DEF Early, Enter, At
        <5> QED
          BY <3>2, <3>4, <4>2, <5>2
      <4> QED
        BY <3>1, <3>4, <4>1, <4>2
    <3> QED
      BY <3>3, <3>4
  <2>4. SoundAt(s, r)'
    BY <2>1, <2>2, <2>3, <2>0 DEF SoundAt, r
  <2> QED
    BY <2>4 DEF r
<1>2. ASSUME SoundInv, UNCHANGED vars PROVE SoundInv'
  BY <1>2 DEF vars, worker, world, SoundInv, SoundAt, LeadsOn, On, Mine
<1> QED
  BY <1>1, <1>2 DEF Next

LEMMA SoundInvariance == Spec => [](TypeInv /\ FileInv /\ SoundInv)
<1>1. Init => SoundInv
  <2> SUFFICES ASSUME Init, NEW s \in Satellite PROVE SoundAt(s, <<"upgrade", s>>)
    BY DEF SoundInv
  <2>1. \A w \in Worker : phase[w] = "enter"
    BY DEF Init
  <2>2. files[<<"upgrade", s>>] = NoFile
    BY DEF Init, Resource
  <2> QED
    BY <2>1, <2>2 DEF SoundAt, Early
<1> QED
  BY <1>1, FileInvariance, SoundStep, PTL DEF Spec

\* A test runs only after the upgrade of its Satellite and with no other one going on,
\* however late the workers come and whatever fails, as long as the file of the upgrade is
\* not unlinked under anybody.
THEOREM TestsRunOnTheUpgraded == Spec => []TestAfterUpgrade
<1>1. TypeInv /\ SoundInv => TestAfterUpgrade
  <2> SUFFICES ASSUME TypeInv, SoundInv, NEW w \in Worker, InTest(w), Mine(w) \notin pulled
               PROVE  version[sat[w]] = "new"
    BY DEF TestAfterUpgrade
  <2>1. sat[w] \in Satellite /\ Mine(w) = <<"upgrade", sat[w]>> /\ phase[w] = "body"
    BY MineIs, NameIs DEF InTest, TypeInv
  <2> QED
    BY <2>1 DEF SoundInv, SoundAt
<1> QED
  BY <1>1, SoundInvariance, PTL

-----------------------------------------------------------------------------
(* When nobody is late: the set-up of a test, and the Satellite under it.  *)

\* A watcher stays in a file that is not unlinked under anybody.
LEMMA Kept ==
  ASSUME TypeInv, FileInv, NEW w \in Worker, Step(w), NEW r \in Resource, r \notin pulled',
         NEW u \in Worker, u # w \/ Mine(w) # r, On(u, r)
  PROVE  Watches(u, r) /\ Watches(u, r)' /\ files'[r].watchers[u] = files[r].watchers[u]
<1>1. r \notin pulled /\ Watches(u, r)
  BY StepTypes DEF FileInv, WatchInv
<1>2. CASE files'[r] = files[r]
  BY <1>1, <1>2 DEF Watches
<1>3. CASE files'[r] # files[r]
  <2>1. Mine(w) = r /\ u # w
    BY <1>3, StepTypes
  <2>2. ~(Unlink(w) /\ files'[r] = NoFile)
    BY <1>1, <2>1, FileStep DEF InUse, Watches
  <2>3. WriteBack(w)
    BY <1>3, <2>1, <2>2, FileStep
  <2>4. /\ files'[r] \in File
        /\ u \in DOMAIN files'[r].watchers <=> u \in DOMAIN files[r].watchers
        /\ u \in DOMAIN files[r].watchers => files'[r].watchers[u] = files[r].watchers[u]
    BY <1>1, <2>1, <2>3, WriteIs DEF FileInv, Watches
  <2> QED
    BY <1>1, <2>4, FileIs DEF Watches
<1> QED
  BY <1>2, <1>3

\* A file that waits has been waiting, or is new.
LEMMA StillWaiting ==
  ASSUME TypeInv, FileInv, NEW w \in Worker, Step(w), NEW r \in Resource, r \notin pulled',
         files'[r] # NoFile, files'[r].status = "waiting"
  PROVE  \/ files'[r] = files[r]
         \/ /\ Mine(w) = r /\ WriteBack(w) /\ phase[w] = "registering" /\ buf[w] # NoFile
            /\ files[r] = NoFile
         \/ /\ Mine(w) = r /\ WriteBack(w) /\ phase[w] \notin DOMAIN MainStatus
            /\ files[r] # NoFile /\ files[r].status = "waiting"
<1>1. r \notin pulled
  BY StepTypes
<1>2. CASE files'[r] # files[r]
  <2>1. Mine(w) = r /\ WriteBack(w) /\ buf[w] # NoFile
    BY <1>2, FileStep, StepTypes
  <2>2. \A p \in DOMAIN MainStatus : MainStatus[p] # "waiting"
    BY DEF MainStatus
  <2> QED
    BY <1>1, <2>1, <2>2, WriteIs, FileIs DEF FileInv
<1> QED
  BY <1>2

\* Registering in time: with no file, or with one whose action is not due.
LEMMA InTime ==
  ASSUME TypeInv, NEW w \in Worker, Step(w), Mine(w) \notin late',
         phase'[w] = "registering", buf'[w] # NoFile
  PROVE  \/ /\ Enter(w) /\ files[Mine(w)] = NoFile
            /\ kind[w] = "upgrade" => version[sat[w]] = "old"
         \/ /\ Register(w) /\ files[Mine(w)] # NoFile /\ files[Mine(w)].status = "waiting"
            /\ ~\E v \in Worker : Mine(v) = Mine(w) /\ Leads(v) /\ phase[v] = "begin"
<1>1. Holds(w)'
  BY DEF Holds
<1>2. CASE Enter(w)
  <2>1. /\ late' = IF TooLate(w, files[Mine(w)]) THEN late \cup {Mine(w)} ELSE late
        /\ IF files[Mine(w)] = NoFile THEN TRUE ELSE buf' = buf
        /\ buf[w] = NoFile
    BY <1>2 DEF Enter, At
  <2>2. ~TooLate(w, files[Mine(w)]) /\ files[Mine(w)] = NoFile
    BY <2>1
  <2> QED
    BY <1>2, <2>2 DEF TooLate
<1>3. CASE Register(w) /\ files[Mine(w)] # NoFile
  <2>1. late' = IF TooLate(w, files[Mine(w)]) THEN late \cup {Mine(w)} ELSE late
    BY <1>3 DEF Register
  <2>2. ~TooLate(w, files[Mine(w)])
    BY <2>1
  <2> QED
    BY <1>3, <2>2 DEF TooLate
<1> QED
  BY <1>1, <1>2, <1>3, HoldStep

LEMMA LateGrows ==
  ASSUME NEW w \in Worker, Step(w)
  PROVE  late \subseteq late'
<1>1. CASE Enter(w) \/ Register(w)
  BY <1>1 DEF Enter, Register
<1>2. CASE ~(Enter(w) \/ Register(w))
  BY <1>2 DEF Step, WriteBack, Ready, SetupFails, SeesAllReady, UpdateMain, Rewrite,
              MissesFile, ActionSucceeds, ActionFails, Poll, EndBody, Unregister,
              CannotUnregister, Report, Drain, Check, ExitMisses, Unlink
<1> QED
  BY <1>1, <1>2

\* The main watcher v of r has seen that all are ready.
Due(v, r) == Mine(v) = r /\ r[1] \in leads[v] /\ phase[v] = "begin"

OldAt(s, r) ==
    /\ \A w \in Worker : Mine(w) = r /\ phase[w] = "setup" =>
          version[s] = "old" /\ files[r].watchers[w] = "pending"
    /\ \A w \in Worker : Mine(w) = r /\ phase[w] = "registering" /\ buf[w] # NoFile
          => version[s] = "old"
    /\ files[r] # NoFile /\ files[r].status = "waiting"
          => version[s] = "old" \/ \E v \in Worker : Due(v, r)
    /\ \A w \in Worker : Mine(w) = r /\ phase[w] \in {"begin", "act"}
          => version[s] = "upgrading"
OldInv == \A s \in Satellite :
             <<"upgrade", s>> \notin late \cup pulled => OldAt(s, <<"upgrade", s>>)

\* The step of w at the upgrade of s when it changes the version: nobody is in set-up.
LEMMA OldChanges ==
  ASSUME TypeInv, FileInv, NEW w \in Worker, Step(w), NEW s \in Satellite, NEW r,
         r = <<"upgrade", s>>, r \in Resource, r \notin pulled', OldAt(s, r),
         version'[s] # version[s]
  PROVE  OldAt(s, r)'
<1>0. /\ r \notin pulled /\ TypeInv' /\ files' = files /\ buf' = buf
      /\ HolderInv /\ BufInv /\ WatchInv /\ LeadInv
  <2>1. SeesAllReady(w) \/ ActionSucceeds(w) \/ ActionFails(w)
    BY VersionStep
  <2> QED
    BY <2>1, StepTypes DEF FileInv, SeesAllReady, ActionSucceeds, ActionFails
<1>1. /\ Mine(w) = r /\ LeadsOn(w, r) /\ r[1] = "upgrade"
      /\ \A u \in Worker : u # w => /\ Mine(u)' = Mine(u) /\ phase'[u] = phase[u]
                                    /\ leads'[u] = leads[u]
  BY VersionStep, StepTypes
<1>2. ASSUME NEW u \in Worker, Mine(u) = r, phase[u] \in {"begin", "act"} PROVE u = w
  <2>1. kind[u] = "upgrade" /\ kind[u] \in leads[u]
    BY <1>1, <1>2, NameIs DEF TypeInv, WorkerInv, LeadPhase
  <2>2. LeadsOn(u, r)
    BY <1>1, <1>2, <2>1 DEF LeadsOn, On, OnPhase
  <2> QED
    BY <1>0, <1>1, <2>2 DEF LeadInv
\* As it sees all ready, nobody is in its set-up.
<1>3. CASE SeesAllReady(w)
  <2>1. /\ phase[w] = "wait" /\ version'[s] = "upgrading" /\ phase'[w] = "begin"
        /\ Unlocked(r) /\ AllReady(files[r]) /\ Mine(w)' = Mine(w) /\ leads' = leads
    <3>1. ~(ActionSucceeds(w) \/ ActionFails(w))
      BY <1>3 DEF SeesAllReady, ActionSucceeds, ActionFails, At
    <3> QED
      BY <1>1, <3>1, VersionStep
  <2>2. ASSUME NEW u \in Worker, Mine(u)' = r, phase'[u] \in {"setup", "registering"} PROVE FALSE
    <3>1. Mine(u) = r /\ phase[u] \in {"setup", "registering"}
      BY <1>1, <2>1, <2>2
    <3>2. phase[u] = "setup"
      BY <2>1, <3>1 DEF Unlocked, Holds
    <3>3. On(u, r)
      BY <3>1, <3>2 DEF On, OnPhase
    <3>4. Watches(u, r)
      BY <1>0, <3>3 DEF WatchInv
    <3> QED
      BY <2>1, <3>1, <3>2, <3>4 DEF OldAt, AllReady, Watches
  <2>3. Due(w, r)'
    BY <1>1, <2>1 DEF Due, LeadsOn
  <2>4. ASSUME NEW u \in Worker, Mine(u)' = r, phase'[u] \in {"begin", "act"}
        PROVE  version'[s] = "upgrading"
    BY <2>1
  <2> QED
    BY <2>2, <2>3, <2>4 DEF OldAt
\* As the action ends, nobody else has been let in since it began.
<1>4. CASE ActionSucceeds(w) \/ ActionFails(w)
  <2>1. phase[w] = "act" /\ phase'[w] \in {"publish", "giveUp"} /\ version[s] = "upgrading"
    <3>1. ~SeesAllReady(w)
      BY <1>4 DEF SeesAllReady, ActionSucceeds, ActionFails, At
    <3>2. phase[w] = "act" /\ phase'[w] \in {"publish", "giveUp"}
      BY <3>1, VersionStep
    <3> QED
      BY <1>1, <3>2 DEF OldAt
  <2>2. ASSUME NEW u \in Worker, Mine(u)' = r,
               \/ phase'[u] = "setup" \/ (phase'[u] = "registering" /\ buf'[u] # NoFile)
        PROVE  FALSE
    <3>1. u # w
      BY <2>1, <2>2
    <3>2. Mine(u) = r /\ (phase[u] = "setup" \/ (phase[u] = "registering" /\ buf[u] # NoFile))
      BY <1>0, <1>1, <2>2, <3>1
    <3> QED
      BY <2>1, <3>2 DEF OldAt
  <2>3. ~(files'[r] # NoFile /\ files'[r].status = "waiting")
    <3>1. ASSUME NEW v \in Worker, Due(v, r) PROVE FALSE
      BY <1>2, <2>1, <3>1 DEF Due
    <3> QED
      BY <1>0, <2>1, <3>1 DEF OldAt
  <2>4. ASSUME NEW u \in Worker, Mine(u)' = r, phase'[u] \in {"begin", "act"} PROVE FALSE
    <3>1. u # w
      BY <2>1, <2>4
    <3> QED
      BY <1>1, <1>2, <2>4, <3>1
  <2> QED
    BY <2>2, <2>3, <2>4 DEF OldAt
<1> QED
  BY <1>3, <1>4, VersionStep

LEMMA OldStep == TypeInv /\ FileInv /\ OldInv /\ [Next]_vars => OldInv'
<1>1. ASSUME TypeInv, FileInv, OldInv, NEW w \in Worker, Step(w) PROVE OldInv'
  <2> SUFFICES ASSUME NEW s \in Satellite, <<"upgrade", s>> \notin (late \cup pulled)'
               PROVE  OldAt(s, <<"upgrade", s>>)'
    BY DEF OldInv
  <2> DEFINE r == <<"upgrade", s>>
  <2>0. /\ r \in Resource /\ r # T /\ r[1] = "upgrade" /\ r \notin late'
        /\ r \notin pulled /\ r \notin pulled' /\ OldAt(s, r) /\ TypeInv'
        /\ \A u \in Worker : Mine(u) = r => kind[u] = "upgrade" /\ sat[u] = s
        /\ \A u \in Worker : Mine(u)' = r => kind'[u] = "upgrade"
        /\ HolderInv /\ BufInv /\ WatchInv /\ LeadInv
    <3>1. r \in Resource /\ r # T /\ r[1] = "upgrade"
      BY DEF Resource, T
    <3>2. r \notin pulled /\ TypeInv' /\ r \notin late
      BY <1>1, StepTypes, LateGrows
    <3>3. \A u \in Worker : Mine(u) = r => kind[u] = "upgrade" /\ sat[u] = s
      BY <1>1 DEF TypeInv, TypeOK, Mine, Name
    <3>4. \A u \in Worker : Mine(u)' = r => kind'[u] = "upgrade"
      BY <3>2 DEF TypeInv, TypeOK, Mine, Name
    <3> QED
      BY <1>1, <3>1, <3>2, <3>3, <3>4 DEF OldInv, FileInv
  <2>1. CASE version'[s] # version[s]
    BY <1>1, <2>0, <2>1, OldChanges
  <2>2. CASE version'[s] = version[s]
    <3> HIDE DEF r
    <3>1. ASSUME NEW u \in Worker, Mine(u)' = r, phase'[u] # "enter", u # w
          PROVE  Mine(u) = r /\ phase'[u] = phase[u] /\ buf'[u] = buf[u]
      BY <1>1, <3>1, StepTypes
    <3>2. ASSUME Mine(w)' = r, phase'[w] # "enter"
          PROVE  /\ Mine(w) = r
                 /\ \/ Enter(w) /\ phase'[w] = "registering"
                    \/ Holds(w)' /\ phase'[w] = phase[w] /\ files' = files
                    \/ WriteBack(w) /\ phase[w] = "registering" /\ phase'[w] = "setup"
                    \/ SeesAllReady(w) /\ phase'[w] = "begin"
                    \/ WriteBack(w) /\ phase[w] = "begin" /\ phase'[w] = "act"
                    \/ phase'[w] \notin {"registering", "setup", "begin", "act"}
      <4>1. kind'[w] = "upgrade"
        BY <2>0, <3>2
      <4> QED
        BY <1>1, <3>2, <4>1, UpgradeStep
    <3>3. ASSUME NEW u \in Worker, Mine(u)' = r, phase'[u] = "setup"
          PROVE  version'[s] = "old" /\ files'[r].watchers[u] = "pending"
      <4>1. CASE Mine(u) = r /\ phase[u] = "setup" /\ (u # w \/ files' = files)
        <5>1. On(u, r)
          BY <4>1 DEF On, OnPhase
        <5>2. files'[r].watchers[u] = files[r].watchers[u]
          BY <1>1, <2>0, <4>1, <5>1, Kept
        <5> QED
          BY <2>0, <2>2, <4>1, <5>2 DEF OldAt
      <4>2. CASE u = w /\ WriteBack(w) /\ phase[w] = "registering" /\ Mine(w) = r
        <5>1. buf[w] # NoFile
          BY <4>2 DEF WriteBack
        <5>2. files'[r].watchers[w] = "pending"
          BY <1>1, <2>0, <4>2, WriteIs
        <5> QED
          BY <2>0, <2>2, <4>2, <5>1, <5>2 DEF OldAt
      <4>3. CASE u # w
        BY <3>1, <3>3, <4>1, <4>3
      <4>4. CASE u = w
        BY <3>2, <3>3, <4>1, <4>2, <4>4
      <4> QED
        BY <4>3, <4>4
    <3>4. ASSUME NEW u \in Worker, Mine(u)' = r, phase'[u] = "registering", buf'[u] # NoFile
          PROVE  version'[s] = "old"
      <4>1. CASE u # w
        BY <2>0, <2>2, <3>1, <3>4, <4>1 DEF OldAt
      <4>2. CASE u = w
        <5>1. Mine(w) = r
          BY <3>2, <3>4, <4>2
        <5>2. CASE Enter(w) /\ version[sat[w]] = "old"
          BY <2>0, <2>2, <5>1, <5>2
        <5>3. CASE /\ files[r] # NoFile /\ files[r].status = "waiting"
                   /\ ~\E v \in Worker : Mine(v) = r /\ Leads(v) /\ phase[v] = "begin"
          <6>1. ~\E v \in Worker : Due(v, r)
            BY <2>0, <5>3 DEF Due, Leads
          <6> QED
            BY <2>0, <2>2, <5>3, <6>1 DEF OldAt
        <5> QED
          BY <1>1, <2>0, <3>4, <4>2, <5>1, <5>2, <5>3, InTime
      <4> QED
        BY <4>1, <4>2
    <3>5. ASSUME files'[r] # NoFile, files'[r].status = "waiting"
          PROVE  version'[s] = "old" \/ \E v \in Worker : Due(v, r)'
      <4>1. CASE Mine(w) = r /\ WriteBack(w) /\ phase[w] = "registering" /\ buf[w] # NoFile
        BY <2>0, <2>2, <4>1 DEF OldAt
      <4>2. CASE /\ files[r] # NoFile /\ files[r].status = "waiting"
                 /\ \/ files'[r] = files[r]
                    \/ Mine(w) = r /\ WriteBack(w) /\ phase[w] \notin DOMAIN MainStatus
        <5>1. CASE version[s] = "old"
          BY <2>2, <5>1
        <5>2. CASE \E v \in Worker : Due(v, r)
          <6>1. PICK v \in Worker : Due(v, r)
            BY <5>2
          <6>2. CASE v # w
            BY <1>1, <6>1, <6>2, StepTypes DEF Due
          <6>3. CASE v = w
            <7>1. phase[w] = "begin" /\ Mine(w) = r /\ kind[w] = "upgrade"
              BY <2>0, <6>1, <6>3 DEF Due
            <7>2. ~WriteBack(w)
              <8>1. "begin" \in DOMAIN MainStatus
                BY DEF MainStatus
              <8>2. WriteBack(w) => files'[r] # files[r]
                BY <1>1, <2>0, <3>5, <4>2, <7>1, <8>1, WriteIs, FileIs DEF MainStatus
              <8> QED
                BY <4>2, <7>1, <8>1, <8>2
            <7>3. UpdateMain(w)
              BY <1>1, <4>2, <7>1, <7>2 DEF Step, Enter, Register, Ready, SetupFails,
                 SeesAllReady, MissesFile, Misses, ActionSucceeds, ActionFails, Poll, EndBody,
                 Unregister, CannotUnregister, Report, Drain, Check, ExitMisses, Unlink, At
            <7>4. Due(w, r)'
              BY <6>1, <6>3, <7>3 DEF UpdateMain, Rewrite, Due, Mine
            <7> QED
              BY <7>4
          <6> QED
            BY <6>2, <6>3
        <5> QED
          BY <2>0, <4>2, <5>1, <5>2 DEF OldAt
      <4> QED
        BY <1>1, <2>0, <3>5, <4>1, <4>2, StillWaiting
    <3>6. ASSUME NEW u \in Worker, Mine(u)' = r, phase'[u] \in {"begin", "act"}
          PROVE  version'[s] = "upgrading"
      <4>1. CASE Mine(u) = r /\ phase[u] \in {"begin", "act"}
        BY <2>0, <2>2, <4>1 DEF OldAt
      <4>2. CASE u # w
        BY <3>1, <3>6, <4>1, <4>2
      <4>3. CASE u = w
        <5>1. CASE SeesAllReady(w)
          <6>1. Mine(w) = r
            BY <3>2, <3>6, <4>3
          <6> QED
            BY <1>1, <2>0, <5>1, <6>1 DEF SeesAllReady, TypeInv, TypeOK
        <5> QED
          BY <3>2, <3>6, <4>1, <4>3, <5>1
      <4> QED
        BY <4>2, <4>3
    <3>7. OldAt(s, r)'
      BY <3>3, <3>4, <3>5, <3>6 DEF OldAt
    <3> QED
      BY <3>7 DEF r
  <2> QED
    BY <2>1, <2>2
<1>2. ASSUME OldInv, UNCHANGED vars PROVE OldInv'
  BY <1>2 DEF vars, worker, world, OldInv, OldAt, Due, Mine
<1> QED
  BY <1>1, <1>2 DEF Next

\* The phases of an upgrade in which its Satellite has to be there.
InUpgrade == {"wait", "begin", "act", "publish", "body"}
Reaches(u) == \/ phase[u] \in InUpgrade
              \/ phase[u] = "setup" /\ buf[u] # NoFile
\* The Satellites are to be given back.
Closing(v) == Due(v, T) \/ kind[v] = "checkin"

ReachAt ==
    /\ \A u \in Worker : kind[u] = "upgrade" => files[T].watchers[u] = "pending"
    /\ \A v \in Worker : Closing(v) =>
          \A u \in Worker : /\ kind[u] # "upgrade"
                            /\ Mine(u) = T /\ phase[u] = "registering" => buf[u] = NoFile
    /\ \A v \in Worker : kind[v] = "checkin" => files[T].status # "waiting"
    /\ \A u \in Worker : kind[u] = "upgrade" /\ Reaches(u) => CheckedOut(sat[u])
ReachInv == T \notin late \cup pulled => ReachAt

\* How a worker gets from the meeting of the tests to an upgrade, or to a checkin.
LEMMA IntoStep ==
  ASSUME TypeInv, NEW w \in Worker, Step(w)
  PROVE  /\ kind'[w] = "upgrade" => \/ kind[w] = "upgrade" /\ Mine(w) # T
                                    \/ /\ WriteBack(w) /\ kind[w] = "tests" /\ Mine(w) = T
                                       /\ phase[w] = "registering" /\ phase'[w] = "enter"
         /\ kind'[w] = "checkin" => \/ kind[w] = "checkin" /\ Mine(w) # T
                                    \/ /\ WriteBack(w) /\ Mine(w) = T
                                       /\ phase[w] = "begin" /\ Due(w, T)
         /\ Due(w, T)' => \/ Due(w, T)
                          \/ SeesAllReady(w) /\ Mine(w) = T
<1>0. /\ kind \in [Worker -> Kind] /\ phase \in [Worker -> Phase] /\ "tests" \in Kind
      /\ (buf[w] # NoFile => phase[w] \in WritePhase)
      /\ (Mine(w) = T <=> kind[w] = "tests") /\ (Mine(w)' = T <=> kind'[w] = "tests")
      /\ (phase[w] = "begin" => kind[w] \in leads[w])
  <2>1. TypeInv'
    BY StepTypes
  <2>2. Mine(w)' = T <=> kind'[w] = "tests"
    BY <2>1 DEF TypeInv, TypeOK, Mine, Name, T
  <2> QED
    BY <2>2, NameIs DEF TypeInv, TypeOK, WorkerInv, LeadPhase, Kind
<1>1. ASSUME NEW p \in Phase, Stay(w, p)
      PROVE  kind'[w] = kind[w] /\ phase'[w] = p
  BY <1>0, <1>1 DEF Stay, Go
<1>2. ASSUME NEW ok \in BOOLEAN, Out(w, ok)
      PROVE  kind'[w] \in {"tests", "checkout"} /\ phase'[w] # "begin"
  BY <1>0, <1>2, OutIs
<1> DEFINE Goal ==
      /\ kind'[w] = "upgrade" => \/ kind[w] = "upgrade" /\ Mine(w) # T
                                 \/ /\ WriteBack(w) /\ kind[w] = "tests" /\ Mine(w) = T
                                    /\ phase[w] = "registering" /\ phase'[w] = "enter"
      /\ kind'[w] = "checkin" => \/ kind[w] = "checkin" /\ Mine(w) # T
                                 \/ /\ WriteBack(w) /\ Mine(w) = T
                                    /\ phase[w] = "begin" /\ Due(w, T)
      /\ Due(w, T)' => Due(w, T) \/ (SeesAllReady(w) /\ Mine(w) = T)
<1> SUFFICES Goal
  OBVIOUS
<1>3. ASSUME NEW p \in Phase \ {"begin"}, Stay(w, p) PROVE Goal
  BY <1>0, <1>1, <1>3 DEF Due
<1>4. ASSUME NEW ok \in BOOLEAN, Out(w, ok) PROVE Goal
  BY <1>0, <1>2, <1>4 DEF Due
<1>5. ASSUME kind' = kind, phase' = phase, sat' = sat, leads' = leads PROVE Goal
  BY <1>0, <1>5 DEF Due, Mine, Name, T
<1>6. CASE WriteBack(w)
  <2>1. CASE Into(w, "upgrade") /\ phase[w] = "registering" /\ kind[w] = "tests"
    BY <1>0, <1>6, <2>1 DEF Into, Go, Due
  <2>2. CASE Into(w, "checkin") /\ phase[w] = "begin" /\ kind[w] = "tests"
    <3>1. Due(w, T)
      BY <1>0, <2>2 DEF Due, T
    <3> QED
      BY <1>0, <1>6, <2>2, <3>1 DEF Into, Go, Due
  <2>3. CASE \E p \in {"setup", "wait", "act", "body", "unlink", "leaving", "drain", "report", "check"} :
               Stay(w, p)
    BY <1>3, <2>3 DEF Phase
  <2> HIDE DEF Goal
  <2>4. CASE Out(w, TRUE) \/ Out(w, FALSE)
    BY <1>4, <2>4
  <2> QED
    BY <1>6, <2>1, <2>2, <2>3, <2>4 DEF WriteBack
<1>7. CASE SeesAllReady(w)
  <2>1. Stay(w, "begin") /\ leads' = leads
    BY <1>7 DEF SeesAllReady
  <2>2. kind'[w] = kind[w]
    BY <1>1, <2>1 DEF Phase
  <2> QED
    BY <1>0, <1>7, <2>2 DEF Due
<1> HIDE DEF Goal
<1>8. CASE Register(w)
  <2>1. CASE files[Mine(w)] = NoFile
    BY <1>4, <1>8, <2>1 DEF Register
  <2>2. CASE files[Mine(w)] # NoFile
    BY <1>5, <1>8, <2>2 DEF Register
  <2> QED
    BY <2>1, <2>2
<1>9. CASE Enter(w) \/ SetupFails(w) \/ MissesFile(w) \/ ActionSucceeds(w) \/ ActionFails(w)
  BY <1>3, <1>9 DEF Enter, SetupFails, MissesFile, ActionSucceeds, ActionFails, Phase
<1>10. CASE Poll(w) \/ Drain(w) \/ Check(w)
  BY <1>3, <1>10 DEF Poll, Drain, Check, Phase
<1>11. CASE Ready(w) \/ UpdateMain(w) \/ Unregister(w) \/ Report(w)
  BY <1>5, <1>11 DEF Ready, UpdateMain, Unregister, Report, Rewrite
<1>12. CASE EndBody(w)
  <2>1. kind'[w] = kind[w] /\ phase'[w] = "exit"
    BY <1>0, <1>12 DEF EndBody, Go
  <2> QED
    BY <1>0, <2>1 DEF Goal, Due
<1>13. CASE CannotUnregister(w) \/ ExitMisses(w) \/ Unlink(w)
  BY <1>3, <1>4, <1>13 DEF CannotUnregister, ExitMisses, Unlink, Phase
<1> QED
  BY <1>6, <1>7, <1>8, <1>9, <1>10, <1>11, <1>12, <1>13 DEF Step

LEMMA ReachStep == TypeInv /\ FileInv /\ ReachInv /\ [Next]_vars => ReachInv'
<1>1. ASSUME TypeInv, FileInv, ReachInv, NEW w \in Worker, Step(w) PROVE ReachInv'
  <2> SUFFICES ASSUME T \notin (late \cup pulled)' PROVE ReachAt'
    BY DEF ReachInv
  <2>0. /\ T \in Resource /\ T \notin late' /\ T \notin pulled /\ T \notin pulled'
        /\ ReachAt /\ TypeInv' /\ HolderInv /\ BufInv /\ WatchInv /\ LeadInv
        /\ \A u \in Worker : Mine(u) = T <=> kind[u] = "tests"
        /\ \A u \in Worker : Mine(u)' = T <=> kind'[u] = "tests"
    <3>1. T \in Resource /\ TypeInv' /\ T \notin late /\ T \notin pulled
      BY <1>1, StepTypes, LateGrows DEF T, Resource
    <3>2. \A u \in Worker : Mine(u) = T <=> kind[u] = "tests"
      BY <1>1, NameIs
    <3>3. \A u \in Worker : Mine(u)' = T <=> kind'[u] = "tests"
      BY <3>1 DEF TypeInv, TypeOK, Mine, Name, T
    <3> QED
      BY <1>1, <3>1, <3>2, <3>3 DEF ReachInv, FileInv
  <2>a. \A u \in Worker : u # w =>
           /\ kind'[u] = kind[u] /\ phase'[u] = phase[u] /\ buf'[u] = buf[u] /\ sat'[u] = sat[u]
           /\ Mine(u)' = Mine(u) /\ leads'[u] = leads[u]
    BY <1>1, StepTypes
  <2>b. ASSUME NEW u \in Worker, kind[u] \in {"upgrade", "checkin"}
        PROVE  /\ Watches(u, T) /\ Watches(u, T)'
               /\ files'[T].watchers[u] = files[T].watchers[u]
    <3>1. On(u, T) /\ Mine(u) # T
      BY <2>0, <2>b DEF On
    <3> QED
      BY <1>1, <2>0, <3>1, Kept
  <2>1. ASSUME NEW u \in Worker, kind'[u] = "upgrade" PROVE files'[T].watchers[u] = "pending"
    <3>1. CASE kind[u] = "upgrade"
      BY <2>0, <2>b, <3>1 DEF ReachAt
    <3>2. CASE kind[u] # "upgrade"
      <4>1. u = w /\ WriteBack(w) /\ Mine(w) = T /\ phase[w] = "registering"
        BY <1>1, <2>1, <2>a, <3>2, IntoStep
      <4> QED
        BY <1>1, <2>0, <4>1, WriteIs
    <3> QED
      BY <3>1, <3>2
  <2>2. ASSUME NEW v \in Worker, Closing(v)', NEW u \in Worker
        PROVE  /\ kind'[u] # "upgrade"
               /\ Mine(u)' = T /\ phase'[u] = "registering" => buf'[u] = NoFile
    <3>1. CASE Closing(v)
      <4>0. /\ \A x \in Worker : /\ kind[x] # "upgrade"
                                 /\ Mine(x) = T /\ phase[x] = "registering" => buf[x] = NoFile
            /\ files[T] # NoFile
        <5>1. On(v, T)
          BY <3>1 DEF Closing, Due, On, OnPhase
        <5> QED
          BY <2>0, <3>1, <5>1 DEF ReachAt, WatchInv, Watches
      <4>1. CASE u # w
        BY <2>a, <4>0, <4>1
      <4>2. CASE u = w
        <5>1. kind'[w] # "upgrade"
          <6>1. WriteBack(w) => buf[w] # NoFile
            BY DEF WriteBack
          <6> QED
            BY <1>1, <4>0, <6>1, IntoStep
        <5>2. ASSUME Mine(w)' = T, phase'[w] = "registering", buf'[w] # NoFile PROVE FALSE
          <6>1. Mine(w) = T
            BY <1>1, <5>2, HoldStep DEF Holds
          <6>2. /\ files[T].status = "waiting"
                /\ ~\E x \in Worker : Mine(x) = T /\ Leads(x) /\ phase[x] = "begin"
            BY <1>1, <2>0, <4>0, <5>2, <6>1, InTime
          <6>3. CASE Due(v, T)
            <7>1. Leads(v)
              BY <1>1, <6>3, NameIs DEF Due, Leads, T
            <7> QED
              BY <6>2, <6>3, <7>1 DEF Due
          <6>4. CASE kind[v] = "checkin"
            BY <2>0, <6>2, <6>4 DEF ReachAt
          <6> QED
            BY <3>1, <6>3, <6>4 DEF Closing
        <5> QED
          BY <4>2, <5>1, <5>2
      <4> QED
        BY <4>1, <4>2
    <3>2. CASE ~Closing(v)
      <4>1. v = w
        BY <2>2, <2>a, <3>2 DEF Closing, Due
      <4>2. SeesAllReady(w) /\ Mine(w) = T
        BY <1>1, <2>2, <3>2, <4>1, IntoStep DEF Closing
      <4>3. Unlocked(T) /\ AllReady(files[T]) /\ phase'[w] = "begin" /\ kind'[w] = "tests"
        <5>1. kind \in [Worker -> Kind] /\ phase \in [Worker -> Phase] /\ kind[w] = "tests"
          BY <1>1, <2>0, <4>2 DEF TypeInv, TypeOK
        <5>2. Unlocked(T) /\ AllReady(files[T]) /\ Stay(w, "begin")
          BY <4>2 DEF SeesAllReady, Finds
        <5> QED
          BY <5>1, <5>2 DEF Stay, Go
      <4>4. kind'[u] # "upgrade"
        <5>1. ASSUME kind[u] = "upgrade" PROVE FALSE
          BY <2>0, <2>b, <4>3, <5>1 DEF ReachAt, AllReady, Watches
        <5> QED
          BY <2>a, <4>3, <5>1
      <4>5. Mine(u)' = T => phase'[u] # "registering"
        BY <2>a, <4>3 DEF Unlocked, Holds
      <4> QED
        BY <4>4, <4>5
    <3> QED
      BY <3>1, <3>2
  <2>3. ASSUME NEW v \in Worker, kind'[v] = "checkin" PROVE files'[T].status # "waiting"
    <3>1. CASE kind[v] = "checkin"
      <4>1. files[T] # NoFile /\ files'[T] # NoFile /\ files[T].status # "waiting"
        BY <2>0, <2>b, <3>1 DEF ReachAt, Watches
      <4> QED
        BY <1>1, <2>0, <4>1, StillWaiting
    <3>2. CASE kind[v] # "checkin"
      <4>1. v = w /\ WriteBack(w) /\ Mine(w) = T /\ phase[w] = "begin"
        BY <1>1, <2>3, <2>a, <3>2, IntoStep
      <4>2. "begin" \in DOMAIN MainStatus /\ MainStatus["begin"] = "acting"
        BY DEF MainStatus
      <4> QED
        BY <1>1, <2>0, <4>1, <4>2, WriteIs
    <3> QED
      BY <3>1, <3>2
  <2>4. ASSUME NEW u \in Worker, kind'[u] = "upgrade", Reaches(u)' PROVE CheckedOut(sat[u])'
    <3>1. kind[u] = "upgrade" /\ sat'[u] = sat[u] /\ CheckedOut(sat[u])
      <4>1. CASE u # w
        BY <2>0, <2>a, <2>4, <4>1 DEF Reaches, ReachAt
      <4>2. CASE u = w
        <5>0. phase'[w] # "enter"
          BY <2>4, <4>2 DEF Reaches, InUpgrade
        <5>1. kind[w] = "upgrade" /\ sat'[w] = sat[w] /\ Mine(w)' = Mine(w)
          BY <1>1, <2>4, <4>2, <5>0, UpgradeStep
        <5>2. CASE Reaches(w)
          BY <2>0, <4>2, <5>1, <5>2 DEF ReachAt
        <5>3. CASE ~Reaches(w)
          <6>1. WriteBack(w) => buf[w] # NoFile
            BY DEF WriteBack
          <6>2. Poll(w) => phase[w] = "wait"
            BY DEF Poll, At
          <6>3. CASE phase'[w] = "setup" /\ buf'[w] # NoFile
            <7>1. Ready(w) \/ UpdateMain(w) \/ Unregister(w) \/ Report(w) \/ Enter(w) \/ Register(w)
              BY <1>1, <6>3, HoldStep DEF Holds
            <7>2. Ready(w)
              BY <1>1, <6>3, <7>1, HoldStep DEF Holds, UpdateMain, MainStatus, Unregister, Report, At
            <7> QED
              BY <4>2, <5>1, <7>2 DEF Ready
          <6> QED
            BY <1>1, <2>4, <4>2, <5>0, <5>3, <6>1, <6>2, <6>3, UpgradeStep DEF Reaches, InUpgrade
        <5> QED
          BY <5>2, <5>3
      <4> QED
        BY <4>1, <4>2
    <3>2. inventory \subseteq inventory' \/ kind[w] = "checkin"
      <4>1. CASE ActionSucceeds(w)
        BY <4>1 DEF ActionSucceeds, CheckOut
      <4>2. CASE ~ActionSucceeds(w)
        BY <1>1, <4>2 DEF Step, WriteBack, Enter, Register, Ready, SetupFails, SeesAllReady,
           UpdateMain, Rewrite, MissesFile, ActionFails, Poll, EndBody, Unregister,
           CannotUnregister, Report, Drain, Check, ExitMisses, Unlink, world
      <4> QED
        BY <4>1, <4>2
    <3>3. kind[w] # "checkin"
      BY <2>0, <3>1 DEF ReachAt, Closing
    <3> QED
      BY <3>1, <3>2, <3>3 DEF CheckedOut
  <2> QED
    BY <2>1, <2>2, <2>3, <2>4 DEF ReachAt
<1>2. ASSUME ReachInv, UNCHANGED vars PROVE ReachInv'
  BY <1>2 DEF vars, worker, world, ReachInv, ReachAt, Reaches, Closing, Due, Mine, CheckedOut
<1> QED
  BY <1>1, <1>2 DEF Next

\* With every worker in time and no file unlinked under anybody, a test is set up on the
\* old version, and its Satellite is not given back under it.
THEOREM PunctualTests == Spec => []Punctual
<1>1. Init => OldInv /\ ReachInv
  <2> SUFFICES ASSUME Init PROVE OldInv /\ ReachInv
    OBVIOUS
  <2>1. \A w \in Worker : phase[w] = "enter" /\ kind[w] = "checkout"
    BY DEF Init
  <2>2. \A r \in Resource : files[r] = NoFile
    BY DEF Init
  <2>3. ReachAt
    BY <2>1 DEF ReachAt, Closing, Due
  <2>4. \A s \in Satellite : OldAt(s, <<"upgrade", s>>)
    BY <2>1, <2>2 DEF OldAt, Resource
  <2> QED
    BY <2>3, <2>4 DEF OldInv, ReachInv
<1>2. TypeInv /\ OldInv /\ ReachInv => Punctual
  <2> SUFFICES ASSUME TypeInv, OldInv, ReachInv, NEW w \in Worker
               PROVE  /\ InSetup(w) /\ Mine(w) \notin late \cup pulled => version[sat[w]] = "old"
                      /\ InTest(w) /\ <<"tests", 0>> \notin late \cup pulled => CheckedOut(sat[w])
    BY DEF Punctual
  <2>1. InSetup(w) => sat[w] \in Satellite /\ Mine(w) = <<"upgrade", sat[w]>> /\ phase[w] = "setup"
    BY MineIs, NameIs DEF InSetup, TypeInv
  <2> QED
    BY <2>1 DEF OldInv, OldAt, ReachInv, ReachAt, InTest, Reaches, InUpgrade, T
<1> QED
  BY <1>1, <1>2, FileInvariance, OldStep, ReachStep, PTL DEF Spec

-----------------------------------------------------------------------------
(* NailgunSwap: what a successful swap is worth before and after the lock  *)
(* is released.                                                            *)

Locked == {"freeze", "uninstall", "install", "release"}

LEMMA SwapInitialTypes == SwapInit => SwapTypeOK
<1> SUFFICES ASSUME SwapInit PROVE SwapTypeOK
  OBVIOUS
<1> USE SwapAssumption
<1> QED
  BY DEF SwapInit, SwapTypeOK, PC, Module

\* What only the worker that holds the lock can do keeps the types.
LEMMA SwapTypeStep == SwapTypeOK /\ [SwapNext]_swapVars => SwapTypeOK'
<1> SUFFICES ASSUME SwapTypeOK, [SwapNext]_swapVars PROVE SwapTypeOK'
  OBVIOUS
<1> USE SwapAssumption DEF SwapTypeOK, PC, Goto
<1>1. ASSUME NEW w \in Process, NEW v \in Version, Ask(w, v) PROVE SwapTypeOK'
  BY <1>1 DEF Ask
<1>2. ASSUME NEW w \in Process, Acquire(w) PROVE SwapTypeOK'
  BY <1>2 DEF Acquire, Free
<1>3. ASSUME NEW w \in Process, LockTimesOut(w) PROVE SwapTypeOK'
  BY <1>3 DEF LockTimesOut, Free
<1>4. ASSUME NEW w \in Process, Freeze(w) PROVE SwapTypeOK'
  BY <1>4 DEF Freeze, IsInstalled
<1>5. ASSUME NEW w \in Process, Uninstall(w) PROVE SwapTypeOK'
  BY <1>5 DEF Uninstall, Imported
<1>6. ASSUME NEW w \in Process, Install(w) PROVE SwapTypeOK'
  BY <1>6 DEF Install
<1>7. ASSUME NEW w \in Process, PipFails(w) PROVE SwapTypeOK'
  BY <1>7 DEF PipFails
<1>8. ASSUME NEW w \in Process, Release(w) PROVE SwapTypeOK'
  BY <1>8 DEF Release
<1>9. ASSUME NEW w \in Process, Clear(w) PROVE SwapTypeOK'
  BY <1>9 DEF Clear, Cleared, Nothing
<1>10. ASSUME NEW w \in Process, Use(w) PROVE SwapTypeOK'
  BY <1>10 DEF Use
<1>11. ASSUME NEW w \in Process, NEW m \in Module, Import(w, m) PROVE SwapTypeOK'
  <2>1. \/ loaded' = loaded /\ pc' = [pc EXCEPT ![w] = "failed"]
        \/ loaded' = [loaded EXCEPT ![w] = [@ EXCEPT ![m] = installed]] /\ pc' = pc
    BY <1>11 DEF Import
  <2>2. loaded' \in [Process -> [Module -> Version \cup {Base, NoVersion}]]
    BY SMTT(60), <2>1
  <2>3. /\ UNCHANGED <<installed, lock, wanted, found, api, sure, swaps, pipFailures>>
        /\ pc[w] = "import"
    BY <1>11 DEF Import
  <2>4. CASE pc' = pc
    BY <2>2, <2>3, <2>4
  <2>5. CASE pc' = [pc EXCEPT ![w] = "failed"]
    BY <2>2, <2>3, <2>5
  <2> QED
    BY <2>1, <2>4, <2>5
<1>12. ASSUME NEW w \in Process, Configure(w) PROVE SwapTypeOK'
  <2>1. {loaded[w][m] : m \in Module} \subseteq Version \cup {Base}
    BY <1>12 DEF Configure
  <2> QED
    BY <1>12, <2>1 DEF Configure
<1>13. CASE UNCHANGED swapVars
  BY <1>13 DEF swapVars
<1> QED
  BY <1>1, <1>2, <1>3, <1>4, <1>5, <1>6, <1>7, <1>8, <1>9, <1>10, <1>11, <1>12, <1>13 DEF SwapNext, SwapStep

\* The state has the types of TypeOK, and the lock is held exactly by the worker that
\* is among the pip commands.
THEOREM SwapTypeCorrect == SwapSpec => []SwapTypeOK
  BY SwapInitialTypes, SwapTypeStep, PTL DEF SwapSpec

-----------------------------------------------------------------------------
\* What the lock holder knows of site-packages.
SwapHolderInv ==
    \A w \in Process :
        /\ pc[w] \in Locked \cup {"clear"} => wanted[w] \in Version
        /\ pc[w] = "uninstall" => installed # wanted[w]
        /\ pc[w] = "install" => installed = NoVersion
        /\ pc[w] = "release" => installed = wanted[w]
        /\ pc[w] = "lock" => wanted[w] \in Version

\* What a worker may rely on after its swap: the version it wants is installed until it
\* has imported it, and it has imported nothing else.
SureInv ==
    \A w \in Process : sure[w] =>
        /\ pc[w] \in {"clear", "idle", "import"}
        /\ wanted[w] \in Version
        /\ ~Imported(w) => installed = wanted[w]
        /\ pc[w] # "clear" => \A m \in Module : loaded[w][m] \in {NoVersion, wanted[w]}
        /\ Imported(w) => api[w] = {wanted[w]}
        /\ pc[w] = "import" => api[w] = {}

SwapInv == SwapTypeOK /\ SwapHolderInv /\ SureInv

LEMMA SwapHolderStep == SwapTypeOK /\ SwapHolderInv /\ [SwapNext]_swapVars => SwapHolderInv'
<1> SUFFICES ASSUME SwapTypeOK, SwapHolderInv, [SwapNext]_swapVars PROVE SwapHolderInv'
  OBVIOUS
<1> USE SwapAssumption DEF Goto
\* A step of w that does not change what is installed.
<1>1. ASSUME NEW w \in Process, installed' = installed,
             \A v \in Process : v # w => pc'[v] = pc[v] /\ wanted'[v] = wanted[v],
             pc'[w] \in Locked \cup {"clear", "lock"} => wanted'[w] \in Version,
             pc'[w] = "uninstall" => installed # wanted'[w],
             pc'[w] = "install" => installed = NoVersion,
             pc'[w] = "release" => installed = wanted'[w]
      PROVE  SwapHolderInv'
  BY <1>1 DEF SwapHolderInv
\* One that does: w has the lock.
<1>2. ASSUME NEW w \in Process, pc[w] \in Locked, wanted' = wanted,
             \A v \in Process : v # w => pc'[v] = pc[v],
             \/ pc'[w] = "install" /\ installed' = NoVersion
             \/ pc'[w] = "release" /\ installed' = wanted[w]
      PROVE  SwapHolderInv'
  <2>1. \A v \in Process : v # w => pc'[v] \notin Locked
    BY <1>2 DEF SwapTypeOK, Locked
  <2> QED
    BY <1>2, <2>1 DEF SwapHolderInv, Locked
<1>3. ASSUME NEW w \in Process, NEW v \in Version, Ask(w, v) PROVE SwapHolderInv'
  <2>1. /\ installed' = installed /\ pc'[w] = "lock" /\ wanted'[w] = v
        /\ \A u \in Process : u # w => pc'[u] = pc[u] /\ wanted'[u] = wanted[u]
    BY <1>3 DEF Ask, SwapTypeOK
  <2> QED
    BY <1>1, <2>1
<1>4. ASSUME NEW w \in Process, Acquire(w) \/ LockTimesOut(w) \/ PipFails(w) \/ Freeze(w) PROVE SwapHolderInv'
  <2>1. /\ installed' = installed /\ wanted' = wanted
        /\ \A u \in Process : u # w => pc'[u] = pc[u]
        /\ \/ pc'[w] = "failed"
           \/ pc[w] = "lock" /\ pc'[w] = "freeze"
           \/ pc[w] = "freeze" /\ pc'[w] = "release" /\ installed = wanted[w]
           \/ pc[w] = "freeze" /\ pc'[w] = "uninstall" /\ installed # wanted[w]
    BY <1>4 DEF Acquire, LockTimesOut, PipFails, Freeze, IsInstalled, SwapTypeOK
  <2> QED
    BY <1>1, <2>1 DEF SwapHolderInv, Locked
<1>5. ASSUME NEW w \in Process, Uninstall(w) \/ Install(w) PROVE SwapHolderInv'
  BY <1>2, <1>5 DEF Uninstall, Install, Locked, SwapTypeOK
<1>6. ASSUME NEW w \in Process, Release(w) PROVE SwapHolderInv'
  <2>1. /\ installed' = installed /\ wanted' = wanted /\ pc'[w] = "clear" /\ pc[w] = "release"
        /\ \A u \in Process : u # w => pc'[u] = pc[u]
    BY <1>6 DEF Release, SwapTypeOK
  <2> QED
    BY <1>1, <2>1 DEF SwapHolderInv, Locked
<1>7. ASSUME NEW w \in Process, Clear(w) \/ Use(w) \/ (\E m \in Module : Import(w, m)) \/ Configure(w)
      PROVE  SwapHolderInv'
  <2>1. /\ installed' = installed /\ wanted' = wanted
        /\ pc'[w] \in {"idle", "import", "failed"}
        /\ \A u \in Process : u # w => pc'[u] = pc[u]
    BY <1>7 DEF Clear, Use, Import, Configure, SwapTypeOK
  <2> QED
    BY <1>1, <2>1 DEF Locked
<1>8. CASE UNCHANGED swapVars
  BY <1>8 DEF swapVars, SwapHolderInv
<1> QED
  BY <1>3, <1>4, <1>5, <1>6, <1>7, <1>8 DEF SwapNext, SwapStep

LEMMA SureStep == SwapTypeOK /\ SwapHolderInv /\ SureInv /\ [SwapNext]_swapVars => SureInv'
<1> SUFFICES ASSUME SwapTypeOK, SwapHolderInv, SureInv, [SwapNext]_swapVars PROVE SureInv'
  OBVIOUS
<1> USE SwapAssumption DEF Goto
\* A step of w that leaves the others, and what is installed, alone.
<1>1. ASSUME NEW w \in Process, installed' = installed,
             \A v \in Process : v # w =>
                 /\ pc'[v] = pc[v] /\ wanted'[v] = wanted[v] /\ loaded'[v] = loaded[v]
                 /\ api'[v] = api[v] /\ sure'[v] = sure[v],
             sure'[w] =>
                 /\ pc'[w] \in {"clear", "idle", "import"} /\ wanted'[w] \in Version
                 /\ ~Imported(w)' => installed = wanted'[w]
                 /\ pc'[w] # "clear" => \A m \in Module : loaded'[w][m] \in {NoVersion, wanted'[w]}
                 /\ Imported(w)' => api'[w] = {wanted'[w]}
                 /\ pc'[w] = "import" => api'[w] = {}
      PROVE  SureInv'
  BY <1>1 DEF SureInv, Imported
<1>2. ASSUME NEW w \in Process, NEW v \in Version, Ask(w, v) PROVE SureInv'
  <2>1. installed' = installed /\ sure'[w] = FALSE
    BY <1>2 DEF Ask, SwapTypeOK
  <2>2. \A u \in Process : u # w =>
            /\ pc'[u] = pc[u] /\ wanted'[u] = wanted[u] /\ loaded'[u] = loaded[u]
            /\ api'[u] = api[u] /\ sure'[u] = sure[u]
    BY <1>2 DEF Ask, SwapTypeOK
  <2> QED
    BY <1>1, <2>1, <2>2
<1>3. ASSUME NEW w \in Process, Acquire(w) \/ LockTimesOut(w) \/ PipFails(w) \/ Freeze(w) PROVE SureInv'
  <2>1. ~sure[w]
    BY <1>3 DEF Acquire, LockTimesOut, PipFails, Freeze, SureInv
  <2>2. /\ installed' = installed /\ wanted' = wanted /\ loaded' = loaded /\ api' = api /\ sure' = sure
        /\ \A u \in Process : u # w => pc'[u] = pc[u]
    BY <1>3 DEF Acquire, LockTimesOut, PipFails, Freeze, SwapTypeOK
  <2> QED
    BY <1>1, <2>1, <2>2
<1>4. ASSUME NEW w \in Process, Uninstall(w) PROVE SureInv'
  <2>1. /\ \A u \in Process : sure'[u] => sure[u] /\ Imported(u)
        /\ pc[w] = "uninstall" /\ wanted' = wanted /\ loaded' = loaded /\ api' = api
        /\ \A u \in Process : u # w => pc'[u] = pc[u]
    BY <1>4 DEF Uninstall, SwapTypeOK
  <2>2. \A u \in Process : sure'[u] => u # w
    BY <2>1 DEF Imported
  <2> QED
    BY <2>1, <2>2 DEF SureInv, Imported
<1>5. ASSUME NEW w \in Process, Install(w) PROVE SureInv'
  <2>1. /\ sure' = sure /\ pc[w] = "install" /\ wanted' = wanted /\ loaded' = loaded /\ api' = api
        /\ \A u \in Process : u # w => pc'[u] = pc[u]
    BY <1>5 DEF Install, SwapTypeOK
  <2>2. installed = NoVersion
    BY <2>1 DEF SwapHolderInv
  <2>3. ASSUME NEW u \in Process, sure[u] PROVE Imported(u) /\ u # w
    BY <2>1, <2>2, <2>3 DEF SureInv, Imported
  <2> QED
    BY <2>1, <2>3 DEF SureInv, Imported
<1>6. ASSUME NEW w \in Process, Release(w) PROVE SureInv'
  <2>1. /\ installed' = installed /\ wanted' = wanted /\ loaded' = loaded /\ api' = api
        /\ \A u \in Process : u # w => pc'[u] = pc[u] /\ sure'[u] = sure[u]
        /\ pc[w] = "release" /\ pc'[w] = "clear"
    BY <1>6 DEF Release, SwapTypeOK
  <2>2. wanted[w] \in Version /\ installed = wanted[w]
    BY <2>1 DEF SwapHolderInv, Locked
  <2> QED
    BY <1>1, <2>1, <2>2 DEF Imported
<1>7. ASSUME NEW w \in Process, Clear(w) PROVE SureInv'
  <2>1. /\ installed' = installed /\ wanted' = wanted /\ sure' = sure
        /\ \A u \in Process : u # w => pc'[u] = pc[u] /\ loaded'[u] = loaded[u] /\ api'[u] = api[u]
        /\ pc[w] = "clear" /\ pc'[w] = "idle" /\ loaded'[w] = Nothing /\ api'[w] = {}
    BY <1>7 DEF Clear, Cleared, SwapTypeOK
  <2> QED
    BY <1>1, <2>1 DEF Imported, SureInv, Nothing
<1>8. ASSUME NEW w \in Process, Use(w) PROVE SureInv'
  <2>1. /\ installed' = installed /\ wanted' = wanted /\ sure' = sure /\ loaded' = loaded /\ api' = api
        /\ \A u \in Process : u # w => pc'[u] = pc[u]
        /\ pc[w] = "idle" /\ pc'[w] = "import" /\ api[w] = {}
    BY <1>8 DEF Use, SwapTypeOK
  <2> QED
    BY <1>1, <2>1 DEF Imported, SureInv
<1>9. ASSUME NEW w \in Process, NEW m \in Module, Import(w, m) PROVE SureInv'
  <2>1. /\ installed' = installed /\ wanted' = wanted /\ sure' = sure /\ api' = api /\ pc[w] = "import"
        /\ \/ installed = NoVersion /\ loaded' = loaded /\ \A u \in Process : u # w => pc'[u] = pc[u]
           \/ installed # NoVersion /\ pc' = pc /\ loaded' = [loaded EXCEPT ![w] = [@ EXCEPT ![m] = installed]]
    BY <1>9 DEF Import, SwapTypeOK
  <2>2. sure[w] => installed = wanted[w] /\ wanted[w] # NoVersion /\ api[w] = {}
    BY <2>1 DEF SureInv, Imported
  <2>3. \A u \in Process : u # w => pc'[u] = pc[u] /\ loaded'[u] = loaded[u]
    BY <2>1 DEF SwapTypeOK
  <2>4. sure[w] => pc'[w] = "import" /\ \A k \in Module : loaded'[w][k] \in {NoVersion, wanted[w]}
    <3>1. installed # NoVersion => \A k \in Module : loaded'[w][k] = IF k = m THEN installed ELSE loaded[w][k]
      BY <2>1 DEF SwapTypeOK
    <3> QED
      BY <2>1, <2>2, <3>1 DEF SureInv
  <2>5. sure'[w] => wanted'[w] \in Version /\ ~Imported(w)'
    BY <2>1, <2>4 DEF SureInv, Imported
  <2> QED
    BY <1>1, <2>1, <2>2, <2>3, <2>4, <2>5
<1>10. ASSUME NEW w \in Process, Configure(w) PROVE SureInv'
  <2>1. /\ installed' = installed /\ wanted' = wanted /\ sure' = sure /\ loaded' = loaded
        /\ \A u \in Process : u # w => pc'[u] = pc[u] /\ api'[u] = api[u]
        /\ pc[w] = "import" /\ pc'[w] = "idle" /\ api'[w] = {loaded[w][m] : m \in Module}
        /\ \A m \in Module : loaded[w][m] # NoVersion
    BY <1>10 DEF Configure, SwapTypeOK
  <2>2. sure[w] => \A m \in Module : loaded[w][m] = wanted[w]
    BY <2>1 DEF SureInv
  <2>3. sure[w] => api'[w] = {wanted[w]}
    BY <2>1, <2>2 DEF Module
  <2> QED
    BY <1>1, <2>1, <2>3 DEF SureInv, Imported
<1>11. CASE UNCHANGED swapVars
  BY <1>11 DEF swapVars, SureInv, Imported
<1> QED
  BY <1>2, <1>3, <1>4, <1>5, <1>6, <1>7, <1>8, <1>9, <1>10, <1>11 DEF SwapNext, SwapStep

\* The inductive invariant: the holder of the lock knows what is installed, and what a
\* successful swap has left stays until it is imported, or somebody uninstalls it.
THEOREM SwapInvariance == SwapSpec => []SwapInv
<1>1. SwapInit => SwapHolderInv /\ SureInv
  BY DEF SwapInit, SwapHolderInv, SureInv, Locked
<1>2. SwapInit => SwapInv
  BY <1>1, SwapInitialTypes DEF SwapInv
<1>3. SwapInv /\ [SwapNext]_swapVars => SwapInv'
  BY SwapTypeStep, SwapHolderStep, SureStep DEF SwapInv
<1> QED
  BY <1>2, <1>3, PTL DEF SwapSpec

\* A worker whose swap has succeeded gets an api of the version it asked for, and of no
\* other, unless somebody has uninstalled it before the import.
THEOREM ApiIsAsAsked == SwapSpec => []AskedIsGiven
<1>1. SwapInv => AskedIsGiven
  BY DEF SwapInv, SureInv, AskedIsGiven, Imported
<1> QED
  BY <1>1, SwapInvariance, PTL

\* Workers that want the same version never take it away from each other, whatever
\* fails: the check for it and the installation are under one lock.
THEOREM SameVersionIsSafe == SwapSpec => SameVersionIsShared
<1> DEFINE Spoilt(w) ==
      sure[w] /\ ~sure'[w] /\ swaps' = swaps
          => \E v \in Process : Uninstall(v) /\ wanted[v] # wanted[w]
<1>1. SwapInv /\ [SwapNext]_swapVars => [\A w \in Process : Spoilt(w)]_swapVars
  <2> SUFFICES ASSUME SwapInv, SwapNext, NEW w \in Process, sure[w], ~sure'[w], swaps' = swaps
               PROVE  \E v \in Process : Uninstall(v) /\ wanted[v] # wanted[w]
    OBVIOUS
  <2>1. PICK v \in Process : SwapStep(v)
    BY DEF SwapNext
  <2>2. Uninstall(v)
    <3>1. CASE \E x \in Version : Ask(v, x)
      BY <3>1 DEF Ask, SwapInv, SwapTypeOK
    <3>2. CASE Release(v)
      BY <3>2 DEF Release, SwapInv, SwapTypeOK
    <3>3. CASE ~Uninstall(v) /\ ~Release(v) /\ ~(\E x \in Version : Ask(v, x))
      BY <2>1, <3>3 DEF SwapStep, Acquire, LockTimesOut, Freeze, Install, PipFails, Clear, Use, Import, Configure
    <3> QED
      BY <3>1, <3>2, <3>3
  <2>3. ~Imported(w)
    BY <2>2 DEF Uninstall, SwapInv, SwapTypeOK
  <2>4. installed = wanted[w]
    BY <2>3 DEF SwapInv, SureInv
  <2>5. installed # wanted[v]
    BY <2>2 DEF Uninstall, SwapInv, SwapHolderInv
  <2> QED
    BY <2>2, <2>4, <2>5
<1> QED
  BY <1>1, SwapInvariance, PTL DEF SwapSpec, SameVersionIsShared
=============================================================================
