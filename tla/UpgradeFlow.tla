---------------------------- MODULE UpgradeFlow ----------------------------
(***************************************************************************)
(* tests/new_upgrades: the single-stage upgrade tests of one group (one    *)
(* {name}_upgrade_shared_satellite fixture).  Each worker runs its tests   *)
(* one after another; a test meets the others at four SharedResources:     *)
(*   checkout   {name}_sat_checkout: one of them checks a Satellite out    *)
(*   tests      {name}_upgrade_tests: open for the whole test; its action, *)
(*              shared_checkin, meets at the next one                      *)
(*   checkin    {hostname}_checkin: the Satellite is given back            *)
(*   upgrade    {hostname}: the setup before ready(), the upgrade as the   *)
(*              action, the test itself after it                           *)
(*                                                                         *)
(* The protocol of the file is that of SharedResource.tla, step for step:  *)
(* a method that rewrites the file reads it under the lock in one step and *)
(* writes it back in another, a check under the lock is a step, and so is  *)
(* an unlink(), which takes no lock. Left out are the takeovers (of the    *)
(* fixtures only those of test_errata.py and of puppet are recoverable)    *)
(* and the status of one that is no watcher, which nothing ever reads.     *)
(***************************************************************************)
EXTENDS Naturals, FiniteSets

CONSTANTS
    Worker,        \* the xdist workers
    Tests,         \* how many tests of the group each runs
    MaxFailures,   \* bound: setups and actions that fail
    NoFile, NoSat

\* The file of a resource: its main status, and the statuses of its watchers.
File == [status: {"waiting", "acting", "done", "error"},
         watchers: UNION {[W -> {"pending", "ready"}] : W \in SUBSET Worker}]

ASSUME ConstantsAssumption ==
    /\ IsFiniteSet(Worker) /\ Tests \in Nat \ {0} /\ MaxFailures \in Nat
    /\ NoFile \notin File /\ NoSat \notin Nat

Kind == {"checkout", "tests", "upgrade", "checkin"}

\* The Satellites that can be checked out, in the order of the inventory.
Satellite == 1 .. (Tests * Cardinality(Worker))

VARIABLES
    files,       \* the file of each resource
    buf,         \* what a worker that rewrites its file has read and changed
    kind, phase, \* the with statement each worker is in, and where in it
    leads,       \* the resources for which its is_main is true
    sat,         \* the sat_instance a worker's fixture holds
    left,        \* tests a worker has still to end
    inventory,   \* Broker's inventory: the group's Satellites
    provisioned, \* how many have been checked out so far
    version,     \* "old", "upgrading", "new", or "broken" by a failed upgrade
    failures,
    late,        \* history: resources somebody registered for too late
    pulled       \* history: resources whose file was unlinked under somebody

worker == <<buf, kind, phase, leads, sat, left>>
world == <<inventory, provisioned, version, failures>>
vars == <<files, worker, world, late, pulled>>

\* Resources are named for the group or for the hostname of a Satellite.
Name(k, s) == IF k \in {"upgrade", "checkin"} THEN <<k, s>> ELSE <<k, 0>>
Resource == {"checkout", "tests"} \X {0} \cup {"upgrade", "checkin"} \X Satellite
Mine(w) == Name(kind[w], sat[w])

Init ==
    /\ files = [r \in Resource |-> NoFile] /\ buf = [w \in Worker |-> NoFile]
    /\ kind = [w \in Worker |-> "checkout"] /\ phase = [w \in Worker |-> "enter"]
    /\ leads = [w \in Worker |-> {}] /\ sat = [w \in Worker |-> NoSat]
    /\ left = [w \in Worker |-> Tests]
    /\ inventory = {} /\ provisioned = 0
    /\ version = [s \in Satellite |-> "old"]
    /\ failures = 0 /\ late = {} /\ pulled = {}

CheckedOut(s) == s \in inventory

-----------------------------------------------------------------------------
(* Where a worker goes.                                                    *)

At(w, p)  == phase[w] = p /\ buf[w] = NoFile
Leads(w)  == kind[w] \in leads[w]

Go(w, k, p) == kind' = [kind EXCEPT ![w] = k] /\ phase' = [phase EXCEPT ![w] = p]
Stay(w, p)  == Go(w, kind[w], p) /\ UNCHANGED <<sat, left>>

\* The test has ended, well or not: the worker goes on to its next one.
EndTest(w) ==
    /\ Go(w, "checkout", IF left[w] = 1 THEN "finished" ELSE "enter")
    /\ left' = [left EXCEPT ![w] = @ - 1]
    /\ sat' = [sat EXCEPT ![w] = NoSat]

\* shared_checkout() returns: with no exception, and the list is not empty.
GotSat(w, ok) == ok /\ sat[w] # NoSat

\* Where a worker goes when it is out of a with statement. sat_instance[0] of an
\* empty list ends the test; a generator fixture resumes after its yield however
\* the test and the fixtures above it ended.
Out(w, ok) ==
    \/ /\ kind[w] = "checkout" /\ GotSat(w, ok)
       /\ Go(w, "tests", "enter") /\ UNCHANGED <<sat, left>>
    \/ /\ kind[w] = "upgrade"
       /\ Go(w, "tests", "setup") /\ UNCHANGED <<sat, left>>
    \/ /\ kind[w] = "checkin"
       /\ Go(w, "tests", IF ok THEN "publish" ELSE "giveUp") /\ UNCHANGED <<sat, left>>
    \/ /\ kind[w] = "tests" \/ (kind[w] = "checkout" /\ ~GotSat(w, ok))
       /\ EndTest(w)

\* A with statement whose body is another meeting: the fixture's yield leads from
\* tests to upgrade, the action of tests is shared_checkin.
Into(w, k) == Go(w, k, "enter") /\ UNCHANGED <<sat, left>>

-----------------------------------------------------------------------------
(* The file of a resource and its lock.                                    *)

NewFile == [status |-> "waiting", watchers |-> <<>>]
With(f, w, status) == [f EXCEPT !.watchers =
    [v \in DOMAIN f.watchers \cup {w} |-> IF v = w THEN status ELSE f.watchers[v]]]
Without(f, w) == [f EXCEPT !.watchers =
    [v \in DOMAIN f.watchers \ {w} |-> f.watchers[v]]]

\* A worker holds the lock from its read to its write, in register() from exists().
Holds(v) == phase[v] = "registering" \/ buf[v] # NoFile
Unlocked(r) == \A v \in Worker : Mine(v) = r => ~Holds(v)

\* A method of the class takes the lock and finds, or misses, its file.
Finds(w)  == Unlocked(Mine(w)) /\ files[Mine(w)] # NoFile
Misses(w) == Unlocked(Mine(w)) /\ files[Mine(w)] = NoFile

\* It has read its file, and has f to write.
Rewrite(w, f) ==
    /\ buf' = [buf EXCEPT ![w] = f]
    /\ UNCHANGED <<files, kind, phase, leads, sat, left, pulled>>

\* write_text(), which makes a file that is gone again, and what comes next.
WriteBack(w) ==
    /\ buf[w] # NoFile
    /\ files' = [files EXCEPT ![Mine(w)] = buf[w]]
    /\ buf' = [buf EXCEPT ![w] = NoFile]
    /\ \/ phase[w] = "registering" /\ kind[w] # "tests" /\ Stay(w, "setup")
       \/ phase[w] = "registering" /\ kind[w] = "tests" /\ Into(w, "upgrade")
       \/ phase[w] = "setup" /\ Stay(w, "wait")
       \/ phase[w] = "begin" /\ kind[w] # "tests" /\ Stay(w, "act")
       \/ phase[w] = "begin" /\ kind[w] = "tests" /\ Into(w, "checkin")
       \/ phase[w] = "publish" /\ Stay(w, "body")
       \/ phase[w] = "giveUp" /\ Stay(w, "unlink")
       \/ phase[w] = "exit" /\ Stay(w, "leaving")
       \/ phase[w] = "leaving" /\ Leads(w) /\ Stay(w, "drain")
       \/ phase[w] = "leaving" /\ ~Leads(w) /\ Out(w, TRUE)
       \/ phase[w] = "error" /\ Stay(w, "report")
       \/ phase[w] = "report" /\ Leads(w) /\ Stay(w, "check")
       \/ phase[w] = "report" /\ ~Leads(w) /\ Out(w, FALSE)
       \/ phase[w] \in {"fnf", "tell"} /\ Out(w, FALSE)
    /\ UNCHANGED <<leads, world, late, pulled>>

-----------------------------------------------------------------------------
(* __enter__: register().                                                  *)

\* History: w registers for an action that is due, checks out while the others have
\* a Satellite, or sets up on a Satellite that is no longer the old version.
TooLate(w, f) ==
    \/ /\ f # NoFile
       /\ \/ f.status # "waiting"
          \/ \E v \in Worker : Mine(v) = Mine(w) /\ Leads(v) /\ phase[v] = "begin"
    \/ f = NoFile /\ kind[w] = "checkout" /\ \E v \in Worker : sat[v] \in inventory
    \/ f = NoFile /\ kind[w] = "upgrade" /\ version[sat[w]] # "old"

Registers(w, f) ==
    buf' = [buf EXCEPT ![w] = With(IF f = NoFile THEN NewFile ELSE f, w, "pending")]

\* Mutant: everybody takes itself for the main watcher.
IsFirst_Always(f) == TRUE

IsFirst(f) == f = NoFile

\* exists(): the first to register is the main watcher.
Enter(w) ==
    LET f == files[Mine(w)] IN
    /\ At(w, "enter") /\ Unlocked(Mine(w))
    /\ leads' = [leads EXCEPT ![w] = IF IsFirst(f) THEN @ \cup {kind[w]} ELSE @ \ {kind[w]}]
    /\ Stay(w, "registering")
    /\ IF f = NoFile THEN Registers(w, f) ELSE UNCHANGED buf
    /\ late' = IF TooLate(w, f) THEN late \cup {Mine(w)} ELSE late
    /\ UNCHANGED <<files, world, pulled>>

\* The others read the file, if the main watcher has not removed it in between.
Register(w) ==
    LET f == files[Mine(w)] IN
    /\ At(w, "registering")
    /\ \/ /\ f # NoFile /\ Registers(w, f) /\ UNCHANGED <<kind, phase, sat, left>>
          /\ late' = IF TooLate(w, f) THEN late \cup {Mine(w)} ELSE late
       \/ f = NoFile /\ Out(w, FALSE) /\ UNCHANGED <<buf, late>>
    /\ UNCHANGED <<files, leads, world, pulled>>

-----------------------------------------------------------------------------
(* ready() and wait().                                                     *)

\* Before ready() the body of upgrade sets the test up, for which the Satellite has
\* to be there. In a file of others, made after the one w registered in is gone, w
\* gets a status and is no watcher: nobody waits for it.
Ready(w) ==
    LET f == files[Mine(w)] IN
    /\ At(w, "setup") /\ Finds(w)
    /\ kind[w] = "upgrade" => CheckedOut(sat[w])
    /\ Rewrite(w, IF w \in DOMAIN f.watchers THEN With(f, w, "ready") ELSE f)
    /\ UNCHANGED <<world, late>>

\* The setup raises: it must when the Satellite has been given back.
SetupFails(w) ==
    /\ At(w, "setup") /\ kind[w] = "upgrade"
    /\ \/ ~CheckedOut(sat[w]) /\ UNCHANGED failures
       \/ failures < MaxFailures /\ failures' = failures + 1
    /\ Stay(w, "error")
    /\ UNCHANGED <<files, buf, leads, inventory, provisioned, version, late, pulled>>

\* Mutant: a watcher that has not called ready() is not waited for.
AllReady_Any(f) == \E v \in DOMAIN f.watchers : f.watchers[v] = "ready"

AllReady(f) == \A v \in DOMAIN f.watchers : f.watchers[v] = "ready"

\* The main watcher finds every watcher ready: from here on the action is due.
SeesAllReady(w) ==
    /\ At(w, "wait") /\ Leads(w) /\ Finds(w) /\ AllReady(files[Mine(w)])
    /\ Stay(w, "begin")
    /\ version' = IF kind[w] = "upgrade"
                  THEN [version EXCEPT ![sat[w]] = "upgrading"] ELSE version
    /\ UNCHANGED <<files, buf, leads, inventory, provisioned, failures, late, pulled>>

\* _update_main_status() of wait(), of act(), and of __exit__ with an exception.
MainStatus == [begin |-> "acting", publish |-> "done", giveUp |-> "error", tell |-> "error"]
UpdateMain(w) ==
    /\ phase[w] \in DOMAIN MainStatus /\ buf[w] = NoFile /\ Finds(w)
    /\ Rewrite(w, [files[Mine(w)] EXCEPT !.status = MainStatus[phase[w]]])
    /\ UNCHANGED <<world, late>>

\* ready(), or the main watcher's wait() or act(), does not find the file.
MissesFile(w) ==
    /\ Misses(w)
    /\ \/ \E p \in {"setup", "begin", "publish", "giveUp"} : At(w, p)
       \/ At(w, "wait") /\ Leads(w)
    /\ Stay(w, "fnf")
    /\ UNCHANGED <<files, buf, leads, world, late, pulled>>

\* What each action does.
CheckOut == provisioned' = provisioned + 1 /\ inventory' = inventory \cup {provisioned + 1}
Upgrade(s) == CheckedOut(s) /\ version' = [version EXCEPT ![s] = "new"]
CheckIn(s) == inventory' = inventory \ {s}

ActionSucceeds(w) ==
    /\ At(w, "act")
    /\ \/ kind[w] = "checkout" /\ CheckOut /\ UNCHANGED version
       \/ kind[w] = "upgrade" /\ Upgrade(sat[w]) /\ UNCHANGED <<inventory, provisioned>>
       \/ kind[w] = "checkin" /\ CheckIn(sat[w]) /\ UNCHANGED <<provisioned, version>>
    /\ Stay(w, "publish")
    /\ UNCHANGED <<files, buf, leads, failures, late, pulled>>

\* The action raises: it may when the Satellite is gone, must for an upgrade.
ActionFails(w) ==
    /\ At(w, "act")
    /\ \/ kind[w] \in {"upgrade", "checkin"} /\ ~CheckedOut(sat[w]) /\ UNCHANGED failures
       \/ failures < MaxFailures /\ failures' = failures + 1
    /\ version' = IF kind[w] = "upgrade"
                  THEN [version EXCEPT ![sat[w]] = "broken"] ELSE version
    /\ Stay(w, "giveUp")
    /\ UNCHANGED <<files, buf, leads, inventory, provisioned, late, pulled>>

\* Mutant: released as soon as the action has begun.
IsReleased_Early(f) == f.status \in {"acting", "done"}

IsReleased(f) == f.status = "done"

\* Mutant: only the end of the action is waited for.
IsSentAway_Never(f) == FALSE

IsSentAway(f) == f.status = "error"

\* A watcher polls without the lock: released, sent away, without a file, or with
\* the file of another that has opened it and not yet written.
Poll(w) ==
    LET f == files[Mine(w)] IN
    /\ At(w, "wait") /\ ~Leads(w)
    /\ \/ f = NoFile /\ Stay(w, "fnf")
       \/ f # NoFile /\ IsSentAway(f) /\ Stay(w, "error")
       \/ f # NoFile /\ IsReleased(f) /\ Stay(w, "body")
       \/ (\E v \in Worker : Mine(v) = Mine(w) /\ buf[v] # NoFile) /\ Stay(w, "error")
    /\ UNCHANGED <<files, buf, leads, world, late, pulled>>

\* The inventory lists the hosts in the order of their checkout.
Oldest == CHOOSE s \in inventory : \A t \in inventory : s <= t

\* The body of each with statement ends. That of checkout takes the first host of
\* from_inventory(), that of upgrade is the test.
EndBody(w) ==
    /\ At(w, "body")
    /\ sat' = IF kind[w] # "checkout" THEN sat
              ELSE [sat EXCEPT ![w] = IF inventory = {} THEN NoSat ELSE Oldest]
    /\ Go(w, kind[w], "exit")
    /\ UNCHANGED <<files, buf, leads, left, world, late, pulled>>

-----------------------------------------------------------------------------
(* __exit__.                                                               *)

\* unregister(), with no exception, another one, or FileNotFoundError under way.
Unregister(w) ==
    LET f == files[Mine(w)] IN
    /\ \E p \in {"exit", "error", "fnf"} : At(w, p)
    /\ Finds(w) /\ w \in DOMAIN f.watchers
    /\ Rewrite(w, Without(f, w))
    /\ UNCHANGED <<world, late>>

\* It fails, which is only logged: w is no watcher of the file, or there is none.
CannotUnregister(w) ==
    LET f == files[Mine(w)] IN
    /\ Unlocked(Mine(w)) /\ (f # NoFile => w \notin DOMAIN f.watchers)
    /\ \/ At(w, "exit") /\ Stay(w, "leaving")
       \/ At(w, "error") /\ Stay(w, "report")
       \/ At(w, "fnf") /\ Out(w, FALSE)
    /\ UNCHANGED <<files, buf, leads, world, late, pulled>>

\* done(), or _update_status("error"): the status of one that is no watcher.
Report(w) ==
    /\ At(w, "leaving") \/ At(w, "report")
    /\ Finds(w) /\ Rewrite(w, files[Mine(w)])
    /\ UNCHANGED <<world, late>>

NobodyLeft(f) == DOMAIN f.watchers = {}

\* The main watcher waits for the others to leave, then goes to remove the file.
Drain(w) ==
    /\ At(w, "drain") /\ Finds(w) /\ NobodyLeft(files[Mine(w)])
    /\ Stay(w, "remove")
    /\ UNCHANGED <<files, buf, leads, world, late, pulled>>

\* The main watcher that fails removes the file when nobody is left in it, or tells
\* the others.
Check(w) ==
    /\ At(w, "check") /\ Finds(w)
    /\ Stay(w, IF NobodyLeft(files[Mine(w)]) THEN "discard" ELSE "tell")
    /\ UNCHANGED <<files, buf, leads, world, late, pulled>>

\* __exit__ does not find the file: FileNotFoundError, or the exception there was.
ExitMisses(w) ==
    /\ \E p \in {"leaving", "drain", "report", "check", "tell"} : At(w, p)
    /\ Misses(w) /\ Out(w, FALSE)
    /\ UNCHANGED <<files, buf, leads, world, late, pulled>>

\* History: others are registered in the file, or are about to be or to write it.
InUse(w) == \/ \E v \in DOMAIN files[Mine(w)].watchers : v # w
            \/ ~Unlocked(Mine(w))

\* unlink() takes no lock: in act(), in __exit__ with an exception and without one.
Unlink(w) ==
    LET f == files[Mine(w)] IN
    /\ \/ At(w, "unlink")  /\ Stay(w, IF f = NoFile THEN "fnf" ELSE "error")
       \/ At(w, "discard") /\ Out(w, FALSE)
       \/ At(w, "remove")  /\ Out(w, f # NoFile)
    /\ files' = [files EXCEPT ![Mine(w)] = NoFile]
    /\ pulled' = IF f # NoFile /\ InUse(w) THEN pulled \cup {Mine(w)} ELSE pulled
    /\ UNCHANGED <<buf, leads, world, late>>

-----------------------------------------------------------------------------
Step(w) ==
    \/ WriteBack(w) \/ Enter(w) \/ Register(w) \/ Ready(w) \/ SetupFails(w)
    \/ SeesAllReady(w) \/ UpdateMain(w) \/ MissesFile(w) \/ ActionSucceeds(w)
    \/ ActionFails(w) \/ Poll(w) \/ EndBody(w) \/ Unregister(w) \/ CannotUnregister(w)
    \/ Report(w) \/ Drain(w) \/ Check(w) \/ ExitMisses(w) \/ Unlink(w)

Finished == \A w \in Worker : phase[w] = "finished"

Next == \E w \in Worker : Step(w)

Spec == Init /\ [][Next]_vars
FairSpec == Spec /\ \A w \in Worker : WF_vars(Step(w))

-----------------------------------------------------------------------------
InSetup(w)  == kind[w] = "upgrade" /\ phase[w] = "setup"
Upgrades(w) == kind[w] = "upgrade" /\ phase[w] = "act"
InTest(w)   == kind[w] = "upgrade" /\ phase[w] = "body"

Phase == {"enter", "registering", "setup", "wait", "begin", "act", "publish", "giveUp",
          "unlink", "body", "exit", "leaving", "drain", "remove", "error", "fnf",
          "report", "check", "tell", "discard", "finished"}

TypeOK ==
    /\ files \in [Resource -> File \cup {NoFile}] /\ buf \in [Worker -> File \cup {NoFile}]
    /\ kind \in [Worker -> Kind] /\ phase \in [Worker -> Phase]
    /\ leads \in [Worker -> SUBSET Kind] /\ left \in [Worker -> 0..Tests]
    /\ sat \in [Worker -> Satellite \cup {NoSat}]
    /\ inventory \subseteq Satellite /\ provisioned \in {0} \cup Satellite
    /\ version \in [Satellite -> {"old", "upgrading", "new", "broken"}]
    /\ failures \in 0..MaxFailures /\ late \subseteq Resource /\ pulled \subseteq Resource

\* A test runs only on an upgraded Satellite, and nobody upgrades it again while the
\* test runs, however late the workers come and whatever fails; as long as the file of
\* its upgrade has not been unlinked under somebody. (A watcher that came after the
\* main watcher's check is then left without the file, and the next main watcher
\* upgrades the Satellite under its test.)
TestAfterUpgrade ==
    \A w \in Worker : InTest(w) /\ Mine(w) \notin pulled => version[sat[w]] = "new"

\* A Satellite is never upgraded by two workers at once, with the same exception.
OneUpgradeAtATime ==
    \A v, w \in Worker :
        Upgrades(v) /\ Upgrades(w) /\ sat[v] = sat[w] /\ Mine(v) \notin pulled => v = w

\* When everybody registers in time, and no file is unlinked under anybody: a test is
\* set up on the old version, also when it comes after other tests of the same worker
\* or after a main watcher that failed, and the Satellite is not given back under a
\* test: shared_checkin waits for the slowest.
Punctual ==
    \A w \in Worker :
        /\ InSetup(w) /\ Mine(w) \notin late \cup pulled => version[sat[w]] = "old"
        /\ InTest(w) /\ <<"tests", 0>> \notin late \cup pulled => CheckedOut(sat[w])

\* When nothing fails and nobody is late, all Satellites have been given back, and the
\* only files left for the next session to stumble over are those that a done() made
\* again which had read them before the main watcher's unlink().
NothingLeftBehind ==
    Finished /\ failures = 0 /\ late = {}
        => /\ inventory = {}
           /\ \A r \in Resource : files[r] # NoFile =>
                 r \in pulled /\ files[r].status = "done" /\ NobodyLeft(files[r])

\* w is in the with statement of r.
Within(w, r) ==
    /\ phase[w] # "finished"
    /\ Mine(w) = r \/ (r = <<"tests", 0>> /\ kind[w] \in {"upgrade", "checkin"})

\* Everybody waits in a file without a main watcher. register() has made it again that
\* had read it before the main watcher, whose setup has failed, unlinked it.
Orphaned(r) ==
    /\ r \in pulled /\ files[r] # NoFile /\ files[r].status = "waiting"
    /\ ~\E w \in Worker : Within(w, r) /\ r[1] \in leads[w]

\* Through four nested meetings, with late workers and failed setups, checkouts,
\* upgrades and checkins, every worker gets to the end of its tests, or else there is
\* an orphaned file.
EveryTestEnds == <>(Finished \/ \E r \in Resource : Orphaned(r))
=============================================================================
