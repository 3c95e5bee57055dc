----------------------------- MODULE FixtureSteps -----------------------------
(***************************************************************************)
(* How the rows of the tables of fixtures are written: a fixture of        *)
(* pytest_fixtures/ is a scope, the fixtures it asks for, and, when it has *)
(* code after its yield (or ought to), the steps before and after it.      *)
(* What the steps do is in Fixtures.                                       *)
(***************************************************************************)
EXTENDS Naturals, Sequences, TLC

\* How the tests are run: as usual (on the Satellite the worker is aligned to); a module with
\* the marker "destructive"; pytest -m build_sanity; --n-minus; xdist_behavior "on-demand",
\* with server.auto_checkin, or without ("kept": the default).
AllModes == {"usual", "destructive", "sanity", "nminus", "ondemand", "kept"}

-----------------------------------------------------------------------------
(***************************************************************************)
(* Steps.  The place "at" of a setting is a fixture that is a Satellite    *)
(* (or "config", the settings of the suite itself).                        *)
(***************************************************************************)
Step(do, what, at) == [do |-> do, what |-> what, at |-> at, modes |-> AllModes]
In(modes, step) == [step EXCEPT !.modes = modes]

Take(host) == Step("take", host, "")      \* a checkout, without "with"
Clean(host) == Step("clean", host, "")    \* teardown(): unregister, remove
Give(host) == Step("give", host, "")      \* the checkin
Hold(thing) == Step("hold", thing, "")    \* "with" it, to the end of the fixture
Make(thing) == Step("make", thing, "")
Drop(thing) == Step("drop", thing, "")
Set(at, s) == Step("set", s, at)          \* a new value
Change(at, s) == Step("change", s, at)    \* a new value; the old one is kept
Back(at, s) == Step("back", s, at)        \* the value that was kept
Reset(at, s) == Step("reset", s, at)      \* what it is on a new Satellite
Backup(at, s) == Step("backup", s, at)    \* cp file file.backup
Recover(at, s) == Step("recover", s, at)  \* mv -f file.backup file
Run(what) == Step("run", what, "")        \* changes none of these, and may fail

-----------------------------------------------------------------------------
(***************************************************************************)
(* Rows.  A fixture whose behaviour depends on a parameter of the test has *)
(* several ways, of which the last ones may ask for more fixtures          *)
(* (request.getfixturevalue()).                                            *)
(***************************************************************************)
Way(asks, setup, undo) == [asks |-> asks, setup |-> setup, undo |-> undo]
Row(scope, needs) ==
    [scope |-> scope, auto |-> FALSE, needs |-> needs, ways |-> <<Way({}, <<>>, <<>>)>>]

PerTest(needs) == Row("test", needs)
PerClass(needs) == Row("class", needs)
PerModule(needs) == Row("module", needs)
PerSession(needs) == Row("session", needs)

Automatic(row) == [row EXCEPT !.auto = TRUE]
Either(row, ways) == [row EXCEPT !.ways = ways]
Does(row, setup, undo) == Either(row, <<Way({}, setup, undo)>>)

-----------------------------------------------------------------------------
(***************************************************************************)
(* Rows of one form.                                                       *)
(***************************************************************************)
\* Mutant: nothing is deleted after the yield.
NeverDeleting(row, thing) == Does(row, <<Make(thing)>>, << >>)
Making(row, thing) == Does(row, <<Make(thing)>>, <<Drop(thing)>>)
Within(row, thing) == Does(row, <<Hold(thing)>>, <<>>)
\* Mutants: the setting is not restored, or set to what it is on a new Satellite.
NeverRestoring(row, at, s) == Does(row, <<Set(at, s)>>, << >>)
Resetting(row, at, s) == Does(row, <<Set(at, s)>>, <<Reset(at, s)>>)
Changing(row, at, s) == Does(row, <<Change(at, s)>>, <<Back(at, s)>>)

\* A Satellite that is registered to the CDN and unregistered.
Subscribing(row, at) == Does(row, <<Set(at, "cdn")>>, <<Reset(at, "cdn")>>)

\* _target_sat_imp(): a Satellite of its own for a destructive module, the one that
\* build_sanity installs, or the Satellite of the worker.
ATarget(row) ==
    Does(row,
        <<In({"destructive"}, Take("satellite")),
          In({"sanity"}, Set("config", "server.hostname"))>>,
        <<In({"destructive"}, Clean("satellite")), In({"destructive"}, Give("satellite"))>>)

\* Mutant: the host is given back before it is torn down.
GivenBackFirst(row, host, modes) ==
    Does(row, <<In(modes, Take(host))>>, <<In(modes, Give(host)), In(modes, Clean(host))>>)

\* A host that is deployed in some modes, torn down and given back.
ADeployed(row, host, modes) ==
    Does(row, <<In(modes, Take(host))>>, <<In(modes, Clean(host)), In(modes, Give(host))>>)

\* _target_satellite_host(): there is none for build_sanity.
ASatellite(row) == ADeployed(row, "satellite", AllModes \ {"sanity"})

\* _target_capsule_host(): nor for build_sanity; the one of the inventory for --n-minus.
ACapsule(row) ==
    LET deployed == AllModes \ {"sanity", "nminus"}
    IN Does(row,
           <<In(deployed, Take("capsule")), In({"nminus"}, Set("config", "capsule.hostname"))>>,
           <<In(deployed, Clean("capsule")), In(deployed, Give("capsule"))>>)

\* installer_satellite(): the host of build_sanity is not given back here.
InstalledSatellite(row) ==
    LET deployed == AllModes \ {"sanity"}
    IN Does(row,
           <<In(deployed, Take("satellite")), Set("installer_satellite", "cdn"), Run("install")>>,
           <<In(deployed, Clean("satellite")), In(deployed, Give("satellite"))>>)

\* configure_hammer_*(): a copy of the configuration of hammer, always to the same file.
EditingHammerConfig(row) ==
    LET at == "parametrized_enrolled_sat"
    IN Does(row, <<Backup(at, "hammer.yml"), Set(at, "hammer.yml")>>, <<Recover(at, "hammer.yml")>>)

=============================================================================
