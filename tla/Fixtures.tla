------------------------------- MODULE Fixtures -------------------------------
(***************************************************************************)
(* A session of pytest over the fixtures of the component tests: what the  *)
(* fixtures of pytest_fixtures/ take, make and change, and whether it is   *)
(* given back, deleted and restored when tests, classes, modules and the   *)
(* session end, in whatever order tests come and whichever fixture fails.  *)
(*                                                                         *)
(* The tables of fixtures are in CoreFixtures, ContentFixtures,            *)
(* ProvisioningFixtures and ServiceFixtures.  What pytest does with them   *)
(* is external: it sets up what a test asks for, the fixtures with the     *)
(* widest scope first and each after the ones it needs, on one stack for   *)
(* each scope; it keeps the failure of a fixture for the others that need  *)
(* it; and it takes the stacks down, the narrowest first, as their scopes  *)
(* end.  One process, one worker of xdist.                                 *)
(***************************************************************************)
EXTENDS CoreFixtures, ContentFixtures, ProvisioningFixtures, ServiceFixtures

CONSTANTS
    Suites,         \* what a session may be run over: a mode, a parameter, the tests
    MaxTests,       \* bound: the tests of a session
    MaxFailures     \* bound: the exceptions that fixtures raise in a session

Table == CoreFixturesRows @@ ContentFixturesRows @@ ProvisioningFixturesRows
            @@ ServiceFixturesRows
Names == DOMAIN Table

Scopes == {"test", "class", "module", "session"}
Width == [test |-> 1, class |-> 2, module |-> 3, session |-> 4]

NoFixture == "none"
Found == "found"
Steps == [do : {"take", "clean", "give", "hold", "make", "drop", "set", "change", "back",
                "reset", "backup", "recover", "run"},
          what : STRING, at : STRING, modes : SUBSET AllModes]
Ways == [asks : SUBSET Names, setup : Seq(Steps), undo : Seq(Steps)]
Rows == [scope : Scopes, auto : BOOLEAN, needs : SUBSET Names, ways : Seq(Ways)]

\* The value of a setting that no fixture has changed is not the name of one.  Every row is of
\* that form, with a way for the tests without a parameter.
ASSUME TableAssumption ==
    /\ NoFixture \notin Names /\ Found \notin Names
    /\ DOMAIN DestructiveRows \subseteq Names
    /\ \A f \in Names : Table[f] \in Rows /\ Table[f].ways # << >>
    /\ \A f \in DOMAIN DestructiveRows : DestructiveRows[f] \in Rows /\ DestructiveRows[f].ways # << >>

ASSUME BoundsAssumption ==
    /\ Suites \subseteq [mode : AllModes, param : Nat \ {0}, tests : SUBSET (SUBSET Names)]
    /\ MaxTests \in Nat
    /\ MaxFailures \in Nat

VARIABLES
    suite,      \* what this session is run over
    rows,       \* the fixtures that its tests may need, as they are for its parameter
    phase,      \* "idle", "setup" of a test, "ran", "teardown", and "over"
    wanted,     \* the fixtures of the test
    up,         \* for each scope, the fixtures that are set up, in that order
    broken,     \* those whose failure is kept until their scope ends
    doing,      \* the one whose code is running
    step,       \* and the step it is at
    due,        \* the scopes that end with the test
    failed,     \* the fixtures that have ever raised
    has,        \* what fixtures have taken or made: pairs <<fixture, thing>>
    held,       \* what they hold in a "with"
    clean,      \* the hosts that were torn down
    rough,      \* the hosts that were given back without
    value,      \* the settings that were changed, and by which fixture
    saved,      \* what fixtures have kept to restore
    copy,       \* the backup files
    lost,       \* history: the settings whose backup was backed up over
    tests,      \* the number of tests
    failures    \* and of exceptions

pytestVars == <<suite, rows, phase, wanted, up, broken, doing, step, due, failed, tests, failures>>
thingVars == <<has, held, clean, rough>>
settingVars == <<value, saved, copy, lost>>
vars == <<pytestVars, thingVars, settingVars>>

-----------------------------------------------------------------------------
(***************************************************************************)
(* The rows in this session.                                               *)
(***************************************************************************)
WayOf(row, param) == row.ways[IF param \in DOMAIN row.ways THEN param ELSE 1]

\* All that is needed for what is asked, where needs is what each fixture needs.  No chain of
\* fixtures is longer than Depth.
Depth == 12
Closure(asked, needs) ==
    LET reach[n \in 0..Depth] ==
            IF n = 0 THEN asked
            ELSE LET found == reach[n - 1] IN found \cup UNION {needs[f] : f \in found}
    IN reach[Depth] \cap DOMAIN needs
RowsFor(s) ==
    LET table == [f \in Names |->
            IF s.mode = "destructive" /\ f \in DOMAIN DestructiveRows THEN DestructiveRows[f]
            ELSE Table[f]]
        needs == [f \in Names |-> table[f].needs \cup WayOf(table[f], s.param).asks]
        autouse == {f \in Names : table[f].auto}
    IN [f \in Closure(autouse \cup UNION s.tests, needs) |->
           [scope |-> table[f].scope, auto |-> table[f].auto, needs |-> needs[f],
            setup |-> WayOf(table[f], s.param).setup, undo |-> WayOf(table[f], s.param).undo]]

Scope(f) == rows[f].scope
Needs(f) == rows[f].needs
Setup(f) == rows[f].setup
Undo(f) == rows[f].undo

Autouse == {f \in DOMAIN rows : rows[f].auto}

InStack(s) == {up[s][i] : i \in DOMAIN up[s]}
Up == UNION {InStack(s) : s \in Scopes}

\* pytest raises ScopeMismatch for a fixture that asks for one of a narrower scope.
Mismatch(f) == \E g \in Needs(f) : Width[Scope(g)] < Width[Scope(f)]

\* The next to set up: of those that only need fixtures that are up, one of the widest scope.
Candidates == {f \in wanted \ Up : Needs(f) \subseteq Up}
Coming == CHOOSE f \in Candidates : \A g \in Candidates : Width[Scope(g)] <= Width[Scope(f)]

\* The next to tear down: the last on the narrowest stack.
DueStacks == {s \in due : up[s] # << >>}
Leaving ==
    LET s == CHOOSE s \in DueStacks : \A t \in DueStacks : Width[s] <= Width[t]
    IN up[s][Len(up[s])]

-----------------------------------------------------------------------------
(***************************************************************************)
(* What a step does.                                                       *)
(***************************************************************************)
\* Where a setting is: target_sat and its kin are the Satellite of the worker, except that
\* those of a destructive module are Satellites of their own.
Targets == {"target_sat", "class_target_sat", "module_target_sat", "session_target_sat"}
OwnTargets == Targets \ {"session_target_sat"}
Place(at) ==
    IF at \notin Targets \/ (suite.mode = "destructive" /\ at \in OwnTargets) THEN at
    ELSE "default"
Key(s) == <<Place(s.at), s.what>>
Value(k) == IF k \in DOMAIN value THEN value[k] ELSE Found

\* Function f with v at x, and without the values at xs.
With(f, x, v) == [y \in DOMAIN f \cup {x} |-> IF y = x THEN v ELSE f[y]]
Without(f, xs) == [y \in DOMAIN f \ xs |-> f[y]]
Assign(k, v) == IF v = Found THEN Without(value, {k}) ELSE With(value, k, v)

Acquire(f, s) ==
    /\ s.do \in {"take", "make"}
    /\ has' = has \cup {<<f, s.what>>}
    /\ UNCHANGED <<held, clean, rough, settingVars>>

Enter(f, s) ==
    /\ s.do = "hold"
    /\ held' = held \cup {<<f, s.what>>}
    /\ UNCHANGED <<has, clean, rough, settingVars>>

TearHostDown(f, s) ==
    /\ s.do = "clean"
    /\ clean' = clean \cup {<<f, s.what>>}
    /\ UNCHANGED <<has, held, rough, settingVars>>

Delete(f, s) ==
    /\ s.do = "drop"
    /\ has' = has \ {<<f, s.what>>}
    /\ UNCHANGED <<held, clean, rough, settingVars>>

\* With a Satellite its settings and files are gone.
GiveBack(f, s) ==
    /\ s.do = "give"
    /\ has' = has \ {<<f, s.what>>}
    /\ clean' = clean \ {<<f, s.what>>}
    /\ rough' = IF <<f, s.what>> \in clean THEN rough ELSE rough \cup {<<f, s.what>>}
    /\ value' = Without(value, {k \in DOMAIN value : k[1] = f})
    /\ copy' = Without(copy, {k \in DOMAIN copy : k[1] = f})
    /\ lost' = {k \in lost : k[1] # f}
    /\ UNCHANGED <<held, saved>>

Write(f, s) ==
    /\ s.do \in {"set", "change"}
    /\ value' = Assign(Key(s), f)
    /\ saved' = IF s.do = "change" THEN With(saved, <<f, Key(s)>>, Value(Key(s))) ELSE saved
    /\ UNCHANGED <<thingVars, copy, lost>>

Restore(f, s) ==
    /\ s.do \in {"back", "reset"}
    /\ value' = Assign(Key(s),
                       IF s.do = "back" /\ <<f, Key(s)>> \in DOMAIN saved
                       THEN saved[<<f, Key(s)>>] ELSE Found)
    /\ UNCHANGED <<thingVars, saved, copy, lost>>

BackUp(f, s) ==
    /\ s.do = "backup"
    /\ copy' = With(copy, Key(s), Value(Key(s)))
    /\ lost' = lost \cup ({Key(s)} \cap DOMAIN copy)
    /\ UNCHANGED <<thingVars, value, saved>>

\* Nothing happens, and nobody notices, when there is no backup to move.
RecoverBackUp(f, s) ==
    /\ s.do = "recover"
    /\ value' = IF Key(s) \in DOMAIN copy THEN Assign(Key(s), copy[Key(s)]) ELSE value
    /\ copy' = Without(copy, {Key(s)})
    /\ UNCHANGED <<thingVars, saved, lost>>

Perform(f, s) ==
    IF suite.mode \notin s.modes \/ s.do = "run" THEN UNCHANGED <<thingVars, settingVars>>
    ELSE \/ Acquire(f, s) \/ Enter(f, s) \/ TearHostDown(f, s) \/ Delete(f, s) \/ GiveBack(f, s)
         \/ Write(f, s) \/ Restore(f, s) \/ BackUp(f, s) \/ RecoverBackUp(f, s)

\* The code of the fixture is left, by whichever way: every "with" of it ends.
Leave(f) ==
    /\ held' = {x \in held : x[1] # f}
    /\ saved' = Without(saved, {x \in DOMAIN saved : x[1] = f})
    /\ UNCHANGED <<has, clean, rough, value, copy, lost>>

-----------------------------------------------------------------------------
(***************************************************************************)
(* What pytest does.                                                       *)
(***************************************************************************)
Init ==
    /\ suite \in Suites
    /\ rows = RowsFor(suite)
    /\ phase = "idle"
    /\ wanted = {}
    /\ up = [s \in Scopes |-> << >>]
    /\ broken = {} /\ failed = {}
    /\ doing = NoFixture /\ step = 1
    /\ due = {}
    /\ has = {} /\ held = {} /\ clean = {} /\ rough = {}
    /\ value = << >> /\ saved = << >> /\ copy = << >> /\ lost = {}
    /\ tests = 0 /\ failures = 0

StartTest(test) ==
    /\ phase = "idle" /\ tests < MaxTests
    /\ phase' = "setup"
    /\ wanted' = Closure(test \cup Autouse, [f \in DOMAIN rows |-> Needs(f)])
    /\ tests' = tests + 1
    /\ UNCHANGED <<suite, rows, up, broken, doing, step, due, failed, failures, thingVars, settingVars>>

BeginSetUp ==
    /\ phase = "setup" /\ doing = NoFixture
    /\ Candidates # {}
    /\ Coming \notin broken /\ ~Mismatch(Coming)
    /\ doing' = Coming
    /\ step' = 1
    /\ UNCHANGED <<suite, rows, phase, wanted, up, broken, due, failed, tests, failures, thingVars,
                   settingVars>>

\* The failure that was kept, or a ScopeMismatch: the test is an error.
Refuse ==
    /\ phase = "setup" /\ doing = NoFixture
    /\ Candidates # {}
    /\ Coming \in broken \/ Mismatch(Coming)
    /\ broken' = broken \cup {Coming}
    /\ phase' = "ran"
    /\ UNCHANGED <<suite, rows, wanted, up, doing, step, due, failed, tests, failures, thingVars,
                   settingVars>>

SetUpStep ==
    /\ phase = "setup" /\ doing # NoFixture
    /\ step <= Len(Setup(doing))
    /\ Perform(doing, Setup(doing)[step])
    /\ step' = step + 1
    /\ UNCHANGED <<suite, rows, phase, wanted, up, broken, doing, due, failed, tests, failures>>

SetUpDone ==
    /\ phase = "setup" /\ doing # NoFixture
    /\ step > Len(Setup(doing))
    /\ up' = [up EXCEPT ![Scope(doing)] = Append(@, doing)]
    /\ doing' = NoFixture
    /\ UNCHANGED <<suite, rows, phase, wanted, broken, step, due, failed, tests, failures, thingVars,
                   settingVars>>

\* An exception before the next step, or after the last one: what is after the yield will
\* never be run.
SetUpFails ==
    /\ phase = "setup" /\ doing # NoFixture
    /\ failures < MaxFailures
    /\ broken' = broken \cup {doing}
    /\ failed' = failed \cup {doing}
    /\ failures' = failures + 1
    /\ Leave(doing)
    /\ doing' = NoFixture
    /\ phase' = "ran"
    /\ UNCHANGED <<suite, rows, wanted, up, step, due, tests>>

Run1 ==
    /\ phase = "setup" /\ doing = NoFixture
    /\ wanted \subseteq Up
    /\ phase' = "ran"
    /\ UNCHANGED <<suite, rows, wanted, up, broken, doing, step, due, failed, tests, failures,
                   thingVars, settingVars>>

\* The next test is in the same class, module or session, or there is none.
EndTest(scopes) ==
    /\ phase = "ran"
    /\ "session" \in scopes \/ tests < MaxTests
    /\ phase' = "teardown"
    /\ due' = scopes
    /\ wanted' = {}
    /\ UNCHANGED <<suite, rows, up, broken, doing, step, failed, tests, failures, thingVars,
                   settingVars>>

BeginTearDown ==
    /\ phase = "teardown" /\ doing = NoFixture
    /\ DueStacks # {}
    /\ doing' = Leaving
    /\ step' = 1
    /\ UNCHANGED <<suite, rows, phase, wanted, up, broken, due, failed, tests, failures, thingVars,
                   settingVars>>

TearDownStep ==
    /\ phase = "teardown" /\ doing # NoFixture
    /\ step <= Len(Undo(doing))
    /\ Perform(doing, Undo(doing)[step])
    /\ step' = step + 1
    /\ UNCHANGED <<suite, rows, phase, wanted, up, broken, doing, due, failed, tests, failures>>

Pop(f) == up' = [up EXCEPT ![Scope(f)] = SubSeq(@, 1, Len(@) - 1)]

TearDownDone ==
    /\ phase = "teardown" /\ doing # NoFixture
    /\ step > Len(Undo(doing))
    /\ Pop(doing)
    /\ Leave(doing)
    /\ doing' = NoFixture
    /\ UNCHANGED <<suite, rows, phase, wanted, broken, step, due, failed, tests, failures>>

\* The rest of its code is not run; pytest goes on with the other fixtures.
TearDownFails ==
    /\ phase = "teardown" /\ doing # NoFixture
    /\ step <= Len(Undo(doing))
    /\ failures < MaxFailures
    /\ failed' = failed \cup {doing}
    /\ failures' = failures + 1
    /\ Pop(doing)
    /\ Leave(doing)
    /\ doing' = NoFixture
    /\ UNCHANGED <<suite, rows, phase, wanted, broken, step, due, tests>>

AllDown ==
    /\ phase = "teardown" /\ doing = NoFixture
    /\ DueStacks = {}
    /\ phase' = IF "session" \in due THEN "over" ELSE "idle"
    /\ broken' = {f \in broken : Scope(f) \notin due}
    /\ UNCHANGED <<suite, rows, wanted, up, doing, step, due, failed, tests, failures, thingVars,
                   settingVars>>

Over == phase = "over" /\ UNCHANGED vars

Endings == {{"test"}, {"test", "class"}, {"test", "class", "module"}, Scopes}

Next ==
    \/ \E test \in suite.tests : StartTest(test)
    \/ BeginSetUp \/ Refuse \/ SetUpStep \/ SetUpDone \/ SetUpFails \/ Run1
    \/ \E scopes \in Endings : EndTest(scopes)
    \/ BeginTearDown \/ TearDownStep \/ TearDownDone \/ TearDownFails \/ AllDown
    \/ Over

Spec == Init /\ [][Next]_vars

-----------------------------------------------------------------------------
(***************************************************************************)
(* Correctness.                                                            *)
(***************************************************************************)
\* The types of the variables.
TypeOK ==
    /\ suite \in Suites
    /\ phase \in {"idle", "setup", "ran", "teardown", "over"}
    /\ wanted \subseteq DOMAIN rows
    /\ up \in [Scopes -> Seq(DOMAIN rows)]
    /\ broken \subseteq DOMAIN rows /\ failed \subseteq DOMAIN rows
    /\ doing \in DOMAIN rows \cup {NoFixture} /\ step \in Nat \ {0}
    /\ due \in Endings \cup {{}}
    /\ has \cup held \cup clean \cup rough \subseteq (DOMAIN rows) \X STRING
    /\ \A k \in DOMAIN value : value[k] \in DOMAIN rows
    /\ tests \in 0..MaxTests /\ failures \in 0..MaxFailures

\* The Satellite that a worker is given on demand stays, unless server.auto_checkin is set.
KeptHosts == IF suite.mode = "kept" THEN {<<"align_to_satellite", "satellite">>} ELSE {}

\* Any other host that was checked out, and an object that was made to be deleted, belongs to a
\* fixture that will give it back, unless the fixture has raised; one that is held in a "with"
\* does even then.
ThingsGoBack ==
    /\ \A x \in has \ KeptHosts : x[1] \in Up \cup {doing} \cup failed
    /\ \A x \in held : x[1] \in Up \cup {doing}

\* A host is torn down (it unregisters, or removes what it has put into the Satellite) before
\* it is given back.
TornDownFirst == rough = {}

\* The fixtures that never restore what they change: ports, the capsule of the Satellite, its
\* place at the CDN, the settings of discovery, and those of the suite itself.
Keepers ==
    {"align_to_satellite", "relax_bfa", "proxy_port_range", "puppet_proxy_port_range", "git_port",
     "module_fake_proxy", "enable_capsule_for_registration", "module_satellite_mqtt",
     "smart_proxy_location", "sat_maintain", "module_capsule_maintain", "module_discovery_sat",
     "pxeless_static_discovery_host", "parametrized_enrolled_sat", "installer_satellite"}
        \cup Targets \cup {"capsule_host", "module_capsule_host", "session_capsule_host"}

\* Against its docstring, rhsso_setting_setup puts one of its seven settings back.
Forgetting(k) ==
    IF k[2] = "authorize_login_delegation" THEN {} ELSE {"rhsso_setting_setup"}

\* A setting with another value than the session has found was given it by a fixture that is
\* up, or has raised, or keeps it; but for hammer.yml once a fixture has backed it up over the
\* backup of another one, which then recovers nothing (configure_hammer_negotiate, and
\* configure_hammer_no_negotiate with configure_hammer_no_creds).
NothingLeftBehind ==
    \A k \in DOMAIN value \ lost :
        value[k] \in Keepers \cup Up \cup {doing} \cup failed \cup Forgetting(k)

\* What a fixture has changed for its tests is not restored by another one that was set up
\* later, or is no longer there, as long as it is up itself.
Changes(f) ==
    LET steps(kinds) == {i \in DOMAIN Setup(f) : Setup(f)[i].do \in kinds
                                                  /\ suite.mode \in Setup(f)[i].modes}
        keys(kinds) == {Key(Setup(f)[i]) : i \in steps(kinds)}
    IN keys({"set", "change"}) \ keys({"reset"})
SettingsStand ==
    \A f \in Up \ {doing} : \A k \in Changes(f) :
        k \in DOMAIN value /\ value[k] \in Keepers \cup Up \cup {doing} \cup failed
=============================================================================
