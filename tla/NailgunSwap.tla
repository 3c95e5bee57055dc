----------------------------- MODULE NailgunSwap -----------------------------
(***************************************************************************)
(* robottelo/hosts.py: _swap_nailgun() and the api of a Satellite.  The    *)
(* tests of tests/new_upgrades use one version of nailgun before the       *)
(* upgrade and another one after it; the xdist workers share the           *)
(* site-packages in which it is installed, and each imports it when it     *)
(* first uses the api of its Satellite.                                    *)
(*                                                                         *)
(* The lock covers what pip does.  It does not cover the imports: they     *)
(* take whatever is installed, file by file.                               *)
(***************************************************************************)
EXTENDS Naturals

CONSTANTS
    Process,      \* the xdist workers: each has modules of its own in memory
    Version,      \* the versions of nailgun that are asked for
    Base,         \* the one that the suite's requirements install
    NoProcess, NoVersion,
    MaxSwaps,     \* bound: calls of _swap_nailgun()
    MaxPipFailures   \* bound: pip commands that fail

ASSUME SwapAssumption ==
    /\ NoProcess \notin Process
    /\ Base \notin Version /\ NoVersion \notin Version \cup {Base}
    /\ MaxSwaps \in Nat /\ MaxPipFailures \in Nat

\* The modules of nailgun that the api needs; there are more of them.
Module == {"entities", "config"}

VARIABLES
    installed,  \* in site-packages: a version, or NoVersion while pip replaces it
    lock,       \* who is inside of FileLock("/tmp/nailgun-install")
    pc,         \* where a worker is in _swap_nailgun() or in its import
    wanted,     \* new_version of its last call
    found,      \* is_installed of that call
    loaded,     \* nailgun in a worker's sys.modules: the version of each module
    api,        \* the versions its Satellite's api is made of; {} if not _configured
    sure,       \* history: the last swap succeeded, and nothing was uninstalled
                \* between then and the import
    swaps, pipFailures

swapVars == <<installed, lock, pc, wanted, found, loaded, api, sure, swaps, pipFailures>>

Nothing == [m \in Module |-> NoVersion]

SwapInit ==
    /\ installed = Base /\ lock = NoProcess
    /\ pc = [w \in Process |-> "idle"] /\ wanted = [w \in Process |-> NoVersion]
    /\ found = [w \in Process |-> FALSE]
    /\ loaded = [w \in Process |-> [m \in Module |-> Base]]
    /\ api = [w \in Process |-> {}] /\ sure = [w \in Process |-> FALSE]
    /\ swaps = 0 /\ pipFailures = 0

Goto(w, to) == pc' = [pc EXCEPT ![w] = to]

-----------------------------------------------------------------------------
(* _swap_nailgun(new_version).                                             *)

\* shared_checkout() asks for FROM_VERSION, on a Satellite of its own, before a test
\* gets its Satellite; tests ask for TO_VERSION after the upgrade.
Ask(w, v) ==
    /\ pc[w] \in {"idle", "failed"} /\ swaps < MaxSwaps
    /\ swaps' = swaps + 1
    /\ wanted' = [wanted EXCEPT ![w] = v]
    /\ sure' = [sure EXCEPT ![w] = FALSE]
    /\ Goto(w, "lock")
    /\ UNCHANGED <<installed, lock, found, loaded, api, pipFailures>>

Free == lock = NoProcess

Acquire(w) ==
    /\ pc[w] = "lock" /\ Free
    /\ lock' = w /\ Goto(w, "freeze")
    /\ UNCHANGED <<installed, wanted, found, loaded, api, sure, swaps, pipFailures>>

\* FileLock gives up after 120 seconds: the test fails.
LockTimesOut(w) ==
    /\ pc[w] = "lock" /\ ~Free
    /\ Goto(w, "failed")
    /\ UNCHANGED <<installed, lock, wanted, found, loaded, api, sure, swaps, pipFailures>>

\* Mutant: nailgun is installed again by everyone.
IsInstalled_Never(w) == FALSE

\* `pip freeze` names the archive of the version.
IsInstalled(w) == installed = wanted[w]

Freeze(w) ==
    /\ pc[w] = "freeze"
    /\ found' = [found EXCEPT ![w] = IsInstalled(w)]
    /\ Goto(w, IF IsInstalled(w) THEN "release" ELSE "uninstall")
    /\ UNCHANGED <<installed, lock, wanted, loaded, api, sure, swaps, pipFailures>>

\* Has everything it needs of nailgun in memory.
Imported(w) == pc[w] = "idle" /\ api[w] # {}

\* `pip uninstall -y nailgun`; without a nailgun it does nothing, and succeeds.
Uninstall(w) ==
    /\ pc[w] = "uninstall" /\ Goto(w, "install")
    /\ installed' = NoVersion
    /\ sure' = [v \in Process |-> sure[v] /\ Imported(v)]
    /\ UNCHANGED <<lock, wanted, found, loaded, api, swaps, pipFailures>>

Install(w) ==
    /\ pc[w] = "install" /\ Goto(w, "release")
    /\ installed' = wanted[w]
    /\ UNCHANGED <<lock, wanted, found, loaded, api, sure, swaps, pipFailures>>

\* check=True: the exception leaves the lock and the call, the module cache stays.
PipFails(w) ==
    /\ pc[w] \in {"freeze", "uninstall", "install"} /\ pipFailures < MaxPipFailures
    /\ pipFailures' = pipFailures + 1
    /\ lock' = NoProcess /\ Goto(w, "failed")
    /\ UNCHANGED <<installed, wanted, found, loaded, api, sure, swaps>>

Release(w) ==
    /\ pc[w] = "release" /\ lock' = NoProcess /\ Goto(w, "clear")
    /\ sure' = [sure EXCEPT ![w] = TRUE]
    /\ UNCHANGED <<installed, wanted, found, loaded, api, swaps, pipFailures>>

\* Mutant: only the worker that has installed something clears its cache.
Cleared_IfInstalled(w) == IF found[w] THEN loaded[w] ELSE Nothing

\* What is left of nailgun in sys.modules.
Cleared(w) == Nothing

\* After the lock is released.
Clear(w) ==
    /\ pc[w] = "clear" /\ Goto(w, "idle")
    /\ api' = [api EXCEPT ![w] = {}]
    /\ loaded' = [loaded EXCEPT ![w] = Cleared(w)]
    /\ found' = [found EXCEPT ![w] = FALSE]
    /\ UNCHANGED <<installed, lock, wanted, sure, swaps, pipFailures>>

-----------------------------------------------------------------------------
(* Satellite.api.                                                          *)

Use(w) ==
    /\ pc[w] = "idle" /\ api[w] = {}
    /\ Goto(w, "import")
    /\ UNCHANGED <<installed, lock, wanted, found, loaded, api, sure, swaps, pipFailures>>

\* A module that is not in sys.modules is read from site-packages.
Import(w, m) ==
    /\ pc[w] = "import" /\ loaded[w][m] = NoVersion
    /\ IF installed = NoVersion
       THEN Goto(w, "failed") /\ UNCHANGED loaded
       ELSE loaded' = [loaded EXCEPT ![w][m] = installed] /\ UNCHANGED pc
    /\ UNCHANGED <<installed, lock, wanted, found, api, sure, swaps, pipFailures>>

Configure(w) ==
    /\ pc[w] = "import" /\ \A m \in Module : loaded[w][m] # NoVersion
    /\ api' = [api EXCEPT ![w] = {loaded[w][m] : m \in Module}]
    /\ Goto(w, "idle")
    /\ UNCHANGED <<installed, lock, wanted, found, loaded, sure, swaps, pipFailures>>

-----------------------------------------------------------------------------
SwapStep(w) ==
    \/ \E v \in Version : Ask(w, v)
    \/ Acquire(w) \/ LockTimesOut(w) \/ Freeze(w) \/ Uninstall(w) \/ Install(w)
    \/ PipFails(w) \/ Release(w) \/ Clear(w)
    \/ Use(w) \/ (\E m \in Module : Import(w, m)) \/ Configure(w)

SwapNext == \E w \in Process : SwapStep(w)

SwapSpec == SwapInit /\ [][SwapNext]_swapVars

-----------------------------------------------------------------------------
PC == {"idle", "failed", "lock", "freeze", "uninstall", "install", "release", "clear", "import"}

SwapTypeOK ==
    /\ installed \in Version \cup {Base, NoVersion} /\ lock \in Process \cup {NoProcess}
    /\ pc \in [Process -> PC] /\ wanted \in [Process -> Version \cup {NoVersion}]
    /\ found \in [Process -> BOOLEAN]
    /\ loaded \in [Process -> [Module -> Version \cup {Base, NoVersion}]]
    /\ api \in [Process -> SUBSET (Version \cup {Base})]
    /\ sure \in [Process -> BOOLEAN]
    /\ \A w \in Process : lock = w <=> pc[w] \in {"freeze", "uninstall", "install", "release"}
    /\ swaps \in 0..MaxSwaps /\ pipFailures \in 0..MaxPipFailures

\* "to make sure it has the correct api": a worker whose swap has succeeded, with or
\* without an installation, gets an api of the version it asked for and of no other,
\* unless somebody uninstalls that version before it has been imported.
AskedIsGiven ==
    \A w \in Process : sure[w] =>
        /\ pc[w] # "failed"
        /\ pc[w] # "clear" /\ api[w] # {} => api[w] = {wanted[w]}

\* Workers that want the same version do not get in each other's way, whatever pip
\* commands fail: only one that wants another version spoils a swap that succeeded.
SameVersionIsShared ==
    [][\A w \in Process : sure[w] /\ ~sure'[w] /\ swaps' = swaps
            => \E v \in Process : Uninstall(v) /\ wanted[v] # wanted[w]]_swapVars
=============================================================================
