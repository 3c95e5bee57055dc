# A verification of robottelo's own behaviour

Robottelo is the pytest suite of Red Hat Satellite. Most of it is test cases and wrappers around API and
command-line calls, whose effect is on the system under test. What is hard to get right in the suite itself is what
several pytest-xdist workers, and several runs of pytest, do together (they share files, locks, cached results
and Satellites, they are killed and restarted, and they fail at any point), and what steps of one worker
leave behind for later ones: class attributes, settings, hosts, a collection of tests. These modules
specify that part in TLA+; TLC checks it on small instances, and TLAPS proves the main invariants for all.

Paths are relative to the root of the repository. Run a check with `tlc -config <cfg> <module>`, a proof with
`tlapm <module>.tla`. `PROJECT.json` lists components, runs, mutants, the lines each definition translates,
findings, hazards and theorems.

## The system's parts

| Part | State | Operations | Modules |
|---|---|---|---|
| `robottelo/utils/shared_resource.py`: a barrier of workers | a JSON file in /tmp, a lock file; `is_main`, `is_recovering` of each instance | `register`, `ready`, `wait`, `_try_take_over`, `unregister`, `done`, `__enter__`, `__exit__` | SharedResource, Rendezvous |
| `robottelo/utils/decorators/func_shared`: results shared by workers | one value per function in a file or in redis, its lock | `SharedFunction.__call__`, `FileStorageHandler`, `RedisStorageHandler` | SharedFunction |
| `tests/new_upgrades/conftest.py`: an upgrade in one run | four SharedResources per group and Satellite, Broker's inventory | `shared_checkout`, `shared_checkin`, the `*_upgrade_shared_satellite` fixtures | UpgradeFlow |
| `robottelo/utils/decorators/func_locker.py`: functions run by one worker at a time | a lock file per scope and function, with a process id in it | `lock_function`, `locking_function`, `_check_deadlock` | FunctionLocker |
| `tests/upgrades/conftest.py`: an upgrade between two runs | three files between the runs | `save_test_data`, `pre_upgrade_data`, `save_worker_hostname`, the collection and summary hooks | UpgradeStages |
| `robottelo/hosts.py`: the version of nailgun | site-packages, a lock file; the modules and the api of each worker | `_swap_nailgun`, `api` | NailgunSwap |
| `robottelo/cli/`, and what `robottelo/hosts.py` does with it: commands of hammer | class attributes of 96 classes, of their copies and subclasses; `settings.server.hostname`, flags of a Satellite | every class method, `Satellite.cli`, `with_user`, `omit_credentials`, a Satellite as a context manager | CliClasses, HammerCommands |
| `pytest_fixtures/`: what fixtures take, change and give back | hosts, objects, settings, files; pytest's stacks of fixtures | the set-up and the teardown of every fixture; `teardown`, `update_setting` | FixtureSteps, CoreFixtures, ContentFixtures, ProvisioningFixtures, ServiceFixtures, Fixtures |
| `pytest_plugins/`, `tests/foreman/conftest.py`: the selection of tests | pytest's list of tests | nine `pytest_collection_modifyitems`, and pytest's `-m` | TestSelection |
| `robottelo/utils/issue_handlers/jira.py`, `pytest_plugins/jira_comments.py`, `issue_handlers.py` | a cache file, the memory of each worker, labels and comments of issues | `JiraStatusCache`, `get_single_jira`, `get_data_jira`, `add_comment_on_jira`, `pytest_sessionfinish` | Collection |
| everything else (factories of API and CLI entities, constants, data, clients of services, scripts, the tests) | none that steps share | | not modelled |

How they interact: Collection runs the hooks of TestSelection in each worker, with what that worker knows of Jira. HammerCommands
works on the table of CliClasses, Fixtures on the four tables of fixtures. UpgradeFlow nests four SharedResources per test, and `shared_checkin` is itself the action of one
of them; `shared_checkout` begins with a swap of nailgun. UpgradeStages calls the function that FunctionLocker guards (`_save_test_data`). All depend on the
`FileLock` of Broker, which is outside of the repository and taken for a mutex.

### What is hard in each, and what makes it right

* **SharedResource.** The methods take a lock, but three things ignore it: the poll of a waiting watcher, `exists()`
  of the take-over, and `unlink()`. Files come and go, so workers can meet at different files of one name. The action
  or a body can raise. It is right if one worker at a time acts, nobody is released before the action of its own file
  has succeeded, nobody is sent on by a failure, no registration is wiped out, and everybody gets out.
* **SharedFunction.** Workers are killed while they hold the lock or write the value; the two storages differ in both.
  It is right if the function runs once in each period of validity and everyone gets that result.
* **UpgradeFlow.** A test is right if it is set up before the upgrade, runs after it, and keeps its Satellite until it
  ends; and if nothing is left checked out. Its four files are unlinked without the lock, after a check under it.
* **FunctionLocker.** Locked functions call each other or themselves; the check for recursion reads a file without a
  lock, and the files outlive the workers whose process ids are in them. It is right if workers take turns, only real recursion is refused, and nobody waits for itself.
* **UpgradeStages.** The runs share only files. It is right if what a passing test saved reaches its post_upgrade
  test, nothing of an earlier pair of runs is taken for it, and tests run only if what they depend on has run.
* **NailgunSwap.** One site-packages for all workers, in which pip replaces a library that each worker imports later,
  file by file and without the lock. It is right if a worker gets the version it asked for, whole, and workers
  that agree on a version never disturb each other, even if pip fails.

* **HammerCommands.** Class methods leave parts of a command line in class attributes, and Python's inheritance decides what the next
  call reads: from the class, from the copy a Satellite made of it, from a class nested in it (which is not copied), or from a
  subclass with another user. It is right if a
  command line is what its method wrote down, and goes to the host and under the name that the test asked for, whatever was
  called, entered or raised before.
* **Fixtures.** Scopes nest, fixtures change the same settings, and any of them can raise before or after its yield. It is right if
  hosts are torn down before they are given back, when its scope ends nothing it took or changed is left, unless it raised
  itself, and what it changed stands for as long as it is up.
* **TestSelection and Collection.** A dozen hooks replace the list of tests one after another, and some ask Jira through a cache file that
  all workers rewrite without a lock. xdist runs nothing unless all workers collect the same. It is right if they do,
  if what they collect is what the options ask for, and if Jira learns what the tests found.

## The modules

**SharedResource** models one instance per worker. `pc` names the call a worker is in. A locked method is two or three
steps: it takes the lock and reads (`Register`, `SetReady`, `Unregister`, ...: they fill `buf`), opens the file for writing,
which truncates it (`OpenForWrite`), and writes (`WriteBack`), after which the call returns to where the code does
(`AfterWrite`). `disk` is the file. The unlocked steps (`Poll`, `Remove...`) are actions of their own. `depth` counts the
`wait()` calls that `_try_take_over()` nests. `round`, `joined` and `performed` are history. **Rendezvous** is
the abstract specification: workers join rounds, prepare, wait; one of them performs the action alone; nobody is
released before that. **MCSharedResource** adds symmetry.

**SharedFunction** models one key. `storage` and `inject` are chosen in the initial state. `store` is the value or `Torn`,
`holder` has the lock, and is `Orphan` when a redis client died in it. `log` is the history of everything stored.

**UpgradeFlow** follows the protocol of SharedResource step for step at four resources per test, named for the group or for the
hostname of a Satellite. A method that rewrites the file is two steps: it takes the lock and reads (`Register`, `Ready`, `Unregister`,
`Report`, ...: they fill `buf`), and writes (`WriteBack`). `exists()` (`Enter`), each check under the lock (`SeesAllReady`,
`Drain`, `Check`), each poll and the `Unlink`, which takes no lock, are steps of their own, so that others register, poll
and write between a check and the unlink. `kind` is the with statement a worker is in, from the outermost (`checkout`) to the innermost (`upgrade`),
`phase` the place in it, `leads` where its `is_main` is true, `inventory` the set of Satellites checked out, of which a worker uses the
oldest. `late` and `pulled` are history: the resources for which somebody has registered after the action had begun, and those whose file
was unlinked while others were registered in it or about to write it. Take-overs are left to SharedResource.

**FunctionLocker** keeps the call stack of each process. `holder` and `content` are the lock and the text of each lock
file. `pid` is the process id of each worker; a worker that replaces a killed one gets any that is free (`PidSpace`), also that of the
killed one, and the files may have texts of earlier sessions at first (`stale`). What a function does is what `create_dict` does to a
shared file: it reads it, truncates it (`Truncate`), and writes it; `torn`, `saved` and `cut` say whose file is cut, what was
written, and where a call ended in between.

**UpgradeStages** has a `Test` for each pair of a pre_upgrade test and the post_upgrade test that depends on it. A write of a
file is an opening that truncates it and a writing; two workers that have both opened it may leave a text that nobody
can read (`Mixed`). `commonScope`, `leftover` and `saving` are chosen in the initial state.

**NailgunSwap** has what is installed (`NoVersion` between pip's uninstall and install) and, for each worker, which version each
imported module is of. An api is the set of versions it was made of. `sure` is history: the last swap has succeeded and nobody has
uninstalled anything before the worker had imported it. **MCNailgunSwap** adds symmetry of workers and versions.

**CliClasses** is a table: for each class of `robottelo/cli/`, its command, whether it needs an organization, what each method
assigns to the class attributes or leaves alone, and which classes are its attributes (`nested`: the filters of content views and
their rules, the manifests and tags of docker). **HammerCommands** calls any of them, through any incarnation of the class
(`attr`), or as an attribute of another class (`inner`, `Ways`), with Satellites and `omit_credentials()` entered as with statements (`blocks`). A call is one step with all it does: the attributes it assigns, the
checks that raise, the commands it runs (`create()` ends with an `info()`), what is put back in a finally. `called` and `issued` are what
the last call was to run and did run. **MCHammerCommands** picks the classes that are also copied.

**FixtureSteps** has the vocabulary of a fixture (take, clean, give, make, drop, set, change, back, ...). **CoreFixtures**, **ContentFixtures**, **ProvisioningFixtures**
and **ServiceFixtures** are the tables of all fixtures of `pytest_fixtures/`: the scope of each, what it asks for, and its steps before
and after the yield, for each of its parameters. **Fixtures** is pytest around them: set-up by scope and need, one stack per scope, the failure
of a fixture kept for the others that need it, teardown as scopes end. `has` is who took what, `value` who last wrote a setting.
**MCFixtures** lists the sessions: of every fixture alone in each of its ways, of fixtures that share what they need or what they change, and
those of the other modes (`destructive`, `sanity`, `nminus`, and a Satellite on demand with and without `server.auto_checkin`).

**TestSelection** holds the hooks as operators on sequences of tests. **Collection** gives each worker a `memory` of issues and a place (`at`); loading the
cache, asking Jira, opening the file for writing (which empties it) and writing are steps of their own, so that other workers read and
write in between, and a worker can be killed there. `origin` is what file and Jira held at first. **MCCollection** has a suite with one test for each hook.

`*Proofs` modules hold the theorems of the module in their name; **NewUpgradesProofs** those of UpgradeFlow and NailgunSwap, which
the fixtures of the new upgrade tests bring together.

## The runs

| Run | Instance | Question |
|---|---|---|
| shared_barrier | 3 workers, 1 failing action | Until something fails, is it a Rendezvous? Does everyone get out of the with statement, also after the failure? |
| shared_faults | 3 workers, two of them recoverable, 1 failing action, 1 failing body | What survives failures and take-overs? |
| shared_function | 2 processes, 2 calls each, 2 tries, clock to 3, 1 killed | One run per period, whose result everyone gets |
| upgrade_flow | 2 workers with 1 test each, 1 failure anywhere | What four nested meetings give to a test |
| function_locker | 2 processes, 3 process ids, 2 functions, 4 calls in all, 1 exception, 1 killed | Exclusion, recursion, lost updates, waiting |
| upgrade_stages | 2 workers, 2 pairs of tests, 2 kills | What reaches the second run |
| nailgun_swap | 3 workers, 2 versions, 4 swaps, 1 failing pip | Which nailgun does a worker get? |
| hammer_commands | every CLI class, 3 steps (calls and with statements); three classes also through a copy and as another user | Is a command line the one its method writes down, and where does it go? |
| fixtures | 168 sessions of up to 3 tests, 1 exception in any fixture | Is everything taken and changed given back and restored? |
| collection | 2 workers, 11 tests, 13 sets of options, 4 cache files, 2 Jiras, 1 trouble, 1 replacement | Do the workers collect the same, and what was asked for? Is Jira told? |
| shared_takeover (finding) | 2 workers, recoverable action fails once | "error" overwrites "action_error" |
| upgrade_stages_dependents (finding) | 1 worker, 1 pair of tests | The post_upgrade test of a failed test runs |

Why the bounds are enough: two workers conflict over a file, and the third sees what the conflict left (several files of one name
follow each other). In UpgradeFlow the two workers use four resources of two Satellites; that one of them comes back to a resource it has used,
with a second test, is left to the proofs. Four calls of two functions
nest in both orders and recur through each other. Four swaps of three workers let one
worker swap twice while the others hold the lock, wait for it and import. One failure and one kill at every point; two kills in
UpgradeStages, so that a worker and then the run, or two writers of one file, can be killed. Larger instances were run where they
finish in minutes (the barrier with 4 workers), or simulated (UpgradeFlow with 3 workers), with the same results.
In HammerCommands one call leaves an attribute and another reads it, and the third step is the with statement between them. In
Fixtures, three tests in any order are a set-up, a sharing and a new set-up in the same scope. `MaxTroubles = 1` of Collection allows one kind of trouble
in a session, at any point: what two kinds do together is left to the proofs, which have no bounds. Its two workers
meet in the file while one is killed, and one replacement lets a new worker load what that left.

Deadlock is checked in the runs whose cfg does not turn it off. It is off where a system really stops: after the last call
or kill the bounds allow, and in shared_faults, where a failing body and a non-recoverable worker can leave a watcher
polling a status that nobody changes, in upgrade_flow, whose tests end and where all may wait around an orphaned file, and in Collection,
whose session ends.

Fairness: only that a live worker goes on (`WF_vars(Step(w))` for each). The code polls with sleeps, so a lock
that is free again and again could be missed for ever in principle; weak fairness of a worker's whole `Step` does not
assume otherwise, because a step that waits is not enabled. A lock that nobody will release any more, that of a killed redis
client, ends by `blocking_timeout`: SharedFunction asks for weak fairness of that one timeout; the timeout of `file_lock()` is one of the steps of a process in
FunctionLocker. HammerCommands, Fixtures and Collection claim no liveness and assume no fairness. Kills, failures and late arrivals are never fair.

## What is true only under a condition

* `MutualExclusion`, `ReleaseAfterAction`, `PerformedOnce` and `IsRendezvous` hold until something fails (`Quiet`). After a
  failing action they do not: a main watcher unlinks the file outside of the lock, and workers of two files mix.
  What holds in spite of failures is in shared_faults.
* `EveryoneLeaves` is about failures of an action that is not recoverable. It does not hold if the body of a main watcher raises FileNotFoundError
  (255: it leaves without telling anybody), or if workers that disagree on `action_is_recoverable` share a file (230).
* `TestAfterUpgrade` and `OneUpgradeAtATime` except the Satellites whose file was unlinked under somebody (`pulled`). `unlink()` takes no
  lock, and whoever registers between the check (267, 282) and it (270, 284) is left without the file: the next one to
  register becomes a main watcher and upgrades the Satellite, beside another upgrade, or under a test that was released by the old file's "done".
* `Punctual` supposes that no worker has registered after the action had begun, nor lost its file in that way. Without that, tests
  are set up on the new version, and go on running on a Satellite that has been given back.
* `NothingLeftBehind` of UpgradeFlow is about runs in which nothing fails and nobody is late. It allows a file that a `done()` has made
  again, which had read it before the main watcher's `unlink()` (280, 284).
* `EveryTestEnds` except an orphaned file: a main watcher whose set-up has failed unlinks the file (270) when another's `register()` has
  read it, which then writes it again (182), "waiting" and without a main watcher; everybody who comes waits there for ever.
* `NothingSavedIsLost` and `NoStaleData` suppose a common scope of the function locker, `OneInFunction` and `UpdatesSurvive` are checked with one. The repository
  never sets one, so in practice entries are lost when several workers save.
* `UpdatesSurvive` excepts a call that was killed or has raised between the truncation of the shared file and the writing (`cut`): all that
  was in it is lost.
* `RecursionIsSeen` allows a call that is no recursion to be refused when the lock file still has the text of a killed worker whose process id
  is in use again (`stale`).
* `AskedIsGiven` supposes that nobody uninstalls anything between the end of the swap and the import. The lock of
  `_swap_nailgun` does not cover the import, so a worker of a group that has been upgraded, or one that still has its
  checkout to do, can give another one its own version, a mixture, or an ImportError. `SameVersionIsShared` says who can do
  that: only workers that want another version.
* `CommandsGoWhereMeant` and `CredentialsAsAsked` say of a nested class that it runs on the host of the settings, with the credentials of the
  settings, also when it is reached through a Satellite: `Satellite.cli` (`hosts.py` 2197) copies the outer class only, so
  `sat.cli.ContentView.filter.create()` does not go to `sat`, and `omit_credentials()` does not reach it.
* `ContextsUnwind` and `CommandsGoWhereMeant` except a Satellite that is entered again inside of another one that was entered in it (`reentered`): it
  forgets where to go back to. `CredentialsAsAsked` excepts an exception inside of `omit_credentials()` (`spoilt`), which has no finally.
* `ThingsGoBack` excepts the Satellite that a worker got on demand if `server.auto_checkin` is not set (`KeptHosts`; the template of the
  configuration has it false): nobody gives it back.
* `NothingLeftBehind` of Fixtures allows what a fixture leaves that has raised itself. No fixture is left out of the sessions, two exceptions are in the
  property: six of the seven settings of `rhsso_setting_setup` stay as they were set (`Forgetting`), and so does `hammer.yml` if a
  fixture has backed it up over the backup of another (`lost`): `configure_hammer_negotiate`, and `configure_hammer_no_negotiate` with
  `configure_hammer_no_creds`, which `tests/foreman/destructive/test_ldap_authentication.py` uses together (982, 1063).
  `SettingsStand` holds for the mixes of fixtures that MCFixtures lists, not for any two that write the same setting.
* `WorkersAgree` supposes that Jira is steady: no request timed out and no issue changed during the session; and no `--only-failed`, which makes a Python set of the
  tests. `CollectionAsAsked` asks neither that the tests are there nor that they are not which are skipped for an issue that will not be
  fixed (`Moot`): `tests/foreman/conftest.py` (38-40) says that they are deselected, but its hook runs before the one that would mark them.
  It allows unit tests to be missing and, if nothing else was selected, tests that need an infrastructure that is not there.
* `OutcomesAreReported`: the label is the outcome only if all workers that ran tests of the issue agree on it and what was cached of the issue was true.
  Otherwise the last to report wins.

## What is proved

TLAPS proves these for every value of the constants, from the named assumptions of each module (the workers' names
differ from the model's special values, bounds are natural numbers).

* **SharedResourceProofs.** `LockInv` says what the lock protects: the holder's `buf` and `stage` match the disk, so a torn
  file is always the holder's; `LockProtectsFile` follows. `SuccessInv` ties every status "done" on disk, in a buffer
  or in a worker's place to `performed`; `NoSuccessWithoutAction` follows, with any failures and take-overs. Without failures,
  `RolesInv` (who can lead: one main watcher per file, those of older files have finished acting), `StatusInv`, `OwnerInv` and
  `RoundInv` (a worker that still uses a file has joined its round) give `MutualExclusion`, `ReleaseAfterAction` and
  `PerformedOnce`. None is inductive alone: that two do not act at once rests on the old main watcher having
  published "done" before the file it can unlink has anyone new in it. `RosterInv`: whoever is about to write the file has all its
  watchers in the buffer, but for one that unregisters; `NoLostRegistration` follows, with any failures. `ArrivalInv`: until the action of a round is
  performed, a worker that still prepares in it is pending on the file and in whatever is about to be written; with it every step is shown to be a step of Rendezvous or to change nothing that it sees (`IsRendezvous`).
* **SharedFunctionProofs.** `LockInv` (who is between the lock and its release), `LogInv` (what is stored is the last entry of the log), `MakingInv`
  (the run under way began after the last entry expired) and `AnswerInv` give `OneMaker`, `SharedWhileValid` and `ResultsAreShared`.
* **FunctionLockerProofs.** No two workers have one process id (`PidInv`). `LockInvariance`: a process is inside of exactly the functions whose lock
  files it holds (`HeldInv`, `OwnerInv`), each once (`DistinctInv`), and the text of a file is the process id of its holder, or stale
  (`ContentInv`). `OneInFunction`, `NoSelfDeadlock` and
  `OnlyRecursionIsRefused` (together `RecursionIsSeen`) follow; with `DataInv`, so does `UpdatesSurvive`. `OneInFunction` and `UpdatesSurvive` are about workers of a common scope.
* **UpgradeStagesProofs.** `PhaseInv` and `BufInv` place every step in its run. `ListInv` gives `FailedListIsCurrent`. `DataInv`: with a common
  scope there is one writer, the file is torn while it writes, and its text holds everything saved before; so
  `NothingSavedIsLost` and, with `GivenInv`, `NoStaleData`. `HostInv`: only tests that have been begun are recorded in the file
  of hosts, in any buffer, whoever overwrites whom; so `RunsOnlyAfterItsPre`.
* **NewUpgradesProofs.** UpgradeFlow, for any number of workers, tests and failures. `CountInv`: nobody checks out more often than it has tests, so the Satellites of the
  model suffice. `FileInv` is what holds of a file until it is unlinked under somebody: one worker at a time is between its read and its write
  (`HolderInv`), what a writer has read is still there (`BufInv`), who has registered is still a watcher (`WatchInv`), and one of them is the
  main watcher (`LeadInv`). `OneUpgradeAtATime` follows, however late workers are and whatever fails.
  `SoundInv`: a published upgrade, a released watcher and a file that is "done" mean that the version is new and that nobody can still begin to
  upgrade it; so `TestAfterUpgrade`. `OldInv`: while somebody who is not late is in its set-up, the upgrade has not begun. `ReachInv`: a test in
  progress keeps its worker pending in the meeting of tests, whose main watcher therefore does not begin the checkin; so `Punctual`.
  NailgunSwap: `SwapHolderInv`: what the holder of the lock knows of site-packages at each pip command. `SureInv`: until a worker has
  imported, the version it wants stays installed, and it has imported nothing else. `AskedIsGiven` and `SameVersionIsShared` follow.
* **HammerCommandsProofs.** For any table of classes in which a method that overrides the check for an organization puts back what the class declares, and
  within a class either all methods assign an attribute or none does (`TableAssumption`, which TLC evaluates on the table of all classes). `AllInv` says what an
  incarnation's own attributes can be, and that `blocks` is the history of `server`, of `_revert` and of the flags. All properties of the run follow.
* **FixturesProofs.** For any sessions over the tables. What is held is held by a fixture that is up, is being set up or has
  raised. `ThingsGoBack` rests on `GivesAllBack` and `TornDownFirst` on `CleansAllFirst`: two facts about the rows of a table, premises of
  the theorems: a teardown gives back what its set-up takes, and tears a host down before it gives it back. Both hold of all rows in all
  168 sessions (they are constant in a behaviour, so initial states suffice to see it); the theorems say that nothing else matters.
  `NothingLeftBehind` rests on `Tended(k)`, for each setting k: only set-ups give it a value and only teardowns put back what was kept; a fixture that gives it one puts an
  older one back (but for those that keep theirs by name); the old value is kept before the new one is given; whoever keeps one shares its scope with all that write the
  setting; a backup file serves one fixture, which needs the Satellite the file is on if that is given back. The invariant: a value is that of the session, of a fixture that raised, or of one that is up and still has
  to put it back (`ValueInv`), and what f has kept was written by somebody set up before f and in its scope (`SavedInv`), or copied before it (`CopyInv`).
  `SettingsStand` needs `Steady(k)` too: nobody else resets the setting, what is put back was kept first, and those that write to a host need its owner. Both are
  constant in a behaviour, and TLC has found them true in all sessions of MCFixtures. `Tended` is false of the settings of the fixtures
  that `Forgetting` and `lost` are about: there the theorem says nothing, and the property is checked by TLC only.
* **CollectionProofs.** Any number of workers, issues, tests and troubles. Whoever writes the file, it holds the entries that were there at the start (each worker has loaded them or the
  file is empty), and all else is what Jira said (`KeepsLoaded`, `AnswersAgree`): so the hooks give the same list in each worker
  (`ItemsAgree`), although they know different issues: each asks until it has an answer, and more knowledge does not change it. `FailuresAreReported` and
  `LabelsTellOutcomes` rest on what each worker has reported so far (`HasReported`, `LabelsKnown`, `HasLabelled`).
  `CollectionAsAsked`: each hook is shown to leave what it should of a list in which every test is there once (`Fine`, `KeepIs`, `SanityPluginIs`, `SampleIs`, ...); `HooksInv` carries
  that from the first hooks to the last ones, in between of which the worker learns more issues and changes no answer it had (`AnswersStay`). What a list comprehension
  leaves (`Keep`, a recursive function) takes an induction, which is done by the least place where it would go wrong (`Least`). Two things are assumed of
  the suite: no test is in it twice, and the installer test is none of those that sanity_plugin drops.

Only model-checked: liveness (`EveryoneLeaves`, `EveryCallEnds`, `EveryTestEnds`, `WaitingEnds`, `BothRunsEnd`), which the prover does not reach,
`NothingLeftBehind` of UpgradeFlow, the fixtures that are not `Tended`, and the two
findings. All other invariants and all action properties of the passing runs are theorems.

## What is not modelled

In the modelled parts: killed workers in SharedResource and UpgradeFlow (everyone else then waits for ever, by
design of the barrier; see the hazards), the time-out of Broker's `FileLock`, the restoring of exception classes in
func_shared, functions of several keys, the capsule and puppet groups of the new upgrade tests, which Satellite a worker is aligned to in the
two-run upgrade, tests that depend on several others. Texts, logging and formats are left out throughout.

In NailgunSwap: what other modules have imported from nailgun before the swap and keep, the default configuration that
`configure_nailgun` has put in modules that are then dropped, and a worker killed while pip runs.

In HammerCommands: how outputs are parsed (`cli/hammer.py`), options of commands, and what the commands do.

In Fixtures: values that fixtures return, what they make and leave on purpose, entities whose deletion nobody promises,
fixtures that conftest files of test directories override (but for `tests/foreman/destructive/`), the order among fixtures of one scope that
do not need each other (one order is taken), and several workers: a session here is that of one worker.

In Collection: an entry whose TTL ends during the session, issues that Jira does not know (nothing is cached for them and each use
asks again), duplicates (no data of this code has `dupe_data`), `is_open()` inside of tests. `--importance` and `--team` filter as `--component` does and are left out, and so are
on-premises tests, which are treated as those for IPv6. A seeded sample is taken to be the last tests. xdist hands the tests out in order, and a worker reports on its issues in any order.

The parts with no module are in `PROJECT.json` with the reason: sequences of requests that build entities on a Satellite
(factories and mixins), constants and data, parsing and formatting, clients of services, scripts run by hand.

## What is left to do

1. What of liveness can be said as safety: that a worker which waits waits for one that is not waiting.
2. A capsule and a puppet group of the new upgrade tests in UpgradeFlow, with actions that are recoverable.
3. Several workers in Fixtures: the alignment of workers to Satellites and the checkout of hosts from one inventory.
