--------------------------- MODULE TestSelection ---------------------------
(***************************************************************************)
(* pytest_plugins and tests/foreman/conftest.py: what the hooks            *)
(* pytest_collection_modifyitems make of the collected tests.              *)
(*                                                                         *)
(* pytest calls the hooks marked tryfirst before the others and those      *)
(* marked trylast after them, the last registered first:                   *)
(*   rerun_rp, metadata_markers, marker_deselection;                       *)
(*   tests/foreman/conftest.py, upstream_pr, capsule_n-minus,              *)
(*   sanity_plugin, manual_skipped, pytest's own -m;                       *)
(*   issue_handlers, select_random_tests.                                  *)
(* Hooks that only add markers and properties leave the collection alone.  *)
(***************************************************************************)
EXTENDS SequencesExt, FiniteSets, Naturals

CONSTANTS
    Test,       \* the names of the collected tests
    About,      \* what the hooks read of a test, see TestRecord
    Issue, Component, NoIssue

Mark == {"unit", "ipv6_provisioning", "deselect", "stubbed", "destructive", "capsule_factory",
         "build_sanity", "first_sanity", "parametrized", "base_marker"}

TestRecord == [component: Component, blocked_by: Seq(Issue), verifies: SUBSET Issue,
               reason: Issue \cup {NoIssue}, marks: SUBSET Mark]

Flag == {"only_failed", "blocked_by", "verifies_issues", "verifies_these", "upstream_pr",
         "base_marker",
         "n_minus", "sanity", "include_ipv6_provisioning", "include_stubbed", "random",
         "jira_comments", "jira_api_key"}

\* The options of a session: flags, and the values of those that take one.  Whether
\* the settings have a key of Jira, and a base marker for the pull requests, is counted
\* among the flags.
Options == [flags: SUBSET Flag, component: SUBSET Component, failed: SUBSET Test,
            blocked_by: SUBSET Issue, verifies: SUBSET Issue, upstream: SUBSET Component,
            random: Nat, jira_comments: SUBSET Issue]

Given(o, flag) == flag \in o.flags
Has(t, mark) == mark \in About[t].marks

\* [item for item in items if ...]: those of S among the first n tests, and among all.
KeptOf(items, S) ==
    LET kept[n \in 0..Len(items)] ==
            IF n = 0 THEN <<>>
            ELSE IF items[n] \in S THEN Append(kept[n - 1], items[n]) ELSE kept[n - 1]
    IN  kept
Keep(items, S) == KeptOf(items, S)[Len(items)]

-----------------------------------------------------------------------------
(* The first hooks.                                                        *)

\* rerun_rp: a Python set of items, in whatever order the process iterates it.
Reruns(o, items) ==
    IF Given(o, "only_failed") THEN SetToSeqs(ToSet(items) \cap o.failed) ELSE {items}

\* --component; --importance and --team filter the same way.
OfComponent(o, t) == o.component = {} \/ About[t].component \in o.component

\* handle_verification_issues()
Verifies(o, t) ==
    /\ Given(o, "verifies_issues") => About[t].verifies # {}
    /\ Given(o, "verifies_these") => About[t].verifies \cap o.verifies # {}

\* Whether metadata_markers comes to ask Jira about the issues that block a test: not
\* for a unit test, nor if --blocked-by names the issues that count.
AsksAbout(o, t) ==
    ~Has(t, "unit") /\ OfComponent(o, t) /\ Verifies(o, t) /\ ~Given(o, "blocked_by")

\* Mutant: are_all_jira_open() instead of are_any_jira_open().
Unblocked_All(o, t, open) ==
    IF Given(o, "blocked_by") THEN ToSet(About[t].blocked_by) \cap o.blocked_by # {}
    ELSE About[t].blocked_by = <<>> \/ ~(ToSet(About[t].blocked_by) \subseteq open)

\* handle_blocked_by(), open being the issues that are open
Unblocked(o, t, open) ==
    IF Given(o, "blocked_by") THEN ToSet(About[t].blocked_by) \cap o.blocked_by # {}
                              ELSE ToSet(About[t].blocked_by) \cap open = {}

Passes(o, t, open) == OfComponent(o, t) /\ Verifies(o, t) /\ Unblocked(o, t, open)

\* metadata_markers: unit tests are neither selected nor deselected, so they are gone
\* as soon as anything is deselected.
Deselected(o, items, open) ==
    {t \in ToSet(items): ~Has(t, "unit") /\ ~Passes(o, t, open)}

MetadataMarkers(items, deselected) ==
    IF deselected = {} THEN items
    ELSE Keep(items, {t \in Test: ~Has(t, "unit") /\ t \notin deselected})

\* marker_deselection; on_premises_provisioning is treated as ipv6_provisioning.
FitsInfra(o, t) == Has(t, "ipv6_provisioning") => Given(o, "include_ipv6_provisioning")

MarkerDeselection(o, items) ==
    LET selected == Keep(items, {t \in Test: FitsInfra(o, t)})
    IN  IF selected = <<>> THEN items ELSE selected

-----------------------------------------------------------------------------
(* The hooks in between.                                                   *)

\* tests/foreman/conftest.py
ForemanConftest(items) == Keep(items, {t \in Test: ~Has(t, "deselect")})

\* upstream_pr, once the files of the pull requests are mapped to components: a test has
\* to be of one of them, and to have the base marker if the settings name one.
OfUpstream(o, t) ==
    Given(o, "upstream_pr") =>
        /\ Given(o, "base_marker") => Has(t, "base_marker")
        /\ About[t].component \in o.upstream
UpstreamPr(o, items) == Keep(items, {t \in Test: OfUpstream(o, t)})

\* capsule_n-minus
ForCapsule(o, t) ==
    Given(o, "n_minus") => ~Has(t, "destructive") /\ Has(t, "capsule_factory")
CapsuleNMinus(o, items) == Keep(items, {t \in Test: ForCapsule(o, t)})

\* sanity_plugin: the installer test goes first, parametrized ones go.  Only the first
\* test with both marks is the installer test.
IsInstaller(t) == Has(t, "build_sanity") /\ Has(t, "first_sanity")
ForSanity(o, t) == Given(o, "sanity") => ~(Has(t, "build_sanity") /\ Has(t, "parametrized"))

ConfigurationException(o, items) ==
    Given(o, "sanity") /\ \A t \in ToSet(items): ~IsInstaller(t)

SanityPlugin(o, items) ==
    IF ~Given(o, "sanity") \/ ConfigurationException(o, items) THEN items
    ELSE LET first == Keep(items, {t \in Test: IsInstaller(t)})[1]
         IN  <<first>> \o Keep(items, {t \in Test: t # first /\ ForSanity(o, t)})

\* manual_skipped
IsAutomated(o, t) == Has(t, "stubbed") => Given(o, "include_stubbed")
ManualSkipped(o, items) == Keep(items, {t \in Test: IsAutomated(o, t)})

\* pytest -m build_sanity
IsMarked(o, t) == Given(o, "sanity") => Has(t, "build_sanity")
MarkExpression(o, items) == Keep(items, {t \in Test: IsMarked(o, t)})

InBetween(o, items) ==
    CapsuleNMinus(o, UpstreamPr(o, ForemanConftest(MarkerDeselection(o, items))))
ToTheIssues(o, items) ==
    MarkExpression(o, ManualSkipped(o, SanityPlugin(o, InBetween(o, items))))

-----------------------------------------------------------------------------
(* select_random_tests, the last hook.  Every worker has the same seed: of *)
(* as many items it samples the same places, here the last ones.           *)

ValueError(o, items) == Given(o, "random") /\ o.random > Len(items)

SelectRandomTests(o, items) ==
    IF Given(o, "random") /\ o.random < Len(items)
    THEN SubSeq(Reverse(items), 1, o.random) ELSE items
=============================================================================
