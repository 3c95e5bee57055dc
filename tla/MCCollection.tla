---------------------------- MODULE MCCollection ----------------------------
\* A suite with a test for each hook, and sessions that use one or two options each.
EXTENDS Collection, TLC

CONSTANTS i1, i2, c1, c2

T(component, blocked_by, verifies, marks) ==
    [component |-> component, blocked_by |-> blocked_by, verifies |-> verifies,
     reason |-> NoIssue, marks |-> marks]

AboutTests ==
    "unit" :> T(c1, <<>>, {}, {"unit"}) @@
    "blocked" :> T(c1, <<i1, i2>>, {}, {}) @@
    "waits" :> [T(c1, <<i2>>, {i1}, {"base_marker"}) EXCEPT !.reason = i1] @@
    "verifier" :> [T(c2, <<>>, {i2}, {"capsule_factory"}) EXCEPT !.reason = i2] @@
    "pxe6" :> T(c2, <<>>, {}, {"ipv6_provisioning"}) @@
    "removed" :> T(c2, <<i2>>, {}, {"deselect"}) @@
    "manual" :> T(c2, <<>>, {}, {"stubbed"}) @@
    "breaks" :> T(c2, <<>>, {}, {"capsule_factory", "destructive"}) @@
    "param" :> T(c2, <<>>, {}, {"build_sanity", "parametrized"}) @@
    "plain" :> T(c2, <<>>, {}, {"build_sanity"}) @@
    "installer" :> T(c2, <<>>, {}, {"build_sanity", "first_sanity"})

Tests == DOMAIN AboutTests

CollectedTests ==
    <<"unit", "blocked", "waits", "verifier", "pxe6", "removed", "manual", "breaks",
      "param", "plain", "installer">>

With(flags) ==
    [flags |-> flags \cup {"jira_api_key"}, component |-> {}, failed |-> {}, blocked_by |-> {},
     verifies |-> {}, upstream |-> {}, random |-> 0, jira_comments |-> {}]

Sessions ==
    {[With({"jira_comments"}) EXCEPT !.component = {c1}],
     [With({"jira_comments", "n_minus"}) EXCEPT !.jira_comments = {i1}],
     [With({"only_failed"}) EXCEPT !.failed = {"pxe6"}],
     [With({"only_failed"}) EXCEPT !.failed = {"unit", "blocked"}],
     [With({}) EXCEPT !.flags = {}, !.component = {c1}],
     [With({"verifies_issues", "blocked_by"}) EXCEPT !.blocked_by = {i2}],
     [With({"verifies_these"}) EXCEPT !.verifies = {i1}],
     [With({"upstream_pr", "random"}) EXCEPT !.upstream = {c1}, !.random = 1],
     [With({"upstream_pr", "base_marker"}) EXCEPT !.upstream = {c1}],
     [With({"only_failed", "random"}) EXCEPT !.failed = {"verifier"}, !.random = 2],
     [With({"include_ipv6_provisioning", "include_stubbed"}) EXCEPT !.component = {c2}],
     With({"sanity"}),
     [With({"sanity", "upstream_pr"}) EXCEPT !.upstream = {c1}]}

Is(status, label) == [status |-> status, label |-> label]

Jiras == {(i1 :> Is("New", "none") @@ i2 :> Is("Testing", "failed")),
          (i1 :> Is("Testing", "passed") @@ i2 :> Is("Wontfix", "none"))}

Holds(issues) == [state |-> "whole", issues |-> issues]
E(data, expired) == [data |-> data, expired |-> expired]

Files == {[state |-> "missing", issues |-> [i \in {} |-> {}]],
          Holds(i1 :> E(Is("Testing", "passed"), FALSE)),
          Holds(i1 :> E(Is("New", "none"), TRUE) @@ i2 :> E(Is("New", "none"), FALSE)),
          Holds(i2 :> E(Is("Testing", "none"), FALSE))}

Symmetry == Permutations(Worker)
=============================================================================
