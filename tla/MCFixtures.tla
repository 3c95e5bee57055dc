------------------------------ MODULE MCFixtures ------------------------------
(***************************************************************************)
(* The sessions of the runs of Fixtures.                                   *)
(***************************************************************************)
EXTENDS Fixtures, Functions

Session(mode, param, asked) == [mode |-> mode, param |-> param, tests |-> asked]

\* The fixtures with steps, each alone in a test, in each of its ways.
Stepping ==
    {f \in Names : \E w \in Range(Table[f].ways) : w.setup \o w.undo # << >>}

Alone ==
    {Session("usual", p, {{f}}) : p \in 1..3, f \in Stepping}
AloneInItsWays ==
    {s \in Alone : s.param = 1 \/ \E f \in UNION UNION {s.tests} : s.param <= Len(Table[f].ways)}

\* Tests that change the same settings, or share what others change.
Nested ==
    {Session("usual", 1, t) : t \in {
        {{"setup_http_proxy", "setting_update"}, {"multi_setting_update"}},
        {{"setting_update", "multi_setting_update"}, {"setup_http_proxy_global"}},
        {{"setting_update", "inventory_settings"}},
        {{"discovery_org", "discovery_location", "session"}, {"discovery_org"}},
        {{"default_puppet_environment"}, {"module_puppet_org"}},
        {{"pxeless_discovery_host"}, {"pxeless_static_discovery_host"}},
        {{"class_hostgroup", "module_org"}, {"class_org", "target_sat"}, {"target_sat"}}}}

\* Modules with the marker "destructive", and the other modes.
OtherModes ==
    {Session("destructive", p, t) : p \in {1, 2}, t \in {
        {{"parametrized_enrolled_sat", "configure_ipa_api", "hammer_logout"},
         {"parametrized_enrolled_sat", "sessions_tear_down"}},
        {{"configure_hammer_no_negotiate", "configure_hammer_no_creds", "hammer_logout"},
         {"configure_hammer_negotiate"}},
        {{"target_sat", "module_target_sat"}, {"module_org", "setting_update"}},
        {{"class_org", "subscribe_satellite"}, {"class_target_sat"}},
        {{"session", "module_org"}, {"default_org"}}}}
    \cup {Session(mode, 1, {{f}, {g}}) : mode \in {"sanity", "nminus", "ondemand"},
            f \in {"module_capsule_configured_mqtt", "capsule_configured"},
            g \in {"installer_satellite", "module_sat_ready_rhels", "target_sat"}}
    \cup {Session("kept", 1, {{"capsule_configured"}, {"target_sat"}})}

MCSuites == AloneInItsWays \cup Nested \cup OtherModes
===============================================================================
