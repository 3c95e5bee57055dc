---------------------------- MODULE CoreFixtures ------------------------------
(*****************************************************************************)
(* The fixtures of pytest_fixtures/core: the Satellites, the hosts of the    *)
(* tests, the services of a Satellite.  A row has the scope of a fixture,    *)
(* the fixtures it asks for, and what of it has to be undone (FixtureSteps); *)
(* what it makes and leaves to the end of the Satellite, and how, is left    *)
(* out.                                                                      *)
(*****************************************************************************)
EXTENDS FixtureSteps

-----------------------------------------------------------------------------
\* core/broker.py
BrokerFixtures ==
    [_default_sat |-> PerSession({"align_to_satellite"}),
     target_sat |-> ATarget(PerTest({"_default_sat", "satellite_factory"})),
     module_target_sat |-> ATarget(PerModule({"_default_sat", "satellite_factory"})),
     session_target_sat |-> Does(PerSession({"_default_sat", "satellite_factory"}),
        <<In({"sanity"}, Set("config", "server.hostname"))>>, <<>>),
     class_target_sat |-> ATarget(PerClass({"_default_sat", "satellite_factory"})),
     module_discovery_sat |-> Does(PerModule({"module_provisioning_sat",
        "module_sca_manifest_org", "module_location"}), <<Set("module_target_sat", "cdn"),
        Reset("module_target_sat", "cdn"), Set("module_target_sat", "default PXE entry"),
        Set("module_target_sat", "discovery_location"),
        Set("module_target_sat", "discovery_organization"),
        Set("module_target_sat", "discovery_auto")>>, <<>>)]

\* core/contenthosts.py
ContenthostsFixtures1 ==
    [rhel_contenthost |-> Within(PerTest({}), "host"),
     module_rhel_contenthost |-> Within(PerModule({}), "host"),
     rhel7_contenthost |-> Within(PerTest({}), "host"),
     rhel7_contenthost_module |-> Within(PerModule({}), "host"),
     rhel8_contenthost |-> Within(PerTest({}), "host"),
     rhel9_contenthost |-> Within(PerTest({}), "host"),
     content_hosts |-> Within(PerTest({}), "hosts"),
     mod_content_hosts |-> Within(PerModule({}), "hosts"),
     registered_hosts |-> Within(PerTest({"target_sat", "module_org", "module_ak_with_cv"}),
        "hosts"),
     katello_host_tools_host |-> PerTest({"target_sat", "module_org", "rhel_contenthost"}),
     cockpit_host |-> PerTest({"class_target_sat", "class_org", "rhel_contenthost"}),
     rex_contenthost |-> Within(PerTest({"module_org", "target_sat", "module_ak_with_cv"}),
        "host"),
     rex_contenthosts |-> Within(PerTest({"module_org", "target_sat", "module_ak_with_cv"}),
        "hosts")]

\* core/contenthosts.py
ContenthostsFixtures2 ==
    [katello_host_tools_tracer_host |-> PerTest({"rex_contenthost", "target_sat"}),
     rhel_contenthost_with_repos |-> Within(PerTest({"target_sat"}), "host"),
     module_container_contenthost |-> Within(PerModule({"module_target_sat", "module_org",
        "module_activation_key"}), "host"),
     module_flatpak_contenthost |-> Within(PerModule({}), "host"),
     centos_host |-> Within(PerTest({}), "host"),
     oracle_host |-> Within(PerTest({}), "host"),
     dummy_bootc_host |-> Within(PerTest({}), "host"),
     bootc_host |-> Within(PerTest({}), "host")]

\* core/contenthosts.py
ContenthostsFixtures3 ==
    [external_puppet_server |-> Within(PerModule({}), "host"),
     sat_upgrade_chost |-> Within(PerModule({}), "host"),
     custom_host |-> Within(PerTest({}), "host"),
     module_haproxy |-> Within(PerModule({}), "host")]

\* core/reporting.py
ReportingFixtures ==
    [record_testsuite_timestamp_xml |-> PerSession({})]

\* core/sat_cap_factory.py
SatCapFactoryFixtures1 ==
    [satellite_factory |-> PerSession({}),
     large_capsule_host |-> ADeployed(PerTest({"capsule_factory"}), "capsule", AllModes),
     capsule_factory |-> PerSession({}),
     satellite_host |-> ASatellite(PerTest({"satellite_factory"})),
     module_satellite_host |-> ASatellite(PerModule({"satellite_factory"})),
     session_satellite_host |-> ASatellite(PerSession({"satellite_factory"})),
     module_satellite_mqtt |-> Does(PerModule({"module_target_sat"}),
        <<Set("module_target_sat", "rex mode"), Set("module_target_sat", "mqtt interval")>>,
        <<>>),
     capsule_host |-> ACapsule(PerTest({"capsule_factory"})),
     module_capsule_host |-> ACapsule(PerModule({"capsule_factory"})),
     session_capsule_host |-> ACapsule(PerSession({"capsule_factory"})),
     capsule_configured |-> PerTest({"capsule_host", "target_sat"}),
     large_capsule_configured |-> PerTest({"large_capsule_host", "target_sat"}),
     module_capsule_configured |-> PerModule({"module_capsule_host", "module_target_sat"})]

\* core/sat_cap_factory.py
SatCapFactoryFixtures2 ==
    [module_unconfigured_satellite |-> Within(PerModule({}), "satellite"),
     module_satellite_iop |-> Does(PerModule({"module_target_sat"}), <<Make("iop")>>,
        <<Drop("iop")>>),
     module_capsule_configured_mqtt |-> Does(PerModule({"module_capsule_configured_ansible"}),
        <<Run("install")>>, <<In({"nminus"}, Run("nothing: it raises"))>>),
     module_lb_capsules |-> Does(PerModule({}), <<Take("capsules")>>, <<Clean("capsules"),
        Give("capsules")>>),
     module_capsule_configured_ansible |-> PerModule({"module_capsule_configured"}),
     parametrized_enrolled_sat |-> Either(PerModule({"satellite_factory", "ad_data"}), <<Way({},
        <<Take("satellite"), Set("parametrized_enrolled_sat", "cdn"), Make("IDM client")>>,
        <<Drop("IDM client"), Reset("parametrized_enrolled_sat", "cdn"), Clean("satellite"),
        Give("satellite")>>), Way({}, <<Take("satellite"),
        Set("parametrized_enrolled_sat", "cdn"), Set("parametrized_enrolled_sat", "AD")>>,
        <<Reset("parametrized_enrolled_sat", "cdn"), Clean("satellite"), Give("satellite")>>)>>),
     sat_ready_rhel |-> Within(PerTest({}), "satellite")]

\* core/sat_cap_factory.py
SatCapFactoryFixtures3 ==
    [module_sat_ready_rhels |-> Does(PerModule({"module_target_sat"}),
        <<In(AllModes \ {"sanity"}, Hold("satellites"))>>, <<>>),
     cap_ready_rhel |-> Within(PerTest({}), "capsule"),
     installer_satellite |-> InstalledSatellite(PerSession({}))]

\* core/sys.py
SysFixtures ==
    [foreman_service_teardown |-> Does(PerTest({"target_sat"}), <<>>, <<Run("service start")>>),
     allow_repo_discovery |-> Does(PerTest({"target_sat"}),
        <<Set("target_sat", "selinux boolean")>>, <<Reset("target_sat", "selinux boolean")>>),
     relax_bfa |-> Does(Automatic(PerSession({"session_target_sat"})),
        <<In(AllModes \ {"sanity"}, Set("session_target_sat", "failed_login_attempts_limit"))>>,
        <<>>),
     proxy_port_range |-> Does(Automatic(PerSession({"session_target_sat"})),
        <<Set("session_target_sat", "websm ports")>>, <<>>),
     puppet_proxy_port_range |-> Does(PerSession({"session_puppet_enabled_sat"}),
        <<Set("session_puppet_enabled_sat", "websm ports")>>, <<>>),
     class_cockpit_sat |-> PerClass({"class_subscribe_satellite"}),
     enable_capsule_for_registration |-> Does(PerModule({"module_target_sat"}),
        <<Set("module_target_sat", "capsule features")>>, <<>>),
     block_fake_repo_access |-> Does(PerSession({"session_target_sat"}),
        <<Make("firewall rule")>>, <<Drop("firewall rule")>>)]

\* core/ui.py
UiFixtures ==
    [ui_user |-> Making(PerModule({"module_org", "module_location", "module_target_sat"}), "user"),
     session |-> Within(PerTest({"target_sat", "ui_user"}), "browser"),
     autosession |-> Within(PerTest({"target_sat", "ui_user"}), "browser"),
     ui_session_record_property |-> Automatic(PerTest({}))]

\* core/upgrade.py
UpgradeFixtures ==
    [dependent_scenario_name |-> PerTest({}),
     pre_configured_capsule |-> PerSession({"session_target_sat"})]

\* core/xdist.py
XdistFixtures ==
    [align_to_satellite |-> Does(Automatic(PerSession({"satellite_factory"})),
        <<Set("config", "server.hostname"), In({"ondemand", "kept"}, Take("satellite"))>>,
        <<In({"sanity"}, Run("unregister")), In({"sanity"}, Run("checkin")),
        In({"ondemand"}, Clean("satellite")), In({"ondemand"}, Give("satellite"))>>)]

CoreFixturesRows ==
    BrokerFixtures @@ ContenthostsFixtures1 @@ ContenthostsFixtures2 @@ ContenthostsFixtures3
    @@ ReportingFixtures @@ SatCapFactoryFixtures1 @@ SatCapFactoryFixtures2 @@
    SatCapFactoryFixtures3 @@ SysFixtures @@ UiFixtures @@ UpgradeFixtures @@ XdistFixtures

\* tests/foreman/destructive/conftest.py: what replaces fixtures in a destructive module.
DestructiveRows ==
    [default_org |-> PerTest({"target_sat"}),
     session |-> Within(PerTest({"module_target_sat", "ui_user"}), "browser")]

===============================================================================
