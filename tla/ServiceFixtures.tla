--------------------------- MODULE ServiceFixtures ----------------------------
(*****************************************************************************)
(* The fixtures of pytest_fixtures/component: the rest of                    *)
(* pytest_fixtures/component.  A row has the scope of a fixture, the         *)
(* fixtures it asks for, and what of it has to be undone (FixtureSteps);     *)
(* what it makes and leaves to the end of the Satellite, and how, is left    *)
(* out.                                                                      *)
(*****************************************************************************)
EXTENDS FixtureSteps

-----------------------------------------------------------------------------
\* component/ansible.py
AnsibleFixtures ==
    [import_ansible_roles |-> PerSession({"default_smart_proxy"})]

\* component/global_params.py
GlobalParamsFixtures ==
    [multi_global_param_update |-> Either(PerTest({"target_sat"}),
        <<Way({}, <<Make("parameter")>>, <<Drop("parameter")>>),
        Way({}, <<Change("target_sat", "parameter")>>, <<Back("target_sat", "parameter")>>)>>)]

\* component/host.py
HostFixtures ==
    [function_host |-> PerTest({"target_sat"}),
     module_host |-> PerModule({"module_target_sat"}),
     module_model |-> PerModule({"module_target_sat"}),
     setup_rhst_repo |-> PerModule({"module_target_sat"}),
     module_host_template |-> PerModule({"module_org", "smart_proxy_location",
        "module_target_sat"}),
     host_ui_options |-> PerTest({"module_host_template"})]

\* component/http_proxy.py
HttpProxyFixtures ==
    [session_auth_proxy |-> PerSession({"session_target_sat"}),
     setup_http_proxy |-> Does(PerTest({"module_org", "target_sat"}),
        <<Change("target_sat", "content_default_http_proxy"), Make("http proxy"),
        Change("target_sat", "http_proxy")>>,
        <<Back("target_sat", "content_default_http_proxy"), Back("target_sat", "http_proxy"),
        Drop("http proxy")>>),
     setup_http_proxy_without_global_settings |-> Making(PerTest({"module_sca_manifest_org",
        "target_sat"}), "http proxy"),
     setup_http_proxy_global |-> Changing(PerTest({"target_sat"}), "target_sat", "http_proxy")]

\* component/katello_certs_check.py
KatelloCertsCheckFixtures ==
    [certs_data |-> PerTest({"sat_ready_rhel"}),
     cert_setup_destructive_teardown |-> Making(PerTest({"target_sat"}), "certificates"),
     capsule_certs_teardown |-> PerTest({"target_sat"}),
     cert_setup_teardown |-> Making(PerModule({"module_target_sat"}), "certificates")]

\* component/leapp_client.py
LeappClientFixtures ==
    [module_stash |-> PerModule({}),
     module_leapp_lce |-> PerModule({"module_target_sat", "module_sca_manifest_org"}),
     function_leapp_cv |-> PerTest({"module_target_sat", "module_sca_manifest_org",
        "leapp_repos", "module_leapp_lce"}),
     function_leapp_ak |-> PerTest({"module_target_sat", "function_leapp_cv",
        "module_leapp_lce", "module_sca_manifest_org"}),
     leapp_repos |-> PerTest({"default_architecture", "module_stash", "module_target_sat",
        "module_sca_manifest_org"}),
     verify_target_repo_on_satellite |-> PerTest({"module_target_sat", "function_leapp_cv",
        "module_sca_manifest_org", "module_leapp_lce", "leapp_repos"}),
     custom_leapp_host |-> Within(PerTest({"module_target_sat", "module_sca_manifest_org",
        "function_leapp_ak"}), "host"),
     precondition_check_upgrade_and_install_leapp_tool |-> PerTest({"custom_leapp_host"})]

\* component/maintain.py
MaintainFixtures ==
    [module_capsule_maintain |-> Either(PerModule({"module_capsule_host"}),
        <<Way({"module_target_sat"}, <<Set("module_target_sat", "cdn")>>, <<>>)>>),
     sat_maintain |-> Either(PerModule({}),
        <<Way({"module_target_sat"}, <<Set("module_target_sat", "cdn")>>, <<>>),
        Way({"module_capsule_maintain"}, <<>>, <<>>),
        Way({"module_satellite_iop"}, <<Set("module_target_sat", "cdn")>>, <<Run("podman login")>>)>>),
     start_satellite_services |-> Does(PerTest({"sat_maintain"}), <<>>,
        <<Run("start of the services")>>),
     setup_backup_tests |-> Does(PerTest({"sat_maintain"}), <<Run("rm")>>, <<Run("rm")>>),
     module_synced_repos |-> PerModule({"sat_maintain", "module_sca_manifest", "module_stash"}),
     setup_sync_plan |-> Does(PerTest({"sat_maintain"}), <<Make("organization"),
        Make("sync plan")>>, <<Run("end of the maintenance mode"), Drop("sync plan"),
        Drop("organization")>>)]

\* component/mcp.py
McpFixtures ==
    [module_target_sat_foreman_mcp |-> Making(PerModule({"module_target_sat"}), "container"),
     host_viewer_user |-> PerTest({"module_target_sat_foreman_mcp", "module_org",
        "module_location"}),
     domain_viewer_user |-> PerTest({"module_target_sat_foreman_mcp", "module_org",
        "module_location"}),
     incupd_host |-> Within(PerTest({"module_target_sat_foreman_mcp", "function_org",
        "function_promoted_cv", "function_ak_with_cv"}), "host")]

\* component/oscap.py
OscapFixtures ==
    [tailoring_file_path |-> PerSession({"session_target_sat"}),
     oscap_content_path |-> PerSession({"session_target_sat"}),
     scap_content |-> PerModule({"import_ansible_roles", "module_target_sat"}),
     tailoring_file |-> PerModule({"module_target_sat", "module_org", "module_location",
        "tailoring_file_path"})]

\* component/permissions.py
PermissionsFixtures ==
    [expected_permissions |-> PerSession({"session_target_sat"})]

\* component/puppet.py
PuppetFixtures ==
    [session_puppet_enabled_sat |-> PerSession({"session_satellite_host"}),
     session_puppet_enabled_capsule |-> PerSession({"session_capsule_host",
        "session_puppet_enabled_sat"}),
     module_puppet_org |-> PerModule({"session_puppet_enabled_sat"}),
     module_puppet_loc |-> PerModule({"session_puppet_enabled_sat"}),
     module_puppet_domain |-> PerModule({"session_puppet_enabled_sat", "module_puppet_loc",
        "module_puppet_org"}),
     default_puppet_environment |-> PerSession({"module_puppet_org",
        "session_puppet_enabled_sat"}),
     module_puppet_environment |-> PerModule({"module_puppet_org", "module_puppet_loc",
        "session_puppet_enabled_sat"}),
     module_import_puppet_module |-> PerModule({"session_puppet_enabled_sat"}),
     module_env_search |-> PerModule({"module_puppet_org", "module_puppet_loc",
        "module_import_puppet_module", "session_puppet_enabled_sat"}),
     module_puppet_classes |-> PerModule({"module_env_search", "module_import_puppet_module",
        "session_puppet_enabled_sat"}),
     parametrized_puppet_sat |-> PerSession({"session_target_sat", "session_puppet_enabled_sat"}),
     session_puppet_enabled_proxy |-> PerSession({"session_puppet_enabled_sat"}),
     session_puppet_default_os |-> PerSession({"session_puppet_enabled_sat"}),
     module_puppet_published_cv |-> PerModule({"session_puppet_enabled_sat", "module_puppet_org"}),
     module_puppet_lce_library |-> PerModule({"session_puppet_enabled_sat", "module_puppet_org"}),
     module_puppet_user |-> PerModule({"session_puppet_enabled_sat", "module_puppet_org",
        "module_puppet_loc"})]

\* component/rh_cloud.py
RhCloudFixtures1 ==
    [module_target_sat_insights |-> Either(PerModule({"module_target_sat"}),
        <<Way({}, <<>>, <<>>), Way({"module_satellite_iop"}, <<>>, <<>>)>>),
     module_els_manifest |-> Within(PerModule({}), "manifest"),
     module_els_manifest_org |-> PerModule({"module_target_sat_insights", "module_els_manifest"}),
     rhcloud_manifest_org |-> PerModule({"module_target_sat_insights", "module_sca_manifest"}),
     rhcloud_activation_key |-> PerModule({"module_target_sat_insights", "rhcloud_manifest_org"}),
     activation_key_with_els_manifest_org |-> PerModule({"module_target_sat_insights",
        "module_els_manifest_org"}),
     rhcloud_registered_hosts |-> PerModule({"rhcloud_activation_key", "rhcloud_manifest_org",
        "mod_content_hosts", "module_target_sat_insights"}),
     rhel_insights_vm |-> PerTest({"module_target_sat_insights", "rhcloud_activation_key",
        "rhcloud_manifest_org", "rhel_contenthost"}),
     rhel_insights_vms |-> PerTest({"module_target_sat_insights", "rhcloud_activation_key",
        "rhcloud_manifest_org", "content_hosts"}),
     inventory_settings |-> Does(PerTest({"module_target_sat_insights"}),
        <<Change("module_target_sat", "obfuscate_inventory_hostnames"),
        Change("module_target_sat", "obfuscate_inventory_ips"),
        Change("module_target_sat", "exclude_installed_packages"),
        Change("module_target_sat", "include_parameter_tags")>>,
        <<Back("module_target_sat", "obfuscate_inventory_hostnames"),
        Back("module_target_sat", "obfuscate_inventory_ips"),
        Back("module_target_sat", "exclude_installed_packages"),
        Back("module_target_sat", "include_parameter_tags")>>)]

\* component/rh_cloud.py
RhCloudFixtures2 ==
    [rhcloud_capsule |-> PerModule({"module_capsule_host", "module_target_sat_insights",
        "rhcloud_manifest_org", "default_location"})]

\* component/satellite_auth.py
SatelliteAuthFixtures1 ==
    [default_sso_host |-> PerModule({"module_target_sat"}),
     default_ipa_host |-> PerModule({"module_target_sat"}),
     ldap_cleanup |-> PerTest({"target_sat"}),
     ad_data |-> PerSession({}),
     ipa_data |-> PerSession({}),
     open_ldap_data |-> PerSession({}),
     auth_source |-> PerTest({"ldap_cleanup", "module_target_sat", "module_org",
        "module_location", "ad_data"}),
     auth_source_ipa |-> PerTest({"ldap_cleanup", "default_ipa_host", "module_target_sat",
        "module_org", "module_location"})]

\* component/satellite_auth.py
SatelliteAuthFixtures2 ==
    [auth_source_open_ldap |-> PerTest({"ldap_cleanup", "module_target_sat", "module_org",
        "module_location", "open_ldap_data"}),
     ldap_auth_source |-> PerTest({"module_org", "module_location", "ldap_cleanup", "ad_data",
        "ipa_data", "open_ldap_data", "module_target_sat"}),
     auth_data |-> PerTest({"ad_data", "ipa_data"})]

\* component/satellite_auth.py
SatelliteAuthFixtures3 ==
    [enroll_configure_rhsso_external_auth |-> PerModule({"module_target_sat"}),
     enable_external_auth_rhsso |-> PerModule({"enroll_configure_rhsso_external_auth",
        "default_sso_host", "module_target_sat"}),
     module_enroll_idm_and_configure_external_auth |-> Making(PerModule({"module_target_sat"}),
        "IDM client"),
     func_enroll_idm_and_configure_external_auth |-> Making(PerTest({"target_sat"}), "IDM client"),
     configure_realm |-> PerModule({"module_target_sat", "default_ipa_host"}),
     rhsso_setting_setup |-> Does(PerModule({"module_target_sat"}),
        <<Set("module_target_sat", "authorize_login_delegation"),
        Set("module_target_sat", "authorize_login_delegation_auth_source_user_autocreate"),
        Set("module_target_sat", "login_delegation_logout_url"),
        Set("module_target_sat", "oidc_algorithm"), Set("module_target_sat", "oidc_audience"),
        Set("module_target_sat", "oidc_issuer"), Set("module_target_sat", "oidc_jwks_url")>>,
        <<Reset("module_target_sat", "authorize_login_delegation")>>),
     rhsso_setting_setup_with_timeout |-> Does(PerModule({"module_target_sat",
        "rhsso_setting_setup"}), <<Set("module_target_sat", "idle_timeout")>>,
        <<Reset("module_target_sat", "idle_timeout")>>),
     module_enroll_ad_and_configure_external_auth |-> PerModule({"ad_data", "module_target_sat"})]

\* component/satellite_auth.py
SatelliteAuthFixtures4 ==
    [func_enroll_ad_and_configure_external_auth |-> PerTest({"ad_data", "target_sat"}),
     configure_hammer_no_creds |-> EditingHammerConfig(PerTest({"parametrized_enrolled_sat"})),
     configure_hammer_negotiate |-> EditingHammerConfig(PerTest({"parametrized_enrolled_sat",
        "configure_hammer_no_creds"})),
     configure_hammer_no_negotiate |-> EditingHammerConfig(PerTest({"parametrized_enrolled_sat"})),
     hammer_logout |-> Does(PerTest({"parametrized_enrolled_sat"}), <<Run("logout")>>,
        <<Run("logout")>>),
     sessions_tear_down |-> Does(PerTest({"parametrized_enrolled_sat"}), <<>>,
        <<Run("kdestroy")>>),
     configure_ipa_api |-> Changing(PerTest({"parametrized_enrolled_sat"}),
        "parametrized_enrolled_sat", "ipa api")]

\* component/settings.py
SettingsFixtures ==
    [setting_update |-> Changing(PerTest({"target_sat"}), "target_sat", "http_proxy"),
     multi_setting_update |-> Does(PerTest({"target_sat"}),
        <<Change("target_sat", "http_proxy"),
        Change("target_sat", "content_default_http_proxy")>>,
        <<Back("target_sat", "http_proxy"), Back("target_sat", "content_default_http_proxy")>>)]

\* component/smartproxy.py
SmartproxyFixtures ==
    [default_smart_proxy |-> PerSession({"session_target_sat"}),
     module_fake_proxy |-> Does(PerModule({"module_target_sat"}),
        <<Set("module_target_sat", "websm ports"), Make("proxy")>>, <<Drop("proxy")>>)]

\* component/templatesync.py
TemplatesyncFixtures ==
    [create_import_export_local_dir |-> Making(PerTest({"target_sat"}), "directory"),
     git_port |-> Does(PerSession({"session_target_sat"}),
        <<Set("session_target_sat", "git ports")>>, <<>>),
     git_pub_key |-> Making(PerSession({"session_target_sat", "git_port"}), "key"),
     git_repository |-> Making(PerTest({"git_port", "git_pub_key"}), "repository"),
     git_branch |-> Either(PerTest({"git_repository"}),
        <<Way({}, <<Make("branch")>>, <<Drop("branch")>>), Way({}, <<>>, <<>>)>>)]

\* component/usage_report.py
UsageReportFixtures ==
    [module_generated_report |-> PerModule({"module_target_sat"}),
     module_report_keys |-> PerModule({"module_target_sat", "module_generated_report"}),
     module_expected_keys |-> PerModule({}),
     module_expected_keys_condensed |-> PerModule({})]

\* component/user.py
UserFixtures ==
    [user_not_exists |-> PerTest({"target_sat"})]

\* component/user_role.py
UserRoleFixtures ==
    [viewer_role |-> PerSession({"session_target_sat"}),
     class_user_password |-> PerClass({}),
     function_role |-> PerTest({"target_sat"}),
     function_role_with_org |-> PerTest({"module_target_sat", "module_org"}),
     module_user |-> PerModule({"module_target_sat", "module_org", "module_location"}),
     default_viewer_role |-> PerModule({"module_target_sat", "module_org", "default_location",
        "viewer_role"}),
     module_user_viewer |-> PerModule({"module_target_sat", "module_org", "module_location",
        "viewer_role"})]

\* component/virtwho_config.py
VirtwhoConfigFixtures1 ==
    [org_module |-> PerTest({"default_org", "module_sca_manifest_org"}),
     org_session |-> PerTest({"session"}),
     form_data_cli |-> PerTest({"target_sat", "org_module"})]

\* component/virtwho_config.py
VirtwhoConfigFixtures2 ==
    [form_data_api |-> PerTest({"target_sat", "org_module"}),
     form_data_ui |-> PerTest({"target_sat", "org_module"})]

\* component/virtwho_config.py
VirtwhoConfigFixtures3 ==
    [setup_libvirt_ssh_auth |-> PerTest({"target_sat"}),
     virtwho_config_cli |-> Making(PerTest({"form_data_cli", "target_sat",
        "register_sat_and_enable_aps_repo", "setup_libvirt_ssh_auth"}),
        "virt-who configuration"),
     virtwho_config_api |-> Making(PerTest({"form_data_api", "target_sat",
        "register_sat_and_enable_aps_repo", "setup_libvirt_ssh_auth"}),
        "virt-who configuration"),
     virtwho_config_ui |-> Making(PerTest({"form_data_ui", "target_sat", "org_session",
        "register_sat_and_enable_aps_repo", "setup_libvirt_ssh_auth"}),
        "virt-who configuration"),
     deploy_type_cli |-> PerTest({"org_module", "form_data_cli",
        "register_sat_and_enable_aps_repo", "virtwho_config_cli", "target_sat",
        "default_location"}),
     deploy_type_api |-> PerTest({"org_module", "form_data_api",
        "register_sat_and_enable_aps_repo", "virtwho_config_api", "target_sat"})]

\* component/virtwho_config.py
VirtwhoConfigFixtures4 ==
    [deploy_type_ui |-> PerTest({"org_module", "form_data_ui", "org_session",
        "register_sat_and_enable_aps_repo", "virtwho_config_ui", "target_sat"}),
     delete_host |-> PerTest({"form_data_api", "target_sat"}),
     register_sat_and_enable_aps_repo |-> Subscribing(PerModule({"module_target_sat"}),
        "module_target_sat")]

ServiceFixturesRows ==
    AnsibleFixtures @@ GlobalParamsFixtures @@ HostFixtures @@ HttpProxyFixtures @@
    KatelloCertsCheckFixtures @@ LeappClientFixtures @@ MaintainFixtures @@ McpFixtures @@
    OscapFixtures @@ PermissionsFixtures @@ PuppetFixtures @@ RhCloudFixtures1 @@
    RhCloudFixtures2 @@ SatelliteAuthFixtures1 @@ SatelliteAuthFixtures2 @@
    SatelliteAuthFixtures3 @@ SatelliteAuthFixtures4 @@ SettingsFixtures @@ SmartproxyFixtures
    @@ TemplatesyncFixtures @@ UsageReportFixtures @@ UserFixtures @@ UserRoleFixtures @@
    VirtwhoConfigFixtures1 @@ VirtwhoConfigFixtures2 @@ VirtwhoConfigFixtures3 @@
    VirtwhoConfigFixtures4

===============================================================================
