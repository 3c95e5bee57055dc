--------------------------- MODULE ContentFixtures ----------------------------
(*****************************************************************************)
(* The fixtures of pytest_fixtures/component: organizations, manifests and   *)
(* content.  A row has the scope of a fixture, the fixtures it asks for, and *)
(* what of it has to be undone (FixtureSteps); what it makes and leaves to   *)
(* the end of the Satellite, and how, is left out.                           *)
(*****************************************************************************)
EXTENDS FixtureSteps

-----------------------------------------------------------------------------
\* component/acs.py
AcsFixtures ==
    [module_yum_repo |-> PerModule({"module_target_sat", "module_org"}),
     module_file_repo |-> PerModule({"module_target_sat", "module_org"})]

\* component/activationkey.py
ActivationkeyFixtures ==
    [module_activation_key |-> PerModule({"module_sca_manifest_org", "module_target_sat"}),
     function_activation_key |-> PerTest({"function_sca_manifest_org", "target_sat"}),
     module_ak |-> PerModule({"module_org", "module_target_sat"}),
     module_ak_with_cv |-> PerModule({"module_lce", "module_org", "module_promoted_cv",
        "module_target_sat"}),
     function_ak_with_cv |-> PerTest({"function_lce", "function_org", "function_promoted_cv",
        "target_sat"}),
     module_ak_with_cv_repo |-> PerModule({"module_lce", "module_org", "module_cv_repo",
        "module_target_sat"}),
     module_ak_with_synced_repo |-> PerModule({"module_sca_manifest_org", "module_target_sat"}),
     module_default_ak |-> PerModule({"module_target_sat", "module_org"})]

\* component/contentview.py
ContentviewFixtures ==
    [module_cv |-> PerModule({"module_org", "module_target_sat"}),
     module_published_cv |-> PerModule({"module_org", "module_target_sat"}),
     function_published_cv |-> PerTest({"function_org", "target_sat"}),
     module_promoted_cv |-> PerModule({"module_lce", "module_published_cv", "module_target_sat"}),
     function_promoted_cv |-> PerTest({"function_lce", "function_published_cv", "target_sat"}),
     module_rolling_cv |-> PerModule({"module_org", "module_target_sat"}),
     function_rolling_cv |-> PerTest({"function_org", "target_sat"}),
     module_default_org_view |-> PerModule({"module_org", "module_target_sat"}),
     module_ak_cv_lce |-> PerModule({"module_org", "module_lce", "module_published_cv",
        "module_target_sat"}),
     module_cv_repo |-> PerModule({"module_org", "module_repository", "module_lce",
        "module_target_sat"})]

\* component/flatpak.py
FlatpakFixtures ==
    [function_flatpak_remote |-> PerTest({"target_sat", "function_org"}),
     function_host_cleanup |-> PerTest({"target_sat", "module_flatpak_contenthost"})]

\* component/lce.py
LceFixtures ==
    [default_lce |-> PerSession({"session_target_sat"}),
     module_lce |-> PerModule({"module_org", "module_target_sat"}),
     function_lce |-> PerTest({"function_org", "target_sat"}),
     module_lce_library |-> PerModule({"module_org", "module_target_sat"}),
     function_lce_library |-> PerTest({"function_org", "target_sat"}),
     default_org_lce |-> PerSession({"default_org", "session_target_sat"})]

\* component/pulp.py
PulpFixtures ==
    [module_prn_content_setup |-> PerModule({"module_target_sat", "module_sca_manifest"})]

\* component/repository.py
RepositoryFixtures1 ==
    [module_repo_options |-> PerModule({"module_org", "module_product"}),
     module_repo |-> PerModule({"module_repo_options", "module_target_sat"}),
     function_product |-> PerTest({"target_sat", "function_org"}),
     module_product |-> PerModule({"module_org", "module_target_sat"}),
     module_rhst_repo |-> PerModule({"module_target_sat", "module_sca_manifest_org",
        "module_promoted_cv", "module_lce"}),
     repo_setup |-> PerTest({"target_sat"}),
     setup_content |-> PerModule({"module_target_sat", "module_org"}),
     module_repository |-> PerModule({"os_path", "module_product", "module_target_sat"}),
     custom_synced_repo |-> PerTest({"target_sat"}),
     fake_yum_repos |-> PerTest({"target_sat", "module_product"})]

\* component/repository.py
RepositoryFixtures2 ==
    [repos_collection |-> PerTest({"target_sat"}),
     module_repos_collection_with_setup |-> PerModule({"module_target_sat", "module_org",
        "module_lce"}),
     module_repos_collection_with_manifest |-> PerModule({"module_target_sat",
        "module_sca_manifest_org", "module_lce"}),
     function_repos_collection_with_manifest |-> PerTest({"target_sat",
        "function_sca_manifest_org", "function_lce"})]

\* component/subscription.py
SubscriptionFixtures ==
    [default_subscription |-> PerModule({"module_target_sat", "module_sca_manifest_org"}),
     module_subscribe_satellite |-> Subscribing(PerModule({"module_target_sat"}),
        "module_target_sat"),
     class_subscribe_satellite |-> Subscribing(PerClass({"class_target_sat"}), "class_target_sat"),
     subscribe_satellite |-> Subscribing(PerTest({"target_sat"}), "target_sat")]

\* component/taxonomy.py
TaxonomyFixtures1 ==
    [default_org |-> PerSession({"session_target_sat"}),
     default_location |-> PerSession({"session_target_sat"}),
     current_sat_org |-> PerTest({"target_sat"}),
     current_sat_location |-> PerTest({"target_sat"}),
     function_org |-> PerTest({"target_sat"}),
     module_org |-> PerModule({"module_target_sat"}),
     class_org |-> Making(PerClass({"class_target_sat"}), "organization"),
     module_location |-> PerModule({"module_target_sat", "module_org"}),
     class_location |-> Making(PerClass({"class_target_sat", "class_org"}), "location"),
     function_location |-> PerTest({"target_sat"}),
     function_location_with_org |-> PerTest({"target_sat", "function_org"}),
     module_sca_manifest_org |-> PerModule({"module_org", "module_sca_manifest",
        "module_target_sat"}),
     module_sca_multiarch_manifest_org |-> PerModule({"module_org",
        "module_sca_multiarch_manifest", "module_target_sat"}),
     class_sca_manifest_org |-> PerClass({"class_org", "class_sca_manifest", "class_target_sat"}),
     sca_manifest_org_for_upgrade |-> PerTest({"function_org", "sca_manifest_for_upgrade",
        "target_sat"}),
     function_sca_manifest_org |-> PerTest({"function_org", "function_sca_manifest",
        "target_sat"}),
     function_els_sca_manifest_org |-> PerTest({"function_org", "function_sca_els_manifest",
        "target_sat"}),
     module_els_sca_manifest_org |-> PerModule({"module_org", "module_sca_els_manifest",
        "module_target_sat"}),
     class_els_sca_manifest_org |-> PerClass({"class_org", "class_sca_els_manifest",
        "class_target_sat"}),
     session_sca_manifest |-> Within(PerSession({}), "manifest"),
     module_extra_rhel_sca_manifest |-> Within(PerModule({}), "manifest")]

\* component/taxonomy.py
TaxonomyFixtures2 ==
    [module_sca_manifest |-> Within(PerModule({}), "manifest"),
     module_sca_multiarch_manifest |-> Within(PerModule({}), "manifest"),
     class_sca_manifest |-> Within(PerClass({}), "manifest"),
     function_sca_manifest |-> Within(PerTest({}), "manifest"),
     second_function_sca_manifest |-> Within(PerTest({}), "manifest"),
     module_sca_els_manifest |-> Within(PerModule({}), "manifest"),
     class_sca_els_manifest |-> Within(PerClass({}), "manifest"),
     function_sca_els_manifest |-> Within(PerTest({}), "manifest"),
     smart_proxy_location |-> Does(PerModule({"module_org", "module_target_sat",
        "default_smart_proxy"}), <<Set("default_smart_proxy", "location")>>, <<>>),
     upgrade_entitlement_manifest |-> PerTest({}),
     sca_manifest_for_upgrade |-> PerTest({}),
     func_future_dated_subscription_manifest |-> Within(PerTest({}), "manifest")]

ContentFixturesRows ==
    AcsFixtures @@ ActivationkeyFixtures @@ ContentviewFixtures @@ FlatpakFixtures @@
    LceFixtures @@ PulpFixtures @@ RepositoryFixtures1 @@ RepositoryFixtures2 @@
    SubscriptionFixtures @@ TaxonomyFixtures1 @@ TaxonomyFixtures2

===============================================================================
