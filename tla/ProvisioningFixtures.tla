------------------------ MODULE ProvisioningFixtures --------------------------
(*****************************************************************************)
(* The fixtures of pytest_fixtures/component: what hosts are provisioned     *)
(* with.  A row has the scope of a fixture, the fixtures it asks for, and    *)
(* what of it has to be undone (FixtureSteps); what it makes and leaves to   *)
(* the end of the Satellite, and how, is left out.                           *)
(*****************************************************************************)
EXTENDS FixtureSteps

-----------------------------------------------------------------------------
\* component/architecture.py
ArchitectureFixtures ==
    [default_architecture |-> PerSession({"session_target_sat"}),
     session_puppet_default_architecture |-> PerSession({"session_puppet_enabled_sat"}),
     module_architecture |-> PerModule({"module_target_sat"})]

\* component/computeprofile.py
ComputeprofileFixtures ==
    [module_compute_profile |-> PerModule({"module_target_sat"})]

\* component/discovery.py
DiscoveryFixtures ==
    [module_discovery_hostgroup |-> PerModule({"module_org", "module_location",
        "module_target_sat"}),
     discovery_org |-> Changing(PerModule({"module_org", "module_target_sat"}),
        "module_target_sat", "discovery_organization"),
     discovery_location |-> Changing(PerModule({"module_location", "module_target_sat"}),
        "module_target_sat", "discovery_location")]

\* component/domain.py
DomainFixtures ==
    [default_domain |-> PerSession({"session_target_sat", "default_smart_proxy"}),
     module_domain |-> PerModule({"module_target_sat", "module_org", "module_location"})]

\* component/hostgroup.py
HostgroupFixtures ==
    [module_hostgroup |-> PerModule({"module_target_sat"}),
     module_hostgroup_with_org_loc |-> PerModule({"module_target_sat", "module_org",
        "module_location"}),
     class_hostgroup |-> Making(PerClass({"class_target_sat", "class_org", "class_location"}),
        "hostgroup")]

\* component/os.py
OsFixtures ==
    [default_os |-> PerSession({"default_architecture", "default_partitiontable",
        "default_pxetemplate", "session_target_sat"}),
     module_os |-> PerModule({"module_target_sat"}),
     os_path |-> PerModule({"default_os"})]

\* component/partition_table.py
PartitionTableFixtures ==
    [default_partition_table |-> PerSession({"session_target_sat"})]

\* component/provision_azure.py
ProvisionAzureFixtures1 ==
    [sat_azure |-> Either(PerSession({}), <<Way({"session_target_sat"}, <<>>, <<>>),
        Way({"session_puppet_enabled_sat"}, <<>>, <<>>)>>),
     sat_azure_org |-> PerModule({"sat_azure"}),
     sat_azure_loc |-> PerModule({"sat_azure"}),
     sat_azure_domain |-> PerModule({"sat_azure", "sat_azure_loc", "sat_azure_org"}),
     sat_azure_default_os |-> PerModule({"sat_azure"}),
     sat_azure_default_architecture |-> PerModule({"sat_azure"}),
     azurerm_settings |-> PerSession({}),
     azurermclient |-> Making(PerSession({"azurerm_settings"}), "connection"),
     module_azurerm_cr |-> PerModule({"azurerm_settings", "sat_azure_org", "sat_azure_loc",
        "sat_azure"}),
     module_azurerm_finishimg |-> PerModule({"sat_azure_default_architecture",
        "sat_azure_default_os", "sat_azure", "module_azurerm_cr"}),
     module_azurerm_byos_finishimg |-> PerModule({"sat_azure_default_architecture",
        "sat_azure_default_os", "module_azurerm_cr", "sat_azure"}),
     module_azurerm_cloudimg |-> PerModule({"sat_azure_default_architecture",
        "sat_azure_default_os", "sat_azure", "module_azurerm_cr"})]

\* component/provision_azure.py
ProvisionAzureFixtures2 ==
    [module_azurerm_gallery_finishimg |-> PerModule({"sat_azure_default_architecture",
        "sat_azure_default_os", "sat_azure", "module_azurerm_cr"}),
     module_azurerm_custom_finishimg |-> PerModule({"sat_azure_default_architecture",
        "sat_azure_default_os", "sat_azure", "module_azurerm_cr"})]

\* component/provision_capsule_pxe.py
ProvisionCapsulePxeFixtures1 ==
    [capsule_provisioning_sat |-> PerModule({"module_target_sat", "module_sca_manifest_org",
        "module_location", "module_capsule_configured"}),
     capsule_provisioning_lce_sync_setup |-> PerModule({"module_capsule_configured",
        "module_lce_library"}),
     capsule_provisioning_hostgroup |-> PerTest({"module_target_sat",
        "capsule_provisioning_sat", "module_sca_manifest_org", "module_location",
        "default_architecture", "capsule_provisioning_rhel_content", "module_lce_library",
        "default_partitiontable", "pxe_loader", "module_capsule_configured"})]

\* component/provision_capsule_pxe.py
ProvisionCapsulePxeFixtures2 ==
    [capsule_provisioning_rhel_content |-> PerModule({"capsule_provisioning_sat",
        "module_sca_manifest_org", "module_lce_library"})]

\* component/provision_gce.py
ProvisionGceFixtures1 ==
    [sat_gce |-> Either(PerSession({}), <<Way({"session_target_sat"}, <<>>, <<>>),
        Way({"session_puppet_enabled_sat"}, <<>>, <<>>)>>),
     sat_gce_org |-> PerModule({"sat_gce"}),
     sat_gce_loc |-> PerModule({"sat_gce"}),
     sat_gce_domain |-> PerModule({"sat_gce", "sat_gce_loc", "sat_gce_org"}),
     sat_gce_default_os |-> PerModule({"sat_gce"}),
     sat_gce_default_partition_table |-> PerSession({"sat_gce"}),
     sat_gce_default_architecture |-> PerModule({"sat_gce"}),
     gce_cert |-> PerSession({"sat_gce"}),
     googleclient |-> Making(PerSession({"gce_cert"}), "connection"),
     gce_latest_rhel_uuid |-> PerSession({"googleclient"}),
     gce_custom_cloudinit_uuid |-> PerSession({"googleclient", "gce_cert"}),
     module_gce_compute |-> PerModule({"sat_gce", "sat_gce_org", "sat_gce_loc", "gce_cert"}),
     gce_domain |-> PerModule({"sat_gce_org", "sat_gce_loc", "gce_cert", "sat_gce"})]

\* component/provision_gce.py
ProvisionGceFixtures2 ==
    [gce_resource_with_image |-> PerModule({"gce_latest_rhel_uuid", "gce_custom_cloudinit_uuid",
        "gce_cert", "sat_gce_default_architecture", "sat_gce_default_os", "sat_gce_loc",
        "sat_gce_org", "sat_gce"}),
     gce_hostgroup |-> PerModule({"sat_gce", "sat_gce_default_architecture",
        "module_gce_compute", "sat_gce_domain", "sat_gce_loc", "sat_gce_default_os",
        "sat_gce_org", "sat_gce_default_partition_table", "googleclient"}),
     gce_hostgroup_resource_image |-> PerModule({"sat_gce_org", "sat_gce_loc",
        "sat_gce_default_partition_table", "sat_gce_default_architecture", "sat_gce_default_os",
        "gce_domain", "gce_resource_with_image", "sat_gce"}),
     module_gce_cloudimg |-> PerModule({"sat_gce_default_architecture", "module_gce_compute",
        "sat_gce_default_os", "gce_custom_cloudinit_uuid", "sat_gce"}),
     module_gce_finishimg |-> PerModule({"sat_gce_default_architecture", "module_gce_compute",
        "sat_gce_default_os", "gce_latest_rhel_uuid", "sat_gce"}),
     gce_setting_update |-> Does(PerTest({"sat_gce"}),
        <<Set("sat_gce", "destroy_vm_on_host_delete")>>,
        <<Reset("sat_gce", "destroy_vm_on_host_delete")>>)]

\* component/provision_libvirt.py
ProvisionLibvirtFixtures ==
    [libvirt |-> PerModule({}),
     module_cr_libvirt |-> PerModule({"module_target_sat", "module_org", "module_location",
        "libvirt"}),
     module_libvirt_image |-> PerModule({"module_target_sat", "module_cr_libvirt"}),
     module_libvirt_provisioning_sat |-> PerModule({"module_provisioning_sat", "libvirt"}),
     module_libvirt_compute_profile |-> PerModule({"module_target_sat", "module_cr_libvirt"})]

\* component/provision_ocpv.py
ProvisionOcpvFixtures ==
    [module_ocpv_sat |-> PerModule({"module_target_sat"}),
     module_ocpv_cr |-> PerModule({"module_ocpv_sat", "module_org", "module_location"}),
     module_ocpv_image |-> Does(PerTest({"module_ocpv_sat", "module_ocpv_cr",
        "default_architecture", "default_partitiontable", "module_org"}), <<Make("medium"),
        Make("os"), Make("image")>>, <<Drop("image"), Drop("os"), Drop("medium")>>),
     module_ocpv_hostgroup |-> Does(PerTest({"module_ocpv_cr", "module_ocpv_sat", "module_org",
        "module_location", "default_architecture", "module_lce_library",
        "module_provisioning_capsule", "module_ocpv_image"}), <<Make("domain"),
        Make("hostgroup")>>, <<Drop("hostgroup"), Drop("domain")>>)]

\* component/provision_pxe.py
ProvisionPxeFixtures1 ==
    [module_provisioning_capsule |-> PerModule({"module_target_sat", "module_location"}),
     module_provisioning_rhel_content |-> PerModule({"module_provisioning_sat",
        "module_sca_manifest_org", "module_lce_library"})]

\* component/provision_pxe.py
ProvisionPxeFixtures2 ==
    [module_provisioning_sat |-> PerModule({"module_target_sat", "module_sca_manifest_org",
        "module_location", "module_provisioning_capsule"}),
     module_ssh_key_file |-> PerModule({}),
     provisioning_host |-> Does(PerTest({"module_ssh_key_file", "pxe_loader",
        "module_provisioning_sat"}), <<Hold("blank host")>>, <<Run("restart of dhcpd")>>),
     configure_kea_dhcp6_server |-> Either(PerModule({}), <<Way({}, <<>>, <<>>),
        Way({}, <<Make("kea host")>>, <<Drop("kea host")>>)>>)]

\* component/provision_pxe.py
ProvisionPxeFixtures3 ==
    [provisioning_hostgroup |-> PerTest({"module_provisioning_sat", "module_sca_manifest_org",
        "module_location", "default_architecture", "module_provisioning_rhel_content",
        "module_lce_library", "default_partitiontable", "module_provisioning_capsule",
        "pxe_loader"}),
     pxe_loader |-> PerTest({}),
     pxeless_discovery_host |-> Making(PerTest({"provisioning_host", "module_discovery_sat",
        "pxe_loader"}), "disk image"),
     pxeless_static_discovery_host |-> Does(PerTest({"provisioning_host",
        "module_discovery_sat", "pxe_loader", "provisioning_hostgroup"}),
        <<Set("module_target_sat", "subnet"), Make("disk image")>>, <<Drop("disk image")>>),
     pxeless_discovery_hosts |-> Either(PerTest({}),
        <<Way({"pxeless_discovery_host"}, <<>>, <<>>), Way({"pxeless_static_discovery_host"},
        <<>>, <<>>)>>)]

\* component/provision_pxe.py
ProvisionPxeFixtures4 ==
    [configure_secureboot_provisioning |-> Either(PerTest({"pxe_loader",
        "module_provisioning_sat", "module_provisioning_rhel_content"}), <<Way({}, <<>>, <<>>),
        Way({}, <<Make("bootloader files")>>, <<Drop("bootloader files")>>)>>)]

\* component/provision_vmware.py
ProvisionVmwareFixtures ==
    [vmware |-> PerModule({}),
     vmwareclient |-> Making(PerTest({"vmware"}), "connection"),
     module_vmware_cr |-> PerModule({"module_provisioning_sat", "module_sca_manifest_org",
        "module_location", "vmware"}),
     module_vmware_hostgroup |-> PerTest({"module_vmware_cr", "module_provisioning_sat",
        "module_sca_manifest_org", "module_location", "default_architecture",
        "module_provisioning_rhel_content", "module_lce_library", "default_partitiontable",
        "module_provisioning_capsule", "pxe_loader"}),
     module_vmware_image |-> PerTest({"module_provisioning_sat", "module_vmware_cr",
        "module_sca_manifest_org", "module_location", "module_provisioning_rhel_content",
        "default_architecture", "vmware"}),
     provisioning_vmware_host |-> Making(PerTest({"pxe_loader", "vmwareclient",
        "module_ssh_key_file"}), "vm")]

\* component/provisioning_template.py
ProvisioningTemplateFixtures ==
    [module_provisioningtemplate_default |-> PerModule({"module_target_sat", "module_org",
        "module_location"}),
     module_provisioningtemplate_pxe |-> PerModule({"module_target_sat", "module_org",
        "module_location"}),
     default_partitiontable |-> PerSession({"session_target_sat"}),
     module_env |-> PerModule({"module_target_sat"}),
     default_pxetemplate |-> PerSession({"session_target_sat"}),
     module_sync_kickstart_content |-> PerModule({"module_target_sat",
        "module_sca_manifest_org", "module_location"})]

\* component/subnet.py
SubnetFixtures ==
    [module_default_subnet |-> PerModule({"module_target_sat", "module_org", "module_location"})]

ProvisioningFixturesRows ==
    ArchitectureFixtures @@ ComputeprofileFixtures @@ DiscoveryFixtures @@ DomainFixtures @@
    HostgroupFixtures @@ OsFixtures @@ PartitionTableFixtures @@ ProvisionAzureFixtures1 @@
    ProvisionAzureFixtures2 @@ ProvisionCapsulePxeFixtures1 @@ ProvisionCapsulePxeFixtures2 @@
    ProvisionGceFixtures1 @@ ProvisionGceFixtures2 @@ ProvisionLibvirtFixtures @@
    ProvisionOcpvFixtures @@ ProvisionPxeFixtures1 @@ ProvisionPxeFixtures2 @@
    ProvisionPxeFixtures3 @@ ProvisionPxeFixtures4 @@ ProvisionVmwareFixtures @@
    ProvisioningTemplateFixtures @@ SubnetFixtures

===============================================================================
