------------------------------ MODULE CliClasses ------------------------------
(***************************************************************************)
(* The classes of robottelo/cli/: for each, what its methods assign to the *)
(* class attributes that the command line is then built from.  All extend  *)
(* Base (base.py) and most of their methods are of one form:               *)
(*     cls.command_sub = '...'                                             *)
(*     return cls.execute(cls._construct_command(options))                 *)
(* The machine that runs them is HammerCommands.                           *)
(***************************************************************************)

\* A method does not assign the attribute.
Same == "keep"

\* A method of that form.  Whether it is fetched (cls.info() after a successful create()),
\* checks command_requires_org, may raise for other options ("before" or "after" it has
\* assigned command_sub), and overrides command_requires_org while it runs.
Sets(sub) ==
    [sub |-> sub, base |-> Same, end |-> Same, via |-> "hammer",
     fetch |-> FALSE, org |-> FALSE, raises |-> "never", relaxed |-> FALSE]

Maintained(sub) == [Sets(sub) EXCEPT !.via = "satellite-maintain"]

\* The methods of Base; exists() is a list().
BaseMethods ==
    {Sets(s) : s \in {"add-operatingsystem", "ping", "delete", "delete-parameter", "dump", "list",
        "puppet-classes", "remove-operatingsystem", "sc-params", "set-parameter", "update"}}
    \cup {[Sets("create") EXCEPT !.fetch = TRUE, !.org = TRUE], [Sets("info") EXCEPT !.org = TRUE]}

\* A class of hammer commands with methods of its own, which override those of Base.
Hammer(base, own) ==
    [base |-> base, org |-> FALSE, nested |-> {},
     methods |-> {Sets(s) : s \in own} \cup {m \in BaseMethods : m.sub \notin own}]

\* command_requires_org = True
OrgHammer(base, own) == [Hammer(base, own) EXCEPT !.org = TRUE]

\* A class of satellite-maintain commands; what it inherits makes no sense and is not called.
Maintain(base, own) ==
    [base |-> base, org |-> FALSE, nested |-> {}, methods |-> {Maintained(s) : s \in own}]

\* It has other classes as attributes: Docker.tag is DockerTag.
Having(class, names) == [class EXCEPT !.nested = names]

\* Methods subs are changed by f.
Changing(class, subs, f(_)) ==
    [class EXCEPT !.methods = {IF m.sub \in subs THEN f(m) ELSE m : m \in @}]

Fetching(class, subs) == Changing(class, subs, LAMBDA m : [m EXCEPT !.fetch = TRUE])
Checked(class, sub) == Changing(class, {sub}, LAMBDA m : [m EXCEPT !.raises = "before"])
CheckedLate(class, sub) == Changing(class, {sub}, LAMBDA m : [m EXCEPT !.raises = "after"])
Ending(class, subs, end) == Changing(class, subs, LAMBDA m : [m EXCEPT !.end = end])

\* Repository.create() and info(): no organization is required while they run.
Relaxing(class) ==
    Changing(class, {"create", "info"}, LAMBDA m : [m EXCEPT !.relaxed = TRUE])

-----------------------------------------------------------------------------
ACS == Hammer("alternate-content-source", {"refresh"})
ACSBulk == Hammer("alternate-content-source bulk", {"destroy", "refresh", "refresh-all"})
ActivationKey ==
    Hammer("activation-key", {"add-host-collection", "content-override", "copy",
        "host-collections", "product-content", "remove-host-collection", "remove-repository"})
Admin == Hammer("admin", {"logging"})
Ansible ==
    Hammer("ansible", {"roles import", "roles sync", "roles delete", "roles list",
        "variables import", "variables create", "variables delete", "variables info",
        "variables list"})
Architecture == Hammer("architecture", {})
Arfreport == Hammer("arf-report", {"list", "download-html"})
Auth == Hammer("auth", {"login", "logout", "status"})
AuthLogin == Hammer("auth login", {"basic", "oauth", "negotiate"})
Bootdisk == Hammer("bootdisk", {"generic", "host", "subnet"})
Capsule ==
    Hammer("capsule", {"content add-lifecycle-environment",
        "content available-lifecycle-environments", "content info",
        "content lifecycle-environments", "content remove-lifecycle-environment",
        "content synchronization-status", "content synchronize", "content update-counts",
        "content verify-checksum", "import-classes", "refresh-features"})
ComputeProfile == Hammer("compute-profile", {"values create"})
ComputeResource ==
    Hammer("compute-resource", {"image create", "image info", "image available", "image delete",
        "image list", "image update", "networks"})
ContentCredential == OrgHammer("content-credential", {"info"})
ContentExport ==
    OrgHammer("content-export", {"list", "complete library", "complete repository",
        "complete version", "incremental library", "incremental repository",
        "incremental version", "generate-metadata"})
ContentImport == OrgHammer("content-import", {"list", "library", "version", "repository"})
ContentViewFilterRule ==
    Checked(Fetching(Hammer("content-view filter rule", {"create"}), {"create"}), "create")
ContentViewFilter == Having(Hammer("content-view filter", {}), {"ContentViewFilterRule"})
ContentView ==
    Having(Hammer("content-view", {"add-repository", "add-version", "copy", "publish", "purge",
        "version info", "version incremental-update", "version list", "version promote",
        "version export", "version import", "version delete", "version republish-repositories",
        "version verify-checksum", "remove-from-environment", "remove", "remove-version",
        "remove-repository", "component add", "component list", "list"}), {"ContentViewFilter"})
Defaults == Hammer("defaults", {"add", "delete"})
DiscoveredHost ==
    Hammer("discovery", {"provision", "facts", "auto-provision", "reboot", "refresh-facts",
        "list"})
DiscoveryRule == Hammer("discovery-rule", {})
DockerManifest == Hammer("docker manifest", {})
DockerTag == Hammer("docker tag", {})
Docker == Having(Hammer("docker", {}), {"DockerManifest", "DockerTag"})
Domain == Hammer("domain", {})
Environment == Hammer("puppet-environment", {"sc-params"})
Erratum == Hammer("erratum", {})
Fact == Hammer("fact", {})
File == Hammer("file", {})
Filter == Hammer("filter", {"available-permissions"})
FlatpakRemote ==
    Hammer("flatpak-remote", {"scan", "remote-repository info", "remote-repository list",
        "remote-repository mirror"})
GlobalParameter == Hammer("global-parameter", {"set"})
GPGKey == OrgHammer("gpg", {"info"})
Host ==
    Hammer("host", {"ansible-roles play", "ansible-roles assign", "ansible-roles add",
        "ansible-roles remove", "ansible-roles list", "bootc images", "disassociate", "enc-dump",
        "errata apply", "errata info", "errata list", "errata recalculate", "facts", "info",
        "package containerfile-install-command", "package install", "package list",
        "package remove", "package upgrade", "package upgrade-all", "package-group install",
        "package-group remove", "reboot", "reports", "start", "status", "stop",
        "subscription register", "subscription unregister", "sc-params"})
HostInterface == Hammer("host interface", {"create"})
HostTraces == Hammer("host traces", {"list", "resolve"})
HostRegistration == Hammer("host-registration", {"generate-command"})
HostCollection ==
    Hammer("host-collection", {"add-host", "remove-host", "hosts", "erratum install",
        "package install", "copy"})
HostGroup ==
    Hammer("hostgroup", {"ansible-roles assign", "ansible-roles remove", "ansible-roles add",
        "sc-params"})
HttpProxy == Hammer("http-proxy", {})
Insights ==
    OrgHammer("insights", {"inventory sync", "inventory generate-report",
        "inventory download-report", "cloud-connector enable"})
JobInvocation == Hammer("job-invocation", {"output", "create"})
JobTemplate == Hammer("job-template", {"export", "import", "clone"})
LDAPAuthSource == Hammer("auth-source ldap", {})
ExternalAuthSource == Hammer("auth-source external", {})
LifecycleEnvironment == OrgHammer("lifecycle-environment", {"paths"})
Location ==
    Hammer("location", {"add-compute-resource", "add-domain", "add-environment", "add-hostgroup",
        "add-medium", "add-organization", "add-provisioning-template", "add-smart-proxy",
        "add-subnet", "add-user", "remove-compute-resource", "remove-domain",
        "remove-environment", "remove-hostgroup", "remove-medium", "remove-organization",
        "remove-provisioning-template", "remove-smart-proxy", "remove-subnet", "remove-user"})
Medium == Hammer("medium", {})
Model == Hammer("model", {})
ModuleStream == Hammer("module-stream", {})
OperatingSys ==
    Hammer("os", {"add-architecture", "add-provisioning-template", "add-ptable",
        "remove-architecture", "remove-provisioning-template", "remove-ptable "})
Org ==
    Hammer("organization", {"add-compute-resource", "remove-compute-resource", "add-domain",
        "remove-domain", "add-environment", "remove-environment", "add-hostgroup",
        "remove-hostgroup", "add-location", "remove-location", "add-medium", "remove-medium",
        "add-provisioning-template", "remove-provisioning-template", "add-smart-proxy",
        "remove-smart-proxy", "add-subnet", "remove-subnet", "add-user", "remove-user",
        "configure-cdn"})
OstreeBranch == Hammer("ostree-branch", {})
Package == Hammer("package", {})
PartitionTable == Hammer("partition-table", {})
Product ==
    OrgHammer("product", {"remove-sync-plan", "set-sync-plan", "synchronize", "update-proxy",
        "verify-checksum"})
Proxy == Hammer("proxy", {"import-classes", "refresh-features"})
Puppet == Hammer("puppet-class", {"sc-params"})
Realm == Hammer("realm", {})
RecurringLogic == Hammer("recurring-logic", {})
ConfigReport == Hammer("config-report", {})
ReportTemplate ==
    CheckedLate(Fetching(Hammer("report-template", {"create", "generate", "clone",
        "report-data", "schedule"}), {"create"}), "create")
Repository ==
    Relaxing(OrgHammer("repository", {"synchronize", "remove-content", "upload-content",
        "reclaim-space", "verify-checksum"}))
RepositorySet == Hammer("repository-set", {"enable", "disable", "available-repositories"})
RemoteExecutionFeature == Hammer("remote-execution-feature", {})
Role == Fetching(Hammer("role", {"filters", "clone"}), {"clone"})
Scappolicy == Hammer("policy", {})
TailoringFiles == Hammer("tailoring-file", {"download"})
Scapcontent == Hammer("scap-content", {"bulk-upload"})
SmartClassParameter == Hammer("sc-param", {"add-matcher", "remove-matcher"})
Settings == Hammer("settings", {"set"})
Advanced ==
    Maintain("advanced procedure run", {"service-restart", "service-stop", "service-start",
        "packages-install", "packages-update", "packages-check-update",
        "disable-maintenance-mode", "enable-maintenance-mode", "foreman-tasks-delete",
        "foreman-tasks-resume", "sync-plans-enable", "sync-plans-disable",
        "foreman-tasks-ui-investigate", "hammer-setup", "repositories-setup"})
AdvancedByTag ==
    Maintain("advanced procedure by-tag", {"post-migrations", "pre-migrations", "restore"})
Backup == Ending(Maintain("backup", {"online", "offline"}), {"online", "offline"}, "backup_dir")
Health == Maintain("health", {"check", "list", "list-tags"})
MaintenanceMode == Maintain("maintenance-mode", {"start", "stop", "status", "is-enabled"})
Packages ==
    Ending(Ending(Maintain("packages", {"lock", "unlock", "is-locked", "status", "install",
        "update", "check-update"}), {"lock", "unlock", "is-locked", "status", "check-update"},
        ""), {"install", "update"}, "packages")
SatelliteMaintainReport == Maintain("report", {"generate", "condense"})
Restore ==
    [base |-> "restore", org |-> FALSE, nested |-> {},
        methods |-> {[Maintained(Same) EXCEPT !.end = "backup_dir"]}]
Service == Maintain("service", {"start", "stop", "restart", "status", "enable", "disable", "list"})
Update == Maintain("update", {"check", "run"})
Upgrade == Maintain("upgrade", {"check", "run"})
Srpm == Hammer("srpm", {"info", "list"})
Subnet == Hammer("subnet", {})
Subscription ==
    Hammer("subscription", {"upload", "delete-manifest", "refresh-manifest", "manifest-history"})
SyncPlan == CheckedLate(Fetching(Hammer("sync-plan", {"create"}), {"create"}), "create")
Task == Hammer("task", {"progress", "resume", "list"})
Template ==
    Hammer("template", {"kinds", "add-operatingsystem", "remove-operatingsystem", "clone",
        "build-pxe-default"})
TemplateInput == Fetching(Hammer("template-input", {"create"}), {"create"})
TemplateSync ==
    [base |-> "", org |-> FALSE, nested |-> {},
        methods |-> {[Sets(Same) EXCEPT !.base = "export-templates"],
                     [Sets(Same) EXCEPT !.base = "import-templates"]}]
User ==
    Hammer("user", {"add-role", "remove-role", "ssh-keys add", "ssh-keys delete", "ssh-keys list",
        "ssh-keys info", "mail-notification add", "registration-tokens invalidate",
        "registration-tokens invalidate-multiple", "access-token create", "access-token revoke"})
UserGroup ==
    Hammer("user-group", {"add-role", "add-user", "add-user-group", "remove-role", "remove-user",
        "remove-user-group"})
UserGroupExternal == Fetching(Hammer("user-group external", {"refresh", "create"}), {"create"})
VirtWhoConfig == Hammer("virt-who-config", {"fetch", "deploy"})
Webhook == CheckedLate(Fetching(Hammer("webhook", {"create"}), {"create"}), "create")

\* The classes of robottelo/cli/ by name.
Classes == [
    ACS |-> ACS, ACSBulk |-> ACSBulk, ActivationKey |-> ActivationKey, Admin |-> Admin,
    Ansible |-> Ansible, Architecture |-> Architecture, Arfreport |-> Arfreport, Auth |-> Auth,
    AuthLogin |-> AuthLogin, Bootdisk |-> Bootdisk, Capsule |-> Capsule,
    ComputeProfile |-> ComputeProfile, ComputeResource |-> ComputeResource,
    ContentCredential |-> ContentCredential, ContentExport |-> ContentExport,
    ContentImport |-> ContentImport, ContentViewFilterRule |-> ContentViewFilterRule,
    ContentViewFilter |-> ContentViewFilter, ContentView |-> ContentView, Defaults |-> Defaults,
    DiscoveredHost |-> DiscoveredHost, DiscoveryRule |-> DiscoveryRule,
    DockerManifest |-> DockerManifest, DockerTag |-> DockerTag, Docker |-> Docker,
    Domain |-> Domain,
    Environment |-> Environment, Erratum |-> Erratum, Fact |-> Fact, File |-> File,
    Filter |-> Filter, FlatpakRemote |-> FlatpakRemote, GlobalParameter |-> GlobalParameter,
    GPGKey |-> GPGKey, Host |-> Host, HostInterface |-> HostInterface, HostTraces |-> HostTraces,
    HostRegistration |-> HostRegistration, HostCollection |-> HostCollection,
    HostGroup |-> HostGroup, HttpProxy |-> HttpProxy, Insights |-> Insights,
    JobInvocation |-> JobInvocation, JobTemplate |-> JobTemplate, LDAPAuthSource |-> LDAPAuthSource,
    ExternalAuthSource |-> ExternalAuthSource, LifecycleEnvironment |-> LifecycleEnvironment,
    Location |-> Location, Medium |-> Medium, Model |-> Model, ModuleStream |-> ModuleStream,
    OperatingSys |-> OperatingSys, Org |-> Org, OstreeBranch |-> OstreeBranch, Package |-> Package,
    PartitionTable |-> PartitionTable, Product |-> Product, Proxy |-> Proxy, Puppet |-> Puppet,
    Realm |-> Realm, RecurringLogic |-> RecurringLogic, ConfigReport |-> ConfigReport,
    ReportTemplate |-> ReportTemplate, Repository |-> Repository, RepositorySet |-> RepositorySet,
    RemoteExecutionFeature |-> RemoteExecutionFeature, Role |-> Role, Scappolicy |-> Scappolicy,
    TailoringFiles |-> TailoringFiles, Scapcontent |-> Scapcontent,
    SmartClassParameter |-> SmartClassParameter, Settings |-> Settings, Advanced |-> Advanced,
    AdvancedByTag |-> AdvancedByTag, Backup |-> Backup, Health |-> Health,
    MaintenanceMode |-> MaintenanceMode, Packages |-> Packages,
    SatelliteMaintainReport |-> SatelliteMaintainReport, Restore |-> Restore, Service |-> Service,
    Update |-> Update, Upgrade |-> Upgrade, Srpm |-> Srpm, Subnet |-> Subnet,
    Subscription |-> Subscription, SyncPlan |-> SyncPlan, Task |-> Task, Template |-> Template,
    TemplateInput |-> TemplateInput, TemplateSync |-> TemplateSync, User |-> User,
    UserGroup |-> UserGroup, UserGroupExternal |-> UserGroupExternal,
    VirtWhoConfig |-> VirtWhoConfig, Webhook |-> Webhook]
=============================================================================
