----------------------------- MODULE Interface -----------------------------
(***************************************************************************)
(* The Thrift interface between the portal and the client: the structures  *)
(* and exceptions of ttypes.py and, for each method, the classes X_args    *)
(* and X_result of VirtualMachineService.py.  A definition keeps what the  *)
(* generated read, write and validate tell apart: the types of the fields, *)
(* which of them must be set, and which exceptions can be written.  Names  *)
(* and numbers of arguments on the wire are abstracted.                    *)
(***************************************************************************)
EXTENDS FiniteSets

-----------------------------------------------------------------------------
(* Types.  "of" is the class of what a list, or the values of a map, hold. *)
Type(class, of) == [class |-> class, of |-> of]
Text == Type("str", "")
I32 == Type("int", "i32")
I64 == Type("int", "i64")
Double == Type("float", "")
Bool == Type("bool", "")
Void == Type("void", "")
ListOf(element) == Type("list", element)
MapTo(value) == Type("dict", value)
Struct(structure) == Type(structure, "")

\* A structure: its fields, and those whose absence validate() refuses.
Structure(fields, required) == [fields |-> fields, required |-> required]

\* A method: its arguments, the type of "success", the declared exceptions.
Method(args, result, raises) == [args |-> args, result |-> result, raises |-> raises]

-----------------------------------------------------------------------------
(* Structures                                                              *)
MetadataUser ==
  Structure([user_id |-> Text, public_keys |-> ListOf("str"), unix_name |-> Text],
            {"user_id"})
MetadataUserData == Structure([data |-> MapTo("MetadataUser")], {"data"})
VirtualMachineServerMetadata ==
  Structure([ip |-> Text, hashed_auth_token |-> Text,
             userdata |-> Struct("MetadataUserData")],
            {"ip", "hashed_auth_token"})
Backend ==
  Structure([id |-> I64, owner |-> Text, location_url |-> Text, template |-> Text,
             template_version |-> Text, auth_enabled |-> Bool],
            {})
ResearchEnvironmentTemplate ==
  Structure([template_name |-> Text, title |-> Text, description |-> Text,
             logo_url |-> Text, info_url |-> Text, port |-> I32,
             incompatible_versions |-> ListOf("str"), is_maintained |-> Bool,
             information_for_display |-> MapTo("str"), min_ram |-> I32, min_cores |-> I32,
             securitygroup_name |-> Text, allow_disable_auth |-> Bool,
             create_only_backend |-> Bool],
            {})
CondaPackage ==
  Structure([build |-> Text, build_number |-> Text, name |-> Text, version |-> Text,
             home |-> Text],
            {})
Volume ==
  Structure([id |-> Text, name |-> Text, description |-> Text, status |-> Text,
             created_at |-> Text, device |-> Text, size |-> I32, server_id |-> Text],
            {})
Snapshot ==
  Structure([id |-> Text, name |-> Text, description |-> Text, status |-> Text,
             created_at |-> Text, size |-> I32, volume_id |-> Text],
            {})
Flavor ==
  Structure([vcpus |-> I32, ram |-> I32, disk |-> I32, name |-> Text,
             description |-> Text, ephemeral_disk |-> I32],
            {"vcpus", "ram", "disk", "name"})
FlavorResource ==
  Structure([id |-> Text, name |-> Text, available |-> I32, total |-> I32, cores |-> I32,
             mem |-> I32, type |-> Text, gpu_type |-> Text, gpu_count |-> I32,
             root_disk |-> I32, ephemeral_disk |-> I32],
            {"id", "name", "available", "total", "cores", "mem", "type"})
Image ==
  Structure([name |-> Text, min_disk |-> I32, min_ram |-> I32, status |-> Text,
             created_at |-> Text, updated_at |-> Text, openstack_id |-> Text,
             description |-> Text, tags |-> ListOf("str"), is_snapshot |-> Bool,
             os_version |-> Text, os_distro |-> Text, title |-> Text,
             slurm_version |-> Text],
            {"name", "min_disk", "min_ram", "status", "openstack_id", "tags"})
VM ==
  Structure([flavor |-> Struct("Flavor"), image |-> Struct("Image"),
             metadata |-> MapTo("str"), project_id |-> Text, keyname |-> Text,
             openstack_id |-> Text, name |-> Text, created_at |-> Text,
             floating_ip |-> Text, fixed_ip |-> Text, task_state |-> Text,
             vm_state |-> Text, attached_volume_ids |-> ListOf("str")],
            {"keyname", "openstack_id", "name", "created_at", "fixed_ip", "vm_state"})
ClusterInstanceMetadata ==
  Structure([user_id |-> Text, project_id |-> Text, project_name |-> Text],
            {"user_id", "project_id", "project_name"})
ClusterInstance ==
  Structure([type |-> Text, image |-> Text, onDemand |-> Bool,
             volumes |-> ListOf("ClusterVolume")],
            {"type", "image"})
ClusterVolume ==
  Structure([openstack_id |-> Text, permanent |-> Bool, exists |-> Bool, size |-> I32,
             type |-> Text, mount_path |-> Text],
            {"permanent", "exists", "size", "mount_path"})
ClusterMessage ==
  Structure([message |-> Text, cluster_id |-> Text], {"message", "cluster_id"})
ClusterInfo ==
  Structure([message |-> Text, cluster_id |-> Text, ready |-> Bool],
            {"message", "cluster_id", "ready"})
ClusterState ==
  Structure([cluster_id |-> Text, message |-> Text, state |-> Text, ssh_user |-> Text,
             floating_ip |-> Text, last_changed |-> Text],
            {"cluster_id", "message", "state"})
ClusterLog ==
  Structure([message |-> Text, cluster_id |-> Text, log |-> Text],
            {"message", "cluster_id", "log"})
PlaybookResult ==
  Structure([status |-> I32, stdout |-> Text, stderr |-> Text],
            {"status", "stdout", "stderr"})

-----------------------------------------------------------------------------
(* Exceptions                                                              *)
MetadataServerNotAvailableException == Structure([message |-> Text], {})
MetadataServerNotAllowedException == Structure([message |-> Text], {})
ResourceNotFoundException ==
  Structure([message |-> Text, resource_type |-> Text, name_or_id |-> Text], {})
ResourceNotAvailableException == Structure([message |-> Text], {})
TemplateNotFoundException == Structure([message |-> Text, template |-> Text], {})
NameAlreadyUsedException == Structure([message |-> Text, name |-> Text], {})
ServerNotFoundException == Structure([message |-> Text, name_or_id |-> Text], {})
SecurityGroupNotFoundException == Structure([message |-> Text, name_or_id |-> Text], {})
SecurityGroupRuleNotFoundException ==
  Structure([message |-> Text, name_or_id |-> Text], {})
FlavorNotFoundException == Structure([message |-> Text, name_or_id |-> Text], {})
VolumeNotFoundException == Structure([message |-> Text, name_or_id |-> Text], {})
SnapshotNotFoundException == Structure([message |-> Text, name_or_id |-> Text], {})
ImageNotFoundException == Structure([message |-> Text, name_or_id |-> Text], {})
ClusterNotFoundException == Structure([message |-> Text, name_or_id |-> Text], {})
BackendNotFoundException == Structure([message |-> Text, name_or_id |-> Text], {})
PlaybookNotFoundException == Structure([message |-> Text, name_or_id |-> Text], {})
DefaultException == Structure([message |-> Text], {})
OpenStackConflictException == Structure([message |-> Text], {})

Structures ==
  [MetadataUser |-> MetadataUser, MetadataUserData |-> MetadataUserData,
   VirtualMachineServerMetadata |-> VirtualMachineServerMetadata, Backend |-> Backend,
   ResearchEnvironmentTemplate |-> ResearchEnvironmentTemplate,
   CondaPackage |-> CondaPackage, Volume |-> Volume, Snapshot |-> Snapshot,
   Flavor |-> Flavor, FlavorResource |-> FlavorResource, Image |-> Image, VM |-> VM,
   ClusterInstanceMetadata |-> ClusterInstanceMetadata,
   ClusterInstance |-> ClusterInstance, ClusterVolume |-> ClusterVolume,
   ClusterMessage |-> ClusterMessage, ClusterInfo |-> ClusterInfo,
   ClusterState |-> ClusterState, ClusterLog |-> ClusterLog,
   PlaybookResult |-> PlaybookResult]

Exceptions ==
  [MetadataServerNotAvailableException |-> MetadataServerNotAvailableException,
   MetadataServerNotAllowedException |-> MetadataServerNotAllowedException,
   ResourceNotFoundException |-> ResourceNotFoundException,
   ResourceNotAvailableException |-> ResourceNotAvailableException,
   TemplateNotFoundException |-> TemplateNotFoundException,
   NameAlreadyUsedException |-> NameAlreadyUsedException,
   ServerNotFoundException |-> ServerNotFoundException,
   SecurityGroupNotFoundException |-> SecurityGroupNotFoundException,
   SecurityGroupRuleNotFoundException |-> SecurityGroupRuleNotFoundException,
   FlavorNotFoundException |-> FlavorNotFoundException,
   VolumeNotFoundException |-> VolumeNotFoundException,
   SnapshotNotFoundException |-> SnapshotNotFoundException,
   ImageNotFoundException |-> ImageNotFoundException,
   ClusterNotFoundException |-> ClusterNotFoundException,
   BackendNotFoundException |-> BackendNotFoundException,
   PlaybookNotFoundException |-> PlaybookNotFoundException,
   DefaultException |-> DefaultException,
   OpenStackConflictException |-> OpenStackConflictException]

-----------------------------------------------------------------------------
(* Methods                                                                 *)
is_version == Method(<<Double>>, Bool, {})
get_client_version == Method(<<>>, Text, {})
get_gateway_ip == Method(<<>>, MapTo("str"), {})
get_calculation_values == Method(<<>>, MapTo("str"), {})
import_keypair == Method(<<Text, Text>>, Text, {})
get_vm_ports == Method(<<Text>>, MapTo("str"), {"ServerNotFoundException"})
add_udp_security_group ==
  Method(<<Text>>, Void, {"DefaultException", "ServerNotFoundException"})
add_research_environment_security_group ==
  Method(<<Text, Text>>, Void, {"DefaultException", "ServerNotFoundException"})
add_project_security_group_to_server ==
  Method(<<Text, Text, Text>>, Void, {"DefaultException", "ServerNotFoundException"})
add_metadata_to_server ==
  Method(<<Text, MapTo("str")>>, Void, {"DefaultException", "ServerNotFoundException"})
get_flavors == Method(<<>>, ListOf("Flavor"), {})
get_images == Method(<<>>, ListOf("Image"), {})
get_public_images == Method(<<>>, ListOf("Image"), {})
get_private_images == Method(<<>>, ListOf("Image"), {})
get_image == Method(<<Text, Bool>>, Struct("Image"), {"ImageNotFoundException"})
get_volume == Method(<<Text>>, Struct("Volume"), {"VolumeNotFoundException"})
get_volumes_by_ids == Method(<<ListOf("str")>>, ListOf("Volume"), {})
resize_volume == Method(<<Text, I32>>, Void, {"VolumeNotFoundException"})
open_port_range_for_vm_in_project ==
  Method(<<I32, I32, Text, Text, Text>>,
         Text, {"ServerNotFoundException", "DefaultException",
                "OpenStackConflictException"})
delete_security_group_rule ==
  Method(<<Text>>, Void, {"SecurityGroupRuleNotFoundException", "DefaultException"})
remove_security_groups_from_server ==
  Method(<<Text>>,
         Void, {"SecurityGroupRuleNotFoundException", "OpenStackConflictException"})
delete_server ==
  Method(<<Text>>, Void, {"ServerNotFoundException", "OpenStackConflictException"})
rescue_server ==
  Method(<<Text, Text, Text>>,
         Void, {"ServerNotFoundException", "OpenStackConflictException"})
unrescue_server ==
  Method(<<Text>>, Void, {"ServerNotFoundException", "OpenStackConflictException"})
start_server ==
  Method(<<Text, Text, Text, Text, MapTo("str"), ListOf("dict"), ListOf("dict"),
           ListOf("str"), ListOf("str"), Text, ListOf("str"), Text, Text, Text, Text>>,
         Text, {"NameAlreadyUsedException", "ResourceNotAvailableException",
                "ImageNotFoundException", "FlavorNotFoundException", "DefaultException"})
is_bibigrid_available == Method(<<>>, Bool, {})
is_openstack_connection_available == Method(<<>>, Bool, {})
detach_ip_from_server == Method(<<Text, Text>>, Void, {"ServerNotFoundException"})
start_server_with_custom_key ==
  Method(<<Text, Text, Text, MapTo("str"), Text, ListOf("dict"), ListOf("dict"),
           ListOf("str"), ListOf("str"), ListOf("str"), Text, Text, Text>>,
         Text, {"NameAlreadyUsedException", "ResourceNotAvailableException",
                "ImageNotFoundException", "FlavorNotFoundException", "DefaultException"})
exist_server == Method(<<Text>>, Bool, {})
create_and_deploy_playbook ==
  Method(<<Text, Text, ListOf("CondaPackage"), Text, ListOf("str"), Bool, Text>>,
         I32, {"ServerNotFoundException"})
get_playbook_logs ==
  Method(<<Text>>, Struct("PlaybookResult"), {"PlaybookNotFoundException"})
has_forc == Method(<<>>, Bool, {})
get_forc_access_url == Method(<<>>, Text, {})
create_backend ==
  Method(<<Text, Text, Text, Text>>,
         Struct("Backend"), {"TemplateNotFoundException", "DefaultException"})
get_backends == Method(<<>>, ListOf("Backend"), {"DefaultException"})
get_backends_by_owner == Method(<<Text>>, ListOf("Backend"), {"DefaultException"})
get_backends_by_template == Method(<<Text>>, ListOf("Backend"), {"DefaultException"})
get_backend_by_id ==
  Method(<<I64>>, Struct("Backend"), {"BackendNotFoundException", "DefaultException"})
set_metadata_server_data ==
  Method(<<Text, Struct("VirtualMachineServerMetadata")>>,
         Void, {"MetadataServerNotAvailableException",
                "MetadataServerNotAllowedException"})
remove_metadata_server_data ==
  Method(<<Text>>,
         Void, {"MetadataServerNotAvailableException",
                "MetadataServerNotAllowedException"})
is_metadata_server_available ==
  Method(<<>>,
         Bool, {"MetadataServerNotAvailableException",
                "MetadataServerNotAllowedException"})
delete_backend == Method(<<I64>>, Void, {"BackendNotFoundException"})
add_user_to_backend == Method(<<I64, Text>>, MapTo("str"), {"BackendNotFoundException"})
get_users_from_backend == Method(<<I64>>, ListOf("str"), {"BackendNotFoundException"})
delete_user_from_backend ==
  Method(<<I64, Text>>, MapTo("str"), {"BackendNotFoundException"})
activate_auth_for_backend ==
  Method(<<I64>>, Struct("Backend"), {"BackendNotFoundException"})
deactivate_auth_for_backend ==
  Method(<<I64>>, Struct("Backend"), {"BackendNotFoundException"})
get_allowed_templates == Method(<<>>, ListOf("ResearchEnvironmentTemplate"), {})
get_servers == Method(<<>>, ListOf("VM"), {})
get_servers_by_ids == Method(<<ListOf("str")>>, ListOf("VM"), {})
get_cluster_supported_ubuntu_os_versions == Method(<<>>, ListOf("str"), {})
get_servers_by_bibigrid_id == Method(<<Text>>, ListOf("VM"), {})
get_security_group_id_by_name ==
  Method(<<Text>>, Text, {"SecurityGroupNotFoundException"})
scale_up_cluster ==
  Method(<<Text, Text, Text, I32, ListOf("str"), I32, I32>>, MapTo("list"), {})
add_cluster_machine ==
  Method(<<Text, Text, Text, Text, Text, Text, Text, I32, I32>>, Text, {})
get_cluster_info == Method(<<Text>>, Struct("ClusterInfo"), {"ClusterNotFoundException"})
get_cluster_log == Method(<<Text>>, Struct("ClusterLog"), {"ClusterNotFoundException"})
get_cluster_state ==
  Method(<<Text>>, Struct("ClusterState"), {"ClusterNotFoundException"})
get_keypair_public_key_by_name == Method(<<Text>>, Text, {})
delete_keypair == Method(<<Text>>, Void, {})
add_default_security_groups_to_server ==
  Method(<<Text>>, Void, {"ServerNotFoundException"})
get_server_console == Method(<<Text>>, Text, {"ServerNotFoundException"})
get_server == Method(<<Text, Bool>>, Struct("VM"), {"ServerNotFoundException"})
get_server_by_unique_name ==
  Method(<<Text, Bool>>, Struct("VM"), {"ServerNotFoundException"})
stop_server ==
  Method(<<Text>>, Void, {"ServerNotFoundException", "OpenStackConflictException"})
create_snapshot ==
  Method(<<Text, Text, Text, ListOf("str"), Text>>,
         Text, {"ServerNotFoundException", "OpenStackConflictException"})
get_limits == Method(<<>>, MapTo("str"), {})
get_flavor_resources == Method(<<>>, ListOf("FlavorResource"), {})
start_cluster ==
  Method(<<ListOf("str"), Struct("ClusterInstance"), ListOf("ClusterInstance"),
           Struct("ClusterInstanceMetadata")>>,
         Struct("ClusterMessage"), {})
terminate_cluster == Method(<<Text>>, Void, {"ClusterNotFoundException"})
delete_image == Method(<<Text>>, Void, {"ImageNotFoundException"})
detach_volume ==
  Method(<<Text, Text>>,
         Void, {"ServerNotFoundException", "OpenStackConflictException",
                "VolumeNotFoundException"})
delete_volume ==
  Method(<<Text>>, Void, {"OpenStackConflictException", "VolumeNotFoundException"})
attach_volume_to_server ==
  Method(<<Text, Text>>,
         MapTo("str"), {"VolumeNotFoundException", "OpenStackConflictException"})
resume_server ==
  Method(<<Text>>, Void, {"ServerNotFoundException", "OpenStackConflictException"})
create_volume ==
  Method(<<Text, I32, MapTo("str")>>,
         Struct("Volume"), {"DefaultException", "ResourceNotAvailableException"})
create_volume_by_source_volume ==
  Method(<<Text, MapTo("str"), Text>>,
         Struct("Volume"), {"DefaultException", "ResourceNotAvailableException"})
create_volume_by_volume_snap ==
  Method(<<Text, MapTo("str"), Text>>,
         Struct("Volume"), {"DefaultException", "ResourceNotAvailableException"})
create_volume_snapshot ==
  Method(<<Text, Text, Text>>, Text, {"VolumeNotFoundException", "DefaultException"})
get_volume_snapshot == Method(<<Text>>, Struct("Snapshot"), {"ResourceNotFoundException"})
delete_volume_snapshot ==
  Method(<<Text>>, Void, {"OpenStackConflictException", "DefaultException"})
reboot_hard_server ==
  Method(<<Text>>, Void, {"ServerNotFoundException", "OpenStackConflictException"})
reboot_soft_server ==
  Method(<<Text>>, Void, {"ServerNotFoundException", "OpenStackConflictException"})

\* The methods of the service: the process map of the generated Processor.
Methods ==
  [is_version |-> is_version, get_client_version |-> get_client_version,
   get_gateway_ip |-> get_gateway_ip, get_calculation_values |-> get_calculation_values,
   import_keypair |-> import_keypair, get_vm_ports |-> get_vm_ports,
   add_udp_security_group |-> add_udp_security_group,
   add_research_environment_security_group |-> add_research_environment_security_group,
   add_project_security_group_to_server |-> add_project_security_group_to_server,
   add_metadata_to_server |-> add_metadata_to_server, get_flavors |-> get_flavors,
   get_images |-> get_images, get_public_images |-> get_public_images,
   get_private_images |-> get_private_images, get_image |-> get_image,
   get_volume |-> get_volume, get_volumes_by_ids |-> get_volumes_by_ids,
   resize_volume |-> resize_volume,
   open_port_range_for_vm_in_project |-> open_port_range_for_vm_in_project,
   delete_security_group_rule |-> delete_security_group_rule,
   remove_security_groups_from_server |-> remove_security_groups_from_server,
   delete_server |-> delete_server, rescue_server |-> rescue_server,
   unrescue_server |-> unrescue_server, start_server |-> start_server,
   is_bibigrid_available |-> is_bibigrid_available,
   is_openstack_connection_available |-> is_openstack_connection_available,
   detach_ip_from_server |-> detach_ip_from_server,
   start_server_with_custom_key |-> start_server_with_custom_key,
   exist_server |-> exist_server,
   create_and_deploy_playbook |-> create_and_deploy_playbook,
   get_playbook_logs |-> get_playbook_logs, has_forc |-> has_forc,
   get_forc_access_url |-> get_forc_access_url, create_backend |-> create_backend,
   get_backends |-> get_backends, get_backends_by_owner |-> get_backends_by_owner,
   get_backends_by_template |-> get_backends_by_template,
   get_backend_by_id |-> get_backend_by_id,
   set_metadata_server_data |-> set_metadata_server_data,
   remove_metadata_server_data |-> remove_metadata_server_data,
   is_metadata_server_available |-> is_metadata_server_available,
   delete_backend |-> delete_backend, add_user_to_backend |-> add_user_to_backend,
   get_users_from_backend |-> get_users_from_backend,
   delete_user_from_backend |-> delete_user_from_backend,
   activate_auth_for_backend |-> activate_auth_for_backend,
   deactivate_auth_for_backend |-> deactivate_auth_for_backend,
   get_allowed_templates |-> get_allowed_templates, get_servers |-> get_servers,
   get_servers_by_ids |-> get_servers_by_ids,
   get_cluster_supported_ubuntu_os_versions |-> get_cluster_supported_ubuntu_os_versions,
   get_servers_by_bibigrid_id |-> get_servers_by_bibigrid_id,
   get_security_group_id_by_name |-> get_security_group_id_by_name,
   scale_up_cluster |-> scale_up_cluster, add_cluster_machine |-> add_cluster_machine,
   get_cluster_info |-> get_cluster_info, get_cluster_log |-> get_cluster_log,
   get_cluster_state |-> get_cluster_state,
   get_keypair_public_key_by_name |-> get_keypair_public_key_by_name,
   delete_keypair |-> delete_keypair,
   add_default_security_groups_to_server |-> add_default_security_groups_to_server,
   get_server_console |-> get_server_console, get_server |-> get_server,
   get_server_by_unique_name |-> get_server_by_unique_name, stop_server |-> stop_server,
   create_snapshot |-> create_snapshot, get_limits |-> get_limits,
   get_flavor_resources |-> get_flavor_resources, start_cluster |-> start_cluster,
   terminate_cluster |-> terminate_cluster, delete_image |-> delete_image,
   detach_volume |-> detach_volume, delete_volume |-> delete_volume,
   attach_volume_to_server |-> attach_volume_to_server, resume_server |-> resume_server,
   create_volume |-> create_volume,
   create_volume_by_source_volume |-> create_volume_by_source_volume,
   create_volume_by_volume_snap |-> create_volume_by_volume_snap,
   create_volume_snapshot |-> create_volume_snapshot,
   get_volume_snapshot |-> get_volume_snapshot,
   delete_volume_snapshot |-> delete_volume_snapshot,
   reboot_hard_server |-> reboot_hard_server, reboot_soft_server |-> reboot_soft_server]

-----------------------------------------------------------------------------
(* What the generated code can write                                       *)

\* The structures a value of structure s may hold as fields, and theirs.
Fields(s) == LET fs == Structures[s].fields
             IN {fs[f].class : f \in DOMAIN fs} \cup {fs[f].of : f \in DOMAIN fs}
Inner(names) == UNION {Fields(s) \cap DOMAIN Structures : s \in names}
Within(names) == names \cup Inner(names) \cup Inner(Inner(names))

\* The structures of which write() is called for a value of type t.
Written(t) == Within({t.class, t.of} \cap DOMAIN Structures)

\* write() of a value of type t calls validate() of each of these structures;
\* the value can be written if it has the class of the type, no required field
\* of it is None, and no field or element is of another class than declared.
\* "lacks" are the pairs of structure and field that are None.
Writable(t, value) ==
  /\ value.class = t.class
  /\ value.of = t.of
  /\ ~value.odd
  /\ \A lack \in value.lacks :
        lack[1] \in Written(t) => lack[2] \notin Structures[lack[1]].required

=============================================================================
