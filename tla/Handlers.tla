------------------------------ MODULE Handlers ------------------------------
(***************************************************************************)
(* What the handler of each method answers, by what became of its request  *)
(* at the other side (OpenStack, FORC, BiBiGrid, the metadata server, or   *)
(* the client's own memory):                                               *)
(*   lookup    the server or volume it is about was not found before, or   *)
(*             could not be looked up;                                       *)
(*   done      it was carried out;                                         *)
(*   absent    what it addresses does not exist;                           *)
(*   missed    so it turns out when something has been changed already;    *)
(*   conflict  OpenStack refused it because of the state of the resource;  *)
(*   refused   it was refused for another reason, or deactivated;          *)
(*   slow      no answer came in time, and it may have been carried out;   *)
(*   broken    the answer was a server error, could not be read or did not *)
(*             come, and it may have been carried out.                     *)
(* A definition named after a method gives, for each of these outcomes,    *)
(* the set of answers the method of VirtualMachineHandler and the method   *)
(* of the connector it calls can end with; no answer: the outcome cannot   *)
(* happen, or the handler never ends.                                      *)
(***************************************************************************)
EXTENDS FiniteSets

Outcome ==
  {"lookup", "done", "absent", "missed", "conflict", "refused", "slow", "broken"}

\* A Python value: its class, the class of what it holds, the pairs of
\* structure and field that are None, and whether a field or an element is of
\* another class than the structures of ttypes.py declare.
Value(class, of) == [class |-> class, of |-> of, lacks |-> {}, odd |-> FALSE]
Without(value, structure, field) ==
  [value EXCEPT !.lacks = @ \cup {<<structure, field>>}]
Odd(value) == [value EXCEPT !.odd = TRUE]

None == Value("NoneType", "")
Str == Value("str", "")
Int == Value("int", "i32")
Boolean == Value("bool", "")
Dict == Value("dict", "str")
List(of) == Value("list", of)

\* Answers: a value, a value whose content tells of the failure, an exception,
\* an exception with a field of the wrong class.  "Exception" stands for every
\* class that ttypes.py does not define.
Gives(value) == [raises |-> "", value |-> value, fails |-> FALSE]
Reports(value) == [Gives(value) EXCEPT !.fails = TRUE]
Raises(exception) == [raises |-> exception, value |-> Value(exception, ""), fails |-> TRUE]
RaisesOdd(exception) == [Raises(exception) EXCEPT !.value = Odd(@)]

Fault == Raises("Exception")
Conflict == Raises("OpenStackConflictException")
Default == Raises("DefaultException")
ServerNotFound == Raises("ServerNotFoundException")
VolumeNotFound == Raises("VolumeNotFoundException")
ImageNotFound == Raises("ImageNotFoundException")
FlavorNotFound == Raises("FlavorNotFoundException")

Returns == {Gives(None)}

-----------------------------------------------------------------------------
(* Shapes of handlers                                                      *)

\* Every outcome, spelled out; most handlers look up nothing.
Ends(done, absent, conflict, refused, slow, broken) ==
  [lookup |-> {}, done |-> done, absent |-> absent, missed |-> {}, conflict |-> conflict,
   refused |-> refused, slow |-> slow, broken |-> broken]

\* The answer comes from the client's memory.
Local(answers) == Ends(answers, {}, {}, {}, {}, {})

\* Whatever happens at the other side, the answer is one of these.
Always(answers) == Ends(answers, answers, {}, answers, answers, answers)

\* A handler that lets what the SDK raises pass.
Passes(done, absent, conflict) ==
  Ends(done, absent, conflict, {Fault}, {Fault}, {Fault})

\* A handler that calls get_server() first, which makes a DefaultException of
\* what the SDK raises, and then lets the rest pass.
AfterServer(done, absent, conflict) ==
  [Passes(done, absent, conflict) EXCEPT !.lookup = {ServerNotFound, Default, Fault}]

-----------------------------------------------------------------------------
(* What thrift_converter.py makes of the objects of the SDK                *)
\* An image of OpenStack need not have a name.
os_to_thrift_image == {Value("Image", ""), Without(Value("Image", ""), "Image", "name")}
os_to_thrift_images == {List("Image"), Without(List("Image"), "Image", "name")}
\* A flavor without a name gets one.
os_to_thrift_flavors == {List("Flavor")}
os_to_thrift_volume == {Value("Volume", "")}
os_to_thrift_volume_snapshot == {Value("Snapshot", "")}
\* A server started without a key pair has no key name.
os_to_thrift_server ==
  {Value("VM", ""), Without(Value("VM", ""), "VM", "keyname"),
   Without(Value("VM", ""), "Image", "name")}
os_to_thrift_servers ==
  {List("VM"), Without(List("VM"), "VM", "keyname"), Without(List("VM"), "Image", "name")}
GivesAny(values) == {Gives(v) : v \in values}
-----------------------------------------------------------------------------
(* Methods the handler does not define: those of Iface return None         *)
is_version == Local(Returns)
get_client_version == Local(Returns)
scale_up_cluster == Ends({}, Returns, {}, Returns, {}, {})
detach_ip_from_server == Ends({}, Returns, {}, Returns, {}, {})
-----------------------------------------------------------------------------
(* Answers from memory                                                     *)
get_gateway_ip == Local({Gives(Dict)})
get_calculation_values == Local({Gives(Dict)})
get_forc_access_url == Local({Gives(Str)})
has_forc == Local({Gives(Boolean)})
get_allowed_templates == Local({Gives(List("ResearchEnvironmentTemplate"))})
-----------------------------------------------------------------------------
(* Servers                                                                 *)
get_server ==
  Ends(GivesAny(os_to_thrift_server), {ServerNotFound}, {}, {Default}, {Default, Fault},
       {Default, Fault})
\* refused: several servers have the name.
get_server_by_unique_name ==
  Ends(GivesAny(os_to_thrift_server), {ServerNotFound}, {}, {Default, Fault}, {Fault},
       {Fault})
get_servers == Passes(GivesAny(os_to_thrift_servers), {}, {})
\* A server that cannot be fetched is left out of the list.
get_servers_by_ids ==
  LET listed == GivesAny(os_to_thrift_servers)
  IN Ends(listed, listed, {}, listed \cup {Fault}, listed \cup {Fault},
          listed \cup {Fault})
get_servers_by_bibigrid_id == Passes(GivesAny(os_to_thrift_servers), {}, {})
get_server_console == Passes({Gives(Str)}, {ServerNotFound}, {})
exist_server == Always({Gives(Boolean)})
get_vm_ports == AfterServer({Gives(Dict)}, {}, {})
\* Fault: the server disappears after it was fetched.
stop_server == AfterServer(Returns, {Fault}, {Conflict})
reboot_server == AfterServer(Returns, {Fault}, {Conflict})
reboot_hard_server == reboot_server
reboot_soft_server == reboot_server
resume_server == AfterServer(Returns, {Fault}, {Conflict})
rescue_server == AfterServer(Returns, {Fault}, {Conflict})
unrescue_server == AfterServer(Returns, {Fault}, {Conflict})
delete_server == AfterServer(Returns, {Fault}, {Conflict})
add_metadata_to_server == AfterServer(Returns, {Fault}, {Fault})
\* missed, Fault: without an image get_image() gives None, of which an
\* attribute is read when the security groups and the key pair are made.
start_server ==
  [Ends({Gives(Str)}, {ImageNotFound, FlavorNotFound, Default}, {Default},
        {Default, Fault}, {Fault}, {Default, Fault}) EXCEPT !.missed = {Default, Fault}]
\* missed: the security groups are made before the image and the flavor are
\* looked up.
start_server_with_custom_key ==
  [Ends({Gives(Str)}, {}, {Default}, {Default, Fault}, {Fault}, {Default, Fault})
     EXCEPT !.missed = {ImageNotFound, FlavorNotFound, Default}]
add_cluster_machine == Passes({Gives(Str)}, {ImageNotFound, FlavorNotFound}, {Fault})
-----------------------------------------------------------------------------
(* Volumes and their snapshots                                             *)
get_volume == Passes(GivesAny(os_to_thrift_volume), {VolumeNotFound}, {})
get_volumes_by_ids == Passes({Gives(List("Volume"))}, {VolumeNotFound}, {})
create_volume ==
  Ends(GivesAny(os_to_thrift_volume), {Fault}, {Fault},
       {Raises("ResourceNotAvailableException"), Fault}, {Fault}, {Fault})
create_volume_by_source_volume ==
  Ends(GivesAny(os_to_thrift_volume), {Fault}, {Fault},
       {Raises("ResourceNotAvailableException"), Fault}, {Fault}, {Fault})
create_volume_by_volume_snap ==
  Ends(GivesAny(os_to_thrift_volume), {Fault}, {Fault},
       {Raises("ResourceNotAvailableException"), Fault}, {Fault}, {Fault})
attach_volume_to_server == AfterServer({Gives(Dict)}, {VolumeNotFound}, {Conflict})
detach_volume ==
  [AfterServer(Returns, {Fault}, {Conflict}) EXCEPT !.lookup = @ \cup {VolumeNotFound}]
resize_volume ==
  Ends(Returns, {VolumeNotFound}, {Default}, {Default}, {Fault}, {Default, Fault})
\* conflict: an OpenStackCloudException is raised, which the interface does not know.
delete_volume ==
  Ends(Returns, {VolumeNotFound}, {Fault}, {Default}, {Fault}, {Default, Fault})
create_volume_snapshot ==
  Ends({Gives(Str)}, {VolumeNotFound}, {Default}, {Default}, {Default, Fault},
       {Default, Fault})
get_volume_snapshot ==
  Passes(GivesAny(os_to_thrift_volume_snapshot), {VolumeNotFound}, {})
delete_volume_snapshot ==
  Ends(Returns, {Raises("SnapshotNotFoundException")}, {Fault}, {Default}, {Fault},
       {Default, Fault})
-----------------------------------------------------------------------------
(* Images and flavors                                                      *)
get_images == Passes(GivesAny(os_to_thrift_images), {}, {})
get_public_images == Passes(GivesAny(os_to_thrift_images), {}, {})
get_private_images == Passes(GivesAny(os_to_thrift_images), {}, {})
\* refused: the image is not active.
get_image ==
  Ends(GivesAny(os_to_thrift_image), {ImageNotFound}, {}, {ImageNotFound, Fault}, {Fault},
       {Fault})
get_flavors == Passes(GivesAny(os_to_thrift_flavors), {}, {})
create_snapshot ==
  Ends({Gives(Str)}, {Default}, {Conflict}, {Default}, {Fault}, {Default, Fault})
\* Every exception, its own ImageNotFoundException too, becomes a DefaultException.
delete_image == Ends(Returns, {Default}, {Default}, {Default}, {Default}, {Default})
-----------------------------------------------------------------------------
(* Key pairs and limits                                                    *)
\* The key pair itself is returned where the interface has a string.
import_keypair == Passes({Gives(Value("Keypair", ""))}, {}, {Fault})
get_keypair_public_key_by_name == Passes({Gives(Str)}, {Gives(Str)}, {})
delete_keypair == Passes(Returns, Returns, {})
get_limits == Passes({Gives(Dict)}, {}, {})
is_openstack_connection_available == Always({Gives(Boolean)})
-----------------------------------------------------------------------------
(* Security groups                                                         *)
add_default_security_groups_to_server == AfterServer(Returns, {}, {Fault})
delete_security_group_rule == Passes(Returns, {Default}, {Fault})
remove_security_groups_from_server == AfterServer(Returns, {Fault}, {Conflict})
\* refused: the ethertype is compared when the groups are made and attached.
open_port_range_for_vm_in_project ==
  [AfterServer({Gives(Str)}, {}, {Conflict, Fault}) EXCEPT !.refused = {Default, Fault}]
add_research_environment_security_group == AfterServer(Returns, {Default}, {Fault})
add_project_security_group_to_server == AfterServer(Returns, {}, {Fault})
add_udp_security_group == AfterServer(Returns, {}, {Fault})
get_security_group_id_by_name ==
  Passes({Gives(Str)}, {Raises("SecurityGroupNotFoundException")}, {})
-----------------------------------------------------------------------------
(* FORC                                                                    *)
\* refused: the template update goes on too long (-1), or the ssh port is closed (None).
create_and_deploy_playbook ==
  [Ends({Gives(Int)}, {ServerNotFound}, {}, {Reports(Int), Fault} \cup Returns, {Fault},
        {Fault}) EXCEPT !.lookup = {Default, Fault}]
get_playbook_logs ==
  Ends({Gives(Value("PlaybookResult", ""))}, {Raises("PlaybookNotFoundException")}, {},
       {Fault}, {Fault}, {Fault})
\* The exception of the request is put into the message, where the interface has a string.
create_backend ==
  LET failed == {RaisesOdd("DefaultException")}
  IN Ends({Gives(Value("Backend", ""))}, {Raises("TemplateNotFoundException")}, {},
          failed, failed, failed)
get_backends ==
  Ends({Gives(List("Backend"))}, {}, {}, {Default, Fault}, {Default}, {Fault})
get_backends_by_template ==
  Ends({Gives(List("Backend"))}, {}, {}, {Default, Fault}, {Default}, {Fault})
get_backends_by_owner ==
  Ends({Gives(List("Backend"))}, {}, {}, {Default, Fault}, {Default}, {Fault})
get_backend_by_id ==
  Ends({Gives(Value("Backend", ""))}, {Fault}, {}, {Fault}, {Default}, {Default, Fault})
\* Only 404 and 500 raise; every other status ends like success.
delete_backend ==
  LET notFound == {Raises("BackendNotFoundException")}
  IN Ends(Returns, notFound, {}, Returns, {Default}, notFound \cup Returns \cup {Fault})
\* The JSON of the answer is returned whatever its status; the identifier of the
\* backend, an integer, is put into the exception.
add_user_to_backend ==
  LET answered == {Reports(Dict), Reports(Odd(Dict)), RaisesOdd("BackendNotFoundException")}
  IN Ends({Gives(Dict)}, answered, {}, answered, {Reports(Dict)}, answered)
delete_user_from_backend ==
  LET answered == {Reports(Dict), Reports(Odd(Dict)), RaisesOdd("BackendNotFoundException")}
  IN Ends({Gives(Dict)}, answered, {}, answered, {Reports(Dict)}, answered)
\* The JSON of the answer, a list, is the only element of the list returned.
get_users_from_backend ==
  LET users == Gives(Odd(List("str")))
  IN Ends({users}, {users}, {}, {users, Reports(List("str"))}, {Reports(List("str"))},
          {users, Fault})
activate_auth_for_backend ==
  LET failed == {RaisesOdd("BackendNotFoundException")}
  IN Ends({Gives(Value("Backend", ""))}, failed, {}, failed, {Reports(Dict)}, failed)
deactivate_auth_for_backend ==
  LET failed == {RaisesOdd("BackendNotFoundException")}
  IN Ends({Gives(Value("Backend", ""))}, failed, {}, failed, {Reports(Dict)}, failed)
-----------------------------------------------------------------------------
(* The metadata server and the flavor exporter                             *)
set_metadata_server_data == Always(Returns)
remove_metadata_server_data == Always(Returns)
is_metadata_server_available == Always({Gives(Boolean)})
get_flavor_resources == Always({Gives(List("FlavorResource"))})
-----------------------------------------------------------------------------
(* BiBiGrid                                                                *)
get_cluster_supported_ubuntu_os_versions == Always({Gives(List("str"))})
is_bibigrid_available == Always({Gives(Boolean)})
get_cluster_info ==
  LET notFound == {Raises("ClusterNotFoundException")}
  IN Ends({Gives(Value("ClusterInfo", "")), Fault}, notFound, {}, notFound, {Fault},
          {Fault})
\* An answer of status 404 raises before the status is compared with 200.
get_cluster_state ==
  LET state == Value("ClusterState", "")
  IN Passes({Gives(state), Gives(Without(state, "ClusterState", "state")), Fault},
            {Fault}, {})
\* slow: the request has no timeout.
get_cluster_log ==
  LET error == {Reports(Dict)}
  IN Ends({Gives(Value("ClusterLog", "")), Fault}, error, {}, error, {}, error)
start_cluster == Passes({Gives(Value("ClusterMessage", ""))}, {}, {})
\* Whatever JSON comes back is the answer, and the method returns nothing.
terminate_cluster ==
  LET answered == Returns \cup {Fault}
  IN Ends(answered, answered, {}, answered, {Fault}, {Fault})
-----------------------------------------------------------------------------
(* All of them                                                             *)

\* The answers of every method of the interface.
Answers ==
  [is_version |-> is_version, get_client_version |-> get_client_version,
   get_gateway_ip |-> get_gateway_ip,
   get_calculation_values |-> get_calculation_values,
   import_keypair |-> import_keypair, get_vm_ports |-> get_vm_ports,
   add_udp_security_group |-> add_udp_security_group,
   add_research_environment_security_group |-> add_research_environment_security_group,
   add_project_security_group_to_server |-> add_project_security_group_to_server,
   add_metadata_to_server |-> add_metadata_to_server, get_flavors |-> get_flavors,
   get_images |-> get_images, get_public_images |-> get_public_images,
   get_private_images |-> get_private_images, get_image |-> get_image,
   get_volume |-> get_volume, get_volumes_by_ids |-> get_volumes_by_ids,
   resize_volume |-> resize_volume,
   open_port_range_for_vm_in_project |-> open_port_range_for_vm_in_project,
   delete_security_group_rule |-> delete_security_group_rule,
   remove_security_groups_from_server |-> remove_security_groups_from_server,
   delete_server |-> delete_server, rescue_server |-> rescue_server,
   unrescue_server |-> unrescue_server, start_server |-> start_server,
   is_bibigrid_available |-> is_bibigrid_available,
   is_openstack_connection_available |-> is_openstack_connection_available,
   detach_ip_from_server |-> detach_ip_from_server,
   start_server_with_custom_key |-> start_server_with_custom_key,
   exist_server |-> exist_server,
   create_and_deploy_playbook |-> create_and_deploy_playbook,
   get_playbook_logs |-> get_playbook_logs, has_forc |-> has_forc,
   get_forc_access_url |-> get_forc_access_url, create_backend |-> create_backend,
   get_backends |-> get_backends, get_backends_by_owner |-> get_backends_by_owner,
   get_backends_by_template |-> get_backends_by_template,
   get_backend_by_id |-> get_backend_by_id,
   set_metadata_server_data |-> set_metadata_server_data,
   remove_metadata_server_data |-> remove_metadata_server_data,
   is_metadata_server_available |-> is_metadata_server_available,
   delete_backend |-> delete_backend, add_user_to_backend |-> add_user_to_backend,
   get_users_from_backend |-> get_users_from_backend,
   delete_user_from_backend |-> delete_user_from_backend,
   activate_auth_for_backend |-> activate_auth_for_backend,
   deactivate_auth_for_backend |-> deactivate_auth_for_backend,
   get_allowed_templates |-> get_allowed_templates, get_servers |-> get_servers,
   get_servers_by_ids |-> get_servers_by_ids,
   get_cluster_supported_ubuntu_os_versions |-> get_cluster_supported_ubuntu_os_versions,
   get_servers_by_bibigrid_id |-> get_servers_by_bibigrid_id,
   get_security_group_id_by_name |-> get_security_group_id_by_name,
   scale_up_cluster |-> scale_up_cluster, add_cluster_machine |-> add_cluster_machine,
   get_cluster_info |-> get_cluster_info, get_cluster_log |-> get_cluster_log,
   get_cluster_state |-> get_cluster_state,
   get_keypair_public_key_by_name |-> get_keypair_public_key_by_name,
   delete_keypair |-> delete_keypair,
   add_default_security_groups_to_server |-> add_default_security_groups_to_server,
   get_server_console |-> get_server_console, get_server |-> get_server,
   get_server_by_unique_name |-> get_server_by_unique_name,
   stop_server |-> stop_server, create_snapshot |-> create_snapshot,
   get_limits |-> get_limits, get_flavor_resources |-> get_flavor_resources,
   start_cluster |-> start_cluster, terminate_cluster |-> terminate_cluster,
   delete_image |-> delete_image, detach_volume |-> detach_volume,
   delete_volume |-> delete_volume,
   attach_volume_to_server |-> attach_volume_to_server,
   resume_server |-> resume_server, create_volume |-> create_volume,
   create_volume_by_source_volume |-> create_volume_by_source_volume,
   create_volume_by_volume_snap |-> create_volume_by_volume_snap,
   create_volume_snapshot |-> create_volume_snapshot,
   get_volume_snapshot |-> get_volume_snapshot,
   delete_volume_snapshot |-> delete_volume_snapshot,
   reboot_hard_server |-> reboot_hard_server,
   reboot_soft_server |-> reboot_soft_server]

\* The methods that change something at the other side.
Changing ==
  {"start_server", "start_server_with_custom_key", "add_cluster_machine", "stop_server",
   "reboot_hard_server", "reboot_soft_server", "resume_server", "rescue_server",
   "unrescue_server", "delete_server", "add_metadata_to_server", "create_volume",
   "create_volume_by_source_volume", "create_volume_by_volume_snap", "delete_volume",
   "attach_volume_to_server", "detach_volume", "resize_volume", "create_volume_snapshot",
   "delete_volume_snapshot", "create_snapshot", "delete_image", "import_keypair",
   "delete_keypair", "add_default_security_groups_to_server",
   "delete_security_group_rule", "remove_security_groups_from_server",
   "open_port_range_for_vm_in_project", "add_research_environment_security_group",
   "add_project_security_group_to_server", "add_udp_security_group",
   "create_and_deploy_playbook", "create_backend", "delete_backend",
   "add_user_to_backend", "delete_user_from_backend", "activate_auth_for_backend",
   "deactivate_auth_for_backend", "set_metadata_server_data",
   "remove_metadata_server_data", "start_cluster", "terminate_cluster",
   "scale_up_cluster", "detach_ip_from_server"}

\* The methods that change something in more than one step, of which a later
\* one can still fail: security groups of a started or deleted server, of a
\* port; the key pair of a started server; tags of a snapshot; the wait for a
\* volume snapshot.
FailsLate ==
  {"create_snapshot", "delete_server", "remove_security_groups_from_server",
   "start_server", "start_server_with_custom_key", "create_volume_snapshot",
   "open_port_range_for_vm_in_project"}

\* The methods of OpenStack that only read, by GET.
Reading ==
  {"get_server", "get_server_by_unique_name", "get_servers", "get_servers_by_ids",
   "get_servers_by_bibigrid_id", "exist_server", "get_vm_ports", "get_volume",
   "get_volumes_by_ids", "get_volume_snapshot", "get_images", "get_public_images",
   "get_private_images", "get_image", "get_flavors", "get_keypair_public_key_by_name",
   "get_limits", "is_openstack_connection_available", "get_security_group_id_by_name"}

\* Those that end with a DELETE, of something that exists once, or of what a
\* name or a volume stands for at the moment.  A server is deleted by a POST.
DeletingById ==
  {"delete_volume", "delete_volume_snapshot", "delete_image",
   "delete_security_group_rule"}
DeletingByName == {"delete_keypair", "detach_volume"}

\* The methods of BiBiGrid and of the flavor exporter.
Retrying ==
  {"get_cluster_supported_ubuntu_os_versions", "is_bibigrid_available",
   "get_cluster_info", "get_cluster_state", "get_cluster_log", "start_cluster",
   "terminate_cluster", "get_flavor_resources"}

\* A mutant of Repeats: the metadata server by the session of BiBiGrid.
RepeatsMetadata(method) ==
  IF method \in Reading \cup DeletingById \cup DeletingByName \cup Retrying
       \cup {"set_metadata_server_data", "remove_metadata_server_data"}
  THEN 3 ELSE 0

\* How often the session of the connector repeats a request whose answer is
\* lost, and that of BiBiGrid after a server error, too.  The session of
\* OpenStack repeats no POST, that of FORC nothing.
Repeats(method) ==
  IF method \in Reading \cup DeletingById \cup DeletingByName \cup Retrying
  THEN 3 ELSE 0

=============================================================================
