-------------------------------- MODULE Images --------------------------------
(***************************************************************************)
(* Images: which one a new server is booted from, and what snapshots and   *)
(* deletions do meanwhile.  The catalogue belongs to OpenStack; between    *)
(* two requests of one call, other users and other threads change it.      *)
(* get_image asks for one image, lists all of them when the name is        *)
(* ambiguous, and lists them again to replace an image that is missing or  *)
(* not active.  An action is one request to OpenStack and what the         *)
(* connector does with the answer.                                         *)
(***************************************************************************)
EXTENDS Naturals, FiniteSets

CONSTANTS
  Threads,     \* worker threads of the server
  Images,      \* images, those still to be made included
  Servers,
  Names,       \* what a call may ask for; an id is a name of one image only
  Tags, Worker,          \* tags; the tag "worker"
  Versions, Distros,     \* values of os_version and os_distro
  Ubuntu,                \* the distribution that replaces a missing image
  Slurms,                \* slurm versions a call may ask for
  Info,        \* Info[i]: what never changes of image i
  Mentioned,   \* Mentioned[n]: the first of SUPPORTED_OS_VERSIONS in n
  Unset, NoImage, NoServer, NoName,
  MaxChanges   \* bound on the changes that others make to the catalogue

ASSUME ImagesAssumption ==
  /\ Worker \in Tags
  /\ Ubuntu \in Distros
  /\ Unset \notin Versions \cup Distros \cup Slurms
  /\ NoImage \notin Images
  /\ NoServer \notin Servers
  /\ NoName \notin Names
  /\ Info \in [Images -> [name : Names, version : Versions \cup {Unset},
                          distro : Distros \cup {Unset}, slurm : Slurms \cup {Unset},
                          snapshot : BOOLEAN, created : Nat]]
  /\ Mentioned \in [Names -> Versions \cup {Unset}]
  /\ MaxChanges \in Nat

VARIABLES
  status,       \* status[i]: the state of image i
  tags,         \* tags[i]
  alive,        \* servers that exist
  task,         \* task[s]: the snapshot of s that is being taken
  changes,      \* changes by others so far
  pc,           \* per thread: next step
  kind,         \* the method that calls get_image
  ask,          \* name_or_id
  slurm,        \* slurm_version
  want,         \* os_version and os_distro of a replacement, and for which image
  image,        \* the image chosen, made or to be deleted
  todo,         \* base_tags still to be added
  srv,          \* openstack_id
  busy,         \* server.task_state, as far as it shows a snapshot
  sawActive,    \* history: images that were active at some time of the call,
  stillActive,  \* ... of the name, that were active all the time,
  sawInactive,  \* ... of the name, that were there but not active at some time
  read,         \* history: task_state as OpenStack gave it
  silent        \* history: the SSH port of the server did not answer

catalogue == <<status, tags, alive, task, changes>>
choice    == <<kind, ask, slurm, want>>
saw       == <<sawActive, stillActive, sawInactive>>
removal   == <<srv, busy, read, silent>>
vars      == <<catalogue, pc, choice, image, todo, saw, removal>>

Kinds == {"start", "playbook", "cluster"}
Steps == {"idle", "lookup", "list", "replace", "boot", "refused", "snapshot", "tag",
          "image_get", "image_delete", "read", "netcat", "delete"}

\* replace_inactive; replace_not_found and ignore_not_found.
ReplacesInactive(k) == k \in {"start", "cluster"}
ReplacesMissing(k) == k = "start"

NoWant == [version |-> Unset, distro |-> Unset, of |-> NoImage]

Active(i) == status[i] = "active"
Exists(i) == status[i] \in {"saving", "active", "deactivated"}

AllActive == {i \in Images : Active(i)}
AllInactive == {i \in Images : Exists(i) /\ ~Active(i)}

Called(n) == {i \in Images : Info[i].name = n}

\* The images OpenStack finds under the name thread t asks for.
Named(t) == {i \in Called(ask[t]) : Exists(i)}

\* Thread t has an image to choose.
Choosing(t) == pc[t] \in {"lookup", "list", "replace", "boot", "refused"}

Goto(t, s) == pc' = [pc EXCEPT ![t] = s]

\* The handler returns or raises; its locals go out of scope.
Return(t) ==
  /\ Goto(t, "idle")
  /\ kind' = [kind EXCEPT ![t] = "start"]
  /\ ask' = [ask EXCEPT ![t] = NoName]
  /\ slurm' = [slurm EXCEPT ![t] = Unset]
  /\ want' = [want EXCEPT ![t] = NoWant]
  /\ image' = [image EXCEPT ![t] = NoImage]
  /\ todo' = [todo EXCEPT ![t] = {}]
  /\ srv' = [srv EXCEPT ![t] = NoServer]
  /\ busy' = [busy EXCEPT ![t] = NoImage]
  /\ read' = [read EXCEPT ![t] = NoImage]
  /\ silent' = [silent EXCEPT ![t] = FALSE]

\* What the threads see of the catalogue, the call of t for n being new, ...
Watch(t, n) ==
  /\ sawActive' = [sawActive EXCEPT ![t] = AllActive]
  /\ stillActive' = [stillActive EXCEPT ![t] = AllActive \cap Called(n)]
  /\ sawInactive' = [sawInactive EXCEPT ![t] = AllInactive \cap Called(n)]

\* ... after a change of some status, ...
WatchAll ==
  /\ sawActive' =
       [t \in Threads |-> IF Choosing(t) THEN sawActive[t] \cup AllActive' ELSE {}]
  /\ stillActive' = [t \in Threads |-> stillActive[t] \cap AllActive']
  /\ sawInactive' =
       [t \in Threads |->
          IF Choosing(t) THEN sawInactive[t] \cup (AllInactive' \cap Called(ask[t])) ELSE {}]

\* ... and when the call is over.
End(t) ==
  /\ Return(t)
  /\ sawActive' = [sawActive EXCEPT ![t] = {}]
  /\ stillActive' = [stillActive EXCEPT ![t] = {}]
  /\ sawInactive' = [sawInactive EXCEPT ![t] = {}]

-----------------------------------------------------------------------------
(* What get_image does with what it has found                              *)

\* get_image returns i, or None.
Choose(t, i) ==
  /\ Goto(t, "boot")
  /\ image' = [image EXCEPT ![t] = i]
  /\ UNCHANGED <<choice, todo, removal>>

\* ImageNotFoundException.
Refuse(t) ==
  /\ Goto(t, "refused")
  /\ UNCHANGED <<choice, image, todo, removal>>

\* A replacement is looked for, for the inactive image i or for none at all.
Seek(t, version, distro, i) ==
  /\ Goto(t, "replace")
  /\ want' = [want EXCEPT ![t] = [version |-> version, distro |-> distro, of |-> i]]
  /\ UNCHANGED <<kind, ask, slurm, image, todo, removal>>

-----------------------------------------------------------------------------
(* Mutants: what the named definition would be with a plausible bug.  They *)
(* are not part of the specification.                                      *)

\* Missing, with ignore_not_found for every caller.
MissingIgnored(t) ==
  \/ ReplacesMissing(kind[t]) /\ Mentioned[ask[t]] # Unset
       /\ Seek(t, Mentioned[ask[t]], Ubuntu, NoImage)
  \/ ~(ReplacesMissing(kind[t]) /\ Mentioned[ask[t]] # Unset) /\ Choose(t, NoImage)

\* Fitting, that takes a snapshot for an image.
FittingAny(w) ==
  {i \in AllActive :
     /\ Info[i].version = w.version
     /\ w.distro \in {Info[i].distro, Unset}}

\* Newest, of a list that is sorted the other way round.
Oldest(set) == {i \in set : \A j \in set : Info[j].created >= Info[i].created}

-----------------------------------------------------------------------------
(* get_image                                                               *)

\* The replacements get_active_image_by_os_version accepts,
Fitting(w) ==
  {i \in AllActive :
     /\ Info[i].version = w.version
     /\ ~Info[i].snapshot
     /\ w.distro \in {Info[i].distro, Unset}}

\* ... and those of get_active_image_by_os_version_and_slurm_version.
FittingWorkers(w) ==
  {i \in AllActive :
     /\ Info[i].version = w.version
     /\ Worker \in tags[i]
     /\ w.distro = Info[i].distro /\ w.distro # Unset}

\* No image has the name.
Missing(t) ==
  \/ /\ ReplacesMissing(kind[t])
     /\ \/ Mentioned[ask[t]] # Unset /\ Seek(t, Mentioned[ask[t]], Ubuntu, NoImage)
        \/ Mentioned[ask[t]] = Unset /\ Choose(t, NoImage)
  \/ ~ReplacesMissing(kind[t]) /\ Refuse(t)

Found(t, i) ==
  \/ Active(i) /\ Choose(t, i)
  \/ /\ ~Active(i)
     /\ \/ ReplacesInactive(kind[t]) /\ Seek(t, Info[i].version, Info[i].distro, i)
        \/ ~ReplacesInactive(kind[t]) /\ Refuse(t)

\* The latest by created_at.
Newest(set) == {i \in set : \A j \in set : Info[j].created <= Info[i].created}

\* start_server, start_server_with_playbook and add_cluster_machine ask for an
\* image; only the first passes a slurm version on.
Begin(t) ==
  /\ pc[t] = "idle"
  /\ \E k \in Kinds, n \in Names, sv \in Slurms \cup {Unset} :
       /\ k # "start" => sv = Unset
       /\ kind' = [kind EXCEPT ![t] = k]
       /\ ask' = [ask EXCEPT ![t] = n]
       /\ slurm' = [slurm EXCEPT ![t] = sv]
       /\ Watch(t, n)
  /\ Goto(t, "lookup")
  /\ UNCHANGED <<catalogue, want, image, todo, removal>>

\* openstack_connection.get_image raises DuplicateResource for several images.
Lookup(t) ==
  /\ pc[t] = "lookup"
  /\ \/ /\ Cardinality(Named(t)) > 1
        /\ Goto(t, "list")
        /\ UNCHANGED <<choice, image, todo, removal, saw>>
     \/ \E i \in Images : Named(t) = {i} /\ Found(t, i) /\ UNCHANGED saw
     \/ Named(t) = {} /\ Missing(t) /\ UNCHANGED saw
     \/ End(t)
  /\ UNCHANGED catalogue

\* list_images and _get_newest_image; the images may be gone by now.
List(t) ==
  /\ pc[t] = "list"
  /\ \/ \E i \in Newest(Named(t)) : Found(t, i) /\ UNCHANGED saw
     \/ Named(t) = {} /\ Missing(t) /\ UNCHANGED saw
     \/ End(t)
  /\ UNCHANGED catalogue

\* The first image that fits is taken.  Of workers it is one with the slurm
\* version, or else the last that fits; without any, None is returned, and
\* the error message for an inactive image fails with an AttributeError.
Replace(t) ==
  LET workers == FittingWorkers(want[t])
      exact == {i \in workers : Info[i].slurm = slurm[t]}
  IN /\ pc[t] = "replace"
     /\ \/ /\ slurm[t] = Unset
           /\ \/ \E i \in Fitting(want[t]) : Choose(t, i)
              \/ Fitting(want[t]) = {} /\ Refuse(t)
           /\ UNCHANGED saw
        \/ /\ slurm[t] # Unset
           /\ \/ \E i \in IF exact # {} THEN exact ELSE workers : Choose(t, i)
              \/ workers = {} /\ want[t].of = NoImage /\ Choose(t, NoImage)
           /\ UNCHANGED saw
        \/ End(t)
     /\ UNCHANGED catalogue

\* create_server, if there is an image to take the id of; OpenStack may refuse.
\* The server it makes plays no further part here.
Boot(t) ==
  /\ pc[t] = "boot"
  /\ End(t)
  /\ UNCHANGED catalogue

Answer(t) ==
  /\ pc[t] = "refused"
  /\ End(t)
  /\ UNCHANGED catalogue

-----------------------------------------------------------------------------
(* create_snapshot, delete_image                                           *)

BeginSnapshot(t) ==
  /\ pc[t] = "idle"
  /\ \E s \in Servers, base \in SUBSET Tags :
       /\ srv' = [srv EXCEPT ![t] = s]
       /\ todo' = [todo EXCEPT ![t] = base]
  /\ Goto(t, "snapshot")
  /\ UNCHANGED <<catalogue, choice, image, saw, busy, read, silent>>

\* create_image_snapshot does not wait for the image.  OpenStack refuses a
\* server that is gone or busy.
Snapshot(t) ==
  /\ pc[t] = "snapshot"
  /\ \/ /\ srv[t] \in alive
        /\ task[srv[t]] = NoImage
        /\ \E i \in Images :
             /\ Info[i].snapshot /\ status[i] = "none"
             /\ status' = [status EXCEPT ![i] = "saving"]
             /\ task' = [task EXCEPT ![srv[t]] = i]
             /\ image' = [image EXCEPT ![t] = i]
        /\ Goto(t, "tag")
        /\ WatchAll
        /\ UNCHANGED <<choice, todo, removal>>
     \/ Return(t) /\ UNCHANGED <<status, task, saw>>
  /\ UNCHANGED <<tags, alive, changes>>

\* One tag after the other; when one cannot be added, the image stays without
\* it and the caller does not learn its id.
AddTag(t) ==
  /\ pc[t] = "tag"
  /\ \/ /\ Exists(image[t])
        /\ \E tag \in todo[t] :
             /\ tags' = [tags EXCEPT ![image[t]] = @ \cup {tag}]
             /\ todo' = [todo EXCEPT ![t] = @ \ {tag}]
        /\ UNCHANGED <<pc, choice, image, removal>>
     \/ Return(t) /\ UNCHANGED tags
  /\ UNCHANGED <<status, alive, task, changes, saw>>

BeginDeleteImage(t) ==
  /\ pc[t] = "idle"
  /\ \E i \in Images : image' = [image EXCEPT ![t] = i]
  /\ Goto(t, "image_get")
  /\ UNCHANGED <<catalogue, choice, todo, saw, removal>>

ImageGet(t) ==
  /\ pc[t] = "image_get"
  /\ \/ /\ Exists(image[t])
        /\ Goto(t, "image_delete")
        /\ UNCHANGED <<choice, image, todo, removal>>
     \/ Return(t)
  /\ UNCHANGED <<catalogue, saw>>

\* Someone else may have deleted the image since; then nothing happens.
ImageDelete(t) ==
  /\ pc[t] = "image_delete"
  /\ \/ /\ Exists(image[t])
        /\ status' = [status EXCEPT ![image[t]] = "gone"]
        /\ WatchAll
     \/ UNCHANGED <<status, saw>>
  /\ Return(t)
  /\ UNCHANGED <<tags, alive, task, changes>>

-----------------------------------------------------------------------------
(* delete_server, up to the deletion; what follows is in SecurityGroups    *)

BeginDelete(t) ==
  /\ pc[t] = "idle"
  /\ \E s \in Servers : srv' = [srv EXCEPT ![t] = s]
  /\ Goto(t, "read")
  /\ UNCHANGED <<catalogue, choice, image, todo, saw, busy, read, silent>>

\* get_server: the server as it is now.  Only an active server is asked for
\* its SSH port.
ReadServer(t) ==
  /\ pc[t] = "read"
  /\ \/ /\ srv[t] \in alive
        /\ busy' = [busy EXCEPT ![t] = task[srv[t]]]
        /\ read' = [read EXCEPT ![t] = task[srv[t]]]
        /\ \E s \in {"netcat", "delete"} : Goto(t, s)
        /\ UNCHANGED <<choice, image, todo, srv, silent>>
     \/ Return(t)
  /\ UNCHANGED <<catalogue, saw>>

\* When the port does not answer, CHECKING_SSH_CONNECTION takes the place of
\* the task state.
Netcat(t) ==
  /\ pc[t] = "netcat"
  /\ \/ UNCHANGED <<busy, silent>>
     \/ /\ busy' = [busy EXCEPT ![t] = NoImage]
        /\ silent' = [silent EXCEPT ![t] = TRUE]
  /\ Goto(t, "delete")
  /\ UNCHANGED <<catalogue, choice, image, todo, saw, srv, read>>

\* compute.delete_server(force=True): a snapshot that is being taken is lost.
Remove(t) ==
  LET s == srv[t]
      taken == {i \in {task[s]} \cap Images : Exists(i)}
  IN /\ alive' = alive \ {s}
     /\ task' = [task EXCEPT ![s] = NoImage]
     /\ status' = [i \in Images |-> IF i \in taken THEN "gone" ELSE status[i]]
     /\ WatchAll

\* Mutant of DeleteServer: without _validate_server_for_deletion.
DeleteUnchecked(t) ==
  /\ pc[t] = "delete"
  /\ Remove(t)
  /\ Return(t)
  /\ UNCHANGED <<tags, changes>>

\* _validate_server_for_deletion, then the deletion, which may raise.
DeleteServer(t) ==
  /\ pc[t] = "delete"
  /\ \/ busy[t] = NoImage /\ Remove(t)
     \/ UNCHANGED <<alive, task, status, saw>>
  /\ Return(t)
  /\ UNCHANGED <<tags, changes>>

-----------------------------------------------------------------------------
(* OpenStack and its other users                                           *)

\* A snapshot is complete, or has failed.
SnapshotEnds(s) ==
  /\ task[s] # NoImage
  /\ task' = [task EXCEPT ![s] = NoImage]
  /\ \E result \in {"active", "gone"} :
       status' = [status EXCEPT ![task[s]] = IF @ = "saving" THEN result ELSE @]
  /\ WatchAll
  /\ UNCHANGED <<tags, alive, changes, pc, choice, image, todo, removal>>

\* An image is uploaded, deactivated, reactivated or deleted.
Change(i) ==
  /\ changes < MaxChanges
  /\ changes' = changes + 1
  /\ \/ /\ status[i] = "none" /\ ~Info[i].snapshot
        /\ status' = [status EXCEPT ![i] = "active"]
     \/ status[i] = "active" /\ status' = [status EXCEPT ![i] = "deactivated"]
     \/ status[i] = "deactivated" /\ status' = [status EXCEPT ![i] = "active"]
     \/ Exists(i) /\ status' = [status EXCEPT ![i] = "gone"]
  /\ WatchAll
  /\ UNCHANGED <<tags, alive, task, pc, choice, image, todo, removal>>

-----------------------------------------------------------------------------
Init ==
  /\ status \in [Images -> {"none", "active", "deactivated"}]
  /\ tags = [i \in Images |-> IF Info[i].snapshot /\ status[i] # "none" THEN Tags ELSE {}]
  /\ alive = Servers
  /\ task = [s \in Servers |-> NoImage]
  /\ changes = 0
  /\ pc = [t \in Threads |-> "idle"]
  /\ kind = [t \in Threads |-> "start"]
  /\ ask = [t \in Threads |-> NoName]
  /\ slurm = [t \in Threads |-> Unset]
  /\ want = [t \in Threads |-> NoWant]
  /\ image = [t \in Threads |-> NoImage]
  /\ todo = [t \in Threads |-> {}]
  /\ srv = [t \in Threads |-> NoServer]
  /\ busy = [t \in Threads |-> NoImage]
  /\ read = [t \in Threads |-> NoImage]
  /\ silent = [t \in Threads |-> FALSE]
  /\ sawActive = [t \in Threads |-> {}]
  /\ stillActive = [t \in Threads |-> {}]
  /\ sawInactive = [t \in Threads |-> {}]

Work(t) ==
  \/ Begin(t) \/ Lookup(t) \/ List(t) \/ Replace(t) \/ Boot(t) \/ Answer(t)
  \/ BeginSnapshot(t) \/ Snapshot(t) \/ AddTag(t)
  \/ BeginDeleteImage(t) \/ ImageGet(t) \/ ImageDelete(t)
  \/ BeginDelete(t) \/ ReadServer(t) \/ Netcat(t) \/ DeleteServer(t)

Next ==
  \/ \E t \in Threads : Work(t)
  \/ \E s \in Servers : SnapshotEnds(s)
  \/ \E i \in Images : Change(i)

Spec == Init /\ [][Next]_vars

-----------------------------------------------------------------------------
(* Properties                                                              *)

\* The types; besides, only start_server can go on without an image, and what
\* is tagged is a snapshot.
TypeOK ==
  /\ status \in [Images -> {"none", "saving", "active", "deactivated", "gone"}]
  /\ tags \in [Images -> SUBSET Tags]
  /\ alive \subseteq Servers
  /\ task \in [Servers -> Images \cup {NoImage}]
  /\ changes \in 0 .. MaxChanges
  /\ pc \in [Threads -> Steps]
  /\ kind \in [Threads -> Kinds]
  /\ ask \in [Threads -> Names \cup {NoName}]
  /\ slurm \in [Threads -> Slurms \cup {Unset}]
  /\ want \in [Threads -> [version : Versions \cup {Unset}, distro : Distros \cup {Unset},
                           of : Images \cup {NoImage}]]
  /\ image \in [Threads -> Images \cup {NoImage}]
  /\ todo \in [Threads -> SUBSET Tags]
  /\ srv \in [Threads -> Servers \cup {NoServer}]
  /\ busy \in [Threads -> Images \cup {NoImage}]
  /\ sawActive \in [Threads -> SUBSET Images]
  /\ stillActive \in [Threads -> SUBSET Images]
  /\ sawInactive \in [Threads -> SUBSET Images]
  /\ read \in [Threads -> Images \cup {NoImage}]
  /\ silent \in [Threads -> BOOLEAN]
  /\ \A t \in Threads :
       /\ pc[t] \in {"tag", "image_get", "image_delete"} => image[t] \in Images
       /\ pc[t] \in {"snapshot", "read", "netcat", "delete"} => srv[t] \in Servers
       /\ pc[t] = "boot" /\ kind[t] # "start" => image[t] \in Images

\* The image a server is booted from was active during the call.  It has the
\* name asked for, or it is one of the same version (and distribution) as an
\* image of that name that was not active, or one of the version in the name.
\* A replacement is no snapshot, unless a slurm version was asked for.
IsReplacement(t, i) ==
  /\ Info[i].snapshot => slurm[t] # Unset /\ Worker \in tags[i]
  /\ \/ /\ kind[t] = "start"
        /\ Info[i].version = Mentioned[ask[t]] /\ Mentioned[ask[t]] # Unset
        /\ Info[i].distro = Ubuntu
     \/ /\ kind[t] # "playbook"
        /\ \E d \in sawInactive[t] :
             /\ Info[d].version = Info[i].version
             /\ Info[d].distro \in {Info[i].distro, Unset}

ReplacementFits ==
  \A t \in Threads : pc[t] = "boot" /\ image[t] # NoImage =>
    /\ image[t] \in sawActive[t]
    /\ Info[image[t]].name = ask[t] \/ IsReplacement(t, image[t])

\* An image of the name asked for that was active all the time is found,
\* whatever others do: the call is not refused, and boots this image or one of
\* the name that is at least as young.  Only an image of the name as young or
\* younger that was not active at some time hides it.
Hidden(t, c) ==
  \E d \in sawInactive[t] \ {c} : Info[d].created >= Info[c].created

FoundIfActive ==
  \A t \in Threads : \A c \in stillActive[t] :
    ~Hidden(t, c) =>
      /\ pc[t] # "refused"
      /\ pc[t] = "boot" => /\ image[t] \in Images
                           /\ Info[image[t]].name = ask[t]
                           /\ Info[image[t]].created >= Info[c].created

\* "task_state in image creating" (openstack_connector.py): the deletion of a
\* server takes no snapshot with it, unless the SSH port did not answer, or
\* the snapshot was begun after the server was read.
DeletionSparesSnapshots ==
  [][\A s \in Servers : s \in alive \ alive' /\ task[s] # NoImage =>
       \E t \in Threads :
         /\ pc[t] = "delete" /\ srv[t] = s
         /\ silent[t] \/ read[t] # task[s]]_vars

=============================================================================
