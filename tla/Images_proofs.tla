---------------------------- MODULE Images_proofs ----------------------------
(***************************************************************************)
(* The safety properties of Images, for any catalogue, any number of       *)
(* threads and any changes by others.  What a call has seen is compared    *)
(* with the catalogue as it is: an image that was active all the time is   *)
(* still active, so the call meets it wherever it looks.                   *)
(***************************************************************************)
EXTENDS Images, TLAPS

(* What the history variables of a call say of the catalogue.              *)
Watched(t) ==
  /\ ~Choosing(t) => stillActive[t] = {}
  /\ Choosing(t) =>
       /\ ask[t] \in Names
       /\ stillActive[t] \subseteq AllActive \cap Called(ask[t])
       /\ AllActive \subseteq sawActive[t]
       /\ AllInactive \cap Called(ask[t]) \subseteq sawInactive[t]

(* Why a replacement is looked for.                                        *)
WantedForMissing(t) ==
  /\ kind[t] = "start"
  /\ Mentioned[ask[t]] # Unset
  /\ want[t].version = Mentioned[ask[t]]
  /\ want[t].distro = Ubuntu
  /\ stillActive[t] = {}

WantedForInactive(t) ==
  LET d == want[t].of IN
  /\ kind[t] # "playbook"
  /\ d \in sawInactive[t]
  /\ want[t].version = Info[d].version
  /\ want[t].distro = Info[d].distro
  /\ \A c \in stillActive[t] : d # c /\ Info[d].created >= Info[c].created

Wanted(t) == pc[t] = "replace" =>
  /\ want[t].of = NoImage => WantedForMissing(t)
  /\ want[t].of # NoImage => WantedForInactive(t)

(* The parts of ReplacementFits and FoundIfActive for one thread.          *)
Fits(t) == pc[t] = "boot" /\ image[t] # NoImage =>
  /\ image[t] \in sawActive[t]
  /\ Info[image[t]].name = ask[t] \/ IsReplacement(t, image[t])

Finds(t) == \A c \in stillActive[t] : ~Hidden(t, c) =>
  /\ pc[t] # "refused"
  /\ pc[t] = "boot" => /\ image[t] \in Images
                       /\ Info[image[t]].name = ask[t]
                       /\ Info[image[t]].created >= Info[c].created

(* Only a silent port changes what was read of the server.                 *)
Reading(t) == pc[t] \in {"netcat", "delete"} => silent[t] \/ busy[t] = read[t]

ThreadInv(t) == Watched(t) /\ Wanted(t) /\ Fits(t) /\ Finds(t) /\ Reading(t)

IInv == TypeOK /\ \A t \in Threads : ThreadInv(t)

-----------------------------------------------------------------------------
(* Types                                                                   *)

LocalTypes ==
  /\ pc \in [Threads -> Steps]
  /\ kind \in [Threads -> Kinds]
  /\ ask \in [Threads -> Names \cup {NoName}]
  /\ slurm \in [Threads -> Slurms \cup {Unset}]
  /\ want \in [Threads -> [version : Versions \cup {Unset}, distro : Distros \cup {Unset},
                           of : Images \cup {NoImage}]]
  /\ image \in [Threads -> Images \cup {NoImage}]
  /\ todo \in [Threads -> SUBSET Tags]
  /\ srv \in [Threads -> Servers \cup {NoServer}]
  /\ busy \in [Threads -> Images \cup {NoImage}]
  /\ read \in [Threads -> Images \cup {NoImage}]
  /\ silent \in [Threads -> BOOLEAN]
  /\ \A t \in Threads :
       /\ pc[t] \in {"tag", "image_get", "image_delete"} => image[t] \in Images
       /\ pc[t] \in {"snapshot", "read", "netcat", "delete"} => srv[t] \in Servers
       /\ pc[t] = "boot" /\ kind[t] # "start" => image[t] \in Images

SawTypes ==
  /\ sawActive \in [Threads -> SUBSET Images]
  /\ stillActive \in [Threads -> SUBSET Images]
  /\ sawInactive \in [Threads -> SUBSET Images]

CatalogueTypes ==
  /\ status \in [Images -> {"none", "saving", "active", "deactivated", "gone"}]
  /\ tags \in [Images -> SUBSET Tags]
  /\ alive \subseteq Servers
  /\ task \in [Servers -> Images \cup {NoImage}]
  /\ changes \in 0 .. MaxChanges

LEMMA TypeParts == TypeOK <=> LocalTypes /\ SawTypes /\ CatalogueTypes
  BY DEF TypeOK, LocalTypes, SawTypes, CatalogueTypes

LEMMA TypePartsNext == LocalTypes' /\ SawTypes' /\ CatalogueTypes' => TypeOK'
  BY DEF TypeOK, LocalTypes, SawTypes, CatalogueTypes

LEMMA ReturnType ==
  ASSUME LocalTypes, NEW t \in Threads, Return(t)
  PROVE  LocalTypes' /\ pc'[t] = "idle"
  BY DEF LocalTypes, Return, Goto, Steps, Kinds, NoWant

LEMMA ChooseType ==
  ASSUME LocalTypes, NEW t \in Threads, NEW i \in Images \cup {NoImage}, Choose(t, i),
         kind[t] # "start" => i \in Images
  PROVE  LocalTypes'
  BY DEF LocalTypes, Choose, Goto, Steps, choice, removal

LEMMA RefuseType ==
  ASSUME LocalTypes, NEW t \in Threads, Refuse(t)
  PROVE  LocalTypes'
  BY DEF LocalTypes, Refuse, Goto, Steps, choice, removal

LEMMA SeekType ==
  ASSUME LocalTypes, NEW t \in Threads, NEW i \in Images \cup {NoImage},
         NEW v \in Versions \cup {Unset}, NEW d \in Distros \cup {Unset}, Seek(t, v, d, i)
  PROVE  LocalTypes'
  BY DEF LocalTypes, Seek, Goto, Steps, removal

LEMMA MissingType ==
  ASSUME LocalTypes, NEW t \in Threads, ask[t] \in Names, Missing(t)
  PROVE  LocalTypes'
<1>1. Mentioned[ask[t]] \in Versions \cup {Unset} /\ Ubuntu \in Distros \cup {Unset}
  BY ImagesAssumption
<1> QED
  BY <1>1, SeekType, ChooseType, RefuseType DEF Missing, ReplacesMissing

LEMMA InfoType ==
  ASSUME NEW i \in Images
  PROVE  /\ Info[i].name \in Names
         /\ Info[i].version \in Versions \cup {Unset}
         /\ Info[i].distro \in Distros \cup {Unset}
         /\ Info[i].created \in Nat
  BY ImagesAssumption

LEMMA FoundType ==
  ASSUME LocalTypes, NEW t \in Threads, NEW i \in Images, Found(t, i)
  PROVE  LocalTypes'
  BY InfoType, SeekType, ChooseType, RefuseType DEF Found

LEMMA WatchAllType ==
  ASSUME SawTypes, WatchAll
  PROVE  SawTypes'
  BY DEF SawTypes, WatchAll, AllActive, AllInactive

LEMMA EndType ==
  ASSUME LocalTypes, SawTypes, NEW t \in Threads, End(t)
  PROVE  LocalTypes' /\ SawTypes' /\ pc'[t] = "idle"
  BY ReturnType DEF End, SawTypes

LEMMA TypeStep == IInv /\ [Next]_vars => TypeOK'
<1> SUFFICES ASSUME IInv, [Next]_vars PROVE TypeOK'
  OBVIOUS
<1>1. LocalTypes /\ SawTypes /\ CatalogueTypes
  BY TypeParts DEF IInv
<1>2. ASSUME LocalTypes', UNCHANGED <<catalogue, saw>> PROVE TypeOK'
  BY <1>1, <1>2, TypePartsNext DEF SawTypes, CatalogueTypes, catalogue, saw
<1>3. ASSUME LocalTypes', SawTypes', UNCHANGED catalogue PROVE TypeOK'
  BY <1>1, <1>3, TypePartsNext DEF CatalogueTypes, catalogue
<1>4. ASSUME NEW t \in Threads, Begin(t) PROVE TypeOK'
  <2>1. LocalTypes'
    BY <1>1, <1>4 DEF Begin, LocalTypes, Goto, Steps, removal
  <2>2. SawTypes'
    BY <1>1, <1>4 DEF Begin, Watch, SawTypes, AllActive, AllInactive
  <2> QED
    BY <1>3, <1>4, <2>1, <2>2 DEF Begin
<1>5. ASSUME NEW t \in Threads, Choosing(t), Missing(t), UNCHANGED <<catalogue, saw>>
      PROVE  TypeOK'
  BY <1>1, <1>2, <1>5, MissingType DEF IInv, ThreadInv, Watched
<1>6. ASSUME NEW t \in Threads, NEW i \in Images, Found(t, i), UNCHANGED <<catalogue, saw>>
      PROVE  TypeOK'
  BY <1>1, <1>2, <1>6, FoundType
<1>7. ASSUME NEW t \in Threads, End(t), UNCHANGED catalogue PROVE TypeOK'
  BY <1>1, <1>3, <1>7, EndType
<1>8. ASSUME NEW t \in Threads, Return(t), UNCHANGED <<catalogue, saw>> PROVE TypeOK'
  BY <1>1, <1>2, <1>8, ReturnType
<1>9. ASSUME NEW t \in Threads, Lookup(t) PROVE TypeOK'
  <2>1. CASE Goto(t, "list") /\ UNCHANGED <<choice, image, todo, removal, saw>>
    <3>1. LocalTypes'
      BY <1>1, <2>1 DEF LocalTypes, Goto, Steps, choice, removal
    <3> QED
      BY <1>2, <1>9, <2>1, <3>1 DEF Lookup
  <2> QED
    BY <1>5, <1>6, <1>7, <1>9, <2>1 DEF Lookup, Choosing
<1>10. ASSUME NEW t \in Threads, List(t) PROVE TypeOK'
  BY <1>5, <1>6, <1>7, <1>10 DEF List, Choosing, Newest, Named, Called
<1>11. ASSUME NEW t \in Threads, Replace(t) PROVE TypeOK'
  <2>1. ASSUME NEW i \in Images, Choose(t, i), UNCHANGED <<catalogue, saw>> PROVE TypeOK'
    BY <1>1, <1>2, <2>1, ChooseType
  <2>2. ASSUME want[t].of = NoImage, Choose(t, NoImage), UNCHANGED <<catalogue, saw>>
        PROVE  TypeOK'
    <3>1. kind[t] = "start"
      BY <1>11, <2>2 DEF IInv, ThreadInv, Wanted, WantedForMissing, Replace
    <3> QED
      BY <1>1, <1>2, <2>2, <3>1, ChooseType
  <2>3. ASSUME Refuse(t), UNCHANGED <<catalogue, saw>> PROVE TypeOK'
    BY <1>1, <1>2, <2>3, RefuseType
  <2> QED
    BY <1>7, <1>11, <2>1, <2>2, <2>3 DEF Replace, Fitting, FittingWorkers, AllActive
<1>12. ASSUME NEW t \in Threads, Boot(t) \/ Answer(t) PROVE TypeOK'
  BY <1>7, <1>12 DEF Boot, Answer
<1>13. ASSUME NEW t \in Threads, BeginSnapshot(t) PROVE TypeOK'
  <2>1. LocalTypes'
    BY <1>1, <1>13 DEF BeginSnapshot, LocalTypes, Goto, Steps, choice
  <2> QED
    BY <1>2, <1>13, <2>1 DEF BeginSnapshot
<1>14. ASSUME NEW t \in Threads, Snapshot(t) PROVE TypeOK'
  <2>1. CASE Return(t) /\ UNCHANGED <<status, task, saw>>
    BY <1>8, <1>14, <2>1 DEF Snapshot, catalogue
  <2>2. ASSUME NEW i \in Images, status' = [status EXCEPT ![i] = "saving"],
               task' = [task EXCEPT ![srv[t]] = i], image' = [image EXCEPT ![t] = i],
               Goto(t, "tag"), WatchAll, UNCHANGED <<choice, todo, removal>>
        PROVE  TypeOK'
    <3>1. LocalTypes'
      BY <1>1, <2>2 DEF LocalTypes, Goto, Steps, choice, removal
    <3>2. CatalogueTypes'
      BY <1>1, <1>14, <2>2 DEF Snapshot, CatalogueTypes
    <3> QED
      BY <1>1, <2>2, <3>1, <3>2, WatchAllType, TypePartsNext
  <2> QED
    BY <1>14, <2>1, <2>2 DEF Snapshot
<1>15. ASSUME NEW t \in Threads, AddTag(t) PROVE TypeOK'
  <2>1. CASE Return(t) /\ UNCHANGED tags
    BY <1>8, <1>15, <2>1 DEF AddTag, catalogue
  <2>2. ASSUME NEW tag \in todo[t], tags' = [tags EXCEPT ![image[t]] = @ \cup {tag}],
               todo' = [todo EXCEPT ![t] = @ \ {tag}], UNCHANGED <<pc, choice, image, removal>>
        PROVE  TypeOK'
    <3>1. LocalTypes' /\ tag \in Tags /\ image[t] \in Images
      BY <1>1, <1>15, <2>2 DEF AddTag, LocalTypes, choice, removal
    <3>2. CatalogueTypes' /\ SawTypes'
      BY <1>1, <1>15, <2>2, <3>1 DEF AddTag, CatalogueTypes, SawTypes, saw
    <3> QED
      BY <3>1, <3>2, TypePartsNext
  <2> QED
    BY <1>15, <2>1, <2>2 DEF AddTag
<1>16. ASSUME NEW t \in Threads, BeginDeleteImage(t) \/ ImageGet(t) PROVE TypeOK'
  <2>1. CASE BeginDeleteImage(t)
    <3>1. LocalTypes'
      BY <1>1, <2>1 DEF BeginDeleteImage, LocalTypes, Goto, Steps, choice, removal
    <3> QED
      BY <1>2, <2>1, <3>1 DEF BeginDeleteImage
  <2>2. CASE ImageGet(t) /\ ~Return(t)
    <3>1. LocalTypes'
      BY <1>1, <2>2 DEF ImageGet, LocalTypes, Goto, Steps, choice, removal
    <3> QED
      BY <1>2, <2>2, <3>1 DEF ImageGet
  <2> QED
    BY <1>8, <1>16, <2>1, <2>2 DEF ImageGet
<1>17. ASSUME NEW t \in Threads, ImageDelete(t) PROVE TypeOK'
  <2>1. LocalTypes'
    BY <1>1, <1>17, ReturnType DEF ImageDelete
  <2>2. SawTypes'
    BY <1>1, <1>17, WatchAllType DEF ImageDelete, SawTypes, saw
  <2>3. CatalogueTypes'
    BY <1>1, <1>17 DEF ImageDelete, CatalogueTypes
  <2> QED
    BY <2>1, <2>2, <2>3, TypePartsNext
<1>18. ASSUME NEW t \in Threads, BeginDelete(t) PROVE TypeOK'
  <2>1. LocalTypes'
    BY <1>1, <1>18 DEF BeginDelete, LocalTypes, Goto, Steps, choice
  <2> QED
    BY <1>2, <1>18, <2>1 DEF BeginDelete
<1>19. ASSUME NEW t \in Threads, ReadServer(t) PROVE TypeOK'
  <2>1. CASE ~Return(t)
    <3>1. task[srv[t]] \in Images \cup {NoImage}
      BY <1>1, <1>19, <2>1 DEF ReadServer, CatalogueTypes
    <3>2. LocalTypes'
      BY <1>1, <1>19, <2>1, <3>1 DEF ReadServer, LocalTypes, Goto, Steps, choice
    <3> QED
      BY <1>2, <1>19, <3>2 DEF ReadServer
  <2> QED
    BY <1>8, <1>19, <2>1 DEF ReadServer
<1>20. ASSUME NEW t \in Threads, Netcat(t) PROVE TypeOK'
  <2>1. LocalTypes'
    BY <1>1, <1>20 DEF Netcat, LocalTypes, Goto, Steps, choice
  <2> QED
    BY <1>2, <1>20, <2>1 DEF Netcat
<1>21. ASSUME NEW t \in Threads, DeleteServer(t) PROVE TypeOK'
  <2>1. LocalTypes'
    BY <1>1, <1>21, ReturnType DEF DeleteServer
  <2>2. SawTypes'
    BY <1>1, <1>21, WatchAllType DEF DeleteServer, Remove, SawTypes, saw
  <2>3. CatalogueTypes'
    BY <1>1, <1>21 DEF DeleteServer, Remove, CatalogueTypes
  <2> QED
    BY <2>1, <2>2, <2>3, TypePartsNext
<1>22. ASSUME NEW s \in Servers, SnapshotEnds(s) PROVE TypeOK'
  <2>1. LocalTypes'
    BY <1>1, <1>22 DEF SnapshotEnds, LocalTypes, choice, removal
  <2>2. CatalogueTypes'
    BY <1>1, <1>22 DEF SnapshotEnds, CatalogueTypes
  <2> QED
    BY <1>1, <1>22, <2>1, <2>2, WatchAllType, TypePartsNext DEF SnapshotEnds
<1>23. ASSUME NEW i \in Images, Change(i) PROVE TypeOK'
  <2>1. LocalTypes'
    BY <1>1, <1>23 DEF Change, LocalTypes, choice, removal
  <2>2. CatalogueTypes'
    BY <1>1, <1>23, ImagesAssumption DEF Change, CatalogueTypes
  <2> QED
    BY <1>1, <1>23, <2>1, <2>2, WatchAllType, TypePartsNext DEF Change
<1>24. CASE UNCHANGED vars
  <2>1. LocalTypes'
    BY <1>1, <1>24 DEF vars, LocalTypes, choice, removal
  <2> QED
    BY <1>2, <1>24, <2>1 DEF vars
<1> QED
  BY <1>4, <1>9, <1>10, <1>11, <1>12, <1>13, <1>14, <1>15, <1>16, <1>17, <1>18, <1>19, <1>20,
     <1>21, <1>22, <1>23, <1>24
  DEF Next, Work

-----------------------------------------------------------------------------
(* Threads that do not move                                                *)

(* The locals of u stay; what it has seen follows the catalogue.           *)
Steady(u) ==
  /\ pc'[u] = pc[u] /\ kind'[u] = kind[u] /\ ask'[u] = ask[u] /\ slurm'[u] = slurm[u]
  /\ want'[u] = want[u] /\ image'[u] = image[u]
  /\ silent'[u] = silent[u] /\ busy'[u] = busy[u] /\ read'[u] = read[u]
  /\ \/ /\ status' = status
        /\ sawActive'[u] = sawActive[u]
        /\ stillActive'[u] = stillActive[u]
        /\ sawInactive'[u] = sawInactive[u]
     \/ /\ sawActive'[u] = IF Choosing(u) THEN sawActive[u] \cup AllActive' ELSE {}
        /\ stillActive'[u] = stillActive[u] \cap AllActive'
        /\ sawInactive'[u] = IF Choosing(u)
                             THEN sawInactive[u] \cup (AllInactive' \cap Called(ask[u]))
                             ELSE {}
  /\ \A i \in Images : Worker \in tags[i] => Worker \in tags'[i]

LEMMA SteadyKeeps ==
  ASSUME TypeOK, NEW u \in Threads, ThreadInv(u), Steady(u)
  PROVE  ThreadInv(u)'
<1>1. Choosing(u)' <=> Choosing(u)
  BY DEF Steady, Choosing
<1>2. /\ stillActive'[u] \subseteq stillActive[u]
      /\ Choosing(u) => sawActive[u] \subseteq sawActive'[u]
      /\ Choosing(u) => sawInactive[u] \subseteq sawInactive'[u]
  BY DEF Steady
<1>3. Watched(u)'
  <2>1. CASE ~Choosing(u)
    BY <1>1, <1>2, <2>1 DEF ThreadInv, Watched
  <2>2. CASE Choosing(u)
    BY <1>1, <2>2 DEF ThreadInv, Watched, Steady, AllActive, AllInactive, Active, Exists
  <2> QED
    BY <2>1, <2>2
<1>4. Wanted(u)'
  <2>1. ASSUME pc[u] = "replace", want[u].of = NoImage PROVE WantedForMissing(u)'
    BY <1>2, <2>1 DEF ThreadInv, Wanted, WantedForMissing, Steady
  <2>2. ASSUME pc[u] = "replace", want[u].of # NoImage PROVE WantedForInactive(u)'
    BY <1>2, <2>2 DEF ThreadInv, Wanted, WantedForInactive, Steady, Choosing
  <2> QED
    BY <2>1, <2>2 DEF Wanted, Steady
<1>5. Fits(u)'
  <2> SUFFICES ASSUME pc[u] = "boot", image[u] # NoImage
               PROVE  /\ image[u] \in sawActive'[u]
                      /\ Info[image[u]].name = ask[u] \/ IsReplacement(u, image[u])'
    BY DEF Fits, Steady, IsReplacement
  <2>1. image[u] \in Images
    BY DEF TypeOK
  <2>2. image[u] \in sawActive'[u]
    BY <1>2 DEF ThreadInv, Fits, Choosing
  <2>3. IsReplacement(u, image[u]) => IsReplacement(u, image[u])'
    BY <1>2, <2>1 DEF IsReplacement, Steady, Choosing
  <2> QED
    BY <2>2, <2>3 DEF ThreadInv, Fits
<1>6. Finds(u)'
  <2> SUFFICES ASSUME NEW c \in stillActive'[u], ~Hidden(u, c)'
               PROVE  /\ pc[u] # "refused"
                      /\ pc[u] = "boot" => /\ image[u] \in Images
                                           /\ Info[image[u]].name = ask[u]
                                           /\ Info[image[u]].created >= Info[c].created
    BY DEF Finds, Steady
  <2>1. c \in stillActive[u]
    BY <1>2
  <2>2. Choosing(u)
    BY <2>1 DEF ThreadInv, Watched
  <2>3. ~Hidden(u, c)
    BY <1>2, <2>2 DEF Hidden
  <2> QED
    BY <2>1, <2>3 DEF ThreadInv, Finds
<1>7. Reading(u)'
  BY DEF ThreadInv, Reading, Steady
<1> QED
  BY <1>3, <1>4, <1>5, <1>6, <1>7 DEF ThreadInv

(* A thread that chooses no image and deletes no server.                   *)
LEMMA RestKeeps ==
  ASSUME NEW t \in Threads,
         pc'[t] \in {"idle", "snapshot", "tag", "image_get", "image_delete", "read"},
         stillActive'[t] = {}
  PROVE  ThreadInv(t)'
  BY DEF ThreadInv, Watched, Wanted, Fits, Finds, Reading, Choosing

-----------------------------------------------------------------------------
(* The steps of get_image                                                  *)

LEMMA ChooseKeeps ==
  ASSUME TypeOK, NEW t \in Threads, ThreadInv(t), Choosing(t),
         NEW i \in Images \cup {NoImage}, Choose(t, i), UNCHANGED <<catalogue, saw>>,
         i # NoImage =>
           /\ i \in AllActive
           /\ Info[i].name = ask[t] \/ IsReplacement(t, i),
         \A c \in stillActive[t] : ~Hidden(t, c) =>
           i \in Images /\ Info[i].name = ask[t] /\ Info[i].created >= Info[c].created
  PROVE  ThreadInv(t)'
<1> USE DEF catalogue, saw, choice, removal
<1>1. pc'[t] = "boot" /\ image'[t] = i
  BY DEF Choose, Goto, TypeOK
<1>2. UNCHANGED <<kind, ask, slurm, want, status, tags, sawActive, stillActive, sawInactive>>
  BY DEF Choose
<1>3. Watched(t)'
  BY <1>1, <1>2 DEF ThreadInv, Watched, Choosing, AllActive, AllInactive, Active, Exists
<1>4. Fits(t)'
  <2>1. i # NoImage => i \in sawActive[t]
    BY DEF ThreadInv, Watched
  <2>2. i # NoImage => Info[i].name = ask[t] \/ IsReplacement(t, i)'
    BY <1>2 DEF IsReplacement
  <2> QED
    BY <1>1, <1>2, <2>1, <2>2 DEF Fits, IsReplacement
<1>5. Finds(t)'
  BY <1>1, <1>2 DEF Finds, Hidden
<1> QED
  BY <1>1, <1>3, <1>4, <1>5 DEF ThreadInv, Wanted, Reading

LEMMA RefuseKeeps ==
  ASSUME TypeOK, NEW t \in Threads, ThreadInv(t), Choosing(t), Refuse(t),
         UNCHANGED <<catalogue, saw>>,
         \A c \in stillActive[t] : Hidden(t, c)
  PROVE  ThreadInv(t)'
<1> USE DEF catalogue, saw, choice, removal
<1>1. pc'[t] = "refused"
  BY DEF Refuse, Goto, TypeOK
<1>2. UNCHANGED <<ask, status, sawActive, stillActive, sawInactive>>
  BY DEF Refuse
<1>3. Watched(t)'
  BY <1>1, <1>2 DEF ThreadInv, Watched, Choosing, AllActive, AllInactive, Active, Exists
<1>4. Finds(t)'
  BY <1>1, <1>2 DEF Finds, Hidden
<1> QED
  BY <1>1, <1>3, <1>4 DEF ThreadInv, Wanted, Fits, Reading

LEMMA SeekKeeps ==
  ASSUME TypeOK, NEW t \in Threads, ThreadInv(t), Choosing(t),
         NEW i \in Images \cup {NoImage},
         NEW v \in Versions \cup {Unset}, NEW d \in Distros \cup {Unset},
         Seek(t, v, d, i), UNCHANGED <<catalogue, saw>>,
         i = NoImage => /\ kind[t] = "start"
                        /\ Mentioned[ask[t]] # Unset /\ v = Mentioned[ask[t]]
                        /\ d = Ubuntu /\ stillActive[t] = {},
         i # NoImage => /\ kind[t] # "playbook"
                        /\ i \in sawInactive[t]
                        /\ v = Info[i].version /\ d = Info[i].distro
                        /\ \A c \in stillActive[t] :
                             i # c /\ Info[i].created >= Info[c].created
  PROVE  ThreadInv(t)'
<1> USE DEF catalogue, saw, removal
<1>1. pc'[t] = "replace" /\ want'[t] = [version |-> v, distro |-> d, of |-> i]
  BY DEF Seek, Goto, TypeOK
<1>2. UNCHANGED <<kind, ask, status, sawActive, stillActive, sawInactive>>
  BY DEF Seek
<1>3. Watched(t)'
  BY <1>1, <1>2 DEF ThreadInv, Watched, Choosing, AllActive, AllInactive, Active, Exists
<1>4. Wanted(t)'
  BY <1>1, <1>2 DEF Wanted, WantedForMissing, WantedForInactive
<1>5. Finds(t)'
  BY <1>1 DEF Finds
<1> QED
  BY <1>1, <1>3, <1>4, <1>5 DEF ThreadInv, Fits, Reading

(* An image that was active all the time is among those OpenStack finds.   *)
LEMMA StillNamed ==
  ASSUME TypeOK, NEW t \in Threads, ThreadInv(t), Choosing(t), NEW c \in stillActive[t]
  PROVE  c \in Named(t) /\ Active(c)
  BY DEF ThreadInv, Watched, Named, AllActive, Active, Exists

LEMMA MissingKeeps ==
  ASSUME TypeOK, NEW t \in Threads, ThreadInv(t), Choosing(t), Named(t) = {},
         Missing(t), UNCHANGED <<catalogue, saw>>
  PROVE  ThreadInv(t)'
<1>1. stillActive[t] = {}
  BY StillNamed
<1>2. CASE ReplacesMissing(kind[t]) /\ Mentioned[ask[t]] # Unset
           /\ Seek(t, Mentioned[ask[t]], Ubuntu, NoImage)
  <2>1. Mentioned[ask[t]] \in Versions \cup {Unset} /\ Ubuntu \in Distros \cup {Unset}
    BY ImagesAssumption DEF ThreadInv, Watched
  <2> QED
    BY <1>1, <1>2, <2>1, SeekKeeps DEF ReplacesMissing
<1>3. CASE Choose(t, NoImage)
  BY <1>1, <1>3, ChooseKeeps
<1>4. CASE Refuse(t)
  BY <1>1, <1>4, RefuseKeeps
<1> QED
  BY <1>2, <1>3, <1>4 DEF Missing

LEMMA FoundKeeps ==
  ASSUME TypeOK, NEW t \in Threads, ThreadInv(t), Choosing(t), NEW i \in Named(t),
         \A c \in stillActive[t] : Info[i].created >= Info[c].created,
         Found(t, i), UNCHANGED <<catalogue, saw>>
  PROVE  ThreadInv(t)'
<1>1. i \in Images /\ Info[i].name = ask[t] /\ Exists(i)
  BY DEF Named, Called
<1>2. i \in Images \cup {NoImage} /\ i # NoImage
  BY <1>1, ImagesAssumption
<1>3. CASE Active(i) /\ Choose(t, i)
  BY <1>1, <1>2, <1>3, ChooseKeeps DEF AllActive
<1>4. ~Active(i) => /\ i \in sawInactive[t]
                    /\ \A c \in stillActive[t] : i # c /\ Hidden(t, c)
  <2> SUFFICES ASSUME ~Active(i)
               PROVE  /\ i \in sawInactive[t]
                      /\ \A c \in stillActive[t] : i # c /\ Hidden(t, c)
    OBVIOUS
  <2>1. i \in sawInactive[t]
    BY <1>1 DEF ThreadInv, Watched, AllInactive, Called
  <2>2. \A c \in stillActive[t] : i # c
    BY StillNamed
  <2> QED
    BY <2>1, <2>2 DEF Hidden
<1>5. CASE ~Active(i) /\ ReplacesInactive(kind[t]) /\ Seek(t, Info[i].version, Info[i].distro, i)
  <2>1. Info[i].version \in Versions \cup {Unset} /\ Info[i].distro \in Distros \cup {Unset}
    BY <1>1, InfoType
  <2> QED
    BY <1>2, <1>4, <1>5, <2>1, SeekKeeps DEF ReplacesInactive
<1>6. CASE ~Active(i) /\ Refuse(t)
  BY <1>4, <1>6, RefuseKeeps
<1> QED
  BY <1>3, <1>5, <1>6 DEF Found

(* A replacement fits, and every image active all the time is hidden.      *)
LEMMA ReplaceKeeps ==
  ASSUME TypeOK, NEW t \in Threads, ThreadInv(t), Replace(t), ~End(t)
  PROVE  ThreadInv(t)'
<1> USE DEF AllActive
<1>1. Choosing(t) /\ pc[t] = "replace" /\ UNCHANGED <<catalogue, saw>>
  BY DEF Replace, Choosing
<1>2. \A c \in stillActive[t] : Hidden(t, c)
  BY <1>1 DEF ThreadInv, Wanted, WantedForMissing, WantedForInactive, Hidden
<1>3. want[t].of = NoImage => stillActive[t] = {}
  BY <1>1 DEF ThreadInv, Wanted, WantedForMissing
<1>4. ASSUME NEW i \in AllActive, Info[i].version = want[t].version,
             want[t].distro \in {Info[i].distro, Unset},
             Info[i].snapshot => slurm[t] # Unset /\ Worker \in tags[i]
      PROVE  IsReplacement(t, i)
  <2>1. CASE want[t].of = NoImage
    <3>1. WantedForMissing(t)
      BY <1>1, <2>1 DEF ThreadInv, Wanted
    <3>2. Ubuntu # Unset
      BY ImagesAssumption
    <3> QED
      BY <1>4, <3>1, <3>2 DEF WantedForMissing, IsReplacement
  <2>2. CASE want[t].of # NoImage
    <3>1. WantedForInactive(t)
      BY <1>1, <2>2 DEF ThreadInv, Wanted
    <3> QED
      BY <1>4, <3>1 DEF WantedForInactive, IsReplacement
  <2> QED
    BY <2>1, <2>2
<1>5. ASSUME NEW i \in Images, i \in AllActive, IsReplacement(t, i), Choose(t, i)
      PROVE  ThreadInv(t)'
  BY <1>1, <1>2, <1>5, ChooseKeeps
<1>6. ASSUME slurm[t] = Unset, NEW i \in Fitting(want[t]), Choose(t, i)
      PROVE  ThreadInv(t)'
  BY <1>4, <1>5, <1>6 DEF Fitting
<1>7. ASSUME slurm[t] # Unset, NEW i \in FittingWorkers(want[t]), Choose(t, i)
      PROVE  ThreadInv(t)'
  BY <1>4, <1>5, <1>7 DEF FittingWorkers
<1>8. CASE Choose(t, NoImage)
  BY <1>1, <1>2, <1>8, ChooseKeeps
<1>9. CASE Refuse(t)
  BY <1>1, <1>2, <1>9, RefuseKeeps
<1> QED
  BY <1>6, <1>7, <1>8, <1>9 DEF Replace

LEMMA EndKeeps ==
  ASSUME TypeOK, NEW t \in Threads, End(t)
  PROVE  ThreadInv(t)'
<1>1. pc'[t] = "idle" /\ stillActive'[t] = {}
  BY DEF End, Return, Goto, TypeOK
<1> QED
  BY <1>1, RestKeeps

-----------------------------------------------------------------------------
(* Every step                                                              *)

LocalsKept(u) ==
  /\ pc'[u] = pc[u] /\ kind'[u] = kind[u] /\ ask'[u] = ask[u] /\ slurm'[u] = slurm[u]
  /\ want'[u] = want[u] /\ image'[u] = image[u]
  /\ silent'[u] = silent[u] /\ busy'[u] = busy[u] /\ read'[u] = read[u]

(* What the steps of thread t leave of another thread.                     *)
LEMMA MoveKeepsOthers ==
  ASSUME TypeOK, NEW t \in Threads, Work(t), NEW u \in Threads \ {t}
  PROVE  LocalsKept(u)
<1> USE DEF TypeOK, LocalsKept, choice, removal, Goto
<1>1. ASSUME Return(t) PROVE LocalsKept(u)
  BY <1>1 DEF Return
<1>2. ASSUME End(t) PROVE LocalsKept(u)
  BY <1>1, <1>2 DEF End
<1>3. ASSUME Missing(t) PROVE LocalsKept(u)
  BY <1>3 DEF Missing, Seek, Choose, Refuse
<1>4. ASSUME NEW i, Found(t, i) PROVE LocalsKept(u)
  BY <1>4 DEF Found, Seek, Choose, Refuse
<1>5. CASE Begin(t)
  BY <1>5 DEF Begin
<1>6. CASE Lookup(t)
  BY <1>2, <1>3, <1>4, <1>6 DEF Lookup
<1>7. CASE List(t)
  BY <1>2, <1>3, <1>4, <1>7 DEF List
<1>8. CASE Replace(t)
  BY <1>2, <1>8 DEF Replace, Choose, Refuse
<1>9. CASE Boot(t) \/ Answer(t)
  BY <1>2, <1>9 DEF Boot, Answer
<1>10. CASE BeginSnapshot(t)
  BY <1>10 DEF BeginSnapshot
<1>11. CASE Snapshot(t)
  BY <1>1, <1>11 DEF Snapshot
<1>12. CASE AddTag(t)
  BY <1>1, <1>12 DEF AddTag
<1>13. CASE BeginDeleteImage(t)
  BY <1>13 DEF BeginDeleteImage
<1>14. CASE ImageGet(t)
  BY <1>1, <1>14 DEF ImageGet
<1>15. CASE ImageDelete(t)
  BY <1>1, <1>15 DEF ImageDelete
<1>16. CASE BeginDelete(t)
  BY <1>16 DEF BeginDelete
<1>17. CASE ReadServer(t)
  BY <1>1, <1>17 DEF ReadServer
<1>18. CASE Netcat(t)
  BY <1>18 DEF Netcat
<1>19. CASE DeleteServer(t)
  BY <1>1, <1>19 DEF DeleteServer
<1> QED
  BY <1>5, <1>6, <1>7, <1>8, <1>9, <1>10, <1>11, <1>12, <1>13, <1>14, <1>15, <1>16, <1>17,
     <1>18, <1>19 DEF Work

SawKept(u) ==
  /\ status' = status
  /\ sawActive'[u] = sawActive[u]
  /\ stillActive'[u] = stillActive[u]
  /\ sawInactive'[u] = sawInactive[u]

(* ... and of what it has seen.                                            *)
LEMMA MoveKeepsSeen ==
  ASSUME TypeOK, NEW t \in Threads, Work(t), NEW u \in Threads \ {t}
  PROVE  SawKept(u) \/ WatchAll
<1> USE DEF TypeOK, SawKept, catalogue, saw
<1>1. ASSUME End(t), UNCHANGED status PROVE SawKept(u)
  BY <1>1 DEF End
<1>2. CASE Begin(t)
  BY <1>2 DEF Begin, Watch
<1>3. CASE Lookup(t)
  BY <1>1, <1>3 DEF Lookup
<1>4. CASE List(t)
  BY <1>1, <1>4 DEF List
<1>5. CASE Replace(t)
  BY <1>1, <1>5 DEF Replace
<1>6. CASE Boot(t) \/ Answer(t)
  BY <1>1, <1>6 DEF Boot, Answer
<1>7. CASE BeginSnapshot(t) \/ BeginDeleteImage(t) \/ ImageGet(t) \/ BeginDelete(t)
           \/ ReadServer(t) \/ Netcat(t) \/ AddTag(t)
  BY <1>7 DEF BeginSnapshot, BeginDeleteImage, ImageGet, BeginDelete, ReadServer, Netcat,
              AddTag
<1>8. CASE Snapshot(t)
  BY <1>8 DEF Snapshot
<1>9. CASE ImageDelete(t)
  BY <1>9 DEF ImageDelete
<1>10. CASE DeleteServer(t)
  BY <1>10 DEF DeleteServer, Remove
<1> QED
  BY <1>2, <1>3, <1>4, <1>5, <1>6, <1>7, <1>8, <1>9, <1>10 DEF Work

(* Tags are added, never removed.                                          *)
LEMMA TagsGrow ==
  ASSUME IInv, [Next]_vars
  PROVE  \A i \in Images : Worker \in tags[i] => Worker \in tags'[i]
<1>1. tags \in [Images -> SUBSET Tags]
  BY DEF IInv, TypeOK
<1>2. CASE UNCHANGED tags
  BY <1>2
<1>3. ASSUME NEW t \in Threads, AddTag(t)
      PROVE  \A i \in Images : Worker \in tags[i] => Worker \in tags'[i]
  BY <1>1, <1>3 DEF AddTag
<1> QED
  BY <1>2, <1>3
  DEF Next, Work, vars, catalogue, Begin, Lookup, List, Replace, Boot, Answer, BeginSnapshot,
      Snapshot, BeginDeleteImage, ImageGet, ImageDelete, BeginDelete, ReadServer, Netcat,
      DeleteServer, SnapshotEnds, Change

LEMMA OthersSteady ==
  ASSUME IInv, NEW t \in Threads, Work(t), NEW u \in Threads \ {t}
  PROVE  Steady(u)
<1>1. TypeOK /\ [Next]_vars
  BY DEF IInv, Next
<1>2. LocalsKept(u) /\ (SawKept(u) \/ WatchAll)
  BY <1>1, MoveKeepsOthers, MoveKeepsSeen
<1>3. \A i \in Images : Worker \in tags[i] => Worker \in tags'[i]
  BY <1>1, TagsGrow
<1> QED
  BY <1>2, <1>3 DEF Steady, LocalsKept, SawKept, WatchAll

(* The thread that moves.                                                  *)
LEMMA OwnStep ==
  ASSUME IInv, NEW t \in Threads, Work(t)
  PROVE  ThreadInv(t)'
<1> USE DEF IInv
<1>0. TypeOK /\ ThreadInv(t)
  OBVIOUS
<1>1. ASSUME End(t) PROVE ThreadInv(t)'
  BY <1>1, EndKeeps
<1>2. ASSUME ~Choosing(t), stillActive'[t] = {} \/ WatchAll \/ UNCHANGED saw
      PROVE  stillActive'[t] = {}
  BY <1>2 DEF ThreadInv, Watched, WatchAll, saw
<1>3. ASSUME ~Choosing(t), WatchAll \/ UNCHANGED saw,
             pc'[t] \in {"idle", "snapshot", "tag", "image_get", "image_delete", "read"}
      PROVE  ThreadInv(t)'
  BY <1>2, <1>3, RestKeeps
<1>4. ASSUME Return(t) PROVE pc'[t] = "idle"
  BY <1>4 DEF Return, Goto, TypeOK
<1>5. CASE Begin(t)
  <2>1. PICK n \in Names : /\ ask'[t] = n /\ Watch(t, n)
    BY <1>5 DEF Begin, TypeOK
  <2>2. pc'[t] = "lookup" /\ UNCHANGED status
    BY <1>5 DEF Begin, Goto, TypeOK, catalogue
  <2>3. Watched(t)'
    BY <2>1, <2>2 DEF Watch, Watched, Choosing, TypeOK, AllActive, AllInactive, Active, Exists
  <2> QED
    BY <2>2, <2>3 DEF ThreadInv, Wanted, Fits, Finds, Reading
<1>6. ASSUME Choosing(t), Named(t) = {}, Missing(t), UNCHANGED <<catalogue, saw>>
      PROVE  ThreadInv(t)'
  BY <1>6, MissingKeeps
<1>7. CASE Lookup(t)
  <2>1. Choosing(t)
    BY <1>7 DEF Lookup, Choosing
  <2>2. CASE Goto(t, "list") /\ UNCHANGED <<choice, image, todo, removal, saw>>
    <3>1. pc'[t] = "list" /\ UNCHANGED <<ask, status, saw>>
      BY <1>7, <2>2 DEF Lookup, Goto, TypeOK, catalogue, choice
    <3>2. Watched(t)'
      BY <2>1, <3>1
      DEF ThreadInv, Watched, Choosing, AllActive, AllInactive, Active, Exists, saw
    <3> QED
      BY <3>1, <3>2 DEF ThreadInv, Wanted, Fits, Finds, Reading
  <2>3. ASSUME NEW i \in Images, Named(t) = {i}, Found(t, i), UNCHANGED <<catalogue, saw>>
        PROVE  ThreadInv(t)'
    <3>1. \A c \in stillActive[t] : c = i
      BY <2>1, <2>3, StillNamed
    <3>2. Info[i].created >= Info[i].created
      BY InfoType
    <3> QED
      BY <2>1, <2>3, <3>1, <3>2, FoundKeeps
  <2> QED
    BY <1>1, <1>6, <1>7, <2>1, <2>2, <2>3 DEF Lookup
<1>8. CASE List(t)
  <2>1. Choosing(t)
    BY <1>8 DEF List, Choosing
  <2>2. ASSUME NEW i \in Newest(Named(t)), Found(t, i), UNCHANGED <<catalogue, saw>>
        PROVE  ThreadInv(t)'
    <3>1. i \in Images /\ i \in Named(t)
      BY <2>2 DEF Newest, Named, Called
    <3>2. \A c \in stillActive[t] : Info[i].created >= Info[c].created
      <4> TAKE c \in stillActive[t]
      <4>1. c \in Named(t) /\ c \in Images
        BY <2>1, StillNamed DEF Named, Called
      <4> QED
        BY <2>2, <3>1, <4>1, InfoType DEF Newest
    <3> QED
      BY <2>1, <2>2, <3>1, <3>2, FoundKeeps
  <2> QED
    BY <1>1, <1>6, <1>8, <2>1, <2>2 DEF List
<1>9. CASE Replace(t)
  BY <1>1, <1>9, ReplaceKeeps
<1>10. CASE Boot(t) \/ Answer(t)
  BY <1>1, <1>10 DEF Boot, Answer
<1>11. CASE BeginSnapshot(t)
  BY <1>3, <1>11 DEF BeginSnapshot, Goto, TypeOK, Choosing
<1>12. CASE Snapshot(t)
  BY <1>3, <1>4, <1>12 DEF Snapshot, Goto, TypeOK, Choosing
<1>13. CASE AddTag(t)
  BY <1>3, <1>4, <1>13 DEF AddTag, TypeOK, Choosing
<1>14. CASE BeginDeleteImage(t)
  BY <1>3, <1>14 DEF BeginDeleteImage, Goto, TypeOK, Choosing
<1>15. CASE ImageGet(t)
  BY <1>3, <1>4, <1>15 DEF ImageGet, Goto, TypeOK, Choosing
<1>16. CASE ImageDelete(t)
  BY <1>3, <1>4, <1>16 DEF ImageDelete, Choosing
<1>17. CASE BeginDelete(t)
  BY <1>3, <1>17 DEF BeginDelete, Goto, TypeOK, Choosing
<1>18. CASE ReadServer(t)
  <2>1. CASE Return(t)
    BY <1>3, <1>4, <1>18, <2>1 DEF ReadServer, Choosing
  <2>2. CASE ~Return(t)
    <3>1. pc'[t] \in {"netcat", "delete"} /\ busy'[t] = read'[t] /\ UNCHANGED saw
      BY <1>18, <2>2 DEF ReadServer, Goto, TypeOK
    <3>2. stillActive'[t] = {}
      BY <1>2, <1>18, <3>1 DEF ReadServer, Choosing
    <3> QED
      BY <3>1, <3>2 DEF ThreadInv, Watched, Wanted, Fits, Finds, Reading, Choosing
  <2> QED
    BY <2>1, <2>2
<1>19. CASE Netcat(t)
  <2>1. pc'[t] = "delete" /\ UNCHANGED saw /\ (silent'[t] \/ busy'[t] = read'[t])
    BY <1>19 DEF Netcat, Goto, TypeOK, ThreadInv, Reading
  <2>2. stillActive'[t] = {}
    BY <1>2, <1>19, <2>1 DEF Netcat, Choosing
  <2> QED
    BY <2>1, <2>2 DEF ThreadInv, Watched, Wanted, Fits, Finds, Reading, Choosing
<1>20. CASE DeleteServer(t)
  BY <1>3, <1>4, <1>20 DEF DeleteServer, Remove, Choosing
<1> QED
  BY <1>5, <1>7, <1>8, <1>9, <1>10, <1>11, <1>12, <1>13, <1>14, <1>15, <1>16, <1>17, <1>18,
     <1>19, <1>20 DEF Work

LEMMA IInvInit == Init => IInv
<1> SUFFICES ASSUME Init PROVE IInv
  OBVIOUS
<1>1. LocalTypes
  BY DEF Init, LocalTypes, Steps, Kinds, NoWant
<1>2. CatalogueTypes /\ SawTypes
  BY ImagesAssumption DEF Init, CatalogueTypes, SawTypes
<1>3. \A t \in Threads : ThreadInv(t)
  BY DEF Init, ThreadInv, Watched, Wanted, Fits, Finds, Reading, Choosing
<1> QED
  BY <1>1, <1>2, <1>3, TypeParts DEF IInv

LEMMA IInvStep == IInv /\ [Next]_vars => IInv'
<1> SUFFICES ASSUME IInv, [Next]_vars, NEW u \in Threads PROVE ThreadInv(u)'
  BY TypeStep DEF IInv
<1>1. TypeOK /\ ThreadInv(u)
  BY DEF IInv
<1>2. ASSUME NEW t \in Threads, Work(t) PROVE ThreadInv(u)'
  BY <1>1, <1>2, OwnStep, OthersSteady, SteadyKeeps
<1>3. CASE (\E s \in Servers : SnapshotEnds(s)) \/ (\E i \in Images : Change(i))
  <2>1. Steady(u)
    BY <1>3, TagsGrow DEF SnapshotEnds, Change, WatchAll, Steady, choice, removal
  <2> QED
    BY <1>1, <2>1, SteadyKeeps
<1>4. CASE UNCHANGED vars
  <2>1. Steady(u)
    BY <1>4 DEF vars, catalogue, choice, saw, removal, Steady
  <2> QED
    BY <1>1, <2>1, SteadyKeeps
<1> QED
  BY <1>2, <1>3, <1>4 DEF Next

(* The inductive invariant.                                                *)
THEOREM Invariance == Spec => []IInv
  BY IInvInit, IInvStep, PTL DEF Spec

-----------------------------------------------------------------------------
(* The theorems                                                            *)

(* Only start_server goes on without an image, and the locals have their   *)
(* types.                                                                  *)
THEOREM TypeCorrect == Spec => []TypeOK
<1>1. IInv => TypeOK
  BY DEF IInv
<1> QED
  BY <1>1, Invariance, PTL

(* get_image gives no image that does not fit the one asked for.           *)
THEOREM WhatFits == Spec => []ReplacementFits
<1>1. IInv => ReplacementFits
  BY DEF IInv, ThreadInv, Fits, ReplacementFits
<1> QED
  BY <1>1, Invariance, PTL

(* ... and finds the image asked for, if it is active all the time.        *)
THEOREM Finding == Spec => []FoundIfActive
<1>1. IInv => FoundIfActive
  BY DEF IInv, ThreadInv, Finds, FoundIfActive
<1> QED
  BY <1>1, Invariance, PTL

(* A server is deleted only by delete_server, in the step that has looked  *)
(* at the task state.                                                      *)
LEMMA OnlyDeleteServer ==
  ASSUME TypeOK, [Next]_vars, NEW s \in alive \ alive'
  PROVE  \E t \in Threads : DeleteServer(t) /\ busy[t] = NoImage /\ srv[t] = s
<1>1. ASSUME NEW t \in Threads, DeleteServer(t)
      PROVE  busy[t] = NoImage /\ srv[t] = s
  BY <1>1 DEF DeleteServer, Remove
<1>2. ~ UNCHANGED alive
  OBVIOUS
<1> QED
  BY <1>1, <1>2
  DEF Next, Work, vars, catalogue, Begin, Lookup, List, Replace, Boot, Answer, BeginSnapshot,
      Snapshot, AddTag, BeginDeleteImage, ImageGet, ImageDelete, BeginDelete, ReadServer,
      Netcat, SnapshotEnds, Change

(* The guard of delete_server holds good for what was read, if the server  *)
(* answered.                                                               *)
THEOREM Sparing == Spec => DeletionSparesSnapshots
<1>1. ASSUME IInv, [Next]_vars, NEW s \in Servers, s \in alive \ alive', task[s] # NoImage
      PROVE  \E t \in Threads : /\ pc[t] = "delete" /\ srv[t] = s
                                /\ silent[t] \/ read[t] # task[s]
  <2>1. PICK t \in Threads : DeleteServer(t) /\ busy[t] = NoImage /\ srv[t] = s
    BY <1>1, OnlyDeleteServer DEF IInv
  <2>2. pc[t] = "delete" /\ Reading(t)
    BY <1>1, <2>1 DEF DeleteServer, IInv, ThreadInv
  <2> QED
    BY <1>1, <2>1, <2>2 DEF Reading
<1>2. IInv /\ [Next]_vars =>
        [\A s \in Servers : s \in alive \ alive' /\ task[s] # NoImage =>
           \E t \in Threads : /\ pc[t] = "delete" /\ srv[t] = s
                              /\ silent[t] \/ read[t] # task[s]]_vars
  BY <1>1
<1> QED
  BY <1>2, Invariance, PTL DEF Spec, DeletionSparesSnapshots

=============================================================================
