---------------------------- MODULE ProjectGroups ----------------------------
(***************************************************************************)
(* What get_or_create_project_security_group promises to the requests that *)
(* need the security group of a project: whoever asks is given the one     *)
(* group of the project they ask for, when nobody is making it any more,   *)
(* or nothing; and a server gets no other group of a project than the one  *)
(* its request was given.  A group whose making was cut short stays broken *)
(* and is given like a complete one.  There is no lock here.               *)
(***************************************************************************)
CONSTANTS Threads, Servers, Groups, Projects, NoGroup, NoName

VARIABLES
  group,   \* group[n]: the groups of the project n
  made,    \* made[n]: "none", "making", "complete" or "broken"
  asked,   \* asked[t]: the project whose group t needs
  given,   \* given[t]: the group t was given for its server
  joined   \* joined[s]: the groups of projects that s is in

groupVars == <<group, made, asked, given, joined>>

GroupsInit ==
  /\ group = [n \in Projects |-> {}]
  /\ made = [n \in Projects |-> "none"]
  /\ asked = [t \in Threads |-> NoName]
  /\ given = [t \in Threads |-> NoGroup]
  /\ joined = [s \in Servers |-> {}]

Ask(t, n) ==
  /\ asked[t] = NoName /\ given[t] = NoGroup
  /\ asked' = [asked EXCEPT ![t] = n]
  /\ UNCHANGED <<group, made, given, joined>>

(* Only a project without a group gets one, and it is a new one.           *)
Create(t, g) ==
  /\ asked[t] # NoName
  /\ made[asked[t]] = "none"
  /\ \A n \in Projects : g \notin group[n]
  /\ group' = [group EXCEPT ![asked[t]] = {g}]
  /\ \E m \in {"making", "broken"} : made' = [made EXCEPT ![asked[t]] = m]
  /\ UNCHANGED <<asked, given, joined>>

(* The group has its rule, or will not get it.                             *)
Finish(n) ==
  /\ made[n] = "making"
  /\ \E m \in {"complete", "broken"} : made' = [made EXCEPT ![n] = m]
  /\ UNCHANGED <<group, asked, given, joined>>

Give(t, g) ==
  /\ asked[t] # NoName
  /\ group[asked[t]] = {g}
  /\ made[asked[t]] \in {"complete", "broken"}
  /\ given' = [given EXCEPT ![t] = g]
  /\ asked' = [asked EXCEPT ![t] = NoName]
  /\ UNCHANGED <<group, made, joined>>

Fail(t) ==
  /\ asked[t] # NoName
  /\ asked' = [asked EXCEPT ![t] = NoName]
  /\ UNCHANGED <<group, made, given, joined>>

Join(t, s) ==
  /\ given[t] # NoGroup
  /\ joined' = [joined EXCEPT ![s] = @ \cup {given[t]}]
  /\ given' = [given EXCEPT ![t] = NoGroup]
  /\ UNCHANGED <<group, made, asked>>

(* The server is in such a group already, or there is no server.           *)
Drop(t) ==
  /\ given[t] # NoGroup
  /\ given' = [given EXCEPT ![t] = NoGroup]
  /\ UNCHANGED <<group, made, asked, joined>>

Part(s, gs) ==
  /\ joined' = [joined EXCEPT ![s] = @ \ gs]
  /\ UNCHANGED <<group, made, asked, given>>

(* All requests end at once, and with them the making of groups.           *)
Crash ==
  /\ made' = [n \in Projects |-> IF made[n] = "making" THEN "broken" ELSE made[n]]
  /\ asked' = [t \in Threads |-> NoName]
  /\ given' = [t \in Threads |-> NoGroup]
  /\ UNCHANGED <<group, joined>>

GroupsNext ==
  \/ \E t \in Threads :
       \/ \E n \in Projects : Ask(t, n)
       \/ \E g \in Groups : Create(t, g) \/ Give(t, g)
       \/ \E s \in Servers : Join(t, s)
       \/ Fail(t) \/ Drop(t)
  \/ \E n \in Projects : Finish(n)
  \/ \E s \in Servers : \E gs \in SUBSET Groups : Part(s, gs)
  \/ Crash

GroupsSpec == GroupsInit /\ [][GroupsNext]_groupVars
=============================================================================
