--------------------------- MODULE SecurityGroups ---------------------------
(***************************************************************************)
(* Security groups: how OpenStackConnector finds or creates the group of a *)
(* project and that of a research environment when it starts a server,     *)
(* attaches them to a running one and lets go of them when one is deleted. *)
(*                                                                         *)
(* OpenStack does not keep group names unique, and a lookup by a name that *)
(* two groups have raises.  The group of a project is therefore looked up  *)
(* and created under a lock of its own (lock_dict), the lock itself under  *)
(* lock_access; the group of a research environment is not.  An action is  *)
(* one call of the OpenStack API or one step of the locking.  A call may   *)
(* raise, and one that creates something may do so although OpenStack has  *)
(* carried it out, when the answer does not come in time.                  *)
(***************************************************************************)
EXTENDS Naturals

CONSTANTS
  Threads,       \* worker threads of the server
  Servers,       \* OpenStack servers; they bound the creations
  Groups,        \* ids of security groups; they bound the creations
  Projects,      \* names "<project_name>_<project_id>"
  Environments,  \* ResearchEnvironmentMetadata.securitygroup_name
  Nobody,        \* no thread: a lock that is free, or a lock not there
  NoGroup, NoServer, NoName,
  MaxRestarts    \* bound on the crashes of the client

ASSUME GroupsAssumption ==
  /\ Nobody \notin Threads
  /\ NoGroup \notin Groups
  /\ NoServer \notin Servers
  /\ NoName \notin Projects \cup Environments
  /\ Projects \cap Environments = {}
  /\ MaxRestarts \in Nat

VARIABLES
  name,        \* name[g] of each group; NoName: g does not exist
  ruled,       \* groups of projects that have the rule they are made with
  spoiled,     \* history: groups of projects whose making was cut short, by a
               \* call that raised or by a crash: they may lack their rule
  live,        \* servers that exist
  started,     \* servers ever created
  attached,    \* the groups of each server
  lockAccess,  \* lock_access: the thread that holds it
  lockDict,    \* lock_dict[n], a Lock named by the thread that made it
  holder,      \* holder[n][k]: who holds the Lock that k made for n
  pc, op,      \* per thread: next step, and the request it serves
  srv, env, prj,  \* its arguments
  todo,        \* names still to visit in a loop over server.security_groups
  lock,        \* the local lock
  grp,         \* the local sec; NoGroup: none, or an exception under way
  found,       \* the local list security_groups
  restarts     \* crashes so far

openstack == <<name, ruled, spoiled, live, started, attached>>
locks     == <<lockAccess, lockDict, holder>>
args      == <<op, srv, env, prj>>
locals    == <<pc, args, todo, lock, grp, found>>
vars      == <<openstack, locks, locals, restarts>>

Names == Projects \cup Environments

StartSteps   == {"env_get", "env_create", "env_rule", "create"}
ProjectSteps == {"access", "look", "insert", "acquire", "get", "new", "rule",
                 "release"}
AddSteps     == {"add_get", "add_list", "add"}
LoopSteps    == {"delete", "del_group", "rem_group"}
Steps == {"idle"} \cup StartSteps \cup ProjectSteps \cup AddSteps \cup LoopSteps
Operations == {"none", "start", "add_project", "add_environment", "delete",
               "remove"}

(* get_security_group(name): the groups of that name.                      *)
Named(n) == {g \in Groups : name[g] = n}
NamesOf(s) == {name[g] : g \in attached[s]}
NoneNamed(n) == Named(n) = {}
OneNamed(n)  == \E g \in Groups : Named(n) = {g}
Unused == {g \in Groups : name[g] = NoName}

-----------------------------------------------------------------------------
Init ==
  /\ name = [g \in Groups |-> NoName]
  /\ ruled = {} /\ spoiled = {}
  /\ live = {} /\ started = {}
  /\ attached = [s \in Servers |-> {}]
  /\ lockAccess = Nobody
  /\ lockDict = [n \in Projects |-> Nobody]
  /\ holder = [n \in Projects |-> [k \in Threads |-> Nobody]]
  /\ pc = [t \in Threads |-> "idle"]
  /\ op = [t \in Threads |-> "none"]
  /\ srv = [t \in Threads |-> NoServer]
  /\ env = [t \in Threads |-> NoName]
  /\ prj = [t \in Threads |-> NoName]
  /\ todo = [t \in Threads |-> {}]
  /\ lock = [t \in Threads |-> Nobody]
  /\ grp = [t \in Threads |-> NoGroup]
  /\ found = [t \in Threads |-> {}]
  /\ restarts = 0

Goto(t, s) == pc' = [pc EXCEPT ![t] = s]
SetGroup(t, g) == grp' = [grp EXCEPT ![t] = g]

(* The handler returns or raises; its locals go out of scope.              *)
Return(t) ==
  /\ Goto(t, "idle")
  /\ op' = [op EXCEPT ![t] = "none"]
  /\ srv' = [srv EXCEPT ![t] = NoServer]
  /\ env' = [env EXCEPT ![t] = NoName]
  /\ prj' = [prj EXCEPT ![t] = NoName]
  /\ todo' = [todo EXCEPT ![t] = {}]
  /\ lock' = [lock EXCEPT ![t] = Nobody]
  /\ grp' = [grp EXCEPT ![t] = NoGroup]
  /\ found' = [found EXCEPT ![t] = {}]

Accept(t, o, s, e, n, first) ==
  /\ pc[t] = "idle"
  /\ Goto(t, first)
  /\ op' = [op EXCEPT ![t] = o]
  /\ srv' = [srv EXCEPT ![t] = s]
  /\ env' = [env EXCEPT ![t] = e]
  /\ prj' = [prj EXCEPT ![t] = n]
  /\ UNCHANGED <<todo, lock, grp, found>>

(* A new group g with name n.                                              *)
CreateGroup(g, n) == name' = [name EXCEPT ![g] = n]
Spoil(g) == spoiled' = spoiled \cup {g}

-----------------------------------------------------------------------------
(* Mutants: what the named action would be with a plausible bug.  They are *)
(* not part of the specification.                                          *)

(* AcquireAccess without lock_access.                                      *)
AcquireNothing(t) ==
  /\ pc[t] = "access"
  /\ Goto(t, "look")
  /\ UNCHANGED <<openstack, locks, args, todo, lock, grp, found>>

(* ProjectNew that ends the locked section before the rule is there.       *)
NewAndRelease(t) ==
  /\ pc[t] = "new"
  /\ holder' = [holder EXCEPT ![prj[t]][lock[t]] = Nobody]
  /\ \/ \E g \in Unused :
          /\ CreateGroup(g, prj[t])
          /\ \/ /\ SetGroup(t, g)
                /\ Goto(t, "rule")
                /\ UNCHANGED spoiled
             \/ /\ Spoil(g)
                /\ Goto(t, "release")
                /\ UNCHANGED grp
     \/ /\ Goto(t, "release")
        /\ UNCHANGED <<name, spoiled, grp>>
  /\ UNCHANGED <<ruled, live, started, attached, lockAccess, lockDict, args,
                 todo, lock, found>>

(* ProjectRule that does not release the lock when the call raises.        *)
RuleKeepsLock(t) ==
  /\ pc[t] = "rule"
  /\ \/ /\ ruled' = ruled \cup {grp[t]}
        /\ UNCHANGED spoiled
        /\ \/ Return(t)
           \/ Goto(t, "release") /\ UNCHANGED <<args, todo, lock, grp, found>>
     \/ /\ Spoil(grp[t])
        /\ Return(t)
        /\ UNCHANGED ruled
  /\ UNCHANGED <<name, live, started, attached, locks>>

(* Release that returns what it has, even after an exception.              *)
ReleaseAndReturn(t) ==
  /\ pc[t] = "release"
  /\ holder' = [holder EXCEPT ![prj[t]][lock[t]] = Nobody]
  /\ found' = [found EXCEPT ![t] = @ \cup {grp[t]}]
  /\ Goto(t, IF op[t] = "start" THEN "create" ELSE "add_list")
  /\ UNCHANGED <<openstack, lockAccess, lockDict, args, todo, lock, grp>>

(* AddGet that takes the first of several groups.                          *)
AddGetFirst(t) ==
  /\ pc[t] = "add_get"
  /\ \/ \E g \in Named(env[t]) :
          /\ SetGroup(t, g)
          /\ Goto(t, "add_list")
          /\ UNCHANGED <<args, todo, lock, found>>
     \/ Named(env[t]) = {} /\ Return(t)
  /\ UNCHANGED <<openstack, locks>>

-----------------------------------------------------------------------------
(* start_server, start_server_with_playbook: first the group of the        *)
(* research environment, if there is one, then that of the project.        *)

BeginStart(t, e, n) ==
  /\ Accept(t, "start", NoServer, e, n,
            IF e = NoName THEN "access" ELSE "env_get")
  /\ UNCHANGED <<openstack, locks>>

(* Every call of OpenStack may raise; a lookup does when several groups    *)
(* have the name.                                                          *)
EnvGet(t) ==
  /\ pc[t] = "env_get"
  /\ \/ Return(t)
     \/ /\ OneNamed(env[t])
        /\ found' = [found EXCEPT ![t] = @ \cup Named(env[t])]
        /\ Goto(t, "access")
        /\ UNCHANGED <<args, todo, lock, grp>>
     \/ /\ NoneNamed(env[t])
        /\ Goto(t, "env_create")
        /\ UNCHANGED <<args, todo, lock, grp, found>>
  /\ UNCHANGED <<openstack, locks>>

EnvCreate(t) ==
  /\ pc[t] = "env_create"
  /\ \/ \E g \in Unused :
          /\ CreateGroup(g, env[t])
          /\ \/ /\ SetGroup(t, g)
                /\ Goto(t, "env_rule")
                /\ UNCHANGED <<args, todo, lock, found>>
             \/ Return(t)
     \/ Return(t) /\ UNCHANGED name
  /\ UNCHANGED <<ruled, spoiled, live, started, attached, locks>>

(* The rule that lets FORC reach the servers; nothing here depends on       *)
(* whether it is there.                                                    *)
EnvRule(t) ==
  /\ pc[t] = "env_rule"
  /\ \/ /\ found' = [found EXCEPT ![t] = @ \cup {grp[t]}]
        /\ SetGroup(t, NoGroup)
        /\ Goto(t, "access")
        /\ UNCHANGED <<args, todo, lock>>
     \/ Return(t)
  /\ UNCHANGED <<openstack, locks>>

-----------------------------------------------------------------------------
(* get_or_create_project_security_group                                    *)

(* with lock_access: ...                                                   *)
AcquireAccess(t) ==
  /\ pc[t] = "access"
  /\ lockAccess = Nobody
  /\ lockAccess' = t
  /\ Goto(t, "look")
  /\ UNCHANGED <<openstack, lockDict, holder, args, todo, lock, grp, found>>

LookForLock(t) ==
  /\ pc[t] = "look"
  /\ \/ /\ lockDict[prj[t]] = Nobody
        /\ Goto(t, "insert")
        /\ UNCHANGED <<lock, lockAccess>>
     \/ /\ lockDict[prj[t]] # Nobody
        /\ lock' = [lock EXCEPT ![t] = lockDict[prj[t]]]
        /\ lockAccess' = Nobody
        /\ Goto(t, "acquire")
  /\ UNCHANGED <<openstack, lockDict, holder, args, todo, grp, found>>

InsertLock(t) ==
  /\ pc[t] = "insert"
  /\ lockDict' = [lockDict EXCEPT ![prj[t]] = t]
  /\ Goto(t, "look")
  /\ UNCHANGED <<openstack, lockAccess, holder, args, todo, lock, grp, found>>

(* with lock: ...                                                          *)
AcquireLock(t) ==
  /\ pc[t] = "acquire"
  /\ holder[prj[t]][lock[t]] = Nobody
  /\ holder' = [holder EXCEPT ![prj[t]][lock[t]] = t]
  /\ Goto(t, "get")
  /\ UNCHANGED <<openstack, lockAccess, lockDict, args, todo, lock, grp, found>>

ProjectGet(t) ==
  /\ pc[t] = "get"
  /\ \/ /\ Goto(t, "release")
        /\ UNCHANGED grp
     \/ \E g \in Groups :
          /\ Named(prj[t]) = {g}
          /\ SetGroup(t, g)
          /\ Goto(t, "release")
     \/ /\ NoneNamed(prj[t])
        /\ Goto(t, "new")
        /\ UNCHANGED grp
  /\ UNCHANGED <<openstack, locks, args, todo, lock, found>>

ProjectNew(t) ==
  /\ pc[t] = "new"
  /\ \/ \E g \in Unused :
          /\ CreateGroup(g, prj[t])
          /\ \/ /\ SetGroup(t, g)
                /\ Goto(t, "rule")
                /\ UNCHANGED spoiled
             \/ /\ Spoil(g)
                /\ Goto(t, "release")
                /\ UNCHANGED grp
     \/ /\ Goto(t, "release")
        /\ UNCHANGED <<name, spoiled, grp>>
  /\ UNCHANGED <<ruled, live, started, attached, locks, args, todo, lock, found>>

(* The SSH rule between the members of the project.                        *)
ProjectRule(t) ==
  /\ pc[t] = "rule"
  /\ \/ /\ ruled' = ruled \cup {grp[t]}
        /\ UNCHANGED grp \/ SetGroup(t, NoGroup)
        /\ UNCHANGED spoiled
     \/ /\ Spoil(grp[t])
        /\ SetGroup(t, NoGroup)
        /\ UNCHANGED ruled
  /\ Goto(t, "release")
  /\ UNCHANGED <<name, live, started, attached, locks, args, todo, lock, found>>

(* The lock is released in any case; then the id is returned, or the       *)
(* exception goes on through the handler.                                  *)
Release(t) ==
  /\ pc[t] = "release"
  /\ holder' = [holder EXCEPT ![prj[t]][lock[t]] = Nobody]
  /\ \/ /\ grp[t] = NoGroup
        /\ Return(t)
     \/ /\ grp[t] # NoGroup
        /\ op[t] = "start"
        /\ found' = [found EXCEPT ![t] = @ \cup {grp[t]}]
        /\ Goto(t, "create")
        /\ UNCHANGED <<args, todo, lock, grp>>
     \/ /\ grp[t] # NoGroup
        /\ op[t] = "add_project"
        /\ Goto(t, "add_list")
        /\ UNCHANGED <<args, todo, lock, grp, found>>
  /\ UNCHANGED <<openstack, lockAccess, lockDict>>

(* create_server with the list; OpenStack may refuse.                      *)
CreateServer(t) ==
  /\ pc[t] = "create"
  /\ \/ \E s \in Servers \ started :
          /\ live' = live \cup {s}
          /\ started' = started \cup {s}
          /\ attached' = [attached EXCEPT ![s] = found[t]]
     \/ UNCHANGED <<live, started, attached>>
  /\ Return(t)
  /\ UNCHANGED <<name, ruled, spoiled, locks>>

-----------------------------------------------------------------------------
(* add_project_security_group_to_server,                                   *)
(* add_research_environment_security_group                                 *)

BeginAddProject(t, s, n) ==
  /\ s \in live
  /\ Accept(t, "add_project", s, NoName, n, "access")
  /\ UNCHANGED <<openstack, locks>>

BeginAddEnvironment(t, s, e) ==
  /\ s \in live
  /\ Accept(t, "add_environment", s, e, NoName, "add_get")
  /\ UNCHANGED <<openstack, locks>>

(* Without such a group, DefaultException.                                 *)
AddGet(t) ==
  /\ pc[t] = "add_get"
  /\ \/ \E g \in Groups :
          /\ Named(env[t]) = {g}
          /\ SetGroup(t, g)
          /\ Goto(t, "add_list")
          /\ UNCHANGED <<args, todo, lock, found>>
     \/ Return(t)
  /\ UNCHANGED <<openstack, locks>>

(* _is_security_group_already_added_to_server compares names; nothing to   *)
(* do if it finds the name.                                                *)
AddList(t) ==
  /\ pc[t] = "add_list"
  /\ \/ Return(t)
     \/ /\ name[grp[t]] \notin NamesOf(srv[t])
        /\ Goto(t, "add")
        /\ UNCHANGED <<args, todo, lock, grp, found>>
  /\ UNCHANGED <<openstack, locks>>

(* add_security_group_to_server; the server may be gone by now.            *)
AddToServer(t) ==
  /\ pc[t] = "add"
  /\ \/ /\ srv[t] \in live
        /\ attached' = [attached EXCEPT ![srv[t]] = @ \cup {grp[t]}]
     \/ UNCHANGED attached
  /\ Return(t)
  /\ UNCHANGED <<name, ruled, spoiled, live, started, locks>>

-----------------------------------------------------------------------------
(* delete_server, remove_security_groups_from_server: the names come from  *)
(* the server as get_server has read it.                                   *)

BeginLoop(t, s, o) ==
  /\ s \in live
  /\ pc[t] = "idle"
  /\ Goto(t, IF o = "delete" THEN "delete" ELSE "rem_group")
  /\ op' = [op EXCEPT ![t] = o]
  /\ srv' = [srv EXCEPT ![t] = s]
  /\ todo' = [todo EXCEPT ![t] = NamesOf(s)]
  /\ UNCHANGED <<openstack, locks, env, prj, lock, grp, found>>

(* _validate_server_for_deletion may refuse.                               *)
DeleteServer(t) ==
  /\ pc[t] = "delete"
  /\ \/ /\ live' = live \ {srv[t]}
        /\ attached' = [attached EXCEPT ![srv[t]] = {}]
        /\ Goto(t, "del_group")
        /\ UNCHANGED <<args, todo, lock, grp, found>>
     \/ Return(t) /\ UNCHANGED <<live, attached>>
  /\ UNCHANGED <<name, ruled, spoiled, started, locks>>

(* is_security_group_in_use asks `if instances:` of a generator, which is  *)
(* true whether it yields anything or not.                                 *)
IsSecurityGroupInUse(g) == TRUE

(* After the last name, or when a call raises, the request is over.        *)
VisitGroup(t) ==
  /\ pc[t] \in {"del_group", "rem_group"}
  /\ \/ /\ Return(t)
        /\ UNCHANGED <<name, attached>>
     \/ \E g \in Groups : \E n \in todo[t] :
          /\ Named(n) = {g}
          /\ todo' = [todo EXCEPT ![t] = @ \ {n}]
          /\ attached' = [attached EXCEPT ![srv[t]] =
                            IF pc[t] = "rem_group" THEN @ \ {g} ELSE @]
          /\ name' = [name EXCEPT ![g] =
                        IF IsSecurityGroupInUse(g) THEN @ ELSE NoName]
          /\ UNCHANGED <<pc, args, lock, grp, found>>
  /\ UNCHANGED <<ruled, spoiled, live, started, locks>>

-----------------------------------------------------------------------------
Request(t) ==
  \/ \E e \in Environments \cup {NoName}, n \in Projects : BeginStart(t, e, n)
  \/ \E s \in Servers :
       \/ \E n \in Projects : BeginAddProject(t, s, n)
       \/ \E e \in Environments : BeginAddEnvironment(t, s, e)
       \/ \E o \in {"delete", "remove"} : BeginLoop(t, s, o)

Step(t) ==
  \/ EnvGet(t) \/ EnvCreate(t) \/ EnvRule(t)
  \/ AcquireAccess(t) \/ LookForLock(t) \/ InsertLock(t) \/ AcquireLock(t)
  \/ ProjectGet(t) \/ ProjectNew(t) \/ ProjectRule(t) \/ Release(t)
  \/ CreateServer(t)
  \/ AddGet(t) \/ AddList(t) \/ AddToServer(t)
  \/ DeleteServer(t) \/ VisitGroup(t)

(* The client dies and starts again: the threads and their locks are gone. *)
Restart ==
  /\ restarts < MaxRestarts
  /\ restarts' = restarts + 1
  /\ spoiled' = spoiled \cup {grp[t] : t \in {u \in Threads : pc[u] = "rule"}}
  /\ lockAccess' = Nobody
  /\ lockDict' = [n \in Projects |-> Nobody]
  /\ holder' = [n \in Projects |-> [k \in Threads |-> Nobody]]
  /\ pc' = [t \in Threads |-> "idle"]
  /\ op' = [t \in Threads |-> "none"]
  /\ srv' = [t \in Threads |-> NoServer]
  /\ env' = [t \in Threads |-> NoName]
  /\ prj' = [t \in Threads |-> NoName]
  /\ todo' = [t \in Threads |-> {}]
  /\ lock' = [t \in Threads |-> Nobody]
  /\ grp' = [t \in Threads |-> NoGroup]
  /\ found' = [t \in Threads |-> {}]
  /\ UNCHANGED <<name, ruled, live, started, attached>>

Next ==
  \/ \E t \in Threads : (Request(t) \/ Step(t)) /\ UNCHANGED restarts
  \/ Restart

Spec == Init /\ [][Next]_vars

(* Every thread that can run is run.  Nothing is assumed about who gets a  *)
(* contended lock.                                                         *)
FairSpec ==
  Spec /\ \A t \in Threads : WF_vars(Step(t) /\ UNCHANGED restarts)

-----------------------------------------------------------------------------
(* Properties.                                                             *)

TypeOK ==
  /\ name \in [Groups -> Names \cup {NoName}]
  /\ ruled \subseteq Groups
  /\ spoiled \subseteq Groups
  /\ live \subseteq started
  /\ started \subseteq Servers
  /\ attached \in [Servers -> SUBSET Groups]
  /\ lockAccess \in Threads \cup {Nobody}
  /\ lockDict \in [Projects -> Threads \cup {Nobody}]
  /\ holder \in [Projects -> [Threads -> Threads \cup {Nobody}]]
  /\ pc \in [Threads -> Steps]
  /\ op \in [Threads -> Operations]
  /\ srv \in [Threads -> Servers \cup {NoServer}]
  /\ env \in [Threads -> Environments \cup {NoName}]
  /\ prj \in [Threads -> Projects \cup {NoName}]
  /\ todo \in [Threads -> SUBSET Names]
  /\ lock \in [Threads -> Threads \cup {Nobody}]
  /\ grp \in [Threads -> Groups \cup {NoGroup}]
  /\ found \in [Threads -> SUBSET Groups]
  /\ restarts \in 0 .. MaxRestarts

(* However many requests start servers of a project for the first time,    *)
(* the project gets one group; a second one would make every later lookup  *)
(* raise, and with it every start in this project.                         *)
OneGroupPerProject ==
  \A g, h \in Groups : name[g] \in Projects /\ name[h] = name[g] => h = g

(* No server is given a project group that is still being made: its SSH    *)
(* rule exists, unless the request that made the group was cut short.      *)
ProjectGroupsAreComplete ==
  \A s \in Servers : \A g \in attached[s] :
    name[g] \in Projects => g \in ruled \cup spoiled

(* No server has two groups of the same name, though the test for it and   *)
(* the addition are two calls and names are not unique.                    *)
NoTwinsAttached ==
  \A s \in Servers : \A g, h \in attached[s] : name[g] = name[h] => g = h

(* The abstract state of ProjectGroups: the thread at ProjectRule makes a  *)
(* group; get_or_create_project_security_group is asked from its first     *)
(* step to its last; what it returns is given until the server has it.     *)
Made(n) ==
  IF NoneNamed(n) THEN "none"
  ELSE IF \E t \in Threads : pc[t] = "rule" /\ prj[t] = n THEN "making"
  ELSE IF Named(n) \subseteq ruled THEN "complete" ELSE "broken"
Asked(t) == IF pc[t] \in ProjectSteps THEN prj[t] ELSE NoName
Given(t) ==
  IF pc[t] \in {"create", "add_list", "add"} /\ prj[t] # NoName
  THEN grp[t] ELSE NoGroup

Promise == INSTANCE ProjectGroups WITH
  group  <- [n \in Projects |-> Named(n)],
  made   <- [n \in Projects |-> Made(n)],
  asked  <- [t \in Threads |-> Asked(t)],
  given  <- [t \in Threads |-> Given(t)],
  joined <- [s \in Servers |-> {g \in attached[s] : name[g] \in Projects}]

(* Whoever needs the group of a project is given the only one there is,    *)
(* once nobody works on it any more, or nothing; and servers get no other  *)
(* group of a project.                                                     *)
ImplementsProjectGroups == Promise!GroupsSpec

(* Locks are only held for a while, whatever OpenStack refuses.            *)
LocksAreFreed ==
  /\ lockAccess # Nobody ~> lockAccess = Nobody
  /\ \A n \in Projects, k \in Threads :
       holder[n][k] # Nobody ~> holder[n][k] = Nobody

(* is_security_group_in_use ":returns: True if the security group is still *)
(* in use, False otherwise" (openstack_connector.py): what delete_server   *)
(* finds out of use, it would delete.                                      *)
UnusedGroupsAreDeleted ==
  [][\A t \in Threads : pc[t] = "del_group" /\ pc'[t] = "del_group" =>
       \A g \in Groups : name[g] \in todo[t] \ todo'[t] =>
         (\E s \in Servers : g \in attached[s]) \/ name'[g] = NoName]_vars
=============================================================================
