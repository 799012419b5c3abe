------------------------ MODULE SecurityGroups_proofs ------------------------
(***************************************************************************)
(* Proofs about SecurityGroups.  Groups are never deleted and keep their   *)
(* names, so what a thread has found out about a group stays true; what it *)
(* has found out about the absence of one is protected by the lock.        *)
(***************************************************************************)
EXTENDS SecurityGroups, TLAPS

(* The steps inside the lock of a project; what a group must be that is    *)
(* handed on or attached.                                                  *)
Inside     == {"get", "new", "rule", "release"}
Complete(g) == name[g] \in Projects => g \in ruled \cup spoiled
Usable(g)   == name[g] # NoName /\ Complete(g)

(* The types of the variables, in three groups.                            *)
SharedTypes ==
  /\ name \in [Groups -> Names \cup {NoName}]
  /\ ruled \subseteq Groups
  /\ spoiled \subseteq Groups
  /\ live \subseteq started
  /\ started \subseteq Servers
  /\ attached \in [Servers -> SUBSET Groups]
  /\ lockAccess \in Threads \cup {Nobody}
  /\ lockDict \in [Projects -> Threads \cup {Nobody}]
  /\ holder \in [Projects -> [Threads -> Threads \cup {Nobody}]]

RequestTypes ==
  /\ pc \in [Threads -> Steps]
  /\ op \in [Threads -> Operations]
  /\ srv \in [Threads -> Servers \cup {NoServer}]
  /\ env \in [Threads -> Environments \cup {NoName}]
  /\ prj \in [Threads -> Projects \cup {NoName}]

LocalTypes ==
  /\ todo \in [Threads -> SUBSET Names]
  /\ lock \in [Threads -> Threads \cup {Nobody}]
  /\ grp \in [Threads -> Groups \cup {NoGroup}]
  /\ found \in [Threads -> SUBSET Groups]

(* Only groups of projects are said to have their rule.                    *)
RuledExist == \A g \in ruled : name[g] \in Projects

(* Each step has the arguments and locals it works with.                   *)
Arguments ==
  \A t \in Threads :
    /\ srv[t] \in started \cup {NoServer}
    /\ pc[t] \in {"env_get", "env_create", "env_rule", "add_get"} =>
         env[t] \in Environments
    /\ pc[t] \in {"env_get", "env_create", "env_rule"} => op[t] = "start"
    /\ pc[t] \in ProjectSteps => op[t] \in {"start", "add_project"}
    /\ op[t] \in {"start", "add_project"} => prj[t] \in Projects
    /\ pc[t] \in ProjectSteps /\ op[t] = "add_project" => srv[t] # NoServer
    /\ pc[t] \in AddSteps \cup LoopSteps => srv[t] # NoServer
    /\ pc[t] \in {"idle", "env_get", "access", "look", "insert", "acquire",
                  "get", "new"} => grp[t] = NoGroup
    /\ pc[t] \in {"idle", "env_get", "env_create", "env_rule"} => found[t] = {}

(* Who holds what: one thread at a time between the entry of a project in  *)
(* lock_dict and its lock, and one inside the lock.                        *)
Locking ==
  \A t \in Threads :
    /\ pc[t] \in {"look", "insert"} => lockAccess = t
    /\ pc[t] = "insert" => lockDict[prj[t]] = Nobody
    /\ pc[t] \in {"acquire"} \cup Inside =>
         lock[t] = lockDict[prj[t]] /\ lock[t] # Nobody
    /\ pc[t] \in Inside => holder[prj[t]][lock[t]] = t

(* How far the group in hand has got.                                      *)
Making ==
  \A t \in Threads :
    /\ pc[t] = "new" => \A g \in Groups : name[g] # prj[t]
    /\ pc[t] = "rule" =>
         grp[t] # NoGroup /\ name[grp[t]] = prj[t] /\ grp[t] \notin ruled
    /\ pc[t] = "release" /\ grp[t] # NoGroup =>
         name[grp[t]] = prj[t] /\ grp[t] \in ruled \cup spoiled
    /\ pc[t] = "env_rule" => grp[t] # NoGroup /\ name[grp[t]] = env[t]

(* A project group without its rule is in the hands of its creator.        *)
Finished ==
  \A g \in Groups :
    Complete(g) \/ \E t \in Threads : pc[t] = "rule" /\ grp[t] = g

(* What start_server collects.                                             *)
Gathered ==
  \A t \in Threads :
    /\ \A g \in found[t] : Usable(g)
    /\ \A g, h \in found[t] : name[g] = name[h] => g = h
    /\ pc[t] \in ProjectSteps => \A g \in found[t] : name[g] \in Environments

AttachedUsable == \A s \in Servers : \A g \in attached[s] : Usable(g)

(* What the add requests are about to attach.                              *)
Adding ==
  \A t \in Threads :
    /\ pc[t] \in {"add_list", "add"} => grp[t] # NoGroup /\ Usable(grp[t])
    /\ \A u \in Threads :
         /\ pc[t] \in {"add_list", "add"}
         /\ pc[u] \in {"add_list", "add"}
         /\ name[grp[t]] = name[grp[u]]
         => grp[t] = grp[u]
    /\ pc[t] = "add" =>
         \A h \in attached[srv[t]] : name[h] = name[grp[t]] => h = grp[t]

IInv ==
  /\ TypeOK
  /\ RuledExist
  /\ Arguments
  /\ Locking
  /\ Making
  /\ Finished
  /\ OneGroupPerProject
  /\ Gathered
  /\ AttachedUsable
  /\ Adding
  /\ NoTwinsAttached
-----------------------------------------------------------------------------
(* What a step keeps of the groups there are.                              *)
Kept ==
  /\ \A g \in Groups : name[g] # NoName => name'[g] = name[g]
  /\ ruled \subseteq ruled' /\ spoiled \subseteq spoiled'
  /\ started \subseteq started'
  /\ \A g \in Groups : Usable(g) => Usable(g)' /\ name'[g] = name[g]

LEMMA GroupsKept ==
  ASSUME TypeOK, [Next]_vars
  PROVE  Kept
<1> USE DEF TypeOK, openstack
<1>1. ASSUME UNCHANGED vars
      PROVE  UNCHANGED <<name, ruled, spoiled, started>>
  BY <1>1 DEF vars
<1>2. ASSUME NEW t \in Threads, Request(t)
      PROVE  UNCHANGED openstack
  BY <1>2 DEF Request, BeginStart, BeginAddProject, BeginAddEnvironment,
              BeginLoop
<1>3. ASSUME NEW t \in Threads, EnvCreate(t) \/ ProjectNew(t)
      PROVE  /\ \A g \in Groups : name[g] # NoName => name'[g] = name[g]
             /\ spoiled \subseteq spoiled' /\ UNCHANGED <<ruled, started>>
  BY <1>3 DEF EnvCreate, ProjectNew, CreateGroup, Unused, Spoil
<1>4. ASSUME NEW t \in Threads, VisitGroup(t)
      PROVE  UNCHANGED <<name, ruled, spoiled, started>>
  BY <1>4 DEF VisitGroup, IsSecurityGroupInUse
<1>5. ASSUME NEW t \in Threads, ProjectRule(t)
      PROVE  /\ ruled \subseteq ruled' /\ spoiled \subseteq spoiled'
             /\ UNCHANGED <<name, started>>
  BY <1>5 DEF ProjectRule, Spoil
<1>6. ASSUME NEW t \in Threads, CreateServer(t)
      PROVE  UNCHANGED <<name, ruled, spoiled>> /\ started \subseteq started'
  BY <1>6 DEF CreateServer
<1>7. ASSUME NEW t \in Threads, Step(t)
      PROVE  \/ EnvCreate(t) \/ ProjectNew(t) \/ VisitGroup(t)
             \/ ProjectRule(t) \/ CreateServer(t)
             \/ UNCHANGED <<name, ruled, spoiled, started>>
  BY <1>7 DEF Step, EnvGet, EnvRule, AcquireAccess, LookForLock, InsertLock,
      AcquireLock, ProjectGet, Release, AddGet, AddList, AddToServer,
      DeleteServer
<1>9. ASSUME Restart
      PROVE  UNCHANGED <<name, ruled, started>> /\ spoiled \subseteq spoiled'
  BY <1>9 DEF Restart
<1>8. /\ \A g \in Groups : name[g] # NoName => name'[g] = name[g]
      /\ ruled \subseteq ruled' /\ spoiled \subseteq spoiled'
      /\ started \subseteq started'
  BY <1>1, <1>2, <1>3, <1>4, <1>5, <1>6, <1>7, <1>9 DEF Next
<1> QED
  BY <1>8 DEF Kept, Usable, Complete

(* A request that is over has typed locals.                                *)
LEMMA Returned ==
  ASSUME TypeOK, NEW t \in Threads, Return(t)
  PROVE  /\ RequestTypes' /\ LocalTypes'
         /\ \A u \in Threads : pc'[u] # "idle" =>
              pc'[u] = pc[u] /\ grp'[u] = grp[u] /\ srv'[u] = srv[u]
  BY DEF TypeOK, RequestTypes, LocalTypes, Return, Goto, Steps, Operations

(* At the start nothing exists and every thread is idle.                   *)
LEMMA InitInv == Init => IInv
<1> SUFFICES ASSUME Init PROVE IInv
  OBVIOUS
<1> USE GroupsAssumption DEF Init
<1>1. TypeOK
  BY DEF TypeOK, Steps, Operations
<1>2. Arguments /\ Locking /\ Making /\ Gathered /\ Adding
  BY DEF Arguments, Locking, Inside, Making, Gathered, Adding, ProjectSteps,
         AddSteps, LoopSteps
<1>3. RuledExist /\ Finished /\ OneGroupPerProject /\ AttachedUsable /\ NoTwinsAttached
  BY DEF RuledExist, Finished, Complete, OneGroupPerProject, AttachedUsable,
         NoTwinsAttached, Names
<1> QED
  BY <1>1, <1>2, <1>3 DEF IInv

(* After a crash there is no request, and what was being made is spoiled.  *)
LEMMA Restarted ==
  ASSUME IInv, Restart
  PROVE  IInv'
<1>1. TypeOK /\ RuledExist /\ Making /\ Finished /\ OneGroupPerProject
      /\ AttachedUsable /\ NoTwinsAttached
  BY DEF IInv
<1>2. UNCHANGED <<name, ruled, live, started, attached>>
  BY DEF Restart
<1>3. /\ spoiled \subseteq spoiled' /\ spoiled' \subseteq Groups
      /\ \A t \in Threads : pc[t] = "rule" => grp[t] \in spoiled'
  BY <1>1 DEF Restart, Making, TypeOK
<1>4. \A t \in Threads :
        /\ pc'[t] = "idle" /\ op'[t] = "none" /\ srv'[t] = NoServer
        /\ grp'[t] = NoGroup /\ found'[t] = {}
  BY DEF Restart
<1>5. restarts' \in 0 .. MaxRestarts
  BY <1>1, GroupsAssumption DEF Restart, TypeOK
<1>6. /\ lockAccess' \in Threads \cup {Nobody}
      /\ lockDict' \in [Projects -> Threads \cup {Nobody}]
      /\ holder' \in [Projects -> [Threads -> Threads \cup {Nobody}]]
      /\ pc' \in [Threads -> Steps] /\ op' \in [Threads -> Operations]
      /\ srv' \in [Threads -> Servers \cup {NoServer}]
      /\ env' \in [Threads -> Environments \cup {NoName}]
      /\ prj' \in [Threads -> Projects \cup {NoName}]
      /\ todo' \in [Threads -> SUBSET Names]
      /\ lock' \in [Threads -> Threads \cup {Nobody}]
      /\ grp' \in [Threads -> Groups \cup {NoGroup}]
      /\ found' \in [Threads -> SUBSET Groups]
  BY DEF Restart, Steps, Operations
<1>7. TypeOK'
  BY <1>1, <1>2, <1>3, <1>5, <1>6 DEF TypeOK
<1>8. Arguments' /\ Locking' /\ Making' /\ Gathered' /\ Adding'
  BY <1>4 DEF Arguments, Locking, Inside, Making, Gathered, Adding,
     ProjectSteps, AddSteps, LoopSteps
<1>9. Finished'
  BY <1>1, <1>2, <1>3 DEF Finished, Complete
<1>10. RuledExist' /\ OneGroupPerProject' /\ NoTwinsAttached'
  BY <1>1, <1>2 DEF RuledExist, OneGroupPerProject, NoTwinsAttached
<1>11. AttachedUsable'
  BY <1>1, <1>2, <1>3 DEF AttachedUsable, Usable, Complete
<1> QED
  BY <1>7, <1>8, <1>9, <1>10, <1>11 DEF IInv

(* The types of what the threads share.                                    *)
LEMMA SharedTypesStep ==
  ASSUME IInv, [Next]_vars
  PROVE  SharedTypes'
<1> USE GroupsAssumption DEF TypeOK, SharedTypes, Arguments, Making,
      Gathered, Adding, Names, ProjectSteps, AddSteps, LoopSteps
<1>1. TypeOK /\ Arguments /\ Making /\ Gathered /\ Adding
  BY DEF IInv
<1>2. CASE UNCHANGED vars
  BY <1>1, <1>2 DEF vars, openstack, locks, args, locals
<1>3. ASSUME NEW t \in Threads, Request(t) \/ Step(t)
      PROVE  SharedTypes'
  <2>1. CASE Request(t)
    BY <1>1, <2>1 DEF Request, BeginStart, BeginAddProject,
      BeginAddEnvironment, BeginLoop, Accept, NamesOf, Goto, openstack,
      locks, args
  <2>2. CASE EnvGet(t)
    BY <1>1, <2>2 DEF EnvGet, Return, NoneNamed, OneNamed, Named, Goto,
      openstack, locks, args
  <2>3. CASE EnvCreate(t)
    BY <1>1, <2>3 DEF EnvCreate, Return, CreateGroup, SetGroup, Unused, Goto,
      openstack, locks, args
  <2>4. CASE EnvRule(t)
    BY <1>1, <2>4 DEF EnvRule, Return, SetGroup, Goto, openstack, locks, args
  <2>5. CASE AcquireAccess(t)
    BY <1>1, <2>5 DEF AcquireAccess, Goto, openstack, locks, args
  <2>6. CASE LookForLock(t)
    BY <1>1, <2>6 DEF LookForLock, Goto, openstack, locks, args
  <2>7. CASE InsertLock(t)
    BY <1>1, <2>7 DEF InsertLock, Goto, openstack, locks, args
  <2>8. CASE AcquireLock(t)
    BY <1>1, <2>8 DEF AcquireLock, Goto, openstack, locks, args
  <2>9. CASE ProjectGet(t)
    BY <1>1, <2>9 DEF ProjectGet, SetGroup, NoneNamed, OneNamed, Named, Goto,
      openstack, locks, args
  <2>10. CASE ProjectNew(t)
    BY <1>1, <2>10 DEF ProjectNew, CreateGroup, Spoil, SetGroup, Unused, Goto,
      openstack, locks, args
  <2>11. CASE ProjectRule(t)
    BY <1>1, <2>11 DEF ProjectRule, Spoil, SetGroup, Goto, openstack, locks,
      args
  <2>12. CASE Release(t)
    BY <1>1, <2>12 DEF Release, Return, Goto, openstack, locks, args
  <2>13. CASE CreateServer(t)
    BY <1>1, <2>13 DEF CreateServer, Return, Goto, openstack, locks, args
  <2>14. CASE AddGet(t)
    BY <1>1, <2>14 DEF AddGet, Return, SetGroup, OneNamed, Named, Goto,
      openstack, locks, args
  <2>15. CASE AddList(t)
    BY <1>1, <2>15 DEF AddList, Return, NamesOf, Goto, openstack, locks, args
  <2>16. CASE AddToServer(t)
    BY <1>1, <2>16 DEF AddToServer, Return, Goto, openstack, locks, args
  <2>17. CASE DeleteServer(t)
    BY <1>1, <2>17 DEF DeleteServer, Return, Goto, openstack, locks, args
  <2>18. CASE VisitGroup(t)
    <3>1. name' = name /\ UNCHANGED <<ruled, spoiled, live, started, locks>>
      BY <1>1, <2>18 DEF VisitGroup, IsSecurityGroupInUse
    <3>2. \/ attached' = attached
          \/ \E g \in Groups :
               \/ attached' = [attached EXCEPT ![srv[t]] = @ \ {g}]
               \/ attached' = [attached EXCEPT ![srv[t]] = @]
      BY <2>18 DEF VisitGroup
    <3>3. attached' \in [Servers -> SUBSET Groups]
      BY <1>1, <3>2
    <3> QED BY <1>1, <3>1, <3>3 DEF locks
  <2> QED BY <1>3, <2>1, <2>2, <2>3, <2>4, <2>5, <2>6, <2>7, <2>8, <2>9,
      <2>10, <2>11, <2>12, <2>13, <2>14, <2>15, <2>16, <2>17, <2>18 DEF Step
<1>4. CASE Restart
  BY <1>4, Restarted DEF IInv
<1> QED BY <1>2, <1>3, <1>4 DEF Next

(* The types of the steps and of the arguments.                            *)
LEMMA RequestTypesStep ==
  ASSUME IInv, [Next]_vars
  PROVE  RequestTypes'
<1> USE GroupsAssumption DEF TypeOK, RequestTypes, Steps, StartSteps,
      Operations, ProjectSteps, AddSteps, LoopSteps
<1>1. TypeOK
  BY DEF IInv
<1>2. CASE UNCHANGED vars
  BY <1>1, <1>2 DEF vars, openstack, locks, args, locals
<1>3. ASSUME NEW t \in Threads, Request(t) \/ Step(t)
      PROVE  RequestTypes'
  <2>1. CASE Request(t)
    <3>1. ASSUME NEW e \in Environments \cup {NoName}, NEW n \in Projects,
                 BeginStart(t, e, n)
          PROVE  RequestTypes'
      BY <1>1, <3>1 DEF BeginStart, Accept, Goto
    <3>2. ASSUME NEW s \in Servers, NEW n \in Projects,
                 BeginAddProject(t, s, n)
          PROVE  RequestTypes'
      BY <1>1, <3>2 DEF BeginAddProject, Accept, Goto
    <3>3. ASSUME NEW s \in Servers, NEW e \in Environments,
                 BeginAddEnvironment(t, s, e)
          PROVE  RequestTypes'
      BY <1>1, <3>3 DEF BeginAddEnvironment, Accept, Goto
    <3>4. ASSUME NEW s \in Servers, NEW o \in {"delete", "remove"},
                 BeginLoop(t, s, o)
          PROVE  RequestTypes'
      BY <1>1, <3>4 DEF BeginLoop, Goto
    <3> QED BY <2>1, <3>1, <3>2, <3>3, <3>4 DEF Request
  <2>2. CASE EnvGet(t)
    BY <1>1, <2>2 DEF EnvGet, Return, NoneNamed, OneNamed, Named, Goto,
      openstack, locks, args
  <2>3. CASE EnvCreate(t)
    <3>1. CASE Return(t)
      BY <1>1, <3>1, Returned
    <3>2. CASE ~Return(t)
      BY <1>1, <2>3, <3>2 DEF EnvCreate, SetGroup, Goto, args
    <3> QED BY <3>1, <3>2
  <2>4. CASE EnvRule(t)
    BY <1>1, <2>4 DEF EnvRule, Return, SetGroup, Goto, openstack, locks, args
  <2>5. CASE AcquireAccess(t) \/ LookForLock(t) \/ InsertLock(t) \/
      AcquireLock(t)
    BY <1>1, <2>5 DEF AcquireAccess, LookForLock, InsertLock, AcquireLock,
      Goto, openstack, locks, args
  <2>6. CASE ProjectGet(t)
    BY <1>1, <2>6 DEF ProjectGet, SetGroup, NoneNamed, OneNamed, Named, Goto,
      openstack, locks, args
  <2>7. CASE ProjectNew(t)
    BY <1>1, <2>7 DEF ProjectNew, CreateGroup, Spoil, SetGroup, Unused, Goto,
      openstack, locks, args
  <2>8. CASE ProjectRule(t)
    BY <1>1, <2>8 DEF ProjectRule, Spoil, SetGroup, Goto, openstack, locks,
      args
  <2>9. CASE Release(t)
    BY <1>1, <2>9 DEF Release, Return, Goto, openstack, locks, args
  <2>10. CASE CreateServer(t)
    BY <1>1, <2>10 DEF CreateServer, Return, Goto, openstack, locks, args
  <2>11. CASE AddGet(t)
    BY <1>1, <2>11 DEF AddGet, Return, SetGroup, OneNamed, Named, Goto,
      openstack, locks, args
  <2>12. CASE AddList(t)
    BY <1>1, <2>12 DEF AddList, Return, NamesOf, Goto, openstack, locks, args
  <2>13. CASE AddToServer(t)
    BY <1>1, <2>13 DEF AddToServer, Return, Goto, openstack, locks, args
  <2>14. CASE DeleteServer(t)
    BY <1>1, <2>14 DEF DeleteServer, Return, Goto, openstack, locks, args
  <2>15. CASE VisitGroup(t)
    <3>1. CASE Return(t)
      BY <1>1, <3>1, Returned
    <3>2. CASE ~Return(t)
      BY <1>1, <2>15, <3>2 DEF VisitGroup, args
    <3> QED BY <3>1, <3>2
  <2> QED BY <1>3, <2>1, <2>2, <2>3, <2>4, <2>5, <2>6, <2>7, <2>8, <2>9,
      <2>10, <2>11, <2>12, <2>13, <2>14, <2>15 DEF Step
<1>4. CASE Restart
  BY <1>4, Restarted DEF IInv
<1> QED BY <1>2, <1>3, <1>4 DEF Next

(* The types of the other locals.                                          *)
LEMMA LocalTypesStep ==
  ASSUME IInv, [Next]_vars
  PROVE  LocalTypes'
<1> USE GroupsAssumption DEF TypeOK, LocalTypes, Arguments, Making,
      AttachedUsable, Usable, Names, ProjectSteps, AddSteps, LoopSteps
<1>1. TypeOK /\ Arguments /\ Making /\ AttachedUsable
  BY DEF IInv
<1>2. CASE UNCHANGED vars
  BY <1>1, <1>2 DEF vars, openstack, locks, args, locals
<1>3. ASSUME NEW t \in Threads, Request(t) \/ Step(t)
      PROVE  LocalTypes'
  <2>1. CASE Request(t)
    BY <1>1, <2>1 DEF Request, BeginStart, BeginAddProject,
      BeginAddEnvironment, BeginLoop, Accept, NamesOf, Goto, openstack,
      locks, args
  <2>2. CASE EnvGet(t)
    <3>1. CASE Return(t)
      BY <1>1, <3>1, Returned
    <3>2. CASE ~Return(t)
      BY <1>1, <2>2, <3>2 DEF EnvGet, OneNamed, Named, args
    <3> QED BY <3>1, <3>2
  <2>3. CASE EnvCreate(t)
    <3>1. CASE Return(t)
      BY <1>1, <3>1, Returned
    <3>2. CASE ~Return(t)
      BY <1>1, <2>3, <3>2 DEF EnvCreate, SetGroup, Unused, args
    <3> QED BY <3>1, <3>2
  <2>4. CASE EnvRule(t)
    <3>1. CASE Return(t)
      BY <1>1, <3>1, Returned
    <3>2. CASE ~Return(t)
      <4>1. grp[t] \in Groups
        BY <1>1, <2>4 DEF EnvRule
      <4>2. /\ found' = [found EXCEPT ![t] = @ \cup {grp[t]}]
            /\ SetGroup(t, NoGroup)
            /\ UNCHANGED <<todo, lock>>
        BY <2>4, <3>2 DEF EnvRule
      <4> QED BY <1>1, <4>1, <4>2 DEF SetGroup
    <3> QED BY <3>1, <3>2
  <2>5. CASE AcquireAccess(t) \/ LookForLock(t) \/ InsertLock(t) \/
      AcquireLock(t)
    BY <1>1, <2>5 DEF AcquireAccess, LookForLock, InsertLock, AcquireLock,
      Goto, openstack, locks, args
  <2>6. CASE ProjectGet(t)
    BY <1>1, <2>6 DEF ProjectGet, SetGroup, NoneNamed, OneNamed, Named, Goto,
      openstack, locks, args
  <2>7. CASE ProjectNew(t)
    BY <1>1, <2>7 DEF ProjectNew, CreateGroup, Spoil, SetGroup, Unused, Goto,
      openstack, locks, args
  <2>8. CASE ProjectRule(t)
    BY <1>1, <2>8 DEF ProjectRule, Spoil, SetGroup, Goto, openstack, locks,
      args
  <2>9. CASE Release(t)
    <3>1. CASE Return(t)
      BY <1>1, <3>1, Returned
    <3>2. CASE ~Return(t)
      <4>1. /\ grp[t] \in Groups
            /\ found' = [found EXCEPT ![t] = @ \cup {grp[t]}] \/ found' = found
            /\ UNCHANGED <<todo, lock, grp>>
        BY <1>1, <2>9, <3>2 DEF Release
      <4> QED BY <1>1, <4>1
    <3> QED BY <3>1, <3>2
  <2>10. CASE CreateServer(t)
    BY <1>1, <2>10 DEF CreateServer, Return, Goto, openstack, locks, args
  <2>11. CASE AddGet(t)
    <3>1. CASE Return(t)
      BY <1>1, <3>1, Returned
    <3>2. CASE ~Return(t)
      BY <1>1, <2>11, <3>2 DEF AddGet, SetGroup, args
    <3> QED BY <3>1, <3>2
  <2>12. CASE AddList(t)
    <3>1. CASE Return(t)
      BY <1>1, <3>1, Returned
    <3>2. CASE ~Return(t)
      BY <1>1, <2>12, <3>2 DEF AddList, args
    <3> QED BY <3>1, <3>2
  <2>13. CASE AddToServer(t)
    BY <1>1, <2>13 DEF AddToServer, Return, Goto, openstack, locks, args
  <2>14. CASE DeleteServer(t)
    <3>1. CASE Return(t)
      BY <1>1, <3>1, Returned
    <3>2. CASE ~Return(t)
      BY <1>1, <2>14, <3>2 DEF DeleteServer, args
    <3> QED BY <3>1, <3>2
  <2>15. CASE VisitGroup(t)
    <3>1. CASE Return(t)
      BY <1>1, <3>1, Returned
    <3>2. CASE ~Return(t)
      <4>1. todo' \in [Threads -> SUBSET Names]
        BY <1>1, <2>15, <3>2 DEF VisitGroup
      <4> QED BY <1>1, <2>15, <3>2, <4>1 DEF VisitGroup, args
    <3> QED BY <3>1, <3>2
  <2> QED BY <1>3, <2>1, <2>2, <2>3, <2>4, <2>5, <2>6, <2>7, <2>8, <2>9,
      <2>10, <2>11, <2>12, <2>13, <2>14, <2>15 DEF Step
<1>4. CASE Restart
  BY <1>4, Restarted DEF IInv
<1> QED BY <1>2, <1>3, <1>4 DEF Next

LEMMA RuledStays ==
  ASSUME NEW t \in Threads, Request(t) \/ Step(t), pc[t] # "rule"
  PROVE  ruled' = ruled
  BY DEF openstack, Request, BeginStart, BeginAddProject,
     BeginAddEnvironment, BeginLoop, Step, EnvGet, EnvCreate, EnvRule,
     AcquireAccess, LookForLock, InsertLock, AcquireLock, ProjectGet,
     ProjectNew, ProjectRule, Release, CreateServer, AddGet, AddList,
     AddToServer, DeleteServer, VisitGroup

LEMMA RuledExistStep ==
  ASSUME IInv, [Next]_vars
  PROVE  RuledExist'
<1>1. TypeOK /\ Arguments /\ Making /\ RuledExist /\ Kept
  BY GroupsKept DEF IInv
<1>2. CASE ruled' = ruled
  BY <1>1, <1>2, GroupsAssumption DEF RuledExist, Kept, TypeOK
<1>3. ASSUME NEW t \in Threads, Step(t), pc[t] = "rule"
      PROVE  RuledExist'
  <2>1. ProjectRule(t)
    BY <1>3 DEF Step, EnvGet, EnvCreate, EnvRule, AcquireAccess, LookForLock,
       InsertLock, AcquireLock, ProjectGet, ProjectNew, Release,
       CreateServer, AddGet, AddList, AddToServer, DeleteServer, VisitGroup
  <2>2. /\ ruled' = ruled \cup {grp[t]} \/ ruled' = ruled
        /\ name' = name
    BY <2>1 DEF ProjectRule
  <2>3. name[grp[t]] \in Projects
    BY <1>1, <1>3 DEF Making, Arguments, ProjectSteps
  <2> QED
    BY <1>1, <2>2, <2>3 DEF RuledExist
<1>4. CASE Restart
  BY <1>2, <1>4 DEF Restart
<1>5. CASE UNCHANGED vars
  BY <1>2, <1>5 DEF vars, openstack
<1>6. ASSUME NEW t \in Threads, Request(t), pc[t] = "rule"
      PROVE  FALSE
  BY <1>6 DEF Request, BeginStart, BeginAddProject, BeginAddEnvironment,
     BeginLoop, Accept
<1> QED
  BY <1>2, <1>3, <1>4, <1>5, <1>6, RuledStays DEF Next

(* The arguments do not change before the request returns.                 *)
LEMMA ArgumentsStep ==
  ASSUME IInv, [Next]_vars
  PROVE  Arguments'
<1> USE GroupsAssumption DEF TypeOK, Arguments, ProjectSteps, AddSteps,
      LoopSteps
<1>1. TypeOK /\ Arguments
  BY DEF IInv
<1>2. CASE UNCHANGED vars
  BY <1>1, <1>2 DEF vars, openstack, locks, args, locals
<1>3. ASSUME NEW t \in Threads, Request(t) \/ Step(t)
      PROVE  Arguments'
  <2>1. CASE Request(t)
    BY <1>1, <2>1 DEF Request, BeginStart, BeginAddProject,
      BeginAddEnvironment, BeginLoop, Accept, NamesOf, Goto, openstack,
      locks, args
  <2>2. CASE EnvGet(t)
    BY <1>1, <2>2 DEF EnvGet, Return, NoneNamed, OneNamed, Named, Goto,
      openstack, locks, args
  <2>3. CASE EnvCreate(t)
    BY <1>1, <2>3 DEF EnvCreate, Return, CreateGroup, SetGroup, Unused, Goto,
      openstack, locks, args
  <2>4. CASE EnvRule(t)
    BY <1>1, <2>4 DEF EnvRule, Return, SetGroup, Goto, openstack, locks, args
  <2>5. CASE AcquireAccess(t) \/ LookForLock(t) \/ InsertLock(t) \/
      AcquireLock(t)
    BY <1>1, <2>5 DEF AcquireAccess, LookForLock, InsertLock, AcquireLock,
      Goto, openstack, locks, args
  <2>6. CASE ProjectGet(t)
    BY <1>1, <2>6 DEF ProjectGet, SetGroup, NoneNamed, OneNamed, Named, Goto,
      openstack, locks, args
  <2>7. CASE ProjectNew(t)
    BY <1>1, <2>7 DEF ProjectNew, CreateGroup, Spoil, SetGroup, Unused, Goto,
      openstack, locks, args
  <2>8. CASE ProjectRule(t)
    BY <1>1, <2>8 DEF ProjectRule, Spoil, SetGroup, Goto, openstack, locks,
      args
  <2>9. CASE Release(t)
    BY <1>1, <2>9 DEF Release, Return, Goto, openstack, locks, args
  <2>10. CASE CreateServer(t)
    BY <1>1, <2>10 DEF CreateServer, Return, Goto, openstack, locks, args
  <2>11. CASE AddGet(t)
    BY <1>1, <2>11 DEF AddGet, Return, SetGroup, OneNamed, Named, Goto,
      openstack, locks, args
  <2>12. CASE AddList(t)
    BY <1>1, <2>12 DEF AddList, Return, NamesOf, Goto, openstack, locks, args
  <2>13. CASE AddToServer(t)
    BY <1>1, <2>13 DEF AddToServer, Return, Goto, openstack, locks, args
  <2>14. CASE DeleteServer(t)
    BY <1>1, <2>14 DEF DeleteServer, Return, Goto, openstack, locks, args
  <2>15. CASE VisitGroup(t)
    BY <1>1, <2>15 DEF VisitGroup, Return, IsSecurityGroupInUse, OneNamed,
      Named, Goto, openstack, locks, args
  <2> QED BY <1>3, <2>1, <2>2, <2>3, <2>4, <2>5, <2>6, <2>7, <2>8, <2>9,
      <2>10, <2>11, <2>12, <2>13, <2>14, <2>15 DEF Step
<1>4. CASE Restart
  BY <1>4, Restarted DEF IInv
<1> QED BY <1>2, <1>3, <1>4 DEF Next

(* Between its test and its insertion of a missing entry a thread holds    *)
(* lock_access, so no other thread inserts one; the entry never changes.   *)
LEMMA LockingStep ==
  ASSUME IInv, [Next]_vars
  PROVE  Locking'
<1> USE GroupsAssumption DEF TypeOK, Arguments, Locking, Inside,
      ProjectSteps, AddSteps, LoopSteps
<1>1. TypeOK /\ Arguments /\ Locking
  BY DEF IInv
<1>2. CASE UNCHANGED vars
  BY <1>1, <1>2 DEF vars, openstack, locks, args, locals
<1>3. ASSUME NEW t \in Threads, Request(t) \/ Step(t)
      PROVE  Locking'
  <2>1. CASE Request(t)
    BY <1>1, <2>1 DEF Request, BeginStart, BeginAddProject,
      BeginAddEnvironment, BeginLoop, Accept, NamesOf, Goto, openstack,
      locks, args
  <2>2. CASE EnvGet(t)
    BY <1>1, <2>2 DEF EnvGet, Return, NoneNamed, OneNamed, Named, Goto,
      openstack, locks, args
  <2>3. CASE EnvCreate(t)
    BY <1>1, <2>3 DEF EnvCreate, Return, CreateGroup, SetGroup, Unused, Goto,
      openstack, locks, args
  <2>4. CASE EnvRule(t)
    BY <1>1, <2>4 DEF EnvRule, Return, SetGroup, Goto, openstack, locks, args
  <2>5. CASE AcquireAccess(t)
    BY <1>1, <2>5 DEF AcquireAccess, Goto, openstack, locks, args
  <2>6. CASE LookForLock(t)
    BY <1>1, <2>6 DEF LookForLock, Goto, openstack, locks, args
  <2>7. CASE InsertLock(t)
    BY <1>1, <2>7 DEF InsertLock, Goto, openstack, locks, args
  <2>8. CASE AcquireLock(t)
    BY <1>1, <2>8 DEF AcquireLock, Goto, openstack, locks, args
  <2>9. CASE ProjectGet(t)
    BY <1>1, <2>9 DEF ProjectGet, SetGroup, NoneNamed, OneNamed, Named, Goto,
      openstack, locks, args
  <2>10. CASE ProjectNew(t)
    BY <1>1, <2>10 DEF ProjectNew, CreateGroup, Spoil, SetGroup, Unused, Goto,
      openstack, locks, args
  <2>11. CASE ProjectRule(t)
    BY <1>1, <2>11 DEF ProjectRule, Spoil, SetGroup, Goto, openstack, locks,
      args
  <2>12. CASE Release(t)
    BY <1>1, <2>12 DEF Release, Return, Goto, openstack, locks, args
  <2>13. CASE CreateServer(t)
    BY <1>1, <2>13 DEF CreateServer, Return, Goto, openstack, locks, args
  <2>14. CASE AddGet(t)
    BY <1>1, <2>14 DEF AddGet, Return, SetGroup, OneNamed, Named, Goto,
      openstack, locks, args
  <2>15. CASE AddList(t)
    BY <1>1, <2>15 DEF AddList, Return, NamesOf, Goto, openstack, locks, args
  <2>16. CASE AddToServer(t)
    BY <1>1, <2>16 DEF AddToServer, Return, Goto, openstack, locks, args
  <2>17. CASE DeleteServer(t)
    BY <1>1, <2>17 DEF DeleteServer, Return, Goto, openstack, locks, args
  <2>18. CASE VisitGroup(t)
    BY <1>1, <2>18 DEF VisitGroup, Return, IsSecurityGroupInUse, OneNamed,
      Named, Goto, openstack, locks, args
  <2> QED BY <1>3, <2>1, <2>2, <2>3, <2>4, <2>5, <2>6, <2>7, <2>8, <2>9,
      <2>10, <2>11, <2>12, <2>13, <2>14, <2>15, <2>16, <2>17, <2>18 DEF Step
<1>4. CASE Restart
  BY <1>4, Restarted DEF IInv
<1> QED BY <1>2, <1>3, <1>4 DEF Next

(* Only a thread inside the lock of its project creates a group of that    *)
(* name, or holds one that is not complete yet.                            *)
LEMMA MakingStep ==
  ASSUME IInv, [Next]_vars
  PROVE  Making'
<1> USE GroupsAssumption DEF TypeOK, Arguments, Locking, Making, Finished,
      Complete, Inside, RuledExist, ProjectSteps, AddSteps, LoopSteps
<1>1. TypeOK /\ Arguments /\ Locking /\ Making /\ Finished /\ RuledExist
  BY DEF IInv
<1>2. CASE UNCHANGED vars
  BY <1>1, <1>2 DEF vars, openstack, locks, args, locals
<1>3. ASSUME NEW t \in Threads, Request(t) \/ Step(t)
      PROVE  Making'
  <2>1. CASE Request(t)
    BY <1>1, <2>1 DEF Request, BeginStart, BeginAddProject,
      BeginAddEnvironment, BeginLoop, Accept, NamesOf, Goto, openstack,
      locks, args
  <2>2. CASE EnvGet(t)
    BY <1>1, <2>2 DEF EnvGet, Return, NoneNamed, OneNamed, Named, Goto,
      openstack, locks, args
  <2>3. CASE EnvCreate(t)
    BY <1>1, <2>3 DEF EnvCreate, Return, CreateGroup, SetGroup, Unused, Goto,
      openstack, locks, args
  <2>4. CASE EnvRule(t)
    BY <1>1, <2>4 DEF EnvRule, Return, SetGroup, Goto, openstack, locks, args
  <2>5. CASE AcquireAccess(t) \/ LookForLock(t) \/ InsertLock(t) \/
      AcquireLock(t)
    BY <1>1, <2>5 DEF AcquireAccess, LookForLock, InsertLock, AcquireLock,
      Goto, openstack, locks, args
  <2>6. CASE ProjectGet(t)
    BY <1>1, <2>6 DEF ProjectGet, SetGroup, NoneNamed, OneNamed, Named, Goto,
      openstack, locks, args
  <2>7. CASE ProjectNew(t)
    BY <1>1, <2>7 DEF ProjectNew, CreateGroup, Spoil, SetGroup, Unused, Goto,
      openstack, locks, args
  <2>8. CASE ProjectRule(t)
    BY <1>1, <2>8 DEF ProjectRule, Spoil, SetGroup, Goto, openstack, locks,
      args
  <2>9. CASE Release(t)
    BY <1>1, <2>9 DEF Release, Return, Goto, openstack, locks, args
  <2>10. CASE CreateServer(t)
    BY <1>1, <2>10 DEF CreateServer, Return, Goto, openstack, locks, args
  <2>11. CASE AddGet(t)
    BY <1>1, <2>11 DEF AddGet, Return, SetGroup, OneNamed, Named, Goto,
      openstack, locks, args
  <2>12. CASE AddList(t)
    BY <1>1, <2>12 DEF AddList, Return, NamesOf, Goto, openstack, locks, args
  <2>13. CASE AddToServer(t)
    BY <1>1, <2>13 DEF AddToServer, Return, Goto, openstack, locks, args
  <2>14. CASE DeleteServer(t)
    BY <1>1, <2>14 DEF DeleteServer, Return, Goto, openstack, locks, args
  <2>15. CASE VisitGroup(t)
    BY <1>1, <2>15 DEF VisitGroup, Return, IsSecurityGroupInUse, OneNamed,
      Named, Goto, openstack, locks, args
  <2> QED BY <1>3, <2>1, <2>2, <2>3, <2>4, <2>5, <2>6, <2>7, <2>8, <2>9,
      <2>10, <2>11, <2>12, <2>13, <2>14, <2>15 DEF Step
<1>4. CASE Restart
  BY <1>4, Restarted DEF IInv
<1> QED BY <1>2, <1>3, <1>4 DEF Next

(* A group is incomplete only between its creation and its rule.           *)
LEMMA FinishedStep ==
  ASSUME IInv, [Next]_vars
  PROVE  Finished'
<1> USE GroupsAssumption DEF TypeOK, Arguments, Making, Finished, Complete,
      ProjectSteps, AddSteps, LoopSteps
<1>1. TypeOK /\ Arguments /\ Making /\ Finished
  BY DEF IInv
<1>2. CASE UNCHANGED vars
  BY <1>1, <1>2 DEF vars, openstack, locks, args, locals
<1>3. ASSUME NEW t \in Threads, Request(t) \/ Step(t)
      PROVE  Finished'
  <2>1. CASE Request(t)
    BY <1>1, <2>1 DEF Request, BeginStart, BeginAddProject,
      BeginAddEnvironment, BeginLoop, Accept, NamesOf, Goto, openstack,
      locks, args
  <2>2. CASE EnvGet(t)
    BY <1>1, <2>2 DEF EnvGet, Return, NoneNamed, OneNamed, Named, Goto,
      openstack, locks, args
  <2>3. CASE EnvCreate(t)
    <3>1. \A u \in Threads : pc[u] = "rule" =>
            pc'[u] = "rule" /\ grp'[u] = grp[u]
      BY <1>1, <2>3 DEF EnvCreate, SetGroup, Goto, Return
    <3>2. \A g \in Groups : Complete(g) => Complete(g)'
      BY <1>1, <2>3 DEF EnvCreate, CreateGroup, Unused
    <3> QED BY <1>1, <3>1, <3>2
  <2>4. CASE EnvRule(t)
    <3>1. \A u \in Threads : pc[u] = "rule" =>
            pc'[u] = "rule" /\ grp'[u] = grp[u]
      BY <1>1, <2>4 DEF EnvRule, SetGroup, Goto, Return
    <3>2. \A g \in Groups : Complete(g) => Complete(g)'
      BY <1>1, <2>4 DEF EnvRule, openstack
    <3> QED BY <1>1, <3>1, <3>2
  <2>5. CASE AcquireAccess(t) \/ LookForLock(t) \/ InsertLock(t) \/
      AcquireLock(t)
    BY <1>1, <2>5 DEF AcquireAccess, LookForLock, InsertLock, AcquireLock,
      Goto, openstack, locks, args
  <2>6. CASE ProjectGet(t)
    BY <1>1, <2>6 DEF ProjectGet, SetGroup, NoneNamed, OneNamed, Named, Goto,
      openstack, locks, args
  <2>7. CASE ProjectNew(t)
    BY <1>1, <2>7 DEF ProjectNew, CreateGroup, Spoil, SetGroup, Unused, Goto,
      openstack, locks, args
  <2>8. CASE ProjectRule(t)
    BY <1>1, <2>8 DEF ProjectRule, Spoil, SetGroup, Goto, openstack, locks,
      args
  <2>9. CASE Release(t)
    BY <1>1, <2>9 DEF Release, Return, Goto, openstack, locks, args
  <2>10. CASE CreateServer(t)
    BY <1>1, <2>10 DEF CreateServer, Return, Goto, openstack, locks, args
  <2>11. CASE AddGet(t)
    BY <1>1, <2>11 DEF AddGet, Return, SetGroup, OneNamed, Named, Goto,
      openstack, locks, args
  <2>12. CASE AddList(t)
    BY <1>1, <2>12 DEF AddList, Return, NamesOf, Goto, openstack, locks, args
  <2>13. CASE AddToServer(t)
    BY <1>1, <2>13 DEF AddToServer, Return, Goto, openstack, locks, args
  <2>14. CASE DeleteServer(t)
    BY <1>1, <2>14 DEF DeleteServer, Return, Goto, openstack, locks, args
  <2>15. CASE VisitGroup(t)
    BY <1>1, <2>15 DEF VisitGroup, Return, IsSecurityGroupInUse, OneNamed,
      Named, Goto, openstack, locks, args
  <2> QED BY <1>3, <2>1, <2>2, <2>3, <2>4, <2>5, <2>6, <2>7, <2>8, <2>9,
      <2>10, <2>11, <2>12, <2>13, <2>14, <2>15 DEF Step
<1>4. CASE Restart
  BY <1>4, Restarted DEF IInv
<1> QED BY <1>2, <1>3, <1>4 DEF Next

(* A new group of a project finds none of that name.                       *)
LEMMA OneGroupStep ==
  ASSUME IInv, [Next]_vars
  PROVE  OneGroupPerProject'
<1> USE GroupsAssumption DEF TypeOK, Arguments, Making, OneGroupPerProject,
      ProjectSteps, AddSteps, LoopSteps
<1>1. TypeOK /\ Arguments /\ Making /\ OneGroupPerProject
  BY DEF IInv
<1>2. CASE UNCHANGED vars
  BY <1>1, <1>2 DEF vars, openstack, locks, args, locals
<1>3. ASSUME NEW t \in Threads, Request(t) \/ Step(t)
      PROVE  OneGroupPerProject'
  <2>1. CASE Request(t)
    BY <1>1, <2>1 DEF Request, BeginStart, BeginAddProject,
      BeginAddEnvironment, BeginLoop, Accept, NamesOf, Goto, openstack,
      locks, args
  <2>2. CASE EnvGet(t)
    BY <1>1, <2>2 DEF EnvGet, Return, NoneNamed, OneNamed, Named, Goto,
      openstack, locks, args
  <2>3. CASE EnvCreate(t)
    BY <1>1, <2>3 DEF EnvCreate, Return, CreateGroup, SetGroup, Unused, Goto,
      openstack, locks, args
  <2>4. CASE EnvRule(t)
    BY <1>1, <2>4 DEF EnvRule, Return, SetGroup, Goto, openstack, locks, args
  <2>5. CASE AcquireAccess(t) \/ LookForLock(t) \/ InsertLock(t) \/
      AcquireLock(t)
    BY <1>1, <2>5 DEF AcquireAccess, LookForLock, InsertLock, AcquireLock,
      Goto, openstack, locks, args
  <2>6. CASE ProjectGet(t)
    BY <1>1, <2>6 DEF ProjectGet, SetGroup, NoneNamed, OneNamed, Named, Goto,
      openstack, locks, args
  <2>7. CASE ProjectNew(t)
    BY <1>1, <2>7 DEF ProjectNew, CreateGroup, Spoil, SetGroup, Unused, Goto,
      openstack, locks, args
  <2>8. CASE ProjectRule(t)
    BY <1>1, <2>8 DEF ProjectRule, Spoil, SetGroup, Goto, openstack, locks,
      args
  <2>9. CASE Release(t)
    BY <1>1, <2>9 DEF Release, Return, Goto, openstack, locks, args
  <2>10. CASE CreateServer(t)
    BY <1>1, <2>10 DEF CreateServer, Return, Goto, openstack, locks, args
  <2>11. CASE AddGet(t)
    BY <1>1, <2>11 DEF AddGet, Return, SetGroup, OneNamed, Named, Goto,
      openstack, locks, args
  <2>12. CASE AddList(t)
    BY <1>1, <2>12 DEF AddList, Return, NamesOf, Goto, openstack, locks, args
  <2>13. CASE AddToServer(t)
    BY <1>1, <2>13 DEF AddToServer, Return, Goto, openstack, locks, args
  <2>14. CASE DeleteServer(t)
    BY <1>1, <2>14 DEF DeleteServer, Return, Goto, openstack, locks, args
  <2>15. CASE VisitGroup(t)
    BY <1>1, <2>15 DEF VisitGroup, Return, IsSecurityGroupInUse, OneNamed,
      Named, Goto, openstack, locks, args
  <2> QED BY <1>3, <2>1, <2>2, <2>3, <2>4, <2>5, <2>6, <2>7, <2>8, <2>9,
      <2>10, <2>11, <2>12, <2>13, <2>14, <2>15 DEF Step
<1>4. CASE Restart
  BY <1>4, Restarted DEF IInv
<1> QED BY <1>2, <1>3, <1>4 DEF Next

(* start_server adds the project group to a list of environment groups.    *)
LEMMA GatheredStep ==
  ASSUME IInv, [Next]_vars
  PROVE  Gathered'
<1> USE GroupsAssumption DEF TypeOK, Arguments, Making, Gathered, Kept,
      ProjectSteps, AddSteps, LoopSteps
<1>1. TypeOK /\ Arguments /\ Making /\ Gathered
  BY DEF IInv
<1>kept. Kept
  BY <1>1, GroupsKept
<1>2. CASE UNCHANGED vars
  BY <1>1, <1>2, <1>kept DEF vars, openstack, locks, args, locals
<1>3. ASSUME NEW t \in Threads, Request(t) \/ Step(t)
      PROVE  Gathered'
  <2>1. CASE Request(t)
    BY <1>1, <2>1, <1>kept DEF Request, BeginStart, BeginAddProject,
      BeginAddEnvironment, BeginLoop, Accept, NamesOf, Goto, openstack,
      locks, args
  <2>2. CASE EnvGet(t)
    <3>1. CASE Return(t)
      BY <1>1, <1>kept, <3>1 DEF Return, Goto
    <3>2. CASE ~Return(t) /\ pc'[t] = "env_create"
      BY <1>1, <2>2, <1>kept, <3>2 DEF EnvGet, Goto, openstack, locks, args
    <3>3. CASE ~Return(t) /\ pc'[t] # "env_create"
      <4>1. PICK g \in Groups : Named(env[t]) = {g}
        BY <1>1, <2>2, <3>3 DEF EnvGet, OneNamed, Goto
      <4>2. /\ found[t] = {} /\ found' = [found EXCEPT ![t] = {g}]
            /\ pc' = [pc EXCEPT ![t] = "access"] /\ name' = name
        BY <1>1, <2>2, <3>3, <4>1 DEF EnvGet, Goto, openstack
      <4>3. name[g] \in Environments /\ Usable(g)
        BY <1>1, <2>2, <4>1 DEF EnvGet, Named, Usable, Complete
      <4> QED BY <1>1, <1>kept, <4>1, <4>2, <4>3
    <3> QED BY <3>1, <3>2, <3>3
  <2>3. CASE EnvCreate(t)
    BY <1>1, <2>3, <1>kept DEF EnvCreate, Return, CreateGroup, SetGroup,
      Unused, Goto, openstack, locks, args
  <2>4. CASE EnvRule(t)
    <3>1. CASE Return(t)
      BY <1>1, <1>kept, <3>1 DEF Return, Goto
    <3>2. CASE ~Return(t)
      <4>1. /\ found[t] = {} /\ found' = [found EXCEPT ![t] = {grp[t]}]
            /\ pc' = [pc EXCEPT ![t] = "access"]
        BY <1>1, <2>4, <3>2 DEF EnvRule, Goto
      <4>2. /\ grp[t] \in Groups /\ name[grp[t]] \in Environments
            /\ Usable(grp[t])
        BY <1>1, <2>4 DEF EnvRule, Usable, Complete
      <4> QED BY <1>1, <1>kept, <4>1, <4>2
    <3> QED BY <3>1, <3>2
  <2>5. CASE AcquireAccess(t) \/ LookForLock(t) \/ InsertLock(t) \/
      AcquireLock(t)
    BY <1>1, <2>5, <1>kept DEF AcquireAccess, LookForLock, InsertLock,
      AcquireLock, Goto, openstack, locks, args
  <2>6. CASE ProjectGet(t)
    BY <1>1, <2>6, <1>kept DEF ProjectGet, SetGroup, NoneNamed, OneNamed,
      Named, Goto, openstack, locks, args
  <2>7. CASE ProjectNew(t)
    BY <1>1, <2>7, <1>kept DEF ProjectNew, CreateGroup, SetGroup, Unused,
      Goto, openstack, locks, args
  <2>8. CASE ProjectRule(t)
    BY <1>1, <2>8, <1>kept DEF ProjectRule, SetGroup, Goto, openstack, locks,
      args
  <2>9. CASE Release(t)
    BY <1>1, <2>9, <1>kept DEF Release, Return, Goto, openstack, locks, args,
      Usable, Complete
  <2>10. CASE CreateServer(t)
    BY <1>1, <2>10, <1>kept DEF CreateServer, Return, Goto, openstack, locks,
      args
  <2>11. CASE AddGet(t)
    BY <1>1, <2>11, <1>kept DEF AddGet, Return, SetGroup, OneNamed, Named,
      Goto, openstack, locks, args
  <2>12. CASE AddList(t)
    BY <1>1, <2>12, <1>kept DEF AddList, Return, NamesOf, Goto, openstack,
      locks, args
  <2>13. CASE AddToServer(t)
    BY <1>1, <2>13, <1>kept DEF AddToServer, Return, Goto, openstack, locks,
      args
  <2>14. CASE DeleteServer(t)
    BY <1>1, <2>14, <1>kept DEF DeleteServer, Return, Goto, openstack, locks,
      args
  <2>15. CASE VisitGroup(t)
    BY <1>1, <2>15, <1>kept DEF VisitGroup, Return, IsSecurityGroupInUse,
      OneNamed, Named, Goto, openstack, locks, args
  <2> QED BY <1>3, <2>1, <2>2, <2>3, <2>4, <2>5, <2>6, <2>7, <2>8, <2>9,
      <2>10, <2>11, <2>12, <2>13, <2>14, <2>15 DEF Step
<1>4. CASE Restart
  BY <1>4, Restarted DEF IInv
<1> QED BY <1>2, <1>3, <1>4 DEF Next

(* Whatever is attached was gathered or added.                             *)
LEMMA AttachedStep ==
  ASSUME IInv, [Next]_vars
  PROVE  AttachedUsable'
<1> USE GroupsAssumption DEF TypeOK, Gathered, Adding, AttachedUsable, Kept
<1>1. TypeOK /\ Gathered /\ Adding /\ AttachedUsable
  BY DEF IInv
<1>kept. Kept
  BY <1>1, GroupsKept
<1>2. CASE UNCHANGED vars
  BY <1>1, <1>2, <1>kept DEF vars, openstack, locks, args, locals
<1>3. ASSUME NEW t \in Threads, Request(t) \/ Step(t)
      PROVE  AttachedUsable'
  <2>1. CASE Request(t)
    BY <1>1, <2>1, <1>kept DEF Request, BeginStart, BeginAddProject,
      BeginAddEnvironment, BeginLoop, Accept, NamesOf, Goto, openstack,
      locks, args
  <2>2. CASE EnvGet(t)
    BY <1>1, <2>2, <1>kept DEF EnvGet, Return, NoneNamed, OneNamed, Named,
      Goto, openstack, locks, args
  <2>3. CASE EnvCreate(t)
    BY <1>1, <2>3, <1>kept DEF EnvCreate, Return, CreateGroup, SetGroup,
      Unused, Goto, openstack, locks, args
  <2>4. CASE EnvRule(t)
    BY <1>1, <2>4, <1>kept DEF EnvRule, Return, SetGroup, Goto, openstack,
      locks, args
  <2>5. CASE AcquireAccess(t) \/ LookForLock(t) \/ InsertLock(t) \/
      AcquireLock(t)
    BY <1>1, <2>5, <1>kept DEF AcquireAccess, LookForLock, InsertLock,
      AcquireLock, Goto, openstack, locks, args
  <2>6. CASE ProjectGet(t)
    BY <1>1, <2>6, <1>kept DEF ProjectGet, SetGroup, NoneNamed, OneNamed,
      Named, Goto, openstack, locks, args
  <2>7. CASE ProjectNew(t)
    BY <1>1, <2>7, <1>kept DEF ProjectNew, CreateGroup, SetGroup, Unused,
      Goto, openstack, locks, args
  <2>8. CASE ProjectRule(t)
    BY <1>1, <2>8, <1>kept DEF ProjectRule, SetGroup, Goto, openstack, locks,
      args
  <2>9. CASE Release(t)
    BY <1>1, <2>9, <1>kept DEF Release, Return, Goto, openstack, locks, args
  <2>10. CASE CreateServer(t)
    BY <1>1, <2>10, <1>kept DEF CreateServer, Return, Goto, openstack, locks,
      args
  <2>11. CASE AddGet(t)
    BY <1>1, <2>11, <1>kept DEF AddGet, Return, SetGroup, OneNamed, Named,
      Goto, openstack, locks, args
  <2>12. CASE AddList(t)
    BY <1>1, <2>12, <1>kept DEF AddList, Return, NamesOf, Goto, openstack,
      locks, args
  <2>13. CASE AddToServer(t)
    BY <1>1, <2>13, <1>kept DEF AddToServer, Return, Goto, openstack, locks,
      args
  <2>14. CASE DeleteServer(t)
    BY <1>1, <2>14, <1>kept DEF DeleteServer, Return, Goto, openstack, locks,
      args
  <2>15. CASE VisitGroup(t)
    BY <1>1, <2>15, <1>kept DEF VisitGroup, Return, IsSecurityGroupInUse,
      OneNamed, Named, Goto, openstack, locks, args
  <2> QED BY <1>3, <2>1, <2>2, <2>3, <2>4, <2>5, <2>6, <2>7, <2>8, <2>9,
      <2>10, <2>11, <2>12, <2>13, <2>14, <2>15 DEF Step
<1>4. CASE Restart
  BY <1>4, Restarted DEF IInv
<1> QED BY <1>2, <1>3, <1>4 DEF Next

(* Two groups in hand have the same name only if each was the only one.    *)
LEMMA AddingStep ==
  ASSUME IInv, [Next]_vars
  PROVE  Adding'
<1> USE GroupsAssumption DEF TypeOK, Arguments, Making, OneGroupPerProject,
      AttachedUsable, Adding, Kept, ProjectSteps, AddSteps, LoopSteps
<1>1. TypeOK /\ Arguments /\ Making /\ OneGroupPerProject /\ Gathered /\
      AttachedUsable /\ Adding
  BY DEF IInv
<1>kept. Kept
  BY <1>1, GroupsKept
<1>adders. ASSUME \A u \in Threads : pc'[u] \in {"add_list", "add"} =>
               pc'[u] = pc[u] /\ grp'[u] = grp[u] /\ srv'[u] = srv[u],
             \A s \in Servers : attached'[s] \subseteq attached[s]
      PROVE  Adding'
  BY <1>1, <1>kept, <1>adders
<1>2. CASE UNCHANGED vars
  BY <1>1, <1>2, <1>kept DEF vars, openstack, locks, args, locals
<1>3. ASSUME NEW t \in Threads, Request(t) \/ Step(t)
      PROVE  Adding'
  <2>1. CASE Request(t)
    <3>1. \A u \in Threads : pc'[u] \in {"add_list", "add"} =>
            pc'[u] = pc[u] /\ grp'[u] = grp[u] /\ srv'[u] = srv[u]
      BY <1>1, <2>1 DEF Request, BeginStart, BeginAddProject,
        BeginAddEnvironment, BeginLoop, Accept, Goto
    <3>2. UNCHANGED attached
      BY <2>1 DEF Request, BeginStart, BeginAddProject, BeginAddEnvironment,
        BeginLoop, openstack
    <3> QED BY <1>adders, <3>1, <3>2
  <2>2. CASE EnvGet(t)
    BY <1>1, <2>2, <1>kept DEF EnvGet, Return, NoneNamed, OneNamed, Named,
      Goto, openstack, locks, args
  <2>3. CASE EnvCreate(t)
    <3>1. CASE Return(t)
      BY <1>1, <2>3, <3>1, <1>adders, Returned DEF EnvCreate
    <3>2. CASE ~Return(t)
      BY <1>1, <2>3, <3>2, <1>adders DEF EnvCreate, Goto, SetGroup, args
    <3> QED BY <3>1, <3>2
  <2>4. CASE EnvRule(t)
    <3>1. CASE Return(t)
      BY <1>1, <2>4, <3>1, <1>adders, Returned DEF EnvRule, openstack
    <3>2. CASE ~Return(t)
      BY <1>1, <2>4, <3>2, <1>adders
         DEF EnvRule, Goto, SetGroup, args, openstack
    <3> QED BY <3>1, <3>2
  <2>5. CASE AcquireAccess(t) \/ LookForLock(t) \/ InsertLock(t) \/
      AcquireLock(t)
    BY <1>1, <2>5, <1>kept DEF AcquireAccess, LookForLock, InsertLock,
      AcquireLock, Goto, openstack, locks, args
  <2>6. CASE ProjectGet(t)
    BY <1>1, <2>6, <1>kept DEF ProjectGet, SetGroup, NoneNamed, OneNamed,
      Named, Goto, openstack, locks, args
  <2>7. CASE ProjectNew(t)
    BY <1>1, <2>7, <1>adders DEF ProjectNew, SetGroup, Goto, args
  <2>8. CASE ProjectRule(t)
    BY <1>1, <2>8, <1>adders DEF ProjectRule, SetGroup, Goto, args
  <2>9. CASE Release(t)
    BY <1>1, <2>9, <1>kept DEF Release, Return, Goto, openstack, locks, args,
      Usable, Complete
  <2>10. CASE CreateServer(t)
    BY <1>1, <2>10, <1>kept DEF CreateServer, Return, Goto, openstack, locks,
      args, Usable, Complete
  <2>11. CASE AddGet(t)
    <3>1. CASE Return(t)
      BY <1>1, <2>11, <3>1, <1>adders, Returned DEF AddGet, openstack
    <3>2. ASSUME NEW g \in Groups, Named(env[t]) = {g}, SetGroup(t, g),
                 Goto(t, "add_list"), UNCHANGED <<openstack, srv>>
          PROVE  Adding'
      <4>1. name[g] = env[t] /\ \A h \in Groups : name[h] = name[g] => h = g
        BY <3>2 DEF Named
      <4>2. name[g] # NoName /\ Usable(g)
        BY <1>1, <2>11, <4>1 DEF AddGet, Usable, Complete
      <4> QED BY <1>1, <1>kept, <3>2, <4>1, <4>2 DEF SetGroup, Goto, openstack
    <3> QED BY <2>11, <3>1, <3>2 DEF AddGet, args
  <2>12. CASE AddList(t)
    <3>1. CASE Return(t)
      BY <1>1, <2>12, <3>1, <1>adders, Returned DEF AddList, openstack
    <3>2. CASE ~Return(t)
      <4>1. \A h \in attached[srv[t]] : name[h] # name[grp[t]]
        BY <2>12, <3>2 DEF AddList, NamesOf
      <4> QED
        BY <1>1, <1>kept, <2>12, <3>2, <4>1 DEF AddList, Goto, openstack, args
    <3> QED BY <3>1, <3>2
  <2>13. CASE AddToServer(t)
    BY <1>1, <2>13, <1>kept DEF AddToServer, Return, Goto, openstack, locks,
      args
  <2>14. CASE DeleteServer(t)
    <3>1. \A u \in Threads : pc'[u] \in {"add_list", "add"} =>
            pc'[u] = pc[u] /\ grp'[u] = grp[u] /\ srv'[u] = srv[u]
      BY <1>1, <2>14 DEF DeleteServer, Goto, Return, args
    <3>2. \A s \in Servers : attached'[s] \subseteq attached[s]
      BY <1>1, <2>14 DEF DeleteServer
    <3> QED BY <1>adders, <3>1, <3>2
  <2>15. CASE VisitGroup(t)
    <3>1. \A u \in Threads : pc'[u] \in {"add_list", "add"} =>
            pc'[u] = pc[u] /\ grp'[u] = grp[u] /\ srv'[u] = srv[u]
      BY <1>1, <2>15 DEF VisitGroup, Goto, Return, args
    <3>2. \A s \in Servers : attached'[s] \subseteq attached[s]
      BY <1>1, <2>15 DEF VisitGroup
    <3> QED BY <1>adders, <3>1, <3>2
  <2> QED BY <1>3, <2>1, <2>2, <2>3, <2>4, <2>5, <2>6, <2>7, <2>8, <2>9,
      <2>10, <2>11, <2>12, <2>13, <2>14, <2>15 DEF Step
<1>4. CASE Restart
  BY <1>4, Restarted DEF IInv
<1> QED BY <1>2, <1>3, <1>4 DEF Next

(* Neither a new server nor an addition brings a twin.                     *)
LEMMA NoTwinsStep ==
  ASSUME IInv, [Next]_vars
  PROVE  NoTwinsAttached'
<1> USE GroupsAssumption DEF TypeOK, Gathered, Adding, NoTwinsAttached,
      AttachedUsable, Usable, Kept
<1>1. TypeOK /\ Gathered /\ Adding /\ NoTwinsAttached /\ AttachedUsable
  BY DEF IInv
<1>kept. Kept
  BY <1>1, GroupsKept
<1>2. CASE UNCHANGED vars
  BY <1>1, <1>2, <1>kept DEF vars, openstack, locks, args, locals
<1>3. ASSUME NEW t \in Threads, Request(t) \/ Step(t)
      PROVE  NoTwinsAttached'
  <2>1. CASE Request(t)
    BY <1>1, <2>1, <1>kept DEF Request, BeginStart, BeginAddProject,
      BeginAddEnvironment, BeginLoop, Accept, NamesOf, Goto, openstack,
      locks, args
  <2>2. CASE EnvGet(t)
    BY <1>1, <2>2, <1>kept DEF EnvGet, Return, NoneNamed, OneNamed, Named,
      Goto, openstack, locks, args
  <2>3. CASE EnvCreate(t)
    BY <1>1, <2>3, <1>kept DEF EnvCreate, Return, CreateGroup, SetGroup,
      Unused, Goto, openstack, locks, args
  <2>4. CASE EnvRule(t)
    BY <1>1, <2>4, <1>kept DEF EnvRule, Return, SetGroup, Goto, openstack,
      locks, args
  <2>5. CASE AcquireAccess(t) \/ LookForLock(t) \/ InsertLock(t) \/
      AcquireLock(t)
    BY <1>1, <2>5, <1>kept DEF AcquireAccess, LookForLock, InsertLock,
      AcquireLock, Goto, openstack, locks, args
  <2>6. CASE ProjectGet(t)
    BY <1>1, <2>6, <1>kept DEF ProjectGet, SetGroup, NoneNamed, OneNamed,
      Named, Goto, openstack, locks, args
  <2>7. CASE ProjectNew(t)
    BY <1>1, <2>7, <1>kept DEF ProjectNew, CreateGroup, SetGroup, Unused,
      Goto, openstack, locks, args
  <2>8. CASE ProjectRule(t)
    BY <1>1, <2>8, <1>kept DEF ProjectRule, SetGroup, Goto, openstack, locks,
      args
  <2>9. CASE Release(t)
    BY <1>1, <2>9, <1>kept DEF Release, Return, Goto, openstack, locks, args
  <2>10. CASE CreateServer(t)
    BY <1>1, <2>10, <1>kept DEF CreateServer, Return, Goto, openstack, locks,
      args
  <2>11. CASE AddGet(t)
    BY <1>1, <2>11, <1>kept DEF AddGet, Return, SetGroup, OneNamed, Named,
      Goto, openstack, locks, args
  <2>12. CASE AddList(t)
    BY <1>1, <2>12, <1>kept DEF AddList, Return, NamesOf, Goto, openstack,
      locks, args
  <2>13. CASE AddToServer(t)
    BY <1>1, <2>13, <1>kept DEF AddToServer, Return, Goto, openstack, locks,
      args
  <2>14. CASE DeleteServer(t)
    BY <1>1, <2>14, <1>kept DEF DeleteServer, Return, Goto, openstack, locks,
      args
  <2>15. CASE VisitGroup(t)
    BY <1>1, <2>15, <1>kept DEF VisitGroup, Return, IsSecurityGroupInUse,
      OneNamed, Named, Goto, openstack, locks, args
  <2> QED BY <1>3, <2>1, <2>2, <2>3, <2>4, <2>5, <2>6, <2>7, <2>8, <2>9,
      <2>10, <2>11, <2>12, <2>13, <2>14, <2>15 DEF Step
<1>4. CASE Restart
  BY <1>4, Restarted DEF IInv
<1> QED BY <1>2, <1>3, <1>4 DEF Next

-----------------------------------------------------------------------------
(* The inductive invariant holds, however many threads and groups there    *)
(* are: the locks of get_or_create_project_security_group do their work.   *)
THEOREM Invariance == Spec => []IInv
<1>1. Init => IInv
  BY InitInv
<1>2. IInv /\ [Next]_vars => IInv'
  <2> SUFFICES ASSUME IInv, [Next]_vars PROVE IInv'
    OBVIOUS
  <2>1. restarts' \in 0 .. MaxRestarts
    <3>1. restarts \in 0 .. MaxRestarts
      BY DEF IInv, TypeOK
    <3>2. restarts' = restarts \/ (restarts < MaxRestarts /\ restarts' = restarts + 1)
      BY DEF Next, Restart, vars
    <3> QED
      BY <3>1, <3>2, GroupsAssumption
  <2>2. TypeOK'
    BY <2>1, SharedTypesStep, RequestTypesStep, LocalTypesStep
       DEF TypeOK, SharedTypes, RequestTypes, LocalTypes
  <2> QED
    BY <2>2, RuledExistStep, ArgumentsStep, LockingStep, MakingStep, FinishedStep,
       OneGroupStep, GatheredStep, AttachedStep, AddingStep, NoTwinsStep
       DEF IInv
<1> QED
  BY <1>1, <1>2, PTL DEF Spec

(* Every variable has its type.                                            *)
THEOREM TypeCorrect == Spec => []TypeOK
<1>1. IInv => TypeOK
  BY DEF IInv
<1> QED
  BY <1>1, Invariance, PTL

(* Any number of requests that start the first servers of a project, at    *)
(* the same time or not, make one group for it.                            *)
THEOREM ProjectHasOneGroup == Spec => []OneGroupPerProject
<1>1. IInv => OneGroupPerProject
  BY DEF IInv
<1> QED
  BY <1>1, Invariance, PTL

(* No server is given a project group that is still being made: its SSH    *)
(* rule exists, or the request that made the group was cut short, by a     *)
(* call that raised or by a crash of the client.                           *)
THEOREM AttachedAreComplete == Spec => []ProjectGroupsAreComplete
<1>1. IInv => ProjectGroupsAreComplete
  BY DEF IInv, TypeOK, AttachedUsable, Usable, Complete,
         ProjectGroupsAreComplete
<1> QED
  BY <1>1, Invariance, PTL

(* No server ends up with two groups of the same name.                     *)
THEOREM NoTwins == Spec => []NoTwinsAttached
<1>1. IInv => NoTwinsAttached
  BY DEF IInv
<1> QED
  BY <1>1, Invariance, PTL

-----------------------------------------------------------------------------
(* SecurityGroups implements ProjectGroups.  What the requests hand on is  *)
(* the group of their project, and only servers that are there have any.   *)
HandedTo(t) ==
  /\ pc[t] \in {"idle", "add_get"} \cup LoopSteps => prj[t] = NoName
  /\ pc[t] = "create" =>
       /\ prj[t] \in Projects
       /\ grp[t] \in found[t]
       /\ \A g \in found[t] : name[g] \in Projects => g = grp[t]
  /\ pc[t] \in {"create", "add_list", "add"} =>
       name[grp[t]] \in (IF prj[t] = NoName THEN Environments ELSE {prj[t]})

Handed == \A t \in Threads : HandedTo(t)
Vacant == \A s \in Servers \ live : attached[s] = {}

(* A step of a thread leaves the locals of the others alone.               *)
LEMMA OneMoves ==
  ASSUME TypeOK, NEW t \in Threads, Request(t) \/ Step(t),
         NEW u \in Threads, u # t
  PROVE  /\ pc'[u] = pc[u] /\ op'[u] = op[u] /\ prj'[u] = prj[u]
         /\ grp'[u] = grp[u] /\ found'[u] = found[u] /\ lock'[u] = lock[u]
         /\ todo'[u] = todo[u]
<1> USE DEF TypeOK, openstack, locks, args
<1>1. CASE Request(t)
  BY <1>1 DEF Request, BeginStart, BeginAddProject, BeginAddEnvironment,
              BeginLoop, Accept, Goto
<1>2. CASE EnvGet(t) \/ EnvCreate(t) \/ EnvRule(t)
  BY <1>2 DEF EnvGet, EnvCreate, EnvRule, Return, Goto, SetGroup
<1>3. CASE AcquireAccess(t) \/ LookForLock(t) \/ InsertLock(t) \/
           AcquireLock(t)
  BY <1>3 DEF AcquireAccess, LookForLock, InsertLock, AcquireLock, Goto
<1>4. CASE ProjectGet(t) \/ ProjectNew(t) \/ ProjectRule(t)
  BY <1>4 DEF ProjectGet, ProjectNew, ProjectRule, Goto, SetGroup
<1>5. CASE Release(t) \/ CreateServer(t)
  BY <1>5 DEF Release, CreateServer, Return, Goto
<1>6. CASE AddGet(t) \/ AddList(t) \/ AddToServer(t)
  BY <1>6 DEF AddGet, AddList, AddToServer, Return, Goto, SetGroup
<1>7. CASE DeleteServer(t) \/ VisitGroup(t)
  BY <1>7 DEF DeleteServer, VisitGroup, Return, Goto
<1> QED
  BY <1>1, <1>2, <1>3, <1>4, <1>5, <1>6, <1>7 DEF Step

(* Nor does a step of another thread spoil what a thread was handed.       *)
LEMMA HandedKept ==
  ASSUME IInv, Kept, NEW t \in Threads, HandedTo(t),
         pc'[t] = pc[t], prj'[t] = prj[t], grp'[t] = grp[t],
         found'[t] = found[t]
  PROVE  HandedTo(t)'
<1>1. TypeOK /\ Gathered /\ Adding
  BY DEF IInv
<1>2. \A g \in found[t] : name'[g] = name[g]
  BY <1>1 DEF Gathered, Kept, TypeOK
<1>3. pc[t] \in {"create", "add_list", "add"} => name'[grp[t]] = name[grp[t]]
  <2>1. CASE pc[t] = "create"
    BY <1>2, <2>1 DEF HandedTo
  <2>2. CASE pc[t] \in {"add_list", "add"}
    BY <1>1, <2>2 DEF Adding, Kept, TypeOK
  <2> QED
    BY <2>1, <2>2
<1> QED
  BY <1>2, <1>3 DEF HandedTo

LEMMA HandedStep ==
  ASSUME IInv, Handed, [Next]_vars
  PROVE  Handed'
<1>1. TypeOK /\ Arguments /\ Making /\ Gathered /\ Kept
  BY GroupsKept DEF IInv
<1>2. CASE UNCHANGED vars
  BY <1>2 DEF vars, openstack, locals, args, Handed, HandedTo
<1>3. ASSUME NEW t \in Threads, Request(t) \/ Step(t)
      PROVE  HandedTo(t)'
  <2> USE GroupsAssumption DEF TypeOK
  <2>0. HandedTo(t)
    BY DEF Handed
  <2>1. CASE pc'[t] = "idle" /\ prj'[t] = NoName
    BY <2>1 DEF HandedTo
  <2>2. CASE pc'[t] \in {"env_get", "env_create", "env_rule"} \cup ProjectSteps
    BY <2>2 DEF HandedTo, LoopSteps, ProjectSteps
  <2>3. ASSUME Return(t)
        PROVE  HandedTo(t)'
    BY <1>1, <2>1, <2>3 DEF Return, Goto
  <2>4. CASE Request(t)
    <3>1. ASSUME NEW e \in Environments \cup {NoName}, NEW n \in Projects,
                 BeginStart(t, e, n)
          PROVE  HandedTo(t)'
      BY <1>1, <2>2, <3>1 DEF BeginStart, Accept, Goto, ProjectSteps
    <3>2. ASSUME NEW s \in Servers, NEW n \in Projects,
                 BeginAddProject(t, s, n)
          PROVE  HandedTo(t)'
      BY <1>1, <2>2, <3>2 DEF BeginAddProject, Accept, Goto, ProjectSteps
    <3>3. ASSUME NEW s \in Servers, NEW e \in Environments,
                 BeginAddEnvironment(t, s, e)
          PROVE  HandedTo(t)'
      BY <1>1, <3>3 DEF BeginAddEnvironment, Accept, Goto, HandedTo, LoopSteps
    <3>4. ASSUME NEW s \in Servers, NEW o \in {"delete", "remove"},
                 BeginLoop(t, s, o)
          PROVE  HandedTo(t)'
      BY <1>1, <2>0, <3>4 DEF BeginLoop, Goto, HandedTo, LoopSteps
    <3> QED
      BY <2>4, <3>1, <3>2, <3>3, <3>4 DEF Request
  <2>5. CASE EnvGet(t) \/ EnvCreate(t) \/ EnvRule(t)
    BY <1>1, <2>2, <2>3, <2>5
       DEF EnvGet, EnvCreate, EnvRule, Goto, ProjectSteps
  <2>6. CASE AcquireAccess(t) \/ LookForLock(t) \/ InsertLock(t) \/
             AcquireLock(t)
    BY <1>1, <2>2, <2>6 DEF AcquireAccess, LookForLock, InsertLock,
       AcquireLock, Goto, ProjectSteps
  <2>7. CASE ProjectGet(t) \/ ProjectNew(t) \/ ProjectRule(t)
    BY <1>1, <2>2, <2>7 DEF ProjectGet, ProjectNew, ProjectRule, Goto,
       ProjectSteps
  <2>8. CASE Release(t)
    <3>1. pc[t] = "release" /\ prj[t] \in Projects
      BY <1>1, <2>8 DEF Release, Arguments, ProjectSteps
    <3>2. CASE grp[t] = NoGroup
      BY <2>3, <2>8, <3>2 DEF Release
    <3>3. ASSUME grp[t] # NoGroup, op[t] = "start"
          PROVE  HandedTo(t)'
      <4>1. /\ pc'[t] = "create" /\ prj' = prj /\ grp' = grp /\ name' = name
            /\ found'[t] = found[t] \cup {grp[t]}
        BY <1>1, <2>8, <3>3 DEF Release, Goto, args, openstack
      <4>2. \A g \in found[t] : name[g] \notin Projects
        BY <1>1, <3>1 DEF Gathered, ProjectSteps
      <4>3. name[grp[t]] = prj[t]
        BY <1>1, <3>1, <3>3 DEF Making
      <4> QED
        BY <3>1, <4>1, <4>2, <4>3 DEF HandedTo, LoopSteps
    <3>4. ASSUME grp[t] # NoGroup, op[t] = "add_project"
          PROVE  HandedTo(t)'
      BY <1>1, <2>8, <3>1, <3>4
         DEF Release, Making, Goto, args, openstack, HandedTo, LoopSteps
    <3> QED
      BY <2>8, <3>2, <3>3, <3>4 DEF Release
  <2>9. CASE CreateServer(t) \/ AddToServer(t)
    BY <2>3, <2>9 DEF CreateServer, AddToServer
  <2>10. CASE AddGet(t)
    <3>1. ASSUME NEW g \in Groups, Named(env[t]) = {g}, SetGroup(t, g),
                 Goto(t, "add_list"), UNCHANGED <<openstack, prj>>
          PROVE  HandedTo(t)'
      <4>1. name[g] = env[t] /\ env[t] \in Environments /\ prj[t] = NoName
        BY <1>1, <2>0, <2>10, <3>1 DEF AddGet, Named, Arguments, HandedTo
      <4> QED
        BY <1>1, <3>1, <4>1
           DEF SetGroup, Goto, openstack, HandedTo, LoopSteps
    <3> QED
      BY <2>3, <2>10, <3>1 DEF AddGet, args
  <2>11. CASE AddList(t)
    BY <1>1, <2>0, <2>3, <2>11
       DEF AddList, Goto, args, openstack, HandedTo, LoopSteps
  <2>12. CASE DeleteServer(t)
    BY <1>1, <2>0, <2>3, <2>12 DEF DeleteServer, Goto, args, HandedTo, LoopSteps
  <2>13. CASE VisitGroup(t)
    BY <1>1, <2>0, <2>3, <2>13 DEF VisitGroup, args, HandedTo, LoopSteps
  <2> QED
    BY <1>3, <2>4, <2>5, <2>6, <2>7, <2>8, <2>9, <2>10, <2>11, <2>12, <2>13
       DEF Step
<1>4. ASSUME NEW t \in Threads, Request(t) \/ Step(t),
             NEW u \in Threads
      PROVE  HandedTo(u)'
  <2>1. CASE u = t
    BY <1>3, <1>4, <2>1
  <2>2. CASE u # t
    BY <1>1, <1>4, <2>2, OneMoves, HandedKept DEF Handed
  <2> QED
    BY <2>1, <2>2
<1>5. CASE Restart
  <2>1. \A t \in Threads : pc'[t] = "idle" /\ prj'[t] = NoName
    BY <1>5 DEF Restart
  <2> QED
    BY <2>1 DEF Handed, HandedTo
<1> QED
  BY <1>2, <1>4, <1>5 DEF Next, Handed

LEMMA VacantStep ==
  ASSUME IInv, Vacant, [Next]_vars
  PROVE  Vacant'
<1> USE DEF TypeOK, Vacant, openstack
<1>1. TypeOK
  BY DEF IInv
<1>2. CASE UNCHANGED <<attached, live>>
  BY <1>2
<1>3. ASSUME NEW t \in Threads, CreateServer(t)
      PROVE  Vacant'
  BY <1>1, <1>3 DEF CreateServer
<1>4. ASSUME NEW t \in Threads, AddToServer(t)
      PROVE  Vacant'
  BY <1>1, <1>4 DEF AddToServer
<1>5. ASSUME NEW t \in Threads, DeleteServer(t)
      PROVE  Vacant'
  BY <1>1, <1>5 DEF DeleteServer
<1>6. ASSUME NEW t \in Threads, VisitGroup(t)
      PROVE  Vacant'
  <2>1. live' = live /\ \A s \in Servers : attached'[s] \subseteq attached[s]
    BY <1>1, <1>6 DEF VisitGroup
  <2> QED
    BY <2>1
<1>7. ASSUME NEW t \in Threads, Request(t)
      PROVE  UNCHANGED <<attached, live>>
  BY <1>7 DEF Request, BeginStart, BeginAddProject, BeginAddEnvironment,
              BeginLoop
<1>8. ASSUME NEW t \in Threads, Step(t)
      PROVE  \/ CreateServer(t) \/ AddToServer(t) \/ DeleteServer(t)
             \/ VisitGroup(t) \/ UNCHANGED <<attached, live>>
  BY <1>8 DEF Step, EnvGet, EnvCreate, EnvRule, AcquireAccess, LookForLock,
     InsertLock, AcquireLock, ProjectGet, ProjectNew, ProjectRule, Release,
     AddGet, AddList
<1> QED
  BY <1>2, <1>3, <1>4, <1>5, <1>6, <1>7, <1>8 DEF Next, vars, Restart

LEMMA Handing == Spec => [](Handed /\ Vacant)
<1>1. Init => Handed /\ Vacant
  BY DEF Init, Handed, HandedTo, Vacant, LoopSteps
<1>2. IInv /\ Handed /\ Vacant /\ [Next]_vars => Handed' /\ Vacant'
  BY HandedStep, VacantStep
<1> QED
  BY <1>1, <1>2, Invariance, PTL DEF Spec

(* How a step of t moves the abstract state: only what t has asked for and *)
(* was given, unless groups or their servers change.                       *)
LEMMA AbstractMoves ==
  ASSUME IInv, NEW t \in Threads, Request(t) \/ Step(t)
  PROVE  /\ [u \in Threads |-> Asked(u)]' =
              [[u \in Threads |-> Asked(u)] EXCEPT ![t] = Asked(t)']
         /\ [u \in Threads |-> Given(u)]' =
              [[u \in Threads |-> Given(u)] EXCEPT ![t] = Given(t)']
<1>1. \A u \in Threads \ {t} :
        /\ pc'[u] = pc[u] /\ prj'[u] = prj[u] /\ grp'[u] = grp[u]
        /\ Asked(u)' = Asked(u) /\ Given(u)' = Given(u)
  BY OneMoves DEF IInv, Asked, Given
<1> QED
  BY <1>1

LEMMA SameGroups ==
  ASSUME \A g \in Groups : name'[g] = name[g] \/
           (name[g] \notin Projects /\ name'[g] \notin Projects)
  PROVE  UNCHANGED [n \in Projects |-> Named(n)]
<1>1. \A n \in Projects : Named(n)' = Named(n)
  BY DEF Named
<1> QED
  BY <1>1

LEMMA SameJoined ==
  ASSUME IInv, Kept, UNCHANGED attached
  PROVE  UNCHANGED [s \in Servers |->
                      {g \in attached[s] : name[g] \in Projects}]
<1>1. \A s \in Servers : \A g \in attached[s] : name'[g] = name[g]
  BY DEF IInv, TypeOK, AttachedUsable, Kept
<1>2. \A s \in Servers : {g \in attached[s] : name[g] \in Projects}' =
                         {g \in attached[s] : name[g] \in Projects}
  BY <1>1
<1> QED
  BY <1>2

(* Two threads are not inside the lock of one project.                     *)
LEMMA OneInside ==
  ASSUME IInv, NEW t \in Threads, NEW u \in Threads,
         pc[t] \in Inside, pc[u] \in Inside, prj[t] = prj[u]
  PROVE  t = u
<1>1. Locking
  BY DEF IInv
<1>2. lock[u] = lock[t]
  BY <1>1 DEF Locking
<1> QED
  BY <1>1, <1>2 DEF Locking

(* The making of groups goes on or ends at ProjectNew and ProjectRule only.*)
LEMMA MadeStays ==
  ASSUME IInv, NEW t \in Threads, Request(t) \/ Step(t),
         pc[t] # "rule", pc'[t] # "rule",
         UNCHANGED [n \in Projects |-> Named(n)]
  PROVE  UNCHANGED [n \in Projects |-> Made(n)]
<1>1. ruled' = ruled
  BY RuledStays
<1>2. ASSUME NEW n \in Projects
      PROVE  Made(n)' = Made(n)
  <2>1. Named(n)' = Named(n)
    <3>1. [m \in Projects |-> Named(m)]'[n] = [m \in Projects |-> Named(m)][n]
      OBVIOUS
    <3> QED
      BY <3>1
  <2>2. (\E u \in Threads : pc[u] = "rule" /\ prj[u] = n)' <=>
          \E u \in Threads : pc[u] = "rule" /\ prj[u] = n
    BY OneMoves DEF IInv
  <2> QED
    BY <1>1, <2>1, <2>2 DEF Made, NoneNamed
<1> QED
  BY <1>2

(* A step that changes none of this is none of ProjectGroups.              *)
LEMMA Unseen ==
  ASSUME IInv, NEW t \in Threads, Request(t) \/ Step(t),
         Asked(t)' = Asked(t), Given(t)' = Given(t),
         pc[t] # "rule", pc'[t] # "rule",
         UNCHANGED [n \in Projects |-> Named(n)],
         UNCHANGED [s \in Servers |->
                      {g \in attached[s] : name[g] \in Projects}]
  PROVE  UNCHANGED Promise!groupVars
<1>1. UNCHANGED [u \in Threads |-> Asked(u)]
  BY AbstractMoves
<1>2. UNCHANGED [u \in Threads |-> Given(u)]
  BY AbstractMoves
<1>3. UNCHANGED [n \in Projects |-> Made(n)]
  BY MadeStays
<1> QED
  BY <1>1, <1>2, <1>3 DEF Promise!groupVars

(* A request begins or goes on to the group of its project; while it asks  *)
(* it has been given nothing.                                              *)
LEMMA AskStep ==
  ASSUME IInv, Kept, NEW t \in Threads, Request(t) \/ Step(t),
         pc[t] \in {"idle", "env_get", "env_rule"}, pc'[t] = "access",
         prj'[t] \in Projects,
         UNCHANGED attached,
         UNCHANGED [n \in Projects |-> Named(n)]
  PROVE  Promise!GroupsNext
<1>1. /\ Asked(t) = NoName /\ Asked(t)' = prj'[t]
      /\ Given(t) = NoGroup /\ Given(t)' = NoGroup
  BY DEF Asked, Given, ProjectSteps
<1>2. [u \in Threads |-> Asked(u)]' =
        [[u \in Threads |-> Asked(u)] EXCEPT ![t] = prj'[t]]
  BY <1>1, AbstractMoves
<1>3. UNCHANGED <<[u \in Threads |-> Given(u)],
                  [n \in Projects |-> Made(n)]>>
  BY <1>1, AbstractMoves, MadeStays
<1>4. Promise!Ask(t, prj'[t])
  BY <1>1, <1>2, <1>3, SameJoined DEF Promise!Ask
<1> QED
  BY <1>4 DEF Promise!GroupsNext

(* What was given is used up or dropped.                                   *)
LEMMA DropStep ==
  ASSUME IInv, Kept, Handed, NEW t \in Threads, Request(t) \/ Step(t),
         pc[t] \in {"create", "add_list", "add"}, pc'[t] = "idle",
         UNCHANGED attached,
         UNCHANGED [n \in Projects |-> Named(n)]
  PROVE  Promise!GroupsNext \/ UNCHANGED Promise!groupVars
<1>1. Asked(t) = NoName /\ Asked(t)' = NoName /\ Given(t)' = NoGroup
  BY DEF Asked, Given, ProjectSteps
<1>2. CASE Given(t) = NoGroup
  BY <1>1, <1>2, SameJoined, Unseen
<1>3. CASE Given(t) # NoGroup
  <2>1. UNCHANGED <<[u \in Threads |-> Asked(u)],
                    [n \in Projects |-> Made(n)]>>
    BY <1>1, AbstractMoves, MadeStays
  <2>2. [u \in Threads |-> Given(u)]' =
          [[u \in Threads |-> Given(u)] EXCEPT ![t] = NoGroup]
    BY <1>1, AbstractMoves
  <2>3. Promise!Drop(t)
    BY <1>3, <2>1, <2>2, SameJoined DEF Promise!Drop
  <2> QED
    BY <2>3 DEF Promise!GroupsNext
<1> QED
  BY <1>2, <1>3

(* A request that asks in vain, whether a lookup, the making of a group or *)
(* of its rule raised.                                                     *)
LEMMA FailStep ==
  ASSUME IInv, Kept, NEW t \in Threads, Request(t) \/ Step(t),
         pc[t] = "release", pc'[t] = "idle",
         UNCHANGED attached,
         UNCHANGED [n \in Projects |-> Named(n)]
  PROVE  Promise!GroupsNext
<1>1. prj[t] # NoName
  BY GroupsAssumption DEF IInv, Arguments, ProjectSteps
<1>2. /\ Asked(t) # NoName /\ Asked(t)' = NoName
      /\ Given(t) = NoGroup /\ Given(t)' = NoGroup
  BY <1>1 DEF Asked, Given, ProjectSteps
<1>3. UNCHANGED <<[u \in Threads |-> Given(u)],
                  [n \in Projects |-> Made(n)]>>
  BY <1>2, AbstractMoves, MadeStays
<1>4. [u \in Threads |-> Asked(u)]' =
        [[u \in Threads |-> Asked(u)] EXCEPT ![t] = NoName]
  BY <1>2, AbstractMoves
<1>5. Promise!Fail(t)
  BY <1>2, <1>3, <1>4, SameJoined DEF Promise!Fail
<1> QED
  BY <1>5 DEF Promise!GroupsNext

(* Only in the lock is a group made, when the project has none.            *)
LEMMA CreateStep ==
  ASSUME IInv, Kept, NEW t \in Threads, ProjectNew(t)
  PROVE  Promise!GroupsNext \/ UNCHANGED Promise!groupVars
<1>1. /\ TypeOK /\ Arguments /\ Making /\ RuledExist
      /\ pc[t] = "new" /\ Step(t)
  BY DEF IInv, ProjectNew, Step
<1>2. prj[t] \in Projects /\ prj[t] # NoName
  BY <1>1, GroupsAssumption DEF Arguments, ProjectSteps
<1>3. UNCHANGED <<attached, prj, ruled>>
  BY DEF ProjectNew, args
<1>4. CASE name' = name /\ pc'[t] = "release"
  <2>1. Asked(t)' = Asked(t) /\ Given(t)' = Given(t)
    BY <1>1, <1>3, <1>4 DEF Asked, Given, ProjectSteps
  <2> QED
    BY <1>1, <1>3, <1>4, <2>1, SameGroups, SameJoined, Unseen
<1>5. ASSUME NEW g \in Unused, CreateGroup(g, prj[t]),
             pc'[t] \in {"rule", "release"}
      PROVE  Promise!GroupsNext
  <2>1. /\ Asked(t) = prj[t] /\ Asked(t)' = prj[t]
        /\ Given(t) = NoGroup /\ Given(t)' = NoGroup
    BY <1>1, <1>3, <1>5 DEF Asked, Given, ProjectSteps
  <2>2. /\ [u \in Threads |-> Asked(u)]' = [u \in Threads |-> Asked(u)]
        /\ [u \in Threads |-> Given(u)]' = [u \in Threads |-> Given(u)]
    BY <1>1, <2>1, AbstractMoves
  <2>3. g \in Groups /\ name[g] = NoName /\ g \notin ruled
    BY <1>1, <1>5, GroupsAssumption DEF Unused, RuledExist
  <2>4. /\ Named(prj[t]) = {}
        /\ \A n \in Projects : g \notin Named(n)
    BY <1>1, <1>2, <2>3, GroupsAssumption DEF Making, Named
  <2>5. \A n \in Projects :
          Named(n)' = IF n = prj[t] THEN {g} ELSE Named(n)
    BY <1>1, <1>2, <1>5, <2>3, <2>4, GroupsAssumption
       DEF TypeOK, CreateGroup, Named
  <2>6. [n \in Projects |-> Named(n)]' =
          [[n \in Projects |-> Named(n)] EXCEPT ![prj[t]] = {g}]
    BY <2>5
  <2>7. \A u \in Threads \ {t} : pc'[u] = pc[u] /\ prj'[u] = prj[u]
    BY <1>1, OneMoves
  <2>8. \A u \in Threads \ {t} : ~(pc[u] = "rule" /\ prj[u] = prj[t])
    BY <1>1, OneInside DEF Inside
  <2>9. Made(prj[t]) = "none"
    BY <2>4 DEF Made, NoneNamed
  <2>10. PICK m \in {"making", "broken"} : Made(prj[t])' = m
    <3>1. Named(prj[t])' = {g}
      BY <1>2, <1>3, <2>5
    <3>2. (\E u \in Threads : pc[u] = "rule" /\ prj[u] = prj[t])' <=>
            pc'[t] = "rule"
      BY <1>3, <2>7, <2>8
    <3> QED
      BY <1>3, <2>3, <3>1, <3>2 DEF Made, NoneNamed
  <2>11. ASSUME NEW n \in Projects, n # prj[t]
         PROVE  Made(n)' = Made(n)
    <3>1. Named(n)' = Named(n)
      BY <2>5, <2>11
    <3>2. (\E u \in Threads : pc[u] = "rule" /\ prj[u] = n)' <=>
            \E u \in Threads : pc[u] = "rule" /\ prj[u] = n
      BY <1>1, <1>3, <2>7, <2>11
    <3> QED
      BY <1>3, <3>1, <3>2 DEF Made, NoneNamed
  <2>12. [n \in Projects |-> Made(n)]' =
           [[n \in Projects |-> Made(n)] EXCEPT ![prj[t]] = m]
    BY <1>3, <2>10, <2>11
  <2>13. Promise!Create(t, g)
    BY <1>2, <1>3, <2>1, <2>2, <2>4, <2>6, <2>9, <2>12, SameJoined
       DEF Promise!Create
  <2> QED
    BY <2>3, <2>13 DEF Promise!GroupsNext
<1> QED
  BY <1>1, <1>4, <1>5 DEF ProjectNew, Goto, TypeOK

LEMMA FinishStep ==
  ASSUME IInv, Kept, NEW t \in Threads, ProjectRule(t)
  PROVE  Promise!GroupsNext
<1>1. /\ TypeOK /\ Making /\ Arguments
      /\ pc[t] = "rule" /\ pc'[t] = "release" /\ Step(t)
  BY DEF IInv, TypeOK, ProjectRule, Goto, Step
<1>2. UNCHANGED <<attached, name, prj>>
  BY DEF ProjectRule, args
<1>3. /\ Asked(t)' = Asked(t)
      /\ Given(t) = NoGroup /\ Given(t)' = NoGroup
  BY <1>1, <1>2 DEF Asked, Given, ProjectSteps
<1>4. UNCHANGED <<[u \in Threads |-> Asked(u)], [u \in Threads |-> Given(u)]>>
  BY <1>1, <1>3, AbstractMoves
<1>5. prj[t] \in Projects /\ grp[t] \in Groups /\ name[grp[t]] = prj[t]
  BY <1>1 DEF Making, Arguments, ProjectSteps, TypeOK
<1>6. \A n \in Projects : Named(n)' = Named(n)
  BY <1>2 DEF Named
<1>7. \A u \in Threads \ {t} : pc'[u] = pc[u] /\ prj'[u] = prj[u]
  BY <1>1, OneMoves
<1>8. \A u \in Threads \ {t} : ~(pc[u] = "rule" /\ prj[u] = prj[t])
  BY <1>1, OneInside DEF Inside
<1>9. grp[t] \in Named(prj[t])
  BY <1>5 DEF Named
<1>10. Made(prj[t]) = "making"
  BY <1>1, <1>9 DEF Made, NoneNamed
<1>11. PICK m \in {"complete", "broken"} : Made(prj[t])' = m
  <2>1. ~(\E u \in Threads : pc[u] = "rule" /\ prj[u] = prj[t])'
    BY <1>1, <1>2, <1>7, <1>8
  <2>2. Named(prj[t])' # {}
    BY <1>2, <1>5, <1>6, <1>9
  <2> QED
    BY <2>1, <2>2 DEF Made, NoneNamed
<1>12. ASSUME NEW n \in Projects, n # prj[t]
       PROVE  Made(n)' = Made(n)
  <2>1. (\E u \in Threads : pc[u] = "rule" /\ prj[u] = n)' <=>
          \E u \in Threads : pc[u] = "rule" /\ prj[u] = n
    BY <1>1, <1>2, <1>7, <1>12
  <2>2. grp[t] \notin Named(n)
    BY <1>5, <1>12 DEF Named
  <2>3. ruled' = ruled \/ ruled' = ruled \cup {grp[t]}
    BY DEF ProjectRule
  <2>4. (Named(n) \subseteq ruled)' <=> Named(n) \subseteq ruled
    BY <1>6, <2>2, <2>3
  <2>5. Named(n)' = Named(n)
    BY <1>6
  <2> QED
    BY <2>1, <2>4, <2>5 DEF Made, NoneNamed
<1>13. [n \in Projects |-> Made(n)]' =
         [[n \in Projects |-> Made(n)] EXCEPT ![prj[t]] = m]
  BY <1>2, <1>11, <1>12
<1>14. Promise!Finish(prj[t])
  BY <1>2, <1>4, <1>5, <1>10, <1>13, SameGroups, SameJoined
     DEF Promise!Finish
<1> QED
  BY <1>5, <1>14 DEF Promise!GroupsNext

(* Whoever leaves the lock with a group leaves nobody in it who makes one. *)
LEMMA GiveStep ==
  ASSUME IInv, Kept, NEW t \in Threads, Release(t), grp[t] # NoGroup
  PROVE  Promise!GroupsNext
<1>1. /\ TypeOK /\ Arguments /\ Locking /\ Making /\ OneGroupPerProject
      /\ pc[t] = "release" /\ Step(t)
  BY DEF IInv, Release, Step
<1>2. prj[t] \in Projects /\ prj[t] # NoName
  BY <1>1, GroupsAssumption DEF Arguments, ProjectSteps
<1>3. pc'[t] \in {"create", "add_list"} /\ UNCHANGED <<openstack, prj, grp>>
  BY <1>1 DEF Release, Goto, TypeOK, args
<1>4. /\ Asked(t) = prj[t] /\ Asked(t)' = NoName
      /\ Given(t)' = grp[t]
  BY <1>1, <1>2, <1>3 DEF Asked, Given, ProjectSteps
<1>5. /\ [u \in Threads |-> Asked(u)]' =
           [[u \in Threads |-> Asked(u)] EXCEPT ![t] = NoName]
      /\ [u \in Threads |-> Given(u)]' =
           [[u \in Threads |-> Given(u)] EXCEPT ![t] = grp[t]]
  BY <1>1, <1>3, <1>4, AbstractMoves
<1>6. grp[t] \in Groups /\ Named(prj[t]) = {grp[t]}
  BY <1>1, <1>2 DEF TypeOK, Making, OneGroupPerProject, Named
<1>7. UNCHANGED <<name, attached>>
  BY <1>3 DEF openstack
<1>8. UNCHANGED [n \in Projects |-> Made(n)]
  BY <1>1, <1>3, <1>7, SameGroups, MadeStays
<1>9. Made(prj[t]) \in {"complete", "broken"}
  <2>1. \A u \in Threads : ~(pc[u] = "rule" /\ prj[u] = prj[t])
    BY <1>1, OneInside DEF Inside
  <2> QED
    BY <1>6, <2>1 DEF Made, NoneNamed
<1>10. Promise!Give(t, grp[t])
  BY <1>2, <1>4, <1>5, <1>6, <1>7, <1>8, <1>9, SameGroups, SameJoined
     DEF Promise!Give
<1> QED
  BY <1>6, <1>10 DEF Promise!GroupsNext

(* A crash takes away what was asked for and given, and spoils what was    *)
(* being made: a group at ProjectRule has no rule yet.                     *)
LEMMA CrashStep ==
  ASSUME IInv, Kept, Restart
  PROVE  Promise!GroupsNext
<1>1. TypeOK /\ Making /\ Arguments
  BY DEF IInv
<1>2. UNCHANGED <<name, ruled, attached>>
  BY DEF Restart
<1>3. \A t \in Threads : pc'[t] = "idle"
  BY DEF Restart
<1>4. \A t \in Threads : Asked(t)' = NoName /\ Given(t)' = NoGroup
  BY <1>3 DEF Asked, Given, ProjectSteps
<1>5. ASSUME NEW n \in Projects
      PROVE  Made(n)' = IF Made(n) = "making" THEN "broken" ELSE Made(n)
  <2>1. Named(n)' = Named(n)
    BY <1>2 DEF Named
  <2>2. ~(\E u \in Threads : pc[u] = "rule" /\ prj[u] = n)'
    BY <1>3
  <2>3. ASSUME NEW u \in Threads, pc[u] = "rule", prj[u] = n
        PROVE  grp[u] \in Named(n) /\ grp[u] \notin ruled
    BY <1>1, <2>3 DEF Making, Named, TypeOK
  <2> QED
    BY <1>2, <2>1, <2>2, <2>3 DEF Made, NoneNamed
<1>6. Promise!Crash
  BY <1>2, <1>4, <1>5, SameGroups, SameJoined DEF Promise!Crash
<1> QED
  BY <1>6 DEF Promise!GroupsNext

(* A server that is created or added to gets the group that was given.     *)
LEMMA JoinStep ==
  ASSUME IInv, Kept, Handed, NEW t \in Threads, NEW s \in Servers,
         Request(t) \/ Step(t),
         pc[t] \in {"create", "add_list", "add"}, pc'[t] = "idle",
         name' = name,
         attached' = [attached EXCEPT ![s] = attached'[s]],
         {g \in attached'[s] : name[g] \in Projects} =
           {g \in attached[s] : name[g] \in Projects} \cup
           (IF prj[t] = NoName THEN {} ELSE {grp[t]}),
         prj[t] # NoName => grp[t] # NoGroup
  PROVE  Promise!GroupsNext \/ UNCHANGED Promise!groupVars
<1>1. /\ Asked(t) = NoName /\ Asked(t)' = NoName /\ Given(t)' = NoGroup
      /\ Given(t) = IF prj[t] = NoName THEN NoGroup ELSE grp[t]
  BY DEF Asked, Given, ProjectSteps
<1>2. TypeOK
  BY DEF IInv
<1>3. CASE prj[t] = NoName
  <2>1. UNCHANGED [r \in Servers |->
                     {g \in attached[r] : name[g] \in Projects}]
    <3>1. \A r \in Servers : {g \in attached'[r] : name[g] \in Projects} =
                             {g \in attached[r] : name[g] \in Projects}
      BY <1>2, <1>3 DEF TypeOK
    <3> QED
      BY <3>1
  <2> QED
    BY <1>1, <1>3, <2>1, SameGroups, Unseen
<1>4. CASE prj[t] # NoName
  <2>1. [r \in Servers |-> {g \in attached[r] : name[g] \in Projects}]' =
          [[r \in Servers |-> {g \in attached[r] : name[g] \in Projects}]
             EXCEPT ![s] = @ \cup {grp[t]}]
    <3>1. \A r \in Servers \ {s} : attached'[r] = attached[r]
      BY <1>2 DEF TypeOK
    <3> QED
      BY <1>4, <3>1
  <2>2. /\ UNCHANGED <<[u \in Threads |-> Asked(u)],
                       [n \in Projects |-> Made(n)]>>
        /\ [u \in Threads |-> Given(u)]' =
             [[u \in Threads |-> Given(u)] EXCEPT ![t] = NoGroup]
    <3>1. pc[t] # "rule" /\ pc'[t] # "rule"
      OBVIOUS
    <3>2. UNCHANGED [n \in Projects |-> Named(n)]
      BY SameGroups
    <3>3. UNCHANGED [n \in Projects |-> Made(n)]
      BY <3>1, <3>2, MadeStays
    <3>4. UNCHANGED [u \in Threads |-> Asked(u)]
      BY <1>1, AbstractMoves
    <3>5. [u \in Threads |-> Given(u)]' =
            [[u \in Threads |-> Given(u)] EXCEPT ![t] = NoGroup]
      BY <1>1, AbstractMoves
    <3> QED
      BY <3>3, <3>4, <3>5
  <2>3. Promise!Join(t, s)
    BY <1>1, <1>4, <2>1, <2>2, SameGroups DEF Promise!Join
  <2> QED
    BY <2>3 DEF Promise!GroupsNext
<1> QED
  BY <1>3, <1>4

(* A server loses groups with its deletion or one after the other.         *)
LEMMA PartStep ==
  ASSUME IInv, Kept, NEW t \in Threads, NEW s \in Servers,
         Request(t) \/ Step(t),
         Asked(t)' = Asked(t), Given(t)' = Given(t),
         pc[t] # "rule", pc'[t] # "rule",
         name' = name, NEW gs \in SUBSET Groups,
         attached' = [attached EXCEPT ![s] = @ \ gs]
  PROVE  Promise!GroupsNext
<1>1. TypeOK
  BY DEF IInv
<1>2. [r \in Servers |-> {g \in attached[r] : name[g] \in Projects}]' =
        [[r \in Servers |-> {g \in attached[r] : name[g] \in Projects}]
           EXCEPT ![s] = @ \ gs]
  <2>1. \A r \in Servers :
          attached'[r] = IF r = s THEN attached[s] \ gs ELSE attached[r]
    BY <1>1 DEF TypeOK
  <2>2. \A r \in Servers :
          {g \in attached'[r] : name'[g] \in Projects} =
            IF r = s THEN {g \in attached[s] : name[g] \in Projects} \ gs
                     ELSE {g \in attached[r] : name[g] \in Projects}
    BY <2>1
  <2> QED
    BY <2>2
<1>3. UNCHANGED <<[u \in Threads |-> Asked(u)], [u \in Threads |-> Given(u)],
                  [n \in Projects |-> Made(n)]>>
  <2>1. UNCHANGED [n \in Projects |-> Named(n)]
    BY SameGroups
  <2>2. UNCHANGED [n \in Projects |-> Made(n)]
    BY <2>1, MadeStays
  <2>3. UNCHANGED <<[u \in Threads |-> Asked(u)],
                    [u \in Threads |-> Given(u)]>>
    BY AbstractMoves
  <2> QED
    BY <2>2, <2>3
<1>4. Promise!Part(s, gs)
  BY <1>2, <1>3, SameGroups DEF Promise!Part
<1> QED
  BY <1>4 DEF Promise!GroupsNext

(* The steps that ProjectGroups does not see, and those that begin to ask. *)
LEMMA EarlyStep ==
  ASSUME IInv, Kept, Handed, NEW t \in Threads,
         \/ Request(t)
         \/ EnvGet(t) \/ EnvCreate(t) \/ EnvRule(t)
         \/ AcquireAccess(t) \/ LookForLock(t) \/ InsertLock(t)
         \/ AcquireLock(t) \/ ProjectGet(t) \/ AddGet(t)
  PROVE  Promise!GroupsNext \/ UNCHANGED Promise!groupVars
<1> USE DEF TypeOK
<1>1. TypeOK /\ Arguments /\ Making
  BY DEF IInv
<1>2. Request(t) \/ Step(t)
  BY DEF Step
<1>3. UNCHANGED attached
  BY DEF Request, BeginStart, BeginAddProject, BeginAddEnvironment, BeginLoop,
     EnvGet, EnvCreate, EnvRule, AcquireAccess, LookForLock, InsertLock,
     AcquireLock, ProjectGet, AddGet, openstack
<1>4. UNCHANGED [n \in Projects |-> Named(n)]
  <2>1. CASE EnvCreate(t)
    <3>1. env[t] \notin Projects
      BY <1>1, <2>1, GroupsAssumption DEF EnvCreate, Arguments
    <3>2. \A g \in Groups : name'[g] = name[g] \/
            (name[g] \notin Projects /\ name'[g] \notin Projects)
      BY <1>1, <2>1, <3>1, GroupsAssumption
         DEF EnvCreate, CreateGroup, Unused
    <3> QED
      BY <3>2, SameGroups
  <2>2. CASE ~EnvCreate(t)
    <3>1. name' = name
      BY <2>2 DEF Request, BeginStart, BeginAddProject, BeginAddEnvironment,
         BeginLoop, EnvGet, EnvRule, AcquireAccess, LookForLock, InsertLock,
         AcquireLock, ProjectGet, AddGet, openstack
    <3> QED
      BY <3>1, SameGroups
  <2> QED
    BY <2>1, <2>2
<1>5. ASSUME Asked(t)' = Asked(t), Given(t)' = Given(t),
             pc[t] # "rule", pc'[t] # "rule"
      PROVE  UNCHANGED Promise!groupVars
  BY <1>2, <1>3, <1>4, <1>5, SameJoined, Unseen
<1>6. ASSUME pc[t] \in {"idle", "env_get", "env_create", "env_rule", "add_get"},
             \/ pc'[t] \in {"idle", "env_get", "env_create", "env_rule",
                            "add_get"} \cup LoopSteps
             \/ pc'[t] = "add_list" /\ prj'[t] = NoName
      PROVE  UNCHANGED Promise!groupVars
  <2>1. Asked(t)' = Asked(t) /\ Given(t)' = Given(t)
    BY <1>6 DEF Asked, Given, ProjectSteps, LoopSteps
  <2> QED
    BY <1>5, <1>6, <2>1 DEF LoopSteps
<1>7. ASSUME pc[t] \in {"idle", "env_get", "env_rule"}, pc'[t] = "access",
             prj'[t] \in Projects
      PROVE  Promise!GroupsNext
  BY <1>2, <1>3, <1>4, <1>7, AskStep
<1>8. CASE Request(t)
  <2>1. ASSUME NEW e \in Environments \cup {NoName}, NEW n \in Projects,
               BeginStart(t, e, n)
        PROVE  Promise!GroupsNext \/ UNCHANGED Promise!groupVars
    BY <1>1, <1>6, <1>7, <2>1 DEF BeginStart, Accept, Goto
  <2>2. ASSUME NEW s \in Servers, NEW n \in Projects, BeginAddProject(t, s, n)
        PROVE  Promise!GroupsNext \/ UNCHANGED Promise!groupVars
    BY <1>1, <1>7, <2>2 DEF BeginAddProject, Accept, Goto
  <2>3. ASSUME NEW s \in Servers, NEW e \in Environments,
               BeginAddEnvironment(t, s, e)
        PROVE  Promise!GroupsNext \/ UNCHANGED Promise!groupVars
    BY <1>1, <1>6, <2>3 DEF BeginAddEnvironment, Accept, Goto
  <2>4. ASSUME NEW s \in Servers, NEW o \in {"delete", "remove"},
               BeginLoop(t, s, o)
        PROVE  Promise!GroupsNext \/ UNCHANGED Promise!groupVars
    BY <1>1, <1>6, <2>4 DEF BeginLoop, Goto, LoopSteps
  <2> QED
    BY <1>8, <2>1, <2>2, <2>3, <2>4 DEF Request
<1>9. CASE EnvGet(t) \/ EnvCreate(t) \/ EnvRule(t)
  <2>1. CASE Return(t)
    BY <1>1, <1>6, <1>9, <2>1 DEF EnvGet, EnvCreate, EnvRule, Return, Goto
  <2>2. CASE ~Return(t)
    <3>1. prj'[t] = prj[t] /\ prj[t] \in Projects
      BY <1>1, <1>9, <2>2
         DEF EnvGet, EnvCreate, EnvRule, args, Arguments
    <3> QED
      BY <1>1, <1>6, <1>7, <1>9, <2>2, <3>1 DEF EnvGet, EnvCreate, EnvRule, Goto
  <2> QED
    BY <2>1, <2>2
<1>10. CASE AcquireAccess(t) \/ LookForLock(t) \/ InsertLock(t) \/
            AcquireLock(t) \/ ProjectGet(t)
  <2>1. /\ prj' = prj
        /\ pc[t] \in ProjectSteps \ {"rule"} /\ pc'[t] \in ProjectSteps \ {"rule"}
    BY <1>1, <1>10 DEF AcquireAccess, LookForLock, InsertLock, AcquireLock,
       ProjectGet, Goto, args, ProjectSteps
  <2>2. Asked(t)' = Asked(t) /\ Given(t)' = Given(t)
    BY <2>1 DEF Asked, Given, ProjectSteps
  <2> QED
    BY <1>5, <2>1, <2>2
<1>11. CASE AddGet(t)
  <2>1. CASE Return(t)
    BY <1>1, <1>6, <1>11, <2>1 DEF AddGet, Return, Goto
  <2>2. CASE ~Return(t)
    <3>1. HandedTo(t) /\ pc[t] = "add_get" /\ prj' = prj
      BY <1>11, <2>2 DEF AddGet, args, Handed
    <3>2. prj'[t] = NoName
      BY <3>1 DEF HandedTo
    <3> QED
      BY <1>1, <1>6, <1>11, <2>2, <3>2 DEF AddGet, Goto
  <2> QED
    BY <2>1, <2>2
<1> QED
  BY <1>8, <1>9, <1>10, <1>11

(* The steps after the group of the project is there, and the others.      *)
LEMMA LateStep ==
  ASSUME IInv, Kept, Handed, Vacant, NEW t \in Threads,
         \/ Release(t) \/ CreateServer(t) \/ AddList(t) \/ AddToServer(t)
         \/ DeleteServer(t) \/ VisitGroup(t)
  PROVE  Promise!GroupsNext \/ UNCHANGED Promise!groupVars
<1> USE DEF TypeOK
<1>1. TypeOK /\ Arguments /\ Gathered /\ Adding /\ HandedTo(t)
  BY DEF IInv, Handed
<1>2. Request(t) \/ Step(t)
  BY DEF Step
<1>3. CASE Release(t)
  <2>1. CASE grp[t] # NoGroup
    BY <1>3, <2>1, GiveStep
  <2>2. CASE grp[t] = NoGroup
    <3>1. /\ pc[t] = "release" /\ pc'[t] = "idle"
          /\ UNCHANGED <<name, attached>>
      BY <1>1, <1>3, <2>2 DEF Release, Return, Goto, openstack
    <3> QED
      BY <1>2, <3>1, FailStep, SameGroups
  <2> QED
    BY <2>1, <2>2
<1>4. CASE CreateServer(t)
  <2>1. pc[t] = "create" /\ pc'[t] = "idle" /\ name' = name
    BY <1>1, <1>4 DEF CreateServer, Return, Goto
  <2>2. ASSUME NEW s \in Servers \ started,
               attached' = [attached EXCEPT ![s] = found[t]]
        PROVE  Promise!GroupsNext \/ UNCHANGED Promise!groupVars
    <3>1. attached[s] = {} /\ attached'[s] = found[t]
      BY <1>1, <2>2 DEF Vacant
    <3>2. prj[t] # NoName /\ grp[t] \in found[t] /\ name[grp[t]] = prj[t]
          /\ prj[t] \in Projects /\ grp[t] # NoGroup
          /\ \A g \in found[t] : name[g] \in Projects => g = grp[t]
      BY <1>1, <2>1, GroupsAssumption DEF HandedTo
    <3>3. {g \in attached'[s] : name[g] \in Projects} =
            {g \in attached[s] : name[g] \in Projects} \cup
            (IF prj[t] = NoName THEN {} ELSE {grp[t]})
      BY <3>1, <3>2
    <3> QED
      BY <1>2, <2>1, <2>2, <3>1, <3>2, <3>3, JoinStep
  <2>3. CASE UNCHANGED attached
    BY <1>2, <2>1, <2>3, DropStep, SameGroups
  <2> QED
    BY <1>4, <2>2, <2>3 DEF CreateServer
<1>5. CASE AddList(t)
  <2>1. pc[t] = "add_list" /\ UNCHANGED <<name, attached>>
    BY <1>5 DEF AddList, openstack
  <2>2. CASE Return(t)
    BY <1>1, <1>2, <2>1, <2>2, DropStep, SameGroups DEF Return, Goto
  <2>3. CASE ~Return(t)
    <3>1. pc'[t] = "add" /\ prj' = prj /\ grp' = grp
      BY <1>1, <1>5, <2>3 DEF AddList, Goto, args
    <3>2. Asked(t)' = Asked(t) /\ Given(t)' = Given(t)
      BY <2>1, <3>1 DEF Asked, Given, ProjectSteps
    <3> QED
      BY <1>2, <2>1, <3>1, <3>2, SameGroups, SameJoined, Unseen
  <2> QED
    BY <2>2, <2>3
<1>6. CASE AddToServer(t)
  <2>1. pc[t] = "add" /\ pc'[t] = "idle" /\ name' = name
    BY <1>1, <1>6 DEF AddToServer, Return, Goto
  <2>2. ASSUME attached' = [attached EXCEPT ![srv[t]] = @ \cup {grp[t]}]
        PROVE  Promise!GroupsNext \/ UNCHANGED Promise!groupVars
    <3>1. PICK s \in Servers : s = srv[t]
      BY <1>1, <2>1 DEF Arguments, AddSteps
    <3>2. /\ attached'[s] = attached[s] \cup {grp[t]}
          /\ attached' = [attached EXCEPT ![s] = attached'[s]]
      BY <1>1, <2>2, <3>1
    <3>3. /\ grp[t] # NoGroup
          /\ name[grp[t]] \in (IF prj[t] = NoName THEN Environments ELSE {prj[t]})
          /\ prj[t] # NoName => prj[t] \in Projects
      BY <1>1, <2>1 DEF Adding, HandedTo
    <3>4. {g \in attached'[s] : name[g] \in Projects} =
            {g \in attached[s] : name[g] \in Projects} \cup
            (IF prj[t] = NoName THEN {} ELSE {grp[t]})
      BY <3>2, <3>3, GroupsAssumption
    <3> QED
      BY <1>2, <2>1, <3>2, <3>3, <3>4, JoinStep
  <2>3. CASE UNCHANGED attached
    BY <1>2, <2>1, <2>3, DropStep, SameGroups
  <2> QED
    BY <1>6, <2>2, <2>3 DEF AddToServer
<1>7. CASE DeleteServer(t) \/ VisitGroup(t)
  <2>1. /\ pc[t] \in LoopSteps /\ pc'[t] \in {"idle"} \cup LoopSteps
        /\ name' = name
    BY <1>1, <1>7 DEF DeleteServer, VisitGroup, Return, Goto, LoopSteps, args,
       IsSecurityGroupInUse
  <2>2. Asked(t)' = Asked(t) /\ Given(t)' = Given(t)
    BY <2>1 DEF Asked, Given, LoopSteps, ProjectSteps
  <2>3. pc'[t] # "rule" /\ pc[t] # "rule"
    BY <2>1 DEF LoopSteps
  <2>4. PICK s \in Servers : s = srv[t]
    BY <1>1, <2>1 DEF Arguments
  <2>5. ASSUME NEW gs \in SUBSET Groups,
               attached' = [attached EXCEPT ![s] = @ \ gs]
        PROVE  Promise!GroupsNext
    BY <1>2, <2>1, <2>2, <2>3, <2>5, PartStep
  <2>6. CASE UNCHANGED attached
    BY <1>2, <2>1, <2>2, <2>3, <2>6, SameGroups, SameJoined, Unseen
  <2>7. CASE attached' = [attached EXCEPT ![srv[t]] = {}]
    <3>1. attached' = [attached EXCEPT ![s] = @ \ Groups]
      BY <1>1, <2>4, <2>7
    <3> QED
      BY <2>5, <3>1
  <2>8. ASSUME NEW g \in Groups,
               attached' = [attached EXCEPT ![srv[t]] = @ \ {g}]
        PROVE  Promise!GroupsNext
    <3>1. {g} \in SUBSET Groups
      OBVIOUS
    <3> QED
      BY <2>4, <2>5, <2>8, <3>1
  <2>9. CASE DeleteServer(t)
    BY <2>6, <2>7, <2>9 DEF DeleteServer
  <2>10. CASE VisitGroup(t)
    <3>1. \/ UNCHANGED attached
          \/ \E g \in Groups :
               attached' = [attached EXCEPT ![srv[t]] = @ \ {g}]
          \/ \E g \in Groups : attached' = [attached EXCEPT ![srv[t]] = @]
      BY <2>10 DEF VisitGroup
    <3>2. \A g \in Groups : attached' = [attached EXCEPT ![srv[t]] = @] =>
            UNCHANGED attached
      BY <1>1, <2>4
    <3> QED
      BY <2>6, <2>8, <3>1, <3>2
  <2> QED
    BY <1>7, <2>9, <2>10
<1> QED
  BY <1>3, <1>4, <1>5, <1>6, <1>7

(* Whoever needs the group of a project is given the only one there is,    *)
(* once nobody works on it any more, whatever raises and however often the *)
(* client crashes.                                                         *)
THEOREM RefinesProjectGroups == Spec => ImplementsProjectGroups
<1>1. Init => Promise!GroupsInit
  <2> SUFFICES ASSUME Init PROVE Promise!GroupsInit
    OBVIOUS
  <2>1. \A n \in Projects : Named(n) = {} /\ Made(n) = "none"
    BY GroupsAssumption DEF Init, Named, Made, NoneNamed
  <2>2. \A t \in Threads :
          Asked(t) = NoName /\ Given(t) = NoGroup /\ pc[t] # "rule"
    BY DEF Init, Asked, Given, ProjectSteps
  <2>3. \A s \in Servers : {g \in attached[s] : name[g] \in Projects} = {}
    BY DEF Init
  <2> QED
    BY <2>1, <2>2, <2>3 DEF Promise!GroupsInit
<1>2. IInv /\ Handed /\ Vacant /\ [Next]_vars => [Promise!GroupsNext]_Promise!groupVars
  <2> SUFFICES ASSUME IInv, Handed, Vacant, [Next]_vars
               PROVE  Promise!GroupsNext \/ UNCHANGED Promise!groupVars
    OBVIOUS
  <2>1. Kept
    BY GroupsKept DEF IInv
  <2>2. CASE UNCHANGED vars
    <3>1. UNCHANGED <<name, ruled, attached, pc, prj, grp>>
      BY <2>2 DEF vars, openstack, locals, args
    <3>2. \A t \in Threads : Asked(t)' = Asked(t) /\ Given(t)' = Given(t)
      BY <3>1 DEF Asked, Given
    <3>3. \A n \in Projects : Made(n)' = Made(n)
      BY <3>1 DEF Made, NoneNamed, Named
    <3> QED
      BY <2>1, <3>1, <3>2, <3>3, SameGroups, SameJoined DEF Promise!groupVars
  <2>3. ASSUME NEW t \in Threads, Request(t) \/ Step(t)
        PROVE  Promise!GroupsNext \/ UNCHANGED Promise!groupVars
    BY <2>1, <2>3, EarlyStep, CreateStep, FinishStep, LateStep DEF Step
  <2>4. CASE Restart
    BY <2>1, <2>4, CrashStep
  <2> QED
    BY <2>2, <2>3, <2>4 DEF Next
<1> QED
  BY <1>1, <1>2, Invariance, Handing, PTL
     DEF Spec, ImplementsProjectGroups, Promise!GroupsSpec

-----------------------------------------------------------------------------
(* Whoever holds a lock is at a step inside it: a thread that waits for    *)
(* one, at AcquireAccess or AcquireLock, or is done with both, holds none. *)
HoldersAreInside ==
  /\ lockAccess # Nobody => pc[lockAccess] \in {"look", "insert"}
  /\ \A n \in Projects, k \in Threads : holder[n][k] # Nobody =>
       /\ pc[holder[n][k]] \in Inside
       /\ prj[holder[n][k]] = n /\ lock[holder[n][k]] = k

LEMMA AccessHolderStep ==
  ASSUME TypeOK, lockAccess # Nobody => pc[lockAccess] \in {"look", "insert"},
         NEW t \in Threads, Request(t) \/ Step(t)
  PROVE  lockAccess' # Nobody => pc'[lockAccess'] \in {"look", "insert"}
<1> USE GroupsAssumption DEF TypeOK, Goto, locks, args, openstack
<1>1. CASE AcquireAccess(t) \/ LookForLock(t) \/ InsertLock(t)
  BY <1>1, OneMoves DEF AcquireAccess, LookForLock, InsertLock
<1>2. CASE ~(AcquireAccess(t) \/ LookForLock(t) \/ InsertLock(t))
  <2>1. lockAccess' = lockAccess /\ pc[t] \notin {"look", "insert"}
    BY <1>2 DEF Request, BeginStart, BeginAddProject, BeginAddEnvironment,
       BeginLoop, Accept, Step, EnvGet, EnvCreate, EnvRule, AcquireLock,
       ProjectGet, ProjectNew, ProjectRule, Release, CreateServer, AddGet,
       AddList, AddToServer, DeleteServer, VisitGroup
  <2> QED
    BY <2>1, OneMoves
<1> QED
  BY <1>1, <1>2

LEMMA LockHolderStep ==
  ASSUME TypeOK, Locking, Arguments, HoldersAreInside,
         NEW t \in Threads, Request(t) \/ Step(t),
         NEW n \in Projects, NEW k \in Threads, holder'[n][k] # Nobody
  PROVE  /\ pc'[holder'[n][k]] \in Inside
         /\ prj'[holder'[n][k]] = n /\ lock'[holder'[n][k]] = k
<1> USE GroupsAssumption DEF TypeOK, Goto, args
<1>1. ASSUME NEW u \in Threads, u # t, holder[n][k] = u, holder'[n][k] = u
      PROVE  /\ pc'[holder'[n][k]] \in Inside
             /\ prj'[holder'[n][k]] = n /\ lock'[holder'[n][k]] = k
  BY <1>1, OneMoves DEF HoldersAreInside
<1>2. CASE AcquireLock(t)
  <2>1. prj[t] \in Projects /\ lock[t] \in Threads
    BY <1>2 DEF AcquireLock, Locking, Arguments, ProjectSteps
  <2>2. CASE n = prj[t] /\ k = lock[t]
    BY <1>2, <2>1, <2>2 DEF AcquireLock, Inside
  <2>3. CASE ~(n = prj[t] /\ k = lock[t])
    <3>1. holder'[n][k] = holder[n][k] /\ holder[n][k] # t
      BY <1>2, <2>1, <2>3 DEF AcquireLock, HoldersAreInside, Inside
    <3> QED
      BY <1>1, <3>1
  <2> QED
    BY <2>2, <2>3
<1>3. CASE Release(t)
  <2>1. prj[t] \in Projects /\ lock[t] \in Threads
    BY <1>3 DEF Release, Locking, Arguments, ProjectSteps, Inside
  <2>2. holder'[n][k] = holder[n][k] /\ ~(n = prj[t] /\ k = lock[t])
    BY <1>3, <2>1 DEF Release
  <2>3. holder[n][k] # t
    BY <2>2 DEF HoldersAreInside
  <2> QED
    BY <1>1, <2>2, <2>3
<1>4. CASE ProjectGet(t) \/ ProjectNew(t) \/ ProjectRule(t)
  <2>1. /\ holder' = holder /\ prj' = prj /\ lock' = lock
        /\ pc'[t] \in Inside
    BY <1>4 DEF ProjectGet, ProjectNew, ProjectRule, locks, Inside
  <2>2. CASE holder[n][k] = t
    BY <2>1, <2>2 DEF HoldersAreInside
  <2>3. CASE holder[n][k] # t
    BY <1>1, <2>1, <2>3
  <2> QED
    BY <2>2, <2>3
<1>5. CASE ~(AcquireLock(t) \/ Release(t) \/ ProjectGet(t) \/ ProjectNew(t)
             \/ ProjectRule(t))
  <2>1. holder' = holder /\ pc[t] \notin Inside
    BY <1>5 DEF Request, BeginStart, BeginAddProject, BeginAddEnvironment,
       BeginLoop, Accept, Step, EnvGet, EnvCreate, EnvRule, AcquireAccess,
       LookForLock, InsertLock, CreateServer, AddGet, AddList, AddToServer,
       DeleteServer, VisitGroup, Inside, locks
  <2>2. holder[n][k] # t
    BY <2>1 DEF HoldersAreInside
  <2> QED
    BY <1>1, <2>1, <2>2
<1> QED
  BY <1>2, <1>3, <1>4, <1>5

(* No thread holds a lock while it waits for one, whatever OpenStack       *)
(* refuses: the locks of get_or_create_project_security_group cannot       *)
(* close a circle.                                                         *)
THEOREM HoldersNeverWait == Spec => []HoldersAreInside
<1>1. Init => HoldersAreInside
  BY DEF Init, HoldersAreInside
<1>2. IInv /\ HoldersAreInside /\ [Next]_vars => HoldersAreInside'
  <2> SUFFICES ASSUME IInv, HoldersAreInside, [Next]_vars
               PROVE  HoldersAreInside'
    OBVIOUS
  <2>1. TypeOK /\ Locking /\ Arguments
    BY DEF IInv
  <2>2. CASE UNCHANGED vars
    BY <2>2 DEF vars, locks, locals, args, HoldersAreInside
  <2>3. ASSUME NEW t \in Threads, Request(t) \/ Step(t)
        PROVE  HoldersAreInside'
    <3>1. lockAccess' # Nobody => pc'[lockAccess'] \in {"look", "insert"}
      BY <2>1, <2>3, AccessHolderStep DEF HoldersAreInside
    <3>2. \A n \in Projects, k \in Threads : holder'[n][k] # Nobody =>
            /\ pc'[holder'[n][k]] \in Inside
            /\ prj'[holder'[n][k]] = n /\ lock'[holder'[n][k]] = k
      BY <2>1, <2>3, LockHolderStep
    <3> QED
      BY <3>1, <3>2 DEF HoldersAreInside
  <2>4. CASE Restart
    <3>1. /\ lockAccess' = Nobody
          /\ \A n \in Projects, k \in Threads : holder'[n][k] = Nobody
      BY <2>4 DEF Restart
    <3> QED
      BY <3>1 DEF HoldersAreInside
  <2> QED
    BY <2>2, <2>3, <2>4 DEF Next
<1> QED
  BY <1>1, <1>2, Invariance, PTL DEF Spec

-----------------------------------------------------------------------------
(* Why a request comes to its end, if it gets the locks it waits for: the  *)
(* steps it may still take.  InsertLock leads back to LookForLock, but its *)
(* entry stays; VisitGroup has a name less to visit each time.             *)
ToGo(s, absent) ==
  CASE s = "idle" -> 0
    [] s \in {"del_group", "rem_group", "create", "add"} -> 1
    [] s \in {"delete", "add_list"} -> 2
    [] s \in {"release", "add_get"} -> 3
    [] s = "rule" -> 4
    [] s = "new"  -> 5
    [] s = "get"  -> 6
    [] s = "acquire" -> 7
    [] s = "look" /\ ~absent -> 8
    [] s = "insert" -> 9
    [] s = "look" /\ absent -> 10
    [] s = "access" -> 11
    [] s = "env_rule" -> 12
    [] s = "env_create" -> 13
    [] s = "env_get" -> 14

StepsToGo(t) == ToGo(pc[t], lockDict[prj[t]] = Nobody)

RequestsGetCloser ==
  [][\A t \in Threads : pc[t] # "idle" =>
       IF Step(t)
       THEN \/ StepsToGo(t)' < StepsToGo(t)
            \/ /\ StepsToGo(t)' = StepsToGo(t)
               /\ todo'[t] \subseteq todo[t] /\ todo'[t] # todo[t]
       ELSE StepsToGo(t)' <= StepsToGo(t) /\ todo'[t] \subseteq todo[t]]_vars

(* What ToGo says of the steps.                                            *)
LEMMA ToGos ==
  ASSUME NEW b \in BOOLEAN
  PROVE  /\ ToGo("idle", b) = 0
         /\ \A s \in {"del_group", "rem_group", "create", "add"} : ToGo(s, b) = 1
         /\ \A s \in {"delete", "add_list"} : ToGo(s, b) = 2
         /\ \A s \in {"release", "add_get"} : ToGo(s, b) = 3
         /\ ToGo("rule", b) = 4 /\ ToGo("new", b) = 5 /\ ToGo("get", b) = 6
         /\ ToGo("acquire", b) = 7
         /\ ToGo("look", b) = IF b THEN 10 ELSE 8
         /\ ToGo("insert", b) = 9 /\ ToGo("access", b) = 11
         /\ ToGo("env_rule", b) = 12 /\ ToGo("env_create", b) = 13
         /\ ToGo("env_get", b) = 14
  BY DEF ToGo

(* An entry of lock_dict stays for ever.                                   *)
LEMMA EntriesStay ==
  ASSUME TypeOK, NEW u \in Threads, Request(u) \/ Step(u), NEW n \in Projects,
         lockDict[n] # Nobody
  PROVE  lockDict'[n] # Nobody
  BY GroupsAssumption
     DEF TypeOK, locks, Request, BeginStart, BeginAddProject,
     BeginAddEnvironment, BeginLoop, Step, EnvGet, EnvCreate, EnvRule,
     AcquireAccess, LookForLock, InsertLock, AcquireLock, ProjectGet,
     ProjectNew, ProjectRule, Release, CreateServer, AddGet, AddList,
     AddToServer, DeleteServer, VisitGroup

LEMMA StepCloser ==
  ASSUME TypeOK, Locking, Arguments, NEW t \in Threads, Step(t)
  PROVE  \/ StepsToGo(t)' < StepsToGo(t)
         \/ /\ StepsToGo(t)' = StepsToGo(t)
            /\ todo'[t] \subseteq todo[t] /\ todo'[t] # todo[t]
<1> DEFINE b == lockDict[prj[t]] = Nobody
<1> USE DEF TypeOK, Goto, args, locks
<1>1. /\ StepsToGo(t) = ToGo(pc[t], b)
      /\ StepsToGo(t)' = ToGo(pc'[t], b')
      /\ b \in BOOLEAN /\ b' \in BOOLEAN
  BY DEF StepsToGo
<1> HIDE DEF b
<1>2. ASSUME Return(t), pc[t] \in Steps \ {"idle"}
      PROVE  StepsToGo(t)' < StepsToGo(t)
  <2>1. pc'[t] = "idle"
    BY <1>2 DEF Return
  <2> QED
    BY <1>1, <1>2, <2>1, ToGos
       DEF Steps, StartSteps, ProjectSteps, AddSteps, LoopSteps
<1>3. pc[t] \in Steps \ {"idle"}
  BY DEF Step, EnvGet, EnvCreate, EnvRule, AcquireAccess, LookForLock,
     InsertLock, AcquireLock, ProjectGet, ProjectNew, ProjectRule, Release,
     CreateServer, AddGet, AddList, AddToServer, DeleteServer, VisitGroup
<1>4. CASE Return(t)
  BY <1>2, <1>3, <1>4
<1>5. CASE ~Return(t) /\ (EnvGet(t) \/ EnvCreate(t) \/ EnvRule(t))
  <2>1. \/ pc[t] = "env_get" /\ pc'[t] \in {"access", "env_create"}
        \/ pc[t] = "env_create" /\ pc'[t] = "env_rule"
        \/ pc[t] = "env_rule" /\ pc'[t] = "access"
    BY <1>5 DEF EnvGet, EnvCreate, EnvRule
  <2> QED
    BY <1>1, <2>1, ToGos
<1>6. CASE AcquireAccess(t)
  <2>1. pc[t] = "access" /\ pc'[t] = "look"
    BY <1>6 DEF AcquireAccess
  <2> QED
    BY <1>1, <2>1, ToGos
<1>7. CASE LookForLock(t)
  <2>1. /\ pc[t] = "look"
        /\ (pc'[t] = "insert" /\ b) \/ pc'[t] = "acquire"
    BY <1>7 DEF LookForLock, b
  <2> QED
    BY <1>1, <2>1, ToGos
<1>8. CASE InsertLock(t)
  <2>1. prj[t] \in Projects
    BY <1>8 DEF InsertLock, Arguments, ProjectSteps
  <2>2. pc[t] = "insert" /\ pc'[t] = "look" /\ ~b'
    BY <1>8, <2>1, GroupsAssumption DEF InsertLock, b
  <2> QED
    BY <1>1, <2>2, ToGos
<1>9. CASE AcquireLock(t) \/ ProjectGet(t) \/ ProjectNew(t) \/ ProjectRule(t)
  <2>1. \/ pc[t] = "acquire" /\ pc'[t] = "get"
        \/ pc[t] = "get" /\ pc'[t] \in {"new", "release"}
        \/ pc[t] = "new" /\ pc'[t] \in {"rule", "release"}
        \/ pc[t] = "rule" /\ pc'[t] = "release"
    BY <1>9 DEF AcquireLock, ProjectGet, ProjectNew, ProjectRule
  <2> QED
    BY <1>1, <2>1, ToGos
<1>10. CASE ~Return(t) /\ Release(t)
  <2>1. pc[t] = "release" /\ pc'[t] \in {"create", "add_list"}
    BY <1>10 DEF Release
  <2> QED
    BY <1>1, <2>1, ToGos
<1>11. CASE ~Return(t) /\ (AddGet(t) \/ AddList(t) \/ DeleteServer(t))
  <2>1. \/ pc[t] = "add_get" /\ pc'[t] = "add_list"
        \/ pc[t] = "add_list" /\ pc'[t] = "add"
        \/ pc[t] = "delete" /\ pc'[t] = "del_group"
    BY <1>11 DEF AddGet, AddList, DeleteServer
  <2> QED
    BY <1>1, <2>1, ToGos
<1>12. CASE ~Return(t) /\ VisitGroup(t)
  <2>1. /\ pc[t] \in {"del_group", "rem_group"} /\ pc'[t] = pc[t]
        /\ todo'[t] \subseteq todo[t] /\ todo'[t] # todo[t]
    BY <1>12 DEF VisitGroup
  <2> QED
    BY <1>1, <2>1, ToGos
<1> QED
  BY <1>4, <1>5, <1>6, <1>7, <1>8, <1>9, <1>10, <1>11, <1>12
     DEF Step, CreateServer, AddToServer

(* Each step of a request brings it closer to its end, and no step of      *)
(* another nor a crash takes it back, whatever OpenStack answers; since    *)
(* the thread that holds a lock waits for none (HoldersNeverWait), it      *)
(* frees it.                                                               *)
THEOREM RequestsEnd == Spec => RequestsGetCloser
<1>1. ASSUME IInv, Next, NEW t \in Threads, pc[t] # "idle"
      PROVE  IF Step(t)
             THEN \/ StepsToGo(t)' < StepsToGo(t)
                  \/ /\ StepsToGo(t)' = StepsToGo(t)
                     /\ todo'[t] \subseteq todo[t] /\ todo'[t] # todo[t]
             ELSE StepsToGo(t)' <= StepsToGo(t) /\ todo'[t] \subseteq todo[t]
  <2>1. TypeOK /\ Locking /\ Arguments
    BY <1>1 DEF IInv
  <2>2. CASE Step(t)
    BY <2>1, <2>2, StepCloser
  <2>4. CASE Restart
    <3>1. pc'[t] = "idle" /\ todo'[t] = {} /\ pc[t] \in Steps
      BY <2>1, <2>4 DEF Restart, TypeOK
    <3>2. /\ StepsToGo(t) = ToGo(pc[t], lockDict[prj[t]] = Nobody)
          /\ StepsToGo(t)' = ToGo("idle", (lockDict[prj[t]] = Nobody)')
      BY <3>1 DEF StepsToGo
    <3>3. StepsToGo(t)' = 0
      BY <3>2, ToGos
    <3>4. StepsToGo(t) \in Nat
      <4>1. \A b \in BOOLEAN : ToGo(pc[t], b) \in Nat
        <5> SUFFICES ASSUME NEW b \in BOOLEAN
                     PROVE  ToGo(pc[t], b) \in Nat
          OBVIOUS
        <5> QED
          BY <3>1, ToGos
             DEF Steps, StartSteps, ProjectSteps, AddSteps, LoopSteps
      <4> QED
        BY <3>2, <4>1
    <3> QED
      BY <2>2, <3>1, <3>3, <3>4
  <2>3. CASE ~Step(t) /\ ~Restart
    <3>1. PICK u \in Threads \ {t} : Request(u) \/ Step(u)
      BY <1>1, <2>3 DEF Next, Request, BeginStart, BeginAddProject,
         BeginAddEnvironment, BeginLoop, Accept
    <3>2. pc'[t] = pc[t] /\ prj'[t] = prj[t] /\ todo'[t] = todo[t]
      BY <2>1, <3>1, OneMoves
    <3>3. pc[t] = "look" /\ lockDict[prj[t]] # Nobody =>
            lockDict'[prj[t]] # Nobody
      BY <2>1, <3>1, EntriesStay DEF Arguments, ProjectSteps
    <3>4. /\ StepsToGo(t) = ToGo(pc[t], lockDict[prj[t]] = Nobody)
          /\ StepsToGo(t)' = ToGo(pc[t], lockDict'[prj[t]] = Nobody)
      BY <3>2 DEF StepsToGo
    <3>5. pc[t] \in Steps
      BY <2>1 DEF TypeOK
    <3>6. CASE pc[t] = "look"
      <4>1. /\ StepsToGo(t) = IF lockDict[prj[t]] = Nobody THEN 10 ELSE 8
            /\ StepsToGo(t)' = IF lockDict'[prj[t]] = Nobody THEN 10 ELSE 8
        BY <3>4, <3>6 DEF ToGo
      <4> QED
        BY <2>3, <3>2, <3>3, <3>6, <4>1
    <3>7. CASE pc[t] # "look"
      <4>1. \A a, b \in BOOLEAN :
              ToGo(pc[t], a) = ToGo(pc[t], b) /\ ToGo(pc[t], b) \in Nat
        <5> SUFFICES ASSUME NEW a \in BOOLEAN, NEW b \in BOOLEAN
                     PROVE  /\ ToGo(pc[t], a) = ToGo(pc[t], b)
                            /\ ToGo(pc[t], b) \in Nat
          OBVIOUS
        <5> QED
          BY <3>5, <3>7, ToGos
             DEF Steps, StartSteps, ProjectSteps, AddSteps, LoopSteps
      <4>2. StepsToGo(t)' = StepsToGo(t) /\ StepsToGo(t) \in Nat
        BY <3>4, <4>1
      <4> QED
        BY <2>3, <3>2, <4>2
    <3> QED
      BY <3>6, <3>7
  <2> QED
    BY <2>2, <2>3, <2>4
<1>2. IInv /\ [Next]_vars =>
        [\A t \in Threads : pc[t] # "idle" =>
           IF Step(t)
           THEN \/ StepsToGo(t)' < StepsToGo(t)
                \/ /\ StepsToGo(t)' = StepsToGo(t)
                   /\ todo'[t] \subseteq todo[t] /\ todo'[t] # todo[t]
           ELSE StepsToGo(t)' <= StepsToGo(t) /\ todo'[t] \subseteq todo[t]]_vars
  BY <1>1
<1> QED
  BY <1>2, Invariance, PTL DEF Spec, RequestsGetCloser
=============================================================================
