--------------------------- MODULE Shutdown_proofs ---------------------------
(***************************************************************************)
(* Proofs about Shutdown.  What Playbooks_proofs calls Consistent holds    *)
(* under signals too; the rest, which needs a hash for every registered    *)
(* playbook, does not.  Everything the loop has done for a VM stays done,  *)
(* and as long as the keys of active_playbooks do not change, those are    *)
(* the VMs the signal found.                                               *)
(***************************************************************************)
EXTENDS Shutdown, Playbooks_proofs, FiniteSetTheorems

-----------------------------------------------------------------------------
(* What the steps of Playbooks leave as it is                              *)

(* The VM of a started playbook never changes.                             *)
LEMMA OwnersKept ==
  ASSUME Consistent, [Next]_vars, NEW p \in Playbooks, proc[p] \in Started
  PROVE  owner'[p] = owner[p] /\ proc'[p] \in Started
<1> USE DEF Consistent, TypeOK, Started, Exited
<1>1. CASE UNCHANGED <<owner, proc>>
  BY <1>1
<1>2. ASSUME NEW t \in Threads, DeployConstruct(t)
      PROVE  owner'[p] = owner[p] /\ proc'[p] \in Started
  <2>1. proc[pb[t]] = "none" /\ pb[t] # p
    BY <1>2 DEF DeployConstruct, Locals, ReserveSteps
  <2> QED
    BY <1>2, <2>1 DEF DeployConstruct, objects
<1>3. ASSUME NEW t \in Threads, DeployRun(t)
      PROVE  owner'[p] = owner[p] /\ proc'[p] \in Started
  BY <1>3 DEF DeployRun
<1>4. ASSUME NEW q \in Playbooks, ProcessExit(q)
      PROVE  owner'[p] = owner[p] /\ proc'[p] \in Started
  BY <1>4 DEF ProcessExit
<1> QED
  BY <1>1, <1>2, <1>3, <1>4
  DEF Next, Request, Work, Step, StatusStep, LogStep, DeployStep, CallRaises,
      DeployCopyTemplate, vars, store, objects, StartServer, SetVmWaitForPlaybook,
      BeginStatus, StatusExists, StatusInActive, StatusGetPlaybook, CheckStatusPoll,
      CheckStatusHset, CheckStatusReturncode, StatusReply, BeginLogs, LogsExists,
      LogsInActive, LogsGetPlaybook, GetLogs, LogsHget, CleanupDirectory, CleanupDelete,
      LogsPop, BeginDeploy, DeployNetcat, DeployReadKey, DeployCheckLock, DeployCancel,
      DeployHsetBuild, DeployRegister, Restart

-----------------------------------------------------------------------------
(* The invariant                                                           *)

(* The keys the iterator has given, without the present one as long as the *)
(* loop has it at one of these steps.                                      *)
Past(steps) ==
  handler.seen \ (IF handler.pc \in steps THEN {handler.vm} ELSE {})

Visited == handler.pc \in Visiting =>
  /\ handler.vm \in VMs
  /\ handler.pb \in Playbooks
  /\ owner[handler.pb] = handler.vm
  /\ proc[handler.pb] \in Started

FoundKeys == ~changed =>
  /\ handler.pc \in {"next"} \cup Visiting => Keys = found
  /\ handler.pc \in {"exit", "exited"} => found \subseteq handler.seen

Terminated ==
  /\ \A q \in terminated : proc[q] \in Started
  /\ \A v \in deleted \cup Past({"name", "key", "stop"}) :
       \E q \in terminated : owner[q] = v

Deleted == Past(Visiting) \subseteq deleted

ShutdownInv ==
  /\ Consistent
  /\ ShutdownTypeOK
  /\ Visited
  /\ FoundKeys
  /\ Terminated
  /\ Deleted

-----------------------------------------------------------------------------
(* The steps of the handler                                                *)

HandlerTypes ==
  [pc : {"off", "next", "exit", "exited"} \cup Visiting,
   vm : VMs \cup {NoVM}, pb : Playbooks \cup {NoPlaybook},
   seen : SUBSET VMs, left : Nat, size : Nat]

LEMMA GoToFields ==
  ASSUME handler \in HandlerTypes,
         NEW s \in {"off", "next", "exit", "exited"} \cup Visiting, GoTo(s)
  PROVE  /\ handler' \in HandlerTypes
         /\ handler'.pc = s
         /\ handler'.vm = handler.vm
         /\ handler'.pb = handler.pb
         /\ handler'.seen = handler.seen
  BY DEF HandlerTypes, GoTo

LEMMA OffFields ==
  /\ Off \in HandlerTypes
  /\ Off.pc = "off"
  /\ Off.seen = {}
  BY DEF Off, HandlerTypes

LEMMA KeysCount == Cardinality(Keys) \in Nat
  BY SignalsAssumption, FS_Subset, FS_CardinalityType DEF Keys

(* What a signal makes of the handler.                                     *)
LEMMA SignalFields ==
  ASSUME Signal
  PROVE  /\ handler' \in HandlerTypes
         /\ handler'.pc = "next"
         /\ handler'.seen = {}
  BY KeysCount DEF Signal, Off, HandlerTypes

(* The handler either leaves, or takes the next key, or makes a step with  *)
(* the key it has.                                                         *)
Takes(v) ==
  /\ handler.pc = "next"
  /\ v \in Keys
  /\ handler' \in HandlerTypes
  /\ handler'.pc = "name"
  /\ handler'.vm = v
  /\ handler'.pb = active[v]
  /\ handler'.seen = handler.seen \cup {v}
  /\ UNCHANGED <<vars, found, changed, traces, signals>>

LEMMA LoopNextCases ==
  ASSUME handler \in HandlerTypes, LoopNext,
         active \in [VMs -> Playbooks \cup {NoPlaybook}]
  PROVE  /\ UNCHANGED <<vars, found, changed, traces, signals>>
         /\ \/ Abort
            \/ \E v \in VMs : Takes(v)
            \/ /\ handler.pc = "next" /\ GoTo("exit")
               /\ Keys \subseteq handler.seen \/ changed
<1>1. ASSUME NEW v \in VMs, Gives(v), handler.pc = "next",
             handler.left > 0,
             handler' = [handler EXCEPT !.pc = "name", !.vm = v, !.pb = active[v],
                                        !.seen = @ \cup {v}, !.left = @ - 1],
             UNCHANGED <<vars, found, changed, traces, signals>>
      PROVE  Takes(v)
  <2>1. v \in Keys /\ active[v] \in Playbooks
    BY <1>1 DEF Keys, Gives
  <2>2. handler.left - 1 \in Nat /\ handler.seen \cup {v} \in SUBSET VMs
    BY <1>1, <2>1 DEF HandlerTypes
  <2>3. handler' \in HandlerTypes
    BY <1>1, <2>1, <2>2 DEF HandlerTypes, Visiting
  <2> QED
    BY <1>1, <2>1, <2>3 DEF Takes, HandlerTypes
<1> QED
  BY <1>1 DEF LoopNext

(* No step of the handler touches what Consistent speaks of, but for the   *)
(* hash it deletes.                                                        *)
LEMMA ConsistentKept ==
  ASSUME Consistent, UNCHANGED <<servers, active, unanswered, owner, proc, returncode, locals, restarts>>,
         dir' \in [Playbooks -> {"none", "live", "left", "removed"}],
         redis' \in [VMs -> Hashes],
         \A v \in VMs : redis'[v] \in {redis[v], Absent}
  PROVE  Consistent'
<1> USE DEF locals
<1>1. TypeOK'
  BY DEF Consistent, TypeOK
<1>2. \A t \in Threads : Locals(t)' /\ Exclusive(t)'
  BY DEF Consistent, Locals, Exclusive
<1>3. \A v \in VMs : Registered(v)'
  BY DEF Consistent, Registered
<1>4. \A v \in VMs : Successful(v)'
  BY DEF Consistent, Successful, Absent
<1>5. \A p \in Playbooks : Object(p)'
  BY DEF Consistent, Object
<1> QED
  BY <1>1, <1>2, <1>3, <1>4, <1>5 DEF Consistent

LEMMA DeleteType ==
  ASSUME redis \in [VMs -> Hashes], NEW v \in VMs, redis' = [redis EXCEPT ![v] = Absent]
  PROVE  /\ redis' \in [VMs -> Hashes]
         /\ \A u \in VMs : redis'[u] \in {redis[u], Absent}
  BY DEF Hashes, Absent

(* A step of the shutdown is one of Playbooks, or leaves its objects and   *)
(* threads as they are and at most deletes a hash.                         *)
Apart ==
  /\ UNCHANGED <<servers, active, unanswered, owner, proc, returncode, locals, restarts>>
  /\ dir' \in [Playbooks -> {"none", "live", "left", "removed"}]
  /\ redis' \in [VMs -> Hashes]
  /\ \A v \in VMs : redis'[v] \in {redis[v], Absent}

LEMMA HandlerApart ==
  ASSUME ShutdownInv, Signal \/ Handle
  PROVE  Apart
<1> USE DEF store, objects, vars
<1>1. redis \in [VMs -> Hashes] /\ dir \in [Playbooks -> {"none", "live", "left", "removed"}]
  BY DEF ShutdownInv, Consistent, TypeOK
<1>2. CASE UNCHANGED vars
  BY <1>1, <1>2 DEF Apart
<1>3. CASE StopCleanup
  BY <1>1, <1>3 DEF StopCleanup, Apart
<1>4. CASE StopDelete
  <2>1. handler.vm \in VMs
    BY <1>4 DEF ShutdownInv, Visited, StopDelete, Visiting
  <2> QED
    BY <1>1, <1>4, <2>1, DeleteType DEF StopDelete, Apart
<1>5. CASE Exit
  BY <1>1, <1>5 DEF Exit, Apart
<1> QED
  BY <1>2, <1>3, <1>4, <1>5
  DEF Handle, Signal, LoopNext, LoopName, LoopDeleteKeypair, StopTerminate, LoopDeleteServer

LEMMA OthersNext ==
  ASSUME Serve \/ ProcessEnds \/ StartAgain \/ UNCHANGED allVars
  PROVE  [Next]_vars
  BY DEF Serve, ProcessEnds, StartAgain, Next, allVars

LEMMA ConsistentKeptAlways == ShutdownInv /\ [ShutdownNext]_allVars => Consistent'
  BY HandlerApart, OthersNext, ConsistentStep, ConsistentKept
  DEF ShutdownNext, Apart, ShutdownInv

(* What a step of the shutdown leaves of a started run.                    *)
LEMMA Remains ==
  ASSUME ShutdownInv, [ShutdownNext]_allVars
  PROVE  \A p \in Playbooks : proc[p] \in Started =>
           owner'[p] = owner[p] /\ proc'[p] \in Started
<1>1. CASE Apart
  BY <1>1 DEF Apart
<1>2. CASE [Next]_vars
  BY <1>2, OwnersKept DEF ShutdownInv
<1> QED
  BY <1>1, <1>2, HandlerApart, OthersNext DEF ShutdownNext

-----------------------------------------------------------------------------
(* The conjuncts of the invariant                                          *)

LEMMA TypesStep == ShutdownInv /\ [ShutdownNext]_allVars => ShutdownTypeOK'
<1> SUFFICES ASSUME ShutdownInv, [ShutdownNext]_allVars PROVE ShutdownTypeOK'
  OBVIOUS
<1> USE DEF ShutdownTypeOK, traces
<1>1. ShutdownTypeOK /\ handler \in HandlerTypes /\ active \in [VMs -> Playbooks \cup {NoPlaybook}]
  BY DEF ShutdownInv, HandlerTypes, Consistent, TypeOK
<1>2. Keys \subseteq VMs
  BY DEF Keys
<1>3. Off \in HandlerTypes /\ Off.pc \notin Visiting
  BY OffFields DEF Visiting
<1>4. ASSUME Abort, UNCHANGED <<found, changed, signals>>, terminated' \subseteq Playbooks, deleted' \subseteq VMs
      PROVE  ShutdownTypeOK'
  BY <1>1, <1>3, <1>4 DEF Abort, HandlerTypes
<1>5. ASSUME NEW s \in {"off", "next", "exit", "exited"} \cup Visiting, GoTo(s),
             s \in Visiting => handler.pc \in Visiting,
             UNCHANGED <<found, changed, signals>>, terminated' \subseteq Playbooks, deleted' \subseteq VMs
      PROVE  ShutdownTypeOK'
  BY <1>1, <1>5, GoToFields DEF HandlerTypes
<1>6. CASE Signal
  <2>1. handler' \in HandlerTypes /\ handler'.pc \notin Visiting
    BY <1>6, SignalFields DEF Visiting
  <2>2. signals' \in 0 .. MaxSignals
    BY <1>1, <1>6, SignalsAssumption DEF Signal
  <2> QED
    BY <1>1, <1>2, <1>6, <2>1, <2>2 DEF Signal, HandlerTypes
<1>7. CASE LoopNext
  <2>1. ASSUME NEW v \in VMs, Takes(v) PROVE ShutdownTypeOK'
    <3>1. active[v] \in Playbooks
      BY <1>1, <2>1 DEF Takes, Keys
    <3> QED
      BY <1>1, <2>1, <3>1 DEF Takes, HandlerTypes
  <2> QED
    BY <1>1, <1>4, <1>5, <1>7, <2>1, LoopNextCases DEF Visiting
<1>8. CASE LoopName
  BY <1>1, <1>4, <1>5, <1>8 DEF LoopName, Visiting
<1>9. CASE LoopDeleteKeypair
  BY <1>1, <1>4, <1>5, <1>9 DEF LoopDeleteKeypair, Visiting
<1>10. CASE StopTerminate
  <2>1. handler.pb \in Playbooks
    BY <1>10 DEF ShutdownInv, Visited, StopTerminate, Visiting
  <2> QED
    BY <1>1, <1>4, <1>5, <1>10, <2>1 DEF StopTerminate, Visiting
<1>11. CASE StopCleanup
  BY <1>1, <1>4, <1>5, <1>11 DEF StopCleanup, Visiting
<1>12. CASE StopDelete
  BY <1>1, <1>4, <1>5, <1>12 DEF StopDelete, Visiting
<1>13. CASE LoopDeleteServer
  <2>1. handler.vm \in VMs
    BY <1>13 DEF ShutdownInv, Visited, LoopDeleteServer, Visiting
  <2> QED
    BY <1>1, <1>4, <1>5, <1>13, <2>1 DEF LoopDeleteServer, Visiting
<1>14. CASE Exit
  BY <1>1, <1>5, <1>14 DEF Exit, Visiting
<1>15. CASE Serve
  BY <1>1, <1>15 DEF Serve
<1>16. CASE ProcessEnds \/ UNCHANGED allVars
  BY <1>1, <1>16 DEF ProcessEnds, allVars, shutdownVars
<1>17. CASE StartAgain
  BY <1>1, <1>3, <1>17 DEF StartAgain, HandlerTypes
<1> QED
  BY <1>6, <1>7, <1>8, <1>9, <1>10, <1>11, <1>12, <1>13, <1>14, <1>15, <1>16, <1>17
  DEF ShutdownNext, Handle

(* What each step does to the place the loop is at.                        *)
Stays == UNCHANGED <<handler, found, terminated, deleted>>
Moves(s) ==
  /\ handler' \in HandlerTypes
  /\ handler'.pc = s
  /\ handler'.vm = handler.vm
  /\ handler'.pb = handler.pb
  /\ handler'.seen = handler.seen
  /\ UNCHANGED <<active, owner, found, changed>>
Leaves ==
  /\ handler'.pc \notin {"exit", "exited"} \cup Visiting
  /\ handler'.seen = {}
  /\ handler'.pc = "next" => found' = Keys'

Stops   == handler.pc = "stop" /\ terminated' = terminated \cup {handler.pb}
Deletes == handler.pc = "server" /\ deleted' = deleted \cup {handler.vm}

Progress ==
  \/ Leaves /\ UNCHANGED <<terminated, deleted>>
  \/ Leaves /\ Stops /\ UNCHANGED deleted
  \/ Leaves /\ Deletes /\ UNCHANGED terminated
  \/ \E v \in VMs : Takes(v)
  \/ /\ UNCHANGED <<terminated, deleted>>
     /\ \/ handler.pc = "next" /\ Moves("exit") /\ (Keys \subseteq handler.seen \/ changed)
        \/ handler.pc = "name" /\ Moves("key")
        \/ handler.pc = "key" /\ Moves("stop")
        \/ handler.pc = "clean" /\ Moves("delete")
        \/ handler.pc = "delete" /\ Moves("server")
        \/ handler.pc = "exit" /\ Moves("exited")
  \/ Stops /\ Moves("clean") /\ UNCHANGED deleted
  \/ Deletes /\ Moves("next") /\ UNCHANGED terminated

LEMMA ProgressOf ==
  ASSUME ShutdownInv, [ShutdownNext]_allVars
  PROVE  \/ Progress
         \/ Stays /\ (changed' \/ Keys' = Keys \/ handler.pc \in {"exit", "exited"})
                  /\ (changed => changed')
<1> USE DEF traces, vars, store, objects, locals
<1>1. handler \in HandlerTypes /\ active \in [VMs -> Playbooks \cup {NoPlaybook}]
  BY DEF ShutdownInv, ShutdownTypeOK, HandlerTypes, Consistent, TypeOK
<1>2. ASSUME NEW s \in {"off", "next", "exit", "exited"} \cup Visiting, GoTo(s),
             UNCHANGED <<active, owner, found, changed>>
      PROVE  Moves(s)
  BY <1>1, <1>2, GoToFields DEF Moves
<1>3. ASSUME Abort PROVE Leaves
  BY <1>3, OffFields DEF Abort, Leaves, Visiting
<1>4. CASE Signal
  BY <1>4, SignalFields DEF Signal, Progress, Leaves, Visiting, Keys
<1>5. CASE LoopNext
  <2>1. CASE handler.pc = "next" /\ GoTo("exit")
             /\ (Keys \subseteq handler.seen \/ changed)
             /\ UNCHANGED <<vars, found, changed, traces, signals>>
    BY <1>2, <2>1 DEF Progress
  <2> QED
    BY <1>1, <1>3, <1>5, <2>1, LoopNextCases DEF Progress
<1>6. CASE LoopName
  BY <1>2, <1>3, <1>6 DEF LoopName, Visiting, Progress
<1>7. CASE LoopDeleteKeypair
  BY <1>2, <1>3, <1>7 DEF LoopDeleteKeypair, Visiting, Progress
<1>8. CASE StopTerminate
  BY <1>2, <1>3, <1>8 DEF StopTerminate, Stops, Visiting, Progress
<1>9. CASE StopCleanup
  BY <1>2, <1>3, <1>9 DEF StopCleanup, Visiting, Progress
<1>10. CASE StopDelete
  BY <1>2, <1>3, <1>10 DEF StopDelete, Visiting, Progress
<1>11. CASE LoopDeleteServer
  BY <1>2, <1>3, <1>11 DEF LoopDeleteServer, Deletes, Visiting, Progress
<1>12. CASE Exit
  BY <1>2, <1>12 DEF Exit, Progress
<1>13. CASE Serve
  BY <1>13 DEF Serve, Stays
<1>14. CASE ProcessEnds
  BY <1>14 DEF ProcessEnds, ProcessExit, Stays, shutdownVars, Keys
<1>15. CASE StartAgain
  BY <1>15, OffFields DEF StartAgain, Progress, Leaves, Visiting
<1>16. CASE UNCHANGED allVars
  BY <1>16 DEF allVars, shutdownVars, Stays, Keys
<1> QED
  BY <1>4, <1>5, <1>6, <1>7, <1>8, <1>9, <1>10, <1>11, <1>12, <1>13, <1>14, <1>15, <1>16
  DEF ShutdownNext, Handle

LEMMA VisitedStep == ShutdownInv /\ [ShutdownNext]_allVars => Visited'
<1> SUFFICES ASSUME ShutdownInv, [ShutdownNext]_allVars PROVE Visited'
  OBVIOUS
<1>1. Visited /\ active \in [VMs -> Playbooks \cup {NoPlaybook}]
  BY DEF ShutdownInv, Consistent, TypeOK
<1>2. \A p \in Playbooks : proc[p] \in Started => owner'[p] = owner[p] /\ proc'[p] \in Started
  BY Remains
<1>3. CASE Stays
  BY <1>1, <1>2, <1>3 DEF Stays, Visited
<1>4. ASSUME NEW v \in VMs, Takes(v) PROVE Visited'
  <2>1. active[v] \in Playbooks /\ Registered(v)
    BY <1>1, <1>4 DEF Takes, Keys, ShutdownInv, Consistent
  <2>2. owner[active[v]] = v /\ proc[active[v]] \in Started
    BY <2>1, ConstantsAssumption DEF Registered
  <2> QED
    BY <1>4, <2>1, <2>2 DEF Takes, Visited, vars, objects
<1>5. ASSUME handler.pc \in Visiting, handler'.vm = handler.vm, handler'.pb = handler.pb
      PROVE  Visited'
  BY <1>1, <1>2, <1>5 DEF Visited
<1> QED
  BY <1>3, <1>4, <1>5, ProgressOf DEF Progress, Moves, Stops, Deletes, Leaves, Visiting, Visited

LEMMA FoundKeysStep == ShutdownInv /\ [ShutdownNext]_allVars => FoundKeys'
<1> SUFFICES ASSUME ShutdownInv, [ShutdownNext]_allVars PROVE FoundKeys'
  OBVIOUS
<1>1. FoundKeys
  BY DEF ShutdownInv
<1>2. CASE Stays /\ (changed' \/ Keys' = Keys \/ handler.pc \in {"exit", "exited"})
           /\ (changed => changed')
  BY <1>1, <1>2 DEF Stays, FoundKeys, Visiting
<1>3. CASE Leaves
  BY <1>3 DEF Leaves, FoundKeys
<1>4. ASSUME NEW v \in VMs, Takes(v) PROVE FoundKeys'
  BY <1>1, <1>4 DEF Takes, FoundKeys, Keys, vars, store, Visiting
<1>5. ASSUME NEW s \in {"next"} \cup Visiting, Moves(s),
             handler.pc \in {"next"} \cup Visiting
      PROVE  FoundKeys'
  BY <1>1, <1>5 DEF FoundKeys, Moves, Keys, Visiting
<1>6. CASE Moves("exit") /\ handler.pc = "next" /\ (Keys \subseteq handler.seen \/ changed)
  BY <1>1, <1>6 DEF FoundKeys, Moves, Visiting
<1>7. CASE Moves("exited") /\ handler.pc = "exit"
  BY <1>1, <1>7 DEF FoundKeys, Moves, Visiting
<1> QED
  BY <1>2, <1>3, <1>4, <1>5, <1>6, <1>7, ProgressOf
  DEF Progress, Stops, Deletes, Visiting

LEMMA TerminatedStep == ShutdownInv /\ [ShutdownNext]_allVars => Terminated'
<1> SUFFICES ASSUME ShutdownInv, [ShutdownNext]_allVars PROVE Terminated'
  OBVIOUS
<1> DEFINE Steps3 == {"name", "key", "stop"}
           Due == deleted \cup Past(Steps3)
           Ended(v) == \E q \in terminated : owner[q] = v
<1>1. /\ terminated \subseteq Playbooks
      /\ \A q \in terminated : proc[q] \in Started
      /\ \A v \in Due : Ended(v)
  BY DEF ShutdownInv, Terminated, ShutdownTypeOK
<1>2. \A p \in Playbooks : proc[p] \in Started => owner'[p] = owner[p] /\ proc'[p] \in Started
  BY Remains
<1>3. ASSUME UNCHANGED terminated, Due' \subseteq Due PROVE Terminated'
  BY <1>1, <1>2, <1>3 DEF Terminated
<1>4. ASSUME Stops, Due' \subseteq Due \cup {handler.vm} PROVE Terminated'
  <2>1. handler.pb \in Playbooks /\ owner[handler.pb] = handler.vm /\ proc[handler.pb] \in Started
    BY <1>4 DEF ShutdownInv, Visited, Visiting, Stops
  <2>2. \A q \in terminated' : proc'[q] \in Started /\ owner'[q] = owner[q]
    BY <1>1, <1>2, <1>4, <2>1 DEF Stops
  <2>3. \A v \in Due' : Ended(v)'
    BY <1>1, <1>4, <2>1, <2>2 DEF Stops
  <2> QED
    BY <2>2, <2>3 DEF Terminated
<1>5. CASE Stays
  BY <1>3, <1>5 DEF Stays, Past
<1>6. CASE Leaves /\ UNCHANGED <<terminated, deleted>>
  BY <1>3, <1>6 DEF Leaves, Past
<1>7. CASE Stops /\ UNCHANGED deleted /\ (Leaves \/ Moves("clean"))
  <2>1. Past(Steps3)' \subseteq Past(Steps3) \cup {handler.vm}
    BY <1>7 DEF Stops, Leaves, Moves, Past
  <2> QED
    BY <1>4, <1>7, <2>1
<1>8. CASE Deletes /\ UNCHANGED terminated /\ (Leaves \/ Moves("next"))
  <2>1. handler.vm \in Past(Steps3)
    BY <1>8 DEF Deletes, Past, ShutdownInv, ShutdownTypeOK, Visiting
  <2>2. Past(Steps3)' \subseteq Past(Steps3)
    BY <1>8 DEF Deletes, Leaves, Moves, Past
  <2> QED
    BY <1>3, <1>8, <2>1, <2>2 DEF Deletes
<1>9. ASSUME NEW v \in VMs, Takes(v) PROVE Terminated'
  BY <1>3, <1>9 DEF Takes, Past, traces
<1>10. ASSUME UNCHANGED <<terminated, deleted>>, NEW s, Moves(s),
              handler.pc \in Steps3 => s \in Steps3
       PROVE  Terminated'
  BY <1>3, <1>10 DEF Past, Moves
<1> QED
  BY <1>5, <1>6, <1>7, <1>8, <1>9, <1>10, ProgressOf DEF Progress

LEMMA DeletedStep == ShutdownInv /\ [ShutdownNext]_allVars => Deleted'
<1> SUFFICES ASSUME ShutdownInv, [ShutdownNext]_allVars PROVE Deleted'
  OBVIOUS
<1>1. Deleted
  BY DEF ShutdownInv
<1>2. CASE Stays
  BY <1>1, <1>2 DEF Stays, Deleted, Past
<1>3. CASE Leaves
  BY <1>3 DEF Leaves, Deleted, Past
<1>4. ASSUME NEW v \in VMs, Takes(v) PROVE Deleted'
  BY <1>1, <1>4 DEF Takes, Deleted, Past, traces, Visiting
<1>5. CASE Deletes /\ Moves("next")
  BY <1>1, <1>5 DEF Deletes, Moves, Deleted, Past, Visiting
<1>6. ASSUME UNCHANGED deleted, NEW s, Moves(s),
             handler.pc \in Visiting => s \in Visiting
      PROVE  Deleted'
  BY <1>1, <1>6 DEF Deleted, Past, Moves
<1> QED
  BY <1>2, <1>3, <1>4, <1>5, <1>6, ProgressOf DEF Progress, Stops, Visiting

LEMMA ShutdownInvInit == ShutdownInit => ShutdownInv
<1> SUFFICES ASSUME ShutdownInit PROVE ShutdownInv
  OBVIOUS
<1>1. Consistent
  BY ConsistentInit DEF ShutdownInit
<1>3. ShutdownTypeOK
  <2>1. 0 \in 0 .. MaxSignals /\ Off.pc \notin Visiting
    BY SignalsAssumption, OffFields DEF Visiting
  <2> QED
    BY <2>1, OffFields DEF ShutdownInit, ShutdownTypeOK, HandlerTypes
<1> QED
  BY <1>1, <1>3, OffFields
  DEF ShutdownInit, ShutdownInv, Visited, FoundKeys, Terminated, Deleted, Past, Visiting

LEMMA ShutdownInvStep == ShutdownInv /\ [ShutdownNext]_allVars => ShutdownInv'
  BY ConsistentKeptAlways, TypesStep, VisitedStep, FoundKeysStep, TerminatedStep,
     DeletedStep
  DEF ShutdownInv

(* The invariant of the shutdown.                                          *)
THEOREM ShutdownInvariance == ShutdownSpec => []ShutdownInv
<1>1. ShutdownInit => ShutdownInv
  BY ShutdownInvInit
<1>2. ShutdownInv /\ [ShutdownNext]_allVars => ShutdownInv'
  BY ShutdownInvStep
<1> QED
  BY <1>1, <1>2, PTL DEF ShutdownSpec

-----------------------------------------------------------------------------
(* The theorems                                                            *)

(* The handler of the signal stays within its types.                       *)
THEOREM ShutdownTypes == ShutdownSpec => []ShutdownTypeOK
<1>1. ShutdownInv => ShutdownTypeOK
  BY DEF ShutdownInv
<1> QED
  BY <1>1, ShutdownInvariance, PTL

(* A complete loop, over keys that did not change, has told every playbook *)
(* that the signal found to end: keyboard_interrupt_handler_playbooks.     *)
THEOREM ExitStops == ShutdownSpec => []ExitStopsRuns
<1>1. ShutdownInv => ExitStopsRuns
  <2> SUFFICES ASSUME ShutdownInv, Complete, NEW p \in Playbooks,
                      owner[p] \in found, Only(p)
               PROVE  p \in terminated
    BY DEF ExitStopsRuns
  <2>1. owner[p] \in Past({"name", "key", "stop"})
    BY DEF ShutdownInv, FoundKeys, Complete, Past
  <2>2. PICK q \in terminated : owner[q] = owner[p]
    BY <2>1 DEF ShutdownInv, Terminated
  <2>3. q \in Playbooks
    BY DEF ShutdownInv, ShutdownTypeOK
  <2> QED
    BY <2>2, <2>3 DEF Only
<1> QED
  BY <1>1, ShutdownInvariance, PTL

(* ... and has deleted every server it found.                              *)
THEOREM ExitDeletes == ShutdownSpec => []ExitDeletesServers
<1>1. ShutdownInv => ExitDeletesServers
  BY DEF ShutdownInv, FoundKeys, Deleted, Past, Complete, ExitDeletesServers, Visiting
<1> QED
  BY <1>1, ShutdownInvariance, PTL

(* A shutdown that is cut short leaves no run on a deleted server that was *)
(* not told to end.                                                        *)
THEOREM DeletesStopped == ShutdownSpec => []DeletedAreStopped
<1>1. ShutdownInv => DeletedAreStopped
  <2> SUFFICES ASSUME ShutdownInv, NEW p \in Playbooks, owner[p] \in deleted, Only(p)
               PROVE  p \in terminated
    BY DEF DeletedAreStopped
  <2>1. PICK q \in terminated : owner[q] = owner[p]
    BY DEF ShutdownInv, Terminated
  <2>2. q \in Playbooks
    BY DEF ShutdownInv, ShutdownTypeOK
  <2> QED
    BY <2>1, <2>2 DEF Only
<1> QED
  BY <1>1, ShutdownInvariance, PTL
=============================================================================
