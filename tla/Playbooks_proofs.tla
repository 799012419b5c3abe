--------------------------- MODULE Playbooks_proofs ---------------------------
(***************************************************************************)
(* The safety properties of Playbooks, for any number of threads, VMs and  *)
(* playbooks, any lock timeout and any number of restarts.  IInv is the    *)
(* inductive invariant: what each program step of a thread knows of its    *)
(* locals, who refers to which object, and what the hash of a VM says of   *)
(* the only playbook built for that VM.                                    *)
(***************************************************************************)
EXTENDS Playbooks, TLAPS

(* Where a deploy holds an object nobody else knows: reserved, then built. *)
ReserveSteps == {"dp_netcat", "dp_key", "dp_copy", "dp_resenvs"}
BuildSteps   == {"dp_lock", "dp_fail", "dp_build", "dp_run"}

(* Where a status or log request surely has taken a registered playbook.   *)
PolledSteps  == {"st_poll", "st_hset", "st_code"}
ReadSteps    == {"lg_read", "lg_hget", "lg_clean", "lg_delete", "lg_pop"}
ClosingSteps == {"lg_clean", "lg_delete", "lg_pop"}

(* What a thread knows at its next step.                                   *)
Locals(t) ==
  /\ pc[t] = "idle" => pb[t] = NoPlaybook /\ rc[t] = NotRun
  /\ pc[t] # "idle" => vm[t] \in VMs
  /\ pc[t] \in ReserveSteps => pb[t] \in Playbooks /\ proc[pb[t]] = "none"
  /\ pc[t] \in BuildSteps \cup {"dp_register"} =>
       pb[t] \in Playbooks /\ owner[pb[t]] = vm[t]
  /\ pc[t] \in BuildSteps => proc[pb[t]] = "new"
  /\ pc[t] \in PolledSteps \cup ReadSteps =>
       pb[t] \in Playbooks /\ owner[pb[t]] = vm[t]
  /\ pc[t] \in PolledSteps \cup ReadSteps \cup {"dp_register"} =>
       proc[pb[t]] \in Started
  /\ pc[t] \in {"st_hset", "st_code"} =>
       proc[pb[t]] \in Exited /\ rc[t] = ExitCode(proc[pb[t]])
  /\ pc[t] \in LogSteps /\ rc[t] # NotRun =>
       pc[t] \in ReadSteps /\ proc[pb[t]] \in Exited /\ rc[t] = ExitCode(proc[pb[t]])

(* The object a deploy works on is referred to by no one else.             *)
Exclusive(t) == pc[t] \in DeploySteps =>
  /\ \A s \in Threads : pb[s] = pb[t] => s = t
  /\ \A v \in VMs : active[v] # pb[t]

Registered(v) == active[v] # NoPlaybook =>
  owner[active[v]] = v /\ proc[active[v]] \in Started

Object(p) ==
  /\ proc[p] = "none" <=> owner[p] = NoVM
  /\ returncode[p] # NotRun =>
       proc[p] \in Exited /\ returncode[p] = ExitCode(proc[p])

Successful(v) == redis[v].status = "successful" =>
  \E p \in Playbooks : owner[p] = v /\ proc[p] = "ok"

Consistent ==
  /\ TypeOK
  /\ \A t \in Threads : Locals(t) /\ Exclusive(t)
  /\ \A v \in VMs : Registered(v) /\ Successful(v)
  /\ \A p \in Playbooks : Object(p)

(* What holds of the only playbook built for its VM.                       *)

(* Its directory stays at least until its process has exited.              *)
Directory(p) == Only(p) /\ proc[p] \in {"new", "running"} =>
  dir[p] \in {"live", "left"}

Tracked(p) == Only(p) /\ proc[p] = "running" =>
  \/ active[owner[p]] = p
  \/ \E t \in Threads : pc[t] = "dp_register" /\ pb[t] = p
  \/ dir[p] = "left"

(* A verdict in the hash is that of the process, or of a deploy that was   *)
(* cancelled and has forgotten its object.                                 *)
Verdict(p) == Only(p) /\ owner[p] \in VMs =>
  /\ redis[owner[p]].status = "successful" => proc[p] = "ok"
  /\ redis[owner[p]].status = "failed" =>
       \/ proc[p] = "failed"
       \/ proc[p] = "new" /\ \A t \in Threads : pb[t] # p

FinalOwned(v) == redis[v].status \in FinalStates =>
  \E p \in Playbooks : owner[p] = v

(* Only a finished run is cleaned up.                                      *)
Closing(t) == pc[t] \in ClosingSteps =>
  /\ Only(pb[t]) => proc[pb[t]] \in Exited
  /\ pc[t] # "lg_clean" => dir[pb[t]] = "removed"

(* From "building" until the log request that ends the run, the hash is    *)
(* there, and no one changes it before the playbook is registered.         *)
Recorded(t) == pc[t] \in {"dp_run", "dp_register"} /\ Only(pb[t]) =>
  redis[vm[t]].status = "building"
RegisteredRecorded(v) == active[v] # NoPlaybook /\ Only(active[v]) =>
  \/ Exists(v)
  \/ /\ proc[active[v]] \in Exited /\ dir[active[v]] = "removed"
     /\ \/ \E t \in Threads : vm[t] = v /\ pc[t] = "lg_pop"
        \/ v \in unanswered

CodeFollows(v) ==
  active[v] # NoPlaybook /\ Only(active[v]) /\ redis[v].status \in FinalStates =>
    \/ returncode[active[v]] = ExitCode(proc[active[v]])
    \/ \E t \in Threads : pc[t] = "st_code" /\ vm[t] = v
    \/ v \in unanswered

(* A VM that start_server_with_custom_key has not yet put into Redis is    *)
(* unknown to every other request.                                         *)
Unknown(v) == redis[v] = Absent /\ \A p \in Playbooks : owner[p] # v
NotStarted(v) == v \notin servers => Unknown(v) /\ \A t \in Threads : vm[t] # v
Waiting(t) == pc[t] = "set_wait" =>
  /\ Unknown(vm[t])
  /\ \A s \in Threads : vm[s] = vm[t] /\ s # t => pc[s] \notin {"set_wait", "dp_copy", "dp_resenvs"}

Single ==
  /\ \A p \in Playbooks : Directory(p) /\ Tracked(p) /\ Verdict(p)
  /\ \A v \in VMs : FinalOwned(v) /\ RegisteredRecorded(v) /\ CodeFollows(v)
                 /\ NotStarted(v)
  /\ \A t \in Threads : Closing(t) /\ Recorded(t) /\ Waiting(t)

IInv == Consistent /\ Single

-----------------------------------------------------------------------------
(* Consistent is inductive.                                                *)

LocalTypes ==
  /\ pc \in [Threads -> Steps]
  /\ vm \in [Threads -> VMs \cup {NoVM}]
  /\ pb \in [Threads -> Playbooks \cup {NoPlaybook}]
  /\ rc \in [Threads -> ExitCodes]
  /\ waited \in [Threads -> 0 .. MaxWait]

LEMMA ReturnType ==
  ASSUME TypeOK, NEW t \in Threads, Return(t)
  PROVE  LocalTypes'
  BY ConstantsAssumption DEF TypeOK, LocalTypes, Return, Steps, ExitCodes, NotRun

LEMMA GotoType ==
  ASSUME TypeOK, NEW t \in Threads, NEW s \in Steps, Goto(t, s),
         pb' \in [Threads -> Playbooks \cup {NoPlaybook}],
         rc' \in [Threads -> ExitCodes]
  PROVE  LocalTypes'
  BY DEF TypeOK, LocalTypes, Goto

LEMMA AcceptType ==
  ASSUME TypeOK, NEW t \in Threads, NEW v \in VMs, NEW s \in Steps, Accept(t, v, s),
         pb' \in [Threads -> Playbooks \cup {NoPlaybook}]
  PROVE  LocalTypes'
  BY DEF TypeOK, LocalTypes, Accept

(* HSET of a status keeps the rest of the hash.                            *)
LEMMA SetStatusType ==
  ASSUME redis \in [VMs -> Hashes], NEW v \in VMs, NEW s \in TaskStates,
         SetStatus(v, s)
  PROVE  redis' \in [VMs -> Hashes]
<1>1. [redis[v] EXCEPT !.status = s] \in Hashes
  BY DEF Hashes
<1>2. redis' = [redis EXCEPT ![v] = [redis[v] EXCEPT !.status = s]]
  BY DEF SetStatus
<1>3. QED
  BY <1>1, <1>2

LEMMA TypeStep == Consistent /\ [Next]_vars => TypeOK'
<1> SUFFICES ASSUME Consistent, [Next]_vars PROVE TypeOK'
  OBVIOUS
<1> DEFINE SharedTypes ==
      /\ servers \subseteq VMs
      /\ redis \in [VMs -> Hashes]
      /\ active \in [VMs -> Playbooks \cup {NoPlaybook}]
      /\ unanswered \subseteq VMs
      /\ owner \in [Playbooks -> VMs \cup {NoVM}]
      /\ proc \in [Playbooks -> ProcStates]
      /\ returncode \in [Playbooks -> ExitCodes]
      /\ dir \in [Playbooks -> {"none", "live", "left", "removed"}]
      /\ restarts \in 0 .. MaxRestarts
<1>0. TypeOK /\ \A t \in Threads : Locals(t)
  BY DEF Consistent
<1>1. ASSUME NEW t \in Threads, Request(t) PROVE LocalTypes' /\ SharedTypes'
  <2>1. CASE \E v \in VMs : StartServer(t, v)
    BY <1>0, <2>1, AcceptType DEF StartServer, objects, TypeOK, Steps
  <2>2. CASE \E v \in VMs : BeginStatus(t, v) \/ BeginLogs(t, v)
    BY <1>0, <2>2, AcceptType
    DEF BeginStatus, BeginLogs, store, objects, TypeOK, Steps, StatusSteps, LogSteps
  <2>3. CASE \E v \in VMs, p \in Playbooks : BeginDeploy(t, v, p)
    BY <1>0, <2>3, AcceptType
    DEF BeginDeploy, store, objects, TypeOK, Steps, DeploySteps
  <2>4. QED
    BY <1>1, <2>1, <2>2, <2>3 DEF Request
<1>2. ASSUME NEW t \in Threads, Work(t) PROVE LocalTypes' /\ SharedTypes'
  <2>1. CASE SetVmWaitForPlaybook(t)
    BY <1>0, <2>1, ReturnType, GotoType
    DEF SetVmWaitForPlaybook, TypeOK, store, objects, Hashes, TaskStates
  <2>2. CASE StatusExists(t)
    BY <1>0, <2>2, ReturnType, GotoType
    DEF StatusExists, TypeOK, store, objects, Steps, StatusSteps
  <2>3. CASE StatusInActive(t)
    BY <1>0, <2>3, ReturnType, GotoType
    DEF StatusInActive, TypeOK, store, objects, Steps, StatusSteps
  <2>4. CASE StatusGetPlaybook(t)
    BY <1>0, <2>4, ReturnType, GotoType
    DEF StatusGetPlaybook, TypeOK, store, objects, Locals, Steps, StatusSteps
  <2>5. CASE CheckStatusPoll(t)
    BY <1>0, <2>5, ReturnType, GotoType
    DEF CheckStatusPoll, TypeOK, store, objects, Steps, StatusSteps, ExitCode, ExitCodes
  <2>6. CASE CheckStatusHset(t)
    <3>1. redis' \in [VMs -> Hashes]
      BY <1>0, <2>6, SetStatusType
      DEF CheckStatusHset, TypeOK, Locals, TaskStates, FinalStates
    <3>2. QED
      BY <1>0, <2>6, <3>1, GotoType, ReturnType
      DEF CheckStatusHset, TypeOK, objects, Steps, StatusSteps, Locals
  <2>7. CASE CheckStatusReturncode(t)
    BY <1>0, <2>7, ReturnType, GotoType
    DEF CheckStatusReturncode, TypeOK, store, objects, Steps, StatusSteps
  <2>8. CASE StatusReply(t)
    BY <1>0, <2>8, ReturnType, GotoType
    DEF StatusReply, TypeOK, store, objects, Locals, Hashes, TaskStates
  <2>9. CASE LogsExists(t)
    BY <1>0, <2>9, ReturnType, GotoType
    DEF LogsExists, TypeOK, store, objects, Steps, LogSteps
  <2>10. CASE LogsInActive(t)
    BY <1>0, <2>10, ReturnType, GotoType
    DEF LogsInActive, TypeOK, store, objects, Steps, LogSteps
  <2>11. CASE LogsGetPlaybook(t)
    BY <1>0, <2>11, ReturnType, GotoType
    DEF LogsGetPlaybook, TypeOK, store, objects, Locals, Steps, LogSteps
  <2>12. CASE GetLogs(t)
    BY <1>0, <2>12, ReturnType, GotoType
    DEF GetLogs, TypeOK, store, objects, Locals, ReadSteps, Steps, LogSteps
  <2>13. CASE LogsHget(t)
    BY <1>0, <2>13, ReturnType, GotoType
    DEF LogsHget, TypeOK, store, objects, Steps, LogSteps
  <2>14. CASE CleanupDirectory(t)
    BY <1>0, <2>14, ReturnType, GotoType
    DEF CleanupDirectory, TypeOK, store, objects, Steps, LogSteps
  <2>15. CASE CleanupDelete(t)
    BY <1>0, <2>15, ReturnType, GotoType
    DEF CleanupDelete, TypeOK, Locals, store, objects, Hashes, Absent, Steps, LogSteps
  <2>16. CASE LogsPop(t)
    BY <1>0, <2>16, ReturnType, GotoType
    DEF LogsPop, TypeOK, store, objects
  <2>17. CASE DeployNetcat(t)
    BY <1>0, <2>17, ReturnType, GotoType
    DEF DeployNetcat, TypeOK, store, objects, Steps, DeploySteps
  <2>18. CASE DeployReadKey(t)
    BY <1>0, <2>18, ReturnType, GotoType
    DEF DeployReadKey, TypeOK, store, objects, Steps, DeploySteps
  <2>19. CASE DeployConstruct(t)
    BY <1>0, <2>19, ReturnType, GotoType
    DEF DeployConstruct, TypeOK, store, objects, Locals, ReserveSteps, ProcStates,
        Steps, DeploySteps
  <2>20. CASE \E locked \in BOOLEAN : DeployCheckLock(t, locked)
    <3>1. SharedTypes'
      BY <1>0, <2>20 DEF DeployCheckLock, TypeOK, store, objects
    <3>2. CASE waited' = [waited EXCEPT ![t] = @ + 1] /\ waited[t] < MaxWait
               /\ UNCHANGED <<pc, vm, pb, rc>>
      BY <1>0, <3>1, <3>2, ConstantsAssumption DEF TypeOK, LocalTypes
    <3>3. CASE (Goto(t, "dp_build") \/ Goto(t, "dp_fail")) /\ UNCHANGED <<pb, rc>>
      BY <1>0, <3>1, <3>3, GotoType DEF TypeOK, Steps, DeploySteps
    <3>4. QED
      BY <2>20, <3>1, <3>2, <3>3 DEF DeployCheckLock
  <2>21. CASE DeployCancel(t)
    BY <1>0, <2>21, ReturnType, SetStatusType
    DEF DeployCancel, TypeOK, objects, Locals, TaskStates, FinalStates
  <2>22. CASE DeployHsetBuild(t)
    BY <1>0, <2>22, GotoType, ReturnType, SetStatusType
    DEF DeployHsetBuild, TypeOK, objects, Locals, TaskStates, Steps, DeploySteps
  <2>23. CASE DeployRun(t)
    BY <1>0, <2>23, ReturnType, GotoType
    DEF DeployRun, TypeOK, store, objects, ProcStates, Steps, DeploySteps
  <2>24. CASE DeployRegister(t)
    BY <1>0, <2>24, ReturnType, GotoType
    DEF DeployRegister, TypeOK, store, objects, Locals, BuildSteps
  <2>25. CASE DeployCopyTemplate(t)
    BY <1>0, <2>25, GotoType
    DEF DeployCopyTemplate, TypeOK, store, objects, Steps, DeploySteps
  <2>26. CASE CallRaises(t)
    BY <1>0, <2>26, ReturnType DEF CallRaises, TypeOK, store, objects
  <2>27. QED
    BY <1>2, <2>1, <2>2, <2>3, <2>4, <2>5, <2>6, <2>7, <2>8, <2>9, <2>10,
       <2>11, <2>12, <2>13, <2>14, <2>15, <2>16, <2>17, <2>18, <2>19,
       <2>20, <2>21, <2>22, <2>23, <2>24, <2>25, <2>26
    DEF Work, Step, StatusStep, LogStep, DeployStep
<1>3. CASE (\E p \in Playbooks : ProcessExit(p)) \/ UNCHANGED vars
  <2>1. CASE \E p \in Playbooks : ProcessExit(p)
    BY <1>0, <2>1
    DEF ProcessExit, TypeOK, LocalTypes, ProcStates, Exited, store, locals
  <2>2. CASE UNCHANGED vars
    BY <1>0, <2>2 DEF TypeOK, LocalTypes, vars, store, objects, locals
  <2>3. QED
    BY <1>3, <2>1, <2>2
<1>4. CASE Restart
  <2>1. LocalTypes'
    BY <1>4, ConstantsAssumption
    DEF Restart, LocalTypes, Steps, ExitCodes, NotRun
  <2>2. SharedTypes'
    <3>1. restarts' \in 0 .. MaxRestarts
      BY <1>0, <1>4, ConstantsAssumption DEF Restart, TypeOK
    <3>2. QED
      BY <1>0, <1>4, <3>1 DEF Restart, TypeOK, ExitCodes, NotRun
  <2>3. QED
    BY <2>1, <2>2 DEF TypeOK, LocalTypes
<1>5. QED
  BY <1>1, <1>2, <1>3, <1>4 DEF Next, TypeOK, LocalTypes

LEMMA LocalsStep ==
  ASSUME Consistent, [Next]_vars, NEW s \in Threads PROVE Locals(s)'
<1> USE DEF Consistent, TypeOK, Locals, Exclusive, Registered, Object, ReserveSteps,
            BuildSteps, PolledSteps, ReadSteps, StatusSteps, LogSteps, DeploySteps,
            Steps, Started, Exited, ExitCode, NotRun, store, objects
<1>1. ASSUME NEW t \in Threads, Request(t) PROVE Locals(s)'
  <2>1. CASE \E v \in VMs : StartServer(t, v)
    BY <2>1 DEF StartServer, Accept
  <2>2. CASE \E v \in VMs : BeginStatus(t, v) \/ BeginLogs(t, v)
    BY <2>2 DEF BeginStatus, BeginLogs, Accept
  <2>3. CASE \E v \in VMs, p \in Playbooks : BeginDeploy(t, v, p)
    BY <2>3 DEF BeginDeploy, Accept, Fresh
  <2>4. QED
    BY <1>1, <2>1, <2>2, <2>3 DEF Request
<1>2. ASSUME NEW t \in Threads, Work(t) PROVE Locals(s)'
  <2>1. CASE SetVmWaitForPlaybook(t)
    BY <2>1 DEF SetVmWaitForPlaybook, Return
  <2>2. CASE StatusExists(t)
    BY <2>2 DEF StatusExists, Goto, Return
  <2>3. CASE StatusInActive(t)
    BY <2>3 DEF StatusInActive, Goto
  <2>4. CASE StatusGetPlaybook(t)
    BY <2>4 DEF StatusGetPlaybook, Goto, Return
  <2>5. CASE CheckStatusPoll(t)
    BY <2>5 DEF CheckStatusPoll, Goto
  <2>6. CASE CheckStatusHset(t)
    BY <2>6 DEF CheckStatusHset, Goto, Return
  <2>7. CASE CheckStatusReturncode(t)
    BY <2>7 DEF CheckStatusReturncode, Goto
  <2>8. CASE StatusReply(t)
    BY <2>8 DEF StatusReply, Return
  <2>9. CASE LogsExists(t)
    BY <2>9 DEF LogsExists, Goto, Return
  <2>10. CASE LogsInActive(t)
    BY <2>10 DEF LogsInActive, Goto, Return
  <2>11. CASE LogsGetPlaybook(t)
    BY <2>11 DEF LogsGetPlaybook, Goto, Return
  <2>12. CASE GetLogs(t)
    BY <2>12 DEF GetLogs, Goto
  <2>13. CASE LogsHget(t)
    BY <2>13 DEF LogsHget, Goto, Return
  <2>14. CASE CleanupDirectory(t)
    BY <2>14 DEF CleanupDirectory, Goto
  <2>15. CASE CleanupDelete(t)
    BY <2>15 DEF CleanupDelete, Goto, Return
  <2>16. CASE LogsPop(t)
    BY <2>16 DEF LogsPop, Return
  <2>17. CASE DeployNetcat(t)
    BY <2>17 DEF DeployNetcat, Goto, Return
  <2>18. CASE DeployReadKey(t)
    BY <2>18 DEF DeployReadKey, Goto, Return
  <2>19. CASE DeployConstruct(t)
    BY <2>19 DEF DeployConstruct, Goto, Return
  <2>20. CASE \E locked \in BOOLEAN : DeployCheckLock(t, locked)
    BY <2>20 DEF DeployCheckLock, Goto
  <2>21. CASE DeployCancel(t)
    BY <2>21 DEF DeployCancel, Return
  <2>22. CASE DeployHsetBuild(t)
    BY <2>22 DEF DeployHsetBuild, Goto, Return
  <2>23. CASE DeployRun(t)
    BY <2>23 DEF DeployRun, Goto, Return
  <2>24. CASE DeployRegister(t)
    BY <2>24 DEF DeployRegister, Return
  <2>25. CASE DeployCopyTemplate(t)
    BY <2>25 DEF DeployCopyTemplate, Goto
  <2>26. CASE CallRaises(t)
    BY <2>26 DEF CallRaises, FallibleSteps, Return
  <2>27. QED
    BY <1>2, <2>1, <2>2, <2>3, <2>4, <2>5, <2>6, <2>7, <2>8, <2>9, <2>10,
       <2>11, <2>12, <2>13, <2>14, <2>15, <2>16, <2>17, <2>18, <2>19,
       <2>20, <2>21, <2>22, <2>23, <2>24, <2>25, <2>26
    DEF Work, Step, StatusStep, LogStep, DeployStep
<1>3. ASSUME NEW p \in Playbooks, ProcessExit(p) PROVE Locals(s)'
  BY <1>3 DEF ProcessExit, locals
<1>4. CASE UNCHANGED vars
  BY <1>4 DEF locals, vars
<1>5. CASE Restart
  BY <1>5 DEF Restart
<1>6. QED
  BY <1>1, <1>2, <1>3, <1>4, <1>5 DEF Next

LEMMA ExclusiveStep ==
  ASSUME Consistent, [Next]_vars, NEW s \in Threads PROVE Exclusive(s)'
<1> USE ConstantsAssumption
    DEF Consistent, TypeOK, Locals, Exclusive, Registered, ReserveSteps, BuildSteps,
        PolledSteps, ReadSteps, StatusSteps, LogSteps, DeploySteps, Started, store,
           objects
<1>1. ASSUME NEW t \in Threads, Request(t) PROVE Exclusive(s)'
  <2>1. CASE \E v \in VMs : StartServer(t, v)
    BY <2>1 DEF StartServer, Accept
  <2>2. CASE \E v \in VMs : BeginStatus(t, v) \/ BeginLogs(t, v)
    BY <2>2 DEF BeginStatus, BeginLogs, Accept
  <2>3. CASE \E v \in VMs, p \in Playbooks : BeginDeploy(t, v, p)
    BY <2>3 DEF BeginDeploy, Accept, Fresh
  <2>4. QED
    BY <1>1, <2>1, <2>2, <2>3 DEF Request
<1>2. ASSUME NEW t \in Threads, Work(t) PROVE Exclusive(s)'
  <2>1. CASE SetVmWaitForPlaybook(t)
    BY <2>1 DEF SetVmWaitForPlaybook, Return
  <2>2. CASE StatusExists(t)
    BY <2>2 DEF StatusExists, Goto, Return
  <2>3. CASE StatusInActive(t)
    BY <2>3 DEF StatusInActive, Goto
  <2>4. CASE StatusGetPlaybook(t)
    BY <2>4 DEF StatusGetPlaybook, Goto, Return
  <2>5. CASE CheckStatusPoll(t)
    BY <2>5 DEF CheckStatusPoll, Goto
  <2>6. CASE CheckStatusHset(t)
    BY <2>6 DEF CheckStatusHset, Goto, Return
  <2>7. CASE CheckStatusReturncode(t)
    BY <2>7 DEF CheckStatusReturncode, Goto
  <2>8. CASE StatusReply(t)
    BY <2>8 DEF StatusReply, Return
  <2>9. CASE LogsExists(t)
    BY <2>9 DEF LogsExists, Goto, Return
  <2>10. CASE LogsInActive(t)
    BY <2>10 DEF LogsInActive, Goto, Return
  <2>11. CASE LogsGetPlaybook(t)
    BY <2>11 DEF LogsGetPlaybook, Goto, Return
  <2>12. CASE GetLogs(t)
    BY <2>12 DEF GetLogs, Goto
  <2>13. CASE LogsHget(t)
    BY <2>13 DEF LogsHget, Goto, Return
  <2>14. CASE CleanupDirectory(t)
    BY <2>14 DEF CleanupDirectory, Goto
  <2>15. CASE CleanupDelete(t)
    BY <2>15 DEF CleanupDelete, Goto, Return
  <2>16. CASE LogsPop(t)
    BY <2>16 DEF LogsPop, Return
  <2>17. CASE DeployNetcat(t)
    BY <2>17 DEF DeployNetcat, Goto, Return
  <2>18. CASE DeployReadKey(t)
    BY <2>18 DEF DeployReadKey, Goto, Return
  <2>19. CASE DeployConstruct(t)
    BY <2>19 DEF DeployConstruct, Goto, Return
  <2>20. CASE \E locked \in BOOLEAN : DeployCheckLock(t, locked)
    BY <2>20 DEF DeployCheckLock, Goto
  <2>21. CASE DeployCancel(t)
    BY <2>21 DEF DeployCancel, Return
  <2>22. CASE DeployHsetBuild(t)
    BY <2>22 DEF DeployHsetBuild, Goto, Return
  <2>23. CASE DeployRun(t)
    BY <2>23 DEF DeployRun, Goto, Return
  <2>24. CASE DeployRegister(t)
    BY <2>24 DEF DeployRegister, Return
  <2>25. CASE DeployCopyTemplate(t)
    BY <2>25 DEF DeployCopyTemplate, Goto
  <2>26. CASE CallRaises(t)
    BY <2>26 DEF CallRaises, FallibleSteps, Return
  <2>27. QED
    BY <1>2, <2>1, <2>2, <2>3, <2>4, <2>5, <2>6, <2>7, <2>8, <2>9, <2>10,
       <2>11, <2>12, <2>13, <2>14, <2>15, <2>16, <2>17, <2>18, <2>19,
       <2>20, <2>21, <2>22, <2>23, <2>24, <2>25, <2>26
    DEF Work, Step, StatusStep, LogStep, DeployStep
<1>3. ASSUME NEW p \in Playbooks, ProcessExit(p) PROVE Exclusive(s)'
  BY <1>3 DEF ProcessExit, locals
<1>4. CASE UNCHANGED vars
  BY <1>4 DEF locals, vars
<1>5. CASE Restart
  BY <1>5 DEF Restart
<1>6. QED
  BY <1>1, <1>2, <1>3, <1>4, <1>5 DEF Next

LEMMA RegisteredStep ==
  ASSUME Consistent, [Next]_vars, NEW v \in VMs PROVE Registered(v)'
<1> USE DEF Consistent, TypeOK, Registered, Locals, Started
<1>1. CASE UNCHANGED <<active, owner, proc>>
  BY <1>1
<1>2. ASSUME NEW t \in Threads, LogsPop(t) PROVE Registered(v)'
  BY <1>2 DEF LogsPop, objects
<1>3. ASSUME NEW t \in Threads, DeployConstruct(t) PROVE Registered(v)'
  BY <1>3 DEF DeployConstruct, store, objects, ReserveSteps
<1>4. ASSUME NEW t \in Threads, DeployRun(t) PROVE Registered(v)'
  BY <1>4 DEF DeployRun, store, BuildSteps
<1>5. ASSUME NEW t \in Threads, DeployRegister(t) PROVE Registered(v)'
  BY <1>5 DEF DeployRegister, objects
<1>6. ASSUME NEW p \in Playbooks, ProcessExit(p) PROVE Registered(v)'
  BY <1>6 DEF ProcessExit, store, Exited
<1>7. CASE Restart
  BY <1>7 DEF Restart
<1>8. QED
  BY <1>1, <1>2, <1>3, <1>4, <1>5, <1>6, <1>7
 
  DEF Next, Request, Work, Step, StatusStep, LogStep, DeployStep, CallRaises,
      DeployCopyTemplate, vars, store, objects, StartServer, SetVmWaitForPlaybook,
      BeginStatus,
      StatusExists, StatusInActive, StatusGetPlaybook, CheckStatusPoll, CheckStatusHset,
      CheckStatusReturncode, StatusReply, BeginLogs, LogsExists, LogsInActive,
         LogsGetPlaybook,
      GetLogs, LogsHget, CleanupDirectory, CleanupDelete, BeginDeploy, DeployNetcat,
      DeployReadKey, DeployCheckLock, DeployCancel, DeployHsetBuild

LEMMA SuccessfulStep ==
  ASSUME Consistent, [Next]_vars, NEW v \in VMs PROVE Successful(v)'
<1> USE DEF Consistent, TypeOK, Successful, Locals
<1>1. CASE UNCHANGED <<redis, owner, proc>>
  BY <1>1
<1>2. ASSUME NEW t \in Threads, SetVmWaitForPlaybook(t) PROVE Successful(v)'
  BY <1>2 DEF SetVmWaitForPlaybook, objects
<1>3. ASSUME NEW t \in Threads, CheckStatusHset(t) PROVE Successful(v)'
  BY <1>3 DEF CheckStatusHset, SetStatus, objects, Hashes, PolledSteps,
     ExitCode, Exited
<1>4. ASSUME NEW t \in Threads, CleanupDelete(t) PROVE Successful(v)'
  BY <1>4 DEF CleanupDelete, objects, Absent
<1>5. ASSUME NEW t \in Threads, DeployCancel(t) \/ DeployHsetBuild(t) PROVE
   Successful(v)'
  <2>1. CASE DeployCancel(t)
    BY <2>1 DEF DeployCancel, SetStatus, objects, Hashes
  <2>2. CASE DeployHsetBuild(t)
    BY <2>2 DEF DeployHsetBuild, SetStatus, objects, Hashes
  <2>3. QED
    BY <1>5, <2>1, <2>2
<1>6. ASSUME NEW t \in Threads, DeployConstruct(t) PROVE Successful(v)'
  BY <1>6 DEF DeployConstruct, store, objects, ReserveSteps
<1>7. ASSUME NEW t \in Threads, DeployRun(t) PROVE Successful(v)'
  BY <1>7 DEF DeployRun, store, BuildSteps
<1>8. ASSUME NEW p \in Playbooks, ProcessExit(p) PROVE Successful(v)'
  BY <1>8 DEF ProcessExit, store
<1>9. QED
  BY <1>1, <1>2, <1>3, <1>4, <1>5, <1>6, <1>7, <1>8
  DEF Next, Request, Work, Step, StatusStep, LogStep, DeployStep, CallRaises,
      DeployCopyTemplate, vars, store, objects, StartServer, BeginStatus,
      StatusExists, StatusInActive, StatusGetPlaybook, CheckStatusPoll,
      CheckStatusReturncode, StatusReply, BeginLogs, LogsExists, LogsInActive,
         LogsGetPlaybook,
      GetLogs, LogsHget, CleanupDirectory, LogsPop, BeginDeploy, DeployNetcat,
      DeployReadKey, DeployCheckLock, DeployRegister, Restart

LEMMA ObjectStep ==
  ASSUME Consistent, [Next]_vars, NEW p \in Playbooks PROVE Object(p)'
<1> USE ConstantsAssumption DEF Consistent, TypeOK, Object, Locals, Exited, ExitCode
<1>1. CASE UNCHANGED <<owner, proc, returncode>>
  BY <1>1
<1>2. ASSUME NEW t \in Threads, CheckStatusReturncode(t) PROVE Object(p)'
  BY <1>2 DEF CheckStatusReturncode
<1>3. ASSUME NEW t \in Threads, DeployConstruct(t) PROVE Object(p)'
  BY <1>3 DEF DeployConstruct, objects, ReserveSteps, DeploySteps
<1>4. ASSUME NEW t \in Threads, DeployRun(t) PROVE Object(p)'
  BY <1>4 DEF DeployRun, BuildSteps
<1>5. ASSUME NEW q \in Playbooks, ProcessExit(q) PROVE Object(p)'
  BY <1>5 DEF ProcessExit
<1>6. QED
  BY <1>1, <1>2, <1>3, <1>4, <1>5
 
  DEF Next, Request, Work, Step, StatusStep, LogStep, DeployStep, CallRaises,
      DeployCopyTemplate, vars, store, objects, StartServer, SetVmWaitForPlaybook,
      BeginStatus,
      StatusExists, StatusInActive, StatusGetPlaybook, CheckStatusPoll, CheckStatusHset,
      StatusReply, BeginLogs, LogsExists, LogsInActive, LogsGetPlaybook,
      GetLogs, LogsHget, CleanupDirectory, CleanupDelete, LogsPop, BeginDeploy,
         DeployNetcat,
      DeployReadKey, DeployCheckLock, DeployCancel, DeployHsetBuild, DeployRegister, Restart

LEMMA ConsistentInit == Init => Consistent
<1> SUFFICES ASSUME Init PROVE Consistent
  OBVIOUS
<1>1. TypeOK
  <2>1. LocalTypes
    BY ConstantsAssumption DEF Init, LocalTypes, ExitCodes, NotRun, Steps
  <2>2. redis \in [VMs -> Hashes]
    BY DEF Init, Hashes, Absent
  <2>3. restarts \in 0 .. MaxRestarts
    BY ConstantsAssumption DEF Init
  <2>4. QED
    BY <2>1, <2>2, <2>3 DEF Init, TypeOK, LocalTypes, ProcStates,
       ExitCodes, NotRun
<1>2. \A t \in Threads : Locals(t) /\ Exclusive(t)
  BY DEF Init, Locals, Exclusive, ReserveSteps, BuildSteps, PolledSteps, ReadSteps,
         LogSteps, DeploySteps
<1>3. \A v \in VMs : Registered(v) /\ Successful(v)
  BY DEF Init, Registered, Successful, Absent
<1>4. \A p \in Playbooks : Object(p)
  BY DEF Init, Object
<1>5. QED
  BY <1>1, <1>2, <1>3, <1>4 DEF Consistent

LEMMA ConsistentStep == Consistent /\ [Next]_vars => Consistent'
  BY TypeStep, LocalsStep, ExclusiveStep, RegisteredStep, SuccessfulStep, ObjectStep
  DEF Consistent

-----------------------------------------------------------------------------
(* Single is inductive relative to Consistent.                             *)

(* A second playbook for a VM can appear, but never disappear.             *)
LEMMA OnlyKept ==
  ASSUME Consistent, [Next]_vars, NEW p \in Playbooks, proc[p] # "none", Only(p)'
  PROVE  Only(p) /\ owner'[p] = owner[p]
<1>1. CASE owner' = owner
  BY <1>1 DEF Only
<1>2. ASSUME NEW t \in Threads, DeployConstruct(t)
      PROVE  Only(p) /\ owner'[p] = owner[p]
  BY <1>2
  DEF DeployConstruct, objects, Only, Consistent, Object, Locals, ReserveSteps, TypeOK
<1>3. QED
  BY <1>1, <1>2
  DEF Next, Request, Work, Step, StatusStep, LogStep, DeployStep, CallRaises,
      DeployCopyTemplate, vars, store, objects, locals, StartServer,
      BeginStatus, BeginLogs, BeginDeploy, SetVmWaitForPlaybook, StatusExists,
      StatusInActive, StatusGetPlaybook, CheckStatusPoll, CheckStatusHset,
      CheckStatusReturncode, StatusReply, LogsExists, LogsInActive,
      LogsGetPlaybook, GetLogs, LogsHget, CleanupDirectory, CleanupDelete,
      LogsPop, DeployNetcat, DeployReadKey, DeployCheckLock, DeployCancel,
      DeployHsetBuild, DeployRun, DeployRegister, ProcessExit,
      Restart

LEMMA DirectoryStep ==
  ASSUME IInv, [Next]_vars, NEW p \in Playbooks PROVE Directory(p)'
<1> USE DEF IInv, Consistent, Single, TypeOK, Directory, Locals
<1>0. ASSUME Only(p)', proc[p] # "none" PROVE Only(p)
  BY <1>0, OnlyKept
<1>1. CASE UNCHANGED <<owner, proc, dir>>
  BY <1>1 DEF Only
<1>2. ASSUME NEW t \in Threads, CleanupDirectory(t) PROVE Directory(p)'
  BY <1>2 DEF CleanupDirectory, Closing, ClosingSteps, Only, Exited
<1>3. ASSUME NEW t \in Threads, DeployConstruct(t) PROVE Directory(p)'
  BY <1>0, <1>3 DEF DeployConstruct, objects, ReserveSteps
<1>4. ASSUME NEW t \in Threads, DeployRun(t) PROVE Directory(p)'
  BY <1>0, <1>4 DEF DeployRun, BuildSteps
<1>5. ASSUME NEW q \in Playbooks, ProcessExit(q) PROVE Directory(p)'
  BY <1>0, <1>5 DEF ProcessExit, Exited
<1>6. CASE Restart
  BY <1>0, <1>6 DEF Restart
<1>7. QED
  BY <1>1, <1>2, <1>3, <1>4, <1>5, <1>6
  DEF Next, Request, Work, Step, StatusStep, LogStep, DeployStep, CallRaises,
      DeployCopyTemplate, vars, store, objects, locals, StartServer,
      BeginStatus, BeginLogs, BeginDeploy, SetVmWaitForPlaybook, StatusExists,
      StatusInActive, StatusGetPlaybook, CheckStatusPoll, CheckStatusHset,
      CheckStatusReturncode, StatusReply, LogsExists, LogsInActive,
      LogsGetPlaybook, GetLogs, LogsHget, CleanupDelete, LogsPop,
      DeployNetcat, DeployReadKey, DeployCheckLock, DeployCancel,
      DeployHsetBuild, DeployRegister

LEMMA FinalOwnedStep ==
  ASSUME IInv, [Next]_vars, NEW v \in VMs PROVE FinalOwned(v)'
<1> USE DEF IInv, Consistent, Single, TypeOK, FinalOwned, FinalStates, Locals
<1>1. CASE UNCHANGED <<redis, owner>>
  BY <1>1
<1>2. ASSUME NEW t \in Threads, SetVmWaitForPlaybook(t) PROVE FinalOwned(v)'
  BY <1>2 DEF SetVmWaitForPlaybook, objects
<1>3. ASSUME NEW t \in Threads, CheckStatusHset(t) PROVE FinalOwned(v)'
  BY <1>3 DEF CheckStatusHset, SetStatus, objects, PolledSteps, Hashes
<1>4. ASSUME NEW t \in Threads, CleanupDelete(t) PROVE FinalOwned(v)'
  BY <1>4 DEF CleanupDelete, objects, Absent
<1>5. ASSUME NEW t \in Threads, DeployConstruct(t) PROVE FinalOwned(v)'
  BY <1>5, ConstantsAssumption DEF DeployConstruct, store, objects, Object,
     ReserveSteps
<1>6. ASSUME NEW t \in Threads, DeployCancel(t) PROVE FinalOwned(v)'
  BY <1>6 DEF DeployCancel, SetStatus, objects, BuildSteps, Hashes
<1>7. ASSUME NEW t \in Threads, DeployHsetBuild(t) PROVE FinalOwned(v)'
  BY <1>7 DEF DeployHsetBuild, SetStatus, objects, Hashes
<1>8. QED
  BY <1>1, <1>2, <1>3, <1>4, <1>5, <1>6, <1>7
  DEF Next, Request, Work, Step, StatusStep, LogStep, DeployStep, CallRaises,
      DeployCopyTemplate, vars, store, objects, locals, StartServer,
      BeginStatus, BeginLogs, BeginDeploy, StatusExists, StatusInActive,
      StatusGetPlaybook, CheckStatusPoll, CheckStatusReturncode, StatusReply,
      LogsExists, LogsInActive, LogsGetPlaybook, GetLogs, LogsHget,
      CleanupDirectory, LogsPop, DeployNetcat, DeployReadKey, DeployCheckLock,
      DeployRun, DeployRegister, ProcessExit, Restart

LEMMA TrackedStep ==
  ASSUME IInv, [Next]_vars, NEW x \in Playbooks PROVE Tracked(x)'
<1>0. ASSUME Only(x)', proc[x] # "none" PROVE Only(x) /\ owner'[x] = owner[x]
  BY <1>0, OnlyKept DEF IInv
<1> USE <1>0 DEF IInv, Consistent, Single, TypeOK, Tracked, Locals, store, objects
<1>1. ASSUME NEW t \in Threads, Request(t) PROVE Tracked(x)'
  <2>1. CASE \E v \in VMs : StartServer(t, v)
    BY <2>1 DEF StartServer, Accept
  <2>2. CASE \E v \in VMs : BeginStatus(t, v) \/ BeginLogs(t, v)
    BY <2>2 DEF BeginStatus, BeginLogs, Accept
  <2>3. CASE \E v \in VMs, p \in Playbooks : BeginDeploy(t, v, p)
    BY <2>3 DEF BeginDeploy, Accept, Fresh
  <2>4. QED
    BY <1>1, <2>1, <2>2, <2>3 DEF Request
<1>2. ASSUME NEW t \in Threads, Work(t) PROVE Tracked(x)'
  <2>1. CASE SetVmWaitForPlaybook(t)
    BY <2>1 DEF SetVmWaitForPlaybook, Return
  <2>2. CASE StatusExists(t)
    BY <2>2 DEF StatusExists, Goto, Return
  <2>3. CASE StatusInActive(t)
    BY <2>3 DEF StatusInActive, Goto
  <2>4. CASE StatusGetPlaybook(t)
    BY <2>4 DEF StatusGetPlaybook, Goto, Return
  <2>5. CASE CheckStatusPoll(t)
    BY <2>5 DEF CheckStatusPoll, Goto
  <2>6. CASE CheckStatusHset(t)
    BY <2>6 DEF CheckStatusHset, Goto, Return
  <2>7. CASE CheckStatusReturncode(t)
    BY <2>7 DEF CheckStatusReturncode, Goto
  <2>8. CASE StatusReply(t)
    BY <2>8 DEF StatusReply, Return
  <2>9. CASE LogsExists(t)
    BY <2>9 DEF LogsExists, Goto, Return
  <2>10. CASE LogsInActive(t)
    BY <2>10 DEF LogsInActive, Goto, Return
  <2>11. CASE LogsGetPlaybook(t)
    BY <2>11 DEF LogsGetPlaybook, Goto, Return
  <2>12. CASE GetLogs(t)
    BY <2>12 DEF GetLogs, Goto
  <2>13. CASE LogsHget(t)
    BY <2>13 DEF LogsHget, Goto, Return
  <2>14. CASE CleanupDirectory(t)
    BY <2>14 DEF CleanupDirectory, Goto, Closing, ClosingSteps, Exited
  <2>15. CASE CleanupDelete(t)
    BY <2>15 DEF CleanupDelete, Goto, Return
  <2>16. CASE LogsPop(t)
    BY <2>16
    DEF LogsPop, Return, Closing, ClosingSteps, ReadSteps, Registered, Only, Exited
  <2>17. CASE DeployNetcat(t)
    BY <2>17 DEF DeployNetcat, Goto, Return
  <2>18. CASE DeployReadKey(t)
    BY <2>18 DEF DeployReadKey, Goto, Return
  <2>19. CASE DeployConstruct(t)
    BY <2>19 DEF DeployConstruct, Goto, Return, ReserveSteps
  <2>20. CASE \E locked \in BOOLEAN : DeployCheckLock(t, locked)
    BY <2>20 DEF DeployCheckLock, Goto
  <2>21. CASE DeployCancel(t)
    BY <2>21 DEF DeployCancel, Return
  <2>22. CASE DeployHsetBuild(t)
    BY <2>22 DEF DeployHsetBuild, Goto, Return
  <2>23. CASE DeployRun(t)
    BY <2>23 DEF DeployRun, Goto, Return, BuildSteps
  <2>24. CASE DeployRegister(t)
    BY <2>24 DEF DeployRegister, Return, Only, BuildSteps
  <2>25. CASE DeployCopyTemplate(t)
    BY <2>25 DEF DeployCopyTemplate, Goto
  <2>26. CASE CallRaises(t)
    BY <2>26 DEF CallRaises, FallibleSteps, Return
  <2>27. QED
    BY <1>2, <2>1, <2>2, <2>3, <2>4, <2>5, <2>6, <2>7, <2>8, <2>9, <2>10,
       <2>11, <2>12, <2>13, <2>14, <2>15, <2>16, <2>17, <2>18, <2>19,
       <2>20, <2>21, <2>22, <2>23, <2>24, <2>25, <2>26
    DEF Work, Step, StatusStep, LogStep, DeployStep
<1>3. ASSUME NEW p \in Playbooks, ProcessExit(p) PROVE Tracked(x)'
  BY <1>3 DEF ProcessExit, locals, Exited
<1>4. CASE UNCHANGED vars
  BY <1>4 DEF locals, vars
<1>5. CASE Restart
  BY <1>5 DEF Restart, Directory, DirExists, Referenced, Object, Only
<1>6. QED
  BY <1>1, <1>2, <1>3, <1>4, <1>5 DEF Next

LEMMA VerdictStep ==
  ASSUME IInv, [Next]_vars, NEW x \in Playbooks PROVE Verdict(x)'
<1>0. ASSUME Only(x)', proc[x] # "none" PROVE Only(x) /\ owner'[x] = owner[x]
  BY <1>0, OnlyKept DEF IInv
<1>a. proc[x] = "none" => owner[x] \notin VMs
  BY ConstantsAssumption DEF IInv, Consistent, Object
<1> USE ConstantsAssumption, <1>0, <1>a
    DEF IInv, Consistent, Single, TypeOK, Verdict, Locals, store, objects
<1>1. ASSUME NEW t \in Threads, Request(t) PROVE Verdict(x)'
  <2>1. CASE \E v \in VMs : StartServer(t, v)
    BY <2>1 DEF StartServer, Accept
  <2>2. CASE \E v \in VMs : BeginStatus(t, v) \/ BeginLogs(t, v)
    BY <2>2 DEF BeginStatus, BeginLogs, Accept
  <2>3. CASE \E v \in VMs, p \in Playbooks : BeginDeploy(t, v, p)
    BY <2>3 DEF BeginDeploy, Accept, Fresh
  <2>4. QED
    BY <1>1, <2>1, <2>2, <2>3 DEF Request
<1>2. ASSUME NEW t \in Threads, Work(t) PROVE Verdict(x)'
  <2>1. CASE SetVmWaitForPlaybook(t)
    BY <2>1 DEF SetVmWaitForPlaybook, Return
  <2>2. CASE StatusExists(t)
    BY <2>2 DEF StatusExists, Goto, Return
  <2>3. CASE StatusInActive(t)
    BY <2>3 DEF StatusInActive, Goto
  <2>4. CASE StatusGetPlaybook(t)
    BY <2>4 DEF StatusGetPlaybook, Goto, Return, Registered, Started
  <2>5. CASE CheckStatusPoll(t)
    BY <2>5 DEF CheckStatusPoll, Goto
  <2>6. CASE CheckStatusHset(t)
    BY <2>6
    DEF CheckStatusHset, Goto, Return, SetStatus, PolledSteps, Only, ExitCode, Exited,
        Hashes
  <2>7. CASE CheckStatusReturncode(t)
    BY <2>7 DEF CheckStatusReturncode, Goto
  <2>8. CASE StatusReply(t)
    BY <2>8 DEF StatusReply, Return
  <2>9. CASE LogsExists(t)
    BY <2>9 DEF LogsExists, Goto, Return
  <2>10. CASE LogsInActive(t)
    BY <2>10 DEF LogsInActive, Goto, Return
  <2>11. CASE LogsGetPlaybook(t)
    BY <2>11 DEF LogsGetPlaybook, Goto, Return, Registered, Started
  <2>12. CASE GetLogs(t)
    BY <2>12 DEF GetLogs, Goto
  <2>13. CASE LogsHget(t)
    BY <2>13 DEF LogsHget, Goto, Return
  <2>14. CASE CleanupDirectory(t)
    BY <2>14 DEF CleanupDirectory, Goto
  <2>15. CASE CleanupDelete(t)
    BY <2>15 DEF CleanupDelete, Goto, Return, Absent
  <2>16. CASE LogsPop(t)
    BY <2>16 DEF LogsPop, Return
  <2>17. CASE DeployNetcat(t)
    BY <2>17 DEF DeployNetcat, Goto, Return
  <2>18. CASE DeployReadKey(t)
    BY <2>18 DEF DeployReadKey, Goto, Return
  <2>19. CASE DeployConstruct(t)
    BY <2>19
    DEF DeployConstruct, Goto, Return, ReserveSteps, FinalOwned, FinalStates, Only,
        Object
  <2>20. CASE \E locked \in BOOLEAN : DeployCheckLock(t, locked)
    BY <2>20 DEF DeployCheckLock, Goto
  <2>21. CASE DeployCancel(t)
    BY <2>21
    DEF DeployCancel, Return, SetStatus, BuildSteps, Only, Exclusive, DeploySteps,
        Hashes
  <2>22. CASE DeployHsetBuild(t)
    BY <2>22 DEF DeployHsetBuild, Goto, Return, SetStatus, Hashes
  <2>23. CASE DeployRun(t)
    BY <2>23 DEF DeployRun, Goto, Return, BuildSteps
  <2>24. CASE DeployRegister(t)
    BY <2>24 DEF DeployRegister, Return
  <2>25. CASE DeployCopyTemplate(t)
    BY <2>25 DEF DeployCopyTemplate, Goto
  <2>26. CASE CallRaises(t)
    BY <2>26 DEF CallRaises, FallibleSteps, Return
  <2>27. QED
    BY <1>2, <2>1, <2>2, <2>3, <2>4, <2>5, <2>6, <2>7, <2>8, <2>9, <2>10,
       <2>11, <2>12, <2>13, <2>14, <2>15, <2>16, <2>17, <2>18, <2>19,
       <2>20, <2>21, <2>22, <2>23, <2>24, <2>25, <2>26
    DEF Work, Step, StatusStep, LogStep, DeployStep
<1>3. ASSUME NEW p \in Playbooks, ProcessExit(p) PROVE Verdict(x)'
  BY <1>3 DEF ProcessExit, locals, Exited
<1>4. CASE UNCHANGED vars
  BY <1>4 DEF locals, vars
<1>5. CASE Restart
  BY <1>5 DEF Restart
<1>6. QED
  BY <1>1, <1>2, <1>3, <1>4, <1>5 DEF Next

LEMMA ClosingStep ==
  ASSUME IInv, [Next]_vars, NEW s \in Threads PROVE Closing(s)'
<1>0. ASSUME NEW p \in Playbooks, Only(p)', proc[p] # "none" PROVE Only(p)
  BY <1>0, OnlyKept DEF IInv
<1> USE <1>0
    DEF IInv, Consistent, Single, TypeOK, Closing, ClosingSteps, Locals,
        ReadSteps, Started, Exited, store, objects
<1>1. ASSUME NEW t \in Threads, Request(t) PROVE Closing(s)'
  <2>1. CASE \E v \in VMs : StartServer(t, v)
    BY <2>1 DEF StartServer, Accept
  <2>2. CASE \E v \in VMs : BeginStatus(t, v) \/ BeginLogs(t, v)
    BY <2>2 DEF BeginStatus, BeginLogs, Accept
  <2>3. CASE \E v \in VMs, p \in Playbooks : BeginDeploy(t, v, p)
    BY <2>3 DEF BeginDeploy, Accept, Fresh
  <2>4. QED
    BY <1>1, <2>1, <2>2, <2>3 DEF Request
<1>2. ASSUME NEW t \in Threads, Work(t) PROVE Closing(s)'
  <2>1. CASE SetVmWaitForPlaybook(t)
    BY <2>1 DEF SetVmWaitForPlaybook, Return
  <2>2. CASE StatusExists(t)
    BY <2>2 DEF StatusExists, Goto, Return
  <2>3. CASE StatusInActive(t)
    BY <2>3 DEF StatusInActive, Goto
  <2>4. CASE StatusGetPlaybook(t)
    BY <2>4 DEF StatusGetPlaybook, Goto, Return
  <2>5. CASE CheckStatusPoll(t)
    BY <2>5 DEF CheckStatusPoll, Goto
  <2>6. CASE CheckStatusHset(t)
    BY <2>6 DEF CheckStatusHset, Goto, Return
  <2>7. CASE CheckStatusReturncode(t)
    BY <2>7 DEF CheckStatusReturncode, Goto
  <2>8. CASE StatusReply(t)
    BY <2>8 DEF StatusReply, Return
  <2>9. CASE LogsExists(t)
    BY <2>9 DEF LogsExists, Goto, Return
  <2>10. CASE LogsInActive(t)
    BY <2>10 DEF LogsInActive, Goto, Return
  <2>11. CASE LogsGetPlaybook(t)
    BY <2>11 DEF LogsGetPlaybook, Goto, Return
  <2>12. CASE GetLogs(t)
    BY <2>12 DEF GetLogs, Goto
  <2>13. CASE LogsHget(t)
    BY <2>13 DEF LogsHget, Goto, Return, Verdict, FinalStates
  <2>14. CASE CleanupDirectory(t)
    BY <2>14 DEF CleanupDirectory, Goto
  <2>15. CASE CleanupDelete(t)
    BY <2>15 DEF CleanupDelete, Goto, Return
  <2>16. CASE LogsPop(t)
    BY <2>16 DEF LogsPop, Return
  <2>17. CASE DeployNetcat(t)
    BY <2>17 DEF DeployNetcat, Goto, Return
  <2>18. CASE DeployReadKey(t)
    BY <2>18 DEF DeployReadKey, Goto, Return
  <2>19. CASE DeployConstruct(t)
    BY <2>19 DEF DeployConstruct, Goto, Return, ReserveSteps
  <2>20. CASE \E locked \in BOOLEAN : DeployCheckLock(t, locked)
    BY <2>20 DEF DeployCheckLock, Goto
  <2>21. CASE DeployCancel(t)
    BY <2>21 DEF DeployCancel, Return
  <2>22. CASE DeployHsetBuild(t)
    BY <2>22 DEF DeployHsetBuild, Goto, Return
  <2>23. CASE DeployRun(t)
    BY <2>23 DEF DeployRun, Goto, Return, BuildSteps
  <2>24. CASE DeployRegister(t)
    BY <2>24 DEF DeployRegister, Return
  <2>25. CASE DeployCopyTemplate(t)
    BY <2>25 DEF DeployCopyTemplate, Goto
  <2>26. CASE CallRaises(t)
    BY <2>26 DEF CallRaises, FallibleSteps, Return
  <2>27. QED
    BY <1>2, <2>1, <2>2, <2>3, <2>4, <2>5, <2>6, <2>7, <2>8, <2>9, <2>10,
       <2>11, <2>12, <2>13, <2>14, <2>15, <2>16, <2>17, <2>18, <2>19,
       <2>20, <2>21, <2>22, <2>23, <2>24, <2>25, <2>26
    DEF Work, Step, StatusStep, LogStep, DeployStep
<1>3. ASSUME NEW p \in Playbooks, ProcessExit(p) PROVE Closing(s)'
  BY <1>3 DEF ProcessExit, locals
<1>4. CASE UNCHANGED vars
  BY <1>4 DEF locals, vars
<1>5. CASE Restart
  BY <1>5 DEF Restart
<1>6. QED
  BY <1>1, <1>2, <1>3, <1>4, <1>5 DEF Next

LEMMA RecordedStep ==
  ASSUME IInv, [Next]_vars, NEW s \in Threads PROVE Recorded(s)'
<1>0. ASSUME NEW p \in Playbooks, Only(p)', proc[p] # "none" PROVE Only(p)
  BY <1>0, OnlyKept DEF IInv
<1> USE <1>0
    DEF IInv, Consistent, Single, TypeOK, Recorded, Exists, Absent,
        Locals, BuildSteps, Started, store, objects
<1>1. ASSUME NEW t \in Threads, Request(t) PROVE Recorded(s)'
  <2>1. CASE \E v \in VMs : StartServer(t, v)
    BY <2>1 DEF StartServer, Accept
  <2>2. CASE \E v \in VMs : BeginStatus(t, v) \/ BeginLogs(t, v)
    BY <2>2 DEF BeginStatus, BeginLogs, Accept
  <2>3. CASE \E v \in VMs, p \in Playbooks : BeginDeploy(t, v, p)
    BY <2>3 DEF BeginDeploy, Accept, Fresh
  <2>4. QED
    BY <1>1, <2>1, <2>2, <2>3 DEF Request
<1>2. ASSUME NEW t \in Threads, Work(t) PROVE Recorded(s)'
  <2>1. CASE SetVmWaitForPlaybook(t)
    BY <2>1 DEF SetVmWaitForPlaybook, Return, Waiting, Unknown
  <2>2. CASE StatusExists(t)
    BY <2>2 DEF StatusExists, Goto, Return
  <2>3. CASE StatusInActive(t)
    BY <2>3 DEF StatusInActive, Goto
  <2>4. CASE StatusGetPlaybook(t)
    BY <2>4 DEF StatusGetPlaybook, Goto, Return
  <2>5. CASE CheckStatusPoll(t)
    BY <2>5 DEF CheckStatusPoll, Goto
  <2>6. CASE CheckStatusHset(t)
    BY <2>6
    DEF CheckStatusHset, Goto, Return, SetStatus, PolledSteps, Exclusive, DeploySteps, Only
  <2>7. CASE CheckStatusReturncode(t)
    BY <2>7 DEF CheckStatusReturncode, Goto
  <2>8. CASE StatusReply(t)
    BY <2>8 DEF StatusReply, Return
  <2>9. CASE LogsExists(t)
    BY <2>9 DEF LogsExists, Goto, Return
  <2>10. CASE LogsInActive(t)
    BY <2>10 DEF LogsInActive, Goto, Return
  <2>11. CASE LogsGetPlaybook(t)
    BY <2>11 DEF LogsGetPlaybook, Goto, Return
  <2>12. CASE GetLogs(t)
    BY <2>12 DEF GetLogs, Goto
  <2>13. CASE LogsHget(t)
    BY <2>13 DEF LogsHget, Goto, Return
  <2>14. CASE CleanupDirectory(t)
    BY <2>14 DEF CleanupDirectory, Goto
  <2>15. CASE CleanupDelete(t)
    BY <2>15 DEF CleanupDelete, Goto, Return, ReadSteps, Exclusive, DeploySteps, Only
  <2>16. CASE LogsPop(t)
    BY <2>16 DEF LogsPop, Return
  <2>17. CASE DeployNetcat(t)
    BY <2>17 DEF DeployNetcat, Goto, Return
  <2>18. CASE DeployReadKey(t)
    BY <2>18 DEF DeployReadKey, Goto, Return
  <2>19. CASE DeployConstruct(t)
    BY <2>19 DEF DeployConstruct, Goto, Return, ReserveSteps
  <2>20. CASE \E locked \in BOOLEAN : DeployCheckLock(t, locked)
    BY <2>20 DEF DeployCheckLock, Goto
  <2>21. CASE DeployCancel(t)
    BY <2>21 DEF DeployCancel, Return, SetStatus, Exclusive, DeploySteps, Only
  <2>22. CASE DeployHsetBuild(t)
    BY <2>22 DEF DeployHsetBuild, Goto, Return, SetStatus
  <2>23. CASE DeployRun(t)
    BY <2>23 DEF DeployRun, Goto, Return
  <2>24. CASE DeployRegister(t)
    BY <2>24 DEF DeployRegister, Return
  <2>25. CASE DeployCopyTemplate(t)
    BY <2>25 DEF DeployCopyTemplate, Goto
  <2>26. CASE CallRaises(t)
    BY <2>26 DEF CallRaises, FallibleSteps, Return
  <2>27. QED
    BY <1>2, <2>1, <2>2, <2>3, <2>4, <2>5, <2>6, <2>7, <2>8, <2>9, <2>10,
       <2>11, <2>12, <2>13, <2>14, <2>15, <2>16, <2>17, <2>18, <2>19,
       <2>20, <2>21, <2>22, <2>23, <2>24, <2>25, <2>26
    DEF Work, Step, StatusStep, LogStep, DeployStep
<1>3. ASSUME NEW p \in Playbooks, ProcessExit(p) PROVE Recorded(s)'
  BY <1>3 DEF ProcessExit, locals
<1>4. CASE UNCHANGED vars
  BY <1>4 DEF locals, vars
<1>5. CASE Restart
  BY <1>5 DEF Restart
<1>6. QED
  BY <1>1, <1>2, <1>3, <1>4, <1>5 DEF Next

LEMMA RegisteredRecordedStep ==
  ASSUME IInv, [Next]_vars, NEW v \in VMs PROVE RegisteredRecorded(v)'
<1>0. ASSUME NEW p \in Playbooks, Only(p)', proc[p] # "none" PROVE Only(p)
  BY <1>0, OnlyKept DEF IInv
<1> USE <1>0
    DEF IInv, Consistent, Single, TypeOK, RegisteredRecorded, Registered,
        Exists, Absent, Locals, Started, store, objects
<1>1. ASSUME NEW t \in Threads, Request(t) PROVE RegisteredRecorded(v)'
  <2>1. CASE \E w \in VMs : StartServer(t, w)
    BY <2>1 DEF StartServer, Accept
  <2>2. CASE \E w \in VMs : BeginStatus(t, w) \/ BeginLogs(t, w)
    BY <2>2 DEF BeginStatus, BeginLogs, Accept
  <2>3. CASE \E w \in VMs, p \in Playbooks : BeginDeploy(t, w, p)
    BY <2>3 DEF BeginDeploy, Accept, Fresh
  <2>4. QED
    BY <1>1, <2>1, <2>2, <2>3 DEF Request
<1>2. ASSUME NEW t \in Threads, Work(t) PROVE RegisteredRecorded(v)'
  <2>1. CASE SetVmWaitForPlaybook(t)
    BY <2>1 DEF SetVmWaitForPlaybook, Return
  <2>2. CASE StatusExists(t)
    BY <2>2 DEF StatusExists, Goto, Return
  <2>3. CASE StatusInActive(t)
    BY <2>3 DEF StatusInActive, Goto
  <2>4. CASE StatusGetPlaybook(t)
    BY <2>4 DEF StatusGetPlaybook, Goto, Return
  <2>5. CASE CheckStatusPoll(t)
    BY <2>5 DEF CheckStatusPoll, Goto
  <2>6. CASE CheckStatusHset(t)
    BY <2>6 DEF CheckStatusHset, Goto, Return, SetStatus
  <2>7. CASE CheckStatusReturncode(t)
    BY <2>7 DEF CheckStatusReturncode, Goto
  <2>8. CASE StatusReply(t)
    BY <2>8 DEF StatusReply, Return
  <2>9. CASE LogsExists(t)
    BY <2>9 DEF LogsExists, Goto, Return
  <2>10. CASE LogsInActive(t)
    BY <2>10 DEF LogsInActive, Goto, Return
  <2>11. CASE LogsGetPlaybook(t)
    BY <2>11 DEF LogsGetPlaybook, Goto, Return
  <2>12. CASE GetLogs(t)
    BY <2>12 DEF GetLogs, Goto
  <2>13. CASE LogsHget(t)
    BY <2>13 DEF LogsHget, Goto, Return
  <2>14. CASE CleanupDirectory(t)
    BY <2>14 DEF CleanupDirectory, Goto
  <2>15. CASE CleanupDelete(t)
    <3>1. /\ active' = active /\ proc' = proc /\ dir' = dir
          /\ \/ pc' = [pc EXCEPT ![t] = "lg_pop"] /\ vm' = vm
                /\ unanswered' = unanswered
             \/ unanswered' = unanswered \cup {vm[t]}
      BY <2>15 DEF CleanupDelete, Goto
    <3>2. CASE v = vm[t] /\ active[v] # NoPlaybook /\ Only(active[v])'
      <4>1. active[v] = pb[t] /\ proc[pb[t]] \in Exited /\ dir[pb[t]] = "removed"
        BY <2>15, <3>2 DEF CleanupDelete, Closing, ClosingSteps, ReadSteps, Only
      <4>2. v \in unanswered' \/ (pc'[t] = "lg_pop" /\ vm'[t] = v)
        BY <3>1, <3>2
      <4> QED
        BY <3>1, <4>1, <4>2
    <3>3. CASE v # vm[t]
      BY <2>15, <3>3 DEF CleanupDelete, Goto, Return
    <3> QED
      BY <3>1, <3>2, <3>3
  <2>16. CASE LogsPop(t)
    BY <2>16 DEF LogsPop, Return
  <2>17. CASE DeployNetcat(t)
    BY <2>17 DEF DeployNetcat, Goto, Return
  <2>18. CASE DeployReadKey(t)
    BY <2>18 DEF DeployReadKey, Goto, Return
  <2>19. CASE DeployConstruct(t)
    BY <2>19 DEF DeployConstruct, Goto, Return, Exclusive, DeploySteps
  <2>20. CASE \E locked \in BOOLEAN : DeployCheckLock(t, locked)
    BY <2>20 DEF DeployCheckLock, Goto
  <2>21. CASE DeployCancel(t)
    BY <2>21 DEF DeployCancel, Return, SetStatus
  <2>22. CASE DeployHsetBuild(t)
    BY <2>22 DEF DeployHsetBuild, Goto, Return, SetStatus
  <2>23. CASE DeployRun(t)
    BY <2>23 DEF DeployRun, Goto, Return, Exclusive, DeploySteps
  <2>24. CASE DeployRegister(t)
    <3>1. CASE v = vm[t]
      <4>1. ASSUME NEW p \in Playbooks, p = pb[t], Only(p)' PROVE Exists(v)
        BY <1>0, <2>24, <3>1, <4>1 DEF DeployRegister, Recorded
      <4>2. QED
        BY <2>24, <3>1, <4>1 DEF DeployRegister, Return
    <3>2. CASE v # vm[t]
      BY <2>24, <3>2 DEF DeployRegister, Return
    <3>3. QED
      BY <3>1, <3>2
  <2>25. CASE DeployCopyTemplate(t)
    BY <2>25 DEF DeployCopyTemplate, Goto
  <2>26. CASE CallRaises(t)
    BY <2>26 DEF CallRaises, FallibleSteps, Return
  <2>27. QED
    BY <1>2, <2>1, <2>2, <2>3, <2>4, <2>5, <2>6, <2>7, <2>8, <2>9, <2>10,
       <2>11, <2>12, <2>13, <2>14, <2>15, <2>16, <2>17, <2>18, <2>19,
       <2>20, <2>21, <2>22, <2>23, <2>24, <2>25, <2>26
    DEF Work, Step, StatusStep, LogStep, DeployStep
<1>3. ASSUME NEW p \in Playbooks, ProcessExit(p) PROVE RegisteredRecorded(v)'
  BY <1>3 DEF ProcessExit, locals
<1>4. CASE UNCHANGED vars
  BY <1>4 DEF locals, vars
<1>5. CASE Restart
  BY <1>5 DEF Restart
<1>6. QED
  BY <1>1, <1>2, <1>3, <1>4, <1>5 DEF Next

LEMMA CodeFollowsStep ==
  ASSUME IInv, [Next]_vars, NEW v \in VMs PROVE CodeFollows(v)'
<1>0. ASSUME NEW p \in Playbooks, Only(p)', proc[p] # "none" PROVE Only(p)
  BY <1>0, OnlyKept DEF IInv
<1> USE <1>0
    DEF IInv, Consistent, Single, TypeOK, CodeFollows, Registered, Absent,
        Locals, Started, FinalStates, store, objects
<1>1. ASSUME NEW t \in Threads, Request(t) PROVE CodeFollows(v)'
  <2>1. CASE \E w \in VMs : StartServer(t, w)
    BY <2>1 DEF StartServer, Accept
  <2>2. CASE \E w \in VMs : BeginStatus(t, w) \/ BeginLogs(t, w)
    BY <2>2 DEF BeginStatus, BeginLogs, Accept
  <2>3. CASE \E w \in VMs, p \in Playbooks : BeginDeploy(t, w, p)
    BY <2>3 DEF BeginDeploy, Accept, Fresh
  <2>4. QED
    BY <1>1, <2>1, <2>2, <2>3 DEF Request
<1>2. ASSUME NEW t \in Threads, Work(t) PROVE CodeFollows(v)'
  <2>1. CASE SetVmWaitForPlaybook(t)
    BY <2>1 DEF SetVmWaitForPlaybook, Return
  <2>2. CASE StatusExists(t)
    BY <2>2 DEF StatusExists, Goto, Return
  <2>3. CASE StatusInActive(t)
    BY <2>3 DEF StatusInActive, Goto
  <2>4. CASE StatusGetPlaybook(t)
    BY <2>4 DEF StatusGetPlaybook, Goto, Return
  <2>5. CASE CheckStatusPoll(t)
    BY <2>5 DEF CheckStatusPoll, Goto
  <2>6. CASE CheckStatusHset(t)
    BY <2>6 DEF CheckStatusHset, Goto, Return, SetStatus
  <2>7. CASE CheckStatusReturncode(t)
    <3>1. CASE v = vm[t] /\ active[v] # NoPlaybook /\ Only(active[v])'
      <4>1. active[v] = pb[t]
        BY <2>7, <3>1 DEF CheckStatusReturncode, Registered, PolledSteps, Only
      <4>2. returncode'[pb[t]] = ExitCode(proc[pb[t]])
        BY <2>7 DEF CheckStatusReturncode, PolledSteps
      <4>3. QED
        BY <2>7, <4>1, <4>2 DEF CheckStatusReturncode
    <3>2. CASE v # vm[t]
      <4>1. active[v] # NoPlaybook => active[v] # pb[t]
        BY <2>7, <3>2 DEF CheckStatusReturncode, Registered, PolledSteps
      <4>2. QED
        BY <2>7, <3>2, <4>1 DEF CheckStatusReturncode, Goto, Only
    <3>3. QED
      BY <2>7, <3>1, <3>2 DEF CheckStatusReturncode
  <2>8. CASE StatusReply(t)
    BY <2>8 DEF StatusReply, Return
  <2>9. CASE LogsExists(t)
    BY <2>9 DEF LogsExists, Goto, Return
  <2>10. CASE LogsInActive(t)
    BY <2>10 DEF LogsInActive, Goto, Return
  <2>11. CASE LogsGetPlaybook(t)
    BY <2>11 DEF LogsGetPlaybook, Goto, Return
  <2>12. CASE GetLogs(t)
    BY <2>12 DEF GetLogs, Goto
  <2>13. CASE LogsHget(t)
    BY <2>13 DEF LogsHget, Goto, Return
  <2>14. CASE CleanupDirectory(t)
    BY <2>14 DEF CleanupDirectory, Goto
  <2>15. CASE CleanupDelete(t)
    BY <2>15 DEF CleanupDelete, Goto, Return
  <2>16. CASE LogsPop(t)
    BY <2>16 DEF LogsPop, Return
  <2>17. CASE DeployNetcat(t)
    BY <2>17 DEF DeployNetcat, Goto, Return
  <2>18. CASE DeployReadKey(t)
    BY <2>18 DEF DeployReadKey, Goto, Return
  <2>19. CASE DeployConstruct(t)
    BY <2>19 DEF DeployConstruct, Goto, Return, Exclusive, DeploySteps
  <2>20. CASE \E locked \in BOOLEAN : DeployCheckLock(t, locked)
    BY <2>20 DEF DeployCheckLock, Goto
  <2>21. CASE DeployCancel(t)
    <3>1. CASE v = vm[t]
      <4>1. pb[t] \in Playbooks /\ owner[pb[t]] = v /\ active[v] # pb[t]
        BY <2>21, <3>1 DEF DeployCancel, BuildSteps, Exclusive, DeploySteps
      <4>2. active[v] # NoPlaybook => ~Only(active[v])
        BY <4>1 DEF Registered, Only
      <4>3. QED
        BY <2>21, <4>2 DEF DeployCancel, Only
    <3>2. CASE v # vm[t]
      BY <2>21, <3>2 DEF DeployCancel, Return, SetStatus, Only
    <3>3. QED
      BY <3>1, <3>2
  <2>22. CASE DeployHsetBuild(t)
    BY <2>22 DEF DeployHsetBuild, Goto, Return, SetStatus
  <2>23. CASE DeployRun(t)
    BY <2>23 DEF DeployRun, Goto, Return, Exclusive, DeploySteps
  <2>24. CASE DeployRegister(t)
    <3>1. CASE v = vm[t]
      <4>1. Only(pb[t]) => redis[v].status = "building"
        BY <2>24, <3>1 DEF DeployRegister, Recorded
      <4>2. QED
        BY <2>24, <3>1, <4>1 DEF DeployRegister, Only
    <3>2. CASE v # vm[t]
      BY <2>24, <3>2 DEF DeployRegister, Return
    <3>3. QED
      BY <3>1, <3>2
  <2>25. CASE DeployCopyTemplate(t)
    BY <2>25 DEF DeployCopyTemplate, Goto
  <2>26. CASE CallRaises(t)
    BY <2>26 DEF CallRaises, FallibleSteps, Return
  <2>27. QED
    BY <1>2, <2>1, <2>2, <2>3, <2>4, <2>5, <2>6, <2>7, <2>8, <2>9, <2>10,
       <2>11, <2>12, <2>13, <2>14, <2>15, <2>16, <2>17, <2>18, <2>19,
       <2>20, <2>21, <2>22, <2>23, <2>24, <2>25, <2>26
    DEF Work, Step, StatusStep, LogStep, DeployStep
<1>3. ASSUME NEW p \in Playbooks, ProcessExit(p) PROVE CodeFollows(v)'
  BY <1>3 DEF ProcessExit, locals, Object, Exited, ExitCode, NotRun
<1>4. CASE UNCHANGED vars
  BY <1>4 DEF locals, vars
<1>5. CASE Restart
  BY <1>5 DEF Restart
<1>6. QED
  BY <1>1, <1>2, <1>3, <1>4, <1>5 DEF Next

LEMMA NotStartedStep ==
  ASSUME IInv, [Next]_vars, NEW v \in VMs PROVE NotStarted(v)'
<1> USE ConstantsAssumption
    DEF IInv, Consistent, Single, TypeOK, NotStarted, Unknown, Locals,
        store, objects
<1>1. ASSUME NEW t \in Threads, Request(t) PROVE NotStarted(v)'
  <2>1. CASE \E w \in VMs : StartServer(t, w)
    BY <2>1 DEF StartServer, Accept
  <2>2. CASE \E w \in VMs : BeginStatus(t, w) \/ BeginLogs(t, w)
    BY <2>2 DEF BeginStatus, BeginLogs, Accept
  <2>3. CASE \E w \in VMs, p \in Playbooks : BeginDeploy(t, w, p)
    BY <2>3 DEF BeginDeploy, Accept, Fresh
  <2>4. QED
    BY <1>1, <2>1, <2>2, <2>3 DEF Request
<1>2. ASSUME NEW t \in Threads, Work(t) PROVE NotStarted(v)'
  <2>1. CASE SetVmWaitForPlaybook(t)
    BY <2>1 DEF SetVmWaitForPlaybook, Return
  <2>2. CASE StatusExists(t)
    BY <2>2 DEF StatusExists, Goto, Return
  <2>3. CASE StatusInActive(t)
    BY <2>3 DEF StatusInActive, Goto
  <2>4. CASE StatusGetPlaybook(t)
    BY <2>4 DEF StatusGetPlaybook, Goto, Return
  <2>5. CASE CheckStatusPoll(t)
    BY <2>5 DEF CheckStatusPoll, Goto
  <2>6. CASE CheckStatusHset(t)
    BY <2>6 DEF CheckStatusHset, Goto, Return, SetStatus
  <2>7. CASE CheckStatusReturncode(t)
    BY <2>7 DEF CheckStatusReturncode, Goto
  <2>8. CASE StatusReply(t)
    BY <2>8 DEF StatusReply, Return
  <2>9. CASE LogsExists(t)
    BY <2>9 DEF LogsExists, Goto, Return
  <2>10. CASE LogsInActive(t)
    BY <2>10 DEF LogsInActive, Goto, Return
  <2>11. CASE LogsGetPlaybook(t)
    BY <2>11 DEF LogsGetPlaybook, Goto, Return
  <2>12. CASE GetLogs(t)
    BY <2>12 DEF GetLogs, Goto
  <2>13. CASE LogsHget(t)
    BY <2>13 DEF LogsHget, Goto, Return
  <2>14. CASE CleanupDirectory(t)
    BY <2>14 DEF CleanupDirectory, Goto
  <2>15. CASE CleanupDelete(t)
    BY <2>15 DEF CleanupDelete, Goto, Return
  <2>16. CASE LogsPop(t)
    BY <2>16 DEF LogsPop, Return
  <2>17. CASE DeployNetcat(t)
    BY <2>17 DEF DeployNetcat, Goto, Return
  <2>18. CASE DeployReadKey(t)
    BY <2>18 DEF DeployReadKey, Goto, Return
  <2>19. CASE DeployConstruct(t)
    BY <2>19 DEF DeployConstruct, Goto, Return
  <2>20. CASE \E locked \in BOOLEAN : DeployCheckLock(t, locked)
    BY <2>20 DEF DeployCheckLock, Goto
  <2>21. CASE DeployCancel(t)
    BY <2>21 DEF DeployCancel, Return, SetStatus
  <2>22. CASE DeployHsetBuild(t)
    BY <2>22 DEF DeployHsetBuild, Goto, Return, SetStatus
  <2>23. CASE DeployRun(t)
    BY <2>23 DEF DeployRun, Goto, Return
  <2>24. CASE DeployRegister(t)
    BY <2>24 DEF DeployRegister, Return
  <2>25. CASE DeployCopyTemplate(t)
    BY <2>25 DEF DeployCopyTemplate, Goto
  <2>26. CASE CallRaises(t)
    BY <2>26 DEF CallRaises, FallibleSteps, Return
  <2>27. QED
    BY <1>2, <2>1, <2>2, <2>3, <2>4, <2>5, <2>6, <2>7, <2>8, <2>9, <2>10,
       <2>11, <2>12, <2>13, <2>14, <2>15, <2>16, <2>17, <2>18, <2>19,
       <2>20, <2>21, <2>22, <2>23, <2>24, <2>25, <2>26
    DEF Work, Step, StatusStep, LogStep, DeployStep
<1>3. ASSUME NEW p \in Playbooks, ProcessExit(p) PROVE NotStarted(v)'
  BY <1>3 DEF ProcessExit, locals
<1>4. CASE UNCHANGED vars
  BY <1>4 DEF locals, vars
<1>5. CASE Restart
  BY <1>5 DEF Restart
<1>6. QED
  BY <1>1, <1>2, <1>3, <1>4, <1>5 DEF Next

LEMMA WaitingStep ==
  ASSUME IInv, [Next]_vars, NEW s \in Threads PROVE Waiting(s)'
<1> USE ConstantsAssumption
    DEF IInv, Consistent, Single, TypeOK, Waiting, NotStarted, Unknown,
        Absent, Locals, PolledSteps, BuildSteps, ReadSteps, store, objects
<1>1. ASSUME NEW t \in Threads, Request(t) PROVE Waiting(s)'
  <2>1. CASE \E v \in VMs : StartServer(t, v)
    <3> PICK v \in VMs : StartServer(t, v)
      BY <2>1
    <3>1. CASE s = t
      BY <3>1 DEF StartServer, Accept
    <3>2. CASE s # t
      BY <3>2 DEF StartServer, Accept
    <3>3. QED
      BY <3>1, <3>2
  <2>2. CASE \E v \in VMs : BeginStatus(t, v) \/ BeginLogs(t, v)
    BY <2>2 DEF BeginStatus, BeginLogs, Accept
  <2>3. CASE \E v \in VMs, p \in Playbooks : BeginDeploy(t, v, p)
    BY <2>3 DEF BeginDeploy, Accept, Fresh
  <2>4. QED
    BY <1>1, <2>1, <2>2, <2>3 DEF Request
<1>2. ASSUME NEW t \in Threads, Work(t) PROVE Waiting(s)'
  <2>1. CASE SetVmWaitForPlaybook(t)
    BY <2>1 DEF SetVmWaitForPlaybook, Return
  <2>2. CASE StatusExists(t)
    BY <2>2 DEF StatusExists, Goto, Return
  <2>3. CASE StatusInActive(t)
    BY <2>3 DEF StatusInActive, Goto
  <2>4. CASE StatusGetPlaybook(t)
    BY <2>4 DEF StatusGetPlaybook, Goto, Return
  <2>5. CASE CheckStatusPoll(t)
    BY <2>5 DEF CheckStatusPoll, Goto
  <2>6. CASE CheckStatusHset(t)
    BY <2>6 DEF CheckStatusHset, Goto, Return, SetStatus
  <2>7. CASE CheckStatusReturncode(t)
    BY <2>7 DEF CheckStatusReturncode, Goto
  <2>8. CASE StatusReply(t)
    BY <2>8 DEF StatusReply, Return
  <2>9. CASE LogsExists(t)
    BY <2>9 DEF LogsExists, Goto, Return
  <2>10. CASE LogsInActive(t)
    BY <2>10 DEF LogsInActive, Goto, Return
  <2>11. CASE LogsGetPlaybook(t)
    BY <2>11 DEF LogsGetPlaybook, Goto, Return
  <2>12. CASE GetLogs(t)
    BY <2>12 DEF GetLogs, Goto
  <2>13. CASE LogsHget(t)
    BY <2>13 DEF LogsHget, Goto, Return
  <2>14. CASE CleanupDirectory(t)
    BY <2>14 DEF CleanupDirectory, Goto
  <2>15. CASE CleanupDelete(t)
    BY <2>15 DEF CleanupDelete, Goto, Return
  <2>16. CASE LogsPop(t)
    BY <2>16 DEF LogsPop, Return
  <2>17. CASE DeployNetcat(t)
    BY <2>17 DEF DeployNetcat, Goto, Return
  <2>18. CASE DeployReadKey(t)
    BY <2>18 DEF DeployReadKey, Goto, Return
  <2>19. CASE DeployConstruct(t)
    BY <2>19 DEF DeployConstruct, Goto, Return
  <2>20. CASE \E locked \in BOOLEAN : DeployCheckLock(t, locked)
    BY <2>20 DEF DeployCheckLock, Goto
  <2>21. CASE DeployCancel(t)
    BY <2>21 DEF DeployCancel, Return, SetStatus
  <2>22. CASE DeployHsetBuild(t)
    BY <2>22 DEF DeployHsetBuild, Goto, Return, SetStatus
  <2>23. CASE DeployRun(t)
    BY <2>23 DEF DeployRun, Goto, Return
  <2>24. CASE DeployRegister(t)
    BY <2>24 DEF DeployRegister, Return
  <2>25. CASE DeployCopyTemplate(t)
    BY <2>25 DEF DeployCopyTemplate, Goto
  <2>26. CASE CallRaises(t)
    BY <2>26 DEF CallRaises, FallibleSteps, Return
  <2>27. QED
    BY <1>2, <2>1, <2>2, <2>3, <2>4, <2>5, <2>6, <2>7, <2>8, <2>9, <2>10,
       <2>11, <2>12, <2>13, <2>14, <2>15, <2>16, <2>17, <2>18, <2>19,
       <2>20, <2>21, <2>22, <2>23, <2>24, <2>25, <2>26
    DEF Work, Step, StatusStep, LogStep, DeployStep
<1>3. ASSUME NEW p \in Playbooks, ProcessExit(p) PROVE Waiting(s)'
  BY <1>3 DEF ProcessExit, locals
<1>4. CASE UNCHANGED vars
  BY <1>4 DEF locals, vars
<1>5. CASE Restart
  BY <1>5 DEF Restart
<1>6. QED
  BY <1>1, <1>2, <1>3, <1>4, <1>5 DEF Next

LEMMA SingleInit == Init => Single
  BY ConstantsAssumption
  DEF Init, Single, Directory, Tracked, Verdict, FinalOwned, FinalStates, Closing,
      ClosingSteps, Recorded, RegisteredRecorded, CodeFollows, NotStarted, Unknown, Waiting, Absent

LEMMA IInvInit == Init => IInv
  BY ConsistentInit, SingleInit DEF IInv

LEMMA IInvStep == IInv /\ [Next]_vars => IInv'
  BY ConsistentStep, DirectoryStep, TrackedStep, VerdictStep, FinalOwnedStep,
     ClosingStep,
     RecordedStep, RegisteredRecordedStep, CodeFollowsStep, NotStartedStep, WaitingStep
  DEF IInv, Single

(* The inductive invariant holds of every behaviour.                       *)
THEOREM Invariance == Spec => []IInv
  BY IInvInit, IInvStep, PTL DEF Spec

-----------------------------------------------------------------------------
(* The properties of Playbooks.                                            *)

(* Every variable keeps its type, whatever requests, exits, failures and   *)
(* restarts follow each other.                                             *)
THEOREM TypeCorrect == Spec => []TypeOK
<1>1. IInv => TypeOK
  BY DEF IInv, Consistent
<1>2. QED
  BY <1>1, Invariance, PTL

(* A VM is reported successful only after a playbook of its own exited     *)
(* with 0, and the exit codes in the hands of get_playbook_logs are those  *)
(* of the processes.                                                       *)
THEOREM Outcomes == Spec => []OutcomesAreReal
<1>1. IInv => OutcomesAreReal
  BY DEF IInv, Consistent, Successful, Locals, OutcomesAreReal
<1>2. QED
  BY <1>1, Invariance, PTL

(* The playbook of a VM that is deployed once keeps its directory and its  *)
(* place in active_playbooks while it runs.                                *)
THEOREM Tracking == Spec => []RunningIsTracked
<1>1. IInv => RunningIsTracked
  <2> SUFFICES ASSUME IInv, NEW p \in Playbooks, proc[p] = "running", Only(p)
               PROVE  /\ DirExists(p)
                      /\ \/ active[owner[p]] = p
                         \/ \E t \in Threads : pc[t] = "dp_register" /\ pb[t] = p
                         \/ dir[p] = "left"
    BY DEF RunningIsTracked
  <2>1. dir[p] \in {"live", "left"}
    BY DEF IInv, Single, Directory
  <2>2. \/ active[owner[p]] = p
        \/ \E t \in Threads : pc[t] = "dp_register" /\ pb[t] = p
        \/ dir[p] = "left"
    BY DEF IInv, Single, Tracked
  <2>3. owner[p] \in VMs
    BY DEF IInv, Consistent, TypeOK, Object
  <2>4. QED
    BY <2>1, <2>2, <2>3 DEF DirExists, Referenced
<1>2. QED
  BY <1>1, Invariance, PTL

(* A registered playbook of a VM that is deployed once can be found by the *)
(* requests that look for its hash first, until its run is over and        *)
(* cleaned up.                                                             *)
THEOREM Findable == Spec => []RegisteredHasRecord
<1>1. IInv => RegisteredHasRecord
  BY DEF IInv, Consistent, TypeOK, Single, RegisteredRecorded, Registered,
         RegisteredHasRecord, Only, DeployedOnce
<1>2. QED
  BY <1>1, Invariance, PTL

(* Between the final status of a VM that is deployed once and its exit     *)
(* code lies one step of a status request, unless the answer to an HSET    *)
(* was lost.                                                               *)
THEOREM CodeFollowsStatus == Spec => []ExitCodeFollowsStatus
<1>1. IInv => ExitCodeFollowsStatus
  BY DEF IInv, Consistent, TypeOK, Single, CodeFollows, Registered,
         ExitCodeFollowsStatus, Only, DeployedOnce
<1>2. QED
  BY <1>1, Invariance, PTL

(* No request replaces the verdict on a VM that is deployed once.          *)
THEOREM Finality == Spec => FinalStatusSticks
<1> DEFINE Sticks(v) == redis[v].status \in FinalStates /\ DeployedOnce(v)' =>
                          redis'[v].status \in {redis[v].status, "none"}
<1>1. ASSUME IInv, [Next]_vars, NEW v \in VMs PROVE Sticks(v)
  <2> USE <1>1 DEF IInv, Consistent, Single, TypeOK, Locals, FinalStates
  <2>1. CASE redis' = redis
    BY <2>1
  <2>2. ASSUME NEW t \in Threads, SetVmWaitForPlaybook(t) PROVE Sticks(v)
    BY <2>2 DEF SetVmWaitForPlaybook, Waiting, Unknown, Absent
  <2>3. ASSUME NEW t \in Threads, CheckStatusHset(t) PROVE Sticks(v)
    BY <2>3 DEF CheckStatusHset, SetStatus, Verdict, Only, DeployedOnce,
                PolledSteps, Started, Exited, ExitCode, objects
  <2>4. ASSUME NEW t \in Threads, CleanupDelete(t) PROVE Sticks(v)
    BY <2>4 DEF CleanupDelete, Absent
  <2>5. ASSUME NEW t \in Threads, DeployCancel(t) PROVE Sticks(v)
    BY <2>5
    DEF DeployCancel, SetStatus, Verdict, Only, DeployedOnce, BuildSteps, objects
  <2>6. ASSUME NEW t \in Threads, DeployHsetBuild(t) PROVE Sticks(v)
    BY <2>6
    DEF DeployHsetBuild, SetStatus, Verdict, Only, DeployedOnce, BuildSteps, objects
  <2>7. ASSUME NEW t \in Threads, Request(t) PROVE redis' = redis
    BY <2>7 DEF Request, StartServer, BeginStatus, BeginLogs, BeginDeploy, store
  <2>8. ASSUME NEW t \in Threads, Work(t)
        PROVE  \/ SetVmWaitForPlaybook(t) \/ CheckStatusHset(t)
               \/ CleanupDelete(t) \/ DeployCancel(t) \/ DeployHsetBuild(t)
               \/ redis' = redis
    BY <2>8
    DEF Work, Step, StatusStep, LogStep, DeployStep, CallRaises,
        DeployCopyTemplate, store, StatusExists, StatusInActive, StatusGetPlaybook,
        CheckStatusPoll, CheckStatusReturncode, StatusReply, LogsExists,
        LogsInActive, LogsGetPlaybook, GetLogs, LogsHget, CleanupDirectory,
        LogsPop, DeployNetcat, DeployReadKey, DeployConstruct,
        DeployCheckLock, DeployRun, DeployRegister
  <2>9. CASE (\E p \in Playbooks : ProcessExit(p)) \/ Restart
             \/ UNCHANGED vars
    BY <2>1, <2>9 DEF ProcessExit, Restart, vars, store
  <2>10. QED
    BY <1>1, <2>1, <2>2, <2>3, <2>4, <2>5, <2>6, <2>7, <2>8, <2>9 DEF Next
<1>2. IInv /\ [Next]_vars => [\A v \in VMs : Sticks(v)]_vars
  BY <1>1
<1>3. QED
  BY <1>2, Invariance, PTL DEF Spec, FinalStatusSticks
-----------------------------------------------------------------------------
(* Playbooks implements PlaybookLife.                                      *)

(* Until a playbook is built for it a VM has no hash or the one it was     *)
(* started with; a deploy that goes on to build has seen the latter, and   *)
(* "prepare" stays until it is replaced by "building" or the deploy gives  *)
(* up.  From then on the status of the only playbook is "building" or a    *)
(* verdict, and a verdict once a log request closes the run.               *)
Started0 == [status |-> "prepare", full |-> TRUE]
Unowned(v) == \A p \in Playbooks : owner[p] # v
Untouched(v) == Unowned(v) => redis[v] \in {Absent, Started0}
CopySteps == {"dp_copy", "dp_resenvs"}
AboutToBuild(t) ==
  /\ pc[t] \in CopySteps /\ Unowned(vm[t]) => redis[vm[t]] = Started0
  /\ pc[t] \in {"dp_lock", "dp_fail", "dp_build"} /\ Only(pb[t]) =>
       redis[vm[t]].status = "prepare"
Begun(p) == Only(p) /\ proc[p] \in Started => redis[owner[p]].status # "prepare"
Closed(t) == pc[t] \in ClosingSteps /\ Only(pb[t]) =>
  redis[vm[t]].status \in FinalStates \cup {"none"}

LifeInv ==
  /\ \A v \in VMs : Untouched(v)
  /\ \A p \in Playbooks : Begun(p)
  /\ \A t \in Threads : AboutToBuild(t) /\ Closed(t)

(* The steps that touch a hash, an owner or the state of a process.        *)
Touches ==
  \/ \E t \in Threads :
       \/ SetVmWaitForPlaybook(t) \/ CheckStatusHset(t) \/ CleanupDelete(t)
       \/ DeployConstruct(t) \/ DeployCancel(t) \/ DeployHsetBuild(t)
       \/ DeployRun(t)
  \/ \E p \in Playbooks : ProcessExit(p)

LEMMA UntouchedStates ==
  ASSUME [Next]_vars, ~Touches
  PROVE  UNCHANGED <<redis, owner, proc>>
  BY DEF Touches, Next, Request, Work, Step, StatusStep, LogStep, DeployStep, CallRaises,
      DeployCopyTemplate, vars, store, objects, locals, StartServer,
      BeginStatus, BeginLogs, BeginDeploy, StatusExists, StatusInActive,
      StatusGetPlaybook, CheckStatusPoll, CheckStatusReturncode, StatusReply,
      LogsExists, LogsInActive, LogsGetPlaybook, GetLogs, LogsHget,
      CleanupDirectory, LogsPop, DeployNetcat, DeployReadKey, DeployCheckLock,
      DeployRegister, Restart

(* The five steps that write a hash, each that of its own VM.              *)
LEMMA HashWriter ==
  ASSUME IInv, [Next]_vars, NEW v \in VMs, redis'[v] # redis[v]
  PROVE  \E t \in Threads : vm[t] = v /\
           \/ SetVmWaitForPlaybook(t) /\ redis'[v] = Started0
           \/ CheckStatusHset(t) /\ redis'[v].status \in FinalStates
           \/ CleanupDelete(t) /\ redis'[v] = Absent
           \/ DeployCancel(t) /\ redis'[v].status = "failed"
           \/ DeployHsetBuild(t) /\ redis'[v].status = "building"
<1> USE DEF IInv, Consistent, TypeOK, SetStatus, Hashes
<1>1. Touches
  BY UntouchedStates
<1>2. ASSUME NEW t \in Threads, SetVmWaitForPlaybook(t)
      PROVE  vm[t] = v /\ redis'[v] = Started0
  BY <1>2 DEF SetVmWaitForPlaybook, Started0
<1>3. ASSUME NEW t \in Threads, CheckStatusHset(t)
      PROVE  vm[t] = v /\ redis'[v].status \in FinalStates
  BY <1>3 DEF CheckStatusHset, FinalStates
<1>4. ASSUME NEW t \in Threads, CleanupDelete(t) PROVE vm[t] = v /\ redis'[v] = Absent
  BY <1>4 DEF CleanupDelete
<1>5. ASSUME NEW t \in Threads, DeployCancel(t)
      PROVE  vm[t] = v /\ redis'[v].status = "failed"
  BY <1>5 DEF DeployCancel
<1>6. ASSUME NEW t \in Threads, DeployHsetBuild(t)
      PROVE  vm[t] = v /\ redis'[v].status = "building"
  BY <1>6 DEF DeployHsetBuild
<1> QED
  BY <1>1, <1>2, <1>3, <1>4, <1>5, <1>6
  DEF Touches, DeployConstruct, DeployRun, ProcessExit, store

LEMMA LifeInvInit == Init => LifeInv
  BY ConstantsAssumption
  DEF Init, LifeInv, Untouched, Begun, AboutToBuild, CopySteps, Closed,
      ClosingSteps, Started

LEMMA UntouchedStep ==
  ASSUME IInv, LifeInv, [Next]_vars, NEW v \in VMs PROVE Untouched(v)'
<1> USE DEF IInv, Consistent, TypeOK, LifeInv, Untouched, Unowned, Locals
<1>1. CASE ~Touches
  BY <1>1, UntouchedStates
<1>2. ASSUME NEW t \in Threads, SetVmWaitForPlaybook(t) PROVE Untouched(v)'
  BY <1>2 DEF SetVmWaitForPlaybook, objects, Started0
<1>3. ASSUME NEW t \in Threads, CheckStatusHset(t) PROVE Untouched(v)'
  BY <1>3 DEF CheckStatusHset, SetStatus, objects, PolledSteps
<1>4. ASSUME NEW t \in Threads, CleanupDelete(t) PROVE Untouched(v)'
  BY <1>4 DEF CleanupDelete, objects
<1>5. ASSUME NEW t \in Threads, DeployConstruct(t) PROVE Untouched(v)'
  BY <1>5, ConstantsAssumption
  DEF DeployConstruct, objects, store, Object, ReserveSteps
<1>6. ASSUME NEW t \in Threads, DeployCancel(t) PROVE Untouched(v)'
  BY <1>6 DEF DeployCancel, SetStatus, objects, BuildSteps
<1>7. ASSUME NEW t \in Threads, DeployHsetBuild(t) PROVE Untouched(v)'
  BY <1>7 DEF DeployHsetBuild, SetStatus, objects, BuildSteps
<1>8. ASSUME NEW t \in Threads, DeployRun(t) PROVE Untouched(v)'
  BY <1>8 DEF DeployRun, store
<1>9. ASSUME NEW p \in Playbooks, ProcessExit(p) PROVE Untouched(v)'
  BY <1>9 DEF ProcessExit, store
<1> QED
  BY <1>1, <1>2, <1>3, <1>4, <1>5, <1>6, <1>7, <1>8, <1>9 DEF Touches

LEMMA BegunStep ==
  ASSUME IInv, LifeInv, [Next]_vars, NEW p \in Playbooks PROVE Begun(p)'
<1> USE DEF IInv, Consistent, TypeOK, LifeInv, Begun, Locals, Object, Started
<1>0. ASSUME Only(p)', proc[p] # "none" PROVE Only(p) /\ owner'[p] = owner[p]
  BY <1>0, OnlyKept
<1>1. CASE ~Touches
  BY <1>1, UntouchedStates DEF Only
<1>2. ASSUME NEW t \in Threads, SetVmWaitForPlaybook(t) PROVE Begun(p)'
  BY <1>2 DEF SetVmWaitForPlaybook, objects, Single, Waiting, Unknown, Only
<1>3. ASSUME NEW t \in Threads, CheckStatusHset(t) PROVE Begun(p)'
  BY <1>3 DEF CheckStatusHset, SetStatus, objects, Only, Hashes
<1>4. ASSUME NEW t \in Threads, CleanupDelete(t) PROVE Begun(p)'
  BY <1>4 DEF CleanupDelete, objects, Only, Absent
<1>5. ASSUME NEW t \in Threads, DeployConstruct(t) PROVE Begun(p)'
  BY <1>0, <1>5 DEF DeployConstruct, objects, store, ReserveSteps
<1>6. ASSUME NEW t \in Threads, DeployCancel(t) PROVE Begun(p)'
  BY <1>6 DEF DeployCancel, SetStatus, objects, Only, Hashes
<1>7. ASSUME NEW t \in Threads, DeployHsetBuild(t) PROVE Begun(p)'
  BY <1>7 DEF DeployHsetBuild, SetStatus, objects, Only, Hashes
<1>8. ASSUME NEW t \in Threads, DeployRun(t) PROVE Begun(p)'
  <2>1. CASE p = pb[t]
    BY <1>8, <2>1 DEF DeployRun, store, Only, Single, Recorded, BuildSteps
  <2>2. CASE p # pb[t]
    BY <1>8, <2>2 DEF DeployRun, store, Only
  <2> QED
    BY <2>1, <2>2
<1>9. ASSUME NEW q \in Playbooks, ProcessExit(q) PROVE Begun(p)'
  BY <1>9 DEF ProcessExit, store, Only
<1> QED
  BY <1>1, <1>2, <1>3, <1>4, <1>5, <1>6, <1>7, <1>8, <1>9 DEF Touches

(* How a thread comes to the steps that AboutToBuild and Closed are about. *)
LEMMA ComesToCopy ==
  ASSUME IInv, [Next]_vars, NEW s \in Threads, pc'[s] \in CopySteps
  PROVE  \/ pc[s] \in CopySteps /\ vm'[s] = vm[s]
         \/ DeployReadKey(s) /\ vm'[s] = vm[s] /\ redis[vm[s]].full
<1> USE DEF IInv, Consistent, TypeOK, CopySteps
<1>1. ASSUME NEW t \in Threads, Request(t) PROVE pc[s] \in CopySteps /\ vm'[s] = vm[s]
  BY <1>1 DEF Request, StartServer, BeginStatus, BeginLogs, BeginDeploy, Accept
<1>2. ASSUME NEW t \in Threads, Work(t), ~DeployReadKey(t)
      PROVE  pc[s] \in CopySteps /\ vm'[s] = vm[s]
  BY <1>2
  DEF Work, Step, StatusStep, LogStep, DeployStep, CallRaises,
      DeployCopyTemplate, SetVmWaitForPlaybook, StatusExists, StatusInActive,
      StatusGetPlaybook, CheckStatusPoll, CheckStatusHset,
      CheckStatusReturncode, StatusReply, LogsExists, LogsInActive,
      LogsGetPlaybook, GetLogs, LogsHget, CleanupDirectory, CleanupDelete,
      LogsPop, DeployNetcat, DeployConstruct, DeployCheckLock,
      DeployCancel, DeployHsetBuild, DeployRun, DeployRegister, Goto, Return
<1>3. ASSUME NEW t \in Threads, DeployReadKey(t)
      PROVE  \/ pc[s] \in CopySteps /\ vm'[s] = vm[s]
             \/ DeployReadKey(s) /\ vm'[s] = vm[s] /\ redis[vm[s]].full
  BY <1>3 DEF DeployReadKey, Goto, Return
<1>4. CASE (\E p \in Playbooks : ProcessExit(p)) \/ UNCHANGED vars
  BY <1>4 DEF ProcessExit, vars, locals
<1>5. CASE Restart
  BY <1>5 DEF Restart
<1> QED
  BY <1>1, <1>2, <1>3, <1>4, <1>5 DEF Next

LEMMA ComesToBuild ==
  ASSUME IInv, [Next]_vars, NEW s \in Threads,
         pc'[s] \in {"dp_lock", "dp_fail", "dp_build"}
  PROVE  /\ vm'[s] = vm[s] /\ pb'[s] = pb[s]
         /\ pc[s] = "dp_lock" \/ pc[s] = pc'[s] \/ DeployConstruct(s)
<1> DEFINE Comes == /\ vm'[s] = vm[s] /\ pb'[s] = pb[s]
                    /\ pc[s] = "dp_lock" \/ pc[s] = pc'[s] \/ DeployConstruct(s)
<1> USE DEF IInv, Consistent, TypeOK
<1>1. ASSUME NEW t \in Threads, Request(t) PROVE Comes
  BY <1>1 DEF Request, StartServer, BeginStatus, BeginLogs, BeginDeploy, Accept,
     store, objects
<1>2. ASSUME NEW t \in Threads, Work(t), ~DeployConstruct(t) PROVE Comes
  BY <1>2
  DEF Work, Step, StatusStep, LogStep, DeployStep, CallRaises,
      DeployCopyTemplate, SetVmWaitForPlaybook, StatusExists, StatusInActive,
      StatusGetPlaybook, CheckStatusPoll, CheckStatusHset,
      CheckStatusReturncode, StatusReply, LogsExists, LogsInActive,
      LogsGetPlaybook, GetLogs, LogsHget, CleanupDirectory, CleanupDelete,
      LogsPop, DeployNetcat, DeployReadKey, DeployCheckLock,
      DeployCancel, DeployHsetBuild, DeployRun, DeployRegister, Goto, Return
<1>3. ASSUME NEW t \in Threads, DeployConstruct(t) PROVE Comes
  <2>1. CASE s = t
    BY <1>3, <2>1 DEF DeployConstruct, Goto, Return
  <2>2. CASE s # t
    BY <1>3, <2>2 DEF DeployConstruct, Goto, Return
  <2> QED
    BY <2>1, <2>2
<1>4. CASE (\E p \in Playbooks : ProcessExit(p)) \/ UNCHANGED vars
  BY <1>4 DEF ProcessExit, vars, locals
<1>5. CASE Restart
  BY <1>5 DEF Restart
<1> QED
  BY <1>1, <1>2, <1>3, <1>4, <1>5 DEF Next

LEMMA ComesToClosing ==
  ASSUME IInv, [Next]_vars, NEW s \in Threads, pc'[s] \in ClosingSteps
  PROVE  /\ vm'[s] = vm[s] /\ pb'[s] = pb[s]
         /\ \/ pc[s] \in ClosingSteps
            \/ redis[vm[s]].status \in FinalStates /\ UNCHANGED redis
<1> DEFINE Comes == /\ vm'[s] = vm[s] /\ pb'[s] = pb[s]
                    /\ \/ pc[s] \in ClosingSteps
                       \/ redis[vm[s]].status \in FinalStates /\ UNCHANGED redis
<1> USE DEF IInv, Consistent, TypeOK, ClosingSteps
<1>1. ASSUME NEW t \in Threads, Request(t) PROVE Comes
  BY <1>1 DEF Request, StartServer, BeginStatus, BeginLogs, BeginDeploy, Accept,
     store, objects
<1>2. ASSUME NEW t \in Threads, Work(t), ~LogsHget(t) PROVE Comes
  BY <1>2
  DEF Work, Step, StatusStep, LogStep, DeployStep, CallRaises,
      DeployCopyTemplate, SetVmWaitForPlaybook, StatusExists, StatusInActive,
      StatusGetPlaybook, CheckStatusPoll, CheckStatusHset,
      CheckStatusReturncode, StatusReply, LogsExists, LogsInActive,
      LogsGetPlaybook, GetLogs, CleanupDirectory, CleanupDelete,
      LogsPop, DeployNetcat, DeployReadKey, DeployConstruct, DeployCheckLock,
      DeployCancel, DeployHsetBuild, DeployRun, DeployRegister, Goto, Return
<1>3. ASSUME NEW t \in Threads, LogsHget(t) PROVE Comes
  BY <1>3 DEF LogsHget, Goto, Return, store
<1>4. CASE (\E p \in Playbooks : ProcessExit(p)) \/ UNCHANGED vars
  BY <1>4 DEF ProcessExit, vars, locals
<1>5. CASE Restart
  BY <1>5 DEF Restart
<1> QED
  BY <1>1, <1>2, <1>3, <1>4, <1>5 DEF Next

(* Who may write the hash of a VM that a thread knows to be unowned, or    *)
(* whose only playbook it is deploying or closing.                         *)
LEMMA AboutToBuildStep ==
  ASSUME IInv, LifeInv, [Next]_vars, NEW s \in Threads PROVE AboutToBuild(s)'
<1> USE DEF IInv, Consistent, TypeOK, LifeInv
<1>1. ASSUME pc'[s] \in CopySteps, Unowned(vm[s])' PROVE redis'[vm'[s]] = Started0
  <2>1. CASE DeployReadKey(s) /\ vm'[s] = vm[s] /\ redis[vm[s]].full
    BY <1>1, <2>1 DEF DeployReadKey, store, objects, Untouched, Unowned, Absent,
       Locals
  <2>2. CASE pc[s] \in CopySteps /\ vm'[s] = vm[s]
    <3>1. Unowned(vm[s])
      <4>1. \A p \in Playbooks : owner[p] \in VMs => owner'[p] = owner[p]
        <5>1. CASE ~Touches
          BY <5>1, UntouchedStates
        <5>2. CASE \E t \in Threads : DeployConstruct(t)
          BY <5>2, ConstantsAssumption
          DEF DeployConstruct, objects, Locals, Object, ReserveSteps
        <5>3. CASE Touches /\ ~\E t \in Threads : DeployConstruct(t)
          BY <5>3 DEF Touches, SetVmWaitForPlaybook, CheckStatusHset,
             CleanupDelete, DeployCancel, DeployHsetBuild, DeployRun,
             ProcessExit, objects
        <5> QED
          BY <5>1, <5>2, <5>3
      <4> QED
        BY <1>1, <2>2, <4>1 DEF Unowned, Locals, CopySteps
    <3>2. redis[vm[s]] = Started0 /\ vm[s] \in VMs
      BY <2>2, <3>1 DEF AboutToBuild, Locals, CopySteps
    <3>3. ASSUME NEW t \in Threads, vm[t] = vm[s]
          PROVE  ~(CheckStatusHset(t) \/ CleanupDelete(t) \/ DeployCancel(t)
                     \/ DeployHsetBuild(t))
      BY <3>1, <3>3
      DEF CheckStatusHset, CleanupDelete, DeployCancel, DeployHsetBuild,
          Unowned, Locals, PolledSteps, ReadSteps, BuildSteps
    <3> QED
      BY <2>2, <3>2, <3>3, HashWriter
  <2> QED
    BY <1>1, <2>1, <2>2, ComesToCopy
<1>2. ASSUME pc'[s] \in {"dp_lock", "dp_fail", "dp_build"}, Only(pb[s])'
      PROVE  redis'[vm'[s]].status = "prepare"
  <2>1. /\ vm'[s] = vm[s] /\ pb'[s] = pb[s]
        /\ pc[s] = "dp_lock" \/ pc[s] = pc'[s] \/ DeployConstruct(s)
    BY <1>2, ComesToBuild
  <2>2. CASE DeployConstruct(s)
    <3>1. Unowned(vm[s]) /\ pc[s] = "dp_resenvs" /\ redis' = redis
      BY <1>2, <2>1, <2>2, ConstantsAssumption
      DEF DeployConstruct, Goto, Return, objects, store, Only, Unowned, Locals,
          Object, ReserveSteps
    <3> QED
      BY <2>1, <3>1 DEF AboutToBuild, Started0, CopySteps
  <2>3. CASE pc[s] = "dp_lock" \/ pc[s] = pc'[s]
    <3>1. /\ pc[s] \in {"dp_lock", "dp_fail", "dp_build"}
          /\ pb[s] \in Playbooks /\ owner[pb[s]] = vm[s] /\ vm[s] \in VMs
          /\ proc[pb[s]] = "new"
      BY <1>2, <2>3 DEF Locals, BuildSteps
    <3>2. Only(pb[s])
      BY <1>2, <2>1, <3>1, OnlyKept
    <3>3. redis[vm[s]].status = "prepare"
      BY <3>1, <3>2 DEF AboutToBuild
    <3>4. ASSUME NEW t \in Threads, t # s, vm[t] = vm[s], pb[t] \in Playbooks,
                 owner[pb[t]] = vm[t]
          PROVE  FALSE
      BY <3>1, <3>2, <3>4 DEF Only, Exclusive, DeploySteps
    <3>5. ASSUME NEW t \in Threads, vm[t] = vm[s]
          PROVE  ~(CheckStatusHset(t) \/ CleanupDelete(t) \/ DeployCancel(t)
                     \/ DeployHsetBuild(t))
      <4>1. t # s => pc[t] \notin PolledSteps \cup ReadSteps \cup BuildSteps
        BY <3>4, <3>5 DEF Locals
      <4>2. ~DeployCancel(s) /\ ~DeployHsetBuild(s)
        BY <1>2 DEF DeployCancel, DeployHsetBuild, Goto, Return
      <4> QED
        BY <3>1, <4>1, <4>2
        DEF CheckStatusHset, CleanupDelete, DeployCancel, DeployHsetBuild,
            PolledSteps, ReadSteps, BuildSteps
    <3> QED
      BY <2>1, <3>1, <3>3, <3>5, HashWriter DEF Started0
  <2> QED
    BY <2>1, <2>2, <2>3
<1> QED
  BY <1>1, <1>2 DEF AboutToBuild

LEMMA ClosedStep ==
  ASSUME IInv, LifeInv, [Next]_vars, NEW s \in Threads PROVE Closed(s)'
<1> SUFFICES ASSUME pc'[s] \in ClosingSteps, Only(pb[s])'
             PROVE  redis'[vm'[s]].status \in FinalStates \cup {"none"}
  BY DEF Closed
<1> USE DEF IInv, Consistent, TypeOK, LifeInv
<1>1. vm'[s] = vm[s] /\ pb'[s] = pb[s]
  BY ComesToClosing
<1>2. CASE redis[vm[s]].status \in FinalStates /\ UNCHANGED redis
  BY <1>1, <1>2
<1>3. CASE pc[s] \in ClosingSteps
  <2>1. /\ pb[s] \in Playbooks /\ owner[pb[s]] = vm[s] /\ vm[s] \in VMs
        /\ proc[pb[s]] \in Started
    BY <1>3 DEF Locals, ClosingSteps, ReadSteps
  <2>2. Only(pb[s])
    BY <1>1, <2>1, OnlyKept DEF Started
  <2>3. redis[vm[s]].status \in FinalStates \cup {"none"}
    BY <1>3, <2>2 DEF Closed
  <2>4. ASSUME NEW t \in Threads, vm[t] = vm[s], SetVmWaitForPlaybook(t) PROVE FALSE
    BY <2>1, <2>4 DEF SetVmWaitForPlaybook, Single, Waiting, Unknown
  <2>5. ASSUME NEW t \in Threads, vm[t] = vm[s], DeployHsetBuild(t) PROVE FALSE
    BY <2>1, <2>2, <2>5 DEF DeployHsetBuild, Only, Locals, BuildSteps, Started
  <2> QED
    BY <1>1, <2>1, <2>3, <2>4, <2>5, HashWriter DEF FinalStates, Absent
<1> QED
  BY <1>2, <1>3, ComesToClosing

LEMMA LifeInvStep == IInv /\ LifeInv /\ [Next]_vars => LifeInv'
  BY UntouchedStep, BegunStep, AboutToBuildStep, ClosedStep DEF LifeInv

(* What Run stands for: the playbook built for v, if there is just one.    *)
LEMMA RunOf ==
  ASSUME NEW v \in VMs, NEW p \in Playbooks, owner[p] = v, Only(p)
  PROVE  DeployedOnce(v) /\ Run(v) = proc[p]
<1>1. DeployedOnce(v)
  BY DEF Only, DeployedOnce
<1>2. (CHOOSE q \in Playbooks : owner[q] = v) = p
  BY DEF Only
<1> QED
  BY <1>1, <1>2 DEF Run

LEMMA RunOfNext ==
  ASSUME NEW v \in VMs, NEW p \in Playbooks, owner'[p] = v, Only(p)'
  PROVE  DeployedOnce(v)' /\ Run(v)' = proc'[p]
<1>1. DeployedOnce(v)'
  BY DEF Only, DeployedOnce
<1>2. (CHOOSE q \in Playbooks : owner'[q] = v) = p
  BY DEF Only
<1> QED
  BY <1>1, <1>2 DEF Run

LEMMA RunOfNone ==
  ASSUME NEW v \in VMs, Unowned(v) PROVE DeployedOnce(v) /\ Run(v) = "none"
  BY DEF Run, Unowned, DeployedOnce

LEMMA RunOfNoneNext ==
  ASSUME NEW v \in VMs, Unowned(v)' PROVE DeployedOnce(v)' /\ Run(v)' = "none"
  BY DEF Run, Unowned, DeployedOnce

(* A step that leaves the playbooks of v alone leaves Run(v) alone.        *)
LEMMA SameRun ==
  ASSUME NEW v \in VMs,
         \A q \in Playbooks : owner'[q] = v <=> owner[q] = v,
         \A q \in Playbooks : owner[q] = v => proc'[q] = proc[q]
  PROVE  Run(v)' = Run(v) /\ DeployedOnce(v)' = DeployedOnce(v)
<1>1. DeployedOnce(v)' = DeployedOnce(v)
  BY DEF DeployedOnce
<1>2. CASE Unowned(v)
  BY <1>1, <1>2, RunOfNone, RunOfNoneNext DEF Unowned
<1>3. ASSUME NEW p \in Playbooks, owner[p] = v, DeployedOnce(v)
      PROVE  Run(v)' = Run(v)
  <2>1. Only(p) /\ Only(p)'
    BY <1>3 DEF Only, DeployedOnce
  <2> QED
    BY <1>3, <2>1, RunOf, RunOfNext
<1>4. CASE ~DeployedOnce(v)
  BY <1>1, <1>4 DEF Run
<1> QED
  BY <1>1, <1>2, <1>3, <1>4 DEF Unowned

(* A step that writes the hash of w only, or the process of one playbook   *)
(* of w only.                                                              *)
LEMMA ShowStep ==
  ASSUME NEW w \in VMs, UNCHANGED <<owner, proc>>,
         \A v \in VMs \ {w} : redis'[v] = redis[v]
  PROVE  IF DeployedOnce(w) THEN Life!Show(w, redis'[w].status)
                            ELSE UNCHANGED Life!lifeVars
<1>1. \A v \in VMs : Run(v)' = Run(v) /\ DeployedOnce(v)' = DeployedOnce(v)
  BY SameRun
<1>2. \A v \in VMs \ {w} : Shown(v)' = Shown(v)
  BY <1>1 DEF Shown
<1>3. Shown(w)' = IF DeployedOnce(w) THEN redis'[w].status ELSE Shown(w)
  BY <1>1 DEF Shown
<1> QED
  BY <1>1, <1>2, <1>3 DEF Life!Show, Life!lifeVars

LEMMA BecomeStep ==
  ASSUME NEW p \in Playbooks, owner[p] \in VMs, UNCHANGED <<owner, redis>>,
         \A q \in Playbooks \ {p} : proc'[q] = proc[q]
  PROVE  IF Only(p) THEN Life!Become(owner[p], proc'[p])
                    ELSE UNCHANGED Life!lifeVars
<1>1. \A v \in VMs : DeployedOnce(v)' = DeployedOnce(v)
  BY DEF DeployedOnce
<1>2. \A v \in VMs : Shown(v)' = Shown(v)
  BY <1>1 DEF Shown
<1>3. \A v \in VMs \ {owner[p]} : Run(v)' = Run(v)
  BY SameRun
<1>4. CASE Only(p)
  <2>1. Run(owner[p])' = proc'[p]
    BY <1>4, RunOfNext DEF Only
  <2> QED
    BY <1>2, <1>3, <1>4, <2>1 DEF Life!Become
<1>5. CASE ~Only(p)
  <2>1. Run(owner[p])' = Run(owner[p])
    BY <1>1, <1>5 DEF Run, Only, DeployedOnce
  <2> QED
    BY <1>2, <1>3, <1>5, <2>1 DEF Life!lifeVars
<1> QED
  BY <1>4, <1>5

LEMMA HashStep ==
  ASSUME IInv, LifeInv, [Next]_vars, NEW w \in VMs, redis'[w] # redis[w],
         UNCHANGED <<owner, proc>>, \A v \in VMs \ {w} : redis'[v] = redis[v]
  PROVE  Life!LifeStep(w) \/ UNCHANGED Life!lifeVars
<1>1. SUFFICES ASSUME DeployedOnce(w), Life!Show(w, redis'[w].status)
               PROVE  Life!LifeStep(w) \/ UNCHANGED Life!lifeVars
  BY ShowStep
<1> USE DEF IInv, Consistent, TypeOK, LifeInv
<1>2. Shown(w) = redis[w].status
  BY <1>1 DEF Shown
<1>3. redis'[w].status = redis[w].status => UNCHANGED Life!lifeVars
  BY <1>1, <1>2 DEF Life!Show, Life!lifeVars
<1>4. ASSUME NEW t \in Threads, vm[t] = w, pb[t] \in Playbooks, owner[pb[t]] = w
      PROVE  Only(pb[t]) /\ Run(w) = proc[pb[t]]
  BY <1>1, <1>4, RunOf DEF Only, DeployedOnce
<1>5. ASSUME NEW t \in Threads, vm[t] = w, SetVmWaitForPlaybook(t), redis'[w] = Started0
      PROVE  Life!LifeStep(w)
  <2>1. redis[w] = Absent /\ Unowned(w)
    BY <1>5 DEF SetVmWaitForPlaybook, Single, Waiting, Unknown, Unowned
  <2> QED
    BY <1>1, <1>2, <1>5, <2>1, RunOfNone
    DEF Life!LifeStep, Life!Prepare, Absent, Started0
<1>6. ASSUME NEW t \in Threads, vm[t] = w, CheckStatusHset(t)
      PROVE  Life!LifeStep(w) \/ UNCHANGED Life!lifeVars
  <2>1. /\ pb[t] \in Playbooks /\ owner[pb[t]] = w /\ Only(pb[t])
        /\ Run(w) = proc[pb[t]] /\ proc[pb[t]] \in Exited
        /\ redis'[w].status = IF proc[pb[t]] = "ok" THEN "successful" ELSE "failed"
    BY <1>4, <1>6
    DEF CheckStatusHset, SetStatus, Locals, PolledSteps, ExitCode, Exited, Hashes
  <2>2. Begun(pb[t]) /\ Verdict(pb[t])
    BY <2>1 DEF Single
  <2>3. redis[w].status \in {"none", "building"} \/ redis[w].status = redis'[w].status
    BY <2>1, <2>2
    DEF Begun, Verdict, Exited, Started, Hashes, TaskStates, FinalStates
  <2> QED
    BY <1>1, <1>2, <1>3, <2>1, <2>3 DEF Life!LifeStep, Life!Report, Exited
<1>7. ASSUME NEW t \in Threads, vm[t] = w, CleanupDelete(t), redis'[w] = Absent
      PROVE  Life!LifeStep(w) \/ UNCHANGED Life!lifeVars
  <2>1. /\ pb[t] \in Playbooks /\ owner[pb[t]] = w /\ Only(pb[t])
        /\ Run(w) = proc[pb[t]] /\ pc[t] \in ClosingSteps
    BY <1>4, <1>7 DEF CleanupDelete, Locals, ReadSteps, ClosingSteps
  <2>2. Closing(t) /\ Closed(t) /\ Verdict(pb[t])
    BY <2>1 DEF Single
  <2>3. \/ redis[w].status = "none"
        \/ redis[w].status = "successful" /\ Run(w) = "ok"
        \/ redis[w].status = "failed" /\ Run(w) = "failed"
    BY <1>7, <2>1, <2>2 DEF Closing, Closed, Verdict, Exited, FinalStates
  <2> QED
    BY <1>1, <1>2, <1>3, <1>7, <2>3 DEF Life!LifeStep, Life!Drop, Absent
<1>8. ASSUME NEW t \in Threads, vm[t] = w,
             \/ DeployCancel(t) /\ redis'[w].status = "failed"
             \/ DeployHsetBuild(t) /\ redis'[w].status = "building"
      PROVE  Life!LifeStep(w)
  <2>1. /\ pb[t] \in Playbooks /\ owner[pb[t]] = w /\ Only(pb[t])
        /\ Run(w) = "new" /\ pc[t] \in {"dp_fail", "dp_build"}
    BY <1>4, <1>8 DEF DeployCancel, DeployHsetBuild, Locals, BuildSteps
  <2>2. redis[w].status = "prepare"
    BY <1>8, <2>1 DEF AboutToBuild
  <2> QED
    BY <1>1, <1>2, <1>8, <2>1, <2>2 DEF Life!LifeStep, Life!Cancel, Life!Build
<1> QED
  BY <1>5, <1>6, <1>7, <1>8, HashWriter

LEMMA ProcessStep ==
  ASSUME IInv, LifeInv, NEW p \in Playbooks,
         ProcessExit(p) \/ \E t \in Threads : pb[t] = p /\ DeployRun(t)
  PROVE  (\E w \in VMs : Life!LifeStep(w)) \/ UNCHANGED Life!lifeVars
<1> USE DEF IInv, Consistent, TypeOK, LifeInv
<1>1. CASE proc' = proc
  <2>1. UNCHANGED <<redis, owner>>
    BY DEF ProcessExit, DeployRun, store
  <2> QED
    BY <1>1, <2>1 DEF Life!lifeVars, Shown, Run, DeployedOnce
<1>2. CASE proc' # proc
  <2>1. /\ owner[p] \in VMs /\ UNCHANGED <<owner, redis>>
        /\ \A q \in Playbooks \ {p} : proc'[q] = proc[q]
        /\ \/ proc[p] = "running" /\ proc'[p] \in Exited
           \/ /\ proc[p] = "new" /\ proc'[p] = "running"
              /\ Only(p) => redis[owner[p]].status = "building"
    <3>1. CASE ProcessExit(p)
      BY <3>1 DEF ProcessExit, store, Object, ProcStates
    <3>2. ASSUME NEW t \in Threads, pb[t] = p, DeployRun(t)
          PROVE  /\ owner[p] \in VMs /\ UNCHANGED <<owner, redis>>
                 /\ \A q \in Playbooks \ {p} : proc'[q] = proc[q]
                 /\ proc[p] = "new" /\ proc'[p] = "running"
                 /\ Only(p) => redis[owner[p]].status = "building"
      BY <1>2, <3>2 DEF DeployRun, store, Locals, BuildSteps, Single, Recorded
    <3> QED
      BY <3>1, <3>2
  <2>2. CASE ~Only(p)
    BY <2>1, <2>2, BecomeStep
  <2>3. CASE Only(p)
    <3>1. /\ Life!Become(owner[p], proc'[p]) /\ Run(owner[p]) = proc[p]
          /\ Shown(owner[p]) = redis[owner[p]].status
      BY <2>1, <2>3, BecomeStep, RunOf DEF Shown
    <3> QED
      BY <2>1, <2>3, <3>1 DEF Life!LifeStep, Life!Exit, Life!Launch, Exited
  <2> QED
    BY <2>2, <2>3
<1> QED
  BY <1>1, <1>2

LEMMA ConstructStep ==
  ASSUME IInv, LifeInv, NEW t \in Threads, DeployConstruct(t),
         NEW w \in VMs, vm[t] = w, NEW p \in Playbooks, pb[t] = p
  PROVE  (\E v \in VMs : Life!LifeStep(v)) \/ UNCHANGED Life!lifeVars
<1> USE DEF IInv, Consistent, TypeOK, LifeInv
<1>1. CASE owner' = owner
  <2>1. UNCHANGED <<redis, owner, proc>>
    BY <1>1, ConstantsAssumption
    DEF DeployConstruct, store, objects, Locals, Object, ReserveSteps
  <2> QED
    BY <2>1 DEF Life!lifeVars, Shown, Run, DeployedOnce
<1>2. CASE owner' # owner
  <2>1. /\ owner[p] = NoVM /\ proc[p] = "none"
        /\ owner' = [owner EXCEPT ![p] = w] /\ proc' = [proc EXCEPT ![p] = "new"]
        /\ redis' = redis /\ pc[t] = "dp_resenvs"
    BY <1>2 DEF DeployConstruct, store, objects, Locals, Object, ReserveSteps
  <2>2. \A v \in VMs \ {w} : UNCHANGED <<Run(v), DeployedOnce(v)>>
    BY <2>1, SameRun, ConstantsAssumption
  <2>3. \A v \in VMs \ {w} : Shown(v)' = Shown(v)
    BY <2>1, <2>2 DEF Shown
  <2>4. CASE Unowned(w)
    <3>1. DeployedOnce(w)' /\ Run(w)' = "new"
      <4>1. owner'[p] = w /\ Only(p)'
        BY <2>1, <2>4 DEF Only, Unowned
      <4> QED
        BY <2>1, <4>1, RunOfNext
    <3>2. DeployedOnce(w) /\ Run(w) = "none" /\ redis[w].status = "prepare"
      BY <2>1, <2>4, RunOfNone DEF AboutToBuild, Started0, CopySteps
    <3>3. Shown(w) = "prepare" /\ Shown(w)' = "prepare"
      BY <2>1, <3>1, <3>2 DEF Shown
    <3>4. Life!Construct(w)
      <4>1. \A v \in VMs : Shown(v)' = Shown(v)
        BY <2>3, <3>3
      <4>2. \A v \in VMs : Run(v)' = IF v = w THEN "new" ELSE Run(v)
        BY <2>2, <3>1
      <4> QED
        BY <3>2, <3>3, <4>1, <4>2 DEF Life!Construct, Life!Become
    <3> QED
      BY <3>4 DEF Life!LifeStep
  <2>5. CASE ~Unowned(w)
    <3>1. ~DeployedOnce(w)'
      BY <2>1, <2>5, ConstantsAssumption DEF Unowned, DeployedOnce
    <3>2. Shown(w)' = "repeated" /\ Run(w)' = "repeated"
      BY <3>1 DEF Shown, Run
    <3>3. Run(w) # "none"
      <4>1. PICK q \in Playbooks : owner[q] = w
        BY <2>5 DEF Unowned
      <4>2. CASE Only(q)
        BY <2>1, <4>1, <4>2, RunOf, ConstantsAssumption DEF Object
      <4>3. CASE ~Only(q)
        BY <4>1, <4>3 DEF Run, Only, DeployedOnce
      <4> QED
        BY <4>2, <4>3
    <3>4. Life!Repeat(w)
      BY <2>1, <2>2, <2>3, <3>2, <3>3 DEF Life!Repeat
    <3> QED
      BY <3>4 DEF Life!LifeStep
  <2> QED
    BY <2>4, <2>5
<1> QED
  BY <1>1, <1>2

LEMMA LifeStep ==
  IInv /\ LifeInv /\ [Next]_vars => [\E v \in VMs : Life!LifeStep(v)]_Life!lifeVars
<1> SUFFICES ASSUME IInv, LifeInv, [Next]_vars
             PROVE  (\E v \in VMs : Life!LifeStep(v)) \/ UNCHANGED Life!lifeVars
  OBVIOUS
<1> USE DEF IInv, Consistent, TypeOK
<1>1. CASE ~Touches
  BY <1>1, UntouchedStates DEF Life!lifeVars, Shown, Run, DeployedOnce
<1>2. ASSUME NEW t \in Threads,
             \/ SetVmWaitForPlaybook(t) \/ CheckStatusHset(t) \/ CleanupDelete(t)
             \/ DeployCancel(t) \/ DeployHsetBuild(t)
      PROVE  (\E v \in VMs : Life!LifeStep(v)) \/ UNCHANGED Life!lifeVars
  <2>1. /\ vm[t] \in VMs /\ UNCHANGED <<owner, proc>>
        /\ \A v \in VMs \ {vm[t]} : redis'[v] = redis[v]
    BY <1>2
    DEF SetVmWaitForPlaybook, CheckStatusHset, CleanupDelete, DeployCancel,
        DeployHsetBuild, SetStatus, objects, Locals
  <2>2. CASE redis'[vm[t]] = redis[vm[t]]
    <3>1. \A v \in VMs : redis'[v] = redis[v]
      BY <2>1, <2>2
    <3> QED
      BY <2>1, <3>1 DEF Life!lifeVars, Shown, Run, DeployedOnce
  <2>3. CASE redis'[vm[t]] # redis[vm[t]]
    BY <2>1, <2>3, HashStep
  <2> QED
    BY <2>2, <2>3
<1>3. ASSUME NEW t \in Threads, DeployRun(t)
      PROVE  (\E v \in VMs : Life!LifeStep(v)) \/ UNCHANGED Life!lifeVars
  BY <1>3, ProcessStep DEF DeployRun, Locals, BuildSteps
<1>4. ASSUME NEW t \in Threads, DeployConstruct(t)
      PROVE  (\E v \in VMs : Life!LifeStep(v)) \/ UNCHANGED Life!lifeVars
  BY <1>4, ConstructStep DEF DeployConstruct, Locals, ReserveSteps
<1>5. ASSUME NEW p \in Playbooks, ProcessExit(p)
      PROVE  (\E v \in VMs : Life!LifeStep(v)) \/ UNCHANGED Life!lifeVars
  BY <1>5, ProcessStep
<1> QED
  BY <1>1, <1>2, <1>3, <1>4, <1>5 DEF Touches

(* What the portal is shown of a VM it deploys on once is one life of one  *)
(* playbook: prepare, building and the verdict of the process, in that     *)
(* order; each is true when it is shown, whatever requests overlap, are    *)
(* repeated or are cut off by a crash of the client.                       *)
THEOREM RefinesPlaybookLife == Spec => ImplementsPlaybookLife
<1>1. Init => Life!LifeInit
  BY ConstantsAssumption
  DEF Init, Life!LifeInit, Shown, Run, DeployedOnce, Absent
<1>2. Spec => [](IInv /\ LifeInv)
  BY IInvInit, LifeInvInit, IInvStep, LifeInvStep, PTL DEF Spec
<1> QED
  BY <1>1, <1>2, LifeStep, PTL DEF Spec, ImplementsPlaybookLife, Life!LifeSpec

-----------------------------------------------------------------------------
(* Why every request ends: the steps it may still take, at most.           *)
ToGo(s) ==
  CASE s = "idle" -> 0
    [] s \in {"set_wait", "st_hget", "lg_pop", "dp_fail", "dp_register"} -> 1
    [] s \in {"st_code", "lg_delete", "dp_run"} -> 2
    [] s \in {"st_hset", "lg_clean", "dp_build"} -> 3
    [] s \in {"st_poll", "lg_hget", "dp_lock"} -> 4
    [] s \in {"st_get", "lg_read", "dp_resenvs"} -> 5
    [] s \in {"st_active", "lg_get", "dp_copy"} -> 6
    [] s \in {"st_exists", "lg_active", "dp_key"} -> 7
    [] s \in {"lg_exists", "dp_netcat"} -> 8

StepsToGo(t) == IF pc[t] = "idle" THEN 0 ELSE ToGo(pc[t]) + (MaxWait - waited[t])

(* Each step of a request goes down that measure, whatever a deploy sees   *)
(* of the lock, and no step of another thread or playbook takes it back.   *)
RequestsGetCloser ==
  [][\A t \in Threads : pc[t] # "idle" =>
       StepsToGo(t)' < StepsToGo(t) \/ (UNCHANGED <<pc[t], waited[t]>> /\ ~Work(t))]_vars

(* What ToGo says of the steps.                                            *)
LEMMA ToGos ==
  /\ ToGo("idle") = 0
  /\ \A s \in {"set_wait", "st_hget", "lg_pop", "dp_fail", "dp_register"} :
       ToGo(s) = 1
  /\ \A s \in {"st_code", "lg_delete", "dp_run"} : ToGo(s) = 2
  /\ \A s \in {"st_hset", "lg_clean", "dp_build"} : ToGo(s) = 3
  /\ \A s \in {"st_poll", "lg_hget", "dp_lock"} : ToGo(s) = 4
  /\ \A s \in {"st_get", "lg_read", "dp_resenvs"} : ToGo(s) = 5
  /\ \A s \in {"st_active", "lg_get", "dp_copy"} : ToGo(s) = 6
  /\ \A s \in {"st_exists", "lg_active", "dp_key"} : ToGo(s) = 7
  /\ \A s \in {"lg_exists", "dp_netcat"} : ToGo(s) = 8
  BY DEF ToGo

(* Only an idle thread has nothing to go.                                  *)
LEMMA ToGoType == \A s \in Steps : ToGo(s) \in Nat /\ (s # "idle" => ToGo(s) > 0)
<1> SUFFICES ASSUME NEW s \in Steps
             PROVE  ToGo(s) \in Nat /\ (s # "idle" => ToGo(s) > 0)
  OBVIOUS
<1> QED
  BY ToGos DEF Steps, StatusSteps, LogSteps, DeploySteps

(* A step goes on in the handler, waits a minute for the templates, or     *)
(* ends the request.                                                       *)
LEMMA StepCloser ==
  ASSUME TypeOK, NEW t \in Threads, Work(t)
  PROVE  /\ StepsToGo(t)' < StepsToGo(t)
         /\ \A u \in Threads \ {t} : pc'[u] = pc[u] /\ waited'[u] = waited[u]
<1> USE ConstantsAssumption DEF TypeOK, Goto
<1>1. \A u \in Threads \ {t} : pc'[u] = pc[u] /\ waited'[u] = waited[u]
  BY DEF Work, Step, StatusStep, LogStep, DeployStep, CallRaises,
     DeployCopyTemplate, Return, SetVmWaitForPlaybook, StatusExists, StatusInActive,
     StatusGetPlaybook, CheckStatusPoll, CheckStatusHset, CheckStatusReturncode,
     StatusReply, LogsExists, LogsInActive, LogsGetPlaybook, GetLogs, LogsHget,
     CleanupDirectory, CleanupDelete, LogsPop, DeployNetcat, DeployReadKey,
     DeployConstruct, DeployCheckLock, DeployCancel, DeployHsetBuild, DeployRun,
     DeployRegister
<1>2. pc[t] \in Steps \ {"idle"} /\ waited[t] \in 0 .. MaxWait /\ MaxWait \in Nat
  BY DEF Work, Step, StatusStep, LogStep, DeployStep, CallRaises,
     FallibleSteps, DeployCopyTemplate, SetVmWaitForPlaybook, StatusExists, StatusInActive,
     StatusGetPlaybook, CheckStatusPoll, CheckStatusHset, CheckStatusReturncode,
     StatusReply, LogsExists, LogsInActive, LogsGetPlaybook, GetLogs, LogsHget,
     CleanupDirectory, CleanupDelete, LogsPop, DeployNetcat, DeployReadKey,
     DeployConstruct, DeployCheckLock, DeployCancel, DeployHsetBuild, DeployRun,
     DeployRegister
<1>8. StepsToGo(t)' = IF pc'[t] = "idle" THEN 0
                      ELSE ToGo(pc'[t]) + (MaxWait - waited'[t])
  BY DEF StepsToGo
<1>9. /\ ToGo(pc[t]) \in Nat \ {0}
      /\ StepsToGo(t) = ToGo(pc[t]) + (MaxWait - waited[t])
  BY <1>2, ToGoType DEF StepsToGo
<1>3. CASE pc'[t] = "idle"
  BY <1>1, <1>2, <1>3, <1>8, <1>9
<1>4. CASE pc'[t] \in Steps /\ ToGo(pc'[t]) < ToGo(pc[t]) /\ waited'[t] = waited[t]
  <2>1. ToGo(pc'[t]) \in Nat
    BY <1>4, ToGoType
  <2> QED
    BY <1>1, <1>2, <1>4, <1>8, <1>9, <2>1
<1>5. CASE pc'[t] = pc[t] /\ waited'[t] = waited[t] + 1
  BY <1>1, <1>2, <1>5, <1>8, <1>9
<1>6. CASE Return(t)
  BY <1>3, <1>6 DEF Return
<1>7. ASSUME ~Return(t)
      PROVE  StepsToGo(t)' < StepsToGo(t)
  <2>1. CASE \/ StatusExists(t) \/ StatusInActive(t) \/ StatusGetPlaybook(t)
             \/ CheckStatusPoll(t) \/ CheckStatusHset(t)
             \/ CheckStatusReturncode(t)
    <3>1. /\ waited' = waited
          /\ \/ pc[t] = "st_exists" /\ pc'[t] = "st_active"
             \/ pc[t] = "st_active" /\ pc'[t] \in {"st_get", "st_hget"}
             \/ pc[t] = "st_get" /\ pc'[t] = "st_poll"
             \/ pc[t] = "st_poll" /\ pc'[t] \in {"st_hget", "st_hset"}
             \/ pc[t] = "st_hset" /\ pc'[t] = "st_code"
             \/ pc[t] = "st_code" /\ pc'[t] = "st_hget"
      BY <1>7, <2>1 DEF StatusExists, StatusInActive, StatusGetPlaybook,
         CheckStatusPoll, CheckStatusHset, CheckStatusReturncode
    <3> QED
      BY <1>4, <3>1, ToGos DEF Steps, StatusSteps
  <2>2. CASE \/ LogsExists(t) \/ LogsInActive(t) \/ LogsGetPlaybook(t)
             \/ GetLogs(t) \/ LogsHget(t) \/ CleanupDirectory(t)
             \/ CleanupDelete(t)
    <3>1. /\ waited' = waited
          /\ \/ pc[t] = "lg_exists" /\ pc'[t] = "lg_active"
             \/ pc[t] = "lg_active" /\ pc'[t] = "lg_get"
             \/ pc[t] = "lg_get" /\ pc'[t] = "lg_read"
             \/ pc[t] = "lg_read" /\ pc'[t] = "lg_hget"
             \/ pc[t] = "lg_hget" /\ pc'[t] = "lg_clean"
             \/ pc[t] = "lg_clean" /\ pc'[t] = "lg_delete"
             \/ pc[t] = "lg_delete" /\ pc'[t] = "lg_pop"
      BY <1>7, <2>2 DEF LogsExists, LogsInActive, LogsGetPlaybook, GetLogs,
         LogsHget, CleanupDirectory, CleanupDelete
    <3> QED
      BY <1>4, <3>1, ToGos DEF Steps, LogSteps
  <2>3. CASE \/ DeployNetcat(t) \/ DeployReadKey(t)
             \/ DeployCopyTemplate(t) \/ DeployConstruct(t)
             \/ DeployHsetBuild(t) \/ DeployRun(t)
    <3>1. /\ waited' = waited
          /\ \/ pc[t] = "dp_netcat" /\ pc'[t] = "dp_key"
             \/ pc[t] = "dp_key" /\ pc'[t] = "dp_copy"
             \/ pc[t] = "dp_copy" /\ pc'[t] = "dp_resenvs"
             \/ pc[t] = "dp_resenvs" /\ pc'[t] = "dp_lock"
             \/ pc[t] = "dp_build" /\ pc'[t] = "dp_run"
             \/ pc[t] = "dp_run" /\ pc'[t] = "dp_register"
      BY <1>7, <2>3 DEF DeployNetcat, DeployReadKey, DeployCopyTemplate,
         DeployConstruct, DeployHsetBuild, DeployRun
    <3> QED
      BY <1>4, <3>1, ToGos DEF Steps, DeploySteps
  <2>4. CASE \E locked \in BOOLEAN : DeployCheckLock(t, locked)
    <3>1. \/ pc' = pc /\ waited'[t] = waited[t] + 1
          \/ /\ waited' = waited
             /\ pc[t] = "dp_lock" /\ pc'[t] \in {"dp_build", "dp_fail"}
      BY <2>4 DEF DeployCheckLock
    <3> QED
      BY <1>4, <1>5, <3>1, ToGos DEF Steps, DeploySteps
  <2> QED
    BY <1>7, <2>1, <2>2, <2>3, <2>4
    DEF Work, Step, StatusStep, LogStep, DeployStep, CallRaises,
       SetVmWaitForPlaybook, StatusReply,
       LogsPop, DeployCancel, DeployRegister
<1> QED
  BY <1>1, <1>6, <1>7

(* A request takes at most eight steps and MaxWait minutes of waiting for  *)
(* the templates, whatever the other requests, the playbooks and the lock  *)
(* of the template update do.                                              *)
THEOREM RequestsEnd == Spec => RequestsGetCloser
<1>1. ASSUME TypeOK, Next, NEW t \in Threads, pc[t] # "idle"
      PROVE  StepsToGo(t)' < StepsToGo(t) \/ (UNCHANGED <<pc[t], waited[t]>> /\ ~Work(t))
  <2>1. CASE Work(t)
    BY <1>1, <2>1, StepCloser
  <2>2. ASSUME NEW u \in Threads, u # t, Work(u)
        PROVE  UNCHANGED <<pc[t], waited[t]>>
    BY <1>1, <2>2, StepCloser
  <2>3. ASSUME NEW u \in Threads, Request(u)
        PROVE  UNCHANGED <<pc[t], waited[t]>>
    BY <1>1, <2>3 DEF Request, StartServer, BeginStatus, BeginLogs, BeginDeploy,
       Accept, TypeOK
  <2>4. ASSUME \E p \in Playbooks : ProcessExit(p)
        PROVE  UNCHANGED <<pc[t], waited[t]>>
    BY <2>4 DEF ProcessExit, locals
  <2>5. CASE Restart
    <3>1. pc'[t] = "idle" /\ pc[t] \in Steps /\ waited[t] \in 0 .. MaxWait
      BY <1>1, <2>5 DEF Restart, TypeOK
    <3> QED
      BY <1>1, <3>1, ToGoType, ConstantsAssumption DEF StepsToGo
  <2> QED
    BY <1>1, <2>1, <2>2, <2>3, <2>4, <2>5 DEF Next
<1>2. TypeOK /\ [Next]_vars =>
        [\A t \in Threads : pc[t] # "idle" =>
           StepsToGo(t)' < StepsToGo(t) \/ (UNCHANGED <<pc[t], waited[t]>> /\ ~Work(t))]_vars
  BY <1>1
<1> QED
  BY <1>2, TypeCorrect, PTL DEF Spec, RequestsGetCloser
=============================================================================
