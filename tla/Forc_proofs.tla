----------------------------- MODULE Forc_proofs -----------------------------
(***************************************************************************)
(* What the update of the templates and the requests do to each other, for *)
(* any number of threads, VMs, playbooks and templates: the guarantees of  *)
(* Playbooks survive the real update, and the loop that looks for an       *)
(* active playbook overlooks none, unless the dictionary changed under it. *)
(***************************************************************************)
EXTENDS Forc, Playbooks_proofs

(* What a step of the update does to the lock: it may set or clear it.     *)
LEMMA UpdateLocks ==
  ASSUME U!UStep
  PROVE  isLocked' \in {TRUE, FALSE, isLocked}
  BY DEF U!UStep, U!StartJob, U!CheckStep, U!BeginCheck, U!NextKey, U!LookUp,
     U!UpdateStep, U!Lock, U!Download, U!Remove, U!Move, U!Copy, U!List,
     U!Load, U!AskForc, U!StoreMetadata, U!Unlock

LEMMA LockType ==
  ASSUME isLocked \in BOOLEAN, [FNext]_fvars
  PROVE  isLocked' \in BOOLEAN
<1>1. CASE Update
  BY <1>1, UpdateLocks DEF Update
<1>2. CASE FRestart
  BY <1>2 DEF FRestart, U!URestart
<1> QED
  BY <1>1, <1>2 DEF FNext, Serve, Proceed, AnsibleEnds, fvars, updateVars

(* With the lock of the update, the requests do what they may do with any. *)
LEMMA StepOfPlaybooks ==
  ASSUME isLocked \in BOOLEAN, [FNext]_fvars
  PROVE  [Next]_vars
  BY DEF FNext, Serve, Proceed, AnsibleEnds, Update, FRestart, fvars, Next, Work

LEMMA PlaybooksInForc == FSpec => Spec /\ [](isLocked \in BOOLEAN)
<1>1. FInit => Init /\ isLocked \in BOOLEAN
  BY DEF FInit, U!UInit
<1>2. isLocked \in BOOLEAN /\ [FNext]_fvars => (isLocked \in BOOLEAN)'
  BY LockType
<1>3. isLocked \in BOOLEAN /\ [FNext]_fvars => [Next]_vars
  BY StepOfPlaybooks
<1> QED
  BY <1>1, <1>2, <1>3, PTL DEF FSpec, Spec

-----------------------------------------------------------------------------
(* What the loop of is_any_playbook_active knows of the keys it has passed *)
(* as long as the keys have not changed.                                   *)

Over(v) == active[v] # NoPlaybook /\ DeployedOnce(v) =>
  proc[active[v]] \in Exited /\ dir[active[v]] = "removed"

LoopInv ==
  /\ upc # "look_up" => id = NoVM
  /\ upc \notin U!LookSteps => seen = {} /\ ~changed
  /\ upc \in U!LookSteps /\ ~changed => \A v \in VMs \cap seen : v # id => Over(v)

(* The owner of an object is set once, when the object is constructed.     *)
LEMMA OwnerStays ==
  ASSUME IInv, [Next]_vars, NEW p \in Playbooks, owner[p] # NoVM
  PROVE  owner'[p] = owner[p]
<1>1. ASSUME NEW t \in Threads, DeployConstruct(t)
      PROVE  owner'[p] = owner[p]
  BY <1>1 DEF DeployConstruct, objects, IInv, Consistent, Object, Locals,
     ReserveSteps, TypeOK
<1>2. QED
  BY <1>1
  DEF Next, Request, Work, Step, StatusStep, LogStep, DeployStep, CallRaises,
      DeployCopyTemplate, vars, store, objects, locals, StartServer,
      BeginStatus, BeginLogs, BeginDeploy, SetVmWaitForPlaybook, StatusExists,
      StatusInActive, StatusGetPlaybook, CheckStatusPoll, CheckStatusHset,
      CheckStatusReturncode, StatusReply, LogsExists, LogsInActive,
      LogsGetPlaybook, GetLogs, LogsHget, CleanupDirectory, CleanupDelete,
      LogsPop, DeployNetcat, DeployReadKey, DeployCheckLock, DeployCancel,
      DeployHsetBuild, DeployRun, DeployRegister, ProcessExit, Restart

(* A VM that was not deployed twice by now was not before, so what is      *)
(* registered for it is what was registered.                               *)
LEMMA RegisteredStays ==
  ASSUME IInv, [Next]_vars, NEW v \in VMs, active[v] # NoPlaybook,
         active'[v] # NoPlaybook, DeployedOnce(v)'
  PROVE  DeployedOnce(v) /\ active'[v] = active[v]
<1> DEFINE p == active[v]
<1>1. p \in Playbooks /\ owner[p] = v /\ v # NoVM
  BY ConstantsAssumption DEF IInv, Consistent, TypeOK, Registered
<1>2. active'[v] \in Playbooks /\ owner'[active'[v]] = v
  BY IInvStep DEF IInv, Consistent, TypeOK, Registered
<1>3. owner'[p] = v
  BY <1>1, OwnerStays
<1>4. DeployedOnce(v)
  BY <1>1, OwnerStays DEF DeployedOnce
<1> QED
  BY <1>1, <1>2, <1>3, <1>4 DEF DeployedOnce

(* A process that has ended stays so, and so does a directory that was     *)
(* removed from under a registered object.                                 *)
LEMMA EndedStays ==
  ASSUME IInv, [Next]_vars, NEW p \in Playbooks, proc[p] \in Exited
  PROVE  proc'[p] = proc[p]
<1> USE DEF IInv, Consistent, TypeOK, Locals, Exited
<1>1. CASE UNCHANGED proc
  BY <1>1
<1>2. ASSUME NEW t \in Threads, DeployConstruct(t) PROVE proc'[p] = proc[p]
  BY <1>2 DEF DeployConstruct, ReserveSteps
<1>3. ASSUME NEW t \in Threads, DeployRun(t) PROVE proc'[p] = proc[p]
  BY <1>3 DEF DeployRun, BuildSteps
<1>4. ASSUME NEW q \in Playbooks, ProcessExit(q) PROVE proc'[p] = proc[p]
  BY <1>4 DEF ProcessExit
<1> QED
  BY <1>1, <1>2, <1>3, <1>4
  DEF Next, Request, Work, Step, StatusStep, LogStep, DeployStep, CallRaises,
      DeployCopyTemplate, vars, store, objects, locals, StartServer,
      BeginStatus, BeginLogs, BeginDeploy, SetVmWaitForPlaybook, StatusExists,
      StatusInActive, StatusGetPlaybook, CheckStatusPoll, CheckStatusHset,
      CheckStatusReturncode, StatusReply, LogsExists, LogsInActive,
      LogsGetPlaybook, GetLogs, LogsHget, CleanupDirectory, CleanupDelete,
      LogsPop, DeployNetcat, DeployReadKey, DeployCheckLock, DeployCancel,
      DeployHsetBuild, DeployRegister, Restart

LEMMA RemovedStays ==
  ASSUME IInv, [Next]_vars, NEW p \in Playbooks, proc[p] \in Exited,
         dir[p] = "removed"
  PROVE  dir'[p] = "removed"
<1> USE DEF IInv, Consistent, TypeOK, Locals, Exited
<1>1. CASE UNCHANGED dir
  BY <1>1
<1>2. ASSUME NEW t \in Threads, DeployConstruct(t) PROVE dir'[p] = "removed"
  BY <1>2 DEF DeployConstruct, ReserveSteps
<1>3. ASSUME NEW t \in Threads, CleanupDirectory(t) PROVE dir'[p] = "removed"
  BY <1>3 DEF CleanupDirectory
<1>4. CASE Restart
  BY <1>4 DEF Restart, DirExists
<1> QED
  BY <1>1, <1>2, <1>3, <1>4
  DEF Next, Request, Work, Step, StatusStep, LogStep, DeployStep, CallRaises,
      DeployCopyTemplate, vars, store, objects, locals, StartServer,
      BeginStatus, BeginLogs, BeginDeploy, SetVmWaitForPlaybook, StatusExists,
      StatusInActive, StatusGetPlaybook, CheckStatusPoll, CheckStatusHset,
      CheckStatusReturncode, StatusReply, LogsExists, LogsInActive,
      LogsGetPlaybook, GetLogs, LogsHget, CleanupDelete,
      LogsPop, DeployNetcat, DeployReadKey, DeployCheckLock, DeployCancel,
      DeployHsetBuild, DeployRun, DeployRegister, ProcessExit

LEMMA OverStays ==
  ASSUME IInv, [Next]_vars, NEW v \in VMs, Over(v),
         active'[v] # NoPlaybook => active[v] # NoPlaybook
  PROVE  Over(v)'
<1> SUFFICES ASSUME active'[v] # NoPlaybook, DeployedOnce(v)'
             PROVE  proc'[active'[v]] \in Exited /\ dir'[active'[v]] = "removed"
  BY DEF Over
<1>1. DeployedOnce(v) /\ active'[v] = active[v]
  BY RegisteredStays
<1>2. active[v] \in Playbooks
  BY DEF IInv, Consistent, TypeOK
<1>3. proc[active[v]] \in Exited /\ dir[active[v]] = "removed"
  BY <1>1 DEF Over
<1> QED
  BY <1>1, <1>2, <1>3, EndedStays, RemovedStays

(* A registered playbook that has no hash is over and cleaned up.          *)
LEMMA NoHashIsOver ==
  ASSUME IInv, NEW v \in VMs, ~Exists(v)
  PROVE  Over(v)
  BY DEF IInv, Consistent, TypeOK, Single, RegisteredRecorded, Registered,
         Only, DeployedOnce, Over

LEMMA LoopInvInit == FInit => LoopInv
  BY DEF FInit, U!UInit, LoopInv, U!LookSteps

(* Requests leave what the loop knows as it is, or change a key.           *)
LEMMA LoopInvRequests ==
  ASSUME IInv, LoopInv, [Next]_vars, UNCHANGED <<upc, seen, id>>,
         NoteChange \/ UNCHANGED <<active, changed>>
  PROVE  LoopInv'
<1>1. ASSUME upc \in U!LookSteps, ~changed', NEW v \in VMs \cap seen, v # id
      PROVE  Over(v)'
  <2>1. ~changed /\ (active'[v] # NoPlaybook => active[v] # NoPlaybook)
    <3>1. CASE NoteChange
      <4>1. ~changed /\ Keys' = Keys
        BY <1>1, <3>1 DEF NoteChange
      <4> QED
        BY <4>1 DEF Keys
    <3>2. CASE UNCHANGED <<active, changed>>
      BY <1>1, <3>2
    <3> QED
      BY <3>1, <3>2
  <2>2. Over(v)
    BY <1>1, <2>1 DEF LoopInv
  <2> QED
    BY <1>1, <2>1, <2>2, OverStays
<1>2. upc \notin U!LookSteps => ~changed'
  BY DEF NoteChange, LoopInv
<1> QED
  BY <1>1, <1>2 DEF LoopInv

(* NextKey: a key without a hash is over, one with a hash is looked up     *)
(* before the loop goes on.                                                *)
LEMMA LoopInvNextKey ==
  ASSUME IInv, LoopInv, UNCHANGED vars, U!NextKey
  PROVE  LoopInv'
<1>0. upc = "ask_redis" /\ id = NoVM
  BY DEF U!NextKey, LoopInv
<1>1. ASSUME NEW v \in VMs PROVE Over(v)' <=> Over(v)
  BY DEF Over, DeployedOnce, vars, store, objects
<1>2. CASE U!LeaveLoop /\ upc' \in {"idle", "check", "lock"}
  BY <1>2 DEF U!LeaveLoop, LoopInv, U!LookSteps
<1>3. ASSUME NEW v \in VMs, seen' = seen \cup {v}, UNCHANGED changed,
             IF Exists(v) THEN id' = v /\ upc' = "look_up"
                          ELSE UNCHANGED <<id, upc>>
      PROVE  LoopInv'
  <2>1. ~Exists(v) => Over(v)
    BY NoHashIsOver
  <2>2. upc' \in U!LookSteps /\ (upc' # "look_up" => id' = NoVM)
    BY <1>0, <1>3 DEF U!LookSteps
  <2>3. ASSUME ~changed', NEW w \in VMs \cap seen', w # id'
        PROVE  Over(w)'
    <3>1. CASE w = v
      BY <1>1, <1>3, <2>1, <2>3, <3>1
    <3>2. CASE w # v
      <4>1. w \in VMs \cap seen /\ w # id /\ upc \in U!LookSteps
        BY <1>0, <1>3, <2>3, <3>2, ConstantsAssumption DEF U!LookSteps
      <4> QED
        BY <1>1, <1>3, <2>3, <4>1 DEF LoopInv
    <3> QED
      BY <3>1, <3>2
  <2> QED
    BY <2>2, <2>3 DEF LoopInv
<1> QED
  BY <1>2, <1>3 DEF U!NextKey, U!UGoto, U!FoundNone, U!JobRaises

(* LookUp: the loop goes on only past a key that is gone.                  *)
LEMMA LoopInvLookUp ==
  ASSUME LoopInv, UNCHANGED vars, U!LookUp
  PROVE  LoopInv'
<1>1. CASE U!LeaveLoop /\ upc' \in {"idle", "check"}
  BY <1>1 DEF U!LeaveLoop, LoopInv, U!LookSteps
<1>2. CASE id \notin Keys /\ upc' = "ask_redis" /\ id' = NoVM
           /\ UNCHANGED <<seen, changed>>
  <2>1. ASSUME ~changed', NEW v \in VMs \cap seen
        PROVE  Over(v)'
    <3>1. upc \in U!LookSteps
      BY DEF U!LookUp, U!LookSteps
    <3>2. v # id => Over(v)
      BY <1>2, <2>1, <3>1 DEF LoopInv
    <3>3. v = id => Over(v)
      BY <1>2, <2>1 DEF Keys, Over
    <3> QED
      BY <3>2, <3>3 DEF Over, DeployedOnce, vars, store, objects
  <2> QED
    BY <1>2, <2>1 DEF LoopInv, U!LookSteps
<1> QED
  BY <1>1, <1>2 DEF U!LookUp, U!FoundActive, U!UGoto, Keys

LEMMA LoopInvStep ==
  ASSUME isLocked \in BOOLEAN, IInv, LoopInv, [FNext]_fvars
  PROVE  LoopInv'
<1>0. [Next]_vars
  BY StepOfPlaybooks
<1>1. CASE \E t \in Threads : Serve(t) \/ Proceed(t)
  BY <1>0, <1>1, LoopInvRequests DEF Serve, Proceed, updateVars
<1>2. CASE \E p \in Playbooks : AnsibleEnds(p)
  BY <1>0, <1>2, LoopInvRequests DEF AnsibleEnds, ProcessExit, store, updateVars
<1>3. CASE Update
  <2>1. CASE U!NextKey
    BY <1>3, <2>1, LoopInvNextKey DEF Update
  <2>2. CASE U!LookUp
    BY <1>3, <2>2, LoopInvLookUp DEF Update
  <2>3. CASE U!BeginCheck
    BY <2>3 DEF LoopInv, U!BeginCheck, U!UGoto, U!LookSteps
  <2>4. CASE U!StartJob \/ U!UpdateStep
    <3>1. upc \notin U!LookSteps /\ upc' \notin U!LookSteps /\ UNCHANGED <<seen, id, changed>>
      BY <2>4 DEF U!StartJob, U!UpdateStep, U!UGoto, U!loop, U!LookSteps,
         U!Lock, U!Download, U!Remove, U!Move, U!Copy, U!List, U!Load,
         U!AskForc, U!StoreMetadata, U!Unlock
    <3> QED
      BY <3>1 DEF LoopInv, U!LookSteps
  <2> QED
    BY <1>3, <2>1, <2>2, <2>3, <2>4 DEF Update, U!UStep, U!CheckStep
<1>4. CASE FRestart
  BY <1>4 DEF FRestart, U!URestart, U!LeaveLoop, LoopInv, U!LookSteps
<1>5. CASE UNCHANGED fvars
  BY <1>0, <1>5, LoopInvRequests DEF fvars, vars, store, updateVars
<1> QED
  BY <1>1, <1>2, <1>3, <1>4, <1>5 DEF FNext

(* The job goes on to the update only when the loop is exhausted, so every *)
(* registered VM is one it has passed.                                     *)
LEMMA LoopSparesRuns ==
  ASSUME LoopInv, FNext, upc # "lock", upc' = "lock", serving', ~changed,
         NEW v \in VMs
  PROVE  Over(v)
<1>1. Update
  <2>1. ~FRestart
    BY DEF FRestart, U!URestart
  <2> QED
    BY <2>1 DEF FNext, updateVars, Serve, Proceed, AnsibleEnds
<1>2. U!NextKey
  BY <1>1 DEF Update, U!UStep, U!StartJob, U!CheckStep, U!BeginCheck, U!LookUp,
     U!FoundActive, U!UGoto,
     U!UpdateStep, U!Lock, U!Download, U!Remove, U!Move, U!Copy, U!List,
     U!Load, U!AskForc, U!StoreMetadata, U!Unlock
<1>3. Keys \subseteq seen
  BY <1>2 DEF U!NextKey, U!UGoto, U!JobRaises, Keys
<1>4. upc = "ask_redis" /\ id = NoVM
  BY <1>2 DEF U!NextKey, LoopInv
<1>5. CASE v \in seen
  BY <1>4, <1>5, ConstantsAssumption DEF LoopInv, U!LookSteps
<1>6. CASE v \notin Keys
  BY <1>6 DEF Keys, Over
<1> QED
  BY <1>3, <1>5, <1>6

-----------------------------------------------------------------------------
(* The job of the scheduler starts no update over the run of a VM that was *)
(* deployed once, although is_any_playbook_active asks Redis and the       *)
(* dictionary in turn while requests come and go, unless a key was         *)
(* registered or dropped meanwhile.                                        *)
THEOREM SparesRuns == FSpec => UpdateSparesRuns
<1> DEFINE Spares ==
      upc # "lock" /\ upc' = "lock" /\ serving' /\ ~changed =>
        \A v \in VMs : active[v] # NoPlaybook /\ DeployedOnce(v) =>
          proc[active[v]] \in Exited /\ dir[active[v]] = "removed"
<1>1. LoopInv /\ [FNext]_fvars => [Spares]_fvars
  BY LoopSparesRuns DEF Over
<1>2. isLocked \in BOOLEAN /\ IInv /\ LoopInv /\ [FNext]_fvars => LoopInv'
  BY LoopInvStep
<1>3. FSpec => []IInv /\ [](isLocked \in BOOLEAN)
  BY PlaybooksInForc, Invariance, PTL
<1> QED
  BY <1>1, <1>2, <1>3, LoopInvInit, PTL DEF FSpec, UpdateSparesRuns

(* With the update that really holds the lock, a VM's outcome is real, a   *)
(* running playbook can be found and a final status sticks.                *)
COROLLARY ForcIsSafe ==
  FSpec => /\ [](OutcomesAreReal /\ RunningIsTracked /\ RegisteredHasRecord)
           /\ FinalStatusSticks
  BY PlaybooksInForc, Outcomes, Tracking, Findable, Finality, PTL
=============================================================================
