------------------------------ MODULE Playbooks ------------------------------
(***************************************************************************)
(* The life of an Ansible playbook in the simplevm client: from the        *)
(* request that starts a VM with a generated key, through the deploy call, *)
(* to the status and log requests that poll the run and finally drop it.   *)
(*                                                                         *)
(* Four RPCs of VirtualMachineHandler run in the threads of a              *)
(* TThreadPoolServer without any lock.  They share                         *)
(*   - the Redis hash of each VM, which outlives the process, and          *)
(*   - ForcConnector.active_playbooks, a class attribute that does not.    *)
(* An action is one Redis command, one access to active_playbooks or one   *)
(* look at the child process; the purely local code around it is part of   *)
(* the same action.  A thread may be preempted between any two of them.    *)
(***************************************************************************)
EXTENDS Integers, FiniteSets

CONSTANTS
  Threads,      \* worker threads of the server (cfg["server"]["threads"])
  VMs,          \* OpenStack server ids, one for each server ever started
  Playbooks,    \* Playbook objects; their number bounds the deploy calls
  NoVM,         \* "no server": the thread serves no request
  NoPlaybook,   \* "no playbook": absent key, or a local not yet bound
  MaxWait,      \* lock checks before a deploy gives up (5 min / 60 s = 5)
  MaxRestarts   \* bound on the crashes of the client

ASSUME ConstantsAssumption ==
  /\ NoVM \notin VMs
  /\ NoPlaybook \notin Playbooks
  /\ MaxWait \in Nat
  /\ MaxRestarts \in Nat

VARIABLES
  servers,      \* the servers start_server_with_playbook has created
  redis,        \* redis[v]: the hash of VM v
  active,       \* ForcConnector.active_playbooks
  unanswered,   \* history: VMs with a write to the hash that got no answer,
                \* as long as their playbook is registered
  owner,        \* owner[p]: the VM that Playbook object p was built for
  proc,         \* proc[p]: the object and its ansible-playbook process
  returncode,   \* Playbook.returncode
  dir,          \* dir[p]: the TemporaryDirectory of p
  pc, vm, pb,   \* per thread: next step, openstack_id, local playbook
  rc,           \* per thread: the local `done` or `status` (an exit code)
  waited,       \* per thread: lock checks so far
  restarts      \* crashes so far

store   == <<servers, redis, active, unanswered>>
objects == <<owner, proc, returncode, dir>>
locals  == <<pc, vm, pb, rc, waited>>
vars    == <<store, objects, locals, restarts>>

-----------------------------------------------------------------------------
(* Values.                                                                 *)

NotRun == -1                    \* Playbook.returncode before check_status
ExitCodes == {NotRun, 0, 1}     \* 1 stands for every non-zero exit code

FinalStates == {"failed", "successful"}
TaskStates  == {"prepare", "building"} \cup FinalStates

(* A hash has no field at all, only "status", or also "key" and "name".    *)
Hashes == [status : TaskStates \cup {"none"}, full : BOOLEAN]
Absent == [status |-> "none", full |-> FALSE]
Exists(v) == redis[v] # Absent

(* "new": constructed, not started; the others are the process's state.    *)
ProcStates == {"none", "new", "running", "ok", "failed"}
Started == {"running", "ok", "failed"}
Exited  == {"ok", "failed"}
ExitCode(state) == IF state = "ok" THEN 0 ELSE 1

StatusSteps == {"st_exists", "st_active", "st_get", "st_poll", "st_hset",
                "st_code", "st_hget"}
LogSteps    == {"lg_exists", "lg_active", "lg_get", "lg_read", "lg_hget",
                "lg_clean", "lg_delete", "lg_pop"}
DeploySteps == {"dp_netcat", "dp_key", "dp_copy", "dp_resenvs", "dp_lock",
                "dp_fail", "dp_build", "dp_run", "dp_register"}
Steps == {"idle", "set_wait"} \cup StatusSteps \cup LogSteps \cup DeploySteps

(* A Redis command raises when it gets no answer, and a file or a directory *)
(* may not be readable or removable.                                       *)
FallibleSteps == {"set_wait", "st_exists", "st_hset", "st_hget", "lg_exists",
                  "lg_read", "lg_hget", "lg_clean", "lg_delete", "dp_key",
                  "dp_copy", "dp_resenvs", "dp_fail", "dp_build"}

(* An object lives while the dictionary or a thread refers to it; when it  *)
(* dies, its TemporaryDirectory is removed with it.  A directory of an     *)
(* earlier incarnation of the client ("left") is not.                      *)
Referenced(p) == (\E v \in VMs : active[v] = p) \/ (\E t \in Threads : pb[t] = p)
DirExists(p)  == dir[p] = "left" \/ (dir[p] = "live" /\ Referenced(p))

Fresh(p) == proc[p] = "none" /\ \A t \in Threads : pb[t] # p

-----------------------------------------------------------------------------
Init ==
  /\ servers = {}
  /\ redis = [v \in VMs |-> Absent]
  /\ active = [v \in VMs |-> NoPlaybook]
  /\ unanswered = {}
  /\ owner = [p \in Playbooks |-> NoVM]
  /\ proc = [p \in Playbooks |-> "none"]
  /\ returncode = [p \in Playbooks |-> NotRun]
  /\ dir = [p \in Playbooks |-> "none"]
  /\ pc = [t \in Threads |-> "idle"]
  /\ vm = [t \in Threads |-> NoVM]
  /\ pb = [t \in Threads |-> NoPlaybook]
  /\ rc = [t \in Threads |-> NotRun]
  /\ waited = [t \in Threads |-> 0]
  /\ restarts = 0

(* Thread t goes on to step s with its other locals as they are.           *)
Goto(t, s) ==
  /\ pc' = [pc EXCEPT ![t] = s]
  /\ UNCHANGED <<vm, waited>>

(* Thread t takes a request about VM v.                                    *)
Accept(t, v, s) ==
  /\ pc[t] = "idle"
  /\ pc' = [pc EXCEPT ![t] = s]
  /\ vm' = [vm EXCEPT ![t] = v]
  /\ UNCHANGED <<rc, waited>>

(* Thread t leaves the handler, with a result or an exception; its locals  *)
(* go out of scope.  An exception the handler does not declare reaches the *)
(* Thrift processor, which sends it to the caller and keeps the thread.    *)
Return(t) ==
  /\ pc' = [pc EXCEPT ![t] = "idle"]
  /\ vm' = [vm EXCEPT ![t] = NoVM]
  /\ pb' = [pb EXCEPT ![t] = NoPlaybook]
  /\ rc' = [rc EXCEPT ![t] = NotRun]
  /\ waited' = [waited EXCEPT ![t] = 0]

(* The call at the thread's step raises and has had no effect.             *)
CallRaises(t) ==
  /\ pc[t] \in FallibleSteps
  /\ Return(t)
  /\ UNCHANGED <<store, objects, restarts>>

(* HSET <openstack_id> status <s>: creates the hash when there is none.    *)
SetStatus(v, s) == redis' = [redis EXCEPT ![v].status = s]

-----------------------------------------------------------------------------
(* Mutants: what the named action would be with a plausible bug.  They are *)
(* not part of the specification.                                          *)

(* CheckStatusPoll, with `if not done` for success: None counts as 0.      *)
PollTakesNoneForZero(t) ==
  /\ pc[t] = "st_poll"
  /\ rc' = [rc EXCEPT ![t] = IF proc[pb[t]] = "failed" THEN 1 ELSE 0]
  /\ Goto(t, "st_hset")
  /\ UNCHANGED <<store, objects, pb, restarts>>

(* CheckStatusReturncode that only the failure branch performs.            *)
ReturncodeOfFailuresOnly(t) ==
  /\ pc[t] = "st_code"
  /\ returncode' = [returncode EXCEPT ![pb[t]] = IF rc[t] = 0 THEN @ ELSE rc[t]]
  /\ Goto(t, "st_hget")
  /\ UNCHANGED <<store, owner, proc, dir, pb, rc, restarts>>

(* LogsHget without the question whether the run is over.                  *)
CleanUpAlways(t) ==
  /\ pc[t] = "lg_hget"
  /\ Goto(t, "lg_clean")
  /\ UNCHANGED <<store, objects, pb, rc, restarts>>

(* LogsPop that forgets to unregister the playbook.                        *)
ReturnWithoutPop(t) ==
  /\ pc[t] = "lg_pop"
  /\ Return(t)
  /\ UNCHANGED <<store, objects, restarts>>

(* DeployCheckLock that compares with <= and so waits once too often.      *)
WaitOnceMore(t, locked) ==
  /\ pc[t] = "dp_lock"
  /\ \/ /\ ~locked
        /\ Goto(t, "dp_build")
     \/ /\ locked
        /\ waited[t] <= MaxWait
        /\ waited' = [waited EXCEPT ![t] = @ + 1]
        /\ UNCHANGED <<pc, vm>>
     \/ /\ locked
        /\ waited[t] > MaxWait
        /\ Goto(t, "dp_fail")
  /\ UNCHANGED <<store, objects, pb, rc, restarts>>

(* DeployCheckLock without a limit.                                        *)
WaitForever(t, locked) ==
  /\ pc[t] = "dp_lock"
  /\ ~locked
  /\ Goto(t, "dp_build")
  /\ UNCHANGED <<store, objects, pb, rc, restarts>>

(* DeployRegister, with "building" written after the registration.         *)
RegisterThenHset(t) ==
  /\ pc[t] = "dp_register"
  /\ \/ /\ active[vm[t]] # pb[t]
        /\ active' = [active EXCEPT ![vm[t]] = pb[t]]
        /\ UNCHANGED <<redis, locals>>
     \/ /\ active[vm[t]] = pb[t]
        /\ SetStatus(vm[t], "building")
        /\ Return(t)
        /\ UNCHANGED active
  /\ UNCHANGED <<servers, unanswered, objects, restarts>>

-----------------------------------------------------------------------------
(* start_server_with_custom_key                                            *)
(*                                                                         *)
(* A write to Redis whose answer is lost raises as well, after its effect. *)

(* OpenStack creates the server; its id is new.                            *)
StartServer(t, v) ==
  /\ v \notin servers
  /\ Accept(t, v, "set_wait")
  /\ servers' = servers \cup {v}
  /\ UNCHANGED <<redis, active, unanswered, objects, pb, restarts>>

SetVmWaitForPlaybook(t) ==
  /\ pc[t] = "set_wait"
  /\ redis' = [redis EXCEPT ![vm[t]] = [status |-> "prepare", full |-> TRUE]]
  /\ Return(t)
  /\ UNCHANGED <<servers, active, unanswered, objects, restarts>>

-----------------------------------------------------------------------------
(* get_server, get_servers, get_server_by_unique_name: each server read    *)
(* from OpenStack goes through get_playbook_status.                        *)

BeginStatus(t, v) ==
  /\ v \in servers
  /\ Accept(t, v, "st_exists")
  /\ UNCHANGED <<store, objects, pb, restarts>>

StatusExists(t) ==
  /\ pc[t] = "st_exists"
  /\ \/ /\ Exists(vm[t])
        /\ Goto(t, "st_active")
        /\ UNCHANGED <<pb, rc>>
     \/ /\ ~Exists(vm[t])
        /\ Return(t)
  /\ UNCHANGED <<store, objects, restarts>>

StatusInActive(t) ==
  /\ pc[t] = "st_active"
  /\ Goto(t, IF active[vm[t]] # NoPlaybook THEN "st_get" ELSE "st_hget")
  /\ UNCHANGED <<store, objects, pb, rc, restarts>>

(* The dictionary is read a second time: KeyError when the entry is gone.  *)
StatusGetPlaybook(t) ==
  /\ pc[t] = "st_get"
  /\ \/ /\ active[vm[t]] # NoPlaybook
        /\ pb' = [pb EXCEPT ![t] = active[vm[t]]]
        /\ Goto(t, "st_poll")
        /\ UNCHANGED rc
     \/ /\ active[vm[t]] = NoPlaybook
        /\ Return(t)
  /\ UNCHANGED <<store, objects, restarts>>

(* Playbook.check_status: Popen.poll() gives None while the process runs.  *)
CheckStatusPoll(t) ==
  /\ pc[t] = "st_poll"
  /\ \/ /\ proc[pb[t]] = "running"
        /\ Goto(t, "st_hget")
        /\ UNCHANGED rc
     \/ /\ proc[pb[t]] \in Exited
        /\ rc' = [rc EXCEPT ![t] = ExitCode(proc[pb[t]])]
        /\ Goto(t, "st_hset")
  /\ UNCHANGED <<store, objects, pb, restarts>>

CheckStatusHset(t) ==
  /\ pc[t] = "st_hset"
  /\ SetStatus(vm[t], IF rc[t] = 0 THEN "successful" ELSE "failed")
  /\ \/ /\ Goto(t, "st_code")
        /\ UNCHANGED <<unanswered, pb, rc>>
     \/ /\ Return(t)
        /\ unanswered' = unanswered \cup {vm[t]}
  /\ UNCHANGED <<servers, active, objects, restarts>>

(* The exit code is stored only after the final status is visible.         *)
CheckStatusReturncode(t) ==
  /\ pc[t] = "st_code"
  /\ returncode' = [returncode EXCEPT ![pb[t]] = rc[t]]
  /\ Goto(t, "st_hget")
  /\ UNCHANGED <<store, owner, proc, dir, pb, rc, restarts>>

(* hget(...).decode: AttributeError when the hash is gone.                 *)
StatusReply(t) ==
  /\ pc[t] = "st_hget"
  /\ Return(t)
  /\ UNCHANGED <<store, objects, restarts>>

-----------------------------------------------------------------------------
(* get_playbook_logs                                                       *)

BeginLogs(t, v) ==
  /\ v \in servers
  /\ Accept(t, v, "lg_exists")
  /\ UNCHANGED <<store, objects, pb, restarts>>

(* is_playbook_active: EXISTS and then a look into the dictionary.         *)
LogsExists(t) ==
  /\ pc[t] = "lg_exists"
  /\ \/ /\ Exists(vm[t])
        /\ Goto(t, "lg_active")
        /\ UNCHANGED <<pb, rc>>
     \/ /\ ~Exists(vm[t])
        /\ Return(t)
  /\ UNCHANGED <<store, objects, restarts>>

LogsInActive(t) ==
  /\ pc[t] = "lg_active"
  /\ \/ /\ active[vm[t]] # NoPlaybook
        /\ Goto(t, "lg_get")
        /\ UNCHANGED <<pb, rc>>
     \/ /\ active[vm[t]] = NoPlaybook
        /\ Return(t)
  /\ UNCHANGED <<store, objects, restarts>>

LogsGetPlaybook(t) ==
  /\ pc[t] = "lg_get"
  /\ \/ /\ active[vm[t]] # NoPlaybook
        /\ pb' = [pb EXCEPT ![t] = active[vm[t]]]
        /\ Goto(t, "lg_read")
        /\ UNCHANGED rc
     \/ /\ active[vm[t]] = NoPlaybook
        /\ Return(t)
  /\ UNCHANGED <<store, objects, restarts>>

(* Playbook.get_logs returns the exit code as check_status left it.        *)
GetLogs(t) ==
  /\ pc[t] = "lg_read"
  /\ rc' = [rc EXCEPT ![t] = returncode[pb[t]]]
  /\ Goto(t, "lg_hget")
  /\ UNCHANGED <<store, objects, pb, restarts>>

(* Only now the status is read, and decides whether the run is over;       *)
(* AttributeError when the hash is gone.                                   *)
LogsHget(t) ==
  LET status == redis[vm[t]].status IN
  /\ pc[t] = "lg_hget"
  /\ \/ /\ status \in FinalStates
        /\ Goto(t, "lg_clean")
        /\ UNCHANGED <<pb, rc>>
     \/ /\ status \notin FinalStates
        /\ Return(t)
  /\ UNCHANGED <<store, objects, restarts>>

(* Playbook.cleanup: the directory, then the hash.                         *)
CleanupDirectory(t) ==
  /\ pc[t] = "lg_clean"
  /\ dir' = [dir EXCEPT ![pb[t]] = "removed"]
  /\ Goto(t, "lg_delete")
  /\ UNCHANGED <<store, owner, proc, returncode, pb, rc, restarts>>

CleanupDelete(t) ==
  /\ pc[t] = "lg_delete"
  /\ redis' = [redis EXCEPT ![vm[t]] = Absent]
  /\ \/ /\ Goto(t, "lg_pop")
        /\ UNCHANGED <<unanswered, pb, rc>>
     \/ /\ Return(t)
        /\ unanswered' = unanswered \cup {vm[t]}
  /\ UNCHANGED <<servers, active, objects, restarts>>

(* active_playbooks.pop(openstack_id): whatever is registered; KeyError    *)
(* when nothing is.                                                        *)
LogsPop(t) ==
  /\ pc[t] = "lg_pop"
  /\ active' = [active EXCEPT ![vm[t]] = NoPlaybook]
  /\ unanswered' = unanswered \ {vm[t]}
  /\ Return(t)
  /\ UNCHANGED <<servers, redis, objects, restarts>>

-----------------------------------------------------------------------------
(* create_and_deploy_playbook                                              *)

(* p stands for the object the call may construct.                         *)
BeginDeploy(t, v, p) ==
  /\ v \in servers
  /\ Fresh(p)
  /\ Accept(t, v, "dp_netcat")
  /\ pb' = [pb EXCEPT ![t] = p]
  /\ UNCHANGED <<store, objects, restarts>>

(* The handler deploys nothing on a VM whose SSH port does not answer, or  *)
(* whose ports OpenStack does not tell.                                    *)
DeployNetcat(t) ==
  /\ pc[t] = "dp_netcat"
  /\ \/ /\ Goto(t, "dp_key")
        /\ UNCHANGED <<pb, rc>>
     \/ Return(t)
  /\ UNCHANGED <<store, objects, restarts>>

(* hget(openstack_id, "key").decode: AttributeError without the key.       *)
DeployReadKey(t) ==
  /\ pc[t] = "dp_key"
  /\ \/ /\ redis[vm[t]].full
        /\ Goto(t, "dp_copy")
        /\ UNCHANGED <<pb, rc>>
     \/ /\ ~redis[vm[t]].full
        /\ Return(t)
  /\ UNCHANGED <<store, objects, restarts>>

(* Playbook(...) makes the directory and copies the templates into it, the *)
(* one it was asked for and then all of them with the generic playbook:    *)
(* two calls between which a template may disappear.  One that cannot be   *)
(* copied raises (CallRaises), and the object is gone again.               *)
DeployCopyTemplate(t) ==
  /\ pc[t] = "dp_copy"
  /\ Goto(t, "dp_resenvs")
  /\ UNCHANGED <<store, objects, pb, rc, restarts>>

DeployConstruct(t) ==
  /\ pc[t] = "dp_resenvs"
  /\ owner' = [owner EXCEPT ![pb[t]] = vm[t]]
  /\ proc' = [proc EXCEPT ![pb[t]] = "new"]
  /\ dir' = [dir EXCEPT ![pb[t]] = "live"]
  /\ Goto(t, "dp_lock")
  /\ UNCHANGED <<store, returncode, pb, rc, restarts>>

(* while is_update_locked(): once a minute, for at most five minutes.      *)
DeployCheckLock(t, locked) ==
  /\ pc[t] = "dp_lock"
  /\ \/ /\ ~locked
        /\ Goto(t, "dp_build")
        /\ UNCHANGED <<pb, rc>>
     \/ /\ locked
        /\ waited[t] < MaxWait
        /\ waited' = [waited EXCEPT ![t] = @ + 1]
        /\ UNCHANGED <<pc, vm, pb, rc>>
     \/ /\ locked
        /\ waited[t] >= MaxWait
        /\ Goto(t, "dp_fail")
        /\ UNCHANGED <<pb, rc>>
  /\ UNCHANGED <<store, objects, restarts>>

DeployCancel(t) ==
  /\ pc[t] = "dp_fail"
  /\ SetStatus(vm[t], "failed")
  /\ Return(t)
  /\ UNCHANGED <<servers, active, unanswered, objects, restarts>>

DeployHsetBuild(t) ==
  /\ pc[t] = "dp_build"
  /\ SetStatus(vm[t], "building")
  /\ \/ /\ Goto(t, "dp_run")
        /\ UNCHANGED <<pb, rc>>
     \/ Return(t)
  /\ UNCHANGED <<servers, active, unanswered, objects, restarts>>

(* Playbook.run_it: Popen starts ansible-playbook or raises OSError.       *)
DeployRun(t) ==
  /\ pc[t] = "dp_run"
  /\ \/ /\ proc' = [proc EXCEPT ![pb[t]] = "running"]
        /\ Goto(t, "dp_register")
        /\ UNCHANGED <<pb, rc>>
     \/ /\ Return(t)
        /\ UNCHANGED proc
  /\ UNCHANGED <<store, owner, returncode, dir, restarts>>

DeployRegister(t) ==
  /\ pc[t] = "dp_register"
  /\ active' = [active EXCEPT ![vm[t]] = pb[t]]
  /\ Return(t)
  /\ UNCHANGED <<servers, redis, unanswered, objects, restarts>>

-----------------------------------------------------------------------------
(* Around the threads.                                                     *)

(* ansible-playbook ends by itself.                                        *)
ProcessExit(p) ==
  /\ proc[p] = "running"
  /\ \E s \in Exited : proc' = [proc EXCEPT ![p] = s]
  /\ UNCHANGED <<store, owner, returncode, dir, locals, restarts>>

(* The client dies without a signal it could handle and starts again: the  *)
(* threads, the dictionary and its objects are lost, Redis, the servers,   *)
(* the temporary directories and the child processes stay.                 *)
Restart ==
  /\ restarts < MaxRestarts
  /\ restarts' = restarts + 1
  /\ active' = [v \in VMs |-> NoPlaybook]
  /\ unanswered' = {}
  /\ returncode' = [p \in Playbooks |-> NotRun]
  /\ dir' = [p \in Playbooks |-> IF DirExists(p) THEN "left" ELSE dir[p]]
  /\ pc' = [t \in Threads |-> "idle"]
  /\ vm' = [t \in Threads |-> NoVM]
  /\ pb' = [t \in Threads |-> NoPlaybook]
  /\ rc' = [t \in Threads |-> NotRun]
  /\ waited' = [t \in Threads |-> 0]
  /\ UNCHANGED <<servers, redis, owner, proc>>

Request(t) ==
  \E v \in VMs :
    \/ StartServer(t, v)
    \/ BeginStatus(t, v)
    \/ BeginLogs(t, v)
    \/ \E p \in Playbooks : BeginDeploy(t, v, p)

StatusStep(t) ==
  /\ pc[t] \in StatusSteps
  /\ \/ StatusExists(t) \/ StatusInActive(t) \/ StatusGetPlaybook(t)
     \/ CheckStatusPoll(t) \/ CheckStatusHset(t) \/ CheckStatusReturncode(t)
     \/ StatusReply(t)

LogStep(t) ==
  /\ pc[t] \in LogSteps
  /\ \/ LogsExists(t) \/ LogsInActive(t) \/ LogsGetPlaybook(t) \/ GetLogs(t)
     \/ LogsHget(t) \/ CleanupDirectory(t) \/ CleanupDelete(t) \/ LogsPop(t)

DeployStep(t) ==
  /\ pc[t] \in DeploySteps
  /\ \/ DeployNetcat(t) \/ DeployReadKey(t)
     \/ DeployCopyTemplate(t) \/ DeployConstruct(t)
     \/ DeployCancel(t) \/ DeployHsetBuild(t) \/ DeployRun(t)
     \/ DeployRegister(t)

(* The next step of the request that thread t is serving, unless it is a   *)
(* look at Template.is_locked.                                             *)
Step(t) ==
  \/ CallRaises(t)
  \/ SetVmWaitForPlaybook(t)
  \/ StatusStep(t) \/ LogStep(t) \/ DeployStep(t)

(* Here the lock may be held at any time; Forc has the update that sets it.*)
Work(t) == Step(t) \/ \E locked \in BOOLEAN : DeployCheckLock(t, locked)

Next ==
  \/ \E t \in Threads : Request(t) \/ Work(t)
  \/ \E p \in Playbooks : ProcessExit(p)
  \/ Restart

Spec == Init /\ [][Next]_vars

(* The operating system runs every thread that can run.  Nothing is        *)
(* assumed of the callers, of ansible or of the template update: a deploy  *)
(* may find the lock held whenever it looks.                               *)
FairSpec ==
  Spec /\ \A t \in Threads : WF_vars(Step(t) \/ DeployCheckLock(t, TRUE))

-----------------------------------------------------------------------------
(* Properties.                                                             *)

TypeOK ==
  /\ servers \subseteq VMs
  /\ redis \in [VMs -> Hashes]
  /\ active \in [VMs -> Playbooks \cup {NoPlaybook}]
  /\ unanswered \subseteq VMs
  /\ owner \in [Playbooks -> VMs \cup {NoVM}]
  /\ proc \in [Playbooks -> ProcStates]
  /\ returncode \in [Playbooks -> ExitCodes]
  /\ dir \in [Playbooks -> {"none", "live", "left", "removed"}]
  /\ pc \in [Threads -> Steps]
  /\ vm \in [Threads -> VMs \cup {NoVM}]
  /\ pb \in [Threads -> Playbooks \cup {NoPlaybook}]
  /\ rc \in [Threads -> ExitCodes]
  /\ waited \in [Threads -> 0 .. MaxWait]
  /\ restarts \in 0 .. MaxRestarts

(* The one playbook ever built for its VM: the portal did not repeat the   *)
(* deploy call.                                                            *)
Only(p) == \A q \in Playbooks : owner[q] = owner[p] => q = p
DeployedOnce(v) == \A p, q \in Playbooks : owner[p] = v /\ owner[q] = v => p = q

(* No outcome is invented, whatever requests overlap, repeat or die: a VM  *)
(* is reported successful only if a playbook of its own exited with 0, and *)
(* an exit code that get_playbook_logs holds is that of the process it     *)
(* reports on.                                                             *)
OutcomesAreReal ==
  /\ \A v \in VMs : redis[v].status = "successful" =>
       \E p \in Playbooks : owner[p] = v /\ proc[p] = "ok"
  /\ \A t \in Threads : pc[t] \in LogSteps /\ rc[t] # NotRun =>
       /\ proc[pb[t]] \in Exited
       /\ rc[t] = ExitCode(proc[pb[t]])

(* As long as the portal deploys once per VM, nothing takes the ground     *)
(* from under a running ansible-playbook: its directory exists, and the    *)
(* client can still find it unless it restarted meanwhile.                 *)
RunningIsTracked ==
  \A p \in Playbooks : proc[p] = "running" /\ Only(p) =>
    /\ DirExists(p)
    /\ \/ active[owner[p]] = p
       \/ \E t \in Threads : pc[t] = "dp_register" /\ pb[t] = p
       \/ dir[p] = "left"

(* As long as the portal deploys once per VM, a registered playbook has    *)
(* its Redis hash, so a status or log request finds it, until a log        *)
(* request has cleaned up after a run that is over.  That request is about *)
(* to unregister it, or it died of a command whose answer it did not get.  *)
RegisteredHasRecord ==
  \A v \in VMs : active[v] # NoPlaybook /\ DeployedOnce(v) =>
    \/ Exists(v)
    \/ /\ proc[active[v]] \in Exited /\ dir[active[v]] = "removed"
       /\ \/ \E t \in Threads : vm[t] = v /\ pc[t] = "lg_pop"
          \/ v \in unanswered

(* As long as the portal deploys once per VM, the exit code is never more  *)
(* than one step behind the status: once Redis shows the outcome of a      *)
(* registered playbook, its object has the exit code, or a status request  *)
(* is just about to store it, unless one has died of an HSET that took     *)
(* effect and was not answered.                                            *)
ExitCodeFollowsStatus ==
  \A v \in VMs :
    active[v] # NoPlaybook /\ redis[v].status \in FinalStates /\ DeployedOnce(v) =>
      \/ returncode[active[v]] = ExitCode(proc[active[v]])
      \/ \E t \in Threads : pc[t] = "st_code" /\ vm[t] = v
      \/ v \in unanswered

(* As long as the portal deploys once per VM, the outcome of a run is      *)
(* final: no late "building" and no second verdict replaces it; the hash   *)
(* can only disappear.                                                     *)
FinalStatusSticks ==
  [][\A v \in VMs : redis[v].status \in FinalStates /\ DeployedOnce(v)' =>
       redis'[v].status \in {redis[v].status, "none"}]_vars

(* What the portal sees of a VM is one life of one playbook: its statuses  *)
(* come in order, each is true of the process when it is shown, and what   *)
(* is shown again after the hash was dropped is the same verdict.          *)
Shown(v) == IF DeployedOnce(v) THEN redis[v].status ELSE "repeated"
Run(v) ==
  IF ~DeployedOnce(v) THEN "repeated"
  ELSE IF \E p \in Playbooks : owner[p] = v
  THEN proc[CHOOSE p \in Playbooks : owner[p] = v]
  ELSE "none"

Life == INSTANCE PlaybookLife WITH shown <- [v \in VMs |-> Shown(v)],
                                   run   <- [v \in VMs |-> Run(v)]
ImplementsPlaybookLife == Life!LifeSpec

(* Every request is answered, even if the template update never ends.      *)
EveryRequestReturns ==
  \A t \in Threads : pc[t] # "idle" ~> pc[t] = "idle"

(* portal_client.thrift says of PlaybookResult.status "The exit status     *)
(* code of the run".  The result that ends a run, after which nothing of   *)
(* it can be asked again, would carry the exit code of that run.           *)
FinalResultHasExitCode ==
  \A t \in Threads : pc[t] \in {"lg_clean", "lg_delete", "lg_pop"} =>
    rc[t] = ExitCode(proc[pb[t]])
=============================================================================
