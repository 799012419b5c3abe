-------------------------------- MODULE Forc --------------------------------
(***************************************************************************)
(* ForcConnector as a whole: the requests of Playbooks and the update of   *)
(* TemplateUpdate, which share active_playbooks, Redis, Template.is_locked *)
(* and the directory plays/resenvs.                                        *)
(***************************************************************************)
EXTENDS Playbooks

CONSTANTS ForcEditions, Templates, MaxRetries, MaxUpdates

VARIABLES isLocked,       \* Template.is_locked
          resenvs, allTemplates, offered, loaded, forcAllowed,
          serving, upc, archive, todo, parsed, tries, size, left, seen, id,
          updates, changed,
          gone    \* history: templates the update in progress has removed

U == INSTANCE TemplateUpdate WITH
       registered <- {v \in VMs : active[v] # NoPlaybook},
       recorded   <- {v \in VMs : Exists(v)}

updateVars == <<isLocked, resenvs, allTemplates, offered, loaded,
                forcAllowed, serving, upc, archive, todo, parsed, tries, size,
                left, seen, id, updates>>
fvars == <<vars, updateVars, changed, gone>>

ASSUME ForcAssumption == U!TemplateAssumption

FInit == Init /\ U!UInit /\ gone = {}

(* Playbook(...) copies the directory of the template that the request     *)
(* names, if it names one; that raises when there is no such directory.    *)
(* (Every other failure of Playbook(...) is one of its second copy.)       *)
CopyStep(t) ==
  pc[t] = "dp_copy" /\ pc'[t] = "idle" => \E n \in Templates : resenvs[n] = "absent"

(* The keys of active_playbooks, as the loop of the update sees them.      *)
Keys == {v \in VMs : active[v] # NoPlaybook}
NoteChange == changed' = (upc \in U!LookSteps /\ (changed \/ Keys' # Keys))

-----------------------------------------------------------------------------
(* The server accepts requests once Template.__init__ is over.             *)
Serve(t) ==
  /\ serving
  /\ Request(t)
  /\ NoteChange
  /\ UNCHANGED <<updateVars, gone>>

Proceed(t) ==
  /\ \/ Step(t) /\ CopyStep(t)
     \/ DeployCheckLock(t, isLocked)
  /\ NoteChange
  /\ UNCHANGED <<updateVars, gone>>

AnsibleEnds(p) == ProcessExit(p) /\ UNCHANGED <<updateVars, changed, gone>>

Update ==
  /\ UNCHANGED vars
  /\ U!UStep
  /\ gone' = {n \in Templates : /\ isLocked' /\ resenvs'[n] = "absent"
                                /\ n \in gone \/ resenvs[n] # "absent"}

FRestart == Restart /\ U!URestart /\ gone' = {}

FNext ==
  \/ \E t \in Threads : Serve(t) \/ Proceed(t)
  \/ \E p \in Playbooks : AnsibleEnds(p)
  \/ Update
  \/ FRestart

FSpec == FInit /\ [][FNext]_fvars

-----------------------------------------------------------------------------
(* Properties.                                                             *)

(* The job of the scheduler starts no update over a run: every registered  *)
(* playbook of a VM that was deployed once is over and cleaned up, unless  *)
(* the keys of the dictionary changed under the loop that looks for one.   *)
(* (A deploy that has passed its look at the lock but is not registered    *)
(* yet is beyond its sight.)                                               *)
UpdateSparesRuns ==
  [][upc # "lock" /\ upc' = "lock" /\ serving' /\ ~changed =>
       \A v \in VMs : active[v] # NoPlaybook /\ DeployedOnce(v) =>
         proc[active[v]] \in Exited /\ dir[active[v]] = "removed"]_fvars

(* "Template is currently updating...Wait for {...} minutes..."            *)
(* (forc_connector.py): a deploy that meets an update would wait for its   *)
(* end.  If it fails meanwhile for want of a template, that is one which   *)
(* was missing before, not one that the update has just removed.           *)
DeployWaitsForUpdate ==
  [][\A t \in Threads :
       pc[t] = "dp_copy" /\ pc'[t] = "idle" /\ isLocked /\ isLocked' =>
         \E n \in Templates : resenvs[n] = "absent" /\ n \notin gone]_fvars
=============================================================================
