----------------------------- MODULE PlaybookLife -----------------------------
(***************************************************************************)
(* What the portal may rely on when it deploys one playbook on a VM: the   *)
(* statuses it is shown, one after the other, and what the only playbook   *)
(* of the VM has come to by then.  The client promises nothing more about  *)
(* a VM once a second playbook is built for it.                            *)
(***************************************************************************)
CONSTANT VMs

VARIABLES
  shown,  \* shown[v]: the status of v in Redis, "none" without a hash
  run     \* run[v]: the playbook of v, from its construction to its exit

lifeVars == <<shown, run>>

LifeInit ==
  /\ shown = [v \in VMs |-> "none"]
  /\ run = [v \in VMs |-> "none"]

Show(v, s) == shown' = [shown EXCEPT ![v] = s] /\ UNCHANGED run
Become(v, r) == run' = [run EXCEPT ![v] = r] /\ UNCHANGED shown

(* start_server_with_custom_key has stored the key.                        *)
Prepare(v) == shown[v] = "none" /\ run[v] = "none" /\ Show(v, "prepare")

(* The deploy call finds the key and builds the playbook; then it gives up *)
(* over a template update that does not end, or goes on.                   *)
Construct(v) == shown[v] = "prepare" /\ run[v] = "none" /\ Become(v, "new")
Cancel(v) == shown[v] = "prepare" /\ run[v] = "new" /\ Show(v, "failed")
Build(v)  == shown[v] = "prepare" /\ run[v] = "new" /\ Show(v, "building")

Launch(v) == shown[v] = "building" /\ run[v] = "new" /\ Become(v, "running")
Exit(v)   == run[v] = "running" /\ \E r \in {"ok", "failed"} : Become(v, r)

(* The verdict is that of the process.  A status request that is late may  *)
(* show it again after the log request that has dropped the hash.          *)
Report(v) ==
  /\ shown[v] \in {"building", "none"}
  /\ \/ run[v] = "ok" /\ Show(v, "successful")
     \/ run[v] = "failed" /\ Show(v, "failed")

Drop(v) ==
  /\ \/ run[v] = "ok" /\ shown[v] = "successful"
     \/ run[v] = "failed" /\ shown[v] = "failed"
  /\ Show(v, "none")

(* The portal deploys a second playbook on v.                              *)
Repeat(v) ==
  /\ run[v] # "none"
  /\ shown' = [shown EXCEPT ![v] = "repeated"]
  /\ run' = [run EXCEPT ![v] = "repeated"]

LifeStep(v) ==
  \/ Prepare(v) \/ Construct(v) \/ Cancel(v) \/ Build(v) \/ Launch(v)
  \/ Exit(v) \/ Report(v) \/ Drop(v) \/ Repeat(v)

LifeSpec == LifeInit /\ [][\E v \in VMs : LifeStep(v)]_lifeVars
=============================================================================
