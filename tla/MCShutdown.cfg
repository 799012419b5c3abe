SPECIFICATION ShutdownSpec
CONSTANTS
  t1 = t1
  v1 = v1
  v2 = v2
  p1 = p1
  p2 = p2
  Threads = {t1}
  VMs = {v1, v2}
  Playbooks = {p1, p2}
  NoVM = NoVM
  NoPlaybook = NoPlaybook
  MaxWait = 0
  MaxRestarts = 1
  MaxSignals = 2
SYMMETRY Symmetry
INVARIANTS
  ShutdownTypeOK
  ExitStopsRuns
  ExitDeletesServers
  DeletedAreStopped
CHECK_DEADLOCK FALSE
