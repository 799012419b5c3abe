SPECIFICATION Spec
CONSTANTS
  t1 = t1
  t2 = t2
  v1 = v1
  p1 = p1
  Threads = {t1, t2}
  VMs = {v1}
  Playbooks = {p1}
  NoVM = NoVM
  NoPlaybook = NoPlaybook
  MaxWait = 1
  MaxRestarts = 0
INVARIANT FinalResultHasExitCode
