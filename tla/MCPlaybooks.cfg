SPECIFICATION FairSpec
CONSTANTS
  t1 = t1
  t2 = t2
  v1 = v1
  p1 = p1
  p2 = p2
  Threads = {t1, t2}
  VMs = {v1}
  Playbooks = {p1, p2}
  NoVM = NoVM
  NoPlaybook = NoPlaybook
  MaxWait = 1
  MaxRestarts = 1
INVARIANTS
  TypeOK
  OutcomesAreReal
  RunningIsTracked
  RegisteredHasRecord
  ExitCodeFollowsStatus
PROPERTIES
  ImplementsPlaybookLife
  EveryRequestReturns
