SPECIFICATION FSpec
CONSTANTS
  t1 = t1
  v1 = v1
  v2 = v2
  p1 = p1
  p2 = p2
  Threads = {t1}
  VMs = {v1, v2}
  Playbooks = {p1, p2}
  Templates = {}
  ForcEditions = {"forc1"}
  NoVM = NoVM
  NoPlaybook = NoPlaybook
  MaxWait = 1
  MaxRestarts = 1
  MaxRetries = 1
  MaxUpdates = 2
SYMMETRY FSymmetry
PROPERTY UpdateSparesRuns
