SPECIFICATION FSpec
CONSTANTS
  t1 = t1
  t2 = t2
  v1 = v1
  p1 = p1
  n1 = n1
  Threads = {t1, t2}
  VMs = {v1}
  Playbooks = {p1}
  Templates = {n1}
  ForcEditions = {"forc1"}
  NoVM = NoVM
  NoPlaybook = NoPlaybook
  MaxWait = 1
  MaxRestarts = 1
  MaxRetries = 1
  MaxUpdates = 2
PROPERTY DeployWaitsForUpdate
