SPECIFICATION UFairSpec
CONSTANTS
  n1 = n1
  n2 = n2
  v1 = v1
  v2 = v2
  Templates = {n1, n2}
  VMs = {v1, v2}
  ForcEditions = {"forc1"}
  NoVM = NoVM
  MaxRetries = 1
  MaxUpdates = 2
INVARIANTS
  UTypeOK
  MetadataHasVersions
  DoneMeansInstalled
PROPERTIES
  ChangesUnderLock
  UpdateJobEnds
