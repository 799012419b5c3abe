SPECIFICATION Spec
CONSTANTS
  Conns = {"c1", "c2"}
  Workers = {"w1"}
  Asks <- MCAsks
INVARIANTS
  TypeOK
  NoCallIsLost
  ReturnedMeansDone
  RefusalsAreTrue
  ChangedOncePerCall
PROPERTIES
  ImplementsCalls
  CallsEnd
CHECK_DEADLOCK FALSE
