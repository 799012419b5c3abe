SPECIFICATION FairSpec
CONSTANTS
  t1 = t1
  t2 = t2
  s1 = s1
  r1 = r1
  n1 = n1
  a = a
  b = b
  g1 = g1
  g2 = g2
  Threads = {t1, t2}
  Servers = {s1}
  RandomNames = {r1}
  ServerNames = {n1}
  PublicKeys = {a, b}
  Generated = {g1, g2}
  NoKey = NoKey
  NoName = NoName
  NoServer = NoServer
  MaxRepeats = 1
INVARIANTS
  TypeOK
  RecordedKeyOpens
  OwnKeyUnlessShared
  PairsAreTemporary
PROPERTY NamesAreFreed
