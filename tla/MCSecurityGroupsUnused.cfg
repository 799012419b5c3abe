SPECIFICATION Spec
CONSTANTS
  t1 = t1
  t2 = t2
  s1 = s1
  g1 = g1
  g2 = g2
  j1 = j1
  e1 = e1
  Threads = {t1, t2}
  Servers = {s1}
  Groups = {g1, g2}
  Projects = {j1}
  Environments = {e1}
  Nobody = Nobody
  NoGroup = NoGroup
  NoServer = NoServer
  NoName = NoName
  MaxRestarts = 0
PROPERTY UnusedGroupsAreDeleted
