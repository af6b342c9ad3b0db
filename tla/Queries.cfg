SPECIFICATION Spec
CONSTANTS
  n1 = n1
  n2 = n2
  n3 = n3
  n4 = n4
  n5 = n5
  n6 = n6
  f = f
  g = g
  k = k
  m1 = m1
  m2 = m2
  Nodes = {n1, n2, n3, n4, n5, n6}
  None = None
  NameOf <- Names3
  Menus <- QueryMenus
  MaxRebuilds = 2
  Memories <- SomeMemories
  SourceNodes = {n1, n2, n3, n5, n6}
  CodeLimit = 3
  MemoryLimit = 2
  DeepProbe = 2
  Probe = 3
  Budget = 5
INVARIANTS TypeOK RightUnlessChanged PathsExisted SearchesFind
CHECK_DEADLOCK FALSE
