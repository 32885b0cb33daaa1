SPECIFICATION Spec
CONSTANTS
  Commands = {c1, c2, c3, c4}
  AtOnce = 1
  Nodes = {n1, n2, n3}
  Urls = {u1, u2}
  Others = {o1, o2}
  MaxEdits = 2
  Scenarios <- MCScenarios
  Toche = Toche
  Bare = Bare
  Blank = Blank
  None = None
  Torn = Torn
SYMMETRY Symmetry
INVARIANTS
  UrlsAreMine
PROPERTIES
  DisconnectedIsDirect
  OtherIsKept
CHECK_DEADLOCK FALSE
