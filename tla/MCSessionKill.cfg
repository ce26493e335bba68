CONSTANTS
  s1 = s1
  p1 = p1
  p2 = p2
  c1 = c1
  c2 = c2
  Sessions <- MCSessions
  Panes <- MCPanes
  Clients <- MCClients
SPECIFICATION Spec
INVARIANTS KillEndsChildren
CHECK_DEADLOCK FALSE
