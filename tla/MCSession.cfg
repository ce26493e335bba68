CONSTANTS
  s1 = s1
  p1 = p1
  p2 = p2
  c1 = c1
  c2 = c2
  Sessions <- MCSessions
  Panes <- MCPanes
  Clients <- MCClients
SPECIFICATION FairSpec
INVARIANTS TypeOK NoLostWakeup
PROPERTIES EmptyIsFinal KeepsItsLife WindsDown ChangesAreShown ConsumerRetires
CHECK_DEADLOCK FALSE
