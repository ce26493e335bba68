CONSTANTS
  s1 = s1
  s2 = s2
  n1 = n1
  n2 = n2
  c1 = c1
  c2 = c2
  None = None
  MaxReloads = 0
  DefaultName <- n1
  Names <- MCNames
  Sessions <- MCSessions
  Conns <- MCConns
  Declared <- MCBootDeclared
SPECIFICATION DaemonSpec
SYMMETRY MCSymmetry
INVARIANTS DaemonTypeOK KeyIsName NoOrphan ClientOfOne ShownIsServed
CHECK_DEADLOCK FALSE
