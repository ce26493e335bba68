CONSTANTS
  s1 = s1
  s2 = s2
  n1 = n1
  n2 = n2
  c1 = c1
  c2 = c2
  None = None
  MaxReloads = 1
  DefaultName <- n1
  Names <- MCNames
  Sessions <- MCSessions
  Conns <- MCOneConn
  Declared <- MCDeclared
SPECIFICATION DaemonSpec
PROPERTIES BuiltFromCurrent
CHECK_DEADLOCK FALSE
