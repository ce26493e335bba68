CONSTANTS
  w1 = w1
  w2 = w2
  w3 = w3
  p1 = p1
  p2 = p2
  p3 = p3
  None = None
  Windows <- MCWindows
  Panes <- MCPanes
  HistoryCap <- MCHistoryCap
  MonitorCap <- MCMonitorCap
SPECIFICATION Spec
SYMMETRY MCSymmetry
INVARIANT ZoomedHasFocus
CHECK_DEADLOCK FALSE
