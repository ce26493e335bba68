CONSTANTS
  None = None
  Clients = {a, b}
  Sizes = {1, 2}
  Tokens <- MCTokens
  MaxTokens = 3
  PasteCap = 2
  Panes = {1, 2, 3, 4}
  Views <- MCViews
  Templates <- MCTemplates
  Declared <- MCDeclared
  Deltas <- MCDeltas
  MaxOps = 3
  NoDrag = NoDrag
SPECIFICATION IOSpec
INVARIANTS
  ClientIOTypeOK
  SizeHeals
  DetachIsFresh
  GestureHasOwner
  IndicatorFollows
  EveryByteArrives
  CellsAgree
  DragFollows
  NeighbourFound
  TreeAsPromised
PROPERTIES
  FlushDelivers
  BorderMovesAlone
CHECK_DEADLOCK FALSE
