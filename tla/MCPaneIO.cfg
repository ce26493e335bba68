CONSTANTS
  Nobody = Nobody
  NoPipe = NoPipe
  Nothing = Nothing
  Tasks = {a, b}
  Panes = {p, q}
  QueueCap = 1
  Pipes = {i, j}
  Capacity = 1
  MaxOutput = 2
  Execs = {e}
  User = user
  MaxTyped = 2
  MaxOdd = 1
SPECIFICATION MCSpec
INVARIANTS
  PaneIOTypeOK
  SlotIsTheRunning
  OwnAnswer
PROPERTIES
  InputFlows
  NoGap
  ConsumerIsReaped
  FinishedIsNotFailed
  FinishedIsAnswered
CHECK_DEADLOCK FALSE
