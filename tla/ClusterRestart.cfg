SPECIFICATION RestartSpec
CONSTANTS
  Replica <- TwoNodes
  Char = {a, b}
  Worker = {w1}
  QueueSize = 1
  MaxIntents = 2
  MayRestart = {1}
INVARIANTS
  IdsNameOneEdit
CHECK_DEADLOCK FALSE
