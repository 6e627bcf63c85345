SPECIFICATION FaultySpec
CONSTANTS
  Replica <- TwoNodes
  Char = {a}
  Worker = {w1}
  QueueSize = 1
  MaxIntents = 2
  MayRestart = {}
INVARIANTS
  LaterMessageHeals
CHECK_DEADLOCK FALSE
