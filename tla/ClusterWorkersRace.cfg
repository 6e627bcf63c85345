SPECIFICATION Spec
CONSTANTS
  Replica <- TwoNodes
  Char = {a}
  Worker = {w1, w2}
  QueueSize = 2
  MaxIntents = 2
  MayRestart = {}
INVARIANTS
  ConvergedWhenQuiet
CHECK_DEADLOCK FALSE
