SPECIFICATION FairSpec
CONSTANTS
  Replica <- TwoNodes
  Char = {a}
  Worker = {w1}
  QueueSize = 2
  MaxIntents = 3
  MayRestart = {}
INVARIANTS
  ConvergedWhenQuiet
PROPERTIES
  DeliversCausally
  EditsReachEveryNode
CHECK_DEADLOCK FALSE
