SPECIFICATION FaultySpec
CONSTANTS
  Replica <- TwoNodes
  Char = {a, b}
  Worker = {w1, w2}
  QueueSize = 1
  MaxIntents = 2
  MayRestart = {1}
INVARIANTS
  OnlyRestartsClash
  NoEchoLoop
  FramesAreNews
  OnlyLossesDiverge
PROPERTIES
  DeliversInSomeOrder
CHECK_DEADLOCK FALSE
