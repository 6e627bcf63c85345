SPECIFICATION RunSpec
CONSTANTS
  Replica <- TwoReplicas
  Char = {a}
  MaxOps = 9
  Author = 1
  TextLen = 1
  RunLen = 2
  Directions <- Backward
INVARIANTS
  RunsNeverInterleave
CHECK_DEADLOCK FALSE
