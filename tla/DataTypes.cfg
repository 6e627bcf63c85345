SPECIFICATION TypesSpec
CONSTANTS
  Replica <- ThreeReplicas
  Char = {a}
  MaxEdits = 3
  MaxRunning = 1
  Typist <- TwoReplicas
  MaxOps = 9
  Author = 2
  TextLen = 3
  RunLen = 2
  Directions <- Both
  Clock <- TwoReplicas
  Editor = {e1, e2}
  Comparer = {m1, m2}
  MaxEvents = 1
  TwoPSet <- TwoReplicas
  Item = {x, y}
  Reader = {r1}
  Merger = {g1}
  Merges <- OneIntoTwo
  Register <- TwoReplicas
  Value = {u, v}
  Merging = {h1}
  MaxTime = 1
  MaxWrites = 2
INVARIANTS
  MergedTreesAgree
  ForwardRunsStayWhole
  CompareDecidesCausality
  OnlyCrossedComparesBlock
  ContainsIsAtomic
  StateMissesOnlyRemovals
  OnlyTiesDiverge
PROPERTIES
  MergeMissesOnlyInversions
  RepeatedMergeConverges
CHECK_DEADLOCK FALSE
