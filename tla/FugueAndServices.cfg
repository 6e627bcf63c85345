SPECIFICATION PartsSpec
CONSTANTS
  Replica <- ThreeReplicas
  Char = {a}
  MaxOps = 3
  Submitter = {s1, s2}
  Worker = {w1, w2}
  Stopper = {t1, t2}
  QueueSize = 1
  MaxJobs = 3
  Doc = {d1, d2}
  Caller = {k1, k2}
  Closer = {c1, c2}
  BufSize = 1
  User = {n1, n2}
  MaxTrees = 3
  MaxUpdates = 2
  MaxTurns = 1
INVARIANTS
  TypeOK
  ChildListsMatchParents
  TraversalCoversNodes
  OrderAgreement
  SameNodesSameTree
  StrongConvergence
  NodesAgree
  StopLeavesNothing
  OnlyOverlapCrashes
  SubscribedUnlessCallFailed
  EditsReachTheDocument
PROPERTIES
  HistoryIsKept
  ImplementsNodeSet
  InsertLandsUnlessDeepBelow
  EventualConvergence
  AcceptedJobsRun
  CallsReturn
  MessagesEnd
CHECK_DEADLOCK FALSE
