SPECIFICATION SlowPoolSpec
CONSTANTS
  Submitter = {s1, s2}
  Worker = {w1, w2}
  Stopper = {t1, t2}
  QueueSize = 1
  MaxJobs = 3
PROPERTIES
  StopEndsWithContext
CHECK_DEADLOCK FALSE
