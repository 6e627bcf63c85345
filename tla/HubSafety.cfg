SPECIFICATION Spec
CONSTANTS
  Client = {c1, c2}
  Broadcaster = {b1, b2}
  SendBuffer = 1
  AdminBuffer = 1
  InboundBuffer = 1
  MaxMessages = 3
SYMMETRY Symmetry
INVARIANTS
  SendIsClosedOnce
  ServedOrClosed
  ShutdownMissesOnlyQueued
CHECK_DEADLOCK FALSE
