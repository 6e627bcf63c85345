SPECIFICATION FairSpec
CONSTANTS
  Client = {c1, c2}
  Broadcaster = {b1}
  SendBuffer = 1
  AdminBuffer = 1
  InboundBuffer = 1
  MaxMessages = 2
PROPERTIES
  LeaversAreRemoved
  NobodyWaitsForClients
CHECK_DEADLOCK FALSE
