CONSTANTS
  m1 = m1
  m2 = m2
  c1 = c1
  c2 = c2
  c3 = c3
  c4 = c4
  r1 = r1
  r2 = r2
  Renewers <- MCRenewers
  NoSocket = NoSocket
  Messages <- MCMessages
  Sockets <- MCSockets
  MaxQueue = 1
  MaxRetries = 1
  MaxFaults = 1
SPECIFICATION FairSpec
CHECK_DEADLOCK FALSE
INVARIANT
  NeverStuck
