SPECIFICATION MCSpec
CONSTANTS
  udp = udp
  srv = srv
  a = a
  b = b
  Clients <- MCClients
  Accepts <- MCAccepts
  INVALID_SOCKET = INVALID_SOCKET
  OutChunks = 2
  LengthChunks = 2
  MaxLength = 1
  MaxWait = 1
  MaxEvents = 3
CHECK_DEADLOCK FALSE
INVARIANTS ArraysSound StreamsIntact WriteRequested
PROPERTY NoMoveInScan
