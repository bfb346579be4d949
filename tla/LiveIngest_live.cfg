SPECIFICATION FairSpec
CONSTANTS
  Conn = {c1, c2}
  NoConn = NoConn
  MaxChunks = 1
  QueueMax = 1
  MaxFaults = 1
PROPERTIES ImplementsLiveClaim MountIsGivenBack OneBroadcaster AloneIsHeard
CHECK_DEADLOCK FALSE
