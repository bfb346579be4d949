\* One command, track end, broadcast and failure, of any kind and in any order.
CONSTANTS
  QLen = 2  Repeats = {"off"}  MaxRetries = 1
  Faults = {"advance", "batch", "resync", "startup", "source", "begin", "freeze",
            "spawn", "publish", "encoder", "crash"}
  MaxCmds = 1  MaxEnds = 1  MaxLive = 1  MaxFaults = 1
SPECIFICATION FairSpec
PROPERTIES PauseStays   QueueResumesAfterBroadcast
