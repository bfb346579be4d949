\* Every repeat mode, a track ending, two broadcasts and two failures.
CONSTANTS
  QLen = 2  Repeats = {"off", "all", "one", "shuffle"}  MaxRetries = 1
  Faults = {"advance", "source", "encoder"}
  MaxCmds = 1  MaxEnds = 1  MaxLive = 2  MaxFaults = 2
SPECIFICATION Spec
INVARIANTS OneAdvancePerTrack OnAirIsHeard HeardIsOnAir
