SPECIFICATION FairSyncSpec
CONSTANTS
  Change <- TwoChanges
  Dir = {"a", "b"}
  MaxTasks = 2
  MaxSyncFaults = 1
INVARIANTS OneSyncAtATime WatchedIsSynced
PROPERTIES ScheduleSyncs
