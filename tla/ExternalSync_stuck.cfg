SPECIFICATION FairSyncSpec
CONSTANTS
  Change = {}
  Dir = {}
  MaxTasks = 2
  MaxSyncFaults = 0
PROPERTY DueIsSynced
