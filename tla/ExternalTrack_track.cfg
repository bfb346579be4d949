SPECIFICATION FairSpec
CONSTANTS
  Providers <- BothProviders
  MaxEdits = 3
  MaxFaults = 1
INVARIANTS EditKept LibraryMatches
PROPERTIES CatalogueConverges
CHECK_DEADLOCK FALSE
