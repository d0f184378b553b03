SPECIFICATION FairSpec
CONSTANTS
  Item = {x}
  Modes = {"changelog", "full"}
  Faults = {}
  MaxOps = 3
  MaxPlaybacks = 2
  MaxFailures = 1
  MaxRemote = 1
  MaxToggles = 1
  MaxCrashes = 1
INVARIANTS
  TypeOK
  ChangesKept
  CacheIsCopy
PROPERTIES
  ChangeLogPlaysBack
  SyncEnds
