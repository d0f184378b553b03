SPECIFICATION FairSpec
CONSTANTS
  Item = {x}
  Modes = {"full"}
  Faults = {}
  MaxOps = 2
  MaxPlaybacks = 2
  MaxFailures = 0
  MaxRemote = 0
  MaxToggles = 1
  MaxCrashes = 0
PROPERTIES
  FullSyncPlaysBack
