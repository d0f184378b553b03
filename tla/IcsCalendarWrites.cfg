SPECIFICATION FairSpec
CONSTANTS
  Item = {x}
  MaxOps = 3
  MaxRefreshes = 1
  MaxRemote = 1
  Hooks = {"http", "file"}
  Forms = {"ics"}
  BackupThrows = {FALSE}
  StaleDeletes = FALSE
INVARIANTS
  TypeOK
  
  OkMeansStored
  ToldInOrder
PROPERTIES
  RemoteKept
  
