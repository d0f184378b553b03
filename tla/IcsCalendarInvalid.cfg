SPECIFICATION FairSpec
CONSTANTS
  Item = {x}
  MaxOps = 2
  MaxRefreshes = 1
  MaxRemote = 1
  Hooks = {"http"}
  Forms = {"ics", "broken"}
  BackupThrows = {FALSE}
  StaleDeletes = FALSE
PROPERTIES
  InvalidKept
