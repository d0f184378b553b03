SPECIFICATION FairSpec
CONSTANTS
  root = root
  a = a
  b = b
  t = t
  u = u
  inA = inA
  inA2 = inA2
  inT = inT
  file = file
  file2 = file2
  NoFolder = NoFolder
  NoName = NoName
  Folder <- Plain
  Parent <- PlainParent
  Name <- PlainName
  InitFolders <- Plain
  File = {file, file2}
  Maildir = {a, u}
  Scripts <- DistinctSources
  MaxRequests = 4
  Chain = TRUE
INVARIANTS
  OneCopyPerFolder
PROPERTIES
  EveryRequestStops
CHECK_DEADLOCK FALSE
