SPECIFICATION FairSpec
CONSTANTS
  root = root
  a = a
  b = b
  t = t
  u = u
  inA = inA
  inA2 = inA2
  inT = inT
  file = file
  file2 = file2
  NoFolder = NoFolder
  NoName = NoName
  Folder <- WithChildren
  Parent <- ParentOf
  Name <- NameOf
  InitFolders <- Plain
  File = {file, file2}
  Maildir = {}
  Scripts <- FolderScripts
  MaxRequests = 3
  Chain = FALSE
INVARIANTS
  CopyFolderNotFreed
PROPERTIES
  StartsInOrder
CHECK_DEADLOCK FALSE
