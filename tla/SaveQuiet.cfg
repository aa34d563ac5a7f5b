SPECIFICATION MCFairSpec
CONSTANTS
  goFile = goFile
  tempFile = tempFile
  bakFile = bakFile
  envLocal = envLocal
  envFile = envFile
  MaxRaw = 2
  MaxView = 4
  Names = {goFile, envLocal}
  TempNames = {}
  ApplyToAll = TRUE
  AgentName = agentFile
  NoName = NoName
  Inodes = {i1, i2}
  NoInode = NoInode
  Missing = Missing
  Mounts = {m1}
  Handles = {h1, h2}
  MountOf <- MCOneMount
  Contents <- MCContents
  Views <- MCViews
  PServe <- StrictServe
  PCommit <- StrictCommit
  Chunks <- MCEscapeOnly
  Offsets = {0, 1}
  RawTexts <- None
  Edits <- None
  Renames <- None
  Links <- None
  Removable <- None
  Cuts <- None
  Exclusive = TRUE
  DiskFaults = TRUE
  Crashes = TRUE
INVARIANTS
  TypeOK
  DeniedNeverPrepared
  CleanBufferIsSource
  UnchangedSaveIsNoOp
PROPERTIES
  ImplementsStore
  DirtySettles
  SavedIsWhole
CHECK_DEADLOCK FALSE
