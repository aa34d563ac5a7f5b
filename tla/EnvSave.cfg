SPECIFICATION MCSpec
CONSTANTS
  goFile = goFile
  tempFile = tempFile
  bakFile = bakFile
  envLocal = envLocal
  envFile = envFile
  MaxRaw = 2
  MaxView = 4
  Names = {goFile, envFile, agentFile}
  TempNames = {}
  ApplyToAll = TRUE
  AgentName = agentFile
  NoName = NoName
  Inodes = {i1, i2, i3}
  NoInode = NoInode
  Missing = Missing
  Mounts = {m1}
  Handles = {h1}
  MountOf <- MCOneMount
  Contents <- MCContents
  Views <- MCViews
  PServe <- DefaultServe
  PCommit <- DefaultCommit
  Chunks <- MCChunks
  Offsets = {0, 1}
  RawTexts <- None
  Edits <- None
  Renames <- None
  Links <- None
  Removable <- None
  Cuts <- None
  Exclusive = TRUE
  DiskFaults = FALSE
  Crashes = FALSE
VIEW Reachable
PROPERTIES
  UpdateWritesBack
CHECK_DEADLOCK FALSE
