SPECIFICATION MCSpec
CONSTANTS
  goFile = goFile
  tempFile = tempFile
  bakFile = bakFile
  envLocal = envLocal
  envFile = envFile
  MaxRaw = 2
  MaxView = 4
  Names = {goFile}
  TempNames = {}
  ApplyToAll = TRUE
  AgentName = agentFile
  NoName = NoName
  Inodes = {i1, i2}
  NoInode = NoInode
  Missing = Missing
  Mounts = {m1}
  Handles = {h1, h2}
  MountOf <- MCOneMount
  Contents <- MCContents
  Views <- MCViews
  PServe <- DefaultServe
  PCommit <- DefaultCommit
  Chunks <- MCChunks
  Offsets = {0, 1}
  RawTexts <- None
  Edits <- None
  Renames <- None
  Links <- None
  Removable <- None
  Cuts <- None
  Exclusive = FALSE
  DiskFaults = FALSE
  Crashes = TRUE
SYMMETRY Symmetry
VIEW Reachable
PROPERTIES
  SavedIsWhole
CHECK_DEADLOCK FALSE
