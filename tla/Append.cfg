SPECIFICATION MCSpec
CONSTANTS
  goFile = goFile
  tempFile = tempFile
  bakFile = bakFile
  envLocal = envLocal
  envFile = envFile
  MaxRaw = 1
  MaxView = 2
  Names = {goFile}
  TempNames = {}
  ApplyToAll = TRUE
  AgentName = agentFile
  NoName = NoName
  Inodes = {i1, i2}
  NoInode = NoInode
  Missing = Missing
  Mounts = {m1}
  Handles = {h1}
  MountOf <- MCOneMount
  Contents <- MCContents
  Views <- MCViews
  PServe <- DefaultServe
  PCommit <- DefaultCommit
  Chunks <- MCChunks
  Offsets = {}
  RawTexts <- None
  Edits <- None
  Renames <- None
  Links <- None
  Removable <- None
  Cuts <- None
  Exclusive = TRUE
  DiskFaults = FALSE
  Crashes = TRUE
SYMMETRY Symmetry
VIEW Reachable
PROPERTIES
  AppendKeepsView
CHECK_DEADLOCK FALSE
