SPECIFICATION MCSpec
CONSTANTS
  goFile = goFile
  tempFile = tempFile
  bakFile = bakFile
  envLocal = envLocal
  envFile = envFile
  MaxRaw = 1
  MaxView = 2
  Names = {goFile, tempFile}
  TempNames = {tempFile}
  ApplyToAll = TRUE
  AgentName = agentFile
  NoName = NoName
  Inodes = {i1, i2, i3}
  NoInode = NoInode
  Missing = Missing
  Mounts = {m1}
  Handles = {h1, h2}
  MountOf <- MCOneMount
  Contents <- MCContents
  Views <- MCViews
  PServe <- DefaultServe
  PCommit <- DefaultCommit
  Chunks <- MCEscapeChunks
  Offsets = {0, 1}
  RawTexts <- MCRawTexts
  Edits <- MCEdits
  Renames <- MCRenames
  Links <- None
  Removable = {goFile}
  Cuts <- MCCuts
  Exclusive = FALSE
  DiskFaults = TRUE
  Crashes = TRUE
SYMMETRY Symmetry
VIEW Reachable
INVARIANTS
  SourceCanonical
CHECK_DEADLOCK FALSE
