SPECIFICATION MCSpec
CONSTANTS
  goFile = goFile
  tempFile = tempFile
  bakFile = bakFile
  envLocal = envLocal
  envFile = envFile
  MaxRaw = 1
  MaxView = 2
  Names = {goFile, tempFile, bakFile}
  TempNames = {tempFile, bakFile}
  ApplyToAll = TRUE
  AgentName = agentFile
  NoName = NoName
  Inodes = {i1, i2, i3}
  NoInode = NoInode
  Missing = Missing
  Mounts = {m1}
  Handles = {h1, h2}
  MountOf <- MCOneMount
  Contents <- MCContents
  Views <- MCViews
  PServe <- DefaultServe
  PCommit <- DefaultCommit
  Chunks <- MCEscapeOnly
  Offsets = {0, 1}
  RawTexts <- MCRawTexts
  Edits <- MCEdits
  Renames <- MCBackupRename
  Links <- MCLinks
  Removable = {goFile}
  Cuts <- MCCuts
  Exclusive = FALSE
  DiskFaults = TRUE
  Crashes = TRUE
SYMMETRY Symmetry
VIEW Reachable
INVARIANTS
  SourceCanonical
  CommitIsOfBuffer
PROPERTIES
  LossIsReported
CHECK_DEADLOCK FALSE
