SPECIFICATION Spec
CONSTANTS
  Procs = {p1, p2}
  defaults = defaults
  own = own
  small = small
  large = large
  DefaultSettings = defaults
  UserSettings <- MCUserSettings
  DefaultList = defaults
  UserLists <- MCUserSettings
  Trees <- MCTrees
  Cells <- MCCells
  MaxStarts = 3
  MaxEdits = 1
SYMMETRY Alike
INVARIANTS
  TypeOK
  MountsAreWhole
  OnlyDamageStops
  InstructionsDescribeConfig
  BuiltFromWholeFiles
PROPERTIES
  InitRepairs
  UsersFilesKept
CHECK_DEADLOCK FALSE
