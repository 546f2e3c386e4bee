SPECIFICATION Spec
CONSTANTS
  Mods = {"d1", "d2"}
  Maps = {"m1"}
  ModLists <- MCLists
  InitLists <- MCInitLists
  IntervalSpec = 1
  MinInterval = 2
  MaxFile = 2
  MaxEdits = 2
  Faults = {"crash", "down", "patchErr", "writeErr"}
INVARIANTS TypeOK
PROPERTIES PollSpacing RollOnlyForNewFile
CHECK_DEADLOCK FALSE
