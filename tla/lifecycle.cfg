SPECIFICATION FairSpec
CONSTANTS
  FirstMaps <- MCFirst
  Layouts <- MCLayouts
  PersistOnDelete = FALSE
  Policies = {"background", "foreground"}
  Faults = {"crash", "apiErr"}
  MaxEdits = 1
  MaxFaults = 1
INVARIANTS FinalizerBeforeObjects
PROPERTIES SavedBeforeRelease WantedKept EverythingGoes OrphansGo
CHECK_DEADLOCK FALSE
