SPECIFICATION Spec
CONSTANTS
  FirstMaps <- MCFirst
  Layouts <- MCLayouts
  PersistOnDelete = TRUE
  Policies = {"background"}
  Faults = {}
  MaxEdits = 0
  MaxFaults = 0
PROPERTIES PersistentClaims
CHECK_DEADLOCK FALSE
