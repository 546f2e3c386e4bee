SPECIFICATION FairSpec
CONSTANTS
  Maps = {"m1"}
  Images = {"i1"}
  Launches = {"l1", "l2"}
  Layouts <- OneMap
  Specs <- MCSpecs
  InitSpec <- MCInitSpec
  MaxRev = 0
  GracefulShutdown = 2
  Rollout = "OneAtATime"
  PersistOnDelete = FALSE
  Ingress = {"m1"}
  Mishaps = {}
  Faults = {"crash", "race", "lag", "apiErr", "jobErr"}
  MaxEdits = 2
  MaxFaults = 1
INVARIANTS InstalledBeforeServed
PROPERTIES DeadlineNeverExtended Converges
