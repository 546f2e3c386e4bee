SPECIFICATION Spec
CONSTANTS
  Maps = {"m1", "m2"}
  Images = {"i1"}
  Launches = {"l1"}
  Layouts <- ComeAndGo
  Specs <- MCSpecs
  InitSpec <- MCInitTwo
  MaxRev = 1
  GracefulShutdown = 1
  Rollout = "OneAtATime"
  PersistOnDelete = FALSE
  Ingress = {"m1"}
  Mishaps = {}
  Faults = {}
  MaxEdits = 2
  MaxFaults = 0
INVARIANTS InstalledBeforeServed
