SPECIFICATION Spec
CONSTANTS
  Maps = {"m1"}
  Images = {"i1"}
  Launches = {"l1", "l2"}
  Layouts <- OneMap
  Specs <- MCSpecs
  InitSpec <- MCInitSpec
  MaxRev = 0
  GracefulShutdown = 1
  Rollout = "OneAtATime"
  PersistOnDelete = FALSE
  Ingress = {"m1"}
  Mishaps = {}
  Faults = {}
  MaxEdits = 3
  MaxFaults = 0
PROPERTIES GraceHonoured
