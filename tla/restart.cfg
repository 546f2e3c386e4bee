SPECIFICATION Spec
CONSTANTS
  Maps = {"m1"}
  Images = {"i1"}
  Launches = {"l1"}
  Layouts <- OneMap
  Specs <- MCSpecs
  InitSpec <- MCInitSpec
  MaxRev = 2
  GracefulShutdown = 2
  Rollout = "OneAtATime"
  PersistOnDelete = FALSE
  Ingress = {"m1"}
  Mishaps = {"podLoop", "expire"}
  Faults = {"crash"}
  MaxEdits = 2
  MaxFaults = 2
INVARIANTS AnnounceOnce SingleServer
PROPERTIES GraceHonoured
