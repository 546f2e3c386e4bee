SPECIFICATION Spec
CONSTANTS
  Maps = {"m1"}
  Images = {"i1"}
  Launches = {"l1", "l2"}
  Layouts <- OneMap
  Specs <- MCSpecs
  InitSpec <- MCInitSpec
  MaxRev = 0
  GracefulShutdown = 1
  Rollout = "OneAtATime"
  PersistOnDelete = FALSE
  Ingress = {"m1"}
  Mishaps = {"jobFail", "podLoop", "evict", "expire"}
  Faults = {}
  MaxEdits = 2
  MaxFaults = 0
INVARIANTS TypeOK InstalledBeforeServed InstallOffline SingleServer
PROPERTIES NoRetryAfterRollback OneSwapPerChange Implements
