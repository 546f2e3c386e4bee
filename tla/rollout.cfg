SPECIFICATION FairSpec
CONSTANTS
  Maps = {"m1", "m2"}
  Images = {"i1"}
  Launches = {"l1", "l2"}
  Layouts <- ComeAndGo
  Specs <- MCRollOrLeave
  InitSpec <- MCInitTwo
  MaxRev = 0
  GracefulShutdown = 0
  Rollout = "OneAtATime"
  PersistOnDelete = FALSE
  Ingress = {}
  Mishaps = {}
  Faults = {"crash", "apiErr"}
  MaxEdits = 2
  MaxFaults = 1
PROPERTIES OneServerDown ConvergesOnInstalled OrphansCollected
