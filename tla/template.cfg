SPECIFICATION FairSpec
CONSTANTS
  Ids = {"island", "center"}
  Specs <- MCSpecs
  FirstSpec <- MCFirst
  Contents <- MCContents
  Faults = {"apiErr", "lag"}
  MaxEdits = 2
  MaxFaults = 1
INVARIANTS PortsDisjoint
PROPERTIES GusMerged EditsReachServers RollHasCause
