SPECIFICATION Spec
CONSTANTS
  Absent = Absent
  Alphabetical <- MCAlphabetical
  Domains <- MCDomains
  Policies = {"p1", "p2"}
  Routes = {"vs", "hr"}
  Gateways = {"ig", "kg"}
  Specs <- MCSpecs
  Clusters <- MCClusters
INVARIANTS
  PolicyTypeOK
  
  StatusIsTrue
  WatchesDependencies
CHECK_DEADLOCK FALSE
PROPERTIES
  UndisturbedStays
  Converges
