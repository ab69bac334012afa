SPECIFICATION FairSpec
CONSTANTS
  Hosts <- MCHosts
  Host <- MCHost
  Keys <- MCKeys
  Asked <- MCAsked
  Worlds <- MCWorlds
  Budget <- MCBudget
  Catalogue <- MCCatalogue
  Registered <- MCRegistered
  ConsulConfigs = {"K", "L", "M", "N"}
  Registries = {"main"}
  Services = {"s1", "s2"}
  NoTag = "-"
  MaxEvents = 4
  MaxFaults = 1
INVARIANTS
  TypeOK
  
  
CHECK_DEADLOCK FALSE
PROPERTIES
  ImplementsDirectory
  DeletedForCause
  
