SPECIFICATION FairSpec
CONSTANTS
  Consumers <- MCConsumers
  SpecsOf <- MCSpecsOf
  Budgets <- MCBudgets
  MaxWrites = 3
  Absent = Absent
  MaxFaults = 1
INVARIANTS
  TypeOK
  AcceptedIsServed
  ServedIsAccepted
  AuthenticatesAccepted
  AcceptedAuthenticates
PROPERTIES
  AcceptanceIsStable
  Converges
CHECK_DEADLOCK FALSE
