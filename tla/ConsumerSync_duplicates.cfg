SPECIFICATION Spec
CONSTANTS
  Consumers <- MCConsumers
  SpecsOf <- MCSpecsOf
  Absent = Absent
  Budgets <- MCBudgets
  MaxWrites = 3
  MaxFaults = 1
INVARIANT
  DuplicateTakesEffect
CHECK_DEADLOCK FALSE
