SPECIFICATION Spec
CONSTANTS
  Consumers <- MCConsumers
  SpecsOf <- MCSpecsOf
  Absent = Absent
  Budgets <- MCBudgets
  MaxWrites = 3
  MaxFaults = 0
INVARIANT
  SpecTracked
CHECK_DEADLOCK FALSE
