SPECIFICATION Spec
CONSTANTS
  Streams = {"a", "b"}
  Worlds <- MCWorlds
INVARIANTS
  TypeOK
  ReleasedPassed
  InContext
  Delivered
  HeldForCause
CHECK_DEADLOCK FALSE
