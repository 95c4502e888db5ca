\* One start and one stop, and nothing fails.
CONSTANTS
  MaxPid = 2
  Nil = Nil
  Empty = Empty
  Budget <- Once
SPECIFICATION Spec
INVARIANTS StopEndsEngine
CHECK_DEADLOCK FALSE
