\* Around the carry, and the largest values.
CONSTANTS
  Usecs = {0, 1, 999, 1000, 499999, 500000, 500001, 998999, 999000, 999001, 999999}
  Timeouts = {1, 2, 499, 500, 501, 998, 999, 1000, 1001, 1999, 2000001}
SPECIFICATION Spec
INVARIANTS
  DeadlineIsMsLater
  RefusedAtWholeSecond
CHECK_DEADLOCK FALSE
