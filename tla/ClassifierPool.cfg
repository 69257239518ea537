SPECIFICATION Spec
CONSTANTS
  Agents = {a1, a2, a3}
  Threads = {t1, t2, t3, t4}
  NULL = NULL
CHECK_DEADLOCK FALSE
INVARIANTS
  Exclusive
PROPERTIES
  NullOnlyWhenAllOut
