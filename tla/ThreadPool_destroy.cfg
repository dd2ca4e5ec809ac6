SPECIFICATION PoolFairSpec
CONSTANTS
  Workers = {w1, w2}
  Callers = {c1, c2}
  Nobody = Nobody
  MaxTasks = 3
  PROPERTIES
  DestructorReturns
CHECK_DEADLOCK FALSE
