SPECIFICATION FairSpec
CONSTANTS
  c1 = c1  c2 = c2  c3 = c3  k1 = k1  k2 = k2
  f1 = f1  f2 = f2  t1 = t1  t2 = t2
  Conns = {c1, c2}
  ClientIds = {k1, k2}
  ClientOf <- MCOnce
  Filters = {f1, f2}
  Topics = {t1, t2}
  Matches <- MCMatches
  None = None
INVARIANTS
  CrashOnlyInLock
  SubscribedInTree
PROPERTIES
  SessionReleased
CHECK_DEADLOCK FALSE
