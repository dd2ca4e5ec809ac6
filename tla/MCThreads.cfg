SPECIFICATION Spec
CONSTANTS
  Senders = {s1, s2, s3}
  Io = Io
  Packets = {m1, m2, bad}
  Bad = {bad}
  MaxPackets = 4
  Threads = {t1, t2, t3}
  Entries = {e1, e2}
  None = None
  Nobody = Nobody
  MaxCalls = 1
  Workers = {w1, w2}
  Callers = {c1, c2}
  MaxTasks = 3
INVARIANTS
  OneWriter
  RoleIsTaken
  NoRaceOnTree
  NoTaskLost
PROPERTIES
  FifoOrder
  AllWritten
  AtomicUpdates
  UpdateInstalled
  EveryTaskRuns
CHECK_DEADLOCK FALSE
