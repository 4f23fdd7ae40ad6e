SPECIFICATION CalmSpec
CONSTANTS
  c1 = c1
  c2 = c2
  c3 = c3
  k1 = k1
  k2 = k2
  v1 = v1
  v2 = v2
  Clients = {c1, c2}
  Script <- ScriptPair
  MayExit = {c1}
  IOThreadNum = 2
  Fds = {4, 5}
  Listen = 3
  ListenBacklog = 1
  ExeBound = 2
  TaskBound = 2
  Keys = {k1, k2}
  Vals = {v1, v2}
  Blank = Blank
  Absent = Absent
  NoConn = NoConn
  Bucket <- SharedBucket
INVARIANTS
  ReplyGoesToItsClient
CHECK_DEADLOCK FALSE
