\* test_batch: two pollers of the default pool, one message to each machine.
CONSTANTS
  Normals = {n1}
  LowNormals = {}
  ControlFsm = ctl
  Pollers = {p1, p2}
  LowPollers = {}
  Empty = empty
  MaxBatch = 256
  Burst = 16
  Empties = 100
  MaxSend = 1
  MaxCalls = 3
SPECIFICATION TestSpec
INVARIANT MetricsExact
CHECK_DEADLOCK FALSE
