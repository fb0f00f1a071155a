\* test_priority: a low machine and the pollers of both pools.
CONSTANTS
  Normals = {n1, l1}
  LowNormals = {l1}
  ControlFsm = ctl
  Pollers = {p1, q1}
  LowPollers = {q1}
  Empty = empty
  MaxBatch = 256
  Burst = 16
  Empties = 100
  MaxSend = 1
  MaxCalls = 0
SPECIFICATION Spec
INVARIANT HandlerAgrees
CHECK_DEADLOCK FALSE
