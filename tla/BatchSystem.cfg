\* Two pollers of one pool, which may panic; a batch with room for one machine.
CONSTANTS
  Normals = {n1}
  LowNormals = {}
  ControlFsm = ctl
  Pollers = {p1, p2}
  LowPollers = {}
  Empty = empty
  MaxBatch = 1
  Burst = 1
  Empties = 1
  MaxSend = 2
  MaxCalls = 0
  MaxPanics = 2
SPECIFICATION FairSystemSpec
INVARIANTS RestIsDone EmptiesSuffice EmptiesLeft EndedIsQuiet PanicReported
PROPERTIES DeliverySpec DeliveredUnlessLost ShutdownEnds
\* The system stops when it was shut down.
CHECK_DEADLOCK FALSE
