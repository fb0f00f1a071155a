\* Two pollers of the normal pool and one of the low: two normal machines, with which a
\* batch overflows, a low one, and the control machine, which gets two messages.
CONSTANTS
  Normals = {n1, n2, l1}
  LowNormals = {l1}
  ControlFsm = ctl
  Pollers = {p1, p2, q1}
  LowPollers = {q1}
  Empty = empty
  MaxBatch = 1
  Burst = 1
  Empties = 1
  MaxSend = 2
  MaxCalls = 0
SPECIFICATION Spec
INVARIANTS TypeOK NoPanic OneHome PriorityKept NoneForgotten
CONSTRAINT OneEach
SYMMETRY Symmetry
\* The system stops when it was shut down.
CHECK_DEADLOCK FALSE
