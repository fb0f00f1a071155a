\* One key more than the largest capacity holds; every second get promotes.
CONSTANTS
  Keys = {k1, k2, k3, k4}
  Records = {r1, r2, r3}
  Head = head
  Tail = tail
  Null = null
  Period = 2
  MaxCap = 3
  MaxClock = 7
SPECIFICATION Spec
INVARIANTS NoFault Linked MapAgrees
PROPERTY PromiseSpec
SYMMETRY Symmetry
\* The system stops when the uses of the model are used up.
CHECK_DEADLOCK FALSE
