\* Three machines, one of which may be lost, two messages in a queue.
CONSTANTS
  Normals = {n1, n2, n3}
  MaxWaiting = 2
  MaxLost = 1
SPECIFICATION Spec
INVARIANTS TimersCover NotStranded
PROPERTY PlacesKept
SYMMETRY Symmetry
\* The system stops when every mailbox is closed and every machine freed.
CHECK_DEADLOCK FALSE
