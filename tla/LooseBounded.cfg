\* Three senders, one of them first; the real interval is 8.
CONSTANTS
  Clones = {c1, c2, c3}
  CheckInterval = 2
  Limit = 2
  MaxForced = 1
SPECIFICATION Spec
INVARIANTS TypeOK LooseBound FlagHonest
PROPERTY ClosedQuiets
\* The system stops when every clone and the receiver are dropped.
CHECK_DEADLOCK FALSE
