\* A normal machine under three threads.
CONSTANTS
  Threads = {t1, t2, t3}
  Control = FALSE
  MaxHandles = 2
SPECIFICATION Spec
INVARIANTS TypeOK NoFault SingleOwner ClosedIsFreed NoLeak
PROPERTY OwnershipSpec
\* The system stops when the last mailbox is dropped and the channel is gone.
CHECK_DEADLOCK FALSE
