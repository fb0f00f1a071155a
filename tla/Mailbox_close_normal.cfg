\* A normal machine that is closed, under two clients and two pollers.
CONSTANTS
  Threads = {c1, c2, p1, p2}
  Pollers = {p1, p2}
  Control = FALSE
  MaxHandles = 1
  Burst = 1
  MaxSend = 2
SPECIFICATION FairMailboxSpec
PROPERTY CloseReleases
\* The system stops when nothing was ever sent and the mailbox is dropped.
CHECK_DEADLOCK FALSE
