\* The control machine under two clients and two pollers.
CONSTANTS
  Threads = {c1, c2, p1, p2}
  Pollers = {p1, p2}
  Control = TRUE
  MaxHandles = 1
  Burst = 1
  MaxSend = 2
SPECIFICATION FairMailboxSpec
INVARIANT NoLostWakeup
PROPERTIES DeliverySpec Delivered CloseReleases
\* The system stops when every message was sent and handled.
CHECK_DEADLOCK FALSE
