\* The count that the map keeps of its mailboxes.
CONSTANTS
  Addrs = {a1, a2}
  Boxes = {b1, b2}
  Routers = {r1, r2}
  None = none
  InitialCap = 4
SPECIFICATION Spec
INVARIANT AliveCounts
