\* Two routers, two addresses, three mailboxes; the caches start with room for both.
CONSTANTS
  Addrs = {a1, a2}
  Boxes = {b1, b2, b3}
  Routers = {r1, r2}
  None = none
  InitialCap = 4
SPECIFICATION Spec
INVARIANTS TypeOK OpenIsRegistered CacheHonest SendsReach CacheBounded
PROPERTY StalePurged
SYMMETRY Symmetry
