------------------------------- MODULE Router -------------------------------
(***************************************************************************)
(* The router (router.rs): one address map behind a mutex, shared by all   *)
(* clones of the router, and in each clone a cache of mailboxes that only  *)
(* the clone's own thread touches.  A send looks into the cache first and  *)
(* goes to the map when the cache has nothing or a closed mailbox; closing *)
(* and replacing a mailbox happens under the mutex, behind the caches.     *)
(*                                                                         *)
(* A mailbox is an element of Boxes that is open or closed: what is inside *)
(* is the business of Mailbox.tla.  A cache is the set of what it holds;   *)
(* which entry the LRU list gives up first is left open.                   *)
(***************************************************************************)
EXTENDS Naturals, FiniteSets

CONSTANTS
  Addrs,       (* addresses                                              *)
  Boxes,       (* mailboxes that are ever made                           *)
  Routers,     (* clones of the router, each with a thread that uses it  *)
  None,        (* no mailbox                                             *)
  InitialCap   (* capacity that Router::new gives a cache (1024)         *)

ASSUME RouterAssumption ==
  /\ None \notin Boxes /\ None \notin Routers
  /\ InitialCap \in Nat \ {0}
  /\ IsFiniteSet(Addrs)

VARIABLES
  map,         (* NormalMailMap.map                                      *)
  alive,       (* NormalMailMap.alive_cnt                                *)
  lock,        (* the mutex: the router whose thread holds it, or None   *)
  link,        (* each mailbox: "new" before it is registered, "open" or *)
               (* "closed"                                               *)
  shutdown,    (* Router.shutdown                                        *)
  cache,       (* Router.caches: a mailbox or None for each address      *)
  cap,         (* the capacity of each cache                             *)
  call         (* the call that each router's thread is in               *)

vars == <<map, alive, lock, link, shutdown, cache, cap, call>>

(* The local variables of a call: at is what comes next, box is the mailbox that *)
(* the closure f gets or that is to be closed, connected is the flag of check_do. *)
NoCall == [op |-> "none", at |-> "out", addr |-> None, box |-> None, connected |-> TRUE]

Init ==
  /\ map = [a \in Addrs |-> None]
  /\ alive = 0
  /\ lock = None
  /\ link = [b \in Boxes |-> "new"]
  /\ shutdown = FALSE
  /\ cache = [r \in Routers |-> [a \in Addrs |-> None]]
  /\ cap = [r \in Routers |-> InitialCap]
  /\ call = [r \in Routers |-> NoCall]

Stored(f) == {a \in Addrs : f[a] # None}

At(r, op, place) == call[r].op \in op /\ call[r].at = place

(* A call starts, goes on, and returns. *)
Start(r, op, place, a, b) ==
  call' = [call EXCEPT ![r] =
             [op |-> op, at |-> place, addr |-> a, box |-> b, connected |-> TRUE]]

GoOn(r, place, b, ok) ==
  call' = [call EXCEPT ![r] =
             [op |-> call[r].op, at |-> place, addr |-> call[r].addr, box |-> b,
              connected |-> ok]]

Goto(r, place) == GoOn(r, place, call[r].box, call[r].connected)

Return(r) == call' = [call EXCEPT ![r] = NoCall]

-----------------------------------------------------------------------------
(* check_do, for the calls that end with it ("send": try_send, send and mailbox) *)
(* and for force_send, which goes on.                                            *)

Sends == {"send", "force_send"}

(* The call begins with the mailbox that the cache has for the address. *)
Begin(r, op, a) ==
  /\ call[r] = NoCall
  /\ Start(r, op, IF cache[r][a] = None THEN "map" ELSE "cached", a, cache[r][a])
  /\ UNCHANGED <<map, alive, lock, link, shutdown, cache, cap>>

(* What comes after f returned Some: a full mailbox ends a send, and force_send *)
(* goes on to force the message into it.                                        *)
Accepted(r) ==
  \/ Return(r)
  \/ call[r].op = "force_send" /\ Goto(r, "full")

(* f on the cached mailbox. *)
TryCached(r) ==
  /\ At(r, Sends, "cached")
  /\ IF link[call[r].box] = "open"
       THEN Accepted(r)
       ELSE GoOn(r, "map", call[r].box, FALSE)
  /\ UNCHANGED <<map, alive, lock, link, shutdown, cache, cap>>

(* Mutant: a closed mailbox stays in the cache. *)
Kept(r) == cache

(* The cache without the address, if its mailbox turned out to be closed. *)
Purged(r) ==
  IF call[r].connected THEN cache ELSE [cache EXCEPT ![r][call[r].addr] = None]

(* The map does not have the address: NotExist. *)
LookUpNothing(r) ==
  /\ At(r, Sends, "map")
  /\ lock = None
  /\ map[call[r].addr] = None
  /\ cache' = Purged(r)
  /\ Return(r)
  /\ UNCHANGED <<map, alive, lock, link, shutdown, cap>>

(* The map has it: its mailbox is cloned, and the cache resized to the size of the *)
(* map if that is far from its capacity.                                           *)
LookUp(r) ==
  /\ At(r, Sends, "map")
  /\ lock = None
  /\ map[call[r].addr] # None
  /\ GoOn(r, "found", map[call[r].addr], call[r].connected)
  /\ LET cnt == Cardinality(Stored(map))
         new == IF cnt > cap[r] \/ cnt < cap[r] \div 2 THEN cnt ELSE cap[r]
     IN  /\ cap' = [cap EXCEPT ![r] = new]
         /\ \E keep \in SUBSET Stored(cache[r]) :
              /\ Cardinality(keep) = IF Cardinality(Stored(cache[r])) > new
                                       THEN new ELSE Cardinality(Stored(cache[r]))
              /\ cache' = [cache EXCEPT ![r] =
                             [a \in Addrs |-> IF a \in keep THEN @[a] ELSE None]]
  /\ UNCHANGED <<map, alive, lock, link, shutdown>>

(* Mutant: the cache grows instead. *)
InsertGrowing(r, a, b) == cache' = [cache EXCEPT ![r][a] = b]

(* Mutant: an address that is in the cache keeps its mailbox. *)
InsertKeeping(r, a, b) ==
  IF cache[r][a] # None THEN UNCHANGED cache ELSE InsertGrowing(r, a, b)

(* LruCache::insert: a full cache gives up another address for a new one. *)
Insert(r, a, b) ==
  IF cache[r][a] = None /\ Cardinality(Stored(cache[r])) >= cap[r]
    THEN \E old \in Stored(cache[r]) :
           cache' = [cache EXCEPT ![r][a] = b, ![r][old] = None]
    ELSE cache' = [cache EXCEPT ![r][a] = b]

(* f on the clone from the map succeeds, and the cache keeps the clone; *)
TryFound(r) ==
  /\ At(r, Sends, "found")
  /\ link[call[r].box] = "open"
  /\ Insert(r, call[r].addr, call[r].box)
  /\ Accepted(r)
  /\ UNCHANGED <<map, alive, lock, link, shutdown, cap>>

(* or the mailbox was closed since the map was unlocked: Invalid. *)
TryFoundClosed(r) ==
  /\ At(r, Sends, "found")
  /\ link[call[r].box] = "closed"
  /\ cache' = Purged(r)
  /\ Return(r)
  /\ UNCHANGED <<map, alive, lock, link, shutdown, cap>>

(* force_send found the mailbox full and forces the message into the cached one. *)
ForceFull(r) ==
  /\ At(r, {"force_send"}, "full")
  /\ IF cache[r][call[r].addr] = None
       THEN Goto(r, "panicked")
       ELSE Return(r)
  /\ UNCHANGED <<map, alive, lock, link, shutdown, cache, cap>>

ClearCache(r) ==
  /\ call[r] = NoCall
  /\ cache' = [cache EXCEPT ![r] = [a \in Addrs |-> None]]
  /\ UNCHANGED <<map, alive, lock, link, shutdown, cap, call>>

-----------------------------------------------------------------------------
(* register, register_all, close and broadcast_shutdown: under the mutex *)

(* Mutant: the mailbox that is replaced is not closed. *)
StoreOnly(r, op, a, b) ==
  /\ link[b] = "new"
  /\ link' = [link EXCEPT ![b] = "open"]
  /\ map' = [map EXCEPT ![a] = b]
  /\ Start(r, op, "stored", a, map[a])

(* insert puts the mailbox into the map, and returns the one that it replaces. *)
Store(r, op, a, b) ==
  /\ link[b] = "new"
  /\ link' = [link EXCEPT ![b] = "open"]
  /\ map' = [map EXCEPT ![a] = b]
  /\ Start(r, op, IF map[a] = None THEN "stored" ELSE "closing", a, map[a])

Register(r, op, a, b) ==
  /\ call[r] = NoCall
  /\ lock = None
  /\ lock' = r
  /\ Store(r, op, a, b)
  /\ UNCHANGED <<alive, shutdown, cache, cap>>

(* register_all has more mailboxes. *)
RegisterMore(r, a, b) ==
  /\ At(r, {"register_all"}, "stored")
  /\ Store(r, "register_all", a, b)
  /\ UNCHANGED <<alive, lock, shutdown, cache, cap>>

(* close takes the address out of its own cache, *)
Close(r, a) ==
  /\ call[r] = NoCall
  /\ cache' = [cache EXCEPT ![r][a] = None]
  /\ Start(r, "close", "locking", a, None)
  /\ UNCHANGED <<map, alive, lock, link, shutdown, cap>>

(* Mutant: close takes the address out of the map and leaves the mailbox open. *)
RemoveOnly(r) ==
  /\ At(r, {"close"}, "locking")
  /\ lock = None
  /\ lock' = r
  /\ map' = [map EXCEPT ![call[r].addr] = None]
  /\ Goto(r, "stored")
  /\ UNCHANGED <<alive, link, shutdown, cache, cap>>

(* and out of the map. *)
Remove(r) ==
  /\ At(r, {"close"}, "locking")
  /\ lock = None
  /\ lock' = r
  /\ LET a == call[r].addr
     IN  /\ map' = [map EXCEPT ![a] = None]
         /\ GoOn(r, IF map[a] = None THEN "stored" ELSE "closing", map[a], TRUE)
  /\ UNCHANGED <<alive, link, shutdown, cache, cap>>

(* broadcast_shutdown sets the flag and clears its own cache, *)
BroadcastShutdown(r) ==
  /\ call[r] = NoCall
  /\ shutdown' = TRUE
  /\ cache' = [cache EXCEPT ![r] = [a \in Addrs |-> None]]
  /\ Start(r, "shutdown", "locking", None, None)
  /\ UNCHANGED <<map, alive, lock, link, cap>>

Lock(r) ==
  /\ At(r, {"shutdown"}, "locking")
  /\ lock = None
  /\ lock' = r
  /\ Goto(r, "stored")
  /\ UNCHANGED <<map, alive, link, shutdown, cache, cap>>

(* and drains the map. *)
Drain(r, a) ==
  /\ At(r, {"shutdown"}, "stored")
  /\ map[a] # None
  /\ map' = [map EXCEPT ![a] = None]
  /\ Start(r, "shutdown", "closing", a, map[a])
  /\ UNCHANGED <<alive, lock, link, shutdown, cache, cap>>

(* The mailbox that left the map is closed. *)
CloseBox(r) ==
  /\ At(r, {"register", "register_all", "close", "shutdown"}, "closing")
  /\ link' = [link EXCEPT ![call[r].box] = "closed"]
  /\ Goto(r, "stored")
  /\ UNCHANGED <<map, alive, lock, shutdown, cache, cap>>

(* Mutant: the count goes up with every call. *)
UnlockCounting(r) ==
  /\ At(r, {"register", "close"}, "stored")
  /\ alive' = alive + 1
  /\ lock' = None
  /\ Return(r)
  /\ UNCHANGED <<map, link, shutdown, cache, cap>>

(* register and close store the count before they unlock the map; *)
Unlock(r) ==
  /\ At(r, {"register", "close"}, "stored")
  /\ alive' = Cardinality(Stored(map))
  /\ lock' = None
  /\ Return(r)
  /\ UNCHANGED <<map, link, shutdown, cache, cap>>

(* register_all and broadcast_shutdown do not. *)
UnlockOnly(r) ==
  /\ \/ At(r, {"register_all"}, "stored")
     \/ At(r, {"shutdown"}, "stored") /\ Stored(map) = {}
  /\ lock' = None
  /\ Return(r)
  /\ UNCHANGED <<map, alive, link, shutdown, cache, cap>>

-----------------------------------------------------------------------------
(* The rest of a call. *)
Continue(r) ==
  \/ TryCached(r) \/ LookUpNothing(r) \/ LookUp(r) \/ TryFound(r) \/ TryFoundClosed(r)
  \/ ForceFull(r)
  \/ Remove(r) \/ Lock(r) \/ CloseBox(r) \/ Unlock(r) \/ UnlockOnly(r)
  \/ \E a \in Addrs : Drain(r, a)

Next ==
  \E r \in Routers :
    \/ Continue(r)
    \/ ClearCache(r) \/ BroadcastShutdown(r)
    \/ \E a \in Addrs :
         \/ Close(r, a)
         \/ \E op \in Sends : Begin(r, op, a)
         \/ \E b \in Boxes : \/ \E op \in {"register", "register_all"} : Register(r, op, a, b)
                             \/ RegisterMore(r, a, b)

Spec == Init /\ [][Next]_vars

-----------------------------------------------------------------------------
(* Properties *)

Ops == {"none", "register", "register_all", "close", "shutdown"} \cup Sends

Points ==
  {"out", "cached", "map", "found", "full", "panicked", "locking", "stored", "closing"}

Calls == [op : Ops, at : Points, addr : Addrs \cup {None}, box : Boxes \cup {None},
          connected : BOOLEAN]

(* The type invariant of the router's shared and thread-local state. *)
TypeOK ==
  /\ map \in [Addrs -> Boxes \cup {None}]
  /\ alive \in 0..Cardinality(Addrs)
  /\ lock \in Routers \cup {None}
  /\ link \in [Boxes -> {"new", "open", "closed"}]
  /\ shutdown \in BOOLEAN
  /\ cache \in [Routers -> [Addrs -> Boxes \cup {None}]]
  /\ cap \in [Routers -> Nat \ {0}]
  /\ call \in [Routers -> Calls]

(* A thread that holds the mutex is closing the mailbox that it took out of the map. *)
BeingClosed(a, b) ==
  \E r \in Routers : lock = r /\ call[r].at = "closing" /\ call[r].addr = a /\ call[r].box = b

(* No mailbox is lost open: an open one can be found at its one address until *)
(* somebody closes it, whatever registers, closes and shutdowns overlap.      *)
OpenIsRegistered ==
  \A b \in Boxes : link[b] = "open" =>
    Cardinality({a \in Addrs : map[a] = b \/ BeingClosed(a, b)}) = 1

(* A send that finds its cached mailbox open reaches the machine that the map has *)
(* for the address, or one whose close has not returned: the caches need not be   *)
(* told of a close or a replacement.                                              *)
CacheHonest ==
  \A r \in Routers, a \in Addrs :
    cache[r][a] # None /\ link[cache[r][a]] = "open"
      => map[a] = cache[r][a] \/ BeingClosed(a, cache[r][a])

(* Wherever a call has its mailbox from, the message goes into the machine that the  *)
(* map has for the address, or into one whose close has not returned; and force_send *)
(* forces it into the mailbox that was full, although it asks the cache again        *)
(* (router.rs:225).                                                                  *)
SendsReach ==
  \A r \in Routers : call[r].at \in {"cached", "found", "full"} =>
    LET a == call[r].addr
        b == call[r].box
    IN  /\ call[r].at = "full" => cache[r][a] = b
        /\ link[b] = "open" => map[a] = b \/ BeingClosed(a, b)

(* force_send finds in the cache the mailbox that was full (the unwrap of *)
(* router.rs:225), whatever was evicted on the way.                       *)
NoPanic == \A r \in Routers : call[r].at # "panicked"

(* A cache never holds more than its capacity, through all resizes. *)
CacheBounded == \A r \in Routers : Cardinality(Stored(cache[r])) <= cap[r]

(* A check_do that met a closed mailbox in the cache leaves the cache without it, *)
(* whichever way it returns: an address does not keep a mailbox that is of no use. *)
StalePurged ==
  [][\A r \in Routers :
       (call[r].at \in {"map", "found"} /\ ~call[r].connected
          /\ call'[r].at \in {"out", "full"})
         => \/ cache'[r][call[r].addr] = None
            \/ call[r].at = "found" /\ cache'[r][call[r].addr] = call[r].box]_vars

(* "Count of Mailboxes that is stored in `map`." (router.rs:21), when nobody is *)
(* changing the map.                                                            *)
AliveCounts == lock = None => alive = Cardinality(Stored(map))

=============================================================================
