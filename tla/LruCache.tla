------------------------------ MODULE LruCache ------------------------------
(***************************************************************************)
(* LruCache (util/lru.rs) with the CountTracker: a hash map from keys to   *)
(* records, and the records in a list of raw pointers between two          *)
(* sentinels, the most recently used one first.                            *)
(*                                                                         *)
(* A cache is used by one thread at a time, so a method is one step, but   *)
(* for the loop of resize, whose rounds are steps.  The values are left    *)
(* out: they go where the entry of their key goes.                         *)
(***************************************************************************)
EXTENDS Naturals, FiniteSets

CONSTANTS
  Keys,
  Records,      (* addresses of boxed records                                   *)
  Head, Tail,   (* the sentinels of Trace                                       *)
  Null,         (* no record, or no key                                         *)
  Period,       (* sample_mask + 1: every so many gets promote (1 or 8)         *)
  MaxCap,       (* bound of the model: capacities asked for                     *)
  MaxClock      (* bound of the model: uses                                     *)

Nodes == Records \cup {Head, Tail}

ASSUME LruCacheAssumption ==
  /\ IsFiniteSet(Keys)
  /\ Head # Tail /\ Head \notin Records /\ Tail \notin Records
  /\ Null \notin Nodes /\ Null \notin Keys
  /\ Period \in Nat \ {0} /\ MaxCap \in Nat \ {0} /\ MaxClock \in Nat

VARIABLES
  map,        (* the record of each key, or Null                                *)
  key,        (* Record.key, Null while the record is not allocated             *)
  links,      (* next and prev of every record and sentinel                     *)
  size,       (* size_policy                                                    *)
  capacity,
  tick,       (* Trace.tick, modulo Period                                      *)
  todo,       (* rounds that the loop of resize has left                        *)
  newCap,     (* new_cap of that resize                                         *)
  fault,      (* an unwrap of None, or an access to the outside of a sentinel   *)
  clock,      (* history: how many uses there were                              *)
  used        (* history: which of them was the last of each record             *)

vars == <<map, key, links, size, capacity, tick, todo, newCap, fault, clock, used>>

Live == {r \in Records : key[r] # Null}

Mapped == {k \in Keys : map[k] # Null}

(* Mutant: a capacity of 0 is taken as it is. *)
AsGiven(n) == n

AtLeastOne(n) == IF n = 0 THEN 1 ELSE n

-----------------------------------------------------------------------------
(* The list *)

Suture(l, leading, following) ==
  [next |-> [l.next EXCEPT ![leading] = following],
   prev |-> [l.prev EXCEPT ![following] = leading]]

CutOut(l, r) == Suture(l, l.prev[r], l.next[r])

(* Mutant: head is linked before its old successor is read. *)
HeadFirst(l, r) ==
  LET linked == Suture(l, Head, r)
  IN  Suture(linked, r, linked.next[Head])

(* The record becomes the first: the end of promote and reuse_tail, and create. *)
Front(l, r) == Suture(Suture(l, r, l.next[Head]), Head, r)

Promoted(r) == Front(CutOut(links, r), r)

(* Mutant: the other end. *)
First == links.next[Head]

Last == links.prev[Tail]

(* The records that clear meets on its way from head to tail. *)
Listed ==
  {r \in Records :
     \A S \in SUBSET Records :
       (/\ links.next[Head] \in S \cup {Tail}
        /\ \A s \in S : links.next[s] \in S \cup {Tail}) => r \in S}

Init ==
  /\ map = [k \in Keys |-> Null]
  /\ key = [r \in Records |-> Null]
  /\ links = Suture([next |-> [n \in Nodes |-> Null], prev |-> [n \in Nodes |-> Null]],
                    Head, Tail)
  /\ size = 0
  /\ \E n \in 0..MaxCap : capacity = AtLeastOne(n)
  /\ tick = 0
  /\ todo = 0
  /\ newCap = capacity
  /\ fault = FALSE
  /\ clock = 0
  /\ used = [r \in Records |-> 0]

(* No resize is going on, and nothing went wrong. *)
Ready == todo = 0 /\ ~fault

Stamp(r) ==
  /\ clock < MaxClock
  /\ clock' = clock + 1
  /\ used' = [used EXCEPT ![r] = clock + 1]

(* What undefined behaviour or a panic leaves. *)
Fault == fault' = TRUE /\ UNCHANGED <<map, key, links, size, capacity, tick, todo, newCap,
                                      clock, used>>

(* Whether the last record is one, and its key in the map. *)
LastSound == Last \in Live /\ map[key[Last]] # Null

-----------------------------------------------------------------------------
(* Methods of LruCache *)

(* insert of a key that is in the map; its size goes down and up. *)
InsertOccupied(k) ==
  /\ Ready
  /\ map[k] # Null
  /\ links' = Promoted(map[k])
  /\ Stamp(map[k])
  /\ UNCHANGED <<map, key, size, capacity, tick, todo, newCap, fault>>

(* insert of a new key into a cache with room: create. *)
InsertNew(k, r) ==
  /\ Ready
  /\ map[k] = Null
  /\ size < capacity
  /\ r \in Records \ Live
  /\ links' = Front(links, r)
  /\ key' = [key EXCEPT ![r] = k]
  /\ map' = [map EXCEPT ![k] = r]
  /\ size' = size + 1
  /\ Stamp(r)
  /\ UNCHANGED <<capacity, tick, todo, newCap, fault>>

(* Mutant: the key that leaves stays in the map. *)
InsertReuseKeeping(k) ==
  /\ Ready
  /\ map[k] = Null
  /\ size >= capacity
  /\ IF LastSound
       THEN /\ links' = Promoted(Last)
            /\ key' = [key EXCEPT ![Last] = k]
            /\ map' = [map EXCEPT ![k] = Last]
            /\ Stamp(Last)
            /\ UNCHANGED <<size, capacity, tick, todo, newCap, fault>>
       ELSE Fault

(* insert of a new key into a full cache: reuse_tail gives the last record the key, *)
(* and the entry of its old key leaves the map.                                     *)
InsertReuse(k) ==
  /\ Ready
  /\ map[k] = Null
  /\ size >= capacity
  /\ IF LastSound
       THEN /\ links' = Promoted(Last)
            /\ key' = [key EXCEPT ![Last] = k]
            /\ map' = [map EXCEPT ![k] = Last, ![key[Last]] = Null]
            /\ Stamp(Last)
            /\ UNCHANGED <<size, capacity, tick, todo, newCap, fault>>
       ELSE Fault

(* get and get_mut: maybe_promote promotes when tick & sample_mask is 0. *)
Get(k) ==
  /\ Ready
  /\ map[k] # Null
  /\ tick' = (tick + 1) % Period
  /\ IF tick' = 0
       THEN links' = Promoted(map[k]) /\ Stamp(map[k])
       ELSE UNCHANGED <<links, clock, used>>
  /\ UNCHANGED <<map, key, size, capacity, todo, newCap, fault>>

(* The record is cut out and freed. *)
Free(r) ==
  /\ links' = CutOut(links, r)
  /\ key' = [key EXCEPT ![r] = Null]
  /\ map' = [map EXCEPT ![key[r]] = Null]
  /\ size' = size - 1

Remove(k) ==
  /\ Ready
  /\ map[k] # Null
  /\ Free(map[k])
  /\ UNCHANGED <<capacity, tick, todo, newCap, fault, clock, used>>

Clear ==
  /\ Ready
  /\ map' = [k \in Keys |-> Null]
  /\ key' = [r \in Records |-> IF r \in Listed THEN Null ELSE key[r]]
  /\ links' = Suture(links, Head, Tail)
  /\ size' = 0
  /\ UNCHANGED <<capacity, tick, todo, newCap, fault, clock, used>>

(* resize, when nothing has to leave, *)
Resize(n) ==
  /\ Ready
  /\ ~(AtLeastOne(n) < capacity /\ Cardinality(Mapped) > AtLeastOne(n))
  /\ capacity' = AtLeastOne(n)
  /\ UNCHANGED <<map, key, links, size, tick, todo, newCap, fault, clock, used>>

(* when it enters its loop, *)
ResizeBegin(n) ==
  /\ Ready
  /\ AtLeastOne(n) < capacity
  /\ Cardinality(Mapped) > AtLeastOne(n)
  /\ todo' = Cardinality(Mapped) - AtLeastOne(n)
  /\ newCap' = AtLeastOne(n)
  /\ UNCHANGED <<map, key, links, size, capacity, tick, fault, clock, used>>

(* and a round of it: remove_tail, and the entry leaves the map. *)
ResizeRound ==
  /\ todo > 0 /\ ~fault
  /\ IF LastSound
       THEN /\ Free(Last)
            /\ todo' = todo - 1
            /\ capacity' = IF todo = 1 THEN newCap ELSE capacity
            /\ UNCHANGED <<tick, newCap, fault, clock, used>>
       ELSE Fault

Next ==
  \/ \E k \in Keys : \/ InsertOccupied(k) \/ InsertReuse(k) \/ Get(k) \/ Remove(k)
                     \/ \E r \in Records : InsertNew(k, r)
  \/ \E n \in 0..MaxCap : Resize(n) \/ ResizeBegin(n)
  \/ ResizeRound \/ Clear

Spec == Init /\ [][Next]_vars

-----------------------------------------------------------------------------
(* Properties *)

(* The type invariant of the map, the list and the counters. *)
TypeOK ==
  /\ map \in [Keys -> Records \cup {Null}]
  /\ key \in [Records -> Keys \cup {Null}]
  /\ links \in [next : [Nodes -> Nodes \cup {Null}], prev : [Nodes -> Nodes \cup {Null}]]
  /\ size \in Nat
  /\ capacity \in Nat \ {0}
  /\ tick \in 0..Period - 1
  /\ todo \in Nat
  /\ newCap \in Nat \ {0}
  /\ fault \in BOOLEAN
  /\ clock \in Nat
  /\ used \in [Records -> Nat]

(* No method unwraps the entry of a key that is not there (lru.rs:236, 276), or *)
(* takes a sentinel for the last record (lru.rs:94, 119).                       *)
NoFault == ~fault

(* a was used more recently than b, and so is before it in the list. *)
Before(a, b) ==
  \/ a = Head /\ b # Head
  \/ b = Tail /\ a # Tail
  \/ a \in Live /\ b \in Live /\ used[a] > used[b]

(* The list is whole: no pointer leads to freed memory, both directions agree, and *)
(* the list has every record, in the order of use.                                 *)
Linked ==
  /\ \A a \in Live \cup {Head} :
       LET b == links.next[a]
       IN  /\ b \in Live \cup {Tail}
           /\ links.prev[b] = a
           /\ Before(a, b)
           /\ ~ \E c \in Live : Before(a, c) /\ Before(c, b)
  /\ \A b \in Live \cup {Tail} :
       links.prev[b] \in Live \cup {Head} /\ links.next[links.prev[b]] = b

(* Map and list have the same entries, size_policy counts them, and there are no *)
(* more than the capacity.                                                       *)
MapAgrees ==
  /\ \A k \in Keys : map[k] # Null => key[map[k]] = k
  /\ \A r \in Live : map[key[r]] = r
  /\ size = Cardinality(Mapped)
  /\ size <= capacity
  /\ todo > 0 => size = newCap + todo

(* The times of the keys and the capacity as Lru sees them: while a resize runs *)
(* the new capacity counts.                                                     *)
Uses == [k \in Keys |-> IF map[k] = Null THEN 0 ELSE used[map[k]]]

Cap == IF todo > 0 THEN newCap ELSE capacity

Promise == INSTANCE Lru WITH used <- Uses, cap <- Cap

(* The cache keeps the promise of Lru: what leaves unasked was the least recently *)
(* used (reuse_tail, remove_tail).                                                *)
PromiseSpec == Promise!Spec

=============================================================================
