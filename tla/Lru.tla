-------------------------------- MODULE Lru ---------------------------------
(***************************************************************************)
(* What a least-recently-used cache promises, without its list: each key   *)
(* has the time of its last use, and a key that nobody removes leaves only *)
(* when room is needed and no other was used less recently.                *)
(***************************************************************************)
EXTENDS Naturals, FiniteSets

CONSTANT Keys

VARIABLES
  used,   (* the time of the last use of each key, 0 if it is not cached *)
  cap     (* how many keys the cache may hold                            *)

vars == <<used, cap>>

Cached == {k \in Keys : used[k] > 0}

Init == used = [k \in Keys |-> 0] /\ cap \in Nat \ {0}

Oldest(k) == k \in Cached /\ \A j \in Cached : used[k] <= used[j]

(* The key is used now, and the keys of gone leave. *)
Use(k, gone) ==
  /\ used' \in [Keys -> Nat]
  /\ \A j \in Keys : used'[k] > used[j]
  /\ \A j \in Keys \ {k} : used'[j] = IF j \in gone THEN 0 ELSE used[j]

Insert(k) ==
  /\ \/ /\ k \in Cached \/ Cardinality(Cached) < cap
        /\ Use(k, {})
     \/ /\ k \notin Cached /\ Cardinality(Cached) = cap
        /\ \E old \in Keys : Oldest(old) /\ Use(k, {old})
  /\ UNCHANGED cap

(* A get may count as a use or not: they are sampled. *)
Get(k) == k \in Cached /\ Use(k, {}) /\ UNCHANGED cap

Remove(k) == used' = [used EXCEPT ![k] = 0] /\ UNCHANGED cap

Clear == used' = [k \in Keys |-> 0] /\ UNCHANGED cap

Resize == cap' \in Nat \ {0} /\ UNCHANGED used

(* After a resize the cache gives up what it may no longer hold. *)
Trim ==
  /\ Cardinality(Cached) > cap
  /\ \E old \in Keys : Oldest(old) /\ used' = [used EXCEPT ![old] = 0]
  /\ UNCHANGED cap

Next ==
  \/ Trim
  \/ /\ Cardinality(Cached) <= cap
     /\ \/ \E k \in Keys : Insert(k) \/ Get(k) \/ Remove(k)
        \/ Clear \/ Resize

Spec == Init /\ [][Next]_vars

=============================================================================
