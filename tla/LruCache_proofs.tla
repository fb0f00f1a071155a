-------------------------- MODULE LruCache_proofs ---------------------------
(***************************************************************************)
(* Proofs about LruCache, for any finite set of keys and any set of        *)
(* addresses, capacities and sampling period.                              *)
(*                                                                         *)
(* That the list is whole is said of any list, set of records and times of *)
(* use (Whole), so that what cut_out and the end of promote do to a list   *)
(* are two lemmas, and promote, create, reuse_tail, delete and remove_tail *)
(* are combinations of them.                                               *)
(***************************************************************************)
EXTENDS LruCache, TLAPS, FiniteSetTheorems, WellFoundedInduction

Lists == [next : [Nodes -> Nodes \cup {Null}], prev : [Nodes -> Nodes \cup {Null}]]

Earlier(S, u, a, b) ==
  \/ a = Head /\ b # Head
  \/ b = Tail /\ a # Tail
  \/ a \in S /\ b \in S /\ u[a] > u[b]

(* No record of S belongs between a and b. *)
Adjacent(S, u, a, b) ==
  /\ Earlier(S, u, a, b)
  /\ ~ \E c \in S : Earlier(S, u, a, c) /\ Earlier(S, u, c, b)

(* The list l has the records of S in the order of u. *)
Whole(l, S, u) ==
  /\ \A a \in S \cup {Head} :
       /\ l.next[a] \in S \cup {Tail}
       /\ l.prev[l.next[a]] = a
       /\ Adjacent(S, u, a, l.next[a])
  /\ \A b \in S \cup {Tail} : l.prev[b] \in S \cup {Head} /\ l.next[l.prev[b]] = b

(* No two records of S were used at the same time. *)
Distinct(S, u) == \A a, b \in S : u[a] = u[b] => a = b

-----------------------------------------------------------------------------
(* What suture writes. *)
LEMMA Sutured ==
  ASSUME NEW l \in Lists, NEW a \in Nodes, NEW b \in Nodes
  PROVE  /\ Suture(l, a, b) \in Lists
         /\ \A n \in Nodes : /\ Suture(l, a, b).next[n] = IF n = a THEN b ELSE l.next[n]
                             /\ Suture(l, a, b).prev[n] = IF n = b THEN a ELSE l.prev[n]
  BY DEF Suture, Lists

(* cut_out leaves the list of the other records. *)
LEMMA CutOutWhole ==
  ASSUME NEW l \in Lists, NEW S \in SUBSET Records, NEW u \in [Records -> Nat], NEW r \in S,
         Whole(l, S, u), Distinct(S, u)
  PROVE  CutOut(l, r) \in Lists /\ Whole(CutOut(l, r), S \ {r}, u)
<1> DEFINE p == l.prev[r]
           n == l.next[r]
           m == CutOut(l, r)
<1>0. Head # Tail /\ Head \notin Records /\ Tail \notin Records /\ S \subseteq Nodes
      /\ Head \in Nodes /\ Tail \in Nodes
  BY LruCacheAssumption DEF Nodes
<1>1. /\ p \in S \cup {Head} /\ l.next[p] = r /\ Adjacent(S, u, p, r)
      /\ n \in S \cup {Tail} /\ l.prev[n] = r /\ Adjacent(S, u, r, n)
  BY DEF Whole
<1>2. p # r /\ n # r /\ p \in Nodes /\ n \in Nodes
  BY <1>0, <1>1 DEF Adjacent, Earlier
<1>3. m = Suture(l, p, n)
  BY DEF CutOut
<1> HIDE DEF m, p, n
<1>4. /\ m \in Lists
      /\ \A x \in Nodes : /\ m.next[x] = IF x = p THEN n ELSE l.next[x]
                          /\ m.prev[x] = IF x = n THEN p ELSE l.prev[x]
  <2>1. /\ Suture(l, p, n) \in Lists
        /\ \A x \in Nodes : /\ Suture(l, p, n).next[x] = IF x = p THEN n ELSE l.next[x]
                            /\ Suture(l, p, n).prev[x] = IF x = n THEN p ELSE l.prev[x]
    BY <1>2, Sutured
  <2> QED
    BY <1>3, <2>1
<1>5. Adjacent(S \ {r}, u, p, n)
  <2>1. Earlier(S \ {r}, u, p, n)
    BY <1>0, <1>1, <1>2 DEF Adjacent, Earlier
  <2>2. ASSUME NEW c \in S \ {r}, Earlier(S \ {r}, u, p, c), Earlier(S \ {r}, u, c, n)
        PROVE  FALSE
    <3>1. u[c] \in Nat /\ u[r] \in Nat /\ u[c] # u[r]
      BY DEF Distinct
    <3>2. CASE u[c] > u[r]
      <4>1. Earlier(S, u, p, c) /\ Earlier(S, u, c, r)
        BY <2>2, <3>2 DEF Earlier
      <4> QED
        BY <4>1, <1>1 DEF Adjacent
    <3>3. CASE u[r] > u[c]
      <4>1. Earlier(S, u, r, c) /\ Earlier(S, u, c, n)
        BY <2>2, <3>3 DEF Earlier
      <4> QED
        BY <4>1, <1>1 DEF Adjacent
    <3> QED
      BY <3>1, <3>2, <3>3
  <2> QED
    BY <2>1, <2>2 DEF Adjacent
<1>6. ASSUME NEW a \in (S \ {r}) \cup {Head}
      PROVE  /\ m.next[a] \in (S \ {r}) \cup {Tail}
             /\ m.prev[m.next[a]] = a
             /\ Adjacent(S \ {r}, u, a, m.next[a])
  <2>1. CASE a = p
    BY <2>1, <1>0, <1>1, <1>2, <1>4, <1>5
  <2>2. CASE a # p
    <3>1. /\ l.next[a] \in S \cup {Tail} /\ l.prev[l.next[a]] = a
          /\ Adjacent(S, u, a, l.next[a])
      BY DEF Whole
    <3>2. a # r /\ a \in Nodes /\ l.prev[r] = p
      BY <1>0 DEF p
    <3>3. m.next[a] = l.next[a] /\ l.next[a] # r /\ l.next[a] # n
      BY <2>2, <3>1, <3>2, <1>1, <1>4
    <3>4. m.next[a] \in (S \ {r}) \cup {Tail} /\ m.next[a] \in Nodes
      BY <3>1, <3>3, <1>0
    <3>5. Adjacent(S \ {r}, u, a, l.next[a])
      BY <3>1, <3>2, <3>3 DEF Adjacent, Earlier
    <3> QED
      BY <3>1, <3>3, <3>4, <3>5, <1>4
  <2> QED
    BY <2>1, <2>2
<1>7. ASSUME NEW b \in (S \ {r}) \cup {Tail}
      PROVE  m.prev[b] \in (S \ {r}) \cup {Head} /\ m.next[m.prev[b]] = b
  <2>1. CASE b = n
    BY <2>1, <1>0, <1>1, <1>2, <1>4
  <2>2. CASE b # n
    <3>1. l.prev[b] \in S \cup {Head} /\ l.next[l.prev[b]] = b
      BY DEF Whole
    <3>2. b # r /\ b \in Nodes /\ l.next[r] = n
      BY <1>0 DEF n
    <3>3. m.prev[b] = l.prev[b] /\ l.prev[b] # r /\ l.prev[b] # p
      BY <2>2, <3>1, <3>2, <1>1, <1>4
    <3> QED
      BY <3>1, <3>3, <1>0, <1>4
  <2> QED
    BY <2>1, <2>2
<1> QED
  BY <1>4, <1>6, <1>7 DEF Whole, m

(* The end of promote, create and reuse_tail puts a record before all others, *)
(* which is right if it was used after all of them.                           *)
LEMMA FrontWhole ==
  ASSUME NEW l \in Lists, NEW S \in SUBSET Records, NEW u \in [Records -> Nat],
         NEW r \in Records, r \notin S, Whole(l, S, u), NEW t \in Nat, \A s \in S : t > u[s]
  PROVE  Front(l, r) \in Lists /\ Whole(Front(l, r), S \cup {r}, [u EXCEPT ![r] = t])
<1> DEFINE h == l.next[Head]
           m == Front(l, r)
           v == [u EXCEPT ![r] = t]
           T == S \cup {r}
<1>0. /\ Head # Tail /\ Head \notin Records /\ Tail \notin Records
      /\ T \subseteq Nodes /\ S \subseteq Nodes /\ Head \in Nodes /\ Tail \in Nodes /\ r \in Nodes
  BY LruCacheAssumption DEF Nodes
<1>1. h \in S \cup {Tail} /\ l.prev[h] = Head /\ Adjacent(S, u, Head, h)
  BY DEF Whole
<1>2. h \in Nodes /\ h # r /\ h # Head
  BY <1>0, <1>1
<1>3. m = Suture(Suture(l, r, h), Head, r)
  BY DEF Front
<1>4. v[r] = t /\ \A s \in S : v[s] = u[s] /\ v[s] \in Nat /\ t > v[s]
  OBVIOUS
<1> HIDE DEF h, m, v
<1>5. /\ m \in Lists
      /\ \A x \in Nodes :
           /\ m.next[x] = IF x = Head THEN r ELSE IF x = r THEN h ELSE l.next[x]
           /\ m.prev[x] = IF x = r THEN Head ELSE IF x = h THEN r ELSE l.prev[x]
  <2>1. /\ Suture(l, r, h) \in Lists
        /\ \A x \in Nodes : /\ Suture(l, r, h).next[x] = IF x = r THEN h ELSE l.next[x]
                            /\ Suture(l, r, h).prev[x] = IF x = h THEN r ELSE l.prev[x]
    BY <1>0, <1>2, Sutured
  <2> DEFINE k == Suture(l, r, h)
  <2> HIDE DEF k
  <2>2. /\ Suture(k, Head, r) \in Lists
        /\ \A x \in Nodes : /\ Suture(k, Head, r).next[x] = IF x = Head THEN r ELSE k.next[x]
                            /\ Suture(k, Head, r).prev[x] = IF x = r THEN Head ELSE k.prev[x]
    <3>1. k \in Lists
      BY <2>1 DEF k
    <3> QED
      BY <1>0, <3>1, Sutured
  <2>3. m = Suture(k, Head, r)
    BY <1>3 DEF k
  <2> QED
    BY <2>1, <2>2, <2>3 DEF k
<1>6. \A a, b \in S \cup {Head, Tail} : Earlier(T, v, a, b) <=> Earlier(S, u, a, b)
  BY <1>0, <1>4 DEF Earlier
<1>7. \A s \in S : Earlier(T, v, r, s) /\ ~Earlier(T, v, s, r)
  BY <1>0, <1>4 DEF Earlier
<1>8. ~Earlier(T, v, r, r) /\ ~Earlier(T, v, Tail, r) /\ Earlier(T, v, Head, r) /\ Earlier(T, v, r, Tail)
  BY <1>0, <1>4 DEF Earlier
<1>9. ASSUME NEW a \in T \cup {Head}
      PROVE  m.next[a] \in T \cup {Tail} /\ m.prev[m.next[a]] = a /\ Adjacent(T, v, a, m.next[a])
  <2>1. CASE a = Head
    <3>1. m.next[a] = r /\ m.prev[r] = Head
      BY <2>1, <1>0, <1>5
    <3>2. Adjacent(T, v, Head, r)
      BY <1>7, <1>8 DEF Adjacent
    <3> QED
      BY <2>1, <3>1, <3>2
  <2>2. CASE a = r
    <3>1. m.next[a] = h /\ m.prev[h] = r
      BY <2>2, <1>0, <1>2, <1>5
    <3>2. Earlier(T, v, r, h)
      BY <1>1, <1>7, <1>8
    <3>3. ASSUME NEW c \in T, Earlier(T, v, r, c), Earlier(T, v, c, h)
          PROVE  FALSE
      <4>1. c \in S
        BY <3>3, <1>8
      <4>2. Earlier(S, u, c, h) /\ Earlier(S, u, Head, c)
        BY <4>1, <3>3, <1>0, <1>1, <1>6 DEF Earlier
      <4> QED
        BY <4>1, <4>2, <1>1 DEF Adjacent
    <3> QED
      BY <2>2, <3>1, <3>2, <3>3, <1>1 DEF Adjacent
  <2>3. CASE a \in S
    <3>1. l.next[a] \in S \cup {Tail} /\ l.prev[l.next[a]] = a /\ Adjacent(S, u, a, l.next[a])
      BY <2>3 DEF Whole
    <3>2. a # Head /\ a # r /\ a \in Nodes
      BY <2>3, <1>0
    <3>3. m.next[a] = l.next[a] /\ l.next[a] # h /\ l.next[a] # r /\ l.next[a] \in Nodes
      BY <3>1, <3>2, <1>0, <1>1, <1>5
    <3>4. Earlier(T, v, a, l.next[a])
      BY <2>3, <3>1, <1>6 DEF Adjacent
    <3>5. ASSUME NEW c \in T, Earlier(T, v, a, c), Earlier(T, v, c, l.next[a])
          PROVE  FALSE
      <4>1. c \in S
        BY <2>3, <3>5, <1>7
      <4> QED
        BY <2>3, <4>1, <3>1, <3>5, <1>6 DEF Adjacent
    <3> QED
      BY <3>1, <3>3, <3>4, <3>5, <1>5 DEF Adjacent
  <2> QED
    BY <2>1, <2>2, <2>3
<1>10. ASSUME NEW b \in T \cup {Tail}
       PROVE  m.prev[b] \in T \cup {Head} /\ m.next[m.prev[b]] = b
  <2>1. CASE b = r
    BY <2>1, <1>0, <1>5
  <2>2. CASE b = h
    BY <2>2, <1>0, <1>2, <1>5
  <2>3. CASE b # r /\ b # h
    <3>1. b \in S \cup {Tail} /\ l.prev[b] \in S \cup {Head} /\ l.next[l.prev[b]] = b
      BY <2>3 DEF Whole
    <3>2. b \in Nodes /\ l.prev[b] # Head /\ l.prev[b] # r /\ l.prev[b] \in Nodes
      BY <2>3, <3>1, <1>0 DEF h
    <3> QED
      BY <2>3, <3>1, <3>2, <1>5
  <2> QED
    BY <2>1, <2>2, <2>3
<1> QED
  BY <1>5, <1>9, <1>10 DEF Whole, m, v

(* The list that Trace::new makes, and clear. *)
LEMMA EmptyWhole ==
  ASSUME NEW l \in Lists, NEW u
  PROVE  Suture(l, Head, Tail) \in Lists /\ Whole(Suture(l, Head, Tail), {}, u)
<1>0. Head # Tail /\ Head \in Nodes /\ Tail \in Nodes
  BY LruCacheAssumption DEF Nodes
<1>1. /\ Suture(l, Head, Tail) \in Lists
      /\ Suture(l, Head, Tail).next[Head] = Tail
      /\ Suture(l, Head, Tail).prev[Tail] = Head
  BY <1>0, Sutured
<1>2. Adjacent({}, u, Head, Tail)
  BY <1>0 DEF Adjacent, Earlier
<1> QED
  BY <1>1, <1>2 DEF Whole

(* The record before the tail is the least recently used one. *)
LEMMA LastOldest ==
  ASSUME NEW l \in Lists, NEW S \in SUBSET Records, S # {}, NEW u \in [Records -> Nat],
         Whole(l, S, u)
  PROVE  l.prev[Tail] \in S /\ \A s \in S : u[l.prev[Tail]] <= u[s]
<1> DEFINE r == l.prev[Tail]
<1>0. Head # Tail /\ Head \notin Records /\ Tail \notin Records
  BY LruCacheAssumption DEF Nodes
<1>1. r \in S \cup {Head} /\ l.next[r] = Tail /\ Adjacent(S, u, r, l.next[r])
  BY DEF Whole
<1> HIDE DEF r
<1>2. \A s \in S : Earlier(S, u, Head, s) /\ Earlier(S, u, s, Tail)
  BY <1>0 DEF Earlier
<1>3. r \in S
  BY <1>1, <1>2 DEF Adjacent
<1>4. \A s \in S : ~(u[r] > u[s])
  BY <1>1, <1>2, <1>3 DEF Adjacent, Earlier
<1>5. \A s \in S : u[r] \in Nat /\ u[s] \in Nat
  BY <1>3
<1>6. \A s \in S : u[r] <= u[s]
  BY <1>4, <1>5
<1> QED
  BY <1>3, <1>6 DEF r

(* Of records with different times one was used last. *)
LEMMA LatestUse ==
  ASSUME NEW u \in [Records -> Nat], NEW c \in Nat, NEW T \in SUBSET Records, T # {},
         \A s \in T : u[s] <= c
  PROVE  \E r \in T : \A s \in T : u[s] <= u[r]
<1> DEFINE D == {c - u[s] : s \in T}
<1>1. D \subseteq Nat /\ D # {}
  OBVIOUS
<1>2. \E x \in D : \A y \in D : ~(<<y, x>> \in OpToRel(<, Nat))
  <2> HIDE DEF D
  <2> QED
    BY <1>1, NatLessThanWellFounded, WFMin
<1>3. PICK x \in D : \A y \in D : ~(<<y, x>> \in OpToRel(<, Nat))
  BY <1>2
<1>4. \A y \in D : ~(y < x)
  BY <1>1, <1>3 DEF OpToRel
<1>5. PICK r \in T : x = c - u[r]
  OBVIOUS
<1>6. \A s \in T : ~(c - u[s] < c - u[r])
  BY <1>4, <1>5
<1>7. \A s \in T : u[s] \in Nat /\ u[r] \in Nat
  OBVIOUS
<1> QED
  BY <1>6, <1>7

-----------------------------------------------------------------------------
(* Every record has the time of one use, and no two records that of the same. *)
Stamps ==
  /\ \A r \in Live : used[r] \in 1..clock
  /\ Distinct(Live, used)

Agree ==
  /\ \A k \in Keys : map[k] # Null => key[map[k]] = k
  /\ \A r \in Live : map[key[r]] = r

Counted ==
  /\ size = Cardinality(Mapped)
  /\ size <= capacity
  /\ todo > 0 => size = newCap + todo

LruInv ==
  TypeOK /\ NoFault /\ Whole(links, Live, used) /\ Stamps /\ Agree /\ Counted

LEMMA LinkedWhole == Linked <=> Whole(links, Live, used)
  BY DEF Linked, Whole, Adjacent, Before, Earlier

LEMMA MapAgreeing == MapAgrees <=> Agree /\ Counted
  BY DEF MapAgrees, Agree, Counted

(* What the invariant says of the variables, for the steps below. *)
LEMMA Facts ==
  ASSUME LruInv
  PROVE  /\ links \in Lists /\ Live \in SUBSET Records /\ used \in [Records -> Nat]
         /\ map \in [Keys -> Records \cup {Null}] /\ key \in [Records -> Keys \cup {Null}]
         /\ clock \in Nat /\ \A r \in Live : used[r] <= clock /\ clock + 1 > used[r]
         /\ Null \notin Keys /\ Null \notin Records
         /\ \A k \in Mapped : k \in Keys /\ map[k] \in Live /\ key[map[k]] = k
         /\ \A r \in Live : key[r] \in Mapped /\ map[key[r]] = r
         /\ IsFiniteSet(Mapped) /\ Cardinality(Mapped) \in Nat
<1> USE DEF LruInv, TypeOK
<1>0. Null \notin Keys /\ Null \notin Records /\ IsFiniteSet(Keys)
  BY LruCacheAssumption DEF Nodes
<1>1. links \in Lists /\ Live \in SUBSET Records
  BY DEF Lists, Live
<1>2. \A r \in Live : used[r] <= clock /\ clock + 1 > used[r]
  BY DEF Stamps
<1>3. \A k \in Mapped : k \in Keys /\ map[k] \in Live /\ key[map[k]] = k
  BY <1>0 DEF Agree, Mapped, Live
<1>4. \A r \in Live : key[r] \in Mapped /\ map[key[r]] = r
  BY <1>0 DEF Agree, Mapped, Live
<1>5. Mapped \subseteq Keys
  BY DEF Mapped
<1>6. IsFiniteSet(Mapped)
  BY <1>0, <1>5, FS_Subset
<1>7. Cardinality(Mapped) \in Nat
  BY <1>6, FS_CardinalityType
<1> QED
  BY <1>0, <1>1, <1>2, <1>3, <1>4, <1>6, <1>7

LEMMA Initially == Init => LruInv
<1> SUFFICES ASSUME Init PROVE LruInv
  OBVIOUS
<1>0. /\ Null \notin Keys /\ Null \notin Records /\ Null \notin Nodes
      /\ Period \in Nat \ {0} /\ MaxCap \in Nat \ {0}
  BY LruCacheAssumption DEF Nodes
<1>1. Live = {} /\ Mapped = {}
  BY DEF Init, Live, Mapped
<1> DEFINE l == [next |-> [n \in Nodes |-> Null], prev |-> [n \in Nodes |-> Null]]
<1>2. l \in Lists
  BY DEF Lists
<1>3. links = Suture(l, Head, Tail)
  BY DEF Init
<1> HIDE DEF l
<1>4. links \in Lists /\ Whole(links, Live, used)
  BY <1>1, <1>2, <1>3, EmptyWhole
<1>5. \A n \in 0..MaxCap : AtLeastOne(n) \in Nat \ {0}
  BY <1>0 DEF AtLeastOne
<1>6. capacity \in Nat \ {0} /\ newCap = capacity
  BY <1>5 DEF Init
<1>7. TypeOK /\ NoFault
  <2>1. /\ map \in [Keys -> Records \cup {Null}] /\ key \in [Records -> Keys \cup {Null}]
        /\ size = 0 /\ tick = 0 /\ todo = 0 /\ fault = FALSE /\ clock = 0
        /\ used \in [Records -> Nat]
    BY DEF Init
  <2>2. links \in [next : [Nodes -> Nodes \cup {Null}], prev : [Nodes -> Nodes \cup {Null}]]
    BY <1>4 DEF Lists
  <2>3. 0 \in 0..Period - 1
    BY <1>0
  <2> QED
    BY <1>6, <2>1, <2>2, <2>3 DEF TypeOK, NoFault
<1>8. Stamps /\ Agree
  BY <1>1 DEF Init, Stamps, Agree, Distinct
<1>9. Counted
  BY <1>1, <1>6, FS_EmptySet DEF Init, Counted
<1> QED
  BY <1>4, <1>7, <1>8, <1>9 DEF LruInv

-----------------------------------------------------------------------------
(* A cache that is not empty has a last record, which is the least recently used *)
(* one, and its key is in the map.                                               *)
LEMMA LastIsOldest ==
  ASSUME LruInv, size > 0
  PROVE  LastSound /\ Last \in Live /\ \A r \in Live : used[Last] <= used[r]
<1>1. Mapped # {}
  BY FS_EmptySet DEF LruInv, Counted
<1>2. Live # {}
  BY <1>1, Facts
<1>3. Last \in Live /\ \A r \in Live : used[Last] <= used[r]
  <2>1. links \in Lists /\ Live \in SUBSET Records /\ used \in [Records -> Nat]
    BY Facts
  <2>2. Whole(links, Live, used)
    BY DEF LruInv
  <2> QED
    BY <1>2, <2>1, <2>2, LastOldest DEF Last
<1>4. map[key[Last]] # Null
  BY <1>3, Facts
<1> QED
  BY <1>3, <1>4 DEF LastSound

(* promote. *)
LEMMA PromotedWhole ==
  ASSUME LruInv, NEW r \in Live
  PROVE  /\ Promoted(r) \in Lists
         /\ Whole(Promoted(r), Live, [used EXCEPT ![r] = clock + 1])
<1>1. /\ links \in Lists /\ Live \in SUBSET Records /\ used \in [Records -> Nat]
      /\ clock + 1 \in Nat /\ \A s \in Live : clock + 1 > used[s]
  BY Facts
<1>2. Whole(links, Live, used) /\ Distinct(Live, used)
  BY DEF LruInv, Stamps
<1> DEFINE l == CutOut(links, r)
           S == Live \ {r}
<1>3. l \in Lists /\ Whole(l, S, used)
  BY <1>1, <1>2, CutOutWhole
<1>4. S \in SUBSET Records /\ r \in Records /\ r \notin S /\ \A s \in S : clock + 1 > used[s]
  BY <1>1
<1> HIDE DEF l
<1>5. /\ Front(l, r) \in Lists
      /\ Whole(Front(l, r), S \cup {r}, [used EXCEPT ![r] = clock + 1])
  <2> HIDE DEF S
  <2> QED
    BY <1>1, <1>3, <1>4, FrontWhole
<1>6. S \cup {r} = Live
  OBVIOUS
<1> QED
  BY <1>5, <1>6 DEF Promoted, l

(* The time of a new use is another than those before. *)
LEMMA Stamped ==
  ASSUME LruInv, NEW r \in Records, clock' = clock + 1,
         used' = [used EXCEPT ![r] = clock + 1], Live' = Live \cup {r}
  PROVE  Stamps'
<1>1. /\ Live \in SUBSET Records /\ used \in [Records -> Nat] /\ clock \in Nat
      /\ \A s \in Live : clock + 1 > used[s]
  BY Facts
<1>2. /\ used'[r] = clock + 1
      /\ \A s \in Live : s # r => used'[s] = used[s] /\ used'[s] \in 1..clock /\ used'[s] # clock + 1
  BY <1>1 DEF LruInv, Stamps
<1>3. \A s \in Live' : used'[s] \in 1..clock'
  BY <1>1, <1>2
<1>4. Distinct(Live', used')
  BY <1>2 DEF LruInv, Stamps, Distinct
<1> QED
  BY <1>3, <1>4 DEF Stamps

(* The record of an entry is promoted: insert of a key that is there, and get. *)
LEMMA UseStep ==
  ASSUME LruInv, NEW k \in Keys, map[k] # Null, links' = Promoted(map[k]), Stamp(map[k]),
         UNCHANGED <<map, key, size, capacity, todo, newCap, fault>>, tick' \in 0..Period - 1
  PROVE  LruInv'
<1>1. map[k] \in Live /\ map[k] \in Records
  BY Facts DEF Mapped
<1>2. Live' = Live /\ Mapped' = Mapped /\ Live \cup {map[k]} = Live
  BY <1>1 DEF Live, Mapped
<1>3. clock' = clock + 1 /\ used' = [used EXCEPT ![map[k]] = clock + 1]
  BY DEF Stamp
<1>4. links' \in Lists /\ Whole(links', Live', used')
  BY <1>1, <1>2, <1>3, PromotedWhole
<1>5. TypeOK'
  BY <1>1, <1>3, <1>4 DEF LruInv, TypeOK, Lists
<1>6. Stamps'
  BY <1>1, <1>2, <1>3, Stamped
<1>7. NoFault' /\ Agree' /\ Counted'
  BY <1>2 DEF LruInv, NoFault, Agree, Counted
<1> QED
  BY <1>4, <1>5, <1>6, <1>7 DEF LruInv

LEMMA InsertOccupiedStep ==
  ASSUME LruInv, NEW k \in Keys, InsertOccupied(k)
  PROVE  LruInv'
<1>1. tick' \in 0..Period - 1
  BY DEF InsertOccupied, LruInv, TypeOK
<1> QED
  BY <1>1, UseStep DEF InsertOccupied

LEMMA GetStep ==
  ASSUME LruInv, NEW k \in Keys, Get(k)
  PROVE  LruInv'
<1>1. tick' \in 0..Period - 1
  BY LruCacheAssumption DEF Get, LruInv, TypeOK
<1>2. CASE tick' = 0
  BY <1>1, <1>2, UseStep DEF Get
<1>3. CASE tick' # 0
  <2>1. UNCHANGED <<map, key, links, size, capacity, todo, newCap, fault, clock, used>>
    BY <1>3 DEF Get
  <2>2. Live' = Live /\ Mapped' = Mapped
    BY <2>1 DEF Live, Mapped
  <2> QED
    BY <1>1, <2>1, <2>2 DEF LruInv, TypeOK, NoFault, Stamps, Agree, Counted
<1> QED
  BY <1>2, <1>3

LEMMA InsertNewStep ==
  ASSUME LruInv, NEW k \in Keys, NEW r \in Records, InsertNew(k, r)
  PROVE  LruInv'
<1>0. /\ map[k] = Null /\ size < capacity /\ r \in Records \ Live
      /\ links' = Front(links, r)
      /\ key' = [key EXCEPT ![r] = k] /\ map' = [map EXCEPT ![k] = r] /\ size' = size + 1
      /\ clock' = clock + 1 /\ used' = [used EXCEPT ![r] = clock + 1]
      /\ UNCHANGED <<capacity, tick, todo, newCap, fault>> /\ todo = 0
  BY DEF InsertNew, Stamp, Ready
<1>1. /\ links \in Lists /\ Live \in SUBSET Records /\ used \in [Records -> Nat]
      /\ map \in [Keys -> Records \cup {Null}] /\ key \in [Records -> Keys \cup {Null}]
      /\ clock + 1 \in Nat /\ \A s \in Live : clock + 1 > used[s]
      /\ Null \notin Keys /\ Null \notin Records
  BY Facts
<1>2. Live' = Live \cup {r} /\ Mapped' = Mapped \cup {k} /\ k \notin Mapped
  BY <1>0, <1>1 DEF Live, Mapped
<1>3. links' \in Lists /\ Whole(links', Live', used')
  <2>1. r \notin Live /\ Whole(links, Live, used)
    BY <1>0 DEF LruInv
  <2>2. /\ Front(links, r) \in Lists
        /\ Whole(Front(links, r), Live \cup {r}, [used EXCEPT ![r] = clock + 1])
    <3> DEFINE S == Live
               t == clock + 1
    <3>1. S \in SUBSET Records /\ t \in Nat /\ r \notin S /\ Whole(links, S, used)
          /\ \A s \in S : t > used[s]
      BY <1>1, <2>1
    <3> HIDE DEF S, t
    <3>2. /\ Front(links, r) \in Lists
          /\ Whole(Front(links, r), S \cup {r}, [used EXCEPT ![r] = t])
      BY <1>1, <3>1, FrontWhole
    <3> QED
      BY <3>2 DEF S, t
  <2> QED
    BY <1>0, <1>2, <2>2
<1>4. TypeOK'
  BY <1>0, <1>1, <1>3 DEF LruInv, TypeOK, Lists
<1>5. Stamps'
  BY <1>0, <1>2, Stamped
<1>6. Agree'
  BY <1>0, <1>1, <1>2 DEF LruInv, Agree, Live
<1>7. Counted'
  <2>1. IsFiniteSet(Mapped) /\ Cardinality(Mapped) = size /\ size \in Nat /\ capacity \in Nat
    BY Facts DEF LruInv, Counted, TypeOK
  <2>2. Cardinality(Mapped \cup {k}) = Cardinality(Mapped) + 1
    BY <1>2, <2>1, FS_AddElement
  <2> QED
    BY <1>0, <1>2, <2>1, <2>2 DEF Counted
<1> QED
  BY <1>0, <1>3, <1>4, <1>5, <1>6, <1>7 DEF LruInv, NoFault

(* insert into a full cache gives the last record the new key. *)
LEMMA InsertReuseStep ==
  ASSUME LruInv, NEW k \in Keys, InsertReuse(k)
  PROVE  LruInv'
<1> DEFINE r == Last
           old == key[r]
<1>a. size \in Nat /\ capacity \in Nat \ {0} /\ size >= capacity /\ map[k] = Null
  BY DEF LruInv, TypeOK, InsertReuse
<1>b. LastSound /\ r \in Live
  BY <1>a, LastIsOldest
<1>0. /\ links' = Promoted(r) /\ key' = [key EXCEPT ![r] = k]
      /\ map' = [map EXCEPT ![k] = r, ![old] = Null]
      /\ clock' = clock + 1 /\ used' = [used EXCEPT ![r] = clock + 1]
      /\ UNCHANGED <<size, capacity, tick, todo, newCap, fault>> /\ todo = 0
  BY <1>b DEF InsertReuse, Stamp, Ready
<1>1. /\ Live \in SUBSET Records /\ used \in [Records -> Nat] /\ clock \in Nat
      /\ map \in [Keys -> Records \cup {Null}] /\ key \in [Records -> Keys \cup {Null}]
      /\ Null \notin Keys /\ Null \notin Records
      /\ old \in Mapped /\ map[old] = r /\ r \in Records /\ old \in Keys /\ old # k
      /\ \A j \in Mapped : j \in Keys /\ map[j] \in Live /\ key[map[j]] = j
      /\ \A s \in Live : key[s] \in Mapped /\ map[key[s]] = s
  BY <1>a, <1>b, Facts DEF Mapped
<1>c. links' \in Lists /\ Whole(links', Live, used')
  BY <1>0, <1>b, PromotedWhole
<1> HIDE DEF r, old
<1>2. \A j \in Keys : map'[j] = IF j = old THEN Null ELSE IF j = k THEN r ELSE map[j]
  BY <1>0, <1>1
<1>3. \A s \in Records : key'[s] = IF s = r THEN k ELSE key[s]
  BY <1>0, <1>1
<1>4. Live' = Live /\ Live \cup {r} = Live
  BY <1>0, <1>1, <1>3, <1>b DEF Live
<1>5. Mapped' = (Mapped \ {old}) \cup {k} /\ k \notin Mapped
  BY <1>1, <1>2, <1>a DEF Mapped
<1>6. TypeOK'
  BY <1>0, <1>1, <1>c DEF LruInv, TypeOK, Lists
<1>7. Stamps'
  BY <1>0, <1>1, <1>4, Stamped
<1>8. Agree'
  <2>1. \A j \in Keys : map'[j] # Null => key'[map'[j]] = j
    <3> SUFFICES ASSUME NEW j \in Keys, map'[j] # Null PROVE key'[map'[j]] = j
      OBVIOUS
    <3>1. CASE j = k
      BY <3>1, <1>1, <1>2, <1>3
    <3>2. CASE j # k
      <4>1. j # old /\ map'[j] = map[j] /\ j \in Mapped
        BY <3>2, <1>2 DEF Mapped
      <4>2. map[j] \in Live /\ key[map[j]] = j /\ map[j] # r
        BY <4>1, <1>1 DEF old
      <4> QED
        BY <4>1, <4>2, <1>1, <1>3
    <3> QED
      BY <3>1, <3>2
  <2>2. \A s \in Live' : map'[key'[s]] = s
    <3> SUFFICES ASSUME NEW s \in Live PROVE map'[key'[s]] = s
      BY <1>4
    <3>1. CASE s = r
      BY <3>1, <1>1, <1>2, <1>3
    <3>2. CASE s # r
      <4>1. key'[s] = key[s] /\ key[s] \in Mapped /\ map[key[s]] = s
        BY <3>2, <1>1, <1>3
      <4>2. key[s] # k /\ key[s] # old /\ key[s] \in Keys
        BY <3>2, <4>1, <1>1, <1>a DEF Mapped
      <4> QED
        BY <4>1, <4>2, <1>2
    <3> QED
      BY <3>1, <3>2
  <2> QED
    BY <2>1, <2>2 DEF Agree
<1>9. Counted'
  <2>1. IsFiniteSet(Mapped) /\ Cardinality(Mapped) = size
    BY Facts DEF LruInv, Counted
  <2>2. IsFiniteSet(Mapped \ {old}) /\ Cardinality(Mapped \ {old}) = size - 1
    BY <1>1, <2>1, FS_RemoveElement
  <2>3. k \notin Mapped \ {old}
    BY <1>5
  <2>4. Cardinality((Mapped \ {old}) \cup {k}) = size - 1 + 1
    <3> DEFINE M == Mapped \ {old}
    <3> HIDE DEF M
    <3>1. Cardinality(M \cup {k}) = Cardinality(M) + 1
      BY <2>2, <2>3, FS_AddElement DEF M
    <3> QED
      BY <2>2, <3>1 DEF M
  <2> QED
    BY <1>0, <1>5, <1>a, <2>4 DEF LruInv, Counted
<1> QED
  BY <1>0, <1>4, <1>6, <1>7, <1>8, <1>9, <1>c DEF LruInv, NoFault

(* delete and remove_tail take a record out and free it, and its entry goes. *)
LEMMA Freed ==
  ASSUME LruInv, NEW r \in Live, Free(r), UNCHANGED <<clock, used>>
  PROVE  /\ links' \in Lists /\ Whole(links', Live', used') /\ Stamps' /\ Agree'
         /\ map' \in [Keys -> Records \cup {Null}] /\ key' \in [Records -> Keys \cup {Null}]
         /\ size' = size - 1 /\ size' \in Nat /\ size' = Cardinality(Mapped')
         /\ Mapped' = Mapped \ {key[r]}
<1>0. /\ links' = CutOut(links, r) /\ key' = [key EXCEPT ![r] = Null]
      /\ map' = [map EXCEPT ![key[r]] = Null] /\ size' = size - 1
  BY DEF Free
<1>1. /\ links \in Lists /\ Live \in SUBSET Records /\ used \in [Records -> Nat]
      /\ map \in [Keys -> Records \cup {Null}] /\ key \in [Records -> Keys \cup {Null}]
      /\ Null \notin Keys /\ Null \notin Records
      /\ key[r] \in Mapped /\ map[key[r]] = r /\ key[r] \in Keys /\ r \in Records
      /\ \A j \in Mapped : j \in Keys /\ map[j] \in Live /\ key[map[j]] = j
      /\ \A s \in Live : key[s] \in Mapped /\ map[key[s]] = s
  BY Facts DEF Mapped
<1>2. Live' = Live \ {r} /\ Mapped' = Mapped \ {key[r]}
  BY <1>0, <1>1 DEF Live, Mapped
<1>3. Whole(links, Live, used) /\ Distinct(Live, used)
  BY DEF LruInv, Stamps
<1>4. links' \in Lists /\ Whole(links', Live', used')
  <2>1. CutOut(links, r) \in Lists /\ Whole(CutOut(links, r), Live \ {r}, used)
    BY <1>1, <1>3, CutOutWhole
  <2> QED
    BY <1>0, <1>2, <2>1
<1>5. Stamps'
  BY <1>2 DEF LruInv, Stamps, Distinct
<1>6. Agree'
  <2>1. \A j \in Keys : map'[j] # Null => key'[map'[j]] = j
    <3> SUFFICES ASSUME NEW j \in Keys, map'[j] # Null PROVE key'[map'[j]] = j
      OBVIOUS
    <3>1. j # key[r] /\ map'[j] = map[j] /\ j \in Mapped
      BY <1>0, <1>1 DEF Mapped
    <3>2. map[j] \in Records /\ key[map[j]] = j /\ map[j] # r
      BY <3>1, <1>1
    <3> QED
      BY <3>1, <3>2, <1>0, <1>1
  <2>2. \A s \in Live' : map'[key'[s]] = s
    <3> SUFFICES ASSUME NEW s \in Live, s # r PROVE map'[key'[s]] = s
      BY <1>2
    <3>1. key'[s] = key[s] /\ key[s] # key[r] /\ key[s] \in Keys
      BY <1>0, <1>1
    <3> QED
      BY <3>1, <1>0, <1>1
  <2> QED
    BY <2>1, <2>2 DEF Agree
<1>7. size' \in Nat /\ size' = Cardinality(Mapped')
  <2>1. IsFiniteSet(Mapped) /\ Cardinality(Mapped) = size
    BY Facts DEF LruInv, Counted
  <2>2. IsFiniteSet(Mapped \ {key[r]}) /\ Cardinality(Mapped \ {key[r]}) = size - 1
    BY <1>1, <2>1, FS_RemoveElement
  <2>3. Cardinality(Mapped \ {key[r]}) \in Nat
    BY <2>2, FS_CardinalityType
  <2> QED
    BY <1>0, <1>2, <2>2, <2>3
<1> QED
  BY <1>0, <1>1, <1>2, <1>4, <1>5, <1>6, <1>7

LEMMA RemoveStep ==
  ASSUME LruInv, NEW k \in Keys, Remove(k)
  PROVE  LruInv'
<1>0. /\ Free(map[k]) /\ todo = 0
      /\ UNCHANGED <<capacity, tick, todo, newCap, fault, clock, used>>
  BY DEF Remove, Ready
<1>1. map[k] \in Live
  BY Facts DEF Remove, Mapped
<1>2. /\ links' \in Lists /\ Whole(links', Live', used') /\ Stamps' /\ Agree'
      /\ map' \in [Keys -> Records \cup {Null}] /\ key' \in [Records -> Keys \cup {Null}]
      /\ size' = size - 1 /\ size' \in Nat /\ size' = Cardinality(Mapped')
  BY <1>0, <1>1, Freed
<1>3. TypeOK'
  BY <1>0, <1>2 DEF LruInv, TypeOK, Lists
<1>4. NoFault' /\ Counted'
  BY <1>0, <1>2 DEF LruInv, TypeOK, NoFault, Counted
<1> QED
  BY <1>2, <1>3, <1>4 DEF LruInv

LEMMA ResizeRoundStep ==
  ASSUME LruInv, ResizeRound
  PROVE  LruInv'
<1>a. todo \in Nat /\ todo > 0 /\ newCap \in Nat \ {0} /\ size = newCap + todo /\ size <= capacity
      /\ capacity \in Nat \ {0} /\ size \in Nat
  BY DEF ResizeRound, LruInv, TypeOK, Counted
<1>b. LastSound /\ Last \in Live
  BY <1>a, LastIsOldest
<1>0. /\ Free(Last) /\ todo' = todo - 1
      /\ capacity' = IF todo = 1 THEN newCap ELSE capacity
      /\ UNCHANGED <<tick, newCap, fault, clock, used>>
  BY <1>b DEF ResizeRound
<1>2. /\ links' \in Lists /\ Whole(links', Live', used') /\ Stamps' /\ Agree'
      /\ map' \in [Keys -> Records \cup {Null}] /\ key' \in [Records -> Keys \cup {Null}]
      /\ size' = size - 1 /\ size' \in Nat /\ size' = Cardinality(Mapped')
  BY <1>0, <1>b, Freed
<1>3. TypeOK'
  BY <1>0, <1>2, <1>a DEF LruInv, TypeOK, Lists
<1>4. NoFault' /\ Counted'
  BY <1>0, <1>2, <1>a DEF LruInv, NoFault, Counted
<1> QED
  BY <1>2, <1>3, <1>4 DEF LruInv

(* clear meets every record on its way through the list. *)
LEMMA AllListed ==
  ASSUME LruInv
  PROVE  Live \subseteq Listed
<1>0. /\ Live \in SUBSET Records /\ used \in [Records -> Nat] /\ clock \in Nat
      /\ \A r \in Live : used[r] <= clock
      /\ Whole(links, Live, used) /\ Head \notin Records /\ Tail \notin Records /\ Head # Tail
  BY Facts, LruCacheAssumption DEF LruInv
<1> SUFFICES ASSUME NEW S \in SUBSET Records,
                    links.next[Head] \in S \cup {Tail},
                    \A s \in S : links.next[s] \in S \cup {Tail},
                    Live \ S # {}
             PROVE  FALSE
  BY <1>0 DEF Listed
<1>1. \E r \in Live \ S : \A s \in Live \ S : used[s] <= used[r]
  <2> DEFINE T == Live \ S
  <2>1. T \in SUBSET Records /\ T # {} /\ \A s \in T : used[s] <= clock
    BY <1>0
  <2> HIDE DEF T
  <2>2. \E r \in T : \A s \in T : used[s] <= used[r]
    BY <1>0, <2>1, LatestUse
  <2> QED
    BY <2>2 DEF T
<1>2. PICK r \in Live \ S : \A s \in Live \ S : used[s] <= used[r]
  BY <1>1
<1>3. links.prev[r] \in Live \cup {Head} /\ links.next[links.prev[r]] = r
  BY <1>0 DEF Whole
<1>4. r # Tail /\ r \notin S
  BY <1>0
<1>5. CASE links.prev[r] = Head
  BY <1>3, <1>4, <1>5
<1>6. CASE links.prev[r] \in Live
  <2> DEFINE p == links.prev[r]
  <2>1. Earlier(Live, used, p, r)
    BY <1>0, <1>3, <1>6 DEF Whole, Adjacent
  <2>2. used[p] > used[r] /\ used[p] \in Nat /\ used[r] \in Nat
    BY <1>0, <1>4, <1>6, <2>1 DEF Earlier
  <2>3. p \in S
    BY <1>2, <1>6, <2>2
  <2> QED
    BY <1>3, <1>4, <2>3
<1> QED
  BY <1>3, <1>5, <1>6

LEMMA ClearStep ==
  ASSUME LruInv, Clear
  PROVE  LruInv'
<1>1. Live' = {} /\ Mapped' = {}
  <2>1. Live' = {}
    BY AllListed, Facts DEF Clear, Live
  <2>2. Mapped' = {}
    BY DEF Clear, Mapped
  <2> QED
    BY <2>1, <2>2
<1>2. links' \in Lists /\ Whole(links', Live', used')
  BY <1>1, Facts, EmptyWhole DEF Clear
<1>3. TypeOK'
  BY <1>2 DEF Clear, LruInv, TypeOK, Lists
<1>4. Stamps' /\ Agree'
  BY <1>1 DEF Clear, Stamps, Agree, Distinct
<1>5. Counted'
  BY <1>1, FS_EmptySet DEF Clear, Ready, LruInv, TypeOK, Counted
<1> QED
  BY <1>2, <1>3, <1>4, <1>5 DEF LruInv, Clear, NoFault

LEMMA ResizeStep ==
  ASSUME LruInv, NEW n \in 0..MaxCap, Resize(n) \/ ResizeBegin(n)
  PROVE  LruInv'
<1>1. AtLeastOne(n) \in Nat \ {0}
  BY LruCacheAssumption DEF AtLeastOne
<1>2. UNCHANGED <<map, key, links, size, tick, fault, clock, used>> /\ todo = 0
  BY DEF Resize, ResizeBegin, Ready
<1>3. Live' = Live /\ Mapped' = Mapped
  BY <1>2 DEF Live, Mapped
<1>4. size \in Nat /\ size = Cardinality(Mapped) /\ size <= capacity /\ capacity \in Nat
  BY DEF LruInv, TypeOK, Counted
<1>5. TypeOK' /\ Counted'
  <2>1. CASE Resize(n)
    BY <2>1, <1>1, <1>2, <1>3, <1>4 DEF Resize, LruInv, TypeOK, Counted
  <2>2. CASE ResizeBegin(n)
    <3>1. todo' = size - AtLeastOne(n) /\ newCap' = AtLeastOne(n) /\ capacity' = capacity
          /\ size > AtLeastOne(n)
      BY <2>2, <1>4 DEF ResizeBegin
    <3>2. todo' \in Nat /\ newCap' \in Nat \ {0} /\ size = newCap' + todo'
      BY <3>1, <1>1, <1>4
    <3> QED
      BY <3>1, <3>2, <1>2, <1>3 DEF LruInv, TypeOK, Counted
  <2> QED
    BY <2>1, <2>2
<1>6. Whole(links', Live', used') /\ Stamps' /\ Agree' /\ NoFault'
  BY <1>2, <1>3 DEF LruInv, Stamps, Agree, NoFault
<1> QED
  BY <1>5, <1>6 DEF LruInv

-----------------------------------------------------------------------------
LEMMA Step ==
  ASSUME LruInv, [Next]_vars
  PROVE  LruInv'
<1>1. CASE \E k \in Keys : \/ InsertOccupied(k) \/ InsertReuse(k) \/ Get(k) \/ Remove(k)
                           \/ \E r \in Records : InsertNew(k, r)
  BY <1>1, InsertOccupiedStep, InsertReuseStep, GetStep, RemoveStep, InsertNewStep
<1>2. CASE \E n \in 0..MaxCap : Resize(n) \/ ResizeBegin(n)
  BY <1>2, ResizeStep
<1>3. CASE ResizeRound \/ Clear
  BY <1>3, ResizeRoundStep, ClearStep
<1>4. CASE UNCHANGED vars
  <2>1. Live' = Live /\ Mapped' = Mapped
    BY <1>4 DEF vars, Live, Mapped
  <2> QED
    BY <1>4, <2>1 DEF vars, LruInv, TypeOK, NoFault, Stamps, Agree, Counted
<1> QED
  BY <1>1, <1>2, <1>3, <1>4 DEF Next

(* The list is whole and in the order of use, and agrees with the map. *)
THEOREM LruInvariance == Spec => []LruInv
<1>1. LruInv /\ [Next]_vars => LruInv'
  BY Step
<1> QED
  BY Initially, <1>1, PTL DEF Spec

(* The map, the list and the counters keep their types (LruCache, Trace). *)
THEOREM LruTypeCorrect == Spec => []TypeOK
<1>1. LruInv => TypeOK
  BY DEF LruInv
<1> QED
  BY LruInvariance, <1>1, PTL

(* insert and resize find the key of the last record in the map, and the last *)
(* record is one (reuse_tail, remove_tail).                                   *)
THEOREM LruFaultFreedom == Spec => []NoFault
<1>1. LruInv => NoFault
  BY DEF LruInv
<1> QED
  BY LruInvariance, <1>1, PTL

(* However records are promoted, reused and freed, the raw pointers make one list *)
(* of all of them, in both directions and in the order of use (cut_out, suture).  *)
THEOREM ListWhole == Spec => []Linked
<1>1. LruInv => Linked
  BY LinkedWhole DEF LruInv
<1> QED
  BY LruInvariance, <1>1, PTL

(* Map and list have the same entries, and no more than the capacity. *)
THEOREM MapAgreement == Spec => []MapAgrees
<1>1. LruInv => MapAgrees
  BY MapAgreeing DEF LruInv
<1> QED
  BY LruInvariance, <1>1, PTL

-----------------------------------------------------------------------------
(* Lru counts as this module does. *)
LEMMA SameCount == \A S : Promise!Cardinality(S) = Cardinality(S)
BY DEF Promise!Cardinality, Cardinality

LEMMA Seen ==
  ASSUME LruInv
  PROVE  /\ \A k \in Keys : Uses[k] = IF map[k] = Null THEN 0 ELSE used[map[k]]
         /\ Uses \in [Keys -> Nat] /\ \A k \in Keys : Uses[k] <= clock
         /\ Promise!Cached = Mapped
         /\ Promise!Cardinality(Promise!Cached) = size
         /\ Cap \in Nat \ {0}
<1>1. \A k \in Mapped : map[k] \in Live /\ map[k] \in Records /\ used[map[k]] \in 1..clock
  BY Facts DEF LruInv, Stamps
<1>2. \A k \in Keys : Uses[k] = IF map[k] = Null THEN 0 ELSE used[map[k]]
  BY DEF Uses
<1>3. clock \in Nat
  BY Facts
<1>4. \A k \in Keys : Uses[k] \in Nat /\ Uses[k] <= clock /\ (Uses[k] > 0 <=> k \in Mapped)
  BY <1>1, <1>2, <1>3 DEF Mapped
<1>5. Promise!Cached = Mapped
  BY <1>4 DEF Promise!Cached, Uses, Mapped
<1>6. Uses \in [Keys -> Nat]
  BY <1>4 DEF Uses
<1>7. Promise!Cardinality(Mapped) = Cardinality(Mapped)
  BY SameCount
<1>8. Promise!Cardinality(Promise!Cached) = size
  BY <1>5, <1>7 DEF LruInv, Counted
<1>9. Cap \in Nat \ {0}
  BY DEF LruInv, TypeOK, Cap
<1> QED
  BY <1>2, <1>4, <1>5, <1>6, <1>8, <1>9

(* A record that is used now gives its key the latest time. *)
LEMMA UseSeen ==
  ASSUME LruInv, LruInv', NEW k \in Keys, NEW gone \in SUBSET Keys, map'[k] # Null,
         used'[map'[k]] = clock + 1,
         \A j \in Keys \ {k} :
           IF j \in gone THEN map'[j] = Null
           ELSE map'[j] = map[j] /\ (map[j] # Null => used'[map[j]] = used[map[j]])
  PROVE  Promise!Use(k, gone)
<1>1. Uses' \in [Keys -> Nat]
  BY DEF LruInv, TypeOK, Uses
<1>2. \A j \in Keys : Uses'[j] = IF map'[j] = Null THEN 0 ELSE used'[map'[j]]
  BY DEF Uses
<1>3. \A j \in Keys : Uses[j] \in Nat /\ Uses[j] <= clock /\ clock \in Nat
  BY Seen, Facts
<1>4. Uses'[k] = clock + 1
  BY <1>2
<1>5. \A j \in Keys \ {k} : Uses'[j] = IF j \in gone THEN 0 ELSE Uses[j]
  BY <1>2, Seen
<1>6. \A j \in Keys : Uses'[k] > Uses[j]
  BY <1>3, <1>4
<1> QED
  BY <1>1, <1>5, <1>6 DEF Promise!Use, Uses

(* A key that leaves, and no other. *)
LEMMA GoneSeen ==
  ASSUME LruInv, NEW k \in Keys, map' = [map EXCEPT ![k] = Null], used' = used
  PROVE  Uses' = [Uses EXCEPT ![k] = 0]
<1>1. map \in [Keys -> Records \cup {Null}]
  BY Facts
<1>2. \A j \in Keys : map'[j] = IF j = k THEN Null ELSE map[j]
  BY <1>1
<1>3. Uses' = [j \in Keys |-> IF j = k THEN 0 ELSE IF map[j] = Null THEN 0 ELSE used[map[j]]]
  BY <1>2 DEF Uses
<1>4. [Uses EXCEPT ![k] = 0] =
        [j \in Keys |-> IF j = k THEN 0 ELSE IF map[j] = Null THEN 0 ELSE used[map[j]]]
  BY DEF Uses
<1> QED
  BY <1>3, <1>4

LEMMA StepSeen ==
  ASSUME LruInv, LruInv', [Next]_vars
  PROVE  [Promise!Next]_<<Uses, Cap>>
<1>a. /\ map \in [Keys -> Records \cup {Null}] /\ key \in [Records -> Keys \cup {Null}]
      /\ used \in [Records -> Nat] /\ clock \in Nat
      /\ \A k \in Mapped : k \in Keys /\ map[k] \in Live /\ key[map[k]] = k
      /\ \A r \in Live : r \in Records /\ key[r] \in Mapped /\ map[key[r]] = r
  BY Facts
<1>b. /\ Promise!Cached = Mapped /\ Promise!Cardinality(Promise!Cached) = size
      /\ \A k \in Keys : Uses[k] = IF map[k] = Null THEN 0 ELSE used[map[k]]
  BY Seen
<1>c. /\ size \in Nat /\ capacity \in Nat \ {0} /\ todo \in Nat /\ newCap \in Nat \ {0}
      /\ size <= capacity
      /\ todo > 0 => size = newCap + todo
  BY DEF LruInv, TypeOK, Counted
<1>d. ASSUME todo = 0, \/ \E k \in Keys : Promise!Insert(k) \/ Promise!Get(k) \/ Promise!Remove(k)
                       \/ Promise!Clear \/ Promise!Resize
      PROVE  Promise!Next
  <2>1. Promise!Cardinality(Promise!Cached) <= Cap
    BY <1>b, <1>c, <1>d DEF Cap
  <2> QED
    BY <1>d, <2>1 DEF Promise!Next, Cap
<1>1. ASSUME NEW k \in Keys, InsertOccupied(k)
      PROVE  Promise!Next
  <2>1. /\ map[k] # Null /\ map' = map /\ UNCHANGED <<todo, capacity, newCap>> /\ todo = 0
        /\ used' = [used EXCEPT ![map[k]] = clock + 1]
    BY <1>1 DEF InsertOccupied, Stamp, Ready
  <2>2. k \in Mapped /\ map[k] \in Records /\ used'[map[k]] = clock + 1
    BY <2>1, <1>a DEF Mapped
  <2>3. \A j \in Keys \ {k} : map[j] # Null => used'[map[j]] = used[map[j]]
    BY <2>1, <2>2, <1>a DEF Mapped
  <2>4. Promise!Use(k, {})
    BY <2>1, <2>2, <2>3, UseSeen
  <2>5. Promise!Insert(k)
    BY <2>1, <2>2, <2>4, <1>b DEF Promise!Insert, Cap
  <2> QED
    BY <2>1, <2>5, <1>d
<1>2. ASSUME NEW k \in Keys, NEW r \in Records, InsertNew(k, r)
      PROVE  Promise!Next
  <2>1. /\ map[k] = Null /\ size < capacity /\ r \notin Live /\ map' = [map EXCEPT ![k] = r]
        /\ UNCHANGED <<todo, capacity, newCap>> /\ todo = 0
        /\ used' = [used EXCEPT ![r] = clock + 1]
    BY <1>2 DEF InsertNew, Stamp, Ready
  <2>2. map'[k] = r /\ used'[r] = clock + 1 /\ r # Null
    BY <2>1, <1>a, LruCacheAssumption DEF Nodes
  <2>3. \A j \in Keys \ {k} : map'[j] = map[j] /\ (map[j] # Null => used'[map[j]] = used[map[j]])
    BY <2>1, <1>a DEF Mapped
  <2>4. Promise!Use(k, {})
    BY <2>2, <2>3, UseSeen
  <2>5. Promise!Insert(k)
    BY <2>1, <2>4, <1>b, <1>c DEF Promise!Insert, Cap
  <2> QED
    BY <2>1, <2>5, <1>d
<1>3. ASSUME NEW k \in Keys, InsertReuse(k)
      PROVE  Promise!Next
  <2>1. /\ map[k] = Null /\ size >= capacity /\ todo = 0
    BY <1>3 DEF InsertReuse, Ready
  <2>2. LastSound /\ Last \in Live /\ \A s \in Live : used[Last] <= used[s]
    BY <2>1, <1>c, LastIsOldest
  <2> DEFINE r == Last
             old == key[r]
  <2>3. /\ map' = [map EXCEPT ![k] = r, ![old] = Null] /\ used' = [used EXCEPT ![r] = clock + 1]
        /\ UNCHANGED <<todo, capacity, newCap>>
    BY <1>3, <2>2 DEF InsertReuse, Stamp
  <2>4. r \in Records /\ old \in Mapped /\ old \in Keys /\ map[old] = r /\ r # Null /\ old # k
    BY <2>1, <2>2, <1>a, LruCacheAssumption DEF Nodes, Mapped
  <2> HIDE DEF r, old
  <2>5. \A j \in Keys : map'[j] = IF j = old THEN Null ELSE IF j = k THEN r ELSE map[j]
    BY <2>3, <2>4, <1>a
  <2>6. map'[k] = r /\ used'[r] = clock + 1
    BY <2>3, <2>4, <2>5, <1>a
  <2>7. \A j \in Keys \ {k} :
          IF j \in {old} THEN map'[j] = Null
          ELSE map'[j] = map[j] /\ (map[j] # Null => used'[map[j]] = used[map[j]])
    <3> SUFFICES ASSUME NEW j \in Keys, j # k, j # old
                 PROVE  map'[j] = map[j] /\ (map[j] # Null => used'[map[j]] = used[map[j]])
      BY <2>5
    <3>1. map[j] # Null => map[j] # r /\ map[j] \in Records
      BY <1>a DEF Mapped, old
    <3> QED
      BY <3>1, <2>3, <2>5, <1>a
  <2>8. Promise!Use(k, {old})
    <3> DEFINE gone == {old}
    <3>1. gone \in SUBSET Keys
      BY <2>4
    <3>2. \A j \in Keys \ {k} :
            IF j \in gone THEN map'[j] = Null
            ELSE map'[j] = map[j] /\ (map[j] # Null => used'[map[j]] = used[map[j]])
      BY <2>7
    <3> HIDE DEF gone
    <3>3. Promise!Use(k, gone)
      BY <2>4, <2>6, <3>1, <3>2, UseSeen
    <3> QED
      BY <3>3 DEF gone
  <2>9. Promise!Oldest(old)
    <3>1. \A j \in Mapped : Uses[old] <= Uses[j]
      BY <2>2, <2>4, <1>a, <1>b DEF Mapped, r
    <3> QED
      BY <2>4, <3>1, <1>b DEF Promise!Oldest, Uses
  <2>10. Promise!Insert(k)
    <3>1. k \notin Promise!Cached /\ Promise!Cardinality(Promise!Cached) = Cap /\ Cap' = Cap
      BY <2>1, <2>3, <1>b, <1>c DEF Mapped, Cap
    <3> QED
      BY <2>4, <2>8, <2>9, <3>1 DEF Promise!Insert, Cap
  <2> QED
    BY <2>1, <2>10, <1>d
<1>4. ASSUME NEW k \in Keys, Get(k)
      PROVE  Promise!Next \/ UNCHANGED <<Uses, Cap>>
  <2>1. map[k] # Null /\ map' = map /\ UNCHANGED <<todo, capacity, newCap>> /\ todo = 0
    BY <1>4 DEF Get, Ready
  <2>2. CASE tick' = 0
    <3>1. used' = [used EXCEPT ![map[k]] = clock + 1]
      BY <1>4, <2>2 DEF Get, Stamp
    <3>2. k \in Mapped /\ map[k] \in Records /\ used'[map[k]] = clock + 1
      BY <2>1, <3>1, <1>a DEF Mapped
    <3>3. \A j \in Keys \ {k} : map[j] # Null => used'[map[j]] = used[map[j]]
      BY <3>1, <3>2, <1>a DEF Mapped
    <3>4. Promise!Use(k, {})
      BY <2>1, <3>2, <3>3, UseSeen
    <3>5. Promise!Get(k)
      BY <2>1, <3>2, <3>4, <1>b DEF Promise!Get, Cap
    <3> QED
      BY <2>1, <3>5, <1>d
  <2>3. CASE tick' # 0
    <3>1. used' = used
      BY <1>4, <2>3 DEF Get
    <3> QED
      BY <2>1, <3>1 DEF Uses, Cap
  <2> QED
    BY <2>2, <2>3
<1>5. ASSUME NEW k \in Keys, Remove(k)
      PROVE  Promise!Next
  <2>1. /\ map[k] # Null /\ map' = [map EXCEPT ![key[map[k]]] = Null] /\ used' = used
        /\ UNCHANGED <<todo, capacity, newCap>> /\ todo = 0
    BY <1>5 DEF Remove, Free, Ready
  <2>2. key[map[k]] = k
    BY <2>1, <1>a DEF Mapped
  <2>3. Uses' = [Uses EXCEPT ![k] = 0]
    BY <2>1, <2>2, GoneSeen
  <2>4. Promise!Remove(k)
    BY <2>1, <2>3 DEF Promise!Remove, Uses, Cap
  <2> QED
    BY <2>1, <2>4, <1>d
<1>6. ASSUME Clear
      PROVE  Promise!Next
  <2>1. map' = [k \in Keys |-> Null] /\ UNCHANGED <<todo, capacity, newCap>> /\ todo = 0
    BY <1>6 DEF Clear, Ready
  <2>2. Uses' = [k \in Keys |-> 0]
    BY <2>1 DEF Uses
  <2>3. Promise!Clear
    BY <2>1, <2>2 DEF Promise!Clear, Uses, Cap
  <2> QED
    BY <2>1, <2>3, <1>d
<1>7. ASSUME NEW n \in 0..MaxCap, Resize(n) \/ ResizeBegin(n)
      PROVE  Promise!Next
  <2>1. map' = map /\ used' = used /\ todo = 0
    BY <1>7 DEF Resize, ResizeBegin, Ready
  <2>2. Uses' = Uses
    BY <2>1 DEF Uses
  <2>3. Cap' \in Nat \ {0}
    BY DEF LruInv, TypeOK, Cap
  <2>4. Promise!Resize
    BY <2>2, <2>3 DEF Promise!Resize, Uses, Cap
  <2> QED
    BY <2>1, <2>4, <1>d
<1>8. ASSUME ResizeRound
      PROVE  Promise!Next
  <2>1. todo > 0 /\ size > 0
    BY <1>8, <1>c DEF ResizeRound
  <2>2. LastSound /\ Last \in Live /\ \A s \in Live : used[Last] <= used[s]
    BY <2>1, LastIsOldest
  <2>3. /\ map' = [map EXCEPT ![key[Last]] = Null] /\ used' = used /\ todo' = todo - 1
        /\ capacity' = (IF todo = 1 THEN newCap ELSE capacity) /\ newCap' = newCap
    BY <1>8, <2>2 DEF ResizeRound, Free
  <2>4. key[Last] \in Mapped /\ key[Last] \in Keys /\ map[key[Last]] = Last
    BY <2>2, <1>a
  <2>5. Uses' = [Uses EXCEPT ![key[Last]] = 0]
    BY <2>3, <2>4, GoneSeen
  <2>6. Cap' = Cap /\ Promise!Cardinality(Promise!Cached) > Cap
    <3>1. newCap < size
      BY <2>1, <1>c
    <3>2. Cap = newCap
      BY <2>1 DEF Cap
    <3>3. Cap' = newCap
      <4>1. CASE todo = 1
        BY <4>1, <2>3 DEF Cap
      <4>2. CASE todo # 1
        BY <4>2, <2>1, <2>3, <1>c DEF Cap
      <4> QED
        BY <4>1, <4>2
    <3> QED
      BY <3>1, <3>2, <3>3, <1>b, <1>c
  <2>7. Promise!Oldest(key[Last])
    <3>1. \A j \in Mapped : Uses[key[Last]] <= Uses[j]
      BY <2>2, <2>4, <1>a, <1>b DEF Mapped
    <3> QED
      BY <2>4, <3>1, <1>b DEF Promise!Oldest, Uses
  <2>8. Promise!Trim
    BY <2>4, <2>5, <2>6, <2>7 DEF Promise!Trim, Uses, Cap
  <2> QED
    BY <2>8 DEF Promise!Next
<1>9. ASSUME UNCHANGED vars
      PROVE  UNCHANGED <<Uses, Cap>>
  BY <1>9 DEF vars, Uses, Cap
<1> QED
  BY <1>1, <1>2, <1>3, <1>4, <1>5, <1>6, <1>7, <1>8, <1>9 DEF Next

(* The cache of pointers keeps the promise of Lru: a key leaves unasked only when *)
(* there is no room and no other was used less recently.                          *)
THEOREM LruRefinement == Spec => PromiseSpec
<1>1. Init => Promise!Init
  <2> SUFFICES ASSUME Init PROVE Promise!Init
    OBVIOUS
  <2>1. LruInv
    BY Initially
  <2>2. Uses = [k \in Keys |-> 0]
    BY DEF Init, Uses
  <2> QED
    BY <2>1, <2>2, Seen DEF Promise!Init, Uses, Cap
<1>2. LruInv /\ LruInv' /\ [Next]_vars => [Promise!Next]_(Promise!vars)
  BY StepSeen DEF Promise!vars, Uses, Cap
<1> QED
  BY <1>1, <1>2, LruInvariance, PTL DEF Spec, PromiseSpec, Promise!Spec

=============================================================================
