--------------------------- MODULE Router_proofs ---------------------------
(***************************************************************************)
(* Proofs about Router for any addresses, mailboxes and clones of the      *)
(* router: what a cache answers with is right, no open mailbox is lost,    *)
(* and force_send does not panic.                                          *)
(***************************************************************************)
EXTENDS Router, FiniteSetTheorems, TLAPS

(* Where a call is says what its local variables hold, and who has the mutex. *)
Placed ==
  \A r \in Routers :
    /\ call[r].at \in {"cached", "map", "found", "full"} =>
         call[r].op \in Sends /\ call[r].addr \in Addrs
    /\ call[r].at \in {"cached", "found", "full", "closing"} => call[r].box \in Boxes
    /\ call[r].at \in {"cached", "full"} => cache[r][call[r].addr] = call[r].box
    /\ call[r].at = "closing" => call[r].addr \in Addrs
    /\ call[r].at = "locking" /\ call[r].op = "close" => call[r].addr \in Addrs
    /\ call[r].at # "panicked"
    /\ lock = r <=> call[r].at \in {"stored", "closing"}

(* The map holds open mailboxes, each at one address, and every open mailbox is in *)
(* it, but for the one that was just taken out to be closed.                       *)
Registered ==
  /\ \A a \in Addrs : map[a] # None => link[map[a]] = "open"
  /\ \A a, c \in Addrs : map[a] # None /\ map[a] = map[c] => a = c
  /\ \A r \in Routers : call[r].at = "closing" =>
       link[call[r].box] = "open" /\ \A a \in Addrs : map[a] # call[r].box
  /\ \A b \in Boxes : link[b] = "open" => \E a \in Addrs : map[a] = b \/ BeingClosed(a, b)

(* The mailbox b, which somebody remembers for address a, is the one of the map, *)
(* being closed, or closed.                                                      *)
Current(a, b) ==
  /\ link[b] # "new"
  /\ link[b] = "open" => map[a] = b \/ BeingClosed(a, b)

(* Caches and calls remember only such mailboxes. *)
Honest ==
  /\ \A r \in Routers, a \in Addrs : cache[r][a] # None => Current(a, cache[r][a])
  /\ \A r \in Routers : call[r].at = "found" => Current(call[r].addr, call[r].box)

(* The inductive invariant. *)
RInv == TypeOK /\ Placed /\ Registered /\ Honest

-----------------------------------------------------------------------------
(* Types *)

(* The fields of a call. *)
LEMMA CallFields ==
  ASSUME TypeOK, NEW r \in Routers
  PROVE  /\ call[r].op \in Ops /\ call[r].at \in Points
         /\ call[r].addr \in Addrs \cup {None}
         /\ call[r].box \in Boxes \cup {None}
         /\ call[r].connected \in BOOLEAN
<1>1. call[r] \in Calls
  BY DEF TypeOK
<1> QED BY <1>1 DEF Calls

(* Starting, going on with and ending a call keep its type. *)
LEMMA StartTyped ==
  ASSUME TypeOK, NEW r \in Routers, NEW op \in Ops, NEW p \in Points,
         NEW a \in Addrs \cup {None}, NEW b \in Boxes \cup {None}, Start(r, op, p, a, b)
  PROVE  call' \in [Routers -> Calls]
<1>1. [op |-> op, at |-> p, addr |-> a, box |-> b, connected |-> TRUE] \in Calls
  BY DEF Calls
<1> QED BY <1>1 DEF Start, TypeOK

LEMMA GoOnTyped ==
  ASSUME TypeOK, NEW r \in Routers, NEW p \in Points, NEW b \in Boxes \cup {None},
         NEW c \in BOOLEAN, GoOn(r, p, b, c)
  PROVE  call' \in [Routers -> Calls]
<1>1. [op |-> call[r].op, at |-> p, addr |-> call[r].addr, box |-> b, connected |-> c] \in Calls
  BY CallFields DEF Calls
<1> QED BY <1>1 DEF GoOn, TypeOK

LEMMA ReturnTyped ==
  ASSUME TypeOK, NEW r \in Routers, Return(r)
  PROVE  call' \in [Routers -> Calls]
<1>1. NoCall \in Calls
  BY DEF NoCall, Calls, Ops, Points
<1> QED BY <1>1 DEF Return, TypeOK

LEMMA GotoTyped ==
  ASSUME TypeOK, NEW r \in Routers, NEW p \in Points, Goto(r, p)
  PROVE  call' \in [Routers -> Calls]
  BY CallFields, GoOnTyped DEF Goto

LEMMA AcceptedTyped ==
  ASSUME TypeOK, NEW r \in Routers, Accepted(r)
  PROVE  call' \in [Routers -> Calls]
  BY ReturnTyped, GotoTyped DEF Accepted, Points

(* The initial states satisfy the invariant. *)
LEMMA RouterInitInv == Init => RInv
<1> SUFFICES ASSUME Init PROVE RInv
  OBVIOUS
<1>1. NoCall \in Calls
  BY DEF NoCall, Calls, Ops, Points
<1>2. TypeOK
  <2>1. 0 \in 0..Cardinality(Addrs)
    BY RouterAssumption, FS_CardinalityType
  <2> QED BY <1>1, <2>1, RouterAssumption DEF Init, TypeOK
<1>3. Placed /\ Registered /\ Honest
  BY RouterAssumption, SMT DEF Init, Placed, Registered, Honest, NoCall
<1> QED BY <1>2, <1>3 DEF RInv

(* Every step keeps the types. *)
LEMMA RouterTypeStep ==
  TypeOK /\ Placed /\ [Next]_vars => TypeOK'
<1> SUFFICES ASSUME TypeOK, Placed, [Next]_vars PROVE TypeOK'
  OBVIOUS
<1> USE RouterAssumption
<1>1. ASSUME NEW r \in Routers, NEW op \in Sends, NEW a \in Addrs, Begin(r, op, a) PROVE TypeOK'
  <2>1. call' \in [Routers -> Calls]
    BY <1>1, StartTyped DEF Begin, Ops, Points, Sends, TypeOK
  <2> QED BY <1>1, <2>1 DEF TypeOK, Begin
<1>2. ASSUME NEW r \in Routers, ClearCache(r) PROVE TypeOK'
  BY <1>2, SMT DEF ClearCache, TypeOK
<1>3. ASSUME NEW r \in Routers, BroadcastShutdown(r) PROVE TypeOK'
  <2>1. call' \in [Routers -> Calls]
    BY <1>3, StartTyped DEF BroadcastShutdown, Ops, Points
  <2> QED BY <1>3, <2>1 DEF TypeOK, BroadcastShutdown
<1>4. ASSUME NEW r \in Routers, NEW a \in Addrs, Close(r, a) PROVE TypeOK'
  <2>1. call' \in [Routers -> Calls]
    BY <1>4, StartTyped DEF Close, Ops, Points
  <2> QED BY <1>4, <2>1 DEF TypeOK, Close
<1>5. ASSUME NEW r \in Routers, NEW op \in {"register", "register_all"}, NEW a \in Addrs, NEW b \in Boxes, Register(r, op, a, b) PROVE TypeOK'
  <2>1. call' \in [Routers -> Calls]
    BY <1>5, StartTyped DEF Register, Store, Ops, Points, TypeOK
  <2> QED BY <1>5, <2>1 DEF TypeOK, Register, Store
<1>6. ASSUME NEW r \in Routers, NEW a \in Addrs, NEW b \in Boxes, RegisterMore(r, a, b) PROVE TypeOK'
  <2>1. call' \in [Routers -> Calls]
    BY <1>6, StartTyped DEF RegisterMore, Store, Ops, Points, TypeOK
  <2> QED BY <1>6, <2>1 DEF TypeOK, RegisterMore, Store
<1>7. ASSUME NEW r \in Routers, TryCached(r) PROVE TypeOK'
  <2>1. call' \in [Routers -> Calls]
    BY <1>7, AcceptedTyped, GoOnTyped, CallFields DEF TryCached, Points
  <2> QED BY <1>7, <2>1 DEF TypeOK, TryCached
<1>8. ASSUME NEW r \in Routers, LookUpNothing(r) PROVE TypeOK'
  <2>1. call' \in [Routers -> Calls]
    BY <1>8, ReturnTyped DEF LookUpNothing
  <2> QED BY <1>8, <2>1 DEF TypeOK, LookUpNothing, Purged
<1>9. ASSUME NEW r \in Routers, LookUp(r) PROVE TypeOK'
  <2>1. call' \in [Routers -> Calls]
    <3>1. call[r].addr \in Addrs /\ call[r].connected \in BOOLEAN
      BY <1>9, CallFields DEF LookUp, At, Placed
    <3>2. map[call[r].addr] \in Boxes \cup {None}
      BY <3>1 DEF TypeOK
    <3> QED BY <1>9, <3>1, <3>2, GoOnTyped DEF LookUp, Points
  <2>2. Cardinality(Stored(map)) \in Nat \ {0}
    <3>1. Stored(map) \in SUBSET Addrs /\ call[r].addr \in Stored(map)
      BY <1>9 DEF LookUp, At, Stored, Placed, Sends
    <3>2. IsFiniteSet(Stored(map))
      BY <3>1, RouterAssumption, FS_Subset
    <3> QED BY <3>1, <3>2, FS_CardinalityType, FS_EmptySet
  <2>3. cap' \in [Routers -> Nat \ {0}]
    BY <1>9, <2>2 DEF LookUp, TypeOK
  <2>4. cache' \in [Routers -> [Addrs -> Boxes \cup {None}]]
    BY <1>9 DEF LookUp, TypeOK
  <2> QED BY <1>9, <2>1, <2>3, <2>4 DEF LookUp, TypeOK
<1>10. ASSUME NEW r \in Routers, TryFound(r) PROVE TypeOK'
  <2>1. call' \in [Routers -> Calls]
    BY <1>10, AcceptedTyped DEF TryFound
  <2>2. call[r].addr \in Addrs /\ call[r].box \in Boxes
    BY <1>10 DEF TryFound, Placed, At
  <2>3. cache' \in [Routers -> [Addrs -> Boxes \cup {None}]]
    <3>1. cache \in [Routers -> [Addrs -> Boxes \cup {None}]]
      BY DEF TypeOK
    <3>2. CASE cache' = [cache EXCEPT ![r][call[r].addr] = call[r].box]
      BY <2>2, <3>1, <3>2
    <3>3. ASSUME NEW old \in Stored(cache[r]),
                 cache' = [cache EXCEPT ![r][call[r].addr] = call[r].box, ![r][old] = None]
          PROVE  cache' \in [Routers -> [Addrs -> Boxes \cup {None}]]
      BY <2>2, <3>1, <3>3 DEF Stored
    <3> QED BY <1>10, <3>2, <3>3 DEF TryFound, Insert
  <2> QED BY <1>10, <2>1, <2>3 DEF TypeOK, TryFound
<1>11. ASSUME NEW r \in Routers, TryFoundClosed(r) PROVE TypeOK'
  <2>1. call' \in [Routers -> Calls]
    BY <1>11, ReturnTyped DEF TryFoundClosed
  <2> QED BY <1>11, <2>1 DEF TypeOK, TryFoundClosed, Purged
<1>12. ASSUME NEW r \in Routers, ForceFull(r) PROVE TypeOK'
  <2>1. call' \in [Routers -> Calls]
    BY <1>12, ReturnTyped, GotoTyped DEF ForceFull, Points
  <2> QED BY <1>12, <2>1 DEF TypeOK, ForceFull
<1>13. ASSUME NEW r \in Routers, Remove(r) PROVE TypeOK'
  <2>1. call' \in [Routers -> Calls]
    BY <1>13, GoOnTyped DEF Remove, Points, TypeOK, Placed, At
  <2> QED BY <1>13, <2>1 DEF TypeOK, Remove, Placed, At
<1>14. ASSUME NEW r \in Routers, Lock(r) PROVE TypeOK'
  <2>1. call' \in [Routers -> Calls]
    BY <1>14, GotoTyped DEF Lock, Points
  <2> QED BY <1>14, <2>1 DEF TypeOK, Lock
<1>15. ASSUME NEW r \in Routers, CloseBox(r) PROVE TypeOK'
  <2>1. call' \in [Routers -> Calls]
    BY <1>15, GotoTyped DEF CloseBox, Points
  <2> QED BY <1>15, <2>1 DEF TypeOK, CloseBox
<1>16. ASSUME NEW r \in Routers, Unlock(r) PROVE TypeOK'
  <2>1. call' \in [Routers -> Calls]
    BY <1>16, ReturnTyped DEF Unlock
  <2>2. Cardinality(Stored(map)) \in 0..Cardinality(Addrs)
    <3>1. Stored(map) \in SUBSET Addrs
      BY DEF Stored
    <3>2. /\ IsFiniteSet(Stored(map))
          /\ Cardinality(Stored(map)) <= Cardinality(Addrs)
      BY <3>1, RouterAssumption, FS_Subset
    <3> QED BY <3>2, RouterAssumption, FS_CardinalityType
  <2> QED BY <1>16, <2>1, <2>2 DEF Unlock, TypeOK
<1>17. ASSUME NEW r \in Routers, UnlockOnly(r) PROVE TypeOK'
  <2>1. call' \in [Routers -> Calls]
    BY <1>17, ReturnTyped DEF UnlockOnly
  <2> QED BY <1>17, <2>1 DEF TypeOK, UnlockOnly
<1>18. ASSUME NEW r \in Routers, NEW a \in Addrs, Drain(r, a) PROVE TypeOK'
  <2>1. call' \in [Routers -> Calls]
    BY <1>18, StartTyped DEF Drain, Ops, Points, TypeOK
  <2> QED BY <1>18, <2>1 DEF TypeOK, Drain
<1>19. CASE UNCHANGED vars
  BY <1>19, SMT DEF vars, TypeOK
<1> QED
  BY <1>1, <1>2, <1>3, <1>4, <1>5, <1>6, <1>7, <1>8, <1>9, <1>10, <1>11, <1>12, <1>13, <1>14, <1>15, <1>16, <1>17, <1>18, <1>19 DEF Next, Continue

(* Every step leaves its call with what the next one needs; nobody else does. *)
LEMMA PlacedStep ==
  TypeOK /\ Placed /\ [Next]_vars => Placed'
<1> SUFFICES ASSUME TypeOK, Placed, [Next]_vars PROVE Placed'
  OBVIOUS
<1> USE RouterAssumption DEF TypeOK, Placed, NoCall, Sends
<1>1. ASSUME NEW r \in Routers, NEW op \in Sends, NEW a \in Addrs, Begin(r, op, a) PROVE Placed'
  BY <1>1, SMT DEF Begin, Start
<1>2. ASSUME NEW r \in Routers, ClearCache(r) PROVE Placed'
  BY <1>2, SMT DEF ClearCache
<1>3. ASSUME NEW r \in Routers, BroadcastShutdown(r) PROVE Placed'
  BY <1>3, SMT DEF BroadcastShutdown, Start
<1>4. ASSUME NEW r \in Routers, NEW a \in Addrs, Close(r, a) PROVE Placed'
  BY <1>4, SMT DEF Close, Start
<1>5. ASSUME NEW r \in Routers, NEW op \in {"register", "register_all"}, NEW a \in Addrs, NEW b \in Boxes, Register(r, op, a, b) PROVE Placed'
  BY <1>5, SMT DEF Register, Store, Start
<1>6. ASSUME NEW r \in Routers, NEW a \in Addrs, NEW b \in Boxes, RegisterMore(r, a, b) PROVE Placed'
  BY <1>6, SMT DEF RegisterMore, Store, At, Start
<1>7. ASSUME NEW r \in Routers, TryCached(r) PROVE Placed'
  BY <1>7, SMT DEF TryCached, At, Accepted, Return, Goto, GoOn
<1>8. ASSUME NEW r \in Routers, LookUpNothing(r) PROVE Placed'
  BY <1>8, SMT DEF LookUpNothing, At, Purged, Return
<1>9. ASSUME NEW r \in Routers, LookUp(r) PROVE Placed'
  BY <1>9, SMT DEF LookUp, At, GoOn
<1>10. ASSUME NEW r \in Routers, TryFound(r) PROVE Placed'
  BY <1>10, SMT DEF TryFound, At, Insert, Accepted, Return, Goto, GoOn
<1>11. ASSUME NEW r \in Routers, TryFoundClosed(r) PROVE Placed'
  BY <1>11, SMT DEF TryFoundClosed, At, Purged, Return
<1>12. ASSUME NEW r \in Routers, ForceFull(r) PROVE Placed'
  BY <1>12, SMT DEF ForceFull, At, Return, Goto, GoOn
<1>13. ASSUME NEW r \in Routers, Remove(r) PROVE Placed'
  BY <1>13, SMT DEF Remove, At, GoOn
<1>14. ASSUME NEW r \in Routers, Lock(r) PROVE Placed'
  BY <1>14, SMT DEF Lock, At, Goto, GoOn
<1>15. ASSUME NEW r \in Routers, CloseBox(r) PROVE Placed'
  BY <1>15, SMT DEF CloseBox, At, Goto, GoOn
<1>16. ASSUME NEW r \in Routers, Unlock(r) PROVE Placed'
  BY <1>16, SMT DEF Unlock, At, Return
<1>17. ASSUME NEW r \in Routers, UnlockOnly(r) PROVE Placed'
  BY <1>17, SMT DEF UnlockOnly, At, Return
<1>18. ASSUME NEW r \in Routers, NEW a \in Addrs, Drain(r, a) PROVE Placed'
  BY <1>18, SMT DEF Drain, At, Start
<1>19. CASE UNCHANGED vars
  BY <1>19, SMT DEF vars
<1> QED
  BY <1>1, <1>2, <1>3, <1>4, <1>5, <1>6, <1>7, <1>8, <1>9, <1>10, <1>11, <1>12, <1>13, <1>14, <1>15, <1>16, <1>17, <1>18, <1>19 DEF Next, Continue

(* A step that leaves the map and the mailboxes alone. *)
LEMMA ClosingKept ==
  ASSUME TypeOK, NEW r \in Routers, UNCHANGED <<map, lock, link>>,
         \A q \in Routers : q # r => call'[q] = call[q],
         call[r].at # "closing", call'[r].at # "closing"
  PROVE  \A a \in Addrs, b \in Boxes : BeingClosed(a, b)' <=> BeingClosed(a, b)
  BY DEF BeingClosed

LEMMA RegisteredKept ==
  ASSUME TypeOK, Registered, NEW r \in Routers, UNCHANGED <<map, lock, link>>,
         \A q \in Routers : q # r => call'[q] = call[q],
         call[r].at # "closing", call'[r].at # "closing"
  PROVE  Registered'
<1>1. \A a \in Addrs, b \in Boxes : BeingClosed(a, b)' <=> BeingClosed(a, b)
  BY ClosingKept
<1> QED BY <1>1, SMT DEF Registered

(* Every step keeps the map and the mailboxes in agreement. *)
LEMMA RegisteredStep ==
  TypeOK /\ Placed /\ Registered /\ [Next]_vars => Registered'
<1> SUFFICES ASSUME TypeOK, Placed, Registered, [Next]_vars PROVE Registered'
  OBVIOUS
<1> USE RouterAssumption DEF TypeOK, Placed, Registered, BeingClosed, NoCall, Sends
<1>1. ASSUME NEW r \in Routers, NEW op \in Sends, NEW a \in Addrs, Begin(r, op, a) PROVE Registered'
  BY <1>1, SMT DEF Begin, Start
<1>2. ASSUME NEW r \in Routers, ClearCache(r) PROVE Registered'
  BY <1>2, SMT DEF ClearCache
<1>3. ASSUME NEW r \in Routers, BroadcastShutdown(r) PROVE Registered'
  BY <1>3, SMT DEF BroadcastShutdown, Start
<1>4. ASSUME NEW r \in Routers, NEW a \in Addrs, Close(r, a) PROVE Registered'
  BY <1>4, SMT DEF Close, Start
<1>5. ASSUME NEW r \in Routers, NEW op \in {"register", "register_all"}, NEW a \in Addrs, NEW b \in Boxes, Register(r, op, a, b) PROVE Registered'
  BY <1>5, SMT DEF Register, Store, Start
<1>6. ASSUME NEW r \in Routers, NEW a \in Addrs, NEW b \in Boxes, RegisterMore(r, a, b) PROVE Registered'
  BY <1>6, SMT DEF RegisterMore, Store, At, Start
<1>7. ASSUME NEW r \in Routers, TryCached(r) PROVE Registered'
  <2>1. /\ \A q \in Routers : q # r => call'[q] = call[q]
        /\ call[r].at # "closing" /\ call'[r].at # "closing"
    BY <1>7, SMT DEF TryCached, At, Accepted, Return, Goto, GoOn
  <2>2. UNCHANGED <<map, lock, link>>
    BY <1>7 DEF TryCached
  <2> QED BY <2>1, <2>2, RegisteredKept
<1>8. ASSUME NEW r \in Routers, LookUpNothing(r) PROVE Registered'
  BY <1>8, SMT DEF LookUpNothing, At, Purged, Return
<1>9. ASSUME NEW r \in Routers, LookUp(r) PROVE Registered'
  BY <1>9, SMT DEF LookUp, At, GoOn
<1>10. ASSUME NEW r \in Routers, TryFound(r) PROVE Registered'
  <2>1. /\ \A q \in Routers : q # r => call'[q] = call[q]
        /\ call[r].at # "closing" /\ call'[r].at # "closing"
    BY <1>10, SMT DEF TryFound, At, Accepted, Return, Goto, GoOn
  <2>2. UNCHANGED <<map, lock, link>>
    BY <1>10 DEF TryFound
  <2> QED BY <2>1, <2>2, RegisteredKept
<1>11. ASSUME NEW r \in Routers, TryFoundClosed(r) PROVE Registered'
  BY <1>11, SMT DEF TryFoundClosed, At, Purged, Return
<1>12. ASSUME NEW r \in Routers, ForceFull(r) PROVE Registered'
  <2>1. /\ \A q \in Routers : q # r => call'[q] = call[q]
        /\ call[r].at # "closing" /\ call'[r].at # "closing"
    BY <1>12, SMT DEF ForceFull, At, Return, Goto, GoOn
  <2>2. UNCHANGED <<map, lock, link>>
    BY <1>12 DEF ForceFull
  <2> QED BY <2>1, <2>2, RegisteredKept
<1>13. ASSUME NEW r \in Routers, Remove(r) PROVE Registered'
  BY <1>13, SMT DEF Remove, At, GoOn
<1>14. ASSUME NEW r \in Routers, Lock(r) PROVE Registered'
  BY <1>14, SMT DEF Lock, At, Goto, GoOn
<1>15. ASSUME NEW r \in Routers, CloseBox(r) PROVE Registered'
  BY <1>15, SMT DEF CloseBox, At, Goto, GoOn
<1>16. ASSUME NEW r \in Routers, Unlock(r) PROVE Registered'
  BY <1>16, SMT DEF Unlock, At, Return
<1>17. ASSUME NEW r \in Routers, UnlockOnly(r) PROVE Registered'
  BY <1>17, SMT DEF UnlockOnly, At, Return
<1>18. ASSUME NEW r \in Routers, NEW a \in Addrs, Drain(r, a) PROVE Registered'
  BY <1>18, SMT DEF Drain, At, Start
<1>19. CASE UNCHANGED vars
  BY <1>19, SMT DEF vars
<1> QED
  BY <1>1, <1>2, <1>3, <1>4, <1>5, <1>6, <1>7, <1>8, <1>9, <1>10, <1>11, <1>12, <1>13, <1>14, <1>15, <1>16, <1>17, <1>18, <1>19 DEF Next, Continue

(* A step that leaves the map and the mailboxes alone may forget what a cache has. *)
LEMMA HonestKept ==
  ASSUME TypeOK, Placed, Honest, NEW r \in Routers, UNCHANGED <<map, lock, link>>,
         \A q \in Routers : q # r => call'[q] = call[q],
         call[r].at # "closing", call'[r].at \notin {"closing", "found"},
         \A q \in Routers, a \in Addrs :
           \/ cache'[q][a] \in {cache[q][a], None}
           \/ cache'[q][a] \in Boxes /\ Current(a, cache'[q][a])
  PROVE  Honest'
<1>1. \A a \in Addrs, b \in Boxes : BeingClosed(a, b)' <=> BeingClosed(a, b)
  BY ClosingKept
<1>2. \A a \in Addrs, b \in Boxes : Current(a, b) => Current(a, b)'
  BY <1>1 DEF Current
<1>3. \A q \in Routers, a \in Addrs :
        cache'[q][a] # None => cache'[q][a] \in Boxes /\ Current(a, cache'[q][a])
  BY DEF Honest, TypeOK
<1>4. \A q \in Routers, a \in Addrs : cache'[q][a] # None => Current(a, cache[q][a])'
  BY <1>2, <1>3
<1>5. \A q \in Routers : call'[q].at = "found" => Current(call[q].addr, call[q].box)'
  BY <1>2 DEF Honest, Placed
<1> QED BY <1>4, <1>5 DEF Honest

(* No step makes a remembered mailbox a wrong one that is open. *)
LEMMA HonestStep ==
  TypeOK /\ Placed /\ Registered /\ Honest /\ [Next]_vars => Honest'
<1> SUFFICES ASSUME TypeOK, Placed, Registered, Honest, [Next]_vars PROVE Honest'
  OBVIOUS
<1> USE RouterAssumption DEF TypeOK, Placed, Registered, Honest, Current, BeingClosed, NoCall, Sends
<1>1. ASSUME NEW r \in Routers, NEW op \in Sends, NEW a \in Addrs, Begin(r, op, a) PROVE Honest'
  <2>1. /\ \A q \in Routers : q # r => call'[q] = call[q]
        /\ call[r].at # "closing" /\ call'[r].at \notin {"closing", "found"}
    BY <1>1, SMT DEF Begin, Start
  <2>2. UNCHANGED <<map, lock, link>>
    BY <1>1 DEF Begin
  <2>3. \A q \in Routers, c \in Addrs : cache'[q][c] \in {cache[q][c], None}
    BY <1>1, SMT DEF Begin
  <2> HIDE DEF TypeOK, Placed, Honest, Current
  <2> QED BY <2>1, <2>2, <2>3, HonestKept
<1>2. ASSUME NEW r \in Routers, ClearCache(r) PROVE Honest'
  <2>1. /\ \A q \in Routers : q # r => call'[q] = call[q]
        /\ call[r].at # "closing" /\ call'[r].at \notin {"closing", "found"}
    BY <1>2, SMT DEF ClearCache
  <2>2. UNCHANGED <<map, lock, link>>
    BY <1>2 DEF ClearCache
  <2>3. \A q \in Routers, a \in Addrs : cache'[q][a] \in {cache[q][a], None}
    BY <1>2, SMT DEF ClearCache
  <2> HIDE DEF TypeOK, Placed, Honest, Current
  <2> QED BY <2>1, <2>2, <2>3, HonestKept
<1>3. ASSUME NEW r \in Routers, BroadcastShutdown(r) PROVE Honest'
  <2>1. /\ \A q \in Routers : q # r => call'[q] = call[q]
        /\ call[r].at # "closing" /\ call'[r].at \notin {"closing", "found"}
    BY <1>3, SMT DEF BroadcastShutdown, Start
  <2>2. UNCHANGED <<map, lock, link>>
    BY <1>3 DEF BroadcastShutdown
  <2>3. \A q \in Routers, a \in Addrs : cache'[q][a] \in {cache[q][a], None}
    BY <1>3, SMT DEF BroadcastShutdown
  <2> HIDE DEF TypeOK, Placed, Honest, Current
  <2> QED BY <2>1, <2>2, <2>3, HonestKept
<1>4. ASSUME NEW r \in Routers, NEW a \in Addrs, Close(r, a) PROVE Honest'
  <2>1. /\ \A q \in Routers : q # r => call'[q] = call[q]
        /\ call[r].at # "closing" /\ call'[r].at \notin {"closing", "found"}
    BY <1>4, SMT DEF Close, Start
  <2>2. UNCHANGED <<map, lock, link>>
    BY <1>4 DEF Close
  <2>3. \A q \in Routers, c \in Addrs : cache'[q][c] \in {cache[q][c], None}
    BY <1>4, SMT DEF Close
  <2> HIDE DEF TypeOK, Placed, Honest, Current
  <2> QED BY <2>1, <2>2, <2>3, HonestKept
<1>5. ASSUME NEW r \in Routers, NEW op \in {"register", "register_all"}, NEW a \in Addrs, NEW b \in Boxes, Register(r, op, a, b) PROVE Honest'
  BY <1>5, SMT DEF Register, Store, Start
<1>6. ASSUME NEW r \in Routers, NEW a \in Addrs, NEW b \in Boxes, RegisterMore(r, a, b) PROVE Honest'
  BY <1>6, SMT DEF RegisterMore, Store, At, Start
<1>7. ASSUME NEW r \in Routers, TryCached(r) PROVE Honest'
  <2>1. /\ \A q \in Routers : q # r => call'[q] = call[q]
        /\ call[r].at # "closing" /\ call'[r].at \notin {"closing", "found"}
    BY <1>7, SMT DEF TryCached, At, Accepted, Return, Goto, GoOn
  <2>2. UNCHANGED <<map, lock, link>>
    BY <1>7 DEF TryCached
  <2>3. \A q \in Routers, a \in Addrs : cache'[q][a] \in {cache[q][a], None}
    BY <1>7, SMT DEF TryCached
  <2> HIDE DEF TypeOK, Placed, Honest, Current
  <2> QED BY <2>1, <2>2, <2>3, HonestKept
<1>8. ASSUME NEW r \in Routers, LookUpNothing(r) PROVE Honest'
  BY <1>8, SMT DEF LookUpNothing, At, Purged, Return
<1>9. ASSUME NEW r \in Routers, LookUp(r) PROVE Honest'
  BY <1>9, SMT DEF LookUp, At, GoOn
<1>10. ASSUME NEW r \in Routers, TryFound(r) PROVE Honest'
  <2>1. /\ \A q \in Routers : q # r => call'[q] = call[q]
        /\ call[r].at # "closing" /\ call'[r].at \notin {"closing", "found"}
    BY <1>10, SMT DEF TryFound, At, Accepted, Return, Goto, GoOn
  <2>2. UNCHANGED <<map, lock, link>>
    BY <1>10 DEF TryFound
  <2>3. \A q \in Routers, a \in Addrs :
          \/ cache'[q][a] \in {cache[q][a], None}
          \/ q = r /\ a = call[r].addr /\ cache'[q][a] = call[r].box
    BY <1>10, SMT DEF TryFound, Insert, At
  <2>4. call[r].box \in Boxes /\ Current(call[r].addr, call[r].box)
    BY <1>10, SMT DEF TryFound, At
  <2> HIDE DEF TypeOK, Placed, Honest, Current
  <2>5. \A q \in Routers, a \in Addrs :
          \/ cache'[q][a] \in {cache[q][a], None}
          \/ cache'[q][a] \in Boxes /\ Current(a, cache'[q][a])
    BY <2>3, <2>4
  <2> QED BY <2>1, <2>2, <2>5, HonestKept
<1>11. ASSUME NEW r \in Routers, TryFoundClosed(r) PROVE Honest'
  BY <1>11, SMT DEF TryFoundClosed, At, Purged, Return
<1>12. ASSUME NEW r \in Routers, ForceFull(r) PROVE Honest'
  <2>1. /\ \A q \in Routers : q # r => call'[q] = call[q]
        /\ call[r].at # "closing" /\ call'[r].at \notin {"closing", "found"}
    BY <1>12, SMT DEF ForceFull, At, Return, Goto, GoOn
  <2>2. UNCHANGED <<map, lock, link>>
    BY <1>12 DEF ForceFull
  <2>3. \A q \in Routers, a \in Addrs : cache'[q][a] \in {cache[q][a], None}
    BY <1>12, SMT DEF ForceFull
  <2> HIDE DEF TypeOK, Placed, Honest, Current
  <2> QED BY <2>1, <2>2, <2>3, HonestKept
<1>13. ASSUME NEW r \in Routers, Remove(r) PROVE Honest'
  BY <1>13, SMT DEF Remove, At, GoOn
<1>14. ASSUME NEW r \in Routers, Lock(r) PROVE Honest'
  BY <1>14, SMT DEF Lock, At, Goto, GoOn
<1>15. ASSUME NEW r \in Routers, CloseBox(r) PROVE Honest'
  <2>1. /\ \A q \in Routers : q # r => call'[q] = call[q] /\ call[q].at # "closing"
        /\ call[r].at = "closing" /\ call'[r].at = "stored" /\ call[r].box \in Boxes
        /\ link' = [link EXCEPT ![call[r].box] = "closed"] /\ UNCHANGED <<map, cache>>
    BY <1>15, SMT DEF CloseBox, At, Goto, GoOn
  <2>2. \A a \in Addrs, b \in Boxes : Current(a, b) => Current(a, b)'
    BY <2>1, SMT
  <2> HIDE DEF BeingClosed, Current
  <2>3. \A q \in Routers, a \in Addrs : cache'[q][a] # None => Current(a, cache[q][a])'
    BY <2>1, <2>2
  <2>4. \A q \in Routers : call'[q].at = "found" => Current(call[q].addr, call[q].box)'
    BY <2>1, <2>2
  <2> QED BY <2>3, <2>4
<1>16. ASSUME NEW r \in Routers, Unlock(r) PROVE Honest'
  BY <1>16, SMT DEF Unlock, At, Return
<1>17. ASSUME NEW r \in Routers, UnlockOnly(r) PROVE Honest'
  BY <1>17, SMT DEF UnlockOnly, At, Return
<1>18. ASSUME NEW r \in Routers, NEW a \in Addrs, Drain(r, a) PROVE Honest'
  BY <1>18, SMT DEF Drain, At, Start
<1>19. CASE UNCHANGED vars
  BY <1>19, SMT DEF vars
<1> QED
  BY <1>1, <1>2, <1>3, <1>4, <1>5, <1>6, <1>7, <1>8, <1>9, <1>10, <1>11, <1>12, <1>13, <1>14, <1>15, <1>16, <1>17, <1>18, <1>19 DEF Next, Continue

-----------------------------------------------------------------------------
(* The size of a cache *)

(* A cache that loses entries does not grow. *)
LEMMA StoredShrinks ==
  ASSUME NEW f, NEW g, \A a \in Addrs : g[a] \in {f[a], None}
  PROVE  Cardinality(Stored(g)) <= Cardinality(Stored(f))
<1>1. Stored(f) \in SUBSET Addrs /\ Stored(g) \in SUBSET Stored(f)
  BY DEF Stored
<1>2. IsFiniteSet(Stored(f))
  BY <1>1, RouterAssumption, FS_Subset
<1> QED BY <1>1, <1>2, FS_Subset

(* A cache with a capacity of at least 1 does not exceed it when an entry comes in. *)
LEMMA InsertBounded ==
  ASSUME TypeOK, CacheBounded, NEW r \in Routers, NEW a \in Addrs, NEW b \in Boxes,
         Insert(r, a, b)
  PROVE  Cardinality(Stored(cache'[r])) <= cap[r]
<1> DEFINE S == Stored(cache[r])
<1>1. IsFiniteSet(S)
  <2>1. S \in SUBSET Addrs
    BY DEF Stored
  <2> QED BY <2>1, RouterAssumption, FS_Subset
<1>2. Cardinality(S) \in Nat /\ cap[r] \in Nat /\ Cardinality(S) <= cap[r]
  BY <1>1, FS_CardinalityType DEF TypeOK, CacheBounded
<1>3. CASE cache[r][a] # None
  <2>1. Stored(cache'[r]) = S
    BY <1>3, RouterAssumption DEF Insert, Stored, TypeOK
  <2> QED BY <2>1, <1>2
<1>4. CASE cache[r][a] = None /\ ~(Cardinality(S) >= cap[r])
  <2>1. Stored(cache'[r]) = S \cup {a} /\ a \notin S
    BY <1>4, RouterAssumption DEF Insert, Stored, TypeOK
  <2>2. Cardinality(S \cup {a}) = Cardinality(S) + 1
    BY <2>1, <1>1, FS_AddElement
  <2> QED BY <2>1, <2>2, <1>2, <1>4
<1>5. CASE cache[r][a] = None /\ Cardinality(S) >= cap[r]
  <2>1. PICK old \in S : cache' = [cache EXCEPT ![r][a] = b, ![r][old] = None]
    BY <1>5 DEF Insert
  <2>2. Stored(cache'[r]) = (S \ {old}) \cup {a} /\ a \notin S \ {old}
    BY <2>1, <1>5, RouterAssumption DEF Stored, TypeOK
  <2>3. IsFiniteSet(S \ {old}) /\ Cardinality(S \ {old}) = Cardinality(S) - 1
    BY <2>1, <1>1, FS_RemoveElement
  <2>4. Cardinality((S \ {old}) \cup {a}) = Cardinality(S \ {old}) + 1
    BY <2>2, <2>3, FS_AddElement
  <2> QED BY <2>2, <2>3, <2>4, <1>2
<1> QED BY <1>3, <1>4, <1>5

(* A resize leaves at most the new capacity. *)
LEMMA LookUpBounded ==
  ASSUME TypeOK, Placed, CacheBounded, NEW r \in Routers, LookUp(r)
  PROVE  Cardinality(Stored(cache'[r])) <= cap'[r]
<1> DEFINE S == Stored(cache[r])
           cnt == Cardinality(Stored(map))
           new == IF cnt > cap[r] \/ cnt < cap[r] \div 2 THEN cnt ELSE cap[r]
<1>1. PICK keep \in SUBSET S :
        /\ Cardinality(keep) = IF Cardinality(S) > new THEN new ELSE Cardinality(S)
        /\ cache' = [cache EXCEPT ![r] = [a \in Addrs |-> IF a \in keep THEN @[a] ELSE None]]
  BY DEF LookUp
<1>2. cap'[r] = new
  BY DEF LookUp, TypeOK
<1>3. Stored(cache'[r]) = keep
  BY <1>1 DEF Stored, TypeOK
<1>4. cnt \in Nat /\ Cardinality(S) \in Nat /\ cap[r] \in Nat
  <2>1. Stored(map) \in SUBSET Addrs /\ S \in SUBSET Addrs
    BY DEF Stored
  <2> QED BY <2>1, RouterAssumption, FS_Subset, FS_CardinalityType DEF TypeOK
<1> QED BY <1>1, <1>2, <1>3, <1>4

(* No step lets a cache exceed its capacity. *)
LEMMA BoundedStep ==
  TypeOK /\ Placed /\ CacheBounded /\ [Next]_vars => CacheBounded'
<1> SUFFICES ASSUME TypeOK, Placed, CacheBounded, [Next]_vars,
                    NEW q \in Routers
             PROVE  Cardinality(Stored(cache'[q])) <= cap'[q]
  BY DEF CacheBounded, Stored
<1>0. Cardinality(Stored(cache[q])) <= cap[q] /\ Cardinality(Stored(cache[q])) \in Nat /\ cap[q] \in Nat
  <2>1. Stored(cache[q]) \in SUBSET Addrs
    BY DEF Stored
  <2> QED BY <2>1, RouterAssumption, FS_Subset, FS_CardinalityType DEF TypeOK, CacheBounded
<1>a. ASSUME cap' = cap, \A a \in Addrs : cache'[q][a] \in {cache[q][a], None}
      PROVE  Cardinality(Stored(cache'[q])) <= cap'[q]
  <2>1. Cardinality(Stored(cache'[q])) <= Cardinality(Stored(cache[q]))
    BY <1>a, StoredShrinks
  <2>2. Cardinality(Stored(cache'[q])) \in Nat
    <3>1. Stored(cache'[q]) \in SUBSET Addrs
      BY DEF Stored
    <3> QED BY <3>1, RouterAssumption, FS_Subset, FS_CardinalityType
  <2> QED BY <2>1, <2>2, <1>0, <1>a
<1>1. ASSUME NEW r \in Routers, NEW op \in Sends, NEW a \in Addrs, Begin(r, op, a) PROVE Cardinality(Stored(cache'[q])) <= cap'[q]
  BY <1>1, <1>a DEF Begin, TypeOK
<1>2. ASSUME NEW r \in Routers, ClearCache(r) PROVE Cardinality(Stored(cache'[q])) <= cap'[q]
  BY <1>2, <1>a DEF ClearCache, TypeOK
<1>3. ASSUME NEW r \in Routers, BroadcastShutdown(r) PROVE Cardinality(Stored(cache'[q])) <= cap'[q]
  BY <1>3, <1>a DEF BroadcastShutdown, TypeOK
<1>4. ASSUME NEW r \in Routers, NEW a \in Addrs, Close(r, a) PROVE Cardinality(Stored(cache'[q])) <= cap'[q]
  BY <1>4, <1>a DEF Close, TypeOK
<1>5. ASSUME NEW r \in Routers, NEW op \in {"register", "register_all"}, NEW a \in Addrs, NEW b \in Boxes, Register(r, op, a, b) PROVE Cardinality(Stored(cache'[q])) <= cap'[q]
  BY <1>5, <1>a DEF Register, TypeOK
<1>6. ASSUME NEW r \in Routers, NEW a \in Addrs, NEW b \in Boxes, RegisterMore(r, a, b) PROVE Cardinality(Stored(cache'[q])) <= cap'[q]
  BY <1>6, <1>a DEF RegisterMore, TypeOK
<1>7. ASSUME NEW r \in Routers, TryCached(r) PROVE Cardinality(Stored(cache'[q])) <= cap'[q]
  BY <1>7, <1>a DEF TryCached, TypeOK
<1>8. ASSUME NEW r \in Routers, LookUpNothing(r) PROVE Cardinality(Stored(cache'[q])) <= cap'[q]
  BY <1>8, <1>a DEF LookUpNothing, Purged, TypeOK
<1>9. ASSUME NEW r \in Routers, LookUp(r) PROVE Cardinality(Stored(cache'[q])) <= cap'[q]
  <2>1. CASE q = r
    BY <1>9, <2>1, LookUpBounded
  <2>2. CASE q # r
    <3>1. cache'[q] = cache[q] /\ cap'[q] = cap[q]
      BY <1>9, <2>2 DEF LookUp, TypeOK
    <3> QED BY <3>1, <1>0
  <2> QED BY <2>1, <2>2
<1>10. ASSUME NEW r \in Routers, TryFound(r) PROVE Cardinality(Stored(cache'[q])) <= cap'[q]
  <2>1. call[r].addr \in Addrs /\ call[r].box \in Boxes /\ cap' = cap
    BY <1>10 DEF TryFound, At, Placed
  <2>2. CASE q = r
    BY <1>10, <2>1, <2>2, InsertBounded DEF TryFound
  <2>3. CASE q # r
    <3>1. cache'[q] = cache[q]
      BY <1>10, <2>3 DEF TryFound, Insert, TypeOK
    <3> QED BY <3>1, <2>1, <1>0
  <2> QED BY <2>2, <2>3
<1>11. ASSUME NEW r \in Routers, TryFoundClosed(r) PROVE Cardinality(Stored(cache'[q])) <= cap'[q]
  BY <1>11, <1>a DEF TryFoundClosed, Purged, TypeOK
<1>12. ASSUME NEW r \in Routers, ForceFull(r) PROVE Cardinality(Stored(cache'[q])) <= cap'[q]
  BY <1>12, <1>a DEF ForceFull, TypeOK
<1>13. ASSUME NEW r \in Routers, Remove(r) PROVE Cardinality(Stored(cache'[q])) <= cap'[q]
  BY <1>13, <1>a DEF Remove, TypeOK
<1>14. ASSUME NEW r \in Routers, Lock(r) PROVE Cardinality(Stored(cache'[q])) <= cap'[q]
  BY <1>14, <1>a DEF Lock, TypeOK
<1>15. ASSUME NEW r \in Routers, CloseBox(r) PROVE Cardinality(Stored(cache'[q])) <= cap'[q]
  BY <1>15, <1>a DEF CloseBox, TypeOK
<1>16. ASSUME NEW r \in Routers, Unlock(r) PROVE Cardinality(Stored(cache'[q])) <= cap'[q]
  BY <1>16, <1>a DEF Unlock, TypeOK
<1>17. ASSUME NEW r \in Routers, UnlockOnly(r) PROVE Cardinality(Stored(cache'[q])) <= cap'[q]
  BY <1>17, <1>a DEF UnlockOnly, TypeOK
<1>18. ASSUME NEW r \in Routers, NEW a \in Addrs, Drain(r, a) PROVE Cardinality(Stored(cache'[q])) <= cap'[q]
  BY <1>18, <1>a DEF Drain, TypeOK
<1>19. CASE UNCHANGED vars
  BY <1>19, <1>0 DEF vars
<1> QED
  BY <1>1, <1>2, <1>3, <1>4, <1>5, <1>6, <1>7, <1>8, <1>9, <1>10, <1>11, <1>12, <1>13, <1>14, <1>15, <1>16, <1>17, <1>18, <1>19 DEF Next, Continue

-----------------------------------------------------------------------------
(* The action property *)

(* Only the end of check_do ends a call that is at the map or has found a mailbox, *)
(* and it purges the cache.                                                        *)
LEMMA PurgeStep ==
  ASSUME TypeOK, Placed, [Next]_vars, NEW q \in Routers,
         call[q].at \in {"map", "found"}, ~call[q].connected,
         call'[q].at \in {"out", "full"}
  PROVE  \/ cache'[q][call[q].addr] = None
         \/ call[q].at = "found" /\ cache'[q][call[q].addr] = call[q].box
<1> DEFINE Purge == \/ cache'[q][call[q].addr] = None
                    \/ call[q].at = "found" /\ cache'[q][call[q].addr] = call[q].box
<1>a. ASSUME NEW r \in Routers, call[r].at \notin {"map", "found"},
             NEW c, call' = [call EXCEPT ![r] = c]
      PROVE  FALSE
  BY <1>a DEF TypeOK
<1>1. ASSUME NEW r \in Routers, NEW op \in Sends, NEW a \in Addrs, Begin(r, op, a) PROVE Purge
  BY <1>1, <1>a DEF Begin, Start, NoCall
<1>2. ASSUME NEW r \in Routers, ClearCache(r) PROVE Purge
  BY <1>2, <1>a DEF ClearCache, NoCall
<1>3. ASSUME NEW r \in Routers, BroadcastShutdown(r) PROVE Purge
  BY <1>3, <1>a DEF BroadcastShutdown, Start, NoCall
<1>4. ASSUME NEW r \in Routers, NEW a \in Addrs, Close(r, a) PROVE Purge
  BY <1>4, <1>a DEF Close, Start, NoCall
<1>5. ASSUME NEW r \in Routers, NEW op \in {"register", "register_all"}, NEW a \in Addrs, NEW b \in Boxes, Register(r, op, a, b) PROVE Purge
  BY <1>5, <1>a DEF Register, Store, Start, NoCall
<1>6. ASSUME NEW r \in Routers, NEW a \in Addrs, NEW b \in Boxes, RegisterMore(r, a, b) PROVE Purge
  BY <1>6, <1>a DEF RegisterMore, Store, At, Start, Sends
<1>7. ASSUME NEW r \in Routers, TryCached(r) PROVE Purge
  BY <1>7, <1>a DEF TryCached, At, Accepted, Return, Goto, GoOn, Sends
<1>8. ASSUME NEW r \in Routers, LookUpNothing(r) PROVE Purge
  <2>1. r = q
    BY <1>8 DEF LookUpNothing, Return, TypeOK
  <2>2. call[q].addr \in Addrs
    BY DEF Placed
  <2> QED BY <1>8, <2>1, <2>2 DEF LookUpNothing, Purged, TypeOK, At
<1>9. ASSUME NEW r \in Routers, LookUp(r) PROVE Purge
  <2>1. call'[r].at = "found" /\ \A p \in Routers : p # r => call'[p] = call[p]
    BY <1>9 DEF LookUp, GoOn, TypeOK
  <2> QED BY <2>1
<1>10. ASSUME NEW r \in Routers, TryFound(r) PROVE Purge
  <2>1. r = q
    BY <1>10 DEF TryFound, Accepted, Goto, GoOn, Return, TypeOK
  <2>2. call[q].addr \in Addrs
    BY DEF Placed
  <2> QED BY <1>10, <2>1, <2>2 DEF TryFound, Insert, TypeOK, At
<1>11. ASSUME NEW r \in Routers, TryFoundClosed(r) PROVE Purge
  <2>1. r = q
    BY <1>11 DEF TryFoundClosed, Return, TypeOK
  <2>2. call[q].addr \in Addrs
    BY DEF Placed
  <2> QED BY <1>11, <2>1, <2>2 DEF TryFoundClosed, Purged, TypeOK, At
<1>12. ASSUME NEW r \in Routers, ForceFull(r) PROVE Purge
  BY <1>12, <1>a DEF ForceFull, At, Return, Goto, GoOn, Sends
<1>13. ASSUME NEW r \in Routers, Remove(r) PROVE Purge
  BY <1>13, <1>a DEF Remove, At, GoOn, Sends
<1>14. ASSUME NEW r \in Routers, Lock(r) PROVE Purge
  BY <1>14, <1>a DEF Lock, At, Goto, GoOn, Sends
<1>15. ASSUME NEW r \in Routers, CloseBox(r) PROVE Purge
  BY <1>15, <1>a DEF CloseBox, At, Goto, GoOn, Sends
<1>16. ASSUME NEW r \in Routers, Unlock(r) PROVE Purge
  BY <1>16, <1>a DEF Unlock, At, Return, Sends
<1>17. ASSUME NEW r \in Routers, UnlockOnly(r) PROVE Purge
  BY <1>17, <1>a DEF UnlockOnly, At, Return, Sends
<1>18. ASSUME NEW r \in Routers, NEW a \in Addrs, Drain(r, a) PROVE Purge
  BY <1>18, <1>a DEF Drain, At, Start, Sends
<1>19. CASE UNCHANGED vars
  BY <1>19 DEF vars
<1> QED
  BY <1>1, <1>2, <1>3, <1>4, <1>5, <1>6, <1>7, <1>8, <1>9, <1>10, <1>11, <1>12, <1>13, <1>14, <1>15, <1>16, <1>17, <1>18, <1>19 DEF Next, Continue

-----------------------------------------------------------------------------
(* The invariant holds in every reachable state. *)
THEOREM RouterInvariance == Spec => []RInv
<1>1. RInv /\ [Next]_vars => RInv'
  BY RouterTypeStep, PlacedStep, RegisteredStep, HonestStep DEF RInv
<1> QED BY RouterInitInv, <1>1, PTL DEF Spec

(* The router's shared and thread-local variables keep their types. *)
THEOREM RouterTypeCorrect == Spec => []TypeOK
<1>1. RInv => TypeOK
  BY DEF RInv
<1> QED BY RouterInvariance, <1>1, PTL

(* For any number of clones of the router, a cached mailbox that is open is the *)
(* map's, or about to be closed.                                                *)
THEOREM CacheHonesty == Spec => []CacheHonest
<1>1. RInv => CacheHonest
  BY DEF RInv, Honest, Current, CacheHonest
<1> QED BY RouterInvariance, <1>1, PTL

(* A message goes to the machine that the map has for the address, or to one whose *)
(* close has not returned, and force_send forces it into the mailbox that was full. *)
THEOREM SendsReachTheirMachine == Spec => []SendsReach
<1>1. ASSUME RInv, NEW r \in Routers, call[r].at \in {"cached", "found", "full"}
      PROVE  /\ call[r].at = "full" => cache[r][call[r].addr] = call[r].box
             /\ Current(call[r].addr, call[r].box)
  <2>1. /\ call[r].addr \in Addrs /\ call[r].box \in Boxes
        /\ call[r].at \in {"cached", "full"} => cache[r][call[r].addr] = call[r].box
    BY <1>1 DEF RInv, Placed
  <2>2. call[r].box # None
    BY <2>1, RouterAssumption
  <2> QED BY <1>1, <2>1, <2>2 DEF RInv, Honest
<1>2. RInv => SendsReach
  BY <1>1 DEF SendsReach, Current
<1> QED BY RouterInvariance, <1>2, PTL

(* No open mailbox is lost: it is at exactly one address until it is closed. *)
THEOREM NoMailboxLost == Spec => []OpenIsRegistered
<1>1. RInv => OpenIsRegistered
  <2> SUFFICES ASSUME RInv, NEW b \in Boxes, link[b] = "open"
               PROVE  Cardinality({a \in Addrs : map[a] = b \/ BeingClosed(a, b)}) = 1
    BY DEF OpenIsRegistered
  <2>1. PICK a \in Addrs : map[a] = b \/ BeingClosed(a, b)
    BY DEF RInv, Registered
  <2>2. \A c \in Addrs : map[c] = b \/ BeingClosed(c, b) => c = a
    BY <2>1, RouterAssumption DEF RInv, TypeOK, Placed, Registered, BeingClosed
  <2>3. {c \in Addrs : map[c] = b \/ BeingClosed(c, b)} = {a}
    BY <2>1, <2>2
  <2> QED BY <2>3, FS_Singleton
<1> QED BY RouterInvariance, <1>1, PTL

(* A cache never exceeds its capacity, through every resize and insert. *)
THEOREM BoundedCaches == Spec => []CacheBounded
<1>1. Init => CacheBounded
  <2> SUFFICES ASSUME Init, NEW r \in Routers PROVE Cardinality(Stored(cache[r])) <= cap[r]
    BY DEF CacheBounded
  <2>1. Stored(cache[r]) = {}
    BY DEF Init, Stored
  <2> QED BY <2>1, FS_EmptySet, RouterAssumption DEF Init
<1>2. RInv /\ CacheBounded /\ [Next]_vars => CacheBounded'
  BY BoundedStep DEF RInv
<1> QED BY RouterInvariance, <1>1, <1>2, PTL DEF Spec

(* A check_do that met a closed mailbox in the cache never leaves it there. *)
THEOREM Purging == Spec => StalePurged
<1>1. RInv /\ [Next]_vars =>
        [\A r \in Routers :
           (call[r].at \in {"map", "found"} /\ ~call[r].connected
              /\ call'[r].at \in {"out", "full"})
             => \/ cache'[r][call[r].addr] = None
                \/ call[r].at = "found" /\ cache'[r][call[r].addr] = call[r].box]_vars
  BY PurgeStep DEF RInv
<1> QED BY RouterInvariance, <1>1, PTL DEF Spec, StalePurged

(* force_send finds the full mailbox in its cache. *)
THEOREM ForceSendSafe == Spec => []NoPanic
<1>1. RInv => NoPanic
  BY DEF RInv, Placed, NoPanic
<1> QED BY RouterInvariance, <1>1, PTL

=============================================================================
