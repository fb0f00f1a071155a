------------------------ MODULE LooseBounded_proofs -------------------------
(***************************************************************************)
(* Proofs about the message channel, for any finite set of senders, any    *)
(* limit and any interval.                                                 *)
(*                                                                         *)
(* Each sender has an interval of slots.  A slot is taken by a send that   *)
(* need not look at the queue, and given back, all at once, by one that    *)
(* looked.  Room says that the queue and the slots that are left stay      *)
(* below the bound; the bound itself is not inductive.                     *)
(***************************************************************************)
EXTENDS LooseBounded, FiniteSetTheorems, TLAPS

AllSlots == Clones \X (1..CheckInterval)

(* Slots that a sender has left, or that its present send has taken. *)
SlotsLeft ==
  {s \in AllSlots : \/ s[2] > tried[s[1]]
                    \/ s[2] = 1 /\ pc[s[1]] \in {"flag", "push"}}

Below == IF Limit = 0 THEN 0 ELSE Limit - 1

(* A send in progress was counted, an unborn sender has counted nothing. *)
Tries ==
  \A c \in Clones : /\ pc[c] \in {"flag", "push"} => tried[c] >= 1
                    /\ pc[c] = "unborn" => tried[c] = 0

Room == queued + Cardinality(SlotsLeft) <= Below + Cardinality(AllSlots) + forced

(* sender_cnt counts, and a thread that closes is the last. *)
Count ==
  /\ senderCnt = Cardinality(Counted)
  /\ \A c \in Clones : pc[c] = "closing" => Counted = {}

(* The flag is up while somebody may still lower it for the last time. *)
Lowered ==
  /\ ~connected => closed \/ receiver # "open" \/ Counted = {}
  /\ connected => \E c \in Clones : pc[c] \in {"idle", "flag", "push", "closing"}

LInv == TypeOK /\ Tries /\ Room /\ Count /\ Lowered

-----------------------------------------------------------------------------
(* The sets of the model are finite. *)
LEMMA Finite ==
  /\ IsFiniteSet(AllSlots) /\ Cardinality(AllSlots) \in Nat
  /\ IsFiniteSet(SlotsLeft) /\ Cardinality(SlotsLeft) \in Nat
  /\ Cardinality(SlotsLeft) <= Cardinality(AllSlots)
  /\ IsFiniteSet(Counted) /\ Cardinality(Counted) \in Nat
  <1>1. IsFiniteSet(1..CheckInterval)
    BY FS_Interval, LooseBoundedAssumption
  <1>2. IsFiniteSet(AllSlots)
    BY <1>1, FS_Product, LooseBoundedAssumption DEF AllSlots
  <1>3. SlotsLeft \in SUBSET AllSlots /\ Counted \in SUBSET Clones
    BY DEF SlotsLeft, Counted
  <1>4. QED
    BY <1>2, <1>3, FS_Subset, FS_CardinalityType, LooseBoundedAssumption

(* The same of the next state. *)
LEMMA FiniteNext ==
  /\ IsFiniteSet(SlotsLeft') /\ Cardinality(SlotsLeft') \in Nat
  /\ Cardinality(SlotsLeft') <= Cardinality(AllSlots)
  /\ IsFiniteSet(Counted') /\ Cardinality(Counted') \in Nat
  <1>1. SlotsLeft' \in SUBSET AllSlots /\ Counted' \in SUBSET Clones
    BY DEF SlotsLeft, Counted, AllSlots
  <1>2. QED
    BY <1>1, Finite, FS_Subset, FS_CardinalityType, LooseBoundedAssumption

(* A send that does not look takes one slot and holds it. *)
LEMMA SlotTaken ==
  ASSUME LInv, NEW c \in Clones, pc[c] = "idle", ~Due(c),
         tried' = [tried EXCEPT ![c] = @ + 1], pc' = [pc EXCEPT ![c] = "flag"]
  PROVE  Cardinality(SlotsLeft') = Cardinality(SlotsLeft)
  <1> DEFINE one == <<c, 1>>
             next == <<c, tried[c] + 1>>
  <1>1. tried[c] \in Nat /\ tried[c] < CheckInterval
    BY LooseBoundedAssumption DEF LInv, TypeOK, Due
  <1>2. one \in AllSlots /\ next \in AllSlots /\ next \in SlotsLeft
    BY <1>1, LooseBoundedAssumption DEF AllSlots, SlotsLeft
  <1>3. SlotsLeft' = (SlotsLeft \ {next}) \cup {one}
    <2>1. ASSUME NEW s \in AllSlots
          PROVE  s \in SlotsLeft' <=> s \in (SlotsLeft \ {next}) \cup {one}
      <3>1. s[1] \in Clones /\ s[2] \in 1..CheckInterval /\ s = <<s[1], s[2]>>
        BY DEF AllSlots
      <3>2. CASE s[1] = c
        BY <3>1, <3>2, <1>1, LooseBoundedAssumption DEF SlotsLeft, AllSlots, LInv, TypeOK
      <3>3. CASE s[1] # c
        BY <3>1, <3>3, <1>1 DEF SlotsLeft, AllSlots, LInv, TypeOK
      <3>4. QED  BY <3>2, <3>3
    <2>2. SlotsLeft' \subseteq AllSlots /\ SlotsLeft \subseteq AllSlots
      BY DEF SlotsLeft, AllSlots
    <2>3. QED  BY <2>1, <2>2, <1>2
  <1>4. one = next \/ one \notin SlotsLeft
    BY <1>1 DEF SlotsLeft
  <1>5. IsFiniteSet(SlotsLeft \ {next})
        /\ Cardinality(SlotsLeft \ {next}) = Cardinality(SlotsLeft) - 1
    BY <1>2, Finite, FS_RemoveElement
  <1>6. Cardinality((SlotsLeft \ {next}) \cup {one})
          = Cardinality(SlotsLeft \ {next}) + 1
    BY <1>4, <1>5, FS_AddElement
  <1>7. QED  BY <1>3, <1>5, <1>6, Finite


(* A set that gains or loses one element. *)
LEMMA OneMore ==
  ASSUME NEW S, IsFiniteSet(S), NEW x, NEW T, T \subseteq S \cup {x}
  PROVE  Cardinality(T) <= Cardinality(S) + 1
  <1>1. IsFiniteSet(S \cup {x})
        /\ Cardinality(S \cup {x}) = IF x \in S THEN Cardinality(S) ELSE Cardinality(S) + 1
    BY FS_AddElement
  <1>2. IsFiniteSet(T) /\ Cardinality(T) <= Cardinality(S \cup {x})
    BY <1>1, FS_Subset
  <1>3. Cardinality(S) \in Nat /\ Cardinality(T) \in Nat
    BY <1>2, FS_CardinalityType
  <1>4. QED  BY <1>1, <1>2, <1>3

LEMMA OneLess ==
  ASSUME NEW S, IsFiniteSet(S), NEW x \in S, NEW T, T \subseteq S \ {x}
  PROVE  Cardinality(T) <= Cardinality(S) - 1
  <1>1. IsFiniteSet(S \ {x}) /\ Cardinality(S \ {x}) = Cardinality(S) - 1
    BY FS_RemoveElement
  <1>2. IsFiniteSet(T) /\ Cardinality(T) <= Cardinality(S \ {x})
    BY <1>1, FS_Subset
  <1>3. QED  BY <1>1, <1>2

(* When nothing that the slots depend on grows, neither do they. *)
LEMMA SlotsShrink ==
  ASSUME SlotsLeft' \subseteq SlotsLeft
  PROVE  Cardinality(SlotsLeft') <= Cardinality(SlotsLeft)
  BY Finite, FS_Subset

(* A step that is none of sending, cloning and dropping. *)
LEMMA SameSenders ==
  ASSUME tried' = tried, pc' = pc
  PROVE  SlotsLeft' = SlotsLeft /\ Counted' = Counted
  BY DEF SlotsLeft, Counted

-----------------------------------------------------------------------------
(* Initially the channel has one sender, and every slot is left. *)
LEMMA InitInv == Init => LInv
  <1> SUFFICES ASSUME Init PROVE LInv
    OBVIOUS
  <1>1. PICK first \in Clones : pc = [c \in Clones |-> IF c = first THEN "idle" ELSE "unborn"]
    BY DEF Init
  <1>2. TypeOK
    BY <1>1 DEF Init, TypeOK, Points
  <1>3. Tries
    BY <1>1 DEF Init, Tries
  <1>4. Room
    <2>1. Below \in Nat /\ queued = 0 /\ forced = 0
      BY LooseBoundedAssumption DEF Below, Init
    <2>2. QED  BY <2>1, Finite DEF Room
  <1>5. Count
    <2>1. Counted = {first}
      BY <1>1 DEF Counted
    <2>2. QED  BY <2>1, <1>1, FS_Singleton DEF Count, Init
  <1>6. Lowered
    BY <1>1 DEF Lowered, Init
  <1>7. QED  BY <1>2, <1>3, <1>4, <1>5, <1>6 DEF LInv

(* Types are kept. *)
LEMMA TypeStep == LInv /\ [Next]_vars => TypeOK'
  <1> SUFFICES ASSUME LInv, [Next]_vars PROVE TypeOK'
    OBVIOUS
  <1> USE DEF LInv, TypeOK, Goto, Points
  <1>1. ASSUME NEW c \in Clones, ForceSend(c) PROVE TypeOK'
    BY <1>1 DEF ForceSend
  <1>2. ASSUME NEW c \in Clones, TrySend(c) PROVE TypeOK'
    BY <1>2 DEF TrySend
  <1>3. ASSUME NEW c \in Clones, TrySendLook(c) PROVE TypeOK'
    BY <1>3 DEF TrySendLook
  <1>4. ASSUME NEW c \in Clones, LoadFlag(c) PROVE TypeOK'
    BY <1>4 DEF LoadFlag
  <1>5. ASSUME NEW c \in Clones, Push(c) PROVE TypeOK'
    BY <1>5 DEF Push
  <1>6. ASSUME NEW c \in Clones, NEW d \in Clones, Clone(c, d) PROVE TypeOK'
    BY <1>6 DEF Clone
  <1>7. ASSUME NEW c \in Clones, CloseSender(c) PROVE TypeOK'
    BY <1>7 DEF CloseSender
  <1>8. ASSUME NEW c \in Clones, Drop(c) PROVE TypeOK'
    <2>1. c \in Counted
      BY <1>8 DEF Drop, Counted
    <2>2. senderCnt >= 1
      BY <2>1, Finite, FS_EmptySet DEF Count
    <2>3. QED  BY <1>8, <2>2 DEF Drop
  <1>9. ASSUME NEW c \in Clones, DropLast(c) \/ Leave(c) PROVE TypeOK'
    BY <1>9 DEF DropLast, Leave
  <1>10. CASE Recv \/ DropReceiver \/ ReceiverLeaves \/ UNCHANGED vars
    <2>1. queued' \in Nat /\ receiver' \in {"open", "dropping", "gone"}
      BY <1>10 DEF Recv, DropReceiver, ReceiverLeaves, vars
    <2>2. /\ connected' \in {connected, FALSE}
          /\ UNCHANGED <<senderCnt, tried, pc, closed, forced>>
      BY <1>10 DEF Recv, DropReceiver, ReceiverLeaves, vars
    <2>3. QED  BY <2>1, <2>2
  <1>11. QED
    BY <1>1, <1>2, <1>3, <1>4, <1>5, <1>6, <1>7, <1>8, <1>9, <1>10
       DEF Next, Sending, Leaving

(* So are the counts of tries. *)
LEMMA TriesStep == LInv /\ [Next]_vars => Tries'
  <1> SUFFICES ASSUME LInv, [Next]_vars PROVE Tries'
    OBVIOUS
  <1> USE DEF LInv, TypeOK, Goto, Points, Tries
  <1>1. ASSUME NEW c \in Clones, Sending(c) PROVE Tries'
    BY <1>1 DEF Sending, ForceSend, TrySend, TrySendLook, LoadFlag, Push
  <1>2. ASSUME NEW c \in Clones, Leaving(c) PROVE Tries'
    BY <1>2 DEF Leaving, CloseSender, Drop, DropLast, Leave
  <1>3. ASSUME NEW c \in Clones, NEW d \in Clones, Clone(c, d) PROVE Tries'
    BY <1>3 DEF Clone
  <1>4. CASE Recv \/ DropReceiver \/ ReceiverLeaves \/ UNCHANGED vars
    BY <1>4 DEF Recv, DropReceiver, ReceiverLeaves, vars
  <1>5. QED  BY <1>1, <1>2, <1>3, <1>4 DEF Next

(* The queue and the slots that are left stay below the bound. *)
LEMMA RoomStep == LInv /\ [Next]_vars => Room'
  <1> SUFFICES ASSUME LInv, [Next]_vars PROVE Room'
    OBVIOUS
  <1> DEFINE bound == Below + Cardinality(AllSlots)
  <1>0. /\ bound \in Nat /\ Below \in Nat /\ queued \in Nat /\ forced \in Nat
        /\ queued + Cardinality(SlotsLeft) <= bound + forced
        /\ Room' <=> queued' + Cardinality(SlotsLeft') <= bound + forced'
    BY Finite, LooseBoundedAssumption DEF LInv, TypeOK, Room, Below
  <1> HIDE DEF bound
  <1>a. ASSUME SlotsLeft' \subseteq SlotsLeft, queued' \in Nat, queued' <= queued,
               forced' = forced
        PROVE  Room'
    BY <1>a, <1>0, SlotsShrink, Finite, FiniteNext
  <1>1. ASSUME NEW c \in Clones, ForceSend(c) \/ TrySend(c), ~Due(c) PROVE Room'
    <2>1. Cardinality(SlotsLeft') = Cardinality(SlotsLeft)
      BY <1>1, SlotTaken DEF ForceSend, TrySend, Goto
    <2>2. queued' = queued /\ forced' = forced
      BY <1>1 DEF ForceSend, TrySend
    <2>3. QED  BY <1>0, <2>1, <2>2, Finite
  <1>2. ASSUME NEW c \in Clones, ForceSend(c), Due(c) PROVE Room'
    <2>1. SlotsLeft' \subseteq SlotsLeft \cup {<<c, 1>>}
      BY <1>2 DEF ForceSend, Goto, Due, SlotsLeft, AllSlots, LInv, TypeOK
    <2>2. Cardinality(SlotsLeft') <= Cardinality(SlotsLeft) + 1
      BY <2>1, Finite, OneMore
    <2>3. queued' = queued /\ forced' = forced + 1
      BY <1>2 DEF ForceSend
    <2>4. QED  BY <1>0, <2>2, <2>3, Finite, FiniteNext
  <1>3. ASSUME NEW c \in Clones, TrySendLook(c) PROVE Room'
    <2>1. queued' = queued /\ forced' = forced /\ queued < Limit
      BY <1>3 DEF TrySendLook
    <2>2. queued <= Below
      BY <2>1, <1>0, LooseBoundedAssumption DEF Below
    <2>3. QED  BY <1>0, <2>1, <2>2, Finite, FiniteNext DEF bound
  <1>4. ASSUME NEW c \in Clones, LoadFlag(c) PROVE Room'
    <2>1. SlotsLeft' \subseteq SlotsLeft
      BY <1>4 DEF LoadFlag, Goto, SlotsLeft, AllSlots, LInv, TypeOK
    <2>2. QED  BY <1>a, <2>1, <1>0, <1>4 DEF LoadFlag
  <1>5. ASSUME NEW c \in Clones, Push(c) PROVE Room'
    <2>1. <<c, 1>> \in SlotsLeft
      BY <1>5, LooseBoundedAssumption DEF Push, Goto, SlotsLeft, AllSlots
    <2>2. SlotsLeft' \subseteq SlotsLeft \ {<<c, 1>>}
      BY <1>5 DEF Push, Goto, SlotsLeft, AllSlots, LInv, TypeOK, Tries
    <2>3. Cardinality(SlotsLeft') <= Cardinality(SlotsLeft) - 1
      BY <2>1, <2>2, Finite, OneLess
    <2>4. queued' <= queued + 1 /\ queued' \in Nat /\ forced' = forced
      BY <1>5, <1>0 DEF Push
    <2>5. QED  BY <1>0, <2>3, <2>4, Finite, FiniteNext
  <1>6. ASSUME NEW c \in Clones, NEW d \in Clones, Clone(c, d) PROVE Room'
    <2>1. SlotsLeft' \subseteq SlotsLeft
      BY <1>6 DEF Clone, Goto, SlotsLeft, AllSlots, LInv, TypeOK, Tries
    <2>2. QED  BY <1>a, <2>1, <1>0, <1>6 DEF Clone
  <1>7. ASSUME NEW c \in Clones, Leaving(c) PROVE Room'
    <2>1. SlotsLeft' \subseteq SlotsLeft
      BY <1>7 DEF Leaving, CloseSender, Drop, DropLast, Leave, Goto, SlotsLeft, AllSlots,
                  LInv, TypeOK
    <2>2. queued' = queued /\ forced' = forced
      BY <1>7 DEF Leaving, CloseSender, Drop, DropLast, Leave
    <2>3. QED  BY <1>a, <2>1, <2>2, <1>0
  <1>8. CASE Recv \/ DropReceiver \/ ReceiverLeaves \/ UNCHANGED vars
    <2>1. SlotsLeft' = SlotsLeft
      BY <1>8, SameSenders DEF Recv, DropReceiver, ReceiverLeaves, vars
    <2>2. queued' \in Nat /\ queued' <= queued /\ forced' = forced
      BY <1>8, <1>0 DEF Recv, DropReceiver, ReceiverLeaves, vars
    <2>3. QED  BY <1>a, <2>1, <2>2
  <1>9. QED
    BY <1>1, <1>2, <1>3, <1>4, <1>5, <1>6, <1>7, <1>8 DEF Next, Sending, TrySend

(* sender_cnt is the number of clones that count, and who closes is the last. *)
LEMMA CountStep == LInv /\ [Next]_vars => Count'
  <1> SUFFICES ASSUME LInv, [Next]_vars PROVE Count'
    OBVIOUS
  <1> USE DEF LInv, TypeOK, Goto, Points
  <1>1. ASSUME NEW c \in Clones, Sending(c) PROVE Count'
    <2>1. /\ pc[c] \in {"idle", "flag", "push"} /\ senderCnt' = senderCnt
          /\ \E to \in {"idle", "flag", "push"} : pc' = [pc EXCEPT ![c] = to]
      BY <1>1 DEF Sending, ForceSend, TrySend, TrySendLook, LoadFlag, Push
    <2>2. Counted' = Counted
      BY <2>1 DEF Counted
    <2>3. \A d \in Clones : pc'[d] = "closing" => pc[d] = "closing"
      BY <2>1
    <2>4. QED  BY <2>1, <2>2, <2>3 DEF Count
  <1>2. ASSUME NEW c \in Clones, NEW d \in Clones, Clone(c, d) PROVE Count'
    <2>1. Counted' = Counted \cup {d} /\ d \notin Counted /\ c \in Counted
      BY <1>2 DEF Clone, Counted
    <2>2. Cardinality(Counted') = Cardinality(Counted) + 1
      BY <2>1, Finite, FS_AddElement
    <2>3. \A e \in Clones : pc'[e] # "closing"
      BY <1>2, <2>1 DEF Clone, Count
    <2>4. QED  BY <1>2, <2>2, <2>3 DEF Clone, Count
  <1>3. ASSUME NEW c \in Clones, Drop(c) PROVE Count'
    <2>1. Counted' = Counted \ {c} /\ c \in Counted
      BY <1>3 DEF Drop, Counted
    <2>2. Cardinality(Counted') = Cardinality(Counted) - 1
      BY <2>1, Finite, FS_RemoveElement
    <2>3. \A e \in Clones : pc[e] # "closing"
      BY <2>1 DEF Count
    <2>4. ASSUME NEW e \in Clones, pc'[e] = "closing" PROVE Counted' = {}
      <3>1. senderCnt = 1
        BY <1>3, <2>3, <2>4 DEF Drop
      <3>2. Cardinality(Counted) = 1
        BY <3>1 DEF Count
      <3>3. Cardinality(Counted') = 0
        BY <3>2, <2>2
      <3>4. QED  BY <3>3, FiniteNext, FS_EmptySet
    <2>5. senderCnt' = senderCnt - 1
      BY <1>3 DEF Drop
    <2>6. QED  BY <2>2, <2>4, <2>5 DEF Count
  <1>4. ASSUME NEW c \in Clones, DropLast(c) \/ Leave(c) PROVE Count'
    <2>1. Counted' = Counted /\ senderCnt' = senderCnt
      BY <1>4 DEF DropLast, Leave, Counted
    <2>2. \A d \in Clones : pc'[d] = "closing" => pc[d] = "closing"
      BY <1>4 DEF DropLast, Leave
    <2>3. QED  BY <2>1, <2>2 DEF Count
  <1>5. ASSUME \/ \E c \in Clones : CloseSender(c)
               \/ Recv \/ DropReceiver \/ ReceiverLeaves \/ UNCHANGED vars
        PROVE Count'
    <2>1. pc' = pc /\ senderCnt' = senderCnt
      BY <1>5 DEF CloseSender, Recv, DropReceiver, ReceiverLeaves, vars
    <2>2. QED  BY <2>1 DEF Count, Counted
  <1>6. QED  BY <1>1, <1>2, <1>3, <1>4, <1>5 DEF Next, Leaving

(* The flag is lowered for a reason, and never forgotten. *)
LEMMA LoweredStep == LInv /\ [Next]_vars => Lowered'
  <1> SUFFICES ASSUME LInv, [Next]_vars PROVE Lowered'
    OBVIOUS
  <1> USE DEF LInv, TypeOK, Goto, Points
  <1>1. ASSUME NEW c \in Clones, Sending(c) PROVE Lowered'
    <2>1. /\ pc[c] \in {"idle", "flag", "push"}
          /\ UNCHANGED <<connected, closed, receiver>>
          /\ \E to \in {"idle", "flag", "push"} : pc' = [pc EXCEPT ![c] = to]
      BY <1>1 DEF Sending, ForceSend, TrySend, TrySendLook, LoadFlag, Push
    <2>2. Counted' = Counted /\ pc'[c] \in {"idle", "flag", "push"}
      BY <2>1 DEF Counted
    <2>3. QED  BY <2>1, <2>2 DEF Lowered
  <1>2. ASSUME NEW c \in Clones, NEW d \in Clones, Clone(c, d) PROVE Lowered'
    <2>1. /\ UNCHANGED <<connected, closed, receiver>>
          /\ c \in Counted /\ pc'[d] = "idle"
      BY <1>2 DEF Clone, Counted
    <2>2. QED  BY <2>1 DEF Lowered
  <1>3. ASSUME NEW c \in Clones, Drop(c) PROVE Lowered'
    <2>1. Counted' = Counted \ {c} /\ c \in Counted /\ UNCHANGED <<connected, closed, receiver>>
      BY <1>3 DEF Drop, Counted
    <2>2. ~connected' => closed' \/ receiver' # "open"
      BY <2>1 DEF Lowered
    <2>3. CASE senderCnt = 1
      <3>1. pc'[c] = "closing"
        BY <1>3, <2>3 DEF Drop
      <3>2. QED  BY <3>1, <2>2 DEF Lowered
    <2>4. CASE senderCnt # 1
      <3>1. Counted # {c}
        BY <2>4, FS_Singleton DEF Count
      <3>2. PICK d \in Clones : d \in Counted /\ d # c
        BY <2>1, <3>1 DEF Counted
      <3>3. pc'[d] \in {"idle", "flag", "push"}
        BY <1>3, <3>2 DEF Drop, Counted
      <3>4. QED  BY <3>3, <2>2 DEF Lowered
    <2>5. QED  BY <2>3, <2>4
  <1>4. ASSUME NEW c \in Clones, DropLast(c) PROVE Lowered'
    <2>1. connected' = FALSE /\ Counted' = {}
      BY <1>4 DEF DropLast, Count, Counted
    <2>2. QED  BY <2>1 DEF Lowered
  <1>5. ASSUME NEW c \in Clones, Leave(c) PROVE Lowered'
    <2>1. Counted' = Counted /\ UNCHANGED <<connected, closed, receiver>>
      BY <1>5 DEF Leave, Counted
    <2>2. \A d \in Clones : pc[d] \in {"idle", "flag", "push", "closing"} => pc'[d] = pc[d]
      BY <1>5 DEF Leave
    <2>3. QED  BY <2>1, <2>2 DEF Lowered
  <1>6. ASSUME NEW c \in Clones, CloseSender(c) PROVE Lowered'
    BY <1>6 DEF CloseSender, Lowered
  <1>7. CASE Recv \/ UNCHANGED vars
    BY <1>7 DEF Recv, vars, Lowered, Counted
  <1>8. CASE DropReceiver \/ ReceiverLeaves
    BY <1>8 DEF DropReceiver, ReceiverLeaves, Lowered, Counted
  <1>9. QED
    BY <1>1, <1>2, <1>3, <1>4, <1>5, <1>6, <1>7, <1>8 DEF Next, Leaving

-----------------------------------------------------------------------------
(* Every reachable state satisfies LInv. *)
THEOREM Invariance == Spec => []LInv
  <1>1. LInv /\ [Next]_vars => LInv'
    BY TypeStep, TriesStep, RoomStep, CountStep, LoweredStep DEF LInv
  <1>2. QED  BY InitInv, <1>1, PTL DEF Spec

(* The channel's state keeps its type; in particular sender_cnt, which is signed *)
(* in the code, never goes below zero.                                           *)
THEOREM ChannelTypeCorrect == Spec => []TypeOK
  <1>1. LInv => TypeOK
    BY DEF LInv
  <1>2. QED  BY Invariance, <1>1, PTL

(* The queue exceeds its limit by at most one interval per clone, and by what was *)
(* forced, for any number of clones.                                              *)
THEOREM BoundedLoosely == Spec => []LooseBound
  <1>1. LInv => LooseBound
    BY Finite, LooseBoundedAssumption
       DEF LInv, TypeOK, Room, Below, LooseBound, AllSlots
  <1>2. QED  BY Invariance, <1>1, PTL

(* Clones and drops of any number of senders lower the flag exactly when the last goes. *)
THEOREM HonestFlag == Spec => []FlagHonest
  <1>1. LInv => FlagHonest
    BY DEF LInv, TypeOK, Lowered, FlagHonest
  <1>2. QED  BY Invariance, <1>1, PTL

(* A disconnected channel stays so, and only sends that had loaded the flag still push. *)
THEOREM Quieting == Spec => ClosedQuiets
  <1>1. TypeOK /\ [Next]_vars =>
          [~connected => /\ ~connected'
                         /\ Pushing' \subseteq Pushing
                         /\ queued' > queued => Pushing' # Pushing]_vars
    <2> SUFFICES ASSUME TypeOK, Next, ~connected
                 PROVE  /\ ~connected'
                        /\ Pushing' \subseteq Pushing
                        /\ queued' > queued => Pushing' # Pushing
      BY DEF vars
    <2> USE DEF TypeOK, Goto, Pushing
    <2>1. ASSUME NEW c \in Clones, Push(c) PROVE /\ ~connected'
                                                 /\ Pushing' \subseteq Pushing
                                                 /\ Pushing' # Pushing
      BY <2>1 DEF Push
    <2>2. ASSUME NEW c \in Clones,
                 ForceSend(c) \/ TrySend(c) \/ TrySendLook(c) \/ LoadFlag(c) \/ Leaving(c)
          PROVE  ~connected' /\ Pushing' \subseteq Pushing /\ queued' = queued
      BY <2>2 DEF ForceSend, TrySend, TrySendLook, LoadFlag, Leaving, CloseSender, Drop,
                  DropLast, Leave
    <2>3. ASSUME NEW c \in Clones, NEW d \in Clones, Clone(c, d)
          PROVE  ~connected' /\ Pushing' \subseteq Pushing /\ queued' = queued
      BY <2>3 DEF Clone
    <2>4. CASE Recv \/ DropReceiver \/ ReceiverLeaves
      <3>1. ~connected' /\ pc' = pc /\ queued' <= queued /\ queued' \in Nat
        BY <2>4 DEF Recv, DropReceiver, ReceiverLeaves
      <3>2. QED  BY <3>1
    <2>5. QED  BY <2>1, <2>2, <2>3, <2>4 DEF Next, Sending
  <1>2. QED  BY ChannelTypeCorrect, <1>1, PTL DEF Spec, ClosedQuiets

=============================================================================
