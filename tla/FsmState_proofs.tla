------------------------- MODULE FsmState_proofs -------------------------
(***************************************************************************)
(* Proofs about FsmState for any set of threads: its type invariant, that  *)
(* no interleaving panics, that the machine has one owner, that a closed   *)
(* machine is freed and an unreferenced one does not leak, and that the    *)
(* cell implements FsmOwnership.                                           *)
(***************************************************************************)
EXTENDS FsmState, TLAPS

(* The threads that stand between a successful atomic access and the end of *)
(* their operation: the status word gave each of them the right to the box. *)
InCell   == {"notifying", "releasing", "dropping", "retaking", "clearing"}
Working  == InCell \cup {"scheduling", "has"}

(* The right to the box is exclusive, and says where the box is. *)
Exclusive ==
  /\ \A t, u \in Threads : pc[t] \in Working /\ pc[u] \in Working => t = u
  /\ \A t \in Threads :
       /\ pc[t] \in Working => ready = 0 /\ freed = 0 /\ status # "idle"
       /\ pc[t] \in InCell => data = "fsm"
       /\ Holds(t) => data = "null" /\ own = 1
       /\ pc[t] \in {"dropping", "clearing"} => status = "drop"

(* A box in the channel or in the cell. *)
Elsewhere ==
  /\ ready > 0 => ready = 1 /\ data = "null" /\ freed = 0 /\ own = 1 /\ status # "idle"
  /\ data = "fsm" => freed = 0
  /\ data = "fsm" /\ status # "idle" => \E t \in Threads : pc[t] \in InCell
  /\ status = "idle" /\ Live(handles, own) => data = "fsm"
  /\ freed <= 1
  /\ data = "fsm" \/ ready = 1 \/ freed = 1 \/ \E t \in Threads : Holds(t)

(* Who refers to the cell, and to the channel. *)
References ==
  /\ \A t \in Threads : pc[t] \notin {"out", "has"} => handles[t] > 0
  /\ own = 1 => freed = 0
  /\ own = 1 /\ data = "fsm" => Control
  /\ \A t \in Threads : Control /\ pc[t] \in Polling /\ freed = 0 => own = 1
  /\ \A t \in Threads : pc[t] \in Polling => chan = "connected"
  /\ ready > 0 => chan = "connected"
  /\ data = "fsm" => Live(handles, own)

(* The inductive invariant. *)
IInv == TypeOK /\ NoFault /\ Exclusive /\ Elsewhere /\ References

(* The initial states satisfy the inductive invariant. *)
LEMMA InitInv == Init => IInv
  BY FsmStateAssumption DEF Init, IInv, TypeOK, NoFault, Exclusive, Elsewhere, References,
     Holds, Live, InCell, Working, Places, Polling

(* Every atomic access, and every stuttering step, preserves it. *)
LEMMA StepInv == IInv /\ [Next]_vars => IInv'
<1> SUFFICES ASSUME IInv, [Next]_vars PROVE IInv'
  OBVIOUS
<1> USE FsmStateAssumption DEF IInv, TypeOK, NoFault, Exclusive, Elsewhere, References,
     Holds, Live, InCell, Working, Places, Polling
<1>1. ASSUME NEW t \in Threads, NEW u \in Threads, Clone(t, u) PROVE IInv'
  <2>1. TypeOK'
    BY <1>1, SMT DEF Clone
  <2>2. NoFault'
    BY <1>1, SMT DEF Clone
  <2>3. Exclusive'
    BY <1>1, SMT DEF Clone
  <2>4. Elsewhere'
    BY <1>1, SMT DEF Clone
  <2>5. References'
    BY <1>1, SMT DEF Clone
  <2> QED BY <2>1, <2>2, <2>3, <2>4, <2>5
<1>2. ASSUME NEW t \in Threads, DropHandle(t) PROVE IInv'
  <2>1. TypeOK'
    BY <1>2, SMT DEF DropHandle, Rebind
  <2>2. NoFault'
    BY <1>2, SMT DEF DropHandle, Rebind
  <2>3. Exclusive'
    BY <1>2, SMT DEF DropHandle, Rebind
  <2>4. Elsewhere'
    BY <1>2, SMT DEF DropHandle, Rebind
  <2>5. References'
    BY <1>2, SMT DEF DropHandle, Rebind
  <2> QED BY <2>1, <2>2, <2>3, <2>4, <2>5
<1>3. ASSUME NEW t \in Threads, NotifyCas(t) PROVE IInv'
  <2>1. TypeOK'
    BY <1>3, SMT DEF NotifyCas, Goto
  <2>2. NoFault'
    BY <1>3, SMT DEF NotifyCas, Goto
  <2>3. Exclusive'
    BY <1>3, SMT DEF NotifyCas, Goto
  <2>4. Elsewhere'
    BY <1>3, SMT DEF NotifyCas, Goto
  <2>5. References'
    BY <1>3, SMT DEF NotifyCas, Goto
  <2> QED BY <2>1, <2>2, <2>3, <2>4, <2>5
<1>4. ASSUME NEW t \in Threads, NotifySwap(t) PROVE IInv'
  <2>1. TypeOK'
    BY <1>4, SMT DEF NotifySwap, Goto
  <2>2. NoFault'
    BY <1>4, SMT DEF NotifySwap, Goto
  <2>3. Exclusive'
    BY <1>4, SMT DEF NotifySwap, Goto
  <2>4. Elsewhere'
    BY <1>4, SMT DEF NotifySwap, Goto
  <2>5. References'
    BY <1>4, SMT DEF NotifySwap, Goto
  <2> QED BY <2>1, <2>2, <2>3, <2>4, <2>5
<1>5. ASSUME NEW t \in Threads, Schedule(t) PROVE IInv'
  <2>1. TypeOK'
    BY <1>5, SMT DEF Schedule, Goto, Rebind
  <2>2. NoFault'
    BY <1>5, SMT DEF Schedule, Goto, Rebind
  <2>3. Exclusive'
    BY <1>5, SMT DEF Schedule, Goto, Rebind
  <2>4. Elsewhere'
    BY <1>5, SMT DEF Schedule, Goto, Rebind
  <2>5. References'
    BY <1>5, SMT DEF Schedule, Goto, Rebind
  <2> QED BY <2>1, <2>2, <2>3, <2>4, <2>5
<1>6. ASSUME NEW t \in Threads, Fetch(t) PROVE IInv'
  <2>1. TypeOK'
    BY <1>6, SMT DEF Fetch, Goto
  <2>2. NoFault'
    BY <1>6, SMT DEF Fetch, Goto
  <2>3. Exclusive'
    BY <1>6, SMT DEF Fetch, Goto
  <2>4. Elsewhere'
    BY <1>6, SMT DEF Fetch, Goto
  <2>5. References'
    BY <1>6, SMT DEF Fetch, Goto
  <2> QED BY <2>1, <2>2, <2>3, <2>4, <2>5
<1>7. ASSUME NEW t \in Threads, Reschedule(t) PROVE IInv'
  <2>1. TypeOK'
    BY <1>7, SMT DEF Reschedule, Goto
  <2>2. NoFault'
    BY <1>7, SMT DEF Reschedule, Goto
  <2>3. Exclusive'
    BY <1>7, SMT DEF Reschedule, Goto
  <2>4. Elsewhere'
    BY <1>7, SMT DEF Reschedule, Goto
  <2>5. References'
    BY <1>7, SMT DEF Reschedule, Goto
  <2> QED BY <2>1, <2>2, <2>3, <2>4, <2>5
<1>8. ASSUME NEW t \in Threads, Discard(t) PROVE IInv'
  <2>1. TypeOK'
    BY <1>8, SMT DEF Discard, Goto, Rebind
  <2>2. NoFault'
    BY <1>8, SMT DEF Discard, Goto, Rebind
  <2>3. Exclusive'
    BY <1>8, SMT DEF Discard, Goto, Rebind
  <2>4. Elsewhere'
    BY <1>8, SMT DEF Discard, Goto, Rebind
  <2>5. References'
    BY <1>8, SMT DEF Discard, Goto, Rebind
  <2> QED BY <2>1, <2>2, <2>3, <2>4, <2>5
<1>9. ASSUME NEW t \in Threads, ReleaseSwap(t) PROVE IInv'
  <2>1. TypeOK'
    BY <1>9, SMT DEF ReleaseSwap, Goto
  <2>2. NoFault'
    BY <1>9, SMT DEF ReleaseSwap, Goto
  <2>3. Exclusive'
    BY <1>9, SMT DEF ReleaseSwap, Goto
  <2>4. Elsewhere'
    BY <1>9, SMT DEF ReleaseSwap, Goto
  <2>5. References'
    BY <1>9, SMT DEF ReleaseSwap, Goto
  <2> QED BY <2>1, <2>2, <2>3, <2>4, <2>5
<1>10. ASSUME NEW t \in Threads, ReleaseCas(t) PROVE IInv'
  <2>1. TypeOK'
    BY <1>10, SMT DEF ReleaseCas, Goto
  <2>2. NoFault'
    BY <1>10, SMT DEF ReleaseCas, Goto
  <2>3. Exclusive'
    BY <1>10, SMT DEF ReleaseCas, Goto
  <2>4. Elsewhere'
    BY <1>10, SMT DEF ReleaseCas, Goto
  <2>5. References'
    BY <1>10, SMT DEF ReleaseCas, Goto
  <2> QED BY <2>1, <2>2, <2>3, <2>4, <2>5
<1>11. ASSUME NEW t \in Threads, ReleaseDrop(t) PROVE IInv'
  <2>1. TypeOK'
    BY <1>11, SMT DEF ReleaseDrop, Goto
  <2>2. NoFault'
    BY <1>11, SMT DEF ReleaseDrop, Goto
  <2>3. Exclusive'
    BY <1>11, SMT DEF ReleaseDrop, Goto
  <2>4. Elsewhere'
    BY <1>11, SMT DEF ReleaseDrop, Goto
  <2>5. References'
    BY <1>11, SMT DEF ReleaseDrop, Goto
  <2> QED BY <2>1, <2>2, <2>3, <2>4, <2>5
<1>12. ASSUME NEW t \in Threads, ReleaseEnd(t) PROVE IInv'
  <2>1. TypeOK'
    BY <1>12, SMT DEF ReleaseEnd, Goto, Rebind
  <2>2. NoFault'
    BY <1>12, SMT DEF ReleaseEnd, Goto, Rebind
  <2>3. Exclusive'
    BY <1>12, SMT DEF ReleaseEnd, Goto, Rebind
  <2>4. Elsewhere'
    BY <1>12, SMT DEF ReleaseEnd, Goto, Rebind
  <2>5. References'
    BY <1>12, SMT DEF ReleaseEnd, Goto, Rebind
  <2> QED BY <2>1, <2>2, <2>3, <2>4, <2>5
<1>13. ASSUME NEW t \in Threads, RetakeCas(t) PROVE IInv'
  <2>1. TypeOK'
    BY <1>13, SMT DEF RetakeCas, Goto
  <2>2. NoFault'
    BY <1>13, SMT DEF RetakeCas, Goto
  <2>3. Exclusive'
    BY <1>13, SMT DEF RetakeCas, Goto
  <2>4. Elsewhere'
    BY <1>13, SMT DEF RetakeCas, Goto
  <2>5. References'
    BY <1>13, SMT DEF RetakeCas, Goto
  <2> QED BY <2>1, <2>2, <2>3, <2>4, <2>5
<1>14. ASSUME NEW t \in Threads, RetakeSwap(t) PROVE IInv'
  <2>1. TypeOK'
    BY <1>14, SMT DEF RetakeSwap, Goto
  <2>2. NoFault'
    BY <1>14, SMT DEF RetakeSwap, Goto
  <2>3. Exclusive'
    <3>1. data = "fsm" /\ data' = "null" /\ own' = 1
      BY <1>14, SMT DEF RetakeSwap, Goto
    <3>2. pc' = [pc EXCEPT ![t] = "has"] /\ pc[t] = "retaking"
      BY <1>14, <3>1, SMT DEF RetakeSwap, Goto
    <3>3. UNCHANGED <<ready, freed, status>>
      BY <1>14, SMT DEF RetakeSwap
    <3> QED BY <3>1, <3>2, <3>3, SMT
  <2>4. Elsewhere'
    BY <1>14, SMT DEF RetakeSwap, Goto
  <2>5. References'
    BY <1>14, SMT DEF RetakeSwap, Goto
  <2> QED BY <2>1, <2>2, <2>3, <2>4, <2>5
<1>15. ASSUME NEW t \in Threads, ClearSwap(t) PROVE IInv'
  <2>1. TypeOK'
    BY <1>15, SMT DEF ClearSwap
  <2>2. NoFault'
    BY <1>15, SMT DEF ClearSwap
  <2>3. Exclusive'
    BY <1>15, SMT DEF ClearSwap
  <2>4. Elsewhere'
    BY <1>15, SMT DEF ClearSwap
  <2>5. References'
    BY <1>15, SMT DEF ClearSwap
  <2> QED BY <2>1, <2>2, <2>3, <2>4, <2>5
<1>16. ASSUME NEW t \in Threads, ClearFree(t) PROVE IInv'
  <2>1. TypeOK'
    BY <1>16, SMT DEF ClearFree, Goto
  <2>2. NoFault'
    BY <1>16, SMT DEF ClearFree, Goto
  <2>3. Exclusive'
    BY <1>16, SMT DEF ClearFree, Goto
  <2>4. Elsewhere'
    BY <1>16, SMT DEF ClearFree, Goto
  <2>5. References'
    BY <1>16, SMT DEF ClearFree, Goto
  <2> QED BY <2>1, <2>2, <2>3, <2>4, <2>5
<1>17. CASE Disconnect
  <2>1. TypeOK'
    BY <1>17, SMT DEF Disconnect, Rebind
  <2>2. NoFault'
    BY <1>17, SMT DEF Disconnect, Rebind
  <2>3. Exclusive'
    BY <1>17, SMT DEF Disconnect, Rebind
  <2>4. Elsewhere'
    BY <1>17, SMT DEF Disconnect, Rebind
  <2>5. References'
    BY <1>17, SMT DEF Disconnect, Rebind
  <2> QED BY <2>1, <2>2, <2>3, <2>4, <2>5
<1>18. CASE UNCHANGED vars
  BY <1>18 DEF vars
<1> QED
  BY <1>1, <1>2, <1>3, <1>4, <1>5, <1>6, <1>7, <1>8, <1>9, <1>10, <1>11, <1>12, <1>13, <1>14, <1>15, <1>16, <1>17, <1>18 DEF Next

(* The inductive invariant holds in every reachable state. *)
THEOREM Invariance == Spec => []IInv
<1> QED BY InitInv, StepInv, PTL DEF Spec

(* Every variable of the cell of fsm.rs keeps its type. *)
THEOREM TypeCorrect == Spec => []TypeOK
<1>1. IInv => TypeOK
  BY DEF IInv
<1> QED BY Invariance, <1>1, PTL

(* For any number of threads, the panics of take_fsm and release, the unwrap of *)
(* a missing mailbox and a Box from a null pointer are all unreachable.         *)
THEOREM FaultFreedom == Spec => []NoFault
<1>1. IInv => NoFault
  BY DEF IInv
<1> QED BY Invariance, <1>1, PTL

(* For any number of threads the machine has exactly one owner until it is *)
(* freed, and it is freed at most once.                                    *)
THEOREM OneOwner == Spec => []SingleOwner
<1>1. IInv => SingleOwner
  BY DEF IInv, TypeOK, Exclusive, Elsewhere, SingleOwner, Holds, Working, InCell
<1> QED BY Invariance, <1>1, PTL

(* A closed machine is freed as soon as no thread works on it. *)
THEOREM Reclamation == Spec => []ClosedIsFreed
<1>1. IInv => ClosedIsFreed
  BY DEF IInv, Exclusive, Elsewhere, ClosedIsFreed, Quiet, Holds, InCell
<1> QED BY Invariance, <1>1, PTL

(* A machine without mailboxes does not leak, but for a control machine that *)
(* sits in its own cell and was never closed.                                *)
THEOREM LeakFreedom == Spec => []NoLeak
<1>1. IInv => NoLeak
  BY DEF IInv, TypeOK, Exclusive, Elsewhere, References, NoLeak, Quiet, Holds, InCell, Live
<1> QED BY Invariance, <1>1, PTL

-----------------------------------------------------------------------------
(* The refinement of FsmOwnership *)

(* A step of the cell is a step of the abstract machine, or leaves it as it is. *)
LEMMA StepRefines == IInv /\ [Next]_vars => [Ownership!Next]_(Ownership!vars)
<1> SUFFICES ASSUME IInv, [Next]_vars PROVE [Ownership!Next]_(Ownership!vars)
  OBVIOUS
<1> USE DEF IInv, TypeOK, NoFault, Exclusive, Elsewhere, References, Holds, InCell, Working,
        Whereabouts, Ownership!Next, Ownership!vars, Ownership!Take, Ownership!Park, Ownership!Close,
        Ownership!Free
<1>1. ASSUME NEW t \in Threads, NEW u \in Threads, Clone(t, u) PROVE [Ownership!Next]_(Ownership!vars)
  BY <1>1, SMT DEF Clone
<1>2. ASSUME NEW t \in Threads, DropHandle(t) PROVE [Ownership!Next]_(Ownership!vars)
  BY <1>2, SMT DEF DropHandle, Rebind
<1>3. ASSUME NEW t \in Threads, NotifyCas(t) PROVE [Ownership!Next]_(Ownership!vars)
  BY <1>3, SMT DEF NotifyCas, Goto
<1>4. ASSUME NEW t \in Threads, NotifySwap(t) PROVE [Ownership!Next]_(Ownership!vars)
  BY <1>4, SMT DEF NotifySwap, Goto
<1>5. ASSUME NEW t \in Threads, Schedule(t) PROVE [Ownership!Next]_(Ownership!vars)
  BY <1>5, SMT DEF Schedule, Goto, Rebind
<1>6. ASSUME NEW t \in Threads, Fetch(t) PROVE [Ownership!Next]_(Ownership!vars)
  BY <1>6, SMT DEF Fetch, Goto
<1>7. ASSUME NEW t \in Threads, Reschedule(t) PROVE [Ownership!Next]_(Ownership!vars)
  BY <1>7, SMT DEF Reschedule, Goto
<1>8. ASSUME NEW t \in Threads, Discard(t) PROVE [Ownership!Next]_(Ownership!vars)
  BY <1>8, SMT DEF Discard, Goto, Rebind
<1>9. ASSUME NEW t \in Threads, ReleaseSwap(t) PROVE [Ownership!Next]_(Ownership!vars)
  BY <1>9, SMT DEF ReleaseSwap, Goto
<1>10. ASSUME NEW t \in Threads, ReleaseCas(t) PROVE [Ownership!Next]_(Ownership!vars)
  BY <1>10, SMT DEF ReleaseCas, Goto
<1>11. ASSUME NEW t \in Threads, ReleaseDrop(t) PROVE [Ownership!Next]_(Ownership!vars)
  BY <1>11, SMT DEF ReleaseDrop, Goto
<1>12. ASSUME NEW t \in Threads, ReleaseEnd(t) PROVE [Ownership!Next]_(Ownership!vars)
  BY <1>12, SMT DEF ReleaseEnd, Goto, Rebind
<1>13. ASSUME NEW t \in Threads, RetakeCas(t) PROVE [Ownership!Next]_(Ownership!vars)
  BY <1>13, SMT DEF RetakeCas, Goto
<1>14. ASSUME NEW t \in Threads, RetakeSwap(t) PROVE [Ownership!Next]_(Ownership!vars)
  BY <1>14, SMT DEF RetakeSwap, Goto
<1>15. ASSUME NEW t \in Threads, ClearSwap(t) PROVE [Ownership!Next]_(Ownership!vars)
  BY <1>15, SMT DEF ClearSwap
<1>16. ASSUME NEW t \in Threads, ClearFree(t) PROVE [Ownership!Next]_(Ownership!vars)
  BY <1>16, SMT DEF ClearFree, Goto
<1>17. CASE Disconnect
  BY <1>17, SMT DEF Disconnect, Rebind
<1>18. CASE UNCHANGED vars
  BY <1>18 DEF vars
<1> QED
  BY <1>1, <1>2, <1>3, <1>4, <1>5, <1>6, <1>7, <1>8, <1>9, <1>10, <1>11, <1>12, <1>13, <1>14, <1>15, <1>16, <1>17, <1>18 DEF Next

(* For any number of threads the cell implements FsmOwnership: close is final, *)
(* a closed machine is never parked again and a freed one never comes back.    *)
THEOREM Refinement == Spec => OwnershipSpec
<1>1. Init => Ownership!Init
  BY DEF Init, Whereabouts, Ownership!Init
<1> QED BY <1>1, Invariance, StepRefines, PTL DEF Spec, OwnershipSpec, Ownership!Spec

=============================================================================
