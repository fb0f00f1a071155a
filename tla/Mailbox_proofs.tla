--------------------------- MODULE Mailbox_proofs ---------------------------
(***************************************************************************)
(* Proofs about Mailbox for any threads, bursts and messages: that what    *)
(* the mailbox and the poller do are steps of the cell, so that everything *)
(* proved of FsmState holds of it, and that no wakeup is lost.             *)
(***************************************************************************)
EXTENDS Mailbox, FsmState_proofs

-----------------------------------------------------------------------------
(* The refinement of FsmState *)

(* A step of the mailbox is an atomic access of the cell, or leaves it alone. *)
LEMMA MailboxStepRefines == [MailboxNext]_allVars => [Next]_vars
<1> SUFFICES ASSUME [MailboxNext]_allVars PROVE [Next]_vars
  OBVIOUS
<1>1. ASSUME NEW t \in Threads, SendCheck(t) PROVE [Next]_vars
  BY <1>1 DEF SendCheck
<1>2. ASSUME NEW t \in Threads, SendPush(t) PROVE [Next]_vars
  BY <1>2 DEF SendPush
<1>3. ASSUME NEW t \in Threads, SendNotify(t) PROVE [Next]_vars
  BY <1>3 DEF SendNotify, Next
<1>4. ASSUME NEW t \in Threads, SendMiss(t) PROVE [Next]_vars
  BY <1>4 DEF SendMiss
<1>5. ASSUME NEW t \in Threads, SendTake(t) PROVE [Next]_vars
  BY <1>5 DEF SendTake, Next
<1>6. ASSUME NEW t \in Threads, SendSchedule(t) PROVE [Next]_vars
  BY <1>6 DEF SendSchedule, Next
<1>7. ASSUME NEW t \in Threads, CloseSender(t) PROVE [Next]_vars
  BY <1>7 DEF CloseSender
<1>8. ASSUME NEW t \in Threads, CloseClear(t) PROVE [Next]_vars
  BY <1>8 DEF CloseClear, Next
<1>9. ASSUME NEW t \in Threads, CloseFree(t) PROVE [Next]_vars
  BY <1>9 DEF CloseFree, Next
<1>10. ASSUME NEW t \in Threads, Forget(t) PROVE [Next]_vars
  BY <1>10 DEF Forget, Next
<1>11. ASSUME NEW t \in Threads, PollFetch(t) PROVE [Next]_vars
  BY <1>11 DEF PollFetch, Next
<1>12. ASSUME NEW t \in Threads, PollHandle(t) PROVE [Next]_vars
  BY <1>12 DEF PollHandle
<1>13. ASSUME NEW t \in Threads, PollReturn(t) PROVE [Next]_vars
  BY <1>13 DEF PollReturn
<1>14. ASSUME NEW t \in Threads, NextRound(t) PROVE [Next]_vars
  BY <1>14 DEF NextRound
<1>15. ASSUME NEW t \in Threads, RemoveCheck(t) PROVE [Next]_vars
  BY <1>15 DEF RemoveCheck
<1>16. ASSUME NEW t \in Threads, RemoveRelease(t) PROVE [Next]_vars
  BY <1>16 DEF RemoveRelease, Next
<1>17. ASSUME NEW t \in Threads, RemoveEnd(t) PROVE [Next]_vars
  BY <1>17 DEF RemoveEnd, Next
<1>18. ASSUME NEW t \in Threads, Release(t) PROVE [Next]_vars
  BY <1>18 DEF Release, Next
<1>19. ASSUME NEW t \in Threads, PollStore(t) PROVE [Next]_vars
  BY <1>19 DEF PollStore, Next
<1>20. ASSUME NEW t \in Threads, PollDrop(t) PROVE [Next]_vars
  BY <1>20 DEF PollDrop, Next
<1>21. ASSUME NEW t \in Threads, ReleaseDone(t) PROVE [Next]_vars
  BY <1>21 DEF ReleaseDone, Next
<1>22. ASSUME NEW t \in Threads, ReleaseGrown(t) PROVE [Next]_vars
  BY <1>22 DEF ReleaseGrown
<1>23. ASSUME NEW t \in Threads, RetakeWon(t) PROVE [Next]_vars
  BY <1>23 DEF RetakeWon, Next
<1>24. ASSUME NEW t \in Threads, RetakeTake(t) PROVE [Next]_vars
  BY <1>24 DEF RetakeTake, Next
<1>25. ASSUME NEW t \in Threads, RetakeLost(t) PROVE [Next]_vars
  BY <1>25 DEF RetakeLost, Next
<1>27. ASSUME NEW t \in Threads, PollEnd(t) PROVE [Next]_vars
  BY <1>27 DEF PollEnd
<1>28. ASSUME NEW t \in Threads, PollEndDropping(t) PROVE [Next]_vars
  BY <1>28 DEF PollEndDropping, Next
<1>29. CASE DropSystem
  BY <1>29 DEF DropSystem, Next
<1>26. CASE UNCHANGED allVars
  BY <1>26 DEF allVars, vars, mailboxVars
<1> QED
  BY <1>1, <1>2, <1>3, <1>4, <1>5, <1>6, <1>7, <1>8, <1>9, <1>10, <1>11, <1>12, <1>13, <1>14, <1>15, <1>16, <1>17, <1>18, <1>19, <1>20, <1>21, <1>22, <1>23, <1>24, <1>25, <1>26, <1>27, <1>28, <1>29 DEF MailboxNext, Start, Continue, End

(* Every execution of the mailbox is one of the cell. *)
THEOREM MailboxRefinement == MailboxSpec => Spec
<1>1. MailboxInit => Init
  BY DEF MailboxInit
<1> QED BY <1>1, MailboxStepRefines, PTL DEF MailboxSpec, Spec

(* So the machine has one owner under senders, closers and pollers too: no two *)
(* handlers run on it, and none runs on a freed one.                           *)
THEOREM MailboxOneOwner == MailboxSpec => [](NoFault /\ SingleOwner)
<1> QED BY MailboxRefinement, FaultFreedom, OneOwner, PTL

(* A closed machine is freed under them as soon as nobody works on it. *)
THEOREM MailboxReclamation == MailboxSpec => []ClosedIsFreed
<1> QED BY MailboxRefinement, Reclamation, PTL

-----------------------------------------------------------------------------
(* Lost wakeups *)

(* Where a call stands in the cell, given where it stands outside of it. *)
Coupled ==
  \A t \in Threads :
    /\ at[t] = "idle" => pc[t] \in {"out", "notifying", "scheduling", "clearing"}
    /\ at[t] \in {"pushing", "pushed", "closing", "ended"} => pc[t] = "out"
    /\ at[t] = "handling" => pc[t] \in {"has", "retaking"}
    /\ at[t] \in {"handled", "removing"} => pc[t] = "has"
    /\ at[t] \in {"removed", "releasing"} => pc[t] \in {"releasing", "dropping", "released"}
    /\ at[t] = "retaking" => pc[t] = "released"
    /\ at[t] \in {"removing", "removed"} => stopped = "yes"

(* The inductive invariant of the mailbox, relative to that of the cell. *)
MInv == MailboxTypeOK /\ Coupled /\ NoLostWakeup

(* The initial states satisfy it. *)
LEMMA MailboxInitInv == MailboxInit => MInv
  BY MailboxAssumption, SMT
  DEF MailboxInit, Init, MInv, MailboxTypeOK, Coupled, NoLostWakeup, Stops

(* Every step keeps the types of the queue and of the calls. *)
LEMMA MailboxTypeStep == MailboxTypeOK /\ [MailboxNext]_allVars => MailboxTypeOK'
<1> SUFFICES ASSUME MailboxTypeOK, [MailboxNext]_allVars PROVE MailboxTypeOK'
  OBVIOUS
<1> USE MailboxAssumption DEF MailboxTypeOK, Stops, Move, Disconnected
<1>1. ASSUME NEW t \in Threads, SendCheck(t) PROVE MailboxTypeOK'
  BY <1>1, SMT DEF SendCheck, mailboxVars
<1>2. ASSUME NEW t \in Threads, SendPush(t) PROVE MailboxTypeOK'
  BY <1>2, SMT DEF SendPush, mailboxVars
<1>3. ASSUME NEW t \in Threads, SendNotify(t) PROVE MailboxTypeOK'
  BY <1>3, SMT DEF SendNotify, mailboxVars
<1>4. ASSUME NEW t \in Threads, SendMiss(t) PROVE MailboxTypeOK'
  BY <1>4, SMT DEF SendMiss, mailboxVars
<1>5. ASSUME NEW t \in Threads, SendTake(t) PROVE MailboxTypeOK'
  BY <1>5, SMT DEF SendTake, mailboxVars
<1>6. ASSUME NEW t \in Threads, SendSchedule(t) PROVE MailboxTypeOK'
  BY <1>6, SMT DEF SendSchedule, mailboxVars
<1>7. ASSUME NEW t \in Threads, CloseSender(t) PROVE MailboxTypeOK'
  BY <1>7, SMT DEF CloseSender, mailboxVars
<1>8. ASSUME NEW t \in Threads, CloseClear(t) PROVE MailboxTypeOK'
  BY <1>8, SMT DEF CloseClear, mailboxVars
<1>9. ASSUME NEW t \in Threads, CloseFree(t) PROVE MailboxTypeOK'
  BY <1>9, SMT DEF CloseFree, mailboxVars
<1>10. ASSUME NEW t \in Threads, Forget(t) PROVE MailboxTypeOK'
  BY <1>10, SMT DEF Forget, mailboxVars
<1>11. ASSUME NEW t \in Threads, PollFetch(t) PROVE MailboxTypeOK'
  BY <1>11, SMT DEF PollFetch, mailboxVars
<1>12. ASSUME NEW t \in Threads, PollHandle(t) PROVE MailboxTypeOK'
  BY <1>12, SMT DEF PollHandle, mailboxVars
<1>13. ASSUME NEW t \in Threads, PollReturn(t) PROVE MailboxTypeOK'
  BY <1>13, SMT DEF PollReturn, mailboxVars
<1>14. ASSUME NEW t \in Threads, NextRound(t) PROVE MailboxTypeOK'
  BY <1>14, SMT DEF NextRound, mailboxVars
<1>15. ASSUME NEW t \in Threads, RemoveCheck(t) PROVE MailboxTypeOK'
  BY <1>15, SMT DEF RemoveCheck, mailboxVars
<1>16. ASSUME NEW t \in Threads, RemoveRelease(t) PROVE MailboxTypeOK'
  BY <1>16, SMT DEF RemoveRelease, mailboxVars
<1>17. ASSUME NEW t \in Threads, RemoveEnd(t) PROVE MailboxTypeOK'
  BY <1>17, SMT DEF RemoveEnd, mailboxVars
<1>18. ASSUME NEW t \in Threads, Release(t) PROVE MailboxTypeOK'
  BY <1>18, SMT DEF Release, mailboxVars
<1>19. ASSUME NEW t \in Threads, PollStore(t) PROVE MailboxTypeOK'
  BY <1>19, SMT DEF PollStore, mailboxVars
<1>20. ASSUME NEW t \in Threads, PollDrop(t) PROVE MailboxTypeOK'
  BY <1>20, SMT DEF PollDrop, mailboxVars
<1>21. ASSUME NEW t \in Threads, ReleaseDone(t) PROVE MailboxTypeOK'
  BY <1>21, SMT DEF ReleaseDone, mailboxVars
<1>22. ASSUME NEW t \in Threads, ReleaseGrown(t) PROVE MailboxTypeOK'
  BY <1>22, SMT DEF ReleaseGrown, mailboxVars
<1>23. ASSUME NEW t \in Threads, RetakeWon(t) PROVE MailboxTypeOK'
  BY <1>23, SMT DEF RetakeWon, mailboxVars
<1>24. ASSUME NEW t \in Threads, RetakeTake(t) PROVE MailboxTypeOK'
  BY <1>24, SMT DEF RetakeTake, mailboxVars
<1>25. ASSUME NEW t \in Threads, RetakeLost(t) PROVE MailboxTypeOK'
  BY <1>25, SMT DEF RetakeLost, mailboxVars
<1>27. ASSUME NEW t \in Threads, PollEnd(t) PROVE MailboxTypeOK'
  BY <1>27, SMT DEF PollEnd, mailboxVars
<1>28. ASSUME NEW t \in Threads, PollEndDropping(t) PROVE MailboxTypeOK'
  BY <1>28, SMT DEF PollEndDropping, mailboxVars
<1>29. CASE DropSystem
  BY <1>29, SMT DEF DropSystem, mailboxVars
<1>26. CASE UNCHANGED allVars
  BY <1>26 DEF allVars, vars, mailboxVars
<1> QED
  BY <1>1, <1>2, <1>3, <1>4, <1>5, <1>6, <1>7, <1>8, <1>9, <1>10, <1>11, <1>12, <1>13, <1>14, <1>15, <1>16, <1>17, <1>18, <1>19, <1>20, <1>21, <1>22, <1>23, <1>24, <1>25, <1>26, <1>27, <1>28, <1>29 DEF MailboxNext, Start, Continue, End

(* Every step that does not panic keeps the calls and the cell together. *)
LEMMA CoupledStep ==
  TypeOK /\ NoFault' /\ MailboxTypeOK /\ Coupled /\ [MailboxNext]_allVars => Coupled'
<1> SUFFICES ASSUME TypeOK, NoFault', MailboxTypeOK, Coupled, [MailboxNext]_allVars
             PROVE  Coupled'
  OBVIOUS
<1> USE DEF TypeOK, NoFault, MailboxTypeOK, Coupled, Move, Goto
<1>1. ASSUME NEW t \in Threads, SendCheck(t) PROVE Coupled'
  BY <1>1, SMT DEF SendCheck, vars, mailboxVars
<1>2. ASSUME NEW t \in Threads, SendPush(t) PROVE Coupled'
  BY <1>2, SMT DEF SendPush, vars, mailboxVars
<1>3. ASSUME NEW t \in Threads, SendNotify(t) PROVE Coupled'
  BY <1>3, SMT DEF SendNotify, NotifyCas, vars, mailboxVars
<1>4. ASSUME NEW t \in Threads, SendMiss(t) PROVE Coupled'
  BY <1>4, SMT DEF SendMiss, vars, mailboxVars
<1>5. ASSUME NEW t \in Threads, SendTake(t) PROVE Coupled'
  BY <1>5, SMT DEF SendTake, NotifySwap, vars, mailboxVars
<1>6. ASSUME NEW t \in Threads, SendSchedule(t) PROVE Coupled'
  BY <1>6, SMT DEF SendSchedule, Schedule, Rebind, vars, mailboxVars
<1>7. ASSUME NEW t \in Threads, CloseSender(t) PROVE Coupled'
  BY <1>7, SMT DEF CloseSender, vars, mailboxVars
<1>8. ASSUME NEW t \in Threads, CloseClear(t) PROVE Coupled'
  BY <1>8, SMT DEF CloseClear, ClearSwap, vars, mailboxVars
<1>9. ASSUME NEW t \in Threads, CloseFree(t) PROVE Coupled'
  BY <1>9, SMT DEF CloseFree, ClearFree, vars, mailboxVars
<1>10. ASSUME NEW t \in Threads, Forget(t) PROVE Coupled'
  BY <1>10, SMT DEF Forget, DropHandle, Rebind, vars, mailboxVars
<1>11. ASSUME NEW t \in Threads, PollFetch(t) PROVE Coupled'
  BY <1>11, SMT DEF PollFetch, Fetch, vars, mailboxVars
<1>12. ASSUME NEW t \in Threads, PollHandle(t) PROVE Coupled'
  BY <1>12, SMT DEF PollHandle, vars, mailboxVars
<1>13. ASSUME NEW t \in Threads, PollReturn(t) PROVE Coupled'
  BY <1>13, SMT DEF PollReturn, vars, mailboxVars
<1>14. ASSUME NEW t \in Threads, NextRound(t) PROVE Coupled'
  BY <1>14, SMT DEF NextRound, vars, mailboxVars
<1>15. ASSUME NEW t \in Threads, RemoveCheck(t) PROVE Coupled'
  BY <1>15, SMT DEF RemoveCheck, vars, mailboxVars
<1>16. ASSUME NEW t \in Threads, RemoveRelease(t) PROVE Coupled'
  BY <1>16, SMT DEF RemoveRelease, ReleaseSwap, vars, mailboxVars
<1>17. ASSUME NEW t \in Threads, RemoveEnd(t) PROVE Coupled'
  BY <1>17, SMT DEF RemoveEnd, ReleaseEnd, Rebind, vars, mailboxVars
<1>18. ASSUME NEW t \in Threads, Release(t) PROVE Coupled'
  BY <1>18, SMT DEF Release, ReleaseSwap, vars, mailboxVars
<1>19. ASSUME NEW t \in Threads, PollStore(t) PROVE Coupled'
  BY <1>19, SMT DEF PollStore, ReleaseCas, vars, mailboxVars
<1>20. ASSUME NEW t \in Threads, PollDrop(t) PROVE Coupled'
  BY <1>20, SMT DEF PollDrop, ReleaseDrop, vars, mailboxVars
<1>21. ASSUME NEW t \in Threads, ReleaseDone(t) PROVE Coupled'
  BY <1>21, SMT DEF ReleaseDone, ReleaseEnd, Rebind, vars, mailboxVars
<1>22. ASSUME NEW t \in Threads, ReleaseGrown(t) PROVE Coupled'
  BY <1>22, SMT DEF ReleaseGrown, vars, mailboxVars
<1>23. ASSUME NEW t \in Threads, RetakeWon(t) PROVE Coupled'
  BY <1>23, SMT DEF RetakeWon, RetakeCas, vars, mailboxVars
<1>24. ASSUME NEW t \in Threads, RetakeTake(t) PROVE Coupled'
  BY <1>24, SMT DEF RetakeTake, RetakeSwap, vars, mailboxVars
<1>25. ASSUME NEW t \in Threads, RetakeLost(t) PROVE Coupled'
  BY <1>25, SMT DEF RetakeLost, ReleaseEnd, Rebind, vars, mailboxVars
<1>27. ASSUME NEW t \in Threads, PollEnd(t) PROVE Coupled'
  BY <1>27, SMT DEF PollEnd, vars, mailboxVars
<1>28. ASSUME NEW t \in Threads, PollEndDropping(t) PROVE Coupled'
  BY <1>28, SMT DEF PollEndDropping, Discard, Rebind, vars, mailboxVars
<1>29. CASE DropSystem
  BY <1>29, SMT DEF DropSystem, Disconnect, Rebind, vars, mailboxVars
<1>26. CASE UNCHANGED allVars
  BY <1>26 DEF allVars, vars, mailboxVars
<1> QED
  BY <1>1, <1>2, <1>3, <1>4, <1>5, <1>6, <1>7, <1>8, <1>9, <1>10, <1>11, <1>12, <1>13, <1>14, <1>15, <1>16, <1>17, <1>18, <1>19, <1>20, <1>21, <1>22, <1>23, <1>24, <1>25, <1>26, <1>27, <1>28, <1>29 DEF MailboxNext, Start, Continue, End

(* A step that parks the machine over a message is one of a poller that looks at *)
(* the queue next, and the one that adds a message is one of a sender that       *)
(* looks at the status next.                                                     *)
LEMMA WakeupStep ==
  TypeOK /\ MailboxTypeOK /\ Coupled /\ NoLostWakeup /\ [MailboxNext]_allVars => NoLostWakeup'
<1> SUFFICES ASSUME TypeOK, MailboxTypeOK, Coupled, NoLostWakeup, [MailboxNext]_allVars
             PROVE  NoLostWakeup'
  OBVIOUS
<1> USE DEF TypeOK, MailboxTypeOK, Coupled, NoLostWakeup, Move, Goto
<1>1. ASSUME NEW t \in Threads, SendCheck(t) PROVE NoLostWakeup'
  BY <1>1, SMT DEF SendCheck, vars, mailboxVars
<1>2. ASSUME NEW t \in Threads, SendPush(t) PROVE NoLostWakeup'
  BY <1>2, SMT DEF SendPush, vars, mailboxVars
<1>3. ASSUME NEW t \in Threads, SendNotify(t) PROVE NoLostWakeup'
  BY <1>3, SMT DEF SendNotify, NotifyCas, vars, mailboxVars
<1>4. ASSUME NEW t \in Threads, SendMiss(t) PROVE NoLostWakeup'
  BY <1>4, SMT DEF SendMiss, vars, mailboxVars
<1>5. ASSUME NEW t \in Threads, SendTake(t) PROVE NoLostWakeup'
  BY <1>5, SMT DEF SendTake, NotifySwap, vars, mailboxVars
<1>6. ASSUME NEW t \in Threads, SendSchedule(t) PROVE NoLostWakeup'
  BY <1>6, SMT DEF SendSchedule, Schedule, Rebind, vars, mailboxVars
<1>7. ASSUME NEW t \in Threads, CloseSender(t) PROVE NoLostWakeup'
  BY <1>7, SMT DEF CloseSender, vars, mailboxVars
<1>8. ASSUME NEW t \in Threads, CloseClear(t) PROVE NoLostWakeup'
  BY <1>8, SMT DEF CloseClear, ClearSwap, vars, mailboxVars
<1>9. ASSUME NEW t \in Threads, CloseFree(t) PROVE NoLostWakeup'
  BY <1>9, SMT DEF CloseFree, ClearFree, vars, mailboxVars
<1>10. ASSUME NEW t \in Threads, Forget(t) PROVE NoLostWakeup'
  BY <1>10, SMT DEF Forget, DropHandle, Rebind, vars, mailboxVars
<1>11. ASSUME NEW t \in Threads, PollFetch(t) PROVE NoLostWakeup'
  BY <1>11, SMT DEF PollFetch, Fetch, vars, mailboxVars
<1>12. ASSUME NEW t \in Threads, PollHandle(t) PROVE NoLostWakeup'
  BY <1>12, SMT DEF PollHandle, vars, mailboxVars
<1>13. ASSUME NEW t \in Threads, PollReturn(t) PROVE NoLostWakeup'
  BY <1>13, SMT DEF PollReturn, vars, mailboxVars
<1>14. ASSUME NEW t \in Threads, NextRound(t) PROVE NoLostWakeup'
  BY <1>14, SMT DEF NextRound, vars, mailboxVars
<1>15. ASSUME NEW t \in Threads, RemoveCheck(t) PROVE NoLostWakeup'
  BY <1>15, SMT DEF RemoveCheck, vars, mailboxVars
<1>16. ASSUME NEW t \in Threads, RemoveRelease(t) PROVE NoLostWakeup'
  BY <1>16, SMT DEF RemoveRelease, ReleaseSwap, vars, mailboxVars
<1>17. ASSUME NEW t \in Threads, RemoveEnd(t) PROVE NoLostWakeup'
  BY <1>17, SMT DEF RemoveEnd, ReleaseEnd, Rebind, vars, mailboxVars
<1>18. ASSUME NEW t \in Threads, Release(t) PROVE NoLostWakeup'
  BY <1>18, SMT DEF Release, ReleaseSwap, vars, mailboxVars
<1>19. ASSUME NEW t \in Threads, PollStore(t) PROVE NoLostWakeup'
  <2>1. /\ pc[t] = "releasing"
        /\ at[t] \in {"removed", "releasing"}
    BY <1>19, SMT DEF PollStore, ReleaseCas, Stops
  <2>2. CASE at[t] = "removed"
    BY <1>19, <2>2, SMT DEF PollStore, ReleaseCas, mailboxVars
  <2>3. CASE at[t] = "releasing" /\ status = "notified"
    <3>1. at'[t] = "releasing" /\ pc'[t] = "released"
      BY <1>19, <2>3, SMT DEF PollStore, ReleaseCas, mailboxVars
    <3> QED BY <3>1
  <2>4. CASE status # "notified"
    BY <1>19, <2>1, <2>4, SMT DEF PollStore, ReleaseCas, mailboxVars
  <2> QED BY <2>1, <2>2, <2>3, <2>4
<1>20. ASSUME NEW t \in Threads, PollDrop(t) PROVE NoLostWakeup'
  BY <1>20, SMT DEF PollDrop, ReleaseDrop, vars, mailboxVars
<1>21. ASSUME NEW t \in Threads, ReleaseDone(t) PROVE NoLostWakeup'
  BY <1>21, SMT DEF ReleaseDone, ReleaseEnd, Rebind, vars, mailboxVars
<1>22. ASSUME NEW t \in Threads, ReleaseGrown(t) PROVE NoLostWakeup'
  BY <1>22, SMT DEF ReleaseGrown, vars, mailboxVars
<1>23. ASSUME NEW t \in Threads, RetakeWon(t) PROVE NoLostWakeup'
  BY <1>23, SMT DEF RetakeWon, RetakeCas, vars, mailboxVars
<1>24. ASSUME NEW t \in Threads, RetakeTake(t) PROVE NoLostWakeup'
  BY <1>24, SMT DEF RetakeTake, RetakeSwap, vars, mailboxVars
<1>25. ASSUME NEW t \in Threads, RetakeLost(t) PROVE NoLostWakeup'
  BY <1>25, SMT DEF RetakeLost, ReleaseEnd, Rebind, vars, mailboxVars
<1>27. ASSUME NEW t \in Threads, PollEnd(t) PROVE NoLostWakeup'
  BY <1>27, SMT DEF PollEnd, vars, mailboxVars
<1>28. ASSUME NEW t \in Threads, PollEndDropping(t) PROVE NoLostWakeup'
  BY <1>28, SMT DEF PollEndDropping, Discard, Rebind, vars, mailboxVars
<1>29. CASE DropSystem
  BY <1>29, SMT DEF DropSystem, Disconnect, Rebind, vars, mailboxVars
<1>26. CASE UNCHANGED allVars
  BY <1>26 DEF allVars, vars, mailboxVars
<1> QED
  BY <1>1, <1>2, <1>3, <1>4, <1>5, <1>6, <1>7, <1>8, <1>9, <1>10, <1>11, <1>12, <1>13, <1>14, <1>15, <1>16, <1>17, <1>18, <1>19, <1>20, <1>21, <1>22, <1>23, <1>24, <1>25, <1>26, <1>27, <1>28, <1>29 DEF MailboxNext, Start, Continue, End

(* The invariant holds in every reachable state. *)
THEOREM MailboxInvariance == MailboxSpec => [](IInv /\ MInv)
<1>1. IInv /\ IInv' /\ MInv /\ [MailboxNext]_allVars => MInv'
  BY MailboxTypeStep, CoupledStep, WakeupStep DEF IInv, MInv
<1>2. MailboxSpec => []IInv
  BY MailboxRefinement, Invariance, PTL
<1> QED BY <1>1, <1>2, MailboxInitInv, PTL DEF MailboxSpec

(* The queue, the counters and the calls of Mailbox keep their types. *)
THEOREM MailboxTypeCorrect == MailboxSpec => []MailboxTypeOK
<1>1. MInv => MailboxTypeOK
  BY DEF MInv
<1> QED BY MailboxInvariance, <1>1, PTL

(* For any senders, closers and pollers, no message is left in the queue of a  *)
(* parked machine unless somebody is about to look at it.                      *)
THEOREM WakeupSafety == MailboxSpec => []NoLostWakeup
<1>1. MInv => NoLostWakeup
  BY DEF MInv
<1> QED BY MailboxInvariance, <1>1, PTL

(* At rest an open machine is parked, and a parked one has no message left. *)
THEOREM MailboxRestIsHandled == MailboxSpec => []RestIsHandled
<1>1. IInv /\ MInv => RestIsHandled
  <2> SUFFICES ASSUME IInv, MInv, Quiet, \A t \in Threads : at[t] \in {"idle", "ended"},
                      stopped = "no", freed = 0
               PROVE  handled = sent
    BY DEF RestIsHandled, MInv, MailboxTypeOK, IInv, TypeOK
  <2>1. data = "fsm"
    BY DEF IInv, Elsewhere, TypeOK, Quiet, Holds
  <2>2. status = "idle"
    BY <2>1 DEF IInv, Elsewhere, Quiet, InCell
  <2>3. ~(handled < sent)
    BY <2>2 DEF MInv, NoLostWakeup
  <2>4. sent \in Nat /\ handled \in 0..sent
    BY DEF MInv, MailboxTypeOK
  <2> QED
    BY <2>3, <2>4
<1> QED BY MailboxInvariance, <1>1, PTL

-----------------------------------------------------------------------------
(* The refinement of FsmDelivery *)

(* A step of the mailbox adds a message, handles one or touches the cell only. *)
LEMMA MessageSteps ==
  ASSUME [MailboxNext]_allVars
  PROVE  \/ UNCHANGED <<sent, handled>>
         \/ UNCHANGED vars /\ freed = 0 /\ sent' = sent + 1 /\ handled' = handled
         \/ /\ UNCHANGED vars /\ sent' = sent /\ handled' = handled + 1 /\ handled < sent
            /\ \E t \in Threads : pc[t] = "has"
<1>1. ASSUME NEW t \in Threads, SendPush(t)
      PROVE  \/ UNCHANGED <<sent, handled>>
             \/ UNCHANGED vars /\ freed = 0 /\ sent' = sent + 1 /\ handled' = handled
  BY <1>1 DEF SendPush
<1>2. ASSUME NEW t \in Threads, PollHandle(t)
      PROVE  /\ UNCHANGED vars /\ sent' = sent /\ handled' = handled + 1 /\ handled < sent
             /\ pc[t] = "has"
  BY <1>2 DEF PollHandle
<1>3. ASSUME NEW t \in Threads, Start(t) PROVE UNCHANGED <<sent, handled>>
  BY <1>3 DEF Start, SendCheck, CloseSender, Forget
<1>4. ASSUME NEW t \in Threads,
             \/ SendNotify(t) \/ SendMiss(t) \/ SendTake(t) \/ SendSchedule(t)
             \/ CloseClear(t) \/ CloseFree(t) \/ PollFetch(t) \/ PollReturn(t) \/ NextRound(t)
      PROVE  UNCHANGED <<sent, handled>>
  BY <1>4 DEF SendNotify, SendMiss, SendTake, SendSchedule, CloseClear, CloseFree, PollFetch,
              PollReturn, NextRound, mailboxVars
<1>5. ASSUME NEW t \in Threads,
             \/ RemoveCheck(t) \/ RemoveRelease(t) \/ RemoveEnd(t)
             \/ Release(t) \/ PollStore(t) \/ PollDrop(t)
             \/ ReleaseDone(t) \/ ReleaseGrown(t) \/ RetakeWon(t) \/ RetakeTake(t)
             \/ RetakeLost(t)
      PROVE  UNCHANGED <<sent, handled>>
  BY <1>5 DEF RemoveCheck, RemoveRelease, RemoveEnd, Release, PollStore, PollDrop, ReleaseDone,
              ReleaseGrown, RetakeWon, RetakeTake, RetakeLost, mailboxVars
<1>6. CASE UNCHANGED allVars
  BY <1>6 DEF allVars, mailboxVars
<1>7. ASSUME NEW t \in Threads, End(t) PROVE UNCHANGED <<sent, handled>>
  BY <1>7 DEF End, PollEnd, PollEndDropping
<1>8. CASE DropSystem
  BY <1>8 DEF DropSystem
<1> QED
  BY <1>1, <1>2, <1>3, <1>4, <1>5, <1>6, <1>7, <1>8 DEF MailboxNext, Continue

LEMMA DeliveryRefines ==
  ASSUME IInv, MInv, [MailboxNext]_allVars
  PROVE  [Delivery!DeliveryNext]_(Delivery!deliveryVars)
<1> USE DEF Delivery!DeliveryNext, Delivery!deliveryVars, Delivery!vars
<1>1. [Ownership!Next]_(Ownership!vars)
  BY MailboxStepRefines, StepRefines
<1>2. [Delivery!Next]_(Delivery!vars)
  BY <1>1 DEF Ownership!Next, Ownership!vars, Ownership!Take, Ownership!Park, Ownership!Close,
              Ownership!Free, Delivery!Next, Delivery!Take, Delivery!Park, Delivery!Close,
              Delivery!Free
<1>3. CASE UNCHANGED <<sent, handled>>
  BY <1>2, <1>3 DEF Delivery!Pass
<1>4. ASSUME UNCHANGED vars
      PROVE  UNCHANGED Delivery!vars
  BY <1>4 DEF vars, Whereabouts
<1>5. CASE UNCHANGED vars /\ freed = 0 /\ sent' = sent + 1 /\ handled' = handled
  <2>1. Whereabouts # "freed"
    BY <1>5 DEF Whereabouts
  <2> QED
    BY <1>4, <1>5, <2>1 DEF Delivery!Send
<1>6. CASE /\ UNCHANGED vars /\ sent' = sent /\ handled' = handled + 1 /\ handled < sent
           /\ \E t \in Threads : pc[t] = "has"
  <2>1. Whereabouts = "moving"
    BY <1>6 DEF Whereabouts, IInv, Exclusive, Working
  <2>2. handled' \in handled + 1..sent
    BY <1>6 DEF MInv, MailboxTypeOK
  <2> QED
    BY <1>4, <1>6, <2>1, <2>2 DEF Delivery!Handle
<1> QED
  BY <1>3, <1>5, <1>6, MessageSteps

(* For any senders, closers and pollers the mailbox keeps the promise of FsmDelivery, the *)
(* one on which Poller rests its coarse machines: the handler takes a message only while  *)
(* the machine is moving, and a freed machine gets and takes none.                        *)
THEOREM MailboxDelivery == MailboxSpec => DeliverySpec
<1>1. MailboxInit => Delivery!DeliveryInit
  BY DEF MailboxInit, Init, Whereabouts, Delivery!DeliveryInit, Delivery!Init
<1> QED
  BY <1>1, MailboxInvariance, DeliveryRefines, PTL DEF MailboxSpec, DeliverySpec,
     Delivery!DeliverySpec

=============================================================================
