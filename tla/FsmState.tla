------------------------------ MODULE FsmState ------------------------------
(***************************************************************************)
(* The notification cell of one state machine (fsm.rs) under any number of *)
(* threads: senders that notify it, pollers that hold and release it,      *)
(* closers that clear it, and the reference counts that drop it.           *)
(*                                                                         *)
(* The cell is two atomics, a status word and a pointer, and every         *)
(* operation touches them one after the other without a lock.  One action  *)
(* here is one atomic access of the code together with the thread-local    *)
(* work up to the next one, so every interleaving of the code's accesses   *)
(* is a behaviour of this module.  What is left open is when a party       *)
(* starts an operation: Mailbox.tla restricts that to what the mailbox and *)
(* the poller do.                                                          *)
(***************************************************************************)
EXTENDS Naturals

CONSTANTS
  Threads,      (* senders, pollers and closers                                *)
  Control,      (* TRUE: the control machine, released through the router's    *)
                (* own mailbox; FALSE: a normal one, released through the      *)
                (* mailbox that it carries                                     *)
  MaxHandles    (* bound of the model: clones of the mailbox per thread        *)

ASSUME FsmStateAssumption ==
  /\ Control \in BOOLEAN
  /\ MaxHandles \in Nat

VARIABLES
  status,     (* FsmState.status: "notified", "idle" or "drop"                 *)
  data,       (* FsmState.data: "fsm", or "null" for the null pointer          *)
  handles,    (* BasicMailbox clones that each thread owns                     *)
  own,        (* clones of its own mailbox that the machine carries: 0 or 1    *)
  ready,      (* boxes of this machine in the scheduler's channel              *)
  chan,       (* that channel: "connected" or, without receivers, "gone"       *)
  freed,      (* how many times the box was freed                              *)
  pc          (* where each thread is inside an operation                      *)

vars == <<status, data, handles, own, ready, chan, freed, pc>>

Places ==
  {"out",          (* in no operation, without the box                         *)
   "notifying",    (* take_fsm for notify: status swapped, pointer not yet     *)
   "scheduling",   (* has the box, about to send it to the scheduler's channel *)
   "has",          (* a poller with the box in its batch                       *)
   "releasing",    (* release: pointer stored, status not yet swapped          *)
   "dropping",     (* release: saw "drop", about to take the box back          *)
   "released",     (* release returned, the queue is looked at next            *)
   "retaking",     (* take_fsm after a release: status swapped                 *)
   "clearing",     (* clear: "drop" stored over "idle", pointer not yet taken  *)
   "fault"}        (* a panic of fsm.rs or batch.rs, or a null Box             *)

(* The threads that poll own a Receiver of the scheduler's channel. *)
Polling == {"has", "releasing", "dropping", "released", "retaking"}

-----------------------------------------------------------------------------
(* A clone of the mailbox is left, so the FsmState exists (and counts in state_cnt). *)
Live(h, o) == o > 0 \/ \E t \in Threads : h[t] > 0

(* BasicMailbox::new, and the clones made of it before the machine gets a message: *)
(* the cell starts idle with the machine in it.                                    *)
Init ==
  /\ status = "idle"
  /\ data = "fsm"
  /\ handles \in [Threads -> 0..MaxHandles]
  /\ Live(handles, 0)
  /\ own = 0
  /\ ready = 0
  /\ chan = "connected"
  /\ freed = 0
  /\ pc = [t \in Threads |-> "out"]

(* A step of thread t from one place to another. *)
Goto(t, from, to) ==
  /\ pc[t] = from
  /\ pc' = [pc EXCEPT ![t] = to]

(* The handles become h and the machine's own one o; p and f are what data and *)
(* freed would be.  With the last clone the Arc drops the FsmState, and that   *)
(* frees a machine that is still parked in it.                                 *)
Rebind(h, o, p, f) ==
  /\ handles' = h
  /\ own' = o
  /\ data' = IF Live(h, o) THEN p ELSE "null"
  /\ freed' = IF Live(h, o) \/ p = "null" THEN f ELSE f + 1

-----------------------------------------------------------------------------
(* Handles *)

(* A router's map or cache, or a caller, clones the mailbox for thread u. *)
Clone(t, u) ==
  /\ handles[t] > 0
  /\ handles[u] < MaxHandles
  /\ handles' = [handles EXCEPT ![u] = @ + 1]
  /\ UNCHANGED <<status, data, own, ready, chan, freed, pc>>

(* A clone goes out of scope.  A poller keeps the control mailbox in its *)
(* router for as long as it polls.                                       *)
DropHandle(t) ==
  /\ handles[t] > 0
  /\ pc[t] = "out" \/ (pc[t] = "has" /\ ~Control)
  /\ Rebind([handles EXCEPT ![t] = @ - 1], own, data, freed)
  /\ UNCHANGED <<status, ready, chan, pc>>

-----------------------------------------------------------------------------
(* notify: take_fsm, set_mailbox, schedule *)

(* Mutant: take_fsm takes whatever the status was. *)
NotifyCasAlways(t) ==
  /\ handles[t] > 0
  /\ Goto(t, "out", "notifying")
  /\ status' = "notified"
  /\ UNCHANGED <<data, handles, own, ready, chan, freed>>

(* The compare_exchange of take_fsm that succeeds; one that fails changes nothing. *)
NotifyCas(t) ==
  /\ handles[t] > 0
  /\ status = "idle"
  /\ Goto(t, "out", "notifying")
  /\ status' = "notified"
  /\ UNCHANGED <<data, handles, own, ready, chan, freed>>

(* The swap of the pointer, and set_mailbox with a clone of the sender's mailbox. *)
NotifySwap(t) ==
  /\ Goto(t, "notifying", IF data = "null" THEN "fault" ELSE "scheduling")
  /\ data' = "null"
  /\ own' = IF data = "fsm" THEN 1 ELSE own
  /\ UNCHANGED <<status, handles, ready, chan, freed>>

(* The scheduler sends the box to its channel; without a receiver the box is *)
(* handed back inside SendError and dropped there.                           *)
Schedule(t) ==
  /\ Goto(t, "scheduling", "out")
  /\ IF chan = "connected"
       THEN /\ ready' = ready + 1
            /\ UNCHANGED <<data, handles, own, freed>>
       ELSE /\ Rebind(handles, 0, data, freed + 1)
            /\ UNCHANGED ready
  /\ UNCHANGED <<status, chan>>

-----------------------------------------------------------------------------
(* The poller's side *)

(* fetch_fsm receives the box and pushes it into the batch. *)
Fetch(t) ==
  /\ ready > 0
  /\ chan = "connected"
  /\ Control => handles[t] > 0
  /\ Goto(t, "out", "has")
  /\ ready' = ready - 1
  /\ UNCHANGED <<status, data, handles, own, chan, freed>>

(* Batch::reschedule sends the box back to the channel as it is. *)
Reschedule(t) ==
  /\ ~Control
  /\ Goto(t, "has", "out")
  /\ ready' = ready + 1
  /\ UNCHANGED <<status, data, handles, own, chan, freed>>

(* The poller drops its batch: at its end (clear), or as a handler's panic unwinds it. *)
Discard(t) ==
  /\ Goto(t, "has", "out")
  /\ Rebind(handles, 0, data, freed + 1)
  /\ UNCHANGED <<status, ready, chan>>

(* The last Receiver of the channel is dropped, and the boxes in it with it. *)
Disconnect ==
  /\ chan = "connected"
  /\ \A t \in Threads : pc[t] \notin Polling
  /\ chan' = "gone"
  /\ ready' = 0
  /\ Rebind(handles, IF ready = 0 THEN own ELSE 0, data, freed + ready)
  /\ UNCHANGED <<status, pc>>

-----------------------------------------------------------------------------
(* release *)

(* Mutant: a normal machine keeps its mailbox when it is parked. *)
ReleaseSwapKeeping(t) ==
  /\ Control => handles[t] > 0
  /\ Goto(t, "has", "releasing")
  /\ data' = "fsm"
  /\ handles' = IF Control THEN handles ELSE [handles EXCEPT ![t] = @ + own]
  /\ UNCHANGED <<status, own, ready, chan, freed>>

(* Mutant: the poller drops a mailbox that it only borrowed from the machine. *)
ReleaseSwapBorrowing(t) ==
  /\ Control => handles[t] > 0
  /\ Goto(t, "has", "releasing")
  /\ data' = "fsm"
  /\ own' = IF Control THEN own ELSE 0
  /\ UNCHANGED <<status, handles, ready, chan, freed>>

(* The swap that puts the box back.  A normal machine gives up its mailbox to *)
(* the poller first (take_mailbox, which must be there).                      *)
ReleaseSwap(t) ==
  /\ Control => handles[t] > 0
  /\ Goto(t, "has", IF data = "null" /\ (Control \/ own = 1)
                      THEN "releasing" ELSE "fault")
  /\ data' = IF Control \/ own = 1 THEN "fsm" ELSE data
  /\ IF Control
       THEN UNCHANGED <<handles, own>>
       ELSE /\ handles' = [handles EXCEPT ![t] = @ + own]
            /\ own' = 0
  /\ UNCHANGED <<status, ready, chan, freed>>

(* Mutant: release stores idle over whatever the status was. *)
ReleaseStore(t) ==
  /\ Goto(t, "releasing", "released")
  /\ status' = "idle"
  /\ UNCHANGED <<data, handles, own, ready, chan, freed>>

(* The compare_exchange from notified to idle. *)
ReleaseCas(t) ==
  /\ Goto(t, "releasing", IF status = "notified" THEN "released"
                        ELSE IF status = "drop" THEN "dropping" ELSE "fault")
  /\ status' = IF status = "notified" THEN "idle" ELSE status
  /\ UNCHANGED <<data, handles, own, ready, chan, freed>>

(* Mutant: release leaves a machine whose mailbox was closed to somebody else. *)
ReleaseLeave(t) ==
  /\ Goto(t, "dropping", "released")
  /\ UNCHANGED <<status, data, handles, own, ready, chan, freed>>

(* The mailbox was closed meanwhile: the poller takes the box back and frees it. *)
ReleaseDrop(t) ==
  /\ Goto(t, "dropping", IF data = "null" THEN "fault" ELSE "released")
  /\ data' = "null"
  /\ freed' = IF data = "null" THEN freed ELSE freed + 1
  /\ own' = 0
  /\ UNCHANGED <<status, handles, ready, chan>>

(* Nothing is left to do, or take_fsm failed: the poller drops the mailbox *)
(* that it took from a normal machine.                                     *)
ReleaseEnd(t) ==
  /\ Goto(t, "released", "out")
  /\ IF Control
       THEN UNCHANGED <<data, handles, own, freed>>
       ELSE Rebind([handles EXCEPT ![t] = @ - 1], own, data, freed)
  /\ UNCHANGED <<status, ready, chan>>

(* The queue grew behind the handler's back: take_fsm again, first its compare_exchange, *)
RetakeCas(t) ==
  /\ Goto(t, "released", "retaking")
  /\ status = "idle"
  /\ status' = "notified"
  /\ UNCHANGED <<data, handles, own, ready, chan, freed>>

(* then the pointer; a normal machine gets the mailbox back. *)
RetakeSwap(t) ==
  /\ Goto(t, "retaking", IF data = "null" THEN "fault" ELSE "has")
  /\ data' = "null"
  /\ IF Control
       THEN UNCHANGED <<handles, own>>
       ELSE /\ handles' = [handles EXCEPT ![t] = @ - 1]
            /\ own' = 1
  /\ UNCHANGED <<status, ready, chan, freed>>

-----------------------------------------------------------------------------
(* clear *)

(* The swap of the status.  A handler may close the very machine it polls. *)
ClearSwap(t) ==
  /\ handles[t] > 0
  /\ pc[t] \in {"out", "has"}
  /\ status' = "drop"
  /\ pc' = [pc EXCEPT ![t] = IF status = "idle" THEN "clearing" ELSE @]
  /\ UNCHANGED <<data, handles, own, ready, chan, freed>>

(* Mutant: the closer loads the pointer and leaves it there. *)
ClearFreeLoad(t) ==
  /\ Goto(t, "clearing", "out")
  /\ freed' = IF data = "fsm" THEN freed + 1 ELSE freed
  /\ UNCHANGED <<status, data, handles, own, ready, chan>>

(* It was idle: the closer takes the pointer and frees the machine. *)
ClearFree(t) ==
  /\ Goto(t, "clearing", "out")
  /\ data' = "null"
  /\ freed' = IF data = "fsm" THEN freed + 1 ELSE freed
  /\ own' = IF data = "fsm" THEN 0 ELSE own
  /\ UNCHANGED <<status, handles, ready, chan>>

-----------------------------------------------------------------------------
Next ==
  \/ \E t, u \in Threads : Clone(t, u)
  \/ \E t \in Threads :
       \/ DropHandle(t)
       \/ NotifyCas(t)   \/ NotifySwap(t) \/ Schedule(t)
       \/ Fetch(t)       \/ Reschedule(t) \/ Discard(t)
       \/ ReleaseSwap(t) \/ ReleaseCas(t) \/ ReleaseDrop(t) \/ ReleaseEnd(t)
       \/ RetakeCas(t)   \/ RetakeSwap(t)
       \/ ClearSwap(t)   \/ ClearFree(t)
  \/ Disconnect

Spec == Init /\ [][Next]_vars

-----------------------------------------------------------------------------
(* Properties *)

(* The type invariant of the cell of fsm.rs and of its threads. *)
TypeOK ==
  /\ status \in {"notified", "idle", "drop"}
  /\ data \in {"null", "fsm"}
  /\ handles \in [Threads -> Nat]
  /\ own \in {0, 1}
  /\ ready \in Nat
  /\ chan \in {"connected", "gone"}
  /\ freed \in Nat
  /\ pc \in [Threads -> Places]

(* The thread has the box in a local variable or in its batch. *)
Holds(t) == pc[t] \in {"scheduling", "has"}

(* No interleaving reaches a panic of fsm.rs ("inconsistent status and data" of *)
(* take_fsm, "invalid release state" of release), the unwrap of a missing       *)
(* mailbox in Batch::release, or a Box made from a null pointer.                *)
NoFault == \A t \in Threads : pc[t] # "fault"

(* The machine is in one place: in the cell, with one thread, in the scheduler's *)
(* channel, or freed once.  So it is never freed twice, never used after it was  *)
(* freed or by two threads at a time, and never lost.                            *)
SingleOwner ==
  /\ \A t, u \in Threads : Holds(t) /\ Holds(u) => t = u
  /\ (\E t \in Threads : Holds(t)) => data = "null" /\ ready = 0 /\ freed = 0
  /\ ready > 0 => data = "null" /\ freed = 0
  /\ data = "fsm" => freed = 0
  /\ ready <= 1 /\ freed <= 1
  /\ \/ data = "fsm" \/ ready = 1 \/ freed = 1
     \/ \E t \in Threads : Holds(t)

(* No thread is inside an operation and the box is in nobody's hands. *)
Quiet == ready = 0 /\ \A t \in Threads : pc[t] = "out"

(* A closed machine is freed as soon as nobody works on it: whichever of clear *)
(* and release comes second frees it, and neither relies on the other to.      *)
ClosedIsFreed == Quiet /\ status = "drop" => freed = 1

(* When the last clone of its mailbox is gone a machine that nobody polls is  *)
(* freed.  A control machine that was scheduled once keeps a clone of its own *)
(* mailbox inside its own cell (release_control does not take it out), so     *)
(* that one is freed only if it was closed.                                   *)
NoLeak ==
  (Quiet /\ \A t \in Threads : handles[t] = 0)
    => freed = 1 \/ (Control /\ own = 1 /\ status = "idle")

(* Where the machine is in the eyes of the rest of the batch system. *)
Whereabouts == IF freed > 0 THEN "freed" ELSE IF status = "idle" THEN "parked" ELSE "moving"

(* The cell keeps the promise of FsmOwnership: the machine is never parked again *)
(* once it is closed, and never taken again once it is freed.                    *)
Ownership == INSTANCE FsmOwnership WITH place <- Whereabouts, closed <- status = "drop"

OwnershipSpec == Ownership!Spec

=============================================================================
