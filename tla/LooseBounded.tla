---------------------------- MODULE LooseBounded ----------------------------
(***************************************************************************)
(* The message channel (mpsc/mod.rs): a queue without bound, a flag and a  *)
(* count of its senders, and senders that look at their limit only now and *)
(* then.  A LooseBoundedSender has a Cell and so is used by one thread at  *)
(* a time; its clones are used by any number of threads.                   *)
(*                                                                         *)
(* The queue is crossbeam's: a push fails when the receiver is gone, and   *)
(* the receiver's end takes what is queued with it.  Messages are counted. *)
(* A try_send that returns Full changes nothing and is no step.            *)
(***************************************************************************)
EXTENDS Naturals, FiniteSets

CONSTANTS
  Clones,         (* senders that are ever made, by loose_bounded or clone *)
  CheckInterval,  (* CHECK_INTERVAL (8)                                    *)
  Limit,          (* LooseBoundedSender.limit                              *)
  MaxForced       (* bound of the model: force_sends beyond the interval   *)

ASSUME LooseBoundedAssumption ==
  /\ IsFiniteSet(Clones)
  /\ CheckInterval \in Nat \ {0}
  /\ Limit \in Nat
  /\ MaxForced \in Nat

VARIABLES
  connected,   (* State.connected                                          *)
  senderCnt,   (* State.sender_cnt                                         *)
  queued,      (* messages in the queue                                    *)
  tried,       (* tried_cnt of each clone                                  *)
  pc,          (* where the thread that uses the clone is                  *)
  receiver,    (* the Receiver: "open", "dropping" or "gone"               *)
  closed,      (* history: somebody called close_sender                    *)
  forced       (* history: force_sends of clones that were due for a look  *)

vars == <<connected, senderCnt, queued, tried, pc, receiver, closed, forced>>

Points ==
  {"unborn",
   "idle",      (* not in a call                                          *)
   "flag",      (* Sender::send: about to load the flag                   *)
   "push",      (* Sender::send: it was true                              *)
   "closing",   (* Sender::drop: it was the last, and closes              *)
   "leaving",   (* drop has returned; crossbeam's sender goes next        *)
   "gone"}

Init ==
  /\ connected = TRUE
  /\ senderCnt = 1
  /\ queued = 0
  /\ tried = [c \in Clones |-> 0]
  /\ \E first \in Clones : pc = [c \in Clones |-> IF c = first THEN "idle" ELSE "unborn"]
  /\ receiver = "open"
  /\ closed = FALSE
  /\ forced = 0

Goto(c, from, to) == pc[c] = from /\ pc' = [pc EXCEPT ![c] = to]

Due(c) == tried[c] >= CheckInterval

-----------------------------------------------------------------------------
(* Sending *)

ForceSend(c) ==
  /\ Goto(c, "idle", "flag")
  /\ Due(c) => forced < MaxForced
  /\ tried' = [tried EXCEPT ![c] = @ + 1]
  /\ forced' = IF Due(c) THEN forced + 1 ELSE forced
  /\ UNCHANGED <<connected, senderCnt, queued, receiver, closed>>

(* try_send, when the clone is not due: *)
TrySend(c) ==
  /\ ~Due(c)
  /\ Goto(c, "idle", "flag")
  /\ tried' = [tried EXCEPT ![c] = @ + 1]
  /\ UNCHANGED <<connected, senderCnt, queued, receiver, closed, forced>>

(* Mutant: the send that looked is not counted. *)
TrySendRestart(c) ==
  /\ Due(c)
  /\ queued < Limit
  /\ Goto(c, "idle", "flag")
  /\ tried' = [tried EXCEPT ![c] = 0]
  /\ UNCHANGED <<connected, senderCnt, queued, receiver, closed, forced>>

(* and when it is due and finds room. *)
TrySendLook(c) ==
  /\ Due(c)
  /\ queued < Limit
  /\ Goto(c, "idle", "flag")
  /\ tried' = [tried EXCEPT ![c] = 1]
  /\ UNCHANGED <<connected, senderCnt, queued, receiver, closed, forced>>

(* Mutant: the flag is not looked at. *)
LoadNothing(c) ==
  /\ Goto(c, "flag", "push")
  /\ UNCHANGED <<connected, senderCnt, queued, tried, receiver, closed, forced>>

(* Sender::send loads the flag, *)
LoadFlag(c) ==
  /\ Goto(c, "flag", IF connected THEN "push" ELSE "idle")
  /\ UNCHANGED <<connected, senderCnt, queued, tried, receiver, closed, forced>>

(* and pushes, which fails only without a receiver. *)
Push(c) ==
  /\ Goto(c, "push", "idle")
  /\ queued' = IF receiver = "gone" THEN queued ELSE queued + 1
  /\ UNCHANGED <<connected, senderCnt, tried, receiver, closed, forced>>

-----------------------------------------------------------------------------
(* Clones, and both ends' disconnection *)

(* Mutant: a clone is not counted. *)
CloneUncounted(c, d) ==
  /\ pc[c] = "idle"
  /\ Goto(d, "unborn", "idle")
  /\ tried' = [tried EXCEPT ![d] = tried[c]]
  /\ UNCHANGED <<connected, senderCnt, queued, receiver, closed, forced>>

(* The clone starts with a copy of the count of tries. *)
Clone(c, d) ==
  /\ pc[c] = "idle"
  /\ Goto(d, "unborn", "idle")
  /\ senderCnt' = senderCnt + 1
  /\ tried' = [tried EXCEPT ![d] = tried[c]]
  /\ UNCHANGED <<connected, queued, receiver, closed, forced>>

CloseSender(c) ==
  /\ pc[c] = "idle"
  /\ connected' = FALSE
  /\ closed' = TRUE
  /\ UNCHANGED <<senderCnt, queued, tried, pc, receiver, forced>>

(* Sender::drop decrements; who saw 1 closes, and then the fields are dropped. *)
Drop(c) ==
  /\ Goto(c, "idle", IF senderCnt = 1 THEN "closing" ELSE "leaving")
  /\ senderCnt' = senderCnt - 1
  /\ UNCHANGED <<connected, queued, tried, receiver, closed, forced>>

(* Mutant: the closing thread decrements once more. *)
DropLastAgain(c) ==
  /\ Goto(c, "closing", "leaving")
  /\ connected' = FALSE
  /\ senderCnt' = senderCnt - 1
  /\ UNCHANGED <<queued, tried, receiver, closed, forced>>

DropLast(c) ==
  /\ Goto(c, "closing", "leaving")
  /\ connected' = FALSE
  /\ UNCHANGED <<senderCnt, queued, tried, receiver, closed, forced>>

Leave(c) ==
  /\ Goto(c, "leaving", "gone")
  /\ UNCHANGED <<connected, senderCnt, queued, tried, receiver, closed, forced>>

Recv ==
  /\ receiver = "open"
  /\ queued > 0
  /\ queued' = queued - 1
  /\ UNCHANGED <<connected, senderCnt, tried, pc, receiver, closed, forced>>

(* Receiver::drop stores the flag; then crossbeam's receiver goes. *)
DropReceiver ==
  /\ receiver = "open"
  /\ receiver' = "dropping"
  /\ connected' = FALSE
  /\ UNCHANGED <<senderCnt, queued, tried, pc, closed, forced>>

ReceiverLeaves ==
  /\ receiver = "dropping"
  /\ receiver' = "gone"
  /\ queued' = 0
  /\ UNCHANGED <<connected, senderCnt, tried, pc, closed, forced>>

-----------------------------------------------------------------------------
Sending(c) == ForceSend(c) \/ TrySend(c) \/ TrySendLook(c) \/ LoadFlag(c) \/ Push(c)

Leaving(c) == CloseSender(c) \/ Drop(c) \/ DropLast(c) \/ Leave(c)

Next ==
  \/ \E c \in Clones : Sending(c) \/ Leaving(c) \/ \E d \in Clones : Clone(c, d)
  \/ Recv \/ DropReceiver \/ ReceiverLeaves

Spec == Init /\ [][Next]_vars

-----------------------------------------------------------------------------
(* Properties *)

(* The type invariant of the channel's state and of its senders. *)
TypeOK ==
  /\ connected \in BOOLEAN
  /\ senderCnt \in Nat
  /\ queued \in Nat
  /\ tried \in [Clones -> Nat]
  /\ pc \in [Clones -> Points]
  /\ receiver \in {"open", "dropping", "gone"}
  /\ closed \in BOOLEAN
  /\ forced \in Nat

(* How loose the bound is: the queue holds less than the limit and one interval *)
(* of messages per clone that was ever made, but for messages that were forced  *)
(* past it.  Every clone counts for itself and looks at a length that others    *)
(* are changing.                                                                *)
LooseBound ==
  queued <= (IF Limit = 0 THEN 0 ELSE Limit - 1)
              + Cardinality(Clones \X (1..CheckInterval)) + forced

Counted == {c \in Clones : pc[c] \in {"idle", "flag", "push"}}

(* The flag tells the truth about the ends: it is lowered only by close_sender, by *)
(* the receiver's drop, or by the last clone, though clones come and go; and it is *)
(* down once the last clone's drop has returned.                                   *)
FlagHonest ==
  /\ ~connected => closed \/ receiver # "open" \/ Counted = {}
  /\ (\A c \in Clones : pc[c] \in {"unborn", "leaving", "gone"}) => ~connected

Pushing == {c \in Clones : pc[c] = "push"}

(* Once disconnected the channel accepts at most one more message of each clone, *)
(* namely of those that had loaded the flag before, and never connects again.    *)
ClosedQuiets ==
  [][~connected => /\ ~connected'
                   /\ Pushing' \subseteq Pushing
                   /\ queued' > queued => Pushing' # Pushing]_vars

=============================================================================
