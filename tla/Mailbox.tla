------------------------------ MODULE Mailbox ------------------------------
(***************************************************************************)
(* One machine behind its mailbox (mailbox.rs, mpsc/mod.rs): senders push  *)
(* to its queue and notify it, closers close the queue and then the cell,  *)
(* and pollers run the rounds of Poller::poll on it (batch.rs) with the    *)
(* Handler of test_runner.rs.                                              *)
(*                                                                         *)
(* A send and a poll meet without a lock: the sender pushes and then looks *)
(* at the status word, the poller writes the status word and then looks at *)
(* the queue.  The module extends FsmState and says, for each of its       *)
(* actions, what the mailbox and the poller do in the same step; the queue *)
(* is a pair of counters.                                                  *)
(*                                                                         *)
(* Control is TRUE for the control machine, which poll releases and        *)
(* removes; FALSE for a normal one, for which poll only records what it    *)
(* would do, so that the machine stays in the batch.                       *)
(***************************************************************************)
EXTENDS FsmState

CONSTANTS
  Pollers,     (* the threads that run Poller::poll; the others are clients *)
  Burst,       (* messages that one call of the handler takes at most (16)  *)
  MaxSend      (* bound of the model: no send starts after so many messages *)

ASSUME MailboxAssumption ==
  /\ Pollers \subseteq Threads
  /\ Burst \in Nat
  /\ MaxSend \in Nat

VARIABLES
  link,       (* State.connected of the queue: "open" or "closed"           *)
  sent,       (* messages ever pushed into the queue                        *)
  handled,    (* messages ever received by the handler                      *)
  stopped,    (* Fsm::is_stopped of the machine: "no" or "yes"              *)
  at,         (* where each thread is outside of FsmState                   *)
  left        (* messages that a running handler call may still take        *)

mailboxVars == <<link, sent, handled, stopped, at, left>>
allVars == <<vars, mailboxVars>>

Clients == Threads \ Pollers

Stops ==
  {"idle",        (* client: in no call; poller: waiting in recv              *)
   "pushing",     (* send: the queue was connected, the message is not in yet *)
   "pushed",      (* send: the message is in, notify comes next               *)
   "closing",     (* close: the queue is closed, clear comes next             *)
   "handling",    (* poll: inside the handler                                 *)
   "handled",     (* poll: the handler returned                               *)
   "removing",    (* remove_control: the queue was empty                      *)
   "removed",     (* remove_control: inside release                           *)
   "releasing",   (* release_control: inside release, the queue comes next    *)
   "retaking",    (* release_control: the queue had grown                     *)
   "ended"}       (* poll has returned or panicked                            *)

(* Every poller owns a clone of the router, and the control mailbox with it. *)
MailboxInit ==
  /\ Init
  /\ Control => \A p \in Pollers : handles[p] > 0
  /\ link = "open"
  /\ sent = 0
  /\ handled = 0
  /\ stopped = "no"
  /\ at = [t \in Threads |-> "idle"]
  /\ left = [t \in Threads |-> Burst]

Move(t, from, to) ==
  /\ at[t] = from
  /\ at' = [at EXCEPT ![t] = to]

(* Dropping the machine drops its Receiver, and that disconnects the queue. *)
Disconnected == IF freed' = 0 THEN link ELSE "closed"

-----------------------------------------------------------------------------
(* try_send and force_send.  A full mailbox refuses a try_send before it has *)
(* touched anything, so a refused send is no step here.                      *)

(* Sender::send looks at the flag, *)
SendCheck(t) ==
  /\ t \in Clients
  /\ pc[t] = "out"
  /\ handles[t] > 0
  /\ link = "open"
  /\ sent < MaxSend
  /\ Move(t, "idle", "pushing")
  /\ UNCHANGED <<vars, link, sent, handled, stopped, left>>

(* Mutant: the channel takes messages without its Receiver. *)
SendPushAnyway(t) ==
  /\ Move(t, "pushing", "pushed")
  /\ sent' = sent + 1
  /\ UNCHANGED <<vars, link, handled, stopped, left>>

(* and then sends to the channel, which fails when the Receiver is gone. *)
SendPush(t) ==
  /\ Move(t, "pushing", IF freed = 0 THEN "pushed" ELSE "idle")
  /\ sent' = IF freed = 0 THEN sent + 1 ELSE sent
  /\ UNCHANGED <<vars, link, handled, stopped, left>>

(* notify gets the machine, and goes on in FsmState, *)
SendNotify(t) ==
  /\ Move(t, "pushed", "idle")
  /\ NotifyCas(t)
  /\ UNCHANGED <<link, sent, handled, stopped, left>>

(* Mutant: notify may give up for no reason, as compare_exchange_weak does. *)
SendMissWeak(t) ==
  /\ Move(t, "pushed", "idle")
  /\ UNCHANGED <<vars, link, sent, handled, stopped, left>>

(* or leaves it to the thread that has it. *)
SendMiss(t) ==
  /\ Move(t, "pushed", "idle")
  /\ status # "idle"
  /\ UNCHANGED <<vars, link, sent, handled, stopped, left>>

SendTake(t) ==
  /\ NotifySwap(t)
  /\ UNCHANGED mailboxVars

SendSchedule(t) ==
  /\ Schedule(t)
  /\ link' = Disconnected
  /\ UNCHANGED <<sent, handled, stopped, at, left>>

-----------------------------------------------------------------------------
(* close *)

CloseSender(t) ==
  /\ t \in Clients
  /\ pc[t] = "out"
  /\ handles[t] > 0
  /\ Move(t, "idle", "closing")
  /\ link' = "closed"
  /\ UNCHANGED <<vars, sent, handled, stopped, left>>

CloseClear(t) ==
  /\ Move(t, "closing", "idle")
  /\ ClearSwap(t)
  /\ UNCHANGED <<link, sent, handled, stopped, left>>

CloseFree(t) ==
  /\ ClearFree(t)
  /\ link' = Disconnected
  /\ UNCHANGED <<sent, handled, stopped, at, left>>

(* A client gives up its clone of the mailbox, and so does a poller whose thread is over. *)
Forget(t) ==
  /\ at[t] = IF t \in Clients THEN "idle" ELSE "ended"
  /\ DropHandle(t)
  /\ link' = Disconnected
  /\ UNCHANGED <<sent, handled, stopped, at, left>>

-----------------------------------------------------------------------------
(* The poller *)

(* fetch_fsm gets the machine out of the channel; begin. *)
PollFetch(p) ==
  /\ p \in Pollers
  /\ Move(p, "idle", "handling")
  /\ Fetch(p)
  /\ left' = [left EXCEPT ![p] = Burst]
  /\ UNCHANGED <<link, sent, handled, stopped>>

(* The handler takes a message; handling it may stop the machine. *)
PollHandle(p) ==
  /\ at[p] = "handling"
  /\ pc[p] = "has"
  /\ left[p] > 0
  /\ handled < sent
  /\ handled' = handled + 1
  /\ left' = [left EXCEPT ![p] = @ - 1]
  /\ stopped' \in {stopped, "yes"}
  /\ UNCHANGED <<vars, link, sent, at>>

(* It returns Some(0) after Burst messages or when the queue was empty. *)
PollReturn(p) ==
  /\ Move(p, "handling", "handled")
  /\ pc[p] = "has"
  /\ left[p] = 0 \/ handled = sent
  /\ UNCHANGED <<vars, link, sent, handled, stopped, left>>

(* The machine stays in the batch: a normal one does, and a control machine that is *)
(* stopped and has messages left.                                                   *)
Stays == ~Control \/ (stopped = "yes" /\ handled < sent)

(* The next round of poll with the machine still in the batch.  fetch_fsm does *)
(* not wait then.                                                              *)
NextRound(p) ==
  /\ Move(p, "handled", "handling")
  /\ Stays
  /\ left' = [left EXCEPT ![p] = Burst]
  /\ UNCHANGED <<vars, link, sent, handled, stopped>>

(* remove_control: a stopped machine with an empty queue is released, *)
RemoveCheck(p) ==
  /\ Control
  /\ stopped = "yes"
  /\ handled = sent
  /\ Move(p, "handled", "removing")
  /\ UNCHANGED <<vars, link, sent, handled, stopped, left>>

RemoveRelease(p) ==
  /\ Move(p, "removing", "removed")
  /\ ReleaseSwap(p)
  /\ UNCHANGED <<link, sent, handled, stopped, left>>

(* without another look at the queue. *)
RemoveEnd(p) ==
  /\ Move(p, "removed", "idle")
  /\ ReleaseEnd(p)
  /\ UNCHANGED <<link, sent, handled, stopped, left>>

(* release_control with a checked_len of 0. *)
Release(p) ==
  /\ Control
  /\ stopped = "no"
  /\ Move(p, "handled", "releasing")
  /\ ReleaseSwap(p)
  /\ UNCHANGED <<link, sent, handled, stopped, left>>

(* The middle of FsmState::release, for both. *)
PollStore(p) ==
  /\ ReleaseCas(p)
  /\ UNCHANGED mailboxVars

PollDrop(p) ==
  /\ ReleaseDrop(p)
  /\ link' = Disconnected
  /\ UNCHANGED <<sent, handled, stopped, at, left>>

(* Mutant: release_control does not look at the queue again. *)
ReleaseDoneBlind(p) ==
  /\ Move(p, "releasing", "idle")
  /\ ReleaseEnd(p)
  /\ UNCHANGED <<link, sent, handled, stopped, left>>

(* len == checked_len: the machine is out of the batch. *)
ReleaseDone(p) ==
  /\ Move(p, "releasing", "idle")
  /\ handled = sent
  /\ ReleaseEnd(p)
  /\ UNCHANGED <<link, sent, handled, stopped, left>>

(* The queue grew meanwhile: take_fsm, *)
ReleaseGrown(p) ==
  /\ pc[p] = "released"
  /\ handled # sent
  /\ Move(p, "releasing", "retaking")
  /\ UNCHANGED <<vars, link, sent, handled, stopped, left>>

(* which gets the machine back into the batch, for the next round, *)
RetakeWon(p) ==
  /\ Move(p, "retaking", "handling")
  /\ RetakeCas(p)
  /\ left' = [left EXCEPT ![p] = Burst]
  /\ UNCHANGED <<link, sent, handled, stopped>>

RetakeTake(p) ==
  /\ RetakeSwap(p)
  /\ UNCHANGED mailboxVars

(* or finds that another thread notified or closed it. *)
RetakeLost(p) ==
  /\ status # "idle"
  /\ Move(p, "retaking", "idle")
  /\ ReleaseEnd(p)
  /\ UNCHANGED <<link, sent, handled, stopped, left>>

-----------------------------------------------------------------------------
(* The end of poll.  A poller that receives an Empty ends its round and clears the *)
(* batch, one in which a callback panics unwinds and drops the batch; both may     *)
(* happen with or without the machine in it.  The Empty entries are not counted    *)
(* here: a poller may end when it likes.                                           *)

(* The machine is elsewhere. *)
PollEnd(p) ==
  /\ p \in Pollers
  /\ pc[p] = "out"
  /\ Move(p, "idle", "ended")
  /\ UNCHANGED <<vars, link, sent, handled, stopped, left>>

(* The poller has the machine, and is not just about to release it. *)
PollEndDropping(p) ==
  /\ at[p] = "handling" \/ (at[p] = "handled" /\ Stays)
  /\ at' = [at EXCEPT ![p] = "ended"]
  /\ Discard(p)
  /\ link' = Disconnected
  /\ UNCHANGED <<sent, handled, stopped, left>>

(* No poller is left. *)
Over == \A p \in Pollers : at[p] = "ended"

(* The batch system is dropped after them, and the channel with its Receivers. *)
DropSystem ==
  /\ Over
  /\ Disconnect
  /\ link' = Disconnected
  /\ UNCHANGED <<sent, handled, stopped, at, left>>

-----------------------------------------------------------------------------
(* What a thread does by itself once it is in a call, or polls. *)
Continue(t) ==
  \/ SendPush(t)    \/ SendNotify(t)   \/ SendMiss(t)    \/ SendTake(t) \/ SendSchedule(t)
  \/ CloseClear(t)  \/ CloseFree(t)
  \/ PollFetch(t)   \/ PollHandle(t)   \/ PollReturn(t)  \/ NextRound(t)
  \/ RemoveCheck(t) \/ RemoveRelease(t) \/ RemoveEnd(t)
  \/ Release(t)     \/ PollStore(t)    \/ PollDrop(t)
  \/ ReleaseDone(t) \/ ReleaseGrown(t) \/ RetakeWon(t)   \/ RetakeTake(t) \/ RetakeLost(t)

(* What a client starts when it likes, and what ends a poller. *)
Start(t) == SendCheck(t) \/ CloseSender(t) \/ Forget(t)

End(p) == PollEnd(p) \/ PollEndDropping(p)

MailboxNext ==
  \/ \E t \in Threads : Start(t) \/ Continue(t) \/ End(t)
  \/ DropSystem

MailboxSpec == MailboxInit /\ [][MailboxNext]_allVars

(* The operating system runs every thread, and a handler returns.  A poller goes on until *)
(* it ends; nothing says that it does, or that it does not.                               *)
FairMailboxSpec == MailboxSpec /\ \A t \in Threads : WF_allVars(Continue(t))

-----------------------------------------------------------------------------
(* Properties *)

(* The type invariant of the queue and of the calls around the cell. *)
MailboxTypeOK ==
  /\ link \in {"open", "closed"}
  /\ sent \in Nat
  /\ handled \in 0..sent
  /\ stopped \in {"no", "yes"}
  /\ at \in [Threads -> Stops]
  /\ left \in [Threads -> 0..Burst]

(* No wakeup is lost: when a machine that is not stopped is parked over a message, *)
(* somebody is still about to look, be it the sender that will notify or the       *)
(* poller that will compare the length of the queue (release_control,              *)
(* batch.rs:253).                                                                  *)
NoLostWakeup ==
  (status = "idle" /\ handled < sent /\ freed = 0 /\ stopped = "no")
    => \E t \in Threads : \/ at[t] \in {"pushed", "retaking"}
                          \/ at[t] = "releasing" /\ pc[t] = "released"

(* When nobody is in a call and no poller has the machine, its queue is empty, unless *)
(* it was stopped or freed.                                                           *)
RestIsHandled ==
  (Quiet /\ \A t \in Threads : at[t] \in {"idle", "ended"})
    => handled = sent \/ stopped = "yes" \/ freed > 0

(* Mailbox and poller keep the promise of FsmDelivery: the handler takes messages only *)
(* while the machine is out of its cell, and with the machine freed nobody adds any.   *)
Delivery == INSTANCE FsmDelivery WITH place <- Whereabouts, closed <- status = "drop"

DeliverySpec == Delivery!DeliverySpec

(* Every message that the queue has accepted is handled, unless the machine is *)
(* stopped or freed first, or no poller is left.                               *)
Delivered ==
  \A n \in 1..MaxSend : sent >= n ~> handled >= n \/ freed > 0 \/ stopped = "yes" \/ Over

(* "Close should release resources." (test_route.rs:98)  A closed machine is freed, also *)
(* while the pollers end.  The exception is a machine that a sender took before the      *)
(* close and scheduled too late: no poller is left to receive it (poll, batch.rs:331),   *)
(* and it stays in the channel until the batch system is dropped.                        *)
CloseReleases == status = "drop" ~> freed = 1 \/ (Over /\ ready > 0)

=============================================================================
