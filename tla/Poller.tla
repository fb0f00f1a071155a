------------------------------- MODULE Poller -------------------------------
(***************************************************************************)
(* The poller threads of a spawned batch system (batch.rs): the schedulers' *)
(* two channels, Poller::poll with its batch, and the shutdown that stops   *)
(* the threads.  The handler is the one of test_runner.rs.                  *)
(*                                                                          *)
(* A machine is as coarse here as FsmOwnership allows: parked, moving or    *)
(* freed, with a number of messages.  FsmState and Mailbox show that the    *)
(* code's atomic accesses amount to that.                                   *)
(*                                                                          *)
(* poll collects in reschedule_fsms what it should release, remove or       *)
(* reschedule, and never looks at it again, so there is no variable for it, *)
(* nor for the timers that only feed it: a normal machine leaves the batch  *)
(* when the poller ends.                                                    *)
(***************************************************************************)
EXTENDS Naturals, Sequences, FiniteSets, Functions

CONSTANTS
  Normals,      (* normal machines that are registered                        *)
  LowNormals,   (* those of Priority::Low                                     *)
  ControlFsm,   (* the control machine                                        *)
  Pollers,      (* poller threads                                             *)
  LowPollers,   (* those that start_poller gave the low_receiver              *)
  Empty,        (* FsmTypes::Empty                                            *)
  MaxBatch,     (* Config::max_batch_size                                     *)
  Burst,        (* messages that one call of the handler takes at most (16)   *)
  Empties,      (* Empty entries that one scheduler sends to a channel (100)  *)
  MaxSend,      (* bound of the model: messages per machine                   *)
  MaxCalls      (* bound of the model: the metrics count up to this           *)

Machines == Normals \cup {ControlFsm}

ASSUME PollerAssumption ==
  /\ LowNormals \subseteq Normals
  /\ LowPollers \subseteq Pollers /\ IsFiniteSet(Pollers)
  /\ ControlFsm \notin Normals
  /\ Empty \notin Machines
  /\ MaxBatch \in Nat /\ Burst \in Nat /\ Empties \in Nat
  /\ MaxSend \in Nat /\ MaxCalls \in Nat

VARIABLES
  sent,        (* messages pushed into each queue                             *)
  handled,     (* messages taken out of it by a handler                       *)
  place,       (* each machine: "parked", "moving" or "freed"                 *)
  closed,      (* each mailbox: closed or not                                 *)
  notifying,   (* machines whose senders have pushed and not yet notified     *)
  inHand,      (* machines that a sender took and has not yet scheduled       *)
  chan,        (* the two channels of the schedulers                          *)
  at,          (* each poller: where in poll it is                            *)
  normals,     (* the normal machines of its batch                            *)
  control,     (* whether its batch has the control machine                   *)
  next,        (* the normal machine to handle next: i, then fsm_cnt, from 1  *)
  size,        (* max_batch_size of its round                                 *)
  shut,        (* broadcast_shutdown: "no", "closing" or "posting"            *)
  posted,      (* Empty entries that the shutdown sent to each channel        *)
  calls        (* HandleMetrics: calls of begin, handle_control, handle_normal *)

batch == <<normals, control, next, size>>
vars == <<sent, handled, place, closed, notifying, inHand, chan, at, batch, shut, posted, calls>>

Priorities == {"normal", "low"}

PriorityOf(m) == IF m \in LowNormals THEN "low" ELSE "normal"

(* start_poller: the channel that the poller receives from. *)
ChannelOf(p) == IF p \in LowPollers THEN "low" ELSE "normal"

(* PollHandler::get_priority, which Handler does not override. *)
HandlerPriority(p) == "normal"

Steps ==
  {"fetch",     (* at the head of the loop, in fetch_fsm                       *)
   "control",   (* begin was called; handle_control comes next                 *)
   "release",   (* handle_control returned                                     *)
   "check",     (* release_control: the control machine is back in its mailbox *)
   "retake",    (* release_control: its queue had grown; take_fsm comes next   *)
   "normals",   (* handling the normal machines of the batch, one by one       *)
   "more",      (* looking for more machines while the batch is not full       *)
   "extra",     (* got one more                                                *)
   "stopped",   (* poll has returned                                           *)
   "panicked"}  (* assert!(self.control.is_none())                             *)

Metrics == {"begin", "control", "normal"}

Init ==
  /\ sent = [m \in Machines |-> 0]
  /\ handled = [m \in Machines |-> 0]
  /\ place = [m \in Machines |-> "parked"]
  /\ closed = [m \in Machines |-> FALSE]
  /\ notifying = {}
  /\ inHand = {}
  /\ chan = [k \in Priorities |-> <<>>]
  /\ at = [p \in Pollers |-> "fetch"]
  /\ normals = [p \in Pollers |-> <<>>]
  /\ control = [p \in Pollers |-> FALSE]
  /\ next = [p \in Pollers |-> 1]
  /\ size = [p \in Pollers |-> MaxBatch]
  /\ shut = "no"
  /\ posted = 0
  /\ calls = [c \in Metrics |-> 0]

-----------------------------------------------------------------------------
(* Senders *)

(* The message is in the queue, also when the mailbox was closed after the sender had *)
(* looked.  Bound of the model: one sender per machine at a time.                     *)
Push(m) ==
  /\ place[m] # "freed"
  /\ m \notin notifying
  /\ sent[m] < MaxSend
  /\ sent' = [sent EXCEPT ![m] = @ + 1]
  /\ notifying' = notifying \cup {m}
  /\ UNCHANGED <<handled, place, closed, inHand, chan, at, batch, shut, posted, calls>>

(* Mutant: notify takes the machine wherever it is. *)
NotifyAlways(m) ==
  /\ m \in notifying
  /\ notifying' = notifying \ {m}
  /\ place' = [place EXCEPT ![m] = "moving"]
  /\ inHand' = inHand \cup {m}
  /\ UNCHANGED <<sent, handled, closed, chan, at, batch, shut, posted, calls>>

(* Mutant: notify may give up for no reason, as compare_exchange_weak does. *)
NotifyWeak(m) ==
  /\ m \in notifying
  /\ notifying' = notifying \ {m}
  /\ \/ /\ place[m] = "parked"
        /\ place' = [place EXCEPT ![m] = "moving"]
        /\ inHand' = inHand \cup {m}
     \/ UNCHANGED <<place, inHand>>
  /\ UNCHANGED <<sent, handled, closed, chan, at, batch, shut, posted, calls>>

(* notify takes the machine if it is parked. *)
Notify(m) ==
  /\ m \in notifying
  /\ notifying' = notifying \ {m}
  /\ IF place[m] = "parked"
       THEN /\ place' = [place EXCEPT ![m] = "moving"]
            /\ inHand' = inHand \cup {m}
       ELSE UNCHANGED <<place, inHand>>
  /\ UNCHANGED <<sent, handled, closed, chan, at, batch, shut, posted, calls>>

(* Mutant: schedule does not look at the priority. *)
ScheduleNormal(m) ==
  /\ m \in inHand
  /\ inHand' = inHand \ {m}
  /\ chan' = [chan EXCEPT !["normal"] = Append(@, m)]
  /\ UNCHANGED <<sent, handled, place, closed, notifying, at, batch, shut, posted, calls>>

(* FsmScheduler::schedule, to the channel of the machine's priority. *)
Schedule(m) ==
  /\ m \in inHand
  /\ inHand' = inHand \ {m}
  /\ chan' = [chan EXCEPT ![PriorityOf(m)] = Append(@, m)]
  /\ UNCHANGED <<sent, handled, place, closed, notifying, at, batch, shut, posted, calls>>

-----------------------------------------------------------------------------
(* Closing *)

(* BasicMailbox::close: a parked machine is freed, one that is moving is freed when it is *)
(* released.                                                                              *)
CloseMailbox(m) ==
  /\ ~closed[m]
  /\ closed' = [closed EXCEPT ![m] = TRUE]
  /\ place' = [place EXCEPT ![m] = IF @ = "parked" THEN "freed" ELSE @]
  /\ UNCHANGED <<sent, handled, notifying, inHand, chan, at, batch, posted, calls>>

(* Router::close of an address, or a register that replaces its mailbox: at any time. *)
(* Bound of the model: the machine of the new mailbox is not one of these.            *)
CloseNormal(m) ==
  /\ m \in Normals
  /\ CloseMailbox(m)
  /\ UNCHANGED shut

(* broadcast_shutdown *)
Shutdown ==
  /\ shut = "no"
  /\ shut' = "closing"
  /\ UNCHANGED <<sent, handled, place, closed, notifying, inHand, chan, at, batch, posted, calls>>

(* Each mailbox of the drained map is closed, then the control mailbox. *)
Close(m) ==
  /\ shut = "closing"
  /\ m = ControlFsm => \A n \in Normals : closed[n]
  /\ CloseMailbox(m)
  /\ shut' = IF m = ControlFsm THEN "posting" ELSE shut

(* Mutant: one iteration too many. *)
PostInclusive ==
  /\ shut = "posting"
  /\ posted <= 2 * Empties
  /\ posted' = posted + 1
  /\ chan' = [k \in Priorities |-> Append(chan[k], Empty)]
  /\ UNCHANGED <<sent, handled, place, closed, notifying, inHand, at, batch, shut, calls>>

(* Mutant: broadcast_shutdown forgets one of the schedulers. *)
PostOnce ==
  /\ shut = "posting"
  /\ posted < Empties
  /\ posted' = posted + 1
  /\ chan' = [k \in Priorities |-> Append(chan[k], Empty)]
  /\ UNCHANGED <<sent, handled, place, closed, notifying, inHand, at, batch, shut, calls>>

(* Each scheduler sends its Empty entries to both channels. *)
Post ==
  /\ shut = "posting"
  /\ posted < 2 * Empties
  /\ posted' = posted + 1
  /\ chan' = [k \in Priorities |-> Append(chan[k], Empty)]
  /\ UNCHANGED <<sent, handled, place, closed, notifying, inHand, at, batch, shut, calls>>

-----------------------------------------------------------------------------
(* Poller::poll *)

(* HandleMetrics saturates in the model. *)
Count(metric) == [calls EXCEPT ![metric] = IF @ < MaxCalls THEN @ + 1 ELSE @]

Queue(p) == chan[ChannelOf(p)]

(* try_recv or recv takes the first entry. *)
Receive(p) == chan' = [chan EXCEPT ![ChannelOf(p)] = Tail(@)]

Goto(p, from, to) == at[p] = from /\ at' = [at EXCEPT ![p] = to]

(* batch.push of a normal machine. *)
PushNormal(p) == normals' = [normals EXCEPT ![p] = Append(@, Head(Queue(p)))]

(* handler.begin with the size of the round, and what comes first in it. *)
Begin(p, length, hasControl) ==
  /\ Goto(p, "fetch", IF hasControl THEN "control" ELSE "normals")
  /\ size' = [size EXCEPT ![p] = IF length > MaxBatch THEN length ELSE MaxBatch]
  /\ next' = [next EXCEPT ![p] = 1]
  /\ calls' = Count("begin")

(* The poller drops the machines that it has: batch.clear. *)
Clear(p) ==
  /\ place' = [m \in Machines |->
                 IF m \in Range(normals[p]) \/ (m = ControlFsm /\ control[p])
                   THEN "freed" ELSE place[m]]
  /\ normals' = [normals EXCEPT ![p] = <<>>]
  /\ control' = [control EXCEPT ![p] = FALSE]

(* fetch_fsm returns true without receiving: the batch has the control machine, *)
(* or normal ones while the channel is empty.                                   *)
FetchNothing(p) ==
  /\ \/ control[p]
     \/ Queue(p) = <<>> /\ normals[p] # <<>>
  /\ Begin(p, Len(normals[p]), control[p])
  /\ UNCHANGED <<sent, handled, place, closed, notifying, inHand, chan, normals, control,
                 shut, posted>>

(* fetch_fsm receives a machine; an empty batch waits for one. *)
FetchNormal(p) ==
  /\ ~control[p]
  /\ Queue(p) # <<>> /\ Head(Queue(p)) \in Normals
  /\ Receive(p)
  /\ PushNormal(p)
  /\ Begin(p, Len(normals[p]) + 1, FALSE)
  /\ UNCHANGED <<sent, handled, place, closed, notifying, inHand, control, shut, posted>>

FetchControl(p) ==
  /\ ~control[p]
  /\ Queue(p) # <<>> /\ Head(Queue(p)) = ControlFsm
  /\ Receive(p)
  /\ control' = [control EXCEPT ![p] = TRUE]
  /\ Begin(p, Len(normals[p]), TRUE)
  /\ UNCHANGED <<sent, handled, place, closed, notifying, inHand, normals, shut, posted>>

(* fetch_fsm receives Empty, and the loop ends. *)
FetchEmpty(p) ==
  /\ Goto(p, "fetch", "stopped")
  /\ ~control[p]
  /\ Queue(p) # <<>> /\ Head(Queue(p)) = Empty
  /\ Receive(p)
  /\ Clear(p)
  /\ UNCHANGED <<sent, handled, closed, notifying, inHand, next, size, shut, posted, calls>>

(* Handler::handle: nobody else receives from the queue, so the messages that one *)
(* call takes might as well be taken at once.                                     *)
Handle(m) ==
  handled' = [handled EXCEPT ![m] =
                IF sent[m] - @ > Burst THEN @ + Burst ELSE sent[m]]

HandleControl(p) ==
  /\ Goto(p, "control", "release")
  /\ Handle(ControlFsm)
  /\ calls' = Count("control")
  /\ UNCHANGED <<sent, place, closed, notifying, inHand, chan, batch, shut, posted>>

(* Mutant: a closed machine is parked again. *)
ReleaseControlPark(p) ==
  /\ Goto(p, "release", "check")
  /\ place' = [place EXCEPT ![ControlFsm] = "parked"]
  /\ control' = [control EXCEPT ![p] = FALSE]
  /\ UNCHANGED <<sent, handled, closed, notifying, inHand, chan, normals, next, size,
                 shut, posted, calls>>

(* release_control: the machine is parked, or freed if its mailbox was closed. *)
ReleaseControl(p) ==
  /\ Goto(p, "release", "check")
  /\ place' = [place EXCEPT ![ControlFsm] = IF closed[ControlFsm] THEN "freed" ELSE "parked"]
  /\ control' = [control EXCEPT ![p] = FALSE]
  /\ UNCHANGED <<sent, handled, closed, notifying, inHand, chan, normals, next, size,
                 shut, posted, calls>>

(* The length of the control machine's queue.  With the machine its Receiver is gone, *)
(* and what was queued.                                                               *)
ControlLength ==
  IF place[ControlFsm] = "freed" THEN 0 ELSE sent[ControlFsm] - handled[ControlFsm]

(* Mutant: release_control never takes the machine again. *)
CheckControlNever(p) ==
  /\ Goto(p, "check", "normals")
  /\ UNCHANGED <<sent, handled, place, closed, notifying, inHand, chan, batch,
                 shut, posted, calls>>

(* release_control compares the length with that of the handler, which is 0. *)
CheckControl(p) ==
  /\ Goto(p, "check", IF ControlLength = 0 THEN "normals" ELSE "retake")
  /\ UNCHANGED <<sent, handled, place, closed, notifying, inHand, chan, batch,
                 shut, posted, calls>>

(* Mutant: release_control keeps the machine without taking it. *)
RetakeControlKeep(p) ==
  /\ Goto(p, "retake", "normals")
  /\ control' = [control EXCEPT ![p] = TRUE]
  /\ UNCHANGED <<sent, handled, place, closed, notifying, inHand, chan, normals, next, size,
                 shut, posted, calls>>

(* Messages came meanwhile: it is taken again, unless a sender or a close was faster. *)
RetakeControl(p) ==
  /\ Goto(p, "retake", "normals")
  /\ IF place[ControlFsm] = "parked"
       THEN /\ place' = [place EXCEPT ![ControlFsm] = "moving"]
            /\ control' = [control EXCEPT ![p] = TRUE]
       ELSE UNCHANGED <<place, control>>
  /\ UNCHANGED <<sent, handled, closed, notifying, inHand, chan, normals, next, size,
                 shut, posted, calls>>

(* The handler takes the machine that is next. *)
HandleNext(p) ==
  /\ Handle(normals[p][next[p]])
  /\ next' = [next EXCEPT ![p] = @ + 1]
  /\ calls' = Count("normal")
  /\ UNCHANGED <<sent, place, closed, notifying, inHand, chan, normals, control, size,
                 shut, posted>>

(* The machines that were in the batch when the round began. *)
HandleNormal(p) ==
  /\ Goto(p, "normals", "normals")
  /\ next[p] <= Len(normals[p])
  /\ HandleNext(p)

NormalsDone(p) ==
  /\ Goto(p, "normals", "more")
  /\ next[p] > Len(normals[p])
  /\ UNCHANGED <<sent, handled, place, closed, notifying, inHand, chan, batch,
                 shut, posted, calls>>

(* The batch has room and the channel a machine; *)
MoreNormal(p) ==
  /\ Goto(p, "more", "extra")
  /\ Len(normals[p]) < size[p]
  /\ Queue(p) # <<>> /\ Head(Queue(p)) \in Normals
  /\ Receive(p)
  /\ PushNormal(p)
  /\ UNCHANGED <<sent, handled, place, closed, notifying, inHand, control, next, size,
                 shut, posted, calls>>

(* a control machine is left for the next round, if there is not one already. *)
MoreControl(p) ==
  /\ Goto(p, "more", IF control[p] THEN "panicked" ELSE "fetch")
  /\ Len(normals[p]) < size[p]
  /\ Queue(p) # <<>> /\ Head(Queue(p)) = ControlFsm
  /\ Receive(p)
  /\ control' = [control EXCEPT ![p] = TRUE]
  /\ UNCHANGED <<sent, handled, place, closed, notifying, inHand, normals, next, size,
                 shut, posted, calls>>

HandleExtra(p) ==
  /\ Goto(p, "extra", "more")
  /\ HandleNext(p)

(* Mutant: the loop goes on after an Empty. *)
MoreEmptyOn(p) ==
  /\ Goto(p, "more", "fetch")
  /\ Len(normals[p]) < size[p]
  /\ Queue(p) # <<>> /\ Head(Queue(p)) = Empty
  /\ Receive(p)
  /\ UNCHANGED <<sent, handled, place, closed, notifying, inHand, batch, shut, posted, calls>>

(* The batch has room and the channel an Empty: the loop ends after this round. *)
MoreEmpty(p) ==
  /\ Goto(p, "more", "stopped")
  /\ Len(normals[p]) < size[p]
  /\ Queue(p) # <<>> /\ Head(Queue(p)) = Empty
  /\ Receive(p)
  /\ Clear(p)
  /\ UNCHANGED <<sent, handled, closed, notifying, inHand, next, size, shut, posted, calls>>

(* The batch is full or the channel empty: handler.end, and the next round. *)
MoreNothing(p) ==
  /\ Goto(p, "more", "fetch")
  /\ Len(normals[p]) >= size[p] \/ Queue(p) = <<>>
  /\ UNCHANGED <<sent, handled, place, closed, notifying, inHand, chan, batch,
                 shut, posted, calls>>

-----------------------------------------------------------------------------
Poll(p) ==
  \/ FetchNothing(p)  \/ FetchNormal(p)    \/ FetchControl(p) \/ FetchEmpty(p)
  \/ HandleControl(p) \/ ReleaseControl(p) \/ CheckControl(p) \/ RetakeControl(p)
  \/ HandleNormal(p)  \/ NormalsDone(p)
  \/ MoreNormal(p)    \/ HandleExtra(p)
  \/ MoreControl(p)   \/ MoreEmpty(p)      \/ MoreNothing(p)

Send(m) == Notify(m) \/ Schedule(m)

BroadcastShutdown == Post \/ \E m \in Machines : Close(m)

Next ==
  \/ \E m \in Machines : Push(m) \/ Send(m) \/ CloseNormal(m)
  \/ Shutdown \/ BroadcastShutdown
  \/ \E p \in Pollers : Poll(p)

Spec == Init /\ [][Next]_vars

-----------------------------------------------------------------------------
(* Properties *)

(* The type invariant of the schedulers' channels and of the pollers. *)
TypeOK ==
  /\ sent \in [Machines -> Nat]
  /\ handled \in [Machines -> Nat]
  /\ place \in [Machines -> {"parked", "moving", "freed"}]
  /\ closed \in [Machines -> BOOLEAN]
  /\ notifying \subseteq Machines
  /\ inHand \subseteq Machines
  /\ chan \in [Priorities -> Seq(Machines \cup {Empty})]
  /\ at \in [Pollers -> Steps]
  /\ normals \in [Pollers -> Seq(Normals)]
  /\ control \in [Pollers -> BOOLEAN]
  /\ next \in [Pollers -> Nat]
  /\ size \in [Pollers -> Nat]
  /\ shut \in {"no", "closing", "posting"}
  /\ posted \in 0..2 * Empties
  /\ calls \in [Metrics -> 0..MaxCalls]

(* No poller pushes a second control machine into its batch (the assertion of *)
(* Batch::push), and none handles a machine beyond the end of its batch.      *)
NoPanic ==
  \A p \in Pollers :
    /\ at[p] # "panicked"
    /\ at[p] \in {"control", "release"} => control[p]
    /\ at[p] = "extra" => next[p] = Len(normals[p])

(* The machines in a channel, and those of a poller. *)
OnWay(k) == Range(chan[k]) \ {Empty}

Batch(p) == Range(normals[p]) \cup IF control[p] THEN {ControlFsm} ELSE {}

Once(s) == \A i, j \in DOMAIN s : s[i] = s[j] => i = j \/ s[i] = Empty

(* A machine that left its mailbox is in one sender's hand, one channel or one  *)
(* batch, once; one that is parked or freed is in none.  So no two pollers ever *)
(* handle the same machine, and none handles a freed one.                       *)
OneHome ==
  /\ {m \in Machines : place[m] = "moving"}
       = inHand \cup (UNION {OnWay(k) : k \in Priorities}) \cup (UNION {Batch(p) : p \in Pollers})
  /\ \A k \in Priorities :
       /\ OnWay(k) \cap inHand = {} /\ Once(chan[k])
       /\ \A l \in Priorities : k # l => OnWay(k) \cap OnWay(l) = {}
  /\ \A p \in Pollers :
       /\ Batch(p) \cap inHand = {} /\ Once(normals[p])
       /\ \A k \in Priorities : Batch(p) \cap OnWay(k) = {}
       /\ \A q \in Pollers : p # q => Batch(p) \cap Batch(q) = {}

(* Pollers of the low pool handle the low machines and nobody else does. *)
PriorityKept ==
  \A p \in Pollers : \A m \in Range(normals[p]) : PriorityOf(m) = ChannelOf(p)

(* When shutdown has joined the pollers, the only machines left are in a channel *)
(* or in the hand of a sender, and they go with those; every other was freed.    *)
ShutdownFrees ==
  (shut = "posting" /\ \A p \in Pollers : at[p] = "stopped")
    => \A m \in Machines : \/ place[m] = "freed"
                           \/ m \in inHand
                           \/ \E k \in Priorities : m \in Range(chan[k])

(* No machine is forgotten: when it is parked over a message, its sender is about to *)
(* notify, or a poller that has just parked it about to look (release_control).      *)
NoneForgotten ==
  \A m \in Machines :
    place[m] = "parked" /\ handled[m] # sent[m]
      => m \in notifying \/ (m = ControlFsm /\ \E p \in Pollers : at[p] \in {"check", "retake"})

(* Every machine keeps the promise of FsmDelivery. *)
Delivery(m) ==
  INSTANCE FsmDelivery WITH place <- place[m], closed <- closed[m],
                            sent <- sent[m], handled <- handled[m]

DeliverySpec ==
  /\ \A m \in Machines : Delivery(m)!DeliveryInit
  /\ [][\A m \in Machines : [Delivery(m)!DeliveryNext]_(Delivery(m)!deliveryVars)]_vars

(* test_batch.rs:99-100: in a callback of a low machine the handler's priority is *)
(* Low, like the machine's.                                                       *)
HandlerAgrees ==
  \A p \in Pollers :
    (at[p] = "normals" /\ next[p] <= Len(normals[p]))
      => PriorityOf(normals[p][next[p]]) = HandlerPriority(p)

=============================================================================
