----------------------------- MODULE BatchSystem -----------------------------
(***************************************************************************)
(* The life of a BatchSystem (batch.rs) around the pollers of Poller: spawn *)
(* starts their threads one by one, a handler may panic and unwind its      *)
(* thread, and shutdown joins them all.                                     *)
(*                                                                          *)
(* The methods take &mut self, so one thread at a time is in them; a        *)
(* shutdown before spawn, or after another one, returns at once and has no  *)
(* step.  Bound of the model: spawn is called once.                         *)
(***************************************************************************)
EXTENDS Poller

CONSTANT MaxPanics   (* bound of the model: handlers that panic *)

ASSUME BatchSystemAssumption == MaxPanics \in Nat

VARIABLES
  workers,   (* the handles, in the order of start_poller                    *)
  system,    (* "new"; "spawned" when name_prefix is set; "joining" while    *)
             (* shutdown runs; "done", or "failed" if it panicked            *)
  lastError  (* last_error of shutdown is Some                               *)

sysVars == <<workers, system, lastError>>

allVars == <<vars, sysVars>>

SystemInit ==
  /\ Init
  /\ workers = <<>>
  /\ system = "new"
  /\ lastError = FALSE

(* The threads that were started; shutdown drains the handles. *)
Started(p) == system # "new" \/ p \in Range(workers)

Over(p) == at[p] \in {"stopped", "panicked"}

Ended == system \in {"done", "failed"}

-----------------------------------------------------------------------------
(* start_poller, for the normal pool first. *)
StartPoller(p) ==
  /\ system = "new"
  /\ p \notin Range(workers)
  /\ p \in LowPollers => Pollers \ LowPollers \subseteq Range(workers)
  /\ workers' = Append(workers, p)
  /\ UNCHANGED <<vars, system, lastError>>

(* spawn sets name_prefix. *)
Spawned ==
  /\ system = "new"
  /\ Range(workers) = Pollers
  /\ system' = "spawned"
  /\ UNCHANGED <<vars, workers, lastError>>

(* shutdown takes the name_prefix and calls broadcast_shutdown. *)
BeginShutdown ==
  /\ system = "spawned"
  /\ system' = "joining"
  /\ Shutdown
  /\ UNCHANGED <<workers, lastError>>

(* A callback of the handler panics, before or after it took messages: the thread *)
(* unwinds and drops its batch.  The mailboxes of the machines stay as they are.  *)
HandlerPanic(p) ==
  /\ Started(p)
  /\ at[p] \notin {"check", "retake", "stopped", "panicked"}
  /\ Cardinality({q \in Pollers : at[q] = "panicked"}) < MaxPanics
  /\ at' = [at EXCEPT ![p] = "panicked"]
  /\ Clear(p)
  /\ UNCHANGED <<sent, handled, closed, notifying, inHand, chan, next, size, shut, posted, calls,
                 sysVars>>

(* Mutant: shutdown does not wait for a thread. *)
JoinAnyway ==
  /\ system = "joining" /\ shut = "posting" /\ posted = 2 * Empties
  /\ workers # <<>>
  /\ workers' = Tail(workers)
  /\ lastError' = (lastError \/ at[Head(workers)] = "panicked")
  /\ UNCHANGED <<vars, system>>

(* Mutant: last_error is the result of the last join. *)
JoinForgetting ==
  /\ system = "joining" /\ shut = "posting" /\ posted = 2 * Empties
  /\ workers # <<>>
  /\ Over(Head(workers))
  /\ workers' = Tail(workers)
  /\ lastError' = (at[Head(workers)] = "panicked")
  /\ UNCHANGED <<vars, system>>

(* A round of the loop of shutdown: join waits for the thread. *)
Join ==
  /\ system = "joining" /\ shut = "posting" /\ posted = 2 * Empties
  /\ workers # <<>>
  /\ Over(Head(workers))
  /\ workers' = Tail(workers)
  /\ lastError' = (lastError \/ at[Head(workers)] = "panicked")
  /\ UNCHANGED <<vars, system>>

(* After the loop shutdown returns, or panics. *)
Return ==
  /\ system = "joining" /\ shut = "posting" /\ posted = 2 * Empties
  /\ workers = <<>>
  /\ system' = IF lastError THEN "failed" ELSE "done"
  /\ UNCHANGED <<vars, workers, lastError>>

ClientStep ==
  /\ \E m \in Machines : Push(m) \/ Send(m) \/ CloseNormal(m)
  /\ UNCHANGED sysVars

BroadcastStep == BroadcastShutdown /\ UNCHANGED sysVars

PollStep(p) == Started(p) /\ Poll(p) /\ UNCHANGED sysVars

SystemNext ==
  \/ ClientStep \/ BroadcastStep
  \/ Spawned \/ BeginShutdown \/ Join \/ Return
  \/ \E p \in Pollers : StartPoller(p) \/ PollStep(p) \/ HandlerPanic(p)

SystemSpec == SystemInit /\ [][SystemNext]_allVars

(* Threads run, and spawn and shutdown go on when they were called; nothing says *)
(* that they are called, or that a handler panics.                               *)
SystemFairness ==
  /\ \A p \in Pollers : /\ WF_allVars(PollStep(p))
                        /\ WF_allVars(workers # <<>> /\ StartPoller(p))
  /\ \A m \in Machines : /\ WF_allVars(Notify(m) /\ UNCHANGED sysVars)
                         /\ WF_allVars(Schedule(m) /\ UNCHANGED sysVars)
  /\ WF_allVars(BroadcastStep) /\ WF_allVars(Spawned) /\ WF_allVars(Join) /\ WF_allVars(Return)

FairSystemSpec == SystemSpec /\ SystemFairness

-----------------------------------------------------------------------------
(* Properties *)

(* A message is handled, also when it was sent before spawn or while a poller    *)
(* panicked (Poller::poll), unless the system is shut down, the machine was in   *)
(* the batch of a poller that panicked, or no poller of its pool is left.        *)
DeliveredUnlessLost ==
  \A m \in Machines :
    sent[m] > handled[m] /\ system # "new"
      ~> \/ sent[m] = handled[m] \/ place[m] = "freed" \/ shut # "no"
         \/ \A p \in Pollers : ChannelOf(p) = PriorityOf(m) => at[p] = "panicked"

(* shutdown (batch.rs:477-498) comes to its end, whichever pollers panicked: the *)
(* Empty entries reach each of the others, behind any machines in the channels.  *)
ShutdownEnds == system = "joining" ~> Ended

(* A poller that waits in recv with an empty batch. *)
Waiting(p) == at[p] = "fetch" /\ normals[p] = <<>> /\ ~control[p] /\ Queue(p) = <<>>

(* The system comes to rest only when its work is done: when every poller waits or is *)
(* over and no sender is under way, a machine that has a message left is freed or has *)
(* no poller any more.                                                                *)
RestIsDone ==
  (notifying = {} /\ inHand = {} /\ \A p \in Pollers : Waiting(p) \/ Over(p))
    => \A m \in Machines : handled[m] # sent[m] =>
         \/ place[m] = "freed"
         \/ \A p \in Pollers : ChannelOf(p) = PriorityOf(m) => Over(p)

(* The Empty entries are enough for a pool of up to twice their number per scheduler *)
(* (batch.rs:60, both schedulers share the channels): when all were sent, each       *)
(* poller that runs has one in its channel, so that no join waits for ever.          *)
EmptiesSuffice ==
  posted = 2 * Empties =>
    \A p \in Pollers :
      ~Over(p) /\ Cardinality({q \in Pollers : ChannelOf(q) = ChannelOf(p)}) <= 2 * Empties
        => Empty \in Range(Queue(p))

(* What shutdown leaves for a second spawn (batch.rs:477-498): the channels are the *)
(* same, and every Empty that no poller took is still in them, one more for each    *)
(* poller that panicked.                                                            *)
EmptiesLeft ==
  Ended => \A k \in Priorities :
    Cardinality({i \in DOMAIN chan[k] : chan[k][i] = Empty})
      = 2 * Empties - Cardinality({p \in Pollers : ChannelOf(p) = k /\ at[p] = "stopped"})

(* When shutdown has returned or panicked no poller runs any more, and every     *)
(* machine is freed that is not in a channel or in the hand of a sender: also    *)
(* the machines that a panic met.                                                *)
EndedIsQuiet ==
  Ended =>
    /\ \A p \in Pollers : Over(p)
    /\ \A m \in Machines : \/ place[m] = "freed"
                           \/ m \in inHand
                           \/ \E k \in Priorities : m \in Range(chan[k])

(* shutdown panics exactly if a poller did (batch.rs:493-495), and only after it *)
(* has joined all of them.                                                       *)
PanicReported ==
  Ended => (system = "failed" <=> \E p \in Pollers : at[p] = "panicked")

=============================================================================
