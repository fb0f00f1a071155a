-------------------------- MODULE BatchSystem_proofs --------------------------
(* Proofs about BatchSystem, for any machines and pollers and however many of *)
(* their handlers panic.                                                      *)
EXTENDS BatchSystem, Poller_proofs

-----------------------------------------------------------------------------
(* The inductive invariant *)

SystemTypeOK ==
  /\ workers \in Seq(Pollers)
  /\ system \in {"new", "spawned", "joining", "done", "failed"}
  /\ lastError \in BOOLEAN

(* A poller whose handle shutdown has joined: it is over, and its panic is noted. *)
Joined(p) == Over(p) /\ (at[p] = "panicked" => lastError)

(* Every handle is there after spawn, and every poller without one was joined. *)
Handles ==
  /\ system = "spawned" => Range(workers) = Pollers
  /\ system \in {"joining", "done", "failed"} =>
       \A p \in Pollers : p \in Range(workers) \/ Joined(p)

(* last_error is the error of some poller, and the end depends on nothing else. *)
Reported ==
  /\ lastError => \E p \in Pollers : at[p] = "panicked"
  /\ Ended => /\ workers = <<>>
              /\ shut = "posting" /\ posted = 2 * Empties
              /\ system = "failed" <=> lastError

SystemInv == Sound /\ SystemTypeOK /\ Handles /\ Reported

-----------------------------------------------------------------------------
(* The pollers in the system *)

(* The thread that unwinds frees the machines of its batch and leaves nothing. *)
LEMMA PanicSound ==
  ASSUME Sound, NEW p \in Pollers, HandlerPanic(p)
  PROVE  Sound'
<1>0. /\ TypeOK /\ Points /\ Homed /\ Onces /\ PriorityKept /\ Shutting
      /\ Took /\ NoneForgotten /\ Counted
      /\ Clear(p) /\ at' = [at EXCEPT ![p] = "panicked"]
      /\ at[p] \notin {"check", "retake", "stopped"}
      /\ UNCHANGED <<sent, handled, closed, notifying, inHand, chan, next, size, shut, posted, calls>>
  BY DEF Sound, HandlerPanic
<1>1. TypeOK'
  <2>1. /\ place' \in [Machines -> {"parked", "moving", "freed"}]
        /\ normals' \in [Pollers -> Seq(Normals)] /\ control' \in [Pollers -> BOOLEAN]
    BY <1>0, ClearType
  <2>2. at' \in [Pollers -> Steps]
    BY <1>0 DEF TypeOK, Steps
  <2> QED
    BY <1>0, <2>1, <2>2 DEF TypeOK
<1>2. Points'
  <2>1. /\ at'[p] = "panicked" /\ normals'[p] = <<>> /\ control'[p] = FALSE
        /\ \A q \in Pollers \ {p} : /\ at'[q] = at[q] /\ normals'[q] = normals[q]
                                    /\ control'[q] = control[q]
    BY <1>0 DEF TypeOK, Clear
  <2>2. Point(p)'
    BY <1>0, <2>1 DEF Points, Point
  <2>3. \A q \in Pollers \ {p} : Point(q)'
    BY <1>0, <2>1, PointKept DEF Points
  <2> QED
    BY <2>2, <2>3 DEF Points
<1>3. Homed' /\ Onces' /\ PriorityKept'
  <2>1. \A k \in Priorities : OnWay(k)' = OnWay(k) /\ Once(chan'[k])
    BY <1>0 DEF OnWay, Onces
  <2>2. /\ \A q \in Pollers : /\ Batch(q)' = IF q = p THEN Batch(q) \ Batch(p) ELSE Batch(q)
                              /\ Once(normals'[q])
                              /\ Range(normals'[q]) \subseteq Range(normals[q])
        /\ \A m \in Machines : IF m \in Batch(p) THEN place'[m] # "moving"
                                ELSE place'[m] = place[m]
    BY <1>0, BatchClear
  <2>3. Homed'
    BY <1>0, <2>1, <2>2, HomeLeft
  <2> QED
    BY <1>0, <2>1, <2>2, <2>3 DEF Onces, PriorityKept
<1>4. Shutting'
  BY <1>0 DEF Clear, Shutting
<1>5. /\ \A q \in Pollers : at'[q] = "stopped" <=> at[q] = "stopped"
      /\ \A q \in Pollers : at[q] \in {"check", "retake"} => at'[q] \in {"check", "retake"}
  BY <1>0 DEF TypeOK
<1>6. NoneForgotten'
  <2>1. \A m \in Machines : place'[m] = "parked" => place[m] = "parked"
    BY <1>0 DEF Clear
  <2> QED
    BY <1>0, <1>5, <2>1 DEF NoneForgotten
<1>7. Took' /\ Counted'
  <2>1. \A k \in Priorities : StoppedOf(k)' = StoppedOf(k)
    BY <1>5, StoppedKept
  <2> QED
    BY <1>0, <2>1 DEF Took, Counted
<1> QED
  BY <1>1, <1>2, <1>3, <1>4, <1>6, <1>7 DEF Sound

(* A step of the system is one of the pollers, a panic, or nothing that they see. *)
LEMMA PollersStep ==
  ASSUME [SystemNext]_allVars
  PROVE  [Next]_vars \/ \E p \in Pollers : HandlerPanic(p)
BY DEF SystemNext, ClientStep, BroadcastStep, BeginShutdown, Spawned, Join, Return, StartPoller,
       PollStep, allVars, Next

LEMMA SystemSoundStep ==
  ASSUME Sound, [SystemNext]_allVars
  PROVE  Sound'
BY PollersStep, PanicSound, SoundStep

(* A poller that is over stays what it is. *)
LEMMA OverStays ==
  ASSUME Sound, [SystemNext]_allVars, NEW p \in Pollers, Over(p)
  PROVE  at'[p] = at[p]
<1>1. CASE [Next]_vars
  BY <1>1, NeverPanics DEF Sound, Over
<1>2. ASSUME NEW q \in Pollers, HandlerPanic(q) PROVE at'[p] = at[p]
  BY <1>2 DEF HandlerPanic, Over, Sound, TypeOK
<1> QED
  BY <1>1, <1>2, PollersStep

-----------------------------------------------------------------------------
(* The handles and the error *)

LEMMA SystemTypeStep ==
  ASSUME SystemTypeOK, [SystemNext]_allVars
  PROVE  SystemTypeOK'
<1> USE DEF SystemTypeOK
<1>1. CASE UNCHANGED sysVars
  BY <1>1 DEF sysVars
<1>2. ASSUME NEW p \in Pollers, StartPoller(p) PROVE SystemTypeOK'
  BY <1>2 DEF StartPoller
<1>3. CASE Spawned \/ BeginShutdown \/ Return
  BY <1>3 DEF Spawned, BeginShutdown, Return
<1>4. CASE Join
  BY <1>4 DEF Join
<1> QED
  BY <1>1, <1>2, <1>3, <1>4
     DEF SystemNext, ClientStep, BroadcastStep, PollStep, HandlerPanic, allVars

LEMMA HandlesStep ==
  ASSUME Sound, SystemTypeOK, Handles, [SystemNext]_allVars
  PROVE  Handles'
<1>0. /\ workers \in Seq(Pollers) /\ lastError \in BOOLEAN
      /\ \A p \in Pollers : Over(p) => at'[p] = at[p]
  BY OverStays DEF SystemTypeOK
<1>1. ASSUME lastError => lastError', NEW p \in Pollers, Joined(p) PROVE Joined(p)'
  BY <1>0, <1>1 DEF Joined, Over
<1>2. CASE UNCHANGED sysVars
  BY <1>1, <1>2 DEF sysVars, Handles
<1>3. ASSUME NEW p \in Pollers, StartPoller(p) PROVE Handles'
  BY <1>3 DEF StartPoller, Handles
<1>4. CASE Spawned
  BY <1>4 DEF Spawned, Handles
<1>5. CASE BeginShutdown
  BY <1>5 DEF BeginShutdown, Handles
<1>6. CASE Join
  <2>1. /\ system = "joining" /\ system' = system /\ workers # <<>> /\ at' = at
        /\ Over(Head(workers)) /\ workers' = Tail(workers)
        /\ lastError' = (lastError \/ at[Head(workers)] = "panicked")
    BY <1>6 DEF Join, vars
  <2>2. Range(workers) = Range(workers') \cup {Head(workers)}
    BY <1>0, <2>1, Taken
  <2>3. ASSUME NEW p \in Pollers, p \notin Range(workers') PROVE Joined(p)'
    <3>1. CASE p = Head(workers)
      BY <2>1, <3>1 DEF Joined, Over
    <3>2. CASE p # Head(workers)
      BY <1>1, <2>1, <2>2, <2>3, <3>2 DEF Handles
    <3> QED
      BY <3>1, <3>2
  <2> QED
    BY <2>1, <2>3 DEF Handles
<1>7. CASE Return
  BY <1>1, <1>7 DEF Return, Handles
<1> QED
  BY <1>2, <1>3, <1>4, <1>5, <1>6, <1>7
     DEF SystemNext, ClientStep, BroadcastStep, PollStep, HandlerPanic, allVars

LEMMA ReportedStep ==
  ASSUME Sound, SystemTypeOK, Reported, [SystemNext]_allVars
  PROVE  Reported'
<1>0. /\ workers \in Seq(Pollers) /\ lastError \in BOOLEAN
      /\ \A p \in Pollers : at[p] = "panicked" => at'[p] = "panicked"
  BY OverStays DEF SystemTypeOK, Over
<1>1. CASE UNCHANGED sysVars
  <2>1. /\ shut = "posting" => shut' = "posting"
        /\ posted = 2 * Empties => posted' = posted
    <3>1. CASE Post
      <4>1. 2 * Empties \in Nat /\ posted < 2 * Empties /\ shut' = shut
        BY <3>1, PollerAssumption DEF Post
      <4> QED
        BY <4>1
    <3>2. CASE [Next]_vars /\ ~Post
      BY <3>2 DEF Next, Send, BroadcastShutdown, Push, Notify, Schedule, Shutdown, Close,
                  CloseNormal, CloseMailbox, Poll, FetchNothing, FetchNormal, FetchControl, FetchEmpty, HandleControl,
                  ReleaseControl, CheckControl, RetakeControl, HandleNormal, HandleNext, NormalsDone,
                  MoreNormal, HandleExtra, MoreControl, MoreEmpty, MoreNothing, vars
    <3>3. ASSUME NEW p \in Pollers, HandlerPanic(p) PROVE UNCHANGED <<shut, posted>>
      BY <3>3 DEF HandlerPanic
    <3> QED
      BY <3>1, <3>2, <3>3, PollersStep
  <2> QED
    BY <1>0, <1>1, <2>1 DEF sysVars, Reported, Ended
<1>2. ASSUME NEW p \in Pollers, StartPoller(p) PROVE Reported'
  BY <1>0, <1>2 DEF StartPoller, Reported, Ended
<1>3. CASE Spawned \/ BeginShutdown
  BY <1>0, <1>3 DEF Spawned, BeginShutdown, Reported, Ended
<1>4. CASE Join
  <2>1. Head(workers) \in Pollers /\ system' = "joining"
    BY <1>0, <1>4 DEF Join
  <2> QED
    BY <1>0, <1>4, <2>1 DEF Join, Reported, Ended
<1>5. CASE Return
  BY <1>0, <1>5 DEF Return, Reported, Ended, vars
<1> QED
  BY <1>1, <1>2, <1>3, <1>4, <1>5
     DEF SystemNext, ClientStep, BroadcastStep, PollStep, HandlerPanic, allVars

-----------------------------------------------------------------------------
(* The invariant holds in every state of the system. *)
THEOREM SystemInvariant == SystemSpec => []SystemInv
<1>1. SystemInit => SystemInv
  <2> SUFFICES ASSUME SystemInit PROVE SystemInv
    OBVIOUS
  <2>1. Sound
    BY SoundInit DEF SystemInit
  <2>2. SystemTypeOK
    <3>1. workers = <<>> /\ system = "new" /\ lastError = FALSE
      BY DEF SystemInit
    <3>2. workers \in Seq(Pollers)
      BY <3>1
    <3> QED
      BY <3>1, <3>2 DEF SystemTypeOK
  <2>3. Handles /\ Reported
    BY DEF SystemInit, Handles, Reported, Ended
  <2> QED
    BY <2>1, <2>2, <2>3 DEF SystemInv
<1>2. SystemInv /\ [SystemNext]_allVars => SystemInv'
  BY SystemSoundStep, SystemTypeStep, HandlesStep, ReportedStep DEF SystemInv
<1> QED
  BY <1>1, <1>2, PTL DEF SystemSpec

(* Nobody is left in a batch after shutdown when all handles were joined. *)
LEMMA EndedOver ==
  ASSUME SystemInv, Ended
  PROVE  \A p \in Pollers : Joined(p)
<1>1. Range(workers) = {}
  BY DEF SystemInv, Reported, Range
<1> QED
  BY <1>1 DEF SystemInv, Handles, Ended

(* When shutdown has returned or panicked, no poller runs and no machine is left in a *)
(* mailbox or a batch, whichever handlers panicked and when.                          *)
THEOREM SystemEndedIsQuiet == SystemSpec => []EndedIsQuiet
<1>1. ASSUME SystemInv, Ended
      PROVE  /\ \A p \in Pollers : Over(p)
             /\ \A m \in Machines : \/ place[m] = "freed"
                                    \/ m \in inHand
                                    \/ \E k \in Priorities : m \in Range(chan[k])
  <2>1. \A p \in Pollers : at[p] \in {"stopped", "panicked"}
    BY <1>1, EndedOver DEF Joined, Over
  <2>2. Sound /\ shut = "posting"
    BY <1>1 DEF SystemInv, Reported
  <2> QED
    BY <2>1, <2>2, Unfreed DEF Over
<1>2. SystemInv => EndedIsQuiet
  BY <1>1 DEF EndedIsQuiet
<1> QED
  BY <1>2, SystemInvariant, PTL

(* shutdown panics exactly if a handler did, for any order of the joins. *)
THEOREM SystemPanicReported == SystemSpec => []PanicReported
<1>1. ASSUME SystemInv, Ended
      PROVE  system = "failed" <=> \E p \in Pollers : at[p] = "panicked"
  <2>1. \A p \in Pollers : at[p] = "panicked" => lastError
    BY <1>1, EndedOver DEF Joined
  <2> QED
    BY <1>1, <2>1 DEF SystemInv, Reported
<1>2. SystemInv => PanicReported
  BY <1>1 DEF PanicReported
<1> QED
  BY <1>2, SystemInvariant, PTL

(* A panic loses no machine and doubles none: each that left its mailbox still has one *)
(* home, and those of the unwound batch were freed.                                    *)
THEOREM SystemOneHome == SystemSpec => []OneHome
<1>1. SystemInv => OneHome
  BY SoundOneHome DEF SystemInv
<1> QED
  BY <1>1, SystemInvariant, PTL

(* A panic makes nobody forget a machine that has a message. *)
THEOREM SystemNoneForgotten == SystemSpec => []NoneForgotten
<1>1. SystemInv => NoneForgotten
  BY DEF SystemInv, Sound
<1> QED
  BY <1>1, SystemInvariant, PTL

(* When the senders are done and every poller waits in recv or is over, a message that *)
(* was not handled belongs to a freed machine or to a pool without a poller.           *)
THEOREM SystemRestIsDone == SystemSpec => []RestIsDone
<1>1. ASSUME SystemInv, notifying = {}, inHand = {}, \A p \in Pollers : Waiting(p) \/ Over(p),
             NEW m \in Machines, handled[m] # sent[m], place[m] # "freed",
             NEW q \in Pollers, ChannelOf(q) = PriorityOf(m)
      PROVE  Over(q)
  <2> SUFFICES ASSUME ~Over(q) PROVE FALSE
    OBVIOUS
  <2>0. /\ TypeOK /\ Points /\ Homed /\ NoneForgotten /\ HomeOf(m)
        /\ place[m] \in {"parked", "moving", "freed"} /\ Range(<<>>) = {}
    BY <1>1 DEF SystemInv, Sound, Homed, TypeOK, Range
  <2>1. \A p \in Pollers : m \notin Batch(p)
    <3> TAKE p \in Pollers
    <3>1. normals[p] = <<>> /\ ~control[p]
      BY <1>1, <2>0 DEF Waiting, Over, Points, Point
    <3> QED
      BY <2>0, <3>1 DEF Batch
  <2>2. \A k \in Priorities : m \notin OnWay(k)
    <3> SUFFICES ASSUME NEW k \in Priorities, m \in OnWay(k) PROVE FALSE
      OBVIOUS
    <3>1. k = ChannelOf(q)
      BY <1>1, <2>0 DEF HomeOf
    <3>2. chan[k] = <<>>
      BY <1>1, <3>1 DEF Waiting, Queue
    <3> QED
      BY <2>0, <3>2 DEF OnWay
  <2>3. place[m] = "parked"
    BY <1>1, <2>0, <2>1, <2>2 DEF HomeOf
  <2>4. PICK p \in Pollers : at[p] \in {"check", "retake"}
    BY <1>1, <2>0, <2>3 DEF NoneForgotten
  <2> QED
    BY <1>1, <2>4 DEF Waiting, Over
<1>2. SystemInv => RestIsDone
  BY <1>1 DEF RestIsDone
<1> QED
  BY <1>2, SystemInvariant, PTL

(* Pools of up to twice as many threads as one scheduler sends Empty entries can be  *)
(* joined: once both schedulers have sent theirs, a running poller finds one of them *)
(* in its channel, however many others have panicked without taking theirs.          *)
THEOREM SystemEmptiesSuffice == SystemSpec => []EmptiesSuffice
<1>1. ASSUME SystemInv, posted = 2 * Empties, NEW p \in Pollers, ~Over(p),
             Cardinality({q \in Pollers : ChannelOf(q) = ChannelOf(p)}) <= 2 * Empties
      PROVE  Empty \in Range(Queue(p))
  <2> DEFINE k == ChannelOf(p)
             Pool == {q \in Pollers : ChannelOf(q) = k}
  <2>1. /\ TypeOK /\ Counted /\ k \in Priorities /\ chan[k] \in Seq(Machines \cup {Empty})
        /\ Empties \in Nat
    BY <1>1, PFacts, PollerAssumption DEF SystemInv, Sound
  <2>2. Cardinality(EmptiesIn(chan[k])) + Cardinality(StoppedOf(k)) = 2 * Empties
    BY <1>1, <2>1 DEF Counted
  <2>3. p \in Pool /\ StoppedOf(k) \in SUBSET (Pool \ {p})
    BY <1>1 DEF StoppedOf, Over
  <2>4. IsFiniteSet(Pool) /\ Cardinality(Pool) \in Nat
    <3>1. Pool \in SUBSET Pollers
      OBVIOUS
    <3>2. IsFiniteSet(Pool)
      BY <3>1, PollerAssumption, FS_Subset
    <3> QED
      BY <3>2, FS_CardinalityType
  <2>5. Cardinality(Pool) <= 2 * Empties
    BY <1>1
  <2> HIDE DEF k, Pool
  <2>6. IsFiniteSet(Pool \ {p}) /\ Cardinality(Pool \ {p}) = Cardinality(Pool) - 1
    BY <2>3, <2>4, FS_RemoveElement
  <2>7. Cardinality(StoppedOf(k)) <= Cardinality(Pool) - 1 /\ Cardinality(StoppedOf(k)) \in Nat
    BY <2>3, <2>6, FS_Subset, StoppedFinite
  <2>8. Cardinality(EmptiesIn(chan[k])) # 0
    <3>1. Cardinality(EmptiesIn(chan[k])) \in Nat
      BY <2>1, EmptiesAppended
    <3> QED
      BY <2>1, <2>2, <2>4, <2>5, <2>7, <3>1
  <2>9. EmptiesIn(chan[k]) # {}
    BY <2>8, FS_EmptySet
  <2>10. Empty \in Range(chan[k])
    BY <2>9 DEF EmptiesIn, Range
  <2> QED
    BY <2>10 DEF k, Queue
<1>2. SystemInv => EmptiesSuffice
  BY <1>1 DEF EmptiesSuffice
<1> QED
  BY <1>2, SystemInvariant, PTL

(* After shutdown the channels hold exactly the Empty entries that no poller took. *)
THEOREM SystemEmptiesLeft == SystemSpec => []EmptiesLeft
<1>1. ASSUME SystemInv, Ended, NEW k \in Priorities
      PROVE  Cardinality(EmptiesIn(chan[k])) = 2 * Empties - Cardinality(StoppedOf(k))
  <2>1. /\ TypeOK /\ chan[k] \in Seq(Machines \cup {Empty}) /\ Empties \in Nat
        /\ posted = 2 * Empties
        /\ Cardinality(EmptiesIn(chan[k])) + Cardinality(StoppedOf(k)) = posted
    BY <1>1, PollerAssumption DEF SystemInv, Sound, Reported, Counted, TypeOK
  <2>2. Cardinality(EmptiesIn(chan[k])) \in Nat /\ Cardinality(StoppedOf(k)) \in Nat
    BY <2>1, EmptiesAppended, StoppedFinite
  <2> QED
    BY <2>1, <2>2
<1>2. SystemInv => EmptiesLeft
  BY <1>1 DEF EmptiesLeft, EmptiesIn, StoppedOf
<1> QED
  BY <1>2, SystemInvariant, PTL

(* Every machine keeps the promise of FsmDelivery in the whole system too: the thread *)
(* that unwinds frees what it had taken and nothing else.                             *)
THEOREM SystemDelivery == SystemSpec => DeliverySpec
<1>1. SystemInit => \A m \in Machines : Delivery(m)!DeliveryInit
  BY DEF SystemInit, Init, Delivery!DeliveryInit, Delivery!Init
<1>2. SystemInv /\ [SystemNext]_allVars
        => [\A m \in Machines : [Delivery(m)!DeliveryNext]_(Delivery(m)!deliveryVars)]_vars
  <2> SUFFICES ASSUME SystemInv, [SystemNext]_allVars, NEW m \in Machines
               PROVE  [Delivery(m)!DeliveryNext]_(Delivery(m)!deliveryVars)
    OBVIOUS
  <2>1. Sound
    BY DEF SystemInv
  <2>2. CASE [Next]_vars
    BY <2>1, <2>2, DeliveryStep
  <2>3. ASSUME NEW p \in Pollers, HandlerPanic(p)
        PROVE  [Delivery(m)!DeliveryNext]_(Delivery(m)!deliveryVars)
    <3>1. /\ UNCHANGED <<closed, sent, handled>>
          /\ place'[m] = IF m \in Batch(p) THEN "freed" ELSE place[m]
      BY <2>3 DEF HandlerPanic, Clear, Batch
    <3>2. m \in Batch(p) => place[m] = "moving"
      BY <2>1 DEF Sound, Homed, HomeOf
    <3> QED
      BY <3>1, <3>2 DEF Delivery!DeliveryNext, Delivery!Pass, Delivery!Next, Delivery!Free,
                        Delivery!deliveryVars, Delivery!vars
  <2> QED
    BY <2>2, <2>3, PollersStep
<1> QED
  BY <1>1, <1>2, SystemInvariant, PTL DEF SystemSpec, DeliverySpec

=============================================================================
