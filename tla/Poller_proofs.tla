---------------------------- MODULE Poller_proofs ----------------------------
(* Proofs about Poller, for any machines, pollers, batch sizes and numbers of *)
(* Empty entries.                                                             *)
EXTENDS Poller, FiniteSetTheorems, TLAPS

-----------------------------------------------------------------------------
(* Sequences without repetitions *)

(* What Append does to the elements of a sequence (batch.push, schedule, shutdown). *)
LEMMA Appended ==
  ASSUME NEW S, NEW s \in Seq(S), NEW x \in S
  PROVE  /\ Append(s, x) \in Seq(S)
         /\ Range(Append(s, x)) = Range(s) \cup {x}
         /\ Once(s) /\ x \notin Range(s) \ {Empty} => Once(Append(s, x))
<1>1. /\ Append(s, x) \in Seq(S) /\ Len(Append(s, x)) = Len(s) + 1
      /\ DOMAIN Append(s, x) = 1..Len(s) + 1 /\ DOMAIN s = 1..Len(s) /\ Len(s) \in Nat
      /\ \A i \in 1..Len(s) : Append(s, x)[i] = s[i]
      /\ Append(s, x)[Len(s) + 1] = x
  OBVIOUS
<1>2. Range(Append(s, x)) = Range(s) \cup {x}
  BY <1>1 DEF Range
<1>3. ASSUME Once(s), x \notin Range(s) \ {Empty}
      PROVE  Once(Append(s, x))
  <2> DEFINE t == Append(s, x)
  <2>1. /\ DOMAIN t = 1..Len(s) + 1 /\ Len(s) \in Nat /\ DOMAIN s = 1..Len(s)
        /\ \A i \in 1..Len(s) : t[i] = s[i] /\ (s[i] = x => x = Empty)
        /\ t[Len(s) + 1] = x
    BY <1>1, <1>3 DEF Range
  <2> HIDE DEF t
  <2>2. \A i, j \in DOMAIN t : t[i] = t[j] => i = j \/ t[i] = Empty
    <3> SUFFICES ASSUME NEW i \in 1..Len(s) + 1, NEW j \in 1..Len(s) + 1, t[i] = t[j], i # j
                 PROVE  t[i] = Empty
      BY <2>1
    <3>1. CASE i \in 1..Len(s) /\ j \in 1..Len(s)
      BY <3>1, <2>1, <1>3 DEF Once
    <3>2. CASE i = Len(s) + 1 /\ j \in 1..Len(s)
      BY <3>2, <2>1
    <3>3. CASE j = Len(s) + 1 /\ i \in 1..Len(s)
      BY <3>3, <2>1
    <3> QED
      BY <3>1, <3>2, <3>3, <2>1
  <2> QED
    BY <2>2 DEF Once, t
<1> QED
  BY <1>1, <1>2, <1>3

(* What receiving the first entry does to the elements of a channel. *)
LEMMA Taken ==
  ASSUME NEW S, NEW s \in Seq(S), s # <<>>
  PROVE  /\ Tail(s) \in Seq(S) /\ Head(s) \in S
         /\ Range(s) = Range(Tail(s)) \cup {Head(s)}
         /\ Once(s) => Once(Tail(s)) /\ (Head(s) # Empty => Head(s) \notin Range(Tail(s)))
<1> DEFINE t == Tail(s)
<1>1. /\ t \in Seq(S) /\ Len(s) \in Nat \ {0} /\ Head(s) = s[1] /\ Head(s) \in S
      /\ DOMAIN t = 1..Len(s) - 1 /\ DOMAIN s = 1..Len(s)
      /\ \A i \in 1..Len(s) - 1 : t[i] = s[i + 1]
  OBVIOUS
<1> HIDE DEF t
<1>2. Range(s) = Range(t) \cup {Head(s)}
  <2>1. ASSUME NEW x \in Range(s) PROVE x \in Range(t) \cup {Head(s)}
    <3>1. PICK i \in 1..Len(s) : x = s[i]
      BY <1>1 DEF Range
    <3>2. CASE i = 1
      BY <3>1, <3>2, <1>1
    <3>3. CASE i # 1
      <4>1. i - 1 \in DOMAIN t /\ t[i - 1] = x
        BY <3>1, <3>3, <1>1
      <4> QED
        BY <4>1 DEF Range
    <3> QED
      BY <3>2, <3>3
  <2>2. ASSUME NEW x \in Range(t) PROVE x \in Range(s)
    <3>1. PICK i \in 1..Len(s) - 1 : x = t[i]
      BY <1>1 DEF Range
    <3>2. i + 1 \in DOMAIN s /\ s[i + 1] = x
      BY <3>1, <1>1
    <3> QED
      BY <3>2 DEF Range
  <2>3. Head(s) \in Range(s)
    BY <1>1 DEF Range
  <2> QED
    BY <2>1, <2>2, <2>3
<1>3. ASSUME Once(s) PROVE Once(t) /\ (Head(s) # Empty => Head(s) \notin Range(t))
  <2>1. \A i, j \in 1..Len(s) - 1 : t[i] = t[j] => i = j \/ t[i] = Empty
    BY <1>1, <1>3 DEF Once
  <2>2. \A i \in 1..Len(s) - 1 : s[1] = t[i] => s[1] = Empty
    BY <1>1, <1>3 DEF Once
  <2>3. Once(t)
    BY <2>1, <1>1 DEF Once
  <2>4. Head(s) # Empty => Head(s) \notin Range(t)
    BY <2>2, <1>1 DEF Range
  <2> QED
    BY <2>3, <2>4
<1> QED
  BY <1>1, <1>2, <1>3 DEF t

-----------------------------------------------------------------------------
(* Counting the Empty entries of a channel *)

EmptiesIn(s) == {i \in DOMAIN s : s[i] = Empty}

(* Schedulers append an entry; *)
LEMMA EmptiesAppended ==
  ASSUME NEW S, NEW s \in Seq(S), NEW x \in S
  PROVE  /\ IsFiniteSet(EmptiesIn(s)) /\ Cardinality(EmptiesIn(s)) \in Nat
         /\ Cardinality(EmptiesIn(Append(s, x)))
              = IF x = Empty THEN Cardinality(EmptiesIn(s)) + 1 ELSE Cardinality(EmptiesIn(s))
<1> DEFINE t == Append(s, x)
           n == Len(s)
<1>1. /\ n \in Nat /\ DOMAIN s = 1..n /\ DOMAIN t = 1..n + 1
      /\ \A i \in 1..n : t[i] = s[i]
      /\ t[n + 1] = x
  OBVIOUS
<1> HIDE DEF t, n
<1>2. IsFiniteSet(EmptiesIn(s)) /\ Cardinality(EmptiesIn(s)) \in Nat
  <2>1. IsFiniteSet(1..n)
    BY <1>1, FS_Interval
  <2>2. EmptiesIn(s) \in SUBSET (1..n)
    BY <1>1 DEF EmptiesIn
  <2>3. IsFiniteSet(EmptiesIn(s))
    BY <2>1, <2>2, FS_Subset
  <2> QED
    BY <2>3, FS_CardinalityType
<1>3. CASE x = Empty
  <2>1. EmptiesIn(t) = EmptiesIn(s) \cup {n + 1}
    BY <1>1, <1>3 DEF EmptiesIn
  <2>2. n + 1 \notin EmptiesIn(s)
    BY <1>1 DEF EmptiesIn
  <2>3. Cardinality(EmptiesIn(s) \cup {n + 1}) = Cardinality(EmptiesIn(s)) + 1
    BY <1>2, <2>2, FS_AddElement
  <2> QED
    BY <1>2, <1>3, <2>1, <2>3 DEF t
<1>4. CASE x # Empty
  <2>1. EmptiesIn(t) = EmptiesIn(s)
    BY <1>1, <1>4 DEF EmptiesIn
  <2> QED
    BY <1>2, <1>4, <2>1 DEF t
<1> QED
  BY <1>3, <1>4

(* and a poller takes the first one. *)
LEMMA EmptiesTaken ==
  ASSUME NEW S, NEW s \in Seq(S), s # <<>>
  PROVE  Cardinality(EmptiesIn(s))
           = IF Head(s) = Empty THEN Cardinality(EmptiesIn(Tail(s))) + 1
                                ELSE Cardinality(EmptiesIn(Tail(s)))
<1> DEFINE t == Tail(s)
           n == Len(s)
           R == EmptiesIn(s) \ {1}
<1>1. /\ n \in Nat \ {0} /\ DOMAIN s = 1..n /\ DOMAIN t = 1..n - 1 /\ Head(s) = s[1]
      /\ \A i \in 1..n - 1 : t[i] = s[i + 1]
      /\ t \in Seq(S) /\ Head(s) \in S
  OBVIOUS
<1> HIDE DEF t, n
<1>2. /\ IsFiniteSet(EmptiesIn(s)) /\ Cardinality(EmptiesIn(s)) \in Nat
      /\ IsFiniteSet(EmptiesIn(t)) /\ Cardinality(EmptiesIn(t)) \in Nat
  BY <1>1, EmptiesAppended
<1>3. Cardinality(R) = Cardinality(EmptiesIn(t))
  <2> DEFINE f == [i \in EmptiesIn(t) |-> i + 1]
  <2>1. \A i \in EmptiesIn(t) : f[i] \in R
    BY <1>1 DEF EmptiesIn
  <2>2. \A i, j \in EmptiesIn(t) : f[i] = f[j] => i = j
    BY <1>1 DEF EmptiesIn
  <2>3. \A j \in R : \E i \in EmptiesIn(t) : f[i] = j
    <3> TAKE j \in R
    <3>1. j - 1 \in EmptiesIn(t) /\ j \in Int
      BY <1>1 DEF EmptiesIn
    <3>2. f[j - 1] = j
      BY <3>1
    <3> QED
      BY <3>1, <3>2
  <2>4. f \in [EmptiesIn(t) -> R]
    BY <2>1
  <2> HIDE DEF f
  <2>5. f \in Bijection(EmptiesIn(t), R)
    BY <2>2, <2>3, <2>4 DEF Bijection, Injection, Surjection, IsInjective
  <2>6. ExistsBijection(EmptiesIn(t), R)
    BY <2>5 DEF ExistsBijection
  <2> HIDE DEF R
  <2> QED
    BY <1>2, <2>6, FS_Bijection
<1>4. Cardinality(R) = IF 1 \in EmptiesIn(s) THEN Cardinality(EmptiesIn(s)) - 1
                                             ELSE Cardinality(EmptiesIn(s))
  BY <1>2, FS_RemoveElement
<1>5. 1 \in EmptiesIn(s) <=> Head(s) = Empty
  BY <1>1 DEF EmptiesIn
<1> QED
  BY <1>2, <1>3, <1>4, <1>5 DEF t

-----------------------------------------------------------------------------
(* The inductive invariant *)

(* What a poller's state is at each point of poll. *)
Point(p) ==
  /\ next[p] >= 1
  /\ at[p] \in {"control", "release"} => control[p]
  /\ at[p] \in {"check", "retake"} => ~control[p]
  /\ at[p] \in {"stopped", "panicked"} => normals[p] = <<>> /\ ~control[p]
  /\ at[p] \in {"control", "release", "check", "retake", "normals"}
       => next[p] <= Len(normals[p]) + 1
  /\ at[p] = "more" => next[p] = Len(normals[p]) + 1
  /\ at[p] = "extra" => next[p] = Len(normals[p])

Points == \A p \in Pollers : Point(p)

Panicless == \A p \in Pollers : at[p] # "panicked"

(* OneHome, for one machine at a time; and the channel is its priority's. *)
HomeOf(m) ==
  /\ place[m] = "moving" <=> \/ m \in inHand
                             \/ \E k \in Priorities : m \in OnWay(k)
                             \/ \E p \in Pollers : m \in Batch(p)
  /\ m \in inHand => /\ \A k \in Priorities : m \notin OnWay(k)
                     /\ \A p \in Pollers : m \notin Batch(p)
  /\ \A k \in Priorities : m \in OnWay(k) => /\ PriorityOf(m) = k
                                             /\ \A p \in Pollers : m \notin Batch(p)
  /\ \A p, q \in Pollers : m \in Batch(p) /\ m \in Batch(q) => p = q

Homed == \A m \in Machines : HomeOf(m)

(* No machine is twice in a channel or in a batch. *)
Onces ==
  /\ \A k \in Priorities : Once(chan[k])
  /\ \A p \in Pollers : Once(normals[p])

(* A closed machine is not parked, and shutdown posts when all are closed. *)
Shutting ==
  /\ \A m \in Machines : closed[m] => place[m] # "parked"
  /\ shut = "posting" => \A m \in Machines : closed[m]

(* No message is handled before it is sent. *)
Took == \A m \in Machines : handled[m] <= sent[m]

(* The pollers of a pool that received an Empty entry. *)
StoppedOf(k) == {p \in Pollers : ChannelOf(p) = k /\ at[p] = "stopped"}

(* Each Empty entry of a channel is there yet or has stopped one poller. *)
Counted ==
  \A k \in Priorities :
    Cardinality(EmptiesIn(chan[k])) + Cardinality(StoppedOf(k)) = posted

(* What also holds when handlers panic, and all of it. *)
Sound ==
  /\ TypeOK /\ Points /\ Homed /\ Onces /\ PriorityKept /\ Shutting
  /\ Took /\ NoneForgotten /\ Counted

PInv == Sound /\ Panicless

-----------------------------------------------------------------------------
(* Types *)

(* What the type invariant says of the channels and of each poller. *)
LEMMA PFacts ==
  ASSUME TypeOK
  PROVE  /\ \A k \in Priorities : chan[k] \in Seq(Machines \cup {Empty})
         /\ \A k \in Priorities : OnWay(k) = {m \in Machines : m \in Range(chan[k])}
         /\ \A p \in Pollers : /\ at[p] \in Steps /\ normals[p] \in Seq(Normals)
                               /\ control[p] \in BOOLEAN /\ next[p] \in Nat /\ size[p] \in Nat
                               /\ Len(normals[p]) \in Nat
                               /\ Range(normals[p]) \subseteq Normals
                               /\ Batch(p) \subseteq Machines
                               /\ ChannelOf(p) \in Priorities
         /\ \A m \in Machines : PriorityOf(m) \in Priorities
         /\ ControlFsm \in Machines /\ Normals \subseteq Machines /\ Empty \notin Machines
<1>1. ASSUME NEW S, NEW s \in Seq(S) PROVE Range(s) \subseteq S /\ Len(s) \in Nat
  BY DEF Range
<1>2. ASSUME NEW k \in Priorities
      PROVE  /\ chan[k] \in Seq(Machines \cup {Empty})
             /\ OnWay(k) = {m \in Machines : m \in Range(chan[k])}
  <2>1. chan[k] \in Seq(Machines \cup {Empty})
    BY DEF TypeOK
  <2>2. Range(chan[k]) \subseteq Machines \cup {Empty}
    BY <1>1, <2>1
  <2> QED
    BY <2>1, <2>2, PollerAssumption DEF OnWay
<1>3. ASSUME NEW p \in Pollers
      PROVE  /\ at[p] \in Steps /\ normals[p] \in Seq(Normals)
             /\ control[p] \in BOOLEAN /\ next[p] \in Nat /\ size[p] \in Nat
             /\ Len(normals[p]) \in Nat
             /\ Range(normals[p]) \subseteq Normals
             /\ Batch(p) \subseteq Machines
             /\ ChannelOf(p) \in Priorities
  <2>1. /\ at[p] \in Steps /\ normals[p] \in Seq(Normals)
        /\ control[p] \in BOOLEAN /\ next[p] \in Nat /\ size[p] \in Nat
    BY DEF TypeOK
  <2>2. Range(normals[p]) \subseteq Normals /\ Len(normals[p]) \in Nat
    BY <1>1, <2>1
  <2>3. Batch(p) \subseteq Machines
    BY <2>2 DEF Batch, Machines
  <2>4. ChannelOf(p) \in Priorities
    BY DEF ChannelOf, Priorities
  <2> QED
    BY <2>1, <2>2, <2>3, <2>4
<1>4. \A m \in Machines : PriorityOf(m) \in Priorities
  BY DEF PriorityOf, Priorities
<1> QED
  BY <1>2, <1>3, <1>4, PollerAssumption DEF Machines

(* What receiving, counting and handling leave in type. *)
LEMMA ReceiveType ==
  ASSUME TypeOK, NEW p \in Pollers, Queue(p) # <<>>, Receive(p)
  PROVE  /\ chan' \in [Priorities -> Seq(Machines \cup {Empty})]
         /\ Queue(p) \in Seq(Machines \cup {Empty})
         /\ Head(Queue(p)) \in Machines \cup {Empty}
<1>1. Queue(p) \in Seq(Machines \cup {Empty}) /\ ChannelOf(p) \in Priorities
  BY PFacts DEF Queue
<1>2. Tail(Queue(p)) \in Seq(Machines \cup {Empty}) /\ Head(Queue(p)) \in Machines \cup {Empty}
  BY <1>1
<1>3. chan' = [chan EXCEPT ![ChannelOf(p)] = Tail(Queue(p))]
  BY DEF Receive, Queue
<1> QED
  BY <1>1, <1>2, <1>3 DEF TypeOK

LEMMA CountType ==
  ASSUME TypeOK, NEW c \in Metrics
  PROVE  Count(c) \in [Metrics -> 0..MaxCalls]
BY PollerAssumption DEF TypeOK, Count

LEMMA HandleType ==
  ASSUME TypeOK, NEW m, Handle(m)
  PROVE  handled' \in [Machines -> Nat]
<1>1. CASE m \in Machines
  BY <1>1, PollerAssumption DEF TypeOK, Handle
<1>2. CASE m \notin Machines
  BY <1>2 DEF TypeOK, Handle
<1> QED
  BY <1>1, <1>2

LEMMA GotoType ==
  ASSUME TypeOK, NEW p \in Pollers, NEW from, NEW to \in Steps, Goto(p, from, to)
  PROVE  at' \in [Pollers -> Steps]
BY DEF TypeOK, Goto

LEMMA BeginType ==
  ASSUME TypeOK, NEW p \in Pollers, NEW l \in Nat, NEW c \in BOOLEAN, Begin(p, l, c)
  PROVE  /\ at' \in [Pollers -> Steps] /\ next' \in [Pollers -> Nat]
         /\ size' \in [Pollers -> Nat] /\ calls' \in [Metrics -> 0..MaxCalls]
<1>1. at' \in [Pollers -> Steps]
  <2>1. (IF c THEN "control" ELSE "normals") \in Steps
    BY DEF Steps
  <2> QED
    BY <2>1, GotoType DEF Begin
<1>2. calls' \in [Metrics -> 0..MaxCalls]
  BY CountType DEF Begin, Metrics
<1>3. next' \in [Pollers -> Nat] /\ size' \in [Pollers -> Nat]
  BY PollerAssumption DEF Begin, TypeOK
<1> QED
  BY <1>1, <1>2, <1>3

LEMMA ClearType ==
  ASSUME TypeOK, NEW p \in Pollers, Clear(p)
  PROVE  /\ place' \in [Machines -> {"parked", "moving", "freed"}]
         /\ normals' \in [Pollers -> Seq(Normals)]
         /\ control' \in [Pollers -> BOOLEAN]
BY DEF TypeOK, Clear

LEMMA PushType ==
  ASSUME TypeOK, NEW p \in Pollers, Head(Queue(p)) \in Normals, PushNormal(p)
  PROVE  normals' \in [Pollers -> Seq(Normals)]
<1>1. Append(normals[p], Head(Queue(p))) \in Seq(Normals)
  BY DEF TypeOK
<1> QED
  BY <1>1 DEF TypeOK, PushNormal

LEMMA PollerTypeStep ==
  ASSUME TypeOK, [Next]_vars
  PROVE  TypeOK'
<1>0. "low" \in Priorities /\ "normal" \in Priorities
  BY DEF Priorities
<1>1. ASSUME NEW m \in Machines, Push(m) PROVE TypeOK'
  BY <1>1 DEF TypeOK, Push, batch
<1>2. ASSUME NEW m \in Machines, Notify(m) PROVE TypeOK'
  <2>1. notifying' \subseteq Machines
    BY <1>2 DEF Notify, TypeOK
  <2>2. CASE place[m] = "parked"
    BY <1>2, <2>1, <2>2 DEF TypeOK, Notify, batch
  <2>3. CASE place[m] # "parked"
    BY <1>2, <2>1, <2>3 DEF TypeOK, Notify, batch
  <2> QED
    BY <2>2, <2>3
<1>3. ASSUME NEW m \in Machines, Schedule(m) PROVE TypeOK'
  <2>1. \A k \in Priorities : Append(chan[k], m) \in Seq(Machines \cup {Empty})
    BY DEF TypeOK
  <2>2. chan' \in [Priorities -> Seq(Machines \cup {Empty})]
    BY <1>3, <2>1 DEF TypeOK, Schedule
  <2> QED
    BY <1>3, <2>2 DEF TypeOK, Schedule, batch
<1>4. CASE Shutdown
  BY <1>4 DEF TypeOK, Shutdown, batch
<1>5. CASE Post
  <2>1. \A k \in Priorities : Append(chan[k], Empty) \in Seq(Machines \cup {Empty})
    BY DEF TypeOK
  <2>2. chan' \in [Priorities -> Seq(Machines \cup {Empty})]
    BY <1>5, <2>1 DEF Post
  <2>3. posted' \in 0..2 * Empties
    BY <1>5, PollerAssumption DEF Post, TypeOK
  <2> QED
    BY <1>5, <2>2, <2>3 DEF TypeOK, Post, batch
<1>6. ASSUME NEW m \in Machines, Close(m) \/ CloseNormal(m) PROVE TypeOK'
  <2>1. CloseMailbox(m) /\ shut' \in {"no", "closing", "posting"}
    BY <1>6 DEF TypeOK, Close, CloseNormal
  <2>2. /\ place' \in [Machines -> {"parked", "moving", "freed"}]
        /\ closed' \in [Machines -> BOOLEAN]
    BY <2>1 DEF TypeOK, CloseMailbox
  <2> QED
    BY <2>1, <2>2 DEF TypeOK, CloseMailbox, batch
<1>7. ASSUME NEW p \in Pollers, Poll(p) PROVE TypeOK'
  <2>0. /\ control[p] \in BOOLEAN /\ Len(normals[p]) \in Nat /\ Len(normals[p]) + 1 \in Nat
        /\ {"fetch", "control", "release", "check", "retake", "normals", "more", "extra",
            "stopped", "panicked"} = Steps
    BY PFacts DEF Steps
  <2>1. CASE FetchNothing(p)
    <3>1. Begin(p, Len(normals[p]), control[p])
      BY <2>1 DEF FetchNothing
    <3>2. /\ at' \in [Pollers -> Steps] /\ next' \in [Pollers -> Nat]
          /\ size' \in [Pollers -> Nat] /\ calls' \in [Metrics -> 0..MaxCalls]
      BY <2>0, <3>1, BeginType
    <3> QED
      BY <2>1, <3>2 DEF TypeOK, FetchNothing
  <2>2. CASE FetchNormal(p)
    <3>1. Begin(p, Len(normals[p]) + 1, FALSE)
      BY <2>2 DEF FetchNormal
    <3>2. /\ at' \in [Pollers -> Steps] /\ next' \in [Pollers -> Nat]
          /\ size' \in [Pollers -> Nat] /\ calls' \in [Metrics -> 0..MaxCalls]
      BY <2>0, <3>1, BeginType
    <3>3. chan' \in [Priorities -> Seq(Machines \cup {Empty})]
      BY <2>2, ReceiveType DEF FetchNormal
    <3>4. normals' \in [Pollers -> Seq(Normals)]
      BY <2>2, PushType DEF FetchNormal
    <3> QED
      BY <2>2, <3>2, <3>3, <3>4 DEF TypeOK, FetchNormal
  <2>3. CASE FetchControl(p)
    <3>1. Begin(p, Len(normals[p]), TRUE)
      BY <2>3 DEF FetchControl
    <3>2. /\ at' \in [Pollers -> Steps] /\ next' \in [Pollers -> Nat]
          /\ size' \in [Pollers -> Nat] /\ calls' \in [Metrics -> 0..MaxCalls]
      BY <2>0, <3>1, BeginType
    <3>3. chan' \in [Priorities -> Seq(Machines \cup {Empty})]
      BY <2>3, ReceiveType DEF FetchControl
    <3> QED
      BY <2>3, <3>2, <3>3 DEF TypeOK, FetchControl
  <2>4. CASE FetchEmpty(p)
    <3>1. at' \in [Pollers -> Steps]
      BY <2>0, <2>4, GotoType DEF FetchEmpty
    <3>2. chan' \in [Priorities -> Seq(Machines \cup {Empty})]
      BY <2>4, ReceiveType DEF FetchEmpty
    <3>3. /\ place' \in [Machines -> {"parked", "moving", "freed"}]
          /\ normals' \in [Pollers -> Seq(Normals)] /\ control' \in [Pollers -> BOOLEAN]
      BY <2>4, ClearType DEF FetchEmpty
    <3> QED
      BY <2>4, <3>1, <3>2, <3>3 DEF TypeOK, FetchEmpty
  <2>5. CASE HandleControl(p)
    <3>1. at' \in [Pollers -> Steps]
      BY <2>0, <2>5, GotoType DEF HandleControl
    <3>2. handled' \in [Machines -> Nat]
      BY <2>5, HandleType DEF HandleControl
    <3>3. calls' \in [Metrics -> 0..MaxCalls]
      BY <2>5, CountType DEF HandleControl, Metrics
    <3> QED
      BY <2>5, <3>1, <3>2, <3>3 DEF TypeOK, HandleControl, batch
  <2>6. CASE ReleaseControl(p)
    <3>1. at' \in [Pollers -> Steps]
      BY <2>0, <2>6, GotoType DEF ReleaseControl
    <3>2. /\ place' \in [Machines -> {"parked", "moving", "freed"}]
          /\ control' \in [Pollers -> BOOLEAN]
      BY <2>6 DEF TypeOK, ReleaseControl
    <3> QED
      BY <2>6, <3>1, <3>2 DEF TypeOK, ReleaseControl
  <2>7. CASE CheckControl(p)
    <3>1. (IF ControlLength = 0 THEN "normals" ELSE "retake") \in Steps
      BY <2>0
    <3>2. at' \in [Pollers -> Steps]
      BY <2>7, <3>1, GotoType DEF CheckControl
    <3> QED
      BY <2>7, <3>2 DEF TypeOK, CheckControl, batch
  <2>16. CASE RetakeControl(p)
    <3>1. at' \in [Pollers -> Steps]
      BY <2>0, <2>16, GotoType DEF RetakeControl
    <3>2. /\ place' \in [Machines -> {"parked", "moving", "freed"}]
          /\ control' \in [Pollers -> BOOLEAN]
      BY <2>16 DEF TypeOK, RetakeControl
    <3> QED
      BY <2>16, <3>1, <3>2 DEF TypeOK, RetakeControl
  <2>8. ASSUME HandleNext(p) PROVE /\ handled' \in [Machines -> Nat]
                                   /\ calls' \in [Metrics -> 0..MaxCalls]
                                   /\ next' \in [Pollers -> Nat]
    <3>1. handled' \in [Machines -> Nat]
      BY <2>8, HandleType DEF HandleNext
    <3>2. calls' \in [Metrics -> 0..MaxCalls]
      BY <2>8, CountType DEF HandleNext, Metrics
    <3>3. next' \in [Pollers -> Nat]
      BY <2>8 DEF HandleNext, TypeOK
    <3> QED
      BY <3>1, <3>2, <3>3
  <2>9. CASE HandleNormal(p)
    <3>1. at' \in [Pollers -> Steps]
      BY <2>0, <2>9, GotoType DEF HandleNormal
    <3>2. HandleNext(p)
      BY <2>9 DEF HandleNormal
    <3> QED
      BY <2>8, <3>1, <3>2 DEF TypeOK, HandleNext
  <2>10. CASE NormalsDone(p)
    <3>1. at' \in [Pollers -> Steps]
      BY <2>0, <2>10, GotoType DEF NormalsDone
    <3> QED
      BY <2>10, <3>1 DEF TypeOK, NormalsDone, batch
  <2>11. CASE MoreNormal(p)
    <3>1. at' \in [Pollers -> Steps]
      BY <2>0, <2>11, GotoType DEF MoreNormal
    <3>2. chan' \in [Priorities -> Seq(Machines \cup {Empty})]
      BY <2>11, ReceiveType DEF MoreNormal
    <3>3. normals' \in [Pollers -> Seq(Normals)]
      BY <2>11, PushType DEF MoreNormal
    <3> QED
      BY <2>11, <3>1, <3>2, <3>3 DEF TypeOK, MoreNormal
  <2>12. CASE HandleExtra(p)
    <3>1. at' \in [Pollers -> Steps]
      BY <2>0, <2>12, GotoType DEF HandleExtra
    <3>2. HandleNext(p)
      BY <2>12 DEF HandleExtra
    <3> QED
      BY <2>8, <3>1, <3>2 DEF TypeOK, HandleNext
  <2>13. CASE MoreControl(p)
    <3>1. (IF control[p] THEN "panicked" ELSE "fetch") \in Steps
      BY <2>0
    <3>2. at' \in [Pollers -> Steps]
      BY <2>13, <3>1, GotoType DEF MoreControl
    <3>3. chan' \in [Priorities -> Seq(Machines \cup {Empty})]
      BY <2>13, ReceiveType DEF MoreControl
    <3> QED
      BY <2>13, <3>2, <3>3 DEF TypeOK, MoreControl
  <2>14. CASE MoreEmpty(p)
    <3>1. at' \in [Pollers -> Steps]
      BY <2>0, <2>14, GotoType DEF MoreEmpty
    <3>2. chan' \in [Priorities -> Seq(Machines \cup {Empty})]
      BY <2>14, ReceiveType DEF MoreEmpty
    <3>3. /\ place' \in [Machines -> {"parked", "moving", "freed"}]
          /\ normals' \in [Pollers -> Seq(Normals)] /\ control' \in [Pollers -> BOOLEAN]
      BY <2>14, ClearType DEF MoreEmpty
    <3> QED
      BY <2>14, <3>1, <3>2, <3>3 DEF TypeOK, MoreEmpty
  <2>15. CASE MoreNothing(p)
    <3>1. at' \in [Pollers -> Steps]
      BY <2>0, <2>15, GotoType DEF MoreNothing
    <3> QED
      BY <2>15, <3>1 DEF TypeOK, MoreNothing, batch
  <2> QED
    BY <1>7, <2>1, <2>2, <2>3, <2>4, <2>5, <2>6, <2>7, <2>9, <2>10, <2>11, <2>12, <2>13,
       <2>14, <2>15, <2>16 DEF Poll
<1>8. CASE UNCHANGED vars
  BY <1>8 DEF TypeOK, vars, batch
<1> QED
  BY <1>1, <1>2, <1>3, <1>4, <1>5, <1>6, <1>7, <1>8 DEF Next, Send, BroadcastShutdown

-----------------------------------------------------------------------------
(* The points of poll *)

(* The first entry of the poller's channel, when it is a machine, is on its way. *)
LEMMA Received ==
  ASSUME TypeOK, NEW p \in Pollers, Queue(p) # <<>>, Head(Queue(p)) \in Machines
  PROVE  Head(Queue(p)) \in OnWay(ChannelOf(p))
<1>1. Queue(p) \in Seq(Machines \cup {Empty}) /\ ChannelOf(p) \in Priorities
  BY PFacts DEF Queue
<1>2. Head(Queue(p)) \in Range(Queue(p))
  BY <1>1, Taken
<1> QED
  BY <1>1, <1>2, PFacts DEF Queue

LEMMA PointKept ==
  ASSUME NEW q, Point(q), at'[q] = at[q], normals'[q] = normals[q], control'[q] = control[q],
         next'[q] = next[q]
  PROVE  Point(q)'
BY DEF Point

(* A control machine that comes in meets none in the batch. *)
LEMMA ControlElsewhere ==
  ASSUME TypeOK, Homed, NEW p \in Pollers, MoreControl(p)
  PROVE  ~control[p]
<1>1. ControlFsm \in OnWay(ChannelOf(p)) /\ ControlFsm \in Machines /\ ChannelOf(p) \in Priorities
  BY Received, PFacts DEF MoreControl
<1>2. ControlFsm \notin Batch(p)
  BY <1>1 DEF Homed, HomeOf
<1> QED
  BY <1>2 DEF Batch

(* No step of poll panics, and a poller that is over stays so. *)
LEMMA NeverPanics ==
  ASSUME TypeOK, Homed, [Next]_vars, NEW p \in Pollers
  PROVE  /\ at'[p] = "panicked" => at[p] = "panicked"
         /\ at[p] \in {"stopped", "panicked"} => at'[p] = at[p]
<1>0. at \in [Pollers -> Steps]
  BY DEF TypeOK
<1>1. CASE at' = at
  BY <1>1
<1>2. ASSUME NEW q \in Pollers, Poll(q)
      PROVE  \E to \in Steps \ {"panicked"} :
               at[q] \notin {"stopped", "panicked"} /\ at' = [at EXCEPT ![q] = to]
  <2> USE DEF Goto, Steps
  <2>1. CASE FetchNothing(q) \/ FetchNormal(q) \/ FetchControl(q)
    <3>1. PICK l, c : Begin(q, l, c)
      BY <2>1 DEF FetchNothing, FetchNormal, FetchControl
    <3> QED
      BY <3>1 DEF Begin
  <2>2. CASE MoreControl(q)
    BY <2>2, ControlElsewhere DEF MoreControl
  <2>3. CASE FetchEmpty(q) \/ HandleControl(q) \/ ReleaseControl(q) \/ RetakeControl(q)
    BY <2>3 DEF FetchEmpty, HandleControl, ReleaseControl, RetakeControl
  <2>6. CASE CheckControl(q)
    BY <2>6 DEF CheckControl
  <2>4. CASE HandleNormal(q) \/ NormalsDone(q) \/ HandleExtra(q)
    BY <2>4 DEF HandleNormal, NormalsDone, HandleExtra
  <2>5. CASE MoreNormal(q) \/ MoreEmpty(q) \/ MoreNothing(q)
    BY <2>5 DEF MoreNormal, MoreEmpty, MoreNothing
  <2> QED
    BY <1>2, <2>1, <2>2, <2>3, <2>4, <2>5, <2>6 DEF Poll
<1>3. ASSUME NEW q \in Pollers, Poll(q)
      PROVE  /\ at'[p] = "panicked" => at[p] = "panicked"
             /\ at[p] \in {"stopped", "panicked"} => at'[p] = at[p]
  BY <1>0, <1>2, <1>3
<1> QED
  BY <1>1, <1>3 DEF Next, Send, BroadcastShutdown, Push, Notify, Schedule, Shutdown, Post, Close,
                    CloseNormal, CloseMailbox, vars

LEMMA PointsStep ==
  ASSUME TypeOK, Points, Homed, [Next]_vars
  PROVE  Points'
<1>1. ASSUME UNCHANGED <<at, normals, control, next>> PROVE Points'
  BY <1>1, PointKept DEF Points
<1>2. ASSUME NEW m \in Machines, Push(m) \/ Send(m) PROVE Points'
  BY <1>1, <1>2 DEF Push, Send, Notify, Schedule, batch
<1>3. CASE Shutdown \/ BroadcastShutdown \/ \E m \in Machines : CloseNormal(m)
  BY <1>1, <1>3 DEF Shutdown, BroadcastShutdown, Post, Close, CloseNormal, CloseMailbox, batch
<1>4. ASSUME NEW p \in Pollers, Poll(p) PROVE Points'
  <2>0. /\ at \in [Pollers -> Steps] /\ normals \in [Pollers -> Seq(Normals)]
        /\ control \in [Pollers -> BOOLEAN] /\ next \in [Pollers -> Nat]
        /\ Point(p) /\ \A q \in Pollers : Point(q)
        /\ normals[p] \in Seq(Normals) /\ Len(normals[p]) \in Nat /\ next[p] \in Nat
        /\ control[p] \in BOOLEAN
    BY PFacts DEF TypeOK, Points
  <2>1. ASSUME Point(p)',
               \A q \in Pollers \ {p} : /\ at'[q] = at[q] /\ normals'[q] = normals[q]
                                        /\ control'[q] = control[q] /\ next'[q] = next[q]
        PROVE  Points'
    BY <2>0, <2>1, PointKept DEF Points
  <2>2. ASSUME Poll(p)
        PROVE  \A q \in Pollers \ {p} : /\ at'[q] = at[q] /\ normals'[q] = normals[q]
                                        /\ control'[q] = control[q] /\ next'[q] = next[q]
    <3>1. ASSUME NEW from, NEW to, Goto(p, from, to)
          PROVE  \A q \in Pollers \ {p} : at'[q] = at[q]
      BY <2>0, <3>1 DEF Goto
    <3>2. ASSUME NEW l, NEW c, Begin(p, l, c)
          PROVE  \A q \in Pollers \ {p} : at'[q] = at[q] /\ next'[q] = next[q]
      BY <2>0, <3>2, <3>1 DEF Begin
    <3>3. ASSUME Clear(p)
          PROVE  \A q \in Pollers \ {p} : normals'[q] = normals[q] /\ control'[q] = control[q]
      BY <2>0, <3>3 DEF Clear
    <3>4. ASSUME PushNormal(p) PROVE \A q \in Pollers \ {p} : normals'[q] = normals[q]
      BY <2>0, <3>4 DEF PushNormal
    <3>5. ASSUME HandleNext(p)
          PROVE  /\ normals' = normals /\ control' = control
                 /\ \A q \in Pollers \ {p} : next'[q] = next[q]
      BY <2>0, <3>5 DEF HandleNext
    <3>6. CASE FetchNothing(p)
      BY <3>2, <3>6 DEF FetchNothing
    <3>7. CASE FetchNormal(p)
      BY <3>2, <3>4, <3>7 DEF FetchNormal
    <3>8. CASE FetchControl(p)
      BY <2>0, <3>2, <3>8 DEF FetchControl
    <3>9. CASE FetchEmpty(p) \/ MoreEmpty(p)
      BY <3>1, <3>3, <3>9 DEF FetchEmpty, MoreEmpty
    <3>10. CASE HandleControl(p) \/ CheckControl(p) \/ NormalsDone(p) \/ MoreNothing(p)
      BY <3>1, <3>10 DEF HandleControl, CheckControl, NormalsDone, MoreNothing, batch
    <3>11. CASE ReleaseControl(p) \/ RetakeControl(p)
      BY <2>0, <3>1, <3>11 DEF ReleaseControl, RetakeControl
    <3>12. CASE HandleNormal(p) \/ HandleExtra(p)
      BY <3>1, <3>5, <3>12 DEF HandleNormal, HandleExtra
    <3>13. CASE MoreNormal(p)
      BY <3>1, <3>4, <3>13 DEF MoreNormal
    <3>14. CASE MoreControl(p)
      BY <2>0, <3>1, <3>14 DEF MoreControl
    <3> QED
      BY <2>2, <3>6, <3>7, <3>8, <3>9, <3>10, <3>11, <3>12, <3>13, <3>14 DEF Poll
  <2> SUFFICES Point(p)'
    BY <1>4, <2>1, <2>2
  <2>3. ASSUME NEW from, NEW to, Goto(p, from, to) PROVE at[p] = from /\ at'[p] = to
    BY <2>0, <2>3 DEF Goto
  <2>4. ASSUME NEW l, NEW c, Begin(p, l, c)
        PROVE  next'[p] = 1 /\ at'[p] = IF c THEN "control" ELSE "normals"
    BY <2>0, <2>3, <2>4 DEF Begin
  <2>5. ASSUME Head(Queue(p)) \in Normals, PushNormal(p)
        PROVE  normals'[p] \in Seq(Normals) /\ Len(normals'[p]) = Len(normals[p]) + 1
    <3>1. normals'[p] = Append(normals[p], Head(Queue(p)))
      BY <2>0, <2>5 DEF PushNormal
    <3> QED
      BY <2>0, <2>5, <3>1
  <2>6. CASE FetchNothing(p)
    BY <2>0, <2>4, <2>6 DEF FetchNothing, Point
  <2>7. CASE FetchNormal(p)
    <3>1. Begin(p, Len(normals[p]) + 1, FALSE)
      BY <2>7 DEF FetchNormal
    <3>2. next'[p] = 1 /\ at'[p] = "normals"
      BY <2>4, <3>1
    <3> QED
      BY <2>0, <2>5, <2>7, <3>2 DEF FetchNormal, Point
  <2>8. CASE FetchControl(p)
    <3>1. control'[p] = TRUE
      BY <2>0, <2>8 DEF FetchControl
    <3>2. Begin(p, Len(normals[p]), TRUE)
      BY <2>8 DEF FetchControl
    <3>3. next'[p] = 1 /\ at'[p] = "control"
      BY <2>4, <3>2
    <3> QED
      BY <2>0, <2>8, <3>1, <3>3 DEF FetchControl, Point
  <2>9. CASE FetchEmpty(p) \/ MoreEmpty(p)
    <3>1. normals'[p] = <<>> /\ control'[p] = FALSE
      BY <2>0, <2>9 DEF FetchEmpty, MoreEmpty, Clear
    <3> QED
      BY <2>0, <2>3, <2>9, <3>1 DEF FetchEmpty, MoreEmpty, Point
  <2>10. CASE HandleControl(p)
    BY <2>0, <2>3, <2>10 DEF HandleControl, Point, batch
  <2>11. CASE ReleaseControl(p)
    <3>1. control'[p] = FALSE
      BY <2>0, <2>11 DEF ReleaseControl
    <3> QED
      BY <2>0, <2>3, <2>11, <3>1 DEF ReleaseControl, Point
  <2>12. CASE CheckControl(p)
    <3>1. at'[p] \in {"normals", "retake"} /\ at[p] = "check"
      BY <2>3, <2>12 DEF CheckControl
    <3> QED
      BY <2>0, <2>12, <3>1 DEF CheckControl, Point, batch
  <2>19. CASE RetakeControl(p)
    BY <2>0, <2>3, <2>19 DEF RetakeControl, Point
  <2>13. CASE HandleNormal(p)
    <3>1. next'[p] = next[p] + 1
      BY <2>0, <2>13 DEF HandleNormal, HandleNext
    <3> QED
      BY <2>0, <2>3, <2>13, <3>1 DEF HandleNormal, HandleNext, Point
  <2>14. CASE NormalsDone(p)
    BY <2>0, <2>3, <2>14 DEF NormalsDone, Point, batch
  <2>15. CASE MoreNormal(p)
    BY <2>0, <2>3, <2>5, <2>15 DEF MoreNormal, Point
  <2>16. CASE HandleExtra(p)
    <3>1. next'[p] = next[p] + 1
      BY <2>0, <2>16 DEF HandleExtra, HandleNext
    <3> QED
      BY <2>0, <2>3, <2>16, <3>1 DEF HandleExtra, HandleNext, Point
  <2>17. CASE MoreControl(p)
    <3>3. ~control[p]
      BY <2>17, ControlElsewhere
    <3> QED
      BY <2>0, <2>3, <2>17, <3>3 DEF MoreControl, Point
  <2>18. CASE MoreNothing(p)
    BY <2>0, <2>3, <2>18 DEF MoreNothing, Point, batch
  <2> QED
    BY <1>4, <2>6, <2>7, <2>8, <2>9, <2>10, <2>11, <2>12, <2>13, <2>14, <2>15, <2>16, <2>17, <2>18,
       <2>19 DEF Poll
<1>5. CASE UNCHANGED vars
  BY <1>1, <1>5 DEF vars, batch
<1> QED
  BY <1>2, <1>3, <1>4, <1>5 DEF Next

-----------------------------------------------------------------------------
(* The homes of the machines *)

(* How the channels and the batches change. *)
LEMMA WayReceive ==
  ASSUME TypeOK, Onces, NEW p \in Pollers, Queue(p) # <<>>, Receive(p)
  PROVE  \A k \in Priorities :
           /\ Once(chan'[k])
           /\ OnWay(k)' = IF k = ChannelOf(p) THEN OnWay(k) \ {Head(Queue(p))} ELSE OnWay(k)
<1>1. /\ Queue(p) \in Seq(Machines \cup {Empty}) /\ ChannelOf(p) \in Priorities
      /\ chan[ChannelOf(p)] = Queue(p) /\ DOMAIN chan = Priorities /\ Once(Queue(p))
  BY PFacts DEF Queue, TypeOK, Onces
<1>2. /\ Range(Queue(p)) = Range(Tail(Queue(p))) \cup {Head(Queue(p))}
      /\ Once(Tail(Queue(p)))
      /\ Head(Queue(p)) # Empty => Head(Queue(p)) \notin Range(Tail(Queue(p)))
  BY <1>1, Taken
<1>3. ASSUME NEW k \in Priorities, k # ChannelOf(p)
      PROVE  Once(chan'[k]) /\ OnWay(k)' = OnWay(k)
  <2>1. chan'[k] = chan[k]
    BY <1>1, <1>3 DEF Receive
  <2> QED
    BY <2>1 DEF Onces, OnWay
<1>4. chan'[ChannelOf(p)] = Tail(Queue(p))
  BY <1>1 DEF Receive
<1>5. /\ Once(chan'[ChannelOf(p)])
      /\ OnWay(ChannelOf(p))' = OnWay(ChannelOf(p)) \ {Head(Queue(p))}
  BY <1>1, <1>2, <1>4 DEF OnWay
<1> QED
  BY <1>3, <1>5

LEMMA WayAppend ==
  ASSUME TypeOK, Onces, NEW k \in Priorities, NEW x \in Machines \cup {Empty},
         x \notin OnWay(k), chan'[k] = Append(chan[k], x)
  PROVE  Once(chan'[k]) /\ OnWay(k)' = OnWay(k) \cup ({x} \ {Empty})
<1>1. chan[k] \in Seq(Machines \cup {Empty}) /\ Once(chan[k])
  BY PFacts DEF Onces
<1>2. x \notin Range(chan[k]) \ {Empty}
  BY DEF OnWay
<1>3. Range(Append(chan[k], x)) = Range(chan[k]) \cup {x} /\ Once(Append(chan[k], x))
  BY <1>1, <1>2, Appended
<1> QED
  BY <1>3 DEF OnWay

LEMMA BatchPush ==
  ASSUME TypeOK, Onces, NEW p \in Pollers, Head(Queue(p)) \in Normals,
         Head(Queue(p)) \notin Batch(p), PushNormal(p), control' = control
  PROVE  /\ \A q \in Pollers : Batch(q)' = IF q = p THEN Batch(q) \cup {Head(Queue(p))} ELSE Batch(q)
         /\ \A q \in Pollers : Once(normals'[q])
         /\ \A q \in Pollers : Range(normals'[q])
               = IF q = p THEN Range(normals[q]) \cup {Head(Queue(p))} ELSE Range(normals[q])
<1> DEFINE x == Head(Queue(p))
<1>1. /\ normals[p] \in Seq(Normals) /\ Once(normals[p]) /\ DOMAIN normals = Pollers
      /\ x \notin Range(normals[p]) /\ x \in Normals
  BY PFacts DEF Onces, TypeOK, Batch
<1>2. normals' = [normals EXCEPT ![p] = Append(normals[p], x)]
  BY DEF PushNormal
<1> HIDE DEF x
<1>3. Range(Append(normals[p], x)) = Range(normals[p]) \cup {x} /\ Once(Append(normals[p], x))
  BY <1>1, Appended
<1>4. normals'[p] = Append(normals[p], x) /\ \A q \in Pollers \ {p} : normals'[q] = normals[q]
  BY <1>1, <1>2
<1>5. ASSUME NEW q \in Pollers
      PROVE  /\ Batch(q)' = IF q = p THEN Batch(q) \cup {x} ELSE Batch(q)
             /\ Once(normals'[q])
             /\ Range(normals'[q]) = IF q = p THEN Range(normals[q]) \cup {x} ELSE Range(normals[q])
  <2>1. CASE q = p
    BY <1>3, <1>4, <2>1 DEF Batch
  <2>2. CASE q # p
    BY <1>4, <2>2 DEF Batch, Onces
  <2> QED
    BY <2>1, <2>2
<1> QED
  BY <1>5 DEF x

LEMMA BatchControl ==
  ASSUME TypeOK, NEW p \in Pollers, NEW c \in BOOLEAN, normals' = normals,
         control' = [control EXCEPT ![p] = c]
  PROVE  \A q \in Pollers :
           Batch(q)' = IF q # p THEN Batch(q)
                       ELSE IF c THEN Batch(q) \cup {ControlFsm} ELSE Batch(q) \ {ControlFsm}
<1>1. /\ control'[p] = c /\ \A q \in Pollers \ {p} : control'[q] = control[q]
      /\ ControlFsm \notin Range(normals[p])
  BY PFacts, PollerAssumption DEF TypeOK
<1>2. ASSUME NEW q \in Pollers, q # p PROVE Batch(q)' = Batch(q)
  BY <1>1, <1>2 DEF Batch
<1>3. Batch(p)' = IF c THEN Batch(p) \cup {ControlFsm} ELSE Batch(p) \ {ControlFsm}
  BY <1>1 DEF Batch
<1> QED
  BY <1>2, <1>3

LEMMA BatchClear ==
  ASSUME TypeOK, Onces, NEW p \in Pollers, Clear(p)
  PROVE  /\ \A q \in Pollers : /\ Batch(q)' = IF q = p THEN {} ELSE Batch(q)
                               /\ Once(normals'[q])
                               /\ Range(normals'[q]) \subseteq Range(normals[q])
         /\ \A m \in Machines : place'[m] = IF m \in Batch(p) THEN "freed" ELSE place[m]
<1>1. /\ normals'[p] = <<>> /\ control'[p] = FALSE
      /\ \A q \in Pollers \ {p} : normals'[q] = normals[q] /\ control'[q] = control[q]
  BY DEF Clear, TypeOK
<1>2. Range(<<>>) = {} /\ Once(<<>>)
  BY DEF Range, Once
<1>3. ASSUME NEW q \in Pollers, q # p
      PROVE Batch(q)' = Batch(q) /\ Once(normals'[q]) /\ Range(normals'[q]) = Range(normals[q])
  BY <1>1, <1>3 DEF Batch, Onces
<1>4. Batch(p)' = {} /\ Once(normals'[p]) /\ Range(normals'[p]) = {}
  BY <1>1, <1>2 DEF Batch
<1>5. \A m \in Machines : place'[m] = IF m \in Batch(p) THEN "freed" ELSE place[m]
  BY DEF Clear, Batch
<1> QED
  BY <1>3, <1>4, <1>5

(* What each way of a machine makes of its home.  A machine is received, *)
LEMMA HomeReceived ==
  ASSUME Homed, NEW p \in Pollers, NEW c \in Priorities, NEW x \in Machines, x \in OnWay(c),
         place' = place, inHand' = inHand,
         \A k \in Priorities : OnWay(k)' = IF k = c THEN OnWay(k) \ {x} ELSE OnWay(k),
         \A q \in Pollers : Batch(q)' = IF q = p THEN Batch(q) \cup {x} ELSE Batch(q)
  PROVE  Homed'
<1> SUFFICES ASSUME NEW m \in Machines PROVE HomeOf(m)'
  BY DEF Homed
<1>1. HomeOf(m) /\ HomeOf(x)
  BY DEF Homed
<1>2. CASE m = x
  <2>1. /\ place[x] = "moving" /\ x \notin inHand
        /\ \A k \in Priorities : x \in OnWay(k) => k = c
        /\ \A q \in Pollers : x \notin Batch(q)
    BY <1>1 DEF HomeOf
  <2>2. /\ \A k \in Priorities : x \notin OnWay(k)'
        /\ \A q \in Pollers : x \in Batch(q)' <=> q = p
    BY <2>1
  <2> QED
    BY <1>2, <2>1, <2>2 DEF HomeOf
<1>3. CASE m # x
  <2>1. /\ \A k \in Priorities : m \in OnWay(k)' <=> m \in OnWay(k)
        /\ \A q \in Pollers : m \in Batch(q)' <=> m \in Batch(q)
    BY <1>3
  <2> QED
    BY <1>1, <2>1 DEF HomeOf
<1> QED
  BY <1>2, <1>3

(* scheduled, *)
LEMMA HomeScheduled ==
  ASSUME Homed, NEW x \in Machines, x \in inHand, PriorityOf(x) \in Priorities,
         place' = place, inHand' = inHand \ {x},
         \A k \in Priorities :
           OnWay(k)' = IF k = PriorityOf(x) THEN OnWay(k) \cup {x} ELSE OnWay(k),
         \A q \in Pollers : Batch(q)' = Batch(q)
  PROVE  Homed'
<1> SUFFICES ASSUME NEW m \in Machines PROVE HomeOf(m)'
  BY DEF Homed
<1>1. HomeOf(m) /\ HomeOf(x)
  BY DEF Homed
<1>2. CASE m = x
  <2>1. /\ place[x] = "moving" /\ x \notin inHand'
        /\ \A k \in Priorities : x \in OnWay(k)' <=> k = PriorityOf(x)
        /\ \A q \in Pollers : x \notin Batch(q)'
    BY <1>1 DEF HomeOf
  <2> QED
    BY <1>2, <2>1 DEF HomeOf
<1>3. CASE m # x
  <2>1. /\ \A k \in Priorities : m \in OnWay(k)' <=> m \in OnWay(k)
        /\ m \in inHand' <=> m \in inHand
    BY <1>3
  <2> QED
    BY <1>1, <2>1 DEF HomeOf
<1> QED
  BY <1>2, <1>3

(* taken out of its mailbox by a sender or a poller, *)
LEMMA HomeTaken ==
  ASSUME Homed, NEW x \in Machines, place[x] # "moving", place'[x] = "moving",
         \A m \in Machines \ {x} : place'[m] = place[m],
         \A k \in Priorities : OnWay(k)' = OnWay(k),
         \/ inHand' = inHand \cup {x} /\ \A q \in Pollers : Batch(q)' = Batch(q)
         \/ /\ inHand' = inHand
            /\ \E p \in Pollers : \A q \in Pollers :
                 Batch(q)' = IF q = p THEN Batch(q) \cup {x} ELSE Batch(q)
  PROVE  Homed'
<1> SUFFICES ASSUME NEW m \in Machines PROVE HomeOf(m)'
  BY DEF Homed
<1>1. HomeOf(m) /\ HomeOf(x)
  BY DEF Homed
<1>2. CASE m = x
  <2>1. /\ x \notin inHand /\ \A k \in Priorities : x \notin OnWay(k)'
        /\ \A q \in Pollers : x \notin Batch(q)
    BY <1>1 DEF HomeOf
  <2> QED
    BY <1>2, <2>1 DEF HomeOf
<1>3. CASE m # x
  <2>1. /\ \A k \in Priorities : m \in OnWay(k)' <=> m \in OnWay(k)
        /\ m \in inHand' <=> m \in inHand
        /\ \A q \in Pollers : m \in Batch(q)' <=> m \in Batch(q)
        /\ place'[m] = place[m]
    BY <1>3
  <2> QED
    BY <1>1, <2>1 DEF HomeOf
<1> QED
  BY <1>2, <1>3

(* parked or freed by the poller that has it, *)
LEMMA HomeLeft ==
  ASSUME Homed, NEW p \in Pollers, NEW X \in SUBSET Batch(p),
         \A m \in Machines : IF m \in X THEN place'[m] # "moving" ELSE place'[m] = place[m],
         inHand' = inHand,
         \A k \in Priorities : OnWay(k)' = OnWay(k),
         \A q \in Pollers : Batch(q)' = IF q = p THEN Batch(q) \ X ELSE Batch(q)
  PROVE  Homed'
<1> SUFFICES ASSUME NEW m \in Machines PROVE HomeOf(m)'
  BY DEF Homed
<1>1. HomeOf(m)
  BY DEF Homed
<1>2. CASE m \in X
  <2>1. /\ m \notin inHand' /\ \A k \in Priorities : m \notin OnWay(k)'
        /\ \A q \in Pollers : m \in Batch(q) => q = p
    BY <1>1, <1>2 DEF HomeOf
  <2>2. \A q \in Pollers : m \notin Batch(q)'
    BY <1>2, <2>1
  <2> QED
    BY <1>2, <2>1, <2>2 DEF HomeOf
<1>3. CASE m \notin X
  <2>1. /\ \A q \in Pollers : m \in Batch(q)' <=> m \in Batch(q)
        /\ place'[m] = place[m]
    BY <1>3
  <2> QED
    BY <1>1, <2>1 DEF HomeOf
<1> QED
  BY <1>2, <1>3

(* or freed in its mailbox, if at all. *)
LEMMA HomeKept ==
  ASSUME Homed, inHand' = inHand,
         \A m \in Machines : place'[m] = "moving" <=> place[m] = "moving",
         \A k \in Priorities : OnWay(k)' = OnWay(k),
         \A q \in Pollers : Batch(q)' = Batch(q)
  PROVE  Homed'
BY DEF Homed, HomeOf

LEMMA HomesStep ==
  ASSUME TypeOK, Points, Homed, Onces, PriorityKept, [Next]_vars
  PROVE  Homed' /\ Onces' /\ PriorityKept'
<1> USE PFacts
<1>0. ASSUME normals' = normals, control' = control
      PROVE  /\ \A q \in Pollers : Batch(q)' = Batch(q) /\ Once(normals'[q])
             /\ PriorityKept'
  BY <1>0 DEF Batch, Onces, PriorityKept
<1>1. ASSUME chan' = chan PROVE \A k \in Priorities : OnWay(k)' = OnWay(k) /\ Once(chan'[k])
  BY <1>1 DEF OnWay, Onces
<1>2. ASSUME UNCHANGED <<place, inHand, chan, normals, control>>
      PROVE  Homed' /\ Onces' /\ PriorityKept'
  <2>1. Homed'
    BY <1>0, <1>1, <1>2, HomeKept
  <2> QED
    BY <1>0, <1>1, <1>2, <2>1 DEF Onces
<1>3. ASSUME NEW m \in Machines, Push(m) PROVE Homed' /\ Onces' /\ PriorityKept'
  BY <1>2, <1>3 DEF Push, batch
<1>4. ASSUME NEW m \in Machines, Notify(m) PROVE Homed' /\ Onces' /\ PriorityKept'
  <2>1. chan' = chan /\ normals' = normals /\ control' = control
    BY <1>4 DEF Notify, batch
  <2>2. CASE place[m] = "parked"
    <3>1. /\ place'[m] = "moving" /\ \A n \in Machines \ {m} : place'[n] = place[n]
          /\ inHand' = inHand \cup {m} /\ place[m] # "moving"
      BY <1>4, <2>2 DEF Notify, TypeOK
    <3>2. Homed'
      BY <1>0, <1>1, <2>1, <3>1, HomeTaken
    <3> QED
      BY <1>0, <1>1, <2>1, <3>2 DEF Onces
  <2>3. CASE place[m] # "parked"
    BY <1>2, <1>4, <2>1, <2>3 DEF Notify
  <2> QED
    BY <2>2, <2>3
<1>5. ASSUME NEW m \in Machines, Schedule(m) PROVE Homed' /\ Onces' /\ PriorityKept'
  <2>1. /\ m \in inHand /\ inHand' = inHand \ {m} /\ place' = place
        /\ normals' = normals /\ control' = control
        /\ chan' = [chan EXCEPT ![PriorityOf(m)] = Append(chan[PriorityOf(m)], m)]
    BY <1>5 DEF Schedule, batch
  <2>2. /\ chan'[PriorityOf(m)] = Append(chan[PriorityOf(m)], m)
        /\ \A k \in Priorities \ {PriorityOf(m)} : chan'[k] = chan[k]
        /\ m \notin OnWay(PriorityOf(m)) /\ {m} \ {Empty} = {m}
    BY <2>1 DEF TypeOK, Homed, HomeOf
  <2>3. Once(chan'[PriorityOf(m)]) /\ OnWay(PriorityOf(m))' = OnWay(PriorityOf(m)) \cup {m}
    BY <2>2, WayAppend
  <2>4. ASSUME NEW k \in Priorities
        PROVE  /\ OnWay(k)' = IF k = PriorityOf(m) THEN OnWay(k) \cup {m} ELSE OnWay(k)
               /\ Once(chan'[k])
    BY <2>2, <2>3 DEF OnWay, Onces
  <2>5. Homed'
    BY <1>0, <2>1, <2>4, HomeScheduled
  <2> QED
    BY <1>0, <2>1, <2>4, <2>5 DEF Onces
<1>6. CASE Shutdown
  BY <1>2, <1>6 DEF Shutdown, batch
<1>7. CASE Post
  <2>1. /\ inHand' = inHand /\ place' = place /\ normals' = normals /\ control' = control
        /\ \A k \in Priorities : chan'[k] = Append(chan[k], Empty) /\ Empty \notin OnWay(k)
    BY <1>7 DEF Post, batch
  <2>2. \A k \in Priorities : Once(chan'[k]) /\ OnWay(k)' = OnWay(k)
    <3> TAKE k \in Priorities
    <3>1. Once(chan'[k]) /\ OnWay(k)' = OnWay(k) \cup ({Empty} \ {Empty})
      BY <2>1, WayAppend
    <3>2. OnWay(k) \cup ({Empty} \ {Empty}) = OnWay(k)
      OBVIOUS
    <3> QED
      BY <3>1, <3>2
  <2>3. Homed'
    BY <1>0, <2>1, <2>2, HomeKept
  <2> QED
    BY <1>0, <2>1, <2>2, <2>3 DEF Onces
<1>8. ASSUME NEW m \in Machines, Close(m) \/ CloseNormal(m)
      PROVE  Homed' /\ Onces' /\ PriorityKept'
  <2>1. /\ chan' = chan /\ normals' = normals /\ control' = control /\ inHand' = inHand
        /\ \A n \in Machines : place'[n] = "moving" <=> place[n] = "moving"
    BY <1>8 DEF Close, CloseNormal, CloseMailbox, batch, TypeOK
  <2>2. Homed'
    BY <1>0, <1>1, <2>1, HomeKept
  <2> QED
    BY <1>0, <1>1, <2>1, <2>2 DEF Onces
<1>9. ASSUME NEW p \in Pollers, Poll(p) PROVE Homed' /\ Onces' /\ PriorityKept'
  <2> DEFINE x == Head(Queue(p))
  <2>1. ASSUME Queue(p) # <<>>, x \in Machines, Receive(p)
        PROVE  /\ x \in OnWay(ChannelOf(p)) /\ PriorityOf(x) = ChannelOf(p)
               /\ \A q \in Pollers : x \notin Batch(q)
               /\ \A k \in Priorities :
                    /\ Once(chan'[k])
                    /\ OnWay(k)' = IF k = ChannelOf(p) THEN OnWay(k) \ {x} ELSE OnWay(k)
    <3>1. x \in OnWay(ChannelOf(p))
      BY <2>1, Received
    <3>2. HomeOf(x)
      BY <2>1 DEF Homed
    <3>3. \A k \in Priorities :
            /\ Once(chan'[k])
            /\ OnWay(k)' = IF k = ChannelOf(p) THEN OnWay(k) \ {x} ELSE OnWay(k)
      BY <2>1, WayReceive
    <3> QED
      BY <3>1, <3>2, <3>3 DEF HomeOf
  <2>2. ASSUME Queue(p) # <<>>, x \in Normals, Receive(p), PushNormal(p),
               UNCHANGED <<place, inHand, control>>
        PROVE  Homed' /\ Onces' /\ PriorityKept'
    <3>1. x \in Machines
      BY <2>2
    <3>2. /\ \A q \in Pollers : Batch(q)' = IF q = p THEN Batch(q) \cup {x} ELSE Batch(q)
          /\ \A q \in Pollers : Once(normals'[q])
          /\ \A q \in Pollers : Range(normals'[q])
                = IF q = p THEN Range(normals[q]) \cup {x} ELSE Range(normals[q])
      BY <2>1, <2>2, <3>1, BatchPush
    <3>3. Homed'
      BY <2>1, <2>2, <3>1, <3>2, HomeReceived
    <3>4. PriorityKept'
      BY <2>1, <2>2, <3>1, <3>2 DEF PriorityKept
    <3> QED
      BY <2>1, <2>2, <3>1, <3>2, <3>3, <3>4 DEF Onces
  <2>3. ASSUME Queue(p) # <<>>, x = ControlFsm, Receive(p),
               UNCHANGED <<place, inHand, normals>>, control' = [control EXCEPT ![p] = TRUE]
        PROVE  Homed' /\ Onces' /\ PriorityKept'
    <3>1. x \in Machines
      BY <2>3
    <3>2. \A q \in Pollers : Batch(q)' = IF q = p THEN Batch(q) \cup {x} ELSE Batch(q)
      BY <2>3, BatchControl
    <3>3. Homed'
      BY <2>1, <2>3, <3>1, <3>2, HomeReceived
    <3> QED
      BY <2>1, <2>3, <3>1, <3>3 DEF Onces, PriorityKept
  <2>4. ASSUME Queue(p) # <<>>, x = Empty, Receive(p), Clear(p), UNCHANGED inHand
        PROVE  Homed' /\ Onces' /\ PriorityKept'
    <3>1. \A k \in Priorities : Once(chan'[k]) /\ OnWay(k)' = OnWay(k)
      <4> TAKE k \in Priorities
      <4>1. /\ Once(chan'[k])
            /\ OnWay(k)' = IF k = ChannelOf(p) THEN OnWay(k) \ {Empty} ELSE OnWay(k)
        BY <2>4, WayReceive
      <4>2. Empty \notin OnWay(k)
        OBVIOUS
      <4>3. OnWay(k) \ {Empty} = OnWay(k)
        BY <4>2
      <4> QED
        BY <4>1, <4>3
    <3>2. /\ \A q \in Pollers : /\ Batch(q)' = IF q = p THEN Batch(q) \ Batch(p) ELSE Batch(q)
                                /\ Once(normals'[q])
                                /\ Range(normals'[q]) \subseteq Range(normals[q])
          /\ \A m \in Machines : IF m \in Batch(p) THEN place'[m] # "moving"
                                  ELSE place'[m] = place[m]
      BY <2>4, BatchClear
    <3>3. Homed'
      BY <2>4, <3>1, <3>2, HomeLeft
    <3> QED
      BY <3>1, <3>2, <3>3 DEF Onces, PriorityKept
  <2>5. CASE FetchNothing(p)
    BY <1>2, <2>5 DEF FetchNothing
  <2>6. CASE FetchNormal(p) \/ MoreNormal(p)
    BY <2>2, <2>6 DEF FetchNormal, MoreNormal
  <2>7. CASE FetchControl(p) \/ MoreControl(p)
    BY <2>3, <2>7 DEF FetchControl, MoreControl
  <2>8. CASE FetchEmpty(p) \/ MoreEmpty(p)
    BY <2>4, <2>8 DEF FetchEmpty, MoreEmpty
  <2>9. CASE HandleControl(p) \/ CheckControl(p) \/ NormalsDone(p) \/ MoreNothing(p)
    BY <1>2, <2>9 DEF HandleControl, CheckControl, NormalsDone, MoreNothing, batch
  <2>10. CASE HandleNormal(p) \/ HandleExtra(p)
    BY <1>2, <2>10 DEF HandleNormal, HandleExtra, HandleNext
  <2>11. CASE ReleaseControl(p)
    <3>1. /\ chan' = chan /\ normals' = normals /\ inHand' = inHand
          /\ control' = [control EXCEPT ![p] = FALSE]
          /\ {ControlFsm} \subseteq Batch(p)
          /\ \A m \in Machines : IF m \in {ControlFsm} THEN place'[m] # "moving"
                                  ELSE place'[m] = place[m]
      BY <2>11 DEF ReleaseControl, Goto, Points, Point, Batch, TypeOK
    <3>2. \A q \in Pollers : Batch(q)' = IF q = p THEN Batch(q) \ {ControlFsm} ELSE Batch(q)
      BY <3>1, BatchControl
    <3>3. Homed'
      BY <1>1, <3>1, <3>2, HomeLeft
    <3> QED
      BY <1>1, <3>1, <3>3 DEF Onces, PriorityKept
  <2>12. CASE RetakeControl(p)
    <3>1. chan' = chan /\ normals' = normals /\ inHand' = inHand
      BY <2>12 DEF RetakeControl
    <3>2. CASE place[ControlFsm] = "parked"
      <4>1. /\ place'[ControlFsm] = "moving" /\ place[ControlFsm] # "moving"
            /\ \A m \in Machines \ {ControlFsm} : place'[m] = place[m]
            /\ control' = [control EXCEPT ![p] = TRUE]
        BY <2>12, <3>2 DEF RetakeControl, TypeOK
      <4>2. \A q \in Pollers : Batch(q)' = IF q = p THEN Batch(q) \cup {ControlFsm} ELSE Batch(q)
        BY <3>1, <4>1, BatchControl
      <4>3. Homed'
        BY <1>1, <3>1, <4>1, <4>2, HomeTaken
      <4> QED
        BY <1>1, <3>1, <4>3 DEF Onces, PriorityKept
    <3>3. CASE place[ControlFsm] # "parked"
      BY <1>2, <2>12, <3>1, <3>3 DEF RetakeControl
    <3> QED
      BY <3>2, <3>3
  <2> QED
    BY <1>9, <2>5, <2>6, <2>7, <2>8, <2>9, <2>10, <2>11, <2>12 DEF Poll
<1>10. CASE UNCHANGED vars
  BY <1>2, <1>10 DEF vars, batch
<1> QED
  BY <1>3, <1>4, <1>5, <1>6, <1>7, <1>8, <1>9, <1>10 DEF Next, Send, BroadcastShutdown

-----------------------------------------------------------------------------
(* The shutdown *)

LEMMA ShuttingStep ==
  ASSUME TypeOK, Homed, Shutting, [Next]_vars
  PROVE  Shutting'
<1>0. /\ ControlFsm \in Machines /\ Machines = Normals \cup {ControlFsm}
      /\ place \in [Machines -> {"parked", "moving", "freed"}]
      /\ closed \in [Machines -> BOOLEAN]
  BY DEF TypeOK, Machines
<1>1. ASSUME closed' = closed, shut' = shut,
             \A m \in Machines : place'[m] = "parked" => place[m] = "parked" \/ ~closed[m]
      PROVE  Shutting'
  BY <1>1 DEF Shutting
<1>2. ASSUME NEW m \in Machines, Push(m) \/ Schedule(m) PROVE Shutting'
  BY <1>1, <1>2 DEF Push, Schedule
<1>3. ASSUME NEW m \in Machines, Notify(m) PROVE Shutting'
  <2>1. closed' = closed /\ shut' = shut
    BY <1>3 DEF Notify
  <2>2. CASE place[m] = "parked"
    BY <1>0, <1>1, <1>3, <2>1, <2>2 DEF Notify
  <2>3. CASE place[m] # "parked"
    BY <1>1, <1>3, <2>1, <2>3 DEF Notify
  <2> QED
    BY <2>2, <2>3
<1>4. CASE Shutdown
  BY <1>4 DEF Shutdown, Shutting
<1>5. CASE Post
  BY <1>1, <1>5 DEF Post
<1>6. ASSUME NEW m \in Machines, Close(m) \/ CloseNormal(m) PROVE Shutting'
  <2>0. CloseMailbox(m)
    BY <1>6 DEF Close, CloseNormal
  <2>1. /\ closed'[m] = TRUE /\ \A n \in Machines \ {m} : closed'[n] = closed[n]
        /\ place'[m] # "parked" /\ \A n \in Machines \ {m} : place'[n] = place[n]
    BY <1>0, <2>0 DEF CloseMailbox
  <2>2. \A n \in Machines : closed'[n] => place'[n] # "parked"
    BY <2>1 DEF Shutting
  <2>3. shut' = "posting" => \A n \in Machines : closed'[n]
    <3>1. CASE Close(m)
      <4>1. /\ shut' = "posting" /\ shut = "closing" => m = ControlFsm
            /\ shut = "closing" /\ (m = ControlFsm => \A n \in Normals : closed[n])
        BY <3>1 DEF Close
      <4> QED
        BY <1>0, <2>1, <4>1
    <3>2. CASE CloseNormal(m)
      BY <2>1, <3>2 DEF CloseNormal, Shutting
    <3> QED
      BY <1>6, <3>1, <3>2
  <2> QED
    BY <2>2, <2>3 DEF Shutting
<1>7. ASSUME NEW p \in Pollers, Poll(p) PROVE Shutting'
  <2>1. CASE UNCHANGED <<place, closed, shut>>
    BY <1>1, <2>1
  <2>2. CASE FetchEmpty(p) \/ MoreEmpty(p)
    <3>1. Clear(p) /\ closed' = closed /\ shut' = shut
      BY <2>2 DEF FetchEmpty, MoreEmpty
    <3>2. \A m \in Machines : place'[m] = "parked" => place[m] = "parked"
      BY <3>1 DEF Clear
    <3> QED
      BY <1>1, <3>1, <3>2
  <2>3. CASE ReleaseControl(p)
    BY <1>0, <1>1, <2>3 DEF ReleaseControl
  <2>4. CASE RetakeControl(p)
    <3>1. closed' = closed /\ shut' = shut
      BY <2>4 DEF RetakeControl
    <3>2. CASE place[ControlFsm] = "parked"
      BY <1>0, <1>1, <2>4, <3>1, <3>2 DEF RetakeControl
    <3>3. CASE place[ControlFsm] # "parked"
      BY <1>1, <2>4, <3>1, <3>3 DEF RetakeControl
    <3> QED
      BY <3>2, <3>3
  <2> QED
    BY <1>7, <2>1, <2>2, <2>3, <2>4
       DEF Poll, FetchNothing, FetchNormal, FetchControl, HandleControl, CheckControl,
           HandleNormal, HandleNext, NormalsDone, MoreNormal, HandleExtra, MoreControl, MoreNothing
<1>8. CASE UNCHANGED vars
  BY <1>1, <1>8 DEF vars
<1> QED
  BY <1>2, <1>3, <1>4, <1>5, <1>6, <1>7, <1>8 DEF Next, Send, BroadcastShutdown

-----------------------------------------------------------------------------
(* The messages *)

(* A poller calls the handler for a machine of its batch. *)
Handled(p, m) ==
  /\ at[p] \in {"control", "normals", "extra"}
  /\ Handle(m)
  /\ UNCHANGED <<sent, place, closed, notifying, inHand, chan>>
  /\ \E to \in {"release", "normals", "more"} : at' = [at EXCEPT ![p] = to]

(* A handler takes at most the messages that are there. *)
LEMMA HandleTakes ==
  ASSUME TypeOK, Took, NEW m \in Machines, Handle(m)
  PROVE  handled'[m] \in handled[m] + 1..sent[m] \/ handled'[m] = handled[m]
<1>1. /\ handled[m] \in Nat /\ sent[m] \in Nat /\ handled[m] <= sent[m] /\ Burst \in Nat
      /\ handled'[m] = IF sent[m] - handled[m] > Burst THEN handled[m] + Burst ELSE sent[m]
  BY PollerAssumption DEF TypeOK, Took, Handle
<1> QED
  BY <1>1

(* The steps of poll that call the handler. *)
LEMMA HandledBatch ==
  ASSUME TypeOK, Points, NEW p \in Pollers,
         HandleControl(p) \/ HandleNormal(p) \/ HandleExtra(p)
  PROVE  \E m \in Batch(p) : Handled(p, m)
<1>1. CASE HandleControl(p)
  <2>1. ControlFsm \in Batch(p)
    BY <1>1 DEF HandleControl, Goto, Points, Point, Batch
  <2>2. Handled(p, ControlFsm)
    BY <1>1 DEF HandleControl, Goto, Handled
  <2> QED
    BY <2>1, <2>2
<1>2. CASE HandleNormal(p) \/ HandleExtra(p)
  <2>1. /\ next[p] \in Nat /\ next[p] >= 1 /\ next[p] <= Len(normals[p])
        /\ normals[p] \in Seq(Normals)
    BY <1>2, PFacts DEF HandleNormal, HandleExtra, Goto, Points, Point
  <2>2. normals[p][next[p]] \in Batch(p)
    BY <2>1 DEF Batch, Range
  <2>3. Handled(p, normals[p][next[p]])
    BY <1>2 DEF HandleNormal, HandleExtra, HandleNext, Goto, Handled
  <2> QED
    BY <2>2, <2>3
<1> QED
  BY <1>1, <1>2

(* What any step does to the messages. *)
LEMMA MessagesStep ==
  ASSUME TypeOK, Points, [Next]_vars
  PROVE  \/ UNCHANGED <<sent, handled>>
         \/ \E m \in Machines : Push(m)
         \/ \E p \in Pollers : \E m \in Batch(p) : Handled(p, m)
<1>1. ASSUME NEW p \in Pollers, Poll(p)
      PROVE  UNCHANGED <<sent, handled>> \/ \E m \in Batch(p) : Handled(p, m)
  BY <1>1, HandledBatch
     DEF Poll, FetchNothing, FetchNormal, FetchControl, FetchEmpty, ReleaseControl,
         CheckControl, RetakeControl, NormalsDone, MoreNormal, MoreControl, MoreEmpty,
         MoreNothing, batch
<1> QED
  BY <1>1 DEF Next, Send, BroadcastShutdown, Notify, Schedule, Shutdown, Post, Close, CloseNormal,
              CloseMailbox, vars

LEMMA TookStep ==
  ASSUME TypeOK, Points, Took, [Next]_vars
  PROVE  Took'
<1>0. sent \in [Machines -> Nat] /\ handled \in [Machines -> Nat]
  BY DEF TypeOK
<1>1. CASE UNCHANGED <<sent, handled>>
  BY <1>1 DEF Took
<1>2. ASSUME NEW m \in Machines, Push(m) PROVE Took'
  BY <1>0, <1>2 DEF Push, Took
<1>3. ASSUME NEW p \in Pollers, NEW m \in Batch(p), Handled(p, m) PROVE Took'
  <2>1. m \in Machines /\ Handle(m) /\ sent' = sent
    BY <1>3, PFacts DEF Handled
  <2>2. \A n \in Machines \ {m} : handled'[n] = handled[n]
    BY <1>0, <2>1 DEF Handle
  <2>3. handled'[m] <= sent[m]
    BY <1>0, <2>1, HandleTakes DEF Took
  <2> QED
    BY <2>1, <2>2, <2>3 DEF Took
<1> QED
  BY <1>1, <1>2, <1>3, MessagesStep

(* NoneForgotten, for one machine at a time. *)
Remembered(m) ==
  place[m] = "parked" /\ handled[m] # sent[m]
    => m \in notifying \/ (m = ControlFsm /\ \E p \in Pollers : at[p] \in {"check", "retake"})

LEMMA NoneForgottenStep ==
  ASSUME TypeOK, Points, Homed, NoneForgotten, [Next]_vars
  PROVE  NoneForgotten'
<1> SUFFICES ASSUME NEW m \in Machines PROVE Remembered(m)'
  BY DEF NoneForgotten, Remembered
<1>0. /\ Remembered(m) /\ ControlFsm \in Machines
      /\ place \in [Machines -> {"parked", "moving", "freed"}]
      /\ sent \in [Machines -> Nat] /\ handled \in [Machines -> Nat]
      /\ at \in [Pollers -> Steps]
  BY DEF NoneForgotten, Remembered, TypeOK, Machines
<1>1. ASSUME place'[m] = "parked" => place[m] = "parked",
             sent'[m] = sent[m], handled'[m] = handled[m],
             m \in notifying => m \in notifying',
             \A p \in Pollers : at[p] \in {"check", "retake"} => at'[p] \in {"check", "retake"}
      PROVE  Remembered(m)'
  BY <1>0, <1>1 DEF Remembered
<1>2. ASSUME NEW n \in Machines, Push(n) PROVE Remembered(m)'
  <2>1. CASE n = m
    BY <1>2, <2>1 DEF Push, Remembered
  <2>2. CASE n # m
    <3>1. sent'[m] = sent[m]
      BY <1>0, <1>2, <2>2 DEF Push
    <3> QED
      BY <1>1, <1>2, <3>1 DEF Push
  <2> QED
    BY <2>1, <2>2
<1>3. ASSUME NEW n \in Machines, Notify(n) PROVE Remembered(m)'
  <2>1. UNCHANGED <<sent, handled, at>> /\ notifying' = notifying \ {n}
    BY <1>3 DEF Notify
  <2>2. \A l \in Machines : place'[l] = "parked" => place[l] = "parked" /\ l # n
    <3>1. CASE place[n] = "parked"
      BY <1>0, <1>3, <3>1 DEF Notify
    <3>2. CASE place[n] # "parked"
      BY <1>3, <3>2 DEF Notify
    <3> QED
      BY <3>1, <3>2
  <2>3. CASE n = m
    BY <2>2, <2>3 DEF Remembered
  <2>4. CASE n # m
    BY <1>1, <2>1, <2>2, <2>4
  <2> QED
    BY <2>3, <2>4
<1>4. ASSUME NEW n \in Machines, Schedule(n) PROVE Remembered(m)'
  BY <1>1, <1>4 DEF Schedule
<1>5. CASE Shutdown \/ Post
  BY <1>1, <1>5 DEF Shutdown, Post
<1>6. ASSUME NEW n \in Machines, Close(n) \/ CloseNormal(n) PROVE Remembered(m)'
  <2>1. CloseMailbox(n)
    BY <1>6 DEF Close, CloseNormal
  <2>2. place'[m] = "parked" => place[m] = "parked"
    BY <1>0, <2>1 DEF CloseMailbox
  <2> QED
    BY <1>1, <2>1, <2>2 DEF CloseMailbox
<1>7. ASSUME NEW p \in Pollers, Poll(p) PROVE Remembered(m)'
  <2> USE DEF Goto
  <2>1. ASSUME at[p] \notin {"check", "retake"}, \A q \in Pollers \ {p} : at'[q] = at[q],
               UNCHANGED <<sent, handled, notifying>>,
               place'[m] = "parked" => place[m] = "parked"
        PROVE  Remembered(m)'
    BY <1>1, <2>1
  <2>2. CASE FetchNothing(p) \/ FetchNormal(p) \/ FetchControl(p)
    <3>1. PICK l, c : Begin(p, l, c)
      BY <2>2 DEF FetchNothing, FetchNormal, FetchControl
    <3>2. at[p] \notin {"check", "retake"} /\ \A q \in Pollers \ {p} : at'[q] = at[q]
      BY <1>0, <3>1 DEF Begin
    <3> QED
      BY <2>1, <2>2, <3>2 DEF FetchNothing, FetchNormal, FetchControl
  <2>3. CASE FetchEmpty(p) \/ MoreEmpty(p)
    <3>1. at[p] \notin {"check", "retake"} /\ \A q \in Pollers \ {p} : at'[q] = at[q]
      BY <1>0, <2>3 DEF FetchEmpty, MoreEmpty
    <3>2. place'[m] = "parked" => place[m] = "parked"
      BY <2>3 DEF FetchEmpty, MoreEmpty, Clear
    <3> QED
      BY <2>1, <2>3, <3>1, <3>2 DEF FetchEmpty, MoreEmpty
  <2>4. CASE NormalsDone(p) \/ MoreNormal(p) \/ MoreControl(p) \/ MoreNothing(p)
    <3>1. at[p] \notin {"check", "retake"} /\ \A q \in Pollers \ {p} : at'[q] = at[q]
      BY <1>0, <2>4 DEF NormalsDone, MoreNormal, MoreControl, MoreNothing
    <3> QED
      BY <2>1, <2>4, <3>1 DEF NormalsDone, MoreNormal, MoreControl, MoreNothing
  <2>5. ASSUME NEW n \in Batch(p), Handled(p, n) PROVE Remembered(m)'
    <3>1. /\ UNCHANGED <<sent, place, notifying>> /\ n \in Machines /\ Handle(n)
          /\ at[p] \notin {"check", "retake"} /\ \A q \in Pollers \ {p} : at'[q] = at[q]
      BY <1>0, <2>5, PFacts DEF Handled
    <3>2. CASE n = m
      <4>1. place[m] = "moving"
        BY <2>5, <3>1, <3>2 DEF Homed, HomeOf
      <4> QED
        BY <3>1, <4>1 DEF Remembered
    <3>3. CASE n # m
      <4>1. handled'[m] = handled[m]
        BY <1>0, <3>1, <3>3 DEF Handle
      <4> QED
        BY <1>1, <3>1, <4>1
    <3> QED
      BY <3>2, <3>3
  <2>6. CASE ReleaseControl(p)
    <3>1. /\ at'[p] = "check"
          /\ \A q \in Pollers : at[q] \in {"check", "retake"} => at'[q] \in {"check", "retake"}
      BY <1>0, <2>6 DEF ReleaseControl
    <3>2. CASE m = ControlFsm
      BY <3>1, <3>2 DEF Remembered
    <3>3. CASE m # ControlFsm
      <4>1. place'[m] = place[m]
        BY <1>0, <2>6, <3>3 DEF ReleaseControl
      <4> QED
        BY <1>1, <2>6, <3>1, <4>1 DEF ReleaseControl
    <3> QED
      BY <3>2, <3>3
  <2>7. CASE CheckControl(p)
    <3>1. UNCHANGED <<sent, handled, notifying, place>>
      BY <2>7 DEF CheckControl
    <3>2. /\ \A q \in Pollers \ {p} : at'[q] = at[q]
          /\ at'[p] = IF ControlLength = 0 THEN "normals" ELSE "retake"
      BY <1>0, <2>7 DEF CheckControl
    <3>3. CASE ControlLength = 0
      <4>1. place[ControlFsm] = "parked" => handled[ControlFsm] = sent[ControlFsm]
        <5>1. handled[ControlFsm] \in Nat /\ sent[ControlFsm] \in Nat
          BY <1>0
        <5> QED
          BY <3>3, <5>1 DEF ControlLength
      <4> QED
        BY <1>0, <3>1, <4>1 DEF Remembered
    <3>4. CASE ControlLength # 0
      BY <1>1, <3>1, <3>2, <3>4
    <3> QED
      BY <3>3, <3>4
  <2>9. CASE RetakeControl(p)
    <3>1. UNCHANGED <<sent, handled, notifying>>
      BY <2>9 DEF RetakeControl
    <3>2. place'[m] = "parked" => place[m] = "parked" /\ m # ControlFsm
      <4>1. CASE place[ControlFsm] = "parked"
        BY <1>0, <2>9, <4>1 DEF RetakeControl
      <4>2. CASE place[ControlFsm] # "parked"
        BY <2>9, <4>2 DEF RetakeControl
      <4> QED
        BY <4>1, <4>2
    <3> QED
      BY <1>0, <3>1, <3>2 DEF Remembered
  <2>8. CASE HandleControl(p) \/ HandleNormal(p) \/ HandleExtra(p)
    BY <2>5, <2>8, HandledBatch
  <2> QED
    BY <1>7, <2>2, <2>3, <2>4, <2>6, <2>7, <2>8, <2>9 DEF Poll
<1>8. CASE UNCHANGED vars
  BY <1>1, <1>8 DEF vars
<1> QED
  BY <1>2, <1>3, <1>4, <1>5, <1>6, <1>7, <1>8 DEF Next, Send, BroadcastShutdown

-----------------------------------------------------------------------------
(* The Empty entries *)

(* What a change of the pollers means for the pools. *)
LEMMA StoppedKept ==
  ASSUME \A p \in Pollers : at'[p] = "stopped" <=> at[p] = "stopped"
  PROVE  \A k \in Priorities : StoppedOf(k)' = StoppedOf(k)
BY DEF StoppedOf, ChannelOf

LEMMA StoppedFinite ==
  ASSUME NEW k
  PROVE  IsFiniteSet(StoppedOf(k)) /\ Cardinality(StoppedOf(k)) \in Nat
<1>1. StoppedOf(k) \in SUBSET Pollers
  BY DEF StoppedOf
<1>2. IsFiniteSet(StoppedOf(k))
  BY <1>1, PollerAssumption, FS_Subset
<1> QED
  BY <1>2, FS_CardinalityType

LEMMA StoppedGrows ==
  ASSUME NEW p \in Pollers, at \in [Pollers -> Steps], Goto(p, at[p], "stopped"),
         at[p] # "stopped"
  PROVE  \A k \in Priorities :
           /\ Cardinality(StoppedOf(k)) \in Nat
           /\ Cardinality(StoppedOf(k)')
                = IF k = ChannelOf(p) THEN Cardinality(StoppedOf(k)) + 1
                                      ELSE Cardinality(StoppedOf(k))
<1> TAKE k \in Priorities
<1>1. IsFiniteSet(StoppedOf(k)) /\ Cardinality(StoppedOf(k)) \in Nat
  BY StoppedFinite
<1>2. at'[p] = "stopped" /\ \A q \in Pollers \ {p} : at'[q] = at[q]
  BY DEF Goto
<1>3. CASE k = ChannelOf(p)
  <2>1. StoppedOf(k)' = StoppedOf(k) \cup {p} /\ p \notin StoppedOf(k)
    BY <1>2, <1>3 DEF StoppedOf, ChannelOf
  <2>2. Cardinality(StoppedOf(k) \cup {p}) = Cardinality(StoppedOf(k)) + 1
    BY <1>1, <2>1, FS_AddElement
  <2> QED
    BY <1>1, <1>3, <2>1, <2>2
<1>4. CASE k # ChannelOf(p)
  <2>1. StoppedOf(k)' = StoppedOf(k)
    BY <1>2, <1>4 DEF StoppedOf, ChannelOf
  <2> QED
    BY <1>1, <1>4, <2>1
<1> QED
  BY <1>3, <1>4

LEMMA CountedStep ==
  ASSUME TypeOK, Homed, Counted, [Next]_vars
  PROVE  Counted'
<1>0. /\ at \in [Pollers -> Steps] /\ posted \in Nat
      /\ chan \in [Priorities -> Seq(Machines \cup {Empty})] /\ Empty \notin Machines
      /\ \A k \in Priorities : Cardinality(EmptiesIn(chan[k])) \in Nat
  <2>1. ASSUME NEW k \in Priorities PROVE Cardinality(EmptiesIn(chan[k])) \in Nat
    BY EmptiesAppended, PFacts
  <2> QED
    BY <2>1, PollerAssumption, PFacts DEF TypeOK
<1>1. ASSUME \A k \in Priorities :
               Cardinality(EmptiesIn(chan'[k])) = Cardinality(EmptiesIn(chan[k])),
             \A p \in Pollers : at'[p] = "stopped" <=> at[p] = "stopped",
             posted' = posted
      PROVE  Counted'
  <2>1. \A k \in Priorities : StoppedOf(k)' = StoppedOf(k)
    BY <1>1, StoppedKept
  <2> QED
    BY <1>1, <2>1 DEF Counted
<1>2. CASE UNCHANGED <<chan, at, posted>>
  BY <1>1, <1>2
<1>3. ASSUME NEW m \in Machines, Schedule(m) PROVE Counted'
  <2>1. /\ UNCHANGED <<at, posted>>
        /\ chan' = [chan EXCEPT ![PriorityOf(m)] = Append(chan[PriorityOf(m)], m)]
    BY <1>3 DEF Schedule
  <2>2. ASSUME NEW k \in Priorities
        PROVE  Cardinality(EmptiesIn(chan'[k])) = Cardinality(EmptiesIn(chan[k]))
    <3>1. CASE k = PriorityOf(m)
      <4>1. chan'[k] = Append(chan[k], m) /\ chan[k] \in Seq(Machines \cup {Empty}) /\ m # Empty
        BY <1>0, <2>1, <3>1
      <4> QED
        BY <4>1, EmptiesAppended
    <3>2. CASE k # PriorityOf(m)
      BY <1>0, <2>1, <3>2
    <3> QED
      BY <3>1, <3>2
  <2> QED
    BY <1>1, <2>1, <2>2
<1>4. CASE Post
  <2>1. /\ at' = at /\ posted' = posted + 1
        /\ \A k \in Priorities : chan'[k] = Append(chan[k], Empty)
    BY <1>4 DEF Post
  <2>2. \A k \in Priorities :
          Cardinality(EmptiesIn(chan'[k])) = Cardinality(EmptiesIn(chan[k])) + 1
    <3> TAKE k \in Priorities
    <3>1. chan[k] \in Seq(Machines \cup {Empty})
      BY <1>0
    <3> QED
      BY <2>1, <3>1, EmptiesAppended
  <2>3. \A k \in Priorities : StoppedOf(k)' = StoppedOf(k)
    BY <2>1, StoppedKept
  <2>4. ASSUME NEW k \in Priorities
        PROVE  Cardinality(EmptiesIn(chan'[k])) + Cardinality(StoppedOf(k)') = posted'
    <3>1. Cardinality(EmptiesIn(chan[k])) + Cardinality(StoppedOf(k)) = posted
      BY DEF Counted
    <3>2. Cardinality(StoppedOf(k)) \in Nat
      BY StoppedFinite
    <3> QED
      BY <1>0, <2>1, <2>2, <2>3, <3>1, <3>2
  <2> QED
    BY <2>4 DEF Counted
<1>5. ASSUME NEW p \in Pollers, Poll(p) PROVE Counted'
  <2>1. ASSUME Queue(p) # <<>>, Receive(p)
        PROVE  \A k \in Priorities :
                 Cardinality(EmptiesIn(chan[k]))
                   = IF k = ChannelOf(p) /\ Head(Queue(p)) = Empty
                       THEN Cardinality(EmptiesIn(chan'[k])) + 1
                       ELSE Cardinality(EmptiesIn(chan'[k]))
    <3> TAKE k \in Priorities
    <3>1. CASE k = ChannelOf(p)
      <4>1. chan'[k] = Tail(Queue(p)) /\ Queue(p) = chan[k]
        BY <1>0, <2>1, <3>1 DEF Receive, Queue
      <4>2. Queue(p) \in Seq(Machines \cup {Empty})
        BY <1>0, <4>1
      <4> QED
        BY <2>1, <3>1, <4>1, <4>2, EmptiesTaken
    <3>2. CASE k # ChannelOf(p)
      BY <1>0, <2>1, <3>2 DEF Receive
    <3> QED
      BY <3>1, <3>2
  <2>2. ASSUME Queue(p) # <<>>, Head(Queue(p)) \in Machines, Receive(p), posted' = posted,
               \A q \in Pollers : at'[q] = "stopped" <=> at[q] = "stopped"
        PROVE  Counted'
    <3>1. Head(Queue(p)) # Empty
      BY <1>0, <2>2
    <3> QED
      BY <1>1, <2>1, <2>2, <3>1
  <2>3. CASE FetchEmpty(p) \/ MoreEmpty(p)
    <3>1. /\ Queue(p) # <<>> /\ Head(Queue(p)) = Empty /\ Receive(p) /\ posted' = posted
          /\ Goto(p, at[p], "stopped") /\ at[p] # "stopped"
      BY <2>3 DEF FetchEmpty, MoreEmpty, Goto
    <3>2. \A k \in Priorities :
            /\ Cardinality(StoppedOf(k)) \in Nat
            /\ Cardinality(StoppedOf(k)')
                 = IF k = ChannelOf(p) THEN Cardinality(StoppedOf(k)) + 1
                                       ELSE Cardinality(StoppedOf(k))
      BY <1>0, <3>1, StoppedGrows
    <3>3. ASSUME NEW k \in Priorities
          PROVE  Cardinality(EmptiesIn(chan'[k])) + Cardinality(StoppedOf(k)') = posted'
      <4>1. Cardinality(EmptiesIn(chan[k])) + Cardinality(StoppedOf(k)) = posted
        BY DEF Counted
      <4>2. Cardinality(EmptiesIn(chan[k])) = IF k = ChannelOf(p)
                                                THEN Cardinality(EmptiesIn(chan'[k])) + 1
                                                ELSE Cardinality(EmptiesIn(chan'[k]))
        BY <2>1, <3>1
      <4>3. Cardinality(EmptiesIn(chan'[k])) \in Nat
        <5>1. chan'[k] \in Seq(Machines \cup {Empty})
          BY <3>1, ReceiveType
        <5> QED
          BY <5>1, EmptiesAppended
      <4> QED
        BY <1>0, <3>1, <3>2, <4>1, <4>2, <4>3
    <3> QED
      BY <3>3 DEF Counted
  <2>4. CASE FetchNormal(p) \/ FetchControl(p)
    <3>1. PICK l, c : Begin(p, l, c)
      BY <2>4 DEF FetchNormal, FetchControl
    <3>2. \A q \in Pollers : at'[q] = "stopped" <=> at[q] = "stopped"
      BY <1>0, <3>1 DEF Begin, Goto
    <3> QED
      BY <2>2, <2>4, <3>2 DEF FetchNormal, FetchControl, Machines
  <2>5. CASE MoreNormal(p) \/ MoreControl(p)
    <3>1. \A q \in Pollers : at'[q] = "stopped" <=> at[q] = "stopped"
      BY <1>0, <2>5 DEF MoreNormal, MoreControl, Goto
    <3> QED
      BY <2>2, <2>5, <3>1 DEF MoreNormal, MoreControl, Machines
  <2>6. CASE FetchNothing(p)
    <3>1. \A q \in Pollers : at'[q] = "stopped" <=> at[q] = "stopped"
      BY <1>0, <2>6 DEF FetchNothing, Begin, Goto
    <3> QED
      BY <1>1, <2>6, <3>1 DEF FetchNothing
  <2>7. CASE HandleControl(p) \/ ReleaseControl(p) \/ CheckControl(p) \/ RetakeControl(p)
    <3>1. \A q \in Pollers : at'[q] = "stopped" <=> at[q] = "stopped"
      BY <1>0, <2>7 DEF HandleControl, ReleaseControl, CheckControl, RetakeControl, Goto
    <3> QED
      BY <1>1, <2>7, <3>1 DEF HandleControl, ReleaseControl, CheckControl, RetakeControl
  <2>8. CASE HandleNormal(p) \/ HandleExtra(p)
    <3>1. \A q \in Pollers : at'[q] = "stopped" <=> at[q] = "stopped"
      BY <1>0, <2>8 DEF HandleNormal, HandleExtra, Goto
    <3> QED
      BY <1>1, <2>8, <3>1 DEF HandleNormal, HandleExtra, HandleNext
  <2>9. CASE NormalsDone(p) \/ MoreNothing(p)
    <3>1. \A q \in Pollers : at'[q] = "stopped" <=> at[q] = "stopped"
      BY <1>0, <2>9 DEF NormalsDone, MoreNothing, Goto
    <3> QED
      BY <1>1, <2>9, <3>1 DEF NormalsDone, MoreNothing
  <2> QED
    BY <1>5, <2>3, <2>4, <2>5, <2>6, <2>7, <2>8, <2>9 DEF Poll
<1> QED
  BY <1>2, <1>3, <1>4, <1>5
     DEF Next, Send, BroadcastShutdown, Push, Notify, Shutdown, Close, CloseNormal, CloseMailbox,
         vars

-----------------------------------------------------------------------------
(* The invariant *)

LEMMA SoundInit ==
  ASSUME Init
  PROVE  Sound /\ Panicless
<1>1. TypeOK
  BY PollerAssumption DEF Init, TypeOK, Steps, Metrics
<1>2. Range(<<>>) = {} /\ Once(<<>>) /\ Len(<<>>) = 0
  BY DEF Range, Once
<1>3. /\ \A k \in Priorities : OnWay(k) = {} /\ Once(chan[k])
      /\ \A p \in Pollers : Batch(p) = {} /\ Once(normals[p]) /\ Range(normals[p]) = {}
  BY <1>2 DEF Init, OnWay, Batch
<1>4. Points
  BY DEF Init, Points, Point
<1>5. Homed
  BY <1>3 DEF Init, Homed, HomeOf
<1>6. Onces /\ PriorityKept /\ Shutting
  BY <1>3 DEF Init, Onces, PriorityKept, Shutting
<1>7. Panicless
  BY DEF Init, Panicless
<1>8. Took /\ NoneForgotten
  BY DEF Init, Took, NoneForgotten
<1>9. Counted
  <2>1. \A k \in Priorities : EmptiesIn(chan[k]) = {} /\ StoppedOf(k) = {}
    BY DEF Init, EmptiesIn, StoppedOf
  <2>2. Cardinality({}) + Cardinality({}) = 0
    <3>1. Cardinality({}) = 0
      BY FS_EmptySet
    <3> QED
      BY <3>1
  <2>3. posted = 0
    BY DEF Init
  <2> QED
    BY <2>1, <2>2, <2>3 DEF Counted
<1> QED
  BY <1>1, <1>4, <1>5, <1>6, <1>7, <1>8, <1>9 DEF Sound

LEMMA SoundStep ==
  ASSUME Sound, [Next]_vars
  PROVE  Sound'
BY PollerTypeStep, PointsStep, HomesStep, ShuttingStep, TookStep, NoneForgottenStep, CountedStep
   DEF Sound

(* The inductive invariant holds in every state. *)
THEOREM PollerInvariant == Spec => []PInv
<1>1. Init => PInv
  BY SoundInit DEF PInv
<1>2. PInv /\ [Next]_vars => PInv'
  <2> SUFFICES ASSUME PInv, [Next]_vars PROVE PInv'
    OBVIOUS
  <2>1. Sound' /\ TypeOK /\ Homed
    BY SoundStep DEF PInv, Sound
  <2>2. Panicless'
    BY <2>1, NeverPanics DEF PInv, Panicless
  <2> QED
    BY <2>1, <2>2 DEF PInv
<1> QED
  BY <1>1, <1>2, PTL DEF Spec

(* The state of the channels and of the pollers keeps its types. *)
THEOREM PollerTypeCorrect == Spec => []TypeOK
<1>1. PInv => TypeOK
  BY DEF PInv, Sound
<1> QED
  BY <1>1, PollerInvariant, PTL

(* The assertion of Batch::push never fails, and no poller handles a machine beyond *)
(* the end of its batch.                                                            *)
THEOREM PollerNoPanic == Spec => []NoPanic
<1>1. PInv => NoPanic
  BY DEF PInv, Sound, Panicless, Points, Point, NoPanic
<1> QED
  BY <1>1, PollerInvariant, PTL

(* The homes of the machines, put together. *)
LEMMA SoundOneHome ==
  ASSUME Sound
  PROVE  OneHome
<1>1. TypeOK /\ Homed /\ Onces
  BY DEF Sound
<1>2. \A m \in Machines : HomeOf(m)
  BY <1>1 DEF Homed
<1>3. /\ inHand \subseteq Machines /\ \A k \in Priorities : OnWay(k) \subseteq Machines
      /\ \A p \in Pollers : Batch(p) \subseteq Machines
  BY <1>1, PFacts DEF TypeOK
<1>4. {m \in Machines : place[m] = "moving"}
        = inHand \cup (UNION {OnWay(k) : k \in Priorities})
                 \cup (UNION {Batch(p) : p \in Pollers})
  <2>1. \A m \in Machines :
          place[m] = "moving" <=> \/ m \in inHand
                                  \/ \E k \in Priorities : m \in OnWay(k)
                                  \/ \E p \in Pollers : m \in Batch(p)
    BY <1>2 DEF HomeOf
  <2> DEFINE W == UNION {OnWay(k) : k \in Priorities}
             B == UNION {Batch(p) : p \in Pollers}
  <2>2. \A m : m \in W <=> \E k \in Priorities : m \in OnWay(k)
    OBVIOUS
  <2>3. \A m : m \in B <=> \E p \in Pollers : m \in Batch(p)
    OBVIOUS
  <2> HIDE DEF W, B
  <2>4. {m \in Machines : place[m] = "moving"} = inHand \cup W \cup B
    <3>1. W \subseteq Machines
      BY <1>3, <2>2
    <3>2. B \subseteq Machines
      BY <1>3, <2>3
    <3>3. \A m \in Machines : place[m] = "moving" <=> m \in inHand \/ m \in W \/ m \in B
      BY <2>1, <2>2, <2>3
    <3> QED
      BY <1>3, <3>1, <3>2, <3>3
  <2> QED
    BY <2>4 DEF W, B
<1>5. \A k \in Priorities :
        /\ OnWay(k) \cap inHand = {} /\ Once(chan[k])
        /\ \A l \in Priorities : k # l => OnWay(k) \cap OnWay(l) = {}
  <2>1. \A m \in Machines : \A k \in Priorities :
          m \in OnWay(k) => PriorityOf(m) = k /\ m \notin inHand
    BY <1>2 DEF HomeOf
  <2> QED
    BY <1>1, <1>3, <2>1 DEF Onces
<1>6. \A p \in Pollers :
        /\ Batch(p) \cap inHand = {} /\ Once(normals[p])
        /\ \A k \in Priorities : Batch(p) \cap OnWay(k) = {}
        /\ \A q \in Pollers : p # q => Batch(p) \cap Batch(q) = {}
  <2>1. \A m \in Machines : \A p \in Pollers :
          m \in Batch(p) => /\ m \notin inHand
                            /\ \A k \in Priorities : m \notin OnWay(k)
                            /\ \A q \in Pollers : m \in Batch(q) => p = q
    BY <1>2 DEF HomeOf
  <2> TAKE p \in Pollers
  <2>2. Batch(p) \subseteq Machines
    BY <1>3
  <2>3. Batch(p) \cap inHand = {} /\ \A k \in Priorities : Batch(p) \cap OnWay(k) = {}
    BY <2>1, <2>2
  <2>4. ASSUME NEW q \in Pollers, p # q PROVE Batch(p) \cap Batch(q) = {}
    <3>1. ASSUME NEW m \in Batch(p), m \in Batch(q) PROVE FALSE
      BY <2>1, <2>2, <2>4, <3>1, Zenon
    <3> QED
      BY <3>1
  <2> QED
    BY <1>1, <2>3, <2>4 DEF Onces
<1> QED
  BY <1>4, <1>5, <1>6 DEF OneHome

(* A machine that left its mailbox is in one hand, channel or batch, once. *)
THEOREM PollerOneHome == Spec => []OneHome
<1>1. PInv => OneHome
  BY SoundOneHome DEF PInv
<1> QED
  BY <1>1, PollerInvariant, PTL

(* Low machines are in the batches of the low pool and the others are not. *)
THEOREM PollerPriorityKept == Spec => []PriorityKept
<1>1. PInv => PriorityKept
  BY DEF PInv, Sound
<1> QED
  BY <1>1, PollerInvariant, PTL

(* No machine is parked over a message that nobody is about to tell it of. *)
THEOREM PollerNoneForgotten == Spec => []NoneForgotten
<1>1. PInv => NoneForgotten
  BY DEF PInv, Sound
<1> QED
  BY <1>1, PollerInvariant, PTL

(* A machine that is not freed has its box in somebody's hand. *)
LEMMA Unfreed ==
  ASSUME Sound, shut = "posting", \A p \in Pollers : at[p] \in {"stopped", "panicked"},
         NEW m \in Machines
  PROVE  place[m] = "freed" \/ m \in inHand \/ \E k \in Priorities : m \in Range(chan[k])
<1> SUFFICES ASSUME place[m] # "freed", m \notin inHand
             PROVE  \E k \in Priorities : m \in Range(chan[k])
  OBVIOUS
<1>1. place[m] = "moving"
  BY DEF Sound, Shutting, TypeOK
<1>2. \A p \in Pollers : m \notin Batch(p)
  <2>1. Range(<<>>) = {}
    BY DEF Range
  <2> QED
    BY <2>1 DEF Sound, Points, Point, Batch
<1>3. \E k \in Priorities : m \in OnWay(k)
  BY <1>1, <1>2 DEF Sound, Homed, HomeOf
<1> QED
  BY <1>3 DEF OnWay

(* When all pollers have stopped after a shutdown, a machine that is not freed is *)
(* in a channel or in a sender's hand.                                            *)
THEOREM PollerShutdownFrees == Spec => []ShutdownFrees
<1>1. PInv => ShutdownFrees
  BY Unfreed DEF PInv, ShutdownFrees
<1> QED
  BY <1>1, PollerInvariant, PTL

-----------------------------------------------------------------------------
(* FsmDelivery *)

(* What happens to one machine: nothing, or one of the steps of FsmOwnership. *)
LEMMA OwnershipStep ==
  ASSUME Sound, [Next]_vars, NEW m \in Machines
  PROVE  [Delivery(m)!Next]_(Delivery(m)!vars)
<1> USE DEF Delivery!Next, Delivery!Take, Delivery!Park, Delivery!Close, Delivery!Free,
            Delivery!vars
<1>0. /\ TypeOK /\ Homed /\ Points
      /\ \A n \in Machines : closed[n] => place[n] # "parked"
      /\ place \in [Machines -> {"parked", "moving", "freed"}]
      /\ closed \in [Machines -> BOOLEAN] /\ ControlFsm \in Machines
  BY DEF Sound, Shutting, TypeOK, Machines
<1>1. ASSUME place'[m] = place[m], closed'[m] = closed[m]
      PROVE  [Delivery(m)!Next]_(Delivery(m)!vars)
  BY <1>1
<1>2. ASSUME place[m] = "parked", place'[m] = "moving", closed'[m] = closed[m]
      PROVE  [Delivery(m)!Next]_(Delivery(m)!vars)
  BY <1>0, <1>2
<1>3. ASSUME NEW p \in Pollers, m \in Batch(p) PROVE place[m] = "moving"
  BY <1>0, <1>3 DEF Homed, HomeOf
<1>4. ASSUME NEW n \in Machines, Push(n) \/ Schedule(n)
      PROVE  [Delivery(m)!Next]_(Delivery(m)!vars)
  BY <1>1, <1>4 DEF Push, Schedule
<1>5. ASSUME NEW n \in Machines, Notify(n) PROVE [Delivery(m)!Next]_(Delivery(m)!vars)
  <2>1. closed' = closed /\ (place[n] # "parked" => place' = place)
    BY <1>5 DEF Notify
  <2>2. CASE place[n] = "parked" /\ n = m
    <3>1. place'[m] = "moving"
      BY <1>0, <1>5, <2>2 DEF Notify
    <3> QED
      BY <1>2, <2>1, <2>2, <3>1
  <2>3. CASE place[n] = "parked" /\ n # m
    <3>1. place'[m] = place[m]
      BY <1>0, <1>5, <2>3 DEF Notify
    <3> QED
      BY <1>1, <2>1, <3>1
  <2> QED
    BY <1>1, <2>1, <2>2, <2>3
<1>6. CASE Shutdown \/ Post
  BY <1>1, <1>6 DEF Shutdown, Post
<1>7. ASSUME NEW n \in Machines, Close(n) \/ CloseNormal(n)
      PROVE  [Delivery(m)!Next]_(Delivery(m)!vars)
  <2>0. CloseMailbox(n)
    BY <1>7 DEF Close, CloseNormal
  <2>1. CASE n = m
    <3>1. /\ ~closed[m] /\ closed'[m] = TRUE
          /\ place'[m] = IF place[m] = "parked" THEN "freed" ELSE place[m]
      BY <1>0, <2>0, <2>1 DEF CloseMailbox
    <3> QED
      BY <3>1
  <2>2. CASE n # m
    <3>1. place'[m] = place[m] /\ closed'[m] = closed[m]
      BY <1>0, <2>0, <2>2 DEF CloseMailbox
    <3> QED
      BY <1>1, <3>1
  <2> QED
    BY <2>1, <2>2
<1>8. ASSUME NEW p \in Pollers, Poll(p) PROVE [Delivery(m)!Next]_(Delivery(m)!vars)
  <2>1. CASE UNCHANGED <<place, closed>>
    BY <1>1, <2>1
  <2>2. CASE FetchEmpty(p) \/ MoreEmpty(p)
    <3>1. /\ closed' = closed
          /\ place'[m] = IF m \in Batch(p) THEN "freed" ELSE place[m]
      BY <2>2 DEF FetchEmpty, MoreEmpty, Clear, Batch
    <3> QED
      BY <1>1, <1>3, <3>1
  <2>3. CASE ReleaseControl(p)
    <3>1. ControlFsm \in Batch(p) /\ closed' = closed
      BY <1>0, <2>3 DEF ReleaseControl, Goto, Points, Point, Batch
    <3>2. CASE m = ControlFsm
      <4>1. place[m] = "moving" /\ place'[m] = IF closed[m] THEN "freed" ELSE "parked"
        BY <1>0, <1>3, <2>3, <3>1, <3>2 DEF ReleaseControl
      <4> QED
        BY <1>0, <3>1, <4>1
    <3>3. CASE m # ControlFsm
      <4>1. place'[m] = place[m]
        BY <1>0, <2>3, <3>3 DEF ReleaseControl
      <4> QED
        BY <1>1, <3>1, <4>1
    <3> QED
      BY <3>2, <3>3
  <2>4. CASE RetakeControl(p)
    <3>1. closed' = closed
      BY <2>4 DEF RetakeControl
    <3>2. CASE place[ControlFsm] = "parked"
      <4>1. place' = [place EXCEPT ![ControlFsm] = "moving"]
        BY <2>4, <3>2 DEF RetakeControl
      <4>2. CASE m = ControlFsm
        <5>1. place'[m] = "moving"
          BY <1>0, <4>1, <4>2
        <5> QED
          BY <1>2, <3>1, <3>2, <4>2, <5>1
      <4>3. CASE m # ControlFsm
        <5>1. place'[m] = place[m]
          BY <1>0, <4>1, <4>3
        <5> QED
          BY <1>1, <3>1, <5>1
      <4> QED
        BY <4>2, <4>3
    <3>3. CASE place[ControlFsm] # "parked"
      BY <1>1, <2>4, <3>1, <3>3 DEF RetakeControl
    <3> QED
      BY <3>2, <3>3
  <2> QED
    BY <1>8, <2>1, <2>2, <2>3, <2>4
       DEF Poll, FetchNothing, FetchNormal, FetchControl, HandleControl, CheckControl,
           HandleNormal, HandleNext, NormalsDone, MoreNormal, HandleExtra, MoreControl, MoreNothing
<1>9. CASE UNCHANGED vars
  BY <1>1, <1>9 DEF vars
<1> QED
  BY <1>4, <1>5, <1>6, <1>7, <1>8, <1>9 DEF Next, Send, BroadcastShutdown

(* Nor are its messages touched in another way than FsmDelivery says. *)
LEMMA DeliveryStep ==
  ASSUME Sound, [Next]_vars, NEW m \in Machines
  PROVE  [Delivery(m)!DeliveryNext]_(Delivery(m)!deliveryVars)
<1> USE DEF Delivery!DeliveryNext, Delivery!deliveryVars, Delivery!vars
<1>0. /\ TypeOK /\ Points /\ Took /\ Homed
      /\ sent \in [Machines -> Nat] /\ handled \in [Machines -> Nat]
  BY DEF Sound, TypeOK
<1>1. CASE UNCHANGED <<sent, handled>>
  <2>1. [Delivery(m)!Next]_(Delivery(m)!vars)
    BY OwnershipStep
  <2> QED
    BY <1>1, <2>1 DEF Delivery!Pass
<1>2. ASSUME NEW n \in Machines, Push(n)
      PROVE  [Delivery(m)!DeliveryNext]_(Delivery(m)!deliveryVars)
  <2>1. UNCHANGED <<place, closed, handled>> /\ place[n] # "freed"
    BY <1>2 DEF Push
  <2>2. sent'[m] = IF n = m THEN sent[m] + 1 ELSE sent[m]
    BY <1>0, <1>2 DEF Push
  <2> QED
    BY <2>1, <2>2 DEF Delivery!Send
<1>3. ASSUME NEW p \in Pollers, NEW n \in Batch(p), Handled(p, n)
      PROVE  [Delivery(m)!DeliveryNext]_(Delivery(m)!deliveryVars)
  <2>1. UNCHANGED <<place, closed, sent>> /\ n \in Machines
    BY <1>0, <1>3, PFacts DEF Handled
  <2>2. CASE n # m
    <3>1. handled'[m] = handled[m]
      BY <1>0, <1>3, <2>2 DEF Handled, Handle
    <3> QED
      BY <2>1, <3>1
  <2>3. CASE n = m
    <3>1. place[m] = "moving"
      BY <1>0, <2>1, <2>3 DEF Homed, HomeOf
    <3>2. handled'[m] \in handled[m] + 1..sent[m] \/ handled'[m] = handled[m]
      BY <1>0, <1>3, <2>1, <2>3, HandleTakes DEF Handled
    <3> QED
      BY <2>1, <3>1, <3>2 DEF Delivery!Handle
  <2> QED
    BY <2>2, <2>3
<1> QED
  BY <1>0, <1>1, <1>2, <1>3, MessagesStep

(* Every machine of the batch system keeps the promise of FsmDelivery: it is taken only *)
(* out of an open mailbox, never parked once closed, freed once, and its messages are   *)
(* handled while it is moving, each once and none that was not sent.                    *)
THEOREM PollerDelivery == Spec => DeliverySpec
<1>1. Init => \A m \in Machines : Delivery(m)!DeliveryInit
  BY DEF Init, Delivery!DeliveryInit, Delivery!Init
<1>2. Sound /\ [Next]_vars
        => \A m \in Machines : [Delivery(m)!DeliveryNext]_(Delivery(m)!deliveryVars)
  BY DeliveryStep
<1>3. PInv => Sound
  BY DEF PInv
<1> QED
  BY <1>1, <1>2, <1>3, PollerInvariant, PTL DEF Spec, DeliverySpec

=============================================================================
