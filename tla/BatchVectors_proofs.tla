------------------------ MODULE BatchVectors_proofs -------------------------
(***************************************************************************)
(* Proofs about BatchVectors, for any finite set of machines, any length   *)
(* of the queues and any number of machines that a release loses.          *)
(*                                                                         *)
(* While a method is under way the normals are those it was called with    *)
(* without its machine; no machine is in them twice, and those that are    *)
(* have no other place.                                                    *)
(***************************************************************************)
EXTENDS BatchVectors, TLAPS

Methods ==
  {Idle} \cup [at : {"look", "retake"}, machine : Normals, index : Nat, checked : Nat]
         \cup [at : {"remove", "park"}, machine : Normals, index : Nat]

Types ==
  /\ normals \in Seq(Normals) /\ timers \in Seq(Normals) /\ before \in Seq(Normals)
  /\ method \in Methods
  /\ place \in [Normals -> {"parked", "away", "batch", "freed"}]
  /\ closed \in [Normals -> BOOLEAN]
  /\ waiting \in [Normals -> Nat]
  /\ notifying \subseteq Normals
  /\ lost \in Nat
  /\ known \in [Normals -> Nat]
  /\ removed \subseteq Normals

Once(s) == \A i, j \in DOMAIN s : s[i] = s[j] => i = j

(* The machines of the batch are nowhere else. *)
Owned ==
  /\ \A i \in DOMAIN normals : place[normals[i]] = "batch"
  /\ Once(normals)
  /\ method.at \in {"remove", "park"} => place[method.machine] = "batch"
  /\ method.at \in {"look", "retake"} => place[method.machine] # "batch"

(* What the method that is under way was called with. *)
Called ==
  method # Idle =>
    /\ method.index \in DOMAIN before
    /\ method.machine = before[method.index]
    /\ normals = SwapRemove(before, method.index)
    /\ Once(before)

(* As long as release has not looked it knows what it was told. *)
Told ==
  (method.at = "look" /\ place[method.machine] = "parked")
    => known[method.machine] = method.checked

VInv == Types /\ Owned /\ Called /\ Told /\ TimersCover /\ NotStranded

USE DEF Idle

-----------------------------------------------------------------------------
(* Vec::swap_remove makes a sequence that is one shorter, of the same elements *)
(* but the one at the index.                                                   *)
LEMMA SwapRemoved ==
  ASSUME NEW S, NEW s \in Seq(S), NEW i \in DOMAIN s
  PROVE  /\ SwapRemove(s, i) \in Seq(S)
         /\ Len(SwapRemove(s, i)) = Len(s) - 1
         /\ DOMAIN SwapRemove(s, i) = 1..Len(s) - 1
         /\ \A j \in 1..Len(s) - 1 :
              SwapRemove(s, i)[j] = IF j = i THEN s[Len(s)] ELSE s[j]
<1>1. Len(s) \in Nat /\ Len(s) - 1 \in Nat /\ DOMAIN s = 1..Len(s)
  OBVIOUS
<1>2. SwapRemove(s, i) \in [1..Len(s) - 1 -> S]
  BY <1>1 DEF SwapRemove
<1> QED
  BY <1>1, <1>2 DEF SwapRemove

(* A machine that is put back makes the batch what it was. *)
LEMMA PutBackUndoes ==
  ASSUME NEW S, NEW s \in Seq(S), NEW i \in DOMAIN s
  PROVE  PutBack(SwapRemove(s, i), i, s[i]) = s
<1>1. Len(s) \in Nat /\ DOMAIN s = 1..Len(s) /\ s = [j \in 1..Len(s) |-> s[j]]
  OBVIOUS
<1>a. /\ Len(SwapRemove(s, i)) = Len(s) - 1
      /\ \A j \in 1..Len(s) - 1 :
           SwapRemove(s, i)[j] = IF j = i THEN s[Len(s)] ELSE s[j]
  BY SwapRemoved
<1>2. Len(SwapRemove(s, i)) + 1 = Len(s)
  BY <1>1, <1>a
<1>3. \A j \in 1..Len(s) :
        (IF j = i THEN s[i] ELSE IF j > Len(SwapRemove(s, i)) THEN SwapRemove(s, i)[i]
         ELSE SwapRemove(s, i)[j]) = s[j]
  BY <1>1, <1>2, <1>a
<1> QED
  BY <1>1, <1>2, <1>3 DEF PutBack

(* No machine is twice in what swap_remove leaves, and the one it took is not there. *)
LEMMA OnceRemoved ==
  ASSUME NEW S, NEW s \in Seq(S), NEW i \in DOMAIN s, Once(s)
  PROVE  /\ Once(SwapRemove(s, i))
         /\ \A j \in DOMAIN SwapRemove(s, i) :
              /\ SwapRemove(s, i)[j] # s[i]
              /\ \E k \in DOMAIN s : SwapRemove(s, i)[j] = s[k]
<1>1. Len(s) \in Nat /\ DOMAIN s = 1..Len(s)
  OBVIOUS
<1>2. /\ DOMAIN SwapRemove(s, i) = 1..Len(s) - 1
      /\ \A j \in 1..Len(s) - 1 :
           SwapRemove(s, i)[j] = IF j = i THEN s[Len(s)] ELSE s[j]
  BY SwapRemoved
<1> QED
  BY <1>1, <1>2 DEF Once

-----------------------------------------------------------------------------
LEMMA Initially == Init => VInv
<1> SUFFICES ASSUME Init PROVE VInv
  OBVIOUS
<1>1. Types
  BY DEF Init, Types, Methods
<1>2. Owned /\ Called /\ Told
  BY DEF Init, Owned, Called, Told, Once
<1>3. TimersCover /\ NotStranded
  BY DEF Init, TimersCover, NotStranded
<1> QED
  BY <1>1, <1>2, <1>3 DEF VInv

(* Between two methods the batch may grow by a machine from the channel. *)
LEMMA ReceiveStep ==
  ASSUME VInv, NEW m \in Normals, Receive(m)
  PROVE  VInv'
<1> USE DEF VInv
<1>1. /\ Len(normals) \in Nat /\ DOMAIN normals = 1..Len(normals)
      /\ Len(normals') = Len(normals) + 1 /\ DOMAIN normals' = 1..Len(normals) + 1
      /\ \A j \in 1..Len(normals) : normals'[j] = normals[j]
      /\ normals'[Len(normals) + 1] = m
      /\ Len(timers) \in Nat /\ Len(timers') = Len(timers) + 1
  BY DEF Types, Receive
<1>2. Types'
  BY DEF Types, Receive, Methods
<1>3. Owned'
  <2>1. \A i \in DOMAIN normals : normals[i] # m
    BY DEF Owned, Receive
  <2>2. Once(normals)'
    BY <1>1, <2>1 DEF Owned, Once
  <2>3. \A i \in DOMAIN normals' : place'[normals'[i]] = "batch"
    BY <1>1, <2>1 DEF Owned, Receive, Types
  <2> QED
    BY <2>2, <2>3 DEF Owned, Receive
<1>4. Called' /\ Told'
  BY DEF Called, Told, Receive
<1>5. TimersCover'
  BY <1>1 DEF TimersCover, Receive, Types
<1>6. NotStranded'
  BY DEF NotStranded, Receive, Types
<1> QED
  BY <1>2, <1>3, <1>4, <1>5, <1>6

(* What other threads do, and the handler: the vectors stay as they are. *)
LEMMA OutsideStep ==
  ASSUME VInv, NEW m \in Normals, Push(m) \/ Notify(m) \/ Close(m)
  PROVE  VInv'
<1> USE DEF VInv
<1>0. /\ place \in [Normals -> {"parked", "away", "batch", "freed"}]
      /\ known \in [Normals -> Nat] /\ waiting \in [Normals -> Nat]
      /\ removed \subseteq Normals
  BY DEF Types
<1>1. Types'
  <2>1. CASE Push(m)
    BY <2>1 DEF Types, Push
  <2>2. CASE Notify(m)
    <3>1. CASE place[m] = "parked"
      <4>1. Unpark(m, "away")
        BY <2>2, <3>1 DEF Notify
      <4> QED
        BY <1>0, <2>2, <4>1 DEF Types, Notify, Unpark
    <3>2. CASE place[m] # "parked"
      BY <2>2, <3>2 DEF Types, Notify
    <3> QED
      BY <3>1, <3>2
  <2>3. CASE Close(m)
    <3>1. CASE place[m] = "parked"
      <4>1. Unpark(m, "freed") /\ waiting' = [waiting EXCEPT ![m] = 0]
        BY <2>3, <3>1 DEF Close
      <4> QED
        BY <1>0, <2>3, <4>1 DEF Types, Close, Unpark
    <3>2. CASE place[m] # "parked"
      BY <2>3, <3>2 DEF Types, Close
    <3> QED
      BY <3>1, <3>2
  <2> QED
    BY <2>1, <2>2, <2>3
<1>2. Owned'
  <2>1. normals' = normals /\ method' = method
    BY DEF Push, Notify, Close
  <2>2. \A n \in Normals : place'[n] = "batch" <=> place[n] = "batch"
    BY DEF Push, Notify, Close, Unpark, Types
  <2>3. \A i \in DOMAIN normals : normals[i] \in Normals
    BY DEF Types
  <2>4. method.at \in {"look", "retake", "remove", "park"} => method.machine \in Normals
    BY DEF Types, Methods
  <2> QED
    BY <2>1, <2>2, <2>3, <2>4 DEF Owned, Once
<1>3. Called' /\ TimersCover'
  BY DEF Called, TimersCover, Push, Notify, Close
<1>4. Told'
  <2>0. method.at = "look" => method.machine \in Normals
    BY DEF Types, Methods
  <2>1. CASE Push(m)
    BY <2>1 DEF Told, Push
  <2>2. CASE Notify(m) /\ place[m] = "parked"
    BY <2>0, <2>2 DEF Told, Notify, Unpark, Types
  <2>3. CASE Close(m) /\ place[m] = "parked"
    BY <2>0, <2>3 DEF Told, Close, Unpark, Types
  <2>4. CASE (Notify(m) \/ Close(m)) /\ place[m] # "parked"
    BY <2>4 DEF Told, Notify, Close
  <2> QED
    BY <2>1, <2>2, <2>3, <2>4
<1>5. NotStranded'
  <2>1. CASE Push(m)
    BY <2>1 DEF NotStranded, Push, Types
  <2>2. CASE Notify(m)
    BY <2>2 DEF NotStranded, Notify, Unpark, Types
  <2>3. CASE Close(m)
    BY <2>3 DEF NotStranded, Close, Unpark, Types
  <2> QED
    BY <2>1, <2>2, <2>3
<1> QED
  BY <1>1, <1>2, <1>3, <1>4, <1>5

LEMMA HandleStep ==
  ASSUME VInv, NEW i \in DOMAIN normals, Handle(i)
  PROVE  VInv'
<1> USE DEF VInv
<1>0. normals[i] \in Normals /\ place[normals[i]] = "batch"
  BY DEF Types, Owned
<1>1. Types'
  BY <1>0 DEF Types, Handle, Methods
<1>2. Owned' /\ Called' /\ Told' /\ TimersCover'
  BY DEF Owned, Called, Told, TimersCover, Handle, Once
<1>3. NotStranded'
  BY <1>0 DEF NotStranded, Handle, Types
<1> QED
  BY <1>1, <1>2, <1>3

(* The first step of release and of remove takes the machine out. *)
LEMMA TakenOut ==
  ASSUME VInv, method = Idle, NEW i \in DOMAIN normals,
         normals' = SwapRemove(normals, i), before' = normals, timers' = timers,
         method'.index = i, method'.machine = normals[i], method' # Idle, lost' = lost
  PROVE  /\ normals' \in Seq(Normals) /\ normals[i] \in Normals
         /\ Called' /\ TimersCover'
         /\ Once(normals)'
         /\ \A j \in DOMAIN normals' : normals'[j] # normals[i] /\ place[normals'[j]] = "batch"
<1> USE DEF VInv
<1>1. normals \in Seq(Normals) /\ Once(normals) /\ normals[i] \in Normals
  BY DEF Types, Owned
<1>2. normals' \in Seq(Normals) /\ Len(normals') = Len(normals) - 1
  BY <1>1, SwapRemoved
<1>3. /\ Once(SwapRemove(normals, i))
      /\ \A j \in DOMAIN SwapRemove(normals, i) :
           /\ SwapRemove(normals, i)[j] # normals[i]
           /\ \E k \in DOMAIN normals : SwapRemove(normals, i)[j] = normals[k]
  BY <1>1, OnceRemoved
<1>4. Called'
  BY <1>1 DEF Called, Once
<1>5. TimersCover'
  <2>1. Len(timers) = Len(normals) + lost /\ lost \in Nat /\ Len(normals) \in Nat
    BY <1>1 DEF TimersCover, Types
  <2>2. Len(timers') = Len(normals') + lost' + 1
    BY <1>2, <2>1
  <2>3. lost' = 0 => timers' = before'
    BY DEF TimersCover
  <2> QED
    BY <2>2, <2>3 DEF TimersCover
<1>6. \A j \in DOMAIN normals' : normals'[j] # normals[i] /\ place[normals'[j]] = "batch"
  BY <1>3 DEF Owned
<1> QED
  BY <1>1, <1>2, <1>3, <1>4, <1>5, <1>6 DEF Once

LEMMA ReleaseStep ==
  ASSUME VInv, NEW i \in DOMAIN normals, NEW checked \in 0..waiting[normals[i]],
         Release(i, checked)
  PROVE  VInv'
<1>0. /\ normals' \in Seq(Normals) /\ normals[i] \in Normals
      /\ Called' /\ TimersCover'
      /\ Once(normals)'
      /\ \A j \in DOMAIN normals' : normals'[j] # normals[i] /\ place[normals'[j]] = "batch"
  BY TakenOut DEF Release
<1> USE DEF VInv
<1>1. i \in Nat /\ checked \in Nat
  BY <1>0 DEF Types
<1>2. method' \in Methods
  BY <1>0, <1>1 DEF Release, Methods
<1>3. Types'
  BY <1>0, <1>1, <1>2 DEF Types, Release, Park
<1>4. Owned'
  BY <1>0, <1>3 DEF Owned, Release, Park, Types
<1>5. NotStranded' /\ Told'
  BY <1>0 DEF NotStranded, Told, Release, Park, Types
<1> QED
  BY <1>0, <1>3, <1>4, <1>5

LEMMA RemoveStep ==
  ASSUME VInv, NEW i \in DOMAIN normals, Remove(i)
  PROVE  VInv'
<1>0. /\ normals' \in Seq(Normals) /\ normals[i] \in Normals
      /\ Called' /\ TimersCover'
      /\ Once(normals)'
      /\ \A j \in DOMAIN normals' : normals'[j] # normals[i] /\ place[normals'[j]] = "batch"
  BY TakenOut DEF Remove
<1> USE DEF VInv
<1>1. i \in Nat
  BY <1>0 DEF Types
<1>2. method' \in Methods
  BY <1>0, <1>1 DEF Remove, Methods
<1>3. Types'
  BY <1>0, <1>1, <1>2 DEF Types, Remove, mailboxes
<1>4. Owned'
  BY <1>0, <1>3 DEF Owned, Remove, mailboxes
<1>5. NotStranded' /\ Told'
  BY <1>0 DEF NotStranded, Told, Remove, mailboxes
<1> QED
  BY <1>0, <1>3, <1>4, <1>5

(* When the machine stays out, its timer goes the same way. *)
LEMMA TimerGoes ==
  ASSUME VInv, method # Idle, timers' = SwapRemove(timers, method.index), normals' = normals,
         method' = Idle, before' = <<>>, lost' = lost
  PROVE  timers' \in Seq(Normals) /\ TimersCover'
<1> USE DEF VInv
<1>1. method.index \in DOMAIN before /\ Len(normals) = Len(before) - 1
  BY SwapRemoved DEF Called, Types
<1>2. Len(before) \in Nat /\ DOMAIN before = 1..Len(before)
  BY DEF Types
<1>3. Len(timers) = Len(before) + lost /\ Len(timers) \in Nat
  BY <1>1, <1>2 DEF TimersCover, Types
<1>4. method.index \in DOMAIN timers
  BY <1>1, <1>2, <1>3 DEF Types
<1>5. timers' \in Seq(Normals) /\ Len(timers') = Len(timers) - 1
  BY <1>4, SwapRemoved DEF Types
<1>6. lost = 0 => timers' = normals
  BY DEF TimersCover, Called
<1> QED
  BY <1>1, <1>2, <1>3, <1>5, <1>6 DEF TimersCover, Types

LEMMA ReleaseSameStep ==
  ASSUME VInv, ReleaseSame
  PROVE  VInv'
<1>0. method # Idle
  BY DEF ReleaseSame
<1>1. timers' \in Seq(Normals) /\ TimersCover'
  BY <1>0, TimerGoes DEF ReleaseSame, Done
<1> USE DEF VInv
<1>2. Types'
  BY <1>1 DEF Types, ReleaseSame, Done, mailboxes, Methods
<1>3. Owned' /\ Called' /\ Told'
  BY DEF Owned, Called, Told, ReleaseSame, Done, mailboxes, Once
<1>4. place[method.machine] = "parked" => known[method.machine] = waiting[method.machine]
  BY DEF Told, ReleaseSame
<1>5. NotStranded'
  BY <1>4 DEF NotStranded, ReleaseSame, Done, mailboxes, Types
<1> QED
  BY <1>1, <1>2, <1>3, <1>5

LEMMA ReleaseGrownStep ==
  ASSUME VInv, ReleaseGrown
  PROVE  VInv'
<1> USE DEF VInv
<1>0. method' = [method EXCEPT !.at = "retake"] /\ method.at = "look"
  BY DEF ReleaseGrown
<1>1. method \in [at : {"look", "retake"}, machine : Normals, index : Nat, checked : Nat]
  BY <1>0 DEF Types, Methods
<1>2. /\ method' \in [at : {"look", "retake"}, machine : Normals, index : Nat, checked : Nat]
      /\ method'.at = "retake" /\ method'.machine = method.machine
      /\ method'.index = method.index /\ method # Idle /\ method' # Idle
  BY <1>0, <1>1
<1>3. Types'
  BY <1>2 DEF Types, ReleaseGrown, mailboxes, Methods
<1>4. Owned' /\ Called' /\ Told'
  BY <1>0, <1>2 DEF Owned, Called, Told, ReleaseGrown, mailboxes, Once
<1>5. TimersCover' /\ NotStranded'
  BY <1>2 DEF TimersCover, NotStranded, ReleaseGrown, mailboxes
<1> QED
  BY <1>3, <1>4, <1>5

(* What puts the machine back makes the batch what it was. *)
LEMMA PutBackStep ==
  ASSUME VInv, Retake \/ RemoveNot
  PROVE  VInv' /\ normals' = before
<1> USE DEF VInv
<1>0. /\ method # Idle /\ before \in Seq(Normals) /\ method.index \in DOMAIN before
      /\ method.machine = before[method.index] /\ method.machine \in Normals
      /\ normals = SwapRemove(before, method.index) /\ Once(before)
  BY DEF Retake, RemoveNot, Called, Types
<1>a. /\ normals' = PutBack(normals, method.index, method.machine)
      /\ method' = Idle /\ before' = <<>>
      /\ UNCHANGED <<timers, closed, waiting, notifying, lost, removed>>
  BY DEF Retake, RemoveNot, Done, mailboxes
<1>1. normals' = before
  BY <1>0, <1>a, PutBackUndoes
<1>p. place \in [Normals -> {"parked", "away", "batch", "freed"}] /\ known \in [Normals -> Nat]
  BY DEF Types
<1>b. place' = [place EXCEPT ![method.machine] = "batch"]
  <2>1. CASE Retake
    BY <2>1 DEF Retake
  <2>2. CASE RemoveNot
    BY <1>p, <2>2 DEF RemoveNot, Owned, mailboxes
  <2> QED
    BY <2>1, <2>2
<1>c. /\ known' \in [Normals -> Nat]
      /\ \A m \in Normals : m # method.machine => known'[m] = known[m]
  <2>1. CASE Retake
    <3>1. known' = [known EXCEPT ![method.machine] = 0]
      BY <2>1 DEF Retake
    <3> QED
      BY <1>0, <1>p, <3>1
  <2>2. CASE RemoveNot
    BY <1>p, <2>2 DEF RemoveNot
  <2> QED
    BY <2>1, <2>2
<1>2. Types'
  <2>1. place' \in [Normals -> {"parked", "away", "batch", "freed"}]
    BY <1>0, <1>b, <1>p
  <2>2. normals' \in Seq(Normals) /\ before' \in Seq(Normals) /\ method' \in Methods
    BY <1>0, <1>a, <1>1 DEF Methods
  <2> QED
    BY <1>a, <1>c, <2>1, <2>2 DEF Types
<1>3. Owned'
  <2>1. Len(before) \in Nat /\ DOMAIN before = 1..Len(before)
    BY <1>0
  <2>2. /\ DOMAIN normals = 1..Len(before) - 1
        /\ \A j \in 1..Len(before) - 1 :
             normals[j] = IF j = method.index THEN before[Len(before)] ELSE before[j]
    BY <1>0, SwapRemoved
  <2>3. \A j \in DOMAIN before : j = method.index \/ \E k \in DOMAIN normals : normals[k] = before[j]
    BY <1>0, <2>1, <2>2
  <2>4. \A j \in DOMAIN before : place'[before[j]] = "batch"
    <3>1. \A m \in Normals : place[m] = "batch" \/ m = method.machine => place'[m] = "batch"
      BY <1>0, <1>b, <1>p
    <3>2. \A j \in DOMAIN before : before[j] \in Normals
      BY <1>0, <2>1
    <3> QED
      BY <1>0, <2>3, <3>1, <3>2 DEF Owned
  <2> QED
    BY <1>0, <1>a, <1>1, <2>4 DEF Owned, Once
<1>4. Called' /\ Told'
  BY <1>a DEF Called, Told
<1>5. TimersCover'
  <2>1. Len(before) = Len(normals) + 1 /\ Len(normals) \in Nat /\ lost \in Nat
    <3>1. Len(SwapRemove(before, method.index)) = Len(before) - 1
      BY <1>0, SwapRemoved
    <3> QED
      BY <1>0, <3>1 DEF Types
  <2> QED
    BY <1>0, <1>a, <1>1, <2>1 DEF TimersCover
<1>6. NotStranded'
  BY <1>0, <1>a, <1>b, <1>c, <1>p DEF NotStranded
<1> QED
  BY <1>1, <1>2, <1>3, <1>4, <1>5, <1>6

LEMMA RetakeLostStep ==
  ASSUME VInv, RetakeLost
  PROVE  VInv'
<1> USE DEF VInv
<1>1. Types'
  BY DEF Types, RetakeLost, Done, mailboxes, Methods
<1>2. Owned' /\ Called' /\ Told'
  BY DEF Owned, Called, Told, RetakeLost, Done, mailboxes, Once
<1>3. TimersCover'
  <2>1. /\ method # Idle /\ method' = Idle /\ lost' = lost + 1 /\ lost \in Nat
        /\ normals' = normals /\ timers' = timers
        /\ Len(normals) \in Nat /\ Len(timers) \in Nat
    BY DEF RetakeLost, Done, Types
  <2>2. Len(timers') = Len(normals') + lost' + 0 /\ lost' # 0
    BY <2>1 DEF TimersCover
  <2> QED
    BY <2>1, <2>2 DEF TimersCover
<1>4. NotStranded'
  BY DEF NotStranded, RetakeLost, Done, mailboxes
<1> QED
  BY <1>1, <1>2, <1>3, <1>4

LEMMA RemoveEndStep ==
  ASSUME VInv, RemoveEnd
  PROVE  VInv'
<1>0. method # Idle
  BY DEF RemoveEnd
<1>1. timers' \in Seq(Normals) /\ TimersCover'
  BY <1>0, TimerGoes DEF RemoveEnd, Done
<1> USE DEF VInv
<1>2. /\ before \in Seq(Normals) /\ method.index \in DOMAIN before /\ Once(before)
      /\ method.machine = before[method.index] /\ method.machine \in Normals
      /\ normals = SwapRemove(before, method.index)
  BY <1>0 DEF Called, Types
<1>3. \A j \in DOMAIN normals : normals[j] # method.machine
  BY <1>2, OnceRemoved
<1>4. Types'
  BY <1>1, <1>2 DEF Types, RemoveEnd, Done, Park, Methods
<1>5. Owned' /\ Called' /\ Told'
  BY <1>3 DEF Owned, Called, Told, RemoveEnd, Done, Park, Once, Types
<1>6. NotStranded'
  BY <1>2 DEF NotStranded, RemoveEnd, Done, Park, Types
<1> QED
  BY <1>1, <1>4, <1>5, <1>6

LEMMA RemoveEmptyStep ==
  ASSUME VInv, RemoveEmpty
  PROVE  VInv'
<1> USE DEF VInv
<1>0. method' = [method EXCEPT !.at = "park"] /\ method.at = "remove"
  BY DEF RemoveEmpty
<1>1. method \in [at : {"remove", "park"}, machine : Normals, index : Nat]
  BY <1>0 DEF Types, Methods
<1>2. /\ method' \in [at : {"remove", "park"}, machine : Normals, index : Nat]
      /\ method'.at = "park" /\ method'.machine = method.machine
      /\ method'.index = method.index /\ method # Idle /\ method' # Idle
  BY <1>0, <1>1
<1>3. Types'
  BY <1>2 DEF Types, RemoveEmpty, mailboxes, Methods
<1>4. Owned' /\ Called' /\ Told'
  BY <1>0, <1>2 DEF Owned, Called, Told, RemoveEmpty, mailboxes, Once
<1>5. TimersCover' /\ NotStranded'
  BY <1>2 DEF TimersCover, NotStranded, RemoveEmpty, mailboxes
<1> QED
  BY <1>3, <1>4, <1>5

LEMMA RescheduleStep ==
  ASSUME VInv, NEW i \in DOMAIN normals, Reschedule(i)
  PROVE  VInv'
<1> USE DEF VInv
<1>1. normals \in Seq(Normals) /\ Once(normals) /\ normals[i] \in Normals /\ method = Idle
  BY DEF Types, Owned, Reschedule
<1>2. /\ Len(normals) \in Nat /\ DOMAIN normals = 1..Len(normals)
      /\ Len(timers) = Len(normals) + lost /\ lost \in Nat /\ timers \in Seq(Normals)
  BY <1>1 DEF TimersCover, Types
<1>3. normals' \in Seq(Normals) /\ Len(normals') = Len(normals) - 1
  BY <1>1, SwapRemoved DEF Reschedule
<1>4. i \in DOMAIN timers
  BY <1>2
<1>5. timers' \in Seq(Normals) /\ Len(timers') = Len(timers) - 1
  BY <1>2, <1>4, SwapRemoved DEF Reschedule
<1>6. /\ Once(normals')
      /\ \A j \in DOMAIN normals' :
           normals'[j] # normals[i] /\ \E k \in DOMAIN normals : normals'[j] = normals[k]
  BY <1>1, OnceRemoved DEF Reschedule
<1>7. Types'
  BY <1>1, <1>3, <1>5 DEF Types, Reschedule, Methods
<1>8. Owned'
  BY <1>1, <1>6 DEF Owned, Reschedule, Types, Once
<1>9. Called' /\ Told'
  BY <1>1 DEF Called, Told, Reschedule
<1>10. TimersCover'
  BY <1>1, <1>2, <1>3, <1>5 DEF TimersCover, Reschedule
<1>11. NotStranded'
  BY <1>1 DEF NotStranded, Reschedule, Types
<1> QED
  BY <1>7, <1>8, <1>9, <1>10, <1>11

LEMMA ClearStep ==
  ASSUME VInv, Clear
  PROVE  VInv'
<1> USE DEF VInv
<1>1. Types'
  BY DEF Types, Clear, Methods
<1>2. Owned' /\ Called' /\ Told' /\ TimersCover'
  BY DEF Owned, Called, Told, TimersCover, Clear, Once
<1>3. NotStranded'
  BY DEF NotStranded, Clear, Types
<1> QED
  BY <1>1, <1>2, <1>3

-----------------------------------------------------------------------------
LEMMA Step ==
  ASSUME VInv, [Next]_vars
  PROVE  VInv'
<1>1. CASE \E m \in Normals : Push(m) \/ Notify(m) \/ Close(m) \/ Receive(m)
  BY <1>1, OutsideStep, ReceiveStep
<1>2. CASE \E i \in DOMAIN normals :
            \/ Handle(i) \/ Remove(i) \/ Reschedule(i)
            \/ \E checked \in 0..waiting[normals[i]] : Release(i, checked)
  BY <1>2, HandleStep, RemoveStep, RescheduleStep, ReleaseStep
<1>3. CASE \/ ReleaseSame \/ ReleaseGrown \/ Retake \/ RetakeLost
           \/ RemoveEmpty \/ RemoveEnd \/ RemoveNot \/ Clear
  BY <1>3, ReleaseSameStep, ReleaseGrownStep, PutBackStep, RetakeLostStep, RemoveEmptyStep,
     RemoveEndStep, ClearStep
<1>4. CASE UNCHANGED vars
  BY <1>4 DEF vars, mailboxes, VInv, Types, Owned, Called, Told, TimersCover, NotStranded, Once
<1> QED
  BY <1>1, <1>2, <1>3, <1>4 DEF Next

(* What the methods of a batch preserve. *)
THEOREM VectorsInvariance == Spec => []VInv
<1>1. VInv /\ [Next]_vars => VInv'
  BY Step
<1> QED
  BY Initially, <1>1, PTL DEF Spec

(* Every machine of a batch has a timer, its own unless a release lost a machine *)
(* (Batch::push, release, remove, reschedule).                                   *)
THEOREM TimersCovering == Spec => []TimersCover
<1>1. VInv => TimersCover
  BY DEF VInv
<1> QED
  BY VectorsInvariance, <1>1, PTL

(* release leaves no message behind that its caller did not know of: a parked machine *)
(* that remove has not parked has as many as its handler said (batch.rs:210-228).     *)
THEOREM NoMessageStranded == Spec => []NotStranded
<1>1. VInv => NotStranded
  BY DEF VInv
<1> QED
  BY VectorsInvariance, <1>1, PTL

(* A method leaves the machines of smaller indices where they are, and a machine *)
(* that release or remove puts back gets its own place again.                    *)
THEOREM PlacesStay == Spec => PlacesKept
<1> DEFINE Kept ==
      (method # Idle /\ method' = Idle)
        => normals' \in {before, SwapRemove(before, method.index)}
<1>1. VInv /\ [Next]_vars => [Kept]_vars
  <2> SUFFICES ASSUME VInv, Next, method # Idle, method' = Idle
               PROVE  normals' \in {before, SwapRemove(before, method.index)}
    OBVIOUS
  <2>1. normals = SwapRemove(before, method.index)
    BY DEF VInv, Called
  <2>2. CASE Retake \/ RemoveNot
    BY <2>2, PutBackStep
  <2>3. CASE ~Retake /\ ~RemoveNot
    <3>1. normals' = normals
      BY <2>3 DEF Next, Push, Notify, Close, Receive, Handle, Release, Remove, RemoveEmpty,
                  Reschedule, ReleaseSame, ReleaseGrown, RetakeLost, RemoveEnd, Clear
    <3> QED
      BY <2>1, <3>1
  <2> QED
    BY <2>2, <2>3
<1> QED
  BY VectorsInvariance, <1>1, PTL DEF Spec, PlacesKept

=============================================================================
