---------------------------- MODULE BatchVectors ----------------------------
(***************************************************************************)
(* The two vectors of a Batch (batch.rs): normals and, by the same index,  *)
(* timers, under push, release, remove, reschedule and clear, while other  *)
(* threads send to the machines and close them.                            *)
(*                                                                         *)
(* One poller has the batch and calls one method at a time; a method that  *)
(* lets a machine go and then looks at its mailbox takes several steps.    *)
(* As in Poller, poll itself calls only push and clear.                    *)
(***************************************************************************)
EXTENDS Naturals, Sequences, FiniteSets, Functions

CONSTANTS
  Normals,   (* normal machines                        *)
  MaxWaiting, (* bound of the model: messages in a queue *)
  MaxLost    (* bound of the model: on lost             *)

ASSUME BatchVectorsAssumption == IsFiniteSet(Normals) /\ MaxWaiting \in Nat /\ MaxLost \in Nat

VARIABLES
  normals,    (* Batch.normals                                                 *)
  timers,     (* Batch.timers: for each of them, whose push it is              *)
  method,     (* the method that is under way: where it is, and its arguments  *)
  place,      (* each machine: "parked" in its mailbox, "away" with a sender   *)
              (* or in a channel, in the "batch", or "freed"                   *)
  closed,     (* each mailbox: closed or not                                   *)
  waiting,    (* the length of each queue; with the machine goes its Receiver, *)
              (* and with that what is queued                                  *)
  notifying,  (* machines whose senders have pushed and not yet notified       *)
  lost,       (* history: machines that release did not get back, since clear  *)
  before,     (* history: normals when the method that is under way was called *)
  known,      (* history: for a parked machine, how long the caller of release *)
              (* said that the queue was                                       *)
  removed     (* history: machines that remove has parked, until they are taken *)

mailboxes == <<place, closed, waiting, notifying>>
vars == <<normals, timers, method, mailboxes, lost, before, known, removed>>

Idle == [at |-> "idle"]

(* The method returns. *)
Done == method' = Idle /\ before' = <<>>

(* Vec::swap_remove: the last element takes the place. *)
SwapRemove(s, i) ==
  [j \in 1..Len(s) - 1 |-> IF j = i THEN s[Len(s)] ELSE s[j]]

(* Mutant: it stays the last. *)
PushOnly(s, i, x) == Append(s, x)

(* push, and swap with the element at the index. *)
PutBack(s, i, x) ==
  [j \in 1..Len(s) + 1 |-> IF j = i THEN x ELSE IF j > Len(s) THEN s[i] ELSE s[j]]

Init ==
  /\ normals = <<>>
  /\ timers = <<>>
  /\ method = Idle
  /\ place = [m \in Normals |-> "parked"]
  /\ closed = [m \in Normals |-> FALSE]
  /\ waiting = [m \in Normals |-> 0]
  /\ notifying = {}
  /\ lost = 0
  /\ before = <<>>
  /\ known = [m \in Normals |-> 0]
  /\ removed = {}

-----------------------------------------------------------------------------
(* Other threads *)

(* The message is in the queue, also when the mailbox was closed after the sender had *)
(* looked.                                                                            *)
Push(m) ==
  /\ place[m] # "freed" /\ m \notin notifying
  /\ waiting[m] < MaxWaiting
  /\ waiting' = [waiting EXCEPT ![m] = @ + 1]
  /\ notifying' = notifying \cup {m}
  /\ UNCHANGED <<normals, timers, method, place, closed, lost, before, known, removed>>

(* A parked machine leaves its mailbox. *)
Unpark(m, to) ==
  /\ place' = [place EXCEPT ![m] = to]
  /\ known' = [known EXCEPT ![m] = 0]
  /\ removed' = removed \ {m}

Notify(m) ==
  /\ m \in notifying
  /\ notifying' = notifying \ {m}
  /\ IF place[m] = "parked"
       THEN Unpark(m, "away")
       ELSE UNCHANGED <<place, known, removed>>
  /\ UNCHANGED <<normals, timers, method, closed, waiting, lost, before>>

Close(m) ==
  /\ ~closed[m]
  /\ closed' = [closed EXCEPT ![m] = TRUE]
  /\ IF place[m] = "parked"
       THEN Unpark(m, "freed") /\ waiting' = [waiting EXCEPT ![m] = 0]
       ELSE UNCHANGED <<place, known, removed, waiting>>
  /\ UNCHANGED <<normals, timers, method, notifying, lost, before>>

-----------------------------------------------------------------------------
(* The poller *)

(* push of a machine that came through the channel. *)
Receive(m) ==
  /\ method = Idle
  /\ place[m] = "away"
  /\ place' = [place EXCEPT ![m] = "batch"]
  /\ normals' = Append(normals, m)
  /\ timers' = Append(timers, m)
  /\ UNCHANGED <<method, closed, waiting, notifying, lost, before, known, removed>>

(* The handler takes a message of a machine in the batch. *)
Handle(i) ==
  /\ method = Idle
  /\ waiting[normals[i]] > 0
  /\ waiting' = [waiting EXCEPT ![normals[i]] = @ - 1]
  /\ UNCHANGED <<normals, timers, method, place, closed, notifying, lost, before, known,
                 removed>>

(* BasicMailbox::release: the machine is parked, or freed if it was closed.  Its poller *)
(* says that the queue was n long.                                                      *)
Park(m, n) ==
  /\ place' = [place EXCEPT ![m] = IF closed[m] THEN "freed" ELSE "parked"]
  /\ waiting' = [waiting EXCEPT ![m] = IF closed[m] THEN 0 ELSE @]
  /\ known' = [known EXCEPT ![m] = IF closed[m] THEN 0 ELSE n]

(* release up to mailbox.release; checked_len is what the handler saw of the queue, *)
(* which may have grown since.                                                      *)
Release(i, checked) ==
  /\ method = Idle
  /\ lost < MaxLost
  /\ normals' = SwapRemove(normals, i)
  /\ Park(normals[i], checked)
  /\ method' = [at |-> "look", machine |-> normals[i], index |-> i, checked |-> checked]
  /\ before' = normals
  /\ UNCHANGED <<timers, closed, notifying, lost, removed>>

(* Mutant: the timer of the machine that leaves stays. *)
ReleaseSameKeeping ==
  /\ method.at = "look"
  /\ waiting[method.machine] = method.checked
  /\ Done
  /\ UNCHANGED <<normals, timers, mailboxes, lost, known, removed>>

(* mailbox.len() is checked_len: the machine's timer goes as well. *)
ReleaseSame ==
  /\ method.at = "look"
  /\ waiting[method.machine] = method.checked
  /\ timers' = SwapRemove(timers, method.index)
  /\ Done
  /\ UNCHANGED <<normals, mailboxes, lost, known, removed>>

(* Mutant: the machine is left where it is. *)
ReleaseGrownLeave ==
  /\ method.at = "look"
  /\ waiting[method.machine] # method.checked
  /\ timers' = SwapRemove(timers, method.index)
  /\ Done
  /\ UNCHANGED <<normals, mailboxes, lost, known, removed>>

(* It is not: take_fsm comes next. *)
ReleaseGrown ==
  /\ method.at = "look"
  /\ waiting[method.machine] # method.checked
  /\ method' = [method EXCEPT !.at = "retake"]
  /\ UNCHANGED <<normals, timers, mailboxes, lost, before, known, removed>>

(* take_fsm gets the machine, *)
Retake ==
  /\ method.at = "retake"
  /\ place[method.machine] = "parked"
  /\ place' = [place EXCEPT ![method.machine] = "batch"]
  /\ normals' = PutBack(normals, method.index, method.machine)
  /\ known' = [known EXCEPT ![method.machine] = 0]
  /\ Done
  /\ UNCHANGED <<timers, closed, waiting, notifying, lost, removed>>

(* or a sender or a close was faster: nothing is put back, and the timer stays. *)
RetakeLost ==
  /\ method.at = "retake"
  /\ place[method.machine] # "parked"
  /\ lost' = lost + 1
  /\ Done
  /\ UNCHANGED <<normals, timers, mailboxes, known, removed>>

(* remove takes the machine out, and looks at its queue next. *)
Remove(i) ==
  /\ method = Idle
  /\ normals' = SwapRemove(normals, i)
  /\ method' = [at |-> "remove", machine |-> normals[i], index |-> i]
  /\ before' = normals
  /\ UNCHANGED <<timers, mailboxes, lost, known, removed>>

(* It is empty: mailbox.release comes next, *)
RemoveEmpty ==
  /\ method.at = "remove"
  /\ waiting[method.machine] = 0
  /\ method' = [method EXCEPT !.at = "park"]
  /\ UNCHANGED <<normals, timers, mailboxes, lost, before, known, removed>>

(* and parks the machine without another look. *)
RemoveEnd ==
  /\ method.at = "park"
  /\ Park(method.machine, 0)
  /\ removed' = IF closed[method.machine] THEN removed ELSE removed \cup {method.machine}
  /\ timers' = SwapRemove(timers, method.index)
  /\ Done
  /\ UNCHANGED <<normals, closed, notifying, lost>>

(* It is not: the machine is put back. *)
RemoveNot ==
  /\ method.at = "remove"
  /\ waiting[method.machine] > 0
  /\ normals' = PutBack(normals, method.index, method.machine)
  /\ Done
  /\ UNCHANGED <<timers, mailboxes, lost, known, removed>>

(* reschedule: the machine goes to a channel. *)
Reschedule(i) ==
  /\ method = Idle
  /\ normals' = SwapRemove(normals, i)
  /\ timers' = SwapRemove(timers, i)
  /\ place' = [place EXCEPT ![normals[i]] = "away"]
  /\ UNCHANGED <<method, closed, waiting, notifying, lost, before, known, removed>>

Clear ==
  /\ method = Idle
  /\ place' = [m \in Normals |-> IF m \in Range(normals) THEN "freed" ELSE place[m]]
  /\ waiting' = [m \in Normals |-> IF m \in Range(normals) THEN 0 ELSE waiting[m]]
  /\ normals' = <<>>
  /\ timers' = <<>>
  /\ lost' = 0
  /\ UNCHANGED <<method, closed, notifying, before, known, removed>>

Next ==
  \/ \E m \in Normals : Push(m) \/ Notify(m) \/ Close(m) \/ Receive(m)
  \/ \E i \in DOMAIN normals :
       \/ Handle(i) \/ Remove(i) \/ Reschedule(i)
       \/ \E checked \in 0..waiting[normals[i]] : Release(i, checked)
  \/ ReleaseSame \/ ReleaseGrown \/ Retake \/ RetakeLost
  \/ RemoveEmpty \/ RemoveEnd \/ RemoveNot
  \/ Clear

Spec == Init /\ [][Next]_vars

-----------------------------------------------------------------------------
(* Properties *)

(* Every machine has a timer (poll reads timers[i], batch.rs:357) and no method    *)
(* removes one that is not there; each has its own, until a release loses a        *)
(* machine to another thread (batch.rs:219) and its timer remains.                 *)
TimersCover ==
  /\ Len(timers) = Len(normals) + lost + IF method = Idle THEN 0 ELSE 1
  /\ lost = 0 => timers = IF method = Idle THEN normals ELSE before

(* A method that is done has taken its one machine out or has left the batch as it *)
(* was: a machine of a smaller index is where it was, also when release takes its  *)
(* machine back (batch.rs:222-224) or remove finds a message (batch.rs:237-240), so *)
(* the indices that poll collects keep their meaning if they are worked off from   *)
(* the last one.                                                                   *)
PlacesKept ==
  [][(method # Idle /\ method' = Idle)
       => normals' \in {before, SwapRemove(before, method.index)}]_vars

(* release leaves no message behind: the queue of a parked machine is as long as   *)
(* the handler knew it was, unless a sender is about to notify or release is about *)
(* to look.  A machine that remove has parked is exempt: remove does not look      *)
(* again, so it may lie over a message that came after the queue was found empty   *)
(* (batch.rs:233-234).                                                             *)
NotStranded ==
  \A m \in Normals \ removed :
    (place[m] = "parked" /\ m \notin notifying)
      => \/ waiting[m] = known[m]
         \/ method # Idle /\ method.machine = m

=============================================================================
