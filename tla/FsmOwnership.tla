---------------------------- MODULE FsmOwnership ----------------------------
(***************************************************************************)
(* What FsmState (fsm.rs) promises to the rest of the batch system: one    *)
(* boxed state machine is either parked in its mailbox, moving (in the     *)
(* hands of exactly one party) or freed.  A closed mailbox never parks the *)
(* machine again, and a freed machine stays freed.                         *)
(***************************************************************************)

VARIABLES
  place,    (* where the machine is: "parked", "moving" or "freed" *)
  closed    (* the machine "is expected to be dropped"             *)

vars == <<place, closed>>

Init ==
  /\ place = "parked"
  /\ closed = FALSE

(* Somebody takes the parked machine out of its mailbox. *)
Take ==
  /\ place = "parked"
  /\ ~closed
  /\ place' = "moving"
  /\ UNCHANGED closed

(* The party that has the machine parks it again: not once it is closed. *)
Park ==
  /\ place = "moving"
  /\ ~closed
  /\ place' = "parked"
  /\ UNCHANGED closed

(* Closing takes a parked machine out, in order to free it sooner or later. *)
Close ==
  /\ ~closed
  /\ closed' = TRUE
  /\ place' \in IF place = "parked" THEN {"moving", "freed"} ELSE {place}

Free ==
  /\ place # "freed"
  /\ place' = "freed"
  /\ UNCHANGED closed

Next == Take \/ Park \/ Close \/ Free

Spec == Init /\ [][Next]_vars

=============================================================================
