---------------------------- MODULE FsmDelivery ----------------------------
(***************************************************************************)
(* What a machine promises together with its queue: messages are taken     *)
(* only by the party that has the machine, each once and none that was not *)
(* sent, and a freed machine gets and takes no more.                       *)
(***************************************************************************)
EXTENDS FsmOwnership, Naturals

VARIABLES
  sent,     (* messages that the queue accepted *)
  handled   (* messages taken out of it         *)

deliveryVars == <<vars, sent, handled>>

DeliveryInit == Init /\ sent = 0 /\ handled = 0

Send ==
  /\ place # "freed"
  /\ sent' = sent + 1
  /\ UNCHANGED <<vars, handled>>

Handle ==
  /\ place = "moving"
  /\ handled' \in handled + 1..sent
  /\ UNCHANGED <<vars, sent>>

Pass == Next /\ UNCHANGED <<sent, handled>>

DeliveryNext == Send \/ Handle \/ Pass

DeliverySpec == DeliveryInit /\ [][DeliveryNext]_deliveryVars

=============================================================================
