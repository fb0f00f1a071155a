------------------------------ MODULE MCPoller ------------------------------
(* Poller with the symmetry of machines and pollers of one pool, and under the driver *)
(* of test_batch (test_batch.rs).                                                     *)
EXTENDS Poller, TLC

Symmetry == Permutations(Normals \ LowNormals) \cup Permutations(Pollers \ LowPollers)

(* Bound of the model: one message to each normal machine.  None is parked again once it *)
(* was taken, so that the second message is the control machine's.                       *)
OneEach == \A m \in Normals : sent[m] <= 1

(* The test sends to the normal machine once the control message was handled and *)
(* the poller has finished its round, and shuts down once that one was handled.  *)
(* It closes no mailbox before.                                                  *)
TestNext ==
  /\ Next
  /\ \A m \in Normals : sent'[m] # sent[m] =>
       /\ handled[ControlFsm] = 1
       /\ \A p \in Pollers : at[p] = "fetch"
  /\ closed' # closed => shut = "closing"
  /\ shut' # "no" => \A m \in Machines : handled[m] = 1

TestSpec == Init /\ [][TestNext]_vars

(* test_batch.rs:52-55: after that, HandleMetrics is control=1, normal=1, begin=2. *)
MetricsExact ==
  (\A p \in Pollers : at[p] = "stopped")
    => calls = [begin |-> 2, control |-> 1, normal |-> 1]

=============================================================================
