-------------------------- MODULE MCEventDelivery --------------------------
(* Bounds for model-checking EventDelivery.                                *)
EXTENDS EventDelivery

\* The liveness run: what the device itself has to recover from.
DeviceFaults == {"link", "send", "drain", "crash", "stop"}

\* The run with two faults: a refused send acts as a lost connection, and a
\* handled signal loses no more than a crash; the liveness run has both.
FaultPairs == FaultKinds \ {"send", "stop"}

=============================================================================
