------------------------------ MODULE MCOnRamp ------------------------------
(* Instances of OnRamp for TLC. *)
EXTENDS OnRamp

AllFaults == FaultKinds

(* The chain refuses, and an ack that does not arrive duplicates a message. *)
ServiceFaults == {<<"chain", "lost">>, <<"broker", "late">>}
=============================================================================
