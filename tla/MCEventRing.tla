---------------------------- MODULE MCEventRing ----------------------------
(* Instances of EventRing for TLC: with four TRBs the ring fills, wraps and *)
(* is cut short by an error event on either side of the wrap.              *)
EXTENDS EventRing
=============================================================================
