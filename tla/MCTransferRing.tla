--------------------------- MODULE MCTransferRing ---------------------------
(* Instances of TransferRing for TLC: a ring of a few TRBs wraps within a   *)
(* handful of steps, and two payloads tell a TRB from the one before it.    *)
EXTENDS TransferRing
=============================================================================
