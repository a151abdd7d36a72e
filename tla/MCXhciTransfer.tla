--------------------------- MODULE MCXhciTransfer ---------------------------
(* Instances of XhciTransfer for TLC: two transfers, so that what the first *)
(* leaves behind meets the second, and a poll loop of a few rounds.         *)
EXTENDS XhciTransfer
=============================================================================
