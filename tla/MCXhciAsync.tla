---------------------------- MODULE MCXhciAsync ----------------------------
(* Instances of XhciAsync for TLC. The cells, endpoints and None are model *)
(* values.                                                                 *)
EXTENDS XhciAsync
=============================================================================
