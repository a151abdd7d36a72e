-------------------------- MODULE MCXhciLifecycle --------------------------
(* An instance of XhciLifecycle: a second start after the first one failed *)
(* or was stopped, and resets in between.                                  *)
EXTENDS XhciLifecycle
=============================================================================
