---------------------------- MODULE MCXhciSlots ----------------------------
(* Instances of XhciSlots for TLC.                                          *)
EXTENDS XhciSlots, TLC

MCPlaces == {<<1>>, <<1, 14>>, <<1, 14, 1>>, <<2>>}
MCSpeed == (<<1>> :> "high") @@ (<<1, 14>> :> "full") @@ (<<1, 14, 1>> :> "low") @@ (<<2>> :> "super")
MCAddresses == 1 .. 3
=============================================================================
