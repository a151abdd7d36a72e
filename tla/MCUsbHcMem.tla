----------------------------- MODULE MCUsbHcMem -----------------------------
(* Instances of UsbHcMem for TLC.                                           *)
EXTENDS UsbHcMem

MCSizes == {1, 3, 5}
MCDmaShifts == {0, 5}
MCAlignments == {1, 2}
=============================================================================
