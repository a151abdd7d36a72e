---------------------------- MODULE Fv2OnFvThunk ----------------------------
(***************************************************************************)
(* The FV2 on FV thunk: whenever the firmware installs the old firmware    *)
(* volume protocol on a handle, a notification at TPL_CALLBACK puts the    *)
(* new protocol beside it, unless the handle has one.                      *)
(*                                                                         *)
(* LocateHandle (ByRegisterNotify) hands out each handle once, in the      *)
(* order of installation, also those that were there before.               *)
(***************************************************************************)
EXTENDS Integers, SequencesExt

CONSTANT Volumes    \* handles the firmware puts volumes on

VARIABLES
  volumes,   \* handles with EFI_FIRMWARE_VOLUME_PROTOCOL, in order
  fv2,       \* handles with EFI_FIRMWARE_VOLUME2_PROTOCOL
  located,   \* how many handles mFv2Registration has handed out
  signaled,  \* the event of the notification
  thunk,     \* where Fv2NotificationEvent is
  missed     \* history: handles there was no memory for

thunkVars == <<volumes, fv2, located, signaled, thunk, missed>>

Handle == volumes[located]

ThunkInit ==
  /\ volumes = << >> /\ fv2 = {} /\ located = 0
  /\ signaled = FALSE /\ thunk = "not loaded" /\ missed = {}

(* The firmware, also at TPL_NOTIFY in the middle of the notification. One *)
(* that knows the new protocol installs both at once.                      *)
InstallFirmwareVolume(h, both) ==
  /\ h \notin ToSet(volumes)
  /\ volumes' = Append(volumes, h)
  /\ fv2' = IF both THEN fv2 \cup {h} ELSE fv2
  /\ signaled' = (thunk # "not loaded")
  /\ UNCHANGED <<located, thunk, missed>>

(* Mutant: the event is created and not signaled.                          *)
RegistersOnly ==
  /\ thunk = "not loaded" /\ thunk' = "rest"
  /\ UNCHANGED <<volumes, fv2, located, signaled, missed>>

(* EfiCreateProtocolNotifyEvent signals the event for what is there.       *)
InitializeFirmwareVolume ==
  /\ thunk = "not loaded" /\ thunk' = "rest"
  /\ signaled' = TRUE
  /\ UNCHANGED <<volumes, fv2, located, missed>>

BeginNotification ==
  /\ thunk = "rest" /\ signaled
  /\ thunk' = "locate" /\ signaled' = FALSE
  /\ UNCHANGED <<volumes, fv2, located, missed>>

LocateHandle ==
  /\ thunk = "locate"
  /\ IF located = Len(volumes)
     THEN thunk' = "rest" /\ UNCHANGED located
     ELSE thunk' = "located" /\ located' = located + 1
  /\ UNCHANGED <<volumes, fv2, signaled, missed>>

(* No memory: the handle is not handed out again.                          *)
NoMemoryForPrivate ==
  /\ thunk = "located" /\ Handle \notin fv2
  /\ missed' = missed \cup {Handle} /\ thunk' = "locate"
  /\ UNCHANGED <<volumes, fv2, located, signaled>>

InstallFv2 ==
  /\ thunk = "located"
  /\ fv2' = fv2 \cup {Handle}
  /\ thunk' = "locate"
  /\ UNCHANGED <<volumes, located, signaled, missed>>

Fv2NotificationEvent == BeginNotification \/ LocateHandle \/ NoMemoryForPrivate \/ InstallFv2

ThunkNext ==
  \/ \E h \in Volumes, both \in BOOLEAN : InstallFirmwareVolume(h, both)
  \/ InitializeFirmwareVolume
  \/ Fv2NotificationEvent
-----------------------------------------------------------------------------
ThunkTypeOK ==
  /\ ToSet(volumes) \subseteq Volumes /\ IsInjective(volumes)
  /\ fv2 \subseteq ToSet(volumes) /\ missed \subseteq ToSet(volumes)
  /\ located \in 0 .. Len(volumes) /\ signaled \in BOOLEAN
  /\ thunk \in {"not loaded", "rest", "locate", "located"}

(* Every handle with the old protocol gets the new one, whether it came    *)
(* before the thunk, between two notifications or in the middle of one.    *)
VolumesAreServed ==
  \A h \in Volumes :
    (h \in ToSet(volumes) /\ thunk # "not loaded") ~> (h \in fv2 \cup missed)
=============================================================================
