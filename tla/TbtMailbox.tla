----------------------------- MODULE TbtMailbox -----------------------------
(***************************************************************************)
(* The commands src/Thunderbolt/Thunderbolt.c gives to the firmware of the *)
(* host router: before the driver phase (TbtInit) and on the way to sleep  *)
(* (SxDTbtEntryCallback).  A command is a register with a valid bit; the   *)
(* firmware answers with the DONE bit of another one and takes that back   *)
(* when the valid bit is gone.  The root port has no bus numbers yet, so   *)
(* each of the flows gives it bus 0xF0 for as long as it talks.            *)
(*                                                                         *)
(* The waits count polls; MaxPolls stands for their limits (30 to 10000).  *)
(***************************************************************************)
EXTENDS TbtConfigSpace

CONSTANT MaxPolls     \* polls of one wait

VARIABLES
  box,          \* the mailbox: command, DONE, what the firmware works on and did
  flow          \* the running flow

mailVars == <<box, flow>>

MAX_DTBT_CONTROLLER_NUMBER == 2
Temporary == 240
EmptyBox == [cmd |-> "none", done |-> FALSE, busy |-> "none", did |-> {}]
StartFlow == [pc |-> "boot_on", round |-> 1, tries |-> 0, saved |-> <<0, 0>>, bus |-> 0,
              clear |-> FALSE, late |-> FALSE, told |-> FALSE,
              power |-> host.power, losses |-> 0]

(* UpdatePeiTbtPolicy: both controllers have the same PCDs, and a PEG port *)
(* is always the first.                                                    *)
PcieRpNumber == IF host.type = "peg" THEN 1 ELSE host.number
ASSUME HostsHaveRootPorts ==
  \A h \in Hosts : RootPortIsKnown(h.type, IF h.type = "peg" THEN 0 ELSE h.number - 1)

-----------------------------------------------------------------------------
(* Registers.                                                              *)

SetBuses(buses) == [reg EXCEPT ![Root].sec = buses[1], ![Root].sub = buses[2]]
RootBuses == <<reg[Root].sec, reg[Root].sub>>
Opened == SetBuses(<<Temporary, Temporary>>)
Closed == SetBuses(flow.saved)

(* Reading TBT2PCIE on bus b: all ones from a device that is not there.    *)
Answer(r, b) ==
  CASE At(r, b, 0) = Nowhere -> "absent"
    [] box.done              -> "done"
    [] OTHER                 -> "clear"

(* Writing PCIE2TBT; 0, "none" here, takes the valid bit away.             *)
Write(r, b, c) ==
  IF At(r, b, 0) = Nowhere THEN box ELSE [box EXCEPT !.cmd = c, !.did = @ \ {c}]

Go(pc) == [flow EXCEPT !.pc = pc, !.tries = 0]

(* TbtSetPcie2TbtCommand: write the command, poll for DONE, take the       *)
(* command back.  It does not wait for DONE to go again.                   *)
Sends == {"boot_wait", "usb_wait", "sx_wait", "go2sx_wait"}
Waits == Sends \cup {"usb_clear", "sx_ready", "go2sx_ready"}
Here == Answer(reg, flow.bus)
Send(r, b, c, pc) ==
  /\ reg' = r
  /\ box' = Write(r, b, c)
  /\ flow' = [Go(pc) EXCEPT !.saved = IF flow.bus = 0 THEN RootBuses ELSE @, !.bus = b]

(* InternalWaitforCommandCompletion and the other bounded loops.           *)
Ends ==
  CASE flow.pc \in Sends                       -> Here # "clear"
    [] flow.pc = "usb_clear"                   -> Here # "done"
    [] flow.pc \in {"sx_ready", "go2sx_ready"} -> Here # "absent"
    [] OTHER                                   -> TRUE
Over == Ends \/ flow.tries + 1 >= MaxPolls

(* Mutant: the polls are not counted.                                      *)
PollUncounted ==
  /\ flow.pc \in Waits
  /\ ~Over
  /\ UNCHANGED <<spaceVars, box, flow>>

Poll ==
  /\ flow.pc \in Waits
  /\ ~Over
  /\ flow' = [flow EXCEPT !.tries = @ + 1]
  /\ UNCHANGED <<spaceVars, box>>

(* The end of a command: withdrawn, and perhaps answered later.            *)
(* Mutant: a timeout counts as an answer.                                 *)
WithdrawnUnread(pc) ==
  /\ Over
  /\ box' = Write(reg, flow.bus, "none")
  /\ flow' = [Go(pc) EXCEPT !.late = @ \/ Here = "clear", !.bus = 0,
                            !.told = flow.pc = "usb_wait"]

Withdrawn(pc) ==
  /\ Over
  /\ box' = Write(reg, flow.bus, "none")
  /\ flow' = [Go(pc) EXCEPT !.late = @ \/ Here = "clear", !.bus = 0,
                            !.told = flow.pc = "usb_wait" /\ Here = "done"]

-----------------------------------------------------------------------------
(* TbtInit, once for each controller number.                               *)

DTbtBootOn ==
  /\ flow.pc = "boot_on"
  /\ IF host.bootOn = 0 THEN flow' = Go("usb_on") /\ UNCHANGED <<reg, box>>
     ELSE Send(Opened, Temporary, IF host.bootOn = 1 THEN "boot on" ELSE "preboot acl",
               "boot_wait")
  /\ UNCHANGED <<host, up, node>>

BootOnAnswered ==
  /\ flow.pc = "boot_wait"
  /\ Withdrawn("usb_on")
  /\ reg' = Closed
  /\ UNCHANGED <<host, up, node>>

(* DTbtUsbOn: after a boot command it waits for DONE to go.                *)
DTbtUsbOn ==
  /\ flow.pc = "usb_on"
  /\ IF ~host.usbOn THEN flow' = Go("power") /\ UNCHANGED <<reg, box>>
     ELSE IF host.bootOn = 0
     THEN /\ reg' = Opened
          /\ flow' = [Go("usb_command") EXCEPT !.saved = RootBuses, !.bus = Temporary,
                                               !.clear = FALSE]
          /\ UNCHANGED box
     ELSE Send(Opened, Temporary, "none", "usb_clear")
  /\ UNCHANGED <<host, up, node>>

UsbCleared ==
  /\ flow.pc = "usb_clear"
  /\ Over
  /\ flow' = [Go("usb_command") EXCEPT !.clear = Here = "clear"]
  /\ UNCHANGED <<spaceVars, box>>

(* Mutant: the way out for S4 restores nothing.                           *)
UsbCommandLeavesBus ==
  /\ flow.pc = "usb_command"
  /\ IF host.mode = "s4"
     THEN flow' = [Go("power") EXCEPT !.bus = 0] /\ UNCHANGED <<reg, box>>
     ELSE Send(reg, Temporary, "usb on", "usb_wait")
  /\ UNCHANGED <<host, up, node>>

UsbCommand ==
  /\ flow.pc = "usb_command"
  /\ IF host.mode = "s4"
     THEN reg' = Closed /\ flow' = [Go("power") EXCEPT !.bus = 0] /\ UNCHANGED box
     ELSE Send(reg, Temporary, "usb on", "usb_wait")
  /\ UNCHANGED <<host, up, node>>

UsbOnAnswered ==
  /\ flow.pc = "usb_wait"
  /\ Withdrawn("power")
  /\ reg' = Closed
  /\ UNCHANGED <<host, up, node>>

ForceDtbtPower(f, on) == [f EXCEPT !.power = on]

(* DTbtForcePower; DTbtSetTPch25Timing and DTbtClearVgaRegisters write     *)
(* nothing the flows look at.                                              *)
DTbtForcePower ==
  /\ flow.pc = "power"
  /\ flow' = IF host.force THEN ForceDtbtPower(Go("sx_exit"), TRUE) ELSE Go("sx_exit")
  /\ UNCHANGED <<spaceVars, box>>

NextRound ==
  IF flow.round < MAX_DTBT_CONTROLLER_NUMBER
  THEN [StartFlow EXCEPT !.round = flow.round + 1, !.late = flow.late, !.power = flow.power,
                         !.losses = flow.losses]
  ELSE [Go("pei_end") EXCEPT !.bus = 0]

DTbtSxExitFlow ==
  /\ flow.pc = "sx_exit"
  /\ IF host.bootOn = 2
     THEN /\ reg' = Opened
          /\ flow' = [Go("sx_ready") EXCEPT !.saved = RootBuses, !.bus = Temporary]
     ELSE flow' = NextRound /\ UNCHANGED reg
  /\ UNCHANGED <<host, up, node, box>>

(* From S4 with the preboot access list.                                   *)
SxExitCommand == IF host.mode = "s4" THEN "sx exit acl" ELSE "sx exit"

TbtSetSxMode ==
  /\ flow.pc = "sx_ready"
  /\ Over
  /\ Send(reg, Temporary, SxExitCommand, "sx_wait")
  /\ UNCHANGED <<host, up, node>>

(* After an answer it reads the mailbox and the device id, and whatever    *)
(* they are it is content: they are registers of the same device.          *)
SxExitAnswered ==
  /\ flow.pc = "sx_wait"
  /\ Over
  /\ box' = Write(reg, Temporary, "none")
  /\ flow' = [NextRound EXCEPT !.late = flow.late \/ Here = "clear"]
  /\ reg' = Closed
  /\ UNCHANGED <<host, up, node>>

TbtInit ==
  \/ DTbtBootOn \/ BootOnAnswered
  \/ DTbtUsbOn \/ UsbCleared \/ UsbCommand \/ UsbOnAnswered
  \/ DTbtForcePower
  \/ DTbtSxExitFlow \/ TbtSetSxMode \/ SxExitAnswered

-----------------------------------------------------------------------------
(* On the way to sleep.  The handler looks at the port, the pads and the   *)
(* number only for a controller that is NOT enabled (DTbtControllerEn0 ==  *)
(* 0); for an enabled one the number is 0, and the kind is not known       *)
(* before the first software SMI: GetDTbtRpDevFun asserts, or, without     *)
(* assertions, leaves the port to chance.                                  *)

SxPortIsKnown == ~nvs.en /\ RootPortIsKnown(smm.type, nvs.number - 1)

SxDTbtEntryCallback ==
  /\ flow.pc = "os"
  /\ \/ /\ ~SxPortIsKnown
        /\ \E pc \in {"asserted", "asleep"} : flow' = Go(pc)   \* "asleep": another port
        /\ UNCHANGED reg
     \/ LET temporary == reg[Root].sec = 0
        IN /\ reg' = IF temporary THEN Opened ELSE reg
           /\ flow' = [Go("sx_power") EXCEPT !.saved = RootBuses, !.bus = reg'[Root].sec]
  /\ UNCHANGED <<host, up, node, box>>

(* A router that does not answer is powered up, if the pad is known.       *)
SxPower ==
  /\ flow.pc = "sx_power"
  /\ flow' = IF Here # "absent" THEN Go("go2sx")
             ELSE [ForceDtbtPower(Go("go2sx_ready"), flow.power \/ ~nvs.en) EXCEPT !.clear = TRUE]
  /\ UNCHANGED <<spaceVars, box>>

SxPowered ==
  /\ flow.pc = "go2sx_ready"
  /\ Over
  /\ flow' = Go("go2sx")
  /\ UNCHANGED <<spaceVars, box>>

(* S3 and S4 are announced, S5 is not.                                     *)
SxCommand ==
  /\ flow.pc = "go2sx"
  /\ \/ Send(reg, flow.bus, IF nvs.wake THEN "go2sx" ELSE "go2sx no wake", "go2sx_wait")
     \/ flow' = Go("sx_done") /\ UNCHANGED <<reg, box>>
  /\ UNCHANGED <<host, up, node>>

SxCommandOver ==
  /\ flow.pc = "go2sx_wait"
  /\ Over
  /\ box' = Write(reg, flow.bus, "none")
  /\ flow' = Go("sx_done")
  /\ UNCHANGED spaceVars

SxDone ==
  /\ flow.pc = "sx_done"
  /\ reg' = IF flow.saved[1] = 0 THEN SetBuses(<<0, 0>>) ELSE reg
  /\ flow' = [ForceDtbtPower(Go("asleep"),
                             flow.power /\ ~(flow.clear /\ ~nvs.en /\ ~host.force)) EXCEPT !.bus = 0]
  /\ UNCHANGED <<host, up, node, box>>

SxEntry == SxPower \/ SxPowered \/ SxCommand \/ SxCommandOver \/ SxDone

-----------------------------------------------------------------------------
(* The firmware and the power of the host router.  It may answer late, go  *)
(* away, and come when it has power.                                       *)

FirmwareTakes ==
  /\ up /\ box.cmd # "none" /\ ~box.done /\ box.busy = "none"
  /\ box' = [box EXCEPT !.busy = box.cmd]
  /\ UNCHANGED <<spaceVars, flow>>

FirmwareAnswers ==
  /\ up /\ box.busy # "none"
  /\ box' = [box EXCEPT !.busy = "none", !.done = TRUE, !.did = @ \cup {box.busy}]
  /\ UNCHANGED <<spaceVars, flow>>

FirmwareClears ==
  /\ up /\ box.done /\ box.cmd = "none"
  /\ box' = [box EXCEPT !.done = FALSE]
  /\ UNCHANGED <<spaceVars, flow>>

(* Without power, or with it, all registers are as after reset.            *)
Fresh(r) == [p \in DOMAIN r |-> IF p = Root THEN r[p] ELSE ResetRegisters(node[p])]

RouterComes ==
  /\ ~up /\ flow.power
  /\ up' = TRUE
  /\ box' = EmptyBox
  /\ reg' = Fresh(reg)
  /\ UNCHANGED <<host, node, flow>>

RouterGoes ==
  /\ up /\ flow.losses < host.events.losses
  /\ up' = FALSE
  /\ box' = EmptyBox
  /\ flow' = [flow EXCEPT !.losses = @ + 1, !.power = host.force \/ flow.pc = "os"]
  /\ UNCHANGED <<host, node, reg>>

Firmware == FirmwareTakes \/ FirmwareAnswers \/ FirmwareClears
Router == RouterComes \/ RouterGoes
=============================================================================
