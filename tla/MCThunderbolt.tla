--------------------------- MODULE MCThunderbolt ---------------------------
(***************************************************************************)
(* Model values of Thunderbolt for TLC.                                    *)
(***************************************************************************)
EXTENDS Thunderbolt

NoEvents == [plugs |-> 0, teardowns |-> 0, aspms |-> 0, sleeps |-> 0, losses |-> 0]

(* A machine with one Thunderbolt port: one hundred buses, 1 GB of memory  *)
(* and as much prefetchable.                                               *)
Machine ==
  [id |-> "AR_HR_2C", type |-> "pch", number |-> 9, hpe |-> TRUE, usb |-> FALSE,
   mode |-> "full", bootOn |-> 0, usbOn |-> FALSE, force |-> FALSE, power |-> TRUE,
   en |-> TRUE, aspm |-> 3, clk |-> TRUE, wake |-> FALSE, acpi |-> <<>>,
   sec |-> 2, mb |-> 40960, pb |-> 65536 + 8192,
   rsvd |-> [buses |-> 106, mem |-> 1024, pmem |-> 1536], events |-> NoEvents]

Large == [Machine EXCEPT !.id = "TR_HR_4C", !.usb = TRUE, !.acpi = [ltr |-> TRUE, ptm |-> TRUE]]

Plugging ==
  { [Machine EXCEPT !.events.plugs = 2, !.events.teardowns = 1],
    [Machine EXCEPT !.events.plugs = 1, !.events.aspms = 1, !.aspm = 0],
    [Machine EXCEPT !.events.plugs = 1, !.events.losses = 1],
    [Machine EXCEPT !.events.teardowns = 1, !.events.losses = 1],
    [Large EXCEPT !.events.plugs = 2] }

(* Root ports that are not what the layout counts on: one of the processor,*)
(* which has no padding, and windows a two-port router refuses.            *)
Tight ==
  { [Machine EXCEPT !.type = "peg", !.number = 1, !.events.plugs = 1],
    [Machine EXCEPT !.rsvd = [buses |-> 6, mem |-> 8, pmem |-> 40], !.events.plugs = 2],
    [Large EXCEPT !.mb = 40960 + 16, !.events.plugs = 1] }

(* The early phase, with each of the policies, and a router that loses its *)
(* power once.                                                             *)
Booting ==
  { [Machine EXCEPT !.bootOn = bootOn, !.usbOn = TRUE, !.mode = mode, !.force = force,
                    !.power = ~force, !.events.losses = 1] :
      bootOn \in 0 .. 2, mode \in {"full", "s3", "s4"}, force \in BOOLEAN }

Sleeping ==
  { [Machine EXCEPT !.en = en, !.events.sleeps = 1, !.events.losses = 1, !.events.aspms = 1] :
      en \in BOOLEAN }

MCHosts == Plugging \cup Tight \cup Booting \cup Sleeping

-----------------------------------------------------------------------------
(* What can be plugged in.                                                 *)

Bridge(type) == Desc(type, <<Function(<<>>)>>)
Card(funs) == Desc("endpoint", funs)
Disk == <<Function(<<Bar("mem", 1), Bar("pmem", 64)>>)>>
Controller == [Function(<<Bar("mem", 20)>>) EXCEPT !.progIf = 48, !.aspm = 2]
Nic == [Function(<<Bar("mem", 2), Bar("mem", 1), Bar("pmem", 4)>>) EXCEPT !.aspm = 1]

(* A dock: a USB controller behind slot 0, the next endpoint behind slot 1,*)
(* and a slot 2 after it.                                                  *)
Dock ==
  <<0>> :> [Bridge("upstream") EXCEPT !.devId = "0x1578", !.slots = 2, !.cio = {1}]
  @@ <<0, 0>> :> Bridge("downstream")
  @@ <<0, 0, 0>> :> Card(<<Controller, Nic>>)
  @@ <<0, 1>> :> [Bridge("downstream") EXCEPT !.socket = TRUE]
  @@ <<0, 2>> :> Bridge("downstream")

(* A box without a way on: a bridge with an address of its own, and behind *)
(* it a disk; and a switch with four bridges, with no L1 on the link to it.*)
End ==
  <<0>> :> [Bridge("upstream") EXCEPT !.devId = "0x1549"]
  @@ <<0, 1>> :> Bridge("downstream")
  @@ <<0, 1, 0>> :> Desc("upstream", <<[Function(<<>>) EXCEPT !.aspm = 1]>>)
  @@ [p \in {<<0, 1, 0, d>> : d \in 0 .. 3} |-> Bridge("downstream")]
  @@ <<0, 3>> :> Bridge("downstream")
  @@ <<0, 3, 0>> :> Desc("pci_bridge", <<Function(<<Bar("mem", 1)>>)>>)
  @@ <<0, 3, 0, 1>> :> Card(Disk)

(* A device of an old kind: a controller behind slot 0, the next endpoint  *)
(* behind slot 4, and no L0s on the link to the controller.                *)
Legacy ==
  <<0>> :> [Bridge("upstream") EXCEPT !.devId = "0x1513"]
  @@ <<0, 0>> :> Desc("downstream", <<[Function(<<>>) EXCEPT !.aspm = 2]>>)
  @@ <<0, 0, 0>> :> Card(Disk)
  @@ <<0, 4>> :> [Bridge("downstream") EXCEPT !.socket = TRUE]

(* A card with all eight functions. One has a programming interface that   *)
(* is taken for the class of a serial bus.                                 *)
Eight == <<Nic>> \o [f \in 1 .. 7 |-> [Function(<<Bar("mem", 1)>>) EXCEPT !.progIf = 2 * f]]

MCModels ==
  "dock" :> Dock @@ "end" :> End @@ "legacy" :> Legacy @@ "card" :> (<<0>> :> Card(Eight))

=============================================================================
