---------------------------- MODULE Thunderbolt ----------------------------
(***************************************************************************)
(* A machine with src/Thunderbolt/Thunderbolt.c, from power-on to sleep:   *)
(* the commands of the early phase (TbtMailbox), the hand-over of the      *)
(* platform's policy and the windows of the root port (here), then the     *)
(* SMIs while cables are plugged and unplugged (TbtResources, TbtPower)    *)
(* and the way to sleep (TbtMailbox again).                                *)
(*                                                                         *)
(* host.events bounds what happens from outside: plugs, teardowns, SMIs    *)
(* that only set ASPM, and whether the machine goes to sleep.              *)
(***************************************************************************)
EXTENDS TbtMailbox, TbtPower

VARIABLE left     \* what may still happen from outside

vars == <<spaceVars, nvs, smm, mailVars, resVars, left>>

Phase(pc) == flow.pc = pc
InPei == flow.pc \notin {"pei_end", "smm", "os", "asserted", "asleep", "sx_power", "go2sx_ready",
                         "go2sx", "go2sx_wait", "sx_done"}
EmptyNvs == [en |-> FALSE, number |-> 0, aspm |-> 0, clk |-> FALSE, ltr |-> FALSE,
             ptm |-> FALSE, wake |-> FALSE]

(* The host router: upstream port, downstream ports, its own interface     *)
(* behind port 0 and a USB controller behind port 2.                       *)
HostRouter ==
  LET ports == {1, 2} \cup (IF host.id \in TwoPorts THEN {4} ELSE {})
      port(d) == [Desc("downstream", <<Function(<<>>)>>) EXCEPT !.socket = d \in {1, 4}]
      usb == [Function(<<Bar("mem", 1)>>) EXCEPT !.progIf = 48]
  IN Root :> Desc("root", <<Function(<<>>)>>)
     @@ Upstream :> Desc("upstream", <<Function(<<>>)>>)
     @@ Downstream(0) :> port(0)
     @@ [p \in {Downstream(d) : d \in ports} |-> port(Last(p))]
     @@ <<0, 0, 0>> :> Desc("endpoint", <<Function(<<Bar("mem", 4), Bar("mem", 1)>>)>>)
     @@ IF host.usb THEN <<0, 2, 0>> :> Desc("endpoint", <<usb>>) ELSE None

TbtInitEndOfPei == IF host.en THEN StartFlow ELSE [StartFlow EXCEPT !.pc = "pei_end"]

Init ==
  /\ host \in Hosts
  /\ up = host.power
  /\ node = HostRouter
  /\ reg = [p \in DOMAIN node |-> ResetRegisters(node[p])]
  /\ nvs = EmptyNvs
  /\ smm = [port |-> 0, type |-> "unset", handlers |-> {}]
  /\ box = EmptyBox
  /\ flow = TbtInitEndOfPei
  /\ smi = IdleSmi
  /\ wanted = FALSE
  /\ left = host.events

-----------------------------------------------------------------------------
(* From the early phase to the operating system.                           *)

(* The root ports that can be hot-plugged: those of the PCH that           *)
(* PcdPchPcieRootPortHpe names.                                            *)
PciHotPlug == {i \in 0 .. 19 : host.hpe /\ host.type = "pch" /\ i = host.number - 1}

(* What root port i is given beyond what is behind it, in MB.              *)
GetRootporttoSetResourcesforTbt(i) ==
  IF i = host.number - 1 THEN host.rsvd ELSE [buses |-> 0, mem |-> 10, pmem |-> 10]

(* The bus driver asks only for the root ports in the list.                *)
GetResourcePadding ==
  IF PciHotPlug = {} THEN [buses |-> 0, mem |-> 1, pmem |-> 1]
  ELSE GetRootporttoSetResourcesforTbt(CHOOSE i \in PciHotPlug : TRUE)

(* The HOB from the early phase: a resume from S3 makes none.              *)
PassTbtPolicyToHob ==
  IF host.mode = "s3" THEN None ELSE [en |-> host.en, number |-> PcieRpNumber]

(* The policy of the driver phase: all zero, then what the PCDs say.  TbtLtr*)
(* and TbtPtm are in none of them.                                         *)
InstallTbtPolicy == [aspm |-> 0, clk |-> FALSE, ltr |-> FALSE, ptm |-> FALSE, wake |-> FALSE]
UpdateTbtPolicyCallback ==
  [InstallTbtPolicy EXCEPT !.aspm = host.aspm, !.clk = host.clk, !.wake = host.wake]

(* "acpi" is what the ACPI code, which shares the area, sets in it.        *)
TbtNvsAreaInit == host.acpi @@ PassTbtPolicyToHob @@ UpdateTbtPolicyCallback

(* The driver phase: the policy reaches the shared memory, and the PCI bus *)
(* driver gives the root port its buses and windows.  Without a HOB it ends*)
(* here.                                                                   *)
TbtDxeEntryPoint ==
  /\ Phase("pei_end")
  /\ LET pad == GetResourcePadding
         windows == Buses(host.sec, host.sec + 4 + pad.buses)
                    @@ Memory(host.mb, host.mb + MB * pad.mem - 1)
                    @@ Prefetchable(host.pb, host.pb + MB * pad.pmem - 1)
     IN IF PassTbtPolicyToHob = None
        THEN flow' = Go("asleep") /\ UNCHANGED <<reg, nvs>>
        ELSE /\ flow' = [StartFlow EXCEPT !.pc = "smm", !.losses = flow.losses,
                                          !.power = TRUE]
             /\ reg' = SetBridge(reg, Root, windows, Commands(TRUE, TRUE))
             /\ nvs' = TbtNvsAreaInit
  /\ box' = EmptyBox
  /\ UNCHANGED <<host, up, node, smm, resVars, left>>

(* TbtSmmEntryPoint, for a controller that is enabled and for one that is  *)
(* not: the software SMI and the entry to S3, S4 and S5.                   *)
TbtRegisterHandlers == {"sw smi", "sleep"}
TbtSmmEntryPoint ==
  /\ Phase("smm")
  /\ smm' = [smm EXCEPT !.handlers = TbtRegisterHandlers]
  /\ flow' = Go("os")
  /\ UNCHANGED <<spaceVars, nvs, box, resVars, left>>

-----------------------------------------------------------------------------
(* Cables.                                                                 *)

Below(p) == {q \in DOMAIN node : Len(q) > Len(p) /\ IsPrefix(p, q)}
Spend(what) == left[what] > 0 /\ left' = [left EXCEPT ![what] = @ - 1]

Attach ==
  /\ Phase("os") /\ up
  /\ Spend("plugs")
  /\ \E p \in DOMAIN node, m \in DOMAIN Models :
       /\ node[p].socket /\ Below(p) = {}
       /\ node' = node @@ [q \in {p \o s : s \in DOMAIN Models[m]} |->
                             Models[m][SubSeq(q, Len(p) + 1, Len(q))]]
       /\ reg' = [q \in DOMAIN node' |-> IF q \in DOMAIN reg THEN reg[q]
                                         ELSE ResetRegisters(node'[q])]
  /\ wanted' = TRUE
  /\ UNCHANGED <<host, up, nvs, smm, mailVars, smi>>

Detach ==
  /\ Phase("os")
  /\ \E p \in DOMAIN node :
       /\ node[p].socket /\ Below(p) # {}
       /\ node' = [q \in DOMAIN node \ Below(p) |-> node[q]]
       /\ reg' = [q \in DOMAIN node' |-> reg[q]]
  /\ UNCHANGED <<host, up, nvs, smm, mailVars, resVars, left>>

(* A router that comes back has lost its registers; its ACPI code asks for *)
(* SMI 21 again.                                                           *)
RouterMoves ==
  /\ ~Phase("asserted") /\ ~Phase("asleep")
  /\ Router
  /\ wanted' = (wanted \/ (Phase("os") /\ ~up))
  /\ UNCHANGED <<nvs, smm, smi, left>>

-----------------------------------------------------------------------------
(* ThunderboltSwSmiCallback: the ACPI code has written the function and    *)
(* the root port, perhaps 0, which the handlers refuse.                    *)

SwSmi(port) ==
  /\ Phase("os") /\ smi.pc = "idle" /\ "sw smi" \in smm.handlers
  /\ smm' = [smm EXCEPT !.port = port, !.type = host.type]
  /\ UNCHANGED <<nvs, mailVars>>

InvalidRootPort == SwSmi(0) /\ UNCHANGED <<spaceVars, resVars, left>>
Smi21 == SwSmi(nvs.number) /\ ThunderboltCallback /\ UNCHANGED left
Smi22 == SwSmi(nvs.number) /\ TbtDisablePCIDevicesAndBridges /\ Spend("teardowns")
Smi23and24 ==
  /\ SwSmi(nvs.number)
  /\ \E level \in {1, 2} : ConfigureTbtAspm(level)
  /\ Spend("aspms")

(* GetDTbtRpDevFun with kind 0, where assertions stop the machine.         *)
WrongRootPort ==
  /\ Phase("os") /\ smi.pc = "idle" /\ Spend("aspms")
  /\ flow' = Go("asserted")
  /\ UNCHANGED <<spaceVars, nvs, smm, box, resVars>>

Handler ==
  /\ Phase("os")
  /\ ConfigurePort \/ ConfigureEP \/ EndOfThunderboltCallback \/ DisableBridges
  /\ UNCHANGED <<nvs, smm, mailVars, left>>

Sleep ==
  /\ smi.pc = "idle" /\ "sleep" \in smm.handlers /\ Spend("sleeps")
  /\ SxDTbtEntryCallback
  /\ UNCHANGED <<nvs, smm, resVars>>

Mailbox ==
  /\ Poll \/ TbtInit \/ SxEntry
  /\ UNCHANGED <<nvs, smm, resVars, left>>

FirmwareMoves == Firmware /\ UNCHANGED <<nvs, smm, resVars, left>>

Next ==
  \/ Mailbox \/ FirmwareMoves \/ TbtDxeEntryPoint \/ TbtSmmEntryPoint
  \/ Attach \/ Detach \/ RouterMoves
  \/ InvalidRootPort \/ Smi21 \/ Smi22 \/ Smi23and24 \/ WrongRootPort
  \/ Handler \/ Sleep

Spec == Init /\ [][Next]_vars

(* The processor goes on with what it runs; the firmware and the cables    *)
(* promise nothing.  The ACPI code asks for SMI 21 after a plug event, and *)
(* it is not held up for ever by what else it could ask.  The steps of a   *)
(* handler and SMI 21 are told by what only they change, and their guards  *)
(* written out: TLC's ENABLED would enumerate ConfigureSlot.               *)
HandlerMoves == smi.pc # "idle" /\ smi' # smi
Smi21Starts == wanted /\ ~wanted'

Fairness ==
  /\ WF_vars(Mailbox) /\ WF_vars(TbtDxeEntryPoint) /\ WF_vars(TbtSmmEntryPoint)
  /\ <>[](Phase("os") /\ smi.pc # "idle") => []<><<HandlerMoves>>_vars
  /\ <>[](Phase("os") /\ smi.pc = "idle" /\ wanted) => []<><<Smi21Starts>>_vars

FairSpec == Spec /\ Fairness

-----------------------------------------------------------------------------
(* Properties.                                                             *)

Registers ==
  [sec : 0 .. 255, sub : 0 .. 255, mb : Int, ml : Int, pb : Int, pl : Int, flush : BOOLEAN]
FunctionRegisters ==
  [bm : BOOLEAN, mem : BOOLEAN, aspm : 0 .. 3, clk : BOOLEAN, ltr : BOOLEAN,
   lat : BOOLEAN, ptm : BOOLEAN]
Without(f, x) == [y \in DOMAIN f \ {x} |-> f[y]]

TypeOK ==
  /\ DOMAIN reg = DOMAIN node
  /\ \A p \in DOMAIN reg :
       /\ Without(reg[p], "fun") \in Registers
       /\ \A f \in DOMAIN node[p].funs :
            /\ Without(reg[p].fun[f], "bars") \in FunctionRegisters
            /\ DOMAIN reg[p].fun[f].bars = DOMAIN node[p].funs[f].bars
  /\ smi.depth \in 0 .. MAX_TBT_DEPTH - 1 /\ smi.port \in 0 .. 4
  /\ smi.bus \in 0 .. 255 /\ smi.pi.bn \in 0 .. 255
  /\ flow.tries \in 0 .. MaxPolls - 1

(* Types, and: the root port has the temporary bus only while a flow talks *)
(* to the firmware (DTbtBootOn, DTbtUsbOn, DTbtSxExitFlow and              *)
(* SxDTbtEntryCallback put back what they saved on every way out), and no  *)
(* flow ends with a command still in the mailbox.                          *)
TbtInvariant ==
  /\ TypeOK
  /\ flow.bus = 0 => reg[Root].sec # Temporary /\ box.cmd = "none"

(* What a bridge passes on: buses behind it, and addresses in units.  A    *)
(* range whose first is above its last is empty.                           *)
Within(a, b) == a[1] > a[2] \/ (b[1] <= a[1] /\ a[2] <= b[2])
Apart(a, b) == a[1] > a[2] \/ b[1] > b[2] \/ a[2] < b[1] \/ b[2] < a[1]
Ranges(p) ==
  <<<<reg[p].sec, reg[p].sub>>, <<reg[p].mb, reg[p].ml + MB - 1>>,
    <<reg[p].pb, reg[p].pl + MB - 1>>>>

(* What the root port has for the router.  One with one port is never      *)
(* asked whether it has enough, and its ports 0 and 2 take the last two MB;*)
(* the layout of the larger ones counts on 106 buses.                      *)
Roomy == Phase("os") /\ reg[Root].ml - reg[Root].mb >= 3 * MB
Sufficient == Roomy /\ GetResourcePadding.buses >= 106 /\ Accepted(reg[Root])

(* Buses, memory and prefetchable memory that a bridge passes on lie       *)
(* within what the bridge above it passes on and apart from what its       *)
(* neighbours pass on. A bridge passes on buses as soon as it has some,    *)
(* also a slot that is out of use; addresses, while it decodes them.       *)
Passing(i) ==
  {p \in Walked(reg) \cup {Root} :
     IsBridge(p) /\ IF i = 1 THEN reg[p].sec # 0 ELSE reg[p].fun[1].mem}
Nested(i) ==
  LET passing == Passing(i)
  IN \A p \in passing \ {Root} :
       /\ Front(p) \in passing => Within(Ranges(p)[i], Ranges(Front(p))[i])
       /\ \A q \in passing \ {Root, p} :
            Front(q) = Front(p) => Apart(Ranges(p)[i], Ranges(q)[i])

(* A bus for each bridge, and the two ConfigureSlot and ConfigureEP keep.   *)
(* A router that is refused has ports 0 and 2 on the same bus.             *)
EnoughBuses ==
  /\ Accepted(reg[Root])
  /\ reg[Root].sub - reg[Root].sec
       >= Cardinality({p \in DOMAIN node \ {Root} : IsBridge(p)}) + 2

(* That is so after each step of SMI 21, whatever was plugged or unplugged *)
(* since the step before, for buses if there are enough, for the windows   *)
(* however small they are (SetPhyPortResources, SetCioPortResources,       *)
(* SetSlotsAsUnused, InitHRResConfigs).                                    *)
WindowsNested == Roomy => (EnoughBuses => Nested(1)) /\ Nested(2) /\ Nested(3)

(* The memory registers, prefetchable or not, of functions that decode.    *)
Decoding(kind) ==
  {g \in UNION {{<<x[1], x[2], i>> : i \in DOMAIN reg[x[1]].fun[x[2]].bars} : x \in Functions(reg)} :
     reg[g[1]].fun[g[2]].mem /\ node[g[1]].funs[g[2]].bars[g[3]].kind = kind}
AddressesOf(g) ==
  LET first == reg[g[1]].fun[g[2]].bars[g[3]]
  IN <<first, first + node[g[1]].funs[g[2]].bars[g[3]].size - 1>>

(* Behind a window that did not fit and was closed, which nothing passes.  *)
IsCutOff(p) == \E q \in Walked(reg) : q # p /\ p \in Below(q) /\ reg[q].mb > reg[q].ml

(* No two functions that can be reached decode the same memory in registers*)
(* that are not prefetchable, whatever was given back in between           *)
(* (SetMemBar, SetPhyPortResources). In windows that are large enough none *)
(* is cut off, and each address lies in the window of the bridge above, or *)
(* nobody could reach it. In smaller ones those that are cut off go on     *)
(* decoding what is given again. What SetPMem64Bar leaves in a prefetchable*)
(* register is never an address of that window: nobody reaches it.         *)
AddressesAreUnique ==
  Roomy =>
    /\ \A g \in Decoding("mem") : \A h \in Decoding("mem") \ {g} :
         Apart(AddressesOf(g), AddressesOf(h)) \/ IsCutOff(g[1]) \/ IsCutOff(h[1])
    /\ Sufficient =>
         \A g \in Decoding("mem") :
           ~IsCutOff(g[1]) /\ Within(AddressesOf(g), Ranges(Front(g[1]))[2])
    /\ \A g \in Decoding("pmem") : ~Within(AddressesOf(g), Ranges(Front(g[1]))[3])

(* A device in use keeps its addresses until it is torn down, unplugged or *)
(* loses power: a second SMI 21, after another plug, passes it over        *)
(* (ConfigureEP).                                                          *)
InUse(p) == ~IsBridge(p) /\ reg[p].fun[1].bm
ConfiguredIsLeft ==
  [][\A p \in DOMAIN node \cap DOMAIN node' :
       InUse(p) /\ up' /\ InUse(p)' => \A f \in DOMAIN reg[p].fun :
                                       reg'[p].fun[f].bars = reg[p].fun[f].bars]_vars

(* After SMI 22 nothing that is plugged in decodes an address, masters the *)
(* bus or passes on a bus: it found every device, although it needs the    *)
(* bridges' registers to reach what is behind them.                        *)
TeardownIsComplete ==
  [][smi.pc = "bridges" /\ smi'.pc = "idle" =>
       \A p \in DOMAIN node : Len(p) > 2 =>
         /\ reg'[p].sec = 0
         /\ \A f \in DOMAIN reg'[p].fun : ~reg'[p].fun[f].mem /\ ~reg'[p].fun[f].bm]_vars

(* The first seven functions of what stays plugged in are given their      *)
(* memory addresses (the loop at 3693 leaves out the eighth, that is never *)
(* configured), however plugs, teardowns and losses of power fall          *)
(* between the steps of SMI 21, if the root port has what the layout of    *)
(* the router needs and the router stays powered.                          *)
Plugged(p) == ~IsBridge(p) /\ \E q \in DOMAIN node : node[q].socket /\ p \in Below(q)
Configured(p) ==
  \A f \in DOMAIN reg[p].fun :
    /\ reg[p].fun[f].bm <=> f <= PCI_MAX_FUNC
    /\ \A i \in DOMAIN reg[p].fun[f].bars :
         node[p].funs[f].bars[i].kind = "mem" => (reg[p].fun[f].bars[i] # 0 <=> f <= PCI_MAX_FUNC)
EveryDeviceIsConfigured ==
  <>[](up /\ Sufficient =>
         \A p \in DOMAIN node : Plugged(p) => Configured(p))

(* The other end of the link of a device.                                  *)
OtherEnd(p) ==
  IF node[p].type \in {"endpoint", "legacy", "upstream"} THEN Front(p) ELSE Append(p, 0)

(* When no handler runs, each end of a link uses only the ASPM levels that *)
(* it and the other end support, and a device that may send LTR messages   *)
(* has its latencies (FindOptimalAspm with FindComponentBaspm and          *)
(* DownstreamAspmSupport; the order of EndOfThunderboltCallback).          *)
LinksAgree ==
  Phase("os") /\ smi.pc = "idle" /\ ~wanted =>
    \A p \in Walked(reg) \cup {Root} : \A f \in DOMAIN reg[p].fun :
      /\ And(reg[p].fun[f].aspm, node[p].funs[f].aspm) = reg[p].fun[f].aspm
      /\ OtherEnd(p) \in DOMAIN node =>
           And(reg[p].fun[f].aspm, node[OtherEnd(p)].funs[1].aspm) = reg[p].fun[f].aspm
      /\ reg[p].fun[f].ltr /\ node[p].type \in {"endpoint", "upstream"} => reg[p].fun[f].lat

(* The early phase ends, and the way to sleep ends, whatever the firmware  *)
(* of the router does: each wait has a limit.                              *)
BootEnds == (InPei ~> ~InPei) /\ (Phase("sx_power") ~> Phase("asleep"))

(* DTbtUsbOn takes DONE for the answer to its command only if the firmware *)
(* has turned USB on, when it saw the mailbox clear before and no earlier  *)
(* command was withdrawn unanswered.                                       *)
UsbOnIsTruthful ==
  [][flow'.told /\ ~flow.told /\ flow.clear /\ ~flow.late => "usb on" \in box.did]_vars
=============================================================================
