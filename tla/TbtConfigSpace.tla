--------------------------- MODULE TbtConfigSpace ---------------------------
(***************************************************************************)
(* The PCI configuration space below one root port with a Thunderbolt host *)
(* router, as src/Thunderbolt/Thunderbolt.c sees it.                       *)
(*                                                                         *)
(* A device is named by the device numbers on the way to it from the root  *)
(* port: <<>> is the root port, <<0>> the upstream port of the host        *)
(* router, <<0, 1>> its downstream port 1, <<0, 1, 0>> what is plugged     *)
(* into it.  "node" says what is there (it changes only when something is  *)
(* plugged or unplugged), "reg" holds the registers.  The code names a bus *)
(* and a device, and the bus registers of the bridges route the access, so *)
(* what it finds depends on what was written before.                       *)
(*                                                                         *)
(* Windows and addresses count units of 64 KB, the unit of the window      *)
(* registers; a window starts on 1 MB, sixteen units, and "ml" and "pl"    *)
(* name its last MB.                                                       *)
(***************************************************************************)
EXTENDS Integers, Sequences, FiniteSets, TLC, SequencesExt, FiniteSetsExt

CONSTANTS
  Hosts,    \* machines: the host router, its root port and the platform's PCDs
  Models    \* what can be plugged in: name -> (path from its place -> device)

VARIABLES
  host,     \* this machine
  up,       \* the host router answers to configuration accesses
  node,     \* path -> what is there
  reg,      \* path -> its registers
  nvs,      \* the memory shared with the ACPI code, mTbtNvsAreaPtr
  smm       \* gCurrentDiscreteTbtRootPort and its type

spaceVars == <<host, up, node, reg>>

Root == <<>>
Upstream == <<0>>
Downstream(d) == <<0, d>>
Nowhere == <<-1>>       \* what is not there
MB == 16

OnePort == {"AR_HR_2C", "AR_HR_LP", "AR_HR_C0_2C", "TR_HR_2C"}
TwoPorts == {"AR_HR_4C", "AR_HR_C0_4C", "TR_HR_4C"}

-----------------------------------------------------------------------------
(* What is there.  A device has functions with base address registers (the *)
(* prefetchable ones have 64 bits), a programming interface, a PCI Express *)
(* port type and capabilities; the ids of the upstream port of an endpoint *)
(* tell which of its slots leads to the next endpoint.                     *)

Bar(kind, size) == [kind |-> kind, size |-> size]
Function(bars) ==
  [bars |-> bars, aspm |-> 3, progIf |-> 0, pm |-> TRUE]

Desc(type, funs) ==
  [type |-> type, funs |-> funs, devId |-> "other", ssid |-> "other",
   slots |-> 0, cio |-> {}, socket |-> FALSE]

IsBridge(p) == node[p].type \in {"root", "upstream", "downstream", "pci_bridge"}

(* Registers after power-on. *)
ResetFunction(f) ==
  [bm |-> FALSE, mem |-> FALSE, bars |-> [i \in DOMAIN f.bars |-> 0],
   aspm |-> 0, clk |-> FALSE, ltr |-> FALSE, lat |-> FALSE, ptm |-> FALSE]

ResetRegisters(d) ==
  [sec |-> 0, sub |-> 0, mb |-> 0, ml |-> 0, pb |-> 0, pl |-> 0,
   flush |-> FALSE, fun |-> [i \in DOMAIN d.funs |-> ResetFunction(d.funs[i])]]

-----------------------------------------------------------------------------
(* Routing: a bridge shows the devices behind it on its secondary bus and  *)
(* passes on the buses from there to its subordinate bus.                  *)

Forwards(r, p, b) == r[p].sec < b /\ b <= r[p].sub

Reaches(r, p, b) ==
  /\ r[p].sec = b
  /\ \A n \in 0..(Len(p) - 1) : Forwards(r, SubSeq(p, 1, n), b)

At(r, b, d) ==
  LET there == {p \in DOMAIN node \ {Root} : Last(p) = d /\ Reaches(r, Front(p), b)}
  IN IF up /\ b # 0 /\ there # {} THEN CHOOSE p \in there : TRUE ELSE Nowhere

(* IsTbtHostRouter: the device behind the root port is a known router. *)
IsTbtHostRouter(r) ==
  At(r, r[Root].sec, 0) = Upstream /\ host.id \in OnePort \cup TwoPorts

(* GetDTbtRpDevFun: the kinds and numbers it knows; for another one it     *)
(* asserts and leaves device and function unset.                           *)
RootPortIsKnown(type, number) ==
  \/ type = "peg" /\ number \in 0..2
  \/ type = "pch" /\ number \in 0..23
=============================================================================
