------------------------------ MODULE TbtPower ------------------------------
(***************************************************************************)
(* Link power management in src/Thunderbolt/Thunderbolt.c: what            *)
(* EndOfThunderboltCallback does after SMI 21 gave the addresses, and what *)
(* SMI 23 and 24 (ConfigureTbtAspm) do on their own.  Each is a walk over  *)
(* every function that answers below the root port; one walk is a step.    *)
(*                                                                         *)
(* L1 substates do not appear: RootportL1sSupport looks for the capability *)
(* of the host router only if the router is absent, and writes nothing.    *)
(***************************************************************************)
EXTENDS TbtResources

(* The levels of ASPM are bits: 1 is L0s, 2 is L1.                         *)
And(a, b) == 2 * Min({a \div 2, b \div 2}) + Min({a % 2, b % 2})

Walked(r) == Answering(r, r[Root].sec)
Functions(r) == UNION {{p} \X DOMAIN node[p].funs : p \in Walked(r)}
BusNumber(r, p) == IF p = Root THEN 0 ELSE BusOf(r, p)

(* The order of the walk.                                                  *)
NotAfter(r, x, y) ==
  LET b == BusNumber(r, x[1])
      c == BusNumber(r, y[1])
  IN \/ b < c
     \/ b = c /\ Last(x[1]) < Last(y[1])
     \/ x[1] = y[1] /\ x[2] <= y[2]

(* What compares equal to PCI_CLASS_SERIAL lowers the level of everything  *)
(* after it.  The byte that is compared is the programming interface: a    *)
(* USB controller, of the class serial, does not.                          *)
PCI_CLASS_SERIAL == 12
Limit(r, before, level) ==
  IF \E x \in before : node[x[1]].funs[x[2]].progIf = PCI_CLASS_SERIAL THEN 1 ELSE level

(* FindComponentBaspm: the other end of the link of a device is the first  *)
(* bridge, from the last bus down, with the device's bus behind it.        *)
(* Mutant: the wrong end of the link.                                     *)
FindOwnAspm(r, p) == node[p].funs[1].aspm

FindComponentBaspm(r, p) ==
  LET ends == {q \in Walked(r) \cup {Root} : IsBridge(q) /\ r[q].sec = BusOf(r, p)}
      first == CHOOSE q \in ends : \A o \in ends : BusNumber(r, o) <= BusNumber(r, q)
  IN IF ends = {} THEN 0 ELSE node[first].funs[1].aspm

(* DownstreamAspmSupport, RootportAspmSupport: what is behind the port.    *)
ChildAspm(r, p) ==
  LET child == At(r, r[p].sec, 0)
  IN IF child = Nowhere THEN 0 ELSE node[child].funs[1].aspm

(* MultiFunctionDeviceAspm: the level all functions have; what kind the    *)
(* walk does not know keeps it.                                            *)
LowerAspm(p) == Min({node[p].funs[f].aspm : f \in DOMAIN node[p].funs})

Aspm(r, p, f, level) ==
  LET own == node[p].funs[f].aspm
      type == node[p].type
  IN CASE type \in {"endpoint", "legacy", "upstream"} ->
            And(And(own, FindComponentBaspm(r, p)), level)
       [] type \in {"root", "downstream"}  -> And(And(own, ChildAspm(r, p)), level)
       [] type = "pci_bridge"              -> 0
       [] Len(node[p].funs) > 1            -> LowerAspm(p)
       [] OTHER                            -> r[p].fun[f].aspm

(* The registers after a walk that gives each function and the root port   *)
(* a record of new values.                                                 *)
After(r, new, root) ==
  LET walked == Functions(r)
  IN [p \in DOMAIN r |->
        [r[p] EXCEPT !.fun =
           [f \in DOMAIN @ |-> CASE p = Root               -> root @@ @[f]
                                 [] <<p, f>> \in walked    -> new[<<p, f>>] @@ @[f]
                                 [] OTHER                  -> @[f]]]]
Each(r, value) == [x \in Functions(r) |-> value]
Capable(x) == node[x[1]].funs[x[2]].pm
None == <<>>

ThunderboltEnableAspmWithoutLtr(r, max) ==
  LET all == Functions(r)
      new == [x \in all |->
                [aspm |-> Aspm(r, x[1], x[2],
                               Limit(r, {y \in all : NotAfter(r, y, x)}, max))]]
  IN After(r, new, [aspm |-> Aspm(r, Root, 1, Limit(r, all, max))])

ThunderboltDisableAspmWithoutLtr(r) == After(r, Each(r, [aspm |-> 0]), [aspm |-> 0])

TbtProgramClkReq(r, on) ==
  After(r, [x \in Functions(r) |-> IF Capable(x) THEN [clk |-> on] ELSE None], None)

TbtProgramPtm(r, on) ==
  After(r, [x \in Functions(r) |-> IF Capable(x) THEN [ptm |-> on] ELSE None],
        IF Functions(r) # {} /\ Capable(<<Root, 1>>) THEN [ptm |-> on] ELSE None)

(* ThunderboltGetLatencyLtr knows the latencies of both kinds of root port.*)
ThunderboltGetLatencyLtr == smm.type \in {"peg", "pch"}
SetLatencyLtr(x) == IF Capable(x) THEN [lat |-> ThunderboltGetLatencyLtr] ELSE None

ThunderboltSetLatencyLtr(r) ==
  After(r, [x \in Functions(r) |->
              IF node[x[1]].type \in {"endpoint", "legacy", "upstream"}
              THEN SetLatencyLtr(x) ELSE None], None)

TbtProgramLtr(r, on) ==
  After(r, [x \in Functions(r) |-> IF Capable(x) THEN [ltr |-> on] ELSE None],
        IF Capable(<<Root, 1>>) THEN [ltr |-> on] ELSE None)

-----------------------------------------------------------------------------
(* The walks.  Each ends at once when no known host router answers.        *)

Walk(pc, next, r) ==
  /\ smi.pc = pc
  /\ reg' = IF IsTbtHostRouter(reg) THEN r ELSE reg
  /\ smi' = IF smi.ends = pc THEN [IdleSmi EXCEPT !.legacy = smi.legacy]
            ELSE [smi EXCEPT !.pc = next]
  /\ UNCHANGED <<host, up, node, wanted>>

ConfigureClkReq == Walk("clkreq", "aspm", TbtProgramClkReq(reg, nvs.clk))
ConfigureAspm ==
  Walk("aspm", "latency",
       IF nvs.aspm = 0 THEN ThunderboltDisableAspmWithoutLtr(reg)
       ELSE ThunderboltEnableAspmWithoutLtr(reg, smi.level))
ConfigureLatency ==
  Walk("latency", "ltr", IF nvs.ltr THEN ThunderboltSetLatencyLtr(reg) ELSE reg)
ConfigureLtr == Walk("ltr", "ptm", TbtProgramLtr(reg, nvs.ltr))
ConfigurePtm == Walk("ptm", "idle", TbtProgramPtm(reg, nvs.ptm))

EndOfThunderboltCallback ==
  ConfigureClkReq \/ ConfigureAspm \/ ConfigureLatency \/ ConfigureLtr \/ ConfigurePtm

(* SMI 23 and 24.  It passes DTBT_CONTROLLER, 0, where the kind of the     *)
(* root port belongs: GetDTbtRpDevFun asserts, or, without assertions,     *)
(* leaves the port to chance; the right one is one of the outcomes, and    *)
(* with another one nothing happens.                                       *)
ConfigureTbtAspm(level) ==
  /\ smi.pc = "idle"
  /\ smi' = [smi EXCEPT !.pc = "clkreq", !.level = level, !.ends = "ltr"]
  /\ UNCHANGED <<spaceVars, wanted>>
=============================================================================
