---------------------------- MODULE TbtResources ----------------------------
(***************************************************************************)
(* The SMI handlers of src/Thunderbolt/Thunderbolt.c that give buses and   *)
(* memory to what is plugged into a Thunderbolt host router (function 21,  *)
(* ThunderboltCallback) and take them away again (22).  The operating      *)
(* system is stopped while a handler runs; cables are not: what a step     *)
(* found may be gone in the next.                                          *)
(*                                                                         *)
(* No host router has an I/O window (InitCommonHRConfigs, NOT_IN_USE), so  *)
(* SetIoBar always returns early and I/O does not appear.                  *)
(***************************************************************************)
EXTENDS TbtConfigSpace

CONSTANT MAX_TBT_DEPTH

VARIABLES
  smi,      \* the running handler: where it is, its PORT_INFO, isLegacyDevice,
            \* the ASPM level it is to set and the last of its walks
  wanted    \* something was plugged or torn down since SMI 21 last started

resVars == <<smi, wanted>>

NoPort == [bn |-> 4, mb |-> 0, ml |-> 0, pb |-> 0, pl |-> 0]      \* PortInfoInit
IdleSmi == [pc |-> "idle", port |-> 0, depth |-> 0, bus |-> 0, pi |-> NoPort,
            legacy |-> FALSE, level |-> 0, ends |-> "ptm"]

Disabled == [mb |-> 65520, ml |-> 0, pb |-> 65520, pl |-> 0]  \* a base above the limit
PCI_MAX_FUNC == 7

Floor(a, n) == a - (a % n)
BAR_ALIGN(a, size) == Floor(a + size - 1, size)

-----------------------------------------------------------------------------
(* The host router.                                                        *)

(* The registers of a bridge: the window registers drop what is below 1 MB.*)
Buses(sec, sub) == [sec |-> sec % 256, sub |-> sub % 256]
Memory(mb, ml) == [mb |-> Floor(mb, MB), ml |-> Floor(ml, MB)]
Prefetchable(pb, pl) == [pb |-> Floor(pb, MB), pl |-> Floor(pl, MB)]
Commands(bm, mem) == [bm |-> bm, mem |-> mem]
SetBridge(r, p, settings, cmd) ==
  IF p \notin DOMAIN r THEN r
  ELSE [r EXCEPT ![p] = settings @@ [@ EXCEPT !.fun[1] = cmd @@ @]]

(* What InitHRResConfigs lays out below the upstream port.  The            *)
(* controller's own interface, port 0, has the last MB; a USB controller   *)
(* hangs on port 2.                                                        *)
InitARDSPort_1Port(root) ==
  LET hr == root.sec
      last == root.ml - MB
      sub == hr + 3 + ((root.sub - hr - 4) % 256)
  IN 1 :> (Buses(hr + 3, sub) @@ Memory(root.mb, last - 1) @@ Prefetchable(root.pb, root.pl))
     @@ 2 :> (Buses(sub + 1, sub + 1) @@ Memory(last, last) @@ Disabled)

InitARDSPort_2Port(root) ==
  LET hr == root.sec
      one == hr + 3 + (((root.sub - hr - 5) % 256) \div 2)
  IN 1 :> (Buses(hr + 3, one) @@ Memory(root.mb, root.mb + 6127)
           @@ Prefetchable(root.pb, root.pb + 8191))
     @@ 2 :> (Buses(one + 1, one + 1) @@ Memory(root.mb + 6128, root.mb + 6143) @@ Disabled)
     @@ 4 :> (Buses(one + 2, root.sub) @@ Memory(root.mb + 6144, root.ml - MB)
              @@ Prefetchable(root.pb + 8192, root.pl))

(* CheckLimits, asked for two ports only.  The masks keep sixteen bits,    *)
(* also of the 64-bit prefetchable window; its difference is unsigned.     *)
CheckLimits(root) ==
  LET pb == root.pb % 65536
      pl == root.pl % 65536
  IN /\ root.mb % 1024 = 0
     /\ pb % 4096 = 0
     /\ root.ml - root.mb >= 11776      \* InitCommonHRConfigs took the last MB
     /\ pl + MB - pb >= 18944 \/ pl + MB < pb
     /\ (root.sub - root.sec) % 256 >= 106

(* A refused router is left with what InitARHRConfigs had set: port 2 on   *)
(* the bus of port 0, and no windows.                                      *)
Refused(root) ==
  LET none == [mb |-> 0, ml |-> 0, pb |-> 0, pl |-> 0]
  IN 1 :> (Buses(root.sec + 3, root.sub) @@ none)
     @@ 2 :> (Buses(root.sec + 2, root.sec + 2) @@ none)
     @@ 4 :> (Buses(0, 0) @@ none)

Accepted(root) == host.id \in TwoPorts => CheckLimits(root)
MaxDSNumber == IF host.id \in OnePort THEN 2 ELSE 4

InitHRResConfigs(root) ==
  CASE host.id \in OnePort -> InitARDSPort_1Port(root)
    [] CheckLimits(root)   -> InitARDSPort_2Port(root)
    [] OTHER               -> Refused(root)

(* UnsetVesc: a port with nothing behind it flushes what is written to it. *)
(* On bus 0, the secondary bus of a bridge that was never set up, answers  *)
(* the chipset.                                                            *)
UnsetVesc(r, p) ==
  IF p = Nowhere THEN r
  ELSE [r EXCEPT ![p].flush = r[p].sec # 0 /\ At(r, r[p].sec, 0) = Nowhere]

HasVesc == host.id \in {"AR_HR_2C", "AR_HR_4C", "AR_HR_LP"}

(* InitCommonHRConfigs: the upstream port has all the root port has, port  *)
(* 0 the last MB.                                                          *)
InitCommonHRConfigs(root) ==
  [upstream |-> Buses(root.sec + 1, root.sub) @@ Memory(root.mb, root.ml)
                @@ Prefetchable(root.pb, root.pl),
   port0 |-> Buses(root.sec + 2, root.sec + 2) @@ Memory(root.ml, root.ml) @@ Disabled]

(* InitializeHostRouter: windows and buses of the upstream and downstream  *)
(* ports, and the addresses of the controller's own interface.             *)
InitializeHostRouter(r) ==
  LET root == r[Root]
      hr == root.sec
      ports == {0, 1, 2, MaxDSNumber}
      on == Commands(Accepted(root), Accepted(root))
      common == InitCommonHRConfigs(root)
      lay == 0 :> common.port0 @@ InitHRResConfigs(root)
      r1 == SetBridge(r, Upstream, common.upstream, Commands(TRUE, TRUE))
      r2 == FoldSet(LAMBDA d, x : SetBridge(x, Downstream(d), lay[d],
                                            IF d = 0 THEN Commands(TRUE, TRUE) ELSE on),
                    r1, ports)
      r3 == IF ~HasVesc THEN r2
            ELSE FoldSet(LAMBDA d, x : UnsetVesc(x, At(x, hr + 1, d)), r2, ports)
      hia == At(r3, hr + 2, 0)
  IN IF hia = Nowhere THEN r3
     ELSE [r3 EXCEPT ![hia].fun[1] =
             Commands(TRUE, TRUE) @@ [bars |-> <<root.ml, root.ml + 4>>] @@ @]

-----------------------------------------------------------------------------
(* Addresses of one device.  The operators below take and give a record of *)
(* the registers and the PORT_INFO, which says what is left of the window. *)

(* The upper half of a 64-bit address is written to the byte after the     *)
(* first of the lower half (BAR++), over the rest of it: the register says *)
(* 256 times the upper half, as far as its size lets it.                   *)
Torn(address, size) == Floor((address \div 65536) \div 256, size)

(* SetMemBar, SetPMem64Bar: the next aligned address, if it fits.          *)
SetBar(s, p, f, i) ==
  LET bar == node[p].funs[f].bars[i]
      base == IF bar.kind = "pmem" THEN s.pi.pb ELSE s.pi.mb
      limit == IF bar.kind = "pmem" THEN s.pi.pl ELSE s.pi.ml
      new == BAR_ALIGN(base, bar.size)
      r == [s.r EXCEPT ![p].fun[f].mem = TRUE,
                       ![p].fun[f].bars[i] = IF bar.kind = "pmem" THEN Torn(new, bar.size)
                                               ELSE new]
  IN IF bar.kind = "io" \/ base > limit \/ new + bar.size - 1 > limit THEN s
     ELSE IF bar.kind = "pmem" THEN [s EXCEPT !.r = r, !.pi.pb = new + bar.size]
     ELSE [s EXCEPT !.r = r, !.pi.mb = new + bar.size]

Upto(n) == [i \in 1 .. n |-> i]

(* Mutant: PORT_INFO is not advanced.                                     *)
SetDevResourcesForgets(s, p, maxFun, maxBar) ==
  LET funs == node[p].funs
      function(x, f) ==
        FoldLeft(LAMBDA y, i : SetBar(y, p, f, i),
                 [x EXCEPT !.r[p].fun[f] = Commands(TRUE, FALSE) @@ @],
                 Upto(Min({maxBar, Len(funs[f].bars)})))
  IN [s EXCEPT !.r = FoldLeft(function, s, Upto(Min({maxFun, Len(funs)}))).r]

SetDevResources(s, p, maxFun, maxBar) ==
  LET funs == node[p].funs
      function(x, f) ==
        FoldLeft(LAMBDA y, i : SetBar(y, p, f, i),
                 [x EXCEPT !.r[p].fun[f] = Commands(TRUE, FALSE) @@ @],
                 Upto(Min({maxBar, Len(funs[f].bars)})))
      done == FoldLeft(function, s, Upto(Min({maxFun, Len(funs)})))
  IN [done EXCEPT !.pi.mb = BAR_ALIGN(@, MB) % 65536, !.pi.pb = BAR_ALIGN(@, MB)]

-----------------------------------------------------------------------------
(* Buses and windows of the bridges.                                       *)

Rounded(used, steps) == IF used > Max(steps) THEN used ELSE Min({n \in steps : n >= used})
MemPerSlot(used) == Rounded(used, {0, 16, 64, 128, 256, 512, 1024})
PMemPerSlot(used) == Rounded(used, {0, 1024, 4096})

(* MEM_PER_SLOT, for the slots of a legacy endpoint.                       *)
Padded(used, roomy, legacy, depth) ==
  IF ~legacy THEN roomy ELSE IF depth >= 0 THEN Max({used, 512}) ELSE used

(* SetPhyPortResources: the window is what was used since cur, rounded up; *)
(* one that does not fit is closed and what was used is used again.        *)
(* Mutant: no limit.                                                      *)
SetPhyPortResourcesUnchecked(s, p, sub, depth, legacy, cur) ==
  LET mem == (s.pi.mb - cur.mb) % 65536
      pre == s.pi.pb - cur.pb
      mb == cur.mb + Padded(mem, MemPerSlot(mem), legacy, depth)
      pb == cur.pb + Padded(pre, PMemPerSlot(pre), legacy, depth)
      window == Memory(cur.mb, mb - MB) @@ Prefetchable(cur.pb, pb - MB)
  IN [r |-> SetBridge(s.r, p, [sub |-> sub] @@ window, Commands(TRUE, TRUE)),
      pi |-> [s.pi EXCEPT !.mb = mb, !.pb = pb]]

SetPhyPortResources(s, p, sub, depth, legacy, cur) ==
  LET mem == (s.pi.mb - cur.mb) % 65536
      pre == s.pi.pb - cur.pb
      mb == cur.mb + Padded(mem, MemPerSlot(mem), legacy, depth)
      pb == cur.pb + Padded(pre, PMemPerSlot(pre), legacy, depth)
      hasMem == mb > cur.mb /\ mb - MB <= s.pi.ml
      hasPre == pb > cur.pb /\ pb - MB <= s.pi.pl
      window == (IF hasMem THEN Memory(cur.mb, mb - MB) ELSE Memory(Disabled.mb, 0))
                @@ (IF hasPre THEN Prefetchable(cur.pb, pb - MB) ELSE Disabled)
  IN [r |-> SetBridge(s.r, p, [sub |-> sub] @@ window, Commands(TRUE, hasMem \/ hasPre)),
      pi |-> [s.pi EXCEPT !.mb = IF hasMem THEN mb ELSE cur.mb,
                          !.pb = IF hasPre THEN pb ELSE cur.pb]]

(* The device numbers below n, without those that nothing has.             *)
Devices(n) ==
  SelectSeq([i \in 1 .. n |-> i - 1], LAMBDA d : \E p \in DOMAIN node \ {Root} : Last(p) = d)

(* ConfigureSlot: everything on bus b, device by device, and what is behind*)
(* the bridges there.  "used" counts the bus numbers given.  A bridge for  *)
(* which none is left is passed over.                                      *)
RECURSIVE ConfigureSlot(_, _, _, _, _, _)
ConfigureSlot(s, b, maxDevice, depth, ar, legacy) ==
  LET Device(x, d) ==
        LET p == At(x.r, b, d)
            sec == (b + x.used + 1) % 256
            s1 == SetDevResources(x, p, 1, 2)
            r2 == SetBridge(s1.r, p, Buses(sec, x.pi.bn), Commands(TRUE, TRUE))
            r3 == IF ar THEN UnsetVesc(r2, p) ELSE r2
            below == ConfigureSlot([r |-> r3, pi |-> s1.pi], sec, 32, -1, FALSE, legacy)
            s4 == SetPhyPortResources([r |-> below.r, pi |-> below.pi], p, sec + below.used,
                                      depth, legacy, x.pi)
        IN IF p = Nowhere THEN x
           ELSE IF ~IsBridge(p) THEN SetDevResources(x, p, PCI_MAX_FUNC, 6)
           ELSE IF sec + 1 >= x.pi.bn THEN [x EXCEPT !.used = @ + 1]
           ELSE s4 @@ [used |-> x.used + 1 + below.used]
  IN FoldLeft(Device, s @@ [used |-> 0], Devices(maxDevice))

(* SetCioPortResources: a bridge on the way to the next endpoint has all   *)
(* that is left.                                                           *)
SetCioPortResources(r, p, sec, pi) ==
  LET mem == pi.mb <= pi.ml
      pre == pi.pb <= pi.pl
      window == (IF mem THEN Memory(pi.mb, pi.ml) ELSE Memory(Disabled.mb, 0))
                @@ (IF pre THEN Prefetchable(pi.pb, pi.pl) ELSE Disabled)
  IN IF p = Nowhere THEN r
     ELSE SetBridge(r, p, Buses(sec, pi.bn) @@ window, Commands(TRUE, mem \/ pre))

(* SetSlotsAsUnused: from the last slot down to the one after the CIO slot *)
(* each takes the last bus.                                                *)
SetSlotsAsUnused(s, b, maxSlot, cio) ==
  FoldLeft(LAMBDA x, slot :
             LET p == At(x.r, b, slot)
             IN IF p = Nowhere THEN x
                ELSE [r |-> SetBridge(x.r, p, Buses(x.pi.bn, x.pi.bn) @@ Disabled,
                                      Commands(TRUE, FALSE)),
                      pi |-> [x.pi EXCEPT !.bn = (@ - 1) % 256]],
           s, Reverse([i \in 1 .. (maxSlot - cio) |-> cio + i]))

-----------------------------------------------------------------------------
(* What kind of endpoint it is.                                            *)

(* The vendor specific capability: "slots" is 0 without it, and "cio" is   *)
(* the bit map of the slots that lead on.                                  *)
FindVendorSpecificHeader(d) == d.slots # 0
FindSsid_SsvidHeader(d) == d.ssid # "none"

(* GetCioSlotByDevId: the slot of an endpoint that leads to the next one,  *)
(* and its last slot.                                                      *)
GetCioSlotByDevId(d) ==
  LET cio(present, slot, last) ==
        [present |-> present, slot |-> slot, last |-> last, ar |-> d.devId = "0x1578"]
  IN CASE d.devId \in {"0x1513", "0x151A", "0x151B", "0x1547", "0x1548"} -> cio(TRUE, 4, 7)
       [] d.devId = "0x1549"     -> cio(FALSE, 4, 7)
       [] ~FindVendorSpecificHeader(d) \/ d.slots > 27 -> cio(TRUE, 4, 7)
       [] d.cio = {}             -> cio(FALSE, 4, d.slots)
       [] OTHER                  -> cio(TRUE, Min(d.cio), d.slots)

IsLegacyDevice(d) ==
  \/ d.devId \in {"0x1513", "0x151A", "0x151B"}
  \/ ~FindSsid_SsvidHeader(d)
  \/ d.ssid \in {"legacy", "zero"}

UnsetVescEp(r, b, last) ==
  FoldSet(LAMBDA d, x : UnsetVesc(x, At(x, b, d)), r, 0 .. last)

-----------------------------------------------------------------------------
(* SMI 21, one step for the host router and for each port and endpoint.    *)

(* Mutant: not the last port.                                             *)
NextPortStopsEarly ==
  IF smi.port < MaxDSNumber - 1
  THEN [smi EXCEPT !.pc = "port", !.port = @ + 1]
  ELSE [smi EXCEPT !.pc = "clkreq"]

NextPort ==
  IF smi.port < MaxDSNumber
  THEN [smi EXCEPT !.pc = "port", !.port = @ + 1]
  ELSE [smi EXCEPT !.pc = "clkreq"]

NextEndpoint(r, bus, pi) ==
  IF At(r, bus, 0) # Nowhere /\ smi.depth + 1 < MAX_TBT_DEPTH
  THEN [smi EXCEPT !.depth = @ + 1, !.bus = bus, !.pi = pi]
  ELSE NextPort

ThunderboltCallback ==
  /\ smi.pc = "idle"
  /\ wanted' = FALSE
  /\ IF IsTbtHostRouter(reg)
     THEN /\ reg' = InitializeHostRouter(reg)
          /\ smi' = IF Accepted(reg[Root])
                    THEN [smi EXCEPT !.pc = "port", !.port = 1, !.level = nvs.aspm]
                    ELSE smi
     ELSE UNCHANGED <<reg, smi>>
  /\ UNCHANGED <<host, up, node>>

(* What a bridge passes on, for what is behind it.                         *)
GetPortResources(regs) ==
  [bn |-> regs.sub, mb |-> regs.mb, ml |-> regs.ml + 15, pb |-> regs.pb, pl |-> regs.pl + 15]

(* A downstream port, if there is something behind it.                     *)
ConfigurePort ==
  /\ smi.pc = "port"
  /\ LET ds == At(reg, reg[Root].sec + 1, smi.port)
         regs == reg[ds]
     IN IF ds = Nowhere THEN smi' = NextPort
        ELSE IF At(reg, regs.sec, 0) = Nowhere THEN smi' = NextPort
        ELSE smi' = [smi EXCEPT !.pc = "ep", !.depth = 0, !.bus = regs.sec,
                                !.pi = GetPortResources(regs)]
  /\ UNCHANGED <<spaceVars, wanted>>

(* ConfigureEP.  What does not answer reads as a configured device.        *)
Endpoint == At(reg, smi.bus, 0)
BusMaster == reg[Endpoint].fun[1].bm
Atep(bridge, configured) ==
  /\ smi.pc = "ep"
  /\ Endpoint # Nowhere
  /\ IsBridge(Endpoint) = bridge
  /\ BusMaster = configured

SkipEndpoint ==
  /\ Atep(FALSE, TRUE) \/ (smi.pc = "ep" /\ Endpoint = Nowhere)
  /\ smi' = NextPort
  /\ UNCHANGED <<spaceVars, wanted>>

ConfigureDevice ==
  /\ Atep(FALSE, FALSE)
  /\ reg' = ConfigureSlot([r |-> reg, pi |-> smi.pi], smi.bus, 32, -1, FALSE, smi.legacy).r
  /\ smi' = NextPort
  /\ UNCHANGED <<host, up, node, wanted>>

(* An endpoint of an earlier SMI: go on behind its CIO slot, with what     *)
(* that slot was given.                                                    *)
PassEndpoint ==
  /\ Atep(TRUE, TRUE)
  /\ LET cio == GetCioSlotByDevId(node[Endpoint])
         slot == At(reg, smi.bus + 1, cio.slot)
         regs == reg[slot]
     IN /\ reg' = IF cio.ar THEN UnsetVescEp(reg, smi.bus + 1, cio.last) ELSE reg
        /\ IF ~cio.present \/ slot = Nowhere THEN smi' = NextPort
           ELSE smi' = NextEndpoint(reg', regs.sec,
                                    [bn |-> regs.sub, mb |-> regs.mb, ml |-> regs.ml,
                                     pb |-> regs.pb, pl |-> regs.pl + 15])
  /\ UNCHANGED <<host, up, node, wanted>>

(* The slots up to the CIO slot are done (s), those after it put out of    *)
(* use (u): the CIO slot has the buses after those given so far, and the   *)
(* rest of the windows.                                                    *)
LeadOn(s, u, cio, b, legacy) ==
  LET next == (b + s.used + 1) % 256
      slot == At(u.r, b, cio.slot)
      open(r) == IF cio.ar THEN UnsetVesc(r, slot) ELSE r
  IN /\ reg' = open(SetCioPortResources(u.r, slot, next, u.pi))
     /\ smi' = [(IF next > u.pi.bn - 2 THEN NextPort
                 ELSE NextEndpoint(reg', next, u.pi)) EXCEPT !.legacy = legacy]

LeaveEndpoint(s, cio, b, legacy) ==
  IF cio.present THEN LeadOn(s, SetSlotsAsUnused(s, b, cio.last, cio.slot), cio, b, legacy)
  ELSE reg' = s.r /\ smi' = [NextPort EXCEPT !.legacy = legacy]

ConfigureEndpoint ==
  /\ Atep(TRUE, FALSE)
  /\ LET d == node[Endpoint]
         cio == GetCioSlotByDevId(d)
         legacy == IsLegacyDevice(d)
         b == smi.bus + 1
     IN LeaveEndpoint(ConfigureSlot([r |-> SetCioPortResources(reg, Endpoint, b, smi.pi),
                                     pi |-> smi.pi],
                                    b, IF cio.present THEN cio.slot ELSE cio.last,
                                    smi.depth, cio.ar, legacy), cio, b, legacy)
  /\ UNCHANGED <<host, up, node, wanted>>

ConfigureEP == SkipEndpoint \/ ConfigureDevice \/ PassEndpoint \/ ConfigureEndpoint

-----------------------------------------------------------------------------
(* SMI 22: what answers below the downstream ports is disabled, devices    *)
(* before bridges.  The loops go from the last bus up, so a bridge loses   *)
(* its buses after what is behind it.                                      *)

BusOf(r, p) == r[Front(p)].sec
Answering(r, first) ==
  {p \in DOMAIN node \ {Root} : BusOf(r, p) >= first /\ At(r, BusOf(r, p), Last(p)) = p}

Off(f) == Commands(FALSE, FALSE) @@ f
(* Mutant: the device goes on with the addresses it has lost.              *)
DisableDeviceOnlyAddresses(regs) ==
  [regs EXCEPT !.fun = [f \in DOMAIN @ |-> [@[f] EXCEPT !.bars = [i \in DOMAIN @ |-> 0]]]]

DisableDevice(regs) ==
  [regs EXCEPT !.fun = [f \in DOMAIN @ |-> [Off(@[f]) EXCEPT !.bars = [i \in DOMAIN @ |-> 0]]]]
DisableBridge(regs) ==
  [regs EXCEPT !.sec = 0, !.sub = 0, !.pb = @ % 65536, !.fun[1] = Off(@)]

DisablePCIDevicesAndBridges(bridges) ==
  LET there == {p \in Answering(reg, reg[Root].sec + 2) : IsBridge(p) = bridges}
  IN [p \in DOMAIN reg |-> CASE p \notin there -> reg[p]
                             [] bridges        -> DisableBridge(reg[p])
                             [] OTHER          -> DisableDevice(reg[p])]

(* Mutant: devices after bridges.                                         *)
TbtDisableBridgesFirst ==
  /\ smi.pc = "idle"
  /\ IF IsTbtHostRouter(reg)
     THEN /\ reg' = DisablePCIDevicesAndBridges(TRUE)
          /\ smi' = [smi EXCEPT !.pc = "bridges"]
     ELSE UNCHANGED <<reg, smi>>
  /\ UNCHANGED <<host, up, node, wanted>>

TbtDisablePCIDevicesAndBridges ==
  /\ smi.pc = "idle"
  /\ IF IsTbtHostRouter(reg)
     THEN /\ reg' = DisablePCIDevicesAndBridges(FALSE)
          /\ smi' = [smi EXCEPT !.pc = "bridges"]
     ELSE UNCHANGED <<reg, smi>>
  /\ UNCHANGED <<host, up, node, wanted>>

DisableBridges ==
  /\ smi.pc = "bridges"
  /\ reg' = DisablePCIDevicesAndBridges(TRUE)
  /\ smi' = [smi EXCEPT !.pc = "idle"]
  /\ wanted' = TRUE
  /\ UNCHANGED <<host, up, node>>
=============================================================================
