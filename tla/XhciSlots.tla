----------------------------- MODULE XhciSlots -----------------------------
(***************************************************************************)
(* The device slots of the XHCI driver: the table UsbDevContext, the slots *)
(* and contexts of the controller, the ports of the root hub and of hubs,  *)
(* and the USB bus driver that polls the ports and gives devices their     *)
(* addresses. Devices come and go between any two steps.                   *)
(*                                                                         *)
(* A place is the path of port numbers to a device. The driver knows a     *)
(* device by its route, which is made from the place port by port. It      *)
(* assigns a slot when a port was reset, records the address the bus       *)
(* driver chose instead of sending it, and disables the slot, with those   *)
(* of the devices behind it, at the next change of the port.               *)
(***************************************************************************)
EXTENDS Integers, FiniteSetsExt, SequencesExt

CONSTANTS
  MaxSlotsEn,     \* slots of the controller
  Places,         \* ports, each the path of ports to it, closed under prefix
  Speed,          \* the speed of the device at a place
  Addresses,      \* addresses of the bus driver
  MaxFailures,    \* bound: commands and transfers that fail with the device there
  MaxPlugs,       \* bound: devices plugged or unplugged
  MaxResets,      \* bound: calls of XhcReset
  None

ASSUME SlotsAssumption ==
  /\ MaxSlotsEn \in Nat
  /\ \A p \in Places : p \in Seq(Nat) /\ p # << >> /\ (Len(p) > 1 => Front(p) \in Places)
  /\ Speed \in [Places -> {"low", "full", "high", "super"}]
  /\ \A p \in Places : Len(p) > 1 /\ Speed[Front(p)] \in {"low", "full"} => Speed[p] \in {"low", "full"}
  /\ Addresses \subseteq Nat \ {0}
  /\ None \notin Places /\ None \notin Addresses
  /\ {MaxFailures, MaxPlugs, MaxResets} \subseteq Nat

VARIABLES
  csz,        \* the size of the contexts of this controller
  ctx,        \* Xhc->UsbDevContext
  dcbaa,      \* slots with an entry in Xhc->DCBAA
  contexts,   \* contexts that are allocated: slot and size
  hcSlot,     \* controller: the state of each slot
  device,     \* controller: the place of the device a slot addresses
  plugged,    \* places with a device
  port,       \* the port at a place: enabled, and its change bits
  bus,        \* bus driver: the address of the device at a place
  step,       \* where the bus driver, or the call it makes, is
  at,         \* the place it works on
  hub,        \* SlotId of the hub in the call, 0 for a root port
  status,     \* PortStatus of the call
  address,    \* the address the bus driver tries
  missed,     \* history: ports with a change nobody acts on (no slot was free,
              \* or it came in the middle of a check)
  failures, plugs, resets

slotVars == <<csz, ctx, dcbaa, contexts>>
hcVars == <<hcSlot, device>>
portVars == <<plugged, port>>
busVars == <<bus, step, at, hub, status, address>>
counters == <<failures, plugs, resets>>
vars == <<slotVars, hcVars, portVars, busVars, missed, counters>>

NoStatus == [connected |-> FALSE, enabled |-> FALSE, changes |-> {}]
Quiet == [enabled |-> FALSE, changes |-> {}]
NoTT == [hub |-> 0, port |-> 0]
Zeroed ==
  [enabled |-> FALSE, id |-> 0, route |-> << >>, parent |-> << >>, bus |-> 0, xhci |-> 0,
   speed |-> "full", tt |-> NoTT]

Slots == 1 .. MaxSlotsEn

Under(p) == {q \in Places : IsPrefix(p, q)}
MayFail == failures < MaxFailures

-----------------------------------------------------------------------------
(* Routes and the lookups in UsbDevContext.                                *)

(* A nibble for each hub: ports from 14 on share one value.                *)
RouteChart(parent, number) ==
  Append(parent, IF parent # << >> /\ number >= 14 THEN 15 ELSE number)

Route(p) == [i \in DOMAIN p |-> IF i > 1 /\ p[i] >= 14 THEN 15 ELSE p[i]]

InUse(s) == ctx[s].enabled /\ ctx[s].id # 0

Lowest(slots) == IF slots = {} THEN 0 ELSE Min(slots)

XhcBusDevAddrToSlotId(a) == Lowest({s \in Slots : InUse(s) /\ ctx[s].bus = a})

XhcRouteStringToSlotId(route) == Lowest({s \in Slots : InUse(s) /\ ctx[s].route = route})

(* A transfer through slot s reaches the device at p.                      *)
Reaches(s, p) == s # 0 /\ hcSlot[s] = "addressed" /\ device[s] = p /\ p \in plugged

-----------------------------------------------------------------------------
Init ==
  /\ csz \in {32, 64}
  /\ ctx = [s \in Slots |-> Zeroed] /\ dcbaa = {} /\ contexts = {}
  /\ hcSlot = [s \in Slots |-> "disabled"] /\ device = [s \in Slots |-> None]
  /\ plugged = {} /\ port = [p \in Places |-> Quiet]
  /\ bus = [p \in Places |-> None]
  /\ step = "rest" /\ at = None /\ hub = 0
  /\ status = NoStatus /\ address = 0
  /\ missed = {} /\ failures = 0 /\ plugs = 0 /\ resets = 0

-----------------------------------------------------------------------------
(* The devices.                                                            *)

(* The change comes in the middle of GetPortStatus for this port.          *)
Races(p) == IF at = p /\ step \in {"clear", "clearAgain"} THEN missed \cup {p} ELSE missed

Plug(p) ==
  /\ plugs < MaxPlugs
  /\ p \notin plugged /\ (Len(p) > 1 => Front(p) \in plugged)
  /\ plugged' = plugged \cup {p}
  /\ port' = [port EXCEPT ![p].changes = @ \cup {"connection"}]
  /\ plugs' = plugs + 1
  /\ missed' = Races(p)
  /\ UNCHANGED <<slotVars, hcVars, busVars, failures, resets>>

Unplug(p) ==
  /\ plugs < MaxPlugs
  /\ p \in plugged
  /\ plugged' = plugged \ Under(p)
  /\ port' = [q \in Places |->
                IF q = p THEN [enabled |-> FALSE, changes |-> port[p].changes \cup {"connection"}]
                ELSE IF q \in Under(p) THEN Quiet ELSE port[q]]
  /\ device' = [s \in Slots |-> IF device[s] \in Under(p) THEN None ELSE device[s]]
  /\ plugs' = plugs + 1
  /\ missed' = Races(p)
  /\ UNCHANGED <<slotVars, hcSlot, busVars, failures, resets>>

-----------------------------------------------------------------------------
(* The bus driver reads the status of a port: from the register of a root  *)
(* port, or with a control transfer to the hub. The driver clears the      *)
(* changes it saw, and polls.                                              *)

HubSlot(p) == IF bus[Front(p)] = None THEN 0 ELSE XhcBusDevAddrToSlotId(bus[Front(p)])

PortIsThere(p) == Len(p) = 1 \/ Reaches(HubSlot(p), Front(p))

(* XhcGetRootHubPortStatus, or GET_STATUS in XhcControlTransfer.           *)
GetPortStatus(p) ==
  /\ \/ step = "rest" /\ (Len(p) > 1 => bus[Front(p)] # None)
     \/ step = "status" /\ at = p
  /\ IF PortIsThere(p)
     THEN /\ status' = [connected |-> p \in plugged, enabled |-> port[p].enabled,
                        changes |-> port[p].changes]
          /\ status'.changes # {} \/ step = "status"
          /\ at' = p /\ hub' = IF Len(p) = 1 THEN 0 ELSE HubSlot(p)
          /\ step' = IF step = "rest" THEN "clear" ELSE "clearAgain"
     ELSE step = "status" /\ step' = "rest" /\ at' = None /\ UNCHANGED <<hub, status>>
  /\ missed' = IF step = "rest" THEN missed \ {p}
              ELSE IF "connection" \in port[p].changes THEN missed \cup {p} ELSE missed
  /\ UNCHANGED <<slotVars, hcVars, portVars, bus, address, counters>>

(* A change of a kind that was read already is cleared with it.            *)
ChangesLeft == port[at].changes \ status.changes

ClearPortChange ==
  /\ step \in {"clear", "clearAgain"}
  /\ port' = [port EXCEPT ![at].changes = ChangesLeft]
  /\ step' = IF step = "clear" THEN "disable" ELSE "disableAgain"
  /\ UNCHANGED <<slotVars, hcVars, plugged, bus, at, hub, status, address, missed, counters>>

-----------------------------------------------------------------------------
(* XhcPollPortStatusChange. The slot of the port is disabled first.        *)

ParentRoute == IF hub = 0 THEN << >> ELSE ctx[hub].route

PollRoute == RouteChart(ParentRoute, Last(at))

HasItsChildren(slots) ==
  \A c \in Slots : InUse(c) /\ (\E t \in slots : ctx[c].parent = ctx[t].route) => c \in slots

(* The slot s and the ones its recursion disables before it: the smallest  *)
(* set with s that has the children of its slots.                          *)
Below(s) ==
  {t \in Slots : \A slots \in SUBSET Slots : s \in slots /\ HasItsChildren(slots) => t \in slots}

FreedContexts(off, size) == contexts \ {<<t, size>> : t \in off}

(* The commands of the slots in `failed` fail; the ones in `done` the      *)
(* controller executed all the same.                                       *)
DisableSlot(s, failed, done, size) ==
  LET off == Below(s) \ failed
  IN  /\ ctx' = [t \in Slots |->
                   IF t \in off THEN [ctx[t] EXCEPT !.enabled = FALSE, !.id = 0]
                   ELSE IF t \in Below(s) \ {s} THEN [ctx[t] EXCEPT !.id = 0]
                   ELSE ctx[t]]
      /\ dcbaa' = dcbaa \ off
      /\ contexts' = FreedContexts(off, size)
      /\ hcSlot' = [t \in Slots |-> IF t \in off \cup done THEN "disabled" ELSE hcSlot[t]]
      /\ device' = [t \in Slots |-> IF t \in off \cup done THEN None ELSE device[t]]

XhcDisableSlotCmd(s, failed, done) == csz = 32 /\ DisableSlot(s, failed, done, 32)
XhcDisableSlotCmd64(s, failed, done) == csz = 64 /\ DisableSlot(s, failed, done, 64)

NotEnabled(slots) == {t \in slots : hcSlot[t] = "disabled"}

(* Mutant: the end of a reset is not a change.                            *)
PollOnConnection == "connection" \in status.changes

PollIsNeeded == status.changes # {}

PollDisable ==
  /\ step \in {"disable", "disableAgain"}
  /\ LET s == IF PollIsNeeded THEN XhcRouteStringToSlotId(PollRoute) ELSE 0
     IN  IF s = 0
         THEN UNCHANGED <<ctx, dcbaa, contexts, hcVars, failures>>
         ELSE \E failed \in SUBSET Below(s), done \in SUBSET Below(s) :
                LET injected == failed \ NotEnabled(Below(s)) IN
                /\ NotEnabled(Below(s)) \subseteq failed /\ done \subseteq injected
                /\ failures' = failures + Cardinality(injected) /\ failures' <= MaxFailures
                /\ XhcDisableSlotCmd(s, failed, done) \/ XhcDisableSlotCmd64(s, failed, done)
  /\ step' = IF step = "disable" THEN "enable" ELSE "enableAgain"
  /\ UNCHANGED <<csz, portVars, bus, at, hub, status, address, missed, plugs, resets>>

(* Mutant: the translator of the parent is not looked at.                  *)
SlotContextOfParent(p, parentSlot) ==
  LET parent == ctx[parentSlot] IN
  IF parentSlot = 0 THEN [speed |-> Speed[p], tt |-> NoTT]
  ELSE [speed |-> Speed[p],
        tt |-> IF parent.speed = "high" /\ Speed[p] \in {"low", "full"}
               THEN [hub |-> parentSlot, port |-> Last(p)] ELSE NoTT]

(* The speed of a device below a hub, and the transaction translator it    *)
(* uses: that of the parent, or the parent itself.                         *)
SlotContext(p, parentSlot) ==
  LET parent == ctx[parentSlot] IN
  IF parentSlot = 0 THEN [speed |-> Speed[p], tt |-> NoTT]
  ELSE IF parent.tt # NoTT
  THEN [speed |-> IF Speed[p] = "high" THEN parent.speed ELSE Speed[p], tt |-> parent.tt]
  ELSE [speed |-> Speed[p],
        tt |-> IF parent.speed = "high" /\ Speed[p] \in {"low", "full"}
               THEN [hub |-> parentSlot, port |-> Last(p)] ELSE NoTT]

ParentSlot == IF Len(PollRoute) = 1 THEN 0 ELSE XhcRouteStringToSlotId(ParentRoute)

NewEntry(s, p) ==
  [enabled |-> TRUE, id |-> s, route |-> PollRoute, parent |-> ParentRoute, bus |-> 0,
   xhci |-> 0, speed |-> SlotContext(p, ParentSlot).speed, tt |-> SlotContext(p, ParentSlot).tt]

InitializeSlot(s, size) ==
  /\ ctx' = [ctx EXCEPT ![s] = NewEntry(s, at)]
  /\ contexts' = contexts \cup {<<s, size>>}
  /\ dcbaa' = dcbaa \cup {s}

XhcInitializeDeviceSlot(s) == csz = 32 /\ InitializeSlot(s, 32)
XhcInitializeDeviceSlot64(s) == csz = 64 /\ InitializeSlot(s, 64)

SlotIsNeeded ==
  /\ PollIsNeeded
  /\ status.enabled /\ status.connected
  /\ "reset" \in status.changes
  /\ XhcRouteStringToSlotId(PollRoute) = 0

Decided == IF step \in {"enable", "address"} THEN "decide" ELSE "decideAgain"

(* The Enable Slot command. One that timed out may have taken a slot.      *)
PollEnableSlot ==
  /\ step \in {"enable", "enableAgain"}
  /\ LET free == {s \in Slots : hcSlot[s] = "disabled"} IN
     \/ /\ SlotIsNeeded
        /\ \E s \in free :
             /\ hcSlot' = [hcSlot EXCEPT ![s] = "enabled"]
             /\ XhcInitializeDeviceSlot(s) \/ XhcInitializeDeviceSlot64(s)
             /\ address' = s
        /\ step' = IF step = "enable" THEN "address" ELSE "addressAgain"
        /\ UNCHANGED <<missed, failures>>
     \/ /\ SlotIsNeeded /\ (MayFail \/ free = {})
        /\ \E taken \in {t \in SUBSET free : Cardinality(t) <= 1} :
             hcSlot' = [s \in Slots |-> IF s \in taken THEN "enabled" ELSE hcSlot[s]]
        /\ failures' = IF free = {} THEN failures ELSE failures + 1
        /\ missed' = IF free = {} THEN missed \cup {at} ELSE missed
        /\ step' = Decided
        /\ UNCHANGED <<ctx, contexts, dcbaa, address>>
     \/ /\ ~SlotIsNeeded
        /\ step' = Decided
        /\ UNCHANGED <<ctx, contexts, dcbaa, hcSlot, address, missed, failures>>
  /\ UNCHANGED <<csz, device, portVars, bus, at, hub, status, plugs, resets>>

(* The Address Device command. It fails when the device is gone; the slot  *)
(* then stays enabled, without an address.                                 *)
PollAddressDevice ==
  /\ step \in {"address", "addressAgain"}
  /\ LET s == address IN
     \/ /\ at \in plugged /\ port[at].enabled
        /\ hcSlot' = [hcSlot EXCEPT ![s] = "addressed"]
        /\ device' = [device EXCEPT ![s] = at]
        /\ ctx' = [ctx EXCEPT ![s].xhci = s]
        /\ UNCHANGED failures
     \/ /\ MayFail \/ at \notin plugged \/ ~port[at].enabled
        /\ failures' = IF at \in plugged /\ port[at].enabled THEN failures + 1 ELSE failures
        /\ UNCHANGED <<ctx, hcVars>>
  /\ address' = 0
  /\ step' = Decided
  /\ UNCHANGED <<csz, dcbaa, contexts, portVars, bus, at, hub, status, missed, plugs, resets>>

-----------------------------------------------------------------------------
(* The bus driver (not part of this code): a port whose connection changed *)
(* loses its device, a new one is reset and gets an address.               *)

UsbRemoveDevice(p) == [q \in Places |-> IF q \in Under(p) THEN None ELSE bus[q]]

Decide ==
  /\ step = "decide"
  /\ IF "connection" \in status.changes
     THEN /\ bus' = UsbRemoveDevice(at)
          /\ step' = IF status.connected THEN "reset" ELSE "rest"
     ELSE step' = "rest" /\ UNCHANGED bus
  /\ at' = IF step' = "rest" THEN None ELSE at
  /\ UNCHANGED <<slotVars, hcVars, portVars, hub, status, address, missed, counters>>

(* EfiUsbPortReset. A device that is reset has no address.                 *)
XhcResetPort ==
  /\ step = "reset"
  /\ IF at \in plugged /\ PortIsThere(at)
     THEN /\ port' = [port EXCEPT ![at] = [enabled |-> TRUE, changes |-> @.changes \cup {"reset"}]]
          /\ device' = [s \in Slots |-> IF device[s] = at THEN None ELSE device[s]]
     ELSE UNCHANGED <<port, device>>
  /\ step' = "status"
  /\ UNCHANGED <<slotVars, hcSlot, plugged, bus, at, hub, status, address, missed, counters>>

DecideAgain ==
  /\ step = "decideAgain"
  /\ step' = IF status.connected THEN "setAddress" ELSE "rest"
  /\ at' = IF status.connected THEN at ELSE None
  /\ UNCHANGED <<slotVars, hcVars, portVars, bus, hub, status, address, missed, counters>>

FreeAddresses == {a \in Addresses : \A p \in Places : bus[p] # a}

(* SET_ADDRESS in XhcControlTransfer is never sent: the slot of the device *)
(* at address 0 takes the address, disabled slots that have it lose it.    *)
SetAddress ==
  /\ step = "setAddress"
  /\ LET s == XhcBusDevAddrToSlotId(0)
         a == IF FreeAddresses = {} THEN 0 ELSE Min(FreeAddresses)
         cleared == [t \in Slots |-> IF ~ctx[t].enabled /\ ctx[t].id = 0 /\ ctx[t].bus = a
                                     THEN [ctx[t] EXCEPT !.bus = 0] ELSE ctx[t]]
     IN  /\ ctx' = IF s = 0 \/ a = 0 THEN ctx
                   ELSE IF ctx[s].xhci = 0 THEN cleared
                   ELSE [cleared EXCEPT ![s].bus = a]
         /\ IF s # 0 /\ a # 0 /\ ctx[s].xhci # 0
            THEN step' = "describe" /\ address' = a /\ at' = at
            ELSE step' = "rest" /\ address' = 0 /\ at' = None
  /\ UNCHANGED <<csz, dcbaa, contexts, hcVars, portVars, bus, hub, status, missed, counters>>

(* The descriptors are read; a device that does not answer is given up.    *)
Describe ==
  /\ step = "describe"
  /\ LET answers == \E p \in Places : Reaches(XhcBusDevAddrToSlotId(address), p) IN
     \/ answers /\ bus' = [bus EXCEPT ![at] = address] /\ UNCHANGED failures
     \/ /\ ~answers \/ MayFail
        /\ failures' = IF answers THEN failures + 1 ELSE failures
        /\ UNCHANGED bus
  /\ step' = "rest" /\ at' = None /\ address' = 0
  /\ UNCHANGED <<slotVars, hcVars, portVars, hub, status, missed, plugs, resets>>

-----------------------------------------------------------------------------
(* XhcReset: the controller and the pool start anew, and the bus driver    *)
(* too. UsbDevContext keeps what it has.                                   *)
XhcReset ==
  /\ step = "rest" /\ resets < MaxResets
  /\ hcSlot' = [s \in Slots |-> "disabled"] /\ device' = [s \in Slots |-> None]
  /\ dcbaa' = {} /\ contexts' = {}
  /\ port' = [p \in Places |-> IF p \in plugged THEN [enabled |-> FALSE, changes |-> {"connection"}]
                               ELSE Quiet]
  /\ bus' = [p \in Places |-> None]
  /\ resets' = resets + 1
  /\ UNCHANGED <<csz, ctx, plugged, step, at, hub, status, address, missed, failures, plugs>>

-----------------------------------------------------------------------------
Driver ==
  \/ \E p \in Places : GetPortStatus(p)
  \/ ClearPortChange \/ PollDisable \/ PollEnableSlot \/ PollAddressDevice
  \/ Decide \/ XhcResetPort \/ DecideAgain \/ SetAddress \/ Describe

Next ==
  \/ \E p \in Places : Plug(p) \/ Unplug(p)
  \/ Driver
  \/ XhcReset

Spec == Init /\ [][Next]_vars

-----------------------------------------------------------------------------
(* Properties.                                                             *)

TypeOK ==
  /\ csz \in {32, 64}
  /\ \A s \in Slots : ctx[s].id \in {0, s} /\ ctx[s].bus \in Addresses \cup {0} /\ ctx[s].xhci \in {0, s}
  /\ dcbaa \subseteq Slots /\ contexts \subseteq Slots \X {32, 64}
  /\ hcSlot \in [Slots -> {"disabled", "enabled", "addressed"}]
  /\ plugged \subseteq Places /\ bus \in [Places -> Addresses \cup {None}]
  /\ failures \in 0 .. MaxFailures /\ plugs \in 0 .. MaxPlugs /\ resets \in 0 .. MaxResets

(* Two slots never have one route, and a device behind a hub has a slot    *)
(* only while the hub has one ("ASSERT (ParentSlotId != 0);"). After a     *)
(* reset the entries of before are left, and overwritten one by one.       *)
RoutesUnique ==
  \A s, t \in Slots : InUse(s) /\ InUse(t) /\ ctx[s].route = ctx[t].route => s = t

NoOrphans ==
  resets = 0 => \A s \in Slots : InUse(s) /\ Len(ctx[s].route) > 1 => XhcRouteStringToSlotId(ctx[s].parent) # 0

(* The controller has the context of every slot that addresses a device,   *)
(* and the memory is still allocated; no entry of the DCBAA points to      *)
(* memory that was freed.                                                  *)
NoFreedContext ==
  /\ \A s \in dcbaa : <<s, csz>> \in contexts
  /\ \A s \in Slots : hcSlot[s] = "addressed" => s \in dcbaa

(* When nothing fails a slot, its entry and its contexts live and die      *)
(* together: no slot and no memory is lost.                                *)
NothingLeaks ==
  failures = 0 /\ resets = 0 =>
    LET used == {s \in Slots : InUse(s)} IN
    /\ contexts = {<<s, csz>> : s \in used}
    /\ dcbaa = used
    /\ {s \in Slots : hcSlot[s] # "disabled"} = used

(* A low or full speed device uses the translator of the last high speed   *)
(* hub above it, which has a slot.                                         *)
PlaceOfRoute(r) == CHOOSE p \in Places : Route(p) = r

HighSpeedHub(p) ==
  {n \in 1 .. Len(p) - 1 :
     /\ Speed[SubSeq(p, 1, n)] = "high"
     /\ \A m \in n + 1 .. Len(p) : Speed[SubSeq(p, 1, m)] \in {"low", "full"}}

TranslatorIsThere ==
  \A s \in Slots : InUse(s) /\ device[s] # None =>
    LET p == device[s] IN
    IF HighSpeedHub(p) = {} THEN ctx[s].tt = NoTT
    ELSE LET n == Max(HighSpeedHub(p)) IN
         ctx[s].tt = [hub |-> XhcRouteStringToSlotId(Route(SubSeq(p, 1, n))), port |-> p[n + 1]]

(* The driver's slots, the contexts and the controller's slots agree.       *)
SlotInvariant ==
  TypeOK /\ RoutesUnique /\ NoOrphans /\ TranslatorIsThere /\ NoFreedContext /\ NothingLeaks

(* A device that is there, at a port without a change that is still to be  *)
(* seen, has a slot, unless a command failed or its change was missed: no  *)
(* slot was free then, or the change came after the first status was read  *)
(* and before the last was cleared.                                        *)
DevicesHaveSlots ==
  failures = 0 /\ resets = 0 /\ step = "rest" =>
    \A p \in plugged \ missed :
      port[p].changes = {} => XhcRouteStringToSlotId(Route(p)) # 0
=============================================================================
