--------------------------- MODULE XhciEndpoints ---------------------------
(***************************************************************************)
(* The endpoints of one device of the XHCI driver. XhcControlTransfer      *)
(* looks at the requests that pass: it keeps the descriptors it sees, and  *)
(* after a SET_CONFIGURATION or a SET_INTERFACE that the device accepted,  *)
(* it makes the transfer rings and tells the controller which endpoints    *)
(* there are now. A step is a command to the controller, or what the       *)
(* driver does between two of them; the controller executes the rings it   *)
(* knows at any time.                                                      *)
(***************************************************************************)
EXTENDS Integers, FiniteSetsExt

CONSTANTS
  Interfaces,    \* interfaces of the device
  Settings,      \* alternate settings, 0 among them
  Endpoints,     \* interface, setting: the DCIs of its endpoints
  Isochronous,   \* DCIs that get no ring
  MaxConfigs,    \* bound: SET_CONFIGURATION requests
  MaxReads,      \* bound: reads of the configuration descriptor
  MaxSets,       \* bound: SET_INTERFACE requests
  MaxFailures    \* bound: commands that fail

ASSUME EndpointsAssumption ==
  /\ 0 \in Settings
  /\ Endpoints \in [Interfaces \X Settings -> SUBSET (2 .. 31)]
  /\ \A i, j \in Interfaces : \A a, b \in Settings :
       i # j => Endpoints[i, a] \cap Endpoints[j, b] = {}
  /\ {MaxConfigs, MaxReads, MaxSets, MaxFailures} \subseteq Nat

Dcis == UNION {Endpoints[x] : x \in Interfaces \X Settings}

VARIABLES
  csz,          \* the size of the contexts of this controller
  desc,         \* DevDesc: nothing, its first eight bytes, all of it
  confDesc,     \* ConfDesc[0] is there
  active,       \* ActiveConfiguration
  alt,          \* ActiveAlternateSetting
  ring,         \* EndpointTransferRing: the number of the ring, 0 for none
  used,         \* endpoints with TRBs written to their ring
  allocated,    \* rings whose memory is allocated
  rings,        \* rings made so far
  hc,           \* controller: each endpoint
  slot,         \* controller: the slot context
  devConf,      \* device: it is configured
  devAlt,       \* device: its setting of each interface
  pc, iface, setting, left, drop,    \* XhcSetInterface: endpoints to stop, to drop
  configs, reads, sets, failures

descVars == <<desc, confDesc, active, alt>>
ringVars == <<ring, used, allocated, rings>>
hcVars == <<hc, slot>>
deviceVars == <<devConf, devAlt>>
callVars == <<pc, iface, setting, left, drop>>
counters == <<configs, reads, sets, failures>>
vars == <<csz, descVars, ringVars, hcVars, deviceVars, callVars, counters>>

(* `behind`: the controller starts over on a ring that was used.           *)
Off == [on |-> FALSE, stopped |-> FALSE, ring |-> 0, behind |-> FALSE]

Current == UNION {Endpoints[i, devAlt[i]] : i \in Interfaces}

MaxDci(dcis) == IF dcis = {} THEN 0 ELSE Max(dcis)

Init ==
  /\ csz \in {32, 64}
  /\ desc = "none" /\ confDesc = FALSE /\ active = 0 /\ alt = [i \in Interfaces |-> 0]
  /\ ring = [d \in Dcis |-> 0] /\ used = {} /\ allocated = {} /\ rings = 0
  /\ hc = [d \in Dcis |-> Off] /\ slot = [entries |-> 1, evaluated |-> FALSE, hub |-> FALSE]
  /\ devConf = FALSE /\ devAlt = [i \in Interfaces |-> 0]
  /\ pc = "rest" /\ iface = Min(Interfaces) /\ setting = 0 /\ left = {} /\ drop = {}
  /\ configs = 0 /\ reads = 0 /\ sets = 0 /\ failures = 0

(* A command fails as often as the bound allows, or for a reason.          *)
Fails(reason) ==
  \/ reason /\ UNCHANGED failures
  \/ failures < MaxFailures /\ failures' = failures + 1

-----------------------------------------------------------------------------
(* The descriptors that XhcControlTransfer sees.                           *)

(* Evaluate Context: the packet size of endpoint 0.                        *)
EvaluateEndpoint0 ==
  \/ slot' = [slot EXCEPT !.evaluated = TRUE] /\ UNCHANGED failures
  \/ Fails(FALSE) /\ UNCHANGED slot

XhcEvaluateContext == csz = 32 /\ EvaluateEndpoint0
XhcEvaluateContext64 == csz = 64 /\ EvaluateEndpoint0

(* A full speed device is first asked for eight bytes. Each time the list  *)
(* of configuration descriptors is made anew, and empty.                   *)
GetDeviceDescriptor ==
  /\ pc = "rest" /\ desc # "full"
  /\ desc' = IF desc = "none" THEN "short" ELSE "full"
  /\ confDesc' = FALSE
  /\ XhcEvaluateContext \/ XhcEvaluateContext64
  /\ UNCHANGED <<csz, active, alt, ringVars, hc, deviceVars, callVars, configs, reads, sets>>

(* All interfaces are taken to have setting 0.                             *)
GetConfigDescriptor ==
  /\ pc = "rest" /\ desc = "full" /\ reads < MaxReads
  /\ confDesc' = TRUE
  /\ alt' = [i \in Interfaces |-> 0]
  /\ reads' = reads + 1
  /\ UNCHANGED <<csz, desc, active, ringVars, hcVars, deviceVars, callVars, configs, sets, failures>>

(* Configure Endpoint for the slot alone: it keeps its Context Entries.    *)
ConfigHub ==
  \/ slot' = [slot EXCEPT !.hub = TRUE] /\ UNCHANGED failures
  \/ Fails(FALSE) /\ UNCHANGED slot

XhcConfigHubContext == csz = 32 /\ ConfigHub
XhcConfigHubContext64 == csz = 64 /\ ConfigHub

GetHubDescriptor ==
  /\ pc = "rest" /\ desc = "full" /\ ~slot.hub
  /\ XhcConfigHubContext \/ XhcConfigHubContext64
  /\ UNCHANGED <<csz, descVars, ringVars, hc, deviceVars, callVars, configs, reads, sets>>

-----------------------------------------------------------------------------
(* XhcInitializeEndpointContext: endpoints without a ring get one, except  *)
(* the isochronous ones; a ring that is there is kept, with what is in it. *)

NewRings(dcis) == {d \in dcis \ Isochronous : ring[d] = 0}

(* The n-th new ring, in the order of the endpoints.                       *)
NumberOf(d, dcis) == rings + Cardinality({e \in NewRings(dcis) : e <= d})

MakeRings(dcis) ==
  /\ ring' = [d \in Dcis |-> IF d \in NewRings(dcis) THEN NumberOf(d, dcis) ELSE ring[d]]
  /\ allocated' = allocated \cup {NumberOf(d, dcis) : d \in NewRings(dcis)}
  /\ rings' = rings + Cardinality(NewRings(dcis))
  /\ UNCHANGED used

(* The context of an endpoint points to the start of its ring.             *)
EndpointContext(d) == [on |-> TRUE, stopped |-> FALSE, ring |-> ring'[d], behind |-> d \in used]

(* The controller, when it accepts a Configure Endpoint command.           *)
Configured(dropped, added) ==
  [d \in Dcis |-> IF d \in added THEN EndpointContext(d) ELSE IF d \in dropped THEN Off ELSE hc[d]]

XhcInitializeEndpointContext(dcis) == csz = 32 /\ MakeRings(dcis)
XhcInitializeEndpointContext64(dcis) == csz = 64 /\ MakeRings(dcis)

(* SET_CONFIGURATION: the endpoints of setting 0 of all interfaces. The    *)
(* controller may reject endpoints that are on already.                    *)
SetConfig ==
  LET added == UNION {Endpoints[i, 0] : i \in Interfaces} IN
  /\ pc = "rest" /\ confDesc /\ configs < MaxConfigs
  /\ configs' = configs + 1
  /\ devConf' = TRUE /\ devAlt' = [i \in Interfaces |-> 0]
  /\ XhcInitializeEndpointContext(added) \/ XhcInitializeEndpointContext64(added)
  /\ \/ /\ hc' = Configured({}, added)
        /\ slot' = [slot EXCEPT !.entries = MaxDci(added)]
        /\ active' = 1
        /\ UNCHANGED failures
     \/ /\ Fails(\E d \in added : hc[d].on)
        /\ UNCHANGED <<hcVars, active>>
  /\ UNCHANGED <<csz, desc, confDesc, alt, callVars, reads, sets>>

XhcSetConfigCmd == csz = 32 /\ SetConfig
XhcSetConfigCmd64 == csz = 64 /\ SetConfig

-----------------------------------------------------------------------------
(* SET_INTERFACE. Nothing is done for the setting the driver thinks is     *)
(* active.                                                                 *)
SetInterface(i, a) ==
  /\ pc = "rest" /\ confDesc /\ active = 1 /\ sets < MaxSets
  /\ sets' = sets + 1
  /\ devAlt' = [devAlt EXCEPT ![i] = a]
  /\ IF alt[i] = a THEN UNCHANGED callVars
     ELSE /\ iface' = i /\ setting' = a /\ left' = Endpoints[i, alt[i]] /\ drop' = {}
          /\ pc' = IF left' = {} THEN "configure" ELSE "stop"
  /\ UNCHANGED <<csz, descVars, ringVars, hcVars, devConf, configs, reads, failures>>

Stopped(d) == [hc EXCEPT ![d].stopped = TRUE]

(* XhcStopEndpoint fails for an endpoint that is not running; XhcSetInter- *)
(* face then gives up where it is.                                         *)
StopEndpoint ==
  LET d == Min(left) IN
  /\ pc = "stop"
  /\ \/ /\ hc[d].on /\ ~hc[d].stopped
        /\ hc' = Stopped(d)
        /\ pc' = "free"
        /\ UNCHANGED failures
     \/ /\ Fails(~hc[d].on \/ hc[d].stopped)
        /\ pc' = "rest"
        /\ UNCHANGED hc
  /\ UNCHANGED <<csz, descVars, ringVars, slot, deviceVars, iface, setting, left, drop, configs, reads, sets>>

(* Mutant: the driver keeps the address of the ring.                       *)
RingKept(d) == ring

RingGone(d) == [ring EXCEPT ![d] = 0]

FreeRing ==
  LET d == Min(left) IN
  /\ pc = "free"
  /\ allocated' = allocated \ {ring[d]}
  /\ ring' = RingGone(d)
  /\ used' = {e \in used : ring'[e] # 0}
  /\ left' = left \ {d}
  /\ drop' = drop \cup {d}
  /\ pc' = IF left' = {} THEN "configure" ELSE "stop"
  /\ UNCHANGED <<csz, descVars, rings, hcVars, deviceVars, iface, setting, counters>>

(* Mutant: no endpoint is dropped.                                         *)
NothingDropped == {}

Dropped == drop

(* Context Entries is the highest endpoint of this interface.              *)
ConfigureInterface ==
  LET added == Endpoints[iface, setting] IN
  /\ pc = "configure"
  /\ MakeRings(added)
  /\ \/ /\ hc' = Configured(Dropped, added)
        /\ slot' = [slot EXCEPT !.entries = MaxDci(drop \cup added)]
        /\ alt' = [alt EXCEPT ![iface] = setting]
        /\ UNCHANGED failures
     \/ /\ Fails(\E d \in added \ drop : hc[d].on)
        /\ UNCHANGED <<hcVars, alt>>
  /\ pc' = "rest" /\ left' = {} /\ drop' = {}
  /\ UNCHANGED <<csz, desc, confDesc, active, deviceVars, iface, setting, configs, reads, sets>>

Stepping == StopEndpoint \/ FreeRing \/ ConfigureInterface
XhcSetInterface == csz = 32 /\ Stepping
XhcSetInterface64 == csz = 64 /\ Stepping

-----------------------------------------------------------------------------
(* The driver of the device transfers on an endpoint it has: a TRB is      *)
(* written and the doorbell rung.                                          *)
UsbTransfer(d) ==
  /\ pc = "rest" /\ devConf /\ d \in Current
  /\ ring[d] # 0
  /\ used' = used \cup {d}
  /\ hc' = IF hc[d].on THEN [hc EXCEPT ![d].stopped = FALSE] ELSE hc
  /\ UNCHANGED <<csz, descVars, ring, allocated, rings, slot, deviceVars, callVars, counters>>

Next ==
  \/ GetDeviceDescriptor \/ GetConfigDescriptor \/ GetHubDescriptor
  \/ XhcSetConfigCmd \/ XhcSetConfigCmd64
  \/ \E i \in Interfaces, a \in Settings : SetInterface(i, a)
  \/ XhcSetInterface \/ XhcSetInterface64
  \/ \E d \in Dcis : UsbTransfer(d)

Spec == Init /\ [][Next]_vars

-----------------------------------------------------------------------------
(* Properties.                                                             *)

TypeOK ==
  /\ desc \in {"none", "short", "full"} /\ active \in {0, 1}
  /\ alt \in [Interfaces -> Settings] /\ devAlt \in [Interfaces -> Settings]
  /\ ring \in [Dcis -> 0 .. rings] /\ used \subseteq Dcis /\ allocated \subseteq 1 .. rings
  /\ left \subseteq Dcis /\ drop \subseteq Dcis
  /\ pc \in {"rest", "stop", "free", "configure"}

(* Every ring that is allocated is the ring of one endpoint, and every     *)
(* endpoint that has a ring has one that is allocated, whatever fails.     *)
RingsOwned ==
  /\ allocated = {ring[d] : d \in Dcis} \ {0}
  /\ \A d, e \in Dcis : ring[d] = ring[e] /\ ring[d] # 0 => d = e

(* The usual sequence: the descriptor is read once, the configuration set  *)
(* once, and no command fails.                                             *)
Orderly == reads <= 1 /\ configs <= 1 /\ failures = 0

(* The controller does not execute a ring whose memory was freed.          *)
NoFreedRing ==
  Orderly => \A d \in Dcis : hc[d].on /\ ~hc[d].stopped => hc[d].ring \in allocated \cup {0}

(* Between the calls the endpoints that are on are those of the settings   *)
(* the device has, each on the ring the driver writes to.                  *)
EndpointsMatch ==
  Orderly /\ pc = "rest" =>
    /\ {d \in Dcis : hc[d].on} = IF devConf THEN Current ELSE {}
    /\ \A d \in Dcis : hc[d].on => hc[d].ring = ring[d]
    /\ \A i \in Interfaces : alt[i] = devAlt[i]

(* The controller does not start over on a ring that was used, where it    *)
(* would find the TRBs of transfers that are done.                         *)
NoReplay == Orderly => \A d \in Dcis : ~hc[d].behind

(* Rings belong to their endpoints while the controller can run them.      *)
EndpointsInvariant == TypeOK /\ RingsOwned /\ NoFreedRing /\ NoReplay
=============================================================================
