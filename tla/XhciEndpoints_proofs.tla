------------------------ MODULE XhciEndpoints_proofs ------------------------
(***************************************************************************)
(* Proofs about XhciEndpoints for any interfaces, settings, endpoints and  *)
(* bounds: each ring has one endpoint, whatever fails, and in the usual    *)
(* sequence the controller runs the rings the driver writes to and the     *)
(* settings the device has.                                                *)
(*                                                                         *)
(* The endpoints the controller knows are those of the settings the driver *)
(* takes for active. In a SET_INTERFACE they differ from those of the      *)
(* device by one interface, whose endpoints the driver stops one by one.   *)
(***************************************************************************)
EXTENDS XhciEndpoints, FiniteSetTheorems, WellFoundedInduction, TLAPS

(* Endpoint d is one of those of the settings in the driver's record.      *)
Known(d) == \E i \in Interfaces : d \in Endpoints[i, alt[i]]

Context == [on : BOOLEAN, stopped : BOOLEAN, ring : Nat, behind : BOOLEAN]

Types ==
  /\ TypeOK /\ csz \in {32, 64} /\ rings \in Nat
  /\ confDesc \in BOOLEAN /\ devConf \in BOOLEAN
  /\ hc \in [Dcis -> Context]
  /\ configs \in Nat /\ reads \in Nat /\ sets \in Nat /\ failures \in Nat

(* Where a call is: what it works on.                                      *)
Called ==
  /\ pc # "rest" => devConf /\ iface \in Interfaces /\ setting \in Settings /\ devAlt[iface] = setting
  /\ pc \in {"stop", "free"} => left # {}
  /\ pc = "configure" => left = {}

(* A TRB is written only to a ring.                                        *)
UsedHaveRings == \A d \in used : ring[d] # 0

(* A device is configured after its descriptor was read, and the driver    *)
(* has done nothing with its endpoints before.                             *)
Sequenced ==
  /\ confDesc => reads # 0
  /\ devConf => reads # 0 /\ configs # 0
  /\ active = 1 => devConf
  /\ ~devConf =>
       /\ alt = [i \in Interfaces |-> 0] /\ devAlt = alt /\ used = {} /\ drop = {}
       /\ \A d \in Dcis : ring[d] = 0 /\ hc[d] = Off

(* The settings of the driver are those of the device, except for the      *)
(* interface that is worked on.                                            *)
SettingsAgree == \A i \in Interfaces : pc = "rest" \/ i # iface => alt[i] = devAlt[i]

(* The endpoints with a ring, and the ones that are on, are known; an      *)
(* endpoint that is on has the ring of the driver unless it is to be       *)
(* dropped.                                                                *)
KnownEndpoints ==
  \A d \in Dcis :
    /\ hc[d].on <=> Known(d)
    /\ ring[d] # 0 => Known(d)
    /\ hc[d].on /\ d \notin drop => hc[d].ring = ring[d]
    /\ ~hc[d].behind

(* What is to be dropped has no ring any more and is stopped, as is the    *)
(* endpoint whose ring is freed next.                                      *)
Stopping == drop \cup (IF pc = "free" THEN {Min(left)} ELSE {})

StoppedFirst ==
  /\ pc = "rest" => drop = {}
  /\ pc # "rest" => left \cup drop = Endpoints[iface, alt[iface]] /\ left \cap drop = {}
  /\ \A d \in drop : ring[d] = 0
  /\ \A d \in Dcis : hc[d].stopped <=> d \in Stopping

OrderlyOnce == SettingsAgree /\ KnownEndpoints /\ StoppedFirst

Always == Types /\ Called /\ UsedHaveRings /\ Sequenced

Inv == Always /\ RingsOwned /\ (Orderly /\ devConf => OrderlyOnce)

-----------------------------------------------------------------------------
(* Endpoints and their numbers.                                            *)

(* All endpoints are DCIs, of which there are 30.                          *)
LEMMA DcisFinite ==
  /\ \A i \in Interfaces, a \in Settings : Endpoints[i, a] \subseteq Dcis
  /\ Dcis \subseteq 2 .. 31
  /\ \A S \in SUBSET Dcis : IsFiniteSet(S) /\ Cardinality(S) \in Nat
<1>1. \A i \in Interfaces, a \in Settings : Endpoints[i, a] \subseteq Dcis
  BY DEF Dcis
<1>2. Dcis \subseteq 2 .. 31
  <2>1. \A x \in Interfaces \X Settings : Endpoints[x] \subseteq 2 .. 31
    BY EndpointsAssumption
  <2> QED
    BY <2>1 DEF Dcis
<1>3. ASSUME NEW S \in SUBSET Dcis PROVE IsFiniteSet(S) /\ Cardinality(S) \in Nat
  <2>1. IsFiniteSet(2 .. 31)
    <3>1. 2 \in Int /\ 31 \in Int
      OBVIOUS
    <3> QED
      BY <3>1, FS_Interval
  <2>2. S \in SUBSET (2 .. 31)
    BY <1>2
  <2>3. IsFiniteSet(S)
    BY <2>1, <2>2, FS_Subset
  <2> QED
    BY <2>3, FS_CardinalityType
<1> QED
  BY <1>1, <1>2, <1>3

(* The endpoint that is stopped next is one of those left.                 *)
LEMMA MinOfSet ==
  ASSUME NEW S \in SUBSET Dcis, S # {}
  PROVE  Min(S) \in S
<1> DEFINE R == {p \in Nat \X Nat : p[1] < p[2]}
<1>1. IsWellFoundedOn(R, Nat)
  BY NatLessThanWellFounded DEF OpToRel
<1>2. S \subseteq Nat
  <2>1. S \subseteq 2 .. 31
    BY DcisFinite
  <2> QED
    BY <2>1
<1>3. PICK x \in S : \A y \in S : <<y, x>> \notin R
  BY <1>1, <1>2, WFMin
<1>4. \A y \in S : x <= y
  <2>1. ASSUME NEW y \in S PROVE x <= y
    <3>1. x \in Nat /\ y \in Nat /\ <<y, x>> \notin R
      BY <1>2, <1>3
    <3> QED
      BY <3>1
  <2> QED
    BY <2>1
<1> QED
  BY <1>4 DEF Min

(* The new rings are numbered from the number of the last ring, each once. *)
LEMMA NewRingNumbers ==
  ASSUME Types, NEW dcis \in SUBSET Dcis
  PROVE  /\ NewRings(dcis) \subseteq dcis /\ Cardinality(NewRings(dcis)) \in Nat
         /\ \A d \in NewRings(dcis) :
              /\ NumberOf(d, dcis) \in Nat
              /\ NumberOf(d, dcis) > rings
              /\ NumberOf(d, dcis) <= rings + Cardinality(NewRings(dcis))
         /\ \A d, e \in NewRings(dcis) : NumberOf(d, dcis) = NumberOf(e, dcis) => d = e
<1> DEFINE New == NewRings(dcis)
           UpTo(d) == {e \in New : e <= d}
<1>1. New \in SUBSET Dcis /\ New \subseteq dcis /\ New \subseteq 2 .. 31
  BY DcisFinite DEF NewRings
<1>2. \A d : UpTo(d) \in SUBSET New
  OBVIOUS
<1>3. IsFiniteSet(New) /\ Cardinality(New) \in Nat
  BY <1>1, DcisFinite
<1>4. \A d : IsFiniteSet(UpTo(d)) /\ Cardinality(UpTo(d)) \in Nat /\ Cardinality(UpTo(d)) <= Cardinality(New)
  <2>1. ASSUME NEW d PROVE IsFiniteSet(UpTo(d)) /\ Cardinality(UpTo(d)) <= Cardinality(New)
    BY <1>2, <1>3, FS_Subset
  <2>2. ASSUME NEW d PROVE Cardinality(UpTo(d)) \in Nat
    BY <2>1, FS_CardinalityType
  <2> QED
    BY <2>1, <2>2
<1>5. \A d \in New : d \in UpTo(d)
  BY <1>1
<1>6. \A d \in New : Cardinality(UpTo(d)) # 0
  <2>1. ASSUME NEW d \in New, Cardinality(UpTo(d)) = 0 PROVE FALSE
    <3>1. UpTo(d) = {}
      BY <1>4, <2>1, FS_EmptySet
    <3> QED
      BY <1>5, <3>1
  <2> QED
    BY <2>1
<1>7. \A d, e \in New : Cardinality(UpTo(d)) = Cardinality(UpTo(e)) => d = e
  <2>1. ASSUME NEW d \in New, NEW e \in New, d < e, Cardinality(UpTo(d)) = Cardinality(UpTo(e)) PROVE FALSE
    <3>1. UpTo(d) \in SUBSET UpTo(e)
      BY <1>1, <2>1
    <3>2. UpTo(e) = UpTo(d)
      <4>1. IsFiniteSet(UpTo(e))
        BY <1>4
      <4> QED
        BY <2>1, <3>1, <4>1, FS_Subset
    <3>3. e \in UpTo(d)
      BY <1>5, <3>2
    <3> QED
      BY <1>1, <2>1, <3>3
  <2> QED
    BY <1>1, <2>1
<1>8. \A d : NumberOf(d, dcis) = rings + Cardinality(UpTo(d))
  BY DEF NumberOf
<1>9. rings \in Nat
  BY DEF Types
<1> HIDE DEF New, UpTo
<1>10. \A d \in New : /\ NumberOf(d, dcis) \in Nat /\ NumberOf(d, dcis) > rings
                      /\ NumberOf(d, dcis) <= rings + Cardinality(New)
  BY <1>3, <1>4, <1>6, <1>8, <1>9
<1>11. \A d, e \in New : NumberOf(d, dcis) = NumberOf(e, dcis) => d = e
  <2>1. ASSUME NEW d \in New, NEW e \in New, NumberOf(d, dcis) = NumberOf(e, dcis) PROVE d = e
    <3>1. Cardinality(UpTo(d)) = Cardinality(UpTo(e))
      BY <1>4, <1>8, <1>9, <2>1
    <3> QED
      BY <1>7, <3>1
  <2> QED
    BY <2>1
<1> QED
  BY <1>1, <1>3, <1>10, <1>11 DEF New

(* Making rings keeps the ones that are there, and who owns them.          *)
LEMMA RingsMade ==
  ASSUME Types, RingsOwned, NEW dcis \in SUBSET Dcis, MakeRings(dcis)
  PROVE  /\ rings' \in Nat /\ ring' \in [Dcis -> 0 .. rings'] /\ allocated' \subseteq 1 .. rings'
         /\ RingsOwned'
         /\ \A d \in Dcis : d \notin dcis \/ ring[d] # 0 => ring'[d] = ring[d]
<1> DEFINE New == NewRings(dcis)
           N(d) == NumberOf(d, dcis)
<1>1. New \subseteq dcis /\ Cardinality(New) \in Nat
  BY NewRingNumbers
<1>2. \A d \in New : N(d) \in Nat /\ N(d) > rings /\ N(d) <= rings + Cardinality(New)
  BY NewRingNumbers
<1>3. \A d, e \in New : N(d) = N(e) => d = e
  BY NewRingNumbers
<1>4. \A d \in New : ring[d] = 0
  BY DEF NewRings
<1>5. ring' = [d \in Dcis |-> IF d \in New THEN N(d) ELSE ring[d]]
  BY DEF MakeRings
<1>6. allocated' = allocated \cup {N(d) : d \in New} /\ rings' = rings + Cardinality(New)
  BY DEF MakeRings
<1>7. rings \in Nat /\ ring \in [Dcis -> 0 .. rings] /\ allocated \subseteq 1 .. rings
  BY DEF Types, TypeOK
<1> HIDE DEF New, N
<1>8. rings' \in Nat /\ rings' >= rings
  BY <1>1, <1>6, <1>7
<1>9. \A d \in Dcis : ring'[d] = IF d \in New THEN N(d) ELSE ring[d]
  BY <1>5
<1>10. \A d \in Dcis : ring[d] \in Nat /\ ring[d] <= rings
  BY <1>7
<1>11. \A d \in Dcis : ring'[d] \in 0 .. rings'
  BY <1>2, <1>6, <1>8, <1>9, <1>10, <1>7, <1>1
<1>12. allocated' \subseteq 1 .. rings'
  <2>1. \A r \in allocated : r \in 1 .. rings'
    BY <1>7, <1>8
  <2>2. \A d \in New : N(d) \in 1 .. rings'
    BY <1>1, <1>2, <1>6, <1>7
  <2> QED
    BY <1>6, <2>1, <2>2
<1>13. allocated' = {ring'[d] : d \in Dcis} \ {0}
  <2>1. \A r : r \in allocated <=> r # 0 /\ \E d \in Dcis : ring[d] = r
    BY DEF RingsOwned
  <2>2. \A d \in New : N(d) # 0
    BY <1>2, <1>7
  <2>3. \A r : r \in allocated' <=> r \in allocated \/ \E d \in New : N(d) = r
    BY <1>6
  <2>4. \A r : r \in allocated' => r # 0 /\ \E d \in Dcis : ring'[d] = r
    BY <1>1, <1>4, <1>9, <2>1, <2>2, <2>3
  <2>5. \A d \in Dcis : ring'[d] # 0 => ring'[d] \in allocated'
    BY <1>9, <2>1, <2>3
  <2> QED
    BY <2>4, <2>5
<1>14. ASSUME NEW d \in Dcis, NEW e \in Dcis, ring'[d] = ring'[e], ring'[d] # 0 PROVE d = e
  <2>1. CASE d \in New /\ e \in New
    BY <1>3, <1>9, <1>14, <2>1
  <2>2. CASE d \in New /\ e \notin New
    BY <1>2, <1>7, <1>9, <1>10, <1>14, <2>2
  <2>3. CASE d \notin New /\ e \in New
    BY <1>2, <1>7, <1>9, <1>10, <1>14, <2>3
  <2>4. CASE d \notin New /\ e \notin New
    BY <1>9, <1>14, <2>4 DEF RingsOwned
  <2> QED
    BY <2>1, <2>2, <2>3, <2>4
<1>15. RingsOwned'
  BY <1>13, <1>14 DEF RingsOwned
<1>16. \A d \in Dcis : d \notin dcis \/ ring[d] # 0 => ring'[d] = ring[d]
  BY <1>1, <1>4, <1>9
<1>17. ring' \in [Dcis -> 0 .. rings']
  BY <1>5, <1>9, <1>11
<1> QED
  BY <1>8, <1>12, <1>15, <1>16, <1>17

-----------------------------------------------------------------------------
(* The steps.                                                              *)

(* The two sizes of contexts make no difference to a step.                 *)
LEMMA Steps ==
  [Next]_vars =>
    \/ GetDeviceDescriptor \/ GetConfigDescriptor \/ GetHubDescriptor \/ SetConfig
    \/ \E i \in Interfaces, a \in Settings : SetInterface(i, a)
    \/ StopEndpoint \/ FreeRing \/ ConfigureInterface
    \/ \E d \in Dcis : UsbTransfer(d)
    \/ UNCHANGED vars
  BY DEF Next, XhcSetConfigCmd, XhcSetConfigCmd64, XhcSetInterface, XhcSetInterface64, Stepping

(* The invariant holds before anything is done.                            *)
LEMMA InvInit == Init => Inv
<1> SUFFICES ASSUME Init PROVE Inv
  OBVIOUS
<1>1. Types
  <2>1. hc \in [Dcis -> Context]
    BY DEF Init, Context, Off
  <2>2. ring \in [Dcis -> 0 .. rings] /\ allocated \subseteq 1 .. rings
    BY DEF Init
  <2>3. alt \in [Interfaces -> Settings] /\ devAlt \in [Interfaces -> Settings]
    BY EndpointsAssumption DEF Init
  <2>4. TypeOK
    BY <2>2, <2>3 DEF Init, TypeOK
  <2> QED
    BY <2>1, <2>4 DEF Init, Types
<1>2. Called /\ UsedHaveRings /\ Sequenced
  BY DEF Init, Called, UsedHaveRings, Sequenced
<1>3. RingsOwned
  BY DEF Init, RingsOwned
<1> QED
  BY <1>1, <1>2, <1>3 DEF Init, Inv, Always

(* The descriptors: settings go back to 0 only while nothing is            *)
(* configured, in the usual sequence.                                      *)
LEMMA InvDescriptors ==
  ASSUME Inv, GetDeviceDescriptor \/ GetConfigDescriptor \/ GetHubDescriptor
  PROVE  Inv'
<1>1. pc = "rest" /\ UNCHANGED <<csz, active, ringVars, hc, deviceVars, callVars, configs, sets>>
  BY DEF GetDeviceDescriptor, GetConfigDescriptor, GetHubDescriptor, descVars, hcVars
<1>2. /\ desc' = desc \/ desc' \in {"short", "full"}
      /\ confDesc' = FALSE \/ confDesc' = confDesc \/ (confDesc' = TRUE /\ reads' = reads + 1)
  <2>1. CASE GetDeviceDescriptor
    BY <2>1 DEF GetDeviceDescriptor
  <2>2. CASE GetConfigDescriptor
    BY <2>2 DEF GetConfigDescriptor
  <2>3. CASE GetHubDescriptor
    BY <2>3 DEF GetHubDescriptor, descVars
  <2> QED
    BY <2>1, <2>2, <2>3
<1>3. failures' = failures \/ failures' = failures + 1
  BY DEF GetDeviceDescriptor, GetConfigDescriptor, GetHubDescriptor, XhcEvaluateContext,
         XhcEvaluateContext64, EvaluateEndpoint0, XhcConfigHubContext, XhcConfigHubContext64,
         ConfigHub, Fails
<1>4. \/ (alt' = alt /\ reads' = reads)
      \/ (alt' = [i \in Interfaces |-> 0] /\ reads' = reads + 1)
  BY DEF GetDeviceDescriptor, GetConfigDescriptor, GetHubDescriptor, descVars
<1>5. Types'
  <2>1. failures' \in Nat /\ reads' \in Nat
    BY <1>3, <1>4 DEF Inv, Always, Types
  <2>2. alt' \in [Interfaces -> Settings]
    <3>1. alt \in [Interfaces -> Settings] /\ [i \in Interfaces |-> 0] \in [Interfaces -> Settings]
      BY EndpointsAssumption DEF Inv, Always, Types, TypeOK
    <3> QED
      BY <1>4, <3>1
  <2>3. TypeOK'
    <3>1. TypeOK
      BY DEF Inv, Always, Types
    <3> QED
      BY <1>1, <1>2, <2>2, <3>1 DEF TypeOK, ringVars, deviceVars, callVars
  <2>4. confDesc' \in BOOLEAN
    BY <1>2 DEF Inv, Always, Types
  <2> QED
    BY <1>1, <2>1, <2>3, <2>4 DEF Inv, Always, Types, ringVars, deviceVars
<1>6. Called' /\ UsedHaveRings' /\ RingsOwned'
  BY <1>1 DEF Inv, Always, Called, UsedHaveRings, RingsOwned, ringVars, deviceVars, callVars
<1>7. Sequenced'
  <2>1. reads \in Nat /\ (reads' = reads \/ reads' = reads + 1)
    BY <1>4 DEF Inv, Always, Types
  <2>2. (confDesc' => reads' # 0) /\ (devConf' => reads' # 0 /\ configs' # 0)
    BY <1>1, <1>2, <2>1 DEF Inv, Always, Sequenced, Types, deviceVars
  <2>3. ~devConf => alt' = [i \in Interfaces |-> 0]
    BY <1>4 DEF Inv, Always, Sequenced
  <2> QED
    BY <1>1, <2>2, <2>3 DEF Inv, Always, Sequenced, ringVars, deviceVars, callVars
<1>8. ASSUME Orderly', devConf' PROVE OrderlyOnce'
  <2>1. devConf /\ reads # 0 /\ reads \in Nat /\ failures \in Nat
    BY <1>1, <1>8 DEF Inv, Always, Sequenced, Types, deviceVars
  <2>2. reads' <= 1 /\ configs' <= 1 /\ failures' = 0
    BY <1>8 DEF Orderly
  <2>3. alt' = alt /\ reads' = reads
    BY <1>4, <2>1, <2>2
  <2>4. failures = 0
    BY <1>3, <2>1, <2>2
  <2>5. OrderlyOnce
    BY <1>1, <2>1, <2>2, <2>3, <2>4 DEF Inv, Orderly
  <2> QED
    BY <1>1, <2>3, <2>5 DEF OrderlyOnce, SettingsAgree, KnownEndpoints, StoppedFirst, Known, Stopping,
       ringVars, deviceVars, callVars
<1> QED
  BY <1>5, <1>6, <1>7, <1>8 DEF Inv, Always

(* What the controller knows after a Configure Endpoint command.           *)
LEMMA ConfiguredContexts ==
  ASSUME Types, NEW dropped, NEW added,
         rings' \in Nat, ring' \in [Dcis -> 0 .. rings'], hc' = Configured(dropped, added)
  PROVE  /\ hc' \in [Dcis -> Context]
         /\ \A d \in Dcis : d \in added =>
              /\ hc'[d].on = TRUE /\ hc'[d].stopped = FALSE /\ hc'[d].ring = ring'[d]
              /\ hc'[d].behind <=> d \in used
         /\ \A d \in Dcis : d \notin added /\ d \in dropped => hc'[d] = Off
         /\ \A d \in Dcis : d \notin added /\ d \notin dropped => hc'[d] = hc[d]
<1>1. \A d \in Dcis : EndpointContext(d) \in Context
  BY DEF EndpointContext, Context
<1>2. \A d \in Dcis : hc[d] \in Context /\ Off \in Context
  BY DEF Types, Off, Context
<1>3. hc' \in [Dcis -> Context]
  BY <1>1, <1>2 DEF Configured
<1>4. \A d \in Dcis :
        hc'[d] = IF d \in added THEN EndpointContext(d) ELSE IF d \in dropped THEN Off ELSE hc[d]
  BY DEF Configured
<1>5. ASSUME NEW d \in Dcis, d \in added
      PROVE  /\ hc'[d].on = TRUE /\ hc'[d].stopped = FALSE /\ hc'[d].ring = ring'[d]
             /\ hc'[d].behind <=> d \in used
  <2>1. hc'[d] = EndpointContext(d)
    BY <1>4, <1>5
  <2>2. hc'[d].on = TRUE /\ hc'[d].stopped = FALSE /\ hc'[d].ring = ring'[d]
    BY <2>1 DEF EndpointContext
  <2>3. hc'[d].behind = (d \in used)
    BY <2>1 DEF EndpointContext
  <2> QED
    BY <2>2, <2>3
<1>6. \A d \in Dcis : d \notin added /\ d \in dropped => hc'[d] = Off
  BY <1>4
<1>7. \A d \in Dcis : d \notin added /\ d \notin dropped => hc'[d] = hc[d]
  BY <1>4
<1> QED
  BY <1>3, <1>5, <1>6, <1>7

(* SET_CONFIGURATION: nothing is on and there are no rings the first time. *)
LEMMA InvSetConfig == ASSUME Inv, SetConfig PROVE Inv'
<1> DEFINE added == UNION {Endpoints[i, 0] : i \in Interfaces}
<1>1. added \in SUBSET Dcis
  <2>1. \A i \in Interfaces : Endpoints[i, 0] \subseteq Dcis
    BY DcisFinite, EndpointsAssumption
  <2> QED
    BY <2>1
<1>2. /\ pc = "rest" /\ confDesc /\ configs' = configs + 1
      /\ devConf' = TRUE /\ devAlt' = [i \in Interfaces |-> 0]
      /\ UNCHANGED <<csz, desc, confDesc, alt, callVars, reads, sets>>
  BY DEF SetConfig
<1>3. MakeRings(added)
  BY DEF SetConfig, XhcInitializeEndpointContext, XhcInitializeEndpointContext64
<1>4. \/ (hc' = Configured({}, added) /\ active' = 1 /\ failures' = failures)
      \/ (Fails(\E d \in added : hc[d].on) /\ hc' = hc /\ active' = active)
  BY DEF SetConfig, hcVars
<1> HIDE DEF added
<1>5. /\ rings' \in Nat /\ ring' \in [Dcis -> 0 .. rings'] /\ allocated' \subseteq 1 .. rings'
      /\ RingsOwned'
      /\ \A d \in Dcis : d \notin added \/ ring[d] # 0 => ring'[d] = ring[d]
  BY <1>1, <1>3, RingsMade DEF Inv, Always
<1>6. used' = used
  BY <1>3 DEF MakeRings
<1>7. failures' \in Nat
  BY <1>4 DEF Fails, Inv, Always, Types
<1>8. hc' = Configured({}, added) => hc' \in [Dcis -> Context]
  BY <1>5, ConfiguredContexts DEF Inv, Always
<1>9. Types'
  <2>1. TypeOK'
    <3>1. TypeOK /\ devAlt' \in [Interfaces -> Settings]
      BY <1>2, EndpointsAssumption DEF Inv, Always, Types
    <3>2. active' \in {0, 1}
      BY <1>4, <3>1 DEF TypeOK
    <3> QED
      BY <1>2, <1>5, <1>6, <3>1, <3>2 DEF TypeOK, callVars
  <2>2. hc' \in [Dcis -> Context]
    BY <1>4, <1>8 DEF Inv, Always, Types
  <2> QED
    BY <1>2, <1>5, <1>7, <2>1, <2>2 DEF Inv, Always, Types
<1>10. Called' /\ UsedHaveRings'
  <2>1. UsedHaveRings'
    BY <1>5, <1>6 DEF Inv, Always, UsedHaveRings, Types, TypeOK
  <2> QED
    BY <1>2, <2>1 DEF Inv, Always, Called, callVars
<1>11. Sequenced'
  BY <1>2 DEF Inv, Always, Types, Sequenced
<1>12. ASSUME Orderly', devConf' PROVE OrderlyOnce'
  <2>1. configs + 1 <= 1 /\ failures' = 0 /\ configs \in Nat /\ failures \in Nat
    BY <1>2, <1>12 DEF Orderly, Inv, Always, Types
  <2>2. ~devConf
    <3>1. configs = 0
      BY <2>1
    <3> QED
      BY <3>1 DEF Inv, Always, Sequenced
  <2>3. /\ alt = [i \in Interfaces |-> 0] /\ used = {} /\ drop = {}
        /\ \A d \in Dcis : ring[d] = 0 /\ hc[d] = Off
    BY <2>2 DEF Inv, Always, Sequenced
  <2>4. ~\E d \in added : hc[d].on
    BY <1>1, <2>3 DEF Off
  <2>5. hc' = Configured({}, added)
    BY <1>4, <2>1, <2>4 DEF Fails
  <2>6. /\ \A d \in Dcis : d \in added =>
             /\ hc'[d].on = TRUE /\ hc'[d].stopped = FALSE /\ hc'[d].ring = ring'[d]
             /\ hc'[d].behind <=> d \in used
        /\ \A d \in Dcis : d \notin added => hc'[d] = hc[d]
    BY <1>5, <2>5, ConfiguredContexts DEF Inv, Always
  <2>13. \A d \in Dcis : ~hc[d].on /\ ~hc[d].behind /\ hc[d].stopped = FALSE
    BY <2>3 DEF Off
  <2>7. \A d \in Dcis : Known(d)' <=> d \in added
    BY <1>2, <2>3 DEF Known, added
  <2>8. KnownEndpoints'
    <3>1. \A d \in Dcis : d \in added => hc'[d].on /\ hc'[d].ring = ring'[d] /\ ~hc'[d].behind
      BY <2>3, <2>6
    <3>2. \A d \in Dcis : d \notin added => ~hc'[d].on /\ ~hc'[d].behind /\ ring'[d] = 0
      BY <1>5, <2>3, <2>6, <2>13
    <3> QED
      BY <2>7, <3>1, <3>2 DEF KnownEndpoints
  <2>9. SettingsAgree'
    BY <1>2, <2>3 DEF SettingsAgree
  <2>10. drop' = {} /\ pc' = "rest"
    BY <1>2, <2>3 DEF callVars
  <2>11. \A d \in Dcis : hc'[d].stopped = FALSE
    BY <2>6, <2>13
  <2>12. StoppedFirst'
    BY <2>10, <2>11 DEF StoppedFirst, Stopping
  <2> QED
    BY <2>8, <2>9, <2>12 DEF OrderlyOnce
<1> QED
  BY <1>5, <1>9, <1>10, <1>11, <1>12 DEF Inv, Always

(* SET_INTERFACE: a call begins, unless the driver has the setting already. *)
LEMMA InvSetInterface ==
  ASSUME Inv, NEW i \in Interfaces, NEW a \in Settings, SetInterface(i, a)
  PROVE  Inv'
<1>1. /\ pc = "rest" /\ active = 1 /\ sets' = sets + 1
      /\ devAlt' = [devAlt EXCEPT ![i] = a]
      /\ UNCHANGED <<csz, descVars, ringVars, hcVars, devConf, configs, reads, failures>>
  BY DEF SetInterface
<1>2. \/ (alt[i] = a /\ UNCHANGED callVars)
      \/ /\ iface' = i /\ setting' = a /\ left' = Endpoints[i, alt[i]] /\ drop' = {}
         /\ pc' = IF left' = {} THEN "configure" ELSE "stop"
  BY DEF SetInterface
<1>3. TypeOK /\ Types /\ Called /\ UsedHaveRings /\ Sequenced /\ RingsOwned /\ devConf
  BY <1>1 DEF Inv, Always, Types, Sequenced
<1>4. alt \in [Interfaces -> Settings] /\ devAlt \in [Interfaces -> Settings]
  BY <1>3 DEF TypeOK
<1>5. /\ devAlt' \in [Interfaces -> Settings] /\ devAlt'[i] = a
      /\ \A j \in Interfaces : j # i => devAlt'[j] = devAlt[j]
  BY <1>1, <1>4
<1>6. Endpoints[i, alt[i]] \subseteq Dcis
  BY <1>4, DcisFinite
<1>7. TypeOK'
  BY <1>1, <1>2, <1>3, <1>5, <1>6 DEF TypeOK, descVars, ringVars, callVars
<1>8. Types'
  BY <1>1, <1>3, <1>7 DEF Types, descVars, ringVars, hcVars
<1>9. Called'
  BY <1>1, <1>2, <1>3, <1>5 DEF Called, callVars
<1>10. UsedHaveRings' /\ RingsOwned'
  BY <1>1, <1>3 DEF UsedHaveRings, RingsOwned, ringVars
<1>11. Sequenced'
  BY <1>1, <1>3 DEF Sequenced, descVars
<1>12. ASSUME Orderly', devConf' PROVE OrderlyOnce'
  <2>1. Orderly
    BY <1>1, <1>12 DEF Orderly
  <2>2. SettingsAgree /\ KnownEndpoints /\ StoppedFirst
    BY <1>3, <2>1 DEF Inv, OrderlyOnce
  <2>3. SettingsAgree'
    BY <1>1, <1>2, <1>5, <2>2 DEF SettingsAgree, descVars, callVars
  <2>4. drop = {} /\ drop' = {}
    BY <1>1, <1>2, <2>2 DEF StoppedFirst, callVars
  <2>5. KnownEndpoints'
    BY <1>1, <2>2, <2>4 DEF KnownEndpoints, Known, descVars, ringVars, hcVars
  <2>6. Stopping = {} /\ Stopping' = {}
    BY <1>1, <1>2, <2>4 DEF Stopping, callVars
  <2>7. StoppedFirst'
    BY <1>1, <1>2, <2>2, <2>4, <2>6 DEF StoppedFirst, descVars, hcVars, callVars
  <2> QED
    BY <2>3, <2>5, <2>7 DEF OrderlyOnce
<1> QED
  BY <1>8, <1>9, <1>10, <1>11, <1>12 DEF Inv, Always

(* An endpoint that is stopped, or runs again, is otherwise as before.     *)
LEMMA StoppedContext ==
  ASSUME Types, NEW d \in Dcis, NEW s \in BOOLEAN, hc' = [hc EXCEPT ![d].stopped = s]
  PROVE  /\ hc' \in [Dcis -> Context]
         /\ \A e \in Dcis : /\ hc'[e].on = hc[e].on /\ hc'[e].ring = hc[e].ring
                            /\ hc'[e].behind = hc[e].behind
                            /\ e # d => hc'[e].stopped = hc[e].stopped
         /\ hc'[d].stopped = s
  BY DEF Types, Context

(* A stopped endpoint is the next one whose ring is freed.                 *)
LEMMA InvStopEndpoint == ASSUME Inv, StopEndpoint PROVE Inv'
<1> DEFINE d == Min(left)
<1>1. /\ pc = "stop"
      /\ UNCHANGED <<csz, descVars, ringVars, slot, deviceVars, iface, setting, left, drop, configs, reads, sets>>
  BY DEF StopEndpoint
<1>2. \/ (hc[d].on /\ ~hc[d].stopped /\ hc' = Stopped(d) /\ pc' = "free" /\ UNCHANGED failures)
      \/ (Fails(~hc[d].on \/ hc[d].stopped) /\ pc' = "rest" /\ hc' = hc)
  BY DEF StopEndpoint
<1>3. TypeOK /\ Types /\ Called /\ UsedHaveRings /\ Sequenced /\ RingsOwned
  BY DEF Inv, Always, Types
<1>4. left \in SUBSET Dcis /\ left # {}
  BY <1>1, <1>3 DEF TypeOK, Called
<1>5. d \in left
  BY <1>4, MinOfSet
<1> HIDE DEF d
<1>6. d \in Dcis
  BY <1>4, <1>5
<1>7. hc' \in [Dcis -> Context]
  BY <1>2, <1>3, <1>6, StoppedContext DEF Stopped, Types
<1>8. failures' \in Nat
  BY <1>2, <1>3 DEF Fails, Types
<1>9. TypeOK'
  BY <1>1, <1>2, <1>3 DEF TypeOK, descVars, ringVars, deviceVars
<1>10. Types'
  BY <1>1, <1>3, <1>7, <1>8, <1>9 DEF Types, descVars, ringVars, deviceVars
<1>11. Called' /\ UsedHaveRings' /\ RingsOwned'
  BY <1>1, <1>2, <1>3 DEF Called, UsedHaveRings, RingsOwned, ringVars, deviceVars
<1>12. Sequenced'
  <2>1. devConf
    BY <1>1, <1>3 DEF Called
  <2> QED
    BY <1>1, <1>3, <2>1 DEF Sequenced, descVars, deviceVars
<1>13. ASSUME Orderly', devConf' PROVE OrderlyOnce'
  <2>1. Orderly /\ failures = 0 /\ failures' = 0
    BY <1>1, <1>2, <1>3, <1>13 DEF Orderly, Fails, Types
  <2>2. SettingsAgree /\ KnownEndpoints /\ StoppedFirst
    BY <1>1, <1>13, <2>1 DEF Inv, OrderlyOnce, deviceVars
  <2>3. d \in Endpoints[iface, alt[iface]] /\ d \notin drop /\ iface \in Interfaces
    BY <1>1, <1>3, <1>5, <2>2 DEF StoppedFirst, Called
  <2>4. hc[d].on
    BY <1>6, <2>2, <2>3 DEF KnownEndpoints, Known
  <2>5. Stopping = drop
    BY <1>1 DEF Stopping
  <2>6. ~hc[d].stopped
    BY <1>6, <2>2, <2>3, <2>5 DEF StoppedFirst
  <2>7. hc' = [hc EXCEPT ![d].stopped = TRUE] /\ pc' = "free"
    BY <1>2, <2>1, <2>4, <2>6 DEF Fails, Stopped
  <2>8. /\ \A e \in Dcis : /\ hc'[e].on = hc[e].on /\ hc'[e].ring = hc[e].ring
                           /\ hc'[e].behind = hc[e].behind
                           /\ e # d => hc'[e].stopped = hc[e].stopped
        /\ hc'[d].stopped = TRUE
    BY <1>3, <1>6, <2>7, StoppedContext
  <2>9. SettingsAgree'
    BY <1>1, <2>2, <2>7 DEF SettingsAgree, descVars, deviceVars
  <2>10. KnownEndpoints'
    BY <1>1, <2>2, <2>8 DEF KnownEndpoints, Known, descVars, ringVars
  <2>11. Stopping' = drop \cup {d}
    BY <1>1, <2>7 DEF Stopping, d
  <2>12. \A e \in Dcis : hc'[e].stopped <=> e \in Stopping'
    BY <2>2, <2>5, <2>8, <2>11 DEF StoppedFirst
  <2>13. StoppedFirst'
    BY <1>1, <2>2, <2>7, <2>12 DEF StoppedFirst, descVars, ringVars
  <2> QED
    BY <2>9, <2>10, <2>13 DEF OrderlyOnce
<1> QED
  BY <1>10, <1>11, <1>12, <1>13 DEF Inv, Always

(* The ring of the stopped endpoint is freed, and the driver forgets it.   *)
LEMMA InvFreeRing == ASSUME Inv, FreeRing PROVE Inv'
<1> DEFINE d == Min(left)
<1>1. /\ pc = "free"
      /\ allocated' = allocated \ {ring[d]} /\ ring' = [ring EXCEPT ![d] = 0]
      /\ used' = {e \in used : ring'[e] # 0}
      /\ left' = left \ {d} /\ drop' = drop \cup {d}
      /\ pc' = IF left' = {} THEN "configure" ELSE "stop"
      /\ UNCHANGED <<csz, descVars, rings, hcVars, deviceVars, iface, setting, counters>>
  BY DEF FreeRing, RingGone
<1>2. TypeOK /\ Types /\ Called /\ UsedHaveRings /\ Sequenced /\ RingsOwned
  BY DEF Inv, Always, Types
<1>3. left \in SUBSET Dcis /\ left # {} /\ devConf
  BY <1>1, <1>2 DEF TypeOK, Called
<1>4. d \in left
  BY <1>3, MinOfSet
<1>d. d = Min(left)
  OBVIOUS
<1> HIDE DEF d
<1>5. d \in Dcis
  BY <1>3, <1>4
<1>6. ring \in [Dcis -> 0 .. rings] /\ allocated \subseteq 1 .. rings /\ rings \in Nat
  BY <1>2 DEF TypeOK, Types
<1>7. ring' \in [Dcis -> 0 .. rings] /\ ring'[d] = 0 /\ \A e \in Dcis : e # d => ring'[e] = ring[e]
  BY <1>1, <1>5, <1>6
<1>8. TypeOK'
  <2>1. used' \subseteq Dcis /\ allocated' \subseteq 1 .. rings'
    BY <1>1, <1>2 DEF TypeOK
  <2>2. left' \subseteq Dcis /\ drop' \subseteq Dcis
    BY <1>1, <1>2, <1>5 DEF TypeOK
  <2> QED
    BY <1>1, <1>2, <1>7, <2>1, <2>2 DEF TypeOK, descVars, deviceVars
<1>9. Types'
  BY <1>1, <1>2, <1>8 DEF Types, descVars, hcVars, deviceVars, counters
<1>10. Called' /\ UsedHaveRings'
  BY <1>1, <1>2 DEF Called, UsedHaveRings, deviceVars
<1>11. Sequenced'
  BY <1>1, <1>2, <1>3 DEF Sequenced, descVars, deviceVars, counters
<1>12. RingsOwned'
  <2>1. \A e \in Dcis : ring[e] # 0 => ring[e] \in allocated
    BY <1>2 DEF RingsOwned
  <2>2. \A r \in allocated : r # 0 /\ \E e \in Dcis : ring[e] = r
    BY <1>2 DEF RingsOwned
  <2>3. \A e \in Dcis : e # d /\ ring[e] # 0 => ring[e] # ring[d]
    BY <1>2, <1>5 DEF RingsOwned
  <2>4. \A e \in Dcis : ring'[e] # 0 => ring'[e] \in allocated'
    BY <1>1, <1>7, <2>1, <2>3
  <2>5. \A r \in allocated' : r # 0 /\ \E e \in Dcis : ring'[e] = r
    <3>1. ASSUME NEW r \in allocated' PROVE r # 0 /\ \E e \in Dcis : ring'[e] = r
      <4>1. r \in allocated /\ r # ring[d]
        BY <1>1
      <4>2. PICK e \in Dcis : ring[e] = r
        BY <2>2, <4>1
      <4>3. ring'[e] = r
        BY <1>7, <4>1, <4>2
      <4> QED
        BY <2>2, <4>1, <4>3
    <3> QED
      BY <3>1
  <2>6. allocated' = {ring'[e] : e \in Dcis} \ {0}
    BY <2>4, <2>5
  <2>7. \A e, f \in Dcis : ring'[e] = ring'[f] /\ ring'[e] # 0 => e = f
    BY <1>2, <1>7 DEF RingsOwned
  <2> QED
    BY <2>6, <2>7 DEF RingsOwned
<1>13. ASSUME Orderly', devConf' PROVE OrderlyOnce'
  <2>1. Orderly
    BY <1>1, <1>13 DEF Orderly, counters
  <2>2. SettingsAgree /\ KnownEndpoints /\ StoppedFirst
    BY <1>3, <2>1 DEF Inv, OrderlyOnce
  <2>3. pc' \in {"stop", "configure"}
    BY <1>1
  <2>4. SettingsAgree'
    BY <1>1, <2>2, <2>3 DEF SettingsAgree, descVars, deviceVars
  <2>5. KnownEndpoints'
    BY <1>1, <1>7, <2>2 DEF KnownEndpoints, Known, descVars, hcVars
  <2>6. Stopping = drop \cup {d}
    BY <1>1, <1>d DEF Stopping
  <2>7. Stopping' = drop \cup {d}
    BY <1>1, <2>3 DEF Stopping
  <2>8. \A e \in Dcis : hc'[e].stopped <=> e \in Stopping'
    BY <1>1, <2>2, <2>6, <2>7 DEF StoppedFirst, hcVars
  <2>9. left' \cup drop' = left \cup drop /\ left' \cap drop' = {}
    BY <1>1, <1>4, <2>2 DEF StoppedFirst
  <2>10. \A e \in drop' : ring'[e] = 0
    BY <1>1, <1>2, <1>7, <2>2 DEF StoppedFirst, TypeOK
  <2>11. StoppedFirst'
    BY <1>1, <2>2, <2>3, <2>8, <2>9, <2>10 DEF StoppedFirst, descVars
  <2> QED
    BY <2>4, <2>5, <2>11 DEF OrderlyOnce
<1> QED
  BY <1>9, <1>10, <1>11, <1>12, <1>13 DEF Inv, Always

(* The new setting takes effect: the endpoints of the other interfaces are *)
(* others, so nothing of this one is on when it is added, or was used.     *)
LEMMA InvConfigureInterface == ASSUME Inv, ConfigureInterface PROVE Inv'
<1> DEFINE added == Endpoints[iface, setting]
<1>1. /\ pc = "configure" /\ MakeRings(added)
      /\ pc' = "rest" /\ left' = {} /\ drop' = {}
      /\ UNCHANGED <<csz, desc, confDesc, active, deviceVars, iface, setting, configs, reads, sets>>
  BY DEF ConfigureInterface
<1>2. \/ (hc' = Configured(drop, added) /\ alt' = [alt EXCEPT ![iface] = setting] /\ UNCHANGED failures)
      \/ (Fails(\E d \in added \ drop : hc[d].on) /\ hc' = hc /\ alt' = alt)
  BY DEF ConfigureInterface, Dropped, hcVars
<1>3. TypeOK /\ Types /\ Called /\ UsedHaveRings /\ Sequenced /\ RingsOwned
  BY DEF Inv, Always, Types
<1>4. iface \in Interfaces /\ setting \in Settings /\ devConf /\ left = {} /\ devAlt[iface] = setting
  BY <1>1, <1>3 DEF Called
<1>5. added \in SUBSET Dcis
  BY <1>4, DcisFinite
<1> HIDE DEF added
<1>6. /\ rings' \in Nat /\ ring' \in [Dcis -> 0 .. rings'] /\ allocated' \subseteq 1 .. rings'
      /\ RingsOwned'
      /\ \A d \in Dcis : d \notin added \/ ring[d] # 0 => ring'[d] = ring[d]
  BY <1>1, <1>3, <1>5, RingsMade
<1>7. used' = used
  BY <1>1 DEF MakeRings
<1>8. hc' \in [Dcis -> Context] /\ failures' \in Nat
  <2>1. hc' = Configured(drop, added) => hc' \in [Dcis -> Context]
    BY <1>3, <1>6, ConfiguredContexts
  <2> QED
    BY <1>2, <1>3, <2>1 DEF Fails, Types
<1>9. alt' \in [Interfaces -> Settings]
  BY <1>2, <1>3, <1>4 DEF TypeOK
<1>10. TypeOK'
  BY <1>1, <1>3, <1>6, <1>7, <1>9 DEF TypeOK, deviceVars
<1>11. Types'
  BY <1>1, <1>3, <1>6, <1>8, <1>10 DEF Types, deviceVars
<1>12. Called'
  BY <1>1 DEF Called
<1>13. UsedHaveRings'
  BY <1>3, <1>6, <1>7 DEF UsedHaveRings, TypeOK
<1>14. Sequenced'
  BY <1>1, <1>3, <1>4 DEF Sequenced, deviceVars
<1>15. ASSUME Orderly', devConf' PROVE OrderlyOnce'
  <2>1. Orderly /\ failures = 0 /\ failures' = 0
    BY <1>1, <1>2, <1>3, <1>15 DEF Orderly, Fails, Types
  <2>2. SettingsAgree /\ KnownEndpoints /\ StoppedFirst
    BY <1>4, <2>1 DEF Inv, OrderlyOnce
  <2>3. drop = Endpoints[iface, alt[iface]] /\ \A d \in drop : ring[d] = 0
    BY <1>1, <1>4, <2>2 DEF StoppedFirst
  <2>4. alt \in [Interfaces -> Settings]
    BY <1>3 DEF TypeOK
  <2>5. \A d \in added \cup drop : \A j \in Interfaces : j # iface => d \notin Endpoints[j, alt[j]]
    BY <1>4, <2>3, <2>4, EndpointsAssumption DEF added
  <2>6. \A d \in Dcis : Known(d) <=> d \in drop \/ \E j \in Interfaces : j # iface /\ d \in Endpoints[j, alt[j]]
    BY <1>4, <2>3 DEF Known
  <2>7. ~\E d \in added \ drop : hc[d].on
    BY <1>5, <2>2, <2>5, <2>6 DEF KnownEndpoints
  <2>8. hc' = Configured(drop, added) /\ alt' = [alt EXCEPT ![iface] = setting]
    BY <1>2, <2>1, <2>7 DEF Fails
  <2>9. alt'[iface] = setting /\ \A j \in Interfaces : j # iface => alt'[j] = alt[j]
    BY <1>4, <2>4, <2>8
  <2>10. \A d \in Dcis : Known(d)' <=> d \in added \/ \E j \in Interfaces : j # iface /\ d \in Endpoints[j, alt[j]]
    BY <1>4, <2>9 DEF Known, added
  <2>11. /\ \A d \in Dcis : d \in added =>
              /\ hc'[d].on = TRUE /\ hc'[d].stopped = FALSE /\ hc'[d].ring = ring'[d]
              /\ hc'[d].behind <=> d \in used
         /\ \A d \in Dcis : d \notin added /\ d \in drop => hc'[d] = Off
         /\ \A d \in Dcis : d \notin added /\ d \notin drop => hc'[d] = hc[d]
    BY <1>3, <1>6, <2>8, ConfiguredContexts
  <2>12. SettingsAgree'
    BY <1>1, <1>4, <2>2, <2>9 DEF SettingsAgree, deviceVars
  <2>13. \A d \in added : d \notin used
    BY <1>3, <1>5, <2>2, <2>3, <2>5, <2>6 DEF KnownEndpoints, UsedHaveRings
  <2>14. ASSUME NEW d \in Dcis
         PROVE  /\ hc'[d].on <=> Known(d)'
                /\ ring'[d] # 0 => Known(d)'
                /\ hc'[d].on => hc'[d].ring = ring'[d]
                /\ ~hc'[d].behind /\ ~hc'[d].stopped
    <3>1. CASE d \in added
      BY <2>10, <2>11, <2>13, <3>1
    <3>2. CASE d \notin added /\ d \in drop
      <4>1. ~Known(d)'
        BY <2>5, <2>10, <3>2
      <4>2. ~hc'[d].on /\ ~hc'[d].behind /\ ~hc'[d].stopped
        BY <2>11, <3>2 DEF Off
      <4>3. ring'[d] = 0
        <5>1. ring'[d] = ring[d]
          BY <1>6, <3>2
        <5> QED
          BY <2>3, <3>2, <5>1
      <4> QED
        BY <4>1, <4>2, <4>3
    <3>3. CASE d \notin added /\ d \notin drop
      <4>1. Known(d)' <=> Known(d)
        BY <2>6, <2>10, <3>3
      <4>2. hc'[d] = hc[d] /\ ring'[d] = ring[d]
        BY <1>6, <2>11, <3>3
      <4>3. ~hc[d].stopped
        BY <1>1, <2>2, <3>3 DEF StoppedFirst, Stopping
      <4> QED
        BY <2>2, <3>3, <4>1, <4>2, <4>3 DEF KnownEndpoints
    <3> QED
      BY <3>1, <3>2, <3>3
  <2>15. KnownEndpoints'
    BY <2>14 DEF KnownEndpoints
  <2>16. StoppedFirst'
    BY <1>1, <2>14 DEF StoppedFirst, Stopping
  <2> QED
    BY <2>12, <2>15, <2>16 DEF OrderlyOnce
<1> QED
  BY <1>6, <1>11, <1>12, <1>13, <1>14, <1>15 DEF Inv, Always

(* A transfer marks its ring used.                                         *)
LEMMA InvUsbTransfer == ASSUME Inv, NEW d \in Dcis, UsbTransfer(d) PROVE Inv'
<1>1. /\ pc = "rest" /\ devConf /\ ring[d] # 0 /\ used' = used \cup {d}
      /\ UNCHANGED <<csz, descVars, ring, allocated, rings, slot, deviceVars, callVars, counters>>
  BY DEF UsbTransfer
<1>2. hc' = [hc EXCEPT ![d].stopped = FALSE] \/ hc' = hc
  BY DEF UsbTransfer
<1>3. TypeOK /\ Types /\ Called /\ UsedHaveRings /\ Sequenced /\ RingsOwned
  BY DEF Inv, Always, Types
<1>4. hc' \in [Dcis -> Context]
  BY <1>2, <1>3, StoppedContext DEF Types
<1>5. TypeOK'
  BY <1>1, <1>3 DEF TypeOK, descVars, deviceVars, callVars
<1>6. Types'
  BY <1>1, <1>3, <1>4, <1>5 DEF Types, descVars, deviceVars, counters
<1>7. Called' /\ UsedHaveRings' /\ RingsOwned'
  BY <1>1, <1>3 DEF Called, UsedHaveRings, RingsOwned, deviceVars, callVars
<1>8. Sequenced'
  BY <1>1, <1>3 DEF Sequenced, descVars, deviceVars, counters
<1>9. ASSUME Orderly', devConf' PROVE OrderlyOnce'
  <2>1. SettingsAgree /\ KnownEndpoints /\ StoppedFirst
    BY <1>1, <1>9 DEF Inv, Orderly, OrderlyOnce, counters
  <2>2. \A e \in Dcis : /\ hc'[e].on = hc[e].on /\ hc'[e].ring = hc[e].ring
                        /\ hc'[e].behind = hc[e].behind
                        /\ hc'[e].stopped = hc[e].stopped \/ hc'[e].stopped = FALSE
    <3>1. CASE hc' = [hc EXCEPT ![d].stopped = FALSE]
      BY <1>3, <3>1, StoppedContext
    <3>2. CASE hc' = hc
      BY <3>2
    <3> QED
      BY <1>2, <3>1, <3>2
  <2>3. Stopping = {} /\ Stopping' = {} /\ drop' = {}
    BY <1>1, <2>1 DEF StoppedFirst, Stopping, callVars
  <2>4. SettingsAgree'
    BY <1>1, <2>1 DEF SettingsAgree, descVars, deviceVars, callVars
  <2>5. KnownEndpoints'
    BY <1>1, <2>1, <2>2 DEF KnownEndpoints, Known, descVars, callVars
  <2>6. \A e \in Dcis : ~hc'[e].stopped
    BY <2>1, <2>2, <2>3 DEF StoppedFirst
  <2>7. StoppedFirst'
    BY <1>1, <2>3, <2>6 DEF StoppedFirst, callVars
  <2> QED
    BY <2>4, <2>5, <2>7 DEF OrderlyOnce
<1> QED
  BY <1>6, <1>7, <1>8, <1>9 DEF Inv, Always

(* No step breaks the invariant.                                           *)
LEMMA InvNext == Inv /\ [Next]_vars => Inv'
<1> SUFFICES ASSUME Inv, [Next]_vars PROVE Inv'
  OBVIOUS
<1>1. CASE GetDeviceDescriptor \/ GetConfigDescriptor \/ GetHubDescriptor
  BY <1>1, InvDescriptors
<1>2. CASE SetConfig
  BY <1>2, InvSetConfig
<1>3. CASE \E i \in Interfaces, a \in Settings : SetInterface(i, a)
  BY <1>3, InvSetInterface
<1>4. CASE StopEndpoint
  BY <1>4, InvStopEndpoint
<1>5. CASE FreeRing
  BY <1>5, InvFreeRing
<1>6. CASE ConfigureInterface
  BY <1>6, InvConfigureInterface
<1>7. CASE \E d \in Dcis : UsbTransfer(d)
  BY <1>7, InvUsbTransfer
<1>8. CASE UNCHANGED vars
  <2>1. UNCHANGED <<csz, desc, confDesc, active, alt, ring, used, allocated, rings, hc>>
    BY <1>8 DEF vars, descVars, ringVars, hcVars
  <2>2. UNCHANGED <<devConf, devAlt, pc, iface, setting, left, drop, configs, reads, sets, failures>>
    BY <1>8 DEF vars, deviceVars, callVars, counters
  <2>3. Types' /\ RingsOwned'
    BY <2>1, <2>2 DEF Inv, Always, Types, TypeOK, RingsOwned
  <2>4. Called' /\ UsedHaveRings' /\ Sequenced'
    BY <2>1, <2>2 DEF Inv, Always, Called, UsedHaveRings, Sequenced
  <2>5. Orderly' = Orderly /\ OrderlyOnce' = OrderlyOnce
    BY <2>1, <2>2 DEF Orderly, OrderlyOnce, SettingsAgree, KnownEndpoints, Known, StoppedFirst, Stopping
  <2> QED
    BY <2>1, <2>2, <2>3, <2>4, <2>5 DEF Inv, Always
<1> QED
  BY <1>1, <1>2, <1>3, <1>4, <1>5, <1>6, <1>7, <1>8, Steps

(* What the properties say follows from the invariant.                     *)
LEMMA InvImplies == Inv => EndpointsInvariant /\ EndpointsMatch
<1> SUFFICES ASSUME Inv PROVE EndpointsInvariant /\ EndpointsMatch
  OBVIOUS
<1>1. TypeOK /\ Types /\ RingsOwned /\ Sequenced
  BY DEF Inv, Always, Types
<1>2. NoFreedRing /\ NoReplay
  <2>1. SUFFICES ASSUME Orderly
                 PROVE  \A d \in Dcis : ~hc[d].behind /\ (hc[d].on /\ ~hc[d].stopped => hc[d].ring \in allocated \cup {0})
    BY DEF NoFreedRing, NoReplay
  <2>2. CASE ~devConf
    BY <1>1, <2>2 DEF Sequenced, Off
  <2>3. CASE devConf
    <3>1. KnownEndpoints /\ StoppedFirst
      BY <2>1, <2>3 DEF Inv, OrderlyOnce
    <3>2. \A d \in Dcis : ring[d] \in allocated \cup {0}
      BY <1>1 DEF RingsOwned
    <3> QED
      BY <3>1, <3>2 DEF KnownEndpoints, StoppedFirst, Stopping
  <2> QED
    BY <2>2, <2>3
<1>3. EndpointsMatch
  <2>1. SUFFICES ASSUME Orderly, pc = "rest"
                 PROVE  /\ {d \in Dcis : hc[d].on} = IF devConf THEN Current ELSE {}
                        /\ \A d \in Dcis : hc[d].on => hc[d].ring = ring[d]
                        /\ \A i \in Interfaces : alt[i] = devAlt[i]
    BY DEF EndpointsMatch
  <2>2. CASE ~devConf
    BY <1>1, <2>2 DEF Sequenced, Off
  <2>3. CASE devConf
    <3>1. SettingsAgree /\ KnownEndpoints /\ StoppedFirst
      BY <2>1, <2>3 DEF Inv, OrderlyOnce
    <3>2. (\A i \in Interfaces : alt[i] = devAlt[i]) /\ drop = {}
      BY <2>1, <3>1 DEF SettingsAgree, StoppedFirst
    <3>3. alt \in [Interfaces -> Settings]
      BY <1>1 DEF TypeOK
    <3>4. \A d : d \in Current <=> Known(d)
      BY <3>2 DEF Current, Known
    <3>5. \A d : Known(d) => d \in Dcis
      BY <3>3, DcisFinite DEF Known
    <3> QED
      BY <2>3, <3>1, <3>2, <3>4, <3>5 DEF KnownEndpoints
  <2> QED
    BY <2>2, <2>3
<1> QED
  BY <1>1, <1>2, <1>3 DEF EndpointsInvariant

-----------------------------------------------------------------------------
(* Each allocated ring is the ring of one endpoint, whatever fails; in the *)
(* usual sequence the controller runs no ring that was freed and does not  *)
(* start over on one that was used.                                        *)
THEOREM RingsAreOwned == Spec => []EndpointsInvariant
<1>1. Inv => EndpointsInvariant
  BY InvImplies
<1> QED
  BY InvInit, InvNext, <1>1, PTL DEF Spec

(* Between the calls, in the usual sequence, the endpoints that are on are *)
(* those of the settings the device has, on the rings of the driver.       *)
THEOREM EndpointsAgree == Spec => []EndpointsMatch
<1>1. Inv => EndpointsMatch
  BY InvImplies
<1> QED
  BY InvInit, InvNext, <1>1, PTL DEF Spec
=============================================================================
