-------------------------- MODULE XhciSlots_proofs --------------------------
(***************************************************************************)
(* Proofs about XhciSlots for any ports, slots, addresses and bounds.      *)
(*                                                                         *)
(* A slot is live when the driver has it in use and the controller has its *)
(* address. A live slot below a hub has a live slot of that hub, for the   *)
(* driver disables the slots behind a port before the slot of the port.    *)
(* So the live slots form trees, and the hub whose translator a device     *)
(* uses stays as long as the device.                                       *)
(*                                                                         *)
(* A device without a slot has a change at its port that is still to be    *)
(* seen, or the bus driver is at its port. Behind a port it works on every *)
(* device has such a change, so the slots disabled there are given again.  *)
(***************************************************************************)
EXTENDS XhciSlots, FiniteSetTheorems, SequenceTheorems, WellFoundedInduction, TLAPS

Entry ==
  [enabled : BOOLEAN, id : Nat, route : Seq(Nat), parent : Seq(Nat), bus : Nat, xhci : Nat,
   speed : {"low", "full", "high", "super"}, tt : [hub : Nat, port : Nat]]

Changes == SUBSET {"connection", "reset"}

AddressSteps == {"address", "addressAgain"}
CallSteps ==
  {"clear", "disable", "enable", "clearAgain", "disableAgain", "enableAgain"} \cup AddressSteps
Steps ==
  CallSteps \cup {"rest", "decide", "reset", "status", "decideAgain", "setAddress", "describe"}

Types ==
  /\ TypeOK
  /\ ctx \in [Slots -> Entry] /\ device \in [Slots -> Places \cup {None}]
  /\ port \in [Places -> [enabled : BOOLEAN, changes : Changes]]
  /\ status \in [connected : BOOLEAN, enabled : BOOLEAN, changes : Changes]
  /\ step \in Steps

(* Where the bus driver is: what it works on.                              *)
Called ==
  /\ step # "rest" => at \in Places
  /\ step = "describe" => address \in Addresses

Live(s) == InUse(s) /\ hcSlot[s] = "addressed"

Shaped == \A s \in Slots : InUse(s) => ctx[s].route # << >> /\ ctx[s].parent = Front(ctx[s].route)

HasParent(s) ==
  Len(ctx[s].route) > 1 => \E t \in Slots : Live(t) /\ ctx[t].route = ctx[s].parent

Parents ==
  \A s \in Slots : InUse(s) /\ (resets = 0 \/ hcSlot[s] = "addressed") => HasParent(s)

(* The entry of slot s is the one for a device at p: with the translator   *)
(* of the last high speed hub above it, which has a live slot.             *)
Translates(s, p) ==
  IF HighSpeedHub(p) = {} THEN ctx[s].tt = NoTT
  ELSE \E n \in HighSpeedHub(p), t \in Slots :
         /\ Live(t) /\ ctx[t].route = Route(SubSeq(p, 1, n))
         /\ ctx[s].tt = [hub |-> t, port |-> p[n + 1]]

Serves(s, p) == ctx[s].route = Route(p) /\ ctx[s].speed = Speed[p] /\ Translates(s, p)

Devices ==
  \A s \in Slots :
    device[s] # None => hcSlot[s] = "addressed" /\ (InUse(s) => Serves(s, device[s]))

(* The hub in a call has a slot until the call ends, whatever happens to   *)
(* the hub itself.                                                         *)
HubServes ==
  step \in CallSteps =>
    IF Len(at) = 1 THEN hub = 0 ELSE hub \in Slots /\ Live(hub) /\ Serves(hub, Front(at))

(* The slot that is to get an address.                                     *)
NewSlotServes ==
  step \in AddressSteps =>
    /\ address \in Slots /\ InUse(address) /\ hcSlot[address] = "enabled"
    /\ address \in dcbaa /\ HasParent(address) /\ Serves(address, at)

Inv ==
  /\ Types /\ Called /\ RoutesUnique /\ Shaped /\ Parents /\ Devices
  /\ HubServes /\ NewSlotServes /\ NoFreedContext /\ NothingLeaks

-----------------------------------------------------------------------------
(* Places and routes.                                                      *)

(* The prefixes of a sequence of ports, and what they are made of.         *)
LEMMA PrefixIs ==
  ASSUME NEW r \in Seq(Nat), NEW n \in 1 .. Len(r)
  PROVE  /\ SubSeq(r, 1, n) \in Seq(Nat) /\ Len(SubSeq(r, 1, n)) = n /\ SubSeq(r, 1, n) # << >>
         /\ \A i \in 1 .. n : SubSeq(r, 1, n)[i] = r[i]
         /\ n > 1 => Front(SubSeq(r, 1, n)) = SubSeq(r, 1, n - 1)
<1>1. Len(r) \in Nat /\ n \in Nat /\ 1 \in Int /\ n \in Int
  OBVIOUS
<1>2. \A i \in 1 .. n : r[i] \in Nat
  BY <1>1, LenProperties
<1>3. SubSeq(r, 1, n) \in Seq(Nat) /\ Len(SubSeq(r, 1, n)) = n
  BY <1>1, <1>2, SubSeqProperties
<1>4. \A i \in 1 .. n : SubSeq(r, 1, n)[i] = r[i]
  BY <1>1, <1>2, SubSeqProperties
<1>5. ASSUME n > 1 PROVE Front(SubSeq(r, 1, n)) = SubSeq(r, 1, n - 1)
  <2>1. n - 1 \in 1 .. Len(r) /\ 1 \in 1 .. Len(r)
    BY <1>1, <1>5
  <2>2. 1 \in 1 .. n - 1 + 1 /\ n - 1 \in 1 .. n - 1 + 1
    BY <1>1, <1>5
  <2>3. SubSeq(SubSeq(r, 1, n), 1, n - 1) = SubSeq(r, 1 + 1 - 1, 1 + (n - 1) - 1)
    BY <2>1, <2>2, SubSeqOfSubSeq
  <2>4. 1 + 1 - 1 = 1 /\ 1 + (n - 1) - 1 = n - 1
    BY <1>1
  <2> QED
    BY <1>3, <2>3, <2>4 DEF Front
<1>6. SubSeq(r, 1, n) # << >>
  BY <1>1, <1>3, EmptySeq
<1> QED
  BY <1>3, <1>4, <1>5, <1>6

(* A route has one number for each port of the place.                      *)
LEMMA RouteIs ==
  ASSUME NEW p \in Seq(Nat)
  PROVE  /\ Route(p) \in Seq(Nat) /\ Len(Route(p)) = Len(p)
         /\ \A i \in 1 .. Len(p) : Route(p)[i] = IF i > 1 /\ p[i] >= 14 THEN 15 ELSE p[i]
<1>1. Len(p) \in Nat /\ DOMAIN p = 1 .. Len(p) /\ \A i \in 1 .. Len(p) : p[i] \in Nat
  BY LenProperties
<1>2. Route(p) \in [1 .. Len(p) -> Nat]
  BY <1>1 DEF Route
<1>3. Route(p) \in Seq(Nat)
  BY <1>1, <1>2, SeqDef
<1>4. Len(Route(p)) \in Nat /\ 1 .. Len(Route(p)) = 1 .. Len(p)
  BY <1>1, <1>2, <1>3, LenProperties
<1>5. Len(Route(p)) = Len(p)
  <2>1. \A m, n \in Nat : 1 .. m = 1 .. n => m = n
    <3>1. ASSUME NEW m \in Nat, NEW n \in Nat, 1 .. m = 1 .. n PROVE m = n
      <4>1. m <= n
        <5>1. CASE m = 0
          BY <5>1
        <5>2. CASE m # 0
          <6>1. m \in 1 .. m
            BY <5>2
          <6>2. m \in 1 .. n
            BY <3>1, <6>1
          <6> QED
            BY <6>2
        <5> QED
          BY <5>1, <5>2
      <4>2. n <= m
        <5>1. CASE n = 0
          BY <5>1
        <5>2. CASE n # 0
          <6>1. n \in 1 .. n
            BY <5>2
          <6>2. n \in 1 .. m
            BY <3>1, <6>1
          <6> QED
            BY <6>2
        <5> QED
          BY <5>1, <5>2
      <4> QED
        BY <4>1, <4>2
    <3> QED
      BY <3>1
  <2> QED
    BY <1>1, <1>4, <2>1
<1> QED
  BY <1>1, <1>3, <1>5 DEF Route

(* The route of a prefix is the prefix of the route.                       *)
LEMMA RouteOfPrefix ==
  ASSUME NEW p \in Seq(Nat), NEW n \in 1 .. Len(p)
  PROVE  Route(SubSeq(p, 1, n)) = SubSeq(Route(p), 1, n)
<1>1. n \in 1 .. Len(Route(p)) /\ Route(p) \in Seq(Nat) /\ n \in Nat /\ Len(p) \in Nat
  BY RouteIs
<1>2. SubSeq(Route(p), 1, n) \in Seq(Nat) /\ Len(SubSeq(Route(p), 1, n)) = n
  BY <1>1, PrefixIs
<1>3. SubSeq(p, 1, n) \in Seq(Nat) /\ Len(SubSeq(p, 1, n)) = n
  BY PrefixIs
<1>4. Route(SubSeq(p, 1, n)) \in Seq(Nat) /\ Len(Route(SubSeq(p, 1, n))) = n
  BY <1>3, RouteIs
<1>5. ASSUME NEW i \in 1 .. n PROVE Route(SubSeq(p, 1, n))[i] = SubSeq(Route(p), 1, n)[i]
  <2>1. i \in 1 .. Len(p)
    BY <1>1
  <2>2. SubSeq(p, 1, n)[i] = p[i] /\ SubSeq(Route(p), 1, n)[i] = Route(p)[i]
    BY <1>1, PrefixIs
  <2>3. Route(p)[i] = IF i > 1 /\ p[i] >= 14 THEN 15 ELSE p[i]
    BY <2>1, RouteIs
  <2>4. Route(SubSeq(p, 1, n))[i] =
          IF i > 1 /\ SubSeq(p, 1, n)[i] >= 14 THEN 15 ELSE SubSeq(p, 1, n)[i]
    BY <1>3, RouteIs
  <2> QED
    BY <2>2, <2>3, <2>4
<1> QED
  BY <1>2, <1>4, <1>5, SeqEqual

(* The route XhcPollPortStatusChange makes from that of the hub and the    *)
(* number of the port is that of the place.                                *)
LEMMA RouteOfPort ==
  ASSUME NEW p \in Seq(Nat), p # << >>
  PROVE  /\ RouteChart(IF Len(p) = 1 THEN << >> ELSE Route(Front(p)), Last(p)) = Route(p)
         /\ Front(Route(p)) = IF Len(p) = 1 THEN << >> ELSE Route(Front(p))
<1>1. Len(p) \in Nat \ {0} /\ Len(p) \in Nat /\ Len(p) \in 1 .. Len(p)
  BY EmptySeq
<1>2. Route(p) \in Seq(Nat) /\ Len(Route(p)) = Len(p)
  BY RouteIs
<1>3. Last(p) \in Nat /\ Last(p) = p[Len(p)]
  BY <1>1, LenProperties DEF Last
<1>4. CASE Len(p) = 1
  <2>1. RouteChart(<< >>, Last(p)) = Append(<< >>, Last(p))
    BY DEF RouteChart
  <2>2. /\ << >> \in Seq(Nat) /\ Len(<< >>) = 0
        /\ Append(<< >>, Last(p)) \in Seq(Nat) /\ Len(Append(<< >>, Last(p))) = 1
        /\ Append(<< >>, Last(p))[1] = Last(p)
    <3>1. << >> \in Seq(Nat) /\ Len(<< >>) = 0
      BY EmptySeq
    <3>2. /\ Append(<< >>, Last(p)) \in Seq(Nat) /\ Len(Append(<< >>, Last(p))) = Len(<< >>) + 1
          /\ Append(<< >>, Last(p))[Len(<< >>) + 1] = Last(p)
      BY <1>3, <3>1, AppendProperties
    <3> QED
      BY <3>1, <3>2
  <2>3. Route(p)[1] = p[1]
    BY <1>1, <1>4, RouteIs
  <2>4. Append(<< >>, Last(p)) = Route(p)
    <3>1. \A i \in 1 .. 1 : Append(<< >>, Last(p))[i] = Route(p)[i]
      BY <1>3, <1>4, <2>2, <2>3
    <3> QED
      BY <1>2, <1>4, <2>2, <3>1, SeqEqual
  <2>5. Front(Route(p)) = << >>
    <3>1. 1 \in Int /\ 1 - 1 \in Int /\ 1 - 1 < 1
      OBVIOUS
    <3>2. SubSeq(Route(p), 1, 1 - 1) = << >>
      BY <3>1, SubSeqEmpty
    <3> QED
      BY <1>2, <1>4, <3>2 DEF Front
  <2> QED
    BY <1>4, <2>1, <2>4, <2>5
<1>5. CASE Len(p) # 1
  <2> DEFINE f == Front(p)
  <2>1. Len(p) - 1 \in 1 .. Len(p) /\ Len(p) > 1
    <3>1. \A n \in Nat \ {0} : n # 1 => n - 1 \in 1 .. n /\ n > 1
      OBVIOUS
    <3> QED
      BY <1>1, <1>5, <3>1
  <2>2. f \in Seq(Nat) /\ Len(f) = Len(p) - 1 /\ Route(f) = SubSeq(Route(p), 1, Len(p) - 1)
    BY <2>1, PrefixIs, RouteOfPrefix DEF Front
  <2>3. Route(f) \in Seq(Nat) /\ Len(Route(f)) = Len(p) - 1
    BY <2>2, RouteIs
  <2>4. Route(f) = Front(Route(p))
    BY <1>2, <2>2 DEF Front
  <2>5. Route(f) # << >>
    BY <2>1, <2>3, EmptySeq
  <2> DEFINE e == IF p[Len(p)] >= 14 THEN 15 ELSE p[Len(p)]
  <2>6. e \in Nat /\ Route(p)[Len(p)] = e /\ RouteChart(Route(f), Last(p)) = Append(Route(f), e)
    <3>1. p[Len(p)] \in Nat
      BY <1>3
    <3>2. Route(p)[Len(p)] = e
      BY <1>1, <2>1, RouteIs
    <3>3. RouteChart(Route(f), Last(p)) = Append(Route(f), e)
      BY <1>3, <2>5 DEF RouteChart
    <3> QED
      BY <3>1, <3>2, <3>3
  <2>7. /\ Append(Route(f), e) \in Seq(Nat) /\ Len(Append(Route(f), e)) = Len(p) - 1 + 1
        /\ \A i \in 1 .. Len(p) - 1 : Append(Route(f), e)[i] = Route(f)[i]
        /\ Append(Route(f), e)[Len(p) - 1 + 1] = e
    <3> HIDE DEF e, f
    <3> QED
      BY <2>3, <2>6, AppendProperties
  <2>8. Append(Route(f), e) = Route(p)
    <3>1. \A i \in 1 .. Len(p) - 1 : Route(f)[i] = Route(p)[i]
      BY <1>2, <2>1, <2>2, PrefixIs
    <3> HIDE DEF e, f
    <3>2. \A i \in 1 .. Len(p) : Append(Route(f), e)[i] = Route(p)[i]
      BY <1>1, <2>6, <2>7, <3>1
    <3>3. Len(Append(Route(f), e)) = Len(p)
      BY <1>1, <2>7
    <3> QED
      BY <1>2, <2>7, <3>2, <3>3, SeqEqual
  <2>9. RouteChart(Route(f), Last(p)) = Route(p) /\ Front(Route(p)) = Route(f)
    BY <2>4, <2>6, <2>8
  <2>10. (IF Len(p) = 1 THEN << >> ELSE Route(Front(p))) = Route(f)
    BY <1>5, Zenon
  <2> HIDE DEF e, f
  <2> QED
    BY <2>9, <2>10, Zenon
<1> QED
  BY <1>4, <1>5

-----------------------------------------------------------------------------
(* Slots and the lookups in UsbDevContext.                                 *)

(* A set of numbers that is not empty has a least one.                     *)
LEMMA MinIs ==
  ASSUME NEW S \in SUBSET Nat, S # {}
  PROVE  Min(S) \in S /\ \A y \in S : Min(S) <= y
<1> DEFINE R == {p \in Nat \X Nat : p[1] < p[2]}
<1>1. IsWellFoundedOn(R, Nat)
  BY NatLessThanWellFounded DEF OpToRel
<1>2. PICK x \in S : \A y \in S : <<y, x>> \notin R
  BY <1>1, WFMin
<1>3. ASSUME NEW y \in S PROVE x <= y
  <2>1. x \in Nat /\ y \in Nat /\ <<y, x>> \notin R
    BY <1>2, <1>3
  <2> QED
    BY <2>1
<1> QED
  BY <1>3 DEF Min

(* The slot a lookup finds is one of those looked for, 0 if there is none. *)
LEMMA LowestIs ==
  ASSUME NEW S \in SUBSET Slots
  PROVE  IF S = {} THEN Lowest(S) = 0 ELSE Lowest(S) \in S /\ Lowest(S) # 0
<1>1. Slots \subseteq Nat /\ 0 \notin Slots
  BY SlotsAssumption DEF Slots
<1>2. S \in SUBSET Nat
  BY <1>1
<1>3. CASE S = {}
  BY <1>3 DEF Lowest
<1>4. CASE S # {}
  <2>1. Min(S) \in S
    BY <1>2, <1>4, MinIs
  <2> QED
    BY <1>1, <1>4, <2>1 DEF Lowest
<1> QED
  BY <1>3, <1>4

(* The slot of a route is in use and has the route; it is the only one.    *)
LEMMA RouteLookup ==
  ASSUME NEW r
  PROVE  LET s == XhcRouteStringToSlotId(r) IN
         /\ s # 0 => s \in Slots /\ InUse(s) /\ ctx[s].route = r
         /\ \A t \in Slots : InUse(t) /\ ctx[t].route = r => s # 0 /\ (RoutesUnique => s = t)
<1> DEFINE S == {t \in Slots : InUse(t) /\ ctx[t].route = r}
           s == XhcRouteStringToSlotId(r)
<1>1. s = Lowest(S)
  BY DEF XhcRouteStringToSlotId
<1>2. IF S = {} THEN s = 0 ELSE s \in S /\ s # 0
  BY <1>1, LowestIs
<1>3. s # 0 => s \in Slots /\ InUse(s) /\ ctx[s].route = r
  BY <1>2
<1>4. ASSUME NEW t \in Slots, InUse(t), ctx[t].route = r
      PROVE  s # 0 /\ (RoutesUnique => s = t)
  <2>1. t \in S
    BY <1>4
  <2>2. s \in S /\ s # 0
    BY <1>2, <2>1
  <2> QED
    BY <1>4, <2>2 DEF RoutesUnique
<1> QED
  BY <1>3, <1>4

(* The slot of an address is in use and has the address.                   *)
LEMMA AddressLookup ==
  ASSUME NEW a
  PROVE  LET s == XhcBusDevAddrToSlotId(a) IN
         s # 0 => s \in Slots /\ InUse(s) /\ ctx[s].bus = a
<1> DEFINE S == {t \in Slots : InUse(t) /\ ctx[t].bus = a}
<1>1. XhcBusDevAddrToSlotId(a) = Lowest(S)
  BY DEF XhcBusDevAddrToSlotId
<1>2. IF S = {} THEN Lowest(S) = 0 ELSE Lowest(S) \in S
  BY LowestIs
<1> QED
  BY <1>1, <1>2

(* The entries of UsbDevContext and the routes in them.                    *)
LEMMA EntryIs ==
  ASSUME Types, NEW s \in Slots
  PROVE  /\ ctx[s] \in Entry /\ ctx[s].route \in Seq(Nat) /\ ctx[s].parent \in Seq(Nat)
         /\ ctx[s].speed \in {"low", "full", "high", "super"} /\ ctx[s].tt \in [hub : Nat, port : Nat]
         /\ ctx[s].enabled \in BOOLEAN /\ ctx[s].id \in Nat /\ ctx[s].bus \in Nat /\ ctx[s].xhci \in Nat
         /\ Len(ctx[s].route) \in Nat
<1>1. ctx[s] \in Entry
  BY DEF Types
<1>2. ctx[s].route \in Seq(Nat)
  BY <1>1 DEF Entry
<1>3. Len(ctx[s].route) \in Nat
  BY <1>2
<1> QED
  BY <1>1, <1>3 DEF Entry

(* The hubs above a live slot have live slots, back to the root port.      *)
LEMMA Ancestors ==
  ASSUME Types, Shaped, Parents, NEW u \in Slots, Live(u), NEW m \in 1 .. Len(ctx[u].route)
  PROVE  \E w \in Slots : Live(w) /\ ctx[w].route = SubSeq(ctx[u].route, 1, m)
<1> DEFINE r == ctx[u].route
           L == Len(r)
           Found(k) == \E w \in Slots : Live(w) /\ ctx[w].route = SubSeq(r, 1, L - k)
           Bad == {k \in Nat : k < L /\ ~Found(k)}
<1>1. r \in Seq(Nat) /\ L \in Nat /\ m \in 1 .. L /\ m \in Nat
  BY EntryIs
<1>2. Found(0)
  <2>1. SubSeq(r, 1, L - 0) = r
    <3>1. L - 0 = L
      BY <1>1
    <3> QED
      BY <1>1, <3>1, SubSeqFull
  <2> QED
    BY <2>1
<1>3. Bad = {}
  <2> SUFFICES ASSUME Bad # {} PROVE FALSE
    OBVIOUS
  <2> DEFINE k == Min(Bad)
  <2>1. k \in Bad /\ \A j \in Bad : k <= j
    <3>1. Bad \in SUBSET Nat
      OBVIOUS
    <3> HIDE DEF Bad
    <3> QED
      BY <3>1, MinIs
  <2>2. k \in Nat /\ k < L /\ ~Found(k)
    BY <2>1
  <2> HIDE DEF k
  <2>3. k # 0
    BY <1>2, <2>2
  <2>4. k - 1 \in Nat /\ k - 1 < L /\ L - (k - 1) \in 1 .. L /\ L - (k - 1) > 1 /\ L - (k - 1) - 1 = L - k
    <3> HIDE DEF L, Found
    <3> QED
      BY <1>1, <2>2, <2>3
  <2>5. Found(k - 1)
    <3>1. k - 1 \notin Bad
      <4> HIDE DEF Bad
      <4> QED
        BY <2>1, <2>2, <2>4
    <3> HIDE DEF Found
    <3> QED
      BY <2>4, <3>1
  <2>6. PICK w \in Slots : Live(w) /\ ctx[w].route = SubSeq(r, 1, L - (k - 1))
    BY <2>5
  <2>7. Len(ctx[w].route) = L - (k - 1) /\ Front(ctx[w].route) = SubSeq(r, 1, L - (k - 1) - 1)
    <3> HIDE DEF L
    <3> HIDE DEF r
    <3>1. L - (k - 1) \in 1 .. Len(r)
      BY <2>4 DEF L
    <3>2. \A q \in 1 .. Len(r) :
            Len(SubSeq(r, 1, q)) = q /\ (q > 1 => Front(SubSeq(r, 1, q)) = SubSeq(r, 1, q - 1))
      BY <1>1, PrefixIs
    <3> QED
      BY <2>4, <2>6, <3>1, <3>2
  <2>8. Len(ctx[w].route) > 1
    <3> HIDE DEF L
    <3> QED
      BY <2>4, <2>7
  <2>9. ctx[w].parent = SubSeq(r, 1, L - k)
    <3>1. ctx[w].parent = Front(ctx[w].route)
      BY <2>6 DEF Shaped, Live
    <3> HIDE DEF L
    <3> QED
      BY <2>4, <2>7, <3>1
  <2>10. \E t \in Slots : Live(t) /\ ctx[t].route = ctx[w].parent
    BY <2>6, <2>8 DEF Parents, HasParent, Live
  <2> QED
    BY <2>2, <2>9, <2>10
<1>4. L - m \in Nat /\ L - m < L /\ L - (L - m) = m
  <2> HIDE DEF L
  <2> QED
    BY <1>1
<1>5. Found(L - m)
  <2> HIDE DEF L, Found
  <2> QED
    BY <1>3, <1>4
<1>6. PICK w \in Slots : Live(w) /\ ctx[w].route = SubSeq(r, 1, L - (L - m))
  BY <1>5
<1> QED
  BY <1>4, <1>6

(* The slots XhcDisableSlotCmd disables: the one it is called for and the  *)
(* children of each it disables.                                           *)
LEMMA BelowIs ==
  ASSUME NEW s \in Slots
  PROVE  /\ s \in Below(s) /\ Below(s) \in SUBSET Slots
         /\ \A c \in Slots, b \in Below(s) :
              InUse(c) /\ ctx[c].parent = ctx[b].route => c \in Below(s)
<1>1. ASSUME NEW c \in Slots, NEW b \in Below(s), InUse(c), ctx[c].parent = ctx[b].route
      PROVE  c \in Below(s)
  <2>1. ASSUME NEW T \in SUBSET Slots, s \in T, HasItsChildren(T) PROVE c \in T
    <3>1. b \in T
      BY <2>1 DEF Below
    <3> QED
      BY <1>1, <2>1, <3>1 DEF HasItsChildren
  <2> QED
    BY <2>1 DEF Below
<1> QED
  BY <1>1 DEF Below

(* They are in use, and all but the first lie behind longer routes.        *)
LEMMA BelowLonger ==
  ASSUME Types, Shaped, NEW s \in Slots, InUse(s), NEW t \in Below(s)
  PROVE  /\ t \in Slots /\ InUse(t)
         /\ t # s => Len(ctx[t].route) > Len(ctx[s].route)
<1> DEFINE T == {c \in Slots : InUse(c) /\ (c # s => Len(ctx[c].route) > Len(ctx[s].route))}
<1>1. T \in SUBSET Slots /\ s \in T
  OBVIOUS
<1>2. ASSUME NEW c \in Slots, InUse(c), NEW b \in T, ctx[c].parent = ctx[b].route
      PROVE  c \in T
  <2>1. ctx[c].route \in Seq(Nat) /\ ctx[c].route # << >> /\ ctx[c].parent = Front(ctx[c].route)
    BY <1>2, EntryIs DEF Shaped
  <2>2. ctx[b].route \in Seq(Nat) /\ ctx[b].route # << >> /\ Len(ctx[b].route) \in Nat
    BY <1>2, EntryIs DEF Shaped
  <2>3. Len(ctx[c].route) \in Nat \ {0} /\ Len(ctx[s].route) \in Nat
    BY <2>1, EmptySeq, EntryIs
  <2>4. Len(ctx[b].route) >= Len(ctx[s].route)
    BY <1>2, <2>2, <2>3
  <2>5. Len(ctx[c].route) > Len(ctx[b].route)
    <3>1. CASE Len(ctx[c].route) > 1
      <4>1. Len(ctx[c].route) - 1 \in 1 .. Len(ctx[c].route)
        BY <2>3, <3>1
      <4>2. Len(Front(ctx[c].route)) = Len(ctx[c].route) - 1
        BY <2>1, <4>1, PrefixIs DEF Front
      <4> QED
        BY <1>2, <2>1, <2>3, <4>2
    <3>2. CASE Len(ctx[c].route) = 1
      <4>1. 1 \in Int /\ 1 - 1 \in Int /\ 1 - 1 < 1
        OBVIOUS
      <4>2. Front(ctx[c].route) = << >>
        BY <3>2, <4>1, SubSeqEmpty DEF Front
      <4> QED
        BY <1>2, <2>1, <2>2, <4>2
    <3>3. Len(ctx[c].route) > 1 \/ Len(ctx[c].route) = 1
      <4>1. \A n \in Nat \ {0} : n > 1 \/ n = 1
        OBVIOUS
      <4> QED
        BY <2>3, <4>1
    <3> QED
      BY <3>1, <3>2, <3>3
  <2> QED
    BY <1>2, <2>2, <2>3, <2>4, <2>5
<1>3. HasItsChildren(T)
  <2> HIDE DEF T
  <2> QED
    BY <1>2 DEF HasItsChildren
<1>4. t \in T
  <2> HIDE DEF T
  <2> QED
    BY <1>1, <1>3 DEF Below
<1> QED
  BY <1>4

(* A live slot is disabled with the hubs above it.                         *)
LEMMA BelowAncestor ==
  ASSUME Types, Shaped, Parents, RoutesUnique,
         NEW x \in Slots, InUse(x), NEW t \in Below(x), NEW u \in Slots, Live(u),
         NEW m \in 1 .. Len(ctx[u].route), ctx[t].route = SubSeq(ctx[u].route, 1, m)
  PROVE  u \in Below(x)
<1> DEFINE r == ctx[u].route
           L == Len(r)
           Found(k) == \E w \in Below(x) : ctx[w].route = SubSeq(r, 1, k)
           Bad == {k \in m .. L : ~Found(k)}
<1>1. r \in Seq(Nat) /\ L \in Nat /\ m \in 1 .. L /\ m \in Nat
  BY EntryIs
<1>2. Found(m)
  OBVIOUS
<1>3. Bad = {}
  <2> SUFFICES ASSUME Bad # {} PROVE FALSE
    OBVIOUS
  <2> DEFINE k == Min(Bad)
  <2>1. k \in Bad /\ \A j \in Bad : k <= j
    <3>1. Bad \in SUBSET Nat
      <4>1. m .. L \subseteq Nat
        <5> HIDE DEF L
        <5> QED
          BY <1>1
      <4> QED
        BY <4>1
    <3> HIDE DEF Bad
    <3> QED
      BY <3>1, MinIs
  <2>2. k \in m .. L /\ ~Found(k)
    BY <2>1
  <2> HIDE DEF k
  <2>3. k # m
    BY <1>2, <2>2
  <2>4. k - 1 \in m .. L /\ k \in 1 .. L /\ k > 1 /\ k \in Nat
    <3> HIDE DEF L, Found
    <3> QED
      BY <1>1, <2>2, <2>3
  <2>5. Found(k - 1)
    <3>1. k - 1 \notin Bad
      <4> HIDE DEF Bad
      <4> QED
        BY <2>1, <2>4
    <3> HIDE DEF Found
    <3> QED
      BY <2>4, <3>1
  <2>6. PICK v \in Below(x) : ctx[v].route = SubSeq(r, 1, k - 1)
    BY <2>5
  <2>7. PICK w \in Slots : Live(w) /\ ctx[w].route = SubSeq(r, 1, k)
    BY <2>4, Ancestors
  <2>8. ctx[w].parent = SubSeq(r, 1, k - 1)
    <3>1. ctx[w].parent = Front(ctx[w].route)
      BY <2>7 DEF Shaped, Live
    <3>2. Front(SubSeq(r, 1, k)) = SubSeq(r, 1, k - 1)
      <4> HIDE DEF r
      <4> QED
        BY <1>1, <2>4, PrefixIs
    <3> QED
      BY <2>7, <3>1, <3>2
  <2>9. w \in Below(x)
    BY <2>6, <2>7, <2>8, BelowIs DEF Live
  <2> QED
    BY <2>2, <2>7, <2>9
<1>4. Found(L)
  <2>1. L \in m .. L
    <3> HIDE DEF L
    <3> QED
      BY <1>1
  <2> HIDE DEF Found
  <2> QED
    BY <1>3, <2>1
<1>5. PICK w \in Below(x) : ctx[w].route = SubSeq(r, 1, L)
  BY <1>4
<1>6. w \in Slots /\ InUse(w) /\ ctx[w].route = r
  BY <1>1, <1>5, BelowLonger, SubSeqFull
<1>7. w = u
  BY <1>6 DEF RoutesUnique, Live
<1> QED
  BY <1>5, <1>7

-----------------------------------------------------------------------------
(* What a step leaves as it was.                                           *)

LiveKept == \A t \in Slots : Live(t) => Live(t)' /\ ctx'[t].route = ctx[t].route

EntryKept(s) ==
  /\ ctx'[s].route = ctx[s].route /\ ctx'[s].parent = ctx[s].parent
  /\ ctx'[s].speed = ctx[s].speed /\ ctx'[s].tt = ctx[s].tt

(* A slot keeps its parent and its translator while the live slots stay.   *)
LEMMA ServesKept ==
  ASSUME LiveKept, NEW s \in Slots, EntryKept(s)
  PROVE  /\ HasParent(s) => HasParent(s)'
         /\ \A p : Serves(s, p) => Serves(s, p)'
<1>1. HasParent(s) => HasParent(s)'
  BY DEF HasParent, LiveKept, EntryKept
<1>2. ASSUME NEW p, Serves(s, p) PROVE Serves(s, p)'
  <2>1. ctx'[s].route = Route(p) /\ ctx'[s].speed = Speed[p]
    BY <1>2 DEF Serves, EntryKept
  <2>2. Translates(s, p)'
    BY <1>2 DEF Serves, Translates, LiveKept, EntryKept
  <2> QED
    BY <2>1, <2>2 DEF Serves
<1> QED
  BY <1>1, <1>2

(* A step that leaves the slots alone: devices may be lost.                *)
LEMMA SlotsUntouched ==
  ASSUME Inv, UNCHANGED <<slotVars, hcSlot, resets>>, failures' = 0 => failures = 0,
         \A s \in Slots : device'[s] \in {device[s], None}
  PROVE  /\ RoutesUnique' /\ Shaped' /\ Parents' /\ Devices' /\ NoFreedContext' /\ NothingLeaks'
         /\ LiveKept /\ \A s \in Slots : EntryKept(s)
<1>1. RoutesUnique /\ Shaped /\ Parents /\ Devices /\ NoFreedContext /\ NothingLeaks
  BY DEF Inv
<1>2. UNCHANGED <<csz, ctx, dcbaa, contexts, hcSlot, resets>>
  BY DEF slotVars
<1>3. LiveKept /\ \A s \in Slots : EntryKept(s)
  BY <1>2 DEF LiveKept, EntryKept, Live, InUse
<1>4. RoutesUnique' /\ Shaped'
  BY <1>1, <1>2 DEF RoutesUnique, Shaped, InUse
<1>5. Parents'
  BY <1>1, <1>2 DEF Parents, HasParent, Live, InUse
<1>6. Devices'
  <2>1. ASSUME NEW s \in Slots, device'[s] # None
        PROVE  hcSlot'[s] = "addressed" /\ (InUse(s)' => Serves(s, device[s])')
    <3>1. device'[s] = device[s] /\ device[s] # None
      BY <2>1
    <3>2. hcSlot[s] = "addressed" /\ (InUse(s) => Serves(s, device[s]))
      BY <1>1, <3>1 DEF Devices
    <3>3. InUse(s)' => InUse(s)
      BY <1>2 DEF InUse
    <3> QED
      BY <1>2, <3>1, <3>2, <3>3 DEF Serves, Translates, Live, InUse
  <2> QED
    BY <1>1, <1>2, <2>1 DEF Devices
<1>7. NoFreedContext' /\ NothingLeaks'
  BY <1>1, <1>2 DEF NoFreedContext, NothingLeaks, InUse
<1> QED
  BY <1>3, <1>4, <1>5, <1>6, <1>7

-----------------------------------------------------------------------------
(* The steps that leave the slots alone.                                   *)

(* The calls that go on while a device comes or goes.                      *)
LEMMA CallsKept ==
  ASSUME Inv, UNCHANGED <<slotVars, hcSlot, resets, step, at, hub, address>>,
         failures' = 0 => failures = 0, \A s \in Slots : device'[s] \in {device[s], None}
  PROVE  HubServes' /\ NewSlotServes' /\ Called'
<1>1. UNCHANGED <<csz, ctx, dcbaa, contexts, hcSlot, resets>>
  BY DEF slotVars
<1>2. Called /\ HubServes /\ NewSlotServes
  BY DEF Inv
<1>3. HubServes'
  BY <1>1, <1>2 DEF HubServes, Serves, Translates, Live, InUse
<1>4. NewSlotServes'
  BY <1>1, <1>2 DEF NewSlotServes, Serves, Translates, HasParent, Live, InUse
<1>5. Called'
  BY <1>2 DEF Called
<1> QED
  BY <1>3, <1>4, <1>5

(* What is known of the types before a step.                               *)
LEMMA TypesIs ==
  ASSUME Inv
  PROVE  /\ TypeOK /\ Types /\ Called /\ plugged \subseteq Places /\ bus \in [Places -> Addresses \cup {None}]
         /\ port \in [Places -> [enabled : BOOLEAN, changes : Changes]]
         /\ \A p \in Places : /\ port[p].enabled \in BOOLEAN /\ port[p].changes \in Changes
                              /\ port[p] \in [enabled : BOOLEAN, changes : Changes]
         /\ device \in [Slots -> Places \cup {None}] /\ hcSlot \in [Slots -> {"disabled", "enabled", "addressed"}]
         /\ failures \in Nat /\ plugs \in Nat /\ resets \in Nat
         /\ failures <= MaxFailures /\ plugs <= MaxPlugs /\ resets <= MaxResets
         /\ MaxFailures \in Nat /\ MaxPlugs \in Nat /\ MaxResets \in Nat
<1>1. TypeOK /\ Types /\ Called
  BY DEF Inv, Types
<1>2. MaxFailures \in Nat /\ MaxPlugs \in Nat /\ MaxResets \in Nat
  BY SlotsAssumption
<1>3. failures \in 0 .. MaxFailures /\ plugs \in 0 .. MaxPlugs /\ resets \in 0 .. MaxResets
  BY <1>1 DEF TypeOK
<1>4. /\ failures \in Nat /\ plugs \in Nat /\ resets \in Nat
      /\ failures <= MaxFailures /\ plugs <= MaxPlugs /\ resets <= MaxResets
  BY <1>2, <1>3
<1>5. /\ plugged \subseteq Places /\ bus \in [Places -> Addresses \cup {None}]
      /\ port \in [Places -> [enabled : BOOLEAN, changes : Changes]]
      /\ device \in [Slots -> Places \cup {None}] /\ hcSlot \in [Slots -> {"disabled", "enabled", "addressed"}]
  BY <1>1 DEF TypeOK, Types
<1>6. \A p \in Places : /\ port[p].enabled \in BOOLEAN /\ port[p].changes \in Changes
                        /\ port[p] \in [enabled : BOOLEAN, changes : Changes]
  BY <1>5
<1> QED
  BY <1>1, <1>2, <1>4, <1>5, <1>6

(* A port with other bits is a port.                                       *)
LEMMA PortIs ==
  ASSUME NEW e \in BOOLEAN, NEW c \in Changes
  PROVE  [enabled |-> e, changes |-> c] \in [enabled : BOOLEAN, changes : Changes]
  OBVIOUS

(* The types after a step that leaves the slots alone.                     *)
LEMMA TypesKept ==
  ASSUME Types, UNCHANGED <<slotVars, hcSlot, resets>>,
         \A s \in Slots : device'[s] \in {device[s], None}, device' = [s \in Slots |-> device'[s]],
         plugged' \subseteq Places, bus' \in [Places -> Addresses \cup {None}],
         failures' \in 0 .. MaxFailures, plugs' \in 0 .. MaxPlugs,
         port' \in [Places -> [enabled : BOOLEAN, changes : Changes]],
         status' \in [connected : BOOLEAN, enabled : BOOLEAN, changes : Changes],
         step' \in Steps
  PROVE  Types'
<1>1. UNCHANGED <<csz, ctx, dcbaa, contexts, hcSlot, resets>>
  BY DEF slotVars
<1>2. TypeOK'
  BY <1>1 DEF Types, TypeOK
<1>3. device' \in [Slots -> Places \cup {None}]
  <2>1. device \in [Slots -> Places \cup {None}]
    BY DEF Types
  <2>2. \A s \in Slots : device'[s] \in Places \cup {None}
    BY <2>1
  <2> QED
    BY <2>2
<1> QED
  BY <1>1, <1>2, <1>3 DEF Types

(* A device is plugged in.                                                 *)
LEMMA InvPlug == ASSUME Inv, NEW p \in Places, Plug(p) PROVE Inv'
<1>1. /\ plugs < MaxPlugs /\ plugged' = plugged \cup {p}
      /\ port' = [port EXCEPT ![p].changes = @ \cup {"connection"}] /\ plugs' = plugs + 1
      /\ UNCHANGED <<slotVars, hcSlot, device, bus, step, at, hub, status, address, failures, resets>>
  BY DEF Plug, hcVars, busVars
<1>2. plugs' \in 0 .. MaxPlugs /\ failures' \in 0 .. MaxFailures
  BY <1>1, TypesIs
<1>3. port' \in [Places -> [enabled : BOOLEAN, changes : Changes]]
  BY <1>1, TypesIs DEF Changes
<1>4. /\ \A s \in Slots : device'[s] \in {device[s], None}
      /\ device' = [s \in Slots |-> device'[s]]
  BY <1>1, TypesIs
<1>5. Types'
  BY <1>1, <1>2, <1>3, <1>4, TypesIs, TypesKept DEF Types
<1>6. RoutesUnique' /\ Shaped' /\ Parents' /\ Devices' /\ NoFreedContext' /\ NothingLeaks'
  BY <1>1, <1>4, SlotsUntouched
<1>7. HubServes' /\ NewSlotServes' /\ Called'
  BY <1>1, <1>4, CallsKept
<1> QED
  BY <1>5, <1>6, <1>7 DEF Inv

(* A device is pulled out, with all behind it.                             *)
LEMMA InvUnplug == ASSUME Inv, NEW p \in Places, Unplug(p) PROVE Inv'
<1>1. /\ plugs < MaxPlugs /\ plugged' = plugged \ Under(p) /\ plugs' = plugs + 1
      /\ port' = [q \in Places |->
                    IF q = p THEN [enabled |-> FALSE, changes |-> port[p].changes \cup {"connection"}]
                    ELSE IF q \in Under(p) THEN Quiet ELSE port[q]]
      /\ device' = [s \in Slots |-> IF device[s] \in Under(p) THEN None ELSE device[s]]
      /\ UNCHANGED <<slotVars, hcSlot, bus, step, at, hub, status, address, failures, resets>>
  BY DEF Unplug, busVars
<1>2. plugs' \in 0 .. MaxPlugs /\ failures' \in 0 .. MaxFailures /\ plugged' \subseteq Places
  BY <1>1, TypesIs
<1>3. port' \in [Places -> [enabled : BOOLEAN, changes : Changes]]
  <2>1. port[p].changes \cup {"connection"} \in Changes /\ {} \in Changes
    BY TypesIs DEF Changes
  <2>2. /\ [enabled |-> FALSE, changes |-> port[p].changes \cup {"connection"}]
               \in [enabled : BOOLEAN, changes : Changes]
        /\ Quiet \in [enabled : BOOLEAN, changes : Changes]
    BY <2>1, PortIs DEF Quiet
  <2> QED
    BY <1>1, <2>2, TypesIs
<1>4. /\ \A s \in Slots : device'[s] \in {device[s], None}
      /\ device' = [s \in Slots |-> device'[s]]
  BY <1>1
<1>5. Types'
  BY <1>1, <1>2, <1>3, <1>4, TypesIs, TypesKept DEF Types
<1>6. RoutesUnique' /\ Shaped' /\ Parents' /\ Devices' /\ NoFreedContext' /\ NothingLeaks'
  BY <1>1, <1>4, SlotsUntouched
<1>7. HubServes' /\ NewSlotServes' /\ Called'
  BY <1>1, <1>4, CallsKept
<1> QED
  BY <1>5, <1>6, <1>7 DEF Inv

(* The hub that answers has a live slot, made for the place of the hub.    *)
LEMMA InvGetPortStatus == ASSUME Inv, NEW p \in Places, GetPortStatus(p) PROVE Inv'
<1>1. UNCHANGED <<slotVars, hcSlot, device, plugged, port, bus, address, failures, plugs, resets>>
  BY DEF GetPortStatus, hcVars, portVars, counters
<1>2. \/ (/\ PortIsThere(p) /\ at' = p /\ hub' = IF Len(p) = 1 THEN 0 ELSE HubSlot(p)
          /\ status' = [connected |-> p \in plugged, enabled |-> port[p].enabled, changes |-> port[p].changes]
          /\ step' \in {"clear", "clearAgain"})
      \/ (step' = "rest" /\ status' = status)
  BY DEF GetPortStatus
<1>3. /\ \A s \in Slots : device'[s] \in {device[s], None}
      /\ device' = [s \in Slots |-> device'[s]]
  BY <1>1, TypesIs
<1>4. Types'
  <2>1. status' \in [connected : BOOLEAN, enabled : BOOLEAN, changes : Changes]
    <3>1. (p \in plugged) \in BOOLEAN /\ port[p].enabled \in BOOLEAN /\ port[p].changes \in Changes
      BY TypesIs
    <3> DEFINE c == p \in plugged
    <3>2. [connected |-> c, enabled |-> port[p].enabled, changes |-> port[p].changes]
             \in [connected : BOOLEAN, enabled : BOOLEAN, changes : Changes]
      <4> HIDE DEF c
      <4> QED
        BY <3>1 DEF c
    <3> QED
      BY <1>2, <3>2, TypesIs DEF Types
  <2>2. step' \in Steps
    BY <1>2 DEF Steps, CallSteps
  <2>3. plugs' \in 0 .. MaxPlugs /\ failures' \in 0 .. MaxFailures
    BY <1>1, TypesIs
  <2> QED
    BY <1>1, <1>3, <2>1, <2>2, <2>3, TypesIs, TypesKept
<1>5. /\ RoutesUnique' /\ Shaped' /\ Parents' /\ Devices' /\ NoFreedContext' /\ NothingLeaks'
      /\ LiveKept /\ \A s \in Slots : EntryKept(s)
  BY <1>1, <1>3, SlotsUntouched
<1>6. Called' /\ NewSlotServes'
  BY <1>2 DEF Called, NewSlotServes, AddressSteps
<1>7. HubServes'
  <2>1. CASE step' = "rest"
    BY <2>1 DEF HubServes, CallSteps, AddressSteps
  <2>2. CASE PortIsThere(p) /\ at' = p /\ hub' = IF Len(p) = 1 THEN 0 ELSE HubSlot(p)
    <3>1. CASE Len(p) = 1
      BY <2>2, <3>1 DEF HubServes
    <3>2. CASE Len(p) # 1
      <4> DEFINE f == Front(p)
      <4>1. HubSlot(p) # 0 /\ Reaches(HubSlot(p), f)
        BY <2>2, <3>2 DEF PortIsThere, Reaches
      <4>2. HubSlot(p) \in Slots /\ InUse(HubSlot(p))
        BY <4>1, AddressLookup DEF HubSlot
      <4>3. PICK h \in Slots : h = HubSlot(p)
        BY <4>2
      <4>4. hcSlot[h] = "addressed" /\ device[h] = f /\ f # None
        BY <4>1, <4>3, TypesIs, SlotsAssumption DEF Reaches
      <4>5. Live(h) /\ Serves(h, f)
        BY <4>2, <4>3, <4>4 DEF Inv, Devices, Live
      <4>6. Live(h)' /\ Serves(h, f)'
        BY <1>5, <4>5, ServesKept DEF LiveKept
      <4>7. hub' = h /\ Front(at') = f /\ Len(at') # 1
        BY <2>2, <3>2, <4>3
      <4>8. hub' \in Slots /\ Live(hub)' /\ Serves(hub, Front(at))'
        BY <4>6, <4>7 DEF Serves, Translates, Live, InUse
      <4> QED
        BY <4>7, <4>8 DEF HubServes
    <3> QED
      BY <3>1, <3>2
  <2> QED
    BY <1>2, <2>1, <2>2
<1> QED
  BY <1>4, <1>5, <1>6, <1>7 DEF Inv

(* The hub in a call keeps its slot while the live slots stay.             *)
LEMMA HubKept ==
  ASSUME HubServes, step \in CallSteps, UNCHANGED <<at, hub>>, LiveKept,
         \A s \in Slots : Live(s) => EntryKept(s)
  PROVE  HubServes'
<1>1. CASE Len(at) = 1
  BY <1>1 DEF HubServes
<1>2. CASE Len(at) # 1
  <2>1. hub \in Slots /\ Live(hub) /\ Serves(hub, Front(at))
    BY <1>2 DEF HubServes
  <2>2. PICK h \in Slots : h = hub
    BY <2>1
  <2> PICK f : f = Front(at)
    OBVIOUS
  <2>3. Live(h) /\ Serves(h, f)
    BY <2>1, <2>2
  <2>4. Live(h)' /\ Serves(h, f)'
    BY <2>3, ServesKept DEF LiveKept
  <2>5. hub' = h /\ Front(at') = f
    BY <2>2
  <2>6. hub' \in Slots /\ Live(hub)' /\ Serves(hub, Front(at))'
    BY <2>4, <2>5 DEF Serves, Translates, Live, InUse
  <2> QED
    BY <1>2, <2>6 DEF HubServes
<1> QED
  BY <1>1, <1>2

(* The changes that were read are cleared.                                 *)
LEMMA InvClearPortChange == ASSUME Inv, ClearPortChange PROVE Inv'
<1>1. /\ step \in {"clear", "clearAgain"} /\ step' = IF step = "clear" THEN "disable" ELSE "disableAgain"
      /\ port' = [port EXCEPT ![at].changes = port[at].changes \ status.changes]
      /\ UNCHANGED <<slotVars, hcSlot, device, plugged, bus, at, hub, status, address, failures, plugs, resets>>
  BY DEF ClearPortChange, ChangesLeft, hcVars, counters
<1>2. /\ \A s \in Slots : device'[s] \in {device[s], None}
      /\ device' = [s \in Slots |-> device'[s]]
  BY <1>1, TypesIs
<1>3. step \in CallSteps /\ step' \in Steps /\ step' \notin AddressSteps \cup {"rest", "describe"} /\ at \in Places
  BY <1>1, TypesIs DEF CallSteps, Steps, AddressSteps, Called
<1>4. Types'
  <2>1. port[at].changes \ status.changes \in Changes
    BY <1>3, TypesIs DEF Changes
  <2>2. port' \in [Places -> [enabled : BOOLEAN, changes : Changes]]
    BY <1>1, <1>3, <2>1, TypesIs
  <2>3. plugs' \in 0 .. MaxPlugs /\ failures' \in 0 .. MaxFailures
    BY <1>1, TypesIs
  <2> QED
    BY <1>1, <1>2, <1>3, <2>2, <2>3, TypesIs, TypesKept DEF Types
<1>5. /\ RoutesUnique' /\ Shaped' /\ Parents' /\ Devices' /\ NoFreedContext' /\ NothingLeaks'
      /\ LiveKept /\ \A s \in Slots : EntryKept(s)
  BY <1>1, <1>2, SlotsUntouched
<1>6. HubServes'
  BY <1>1, <1>3, <1>5, HubKept DEF Inv
<1>7. Called' /\ NewSlotServes'
  BY <1>1, <1>3 DEF Called, NewSlotServes
<1> QED
  BY <1>4, <1>5, <1>6, <1>7 DEF Inv

(* A port whose connection changed loses its device.                       *)
LEMMA InvDecide == ASSUME Inv, Decide PROVE Inv'
<1>1. /\ step = "decide" /\ step' \in {"rest", "reset"} /\ at' = IF step' = "rest" THEN None ELSE at
      /\ bus' = UsbRemoveDevice(at) \/ bus' = bus
      /\ UNCHANGED <<slotVars, hcSlot, device, plugged, port, hub, status, address, failures, plugs, resets>>
  BY DEF Decide, hcVars, portVars, counters
<1>2. /\ \A s \in Slots : device'[s] \in {device[s], None}
      /\ device' = [s \in Slots |-> device'[s]]
  BY <1>1, TypesIs
<1>3. Types'
  <2>1. step' \in Steps
    BY <1>1 DEF Steps
  <2>2. bus' \in [Places -> Addresses \cup {None}]
    BY <1>1, TypesIs DEF UsbRemoveDevice
  <2>3. plugs' \in 0 .. MaxPlugs /\ failures' \in 0 .. MaxFailures
    BY <1>1, TypesIs
  <2> QED
    BY <1>1, <1>2, <2>1, <2>2, <2>3, TypesIs, TypesKept DEF Types
<1>4. RoutesUnique' /\ Shaped' /\ Parents' /\ Devices' /\ NoFreedContext' /\ NothingLeaks'
  BY <1>1, <1>2, SlotsUntouched
<1>5. Called' /\ HubServes' /\ NewSlotServes'
  BY <1>1, TypesIs DEF Called, HubServes, NewSlotServes, CallSteps, AddressSteps
<1> QED
  BY <1>3, <1>4, <1>5 DEF Inv

(* A device that is reset has no address any more.                         *)
LEMMA InvXhcResetPort == ASSUME Inv, XhcResetPort PROVE Inv'
<1>1. /\ step = "reset" /\ step' = "status"
      /\ UNCHANGED <<slotVars, hcSlot, plugged, bus, at, hub, status, address, failures, plugs, resets>>
  BY DEF XhcResetPort, counters
<1>2. \/ (/\ port' = [port EXCEPT ![at] = [enabled |-> TRUE, changes |-> port[at].changes \cup {"reset"}]]
          /\ device' = [s \in Slots |-> IF device[s] = at THEN None ELSE device[s]])
      \/ UNCHANGED <<port, device>>
  BY DEF XhcResetPort
<1>3. /\ \A s \in Slots : device'[s] \in {device[s], None}
      /\ device' = [s \in Slots |-> device'[s]]
  BY <1>2, TypesIs
<1>4. Types'
  <2>1. step' \in Steps
    BY <1>1 DEF Steps
  <2>2. port' \in [Places -> [enabled : BOOLEAN, changes : Changes]]
    <3>1. at \in Places
      BY <1>1, TypesIs DEF Called
    <3>2. port[at].changes \cup {"reset"} \in Changes
      BY <3>1, TypesIs DEF Changes
    <3>3. [enabled |-> TRUE, changes |-> port[at].changes \cup {"reset"}] \in [enabled : BOOLEAN, changes : Changes]
      BY <3>2, PortIs
    <3> QED
      BY <1>2, <3>3, TypesIs
  <2>3. plugs' \in 0 .. MaxPlugs /\ failures' \in 0 .. MaxFailures
    BY <1>1, TypesIs
  <2> QED
    BY <1>1, <1>3, <2>1, <2>2, <2>3, TypesIs, TypesKept DEF Types
<1>5. RoutesUnique' /\ Shaped' /\ Parents' /\ Devices' /\ NoFreedContext' /\ NothingLeaks'
  BY <1>1, <1>3, SlotsUntouched
<1>6. Called' /\ HubServes' /\ NewSlotServes'
  BY <1>1, TypesIs DEF Called, HubServes, NewSlotServes, CallSteps, AddressSteps
<1> QED
  BY <1>4, <1>5, <1>6 DEF Inv

(* The bus driver goes on with a device that is connected.                 *)
LEMMA InvDecideAgain == ASSUME Inv, DecideAgain PROVE Inv'
<1>1. /\ step = "decideAgain" /\ step' \in {"setAddress", "rest"}
      /\ at' = IF status.connected THEN at ELSE None
      /\ step' # "rest" => at' = at
      /\ UNCHANGED <<slotVars, hcSlot, device, plugged, port, bus, hub, status, address, failures, plugs, resets>>
  BY DEF DecideAgain, hcVars, portVars, counters
<1>2. /\ \A s \in Slots : device'[s] \in {device[s], None}
      /\ device' = [s \in Slots |-> device'[s]]
  BY <1>1, TypesIs
<1>3. Types'
  <2>1. step' \in Steps
    BY <1>1 DEF Steps
  <2>2. plugs' \in 0 .. MaxPlugs /\ failures' \in 0 .. MaxFailures
    BY <1>1, TypesIs
  <2> QED
    BY <1>1, <1>2, <2>1, <2>2, TypesIs, TypesKept DEF Types
<1>4. RoutesUnique' /\ Shaped' /\ Parents' /\ Devices' /\ NoFreedContext' /\ NothingLeaks'
  BY <1>1, <1>2, SlotsUntouched
<1>5. Called' /\ HubServes' /\ NewSlotServes'
  BY <1>1, TypesIs DEF Called, HubServes, NewSlotServes, CallSteps, AddressSteps
<1> QED
  BY <1>3, <1>4, <1>5 DEF Inv

(* A device that answers is one the bus driver knows.                      *)
LEMMA InvDescribe == ASSUME Inv, Describe PROVE Inv'
<1>1. /\ step = "describe" /\ step' = "rest" /\ address' = 0
      /\ bus' = [bus EXCEPT ![at] = address] \/ bus' = bus
      /\ failures' = failures \/ (failures' = failures + 1 /\ MayFail)
      /\ UNCHANGED <<slotVars, hcSlot, device, plugged, port, hub, status, plugs, resets>>
  BY DEF Describe, hcVars, portVars
<1>2. /\ \A s \in Slots : device'[s] \in {device[s], None}
      /\ device' = [s \in Slots |-> device'[s]]
  BY <1>1, TypesIs
<1>3. failures' \in 0 .. MaxFailures /\ (failures' = 0 => failures = 0)
  BY <1>1, TypesIs DEF MayFail
<1>4. Types'
  <2>1. step' \in Steps
    BY <1>1 DEF Steps, CallSteps
  <2>2. bus' \in [Places -> Addresses \cup {None}]
    BY <1>1, TypesIs DEF Called
  <2>3. plugs' \in 0 .. MaxPlugs
    BY <1>1, TypesIs
  <2> QED
    BY <1>1, <1>2, <1>3, <2>1, <2>2, <2>3, TypesIs, TypesKept DEF Types
<1>5. RoutesUnique' /\ Shaped' /\ Parents' /\ Devices' /\ NoFreedContext' /\ NothingLeaks'
  BY <1>1, <1>2, <1>3, SlotsUntouched
<1>6. Called' /\ HubServes' /\ NewSlotServes'
  BY <1>1 DEF Called, HubServes, NewSlotServes, CallSteps, AddressSteps
<1> QED
  BY <1>4, <1>5, <1>6 DEF Inv

-----------------------------------------------------------------------------
(* The steps that change a slot.                                           *)

(* An entry with another address of the bus driver.                        *)
LEMMA EntryWithAddress ==
  ASSUME NEW e \in Entry, NEW a \in Nat
  PROVE  /\ [e EXCEPT !.bus = a] \in Entry /\ [e EXCEPT !.bus = a].bus = a
         /\ [e EXCEPT !.bus = a].enabled = e.enabled /\ [e EXCEPT !.bus = a].id = e.id
         /\ [e EXCEPT !.bus = a].route = e.route /\ [e EXCEPT !.bus = a].parent = e.parent
         /\ [e EXCEPT !.bus = a].speed = e.speed /\ [e EXCEPT !.bus = a].tt = e.tt
         /\ [e EXCEPT !.bus = a].xhci = e.xhci
  BY DEF Entry

(* The address the bus driver chose is recorded, and nothing else.         *)
LEMMA AddressIsRecorded ==
  ASSUME Inv, SetAddress
  PROVE  /\ ctx' \in [Slots -> Entry]
         /\ \A t \in Slots :
              /\ ctx'[t].bus \in Addresses \cup {0, ctx[t].bus} /\ ctx'[t].xhci = ctx[t].xhci
              /\ ctx'[t].enabled = ctx[t].enabled /\ ctx'[t].id = ctx[t].id
              /\ EntryKept(t) /\ (InUse(t)' <=> InUse(t))
         /\ step' = "describe" => address' \in Addresses
<1> DEFINE a == IF FreeAddresses = {} THEN 0 ELSE Min(FreeAddresses)
           cleared == [t \in Slots |-> IF ~ctx[t].enabled /\ ctx[t].id = 0 /\ ctx[t].bus = a
                                       THEN [ctx[t] EXCEPT !.bus = 0] ELSE ctx[t]]
           s == XhcBusDevAddrToSlotId(0)
<1>1. /\ ctx' = ctx \/ ctx' = cleared \/ (ctx' = [cleared EXCEPT ![s].bus = a] /\ s # 0)
      /\ step' = "describe" => a # 0 /\ address' = a
  BY DEF SetAddress
<1>2. a \in Addresses \cup {0} /\ a \in Nat
  <2>1. FreeAddresses \in SUBSET Nat /\ FreeAddresses \subseteq Addresses /\ Addresses \subseteq Nat
    BY SlotsAssumption DEF FreeAddresses
  <2>2. FreeAddresses # {} => Min(FreeAddresses) \in FreeAddresses
    BY <2>1, MinIs
  <2> QED
    BY <2>1, <2>2
<1>3. s # 0 => s \in Slots
  BY AddressLookup
<1>4. \A t \in Slots : ctx[t] \in Entry
  BY TypesIs, EntryIs
<1> DEFINE Same(e, t) ==
      /\ e \in Entry /\ e.bus \in {ctx[t].bus, 0, a}
      /\ e.enabled = ctx[t].enabled /\ e.id = ctx[t].id /\ e.xhci = ctx[t].xhci
      /\ e.route = ctx[t].route /\ e.parent = ctx[t].parent /\ e.speed = ctx[t].speed /\ e.tt = ctx[t].tt
<1>5. ASSUME NEW t \in Slots PROVE Same(ctx[t], t) /\ Same(cleared[t], t) /\ Same([cleared[t] EXCEPT !.bus = a], t)
  <2> HIDE DEF a
  <2>1. cleared[t] = [ctx[t] EXCEPT !.bus = 0] \/ cleared[t] = ctx[t]
    OBVIOUS
  <2>2. Same(ctx[t], t) /\ Same([ctx[t] EXCEPT !.bus = 0], t)
    BY <1>4, EntryWithAddress
  <2>3. Same(cleared[t], t)
    BY <2>1, <2>2
  <2> DEFINE e == cleared[t]
  <2>4. Same(e, t)
    BY <2>3
  <2> HIDE DEF e
  <2>5. Same([e EXCEPT !.bus = a], t)
    BY <1>2, <2>4, EntryWithAddress
  <2>6. e = cleared[t]
    BY DEF e
  <2> HIDE DEF Same, cleared
  <2> QED
    BY <2>2, <2>3, <2>5, <2>6
<1> HIDE DEF a
<1>6. ctx' \in [Slots -> Entry] /\ \A t \in Slots : Same(ctx'[t], t)
  <2>1. cleared \in [Slots -> Entry]
    <3>1. \A t \in Slots : cleared[t] \in Entry
      BY <1>5
    <3> QED
      BY <3>1
  <2>2. CASE ctx' = ctx
    BY <1>5, <2>2, TypesIs DEF Types
  <2>3. CASE ctx' = cleared
    <3> HIDE DEF cleared
    <3> QED
      BY <1>5, <2>1, <2>3
  <2>4. CASE ctx' = [cleared EXCEPT ![s].bus = a] /\ s # 0
    <3> HIDE DEF cleared, s
    <3>1. s \in Slots
      BY <1>3, <2>4
    <3>2. /\ ctx'[s] = [cleared[s] EXCEPT !.bus = a]
          /\ \A t \in Slots : t # s => ctx'[t] = cleared[t]
          /\ ctx' = [t \in Slots |-> ctx'[t]]
      BY <2>1, <2>4, <3>1
    <3>3. \A t \in Slots : Same(ctx'[t], t)
      <4> HIDE DEF Same
      <4> QED
        BY <1>5, <3>1, <3>2
    <3>4. \A t \in Slots : ctx'[t] \in Entry
      BY <3>3
    <3> QED
      BY <3>2, <3>3, <3>4
  <2> QED
    BY <1>1, <2>2, <2>3, <2>4, Zenon
<1>7. \A t \in Slots : EntryKept(t) /\ (InUse(t)' <=> InUse(t))
  BY <1>6 DEF EntryKept, InUse
<1> QED
  BY <1>1, <1>2, <1>6, <1>7

(* The slots and what they are for stay as they are.                       *)
LEMMA InvSetAddress == ASSUME Inv, SetAddress PROVE Inv'
<1>1. /\ step = "setAddress" /\ step' \in {"describe", "rest"} /\ (step' = "describe" => at' = at)
      /\ UNCHANGED <<csz, dcbaa, contexts, hcSlot, device, plugged, port, bus, hub, status, failures, plugs, resets>>
  BY DEF SetAddress, hcVars, portVars, counters
<1>2. /\ ctx' \in [Slots -> Entry]
      /\ \A t \in Slots :
           /\ ctx'[t].bus \in Addresses \cup {0, ctx[t].bus} /\ ctx'[t].xhci = ctx[t].xhci
           /\ ctx'[t].enabled = ctx[t].enabled /\ ctx'[t].id = ctx[t].id
           /\ EntryKept(t) /\ (InUse(t)' <=> InUse(t))
      /\ step' = "describe" => address' \in Addresses
  BY AddressIsRecorded
<1>3. LiveKept /\ \A t \in Slots : EntryKept(t)
  BY <1>1, <1>2 DEF LiveKept, Live, EntryKept
<1>4. TypeOK'
  <2>1. \A t \in Slots : ctx[t].id \in {0, t} /\ ctx[t].bus \in Addresses \cup {0} /\ ctx[t].xhci \in {0, t}
    BY TypesIs DEF TypeOK
  <2>2. \A t \in Slots : ctx'[t].id \in {0, t} /\ ctx'[t].bus \in Addresses \cup {0} /\ ctx'[t].xhci \in {0, t}
    BY <1>2, <2>1
  <2> QED
    BY <1>1, <2>2, TypesIs DEF TypeOK
<1>5. Types'
  <2>1. step' \in Steps
    BY <1>1 DEF Steps, CallSteps
  <2> QED
    BY <1>1, <1>2, <1>4, <2>1, TypesIs DEF Types
<1>6. RoutesUnique' /\ Shaped' /\ Parents' /\ Devices' /\ NoFreedContext' /\ NothingLeaks'
  <2>1. RoutesUnique /\ Shaped /\ Parents /\ Devices /\ NoFreedContext /\ NothingLeaks
    BY DEF Inv
  <2>2. \A t \in Slots : InUse(t)' <=> InUse(t)
    BY <1>2
  <2>3. RoutesUnique' /\ Shaped'
    BY <1>2, <2>1, <2>2 DEF RoutesUnique, Shaped, EntryKept
  <2>4. Parents'
    BY <1>1, <1>3, <2>1, <2>2, ServesKept DEF Parents
  <2>5. Devices'
    <3>1. ASSUME NEW t \in Slots, device'[t] # None
          PROVE  hcSlot'[t] = "addressed" /\ (InUse(t)' => Serves(t, device[t])')
      <4>1. PICK d : d = device[t]
        OBVIOUS
      <4>2. hcSlot[t] = "addressed" /\ (InUse(t) => Serves(t, d))
        BY <1>1, <2>1, <3>1, <4>1 DEF Devices
      <4>3. InUse(t)' => Serves(t, d)'
        BY <1>3, <2>2, <4>2, ServesKept
      <4>4. device'[t] = d
        BY <1>1, <4>1
      <4> QED
        BY <1>1, <4>2, <4>3, <4>4 DEF Serves, Translates
    <3> QED
      BY <3>1 DEF Devices
  <2>6. NoFreedContext' /\ NothingLeaks'
    BY <1>1, <2>1, <2>2 DEF NoFreedContext, NothingLeaks
  <2> QED
    BY <2>3, <2>4, <2>5, <2>6
<1>7. Called' /\ HubServes' /\ NewSlotServes'
  BY <1>1, <1>2, TypesIs DEF Called, HubServes, NewSlotServes, CallSteps, AddressSteps
<1> QED
  BY <1>5, <1>6, <1>7 DEF Inv

(* The controller starts anew: no slot is live, whatever UsbDevContext has. *)
LEMMA InvXhcReset == ASSUME Inv, XhcReset PROVE Inv'
<1>1. /\ step = "rest" /\ resets < MaxResets /\ resets' = resets + 1
      /\ hcSlot' = [s \in Slots |-> "disabled"] /\ device' = [s \in Slots |-> None]
      /\ dcbaa' = {} /\ contexts' = {}
      /\ port' = [p \in Places |-> IF p \in plugged THEN [enabled |-> FALSE, changes |-> {"connection"}]
                                   ELSE Quiet]
      /\ bus' = [p \in Places |-> None]
      /\ UNCHANGED <<csz, ctx, plugged, step, at, hub, status, address, failures, plugs>>
  BY DEF XhcReset
<1>2. resets' \in 0 .. MaxResets /\ resets' # 0
  BY <1>1, TypesIs
<1>3. Types'
  <2>1. port' \in [Places -> [enabled : BOOLEAN, changes : Changes]]
    <3>1. {"connection"} \in Changes /\ {} \in Changes
      BY DEF Changes
    <3>2. /\ [enabled |-> FALSE, changes |-> {"connection"}] \in [enabled : BOOLEAN, changes : Changes]
          /\ Quiet \in [enabled : BOOLEAN, changes : Changes]
      BY <3>1, PortIs DEF Quiet
    <3> QED
      BY <1>1, <3>2
  <2>2. TypeOK'
    BY <1>1, <1>2, TypesIs DEF TypeOK
  <2> QED
    BY <1>1, <2>1, <2>2, TypesIs DEF Types
<1>4. RoutesUnique' /\ Shaped'
  BY <1>1 DEF Inv, RoutesUnique, Shaped, InUse
<1>5. Parents' /\ Devices' /\ NoFreedContext' /\ NothingLeaks'
  BY <1>1, <1>2 DEF Parents, Devices, NoFreedContext, NothingLeaks
<1>6. Called' /\ HubServes' /\ NewSlotServes'
  BY <1>1 DEF Called, HubServes, NewSlotServes, CallSteps, AddressSteps
<1> QED
  BY <1>3, <1>4, <1>5, <1>6 DEF Inv

(* The new slot gets its address and is live, or stays without one.        *)
LEMMA InvPollAddressDevice == ASSUME Inv, PollAddressDevice PROVE Inv'
<1>1. /\ step \in AddressSteps /\ step' \in {"decide", "decideAgain"}
      /\ UNCHANGED <<csz, dcbaa, contexts, plugged, port, bus, at, hub, status, plugs, resets>>
  BY DEF PollAddressDevice, AddressSteps, Decided, portVars
<1>2. \/ (/\ hcSlot' = [hcSlot EXCEPT ![address] = "addressed"] /\ device' = [device EXCEPT ![address] = at]
          /\ ctx' = [ctx EXCEPT ![address].xhci = address] /\ failures' = failures)
      \/ (UNCHANGED <<ctx, hcSlot, device>> /\ (failures' = failures \/ (failures' = failures + 1 /\ MayFail)))
  BY DEF PollAddressDevice, hcVars
<1>3. failures' \in 0 .. MaxFailures /\ (failures' = 0 => failures = 0) /\ plugs' \in 0 .. MaxPlugs
  BY <1>1, <1>2, TypesIs DEF MayFail
<1>4. step' \in Steps /\ at \in Places
  BY <1>1, TypesIs DEF Steps, CallSteps, Called, AddressSteps
<1>5. Called' /\ HubServes' /\ NewSlotServes'
  BY <1>1, <1>4 DEF Called, HubServes, NewSlotServes, CallSteps, AddressSteps
<1>6. CASE UNCHANGED <<ctx, hcSlot, device>>
  <2>1. /\ \A s \in Slots : device'[s] \in {device[s], None}
        /\ device' = [s \in Slots |-> device'[s]]
    BY <1>6, TypesIs
  <2>2. UNCHANGED slotVars
    BY <1>1, <1>6 DEF slotVars
  <2>3. Types'
    BY <1>1, <1>3, <1>4, <1>6, <2>1, <2>2, TypesIs, TypesKept DEF Types
  <2>4. RoutesUnique' /\ Shaped' /\ Parents' /\ Devices' /\ NoFreedContext' /\ NothingLeaks'
    BY <1>1, <1>3, <1>6, <2>1, <2>2, SlotsUntouched
  <2> QED
    BY <1>5, <2>3, <2>4 DEF Inv
<1>7. CASE /\ hcSlot' = [hcSlot EXCEPT ![address] = "addressed"] /\ device' = [device EXCEPT ![address] = at]
           /\ ctx' = [ctx EXCEPT ![address].xhci = address]
  <2>1. /\ address \in Slots /\ InUse(address) /\ hcSlot[address] = "enabled"
        /\ address \in dcbaa /\ HasParent(address) /\ Serves(address, at)
    BY <1>1 DEF Inv, NewSlotServes
  <2>2. PICK n \in Slots : n = address
    BY <2>1
  <2>3. /\ hcSlot'[n] = "addressed" /\ device'[n] = at
        /\ \A s \in Slots : s # n => hcSlot'[s] = hcSlot[s] /\ device'[s] = device[s] /\ ctx'[s] = ctx[s]
        /\ hcSlot' \in [Slots -> {"disabled", "enabled", "addressed"}]
        /\ device' \in [Slots -> Places \cup {None}]
    BY <1>4, <1>7, <2>2, TypesIs DEF Types
  <2>4. /\ ctx' \in [Slots -> Entry] /\ ctx'[n].xhci = n
        /\ ctx'[n].enabled = ctx[n].enabled /\ ctx'[n].id = ctx[n].id /\ ctx'[n].bus = ctx[n].bus
        /\ ctx'[n].route = ctx[n].route /\ ctx'[n].parent = ctx[n].parent
        /\ ctx'[n].speed = ctx[n].speed /\ ctx'[n].tt = ctx[n].tt
    <3>1. ctx[n] \in Entry /\ n \in Nat
      BY TypesIs, EntryIs, SlotsAssumption DEF Slots
    <3>2. ctx'[n] = [ctx[n] EXCEPT !.xhci = n]
      BY <1>7, <2>2, TypesIs DEF Types
    <3>3. [ctx[n] EXCEPT !.xhci = n] \in Entry
      BY <3>1 DEF Entry
    <3>4. ctx' \in [Slots -> Entry]
      BY <1>7, <2>2, <3>2, <3>3, TypesIs DEF Types
    <3> QED
      BY <3>1, <3>2, <3>4 DEF Entry
  <2>5. \A s \in Slots : EntryKept(s) /\ (InUse(s)' <=> InUse(s))
    BY <2>3, <2>4 DEF EntryKept, InUse
  <2>6. LiveKept
    BY <2>3, <2>4, <2>5 DEF LiveKept, Live
  <2>7. TypeOK' /\ Types'
    <3>1. \A s \in Slots : ctx[s].id \in {0, s} /\ ctx[s].bus \in Addresses \cup {0} /\ ctx[s].xhci \in {0, s}
      BY TypesIs DEF TypeOK
    <3>2. \A s \in Slots : ctx'[s].id \in {0, s} /\ ctx'[s].bus \in Addresses \cup {0} /\ ctx'[s].xhci \in {0, s}
      BY <2>3, <2>4, <3>1
    <3>3. TypeOK'
      BY <1>1, <1>3, <2>3, <3>2, TypesIs DEF TypeOK
    <3> QED
      BY <1>1, <1>4, <2>3, <2>4, <3>3, TypesIs DEF Types
  <2>8. RoutesUnique' /\ Shaped'
    BY <2>5 DEF Inv, RoutesUnique, Shaped, EntryKept
  <2>9. Parents'
    <3>1. ASSUME NEW s \in Slots, InUse(s)', resets' = 0 \/ hcSlot'[s] = "addressed" PROVE HasParent(s)'
      <4>1. HasParent(s)
        BY <1>1, <2>1, <2>2, <2>3, <2>5, <3>1 DEF Inv, Parents
      <4> QED
        BY <2>5, <2>6, <4>1, ServesKept
    <3> QED
      BY <3>1 DEF Parents
  <2>10. Devices'
    <3>1. ASSUME NEW s \in Slots, device'[s] # None
          PROVE  hcSlot'[s] = "addressed" /\ (InUse(s)' => Serves(s, device[s])')
      <4>1. PICK d : d = device'[s]
        OBVIOUS
      <4>2. hcSlot'[s] = "addressed" /\ (InUse(s) => Serves(s, d))
        BY <2>1, <2>2, <2>3, <3>1, <4>1 DEF Inv, Devices
      <4>3. InUse(s)' => Serves(s, d)'
        BY <2>5, <2>6, <4>2, ServesKept
      <4> QED
        BY <4>1, <4>2, <4>3 DEF Serves, Translates
    <3> QED
      BY <3>1 DEF Devices
  <2>11. NoFreedContext'
    BY <1>1, <2>1, <2>2, <2>3 DEF Inv, NoFreedContext
  <2>12. NothingLeaks'
    <3>1. \A s \in Slots : hcSlot'[s] # "disabled" <=> hcSlot[s] # "disabled"
      BY <2>1, <2>2, <2>3
    <3> QED
      BY <1>1, <1>3, <2>5, <3>1 DEF Inv, NothingLeaks
  <2> QED
    BY <1>5, <2>7, <2>8, <2>9, <2>10, <2>11, <2>12 DEF Inv
<1> QED
  BY <1>2, <1>6, <1>7

-----------------------------------------------------------------------------
(* The entry of a new slot.                                                *)

(* The prefixes of the place of a hub are those of the places behind it.   *)
LEMMA PlaceIs ==
  ASSUME NEW p \in Places
  PROVE  /\ p \in Seq(Nat) /\ p # << >> /\ Len(p) \in Nat /\ Len(p) >= 1
         /\ SubSeq(p, 1, Len(p)) = p /\ Last(p) = p[Len(p)] /\ Last(p) \in Nat
         /\ Len(p) # 1 =>
              /\ Front(p) \in Places /\ Len(Front(p)) = Len(p) - 1 /\ Len(p) > 1
              /\ \A m \in 1 .. Len(p) - 1 :
                   SubSeq(Front(p), 1, m) = SubSeq(p, 1, m) /\ Front(p)[m] = p[m] /\ p[m] \in Nat
              /\ SubSeq(p, 1, Len(p) - 1) = Front(p)
<1>1. p \in Seq(Nat) /\ p # << >> /\ (Len(p) > 1 => Front(p) \in Places)
  BY SlotsAssumption
<1>2. Len(p) \in Nat /\ Len(p) >= 1 /\ \A i \in 1 .. Len(p) : p[i] \in Nat
  <2>1. Len(p) \in Nat \ {0}
    BY <1>1, EmptySeq
  <2> QED
    BY <1>1, <2>1, LenProperties
<1>3. SubSeq(p, 1, Len(p)) = p
  BY <1>1, SubSeqFull
<1>4. Last(p) = p[Len(p)] /\ Last(p) \in Nat
  BY <1>2 DEF Last
<1>5. ASSUME Len(p) # 1
      PROVE  /\ Front(p) \in Places /\ Len(Front(p)) = Len(p) - 1 /\ Len(p) > 1
             /\ \A m \in 1 .. Len(p) - 1 :
                  SubSeq(Front(p), 1, m) = SubSeq(p, 1, m) /\ Front(p)[m] = p[m] /\ p[m] \in Nat
  <2>1. Len(p) - 1 \in 1 .. Len(p) /\ Len(p) > 1 /\ 1 \in 1 .. Len(p)
    <3>1. \A n \in Nat : n >= 1 /\ n # 1 => n - 1 \in 1 .. n /\ n > 1 /\ 1 \in 1 .. n
      OBVIOUS
    <3> QED
      BY <1>2, <1>5, <3>1
  <2>2. Front(p) \in Places /\ Len(Front(p)) = Len(p) - 1
    BY <1>1, <2>1, PrefixIs DEF Front
  <2>3. ASSUME NEW m \in 1 .. Len(p) - 1
        PROVE  SubSeq(Front(p), 1, m) = SubSeq(p, 1, m) /\ Front(p)[m] = p[m] /\ p[m] \in Nat
    <3>1. m \in 1 .. Len(p) /\ m \in Nat
      BY <1>2
    <3>2. Front(p)[m] = p[m] /\ p[m] \in Nat
      BY <1>1, <1>2, <2>1, <3>1, PrefixIs DEF Front
    <3>3. 1 \in 1 .. Len(p) - 1 - 1 + 1 /\ m \in 1 .. Len(p) - 1 - 1 + 1
      BY <1>2, <2>1
    <3>4. SubSeq(SubSeq(p, 1, Len(p) - 1), 1, m) = SubSeq(p, 1 + 1 - 1, 1 + m - 1)
      BY <1>1, <2>1, <3>3, SubSeqOfSubSeq
    <3>5. 1 + 1 - 1 = 1 /\ 1 + m - 1 = m
      BY <3>1
    <3> QED
      BY <3>2, <3>4, <3>5 DEF Front
  <2> QED
    BY <2>1, <2>2, <2>3
<1> QED
  BY <1>1, <1>2, <1>3, <1>4, <1>5 DEF Front

(* The hub whose translator a device uses is that of its hub, if there is  *)
(* one, or its hub; nothing below a low or full speed hub is faster.       *)
LEMMA HighSpeedHubIs ==
  ASSUME NEW p \in Places
  PROVE  /\ Len(p) = 1 => HighSpeedHub(p) = {}
         /\ Len(p) # 1 /\ HighSpeedHub(Front(p)) # {} =>
              HighSpeedHub(Front(p)) \subseteq HighSpeedHub(p) /\ Speed[p] \in {"low", "full"}
         /\ Len(p) # 1 /\ HighSpeedHub(Front(p)) = {} =>
              HighSpeedHub(p) =
                IF Speed[Front(p)] = "high" /\ Speed[p] \in {"low", "full"} THEN {Len(p) - 1} ELSE {}
<1> DEFINE S(m) == Speed[SubSeq(p, 1, m)]
           L == Len(p)
<1>1. L \in Nat /\ L >= 1 /\ S(L) = Speed[p]
  BY PlaceIs
<1>2. HighSpeedHub(p) = {n \in 1 .. L - 1 : S(n) = "high" /\ \A m \in n + 1 .. L : S(m) \in {"low", "full"}}
  BY DEF HighSpeedHub
<1>3. CASE L = 1
  BY <1>2, <1>3
<1>4. CASE L # 1
  <2> DEFINE q == Front(p)
  <2>1. q \in Places /\ Len(q) = L - 1 /\ L > 1 /\ S(L - 1) = Speed[q]
    BY <1>1, <1>4, PlaceIs
  <2>2. \A m \in 1 .. L - 1 : Speed[SubSeq(q, 1, m)] = S(m)
    BY <1>4, PlaceIs
  <2>3. HighSpeedHub(q) =
          {n \in 1 .. L - 1 - 1 : S(n) = "high" /\ \A m \in n + 1 .. L - 1 : S(m) \in {"low", "full"}}
    <3> HIDE DEF q, S, L
    <3> QED
      BY <1>1, <2>1, <2>2 DEF HighSpeedHub
  <2>4. S(L - 1) \in {"low", "full"} => S(L) \in {"low", "full"}
    BY <1>1, <2>1, SlotsAssumption
  <2> HIDE DEF q, S, L
  <2>5. ASSUME NEW n \in HighSpeedHub(q) PROVE n \in HighSpeedHub(p) /\ Speed[p] \in {"low", "full"}
    <3>1. /\ n \in 1 .. L - 1 - 1 /\ S(n) = "high" /\ \A m \in n + 1 .. L - 1 : S(m) \in {"low", "full"}
      BY <2>3, <2>5
    <3>2. L - 1 \in n + 1 .. L - 1 /\ n \in 1 .. L - 1
      BY <1>1, <2>1, <3>1
    <3>3. S(L) \in {"low", "full"}
      BY <2>4, <3>1, <3>2
    <3>4. \A m \in n + 1 .. L : m \in n + 1 .. L - 1 \/ m = L
      BY <1>1, <3>1
    <3>5. \A m \in n + 1 .. L : S(m) \in {"low", "full"}
      BY <3>1, <3>3, <3>4
    <3> QED
      BY <1>1, <1>2, <3>1, <3>2, <3>3, <3>5
  <2>6. ASSUME NEW n \in HighSpeedHub(p), n # L - 1 PROVE n \in HighSpeedHub(q)
    <3>1. n \in 1 .. L - 1 /\ S(n) = "high" /\ \A m \in n + 1 .. L : S(m) \in {"low", "full"}
      BY <1>2, <2>6
    <3>2. n \in 1 .. L - 1 - 1 /\ \A m \in n + 1 .. L - 1 : m \in n + 1 .. L
      BY <1>1, <2>1, <2>6, <3>1
    <3> QED
      BY <2>3, <3>1, <3>2
  <2>7. L - 1 \in HighSpeedHub(p) <=> Speed[q] = "high" /\ Speed[p] \in {"low", "full"}
    <3>1. L - 1 \in 1 .. L - 1 /\ \A m \in L - 1 + 1 .. L : m = L
      BY <1>1, <2>1
    <3>2. L \in L - 1 + 1 .. L
      BY <1>1
    <3> QED
      BY <1>1, <1>2, <2>1, <3>1, <3>2
  <2>8. HighSpeedHub(q) # {} => HighSpeedHub(q) \subseteq HighSpeedHub(p) /\ Speed[p] \in {"low", "full"}
    BY <2>5
  <2>9. HighSpeedHub(q) = {} =>
          HighSpeedHub(p) = IF Speed[q] = "high" /\ Speed[p] \in {"low", "full"} THEN {L - 1} ELSE {}
    BY <2>6, <2>7
  <2> QED
    BY <1>4, <2>8, <2>9 DEF q, L
<1> QED
  BY <1>3, <1>4

(* What SlotContext makes is right for the place when the entry of the hub *)
(* is right for the place of the hub.                                      *)
LEMMA ContextIs ==
  ASSUME Types, NEW p \in Places, NEW h \in Slots \cup {0},
         IF Len(p) = 1 THEN h = 0 ELSE h \in Slots /\ Live(h) /\ Serves(h, Front(p))
  PROVE  /\ SlotContext(p, h).speed = Speed[p]
         /\ SlotContext(p, h).tt \in [hub : Nat, port : Nat]
         /\ IF HighSpeedHub(p) = {} THEN SlotContext(p, h).tt = NoTT
            ELSE \E n \in HighSpeedHub(p), t \in Slots :
                   /\ Live(t) /\ ctx[t].route = Route(SubSeq(p, 1, n))
                   /\ SlotContext(p, h).tt = [hub |-> t, port |-> p[n + 1]]
<1>1. Slots \subseteq Nat /\ 0 \notin Slots
  BY SlotsAssumption DEF Slots
<1>2. NoTT \in [hub : Nat, port : Nat]
  BY DEF NoTT
<1>3. \A t \in Slots, x \in Nat : [hub |-> t, port |-> x] \in [hub : Nat, port : Nat] /\ [hub |-> t, port |-> x] # NoTT
  BY <1>1 DEF NoTT
<1>4. CASE Len(p) = 1
  <2>1. SlotContext(p, h) = [speed |-> Speed[p], tt |-> NoTT]
    BY <1>4 DEF SlotContext
  <2> QED
    BY <1>2, <1>4, <2>1, HighSpeedHubIs
<1>5. CASE Len(p) # 1
  <2> DEFINE q == Front(p)
  <2>1. /\ h \in Slots /\ h # 0 /\ Live(h) /\ ctx[h].route = Route(q) /\ ctx[h].speed = Speed[q]
        /\ Translates(h, q)
    BY <1>1, <1>5 DEF Serves
  <2>2. /\ q \in Places /\ Len(q) = Len(p) - 1 /\ Len(p) \in Nat /\ Len(p) >= 1
        /\ Last(p) = p[Len(p)] /\ Last(p) \in Nat /\ SubSeq(p, 1, Len(p) - 1) = q
    BY <1>5, PlaceIs
  <2>3. CASE HighSpeedHub(q) = {}
    <3>1. ctx[h].tt = NoTT
      BY <2>1, <2>3 DEF Translates
    <3>2. HighSpeedHub(p) =
            IF Speed[q] = "high" /\ Speed[p] \in {"low", "full"} THEN {Len(p) - 1} ELSE {}
      BY <1>5, <2>3, HighSpeedHubIs
    <3>3. SlotContext(p, h) =
            [speed |-> Speed[p],
             tt |-> IF Speed[q] = "high" /\ Speed[p] \in {"low", "full"}
                    THEN [hub |-> h, port |-> Last(p)] ELSE NoTT]
      BY <2>1, <3>1 DEF SlotContext
    <3>4. CASE Speed[q] = "high" /\ Speed[p] \in {"low", "full"}
      <4>1. SlotContext(p, h).speed = Speed[p] /\ SlotContext(p, h).tt = [hub |-> h, port |-> Last(p)]
        BY <3>3, <3>4
      <4>2. Len(p) - 1 \in HighSpeedHub(p) /\ Len(p) - 1 + 1 = Len(p)
        BY <2>2, <3>2, <3>4
      <4>3. PICK n \in HighSpeedHub(p) : n = Len(p) - 1 /\ p[n + 1] = Last(p) /\ SubSeq(p, 1, n) = q
        BY <2>2, <4>2
      <4> HIDE DEF q
      <4> QED
        BY <1>3, <2>1, <2>2, <4>1, <4>3
    <3>5. CASE ~(Speed[q] = "high" /\ Speed[p] \in {"low", "full"})
      <4>1. SlotContext(p, h).speed = Speed[p] /\ SlotContext(p, h).tt = NoTT
        BY <3>3, <3>5
      <4> QED
        BY <1>2, <3>2, <3>5, <4>1
    <3> QED
      BY <3>4, <3>5
  <2>4. CASE HighSpeedHub(q) # {}
    <3>1. HighSpeedHub(q) \subseteq HighSpeedHub(p) /\ Speed[p] \in {"low", "full"}
      BY <1>5, <2>4, HighSpeedHubIs
    <3>2. PICK n \in HighSpeedHub(q), t \in Slots :
            /\ Live(t) /\ ctx[t].route = Route(SubSeq(q, 1, n))
            /\ ctx[h].tt = [hub |-> t, port |-> q[n + 1]]
      BY <2>1, <2>4 DEF Translates
    <3>3. n \in 1 .. Len(p) - 1 /\ n + 1 \in 1 .. Len(p) - 1
      BY <2>2 DEF HighSpeedHub
    <3>4. SubSeq(q, 1, n) = SubSeq(p, 1, n) /\ q[n + 1] = p[n + 1] /\ p[n + 1] \in Nat
      BY <1>5, <3>3, PlaceIs
    <3>5. ctx[h].tt # NoTT /\ ctx[h].tt \in [hub : Nat, port : Nat]
      BY <1>3, <3>2, <3>4
    <3>6. SlotContext(p, h).speed = Speed[p] /\ SlotContext(p, h).tt = ctx[h].tt
      BY <2>1, <3>1, <3>5 DEF SlotContext
    <3>7. n \in HighSpeedHub(p)
      BY <3>1
    <3> HIDE DEF q
    <3> QED
      BY <3>2, <3>4, <3>5, <3>6, <3>7
  <2> QED
    BY <2>3, <2>4
<1> QED
  BY <1>4, <1>5

(* In a call the route is made from that of the hub, which is found again. *)
LEMMA PollIs ==
  ASSUME Inv, step \in CallSteps
  PROVE  /\ at \in Places /\ PollRoute = Route(at) /\ ParentRoute = Front(Route(at))
         /\ Route(at) \in Seq(Nat) /\ Route(at) # << >> /\ Len(Route(at)) = Len(at)
         /\ ParentRoute \in Seq(Nat) /\ ParentSlot = hub
         /\ IF Len(at) = 1 THEN hub = 0 ELSE hub \in Slots /\ Live(hub) /\ Serves(hub, Front(at))
<1>1. at \in Places
  BY TypesIs DEF CallSteps, AddressSteps, Called
<1>2. at \in Seq(Nat) /\ at # << >> /\ Len(at) \in Nat /\ Len(at) >= 1
  BY <1>1, PlaceIs
<1>3. Route(at) \in Seq(Nat) /\ Len(Route(at)) = Len(at) /\ Route(at) # << >>
  BY <1>2, RouteIs, EmptySeq
<1>4. IF Len(at) = 1 THEN hub = 0 ELSE hub \in Slots /\ Live(hub) /\ Serves(hub, Front(at))
  BY DEF Inv, HubServes
<1>5. 0 \notin Slots
  BY SlotsAssumption DEF Slots
<1>6. ParentRoute = IF Len(at) = 1 THEN << >> ELSE Route(Front(at))
  BY <1>4, <1>5 DEF ParentRoute, Serves
<1>7. PollRoute = Route(at) /\ ParentRoute = Front(Route(at))
  BY <1>2, <1>6, RouteOfPort DEF PollRoute
<1>8. ParentRoute \in Seq(Nat)
  <2>1. CASE Len(at) = 1
    BY <1>6, <2>1, EmptySeq
  <2>2. CASE Len(at) # 1
    <3>1. Front(at) \in Seq(Nat)
      BY <1>1, <2>2, PlaceIs
    <3> QED
      BY <1>6, <2>2, <3>1, RouteIs
  <2> QED
    BY <2>1, <2>2
<1>9. ParentSlot = hub
  <2>1. CASE Len(at) = 1
    BY <1>3, <1>4, <1>7, <2>1 DEF ParentSlot
  <2>2. CASE Len(at) # 1
    <3>1. hub \in Slots /\ InUse(hub) /\ ctx[hub].route = ParentRoute
      BY <1>4, <1>5, <2>2 DEF Live, ParentRoute
    <3>2. XhcRouteStringToSlotId(ParentRoute) = hub
      BY <3>1, RouteLookup DEF Inv
    <3> QED
      BY <1>3, <1>7, <2>2, <3>2 DEF ParentSlot
  <2> QED
    BY <2>1, <2>2
<1> QED
  BY <1>1, <1>3, <1>4, <1>7, <1>8, <1>9

(* A slot is made for the place, or the controller takes one in vain.      *)
LEMMA InvSlotEnabled ==
  ASSUME Inv, step \in {"enable", "enableAgain"}, NEW n \in Slots, hcSlot[n] = "disabled",
         XhcRouteStringToSlotId(PollRoute) = 0,
         hcSlot' = [hcSlot EXCEPT ![n] = "enabled"],
         ctx' = [ctx EXCEPT ![n] = NewEntry(n, at)],
         contexts' = contexts \cup {<<n, csz>>}, dcbaa' = dcbaa \cup {n}, address' = n,
         step' \in AddressSteps,
         UNCHANGED <<csz, device, plugged, port, bus, at, hub, status, failures, plugs, resets>>
  PROVE  Inv'
<1>1. step \in CallSteps /\ step' \in CallSteps /\ step' \in Steps /\ step' \in AddressSteps /\ step' # "rest"
  BY DEF CallSteps, AddressSteps, Steps
<1>2. /\ at \in Places /\ PollRoute = Route(at) /\ ParentRoute = Front(Route(at))
      /\ Route(at) \in Seq(Nat) /\ Route(at) # << >> /\ Len(Route(at)) = Len(at)
      /\ ParentRoute \in Seq(Nat) /\ ParentSlot = hub
      /\ IF Len(at) = 1 THEN hub = 0 ELSE hub \in Slots /\ Live(hub) /\ Serves(hub, Front(at))
  BY <1>1, PollIs
<1>3. PICK p \in Places : p = at
  BY <1>2
<1> DEFINE c == SlotContext(p, hub)
<1>4. /\ c.speed = Speed[p] /\ c.tt \in [hub : Nat, port : Nat]
      /\ IF HighSpeedHub(p) = {} THEN c.tt = NoTT
         ELSE \E i \in HighSpeedHub(p), t \in Slots :
                /\ Live(t) /\ ctx[t].route = Route(SubSeq(p, 1, i))
                /\ c.tt = [hub |-> t, port |-> p[i + 1]]
  <2>1. IF Len(p) = 1 THEN hub = 0 ELSE hub \in Slots /\ Live(hub) /\ Serves(hub, Front(p))
    BY <1>2, <1>3
  <2>2. Types /\ hub \in Slots \cup {0}
    BY <1>2, TypesIs
  <2> QED
    BY <2>1, <2>2, ContextIs
<1>5. NewEntry(n, at) =
        [enabled |-> TRUE, id |-> n, route |-> Route(p), parent |-> Front(Route(p)), bus |-> 0,
         xhci |-> 0, speed |-> c.speed, tt |-> c.tt]
  BY <1>2, <1>3 DEF NewEntry
<1> HIDE DEF c
<1>6. n \in Nat /\ n # 0 /\ Speed[p] \in {"low", "full", "high", "super"}
  BY SlotsAssumption DEF Slots
<1>7. NewEntry(n, at) \in Entry
  BY <1>2, <1>3, <1>4, <1>5, <1>6 DEF Entry
<1>8. ctx' \in [Slots -> Entry]
  BY <1>7, TypesIs DEF Types
<1>9. /\ ctx'[n].enabled = TRUE /\ ctx'[n].id = n /\ ctx'[n].route = Route(p)
      /\ ctx'[n].parent = Front(Route(p)) /\ ctx'[n].bus = 0 /\ ctx'[n].xhci = 0
      /\ ctx'[n].speed = Speed[p] /\ ctx'[n].tt = c.tt
  <2>1. ctx'[n] = NewEntry(n, at)
    BY TypesIs DEF Types
  <2> QED
    BY <1>4, <1>5, <2>1
<1>10. \A s \in Slots : s # n => ctx'[s] = ctx[s] /\ hcSlot'[s] = hcSlot[s]
  BY TypesIs DEF Types
<1>11. hcSlot'[n] = "enabled" /\ hcSlot' \in [Slots -> {"disabled", "enabled", "addressed"}]
  BY TypesIs
<1>12. InUse(n)' /\ \A s \in Slots : s # n => EntryKept(s) /\ (InUse(s)' <=> InUse(s))
  BY <1>6, <1>9, <1>10 DEF InUse, EntryKept
<1>13. LiveKept /\ \A s \in Slots : Live(s) => s # n /\ EntryKept(s)
  BY <1>10, <1>12 DEF LiveKept, Live, InUse
<1>14. Types'
  <2>1. \A s \in Slots : ctx[s].id \in {0, s} /\ ctx[s].bus \in Addresses \cup {0} /\ ctx[s].xhci \in {0, s}
    BY TypesIs DEF TypeOK
  <2>2. \A s \in Slots : ctx'[s].id \in {0, s} /\ ctx'[s].bus \in Addresses \cup {0} /\ ctx'[s].xhci \in {0, s}
    BY <1>9, <1>10, <2>1
  <2>3. dcbaa' \subseteq Slots /\ contexts' \subseteq Slots \X {32, 64}
    BY TypesIs DEF TypeOK
  <2>4. TypeOK'
    BY <1>11, <2>2, <2>3, TypesIs DEF TypeOK
  <2> QED
    BY <1>1, <1>8, <2>4, TypesIs DEF Types
<1>15. \A s \in Slots : s # n /\ InUse(s) => ctx[s].route # Route(p)
  BY <1>2, <1>3, RouteLookup
<1>16. RoutesUnique'
  BY <1>9, <1>12, <1>15 DEF Inv, RoutesUnique, EntryKept
<1>17. Shaped'
  BY <1>2, <1>3, <1>9, <1>12 DEF Inv, Shaped, EntryKept
<1>18. HasParent(n)'
  <2>1. CASE Len(p) = 1
    <3>1. Len(ctx'[n].route) = 1
      BY <1>2, <1>3, <1>9, <2>1
    <3>2. ~(1 > 1)
      OBVIOUS
    <3> QED
      BY <3>1, <3>2, Zenon DEF HasParent
  <2>2. CASE Len(p) # 1
    <3>1. PICK h \in Slots : h = hub
      BY <1>2, <1>3, <2>2
    <3>2. Live(h) /\ ctx[h].route = ParentRoute
      BY <1>2, <1>3, <2>2, <3>1, SlotsAssumption DEF ParentRoute, Slots
    <3>3. Live(h)' /\ ctx'[h].route = ctx'[n].parent
      BY <1>2, <1>3, <1>9, <1>13, <3>2 DEF LiveKept
    <3> QED
      BY <3>3 DEF HasParent
  <2> QED
    BY <2>1, <2>2
<1>19. Serves(n, p)'
  <2>1. Translates(n, p)'
    <3>1. CASE HighSpeedHub(p) = {}
      BY <1>4, <1>9, <3>1 DEF Translates
    <3>2. CASE HighSpeedHub(p) # {}
      <4>1. PICK i \in HighSpeedHub(p), t \in Slots :
              /\ Live(t) /\ ctx[t].route = Route(SubSeq(p, 1, i)) /\ c.tt = [hub |-> t, port |-> p[i + 1]]
        BY <1>4, <3>2
      <4>2. Live(t)' /\ ctx'[t].route = Route(SubSeq(p, 1, i)) /\ ctx'[n].tt = [hub |-> t, port |-> p[i + 1]]
        BY <1>9, <1>13, <4>1 DEF LiveKept
      <4> QED
        BY <3>2, <4>2 DEF Translates
    <3> QED
      BY <3>1, <3>2
  <2> QED
    BY <1>9, <2>1 DEF Serves
<1>20. Parents'
  <2>1. ASSUME NEW s \in Slots, InUse(s)', resets' = 0 \/ hcSlot'[s] = "addressed" PROVE HasParent(s)'
    <3>1. CASE s = n
      BY <1>18, <3>1
    <3>2. CASE s # n
      <4>1. HasParent(s)
        BY <1>10, <1>12, <2>1, <3>2 DEF Inv, Parents
      <4> QED
        BY <1>12, <1>13, <3>2, <4>1, ServesKept
    <3> QED
      BY <3>1, <3>2
  <2> QED
    BY <2>1 DEF Parents
<1>21. Devices'
  <2>1. ASSUME NEW s \in Slots, device'[s] # None
        PROVE  hcSlot'[s] = "addressed" /\ (InUse(s)' => Serves(s, device[s])')
    <3>1. PICK d : d = device[s]
      OBVIOUS
    <3>2. hcSlot[s] = "addressed" /\ (InUse(s) => Serves(s, d)) /\ s # n
      BY <2>1, <3>1 DEF Inv, Devices
    <3>3. InUse(s)' => Serves(s, d)'
      BY <1>12, <1>13, <3>2, ServesKept
    <3>4. device'[s] = d
      BY <3>1
    <3>5. hcSlot'[s] = "addressed"
      BY <1>10, <3>2
    <3> QED
      BY <3>3, <3>4, <3>5 DEF Serves, Translates
  <2> QED
    BY <2>1 DEF Devices
<1>22. HubServes'
  BY <1>1, <1>13, HubKept DEF Inv
<1>23. NewSlotServes' /\ Called'
  <2>1. address' \in Slots /\ InUse(address)' /\ hcSlot'[address'] = "enabled" /\ address' \in dcbaa'
    BY <1>6, <1>9, <1>11 DEF InUse
  <2>2. HasParent(address)'
    BY <1>18 DEF HasParent
  <2>3. Serves(address, at)'
    BY <1>3, <1>19 DEF Serves, Translates
  <2> QED
    BY <1>1, <1>2, <2>1, <2>2, <2>3 DEF NewSlotServes, Called, AddressSteps
<1>24. NoFreedContext'
  BY <1>10, <1>11 DEF Inv, NoFreedContext
<1>25. NothingLeaks'
  <2>1. ASSUME failures' = 0, resets' = 0
        PROVE  LET used == {s \in Slots : InUse(s)'} IN
               /\ contexts' = {<<s, csz>> : s \in used} /\ dcbaa' = used
               /\ {s \in Slots : hcSlot'[s] # "disabled"} = used
    <3> DEFINE was == {s \in Slots : InUse(s)}
               used == {s \in Slots : InUse(s)'}
    <3>1. contexts = {<<s, csz>> : s \in was} /\ dcbaa = was /\ {s \in Slots : hcSlot[s] # "disabled"} = was
      BY <2>1 DEF Inv, NothingLeaks
    <3>2. used = was \cup {n}
      BY <1>12
    <3>3. contexts' = {<<s, csz>> : s \in used} /\ dcbaa' = used
      <4> HIDE DEF was, used
      <4> QED
        BY <3>1, <3>2
    <3>4. {s \in Slots : hcSlot'[s] # "disabled"} = used
      BY <1>10, <1>11, <1>12, <3>1
    <3> QED
      BY <3>3, <3>4
  <2> QED
    BY <2>1 DEF NothingLeaks
<1> QED
  BY <1>14, <1>16, <1>17, <1>20, <1>21, <1>22, <1>23, <1>24, <1>25 DEF Inv

(* A slot is enabled when none has the route; a command that fails may     *)
(* take a slot the driver does not know.                                   *)
LEMMA InvPollEnableSlot == ASSUME Inv, PollEnableSlot PROVE Inv'
<1> DEFINE free == {s \in Slots : hcSlot[s] = "disabled"}
<1>1. /\ step \in {"enable", "enableAgain"}
      /\ UNCHANGED <<csz, device, plugged, port, bus, at, hub, status, plugs, resets>>
  BY DEF PollEnableSlot, portVars
<1>2. CASE /\ SlotIsNeeded
           /\ \E s \in free :
                /\ hcSlot' = [hcSlot EXCEPT ![s] = "enabled"]
                /\ XhcInitializeDeviceSlot(s) \/ XhcInitializeDeviceSlot64(s)
                /\ address' = s
           /\ step' = IF step = "enable" THEN "address" ELSE "addressAgain"
           /\ UNCHANGED <<missed, failures>>
  <2>1. PICK n \in free :
          /\ hcSlot' = [hcSlot EXCEPT ![n] = "enabled"]
          /\ XhcInitializeDeviceSlot(n) \/ XhcInitializeDeviceSlot64(n)
          /\ address' = n
    BY <1>2
  <2>2. /\ ctx' = [ctx EXCEPT ![n] = NewEntry(n, at)]
        /\ contexts' = contexts \cup {<<n, csz>>} /\ dcbaa' = dcbaa \cup {n}
    BY <2>1 DEF XhcInitializeDeviceSlot, XhcInitializeDeviceSlot64, InitializeSlot
  <2>3. XhcRouteStringToSlotId(PollRoute) = 0 /\ step' \in AddressSteps /\ failures' = failures
    BY <1>2 DEF SlotIsNeeded, AddressSteps
  <2>4. n \in Slots /\ hcSlot[n] = "disabled"
    BY <2>1
  <2> QED
    BY <1>1, <2>1, <2>2, <2>3, <2>4, InvSlotEnabled
<1>3. ASSUME step' = Decided, UNCHANGED <<ctx, contexts, dcbaa>> PROVE Called' /\ HubServes' /\ NewSlotServes' /\ step' \in Steps
  <2>1. step' \in {"decide", "decideAgain"}
    BY <1>3 DEF Decided
  <2>2. at \in Places
    BY <1>1, TypesIs DEF Called
  <2> QED
    BY <1>1, <2>1, <2>2 DEF Called, HubServes, NewSlotServes, CallSteps, AddressSteps, Steps
<1>4. CASE /\ SlotIsNeeded /\ (MayFail \/ free = {})
           /\ \E taken \in {t \in SUBSET free : Cardinality(t) <= 1} :
                hcSlot' = [s \in Slots |-> IF s \in taken THEN "enabled" ELSE hcSlot[s]]
           /\ failures' = IF free = {} THEN failures ELSE failures + 1
           /\ missed' = IF free = {} THEN missed \cup {at} ELSE missed
           /\ step' = Decided
           /\ UNCHANGED <<ctx, contexts, dcbaa, address>>
  <2>1. PICK taken \in SUBSET free : hcSlot' = [s \in Slots |-> IF s \in taken THEN "enabled" ELSE hcSlot[s]]
    BY <1>4
  <2>2. /\ \A s \in Slots : hcSlot'[s] = IF s \in taken THEN "enabled" ELSE hcSlot[s]
        /\ \A s \in Slots : s \in taken => hcSlot[s] = "disabled"
        /\ hcSlot' \in [Slots -> {"disabled", "enabled", "addressed"}]
    BY <2>1, TypesIs
  <2>3. \A s \in Slots : (hcSlot'[s] = "addressed" <=> hcSlot[s] = "addressed") /\ (InUse(s)' <=> InUse(s))
    BY <1>4, <2>2 DEF InUse
  <2>4. LiveKept /\ \A s \in Slots : EntryKept(s)
    BY <1>4, <2>3 DEF LiveKept, Live, EntryKept
  <2>5. failures' \in 0 .. MaxFailures /\ (failures' = 0 => failures = 0 /\ taken = {})
    BY <1>4, <2>1, TypesIs DEF MayFail
  <2>6. Types'
    <3>1. TypeOK'
      BY <1>1, <1>4, <2>2, <2>5, TypesIs DEF TypeOK
    <3> QED
      BY <1>1, <1>3, <1>4, <3>1, TypesIs DEF Types
  <2>7. RoutesUnique' /\ Shaped'
    BY <1>4, <2>3 DEF Inv, RoutesUnique, Shaped
  <2>8. Parents'
    <3>1. ASSUME NEW s \in Slots, InUse(s)', resets' = 0 \/ hcSlot'[s] = "addressed" PROVE HasParent(s)'
      <4>1. HasParent(s)
        BY <1>1, <2>3, <3>1 DEF Inv, Parents
      <4> QED
        BY <2>4, <4>1, ServesKept
    <3> QED
      BY <3>1 DEF Parents
  <2>9. Devices'
    <3>1. ASSUME NEW s \in Slots, device'[s] # None
          PROVE  hcSlot'[s] = "addressed" /\ (InUse(s)' => Serves(s, device[s])')
      <4>1. PICK d : d = device[s]
        OBVIOUS
      <4>2. hcSlot[s] = "addressed" /\ (InUse(s) => Serves(s, d))
        BY <1>1, <3>1, <4>1 DEF Inv, Devices
      <4>3. InUse(s)' => Serves(s, d)'
        BY <2>3, <2>4, <4>2, ServesKept
      <4>4. device'[s] = d /\ hcSlot'[s] = "addressed"
        BY <1>1, <2>3, <4>1, <4>2
      <4> QED
        BY <4>3, <4>4 DEF Serves, Translates
    <3> QED
      BY <3>1 DEF Devices
  <2>10. NoFreedContext'
    BY <1>1, <1>4, <2>3 DEF Inv, NoFreedContext
  <2>11. NothingLeaks'
    <3>1. failures' = 0 => \A s \in Slots : hcSlot'[s] = hcSlot[s]
      BY <2>2, <2>5
    <3> QED
      BY <1>1, <1>4, <2>3, <2>5, <3>1 DEF Inv, NothingLeaks
  <2> QED
    BY <1>3, <1>4, <2>6, <2>7, <2>8, <2>9, <2>10, <2>11 DEF Inv
<1>5. CASE ~SlotIsNeeded /\ step' = Decided /\ UNCHANGED <<ctx, contexts, dcbaa, hcSlot, address, missed, failures>>
  <2>1. /\ \A s \in Slots : device'[s] \in {device[s], None}
        /\ device' = [s \in Slots |-> device'[s]]
    BY <1>1, TypesIs
  <2>2. UNCHANGED slotVars
    BY <1>1, <1>5 DEF slotVars
  <2>3. plugs' \in 0 .. MaxPlugs /\ failures' \in 0 .. MaxFailures
    BY <1>1, <1>5, TypesIs
  <2>4. Types'
    BY <1>1, <1>3, <1>5, <2>1, <2>2, <2>3, TypesIs, TypesKept DEF Types
  <2>5. RoutesUnique' /\ Shaped' /\ Parents' /\ Devices' /\ NoFreedContext' /\ NothingLeaks'
    BY <1>1, <1>5, <2>1, <2>2, SlotsUntouched
  <2> QED
    BY <1>3, <1>5, <2>4, <2>5 DEF Inv
<1> QED
  BY <1>2, <1>4, <1>5 DEF PollEnableSlot

(* An entry of a slot that is disabled.                                    *)
LEMMA EntryDisabled ==
  ASSUME NEW e \in Entry, NEW off \in {[e EXCEPT !.enabled = FALSE, !.id = 0], [e EXCEPT !.id = 0]}
  PROVE  /\ off \in Entry /\ off.id = 0 /\ off.enabled \in {FALSE, e.enabled}
         /\ off.route = e.route /\ off.parent = e.parent /\ off.speed = e.speed /\ off.tt = e.tt
         /\ off.bus = e.bus /\ off.xhci = e.xhci
<1>1. CASE off = [e EXCEPT !.enabled = FALSE, !.id = 0]
  BY <1>1 DEF Entry
<1>2. CASE off = [e EXCEPT !.id = 0]
  BY <1>2 DEF Entry
<1> QED
  BY <1>1, <1>2

(* The controller has finitely many slots.                                 *)
LEMMA SlotsAreFew == ASSUME NEW S \in SUBSET Slots PROVE IsFiniteSet(S) /\ Cardinality(S) \in Nat
<1>1. IsFiniteSet(Slots)
  <2>1. 1 \in Int /\ MaxSlotsEn \in Int
    BY SlotsAssumption
  <2> QED
    BY <2>1, FS_Interval DEF Slots
<1>2. IsFiniteSet(S)
  BY <1>1, FS_Subset
<1> QED
  BY <1>2, FS_CardinalityType

(* What is disabled: the slot of the route and the ones behind it, and     *)
(* never the hub of a slot that stays.                                     *)
LEMMA InvSlotsDisabled ==
  ASSUME Inv, step \in {"disable", "disableAgain"}, NEW s \in Slots, s = XhcRouteStringToSlotId(PollRoute),
         NEW failed \in SUBSET Below(s), NEW done \in SUBSET Below(s),
         NotEnabled(Below(s)) \subseteq failed, done \subseteq failed \ NotEnabled(Below(s)),
         failures' = failures + Cardinality(failed \ NotEnabled(Below(s))), failures' <= MaxFailures,
         DisableSlot(s, failed, done, csz), step' \in {"enable", "enableAgain"},
         UNCHANGED <<csz, plugged, port, bus, at, hub, status, address, plugs, resets>>
  PROVE  Inv'
<1> DEFINE B == Below(s)
           off == B \ failed
           injected == failed \ NotEnabled(B)
<1>1. step \in CallSteps /\ step' \in CallSteps /\ step' \in Steps /\ step' \notin AddressSteps
  BY DEF CallSteps, AddressSteps, Steps
<1>2. s # 0 /\ InUse(s) /\ ctx[s].route = PollRoute
  BY RouteLookup, SlotsAssumption DEF Slots
<1>3. Types /\ Shaped /\ Parents /\ RoutesUnique /\ Devices /\ NoFreedContext /\ NothingLeaks
  BY DEF Inv
<1>4. /\ B \in SUBSET Slots /\ s \in B
      /\ \A t \in B : InUse(t) /\ (t # s => Len(ctx[t].route) > Len(ctx[s].route))
      /\ \A c \in Slots, b \in B : InUse(c) /\ ctx[c].parent = ctx[b].route => c \in B
  BY <1>2, <1>3, BelowIs, BelowLonger
<1>5. /\ ctx' = [t \in Slots |->
                   IF t \in off THEN [ctx[t] EXCEPT !.enabled = FALSE, !.id = 0]
                   ELSE IF t \in B \ {s} THEN [ctx[t] EXCEPT !.id = 0]
                   ELSE ctx[t]]
      /\ dcbaa' = dcbaa \ off /\ contexts' = contexts \ {<<t, csz>> : t \in off}
      /\ hcSlot' = [t \in Slots |-> IF t \in off \cup done THEN "disabled" ELSE hcSlot[t]]
      /\ device' = [t \in Slots |-> IF t \in off \cup done THEN None ELSE device[t]]
  BY DEF DisableSlot, FreedContexts
<1>6. IsFiniteSet(injected) /\ Cardinality(injected) \in Nat
  <2>1. injected \in SUBSET Slots
    BY <1>4
  <2> HIDE DEF injected
  <2> QED
    BY <2>1, SlotsAreFew
<1>7. failures' \in 0 .. MaxFailures /\ (failures' = 0 => failures = 0 /\ injected = {})
  <2>1. Cardinality(injected) = 0 => injected = {}
    <3> HIDE DEF injected
    <3> QED
      BY <1>6, FS_EmptySet
  <2>2. failures' = failures + Cardinality(injected)
    OBVIOUS
  <2> HIDE DEF injected
  <2> QED
    BY <1>6, <2>1, <2>2, TypesIs
<1> HIDE DEF B
<1>8. \A t \in Slots :
        /\ ctx'[t] \in Entry /\ EntryKept(t) /\ ctx'[t].bus = ctx[t].bus /\ ctx'[t].xhci = ctx[t].xhci
        /\ ctx'[t].id \in {0, ctx[t].id} /\ ctx'[t].enabled \in {FALSE, ctx[t].enabled}
        /\ t \notin B => ctx'[t] = ctx[t]
        /\ t = s /\ s \in failed => ctx'[t] = ctx[t]
        /\ t \in B /\ (t # s \/ s \notin failed) => ctx'[t].id = 0
  <2>1. ASSUME NEW t \in Slots
        PROVE  /\ ctx'[t] \in Entry /\ EntryKept(t) /\ ctx'[t].bus = ctx[t].bus /\ ctx'[t].xhci = ctx[t].xhci
               /\ ctx'[t].id \in {0, ctx[t].id} /\ ctx'[t].enabled \in {FALSE, ctx[t].enabled}
               /\ t \notin B => ctx'[t] = ctx[t]
               /\ t = s /\ s \in failed => ctx'[t] = ctx[t]
               /\ t \in B /\ (t # s \/ s \notin failed) => ctx'[t].id = 0
    <3>1. ctx[t] \in Entry
      BY <1>3, EntryIs
    <3>2. CASE t \in off
      <4>1. ctx'[t] = [ctx[t] EXCEPT !.enabled = FALSE, !.id = 0]
        BY <1>5, <3>2
      <4>2. t \in B /\ (t = s => s \notin failed)
        BY <3>2 DEF B
      <4>3. PICK e \in Entry : e = ctx[t]
        BY <3>1
      <4>4. ctx'[t] \in {[e EXCEPT !.enabled = FALSE, !.id = 0], [e EXCEPT !.id = 0]}
        BY <4>1, <4>3
      <4>5. /\ ctx'[t] \in Entry /\ ctx'[t].id = 0 /\ ctx'[t].enabled \in {FALSE, e.enabled}
            /\ ctx'[t].route = e.route /\ ctx'[t].parent = e.parent /\ ctx'[t].speed = e.speed
            /\ ctx'[t].tt = e.tt /\ ctx'[t].bus = e.bus /\ ctx'[t].xhci = e.xhci
        BY <4>4, EntryDisabled
      <4> QED
        BY <4>2, <4>3, <4>5 DEF EntryKept
    <3>3. CASE t \notin off /\ t \in B \ {s}
      <4>1. ctx'[t] = [ctx[t] EXCEPT !.id = 0]
        BY <1>5, <3>3
      <4> QED
        BY <3>1, <3>3, <4>1, EntryDisabled DEF EntryKept
    <3>4. CASE t \notin off /\ t \notin B \ {s}
      <4>1. ctx'[t] = ctx[t]
        BY <1>5, <3>4
      <4> QED
        BY <1>4, <3>1, <3>4, <4>1 DEF EntryKept
    <3> QED
      BY <3>2, <3>3, <3>4
  <2> QED
    BY <2>1
<1>9. \A t \in Slots : InUse(t)' <=> InUse(t) /\ (t \notin B \/ (t = s /\ s \in failed))
  BY <1>8 DEF InUse
<1>10. \A t \in Slots :
         /\ hcSlot'[t] = IF t \in off \cup done THEN "disabled" ELSE hcSlot[t]
         /\ device'[t] = IF t \in off \cup done THEN None ELSE device[t]
  BY <1>5
<1>11. \A t \in Slots \ B : hcSlot'[t] = hcSlot[t] /\ device'[t] = device[t]
  BY <1>10 DEF B
<1>12. \A t \in Slots \ B : Live(t) => Live(t)' /\ ctx'[t].route = ctx[t].route
  BY <1>8, <1>9, <1>11 DEF Live
<1>13. Types'
  <2>1. \A t \in Slots : ctx[t].id \in {0, t} /\ ctx[t].bus \in Addresses \cup {0} /\ ctx[t].xhci \in {0, t}
    BY TypesIs DEF TypeOK
  <2>2. \A t \in Slots : ctx'[t].id \in {0, t} /\ ctx'[t].bus \in Addresses \cup {0} /\ ctx'[t].xhci \in {0, t}
    BY <1>8, <2>1
  <2>3. hcSlot' \in [Slots -> {"disabled", "enabled", "addressed"}] /\ device' \in [Slots -> Places \cup {None}]
    BY <1>5, TypesIs
  <2>4. dcbaa' \subseteq Slots /\ contexts' \subseteq Slots \X {32, 64}
    BY <1>5, TypesIs DEF TypeOK
  <2>5. TypeOK'
    BY <1>7, <2>2, <2>3, <2>4, TypesIs DEF TypeOK
  <2>6. ctx' \in [Slots -> Entry]
    <3>1. ctx' = [t \in Slots |-> ctx'[t]]
      BY <1>5
    <3> QED
      BY <1>8, <3>1
  <2> QED
    BY <1>1, <2>3, <2>5, <2>6, TypesIs DEF Types
<1>14. ASSUME NEW u \in Slots, InUse(u), InUse(u)', HasParent(u) PROVE HasParent(u)'
  <2>1. SUFFICES ASSUME Len(ctx[u].route) > 1 PROVE \E t \in Slots : Live(t)' /\ ctx'[t].route = ctx'[u].parent
    BY <1>8 DEF HasParent, EntryKept
  <2>2. PICK t \in Slots : Live(t) /\ ctx[t].route = ctx[u].parent
    BY <1>14, <2>1 DEF HasParent
  <2>3. t \notin B
    <3>1. SUFFICES ASSUME t \in B PROVE FALSE
      OBVIOUS
    <3>2. u \in B
      BY <1>4, <1>14, <2>2, <3>1
    <3>3. u = s
      BY <1>9, <1>14, <3>2
    <3>4. ctx[u].route \in Seq(Nat) /\ Len(ctx[u].route) \in Nat /\ ctx[u].parent = Front(ctx[u].route)
      BY <1>3, <1>14, EntryIs DEF Shaped
    <3>5. Len(ctx[u].route) - 1 \in 1 .. Len(ctx[u].route)
      BY <2>1, <3>4
    <3>6. Len(ctx[t].route) = Len(ctx[u].route) - 1
      BY <2>2, <3>4, <3>5, PrefixIs DEF Front
    <3>7. t = s \/ Len(ctx[t].route) > Len(ctx[s].route)
      BY <1>4, <3>1
    <3> QED
      BY <3>3, <3>4, <3>6, <3>7
  <2>4. Live(t)' /\ ctx'[t].route = ctx[t].route
    BY <1>12, <2>2, <2>3
  <2> QED
    BY <1>8, <2>2, <2>4 DEF EntryKept
<1>15. ASSUME NEW u \in Slots, Live(u), InUse(u)', NEW p \in Places, Serves(u, p) PROVE Serves(u, p)'
  <2>1. ctx'[u].route = Route(p) /\ ctx'[u].speed = Speed[p] /\ ctx'[u].tt = ctx[u].tt /\ ctx[u].route = Route(p)
    BY <1>8, <1>15 DEF Serves, EntryKept
  <2>2. CASE HighSpeedHub(p) = {}
    BY <1>15, <2>1, <2>2 DEF Serves, Translates
  <2>3. CASE HighSpeedHub(p) # {}
    <3>1. PICK n \in HighSpeedHub(p), t \in Slots :
            /\ Live(t) /\ ctx[t].route = Route(SubSeq(p, 1, n)) /\ ctx[u].tt = [hub |-> t, port |-> p[n + 1]]
      BY <1>15, <2>3 DEF Serves, Translates
    <3>2. p \in Seq(Nat) /\ Len(p) \in Nat /\ n \in 1 .. Len(p) /\ n < Len(p) /\ n \in Nat
      BY PlaceIs DEF HighSpeedHub
    <3>3. /\ ctx[t].route = SubSeq(ctx[u].route, 1, n) /\ Len(ctx[u].route) = Len(p)
          /\ ctx[u].route \in Seq(Nat) /\ n \in 1 .. Len(ctx[u].route)
      BY <2>1, <3>1, <3>2, RouteOfPrefix, RouteIs
    <3>4. t \notin B
      <4>1. SUFFICES ASSUME t \in B PROVE FALSE
        OBVIOUS
      <4>2. u \in B
        BY <1>2, <1>3, <1>15, <3>3, <4>1, BelowAncestor DEF B
      <4>3. u = s
        BY <1>9, <1>15, <4>2
      <4>4. Len(ctx[t].route) = n
        BY <3>3, PrefixIs
      <4>5. t = s \/ Len(ctx[t].route) > Len(ctx[s].route)
        BY <1>4, <4>1
      <4> QED
        BY <3>2, <3>3, <4>3, <4>4, <4>5
    <3>5. Live(t)' /\ ctx'[t].route = Route(SubSeq(p, 1, n)) /\ ctx'[u].tt = [hub |-> t, port |-> p[n + 1]]
      BY <1>12, <2>1, <3>1, <3>4
    <3> QED
      BY <2>1, <2>3, <3>5 DEF Serves, Translates
  <2> QED
    BY <2>2, <2>3
<1>16. RoutesUnique' /\ Shaped'
  <2>1. \A t \in Slots :
          /\ InUse(t)' => InUse(t)
          /\ ctx'[t].route = ctx[t].route /\ ctx'[t].parent = ctx[t].parent
    BY <1>8, <1>9 DEF EntryKept
  <2>2. RoutesUnique'
    BY <1>3, <2>1 DEF RoutesUnique
  <2>3. Shaped'
    BY <1>3, <2>1 DEF Shaped
  <2> QED
    BY <2>2, <2>3
<1>17. Parents'
  <2>1. ASSUME NEW u \in Slots, InUse(u)', resets' = 0 \/ hcSlot'[u] = "addressed" PROVE HasParent(u)'
    <3>1. InUse(u) /\ HasParent(u)
      BY <1>3, <1>9, <1>10, <2>1 DEF Parents
    <3> QED
      BY <1>14, <2>1, <3>1
  <2> QED
    BY <2>1 DEF Parents
<1>18. Devices'
  <2>1. ASSUME NEW u \in Slots, device'[u] # None
        PROVE  hcSlot'[u] = "addressed" /\ (InUse(u)' => Serves(u, device[u])')
    <3>1. device'[u] = device[u] /\ hcSlot'[u] = hcSlot[u] /\ device[u] # None /\ device[u] \in Places
      BY <1>10, <2>1, TypesIs
    <3>2. PICK d \in Places : d = device[u]
      BY <3>1
    <3>3. hcSlot[u] = "addressed" /\ (InUse(u) => Serves(u, d))
      BY <1>3, <3>1, <3>2 DEF Devices
    <3>4. InUse(u)' => Serves(u, d)'
      BY <1>9, <1>15, <3>3 DEF Live
    <3>5. device'[u] = d /\ hcSlot'[u] = "addressed"
      BY <3>1, <3>2, <3>3
    <3> QED
      BY <3>4, <3>5 DEF Serves, Translates
  <2> QED
    BY <2>1 DEF Devices
<1>19. HubServes'
  <2>1. CASE Len(at) = 1
    BY <1>1, <2>1 DEF Inv, HubServes
  <2>2. CASE Len(at) # 1
    <3>1. /\ hub \in Slots /\ Live(hub) /\ Serves(hub, Front(at)) /\ at \in Places
          /\ PollRoute = Route(at) /\ Len(Route(at)) = Len(at)
      BY <1>1, <2>2, PollIs
    <3>2. /\ Front(at) \in Places /\ Len(at) \in Nat /\ Len(Front(at)) = Len(at) - 1
          /\ Len(Route(Front(at))) = Len(at) - 1
      BY <2>2, <3>1, PlaceIs, RouteIs
    <3>3. PICK h \in Slots, f \in Places : h = hub /\ f = Front(at)
      BY <3>1, <3>2
    <3>4. Live(h) /\ Serves(h, f) /\ Len(ctx[h].route) = Len(at) - 1 /\ Len(ctx[s].route) = Len(at)
      BY <1>2, <3>1, <3>2, <3>3 DEF Serves
    <3>5. h \notin B
      <4>1. \A n \in Nat : n - 1 # n /\ ~(n - 1 > n)
        OBVIOUS
      <4> QED
        BY <1>4, <3>2, <3>4, <4>1
    <3>6. Live(h)' /\ Serves(h, f)'
      BY <1>12, <1>15, <3>4, <3>5 DEF Live
    <3>7. hub' = h /\ Front(at') = f
      BY <3>3
    <3>8. hub' \in Slots /\ Live(hub)' /\ Serves(hub, Front(at))'
      BY <3>6, <3>7 DEF Serves, Translates, Live, InUse
    <3> QED
      BY <2>2, <3>8 DEF HubServes
  <2> QED
    BY <2>1, <2>2
<1>20. Called' /\ NewSlotServes'
  <2>1. at \in Places
    BY <1>1, PollIs
  <2> QED
    BY <1>1, <2>1 DEF Called, NewSlotServes
<1>21. NoFreedContext'
  BY <1>3, <1>5, <1>10 DEF NoFreedContext
<1>22. NothingLeaks'
  <2>1. ASSUME failures' = 0, resets' = 0
        PROVE  LET used == {t \in Slots : InUse(t)'} IN
               /\ contexts' = {<<t, csz>> : t \in used} /\ dcbaa' = used
               /\ {t \in Slots : hcSlot'[t] # "disabled"} = used
    <3> DEFINE was == {t \in Slots : InUse(t)}
               used == {t \in Slots : InUse(t)'}
    <3>1. contexts = {<<t, csz>> : t \in was} /\ dcbaa = was /\ {t \in Slots : hcSlot[t] # "disabled"} = was
      BY <1>3, <1>7, <2>1 DEF NothingLeaks
    <3>2. NotEnabled(B) = {}
      BY <1>4, <3>1 DEF NotEnabled
    <3>3. failed = {} /\ done = {}
      BY <1>7, <2>1, <3>2 DEF B
    <3>4. used = was \ B /\ off = B /\ B \subseteq was
      BY <1>4, <1>9, <3>3
    <3>5. contexts' = {<<t, csz>> : t \in used} /\ dcbaa' = used
      <4> HIDE DEF was, used, off
      <4>1. contexts' = contexts \ {<<t, csz>> : t \in off} /\ dcbaa' = dcbaa \ off
        BY <1>5
      <4>2. ASSUME NEW x \in contexts' PROVE x \in {<<t, csz>> : t \in used}
        <5>1. x \in contexts /\ x \notin {<<t, csz>> : t \in off}
          BY <4>1, <4>2
        <5>2. PICK t \in was : x = <<t, csz>>
          BY <3>1, <5>1
        <5>3. t \notin off
          BY <5>1, <5>2
        <5> QED
          BY <3>4, <5>2, <5>3
      <4>3. ASSUME NEW t \in used PROVE <<t, csz>> \in contexts'
        <5>1. t \in was /\ t \notin off
          BY <3>4, <4>3
        <5> QED
          BY <3>1, <4>1, <5>1
      <4> QED
        BY <3>1, <3>4, <4>1, <4>2, <4>3
    <3>6. {t \in Slots : hcSlot'[t] # "disabled"} = used
      BY <1>10, <3>1, <3>3, <3>4
    <3> QED
      BY <3>5, <3>6
  <2> QED
    BY <2>1 DEF NothingLeaks
<1> QED
  BY <1>13, <1>16, <1>17, <1>18, <1>19, <1>20, <1>21, <1>22 DEF Inv

(* A check that finds a change disables what is at the port and behind it. *)
LEMMA InvPollDisable == ASSUME Inv, PollDisable PROVE Inv'
<1> DEFINE s == IF PollIsNeeded THEN XhcRouteStringToSlotId(PollRoute) ELSE 0
<1>1. /\ step \in {"disable", "disableAgain"} /\ step' \in {"enable", "enableAgain"}
      /\ UNCHANGED <<csz, plugged, port, bus, at, hub, status, address, plugs, resets>>
  BY DEF PollDisable, portVars
<1>2. CASE s = 0
  <2>1. UNCHANGED <<ctx, dcbaa, contexts, hcSlot, device, failures>>
    BY <1>2 DEF PollDisable, hcVars
  <2>2. /\ \A t \in Slots : device'[t] \in {device[t], None}
        /\ device' = [t \in Slots |-> device'[t]]
    BY <2>1, TypesIs
  <2>3. UNCHANGED slotVars
    BY <1>1, <2>1 DEF slotVars
  <2>4. step \in CallSteps /\ step' \in Steps /\ step' \notin AddressSteps /\ step' # "describe"
    BY <1>1 DEF CallSteps, AddressSteps, Steps
  <2>5. plugs' \in 0 .. MaxPlugs /\ failures' \in 0 .. MaxFailures
    BY <1>1, <2>1, TypesIs
  <2>6. Types'
    BY <1>1, <2>1, <2>2, <2>3, <2>4, <2>5, TypesIs, TypesKept DEF Types
  <2>7. /\ RoutesUnique' /\ Shaped' /\ Parents' /\ Devices' /\ NoFreedContext' /\ NothingLeaks'
        /\ LiveKept /\ \A t \in Slots : EntryKept(t)
    BY <1>1, <2>1, <2>2, <2>3, SlotsUntouched
  <2>8. HubServes'
    BY <1>1, <2>4, <2>7, HubKept DEF Inv
  <2>9. Called' /\ NewSlotServes'
    BY <1>1, <2>4, PollIs DEF Called, NewSlotServes
  <2> QED
    BY <2>6, <2>7, <2>8, <2>9 DEF Inv
<1>3. CASE s # 0
  <2>1. PICK failed \in SUBSET Below(s), done \in SUBSET Below(s) :
          /\ NotEnabled(Below(s)) \subseteq failed /\ done \subseteq failed \ NotEnabled(Below(s))
          /\ failures' = failures + Cardinality(failed \ NotEnabled(Below(s))) /\ failures' <= MaxFailures
          /\ XhcDisableSlotCmd(s, failed, done) \/ XhcDisableSlotCmd64(s, failed, done)
    BY <1>3 DEF PollDisable
  <2>2. s = XhcRouteStringToSlotId(PollRoute) /\ s \in Slots
    BY <1>3, RouteLookup
  <2>3. DisableSlot(s, failed, done, csz)
    BY <2>1 DEF XhcDisableSlotCmd, XhcDisableSlotCmd64
  <2>4. PICK n \in Slots : n = s
    BY <2>2
  <2> HIDE DEF s
  <2> QED
    BY <1>1, <2>1, <2>2, <2>3, <2>4, InvSlotsDisabled
<1> QED
  BY <1>2, <1>3

-----------------------------------------------------------------------------
(* The invariant.                                                          *)

(* At the start there is no slot and no device.                            *)
LEMMA InvInit == ASSUME Init PROVE Inv
<1>1. /\ csz \in {32, 64} /\ ctx = [s \in Slots |-> Zeroed] /\ dcbaa = {} /\ contexts = {}
      /\ hcSlot = [s \in Slots |-> "disabled"] /\ device = [s \in Slots |-> None]
      /\ plugged = {} /\ port = [p \in Places |-> Quiet] /\ bus = [p \in Places |-> None]
      /\ step = "rest" /\ status = NoStatus
      /\ failures = 0 /\ plugs = 0 /\ resets = 0
  BY DEF Init
<1>2. Zeroed \in Entry /\ Zeroed.id = 0 /\ Zeroed.enabled = FALSE /\ Zeroed.bus = 0 /\ Zeroed.xhci = 0
  <2>1. << >> \in Seq(Nat)
    BY EmptySeq
  <2> QED
    BY <2>1 DEF Zeroed, Entry, NoTT
<1>3. \A s \in Slots : ctx[s] = Zeroed /\ ~InUse(s)
  BY <1>1, <1>2 DEF InUse
<1>4. {} \in Changes /\ Quiet \in [enabled : BOOLEAN, changes : Changes]
      /\ NoStatus \in [connected : BOOLEAN, enabled : BOOLEAN, changes : Changes]
  <2>1. {} \in Changes
    BY DEF Changes
  <2> QED
    BY <2>1 DEF Quiet, NoStatus
<1>5. MaxFailures \in Nat /\ MaxPlugs \in Nat /\ MaxResets \in Nat
  BY SlotsAssumption
<1>6. TypeOK
  BY <1>1, <1>2, <1>3, <1>5 DEF TypeOK
<1>7. Types
  BY <1>1, <1>2, <1>4, <1>6 DEF Types, Steps, CallSteps
<1>8. RoutesUnique /\ Shaped /\ Parents /\ Devices /\ NoFreedContext
  BY <1>1, <1>3 DEF RoutesUnique, Shaped, Parents, Devices, NoFreedContext
<1>9. NothingLeaks
  BY <1>1, <1>3 DEF NothingLeaks
<1>10. Called /\ HubServes /\ NewSlotServes
  BY <1>1 DEF Called, HubServes, NewSlotServes, CallSteps, AddressSteps
<1> QED
  BY <1>7, <1>8, <1>9, <1>10 DEF Inv

(* Every step keeps the invariant.                                         *)
LEMMA InvNext == ASSUME Inv, [Next]_vars PROVE Inv'
<1>1. CASE UNCHANGED vars
  <2>1. UNCHANGED <<csz, ctx, dcbaa, contexts, hcSlot, device, plugged, port, bus, step, at, hub, status,
                    address, failures, plugs, resets>>
    BY <1>1 DEF vars, slotVars, hcVars, portVars, busVars, counters
  <2>2. /\ \A s \in Slots : device'[s] \in {device[s], None}
        /\ device' = [s \in Slots |-> device'[s]]
    BY <2>1, TypesIs
  <2>3. UNCHANGED slotVars
    BY <2>1 DEF slotVars
  <2>4. plugs' \in 0 .. MaxPlugs /\ failures' \in 0 .. MaxFailures
    BY <2>1, TypesIs
  <2>5. Types'
    BY <2>1, <2>2, <2>3, <2>4, TypesIs, TypesKept DEF Types
  <2>6. RoutesUnique' /\ Shaped' /\ Parents' /\ Devices' /\ NoFreedContext' /\ NothingLeaks'
    BY <2>1, <2>2, <2>3, SlotsUntouched
  <2>7. HubServes' /\ NewSlotServes' /\ Called'
    BY <2>1, <2>2, <2>3, CallsKept
  <2> QED
    BY <2>5, <2>6, <2>7 DEF Inv
<1>2. CASE \E p \in Places : Plug(p) \/ Unplug(p)
  BY <1>2, InvPlug, InvUnplug
<1>3. CASE \E p \in Places : GetPortStatus(p)
  BY <1>3, InvGetPortStatus
<1>4. CASE ClearPortChange
  BY <1>4, InvClearPortChange
<1>5. CASE PollDisable
  BY <1>5, InvPollDisable
<1>6. CASE PollEnableSlot
  BY <1>6, InvPollEnableSlot
<1>7. CASE PollAddressDevice
  BY <1>7, InvPollAddressDevice
<1>8. CASE Decide
  BY <1>8, InvDecide
<1>9. CASE XhcResetPort
  BY <1>9, InvXhcResetPort
<1>10. CASE DecideAgain
  BY <1>10, InvDecideAgain
<1>11. CASE SetAddress
  BY <1>11, InvSetAddress
<1>12. CASE Describe
  BY <1>12, InvDescribe
<1>13. CASE XhcReset
  BY <1>13, InvXhcReset
<1> QED
  BY <1>1, <1>2, <1>3, <1>4, <1>5, <1>6, <1>7, <1>8, <1>9, <1>10, <1>11, <1>12, <1>13 DEF Next, Driver

(* The translator of the invariant is that of the property: there is one   *)
(* last high speed hub, and its route finds its slot.                      *)
LEMMA InvIsEnough == ASSUME Inv PROVE SlotInvariant
<1>1. TypeOK /\ RoutesUnique /\ NoFreedContext /\ NothingLeaks /\ Parents /\ Devices
  BY TypesIs DEF Inv
<1>2. NoOrphans
  <2>1. ASSUME resets = 0, NEW s \in Slots, InUse(s), Len(ctx[s].route) > 1
        PROVE  XhcRouteStringToSlotId(ctx[s].parent) # 0
    <3>1. PICK t \in Slots : Live(t) /\ ctx[t].route = ctx[s].parent
      BY <1>1, <2>1 DEF Parents, HasParent
    <3> QED
      BY <3>1, RouteLookup DEF Live
  <2> QED
    BY <2>1 DEF NoOrphans
<1>3. TranslatorIsThere
  <2>1. ASSUME NEW s \in Slots, InUse(s), NEW p \in Places, p = device[s], HighSpeedHub(p) # {}
        PROVE  LET n == Max(HighSpeedHub(p)) IN
               ctx[s].tt = [hub |-> XhcRouteStringToSlotId(Route(SubSeq(p, 1, n))), port |-> p[n + 1]]
    <3>1. p # None
      BY SlotsAssumption
    <3>2. PICK n \in HighSpeedHub(p), t \in Slots :
            /\ Live(t) /\ ctx[t].route = Route(SubSeq(p, 1, n)) /\ ctx[s].tt = [hub |-> t, port |-> p[n + 1]]
      BY <1>1, <2>1, <3>1 DEF Devices, Serves, Translates
    <3>3. ASSUME NEW m \in HighSpeedHub(p) PROVE m = n
      <4>1. Len(p) \in Nat
        BY PlaceIs
      <4>2. /\ m \in 1 .. Len(p) - 1 /\ Speed[SubSeq(p, 1, m)] = "high"
            /\ \A i \in m + 1 .. Len(p) : Speed[SubSeq(p, 1, i)] \in {"low", "full"}
            /\ n \in 1 .. Len(p) - 1 /\ Speed[SubSeq(p, 1, n)] = "high"
            /\ \A i \in n + 1 .. Len(p) : Speed[SubSeq(p, 1, i)] \in {"low", "full"}
        BY DEF HighSpeedHub
      <4>3. m < n => n \in m + 1 .. Len(p)
        BY <4>1, <4>2
      <4>4. n < m => m \in n + 1 .. Len(p)
        BY <4>1, <4>2
      <4>5. m < n \/ n < m \/ m = n
        BY <4>1, <4>2
      <4> QED
        BY <4>2, <4>3, <4>4, <4>5
    <3>4. HighSpeedHub(p) = {n}
      BY <3>3
    <3>5. Max(HighSpeedHub(p)) = n
      <4>1. n \in Nat
        BY PlaceIs DEF HighSpeedHub
      <4>2. n >= n
        BY <4>1
      <4> QED
        BY <3>4, <4>2 DEF Max
    <3>6. XhcRouteStringToSlotId(Route(SubSeq(p, 1, n))) = t
      BY <1>1, <3>2, RouteLookup DEF Live
    <3> QED
      BY <3>2, <3>5, <3>6
  <2>2. ASSUME NEW s \in Slots, InUse(s), NEW p \in Places, p = device[s], HighSpeedHub(p) = {}
        PROVE  ctx[s].tt = NoTT
    <3>1. p # None
      BY SlotsAssumption
    <3> QED
      BY <1>1, <2>2, <3>1 DEF Devices, Serves, Translates
  <2>3. \A s \in Slots : device[s] # None => device[s] \in Places
    BY TypesIs
  <2> QED
    BY <2>1, <2>2, <2>3 DEF TranslatorIsThere
<1> QED
  BY <1>1, <1>2, <1>3 DEF SlotInvariant

(* Whatever is plugged, pulled out or fails: the driver's slots, the       *)
(* contexts and the slots of the controller agree.                         *)
THEOREM SlotsAgree == Spec => []SlotInvariant
<1>1. Init => Inv
  BY InvInit
<1>2. Inv /\ [Next]_vars => Inv'
  BY InvNext
<1>3. Inv => SlotInvariant
  BY InvIsEnough
<1> QED
  BY <1>1, <1>2, <1>3, PTL DEF Spec

-----------------------------------------------------------------------------
(* What the bus driver has seen of the ports.                              *)

Conn(p) == "connection" \in port[p].changes
Ahead(p) == {q \in Places : IsPrefix(q, p) /\ q # p}

FirstSteps == {"clear", "disable", "enable", "decide", "reset"}
SecondSteps == {"status", "clearAgain", "disableAgain", "enableAgain", "addressAgain"}

(* A device hangs on devices. What the controller addresses has not been   *)
(* pulled out, nor has a hub in front of it.                               *)
Plugs ==
  /\ \A p \in plugged : Ahead(p) \subseteq plugged
  /\ \A p \in Places : port[p].enabled => p \in plugged
  /\ \A s \in Slots : device[s] # None =>
       device[s] \in plugged /\ ~Conn(device[s]) /\ \A q \in Ahead(device[s]) : ~Conn(q)

(* The end of a reset is seen in the call that asked for the reset.        *)
Resets ==
  /\ \A p \in Places : "reset" \in port[p].changes =>
       /\ p = at
       /\ (step = "status" /\ PortIsThere(at)) \/ (step = "clearAgain" /\ "reset" \in status.changes)
  /\ step = "status" /\ port[at].enabled => "reset" \in port[at].changes

(* An enabled port has the device that was reset, but for a short while.   *)
Enabled ==
  /\ \A p \in Places : Conn(p) /\ port[p].enabled =>
       p = at /\ (step = "status" \/ (step = "clearAgain" /\ "connection" \in status.changes))
  /\ step \in FirstSteps => ~port[at].enabled /\ "connection" \in status.changes
  /\ step \in {"clear", "disable", "enable"} => ~status.enabled
  /\ step # "address"
  /\ step \in SecondSteps /\ port[at].enabled => \A q \in Ahead(at) : ~Conn(q)

Noticed == plugged \ missed

(* Behind a change there are changes, and behind a port that is looked at. *)
BehindChanges ==
  /\ \A p \in Noticed, q \in Places : q \in Ahead(p) /\ Conn(q) => Conn(p)
  /\ step # "rest" => \A p \in Noticed : at \in Ahead(p) => Conn(p)

(* The call does what the device at the port needs.                        *)
Pending ==
  at \in Noticed =>
    /\ step = "clear" => PortIsThere(at) /\ status.connected
    /\ step \in FirstSteps /\ ~Conn(at) => PortIsThere(at) /\ status.connected
    /\ step = "status" /\ ~Conn(at) => port[at].enabled
    /\ step = "clearAgain" => ~Conn(at)
    /\ step \in {"clearAgain", "disableAgain", "enableAgain"} /\ ~Conn(at) =>
         status.connected /\ status.enabled /\ "reset" \in status.changes

AwaitSlot == FirstSteps \cup {"status", "clearAgain", "disableAgain", "enableAgain"}

(* A device has a slot, or a change that will be seen, or is being served. *)
Waiting ==
  failures = 0 /\ resets = 0 =>
    \A p \in Noticed : Conn(p) \/ XhcRouteStringToSlotId(Route(p)) # 0 \/ (p = at /\ step \in AwaitSlot)

PortInv == Plugs /\ Resets /\ Enabled /\ BehindChanges /\ Pending /\ Waiting

(* A prefix of a prefix.                                                   *)
LEMMA PrefixOfPrefix ==
  ASSUME NEW r \in Seq(Nat), NEW n \in 1 .. Len(r), NEW m \in 1 .. n
  PROVE  SubSeq(SubSeq(r, 1, n), 1, m) = SubSeq(r, 1, m)
<1>1. Len(r) \in Nat /\ n \in Nat /\ m \in Nat /\ 1 \in 1 .. Len(r) /\ n - 1 + 1 = n
  OBVIOUS
<1>2. 1 \in 1 .. n - 1 + 1 /\ m \in 1 .. n - 1 + 1
  BY <1>1
<1>3. SubSeq(SubSeq(r, 1, n), 1, m) = SubSeq(r, 1 + 1 - 1, 1 + m - 1)
  BY <1>1, <1>2, SubSeqOfSubSeq
<1>4. 1 + 1 - 1 = 1 /\ 1 + m - 1 = m
  BY <1>1
<1> QED
  BY <1>3, <1>4

(* A place in front of another is a prefix of it.                          *)
LEMMA IsPrefixIs ==
  ASSUME NEW q \in Places, NEW p \in Places
  PROVE  /\ IsPrefix(q, p) <=> Len(q) \in 1 .. Len(p) /\ q = SubSeq(p, 1, Len(q))
         /\ IsPrefix(q, p) /\ Len(q) = Len(p) => q = p
<1>1. /\ q = SubSeq(q, 1, Len(q)) /\ Len(q) \in Nat /\ Len(q) >= 1
      /\ p = SubSeq(p, 1, Len(p)) /\ Len(p) \in Nat /\ Len(p) >= 1
  BY PlaceIs
<1>2. Len(q) <= Len(p) <=> Len(q) \in 1 .. Len(p)
  <2>1. \A m, n \in Nat : m >= 1 => (m <= n <=> m \in 1 .. n)
    OBVIOUS
  <2> QED
    BY <1>1, <2>1
<1>3. IsPrefix(q, p) <=> Len(q) \in 1 .. Len(p) /\ q = SubSeq(p, 1, Len(q))
  BY <1>1, <1>2 DEF IsPrefix
<1> QED
  BY <1>1, <1>3

(* What is in front of and behind places.                                  *)
LEMMA AheadIs ==
  ASSUME NEW p \in Places
  PROVE  /\ p \in Under(p)
         /\ Len(p) = 1 => Ahead(p) = {}
         /\ Len(p) # 1 => Ahead(p) = {Front(p)} \cup Ahead(Front(p))
<1>1. /\ p \in Seq(Nat) /\ SubSeq(p, 1, Len(p)) = p /\ Len(p) \in Nat /\ Len(p) >= 1 /\ Len(p) \in 1 .. Len(p)
  BY PlaceIs
<1>2. p \in Under(p)
  BY <1>1, IsPrefixIs DEF Under
<1>3. ASSUME Len(p) = 1, NEW q \in Ahead(p) PROVE FALSE
  <2>1. q \in Places /\ Len(q) \in 1 .. 1 /\ IsPrefix(q, p) /\ q # p
    BY <1>3, IsPrefixIs DEF Ahead
  <2>2. Len(q) = Len(p)
    BY <1>3, <2>1
  <2> QED
    BY <2>1, <2>2, IsPrefixIs
<1>4. ASSUME Len(p) # 1 PROVE Ahead(p) = {Front(p)} \cup Ahead(Front(p))
  <2>1. PICK f \in Places : f = Front(p)
    BY <1>4, PlaceIs
  <2>2. /\ Len(f) = Len(p) - 1 /\ Len(p) > 1 /\ SubSeq(p, 1, Len(p) - 1) = f
        /\ \A m \in 1 .. Len(p) - 1 : SubSeq(f, 1, m) = SubSeq(p, 1, m)
    BY <1>4, <2>1, PlaceIs
  <2>3. ASSUME NEW q \in Places
        PROVE  q \in Ahead(p) <=> q = f \/ q \in Ahead(f)
    <3>1. Len(q) \in Nat /\ Len(q) >= 1
      BY PlaceIs
    <3>2. q = f => Len(q) \in 1 .. Len(p) /\ q = SubSeq(p, 1, Len(q)) /\ Len(q) # Len(p)
      <4>1. Len(p) - 1 \in 1 .. Len(p) /\ Len(p) - 1 # Len(p)
        <5>1. \A n \in Nat : n > 1 => n - 1 \in 1 .. n /\ n - 1 # n
          OBVIOUS
        <5> QED
          BY <1>1, <2>2, <5>1
      <4> QED
        BY <2>2, <4>1
    <3>3. Len(q) \in 1 .. Len(f) => Len(q) \in 1 .. Len(p) /\ Len(q) # Len(p) /\ SubSeq(f, 1, Len(q)) = SubSeq(p, 1, Len(q))
      BY <1>1, <2>2, <3>1
    <3>4. Len(q) \in 1 .. Len(p) => Len(q) = Len(p) \/ Len(q) \in 1 .. Len(f)
      BY <1>1, <2>2, <3>1
    <3>5. q \in Ahead(p) => Len(q) \in 1 .. Len(p) /\ q = SubSeq(p, 1, Len(q)) /\ Len(q) # Len(p)
      BY IsPrefixIs DEF Ahead
    <3>6. Len(q) \in 1 .. Len(p) /\ q = SubSeq(p, 1, Len(q)) /\ Len(q) # Len(p) => q \in Ahead(p)
      BY IsPrefixIs DEF Ahead
    <3>7. q = f \/ q \in Ahead(f) <=> q = f \/ (Len(q) \in 1 .. Len(f) /\ q = SubSeq(f, 1, Len(q)))
      BY IsPrefixIs DEF Ahead
    <3> QED
      BY <3>2, <3>3, <3>4, <3>5, <3>6, <3>7
  <2> QED
    BY <2>1, <2>3 DEF Ahead
<1> QED
  BY <1>2, <1>3, <1>4

(* What is behind a place is pulled out with it.                           *)
LEMMA AheadUnder ==
  ASSUME NEW p \in Places, NEW x \in Places
  PROVE  /\ p \in Under(x) <=> p = x \/ x \in Ahead(p)
         /\ \A q \in Ahead(p) : q \in Places /\ q # p /\ (q \in Under(x) => p \in Under(x) /\ x \in Ahead(p))
<1>1. p \in Under(x) <=> p = x \/ x \in Ahead(p)
  BY AheadIs DEF Under, Ahead
<1>2. ASSUME NEW q \in Ahead(p), q \in Under(x) PROVE p \in Under(x) /\ x # p
  <2>1. q \in Places /\ IsPrefix(q, p) /\ IsPrefix(x, q) /\ q # p
    BY <1>2 DEF Ahead, Under
  <2>2. /\ p \in Seq(Nat) /\ Len(q) \in 1 .. Len(p) /\ q = SubSeq(p, 1, Len(q))
        /\ Len(x) \in 1 .. Len(q) /\ x = SubSeq(q, 1, Len(x)) /\ Len(q) # Len(p)
        /\ Len(p) \in Nat /\ Len(q) \in Nat /\ Len(x) \in Nat
    BY <2>1, PlaceIs, IsPrefixIs
  <2>3. x = SubSeq(p, 1, Len(x))
    BY <2>2, PrefixOfPrefix
  <2>4. Len(x) \in 1 .. Len(p) /\ Len(x) # Len(p)
    BY <2>2
  <2>5. IsPrefix(x, p)
    BY <2>3, <2>4, IsPrefixIs
  <2> QED
    BY <2>4, <2>5 DEF Under
<1> QED
  BY <1>1, <1>2 DEF Ahead

(* What the invariants of the ports say before a step.                     *)
LEMMA PortInvIs ==
  ASSUME Inv, PortInv
  PROVE  /\ plugged \subseteq Places /\ None \notin Places
         /\ port \in [Places -> [enabled : BOOLEAN, changes : Changes]]
         /\ \A s \in Slots : device[s] \in Places \cup {None}
         /\ step # "rest" => at \in Places
         /\ \A p \in Places : port[p].enabled \in BOOLEAN /\ port[p].changes \subseteq {"connection", "reset"}
         /\ Plugs /\ Resets /\ Enabled /\ BehindChanges /\ Pending /\ Waiting
  BY TypesIs, SlotsAssumption DEF PortInv, Noticed, Changes, Called

(* A hub that answers has no change, nor has a port in front of it.        *)
LEMMA ThereIsQuiet ==
  ASSUME Inv, Plugs, NEW p \in Places, PortIsThere(p)
  PROVE  \A q \in Ahead(p) : ~Conn(q) /\ q \in plugged
<1>1. CASE Len(p) = 1
  BY <1>1, AheadIs
<1>2. CASE Len(p) # 1
  <2>1. PICK f \in Places : f = Front(p)
    BY <1>2, PlaceIs
  <2>2. HubSlot(p) # 0 /\ Reaches(HubSlot(p), f)
    BY <1>2, <2>1 DEF PortIsThere, Reaches
  <2>3. HubSlot(p) \in Slots
    BY <2>2, AddressLookup DEF HubSlot
  <2>4. PICK h \in Slots : h = HubSlot(p)
    BY <2>3
  <2>5. device[h] = f /\ f # None
    BY <2>1, <2>2, <2>4, SlotsAssumption DEF Reaches
  <2>6. f \in plugged /\ ~Conn(f) /\ \A q \in Ahead(f) : ~Conn(q)
    BY <2>5 DEF Plugs
  <2>7. Ahead(p) = {f} \cup Ahead(f) /\ Ahead(f) \subseteq plugged
    BY <1>2, <2>1, <2>6, AheadIs DEF Plugs
  <2> QED
    BY <2>6, <2>7
<1> QED
  BY <1>1, <1>2

(* A port stays reachable while its hub, and all in front, is not touched. *)
LEMMA ThereKept ==
  ASSUME NEW p \in Places, PortIsThere(p), UNCHANGED <<ctx, hcSlot>>,
         Len(p) # 1 => bus'[Front(p)] = bus[Front(p)] /\ (Front(p) \in plugged => Front(p) \in plugged'),
         \A s \in Slots : device[s] = Front(p) => device'[s] = device[s]
  PROVE  PortIsThere(p)'
<1>1. CASE Len(p) = 1
  BY <1>1 DEF PortIsThere
<1>2. CASE Len(p) # 1
  <2>1. Reaches(HubSlot(p), Front(p))
    BY <1>2 DEF PortIsThere
  <2>2. HubSlot(p) \in Slots /\ HubSlot(p) # 0
    BY <2>1, AddressLookup DEF HubSlot, Reaches
  <2>3. HubSlot(p)' = HubSlot(p)
    BY <1>2 DEF HubSlot, XhcBusDevAddrToSlotId, InUse
  <2>4. PICK h \in Slots : h = HubSlot(p)
    BY <2>2
  <2>5. hcSlot[h] = "addressed" /\ device[h] = Front(p) /\ Front(p) \in plugged
    BY <2>1, <2>4 DEF Reaches
  <2>6. hcSlot'[h] = "addressed" /\ device'[h] = Front(p) /\ Front(p) \in plugged'
    BY <1>2, <2>5
  <2> QED
    BY <2>2, <2>3, <2>4, <2>6 DEF PortIsThere, Reaches
<1> QED
  BY <1>1, <1>2

(* A device is plugged in: nothing is behind it yet.                       *)
LEMMA PortInvPlug == ASSUME Inv, PortInv, NEW x \in Places, Plug(x) PROVE PortInv'
<1>1. /\ x \notin plugged /\ (Len(x) > 1 => Front(x) \in plugged) /\ plugged' = plugged \cup {x}
      /\ port' = [port EXCEPT ![x].changes = port[x].changes \cup {"connection"}]
      /\ missed' = IF at = x /\ step \in {"clear", "clearAgain"} THEN missed \cup {x} ELSE missed
      /\ UNCHANGED <<ctx, hcSlot, device, bus, step, at, hub, status, failures, resets>>
  BY DEF Plug, Races, hcVars, busVars, slotVars
<1>2. /\ plugged \subseteq Places /\ None \notin Places
      /\ \A s \in Slots : device[s] \in Places \cup {None}
      /\ step # "rest" => at \in Places
      /\ \A p \in Places : port[p].enabled \in BOOLEAN /\ port[p].changes \subseteq {"connection", "reset"}
      /\ Plugs /\ Resets /\ Enabled /\ BehindChanges /\ Pending /\ Waiting
      /\ port \in [Places -> [enabled : BOOLEAN, changes : Changes]]
  BY PortInvIs
<1>3. /\ \A p \in Places : p # x => port'[p] = port[p]
      /\ port'[x].enabled = port[x].enabled /\ port'[x].changes = port[x].changes \cup {"connection"}
  BY <1>1, <1>2
<1>4. \A p \in Places : Conn(p)' <=> Conn(p) \/ p = x
  BY <1>3 DEF Conn
<1>5. Ahead(x) \subseteq plugged
  <2>1. Len(x) = 1 \/ Len(x) > 1
    BY PlaceIs
  <2> QED
    BY <1>1, <1>2, <2>1, AheadIs DEF Plugs
<1>6. \A p \in plugged : x \notin Ahead(p) /\ p # x
  BY <1>1, <1>2 DEF Plugs
<1>7. x \notin Ahead(x) /\ ~port[x].enabled
  BY <1>1, <1>2 DEF Ahead, Plugs
<1>8. Plugs'
  <2>1. \A p \in plugged' : Ahead(p) \subseteq plugged'
    BY <1>1, <1>2, <1>5 DEF Plugs
  <2>2. \A p \in Places : port'[p].enabled => p \in plugged'
    BY <1>1, <1>2, <1>3 DEF Plugs
  <2>3. ASSUME NEW s \in Slots, device'[s] # None
        PROVE  device'[s] \in plugged' /\ ~Conn(device[s])' /\ \A q \in Ahead(device'[s]) : ~Conn(q)'
    <3>1. PICK d \in Places : d = device[s]
      BY <1>1, <1>2, <2>3, Zenon
    <3>2. d \in plugged /\ ~Conn(d) /\ \A q \in Ahead(d) : ~Conn(q)
      BY <1>1, <1>2, <2>3, <3>1 DEF Plugs
    <3>3. ~Conn(d)' /\ \A q \in Ahead(d) : ~Conn(q)'
      BY <1>4, <1>6, <3>2 DEF Ahead
    <3> QED
      BY <1>1, <3>1, <3>2, <3>3 DEF Conn
  <2> QED
    BY <2>1, <2>2, <2>3 DEF Plugs
<1>9. step = "status" /\ PortIsThere(at) => PortIsThere(at)'
  BY <1>1, <1>2, ThereKept
<1>10. Resets'
  BY <1>1, <1>2, <1>3, <1>9 DEF Resets
<1>11. Enabled'
  <2>1. \A p \in Places : Conn(p)' /\ port'[p].enabled => Conn(p) /\ port[p].enabled
    BY <1>3, <1>4, <1>7
  <2>2. ASSUME step \in SecondSteps, port'[at].enabled, NEW q \in Ahead(at) PROVE ~Conn(q)'
    <3>1. at \in Places /\ q \in Places
      BY <1>2, <2>2 DEF SecondSteps, Ahead
    <3>2. port[at].enabled /\ at \in plugged
      BY <1>2, <1>3, <2>2, <3>1 DEF Plugs
    <3> QED
      BY <1>2, <1>4, <1>6, <2>2, <3>1, <3>2 DEF Enabled
  <2>3. step \in FirstSteps => ~port'[at].enabled
    BY <1>2, <1>3 DEF Enabled, FirstSteps
  <2> QED
    BY <1>1, <1>2, <2>1, <2>2, <2>3 DEF Enabled
<1>12. /\ Noticed' \subseteq Noticed \cup {x}
       /\ at = x /\ step \in {"clear", "clearAgain"} => x \notin Noticed'
  BY <1>1 DEF Noticed
<1>13. BehindChanges'
  BY <1>1, <1>2, <1>4, <1>6, <1>7, <1>12 DEF BehindChanges, Noticed
<1>14. Pending'
  <2> SUFFICES ASSUME at' \in Noticed' PROVE Pending'
    BY DEF Pending
  <2>1. at = x => Conn(at)' /\ step \notin {"clear", "clearAgain"}
    BY <1>1, <1>4, <1>12
  <2>2. at # x => at \in Noticed /\ at \in Places
    BY <1>1, <1>2, <1>12 DEF Noticed
  <2>3. at # x => (Conn(at)' <=> Conn(at)) /\ port'[at] = port[at] /\ (PortIsThere(at) => PortIsThere(at)')
    BY <1>1, <1>2, <1>3, <1>4, <2>2, ThereKept
  <2>4. CASE at = x
    BY <1>1, <2>1, <2>4 DEF Pending, Conn
  <2>5. CASE at # x
    BY <1>1, <1>2, <2>2, <2>3, <2>5 DEF Pending, Conn
  <2> QED
    BY <2>4, <2>5
<1>15. Waiting'
  <2>1. ASSUME failures = 0, resets = 0, NEW p \in Noticed'
        PROVE  Conn(p)' \/ XhcRouteStringToSlotId(Route(p))' # 0 \/ (p = at /\ step \in AwaitSlot)
    <3>1. p = x \/ p \in Noticed
      BY <1>12, <2>1
    <3>2. p \in Places
      BY <1>2, <3>1 DEF Noticed
    <3>3. XhcRouteStringToSlotId(Route(p))' = XhcRouteStringToSlotId(Route(p))
      BY <1>1 DEF XhcRouteStringToSlotId, InUse
    <3> QED
      BY <1>2, <1>4, <2>1, <3>1, <3>2, <3>3 DEF Waiting
  <2> QED
    BY <1>1, <2>1 DEF Waiting
<1> QED
  BY <1>8, <1>10, <1>11, <1>13, <1>14, <1>15 DEF PortInv

(* A device is pulled out: what is left hangs on nothing that is gone.     *)
LEMMA PortInvUnplug == ASSUME Inv, PortInv, NEW x \in Places, Unplug(x) PROVE PortInv'
<1>1. /\ plugged' = plugged \ Under(x) /\ missed \subseteq missed'
      /\ port' = [q \in Places |->
                    IF q = x THEN [enabled |-> FALSE, changes |-> port[x].changes \cup {"connection"}]
                    ELSE IF q \in Under(x) THEN Quiet ELSE port[q]]
      /\ device' = [s \in Slots |-> IF device[s] \in Under(x) THEN None ELSE device[s]]
      /\ UNCHANGED <<ctx, hcSlot, bus, step, at, hub, status, failures, resets>>
  BY DEF Unplug, Races, busVars, slotVars
<1>2. /\ plugged \subseteq Places /\ None \notin Places
      /\ \A s \in Slots : device[s] \in Places \cup {None}
      /\ step # "rest" => at \in Places
      /\ Plugs /\ Resets /\ Enabled /\ BehindChanges /\ Pending /\ Waiting
  BY PortInvIs
<1>3. /\ port'[x].enabled = FALSE /\ port'[x].changes = port[x].changes \cup {"connection"}
      /\ \A p \in Places : p \notin Under(x) => port'[p] = port[p] /\ p # x
      /\ \A p \in Places : p \in Under(x) /\ p # x => port'[p].enabled = FALSE /\ port'[p].changes = {}
  BY <1>1, AheadIs DEF Quiet
<1>4. \A p \in Places : p \notin Under(x) => \A q \in Ahead(p) : q \in Places /\ q \notin Under(x)
  BY AheadUnder
<1>5. /\ \A p \in Places : p \notin Under(x) => (Conn(p)' <=> Conn(p))
      /\ \A p \in Places : port'[p].enabled => p \notin Under(x) /\ port[p].enabled
  BY <1>3 DEF Conn
<1>6. Plugs'
  <2>1. \A p \in plugged' : Ahead(p) \subseteq plugged'
    BY <1>1, <1>2, <1>4 DEF Plugs
  <2>2. \A p \in Places : port'[p].enabled => p \in plugged'
    BY <1>1, <1>2, <1>5 DEF Plugs
  <2>3. ASSUME NEW s \in Slots, device'[s] # None
        PROVE  device'[s] \in plugged' /\ ~Conn(device[s])' /\ \A q \in Ahead(device'[s]) : ~Conn(q)'
    <3>1. PICK d \in Places : d = device[s] /\ d \notin Under(x) /\ device'[s] = d
      BY <1>1, <1>2, <2>3
    <3>2. d \in plugged /\ ~Conn(d) /\ \A q \in Ahead(d) : ~Conn(q)
      BY <1>2, <3>1 DEF Plugs
    <3>3. ~Conn(d)' /\ \A q \in Ahead(d) : ~Conn(q)'
      BY <1>4, <1>5, <3>1, <3>2
    <3> QED
      BY <1>1, <3>1, <3>2, <3>3 DEF Conn
  <2> QED
    BY <2>1, <2>2, <2>3 DEF Plugs
<1>7. ASSUME at \in Places, at \notin Under(x) \/ at = x, PortIsThere(at) PROVE PortIsThere(at)'
  <2>1. PICK p \in Places : p = at
    BY <1>7
  <2>2. Len(p) # 1 => Front(p) \notin Under(x)
    BY <1>7, <2>1, AheadIs, AheadUnder
  <2>3. PortIsThere(p) /\ UNCHANGED <<ctx, hcSlot, bus>>
    BY <1>1, <1>7, <2>1
  <2>4. CASE Len(p) = 1
    BY <1>1, <2>1, <2>4 DEF PortIsThere
  <2>5. CASE Len(p) # 1
    <3>1. \A s \in Slots : device[s] = Front(p) => device'[s] = device[s]
      BY <1>1, <2>2, <2>5
    <3>2. PortIsThere(p)'
      BY <1>1, <2>2, <2>3, <2>5, <3>1, ThereKept
    <3> QED
      BY <1>1, <2>1, <3>2 DEF PortIsThere, Reaches, HubSlot, XhcBusDevAddrToSlotId, InUse
  <2> QED
    BY <2>4, <2>5
<1>8. Resets'
  <2>1. ASSUME NEW p \in Places, "reset" \in port'[p].changes
        PROVE  /\ p = at
               /\ (step = "status" /\ PortIsThere(at)') \/ (step = "clearAgain" /\ "reset" \in status.changes)
    <3>1. (p \notin Under(x) \/ p = x) /\ "reset" \in port[p].changes
      BY <1>3, <2>1
    <3> QED
      BY <1>2, <1>7, <3>1 DEF Resets
  <2>2. step = "status" /\ port'[at].enabled => "reset" \in port'[at].changes
    BY <1>2, <1>3, <1>5 DEF Resets
  <2> QED
    BY <1>1, <2>1, <2>2 DEF Resets
<1>9. Enabled'
  <2>1. \A p \in Places : Conn(p)' /\ port'[p].enabled => Conn(p) /\ port[p].enabled
    BY <1>5
  <2>2. ASSUME step \in SecondSteps, port'[at].enabled, NEW q \in Ahead(at) PROVE ~Conn(q)'
    <3>1. at \in Places
      BY <1>2, <2>2 DEF SecondSteps
    <3>2. port[at].enabled /\ at \notin Under(x)
      BY <1>5, <2>2, <3>1
    <3> QED
      BY <1>2, <1>4, <1>5, <2>2, <3>1, <3>2 DEF Enabled
  <2>3. step \in FirstSteps => ~port'[at].enabled
    BY <1>2, <1>5 DEF Enabled, FirstSteps
  <2> QED
    BY <1>1, <1>2, <2>1, <2>2, <2>3 DEF Enabled
<1>10. \A p \in Noticed' : p \in Noticed /\ p \in Places /\ p \notin Under(x)
  BY <1>1, <1>2 DEF Noticed
<1>11. BehindChanges'
  BY <1>1, <1>2, <1>4, <1>5, <1>10 DEF BehindChanges
<1>12. Pending'
  <2> SUFFICES ASSUME at' \in Noticed' PROVE Pending'
    BY DEF Pending
  <2>1. at \in Noticed /\ at \in Places /\ at \notin Under(x)
    BY <1>1, <1>10
  <2>2. (Conn(at)' <=> Conn(at)) /\ port'[at] = port[at] /\ (PortIsThere(at) => PortIsThere(at)')
    BY <1>1, <1>3, <1>5, <1>7, <2>1 DEF Conn
  <2> QED
    BY <1>1, <1>2, <2>1, <2>2 DEF Pending
<1>13. Waiting'
  <2>1. ASSUME failures = 0, resets = 0, NEW p \in Noticed'
        PROVE  Conn(p)' \/ XhcRouteStringToSlotId(Route(p))' # 0 \/ (p = at /\ step \in AwaitSlot)
    <3>1. XhcRouteStringToSlotId(Route(p))' = XhcRouteStringToSlotId(Route(p))
      BY <1>1 DEF XhcRouteStringToSlotId, InUse
    <3> QED
      BY <1>2, <1>5, <1>10, <2>1, <3>1 DEF Waiting
  <2> QED
    BY <1>1, <2>1 DEF Waiting
<1> QED
  BY <1>6, <1>8, <1>9, <1>11, <1>12, <1>13 DEF PortInv

(* A change is seen; what hangs on the port has a change of its own.       *)
LEMMA PortInvGetPortStatus == ASSUME Inv, PortInv, NEW x \in Places, GetPortStatus(x) PROVE PortInv'
<1>1. UNCHANGED <<ctx, hcSlot, device, plugged, port, bus, failures, resets>>
  BY DEF GetPortStatus, slotVars, hcVars, portVars, counters
<1>2. /\ plugged \subseteq Places /\ None \notin Places
      /\ step # "rest" => at \in Places
      /\ \A p \in Places : port[p].enabled \in BOOLEAN /\ port[p].changes \subseteq {"connection", "reset"}
      /\ Plugs /\ Resets /\ Enabled /\ BehindChanges /\ Pending /\ Waiting
  BY PortInvIs
<1>3. /\ \A p : Conn(p)' <=> Conn(p)
      /\ \A p : PortIsThere(p)' <=> PortIsThere(p)
      /\ \A r : XhcRouteStringToSlotId(r)' = XhcRouteStringToSlotId(r)
      /\ Plugs'
  BY <1>1, <1>2 DEF Conn, PortIsThere, Reaches, HubSlot, XhcBusDevAddrToSlotId, XhcRouteStringToSlotId, InUse,
                    Plugs
<1>4. CASE /\ step = "rest" /\ PortIsThere(x) /\ port[x].changes # {} /\ step' = "clear" /\ at' = x
           /\ status' = [connected |-> x \in plugged, enabled |-> port[x].enabled, changes |-> port[x].changes]
           /\ missed' = missed \ {x}
  <2>1. /\ \A p \in Places : "reset" \notin port[p].changes
        /\ \A p \in Places : Conn(p) => ~port[p].enabled
    BY <1>2, <1>4 DEF Resets, Enabled
  <2>2. Conn(x) /\ ~port[x].enabled
    BY <1>2, <1>4, <2>1 DEF Conn
  <2>3. /\ "connection" \in status'.changes /\ ~status'.enabled
        /\ x \in plugged => status'.connected
    BY <1>4, <2>2 DEF Conn
  <2>4. Noticed' \subseteq Noticed \cup {x} /\ Noticed' \subseteq Places
    BY <1>1, <1>2, <1>4 DEF Noticed
  <2>5. Resets'
    BY <1>1, <1>4, <2>1 DEF Resets
  <2>6. Enabled'
    BY <1>1, <1>3, <1>4, <2>1, <2>2, <2>3 DEF Enabled, FirstSteps, SecondSteps
  <2>7. BehindChanges'
    <3>1. \A q \in Ahead(x) : ~Conn(q)
      BY <1>2, <1>4, ThereIsQuiet
    <3>2. \A p \in Noticed : x \in Ahead(p) => Conn(p)
      BY <1>2, <2>2 DEF BehindChanges
    <3>3. \A p \in Noticed' : x \in Ahead(p) => Conn(p)
      BY <2>2, <2>4, <3>2
    <3> QED
      BY <1>2, <1>3, <1>4, <2>4, <3>1, <3>3 DEF BehindChanges
  <2>8. Pending'
    <3> SUFFICES ASSUME at' \in Noticed' PROVE Pending'
      BY DEF Pending
    <3>1. PortIsThere(at)'
      BY <1>1, <1>4 DEF PortIsThere, Reaches, HubSlot, XhcBusDevAddrToSlotId, InUse
    <3>2. x \in plugged
      BY <1>1, <1>4 DEF Noticed
    <3> QED
      BY <1>4, <2>3, <3>1, <3>2 DEF Pending
  <2>9. Waiting'
    BY <1>1, <1>2, <1>3, <1>4, <2>2, <2>4 DEF Waiting, AwaitSlot, FirstSteps
  <2> QED
    BY <1>3, <2>5, <2>6, <2>7, <2>8, <2>9 DEF PortInv
<1>5. CASE /\ step = "status" /\ at = x /\ PortIsThere(x) /\ step' = "clearAgain" /\ at' = x
           /\ status' = [connected |-> x \in plugged, enabled |-> port[x].enabled, changes |-> port[x].changes]
           /\ missed' = IF Conn(x) THEN missed \cup {x} ELSE missed
  <2>1. Noticed' \subseteq Noticed /\ (x \in Noticed' => x \in Noticed /\ ~Conn(x)) /\ Noticed \subseteq Places
    BY <1>1, <1>2, <1>5 DEF Noticed
  <2>2. Resets'
    BY <1>1, <1>2, <1>5 DEF Resets
  <2>3. Enabled'
    <3>1. \A p \in Places : Conn(p) /\ port[p].enabled => p = x /\ "connection" \in status'.changes
      BY <1>2, <1>5 DEF Enabled, Conn
    <3>2. port[x].enabled => \A q \in Ahead(x) : ~Conn(q)
      BY <1>2, <1>5 DEF Enabled, SecondSteps
    <3> QED
      BY <1>1, <1>3, <1>5, <3>1, <3>2 DEF Enabled, FirstSteps
  <2>4. BehindChanges'
    BY <1>2, <1>3, <1>5, <2>1 DEF BehindChanges
  <2>5. Pending'
    <3> SUFFICES ASSUME at' \in Noticed' PROVE Pending'
      BY DEF Pending
    <3>1. x \in plugged /\ port[x].enabled /\ "reset" \in port[x].changes /\ ~Conn(x)
      BY <1>2, <1>5, <2>1 DEF Pending, Resets, Noticed
    <3>2. status'.connected /\ status'.enabled /\ "reset" \in status'.changes
      BY <1>5, <3>1
    <3>3. ~Conn(at)'
      BY <1>1, <1>5, <3>1 DEF Conn
    <3> QED
      BY <1>5, <3>2, <3>3 DEF Pending, FirstSteps
  <2>6. Waiting'
    BY <1>1, <1>2, <1>3, <1>5, <2>1 DEF Waiting, AwaitSlot
  <2> QED
    BY <1>3, <2>2, <2>3, <2>4, <2>5, <2>6 DEF PortInv
<1>6. CASE /\ step = "status" /\ at = x /\ ~PortIsThere(x) /\ step' = "rest" /\ at' = None
           /\ missed' = IF Conn(x) THEN missed \cup {x} ELSE missed
  <2>1. Noticed' \subseteq Noticed /\ (x \in Noticed' => x \in Noticed /\ ~Conn(x)) /\ Noticed \subseteq Places
    BY <1>1, <1>2, <1>6 DEF Noticed
  <2>2. "reset" \notin port[x].changes /\ ~port[x].enabled
    BY <1>2, <1>6 DEF Resets
  <2>3. x \notin Noticed'
    BY <1>2, <1>6, <2>1, <2>2 DEF Pending
  <2>4. Resets'
    BY <1>1, <1>2, <1>6, <2>2 DEF Resets
  <2>5. Enabled'
    BY <1>1, <1>2, <1>3, <1>6, <2>2 DEF Enabled, FirstSteps, SecondSteps
  <2>6. BehindChanges'
    BY <1>2, <1>3, <1>6, <2>1 DEF BehindChanges
  <2>7. Pending'
    BY <1>1, <1>2, <1>6 DEF Pending, Noticed
  <2>8. Waiting'
    BY <1>1, <1>2, <1>3, <1>6, <2>1, <2>3 DEF Waiting
  <2> QED
    BY <1>3, <2>4, <2>5, <2>6, <2>7, <2>8 DEF PortInv
<1> QED
  BY <1>4, <1>5, <1>6 DEF GetPortStatus, Conn

(* The changes that were read are cleared: the call acts on them.          *)
LEMMA PortInvClearPortChange == ASSUME Inv, PortInv, ClearPortChange PROVE PortInv'
<1>1. /\ step \in {"clear", "clearAgain"} /\ step' = IF step = "clear" THEN "disable" ELSE "disableAgain"
      /\ port' = [port EXCEPT ![at].changes = port[at].changes \ status.changes]
      /\ UNCHANGED <<ctx, hcSlot, device, plugged, bus, at, status, missed, failures, resets>>
  BY DEF ClearPortChange, ChangesLeft, hcVars, slotVars, counters
<1>2. /\ plugged \subseteq Places /\ at \in Places
      /\ port \in [Places -> [enabled : BOOLEAN, changes : Changes]]
      /\ Plugs /\ Resets /\ Enabled /\ BehindChanges /\ Pending /\ Waiting
  BY <1>1, PortInvIs
<1>3. PICK x \in Places : x = at
  BY <1>2
<1>4. /\ \A p \in Places : p # x => port'[p] = port[p]
      /\ port'[x].enabled = port[x].enabled /\ port'[x].changes = port[x].changes \ status.changes
  BY <1>1, <1>2, <1>3
<1>5. /\ \A p \in Places : Conn(p)' => Conn(p)
      /\ \A p \in Places : p # x => (Conn(p)' <=> Conn(p))
      /\ Conn(x)' <=> Conn(x) /\ "connection" \notin status.changes
  BY <1>4 DEF Conn
<1>6. /\ \A r : XhcRouteStringToSlotId(r)' = XhcRouteStringToSlotId(r)
      /\ Noticed' = Noticed /\ Noticed \subseteq Places
      /\ \A p : PortIsThere(p)' <=> PortIsThere(p)
  BY <1>1, <1>2 DEF XhcRouteStringToSlotId, InUse, Noticed, PortIsThere, Reaches, HubSlot, XhcBusDevAddrToSlotId
<1>7. Plugs'
  <2>1. ASSUME NEW s \in Slots, device'[s] # None
        PROVE  device'[s] \in plugged' /\ ~Conn(device[s])' /\ \A q \in Ahead(device'[s]) : ~Conn(q)'
    <3>1. PICK d \in Places : d = device[s]
      BY <1>1, <2>1, PortInvIs
    <3>2. d \in plugged /\ ~Conn(d) /\ \A q \in Ahead(d) : ~Conn(q)
      BY <1>1, <1>2, <2>1, <3>1 DEF Plugs
    <3>3. ~Conn(d)' /\ \A q \in Ahead(d) : ~Conn(q)'
      BY <1>5, <3>2 DEF Ahead
    <3> QED
      BY <1>1, <3>1, <3>2, <3>3 DEF Conn
  <2>2. \A p \in Places : port'[p].enabled => p \in plugged'
    BY <1>1, <1>2, <1>4 DEF Plugs
  <2> QED
    BY <1>1, <1>2, <2>1, <2>2 DEF Plugs
<1>8. Resets'
  BY <1>1, <1>2, <1>3, <1>4 DEF Resets
<1>9. Enabled'
  <2>1. \A p \in Places : ~(Conn(p)' /\ port'[p].enabled)
    BY <1>1, <1>2, <1>3, <1>4, <1>5 DEF Enabled
  <2>2. /\ step' \in FirstSteps => step = "clear" /\ step \in FirstSteps
        /\ step' \in SecondSteps => step \in SecondSteps
    BY <1>1 DEF FirstSteps, SecondSteps
  <2>3. port'[at].enabled = port[at].enabled
    BY <1>3, <1>4
  <2>4. step' \in SecondSteps /\ port'[at'].enabled => \A q \in Ahead(at) : ~Conn(q)'
    BY <1>1, <1>2, <1>5, <2>2, <2>3 DEF Enabled, Ahead
  <2> QED
    BY <1>1, <1>2, <2>1, <2>2, <2>3, <2>4 DEF Enabled
<1>10. BehindChanges'
  <2>1. x \in Noticed => \A q \in Ahead(x) : ~Conn(q)
    <3>1. CASE x \in Noticed /\ step = "clear"
      <4>1. PortIsThere(x)
        BY <1>2, <1>3, <3>1 DEF Pending
      <4> QED
        BY <1>2, <4>1, ThereIsQuiet
    <3>2. CASE x \in Noticed /\ step = "clearAgain"
      BY <1>2, <1>3, <3>2 DEF Pending, BehindChanges, Ahead
    <3> QED
      BY <1>1, <3>1, <3>2
  <2>2. \A p \in Noticed : x \in Ahead(p) => p # x
    BY DEF Ahead
  <2>3. \A p \in Noticed, q \in Places : q \in Ahead(p) /\ Conn(q)' => Conn(p)'
    BY <1>2, <1>5, <1>6, <2>1 DEF BehindChanges
  <2>4. \A p \in Noticed : x \in Ahead(p) => Conn(p)'
    BY <1>1, <1>2, <1>3, <1>5, <1>6, <2>2 DEF BehindChanges
  <2> QED
    BY <1>1, <1>3, <1>6, <2>3, <2>4 DEF BehindChanges
<1>11. Pending'
  <2> SUFFICES ASSUME at' \in Noticed' PROVE Pending'
    BY DEF Pending
  <2>1. at \in Noticed
    BY <1>1, <1>6
  <2>2. Conn(at)' => Conn(at)
    BY <1>1, <1>3, <1>5
  <2>3. step = "clear" => PortIsThere(at)' /\ status'.connected
    BY <1>1, <1>2, <1>6, <2>1 DEF Pending, PortIsThere, Reaches, HubSlot, XhcBusDevAddrToSlotId, InUse
  <2>4. step = "clearAgain" => status'.connected /\ status'.enabled /\ "reset" \in status'.changes
    BY <1>1, <1>2, <2>1 DEF Pending
  <2> QED
    BY <1>1, <2>3, <2>4 DEF Pending, FirstSteps
<1>12. Waiting'
  BY <1>1, <1>2, <1>3, <1>5, <1>6 DEF Waiting, AwaitSlot, FirstSteps
<1> QED
  BY <1>7, <1>8, <1>9, <1>10, <1>11, <1>12 DEF PortInv

(* The device that is reset is the one whose change was seen.              *)
LEMMA PortInvXhcResetPort == ASSUME Inv, PortInv, XhcResetPort PROVE PortInv'
<1>1. /\ step = "reset" /\ step' = "status"
      /\ UNCHANGED <<ctx, hcSlot, plugged, bus, at, status, missed, failures, resets>>
  BY DEF XhcResetPort, slotVars, counters
<1>2. /\ plugged \subseteq Places /\ at \in Places
      /\ \A s \in Slots : device[s] \in Places \cup {None}
      /\ port \in [Places -> [enabled : BOOLEAN, changes : Changes]]
      /\ Plugs /\ Resets /\ Enabled /\ BehindChanges /\ Pending /\ Waiting
  BY <1>1, PortInvIs
<1>3. PICK x \in Places : x = at
  BY <1>2
<1>4. ~port[x].enabled /\ step \in FirstSteps
  BY <1>1, <1>2, <1>3 DEF Enabled, FirstSteps
<1>5. /\ \A r : XhcRouteStringToSlotId(r)' = XhcRouteStringToSlotId(r)
      /\ Noticed' = Noticed /\ Noticed \subseteq Places
  BY <1>1, <1>2 DEF XhcRouteStringToSlotId, InUse, Noticed
<1>6. \A p \in Places : "reset" \notin port[p].changes
  BY <1>1, <1>2 DEF Resets
<1>7. \A p \in Places : ~(Conn(p) /\ port[p].enabled)
  BY <1>1, <1>2 DEF Enabled
<1>8. CASE /\ x \in plugged /\ PortIsThere(x)
           /\ port' = [port EXCEPT ![at] = [enabled |-> TRUE, changes |-> port[at].changes \cup {"reset"}]]
           /\ device' = [s \in Slots |-> IF device[s] = at THEN None ELSE device[s]]
  <2>1. /\ \A p \in Places : p # x => port'[p] = port[p]
        /\ port'[x].enabled = TRUE /\ port'[x].changes = port[x].changes \cup {"reset"}
    BY <1>2, <1>3, <1>8
  <2>2. \A p \in Places : Conn(p)' <=> Conn(p)
    BY <2>1 DEF Conn
  <2>3. \A q \in Ahead(x) : ~Conn(q) /\ q \in Places
    BY <1>2, <1>8, ThereIsQuiet DEF Ahead
  <2>4. Plugs'
    <3>1. ASSUME NEW s \in Slots, device'[s] # None
          PROVE  device'[s] \in plugged' /\ ~Conn(device[s])' /\ \A q \in Ahead(device'[s]) : ~Conn(q)'
      <4>1. PICK d \in Places : d = device[s] /\ device'[s] = d
        BY <1>2, <1>8, <3>1
      <4>2. d \in plugged /\ ~Conn(d) /\ \A q \in Ahead(d) : ~Conn(q)
        BY <1>2, <3>1, <4>1 DEF Plugs
      <4>3. ~Conn(d)' /\ \A q \in Ahead(d) : ~Conn(q)'
        BY <2>2, <4>2 DEF Ahead
      <4> QED
        BY <1>1, <4>1, <4>2, <4>3 DEF Conn
    <3>2. \A p \in Places : port'[p].enabled => p \in plugged'
      BY <1>1, <1>2, <1>8, <2>1 DEF Plugs
    <3> QED
      BY <1>1, <1>2, <3>1, <3>2 DEF Plugs
  <2>5. PortIsThere(at)'
    <3>1. PortIsThere(x)'
      <4>1. Len(x) # 1 => Front(x) # x
        BY PlaceIs
      <4>2. CASE Len(x) = 1
        BY <4>2 DEF PortIsThere
      <4>3. CASE Len(x) # 1
        <5>1. \A s \in Slots : device[s] = Front(x) => device'[s] = device[s]
          BY <1>3, <1>8, <4>1, <4>3
        <5> QED
          BY <1>1, <1>8, <5>1, ThereKept
      <4> QED
        BY <4>2, <4>3
    <3>2. at' = x
      BY <1>1, <1>3
    <3> QED
      BY <3>1, <3>2 DEF PortIsThere, Reaches, HubSlot, XhcBusDevAddrToSlotId, InUse
  <2>6. Resets'
    BY <1>1, <1>3, <1>6, <2>1, <2>5 DEF Resets
  <2>7. Enabled'
    BY <1>1, <1>3, <1>7, <2>1, <2>2, <2>3 DEF Enabled, FirstSteps
  <2>8. BehindChanges'
    BY <1>1, <1>2, <1>5, <2>2 DEF BehindChanges
  <2>9. Pending'
    BY <1>1, <1>3, <2>1 DEF Pending, FirstSteps
  <2>10. Waiting'
    BY <1>1, <1>2, <1>5, <2>2 DEF Waiting, AwaitSlot, FirstSteps
  <2> QED
    BY <2>4, <2>6, <2>7, <2>8, <2>9, <2>10 DEF PortInv
<1>9. CASE (x \notin plugged \/ ~PortIsThere(x)) /\ UNCHANGED <<port, device>>
  <2>1. (\A p : Conn(p)' <=> Conn(p)) /\ Plugs'
    BY <1>1, <1>2, <1>9 DEF Conn, Plugs
  <2>2. x \in Noticed => Conn(x)
    BY <1>2, <1>3, <1>4, <1>9 DEF Pending, Noticed
  <2>3. Resets' /\ Enabled'
    BY <1>1, <1>3, <1>4, <1>6, <1>7, <1>9 DEF Resets, Enabled, FirstSteps, Conn
  <2>4. BehindChanges'
    BY <1>1, <1>2, <1>5, <2>1 DEF BehindChanges
  <2>5. Pending'
    BY <1>1, <1>3, <1>5, <2>1, <2>2 DEF Pending, FirstSteps, Conn
  <2>6. Waiting'
    BY <1>1, <1>2, <1>5, <2>1 DEF Waiting, AwaitSlot, FirstSteps
  <2> QED
    BY <2>1, <2>3, <2>4, <2>5, <2>6 DEF PortInv
<1> QED
  BY <1>3, <1>8, <1>9 DEF XhcResetPort

(* A step that leaves the ports as they are, on its way through the call.  *)
LEMMA PortsUntouched ==
  ASSUME Inv, PortInv, UNCHANGED <<plugged, port, status>>, missed \subseteq missed',
         step \notin {"rest", "status", "clear", "clearAgain"},
         step' \notin {"status", "clear", "clearAgain", "address"},
         at' = IF step' = "rest" THEN None ELSE at,
         step' \in FirstSteps => step \in FirstSteps,
         step' \in SecondSteps => step \in SecondSteps,
         step' \in {"disable", "enable"} => step \in {"disable", "enable"}
  PROVE  /\ Resets' /\ Enabled' /\ BehindChanges'
         /\ \A p : Conn(p)' <=> Conn(p)
         /\ Noticed' \subseteq Noticed /\ Noticed \subseteq Places /\ at \in Places
         /\ step' = "rest" => Pending'
<1>1. /\ plugged \subseteq Places /\ at \in Places /\ None \notin Places
      /\ Resets /\ Enabled /\ BehindChanges
  BY PortInvIs
<1>2. \A p : Conn(p)' <=> Conn(p)
  BY DEF Conn
<1>3. Noticed' \subseteq Noticed /\ Noticed \subseteq Places
  BY <1>1 DEF Noticed
<1>4. Resets'
  BY <1>1 DEF Resets
<1>5. Enabled'
  <2>1. \A p \in Places : ~(Conn(p) /\ port[p].enabled)
    BY <1>1 DEF Enabled
  <2>2. step' \in FirstSteps \cup SecondSteps \cup {"disable", "enable"} => at' = at
    BY DEF FirstSteps, SecondSteps
  <2> QED
    BY <1>1, <1>2, <2>1, <2>2 DEF Enabled
<1>6. BehindChanges'
  BY <1>1, <1>2, <1>3 DEF BehindChanges
<1>7. step' = "rest" => Pending'
  BY <1>1, <1>3 DEF Pending
<1> QED
  BY <1>1, <1>2, <1>3, <1>4, <1>5, <1>6, <1>7

(* A slot in use is found by its route after a step.                       *)
LEMMA LookupFinds ==
  ASSUME NEW r, NEW s \in Slots, InUse(s)', ctx'[s].route = r
  PROVE  XhcRouteStringToSlotId(r)' # 0
<1> DEFINE T == {t \in Slots : InUse(t)' /\ ctx'[t].route = r}
<1>1. s \in T
  OBVIOUS
<1>2. XhcRouteStringToSlotId(r)' = Lowest(T)
  BY DEF XhcRouteStringToSlotId
<1>3. T \in SUBSET Slots
  OBVIOUS
<1> HIDE DEF T
<1>4. T # {}
  BY <1>1
<1> QED
  BY <1>2, <1>3, <1>4, LowestIs

(* A device that is not served now keeps its slot while the slots in use   *)
(* keep their routes.                                                      *)
LEMMA WaitingKept ==
  ASSUME Waiting, NEW p \in Noticed, failures = 0, resets = 0, Conn(p)' <=> Conn(p),
         \A s \in Slots : InUse(s) => InUse(s)' /\ ctx'[s].route = ctx[s].route
  PROVE  Conn(p)' \/ XhcRouteStringToSlotId(Route(p))' # 0 \/ (p = at /\ step \in AwaitSlot)
<1>1. CASE XhcRouteStringToSlotId(Route(p)) # 0
  <2>1. PICK s \in Slots : s = XhcRouteStringToSlotId(Route(p))
    BY <1>1, RouteLookup
  <2>2. InUse(s)' /\ ctx'[s].route = Route(p)
    BY <1>1, <2>1, RouteLookup
  <2> QED
    BY <2>2, LookupFinds
<1>2. CASE XhcRouteStringToSlotId(Route(p)) = 0
  BY <1>2 DEF Waiting
<1> QED
  BY <1>1, <1>2

(* The end of a call: what the bus driver does with the device.            *)
LEMMA PortInvDecide == ASSUME Inv, PortInv, Decide PROVE PortInv'
<1>1. /\ step = "decide" /\ at' = IF step' = "rest" THEN None ELSE at
      /\ UNCHANGED <<ctx, hcSlot, device, plugged, port, hub, status, missed, failures, resets>>
      /\ \/ bus' = UsbRemoveDevice(at) /\ step' = IF status.connected THEN "reset" ELSE "rest"
         \/ "connection" \notin status.changes /\ step' = "rest"
      /\ step' \in {"rest", "reset"}
  BY DEF Decide, slotVars, hcVars, portVars, counters
<1>2. /\ Resets' /\ Enabled' /\ BehindChanges'
      /\ \A p : Conn(p)' <=> Conn(p)
      /\ Noticed' \subseteq Noticed /\ Noticed \subseteq Places /\ at \in Places
      /\ step' = "rest" => Pending'
  BY <1>1, PortsUntouched DEF FirstSteps, SecondSteps
<1>3. /\ bus \in [Places -> Addresses \cup {None}] /\ "connection" \in status.changes
      /\ Plugs /\ Pending /\ Waiting
  BY <1>1, PortInvIs, TypesIs DEF Enabled, FirstSteps
<1>4. Plugs'
  BY <1>1, <1>2, <1>3 DEF Plugs
<1>5. ASSUME step' = "reset" PROVE Pending'
  <2> SUFFICES ASSUME at' \in Noticed' PROVE Pending'
    BY DEF Pending
  <2>1. at' = at /\ at \in Noticed /\ bus' = UsbRemoveDevice(at) /\ status.connected
    BY <1>1, <1>2, <1>5
  <2>2. ASSUME ~Conn(at) PROVE PortIsThere(at)'
    <3>1. PortIsThere(at)
      BY <1>1, <1>3, <2>1, <2>2 DEF Pending, FirstSteps
    <3>2. PICK x \in Places : x = at
      BY <1>2
    <3>3. Len(x) # 1 => Front(x) \in Places /\ Front(x) \in Ahead(x)
      BY AheadIs, PlaceIs
    <3>4. Len(x) # 1 => Front(x) \notin Under(x)
      BY <3>3, AheadUnder DEF Ahead
    <3>5. Len(x) # 1 => bus'[Front(x)] = bus[Front(x)]
      BY <1>3, <2>1, <3>2, <3>3, <3>4 DEF UsbRemoveDevice
    <3>6. PortIsThere(x)'
      BY <1>1, <3>1, <3>2, <3>5, ThereKept
    <3>7. at' = x
      BY <2>1, <3>2
    <3> QED
      BY <3>6, <3>7 DEF PortIsThere, Reaches, HubSlot, XhcBusDevAddrToSlotId, InUse
  <2> QED
    BY <1>1, <1>2, <1>5, <2>1, <2>2 DEF Pending
<1>6. Waiting'
  <2>1. ASSUME failures = 0, resets = 0, NEW p \in Noticed
        PROVE  Conn(p)' \/ XhcRouteStringToSlotId(Route(p))' # 0 \/ (p = at' /\ step' \in AwaitSlot)
    <3>1. Conn(p)' \/ XhcRouteStringToSlotId(Route(p))' # 0 \/ p = at
      BY <1>1, <1>2, <1>3, <2>1, WaitingKept DEF InUse
    <3>2. p = at /\ ~Conn(p) => status.connected
      BY <1>1, <1>3 DEF Pending, FirstSteps
    <3> QED
      BY <1>1, <1>2, <1>3, <3>1, <3>2 DEF AwaitSlot, FirstSteps
  <2> QED
    BY <1>1, <1>2, <2>1 DEF Waiting
<1> QED
  BY <1>1, <1>2, <1>4, <1>5, <1>6 DEF PortInv

(* The steps that give the device its address, or give it up.              *)
LEMMA PortInvServe ==
  ASSUME Inv, PortInv, DecideAgain \/ SetAddress \/ Describe
  PROVE  PortInv'
<1>1. /\ step \in {"decideAgain", "setAddress", "describe"} /\ step' \in {"setAddress", "describe", "rest"}
      /\ at' = IF step' = "rest" THEN None ELSE at
      /\ UNCHANGED <<device, plugged, port, status, missed, resets>>
      /\ failures' = failures \/ (failures' = failures + 1 /\ ctx' = ctx)
      /\ ctx' = ctx \/ SetAddress
  BY DEF DecideAgain, SetAddress, Describe, slotVars, hcVars, portVars, counters
<1>2. /\ Resets' /\ Enabled' /\ BehindChanges'
      /\ \A p : Conn(p)' <=> Conn(p)
      /\ Noticed' \subseteq Noticed /\ Noticed \subseteq Places /\ at \in Places
      /\ step' = "rest" => Pending'
  BY <1>1, PortsUntouched DEF FirstSteps, SecondSteps
<1>3. Plugs /\ Pending /\ Waiting /\ failures \in Nat
  BY PortInvIs, TypesIs
<1>4. Plugs'
  BY <1>1, <1>2, <1>3 DEF Plugs
<1>5. Pending'
  BY <1>1 DEF Pending, FirstSteps
<1>6. \A s \in Slots : InUse(s) => InUse(s)' /\ ctx'[s].route = ctx[s].route
  <2>1. CASE ctx' = ctx
    BY <2>1 DEF InUse
  <2>2. CASE SetAddress
    BY <2>2, AddressIsRecorded DEF EntryKept
  <2> QED
    BY <1>1, <2>1, <2>2
<1>7. Waiting'
  <2>1. failures' = 0 => failures = 0
    BY <1>1, <1>3
  <2>2. ASSUME failures = 0, resets = 0, NEW p \in Noticed
        PROVE  Conn(p)' \/ XhcRouteStringToSlotId(Route(p))' # 0
    <3>1. step \notin AwaitSlot
      BY <1>1 DEF AwaitSlot, FirstSteps
    <3> QED
      BY <1>2, <1>3, <1>6, <2>2, <3>1, WaitingKept
  <2> QED
    BY <1>1, <1>2, <2>1, <2>2 DEF Waiting
<1> QED
  BY <1>2, <1>4, <1>5, <1>7 DEF PortInv

(* The new slot gets its address for a device that is still there.         *)
LEMMA PortInvPollAddressDevice == ASSUME Inv, PortInv, PollAddressDevice PROVE PortInv'
<1>1. /\ step = "addressAgain" /\ step' = "decideAgain"
      /\ UNCHANGED <<plugged, port, at, status, missed, resets>>
  BY PortInvIs DEF PollAddressDevice, Decided, Enabled, portVars
<1>2. /\ Resets' /\ Enabled' /\ BehindChanges'
      /\ \A p : Conn(p)' <=> Conn(p)
      /\ Noticed' \subseteq Noticed /\ Noticed \subseteq Places /\ at \in Places
  BY <1>1, PortsUntouched DEF FirstSteps, SecondSteps
<1>3. /\ Plugs /\ Enabled /\ Waiting /\ failures \in Nat /\ address \in Slots
      /\ device \in [Slots -> Places \cup {None}]
      /\ \A s \in Slots : ctx[s] \in Entry
  BY <1>1, PortInvIs, TypesIs, EntryIs DEF Inv, NewSlotServes, AddressSteps
<1>4. PICK n \in Slots : n = address
  BY <1>3
<1>5. \/ /\ at \in plugged /\ port[at].enabled /\ device' = [device EXCEPT ![n] = at]
         /\ ctx' = [ctx EXCEPT ![n].xhci = n] /\ failures' = failures
      \/ UNCHANGED <<ctx, device>> /\ (failures' = failures \/ failures' = failures + 1)
  BY <1>4 DEF PollAddressDevice, hcVars
<1>6. \A s \in Slots : InUse(s) => InUse(s)' /\ ctx'[s].route = ctx[s].route
  <2>1. CASE ctx' = ctx
    BY <2>1 DEF InUse
  <2>2. CASE ctx' = [ctx EXCEPT ![n].xhci = n]
    <3>1. PICK e \in Entry : e = ctx[n]
      BY <1>3
    <3>2. [e EXCEPT !.xhci = n].enabled = e.enabled /\ [e EXCEPT !.xhci = n].id = e.id /\ [e EXCEPT !.xhci = n].route = e.route
      BY DEF Entry
    <3>3. n \in DOMAIN ctx /\ Slots \subseteq DOMAIN ctx
      BY TypesIs DEF Types
    <3>4. ctx'[n] = [e EXCEPT !.xhci = n] /\ \A s \in Slots : s # n => ctx'[s] = ctx[s]
      BY <2>2, <3>1, <3>3
    <3> QED
      BY <3>1, <3>2, <3>4 DEF InUse
  <2> QED
    BY <1>5, <2>1, <2>2
<1>7. Plugs'
  <2>1. CASE UNCHANGED device
    BY <1>1, <1>2, <1>3, <2>1 DEF Plugs
  <2>2. CASE at \in plugged /\ port[at].enabled /\ device' = [device EXCEPT ![n] = at]
    <3>1. ~Conn(at) /\ \A q \in Ahead(at) : ~Conn(q)
      BY <1>1, <1>2, <1>3, <2>2 DEF Enabled, SecondSteps
    <3>2. \A s \in Slots : device'[s] = at \/ device'[s] = device[s]
      BY <1>3, <2>2
    <3>3. ASSUME NEW s \in Slots, device'[s] # None
          PROVE  device'[s] \in plugged' /\ ~Conn(device[s])' /\ \A q \in Ahead(device'[s]) : ~Conn(q)'
      <4>1. PICK d : d = device'[s]
        OBVIOUS
      <4>2. d \in plugged /\ ~Conn(d) /\ \A q \in Ahead(d) : ~Conn(q)
        BY <1>3, <2>2, <3>1, <3>2, <3>3, <4>1 DEF Plugs
      <4> QED
        BY <1>1, <1>2, <4>1, <4>2 DEF Conn
    <3> QED
      BY <1>1, <1>3, <3>3 DEF Plugs
  <2> QED
    BY <1>5, <2>1, <2>2
<1>8. Pending'
  BY <1>1 DEF Pending, FirstSteps
<1>9. Waiting'
  <2>1. failures' = 0 => failures = 0
    BY <1>3, <1>5
  <2>2. ASSUME failures = 0, resets = 0, NEW p \in Noticed
        PROVE  Conn(p)' \/ XhcRouteStringToSlotId(Route(p))' # 0
    <3>1. step \notin AwaitSlot
      BY <1>1 DEF AwaitSlot, FirstSteps
    <3> QED
      BY <1>2, <1>3, <1>6, <2>2, <3>1, WaitingKept
  <2> QED
    BY <1>1, <1>2, <2>1, <2>2 DEF Waiting
<1> QED
  BY <1>2, <1>7, <1>8, <1>9 DEF PortInv

(* The device that was reset gets a slot, or the port is one that missed.  *)
LEMMA PortInvPollEnableSlot == ASSUME Inv, PortInv, PollEnableSlot PROVE PortInv'
<1> DEFINE free == {s \in Slots : hcSlot[s] = "disabled"}
<1>1. /\ step \in {"enable", "enableAgain"}
      /\ UNCHANGED <<csz, device, plugged, port, bus, at, hub, status, resets>>
  BY DEF PollEnableSlot, portVars
<1>2. /\ Plugs /\ Enabled /\ Pending /\ Waiting /\ failures \in Nat
      /\ PollRoute = Route(at)
  BY <1>1, PortInvIs, TypesIs, PollIs DEF CallSteps
<1>3. step = "enable" => ~SlotIsNeeded
  BY <1>2 DEF Enabled, SlotIsNeeded
<1>4. step' \in {"decide", "decideAgain", "addressAgain"} /\ (step' = "decide" <=> step = "enable") /\ missed \subseteq missed'
  BY <1>1, <1>3 DEF PollEnableSlot, Decided
<1>5. /\ Resets' /\ Enabled' /\ BehindChanges'
      /\ \A p : Conn(p)' <=> Conn(p)
      /\ Noticed' \subseteq Noticed /\ Noticed \subseteq Places /\ at \in Places
  BY <1>1, <1>4, PortsUntouched DEF FirstSteps, SecondSteps
<1>6. Plugs'
  BY <1>1, <1>2, <1>5 DEF Plugs
<1>7. CASE step = "enable"
  <2>1. UNCHANGED <<ctx, hcSlot, failures>> /\ step' = "decide"
    BY <1>3, <1>7 DEF PollEnableSlot, Decided
  <2>2. PortIsThere(at) => PortIsThere(at)'
    BY <1>1, <2>1 DEF PortIsThere, Reaches, HubSlot, XhcBusDevAddrToSlotId, InUse
  <2>3. Pending'
    BY <1>1, <1>2, <1>5, <1>7, <2>1, <2>2 DEF Pending, FirstSteps
  <2>4. Waiting'
    <3>1. \A r : XhcRouteStringToSlotId(r)' = XhcRouteStringToSlotId(r)
      BY <2>1 DEF XhcRouteStringToSlotId, InUse
    <3> QED
      BY <1>1, <1>2, <1>5, <2>1, <3>1 DEF Waiting, AwaitSlot, FirstSteps
  <2> QED
    BY <1>5, <1>6, <2>3, <2>4 DEF PortInv
<1>8. CASE step = "enableAgain"
  <2>1. step' \in {"decideAgain", "addressAgain"}
    BY <1>4, <1>8
  <2>2. Pending'
    BY <2>1 DEF Pending, FirstSteps
  <2>3. at \in Noticed /\ ~Conn(at) /\ ~SlotIsNeeded => XhcRouteStringToSlotId(Route(at)) # 0
    BY <1>2, <1>8 DEF Pending, SlotIsNeeded, PollIsNeeded
  <2>4. CASE /\ SlotIsNeeded /\ failures' = failures
             /\ \E s \in free :
                  /\ hcSlot' = [hcSlot EXCEPT ![s] = "enabled"]
                  /\ XhcInitializeDeviceSlot(s) \/ XhcInitializeDeviceSlot64(s)
                  /\ address' = s
    <3>1. PICK n \in free : ctx' = [ctx EXCEPT ![n] = NewEntry(n, at)]
      BY <2>4 DEF XhcInitializeDeviceSlot, XhcInitializeDeviceSlot64, InitializeSlot
    <3>2. n \in Slots /\ hcSlot[n] = "disabled" /\ n # 0 /\ n \in DOMAIN ctx
      BY <3>1, TypesIs, SlotsAssumption DEF Slots, Types
    <3>3. ctx'[n] = NewEntry(n, at) /\ \A s \in Slots : s # n => ctx'[s] = ctx[s]
      BY <3>1, <3>2
    <3>4. InUse(n)' /\ ctx'[n].route = Route(at)
      BY <1>2, <3>2, <3>3 DEF InUse, NewEntry
    <3>5. XhcRouteStringToSlotId(Route(at))' # 0
      BY <1>1, <3>2, <3>4, LookupFinds DEF XhcRouteStringToSlotId
    <3>6. ASSUME failures = 0, resets = 0, NEW p \in Noticed
          PROVE  Conn(p)' \/ XhcRouteStringToSlotId(Route(p))' # 0 \/ p = at
      <4>1. ~InUse(n)
        BY <3>2, <3>6 DEF Inv, NothingLeaks
      <4>2. \A s \in Slots : InUse(s) => InUse(s)' /\ ctx'[s].route = ctx[s].route
        BY <3>3, <4>1 DEF InUse
      <4> QED
        BY <1>2, <1>5, <3>6, <4>2, WaitingKept
    <3>7. Waiting'
      BY <1>1, <1>5, <2>4, <3>5, <3>6 DEF Waiting, XhcRouteStringToSlotId, InUse
    <3> QED
      BY <1>5, <1>6, <2>2, <3>7 DEF PortInv
  <2>5. CASE /\ SlotIsNeeded /\ ctx' = ctx
             /\ failures' = IF free = {} THEN failures ELSE failures + 1
             /\ missed' = IF free = {} THEN missed \cup {at} ELSE missed
    <3>1. failures' = 0 => failures = 0 /\ at \notin Noticed'
      BY <1>2, <2>5 DEF Noticed
    <3>2. \A r : XhcRouteStringToSlotId(r)' = XhcRouteStringToSlotId(r)
      BY <2>5 DEF XhcRouteStringToSlotId, InUse
    <3>3. Waiting'
      BY <1>1, <1>2, <1>5, <3>1, <3>2 DEF Waiting
    <3> QED
      BY <1>5, <1>6, <2>2, <3>3 DEF PortInv
  <2>6. CASE ~SlotIsNeeded /\ UNCHANGED <<ctx, missed, failures>>
    <3>1. \A r : XhcRouteStringToSlotId(r)' = XhcRouteStringToSlotId(r)
      BY <2>6 DEF XhcRouteStringToSlotId, InUse
    <3>2. Waiting'
      BY <1>1, <1>2, <1>5, <2>3, <2>6, <3>1 DEF Waiting
    <3> QED
      BY <1>5, <1>6, <2>2, <3>2 DEF PortInv
  <2> QED
    BY <2>4, <2>5, <2>6 DEF PollEnableSlot
<1> QED
  BY <1>1, <1>7, <1>8

(* What is disabled lies behind the port.                                  *)
LEMMA BelowBehind ==
  ASSUME Types, Shaped, NEW s \in Slots, InUse(s), NEW t \in Below(s)
  PROVE  /\ Len(ctx[s].route) \in 1 .. Len(ctx[t].route)
         /\ SubSeq(ctx[t].route, 1, Len(ctx[s].route)) = ctx[s].route
<1> DEFINE r == ctx[s].route
           n == Len(r)
           T == {c \in Slots : InUse(c) /\ n \in 1 .. Len(ctx[c].route) /\ SubSeq(ctx[c].route, 1, n) = r}
<1>1. r \in Seq(Nat) /\ r # << >> /\ n \in Nat /\ n >= 1
  <2>1. r \in Seq(Nat) /\ r # << >>
    BY EntryIs DEF Shaped
  <2>2. n \in Nat \ {0}
    BY <2>1, EmptySeq
  <2> QED
    BY <2>1, <2>2
<1>2. T \in SUBSET Slots /\ s \in T
  <2>1. SubSeq(r, 1, n) = r /\ n \in 1 .. n
    BY <1>1, SubSeqFull
  <2> QED
    BY <2>1
<1>3. ASSUME NEW c \in Slots, InUse(c), NEW b \in T, ctx[c].parent = ctx[b].route
      PROVE  c \in T
  <2>1. PICK k \in Seq(Nat) : k = ctx[c].route
    BY EntryIs
  <2>2. k # << >> /\ ctx[b].route = Front(k)
    BY <1>3, <2>1 DEF Shaped
  <2>3. Len(k) \in Nat /\ Len(k) >= 1
    <3>1. Len(k) \in Nat \ {0}
      BY <2>2, EmptySeq
    <3> QED
      BY <3>1
  <2>4. n \in 1 .. Len(Front(k)) /\ SubSeq(Front(k), 1, n) = r
    BY <1>3, <2>2
  <2>5. Len(k) > 1
    <3>1. CASE Len(k) = 1
      <4>1. 1 \in Int /\ 1 - 1 \in Int /\ 1 - 1 < 1
        OBVIOUS
      <4>2. Front(k) = << >>
        BY <3>1, <4>1, SubSeqEmpty DEF Front
      <4>3. Len(Front(k)) = 0
        BY <4>2, EmptySeq
      <4> HIDE DEF n
      <4>4. 1 .. 0 = {}
        OBVIOUS
      <4>5. n \in 1 .. 0
        BY <2>4, <4>3, Zenon
      <4> QED
        BY <4>4, <4>5, Zenon
    <3>2. \A m \in Nat : m >= 1 => m = 1 \/ m > 1
      OBVIOUS
    <3> QED
      BY <2>3, <3>1, <3>2
  <2>6. Len(k) - 1 \in 1 .. Len(k) /\ Front(k) = SubSeq(k, 1, Len(k) - 1)
    <3>1. \A m \in Nat : m > 1 => m - 1 \in 1 .. m
      OBVIOUS
    <3> QED
      BY <2>3, <2>5, <3>1 DEF Front
  <2>7. Len(Front(k)) = Len(k) - 1
    BY <2>6, PrefixIs
  <2> HIDE DEF n
  <2> HIDE DEF r
  <2>8. SubSeq(SubSeq(k, 1, Len(k) - 1), 1, n) = SubSeq(k, 1, n)
    BY <2>4, <2>6, <2>7, PrefixOfPrefix
  <2>9. SubSeq(k, 1, n) = r /\ n \in 1 .. Len(k)
    BY <2>3, <2>4, <2>6, <2>7, <2>8
  <2> QED
    BY <1>3, <2>1, <2>9
<1>4. HasItsChildren(T)
  <2> HIDE DEF T
  <2> QED
    BY <1>3 DEF HasItsChildren
<1>5. t \in T
  <2> HIDE DEF T
  <2> QED
    BY <1>2, <1>4 DEF Below
<1> QED
  BY <1>5

(* Every port of the path to a place is a place.                           *)
LEMMA PrefixIsPlace ==
  ASSUME NEW p \in Places, NEW n \in 1 .. Len(p)
  PROVE  SubSeq(p, 1, n) \in Places
<1> DEFINE L == Len(p)
           Bad == {k \in Nat : k < L /\ SubSeq(p, 1, L - k) \notin Places}
<1>1. p \in Seq(Nat) /\ L \in Nat /\ L >= 1 /\ n \in Nat /\ SubSeq(p, 1, L) = p
  BY PlaceIs
<1>2. Bad = {}
  <2> SUFFICES ASSUME Bad # {} PROVE FALSE
    OBVIOUS
  <2> DEFINE k == Min(Bad)
  <2>1. k \in Bad /\ \A j \in Bad : k <= j
    <3>1. Bad \in SUBSET Nat
      OBVIOUS
    <3> HIDE DEF Bad
    <3> QED
      BY <3>1, MinIs
  <2>2. k \in Nat /\ k < L /\ SubSeq(p, 1, L - k) \notin Places
    BY <2>1
  <2> HIDE DEF k
  <2>3. k # 0
    <3>1. L - 0 = L
      BY <1>1
    <3> QED
      BY <1>1, <2>2, <3>1
  <2>4. k - 1 \in Nat /\ k - 1 < L /\ L - (k - 1) \in 1 .. L /\ L - (k - 1) > 1 /\ L - (k - 1) - 1 = L - k
    <3> HIDE DEF L
    <3> QED
      BY <1>1, <2>2, <2>3
  <2>5. SubSeq(p, 1, L - (k - 1)) \in Places
    <3>1. k - 1 \notin Bad
      <4> HIDE DEF Bad
      <4> QED
        BY <2>1, <2>2, <2>4
    <3> QED
      BY <2>4, <3>1
  <2> HIDE DEF L, Bad
  <2>6. PICK m \in 1 .. L : m = L - (k - 1)
    BY <2>4
  <2>7. Len(SubSeq(p, 1, m)) = m /\ Front(SubSeq(p, 1, m)) = SubSeq(p, 1, m - 1)
    BY <1>1, <2>4, <2>6, PrefixIs DEF L
  <2>8. SubSeq(p, 1, m - 1) \in Places
    BY <2>4, <2>5, <2>6, <2>7, SlotsAssumption
  <2> QED
    BY <2>2, <2>4, <2>6, <2>8
<1>3. L - n \in Nat /\ L - n < L /\ L - (L - n) = n
  <2>1. n >= 1 /\ n <= L
    OBVIOUS
  <2> HIDE DEF L
  <2> QED
    BY <1>1, <2>1
<1>4. L - n \notin Bad
  BY <1>2
<1> QED
  BY <1>3, <1>4

(* No two places look the same to the driver: no two ports of one hub are  *)
(* above 14 ("XhciSched.c", XhcPollPortStatusChange).                      *)
RoutesDistinct == \A p, q \in Places : Route(p) = Route(q) => p = q

(* A route behind a route is that of a place behind the place.             *)
LEMMA BehindRoute ==
  ASSUME RoutesDistinct, NEW p \in Places, NEW x \in Places,
         Len(x) \in 1 .. Len(p), SubSeq(Route(p), 1, Len(x)) = Route(x)
  PROVE  p \in Under(x)
<1>1. p \in Seq(Nat) /\ SubSeq(p, 1, Len(x)) \in Places
  BY PlaceIs, PrefixIsPlace
<1>2. Route(SubSeq(p, 1, Len(x))) = Route(x)
  BY <1>1, RouteOfPrefix
<1>3. SubSeq(p, 1, Len(x)) = x
  BY <1>1, <1>2 DEF RoutesDistinct
<1> QED
  BY <1>3, IsPrefixIs DEF Under

(* The slot of an address is found while it stays in use.                  *)
LEMMA AddressStays ==
  ASSUME NEW a, NEW h \in Slots, h = XhcBusDevAddrToSlotId(a), InUse(h)',
         \A t \in Slots : InUse(t)' => InUse(t) /\ ctx'[t].bus = ctx[t].bus
  PROVE  XhcBusDevAddrToSlotId(a)' = h
<1> DEFINE S == {t \in Slots : InUse(t) /\ ctx[t].bus = a}
           T == {t \in Slots : InUse(t)' /\ ctx'[t].bus = a}
<1>1. 0 \notin Slots /\ Slots \subseteq Nat
  BY SlotsAssumption DEF Slots
<1>2. InUse(h) /\ ctx[h].bus = a
  BY <1>1, AddressLookup
<1>3. h \in T /\ T \subseteq S /\ S \in SUBSET Nat /\ T \in SUBSET Nat
  BY <1>1, <1>2
<1>4. h = Lowest(S) /\ XhcBusDevAddrToSlotId(a)' = Lowest(T)
  BY DEF XhcBusDevAddrToSlotId
<1> HIDE DEF S, T
<1>5. h = Min(S) /\ Lowest(T) = Min(T)
  BY <1>3, <1>4 DEF Lowest
<1>6. Min(T) \in T /\ Min(T) <= h /\ h <= Min(T)
  <2>1. Min(T) \in T /\ \A y \in T : Min(T) <= y
    BY <1>3, MinIs
  <2>2. \A y \in S : Min(S) <= y
    BY <1>3, MinIs
  <2> QED
    BY <1>3, <1>5, <2>1, <2>2
<1>7. Min(T) = h
  <2>1. Min(T) \in Nat /\ h \in Nat
    BY <1>3, <1>6
  <2> QED
    BY <1>6, <2>1
<1> QED
  BY <1>4, <1>5, <1>7

(* The slot of the port is disabled: with it go slots of ports behind it,  *)
(* which have changes; the hub of the port keeps its slot.                 *)
LEMMA PortInvPollDisable == ASSUME RoutesDistinct, Inv, PortInv, PollDisable PROVE PortInv'
<1> DEFINE s == IF PollIsNeeded THEN XhcRouteStringToSlotId(PollRoute) ELSE 0
<1>1. /\ step \in {"disable", "disableAgain"}
      /\ step' = IF step = "disable" THEN "enable" ELSE "enableAgain"
      /\ UNCHANGED <<csz, plugged, port, bus, at, hub, status, missed, resets>>
  BY DEF PollDisable, portVars
<1>2. /\ Resets' /\ Enabled' /\ BehindChanges'
      /\ \A p : Conn(p)' <=> Conn(p)
      /\ Noticed' \subseteq Noticed /\ Noticed \subseteq Places /\ at \in Places
  BY <1>1, PortsUntouched DEF FirstSteps, SecondSteps
<1>3. /\ Plugs /\ BehindChanges /\ Pending /\ Waiting /\ failures \in Nat
      /\ Types /\ Shaped /\ PollRoute = Route(at) /\ Len(Route(at)) = Len(at)
      /\ 0 \notin Slots
  BY <1>1, PortInvIs, TypesIs, PollIs, SlotsAssumption DEF CallSteps, Inv, Slots
<1>4. CASE s = 0
  <2>1. UNCHANGED <<ctx, hcSlot, device, failures>>
    BY <1>4 DEF PollDisable, hcVars
  <2>2. Plugs'
    BY <1>1, <1>2, <1>3, <2>1 DEF Plugs
  <2>3. PortIsThere(at) => PortIsThere(at)'
    BY <1>1, <2>1 DEF PortIsThere, Reaches, HubSlot, XhcBusDevAddrToSlotId, InUse
  <2>4. Pending'
    BY <1>1, <1>2, <1>3, <2>3 DEF Pending, FirstSteps
  <2>5. \A r : XhcRouteStringToSlotId(r)' = XhcRouteStringToSlotId(r)
    BY <2>1 DEF XhcRouteStringToSlotId, InUse
  <2>6. Waiting'
    BY <1>1, <1>2, <1>3, <2>1, <2>5 DEF Waiting, AwaitSlot, FirstSteps
  <2> QED
    BY <1>2, <2>2, <2>4, <2>6 DEF PortInv
<1>5. CASE s # 0
  <2>1. PICK d \in Slots : d = s
    BY <1>5, RouteLookup
  <2>2. InUse(d) /\ ctx[d].route = Route(at)
    BY <1>3, <1>5, <2>1, RouteLookup
  <2>3. PICK failed \in SUBSET Below(d), done \in SUBSET Below(d) :
          /\ NotEnabled(Below(d)) \subseteq failed /\ done \subseteq failed \ NotEnabled(Below(d))
          /\ failures' = failures + Cardinality(failed \ NotEnabled(Below(d)))
          /\ DisableSlot(d, failed, done, csz)
    BY <1>5, <2>1 DEF PollDisable, XhcDisableSlotCmd, XhcDisableSlotCmd64
  <2> HIDE DEF s
  <2>4. Below(d) \in SUBSET Slots
    BY BelowIs
  <2>5. /\ \A t \in Slots : t \notin Below(d) => ctx'[t] = ctx[t] /\ hcSlot'[t] = hcSlot[t] /\ device'[t] = device[t]
        /\ \A t \in Slots : device'[t] \in {device[t], None}
        /\ \A t \in Slots : ctx'[t] = ctx[t] \/ ctx'[t].id = 0
    <3>1. ASSUME NEW t \in Slots
          PROVE  ctx'[t] = ctx[t] \/ ctx'[t].id = 0
      <4>1. PICK e \in Entry : e = ctx[t]
        BY <1>3, EntryIs
      <4>2. CASE t \in Below(d) \ failed
        <5>1. ctx'[t] = [e EXCEPT !.enabled = FALSE, !.id = 0]
          BY <2>3, <4>1, <4>2 DEF DisableSlot
        <5> QED
          BY <4>2, <5>1, EntryDisabled
      <4>3. CASE t \notin Below(d) \ failed /\ t \in Below(d) \ {d}
        <5>1. ctx'[t] = [e EXCEPT !.id = 0]
          BY <2>3, <4>1, <4>3 DEF DisableSlot
        <5> QED
          BY <4>3, <5>1, EntryDisabled
      <4>4. CASE t \notin Below(d) \ failed /\ t \notin Below(d) \ {d}
        BY <2>3, <4>4 DEF DisableSlot
      <4> QED
        BY <4>2, <4>3, <4>4
    <3>2. \A t \in Slots : t \notin Below(d) => ctx'[t] = ctx[t] /\ hcSlot'[t] = hcSlot[t] /\ device'[t] = device[t]
      BY <2>3 DEF DisableSlot
    <3>3. \A t \in Slots : device'[t] \in {device[t], None}
      BY <2>3 DEF DisableSlot
    <3> QED
      BY <3>1, <3>2, <3>3
  <2>6. \A t \in Slots : InUse(t)' => InUse(t) /\ ctx'[t] = ctx[t]
    BY <2>5 DEF InUse
  <2>7. Plugs'
    <3>1. ASSUME NEW t \in Slots, device'[t] # None
          PROVE  device'[t] \in plugged' /\ ~Conn(device[t])' /\ \A q \in Ahead(device'[t]) : ~Conn(q)'
      <4>1. device'[t] = device[t]
        BY <2>5, <3>1
      <4>2. device[t] \in plugged /\ ~Conn(device[t]) /\ \A q \in Ahead(device[t]) : ~Conn(q)
        BY <1>3, <3>1, <4>1 DEF Plugs
      <4> QED
        BY <1>1, <4>1, <4>2 DEF Conn
    <3> QED
      BY <1>1, <1>3, <3>1 DEF Plugs
  <2>8. PortIsThere(at) => PortIsThere(at)'
    <3> SUFFICES ASSUME PortIsThere(at), Len(at) # 1 PROVE PortIsThere(at)'
      BY <1>1 DEF PortIsThere
    <3>1. PICK x \in Places : x = at
      BY <1>2
    <3>2. PICK f \in Places : f = Front(at)
      BY <3>1, PlaceIs
    <3>3. bus[f] # None /\ Reaches(XhcBusDevAddrToSlotId(bus[f]), f)
      BY <3>2 DEF PortIsThere, Reaches, HubSlot
    <3>4. PICK h \in Slots : h = XhcBusDevAddrToSlotId(bus[f])
      BY <3>3, AddressLookup DEF Reaches
    <3>5. InUse(h) /\ hcSlot[h] = "addressed" /\ device[h] = f /\ f \in plugged /\ f # None
      BY <1>3, <3>3, <3>4, AddressLookup, SlotsAssumption DEF Reaches
    <3>6. ctx[h].route = Route(f)
      BY <3>5 DEF Inv, Devices, Serves
    <3>7. Len(Route(f)) = Len(f) /\ Len(f) = Len(x) - 1 /\ Len(x) \in Nat
      BY <3>1, <3>2, PlaceIs, RouteIs
    <3>8. h \notin Below(d)
      <4>1. h \in Below(d) => h = d \/ Len(ctx[h].route) > Len(ctx[d].route)
        BY <1>3, <2>2, BelowLonger
      <4>2. \A m \in Nat : m - 1 # m /\ ~(m - 1 > m)
        OBVIOUS
      <4>3. Len(ctx[d].route) = Len(x) /\ Len(ctx[h].route) = Len(x) - 1
        BY <1>3, <2>2, <3>1, <3>6, <3>7
      <4> QED
        BY <3>7, <4>1, <4>2, <4>3
    <3>9. ctx'[h] = ctx[h] /\ hcSlot'[h] = hcSlot[h] /\ device'[h] = device[h]
      BY <2>5, <3>8
    <3>10. InUse(h)'
      BY <3>5, <3>9 DEF InUse
    <3>11. XhcBusDevAddrToSlotId(bus[f])' = h
      <4>1. PICK a : a = bus[f]
        OBVIOUS
      <4>2. XhcBusDevAddrToSlotId(a)' = h
        BY <2>6, <3>4, <3>10, <4>1, AddressStays
      <4> QED
        BY <1>1, <4>1, <4>2 DEF XhcBusDevAddrToSlotId, InUse
    <3>12. HubSlot(at)' = h /\ Front(at)' = f
      BY <1>1, <3>2, <3>3, <3>11 DEF HubSlot, XhcBusDevAddrToSlotId, InUse
    <3> QED
      BY <1>1, <1>3, <3>5, <3>9, <3>12 DEF PortIsThere, Reaches
  <2>9. Pending'
    BY <1>1, <1>2, <1>3, <2>8 DEF Pending, FirstSteps
  <2>10. Waiting'
    <3>1. failures' = 0 => failures = 0
      <4>1. PICK u \in SUBSET Slots : u = failed \ NotEnabled(Below(d))
        BY <2>4
      <4>2. Cardinality(u) \in Nat
        BY SlotsAreFew
      <4>3. \A m, n \in Nat : m + n = 0 => m = 0
        OBVIOUS
      <4> QED
        BY <1>3, <2>3, <4>1, <4>2, <4>3
    <3>2. ASSUME failures = 0, resets = 0, NEW p \in Noticed
          PROVE  Conn(p)' \/ XhcRouteStringToSlotId(Route(p))' # 0 \/ p = at
      <4> SUFFICES ASSUME ~Conn(p), p # at PROVE XhcRouteStringToSlotId(Route(p))' # 0
        BY <1>2
      <4>1. p \in Places /\ XhcRouteStringToSlotId(Route(p)) # 0
        BY <1>2, <1>3, <3>2 DEF Waiting
      <4>2. PICK t \in Slots : t = XhcRouteStringToSlotId(Route(p))
        BY <4>1, RouteLookup
      <4>3. InUse(t) /\ ctx[t].route = Route(p)
        BY <4>1, <4>2, RouteLookup
      <4>4. t \notin Below(d)
        <5> SUFFICES ASSUME t \in Below(d) PROVE FALSE
          OBVIOUS
        <5>1. Len(Route(p)) = Len(p)
          BY <4>1, PlaceIs, RouteIs
        <5>2. Len(at) \in 1 .. Len(p) /\ SubSeq(Route(p), 1, Len(at)) = Route(at)
          BY <1>3, <2>2, <4>3, <5>1, BelowBehind
        <5>3. p \in Under(at)
          BY <1>2, <4>1, <5>2, BehindRoute
        <5>4. at \in Ahead(p)
          BY <1>2, <4>1, <5>3, AheadUnder
        <5> QED
          BY <1>1, <1>3, <5>4 DEF BehindChanges
      <4>5. InUse(t)' /\ ctx'[t].route = Route(p)
        BY <2>5, <4>3, <4>4 DEF InUse
      <4> QED
        BY <4>5, LookupFinds
    <3> QED
      BY <1>1, <1>2, <3>1, <3>2 DEF Waiting, AwaitSlot, FirstSteps
  <2> QED
    BY <1>2, <2>7, <2>9, <2>10 DEF PortInv
<1> QED
  BY <1>4, <1>5

(* After a reset the bus driver sees every device anew.                    *)
LEMMA PortInvXhcReset == ASSUME Inv, PortInv, XhcReset PROVE PortInv'
<1>1. /\ step = "rest" /\ step' = "rest" /\ at' = at /\ status' = status
      /\ device' = [s \in Slots |-> None]
      /\ port' = [p \in Places |-> IF p \in plugged THEN [enabled |-> FALSE, changes |-> {"connection"}]
                                   ELSE Quiet]
      /\ resets' = resets + 1
      /\ UNCHANGED <<plugged, missed>>
  BY DEF XhcReset
<1>2. plugged \subseteq Places /\ Plugs /\ resets \in Nat
  BY PortInvIs, TypesIs
<1>3. \A p \in Places : /\ ~port'[p].enabled /\ "reset" \notin port'[p].changes
                        /\ "connection" \in port'[p].changes <=> p \in plugged
  BY <1>1 DEF Quiet
<1>4. Plugs'
  BY <1>1, <1>2, <1>3 DEF Plugs
<1>5. Resets' /\ Enabled'
  BY <1>1, <1>3 DEF Resets, Enabled, FirstSteps, SecondSteps
<1>6. BehindChanges'
  BY <1>1, <1>2, <1>3 DEF BehindChanges, Conn, Noticed
<1>7. Pending'
  BY <1>1 DEF Pending, FirstSteps
<1>8. Waiting'
  <2>1. resets' # 0
    BY <1>1, <1>2
  <2> QED
    BY <2>1 DEF Waiting
<1> QED
  BY <1>4, <1>5, <1>6, <1>7, <1>8 DEF PortInv

(* At first there is no device and no change.                              *)
LEMMA PortInvInit == ASSUME Init PROVE PortInv
<1>1. /\ plugged = {} /\ step = "rest"
      /\ \A p \in Places : ~port[p].enabled /\ port[p].changes = {}
      /\ \A s \in Slots : device[s] = None
  BY DEF Init, Quiet
<1>2. Plugs /\ Resets
  BY <1>1 DEF Plugs, Resets
<1>3. Enabled
  BY <1>1 DEF Enabled, FirstSteps, SecondSteps
<1>4. BehindChanges /\ Waiting
  BY <1>1 DEF BehindChanges, Waiting, Noticed
<1>5. Pending
  BY <1>1 DEF Pending, FirstSteps
<1> QED
  BY <1>2, <1>3, <1>4, <1>5 DEF PortInv

(* Every step keeps what the bus driver has seen of the ports.             *)
LEMMA PortInvNext == ASSUME RoutesDistinct, Inv, PortInv, [Next]_vars PROVE PortInv'
<1>1. CASE UNCHANGED vars
  <2>1. UNCHANGED <<ctx, hcSlot, device, plugged, port, bus, step, at, status, missed, failures, resets>>
    BY <1>1 DEF vars, slotVars, hcVars, portVars, busVars, counters
  <2>2. /\ \A p : Conn(p)' <=> Conn(p)
        /\ \A p : Ahead(p)' = Ahead(p)
        /\ Noticed' = Noticed
    BY <2>1 DEF Conn, Ahead, Noticed
  <2>3. /\ PortIsThere(at)' <=> PortIsThere(at)
        /\ \A r : XhcRouteStringToSlotId(r)' = XhcRouteStringToSlotId(r)
    BY <2>1 DEF PortIsThere, Reaches, HubSlot, XhcBusDevAddrToSlotId, XhcRouteStringToSlotId, InUse
  <2>4. Plugs /\ Resets /\ Enabled /\ BehindChanges /\ Pending /\ Waiting
    BY DEF PortInv
  <2>5. Plugs'
    BY <2>1, <2>2, <2>4 DEF Plugs, Conn
  <2>6. Resets'
    BY <2>1, <2>3, <2>4 DEF Resets
  <2>7. Enabled'
    BY <2>1, <2>2, <2>4 DEF Enabled
  <2>8. BehindChanges'
    BY <2>1, <2>2, <2>4 DEF BehindChanges
  <2>9. Pending'
    BY <2>1, <2>2, <2>3, <2>4 DEF Pending, Conn
  <2>10. Waiting'
    BY <2>1, <2>2, <2>3, <2>4 DEF Waiting
  <2> QED
    BY <2>5, <2>6, <2>7, <2>8, <2>9, <2>10 DEF PortInv
<1>2. CASE \E p \in Places : Plug(p) \/ Unplug(p)
  BY <1>2, PortInvPlug, PortInvUnplug
<1>3. CASE \E p \in Places : GetPortStatus(p)
  BY <1>3, PortInvGetPortStatus
<1>4. CASE ClearPortChange \/ PollDisable \/ PollEnableSlot \/ PollAddressDevice
  BY <1>4, PortInvClearPortChange, PortInvPollDisable, PortInvPollEnableSlot, PortInvPollAddressDevice
<1>5. CASE Decide \/ XhcResetPort
  BY <1>5, PortInvDecide, PortInvXhcResetPort
<1>6. CASE DecideAgain \/ SetAddress \/ Describe
  BY <1>6, PortInvServe
<1>7. CASE XhcReset
  BY <1>7, PortInvXhcReset
<1> QED
  BY <1>1, <1>2, <1>3, <1>4, <1>5, <1>6, <1>7 DEF Next, Driver

(* Every device the bus driver can have seen has a slot, unless a command  *)
(* failed or its change was missed: as long as no two ports of one hub     *)
(* have one route.                                                         *)
THEOREM DevicesAreServed == ASSUME RoutesDistinct PROVE Spec => []DevicesHaveSlots
<1>1. Init => Inv /\ PortInv
  BY InvInit, PortInvInit
<1>2. Inv /\ PortInv /\ [Next]_vars => (Inv /\ PortInv)'
  BY InvNext, PortInvNext
<1>3. Inv /\ PortInv => DevicesHaveSlots
  <2> SUFFICES ASSUME Inv, PortInv, failures = 0, resets = 0, step = "rest",
                      NEW p \in plugged \ missed, port[p].changes = {}
               PROVE  XhcRouteStringToSlotId(Route(p)) # 0
    BY DEF DevicesHaveSlots
  <2>1. p \in Noticed /\ ~Conn(p)
    BY DEF Noticed, Conn
  <2>2. step \notin AwaitSlot
    BY DEF AwaitSlot, FirstSteps
  <2> QED
    BY <2>1, <2>2 DEF PortInv, Waiting
<1> QED
  BY <1>1, <1>2, <1>3, PTL DEF Spec

=============================================================================
