----------------------------- MODULE EventRing -----------------------------
(***************************************************************************)
(* The event ring: the controller writes, the driver reads.                *)
(*                                                                         *)
(* The driver keeps two positions. XhcSyncEventRing walks from             *)
(* EventRingDequeue over every TRB the controller has handed over, up to   *)
(* EventRingEnqueue, and toggles EventRingCCS when that walk wraps.        *)
(* XhcCheckUrbResult then takes the TRBs one by one; an event that reports *)
(* an error of a URB ends it before EventRingEnqueue is reached. In the    *)
(* end it tells the controller how far it got (ERDP).                      *)
(***************************************************************************)
EXTENDS Sequences, FiniteSetsExt

CONSTANTS
  TrbNumber,   \* EVENT_RING.TrbNumber
  Payload,     \* what an event can report
  Fatal,       \* the events XhcCheckUrbResult leaves its loop on
  Zeroed       \* the content of a TRB of a new ring

ASSUME EventRingAssumption ==
  /\ TrbNumber \in Nat /\ TrbNumber >= 2
  /\ Fatal \subseteq Payload
  /\ Zeroed \notin Payload

Slots == 0 .. (TrbNumber - 1)

VARIABLES
  cycle,       \* the cycle bit of each TRB
  data,        \* the content of each TRB
  henq,        \* controller: where the next event goes
  hpcs,        \* controller: Producer Cycle State
  erdp,        \* the ERDP register
  deq,         \* EVENT_RING.EventRingDequeue
  enq,         \* EVENT_RING.EventRingEnqueue
  ccs,         \* EVENT_RING.EventRingCCS
  step,        \* where the driver is in XhcCheckUrbResult
  last,        \* the event taken last
  cut          \* history: an error event has ended a check of this ring

hcVars == <<cycle, data, henq, hpcs>>
driverVars == <<erdp, deq, enq, ccs, step, last, cut>>
vars == <<hcVars, driverVars>>

Bit == {0, 1}
Steps == {"rest", "take", "exit"}

After(i) == IF i = TrbNumber - 1 THEN 0 ELSE i + 1
Wrap(i) == IF i < TrbNumber THEN i ELSE i - TrbNumber

(* TRBs from position a up to position b, going round.                     *)
Dist(a, b) == IF a <= b THEN b - a ELSE b - a + TrbNumber

(* The events posted and not taken, oldest first.                          *)
Contents == [n \in 1 .. Dist(deq, henq) |-> data[Wrap(deq + n - 1)]]

-----------------------------------------------------------------------------
(* CreateEventRing.                                                        *)
Init ==
  /\ cycle = [i \in Slots |-> 0]
  /\ data = [i \in Slots |-> Zeroed]
  /\ henq = 0
  /\ hpcs = 1
  /\ erdp = 0
  /\ deq = 0
  /\ enq = 0
  /\ ccs = 1
  /\ step = "rest"
  /\ last = Zeroed
  /\ cut = FALSE

(* The controller posts an event unless the ring is full: the TRB before   *)
(* the one ERDP points at stays unused.                                    *)
HcPost(d) ==
  /\ After(henq) # erdp
  /\ data' = [data EXCEPT ![henq] = d]
  /\ cycle' = [cycle EXCEPT ![henq] = hpcs]
  /\ henq' = After(henq)
  /\ hpcs' = IF henq' = 0 THEN 1 - hpcs ELSE hpcs
  /\ UNCHANGED driverVars

(* XhcSyncEventRing. The controller may post during the walk: what counts  *)
(* is what the last TRB it reads says. (Passing the end of the ring twice  *)
(* would take a walk over all TRBs: the ASSERT.)                           *)
NewAhead == {i \in deq .. (TrbNumber - 1) : cycle[i] # ccs}
NewAfterWrap == {i \in 0 .. (deq - 1) : cycle[i] # 1 - ccs}

WalkEnds == NewAhead \cup NewAfterWrap # {}

(* Mutant: the cycle bit looked for is not toggled at the end of the ring. *)
SyncKeepsCcs ==
  /\ step = "rest"
  /\ WalkEnds
  /\ enq' = IF NewAhead # {} THEN Min(NewAhead) ELSE Min(NewAfterWrap)
  /\ step' = "take"
  /\ UNCHANGED <<hcVars, erdp, deq, ccs, last, cut>>

XhcSyncEventRing ==
  /\ step = "rest"
  /\ WalkEnds
  /\ IF NewAhead # {}
     THEN enq' = Min(NewAhead) /\ UNCHANGED ccs
     ELSE enq' = Min(NewAfterWrap) /\ ccs' = 1 - ccs
  /\ step' = "take"
  /\ UNCHANGED <<hcVars, erdp, deq, last, cut>>

(* Mutant: the event that ends the loop is left on the ring.               *)
TakeEventKeepsError ==
  /\ step = "take"
  /\ deq # enq
  /\ last' = data[deq]
  /\ deq' = IF last' \in Fatal THEN deq ELSE After(deq)
  /\ step' = IF last' \in Fatal THEN "exit" ELSE "take"
  /\ cut' = (cut \/ last' \in Fatal)
  /\ UNCHANGED <<hcVars, erdp, enq, ccs>>

(* One round of the loop: XhcCheckNewEvent, and the switch on the          *)
(* completion code, that leaves the loop when the event is an error.       *)
TakeEvent ==
  /\ step = "take"
  /\ deq # enq
  /\ last' = data[deq]
  /\ deq' = After(deq)
  /\ step' = IF last' \in Fatal THEN "exit" ELSE "take"
  /\ cut' = (cut \/ last' \in Fatal)
  /\ UNCHANGED <<hcVars, erdp, enq, ccs>>

NoMoreEvents ==
  /\ step = "take"
  /\ deq = enq
  /\ step' = "exit"
  /\ UNCHANGED <<hcVars, erdp, deq, enq, ccs, last, cut>>

(* Mutant: ERDP := EventRingEnqueue.                                       *)
WriteErdpEnqueue ==
  /\ step = "exit"
  /\ erdp' = enq
  /\ step' = "rest"
  /\ UNCHANGED <<hcVars, deq, enq, ccs, last, cut>>

(* EXIT: ERDP := EventRingDequeue. (A URB that is finished already, or a   *)
(* halted controller, goes straight here and writes what ERDP holds.)      *)
WriteErdp ==
  /\ step = "exit"
  /\ erdp' = deq
  /\ step' = "rest"
  /\ UNCHANGED <<hcVars, deq, enq, ccs, last, cut>>

(* XhcReset and XhcDriverBindingStart after a stop: XhcFreeSched, then     *)
(* XhcInitSched with a new ring.                                           *)
Recreate ==
  /\ step = "rest"
  /\ cycle' = [i \in Slots |-> 0]
  /\ data' = [i \in Slots |-> Zeroed]
  /\ henq' = 0 /\ hpcs' = 1
  /\ erdp' = 0 /\ deq' = 0 /\ enq' = 0 /\ ccs' = 1
  /\ cut' = FALSE
  /\ UNCHANGED <<step, last>>

Next ==
  \/ \E d \in Payload : HcPost(d)
  \/ XhcSyncEventRing
  \/ TakeEvent
  \/ NoMoreEvents
  \/ WriteErdp
  \/ Recreate

Spec == Init /\ [][Next]_vars

(* A check that scanned the ring goes on to its end. That one begins is    *)
(* not fair: only somebody who waits for a URB that is not finished, on a  *)
(* controller that is not halted, makes one scan.                          *)
Fairness ==
  /\ WF_vars(TakeEvent)
  /\ WF_vars(NoMoreEvents)
  /\ WF_vars(WriteErdp)

FairSpec == Spec /\ Fairness

-----------------------------------------------------------------------------
(* Properties.                                                             *)

TypeOK ==
  /\ cycle \in [Slots -> Bit]
  /\ data \in [Slots -> Payload \cup {Zeroed}]
  /\ henq \in Slots /\ hpcs \in Bit
  /\ erdp \in Slots
  /\ deq \in Slots /\ enq \in Slots /\ ccs \in Bit
  /\ step \in Steps
  /\ last \in Payload \cup {Zeroed}
  /\ cut \in BOOLEAN

(* The TRBs the controller wrote on this lap carry its cycle bit, the      *)
(* others do not.                                                          *)
CycleOwnership == \A i \in Slots : (cycle[i] = hpcs) <=> (i < henq)

(* Going round from ERDP: the driver's dequeue pointer, its enqueue        *)
(* pointer, the controller. None of them overtakes the next.               *)
RingOrder ==
  Dist(erdp, deq) + Dist(deq, enq) + Dist(enq, henq) = Dist(erdp, henq)

(* The TRBs not taken are events, not leftovers of the lap before.         *)
Complete == \A n \in 1 .. Dist(deq, henq) : data[Wrap(deq + n - 1)] \in Payload

(* EventRingCCS belongs to EventRingEnqueue: once that is on the lap of    *)
(* the controller so is the bit.                                           *)
CcsFollowsEnqueue == enq <= henq => ccs = hpcs

EventRingInvariant ==
  /\ TypeOK
  /\ CycleOwnership
  /\ RingOrder
  /\ Complete
  /\ CcsFollowsEnqueue
  /\ step = "rest" => erdp = deq

(* The ASSERT (FALSE) of XhcSyncEventRing is never reached: the walk meets *)
(* a TRB that is not new before it has been round the ring.                *)
WalkAlwaysEnds == step = "rest" => WalkEnds

(* "Traverse the event ring to find out all new events from the previous   *)
(* check": whenever a check begins with an event posted and not taken, the *)
(* TRB it looks at first carries the cycle bit it looks for. Once an error *)
(* event has ended a check that is lost: EventRingCCS may by then belong   *)
(* to another lap than EventRingDequeue.                                   *)
NewEventsVisible ==
  step = "rest" /\ Contents # << >> /\ ~cut => cycle[deq] = ccs

(* The driver handles exactly the events the controller posted, each once, *)
(* whole and in order; only a new ring loses some.                         *)
Queue == INSTANCE TrbQueue WITH queue <- Contents, None <- Zeroed

ImplementsQueue == Queue!Spec

(* As long as checks that scan the ring go on (XhcExecTransfer for its URB,*)
(* the monitor for those on AsyncIntTransfers, none of them finished) every*)
(* event posted is handled, or lost with its ring, unless an error event   *)
(* has ended a check.                                                      *)
ScansGoOn == []<><<XhcSyncEventRing>>_vars

EventsAreHandled ==
  <>[](~cut) /\ ScansGoOn /\ []<>(Contents # << >>)
    => []<><<TakeEvent \/ Recreate>>_vars
=============================================================================
