-------------------------- MODULE EventRing_proofs --------------------------
(***************************************************************************)
(* Proofs about EventRing for every ring size and every set of events: its *)
(* inductive invariant, that it implements TrbQueue, that the walk ends,   *)
(* and that no event is overlooked before an error event cuts a check.                   *)
(***************************************************************************)
EXTENDS EventRing, SequenceTheorems, TLAPS

USE EventRingAssumption DEF EventRingAssumption

(* The least element of a set of integers is the element no other one is   *)
(* below.                                                                  *)
LEMMA MinIs ==
  ASSUME NEW S \in SUBSET Int, NEW m \in S, \A j \in S : m <= j
  PROVE  Min(S) = m
<1>1. \A i \in S : (\A j \in S : i <= j) => i = m
  OBVIOUS
<1>2. QED
  BY <1>1 DEF Min

(* Going round from one TRB to another passes less than the whole ring.    *)
LEMMA DistRange ==
  ASSUME NEW a \in Slots, NEW b \in Slots
  PROVE  Dist(a, b) \in Nat /\ Dist(a, b) < TrbNumber
  BY DEF Dist, Slots

(* What the order of the four positions says of any two of them.           *)
LEMMA Between ==
  ASSUME TypeOK, RingOrder
  PROVE  /\ Dist(deq, enq) + Dist(enq, henq) = Dist(deq, henq)
         /\ Dist(erdp, deq) + Dist(deq, henq) = Dist(erdp, henq)
         /\ Dist(erdp, henq) \in 0 .. (TrbNumber - 1)
         /\ Dist(deq, henq) \in 0 .. (TrbNumber - 1)
         /\ Dist(deq, enq) \in 0 .. (TrbNumber - 1)
         /\ Dist(enq, henq) \in 0 .. (TrbNumber - 1)
  BY DEF TypeOK, RingOrder, Dist, Slots

(* What is queued is a sequence of payloads.                               *)
LEMMA ContentsIsSeq ==
  ASSUME TypeOK, RingOrder, Complete
  PROVE  /\ Contents \in Seq(Payload)
         /\ Len(Contents) = Dist(deq, henq)
         /\ \A n \in 1 .. Dist(deq, henq) : Contents[n] = data[Wrap(deq + n - 1)]
<1>1. Dist(deq, henq) \in Nat
  BY Between
<1>2. Contents \in [1 .. Dist(deq, henq) -> Payload]
  BY DEF Contents, Complete
<1>3. QED
  BY <1>1, <1>2 DEF Contents

-----------------------------------------------------------------------------
(* The ring is created empty and in order.                                 *)
LEMMA InitInvariant == Init => EventRingInvariant
<1> SUFFICES ASSUME Init PROVE EventRingInvariant
  OBVIOUS
<1> USE DEF Init, Slots, Bit
<1>1. TypeOK
  <2>1. step \in Steps
    BY Zenon DEF Steps
  <2>2. cut \in BOOLEAN
    BY Zenon
  <2>3. QED
    BY <2>1, <2>2 DEF TypeOK
<1>2. Dist(deq, henq) = 0 /\ RingOrder
  BY DEF Dist, RingOrder
<1>3. QED
  BY <1>1, <1>2 DEF EventRingInvariant, CycleOwnership, Complete, CcsFollowsEnqueue

(* It is again when the controller is started anew.                        *)
LEMMA RecreateInvariant ==
  ASSUME EventRingInvariant, Recreate
  PROVE  EventRingInvariant' /\ Contents' = << >> /\ last' = last
<1> USE DEF Recreate, Slots, Bit
<1>1. TypeOK'
  <2>1. TypeOK
    BY DEF EventRingInvariant
  <2>2. cut' \in BOOLEAN
    BY Zenon
  <2>3. QED
    BY <2>1, <2>2 DEF TypeOK
<1>2. Dist(deq, henq)' = 0 /\ RingOrder'
  BY DEF Dist, RingOrder
<1>3. CycleOwnership' /\ Complete' /\ CcsFollowsEnqueue' /\ Contents' = << >>
  BY <1>2 DEF CycleOwnership, Complete, CcsFollowsEnqueue, Contents
<1>4. QED
  BY <1>1, <1>2, <1>3 DEF EventRingInvariant

(* The controller writes one TRB, the one that ends the contents.          *)
LEMMA HcPostInvariant ==
  ASSUME EventRingInvariant, NEW d \in Payload, HcPost(d)
  PROVE  EventRingInvariant' /\ Contents' = Append(Contents, d) /\ last' = last
<1>0. TypeOK /\ CycleOwnership /\ RingOrder /\ Complete /\ CcsFollowsEnqueue
  BY DEF EventRingInvariant
<1>1. /\ After(henq) # erdp
      /\ data' = [data EXCEPT ![henq] = d]
      /\ cycle' = [cycle EXCEPT ![henq] = hpcs]
      /\ henq' = After(henq)
      /\ hpcs' = IF henq' = 0 THEN 1 - hpcs ELSE hpcs
      /\ UNCHANGED <<erdp, deq, enq, ccs, step, last, cut>>
  BY DEF HcPost, driverVars
<1> USE DEF Slots, Bit
<1>2. TypeOK'
  BY <1>0, <1>1 DEF TypeOK, After
<1>3. /\ RingOrder'
      /\ Dist(deq, henq)' = Dist(deq, henq) + 1
      /\ Dist(enq, henq)' = Dist(enq, henq) + 1
  BY <1>0, <1>1 DEF TypeOK, RingOrder, Dist, After
<1>4. CycleOwnership'
  BY <1>0, <1>1 DEF TypeOK, CycleOwnership, After
<1>5. CcsFollowsEnqueue'
  <2>1. enq' # henq'
    BY <1>0, <1>1, <1>3 DEF TypeOK, Dist
  <2>2. QED
    BY <1>0, <1>1, <2>1 DEF TypeOK, CcsFollowsEnqueue, After
<1>6. Dist(deq, henq) \in 0 .. (TrbNumber - 2)
  <2>1. henq' \in Slots /\ deq' \in Slots
    BY <1>2 DEF TypeOK
  <2>2. Dist(deq', henq') < TrbNumber
    BY <2>1, DistRange
  <2>3. Dist(deq, henq) + 1 < TrbNumber
    BY <1>3, <2>2 DEF Dist
  <2>4. QED
    BY <1>0, <2>3, Between
<1>7. Wrap(deq + (Dist(deq, henq) + 1) - 1) = henq
  BY <1>0 DEF Wrap, Dist, TypeOK
<1>8. ASSUME NEW n \in 1 .. Dist(deq, henq)
      PROVE  Wrap(deq + n - 1) \in Slots /\ Wrap(deq + n - 1) # henq
  BY <1>0, <1>6, <1>8 DEF Wrap, Dist, TypeOK
<1>9. \A n \in 1 .. (Dist(deq, henq) + 1) :
        data'[Wrap(deq + n - 1)] = IF n <= Dist(deq, henq) THEN data[Wrap(deq + n - 1)] ELSE d
  <2>1. /\ data \in [Slots -> Payload \cup {Zeroed}] /\ henq \in Slots
        /\ data' = [data EXCEPT ![henq] = d]
    BY <1>0, <1>1 DEF TypeOK
  <2>2. ASSUME NEW n \in 1 .. (Dist(deq, henq) + 1), n <= Dist(deq, henq)
        PROVE  data'[Wrap(deq + n - 1)] = data[Wrap(deq + n - 1)]
    BY <1>6, <1>8, <2>1, <2>2
  <2>3. data'[Wrap(deq + (Dist(deq, henq) + 1) - 1)] = d
    BY <1>7, <2>1
  <2>4. QED
    BY <1>6, <2>2, <2>3
<1>10. Complete'
  BY <1>0, <1>1, <1>3, <1>6, <1>9 DEF Complete, Wrap
<1>11. Contents' = Append(Contents, d)
  <2>1. Contents' = [n \in 1 .. (Dist(deq, henq) + 1) |->
                       IF n <= Dist(deq, henq) THEN data[Wrap(deq + n - 1)] ELSE d]
    BY <1>1, <1>3, <1>9 DEF Contents, Wrap
  <2>2. Contents' = [n \in 1 .. (Len(Contents) + 1) |-> IF n <= Len(Contents) THEN Contents[n] ELSE d]
    BY <1>0, <1>6, <2>1, ContentsIsSeq
  <2>3. Contents' \in Seq(Payload) /\ Len(Contents') = Len(Contents) + 1 /\ Len(Contents) \in Nat
    BY <1>0, <1>6, <2>2, ContentsIsSeq
  <2> DEFINE longer == Append(Contents, d)
  <2>4. /\ longer \in Seq(Payload)
        /\ Len(longer) = Len(Contents) + 1
        /\ \A n \in 1 .. Len(Contents) : longer[n] = Contents[n]
        /\ longer[Len(Contents) + 1] = d
    BY <1>0, ContentsIsSeq, AppendProperties
  <2> HIDE DEF longer
  <2>5. \A n \in 1 .. Len(Contents') : Contents'[n] = longer[n]
    BY <2>2, <2>3, <2>4
  <2>6. Contents' = longer
    BY <2>3, <2>4, <2>5, SeqEqual
  <2>7. QED
    BY <2>6 DEF longer
<1>12. (step = "rest" => erdp = deq)'
  BY <1>1 DEF EventRingInvariant
<1>13. QED
  BY <1>1, <1>2, <1>3, <1>4, <1>5, <1>10, <1>11, <1>12 DEF EventRingInvariant

(* Where the walk of XhcSyncEventRing ends: at the controller's position,  *)
(* or at once, when EventRingCCS was toggled by an earlier walk and the    *)
(* dequeue pointer has not wrapped yet. Either way EventRingCCS is then    *)
(* the controller's.                                                       *)
LEMMA WalkEffect ==
  ASSUME EventRingInvariant, step = "rest"
  PROVE  /\ WalkEnds
         /\ XhcSyncEventRing =>
              /\ ccs' = hpcs
              /\ enq' = henq \/ (enq' = deq /\ deq > henq /\ ccs = hpcs)
<1>0. TypeOK /\ CycleOwnership /\ RingOrder /\ CcsFollowsEnqueue /\ erdp = deq
  BY DEF EventRingInvariant
<1> USE DEF Slots, Bit
<1>1. CASE deq <= henq
  <2>1. ccs = hpcs
    BY <1>0, <1>1 DEF TypeOK, RingOrder, Dist, CcsFollowsEnqueue
  <2>2. henq \in NewAhead /\ (\A j \in NewAhead : henq <= j) /\ NewAhead \in SUBSET Int
    BY <1>0, <1>1, <2>1 DEF TypeOK, CycleOwnership, NewAhead
  <2>3. Min(NewAhead) = henq
    BY <2>2, MinIs
  <2>4. QED
    BY <2>1, <2>2, <2>3 DEF XhcSyncEventRing, WalkEnds
<1>2. CASE deq > henq /\ ccs = hpcs
  <2>1. deq \in NewAhead /\ (\A j \in NewAhead : deq <= j) /\ NewAhead \in SUBSET Int
    BY <1>0, <1>2 DEF TypeOK, CycleOwnership, NewAhead
  <2>2. Min(NewAhead) = deq
    BY <2>1, MinIs
  <2>3. QED
    BY <1>2, <2>1, <2>2 DEF XhcSyncEventRing, WalkEnds
<1>3. CASE deq > henq /\ ccs # hpcs
  <2>1. NewAhead = {}
    BY <1>0, <1>3 DEF TypeOK, CycleOwnership, NewAhead
  <2>2. 1 - ccs = hpcs
    BY <1>0, <1>3 DEF TypeOK
  <2>3. henq \in NewAfterWrap /\ (\A j \in NewAfterWrap : henq <= j) /\ NewAfterWrap \in SUBSET Int
    BY <1>0, <1>3, <2>2 DEF TypeOK, CycleOwnership, NewAfterWrap
  <2>4. Min(NewAfterWrap) = henq
    BY <2>3, MinIs
  <2>5. QED
    BY <2>1, <2>2, <2>3, <2>4 DEF XhcSyncEventRing, WalkEnds
<1>4. QED
  BY <1>0, <1>1, <1>2, <1>3 DEF TypeOK

(* XhcSyncEventRing moves the driver's enqueue pointer only.               *)
LEMMA SyncInvariant ==
  ASSUME EventRingInvariant, XhcSyncEventRing
  PROVE  EventRingInvariant' /\ Contents' = Contents /\ last' = last
<1>0. TypeOK /\ CycleOwnership /\ RingOrder /\ Complete /\ CcsFollowsEnqueue
  BY DEF EventRingInvariant
<1>1. /\ step = "rest" /\ step' = "take" /\ erdp = deq
      /\ UNCHANGED <<cycle, data, henq, hpcs, erdp, deq, last, cut>>
  BY DEF XhcSyncEventRing, hcVars, EventRingInvariant
<1>2. ccs' = hpcs /\ (enq' = henq \/ enq' = deq)
  BY <1>1, WalkEffect
<1>3. TypeOK'
  <2>1. step' \in Steps
    BY <1>1, Zenon DEF Steps
  <2>2. QED
    BY <1>0, <1>1, <1>2, <2>1 DEF TypeOK
<1>4. RingOrder'
  BY <1>0, <1>1, <1>2 DEF TypeOK, RingOrder, Dist, Slots
<1>5. CycleOwnership' /\ Complete' /\ Contents' = Contents
  BY <1>0, <1>1 DEF CycleOwnership, Complete, Contents, Dist, Wrap
<1>6. CcsFollowsEnqueue'
  BY <1>1, <1>2 DEF CcsFollowsEnqueue
<1>7. QED
  BY <1>1, <1>3, <1>4, <1>5, <1>6 DEF EventRingInvariant

(* The event taken is the oldest one.                                      *)
LEMMA TakeEventInvariant ==
  ASSUME EventRingInvariant, TakeEvent
  PROVE  /\ EventRingInvariant'
         /\ Contents # << >>
         /\ last' = Head(Contents)
         /\ Contents' = Tail(Contents)
<1>0. TypeOK /\ CycleOwnership /\ RingOrder /\ Complete /\ CcsFollowsEnqueue
  BY DEF EventRingInvariant
<1>1. /\ step = "take" /\ deq # enq
      /\ last' = data[deq] /\ deq' = After(deq)
      /\ step' = IF last' \in Fatal THEN "exit" ELSE "take"
      /\ UNCHANGED <<cycle, data, henq, hpcs, erdp, enq, ccs>>
  BY DEF TakeEvent, hcVars
<1>1a. cut' \in BOOLEAN
  BY DEF TakeEvent
<1> USE DEF Slots
<1>2. /\ RingOrder'
      /\ Dist(deq, henq)' = Dist(deq, henq) - 1
      /\ Dist(deq, henq) \in 1 .. (TrbNumber - 1)
  BY <1>0, <1>1 DEF TypeOK, RingOrder, Dist, After
<1>3. \A n \in 1 .. (Dist(deq, henq) - 1) : Wrap(deq' + n - 1) = Wrap(deq + (n + 1) - 1)
  BY <1>0, <1>1, <1>2 DEF Wrap, TypeOK, After
<1>4. Wrap(deq + 1 - 1) = deq
  BY <1>0 DEF Wrap, TypeOK
<1>5. Contents # << >> /\ last' = Head(Contents)
  <2>1. Len(Contents) > 0 /\ Contents[1] = data[deq] /\ Contents \in Seq(Payload)
    BY <1>0, <1>2, <1>4, ContentsIsSeq
  <2>2. QED
    BY <1>1, <2>1
<1>6. Complete'
  BY <1>0, <1>1, <1>2, <1>3 DEF Complete
<1>7. Contents' = Tail(Contents)
  <2>1. Contents' = [n \in 1 .. (Dist(deq, henq) - 1) |-> data[Wrap(deq + (n + 1) - 1)]]
    BY <1>1, <1>2, <1>3 DEF Contents
  <2>2. Contents' = [n \in 1 .. (Len(Contents) - 1) |-> Contents[n + 1]]
    BY <1>0, <1>2, <2>1, ContentsIsSeq
  <2>3. Contents \in Seq(Payload) /\ Len(Contents) \in Nat \ {0}
    BY <1>0, <1>2, ContentsIsSeq
  <2> HIDE DEF Contents
  <2>4. /\ Tail(Contents) \in Seq(Payload)
        /\ Len(Tail(Contents)) = Len(Contents) - 1
        /\ \A n \in 1 .. (Len(Contents) - 1) : Tail(Contents)[n] = Contents[n + 1]
    BY <1>5, <2>3, HeadTailProperties
  <2>5. Contents' \in Seq(Payload) /\ Len(Contents') = Len(Contents) - 1
    BY <2>2, <2>3
  <2>6. \A n \in 1 .. Len(Contents') : Contents'[n] = Tail(Contents)[n]
    BY <2>2, <2>4, <2>5
  <2>7. QED
    BY <2>4, <2>5, <2>6, SeqEqual
<1>8. TypeOK'
  <2>1. step' \in Steps
    BY <1>1, Zenon DEF Steps
  <2>2. QED
    BY <1>0, <1>1, <1>1a, <2>1 DEF TypeOK, After
<1>9. CycleOwnership' /\ CcsFollowsEnqueue' /\ step' # "rest"
  BY <1>0, <1>1 DEF CycleOwnership, CcsFollowsEnqueue
<1>10. QED
  BY <1>2, <1>5, <1>6, <1>7, <1>8, <1>9 DEF EventRingInvariant

(* Leaving the walk, and writing ERDP, keep the ring in order.             *)
LEMMA ExitInvariant ==
  ASSUME EventRingInvariant, NoMoreEvents \/ WriteErdp \/ UNCHANGED vars
  PROVE  EventRingInvariant' /\ Contents' = Contents /\ last' = last
<1>0. /\ TypeOK /\ CycleOwnership /\ RingOrder /\ Complete /\ CcsFollowsEnqueue
      /\ step = "rest" => erdp = deq
  BY DEF EventRingInvariant
<1>1. UNCHANGED <<cycle, data, henq, hpcs, deq, enq, ccs, last, cut>>
  BY DEF NoMoreEvents, WriteErdp, vars, hcVars, driverVars
<1>2. /\ erdp' = erdp \/ erdp' = deq
      /\ step' = "rest" => erdp' = deq
      /\ step' \in {"exit", "rest", step}
  BY <1>0, Zenon DEF NoMoreEvents, WriteErdp, vars, hcVars, driverVars
<1>3. TypeOK'
  <2>1. step' \in Steps
    BY <1>0, <1>2 DEF TypeOK, Steps
  <2>2. QED
    BY <1>0, <1>1, <1>2, <2>1 DEF TypeOK
<1>4. RingOrder'
  <2>1. Dist(deq, deq) = 0
    BY <1>0 DEF Dist, TypeOK, Slots
  <2>2. QED
    BY <1>0, <1>1, <1>2, <2>1, Between DEF RingOrder, Dist
<1>5. QED
  BY <1>0, <1>1, <1>2, <1>3, <1>4
  DEF EventRingInvariant, CycleOwnership, Complete, CcsFollowsEnqueue, Contents, Dist, Wrap

-----------------------------------------------------------------------------
(* One step preserves the invariant and is a step of TrbQueue, or leaves   *)
(* the queue and the event taken last as they are.                         *)
LEMMA StepInvariant ==
  ASSUME EventRingInvariant, [Next]_vars
  PROVE  /\ EventRingInvariant'
         /\ [Queue!Next]_(Queue!queueVars)
<1> DEFINE Stays == Contents' = Contents /\ last' = last
           Puts == last' = last /\ \E d \in Payload : Contents' = Append(Contents, d)
           Takes == Contents # << >> /\ last' = Head(Contents) /\ Contents' = Tail(Contents)
           Drops == Contents' = << >> /\ last' = last
           Goal == EventRingInvariant' /\ (Stays \/ Puts \/ Takes \/ Drops)
<1>1. ASSUME NEW d \in Payload, HcPost(d) PROVE Goal
  BY <1>1, HcPostInvariant
<1>2. ASSUME XhcSyncEventRing PROVE Goal
  BY <1>2, SyncInvariant
<1>3. ASSUME TakeEvent PROVE Goal
  BY <1>3, TakeEventInvariant
<1>4. ASSUME NoMoreEvents \/ WriteErdp \/ UNCHANGED vars PROVE Goal
  BY <1>4, ExitInvariant
<1>5. ASSUME Recreate PROVE Goal
  BY <1>5, RecreateInvariant
<1>6. Goal
  <2> HIDE DEF Goal
  <2> QED
    BY <1>1, <1>2, <1>3, <1>4, <1>5 DEF Next
<1>7. QED
  BY <1>6 DEF Queue!Next, Queue!Put, Queue!Take, Queue!Drop, Queue!queueVars

(* For every ring size and every set of error events, the invariant of the *)
(* event ring holds: the driver never takes a TRB the controller has not   *)
(* written on this lap, and the controller never overwrites one that has   *)
(* not been taken.                                                         *)
THEOREM EventRingInvariantHolds == Spec => []EventRingInvariant
<1>1. Init => EventRingInvariant
  BY InitInvariant
<1>2. EventRingInvariant /\ [Next]_vars => EventRingInvariant'
  BY StepInvariant
<1>3. QED
  BY <1>1, <1>2, PTL DEF Spec

(* The walk of XhcSyncEventRing always meets a TRB that is not new: its    *)
(* ASSERT (FALSE) is out of reach.                                         *)
THEOREM WalkEndsHolds == Spec => []WalkAlwaysEnds
<1>1. EventRingInvariant => WalkAlwaysEnds
  BY WalkEffect DEF WalkAlwaysEnds
<1>2. QED
  BY <1>1, EventRingInvariantHolds, PTL

(* The driver handles what the controller posts, once and in order.        *)
THEOREM EventRingImplementsQueue == Spec => ImplementsQueue
<1>1. Init => Queue!Init
  <2> SUFFICES ASSUME Init PROVE Queue!Init
    OBVIOUS
  <2>1. Dist(deq, henq) = 0
    BY DEF Init, Dist
  <2>2. Contents = << >>
    BY <2>1 DEF Contents
  <2>3. QED
    BY <2>2 DEF Init, Queue!Init
<1>2. EventRingInvariant /\ [Next]_vars => [Queue!Next]_(Queue!queueVars)
  BY StepInvariant
<1>3. QED
  BY <1>1, <1>2, EventRingInvariantHolds, PTL DEF Spec, ImplementsQueue, Queue!Spec

-----------------------------------------------------------------------------
(* What is also true as long as no error event has cut a check short: the  *)
(* driver's two pointers meet whenever it is not taking events, and        *)
(* EventRingCCS is the bit of the lap EventRingEnqueue is on.              *)
Caught ==
  ~cut =>
    /\ step # "take" => deq = enq
    /\ enq > henq => ccs # hpcs

(* Until an error event has ended a check, a check that begins with an     *)
(* event on the ring sees it: what the comment in XhcCheckUrbResult        *)
(* promises. An error event on one side of the wrap and a good one on the  *)
(* other take it away.                                                     *)
THEOREM NewEventsVisibleWithoutErrors == Spec => []NewEventsVisible
<1> USE DEF Slots, Bit
<1>1. Init => Caught
  BY DEF Init, Caught
<1>2. ASSUME EventRingInvariant, Caught, [Next]_vars
      PROVE  Caught'
  <2>0. TypeOK /\ RingOrder /\ CcsFollowsEnqueue
    BY <1>2 DEF EventRingInvariant
  <2>1. ASSUME NEW d \in Payload, HcPost(d) PROVE Caught'
    BY <1>2, <2>0, <2>1 DEF HcPost, driverVars, Caught, TypeOK, CcsFollowsEnqueue, After
  <2>2. ASSUME XhcSyncEventRing PROVE Caught'
    <3>1. /\ step = "rest" /\ step' = "take"
          /\ UNCHANGED <<henq, hpcs, deq, cut>>
      BY <2>2 DEF XhcSyncEventRing, hcVars
    <3>2. ~cut => enq' = henq
      BY <1>2, <2>2, <3>1, WalkEffect DEF Caught
    <3>3. QED
      BY <2>0, <3>1, <3>2 DEF Caught, TypeOK
  <2>3. ASSUME TakeEvent PROVE Caught'
    <3>1. UNCHANGED <<henq, hpcs, enq, ccs>>
      BY <2>3 DEF TakeEvent, hcVars
    <3>2. ~cut' => ~cut /\ step = "take" /\ step' = "take"
      BY <2>3, Zenon DEF TakeEvent
    <3>3. QED
      BY <1>2, <3>1, <3>2 DEF Caught
  <2>4. ASSUME NoMoreEvents PROVE Caught'
    BY <1>2, <2>4 DEF NoMoreEvents, hcVars, Caught
  <2>5. ASSUME WriteErdp PROVE Caught'
    BY <1>2, <2>5 DEF WriteErdp, hcVars, Caught
  <2>6. ASSUME Recreate PROVE Caught'
    BY <2>6 DEF Recreate, Caught
  <2>7. ASSUME UNCHANGED vars PROVE Caught'
    BY <1>2, <2>7 DEF vars, hcVars, driverVars, Caught
  <2>8. QED
    BY <1>2, <2>1, <2>2, <2>3, <2>4, <2>5, <2>6, <2>7 DEF Next
<1>3. ASSUME EventRingInvariant, Caught
      PROVE  NewEventsVisible
  <2> SUFFICES ASSUME step = "rest", Contents # << >>, ~cut PROVE cycle[deq] = ccs
    BY DEF NewEventsVisible
  <2>0. TypeOK /\ CycleOwnership /\ CcsFollowsEnqueue /\ deq = enq
    BY <1>3 DEF EventRingInvariant, Caught
  <2>1. deq # henq
    <3>1. ASSUME deq = henq PROVE Contents = << >>
      BY <2>0, <3>1 DEF Contents, Dist, TypeOK
    <3>2. QED
      BY <3>1
  <2>2. QED
    BY <1>3, <2>0, <2>1 DEF TypeOK, CycleOwnership, CcsFollowsEnqueue, Caught
<1>4. QED
  BY <1>1, <1>2, <1>3, EventRingInvariantHolds, PTL DEF Spec

=============================================================================
