------------------------- MODULE TransferRing_proofs -------------------------
(***************************************************************************)
(* Proofs about TransferRing for every ring size, every URB size and every *)
(* set of payloads: its inductive invariant, and that it implements        *)
(* TrbQueue.                                                               *)
(***************************************************************************)
EXTENDS TransferRing, SequenceTheorems, TLAPS

USE RingAssumption DEF RingAssumption

(* The least element of a set of integers is the element no other one is   *)
(* below.                                                                  *)
LEMMA MinIs ==
  ASSUME NEW S \in SUBSET Int, NEW m \in S, \A j \in S : m <= j
  PROVE  Min(S) = m
<1>1. \A i \in S : (\A j \in S : i <= j) => i = m
  OBVIOUS
<1>2. QED
  BY <1>1 DEF Min

(* What XhcSyncTrsRing does on a ring that satisfies the invariant: it     *)
(* moves RingEnqueue to the tip, or hands the Link TRB over and goes on    *)
(* with the first TRB and the other cycle bit.                             *)
LEMMA SyncEffect ==
  ASSUME TypeOK, CycleOwnership, SyncTrsRing
  PROVE  /\ Tip \in 0 .. Link
         /\ Tip < Link => /\ enqueue' = Tip
                          /\ pcs' = pcs
                          /\ cycle' = cycle
         /\ Tip = Link => /\ enqueue' = 0
                          /\ pcs' = 1 - pcs
                          /\ cycle' = [cycle EXCEPT ![Link] = pcs]
         /\ data' = [data EXCEPT ![enqueue'] = Zeroed]
         /\ written' = FALSE
<1> USE DEF TypeOK, Bit, Link, Slots
<1>1. Tip \in 0 .. Link /\ enqueue <= Tip
  BY DEF Tip
<1>2. FreeAhead = Tip .. (Link - 1)
  BY <1>1 DEF CycleOwnership, FreeAhead, Tip
<1>3. ASSUME Tip < Link
      PROVE  FreeAhead # {} /\ Min(FreeAhead) = Tip
  <2>1. Tip \in FreeAhead /\ (\A j \in FreeAhead : Tip <= j) /\ FreeAhead \in SUBSET Int
    BY <1>1, <1>2, <1>3
  <2>2. QED
    BY <2>1, MinIs
<1>4. ASSUME Tip = Link
      PROVE  FreeAhead = {} /\ Min(FreeAfterLink) = 0
  <2>1. FreeAhead = {}
    BY <1>2, <1>4
  <2>2. \A i \in Slots : cycle[i] = pcs
    BY <1>4 DEF CycleOwnership
  <2>3. 0 \in FreeAfterLink /\ (\A j \in FreeAfterLink : 0 <= j) /\ FreeAfterLink \in SUBSET Int
    BY <2>2 DEF FreeAfterLink
  <2>4. QED
    BY <2>1, <2>3, MinIs
<1>5. QED
  BY <1>1, <1>3, <1>4 DEF SyncTrsRing

-----------------------------------------------------------------------------
(* The ring is created empty and in order.                                 *)
LEMMA InitInvariant == Init => RingInvariant
<1> SUFFICES ASSUME Init PROVE RingInvariant
  OBVIOUS
<1> USE DEF Init, Link, Slots
<1>1. TypeOK
  <2>1. cycle \in [0 .. Link -> Bit] /\ data \in [Slots -> Payload \cup {Zeroed}]
    BY DEF Bit
  <2>2. enqueue \in Slots /\ pcs \in Bit /\ dequeue \in 0 .. Link /\ ccs \in Bit
    BY DEF Bit
  <2>3. left \in 0 .. MaxTrbNum
    OBVIOUS
  <2>4. written \in BOOLEAN /\ step \in Steps /\ ep \in EpStates
    BY Zenon DEF Steps, EpStates
  <2>5. QED
    BY <2>1, <2>2, <2>3, <2>4 DEF TypeOK
<1>2. Tip = 0 /\ Outstanding = 0
  BY DEF Tip, Outstanding
<1>3. CycleOwnership /\ NoCatchUp
  BY <1>2 DEF CycleOwnership, NoCatchUp
<1>4. Complete
  BY <1>2 DEF Complete
<1>5. StepDiscipline
  BY DEF IsCmdRing, StepDiscipline
<1>6. QED
  BY <1>1, <1>3, <1>4, <1>5 DEF RingInvariant

(* XhcSyncTrsRing keeps the order and the contents.                        *)
LEMMA SyncInvariant ==
  ASSUME RingInvariant, Sync
  PROVE  RingInvariant' /\ Contents' = Contents
<1> USE DEF RingInvariant, Bit, Link, Slots
<1>0. TypeOK /\ CycleOwnership /\ NoCatchUp /\ Complete /\ StepDiscipline /\ SyncTrsRing
  BY DEF Sync
<1> DEFINE Here == Tip < Link
<1>1. /\ Tip \in 0 .. Link
      /\ Tip < Link => enqueue' = Tip /\ pcs' = pcs /\ cycle' = cycle
      /\ Tip = Link => enqueue' = 0 /\ pcs' = 1 - pcs /\ cycle' = [cycle EXCEPT ![Link] = pcs]
      /\ data' = [data EXCEPT ![enqueue'] = Zeroed]
      /\ written' = FALSE
  BY <1>0, SyncEffect
<1>2. Tip < Link \/ Tip = Link
  BY <1>1
<1>3. UNCHANGED <<left, hcVars>> /\ step = "sync" /\ step' = IF left > 0 THEN "write" ELSE "doorbell"
  BY DEF Sync
<1>4. TypeOK'
  <2> USE DEF TypeOK
  <2>1. enqueue' \in Slots /\ pcs' \in Bit /\ cycle' \in [0 .. Link -> Bit]
    BY <1>0, <1>1, <1>2
  <2>2. data' \in [Slots -> Payload \cup {Zeroed}]
    BY <1>0, <1>1, <2>1
  <2>3. step' \in Steps
    BY <1>3 DEF Steps
  <2>4. QED
    BY <1>0, <1>1, <1>3, <2>1, <2>2, <2>3 DEF hcVars
<1>5. CycleOwnership'
  BY <1>0, <1>1, <1>2 DEF TypeOK, CycleOwnership, Tip
<1>6. Outstanding' = Outstanding
  BY <1>0, <1>1, <1>2, <1>3 DEF TypeOK, NoCatchUp, Outstanding, Tip, hcVars
<1>7. NoCatchUp'
  BY <1>0, <1>3, <1>6 DEF NoCatchUp
<1>8. \A n \in 1 .. Outstanding : Wrap(dequeue + n - 1) \in Slots /\ Wrap(dequeue + n - 1) # enqueue'
  BY <1>0, <1>1, <1>2 DEF TypeOK, NoCatchUp, Outstanding, Tip, Wrap
<1>9. \A n \in 1 .. Outstanding : data'[Wrap(dequeue + n - 1)] = data[Wrap(dequeue + n - 1)]
  BY <1>0, <1>1, <1>8 DEF TypeOK
<1>10. Complete'
  BY <1>0, <1>3, <1>6, <1>9 DEF Complete, Wrap, hcVars
<1>11. StepDiscipline'
  BY <1>0, <1>1, <1>3 DEF IsCmdRing, StepDiscipline, TypeOK
<1>12. Contents' = Contents
  BY <1>3, <1>6, <1>9 DEF Contents, Wrap, hcVars
<1>13. QED
  BY <1>4, <1>5, <1>7, <1>10, <1>11, <1>12

(* Steps that touch neither the TRBs nor the two positions preserve what   *)
(* the invariant says of them.                                             *)
LEMMA Frame ==
  ASSUME RingInvariant, UNCHANGED <<ringVars, enqueue, pcs, written, dequeue, ccs>>
  PROVE  /\ Tip' = Tip
         /\ Outstanding' = Outstanding
         /\ CycleOwnership'
         /\ Complete'
         /\ Contents' = Contents
<1>1. Tip' = Tip
  BY DEF Tip
<1>2. Outstanding' = Outstanding
  BY <1>1 DEF Outstanding
<1>3. CycleOwnership'
  BY <1>1 DEF RingInvariant, CycleOwnership, ringVars
<1>4. Complete'
  BY <1>2 DEF RingInvariant, Complete, Wrap, ringVars
<1>5. Contents' = Contents
  BY <1>2 DEF Contents, Wrap, ringVars
<1>6. QED
  BY <1>1, <1>2, <1>3, <1>4, <1>5

(* A URB begins on a ring in order.                                        *)
LEMMA BeginUrbInvariant ==
  ASSUME RingInvariant, NEW k \in 1 .. (IF IsCmdRing THEN 1 ELSE MaxTrbNum), BeginUrb(k)
  PROVE  RingInvariant'
<1> USE DEF BeginUrb, RingInvariant
<1>1. CycleOwnership' /\ Complete' /\ Outstanding' = Outstanding
  BY Frame DEF hcVars
<1>2. TypeOK'
  <2>1. k \in 0 .. MaxTrbNum
    OBVIOUS
  <2>2. step' \in Steps
    BY Zenon DEF Steps
  <2>3. QED
    BY <2>1, <2>2 DEF TypeOK, ringVars, hcVars
<1>3. NoCatchUp'
  BY <1>1 DEF NoCatchUp, HasRoom, TypeOK
<1>4. StepDiscipline'
  BY DEF IsCmdRing, StepDiscipline
<1>5. QED
  BY <1>1, <1>2, <1>3, <1>4

(* The contents of the ring are a sequence of payloads.                    *)
LEMMA ContentsIsSeq ==
  ASSUME RingInvariant
  PROVE  /\ Outstanding \in 0 .. (Link - 1)
         /\ Contents \in Seq(Payload)
         /\ Len(Contents) = Outstanding
         /\ \A n \in 1 .. Outstanding : Contents[n] = data[Wrap(dequeue + n - 1)]
<1>1. left \in Nat /\ Outstanding \in Int /\ Outstanding >= 0 /\ Outstanding + left < Link
  BY DEF RingInvariant, TypeOK, NoCatchUp, Outstanding, Tip, Link, Slots, Bit
<1>2. Outstanding \in 0 .. (Link - 1)
  BY <1>1 DEF Link
<1>3. Contents \in [1 .. Outstanding -> Payload]
  BY DEF RingInvariant, Complete, Contents
<1>4. QED
  BY <1>2, <1>3 DEF Contents

(* A TRB written at a clean tip and given the producer's cycle bit is the  *)
(* new end of the contents.                                                *)
LEMMA PutTrb ==
  ASSUME RingInvariant, NEW d \in Payload,
         ~written, Outstanding + 1 < Link,
         data' = [data EXCEPT ![enqueue] = d],
         cycle' = [cycle EXCEPT ![enqueue] = pcs],
         written' = TRUE,
         UNCHANGED <<enqueue, pcs, dequeue, ccs>>
  PROVE  /\ data' \in [Slots -> Payload \cup {Zeroed}]
         /\ cycle' \in [0 .. Link -> Bit]
         /\ Outstanding' = Outstanding + 1
         /\ CycleOwnership'
         /\ Complete'
         /\ Contents' = Append(Contents, d)
<1> USE DEF RingInvariant, Bit, Link, Slots
<1>0. TypeOK /\ CycleOwnership /\ NoCatchUp /\ Complete
  OBVIOUS
<1>1. Tip = enqueue /\ Tip' = enqueue + 1
  BY DEF Tip
<1>2. data' \in [Slots -> Payload \cup {Zeroed}] /\ cycle' \in [0 .. Link -> Bit]
  BY <1>0 DEF TypeOK
<1>3. CycleOwnership'
  BY <1>0, <1>1 DEF CycleOwnership, TypeOK
<1>4. Outstanding' = Outstanding + 1
  BY <1>0, <1>1 DEF Outstanding, TypeOK
<1>5. Outstanding \in Nat
  BY ContentsIsSeq
<1>6. Wrap(dequeue + (Outstanding + 1) - 1) = enqueue
  BY <1>0, <1>1 DEF Wrap, Outstanding, TypeOK
<1>7. ASSUME NEW n \in 1 .. Outstanding
      PROVE  Wrap(dequeue + n - 1) \in Slots /\ Wrap(dequeue + n - 1) # enqueue
  BY <1>0, <1>1, <1>7 DEF Wrap, Outstanding, TypeOK
<1>8. \A n \in 1 .. (Outstanding + 1) :
        data'[Wrap(dequeue + n - 1)] = IF n <= Outstanding THEN data[Wrap(dequeue + n - 1)] ELSE d
  BY <1>0, <1>5, <1>6, <1>7 DEF TypeOK
<1>9. Complete'
  BY <1>0, <1>4, <1>5, <1>8 DEF Complete, Wrap
<1>10. Contents' = Append(Contents, d)
  <2>1. Contents' = [n \in 1 .. (Outstanding + 1) |->
                       IF n <= Outstanding THEN data[Wrap(dequeue + n - 1)] ELSE d]
    BY <1>4, <1>8 DEF Contents, Wrap
  <2>2. Contents' = [n \in 1 .. (Len(Contents) + 1) |-> IF n <= Len(Contents) THEN Contents[n] ELSE d]
    BY <1>5, <2>1, ContentsIsSeq
  <2>3. Contents' \in Seq(Payload) /\ Len(Contents') = Len(Contents) + 1
    BY <1>5, <2>2, ContentsIsSeq
  <2> DEFINE longer == Append(Contents, d)
  <2>4. /\ longer \in Seq(Payload)
        /\ Len(longer) = Len(Contents) + 1
        /\ \A n \in 1 .. Len(Contents) : longer[n] = Contents[n]
        /\ longer[Len(Contents) + 1] = d
    BY ContentsIsSeq, AppendProperties
  <2>5. Len(Contents) \in Nat
    BY ContentsIsSeq
  <2> HIDE DEF longer
  <2>6. \A n \in 1 .. Len(Contents') : Contents'[n] = longer[n]
    BY <2>2, <2>3, <2>4, <2>5
  <2>7. Contents' = longer
    BY <2>3, <2>4, <2>6, SeqEqual
  <2>8. QED
    BY <2>7 DEF longer
<1>11. QED
  BY <1>2, <1>3, <1>4, <1>9, <1>10

(* A TRB that is written is the new end of the contents.                   *)
LEMMA WriteTrbInvariant ==
  ASSUME RingInvariant, NEW d \in Payload, WriteTrb(d)
  PROVE  RingInvariant' /\ Contents' = Append(Contents, d)
<1> USE DEF RingInvariant, WriteTrb
<1>1. ~written /\ left > 0 /\ Outstanding + left < Link /\ TypeOK
  BY DEF IsCmdRing, StepDiscipline, NoCatchUp
<1>2. left \in 0 .. MaxTrbNum /\ Outstanding \in Nat /\ Link \in Nat
  BY <1>1, ContentsIsSeq DEF TypeOK, Link
<1>3. /\ data' \in [Slots -> Payload \cup {Zeroed}]
      /\ cycle' \in [0 .. Link -> Bit]
      /\ Outstanding' = Outstanding + 1
      /\ CycleOwnership'
      /\ Complete'
      /\ Contents' = Append(Contents, d)
  <2>1. /\ Outstanding + 1 < Link
        /\ data' = [data EXCEPT ![enqueue] = d]
        /\ cycle' = [cycle EXCEPT ![enqueue] = pcs]
        /\ UNCHANGED <<enqueue, pcs, dequeue, ccs>>
    BY <1>1, <1>2 DEF hcVars
  <2>2. written' = TRUE
    BY Zenon
  <2> HIDE DEF RingInvariant, WriteTrb
  <2>3. QED
    BY <1>1, <2>1, <2>2, PutTrb
<1>4. left' \in 0 .. MaxTrbNum /\ Outstanding' + left' < Link /\ Outstanding' >= 0
  BY <1>1, <1>2, <1>3
<1>5. step' \in Steps /\ written' \in BOOLEAN
  BY Zenon DEF Steps
<1>6. TypeOK'
  BY <1>1, <1>3, <1>4, <1>5 DEF TypeOK, hcVars
<1>7. StepDiscipline'
  BY DEF IsCmdRing, StepDiscipline
<1>8. QED
  BY <1>3, <1>4, <1>6, <1>7 DEF NoCatchUp

(* The template of a command is copied with its cycle bit 1: on a lap      *)
(* whose bit is 1 that is the put, on the other lap nothing is handed over.*)
LEMMA CopyCmdTrbInvariant ==
  ASSUME RingInvariant, NEW d \in Payload, CopyCmdTrb(d)
  PROVE  /\ RingInvariant'
         /\ Contents' = Contents \/ Contents' = Append(Contents, d)
<1>0. TypeOK /\ CycleOwnership /\ NoCatchUp /\ Complete /\ StepDiscipline
  BY DEF RingInvariant
<1>1. /\ ~written /\ left > 0 /\ IsCmdRing
      /\ Outstanding + left < Link
      /\ Outstanding >= 0
  BY <1>0 DEF CopyCmdTrb, StepDiscipline, NoCatchUp
<1>2. left \in 0 .. MaxTrbNum /\ Outstanding \in Nat /\ Link \in Nat /\ pcs \in {0, 1}
  BY <1>0, ContentsIsSeq DEF TypeOK, Link, Bit
<1>3. step' \in Steps /\ written' \in BOOLEAN
  BY Zenon DEF CopyCmdTrb, Steps
<1>4. CASE pcs = 1
  <2>1. /\ Outstanding + 1 < Link
        /\ data' = [data EXCEPT ![enqueue] = d]
        /\ cycle' = [cycle EXCEPT ![enqueue] = pcs]
        /\ UNCHANGED <<enqueue, pcs, dequeue, ccs>>
    BY <1>1, <1>2, <1>4 DEF CopyCmdTrb, hcVars
  <2>2. written' = TRUE
    BY <1>4, Zenon DEF CopyCmdTrb
  <2>3. /\ data' \in [Slots -> Payload \cup {Zeroed}]
        /\ cycle' \in [0 .. Link -> Bit]
        /\ Outstanding' = Outstanding + 1
        /\ CycleOwnership'
        /\ Complete'
        /\ Contents' = Append(Contents, d)
    BY <1>1, <2>1, <2>2, PutTrb
  <2>4. left' \in 0 .. MaxTrbNum /\ Outstanding' + left' < Link /\ Outstanding' >= 0
    BY <1>1, <1>2, <1>4, <2>3 DEF CopyCmdTrb
  <2>5. TypeOK'
    BY <1>0, <1>3, <2>1, <2>3, <2>4 DEF TypeOK, CopyCmdTrb, hcVars
  <2>6. data'[enqueue'] = d
    BY <1>0, <2>1 DEF TypeOK
  <2>7. StepDiscipline'
    BY <1>1, <1>4, <2>2, <2>6 DEF IsCmdRing, StepDiscipline, CopyCmdTrb
  <2>8. QED
    BY <2>3, <2>4, <2>5, <2>7 DEF NoCatchUp, RingInvariant
<1>5. CASE pcs = 0
  <2>0. pcs # 1
    BY <1>5
  <2>1. /\ data' = [data EXCEPT ![enqueue] = d]
        /\ UNCHANGED <<enqueue, pcs, dequeue, ccs, left>>
        /\ ~written'
    BY <2>0 DEF CopyCmdTrb, hcVars
  <2>2. cycle' = cycle
    <3>1. Tip = enqueue
      BY <1>1 DEF Tip
    <3>2. cycle[enqueue] = 1
      BY <1>0, <1>5, <3>1 DEF CycleOwnership, TypeOK, Bit, Slots, Link
    <3>3. QED
      BY <1>0, <3>2 DEF CopyCmdTrb, TypeOK, Bit
  <2>3. Tip' = Tip /\ Tip = enqueue
    BY <1>1, <2>1 DEF Tip
  <2>4. Outstanding' = Outstanding
    BY <2>1, <2>3 DEF Outstanding
  <2>5. ASSUME NEW n \in 1 .. Outstanding
        PROVE  Wrap(dequeue + n - 1) \in Slots /\ Wrap(dequeue + n - 1) # enqueue
    BY <1>0, <1>1, <2>3, <2>5 DEF Wrap, Outstanding, TypeOK, Slots, Link, Bit
  <2>6. \A n \in 1 .. Outstanding : data'[Wrap(dequeue + n - 1)] = data[Wrap(dequeue + n - 1)]
    BY <1>0, <2>1, <2>5 DEF TypeOK
  <2>7. Complete' /\ Contents' = Contents
    BY <1>0, <2>1, <2>4, <2>6 DEF Complete, Contents, Wrap
  <2>8. CycleOwnership' /\ NoCatchUp'
    BY <1>0, <2>1, <2>2, <2>3, <2>4 DEF CycleOwnership, NoCatchUp
  <2>9. TypeOK'
    BY <1>0, <1>3, <2>1, <2>2 DEF TypeOK, CopyCmdTrb, hcVars
  <2>10. data'[enqueue'] = d
    BY <1>0, <2>1 DEF TypeOK
  <2>11. StepDiscipline'
    BY <1>1, <2>1, <2>10 DEF IsCmdRing, StepDiscipline, CopyCmdTrb
  <2>12. QED
    BY <2>7, <2>8, <2>9, <2>11 DEF RingInvariant
<1>6. QED
  BY <1>2, <1>4, <1>5

(* The cycle bit of a command hands it over, or has done so before.        *)
LEMMA StampCmdTrbInvariant ==
  ASSUME RingInvariant, StampCmdTrb
  PROVE  /\ RingInvariant'
         /\ \/ Contents' = Contents
            \/ \E d \in Payload : Contents' = Append(Contents, d)
<1>0. TypeOK /\ CycleOwnership /\ NoCatchUp /\ Complete /\ StepDiscipline
  BY DEF RingInvariant
<1>1. step' \in Steps /\ written' = TRUE /\ IsCmdRing
  BY <1>0, Zenon DEF StampCmdTrb, Steps, StepDiscipline
<1>2. left' = 0 /\ UNCHANGED <<data, enqueue, pcs, dequeue, ccs>>
  BY DEF StampCmdTrb, hcVars
<1>3. CASE written
  <2>1. cycle' = cycle
    BY <1>0, <1>3 DEF StampCmdTrb, TypeOK, CycleOwnership, Tip, Slots, Link
  <2>2. Tip' = Tip
    BY <1>1, <1>2, <1>3 DEF Tip
  <2>3. Outstanding' = Outstanding /\ Outstanding \in Int
    BY <1>0, <1>2, <2>2, ContentsIsSeq DEF Outstanding
  <2>4. Complete' /\ Contents' = Contents /\ CycleOwnership'
    BY <1>0, <1>2, <2>1, <2>2, <2>3 DEF Complete, Contents, Wrap, CycleOwnership
  <2>5. NoCatchUp' /\ left' \in 0 .. MaxTrbNum
    BY <1>0, <1>2, <2>3 DEF NoCatchUp, TypeOK, Link
  <2>6. TypeOK'
    <3>1. written' \in BOOLEAN
      BY <1>1, Zenon
    <3>2. QED
      BY <1>0, <1>1, <1>2, <2>1, <2>5, <3>1 DEF TypeOK, StampCmdTrb, hcVars
  <2>7. StepDiscipline'
    BY <1>1 DEF IsCmdRing, StepDiscipline, StampCmdTrb
  <2>8. QED
    BY <2>4, <2>5, <2>6, <2>7 DEF RingInvariant
<1>4. CASE ~written
  <2>1. data[enqueue] \in Payload /\ left > 0
    BY <1>0, <1>4 DEF StampCmdTrb, StepDiscipline
  <2>2. Outstanding + 1 < Link /\ Outstanding \in Nat
    BY <1>0, <2>1, ContentsIsSeq DEF NoCatchUp, TypeOK, Link
  <2>3. /\ data' = [data EXCEPT ![enqueue] = data[enqueue]]
        /\ cycle' = [cycle EXCEPT ![enqueue] = pcs]
    BY <1>0 DEF StampCmdTrb, TypeOK
  <2>4. /\ data' \in [Slots -> Payload \cup {Zeroed}]
        /\ cycle' \in [0 .. Link -> Bit]
        /\ Outstanding' = Outstanding + 1
        /\ CycleOwnership'
        /\ Complete'
        /\ Contents' = Append(Contents, data[enqueue])
    BY <1>1, <1>2, <1>4, <2>1, <2>2, <2>3, PutTrb
  <2>5. NoCatchUp'
    BY <1>2, <2>2, <2>4 DEF NoCatchUp
  <2>6. TypeOK'
    <3>1. written' \in BOOLEAN
      BY <1>1, Zenon
    <3>2. left' \in 0 .. MaxTrbNum
      BY <1>2
    <3>3. QED
      BY <1>0, <1>1, <1>2, <2>4, <3>1, <3>2 DEF TypeOK, StampCmdTrb, hcVars
  <2>7. StepDiscipline'
    BY <1>1 DEF IsCmdRing, StepDiscipline, StampCmdTrb
  <2>8. QED
    BY <2>1, <2>4, <2>5, <2>6, <2>7 DEF RingInvariant
<1>5. QED
  BY <1>3, <1>4

(* The steps that move neither position and write no TRB.                  *)
LightStep ==
  \/ RingDoorBell \/ LeavePoll \/ BeginDequeue \/ BeginRecovery
  \/ StopEndpoint \/ ResetEndpoint \/ RecoveryFails \/ KeepDequeuePointer
  \/ HcHalt

(* The steps that write no TRB leave the contents as they are.             *)
LEMMA LightStepInvariant ==
  ASSUME RingInvariant, LightStep
  PROVE  RingInvariant' /\ Contents' = Contents /\ last' = last
<1>0. TypeOK /\ CycleOwnership /\ NoCatchUp /\ Complete /\ StepDiscipline
  BY DEF RingInvariant
<1>1. UNCHANGED <<kind, ringVars, enqueue, pcs, written, left, dequeue, ccs, last>>
  BY DEF LightStep, RingDoorBell, LeavePoll, BeginDequeue, BeginRecovery, StopEndpoint,
         ResetEndpoint, RecoveryFails, KeepDequeuePointer, HcHalt, driverVars, hcVars
<1>2. /\ Outstanding' = Outstanding /\ Contents' = Contents
      /\ CycleOwnership' /\ Complete'
  BY <1>1, Frame
<1>3. step' \in Steps /\ ep' \in EpStates
  BY <1>0, Zenon DEF TypeOK, LightStep, RingDoorBell, LeavePoll, BeginDequeue, BeginRecovery,
         StopEndpoint, ResetEndpoint, RecoveryFails, KeepDequeuePointer, HcHalt,
         driverVars, hcVars, Steps, EpStates
<1>4. TypeOK'
  BY <1>0, <1>1, <1>3 DEF TypeOK, ringVars
<1>5. NoCatchUp'
  BY <1>0, <1>1, <1>2 DEF NoCatchUp
<1>6. StepDiscipline'
  BY <1>0, <1>1 DEF IsCmdRing, StepDiscipline, LightStep, RingDoorBell, LeavePoll, BeginDequeue,
         BeginRecovery, StopEndpoint, ResetEndpoint, RecoveryFails, KeepDequeuePointer,
         HcHalt, driverVars, hcVars, ringVars
<1>7. QED
  BY <1>1, <1>2, <1>4, <1>5, <1>6 DEF RingInvariant

(* Set TR Dequeue Pointer is only issued on a ring that has been synced,   *)
(* and leaves it empty.                                                    *)
LEMMA SetTrDequeuePointerInvariant ==
  ASSUME RingInvariant, SetTrDequeuePointer
  PROVE  RingInvariant' /\ Contents' = << >> /\ last' = last
<1>0. TypeOK /\ CycleOwnership /\ NoCatchUp /\ Complete /\ StepDiscipline
  BY DEF RingInvariant
<1>1. /\ ~written /\ dequeue' = enqueue /\ ccs' = pcs /\ step' = "restart"
      /\ UNCHANGED <<kind, cycle, data, enqueue, pcs, written, left, ep, last>>
  BY <1>0 DEF SetTrDequeuePointer, StepDiscipline, ringVars
<1>2. Tip' = enqueue /\ Tip = enqueue
  BY <1>1 DEF Tip
<1>3. Outstanding' = 0
  BY <1>0, <1>1, <1>2 DEF Outstanding, TypeOK, Slots, Link
<1>4. Complete' /\ Contents' = << >>
  BY <1>3 DEF Complete, Contents
<1>5. CycleOwnership'
  BY <1>0, <1>1, <1>2 DEF CycleOwnership
<1>6. NoCatchUp'
  <2>1. Outstanding \in Nat /\ left \in Nat /\ Link \in Nat
    BY <1>0, ContentsIsSeq DEF TypeOK, Link
  <2>2. QED
    BY <1>0, <1>1, <1>3, <2>1 DEF NoCatchUp
<1>7. step' \in Steps
  BY <1>1, Zenon DEF Steps
<1>8. TypeOK'
  BY <1>0, <1>1, <1>7 DEF TypeOK, Slots, Link
<1>9. StepDiscipline'
  BY <1>0, <1>1 DEF IsCmdRing, StepDiscipline
<1>10. QED
  BY <1>1, <1>4, <1>5, <1>6, <1>8, <1>9 DEF RingInvariant

(* The controller owns a TRB only when there is one to run: what it runs   *)
(* is the head of the contents.                                            *)
LEMMA HcRunInvariant ==
  ASSUME RingInvariant, HcRun
  PROVE  /\ RingInvariant'
         /\ Contents # << >>
         /\ last' = Head(Contents)
         /\ Contents' = Tail(Contents)
<1>0. TypeOK /\ CycleOwnership /\ NoCatchUp /\ Complete /\ StepDiscipline
  BY DEF RingInvariant
<1>1. /\ dequeue # Link /\ cycle[dequeue] = ccs
      /\ last' = data[dequeue] /\ dequeue' = dequeue + 1
      /\ UNCHANGED <<kind, cycle, data, enqueue, pcs, written, step, left, ccs, ep>>
  BY DEF HcRun, Owned, ringVars, driverVars
<1>2. Tip \in 0 .. Link
  BY <1>0 DEF Tip, TypeOK, Slots, Link
<1>3. dequeue \in Slots /\ Outstanding > 0 /\ Outstanding \in Int
  BY <1>0, <1>1, <1>2 DEF TypeOK, CycleOwnership, NoCatchUp, Outstanding, Bit, Slots, Link
<1>4. Tip' = Tip /\ Outstanding' = Outstanding - 1
  BY <1>0, <1>1, <1>2 DEF Outstanding, Tip, TypeOK, Bit, Slots, Link
<1>5. \A n \in 1 .. (Outstanding - 1) :
        Wrap(dequeue' + n - 1) = Wrap(dequeue + (n + 1) - 1)
  BY <1>0, <1>1, <1>3 DEF Wrap, TypeOK, Slots, Link
<1>6. Wrap(dequeue + 1 - 1) = dequeue
  BY <1>3 DEF Wrap, Slots, Link
<1>7. Contents # << >> /\ last' = Head(Contents)
  <2>1. Len(Contents) > 0 /\ Contents[1] = data[dequeue] /\ Contents \in Seq(Payload)
    BY <1>3, <1>6, ContentsIsSeq
  <2>2. QED
    BY <1>1, <2>1
<1>8. Complete'
  BY <1>0, <1>1, <1>3, <1>4, <1>5 DEF Complete
<1>9. Contents' = Tail(Contents)
  <2>1. Contents' = [n \in 1 .. (Outstanding - 1) |-> data[Wrap(dequeue + (n + 1) - 1)]]
    BY <1>1, <1>4, <1>5 DEF Contents
  <2>2. Contents' = [n \in 1 .. (Len(Contents) - 1) |-> Contents[n + 1]]
    BY <1>3, <2>1, ContentsIsSeq
  <2>3. Contents \in Seq(Payload) /\ Len(Contents) \in Nat \ {0}
    BY <1>3, ContentsIsSeq
  <2> HIDE DEF Contents
  <2>4. /\ Tail(Contents) \in Seq(Payload)
        /\ Len(Tail(Contents)) = Len(Contents) - 1
        /\ \A n \in 1 .. (Len(Contents) - 1) : Tail(Contents)[n] = Contents[n + 1]
    BY <1>7, <2>3, HeadTailProperties
  <2>5. Contents' \in Seq(Payload) /\ Len(Contents') = Len(Contents) - 1
    BY <2>2, <2>3
  <2>6. \A n \in 1 .. Len(Contents') : Contents'[n] = Tail(Contents)[n]
    BY <2>2, <2>4, <2>5
  <2>7. QED
    BY <2>4, <2>5, <2>6, SeqEqual
<1>10. CycleOwnership'
  BY <1>0, <1>1, <1>4 DEF CycleOwnership
<1>11. NoCatchUp'
  BY <1>0, <1>1, <1>3, <1>4 DEF NoCatchUp, TypeOK, Link
<1>12. TypeOK'
  BY <1>0, <1>1, <1>3 DEF TypeOK, Slots, Link
<1>13. StepDiscipline'
  BY <1>0, <1>1 DEF IsCmdRing, StepDiscipline
<1>14. QED
  BY <1>7, <1>8, <1>9, <1>10, <1>11, <1>12, <1>13 DEF RingInvariant

(* Following the Link TRB changes where the controller stands, not what it *)
(* has to run.                                                             *)
LEMMA HcFollowLinkInvariant ==
  ASSUME RingInvariant, HcFollowLink
  PROVE  RingInvariant' /\ Contents' = Contents /\ last' = last
<1>0. TypeOK /\ CycleOwnership /\ NoCatchUp /\ Complete /\ StepDiscipline
  BY DEF RingInvariant
<1>1. /\ dequeue = Link /\ cycle[Link] = ccs /\ dequeue' = 0 /\ ccs' = 1 - ccs
      /\ UNCHANGED <<kind, cycle, data, enqueue, pcs, written, step, left, ep, last>>
  BY DEF HcFollowLink, Owned, ringVars, driverVars
<1>2. Tip \in 0 .. Link /\ Tip' = Tip
  BY <1>0, <1>1 DEF Tip, TypeOK, Slots, Link
<1>3. ccs = 1 - pcs
  BY <1>0, <1>1, <1>2 DEF CycleOwnership, TypeOK, Bit, Link
<1>4. Outstanding' = Outstanding /\ Outstanding = Tip
  BY <1>0, <1>1, <1>2, <1>3 DEF Outstanding, TypeOK, Bit, Slots, Link
<1>5. Outstanding \in 0 .. (Link - 1)
  BY ContentsIsSeq
<1>6. \A n \in 1 .. Outstanding : Wrap(dequeue' + n - 1) = Wrap(dequeue + n - 1)
  BY <1>1, <1>5 DEF Wrap, Link
<1>7. Complete' /\ Contents' = Contents
  BY <1>0, <1>1, <1>4, <1>6 DEF Complete, Contents
<1>8. CycleOwnership'
  BY <1>0, <1>1, <1>2 DEF CycleOwnership
<1>9. NoCatchUp'
  BY <1>0, <1>1, <1>4 DEF NoCatchUp
<1>10. TypeOK'
  BY <1>0, <1>1 DEF TypeOK, Link, Bit
<1>11. StepDiscipline'
  BY <1>0, <1>1 DEF IsCmdRing, StepDiscipline
<1>12. QED
  BY <1>1, <1>7, <1>8, <1>9, <1>10, <1>11 DEF RingInvariant

-----------------------------------------------------------------------------
(* One step of the ring preserves the invariant and is a step of TrbQueue, *)
(* or leaves the queue and the TRB taken last as they are.                 *)
LEMMA StepInvariant ==
  ASSUME RingInvariant, [Next]_vars
  PROVE  /\ RingInvariant'
         /\ [Queue!Next]_(Queue!queueVars)
<1> DEFINE Stays == Contents' = Contents /\ last' = last
           Puts == last' = last /\ \E d \in Payload : Contents' = Append(Contents, d)
           Takes == Contents # << >> /\ last' = Head(Contents) /\ Contents' = Tail(Contents)
           Drops == Contents' = << >> /\ last' = last
           Goal == RingInvariant' /\ (Stays \/ Puts \/ Takes \/ Drops)
<1>1. ASSUME NEW k \in 1 .. (IF IsCmdRing THEN 1 ELSE MaxTrbNum), BeginUrb(k)
      PROVE  Goal
  <2>1. RingInvariant'
    BY <1>1, BeginUrbInvariant
  <2>2. UNCHANGED <<ringVars, enqueue, pcs, written, dequeue, ccs, last>>
    BY <1>1 DEF BeginUrb, hcVars
  <2>3. Contents' = Contents
    BY <2>2, Frame
  <2>4. QED
    BY <2>1, <2>2, <2>3
<1>2. ASSUME Sync PROVE Goal
  <2>1. last' = last
    BY <1>2 DEF Sync, hcVars
  <2>2. QED
    BY <1>2, <2>1, SyncInvariant
<1>3. ASSUME NEW d \in Payload, WriteTrb(d)
      PROVE  Goal
  <2>1. last' = last
    BY <1>3 DEF WriteTrb, hcVars
  <2>2. QED
    BY <1>3, <2>1, WriteTrbInvariant
<1>4. ASSUME NEW d \in Payload, CopyCmdTrb(d)
      PROVE  Goal
  <2>1. last' = last
    BY <1>4 DEF CopyCmdTrb, hcVars
  <2>2. QED
    BY <1>4, <2>1, CopyCmdTrbInvariant
<1>5. ASSUME StampCmdTrb PROVE Goal
  <2>1. last' = last
    BY <1>5 DEF StampCmdTrb, hcVars
  <2>2. QED
    BY <1>5, <2>1, StampCmdTrbInvariant
<1>6. ASSUME LightStep PROVE Goal
  BY <1>6, LightStepInvariant
<1>7. ASSUME SetTrDequeuePointer PROVE Goal
  BY <1>7, SetTrDequeuePointerInvariant
<1>8. ASSUME HcRun PROVE Goal
  BY <1>8, HcRunInvariant
<1>9. ASSUME HcFollowLink PROVE Goal
  BY <1>9, HcFollowLinkInvariant
<1>10. ASSUME UNCHANGED vars PROVE Goal
  <2>1. UNCHANGED <<kind, cycle, data, enqueue, pcs, written, step, left, dequeue, ccs, ep, last>>
    BY <1>10 DEF vars, ringVars, driverVars, hcVars
  <2>2. UNCHANGED <<ringVars, enqueue, pcs, written, dequeue, ccs>>
    BY <2>1 DEF ringVars
  <2>3. Outstanding' = Outstanding /\ CycleOwnership' /\ Complete' /\ Contents' = Contents
    BY <2>2, Frame
  <2>4. TypeOK' /\ NoCatchUp' /\ StepDiscipline'
    BY <2>1, <2>3 DEF RingInvariant, TypeOK, NoCatchUp, StepDiscipline, IsCmdRing
  <2>5. QED
    BY <2>1, <2>3, <2>4 DEF RingInvariant
<1>11. Goal
  <2> HIDE DEF Goal
  <2>1. CASE Driver
    BY <1>1, <1>2, <1>3, <1>4, <1>5, <1>6, <1>7, <2>1 DEF Driver, LightStep
  <2>2. CASE Hc
    BY <1>6, <1>8, <1>9, <2>2 DEF Hc, LightStep
  <2>3. QED
    BY <1>10, <2>1, <2>2 DEF Next
<1>12. QED
  BY <1>11 DEF Queue!Next, Queue!Put, Queue!Take, Queue!Drop, Queue!queueVars

(* For every ring of three TRBs or more and every URB size, the invariant  *)
(* of the ring holds: a cycle bit equal to the producer's marks exactly    *)
(* the TRBs written on this lap, the driver never catches up with the      *)
(* controller, and every TRB the controller may run is complete.           *)
THEOREM RingInvariantHolds == Spec => []RingInvariant
<1>1. Init => RingInvariant
  BY InitInvariant
<1>2. RingInvariant /\ [Next]_vars => RingInvariant'
  BY StepInvariant
<1>3. QED
  BY <1>1, <1>2, PTL DEF Spec

(* The ring implements the queue: what XhcCreateTransferTrb or             *)
(* XhcCreateCmdTrb write is what the controller runs, once and in order.   *)
THEOREM RingImplementsQueue == Spec => ImplementsQueue
<1>1. Init => Queue!Init
  <2> SUFFICES ASSUME Init PROVE Queue!Init
    OBVIOUS
  <2>1. Outstanding = 0
    BY DEF Init, Outstanding, Tip
  <2>2. Contents = << >>
    BY <2>1 DEF Contents
  <2>3. QED
    BY <2>2 DEF Init, Queue!Init
<1>2. RingInvariant /\ [Next]_vars => [Queue!Next]_(Queue!queueVars)
  BY StepInvariant
<1>3. QED
  BY <1>1, <1>2, RingInvariantHolds, PTL DEF Spec, ImplementsQueue, Queue!Spec

=============================================================================
