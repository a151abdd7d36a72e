-------------------------- MODULE XhciAsync_proofs --------------------------
(***************************************************************************)
(* Proofs about XhciAsync for any number of endpoints, cells and TRBs: no  *)
(* URB is lost or submitted twice, and no callback is called twice in a    *)
(* round or twice for the same data, until a callback leads the monitor    *)
(* astray or an error event makes the driver deaf.                         *)
(***************************************************************************)
EXTENDS XhciAsync, SequenceTheorems, FiniteSetTheorems, WellFoundedInduction, TLAPS

UrbCells == [used : BOOLEAN, ep : Endpoints \cup {None}, td : Nat, finished : BOOLEAN, error : BOOLEAN]
Events == [td : Nat, error : BOOLEAN]
Places == {"rest", "visit", "finished", "callback", "update", "advance"}

(* What the variables are.                                                 *)
UrbTypes ==
  /\ list \in Seq(Cells) /\ cell \in [Cells -> UrbCells]
  /\ enabled \in SUBSET Endpoints /\ accepted \in SUBSET Endpoints
  /\ resubmits \in BOOLEAN

HcTypes ==
  /\ halted \in SUBSET Endpoints /\ ring \in [Endpoints -> Seq(Nat)] /\ evts \in Seq(Events)
  /\ deaf \in BOOLEAN

MonitorTypes ==
  /\ pc \in Places /\ cursor \in Cells \cup {None} /\ next \in Cells \cup {None}
  /\ caller \in Endpoints \cup {None} /\ called \in SUBSET Endpoints
  /\ astray \in BOOLEAN

(* A TRB's number is not above the number of TRBs written.                 *)
Numbers ==
  /\ tds \in 0 .. MaxTds
  /\ \A c \in Cells : cell[c].td <= tds /\ (cell[c].td = 0 => cell[c].ep = None)
  /\ \A e \in Endpoints : \A i \in 1 .. Len(ring[e]) : ring[e][i] \in 1 .. tds
  /\ \A i \in 1 .. Len(evts) : evts[i].td \in 1 .. tds
  /\ reported \in SUBSET (1 .. tds) /\ dropped \in SUBSET (0 .. tds)

(* The list holds at most one URB of an endpoint, in memory that is used.  *)
OnePerEndpoint ==
  /\ \A i, j \in 1 .. Len(list) : cell[list[i]].ep = cell[list[j]].ep => i = j
  /\ \A i \in 1 .. Len(list) :
       cell[list[i]].used = TRUE /\ cell[list[i]].ep \in accepted /\ cell[list[i]].td # 0

(* No callback of the URBs from c to the end of the list has been called.  *)
Uncalled(c) ==
  \A i, j \in 1 .. Len(list) : list[j] = c /\ j <= i => cell[list[i]].ep \notin called

IsListed(c) == \E i \in 1 .. Len(list) : list[i] = c

(* Where the monitor is on the list, unless a callback led it astray.      *)
Walk ==
  /\ pc = "visit" /\ astray = FALSE => (cursor = None \/ IsListed(cursor)) /\ Uncalled(cursor)
  /\ pc \in {"finished", "callback", "update", "advance"} /\ astray = FALSE =>
       (next = None \/ IsListed(next)) /\ Uncalled(next)
  /\ pc = "finished" => cursor \in Cells /\ cell[cursor].ep \in enabled
  /\ pc = "finished" /\ astray = FALSE =>
       /\ IsListed(cursor) /\ Uncalled(cursor) /\ cell[cursor].finished = TRUE
       /\ \A i, j \in 1 .. Len(list) : list[i] = cursor /\ list[j] = next => i < j
  /\ pc \in {"callback", "update"} => cursor \in Cells
  /\ resubmits = FALSE => astray = FALSE
  /\ resubmits = FALSE /\ pc \in {"callback", "update"} => IsListed(cursor) /\ cell[cursor].finished = TRUE

Waiting(n) == \E i \in 1 .. Len(evts) : evts[i].td = n
Queued(e, n) == \E i \in 1 .. Len(ring[e]) : ring[e][i] = n

(* The URB of a device that is there waits for exactly one thing.          *)
Tracked(u) ==
  /\ u.finished = TRUE \/ Queued(u.ep, u.td) \/ Waiting(u.td)
  /\ u.finished = TRUE => ~Waiting(u.td)
  /\ u.ep \notin halted =>
       ring[u.ep] = << >> \/ (ring[u.ep] = <<u.td>> /\ u.finished = FALSE /\ ~Waiting(u.td))
  /\ \A j, k \in 1 .. Len(evts) : evts[j].td = u.td /\ evts[k].td = u.td => j = k

AllTracked == \A i \in 1 .. Len(list) : cell[list[i]].ep \in enabled => Tracked(cell[list[i]])

(* A TRB is of one URB and on the ring of its endpoint, and a ring without *)
(* a URB is empty.                                                         *)
Owned ==
  /\ \A i, j \in 1 .. Len(list) : cell[list[i]].td = cell[list[j]].td => i = j
  /\ \A i \in 1 .. Len(list), e \in Endpoints : Queued(e, cell[list[i]].td) => e = cell[list[i]].ep
  /\ \A e \in enabled \ halted : (\A i \in 1 .. Len(list) : cell[list[i]].ep # e) => ring[e] = << >>

(* What was reported is submitted anew before the monitor looks at it again. *)
Reported ==
  \A i \in 1 .. Len(list) :
    cell[list[i]].ep \in enabled /\ cell[list[i]].td \in reported =>
      pc \in {"callback", "update"} /\ list[i] = cursor /\ cell[cursor].error = FALSE

Types == UrbTypes /\ HcTypes /\ MonitorTypes /\ Numbers
Rounds == OnePerEndpoint /\ Walk
Steady == resubmits = FALSE /\ deaf = FALSE => AllTracked /\ Owned /\ Reported

-----------------------------------------------------------------------------
(* A set of natural numbers has a least one, and Min is it.                *)
LEMMA MinOfSet ==
  ASSUME NEW T, T \subseteq Nat, T # {}
  PROVE  Min(T) \in T /\ \A y \in T : Min(T) <= y
<1> DEFINE R == {p \in Nat \X Nat : p[1] < p[2]}
<1>1. IsWellFoundedOn(R, Nat)
  BY NatLessThanWellFounded DEF OpToRel
<1>2. PICK x \in T : \A y \in T : <<y, x>> \notin R
  BY <1>1, WFMin
<1>3. ASSUME NEW y \in T PROVE x <= y
  <2>1. x \in Nat /\ y \in Nat /\ <<y, x>> \notin R
    BY <1>2
  <2> QED
    BY <2>1
<1> QED
  BY <1>3 DEF Min

(* What is on the list is URB memory.                                      *)
LEMMA ListFacts ==
  ASSUME UrbTypes
  PROVE  /\ Len(list) \in Nat
         /\ \A i \in 1 .. Len(list) : list[i] \in Cells /\ cell[list[i]] \in UrbCells
         /\ \A c : c \in Listed <=> IsListed(c)
         /\ \A c : IsListed(c) => c \in Cells
<1>1. Len(list) \in Nat /\ \A i \in 1 .. Len(list) : list[i] \in Cells
  BY DEF UrbTypes
<1>2. \A c : c \in Listed <=> IsListed(c)
  BY DEF UrbTypes, Listed, Range, IsListed
<1> QED
  BY <1>1, <1>2 DEF UrbTypes, IsListed

(* What a poll makes of a URB: it is finished when one of the n events     *)
(* that are taken is of it.                                                *)
LEMMA CheckedEffect ==
  ASSUME UrbTypes, HcTypes, NEW n \in 0 .. Len(evts), NEW c \in Cells
  PROVE  LET u == CheckedUpTo(n)[c] IN
         /\ u \in UrbCells /\ u.used = cell[c].used /\ u.ep = cell[c].ep /\ u.td = cell[c].td
         /\ IsListed(c) /\ (\E i \in 1 .. n : evts[i].td = cell[c].td) => u.finished = TRUE
         /\ ~(IsListed(c) /\ \E i \in 1 .. n : evts[i].td = cell[c].td) => u = cell[c]
<1> DEFINE hit == IsListed(c) /\ \E i \in 1 .. n : evts[i].td = cell[c].td
           i == CHOOSE i \in 1 .. n : evts[i].td = cell[c].td
<1>1. cell[c] \in UrbCells /\ Len(evts) \in Nat /\ \A j \in 1 .. n : evts[j] \in Events
  BY DEF UrbTypes, HcTypes
<1>2. CheckedUpTo(n)[c] = IF hit THEN [cell[c] EXCEPT !.finished = TRUE, !.error = evts[i].error]
                          ELSE cell[c]
  BY ListFacts DEF CheckedUpTo
<1>3. hit => i \in 1 .. n /\ evts[i].error \in BOOLEAN
  BY <1>1 DEF Events
<1> HIDE DEF i
<1>4. CASE hit
  BY <1>1, <1>2, <1>3, <1>4 DEF UrbCells
<1>5. CASE ~hit
  BY <1>1, <1>2, <1>5
<1> QED
  BY <1>4, <1>5

(* XhcCheckUrbResult takes the first n events, for some n.                 *)
Polled(n) == cell' = CheckedUpTo(n) /\ evts' = SubSeq(evts, n + 1, Len(evts))

(* Taking events is such a poll,                                           *)
LEMMA TakeEffect ==
  ASSUME NEW n \in 0 .. Len(evts), Take(n)
  PROVE  Polled(n) /\ deaf' \in BOOLEAN
BY DEF Take, Polled

(* Polling for nothing changes nothing.                                    *)
LEMMA PollNothing ==
  ASSUME UrbTypes, HcTypes
  PROVE  CheckedUpTo(0) = cell /\ SubSeq(evts, 0 + 1, Len(evts)) = evts /\ Len(evts) \in Nat
<1>1. evts \in Seq(Events) /\ Len(evts) \in Nat /\ 0 \in 0 .. Len(evts)
  BY DEF HcTypes
<1>2. ASSUME NEW c \in Cells
      PROVE  CheckedUpTo(0)[c] = cell[c]
  <2>1. ~\E i \in 1 .. 0 : evts[i].td = cell[c].td
    OBVIOUS
  <2> QED
    BY <1>1, <2>1, CheckedEffect
<1>3. CheckedUpTo(0) = [c \in Cells |-> CheckedUpTo(0)[c]] /\ cell = [c \in Cells |-> cell[c]]
  BY DEF CheckedUpTo, UrbTypes
<1> QED
  BY <1>1, <1>2, <1>3, SubSeqFull

(* and so is a check: it takes all events, those up to the first error, or *)
(* none if the driver is deaf, which it stays.                             *)
LEMMA PollEffect ==
  ASSUME UrbTypes, HcTypes, XhcCheckUrbResult
  PROVE  (\E n \in 0 .. Len(evts) : Polled(n)) /\ deaf' \in BOOLEAN /\ (deaf' = FALSE => deaf = FALSE)
<1>1. Len(evts) \in Nat /\ FirstError \subseteq 1 .. Len(evts) /\ deaf \in BOOLEAN
  BY DEF HcTypes, FirstError
<1>2. CASE deaf = TRUE
  <2>1. UNCHANGED <<cell, evts, deaf>>
    BY <1>2 DEF XhcCheckUrbResult
  <2>2. Polled(0) /\ 0 \in 0 .. Len(evts)
    BY <2>1, PollNothing DEF Polled
  <2> QED
    BY <1>1, <2>1, <2>2
<1>3. CASE deaf = FALSE /\ FirstError = {}
  <2>1. Len(evts) \in 0 .. Len(evts) /\ Take(Len(evts))
    BY <1>1, <1>3 DEF XhcCheckUrbResult
  <2> QED
    BY <1>3, <2>1, TakeEffect
<1>4. CASE deaf = FALSE /\ FirstError # {}
  <2>1. FirstError \subseteq Nat
    BY <1>1
  <2>2. Min(FirstError) \in FirstError
    BY <1>4, <2>1, MinOfSet
  <2>3. Min(FirstError) \in 1 .. Len(evts)
    BY <1>1, <2>2
  <2>4. Min(FirstError) \in 0 .. Len(evts)
    BY <1>1, <2>3
  <2>5. Take(Min(FirstError))
    BY <1>4 DEF XhcCheckUrbResult
  <2> QED
    BY <1>4, <2>4, <2>5, TakeEffect
<1> QED
  BY <1>1, <1>2, <1>3, <1>4

(* The events that are left are the later ones.                            *)
LEMMA EventsLeft ==
  ASSUME HcTypes, NEW n \in 0 .. Len(evts), evts' = SubSeq(evts, n + 1, Len(evts))
  PROVE  /\ evts' \in Seq(Events) /\ Len(evts') = Len(evts) - n /\ Len(evts) \in Nat
         /\ \A i \in 1 .. Len(evts') : i + n \in 1 .. Len(evts) /\ evts'[i] = evts[i + n]
<1>1. evts \in Seq(Events) /\ Len(evts) \in Nat
  BY DEF HcTypes
<1>2. \A i \in (n + 1) .. Len(evts) : evts[i] \in Events
  BY <1>1
<1>3. evts' \in Seq(Events) /\ Len(evts') = Len(evts) - n
  BY <1>1, <1>2, SubSeqProperties
<1>4. \A i \in 1 .. Len(evts) - n : evts'[i] = evts[i + n]
  BY <1>1
<1> QED
  BY <1>1, <1>3, <1>4

(* A new transfer is at the head of the list.                              *)
LEMMA InsertEffect ==
  ASSUME UrbTypes, NEW c \in Cells, list' = InsertHeadList(c)
  PROVE  /\ list' \in Seq(Cells) /\ Len(list') = Len(list) + 1 /\ list'[1] = c
         /\ \A i \in 1 .. Len(list) : list'[i + 1] = list[i]
         /\ \A i \in 2 .. Len(list') : i - 1 \in 1 .. Len(list) /\ list'[i] = list[i - 1]
<1>1. list \in Seq(Cells) /\ Len(list) \in Nat /\ <<c>> \in Seq(Cells) /\ Len(<<c>>) = 1 /\ <<c>>[1] = c
  BY DEF UrbTypes
<1>2. /\ list' \in Seq(Cells) /\ Len(list') = Len(list) + 1
      /\ \A i \in 1 .. Len(list) + 1 : list'[i] = IF i <= 1 THEN <<c>>[i] ELSE list[i - 1]
  BY <1>1, ConcatProperties DEF InsertHeadList
<1> QED
  BY <1>1, <1>2

(* A URB that is removed leaves the others in their order.                 *)
LEMMA RemoveEffect ==
  ASSUME UrbTypes, NEW i \in 1 .. Len(list), list' = RemoveEntryList(i)
  PROVE  /\ list' \in Seq(Cells) /\ Len(list') = Len(list) - 1 /\ Len(list) \in Nat
         /\ \A j \in 1 .. Len(list') : /\ (IF j < i THEN j ELSE j + 1) \in (1 .. Len(list)) \ {i}
                                       /\ list'[j] = list[IF j < i THEN j ELSE j + 1]
<1> DEFINE s == SubSeq(list, 1, i - 1)
           t == SubSeq(list, i + 1, Len(list))
<1>1. list \in Seq(Cells) /\ Len(list) \in Nat /\ \A j \in 1 .. Len(list) : list[j] \in Cells
  BY DEF UrbTypes
<1>2. s \in Seq(Cells) /\ Len(s) = i - 1 /\ \A j \in 1 .. i - 1 : s[j] = list[j]
  <2>1. \A j \in 1 .. i - 1 : list[j] \in Cells
    BY <1>1
  <2> QED
    BY <1>1, <2>1, SubSeqProperties
<1>3. t \in Seq(Cells) /\ Len(t) = Len(list) - i /\ \A j \in 1 .. Len(list) - i : t[j] = list[i + j]
  <2>1. \A j \in i + 1 .. Len(list) : list[j] \in Cells
    BY <1>1
  <2> QED
    BY <1>1, <2>1, SubSeqProperties
<1>4. list' = s \o t
  BY DEF RemoveEntryList, RemoveAt
<1> HIDE DEF s, t
<1>5. /\ list' \in Seq(Cells) /\ Len(list') = Len(s) + Len(t)
      /\ \A j \in 1 .. Len(s) + Len(t) : list'[j] = IF j <= Len(s) THEN s[j] ELSE t[j - Len(s)]
  <2>1. s \in Seq(Cells) /\ t \in Seq(Cells)
    BY <1>2, <1>3
  <2> QED
    BY <1>4, <2>1, ConcatProperties
<1>6. Len(list') = Len(list) - 1
  BY <1>1, <1>2, <1>3, <1>5
<1>7. ASSUME NEW j \in 1 .. Len(list'), j < i
      PROVE  j \in (1 .. Len(list)) \ {i} /\ list'[j] = list[j]
  BY <1>1, <1>2, <1>3, <1>5, <1>7
<1>8. ASSUME NEW j \in 1 .. Len(list'), ~(j < i)
      PROVE  j + 1 \in (1 .. Len(list)) \ {i} /\ list'[j] = list[j + 1]
  <2>1. j - Len(s) \in 1 .. Len(list) - i /\ i + (j - Len(s)) = j + 1 /\ ~(j <= Len(s))
    BY <1>1, <1>2, <1>6, <1>8
  <2> QED
    BY <1>1, <1>2, <1>3, <1>5, <1>6, <1>8, <2>1
<1> QED
  BY <1>1, <1>5, <1>6, <1>7, <1>8

-----------------------------------------------------------------------------
(* What the steps change, in the terms of the proofs.                      *)

(* The steps of the monitor that look at no event and submit nothing.      *)
Quiet ==
  BeginRound \/ EndRound \/ DropData \/ Callback \/ CallbackReturns \/ Advance \/ UNCHANGED vars

(* They leave the list, its URBs and the rings alone.                      *)
LEMMA QuietEffect ==
  ASSUME Quiet
  PROVE  UNCHANGED <<resubmits, list, cell, enabled, accepted, ring, halted, evts, deaf, tds>>
<1> USE DEF listVars, deviceVars, hcVars
<1>1. CASE BeginRound \/ EndRound \/ DropData
  BY <1>1 DEF BeginRound, EndRound, DropData
<1>2. CASE Callback \/ CallbackReturns \/ Advance
  BY <1>2 DEF Callback, CallbackReturns, Advance
<1>3. CASE UNCHANGED vars
  BY <1>3 DEF vars
<1> QED
  BY <1>1, <1>2, <1>3 DEF Quiet

(* A step that polls changes URBs and events only.                         *)
LEMMA PollStep ==
  ASSUME UrbTypes, HcTypes, OtherUrbIsPolled \/ Check
  PROVE  /\ UNCHANGED <<resubmits, list, enabled, accepted, ring, halted, tds>>
         /\ UNCHANGED <<cursor, caller, called, reported, dropped, astray>>
         /\ deaf' \in BOOLEAN /\ (deaf' = FALSE => deaf = FALSE)
         /\ \E n \in 0 .. Len(evts) : Polled(n)
<1> USE DEF deviceVars, monitorVars, historyVars
<1>1. CASE OtherUrbIsPolled
  <2>1. deaf = FALSE
    BY <1>1 DEF OtherUrbIsPolled, HcTypes
  <2>2. PICK n \in 0 .. Len(evts) : Take(n)
    BY <1>1 DEF OtherUrbIsPolled
  <2> QED
    BY <1>1, <2>1, <2>2, TakeEffect DEF OtherUrbIsPolled
<1>2. CASE Check
  <2>1. XhcCheckUrbResult \/ UNCHANGED <<cell, evts, deaf>>
    BY <1>2 DEF Check
  <2>2. CASE XhcCheckUrbResult
    BY <1>2, <2>2, PollEffect DEF Check
  <2>3. CASE UNCHANGED <<cell, evts, deaf>>
    <3>1. Polled(0) /\ 0 \in 0 .. Len(evts)
      BY <2>3, PollNothing DEF Polled
    <3> QED
      BY <1>2, <2>3, <3>1 DEF Check, HcTypes
  <2> QED
    BY <2>1, <2>2, <2>3
<1> QED
  BY <1>1, <1>2

(* The bound leaves room for one more TRB.                                 *)
LEMMA RoomForTrb ==
  ASSUME UrbTypes, tds \in Nat, BoundLeft
  PROVE  tds + 1 \in 0 .. MaxTds
<1> DEFINE S == {c \in Listed : ~OnRing(c)}
<1>1. IsFiniteSet(Listed)
  <2>1. IsFiniteSet(1 .. Len(list))
    BY ListFacts, FS_Interval
  <2>2. list \in [1 .. Len(list) -> Cells]
    BY DEF UrbTypes
  <2>3. list \in Surjection(1 .. Len(list), Listed)
    BY <2>2, ListFacts DEF Surjection, IsListed
  <2> QED
    BY <2>1, <2>3, FS_Surjection
<1>2. Cardinality(S) \in Nat
  BY <1>1, FS_Subset, FS_CardinalityType
<1>3. tds + Cardinality(S) < MaxTds
  BY DEF BoundLeft
<1> QED
  BY <1>2, <1>3, AsyncAssumption

(* A transfer is submitted into memory that is not used, or not at all.    *)
LEMMA SubmitEffect ==
  ASSUME NEW e \in Endpoints, SubmitTransfer(e)
  PROVE  /\ e \notin accepted /\ accepted' = accepted \cup {e}
         /\ UNCHANGED <<resubmits, enabled, halted, evts, deaf, pc, cursor, next, caller, called>>
         /\ UNCHANGED <<reported, dropped, astray>> /\ MayCall
         /\ \/ UNCHANGED <<tds, list, cell, ring>> /\ e \notin enabled
            \/ /\ e \in enabled /\ BoundLeft /\ tds' = tds + 1
               /\ ring' = [ring EXCEPT ![e] = Append(@, tds + 1)]
               /\ \E c \in Cells : /\ ~cell[c].used /\ list' = InsertHeadList(c)
                                   /\ cell' = [cell EXCEPT ![c] = Submitted(e, tds + 1)]
<1> USE DEF listVars, monitorVars, historyVars
<1>1. CASE e \in enabled
  <2>1. tds' = tds + 1
    BY <1>1 DEF SubmitTransfer
  <2>2. \E c \in Cells : /\ ~cell[c].used /\ list' = InsertHeadList(c)
                         /\ cell' = [cell EXCEPT ![c] = Submitted(e, tds')]
    BY <1>1 DEF SubmitTransfer
  <2> QED
    BY <1>1, <2>1, <2>2 DEF SubmitTransfer
<1>2. CASE e \notin enabled
  BY <1>2 DEF SubmitTransfer
<1> QED
  BY <1>1, <1>2

(* The URB at place i is removed after n events were taken.                *)
Removal(e, i, n) ==
  /\ cell[list[i]].ep = e /\ list' = RemoveEntryList(i)
  /\ dropped' = dropped \cup {cell[list[i]].td}
  /\ evts' = SubSeq(evts, n + 1, Len(evts))
  /\ cell' \in [Cells -> UrbCells]
  /\ \A c \in Cells : IF c = list[i] THEN cell'[c].td = cell[c].td /\ cell'[c].ep = cell[c].ep
                      ELSE cell'[c] = CheckedUpTo(n)[c]
  /\ ring' = IF e \in enabled \ halted /\ ~deaf' THEN [ring EXCEPT ![e] = << >>] ELSE ring
  /\ astray' = (astray \/ (pc = "callback" /\ list[i] = next))

(* A transfer is removed with what is on its ring; the polls take some of  *)
(* the events.                                                             *)
LEMMA DeleteEffect ==
  ASSUME UrbTypes, HcTypes, NEW e \in Endpoints, DeleteTransfer(e)
  PROVE  /\ accepted' = accepted \ {e} /\ MayCall
         /\ UNCHANGED <<resubmits, enabled, halted, tds, pc, cursor, next, caller, called, reported>>
         /\ deaf' \in BOOLEAN /\ (deaf' = FALSE => deaf = FALSE)
         /\ \/ /\ UNCHANGED <<list, cell, ring, evts, dropped, astray>>
               /\ \A i \in 1 .. Len(list) : cell[list[i]].ep # e
            \/ \E i \in 1 .. Len(list), n \in 0 .. Len(evts) : Removal(e, i, n)
<1> USE DEF listVars, monitorVars
<1>1. /\ accepted' = accepted \ {e} /\ MayCall
      /\ UNCHANGED <<resubmits, enabled, halted, tds, pc, cursor, next, caller, called, reported>>
  BY DEF DeleteTransfer
<1>2. CASE Of(e) = {}
  <2>1. \A i \in 1 .. Len(list) : cell[list[i]].ep # e
    BY <1>2 DEF Of
  <2> QED
    BY <1>1, <1>2, <2>1 DEF DeleteTransfer, HcTypes
<1>3. CASE Of(e) # {}
  <2> DEFINE i == Min(Of(e))
  <2>1. i \in 1 .. Len(list) /\ cell[list[i]].ep = e
    <3>1. Of(e) \subseteq Nat
      BY ListFacts DEF Of
    <3>2. i \in Of(e)
      BY <1>3, <3>1, MinOfSet
    <3> QED
      BY <3>2 DEF Of
  <2>2. PICK n \in 0 .. Len(evts) :
          /\ CommandIsPolled(e, n)
          /\ list' = RemoveEntryList(i) /\ dropped' = dropped \cup {cell[list[i]].td}
          /\ cell' = [CheckedUpTo(n) EXCEPT ![list[i]].used = FALSE]
          /\ evts' = SubSeq(evts, n + 1, Len(evts))
          /\ ring' = IF e \in enabled \ halted /\ ~deaf' THEN [ring EXCEPT ![e] = << >>] ELSE ring
          /\ astray' = (astray \/ (pc = "callback" /\ list[i] = next))
    BY <1>3 DEF DeleteTransfer
  <2> HIDE DEF i
  <2>3. deaf' \in BOOLEAN /\ (deaf' = FALSE => deaf = FALSE)
    <3>1. deaf \in BOOLEAN
      BY DEF HcTypes
    <3>2. CASE e \notin enabled \/ deaf
      BY <2>2, <3>1, <3>2 DEF CommandIsPolled
    <3>3. CASE ~(e \notin enabled \/ deaf)
      BY <2>2, <3>1, <3>3 DEF CommandIsPolled
    <3> QED
      BY <3>2, <3>3
  <2>6. CheckedUpTo(n) \in [Cells -> UrbCells] /\ list[i] \in Cells
    <3>1. \A c \in Cells : CheckedUpTo(n)[c] \in UrbCells
      BY <2>2, CheckedEffect
    <3>2. CheckedUpTo(n) = [c \in Cells |-> CheckedUpTo(n)[c]]
      BY DEF CheckedUpTo
    <3> QED
      BY <2>1, <3>1, <3>2, ListFacts
  <2>7. \A u \in UrbCells : /\ [u EXCEPT !.used = FALSE] \in UrbCells
                            /\ [u EXCEPT !.used = FALSE].td = u.td /\ [u EXCEPT !.used = FALSE].ep = u.ep
    BY DEF UrbCells
  <2>8. /\ cell' \in [Cells -> UrbCells]
        /\ \A c \in Cells : IF c = list[i] THEN cell'[c] = [CheckedUpTo(n)[c] EXCEPT !.used = FALSE]
                            ELSE cell'[c] = CheckedUpTo(n)[c]
    BY <2>2, <2>6, <2>7
  <2>9. cell'[list[i]].td = cell[list[i]].td /\ cell'[list[i]].ep = cell[list[i]].ep
    <3>1. /\ CheckedUpTo(n)[list[i]] \in UrbCells /\ CheckedUpTo(n)[list[i]].td = cell[list[i]].td
          /\ CheckedUpTo(n)[list[i]].ep = cell[list[i]].ep
      BY <2>6, CheckedEffect
    <3> QED
      BY <2>6, <2>7, <2>8, <3>1
  <2>10. \A c \in Cells : IF c = list[i] THEN cell'[c].td = cell[c].td /\ cell'[c].ep = cell[c].ep
                          ELSE cell'[c] = CheckedUpTo(n)[c]
    BY <2>8, <2>9
  <2>11. Removal(e, i, n)
    BY <2>1, <2>2, <2>8, <2>10 DEF Removal
  <2> QED
    BY <1>1, <2>1, <2>3, <2>11
<1> QED
  BY <1>2, <1>3

(* A URB that is submitted again: another TRB, and nothing known of it.    *)
Resubmitted(u, n) == [u EXCEPT !.td = n, !.finished = FALSE, !.error = FALSE]

(* It is in the same memory and of the same endpoint.                      *)
LEMMA ResubmittedEffect ==
  ASSUME NEW u \in UrbCells, NEW n \in Nat
  PROVE  LET v == Resubmitted(u, n) IN
         v \in UrbCells /\ v.used = u.used /\ v.ep = u.ep /\ v.td = n /\ v.finished = FALSE /\ v.error = FALSE
<1>1. [u EXCEPT !.td = n] \in UrbCells
  BY DEF UrbCells
<1>2. \A v \in UrbCells : [v EXCEPT !.finished = FALSE] \in UrbCells /\ [v EXCEPT !.error = FALSE] \in UrbCells
  BY DEF UrbCells
<1>3. Resubmitted(u, n) \in UrbCells
  BY <1>1, <1>2 DEF Resubmitted
<1> QED
  BY <1>3 DEF Resubmitted, UrbCells

(* XhcUpdateAsyncRequest writes one TRB, or nothing.                       *)
LEMMA UpdateEffect ==
  ASSUME UrbTypes, cursor \in Cells, Update
  PROVE  LET u == cell[cursor] IN
         /\ UNCHANGED <<resubmits, list, enabled, accepted, halted, evts, deaf, cursor, next, caller, called>>
         /\ UNCHANGED <<reported, dropped, astray>> /\ pc = "update" /\ pc' = "advance"
         /\ \/ /\ UNCHANGED <<tds, cell, ring>>
               /\ u.used = TRUE => u.error = TRUE \/ u.ep \notin enabled
            \/ /\ tds < MaxTds /\ tds' = tds + 1 /\ u.ep \in enabled
               /\ u.used = TRUE => u.error = FALSE
               /\ ring' = [ring EXCEPT ![u.ep] = Append(@, tds + 1)]
               /\ cell' = [cell EXCEPT ![cursor] = Resubmitted(u, tds + 1)]
<1> USE DEF deviceVars, historyVars
<1>1. /\ UNCHANGED <<resubmits, list, enabled, accepted, halted, evts, deaf, cursor, next, caller, called>>
      /\ UNCHANGED <<reported, dropped, astray>> /\ pc = "update" /\ pc' = "advance"
  BY DEF Update
<1>2. PICK error \in IF cell[cursor].used THEN {cell[cursor].error} ELSE BOOLEAN :
        IF Resubmits(error)
        THEN /\ tds < MaxTds
             /\ tds' = tds + 1
             /\ cell' = [cell EXCEPT ![cursor].td = tds', ![cursor].finished = FALSE,
                                     ![cursor].error = FALSE]
             /\ ring' = RingWithTrb(tds')
        ELSE UNCHANGED <<tds, cell, ring>>
  BY DEF Update
<1>3. cell[cursor].used = TRUE => error = cell[cursor].error
  BY <1>2
<1>4. error \in BOOLEAN /\ cell[cursor] \in UrbCells
  BY <1>2 DEF UrbTypes, UrbCells
<1>5. CASE Resubmits(error)
  BY <1>1, <1>2, <1>3, <1>4, <1>5 DEF Resubmits, RingWithTrb, Resubmitted, UrbTypes, UrbCells
<1>6. CASE ~Resubmits(error)
  BY <1>1, <1>2, <1>3, <1>4, <1>6 DEF Resubmits
<1> QED
  BY <1>5, <1>6

-----------------------------------------------------------------------------
(* The variables keep their types, and the numbers their bounds.           *)
LEMMA TypesInit == Init => Types
<1> SUFFICES ASSUME Init PROVE Types
  OBVIOUS
<1> USE DEF Init
<1>1. UrbTypes
  BY AsyncAssumption DEF UrbTypes, UrbCells, Unused
<1>2. HcTypes
  <2>1. << >> \in Seq(Nat) /\ << >> \in Seq(Events)
    OBVIOUS
  <2>2. ring \in [Endpoints -> Seq(Nat)]
    BY <2>1
  <2> QED
    BY <2>1, <2>2 DEF HcTypes
<1>4. MonitorTypes
  BY DEF MonitorTypes, Places
<1>3. Numbers
  BY AsyncAssumption DEF Numbers, Unused
<1> QED
  BY <1>1, <1>2, <1>3, <1>4 DEF Types

(* Every step keeps the types of the list and its URBs,                    *)
LEMMA UrbTypesNext ==
  ASSUME UrbTypes, HcTypes, Walk, tds \in Nat, [Next]_vars
  PROVE  UrbTypes'
<1>1. CASE Quiet
  BY <1>1, QuietEffect DEF UrbTypes
<1>2. CASE OtherUrbIsPolled \/ Check
  <2>1. /\ UNCHANGED <<resubmits, list, enabled, accepted>>
        /\ \E n \in 0 .. Len(evts) : Polled(n)
    BY <1>2, PollStep
  <2>2. PICK n \in 0 .. Len(evts) : cell' = CheckedUpTo(n)
    BY <2>1 DEF Polled
  <2>3. cell' = [c \in Cells |-> CheckedUpTo(n)[c]]
    BY <2>2 DEF CheckedUpTo
  <2>4. \A c \in Cells : CheckedUpTo(n)[c] \in UrbCells
    BY CheckedEffect
  <2>5. cell' \in [Cells -> UrbCells]
    BY <2>3, <2>4
  <2> QED
    BY <2>1, <2>5 DEF UrbTypes
<1>3. ASSUME NEW e \in Endpoints, SubmitTransfer(e)
      PROVE  UrbTypes'
  <2>1. accepted' = accepted \cup {e} /\ UNCHANGED <<resubmits, enabled>>
    BY <1>3, SubmitEffect
  <2>2. CASE UNCHANGED <<list, cell>>
    BY <2>1, <2>2 DEF UrbTypes
  <2>3. ASSUME NEW c \in Cells, list' = InsertHeadList(c), cell' = [cell EXCEPT ![c] = Submitted(e, tds + 1)]
        PROVE  UrbTypes'
    <3>1. Submitted(e, tds + 1) \in UrbCells
      BY DEF Submitted, UrbCells
    <3>2. list' \in Seq(Cells)
      BY <2>3, InsertEffect
    <3> QED
      BY <2>1, <2>3, <3>1, <3>2 DEF UrbTypes
  <2> QED
    BY <1>3, <2>2, <2>3, SubmitEffect
<1>4. ASSUME NEW e \in Endpoints, DeleteTransfer(e)
      PROVE  UrbTypes'
  <2>1. accepted' = accepted \ {e} /\ UNCHANGED <<resubmits, enabled>>
    BY <1>4, DeleteEffect
  <2>2. CASE UNCHANGED <<list, cell>>
    BY <2>1, <2>2 DEF UrbTypes
  <2>3. ASSUME NEW i \in 1 .. Len(list), NEW n \in 0 .. Len(evts), Removal(e, i, n)
        PROVE  UrbTypes'
    BY <2>1, <2>3, RemoveEffect DEF UrbTypes, Removal
  <2> QED
    BY <1>4, <2>2, <2>3, DeleteEffect
<1>5. CASE \E e \in Endpoints : Detach(e)
  BY <1>5 DEF Detach, UrbTypes, listVars
<1>6. CASE Update
  <2>1. cursor \in Cells
    BY <1>6 DEF Walk, Update
  <2>2. UNCHANGED <<resubmits, list, enabled, accepted>>
    BY <1>6, <2>1, UpdateEffect
  <2>3. CASE UNCHANGED cell
    BY <2>2, <2>3 DEF UrbTypes
  <2>4. CASE cell' = [cell EXCEPT ![cursor] = Resubmitted(cell[cursor], tds + 1)]
    <3>2. cell[cursor] \in UrbCells /\ tds + 1 \in Nat
      BY <2>1 DEF UrbTypes
    <3>1. Resubmitted(cell[cursor], tds + 1) \in UrbCells
      BY <3>2, ResubmittedEffect
    <3> QED
      BY <2>2, <2>4, <3>1 DEF UrbTypes
  <2> QED
    BY <1>6, <2>1, <2>3, <2>4, UpdateEffect
<1>7. CASE \E e \in Endpoints, error \in BOOLEAN : HcFinishes(e, error)
  BY <1>7 DEF HcFinishes, UrbTypes, listVars, deviceVars
<1> QED
  BY <1>1, <1>2, <1>3, <1>4, <1>5, <1>6, <1>7 DEF Next, Monitor, Quiet

(* those of the rings and the events,                                      *)
LEMMA HcTypesNext ==
  ASSUME UrbTypes, HcTypes, Walk, tds \in Nat, [Next]_vars
  PROVE  HcTypes'
<1>1. CASE Quiet
  BY <1>1, QuietEffect DEF HcTypes
<1>2. CASE OtherUrbIsPolled \/ Check
  <2>1. UNCHANGED <<halted, ring>> /\ deaf' \in BOOLEAN /\ \E n \in 0 .. Len(evts) : Polled(n)
    BY <1>2, PollStep
  <2>2. evts' \in Seq(Events)
    BY <2>1, EventsLeft DEF Polled
  <2> QED
    BY <2>1, <2>2 DEF HcTypes
<1>3. ASSUME NEW e \in Endpoints, SubmitTransfer(e)
      PROVE  HcTypes'
  <2>1. UNCHANGED <<halted, evts, deaf>> /\ ring' \in {ring, [ring EXCEPT ![e] = Append(@, tds + 1)]}
    BY <1>3, SubmitEffect
  <2>2. Append(ring[e], tds + 1) \in Seq(Nat)
    BY DEF HcTypes
  <2> QED
    BY <2>1, <2>2 DEF HcTypes
<1>4. ASSUME NEW e \in Endpoints, DeleteTransfer(e)
      PROVE  HcTypes'
  <2>1. UNCHANGED halted /\ deaf' \in BOOLEAN
    BY <1>4, DeleteEffect
  <2>2. CASE UNCHANGED <<ring, evts>>
    BY <2>1, <2>2 DEF HcTypes
  <2>3. ASSUME NEW i \in 1 .. Len(list), NEW n \in 0 .. Len(evts), Removal(e, i, n)
        PROVE  HcTypes'
    <3>1. evts' \in Seq(Events)
      BY <2>3, EventsLeft DEF Removal
    <3>2. ring' \in {ring, [ring EXCEPT ![e] = << >>]}
      BY <2>3 DEF Removal
    <3>3. << >> \in Seq(Nat)
      OBVIOUS
    <3> QED
      BY <2>1, <3>1, <3>2, <3>3 DEF HcTypes
  <2> QED
    BY <1>4, <2>2, <2>3, DeleteEffect
<1>5. ASSUME NEW e \in Endpoints, Detach(e)
      PROVE  HcTypes'
  <2>1. UNCHANGED <<halted, evts, deaf>> /\ ring' = [ring EXCEPT ![e] = << >>] /\ << >> \in Seq(Nat)
    BY <1>5 DEF Detach
  <2> QED
    BY <2>1 DEF HcTypes
<1>6. CASE Update
  <2>1. cursor \in Cells
    BY <1>6 DEF Walk, Update
  <2>2. /\ UNCHANGED <<halted, evts, deaf>>
        /\ ring' = ring \/ (cell[cursor].ep \in enabled
                            /\ ring' = [ring EXCEPT ![cell[cursor].ep] = Append(@, tds + 1)])
    BY <1>6, <2>1, UpdateEffect
  <2>3. cell[cursor].ep \in enabled => Append(ring[cell[cursor].ep], tds + 1) \in Seq(Nat)
    BY DEF HcTypes, UrbTypes
  <2> QED
    BY <2>2, <2>3 DEF HcTypes
<1>7. ASSUME NEW e \in Endpoints, NEW error \in BOOLEAN, HcFinishes(e, error)
      PROVE  HcTypes'
  <2>1. /\ ring[e] \in Seq(Nat) /\ ring[e] # << >> /\ halted' \in {halted, halted \cup {e}}
        /\ evts' = Append(evts, [td |-> Head(ring[e]), error |-> error])
        /\ ring' \in {ring, [ring EXCEPT ![e] = Tail(@)]}
    BY <1>7 DEF HcFinishes, HcTypes
  <2>2. Head(ring[e]) \in Nat /\ Tail(ring[e]) \in Seq(Nat)
    BY <2>1
  <2>3. [td |-> Head(ring[e]), error |-> error] \in Events
    BY <2>2 DEF Events
  <2>4. evts' \in Seq(Events)
    BY <2>1, <2>3, AppendProperties DEF HcTypes
  <2>5. ring' \in [Endpoints -> Seq(Nat)]
    BY <2>1, <2>2 DEF HcTypes
  <2>6. halted' \in SUBSET Endpoints /\ deaf' \in BOOLEAN
    BY <1>7, <2>1 DEF HcTypes, HcFinishes
  <2> QED
    BY <2>4, <2>5, <2>6 DEF HcTypes
<1> QED
  BY <1>1, <1>2, <1>3, <1>4, <1>5, <1>6, <1>7 DEF Next, Monitor, Quiet

(* A cell after the cursor is on the list.                                 *)
LEMMA ForwardEffect ==
  ASSUME UrbTypes, OnePerEndpoint, IsListed(cursor)
  PROVE  /\ Forward(cursor) = None \/ IsListed(Forward(cursor))
         /\ \A i, j \in 1 .. Len(list) : list[i] = cursor /\ list[j] = Forward(cursor) => i < j
<1> DEFINE after == {i \in 1 .. Len(list) : i > 1 /\ list[i - 1] = cursor}
           k == CHOOSE i \in after : TRUE
<1>1. Len(list) \in Nat /\ \A i, j \in 1 .. Len(list) : list[i] = list[j] => i = j
  BY ListFacts DEF OnePerEndpoint
<1>2. CASE after = {}
  <2>1. Forward(cursor) = None
    BY <1>2 DEF Forward
  <2>2. \A j \in 1 .. Len(list) : list[j] # None
    BY ListFacts, AsyncAssumption
  <2> QED
    BY <2>1, <2>2
<1>3. CASE after # {}
  <2>1. k \in after /\ Forward(cursor) = list[k]
    BY <1>3 DEF Forward
  <2>2. k \in 1 .. Len(list) /\ k - 1 \in 1 .. Len(list) /\ list[k - 1] = cursor
    BY <1>1, <2>1
  <2> HIDE DEF k, after
  <2>3. \A i, j \in 1 .. Len(list) : list[i] = cursor /\ list[j] = list[k] => i = k - 1 /\ j = k
    BY <1>1, <2>2
  <2> QED
    BY <2>1, <2>2, <2>3 DEF IsListed
<1> QED
  BY <1>2, <1>3

(* and those of the variables of the monitor.                              *)
LEMMA MonitorTypesNext ==
  ASSUME UrbTypes, HcTypes, MonitorTypes, Walk, [Next]_vars
  PROVE  MonitorTypes'
<1> USE DEF MonitorTypes, Places
<1>1. CASE BeginRound
  <2>1. FirstEntry \in Cells \cup {None}
    BY DEF FirstEntry, UrbTypes
  <2> QED
    BY <1>1, <2>1 DEF BeginRound
<1>2. CASE EndRound \/ CallbackReturns \/ Advance \/ Update
  BY <1>2 DEF EndRound, CallbackReturns, Advance, Update, historyVars
<1>3. CASE Check
  <2>1. /\ next' \in {Forward(cursor)} \cup Cells \cup {None} /\ UNCHANGED <<cursor, caller, called, astray>>
        /\ pc' \in {"finished", "advance"}
    BY <1>3 DEF Check, historyVars
  <2>2. Forward(cursor) \in Cells \cup {None}
    BY ListFacts DEF Forward
  <2> QED
    BY <2>1, <2>2
<1>4. CASE DropData
  BY <1>4 DEF DropData
<1>5. CASE Callback
  <2>1. /\ caller' = cell[cursor].ep /\ called' = called \cup {caller'} /\ pc' = "callback"
        /\ UNCHANGED <<cursor, next, astray>>
    BY <1>5 DEF Callback
  <2>2. cell[cursor].ep \in Endpoints
    BY <1>5 DEF Callback, Walk, UrbTypes
  <2> QED
    BY <2>1, <2>2
<1>6. CASE OtherUrbIsPolled \/ (\E e \in Endpoints : Detach(e))
           \/ (\E e \in Endpoints, error \in BOOLEAN : HcFinishes(e, error))
  BY <1>6 DEF OtherUrbIsPolled, Detach, HcFinishes, monitorVars, historyVars
<1>7. ASSUME NEW e \in Endpoints, SubmitTransfer(e) \/ DeleteTransfer(e)
      PROVE  MonitorTypes'
  <2>1. CASE SubmitTransfer(e)
    BY <2>1 DEF SubmitTransfer, monitorVars, historyVars
  <2>2. CASE DeleteTransfer(e)
    <3>1. UNCHANGED <<pc, cursor, next, caller, called>>
      BY <2>2, DeleteEffect
    <3>2. astray' \in BOOLEAN
      BY <2>2, DeleteEffect DEF Removal
    <3> QED
      BY <3>1, <3>2
  <2> QED
    BY <1>7, <2>1, <2>2
<1>8. CASE UNCHANGED vars
  BY <1>8 DEF vars, monitorVars, historyVars
<1> QED
  BY <1>1, <1>2, <1>3, <1>4, <1>5, <1>6, <1>7, <1>8 DEF Next, Monitor

(* Every number in use was given to a TRB.                                 *)
LEMMA NumbersNext ==
  ASSUME UrbTypes, HcTypes, Numbers, OnePerEndpoint, Walk, [Next]_vars
  PROVE  Numbers'
<1>a. /\ tds \in Nat /\ tds \in 0 .. MaxTds /\ Len(evts) \in Nat /\ evts \in Seq(Events)
      /\ \A c \in Cells : cell[c].td \in Nat /\ cell[c].td <= tds /\ (cell[c].td = 0 => cell[c].ep = None)
      /\ \A e \in Endpoints : ring[e] \in Seq(Nat) /\ \A i \in 1 .. Len(ring[e]) : ring[e][i] \in 1 .. tds
      /\ \A i \in 1 .. Len(evts) : evts[i].td \in 1 .. tds
      /\ reported \in SUBSET (1 .. tds) /\ dropped \in SUBSET (0 .. tds)
  BY DEF Numbers, HcTypes, UrbTypes, UrbCells
<1>b. \A i \in 1 .. Len(list) : cell[list[i]].td \in 1 .. tds
  BY <1>a, ListFacts DEF OnePerEndpoint
<1>c. pc = "finished" => cell[cursor].td \in 1 .. tds
  BY <1>a, AsyncAssumption DEF Walk, UrbTypes
<1>d. /\ \A i \in 1 .. Len(list) : cell[list[i]].td \in 0 .. tds
      /\ pc = "finished" => cell[cursor].td \in 0 .. tds
  BY <1>b, <1>c, <1>a
<1>1. CASE Quiet
  <2>1. UNCHANGED <<cell, ring, evts, tds>>
    BY <1>1, QuietEffect
  <2>3. reported' \in SUBSET (1 .. tds)
    BY <1>1, <1>a, <1>c
       DEF Quiet, BeginRound, EndRound, DropData, Callback, CallbackReturns, Advance, vars, historyVars
  <2>4. dropped' \in SUBSET (0 .. tds)
    <3>1. dropped' = dropped \/ (pc = "finished" /\ dropped' = dropped \cup {cell[cursor].td})
      BY <1>1 DEF Quiet, BeginRound, EndRound, DropData, Callback, CallbackReturns, Advance, vars, historyVars
    <3>2. \A n \in 0 .. tds : dropped \cup {n} \in SUBSET (0 .. tds)
      BY <1>a
    <3> QED
      BY <1>a, <1>d, <3>1, <3>2
  <2> QED
    BY <2>1, <2>3, <2>4 DEF Numbers
<1>2. CASE OtherUrbIsPolled \/ Check
  <2>1. UNCHANGED <<ring, tds, reported, dropped>>
    BY <1>2, PollStep
  <2>2. PICK n \in 0 .. Len(evts) : cell' = CheckedUpTo(n) /\ evts' = SubSeq(evts, n + 1, Len(evts))
    BY <1>2, PollStep DEF Polled
  <2>3. \A c \in Cells : cell'[c].td = cell[c].td /\ cell'[c].ep = cell[c].ep
    BY <2>2, CheckedEffect
  <2>4. \A i \in 1 .. Len(evts') : evts'[i].td \in 1 .. tds
    BY <1>a, <2>2, EventsLeft
  <2> QED
    BY <2>1, <2>3, <2>4 DEF Numbers
<1>3. ASSUME NEW e \in Endpoints, SubmitTransfer(e)
      PROVE  Numbers'
  <2>1. UNCHANGED <<evts, reported, dropped>>
    BY <1>3, SubmitEffect
  <2>2. CASE UNCHANGED <<tds, list, cell, ring>>
    BY <2>1, <2>2 DEF Numbers
  <2>3. ASSUME NEW c \in Cells, BoundLeft, tds' = tds + 1, ring' = [ring EXCEPT ![e] = Append(@, tds + 1)],
               cell' = [cell EXCEPT ![c] = Submitted(e, tds + 1)]
        PROVE  Numbers'
    <3>1. tds' \in 0 .. MaxTds
      BY <1>a, <2>3, RoomForTrb
    <3>2. \A d \in Cells : cell'[d].td <= tds' /\ (cell'[d].td = 0 => cell'[d].ep = None)
      BY <1>a, <2>3 DEF UrbTypes, Submitted
    <3>3. ASSUME NEW f \in Endpoints, NEW i \in 1 .. Len(ring'[f])
          PROVE  ring'[f][i] \in 1 .. tds'
      <4>1. CASE f = e
        <5>1. ring'[f] = Append(ring[e], tds + 1)
          BY <2>3, <4>1 DEF HcTypes
        <5> QED
          BY <1>a, <2>3, <5>1
      <4>2. CASE f # e
        <5>1. ring'[f] = ring[f]
          BY <2>3, <4>2 DEF HcTypes
        <5> QED
          BY <1>a, <2>3, <5>1
      <4> QED
        BY <4>1, <4>2
    <3>4. \A i \in 1 .. Len(evts') : evts'[i].td \in 1 .. tds'
      BY <1>a, <2>1, <2>3
    <3>5. reported' \in SUBSET (1 .. tds') /\ dropped' \in SUBSET (0 .. tds')
      BY <1>a, <2>1, <2>3
    <3> QED
      BY <3>1, <3>2, <3>3, <3>4, <3>5 DEF Numbers
  <2> QED
    BY <1>3, <2>2, <2>3, SubmitEffect
<1>4. ASSUME NEW e \in Endpoints, DeleteTransfer(e)
      PROVE  Numbers'
  <2>1. UNCHANGED <<tds, reported>>
    BY <1>4, DeleteEffect
  <2>2. CASE UNCHANGED <<list, cell, ring, evts, dropped>>
    BY <2>1, <2>2 DEF Numbers
  <2>3. ASSUME NEW i \in 1 .. Len(list), NEW n \in 0 .. Len(evts), Removal(e, i, n)
        PROVE  Numbers'
    <3>1. ASSUME NEW c \in Cells
          PROVE  cell'[c].td = cell[c].td /\ cell'[c].ep = cell[c].ep
      <4>1. CheckedUpTo(n)[c].td = cell[c].td /\ CheckedUpTo(n)[c].ep = cell[c].ep
        BY CheckedEffect
      <4>2. (cell'[c].td = cell[c].td /\ cell'[c].ep = cell[c].ep) \/ cell'[c] = CheckedUpTo(n)[c]
        BY <2>3 DEF Removal
      <4> QED
        BY <4>1, <4>2
    <3>2. \A j \in 1 .. Len(evts') : evts'[j].td \in 1 .. tds
      BY <1>a, <2>3, EventsLeft DEF Removal
    <3>3. \A f \in Endpoints : ring'[f] = ring[f] \/ ring'[f] = << >>
      BY <2>3 DEF Removal, HcTypes
    <3>4. dropped' \in SUBSET (0 .. tds)
      <4>1. dropped' = dropped \cup {cell[list[i]].td}
        BY <2>3 DEF Removal
      <4> QED
        BY <1>a, <1>d, <4>1
    <3>5. \A f \in Endpoints : \A j \in 1 .. Len(ring'[f]) : ring'[f][j] \in 1 .. tds
      BY <1>a, <3>3
    <3> QED
      BY <2>1, <3>1, <3>2, <3>4, <3>5 DEF Numbers
  <2> QED
    BY <1>4, <2>2, <2>3, DeleteEffect
<1>5. ASSUME NEW e \in Endpoints, Detach(e)
      PROVE  Numbers'
  <2>1. /\ UNCHANGED <<cell, evts, tds, reported>> /\ ring' = [ring EXCEPT ![e] = << >>]
        /\ dropped' = dropped \cup {cell[list[i]].td : i \in Of(e)}
    BY <1>5 DEF Detach, listVars
  <2>2. dropped' \in SUBSET (0 .. tds)
    <3>1. \A i \in Of(e) : cell[list[i]].td \in 0 .. tds
      BY <1>d DEF Of
    <3> QED
      BY <1>a, <2>1, <3>1
  <2>3. \A f \in Endpoints : \A j \in 1 .. Len(ring'[f]) : ring'[f][j] \in 1 .. tds
    BY <1>a, <2>1 DEF HcTypes
  <2> QED
    BY <2>1, <2>2, <2>3 DEF Numbers
<1>6. CASE Update
  <2>1. cursor \in Cells
    BY <1>6 DEF Walk, Update
  <2>2. UNCHANGED <<evts, reported, dropped>>
    BY <1>6, <2>1, UpdateEffect
  <2>3. CASE UNCHANGED <<tds, cell, ring>>
    BY <2>2, <2>3 DEF Numbers
  <2>4. ASSUME tds < MaxTds, tds' = tds + 1,
               ring' = [ring EXCEPT ![cell[cursor].ep] = Append(@, tds + 1)], cell[cursor].ep \in enabled,
               cell' = [cell EXCEPT ![cursor] = Resubmitted(cell[cursor], tds + 1)]
        PROVE  Numbers'
    <3>1. tds' \in 0 .. MaxTds
      BY <1>a, <2>4, AsyncAssumption
    <3>2. \A d \in Cells : cell'[d].td <= tds' /\ (cell'[d].td = 0 => cell'[d].ep = None)
      <4>1. cell[cursor] \in UrbCells /\ tds + 1 \in Nat
        BY <1>a, <2>1 DEF UrbTypes
      <4>2. Resubmitted(cell[cursor], tds + 1).td = tds + 1
        BY <4>1, ResubmittedEffect
      <4> QED
        BY <1>a, <2>4, <4>2 DEF UrbTypes
    <3>3. ASSUME NEW f \in Endpoints, NEW i \in 1 .. Len(ring'[f])
          PROVE  ring'[f][i] \in 1 .. tds'
      <4>1. CASE f = cell[cursor].ep
        <5>1. ring'[f] = Append(ring[f], tds + 1)
          BY <2>4, <4>1 DEF HcTypes
        <5> QED
          BY <1>a, <2>4, <5>1
      <4>2. CASE f # cell[cursor].ep
        <5>1. ring'[f] = ring[f]
          BY <2>4, <4>2 DEF HcTypes
        <5>2. ring[f][i] \in 1 .. tds /\ \A n \in 1 .. tds : n \in 1 .. tds + 1
          BY <1>a, <5>1
        <5> QED
          BY <2>4, <5>1, <5>2
      <4> QED
        BY <4>1, <4>2
    <3>4. \A i \in 1 .. Len(evts') : evts'[i].td \in 1 .. tds'
      BY <1>a, <2>2, <2>4
    <3>5. reported' \in SUBSET (1 .. tds') /\ dropped' \in SUBSET (0 .. tds')
      BY <1>a, <2>2, <2>4
    <3> QED
      BY <3>1, <3>2, <3>3, <3>4, <3>5 DEF Numbers
  <2> QED
    BY <1>6, <2>1, <2>3, <2>4, UpdateEffect
<1>7. ASSUME NEW e \in Endpoints, NEW error \in BOOLEAN, HcFinishes(e, error)
      PROVE  Numbers'
  <2>1. /\ ring[e] # << >> /\ UNCHANGED <<cell, tds, reported, dropped>>
        /\ evts' = Append(evts, [td |-> Head(ring[e]), error |-> error])
        /\ ring' \in {ring, [ring EXCEPT ![e] = Tail(@)]}
    BY <1>7 DEF HcFinishes, listVars, historyVars
  <2>2. Head(ring[e]) = ring[e][1] /\ 1 \in 1 .. Len(ring[e])
    BY <1>a, <2>1
  <2>3. [td |-> Head(ring[e]), error |-> error].td \in 1 .. tds
    BY <1>a, <2>2
  <2>4. \A i \in 1 .. Len(evts') : evts'[i].td \in 1 .. tds
    BY <1>a, <2>1, <2>3
  <2>5. ASSUME NEW f \in Endpoints, NEW j \in 1 .. Len(ring'[f])
        PROVE  ring'[f][j] \in 1 .. tds
    <3>1. CASE ring'[f] = ring[f]
      BY <1>a, <3>1
    <3>2. CASE ring'[f] = Tail(ring[e]) /\ f = e
      <4>1. Len(ring'[f]) = Len(ring[e]) - 1 /\ Len(ring[e]) \in Nat
        BY <1>a, <2>1, <3>2
      <4>2. j + 1 \in 1 .. Len(ring[e]) /\ ring'[f][j] = ring[e][j + 1]
        BY <1>a, <2>1, <3>2, <4>1
      <4> QED
        BY <1>a, <4>2
    <3> QED
      BY <2>1, <3>1, <3>2 DEF HcTypes
  <2> QED
    BY <2>1, <2>4, <2>5 DEF Numbers
<1> QED
  BY <1>1, <1>2, <1>3, <1>4, <1>5, <1>6, <1>7 DEF Next, Monitor, Quiet

(* URBs that stay on the list with their endpoints keep the list in order. *)
LEMMA OnePerEndpointFrame ==
  ASSUME UrbTypes, OnePerEndpoint, UNCHANGED <<list, accepted>>,
         \A c \in Cells : cell'[c].ep = cell[c].ep /\ cell'[c].used = cell[c].used,
         \A c \in Cells : cell[c].td # 0 => cell'[c].td # 0
  PROVE  OnePerEndpoint'
<1>1. \A i \in 1 .. Len(list) : list[i] \in Cells
  BY ListFacts
<1>2. \A i \in 1 .. Len(list') : /\ list'[i] = list[i] /\ i \in 1 .. Len(list)
                                 /\ cell'[list'[i]].ep = cell[list[i]].ep
                                 /\ cell'[list'[i]].used = cell[list[i]].used
                                 /\ cell[list[i]].td # 0 => cell'[list'[i]].td # 0
  BY <1>1
<1> QED
  BY <1>2 DEF OnePerEndpoint

(* The list keeps one URB of an endpoint: a transfer is accepted once.     *)
LEMMA OnePerEndpointNext ==
  ASSUME UrbTypes, HcTypes, tds \in Nat, OnePerEndpoint, Walk, [Next]_vars
  PROVE  OnePerEndpoint'
<1>1. CASE Quiet \/ (\E e \in Endpoints : Detach(e)) \/ (\E e \in Endpoints, error \in BOOLEAN : HcFinishes(e, error))
  <2>1. UNCHANGED <<list, cell, accepted>>
    BY <1>1, QuietEffect DEF Detach, HcFinishes, listVars, deviceVars
  <2> QED
    BY <2>1 DEF OnePerEndpoint
<1>2. CASE OtherUrbIsPolled \/ Check
  <2>1. UNCHANGED <<list, accepted>>
    BY <1>2, PollStep
  <2>2. PICK n \in 0 .. Len(evts) : cell' = CheckedUpTo(n)
    BY <1>2, PollStep DEF Polled
  <2>3. \A c \in Cells : cell'[c].ep = cell[c].ep /\ cell'[c].used = cell[c].used /\ cell'[c].td = cell[c].td
    BY <2>2, CheckedEffect
  <2> QED
    BY <2>1, <2>3, OnePerEndpointFrame
<1>3. ASSUME NEW e \in Endpoints, SubmitTransfer(e)
      PROVE  OnePerEndpoint'
  <2>1. e \notin accepted /\ accepted' = accepted \cup {e}
    BY <1>3, SubmitEffect
  <2>2. CASE UNCHANGED <<list, cell>>
    BY <2>1, <2>2 DEF OnePerEndpoint
  <2>3. ASSUME NEW c \in Cells, ~cell[c].used, list' = InsertHeadList(c),
               cell' = [cell EXCEPT ![c] = Submitted(e, tds + 1)]
        PROVE  OnePerEndpoint'
    <3>1. /\ Len(list') = Len(list) + 1 /\ list'[1] = c /\ Len(list) \in Nat
          /\ \A i \in 2 .. Len(list') : i - 1 \in 1 .. Len(list) /\ list'[i] = list[i - 1]
      BY <2>3, InsertEffect, ListFacts
    <3>2. \A i \in 1 .. Len(list) : list[i] \in Cells /\ list[i] # c
      BY <2>3, ListFacts DEF OnePerEndpoint
    <3>3. \A i \in 2 .. Len(list') : cell'[list'[i]] = cell[list[i - 1]]
      BY <2>3, <3>1, <3>2 DEF UrbTypes
    <3>4. cell'[list'[1]].ep = e /\ cell'[list'[1]].used = TRUE /\ cell'[list'[1]].td = tds + 1 /\ tds + 1 # 0
      BY <2>3, <3>1 DEF Submitted, UrbTypes
    <3>5. \A i \in 2 .. Len(list') : /\ cell'[list'[i]].used = TRUE /\ cell'[list'[i]].ep \in accepted
                                     /\ cell'[list'[i]].td # 0
      BY <3>1, <3>3 DEF OnePerEndpoint
    <3>6. \A i \in 1 .. Len(list') : i = 1 \/ i \in 2 .. Len(list')
      BY <3>1
    <3>7. \A i \in 1 .. Len(list') : /\ cell'[list'[i]].used = TRUE /\ cell'[list'[i]].ep \in accepted'
                                     /\ cell'[list'[i]].td # 0
      BY <2>1, <3>4, <3>5, <3>6
    <3>8. ASSUME NEW i \in 1 .. Len(list'), NEW j \in 1 .. Len(list'),
                 cell'[list'[i]].ep = cell'[list'[j]].ep
          PROVE  i = j
      <4>1. CASE i = 1 \/ j = 1
        BY <2>1, <3>4, <3>5, <3>6, <3>8, <4>1
      <4>2. CASE i \in 2 .. Len(list') /\ j \in 2 .. Len(list')
        <5>1. /\ cell[list[i - 1]].ep = cell[list[j - 1]].ep
              /\ i - 1 \in 1 .. Len(list) /\ j - 1 \in 1 .. Len(list)
          BY <3>1, <3>3, <3>8, <4>2
        <5>2. i - 1 = j - 1
          BY <5>1 DEF OnePerEndpoint
        <5> QED
          BY <5>2
      <4> QED
        BY <3>6, <4>1, <4>2
    <3> QED
      BY <3>7, <3>8 DEF OnePerEndpoint
  <2> QED
    BY <1>3, <2>2, <2>3, SubmitEffect
<1>4. ASSUME NEW e \in Endpoints, DeleteTransfer(e)
      PROVE  OnePerEndpoint'
  <2>1. accepted' = accepted \ {e}
    BY <1>4, DeleteEffect
  <2>2. CASE UNCHANGED <<list, cell>> /\ \A i \in 1 .. Len(list) : cell[list[i]].ep # e
    BY <2>1, <2>2 DEF OnePerEndpoint
  <2>3. ASSUME NEW i \in 1 .. Len(list), NEW n \in 0 .. Len(evts), Removal(e, i, n)
        PROVE  OnePerEndpoint'
    <3> DEFINE f(j) == IF j < i THEN j ELSE j + 1
    <3>1. \A j \in 1 .. Len(list') : f(j) \in (1 .. Len(list)) \ {i} /\ list'[j] = list[f(j)]
      BY <2>3, RemoveEffect DEF Removal
    <3>2. \A j, k \in 1 .. Len(list') : f(j) = f(k) => j = k
      OBVIOUS
    <3> HIDE DEF f
    <3>3. \A j \in 1 .. Len(list) : j # i => list[j] # list[i] /\ cell[list[j]].ep # e
      BY <2>3 DEF OnePerEndpoint, Removal
    <3>4. ASSUME NEW j \in 1 .. Len(list')
          PROVE  /\ cell'[list'[j]].ep = cell[list[f(j)]].ep /\ cell'[list'[j]].used = cell[list[f(j)]].used
                 /\ cell'[list'[j]].td = cell[list[f(j)]].td
      <4>1. list'[j] \in Cells /\ list'[j] # list[i] /\ list'[j] = list[f(j)]
        BY <3>1, <3>3, ListFacts
      <4>2. cell'[list'[j]] = CheckedUpTo(n)[list'[j]]
        BY <2>3, <4>1 DEF Removal
      <4>3. LET v == CheckedUpTo(n)[list'[j]] IN
            v.ep = cell[list'[j]].ep /\ v.used = cell[list'[j]].used /\ v.td = cell[list'[j]].td
        BY <4>1, CheckedEffect
      <4> QED
        BY <4>1, <4>2, <4>3
    <3>5. \A j \in 1 .. Len(list') : /\ cell'[list'[j]].used = TRUE /\ cell'[list'[j]].ep \in accepted \ {e}
                                     /\ cell'[list'[j]].td # 0
      BY <3>1, <3>3, <3>4 DEF OnePerEndpoint
    <3>6. ASSUME NEW j \in 1 .. Len(list'), NEW k \in 1 .. Len(list'),
                 cell'[list'[j]].ep = cell'[list'[k]].ep
          PROVE  j = k
      <4>1. f(j) = f(k)
        BY <3>1, <3>4, <3>6 DEF OnePerEndpoint
      <4> QED
        BY <3>2, <4>1
    <3> QED
      BY <2>1, <3>5, <3>6 DEF OnePerEndpoint
  <2> QED
    BY <1>4, <2>2, <2>3, DeleteEffect
<1>5. CASE Update
  <2>1. cursor \in Cells
    BY <1>5 DEF Walk, Update
  <2>2. UNCHANGED <<list, accepted>>
    BY <1>5, <2>1, UpdateEffect
  <2>3. CASE UNCHANGED cell
    BY <2>2, <2>3 DEF OnePerEndpoint
  <2>4. CASE cell' = [cell EXCEPT ![cursor] = Resubmitted(cell[cursor], tds + 1)]
    <3>1. cell[cursor] \in UrbCells /\ tds + 1 \in Nat /\ tds + 1 # 0
      BY <2>1 DEF UrbTypes
    <3>2. \A c \in Cells : cell'[c] = IF c = cursor THEN Resubmitted(cell[cursor], tds + 1) ELSE cell[c]
      BY <2>4 DEF UrbTypes
    <3>3. LET v == Resubmitted(cell[cursor], tds + 1) IN
          v.ep = cell[cursor].ep /\ v.used = cell[cursor].used /\ v.td = tds + 1
      BY <3>1, ResubmittedEffect
    <3>4. /\ \A c \in Cells : cell'[c].ep = cell[c].ep /\ cell'[c].used = cell[c].used
          /\ \A c \in Cells : cell[c].td # 0 => cell'[c].td # 0
      BY <3>1, <3>2, <3>3
    <3> QED
      BY <2>2, <3>4, OnePerEndpointFrame
  <2> QED
    BY <1>5, <2>1, <2>3, <2>4, UpdateEffect
<1> QED
  BY <1>1, <1>2, <1>3, <1>4, <1>5 DEF Next, Monitor, Quiet

(* What the walk needs of the list when nothing is put on it or removed.   *)
LEMMA WalkFrame ==
  ASSUME UrbTypes, UNCHANGED list, \A c \in Cells : cell'[c].ep = cell[c].ep
  PROVE  /\ \A c : IsListed(c)' <=> IsListed(c)
         /\ called' = called => \A c : Uncalled(c)' <=> Uncalled(c)
<1>1. \A i \in 1 .. Len(list) : cell'[list[i]].ep = cell[list[i]].ep
  BY ListFacts
<1>2. ASSUME NEW c PROVE IsListed(c)' <=> IsListed(c)
  BY DEF IsListed
<1>3. ASSUME NEW c, called' = called PROVE Uncalled(c)' <=> Uncalled(c)
  BY <1>1, <1>3 DEF Uncalled
<1> QED
  BY <1>2, <1>3

(* A URB the callback submits is before the one that is looked at next.    *)
LEMMA WalkSubmit ==
  ASSUME UrbTypes, OnePerEndpoint, NEW c \in Cells, ~cell[c].used, list' = InsertHeadList(c),
         \A d \in Cells : d # c => cell'[d] = cell[d], called' = called,
         NEW m, m = None \/ IsListed(m), Uncalled(m)
  PROVE  (m = None \/ IsListed(m)') /\ Uncalled(m)'
<1>1. /\ Len(list') = Len(list) + 1 /\ list'[1] = c /\ Len(list) \in Nat
      /\ \A i \in 1 .. Len(list) : list'[i + 1] = list[i]
      /\ \A i \in 2 .. Len(list') : i - 1 \in 1 .. Len(list) /\ list'[i] = list[i - 1]
  BY InsertEffect, ListFacts
<1>2. \A i \in 1 .. Len(list) : list[i] \in Cells /\ list[i] # c
  BY ListFacts DEF OnePerEndpoint
<1>3. m # c
  BY <1>2, AsyncAssumption DEF IsListed
<1>4. m = None \/ IsListed(m)'
  <2>1. ASSUME NEW i \in 1 .. Len(list), list[i] = m PROVE IsListed(m)'
    <3>1. i + 1 \in 1 .. Len(list') /\ list'[i + 1] = m
      BY <1>1, <2>1
    <3> QED
      BY <3>1 DEF IsListed
  <2> QED
    BY <2>1 DEF IsListed
<1>5. ASSUME NEW i \in 1 .. Len(list'), NEW j \in 1 .. Len(list'), list'[j] = m, j <= i
      PROVE  cell'[list'[i]].ep \notin called'
  <2>1. j \in 2 .. Len(list') /\ i \in 2 .. Len(list')
    BY <1>1, <1>3, <1>5
  <2>2. /\ i - 1 \in 1 .. Len(list) /\ j - 1 \in 1 .. Len(list) /\ list[j - 1] = m /\ j - 1 <= i - 1
        /\ list'[i] = list[i - 1]
    BY <1>1, <1>5, <2>1
  <2>3. cell[list[i - 1]].ep \notin called
    BY <2>2 DEF Uncalled
  <2> QED
    BY <1>2, <2>2, <2>3
<1> QED
  BY <1>4, <1>5 DEF Uncalled

(* The callback removes a URB that is not looked at next.                  *)
LEMMA WalkDelete ==
  ASSUME UrbTypes, HcTypes, NEW e \in Endpoints, called' = called,
         NEW i \in 1 .. Len(list), NEW n \in 0 .. Len(evts), Removal(e, i, n),
         OnePerEndpoint, NEW m, m = None \/ IsListed(m), Uncalled(m), list[i] # m
  PROVE  (m = None \/ IsListed(m)') /\ Uncalled(m)'
<1> DEFINE f(j) == IF j < i THEN j ELSE j + 1
<1>1. /\ Len(list') = Len(list) - 1 /\ Len(list) \in Nat
      /\ \A j \in 1 .. Len(list') : f(j) \in (1 .. Len(list)) \ {i} /\ list'[j] = list[f(j)]
  BY RemoveEffect DEF Removal
<1>2. \A j \in 1 .. Len(list) : j # i => \E k \in 1 .. Len(list') : f(k) = j
  <2>1. ASSUME NEW j \in 1 .. Len(list), j < i PROVE j \in 1 .. Len(list') /\ f(j) = j
    BY <1>1, <2>1
  <2>2. ASSUME NEW j \in 1 .. Len(list), j > i PROVE j - 1 \in 1 .. Len(list') /\ f(j - 1) = j
    BY <1>1, <2>2
  <2>3. \A j \in 1 .. Len(list) : j # i => j < i \/ j > i
    BY <1>1
  <2> HIDE DEF f
  <2> QED
    BY <2>1, <2>2, <2>3
<1>3. \A j, k \in 1 .. Len(list') : j <= k => f(j) <= f(k)
  BY <1>1
<1> HIDE DEF f
<1>4. m = None \/ IsListed(m)'
  <2>1. ASSUME NEW j \in 1 .. Len(list), list[j] = m PROVE IsListed(m)'
    <3>1. j # i
      BY <2>1
    <3>2. PICK k \in 1 .. Len(list') : f(k) = j
      BY <1>2, <3>1
    <3>3. list'[k] = m
      BY <1>1, <2>1, <3>2
    <3> QED
      BY <3>3 DEF IsListed
  <2> QED
    BY <2>1 DEF IsListed
<1>5. \A j \in 1 .. Len(list) : j # i => list[j] # list[i]
  BY DEF OnePerEndpoint
<1>6. ASSUME NEW j \in 1 .. Len(list'), NEW k \in 1 .. Len(list'), list'[j] = m, j <= k
      PROVE  cell'[list'[k]].ep \notin called'
  <2>1. /\ f(j) \in 1 .. Len(list) /\ list[f(j)] = m /\ f(j) <= f(k)
        /\ f(k) \in 1 .. Len(list) /\ f(k) # i /\ list'[k] = list[f(k)]
    BY <1>1, <1>3, <1>6
  <2>2. cell[list[f(k)]].ep \notin called
    BY <2>1 DEF Uncalled
  <2>3. list'[k] \in Cells /\ list'[k] # list[i]
    BY <1>5, <2>1, ListFacts
  <2>4. cell'[list'[k]] = CheckedUpTo(n)[list'[k]]
    BY <2>3 DEF Removal
  <2>5. cell'[list'[k]].ep = cell[list'[k]].ep
    BY <2>3, <2>4, CheckedEffect
  <2> QED
    BY <2>1, <2>2, <2>5
<1> QED
  BY <1>4, <1>6 DEF Uncalled

(* The monitor knows where it is on the list after every step, also of the *)
(* callback.                                                               *)
LEMMA WalkNext ==
  ASSUME UrbTypes, HcTypes, MonitorTypes, tds \in Nat, OnePerEndpoint, Walk, [Next]_vars
  PROVE  Walk'
<1>a. \A c : IsListed(c) => c \in Cells
  BY ListFacts
<1>1. CASE Quiet
  <2>1. UNCHANGED <<resubmits, list, cell, enabled>>
    BY <1>1, QuietEffect
  <2>2. /\ \A c : IsListed(c)' <=> IsListed(c)
        /\ called' = called => \A c : Uncalled(c)' <=> Uncalled(c)
    BY <2>1, WalkFrame
  <2>3. CASE BeginRound
    <3>1. pc' = "visit" /\ cursor' = FirstEntry /\ called' = {} /\ astray' = FALSE
      BY <2>3 DEF BeginRound
    <3>2. FirstEntry = None \/ IsListed(FirstEntry)
      <4>1. ASSUME list # << >> PROVE 1 \in 1 .. Len(list)
        BY <4>1 DEF UrbTypes
      <4> QED
        BY <4>1 DEF FirstEntry, IsListed
    <3> QED
      BY <2>2, <3>1, <3>2 DEF Walk, Uncalled
  <2>4. CASE EndRound
    BY <2>4 DEF EndRound, Walk, historyVars
  <2>5. CASE DropData
    <3>1. pc = "finished" /\ pc' = "update" /\ UNCHANGED <<cursor, next, called, astray>>
      BY <2>5 DEF DropData
    <3> QED
      BY <1>a, <2>1, <2>2, <3>1 DEF Walk
  <2>6. CASE Callback
    <3>1. /\ pc = "finished" /\ pc' = "callback" /\ UNCHANGED <<cursor, next, astray>>
          /\ caller' = cell[cursor].ep /\ called' = called \cup {caller'}
      BY <2>6 DEF Callback
    <3>3. ASSUME astray = FALSE,
                 NEW i \in 1 .. Len(list), NEW j \in 1 .. Len(list), list[j] = next, j <= i
          PROVE  cell[list[i]].ep \notin called'
      <4>k. PICK k \in 1 .. Len(list) : list[k] = cursor
        BY <3>1, <3>3 DEF Walk, IsListed
      <4>1. cell[list[i]].ep \notin called
        BY <3>1, <3>3 DEF Walk, Uncalled
      <4>2. k < j
        BY <3>1, <3>3, <4>k DEF Walk
      <4>3. cell[list[i]].ep # cell[list[k]].ep
        BY <3>3, <4>2 DEF OnePerEndpoint
      <4> QED
        BY <3>1, <4>k, <4>1, <4>3
    <3>4. astray = FALSE => Uncalled(next)'
      BY <2>1, <3>1, <3>3 DEF Uncalled
    <3> QED
      BY <1>a, <2>1, <2>2, <3>1, <3>4 DEF Walk
  <2>7. CASE CallbackReturns
    <3>1. pc = "callback" /\ pc' = "update" /\ UNCHANGED <<cursor, next, called, astray>>
      BY <2>7 DEF CallbackReturns, historyVars
    <3> QED
      BY <2>1, <2>2, <3>1 DEF Walk
  <2>8. CASE Advance
    <3>1. pc = "advance" /\ pc' = "visit" /\ cursor' = next /\ UNCHANGED <<called, astray>>
      BY <2>8 DEF Advance, historyVars
    <3> QED
      BY <2>1, <2>2, <3>1 DEF Walk
  <2>9. CASE UNCHANGED vars
    BY <2>9 DEF vars, listVars, deviceVars, monitorVars, historyVars, Walk, IsListed, Uncalled
  <2> QED
    BY <1>1, <2>3, <2>4, <2>5, <2>6, <2>7, <2>8, <2>9 DEF Quiet
<1>2. CASE OtherUrbIsPolled \/ Check
  <2>1. UNCHANGED <<resubmits, list, enabled, cursor, caller, called, astray>>
    BY <1>2, PollStep
  <2>2. PICK n \in 0 .. Len(evts) : cell' = CheckedUpTo(n)
    BY <1>2, PollStep DEF Polled
  <2>3. \A c \in Cells : cell'[c].ep = cell[c].ep /\ (cell[c].finished = TRUE => cell'[c].finished = TRUE)
    BY <2>2, CheckedEffect
  <2>4. (\A c : IsListed(c)' <=> IsListed(c)) /\ (\A c : Uncalled(c)' <=> Uncalled(c))
    BY <2>1, <2>3, WalkFrame
  <2>5. CASE OtherUrbIsPolled
    <3>1. pc \in {"rest", "callback"} /\ UNCHANGED <<pc, next>>
      BY <2>5 DEF OtherUrbIsPolled, monitorVars
    <3> QED
      BY <1>a, <2>1, <2>3, <2>4, <3>1 DEF Walk
  <2>6. CASE Check
    <3>1. /\ pc = "visit" /\ cursor # None
          /\ next' \in IF cell[cursor].used THEN {Forward(cursor)} ELSE Cells \cup {None}
          /\ \/ pc' = "finished" /\ cell[cursor].ep \in enabled /\ (cell'[cursor].finished \/ ~cell[cursor].used)
             \/ pc' = "advance"
      BY <2>6 DEF Check
    <3>2. cursor \in Cells /\ cell'[cursor].ep = cell[cursor].ep
      BY <2>3, <3>1 DEF MonitorTypes
    <3>3. pc' = "finished" => cursor' \in Cells /\ (cell[cursor].ep \in enabled)'
      BY <2>1, <3>1, <3>2
    <3>4. ASSUME astray = FALSE
          PROVE  /\ (next' = None \/ IsListed(next')) /\ Uncalled(next')
                 /\ IsListed(cursor) /\ Uncalled(cursor)
                 /\ pc' = "finished" => cell'[cursor].finished = TRUE
                 /\ \A i, j \in 1 .. Len(list) : list[i] = cursor /\ list[j] = next' => i < j
      <4>1. IsListed(cursor) /\ Uncalled(cursor)
        BY <3>1, <3>4 DEF Walk
      <4>2. PICK k \in 1 .. Len(list) : list[k] = cursor
        BY <4>1 DEF IsListed
      <4>3. cell[cursor].used = TRUE /\ next' = Forward(cursor)
        BY <3>1, <4>2 DEF OnePerEndpoint
      <4>4. /\ next' = None \/ IsListed(next')
            /\ \A i, j \in 1 .. Len(list) : list[i] = cursor /\ list[j] = next' => i < j
        BY <4>1, <4>3, ForwardEffect
      <4>5. ASSUME NEW i \in 1 .. Len(list), NEW j \in 1 .. Len(list), list[j] = next', j <= i
            PROVE  cell[list[i]].ep \notin called
        <5>1. k < j
          BY <4>2, <4>4, <4>5
        <5>2. k <= i
          BY <4>5, <5>1
        <5> QED
          BY <4>1, <4>2, <5>2 DEF Uncalled
      <4>6. Uncalled(next')
        BY <4>5 DEF Uncalled
      <4>7. pc' = "finished" => cell'[cursor].finished = TRUE
        <5>1. cell' \in [Cells -> UrbCells]
          BY <1>2, UrbTypesNext DEF UrbTypes, Next, Monitor
        <5> QED
          BY <3>1, <3>2, <4>3, <5>1 DEF UrbCells
      <4> QED
        BY <4>1, <4>4, <4>6, <4>7
    <3>5. resubmits' = FALSE => astray' = FALSE
      BY <2>1 DEF Walk
    <3> QED
      BY <2>1, <2>4, <3>1, <3>3, <3>4, <3>5 DEF Walk
  <2> QED
    BY <1>2, <2>5, <2>6
<1>3. ASSUME NEW e \in Endpoints, SubmitTransfer(e)
      PROVE  Walk'
  <2>1. UNCHANGED <<resubmits, enabled, pc, cursor, next, caller, called, astray>> /\ MayCall
    BY <1>3, SubmitEffect
  <2>2. CASE UNCHANGED <<list, cell>>
    BY <2>1, <2>2 DEF Walk, IsListed, Uncalled
  <2>3. ASSUME NEW c \in Cells, ~cell[c].used, list' = InsertHeadList(c),
               cell' = [cell EXCEPT ![c] = Submitted(e, tds + 1)]
        PROVE  Walk'
    <3>1. CASE pc = "rest"
      BY <2>1, <3>1 DEF Walk
    <3>2. CASE pc = "callback" /\ resubmits
      <4>1. \A d \in Cells : d # c => cell'[d] = cell[d]
        BY <2>3 DEF UrbTypes
      <4>2. ASSUME astray = FALSE PROVE (next = None \/ IsListed(next)') /\ Uncalled(next)'
        <5>1. (next = None \/ IsListed(next)) /\ Uncalled(next)
          BY <3>2, <4>2 DEF Walk
        <5>2. ASSUME NEW m, m = next PROVE (m = None \/ IsListed(m)') /\ Uncalled(m)'
          BY <2>1, <2>3, <4>1, <5>1, <5>2, WalkSubmit
        <5> QED
          BY <2>1, <5>2 DEF IsListed, Uncalled
      <4> QED
        BY <2>1, <3>2, <4>2 DEF Walk, UrbTypes
    <3> QED
      BY <2>1, <3>1, <3>2 DEF MayCall
  <2> QED
    BY <1>3, <2>2, <2>3, SubmitEffect
<1>4. ASSUME NEW e \in Endpoints, DeleteTransfer(e)
      PROVE  Walk'
  <2>1. UNCHANGED <<resubmits, enabled, pc, cursor, next, caller, called>> /\ MayCall
    BY <1>4, DeleteEffect
  <2>2. CASE UNCHANGED <<list, cell, astray>>
    BY <2>1, <2>2 DEF Walk, IsListed, Uncalled
  <2>3. ASSUME NEW i \in 1 .. Len(list), NEW n \in 0 .. Len(evts), Removal(e, i, n)
        PROVE  Walk'
    <3>0. astray' = (astray \/ (pc = "callback" /\ list[i] = next)) /\ astray \in BOOLEAN
      BY <2>3 DEF Removal, MonitorTypes
    <3>1. CASE pc = "rest"
      BY <2>1, <3>0, <3>1 DEF Walk
    <3>2. CASE pc = "callback" /\ resubmits
      <4>1. ASSUME astray' = FALSE PROVE (next = None \/ IsListed(next)') /\ Uncalled(next)'
        <5>1. astray = FALSE /\ list[i] # next
          BY <3>0, <3>2, <4>1
        <5>2. (next = None \/ IsListed(next)) /\ Uncalled(next)
          BY <3>2, <5>1 DEF Walk
        <5>3. ASSUME NEW m, m = next PROVE (m = None \/ IsListed(m)') /\ Uncalled(m)'
          BY <2>1, <2>3, <5>1, <5>2, <5>3, WalkDelete
        <5> QED
          BY <2>1, <5>3 DEF IsListed, Uncalled
      <4> QED
        BY <2>1, <3>2, <4>1 DEF Walk, UrbTypes
    <3> QED
      BY <2>1, <3>1, <3>2 DEF MayCall
  <2> QED
    BY <1>4, <2>2, <2>3, DeleteEffect
<1>5. CASE \E e \in Endpoints : Detach(e)
  <2>1. pc \in {"rest", "callback"} /\ UNCHANGED <<resubmits, list, cell, pc, cursor, next, caller, called, astray>>
    BY <1>5 DEF Detach, listVars, monitorVars
  <2> QED
    BY <2>1 DEF Walk, IsListed, Uncalled
<1>6. CASE Update
  <2>1. cursor \in Cells
    BY <1>6 DEF Walk, Update
  <2>2. UNCHANGED <<resubmits, list, cursor, next, called, astray>> /\ pc = "update" /\ pc' = "advance"
    BY <1>6, <2>1, UpdateEffect
  <2>3. \A c \in Cells : cell'[c].ep = cell[c].ep
    <3>1. cell[cursor] \in UrbCells /\ tds + 1 \in Nat
      BY <2>1 DEF UrbTypes
    <3>2. Resubmitted(cell[cursor], tds + 1).ep = cell[cursor].ep
      BY <3>1, ResubmittedEffect
    <3>3. cell' = cell \/ cell' = [cell EXCEPT ![cursor] = Resubmitted(cell[cursor], tds + 1)]
      BY <1>6, <2>1, UpdateEffect
    <3> QED
      BY <3>2, <3>3 DEF UrbTypes
  <2>4. (\A c : IsListed(c)' <=> IsListed(c)) /\ (\A c : Uncalled(c)' <=> Uncalled(c))
    BY <2>2, <2>3, WalkFrame
  <2> QED
    BY <2>2, <2>4 DEF Walk
<1>7. CASE \E e \in Endpoints, error \in BOOLEAN : HcFinishes(e, error)
  <2>1. UNCHANGED <<resubmits, list, cell, enabled, pc, cursor, next, caller, called, astray>>
    BY <1>7 DEF HcFinishes, listVars, deviceVars, monitorVars, historyVars
  <2> QED
    BY <2>1 DEF Walk, IsListed, Uncalled
<1> QED
  BY <1>1, <1>2, <1>3, <1>4, <1>5, <1>6, <1>7 DEF Next, Monitor, Quiet

-----------------------------------------------------------------------------
(* No URB is lost while callbacks leave their own URB alone.               *)

(* What is known of the URBs on the list.                                  *)
LEMMA UrbFacts ==
  ASSUME Types, OnePerEndpoint
  PROVE  /\ tds \in Nat /\ Len(list) \in Nat /\ accepted \subseteq Endpoints
         /\ \A i \in 1 .. Len(list) :
              /\ list[i] \in Cells /\ cell[list[i]] \in UrbCells
              /\ cell[list[i]].td \in 1 .. tds /\ cell[list[i]].ep \in accepted
              /\ cell[list[i]].ep \in Endpoints /\ cell[list[i]].used = TRUE
         /\ \A i, j \in 1 .. Len(list) : list[i] = list[j] => i = j
<1>1. UrbTypes /\ tds \in Nat /\ accepted \subseteq Endpoints /\ \A c \in Cells : cell[c].td <= tds
  BY DEF Types, UrbTypes, Numbers
<1>2. \A i \in 1 .. Len(list) : cell[list[i]].td \in Nat
  BY <1>1, ListFacts DEF UrbCells
<1> QED
  BY <1>1, <1>2, ListFacts DEF OnePerEndpoint

(* A TRB that is written is on the ring of its endpoint, and on no other.  *)
LEMMA QueuedAppend ==
  ASSUME HcTypes, NEW e \in Endpoints, NEW m \in Nat, ring' = [ring EXCEPT ![e] = Append(@, m)]
  PROVE  /\ \A f \in Endpoints : \A n : Queued(f, n)' <=> Queued(f, n) \/ (f = e /\ n = m)
         /\ ring[e] = << >> => ring'[e] = <<m>>
         /\ \A f \in Endpoints : f # e => ring'[f] = ring[f]
<1>1. ring[e] \in Seq(Nat) /\ ring'[e] = Append(ring[e], m) /\ \A f \in Endpoints : f # e => ring'[f] = ring[f]
  BY DEF HcTypes
<1>2. /\ Len(ring[e]) \in Nat /\ Len(ring'[e]) = Len(ring[e]) + 1 /\ ring'[e][Len(ring[e]) + 1] = m
      /\ \A i \in 1 .. Len(ring[e]) : ring'[e][i] = ring[e][i]
  BY <1>1, AppendProperties
<1>3. ASSUME NEW n PROVE Queued(e, n)' <=> Queued(e, n) \/ n = m
  <2>1. \A i \in 1 .. Len(ring'[e]) : i \in 1 .. Len(ring[e]) \/ i = Len(ring[e]) + 1
    BY <1>2
  <2>2. /\ Len(ring[e]) + 1 \in 1 .. Len(ring'[e])
        /\ \A i \in 1 .. Len(ring[e]) : i \in 1 .. Len(ring'[e])
    BY <1>2
  <2> QED
    BY <1>2, <2>1, <2>2 DEF Queued
<1>4. ASSUME NEW f \in Endpoints, f # e, NEW n PROVE Queued(f, n)' <=> Queued(f, n)
  BY <1>1, <1>4 DEF Queued
<1>5. ring[e] = << >> => ring'[e] = <<m>>
  BY <1>1
<1> QED
  BY <1>1, <1>3, <1>4, <1>5

(* A URB is tracked as before when nothing changes for its endpoint, and   *)
(* all are when nothing changes.                                           *)
LEMMA TrackedFrame ==
  ASSUME NEW u, UNCHANGED <<evts, halted>>, ring'[u.ep] = ring[u.ep]
  PROVE  Tracked(u)' <=> Tracked(u)
BY DEF Tracked, Queued, Waiting

(* All URBs are, when nothing changes for any of them.                     *)
LEMMA TrackingKept ==
  ASSUME AllTracked, UNCHANGED <<list, cell, enabled, ring, halted, evts>>
  PROVE  AllTracked'
<1>1. ASSUME NEW u, Tracked(u) PROVE Tracked(u)'
  BY <1>1, TrackedFrame
<1>2. ASSUME NEW i \in 1 .. Len(list), cell[list[i]].ep \in enabled, NEW u, u = cell[list[i]]
      PROVE  Tracked(u)'
  BY <1>1, <1>2 DEF AllTracked
<1>3. ASSUME NEW i \in 1 .. Len(list), cell[list[i]].ep \in enabled
      PROVE  Tracked(cell[list[i]])'
  BY <1>2, <1>3 DEF Tracked, Queued, Waiting
<1> QED
  BY <1>3 DEF AllTracked

(* A URB whose event a poll takes is finished, any other waits on.         *)
LEMMA TrackedPoll ==
  ASSUME UrbTypes, HcTypes, NEW n \in 0 .. Len(evts), evts' = SubSeq(evts, n + 1, Len(evts)),
         NEW i \in 1 .. Len(list), NEW u, u = CheckedUpTo(n)[list[i]],
         halted' = halted, ring'[u.ep] = ring[u.ep], Tracked(cell[list[i]])
  PROVE  Tracked(u)'
<1> DEFINE c == cell[list[i]]
           hit == \E k \in 1 .. n : evts[k].td = u.td
<1>1. /\ list[i] \in Cells /\ IsListed(list[i]) /\ u.ep = c.ep /\ u.td = c.td
      /\ hit => u.finished = TRUE
      /\ ~hit => u = c
  <2>1. list[i] \in Cells /\ IsListed(list[i])
    BY ListFacts DEF IsListed
  <2>2. /\ u.ep = c.ep /\ u.td = c.td
        /\ (\E k \in 1 .. n : evts[k].td = c.td) => u.finished = TRUE
        /\ ~(\E k \in 1 .. n : evts[k].td = c.td) => u = c
    BY <2>1, CheckedEffect
  <2> HIDE DEF c
  <2> QED
    BY <2>1, <2>2
<1>2. /\ Len(evts) \in Nat /\ Len(evts') = Len(evts) - n
      /\ \A k \in 1 .. Len(evts') : k + n \in 1 .. Len(evts) /\ k + n \notin 1 .. n /\ evts'[k] = evts[k + n]
      /\ \A k \in 1 .. Len(evts) : k \notin 1 .. n => k - n \in 1 .. Len(evts') /\ (k - n) + n = k
      /\ \A k \in 1 .. n : k \in 1 .. Len(evts)
  <2>1. /\ Len(evts) \in Nat /\ Len(evts') = Len(evts) - n
        /\ \A k \in 1 .. Len(evts') : k + n \in 1 .. Len(evts) /\ evts'[k] = evts[k + n]
    BY EventsLeft
  <2> QED
    BY <2>1
<1>3. /\ c.finished = TRUE \/ Queued(u.ep, u.td) \/ Waiting(u.td)
      /\ c.finished = TRUE => ~Waiting(u.td)
      /\ u.ep \notin halted => ring[u.ep] = << >> \/ (ring[u.ep] = <<u.td>> /\ c.finished = FALSE /\ ~Waiting(u.td))
      /\ \A j, k \in 1 .. Len(evts) : evts[j].td = u.td /\ evts[k].td = u.td => j = k
  BY <1>1 DEF Tracked
<1> HIDE DEF c
<1>4. ASSUME NEW k \in 1 .. Len(evts'), evts'[k].td = u.td
      PROVE  Waiting(u.td) /\ ~hit
  <2>1. k + n \in 1 .. Len(evts) /\ k + n \notin 1 .. n /\ evts[k + n].td = u.td
    BY <1>2, <1>4
  <2> QED
    BY <1>2, <1>3, <2>1 DEF Waiting
<1>5. ASSUME ~hit, NEW k \in 1 .. Len(evts), evts[k].td = u.td
      PROVE  Waiting(u.td)'
  <2>1. k - n \in 1 .. Len(evts') /\ evts'[k - n].td = u.td
    BY <1>2, <1>5
  <2> QED
    BY <2>1 DEF Waiting
<1>6. ASSUME NEW j \in 1 .. Len(evts'), NEW k \in 1 .. Len(evts'), evts'[j].td = u.td, evts'[k].td = u.td
      PROVE  j = k
  <2>1. j + n = k + n
    BY <1>2, <1>3, <1>6
  <2> QED
    BY <2>1
<1>7. Queued(u.ep, u.td)' <=> Queued(u.ep, u.td)
  BY DEF Queued
<1>8. (Waiting(u.td)' => Waiting(u.td) /\ ~hit) /\ (Waiting(u.td) /\ ~hit => Waiting(u.td)')
  BY <1>4, <1>5 DEF Waiting
<1>9. hit => Waiting(u.td)
  BY <1>2 DEF Waiting
<1> HIDE DEF hit
<1> QED
  BY <1>1, <1>3, <1>6, <1>7, <1>8, <1>9 DEF Tracked

(* The monitor reports what is finished; it is submitted anew before the   *)
(* monitor looks at it again.                                              *)
LEMMA SteadyQuiet ==
  ASSUME Types, Rounds, resubmits = FALSE, AllTracked, Owned, Reported, Quiet
  PROVE  AllTracked' /\ Owned' /\ Reported'
<1>1. UNCHANGED <<list, cell, enabled, ring, halted, evts, tds>>
  BY QuietEffect
<1>2. AllTracked' /\ Owned'
  <2>1. AllTracked'
    BY <1>1, TrackingKept
  <2>2. Owned'
    BY <1>1 DEF Owned, Queued
  <2> QED
    BY <2>1, <2>2
<1>3. ASSUME NEW i \in 1 .. Len(list), cell[list[i]].ep \in enabled, cell[list[i]].td \in reported'
      PROVE  pc' \in {"callback", "update"} /\ list[i] = cursor' /\ cell[cursor'].error = FALSE
  <2>1. CASE Callback
    <3>1. /\ pc = "finished" /\ pc' = "callback" /\ UNCHANGED cursor
          /\ reported' = IF cell[cursor].error THEN reported ELSE reported \cup {cell[cursor].td}
      BY <2>1 DEF Callback
    <3>2. cell[list[i]].td \notin reported
      BY <1>3, <3>1 DEF Reported
    <3>3. ~cell[cursor].error /\ cell[list[i]].td = cell[cursor].td
      BY <1>3, <3>1, <3>2
    <3>4. PICK k \in 1 .. Len(list) : list[k] = cursor
      BY <3>1 DEF Rounds, Walk, IsListed
    <3>5. i = k
      BY <3>3, <3>4 DEF Owned
    <3>6. cell[cursor].error \in BOOLEAN
      BY <3>4, UrbFacts DEF Rounds, UrbCells
    <3> QED
      BY <3>1, <3>3, <3>4, <3>5, <3>6
  <2>2. CASE CallbackReturns
    <3>1. pc' = "update" /\ UNCHANGED <<cursor, reported>>
      BY <2>2 DEF CallbackReturns, historyVars
    <3> QED
      BY <1>3, <3>1 DEF Reported
  <2>3. CASE BeginRound \/ EndRound \/ DropData \/ Advance
    <3>1. pc \in {"rest", "visit", "finished", "advance"} /\ UNCHANGED reported
      BY <2>3 DEF BeginRound, EndRound, DropData, Advance, historyVars
    <3> QED
      BY <1>3, <3>1 DEF Reported
  <2>4. CASE UNCHANGED vars
    BY <1>3, <2>4 DEF vars, monitorVars, historyVars, Reported
  <2> QED
    BY <2>1, <2>2, <2>3, <2>4 DEF Quiet
<1> QED
  BY <1>1, <1>2, <1>3 DEF Reported

(* A poll moves what it knows of a URB from its event to the URB.          *)
LEMMA SteadyPoll ==
  ASSUME Types, Rounds, resubmits = FALSE, AllTracked, Owned, Reported, OtherUrbIsPolled \/ Check
  PROVE  AllTracked' /\ Owned' /\ Reported'
<1>1. UNCHANGED <<list, enabled, ring, halted, cursor, reported>>
  BY PollStep DEF Types
<1>2. PICK n \in 0 .. Len(evts) : cell' = CheckedUpTo(n) /\ evts' = SubSeq(evts, n + 1, Len(evts))
  BY PollStep DEF Types, Polled
<1>3. ASSUME NEW i \in 1 .. Len(list)
      PROVE  /\ cell'[list[i]].ep = cell[list[i]].ep /\ cell'[list[i]].td = cell[list[i]].td
             /\ list[i] \in Cells
  BY <1>2, UrbFacts, CheckedEffect DEF Rounds, Types
<1>4. ASSUME NEW i \in 1 .. Len(list'), (cell[list[i]].ep \in enabled)'
      PROVE  Tracked(cell[list[i]])'
  <2>1. i \in 1 .. Len(list) /\ cell[list[i]].ep \in enabled /\ list' = list
    BY <1>1, <1>3, <1>4
  <2>2. Tracked(cell[list[i]])
    BY <2>1 DEF AllTracked
  <2>3. ASSUME NEW u, u = CheckedUpTo(n)[list[i]] PROVE Tracked(u)'
    BY <1>1, <1>2, <2>1, <2>2, <2>3, TrackedPoll DEF Types
  <2> QED
    BY <1>2, <2>1, <2>3 DEF Tracked, Queued, Waiting
<1>5. Owned'
  BY <1>1, <1>3 DEF Owned, Queued
<1>6. ASSUME NEW i \in 1 .. Len(list), cell[list[i]].ep \in enabled, cell[list[i]].td \in reported
      PROVE  pc' \in {"callback", "update"} /\ list[i] = cursor /\ cell'[cursor].error = FALSE
  <2>1. pc \in {"callback", "update"} /\ list[i] = cursor /\ cell[cursor].error = FALSE
    BY <1>6 DEF Reported
  <2>2. pc' = pc /\ pc = "callback"
    BY <2>1 DEF OtherUrbIsPolled, Check, monitorVars
  <2>3. cell[cursor].finished = TRUE
    BY <2>1, <2>2 DEF Rounds, Walk
  <2>4. ~Waiting(cell[cursor].td)
    BY <1>6, <2>1, <2>3 DEF AllTracked, Tracked
  <2>5. \A k \in 1 .. n : k \in 1 .. Len(evts)
    BY DEF Types, HcTypes
  <2>6. ~\E k \in 1 .. n : evts[k].td = cell[cursor].td
    BY <2>4, <2>5 DEF Waiting
  <2>7. cell'[cursor] = cell[cursor]
    BY <1>2, <1>3, <2>1, <2>6, CheckedEffect DEF Types
  <2> QED
    BY <2>1, <2>2, <2>7
<1> QED
  BY <1>1, <1>3, <1>4, <1>5, <1>6 DEF AllTracked, Reported

(* An endpoint whose device is gone is no concern any more.                *)
LEMMA SteadyDetach ==
  ASSUME Types, Rounds, AllTracked, Owned, Reported, NEW e \in Endpoints, Detach(e)
  PROVE  AllTracked' /\ Owned' /\ Reported'
<1>1. /\ UNCHANGED <<list, cell, halted, evts, pc, cursor, reported>>
      /\ enabled' = enabled \ {e} /\ ring' = [ring EXCEPT ![e] = << >>]
  BY DEF Detach, listVars, monitorVars
<1>2. \A f \in Endpoints : ring'[f] = (IF f = e THEN << >> ELSE ring[f])
  BY <1>1 DEF Types, HcTypes
<1>3. ASSUME NEW i \in 1 .. Len(list), cell[list[i]].ep \in enabled'
      PROVE  Tracked(cell[list[i]])'
  <2>1. cell[list[i]].ep \in enabled /\ cell[list[i]].ep # e /\ cell[list[i]].ep \in Endpoints
    BY <1>1, <1>3, UrbFacts DEF Rounds
  <2>2. Tracked(cell[list[i]])
    BY <2>1 DEF AllTracked
  <2>3. ring'[cell[list[i]].ep] = ring[cell[list[i]].ep]
    BY <1>2, <2>1
  <2> QED
    BY <1>1, <2>2, <2>3 DEF Tracked, Queued, Waiting
<1>4. Owned'
  <2>1. ASSUME NEW f \in Endpoints, NEW n, Queued(f, n)' PROVE Queued(f, n)
    BY <1>2, <2>1 DEF Queued
  <2>2. \A f \in enabled' \ halted' : f \in enabled \ halted /\ ring'[f] = ring[f]
    BY <1>1, <1>2 DEF Types, UrbTypes
  <2> QED
    BY <1>1, <2>1, <2>2 DEF Owned
<1>5. Reported'
  BY <1>1 DEF Reported
<1> QED
  BY <1>1, <1>3, <1>4, <1>5 DEF AllTracked

(* A new transfer: its TRB is on the ring, which was empty, and on nothing *)
(* else.                                                                   *)
LEMMA SteadySubmit ==
  ASSUME Types, Rounds, resubmits = FALSE, AllTracked, Owned, Reported,
         NEW e \in Endpoints, SubmitTransfer(e)
  PROVE  AllTracked' /\ Owned' /\ Reported'
<1>1. /\ e \notin accepted /\ pc = "rest"
      /\ UNCHANGED <<enabled, halted, evts, pc, cursor, reported>>
  BY SubmitEffect DEF MayCall
<1>2. CASE UNCHANGED <<list, cell, ring>>
  <2>1. AllTracked'
    BY <1>1, <1>2, TrackingKept
  <2>2. Owned' /\ Reported'
    BY <1>1, <1>2 DEF Owned, Queued, Reported
  <2> QED
    BY <2>1, <2>2
<1>3. ASSUME NEW c \in Cells, ~cell[c].used, list' = InsertHeadList(c), tds' = tds + 1,
             cell' = [cell EXCEPT ![c] = Submitted(e, tds + 1)],
             ring' = [ring EXCEPT ![e] = Append(@, tds + 1)]
      PROVE  AllTracked' /\ Owned' /\ Reported'
  <2>1. /\ Len(list') = Len(list) + 1 /\ list'[1] = c /\ Len(list) \in Nat
        /\ \A i \in 2 .. Len(list') : i - 1 \in 1 .. Len(list) /\ list'[i] = list[i - 1]
        /\ \A i \in 1 .. Len(list) : i + 1 \in 2 .. Len(list') /\ (i + 1) - 1 = i
    <3>1. /\ Len(list') = Len(list) + 1 /\ list'[1] = c /\ Len(list) \in Nat
          /\ \A i \in 2 .. Len(list') : i - 1 \in 1 .. Len(list) /\ list'[i] = list[i - 1]
      BY <1>3, InsertEffect, ListFacts DEF Types
    <3> QED
      BY <3>1
  <2>2. /\ tds \in Nat /\ tds + 1 \in Nat
        /\ \A i \in 1 .. Len(list) : /\ list[i] \in Cells /\ list[i] # c /\ cell[list[i]].td \in 1 .. tds
                                     /\ cell[list[i]].ep \in Endpoints /\ cell[list[i]].ep # e
    <3>1. /\ tds \in Nat
          /\ \A i \in 1 .. Len(list) : /\ list[i] \in Cells /\ cell[list[i]].used = TRUE
                                       /\ cell[list[i]].td \in 1 .. tds /\ cell[list[i]].ep \in accepted
                                       /\ cell[list[i]].ep \in Endpoints
      BY UrbFacts DEF Rounds
    <3> QED
      BY <1>1, <1>3, <3>1
  <2>3. \A i \in 2 .. Len(list') : cell'[list'[i]] = cell[list[i - 1]]
    BY <1>3, <2>1, <2>2 DEF Types, UrbTypes
  <2>4. /\ cell'[list'[1]].ep = e /\ cell'[list'[1]].td = tds + 1 /\ cell'[list'[1]].finished = FALSE
        /\ cell'[list'[1]].error = FALSE
    BY <1>3, <2>1 DEF Submitted, Types, UrbTypes
  <2>5. \A i \in 1 .. Len(list') : i = 1 \/ i \in 2 .. Len(list')
    BY <2>1
  <2>6. /\ \A f \in Endpoints : \A n : Queued(f, n)' <=> Queued(f, n) \/ (f = e /\ n = tds + 1)
        /\ ring[e] = << >> => ring'[e] = <<tds + 1>>
        /\ \A f \in Endpoints : f # e => ring'[f] = ring[f]
    BY <1>3, <2>2, QueuedAppend DEF Types
  <2>7. /\ ~Waiting(tds + 1) /\ \A f \in Endpoints : ~Queued(f, tds + 1)
        /\ tds + 1 \notin reported
    <3>1. /\ \A f \in Endpoints : \A i \in 1 .. Len(ring[f]) : ring[f][i] \in 1 .. tds
          /\ \A i \in 1 .. Len(evts) : evts[i].td \in 1 .. tds
          /\ reported \in SUBSET (1 .. tds)
      BY DEF Types, Numbers
    <3>2. tds + 1 \notin 1 .. tds
      BY <2>2
    <3> QED
      BY <3>1, <3>2 DEF Waiting, Queued
  <2>8. ASSUME NEW i \in 2 .. Len(list'), (cell[list[i]].ep \in enabled)'
        PROVE  Tracked(cell[list[i]])'
    <3>1. Tracked(cell[list[i - 1]])
      BY <1>1, <2>1, <2>3, <2>8 DEF AllTracked
    <3>2. ring'[cell[list[i - 1]].ep] = ring[cell[list[i - 1]].ep]
      BY <2>1, <2>2, <2>6
    <3>3. ASSUME NEW u, u = cell[list[i - 1]] PROVE Tracked(u)'
      BY <1>1, <3>1, <3>2, <3>3, TrackedFrame
    <3> QED
      BY <2>3, <3>3 DEF Tracked, Queued, Waiting
  <2>9. e \in enabled => Tracked(cell[list[1]])'
    <3>1. ASSUME NEW u, u.ep = e, u.td = tds + 1, u.finished = FALSE, e \in enabled
          PROVE  Tracked(u)'
      <4>1. Queued(u.ep, u.td)'
        BY <2>6, <3>1
      <4>2. e \notin halted => ring'[e] = <<u.td>>
        BY <2>2, <2>6, <3>1 DEF Owned
      <4>3. ~Waiting(u.td)'
        BY <1>1, <2>7, <3>1 DEF Waiting
      <4> QED
        BY <1>1, <3>1, <4>1, <4>2, <4>3 DEF Tracked, Waiting
    <3>2. ASSUME e \in enabled, NEW u, u = cell'[list'[1]] PROVE Tracked(u)'
      BY <2>4, <3>1, <3>2
    <3> QED
      BY <3>2 DEF Tracked, Queued, Waiting
  <2>10. AllTracked'
    BY <1>1, <2>4, <2>5, <2>8, <2>9 DEF AllTracked
  <2>11. \A i \in 2 .. Len(list') : /\ cell'[list'[i]].td \in 1 .. tds /\ cell'[list'[i]].td # tds + 1
                                    /\ cell'[list'[i]].ep = cell[list[i - 1]].ep
    BY <2>1, <2>2, <2>3
  <2>12. Owned'
    <3>1. ASSUME NEW i \in 1 .. Len(list'), NEW j \in 1 .. Len(list'), cell'[list'[i]].td = cell'[list'[j]].td
          PROVE  i = j
      <4>1. CASE i = 1 \/ j = 1
        BY <2>4, <2>5, <2>11, <3>1, <4>1
      <4>2. CASE i \in 2 .. Len(list') /\ j \in 2 .. Len(list')
        <5>1. /\ i - 1 \in 1 .. Len(list) /\ j - 1 \in 1 .. Len(list)
              /\ cell[list[i - 1]].td = cell[list[j - 1]].td
          BY <2>1, <2>3, <3>1, <4>2
        <5>2. i - 1 = j - 1
          BY <5>1 DEF Owned
        <5> QED
          BY <4>2, <5>2
      <4> QED
        BY <2>5, <4>1, <4>2
    <3>2. ASSUME NEW i \in 1 .. Len(list'), NEW f \in Endpoints, NEW n, n = cell'[list'[i]].td, Queued(f, n)'
          PROVE  f = cell'[list'[i]].ep
      <4>1. CASE i = 1
        BY <2>4, <2>6, <2>7, <3>2, <4>1
      <4>2. CASE i \in 2 .. Len(list')
        <5>1. Queued(f, cell[list[i - 1]].td)
          BY <2>3, <2>6, <2>11, <3>2, <4>2
        <5> QED
          BY <2>1, <2>3, <4>2, <5>1 DEF Owned
      <4> QED
        BY <2>5, <4>1, <4>2
    <3>3. ASSUME NEW f \in enabled \ halted, \A i \in 1 .. Len(list') : cell'[list'[i]].ep # f
          PROVE  ring'[f] = << >>
      <4>1. f # e /\ f \in Endpoints
        BY <2>1, <2>4, <3>3 DEF Types, UrbTypes
      <4>2. ASSUME NEW i \in 1 .. Len(list) PROVE cell[list[i]].ep # f
        <5>1. i + 1 \in 2 .. Len(list') /\ i + 1 \in 1 .. Len(list') /\ (i + 1) - 1 = i
          BY <2>1
        <5>2. cell'[list'[i + 1]].ep = cell[list[i]].ep
          BY <2>11, <5>1
        <5> QED
          BY <3>3, <5>1, <5>2
      <4> QED
        BY <2>6, <4>1, <4>2 DEF Owned
    <3> QED
      BY <1>1, <3>1, <3>2, <3>3 DEF Owned, Queued
  <2>13. \A i \in 1 .. Len(list) : cell[list[i]].ep \in enabled => cell[list[i]].td \notin reported
    BY <1>1 DEF Reported
  <2>14. \A i \in 1 .. Len(list') : cell'[list'[i]].ep \in enabled' => cell'[list'[i]].td \notin reported'
    BY <1>1, <2>1, <2>3, <2>4, <2>5, <2>7, <2>13
  <2> QED
    BY <2>10, <2>12, <2>14 DEF Reported
<1> QED
  BY <1>2, <1>3, SubmitEffect

(* A transfer that is removed takes its TRB off the ring, and the polls    *)
(* leave the other URBs tracked.                                           *)
LEMMA SteadyDelete ==
  ASSUME Types, Rounds, resubmits = FALSE, deaf' = FALSE, AllTracked, Owned, Reported,
         NEW e \in Endpoints, DeleteTransfer(e)
  PROVE  AllTracked' /\ Owned' /\ Reported'
<1>1. pc = "rest" /\ UNCHANGED <<enabled, halted, pc, cursor, reported>>
  BY DeleteEffect DEF MayCall, Types
<1>2. CASE UNCHANGED <<list, cell, ring, evts>>
  <2>1. AllTracked'
    BY <1>1, <1>2, TrackingKept
  <2>2. Owned' /\ Reported'
    BY <1>1, <1>2 DEF Owned, Queued, Reported
  <2> QED
    BY <2>1, <2>2
<1>3. ASSUME NEW i \in 1 .. Len(list), NEW n \in 0 .. Len(evts), Removal(e, i, n)
      PROVE  AllTracked' /\ Owned' /\ Reported'
  <2> DEFINE f(j) == IF j < i THEN j ELSE j + 1
  <2>1. /\ Len(list') = Len(list) - 1 /\ Len(list) \in Nat
        /\ \A j \in 1 .. Len(list') : f(j) \in (1 .. Len(list)) \ {i} /\ list'[j] = list[f(j)]
    BY <1>3, RemoveEffect DEF Types, Removal
  <2>2. \A j \in 1 .. Len(list) : j # i => \E k \in 1 .. Len(list') : f(k) = j
    <3>1. ASSUME NEW j \in 1 .. Len(list), j < i PROVE j \in 1 .. Len(list') /\ f(j) = j
      BY <2>1, <3>1
    <3>2. ASSUME NEW j \in 1 .. Len(list), j > i PROVE j - 1 \in 1 .. Len(list') /\ f(j - 1) = j
      BY <2>1, <3>2
    <3>3. \A j \in 1 .. Len(list) : j # i => j < i \/ j > i
      BY <2>1
    <3> HIDE DEF f
    <3> QED
      BY <3>1, <3>2, <3>3
  <2>3. \A j, k \in 1 .. Len(list') : f(j) = f(k) => j = k
    OBVIOUS
  <2> HIDE DEF f
  <2>4. /\ evts' = SubSeq(evts, n + 1, Len(evts)) /\ cell[list[i]].ep = e
        /\ \A c \in Cells : c # list[i] => cell'[c] = CheckedUpTo(n)[c]
        /\ \A g \in Endpoints : ring'[g] = ring[g] \/ ring'[g] = << >>
        /\ \A g \in Endpoints : g # e => ring'[g] = ring[g]
        /\ e \in enabled \ halted => ring'[e] = << >>
    BY <1>3 DEF Removal, Types, HcTypes
  <2>5. ASSUME NEW j \in 1 .. Len(list')
        PROVE  /\ f(j) \in 1 .. Len(list) /\ f(j) # i /\ list'[j] = list[f(j)]
               /\ cell'[list'[j]] = CheckedUpTo(n)[list[f(j)]]
               /\ cell'[list'[j]].ep = cell[list[f(j)]].ep /\ cell'[list'[j]].td = cell[list[f(j)]].td
               /\ cell[list[f(j)]].ep # e /\ cell[list[f(j)]].ep \in Endpoints
    <3>1. f(j) \in 1 .. Len(list) /\ f(j) # i /\ list'[j] = list[f(j)]
      BY <2>1
    <3>2. list[f(j)] \in Cells /\ list[f(j)] # list[i] /\ cell[list[f(j)]].ep \in Endpoints
      BY <3>1, UrbFacts DEF Rounds
    <3>3. cell[list[f(j)]].ep # e
      BY <2>4, <3>1 DEF Rounds, OnePerEndpoint
    <3>4. cell'[list'[j]] = CheckedUpTo(n)[list[f(j)]]
      BY <2>4, <3>1, <3>2
    <3>5. CheckedUpTo(n)[list[f(j)]].ep = cell[list[f(j)]].ep /\ CheckedUpTo(n)[list[f(j)]].td = cell[list[f(j)]].td
      BY <3>2, CheckedEffect DEF Types
    <3> QED
      BY <3>1, <3>2, <3>3, <3>4, <3>5
  <2>6. ASSUME NEW j \in 1 .. Len(list'), (cell[list[j]].ep \in enabled)'
        PROVE  Tracked(cell[list[j]])'
    <3>1. Tracked(cell[list[f(j)]])
      BY <1>1, <2>5, <2>6 DEF AllTracked
    <3>2. ASSUME NEW u, u = CheckedUpTo(n)[list[f(j)]] PROVE Tracked(u)'
      <4>1. u.ep = cell[list[f(j)]].ep /\ ring'[u.ep] = ring[u.ep]
        <5>1. u.ep = cell[list[f(j)]].ep
          BY <2>5, <3>2
        <5>2. u.ep \in Endpoints /\ u.ep # e
          BY <2>5, <5>1
        <5> QED
          BY <2>4, <5>1, <5>2
      <4>2. f(j) \in 1 .. Len(list)
        BY <2>5
      <4>3. UrbTypes /\ HcTypes /\ halted' = halted /\ evts' = SubSeq(evts, n + 1, Len(evts))
        BY <1>1, <2>4 DEF Types
      <4> HIDE DEF f
      <4> QED
        BY <3>1, <3>2, <4>1, <4>2, <4>3, TrackedPoll
    <3>3. cell'[list'[j]] = CheckedUpTo(n)[list[f(j)]]
      BY <2>5
    <3> QED
      BY <3>2, <3>3 DEF Tracked, Queued, Waiting
  <2>7. \A g \in Endpoints : \A m : Queued(g, m)' => Queued(g, m)
    BY <2>4 DEF Queued
  <2>8. Owned'
    <3>1. ASSUME NEW j \in 1 .. Len(list'), NEW k \in 1 .. Len(list'), cell'[list'[j]].td = cell'[list'[k]].td
          PROVE  j = k
      <4>1. f(j) = f(k)
        <5>1. /\ f(j) \in 1 .. Len(list) /\ f(k) \in 1 .. Len(list)
              /\ cell[list[f(j)]].td = cell[list[f(k)]].td
          BY <2>5, <3>1
        <5> QED
          BY <5>1 DEF Owned
      <4> QED
        BY <2>3, <4>1
    <3>2. ASSUME NEW j \in 1 .. Len(list'), NEW g \in Endpoints, NEW m, m = cell'[list'[j]].td, Queued(g, m)'
          PROVE  g = cell'[list'[j]].ep
      BY <2>5, <2>7, <3>2 DEF Owned
    <3>3. ASSUME NEW g \in enabled \ halted, \A j \in 1 .. Len(list') : cell'[list'[j]].ep # g
          PROVE  ring'[g] = << >>
      <4>1. CASE g = e
        BY <2>4, <4>1
      <4>2. CASE g # e
        <5>1. ASSUME NEW j \in 1 .. Len(list) PROVE cell[list[j]].ep # g
          <6>1. CASE j = i
            BY <2>4, <4>2, <6>1
          <6>2. CASE j # i
            <7>1. PICK k \in 1 .. Len(list') : f(k) = j
              BY <2>2, <6>2
            <7> QED
              BY <2>5, <3>3, <7>1
          <6> QED
            BY <6>1, <6>2
        <5>2. ring'[g] = ring[g]
          BY <2>4, <4>2 DEF Types, UrbTypes
        <5> QED
          BY <5>1, <5>2 DEF Owned
      <4> QED
        BY <4>1, <4>2
    <3> QED
      BY <1>1, <3>1, <3>2, <3>3 DEF Owned, Queued
  <2>9. \A j \in 1 .. Len(list) : cell[list[j]].ep \in enabled => cell[list[j]].td \notin reported
    BY <1>1 DEF Reported
  <2>10. \A j \in 1 .. Len(list') : cell'[list'[j]].ep \in enabled' => cell'[list'[j]].td \notin reported'
    BY <1>1, <2>5, <2>9
  <2> QED
    BY <2>6, <2>8, <2>10 DEF AllTracked, Reported
<1> QED
  BY <1>2, <1>3, DeleteEffect DEF Types

(* A URB that is submitted again waits for its new TRB.                    *)
LEMMA SteadyUpdate ==
  ASSUME Types, Rounds, resubmits = FALSE, AllTracked, Owned, Reported, Update
  PROVE  AllTracked' /\ Owned' /\ Reported'
<1>1. pc = "update" /\ IsListed(cursor) /\ cell[cursor].finished = TRUE
  BY DEF Rounds, Walk, Update
<1>2. PICK k \in 1 .. Len(list) : list[k] = cursor
  BY <1>1 DEF IsListed
<1>3. cursor \in Cells /\ cell[cursor] \in UrbCells /\ cell[cursor].used = TRUE /\ cell[cursor].ep \in Endpoints
  BY <1>2, UrbFacts DEF Rounds
<1>4. /\ UNCHANGED <<list, enabled, halted, evts, cursor, reported>> /\ pc' = "advance"
      /\ \/ UNCHANGED <<tds, cell, ring>> /\ (cell[cursor].error = TRUE \/ cell[cursor].ep \notin enabled)
         \/ /\ tds' = tds + 1 /\ cell[cursor].ep \in enabled
            /\ ring' = [ring EXCEPT ![cell[cursor].ep] = Append(@, tds + 1)]
            /\ cell' = [cell EXCEPT ![cursor] = Resubmitted(cell[cursor], tds + 1)]
  BY <1>3, UpdateEffect DEF Types
<1>5. CASE UNCHANGED <<tds, cell, ring>> /\ (cell[cursor].error = TRUE \/ cell[cursor].ep \notin enabled)
  <2>1. AllTracked'
    <3>1. UNCHANGED <<list, cell, enabled, ring, halted, evts>>
      BY <1>4, <1>5
    <3> QED
      BY <3>1, TrackingKept
  <2>2. Owned'
    BY <1>4, <1>5 DEF Owned, Queued
  <2>3. \A i \in 1 .. Len(list) : cell[list[i]].ep \in enabled => cell[list[i]].td \notin reported
    BY <1>5 DEF Reported
  <2>4. Reported'
    BY <1>4, <1>5, <2>3 DEF Reported
  <2> QED
    BY <2>1, <2>2, <2>4
<1>6. ASSUME NEW e \in Endpoints, e = cell[cursor].ep, tds' = tds + 1, e \in enabled,
             ring' = [ring EXCEPT ![e] = Append(@, tds + 1)],
             cell' = [cell EXCEPT ![cursor] = Resubmitted(cell[cursor], tds + 1)]
      PROVE  AllTracked' /\ Owned' /\ Reported'
  <2>1. /\ tds \in Nat /\ tds + 1 \in Nat
        /\ \A i \in 1 .. Len(list) : list[i] \in Cells /\ cell[list[i]].td \in 1 .. tds /\ cell[list[i]].ep \in Endpoints
        /\ \A i \in 1 .. Len(list) : i # k => list[i] # cursor /\ cell[list[i]].ep # e
    <3>1. \A i \in 1 .. Len(list) : cell[list[i]].ep = e => i = k
      BY <1>2, <1>6 DEF Rounds, OnePerEndpoint
    <3>2. \A i \in 1 .. Len(list) : list[i] = cursor => i = k
      BY <1>6, <3>1
    <3>3. /\ tds \in Nat
          /\ \A i \in 1 .. Len(list) : /\ list[i] \in Cells /\ cell[list[i]].td \in 1 .. tds
                                       /\ cell[list[i]].ep \in Endpoints
      BY UrbFacts DEF Rounds
    <3>4. tds + 1 \in Nat
      BY <3>3
    <3> QED
      BY <3>1, <3>2, <3>3, <3>4
  <2>2. /\ \A i \in 1 .. Len(list) : i # k => cell'[list[i]] = cell[list[i]]
        /\ cell'[list[k]].ep = e /\ cell'[list[k]].td = tds + 1 /\ cell'[list[k]].finished = FALSE
    <3>1. LET v == Resubmitted(cell[cursor], tds + 1) IN v.ep = e /\ v.td = tds + 1 /\ v.finished = FALSE
      BY <1>3, <1>6, <2>1, ResubmittedEffect
    <3> QED
      BY <1>2, <1>3, <1>6, <2>1, <3>1 DEF Types, UrbTypes
  <2>3. /\ \A f \in Endpoints : \A n : Queued(f, n)' <=> Queued(f, n) \/ (f = e /\ n = tds + 1)
        /\ ring[e] = << >> => ring'[e] = <<tds + 1>>
        /\ \A f \in Endpoints : f # e => ring'[f] = ring[f]
    BY <1>6, <2>1, QueuedAppend DEF Types
  <2>4. /\ ~Waiting(tds + 1) /\ \A f \in Endpoints : ~Queued(f, tds + 1)
        /\ tds + 1 \notin reported /\ \A i \in 1 .. Len(list) : cell[list[i]].td # tds + 1
    <3>1. /\ \A f \in Endpoints : \A i \in 1 .. Len(ring[f]) : ring[f][i] \in 1 .. tds
          /\ \A i \in 1 .. Len(evts) : evts[i].td \in 1 .. tds
          /\ reported \in SUBSET (1 .. tds)
      BY DEF Types, Numbers
    <3>2. tds + 1 \notin 1 .. tds
      BY <2>1
    <3> QED
      BY <2>1, <3>1, <3>2 DEF Waiting, Queued
  <2>5. ASSUME NEW i \in 1 .. Len(list), i # k, cell[list[i]].ep \in enabled
        PROVE  Tracked(cell[list[i]])'
    <3>1. Tracked(cell[list[i]])
      BY <2>5 DEF AllTracked
    <3>2. ring'[cell[list[i]].ep] = ring[cell[list[i]].ep]
      BY <2>1, <2>3, <2>5
    <3>3. ASSUME NEW u, u = cell[list[i]] PROVE Tracked(u)'
      BY <1>4, <3>1, <3>2, <3>3, TrackedFrame
    <3> QED
      BY <1>4, <2>2, <2>5, <3>3 DEF Tracked, Queued, Waiting
  <2>6. Tracked(cell[list[k]])'
    <3>1. e \notin halted => ring[e] = << >>
      BY <1>1, <1>2, <1>6 DEF AllTracked, Tracked
    <3>2. ASSUME NEW u, u.ep = e, u.td = tds + 1, u.finished = FALSE
          PROVE  Tracked(u)'
      <4>1. Queued(u.ep, u.td)'
        BY <2>3, <3>2
      <4>2. e \notin halted => ring'[e] = <<u.td>>
        BY <2>3, <3>1, <3>2
      <4>3. ~Waiting(u.td)'
        BY <1>4, <2>4, <3>2 DEF Waiting
      <4> QED
        BY <1>4, <3>2, <4>1, <4>2, <4>3 DEF Tracked, Waiting
    <3>3. ASSUME NEW u, u = cell'[list[k]] PROVE Tracked(u)'
      BY <2>2, <3>2, <3>3
    <3> QED
      BY <1>4, <3>3 DEF Tracked, Queued, Waiting
  <2>7. AllTracked'
    <3>1. \A i \in 1 .. Len(list) : i # k => cell'[list'[i]] = cell[list[i]]
      BY <1>4, <2>2
    <3> QED
      BY <1>4, <2>5, <2>6, <3>1 DEF AllTracked
  <2>8. Owned'
    <3>1. ASSUME NEW i \in 1 .. Len(list), NEW j \in 1 .. Len(list), cell'[list[i]].td = cell'[list[j]].td
          PROVE  i = j
      BY <2>2, <2>4, <3>1 DEF Owned
    <3>2. ASSUME NEW i \in 1 .. Len(list), NEW f \in Endpoints, NEW n, n = cell'[list[i]].td, Queued(f, n)'
          PROVE  f = cell'[list[i]].ep
      <4>1. CASE i = k
        BY <2>2, <2>3, <2>4, <3>2, <4>1
      <4>2. CASE i # k
        BY <2>2, <2>3, <2>4, <3>2, <4>2 DEF Owned
      <4> QED
        BY <4>1, <4>2
    <3>3. ASSUME NEW f \in enabled \ halted, \A i \in 1 .. Len(list) : cell'[list[i]].ep # f
          PROVE  ring'[f] = << >>
      <4>1. f # e /\ f \in Endpoints
        BY <2>2, <3>3 DEF Types, UrbTypes
      <4>2. \A i \in 1 .. Len(list) : cell[list[i]].ep # f
        BY <1>2, <1>6, <2>2, <3>3, <4>1
      <4> QED
        BY <2>3, <4>1, <4>2 DEF Owned
    <3> QED
      BY <1>4, <3>1, <3>2, <3>3 DEF Owned, Queued
  <2>9. \A i \in 1 .. Len(list) : i # k /\ cell[list[i]].ep \in enabled => cell[list[i]].td \notin reported
    BY <2>1 DEF Reported
  <2>10. \A i \in 1 .. Len(list') : cell'[list'[i]].ep \in enabled' => cell'[list'[i]].td \notin reported'
    BY <1>4, <2>2, <2>4, <2>9
  <2> QED
    BY <2>7, <2>8, <2>10 DEF Reported
<1> QED
  BY <1>3, <1>4, <1>5, <1>6

(* The controller finishes the TRB of the one URB of the endpoint: an      *)
(* event takes its place.                                                  *)
LEMMA SteadyFinishes ==
  ASSUME Types, Rounds, AllTracked, Owned, Reported,
         NEW e \in Endpoints, NEW error \in BOOLEAN, HcFinishes(e, error)
  PROVE  AllTracked' /\ Owned' /\ Reported'
<1> DEFINE event == [td |-> Head(ring[e]), error |-> error]
<1>1. /\ e \in enabled \ halted /\ ring[e] # << >> /\ evts' = Append(evts, event)
      /\ halted' = (IF error THEN halted \cup {e} ELSE halted)
      /\ ring' = IF error THEN ring ELSE [ring EXCEPT ![e] = Tail(@)]
      /\ UNCHANGED <<list, cell, enabled, pc, cursor, reported>>
  BY DEF HcFinishes, listVars, deviceVars, monitorVars, historyVars
<1>2. PICK k \in 1 .. Len(list) : cell[list[k]].ep = e
  BY <1>1 DEF Owned
<1>3. ASSUME NEW m, m = cell[list[k]].td
      PROVE  AllTracked' /\ Owned' /\ Reported'
  <2>1. /\ ring[e] = <<m>> /\ cell[list[k]].finished = FALSE /\ ~Waiting(m) /\ event.td = m
        /\ Tail(ring[e]) = << >>
    <3>1. Tracked(cell[list[k]])
      BY <1>1, <1>2 DEF AllTracked
    <3>2. ring[e] = <<m>> /\ cell[list[k]].finished = FALSE /\ ~Waiting(m)
      BY <1>1, <1>2, <1>3, <3>1 DEF Tracked
    <3> QED
      BY <3>2
  <2>2. /\ Len(evts) \in Nat /\ Len(evts') = Len(evts) + 1 /\ evts'[Len(evts) + 1].td = m
        /\ \A i \in 1 .. Len(evts) : evts'[i] = evts[i] /\ i \in 1 .. Len(evts')
        /\ \A i \in 1 .. Len(evts') : i \in 1 .. Len(evts) \/ i = Len(evts) + 1
        /\ Len(evts) + 1 \in 1 .. Len(evts')
    <3>1. event \in Events
      <4>1. cell[list[k]].td \in 1 .. tds /\ tds \in Nat
        BY UrbFacts DEF Rounds
      <4>2. Head(ring[e]) \in Nat
        BY <1>3, <2>1, <4>1
      <4> QED
        BY <4>2 DEF Events
    <3>2. /\ Len(evts) \in Nat /\ Len(evts') = Len(evts) + 1 /\ evts'[Len(evts) + 1] = event
          /\ \A i \in 1 .. Len(evts) : evts'[i] = evts[i]
      BY <1>1, <3>1, AppendProperties DEF Types, HcTypes
    <3> QED
      BY <2>1, <3>2
  <2>3. /\ \A f \in Endpoints : f # e => ring'[f] = ring[f] /\ (f \in halted' <=> f \in halted)
        /\ ring'[e] = << >> \/ (ring'[e] = ring[e] /\ e \in halted')
        /\ \A f \in Endpoints : ring'[f] = ring[f] \/ ring'[f] = << >>
    BY <1>1, <2>1 DEF Types, HcTypes
  <2> HIDE DEF event
  <2>4. /\ \A n : n # m => (Waiting(n)' <=> Waiting(n))
        /\ Waiting(m)'
        /\ \A i \in 1 .. Len(evts') : evts'[i].td = m => i = Len(evts) + 1
    BY <2>1, <2>2 DEF Waiting
  <2>5. ASSUME NEW i \in 1 .. Len(list), cell[list[i]].ep \in enabled
        PROVE  Tracked(cell[list[i]])'
    <3>1. CASE i = k
      <4>1. ASSUME NEW u, u.ep = e, u.td = m, u.finished = FALSE PROVE Tracked(u)'
        <5>1. u.ep \notin halted' => ring'[u.ep] = << >>
          BY <2>3, <4>1
        <5>2. \A j, l \in 1 .. Len(evts') : evts'[j].td = u.td /\ evts'[l].td = u.td => j = l
          BY <2>4, <4>1
        <5>3. Waiting(u.td)'
          BY <2>4, <4>1 DEF Waiting
        <5> QED
          BY <4>1, <5>1, <5>2, <5>3 DEF Tracked
      <4>2. ASSUME NEW u, u = cell[list[i]] PROVE Tracked(u)'
        BY <1>2, <1>3, <2>1, <3>1, <4>1, <4>2
      <4> QED
        BY <1>1, <4>2 DEF Tracked, Queued, Waiting
    <3>2. CASE i # k
      <4>1. cell[list[i]].ep # e /\ cell[list[i]].td # m /\ cell[list[i]].ep \in Endpoints
        <5>1. cell[list[i]].ep # e
          BY <1>2, <3>2 DEF Rounds, OnePerEndpoint
        <5>2. cell[list[i]].td # m
          BY <1>3, <3>2 DEF Owned
        <5> QED
          BY <5>1, <5>2, UrbFacts DEF Rounds
      <4>2. Tracked(cell[list[i]])
        BY <2>5 DEF AllTracked
      <4>3. ASSUME NEW u, u = cell[list[i]] PROVE Tracked(u)'
        <5>1. u.td # m /\ u.ep \in Endpoints /\ u.ep # e /\ Tracked(u)
          BY <4>1, <4>2, <4>3
        <5>2. ring'[u.ep] = ring[u.ep] /\ (u.ep \in halted' <=> u.ep \in halted)
          BY <2>3, <5>1
        <5>3. Waiting(u.td)' <=> Waiting(u.td)
          BY <2>4, <5>1 DEF Waiting
        <5>4. Queued(u.ep, u.td)' <=> Queued(u.ep, u.td)
          BY <5>2 DEF Queued
        <5>5. \A j, l \in 1 .. Len(evts') : evts'[j].td = u.td /\ evts'[l].td = u.td => j = l
          <6>1. \A j \in 1 .. Len(evts') : evts'[j].td = u.td => j \in 1 .. Len(evts) /\ evts[j].td = u.td
            BY <2>2, <5>1
          <6> QED
            BY <5>1, <6>1 DEF Tracked
        <5> QED
          BY <5>1, <5>2, <5>3, <5>4, <5>5 DEF Tracked
      <4> QED
        BY <1>1, <4>3 DEF Tracked, Queued, Waiting
    <3> QED
      BY <3>1, <3>2
  <2>6. AllTracked'
    BY <1>1, <2>5 DEF AllTracked
  <2>7. Owned'
    <3>1. \A f \in Endpoints : \A n : Queued(f, n)' => Queued(f, n)
      BY <2>3 DEF Queued
    <3>2. \A f \in enabled' \ halted' : f \in enabled \ halted /\ (ring'[f] = ring[f] \/ ring'[f] = << >>)
      BY <1>1, <2>3 DEF Types, UrbTypes
    <3> QED
      BY <1>1, <3>1, <3>2 DEF Owned
  <2>8. Reported'
    BY <1>1 DEF Reported
  <2> QED
    BY <2>6, <2>7, <2>8
<1> QED
  BY <1>3

(* Every step keeps track of the URBs.                                     *)
LEMMA SteadyNext ==
  ASSUME Types, Rounds, Steady, [Next]_vars
  PROVE  Steady'
<1>1. resubmits' = resubmits
  BY DEF Next, Monitor, OtherUrbIsPolled, SubmitTransfer, DeleteTransfer, Detach, BeginRound, EndRound, Check,
         DropData, Callback, CallbackReturns, Update, Advance, HcFinishes, vars
<1>2. deaf' = FALSE => deaf = FALSE
  <2>1. CASE Quiet
    BY <2>1, QuietEffect
  <2>2. CASE OtherUrbIsPolled \/ Check
    BY <2>2, PollStep DEF Types
  <2>3. CASE \E e \in Endpoints : DeleteTransfer(e)
    BY <2>3, DeleteEffect DEF Types
  <2>4. CASE Update \/ (\E e \in Endpoints : SubmitTransfer(e) \/ Detach(e))
             \/ (\E e \in Endpoints, error \in BOOLEAN : HcFinishes(e, error))
    BY <2>4 DEF Update, SubmitTransfer, Detach, HcFinishes
  <2> QED
    BY <2>1, <2>2, <2>3, <2>4 DEF Next, Monitor, Quiet
<1>3. ASSUME resubmits = FALSE, deaf' = FALSE
      PROVE  AllTracked' /\ Owned' /\ Reported'
  <2>1. AllTracked /\ Owned /\ Reported
    BY <1>2, <1>3 DEF Steady
  <2> QED
    BY <1>3, <2>1, SteadyQuiet, SteadyPoll, SteadySubmit, SteadyDelete, SteadyDetach, SteadyUpdate, SteadyFinishes
       DEF Next, Monitor, Quiet
<1>4. resubmits' = FALSE /\ deaf' = FALSE => AllTracked' /\ Owned' /\ Reported'
  BY <1>1, <1>3
<1> QED
  BY <1>4 DEF Steady

-----------------------------------------------------------------------------
(* The invariants together: the list and the monitor's place on it, and    *)
(* what every URB waits for.                                               *)
LEMMA InvariantHolds == Spec => [](Types /\ Rounds /\ Steady)
<1>1. Init => Types /\ Rounds /\ Steady
  <2> SUFFICES ASSUME Init PROVE Types /\ Rounds /\ Steady
    OBVIOUS
  <2>1. /\ Types /\ Len(list) = 0 /\ 1 .. Len(list) = {} /\ pc = "rest" /\ astray = FALSE
        /\ \A e \in Endpoints : ring[e] = << >>
    <3>1. Len(list) = 0
      BY DEF Init
    <3> QED
      BY <3>1, TypesInit DEF Init
  <2>2. Rounds
    BY <2>1 DEF Rounds, OnePerEndpoint, Walk
  <2>3. AllTracked /\ Owned /\ Reported
    BY <2>1 DEF AllTracked, Owned, Reported, Types, UrbTypes
  <2> QED
    BY <2>1, <2>2, <2>3 DEF Steady
<1>2. Types /\ Rounds /\ Steady /\ [Next]_vars => (Types /\ Rounds /\ Steady)'
  <2> SUFFICES ASSUME Types, Rounds, Steady, [Next]_vars PROVE (Types /\ Rounds /\ Steady)'
    OBVIOUS
  <2>1. UrbTypes /\ HcTypes /\ MonitorTypes /\ Numbers /\ tds \in Nat /\ OnePerEndpoint /\ Walk
    BY DEF Types, Rounds, Numbers
  <2>2. UrbTypes' /\ HcTypes'
    BY <2>1, UrbTypesNext, HcTypesNext
  <2>3. MonitorTypes' /\ Numbers'
    BY <2>1, MonitorTypesNext, NumbersNext
  <2>4. OnePerEndpoint' /\ Walk'
    BY <2>1, OnePerEndpointNext, WalkNext
  <2>5. Steady'
    BY SteadyNext
  <2> QED
    BY <2>2, <2>3, <2>4, <2>5 DEF Types, Rounds
<1> QED
  BY <1>1, <1>2, PTL DEF Spec

(* The list holds each URB once, of one endpoint, and no URB of a device   *)
(* that is there is lost or submitted twice (AsyncInvariant), however many *)
(* endpoints share the event ring and whatever polls take their events.    *)
THEOREM NoUrbIsLost == Spec => []AsyncInvariant
<1>1. Types /\ Rounds /\ Steady => AsyncInvariant
  <2> SUFFICES ASSUME Types, Rounds, Steady PROVE AsyncInvariant
    OBVIOUS
  <2>1. \A c : c \in Listed <=> IsListed(c)
    BY ListFacts DEF Types
  <2>2. TypeOK
    <3>1. Listed \subseteq Cells /\ IsInjective(list)
      <4>1. \A i, j \in 1 .. Len(list) : list[i] = list[j] => i = j
        BY DEF Rounds, OnePerEndpoint
      <4>2. DOMAIN list = 1 .. Len(list)
        BY DEF Types, UrbTypes
      <4>3. Listed \subseteq Cells
        BY <2>1, ListFacts DEF Types
      <4> QED
        BY <4>1, <4>2, <4>3 DEF IsInjective
    <3>2. \A c \in Cells : cell[c].td \in 0 .. tds /\ cell[c].ep \in Endpoints \cup {None}
      BY DEF Types, UrbTypes, UrbCells, Numbers
    <3>3. enabled \subseteq Endpoints /\ accepted \subseteq Endpoints /\ halted \subseteq Endpoints
      BY DEF Types, UrbTypes, HcTypes
    <3>4. \A e \in Endpoints : Range(ring[e]) \subseteq 1 .. tds
      BY DEF Types, Numbers, HcTypes, Range
    <3>5. {event.td : event \in Range(evts)} \subseteq 1 .. tds
      BY DEF Types, Numbers, HcTypes, Range
    <3>6. /\ tds \in 0 .. MaxTds /\ reported \subseteq 1 .. tds /\ dropped \subseteq 0 .. tds
          /\ pc \in {"rest", "visit", "finished", "callback", "update", "advance"}
          /\ {cursor, next} \subseteq Cells \cup {None}
          /\ caller \in Endpoints \cup {None} /\ called \subseteq Endpoints
      BY DEF Types, Numbers, MonitorTypes, Places
    <3> QED
      BY <3>1, <3>2, <3>3, <3>4, <3>5, <3>6 DEF TypeOK
  <2>3. NoUrbLost
    <3>1. SUFFICES ASSUME ~resubmits, ~deaf, NEW c \in Listed, cell[c].ep \in enabled
                   PROVE  /\ cell[c].finished \/ OnRing(c) \/ HasEvent(c)
                          /\ cell[c].finished => ~HasEvent(c)
                          /\ cell[c].ep \notin halted =>
                               Len(ring[cell[c].ep]) <= 1 /\ ~(cell[c].finished /\ OnRing(c))
      BY DEF NoUrbLost
    <3>2. PICK i \in 1 .. Len(list) : list[i] = c
      BY <2>1, <3>1 DEF IsListed
    <3>3. Tracked(cell[c])
      BY <3>1, <3>2 DEF Steady, AllTracked, Types, UrbTypes, HcTypes
    <3>4. cell[c].finished \in BOOLEAN /\ cell[c].ep \in Endpoints /\ cell[c].td \in Nat
      BY <3>2, UrbFacts DEF Rounds, UrbCells
    <3>5. OnRing(c) <=> Queued(cell[c].ep, cell[c].td)
      <4>1. DOMAIN ring[cell[c].ep] = 1 .. Len(ring[cell[c].ep])
        BY <3>4 DEF Types, HcTypes
      <4> QED
        BY <4>1 DEF OnRing, Queued, Range
    <3>6. HasEvent(c) <=> Waiting(cell[c].td)
      BY DEF HasEvent, Waiting, Types, HcTypes, Range
    <3>7. ring[cell[c].ep] = << >> => ~Queued(cell[c].ep, cell[c].td)
      BY DEF Queued
    <3>8. /\ cell[c].finished = TRUE \/ Queued(cell[c].ep, cell[c].td) \/ Waiting(cell[c].td)
          /\ cell[c].finished = TRUE => ~Waiting(cell[c].td)
          /\ cell[c].ep \notin halted =>
               ring[cell[c].ep] = << >> \/ (ring[cell[c].ep] = <<cell[c].td>> /\ cell[c].finished = FALSE)
      BY <3>3 DEF Tracked
    <3>9. cell[c].ep \notin halted => Len(ring[cell[c].ep]) <= 1
      <4>1. Len(<< >>) = 0 /\ Len(<<cell[c].td>>) = 1
        OBVIOUS
      <4>2. cell[c].ep \notin halted => Len(ring[cell[c].ep]) \in {0, 1}
        BY <3>8, <4>1
      <4>3. \A n \in {0, 1} : n <= 1
        OBVIOUS
      <4> QED
        BY <4>2, <4>3
    <3> QED
      BY <3>4, <3>5, <3>6, <3>7, <3>8, <3>9
  <2> QED
    BY <2>2, <2>3 DEF AsyncInvariant
<1> QED
  BY <1>1, InvariantHolds, PTL

(* A callback is called once in a round, however callbacks change the      *)
(* list, unless one of them removed the URB the monitor was to look at     *)
(* next, and once for the data of a TRB, while the driver is not deaf.     *)
THEOREM CallbacksCalledOnce == Spec => ReportedOnce
<1>1. Types /\ Rounds /\ Steady /\ [Next]_vars =>
        [pc = "finished" /\ pc' = "callback" =>
           /\ ~astray => cell[cursor].ep \notin called
           /\ ~resubmits /\ ~deaf /\ ~cell[cursor].error => cell[cursor].td \notin reported]_vars
  <2> SUFFICES ASSUME Types, Rounds, Steady, pc = "finished"
               PROVE  /\ ~astray => cell[cursor].ep \notin called
                      /\ ~resubmits /\ ~deaf => cell[cursor].td \notin reported
    OBVIOUS
  <2>1. /\ ~astray => IsListed(cursor) /\ Uncalled(cursor)
        /\ cell[cursor].ep \in enabled /\ (~resubmits => ~astray)
    BY DEF Rounds, Walk, Types, MonitorTypes, UrbTypes
  <2>2. ~astray => \E i \in 1 .. Len(list) : list[i] = cursor
    BY <2>1 DEF IsListed
  <2>3. ~astray => cell[cursor].ep \notin called
    <3>1. ASSUME ~astray, NEW i \in 1 .. Len(list), list[i] = cursor PROVE cell[cursor].ep \notin called
      <4>1. i <= i
        BY ListFacts DEF Types
      <4> QED
        BY <2>1, <3>1, <4>1 DEF Uncalled
    <3> QED
      BY <2>2, <3>1
  <2>4. ~resubmits /\ ~deaf => Reported
    BY DEF Steady, Types, UrbTypes, HcTypes
  <2> QED
    BY <2>1, <2>2, <2>3, <2>4 DEF Reported
<1> QED
  BY <1>1, InvariantHolds, PTL DEF Spec, ReportedOnce
=============================================================================
