----------------------------- MODULE XhciAsync -----------------------------
(***************************************************************************)
(* The asynchronous interrupt transfers of the XHCI driver: a list of URBs *)
(* that a timer walks every millisecond. A URB that finished is reported   *)
(* to the callback of its device driver and submitted again; the callback  *)
(* may itself remove transfers, its own or others, and submit new ones.    *)
(*                                                                         *)
(* All of the driver runs at one TPL, the timer too: only the callback     *)
(* runs in the middle of the walk. URBs are pool memory: a cell that is    *)
(* freed may hold the next URB. An interrupt URB is one TRB, known by a    *)
(* number that is not used again. The event ring is the queue EventRing    *)
(* implements, until a check that an error event ended leaves it such that *)
(* no event is seen any more (EventRing, NewEventsVisible).                *)
(***************************************************************************)
EXTENDS Integers, SequencesExt

CONSTANTS
  Endpoints,           \* interrupt endpoints
  Cells,               \* pool memory for URBs
  CallbackResubmits,   \* whether callbacks may remove and submit transfers
  MaxTds,              \* bound: TRBs written
  None                 \* no cell: the list head

ASSUME AsyncAssumption ==
  /\ None \notin Cells \cup Endpoints
  /\ MaxTds \in Nat
  /\ CallbackResubmits \subseteq BOOLEAN

VARIABLES
  resubmits,  \* whether the callbacks of this run do so
  list,       \* Xhc->AsyncIntTransfers, from the head
  cell,       \* what each cell holds
  enabled,    \* endpoints whose device has a slot
  accepted,   \* endpoints whose driver was told EFI_SUCCESS for a new transfer
  ring,       \* endpoint: TRBs the controller has not finished
  halted,     \* controller: endpoints that halted
  evts,       \* events posted and not taken
  deaf,       \* the scan of a check that ended early had passed the end of the event ring
  tds,        \* TRBs written so far
  pc,         \* where XhcMonitorAsyncRequests is
  cursor,     \* Entry, the cell of the URB it looks at
  next,       \* Next
  caller,     \* the endpoint whose callback runs
  called,     \* endpoints whose callback was called in this round
  reported,   \* history: TRBs reported to a callback without error
  dropped,    \* history: TRBs whose data the driver ignored, or that were removed
  astray      \* history: a callback of this round removed the URB that comes next

listVars == <<list, cell>>
deviceVars == <<enabled, accepted>>
hcVars == <<ring, halted, evts, deaf>>
monitorVars == <<pc, cursor, next, caller, called>>
historyVars == <<reported, dropped, astray>>
vars == <<resubmits, listVars, deviceVars, hcVars, tds, monitorVars, historyVars>>

Listed == Range(list)

Unused == [used |-> FALSE, ep |-> None, td |-> 0, finished |-> FALSE, error |-> FALSE]
Submitted(e, n) == [used |-> TRUE, ep |-> e, td |-> n, finished |-> FALSE, error |-> FALSE]

(* The cell after c on the list: its ForwardLink.                          *)
Forward(c) ==
  LET after == {i \in 1 .. Len(list) : i > 1 /\ list[i - 1] = c}
  IN  IF after = {} THEN None ELSE list[CHOOSE i \in after : TRUE]

OnRing(c) == cell[c].td \in Range(ring[cell[c].ep])
HasEvent(c) == \E event \in Range(evts) : event.td = cell[c].td

(* The bound on TRBs, kept such that the monitor can always write its own. *)
BoundLeft == tds + Cardinality({c \in Listed : ~OnRing(c)}) < MaxTds

FirstEntry == IF list = << >> THEN None ELSE list[1]

-----------------------------------------------------------------------------
Init ==
  /\ resubmits \in CallbackResubmits
  /\ list = << >>
  /\ cell = [c \in Cells |-> Unused]
  /\ enabled = Endpoints /\ accepted = {}
  /\ ring = [e \in Endpoints |-> << >>] /\ halted = {} /\ evts = << >> /\ deaf = FALSE
  /\ tds = 0
  /\ pc = "rest" /\ cursor = None /\ next = None /\ caller = None /\ called = {}
  /\ reported = {} /\ dropped = {} /\ astray = FALSE

-----------------------------------------------------------------------------
(* XhcCheckUrbResult, for the URBs on the list. It stops at the first      *)
(* event that is an error of one of them.                                  *)

UrbOf(event) == {c \in Listed : cell[c].td = event.td}

FirstError ==
  {i \in 1 .. Len(evts) : evts[i].error /\ UrbOf(evts[i]) # {}}

(* Mutant: events of the other URBs on the list are thrown away.           *)
CheckedUpToCursor(n) ==
  [c \in Cells |->
     IF c = cursor /\ \E i \in 1 .. n : evts[i].td = cell[c].td
     THEN LET i == CHOOSE i \in 1 .. n : evts[i].td = cell[c].td
          IN  [cell[c] EXCEPT !.finished = TRUE, !.error = evts[i].error]
     ELSE cell[c]]

CheckedUpTo(n) ==
  [c \in Cells |->
     IF c \in Listed /\ \E i \in 1 .. n : evts[i].td = cell[c].td
     THEN LET i == CHOOSE i \in 1 .. n : evts[i].td = cell[c].td
          IN  [cell[c] EXCEPT !.finished = TRUE, !.error = evts[i].error]
     ELSE cell[c]]

(* The first n events are taken. When events are left, the scan may have   *)
(* passed the end of the ring, which toggled EventRingCCS, and the dequeue *)
(* pointer not: then no event is new to the driver any more.               *)
Take(n) ==
  /\ cell' = CheckedUpTo(n)
  /\ evts' = SubSeq(evts, n + 1, Len(evts))
  /\ deaf' \in IF n < Len(evts) THEN BOOLEAN ELSE {FALSE}

XhcCheckUrbResult ==
  IF deaf THEN UNCHANGED <<cell, evts, deaf>>
  ELSE Take(IF FirstError = {} THEN Len(evts) ELSE Min(FirstError))

(* The polls of a synchronous transfer, or of a command, handle the events *)
(* of the URBs on the list as well. They end at an error of their own too, *)
(* which may be anywhere between those events.                             *)
OtherUrbIsPolled ==
  /\ pc \in {"rest", "callback"}
  /\ evts # << >> /\ ~deaf
  /\ \E n \in 0 .. Len(evts) : Take(n)
  /\ UNCHANGED <<resubmits, list, deviceVars, ring, halted, tds, monitorVars, historyVars>>

-----------------------------------------------------------------------------
(* XhcAsyncInterruptTransfer.                                              *)

(* The TPL is restored for the callback: it may call for any transfer.     *)
MayCall == pc = "rest" \/ (pc = "callback" /\ resubmits)

Of(e) == {i \in 1 .. Len(list) : cell[list[i]].ep = e}

(* "New asynchronous transfer must inserted to the head."                  *)
InsertHeadList(c) == <<c>> \o list

(* A new transfer goes to the head of the list. Without a slot for the     *)
(* device nothing is submitted; the status is EFI_SUCCESS all the same.    *)
SubmitTransfer(e) ==
  /\ MayCall
  /\ e \notin accepted
  /\ accepted' = accepted \cup {e}
  /\ IF e \in enabled
     THEN /\ BoundLeft
          /\ tds' = tds + 1
          /\ \E c \in {c \in Cells : ~cell[c].used} :
               /\ cell' = [cell EXCEPT ![c] = Submitted(e, tds')]
               /\ list' = InsertHeadList(c)
          /\ ring' = [ring EXCEPT ![e] = Append(@, tds')]
     ELSE UNCHANGED <<tds, listVars, ring>>
  /\ UNCHANGED <<resubmits, enabled, halted, evts, deaf, monitorVars, historyVars>>

RemoveEntryList(i) == RemoveAt(list, i)

(* XhcDequeueTrbFromEndpoint polls for the answers to its commands and so  *)
(* takes the first n events: all, unless an error event leaves the driver  *)
(* deaf. The error may be of a URB on the list or, as stopping a halted    *)
(* endpoint fails, the answer itself.                                      *)
CommandIsPolled(e, n) ==
  IF e \notin enabled \/ deaf THEN n = 0 /\ UNCHANGED deaf
  ELSE /\ n = Len(evts) \/ n \in FirstError \/ e \in halted
       /\ deaf' = (n < Len(evts))

(* XhciDelAsyncIntTransfer: XhcDequeueTrbFromEndpoint, then the URB is     *)
(* freed. Nothing is skipped on the ring when stopping the endpoint fails, *)
(* or its answer is not seen; a URB that finished leaves nothing to skip.  *)
DeleteTransfer(e) ==
  /\ MayCall
  /\ e \in accepted
  /\ accepted' = accepted \ {e}
  /\ IF Of(e) = {}
     THEN UNCHANGED <<listVars, ring, evts, deaf, dropped, astray>>
     ELSE LET i == Min(Of(e))
              c == list[i]
          IN  \E n \in 0 .. Len(evts) :
                /\ CommandIsPolled(e, n)
                /\ list' = RemoveEntryList(i)
                /\ cell' = [CheckedUpTo(n) EXCEPT ![c].used = FALSE]
                /\ evts' = SubSeq(evts, n + 1, Len(evts))
                /\ ring' = IF e \in enabled \ halted /\ ~deaf' THEN [ring EXCEPT ![e] = << >>] ELSE ring
                /\ dropped' = dropped \cup {cell[c].td}
                /\ astray' = (astray \/ (pc = "callback" /\ c = next))
  /\ UNCHANGED <<resubmits, enabled, halted, tds, monitorVars, reported>>

(* The device is unplugged: its slot is disabled, its ring freed, unless   *)
(* the answer to the command is not seen. The URBs stay on the list until  *)
(* the device driver removes them.                                         *)
Detach(e) ==
  /\ pc \in {"rest", "callback"}
  /\ e \in enabled /\ ~deaf
  /\ enabled' = enabled \ {e}
  /\ ring' = [ring EXCEPT ![e] = << >>]
  /\ dropped' = dropped \cup {cell[list[i]].td : i \in Of(e)}
  /\ UNCHANGED <<resubmits, listVars, accepted, halted, evts, deaf, tds, monitorVars, reported, astray>>

-----------------------------------------------------------------------------
(* XhcMonitorAsyncRequests.                                                *)

BeginRound ==
  /\ pc = "rest"
  /\ pc' = "visit"
  /\ cursor' = FirstEntry
  /\ called' = {} /\ astray' = FALSE
  /\ UNCHANGED <<resubmits, listVars, deviceVars, hcVars, tds, next, caller, reported, dropped>>

EndRound ==
  /\ pc = "visit" /\ cursor = None
  /\ pc' = "rest"
  /\ UNCHANGED <<resubmits, listVars, deviceVars, hcVars, tds, cursor, next, caller, called, historyVars>>

(* BASE_LIST_FOR_EACH_SAFE reads the ForwardLink before the body; the URB  *)
(* is checked unless its device is gone or it finished before. A callback  *)
(* may have freed the URB the monitor has come to: what is read in its     *)
(* memory, ForwardLink and Finished, is anything.                          *)
Check ==
  /\ pc = "visit" /\ cursor # None
  /\ next' \in IF cell[cursor].used THEN {Forward(cursor)} ELSE Cells \cup {None}
  /\ IF cell[cursor].ep \in enabled /\ ~cell[cursor].finished
     THEN XhcCheckUrbResult
     ELSE UNCHANGED <<cell, evts, deaf>>
  /\ \/ pc' = "finished" /\ cell[cursor].ep \in enabled /\ (cell'[cursor].finished \/ ~cell[cursor].used)
     \/ pc' = "advance" /\ ~(cell[cursor].used /\ cell[cursor].ep \in enabled /\ cell'[cursor].finished)
  /\ UNCHANGED <<resubmits, list, deviceVars, ring, halted, tds, cursor, caller, called, historyVars>>

(* No memory for a copy of the data: they are ignored.                     *)
DropData ==
  /\ pc = "finished" /\ ~cell[cursor].error
  /\ dropped' = dropped \cup {cell[cursor].td}
  /\ pc' = "update"
  /\ UNCHANGED <<resubmits, listVars, deviceVars, hcVars, tds, cursor, next, caller, called, reported, astray>>

Callback ==
  /\ pc = "finished"
  /\ reported' = IF cell[cursor].error THEN reported ELSE reported \cup {cell[cursor].td}
  /\ caller' = cell[cursor].ep
  /\ called' = called \cup {caller'}
  /\ pc' = "callback"
  /\ UNCHANGED <<resubmits, listVars, deviceVars, hcVars, tds, cursor, next, dropped, astray>>

CallbackReturns ==
  /\ pc = "callback"
  /\ pc' = "update"
  /\ UNCHANGED <<resubmits, listVars, deviceVars, hcVars, tds, cursor, next, caller, called, historyVars>>

(* Mutants: only a URB with an error is submitted again; the TRB is not    *)
(* written.                                                                *)
ResubmitsErrors(error) == error /\ cell[cursor].ep \in enabled
RingWithoutTrb(n) == ring

Resubmits(error) == ~error /\ cell[cursor].ep \in enabled

RingWithTrb(n) == [ring EXCEPT ![cell[cursor].ep] = Append(@, n)]

(* XhcUpdateAsyncRequest: a URB without error is submitted again. If the   *)
(* callback removed the URB this reads, and writes, what is in its memory  *)
(* now: nobody's, or another URB.                                          *)
Update ==
  /\ pc = "update"
  /\ \E error \in IF cell[cursor].used THEN {cell[cursor].error} ELSE BOOLEAN :
       IF Resubmits(error)
       THEN /\ tds < MaxTds
            /\ tds' = tds + 1
            /\ cell' = [cell EXCEPT ![cursor].td = tds', ![cursor].finished = FALSE,
                                    ![cursor].error = FALSE]
            /\ ring' = RingWithTrb(tds')
       ELSE UNCHANGED <<tds, cell, ring>>
  /\ pc' = "advance"
  /\ UNCHANGED <<resubmits, list, deviceVars, halted, evts, deaf, cursor, next, caller, called, historyVars>>

Advance ==
  /\ pc = "advance"
  /\ cursor' = next
  /\ pc' = "visit"
  /\ UNCHANGED <<resubmits, listVars, deviceVars, hcVars, tds, next, caller, called, historyVars>>

-----------------------------------------------------------------------------
(* The controller and the device behind it.                                *)
HcFinishes(e, error) ==
  /\ e \in enabled \ halted
  /\ ring[e] # << >>
  /\ error \/ BoundLeft
  /\ evts' = Append(evts, [td |-> Head(ring[e]), error |-> error])
  /\ halted' = IF error THEN halted \cup {e} ELSE halted
  /\ ring' = IF error THEN ring ELSE [ring EXCEPT ![e] = Tail(@)]
  /\ UNCHANGED <<resubmits, listVars, deviceVars, deaf, tds, monitorVars, historyVars>>

Monitor ==
  \/ BeginRound \/ EndRound \/ Check \/ DropData \/ Callback \/ CallbackReturns
  \/ Update \/ Advance

Next ==
  \/ OtherUrbIsPolled
  \/ \E e \in Endpoints : SubmitTransfer(e) \/ DeleteTransfer(e) \/ Detach(e)
  \/ Monitor
  \/ \E e \in Endpoints, error \in BOOLEAN : HcFinishes(e, error)

Spec == Init /\ [][Next]_vars

(* The poll timer is periodic, and callbacks return.                       *)
FairSpec == Spec /\ WF_vars(Monitor)

-----------------------------------------------------------------------------
(* Properties.                                                             *)

TypeOK ==
  /\ Listed \subseteq Cells /\ IsInjective(list)
  /\ \A c \in Cells : cell[c].td \in 0 .. tds /\ cell[c].ep \in Endpoints \cup {None}
  /\ enabled \subseteq Endpoints /\ accepted \subseteq Endpoints /\ halted \subseteq Endpoints
  /\ \A e \in Endpoints : Range(ring[e]) \subseteq 1 .. tds
  /\ {event.td : event \in Range(evts)} \subseteq 1 .. tds
  /\ tds \in 0 .. MaxTds
  /\ pc \in {"rest", "visit", "finished", "callback", "update", "advance"}
  /\ {cursor, next} \subseteq Cells \cup {None}
  /\ caller \in Endpoints \cup {None} /\ called \subseteq Endpoints
  /\ reported \subseteq 1 .. tds /\ dropped \subseteq 0 .. tds

(* A URB of a device that is there is always waiting for exactly one       *)
(* thing: the controller, the driver taking its event, or the monitor.     *)
(* None is forgotten, none is submitted twice. This is said of callbacks   *)
(* that leave the URBs alone: after one that removes its own the monitor   *)
(* goes on with the cell the URB was in (UrbStillThere), whoever has it    *)
(* now. A driver that is deaf takes no event, and no answer to a command.  *)
NoUrbLost ==
  ~resubmits /\ ~deaf => \A c \in Listed :
    LET e == cell[c].ep IN
    e \in enabled =>
      /\ cell[c].finished \/ OnRing(c) \/ HasEvent(c)
      /\ cell[c].finished => ~HasEvent(c)
      /\ e \notin halted => Len(ring[e]) <= 1 /\ ~(cell[c].finished /\ OnRing(c))

AsyncInvariant == TypeOK /\ NoUrbLost

(* The data of a TRB are reported once. In a round the callback of an      *)
(* endpoint is called once, whatever the callbacks remove and submit, but  *)
(* for a round in which one removed the URB that comes next.               *)
ReportedOnce ==
  [][pc = "finished" /\ pc' = "callback" =>
       /\ ~astray => cell[cursor].ep \notin called
       /\ ~resubmits /\ ~deaf /\ ~cell[cursor].error => cell[cursor].td \notin reported]_vars

(* "Don't touch this URB after the callback, it may have been removed by   *)
(* the callback": the cell XhcUpdateAsyncRequest works on holds the URB    *)
(* whose callback was called.                                              *)
UrbStillThere ==
  pc = "update" => cursor \in Listed /\ cell[cursor].finished

(* What the device sent reaches the callback, whichever poll takes the     *)
(* event, unless the transfer is removed, memory runs out, or a check that *)
(* an error event ended made the driver deaf.                              *)
DataAreReported ==
  [](~resubmits /\ ~deaf) => \A n \in 1 .. MaxTds :
    ([td |-> n, error |-> FALSE] \in Range(evts)) ~> (n \in reported \cup dropped)
=============================================================================
