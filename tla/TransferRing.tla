---------------------------- MODULE TransferRing ----------------------------
(***************************************************************************)
(* One TRB ring the driver writes and the host controller reads: the       *)
(* transfer ring of an endpoint, or the command ring.                      *)
(*                                                                         *)
(* Ownership of a TRB is one bit. The driver keeps its position            *)
(* (RingEnqueue) and its Producer Cycle State (RingPCS); the controller    *)
(* keeps its own dequeue pointer and cycle state and runs TRBs as long as  *)
(* their cycle bit matches. The last TRB is a Link TRB with Toggle Cycle   *)
(* set. The controller runs between any two steps of the driver.           *)
(***************************************************************************)
EXTENDS Sequences, FiniteSetsExt

CONSTANTS
  TrbNumber,   \* TRBs of the ring, the Link TRB included
  MaxTrbNum,   \* most TRBs one URB is split into
  Payload,     \* what a TRB asks the controller to do
  Zeroed       \* the content of a cleared TRB

ASSUME RingAssumption ==
  /\ TrbNumber \in Nat /\ TrbNumber >= 3
  /\ MaxTrbNum \in Nat \ {0}
  /\ Zeroed \notin Payload

Link == TrbNumber - 1        \* index of the Link TRB
Slots == 0 .. (Link - 1)     \* indexes of the TRBs that carry work

VARIABLES
  kind,        \* the ring of an endpoint ("transfer") or of commands ("command")
  cycle,       \* the cycle bit of each TRB
  data,        \* the content of each TRB but the Link TRB
  enqueue,     \* TRANSFER_RING.RingEnqueue
  pcs,         \* TRANSFER_RING.RingPCS
  written,     \* the TRB at RingEnqueue is written, the ring not yet synced
  step,        \* where the driver is in the operation on this ring
  left,        \* TRBs of the current URB still to write
  dequeue,     \* controller: TR Dequeue Pointer
  ccs,         \* controller: Consumer Cycle State
  ep,          \* controller: endpoint state (command ring: ring state)
  last         \* controller: the TRB run last

ringVars == <<cycle, data>>
driverVars == <<enqueue, pcs, written, step, left>>
hcVars == <<dequeue, ccs, ep, last>>
vars == <<kind, ringVars, driverVars, hcVars>>

IsCmdRing == kind = "command"

Bit == {0, 1}
Steps == {"idle", "sync", "write", "stamp", "doorbell", "poll",
          "stop", "reset", "set_dequeue", "restart"}
EpStates == {"Running", "Stopped", "Halted"}

-----------------------------------------------------------------------------
(* The TRBs handed to the controller that it has not run, in ring order.   *)

Tip == IF written THEN enqueue + 1 ELSE enqueue

Outstanding ==
  IF ccs = pcs THEN Tip - dequeue ELSE (Link - dequeue) + Tip

Wrap(i) == IF i < Link THEN i ELSE i - Link

Contents == [n \in 1 .. Outstanding |-> data[Wrap(dequeue + n - 1)]]

(* What a caller owes the ring. The driver never looks for room: that one   *)
(* URB is in flight per endpoint, of fewer TRBs than the ring has, is what  *)
(* keeps RingEnqueue from catching up with the controller.                  *)
HasRoom(k) == Outstanding + k < Link

-----------------------------------------------------------------------------
(* CreateTransferRing, on a zeroed buffer, and the endpoint context that   *)
(* points the controller at it.                                            *)

Init ==
  /\ kind \in {"transfer", "command"}
  /\ cycle = [i \in 0 .. Link |-> 0]
  /\ data = [i \in Slots |-> Zeroed]
  /\ enqueue = 0
  /\ pcs = 1
  /\ written = FALSE
  /\ step = "idle"
  /\ left = 0
  /\ dequeue = 0
  /\ ccs = 1
  /\ ep = "Stopped"
  /\ last = Zeroed

-----------------------------------------------------------------------------
(* The driver.                                                             *)

(* XhcCreateTransferTrb, XhcCreateCmdTrb: a new URB of k TRBs.             *)
BeginUrb(k) ==
  /\ step = "idle"
  /\ HasRoom(k)
  /\ step' = "sync"
  /\ left' = k
  /\ UNCHANGED <<kind, ringVars, enqueue, pcs, written, hcVars>>

(* The walk of XhcSyncTrsRing from RingEnqueue over every TRB that carries *)
(* the producer's cycle bit: it ends before the Link TRB, or passes the    *)
(* Link TRB once, hands it over and goes on with the bit toggled.          *)
FreeAhead == {i \in enqueue .. (Link - 1) : cycle[i] # pcs}
FreeAfterLink == {i \in Slots : cycle[i] # 1 - pcs}

(* Mutant: the producer's bit is not toggled at the Link TRB.              *)
SyncTrsRingKeepsPcs ==
  /\ IF FreeAhead # {}
     THEN enqueue' = Min(FreeAhead) /\ UNCHANGED cycle
     ELSE /\ enqueue' = Min(FreeAfterLink)
          /\ cycle' = [cycle EXCEPT ![Link] = pcs]
  /\ data' = [data EXCEPT ![enqueue'] = Zeroed]
  /\ written' = FALSE
  /\ UNCHANGED pcs

(* Mutant: the Link TRB is passed but not handed over.                     *)
SyncTrsRingKeepsLink ==
  /\ IF FreeAhead # {}
     THEN enqueue' = Min(FreeAhead) /\ UNCHANGED pcs
     ELSE enqueue' = Min(FreeAfterLink) /\ pcs' = 1 - pcs
  /\ data' = [data EXCEPT ![enqueue'] = Zeroed]
  /\ written' = FALSE
  /\ UNCHANGED cycle

SyncTrsRing ==
  /\ IF FreeAhead # {}
     THEN /\ enqueue' = Min(FreeAhead)
          /\ UNCHANGED <<pcs, cycle>>
     ELSE /\ enqueue' = Min(FreeAfterLink)
          /\ pcs' = 1 - pcs
          /\ cycle' = [cycle EXCEPT ![Link] = pcs]
  /\ data' = [data EXCEPT ![enqueue'] = Zeroed]
  /\ written' = FALSE

Sync ==
  /\ step = "sync"
  /\ SyncTrsRing
  /\ step' = IF left > 0 THEN "write" ELSE "doorbell"
  /\ UNCHANGED <<kind, left, hcVars>>

(* XhcCreateTransferTrb fills the TRB at RingEnqueue and stores its cycle  *)
(* bit last.                                                               *)
WriteTrb(d) ==
  /\ ~IsCmdRing
  /\ step = "write"
  /\ data' = [data EXCEPT ![enqueue] = d]
  /\ cycle' = [cycle EXCEPT ![enqueue] = pcs]
  /\ written' = TRUE
  /\ left' = left - 1
  /\ step' = "sync"
  /\ UNCHANGED <<kind, enqueue, pcs, hcVars>>

(* XhcCreateCmdTrb copies a template whose cycle bit is 1, whatever the    *)
(* producer's, and then stores the producer's. On a lap whose bit is 1 the *)
(* copy already hands the TRB over. The ring is not synced after it: the   *)
(* sync of the next command steps over this TRB.                           *)
CopyCmdTrb(d) ==
  /\ IsCmdRing
  /\ step = "write"
  /\ data' = [data EXCEPT ![enqueue] = d]
  /\ cycle' = [cycle EXCEPT ![enqueue] = 1]
  /\ written' = (pcs = 1)
  /\ left' = IF pcs = 1 THEN left - 1 ELSE left
  /\ step' = "stamp"
  /\ UNCHANGED <<kind, enqueue, pcs, hcVars>>

StampCmdTrb ==
  /\ step = "stamp"
  /\ cycle' = [cycle EXCEPT ![enqueue] = pcs]
  /\ written' = TRUE
  /\ left' = 0
  /\ step' = "doorbell"
  /\ UNCHANGED <<kind, data, enqueue, pcs, hcVars>>

(* XhcRingDoorBell, from XhcExecTransfer or RingIntTransferDoorBell.       *)
RingDoorBell ==
  /\ step \in {"doorbell", "restart"}
  /\ step' = IF step = "doorbell" THEN "poll" ELSE "idle"
  /\ ep' = IF ep = "Stopped" THEN "Running" ELSE ep
  /\ UNCHANGED <<kind, ringVars, enqueue, pcs, written, left, dequeue, ccs, last>>

(* The poll loop of XhcExecTransfer ends, or an asynchronous transfer is   *)
(* left on the ring and the caller gets its TPL back.                      *)
LeavePoll ==
  /\ step = "poll"
  /\ step' = "idle"
  /\ UNCHANGED <<kind, ringVars, enqueue, pcs, written, left, hcVars>>

(* XhcDequeueTrbFromEndpoint after a timeout or for a transfer that is     *)
(* removed, XhcRecoverHaltedEndpoint after an error. Commands are not      *)
(* recovered: nothing stops a command that timed out.                      *)
BeginDequeue ==
  /\ ~IsCmdRing
  /\ step \in {"idle", "poll"}
  /\ step' = "stop"
  /\ UNCHANGED <<kind, ringVars, enqueue, pcs, written, left, hcVars>>

BeginRecovery ==
  /\ ~IsCmdRing
  /\ step = "poll"
  /\ ep = "Halted"
  /\ step' = "reset"
  /\ UNCHANGED <<kind, ringVars, enqueue, pcs, written, left, hcVars>>

(* Stop Endpoint completes only on a running endpoint, Reset Endpoint only *)
(* on a halted one. A command that fails abandons the recovery with the    *)
(* TRBs still on the ring.                                                 *)
StopEndpoint ==
  /\ step = "stop"
  /\ ep # "Halted"
  /\ ep' = "Stopped"
  /\ step' = "set_dequeue"
  /\ UNCHANGED <<kind, ringVars, enqueue, pcs, written, left, dequeue, ccs, last>>

ResetEndpoint ==
  /\ step = "reset"
  /\ ep = "Halted"
  /\ ep' = "Stopped"
  /\ step' = "set_dequeue"
  /\ UNCHANGED <<kind, ringVars, enqueue, pcs, written, left, dequeue, ccs, last>>

RecoveryFails ==
  /\ step \in {"stop", "reset", "set_dequeue"}
  /\ step' = "idle"
  /\ UNCHANGED <<kind, ringVars, enqueue, pcs, written, left, hcVars>>

(* Mutant: the command carries the pointer without RingPCS.                *)
SetTrDequeuePointerOnly ==
  /\ step = "set_dequeue"
  /\ dequeue' = enqueue
  /\ step' = "restart"
  /\ UNCHANGED <<kind, ringVars, enqueue, pcs, written, left, ccs, ep, last>>

(* XhcSetTrDequeuePointer moves the controller to RingEnqueue and RingPCS: *)
(* every TRB it had not run is dropped.                                    *)
SetTrDequeuePointer ==
  /\ step = "set_dequeue"
  /\ dequeue' = enqueue
  /\ ccs' = pcs
  /\ step' = "restart"
  /\ UNCHANGED <<kind, ringVars, enqueue, pcs, written, left, ep, last>>

(* The pending URB turned out finished: restart without moving the pointer.*)
KeepDequeuePointer ==
  /\ step = "set_dequeue"
  /\ step' = "restart"
  /\ UNCHANGED <<kind, ringVars, enqueue, pcs, written, left, hcVars>>

-----------------------------------------------------------------------------
(* The controller.                                                         *)

Owned == cycle[dequeue] = ccs

(* Runs the TRB at its dequeue pointer.                                    *)
HcRun ==
  /\ ep = "Running"
  /\ dequeue # Link
  /\ Owned
  /\ last' = data[dequeue]
  /\ dequeue' = dequeue + 1
  /\ UNCHANGED <<kind, ringVars, driverVars, ccs, ep>>

(* Follows the Link TRB, toggling its cycle state (TC = 1).                *)
HcFollowLink ==
  /\ ep = "Running"
  /\ dequeue = Link
  /\ Owned
  /\ dequeue' = 0
  /\ ccs' = 1 - ccs
  /\ UNCHANGED <<kind, ringVars, driverVars, ep, last>>

(* A TRB fails: the endpoint halts on it.                                  *)
HcHalt ==
  /\ ~IsCmdRing
  /\ ep = "Running"
  /\ dequeue # Link
  /\ Owned
  /\ ep' = "Halted"
  /\ UNCHANGED <<kind, ringVars, driverVars, dequeue, ccs, last>>

-----------------------------------------------------------------------------
Hc == HcRun \/ HcFollowLink \/ HcHalt

Driver ==
  \/ \E k \in 1 .. (IF IsCmdRing THEN 1 ELSE MaxTrbNum) : BeginUrb(k)
  \/ Sync
  \/ \E d \in Payload : WriteTrb(d) \/ CopyCmdTrb(d)
  \/ StampCmdTrb
  \/ RingDoorBell
  \/ LeavePoll
  \/ BeginDequeue
  \/ BeginRecovery
  \/ StopEndpoint
  \/ ResetEndpoint
  \/ RecoveryFails
  \/ SetTrDequeuePointer
  \/ KeepDequeuePointer

Next == Driver \/ Hc

Spec == Init /\ [][Next]_vars

(* The driver is straight-line code between two doorbells; a controller    *)
(* that is running fetches what it owns. An endpoint may answer NAK for as *)
(* long as it likes, the command ring has no such excuse.                  *)
Fairness ==
  /\ WF_vars(Sync)
  /\ WF_vars(\E d \in Payload : WriteTrb(d) \/ CopyCmdTrb(d))
  /\ WF_vars(StampCmdTrb)
  /\ WF_vars(RingDoorBell)
  /\ WF_vars(IsCmdRing /\ HcRun)
  /\ WF_vars(IsCmdRing /\ HcFollowLink)

FairSpec == Spec /\ Fairness

-----------------------------------------------------------------------------
(* Properties.                                                             *)

TypeOK ==
  /\ cycle \in [0 .. Link -> Bit]
  /\ data \in [Slots -> Payload \cup {Zeroed}]
  /\ enqueue \in Slots
  /\ pcs \in Bit
  /\ written \in BOOLEAN
  /\ step \in Steps
  /\ left \in 0 .. MaxTrbNum
  /\ dequeue \in 0 .. Link
  /\ ccs \in Bit
  /\ ep \in EpStates
  /\ last \in Payload \cup {Zeroed}

(* The TRBs that carry the producer's cycle bit are those before the tip,  *)
(* the Link TRB never among them once the driver is back on its lap: this  *)
(* is what lets one bit say who owns a TRB.                                *)
CycleOwnership ==
  \A i \in 0 .. Link : (cycle[i] = pcs) <=> (i < Tip)

(* The tip never reaches the controller from behind, even with the TRBs    *)
(* still to be written, so that the TRB XhcSyncTrsRing clears is free.     *)
NoCatchUp ==
  /\ Outstanding >= 0
  /\ Outstanding + left < Link

(* Every TRB the controller may run is completely written.                 *)
Complete ==
  \A n \in 1 .. Outstanding : data[Wrap(dequeue + n - 1)] \in Payload

(* Where the driver is agrees with what it has written.                    *)
StepDiscipline ==
  /\ step = "write" => ~written /\ left > 0
  /\ step = "stamp" =>
       /\ IsCmdRing
       /\ data[enqueue] \in Payload
       /\ IF written THEN pcs = 1 ELSE left > 0
  /\ written => (IsCmdRing \/ step = "sync")
  /\ step \in {"stop", "reset", "set_dequeue"} => ~IsCmdRing

(* The inductive invariant of the ring.                                    *)
RingInvariant ==
  /\ TypeOK
  /\ CycleOwnership
  /\ NoCatchUp
  /\ Complete
  /\ StepDiscipline

(* The controller runs exactly the TRBs the driver wrote, each once, whole *)
(* and in order, across any number of wraps, stops, halts and restarts;    *)
(* only XhcSetTrDequeuePointer makes it skip some.                         *)
Queue == INSTANCE TrbQueue WITH queue <- Contents, None <- Zeroed

ImplementsQueue == Queue!Spec

(* A command ring with work on it is never stuck: the controller goes on   *)
(* running commands, past the Link TRB and back.                           *)
CommandsKeepRunning ==
  IsCmdRing => (<>[](Contents # << >>) => []<><<HcRun>>_vars)
=============================================================================
