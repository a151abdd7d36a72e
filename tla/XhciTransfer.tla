---------------------------- MODULE XhciTransfer ----------------------------
(***************************************************************************)
(* A synchronous USB transfer of the XHCI driver, from the call to the     *)
(* return: the URB is put on the endpoint's ring and polled for, a         *)
(* transfer that timed out is taken off the ring again, an endpoint that   *)
(* halted is reset. Taking off and resetting are commands, each polled for *)
(* in the same way on a ring of its own, and may time out themselves. The  *)
(* controller runs beside the driver, at its own pace.                     *)
(*                                                                         *)
(* The rings are the queues TransferRing and EventRing implement. A URB is *)
(* known by a number that is not used again.                               *)
(***************************************************************************)
EXTENDS Naturals, FiniteSets, SequencesExt

CONSTANTS
  MaxTransfers,   \* bound: calls made
  MaxTrbNum,      \* bound: TRBs of one transfer
  MaxRounds,      \* rounds of the poll loop before it gives up
  Errors,         \* how a TRB can fail: "stall" (and babble), "other" (transaction
                  \* error and every code XhcCheckUrbResult does not know)
  HcMayDie        \* TRUE: the controller may halt on a system error

ASSUME TransferAssumption ==
  /\ MaxTransfers \in Nat /\ MaxTrbNum \in Nat \ {0} /\ MaxRounds \in Nat \ {0}
  /\ Errors \subseteq {"stall", "other"}
  /\ HcMayDie \in BOOLEAN

VARIABLES
  tds,         \* TRBs on the transfer ring the controller has not finished
  cmds,        \* commands on the command ring it has not executed
  evts,        \* events on the event ring the driver has not taken
  ep,          \* controller: state of the endpoint
  dead,        \* controller: halted (USBSTS.HCH or HSE)
  urb,         \* the URB of the transfer
  cmd,         \* the URB of the command
  pendingUrb,  \* Xhc->PendingUrb # NULL (it is the URB of the transfer)
  exec,        \* what XhcExecTransfer executes
  pc,          \* where it is
  seen,        \* events the sync of the event ring found, not handled yet
  rounds,      \* Index of the poll loop
  status,      \* Status of XhcTransfer
  calls,       \* transfers submitted so far
  issued,      \* commands issued so far
  done,        \* history: the TRBs the device has executed
  staleRun,    \* history: the controller ran a TRB of a transfer that had returned
  lost,        \* history: a TRB failed with an error that is not recovered
  failures     \* history: commands that got no answer in time

ringVars == <<tds, cmds, evts>>
hcVars == <<ep, dead, done, staleRun, lost>>
driverVars == <<urb, cmd, pendingUrb, exec, pc, seen, rounds, status, calls, issued, failures>>
vars == <<ringVars, hcVars, driverVars>>

Commands == {"stop", "reset", "set_dequeue"}
Executed == {"transfer"} \cup Commands
EpStates == {"Running", "Stopped", "Halted"}
Statuses == {"SUCCESS", "TIMEOUT", "DEVICE_ERROR"}
Results == SUBSET {"STALL", "TIMEOUT", "SYSTEM"}      \* {}: EFI_USB_NOERROR

NewUrb(id, num) ==
  [id |-> id, num |-> num, start |-> FALSE, end |-> FALSE, finished |-> FALSE, result |-> {}]

Trb(id, pos) == [id |-> id, pos |-> pos]

Trbs == [id : 1 .. MaxTransfers, pos : 1 .. MaxTrbNum]

TransferEvent(t, code) == [of |-> "transfer", trb |-> t, code |-> code]
CommandEvent(n, code) == [of |-> "command", trb |-> Trb(n, 1), code |-> code]

-----------------------------------------------------------------------------
Init ==
  /\ tds = << >> /\ cmds = << >> /\ evts = << >>
  /\ ep = "Running" /\ dead = FALSE
  /\ urb = NewUrb(0, 0) /\ cmd = NewUrb(0, 0)
  /\ pendingUrb = FALSE
  /\ exec = "transfer" /\ pc = "idle"
  /\ seen = 0 /\ rounds = 0
  /\ status = "SUCCESS"
  /\ calls = 0 /\ issued = 0
  /\ done = {} /\ staleRun = FALSE /\ lost = FALSE /\ failures = 0

(* XhcRingDoorBell: a stopped endpoint runs again, a halted one does not.  *)
DoorBell == ep' = IF ep = "Stopped" /\ ~dead THEN "Running" ELSE ep

-----------------------------------------------------------------------------
(* XhcTransfer up to the poll loop of XhcExecTransfer: XhcCreateUrb and    *)
(* the doorbell. XhcBulkTransfer and its kin refuse a halted controller.   *)
XhcTransfer(num) ==
  /\ pc = "idle" /\ ~dead
  /\ calls < MaxTransfers
  /\ calls' = calls + 1
  /\ urb' = NewUrb(calls', num)
  /\ tds' = tds \o [i \in 1 .. num |-> Trb(calls', i)]
  /\ DoorBell
  /\ exec' = "transfer" /\ pc' = "check" /\ rounds' = 0
  /\ UNCHANGED <<cmds, evts, dead, done, staleRun, lost, cmd, pendingUrb, seen, status, issued, failures>>

(* XhcCmdTransfer up to the poll loop. A halted controller gets nothing.   *)
XhcCmdTransfer(kind) ==
  /\ exec' = kind
  /\ rounds' = 0
  /\ IF dead
     THEN /\ pc' = "failed"
          /\ UNCHANGED <<issued, cmd, cmds>>
     ELSE /\ pc' = "check"
          /\ issued' = issued + 1
          /\ cmd' = NewUrb(issued', 1)
          /\ cmds' = Append(cmds, [id |-> issued', kind |-> kind, upto |-> calls])

-----------------------------------------------------------------------------
(* XhcCheckUrbResult. *)

Current == IF exec = "transfer" THEN urb ELSE cmd

(* The controller is alive: the event ring is synced.                      *)
BeginCheck ==
  /\ pc = "check" /\ ~dead
  /\ seen' = Len(evts)
  /\ pc' = "handle"
  /\ UNCHANGED <<ringVars, hcVars, urb, cmd, pendingUrb, exec, rounds, status, calls, issued, failures>>

(* It is not: the URB gets a result, but is not finished.                  *)
CheckHaltedHc ==
  /\ pc = "check" /\ dead
  /\ IF exec = "transfer"
     THEN urb' = [urb EXCEPT !.result = @ \cup {"SYSTEM"}] /\ UNCHANGED cmd
     ELSE cmd' = [cmd EXCEPT !.result = @ \cup {"SYSTEM"}] /\ UNCHANGED urb
  /\ pc' = "stall"
  /\ UNCHANGED <<ringVars, hcVars, pendingUrb, exec, seen, rounds, status, calls, issued, failures>>

(* The URB an event is matched with: the pending one, the one executed.    *)
IsOfUrb(e) ==
  /\ e.of = "transfer" /\ e.trb.id = urb.id
  /\ pendingUrb \/ exec = "transfer"

IsOfCmd(e) ==
  e.of = "command" /\ exec # "transfer" /\ e.trb.id = cmd.id

(* What the switch on the completion code makes of a URB. Only the first   *)
(* and the last TRB count.                                                 *)
Checked(u, e) ==
  CASE e.code = "stall"   -> [u EXCEPT !.result = @ \cup {"STALL"}, !.finished = TRUE]
    [] e.code = "other"   -> [u EXCEPT !.result = @ \cup {"TIMEOUT"}, !.finished = TRUE]
    [] e.code = "stopped" -> [u EXCEPT !.result = @ \cup {"TIMEOUT"}, !.finished = TRUE]
    [] e.code = "success" ->
         LET start == u.start \/ e.trb.pos = 1
             end   == u.end \/ e.trb.pos = u.num
         IN  [u EXCEPT !.start = start, !.end = end, !.finished = @ \/ (start /\ end)]

(* An error leaves the loop; so does the last event the sync found.        *)
HandleEvent ==
  /\ pc = "handle" /\ seen > 0
  /\ LET e == Head(evts)
         matched == IsOfUrb(e) \/ IsOfCmd(e)
     IN  /\ urb' = IF IsOfUrb(e) THEN Checked(urb, e) ELSE urb
         /\ cmd' = IF IsOfCmd(e) THEN Checked(cmd, e) ELSE cmd
         /\ seen' = IF matched /\ e.code \in {"stall", "other"} THEN 0 ELSE seen - 1
  /\ evts' = Tail(evts)
  /\ UNCHANGED <<tds, cmds, hcVars, pendingUrb, exec, pc, rounds, status, calls, issued, failures>>

(* EXIT, and what XhcExecTransfer does with the answer: done, one more     *)
(* round a microsecond later, or the time is up.                           *)
EndCheck ==
  /\ pc = "handle" /\ seen = 0
  /\ pc' = IF Current.finished THEN "finished" ELSE "stall"
  /\ UNCHANGED <<ringVars, hcVars, urb, cmd, pendingUrb, exec, seen, rounds, status, calls, issued, failures>>

(* Mutant: the rounds are not counted.                                     *)
NextRoundUncounted == rounds

TimeIsUp == rounds + 1 = MaxRounds
NextRound == rounds + 1

Stall ==
  /\ pc = "stall"
  /\ rounds' = NextRound
  /\ pc' = IF TimeIsUp THEN "timeout" ELSE "check"
  /\ UNCHANGED <<ringVars, hcVars, urb, cmd, pendingUrb, exec, seen, status, calls, issued, failures>>

-----------------------------------------------------------------------------
(* XhcTransfer after XhcExecTransfer.                                      *)

(* Finished: the result decides on the status and the way out.             *)
TransferFinished ==
  /\ pc = "finished" /\ exec = "transfer"
  /\ status' = IF urb.result = {} THEN "SUCCESS" ELSE "DEVICE_ERROR"
  /\ pc' = "result"
  /\ UNCHANGED <<ringVars, hcVars, urb, cmd, pendingUrb, exec, seen, rounds, calls, issued, failures>>

(* Timed out: XhcDequeueTrbFromEndpoint begins with XhcStopEndpoint, which *)
(* makes the URB the pending one and gives it the benefit of the doubt.    *)
TransferTimeout ==
  /\ pc = "timeout" /\ exec = "transfer"
  /\ status' = "TIMEOUT"
  /\ urb' = [urb EXCEPT !.result = {}]
  /\ pendingUrb' = TRUE
  /\ XhcCmdTransfer("stop")
  /\ UNCHANGED <<tds, evts, hcVars, seen, calls, failures>>

(* The result of the command: XhcCmdTransfer reports success only when the *)
(* URB of the command finished without error.                              *)
CommandSucceeded == pc = "finished" /\ cmd.result = {}
CommandFailed == pc \in {"timeout", "failed"} \/ (pc = "finished" /\ cmd.result # {})

(* Mutant: a pending URB is taken for finished whatever its result.        *)
PendingUrbEnded == urb.finished

(* It finished just before the endpoint was stopped.                       *)
PendingUrbFinished == urb.finished /\ urb.result = {}

(* XhcStopEndpoint worked. The pending URB may have finished by itself in  *)
(* the meantime (EFI_ALREADY_STARTED), otherwise its TRBs are skipped.     *)
StopFoundUrbFinished ==
  /\ exec = "stop" /\ CommandSucceeded
  /\ PendingUrbFinished
  /\ pendingUrb' = FALSE
  /\ status' = "SUCCESS"
  /\ DoorBell
  /\ pc' = "result"
  /\ UNCHANGED <<ringVars, dead, done, staleRun, lost, urb, cmd, exec, seen, rounds, calls, issued, failures>>

(* Mutant: the stopped endpoint goes on with the TRBs it has.              *)
StopSucceededKeepsTrbs ==
  /\ exec = "stop" /\ CommandSucceeded
  /\ ~PendingUrbFinished
  /\ pendingUrb' = FALSE
  /\ DoorBell
  /\ pc' = "return"
  /\ UNCHANGED <<ringVars, dead, done, staleRun, lost, urb, cmd, exec, seen, rounds, status,
                 calls, issued, failures>>

StopSucceeded ==
  /\ exec = "stop" /\ CommandSucceeded
  /\ ~PendingUrbFinished
  /\ pendingUrb' = FALSE
  /\ XhcCmdTransfer("set_dequeue")
  /\ UNCHANGED <<tds, evts, hcVars, urb, seen, status, calls, failures>>

(* XhcRecoverHaltedEndpoint: XhcSetTrDequeuePointer after the reset.       *)
ResetSucceeded ==
  /\ exec = "reset" /\ CommandSucceeded
  /\ XhcCmdTransfer("set_dequeue")
  /\ UNCHANGED <<tds, evts, hcVars, urb, pendingUrb, seen, status, calls, failures>>

(* The last command of both ways: the doorbell, and back to XhcTransfer. A *)
(* transfer that timed out gets here with a result that is not STALL; one  *)
(* that stalled is through with it.                                        *)
SetDequeueSucceeded ==
  /\ exec = "set_dequeue" /\ CommandSucceeded
  /\ DoorBell
  /\ pc' = "return"
  /\ UNCHANGED <<ringVars, dead, done, staleRun, lost, urb, cmd, pendingUrb, exec, seen, rounds,
                 status, calls, issued, failures>>

(* A command that failed ends the recovery. After XhcStopEndpoint the      *)
(* result is looked at all the same: the failure may be due to a halt.     *)
RecoveryFailed ==
  /\ exec \in Commands /\ CommandFailed
  /\ pendingUrb' = FALSE
  /\ failures' = IF pc = "finished" THEN failures ELSE failures + 1
  /\ pc' = IF exec = "stop" THEN "result" ELSE "return"
  /\ UNCHANGED <<ringVars, hcVars, urb, cmd, exec, seen, rounds, status, calls, issued>>

(* *TransferResult = Urb->Result, and XhcRecoverHaltedEndpoint when that   *)
(* is exactly STALL or BABBLE.                                             *)
Recover ==
  /\ pc = "result" /\ urb.result = {"STALL"}
  /\ XhcCmdTransfer("reset")
  /\ UNCHANGED <<tds, evts, hcVars, urb, pendingUrb, seen, status, calls, failures>>

NothingToRecover ==
  /\ pc = "result" /\ urb.result # {"STALL"}
  /\ pc' = "return"
  /\ UNCHANGED <<ringVars, hcVars, urb, cmd, pendingUrb, exec, seen, rounds, status, calls, issued, failures>>

(* XhcFreeUrb unmaps the buffer; the caller has Status and TransferResult. *)
Return ==
  /\ pc = "return"
  /\ pc' = "idle"
  /\ UNCHANGED <<ringVars, hcVars, urb, cmd, pendingUrb, exec, seen, rounds, status, calls, issued, failures>>

-----------------------------------------------------------------------------
(* The controller.                                                         *)

InProgress(t) == pc # "idle" /\ t.id = urb.id

HcRunsTrb == ep = "Running" /\ ~dead /\ tds # << >>

HcTrbSucceeds ==
  /\ HcRunsTrb
  /\ done' = done \cup {Head(tds)}
  /\ staleRun' = (staleRun \/ ~InProgress(Head(tds)))
  /\ evts' = Append(evts, TransferEvent(Head(tds), "success"))
  /\ tds' = Tail(tds)
  /\ UNCHANGED <<cmds, ep, dead, lost, driverVars>>

(* The endpoint halts on the TRB that failed. Only after a stall or babble *)
(* does the driver reset it.                                               *)
HcTrbFails(code) ==
  /\ HcRunsTrb
  /\ staleRun' = (staleRun \/ ~InProgress(Head(tds)))
  /\ evts' = Append(evts, TransferEvent(Head(tds), code))
  /\ ep' = "Halted"
  /\ lost' = (lost \/ code = "other")
  /\ UNCHANGED <<tds, cmds, dead, done, driverVars>>

HcTakesCmd(kind) == ~dead /\ cmds # << >> /\ Head(cmds).kind = kind /\ cmds' = Tail(cmds)

(* A command that does not fit the state of the endpoint fails.            *)
Fits(kind) ==
  CASE kind = "stop" -> ep = "Running"
    [] kind = "reset" -> ep = "Halted"
    [] kind = "set_dequeue" -> ep = "Stopped"

HcRejectsCmd(kind) ==
  /\ HcTakesCmd(kind) /\ ~Fits(kind)
  /\ evts' = Append(evts, CommandEvent(Head(cmds).id, "other"))
  /\ UNCHANGED <<tds, hcVars, driverVars>>

(* Stop Endpoint reports the TRB it stopped on, if any.                    *)
HcStops ==
  /\ HcTakesCmd("stop") /\ Fits("stop")
  /\ ep' = "Stopped"
  /\ evts' = evts \o (IF tds = << >> THEN << >> ELSE <<TransferEvent(Head(tds), "stopped")>>)
                  \o <<CommandEvent(Head(cmds).id, "success")>>
  /\ UNCHANGED <<tds, dead, done, staleRun, lost, driverVars>>

HcResets ==
  /\ HcTakesCmd("reset") /\ Fits("reset")
  /\ ep' = "Stopped"
  /\ evts' = Append(evts, CommandEvent(Head(cmds).id, "success"))
  /\ UNCHANGED <<tds, dead, done, staleRun, lost, driverVars>>

(* The pointer in the command is where the driver's enqueue pointer was:   *)
(* it skips the TRBs of the transfers submitted before the command, which  *)
(* are the first of the ring.                                              *)
HcSetsDequeue ==
  /\ HcTakesCmd("set_dequeue") /\ Fits("set_dequeue")
  /\ \E n \in 0 .. Len(tds) :
       /\ \A i \in 1 .. Len(tds) : i <= n <=> tds[i].id <= Head(cmds).upto
       /\ tds' = SubSeq(tds, n + 1, Len(tds))
  /\ evts' = Append(evts, CommandEvent(Head(cmds).id, "success"))
  /\ UNCHANGED <<hcVars, driverVars>>

HcDies ==
  /\ HcMayDie /\ ~dead
  /\ dead' = TRUE
  /\ UNCHANGED <<ringVars, ep, done, staleRun, lost, driverVars>>

-----------------------------------------------------------------------------
Driver ==
  \/ BeginCheck \/ CheckHaltedHc \/ HandleEvent \/ EndCheck \/ Stall
  \/ TransferFinished \/ TransferTimeout
  \/ StopFoundUrbFinished \/ StopSucceeded \/ ResetSucceeded \/ SetDequeueSucceeded
  \/ RecoveryFailed \/ Recover \/ NothingToRecover \/ Return

Hc ==
  \/ HcTrbSucceeds
  \/ \E code \in Errors : HcTrbFails(code)
  \/ \E kind \in Commands : HcRejectsCmd(kind)
  \/ HcStops \/ HcResets \/ HcSetsDequeue
  \/ HcDies

Next ==
  \/ \E num \in 1 .. MaxTrbNum : XhcTransfer(num)
  \/ Driver
  \/ Hc

Spec == Init /\ [][Next]_vars

(* The driver runs at a raised TPL until the call returns: nothing keeps   *)
(* it from its next step. The controller owes nothing.                     *)
FairSpec == Spec /\ WF_vars(Driver)

-----------------------------------------------------------------------------
(* Properties.                                                             *)

UrbOK(u) ==
  /\ u.id \in Nat /\ u.num \in 0 .. MaxTrbNum \cup {1}
  /\ {u.start, u.end, u.finished} \subseteq BOOLEAN
  /\ u.result \in Results

TypeOK ==
  /\ Range(tds) \subseteq Trbs /\ done \subseteq Trbs
  /\ \A c \in Range(cmds) : c.kind \in Commands /\ c.id <= issued /\ c.upto <= calls
  /\ \A e \in Range(evts) : e.of \in {"transfer", "command"}
                            /\ e.code \in {"success", "stall", "other", "stopped"}
  /\ ep \in EpStates
  /\ UrbOK(urb) /\ UrbOK(cmd)
  /\ {dead, pendingUrb, staleRun, lost} \subseteq BOOLEAN
  /\ exec \in Executed
  /\ pc \in {"idle", "check", "handle", "stall", "finished", "timeout", "failed", "result", "return"}
  /\ seen <= Len(evts) /\ rounds \in 0 .. MaxRounds
  /\ status \in Statuses
  /\ calls \in 0 .. MaxTransfers
  /\ {issued, failures} \subseteq Nat

(* A call that returns EFI_SUCCESS has had every one of its TRBs executed, *)
(* however close the completion came to the timeout, and whatever late     *)
(* events of earlier transfers and commands were on the event ring.        *)
SuccessIsTruthful ==
  pc = "idle" /\ calls > 0 /\ status = "SUCCESS" =>
    \A pos \in 1 .. urb.num : Trb(urb.id, pos) \in done

(* As long as the controller answers commands in time, a call that returns *)
(* leaves nothing of it behind: no TRB that points at the buffer it gives  *)
(* back, and an endpoint the next transfer can use. The exception is an    *)
(* error the code does not recover (XhcTransfer resets after STALL and     *)
(* BABBLE only): the endpoint stays halted for good, and from then on no   *)
(* call on it reports success.                                             *)
ReturnsClean ==
  pc = "idle" /\ failures = 0 =>
    \/ tds = << >> /\ ep # "Halted"
    \/ lost /\ ep = "Halted" /\ status # "SUCCESS"

(* Then the controller never runs a TRB of a transfer that has returned,   *)
(* whose buffer was given back.                                            *)
NoStaleRun == failures = 0 => ~staleRun

(* A call leaves nothing behind that a later one, or its caller, meets.    *)
TransferInvariant == TypeOK /\ ReturnsClean /\ NoStaleRun

(* Every call returns, whether or not the controller does anything.        *)
CallReturns == (pc # "idle") ~> (pc = "idle")
=============================================================================
