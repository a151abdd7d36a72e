------------------------- MODULE XhciTransfer_proofs -------------------------
(***************************************************************************)
(* Proofs about XhciTransfer for any number of calls, TRBs, rounds and     *)
(* failures: what a call that reports success has done, and what a call    *)
(* leaves behind.                                                          *)
(***************************************************************************)
EXTENDS XhciTransfer, SequenceTheorems, TLAPS

Codes == {"success", "stall", "other", "stopped"}
Blocks == [id : Nat, pos : Nat]
Events == [of : {"transfer", "command"}, trb : Blocks, code : Codes]
Orders == [id : Nat, kind : Commands, upto : Nat]
Urbs == [id : Nat, num : 0 .. MaxTrbNum \cup {1}, start : BOOLEAN, end : BOOLEAN,
         finished : BOOLEAN, result : Results]
Places == {"idle", "check", "handle", "stall", "finished", "timeout", "failed", "result", "return"}
Polling == {"check", "handle", "stall"}

(* What the variables of the two sides are, and how far they have counted. *)
RingTypes ==
  /\ tds \in Seq(Trbs) /\ cmds \in Seq(Orders) /\ evts \in Seq(Events)
  /\ done \in SUBSET Trbs /\ ep \in EpStates

UrbTypes == urb \in Urbs /\ cmd \in Urbs

Flags == dead \in BOOLEAN /\ pendingUrb \in BOOLEAN /\ staleRun \in BOOLEAN /\ lost \in BOOLEAN

Phases ==
  /\ exec \in Executed /\ pc \in Places /\ status \in Statuses

Counters ==
  /\ calls \in 0 .. MaxTransfers /\ issued \in Nat /\ failures \in Nat
  /\ seen \in 0 .. Len(evts) /\ rounds \in 0 .. MaxRounds
  /\ pc \in Polling => rounds < MaxRounds

Numbered ==
  /\ urb.id = calls /\ cmd.id = issued
  /\ \A i \in 1 .. Len(tds) : tds[i].id <= calls
  /\ \A i \in 1 .. Len(cmds) : cmds[i].id <= issued /\ cmds[i].upto <= calls
  /\ \A i \in 1 .. Len(evts) : evts[i].of = "transfer" => evts[i].trb.id <= calls
  /\ \A t \in done : t.id <= calls

-----------------------------------------------------------------------------
(* What the driver makes of an event keeps a URB a URB.                    *)
LEMMA CheckedEffect ==
  ASSUME NEW u \in Urbs, NEW e \in Events
  PROVE  LET c == Checked(u, e) IN
         /\ c \in Urbs /\ c.id = u.id /\ c.num = u.num
         /\ u.finished = TRUE => c.finished = TRUE
         /\ e.code = "success" =>
              /\ c.result = u.result
              /\ c.end <=> u.end \/ e.trb.pos = u.num
              /\ c.finished = TRUE => u.finished = TRUE \/ c.end = TRUE
         /\ e.code # "success" =>
              /\ c.end = u.end /\ c.finished = TRUE
              /\ c.result = u.result \cup {IF e.code = "stall" THEN "STALL" ELSE "TIMEOUT"}
<1> USE DEF Urbs, Events, Codes, Results
<1>1. CASE e.code = "stall"
  BY <1>1 DEF Checked
<1>2. CASE e.code \in {"other", "stopped"}
  BY <1>2 DEF Checked
<1>3. CASE e.code = "success"
  <2> DEFINE s == u.start \/ e.trb.pos = 1
             n == u.end \/ e.trb.pos = u.num
             f == u.finished \/ (s /\ n)
  <2>1. Checked(u, e) = [u EXCEPT !.start = s, !.end = n, !.finished = f]
    BY <1>3 DEF Checked
  <2>2. s \in BOOLEAN /\ n \in BOOLEAN /\ f \in BOOLEAN
    OBVIOUS
  <2> HIDE DEF s, n, f
  <2>3. /\ Checked(u, e) \in Urbs /\ Checked(u, e).id = u.id /\ Checked(u, e).num = u.num
        /\ Checked(u, e).result = u.result
        /\ Checked(u, e).end = n /\ Checked(u, e).finished = f
    BY <2>1, <2>2
  <2>4. (n <=> u.end \/ e.trb.pos = u.num) /\ (f => u.finished \/ n) /\ (u.finished => f)
    BY DEF n, f
  <2> QED
    BY <1>3, <2>2, <2>3, <2>4
<1> QED
  BY <1>1, <1>2, <1>3

(* The TRBs of a new URB.                                                  *)
LEMMA NewTrbs ==
  ASSUME NEW c \in 1 .. MaxTransfers, NEW num \in 1 .. MaxTrbNum
  PROVE  LET s == [i \in 1 .. num |-> Trb(c, i)] IN
         s \in Seq(Trbs) /\ Len(s) = num /\ \A i \in 1 .. num : s[i] = Trb(c, i)
<1>1. num \in Nat /\ MaxTrbNum \in Nat
  BY TransferAssumption
<1>2. \A i \in 1 .. num : Trb(c, i) \in Trbs
  BY <1>1 DEF Trb, Trbs
<1> QED
  BY <1>1, <1>2

(* XhcCmdTransfer puts one command on the ring, or none if the controller  *)
(* is halted.                                                              *)
LEMMA CommandEffect ==
  ASSUME RingTypes, Counters, UrbTypes, cmd.id = issued,
         NEW kind \in Commands, XhcCmdTransfer(kind)
  PROVE  /\ exec' = kind /\ rounds' = 0 /\ cmds' \in Seq(Orders) /\ cmd' \in Urbs
         /\ issued' \in Nat /\ issued <= issued' /\ cmd'.id = issued'
         /\ dead => pc' = "failed" /\ UNCHANGED <<issued, cmd, cmds>>
         /\ ~dead => /\ pc' = "check" /\ issued' = issued + 1
                     /\ cmd' = NewUrb(issued', 1)
                     /\ cmds' = Append(cmds, [id |-> issued', kind |-> kind, upto |-> calls])
<1> USE DEF RingTypes, Counters, UrbTypes, XhcCmdTransfer
<1>1. CASE dead
  BY <1>1
<1>2. CASE ~dead
  <2>1. issued + 1 \in Nat /\ calls \in Nat /\ MaxTrbNum \in Nat
    BY TransferAssumption
  <2>2. NewUrb(issued + 1, 1) \in Urbs /\ NewUrb(issued + 1, 1).id = issued + 1
    BY <2>1 DEF NewUrb, Urbs, Results
  <2>3. [id |-> issued + 1, kind |-> kind, upto |-> calls] \in Orders
    BY <2>1 DEF Orders
  <2>4. /\ pc' = "check" /\ issued' = issued + 1 /\ cmd' = NewUrb(issued + 1, 1)
        /\ cmds' = Append(cmds, [id |-> issued + 1, kind |-> kind, upto |-> calls])
    BY <1>2
  <2>5. cmds' \in Seq(Orders)
    BY <2>3, <2>4
  <2>6. cmd' \in Urbs /\ cmd'.id = issued' /\ issued' \in Nat /\ issued <= issued'
    BY <2>1, <2>2, <2>4
  <2> QED
    BY <1>2, <2>4, <2>5, <2>6
<1> QED
  BY <1>1, <1>2

-----------------------------------------------------------------------------
(* The types.                                                              *)
Recovery == TransferTimeout \/ StopSucceeded \/ ResetSucceeded \/ Recover

(* The steps of the recovery that issue a command.                         *)
LEMMA RecoveryCommands == 
  Recovery => /\ \E kind \in Commands : XhcCmdTransfer(kind)
              /\ UNCHANGED <<tds, evts, ep, dead, done, staleRun, seen, calls, failures>>
              /\ UNCHANGED <<urb>> \/ urb' = [urb EXCEPT !.result = {}]
<1> USE DEF Commands, hcVars
<1>1. CASE TransferTimeout
  BY <1>1 DEF TransferTimeout
<1>2. CASE StopSucceeded
  BY <1>2 DEF StopSucceeded
<1>3. CASE ResetSucceeded
  BY <1>3 DEF ResetSucceeded
<1>4. CASE Recover
  BY <1>4 DEF Recover
<1> QED
  BY <1>1, <1>2, <1>3, <1>4 DEF Recovery

(* The steps of the driver that leave the rings alone.                     *)
Quiet ==
  \/ BeginCheck \/ CheckHaltedHc \/ EndCheck \/ Stall \/ TransferFinished
  \/ StopFoundUrbFinished \/ SetDequeueSucceeded \/ RecoveryFailed
  \/ NothingToRecover \/ Return

(* They leave the rings, the events and the counters alone.                *)
LEMMA QuietSteps ==
  Quiet => UNCHANGED <<tds, cmds, evts, done, staleRun, dead, calls, issued>>
<1> USE DEF ringVars, hcVars
<1>1. CASE BeginCheck \/ CheckHaltedHc \/ EndCheck \/ Stall \/ TransferFinished
  BY <1>1 DEF BeginCheck, CheckHaltedHc, EndCheck, Stall, TransferFinished
<1>2. CASE StopFoundUrbFinished \/ SetDequeueSucceeded
  BY <1>2 DEF StopFoundUrbFinished, SetDequeueSucceeded
<1>3. CASE RecoveryFailed \/ NothingToRecover \/ Return
  BY <1>3 DEF RecoveryFailed, NothingToRecover, Return
<1> QED
  BY <1>1, <1>2, <1>3 DEF Quiet

(* Every step keeps the types of the rings and the events,                 *)
LEMMA RingTypesNext == RingTypes /\ UrbTypes /\ Counters /\ Numbered /\ [Next]_vars => RingTypes'
<1> SUFFICES ASSUME RingTypes, UrbTypes, Counters, Numbered, [Next]_vars PROVE RingTypes'
  OBVIOUS
<1>a. tds \in Seq(Trbs) /\ cmds \in Seq(Orders) /\ evts \in Seq(Events) /\ done \in SUBSET Trbs
      /\ ep \in EpStates
  BY DEF RingTypes
<1>b. \A i \in 1 .. Len(tds) : tds[i] \in Blocks /\ tds[i] \in Trbs
  <2>1. \A i \in 1 .. Len(tds) : tds[i] \in Trbs
    BY <1>a
  <2>2. \A t \in Trbs : t \in Blocks
    BY TransferAssumption DEF Trbs, Blocks
  <2> QED
    BY <2>1, <2>2
<1>c. \A i \in 1 .. Len(cmds) : Trb(cmds[i].id, 1) \in Blocks
  <2>1. \A i \in 1 .. Len(cmds) : cmds[i] \in Orders
    BY <1>a
  <2>2. \A c \in Orders : Trb(c.id, 1) \in Blocks
    BY DEF Orders, Blocks, Trb
  <2> QED
    BY <2>1, <2>2
<1>d. DoorBell => ep' \in EpStates
  BY <1>a DEF DoorBell, EpStates
<1>e. \A t \in Blocks, code \in Codes : TransferEvent(t, code) \in Events
  BY DEF TransferEvent, Events
<1>f. \A i \in 1 .. Len(cmds), code \in Codes : CommandEvent(cmds[i].id, code) \in Events
  BY <1>c DEF CommandEvent, Events
<1>g. tds # << >> => Head(tds) = tds[1] /\ 1 \in 1 .. Len(tds) /\ Tail(tds) \in Seq(Trbs)
  BY <1>a
<1>h. cmds # << >> => Head(cmds) = cmds[1] /\ 1 \in 1 .. Len(cmds) /\ Tail(cmds) \in Seq(Orders)
  BY <1>a
<1>i. \A e \in Events : Append(evts, e) \in Seq(Events)
  BY <1>a
<1>1. ASSUME NEW num \in 1 .. MaxTrbNum, XhcTransfer(num)
      PROVE  RingTypes'
  <2>1. calls' \in 1 .. MaxTransfers /\ UNCHANGED <<cmds, evts, done>> /\ ep' \in EpStates
        /\ tds' = tds \o [i \in 1 .. num |-> Trb(calls', i)]
    BY <1>1, <1>d, TransferAssumption DEF XhcTransfer, Counters
  <2>2. tds' \in Seq(Trbs)
    BY <1>a, <2>1, NewTrbs
  <2> QED
    BY <1>a, <2>1, <2>2 DEF RingTypes
<1>2. CASE Quiet
  <2>1. ep' \in EpStates
    <3>1. CASE StopFoundUrbFinished \/ SetDequeueSucceeded
      BY <1>d, <3>1 DEF StopFoundUrbFinished, SetDequeueSucceeded
    <3>2. CASE BeginCheck \/ CheckHaltedHc \/ EndCheck \/ Stall \/ TransferFinished
      BY <1>a, <3>2 DEF BeginCheck, CheckHaltedHc, EndCheck, Stall, TransferFinished, hcVars
    <3>3. CASE RecoveryFailed \/ NothingToRecover \/ Return
      BY <1>a, <3>3 DEF RecoveryFailed, NothingToRecover, Return, hcVars
    <3> QED
      BY <1>2, <3>1, <3>2, <3>3 DEF Quiet
  <2> QED
    BY <1>a, <1>2, <2>1, QuietSteps DEF RingTypes
<1>3. CASE HandleEvent
  <2>1. evts' = Tail(evts) /\ evts # << >> /\ UNCHANGED <<tds, cmds, ep, done>>
    BY <1>3 DEF HandleEvent, hcVars, Counters
  <2> QED
    BY <1>a, <2>1 DEF RingTypes
<1>4. CASE Recovery
  <2>1. cmds' \in Seq(Orders)
    BY <1>4, RecoveryCommands, CommandEffect DEF Numbered
  <2> QED
    BY <1>a, <1>4, <2>1, RecoveryCommands DEF RingTypes
<1>5. CASE HcTrbSucceeds
  <2>1. /\ tds # << >> /\ tds' = Tail(tds) /\ evts' = Append(evts, TransferEvent(Head(tds), "success"))
        /\ done' = done \cup {Head(tds)} /\ UNCHANGED <<cmds, ep>>
    BY <1>5 DEF HcTrbSucceeds, HcRunsTrb
  <2> QED
    BY <1>a, <1>b, <1>e, <1>g, <1>i, <2>1 DEF RingTypes, Codes
<1>6. ASSUME NEW code \in Errors, HcTrbFails(code)
      PROVE  RingTypes'
  <2>1. /\ tds # << >> /\ evts' = Append(evts, TransferEvent(Head(tds), code))
        /\ ep' \in EpStates /\ UNCHANGED <<tds, cmds, done>> /\ code \in Codes
    BY <1>6, TransferAssumption DEF HcTrbFails, HcRunsTrb, EpStates, Codes
  <2> QED
    BY <1>a, <1>b, <1>e, <1>g, <1>i, <2>1 DEF RingTypes
<1>7. ASSUME NEW kind \in Commands, HcRejectsCmd(kind)
      PROVE  RingTypes'
  <2>1. /\ cmds # << >> /\ cmds' = Tail(cmds) /\ evts' = Append(evts, CommandEvent(Head(cmds).id, "other"))
        /\ UNCHANGED <<tds, ep, done>>
    BY <1>7 DEF HcRejectsCmd, HcTakesCmd, hcVars
  <2> QED
    BY <1>a, <1>f, <1>h, <1>i, <2>1 DEF RingTypes, Codes
<1>8. CASE HcStops
  <2> DEFINE s == IF tds = << >> THEN << >> ELSE <<TransferEvent(Head(tds), "stopped")>>
             c == CommandEvent(Head(cmds).id, "success")
  <2>1. /\ cmds # << >> /\ cmds' = Tail(cmds) /\ evts' = evts \o s \o <<c>>
        /\ UNCHANGED <<tds, done>> /\ ep' = "Stopped"
    BY <1>8 DEF HcStops, HcTakesCmd
  <2>2. s \in Seq(Events)
    BY <1>b, <1>e, <1>g DEF Codes
  <2>3. c \in Events
    BY <1>f, <1>h, <2>1 DEF Codes
  <2> HIDE DEF s, c
  <2>4. evts' \in Seq(Events)
    BY <1>a, <2>1, <2>2, <2>3
  <2> QED
    BY <1>a, <1>h, <2>1, <2>4 DEF RingTypes, EpStates
<1>9. CASE HcResets
  <2>1. /\ cmds # << >> /\ cmds' = Tail(cmds) /\ evts' = Append(evts, CommandEvent(Head(cmds).id, "success"))
        /\ UNCHANGED <<tds, done>> /\ ep' = "Stopped"
    BY <1>9 DEF HcResets, HcTakesCmd
  <2> QED
    BY <1>a, <1>f, <1>h, <1>i, <2>1 DEF RingTypes, Codes, EpStates
<1>10. CASE HcSetsDequeue
  <2>1. PICK n \in 0 .. Len(tds) : tds' = SubSeq(tds, n + 1, Len(tds))
    BY <1>10 DEF HcSetsDequeue
  <2>2. /\ cmds # << >> /\ cmds' = Tail(cmds) /\ evts' = Append(evts, CommandEvent(Head(cmds).id, "success"))
        /\ UNCHANGED <<ep, done>>
    BY <1>10 DEF HcSetsDequeue, HcTakesCmd, hcVars
  <2>3. tds' \in Seq(Trbs)
    BY <1>a, <2>1
  <2> QED
    BY <1>a, <1>f, <1>h, <1>i, <2>2, <2>3 DEF RingTypes, Codes
<1>11. CASE HcDies \/ UNCHANGED vars
  BY <1>a, <1>11 DEF HcDies, vars, ringVars, hcVars, RingTypes
<1> QED
  BY <1>1, <1>2, <1>3, <1>4, <1>5, <1>6, <1>7, <1>8, <1>9, <1>10, <1>11 DEF Next, Driver, Hc, Quiet, Recovery

(* The controller leaves the state of the driver alone, and only adds      *)
(* events.                                                                 *)
LEMMA HcOnly ==
  ASSUME RingTypes, Hc
  PROVE  UNCHANGED driverVars /\ Len(evts) <= Len(evts')
<1> USE DEF RingTypes
<1>1. CASE HcTrbSucceeds \/ \E code \in Errors : HcTrbFails(code)
  BY <1>1 DEF HcTrbSucceeds, HcTrbFails
<1>2. CASE HcResets \/ HcSetsDequeue \/ \E kind \in Commands : HcRejectsCmd(kind)
  BY <1>2 DEF HcResets, HcSetsDequeue, HcRejectsCmd
<1>3. CASE HcStops
  <2> DEFINE s == IF tds = << >> THEN << >> ELSE <<TransferEvent(Head(tds), "stopped")>>
  <2>1. evts' = evts \o s \o <<CommandEvent(Head(cmds).id, "success")>> /\ UNCHANGED driverVars
    BY <1>3 DEF HcStops
  <2>2. s \in Seq({TransferEvent(Head(tds), "stopped")})
    <3>1. \A x : <<x>> \in Seq({x}) /\ << >> \in Seq({x})
      OBVIOUS
    <3> QED
      BY <3>1
  <2> HIDE DEF s
  <2>3. Len(evts \o s) = Len(evts) + Len(s) /\ Len(s) \in Nat /\ Len(evts) \in Nat
    BY <2>2
  <2> QED
    BY <2>1, <2>2, <2>3
<1>4. CASE HcDies
  BY <1>4 DEF HcDies, ringVars
<1> QED
  BY <1>1, <1>2, <1>3, <1>4 DEF Hc

(* those of the two URBs,                                                  *)
LEMMA UrbTypesNext == RingTypes /\ UrbTypes /\ Counters /\ Numbered /\ [Next]_vars => UrbTypes'
<1> SUFFICES ASSUME RingTypes, UrbTypes, Counters, Numbered, [Next]_vars PROVE UrbTypes'
  OBVIOUS
<1>1. ASSUME NEW num \in 1 .. MaxTrbNum, XhcTransfer(num)
      PROVE  UrbTypes'
  <2>1. calls' \in Nat /\ urb' = NewUrb(calls', num) /\ UNCHANGED cmd
    BY <1>1, TransferAssumption DEF XhcTransfer, Counters
  <2>2. NewUrb(calls', num) \in Urbs
    BY <2>1, TransferAssumption DEF NewUrb, Urbs, Results
  <2> QED
    BY <2>1, <2>2 DEF UrbTypes
<1>2. CASE CheckHaltedHc
  <2>1. \A u \in Urbs : [u EXCEPT !.result = @ \cup {"SYSTEM"}] \in Urbs
    BY DEF Urbs, Results
  <2> QED
    BY <1>2, <2>1 DEF CheckHaltedHc, UrbTypes
<1>3. CASE HandleEvent
  <2>1. Head(evts) \in Events
    BY <1>3 DEF HandleEvent, RingTypes, Counters
  <2>2. /\ urb' \in {urb, Checked(urb, Head(evts))}
        /\ cmd' \in {cmd, Checked(cmd, Head(evts))}
    BY <1>3 DEF HandleEvent
  <2> QED
    BY <2>1, <2>2, CheckedEffect DEF UrbTypes
<1>4. CASE Recovery
  <2>1. [urb EXCEPT !.result = {}] \in Urbs
    BY DEF UrbTypes, Urbs, Results
  <2> QED
    BY <1>4, <2>1, RecoveryCommands, CommandEffect DEF Numbered, UrbTypes
<1>5. CASE BeginCheck \/ EndCheck \/ Stall \/ TransferFinished
  BY <1>5 DEF BeginCheck, EndCheck, Stall, TransferFinished, UrbTypes
<1>6. CASE StopFoundUrbFinished \/ SetDequeueSucceeded \/ RecoveryFailed
  BY <1>6 DEF StopFoundUrbFinished, SetDequeueSucceeded, RecoveryFailed, UrbTypes
<1>7. CASE NothingToRecover \/ Return \/ UNCHANGED vars
  BY <1>7 DEF NothingToRecover, Return, vars, driverVars, UrbTypes
<1>8. CASE Hc
  BY <1>8, HcOnly DEF UrbTypes, driverVars
<1> QED
  BY <1>1, <1>2, <1>3, <1>4, <1>5, <1>6, <1>7, <1>8 DEF Next, Driver, Recovery

(* those of the phases,                                                    *)
LEMMA PhasesNext == RingTypes /\ Phases /\ [Next]_vars => Phases'
<1> SUFFICES ASSUME RingTypes, Phases, [Next]_vars PROVE Phases'
  OBVIOUS
<1> USE DEF Phases, Executed, Places, Statuses, Commands
<1>1. ASSUME NEW num \in 1 .. MaxTrbNum, XhcTransfer(num)
      PROVE  Phases'
  BY <1>1 DEF XhcTransfer
<1>2. CASE BeginCheck \/ CheckHaltedHc \/ HandleEvent \/ EndCheck \/ Stall \/ TransferFinished
  BY <1>2 DEF BeginCheck, CheckHaltedHc, HandleEvent, EndCheck, Stall, TransferFinished
<1>3. CASE StopFoundUrbFinished \/ SetDequeueSucceeded \/ RecoveryFailed
  BY <1>3 DEF StopFoundUrbFinished, SetDequeueSucceeded, RecoveryFailed
<1>4. CASE TransferTimeout \/ StopSucceeded \/ ResetSucceeded \/ Recover
  BY <1>4 DEF TransferTimeout, StopSucceeded, ResetSucceeded, Recover, XhcCmdTransfer
<1>5. CASE NothingToRecover \/ Return \/ UNCHANGED vars
  BY <1>5 DEF NothingToRecover, Return, vars, driverVars
<1>6. CASE Hc
  BY <1>6, HcOnly DEF driverVars
<1> QED
  BY <1>1, <1>2, <1>3, <1>4, <1>5, <1>6 DEF Next, Driver

(* of the flags,                                                           *)
LEMMA FlagsNext == Flags /\ [Next]_vars => Flags'
<1> SUFFICES ASSUME Flags, [Next]_vars PROVE Flags'
  OBVIOUS
<1> USE DEF Flags, hcVars, driverVars
<1>1. ASSUME NEW num \in 1 .. MaxTrbNum, XhcTransfer(num)
      PROVE  Flags'
  BY <1>1 DEF XhcTransfer
<1>2. CASE BeginCheck \/ CheckHaltedHc \/ HandleEvent \/ EndCheck \/ Stall \/ TransferFinished
  BY <1>2 DEF BeginCheck, CheckHaltedHc, HandleEvent, EndCheck, Stall, TransferFinished
<1>3. CASE StopFoundUrbFinished \/ SetDequeueSucceeded \/ RecoveryFailed
  BY <1>3 DEF StopFoundUrbFinished, SetDequeueSucceeded, RecoveryFailed
<1>4. CASE TransferTimeout \/ StopSucceeded \/ ResetSucceeded \/ Recover
  BY <1>4 DEF TransferTimeout, StopSucceeded, ResetSucceeded, Recover
<1>5. CASE NothingToRecover \/ Return \/ UNCHANGED vars
  BY <1>5 DEF NothingToRecover, Return, vars
<1>6. CASE HcTrbSucceeds
  BY <1>6 DEF HcTrbSucceeds, InProgress
<1>7. CASE \E code \in Errors : HcTrbFails(code)
  BY <1>7 DEF HcTrbFails, InProgress
<1>8. CASE HcStops \/ HcResets \/ HcSetsDequeue \/ HcDies
  BY <1>8 DEF HcStops, HcResets, HcSetsDequeue, HcDies
<1>9. CASE \E kind \in Commands : HcRejectsCmd(kind)
  BY <1>9 DEF HcRejectsCmd
<1> QED
  BY <1>1, <1>2, <1>3, <1>4, <1>5, <1>6, <1>7, <1>8, <1>9 DEF Next, Driver, Hc

(* and of the counters, whose bounds the guards keep.                      *)
LEMMA CountersNext ==
  RingTypes /\ UrbTypes /\ Counters /\ Numbered /\ RingTypes' /\ [Next]_vars => Counters'
<1> SUFFICES ASSUME RingTypes, UrbTypes, Counters, Numbered, RingTypes', [Next]_vars PROVE Counters'
  OBVIOUS
<1>a. /\ MaxTransfers \in Nat /\ MaxRounds \in Nat /\ MaxRounds > 0
      /\ Len(evts) \in Nat /\ Len(evts') \in Nat
  BY TransferAssumption DEF RingTypes
<1> USE <1>a DEF Counters, Polling
<1>1. ASSUME NEW num \in 1 .. MaxTrbNum, XhcTransfer(num)
      PROVE  Counters'
  BY <1>1 DEF XhcTransfer
<1>2. CASE BeginCheck
  BY <1>2 DEF BeginCheck, ringVars
<1>3. CASE CheckHaltedHc \/ EndCheck
  BY <1>3 DEF CheckHaltedHc, EndCheck, ringVars
<1>4. CASE HandleEvent
  <2>1. evts' = Tail(evts) /\ seen' \in {0, seen - 1} /\ seen > 0
        /\ UNCHANGED <<pc, rounds, calls, issued, failures>>
    BY <1>4 DEF HandleEvent
  <2>2. Len(evts') = Len(evts) - 1
    BY <2>1 DEF RingTypes
  <2> QED
    BY <2>1, <2>2
<1>5. CASE Stall
  <2>1. /\ rounds < MaxRounds /\ rounds' = rounds + 1
        /\ pc' = IF rounds + 1 = MaxRounds THEN "timeout" ELSE "check"
        /\ UNCHANGED <<evts, seen, calls, issued, failures>>
    BY <1>5 DEF Stall, NextRound, TimeIsUp, ringVars
  <2> QED
    BY <2>1
<1>6. CASE TransferFinished \/ StopFoundUrbFinished \/ SetDequeueSucceeded \/ RecoveryFailed
  BY <1>6 DEF TransferFinished, StopFoundUrbFinished, SetDequeueSucceeded, RecoveryFailed, ringVars
<1>7. CASE Recovery
  <2>1. PICK kind \in Commands : XhcCmdTransfer(kind)
    BY <1>7, RecoveryCommands
  <2>2. rounds' = 0 /\ issued' \in Nat /\ pc' \in {"failed", "check"}
    BY <2>1, CommandEffect DEF Numbered
  <2>3. UNCHANGED <<evts, seen, calls, failures>>
    BY <1>7, RecoveryCommands
  <2> QED
    BY <2>2, <2>3
<1>8. CASE NothingToRecover \/ Return \/ UNCHANGED vars
  BY <1>8 DEF NothingToRecover, Return, vars, ringVars, driverVars
<1>9. CASE Hc
  BY <1>9, HcOnly DEF driverVars
<1> QED
  BY <1>1, <1>2, <1>3, <1>4, <1>5, <1>6, <1>7, <1>8, <1>9 DEF Next, Driver, Recovery

(* Stop Endpoint reports the TRB it stopped on, if any, and then itself.   *)
LEMMA StopEvents ==
  ASSUME RingTypes, HcStops
  PROVE  LET c == CommandEvent(cmds[1].id, "success") IN
         /\ cmds # << >>
         /\ \A i \in 1 .. Len(evts) : evts'[i] = evts[i]
         /\ tds = << >> => Len(evts') = Len(evts) + 1 /\ evts'[Len(evts) + 1] = c
         /\ tds # << >> => /\ Len(evts') = Len(evts) + 2
                           /\ evts'[Len(evts) + 1] = TransferEvent(tds[1], "stopped")
                           /\ evts'[Len(evts) + 2] = c
<1> DEFINE c == CommandEvent(cmds[1].id, "success")
           t == TransferEvent(tds[1], "stopped")
           All == Events \cup {c, t}
<1>1. evts' = evts \o (IF tds = << >> THEN << >> ELSE <<t>>) \o <<c>> /\ cmds # << >>
  <2>1. /\ tds # << >> => Head(tds) = tds[1]
        /\ cmds # << >> => Head(cmds) = cmds[1]
    BY DEF RingTypes
  <2> QED
    BY <2>1 DEF HcStops, HcTakesCmd
<1> HIDE DEF c, t
<1>2. Len(evts) \in Nat /\ evts \in Seq(All) /\ c \in All /\ t \in All
  BY DEF RingTypes
<1> HIDE DEF All
<1>3. CASE tds = << >>
  <2>1. evts' = Append(evts, c)
    BY <1>1, <1>2, <1>3, ConcatEmptySeq, AppendIsConcat
  <2> QED
    BY <1>1, <1>2, <1>3, <2>1 DEF c
<1>4. CASE tds # << >>
  <2>1. evts \o <<t>> = Append(evts, t) /\ Append(evts, t) \in Seq(All)
    BY <1>2, AppendIsConcat
  <2>2. evts' = Append(Append(evts, t), c)
    BY <1>1, <1>2, <1>4, <2>1, AppendIsConcat
  <2> QED
    BY <1>1, <1>2, <1>4, <2>2 DEF c, t
<1> QED
  BY <1>3, <1>4

(* The other steps of the controller add at most one event.                *)
LEMMA HcEvent ==
  ASSUME RingTypes, Hc, ~HcStops
  PROVE  \/ UNCHANGED evts
         \/ \E code \in Codes \ {"stopped"} :
              /\ tds # << >> /\ evts' = Append(evts, TransferEvent(tds[1], code))
              /\ code = "success" => HcTrbSucceeds
              /\ code # "success" => HcTrbFails(code) /\ code \in Errors
         \/ \E code \in {"success", "other"} :
              /\ cmds # << >> /\ evts' = Append(evts, CommandEvent(cmds[1].id, code))
              /\ code = "success" => HcResets \/ HcSetsDequeue
              /\ code = "other" => \E kind \in Commands : HcRejectsCmd(kind)
<1>a. /\ tds # << >> => Head(tds) = tds[1]
      /\ cmds # << >> => Head(cmds) = cmds[1]
  BY DEF RingTypes
<1>1. CASE HcTrbSucceeds
  BY <1>1, <1>a DEF HcTrbSucceeds, HcRunsTrb, Codes
<1>2. CASE \E code \in Errors : HcTrbFails(code)
  BY <1>2, <1>a, TransferAssumption DEF HcTrbFails, HcRunsTrb, Codes
<1>3. CASE HcResets \/ HcSetsDequeue
  BY <1>3, <1>a DEF HcResets, HcSetsDequeue, HcTakesCmd
<1>4. CASE \E kind \in Commands : HcRejectsCmd(kind)
  BY <1>4, <1>a DEF HcRejectsCmd, HcTakesCmd
<1>5. CASE HcDies
  BY <1>5 DEF HcDies, ringVars
<1> QED
  BY <1>1, <1>2, <1>3, <1>4, <1>5 DEF Hc

(* Every event the controller adds is of the next TRB or the next command. *)
LEMMA NewEvents ==
  ASSUME RingTypes, Hc, NEW i \in 1 .. Len(evts')
  PROVE  \/ i <= Len(evts) /\ evts'[i] = evts[i]
         \/ \E code \in Codes : /\ tds # << >> /\ evts'[i] = TransferEvent(tds[1], code)
                                /\ code = "success" => HcTrbSucceeds
         \/ \E code \in Codes : cmds # << >> /\ evts'[i] = CommandEvent(cmds[1].id, code)
<1>a. evts \in Seq(Events) /\ Len(evts) \in Nat
  BY DEF RingTypes
<1>1. CASE HcStops
  BY <1>1, <1>a, StopEvents DEF Codes
<1>2. CASE ~HcStops
  <2>1. CASE UNCHANGED evts
    BY <1>a, <2>1
  <2>2. ASSUME NEW e, evts' = Append(evts, e)
        PROVE  (i <= Len(evts) /\ evts'[i] = evts[i]) \/ evts'[i] = e
    BY <1>a, <2>2
  <2> QED
    BY <1>2, <2>1, <2>2, HcEvent DEF Codes
<1> QED
  BY <1>1, <1>2

(* Set TR Dequeue Pointer takes the TRBs of the older transfers off.       *)
LEMMA DequeueEffect ==
  ASSUME RingTypes, HcSetsDequeue
  PROVE  \E n \in 0 .. Len(tds) :
           /\ Len(tds') = Len(tds) - n
           /\ \A i \in 1 .. Len(tds) - n : tds'[i] = tds[i + n]
           /\ \A i \in 1 .. Len(tds) : i <= n <=> tds[i].id <= cmds[1].upto
<1>a. tds \in Seq(Trbs) /\ Len(tds) \in Nat
  BY DEF RingTypes
<1>1. Head(cmds) = cmds[1]
  BY DEF HcSetsDequeue, HcTakesCmd, RingTypes
<1>2. PICK n \in 0 .. Len(tds) :
        /\ \A i \in 1 .. Len(tds) : i <= n <=> tds[i].id <= cmds[1].upto
        /\ tds' = SubSeq(tds, n + 1, Len(tds))
  BY <1>1 DEF HcSetsDequeue
<1>3. /\ Len(tds') = Len(tds) - n
      /\ \A i \in 1 .. Len(tds) - n : tds'[i] = tds[i + n]
  BY <1>a, <1>2
<1> QED
  BY <1>2, <1>3

(* A new transfer adds its TRBs in order.                                  *)
LEMMA TransferEffect ==
  ASSUME RingTypes, Counters, NEW num \in 1 .. MaxTrbNum, XhcTransfer(num)
  PROVE  /\ calls' = calls + 1 /\ calls' \in 1 .. MaxTransfers
         /\ urb' = NewUrb(calls', num) /\ num \in Nat
         /\ Len(tds') = Len(tds) + num
         /\ \A i \in 1 .. Len(tds) : tds'[i] = tds[i]
         /\ \A i \in 1 .. num : tds'[Len(tds) + i] = Trb(calls', i)
<1> DEFINE s == [i \in 1 .. num |-> Trb(calls', i)]
<1>1. calls' = calls + 1 /\ calls' \in 1 .. MaxTransfers /\ tds' = tds \o s /\ urb' = NewUrb(calls', num)
  BY TransferAssumption DEF XhcTransfer, Counters
<1>2. s \in Seq(Trbs) /\ Len(s) = num /\ \A i \in 1 .. num : s[i] = Trb(calls', i)
  BY <1>1, NewTrbs
<1>3. tds \in Seq(Trbs) /\ Len(tds) \in Nat /\ num \in Nat
  BY TransferAssumption DEF RingTypes
<1> HIDE DEF s
<1>4. /\ Len(tds') = Len(tds) + Len(s)
      /\ \A i \in 1 .. Len(tds) + Len(s) :
           tds'[i] = IF i <= Len(tds) THEN tds[i] ELSE s[i - Len(tds)]
  BY <1>1, <1>2, <1>3, ConcatProperties
<1>5. \A i \in 1 .. Len(tds) : tds'[i] = tds[i]
  BY <1>2, <1>3, <1>4
<1>6. \A i \in 1 .. num : tds'[Len(tds) + i] = s[i]
  BY <1>2, <1>3, <1>4
<1> QED
  BY <1>1, <1>2, <1>3, <1>4, <1>5, <1>6

(* What the numbers of transfers and commands say.                         *)
LEMMA NumberedNext ==
  RingTypes /\ UrbTypes /\ Counters /\ Numbered /\ [Next]_vars => Numbered'
<1> SUFFICES ASSUME RingTypes, UrbTypes, Counters, Numbered, [Next]_vars PROVE Numbered'
  OBVIOUS
<1>a. /\ tds \in Seq(Trbs) /\ cmds \in Seq(Orders) /\ evts \in Seq(Events) /\ done \in SUBSET Trbs
      /\ Len(tds) \in Nat /\ Len(cmds) \in Nat /\ Len(evts) \in Nat /\ calls \in Nat /\ issued \in Nat
  BY TransferAssumption DEF RingTypes, Counters
<1>b. /\ \A i \in 1 .. Len(evts) : evts[i] \in Events
      /\ \A e \in Events : e.of = "transfer" => e.trb.id \in Nat
      /\ \A i \in 1 .. Len(cmds) : cmds[i] \in Orders
      /\ \A c \in Orders : c.id \in Nat /\ c.upto \in Nat
      /\ \A i \in 1 .. Len(tds) : tds[i].id \in Nat
      /\ \A t \in done : t.id \in Nat
  <2>1. \A e \in Events : e.of = "transfer" => e.trb.id \in Nat
    BY DEF Events, Blocks
  <2>2. \A c \in Orders : c.id \in Nat /\ c.upto \in Nat
    BY DEF Orders
  <2>3. \A t \in Trbs : t.id \in Nat
    BY TransferAssumption DEF Trbs
  <2> QED
    BY <1>a, <2>1, <2>2, <2>3
<1>1. ASSUME NEW num \in 1 .. MaxTrbNum, XhcTransfer(num)
      PROVE  Numbered'
  <2>1. /\ calls' = calls + 1 /\ urb'.id = calls' /\ UNCHANGED <<cmd, cmds, evts, done, issued>>
    BY <1>1, TransferEffect DEF XhcTransfer, NewUrb
  <2>2. \A i \in 1 .. Len(tds') : tds'[i].id <= calls'
    <3>1. TAKE i \in 1 .. Len(tds')
    <3>2. CASE i <= Len(tds)
      <4>1. i \in 1 .. Len(tds) /\ tds'[i] = tds[i]
        BY <1>1, <1>a, <3>2, TransferEffect
      <4> QED
        BY <1>a, <1>b, <2>1, <4>1 DEF Numbered
    <3>3. CASE ~(i <= Len(tds))
      <4>3. num \in Nat /\ Len(tds') = Len(tds) + num
        BY <1>1, TransferEffect
      <4>1. i - Len(tds) \in 1 .. num /\ i = Len(tds) + (i - Len(tds))
        BY <1>a, <3>3, <4>3
      <4>2. tds'[i] = Trb(calls', i - Len(tds))
        BY <1>1, <4>1, TransferEffect
      <4> QED
        BY <1>a, <2>1, <4>2 DEF Trb
    <3> QED
      BY <3>2, <3>3
  <2>3. \A i \in 1 .. Len(cmds) : cmds[i].upto <= calls'
    BY <1>a, <1>b, <2>1 DEF Numbered
  <2>4. \A i \in 1 .. Len(evts) : evts[i].of = "transfer" => evts[i].trb.id <= calls'
    BY <1>a, <1>b, <2>1 DEF Numbered
  <2>5. \A t \in done : t.id <= calls'
    BY <1>a, <1>b, <2>1 DEF Numbered
  <2> QED
    BY <2>1, <2>2, <2>3, <2>4, <2>5 DEF Numbered
<1>2. CASE Quiet
  <2>1. UNCHANGED <<tds, cmds, evts, done, calls, issued>>
    BY <1>2, QuietSteps
  <2>2. urb'.id = urb.id /\ cmd'.id = cmd.id
    <3>1. CASE CheckHaltedHc
      BY <3>1 DEF CheckHaltedHc, UrbTypes, Urbs
    <3>2. CASE BeginCheck \/ EndCheck \/ Stall \/ TransferFinished
      BY <3>2 DEF BeginCheck, EndCheck, Stall, TransferFinished
    <3>3. CASE StopFoundUrbFinished \/ SetDequeueSucceeded \/ RecoveryFailed \/ NothingToRecover \/ Return
      BY <3>3 DEF StopFoundUrbFinished, SetDequeueSucceeded, RecoveryFailed, NothingToRecover, Return
    <3> QED
      BY <1>2, <3>1, <3>2, <3>3 DEF Quiet
  <2> QED
    BY <2>1, <2>2 DEF Numbered
<1>3. CASE HandleEvent
  <2>1. Head(evts) \in Events /\ evts # << >> /\ evts' = Tail(evts)
    BY <1>3 DEF HandleEvent, RingTypes, Counters
  <2>2. /\ urb' \in {urb, Checked(urb, Head(evts))}
        /\ cmd' \in {cmd, Checked(cmd, Head(evts))}
    BY <1>3 DEF HandleEvent
  <2>3. urb'.id = urb.id /\ cmd'.id = cmd.id
    BY <2>1, <2>2, CheckedEffect DEF UrbTypes
  <2>4. Len(evts') = Len(evts) - 1 /\ \A i \in 1 .. Len(evts') : evts'[i] = evts[i + 1]
    BY <1>a, <2>1
  <2>5. UNCHANGED <<tds, cmds, done, calls, issued>>
    BY <1>3 DEF HandleEvent, hcVars
  <2>6. ASSUME NEW i \in 1 .. Len(evts'), evts'[i].of = "transfer"
        PROVE  evts'[i].trb.id <= calls
    <3>1. i + 1 \in 1 .. Len(evts) /\ evts'[i] = evts[i + 1]
      BY <1>a, <2>4
    <3> QED
      BY <2>6, <3>1 DEF Numbered
  <2> QED
    BY <2>3, <2>5, <2>6 DEF Numbered
<1>4. CASE Recovery
  <2>1. PICK kind \in Commands : XhcCmdTransfer(kind)
    BY <1>4, RecoveryCommands
  <2>2. UNCHANGED <<tds, evts, done, calls>> /\ urb'.id = urb.id
    BY <1>4, RecoveryCommands DEF UrbTypes, Urbs
  <2>3. /\ cmd'.id = issued' /\ issued <= issued' /\ issued' \in Nat
        /\ cmds' \in {cmds, Append(cmds, [id |-> issued', kind |-> kind, upto |-> calls])}
    <3>1. CASE dead
      BY <2>1, <3>1, CommandEffect DEF Numbered
    <3>2. CASE ~dead
      BY <2>1, <3>2, CommandEffect DEF Numbered
    <3> QED
      BY <3>1, <3>2
  <2>4. \A i \in 1 .. Len(cmds') : cmds'[i].id <= issued' /\ cmds'[i].upto <= calls
    <3>1. \A i \in 1 .. Len(cmds) : cmds[i].id <= issued' /\ cmds[i].upto <= calls
      BY <1>a, <1>b, <2>3 DEF Numbered
    <3>2. ASSUME NEW c, c.id <= issued', c.upto <= calls, cmds' = Append(cmds, c)
          PROVE  \A i \in 1 .. Len(cmds') : cmds'[i].id <= issued' /\ cmds'[i].upto <= calls
      BY <1>a, <3>1, <3>2
    <3>3. CASE UNCHANGED cmds
      BY <3>1, <3>3
    <3>4. CASE cmds' = Append(cmds, [id |-> issued', kind |-> kind, upto |-> calls])
      BY <1>a, <2>3, <3>2, <3>4, SMTT(30)
    <3> QED
      BY <2>3, <3>3, <3>4
  <2> QED
    BY <2>2, <2>3, <2>4 DEF Numbered
<1>5. CASE Hc
  <2>1. UNCHANGED <<urb, cmd, calls, issued>>
    BY <1>5, HcOnly DEF driverVars
  <2>2. \A i \in 1 .. Len(evts') : evts'[i].of = "transfer" => evts'[i].trb.id <= calls
    <3>1. TAKE i \in 1 .. Len(evts')
    <3>2. CASE i <= Len(evts) /\ evts'[i] = evts[i]
      BY <1>a, <3>2 DEF Numbered
    <3>3. ASSUME NEW code \in Codes, tds # << >>, evts'[i] = TransferEvent(tds[1], code)
          PROVE  evts'[i].trb.id <= calls
      BY <1>a, <3>3 DEF Numbered, TransferEvent
    <3>4. ASSUME NEW code \in Codes, evts'[i] = CommandEvent(cmds[1].id, code)
          PROVE  evts'[i].of # "transfer"
      BY <3>4 DEF CommandEvent
    <3> QED
      BY <1>5, <3>2, <3>3, <3>4, NewEvents
  <2>3. \A i \in 1 .. Len(cmds') : cmds'[i].id <= issued /\ cmds'[i].upto <= calls
    <3>1. UNCHANGED cmds \/ (cmds # << >> /\ cmds' = Tail(cmds))
      BY <1>5 DEF Hc, HcTrbSucceeds, HcTrbFails, HcRejectsCmd, HcStops, HcResets, HcSetsDequeue, HcDies,
                  HcTakesCmd, ringVars
    <3> QED
      BY <1>a, <3>1 DEF Numbered
  <2>4. /\ \A i \in 1 .. Len(tds') : tds'[i].id <= calls
        /\ \A t \in done' : t.id <= calls
    <3>1. CASE HcTrbSucceeds
      BY <1>a, <3>1 DEF HcTrbSucceeds, HcRunsTrb, Numbered
    <3>2. CASE HcSetsDequeue
      <4>1. UNCHANGED done
        BY <3>2 DEF HcSetsDequeue, hcVars
      <4>2. PICK n \in 0 .. Len(tds) :
              /\ Len(tds') = Len(tds) - n
              /\ \A i \in 1 .. Len(tds) - n : tds'[i] = tds[i + n]
        BY <1>a, <3>2, DequeueEffect
      <4>3. Len(tds) \in Nat
        BY <1>a DEF RingTypes
      <4>4. \A i \in 1 .. Len(tds') : i \in 1 .. Len(tds) - n /\ i + n \in 1 .. Len(tds)
        BY <4>2, <4>3
      <4>5. \A i \in 1 .. Len(tds) : tds[i].id <= calls
        BY <1>a DEF Numbered
      <4>6. \A i \in 1 .. Len(tds') : tds'[i].id <= calls
        BY <4>2, <4>4, <4>5
      <4> QED
        BY <1>a, <4>1, <4>6 DEF Numbered
    <3>3. CASE ~HcTrbSucceeds /\ ~HcSetsDequeue
      <4>1. UNCHANGED <<tds, done>>
        BY <1>5, <3>3 DEF Hc, HcTrbFails, HcRejectsCmd, HcStops, HcResets, HcDies, hcVars, ringVars
      <4> QED
        BY <4>1 DEF Numbered
    <3> QED
      BY <3>1, <3>2, <3>3
  <2> QED
    BY <2>1, <2>2, <2>3, <2>4 DEF Numbered
<1>6. CASE UNCHANGED vars
  BY <1>6 DEF vars, ringVars, hcVars, driverVars, Numbered
<1> QED
  BY <1>1, <1>2, <1>3, <1>4, <1>5, <1>6 DEF Next, Driver, Quiet, Recovery

-----------------------------------------------------------------------------
(* The types and the numbers hold in every state.                          *)
Types == RingTypes /\ UrbTypes /\ Phases /\ Flags /\ Counters /\ Numbered

(* The types hold at first,                                                *)
LEMMA TypesInit == Init => Types
<1> SUFFICES ASSUME Init PROVE Types
  OBVIOUS
<1>a. MaxTransfers \in Nat /\ MaxTrbNum \in Nat /\ MaxRounds \in Nat /\ MaxRounds > 0
  BY TransferAssumption
<1>1. RingTypes
  BY DEF Init, RingTypes, EpStates
<1>2. UrbTypes
  BY <1>a DEF Init, UrbTypes, NewUrb, Urbs, Results
<1>3. Phases /\ Flags
  BY DEF Init, Phases, Flags, Executed, Places, Statuses
<1>4. Counters
  BY <1>a DEF Init, Counters, Polling
<1>5. Numbered
  BY DEF Init, Numbered, NewUrb
<1> QED
  BY <1>1, <1>2, <1>3, <1>4, <1>5 DEF Types

(* after every step,                                                       *)
LEMMA TypesNext == Types /\ [Next]_vars => Types'
  BY RingTypesNext, UrbTypesNext, PhasesNext, FlagsNext, CountersNext, NumberedNext DEF Types

(* and so always.                                                          *)
LEMMA TypesHold == Spec => []Types
  BY TypesInit, TypesNext, PTL DEF Spec

-----------------------------------------------------------------------------
(* Success.                                                                *)

(* The controller executes the TRBs of a transfer in order: when one is    *)
(* done or at the head of the ring, those before it are done.              *)
InOrder ==
  /\ \A t \in done : \A p \in 1 .. t.pos : Trb(t.id, p) \in done
  /\ \A i \in 1 .. Len(tds) : \A p \in 1 .. tds[i].pos - 1 :
       \/ Trb(tds[i].id, p) \in done
       \/ \E j \in 1 .. i - 1 : tds[j] = Trb(tds[i].id, p)

(* Success is reported of TRBs that are done.                              *)
Told ==
  \A i \in 1 .. Len(evts) :
    evts[i].of = "transfer" /\ evts[i].code = "success" => evts[i].trb \in done

(* What the flags of the URB and the status of the call rest on.           *)
Judged ==
  /\ urb.end = TRUE => \A p \in 1 .. urb.num : Trb(urb.id, p) \in done
  /\ urb.finished = TRUE => urb.result # {} \/ urb.end = TRUE
  /\ exec = "transfer" /\ pc \in {"check", "stall", "timeout"} => urb.finished = FALSE
  /\ exec = "transfer" /\ pc = "finished" => urb.finished = TRUE
  /\ status = "SUCCESS" /\ calls > 0 /\ (exec \in Commands \/ pc \in {"result", "return", "idle"})
       => urb.end = TRUE

(* What the controller executed stays executed.                            *)
LEMMA DoneOnlyGrows == [Next]_vars => done \subseteq done'
<1> SUFFICES ASSUME [Next]_vars PROVE done \subseteq done'
  OBVIOUS
<1> USE DEF hcVars
<1>1. CASE \E num \in 1 .. MaxTrbNum : XhcTransfer(num)
  BY <1>1 DEF XhcTransfer
<1>2. CASE Quiet
  BY <1>2, QuietSteps
<1>3. CASE HandleEvent \/ Recovery
  BY <1>3, RecoveryCommands DEF HandleEvent
<1>4. CASE HcTrbSucceeds
  BY <1>4 DEF HcTrbSucceeds
<1>5. CASE Hc /\ ~HcTrbSucceeds
  BY <1>5 DEF Hc, HcTrbFails, HcRejectsCmd, HcStops, HcResets, HcSetsDequeue, HcDies
<1>6. CASE UNCHANGED vars
  BY <1>6 DEF vars
<1> QED
  BY <1>1, <1>2, <1>3, <1>4, <1>5, <1>6 DEF Next, Driver, Quiet, Recovery

(* Only the call, the controller with a success and Set TR Dequeue Pointer *)
(* change the TRBs that are left and done.                                 *)
LEMMA TrbsUnchanged ==
  ASSUME [Next]_vars, ~\E num \in 1 .. MaxTrbNum : XhcTransfer(num), ~HcTrbSucceeds, ~HcSetsDequeue
  PROVE  UNCHANGED <<tds, done>>
<1> USE DEF hcVars, ringVars
<1>1. CASE Quiet
  BY <1>1, QuietSteps
<1>2. CASE HandleEvent \/ Recovery
  BY <1>2, RecoveryCommands DEF HandleEvent
<1>3. CASE Hc
  BY <1>3 DEF Hc, HcTrbFails, HcRejectsCmd, HcStops, HcResets, HcDies
<1>4. CASE UNCHANGED vars
  BY <1>4 DEF vars
<1> QED
  BY <1>1, <1>2, <1>3, <1>4 DEF Next, Driver, Quiet, Recovery

(* Every step keeps the order.                                             *)
LEMMA InOrderNext == RingTypes /\ Counters /\ InOrder /\ [Next]_vars => InOrder'
<1> SUFFICES ASSUME RingTypes, Counters, InOrder, [Next]_vars PROVE InOrder'
  OBVIOUS
<1>a. /\ tds \in Seq(Trbs) /\ Len(tds) \in Nat /\ done \in SUBSET Trbs
      /\ \A i \in 1 .. Len(tds) : tds[i].pos \in Nat
  <2>1. \A t \in Trbs : t.pos \in Nat
    BY TransferAssumption DEF Trbs
  <2> QED
    BY <2>1 DEF RingTypes
<1>1. ASSUME NEW num \in 1 .. MaxTrbNum, XhcTransfer(num)
      PROVE  InOrder'
  <2>1. UNCHANGED done
    BY <1>1 DEF XhcTransfer
  <2>2. ASSUME NEW i \in 1 .. Len(tds'), NEW p \in 1 .. tds'[i].pos - 1
        PROVE  Trb(tds'[i].id, p) \in done \/ \E j \in 1 .. i - 1 : tds'[j] = Trb(tds'[i].id, p)
    <3>1. CASE i <= Len(tds)
      <4>1. i \in 1 .. Len(tds) /\ tds'[i] = tds[i]
        BY <1>1, <1>a, <3>1, TransferEffect
      <4>2. Trb(tds[i].id, p) \in done \/ \E j \in 1 .. i - 1 : tds[j] = Trb(tds[i].id, p)
        BY <2>2, <4>1 DEF InOrder
      <4>3. \A j \in 1 .. i - 1 : tds'[j] = tds[j]
        BY <1>1, <1>a, <4>1, TransferEffect
      <4> QED
        BY <4>1, <4>2, <4>3
    <3>2. CASE ~(i <= Len(tds))
      <4> DEFINE q == i - Len(tds)
      <4>1. q \in 1 .. num /\ i = Len(tds) + q
        BY <1>1, <1>a, <3>2, TransferEffect
      <4>2. tds'[i] = Trb(calls', q)
        BY <1>1, <4>1, TransferEffect
      <4>3. tds'[i].id = calls' /\ p \in 1 .. q - 1
        BY <2>2, <4>2 DEF Trb
      <4>4. p \in 1 .. num /\ Len(tds) + p \in 1 .. i - 1
        BY <1>a, <4>1, <4>3
      <4>5. tds'[Len(tds) + p] = Trb(calls', p)
        BY <1>1, <4>4, TransferEffect
      <4> QED
        BY <4>3, <4>4, <4>5
    <3> QED
      BY <3>1, <3>2
  <2> QED
    BY <2>1, <2>2 DEF InOrder
<1>2. CASE HcTrbSucceeds
  <2>1. /\ tds # << >> /\ tds' = Tail(tds) /\ done' = done \cup {tds[1]}
        /\ 1 \in 1 .. Len(tds) /\ Len(tds') = Len(tds) - 1
        /\ \A i \in 1 .. Len(tds) - 1 : tds'[i] = tds[i + 1]
    BY <1>2, <1>a DEF HcTrbSucceeds, HcRunsTrb
  <2>2. \A p \in 1 .. tds[1].pos - 1 : Trb(tds[1].id, p) \in done
    BY <2>1 DEF InOrder
  <2>3. tds[1] = Trb(tds[1].id, tds[1].pos)
    <3>1. \A t \in Trbs : t = Trb(t.id, t.pos)
      BY DEF Trb, Trbs
    <3> QED
      BY <1>a, <2>1, <3>1
  <2>4. \A t \in done' : \A p \in 1 .. t.pos : Trb(t.id, p) \in done'
    <3>1. ASSUME NEW p \in 1 .. tds[1].pos
          PROVE  Trb(tds[1].id, p) \in done'
      <4>1. p = tds[1].pos \/ p \in 1 .. tds[1].pos - 1
        BY <1>a, <2>1
      <4> QED
        BY <2>1, <2>2, <2>3, <4>1
    <3> QED
      BY <2>1, <3>1 DEF InOrder
  <2>5. ASSUME NEW i \in 1 .. Len(tds'), NEW p \in 1 .. tds'[i].pos - 1
        PROVE  Trb(tds'[i].id, p) \in done' \/ \E j \in 1 .. i - 1 : tds'[j] = Trb(tds'[i].id, p)
    <3>1. i + 1 \in 1 .. Len(tds) /\ tds'[i] = tds[i + 1]
      BY <1>a, <2>1
    <3>2. CASE Trb(tds[i + 1].id, p) \in done
      BY <2>1, <3>1, <3>2
    <3>3. ASSUME NEW j \in 1 .. (i + 1) - 1, tds[j] = Trb(tds[i + 1].id, p)
          PROVE  Trb(tds'[i].id, p) \in done' \/ \E k \in 1 .. i - 1 : tds'[k] = Trb(tds'[i].id, p)
      <4>1. CASE j = 1
        BY <2>1, <3>1, <3>3, <4>1
      <4>2. CASE j # 1
        <5>1. j - 1 \in 1 .. i - 1 /\ j - 1 \in 1 .. Len(tds) - 1 /\ (j - 1) + 1 = j
          BY <1>a, <3>1, <4>2
        <5>2. tds'[j - 1] = tds[j]
          BY <2>1, <5>1
        <5> QED
          BY <3>1, <3>3, <5>1, <5>2
      <4> QED
        BY <4>1, <4>2
    <3> QED
      BY <2>5, <3>1, <3>2, <3>3 DEF InOrder
  <2> QED
    BY <2>4, <2>5 DEF InOrder
<1>3. CASE HcSetsDequeue
  <2>1. UNCHANGED done
    BY <1>3 DEF HcSetsDequeue, hcVars
  <2>2. PICK n \in 0 .. Len(tds) :
          /\ Len(tds') = Len(tds) - n
          /\ \A i \in 1 .. Len(tds) - n : tds'[i] = tds[i + n]
          /\ \A i \in 1 .. Len(tds) : i <= n <=> tds[i].id <= cmds[1].upto
    BY <1>3, DequeueEffect
  <2>3. ASSUME NEW i \in 1 .. Len(tds'), NEW p \in 1 .. tds'[i].pos - 1
        PROVE  Trb(tds'[i].id, p) \in done \/ \E j \in 1 .. i - 1 : tds'[j] = Trb(tds'[i].id, p)
    <3>1. i + n \in 1 .. Len(tds) /\ tds'[i] = tds[i + n] /\ ~(i + n <= n)
      BY <1>a, <2>2
    <3>2. ASSUME NEW j \in 1 .. (i + n) - 1, tds[j] = Trb(tds[i + n].id, p)
          PROVE  \E k \in 1 .. i - 1 : tds'[k] = Trb(tds'[i].id, p)
      <4>1. tds[j].id = tds[i + n].id /\ j \in 1 .. Len(tds)
        BY <1>a, <3>1, <3>2 DEF Trb
      <4>2. ~(j <= n)
        BY <2>2, <3>1, <4>1
      <4>3. j - n \in 1 .. i - 1 /\ j - n \in 1 .. Len(tds) - n /\ (j - n) + n = j
        BY <1>a, <3>1, <4>1, <4>2
      <4>4. tds'[j - n] = tds[j]
        BY <2>2, <4>3
      <4> QED
        BY <3>1, <3>2, <4>3, <4>4
    <3> QED
      BY <2>3, <3>1, <3>2 DEF InOrder
  <2> QED
    BY <2>1, <2>3 DEF InOrder
<1>4. CASE UNCHANGED <<tds, done>>
  BY <1>4 DEF InOrder
<1> QED
  BY <1>1, <1>2, <1>3, <1>4, TrbsUnchanged

(* Only the call, the controller's completions and the driver's reading    *)
(* change the event ring; whatever is on it was told truly.                *)
LEMMA ToldNext == RingTypes /\ Counters /\ Told /\ [Next]_vars => Told'
<1> SUFFICES ASSUME RingTypes, Counters, Told, [Next]_vars PROVE Told'
  OBVIOUS
<1>a. evts \in Seq(Events) /\ Len(evts) \in Nat /\ done \subseteq done'
  BY DoneOnlyGrows DEF RingTypes
<1>1. CASE Hc
  <2> SUFFICES ASSUME NEW i \in 1 .. Len(evts'), evts'[i].of = "transfer", evts'[i].code = "success"
               PROVE  evts'[i].trb \in done'
    BY DEF Told
  <2>1. CASE i <= Len(evts) /\ evts'[i] = evts[i]
    BY <1>a, <2>1 DEF Told
  <2>2. ASSUME NEW code \in Codes, tds # << >>, evts'[i] = TransferEvent(tds[1], code),
               code = "success" => HcTrbSucceeds
        PROVE  evts'[i].trb \in done'
    <3>1. HcTrbSucceeds /\ evts'[i].trb = tds[1]
      BY <2>2 DEF TransferEvent
    <3>2. Head(tds) = tds[1]
      BY <2>2 DEF RingTypes
    <3> QED
      BY <3>1, <3>2 DEF HcTrbSucceeds
  <2>3. ASSUME NEW code \in Codes, evts'[i] = CommandEvent(cmds[1].id, code)
        PROVE  FALSE
    BY <2>3 DEF CommandEvent
  <2> QED
    BY <1>1, <2>1, <2>2, <2>3, NewEvents
<1>2. CASE HandleEvent
  <2>1. evts # << >> /\ evts' = Tail(evts)
    BY <1>2 DEF HandleEvent, Counters
  <2>2. Len(evts') = Len(evts) - 1 /\ \A i \in 1 .. Len(evts') : evts'[i] = evts[i + 1]
    BY <1>a, <2>1
  <2>3. \A i \in 1 .. Len(evts') : i + 1 \in 1 .. Len(evts)
    BY <1>a, <2>2
  <2> QED
    BY <1>a, <2>2, <2>3 DEF Told
<1>3. CASE UNCHANGED evts
  BY <1>a, <1>3 DEF Told
<1>4. CASE Quiet \/ Recovery \/ (\E num \in 1 .. MaxTrbNum : XhcTransfer(num)) \/ UNCHANGED vars
  <2>1. UNCHANGED evts
    BY <1>4, QuietSteps, RecoveryCommands DEF XhcTransfer, vars, ringVars
  <2> QED
    BY <1>3, <2>1
<1> QED
  BY <1>1, <1>2, <1>4 DEF Next, Driver, Quiet, Recovery

(* The driver calls a TRB good only after such an event.                   *)
LEMMA JudgedNext == Types /\ InOrder /\ Told /\ Judged /\ [Next]_vars => Judged'
<1> SUFFICES ASSUME Types, InOrder, Told, Judged, [Next]_vars PROVE Judged'
  OBVIOUS
<1>a. done \subseteq done'
  BY DoneOnlyGrows
<1>b. RingTypes /\ UrbTypes /\ Counters /\ Numbered /\ urb \in Urbs /\ pc \in Places /\ exec \in Executed
  BY DEF Types, UrbTypes, Phases
<1>c. UNCHANGED <<urb, status, calls, exec>> /\ pc' = pc => Judged'
  BY <1>a DEF Judged
<1> USE DEF Commands
<1>1. ASSUME NEW num \in 1 .. MaxTrbNum, XhcTransfer(num)
      PROVE  Judged'
  <2>1. urb' = NewUrb(calls', num) /\ exec' = "transfer" /\ pc' = "check"
    BY <1>1 DEF XhcTransfer
  <2>2. urb'.end = FALSE /\ urb'.finished = FALSE
    BY <2>1 DEF NewUrb
  <2> QED
    BY <2>1, <2>2 DEF Judged
<1>2. CASE BeginCheck
  BY <1>a, <1>2 DEF BeginCheck, Judged
<1>3. CASE CheckHaltedHc
  <2>1. /\ urb'.end = urb.end /\ urb'.finished = urb.finished /\ urb'.num = urb.num
        /\ urb'.id = urb.id /\ urb.result \subseteq urb'.result
    BY <1>b, <1>3 DEF CheckHaltedHc, Urbs
  <2>2. UNCHANGED <<status, calls, exec>> /\ pc = "check" /\ pc' = "stall"
    BY <1>3 DEF CheckHaltedHc
  <2> QED
    BY <1>a, <2>1, <2>2 DEF Judged
<1>4. CASE HandleEvent
  <2> DEFINE e == Head(evts)
             c == Checked(urb, e)
  <2>1. e = evts[1] /\ e \in Events /\ 1 \in 1 .. Len(evts)
    BY <1>b, <1>4 DEF HandleEvent, RingTypes, Counters
  <2>2. UNCHANGED <<status, calls, exec, done>> /\ pc = "handle" /\ pc' = "handle"
    BY <1>4 DEF HandleEvent, hcVars
  <2>3. CASE IsOfUrb(e)
    <3>1. urb' = c
      BY <1>4, <2>3 DEF HandleEvent
    <3>2. CASE e.code = "success"
      <4>1. /\ c.id = urb.id /\ c.num = urb.num /\ c.result = urb.result /\ c \in Urbs
            /\ c.end <=> urb.end \/ e.trb.pos = urb.num
            /\ c.finished = TRUE => urb.finished = TRUE \/ c.end = TRUE
        BY <1>b, <2>1, <3>2, CheckedEffect
      <4>2. e.trb.pos = urb.num => \A p \in 1 .. urb.num : Trb(urb.id, p) \in done
        <5>1. e.trb \in done /\ e.trb.id = urb.id
          BY <2>1, <2>3, <3>2 DEF Told, IsOfUrb
        <5> QED
          BY <5>1 DEF InOrder
      <4>3. urb.end = TRUE => c.end = TRUE
        BY <4>1
      <4>4. c.end = TRUE => \A p \in 1 .. urb.num : Trb(urb.id, p) \in done
        BY <1>b, <4>1, <4>2 DEF Judged, Urbs
      <4> HIDE DEF c
      <4> QED
        BY <2>2, <3>1, <4>1, <4>3, <4>4 DEF Judged
    <3>3. CASE e.code # "success"
      <4>1. /\ c.id = urb.id /\ c.num = urb.num /\ c.end = urb.end
            /\ c.result = urb.result \cup {IF e.code = "stall" THEN "STALL" ELSE "TIMEOUT"}
        BY <1>b, <2>1, <3>3, CheckedEffect
      <4>2. c.result # {}
        BY <4>1
      <4> HIDE DEF c
      <4> QED
        BY <2>2, <3>1, <4>1, <4>2 DEF Judged
    <3> QED
      BY <3>2, <3>3
  <2>4. CASE ~IsOfUrb(e)
    <3>1. urb' = urb
      BY <1>4, <2>4 DEF HandleEvent
    <3> QED
      BY <1>c, <2>2, <3>1
  <2> QED
    BY <2>3, <2>4
<1>5. CASE EndCheck
  <2>1. UNCHANGED <<urb, status, calls, exec, done>> /\ pc = "handle"
        /\ pc' = IF Current.finished THEN "finished" ELSE "stall"
    BY <1>5 DEF EndCheck, hcVars
  <2>2. exec = "transfer" => (pc' = "finished" <=> urb.finished = TRUE) /\ pc' \in {"finished", "stall"}
    BY <1>b, <2>1 DEF Current, Urbs
  <2>3. exec = "transfer" \/ exec \in Commands
    BY <1>b DEF Executed
  <2>4. urb.finished \in BOOLEAN
    BY <1>b DEF Urbs
  <2> QED
    BY <2>1, <2>2, <2>3, <2>4 DEF Judged
<1>6. CASE Stall
  <2>1. UNCHANGED <<urb, status, calls, exec>> /\ pc = "stall" /\ pc' \in {"timeout", "check"}
    BY <1>6 DEF Stall
  <2> QED
    BY <1>a, <2>1 DEF Judged
<1>7. CASE TransferFinished
  <2>1. /\ UNCHANGED <<urb, calls, exec>> /\ pc = "finished" /\ exec = "transfer" /\ pc' = "result"
        /\ status' = "SUCCESS" => urb.result = {}
    BY <1>7 DEF TransferFinished
  <2>2. status' = "SUCCESS" => urb.end = TRUE
    BY <2>1 DEF Judged
  <2> QED
    BY <1>a, <2>1, <2>2 DEF Judged
<1>8. CASE TransferTimeout
  <2>1. /\ exec = "transfer" /\ pc = "timeout" /\ exec' \in Commands /\ status' = "TIMEOUT"
        /\ urb' = [urb EXCEPT !.result = {}]
    BY <1>8 DEF TransferTimeout, XhcCmdTransfer
  <2>2. urb'.end = urb.end /\ urb'.finished = urb.finished /\ urb'.num = urb.num /\ urb'.id = urb.id
    BY <1>b, <2>1 DEF Urbs
  <2> QED
    BY <1>a, <2>1, <2>2 DEF Judged
<1>9. CASE StopFoundUrbFinished
  <2>1. /\ exec = "stop" /\ UNCHANGED <<urb, calls, exec>> /\ pc' = "result"
        /\ urb.finished = TRUE /\ urb.result = {}
    BY <1>b, <1>9 DEF StopFoundUrbFinished, PendingUrbFinished, Urbs
  <2> QED
    BY <1>a, <2>1 DEF Judged
<1>10. CASE StopSucceeded \/ ResetSucceeded \/ Recover
  <2>1. /\ exec' \in Commands /\ UNCHANGED <<urb, status, calls>>
        /\ exec \in Commands \/ pc = "result"
    BY <1>10 DEF StopSucceeded, ResetSucceeded, Recover, XhcCmdTransfer
  <2> QED
    BY <1>a, <2>1 DEF Judged
<1>11. CASE SetDequeueSucceeded \/ RecoveryFailed
  <2>1. exec \in Commands /\ UNCHANGED <<exec, urb, status, calls>> 
    BY <1>11 DEF SetDequeueSucceeded, RecoveryFailed
  <2> QED
    BY <1>a, <2>1 DEF Judged
<1>12. CASE NothingToRecover \/ Return
  <2>1. /\ UNCHANGED <<exec, urb, status, calls>> /\ pc \in {"result", "return"}
        /\ pc' \in {"return", "idle"}
    BY <1>12 DEF NothingToRecover, Return
  <2> QED
    BY <1>a, <2>1 DEF Judged
<1>13. CASE Hc \/ UNCHANGED vars
  BY <1>b, <1>c, <1>13, HcOnly DEF driverVars, vars
<1> QED
  BY <1>1, <1>2, <1>3, <1>4, <1>5, <1>6, <1>7, <1>8, <1>9, <1>10, <1>11, <1>12, <1>13 DEF Next, Driver

(* A call that returns EFI_SUCCESS has had every one of its TRBs executed, *)
(* for any number of calls, TRBs and rounds, and however a completion, a   *)
(* stop command and a time limit race.                                     *)
THEOREM SuccessTruthful == Spec => []SuccessIsTruthful
<1>1. Init => InOrder /\ Told /\ Judged
  BY DEF Init, InOrder, Told, Judged, NewUrb, Commands
<1>2. Types => RingTypes /\ Counters
  BY DEF Types
<1>3. Spec => [](InOrder /\ Told /\ Judged)
  BY <1>1, <1>2, TypesHold, InOrderNext, ToldNext, JudgedNext, PTL DEF Spec
<1>4. Judged => SuccessIsTruthful
  BY DEF Judged, SuccessIsTruthful
<1> QED
  BY <1>3, <1>4, PTL

-----------------------------------------------------------------------------
(* What a call leaves behind, as long as every command was answered.       *)

Own(e) == e.of = "transfer" /\ e.trb.id = calls
OwnOf(code) == \E i \in 1 .. Len(evts) : Own(evts[i]) /\ evts[i].code = code
Answer == evts[Len(evts)]
Answered == evts # << >> /\ Answer.of = "command"
InCommand == exec \in Commands /\ pc \in Polling \cup {"timeout"}
Stopping == exec = "stop" /\ pc \in Polling \cup {"timeout", "finished"}

(* An endpoint halts on a TRB, which stays on the ring.                    *)
HaltMeans == ep = "Halted" => tds # << >>

(* The ring holds the last TRBs of the present transfer, none of them done. *)
Remainder ==
  /\ Len(tds) <= urb.num
  /\ \A i \in 1 .. Len(tds) : tds[i] = Trb(calls, urb.num - Len(tds) + i)
  /\ tds # << >> => \A t \in done : t.id = calls => t.pos <= urb.num - Len(tds)
  /\ staleRun = FALSE

(* The answer to a command is the last event: nothing runs after it.       *)
Reports ==
  /\ \A i \in 1 .. Len(evts) - 1 : evts[i].of = "transfer"
  /\ \A i \in 1 .. Len(evts) : evts[i].of = "transfer" => evts[i].code # "other"

(* There is at most one command, on the ring or answered, the present one. *)
OneCommand ==
  /\ cmds \in {<< >>, <<[id |-> issued, kind |-> exec, upto |-> calls]>>}
  /\ cmds # << >> \/ Answered => InCommand /\ cmd.finished = FALSE
  /\ cmds = << >> \/ ~Answered
  /\ Answered => Answer.trb.id = issued /\ Answer.code \in {"success", "other"}
  /\ exec \in Commands /\ pc \in {"check", "stall", "timeout"} => cmd.finished = FALSE
  /\ exec \in Commands /\ pc = "finished" => cmd.finished = TRUE
  /\ InCommand /\ cmd.finished = FALSE => cmd.result = {} \/ (dead = TRUE /\ pc # "handle")

(* The endpoint is in the state the commands of the recovery need, and the *)
(* ring is empty when the recovery is through.                             *)
Endpoint ==
  /\ exec = "transfer" => ep # "Stopped"
  /\ pc \in {"idle", "result", "return"} /\ ep = "Stopped" => dead = TRUE
  /\ pc \in {"idle", "return"} => tds = << >>
  /\ exec = "stop" /\ cmds # << >> => ep # "Stopped"
  /\ exec = "reset" /\ cmds # << >> => ep = "Halted"
  /\ exec = "set_dequeue" /\ (InCommand \/ pc = "finished") => ep = "Stopped"
  /\ exec = "set_dequeue" /\ (Answered \/ (InCommand /\ cmd.finished = TRUE) \/ pc = "finished")
       => tds = << >>
  /\ Answered => IF Answer.code = "success" THEN ep = "Stopped" ELSE exec = "stop" /\ ep = "Halted"
  /\ exec \in Commands /\ pc \in {"handle", "finished"} /\ cmd.finished = TRUE =>
       IF cmd.result = {} THEN ep = "Stopped"
       ELSE exec = "stop" /\ ep = "Halted" /\ urb.result = {"STALL"}

(* The driver knows that the endpoint halted, or will read it before it    *)
(* needs to know; a URB that is through left nothing or has stalled.       *)
Stalls ==
  /\ "STALL" \in urb.result => urb.finished = TRUE
  /\ pendingUrb = TRUE => exec = "stop" /\ pc \in Polling \cup {"timeout", "finished", "failed"}
  /\ Stopping => pendingUrb = TRUE
  /\ exec = "transfer" /\ pc \in Polling \cup {"timeout"} /\ urb.finished = FALSE
       => urb.result = {} \/ (dead = TRUE /\ pc # "handle")
  /\ exec = "transfer" /\ pc \in {"handle", "finished"} => urb.result \subseteq {"STALL"}
  /\ Stopping /\ ep # "Stopped" => urb.result \subseteq {"STALL"}
  /\ exec \in {"transfer", "stop"} => (ep = "Halted" <=> "STALL" \in urb.result \/ OwnOf("stall"))
  /\ OwnOf("stopped") => exec \in Commands
  /\ OwnOf("stopped") /\ Stopping => ep = "Stopped"
  /\ pc = "result" => \/ urb.result = {} /\ tds = << >>
                      \/ urb.result = {"STALL"} /\ ep = "Halted"

Control == OneCommand /\ Endpoint /\ Stalls
Clean == Remainder /\ Reports /\ Control
Steady == Types /\ Judged /\ HaltMeans /\ Clean

(* Every step keeps the meaning of a halted endpoint.                      *)
LEMMA HaltMeansNext == RingTypes /\ Counters /\ HaltMeans /\ [Next]_vars => HaltMeans'
<1> SUFFICES ASSUME RingTypes, Counters, HaltMeans, [Next]_vars PROVE HaltMeans'
  OBVIOUS
<1> USE DEF hcVars, ringVars
<1>a. DoorBell => (ep' = "Halted" => ep = "Halted")
  BY DEF DoorBell
<1>1. ASSUME NEW num \in 1 .. MaxTrbNum, XhcTransfer(num)
      PROVE  HaltMeans'
  <2>1. DoorBell /\ Len(tds') = Len(tds) + num /\ Len(tds) \in Nat /\ num > 0
    BY <1>1, TransferEffect DEF XhcTransfer, RingTypes
  <2>2. tds' # << >>
    BY <2>1
  <2> QED
    BY <2>2 DEF HaltMeans
<1>2. CASE HcTrbSucceeds \/ HcStops \/ HcResets \/ HcSetsDequeue
  <2>1. ep' # "Halted"
    BY <1>2 DEF HcTrbSucceeds, HcRunsTrb, HcStops, HcResets, HcSetsDequeue, Fits
  <2> QED
    BY <2>1 DEF HaltMeans
<1>3. CASE \E code \in Errors : HcTrbFails(code)
  BY <1>3 DEF HcTrbFails, HcRunsTrb, HaltMeans
<1>4. CASE HcDies \/ (\E kind \in Commands : HcRejectsCmd(kind)) \/ UNCHANGED vars
  BY <1>4 DEF HcDies, HcRejectsCmd, vars, HaltMeans
<1>5. CASE HandleEvent \/ Recovery
  BY <1>5, RecoveryCommands DEF HandleEvent, HaltMeans
<1>6. CASE StopFoundUrbFinished \/ SetDequeueSucceeded
  BY <1>6, <1>a DEF StopFoundUrbFinished, SetDequeueSucceeded, HaltMeans
<1>7. CASE BeginCheck \/ CheckHaltedHc \/ EndCheck \/ Stall \/ TransferFinished
  BY <1>7 DEF BeginCheck, CheckHaltedHc, EndCheck, Stall, TransferFinished, HaltMeans
<1>8. CASE RecoveryFailed \/ NothingToRecover \/ Return
  BY <1>8 DEF RecoveryFailed, NothingToRecover, Return, HaltMeans
<1> QED
  BY <1>1, <1>2, <1>3, <1>4, <1>5, <1>6, <1>7, <1>8 DEF Next, Driver, Hc, Recovery

(* A step of the driver that leaves the rings as they are leaves what they *)
(* say as it is.                                                           *)
LEMMA DriverFrame ==
  ASSUME UNCHANGED <<tds, evts, done, staleRun, calls>>, urb'.num = urb.num, Remainder, Reports
  PROVE  /\ Remainder' /\ Reports'
         /\ Answered' <=> Answered
         /\ Answer' = Answer
         /\ OwnOf("stall")' <=> OwnOf("stall")
         /\ OwnOf("stopped")' <=> OwnOf("stopped")
<1>1. Remainder' /\ Reports'
  BY DEF Remainder, Reports
<1>2. (Answered' <=> Answered) /\ Answer' = Answer
  BY DEF Answered, Answer
<1>3. OwnOf("stall")' <=> OwnOf("stall")
  BY DEF OwnOf, Own
<1>4. OwnOf("stopped")' <=> OwnOf("stopped")
  BY DEF OwnOf, Own
<1> QED
  BY <1>1, <1>2, <1>3, <1>4

(* A poll of a round: nothing but the place in the loop changes, and the   *)
(* result when the controller is found halted.                             *)
LEMMA CleanPolls ==
  ASSUME Steady, BeginCheck \/ CheckHaltedHc \/ EndCheck \/ Stall
  PROVE  Clean'
<1>a. /\ urb \in Urbs /\ cmd \in Urbs /\ dead \in BOOLEAN /\ exec \in Executed
      /\ Remainder /\ Reports /\ OneCommand /\ Endpoint /\ Stalls
      /\ exec = "transfer" /\ pc \in {"check", "stall", "timeout"} => urb.finished = FALSE
  BY DEF Steady, Types, UrbTypes, Flags, Phases, Clean, Control, Judged
<1>b. urb.finished \in BOOLEAN /\ cmd.finished \in BOOLEAN
  BY <1>a DEF Urbs
<1>c. exec = "transfer" \/ exec \in Commands
  BY <1>a DEF Executed
<1>d. "transfer" \notin Commands
  BY DEF Commands
<1>1. CASE BeginCheck
  <2>1. /\ pc = "check" /\ dead = FALSE /\ pc' = "handle"
        /\ UNCHANGED <<tds, cmds, evts, ep, dead, done, staleRun, urb, cmd, pendingUrb, exec, calls, issued>>
    BY <1>a, <1>1 DEF BeginCheck, ringVars, hcVars
  <2>2. /\ Remainder' /\ Reports' /\ (Answered' <=> Answered) /\ Answer' = Answer
        /\ (OwnOf("stall")' <=> OwnOf("stall")) /\ (OwnOf("stopped")' <=> OwnOf("stopped"))
    BY <1>a, <2>1, DriverFrame
  <2>3. OneCommand'
    BY <1>a, <1>c, <2>1, <2>2 DEF OneCommand, InCommand, Polling
  <2>4. Endpoint'
    BY <1>a, <1>c, <2>1, <2>2 DEF Endpoint, OneCommand, InCommand, Polling
  <2>5. Stalls'
    BY <1>a, <1>c, <2>1, <2>2 DEF Stalls, Stopping, Polling
  <2> QED
    BY <2>2, <2>3, <2>4, <2>5 DEF Clean, Control
<1>2. CASE CheckHaltedHc
  <2>1. /\ pc = "check" /\ dead = TRUE /\ pc' = "stall"
        /\ UNCHANGED <<tds, cmds, evts, ep, dead, done, staleRun, pendingUrb, exec, calls, issued>>
        /\ exec = "transfer" => UNCHANGED cmd
        /\ exec # "transfer" => UNCHANGED urb
    BY <1>a, <1>2 DEF CheckHaltedHc, ringVars, hcVars
  <2>2. /\ urb'.num = urb.num /\ urb'.finished = urb.finished /\ cmd'.finished = cmd.finished
        /\ "STALL" \in urb'.result <=> "STALL" \in urb.result
    BY <1>a, <1>2 DEF CheckHaltedHc, Urbs
  <2>3. /\ Remainder' /\ Reports' /\ (Answered' <=> Answered) /\ Answer' = Answer
        /\ (OwnOf("stall")' <=> OwnOf("stall")) /\ (OwnOf("stopped")' <=> OwnOf("stopped"))
    BY <1>a, <2>1, <2>2, DriverFrame
  <2>4. OneCommand'
    BY <1>a, <1>c, <2>1, <2>2, <2>3 DEF OneCommand, InCommand, Polling
  <2>5. Endpoint'
    BY <1>a, <1>c, <2>1, <2>2, <2>3 DEF Endpoint, InCommand, Polling
  <2>6. Stalls'
    BY <1>a, <1>c, <1>d, <2>1, <2>2, <2>3 DEF Stalls, Stopping, Polling
  <2> QED
    BY <2>3, <2>4, <2>5, <2>6 DEF Clean, Control
<1>3. CASE EndCheck
  <2>1. /\ pc = "handle" /\ pc' = IF Current.finished THEN "finished" ELSE "stall"
        /\ UNCHANGED <<tds, cmds, evts, ep, dead, done, staleRun, urb, cmd, pendingUrb, exec, calls, issued>>
    BY <1>a, <1>3 DEF EndCheck, ringVars, hcVars
  <2>2. /\ exec = "transfer" => pc' = IF urb.finished = TRUE THEN "finished" ELSE "stall"
        /\ exec \in Commands => pc' = IF cmd.finished = TRUE THEN "finished" ELSE "stall"
    BY <1>b, <1>d, <2>1 DEF Current
  <2>3. /\ Remainder' /\ Reports' /\ (Answered' <=> Answered) /\ Answer' = Answer
        /\ (OwnOf("stall")' <=> OwnOf("stall")) /\ (OwnOf("stopped")' <=> OwnOf("stopped"))
    BY <1>a, <2>1, DriverFrame
  <2>4. OneCommand'
    BY <1>a, <1>b, <1>c, <2>1, <2>2, <2>3 DEF OneCommand, InCommand, Polling
  <2>5. Endpoint'
    BY <1>a, <1>b, <1>c, <1>d, <2>1, <2>2, <2>3 DEF Endpoint, OneCommand, InCommand, Polling
  <2>6. Stalls'
    BY <1>a, <1>b, <1>c, <2>1, <2>2, <2>3 DEF Stalls, Stopping, Polling
  <2> QED
    BY <2>3, <2>4, <2>5, <2>6 DEF Clean, Control
<1>4. CASE Stall
  <2>1. /\ pc = "stall" /\ pc' \in {"timeout", "check"}
        /\ UNCHANGED <<tds, cmds, evts, ep, dead, done, staleRun, urb, cmd, pendingUrb, exec, calls, issued>>
    BY <1>a, <1>4 DEF Stall, ringVars, hcVars
  <2>2. /\ Remainder' /\ Reports' /\ (Answered' <=> Answered) /\ Answer' = Answer
        /\ (OwnOf("stall")' <=> OwnOf("stall")) /\ (OwnOf("stopped")' <=> OwnOf("stopped"))
    BY <1>a, <2>1, DriverFrame
  <2>3. OneCommand'
    BY <1>a, <1>c, <2>1, <2>2 DEF OneCommand, InCommand, Polling
  <2>4. Endpoint'
    BY <1>a, <1>c, <2>1, <2>2 DEF Endpoint, InCommand, Polling
  <2>5. Stalls'
    BY <1>a, <1>c, <2>1, <2>2 DEF Stalls, Stopping, Polling
  <2> QED
    BY <2>2, <2>3, <2>4, <2>5 DEF Clean, Control
<1> QED
  BY <1>1, <1>2, <1>3, <1>4

(* A URB that finished without an error has no TRB left on the ring.       *)
LEMMA SuccessLeavesNothing ==
  ASSUME Steady, urb.finished = TRUE, urb.result = {}
  PROVE  tds = << >>
<1>1. \A p \in 1 .. urb.num : Trb(urb.id, p) \in done
  BY DEF Steady, Judged
<1>2. urb.id = calls /\ urb.num \in Nat /\ tds \in Seq(Trbs) /\ Remainder
  BY TransferAssumption DEF Steady, Types, Numbered, UrbTypes, Urbs, RingTypes, Clean
<1> SUFFICES ASSUME tds # << >> PROVE FALSE
  OBVIOUS
<1>3. Len(tds) \in Nat /\ Len(tds) > 0
  BY <1>2
<1>4. Trb(calls, urb.num) \in done
  BY <1>1, <1>2, <1>3 DEF Remainder
<1>5. Trb(calls, urb.num).id = calls /\ Trb(calls, urb.num).pos = urb.num
  BY DEF Trb
<1>6. urb.num <= urb.num - Len(tds)
  BY <1>2, <1>4, <1>5 DEF Remainder
<1> QED
  BY <1>2, <1>3, <1>6

(* What follows a URB or a command that is through, without a new command. *)
LEMMA CleanOutcomes ==
  ASSUME Steady, failures = 0, failures' = 0,
         \/ TransferFinished \/ StopFoundUrbFinished \/ SetDequeueSucceeded
         \/ RecoveryFailed \/ NothingToRecover \/ Return
  PROVE  Clean'
<1>a. /\ urb \in Urbs /\ cmd \in Urbs /\ dead \in BOOLEAN /\ exec \in Executed /\ ep \in EpStates
      /\ Remainder /\ Reports /\ OneCommand /\ Endpoint /\ Stalls /\ HaltMeans
      /\ exec = "transfer" /\ pc = "finished" => urb.finished = TRUE
  BY DEF Steady, Types, RingTypes, UrbTypes, Flags, Phases, Clean, Control, Judged
<1>b. urb.finished \in BOOLEAN /\ cmd.finished \in BOOLEAN
  BY <1>a DEF Urbs
<1>c. exec = "transfer" \/ exec \in Commands
  BY <1>a DEF Executed
<1>d. "transfer" \notin Commands
  BY DEF Commands
<1>e. DoorBell => ep' \in {ep, "Running"} /\ (ep' = "Stopped" => dead = TRUE)
  BY <1>a DEF DoorBell
<1>1. CASE TransferFinished
  <2>1. /\ exec = "transfer" /\ pc = "finished" /\ pc' = "result"
        /\ UNCHANGED <<tds, cmds, evts, ep, dead, done, staleRun, urb, cmd, pendingUrb, exec, calls, issued>>
    BY <1>1 DEF TransferFinished, ringVars, hcVars
  <2>2. /\ Remainder' /\ Reports' /\ (Answered' <=> Answered) /\ Answer' = Answer
        /\ (OwnOf("stall")' <=> OwnOf("stall")) /\ (OwnOf("stopped")' <=> OwnOf("stopped"))
    BY <1>a, <2>1, DriverFrame
  <2>3. urb.result = {} => tds = << >>
    BY <1>a, <2>1, SuccessLeavesNothing
  <2>4. urb.result = {} \/ (urb.result = {"STALL"} /\ ep = "Halted")
    BY <1>a, <2>1 DEF Stalls
  <2>5. OneCommand'
    BY <1>a, <1>d, <2>1, <2>2 DEF OneCommand, InCommand, Polling
  <2>6. Endpoint'
    BY <1>a, <1>d, <2>1, <2>2 DEF Endpoint, InCommand, Polling
  <2>7. Stalls'
    BY <1>a, <2>1, <2>2, <2>3, <2>4 DEF Stalls, Stopping, Polling
  <2> QED
    BY <2>2, <2>5, <2>6, <2>7 DEF Clean, Control
<1>2. CASE StopFoundUrbFinished
  <2>1. /\ exec = "stop" /\ pc = "finished" /\ pc' = "result" /\ cmd.result = {} /\ DoorBell
        /\ urb.finished = TRUE /\ urb.result = {} /\ pendingUrb' = FALSE
        /\ UNCHANGED <<tds, cmds, evts, dead, done, staleRun, urb, cmd, exec, calls, issued>>
    BY <1>b, <1>2 DEF StopFoundUrbFinished, CommandSucceeded, PendingUrbFinished, ringVars
  <2>2. /\ Remainder' /\ Reports' /\ (Answered' <=> Answered) /\ Answer' = Answer
        /\ (OwnOf("stall")' <=> OwnOf("stall")) /\ (OwnOf("stopped")' <=> OwnOf("stopped"))
    BY <1>a, <2>1, DriverFrame
  <2>3. tds = << >> /\ ep = "Stopped"
    BY <1>a, <2>1, SuccessLeavesNothing DEF OneCommand, Endpoint, Commands
  <2>4. ~Answered /\ cmds = << >> /\ ep' # "Halted"
    BY <1>a, <1>e, <2>1, <2>3 DEF OneCommand, InCommand, Polling
  <2>5. OneCommand'
    BY <1>a, <2>1, <2>2 DEF OneCommand, InCommand, Polling
  <2>6. Endpoint'
    BY <1>a, <1>e, <2>1, <2>2, <2>3, <2>4 DEF Endpoint, InCommand, Polling
  <2>7. Stalls'
    BY <1>a, <1>e, <2>1, <2>2, <2>3, <2>4 DEF Stalls, Stopping, Polling
  <2> QED
    BY <2>2, <2>5, <2>6, <2>7 DEF Clean, Control
<1>3. CASE SetDequeueSucceeded
  <2>1. /\ exec = "set_dequeue" /\ pc = "finished" /\ pc' = "return" /\ DoorBell
        /\ UNCHANGED <<tds, cmds, evts, dead, done, staleRun, urb, cmd, exec, pendingUrb, calls, issued>>
    BY <1>3 DEF SetDequeueSucceeded, CommandSucceeded, ringVars
  <2>2. /\ Remainder' /\ Reports' /\ (Answered' <=> Answered) /\ Answer' = Answer
        /\ (OwnOf("stall")' <=> OwnOf("stall")) /\ (OwnOf("stopped")' <=> OwnOf("stopped"))
    BY <1>a, <2>1, DriverFrame
  <2>3. tds = << >> /\ ep = "Stopped" /\ ~Answered
    BY <1>a, <2>1 DEF Endpoint, OneCommand, InCommand, Polling
  <2>4. OneCommand'
    BY <1>a, <2>1, <2>2 DEF OneCommand, InCommand, Polling
  <2>5. Endpoint'
    BY <1>a, <1>e, <2>1, <2>2, <2>3 DEF Endpoint, InCommand, Polling
  <2>6. Stalls'
    BY <1>a, <1>e, <2>1, <2>2, <2>3 DEF Stalls, Stopping, Polling
  <2> QED
    BY <2>2, <2>4, <2>5, <2>6 DEF Clean, Control
<1>4. CASE RecoveryFailed
  <2>1. /\ exec \in Commands /\ CommandFailed /\ pendingUrb' = FALSE
        /\ failures' = (IF pc = "finished" THEN failures ELSE failures + 1)
        /\ pc' = IF exec = "stop" THEN "result" ELSE "return"
        /\ UNCHANGED <<tds, cmds, evts, ep, dead, done, staleRun, urb, cmd, exec, calls, issued>>
    BY <1>4 DEF RecoveryFailed, ringVars, hcVars
  <2>2. pc = "finished" /\ cmd.result # {}
    BY <2>1 DEF CommandFailed
  <2>3. /\ Remainder' /\ Reports' /\ (Answered' <=> Answered) /\ Answer' = Answer
        /\ (OwnOf("stall")' <=> OwnOf("stall")) /\ (OwnOf("stopped")' <=> OwnOf("stopped"))
    BY <1>a, <2>1, DriverFrame
  <2>4. cmd.finished = TRUE
    BY <1>a, <2>1, <2>2 DEF OneCommand
  <2>5. exec = "stop" /\ ep = "Halted" /\ urb.result = {"STALL"}
    BY <1>a, <2>1, <2>2, <2>4 DEF Endpoint
  <2>6. ~Answered /\ cmds = << >>
    BY <1>a, <2>2 DEF OneCommand, InCommand, Polling
  <2>7. OneCommand'
    BY <1>a, <2>1, <2>3, <2>5, <2>6 DEF OneCommand, InCommand, Polling
  <2>8. Endpoint'
    BY <1>a, <2>1, <2>3, <2>5, <2>6 DEF Endpoint, InCommand, Polling
  <2>9. Stalls'
    BY <1>a, <2>1, <2>3, <2>5 DEF Stalls, Stopping, Polling
  <2> QED
    BY <2>3, <2>7, <2>8, <2>9 DEF Clean, Control
<1>5. CASE NothingToRecover \/ Return
  <2>1. /\ \/ pc = "result" /\ urb.result # {"STALL"} /\ pc' = "return"
           \/ pc = "return" /\ pc' = "idle"
        /\ UNCHANGED <<tds, cmds, evts, ep, dead, done, staleRun, urb, cmd, exec, pendingUrb, calls, issued>>
    BY <1>5 DEF NothingToRecover, Return, ringVars, hcVars
  <2>2. /\ Remainder' /\ Reports' /\ (Answered' <=> Answered) /\ Answer' = Answer
        /\ (OwnOf("stall")' <=> OwnOf("stall")) /\ (OwnOf("stopped")' <=> OwnOf("stopped"))
    BY <1>a, <2>1, DriverFrame
  <2>3. tds = << >>
    BY <1>a, <2>1 DEF Stalls, Endpoint
  <2>4. OneCommand'
    BY <1>a, <2>1, <2>2 DEF OneCommand, InCommand, Polling
  <2>5. Endpoint'
    BY <1>a, <2>1, <2>2, <2>3 DEF Endpoint, InCommand, Polling
  <2>6. Stalls'
    BY <1>a, <2>1, <2>2 DEF Stalls, Stopping, Polling
  <2> QED
    BY <2>2, <2>4, <2>5, <2>6 DEF Clean, Control
<1> QED
  BY <1>1, <1>2, <1>3, <1>4, <1>5

(* A command is put on an empty command ring, or not at all.               *)
LEMMA NewCommand ==
  ASSUME Steady, NEW kind \in Commands, XhcCmdTransfer(kind),
         UNCHANGED <<tds, evts, ep, dead, done, staleRun, calls>>, urb'.num = urb.num,
         cmds = << >>, ~Answered,
         kind = "stop" => ep # "Stopped",
         kind = "reset" => ep = "Halted",
         kind = "set_dequeue" => ep = "Stopped"
  PROVE  /\ Remainder' /\ Reports' /\ OneCommand' /\ Endpoint'
         /\ exec' = kind /\ pc' \in {"check", "failed"}
         /\ OwnOf("stall")' <=> OwnOf("stall")
         /\ OwnOf("stopped")' <=> OwnOf("stopped")
<1>a. /\ RingTypes /\ UrbTypes /\ Counters /\ cmd.id = issued /\ dead \in BOOLEAN
      /\ Remainder /\ Reports /\ OneCommand /\ Endpoint
  BY DEF Steady, Types, Flags, Numbered, Clean, Control
<1>b. kind # "transfer" /\ kind \in Commands
  BY DEF Commands
<1>1. /\ Remainder' /\ Reports' /\ (Answered' <=> Answered)
      /\ (OwnOf("stall")' <=> OwnOf("stall")) /\ (OwnOf("stopped")' <=> OwnOf("stopped"))
  BY <1>a, DriverFrame
<1>2. CASE dead = TRUE
  <2>1. exec' = kind /\ pc' = "failed" /\ cmds' = << >>
    BY <1>a, <1>2, CommandEffect
  <2>2. OneCommand'
    BY <1>1, <2>1 DEF OneCommand, InCommand, Polling
  <2>3. Endpoint'
    BY <1>1, <1>b, <2>1 DEF Endpoint, InCommand, Polling
  <2> QED
    BY <1>1, <2>1, <2>2, <2>3
<1>3. CASE dead = FALSE
  <2> DEFINE c == [id |-> issued', kind |-> kind, upto |-> calls]
  <2>1. exec' = kind /\ pc' = "check" /\ cmd' = NewUrb(issued', 1) /\ cmds' = Append(cmds, c)
    BY <1>a, <1>3, CommandEffect
  <2>2. cmds' = <<c>>
    BY <2>1
  <2>3. cmd'.finished = FALSE /\ cmd'.result = {}
    BY <2>1 DEF NewUrb
  <2>4. cmds' \in {<< >>, <<[id |-> issued', kind |-> exec', upto |-> calls']>>}
    BY <2>1, <2>2
  <2>5. OneCommand'
    BY <1>1, <1>b, <2>1, <2>3, <2>4 DEF OneCommand, InCommand, Polling
  <2>6. Endpoint'
    BY <1>1, <1>b, <2>1, <2>3 DEF Endpoint, InCommand, Polling
  <2> QED
    BY <1>1, <2>1, <2>5, <2>6
<1> QED
  BY <1>a, <1>2, <1>3

(* The commands of the recovery are issued one at a time, and fit.         *)
LEMMA CleanCommands ==
  ASSUME Steady, Recovery
  PROVE  Clean'
<1>a. /\ urb \in Urbs /\ cmd \in Urbs /\ dead \in BOOLEAN /\ exec \in Executed /\ ep \in EpStates
      /\ OneCommand /\ Endpoint /\ Stalls
      /\ exec = "transfer" /\ pc \in {"check", "stall", "timeout"} => urb.finished = FALSE
  BY DEF Steady, Types, RingTypes, UrbTypes, Flags, Phases, Clean, Control, Judged
<1>b. "transfer" \notin Commands /\ {"stop", "reset", "set_dequeue"} = Commands
  BY DEF Commands
<1>c. UNCHANGED <<tds, evts, ep, dead, done, staleRun, calls>> /\ urb'.num = urb.num
  BY <1>a, RecoveryCommands DEF Urbs
<1>1. CASE TransferTimeout
  <2>1. /\ exec = "transfer" /\ pc = "timeout" /\ XhcCmdTransfer("stop") /\ pendingUrb' = TRUE
        /\ urb' = [urb EXCEPT !.result = {}]
    BY <1>1 DEF TransferTimeout
  <2>2. urb'.result = {} /\ urb.finished = FALSE
    BY <1>a, <2>1 DEF Urbs
  <2>3. cmds = << >> /\ ~Answered /\ ep # "Stopped"
    BY <1>a, <1>b, <2>1 DEF OneCommand, InCommand, Endpoint
  <2>4. /\ Remainder' /\ Reports' /\ OneCommand' /\ Endpoint'
        /\ exec' = "stop" /\ pc' \in {"check", "failed"}
        /\ (OwnOf("stall")' <=> OwnOf("stall")) /\ (OwnOf("stopped")' <=> OwnOf("stopped"))
    BY <1>b, <1>c, <2>1, <2>3, NewCommand
  <2>5. (ep = "Halted" <=> OwnOf("stall")) /\ ~OwnOf("stopped")
    BY <1>a, <1>b, <2>1, <2>2 DEF Stalls
  <2>6. Stalls'
    BY <1>b, <1>c, <2>1, <2>2, <2>4, <2>5 DEF Stalls, Stopping, Polling
  <2> QED
    BY <2>4, <2>6 DEF Clean, Control
<1>2. CASE StopSucceeded
  <2>1. /\ exec = "stop" /\ pc = "finished" /\ cmd.result = {} /\ XhcCmdTransfer("set_dequeue")
        /\ pendingUrb' = FALSE /\ UNCHANGED urb
    BY <1>2 DEF StopSucceeded, CommandSucceeded
  <2>2. cmds = << >> /\ ~Answered /\ ep = "Stopped"
    BY <1>a, <1>b, <2>1 DEF OneCommand, InCommand, Endpoint, Polling
  <2>3. /\ Remainder' /\ Reports' /\ OneCommand' /\ Endpoint'
        /\ exec' = "set_dequeue" /\ pc' \in {"check", "failed"}
    BY <1>b, <1>c, <2>1, <2>2, NewCommand
  <2>4. Stalls'
    BY <1>a, <1>b, <2>1, <2>3 DEF Stalls, Stopping, Polling
  <2> QED
    BY <2>3, <2>4 DEF Clean, Control
<1>3. CASE ResetSucceeded
  <2>1. /\ exec = "reset" /\ pc = "finished" /\ cmd.result = {} /\ XhcCmdTransfer("set_dequeue")
        /\ UNCHANGED <<urb, pendingUrb>>
    BY <1>3 DEF ResetSucceeded, CommandSucceeded
  <2>2. cmds = << >> /\ ~Answered /\ ep = "Stopped"
    BY <1>a, <1>b, <2>1 DEF OneCommand, InCommand, Endpoint, Polling
  <2>3. /\ Remainder' /\ Reports' /\ OneCommand' /\ Endpoint'
        /\ exec' = "set_dequeue" /\ pc' \in {"check", "failed"}
    BY <1>b, <1>c, <2>1, <2>2, NewCommand
  <2>4. Stalls'
    BY <1>a, <1>b, <2>1, <2>3 DEF Stalls, Stopping, Polling
  <2> QED
    BY <2>3, <2>4 DEF Clean, Control
<1>4. CASE Recover
  <2>1. /\ pc = "result" /\ urb.result = {"STALL"} /\ XhcCmdTransfer("reset")
        /\ UNCHANGED <<urb, pendingUrb>>
    BY <1>4 DEF Recover
  <2>2. cmds = << >> /\ ~Answered /\ ep = "Halted"
    BY <1>a, <1>b, <2>1 DEF OneCommand, InCommand, Polling, Stalls
  <2>3. /\ Remainder' /\ Reports' /\ OneCommand' /\ Endpoint'
        /\ exec' = "reset" /\ pc' \in {"check", "failed"}
    BY <1>b, <1>c, <2>1, <2>2, NewCommand
  <2>4. Stalls'
    BY <1>a, <1>b, <2>1, <2>3 DEF Stalls, Stopping, Polling
  <2> QED
    BY <2>3, <2>4 DEF Clean, Control
<1> QED
  BY <1>1, <1>2, <1>3, <1>4 DEF Recovery

(* A call finds the rings empty and the endpoint running.                  *)
LEMMA CleanTransfer ==
  ASSUME Steady, NEW num \in 1 .. MaxTrbNum, XhcTransfer(num)
  PROVE  Clean'
<1>a. /\ RingTypes /\ Counters /\ Numbered /\ ep \in EpStates /\ dead \in BOOLEAN
      /\ Remainder /\ Reports /\ OneCommand /\ Endpoint /\ Stalls
      /\ evts \in Seq(Events) /\ calls \in Nat
  BY TransferAssumption DEF Steady, Types, RingTypes, Counters, Flags, Clean, Control
<1>b. "transfer" \notin Commands
  BY DEF Commands
<1>1. /\ pc = "idle" /\ dead = FALSE /\ exec' = "transfer" /\ pc' = "check" /\ DoorBell
      /\ UNCHANGED <<cmds, evts, dead, done, staleRun, cmd, pendingUrb, issued>>
      /\ calls' = calls + 1 /\ urb' = NewUrb(calls', num)
  BY <1>a, TransferEffect DEF XhcTransfer
<1>2. tds = << >> /\ cmds = << >> /\ ~Answered /\ ep # "Halted" /\ ep # "Stopped"
  BY <1>a, <1>1 DEF Endpoint, OneCommand, InCommand, Polling, Steady, HaltMeans
<1>3. ep' = "Running"
  BY <1>a, <1>1, <1>2 DEF DoorBell, EpStates
<1>4. /\ num \in Nat /\ Len(tds') = num /\ calls' \in Nat
      /\ \A i \in 1 .. num : tds'[i] = Trb(calls', i)
  <2>1. Len(tds) = 0 /\ num \in Nat
    BY <1>2, TransferAssumption
  <2>2. Len(tds') = 0 + num /\ \A i \in 1 .. num : tds'[0 + i] = Trb(calls', i)
    BY <1>a, <2>1, TransferEffect
  <2> QED
    BY <1>a, <1>1, <2>1, <2>2
<1>5. urb'.num = num /\ urb'.result = {} /\ urb'.finished = FALSE
  BY <1>1 DEF NewUrb
<1>6. Remainder'
  <2>1. \A i \in 1 .. Len(tds') : tds'[i] = Trb(calls', urb'.num - Len(tds') + i)
    <3>1. \A i \in 1 .. num : num - num + i = i
      BY <1>4
    <3> QED
      BY <1>4, <1>5, <3>1
  <2>2. \A t \in done' : t.id # calls'
    <3>1. \A t \in Trbs : t.id \in Nat
      BY TransferAssumption DEF Trbs
    <3> QED
      BY <1>a, <1>1, <3>1 DEF Numbered, RingTypes
  <2> QED
    BY <1>a, <1>1, <1>4, <1>5, <2>1, <2>2 DEF Remainder
<1>7. Reports'
  BY <1>a, <1>1 DEF Reports
<1>8. ~Answered' /\ ~OwnOf("stall")' /\ ~OwnOf("stopped")'
  <2>1. ~Answered'
    BY <1>1, <1>2 DEF Answered, Answer
  <2>2. \A i \in 1 .. Len(evts') : ~(evts'[i].of = "transfer" /\ evts'[i].trb.id = calls')
    <3>1. TAKE i \in 1 .. Len(evts')
    <3>2. evts'[i] = evts[i] /\ evts[i].of = "transfer" => evts[i].trb.id <= calls
      BY <1>a, <1>1 DEF Numbered
    <3> QED
      BY <1>a, <1>1, <3>2
  <2> QED
    BY <2>1, <2>2 DEF OwnOf, Own
<1>9. OneCommand'
  BY <1>1, <1>2, <1>8, <1>b DEF OneCommand, InCommand
<1>10. Endpoint'
  BY <1>1, <1>2, <1>3, <1>8, <1>b DEF Endpoint, InCommand
<1>11. Stalls'
  BY <1>a, <1>1, <1>3, <1>5, <1>8, <1>b DEF Stalls, Stopping, Polling
<1> QED
  BY <1>6, <1>7, <1>9, <1>10, <1>11 DEF Clean, Control

(* What reading the first event leaves of the others.                      *)
LEMMA ReadEffect ==
  ASSUME evts \in Seq(Events), evts # << >>, evts' = Tail(evts), UNCHANGED calls, Reports
  PROVE  /\ evts[1] \in Events /\ Head(evts) = evts[1] /\ Reports'
         /\ evts[1].of = "transfer" => evts[1].code # "other"
         /\ evts[1].of = "transfer" => (Answered' <=> Answered) /\ (Answered => Answer' = Answer)
         /\ evts[1].of = "command" =>
              /\ Answered /\ Answer = evts[1] /\ evts' = << >>
              /\ \A code \in Codes : ~OwnOf(code) /\ ~OwnOf(code)'
         /\ \A code \in Codes :
              OwnOf(code) <=> OwnOf(code)' \/ (Own(evts[1]) /\ evts[1].code = code)
<1>1. /\ Len(evts) \in Nat /\ Len(evts) > 0 /\ evts[1] \in Events /\ Head(evts) = evts[1]
      /\ Len(evts') = Len(evts) - 1
      /\ \A i \in 1 .. Len(evts) - 1 : evts'[i] = evts[i + 1]
  OBVIOUS
<1>2. evts' = << >> <=> Len(evts) = 1
  <2>1. evts' \in Seq(Events)
    OBVIOUS
  <2>2. evts' = << >> <=> Len(evts') = 0
    BY <2>1, EmptySeq
  <2> QED
    BY <1>1, <2>2
<1>3. Reports'
  <2>1. \A i \in 1 .. Len(evts) - 1 : i + 1 \in 1 .. Len(evts)
    BY <1>1
  <2>2. \A i \in 1 .. Len(evts') - 1 : i + 1 \in 1 .. Len(evts) - 1 /\ i \in 1 .. Len(evts) - 1
    BY <1>1
  <2> QED
    BY <1>1, <2>1, <2>2 DEF Reports
<1>4. evts[1].of = "transfer" => evts[1].code # "other"
  BY <1>1 DEF Reports
<1>5. Len(evts) # 1 => evts'[Len(evts')] = evts[Len(evts)]
  <2>1. Len(evts) # 1 => Len(evts) - 1 \in 1 .. Len(evts) - 1 /\ (Len(evts) - 1) + 1 = Len(evts)
    BY <1>1
  <2> QED
    BY <1>1, <2>1
<1>6. evts[1].of = "transfer" => (Answered' <=> Answered) /\ (Answered => Answer' = Answer)
  <2>1. CASE Len(evts) = 1
    BY <1>1, <1>2, <2>1 DEF Answered, Answer
  <2>2. CASE Len(evts) # 1
    BY <1>2, <1>5, <2>2 DEF Answered, Answer
  <2> QED
    BY <2>1, <2>2
<1>7. evts[1].of = "command" => Len(evts) = 1
  <2>1. Len(evts) # 1 => 1 \in 1 .. Len(evts) - 1
    BY <1>1
  <2> QED
    BY <2>1 DEF Reports
<1>8. evts[1].of = "command" =>
        /\ Answered /\ Answer = evts[1] /\ evts' = << >>
        /\ \A code \in Codes : ~OwnOf(code) /\ ~OwnOf(code)'
  <2> SUFFICES ASSUME evts[1].of = "command"
               PROVE  /\ Answered /\ Answer = evts[1] /\ evts' = << >>
                      /\ \A code \in Codes : ~OwnOf(code) /\ ~OwnOf(code)'
    OBVIOUS
  <2>1. Len(evts) = 1 /\ evts' = << >>
    BY <1>2, <1>7
  <2>2. \A i \in 1 .. Len(evts) : evts[i].of # "transfer"
    BY <2>1
  <2>3. \A i \in 1 .. Len(evts') : FALSE
    BY <2>1
  <2> QED
    BY <2>1, <2>2, <2>3 DEF Answered, Answer, OwnOf, Own
<1>9. ASSUME NEW code \in Codes
      PROVE  OwnOf(code) <=> OwnOf(code)' \/ (Own(evts[1]) /\ evts[1].code = code)
  <2>1. OwnOf(code)' => OwnOf(code)
    <3>1. ASSUME NEW i \in 1 .. Len(evts'), evts'[i].of = "transfer" /\ evts'[i].trb.id = calls /\ evts'[i].code = code
          PROVE  OwnOf(code)
      <4>1. i + 1 \in 1 .. Len(evts) /\ evts[i + 1] = evts'[i]
        BY <1>1
      <4> QED
        BY <3>1, <4>1 DEF OwnOf, Own
    <3> QED
      BY <3>1 DEF OwnOf, Own
  <2>2. (Own(evts[1]) /\ evts[1].code = code) => OwnOf(code)
    BY <1>1 DEF OwnOf
  <2>3. ASSUME NEW i \in 1 .. Len(evts), Own(evts[i]) /\ evts[i].code = code, i # 1
        PROVE  OwnOf(code)'
    <3>1. i - 1 \in 1 .. Len(evts') /\ i - 1 \in 1 .. Len(evts) - 1 /\ (i - 1) + 1 = i
      BY <1>1, <2>3
    <3>2. evts'[i - 1] = evts[i]
      BY <1>1, <3>1
    <3> QED
      BY <2>3, <3>1, <3>2 DEF OwnOf, Own
  <2> QED
    BY <2>1, <2>2, <2>3 DEF OwnOf
<1> QED
  BY <1>1, <1>3, <1>4, <1>6, <1>8, <1>9

(* An event of the transfer, and an answer.                                *)
LEMMA CleanHandle ==
  ASSUME Steady, HandleEvent
  PROVE  Clean'
<1>a. /\ RingTypes /\ Counters /\ urb \in Urbs /\ cmd \in Urbs /\ dead \in BOOLEAN /\ exec \in Executed
      /\ urb.id = calls /\ cmd.id = issued /\ evts \in Seq(Events)
      /\ Remainder /\ Reports /\ OneCommand /\ Endpoint /\ Stalls
  BY DEF Steady, Types, RingTypes, UrbTypes, Flags, Phases, Numbered, Clean, Control
<1>b. urb.finished \in BOOLEAN /\ cmd.finished \in BOOLEAN /\ pendingUrb \in BOOLEAN
  BY <1>a DEF Urbs, Steady, Types, Flags
<1>c. "transfer" \notin Commands /\ {"stop", "reset", "set_dequeue"} = Commands
      /\ (exec = "transfer" \/ exec \in Commands)
  BY <1>a DEF Commands, Executed
<1>d. "stall" \in Codes /\ "stopped" \in Codes
  BY DEF Codes
<1> DEFINE e == evts[1]
<1>1. /\ pc = "handle" /\ pc' = "handle" /\ evts # << >> /\ evts' = Tail(evts)
      /\ UNCHANGED <<tds, cmds, ep, dead, done, staleRun, pendingUrb, exec, calls, issued>>
  BY <1>a DEF HandleEvent, Counters, hcVars
<1>2. /\ e \in Events /\ Head(evts) = e /\ Reports'
      /\ e.of = "transfer" => e.code # "other"
      /\ e.of = "transfer" => (Answered' <=> Answered) /\ (Answered => Answer' = Answer)
      /\ e.of = "command" => /\ Answered /\ Answer = e /\ evts' = << >>
                             /\ ~OwnOf("stall") /\ ~OwnOf("stall")'
                             /\ ~OwnOf("stopped") /\ ~OwnOf("stopped")'
      /\ OwnOf("stall") <=> OwnOf("stall")' \/ (Own(e) /\ e.code = "stall")
      /\ OwnOf("stopped") <=> OwnOf("stopped")' \/ (Own(e) /\ e.code = "stopped")
  BY <1>a, <1>d, <1>1, ReadEffect
<1>3. /\ urb' = IF IsOfUrb(e) THEN Checked(urb, e) ELSE urb
      /\ cmd' = IF IsOfCmd(e) THEN Checked(cmd, e) ELSE cmd
  BY <1>2 DEF HandleEvent
<1>4. /\ Checked(urb, e).num = urb.num
      /\ urb.finished = TRUE => Checked(urb, e).finished = TRUE
      /\ e.code = "success" => Checked(urb, e).result = urb.result
      /\ e.code # "success" =>
           /\ Checked(urb, e).finished = TRUE
           /\ Checked(urb, e).result = urb.result \cup {IF e.code = "stall" THEN "STALL" ELSE "TIMEOUT"}
  BY <1>a, <1>2, CheckedEffect
<1>5. /\ e.code = "success" => Checked(cmd, e).result = cmd.result
      /\ e.code # "success" =>
           /\ Checked(cmd, e).finished = TRUE
           /\ Checked(cmd, e).result = cmd.result \cup {IF e.code = "stall" THEN "STALL" ELSE "TIMEOUT"}
  BY <1>a, <1>2, CheckedEffect
<1>t. urb' \in Urbs /\ cmd' \in Urbs
  BY <1>a, <1>2, <1>3, CheckedEffect
<1>f. urb'.finished \in BOOLEAN /\ cmd'.finished \in BOOLEAN
  BY <1>t DEF Urbs
<1>6. Remainder'
  BY <1>a, <1>1, <1>3, <1>4 DEF Remainder
<1> HIDE DEF e
<1>7. CASE e.of = "command"
  <2>1. ~IsOfUrb(e) /\ UNCHANGED urb
    BY <1>3, <1>7 DEF IsOfUrb
  <2>2. ~Answered' /\ exec \in Commands /\ cmd.finished = FALSE /\ cmds = << >> /\ cmd.result = {}
    BY <1>a, <1>1, <1>2, <1>7 DEF Answered, OneCommand, InCommand
  <2>3. IsOfCmd(e) /\ cmd' = Checked(cmd, e)
    BY <1>a, <1>c, <1>2, <1>3, <1>7, <2>2 DEF IsOfCmd, OneCommand
  <2>4. OneCommand'
    BY <1>a, <1>c, <1>f, <1>1, <1>5, <2>2, <2>3 DEF OneCommand, InCommand, Polling
  <2>5. e.code = "success" => ep = "Stopped" /\ cmd'.result = {}
    BY <1>a, <1>2, <1>5, <1>7, <2>2, <2>3 DEF Endpoint
  <2>6. e.code # "success" => exec = "stop" /\ ep = "Halted" /\ urb.result = {"STALL"} /\ cmd'.result # {}
    <3>1. e.code # "success" => exec = "stop" /\ ep = "Halted" /\ cmd'.result # {}
      BY <1>a, <1>2, <1>5, <1>7, <2>2, <2>3 DEF Endpoint
    <3>2. exec = "stop" /\ ep = "Halted" => urb.result \subseteq {"STALL"} /\ "STALL" \in urb.result
      BY <1>a, <1>1, <1>2, <1>7 DEF Stalls, Stopping, Polling
    <3> QED
      BY <3>1, <3>2
  <2>7. exec = "set_dequeue" => tds = << >>
    BY <1>a, <1>2, <1>7 DEF Endpoint
  <2>8. Endpoint'
    BY <1>a, <1>c, <1>1, <2>1, <2>2, <2>5, <2>6, <2>7 DEF Endpoint, InCommand, Polling
  <2>9. Stalls'
    BY <1>a, <1>c, <1>1, <1>2, <1>7, <2>1 DEF Stalls, Stopping, Polling
  <2> QED
    BY <1>2, <1>6, <2>4, <2>8, <2>9 DEF Clean, Control
<1>8. CASE e.of = "transfer"
  <2>1. ~IsOfCmd(e) /\ UNCHANGED cmd
    BY <1>3, <1>8 DEF IsOfCmd
  <2>2. OneCommand'
    BY <1>a, <1>1, <1>2, <1>8, <2>1 DEF OneCommand, InCommand, Polling
  <2>3. CASE IsOfUrb(e)
    <3>1. Own(e) /\ (exec = "transfer" \/ Stopping) /\ exec \in {"transfer", "stop"}
      BY <1>a, <1>b, <1>1, <2>3 DEF IsOfUrb, Own, Stalls, Stopping, Polling
    <3>2. CASE e.code = "success"
      <4>1. /\ urb'.result = urb.result /\ (urb.finished = TRUE => urb'.finished = TRUE)
            /\ (OwnOf("stall")' <=> OwnOf("stall")) /\ (OwnOf("stopped")' <=> OwnOf("stopped"))
        BY <1>2, <1>3, <1>4, <2>3, <3>2
      <4>2. Endpoint'
        BY <1>a, <1>1, <1>2, <1>8, <2>1, <4>1 DEF Endpoint, InCommand, Polling
      <4>3. Stalls'
        BY <1>a, <1>b, <1>f, <1>1, <4>1 DEF Stalls, Stopping, Polling
      <4> QED
        BY <1>2, <1>6, <2>2, <4>2, <4>3 DEF Clean, Control
    <3>3. CASE e.code = "stall"
      <4>1. urb'.result = urb.result \cup {"STALL"} /\ urb'.finished = TRUE
        BY <1>3, <1>4, <2>3, <3>3
      <4>2. ep = "Halted"
        BY <1>a, <1>2, <3>1, <3>3 DEF Stalls
      <4>3. urb'.result = {"STALL"}
        BY <1>a, <1>1, <3>1, <4>1, <4>2 DEF Stalls
      <4>4. Endpoint'
        BY <1>a, <1>c, <1>1, <1>2, <1>8, <2>1, <3>1, <4>2, <4>3 DEF Endpoint, InCommand, Polling
      <4>5. OwnOf("stopped")' <=> OwnOf("stopped")
        BY <1>2, <3>3
      <4>6. Stalls'
        BY <1>a, <1>1, <3>1, <4>1, <4>2, <4>3, <4>5 DEF Stalls, Stopping, Polling
      <4> QED
        BY <1>2, <1>6, <2>2, <4>4, <4>6 DEF Clean, Control
    <3>4. CASE e.code = "stopped"
      <4>1. urb'.result = urb.result \cup {"TIMEOUT"} /\ urb'.finished = TRUE
        BY <1>3, <1>4, <2>3, <3>4
      <4>2. OwnOf("stopped") /\ exec = "stop" /\ ep = "Stopped" /\ Stopping
        BY <1>a, <1>c, <1>2, <3>1, <3>4 DEF Stalls
      <4>3. Endpoint'
        BY <1>a, <1>1, <1>2, <1>8, <2>1, <4>2 DEF Endpoint, InCommand, Polling
      <4>4. OwnOf("stall")' <=> OwnOf("stall")
        BY <1>2, <3>4
      <4>5. "STALL" \notin urb'.result /\ ~OwnOf("stall")
        BY <1>a, <4>1, <4>2 DEF Stalls
      <4>6. Stalls'
        BY <1>a, <1>c, <1>1, <4>1, <4>2, <4>4, <4>5 DEF Stalls, Stopping, Polling
      <4> QED
        BY <1>2, <1>6, <2>2, <4>3, <4>6 DEF Clean, Control
    <3> QED
      BY <1>2, <1>8, <3>2, <3>3, <3>4 DEF Events, Codes
  <2>4. CASE ~IsOfUrb(e)
    <3>1. UNCHANGED urb
      BY <1>3, <2>4
    <3>2. exec \in {"transfer", "stop"} => ~Own(e)
      BY <1>a, <1>1, <1>8, <2>4 DEF IsOfUrb, Own, Stalls, Stopping, Polling
    <3>3. Endpoint'
      BY <1>a, <1>1, <1>2, <1>8, <2>1, <3>1 DEF Endpoint, InCommand, Polling
    <3>4. Stalls'
      BY <1>a, <1>1, <1>2, <3>1, <3>2 DEF Stalls, Stopping, Polling
    <3> QED
      BY <1>2, <1>6, <2>2, <3>3, <3>4 DEF Clean, Control
  <2> QED
    BY <2>3, <2>4
<1> QED
  BY <1>2, <1>7, <1>8 DEF Events

-----------------------------------------------------------------------------
(* What one more event adds, when no answer is waiting.                    *)
LEMMA ReportEffect ==
  ASSUME evts \in Seq(Events), NEW e \in Events, evts' = Append(evts, e), UNCHANGED calls,
         Reports, ~Answered, e.of = "transfer" => e.code # "other"
  PROVE  /\ Reports' /\ (Answered' <=> e.of = "command") /\ Answer' = e
         /\ \A code \in Codes : OwnOf(code)' <=> OwnOf(code) \/ (Own(e) /\ e.code = code)
<1>1. /\ Len(evts) \in Nat /\ Len(evts') = Len(evts) + 1 /\ evts'[Len(evts) + 1] = e
      /\ \A i \in 1 .. Len(evts) : evts'[i] = evts[i] /\ evts[i] \in Events
      /\ evts' # << >>
  OBVIOUS
<1>2. (Answered' <=> e.of = "command") /\ Answer' = e
  BY <1>1 DEF Answered, Answer
<1>3. \A i \in 1 .. Len(evts) : evts[i].of = "transfer"
  <2>1. TAKE i \in 1 .. Len(evts)
  <2>2. CASE i = Len(evts)
    <3>1. evts # << >>
      BY <1>1, <2>2, EmptySeq
    <3>2. evts[i].of # "command" /\ evts[i] \in Events
      BY <1>1, <2>2, <3>1 DEF Answered, Answer
    <3> QED
      BY <3>2 DEF Events
  <2>3. CASE i # Len(evts)
    BY <1>1, <2>3 DEF Reports
  <2> QED
    BY <2>2, <2>3
<1>4. Reports'
  BY <1>1, <1>3 DEF Reports
<1>5. ASSUME NEW code \in Codes
      PROVE  OwnOf(code)' <=> OwnOf(code) \/ (Own(e) /\ e.code = code)
  <2>1. OwnOf(code) => OwnOf(code)'
    BY <1>1 DEF OwnOf, Own
  <2>2. Own(e) /\ e.code = code => OwnOf(code)'
    <3>1. Len(evts) + 1 \in 1 .. Len(evts')
      BY <1>1
    <3> QED
      BY <1>1, <3>1 DEF OwnOf, Own
  <2>3. ASSUME NEW i \in 1 .. Len(evts'), evts'[i].of = "transfer" /\ evts'[i].trb.id = calls /\ evts'[i].code = code
        PROVE  OwnOf(code) \/ (Own(e) /\ e.code = code)
    <3>1. CASE i \in 1 .. Len(evts)
      BY <1>1, <2>3, <3>1 DEF OwnOf, Own
    <3>2. CASE i = Len(evts) + 1
      BY <1>1, <2>3, <3>2 DEF OwnOf, Own
    <3> QED
      BY <1>1, <3>1, <3>2
  <2> QED
    BY <2>1, <2>2, <2>3 DEF OwnOf, Own
<1> QED
  BY <1>2, <1>4, <1>5

(* The command the controller takes is the present one, and the only one.  *)
LEMMA TheCommand ==
  ASSUME Steady, NEW kind \in Commands, HcTakesCmd(kind)
  PROVE  /\ cmds # << >> /\ cmds' = << >> /\ kind = exec /\ ~Answered /\ dead = FALSE
         /\ Head(cmds).id = issued /\ cmds[1].id = issued /\ cmds[1].upto = calls
         /\ InCommand /\ cmd.finished = FALSE /\ pc \in Polling \cup {"timeout"}
<1>a. OneCommand /\ dead \in BOOLEAN
  BY DEF Steady, Types, Flags, Clean, Control
<1>1. cmds # << >> /\ dead = FALSE /\ Head(cmds).kind = kind /\ cmds' = Tail(cmds)
  BY <1>a DEF HcTakesCmd
<1>2. cmds = <<[id |-> issued, kind |-> exec, upto |-> calls]>>
  BY <1>a, <1>1 DEF OneCommand
<1>3. /\ Head(cmds) = [id |-> issued, kind |-> exec, upto |-> calls]
      /\ cmds[1] = [id |-> issued, kind |-> exec, upto |-> calls] /\ Tail(cmds) = << >>
  BY <1>2
<1>4. ~Answered /\ InCommand /\ cmd.finished = FALSE
  BY <1>a, <1>1 DEF OneCommand
<1> QED
  BY <1>1, <1>3, <1>4 DEF InCommand

(* The controller executes a TRB of the transfer that is under way.        *)
LEMMA CleanRuns ==
  ASSUME Steady, lost' = FALSE,
         HcTrbSucceeds \/ \E code \in Errors : HcTrbFails(code)
  PROVE  Clean'
<1>a. /\ tds \in Seq(Trbs) /\ evts \in Seq(Events) /\ urb \in Urbs /\ urb.id = calls /\ pendingUrb \in BOOLEAN
      /\ cmds \in Seq(Orders) /\ done \in SUBSET Trbs
      /\ Remainder /\ Reports /\ OneCommand /\ Endpoint /\ Stalls /\ calls \in Nat
  BY TransferAssumption DEF Steady, Types, RingTypes, UrbTypes, Flags, Numbered, Counters, Clean, Control
<1>b. "stall" \in Codes /\ "stopped" \in Codes /\ "success" \in Codes
  BY DEF Codes
<1>c. ep = "Running" /\ tds # << >> /\ UNCHANGED <<cmds, dead, driverVars>>
  BY DEF HcTrbSucceeds, HcTrbFails, HcRunsTrb
<1>d. /\ Len(tds) \in Nat /\ Len(tds) > 0 /\ Head(tds) = tds[1] /\ tds[1] \in Trbs
      /\ urb.num \in Nat /\ tds[1] = Trb(calls, urb.num - Len(tds) + 1)
  BY <1>a, <1>c, TransferAssumption DEF Remainder, Urbs
<1>e. tds[1].id = calls /\ tds[1].pos = urb.num - Len(tds) + 1 /\ tds[1] \in Blocks
  <2>1. \A t \in Trbs : t \in Blocks
    BY TransferAssumption DEF Trbs, Blocks
  <2> QED
    BY <1>d, <2>1 DEF Trb
<1>f. InProgress(Head(tds))
  BY <1>a, <1>c, <1>d, <1>e DEF InProgress, Endpoint
<1>g. ~Answered /\ pc \notin {"idle", "return"}
  BY <1>a, <1>c DEF Endpoint
<1>h. UNCHANGED <<urb, cmd, pendingUrb, exec, pc, calls, issued>>
  BY <1>c DEF driverVars
<1>i. \A code \in Codes : TransferEvent(tds[1], code) \in Events
  BY <1>e DEF TransferEvent, Events
<1>1. CASE HcTrbSucceeds
  <2> DEFINE e == TransferEvent(tds[1], "success")
  <2>1. /\ tds' = Tail(tds) /\ evts' = Append(evts, e) /\ done' = done \cup {tds[1]}
        /\ ep' = ep /\ staleRun' = FALSE
    <3>1. staleRun = FALSE
      BY <1>a DEF Remainder
    <3> QED
      BY <1>1, <1>d, <1>f, <3>1 DEF HcTrbSucceeds
  <2>2. e \in Events /\ e.of = "transfer" /\ e.code = "success"
    BY <1>b, <1>i DEF TransferEvent
  <2> HIDE DEF e
  <2>3. /\ Reports' /\ ~Answered'
        /\ (OwnOf("stall")' <=> OwnOf("stall")) /\ (OwnOf("stopped")' <=> OwnOf("stopped"))
    BY <1>a, <1>b, <1>g, <1>h, <2>1, <2>2, ReportEffect
  <2>4. Len(tds') = Len(tds) - 1 /\ \A i \in 1 .. Len(tds) - 1 : tds'[i] = tds[i + 1]
    BY <1>a, <1>c, <2>1
  <2>5. Remainder'
    <3>1. ASSUME NEW i \in 1 .. Len(tds')
          PROVE  tds'[i] = Trb(calls, urb.num - Len(tds') + i)
      <4>1. /\ i \in Nat /\ i >= 1 /\ i <= Len(tds) - 1 /\ Len(tds') = Len(tds) - 1
            /\ tds'[i] = tds[i + 1] /\ i + 1 \in 1 .. Len(tds)
        BY <1>d, <2>4
      <4>3. urb.num - Len(tds) + (i + 1) = urb.num - Len(tds') + i
        BY <1>d, <4>1
      <4>2. tds[i + 1] = Trb(calls, urb.num - Len(tds) + (i + 1))
        BY <1>a, <4>1 DEF Remainder
      <4> QED
        BY <4>1, <4>2, <4>3
    <3>2. ASSUME NEW t \in done', t.id = calls
          PROVE  t.pos <= urb.num - Len(tds')
      <4>1. CASE t = tds[1]
        BY <1>d, <1>e, <2>4, <4>1
      <4>2. CASE t \in done
        <5>1. t.pos \in Nat
          BY <1>a, <4>2, TransferAssumption DEF Trbs
        <5>2. t.pos <= urb.num - Len(tds)
          BY <1>a, <1>c, <3>2, <4>2 DEF Remainder
        <5> QED
          BY <1>d, <2>4, <5>1, <5>2
      <4> QED
        BY <2>1, <4>1, <4>2
    <3>3. Len(tds') <= urb.num
      BY <1>a, <1>d, <2>4 DEF Remainder
    <3> QED
      BY <1>h, <2>1, <3>1, <3>2, <3>3 DEF Remainder
  <2>6. OneCommand'
    BY <1>a, <1>c, <1>g, <1>h, <2>3 DEF OneCommand, InCommand
  <2>7. Endpoint'
    BY <1>a, <1>c, <1>g, <1>h, <2>1, <2>3 DEF Endpoint, InCommand
  <2>8. Stalls'
    <3>1. pc # "result"
      BY <1>a, <1>c DEF Stalls
    <3> QED
      BY <1>a, <1>c, <1>h, <2>1, <2>3, <3>1 DEF Stalls, Stopping
  <2> QED
    BY <2>3, <2>5, <2>6, <2>7, <2>8 DEF Clean, Control
<1>2. ASSUME NEW code \in Errors, HcTrbFails(code)
      PROVE  Clean'
  <2> DEFINE e == TransferEvent(tds[1], "stall")
  <2>1. /\ UNCHANGED <<tds, done>> /\ evts' = Append(evts, e) /\ ep' = "Halted" /\ staleRun' = FALSE
    <3>1. staleRun = FALSE /\ code = "stall"
      BY <1>a, <1>2, TransferAssumption DEF Remainder, HcTrbFails
    <3> QED
      BY <1>2, <1>d, <1>f, <3>1 DEF HcTrbFails
  <2>2. e \in Events /\ e.of = "transfer" /\ e.code = "stall" /\ Own(e)
    BY <1>b, <1>e, <1>i DEF TransferEvent, Own
  <2> HIDE DEF e
  <2>3. /\ Reports' /\ ~Answered'
        /\ OwnOf("stall")' /\ (OwnOf("stopped")' <=> OwnOf("stopped"))
    BY <1>a, <1>b, <1>g, <1>h, <2>1, <2>2, ReportEffect
  <2>4. Remainder'
    BY <1>a, <1>h, <2>1 DEF Remainder
  <2>5. OneCommand'
    BY <1>a, <1>c, <1>g, <1>h, <2>3 DEF OneCommand, InCommand
  <2>6. Endpoint'
    BY <1>a, <1>c, <1>g, <1>h, <2>1, <2>3 DEF Endpoint, InCommand
  <2>7. Stalls'
    <3>1. pc # "result"
      BY <1>a, <1>c DEF Stalls
    <3> QED
      BY <1>a, <1>c, <1>h, <2>1, <2>3, <3>1 DEF Stalls, Stopping
  <2> QED
    BY <2>3, <2>4, <2>5, <2>6, <2>7 DEF Clean, Control
<1> QED
  BY <1>1, <1>2

(* The controller answers the command, which leaves the endpoint in the    *)
(* state the next step of the recovery counts on; or it dies.              *)
LEMMA CleanAnswers ==
  ASSUME Steady, HcStops \/ HcResets \/ HcSetsDequeue \/ HcDies
                 \/ \E kind \in Commands : HcRejectsCmd(kind)
  PROVE  Clean'
<1>a. /\ RingTypes /\ tds \in Seq(Trbs) /\ evts \in Seq(Events) /\ ep \in EpStates /\ issued \in Nat
      /\ exec \in Executed /\ calls \in Nat /\ HaltMeans /\ dead \in BOOLEAN /\ pendingUrb \in BOOLEAN
      /\ Remainder /\ Reports /\ OneCommand /\ Endpoint /\ Stalls
      /\ \A i \in 1 .. Len(tds) : tds[i].id <= calls
  BY TransferAssumption
     DEF Steady, Types, RingTypes, UrbTypes, Flags, Phases, Numbered, Counters, Clean, Control
<1>b. /\ "stall" \in Codes /\ "stopped" \in Codes /\ "success" \in Codes /\ "other" \in Codes
      /\ "transfer" \notin Commands /\ Commands = {"stop", "reset", "set_dequeue"}
  BY DEF Codes, Commands
<1>c. \A code \in Codes : /\ CommandEvent(issued, code) \in Events
                          /\ CommandEvent(issued, code).of = "command"
                          /\ CommandEvent(issued, code).code = code
                          /\ CommandEvent(issued, code).trb.id = issued
  BY <1>a DEF CommandEvent, Events, Blocks, Trb
<1>1. CASE HcDies
  <2>1. dead' = TRUE /\ UNCHANGED <<tds, cmds, evts, ep, done, staleRun, driverVars>>
    BY <1>1 DEF HcDies, ringVars
  <2>2. UNCHANGED <<urb, cmd, pendingUrb, exec, pc, calls, issued>>
    BY <2>1 DEF driverVars
  <2>3. /\ Remainder' /\ Reports' /\ (Answered' <=> Answered) /\ Answer' = Answer
        /\ (OwnOf("stall")' <=> OwnOf("stall")) /\ (OwnOf("stopped")' <=> OwnOf("stopped"))
    BY <1>a, <2>1, <2>2, DriverFrame
  <2>4. OneCommand' /\ Endpoint' /\ Stalls'
    BY <1>a, <2>1, <2>2, <2>3 DEF OneCommand, Endpoint, Stalls, InCommand, Stopping
  <2> QED
    BY <2>3, <2>4 DEF Clean, Control
<1>2. ASSUME NEW kind \in Commands, HcRejectsCmd(kind)
      PROVE  Clean'
  <2>1. /\ cmds # << >> /\ cmds' = << >> /\ kind = exec /\ ~Answered /\ Head(cmds).id = issued
        /\ InCommand /\ cmd.finished = FALSE /\ pc \in Polling \cup {"timeout"}
    BY <1>2, TheCommand DEF HcRejectsCmd
  <2>2. /\ evts' = Append(evts, CommandEvent(issued, "other"))
        /\ UNCHANGED <<tds, ep, dead, done, staleRun, driverVars>>
    BY <1>2, <2>1 DEF HcRejectsCmd, hcVars
  <2>3. UNCHANGED <<urb, cmd, pendingUrb, exec, pc, calls, issued>>
    BY <2>2 DEF driverVars
  <2>4. exec = "stop" /\ ep = "Halted"
    <3>1. ~Fits(kind)
      BY <1>2 DEF HcRejectsCmd
    <3>2. exec = "reset" => FALSE
      BY <1>a, <2>1, <3>1 DEF Endpoint, Fits
    <3>3. exec = "set_dequeue" => FALSE
      BY <1>a, <2>1, <3>1 DEF Endpoint, Fits
    <3>4. exec = "stop" => ep = "Halted"
      BY <1>a, <2>1, <3>1 DEF Endpoint, Fits, EpStates
    <3> QED
      BY <1>b, <2>1, <3>2, <3>3, <3>4
  <2>5. /\ Reports' /\ Answered' /\ Answer' = CommandEvent(issued, "other")
        /\ (OwnOf("stall")' <=> OwnOf("stall")) /\ (OwnOf("stopped")' <=> OwnOf("stopped"))
    BY <1>a, <1>b, <1>c, <2>1, <2>2, <2>3, ReportEffect DEF Own
  <2>6. Remainder'
    BY <1>a, <2>2, <2>3 DEF Remainder
  <2>7. OneCommand'
    BY <1>a, <1>b, <1>c, <2>1, <2>2, <2>3, <2>4, <2>5 DEF OneCommand, InCommand, Polling
  <2>8. Endpoint'
    BY <1>a, <1>b, <1>c, <2>1, <2>2, <2>3, <2>4, <2>5 DEF Endpoint, InCommand, Polling
  <2>9. Stalls'
    BY <1>a, <2>2, <2>3, <2>4, <2>5 DEF Stalls, Stopping
  <2> QED
    BY <2>5, <2>6, <2>7, <2>8, <2>9 DEF Clean, Control
<1>3. CASE HcResets
  <2>1. /\ cmds # << >> /\ cmds' = << >> /\ exec = "reset" /\ ~Answered /\ Head(cmds).id = issued
        /\ InCommand /\ cmd.finished = FALSE /\ pc \in Polling \cup {"timeout"}
    BY <1>3, <1>b, TheCommand DEF HcResets
  <2>2. /\ evts' = Append(evts, CommandEvent(issued, "success")) /\ ep' = "Stopped"
        /\ UNCHANGED <<tds, dead, done, staleRun, driverVars>>
    BY <1>3, <2>1 DEF HcResets
  <2>3. UNCHANGED <<urb, cmd, pendingUrb, exec, pc, calls, issued>>
    BY <2>2 DEF driverVars
  <2>5. /\ Reports' /\ Answered' /\ Answer' = CommandEvent(issued, "success")
        /\ (OwnOf("stall")' <=> OwnOf("stall")) /\ (OwnOf("stopped")' <=> OwnOf("stopped"))
    BY <1>a, <1>b, <1>c, <2>1, <2>2, <2>3, ReportEffect DEF Own
  <2>6. Remainder'
    BY <1>a, <2>2, <2>3 DEF Remainder
  <2>7. OneCommand'
    BY <1>a, <1>b, <1>c, <2>1, <2>2, <2>3, <2>5 DEF OneCommand, InCommand, Polling
  <2>8. Endpoint'
    BY <1>a, <1>b, <1>c, <2>1, <2>2, <2>3, <2>5 DEF Endpoint, InCommand, Polling
  <2>9. Stalls'
    BY <1>a, <2>1, <2>2, <2>3, <2>5 DEF Stalls, Stopping, Polling
  <2> QED
    BY <2>5, <2>6, <2>7, <2>8, <2>9 DEF Clean, Control
<1>4. CASE HcSetsDequeue
  <2>1. /\ cmds # << >> /\ cmds' = << >> /\ exec = "set_dequeue" /\ ~Answered /\ Head(cmds).id = issued
        /\ InCommand /\ cmd.finished = FALSE /\ pc \in Polling \cup {"timeout"} /\ cmds[1].upto = calls
    BY <1>4, <1>b, TheCommand DEF HcSetsDequeue
  <2>2. /\ evts' = Append(evts, CommandEvent(issued, "success")) /\ ep = "Stopped"
        /\ UNCHANGED <<ep, dead, done, staleRun, driverVars>>
    BY <1>4, <2>1 DEF HcSetsDequeue, hcVars, Fits
  <2>3. UNCHANGED <<urb, cmd, pendingUrb, exec, pc, calls, issued>>
    BY <2>2 DEF driverVars
  <2>4. tds' = << >>
    <3>4. Head(cmds).upto = calls
      BY <1>a, <2>1 DEF RingTypes
    <3>1. PICK n \in 0 .. Len(tds) :
            /\ tds' = SubSeq(tds, n + 1, Len(tds))
            /\ \A i \in 1 .. Len(tds) : i <= n <=> tds[i].id <= calls
      BY <1>4, <3>4 DEF HcSetsDequeue
    <3>2. Len(tds) \in Nat
      BY <1>a
    <3>3. n = Len(tds)
      BY <1>a, <3>1, <3>2
    <3> QED
      BY <1>a, <3>1, <3>2, <3>3
  <2>5. /\ Reports' /\ Answered' /\ Answer' = CommandEvent(issued, "success")
        /\ (OwnOf("stall")' <=> OwnOf("stall")) /\ (OwnOf("stopped")' <=> OwnOf("stopped"))
    BY <1>a, <1>b, <1>c, <2>1, <2>2, <2>3, ReportEffect DEF Own
  <2>6. Remainder'
    <3>1. Len(tds') = 0 /\ urb.num \in Nat
      BY <2>4, TransferAssumption DEF Steady, Types, UrbTypes, Urbs
    <3> QED
      BY <1>a, <2>2, <2>3, <2>4, <3>1 DEF Remainder
  <2>7. OneCommand'
    BY <1>a, <1>b, <1>c, <2>1, <2>2, <2>3, <2>5 DEF OneCommand, InCommand, Polling
  <2>8. Endpoint'
    BY <1>a, <1>b, <1>c, <2>1, <2>2, <2>3, <2>4, <2>5 DEF Endpoint, InCommand, Polling
  <2>9. Stalls'
    BY <1>a, <2>1, <2>2, <2>3, <2>5 DEF Stalls, Stopping, Polling
  <2> QED
    BY <2>5, <2>6, <2>7, <2>8, <2>9 DEF Clean, Control
<1>5. CASE HcStops
  <2>1. /\ cmds # << >> /\ cmds' = << >> /\ exec = "stop" /\ ~Answered /\ Head(cmds).id = issued
        /\ InCommand /\ cmd.finished = FALSE /\ pc \in Polling \cup {"timeout"} /\ cmds[1].id = issued
    BY <1>5, <1>b, TheCommand DEF HcStops
  <2>2. /\ ep = "Running" /\ ep' = "Stopped" /\ UNCHANGED <<tds, dead, done, staleRun, driverVars>>
    BY <1>5 DEF HcStops, Fits
  <2>3. UNCHANGED <<urb, cmd, pendingUrb, exec, pc, calls, issued>>
    BY <2>2 DEF driverVars
  <2> DEFINE c == CommandEvent(issued, "success")
             t == TransferEvent(tds[1], "stopped")
  <2>4. evts' = evts \o (IF tds = << >> THEN << >> ELSE <<t>>) \o <<c>>
    <3>1. tds # << >> => Head(tds) = tds[1]
      BY <1>a
    <3> QED
      BY <1>5, <2>1, <3>1 DEF HcStops
  <2>5. tds # << >> => t \in Events /\ t.of = "transfer" /\ t.code = "stopped"
    <3>1. \A b \in Trbs : b \in Blocks
      BY TransferAssumption DEF Trbs, Blocks
    <3>2. tds # << >> => tds[1] \in Blocks
      BY <1>a, <3>1
    <3> QED
      BY <1>b, <3>2 DEF TransferEvent, Events
  <2>6. c \in Events /\ c.of = "command" /\ c.code = "success" /\ c.trb.id = issued
    BY <1>b, <1>c
  <2> HIDE DEF c, t
  <2>7. /\ Reports' /\ Answered' /\ Answer' = c /\ (OwnOf("stall")' <=> OwnOf("stall"))
    <3>1. /\ Len(evts) \in Nat /\ \A i \in 1 .. Len(evts) : evts'[i] = evts[i]
          /\ tds = << >> => Len(evts') = Len(evts) + 1 /\ evts'[Len(evts) + 1] = c
          /\ tds # << >> => /\ Len(evts') = Len(evts) + 2
                            /\ evts'[Len(evts) + 1] = t /\ evts'[Len(evts) + 2] = c
      BY <1>5, <1>a, <2>1, StopEvents DEF c, t
    <3>2. \A i \in 1 .. Len(evts) : evts[i].of = "transfer"
      <4>1. TAKE i \in 1 .. Len(evts)
      <4>2. CASE i = Len(evts)
        <5>1. evts # << >> /\ evts[i] \in Events
          BY <1>a, <4>2
        <5> QED
          BY <2>1, <4>2, <5>1 DEF Answered, Answer, Events
      <4>3. CASE i # Len(evts)
        BY <1>a, <3>1, <4>3 DEF Reports
      <4> QED
        BY <4>2, <4>3
    <3>3. Answered' /\ Answer' = c
      <4>1. evts' # << >> /\ Answer' = c
        BY <3>1 DEF Answer
      <4> QED
        BY <2>6, <4>1 DEF Answered
    <3>4. ASSUME NEW i \in 1 .. Len(evts')
          PROVE  /\ evts'[i].of = "transfer" => evts'[i].code # "other"
                 /\ i # Len(evts') => evts'[i].of = "transfer"
                 /\ evts'[i].code = "stall" => i \in 1 .. Len(evts)
      <4>1. CASE i \in 1 .. Len(evts)
        BY <1>a, <3>1, <3>2, <4>1 DEF Reports
      <4>2. CASE i \notin 1 .. Len(evts)
        <5>1. (evts'[i] = c /\ i = Len(evts')) \/ (evts'[i] = t /\ tds # << >>)
          <6>1. CASE tds = << >>
            <7>1. i = Len(evts) + 1
              BY <3>1, <4>2, <6>1
            <7>2. Len(evts') = Len(evts) + 1 /\ evts'[Len(evts) + 1] = c
              BY <3>1, <6>1
            <7> QED
              BY <7>1, <7>2
          <6>2. CASE tds # << >>
            <7>1. i = Len(evts) + 1 \/ i = Len(evts) + 2
              BY <3>1, <4>2, <6>2
            <7> QED
              BY <3>1, <6>2, <7>1
          <6> QED
            BY <6>1, <6>2
        <5> QED
          BY <2>5, <2>6, <5>1
      <4> QED
        BY <4>1, <4>2
    <3>5. Reports'
      BY <3>1, <3>4 DEF Reports
    <3>6. OwnOf("stall")' <=> OwnOf("stall")
      <4>1. OwnOf("stall") => OwnOf("stall")'
        BY <2>3, <3>1 DEF OwnOf, Own
      <4>2. OwnOf("stall")' => OwnOf("stall")
        BY <2>3, <3>1, <3>4 DEF OwnOf, Own
      <4> QED
        BY <4>1, <4>2
    <3> QED
      BY <3>3, <3>5, <3>6
  <2>8. Remainder'
    BY <1>a, <2>2, <2>3 DEF Remainder
  <2>9. OneCommand'
    BY <1>a, <1>b, <2>1, <2>2, <2>3, <2>6, <2>7 DEF OneCommand, InCommand, Polling
  <2>10. Endpoint'
    BY <1>a, <1>b, <2>1, <2>2, <2>3, <2>6, <2>7 DEF Endpoint, InCommand, Polling
  <2>11. Stalls'
    BY <1>a, <1>b, <2>1, <2>2, <2>3, <2>7 DEF Stalls, Stopping, Polling
  <2> QED
    BY <2>7, <2>8, <2>9, <2>10, <2>11 DEF Clean, Control
<1> QED
  BY <1>1, <1>2, <1>3, <1>4, <1>5

-----------------------------------------------------------------------------
(* A TRB that fails in a way the driver does not recover.                  *)

(* Once the recovery is past Stop Endpoint nothing runs.                   *)
PastStop == exec \in {"reset", "set_dequeue"} => ep # "Running" \/ tds = << >>

(* The endpoint has halted for good: nothing makes the driver reset it,    *)
(* and the TRB that would finish the present transfer has not been done.   *)
Gone ==
  /\ ep = "Halted" /\ staleRun = FALSE
  /\ calls > 0 /\ urb.num > 0 /\ Trb(urb.id, urb.num) \notin done
  /\ \A i \in 1 .. Len(cmds) : cmds[i].kind # "reset"
  /\ "STALL" \notin urb.result /\ ~OwnOf("stall")

(* As long as every command is answered in time the endpoint is lost or    *)
(* what a call leaves is clean.                                            *)
Promised == failures = 0 => IF lost THEN Gone ELSE Clean /\ PastStop

(* A step of the recovery that follows the first command finds the         *)
(* endpoint halted or stopped and leaves it so.                            *)
LEMMA PastStopNext ==
  ASSUME Steady, PastStop, [Next]_vars
  PROVE  PastStop'
<1>a. /\ OneCommand /\ Endpoint /\ Stalls /\ ep \in EpStates /\ exec \in Executed
      /\ RingTypes /\ UrbTypes /\ Counters /\ cmd.id = issued
  BY DEF Steady, Types, RingTypes, Phases, Numbered, Clean, Control
<1> USE DEF hcVars, ringVars, driverVars
<1>d. DoorBell => (ep' = "Running" => ep = "Running" \/ ep = "Stopped")
  BY <1>a DEF DoorBell, EpStates
<1>1. ASSUME NEW num \in 1 .. MaxTrbNum, XhcTransfer(num)
      PROVE  PastStop'
  BY <1>1 DEF XhcTransfer, PastStop
<1>2. CASE BeginCheck \/ CheckHaltedHc \/ HandleEvent \/ EndCheck \/ Stall \/ TransferFinished
  BY <1>2 DEF BeginCheck, CheckHaltedHc, HandleEvent, EndCheck, Stall, TransferFinished, PastStop
<1>3. CASE TransferTimeout
  BY <1>3 DEF TransferTimeout, XhcCmdTransfer, PastStop
<1>4. CASE StopSucceeded \/ ResetSucceeded
  <2>1. exec \in {"stop", "reset"} /\ pc = "finished" /\ cmd.result = {} /\ UNCHANGED ep
    BY <1>4 DEF StopSucceeded, ResetSucceeded, CommandSucceeded
  <2>2. ep = "Stopped"
    BY <1>a, <2>1 DEF OneCommand, Endpoint, Commands
  <2> QED
    BY <2>1, <2>2 DEF PastStop
<1>5. CASE Recover
  <2>1. ep = "Halted" /\ UNCHANGED ep
    BY <1>a, <1>5 DEF Recover, Stalls
  <2> QED
    BY <2>1 DEF PastStop
<1>6. CASE SetDequeueSucceeded
  <2>1. tds = << >> /\ UNCHANGED tds
    BY <1>a, <1>6 DEF SetDequeueSucceeded, CommandSucceeded, Endpoint
  <2> QED
    BY <2>1 DEF PastStop
<1>7. CASE StopFoundUrbFinished \/ RecoveryFailed \/ NothingToRecover \/ Return
  BY <1>7 DEF StopFoundUrbFinished, RecoveryFailed, NothingToRecover, Return, PastStop
<1>8. CASE HcTrbSucceeds
  BY <1>8 DEF HcTrbSucceeds, HcRunsTrb, PastStop
<1>9. CASE \E code \in Errors : HcTrbFails(code)
  BY <1>9 DEF HcTrbFails, PastStop
<1>10. CASE HcStops \/ HcResets
  BY <1>10 DEF HcStops, HcResets, PastStop
<1>11. CASE HcSetsDequeue
  BY <1>11 DEF HcSetsDequeue, Fits, PastStop
<1>12. CASE HcDies \/ (\E kind \in Commands : HcRejectsCmd(kind)) \/ UNCHANGED vars
  BY <1>12 DEF HcDies, HcRejectsCmd, vars, PastStop
<1> QED
  BY <1>1, <1>2, <1>3, <1>4, <1>5, <1>6, <1>7, <1>8, <1>9, <1>10, <1>11, <1>12 DEF Next, Driver, Hc

(* An error that is not a stall halts the endpoint for good.               *)
LEMMA GoneBegins ==
  ASSUME Steady, PastStop, NEW code \in Errors, HcTrbFails(code), code = "other"
  PROVE  Gone'
<1>a. /\ tds \in Seq(Trbs) /\ evts \in Seq(Events) /\ urb \in Urbs /\ urb.id = calls
      /\ cmds \in Seq(Orders) /\ calls \in Nat /\ exec \in Executed
      /\ Remainder /\ OneCommand /\ Endpoint /\ Stalls
  BY TransferAssumption DEF Steady, Types, RingTypes, UrbTypes, Phases, Numbered, Counters, Clean, Control
<1>1. /\ ep = "Running" /\ tds # << >> /\ ep' = "Halted"
      /\ evts' = Append(evts, TransferEvent(Head(tds), "other"))
      /\ staleRun' = (staleRun \/ ~InProgress(Head(tds)))
      /\ UNCHANGED <<tds, cmds, done, urb, calls, exec>>
  BY DEF HcTrbFails, HcRunsTrb, driverVars
<1>2. /\ Len(tds) \in Nat /\ Len(tds) > 0 /\ Head(tds) = tds[1] /\ tds[1] \in Trbs
      /\ urb.num \in Nat /\ Len(tds) <= urb.num /\ tds[1] = Trb(calls, urb.num - Len(tds) + 1)
  BY <1>a, <1>1, TransferAssumption DEF Remainder, Urbs
<1>3. tds[1].id = calls
  BY <1>2 DEF Trb
<1>4. staleRun' = FALSE /\ calls > 0
  <2>1. InProgress(Head(tds))
    BY <1>a, <1>1, <1>2, <1>3 DEF InProgress, Endpoint
  <2>2. tds[1].id > 0
    BY <1>2, TransferAssumption DEF Trbs
  <2> QED
    BY <1>a, <1>1, <1>3, <2>1, <2>2 DEF Remainder
<1>5. Trb(urb.id, urb.num) \notin done
  <2>1. Trb(urb.id, urb.num).id = calls /\ Trb(urb.id, urb.num).pos = urb.num
    BY <1>a DEF Trb
  <2>2. \A t \in done : t.id = calls => t.pos <= urb.num - Len(tds)
    BY <1>a, <1>1 DEF Remainder
  <2> QED
    BY <1>2, <2>1, <2>2
<1>6. exec \in {"transfer", "stop"}
  BY <1>a, <1>1 DEF PastStop, Executed, Commands
<1>7. "STALL" \notin urb.result /\ ~OwnOf("stall")
  BY <1>a, <1>1, <1>6 DEF Stalls
<1>8. ~OwnOf("stall")'
  <2>1. \A i \in 1 .. Len(evts) : evts'[i] = evts[i]
    BY <1>a, <1>1
  <2>2. Len(evts') = Len(evts) + 1 /\ Len(evts) \in Nat
        /\ evts'[Len(evts) + 1] = TransferEvent(Head(tds), "other")
    BY <1>a, <1>1
  <2>3. evts'[Len(evts) + 1].code = "other"
    BY <2>2 DEF TransferEvent
  <2> QED
    BY <1>1, <1>7, <2>1, <2>2, <2>3 DEF OwnOf, Own
<1>9. \A i \in 1 .. Len(cmds) : cmds[i].kind # "reset"
  <2>1. \A i \in 1 .. Len(cmds) : cmds[i].kind = exec
    BY <1>a DEF OneCommand
  <2> QED
    BY <1>6, <2>1
<1> QED
  BY <1>1, <1>2, <1>4, <1>5, <1>7, <1>8, <1>9 DEF Gone

(* Events that are taken, and answers that are added, are no stall of the  *)
(* present transfer.                                                       *)
LEMMA NoStallAdded ==
  ASSUME evts \in Seq(Events), ~OwnOf("stall"), UNCHANGED calls,
         \/ evts' = evts
         \/ evts # << >> /\ evts' = Tail(evts)
         \/ \E n \in Nat : evts' = Append(evts, CommandEvent(n, "other"))
  PROVE  ~OwnOf("stall")'
<1>1. CASE evts' = evts
  BY <1>1 DEF OwnOf, Own
<1>2. CASE evts # << >> /\ evts' = Tail(evts)
  <2>1. Len(evts) \in Nat /\ Len(evts') = Len(evts) - 1
        /\ \A i \in 1 .. Len(evts) - 1 : evts'[i] = evts[i + 1]
    BY <1>2
  <2>2. \A i \in 1 .. Len(evts') : i + 1 \in 1 .. Len(evts) /\ evts'[i] = evts[i + 1]
    BY <2>1
  <2> QED
    BY <2>2 DEF OwnOf, Own
<1>3. CASE \E n \in Nat : evts' = Append(evts, CommandEvent(n, "other"))
  <2>1. PICK n \in Nat : evts' = Append(evts, CommandEvent(n, "other"))
    BY <1>3
  <2>2. /\ Len(evts) \in Nat /\ Len(evts') = Len(evts) + 1
        /\ evts'[Len(evts) + 1] = CommandEvent(n, "other")
        /\ \A i \in 1 .. Len(evts) : evts'[i] = evts[i]
    BY <2>1
  <2>3. evts'[Len(evts) + 1].code = "other"
    BY <2>2 DEF CommandEvent
  <2> QED
    BY <2>2, <2>3 DEF OwnOf, Own
<1> QED
  BY <1>1, <1>2, <1>3

(* And lost it stays: no step of either side takes it back.                *)
LEMMA GoneNext ==
  ASSUME Types, Gone, [Next]_vars
  PROVE  Gone'
<1>a. /\ RingTypes /\ UrbTypes /\ Counters /\ Numbered /\ evts \in Seq(Events) /\ cmds \in Seq(Orders)
      /\ calls \in Nat /\ urb \in Urbs /\ urb.id = calls /\ cmd.id = issued
  BY TransferAssumption DEF Types, RingTypes, UrbTypes, Counters, Numbered
<1>b. DoorBell => ep' = "Halted"
  BY DEF DoorBell, Gone
<1>c. cmds # << >> => /\ Head(cmds) = cmds[1] /\ Head(cmds).kind # "reset" /\ Head(cmds).id \in Nat
                      /\ \A i \in 1 .. Len(Tail(cmds)) : Tail(cmds)[i].kind # "reset"
  <2> SUFFICES ASSUME cmds # << >>
               PROVE  /\ Head(cmds) = cmds[1] /\ Head(cmds).kind # "reset" /\ Head(cmds).id \in Nat
                      /\ \A i \in 1 .. Len(Tail(cmds)) : Tail(cmds)[i].kind # "reset"
    OBVIOUS
  <2>1. /\ Head(cmds) = cmds[1] /\ 1 \in 1 .. Len(cmds) /\ cmds[1] \in Orders
        /\ Len(cmds) \in Nat /\ Len(Tail(cmds)) = Len(cmds) - 1
        /\ \A i \in 1 .. Len(cmds) - 1 : Tail(cmds)[i] = cmds[i + 1]
    BY <1>a
  <2>2. \A i \in 1 .. Len(Tail(cmds)) : Tail(cmds)[i] = cmds[i + 1] /\ i + 1 \in 1 .. Len(cmds)
    BY <2>1
  <2>3. cmds[1].id \in Nat
    BY <2>1 DEF Orders
  <2> QED
    BY <2>1, <2>2, <2>3 DEF Gone
<1> USE DEF hcVars, ringVars
<1>1. ASSUME NEW num \in 1 .. MaxTrbNum, XhcTransfer(num)
      PROVE  Gone'
  <2>1. /\ ep' = "Halted" /\ UNCHANGED <<cmds, evts, done, staleRun>>
        /\ calls' = calls + 1 /\ urb' = NewUrb(calls', num) /\ num \in Nat /\ num > 0
    BY <1>a, <1>b, <1>1, TransferEffect DEF XhcTransfer
  <2>2. urb'.id = calls + 1 /\ urb'.num = num /\ urb'.result = {}
    BY <2>1 DEF NewUrb
  <2>3. Trb(urb'.id, urb'.num) \notin done
    <3>1. Trb(calls + 1, num).id = calls + 1
      BY DEF Trb
    <3>2. \A t \in done : t.id <= calls /\ t.id \in Nat
      BY <1>a, TransferAssumption DEF Numbered, RingTypes, Trbs
    <3> QED
      BY <1>a, <2>2, <3>1, <3>2
  <2>4. ~OwnOf("stall")'
    <3>1. \A i \in 1 .. Len(evts) : evts[i] \in Events
      BY <1>a
    <3>2. \A i \in 1 .. Len(evts) : evts[i].of = "transfer" => evts[i].trb.id # calls + 1
      BY <1>a, <3>1 DEF Numbered, Events, Blocks
    <3> QED
      BY <2>1, <3>2 DEF OwnOf, Own
  <2> QED
    BY <1>a, <2>1, <2>2, <2>3, <2>4 DEF Gone
<1>2. CASE Quiet
  <2>1. /\ UNCHANGED <<tds, cmds, evts, done, staleRun, calls>> /\ ep' = "Halted"
    <3>1. CASE StopFoundUrbFinished \/ SetDequeueSucceeded
      BY <1>2, <1>b, <3>1, QuietSteps DEF StopFoundUrbFinished, SetDequeueSucceeded
    <3>2. CASE BeginCheck \/ CheckHaltedHc \/ EndCheck \/ Stall \/ TransferFinished
      BY <1>2, <3>2, QuietSteps
         DEF BeginCheck, CheckHaltedHc, EndCheck, Stall, TransferFinished, Gone
    <3>3. CASE RecoveryFailed \/ NothingToRecover \/ Return
      BY <1>2, <3>3, QuietSteps DEF RecoveryFailed, NothingToRecover, Return, Gone
    <3> QED
      BY <1>2, <3>1, <3>2, <3>3 DEF Quiet
  <2>2. urb' = urb \/ urb' = [urb EXCEPT !.result = @ \cup {"SYSTEM"}]
    <3>1. CASE CheckHaltedHc
      BY <3>1 DEF CheckHaltedHc
    <3>2. CASE BeginCheck \/ EndCheck \/ Stall \/ TransferFinished \/ StopFoundUrbFinished
      BY <3>2 DEF BeginCheck, EndCheck, Stall, TransferFinished, StopFoundUrbFinished
    <3>3. CASE SetDequeueSucceeded \/ RecoveryFailed \/ NothingToRecover \/ Return
      BY <3>3 DEF SetDequeueSucceeded, RecoveryFailed, NothingToRecover, Return
    <3> QED
      BY <1>2, <3>1, <3>2, <3>3 DEF Quiet
  <2>3. urb'.id = urb.id /\ urb'.num = urb.num /\ "STALL" \notin urb'.result
    BY <1>a, <2>2 DEF Urbs, Gone
  <2>4. ~OwnOf("stall")'
    BY <1>a, <2>1, NoStallAdded DEF Gone
  <2> QED
    BY <2>1, <2>3, <2>4 DEF Gone
<1>3. CASE HandleEvent
  <2>1. evts # << >> /\ evts' = Tail(evts) /\ UNCHANGED <<cmds, ep, done, staleRun, calls>>
    BY <1>a, <1>3 DEF HandleEvent, Counters
  <2>2. Head(evts) = evts[1] /\ evts[1] \in Events /\ 1 \in 1 .. Len(evts)
    BY <1>a, <2>1
  <2>3. urb' = IF IsOfUrb(evts[1]) THEN Checked(urb, evts[1]) ELSE urb
    BY <1>3, <2>2 DEF HandleEvent
  <2>4. IsOfUrb(evts[1]) => evts[1].code # "stall"
    BY <1>a, <2>2 DEF IsOfUrb, Gone, OwnOf, Own
  <2>5. urb'.id = urb.id /\ urb'.num = urb.num /\ "STALL" \notin urb'.result
    <3>1. LET c == Checked(urb, evts[1]) IN
          /\ c.id = urb.id /\ c.num = urb.num
          /\ evts[1].code = "success" => c.result = urb.result
          /\ evts[1].code # "success" =>
               c.result = urb.result \cup {IF evts[1].code = "stall" THEN "STALL" ELSE "TIMEOUT"}
      BY <1>a, <2>2, CheckedEffect
    <3> QED
      BY <2>3, <2>4, <3>1 DEF Gone
  <2>6. ~OwnOf("stall")'
    BY <1>a, <2>1, NoStallAdded DEF Gone
  <2> QED
    BY <2>1, <2>5, <2>6 DEF Gone
<1>4. CASE Recovery
  <2>1. PICK kind \in {"stop", "set_dequeue"} : XhcCmdTransfer(kind)
    BY <1>4 DEF Recovery, TransferTimeout, StopSucceeded, ResetSucceeded, Recover, Gone
  <2>2. /\ UNCHANGED <<tds, evts, ep, done, staleRun, calls>>
        /\ UNCHANGED <<urb>> \/ urb' = [urb EXCEPT !.result = {}]
    BY <1>4, RecoveryCommands
  <2>3. urb'.id = urb.id /\ urb'.num = urb.num /\ "STALL" \notin urb'.result
    BY <1>a, <2>2 DEF Urbs, Gone
  <2>4. \A i \in 1 .. Len(cmds') : cmds'[i].kind # "reset"
    <3>1. kind \in Commands
      BY DEF Commands
    <3>2. CASE dead
      BY <2>1, <3>2 DEF XhcCmdTransfer, Gone
    <3>3. CASE ~dead
      <4> DEFINE c == [id |-> issued', kind |-> kind, upto |-> calls]
      <4>1. cmds' = Append(cmds, c) /\ c.kind # "reset"
        BY <2>1, <3>3 DEF XhcCmdTransfer
      <4> HIDE DEF c
      <4>2. /\ Len(cmds') = Len(cmds) + 1 /\ Len(cmds) \in Nat /\ cmds'[Len(cmds) + 1] = c
            /\ \A i \in 1 .. Len(cmds) : cmds'[i] = cmds[i]
        BY <1>a, <4>1
      <4> QED
        BY <4>1, <4>2 DEF Gone
    <3> QED
      BY <3>2, <3>3
  <2>5. ~OwnOf("stall")'
    BY <1>a, <2>2, NoStallAdded DEF Gone
  <2> QED
    BY <2>2, <2>3, <2>4, <2>5 DEF Gone
<1>5. CASE HcTrbSucceeds \/ (\E code \in Errors : HcTrbFails(code)) \/ HcStops \/ HcSetsDequeue
  BY <1>5 DEF HcTrbSucceeds, HcTrbFails, HcRunsTrb, HcStops, HcSetsDequeue, Fits, Gone
<1>6. CASE HcResets
  BY <1>c, <1>6 DEF HcResets, HcTakesCmd
<1>7. ASSUME NEW kind \in Commands, HcRejectsCmd(kind)
      PROVE  Gone'
  <2>1. /\ cmds # << >> /\ cmds' = Tail(cmds) /\ evts' = Append(evts, CommandEvent(Head(cmds).id, "other"))
        /\ UNCHANGED <<ep, done, staleRun, urb, calls>>
    BY <1>7 DEF HcRejectsCmd, HcTakesCmd, driverVars
  <2>2. ~OwnOf("stall")'
    BY <1>a, <1>c, <2>1, NoStallAdded DEF Gone
  <2> QED
    BY <1>c, <2>1, <2>2 DEF Gone
<1>8. CASE HcDies \/ UNCHANGED vars
  <2>1. UNCHANGED <<cmds, evts, ep, done, staleRun, urb, calls>>
    BY <1>8 DEF HcDies, vars, driverVars
  <2>2. ~OwnOf("stall")'
    BY <1>a, <2>1, NoStallAdded DEF Gone
  <2> QED
    BY <2>1, <2>2 DEF Gone
<1> QED
  BY <1>1, <1>2, <1>3, <1>4, <1>5, <1>6, <1>7, <1>8 DEF Next, Driver, Hc, Quiet, Recovery

(* Only a TRB that fails otherwise than by a stall makes the endpoint lost.*)
LEMMA LostSteps ==
  ASSUME Flags, [Next]_vars
  PROVE  \/ lost' = lost
         \/ \E code \in Errors : HcTrbFails(code) /\ lost' = (lost \/ code = "other")
<1> USE DEF hcVars
<1>1. CASE \E num \in 1 .. MaxTrbNum : XhcTransfer(num)
  BY <1>1 DEF XhcTransfer
<1>2. CASE BeginCheck \/ CheckHaltedHc \/ HandleEvent \/ EndCheck \/ Stall \/ TransferFinished
  BY <1>2 DEF BeginCheck, CheckHaltedHc, HandleEvent, EndCheck, Stall, TransferFinished
<1>3. CASE Recovery \/ StopFoundUrbFinished \/ SetDequeueSucceeded
  BY <1>3 DEF Recovery, TransferTimeout, StopSucceeded, ResetSucceeded, Recover,
              StopFoundUrbFinished, SetDequeueSucceeded
<1>4. CASE RecoveryFailed \/ NothingToRecover \/ Return
  BY <1>4 DEF RecoveryFailed, NothingToRecover, Return
<1>5. CASE HcTrbSucceeds
  BY <1>5 DEF HcTrbSucceeds
<1>6. CASE \E code \in Errors : HcTrbFails(code)
  BY <1>6 DEF HcTrbFails
<1>7. CASE HcStops \/ HcResets \/ HcSetsDequeue \/ HcDies \/ \E kind \in Commands : HcRejectsCmd(kind)
  BY <1>7 DEF HcStops, HcResets, HcSetsDequeue, HcDies, HcRejectsCmd
<1>8. CASE UNCHANGED vars
  BY <1>8 DEF vars
<1> QED
  BY <1>1, <1>2, <1>3, <1>4, <1>5, <1>6, <1>7, <1>8 DEF Next, Driver, Hc, Recovery

-----------------------------------------------------------------------------
(* A step keeps what a call leaves clean, until a command gets no answer   *)
(* in time or the endpoint is lost.                                        *)

(* No failure is ever taken back.                                          *)
LEMMA FailuresCount ==
  ASSUME RingTypes, failures \in Nat, [Next]_vars, failures' = 0
  PROVE  failures = 0
<1> USE DEF ringVars, hcVars, driverVars
<1>1. CASE \E num \in 1 .. MaxTrbNum : XhcTransfer(num)
  BY <1>1 DEF XhcTransfer
<1>2. CASE BeginCheck \/ CheckHaltedHc \/ HandleEvent \/ EndCheck \/ Stall \/ TransferFinished
  BY <1>2 DEF BeginCheck, CheckHaltedHc, HandleEvent, EndCheck, Stall, TransferFinished
<1>3. CASE Recovery \/ StopFoundUrbFinished \/ SetDequeueSucceeded \/ NothingToRecover \/ Return
  BY <1>3 DEF Recovery, TransferTimeout, StopSucceeded, ResetSucceeded, Recover,
              StopFoundUrbFinished, SetDequeueSucceeded, NothingToRecover, Return
<1>4. CASE RecoveryFailed
  BY <1>4 DEF RecoveryFailed
<1>5. CASE Hc
  BY <1>5, HcOnly
<1>6. CASE UNCHANGED vars
  BY <1>6 DEF vars
<1> QED
  BY <1>1, <1>2, <1>3, <1>4, <1>5, <1>6 DEF Next, Driver, Recovery

(* At the start there is nothing to leave behind.                          *)
LEMMA CleanInit == Init => Clean
<1> SUFFICES ASSUME Init PROVE Clean
  OBVIOUS
<1>1. /\ tds = << >> /\ cmds = << >> /\ evts = << >> /\ done = {} /\ staleRun = FALSE
      /\ Len(tds) = 0 /\ Len(evts) = 0 /\ urb.num = 0 /\ urb.result = {} /\ urb.finished = FALSE
      /\ ep = "Running" /\ pendingUrb = FALSE /\ exec = "transfer" /\ pc = "idle"
  BY DEF Init, NewUrb
<1>2. ~Answered /\ exec \notin Commands /\ ~OwnOf("stall") /\ ~OwnOf("stopped")
  BY <1>1 DEF Answered, Commands, OwnOf
<1>3. Remainder /\ Reports
  BY <1>1 DEF Remainder, Reports
<1>4. OneCommand /\ Endpoint
  BY <1>1, <1>2 DEF OneCommand, Endpoint, InCommand
<1>5. Stalls
  BY <1>1, <1>2 DEF Stalls, Stopping, Polling
<1> QED
  BY <1>3, <1>4, <1>5 DEF Clean, Control

(* As long as the endpoint is not lost, every step of the system.          *)
LEMMA CleanNext ==
  ASSUME Steady, failures = 0, failures' = 0, lost' = FALSE, [Next]_vars
  PROVE  Clean'
<1>1. Steady /\ failures = 0 /\ failures' = 0 /\ lost' = FALSE
  OBVIOUS
<1>2. CASE \E num \in 1 .. MaxTrbNum : XhcTransfer(num)
  BY <1>1, <1>2, CleanTransfer
<1>3. CASE BeginCheck \/ CheckHaltedHc \/ EndCheck \/ Stall
  BY <1>1, <1>3, CleanPolls
<1>4. CASE HandleEvent
  BY <1>1, <1>4, CleanHandle
<1>5. CASE \/ TransferFinished \/ StopFoundUrbFinished \/ SetDequeueSucceeded
           \/ RecoveryFailed \/ NothingToRecover \/ Return
  BY <1>1, <1>5, CleanOutcomes
<1>6. CASE Recovery
  BY <1>1, <1>6, CleanCommands
<1>7. CASE HcTrbSucceeds \/ \E code \in Errors : HcTrbFails(code)
  BY <1>1, <1>7, CleanRuns
<1>8. CASE HcStops \/ HcResets \/ HcSetsDequeue \/ HcDies \/ \E kind \in Commands : HcRejectsCmd(kind)
  BY <1>1, <1>8, CleanAnswers
<1>9. CASE UNCHANGED vars
  <2>1. /\ UNCHANGED <<tds, cmds, evts, ep, dead, done, staleRun>>
        /\ UNCHANGED <<urb, cmd, pendingUrb, exec, pc, calls, issued>>
    BY <1>9 DEF vars, ringVars, hcVars, driverVars
  <2>2. Remainder /\ Reports /\ OneCommand /\ Endpoint /\ Stalls
    BY <1>1 DEF Steady, Clean, Control
  <2>3. /\ Remainder' /\ Reports' /\ (Answered' <=> Answered) /\ Answer' = Answer
        /\ (OwnOf("stall")' <=> OwnOf("stall")) /\ (OwnOf("stopped")' <=> OwnOf("stopped"))
    BY <2>1, <2>2, DriverFrame
  <2>4. OneCommand' /\ Endpoint' /\ Stalls'
    BY <2>1, <2>2, <2>3 DEF OneCommand, Endpoint, Stalls, InCommand, Stopping
  <2> QED
    BY <2>3, <2>4 DEF Clean, Control
<1> QED
  BY <1>2, <1>3, <1>4, <1>5, <1>6, <1>7, <1>8, <1>9 DEF Next, Driver, Hc, Recovery

(* Every step, whatever becomes of the endpoint.                           *)
LEMMA PromisedNext ==
  ASSUME Types, Judged, HaltMeans, Promised, [Next]_vars
  PROVE  Promised'
<1> SUFFICES ASSUME failures' = 0 PROVE IF lost' THEN Gone' ELSE (Clean /\ PastStop)'
  BY DEF Promised
<1>1. failures = 0 /\ lost \in BOOLEAN /\ Flags
  BY FailuresCount DEF Types, Counters, Flags
<1>2. CASE lost = TRUE
  <2>1. lost' = TRUE
    BY <1>1, <1>2, LostSteps
  <2>2. Gone'
    BY <1>1, <1>2, GoneNext DEF Promised
  <2> QED
    BY <2>1, <2>2
<1>3. CASE lost = FALSE
  <2>1. Steady /\ PastStop
    BY <1>1, <1>3 DEF Promised, Steady
  <2>2. CASE lost' = FALSE
    <3>1. Clean'
      BY <1>1, <2>1, <2>2, CleanNext
    <3>2. PastStop'
      BY <2>1, PastStopNext
    <3> QED
      BY <2>2, <3>1, <3>2
  <2>3. CASE lost' # FALSE
    <3>1. PICK code \in Errors : HcTrbFails(code) /\ lost' = (lost \/ code = "other")
      BY <1>1, <1>3, <2>3, LostSteps
    <3>2. lost' = TRUE /\ code = "other"
      BY <1>3, <2>3, <3>1
    <3>3. Gone'
      BY <2>1, <3>1, <3>2, GoneBegins
    <3> QED
      BY <3>2, <3>3
  <2> QED
    BY <2>2, <2>3
<1> QED
  BY <1>1, <1>2, <1>3

(* The types of the proofs are stronger than the module's type invariant.  *)
LEMMA TypesSuffice == Types => TypeOK
<1> SUFFICES ASSUME Types PROVE TypeOK
  OBVIOUS
<1>a. RingTypes /\ UrbTypes /\ Phases /\ Flags /\ Counters /\ Numbered
  BY DEF Types
<1>1. Range(tds) \subseteq Trbs /\ done \subseteq Trbs
  BY <1>a DEF RingTypes, Range
<1>2. \A c \in Range(cmds) : c.kind \in Commands /\ c.id <= issued /\ c.upto <= calls
  <2>1. \A i \in 1 .. Len(cmds) : cmds[i] \in Orders
    BY <1>a DEF RingTypes
  <2>2. \A i \in DOMAIN cmds : i \in 1 .. Len(cmds)
    BY <1>a DEF RingTypes
  <2> QED
    BY <1>a, <2>1, <2>2 DEF Numbered, Orders, Range
<1>3. \A e \in Range(evts) : e.of \in {"transfer", "command"}
                             /\ e.code \in {"success", "stall", "other", "stopped"}
  <2>1. \A i \in DOMAIN evts : evts[i] \in Events
    BY <1>a DEF RingTypes
  <2> QED
    BY <2>1 DEF Events, Codes, Range
<1>4. UrbOK(urb) /\ UrbOK(cmd)
  BY <1>a DEF UrbTypes, Urbs, UrbOK
<1>5. seen <= Len(evts)
  BY <1>a DEF Counters, RingTypes
<1> QED
  BY <1>a, <1>1, <1>2, <1>3, <1>4, <1>5 DEF TypeOK, RingTypes, Phases, Places, Flags, Counters

(* Whatever way TRBs fail, and as long as every command was answered in    *)
(* time, a transfer and the commands of its recovery leave nothing behind  *)
(* when they return: no TRB that points at the caller's buffer, no halted  *)
(* endpoint, and nothing for the controller to run. The one exception is   *)
(* an endpoint halted by an error the code does not recover: it stays      *)
(* halted for good, and no call on it reports success again.               *)
THEOREM TransferLeavesNothing == Spec => []TransferInvariant
<1>1. Init => InOrder /\ Told /\ Judged /\ HaltMeans /\ Promised
  BY CleanInit DEF Init, InOrder, Told, Judged, HaltMeans, Promised, PastStop, NewUrb, Commands
<1>2. Types => RingTypes /\ Counters
  BY DEF Types
<1>3. Spec => [](Types /\ Judged /\ HaltMeans /\ Promised)
  BY <1>1, <1>2, TypesHold, InOrderNext, ToldNext, JudgedNext, HaltMeansNext, PromisedNext,
     PTL DEF Spec
<1>4. Types /\ Judged /\ HaltMeans /\ Promised => TransferInvariant
  <2>1. Types /\ Judged /\ HaltMeans /\ Promised => ReturnsClean
    <3> SUFFICES ASSUME Types, Judged, HaltMeans, Promised, pc = "idle", failures = 0
                 PROVE  \/ tds = << >> /\ ep # "Halted"
                        \/ lost /\ ep = "Halted" /\ status # "SUCCESS"
      BY DEF ReturnsClean
    <3>1. lost \in BOOLEAN
      BY DEF Types, Flags
    <3>2. CASE lost = FALSE
      BY <3>2 DEF Promised, Clean, Control, Endpoint, HaltMeans
    <3>3. CASE lost = TRUE
      <4>1. Gone
        BY <3>3 DEF Promised
      <4>2. urb.num \in Nat
        BY TransferAssumption DEF Types, UrbTypes, Urbs
      <4>3. urb.num \in 1 .. urb.num
        BY <4>1, <4>2 DEF Gone
      <4>4. status # "SUCCESS"
        BY <4>1, <4>3 DEF Judged, Gone
      <4> QED
        BY <3>3, <4>1, <4>4 DEF Gone
    <3> QED
      BY <3>1, <3>2, <3>3
  <2>2. Types /\ Promised => NoStaleRun
    BY DEF Types, Flags, Promised, Clean, Remainder, Gone, NoStaleRun
  <2> QED
    BY <2>1, <2>2, TypesSuffice DEF TransferInvariant
<1> QED
  BY <1>3, <1>4, PTL
=============================================================================
