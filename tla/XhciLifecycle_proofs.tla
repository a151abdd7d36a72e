----------------------- MODULE XhciLifecycle_proofs -----------------------
(***************************************************************************)
(* Proofs about XhciLifecycle for any number of starts, schedules and host *)
(* system errors. What is allocated, armed, installed and read by the      *)
(* controller follows from where the driver is: the parts of the invariant *)
(* say so, phase by phase, and each is preserved with the help of the      *)
(* first, which says what is allocated.                                    *)
(***************************************************************************)
EXTENDS XhciLifecycle, TLAPS

(* Where the driver has nothing, an instance, or an instance and a         *)
(* schedule; where the poll timer may fire; and where XhcReset is.         *)
Without == {"idle", "enabled", "close pciio"}
WithInstance == {"created", "taken"}
Armed == {"armed", "evented", "started", "uninstalled"}
WithSchedule == {"scheduled", "running", "free pool", "quiet", "given up", "exited"} \cup Armed
Resetting == {"reset", "unscheduled"}

PcIsAPhase == pc \in Without \cup WithInstance \cup WithSchedule \cup Resetting

Allocation ==
  /\ starts \in Nat /\ schedules \in Nat
  /\ pc = "enabled" => starts # 0
  /\ pc \in Without => xhc = 0
  /\ pc \notin Without => xhc # 0
  /\ pc \in Without \cup WithInstance \cup {"unscheduled"} => sched = 0 /\ urbs = 0
  /\ pc \in WithSchedule \cup {"reset"} => sched # 0 /\ urbs \in {0, sched}
  /\ pc \in {"scheduled", "running", "armed", "evented", "free pool"} => urbs = 0

(* The timer, and the TPL that keeps it out.                               *)
Timing ==
  /\ DOMAIN timer = {"context", "armed"}
  /\ (raised = TRUE) <=> (pc \in Resetting)
  /\ pc \in Without \cup {"quiet", "given up", "exited"} => timer = Closed
  /\ pc \in WithInstance \cup {"scheduled", "running"} => timer.armed = FALSE
  /\ pc \in WithInstance \cup {"scheduled", "running", "free pool"} \cup Armed \cup Resetting
       => timer.context = xhc

Where == PcIsAPhase /\ Allocation

-----------------------------------------------------------------------------
(* Every step leads to a phase and keeps the allocation of the phase.      *)
LEMMA WhereInit == Init => Where
  BY DEF Init, Where, PcIsAPhase, Allocation, Without, WithInstance, WithSchedule, Resetting,
         Armed, LifecycleAssumption

(* What is allocated follows the phases.                                   *)
LEMMA WhereNext == Where /\ [Next]_vars => Where'
<1> SUFFICES ASSUME Where, [Next]_vars PROVE Where'
  OBVIOUS
<1>a. starts \in Nat /\ schedules \in Nat
  BY DEF Where, Allocation
<1>b. OpenPciIo => starts' \in Nat /\ starts' # 0
  <2>1. OpenPciIo => starts' = starts + 1
    BY DEF OpenPciIo
  <2> QED
    BY <1>a, <2>1
<1>c. InitSched \/ ResetInit => sched' # 0 /\ schedules' \in Nat
  BY <1>a DEF InitSched, ResetInit, XhcInitSched
<1> USE DEF Where, PcIsAPhase, Allocation, Without, WithInstance, WithSchedule, Resetting, Armed
<1>1. CASE OpenPciIo
  <2>1. pc = "idle" /\ pc' \in {"enabled", "close pciio"} /\ UNCHANGED <<sched, urbs, schedules, xhc>>
    BY <1>1 DEF OpenPciIo, memory
  <2> QED
    BY <1>1, <1>b, <2>1
<1>2. CASE XhcCreateUsbHc
  BY <1>2 DEF XhcCreateUsbHc, memory
<1>3. CASE TakeController
  BY <1>3 DEF TakeController, resources, memory
<1>4. CASE InitSched \/ ResetInit
  BY <1>4, <1>c DEF InitSched, ResetInit, resources
<1>5. CASE Run
  BY <1>5 DEF Run, resources, memory
<1>6. CASE ArmTimer
  BY <1>6 DEF ArmTimer, memory
<1>7. CASE CreateExitEvent
  BY <1>7 DEF CreateExitEvent, memory
<1>8. CASE Install
  BY <1>8 DEF Install, memory
<1>9. CASE FreePoolOfStart
  BY <1>9 DEF FreePoolOfStart, XhcFreeSched
<1>10. CASE ClosePciIo
  BY <1>10 DEF ClosePciIo, memory
<1>11. CASE Uninstall
  BY <1>11 DEF Uninstall, memory
<1>12. CASE CloseEvents
  BY <1>12 DEF CloseEvents, memory
<1>13. CASE GiveUpController
  BY <1>13 DEF GiveUpController, memory, resources
<1>14. CASE FreeInstance
  BY <1>14 DEF FreeInstance, XhciDelAllAsyncIntTransfers, XhcFreeSched
<1>15. CASE XhcExitBootService
  BY <1>15 DEF XhcExitBootService, memory
<1>16. CASE XhcAsyncInterruptTransfer
  BY <1>16 DEF XhcAsyncInterruptTransfer, Called, resources
<1>17. CASE XhcReset
  BY <1>17 DEF XhcReset, EnterReset, Called, resources, memory
<1>18. CASE ResetFree
  BY <1>18 DEF ResetFree, XhciDelAllAsyncIntTransfers, XhcFreeSched, resources
<1>19. CASE HcFollows \/ HcError \/ XhcSetStateHalt \/ XhcSetStateOperational \/ UNCHANGED vars
  BY <1>19 DEF HcFollows, HcError, XhcSetStateHalt, XhcSetStateOperational, vars, resources,
               memory
<1> QED
  BY <1>1, <1>2, <1>3, <1>4, <1>5, <1>6, <1>7, <1>8, <1>9, <1>10, <1>11, <1>12, <1>13, <1>14,
     <1>15, <1>16, <1>17, <1>18, <1>19 DEF Next

-----------------------------------------------------------------------------
(* At first there is no timer.                                             *)
LEMMA TimingInit == Init => Timing
  BY DEF Init, Timing, Closed, Without, WithInstance, WithSchedule, Resetting, Armed

(* Every step leaves the timer as its phase wants it.                      *)
LEMMA TimingNext == Where /\ Timing /\ [Next]_vars => Timing'
<1> SUFFICES ASSUME Where, Timing, [Next]_vars PROVE Timing'
  OBVIOUS
<1> USE DEF Where, PcIsAPhase, Timing, Without, WithInstance, WithSchedule, Resetting, Armed
<1>1. CASE OpenPciIo
  BY <1>1 DEF OpenPciIo, Allocation
<1>2. CASE XhcCreateUsbHc
  <2>1. CASE pc' = "created" /\ xhc' = starts /\ timer' = [context |-> starts, armed |-> FALSE]
    BY <1>2, <2>1 DEF XhcCreateUsbHc
  <2>2. CASE pc' = "idle" /\ UNCHANGED <<xhc, timer>>
    BY <1>2, <2>2 DEF XhcCreateUsbHc
  <2> QED
    BY <1>2, <2>1, <2>2 DEF XhcCreateUsbHc
<1>3. CASE TakeController
  BY <1>3 DEF TakeController, resources
<1>4. CASE InitSched \/ ResetInit
  BY <1>4 DEF InitSched, ResetInit, resources
<1>5. CASE Run
  BY <1>5 DEF Run, resources
<1>6. CASE ArmTimer
  BY <1>6 DEF ArmTimer
<1>7. CASE CreateExitEvent
  BY <1>7 DEF CreateExitEvent
<1>8. CASE Install
  BY <1>8 DEF Install
<1>9. CASE FreePoolOfStart
  BY <1>9 DEF FreePoolOfStart, Closed
<1>10. CASE ClosePciIo
  BY <1>10 DEF ClosePciIo
<1>11. CASE Uninstall
  BY <1>11 DEF Uninstall
<1>12. CASE CloseEvents
  BY <1>12 DEF CloseEvents, Closed
<1>13. CASE GiveUpController
  BY <1>13 DEF GiveUpController, resources
<1>14. CASE FreeInstance
  BY <1>14 DEF FreeInstance
<1>15. CASE XhcExitBootService
  BY <1>15 DEF XhcExitBootService, Closed
<1>16. CASE XhcAsyncInterruptTransfer \/ XhcReset
  BY <1>16 DEF XhcAsyncInterruptTransfer, XhcReset, EnterReset, Called, resources
<1>17. CASE ResetFree
  BY <1>17 DEF ResetFree, resources
<1>18. CASE HcFollows \/ HcError \/ XhcSetStateHalt \/ XhcSetStateOperational \/ UNCHANGED vars
  BY <1>18 DEF HcFollows, HcError, XhcSetStateHalt, XhcSetStateOperational, vars, resources
<1> QED
  BY <1>1, <1>2, <1>3, <1>4, <1>5, <1>6, <1>7, <1>8, <1>9, <1>10, <1>11, <1>12, <1>13, <1>14,
     <1>15, <1>16, <1>17, <1>18 DEF Next

-----------------------------------------------------------------------------
(* The controller reads nothing: it is halted and was not told to run.     *)
Quiet == hc.halted = TRUE /\ hc.run = FALSE

GaveUp == accidents \cap {"late failure", "halt timed out"} # {}

(* The registers name the schedule wherever there is one; elsewhere the    *)
(* controller is quiet, or they name nothing.                              *)
Dma ==
  /\ hc \in [run : BOOLEAN, halted : BOOLEAN, hse : BOOLEAN]
  /\ pc \in Without \cup WithInstance \cup {"free pool", "given up"}
       => GaveUp \/ Quiet \/ dcbaap = 0
  /\ pc \in WithSchedule => dcbaap \in {0, sched}
  /\ pc \in Resetting => dcbaap = 0

(* A halt that is waited out leaves the controller quiet.                  *)
LEMMA HaltIsQuiet ==
  ASSUME Dma, hc' \in XhcHaltHC
  PROVE  /\ hc' \in [run : BOOLEAN, halted : BOOLEAN, hse : BOOLEAN]
         /\ hc'.run = FALSE
  BY DEF XhcHaltHC, Dma

(* Running the controller changes its state only.                          *)
LEMMA RunIsShaped ==
  ASSUME Dma, hc' \in XhcRunHC
  PROVE  hc' \in [run : BOOLEAN, halted : BOOLEAN, hse : BOOLEAN]
  BY DEF XhcRunHC, Dma

(* A reset keeps the registers or clears them, and clears them if it was   *)
(* carried out.                                                            *)
LEMMA ResetOutcomes ==
  ASSUME Dma, NEW r \in XhcResetHC
  PROVE  /\ r.hc \in [run : BOOLEAN, halted : BOOLEAN, hse : BOOLEAN]
         /\ r.dcbaap \in {0, dcbaap}
         /\ r.done /\ ~debug => r.dcbaap = 0
         /\ Quiet => r.hc.halted = TRUE /\ r.hc.run = FALSE
<1>1. CASE r = [hc |-> [run |-> FALSE, halted |-> TRUE, hse |-> FALSE], dcbaap |-> 0, done |-> TRUE]
  BY <1>1
<1>2. CASE \E h \in IF hc.halted THEN {hc} ELSE XhcHaltHC :
             r = [hc |-> h, dcbaap |-> dcbaap, done |-> h.halted /\ debug]
  <2>1. PICK h \in IF hc.halted THEN {hc} ELSE XhcHaltHC :
               r = [hc |-> h, dcbaap |-> dcbaap, done |-> h.halted /\ debug]
    BY <1>2
  <2>2. h \in [run : BOOLEAN, halted : BOOLEAN, hse : BOOLEAN]
    BY DEF XhcHaltHC, Dma
  <2>3. Quiet => h = hc
    BY <2>1 DEF Quiet
  <2>4. r.hc = h /\ r.dcbaap = dcbaap /\ r.done = (h.halted /\ debug)
    BY <2>1
  <2> QED
    BY <2>2, <2>3, <2>4 DEF Quiet
<1> QED
  BY <1>1, <1>2 DEF XhcResetHC

(* At first the controller reads nothing.                                  *)
LEMMA DmaInit == Init => Dma
<1> SUFFICES ASSUME Init PROVE Dma
  OBVIOUS
<1>1. PICK r \in BOOLEAN : hc = [run |-> r, halted |-> ~r, hse |-> FALSE]
  BY DEF Init
<1>2. hc \in [run : BOOLEAN, halted : BOOLEAN, hse : BOOLEAN]
  BY <1>1
<1> QED
  BY <1>2 DEF Init, Dma, Without, WithInstance, WithSchedule, Resetting, Armed

(* Every step leaves the registers as its phase wants them.                *)
LEMMA DmaNext == Where /\ Where' /\ Dma /\ [Next]_vars => Dma'
<1> SUFFICES ASSUME Where, Where', Dma, [Next]_vars PROVE Dma'
  OBVIOUS
<1> USE DEF PcIsAPhase, Without, WithInstance, WithSchedule, Resetting, Armed
<1>1. CASE OpenPciIo
  BY <1>1 DEF OpenPciIo, controller, Dma, Quiet, GaveUp, Where, Allocation
<1>2. CASE XhcCreateUsbHc
  BY <1>2 DEF XhcCreateUsbHc, controller, Dma, Quiet, GaveUp, Accident
<1>3. CASE TakeController
  BY <1>3, ResetOutcomes DEF TakeController, Dma, Quiet, GaveUp, Accident
<1>4. CASE InitSched \/ ResetInit
  BY <1>4 DEF InitSched, ResetInit, XhcInitSched, Dma
<1>5. CASE Run
  BY <1>5, RunIsShaped DEF Run, memory, Dma
<1>6. CASE ArmTimer
  BY <1>6, HaltIsQuiet DEF ArmTimer, memory, Dma, Accident, Quiet, GaveUp
<1>7. CASE CreateExitEvent
  BY <1>7 DEF CreateExitEvent, memory, controller, Dma, Accident, GaveUp
<1>8. CASE Install
  BY <1>8 DEF Install, memory, controller, Dma, Accident, GaveUp
<1>9. CASE FreePoolOfStart
  BY <1>9 DEF FreePoolOfStart, controller, Dma, GaveUp, Quiet
<1>10. CASE ClosePciIo
  BY <1>10 DEF ClosePciIo, controller, Dma, GaveUp, Quiet
<1>11. CASE Uninstall
  BY <1>11 DEF Uninstall, controller, memory, Dma
<1>12. CASE CloseEvents
  BY <1>12 DEF CloseEvents, controller, memory, Dma
<1>13. CASE GiveUpController
  BY <1>13, HaltIsQuiet DEF GiveUpController, memory, Dma, Accident, Quiet, GaveUp
<1>14. CASE FreeInstance
  BY <1>14 DEF FreeInstance, controller, Dma, GaveUp, Quiet
<1>15. CASE XhcExitBootService
  BY <1>15, HaltIsQuiet DEF XhcExitBootService, memory, Dma, Where, Allocation
<1>16. CASE XhcAsyncInterruptTransfer
  BY <1>16 DEF XhcAsyncInterruptTransfer, Called, controller, Dma
<1>17. CASE XhcReset
  BY <1>17, ResetOutcomes DEF XhcReset, EnterReset, Called, memory, Dma
<1>18. CASE ResetFree
  BY <1>18 DEF ResetFree, controller, Dma
<1>19. CASE HcFollows
  BY <1>19 DEF HcFollows, memory, Dma, Quiet, GaveUp
<1>20. CASE HcError
  BY <1>20 DEF HcError, memory, Dma, Quiet, GaveUp
<1>21. CASE XhcSetStateHalt
  BY <1>21, HaltIsQuiet DEF XhcSetStateHalt, memory, Dma, Called
<1>22. CASE XhcSetStateOperational
  BY <1>22, RunIsShaped DEF XhcSetStateOperational, memory, Dma, Called
<1>23. CASE UNCHANGED vars
  BY <1>23 DEF vars, controller, memory, Dma, Quiet, GaveUp
<1> QED
  BY <1>1, <1>2, <1>3, <1>4, <1>5, <1>6, <1>7, <1>8, <1>9, <1>10, <1>11, <1>12, <1>13, <1>14,
     <1>15, <1>16, <1>17, <1>18, <1>19, <1>20, <1>21, <1>22, <1>23 DEF Next

-----------------------------------------------------------------------------
(* Who may still call the driver: the handler of ExitBootServices exists   *)
(* from the step that creates it to the stop, the protocols from the step  *)
(* that installs them.                                                     *)
WithProtocols == {"started", "exited"} \cup Resetting
WithHandler == {"evented", "uninstalled"} \cup WithProtocols

Callers ==
  /\ "late failure" \in accidents \/ exitEvents = IF pc \in WithHandler THEN {xhc} ELSE {}
  /\ "uninstall refused" \in accidents
       \/ installed = [p \in Protocols |-> IF pc \in WithProtocols THEN xhc ELSE 0]

(* At first nothing can call the driver.                                   *)
LEMMA CallersInit == Init => Callers
  BY DEF Init, Callers, WithHandler, WithProtocols, Resetting

(* Handler and protocols come and go with their phases.                    *)
LEMMA CallersNext == Where /\ Callers /\ [Next]_vars => Callers'
<1> SUFFICES ASSUME Where, Callers, [Next]_vars PROVE Callers'
  OBVIOUS
<1> USE DEF PcIsAPhase, Without, WithInstance, WithSchedule, Resetting, Armed, WithHandler,
            WithProtocols, Callers
<1>1. CASE OpenPciIo
  BY <1>1 DEF OpenPciIo
<1>2. CASE XhcCreateUsbHc
  BY <1>2 DEF XhcCreateUsbHc, Accident
<1>3. CASE TakeController
  BY <1>3 DEF TakeController, Accident, resources
<1>4. CASE InitSched \/ ResetInit
  BY <1>4 DEF InitSched, ResetInit, resources
<1>5. CASE Run
  BY <1>5 DEF Run, resources
<1>6. CASE ArmTimer
  BY <1>6 DEF ArmTimer, Accident
<1>7. CASE CreateExitEvent
  BY <1>7 DEF CreateExitEvent, Accident
<1>8. CASE Install
  BY <1>8 DEF Install, Accident
<1>9. CASE FreePoolOfStart
  BY <1>9 DEF FreePoolOfStart
<1>10. CASE ClosePciIo
  BY <1>10 DEF ClosePciIo
<1>11. CASE Uninstall
  BY <1>11 DEF Uninstall, Accident
<1>12. CASE CloseEvents
  BY <1>12 DEF CloseEvents
<1>13. CASE GiveUpController
  BY <1>13 DEF GiveUpController, resources, Accident
<1>14. CASE FreeInstance
  BY <1>14 DEF FreeInstance
<1>15. CASE XhcExitBootService
  BY <1>15 DEF XhcExitBootService, Accident, Where, Allocation
<1>16. CASE XhcAsyncInterruptTransfer
  BY <1>16 DEF XhcAsyncInterruptTransfer, Called, resources
<1>17. CASE XhcReset
  BY <1>17 DEF XhcReset, EnterReset, Called, Accident, resources
<1>18. CASE ResetFree
  BY <1>18 DEF ResetFree, resources
<1>19. CASE HcFollows \/ HcError \/ XhcSetStateHalt \/ XhcSetStateOperational \/ UNCHANGED vars
  BY <1>19 DEF HcFollows, HcError, XhcSetStateHalt, XhcSetStateOperational, vars, resources,
               Accident
<1> QED
  BY <1>1, <1>2, <1>3, <1>4, <1>5, <1>6, <1>7, <1>8, <1>9, <1>10, <1>11, <1>12, <1>13, <1>14,
     <1>15, <1>16, <1>17, <1>18, <1>19 DEF Next

-----------------------------------------------------------------------------
(* What RestIsClean says beyond the allocation and the timer.              *)
Rest ==
  /\ pc = "idle" /\ "create failed" \notin accidents => opened = FALSE /\ attributes = original
  /\ pc = "exited" => attributes = original /\ owner = "os"

(* At first the controller is as the firmware left it.                     *)
LEMMA RestInit == Init => Rest
  BY DEF Init, Rest

(* And so it is whenever the driver is at rest.                            *)
LEMMA RestNext == Where /\ Rest /\ [Next]_vars => Rest'
<1> SUFFICES ASSUME Where, Rest, [Next]_vars PROVE Rest'
  OBVIOUS
<1>1. pc' \notin {"idle", "exited"} => Rest'
  BY DEF Rest
<1>2. CASE HcFollows \/ HcError \/ XhcAsyncInterruptTransfer \/ UNCHANGED vars
  BY <1>2 DEF HcFollows, HcError, XhcAsyncInterruptTransfer, Called, vars, resources,
              controller, Rest
<1>3. CASE XhcSetStateHalt \/ XhcSetStateOperational \/ XhcReset
  BY <1>1, <1>3 DEF XhcSetStateHalt, XhcSetStateOperational, XhcReset, EnterReset, Called
<1>4. CASE OpenPciIo \/ TakeController \/ InitSched \/ Run \/ ArmTimer
  BY <1>1, <1>4 DEF OpenPciIo, TakeController, InitSched, Run, ArmTimer
<1>5. CASE CreateExitEvent \/ Install \/ FreePoolOfStart \/ Uninstall \/ CloseEvents
  BY <1>1, <1>5 DEF CreateExitEvent, Install, FreePoolOfStart, Uninstall, CloseEvents
<1>6. CASE GiveUpController \/ ResetFree \/ ResetInit
  BY <1>1, <1>6 DEF GiveUpController, ResetFree, ResetInit
<1>7. CASE XhcCreateUsbHc
  BY <1>7 DEF XhcCreateUsbHc, Accident, Rest
<1>8. CASE ClosePciIo
  BY <1>8 DEF ClosePciIo, Rest
<1>9. CASE FreeInstance
  BY <1>9 DEF FreeInstance, Rest
<1>10. CASE XhcExitBootService
  BY <1>10 DEF XhcExitBootService, Rest
<1> QED
  BY <1>2, <1>3, <1>4, <1>5, <1>6, <1>7, <1>8, <1>9, <1>10 DEF Next

-----------------------------------------------------------------------------
LInv == Where /\ Timing /\ Dma /\ Callers /\ Rest

(* The parts together are inductive.                                       *)
LEMMA LInvariant == Spec => []LInv
<1>1. Init => LInv
  BY WhereInit, TimingInit, DmaInit, CallersInit, RestInit DEF LInv
<1>2. LInv /\ [Next]_vars => LInv'
  BY WhereNext, TimingNext, DmaNext, CallersNext, RestNext DEF LInv
<1> QED
  BY <1>1, <1>2, PTL DEF Spec

(* The timer handler finds its instance, an event ring and URBs that are   *)
(* allocated, in whatever order starts, stops, resets and failures come.   *)
THEOREM MonitorSafe == Spec => []MonitorIsSafe
<1>1. ASSUME LInv, timer.armed, ~raised
      PROVE  pc \in Armed \cup {"free pool"}
  <2>1. pc \notin Resetting
    BY <1>1 DEF LInv, Timing
  <2>2. timer # Closed
    BY <1>1 DEF Closed
  <2> QED
    BY <1>1, <2>1, <2>2 DEF LInv, Where, PcIsAPhase, Timing, Without, WithInstance,
                            WithSchedule, Resetting, Armed
<1>2. LInv => MonitorIsSafe
  BY <1>1 DEF LInv, Where, Timing, Allocation, MonitorIsSafe, Without, WithSchedule, Armed
<1> QED
  BY <1>2, LInvariant, PTL

(* A controller that has not halted reads no schedule that was freed,      *)
(* except after a start that failed late or a halt that timed out.         *)
THEOREM DmaSafe == Spec => []NoDmaAfterFree
<1>1. LInv => NoDmaAfterFree
  BY DEF LInv, Where, Dma, PcIsAPhase, Allocation, NoDmaAfterFree, Quiet, GaveUp, Without,
         WithInstance, WithSchedule, Resetting, Armed
<1> QED
  BY <1>1, LInvariant, PTL

(* The registers are on the schedule of the driver whenever it can be      *)
(* called.                                                                 *)
THEOREM RegistersCurrent == Spec => []RegistersAreCurrent
<1>1. LInv => RegistersAreCurrent
  BY DEF LInv, Where, Dma, Allocation, RegistersAreCurrent, Called, WithSchedule, Armed
<1> QED
  BY <1>1, LInvariant, PTL

(* No handler and no protocol outlives the instance it names.              *)
THEOREM CallersSafe == Spec => []NoDanglingInstance
<1>1. LInv => NoDanglingInstance
  BY DEF LInv, Callers, NoDanglingInstance
<1> QED
  BY <1>1, LInvariant, PTL

(* A stop, a start that failed and ExitBootServices leave nothing behind.  *)
THEOREM RestClean == Spec => []RestIsClean
<1>1. LInv => RestIsClean
  BY DEF LInv, Where, Timing, Rest, Allocation, RestIsClean, Without, WithSchedule
<1> QED
  BY <1>1, LInvariant, PTL

-----------------------------------------------------------------------------
(* The types of LifecycleInvariant. That an exit event names an instance   *)
(* needs Where, the bits of the controller need Dma.                       *)
Flags == raised \in BOOLEAN /\ opened \in BOOLEAN /\ debug \in BOOLEAN

Names ==
  /\ attributes \in {"plain", "enabled"} /\ original \in {"plain", "enabled"}
  /\ owner \in {"os", "bios"} /\ accidents \subseteq Accidents

Numbers ==
  /\ starts \in 0 .. MaxStarts /\ schedules \in 0 .. MaxSchedules /\ errors \in 0 .. MaxErrors
  /\ xhc \in 0 .. starts
  /\ sched \in 0 .. schedules /\ urbs \in 0 .. schedules /\ dcbaap \in 0 .. schedules
  /\ exitEvents \subseteq 1 .. starts

Holders ==
  /\ timer \in [context : 0 .. starts, armed : BOOLEAN]
  /\ installed \in [Protocols -> 0 .. starts]

(* The remaining types, one kind of variable at a time: flags,             *)
LEMMA FlagsNext == Flags /\ [Next]_vars => Flags'
<1> SUFFICES ASSUME Flags, [Next]_vars PROVE Flags'
  OBVIOUS
<1> USE DEF Flags, resources, controller
<1>1. CASE OpenPciIo \/ XhcCreateUsbHc \/ TakeController \/ InitSched \/ Run \/ ArmTimer
  BY <1>1 DEF OpenPciIo, XhcCreateUsbHc, TakeController, InitSched, Run, ArmTimer
<1>2. CASE CreateExitEvent \/ Install \/ FreePoolOfStart \/ ClosePciIo \/ Uninstall \/ CloseEvents
  BY <1>2 DEF CreateExitEvent, Install, FreePoolOfStart, ClosePciIo, Uninstall, CloseEvents
<1>3. CASE GiveUpController \/ FreeInstance \/ XhcExitBootService \/ XhcAsyncInterruptTransfer
  BY <1>3 DEF GiveUpController, FreeInstance, XhcExitBootService, XhcAsyncInterruptTransfer
<1>4. CASE XhcReset \/ ResetFree \/ ResetInit
  BY <1>4 DEF XhcReset, EnterReset, ResetFree, ResetInit
<1>5. CASE HcFollows \/ HcError \/ XhcSetStateHalt \/ XhcSetStateOperational \/ UNCHANGED vars
  BY <1>5 DEF HcFollows, HcError, XhcSetStateHalt, XhcSetStateOperational, vars
<1> QED
  BY <1>1, <1>2, <1>3, <1>4, <1>5 DEF Next

(* names,                                                                  *)
LEMMA NamesNext == Names /\ [Next]_vars => Names'
<1> SUFFICES ASSUME Names, [Next]_vars PROVE Names'
  OBVIOUS
<1> USE DEF Names, resources, controller, Accident, Accidents
<1>1. CASE OpenPciIo \/ XhcCreateUsbHc \/ TakeController \/ InitSched \/ Run \/ ArmTimer
  BY <1>1 DEF OpenPciIo, XhcCreateUsbHc, TakeController, InitSched, Run, ArmTimer
<1>2. CASE CreateExitEvent \/ Install \/ FreePoolOfStart \/ ClosePciIo \/ Uninstall \/ CloseEvents
  BY <1>2 DEF CreateExitEvent, Install, FreePoolOfStart, ClosePciIo, Uninstall, CloseEvents
<1>3. CASE GiveUpController \/ FreeInstance \/ XhcExitBootService \/ XhcAsyncInterruptTransfer
  BY <1>3 DEF GiveUpController, FreeInstance, XhcExitBootService, XhcAsyncInterruptTransfer
<1>4. CASE XhcReset \/ ResetFree \/ ResetInit
  BY <1>4 DEF XhcReset, ResetFree, ResetInit
<1>5. CASE HcFollows \/ HcError \/ XhcSetStateHalt \/ XhcSetStateOperational \/ UNCHANGED vars
  BY <1>5 DEF HcFollows, HcError, XhcSetStateHalt, XhcSetStateOperational, vars
<1> QED
  BY <1>1, <1>2, <1>3, <1>4, <1>5 DEF Next

(* numbers,                                                                *)
LEMMA NumbersNext == Where /\ Numbers /\ [Next]_vars => Numbers'
<1> SUFFICES ASSUME Where, Numbers, [Next]_vars PROVE Numbers'
  OBVIOUS
<1>a. /\ starts \in Nat /\ schedules \in Nat /\ errors \in Nat
      /\ MaxStarts \in Nat /\ MaxSchedules \in Nat /\ MaxErrors \in Nat
  BY LifecycleAssumption DEF Numbers
<1>b. pc = "armed" => xhc \in 1 .. starts
  BY <1>a DEF Where, Allocation, Without, Numbers
<1>c. ASSUME UNCHANGED <<starts, xhc, exitEvents>>, UNCHANGED <<sched, urbs, schedules, errors>>,
             dcbaap' \in {0, dcbaap}
      PROVE  Numbers'
  BY <1>a, <1>c DEF Numbers
<1>1. CASE OpenPciIo
  <2>1. /\ starts' = starts + 1 /\ starts < MaxStarts /\ UNCHANGED <<xhc, exitEvents>>
        /\ UNCHANGED <<sched, urbs, schedules, dcbaap, errors>>
    BY <1>1 DEF OpenPciIo, memory, controller
  <2> QED
    BY <1>a, <2>1 DEF Numbers
<1>2. CASE XhcCreateUsbHc
  <2>1. /\ xhc' \in {xhc, starts} /\ UNCHANGED <<starts, exitEvents>>
        /\ UNCHANGED <<sched, urbs, schedules, dcbaap, errors>>
    BY <1>2 DEF XhcCreateUsbHc, memory, controller
  <2> QED
    BY <1>a, <2>1 DEF Numbers
<1>3. CASE TakeController \/ XhcReset
  <2>1. \A r \in XhcResetHC : r.dcbaap \in {0, dcbaap}
    BY DEF XhcResetHC
  <2>2. dcbaap' \in {0, dcbaap}
    BY <1>3, <2>1 DEF TakeController, XhcReset
  <2>3. UNCHANGED <<starts, xhc, exitEvents>> /\ UNCHANGED <<sched, urbs, schedules, errors>>
    BY <1>3 DEF TakeController, XhcReset, resources, memory
  <2> QED
    BY <1>c, <2>2, <2>3
<1>4. CASE InitSched \/ ResetInit
  <2>1. /\ schedules' = schedules + 1 /\ schedules < MaxSchedules
        /\ sched' = schedules + 1 /\ dcbaap' = schedules + 1
        /\ UNCHANGED <<starts, xhc, exitEvents, urbs, errors>>
    BY <1>4 DEF InitSched, ResetInit, XhcInitSched, resources
  <2> QED
    BY <1>a, <2>1 DEF Numbers
<1>5. CASE Run \/ XhcSetStateOperational \/ ArmTimer \/ XhcSetStateHalt
  BY <1>5, <1>c DEF Run, XhcSetStateOperational, ArmTimer, XhcSetStateHalt, resources, memory
<1>6. CASE CreateExitEvent
  <2>1. /\ exitEvents' \in {exitEvents, exitEvents \cup {xhc}} /\ UNCHANGED <<starts, xhc>>
        /\ UNCHANGED <<sched, urbs, schedules, dcbaap, errors>> /\ pc = "armed"
    BY <1>6 DEF CreateExitEvent, memory, controller
  <2> QED
    BY <1>a, <1>b, <2>1 DEF Numbers
<1>7. CASE Install \/ Uninstall \/ ClosePciIo
  BY <1>7, <1>c DEF Install, Uninstall, ClosePciIo, memory, controller
<1>8. CASE CloseEvents
  BY <1>8 DEF CloseEvents, memory, controller, Numbers
<1>9. CASE GiveUpController \/ XhcExitBootService \/ HcFollows
  BY <1>9, <1>c DEF GiveUpController, XhcExitBootService, HcFollows, memory, resources
<1>10. CASE FreePoolOfStart \/ FreeInstance \/ XhcAsyncInterruptTransfer \/ ResetFree
  <2>1. /\ xhc' \in {0, xhc} /\ sched' \in {0, sched} /\ urbs' \in {0, urbs, sched}
        /\ UNCHANGED <<starts, exitEvents, schedules, dcbaap, errors>>
    BY <1>10 DEF FreePoolOfStart, FreeInstance, XhcAsyncInterruptTransfer, ResetFree,
                 XhciDelAllAsyncIntTransfers, XhcFreeSched, resources, controller
  <2> QED
    BY <1>a, <2>1 DEF Numbers
<1>11. CASE HcError
  BY <1>a, <1>11 DEF HcError, resources, memory, Numbers
<1>12. CASE UNCHANGED vars
  BY <1>12, <1>c DEF vars, resources, memory, controller
<1> QED
  BY <1>1, <1>2, <1>3, <1>4, <1>5, <1>6, <1>7, <1>8, <1>9, <1>10, <1>11, <1>12 DEF Next

(* and what holds numbers.                                                 *)
LEMMA HoldersNext == Numbers /\ Holders /\ [Next]_vars => Holders'
<1> SUFFICES ASSUME Numbers, Holders, [Next]_vars PROVE Holders'
  OBVIOUS
<1>a. starts \in Nat /\ xhc \in 0 .. starts /\ Closed \in [context : 0 .. starts, armed : BOOLEAN]
  BY LifecycleAssumption DEF Numbers, Closed
<1>b. (UNCHANGED starts) /\ timer' \in [context : 0 .. starts, armed : BOOLEAN]
      /\ installed' \in [Protocols -> 0 .. starts] => Holders'
  BY DEF Holders
<1>1. CASE OpenPciIo
  <2>1. starts' = starts + 1 /\ UNCHANGED <<timer, installed>>
    BY <1>1 DEF OpenPciIo
  <2>2. 0 .. starts \subseteq 0 .. starts'
    BY <1>a, <2>1
  <2> QED
    BY <2>1, <2>2 DEF Holders
<1>2. CASE XhcCreateUsbHc
  <2>1. [context |-> starts, armed |-> FALSE] \in [context : 0 .. starts, armed : BOOLEAN]
    BY <1>a
  <2>2. UNCHANGED <<starts, installed>> /\ timer' \in {timer, [context |-> starts, armed |-> FALSE]}
    BY <1>2 DEF XhcCreateUsbHc
  <2> QED
    BY <1>b, <2>1, <2>2 DEF Holders
<1>3. CASE TakeController \/ InitSched \/ Run
  BY <1>3 DEF TakeController, InitSched, Run, Holders, resources
<1>4. CASE ArmTimer
  BY <1>4 DEF ArmTimer, Holders
<1>5. CASE CreateExitEvent \/ FreePoolOfStart \/ ClosePciIo \/ CloseEvents
  BY <1>a, <1>5 DEF CreateExitEvent, FreePoolOfStart, ClosePciIo, CloseEvents, Holders
<1>6. CASE Install
  BY <1>a, <1>6 DEF Install, Holders
<1>7. CASE Uninstall
  <2>1. PICK refused \in SUBSET Protocols :
          installed' = [p \in Protocols |-> IF p \in refused THEN installed[p] ELSE 0]
    BY <1>7 DEF Uninstall
  <2>2. \A p \in Protocols : (IF p \in refused THEN installed[p] ELSE 0) \in 0 .. starts
    BY <1>a DEF Holders
  <2>3. UNCHANGED <<starts, timer>>
    BY <1>7 DEF Uninstall
  <2> QED
    BY <1>b, <2>1, <2>2, <2>3 DEF Holders
<1>8. CASE GiveUpController \/ FreeInstance \/ XhcExitBootService \/ XhcAsyncInterruptTransfer
  BY <1>a, <1>8 DEF GiveUpController, FreeInstance, XhcExitBootService, XhcAsyncInterruptTransfer,
                    Holders, resources
<1>9. CASE XhcReset \/ ResetFree \/ ResetInit
  BY <1>9 DEF XhcReset, ResetFree, ResetInit, Holders, resources
<1>10. CASE HcFollows \/ HcError \/ XhcSetStateHalt \/ XhcSetStateOperational \/ UNCHANGED vars
  BY <1>10 DEF HcFollows, HcError, XhcSetStateHalt, XhcSetStateOperational, vars, Holders, resources
<1> QED
  BY <1>1, <1>2, <1>3, <1>4, <1>5, <1>6, <1>7, <1>8, <1>9, <1>10 DEF Next

(* All that the run lifecycle checks of LifecycleInvariant: the types, the  *)
(* registers on the present schedule, and a clean machine at rest.         *)
THEOREM LifecycleInvariantHolds == Spec => []LifecycleInvariant
<1>1. Init => Flags
  BY DEF Init, Flags
<1>2. Init => Names
  BY DEF Init, Names, Accidents
<1>3. Init => Numbers /\ Holders
  BY LifecycleAssumption DEF Init, Numbers, Holders, Closed
<1>4. LInv /\ [Next]_vars => Where
  BY DEF LInv
<1>5. Spec => [](Flags /\ Names /\ Numbers /\ Holders)
  BY <1>1, <1>2, <1>3, <1>4, FlagsNext, NamesNext, NumbersNext, HoldersNext, LInvariant, PTL DEF Spec
<1>6. LInv => hc \in [run : BOOLEAN, halted : BOOLEAN, hse : BOOLEAN]
  BY DEF LInv, Dma
<1>7. LInv /\ Flags /\ Names /\ Numbers /\ Holders => TypeOK
  BY <1>6 DEF Flags, Names, Numbers, Holders, TypeOK
<1>8. TypeOK /\ RegistersAreCurrent /\ RestIsClean => LifecycleInvariant
  BY DEF LifecycleInvariant
<1> QED
  BY <1>5, <1>7, <1>8, LInvariant, RegistersCurrent, RestClean, PTL
=============================================================================
