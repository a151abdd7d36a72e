--------------------------- MODULE XhciLifecycle ---------------------------
(***************************************************************************)
(* The life of one host controller under the driver: XhcDriverBindingStart *)
(* with its error paths, XhcDriverBindingStop, the handler of              *)
(* ExitBootServices, and the two calls of EFI_USB2_HC_PROTOCOL that touch  *)
(* the whole controller, XhcReset and XhcSetState.                         *)
(*                                                                         *)
(* The driver runs in one thread. Between two of its steps the poll timer  *)
(* may call XhcMonitorAsyncRequests, unless the TPL is raised or the timer *)
(* is not armed, and the controller does DMA through the schedule its      *)
(* registers name until it has halted. Instances and schedules are         *)
(* numbered, so that a name that outlived its object can be told.          *)
(***************************************************************************)
EXTENDS Integers, FiniteSets

CONSTANTS
  MaxStarts,     \* bound: calls of XhcDriverBindingStart
  MaxSchedules,  \* bound: schedules that are built
  MaxErrors      \* bound: host system errors of the controller

ASSUME LifecycleAssumption == {MaxStarts, MaxSchedules, MaxErrors} \subseteq Nat

VARIABLES
  pc,         \* where the driver is
  raised,     \* the TPL is XHC_TPL: no timer is served
  opened,     \* PciIo is opened BY_DRIVER
  attributes, \* PCI attributes of the controller
  original,   \* OriginalPciAttributes
  xhc,        \* the instance that is allocated, 0 if none
  sched,      \* the schedule that is allocated (rings, DCBAA, pool), 0 if none
  urbs,       \* the schedule of the URBs in AsyncIntTransfers, 0 if there are none
  timer,      \* PollTimer: its context, 0 if closed, and whether it is set
  exitEvents, \* contexts of the open events for ExitBootServices
  installed,  \* the instance behind each of the two protocols, 0 if not installed
  owner,      \* who the legacy semaphores say owns the controller
  debug,      \* the debug capability is in use
  hc,         \* the controller: the RUN, HALT and HSE bits
  dcbaap,     \* the schedule its registers name
  starts, schedules, errors,
  accidents   \* history: failures the code does not undo

resources == <<opened, attributes, original, xhc, timer, exitEvents, installed>>
memory == <<sched, urbs, schedules>>
controller == <<hc, dcbaap, owner, debug, errors>>
vars == <<pc, raised, resources, memory, controller, starts, accidents>>

Protocols == {"UsbHc", "Usb2Hc"}
Closed == [context |-> 0, armed |-> FALSE]

Accidents == {"create failed", "late failure", "halt timed out", "uninstall refused"}

Init ==
  /\ pc = "idle" /\ raised = FALSE
  /\ opened = FALSE /\ attributes = "plain" /\ original = "plain"
  /\ xhc = 0 /\ sched = 0 /\ urbs = 0 /\ timer = Closed /\ exitEvents = {}
  /\ installed = [p \in Protocols |-> 0]
  /\ owner = "os" /\ debug \in BOOLEAN
  /\ hc \in {[run |-> r, halted |-> ~r, hse |-> FALSE] : r \in BOOLEAN}
  /\ dcbaap = 0 /\ starts = 0 /\ schedules = 0 /\ errors = 0 /\ accidents = {}

-----------------------------------------------------------------------------
(* The controller.                                                         *)

(* It follows the RUN bit late, and stops by itself on a host system error. *)
HcFollows ==
  /\ hc.halted = hc.run /\ ~hc.hse
  /\ hc' = [hc EXCEPT !.halted = ~hc.run]
  /\ UNCHANGED <<pc, raised, resources, memory, dcbaap, owner, debug, errors, starts, accidents>>

HcError ==
  /\ errors < MaxErrors /\ ~hc.halted
  /\ hc' = [run |-> FALSE, halted |-> TRUE, hse |-> TRUE]
  /\ errors' = errors + 1
  /\ UNCHANGED <<pc, raised, resources, memory, dcbaap, owner, debug, starts, accidents>>

(* The outcomes of a write of RUN: the wait sees the bit, or times out.    *)
XhcHaltHC == {[hc EXCEPT !.run = FALSE, !.halted = h] : h \in {hc.halted, TRUE}}

XhcRunHC ==
  {[hc EXCEPT !.run = TRUE, !.halted = h] :
     h \in {hc.halted} \cup (IF hc.hse THEN {} ELSE {FALSE})}

(* A halt first, then HCRST, unless the debug capability is in use. A reset *)
(* that times out has not taken place; one that does clears DCBAAP.        *)
XhcResetHC ==
  LET unreset == {[hc |-> h, dcbaap |-> dcbaap, done |-> h.halted /\ debug] :
                    h \in IF hc.halted THEN {hc} ELSE XhcHaltHC}
      reset == [hc |-> [run |-> FALSE, halted |-> TRUE, hse |-> FALSE],
                dcbaap |-> 0, done |-> TRUE]
  IN  unreset \cup (IF debug THEN {} ELSE {reset})

(* Something the caller does not look at.                                  *)
Accident(condition, what) ==
  accidents' = IF condition THEN accidents \cup {what} ELSE accidents

-----------------------------------------------------------------------------
(* XhcDriverBindingStart.                                                  *)

(* PciIo is opened, its attributes are saved and the device is enabled;    *)
(* any of the three may fail.                                              *)
OpenPciIo ==
  /\ pc = "idle" /\ ~opened /\ starts < MaxStarts
  /\ starts' = starts + 1 /\ opened' = TRUE /\ original' = attributes
  /\ \/ pc' = "enabled" /\ attributes' = "enabled"
     \/ pc' = "close pciio" /\ UNCHANGED attributes
  /\ UNCHANGED <<raised, xhc, timer, exitEvents, installed, memory, controller, accidents>>

(* The path for an instance that cannot be made returns at once.           *)
XhcCreateUsbHc ==
  /\ pc = "enabled"
  /\ \/ /\ pc' = "created" /\ xhc' = starts
        /\ timer' = [context |-> starts, armed |-> FALSE]
        /\ UNCHANGED accidents
     \/ /\ pc' = "idle" /\ UNCHANGED <<xhc, timer>>
        /\ Accident(TRUE, "create failed")
  /\ UNCHANGED <<raised, opened, attributes, original, exitEvents, installed, memory,
                 controller, starts>>

(* The ownership is taken, the controller is reset: neither is verified.   *)
TakeController ==
  /\ pc = "created" /\ pc' = "taken"
  /\ owner' = "bios"
  /\ \E r \in XhcResetHC :
       /\ hc' = r.hc /\ dcbaap' = r.dcbaap
       /\ Accident(~r.hc.halted, "halt timed out")
  /\ UNCHANGED <<raised, resources, memory, debug, errors, starts>>

(* The schedule is built, then its addresses are written to the registers. *)
XhcInitSched ==
  /\ schedules < MaxSchedules
  /\ schedules' = schedules + 1 /\ sched' = schedules + 1 /\ dcbaap' = schedules + 1

InitSched ==
  /\ pc = "taken" /\ pc' = "scheduled"
  /\ XhcInitSched
  /\ UNCHANGED <<raised, resources, urbs, hc, owner, debug, errors, starts, accidents>>

(* Run, then the timer; a timer that cannot be set halts the controller.   *)
Run ==
  /\ pc = "scheduled" /\ pc' = "running"
  /\ hc' \in XhcRunHC
  /\ UNCHANGED <<raised, resources, memory, dcbaap, owner, debug, errors, starts, accidents>>

ArmTimer ==
  /\ pc = "running"
  /\ \/ /\ pc' = "armed" /\ timer' = [timer EXCEPT !.armed = TRUE]
        /\ UNCHANGED <<hc, accidents>>
     \/ /\ pc' = "free pool"
        /\ hc' \in XhcHaltHC /\ Accident(~hc'.halted, "halt timed out")
        /\ UNCHANGED timer
  /\ UNCHANGED <<raised, opened, attributes, original, xhc, exitEvents, installed, memory,
                 dcbaap, owner, debug, errors, starts>>

(* The last two steps leave the controller running when they fail, and the *)
(* second leaves the event of the first.                                   *)
CreateExitEvent ==
  /\ pc = "armed"
  /\ \/ pc' = "evented" /\ exitEvents' = exitEvents \cup {xhc} /\ UNCHANGED accidents
     \/ pc' = "free pool" /\ UNCHANGED exitEvents /\ Accident(TRUE, "late failure")
  /\ UNCHANGED <<raised, opened, attributes, original, xhc, timer, installed, memory,
                 controller, starts>>

Install ==
  /\ pc = "evented"
  /\ \/ pc' = "started" /\ installed' = [p \in Protocols |-> xhc] /\ UNCHANGED accidents
     \/ pc' = "free pool" /\ UNCHANGED installed /\ Accident(TRUE, "late failure")
  /\ UNCHANGED <<raised, opened, attributes, original, xhc, timer, exitEvents, memory,
                 controller, starts>>

XhcFreeSched == sched' = 0

FreePoolOfStart ==
  /\ pc = "free pool" /\ pc' = "close pciio"
  /\ timer' = Closed /\ XhcFreeSched /\ xhc' = 0
  /\ UNCHANGED <<raised, opened, attributes, original, exitEvents, installed, urbs, schedules,
                 controller, starts, accidents>>

ClosePciIoEnabled ==
  /\ pc = "close pciio" /\ pc' = "idle"
  /\ opened' = FALSE
  /\ UNCHANGED <<raised, attributes, original, xhc, timer, exitEvents, installed, memory,
                 controller, starts, accidents>>

ClosePciIo ==
  /\ pc = "close pciio" /\ pc' = "idle"
  /\ attributes' = original /\ opened' = FALSE
  /\ UNCHANGED <<raised, original, xhc, timer, exitEvents, installed, memory, controller,
                 starts, accidents>>

-----------------------------------------------------------------------------
(* XhcDriverBindingStop.                                                   *)

(* A protocol somebody will not give up stays installed.                   *)
Uninstall ==
  /\ pc = "started" /\ pc' = "uninstalled"
  /\ \E refused \in SUBSET Protocols :
       /\ installed' = [p \in Protocols |-> IF p \in refused THEN installed[p] ELSE 0]
       /\ Accident(refused # {}, "uninstall refused")
  /\ UNCHANGED <<raised, opened, attributes, original, xhc, timer, exitEvents, memory,
                 controller, starts>>

(* The timer is cancelled, the slots are disabled, the events are closed.  *)
CloseTimerOnly ==
  /\ pc = "uninstalled" /\ pc' = "quiet"
  /\ timer' = Closed
  /\ UNCHANGED <<raised, opened, attributes, original, xhc, exitEvents, installed, memory,
                 controller, starts, accidents>>

CloseEvents ==
  /\ pc = "uninstalled" /\ pc' = "quiet"
  /\ timer' = Closed /\ exitEvents' = exitEvents \ {xhc}
  /\ UNCHANGED <<raised, opened, attributes, original, xhc, installed, memory, controller,
                 starts, accidents>>

GiveUpControllerRunning ==
  /\ pc = "quiet" /\ pc' = "given up"
  /\ owner' = "os"
  /\ UNCHANGED <<raised, resources, memory, hc, dcbaap, debug, errors, starts, accidents>>

GiveUpController ==
  /\ pc = "quiet" /\ pc' = "given up"
  /\ hc' \in XhcHaltHC /\ Accident(~hc'.halted, "halt timed out")
  /\ owner' = "os"
  /\ UNCHANGED <<raised, resources, memory, dcbaap, debug, errors, starts>>

XhciDelAllAsyncIntTransfers == urbs' = 0

FreeInstance ==
  /\ pc = "given up" /\ pc' = "idle"
  /\ XhciDelAllAsyncIntTransfers /\ XhcFreeSched
  /\ attributes' = original /\ opened' = FALSE /\ xhc' = 0
  /\ UNCHANGED <<raised, original, timer, exitEvents, installed, schedules, controller,
                 starts, accidents>>

(* ExitBootServices calls every handler; nothing of the driver runs later. *)
XhcExitBootService ==
  /\ pc \in {"idle", "started"} /\ xhc # 0 /\ xhc \in exitEvents
  /\ pc' = "exited"
  /\ timer' = Closed
  /\ hc' \in XhcHaltHC /\ Accident(~hc'.halted, "halt timed out")
  /\ owner' = "os" /\ attributes' = original
  /\ UNCHANGED <<raised, opened, original, xhc, exitEvents, installed, memory, dcbaap, debug,
                 errors, starts>>

-----------------------------------------------------------------------------
(* EFI_USB2_HC_PROTOCOL, through a protocol that is installed.             *)

Called == pc = "started" /\ installed["Usb2Hc"] = xhc

(* A transfer whose URB stays in AsyncIntTransfers.                        *)
XhcAsyncInterruptTransfer ==
  /\ Called /\ ~hc.halted /\ urbs = 0
  /\ urbs' = sched
  /\ UNCHANGED <<pc, raised, resources, sched, schedules, controller, starts, accidents>>

XhcSetStateHalt ==
  /\ Called /\ ~hc.halted
  /\ hc' \in XhcHaltHC /\ Accident(~hc'.halted, "halt timed out")
  /\ UNCHANGED <<pc, raised, resources, memory, dcbaap, owner, debug, errors, starts>>

XhcSetStateOperational ==
  /\ Called /\ hc.halted /\ ~hc.hse
  /\ hc' \in XhcRunHC
  /\ UNCHANGED <<pc, raised, resources, memory, dcbaap, owner, debug, errors, starts, accidents>>

(* RaiseTPL keeps the timer out until RestoreTPL.                          *)
EnterResetAtLowTpl == pc' = "reset" /\ raised' = FALSE
EnterReset == pc' = "reset" /\ raised' = TRUE

(* XhcReset: nothing with the debug capability; a halt that fails, or a    *)
(* reset, ends the call before anything was freed.                         *)
XhcReset ==
  /\ Called /\ ~debug /\ schedules < MaxSchedules
  /\ \E r \in XhcResetHC :
       /\ hc' = r.hc /\ dcbaap' = r.dcbaap
       /\ IF r.done THEN EnterReset ELSE UNCHANGED <<pc, raised>>
       /\ Accident(~r.hc.halted, "halt timed out")
  /\ UNCHANGED <<resources, memory, owner, debug, errors, starts>>

ResetFree ==
  /\ pc = "reset" /\ pc' = "unscheduled"
  /\ XhciDelAllAsyncIntTransfers /\ XhcFreeSched
  /\ UNCHANGED <<raised, resources, schedules, controller, starts, accidents>>

ResetInit ==
  /\ pc = "unscheduled" /\ pc' = "started"
  /\ XhcInitSched
  /\ raised' = FALSE
  /\ UNCHANGED <<resources, urbs, hc, owner, debug, errors, starts, accidents>>

-----------------------------------------------------------------------------
Next ==
  \/ HcFollows \/ HcError
  \/ OpenPciIo \/ XhcCreateUsbHc \/ TakeController \/ InitSched \/ Run
  \/ ArmTimer \/ CreateExitEvent \/ Install \/ FreePoolOfStart \/ ClosePciIo
  \/ Uninstall \/ CloseEvents \/ GiveUpController \/ FreeInstance
  \/ XhcExitBootService
  \/ XhcAsyncInterruptTransfer \/ XhcSetStateHalt \/ XhcSetStateOperational
  \/ XhcReset \/ ResetFree \/ ResetInit

Spec == Init /\ [][Next]_vars

-----------------------------------------------------------------------------
(* Properties.                                                             *)

TypeOK ==
  /\ raised \in BOOLEAN /\ opened \in BOOLEAN /\ debug \in BOOLEAN
  /\ {attributes, original} \subseteq {"plain", "enabled"} /\ owner \in {"os", "bios"}
  /\ starts \in 0 .. MaxStarts /\ xhc \in 0 .. starts
  /\ timer \in [context : 0 .. starts, armed : BOOLEAN] /\ exitEvents \subseteq 1 .. starts
  /\ installed \in [Protocols -> 0 .. starts]
  /\ schedules \in 0 .. MaxSchedules /\ {sched, urbs, dcbaap} \subseteq 0 .. schedules
  /\ hc \in [run : BOOLEAN, halted : BOOLEAN, hse : BOOLEAN]
  /\ errors \in 0 .. MaxErrors /\ accidents \subseteq Accidents

(* XhcMonitorAsyncRequests runs whenever the timer is set and the TPL is   *)
(* low: its instance is allocated then, and so are the event ring it walks *)
(* and the URBs of its list.                                               *)
MonitorIsSafe ==
  timer.armed /\ ~raised => timer.context = xhc /\ xhc # 0 /\ sched # 0 /\ urbs \in {0, sched}

(* While the controller has not halted the schedule its registers name is  *)
(* allocated, or is the one of its last owner. Two steps of the code break *)
(* this: a start that fails after the controller runs, and a halt that is  *)
(* not waited out.                                                         *)
NoDmaAfterFree ==
  ~hc.halted => dcbaap \in {0, sched} \/ accidents \cap {"late failure", "halt timed out"} # {}

(* The registers follow the schedule: a controller that can be started by  *)
(* the bus driver is never started on rings of before a reset.             *)
RegistersAreCurrent == Called /\ ~raised => dcbaap \in {0, sched} /\ sched # 0

(* Nobody is called with an instance that is gone: the handlers of         *)
(* ExitBootServices and the two protocols name the one that is allocated,  *)
(* unless the protocols could not be installed or taken away.              *)
NoDanglingInstance ==
  /\ "late failure" \notin accidents => exitEvents \subseteq {xhc}
  /\ "uninstall refused" \notin accidents => \A p \in Protocols : installed[p] \in {0, xhc}

(* A start that failed and a stop leave the machine as it was: PciIo is    *)
(* closed, its attributes are back, memory and events are returned, so     *)
(* that the next start finds the controller free. The exception is an      *)
(* instance that could not be created.                                     *)
RestIsClean ==
  /\ pc = "idle" =>
       /\ xhc = 0 /\ sched = 0 /\ urbs = 0 /\ timer = Closed
       /\ "create failed" \notin accidents => ~opened /\ attributes = original
  /\ pc = "exited" => attributes = original /\ owner = "os" /\ timer = Closed

LifecycleInvariant == TypeOK /\ RegistersAreCurrent /\ RestIsClean
=============================================================================
