---------------------------- MODULE PciIoDevice ----------------------------
(***************************************************************************)
(* The PCI device tree of FixPCIeLinkRate: GetPciDevices makes a tree of   *)
(* the handles the firmware has, looks behind bridges without children for *)
(* devices the firmware left out, moving the buses of a whole path when it *)
(* must, and PciTreeIterate walks the tree and retrains links.             *)
(*                                                                         *)
(* The machine is what is there: a physical tree, the bus registers of the *)
(* bridges, which decide what a configuration access reaches, and links    *)
(* that train by themselves. Devices are numbered as PciDeviceID is, the   *)
(* host bridge is 0 and roots come first. There is one root per segment.   *)
(***************************************************************************)
EXTENDS Integers, FiniteSetsExt, SequencesExt

CONSTANTS
  PCI_MAX_BUS,
  PCI_MAX_DEVICE,
  PCI_MAX_FUNC,
  Machines    \* what the program may find: see Machine

(* ids: all devices, roots: root bridges, handles: what the firmware found, *)
(* up: the bridge above a device, regs: the bus registers of a bridge and  *)
(* link: the link speeds at the start, cap: the greatest link speed, port: *)
(* the type of a PCIe port, search: hidden devices are searched for.       *)
(* number: device and function number as one, multi: devices whose header  *)
(* says that they have several functions.                                  *)
ASSUME PciAssumption ==
  /\ PCI_MAX_BUS \in Nat /\ PCI_MAX_DEVICE \in Nat /\ PCI_MAX_FUNC \in Nat
  /\ \A m \in Machines :
       /\ m.roots \subseteq m.handles /\ m.handles \subseteq m.ids
       /\ m.bridges \subseteq m.ids \ m.roots
       /\ \A d \in m.ids \ m.roots : m.up[d] \in m.bridges \cup m.roots

VARIABLES
  m,        \* the machine
  regs,     \* hardware: secondary and subordinate bus of each bridge
  link,     \* hardware: speed of the link below a port
  target,   \* hardware: target speed of a port
  training, \* hardware: links that are training
  pc, index,
  probe,    \* DeviceNumber and FunctionNumber of the scan behind a bridge
  order,    \* PciDeviceArray, sorted
  chain,    \* HostBridge->Chain
  bus,      \* BusNumber
  sw,       \* Bridge.SecondaryBus and SubordinateBus in the copy of the header
  io,       \* devices reached by their PciIo and not through the root
  parent, children,
  used,     \* UsedBuses of a segment
  unused,   \* BigUnusedStart, BigUnusedEnd of a segment
  save,     \* SaveBusNumber, SaveSecondaryBus, SaveSubordinateBus
  new,      \* NewBusNumber, NewSecondaryBus, NewSubordinateBus
  moving,   \* bridges WriteBuses has still to write, in its order
  found,    \* devices this search has found
  at,       \* PciTreeIterate: the device it is at
  context,  \* ParentDevice, 0 for NULL
  speed,    \* LinkStatus.CurrentLinkSpeed in the copy of the capability
  visits,   \* history: devices the callback got, in order
  wrote     \* history: the last configuration write, and what it reached

hardware == <<regs, link, target, training>>
walk == <<at, context, visits>>
tree == <<order, chain, parent, children, used, unused>>
numbers == <<bus, sw, io, save, new>>
vars == <<m, hardware, tree, numbers, walk, pc, index, probe, moving, found, speed, wrote>>

HostBridge == 0
NoBuses == [sec |-> 0, sub |-> 0]
WholeRange == [sec |-> 0, sub |-> PCI_MAX_BUS]
NoWrite == [to |-> 0, reached |-> {0}, expected |-> FALSE]

Bridges == m.bridges \cup m.roots
IsSegment(d) == d \in m.roots
RootPort(d) == m.port[d] \in {"root", "downstream"}

-----------------------------------------------------------------------------
(* What the hardware does.                                                 *)

(* The device k bridges above d, which stops at tops.                      *)
Above(up, d, tops) ==
  LET next == [x \in m.ids \cup {HostBridge} |-> IF x \in tops THEN x ELSE up[x]]
      Up[k \in 0 .. Cardinality(m.ids)] == IF k = 0 THEN d ELSE next[Up[k - 1]]
  IN  Up

PathBy(up, d) ==
  LET tops == m.roots \cup {HostBridge}
      above == Above(up, d, tops)
      top == Min({k \in DOMAIN above : above[k] \in tops \/ k = Cardinality(m.ids)})
  IN  [i \in 1 .. top + 1 |-> above[i - 1]]

Path(d) == PathBy(m.up, d)
RootOf(d) == Last(Path(d))

(* The devices that answer at bus n of a segment with the number of d.     *)
Answers(d, n) ==
  {e \in m.ids \ m.roots :
     /\ RootOf(e) = RootOf(d) /\ m.number[e] = m.number[d]
     /\ LET above == Tail(Path(e)) IN
        /\ IF IsSegment(above[1]) THEN n = 0 ELSE n = regs[above[1]].sec /\ n # 0
        /\ \A i \in 1 .. Len(above) - 1 : n \in regs[above[i]].sec .. regs[above[i]].sub}

(* A PciIo goes where the device was when the firmware found it.           *)
Home(d) == IF IsSegment(m.up[d]) THEN 0 ELSE m.regs[m.up[d]].sec
Reached(d) == Answers(d, IF d \in io THEN Home(d) ELSE bus[d])

Write(d, expected) == wrote' = [to |-> d, reached |-> Reached(d), expected |-> expected]

(* A link is named by the port above; its other end is the first device    *)
(* below, with the functions beside it.                                    *)
LinkOf(d) == IF RootPort(d) THEN d ELSE m.up[d]

OtherEnd(p) == CHOOSE d \in m.ids : m.up[d] = p /\ \A e \in m.ids : m.up[e] = p => m.number[d] <= m.number[e]
BestSpeed(p) == Min({m.cap[p], m.cap[OtherEnd(p)]})

Trained(p) ==
  /\ p \in training /\ training' = training \ {p}
  /\ \E s \in 1 .. Min({target[p], BestSpeed(p)}) : link' = [link EXCEPT ![p] = s]
  /\ UNCHANGED <<m, regs, target, tree, numbers, walk, pc, index, moving, found, speed, wrote, probe>>

-----------------------------------------------------------------------------
(* GetPciDevices.                                                          *)

Init ==
  /\ m \in Machines
  /\ regs = m.regs
  /\ link = m.link /\ target = [d \in m.ids |-> 1]
  /\ training \in {{}, {d \in m.bridges : RootPort(d)}}
  /\ pc = "sort" /\ index = 1
  /\ order = << >> /\ chain = << >>
  /\ bus = [d \in m.ids |-> IF d \in m.roots THEN 0 ELSE Home(d)]
  /\ sw = [d \in m.ids |-> IF d \in m.roots THEN WholeRange ELSE m.regs[d]]
  /\ io = m.handles \ m.roots
  /\ save = [d \in m.ids |-> [bus |-> bus[d], sec |-> sw[d].sec, sub |-> sw[d].sub]]
  /\ new = save
  /\ parent = [d \in m.ids |-> HostBridge]
  /\ children = [d \in m.ids \cup {HostBridge} |-> << >>]
  /\ used = [r \in m.roots |-> {}] /\ unused = [r \in m.roots |-> NoBuses]
  /\ probe = 0 /\ moving = << >> /\ found = {}
  /\ at = HostBridge /\ context = HostBridge
  /\ speed = [d \in m.ids |-> IF d \in m.roots THEN 1 ELSE m.link[LinkOf(d)]]
  /\ visits = << >> /\ wrote = NoWrite

(* ComparePciDevice.                                                       *)
ComparePciDevice(a, b) ==
  LET key(d) == <<m.segment[d], bus[d], IF IsSegment(d) THEN 0 ELSE m.number[d], d>>
      first == CHOOSE i \in 1 .. 4 : key(a)[i] # key(b)[i] /\ \A j \in 1 .. i - 1 : key(a)[j] = key(b)[j]
  IN  a # b /\ key(a)[first] < key(b)[first]

Sorted(set, Before(_, _)) ==
  [i \in 1 .. Cardinality(set) |->
     CHOOSE d \in set : Cardinality({e \in set : Before(e, d)}) = i - 1]

Sort ==
  /\ pc = "sort" /\ pc' = "tree"
  /\ order' = Sorted(m.handles, ComparePciDevice)
  /\ chain' = SelectSeq(order', LAMBDA d : d \in Bridges)
  /\ UNCHANGED <<m, hardware, parent, children, used, unused, numbers, walk, index, moving, found,
                 speed, wrote, probe>>

(* The range of a bridge holds the bus of the device, and its secondary    *)
(* bus is the nearest; of two that are as near the later device wins.      *)
Ranges(c) == IF c = HostBridge THEN WholeRange ELSE sw[c]

Candidates(b) ==
  {c \in {HostBridge} \cup ToSet(chain) :
     /\ c # b
     /\ c = HostBridge \/ m.segment[c] = m.segment[b]
     /\ bus[b] \in Ranges(c).sec .. Ranges(c).sub}

NearestFirst(b) ==
  Min({c \in Candidates(b) : \A e \in Candidates(b) : Ranges(c).sec >= Ranges(e).sec})

Nearest(b) ==
  Max({c \in Candidates(b) : \A e \in Candidates(b) : Ranges(c).sec >= Ranges(e).sec})

CreateTree ==
  /\ pc = "tree" /\ pc' = "roots" /\ index' = 1
  /\ parent' = [d \in m.ids |-> IF d \in m.handles THEN Nearest(d) ELSE HostBridge]
  /\ children' = [c \in m.ids \cup {HostBridge} |-> SelectSeq(order, LAMBDA d : Nearest(d) = c)]
  /\ UNCHANGED <<m, hardware, order, chain, used, unused, numbers, walk, moving, found, speed,
                 wrote, probe>>

(* Ancestors by Parent. Where Parent goes round the loop does not end, and *)
(* neither does the one over eight bit bus numbers up to the last.         *)
Ancestors(b) ==
  LET above == Above(parent, parent[b], {HostBridge}) IN {above[k] : k \in DOMAIN above}

LoopsEnd(b) ==
  /\ HostBridge \in Ancestors(b)
  /\ b \in m.bridges => sw[b].sub < PCI_MAX_BUS

BusesOf(b) == {bus[b]} \cup (IF b \in m.bridges THEN sw[b].sec .. sw[b].sub ELSE {})

GetRoot ==
  /\ pc = "roots" /\ index <= Len(order)
  /\ LET b == order[index] IN
       /\ LoopsEnd(b)
       /\ used' = [r \in m.roots |-> used[r] \cup IF r \in Ancestors(b) THEN BusesOf(b) ELSE {}]
  /\ index' = index + 1
  /\ UNCHANGED <<m, hardware, order, chain, parent, children, unused, numbers, walk, pc, moving,
                 found, speed, wrote, probe>>

(* The first of the longest unused ranges. Without one the end would be -1, *)
(* which is cut to the last bus.                                           *)
LongestUnused(taken) ==
  LET free(a, b) == a <= b /\ taken \cap a .. b = {}
      longer(c, d, a, b) == d - c > b - a \/ (d - c = b - a /\ c < a)
      All == 0 .. PCI_MAX_BUS
      longest == {r \in All \X All :
                    /\ free(r[1], r[2])
                    /\ ~ \E c \in All, d \in All : free(c, d) /\ longer(c, d, r[1], r[2])}
  IN  IF All \subseteq taken THEN WholeRange
      ELSE CHOOSE buses \in {[sec |-> r[1], sub |-> r[2]] : r \in longest} : TRUE

FindMaxUnused ==
  /\ pc = "roots" /\ index > Len(order)
  /\ unused' = [r \in m.roots |-> IF r \in ToSet(children[HostBridge]) THEN LongestUnused(used[r])
                                   ELSE unused[r]]
  /\ IF m.search THEN pc' = "search" /\ index' = 1 ELSE pc' = "segment" /\ UNCHANGED index
  /\ at' = IF m.search THEN HostBridge ELSE children[HostBridge][1]
  /\ found' = {}
  /\ UNCHANGED <<m, hardware, order, chain, parent, children, used, numbers, context, visits,
                 moving, speed, wrote, probe>>

-----------------------------------------------------------------------------
(* SearchForHiddenDevices, with VerifyBuses, MoveBuses and UnmoveBuses.    *)

SwPath(b) == SelectSeq(PathBy(parent, b), LAMBDA d : d \in m.bridges)

(* Only the bridge itself is looked at: the loop over its ancestors has a  *)
(* break after the first.                                                  *)
NeedToMoveBuses(b) ==
  /\ ~IsSegment(b)
  /\ sw[b].sec = 0 \/ sw[b].sub = 0 \/ bus[b] \notin Ranges(parent[b]).sec .. Ranges(parent[b]).sub

(* The bridge below the segment gets the unused range, each bridge after   *)
(* it one bus less; NewSecondaryBus stops at the last bus.                 *)
RenumberBuses(b) ==
  LET path == Reverse(SwPath(b))
      range == unused[RootOf(b)]
      sec(i) == Min({range.sec + i - 1, PCI_MAX_BUS})
      secOf(d) == sec(CHOOSE i \in DOMAIN path : path[i] = d)
  IN  [d \in m.ids |->
         [bus |-> IF parent[d] \in ToSet(path) THEN secOf(parent[d]) ELSE bus[d],
          sec |-> IF d \in ToSet(path) THEN secOf(d) ELSE new[d].sec,
          sub |-> IF d \in ToSet(path) THEN range.sub ELSE new[d].sub]]

UnrenumberBuses(b) ==
  LET path == SwPath(b)
  IN  [d \in m.ids |-> IF d \in ToSet(path) \/ parent[d] \in ToSet(path) THEN save[d] ELSE new[d]]

Current == IF index <= Len(chain) THEN chain[index] ELSE HostBridge

SkipBridge ==
  /\ pc = "search" /\ Current # HostBridge
  /\ children[Current] # << >>
  /\ index' = index + 1
  /\ UNCHANGED <<m, hardware, tree, numbers, walk, pc, moving, found, speed, wrote, probe>>

ScanInPlace ==
  /\ pc = "search" /\ Current # HostBridge
  /\ children[Current] = << >> /\ ~NeedToMoveBuses(Current)
  /\ pc' = "scan"
  /\ UNCHANGED <<m, hardware, tree, numbers, walk, index, moving, found, speed, wrote, probe>>

NoBusLeft(n) == n.sec = PCI_MAX_BUS \/ n.sub < n.sec

MoveBuses ==
  /\ pc = "search" /\ Current # HostBridge
  /\ children[Current] = << >> /\ NeedToMoveBuses(Current)
  /\ IF NoBusLeft(RenumberBuses(Current)[Current])
     THEN index' = index + 1 /\ UNCHANGED <<pc, moving>>
     ELSE pc' = "move" /\ moving' = Reverse(SwPath(Current)) /\ UNCHANGED index
  /\ new' = RenumberBuses(Current)
  /\ UNCHANGED <<m, hardware, tree, bus, sw, io, save, walk, found, speed, wrote, probe>>

(* The next bridge of WriteBuses: its registers, then the numbers of its   *)
(* children. On the way down it is taken off its PciIo first, on the way   *)
(* up it gets it back after.                                               *)
OffPciIo(b) == io \ {b}

WriteBridge(b) ==
  LET buses == [sec |-> new[b].sec, sub |-> new[b].sub]
      reached == Reached(b) IN
  /\ regs' = [d \in m.ids |-> IF d \in reached THEN buses ELSE regs[d]]
  /\ sw' = [sw EXCEPT ![b] = buses]
  /\ bus' = [d \in m.ids |-> IF parent[d] = b THEN new[d].bus ELSE bus[d]]
  /\ moving' = Tail(moving)

(* PciIo is cleared once the bridges above are written, before this one is. *)
LeavePciIo ==
  /\ pc = "move" /\ moving # << >> /\ Head(moving) \in io
  /\ io' = OffPciIo(Head(moving)) /\ pc' = "move now"
  /\ UNCHANGED <<m, hardware, tree, bus, sw, save, new, walk, index, moving, found, speed, wrote, probe>>

WriteBuses ==
  /\ \/ pc = "move" /\ moving # << >> /\ Head(moving) \notin io
     \/ pc = "move now"
  /\ WriteBridge(Head(moving)) /\ Write(Head(moving), TRUE)
  /\ pc' = "move"
  /\ UNCHANGED <<m, link, target, training, tree, io, save, new, walk, index, found, speed, probe>>

Moved ==
  /\ pc = "move" /\ moving = << >> /\ pc' = "scan moved"
  /\ UNCHANGED <<m, hardware, tree, numbers, walk, index, moving, found, speed, wrote, probe>>

ChainKept(d) == chain
Chained(d) == IF d \in m.bridges THEN Append(chain, d) ELSE chain

(* Every number on the secondary bus is tried; a device that answers joins *)
(* the tree, and the chain if it is a bridge. Behind a function 0 the other*)
(* functions are tried only if the header of the bridge above, not that of *)
(* the device, says that it has several.                                   *)
Scanning == pc \in {"scan", "scan moved"}

Functions == PCI_MAX_FUNC + 1
LastNumber == (PCI_MAX_DEVICE + 1) * Functions - 1
NextDevice(n) == (n \div Functions + 1) * Functions

Hidden(d) ==
  /\ d \notin m.roots /\ RootOf(d) = RootOf(Current)
  /\ m.number[d] = probe /\ d \in Answers(d, Ranges(Current).sec)

NextProbe(answered) ==
  IF answered /\ probe % Functions = 0 /\ Current \notin m.multi THEN NextDevice(probe) ELSE probe + 1

Probe ==
  /\ Scanning /\ probe <= LastNumber
  /\ UNCHANGED <<m, hardware, order, used, unused, io, new, walk, pc, index, moving, wrote>>
  /\ \/ /\ \A d \in m.ids : ~Hidden(d)
        /\ probe' = NextProbe(FALSE)
        /\ UNCHANGED <<chain, parent, children, bus, sw, save, found, speed>>
     \/ \E d \in m.ids :
          /\ Hidden(d)
          /\ probe' = NextProbe(TRUE)
          /\ children' = [children EXCEPT ![Current] = Append(@, d)]
          /\ parent' = [parent EXCEPT ![d] = Current]
          /\ bus' = [bus EXCEPT ![d] = Ranges(Current).sec]
          /\ sw' = [sw EXCEPT ![d] = regs[d]]
          /\ save' = [save EXCEPT ![d] = [bus |-> bus'[d], sec |-> regs[d].sec, sub |-> regs[d].sub]]
          /\ speed' = [speed EXCEPT ![d] = link[LinkOf(d)]]
          /\ chain' = Chained(d)
          /\ found' = found \cup {d}

Scanned ==
  /\ Scanning /\ probe > LastNumber
  /\ probe' = 0
  /\ IF pc = "scan" THEN pc' = "search" /\ index' = index + 1
     ELSE pc' = "scanned" /\ UNCHANGED index
  /\ UNCHANGED <<m, hardware, tree, numbers, walk, moving, found, speed, wrote>>

UnmoveBuses ==
  /\ pc = "scanned" /\ pc' = "unmove"
  /\ new' = UnrenumberBuses(Current) /\ moving' = SwPath(Current)
  /\ UNCHANGED <<m, hardware, tree, bus, sw, io, save, walk, index, found, speed, wrote, probe>>

RestoreBuses ==
  /\ pc = "unmove" /\ moving # << >>
  /\ WriteBridge(Head(moving)) /\ Write(Head(moving), TRUE)
  /\ UNCHANGED <<m, link, target, training, tree, io, save, new, walk, pc, index, found, speed, probe>>

Unmoved ==
  /\ pc = "unmove" /\ moving = << >>
  /\ io' = io \cup (ToSet(SwPath(Current)) \cap m.handles)
  /\ pc' = "search" /\ index' = index + 1
  /\ UNCHANGED <<m, hardware, tree, bus, sw, save, new, walk, moving, found, speed, wrote, probe>>

(* The search is repeated until it finds nothing.                          *)
FoundEver == \E d \in m.ids \ m.handles : parent[d] # HostBridge
FoundDevices == found # {}

SearchAgain ==
  /\ pc = "search" /\ Current = HostBridge
  /\ found' = {}
  /\ IF FoundDevices THEN index' = 1 /\ UNCHANGED <<pc, at>>
     ELSE pc' = "segment" /\ at' = children[HostBridge][1] /\ UNCHANGED index
  /\ UNCHANGED <<m, hardware, tree, numbers, context, visits, moving, speed, wrote, probe>>

-----------------------------------------------------------------------------
(* PciTreeIterate with FixPCIeLinkRate as its callback.                    *)

NextSibling(d) ==
  LET siblings == children[parent[d]]
      i == CHOOSE k \in DOMAIN siblings : siblings[k] = d
  IN  IF i < Len(siblings) THEN siblings[i + 1] ELSE HostBridge

Slow(d) == speed[d] < m.cap[d]

(* A segment without children leads to a null pointer.                     *)
VisitSegment ==
  /\ pc = "segment" /\ children[at] # << >>
  /\ visits' = Append(visits, at) /\ context' = HostBridge
  /\ at' = children[at][1] /\ pc' = "visit"
  /\ UNCHANGED <<m, hardware, tree, numbers, index, moving, found, speed, wrote, probe>>

Visit ==
  /\ pc = "visit"
  /\ visits' = Append(visits, at)
  /\ pc' = IF context # HostBridge /\ Slow(at) THEN "set speed" ELSE "advance"
  /\ UNCHANGED <<m, hardware, tree, numbers, at, context, index, moving, found, speed, wrote, probe>>

(* SetMaxLinkSpeed: the greatest speed both ends can do, then a retrain,   *)
(* each after a wait for the end of training that has no limit.            *)
TargetLinkSpeed(p, c) == Min({m.cap[p], m.cap[c]})

SetMaxLinkSpeed ==
  /\ pc = "set speed" /\ pc' = "settle"
  /\ Write(context, FALSE)
  /\ target' = [d \in m.ids |-> IF d \in Reached(context) THEN TargetLinkSpeed(context, at)
                                ELSE target[d]]
  /\ UNCHANGED <<m, regs, link, training, tree, numbers, walk, index, moving, found, speed, probe>>

(* What cannot be reached reads as ones: the speed is not below any other, *)
(* and the link trains for ever.                                           *)
ReadSpeed(d) == IF d \in Reached(d) THEN link[LinkOf(d)] ELSE 15
LinkTraining(d) == Reached(d) = {} \/ \E e \in Reached(d) : LinkOf(e) \in training

RetrainLink ==
  /\ pc = "settle" /\ ~LinkTraining(context) /\ pc' = "retrain"
  /\ Write(context, FALSE)
  /\ training' = training \cup {LinkOf(d) : d \in Reached(context)}
  /\ UNCHANGED <<m, regs, link, target, tree, numbers, walk, index, moving, found, speed, probe>>

LinkRetrained ==
  /\ pc = "retrain" /\ ~LinkTraining(context) /\ pc' = "advance"
  /\ speed' = [speed EXCEPT ![context] = ReadSpeed(context), ![at] = ReadSpeed(at)]
  /\ UNCHANGED <<m, hardware, tree, numbers, walk, index, moving, found, wrote, probe>>

(* The device is the parent of the next one if it is a slow port above it. *)
IsParent(d) == children[d] # << >> /\ Slow(d) /\ RootPort(d)

Advance ==
  /\ pc = "advance"
  /\ context' = IF IsParent(at) THEN at ELSE HostBridge
  /\ CASE children[at] # << >> -> at' = children[at][1] /\ pc' = "visit"
       [] children[at] = << >> /\ NextSibling(at) # HostBridge -> at' = NextSibling(at) /\ pc' = "visit"
       [] OTHER -> pc' = "climb" /\ UNCHANGED at
  /\ UNCHANGED <<m, hardware, tree, numbers, visits, index, moving, found, speed, wrote, probe>>

Climb ==
  /\ pc = "climb"
  /\ LET p == parent[at] IN
       CASE IsSegment(p) /\ NextSibling(p) # HostBridge -> at' = NextSibling(p) /\ pc' = "segment"
         [] IsSegment(p) /\ NextSibling(p) = HostBridge -> pc' = "done" /\ UNCHANGED at
         [] ~IsSegment(p) /\ NextSibling(p) # HostBridge -> at' = NextSibling(p) /\ pc' = "visit"
         [] OTHER -> at' = p /\ UNCHANGED pc
  /\ UNCHANGED <<m, hardware, tree, numbers, context, visits, index, moving, found, speed, wrote, probe>>

-----------------------------------------------------------------------------
Program ==
  \/ Sort \/ CreateTree \/ GetRoot \/ FindMaxUnused
  \/ SkipBridge \/ ScanInPlace \/ MoveBuses \/ LeavePciIo \/ WriteBuses \/ Moved
  \/ Probe \/ Scanned \/ UnmoveBuses \/ RestoreBuses \/ Unmoved \/ SearchAgain
  \/ VisitSegment \/ Visit \/ SetMaxLinkSpeed \/ RetrainLink \/ LinkRetrained \/ Advance \/ Climb

Next == Program \/ \E d \in m.ids : Trained(d)

(* The program runs on, and a link that trains ends its training.          *)
Spec == Init /\ [][Next]_vars /\ WF_vars(Program) /\ WF_vars(\E d \in m.ids : Trained(d))

-----------------------------------------------------------------------------
(* Properties.                                                             *)

Known == m.handles \cup {d \in m.ids : parent[d] # HostBridge}
TreeMade == pc \notin {"sort", "tree"}
MovingBuses == pc \in {"move", "move now", "scan moved", "scanned", "unmove"}

TypeOK ==
  /\ index \in 1 .. Cardinality(m.ids) + 1
  /\ io \subseteq m.handles /\ at \in m.ids \cup {HostBridge}
  /\ \A d \in m.ids : bus[d] \in 0 .. PCI_MAX_BUS /\ new[d].bus \in 0 .. PCI_MAX_BUS
  /\ \A d \in m.bridges : {regs[d].sec, regs[d].sub} \subseteq 0 .. PCI_MAX_BUS
  /\ training \subseteq m.ids /\ found \subseteq m.ids

(* The tree that is guessed from bus numbers is the one of the machine:    *)
(* segments hang on the host bridge, a device on the bridge above it, in   *)
(* one list of children.                                                   *)
TreeIsTheMachine ==
  TreeMade =>
    /\ \A d \in Known : parent[d] = IF IsSegment(d) THEN HostBridge ELSE m.up[d]
    /\ \A c \in m.ids \cup {HostBridge} :
         /\ ToSet(children[c]) = {d \in Known : parent[d] = c}
         /\ IsInjective(children[c])

(* The range for moved buses holds no bus a device the firmware knows of   *)
(* is on or forwards, so that nothing else answers there.                  *)
UnusedIsUnused ==
  pc \notin {"sort", "tree", "roots"} =>
    \A r \in m.roots :
      /\ unused[r].sec <= unused[r].sub
      /\ \A d \in m.handles \ m.roots :
           RootOf(d) = r =>
             /\ Home(d) \notin unused[r].sec .. unused[r].sub
             /\ d \in m.bridges =>
                  m.regs[d].sec .. m.regs[d].sub \cap unused[r].sec .. unused[r].sub = {}

(* While the buses of a path move each write reaches the bridge it is      *)
(* meant for, by the way that is right at that moment; and no write ever   *)
(* reaches another device.                                                 *)
WritesArrive ==
  /\ wrote.reached \subseteq {wrote.to}
  /\ wrote.expected => wrote.reached = {wrote.to}

(* What the search moves it moves back: registers, copies, and the way     *)
(* each device is reached.                                                 *)
BusesAreRestored ==
  ~MovingBuses =>
    /\ regs = m.regs
    /\ \A d \in m.bridges \cap Known : sw[d] = regs[d]
    /\ io = m.handles \ m.roots

(* A retrain is asked of a port for the device on the other end of its     *)
(* link, at a speed both can do.                                           *)
RetrainsALink ==
  /\ pc \in {"set speed", "settle", "retrain"} => RootPort(context) /\ OtherEnd(context) = at
  /\ \A d \in m.ids : target[d] > 1 => target[d] <= BestSpeed(d)

(* The tree is the machine, and what the driver writes through it arrives  *)
(* and is taken back.                                                      *)
PciInvariant ==
  TypeOK /\ TreeIsTheMachine /\ UnusedIsUnused /\ WritesArrive /\ BusesAreRestored /\ RetrainsALink

(* At the end each device in the tree was given to the callback once, below *)
(* its bridge, and every link below a port the firmware knows that could be *)
(* faster was asked to be as fast as it can.                               *)
AllAreVisited ==
  pc = "done" =>
    /\ ToSet(visits) = Known /\ IsInjective(visits)
    /\ \A i \in DOMAIN visits :
         IsSegment(visits[i]) \/ parent[visits[i]] \in ToSet(SubSeq(visits, 1, i - 1))
    /\ \A d \in m.handles :
         RootPort(d) /\ children[d] # << >> /\ m.link[d] < BestSpeed(d) => target[d] = BestSpeed(d)

(* Where the unused range has a bus for each bridge of a path nothing stays *)
(* hidden, but for just those functions after the first that are behind a  *)
(* bridge of a single function, and what is behind them: it is that bridge *)
(* and not the device found that decides whether they are tried.           *)
BusesSuffice(d) ==
  LET r == unused[RootOf(d)] IN
  /\ r.sub - r.sec + 1 >= Len(Path(d)) - 2
  /\ r.sec + Len(Path(d)) - 3 < PCI_MAX_BUS

IsPassedOver(d) == m.number[d] % Functions # 0 /\ m.up[d] \notin m.multi

HiddenAreFound ==
  pc = "done" /\ m.search =>
    \A d \in m.ids \ m.roots :
      BusesSuffice(d) => (d \in Known <=> \A e \in ToSet(Path(d)) \ m.handles : ~IsPassedOver(e))

SearchIsComplete == AllAreVisited /\ HiddenAreFound

(* The program ends, and so do its loops over ancestors, buses and the     *)
(* search that repeats while it finds something; or it waits for ever for  *)
(* a port that the search has found and that nothing reaches any more, the *)
(* buses being moved back. A link that trains holds it up for a while only.*)
WaitsForLostPort == pc = "settle" /\ context \notin m.handles /\ Reached(context) = {}

ProgramEnds == <>(pc = "done" \/ WaitsForLostPort)
=============================================================================
