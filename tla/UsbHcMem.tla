----------------------------- MODULE UsbHcMem -----------------------------
(***************************************************************************)
(* The memory pool of the XHCI driver: a list of blocks of pages that the  *)
(* controller can reach, each with a bit per unit of 64 bytes. The first   *)
(* block stays until the pool is freed, an other one is given back when    *)
(* its last unit is freed. Beside the pool the driver holds aligned pages, *)
(* the scratchpad of the controller.                                       *)
(*                                                                         *)
(* Memory is handed out in units of 64 bytes and counted in them. The      *)
(* addresses the driver and the controller exchange are finer: they count  *)
(* TRBs of 16 bytes, four to a unit.                                       *)
(***************************************************************************)
EXTENDS Integers, SequencesExt

CONSTANTS
  MemoryUnits,      \* bound: size of the memory of the platform
  UnitsPerPage,     \* EFI_PAGE_SIZE / USBHC_MEM_UNIT
  DefaultPages,     \* USBHC_MEM_DEFAULT_PAGES
  Sizes,            \* bound: sizes asked for, in units
  DmaShifts,        \* where the platform maps a page for the controller
  Alignments,       \* bound: alignments asked for, in pages
  MaxPieces         \* bound: pieces held at a time

ASSUME MemAssumption ==
  /\ MemoryUnits \in Nat /\ UnitsPerPage \in Nat \ {0} /\ DefaultPages \in Nat \ {0}
  /\ Sizes \subseteq Nat \ {0} /\ DmaShifts \subseteq Nat
  /\ Alignments \subseteq Nat \ {0} /\ MaxPieces \in Nat

VARIABLES
  pool,       \* Xhc->MemPool is there
  blocks,     \* Pool->Head and what follows it
  owned,      \* platform: units that are allocated to the driver
  live,       \* history: the pieces that callers hold
  aligned     \* history: the aligned pages that callers hold

vars == <<pool, blocks, owned, live, aligned>>

(* USBHC_MEM_UNIT / sizeof (TRB_TEMPLATE).                                 *)
TrbsPerUnit == 4

Piece == [addr : Nat, units : Nat \ {0}]
Block == [host : Nat, len : Nat, pci : Nat, bits : SUBSET Nat]

Apart(m, n) == m.addr + m.units <= n.addr \/ n.addr + n.units <= m.addr
BlocksApart(b, c) ==
  /\ b.host + b.len <= c.host \/ c.host + c.len <= b.host
  /\ b.pci + b.len <= c.pci \/ c.pci + c.len <= b.pci

UnitsFrom(first, n) == first .. first + n - 1
PagesOf(units) == (units + UnitsPerPage - 1) \div UnitsPerPage

Room == Cardinality(live) + Cardinality(aligned) < MaxPieces

-----------------------------------------------------------------------------
Init ==
  /\ pool = FALSE /\ blocks = << >> /\ owned = {} /\ live = {} /\ aligned = {}

(* AllocateBuffer, then Map: page-aligned memory that nobody has, at an    *)
(* address of its own for the controller.                                  *)
UsbHcAllocMemBlock(pages) ==
  LET len == pages * UnitsPerPage
      places == {u \in 0 .. MemoryUnits - len :
                   u % UnitsPerPage = 0 /\ UnitsFrom(u, len) \cap owned = {}}
  IN  {b \in {[host |-> u, len |-> len, pci |-> u + shift, bits |-> {}] :
                u \in places, shift \in DmaShifts} :
         \A i \in DOMAIN blocks : BlocksApart(b, blocks[i])}

UsbHcInitMemPool ==
  /\ ~pool
  /\ \E b \in UsbHcAllocMemBlock(DefaultPages) :
       /\ blocks' = <<b>>
       /\ owned' = owned \cup UnitsFrom(b.host, b.len)
  /\ pool' = TRUE
  /\ UNCHANGED <<live, aligned>>

(* The pieces that are still held are gone with their blocks.              *)
UsbHcFreeMemPool ==
  /\ pool
  /\ pool' = FALSE /\ blocks' = << >> /\ live' = {}
  /\ owned' = owned \ UNION {UnitsFrom(b.host, b.len) : b \in Range(blocks)}
  /\ UNCHANGED aligned

-----------------------------------------------------------------------------
(* Mutant: the search keeps its start when it meets a unit in use.         *)
FitsAtFirst(b, n) ==
  {u \in 0 .. b.len - n : (u + n - 1) \notin b.bits}

Fits(b, n) == {u \in 0 .. b.len - n : UnitsFrom(u, n) \cap b.bits = {}}

(* The first run of n units that are free.                                 *)
UsbHcAllocMemFromBlock(b, n) == CHOOSE u \in Fits(b, n) : \A v \in Fits(b, n) : u <= v

WithPiece(b, n) ==
  [b EXCEPT !.bits = @ \cup UnitsFrom(UsbHcAllocMemFromBlock(b, n), n)]

NewPiece(b, n) == [addr |-> b.host + UsbHcAllocMemFromBlock(b, n), units |-> n]

FirstWithRoom(i, n) ==
  /\ i \in DOMAIN blocks
  /\ Fits(blocks[i], n) # {}
  /\ \A j \in 1 .. i - 1 : Fits(blocks[j], n) = {}

(* "Check whether current memory blocks can satisfy the allocation."       *)
AllocateFromPool(n) ==
  /\ pool /\ Room
  /\ \E i \in DOMAIN blocks :
       /\ FirstWithRoom(i, n)
       /\ blocks' = [blocks EXCEPT ![i] = WithPiece(@, n)]
       /\ live' = live \cup {NewPiece(blocks[i], n)}
  /\ UNCHANGED <<pool, owned, aligned>>

BlockPages(n) ==
  IF n > DefaultPages * UnitsPerPage THEN PagesOf(n) + 1 ELSE DefaultPages

UsbHcInsertMemBlockToPool(b) == InsertAt(blocks, 2, b)

(* "Create a new memory block if there is not enough memory in the pool."  *)
AllocateFromNewBlock(n) ==
  /\ pool /\ Room
  /\ \A i \in DOMAIN blocks : Fits(blocks[i], n) = {}
  /\ \E b \in UsbHcAllocMemBlock(BlockPages(n)) :
       /\ blocks' = UsbHcInsertMemBlockToPool(WithPiece(b, n))
       /\ live' = live \cup {NewPiece(b, n)}
       /\ owned' = owned \cup UnitsFrom(b.host, b.len)
  /\ UNCHANGED <<pool, aligned>>

-----------------------------------------------------------------------------
(* The block that "completely contains the allocated memory": of an address*)
(* and a size in TRBs the size is rounded to units, the address is not.    *)
USBHC_MEM_ROUND(size) == ((size + TrbsPerUnit - 1) \div TrbsPerUnit) * TrbsPerUnit

Holds(start, len, addr, size) ==
  /\ start * TrbsPerUnit <= addr
  /\ addr + USBHC_MEM_ROUND(size) <= (start + len) * TrbsPerUnit

HostHolds(b, addr, size) == Holds(b.host, b.len, addr, size)
PciHolds(b, addr, size) == Holds(b.pci, b.len, addr, size)

(* The address and the size of a piece, in TRBs.                           *)
First(m) == m.addr * TrbsPerUnit
Trbs(m) == m.units * TrbsPerUnit

IsFirst(i, P(_)) == i \in DOMAIN blocks /\ P(blocks[i]) /\ \A j \in 1 .. i - 1 : ~P(blocks[j])

(* The bits are toggled, not cleared.                                      *)
Toggled(bits, units) == (bits \ units) \cup (units \ bits)

(* Mutant: the last unit is forgotten.                                     *)
FreedButLast(b, m) == [b EXCEPT !.bits = Toggled(@, UnitsFrom(m.addr - b.host, m.units - 1))]

Freed(b, m) == [b EXCEPT !.bits = Toggled(@, UnitsFrom(m.addr - b.host, m.units))]

IsReleased(i, b) == i # 1 /\ b.bits = {}

(* UsbHcFreeMem: callers free a piece with the size they asked for.        *)
UsbHcFreeMem(m) ==
  /\ pool
  /\ live' = live \ {m}
  /\ \E i \in DOMAIN blocks :
       /\ IsFirst(i, LAMBDA b : HostHolds(b, First(m), Trbs(m)))
       /\ LET b == Freed(blocks[i], m)
          IN  IF IsReleased(i, b)
              THEN /\ blocks' = RemoveAt(blocks, i)
                   /\ owned' = owned \ UnitsFrom(b.host, b.len)
              ELSE /\ blocks' = [blocks EXCEPT ![i] = b]
                   /\ owned' = owned
  /\ UNCHANGED <<pool, aligned>>

-----------------------------------------------------------------------------
(* UsbHcAllocateAlignedPages: as many pages more as the alignment has are  *)
(* allocated, and those before and behind the aligned ones given back.     *)

RoundUp(page, alignment) == ((page + alignment - 1) \div alignment) * alignment

PageUnits(page, n) == UnitsFrom(page * UnitsPerPage, n * UnitsPerPage)

Kept(page, n, alignment) ==
  LET all == IF alignment > 1 THEN n + alignment ELSE n
      start == IF alignment > 1 THEN RoundUp(page, alignment) ELSE page
      before == start - page
      behind == all - n - before
  IN  (PageUnits(page, all) \ PageUnits(page, before)) \ PageUnits(start + n, behind)

UsbHcAllocateAlignedPages(n, alignment) ==
  /\ Room
  /\ \E page \in 0 .. MemoryUnits \div UnitsPerPage :
       LET all == IF alignment > 1 THEN n + alignment ELSE n
           start == IF alignment > 1 THEN RoundUp(page, alignment) ELSE page
       IN  /\ PageUnits(page, all) \subseteq 0 .. MemoryUnits - 1 \ owned
           /\ owned' = owned \cup Kept(page, n, alignment)
           /\ aligned' = aligned \cup {[page |-> start, pages |-> n, alignment |-> alignment]}
  /\ UNCHANGED <<pool, blocks, live>>

UsbHcFreeAlignedPages(a) ==
  /\ aligned' = aligned \ {a}
  /\ owned' = owned \ PageUnits(a.page, a.pages)
  /\ UNCHANGED <<pool, blocks, live>>

-----------------------------------------------------------------------------
Next ==
  \/ UsbHcInitMemPool
  \/ UsbHcFreeMemPool
  \/ \E n \in Sizes : AllocateFromPool(n) \/ AllocateFromNewBlock(n)
  \/ \E m \in live : UsbHcFreeMem(m)
  \/ \E n \in 1 .. 2, alignment \in Alignments : UsbHcAllocateAlignedPages(n, alignment)
  \/ \E a \in aligned : UsbHcFreeAlignedPages(a)

Spec == Init /\ [][Next]_vars

-----------------------------------------------------------------------------
(* UsbHcGetPciAddrForHostAddr and UsbHcGetHostAddrForPciAddr: the address  *)
(* in the first block that holds it; none is where they ASSERT.            *)

HostBlock(addr, size) ==
  {i \in DOMAIN blocks : IsFirst(i, LAMBDA b : HostHolds(b, addr, size))}

PciBlock(addr, size) ==
  {i \in DOMAIN blocks : IsFirst(i, LAMBDA b : PciHolds(b, addr, size))}

(* Mutant: the offset is taken in the first block.                         *)
PciAddrInHead(addr, i) == blocks[1].pci * TrbsPerUnit + (addr - blocks[i].host * TrbsPerUnit)

PciAddr(addr, i) == blocks[i].pci * TrbsPerUnit + (addr - blocks[i].host * TrbsPerUnit)
HostAddr(addr, i) == blocks[i].host * TrbsPerUnit + (addr - blocks[i].pci * TrbsPerUnit)

UsbHcGetPciAddrForHostAddr(addr, size) == {PciAddr(addr, i) : i \in HostBlock(addr, size)}
UsbHcGetHostAddrForPciAddr(addr, size) == {HostAddr(addr, i) : i \in PciBlock(addr, size)}

-----------------------------------------------------------------------------
(* Properties.                                                             *)

(* The pieces that are held lie apart, each in one block, and the bits of  *)
(* the blocks are the units of the pieces: nothing is handed out twice,    *)
(* nothing is lost.                                                        *)
PiecesApart == \A m, n \in live : m = n \/ Apart(m, n)

PiecesMarked ==
  \A m \in live : \E i \in DOMAIN blocks :
    /\ HostHolds(blocks[i], First(m), Trbs(m))
    /\ UnitsFrom(m.addr - blocks[i].host, m.units) \subseteq blocks[i].bits

BitsHeld ==
  \A i \in DOMAIN blocks : \A u \in blocks[i].bits :
    /\ u < blocks[i].len
    /\ \E m \in live : u + blocks[i].host \in UnitsFrom(m.addr, m.units)

AllBlocksApart == \A i, j \in DOMAIN blocks : i = j \/ BlocksApart(blocks[i], blocks[j])

TypeOK ==
  /\ pool \in BOOLEAN
  /\ blocks \in Seq(Block)
  /\ live \subseteq Piece
  /\ (blocks = << >>) <=> ~pool

(* Only the first block may be empty: a pool does not grow without bound.  *)
OnlyHeadEmpty == \A i \in DOMAIN blocks : i > 1 => blocks[i].bits # {}

(* The driver gives back to the platform all that it got and does not      *)
(* hold, and holds nothing that it gave back.                              *)
PlatformBalanced ==
  owned = (UNION {UnitsFrom(b.host, b.len) : b \in Range(blocks)})
            \cup (UNION {PageUnits(a.page, a.pages) : a \in aligned})

(* Pieces never overlap, blocks and bits agree, memory is neither lost nor  *)
(* kept.                                                                   *)
MemInvariant ==
  TypeOK /\ AllBlocksApart /\ PiecesApart /\ PiecesMarked /\ BitsHeld /\ OnlyHeadEmpty /\ PlatformBalanced

(* The last TRBs of a block, behind the start of its last unit.            *)
EndsBlock(addr) ==
  \E i \in DOMAIN blocks :
    LET end == (blocks[i].host + blocks[i].len) * TrbsPerUnit
    IN  addr \in end - TrbsPerUnit + 1 .. end - 1

(* A held piece has an address for the controller that comes back as the   *)
(* one it was made from. Each TRB in it has its place there, and comes back*)
(* as itself, but for the last three of a block: for just these no block is*)
(* found, in either direction, where the code asserts.                     *)
(* And the pieces lie apart in the addresses of the controller too.        *)
AddressesTranslate ==
  \A m \in live :
    /\ UsbHcGetPciAddrForHostAddr(First(m), Trbs(m)) # {}
    /\ \A pci \in UsbHcGetPciAddrForHostAddr(First(m), Trbs(m)) :
         /\ UsbHcGetHostAddrForPciAddr(pci, Trbs(m)) = {First(m)}
         /\ \A o \in 0 .. Trbs(m) - 1 :
              \/ /\ EndsBlock(First(m) + o)
                 /\ UsbHcGetPciAddrForHostAddr(First(m) + o, 1) = {}
                 /\ UsbHcGetHostAddrForPciAddr(pci + o, 1) = {}
              \/ /\ ~EndsBlock(First(m) + o)
                 /\ UsbHcGetPciAddrForHostAddr(First(m) + o, 1) = {pci + o}
                 /\ UsbHcGetHostAddrForPciAddr(pci + o, 1) = {First(m) + o}
         /\ \A n \in live \ {m} :
              \A other \in UsbHcGetPciAddrForHostAddr(First(n), Trbs(n)) :
                pci + Trbs(m) <= other \/ other + Trbs(n) <= pci

Memory == INSTANCE DisjointMemory WITH held <- live
ImplementsMemory == Memory!Spec
=============================================================================
