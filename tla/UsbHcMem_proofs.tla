--------------------------- MODULE UsbHcMem_proofs ---------------------------
(***************************************************************************)
(* Proofs about UsbHcMem for memory, blocks, pieces and alignments of any  *)
(* size and number: nothing is handed out twice, lost or kept, addresses   *)
(* translate both ways, and the pool implements DisjointMemory.            *)
(*                                                                         *)
(* A step changes one block, adds one or removes one. What the invariant   *)
(* says of blocks and pieces is therefore said here of any list bs of      *)
(* blocks and any set lv of pieces, so that a step which frees the last    *)
(* unit of a block is a change followed by a removal.                      *)
(***************************************************************************)
EXTENDS UsbHcMem, SequenceTheorems, WellFoundedInduction, TLAPS

ClearOf(c, bs) == \A i \in 1 .. Len(bs) : BlocksApart(c, bs[i])
Laid(bs) == \A i, j \in 1 .. Len(bs) : i = j \/ BlocksApart(bs[i], bs[j])

Lies(m, b) == b.host <= m.addr /\ m.addr + m.units <= b.host + b.len
Place(m, b) == UnitsFrom(m.addr - b.host, m.units)

Marked(bs, lv) == \A m \in lv : \E i \in 1 .. Len(bs) : Lies(m, bs[i]) /\ Place(m, bs[i]) \subseteq bs[i].bits

Held(bs, lv) ==
  \A i \in 1 .. Len(bs) : \A u \in bs[i].bits :
    u < bs[i].len /\ \E m \in lv : u + bs[i].host \in UnitsFrom(m.addr, m.units)

Separate(lv) == \A m, n \in lv : m = n \/ Apart(m, n)

Agree(bs, lv) ==
  /\ bs \in Seq(Block) /\ lv \in SUBSET Piece
  /\ Laid(bs) /\ Separate(lv) /\ Marked(bs, lv) /\ Held(bs, lv)

(* The list cs is bs with the block c in place of the i-th one.            *)
Replaced(bs, i, c, cs) ==
  /\ cs \in Seq(Block) /\ Len(cs) = Len(bs) /\ cs[i] = c
  /\ \A j \in 1 .. Len(bs) : j # i => cs[j] = bs[j]

(* The units of the platform that blocks and aligned pages take.           *)
BlockUnits(b) == UnitsFrom(b.host, b.len)
Taken(bs) == UNION {BlockUnits(bs[i]) : i \in 1 .. Len(bs)}

AlignedUnits(a) == PageUnits(a.page, a.pages)
Lent(al) == UNION {AlignedUnits(a) : a \in al}

(* What every step keeps: pieces and blocks agree, only the head is empty, *)
(* the driver owns what blocks and aligned pages take, and no unit is      *)
(* taken twice.                                                            *)
Sound(bs, lv, ow, al) ==
  /\ Agree(bs, lv)
  /\ \A i \in 1 .. Len(bs) : i > 1 => bs[i].bits # {}
  /\ ow = Taken(bs) \cup Lent(al)
  /\ \A a \in al : AlignedUnits(a) \cap Taken(bs) = {}
  /\ \A a, c \in al : a = c \/ AlignedUnits(a) \cap AlignedUnits(c) = {}

Inv ==
  /\ pool \in BOOLEAN
  /\ (blocks = << >>) <=> ~pool
  /\ Sound(blocks, live, owned, aligned)

-----------------------------------------------------------------------------
(* Intervals.                                                              *)

(* Two intervals without a common number lie one after the other.          *)
LEMMA IntervalsApart ==
  ASSUME NEW a \in Int, NEW b \in Int, NEW m \in Nat \ {0}, NEW n \in Nat \ {0},
         UnitsFrom(a, m) \cap UnitsFrom(b, n) = {}
  PROVE  a + m <= b \/ b + n <= a
<1>1. CASE a <= b
  <2>1. b \in UnitsFrom(b, n)
    BY DEF UnitsFrom
  <2>2. b \notin UnitsFrom(a, m)
    BY <2>1
  <2> QED
    BY <1>1, <2>2 DEF UnitsFrom
<1>2. CASE ~(a <= b)
  <2>1. a \in UnitsFrom(a, m)
    BY DEF UnitsFrom
  <2>2. a \notin UnitsFrom(b, n)
    BY <2>1
  <2> QED
    BY <1>2, <2>2 DEF UnitsFrom
<1> QED
  BY <1>1, <1>2

(* What is rounded already stays, and a TRB takes a unit.                  *)
LEMMA Rounded ==
  /\ \A u \in Nat : USBHC_MEM_ROUND(u * TrbsPerUnit) = u * TrbsPerUnit
  /\ USBHC_MEM_ROUND(1) = TrbsPerUnit
  /\ \A size \in Nat \ {0} : USBHC_MEM_ROUND(size) \in Nat \ {0}
BY DEF USBHC_MEM_ROUND, TrbsPerUnit

(* The block the driver finds for a piece is one the piece lies in.        *)
LEMMA HoldsPiece ==
  ASSUME NEW b \in Block, NEW m \in Piece
  PROVE  HostHolds(b, First(m), Trbs(m)) <=> Lies(m, b)
<1>1. /\ b.host \in Nat /\ b.len \in Nat /\ m.addr \in Nat /\ m.units \in Nat
  BY DEF Block, Piece
<1>2. USBHC_MEM_ROUND(Trbs(m)) = m.units * TrbsPerUnit
  BY <1>1, Rounded DEF Trbs
<1> QED
  BY <1>1, <1>2 DEF HostHolds, Holds, First, Lies, TrbsPerUnit

(* A piece lies in one block only.                                         *)
LEMMA OneBlock ==
  ASSUME NEW bs \in Seq(Block), Laid(bs), NEW m \in Piece,
         NEW i \in 1 .. Len(bs), NEW j \in 1 .. Len(bs), Lies(m, bs[i]), Lies(m, bs[j])
  PROVE  i = j
<1>1. /\ bs[i] \in Block /\ bs[j] \in Block
      /\ bs[i].host \in Nat /\ bs[i].len \in Nat /\ bs[j].host \in Nat /\ bs[j].len \in Nat
      /\ m.addr \in Nat /\ m.units \in Nat \ {0}
  <2>1. bs[i] \in Block /\ bs[j] \in Block
    OBVIOUS
  <2> QED
    BY <2>1 DEF Block, Piece
<1>2. ~BlocksApart(bs[i], bs[j])
  BY <1>1 DEF Lies, BlocksApart
<1> QED
  BY <1>2 DEF Laid

(* Pieces in blocks that lie apart lie apart.                              *)
LEMMA ApartInBlocks ==
  ASSUME NEW b \in Block, NEW c \in Block, NEW m \in Piece, NEW n \in Piece,
         Lies(m, b), Lies(n, c), BlocksApart(b, c)
  PROVE  Apart(m, n) /\ Apart(n, m)
BY DEF Block, Piece, Lies, BlocksApart, Apart

(* A piece's units in its block.                                           *)
LEMMA PlaceFacts ==
  ASSUME NEW b \in Block, NEW m \in Piece, Lies(m, b)
  PROVE  /\ Place(m, b) \subseteq Nat
         /\ \A u \in Nat : u \in Place(m, b) <=> u + b.host \in UnitsFrom(m.addr, m.units)
         /\ m.addr - b.host \in Place(m, b)
         /\ \A u \in Place(m, b) : u < b.len
BY DEF Block, Piece, Lies, Place, UnitsFrom

(* Pieces of one block lie apart just when they have no unit in common.    *)
LEMMA ApartInOneBlock ==
  ASSUME NEW b \in Block, NEW m \in Piece, NEW n \in Piece, Lies(m, b), Lies(n, b)
  PROVE  Apart(m, n) <=> Place(m, b) \cap Place(n, b) = {}
<1>1. /\ m.addr \in Nat /\ n.addr \in Nat /\ b.host \in Nat
      /\ m.units \in Nat \ {0} /\ n.units \in Nat \ {0}
  BY DEF Piece, Block
<1>2. ASSUME Place(m, b) \cap Place(n, b) = {} PROVE Apart(m, n)
  <2>1. m.addr - b.host \in Int /\ n.addr - b.host \in Int
    BY <1>1
  <2>2. \/ (m.addr - b.host) + m.units <= n.addr - b.host
        \/ (n.addr - b.host) + n.units <= m.addr - b.host
    BY <1>1, <1>2, <2>1, IntervalsApart DEF Place
  <2> QED
    BY <1>1, <2>2 DEF Apart
<1>3. ASSUME Apart(m, n), NEW u \in Place(m, b), u \in Place(n, b) PROVE FALSE
  BY <1>1, <1>3 DEF Apart, Place, UnitsFrom
<1> QED
  BY <1>2, <1>3

-----------------------------------------------------------------------------
(* What the operations do to blocks and pieces that agree.                 *)

(* A set of natural numbers has a least one.                               *)
LEMMA LeastOfSet ==
  ASSUME NEW T, T \subseteq Nat, T # {}
  PROVE  \E x \in T : \A y \in T : x <= y
<1> DEFINE R == {p \in Nat \X Nat : p[1] < p[2]}
<1>1. IsWellFoundedOn(R, Nat)
  BY NatLessThanWellFounded DEF OpToRel
<1>2. PICK x \in T : \A y \in T : <<y, x>> \notin R
  BY <1>1, WFMin
<1>3. ASSUME NEW y \in T PROVE x <= y
  <2>1. x \in Nat /\ y \in Nat /\ <<y, x>> \notin R
    BY <1>2
  <2> QED
    BY <2>1
<1> QED
  BY <1>3

(* A piece that is allocated lies in its block, on units that were free.   *)
LEMMA NewPieceFacts ==
  ASSUME NEW b \in Block, NEW n \in Nat \ {0}, Fits(b, n) # {}
  PROVE  /\ NewPiece(b, n) \in Piece /\ Lies(NewPiece(b, n), b)
         /\ Place(NewPiece(b, n), b) \cap b.bits = {}
         /\ WithPiece(b, n) = [b EXCEPT !.bits = @ \cup Place(NewPiece(b, n), b)]
<1> DEFINE first == UsbHcAllocMemFromBlock(b, n)
<1>1. b.host \in Nat /\ b.len \in Nat /\ b.bits \in SUBSET Nat
  BY DEF Block
<1>2. Fits(b, n) \subseteq Nat
  BY <1>1 DEF Fits
<1>3. first \in Fits(b, n)
  <2>1. \E x \in Fits(b, n) : \A y \in Fits(b, n) : x <= y
    BY <1>2, LeastOfSet
  <2> QED
    BY <2>1 DEF UsbHcAllocMemFromBlock
<1> HIDE DEF first
<1>4. /\ first \in Nat /\ first + n <= b.len /\ UnitsFrom(first, n) \cap b.bits = {}
  BY <1>1, <1>3 DEF Fits
<1>5. NewPiece(b, n) = [addr |-> b.host + first, units |-> n]
  BY DEF NewPiece, first
<1>6. NewPiece(b, n).addr = b.host + first /\ NewPiece(b, n).units = n /\ NewPiece(b, n) \in Piece
  BY <1>1, <1>4, <1>5 DEF Piece
<1>7. Place(NewPiece(b, n), b) = UnitsFrom(first, n)
  <2>1. NewPiece(b, n).addr - b.host = first
    BY <1>1, <1>4, <1>6
  <2> QED
    BY <1>6, <2>1 DEF Place
<1>8. Lies(NewPiece(b, n), b)
  BY <1>1, <1>4, <1>6 DEF Lies
<1>9. WithPiece(b, n) = [b EXCEPT !.bits = @ \cup UnitsFrom(first, n)]
  BY DEF WithPiece, first
<1> QED
  BY <1>4, <1>6, <1>7, <1>8, <1>9

(* Other bits do not make another block.                                   *)
LEMMA OtherBits ==
  ASSUME NEW b \in Block, NEW s \in SUBSET Nat
  PROVE  LET c == [b EXCEPT !.bits = s] IN
         /\ c \in Block /\ c.host = b.host /\ c.len = b.len /\ c.pci = b.pci /\ c.bits = s
BY DEF Block

(* The block has the bits of the new piece beside its own.                 *)
LEMMA WithPieceFacts ==
  ASSUME NEW b \in Block, NEW n \in Nat \ {0}, Fits(b, n) # {}
  PROVE  LET c == WithPiece(b, n) IN
         /\ c \in Block /\ c.host = b.host /\ c.len = b.len /\ c.pci = b.pci
         /\ c.bits = b.bits \cup Place(NewPiece(b, n), b) /\ c.bits # {}
<1>1. PICK p \in Piece : /\ p = NewPiece(b, n) /\ Lies(p, b)
                         /\ WithPiece(b, n) = [b EXCEPT !.bits = @ \cup Place(p, b)]
  BY NewPieceFacts
<1>2. Place(p, b) \subseteq Nat /\ Place(p, b) # {}
  BY <1>1, PlaceFacts
<1>3. PICK s \in SUBSET Nat : s = b.bits \cup Place(p, b)
  <2>1. b.bits \in SUBSET Nat
    BY DEF Block
  <2> QED
    BY <1>2, <2>1
<1>4. WithPiece(b, n) = [b EXCEPT !.bits = s]
  BY <1>1, <1>3
<1> QED
  BY <1>1, <1>2, <1>3, <1>4, OtherBits

(* Blocks that stay where they are stay apart.                             *)
LEMMA LaidFrame ==
  ASSUME NEW bs \in Seq(Block), Laid(bs), NEW cs \in Seq(Block), Len(cs) = Len(bs),
         \A i \in 1 .. Len(bs) : /\ cs[i].host = bs[i].host /\ cs[i].len = bs[i].len
                                 /\ cs[i].pci = bs[i].pci
  PROVE  Laid(cs)
BY DEF Laid, BlocksApart

(* A piece lies in a block by the block's place alone.                     *)
LEMMA LiesFrame ==
  ASSUME NEW b, NEW c, NEW m, b.host = c.host, b.len = c.len
  PROVE  (Lies(m, b) <=> Lies(m, c)) /\ Place(m, b) = Place(m, c)
BY DEF Lies, Place

(* A piece that is allocated lies apart from all that are held.            *)
LEMMA AgreeAllocate ==
  ASSUME NEW bs, NEW lv, Agree(bs, lv), NEW i \in 1 .. Len(bs), NEW n \in Nat \ {0}, Fits(bs[i], n) # {},
         NEW cs \in Seq(Block), Len(cs) = Len(bs), cs[i] = WithPiece(bs[i], n),
         \A j \in 1 .. Len(bs) : j # i => cs[j] = bs[j]
  PROVE  /\ Agree(cs, lv \cup {NewPiece(bs[i], n)})
         /\ \A m \in lv : Apart(NewPiece(bs[i], n), m) /\ Apart(m, NewPiece(bs[i], n))
<1>1. /\ bs \in Seq(Block) /\ lv \in SUBSET Piece /\ Len(bs) \in Nat
      /\ Laid(bs) /\ Separate(lv) /\ Marked(bs, lv) /\ Held(bs, lv)
  BY DEF Agree
<1>2. \A j \in 1 .. Len(bs) : bs[j] \in Block /\ bs[j].host \in Nat /\ bs[j].bits \in SUBSET Nat
  <2>1. \A j \in 1 .. Len(bs) : bs[j] \in Block
    BY <1>1
  <2> QED
    BY <2>1 DEF Block
<1>3. PICK p : p = NewPiece(bs[i], n)
  OBVIOUS
<1>4. /\ p \in Piece /\ Lies(p, bs[i]) /\ Place(p, bs[i]) \cap bs[i].bits = {}
      /\ cs[i] = [bs[i] EXCEPT !.bits = @ \cup Place(p, bs[i])]
  BY <1>2, <1>3, NewPieceFacts
<1>5. /\ cs[i].host = bs[i].host /\ cs[i].len = bs[i].len /\ cs[i].pci = bs[i].pci
      /\ cs[i].bits = bs[i].bits \cup Place(p, bs[i])
  <2>1. bs[i].bits \cup Place(p, bs[i]) \in SUBSET Nat
    BY <1>2, <1>4, PlaceFacts
  <2> QED
    BY <1>2, <1>4, <2>1, OtherBits
<1>6. \A j \in 1 .. Len(bs) : /\ cs[j].host = bs[j].host /\ cs[j].len = bs[j].len /\ cs[j].pci = bs[j].pci
                              /\ bs[j].bits \subseteq cs[j].bits
  BY <1>5
<1>7. Laid(cs)
  BY <1>1, <1>6, LaidFrame
<1>8. ASSUME NEW m \in lv
      PROVE  Apart(p, m) /\ Apart(m, p)
  <2>1. PICK j \in 1 .. Len(bs) : Lies(m, bs[j]) /\ Place(m, bs[j]) \subseteq bs[j].bits
    BY <1>1 DEF Marked
  <2>2. CASE j = i
    <3>1. Place(p, bs[i]) \cap Place(m, bs[i]) = {}
      BY <1>4, <2>1, <2>2
    <3> QED
      BY <1>1, <1>2, <1>4, <2>1, <2>2, <3>1, ApartInOneBlock
  <2>3. CASE j # i
    <3>1. BlocksApart(bs[i], bs[j])
      BY <1>1, <2>3 DEF Laid
    <3> QED
      BY <1>1, <1>2, <1>4, <2>1, <3>1, ApartInBlocks
  <2> QED
    BY <2>2, <2>3
<1>9. Separate(lv \cup {p})
  BY <1>1, <1>8 DEF Separate
<1>10. Marked(cs, lv \cup {p})
  <2>1. ASSUME NEW m \in lv
        PROVE  \E j \in 1 .. Len(cs) : Lies(m, cs[j]) /\ Place(m, cs[j]) \subseteq cs[j].bits
    <3>1. PICK j \in 1 .. Len(bs) : Lies(m, bs[j]) /\ Place(m, bs[j]) \subseteq bs[j].bits
      BY <1>1 DEF Marked
    <3>2. Lies(m, cs[j]) /\ Place(m, cs[j]) = Place(m, bs[j])
      BY <1>6, <3>1, LiesFrame
    <3> QED
      BY <1>6, <3>1, <3>2
  <2>2. Lies(p, cs[i]) /\ Place(p, cs[i]) = Place(p, bs[i])
    BY <1>4, <1>6, LiesFrame
  <2>3. Place(p, cs[i]) \subseteq cs[i].bits
    BY <1>5, <2>2
  <2> QED
    BY <2>1, <2>2, <2>3 DEF Marked
<1>11. Held(cs, lv \cup {p})
  <2>1. ASSUME NEW j \in 1 .. Len(bs), NEW u \in bs[j].bits
        PROVE  u < bs[j].len /\ \E m \in lv : u + bs[j].host \in UnitsFrom(m.addr, m.units)
    BY <1>1 DEF Held
  <2>2. ASSUME NEW u \in Place(p, bs[i])
        PROVE  u < bs[i].len /\ u + bs[i].host \in UnitsFrom(p.addr, p.units)
    BY <1>2, <1>4, PlaceFacts
  <2>3. ASSUME NEW j \in 1 .. Len(cs), NEW u \in cs[j].bits
        PROVE  u < cs[j].len /\ \E m \in lv \cup {p} : u + cs[j].host \in UnitsFrom(m.addr, m.units)
    <3>1. CASE u \in bs[j].bits
      BY <1>6, <2>1, <3>1
    <3>2. CASE j = i /\ u \in Place(p, bs[i])
      BY <1>5, <2>2, <3>2
    <3> QED
      BY <1>5, <3>1, <3>2
  <2> QED
    BY <2>3 DEF Held
<1>12. lv \cup {p} \in SUBSET Piece
  BY <1>1, <1>4
<1> QED
  BY <1>3, <1>7, <1>8, <1>9, <1>10, <1>11, <1>12 DEF Agree

(* The bits of a piece that is freed are set, so that toggling clears them. *)
LEMMA FreedEffect ==
  ASSUME NEW b \in Block, NEW m \in Piece, Lies(m, b), Place(m, b) \subseteq b.bits
  PROVE  LET c == Freed(b, m) IN
         /\ c \in Block /\ c.host = b.host /\ c.len = b.len /\ c.pci = b.pci
         /\ c.bits = b.bits \ Place(m, b)
<1>1. b.bits \in SUBSET Nat
  BY DEF Block
<1>2. Toggled(b.bits, Place(m, b)) = b.bits \ Place(m, b)
  BY DEF Toggled
<1>3. Freed(b, m) = [b EXCEPT !.bits = b.bits \ Place(m, b)]
  BY <1>2 DEF Freed, Place
<1> QED
  BY <1>1, <1>3, OtherBits

(* A piece that is freed takes its bits with it, and no other's.           *)
LEMMA AgreeFree ==
  ASSUME NEW bs, NEW lv, Agree(bs, lv), NEW m \in lv, NEW i \in 1 .. Len(bs), Lies(m, bs[i]),
         NEW cs, Replaced(bs, i, Freed(bs[i], m), cs)
  PROVE  Agree(cs, lv \ {m})
<1>. /\ cs \in Seq(Block) /\ Len(cs) = Len(bs) /\ cs[i] = Freed(bs[i], m)
     /\ \A j \in 1 .. Len(bs) : j # i => cs[j] = bs[j]
  BY DEF Replaced
<1>1. /\ bs \in Seq(Block) /\ lv \in SUBSET Piece /\ Len(bs) \in Nat /\ m \in Piece
      /\ Laid(bs) /\ Separate(lv) /\ Marked(bs, lv) /\ Held(bs, lv)
  BY DEF Agree
<1>2. \A j \in 1 .. Len(bs) : bs[j] \in Block /\ bs[j].host \in Nat /\ bs[j].bits \in SUBSET Nat
  <2>1. \A j \in 1 .. Len(bs) : bs[j] \in Block
    BY <1>1
  <2> QED
    BY <2>1 DEF Block
<1>3. Place(m, bs[i]) \subseteq bs[i].bits
  <2>1. PICK j \in 1 .. Len(bs) : Lies(m, bs[j]) /\ Place(m, bs[j]) \subseteq bs[j].bits
    BY <1>1 DEF Marked
  <2>2. j = i
    BY <1>1, <2>1, OneBlock
  <2> QED
    BY <2>1, <2>2
<1>4. /\ cs[i].host = bs[i].host /\ cs[i].len = bs[i].len /\ cs[i].pci = bs[i].pci
      /\ cs[i].bits = bs[i].bits \ Place(m, bs[i])
  BY <1>1, <1>2, <1>3, FreedEffect
<1>5. \A j \in 1 .. Len(bs) : /\ cs[j].host = bs[j].host /\ cs[j].len = bs[j].len /\ cs[j].pci = bs[j].pci
                              /\ cs[j].bits \subseteq bs[j].bits
  BY <1>4
<1>6. Laid(cs) /\ Separate(lv \ {m})
  BY <1>1, <1>5, LaidFrame DEF Separate
<1>7. Marked(cs, lv \ {m})
  <2>1. ASSUME NEW n \in lv \ {m}
        PROVE  \E j \in 1 .. Len(cs) : Lies(n, cs[j]) /\ Place(n, cs[j]) \subseteq cs[j].bits
    <3>1. PICK j \in 1 .. Len(bs) : Lies(n, bs[j]) /\ Place(n, bs[j]) \subseteq bs[j].bits
      BY <1>1 DEF Marked
    <3>2. Lies(n, cs[j]) /\ Place(n, cs[j]) = Place(n, bs[j])
      BY <1>5, <3>1, LiesFrame
    <3>3. j = i => Place(n, bs[i]) \cap Place(m, bs[i]) = {}
      <4>1. Apart(n, m) /\ n \in Piece
        BY <1>1 DEF Separate
      <4> QED
        BY <1>1, <1>2, <3>1, <4>1, ApartInOneBlock
    <3>4. Place(n, bs[j]) \subseteq cs[j].bits
      BY <1>4, <3>1, <3>3
    <3> QED
      BY <3>2, <3>4
  <2> QED
    BY <2>1 DEF Marked
<1>8. Held(cs, lv \ {m})
  <2>1. ASSUME NEW j \in 1 .. Len(cs), NEW u \in cs[j].bits
        PROVE  u < cs[j].len /\ \E n \in lv \ {m} : u + cs[j].host \in UnitsFrom(n.addr, n.units)
    <3>1. u \in bs[j].bits /\ u \in Nat
      BY <1>2, <1>5
    <3>2. u < bs[j].len
      BY <1>1, <3>1 DEF Held
    <3>3. PICK n \in lv : u + bs[j].host \in UnitsFrom(n.addr, n.units)
      BY <1>1, <3>1 DEF Held
    <3>4. ASSUME n = m PROVE FALSE
      <4>1. CASE j = i
        <5>1. u \in Place(m, bs[i])
          BY <1>1, <1>2, <3>1, <3>3, <3>4, <4>1, PlaceFacts
        <5> QED
          BY <1>4, <4>1, <5>1
      <4>2. CASE j # i
        <5>1. BlocksApart(bs[i], bs[j])
          BY <1>1, <4>2 DEF Laid
        <5>2. /\ bs[i].host \in Nat /\ bs[i].len \in Nat /\ bs[j].host \in Nat /\ bs[j].len \in Nat
              /\ m.addr \in Nat /\ m.units \in Nat
          <6>1. bs[i] \in Block /\ bs[j] \in Block
            BY <1>2
          <6> QED
            BY <1>1, <6>1 DEF Block, Piece
        <5>3. bs[i].host <= m.addr /\ m.addr + m.units <= bs[i].host + bs[i].len
          BY DEF Lies
        <5>4. m.addr <= u + bs[j].host /\ u + bs[j].host < m.addr + m.units
          BY <3>1, <3>3, <3>4, <5>2 DEF UnitsFrom
        <5>5. bs[i].host + bs[i].len <= bs[j].host \/ bs[j].host + bs[j].len <= bs[i].host
          BY <5>1 DEF BlocksApart
        <5>6. \A a, l, c, k, x, n1, v \in Nat :
                a <= x /\ x + n1 <= a + l /\ x <= v + c /\ v + c < x + n1 /\ v < k =>
                  ~(a + l <= c \/ c + k <= a)
          OBVIOUS
        <5> QED
          BY <3>1, <3>2, <5>2, <5>3, <5>4, <5>5, <5>6
      <4> QED
        BY <4>1, <4>2
    <3> QED
      BY <1>5, <3>2, <3>3, <3>4
  <2> QED
    BY <2>1 DEF Held
<1> QED
  BY <1>1, <1>5, <1>6, <1>7, <1>8 DEF Agree

(* Blocks may move on the list, and empty ones come and go.                *)
LEMMA AgreeMove ==
  ASSUME NEW bs, NEW lv, Agree(bs, lv), NEW cs \in Seq(Block), Laid(cs),
         \A j \in 1 .. Len(bs) : bs[j].bits = {} \/ \E k \in 1 .. Len(cs) : cs[k] = bs[j],
         \A k \in 1 .. Len(cs) : cs[k].bits = {} \/ \E j \in 1 .. Len(bs) : cs[k] = bs[j]
  PROVE  Agree(cs, lv)
<1>1. /\ bs \in Seq(Block) /\ lv \in SUBSET Piece
      /\ Separate(lv) /\ Marked(bs, lv) /\ Held(bs, lv)
  BY DEF Agree
<1>2. Marked(cs, lv)
  <2>1. ASSUME NEW m \in lv
        PROVE  \E k \in 1 .. Len(cs) : Lies(m, cs[k]) /\ Place(m, cs[k]) \subseteq cs[k].bits
    <3>1. PICK j \in 1 .. Len(bs) : Lies(m, bs[j]) /\ Place(m, bs[j]) \subseteq bs[j].bits
      BY <1>1 DEF Marked
    <3>2. bs[j] \in Block /\ m \in Piece
      BY <1>1
    <3>3. Place(m, bs[j]) # {}
      BY <3>1, <3>2, PlaceFacts
    <3>4. PICK k \in 1 .. Len(cs) : cs[k] = bs[j]
      BY <3>1, <3>3
    <3> QED
      BY <3>1, <3>4
  <2> QED
    BY <2>1 DEF Marked
<1>3. Held(cs, lv)
  <2>1. ASSUME NEW k \in 1 .. Len(cs), NEW u \in cs[k].bits
        PROVE  u < cs[k].len /\ \E m \in lv : u + cs[k].host \in UnitsFrom(m.addr, m.units)
    <3>1. PICK j \in 1 .. Len(bs) : cs[k] = bs[j]
      OBVIOUS
    <3> QED
      BY <1>1, <3>1 DEF Held
  <2> QED
    BY <2>1 DEF Held
<1> QED
  BY <1>1, <1>2, <1>3 DEF Agree

-----------------------------------------------------------------------------
(* The list of blocks.                                                     *)

(* The elements of a list that is put behind another one.                  *)
LEMMA ConcatAt ==
  ASSUME NEW S, NEW r \in Seq(S), NEW s \in Seq(S), NEW k \in 1 .. Len(s)
  PROVE  (r \o s)[k + Len(r)] = s[k]
<1>1. k + Len(r) \in 1 .. Len(r) + Len(s) /\ ~(k + Len(r) <= Len(r)) /\ k + Len(r) - Len(r) = k
  OBVIOUS
<1>2. (r \o s)[k + Len(r)] = s[k + Len(r) - Len(r)]
  BY <1>1, ConcatProperties
<1> QED
  BY <1>1, <1>2

(* A list that is put behind another one.                                  *)
LEMMA Joined ==
  ASSUME NEW S, NEW r \in Seq(S), NEW s \in Seq(S)
  PROVE  /\ r \o s \in Seq(S) /\ Len(r \o s) = Len(r) + Len(s)
         /\ \A k \in 1 .. Len(r) : (r \o s)[k] = r[k]
         /\ \A k \in 1 .. Len(s) : (r \o s)[k + Len(r)] = s[k]
<1>. PICK c : c = r \o s
  OBVIOUS
<1>1. /\ c \in Seq(S) /\ Len(c) = Len(r) + Len(s)
      /\ \A k \in 1 .. Len(r) + Len(s) : c[k] = IF k <= Len(r) THEN r[k] ELSE s[k - Len(r)]
  BY ConcatProperties
<1>2. ASSUME NEW k \in 1 .. Len(r) PROVE c[k] = r[k]
  BY <1>1
<1>3. ASSUME NEW k \in 1 .. Len(s) PROVE c[k + Len(r)] = s[k]
  BY <1>1
<1> QED
  BY <1>1, <1>2, <1>3

(* A block that is inserted is the second; the others keep their order.    *)
LEMMA InsertFacts ==
  ASSUME NEW bs \in Seq(Block), bs # << >>, NEW c \in Block
  PROVE  LET cs == InsertAt(bs, 2, c) IN
         /\ cs \in Seq(Block) /\ Len(bs) \in Nat \ {0} /\ Len(cs) = Len(bs) + 1
         /\ cs[1] = bs[1] /\ cs[2] = c
         /\ \A k \in 3 .. Len(cs) : cs[k] = bs[k - 1]
<1>. PICK cs : cs = InsertAt(bs, 2, c)
  OBVIOUS
<1>. PICK s : s = SubSeq(bs, 1, 1)
  OBVIOUS
<1>. PICK t : t = SubSeq(bs, 2, Len(bs))
  OBVIOUS
<1>1. Len(bs) \in Nat \ {0} /\ \A j \in 1 .. Len(bs) : bs[j] \in Block
  <2>1. Len(bs) \in Nat /\ Len(bs) # 0
    BY EmptySeq, LenProperties
  <2> QED
    BY <2>1
<1>2. s \in Seq(Block) /\ Len(s) = 1 /\ s[1] = bs[1]
  <2>1. \A j \in 1 .. 1 : bs[j] \in Block
    BY <1>1
  <2>2. s \in Seq(Block) /\ Len(s) = 1 /\ \A j \in 1 .. 1 : s[j] = bs[1 + j - 1]
    BY <1>1, <2>1, SubSeqProperties
  <2> QED
    BY <2>2
<1>3. t \in Seq(Block) /\ Len(t) = Len(bs) - 1 /\ \A j \in 1 .. Len(bs) - 1 : t[j] = bs[j + 1]
  <2>1. \A j \in 2 .. Len(bs) : bs[j] \in Block
    BY <1>1
  <2>2. /\ t \in Seq(Block) /\ Len(t) = IF 2 <= Len(bs) THEN Len(bs) - 2 + 1 ELSE 0
        /\ \A j \in 1 .. Len(bs) - 2 + 1 : t[j] = bs[2 + j - 1]
    BY <1>1, <2>1, SubSeqProperties
  <2>3. 2 <= Len(bs) => Len(bs) - 2 + 1 = Len(bs) - 1
    BY <1>1
  <2>4. ~(2 <= Len(bs)) => Len(bs) - 1 = 0
    <3>1. \A n \in Nat : ~(2 <= n) /\ n # 0 => n - 1 = 0
      OBVIOUS
    <3> QED
      BY <1>1, <3>1
  <2>5. Len(t) = Len(bs) - 1
    BY <2>2, <2>3, <2>4
  <2>6. \A j \in 1 .. Len(bs) - 1 : t[j] = bs[j + 1]
    <3>1. \A j \in Int : 2 + j - 1 = j + 1
      OBVIOUS
    <3>2. \A j \in 1 .. Len(bs) - 1 : j \in 1 .. Len(bs) - 2 + 1 /\ j \in Int
      BY <1>1
    <3> QED
      BY <2>2, <3>1, <3>2
  <2> QED
    BY <2>2, <2>5, <2>6
<1>4. cs = (s \o <<c>>) \o t
  BY DEF InsertAt
<1>5. PICK e \in Seq(Block) : e = <<c>> /\ Len(e) = 1 /\ e[1] = c
  <2>1. <<c>> \in Seq(Block) /\ Len(<<c>>) = 1 /\ <<c>>[1] = c
    OBVIOUS
  <2> QED
    BY <2>1
<1>6. PICK a : a = s \o e
  OBVIOUS
<1>7. a \in Seq(Block) /\ Len(a) = 2 /\ a[1] = bs[1] /\ a[2] = c
  <2>1. s \in Seq(Block) /\ e \in Seq(Block)
    BY <1>2
  <2>2. a \in Seq(Block) /\ Len(a) = Len(s) + Len(e)
    BY <1>6, <2>1, Joined
  <2>3. \A k \in 1 .. Len(s) : a[k] = s[k]
    BY <1>6, <2>1, Joined
  <2>4. \A k \in 1 .. Len(e) : a[k + Len(s)] = e[k]
    BY <1>6, <2>1, Joined
  <2> QED
    BY <1>2, <1>5, <2>2, <2>3, <2>4
<1>8. /\ cs \in Seq(Block) /\ Len(cs) = 2 + (Len(bs) - 1)
      /\ \A k \in 1 .. 2 : cs[k] = a[k]
      /\ \A k \in 1 .. Len(bs) - 1 : cs[k + 2] = t[k]
  <2>1. a \in Seq(Block) /\ t \in Seq(Block) /\ cs = a \o t
    BY <1>3, <1>4, <1>5, <1>6, <1>7
  <2>2. cs \in Seq(Block) /\ Len(cs) = Len(a) + Len(t)
    BY <2>1, Joined
  <2>3. \A k \in 1 .. Len(a) : cs[k] = a[k]
    BY <2>1, Joined
  <2>4. \A k \in 1 .. Len(t) : cs[k + Len(a)] = t[k]
    BY <2>1, Joined
  <2> QED
    BY <1>3, <1>7, <2>2, <2>3, <2>4
<1>9. ASSUME NEW k \in 3 .. Len(cs) PROVE cs[k] = bs[k - 1]
  <2>1. k - 2 \in 1 .. Len(bs) - 1 /\ (k - 2) + 1 = k - 1 /\ (k - 2) + 2 = k
    BY <1>1, <1>8
  <2>2. cs[k] = t[k - 2]
    BY <1>8, <2>1
  <2> QED
    BY <1>3, <2>1, <2>2
<1>10. Len(cs) = Len(bs) + 1 /\ cs[1] = bs[1] /\ cs[2] = c
  BY <1>1, <1>7, <1>8
<1> QED
  BY <1>1, <1>8, <1>9, <1>10

(* Lists into which one or the other block is inserted differ there alone. *)
LEMMA InsertKeeps ==
  ASSUME NEW bs \in Seq(Block), bs # << >>, NEW c \in Block, NEW d \in Block,
         NEW k \in 1 .. Len(InsertAt(bs, 2, c)), k # 2
  PROVE  InsertAt(bs, 2, d)[k] = InsertAt(bs, 2, c)[k]
<1>. PICK ds : ds = InsertAt(bs, 2, c)
  OBVIOUS
<1>. PICK cs : cs = InsertAt(bs, 2, d)
  OBVIOUS
<1>1. /\ Len(bs) \in Nat \ {0} /\ Len(ds) = Len(bs) + 1 /\ ds[1] = bs[1]
      /\ \A l \in 3 .. Len(ds) : ds[l] = bs[l - 1]
  BY InsertFacts
<1>2. /\ Len(cs) = Len(bs) + 1 /\ cs[1] = bs[1]
      /\ \A l \in 3 .. Len(cs) : cs[l] = bs[l - 1]
  BY InsertFacts
<1>3. CASE k = 1
  BY <1>1, <1>2, <1>3
<1>4. CASE k \in 3 .. Len(ds)
  BY <1>1, <1>2, <1>4
<1>5. k = 1 \/ k \in 3 .. Len(ds)
  BY <1>1
<1> QED
  BY <1>3, <1>4, <1>5

(* Those lists have the same length, and either block is the second.       *)
LEMMA InsertOther ==
  ASSUME NEW bs \in Seq(Block), bs # << >>, NEW c \in Block, NEW d \in Block
  PROVE  LET ds == InsertAt(bs, 2, c)
             cs == InsertAt(bs, 2, d)
         IN  /\ cs \in Seq(Block) /\ Len(cs) = Len(ds) /\ Len(ds) \in Nat /\ 2 \in 1 .. Len(ds)
             /\ ds[2] = c /\ cs[2] = d
<1>. PICK ds : ds = InsertAt(bs, 2, c)
  OBVIOUS
<1>. PICK cs : cs = InsertAt(bs, 2, d)
  OBVIOUS
<1>1. Len(bs) \in Nat \ {0} /\ Len(ds) = Len(bs) + 1 /\ ds[2] = c
  BY InsertFacts
<1>2. cs \in Seq(Block) /\ Len(cs) = Len(bs) + 1 /\ cs[2] = d
  BY InsertFacts
<1> QED
  BY <1>1, <1>2

(* A block that is removed leaves the others in their order.               *)
LEMMA RemoveFacts ==
  ASSUME NEW bs \in Seq(Block), NEW i \in 1 .. Len(bs)
  PROVE  LET cs == RemoveAt(bs, i) IN
         /\ cs \in Seq(Block) /\ Len(cs) = Len(bs) - 1 /\ Len(bs) \in Nat
         /\ \A k \in 1 .. Len(cs) : cs[k] = IF k < i THEN bs[k] ELSE bs[k + 1]
<1>. PICK cs : cs = RemoveAt(bs, i)
  OBVIOUS
<1>. PICK s : s = SubSeq(bs, 1, i - 1)
  OBVIOUS
<1>. PICK t : t = SubSeq(bs, i + 1, Len(bs))
  OBVIOUS
<1>1. Len(bs) \in Nat /\ i \in Nat \ {0} /\ \A j \in 1 .. Len(bs) : bs[j] \in Block
  OBVIOUS
<1>2. s \in Seq(Block) /\ Len(s) = i - 1 /\ \A j \in 1 .. i - 1 : s[j] = bs[j]
  <2>1. \A j \in 1 .. i - 1 : bs[j] \in Block
    BY <1>1
  <2> QED
    BY <1>1, <2>1, SubSeqProperties
<1>3. t \in Seq(Block) /\ Len(t) = Len(bs) - i /\ \A j \in 1 .. Len(bs) - i : t[j] = bs[i + j]
  <2>1. \A j \in i + 1 .. Len(bs) : bs[j] \in Block
    BY <1>1
  <2> QED
    BY <1>1, <2>1, SubSeqProperties
<1>4. cs = s \o t
  BY DEF RemoveAt
<1>5. /\ cs \in Seq(Block) /\ Len(cs) = (i - 1) + (Len(bs) - i)
      /\ \A k \in 1 .. i - 1 : cs[k] = s[k]
      /\ \A k \in 1 .. Len(bs) - i : cs[k + (i - 1)] = t[k]
  <2>1. s \in Seq(Block) /\ t \in Seq(Block)
    BY <1>2, <1>3
  <2>2. cs \in Seq(Block) /\ Len(cs) = Len(s) + Len(t)
    BY <1>4, <2>1, Joined
  <2>3. \A k \in 1 .. Len(s) : cs[k] = s[k]
    BY <1>4, <2>1, Joined
  <2>4. \A k \in 1 .. Len(t) : cs[k + Len(s)] = t[k]
    <3>1. ASSUME NEW k \in 1 .. Len(t) PROVE (s \o t)[k + Len(s)] = t[k]
      BY <2>1, ConcatAt
    <3> QED
      BY <1>4, <3>1, Zenon
  <2> QED
    BY <1>2, <1>3, <2>2, <2>3, <2>4
<1>6. Len(cs) = Len(bs) - 1
  BY <1>1, <1>5
<1>7. ASSUME NEW k \in 1 .. Len(cs), k < i PROVE cs[k] = bs[k]
  BY <1>1, <1>2, <1>5, <1>7
<1>8. ASSUME NEW k \in 1 .. Len(cs), ~(k < i) PROVE cs[k] = bs[k + 1]
  <2>1. /\ k - (i - 1) \in 1 .. Len(bs) - i /\ i + (k - (i - 1)) = k + 1
        /\ (k - (i - 1)) + (i - 1) = k
    BY <1>1, <1>6, <1>8
  <2>2. cs[k] = t[k - (i - 1)]
    BY <1>5, <2>1
  <2> QED
    BY <1>3, <2>1, <2>2
<1> QED
  BY <1>1, <1>5, <1>6, <1>7, <1>8

(* An empty block may come in behind the head.                             *)
LEMMA AgreeInsert ==
  ASSUME NEW bs, NEW lv, Agree(bs, lv), bs # << >>, NEW c \in Block, c.bits = {}, ClearOf(c, bs)
  PROVE  LET cs == InsertAt(bs, 2, c) IN
         /\ Agree(cs, lv) /\ Taken(cs) = Taken(bs) \cup BlockUnits(c)
         /\ (\A i \in 1 .. Len(bs) : i > 1 => bs[i].bits # {}) =>
              \A k \in 1 .. Len(cs) : k > 2 => cs[k].bits # {}
<1>. PICK cs : cs = InsertAt(bs, 2, c)
  OBVIOUS
<1> DEFINE old(k) == IF k = 1 THEN 1 ELSE k - 1
<1>1. bs \in Seq(Block) /\ Laid(bs)
  BY DEF Agree
<1>2. /\ cs \in Seq(Block) /\ Len(bs) \in Nat \ {0} /\ Len(cs) = Len(bs) + 1
      /\ cs[1] = bs[1] /\ cs[2] = c
      /\ \A k \in 3 .. Len(cs) : cs[k] = bs[k - 1]
  <2>1. bs \in Seq(Block)
    BY <1>1
  <2> QED
    BY <2>1, InsertFacts
<1>3. ASSUME NEW k \in 1 .. Len(cs), k # 2
      PROVE  old(k) \in 1 .. Len(bs) /\ cs[k] = bs[old(k)]
  BY <1>2, <1>3
<1>4. \A k, l \in 1 .. Len(cs) : k # 2 /\ l # 2 /\ k # l => old(k) # old(l)
  BY <1>2
<1>5. \A i \in 1 .. Len(bs) : \E k \in 1 .. Len(cs) : k # 2 /\ old(k) = i
  <2>1. 1 \in 1 .. Len(cs) /\ old(1) = 1
    BY <1>2
  <2>2. \A i \in 1 .. Len(bs) : i # 1 => i + 1 \in 1 .. Len(cs) /\ i + 1 # 2 /\ old(i + 1) = i
    BY <1>2
  <2> HIDE DEF old
  <2> QED
    BY <2>1, <2>2
<1>6. \A k \in 1 .. Len(cs) : k > 2 => old(k) > 1
  BY <1>2
<1>7. 2 \in 1 .. Len(cs)
  BY <1>2
<1> HIDE DEF old
<1>8. Laid(cs)
  <2>1. ASSUME NEW k \in 1 .. Len(cs), NEW l \in 1 .. Len(cs), k # l
        PROVE  BlocksApart(cs[k], cs[l])
    <3>1. CASE k = 2
      <4>1. old(l) \in 1 .. Len(bs) /\ cs[l] = bs[old(l)]
        BY <1>3, <2>1, <3>1
      <4> QED
        BY <1>2, <3>1, <4>1 DEF ClearOf
    <3>2. CASE l = 2
      <4>1. old(k) \in 1 .. Len(bs) /\ cs[k] = bs[old(k)]
        BY <1>3, <2>1, <3>2
      <4>2. BlocksApart(c, bs[old(k)])
        BY <4>1 DEF ClearOf
      <4> QED
        BY <1>2, <3>2, <4>1, <4>2 DEF BlocksApart
    <3>3. CASE k # 2 /\ l # 2
      <4>1. /\ old(k) \in 1 .. Len(bs) /\ cs[k] = bs[old(k)]
            /\ old(l) \in 1 .. Len(bs) /\ cs[l] = bs[old(l)]
        BY <1>3, <3>3
      <4>2. old(k) # old(l)
        BY <1>4, <2>1, <3>3
      <4> QED
        BY <1>1, <4>1, <4>2 DEF Laid
    <3> QED
      BY <3>1, <3>2, <3>3
  <2> QED
    BY <2>1 DEF Laid
<1>9. \A i \in 1 .. Len(bs) : \E k \in 1 .. Len(cs) : cs[k] = bs[i]
  BY <1>3, <1>5
<1>10. \A k \in 1 .. Len(cs) : cs[k] = c \/ \E i \in 1 .. Len(bs) : cs[k] = bs[i]
  BY <1>2, <1>3
<1>11. Agree(cs, lv)
  <2>1. \A k \in 1 .. Len(cs) : cs[k].bits = {} \/ \E i \in 1 .. Len(bs) : cs[k] = bs[i]
    BY <1>10
  <2> QED
    BY <1>2, <1>8, <1>9, <2>1, AgreeMove
<1>12. Taken(cs) = Taken(bs) \cup BlockUnits(c)
  <2>1. ASSUME NEW u \in Taken(cs) PROVE u \in Taken(bs) \cup BlockUnits(c)
    BY <1>10, <2>1 DEF Taken
  <2>2. ASSUME NEW u \in Taken(bs) PROVE u \in Taken(cs)
    BY <1>9, <2>2 DEF Taken
  <2>3. ASSUME NEW u \in BlockUnits(c) PROVE u \in Taken(cs)
    BY <1>2, <1>7, <2>3 DEF Taken
  <2> QED
    BY <2>1, <2>2, <2>3
<1>13. ASSUME \A i \in 1 .. Len(bs) : i > 1 => bs[i].bits # {}, NEW k \in 1 .. Len(cs), k > 2
       PROVE  cs[k].bits # {}
  <2>1. k # 2 /\ old(k) > 1
    BY <1>6, <1>13
  <2> QED
    BY <1>3, <1>13, <2>1
<1> QED
  BY <1>11, <1>12, <1>13

(* An empty block may leave, and takes its units with it.                  *)
LEMMA AgreeRemove ==
  ASSUME NEW bs, NEW lv, Agree(bs, lv), NEW i \in 1 .. Len(bs), bs[i].bits = {}
  PROVE  LET cs == RemoveAt(bs, i) IN
         /\ Agree(cs, lv) /\ Taken(cs) = Taken(bs) \ BlockUnits(bs[i])
         /\ Len(cs) = Len(bs) - 1 /\ Len(bs) \in Nat
         /\ (\A j \in 1 .. Len(bs) : j > 1 /\ j # i => bs[j].bits # {}) =>
              \A k \in 1 .. Len(cs) : k > 1 => cs[k].bits # {}
<1>. PICK cs : cs = RemoveAt(bs, i)
  OBVIOUS
<1> DEFINE old(k) == IF k < i THEN k ELSE k + 1
<1>1. bs \in Seq(Block) /\ Laid(bs)
  BY DEF Agree
<1>2. /\ cs \in Seq(Block) /\ Len(cs) = Len(bs) - 1 /\ Len(bs) \in Nat
      /\ \A k \in 1 .. Len(cs) : cs[k] = bs[old(k)]
  BY <1>1, RemoveFacts
<1>3. \A k \in 1 .. Len(cs) : old(k) \in 1 .. Len(bs) /\ old(k) # i
  BY <1>2
<1>4. \A k, l \in 1 .. Len(cs) : k # l => old(k) # old(l)
  BY <1>2
<1>5. \A j \in 1 .. Len(bs) : j # i => \E k \in 1 .. Len(cs) : old(k) = j
  <2>1. \A j \in 1 .. Len(bs) : j < i => j \in 1 .. Len(cs) /\ old(j) = j
    BY <1>2
  <2>2. \A j \in 1 .. Len(bs) : j > i => j - 1 \in 1 .. Len(cs) /\ old(j - 1) = j
    BY <1>2
  <2>3. \A j \in 1 .. Len(bs) : j # i => j < i \/ j > i
    BY <1>2
  <2> HIDE DEF old
  <2> QED
    BY <2>1, <2>2, <2>3
<1>6. \A k \in 1 .. Len(cs) : k > 1 => old(k) > 1
  BY <1>2
<1> HIDE DEF old
<1>7. Laid(cs)
  BY <1>1, <1>2, <1>3, <1>4 DEF Laid
<1>8. \A k \in 1 .. Len(cs) : \E j \in 1 .. Len(bs) : j # i /\ cs[k] = bs[j]
  BY <1>2, <1>3
<1>9. \A j \in 1 .. Len(bs) : j # i => \E k \in 1 .. Len(cs) : cs[k] = bs[j]
  BY <1>2, <1>5
<1>10. Agree(cs, lv)
  BY <1>2, <1>7, <1>8, <1>9, AgreeMove
<1>11. Taken(cs) = Taken(bs) \ BlockUnits(bs[i])
  <2>1. ASSUME NEW j \in 1 .. Len(bs), j # i PROVE BlockUnits(bs[j]) \cap BlockUnits(bs[i]) = {}
    <3>1. BlocksApart(bs[i], bs[j])
      BY <1>1, <2>1 DEF Laid
    <3>2. bs[i] \in Block /\ bs[j] \in Block
      BY <1>1
    <3>3. bs[i].host \in Nat /\ bs[i].len \in Nat /\ bs[j].host \in Nat /\ bs[j].len \in Nat
      BY <3>2 DEF Block
    <3>4. bs[i].host + bs[i].len <= bs[j].host \/ bs[j].host + bs[j].len <= bs[i].host
      BY <3>1 DEF BlocksApart
    <3>5. \A h, l, g, k \in Nat, u \in Int :
            u \in UnitsFrom(h, l) /\ u \in UnitsFrom(g, k) => ~(h + l <= g \/ g + k <= h)
      BY DEF UnitsFrom
    <3>6. BlockUnits(bs[i]) \subseteq Int
      BY <3>3 DEF BlockUnits, UnitsFrom
    <3> QED
      BY <3>3, <3>4, <3>5, <3>6 DEF BlockUnits
  <2>2. ASSUME NEW u \in Taken(cs) PROVE u \in Taken(bs) /\ u \notin BlockUnits(bs[i])
    <3>1. PICK k \in 1 .. Len(cs) : u \in BlockUnits(cs[k])
      BY <2>2 DEF Taken
    <3>2. PICK j \in 1 .. Len(bs) : j # i /\ cs[k] = bs[j]
      BY <1>8
    <3> QED
      BY <2>1, <3>1, <3>2 DEF Taken
  <2>3. ASSUME NEW u \in Taken(bs), u \notin BlockUnits(bs[i]) PROVE u \in Taken(cs)
    <3>1. PICK j \in 1 .. Len(bs) : u \in BlockUnits(bs[j])
      BY <2>3 DEF Taken
    <3>2. PICK k \in 1 .. Len(cs) : cs[k] = bs[j]
      BY <1>9, <2>3, <3>1
    <3> QED
      BY <3>1, <3>2 DEF Taken
  <2> QED
    BY <2>2, <2>3
<1>12. ASSUME \A j \in 1 .. Len(bs) : j > 1 /\ j # i => bs[j].bits # {}, NEW k \in 1 .. Len(cs), k > 1
       PROVE  cs[k].bits # {}
  BY <1>2, <1>3, <1>6, <1>12
<1> QED
  BY <1>2, <1>10, <1>11, <1>12

(* Blocks that keep their places take what they took.                      *)
LEMMA TakenFrame ==
  ASSUME NEW bs, NEW cs, Len(cs) = Len(bs),
         \A i \in 1 .. Len(bs) : cs[i].host = bs[i].host /\ cs[i].len = bs[i].len
  PROVE  Taken(cs) = Taken(bs)
<1>1. \A i \in 1 .. Len(bs) : BlockUnits(cs[i]) = BlockUnits(bs[i])
  BY DEF BlockUnits
<1>2. ASSUME NEW u \in Taken(cs) PROVE u \in Taken(bs)
  BY <1>1, <1>2 DEF Taken
<1>3. ASSUME NEW u \in Taken(bs) PROVE u \in Taken(cs)
  BY <1>1, <1>3 DEF Taken
<1> QED
  BY <1>2, <1>3

-----------------------------------------------------------------------------
(* The steps, on any blocks, pieces, units and pages.                      *)

(* A piece is allocated from a block that has room.                        *)
LEMMA SoundAllocate ==
  ASSUME NEW bs, NEW lv, NEW ow, NEW al, Sound(bs, lv, ow, al),
         NEW i \in 1 .. Len(bs), NEW n \in Nat \ {0}, Fits(bs[i], n) # {}
  PROVE  /\ Sound([bs EXCEPT ![i] = WithPiece(@, n)], lv \cup {NewPiece(bs[i], n)}, ow, al)
         /\ \A m \in lv : Apart(NewPiece(bs[i], n), m) /\ Apart(m, NewPiece(bs[i], n))
         /\ Len(bs) \in Nat /\ Len([bs EXCEPT ![i] = WithPiece(@, n)]) = Len(bs)
<1>. PICK cs : cs = [bs EXCEPT ![i] = WithPiece(@, n)]
  OBVIOUS
<1>1. Agree(bs, lv) /\ bs \in Seq(Block) /\ Len(bs) \in Nat /\ bs[i] \in Block
  <2>1. Agree(bs, lv) /\ bs \in Seq(Block)
    BY DEF Sound, Agree
  <2> QED
    BY <2>1
<1>3. PICK c \in Block : /\ c = WithPiece(bs[i], n)
                         /\ c.host = bs[i].host /\ c.len = bs[i].len /\ c.bits # {}
  BY <1>1, WithPieceFacts
<1>4. /\ cs \in Seq(Block) /\ Len(cs) = Len(bs) /\ cs[i] = c
      /\ \A j \in 1 .. Len(bs) : j # i => cs[j] = bs[j]
  BY <1>1, <1>3
<1>5. /\ Agree(cs, lv \cup {NewPiece(bs[i], n)})
      /\ \A m \in lv : Apart(NewPiece(bs[i], n), m) /\ Apart(m, NewPiece(bs[i], n))
  BY <1>1, <1>3, <1>4, AgreeAllocate
<1>6. Taken(cs) = Taken(bs)
  BY <1>3, <1>4, TakenFrame
<1>7. \A j \in 1 .. Len(cs) : j > 1 => cs[j].bits # {}
  BY <1>3, <1>4 DEF Sound
<1> QED
  BY <1>1, <1>4, <1>5, <1>6, <1>7 DEF Sound

(* A piece is allocated from a block that is new.                          *)
LEMMA SoundExtend ==
  ASSUME NEW bs, NEW lv, NEW ow, NEW al, Sound(bs, lv, ow, al), bs # << >>,
         NEW c \in Block, c.bits = {}, ClearOf(c, bs),
         BlockUnits(c) \cap ow = {}, NEW n \in Nat \ {0}, Fits(c, n) # {}
  PROVE  LET cs == InsertAt(bs, 2, WithPiece(c, n)) IN
         /\ Sound(cs, lv \cup {NewPiece(c, n)}, ow \cup BlockUnits(c), al)
         /\ \A m \in lv : Apart(NewPiece(c, n), m) /\ Apart(m, NewPiece(c, n))
         /\ cs # << >>
<1>. PICK ds : ds = InsertAt(bs, 2, c)
  OBVIOUS
<1>. PICK d : d = WithPiece(c, n)
  OBVIOUS
<1>. PICK cs : cs = InsertAt(bs, 2, d)
  OBVIOUS
<1>1. bs \in Seq(Block) /\ Agree(bs, lv)
  BY DEF Sound, Agree
<1>3. d \in Block /\ d.host = c.host /\ d.len = c.len /\ d.bits # {}
  BY WithPieceFacts
<1>4. /\ Agree(ds, lv) /\ Taken(ds) = Taken(bs) \cup BlockUnits(c)
      /\ \A k \in 1 .. Len(ds) : k > 2 => ds[k].bits # {}
  <2>1. \A i \in 1 .. Len(bs) : i > 1 => bs[i].bits # {}
    BY DEF Sound
  <2> QED
    BY <1>1, <2>1, AgreeInsert
<1>7. /\ cs \in Seq(Block) /\ Len(cs) = Len(ds) /\ Len(ds) \in Nat /\ 2 \in 1 .. Len(ds)
      /\ ds[2] = c /\ cs[2] = d
      /\ \A k \in 1 .. Len(ds) : k # 2 => cs[k] = ds[k]
  <2>1. bs \in Seq(Block) /\ d \in Block
    BY <1>1, <1>3
  <2>2. cs \in Seq(Block) /\ Len(cs) = Len(ds) /\ Len(ds) \in Nat
    BY <2>1, InsertOther
  <2>3. 2 \in 1 .. Len(ds) /\ ds[2] = c /\ cs[2] = d
    BY <2>1, InsertOther
  <2>4. ASSUME NEW k \in 1 .. Len(ds), k # 2 PROVE cs[k] = ds[k]
    BY <2>1, <2>4, InsertKeeps
  <2> QED
    BY <2>2, <2>3, <2>4
<1>8. /\ Agree(cs, lv \cup {NewPiece(c, n)})
      /\ \A m \in lv : Apart(NewPiece(c, n), m) /\ Apart(m, NewPiece(c, n))
  <2>1. Fits(ds[2], n) # {} /\ cs[2] = WithPiece(ds[2], n) /\ NewPiece(ds[2], n) = NewPiece(c, n)
    BY <1>7
  <2>2. Agree(ds, lv) /\ cs \in Seq(Block) /\ Len(cs) = Len(ds) /\ 2 \in 1 .. Len(ds)
    BY <1>4, <1>7
  <2>3. \A k \in 1 .. Len(ds) : k # 2 => cs[k] = ds[k]
    BY <1>7
  <2>4. /\ Agree(cs, lv \cup {NewPiece(ds[2], n)})
        /\ \A m \in lv : Apart(NewPiece(ds[2], n), m) /\ Apart(m, NewPiece(ds[2], n))
    BY <2>1, <2>2, <2>3, AgreeAllocate, Zenon
  <2> QED
    BY <2>1, <2>4
<1>9. Taken(cs) = Taken(bs) \cup BlockUnits(c)
  <2>1. \A k \in 1 .. Len(ds) : cs[k].host = ds[k].host /\ cs[k].len = ds[k].len
    BY <1>3, <1>7
  <2> QED
    BY <1>4, <1>7, <2>1, TakenFrame
<1>10. \A k \in 1 .. Len(cs) : k > 1 => cs[k].bits # {}
  <2>1. \A k \in 1 .. Len(cs) : k > 1 => k = 2 \/ k > 2
    BY <1>7
  <2> QED
    BY <1>3, <1>4, <1>7, <2>1
<1>11. \A a \in al : AlignedUnits(a) \cap (Taken(bs) \cup BlockUnits(c)) = {}
  BY DEF Sound, Lent
<1>12. ow \cup BlockUnits(c) = Taken(cs) \cup Lent(al)
  BY <1>9 DEF Sound
<1>13. cs # << >>
  BY <1>7
<1> QED
  BY <1>8, <1>9, <1>10, <1>11, <1>12, <1>13 DEF Sound

(* What is removed from a list does not matter to what stays.              *)
LEMMA RemoveOther ==
  ASSUME NEW bs \in Seq(Block), NEW cs \in Seq(Block), Len(cs) = Len(bs), NEW i \in 1 .. Len(bs),
         \A j \in 1 .. Len(bs) : j # i => cs[j] = bs[j]
  PROVE  RemoveAt(cs, i) = RemoveAt(bs, i)
<1>. PICK r : r = RemoveAt(bs, i)
  OBVIOUS
<1>. PICK s : s = RemoveAt(cs, i)
  OBVIOUS
<1>1. /\ r \in Seq(Block) /\ Len(r) = Len(bs) - 1 /\ Len(bs) \in Nat
      /\ \A k \in 1 .. Len(r) : r[k] = IF k < i THEN bs[k] ELSE bs[k + 1]
  BY RemoveFacts
<1>2. /\ s \in Seq(Block) /\ Len(s) = Len(bs) - 1
      /\ \A k \in 1 .. Len(s) : s[k] = IF k < i THEN cs[k] ELSE cs[k + 1]
  BY RemoveFacts
<1>3. ASSUME NEW k \in 1 .. Len(r) PROVE s[k] = r[k]
  <2>1. k \in 1 .. Len(bs) /\ k + 1 \in 1 .. Len(bs)
    BY <1>1
  <2>2. CASE k < i
    BY <1>1, <1>2, <2>1, <2>2
  <2>3. CASE ~(k < i)
    <3>1. k + 1 # i
      BY <1>1, <2>3
    <3> QED
      BY <1>1, <1>2, <2>1, <2>3, <3>1
  <2> QED
    BY <2>2, <2>3
<1>4. Len(s) = Len(r)
  BY <1>1, <1>2
<1> QED
  BY <1>1, <1>2, <1>3, <1>4, SeqEqual

(* A piece is freed; a block that is not the head leaves when it is empty. *)
LEMMA SoundFree ==
  ASSUME NEW bs, NEW lv, NEW ow, NEW al, Sound(bs, lv, ow, al),
         NEW m \in lv, NEW i \in 1 .. Len(bs), Lies(m, bs[i])
  PROVE  LET b == Freed(bs[i], m) IN
         /\ ~IsReleased(i, b) => Sound([bs EXCEPT ![i] = b], lv \ {m}, ow, al)
         /\ IsReleased(i, b) => /\ Sound(RemoveAt(bs, i), lv \ {m}, ow \ BlockUnits(b), al)
                                /\ RemoveAt(bs, i) # << >>
         /\ Len([bs EXCEPT ![i] = b]) = Len(bs) /\ Len(bs) \in Nat
<1>. PICK b : b = Freed(bs[i], m)
  OBVIOUS
<1>. PICK cs : cs = [bs EXCEPT ![i] = b]
  OBVIOUS
<1>1. /\ Agree(bs, lv) /\ bs \in Seq(Block) /\ lv \in SUBSET Piece /\ m \in Piece
      /\ Marked(bs, lv) /\ Len(bs) \in Nat /\ bs[i] \in Block
  <2>1. Agree(bs, lv) /\ bs \in Seq(Block) /\ lv \in SUBSET Piece /\ Marked(bs, lv)
    BY DEF Sound, Agree
  <2> QED
    BY <2>1
<1>2. Place(m, bs[i]) \subseteq bs[i].bits
  <2>1. PICK j \in 1 .. Len(bs) : Lies(m, bs[j]) /\ Place(m, bs[j]) \subseteq bs[j].bits
    BY <1>1 DEF Marked
  <2>2. Laid(bs)
    BY <1>1 DEF Agree
  <2>3. j = i
    BY <1>1, <2>1, <2>2, OneBlock
  <2> QED
    BY <2>1, <2>3
<1>3. b \in Block /\ b.host = bs[i].host /\ b.len = bs[i].len
  BY <1>1, <1>2, FreedEffect
<1>4. /\ cs \in Seq(Block) /\ Len(cs) = Len(bs) /\ cs[i] = b
      /\ \A j \in 1 .. Len(bs) : j # i => cs[j] = bs[j]
  BY <1>1, <1>3
<1>5. Agree(cs, lv \ {m})
  <2>1. Replaced(bs, i, Freed(bs[i], m), cs)
    BY <1>4 DEF Replaced
  <2>2. Agree(bs, lv)
    BY <1>1
  <2> QED
    BY <2>1, <2>2, AgreeFree
<1>6. Taken(cs) = Taken(bs)
  BY <1>3, <1>4, TakenFrame
<1>7. \A j \in 1 .. Len(cs) : j > 1 /\ j # i => cs[j].bits # {}
  BY <1>4 DEF Sound
<1>8. CASE ~IsReleased(i, b)
  <2>1. \A j \in 1 .. Len(cs) : j > 1 => cs[j].bits # {}
    BY <1>1, <1>4, <1>7, <1>8 DEF IsReleased
  <2>2. Sound(cs, lv \ {m}, ow, al)
    BY <1>5, <1>6, <2>1 DEF Sound
  <2> QED
    BY <1>1, <1>4, <1>8, <2>2
<1>9. CASE IsReleased(i, b)
  <2>. PICK ds : ds = RemoveAt(bs, i)
    OBVIOUS
  <2>1. RemoveAt(cs, i) = ds
    BY <1>1, <1>4, RemoveOther
  <2>2. i \in 1 .. Len(cs) /\ cs[i].bits = {} /\ i # 1
    BY <1>4, <1>9 DEF IsReleased
  <2>3. /\ Agree(ds, lv \ {m}) /\ Taken(ds) = Taken(cs) \ BlockUnits(cs[i])
        /\ Len(ds) = Len(cs) - 1 /\ Len(cs) \in Nat
        /\ \A k \in 1 .. Len(ds) : k > 1 => ds[k].bits # {}
    <3>1. /\ Agree(RemoveAt(cs, i), lv \ {m})
          /\ Taken(RemoveAt(cs, i)) = Taken(cs) \ BlockUnits(cs[i])
          /\ Len(RemoveAt(cs, i)) = Len(cs) - 1 /\ Len(cs) \in Nat
      BY <1>5, <2>2, AgreeRemove, Zenon
    <3>2. \A k \in 1 .. Len(RemoveAt(cs, i)) : k > 1 => RemoveAt(cs, i)[k].bits # {}
      BY <1>5, <1>7, <2>2, AgreeRemove, Zenon
    <3> QED
      BY <2>1, <3>1, <3>2, Zenon
  <2>4. ds # << >>
    BY <2>2, <2>3
  <2>5. BlockUnits(b) \subseteq Taken(bs)
    <3>1. BlockUnits(b) = BlockUnits(bs[i])
      BY <1>3 DEF BlockUnits
    <3> QED
      BY <3>1 DEF Taken
  <2>6. Taken(ds) = Taken(bs) \ BlockUnits(b)
    BY <1>4, <1>6, <2>3
  <2>7. /\ ow = Taken(bs) \cup Lent(al)
        /\ \A a \in al : AlignedUnits(a) \cap Taken(bs) = {}
        /\ \A a, c \in al : a = c \/ AlignedUnits(a) \cap AlignedUnits(c) = {}
    BY DEF Sound
  <2>8. Lent(al) \cap Taken(bs) = {}
    BY <2>7 DEF Lent
  <2>9. ow \ BlockUnits(b) = Taken(ds) \cup Lent(al)
    BY <2>5, <2>6, <2>7, <2>8
  <2>10. \A a \in al : AlignedUnits(a) \cap Taken(ds) = {}
    BY <2>6, <2>7
  <2>11. Sound(ds, lv \ {m}, ow \ BlockUnits(b), al)
    BY <2>3, <2>7, <2>9, <2>10 DEF Sound
  <2> QED
    BY <1>1, <1>4, <1>9, <2>4, <2>11
<1> QED
  BY <1>8, <1>9

(* The pool gets its first block.                                          *)
LEMMA SoundFirst ==
  ASSUME NEW lv, NEW ow, NEW al, Sound(<< >>, lv, ow, al),
         NEW c \in Block, c.bits = {}, BlockUnits(c) \cap ow = {}
  PROVE  Sound(<<c>>, lv, ow \cup BlockUnits(c), al)
<1>. PICK cs : cs = <<c>>
  OBVIOUS
<1>1. cs \in Seq(Block) /\ Len(cs) = 1 /\ cs[1] = c
  OBVIOUS
<1>2. lv = {}
  <2>1. Marked(<< >>, lv)
    BY DEF Sound, Agree
  <2> QED
    BY <2>1 DEF Marked
<1>3. Agree(cs, lv)
  <2>1. \A i \in 1 .. Len(cs) : i = 1
    BY <1>1
  <2>2. Laid(cs)
    BY <2>1 DEF Laid
  <2>3. Held(cs, lv)
    BY <1>1, <2>1 DEF Held
  <2>4. Separate(lv) /\ Marked(cs, lv)
    BY <1>2 DEF Separate, Marked
  <2> QED
    BY <1>1, <1>2, <2>2, <2>3, <2>4 DEF Agree
<1>4. Taken(cs) = BlockUnits(c)
  <2>1. ASSUME NEW u \in Taken(cs) PROVE u \in BlockUnits(c)
    BY <1>1, <2>1 DEF Taken
  <2>2. ASSUME NEW u \in BlockUnits(c) PROVE u \in Taken(cs)
    BY <1>1, <2>2 DEF Taken
  <2> QED
    BY <2>1, <2>2
<1>5. Taken(<< >>) = {}
  BY DEF Taken
<1>6. ow = Lent(al)
  BY <1>5 DEF Sound
<1>7. \A a \in al : AlignedUnits(a) \cap Taken(cs) = {}
  BY <1>4, <1>6 DEF Lent
<1>8. \A i \in 1 .. Len(cs) : i > 1 => cs[i].bits # {}
  BY <1>1
<1> QED
  BY <1>3, <1>4, <1>6, <1>7, <1>8 DEF Sound

(* The pool goes away with its blocks and pieces.                          *)
LEMMA SoundDrop ==
  ASSUME NEW bs, NEW lv, NEW ow, NEW al, Sound(bs, lv, ow, al)
  PROVE  Sound(<< >>, {}, ow \ Taken(bs), al)
<1>1. Agree(<< >>, {})
  BY DEF Agree, Laid, Separate, Marked, Held
<1>2. Taken(<< >>) = {}
  BY DEF Taken
<1>3. ow \ Taken(bs) = Lent(al)
  BY DEF Sound, Lent
<1> QED
  BY <1>1, <1>2, <1>3 DEF Sound

(* Aligned pages are lent.                                                 *)
LEMMA SoundLend ==
  ASSUME NEW bs, NEW lv, NEW ow, NEW al, Sound(bs, lv, ow, al),
         NEW a, AlignedUnits(a) \cap ow = {}
  PROVE  Sound(bs, lv, ow \cup AlignedUnits(a), al \cup {a})
<1>1. Lent(al \cup {a}) = Lent(al) \cup AlignedUnits(a)
  BY DEF Lent
<1>2. \A c \in al : AlignedUnits(c) \subseteq ow
  BY DEF Sound, Lent
<1> QED
  BY <1>1, <1>2 DEF Sound

(* Aligned pages are given back.                                           *)
LEMMA SoundReturn ==
  ASSUME NEW bs, NEW lv, NEW ow, NEW al, Sound(bs, lv, ow, al), NEW a \in al
  PROVE  Sound(bs, lv, ow \ AlignedUnits(a), al \ {a})
<1>1. Lent(al \ {a}) = Lent(al) \ AlignedUnits(a)
  BY DEF Lent, Sound
<1>2. AlignedUnits(a) \cap Taken(bs) = {}
  BY DEF Sound
<1>3. ow \ AlignedUnits(a) = Taken(bs) \cup Lent(al \ {a})
  BY <1>1, <1>2 DEF Sound
<1> QED
  BY <1>3 DEF Sound

-----------------------------------------------------------------------------
(* Pages and units.                                                        *)

(* Division with a remainder.                                              *)
LEMMA Quotient ==
  ASSUME NEW x \in Nat, NEW y \in Nat \ {0}
  PROVE  LET q == x \div y IN q \in Nat /\ q * y <= x /\ x < q * y + y
<1>1. x = (y * (x \div y)) + (x % y) /\ x % y \in 0 .. y - 1 /\ x \div y \in Int
  OBVIOUS
<1>2. PICK q \in Int, r \in Nat : q = x \div y /\ x = y * q + r /\ r < y
  BY <1>1
<1>3. y * q = q * y
  OBVIOUS
<1>4. q \in Nat
  <2>1. q <= -1 => y * q <= -y
    OBVIOUS
  <2> QED
    BY <1>2, <2>1
<1>5. q * y \in Int
  OBVIOUS
<1>6. q * y <= x /\ x < q * y + y
  BY <1>2, <1>3, <1>5
<1> QED
  BY <1>2, <1>4, <1>6

(* A block that is made for n units has room for them.                     *)
LEMMA BlockIsLargeEnough ==
  ASSUME NEW n \in Nat \ {0}
  PROVE  /\ BlockPages(n) \in Nat \ {0}
         /\ BlockPages(n) * UnitsPerPage \in Nat /\ n <= BlockPages(n) * UnitsPerPage
<1>1. UnitsPerPage \in Nat \ {0} /\ DefaultPages \in Nat \ {0}
  BY MemAssumption
<1>2. CASE n > DefaultPages * UnitsPerPage
  <2>1. n + UnitsPerPage - 1 \in Nat
    BY <1>1
  <2>2. PICK q : q = (n + UnitsPerPage - 1) \div UnitsPerPage
    OBVIOUS
  <2>3. q \in Nat /\ n + UnitsPerPage - 1 < q * UnitsPerPage + UnitsPerPage
    BY <1>1, <2>1, <2>2, Quotient
  <2>4. BlockPages(n) = q + 1
    BY <1>2, <2>2 DEF BlockPages, PagesOf
  <2>5. (q + 1) * UnitsPerPage = q * UnitsPerPage + UnitsPerPage /\ q * UnitsPerPage \in Nat
    BY <1>1, <2>3
  <2>6. n <= q * UnitsPerPage + UnitsPerPage
    BY <1>1, <2>3, <2>5
  <2> QED
    BY <1>1, <2>3, <2>4, <2>5, <2>6
<1>3. CASE ~(n > DefaultPages * UnitsPerPage)
  BY <1>1, <1>3 DEF BlockPages
<1> QED
  BY <1>2, <1>3

(* A block that the platform gives is empty, and on units that are free.   *)
LEMMA NewBlockFacts ==
  ASSUME NEW pages \in Nat \ {0}, NEW b \in UsbHcAllocMemBlock(pages), blocks \in Seq(Block)
  PROVE  /\ b \in Block /\ b.len = pages * UnitsPerPage /\ b.bits = {}
         /\ BlockUnits(b) \cap owned = {} /\ ClearOf(b, blocks)
<1>1. UnitsPerPage \in Nat \ {0} /\ MemoryUnits \in Nat /\ DmaShifts \subseteq Nat
  BY MemAssumption
<1>2. pages * UnitsPerPage \in Nat
  BY <1>1
<1>3. PICK len \in Nat : len = pages * UnitsPerPage
  BY <1>2
<1>4. PICK u \in 0 .. MemoryUnits - len, shift \in DmaShifts :
        /\ b = [host |-> u, len |-> len, pci |-> u + shift, bits |-> {}]
        /\ UnitsFrom(u, len) \cap owned = {}
  BY <1>3 DEF UsbHcAllocMemBlock
<1>5. u \in Nat /\ u + shift \in Nat
  BY <1>1, <1>3, <1>4
<1>6. \A i \in DOMAIN blocks : BlocksApart(b, blocks[i])
  BY DEF UsbHcAllocMemBlock
<1>7. ClearOf(b, blocks)
  BY <1>6 DEF ClearOf
<1> QED
  BY <1>3, <1>4, <1>5, <1>7 DEF Block, BlockUnits

(* What is kept of the pages that were allocated are the aligned ones.     *)
LEMMA KeptPages ==
  ASSUME NEW page \in Nat, NEW n \in Nat \ {0}, NEW alignment \in Nat \ {0}
  PROVE  LET all == IF alignment > 1 THEN n + alignment ELSE n
             start == IF alignment > 1 THEN RoundUp(page, alignment) ELSE page
         IN  /\ start \in Nat
             /\ Kept(page, n, alignment) = PageUnits(start, n)
             /\ PageUnits(start, n) \subseteq PageUnits(page, all)
<1>. PICK all : all = IF alignment > 1 THEN n + alignment ELSE n
  OBVIOUS
<1>. PICK start : start = IF alignment > 1 THEN RoundUp(page, alignment) ELSE page
  OBVIOUS
<1>1. start \in Nat /\ all \in Nat /\ page <= start /\ start + n <= page + all
  <2>1. CASE alignment > 1
    <3>1. PICK q : q = (page + alignment - 1) \div alignment
      OBVIOUS
    <3>2. page + alignment - 1 \in Nat
      OBVIOUS
    <3>3. /\ q \in Nat /\ q * alignment <= page + alignment - 1
          /\ page + alignment - 1 < q * alignment + alignment
      BY <3>1, <3>2, Quotient
    <3>4. start = q * alignment /\ all = n + alignment
      BY <2>1, <3>1 DEF RoundUp
    <3>5. q * alignment \in Nat
      BY <3>3
    <3> QED
      BY <3>3, <3>4, <3>5
  <2>2. CASE ~(alignment > 1)
    BY <2>2
  <2> QED
    BY <2>1, <2>2
<1>2. PICK x \in Nat, y \in Nat : start = page + x /\ page + all = (start + n) + y
  <2>1. start - page \in Nat /\ (page + all) - (start + n) \in Nat
    BY <1>1
  <2>2. start = page + (start - page) /\ page + all = (start + n) + ((page + all) - (start + n))
    BY <1>1
  <2> QED
    BY <2>1, <2>2
<1>3. start - page = x /\ all - n - (start - page) = y
  BY <1>1, <1>2
<1>4. UnitsPerPage \in Nat \ {0}
  BY MemAssumption
<1>5. PICK P \in Nat, N \in Nat, X \in Nat, Y \in Nat :
        /\ P = page * UnitsPerPage /\ N = n * UnitsPerPage
        /\ X = x * UnitsPerPage /\ Y = y * UnitsPerPage
  <2>1. \A k \in Nat : k * UnitsPerPage \in Nat
    BY <1>4
  <2> QED
    BY <2>1
<1>6. /\ start * UnitsPerPage = P + X /\ (start + n) * UnitsPerPage = P + X + N
      /\ all * UnitsPerPage = X + N + Y
  <2>1. (page + x) * UnitsPerPage = page * UnitsPerPage + x * UnitsPerPage
    BY <1>4
  <2>2. ((page + x) + n) * UnitsPerPage = (page * UnitsPerPage + x * UnitsPerPage) + n * UnitsPerPage
    BY <1>4
  <2>3. ((x + n) + y) * UnitsPerPage = (x * UnitsPerPage + n * UnitsPerPage) + y * UnitsPerPage
    BY <1>4
  <2>4. all = (x + n) + y
    BY <1>1, <1>2
  <2>5. start * UnitsPerPage = P + X
    BY <1>2, <1>5, <2>1, Zenon
  <2>6. (start + n) * UnitsPerPage = P + X + N
    BY <1>2, <1>5, <2>2, Zenon
  <2>7. all * UnitsPerPage = X + N + Y
    BY <1>5, <2>3, <2>4, Zenon
  <2> QED
    BY <2>5, <2>6, <2>7
<1>7. /\ PageUnits(page, all) = P .. P + (X + N + Y) - 1
      /\ PageUnits(page, start - page) = P .. P + X - 1
      /\ PageUnits(start + n, all - n - (start - page)) = P + X + N .. (P + X + N) + Y - 1
      /\ PageUnits(start, n) = P + X .. (P + X) + N - 1
  BY <1>3, <1>5, <1>6 DEF PageUnits, UnitsFrom
<1>8. Kept(page, n, alignment) =
        (PageUnits(page, all) \ PageUnits(page, start - page))
          \ PageUnits(start + n, all - n - (start - page))
  BY DEF Kept
<1>9. \A u \in Int : /\ u \in P .. P + (X + N + Y) - 1 /\ u \notin P .. P + X - 1
                     /\ u \notin P + X + N .. (P + X + N) + Y - 1
                     <=> u \in P + X .. (P + X) + N - 1
  OBVIOUS
<1>10. \A u \in P + X .. (P + X) + N - 1 : u \in P .. P + (X + N + Y) - 1
  OBVIOUS
<1>11. P .. P + (X + N + Y) - 1 \subseteq Int /\ P + X .. (P + X) + N - 1 \subseteq Int
  OBVIOUS
<1>12. Kept(page, n, alignment) = PageUnits(start, n)
  <2>1. ASSUME NEW u \in Kept(page, n, alignment) PROVE u \in PageUnits(start, n)
    BY <1>7, <1>8, <1>9, <1>11, <2>1
  <2>2. ASSUME NEW u \in PageUnits(start, n) PROVE u \in Kept(page, n, alignment)
    BY <1>7, <1>8, <1>9, <1>11, <2>2
  <2> QED
    BY <2>1, <2>2
<1>13. PageUnits(start, n) \subseteq PageUnits(page, all)
  BY <1>7, <1>10
<1> QED
  BY <1>1, <1>12, <1>13

-----------------------------------------------------------------------------
(* The steps of the driver.                                                *)

(* What Inv says of the blocks.                                            *)
LEMMA InvBlocks ==
  ASSUME Inv
  PROVE  /\ blocks \in Seq(Block) /\ Len(blocks) \in Nat /\ DOMAIN blocks = 1 .. Len(blocks)
         /\ live \in SUBSET Piece /\ Laid(blocks) /\ Separate(live)
         /\ Marked(blocks, live) /\ Held(blocks, live)
<1>1. Agree(blocks, live)
  BY DEF Inv, Sound
<1> QED
  BY <1>1 DEF Agree

(* UsbHcInitMemPool keeps Inv.                                             *)
LEMMA InitMemPool ==
  ASSUME Inv, UsbHcInitMemPool
  PROVE  Inv'
<1>1. blocks = << >> /\ Sound(<< >>, live, owned, aligned)
  BY DEF Inv, UsbHcInitMemPool
<1>2. PICK b \in UsbHcAllocMemBlock(DefaultPages) :
        blocks' = <<b>> /\ owned' = owned \cup UnitsFrom(b.host, b.len)
  BY DEF UsbHcInitMemPool
<1>3. b \in Block /\ b.bits = {} /\ BlockUnits(b) \cap owned = {}
  <2>1. DefaultPages \in Nat \ {0} /\ blocks \in Seq(Block)
    BY <1>1, MemAssumption
  <2> QED
    BY <2>1, NewBlockFacts
<1>4. Sound(<<b>>, live, owned \cup BlockUnits(b), aligned)
  BY <1>1, <1>3, SoundFirst
<1>5. /\ blocks' = <<b>> /\ owned' = owned \cup BlockUnits(b)
      /\ pool' = TRUE /\ live' = live /\ aligned' = aligned
  BY <1>2 DEF BlockUnits, UsbHcInitMemPool
<1>6. Sound(blocks', live', owned', aligned')
  BY <1>4, <1>5
<1>7. <<b>> # << >>
  OBVIOUS
<1> QED
  BY <1>5, <1>6, <1>7 DEF Inv

(* UsbHcFreeMemPool keeps Inv.                                             *)
LEMMA FreeMemPool ==
  ASSUME Inv, UsbHcFreeMemPool
  PROVE  Inv'
<1>1. Taken(blocks) = UNION {UnitsFrom(b.host, b.len) : b \in Range(blocks)}
  <2>1. DOMAIN blocks = 1 .. Len(blocks)
    BY InvBlocks
  <2> QED
    BY <2>1 DEF Taken, BlockUnits, Range
<1>2. Sound(<< >>, {}, owned \ Taken(blocks), aligned)
  BY SoundDrop DEF Inv
<1>3. /\ blocks' = << >> /\ live' = {} /\ owned' = owned \ Taken(blocks)
      /\ pool' = FALSE /\ aligned' = aligned
  BY <1>1 DEF UsbHcFreeMemPool
<1>4. Sound(blocks', live', owned', aligned')
  BY <1>2, <1>3
<1> QED
  BY <1>3, <1>4 DEF Inv

(* An allocation from the pool keeps Inv; the piece lies apart from others. *)
LEMMA FromPool ==
  ASSUME Inv, NEW n \in Sizes, AllocateFromPool(n)
  PROVE  Inv' /\ \E p : live' = live \cup {p} /\ \A m \in live : Apart(p, m)
<1>1. n \in Nat \ {0}
  BY MemAssumption
<1>2. PICK i \in DOMAIN blocks :
        /\ Fits(blocks[i], n) # {}
        /\ blocks' = [blocks EXCEPT ![i] = WithPiece(@, n)]
        /\ live' = live \cup {NewPiece(blocks[i], n)}
  BY DEF AllocateFromPool, FirstWithRoom
<1>3. i \in 1 .. Len(blocks) /\ Len(blocks) \in Nat /\ blocks \in Seq(Block)
  BY InvBlocks
<1>4. /\ Sound([blocks EXCEPT ![i] = WithPiece(@, n)], live \cup {NewPiece(blocks[i], n)}, owned, aligned)
      /\ \A m \in live : Apart(NewPiece(blocks[i], n), m)
      /\ Len([blocks EXCEPT ![i] = WithPiece(@, n)]) = Len(blocks)
  <2>1. Sound(blocks, live, owned, aligned)
    BY DEF Inv
  <2> QED
    BY <1>1, <1>2, <1>3, <2>1, SoundAllocate
<1>5. pool = TRUE /\ pool' = pool /\ owned' = owned /\ aligned' = aligned
  BY DEF AllocateFromPool, Inv
<1>6. Sound(blocks', live', owned', aligned')
  BY <1>2, <1>4, <1>5
<1>7. blocks' # << >>
  <2>1. Len(blocks') = Len(blocks)
    BY <1>2, <1>4
  <2> QED
    BY <1>3, <2>1
<1>8. Inv'
  BY <1>5, <1>6, <1>7 DEF Inv
<1> QED
  BY <1>2, <1>4, <1>8

(* So does an allocation from a block that is new.                         *)
LEMMA FromNewBlock ==
  ASSUME Inv, NEW n \in Sizes, AllocateFromNewBlock(n)
  PROVE  Inv' /\ \E p : live' = live \cup {p} /\ \A m \in live : Apart(p, m)
<1>1. n \in Nat \ {0}
  BY MemAssumption
<1>2. PICK b \in UsbHcAllocMemBlock(BlockPages(n)) :
        /\ blocks' = InsertAt(blocks, 2, WithPiece(b, n))
        /\ live' = live \cup {NewPiece(b, n)}
        /\ owned' = owned \cup UnitsFrom(b.host, b.len)
  BY DEF AllocateFromNewBlock, UsbHcInsertMemBlockToPool
<1>3. /\ b \in Block /\ b.len = BlockPages(n) * UnitsPerPage /\ b.bits = {}
      /\ BlockUnits(b) \cap owned = {} /\ ClearOf(b, blocks)
  <2>1. BlockPages(n) \in Nat \ {0} /\ blocks \in Seq(Block)
    BY <1>1, BlockIsLargeEnough, InvBlocks
  <2> QED
    BY <2>1, NewBlockFacts
<1>4. Fits(b, n) # {}
  <2>1. b.len \in Nat /\ n <= b.len
    BY <1>1, <1>3, BlockIsLargeEnough
  <2>2. 0 \in 0 .. b.len - n
    BY <1>1, <2>1
  <2>3. 0 \in Fits(b, n)
    BY <1>3, <2>2 DEF Fits
  <2> QED
    BY <2>3
<1>5. pool = TRUE /\ pool' = pool /\ aligned' = aligned
  BY DEF AllocateFromNewBlock, Inv
<1>6. blocks # << >> /\ Sound(blocks, live, owned, aligned)
  BY <1>5 DEF Inv
<1>7. /\ Sound(InsertAt(blocks, 2, WithPiece(b, n)), live \cup {NewPiece(b, n)},
               owned \cup BlockUnits(b), aligned)
      /\ \A m \in live : Apart(NewPiece(b, n), m)
      /\ InsertAt(blocks, 2, WithPiece(b, n)) # << >>
  BY <1>1, <1>3, <1>4, <1>6, SoundExtend
<1>8. owned' = owned \cup BlockUnits(b)
  BY <1>2 DEF BlockUnits
<1>9. Sound(blocks', live', owned', aligned') /\ blocks' # << >>
  BY <1>2, <1>5, <1>7, <1>8
<1>10. Inv'
  BY <1>5, <1>9 DEF Inv
<1> QED
  BY <1>2, <1>7, <1>10

(* UsbHcFreeMem keeps Inv.                                                 *)
LEMMA FreeMem ==
  ASSUME Inv, NEW m \in live, UsbHcFreeMem(m)
  PROVE  Inv'
<1>1. PICK i \in DOMAIN blocks :
        /\ IsFirst(i, LAMBDA b : HostHolds(b, First(m), Trbs(m)))
        /\ LET b == Freed(blocks[i], m)
           IN  IF IsReleased(i, b)
               THEN /\ blocks' = RemoveAt(blocks, i)
                    /\ owned' = owned \ UnitsFrom(b.host, b.len)
               ELSE /\ blocks' = [blocks EXCEPT ![i] = b]
                    /\ owned' = owned
  BY DEF UsbHcFreeMem
<1>3. i \in 1 .. Len(blocks) /\ Len(blocks) \in Nat /\ blocks \in Seq(Block)
  BY InvBlocks
<1>2. Lies(m, blocks[i])
  <2>1. blocks[i] \in Block /\ m \in Piece
    BY <1>3, InvBlocks
  <2> QED
    BY <1>1, <2>1, HoldsPiece DEF IsFirst
<1>4. PICK b : b = Freed(blocks[i], m)
  OBVIOUS
<1>5. pool = TRUE /\ pool' = pool /\ aligned' = aligned /\ live' = live \ {m}
  BY DEF UsbHcFreeMem, Inv
<1>6. Sound(blocks, live, owned, aligned)
  BY DEF Inv
<1>7. /\ ~IsReleased(i, b) => Sound([blocks EXCEPT ![i] = b], live \ {m}, owned, aligned)
      /\ IsReleased(i, b) => /\ Sound(RemoveAt(blocks, i), live \ {m}, owned \ BlockUnits(b), aligned)
                             /\ RemoveAt(blocks, i) # << >>
      /\ Len([blocks EXCEPT ![i] = b]) = Len(blocks)
  <2>1. i \in 1 .. Len(blocks)
    BY <1>3
  <2>2. Len([blocks EXCEPT ![i] = b]) = Len(blocks)
    BY <1>3
  <2> QED
    BY <1>2, <1>4, <1>6, <2>1, <2>2, SoundFree, Zenon
<1>8. CASE IsReleased(i, b)
  <2>1. blocks' = RemoveAt(blocks, i) /\ owned' = owned \ BlockUnits(b)
    BY <1>1, <1>4, <1>8 DEF BlockUnits
  <2>2. Sound(blocks', live', owned', aligned') /\ blocks' # << >>
    BY <1>5, <1>7, <1>8, <2>1
  <2> QED
    BY <1>5, <2>2 DEF Inv
<1>9. CASE ~IsReleased(i, b)
  <2>1. blocks' = [blocks EXCEPT ![i] = b] /\ owned' = owned
    BY <1>1, <1>4, <1>9
  <2>2. Sound(blocks', live', owned', aligned') /\ Len(blocks') = Len(blocks)
    BY <1>5, <1>7, <1>9, <2>1
  <2>3. blocks' # << >>
    BY <1>3, <2>2
  <2> QED
    BY <1>5, <2>2, <2>3 DEF Inv
<1> QED
  BY <1>8, <1>9

(* UsbHcAllocateAlignedPages keeps Inv.                                    *)
LEMMA AllocateAlignedPages ==
  ASSUME Inv, NEW n \in 1 .. 2, NEW alignment \in Alignments, UsbHcAllocateAlignedPages(n, alignment)
  PROVE  Inv'
<1>1. n \in Nat \ {0} /\ alignment \in Nat \ {0}
  BY MemAssumption
<1>2. PICK page, all, start, a :
        /\ page \in Nat
        /\ all = IF alignment > 1 THEN n + alignment ELSE n
        /\ start = IF alignment > 1 THEN RoundUp(page, alignment) ELSE page
        /\ a = [page |-> start, pages |-> n, alignment |-> alignment]
        /\ PageUnits(page, all) \cap owned = {}
        /\ owned' = owned \cup Kept(page, n, alignment)
        /\ aligned' = aligned \cup {a}
  <2>1. PICK page \in 0 .. MemoryUnits \div UnitsPerPage :
          LET all == IF alignment > 1 THEN n + alignment ELSE n
              start == IF alignment > 1 THEN RoundUp(page, alignment) ELSE page
          IN  /\ PageUnits(page, all) \subseteq (0 .. MemoryUnits - 1) \ owned
              /\ owned' = owned \cup Kept(page, n, alignment)
              /\ aligned' = aligned \cup {[page |-> start, pages |-> n, alignment |-> alignment]}
    BY DEF UsbHcAllocateAlignedPages
  <2>2. page \in Nat
    <3>1. MemoryUnits \div UnitsPerPage \in Nat
      BY MemAssumption, Quotient
    <3> QED
      BY <3>1
  <2>3. PICK all : all = IF alignment > 1 THEN n + alignment ELSE n
    OBVIOUS
  <2>4. PICK start : start = IF alignment > 1 THEN RoundUp(page, alignment) ELSE page
    OBVIOUS
  <2>5. PageUnits(page, all) \cap owned = {}
    BY <2>1, <2>3
  <2> QED
    BY <2>1, <2>2, <2>3, <2>4, <2>5
<1>3. Kept(page, n, alignment) = AlignedUnits(a) /\ AlignedUnits(a) \cap owned = {}
  <2>1. Kept(page, n, alignment) = PageUnits(start, n) /\ PageUnits(start, n) \subseteq PageUnits(page, all)
    BY <1>1, <1>2, KeptPages
  <2>2. AlignedUnits(a) = PageUnits(start, n)
    BY <1>2 DEF AlignedUnits
  <2> QED
    BY <1>2, <2>1, <2>2
<1>4. Sound(blocks, live, owned \cup AlignedUnits(a), aligned \cup {a})
  <2>1. Sound(blocks, live, owned, aligned)
    BY DEF Inv
  <2> QED
    BY <1>3, <2>1, SoundLend
<1>5. pool' = pool /\ blocks' = blocks /\ live' = live
  BY DEF UsbHcAllocateAlignedPages
<1>6. Sound(blocks', live', owned', aligned')
  BY <1>2, <1>3, <1>4, <1>5
<1> QED
  BY <1>5, <1>6 DEF Inv

(* UsbHcFreeAlignedPages keeps Inv.                                        *)
LEMMA FreeAlignedPages ==
  ASSUME Inv, NEW a \in aligned, UsbHcFreeAlignedPages(a)
  PROVE  Inv'
<1>1. Sound(blocks, live, owned \ AlignedUnits(a), aligned \ {a})
  BY SoundReturn DEF Inv
<1>2. /\ owned' = owned \ AlignedUnits(a) /\ aligned' = aligned \ {a}
      /\ pool' = pool /\ blocks' = blocks /\ live' = live
  BY DEF UsbHcFreeAlignedPages, AlignedUnits
<1>3. Sound(blocks', live', owned', aligned')
  BY <1>1, <1>2
<1> QED
  BY <1>2, <1>3 DEF Inv

-----------------------------------------------------------------------------
(* The invariant.                                                          *)

(* The driver starts without memory.                                       *)
LEMMA InitInv ==
  ASSUME Init
  PROVE  Inv
<1>1. pool = FALSE /\ blocks = << >> /\ owned = {} /\ live = {} /\ aligned = {}
  BY DEF Init
<1>2. Agree(<< >>, {})
  BY DEF Agree, Laid, Separate, Marked, Held
<1>3. Taken(<< >>) = {} /\ Lent({}) = {}
  BY DEF Taken, Lent
<1>4. Sound(<< >>, {}, {}, {})
  BY <1>2, <1>3 DEF Sound
<1> QED
  BY <1>1, <1>4 DEF Inv

(* Every step keeps Inv.                                                   *)
LEMMA NextInv ==
  ASSUME Inv, [Next]_vars
  PROVE  Inv'
<1>1. CASE UsbHcInitMemPool
  BY <1>1, InitMemPool
<1>2. CASE UsbHcFreeMemPool
  BY <1>2, FreeMemPool
<1>3. ASSUME NEW n \in Sizes, AllocateFromPool(n) \/ AllocateFromNewBlock(n) PROVE Inv'
  BY <1>3, FromPool, FromNewBlock
<1>4. ASSUME NEW m \in live, UsbHcFreeMem(m) PROVE Inv'
  BY <1>4, FreeMem
<1>5. ASSUME NEW n \in 1 .. 2, NEW alignment \in Alignments, UsbHcAllocateAlignedPages(n, alignment)
      PROVE  Inv'
  BY <1>5, AllocateAlignedPages
<1>6. ASSUME NEW a \in aligned, UsbHcFreeAlignedPages(a) PROVE Inv'
  BY <1>6, FreeAlignedPages
<1>7. CASE UNCHANGED vars
  <2>1. pool' = pool /\ blocks' = blocks /\ live' = live /\ owned' = owned /\ aligned' = aligned
    BY <1>7 DEF vars
  <2> QED
    BY <2>1 DEF Inv
<1> QED
  BY <1>1, <1>2, <1>3, <1>4, <1>5, <1>6, <1>7 DEF Next

(* Inv holds always.                                                       *)
LEMMA InvHolds == Spec => []Inv
<1>1. Init => Inv
  BY InitInv
<1>2. Inv /\ [Next]_vars => Inv'
  BY NextInv
<1> QED
  BY <1>1, <1>2, PTL DEF Spec

(* Pieces never overlap, blocks and bits agree, only the first block may   *)
(* be empty, and what the driver owns is what blocks and aligned pages     *)
(* take: UsbHcAllocateMem and UsbHcFreeMem hand out nothing twice and lose *)
(* nothing.                                                                *)
THEOREM NothingHandedOutTwice == Spec => []MemInvariant
<1>1. Inv => MemInvariant
  <2> SUFFICES ASSUME Inv PROVE MemInvariant
    OBVIOUS
  <2>1. /\ blocks \in Seq(Block) /\ Len(blocks) \in Nat /\ DOMAIN blocks = 1 .. Len(blocks)
        /\ live \in SUBSET Piece /\ Laid(blocks) /\ Separate(live)
        /\ Marked(blocks, live) /\ Held(blocks, live)
    BY InvBlocks
  <2>2. TypeOK
    BY <2>1 DEF TypeOK, Inv
  <2>3. AllBlocksApart
    BY <2>1 DEF AllBlocksApart, Laid
  <2>4. PiecesApart
    BY <2>1 DEF PiecesApart, Separate
  <2>5. PiecesMarked
    <3> SUFFICES ASSUME NEW m \in live
                 PROVE  \E i \in DOMAIN blocks :
                          /\ HostHolds(blocks[i], First(m), Trbs(m))
                          /\ UnitsFrom(m.addr - blocks[i].host, m.units) \subseteq blocks[i].bits
      BY DEF PiecesMarked
    <3>1. PICK i \in 1 .. Len(blocks) : Lies(m, blocks[i]) /\ Place(m, blocks[i]) \subseteq blocks[i].bits
      BY <2>1 DEF Marked
    <3>2. blocks[i] \in Block /\ m \in Piece
      BY <2>1
    <3> QED
      BY <2>1, <3>1, <3>2, HoldsPiece DEF Place
  <2>6. BitsHeld
    BY <2>1 DEF BitsHeld, Held
  <2>7. OnlyHeadEmpty
    BY <2>1 DEF OnlyHeadEmpty, Inv, Sound
  <2>8. PlatformBalanced
    <3>1. Taken(blocks) = UNION {UnitsFrom(b.host, b.len) : b \in Range(blocks)}
      BY <2>1 DEF Taken, BlockUnits, Range
    <3>2. Lent(aligned) = UNION {PageUnits(a.page, a.pages) : a \in aligned}
      BY DEF Lent, AlignedUnits
    <3> QED
      BY <3>1, <3>2 DEF PlatformBalanced, Inv, Sound
  <2> QED
    BY <2>2, <2>3, <2>4, <2>5, <2>6, <2>7, <2>8 DEF MemInvariant
<1> QED
  BY <1>1, InvHolds, PTL

-----------------------------------------------------------------------------
(* Addresses.                                                              *)

(* An address is in one block only, on either side.                        *)
LEMMA OneHolder ==
  ASSUME NEW bs \in Seq(Block), Laid(bs), NEW addr \in Nat, NEW size \in Nat \ {0},
         NEW i \in 1 .. Len(bs), NEW j \in 1 .. Len(bs),
         \/ HostHolds(bs[i], addr, size) /\ HostHolds(bs[j], addr, size)
         \/ PciHolds(bs[i], addr, size) /\ PciHolds(bs[j], addr, size)
  PROVE  i = j
<1>1. /\ bs[i].host \in Nat /\ bs[i].pci \in Nat /\ bs[i].len \in Nat
      /\ bs[j].host \in Nat /\ bs[j].pci \in Nat /\ bs[j].len \in Nat
  <2>1. bs[i] \in Block /\ bs[j] \in Block
    OBVIOUS
  <2> QED
    BY <2>1 DEF Block
<1>2. USBHC_MEM_ROUND(size) \in Nat \ {0}
  BY Rounded
<1>3. ~BlocksApart(bs[i], bs[j])
  <2>1. \A g, k, h, l, a, r \in Nat :
          /\ r # 0 /\ g * 4 <= a /\ a + r <= (g + k) * 4 /\ h * 4 <= a /\ a + r <= (h + l) * 4
          => ~(g + k <= h) /\ ~(h + l <= g)
    OBVIOUS
  <2> QED
    BY <1>1, <1>2, <2>1 DEF HostHolds, PciHolds, Holds, BlocksApart, TrbsPerUnit
<1> QED
  BY <1>3 DEF Laid

(* An address that a block holds has one address for the controller, that  *)
(* keeps its distance from the start of the block and comes back.          *)
LEMMA Translated ==
  ASSUME Inv, NEW addr \in Nat, NEW size \in Nat \ {0}, NEW i \in 1 .. Len(blocks),
         HostHolds(blocks[i], addr, size)
  PROVE  /\ UsbHcGetPciAddrForHostAddr(addr, size) = {PciAddr(addr, i)}
         /\ UsbHcGetHostAddrForPciAddr(PciAddr(addr, i), size) = {addr}
<1>1. /\ blocks \in Seq(Block) /\ Len(blocks) \in Nat /\ DOMAIN blocks = 1 .. Len(blocks)
      /\ Laid(blocks)
  BY InvBlocks
<1>2. PICK h \in Nat, p \in Nat, l \in Nat, r \in Nat :
        /\ blocks[i].host = h /\ blocks[i].pci = p /\ blocks[i].len = l
        /\ USBHC_MEM_ROUND(size) = r
  <2>1. blocks[i] \in Block /\ USBHC_MEM_ROUND(size) \in Nat
    BY <1>1, Rounded
  <2> QED
    BY <2>1 DEF Block
<1>3. h * 4 <= addr /\ addr + r <= (h + l) * 4
  BY <1>2 DEF HostHolds, Holds, TrbsPerUnit
<1>4. PICK pci \in Nat : /\ PciAddr(addr, i) = pci /\ pci + h * 4 = p * 4 + addr
                        /\ p * 4 <= pci /\ pci + r <= (p + l) * 4
  <2>1. PICK pci \in Nat : /\ p * 4 + (addr - h * 4) = pci /\ pci + h * 4 = p * 4 + addr
                          /\ p * 4 <= pci /\ pci + r <= (p + l) * 4
    BY <1>3
  <2>2. PciAddr(addr, i) = pci
    BY <1>2, <2>1 DEF PciAddr, TrbsPerUnit
  <2> QED
    BY <2>1, <2>2
<1>5. PciHolds(blocks[i], pci, size) /\ HostAddr(pci, i) = addr
  <2>1. h * 4 + (pci - p * 4) = addr
    BY <1>4
  <2> QED
    BY <1>2, <1>4, <2>1 DEF PciHolds, Holds, HostAddr, TrbsPerUnit
<1>6. \A j \in 1 .. i - 1 : j \in 1 .. Len(blocks) /\ j # i
  BY <1>1
<1>7. HostBlock(addr, size) = {i}
  <2>1. \A j \in 1 .. Len(blocks) : HostHolds(blocks[j], addr, size) => j = i
    BY <1>1, OneHolder
  <2> QED
    BY <1>1, <1>6, <2>1 DEF HostBlock, IsFirst
<1>8. PciBlock(pci, size) = {i}
  <2>1. \A j \in 1 .. Len(blocks) : PciHolds(blocks[j], pci, size) => j = i
    BY <1>1, <1>5, OneHolder
  <2> QED
    BY <1>1, <1>5, <1>6, <2>1 DEF PciBlock, IsFirst
<1> QED
  BY <1>4, <1>5, <1>7, <1>8 DEF UsbHcGetPciAddrForHostAddr, UsbHcGetHostAddrForPciAddr

(* Where a held piece lies, and where the controller sees it.              *)
LEMMA PieceTranslated ==
  ASSUME Inv, NEW m \in live, NEW i \in 1 .. Len(blocks), Lies(m, blocks[i])
  PROVE  /\ First(m) \in Nat /\ Trbs(m) \in Nat \ {0}
         /\ UsbHcGetPciAddrForHostAddr(First(m), Trbs(m)) = {PciAddr(First(m), i)}
         /\ UsbHcGetHostAddrForPciAddr(PciAddr(First(m), i), Trbs(m)) = {First(m)}
<1>1. blocks[i] \in Block /\ m \in Piece
  BY InvBlocks
<1>2. First(m) \in Nat /\ Trbs(m) \in Nat \ {0}
  BY <1>1 DEF Piece, First, Trbs, TrbsPerUnit
<1>3. HostHolds(blocks[i], First(m), Trbs(m))
  BY <1>1, HoldsPiece
<1> QED
  BY <1>2, <1>3, Translated

(* The last TRBs of a block are in no block, on either side.               *)
LEMMA EndIsOutside ==
  ASSUME Inv, NEW i \in 1 .. Len(blocks), NEW d \in 1 .. TrbsPerUnit - 1
  PROVE  /\ UsbHcGetPciAddrForHostAddr((blocks[i].host + blocks[i].len) * TrbsPerUnit - d, 1) = {}
         /\ UsbHcGetHostAddrForPciAddr((blocks[i].pci + blocks[i].len) * TrbsPerUnit - d, 1) = {}
<1>1. blocks \in Seq(Block) /\ DOMAIN blocks = 1 .. Len(blocks) /\ Laid(blocks)
  BY InvBlocks
<1>2. d \in Nat /\ 1 <= d /\ d <= 3
  BY DEF TrbsPerUnit
<1>3. ASSUME NEW j \in 1 .. Len(blocks)
      PROVE  /\ ~HostHolds(blocks[j], (blocks[i].host + blocks[i].len) * 4 - d, 1)
             /\ ~PciHolds(blocks[j], (blocks[i].pci + blocks[i].len) * 4 - d, 1)
  <2>1. PICK h \in Nat, p \in Nat, l \in Nat, g \in Nat, q \in Nat, k \in Nat :
          /\ blocks[i].host = h /\ blocks[i].pci = p /\ blocks[i].len = l
          /\ blocks[j].host = g /\ blocks[j].pci = q /\ blocks[j].len = k
    <3>1. blocks[i] \in Block /\ blocks[j] \in Block
      BY <1>1
    <3> QED
      BY <3>1 DEF Block
  <2>2. \/ g = h /\ q = p /\ k = l
        \/ (h + l <= g \/ g + k <= h) /\ (p + l <= q \/ q + k <= p)
    <3>1. CASE i = j
      BY <2>1, <3>1
    <3>2. CASE i # j
      <4>1. BlocksApart(blocks[i], blocks[j])
        BY <1>1, <3>2 DEF Laid
      <4> QED
        BY <2>1, <4>1 DEF BlocksApart
    <3> QED
      BY <3>1, <3>2
  <2>3. ~(g * 4 <= (h + l) * 4 - d /\ (h + l) * 4 - d + 4 <= (g + k) * 4)
    BY <1>2, <2>2
  <2>4. ~(q * 4 <= (p + l) * 4 - d /\ (p + l) * 4 - d + 4 <= (q + k) * 4)
    BY <1>2, <2>2
  <2> QED
    BY <2>1, <2>3, <2>4, Rounded DEF HostHolds, PciHolds, Holds, TrbsPerUnit
<1> QED
  BY <1>1, <1>3 DEF UsbHcGetPciAddrForHostAddr, UsbHcGetHostAddrForPciAddr, HostBlock, PciBlock,
                    IsFirst, TrbsPerUnit

(* UsbHcGetPciAddrForHostAddr and UsbHcGetHostAddrForPciAddr undo each     *)
(* other for a piece and for each TRB in it but the last three of a block, *)
(* and the addresses that the controller sees are apart.                   *)
THEOREM AddressesComeBack == Spec => []AddressesTranslate
<1>1. Inv => AddressesTranslate
  <2> SUFFICES ASSUME Inv, NEW m \in live
               PROVE
    /\ UsbHcGetPciAddrForHostAddr(First(m), Trbs(m)) # {}
    /\ \A pci \in UsbHcGetPciAddrForHostAddr(First(m), Trbs(m)) :
         /\ UsbHcGetHostAddrForPciAddr(pci, Trbs(m)) = {First(m)}
         /\ \A o \in 0 .. Trbs(m) - 1 :
              \/ /\ EndsBlock(First(m) + o)
                 /\ UsbHcGetPciAddrForHostAddr(First(m) + o, 1) = {}
                 /\ UsbHcGetHostAddrForPciAddr(pci + o, 1) = {}
              \/ /\ ~EndsBlock(First(m) + o)
                 /\ UsbHcGetPciAddrForHostAddr(First(m) + o, 1) = {pci + o}
                 /\ UsbHcGetHostAddrForPciAddr(pci + o, 1) = {First(m) + o}
         /\ \A n \in live \ {m} :
              \A other \in UsbHcGetPciAddrForHostAddr(First(n), Trbs(n)) :
                pci + Trbs(m) <= other \/ other + Trbs(n) <= pci
    BY DEF AddressesTranslate
  <2>1. /\ blocks \in Seq(Block) /\ DOMAIN blocks = 1 .. Len(blocks) /\ live \in SUBSET Piece
        /\ Laid(blocks) /\ Separate(live) /\ Marked(blocks, live)
    BY InvBlocks
  <2>2. ASSUME NEW n \in live
        PROVE  \E j \in 1 .. Len(blocks), h, p, l, x, u \in Nat :
                 /\ Lies(n, blocks[j]) /\ n.addr = x /\ n.units = u /\ First(n) = x * 4 /\ Trbs(n) = u * 4
                 /\ blocks[j].host = h /\ blocks[j].pci = p /\ blocks[j].len = l
                 /\ h <= x /\ x + u <= h + l /\ PciAddr(First(n), j) = p * 4 + (x * 4 - h * 4)
    <3>1. PICK j \in 1 .. Len(blocks) : Lies(n, blocks[j])
      BY <2>1 DEF Marked
    <3>2. blocks[j] \in Block /\ n \in Piece
      BY <2>1
    <3>3. PICK h \in Nat, p \in Nat, l \in Nat, x \in Nat, u \in Nat :
            blocks[j].host = h /\ blocks[j].pci = p /\ blocks[j].len = l /\ n.addr = x /\ n.units = u
      BY <3>2 DEF Block, Piece
    <3>4. h <= x /\ x + u <= h + l
      BY <3>1, <3>3 DEF Lies
    <3>5. First(n) = x * 4 /\ Trbs(n) = u * 4
      BY <3>3 DEF First, Trbs, TrbsPerUnit
    <3>6. PciAddr(First(n), j) = p * 4 + (x * 4 - h * 4)
      BY <3>3, <3>5 DEF PciAddr, TrbsPerUnit
    <3> QED
      BY <3>1, <3>3, <3>4, <3>5, <3>6
  <2>3. PICK i \in 1 .. Len(blocks), h \in Nat, p \in Nat, l \in Nat, x \in Nat, u \in Nat :
          /\ Lies(m, blocks[i]) /\ m.addr = x /\ m.units = u /\ First(m) = x * 4 /\ Trbs(m) = u * 4
          /\ blocks[i].host = h /\ blocks[i].pci = p /\ blocks[i].len = l
          /\ h <= x /\ x + u <= h + l /\ PciAddr(First(m), i) = p * 4 + (x * 4 - h * 4)
    BY <2>2
  <2>4. PICK pci \in Nat : /\ pci = p * 4 + (x * 4 - h * 4) /\ pci = (p + (x - h)) * 4
                          /\ PciAddr(First(m), i) = pci
    <3>1. \A y \in Int : y = p * 4 + (x * 4 - h * 4) => y \in Nat /\ y = (p + (x - h)) * 4
      BY <2>3
    <3> QED
      BY <2>3, <3>1
  <2>5. /\ UsbHcGetPciAddrForHostAddr(First(m), Trbs(m)) = {pci}
        /\ UsbHcGetHostAddrForPciAddr(pci, Trbs(m)) = {First(m)}
    BY <2>3, <2>4, PieceTranslated
  <2>6. ASSUME NEW o \in 0 .. Trbs(m) - 1, ~EndsBlock(First(m) + o)
        PROVE  /\ UsbHcGetPciAddrForHostAddr(First(m) + o, 1) = {pci + o}
               /\ UsbHcGetHostAddrForPciAddr(pci + o, 1) = {First(m) + o}
    <3>1. PICK d \in Nat : d = o /\ d <= u * 4 - 1
      BY <2>3
    <3>2. PICK a \in Nat : a = First(m) + o /\ a = x * 4 + d
      BY <2>3, <3>1
    <3>3. a \notin (h + l) * 4 - 4 + 1 .. (h + l) * 4 - 1
      BY <2>1, <2>3, <2>6, <3>2 DEF EndsBlock, TrbsPerUnit
    <3>4. h * 4 <= a /\ a + 4 <= (h + l) * 4
      <4>1. \A b, k, y, v, e, c \in Nat :
              /\ b <= y /\ y + v <= b + k /\ e <= v * 4 - 1 /\ c = y * 4 + e
              /\ c \notin (b + k) * 4 - 4 + 1 .. (b + k) * 4 - 1
              => b * 4 <= c /\ c + 4 <= (b + k) * 4
        OBVIOUS
      <4> QED
        BY <2>3, <3>1, <3>2, <3>3, <4>1
    <3>5. HostHolds(blocks[i], a, 1)
      BY <2>3, <3>4, Rounded DEF HostHolds, Holds, TrbsPerUnit
    <3>6. PciAddr(a, i) = pci + o
      <4>1. a = x * 4 + d /\ pci = p * 4 + (x * 4 - h * 4)
        BY <2>4, <3>2
      <4>2. p * 4 + (a - h * 4) = pci + d
        BY <4>1
      <4> QED
        BY <2>3, <3>1, <4>2 DEF PciAddr, TrbsPerUnit
    <3> QED
      BY <3>2, <3>5, <3>6, Translated
  <2>7. ASSUME NEW o \in 0 .. Trbs(m) - 1, EndsBlock(First(m) + o)
        PROVE  /\ UsbHcGetPciAddrForHostAddr(First(m) + o, 1) = {}
               /\ UsbHcGetHostAddrForPciAddr(pci + o, 1) = {}
    <3>1. PICK c \in Nat : c = o /\ c <= u * 4 - 1
      BY <2>3
    <3>2. PICK a \in Nat : a = First(m) + o /\ a = x * 4 + c
      BY <2>3, <3>1
    <3>3. PICK j \in 1 .. Len(blocks), g \in Nat, k \in Nat, d \in 1 .. 3 :
            /\ blocks[j].host = g /\ blocks[j].len = k
            /\ a = (g + k) * 4 - d
      <4>1. PICK j \in 1 .. Len(blocks) :
              a \in (blocks[j].host + blocks[j].len) * 4 - 4 + 1 .. (blocks[j].host + blocks[j].len) * 4 - 1
        BY <2>1, <2>7, <3>2 DEF EndsBlock, TrbsPerUnit
      <4>2. blocks[j] \in Block
        BY <2>1
      <4>3. PICK g \in Nat, k \in Nat : blocks[j].host = g /\ blocks[j].len = k
        BY <4>2 DEF Block
      <4>4. a \in (g + k) * 4 - 4 + 1 .. (g + k) * 4 - 1
        BY <4>1, <4>3
      <4>5. (g + k) * 4 - a \in 1 .. 3 /\ a = (g + k) * 4 - ((g + k) * 4 - a)
        BY <4>4
      <4> QED
        BY <4>3, <4>5
    <3>4. g + k = h + l
      <4>1. CASE j = i
        BY <2>3, <3>3, <4>1
      <4>2. CASE j # i
        <5>1. g + k <= h \/ h + l <= g
          <6>1. BlocksApart(blocks[j], blocks[i])
            BY <2>1, <4>2 DEF Laid
          <6> QED
            BY <2>3, <3>3, <6>1 DEF BlocksApart
        <5>2. h * 4 <= a /\ a <= (h + l) * 4 - 1
          <6>1. h <= x /\ x + u <= h + l
            BY <2>3
          <6>2. c <= u * 4 - 1 /\ a = x * 4 + c
            BY <3>1, <3>2
          <6> QED
            BY <6>1, <6>2
        <5> QED
          BY <3>3, <5>1, <5>2
      <4> QED
        BY <4>1, <4>2
    <3>5. a = (h + l) * 4 - d /\ pci + o = (p + l) * 4 - d
      <4>1. a = (h + l) * 4 - d
        BY <3>3, <3>4
      <4>2. pci + c = (p + l) * 4 - d
        BY <2>3, <2>4, <3>1, <3>2, <4>1
      <4> QED
        BY <3>1, <4>1, <4>2
    <3>6. d \in 1 .. TrbsPerUnit - 1
      BY <3>3 DEF TrbsPerUnit
    <3>7. /\ UsbHcGetPciAddrForHostAddr((blocks[i].host + blocks[i].len) * TrbsPerUnit - d, 1) = {}
          /\ UsbHcGetHostAddrForPciAddr((blocks[i].pci + blocks[i].len) * TrbsPerUnit - d, 1) = {}
      BY <3>6, EndIsOutside
    <3>8. /\ (blocks[i].host + blocks[i].len) * TrbsPerUnit - d = First(m) + o
          /\ (blocks[i].pci + blocks[i].len) * TrbsPerUnit - d = pci + o
      BY <2>3, <3>2, <3>5 DEF TrbsPerUnit
    <3> QED
      BY <3>7, <3>8
  <2>8. ASSUME NEW n \in live \ {m}, NEW other \in UsbHcGetPciAddrForHostAddr(First(n), Trbs(n))
        PROVE  pci + Trbs(m) <= other \/ other + Trbs(n) <= pci
    <3>1. PICK j \in 1 .. Len(blocks), g \in Nat, q \in Nat, k \in Nat, y \in Nat, v \in Nat :
            /\ Lies(n, blocks[j]) /\ n.addr = y /\ n.units = v /\ First(n) = y * 4 /\ Trbs(n) = v * 4
            /\ blocks[j].host = g /\ blocks[j].pci = q /\ blocks[j].len = k
            /\ g <= y /\ y + v <= g + k /\ PciAddr(First(n), j) = q * 4 + (y * 4 - g * 4)
      BY <2>2
    <3>2. other = q * 4 + (y * 4 - g * 4)
      BY <2>8, <3>1, PieceTranslated
    <3>3. CASE j = i
      <4>1. x + u <= y \/ y + v <= x
        BY <2>1, <2>3, <2>8, <3>1 DEF Separate, Apart
      <4>2. g = h /\ q = p
        BY <2>3, <3>1, <3>3
      <4>3. pci + u * 4 <= q * 4 + (y * 4 - g * 4) \/ q * 4 + (y * 4 - g * 4) + v * 4 <= pci
        BY <2>4, <4>1, <4>2
      <4> QED
        BY <2>3, <3>1, <3>2, <4>3
    <3>4. CASE j # i
      <4>1. p + l <= q \/ q + k <= p
        <5>1. BlocksApart(blocks[i], blocks[j])
          BY <2>1, <3>4 DEF Laid
        <5> QED
          BY <2>3, <3>1, <5>1 DEF BlocksApart
      <4>2. pci + u * 4 <= q * 4 + (y * 4 - g * 4) \/ q * 4 + (y * 4 - g * 4) + v * 4 <= pci
        <5>1. h <= x /\ x + u <= h + l
          BY <2>3
        <5>2. g <= y /\ y + v <= g + k
          BY <3>1
        <5>3. pci = p * 4 + (x * 4 - h * 4)
          BY <2>4
        <5> QED
          BY <4>1, <5>1, <5>2, <5>3
      <4> QED
        BY <2>3, <3>1, <3>2, <4>2
    <3> QED
      BY <3>3, <3>4
  <2> QED
    BY <2>5, <2>6, <2>7, <2>8
<1> QED
  BY <1>1, InvHolds, PTL

-----------------------------------------------------------------------------
(* Refinement.                                                             *)

(* The pool implements DisjointMemory: an allocation is an Acquire, a free *)
(* a Release, UsbHcFreeMemPool a ReleaseAll, and all else a stutter.       *)
THEOREM PoolImplementsMemory == Spec => ImplementsMemory
<1>1. Init => Memory!Init
  BY DEF Init, Memory!Init
<1>2. Inv /\ [Next]_vars => [Memory!Next]_live
  <2> SUFFICES ASSUME Inv, [Next]_vars PROVE [Memory!Next]_live
    OBVIOUS
  <2>1. CASE UsbHcInitMemPool
    BY <2>1 DEF UsbHcInitMemPool
  <2>2. CASE UsbHcFreeMemPool
    BY <2>2 DEF UsbHcFreeMemPool, Memory!Next, Memory!ReleaseAll
  <2>3. ASSUME NEW n \in Sizes, AllocateFromPool(n) \/ AllocateFromNewBlock(n)
        PROVE  Memory!Next
    <3>1. PICK p : live' = live \cup {p} /\ \A m \in live : Apart(p, m)
      BY <2>3, FromPool, FromNewBlock
    <3>2. Memory!Acquire(p)
      BY <3>1 DEF Memory!Acquire, Memory!Apart, Apart
    <3>3. p \in live'
      BY <3>1
    <3> QED
      BY <3>2, <3>3 DEF Memory!Next
  <2>4. ASSUME NEW m \in live, UsbHcFreeMem(m) PROVE Memory!Next
    <3>1. Memory!Release(m)
      BY <2>4 DEF UsbHcFreeMem, Memory!Release
    <3> QED
      BY <3>1 DEF Memory!Next
  <2>5. ASSUME NEW n \in 1 .. 2, NEW alignment \in Alignments, UsbHcAllocateAlignedPages(n, alignment)
        PROVE  live' = live
    BY <2>5 DEF UsbHcAllocateAlignedPages
  <2>6. ASSUME NEW a \in aligned, UsbHcFreeAlignedPages(a) PROVE live' = live
    BY <2>6 DEF UsbHcFreeAlignedPages
  <2>7. CASE UNCHANGED vars
    BY <2>7 DEF vars
  <2> QED
    BY <2>1, <2>2, <2>3, <2>4, <2>5, <2>6, <2>7 DEF Next
<1> QED
  BY <1>1, <1>2, InvHolds, PTL DEF Spec, ImplementsMemory, Memory!Spec
=============================================================================
