-------------------------- MODULE DisjointMemory --------------------------
(***************************************************************************)
(* What a memory pool promises: every piece it hands out is disjoint from  *)
(* every piece that is still held.                                         *)
(***************************************************************************)
EXTENDS Naturals

VARIABLE held      \* records with an address and a length in units

Apart(m, n) == m.addr + m.units <= n.addr \/ n.addr + n.units <= m.addr

Init == held = {}

Acquire(m) ==
  /\ \A n \in held : Apart(m, n)
  /\ held' = held \cup {m}

Release(m) == m \in held /\ held' = held \ {m}

(* The pool goes away with all that is in it.                              *)
ReleaseAll == held' = {}

Next ==
  \/ ReleaseAll
  \/ \E m \in held' : Acquire(m)
  \/ \E m \in held : Release(m)

Spec == Init /\ [][Next]_held
=============================================================================
