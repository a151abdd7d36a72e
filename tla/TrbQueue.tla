------------------------------ MODULE TrbQueue ------------------------------
(***************************************************************************)
(* What every TRB ring of the XHCI driver promises, whichever side writes  *)
(* it: the reader takes each TRB once, complete, in the order it was put,  *)
(* and the only TRBs it never takes are those of a ring that is dropped.   *)
(* The rings themselves (cycle bits, Link TRB, wrap) are in TransferRing   *)
(* and EventRing, which are shown to implement this specification.         *)
(***************************************************************************)
EXTENDS Sequences

CONSTANTS
  Payload,   \* what a TRB can carry
  None       \* nothing taken yet

VARIABLES
  queue,     \* the TRBs put and neither taken nor dropped
  last       \* the TRB taken last

queueVars == <<queue, last>>

Init ==
  /\ queue = << >>
  /\ last = None

Put(d) ==
  /\ queue' = Append(queue, d)
  /\ UNCHANGED last

Take ==
  /\ queue # << >>
  /\ last' = Head(queue)
  /\ queue' = Tail(queue)

Drop ==
  /\ queue' = << >>
  /\ UNCHANGED last

Next ==
  \/ \E d \in Payload : Put(d)
  \/ Take
  \/ Drop

Spec == Init /\ [][Next]_queueVars
=============================================================================
