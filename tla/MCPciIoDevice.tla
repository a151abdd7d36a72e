--------------------------- MODULE MCPciIoDevice ---------------------------
(* Machines for PciIoDevice: shapes of a physical tree, bus ranges the     *)
(* firmware may have given, links below their greatest speed.              *)
EXTENDS PciIoDevice

LastBus == 6

(* The devices of a shape have two functions at most; those in second are  *)
(* function 1, those in multi have it in their header. The port type goes  *)
(* by depth.                                                               *)
MakeFunctions(up, roots, hidden, bridges, number, second, multi, ranges, fast, search) ==
  LET ids == DOMAIN up
      depth[d \in ids] == IF up[d] = 0 THEN 0 ELSE 1 + depth[up[d]]
      seg[d \in ids] == IF up[d] = 0 THEN d ELSE seg[up[d]]
  IN  [ids |-> ids, roots |-> roots, handles |-> ids \ hidden, bridges |-> bridges, up |-> up,
       segment |-> [d \in ids |-> seg[d]], multi |-> multi,
       number |-> [d \in ids |-> 2 * number[d] + IF d \in second THEN 1 ELSE 0],
       regs |-> [d \in ids |-> IF d \in DOMAIN ranges THEN ranges[d] ELSE NoBuses],
       cap |-> [d \in ids |-> IF d \notin fast THEN 1 ELSE IF d \in bridges THEN 2 ELSE 3], link |-> [d \in ids |-> 1],
       port |-> [d \in ids |-> IF d \notin bridges THEN "endpoint"
                               ELSE IF depth[d] = 1 THEN "root"
                               ELSE IF depth[d] = 2 THEN "upstream" ELSE "downstream"],
       search |-> search]

Make(up, roots, hidden, bridges, number, ranges, fast, search) ==
  MakeFunctions(up, roots, hidden, bridges, number, {}, {}, ranges, fast, search)

R(a, b) == [sec |-> a, sub |-> b]

(* A root port with a bridge and a device below, and a device beside it.   *)
Chains ==
  {Make(<<0, 1, 2, 3, 1>>, {1}, {}, {2, 3}, <<0, n, 0, 0, 1 - n>>,
        (2 :> R(a, c)) @@ (3 :> R(a + 1, b)), fast, search) :
     n \in 0 .. 1, a \in 1 .. 2, b \in 3 .. 4, c \in 4 .. 5, fast \in SUBSET {2, 3, 4},
     search \in BOOLEAN}

(* The same with the lower bridge found before the upper one.              *)
Crossed ==
  {Make(<<0, 3, 1, 2, 3>>, {1}, {}, {2, 3}, <<0, 1, 0, 0, 0>>,
        (3 :> R(1, c)) @@ (2 :> R(b, c)), fast, FALSE) :
     b \in 2 .. 3, c \in 3 .. 5, fast \in SUBSET {2, 3, 4, 5}}

(* Two root ports side by side, one with two devices.                      *)
Pairs ==
  {Make(<<0, 1, 1, 2, 3, 3>>, {1}, {}, {2, 3}, <<0, 0, 1, 0, 0, 1>>,
        (2 :> R(a, a)) @@ (3 :> R(b, c)), fast, FALSE) :
     a \in 1 .. 2, b \in 3 .. 4, c \in 4 .. 5, fast \in SUBSET {2, 3, 4, 5}}

(* Two segments.                                                           *)
Segments ==
  {Make(<<0, 0, 1, 2, 3, 4>>, {1, 2}, {}, {3, 4}, <<0, 0, 0, 0, 0, 0>>,
        (3 :> R(1, b)) @@ (4 :> R(1, c)), fast, FALSE) :
     b \in 1 .. 2, c \in 1 .. 2, fast \in SUBSET {3, 5, 6}}

(* The hidden bridge is below a bridge the firmware knows.                 *)
Deeper ==
  {Make(<<0, 1, 2, 3, 4>>, {1}, {4, 5}, {2, 3, 4}, <<0, 0, 0, 0, 0>>,
        (2 :> R(1, b)) @@ (3 :> R(2, b)), fast, TRUE) :
     b \in 2 .. 4, fast \in {{}, {2, 3}, {4, 5}}}

(* A root port below which the firmware has set up nothing: a bridge with  *)
(* a bridge, and devices beside it or functions of it.                     *)
Unconfigured ==
  {MakeFunctions(<<0, 1, 2, 3, 4, 3, 1>>, {1}, {3, 4, 5, 6}, {2, 3, 4}, <<0, 0, 0, 0, 0, n, 1>>,
                 IF n = 0 THEN {6} ELSE {}, multi, (2 :> R(a, b)), fast, TRUE) :
     a \in 1 .. 2, b \in 2 .. 4, n \in 0 .. 1, multi \in {{}, {3}},
     fast \in {{}, {2, 3}, {2, 3, 4, 5}}}

MCMachines == Chains \cup Crossed \cup Pairs \cup Segments \cup Unconfigured \cup Deeper
=============================================================================
