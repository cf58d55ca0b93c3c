---------------------------- MODULE MCDvExchange ----------------------------
(***************************************************************************)
(* DvExchange on LAYOUT 3 of distance_vector/layout.c, which has a cycle.  *)
(***************************************************************************)
EXTENDS DvExchange, FiniteSets, TLC

CONSTANT MaxAdverts  \* bound on the "dv" packets that are about at a time

(* LAYOUT 3: a triangle 0, 1, 2 with leaf 3 at corner 2 *)
TriangleNbr == (0 :> {1, 2}) @@ (1 :> {0, 2}) @@ (2 :> {0, 1, 3}) @@ (3 :> {2})
TriangleHops ==
  [n \in IDs |-> [d \in IDs |->
     IF n = d THEN 0 ELSE IF d \in TriangleNbr[n] THEN 1 ELSE 2]]

FewAdverts == Cardinality(adverts) <= MaxAdverts
=============================================================================
