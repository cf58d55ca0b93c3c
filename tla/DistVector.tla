----------------------------- MODULE DistVector -----------------------------
(***************************************************************************)
(* The distance-vector algorithm of distance_vector/distance_vector.c as   *)
(* operators on one node's data: its distance vector dv, its routing table *)
(* rt and the vector it stores for one neighbor.  The functions of the C   *)
(* file change these arrays in place; here each array they change has an   *)
(* operator that gives its new value.                                      *)
(***************************************************************************)
EXTENDS Integers

CONSTANT MAX_NODES  \* network_opts.h: the number of IDs, 5 in the code
ASSUME MaxNodesAssumption == MAX_NODES \in Nat \ {0}

IDs == 0 .. MAX_NODES - 1

NO_ROUTE         == -1
DIST_IF_NO_ROUTE == MAX_NODES
POISON_DIST      == DIST_IF_NO_ROUTE + 1
DEFAULT_COST     == 1

Dist     == 0 .. DIST_IF_NO_ROUTE   \* what a distance vector holds
WireDist == 0 .. POISON_DIST        \* what a "dv" packet may hold
Vector   == [IDs -> Dist]
WireVector == [IDs -> WireDist]
Table    == [IDs -> IDs \cup {NO_ROUTE}]

(* new_node and init_dist_vector_routing: no route to anyone *)
EmptyVector == [id \in IDs |-> DIST_IF_NO_ROUTE]
EmptyTable  == [id \in IDs |-> NO_ROUTE]

(* init_dist_vector_routing: cost 1 to each neighbor, 0 to oneself *)
InitVector(dv, self, nbrs) ==
  [id \in IDs |-> IF id = self THEN 0
                  ELSE IF id \in nbrs THEN DEFAULT_COST ELSE dv[id]]

InitTable(rt, nbrs) == [id \in IDs |-> IF id \in nbrs THEN id ELSE rt[id]]

(* Mutant of Improved: the loop starts at 1.                               *)
ImprovedFrom1(dv, nv) == {id \in IDs \ {0} : DEFAULT_COST + nv[id] < dv[id]}

(* Mutants of UpdateVector: it does not compare; it adds no cost.          *)
UpdateVectorAlways(dv, nv) == [id \in IDs |-> DEFAULT_COST + nv[id]]
UpdateVectorFree(dv, nv) ==
  [id \in IDs |-> IF nv[id] < dv[id] THEN nv[id] ELSE dv[id]]

(* Mutant of UpdateTable: it does not compare.                             *)
UpdateTableAlways(dv, rt, nv, nb) ==
  [id \in IDs |-> IF nv[id] < DIST_IF_NO_ROUTE THEN nb ELSE rt[id]]

(* update_dist_vector_by_nbr_id: the IDs that neighbor vector nv brings    *)
(* closer, and the two arrays after the loop over them                     *)
Improved(dv, nv) == {id \in IDs : DEFAULT_COST + nv[id] < dv[id]}

UpdateVector(dv, nv) ==
  [id \in IDs |-> IF id \in Improved(dv, nv) THEN DEFAULT_COST + nv[id]
                                             ELSE dv[id]]

UpdateTable(dv, rt, nv, nb) ==
  [id \in IDs |-> IF id \in Improved(dv, nv) THEN nb ELSE rt[id]]

(* dv_to_str with poison: the routes through the receiver are reported as  *)
(* POISON_DIST, which is no distance at all.  The decimal text it writes,  *)
(* at most 2 * MAX_NODES characters, is read back unchanged by str_to_dv.  *)
Poisoned(dv, rt, receiver) ==
  [id \in IDs |-> IF rt[id] = receiver THEN POISON_DIST ELSE dv[id]]
=============================================================================
