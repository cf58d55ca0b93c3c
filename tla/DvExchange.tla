----------------------------- MODULE DvExchange -----------------------------
(***************************************************************************)
(* What the distance-vector routing of distance_vector/ promises, without  *)
(* the Wi-Fi, the threads or the packets that carry it.  Every node learns *)
(* its neighbors once (init_dist_vector_routing).  After that it may at    *)
(* any time compose a "dv" packet for a neighbor (dv_to_str with poisoned  *)
(* reverse), and a neighbor that gets the packet stores it (str_to_dv) and *)
(* relaxes its own vector (update_dist_vector_by_nbr_id).                  *)
(*                                                                         *)
(* Composed packets are kept in a set.  A packet of the set may be         *)
(* received at any later time, again and again, before or after newer ones *)
(* from the same sender; it may also get lost.  So the safety properties   *)
(* below hold whatever the radio, the one-packet buffers and the           *)
(* schedulers of the nodes do.                                             *)
(***************************************************************************)
EXTENDS DistVector

CONSTANTS
  Nbr,   \* Nbr[n]: the IDs that n's scan found in range (ID_is_nbr)
  Hops   \* Hops[n][d]: the true hop distance, MAX_NODES if there is no path

(* A node never hears its own access point. *)
ASSUME NbrAssumption ==
  /\ Nbr \in [IDs -> SUBSET IDs]
  /\ \A n \in IDs : n \notin Nbr[n]

(* Hops is the distance function of the graph Nbr: it is 0 at the          *)
(* destination, an edge shortens it by at most one, and unless there is no *)
(* path some edge does shorten it.                                         *)
ASSUME HopsAssumption ==
  /\ Hops \in [IDs -> [IDs -> 0 .. MAX_NODES]]
  /\ \A d \in IDs : Hops[d][d] = 0
  /\ \A n, d \in IDs : \A h \in Nbr[n] : Hops[n][d] <= 1 + Hops[h][d]
  /\ \A n, d \in IDs :
       n # d /\ Hops[n][d] < MAX_NODES
          => \E h \in Nbr[n] : Hops[n][d] = 1 + Hops[h][d]

VARIABLES
  knows_nbrs,     \* knows_nbrs[n]: neighbor finding is over at n
  dist_vector,    \* dist_vector[n][d]: n's distance to d
  routing_table,  \* routing_table[n][d]: n's next hop to d
  nbr_vector,     \* nbr_vector[n][h]: the vector n stores for neighbor h
  adverts         \* the "dv" packets composed and not lost

vars == <<knows_nbrs, dist_vector, routing_table, nbr_vector, adverts>>

Advert == [src : IDs, dst : IDs, dv : WireVector]

TypeOK ==
  /\ knows_nbrs \in [IDs -> BOOLEAN]
  /\ dist_vector \in [IDs -> Vector]
  /\ routing_table \in [IDs -> Table]
  /\ nbr_vector \in [IDs -> [IDs -> WireVector]]
  /\ adverts \subseteq Advert

(* Neighbor finding is over at any of the nodes. *)
Init ==
  /\ knows_nbrs \in [IDs -> BOOLEAN]
  /\ dist_vector =
       [n \in IDs |-> IF knows_nbrs[n] THEN InitVector(EmptyVector, n, Nbr[n])
                                       ELSE EmptyVector]
  /\ routing_table =
       [n \in IDs |-> IF knows_nbrs[n] THEN InitTable(EmptyTable, Nbr[n])
                                       ELSE EmptyTable]
  /\ nbr_vector = [n \in IDs |-> [h \in IDs |-> EmptyVector]]
  /\ adverts = {}

(* init_dist_vector_routing *)
LearnNeighbors(n) ==
  /\ ~ knows_nbrs[n]
  /\ knows_nbrs' = [knows_nbrs EXCEPT ![n] = TRUE]
  /\ dist_vector' = [dist_vector EXCEPT ![n] = InitVector(@, n, Nbr[n])]
  /\ routing_table' = [routing_table EXCEPT ![n] = InitTable(@, Nbr[n])]
  /\ UNCHANGED <<nbr_vector, adverts>>

(* The packet n composes for h now *)
AdvertTo(n, h) ==
  [src |-> n, dst |-> h,
   dv  |-> Poisoned(dist_vector[n], routing_table[n], h)]

(* The DV_SCAN branch of protothread_connect: a vector is sent only to a   *)
(* neighbor.  The packet may take the place of one that was never sent.    *)
Advertise(n, h) ==
  /\ knows_nbrs[n]
  /\ h \in Nbr[n]
  /\ \E kept \in SUBSET adverts : adverts' = kept \cup {AdvertTo(n, h)}
  /\ UNCHANGED <<knows_nbrs, dist_vector, routing_table, nbr_vector>>

(* The "dv" branch of protothread_udp_recv.  Packets may get lost in the   *)
(* same step.                                                              *)
Receive(m) ==
  /\ m \in adverts
  /\ knows_nbrs[m.dst]
  /\ m.src \in Nbr[m.dst]
  /\ nbr_vector' = [nbr_vector EXCEPT ![m.dst][m.src] = m.dv]
  /\ dist_vector' = [dist_vector EXCEPT ![m.dst] = UpdateVector(@, m.dv)]
  /\ routing_table' =
       [routing_table EXCEPT
          ![m.dst] = UpdateTable(dist_vector[m.dst], @, m.dv, m.src)]
  /\ adverts' \in SUBSET adverts
  /\ UNCHANGED knows_nbrs

Lose ==
  /\ adverts' \in SUBSET adverts
  /\ UNCHANGED <<knows_nbrs, dist_vector, routing_table, nbr_vector>>

Next ==
  \/ \E n \in IDs : LearnNeighbors(n)
  \/ \E n, h \in IDs : Advertise(n, h)
  \/ \E m \in adverts : Receive(m)
  \/ Lose

Spec == Init /\ [][Next]_vars
-----------------------------------------------------------------------------
(* No routing loop.  Data is forwarded along routing_table at every node   *)
(* (main.c:586-594), so a set of nodes whose next hops for d all stay in   *)
(* the set, with d outside it, would pass a packet for d round forever.    *)
(* There is never such a set, not even while vectors are in transit.       *)
NoRoutingLoop ==
  \A d \in IDs : \A S \in SUBSET (IDs \ {d}) :
     S # {} => \E n \in S : routing_table[n][d] \notin S

(* The next hop is a neighbor that is itself strictly closer to the        *)
(* destination, or it is the destination.                                  *)
NextHopCloser ==
  \A n, d \in IDs :
     LET h == routing_table[n][d] IN
     h # NO_ROUTE => /\ h \in Nbr[n]
                     /\ h # d => dist_vector[h][d] < dist_vector[n][d]

(* A node never believes to be closer to anyone than it is.                *)
NeverTooClose ==
  \A n, d \in IDs : dist_vector[n][d] >= Hops[n][d]

(* The exchange is over: every neighbor holds what its neighbor would send *)
(* it now (num_unupdated_nbrs is 0 everywhere, and rightly so).            *)
Settled ==
  /\ \A n \in IDs : knows_nbrs[n]
  /\ \A n, h \in IDs :
       n \in Nbr[h] => nbr_vector[n][h] = AdvertTo(h, n).dv

(* When the exchange is over, every distance is the true hop distance, if  *)
(* neighbors hear each other.                                              *)
SymmetricNbr == \A n, h \in IDs : n \in Nbr[h] <=> h \in Nbr[n]

SettledIsShortest ==
  SymmetricNbr /\ Settled => dist_vector = Hops

(* Late, repeated and reordered vectors never undo what a node has learnt: *)
(* a distance does not grow, and a next hop changes only to a node that    *)
(* makes the distance smaller.                                             *)
OnlyImproves ==
  [][\A n, d \in IDs :
       /\ dist_vector'[n][d] <= dist_vector[n][d]
       /\ routing_table'[n][d] # routing_table[n][d]
            => dist_vector'[n][d] < dist_vector[n][d]]_vars
-----------------------------------------------------------------------------
(* The inductive invariant behind all of them.                             *)

(* What is known of h at a neighbor, or is on its way to one, was true of  *)
(* h at some time, and distances only fall.                                *)
StoredNotBelow ==
  \A n, h, d \in IDs : nbr_vector[n][h][d] >= dist_vector[h][d]

AdvertNotBelow ==
  \A m \in adverts : \A d \in IDs : m.dv[d] >= dist_vector[m.src][d]

(* A route costs one more than the next hop's own distance; a route to a   *)
(* neighbor is the direct one.                                             *)
RouteCost ==
  \A n, d \in IDs :
     LET h == routing_table[n][d] IN
     h # NO_ROUTE =>
       /\ knows_nbrs[n]
       /\ h \in Nbr[n]
       /\ \/ h = d /\ dist_vector[n][d] = 1
          \/ dist_vector[n][d] >= 1 + dist_vector[h][d]

(* Neighbors and oneself are known from the start, nothing before.         *)
DirectKnown ==
  \A n \in IDs :
     IF knows_nbrs[n]
     THEN /\ dist_vector[n][n] = 0
          /\ \A h \in Nbr[n] : dist_vector[n][h] = 1
     ELSE /\ dist_vector[n] = EmptyVector
          /\ \A h \in IDs : nbr_vector[n][h] = EmptyVector

(* A node has relaxed with every vector it stores.                         *)
Relaxed ==
  \A n, d \in IDs : \A h \in Nbr[n] :
     knows_nbrs[n] => dist_vector[n][d] <= 1 + nbr_vector[n][h][d]

IInv ==
  /\ TypeOK
  /\ StoredNotBelow
  /\ AdvertNotBelow
  /\ RouteCost
  /\ DirectKnown
  /\ Relaxed
  /\ NeverTooClose
=============================================================================
