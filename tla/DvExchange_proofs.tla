-------------------------- MODULE DvExchange_proofs --------------------------
(***************************************************************************)
(* Proofs about DvExchange for every number of nodes and every neighbor    *)
(* relation: type correctness, the inductive invariant, and the properties *)
(* that follow from it.                                                    *)
(***************************************************************************)
EXTENDS DvExchange, WellFoundedInduction, TLAPS

(* The operators of distance_vector.c return vectors and tables.           *)
LEMMA OperatorTypes ==
  ASSUME NEW dv \in Vector, NEW rt \in Table, NEW nv \in WireVector,
         NEW n \in IDs, NEW S \in SUBSET IDs
  PROVE  /\ EmptyVector \in Vector
         /\ EmptyVector \in WireVector
         /\ EmptyTable \in Table
         /\ InitVector(dv, n, S) \in Vector
         /\ InitTable(rt, S) \in Table
         /\ UpdateVector(dv, nv) \in Vector
         /\ UpdateTable(dv, rt, nv, n) \in Table
         /\ Poisoned(dv, rt, n) \in WireVector
<1>1. /\ EmptyVector \in Vector
      /\ EmptyVector \in WireVector
      /\ EmptyTable \in Table
  BY MaxNodesAssumption
  DEF EmptyVector, EmptyTable, Vector, WireVector, Table, Dist, WireDist,
      DIST_IF_NO_ROUTE, POISON_DIST
<1>2. /\ InitVector(dv, n, S) \in Vector
      /\ InitTable(rt, S) \in Table
  BY MaxNodesAssumption
  DEF InitVector, InitTable, Vector, Table, Dist, DIST_IF_NO_ROUTE,
      DEFAULT_COST
<1>3. UpdateVector(dv, nv) \in Vector
  <2>1. ASSUME NEW id \in IDs
        PROVE  (IF id \in Improved(dv, nv) THEN DEFAULT_COST + nv[id]
                                           ELSE dv[id]) \in Dist
    BY MaxNodesAssumption
    DEF Improved, Vector, WireVector, Dist, WireDist, DIST_IF_NO_ROUTE,
        POISON_DIST, DEFAULT_COST
  <2>2. QED
    BY <2>1 DEF UpdateVector, Vector
<1>4. UpdateTable(dv, rt, nv, n) \in Table
  BY DEF UpdateTable, Table
<1>5. Poisoned(dv, rt, n) \in WireVector
  BY MaxNodesAssumption
  DEF Poisoned, Vector, WireVector, Dist, WireDist, DIST_IF_NO_ROUTE,
      POISON_DIST
<1>6. QED
  BY <1>1, <1>2, <1>3, <1>4, <1>5

(* What a neighbor's vector does to the entries of one's own.              *)
LEMMA UpdateEntries ==
  ASSUME NEW dv \in Vector, NEW rt \in Table, NEW nv \in WireVector,
         NEW nb \in IDs, NEW d \in IDs
  PROVE  /\ UpdateVector(dv, nv)[d] <= dv[d]
         /\ UpdateVector(dv, nv)[d] <= 1 + nv[d]
         /\ \/ /\ UpdateVector(dv, nv)[d] = dv[d]
               /\ UpdateTable(dv, rt, nv, nb)[d] = rt[d]
            \/ /\ UpdateVector(dv, nv)[d] = 1 + nv[d]
               /\ 1 + nv[d] < dv[d]
               /\ UpdateTable(dv, rt, nv, nb)[d] = nb
<1>1. dv[d] \in Int /\ nv[d] \in Int
  BY MaxNodesAssumption
  DEF Vector, WireVector, Dist, WireDist, DIST_IF_NO_ROUTE, POISON_DIST
<1>2. QED
  BY <1>1 DEF UpdateVector, UpdateTable, Improved, DEFAULT_COST

(* A poisoned vector is nowhere below the vector it is made from, and where *)
(* it is not poisoned it equals it.                                        *)
LEMMA PoisonedEntries ==
  ASSUME NEW dv \in Vector, NEW rt \in Table, NEW r \in IDs, NEW d \in IDs
  PROVE  /\ Poisoned(dv, rt, r)[d] >= dv[d]
         /\ rt[d] # r => Poisoned(dv, rt, r)[d] = dv[d]
  BY MaxNodesAssumption
  DEF Poisoned, Vector, Dist, DIST_IF_NO_ROUTE, POISON_DIST

LEMMA TypeInit == Init => TypeOK
<1>1. /\ EmptyVector \in Vector
      /\ EmptyVector \in WireVector
      /\ EmptyTable \in Table
  BY MaxNodesAssumption
  DEF EmptyVector, EmptyTable, Vector, WireVector, Table, Dist, WireDist,
      DIST_IF_NO_ROUTE, POISON_DIST
<1>2. ASSUME NEW n \in IDs
      PROVE  /\ InitVector(EmptyVector, n, Nbr[n]) \in Vector
             /\ InitTable(EmptyTable, Nbr[n]) \in Table
  BY <1>1, OperatorTypes, NbrAssumption
<1>3. QED
  BY <1>1, <1>2 DEF Init, TypeOK

LEMMA TypeStep ==
  ASSUME TypeOK, [Next]_vars
  PROVE  TypeOK'
<1>1. ASSUME NEW n \in IDs, LearnNeighbors(n)
      PROVE  TypeOK'
  <2>1. InitVector(dist_vector[n], n, Nbr[n]) \in Vector
    BY OperatorTypes, NbrAssumption DEF TypeOK
  <2>2. InitTable(routing_table[n], Nbr[n]) \in Table
    BY OperatorTypes, NbrAssumption DEF TypeOK
  <2>3. QED
    BY <1>1, <2>1, <2>2 DEF LearnNeighbors, TypeOK
<1>2. ASSUME NEW n \in IDs, NEW h \in IDs, Advertise(n, h)
      PROVE  TypeOK'
  <2>1. AdvertTo(n, h) \in Advert
    BY OperatorTypes DEF TypeOK, AdvertTo, Advert
  <2>2. QED
    BY <1>2, <2>1 DEF Advertise, TypeOK
<1>3. ASSUME NEW m \in adverts, Receive(m)
      PROVE  TypeOK'
  <2>1. /\ m.dst \in IDs
        /\ m.src \in IDs
        /\ m.dv \in WireVector
    BY DEF TypeOK, Advert
  <2>2. /\ UpdateVector(dist_vector[m.dst], m.dv) \in Vector
        /\ UpdateTable(dist_vector[m.dst], routing_table[m.dst], m.dv, m.src)
             \in Table
    BY <2>1, OperatorTypes DEF TypeOK
  <2>3. QED
    BY <1>3, <2>1, <2>2 DEF Receive, TypeOK
<1>4. CASE Lose
  BY <1>4 DEF Lose, TypeOK
<1>5. CASE UNCHANGED vars
  BY <1>5 DEF vars, TypeOK
<1>6. QED
  BY <1>1, <1>2, <1>3, <1>4, <1>5 DEF Next

(* Distances, stored vectors and packets always stay in their ranges       *)
(* (distance_vector.c never writes a distance outside 0 .. MAX_NODES).     *)
THEOREM TypeCorrect == Spec => []TypeOK
<1>1. TypeOK /\ [Next]_vars => TypeOK'
  BY TypeStep
<1>2. QED
  BY TypeInit, <1>1, PTL DEF Spec

-----------------------------------------------------------------------------
(* Distances are numbers; used by the arithmetic below.                    *)
LEMMA Numbers ==
  ASSUME TypeOK
  PROVE  /\ \A n, d \in IDs : /\ dist_vector[n][d] \in 0 .. MAX_NODES
                              /\ routing_table[n][d] \in IDs \cup {NO_ROUTE}
         /\ \A n, h, d \in IDs : nbr_vector[n][h][d] \in Int
         /\ \A m \in adverts : /\ m.src \in IDs /\ m.dst \in IDs
                               /\ m.dv \in WireVector
                               /\ \A d \in IDs : m.dv[d] \in Int
         /\ \A n, d \in IDs : Hops[n][d] \in 0 .. MAX_NODES
  BY MaxNodesAssumption, HopsAssumption
  DEF TypeOK, Vector, WireVector, Table, Advert, Dist, WireDist,
      DIST_IF_NO_ROUTE, POISON_DIST

(* No ID is NO_ROUTE. *)
LEMMA NoRouteIsNoID == NO_ROUTE \notin IDs
  BY MaxNodesAssumption DEF NO_ROUTE, IDs

LEMMA InitInvariant == Init => IInv
<1> SUFFICES ASSUME Init
             PROVE  IInv
  OBVIOUS
<1>1. TypeOK
  BY TypeInit
<1>2. \A n, h, d \in IDs :
        /\ nbr_vector[n][h] = EmptyVector
        /\ nbr_vector[n][h][d] = MAX_NODES
        /\ dist_vector[n][d] = IF knows_nbrs[n] /\ d = n THEN 0
                               ELSE IF knows_nbrs[n] /\ d \in Nbr[n] THEN 1
                               ELSE MAX_NODES
        /\ ~ knows_nbrs[n] => dist_vector[n] = EmptyVector
        /\ routing_table[n][d] = IF knows_nbrs[n] /\ d \in Nbr[n] THEN d
                                 ELSE NO_ROUTE
  BY DEF Init, EmptyVector, EmptyTable, InitVector, InitTable,
         DIST_IF_NO_ROUTE, DEFAULT_COST
<1>3. StoredNotBelow
  BY <1>2, MaxNodesAssumption DEF StoredNotBelow
<1>4. AdvertNotBelow
  BY DEF Init, AdvertNotBelow
<1>5. RouteCost
  <2>1. ASSUME NEW n \in IDs, NEW d \in IDs, routing_table[n][d] # NO_ROUTE
        PROVE  /\ knows_nbrs[n] /\ d \in Nbr[n]
               /\ routing_table[n][d] = d
    BY <1>2, <2>1
  <2>2. \A n, d \in IDs : knows_nbrs[n] /\ d \in Nbr[n] => dist_vector[n][d] = 1
    BY <1>2, NbrAssumption
  <2>3. QED
    BY <2>1, <2>2 DEF RouteCost
<1>6. DirectKnown
  BY <1>2, NbrAssumption DEF DirectKnown
<1>7. Relaxed
  <2> SUFFICES ASSUME NEW n \in IDs, NEW d \in IDs, NEW h \in Nbr[n]
               PROVE  dist_vector[n][d] <= 1 + nbr_vector[n][h][d]
    BY DEF Relaxed
  <2>1. nbr_vector[n][h][d] = MAX_NODES
    BY <1>2, NbrAssumption
  <2>2. dist_vector[n][d] \in {0, 1, MAX_NODES}
    BY <1>2
  <2>3. QED
    BY <2>1, <2>2, MaxNodesAssumption
<1>8. NeverTooClose
  <2> SUFFICES ASSUME NEW n \in IDs, NEW d \in IDs
               PROVE  dist_vector[n][d] >= Hops[n][d]
    BY DEF NeverTooClose
  <2>1. Hops[n][d] \in 0 .. MAX_NODES /\ Hops[d][d] = 0
    BY HopsAssumption
  <2>2. d \in Nbr[n] => Hops[n][d] <= 1
    BY <2>1, HopsAssumption
  <2>3. CASE d = n
    BY <1>2, <2>1, <2>3, MaxNodesAssumption
  <2>4. CASE d # n
    <3>1. \/ dist_vector[n][d] = 1 /\ d \in Nbr[n]
          \/ dist_vector[n][d] = MAX_NODES
      BY <1>2, <2>4
    <3>2. QED
      BY <3>1, <2>1, <2>2, MaxNodesAssumption
  <2>5. QED
    BY <2>3, <2>4
<1>9. QED
  BY <1>1, <1>3, <1>4, <1>5, <1>6, <1>7, <1>8 DEF IInv

LEMMA LearnStep ==
  ASSUME IInv, TypeOK', NEW n \in IDs, LearnNeighbors(n)
  PROVE  IInv' /\ \A a, d \in IDs : dist_vector'[a][d] <= dist_vector[a][d]
<1> USE DEF IInv
<1>1. /\ ~ knows_nbrs[n]
      /\ knows_nbrs' = [knows_nbrs EXCEPT ![n] = TRUE]
      /\ dist_vector' =
           [dist_vector EXCEPT ![n] = InitVector(dist_vector[n], n, Nbr[n])]
      /\ routing_table' =
           [routing_table EXCEPT ![n] = InitTable(routing_table[n], Nbr[n])]
      /\ nbr_vector' = nbr_vector
      /\ adverts' = adverts
  BY DEF LearnNeighbors
<1>2. \A d \in IDs : dist_vector[n][d] = MAX_NODES
  BY <1>1 DEF DirectKnown, EmptyVector, DIST_IF_NO_ROUTE
<1>3. \A d \in IDs : routing_table[n][d] = NO_ROUTE
  BY <1>1, Numbers, NoRouteIsNoID DEF RouteCost
<1>4. /\ dist_vector'[n][n] = 0
      /\ \A h \in Nbr[n] : dist_vector'[n][h] = 1
      /\ \A d \in IDs \ (Nbr[n] \cup {n}) : dist_vector'[n][d] = MAX_NODES
      /\ \A a \in IDs \ {n} : dist_vector'[a] = dist_vector[a]
  BY <1>1, <1>2, NbrAssumption DEF TypeOK, InitVector, DEFAULT_COST
<1>5. /\ \A d \in IDs : routing_table'[n][d] =
                          IF d \in Nbr[n] THEN d ELSE NO_ROUTE
      /\ \A a \in IDs \ {n} : routing_table'[a] = routing_table[a]
  BY <1>1, <1>3 DEF TypeOK, InitTable
<1>6. \A a, d \in IDs : dist_vector'[a][d] <= dist_vector[a][d]
  BY <1>2, <1>4, Numbers, MaxNodesAssumption, NbrAssumption
<1>7. \A a, d \in IDs : dist_vector'[a][d] \in 0 .. MAX_NODES
  BY MaxNodesAssumption DEF TypeOK, Vector, Dist, DIST_IF_NO_ROUTE
<1>8. StoredNotBelow'
  BY <1>1, <1>6, <1>7, Numbers DEF StoredNotBelow
<1>9. AdvertNotBelow'
  BY <1>1, <1>6, <1>7, Numbers DEF AdvertNotBelow
<1>10. RouteCost'
  <2> SUFFICES ASSUME NEW a \in IDs, NEW d \in IDs,
                      routing_table'[a][d] # NO_ROUTE
               PROVE  LET h == routing_table'[a][d] IN
                      /\ knows_nbrs'[a]
                      /\ h \in Nbr[a]
                      /\ \/ h = d /\ dist_vector'[a][d] = 1
                         \/ dist_vector'[a][d] >= 1 + dist_vector'[h][d]
    BY DEF RouteCost
  <2>1. CASE a = n
    BY <2>1, <1>1, <1>4, <1>5 DEF TypeOK
  <2>2. CASE a # n
    <3>1. /\ routing_table'[a][d] = routing_table[a][d]
          /\ dist_vector'[a][d] = dist_vector[a][d]
          /\ knows_nbrs'[a] = knows_nbrs[a]
          /\ routing_table[a][d] \in IDs
      BY <2>2, <1>1, <1>4, <1>5, Numbers DEF TypeOK
    <3>2. QED
      BY <3>1, <1>6, <1>7, Numbers DEF RouteCost
  <2>3. QED
    BY <2>1, <2>2
<1>11. DirectKnown'
  BY <1>1, <1>4 DEF DirectKnown, TypeOK
<1>12. Relaxed'
  <2>1. \A h \in IDs, d \in IDs :
           h \in Nbr[n] => dist_vector'[n][d] <= 1 + nbr_vector'[n][h][d]
    <3> SUFFICES ASSUME NEW h \in Nbr[n], NEW d \in IDs
                 PROVE  dist_vector'[n][d] <= 1 + nbr_vector[n][h][d]
      BY <1>1
    <3>1. nbr_vector[n][h][d] = MAX_NODES
      BY <1>1, NbrAssumption
      DEF DirectKnown, EmptyVector, DIST_IF_NO_ROUTE
    <3>2. QED
      BY <3>1, <1>7, MaxNodesAssumption
  <2>2. QED
    BY <2>1, <1>1, <1>4, NbrAssumption DEF Relaxed, TypeOK
<1>13. NeverTooClose'
  BY <1>4, HopsAssumption, MaxNodesAssumption, NbrAssumption
  DEF NeverTooClose
<1>14. QED
  BY <1>6, <1>8, <1>9, <1>10, <1>11, <1>12, <1>13

LEMMA AdvertiseStep ==
  ASSUME IInv, TypeOK', NEW n \in IDs, NEW h \in IDs, Advertise(n, h)
  PROVE  IInv'
<1> USE DEF IInv
<1>1. /\ adverts' \subseteq adverts \cup {AdvertTo(n, h)}
      /\ UNCHANGED <<knows_nbrs, dist_vector, routing_table, nbr_vector>>
  BY DEF Advertise
<1>2. \A d \in IDs : AdvertTo(n, h).dv[d] >= dist_vector[n][d]
  BY PoisonedEntries DEF TypeOK, AdvertTo
<1>3. AdvertTo(n, h).src = n
  BY DEF AdvertTo
<1>4. AdvertNotBelow'
  BY <1>1, <1>2, <1>3 DEF AdvertNotBelow
<1>5. QED
  BY <1>1, <1>4
  DEF StoredNotBelow, RouteCost, DirectKnown, Relaxed, NeverTooClose

LEMMA LoseStep ==
  ASSUME IInv, TypeOK', Lose
  PROVE  IInv'
BY DEF Lose, IInv, StoredNotBelow, AdvertNotBelow, RouteCost, DirectKnown,
       Relaxed, NeverTooClose

LEMMA StutterStep ==
  ASSUME IInv, UNCHANGED vars
  PROVE  IInv'
BY DEF vars, IInv, TypeOK, StoredNotBelow, AdvertNotBelow, RouteCost,
       DirectKnown, Relaxed, NeverTooClose

LEMMA ReceiveStep ==
  ASSUME IInv, TypeOK', NEW m \in adverts, Receive(m)
  PROVE  /\ IInv'
         /\ \A a, d \in IDs :
              /\ dist_vector'[a][d] <= dist_vector[a][d]
              /\ routing_table'[a][d] # routing_table[a][d]
                   => dist_vector'[a][d] < dist_vector[a][d]
<1> USE DEF IInv
<1> DEFINE n == m.dst
           h == m.src
<1>1. /\ n \in IDs /\ h \in IDs /\ m.dv \in WireVector
      /\ \A d \in IDs : m.dv[d] \in Int
  BY Numbers
<1>2. /\ knows_nbrs[n]
      /\ h \in Nbr[n]
      /\ nbr_vector' = [nbr_vector EXCEPT ![n][h] = m.dv]
      /\ dist_vector' =
           [dist_vector EXCEPT ![n] = UpdateVector(dist_vector[n], m.dv)]
      /\ routing_table' =
           [routing_table EXCEPT ![n] =
              UpdateTable(dist_vector[n], routing_table[n], m.dv, h)]
      /\ adverts' \subseteq adverts
      /\ knows_nbrs' = knows_nbrs
  BY DEF Receive
<1>3. \A a \in IDs \ {n} : /\ dist_vector'[a] = dist_vector[a]
                           /\ routing_table'[a] = routing_table[a]
  BY <1>1, <1>2 DEF TypeOK
<1>4. \A d \in IDs :
        /\ dist_vector'[n][d] <= dist_vector[n][d]
        /\ dist_vector'[n][d] <= 1 + m.dv[d]
        /\ \/ /\ dist_vector'[n][d] = dist_vector[n][d]
              /\ routing_table'[n][d] = routing_table[n][d]
           \/ /\ dist_vector'[n][d] = 1 + m.dv[d]
              /\ 1 + m.dv[d] < dist_vector[n][d]
              /\ routing_table'[n][d] = h
  <2>1. /\ dist_vector'[n] = UpdateVector(dist_vector[n], m.dv)
        /\ routing_table'[n] =
             UpdateTable(dist_vector[n], routing_table[n], m.dv, h)
        /\ dist_vector[n] \in Vector
        /\ routing_table[n] \in Table
    BY <1>1, <1>2 DEF TypeOK
  <2>2. QED
    BY <1>1, <2>1, UpdateEntries
<1>5. \A a, d \in IDs :
        /\ dist_vector'[a][d] \in 0 .. MAX_NODES
        /\ dist_vector'[a][d] <= dist_vector[a][d]
        /\ routing_table'[a][d] # routing_table[a][d]
             => dist_vector'[a][d] < dist_vector[a][d]
  <2>1. \A a, d \in IDs : dist_vector'[a][d] \in 0 .. MAX_NODES
    BY MaxNodesAssumption DEF TypeOK, Vector, Dist, DIST_IF_NO_ROUTE
  <2>2. QED
    BY <1>3, <1>4, <2>1, Numbers
<1>6. \A d \in IDs : m.dv[d] >= dist_vector[h][d]
  BY DEF AdvertNotBelow
<1>7. StoredNotBelow'
  <2> SUFFICES ASSUME NEW a \in IDs, NEW b \in IDs, NEW d \in IDs
               PROVE  nbr_vector'[a][b][d] >= dist_vector'[b][d]
    BY DEF StoredNotBelow
  <2>1. CASE a = n /\ b = h
    <3>1. nbr_vector'[a][b] = m.dv
      BY <2>1, <1>1, <1>2 DEF TypeOK
    <3>2. QED
      BY <3>1, <2>1, <1>1, <1>5, <1>6, Numbers
  <2>2. CASE ~ (a = n /\ b = h)
    <3>1. nbr_vector'[a][b] = nbr_vector[a][b]
      BY <2>2, <1>1, <1>2 DEF TypeOK
    <3>2. QED
      BY <3>1, <1>5, Numbers DEF StoredNotBelow
  <2>3. QED
    BY <2>1, <2>2
<1>8. AdvertNotBelow'
  BY <1>2, <1>5, Numbers DEF AdvertNotBelow
<1>9. RouteCost'
  <2> SUFFICES ASSUME NEW a \in IDs, NEW d \in IDs,
                      routing_table'[a][d] # NO_ROUTE
               PROVE  LET g == routing_table'[a][d] IN
                      /\ knows_nbrs[a]
                      /\ g \in Nbr[a]
                      /\ \/ g = d /\ dist_vector'[a][d] = 1
                         \/ dist_vector'[a][d] >= 1 + dist_vector'[g][d]
    BY <1>2 DEF RouteCost
  <2>1. CASE routing_table'[a][d] = routing_table[a][d]
             /\ dist_vector'[a][d] = dist_vector[a][d]
    <3>1. routing_table[a][d] \in IDs
      BY <2>1, Numbers
    <3>2. QED
      BY <2>1, <3>1, <1>5, Numbers DEF RouteCost
  <2>2. CASE /\ a = n
             /\ dist_vector'[n][d] = 1 + m.dv[d]
             /\ routing_table'[n][d] = h
    BY <2>2, <1>1, <1>2, <1>5, <1>6, Numbers
  <2>3. QED
    BY <2>1, <2>2, <1>3, <1>4
<1>10. DirectKnown'
  <2>1. \A a \in IDs : ~ knows_nbrs[a] => /\ dist_vector'[a] = dist_vector[a]
                                         /\ nbr_vector'[a] = nbr_vector[a]
    BY <1>1, <1>2, <1>3 DEF TypeOK
  <2>2. dist_vector'[n][n] = 0
    BY <1>1, <1>2, <1>5, Numbers DEF DirectKnown
  <2>3. \A b \in Nbr[n] : dist_vector'[n][b] = 1
    <3> SUFFICES ASSUME NEW b \in Nbr[n]
                 PROVE  dist_vector'[n][b] = 1
      OBVIOUS
    <3>1. b \in IDs /\ dist_vector[n][b] = 1
      BY <1>1, <1>2, NbrAssumption DEF DirectKnown
    <3>2. m.dv[b] >= 0
      BY <1>1, <1>6, <3>1, Numbers
    <3>3. QED
      BY <1>1, <1>4, <3>1, <3>2
  <2>4. QED
    BY <2>1, <2>2, <2>3, <1>1, <1>2, <1>3 DEF DirectKnown
<1>11. Relaxed'
  <2> SUFFICES ASSUME NEW a \in IDs, NEW d \in IDs, NEW b \in Nbr[a],
                      knows_nbrs[a]
               PROVE  dist_vector'[a][d] <= 1 + nbr_vector'[a][b][d]
    BY <1>2 DEF Relaxed
  <2>1. b \in IDs
    BY NbrAssumption
  <2>2. CASE a = n /\ b = h
    <3>1. nbr_vector'[a][b] = m.dv
      BY <2>2, <1>1, <1>2 DEF TypeOK
    <3>2. QED
      BY <3>1, <2>2, <1>4
  <2>3. CASE ~ (a = n /\ b = h)
    <3>1. nbr_vector'[a][b] = nbr_vector[a][b]
      BY <2>1, <2>3, <1>1, <1>2 DEF TypeOK
    <3>2. QED
      BY <2>1, <3>1, <1>5, Numbers DEF Relaxed
  <2>4. QED
    BY <2>2, <2>3
<1>12. NeverTooClose'
  <2> SUFFICES ASSUME NEW a \in IDs, NEW d \in IDs
               PROVE  dist_vector'[a][d] >= Hops[a][d]
    BY DEF NeverTooClose
  <2>1. CASE dist_vector'[a][d] = dist_vector[a][d]
    BY <2>1 DEF NeverTooClose
  <2>2. CASE a = n /\ dist_vector'[n][d] = 1 + m.dv[d]
    <3>1. Hops[n][d] <= 1 + Hops[h][d]
      BY <1>1, <1>2, HopsAssumption
    <3>2. dist_vector[h][d] >= Hops[h][d]
      BY <1>1 DEF NeverTooClose
    <3>3. QED
      BY <2>2, <3>1, <3>2, <1>1, <1>6, Numbers
  <2>3. QED
    BY <2>1, <2>2, <1>3, <1>4
<1>13. QED
  BY <1>5, <1>7, <1>8, <1>9, <1>10, <1>11, <1>12

-----------------------------------------------------------------------------
(* One step, whichever it is. *)
LEMMA InvariantStep ==
  ASSUME IInv, [Next]_vars
  PROVE  IInv'
<1>1. TypeOK'
  BY TypeStep DEF IInv
<1>2. QED
  BY <1>1, LearnStep, AdvertiseStep, ReceiveStep, LoseStep, StutterStep
  DEF Next

(* The inductive invariant: what is stored or in transit about a node is   *)
(* never below the node's own distance, a route costs one more than the    *)
(* next hop's distance, and no distance is below the true one.             *)
THEOREM InductiveInvariant == Spec => []IInv
<1>1. IInv /\ [Next]_vars => IInv'
  BY InvariantStep
<1>2. QED
  BY InitInvariant, <1>1, PTL DEF Spec

-----------------------------------------------------------------------------
(* The next hop is a neighbor and strictly closer to the destination than  *)
(* the node that routes through it, although the two vectors are compared  *)
(* at one instant and were exchanged at different ones.                    *)
LEMMA InvariantNextHop == IInv => NextHopCloser
<1> SUFFICES ASSUME IInv, NEW n \in IDs, NEW d \in IDs,
                    routing_table[n][d] # NO_ROUTE
             PROVE  LET h == routing_table[n][d] IN
                    /\ h \in Nbr[n]
                    /\ h # d => dist_vector[h][d] < dist_vector[n][d]
  BY DEF NextHopCloser
<1>1. routing_table[n][d] \in IDs
  BY Numbers DEF IInv
<1>2. QED
  BY <1>1, Numbers DEF IInv, RouteCost

(* In every state the next hop is a neighbor strictly closer to the        *)
(* destination.                                                            *)
THEOREM NextHopCloserAlways == Spec => []NextHopCloser
BY InductiveInvariant, InvariantNextHop, PTL

(* Every non-empty set of natural numbers has a least element.             *)
LEMMA LeastElement ==
  ASSUME NEW T \in SUBSET Nat, T # {}
  PROVE  \E x \in T : \A y \in T : x <= y
<1>1. PICK x \in T : \A y \in T : <<y, x>> \notin OpToRel(<, Nat)
  BY NatLessThanWellFounded, WFMin
<1>2. \A y \in T : ~ (y < x)
  BY <1>1 DEF OpToRel
<1>3. x \in Nat /\ \A y \in T : y \in Nat
  OBVIOUS
<1>4. \A y \in T : x <= y
  BY <1>2, <1>3
<1>5. QED
  BY <1>4

(* No routing loop, in any state and for any destination: among the nodes  *)
(* of a supposed loop take one closest to the destination; its next hop    *)
(* is closer still.                                                        *)
LEMMA InvariantNoLoop == IInv => NoRoutingLoop
<1> SUFFICES ASSUME IInv, NEW d \in IDs, NEW S \in SUBSET (IDs \ {d}),
                    S # {}, \A n \in S : routing_table[n][d] \in S
             PROVE  FALSE
  BY DEF NoRoutingLoop
<1> DEFINE T == {dist_vector[n][d] : n \in S}
<1>1. T \in SUBSET Nat /\ T # {}
  BY Numbers, MaxNodesAssumption DEF IInv
<1>2. PICK x \in T : \A y \in T : x <= y
  BY <1>1, LeastElement
<1>3. PICK n \in S : dist_vector[n][d] = x
  BY <1>2
<1>4. /\ n \in IDs
      /\ routing_table[n][d] \in S
      /\ routing_table[n][d] # NO_ROUTE
      /\ routing_table[n][d] # d
  BY <1>3, NoRouteIsNoID
<1>5. dist_vector[routing_table[n][d]][d] < dist_vector[n][d]
  BY <1>4, InvariantNextHop DEF NextHopCloser
<1>6. dist_vector[routing_table[n][d]][d] \in T
  BY <1>4
<1>7. x <= dist_vector[routing_table[n][d]][d]
  BY <1>2, <1>6
<1>8. /\ dist_vector[n][d] \in Int
      /\ dist_vector[routing_table[n][d]][d] \in Int
  BY <1>4, Numbers DEF IInv
<1>9. QED
  BY <1>3, <1>5, <1>7, <1>8

(* Data forwarded along the routing tables never runs in a circle.         *)
THEOREM LoopFreedom == Spec => []NoRoutingLoop
BY InductiveInvariant, InvariantNoLoop, PTL

(* Distances are never below the true hop distance.                        *)
THEOREM SoundDistances == Spec => []NeverTooClose
<1>1. IInv => NeverTooClose
  BY DEF IInv
<1>2. QED
  BY InductiveInvariant, <1>1, PTL

(* Distances never grow and a next hop changes only for a shorter route.   *)
THEOREM OnlyImprovesAlways == Spec => OnlyImproves
<1> DEFINE Improves ==
      \A n, d \in IDs :
        /\ dist_vector'[n][d] <= dist_vector[n][d]
        /\ routing_table'[n][d] # routing_table[n][d]
             => dist_vector'[n][d] < dist_vector[n][d]
<1>1. ASSUME IInv, [Next]_vars
      PROVE  [Improves]_vars
  <2>1. ASSUME NEW n \in IDs, LearnNeighbors(n)
        PROVE  Improves
    <3>1. TypeOK'
      BY <1>1, TypeStep DEF IInv
    <3>2. \A a, d \in IDs : dist_vector'[a][d] <= dist_vector[a][d]
      BY <1>1, <2>1, <3>1, LearnStep
    <3>3. ASSUME NEW a \in IDs, NEW d \in IDs,
                 routing_table'[a][d] # routing_table[a][d]
          PROVE  dist_vector'[a][d] < dist_vector[a][d]
      <4>1. a = n /\ d \in Nbr[n]
        BY <1>1, <2>1, <3>3
        DEF IInv, TypeOK, LearnNeighbors, InitTable, Table
      <4>2. dist_vector'[n][d] = 1
        BY <1>1, <2>1, <4>1, NbrAssumption
        DEF IInv, TypeOK, LearnNeighbors, InitVector, DEFAULT_COST, Vector
      <4>3. dist_vector[n][d] = MAX_NODES
        BY <1>1, <2>1
        DEF IInv, DirectKnown, LearnNeighbors, EmptyVector, DIST_IF_NO_ROUTE
      <4>4. MAX_NODES > 1
        BY <4>1, NbrAssumption, MaxNodesAssumption DEF IDs
      <4>5. QED
        BY <4>1, <4>2, <4>3, <4>4, MaxNodesAssumption
    <3>4. QED
      BY <3>2, <3>3
  <2>2. ASSUME NEW m \in adverts, Receive(m)
        PROVE  Improves
    <3>1. TypeOK'
      BY <1>1, TypeStep DEF IInv
    <3>2. QED
      BY <1>1, <2>2, <3>1, ReceiveStep
  <2>3. ASSUME UNCHANGED <<dist_vector, routing_table>>
        PROVE  Improves
    BY <1>1, <2>3, Numbers DEF IInv
  <2>4. QED
    BY <1>1, <2>1, <2>2, <2>3 DEF Next, Advertise, Lose, vars
<1>2. QED
  BY InductiveInvariant, <1>1, PTL DEF Spec, OnlyImproves

-----------------------------------------------------------------------------
(* When the exchange is over, no distance is above one more than any       *)
(* neighbor's: poisoned reverse hides a distance only from the node the    *)
(* route goes through, and that node is closer already.                    *)
LEMMA SettledBellman ==
  ASSUME IInv, SymmetricNbr, Settled, NEW n \in IDs, NEW d \in IDs,
         NEW h \in Nbr[n]
  PROVE  dist_vector[n][d] <= 1 + dist_vector[h][d]
<1>1. h \in IDs /\ n \in Nbr[h]
  BY NbrAssumption DEF SymmetricNbr
<1>2. nbr_vector[n][h] = Poisoned(dist_vector[h], routing_table[h], n)
  BY <1>1 DEF Settled, AdvertTo
<1>3. dist_vector[n][d] <= 1 + nbr_vector[n][h][d]
  BY DEF IInv, Relaxed, Settled
<1>4. CASE routing_table[h][d] # n
  <2>1. nbr_vector[n][h][d] = dist_vector[h][d]
    BY <1>1, <1>2, <1>4, PoisonedEntries DEF IInv, TypeOK
  <2>2. QED
    BY <1>3, <2>1
<1>5. CASE routing_table[h][d] = n
  <2>1. CASE n = d
    BY <2>1, <1>1, Numbers DEF IInv, DirectKnown, Settled
  <2>2. CASE n # d
    <3>1. dist_vector[h][d] >= 1 + dist_vector[n][d]
      BY <2>2, <1>1, <1>5, NoRouteIsNoID DEF IInv, RouteCost
    <3>2. QED
      BY <3>1, <1>1, Numbers DEF IInv
  <2>3. QED
    BY <2>1, <2>2
<1>6. QED
  BY <1>4, <1>5

(* When the exchange is over, every distance is the true hop distance: of  *)
(* the pairs with a distance that is too large, one with the least hop     *)
(* distance has a neighbor on a shortest path whose distance is right.     *)
LEMMA InvariantSettled == IInv => SettledIsShortest
<1> SUFFICES ASSUME IInv, SymmetricNbr, Settled
             PROVE  dist_vector = Hops
  BY DEF SettledIsShortest
<1>1. ASSUME NEW d \in IDs
      PROVE  \A n \in IDs : dist_vector[n][d] <= Hops[n][d]
  <2> DEFINE Bad == {n \in IDs : ~ (dist_vector[n][d] <= Hops[n][d])}
             T == {Hops[n][d] : n \in Bad}
  <2> SUFFICES ASSUME Bad # {}
               PROVE  FALSE
    OBVIOUS
  <2>1. T \in SUBSET Nat /\ T # {}
    BY Numbers, MaxNodesAssumption, <1>1 DEF IInv
  <2>2. PICK x \in T : \A y \in T : x <= y
    BY <2>1, LeastElement
  <2>3. PICK n \in Bad : Hops[n][d] = x
    BY <2>2
  <2>4. dist_vector[n][d] \in 0 .. MAX_NODES /\ Hops[n][d] \in 0 .. MAX_NODES
    BY <1>1, <2>3, Numbers DEF IInv
  <2>5. Hops[n][d] < MAX_NODES
    BY <2>3, <2>4, MaxNodesAssumption
  <2>6. n # d
    <3>1. dist_vector[d][d] = 0 /\ Hops[d][d] = 0
      BY <1>1, HopsAssumption DEF IInv, DirectKnown, Settled
    <3>2. QED
      BY <3>1, <2>3
  <2>7. PICK h \in Nbr[n] : Hops[n][d] = 1 + Hops[h][d]
    BY <1>1, <2>3, <2>5, <2>6, HopsAssumption
  <2>8. h \in IDs
    BY NbrAssumption, <2>3
  <2>9. /\ Hops[h][d] \in 0 .. MAX_NODES
        /\ dist_vector[h][d] \in 0 .. MAX_NODES
    BY <1>1, <2>8, Numbers DEF IInv
  <2>10. h \notin Bad
    <3>1. ASSUME h \in Bad
          PROVE  FALSE
      <4>1. x <= Hops[h][d]
        <5>1. Hops[h][d] \in T
          BY <3>1
        <5>2. QED
          BY <2>2, <5>1
      <4>2. QED
        BY <4>1, <2>3, <2>7, <2>9
    <3>2. QED
      BY <3>1
  <2>11. dist_vector[h][d] <= Hops[h][d]
    BY <2>8, <2>10
  <2>12. dist_vector[n][d] <= 1 + dist_vector[h][d]
    BY <1>1, <2>3, <2>7, SettledBellman
  <2>13. ~ (dist_vector[n][d] <= Hops[n][d])
    BY <2>3
  <2> HIDE DEF Bad, T
  <2>14. QED
    BY <2>4, <2>7, <2>9, <2>11, <2>12, <2>13
<1>2. ASSUME NEW n \in IDs, NEW d \in IDs
      PROVE  dist_vector[n][d] = Hops[n][d]
  <2>1. dist_vector[n][d] <= Hops[n][d] /\ dist_vector[n][d] >= Hops[n][d]
    BY <1>1 DEF IInv, NeverTooClose
  <2>2. dist_vector[n][d] \in Int /\ Hops[n][d] \in Int
    BY Numbers DEF IInv
  <2>3. QED
    BY <2>1, <2>2
<1>3. /\ dist_vector \in [IDs -> [IDs -> Dist]]
      /\ Hops \in [IDs -> [IDs -> 0 .. MAX_NODES]]
  BY HopsAssumption DEF IInv, TypeOK, Vector
<1>4. ASSUME NEW n \in IDs
      PROVE  dist_vector[n] = Hops[n]
  <2>1. /\ dist_vector[n] \in [IDs -> Dist]
        /\ Hops[n] \in [IDs -> 0 .. MAX_NODES]
    BY <1>3
  <2>2. QED
    BY <1>2, <2>1
<1>5. QED
  BY <1>3, <1>4

(* An exchange that is over has found the shortest routes.                 *)
THEOREM SettledIsShortestAlways == Spec => []SettledIsShortest
BY InductiveInvariant, InvariantSettled, PTL
=============================================================================
