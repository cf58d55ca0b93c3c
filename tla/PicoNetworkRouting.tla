------------------------- MODULE PicoNetworkRouting -------------------------
(***************************************************************************)
(* The routing of PicoNetwork: its exchange of vectors implements          *)
(* DvExchange, and data follows the routes.  Board b is the one with ID b, *)
(* which is how the token numbers the boards of the instances.             *)
(***************************************************************************)
EXTENDS PicoNetwork

CONSTANT Hops   \* Hops[n][d]: the true hop distance

ASSUME RoutingAssumption ==
  /\ Boards = IDs
  /\ Hops \in [IDs -> Vector]
  /\ \A b \in Boards \ {0} : \E h \in InRange[b] : h < b  \* b's parent, for one
  \* Hops is 0 at the destination, an edge changes it by at most one, and
  \* some edge on a shortest path does
  /\ \A d \in IDs : Hops[d][d] = 0
  /\ \A b, d \in IDs : \A h \in InRange[b] :
       Hops[b][d] <= Hops[h][d] + DEFAULT_COST
  /\ \A b, d \in IDs :
       d # b /\ Hops[b][d] # DIST_IF_NO_ROUTE
         => \E h \in InRange[b] : Hops[h][d] + DEFAULT_COST = Hops[b][d]

-----------------------------------------------------------------------------
(* The vectors on their way: queued to be sent, or received and not looked *)
(* at                                                                      *)
Buffers == {send_queue[b] : b \in Boards} \cup {recv_data[b] : b \in Boards}

InTransit ==
  {[src |-> p.src, dst |-> p.dest, dv |-> p.dv] :
     p \in {q \in Buffers \ {NONE} : q.type = "dv"}}

StoredVector ==
  [b \in IDs |-> [h \in IDs |->
     IF h \in DOMAIN nbrs[b] THEN nbrs[b][h].dist_vector ELSE EmptyVector]]

Exchange == INSTANCE DvExchange WITH
  Nbr <- InRange, nbr_vector <- StoredVector, adverts <- InTransit

(* The threads, the radio and the one-packet buffers, with their losses    *)
(* and repetitions, implement DvExchange: a board only ever takes a vector *)
(* that is addressed to it, comes from a neighbor and was at some time     *)
(* that neighbor's.  So the theorems of DvExchange_proofs hold of it.      *)
ImplementsExchange == Exchange!Spec

(* When the boards have come to rest after an exchange, the routes are the *)
(* shortest ones (main.c:273-300).  No counterexample is known if one      *)
(* board starts the exchange.  If two do, a neighbor may be left out whose *)
(* flag up_to_date was set by the ack of an old vector (main.c:637).       *)
RestIsShortest == todo = {} /\ AtRest => dist_vector = Hops

(* A network that has come to rest after an exchange has the shortest      *)
(* routes, however many boards started it, if each neighbor that a board   *)
(* has marked as up to date holds its vector (main.c:273-300, 637-655).    *)
RestIsShortestIfHeld ==
  (\E c \in Commands \ todo : c.kind = "dv") /\ UpToDateMeansHolds
    => RestIsShortest
-----------------------------------------------------------------------------
(* The state a complete exchange ends in                                   *)
ShortestTable(b) ==
  [d \in IDs |->
     IF d = b \/ Hops[b][d] = DIST_IF_NO_ROUTE THEN NO_ROUTE
     ELSE Min({h \in InRange[b] : Hops[h][d] + DEFAULT_COST = Hops[b][d]})]

InitConverged ==
  /\ Numbered
  /\ dist_vector = Hops
  /\ routing_table = [b \in Boards |-> ShortestTable(b)]
  /\ nbrs = [b \in Boards |-> [h \in InRange[b] |->
               [dist_vector |-> Poisoned(Hops[h], ShortestTable(h), b),
                up_to_date  |-> TRUE]]]
  /\ InitThreads
  /\ todo = Commands \ TokenCommands

(* From power-up, or with routes; no vector is exchanged, so no boards     *)
(* have to fall out of step.                                               *)
FairNetwork == (InitBoot \/ InitConverged) /\ [][Next]_vars /\ Scheduled

(* Data that is typed arrives at its destination, unless something goes    *)
(* wrong on the radio (main.c:567-600).                                    *)
Arrived(c) ==
  LET p == recv_data[c.dest] IN p # NONE /\ p.type = "data" /\ p.dest = c.dest

DataArrives ==
  \A c \in Commands :
    c.kind = "data" /\ c \in todo
      => [](c \in todo) \/ <>(Arrived(c) \/ faults > 0)
=============================================================================
