------------------------- MODULE PicoNetwork_proofs -------------------------
(***************************************************************************)
(* The program of distance_vector/ with routes in place: its exchange of   *)
(* vectors implements DvExchange, no neighbor is looked up that is not     *)
(* there, data comes closer with every hop, and a network at rest has the  *)
(* shortest routes unless a flag up_to_date is stale.  For any boards and  *)
(* ranges, any commands but "token", any faults, and any number of packets *)
(* that wait.  The token, IDs and neighbors: from power-up, too.           *)
(***************************************************************************)
EXTENDS PicoNetworkData, PicoNetworkBoot_proofs, WellFoundedInduction, TLAPS

-----------------------------------------------------------------------------
(* The inductive invariant *)

(* Neighbor finding is over, and nothing starts it again.                  *)
NumberedOK ==
  /\ ID = [b \in Boards |-> b]
  /\ wifi_ssid = [b \in Boards |-> b]
  /\ knows_nbrs = [b \in Boards |-> TRUE]
  /\ DOMAIN nbrs = Boards
  /\ \A b \in Boards : nbrs[b] \in [InRange[b] -> Nbr_t]
  /\ todo \subseteq Commands \ TokenCommands

(* An access point has joined nobody, and a board that blocks has let go   *)
(* of its links and has acted on the last signal.                          *)
RadioOK(b) ==
  /\ pc[b] \in {"poll", "dv_scan", "join"}
  /\ target_ID[b] # NF_SCAN
  /\ access_point[b] => assoc[b] = NONE
  /\ pc[b] # "poll" => /\ ~ access_point[b] /\ assoc[b] = NONE
                       /\ ~ signal_connect_thread[b]

(* Board b is about to join board h, or has joined it with nothing else in *)
(* mind: what it has queued will be sent to h.                             *)
Bound(b, h) ==
  \/ signal_connect_thread[b] /\ target_ID[b] = h
  \/ pc[b] = "join" /\ target_ID[b] = h
  \/ pc[b] = "poll" /\ ~ signal_connect_thread[b] /\ assoc[b] = h

(* What b may queue to send, *)
Composed(b, p) ==
  /\ p.type \in {"data", "dv"} /\ p.src = b /\ p.dest \in IDs /\ p.acked = ""
  /\ p.type = "dv" => p.dest \in InRange[b]

(* to acknowledge, *)
Answer(b, p) ==
  /\ p.type = "ack" /\ p.acked \in {"data", "dv"} /\ p.src = b
  /\ p.acked = "dv" => p.ip \in InRange[b]

(* and receive: a vector is addressed to it and a neighbor's.              *)
Received(b, p) ==
  /\ p.type \in {"data", "dv", "ack"} /\ p.src \in IDs
  /\ p.type # "ack" => p.dest \in IDs /\ p.acked = ""
  /\ p.type = "dv" => p.dest = b /\ p.src \in InRange[b] /\ p.ip = p.src
  /\ p.type = "ack" => p.acked \in {"data", "dv"}
  /\ p.acked = "dv" => p.src \in InRange[b]

(* A vector in the send queue goes to the board it was composed for.       *)
SendOK(b) ==
  /\ signal_send_thread[b] => send_queue[b] # NONE
  /\ send_queue[b] # NONE =>
       /\ Composed(b, send_queue[b])
       /\ send_queue[b].type = "dv"
            => \A h \in Boards : Bound(b, h) => send_queue[b].dest = h

RecvOK(b) ==
  /\ new_udp_recv_s[b] > 0 => recv_data[b] # NONE
  /\ recv_data[b] # NONE => Received(b, recv_data[b])

AckOK(b) ==
  /\ new_udp_ack_s[b] \in {0, 1}
  /\ new_udp_ack_s[b] = 1 => ack_queue[b] # NONE
  /\ ack_queue[b] # NONE => Answer(b, ack_queue[b])

RoutedInv ==
  /\ TypeOK /\ NumberedOK
  /\ \A b \in Boards : RadioOK(b) /\ SendOK(b) /\ RecvOK(b) /\ AckOK(b)

-----------------------------------------------------------------------------
(* Packets *)

(* The special values of target_ID, of a route and of an ID are no IDs.    *)
LEMMA Numbers ==
  /\ MAX_NODES \in Nat /\ MAX_NODES > 0 /\ Boards = IDs /\ IDs = 0 .. MAX_NODES - 1
  /\ DV_SCAN = -3 /\ NF_SCAN = -2 /\ ENABLE_AP = -1 /\ NO_ROUTE = -1
  /\ DEFAULT_ID = -1 /\ PIDOG = -2
BY MaxNodesAssumption, RoutingAssumption
   DEF IDs, DV_SCAN, NF_SCAN, ENABLE_AP, NO_ROUTE, DEFAULT_ID, PIDOG

(* The packet that b sends to h, and the ack it sends to where a packet    *)
(* came from, are ones to receive there.                                   *)
LEMMA SentIsReceived ==
  ASSUME NEW b \in Boards, NEW h \in Boards, NEW p \in PacketSet, Composed(b, p),
         p.type = "dv" => p.dest = h
  PROVE  [p EXCEPT !.ip = b] \in PacketSet /\ Received(h, [p EXCEPT !.ip = b])
BY Numbers, BoardsAssumption DEF Composed, Received, PacketSet

LEMMA AckIsReceived ==
  ASSUME NEW b \in Boards, NEW p \in PacketSet, Answer(b, p)
  PROVE  /\ p.ip \in Boards /\ [p EXCEPT !.ip = b] \in PacketSet
         /\ Received(p.ip, [p EXCEPT !.ip = b])
BY Numbers, BoardsAssumption DEF Answer, Received, PacketSet

(* The ack for a packet *)
AckFor(b, p) == [Packet("ack", p.src, b, p.ip) EXCEPT !.acked = p.type]

LEMMA AckIsAnswer ==
  ASSUME NEW b \in Boards, NEW p \in PacketSet, Received(b, p), p.type # "ack"
  PROVE  AckFor(b, p) \in PacketSet /\ Answer(b, AckFor(b, p))
<1>1. /\ "ack" \in PacketType /\ p.src \in -3 .. MAX_NODES /\ b \in -1 .. MAX_NODES
      /\ p.ip \in Boards /\ p.type \in PacketType
  <2>1. p.src \in IDs
    BY DEF Received
  <2>2. p.ip \in Boards /\ p.type \in PacketType
    BY DEF PacketSet
  <2>3. QED
    BY <2>1, <2>2, Numbers DEF PacketType
<1>2. Packet("ack", p.src, b, p.ip) \in PacketSet
  BY <1>1, NewPacket
<1>3. AckFor(b, p) \in PacketSet
  BY <1>1, <1>2 DEF AckFor, PacketSet
<1>4. Answer(b, AckFor(b, p))
  BY DEF Answer, AckFor, Packet, Received
<1>5. QED
  BY <1>3, <1>4

(* Data that is forwarded or typed, and a vector for a neighbor            *)
LEMMA ForwardedIsComposed ==
  ASSUME NEW b \in Boards, NEW p \in PacketSet, Received(b, p), p.type = "data"
  PROVE  [p EXCEPT !.src = b] \in PacketSet /\ Composed(b, [p EXCEPT !.src = b])
<1>1. b \in -1 .. MAX_NODES
  BY Numbers
<1>2. [p EXCEPT !.src = b] \in PacketSet
  BY <1>1 DEF PacketSet
<1>3. p.dest \in IDs /\ p.acked = ""
  BY DEF Received
<1>4. QED
  BY <1>2, <1>3 DEF Composed, PacketSet

LEMMA TypedIsComposed ==
  ASSUME NEW b \in Boards, NEW d \in IDs
  PROVE  Packet("data", d, b, b) \in PacketSet /\ Composed(b, Packet("data", d, b, b))
<1>1. "data" \in PacketType /\ d \in -3 .. MAX_NODES /\ b \in -1 .. MAX_NODES
  BY Numbers DEF PacketType
<1>2. QED
  BY <1>1, NewPacket DEF Composed, Packet

LEMMA VectorIsComposed ==
  ASSUME TypeOK, NumberedOK, NEW b \in Boards, NEW h \in InRange[b]
  PROVE  /\ DvFor(b, h) \in PacketSet /\ Composed(b, DvFor(b, h))
         /\ DvFor(b, h).type = "dv" /\ DvFor(b, h).dest = h
         /\ DvFor(b, h).dv = Poisoned(dist_vector[b], routing_table[b], h)
<1>1. ID[b] = b /\ h \in Boards
  BY BoardsAssumption DEF NumberedOK
<1>2. "dv" \in PacketType /\ h \in -3 .. MAX_NODES /\ b \in -1 .. MAX_NODES
  BY <1>1, Numbers DEF PacketType
<1>3. Packet("dv", h, b, b) \in PacketSet
  BY <1>2, NewPacket
<1>4. Poisoned(dist_vector[b], routing_table[b], h) \in WireVector
  <2>1. dist_vector[b] \in Vector /\ routing_table[b] \in Table /\ h \in IDs
    BY <1>1, Numbers DEF TypeOK
  <2>2. QED
    BY <2>1, VectorTypes
<1> DEFINE v == Poisoned(dist_vector[b], routing_table[b], h)
           q == Packet("dv", h, b, b)
<1>5. DvFor(b, h) = [q EXCEPT !.dv = v]
  BY <1>1 DEF DvFor
<1>6. q.type = "dv" /\ q.dest = h /\ q.src = b /\ q.acked = "" /\ q.ip = b
  BY DEF Packet
<1> HIDE DEF v, q
<1>7. [q EXCEPT !.dv = v] \in PacketSet
  BY <1>3, <1>4 DEF PacketSet, v, q
<1>8. [q EXCEPT !.dv = v].type = "dv" /\ [q EXCEPT !.dv = v].dest = h
      /\ [q EXCEPT !.dv = v].dv = v /\ Composed(b, [q EXCEPT !.dv = v])
  BY <1>1, <1>3, <1>6, Numbers DEF Composed, PacketSet, q
<1>9. QED
  BY <1>5, <1>7, <1>8 DEF v

-----------------------------------------------------------------------------
(* The start *)

(* A set of IDs has a greatest element.                                    *)
LEMMA GreatestID ==
  ASSUME NEW S \in SUBSET IDs, S # {}
  PROVE  Max(S) \in S
<1> DEFINE T == {MAX_NODES - x : x \in S}
<1>1. T \in SUBSET Nat /\ T # {}
  <2>1. \A x \in S : MAX_NODES - x \in Nat
    BY Numbers
  <2>2. QED
    BY <2>1
<1> HIDE DEF T
<1>2. PICK y \in T : \A z \in T : <<z, y>> \notin OpToRel(<, Nat)
  BY <1>1, NatLessThanWellFounded, WFMin
<1>3. \A z \in T : y <= z
  <2>1. \A z \in T : ~ (z < y)
    BY <1>1, <1>2 DEF OpToRel
  <2>2. QED
    BY <1>1, <2>1
<1> USE DEF T
<1>4. PICK x \in S : y = MAX_NODES - x
  BY <1>2
<1>5. \A z \in S : x >= z
  <2> SUFFICES ASSUME NEW z \in S PROVE x >= z
    OBVIOUS
  <2>1. y <= MAX_NODES - z
    BY <1>3
  <2>2. x \in Int /\ z \in Int
    BY Numbers
  <2>3. QED
    BY <1>4, <2>1, <2>2, Numbers
<1>6. QED
  BY <1>5 DEF Max

(* and a least one.                                                        *)
LEMMA LeastID ==
  ASSUME NEW S \in SUBSET IDs, S # {}
  PROVE  Min(S) \in S
<1>1. S \in SUBSET Nat
  BY Numbers
<1>2. PICK x \in S : \A z \in S : <<z, x>> \notin OpToRel(<, Nat)
  BY <1>1, NatLessThanWellFounded, WFMin
<1>3. \A z \in S : x <= z
  <2>1. \A z \in S : ~ (z < x)
    BY <1>1, <1>2 DEF OpToRel
  <2>2. QED
    BY <1>1, <2>1
<1>4. QED
  BY <1>3 DEF Min

(* With routes, whatever they are, all is well.                            *)
LEMMA StartTypes ==
  ASSUME Numbered, InitThreads, todo = Commands \ TokenCommands,
         dist_vector \in [Boards -> Vector], routing_table \in [Boards -> Table],
         DOMAIN nbrs = Boards, \A b \in Boards : nbrs[b] \in [InRange[b] -> Nbr_t]
  PROVE  TypeOK /\ NumberedOK
<1>1. parent_ID \in [Boards -> IDs \cup {DEFAULT_ID}]
  <2>1. ASSUME NEW b \in Boards, b # 0 PROVE Max({h \in InRange[b] : h < b}) \in IDs
    <3>1. {h \in InRange[b] : h < b} \in SUBSET IDs /\ {h \in InRange[b] : h < b} # {}
      BY <2>1, BoardsAssumption, RoutingAssumption
    <3>2. QED
      BY <3>1, GreatestID
  <2>2. QED
    BY <2>1 DEF Numbered
<1>2. /\ ID = [b \in Boards |-> b] /\ wifi_ssid = [b \in Boards |-> b]
      /\ knows_nbrs = [b \in Boards |-> TRUE] /\ ID_is_nbr = InRange
      /\ access_point = [b \in Boards |-> TRUE] /\ pc = [b \in Boards |-> "poll"]
  BY DEF Numbered
<1>3. InRange \in [Boards -> SUBSET IDs]
  BY BoardsAssumption, Numbers
<1>4. NumberedOK
  BY <1>2 DEF NumberedOK
<1>5. \A b \in Boards : \E S \in SUBSET IDs : nbrs[b] \in [S -> Nbr_t]
  BY <1>3
<1>6. /\ ID \in [Boards -> IDs \cup {DEFAULT_ID}]
      /\ wifi_ssid \in [Boards -> IDs \cup {DEFAULT_ID, PIDOG}]
      /\ knows_nbrs \in [Boards -> BOOLEAN] /\ ID_is_nbr \in [Boards -> SUBSET IDs]
      /\ access_point \in [Boards -> BOOLEAN]
      /\ pc \in [Boards -> {"boot", "poll", "dv_scan", "nf_scan", "nf_join", "join"}]
  BY <1>2, <1>3, Numbers
<1>7. todo \subseteq Commands /\ faults \in 0 .. MaxFaults
  BY BoardsAssumption DEF InitThreads
<1>8. /\ assoc \in [Boards -> Boards \cup {NONE}]
      /\ phase \in [Boards -> {"nothing", "nb_finding", "dv_routing"}]
      /\ target_ID \in [Boards -> {DV_SCAN, NF_SCAN, ENABLE_AP} \cup IDs]
      /\ signal_connect_thread \in [Boards -> BOOLEAN]
      /\ next_dv_scan \in [Boards -> {"never", "asap", "later"}]
      /\ joining \in [Boards -> Boards \cup {NONE}]
      /\ pidogs_found \in [Boards -> BOOLEAN]
      /\ signal_send_thread \in [Boards -> BOOLEAN]
      /\ send_queue \in [Boards -> PacketSet \cup {NONE}]
      /\ recv_data \in [Boards -> PacketSet \cup {NONE}]
      /\ new_udp_recv_s \in [Boards -> Nat]
      /\ due \in [Boards -> BOOLEAN]
      /\ ack_queue \in [Boards -> PacketSet \cup {NONE}]
      /\ new_udp_ack_s \in [Boards -> Nat]
      /\ ack_queue_empty \in [Boards -> BOOLEAN]
  BY DEF InitThreads, Idle
<1>9. QED
  BY <1>1, <1>4, <1>5, <1>6, <1>7, <1>8, Zenon DEF TypeOK

LEMMA StartRouted ==
  ASSUME Numbered, InitThreads, TypeOK, NumberedOK
  PROVE  RoutedInv
<1>1. ASSUME NEW b \in Boards PROVE RadioOK(b) /\ SendOK(b) /\ RecvOK(b) /\ AckOK(b)
  BY Numbers DEF Numbered, InitThreads, Idle, RadioOK, SendOK, RecvOK, AckOK
<1>2. QED
  BY <1>1 DEF RoutedInv

(* What neighbor finding leaves behind,                                    *)
LEMMA InitRInv == InitRouted => RoutedInv
<1> SUFFICES ASSUME InitRouted PROVE RoutedInv
  OBVIOUS
<1>1. Numbered /\ InitThreads /\ todo = Commands \ TokenCommands
  BY DEF InitRouted, NeighborsFound
<1>2. dist_vector \in [Boards -> Vector] /\ routing_table \in [Boards -> Table]
  <2>1. \A b \in Boards : b \in IDs /\ InRange[b] \in SUBSET IDs
    BY BoardsAssumption, Numbers
  <2>2. \A b \in Boards : /\ InitVector(EmptyVector, b, InRange[b]) \in Vector
                          /\ InitTable(EmptyTable, InRange[b]) \in Table
    BY <2>1, VectorTypes
  <2>3. QED
    BY <2>2 DEF InitRouted, NeighborsFound
<1>3. DOMAIN nbrs = Boards /\ \A b \in Boards : nbrs[b] \in [InRange[b] -> Nbr_t]
  BY VectorTypes DEF InitRouted, NeighborsFound, NewNbr, Nbr_t
<1>4. TypeOK /\ NumberedOK
  BY <1>1, <1>2, <1>3, StartTypes
<1>5. QED
  BY <1>1, <1>4, StartRouted

(* and what a complete exchange does.                                      *)
LEMMA ShortestTables == \A b \in IDs : Hops[b] \in Vector /\ ShortestTable(b) \in Table
<1>1. Hops \in [IDs -> Vector]
  BY RoutingAssumption
<1>2. ASSUME NEW b \in IDs, NEW d \in IDs, d # b, Hops[b][d] # DIST_IF_NO_ROUTE
      PROVE  Min({h \in InRange[b] : Hops[h][d] + DEFAULT_COST = Hops[b][d]}) \in IDs
  <2> DEFINE S == {h \in InRange[b] : Hops[h][d] + DEFAULT_COST = Hops[b][d]}
  <2>1. S \in SUBSET IDs
    BY BoardsAssumption, Numbers
  <2>2. S # {}
    BY <1>2, RoutingAssumption
  <2>3. QED
    BY <2>1, <2>2, LeastID
<1>3. QED
  BY <1>1, <1>2 DEF ShortestTable, Table

LEMMA InitCInv == InitConverged => RoutedInv
<1> SUFFICES ASSUME InitConverged PROVE RoutedInv
  OBVIOUS
<1>1. Numbered /\ InitThreads /\ todo = Commands \ TokenCommands
  BY DEF InitConverged
<1>2. dist_vector \in [Boards -> Vector] /\ routing_table \in [Boards -> Table]
  BY ShortestTables, Numbers, RoutingAssumption DEF InitConverged
<1>3. DOMAIN nbrs = Boards /\ \A b \in Boards : nbrs[b] \in [InRange[b] -> Nbr_t]
  <2>1. ASSUME NEW b \in Boards, NEW h \in InRange[b]
        PROVE  Poisoned(Hops[h], ShortestTable(h), b) \in WireVector
    <3>1. h \in IDs /\ b \in IDs
      BY BoardsAssumption, Numbers
    <3>2. Hops[h] \in Vector /\ ShortestTable(h) \in Table
      BY <3>1, ShortestTables
    <3>3. QED
      BY <3>1, <3>2, VectorTypes
  <2>2. QED
    BY <2>1 DEF InitConverged, Nbr_t
<1>4. TypeOK /\ NumberedOK
  BY <1>1, <1>2, <1>3, StartTypes
<1>5. QED
  BY <1>1, <1>4, StartRouted

-----------------------------------------------------------------------------
(* The steps *)

LEMMA TypesFromParts ==
  /\ TypeOK => PlainTypes
  /\ PlainTypes /\ NumberedOK => TypeOK
<1>1. NumberedOK => \A b \in Boards : \E S \in SUBSET IDs : nbrs[b] \in [S -> Nbr_t]
  BY BoardsAssumption DEF NumberedOK
<1>2. TypeOK => PlainTypes
  BY Zenon DEF TypeOK, PlainTypes
<1>3. PlainTypes /\ NumberedOK => TypeOK
  BY <1>1, Zenon DEF TypeOK, PlainTypes
<1>4. QED
  BY <1>2, <1>3

BoardOK(b) == RadioOK(b) /\ SendOK(b) /\ RecvOK(b) /\ AckOK(b)

PlainInv == PlainTypes /\ NumberedOK /\ \A b \in Boards : BoardOK(b)

LEMMA PlainIsRouted == PlainInv <=> RoutedInv
BY TypesFromParts, Zenon DEF PlainInv, RoutedInv, BoardOK

LEMMA PlainIsRoutedNext == PlainInv' <=> RoutedInv'
BY PlainIsRouted, PTL

(* A packet that is sent arrives or does not.                              *)
LEMMA Sent ==
  ASSUME PlainInv, NEW a \in Boards, NEW h, NEW p, Transmit(a, h, p),
         h \in Boards => p \in PacketSet /\ Received(h, p)
  PROVE  /\ recv_data' \in [Boards -> PacketSet \cup {NONE}]
         /\ new_udp_recv_s' \in [Boards -> Nat] /\ due' = due
         /\ faults' \in 0 .. MaxFaults
         /\ \A c \in Boards : RecvOK(c)'
<1>1. PlainTypes /\ \A c \in Boards : RecvOK(c)
  BY DEF PlainInv, BoardOK
<1>2. CASE h \in Boards /\ Callback(h, p) /\ UNCHANGED faults
  <2>1. /\ recv_data' \in [Boards -> PacketSet \cup {NONE}]
        /\ new_udp_recv_s' \in [Boards -> Nat]
    BY <1>1, <1>2 DEF Callback, PlainTypes
  <2>2. ASSUME NEW c \in Boards PROVE RecvOK(c)'
    <3>1. CASE c = h
      BY <1>1, <1>2, <3>1, NoneAssumption DEF Callback, PlainTypes, RecvOK
    <3>2. CASE c # h
      BY <1>1, <1>2, <3>2 DEF Callback, PlainTypes, RecvOK
    <3>3. QED
      BY <3>1, <3>2
  <2>3. QED
    BY <1>1, <1>2, <2>1, <2>2 DEF Callback, PlainTypes
<1>3. CASE UNCHANGED recvVars /\ (UNCHANGED faults \/ Fault)
  BY <1>1, <1>3, BoardsAssumption DEF Fault, recvVars, PlainTypes, RecvOK
<1>4. QED
  BY <1>2, <1>3 DEF Transmit

LEMMA SendKeeps == ASSUME PlainInv, NEW b \in Boards, Send(b) PROVE PlainInv'
<1> DEFINE q == [send_queue[b] EXCEPT !.ip = b]
<1>1. PlainTypes /\ NumberedOK /\ (\A c \in Boards : BoardOK(c)) /\ send_queue[b] # NONE
  BY DEF PlainInv, Send, BoardOK, SendOK
<1>2. assoc[b] \in Boards => q \in PacketSet /\ Received(assoc[b], q)
  <2> SUFFICES ASSUME assoc[b] \in Boards PROVE q \in PacketSet /\ Received(assoc[b], q)
    OBVIOUS
  <2>1. send_queue[b] \in PacketSet /\ Composed(b, send_queue[b])
    BY <1>1 DEF BoardOK, SendOK, PlainTypes
  <2>2. Bound(b, assoc[b])
    BY DEF Bound, Send, Turn
  <2>3. send_queue[b].type = "dv" => send_queue[b].dest = assoc[b]
    BY <1>1, <2>2 DEF BoardOK, SendOK
  <2>4. QED
    BY <2>1, <2>3, SentIsReceived
<1>3. /\ recv_data' \in [Boards -> PacketSet \cup {NONE}]
      /\ new_udp_recv_s' \in [Boards -> Nat] /\ due' = due
      /\ faults' \in 0 .. MaxFaults
      /\ \A c \in Boards : RecvOK(c)'
  BY <1>2, Sent DEF Send
<1>4. PlainTypes'
  BY <1>1, <1>3 DEF PlainTypes, Send, Dequeue, selfVars, radioVars, connectVars, ackVars
<1>5. NumberedOK'
  BY <1>1 DEF NumberedOK, Send, selfVars
<1>6. ASSUME NEW c \in Boards PROVE BoardOK(c)'
  <2>1. BoardOK(c)
    BY <1>1
  <2>2. RadioOK(c)' /\ AckOK(c)'
    BY <2>1 DEF BoardOK, RadioOK, AckOK, Send, radioVars, connectVars, ackVars
  <2>3. SendOK(c)'
    BY <1>1, <2>1 DEF BoardOK, SendOK, Bound, Send, Dequeue, radioVars, connectVars, PlainTypes
  <2>4. QED
    BY <1>3, <2>2, <2>3 DEF BoardOK
<1>7. QED
  BY <1>4, <1>5, <1>6 DEF PlainInv

LEMMA AckKeeps == ASSUME PlainInv, NEW b \in Boards, Ack(b) PROVE PlainInv'
<1> DEFINE q == [ack_queue[b] EXCEPT !.ip = b]
<1>1. PlainTypes /\ NumberedOK /\ (\A c \in Boards : BoardOK(c)) /\ new_udp_ack_s[b] = 1
  BY DEF PlainInv, Ack, BoardOK, AckOK
<1>2. q \in PacketSet /\ (AckTo(b) \in Boards => Received(AckTo(b), q))
  <2>1. ack_queue[b] \in PacketSet /\ Answer(b, ack_queue[b])
    BY <1>1 DEF BoardOK, AckOK, PlainTypes
  <2>2. QED
    BY <2>1, AckIsReceived, NoneAssumption DEF AckTo
<1>3. /\ recv_data' \in [Boards -> PacketSet \cup {NONE}]
      /\ new_udp_recv_s' \in [Boards -> Nat] /\ due' = due
      /\ faults' \in 0 .. MaxFaults
      /\ \A c \in Boards : RecvOK(c)'
  BY <1>2, Sent DEF Ack
<1>4. PlainTypes'
  BY <1>1, <1>3 DEF PlainTypes, Ack, selfVars, radioVars, connectVars, sendVars
<1>5. NumberedOK'
  BY <1>1 DEF NumberedOK, Ack, selfVars
<1>6. ASSUME NEW c \in Boards PROVE BoardOK(c)'
  <2>1. BoardOK(c)
    BY <1>1
  <2>2. RadioOK(c)' /\ SendOK(c)'
    BY <2>1 DEF BoardOK, RadioOK, SendOK, Bound, Ack, radioVars, connectVars, sendVars
  <2>3. AckOK(c)'
    BY <1>1, <2>1 DEF BoardOK, AckOK, Ack, PlainTypes
  <2>4. QED
    BY <1>3, <2>2, <2>3 DEF BoardOK
<1>7. QED
  BY <1>4, <1>5, <1>6 DEF PlainInv

(* The packet that the recv thread takes                                   *)
LEMMA Taken ==
  ASSUME PlainInv, NEW b \in Boards, NEW type, TakePacket(b, type)
  PROVE  /\ recv_data[b] \in PacketSet /\ Received(b, recv_data[b])
         /\ recv_data[b].type = type /\ type \in {"data", "dv", "ack"}
         /\ pc[b] = "poll" /\ new_udp_ack_s[b] = 0 /\ ID[b] = b
         /\ recv_data' \in [Boards -> PacketSet \cup {NONE}]
         /\ new_udp_recv_s' \in [Boards -> Nat]
         /\ due' \in [Boards -> BOOLEAN]
         /\ \A c \in Boards : RecvOK(c)'
         /\ \A c \in Boards : recv_data'[c] \in {recv_data[c], NONE}
         /\ UNCHANGED <<access_point, assoc, pc, joining, pidogs_found, todo, faults>>
<1>1. PlainTypes /\ NumberedOK /\ \A c \in Boards : BoardOK(c)
  BY DEF PlainInv
<1>2. recv_data[b] # NONE /\ Received(b, recv_data[b]) /\ recv_data[b] \in PacketSet
  BY <1>1 DEF TakePacket, BoardOK, RecvOK, PlainTypes
<1>3. recv_data[b].type = type /\ pc[b] = "poll" /\ new_udp_ack_s[b] = 0
  BY DEF TakePacket, Turn
<1>4. type \in {"data", "dv", "ack"} /\ ID[b] = b
  BY <1>1, <1>2, <1>3 DEF Received, NumberedOK
<1>5. /\ recv_data' \in [Boards -> PacketSet \cup {NONE}]
      /\ new_udp_recv_s' \in [Boards -> Nat]
      /\ due' \in [Boards -> BOOLEAN]
      /\ \A c \in Boards : recv_data'[c] \in {recv_data[c], NONE}
  BY <1>1 DEF TakePacket, PlainTypes
<1>6. ASSUME NEW c \in Boards PROVE RecvOK(c)'
  BY <1>1 DEF TakePacket, BoardOK, RecvOK, PlainTypes
<1>7. UNCHANGED <<access_point, assoc, pc, joining, pidogs_found, todo, faults>>
  BY DEF TakePacket, radioVars, envVars
<1>8. QED
  BY <1>2, <1>3, <1>4, <1>5, <1>6, <1>7

(* Its ack is queued.                                                      *)
LEMMA AckQueued ==
  ASSUME PlainInv, NEW b \in Boards, NEW p \in PacketSet, Received(b, p), p.type # "ack",
         new_udp_ack_s[b] = 0, QueueAck(b, p)
  PROVE  /\ ack_queue' \in [Boards -> PacketSet \cup {NONE}]
         /\ new_udp_ack_s' \in [Boards -> Nat]
         /\ ack_queue_empty' \in [Boards -> BOOLEAN]
         /\ \A c \in Boards : AckOK(c)'
<1>1. PlainTypes /\ NumberedOK /\ \A c \in Boards : BoardOK(c)
  BY DEF PlainInv
<1>2. AckFor(b, p) \in PacketSet /\ Answer(b, AckFor(b, p))
  BY AckIsAnswer
<1>3. ack_queue' = [ack_queue EXCEPT ![b] = AckFor(b, p)]
  BY <1>1 DEF QueueAck, AckFor, NumberedOK
<1>4. /\ ack_queue' \in [Boards -> PacketSet \cup {NONE}]
      /\ new_udp_ack_s' \in [Boards -> Nat]
      /\ ack_queue_empty' \in [Boards -> BOOLEAN]
  BY <1>1, <1>2, <1>3 DEF QueueAck, PlainTypes
<1>5. ASSUME NEW c \in Boards PROVE AckOK(c)'
  <2>1. CASE c = b
    <3>1. ack_queue'[b] = AckFor(b, p) /\ new_udp_ack_s'[b] = 1
      BY <1>1, <1>3 DEF QueueAck, PlainTypes
    <3>2. QED
      BY <1>2, <2>1, <3>1, NoneAssumption DEF AckOK
  <2>2. CASE c # b
    BY <1>1, <1>3, <2>2 DEF QueueAck, PlainTypes, BoardOK, AckOK
  <2>3. QED
    BY <2>1, <2>2
<1>6. QED
  BY <1>4, <1>5

(* Data is queued, for wherever the route leads.                           *)
LEMMA Forwarded ==
  ASSUME PlainInv, NEW b \in Boards, NEW p \in PacketSet, Composed(b, p), p.type = "data",
         Forward(b, p), pc[b] = "poll", UNCHANGED <<pc, access_point, assoc>>
  PROVE  /\ send_queue' \in [Boards -> PacketSet \cup {NONE}]
         /\ signal_send_thread' \in [Boards -> BOOLEAN]
         /\ target_ID' \in [Boards -> {DV_SCAN, NF_SCAN, ENABLE_AP} \cup IDs]
         /\ signal_connect_thread' \in [Boards -> BOOLEAN]
         /\ \A c \in Boards : RadioOK(c)' /\ SendOK(c)'
<1>1. PlainTypes /\ \A c \in Boards : BoardOK(c)
  BY DEF PlainInv
<1> DEFINE h == routing_table[b][p.dest]
<1>2. h \in IDs \cup {NO_ROUTE}
  <2>1. routing_table[b] \in [IDs -> IDs \cup {NO_ROUTE}]
    BY <1>1 DEF PlainTypes, Table
  <2>2. p.dest \in IDs
    BY DEF Composed
  <2>3. QED
    BY <2>1, <2>2
<1> HIDE DEF h
<1>3. /\ send_queue' = [send_queue EXCEPT ![b] = p]
      /\ signal_send_thread' = [signal_send_thread EXCEPT ![b] = TRUE]
      /\ target_ID' = [target_ID EXCEPT ![b] = h]
      /\ signal_connect_thread' = [signal_connect_thread EXCEPT ![b] = TRUE]
  BY DEF Forward, Enqueue, Retarget, h
<1>4. /\ send_queue' \in [Boards -> PacketSet \cup {NONE}]
      /\ signal_send_thread' \in [Boards -> BOOLEAN]
      /\ target_ID' \in [Boards -> {DV_SCAN, NF_SCAN, ENABLE_AP} \cup IDs]
      /\ signal_connect_thread' \in [Boards -> BOOLEAN]
  BY <1>1, <1>2, <1>3, Numbers DEF PlainTypes
<1>5. ASSUME NEW c \in Boards PROVE RadioOK(c)' /\ SendOK(c)'
  <2>1. CASE c = b
    <3>1. /\ send_queue'[b] = p /\ target_ID'[b] = h /\ p # NONE
          /\ UNCHANGED <<pc, access_point, assoc>>
      BY <1>1, <1>3, NoneAssumption DEF PlainTypes
    <3>2. QED
      BY <1>1, <1>2, <2>1, <3>1, Numbers DEF BoardOK, RadioOK, SendOK
  <2>2. CASE c # b
    BY <1>1, <1>3, <2>2 DEF PlainTypes, BoardOK, RadioOK, SendOK, Bound
  <2>3. QED
    BY <2>1, <2>2
<1>6. QED
  BY <1>4, <1>5

LEMMA RecvDataKeeps == ASSUME PlainInv, NEW b \in Boards, RecvData(b) PROVE PlainInv'
<1> DEFINE p == recv_data[b]
<1>1. PlainTypes /\ NumberedOK /\ (\A c \in Boards : BoardOK(c)) /\ TakePacket(b, "data")
  BY DEF PlainInv, RecvData
<1>2. /\ p \in PacketSet /\ Received(b, p) /\ p.type = "data"
      /\ pc[b] = "poll" /\ new_udp_ack_s[b] = 0 /\ ID[b] = b
      /\ recv_data' \in [Boards -> PacketSet \cup {NONE}]
      /\ new_udp_recv_s' \in [Boards -> Nat]
      /\ due' \in [Boards -> BOOLEAN]
      /\ \A c \in Boards : RecvOK(c)'
      /\ UNCHANGED <<access_point, assoc, pc, joining, pidogs_found, todo, faults>>
  BY <1>1, Taken
<1>3. QueueAck(b, p)
  BY DEF RecvData
<1> HIDE DEF p
<1>4. /\ ack_queue' \in [Boards -> PacketSet \cup {NONE}]
      /\ new_udp_ack_s' \in [Boards -> Nat]
      /\ ack_queue_empty' \in [Boards -> BOOLEAN]
      /\ \A c \in Boards : AckOK(c)'
  BY <1>2, <1>3, AckQueued
<1>5. /\ send_queue' \in [Boards -> PacketSet \cup {NONE}]
      /\ signal_send_thread' \in [Boards -> BOOLEAN]
      /\ target_ID' \in [Boards -> {DV_SCAN, NF_SCAN, ENABLE_AP} \cup IDs]
      /\ signal_connect_thread' \in [Boards -> BOOLEAN]
      /\ \A c \in Boards : RadioOK(c)' /\ SendOK(c)'
  <2>1. CASE UNCHANGED <<sendVars, target_ID, signal_connect_thread>>
    BY <1>1, <1>2, <2>1 DEF sendVars, PlainTypes, BoardOK, RadioOK, SendOK, Bound
  <2>2. CASE Forward(b, [p EXCEPT !.src = b])
    <3>1. [p EXCEPT !.src = b] \in PacketSet /\ Composed(b, [p EXCEPT !.src = b])
      BY <1>2, ForwardedIsComposed
    <3>2. [p EXCEPT !.src = b].type = "data"
      BY <1>2 DEF PacketSet
    <3>3. QED
      BY <1>2, <2>2, <3>1, <3>2, Forwarded
  <2>3. QED
    BY <1>2, <2>1, <2>2 DEF RecvData, p
<1>6. PlainTypes'
  BY <1>1, <1>2, <1>4, <1>5 DEF PlainTypes, RecvData, selfVars
<1>7. NumberedOK'
  BY <1>1, <1>2 DEF NumberedOK, RecvData, selfVars
<1>8. QED
  BY <1>2, <1>4, <1>5, <1>6, <1>7 DEF PlainInv, BoardOK

LEMMA RecvAckKeeps == ASSUME PlainInv, NEW b \in Boards, RecvAck(b) PROVE PlainInv'
<1>1. PlainTypes /\ NumberedOK /\ (\A c \in Boards : BoardOK(c)) /\ TakePacket(b, "ack")
  BY DEF PlainInv, RecvAck
<1>2. /\ pc[b] = "poll"
      /\ recv_data' \in [Boards -> PacketSet \cup {NONE}]
      /\ new_udp_recv_s' \in [Boards -> Nat]
      /\ due' \in [Boards -> BOOLEAN]
      /\ \A c \in Boards : RecvOK(c)'
      /\ UNCHANGED <<access_point, assoc, pc, joining, pidogs_found, todo, faults>>
  BY <1>1, Taken
<1>3. PlainTypes'
  BY <1>1, <1>2 DEF PlainTypes, RecvAck, Retarget, selfVars, sendVars, ackVars
<1>4. NumberedOK'
  BY <1>1, <1>2 DEF NumberedOK, RecvAck, selfVars
<1>5. ASSUME NEW c \in Boards PROVE BoardOK(c)'
  <2>1. BoardOK(c)
    BY <1>1
  <2>2. AckOK(c)'
    BY <2>1 DEF BoardOK, AckOK, RecvAck, ackVars
  <2>3. RadioOK(c)' /\ SendOK(c)'
    <3>1. UNCHANGED <<send_queue, signal_send_thread>> /\ Retarget(b, ENABLE_AP)
      BY DEF RecvAck, sendVars
    <3>2. CASE c = b
      <4>1. target_ID'[b] = ENABLE_AP /\ signal_connect_thread'[b]
        BY <1>1, <3>1 DEF Retarget, PlainTypes
      <4>2. QED
        BY <1>2, <2>1, <3>1, <3>2, <4>1, Numbers DEF BoardOK, RadioOK, SendOK, Bound
    <3>3. CASE c # b
      <4>1. /\ target_ID'[c] = target_ID[c]
            /\ signal_connect_thread'[c] = signal_connect_thread[c]
        BY <1>1, <3>1, <3>3 DEF Retarget, PlainTypes
      <4>2. QED
        BY <1>2, <2>1, <3>1, <4>1 DEF BoardOK, RadioOK, SendOK, Bound
    <3>4. QED
      BY <3>2, <3>3
  <2>4. QED
    BY <1>2, <2>2, <2>3 DEF BoardOK
<1>6. QED
  BY <1>3, <1>4, <1>5 DEF PlainInv

LEMMA RecvAckDvKeeps == ASSUME PlainInv, NEW b \in Boards, RecvAckDv(b) PROVE PlainInv'
<1>1. PlainTypes /\ NumberedOK /\ (\A c \in Boards : BoardOK(c)) /\ TakePacket(b, "ack")
  BY DEF PlainInv, RecvAckDv
<1>2. /\ pc[b] = "poll"
      /\ recv_data' \in [Boards -> PacketSet \cup {NONE}]
      /\ new_udp_recv_s' \in [Boards -> Nat]
      /\ due' \in [Boards -> BOOLEAN]
      /\ \A c \in Boards : RecvOK(c)'
      /\ UNCHANGED <<access_point, assoc, pc, joining, pidogs_found, todo, faults>>
  BY <1>1, Taken
<1>3. PlainTypes'
  BY <1>1, <1>2 DEF PlainTypes, RecvAckDv, sendVars, ackVars
<1>4. NumberedOK'
  <2> DEFINE h == recv_data[b].src
             new == [nbrs[b] EXCEPT ![h].up_to_date = TRUE]
  <2>1. nbrs' = [nbrs EXCEPT ![b] = new]
    BY DEF RecvAckDv
  <2>2. nbrs[b] \in [InRange[b] -> Nbr_t]
    BY <1>1 DEF NumberedOK
  <2>3. new \in [InRange[b] -> Nbr_t]
    BY <2>2 DEF Nbr_t
  <2> HIDE DEF new
  <2>4. DOMAIN nbrs' = Boards /\ \A c \in Boards : nbrs'[c] \in [InRange[c] -> Nbr_t]
    BY <1>1, <2>1, <2>3 DEF NumberedOK
  <2>5. QED
    BY <1>1, <1>2, <2>4 DEF NumberedOK, RecvAckDv
<1>5. ASSUME NEW c \in Boards PROVE BoardOK(c)'
  <2>1. BoardOK(c)
    BY <1>1
  <2>2. AckOK(c)'
    BY <2>1 DEF BoardOK, AckOK, RecvAckDv, ackVars
  <2>3. RadioOK(c)' /\ SendOK(c)'
    <3>1. /\ UNCHANGED <<send_queue, signal_send_thread, signal_connect_thread>>
          /\ target_ID' = [target_ID EXCEPT ![b] = DV_SCAN]
      BY DEF RecvAckDv, sendVars
    <3>2. CASE c = b
      <4>1. target_ID'[b] = DV_SCAN
        BY <1>1, <3>1 DEF PlainTypes
      <4>2. QED
        BY <1>2, <2>1, <3>1, <3>2, <4>1, Numbers DEF BoardOK, RadioOK, SendOK, Bound
    <3>3. CASE c # b
      <4>1. target_ID'[c] = target_ID[c]
        BY <1>1, <3>1, <3>3 DEF PlainTypes
      <4>2. QED
        BY <1>2, <2>1, <3>1, <4>1 DEF BoardOK, RadioOK, SendOK, Bound
    <3>4. QED
      BY <3>2, <3>3
  <2>4. QED
    BY <1>2, <2>2, <2>3 DEF BoardOK
<1>6. QED
  BY <1>3, <1>4, <1>5 DEF PlainInv

LEMMA RecvDvKeeps == ASSUME PlainInv, NEW b \in Boards, RecvDv(b) PROVE PlainInv'
<1> DEFINE p == recv_data[b]
<1>1. PlainTypes /\ NumberedOK /\ (\A c \in Boards : BoardOK(c)) /\ TakePacket(b, "dv")
  BY DEF PlainInv, RecvDv
<1>2. /\ p \in PacketSet /\ Received(b, p) /\ p.type = "dv"
      /\ pc[b] = "poll" /\ new_udp_ack_s[b] = 0
      /\ recv_data' \in [Boards -> PacketSet \cup {NONE}]
      /\ new_udp_recv_s' \in [Boards -> Nat]
      /\ due' \in [Boards -> BOOLEAN]
      /\ \A c \in Boards : RecvOK(c)'
      /\ UNCHANGED <<access_point, assoc, pc, joining, pidogs_found, todo, faults>>
  BY <1>1, Taken
<1>3. QueueAck(b, p)
  BY DEF RecvDv
<1>4. /\ ack_queue' \in [Boards -> PacketSet \cup {NONE}]
      /\ new_udp_ack_s' \in [Boards -> Nat]
      /\ ack_queue_empty' \in [Boards -> BOOLEAN]
      /\ \A c \in Boards : AckOK(c)'
  <2> HIDE DEF p
  <2> QED BY <1>2, <1>3, AckQueued
<1>5. p.dv \in WireVector /\ p.src \in IDs /\ p.src \in InRange[b]
  BY <1>2 DEF PacketSet, Received
<1>6. dist_vector' \in [Boards -> Vector] /\ routing_table' \in [Boards -> Table]
  <2>1. dist_vector[b] \in Vector /\ routing_table[b] \in Table
    BY <1>1 DEF PlainTypes
  <2>2. /\ UpdateVector(dist_vector[b], p.dv) \in Vector
        /\ UpdateTable(dist_vector[b], routing_table[b], p.dv, p.src) \in Table
    BY <1>5, <2>1, VectorTypes
  <2>3. /\ dist_vector' = [dist_vector EXCEPT ![b] = UpdateVector(dist_vector[b], p.dv)]
        /\ routing_table' = [routing_table EXCEPT ![b] =
                               UpdateTable(dist_vector[b], routing_table[b], p.dv, p.src)]
    BY <1>1 DEF RecvDv, PlainTypes
  <2>4. QED
    BY <1>1, <2>2, <2>3 DEF PlainTypes
<1>7. PlainTypes'
  BY <1>1, <1>2, <1>4, <1>6 DEF PlainTypes, RecvDv, sendVars
<1>8. NumberedOK'
  <2>1. nbrs' = [nbrs EXCEPT ![b] = NbrsAfter(b, p)]
    BY DEF RecvDv
  <2>2. nbrs[b] \in [InRange[b] -> Nbr_t]
    BY <1>1 DEF NumberedOK
  <2>3. NbrsAfter(b, p) \in [InRange[b] -> Nbr_t]
    <3> DEFINE stored == [nbrs[b] EXCEPT ![p.src].dist_vector = p.dv]
               changed == Improved(dist_vector[b], p.dv) # {}
    <3>1. stored \in [InRange[b] -> Nbr_t]
      BY <1>5, <2>2 DEF Nbr_t
    <3>2. \A h \in InRange[b] : [stored[h] EXCEPT !.up_to_date = @ /\ ~ changed] \in Nbr_t
      <4> HIDE DEF stored, changed
      <4> SUFFICES ASSUME NEW h \in InRange[b]
                   PROVE  [stored[h] EXCEPT !.up_to_date = @ /\ ~ changed] \in Nbr_t
        OBVIOUS
      <4>1. stored[h] \in Nbr_t
        BY <3>1
      <4>2. (stored[h].up_to_date /\ ~ changed) \in BOOLEAN
        BY Zenon
      <4> DEFINE u == stored[h].up_to_date /\ ~ changed
      <4>3. [stored[h] EXCEPT !.up_to_date = u] \in Nbr_t
        <5>1. u \in BOOLEAN
          BY <4>2
        <5> HIDE DEF u
        <5>2. QED
          BY <4>1, <5>1 DEF Nbr_t
      <4>4. QED
        BY <4>3, Zenon DEF u
    <3>3. DOMAIN nbrs[b] = InRange[b]
      BY <2>2
    <3>4. NbrsAfter(b, p) =
            [h \in InRange[b] |-> [stored[h] EXCEPT !.up_to_date = @ /\ ~ changed]]
      BY <3>3, Zenon DEF NbrsAfter
    <3>5. QED
      <4> HIDE DEF stored, changed
      <4> QED BY <3>2, <3>4
  <2> HIDE DEF p
  <2>4. DOMAIN nbrs' = Boards /\ \A c \in Boards : nbrs'[c] \in [InRange[c] -> Nbr_t]
    BY <1>1, <2>1, <2>3 DEF NumberedOK
  <2>5. QED
    BY <1>1, <1>2, <2>4 DEF NumberedOK, RecvDv
<1>9. ASSUME NEW c \in Boards PROVE BoardOK(c)'
  <2>1. BoardOK(c)
    BY <1>1
  <2>2. RadioOK(c)' /\ SendOK(c)'
    BY <1>1, <1>2, <2>1 DEF BoardOK, RadioOK, SendOK, Bound, RecvDv, sendVars
  <2>3. QED
    BY <1>2, <1>4, <2>2 DEF BoardOK
<1>10. QED
  BY <1>7, <1>8, <1>9 DEF PlainInv

(* No token is there to be received.                                       *)
LEMMA NoToken == ASSUME PlainInv, NEW b \in Boards PROVE ~ RecvToken(b)
<1>1. TakePacket(b, "token") => FALSE
  BY Taken
<1>2. QED
  BY <1>1 DEF RecvToken

LEMMA SerialKeeps ==
  ASSUME PlainInv, NEW b \in Boards, NEW c \in Commands, Serial(b, c)
  PROVE  PlainInv'
<1>1. PlainTypes /\ NumberedOK /\ (\A a \in Boards : BoardOK(a))
  BY DEF PlainInv
<1>2. /\ pc[b] = "poll" /\ c \in todo /\ todo' = todo \ {c} /\ ID[b] = b
      /\ UNCHANGED <<pc, access_point, assoc>>
  BY <1>1 DEF Serial, TypedLine, Turn, radioVars, NumberedOK
<1>3. c.dest \in IDs
  BY BoardsAssumption
<1>4. c.kind # "token"
  BY <1>1, <1>2 DEF NumberedOK, TokenCommands
<1>5. /\ send_queue' \in [Boards -> PacketSet \cup {NONE}]
      /\ signal_send_thread' \in [Boards -> BOOLEAN]
      /\ target_ID' \in [Boards -> {DV_SCAN, NF_SCAN, ENABLE_AP} \cup IDs]
      /\ signal_connect_thread' \in [Boards -> BOOLEAN]
      /\ \A a \in Boards : RadioOK(a)' /\ SendOK(a)'
      /\ next_dv_scan' \in [Boards -> {"never", "asap", "later"}]
  <2>1. CASE /\ next_dv_scan' = [next_dv_scan EXCEPT ![b] = "asap"]
             /\ UNCHANGED <<sendVars, target_ID, signal_connect_thread>>
    <3>1. \A a \in Boards : RadioOK(a)' /\ SendOK(a)'
      BY <1>1, <1>2, <2>1 DEF sendVars, BoardOK, RadioOK, SendOK, Bound
    <3>2. QED
      BY <1>1, <2>1, <3>1 DEF sendVars, PlainTypes
  <2>2. CASE Forward(b, Packet("data", c.dest, ID[b], b)) /\ UNCHANGED next_dv_scan
    <3> DEFINE q == Packet("data", c.dest, b, b)
    <3>1. q \in PacketSet /\ Composed(b, q) /\ q.type = "data"
      BY <1>3, TypedIsComposed DEF Packet
    <3>2. Forward(b, q)
      BY <1>2, <2>2
    <3> HIDE DEF q
    <3>3. QED
      BY <1>1, <1>2, <2>2, <3>1, <3>2, Forwarded DEF PlainTypes
  <2>3. QED
    BY <1>4, <2>1, <2>2 DEF Serial
<1>6. todo' \subseteq Commands
  BY <1>1, <1>2 DEF PlainTypes
<1>7. PlainTypes'
  BY <1>1, <1>2, <1>5, <1>6 DEF PlainTypes, Serial, selfVars, recvVars, ackVars
<1>8. NumberedOK'
  BY <1>1, <1>2 DEF NumberedOK, Serial, selfVars
<1>9. ASSUME NEW a \in Boards PROVE RecvOK(a)' /\ AckOK(a)'
  BY <1>1 DEF BoardOK, RecvOK, AckOK, Serial, recvVars, ackVars
<1>10. QED
  BY <1>5, <1>7, <1>8, <1>9 DEF PlainInv, BoardOK

(* The connect thread changes its own state, the radio and the send queue. *)
ConnectTypes ==
  /\ access_point \in [Boards -> BOOLEAN]
  /\ assoc \in [Boards -> Boards \cup {NONE}]
  /\ phase \in [Boards -> {"nothing", "nb_finding", "dv_routing"}]
  /\ target_ID \in [Boards -> {DV_SCAN, NF_SCAN, ENABLE_AP} \cup IDs]
  /\ signal_connect_thread \in [Boards -> BOOLEAN]
  /\ next_dv_scan \in [Boards -> {"never", "asap", "later"}]
  /\ pc \in [Boards -> {"boot", "poll", "dv_scan", "nf_scan", "nf_join", "join"}]
  /\ signal_send_thread \in [Boards -> BOOLEAN]
  /\ send_queue \in [Boards -> PacketSet \cup {NONE}]
  /\ due \in [Boards -> BOOLEAN]
  /\ faults \in 0 .. MaxFaults

LEMMA ConnectKeeps ==
  ASSUME PlainInv, ConnectTypes',
         UNCHANGED <<ID, parent_ID, wifi_ssid, knows_nbrs, ID_is_nbr, dist_vector,
                     routing_table, nbrs, joining, pidogs_found, recv_data, new_udp_recv_s,
                     ackVars, todo>>,
         \A c \in Boards : RadioOK(c)' /\ SendOK(c)'
  PROVE  PlainInv'
<1>1. PlainTypes'
  BY DEF PlainInv, PlainTypes, ConnectTypes, ackVars
<1>2. NumberedOK'
  BY DEF PlainInv, NumberedOK
<1>3. ASSUME NEW c \in Boards PROVE RecvOK(c)' /\ AckOK(c)'
  BY DEF PlainInv, BoardOK, RecvOK, AckOK, ackVars
<1>4. QED
  BY <1>1, <1>2, <1>3 DEF PlainInv, BoardOK

(* The end of its pass                                                     *)
LEMMA PassEnded ==
  ASSUME PlainInv, NEW b \in Boards, NEW ph \in {"nothing", "nb_finding", "dv_routing"},
         EndPass(b, ph)
  PROVE  /\ pc' = [pc EXCEPT ![b] = "poll"]
         /\ pc' \in [Boards -> {"boot", "poll", "dv_scan", "nf_scan", "nf_join", "join"}]
         /\ phase' \in [Boards -> {"nothing", "nb_finding", "dv_routing"}]
         /\ due' \in [Boards -> BOOLEAN]
         /\ UNCHANGED <<recv_data, new_udp_recv_s, ackVars, todo>>
BY DEF PlainInv, PlainTypes, EndPass

(* Every link of b is cut.                                                 *)
LEMMA StationNow ==
  ASSUME PlainInv, NEW b \in Boards, BecomeStation(b)
  PROVE  /\ access_point' \in [Boards -> BOOLEAN]
         /\ assoc' \in [Boards -> Boards \cup {NONE}]
         /\ ~ access_point'[b] /\ assoc'[b] = NONE
         /\ \A c \in Boards : /\ assoc'[c] \in {assoc[c], NONE}
                              /\ access_point'[c] => access_point[c]
BY DEF PlainInv, PlainTypes, BecomeStation

LEMMA EnableApKeeps == ASSUME PlainInv, NEW b \in Boards, EnableAp(b) PROVE PlainInv'
<1>1. PlainTypes /\ NumberedOK /\ (\A c \in Boards : BoardOK(c)) /\ pc[b] = "poll"
  BY DEF PlainInv, EnableAp, Wake, Turn
<1>2. /\ pc' = [pc EXCEPT ![b] = "poll"]
      /\ pc' \in [Boards -> {"boot", "poll", "dv_scan", "nf_scan", "nf_join", "join"}]
      /\ phase' \in [Boards -> {"nothing", "nb_finding", "dv_routing"}]
      /\ due' \in [Boards -> BOOLEAN]
      /\ UNCHANGED <<recv_data, new_udp_recv_s, ackVars, todo>>
  BY <1>1, PassEnded DEF EnableAp, PlainTypes
<1>3. wifi_ssid' = wifi_ssid
  BY <1>1 DEF EnableAp, BootAp, NumberedOK
<1>4. /\ access_point' \in [Boards -> BOOLEAN]
      /\ assoc' \in [Boards -> Boards \cup {NONE}]
      /\ access_point'[b] /\ assoc'[b] = NONE
      /\ \A c \in Boards \ {b} : assoc'[c] = assoc[c] /\ access_point'[c] = access_point[c]
  <2>1. CASE access_point[b] /\ UNCHANGED <<access_point, assoc>>
    BY <1>1, <2>1 DEF PlainTypes, BoardOK, RadioOK
  <2>2. CASE BootAp(b)
    BY <1>1, <2>2 DEF BootAp, PlainTypes
  <2>3. QED
    BY <2>1, <2>2 DEF EnableAp
<1>5. ConnectTypes'
  BY <1>1, <1>2, <1>4 DEF EnableAp, ConnectTypes, PlainTypes, sendVars
<1>6. ASSUME NEW c \in Boards PROVE RadioOK(c)' /\ SendOK(c)'
  <2>1. BoardOK(c)
    BY <1>1
  <2>2. CASE c = b
    BY <1>1, <1>2, <1>4, <2>1, <2>2, NoneAssumption
       DEF EnableAp, BoardOK, RadioOK, SendOK, Bound, sendVars, PlainTypes
  <2>3. CASE c # b
    BY <1>1, <1>2, <1>4, <2>1, <2>3
       DEF EnableAp, BoardOK, RadioOK, SendOK, Bound, sendVars, PlainTypes
  <2>4. QED
    BY <2>2, <2>3
<1>7. QED
  BY <1>2, <1>3, <1>5, <1>6, ConnectKeeps DEF EnableAp

LEMMA EndRoutingKeeps == ASSUME PlainInv, NEW b \in Boards, EndRouting(b) PROVE PlainInv'
<1>1. PlainTypes /\ NumberedOK /\ (\A c \in Boards : BoardOK(c)) /\ pc[b] = "poll"
  BY DEF PlainInv, EndRouting, Wake, Turn
<1>2. /\ pc' = [pc EXCEPT ![b] = "poll"]
      /\ pc' \in [Boards -> {"boot", "poll", "dv_scan", "nf_scan", "nf_join", "join"}]
      /\ phase' \in [Boards -> {"nothing", "nb_finding", "dv_routing"}]
      /\ due' \in [Boards -> BOOLEAN]
      /\ UNCHANGED <<recv_data, new_udp_recv_s, ackVars, todo>>
  BY PassEnded DEF EndRouting
<1>3. /\ access_point' \in [Boards -> BOOLEAN]
      /\ assoc' \in [Boards -> Boards \cup {NONE}]
      /\ ~ access_point'[b] /\ assoc'[b] = NONE
      /\ \A c \in Boards : /\ assoc'[c] \in {assoc[c], NONE}
                           /\ access_point'[c] => access_point[c]
  BY StationNow DEF EndRouting
<1>4. ConnectTypes'
  BY <1>1, <1>2, <1>3 DEF EndRouting, Retarget, NoScan, ConnectTypes, PlainTypes, sendVars
<1>5. ASSUME NEW c \in Boards PROVE RadioOK(c)' /\ SendOK(c)'
  <2>1. BoardOK(c)
    BY <1>1
  <2>2. CASE c = b
    BY <1>1, <1>2, <1>3, <2>1, <2>2, Numbers
       DEF EndRouting, Retarget, BoardOK, RadioOK, SendOK, Bound, sendVars, PlainTypes
  <2>3. CASE c # b
    BY <1>1, <1>2, <1>3, <2>1, <2>3, NoneAssumption
       DEF EndRouting, Retarget, BoardOK, RadioOK, SendOK, Bound, sendVars, PlainTypes
  <2>4. QED
    BY <2>2, <2>3
<1>6. QED
  BY <1>2, <1>4, <1>5, ConnectKeeps DEF EndRouting, selfVars

(* A scan or a join begins, never one for neighbors.                       *)
LEMMA BlockKeeps ==
  ASSUME PlainInv, NEW b \in Boards, NEW t \in {DV_SCAN} \cup IDs, NEW where,
         where = IF t = DV_SCAN THEN "dv_scan" ELSE "join", Block(b, t, where)
  PROVE  PlainInv'
<1>1. PlainTypes /\ NumberedOK /\ (\A c \in Boards : BoardOK(c)) /\ pc[b] = "poll"
  BY DEF PlainInv, Block, Wake, Turn
<1>2. /\ access_point' \in [Boards -> BOOLEAN]
      /\ assoc' \in [Boards -> Boards \cup {NONE}]
      /\ ~ access_point'[b] /\ assoc'[b] = NONE
      /\ \A c \in Boards : /\ assoc'[c] \in {assoc[c], NONE}
                           /\ access_point'[c] => access_point[c]
  BY StationNow DEF Block
<1>3. where \in {"dv_scan", "join"}
  OBVIOUS
<1>4. t # NF_SCAN /\ t \in {DV_SCAN, NF_SCAN, ENABLE_AP} \cup IDs
  BY Numbers
<1>5. signal_connect_thread[b] => t = target_ID[b]
  BY DEF Block, Wake
<1>6. ConnectTypes'
  BY <1>1, <1>2, <1>3, <1>4 DEF Block, ConnectTypes, PlainTypes, sendVars, recvVars, envVars
<1>7. ASSUME NEW c \in Boards PROVE RadioOK(c)' /\ SendOK(c)'
  <2>1. BoardOK(c)
    BY <1>1
  <2>2. CASE c = b
    <3>1. /\ pc'[b] = where /\ target_ID'[b] = t /\ ~ signal_connect_thread'[b]
          /\ send_queue' = send_queue /\ signal_send_thread' = signal_send_thread
      BY <1>1 DEF Block, sendVars, PlainTypes
    <3>2. RadioOK(b)'
      BY <1>2, <1>3, <1>4, <3>1 DEF RadioOK
    <3>3. ASSUME NEW h \in Boards, Bound(b, h)', send_queue[b] # NONE,
                 send_queue[b].type = "dv"
          PROVE  send_queue[b].dest = h
      <4>1. where = "join" /\ t = h
        BY <1>3, <3>1, <3>3 DEF Bound
      <4>2. CASE signal_connect_thread[b]
        BY <1>5, <2>1, <2>2, <3>3, <4>1, <4>2 DEF BoardOK, SendOK, Bound
      <4>3. CASE ~ signal_connect_thread[b]
        BY <4>1, <4>3, Numbers DEF Block, Wake
      <4>4. QED
        BY <4>2, <4>3
    <3>4. SendOK(b)'
      BY <2>1, <2>2, <3>1, <3>3 DEF BoardOK, SendOK
    <3>5. QED
      BY <2>2, <3>2, <3>4
  <2>3. CASE c # b
    BY <1>1, <1>2, <2>1, <2>3, NoneAssumption
       DEF Block, BoardOK, RadioOK, SendOK, Bound, sendVars, PlainTypes
  <2>4. QED
    BY <2>2, <2>3
<1>8. QED
  BY <1>6, <1>7, ConnectKeeps DEF Block, selfVars, recvVars, envVars

(* A neighbor that needs the vector was seen, and is joined next.          *)
LEMMA DvScanFoundKeeps ==
  ASSUME PlainInv, NEW b \in Boards, NEW h \in IDs, DvScanFound(b, h)
  PROVE  PlainInv'
<1>1. PlainTypes /\ NumberedOK /\ (\A c \in Boards : BoardOK(c)) /\ pc[b] = "dv_scan"
  BY DEF PlainInv, DvScanFound
<1>2. /\ pc' = [pc EXCEPT ![b] = "poll"]
      /\ pc' \in [Boards -> {"boot", "poll", "dv_scan", "nf_scan", "nf_join", "join"}]
      /\ phase' \in [Boards -> {"nothing", "nb_finding", "dv_routing"}]
      /\ due' \in [Boards -> BOOLEAN]
      /\ UNCHANGED <<recv_data, new_udp_recv_s, ackVars, todo>>
  BY <1>1, PassEnded DEF DvScanFound, PlainTypes
<1>3. h \in InRange[b]
  BY <1>1 DEF DvScanFound, NeedVector, NumberedOK
<1> DEFINE q == DvFor(b, h)
<1>4. q \in PacketSet /\ Composed(b, q) /\ q.type = "dv" /\ q.dest = h
  <2>1. TypeOK
    BY <1>1, TypesFromParts
  <2>2. QED
    BY <1>1, <1>3, <2>1, VectorIsComposed
<1>5. /\ send_queue' = [send_queue EXCEPT ![b] = q]
      /\ signal_send_thread' = [signal_send_thread EXCEPT ![b] = TRUE]
      /\ target_ID' = [target_ID EXCEPT ![b] = h]
      /\ signal_connect_thread' = [signal_connect_thread EXCEPT ![b] = TRUE]
      /\ next_dv_scan' = [next_dv_scan EXCEPT ![b] = "later"]
      /\ UNCHANGED <<access_point, assoc, faults>>
  BY DEF DvScanFound, Enqueue, Retarget, radioVars
<1> HIDE DEF q
<1>6. ConnectTypes'
  BY <1>1, <1>2, <1>4, <1>5 DEF ConnectTypes, PlainTypes
<1>7. ASSUME NEW c \in Boards PROVE RadioOK(c)' /\ SendOK(c)'
  <2>1. BoardOK(c)
    BY <1>1
  <2>2. CASE c = b
    BY <1>1, <1>2, <1>4, <1>5, <2>1, <2>2, Numbers, NoneAssumption
       DEF BoardOK, RadioOK, SendOK, Bound, PlainTypes
  <2>3. CASE c # b
    BY <1>1, <1>2, <1>5, <2>1, <2>3 DEF BoardOK, RadioOK, SendOK, Bound, PlainTypes
  <2>4. QED
    BY <2>2, <2>3
<1>8. QED
  BY <1>2, <1>6, <1>7, ConnectKeeps DEF DvScanFound, selfVars

LEMMA DvScanNobodyKeeps ==
  ASSUME PlainInv, NEW b \in Boards, DvScanNobody(b)
  PROVE  PlainInv'
<1>1. PlainTypes /\ NumberedOK /\ (\A c \in Boards : BoardOK(c)) /\ pc[b] = "dv_scan"
  BY DEF PlainInv, DvScanNobody
<1>2. /\ pc' = [pc EXCEPT ![b] = "poll"]
      /\ pc' \in [Boards -> {"boot", "poll", "dv_scan", "nf_scan", "nf_join", "join"}]
      /\ phase' \in [Boards -> {"nothing", "nb_finding", "dv_routing"}]
      /\ due' \in [Boards -> BOOLEAN]
      /\ UNCHANGED <<recv_data, new_udp_recv_s, ackVars, todo>>
  BY <1>1, PassEnded DEF DvScanNobody, PlainTypes
<1>3. /\ target_ID' = [target_ID EXCEPT ![b] = ENABLE_AP]
      /\ signal_connect_thread' = [signal_connect_thread EXCEPT ![b] = TRUE]
      /\ next_dv_scan' = [next_dv_scan EXCEPT ![b] = "later"]
      /\ UNCHANGED <<access_point, assoc, signal_send_thread, send_queue>>
      /\ faults' \in 0 .. MaxFaults
  BY <1>1, BoardsAssumption DEF DvScanNobody, Fault, Retarget, radioVars, sendVars, PlainTypes
<1>4. ConnectTypes'
  BY <1>1, <1>2, <1>3 DEF ConnectTypes, PlainTypes
<1>5. ASSUME NEW c \in Boards PROVE RadioOK(c)' /\ SendOK(c)'
  <2>1. BoardOK(c)
    BY <1>1
  <2>2. QED
    BY <1>1, <1>2, <1>3, <2>1, Numbers DEF BoardOK, RadioOK, SendOK, Bound, PlainTypes
<1>6. QED
  BY <1>2, <1>4, <1>5, ConnectKeeps DEF DvScanNobody, selfVars

(* The board that is joined is the one that was to be joined.              *)
LEMMA JoinKeeps == ASSUME PlainInv, NEW b \in Boards, Join(b) PROVE PlainInv'
<1>1. PlainTypes /\ NumberedOK /\ (\A c \in Boards : BoardOK(c)) /\ pc[b] = "join"
  BY DEF PlainInv, Join
<1>2. /\ pc' = [pc EXCEPT ![b] = "poll"]
      /\ pc' \in [Boards -> {"boot", "poll", "dv_scan", "nf_scan", "nf_join", "join"}]
      /\ phase' \in [Boards -> {"nothing", "nb_finding", "dv_routing"}]
      /\ due' \in [Boards -> BOOLEAN]
      /\ UNCHANGED <<recv_data, new_udp_recv_s, ackVars, todo>>
  BY <1>1, PassEnded DEF Join, PlainTypes
<1>3. PICK a \in Networks(b) : Joined(b, a)
  BY DEF Join
<1>4. a \in Boards /\ a = target_ID[b]
  BY <1>1, BoardsAssumption DEF Networks, Visible, NumberedOK
<1>5. /\ assoc' = [assoc EXCEPT ![b] = a]
      /\ UNCHANGED <<access_point, faults, target_ID, signal_connect_thread, next_dv_scan,
                     signal_send_thread, send_queue>>
  BY <1>3 DEF Joined, Join, sendVars
<1>6. ConnectTypes'
  BY <1>1, <1>2, <1>4, <1>5 DEF ConnectTypes, PlainTypes
<1>7. ASSUME NEW c \in Boards PROVE RadioOK(c)' /\ SendOK(c)'
  <2>1. BoardOK(c)
    BY <1>1
  <2>2. CASE c = b
    BY <1>1, <1>2, <1>4, <1>5, <2>1, <2>2
       DEF BoardOK, RadioOK, SendOK, Bound, PlainTypes
  <2>3. CASE c # b
    BY <1>1, <1>2, <1>5, <2>1, <2>3 DEF BoardOK, RadioOK, SendOK, Bound, PlainTypes
  <2>4. QED
    BY <2>2, <2>3
<1>8. QED
  BY <1>2, <1>6, <1>7, ConnectKeeps DEF Join, selfVars

LEMMA JoinTimeoutKeeps == ASSUME PlainInv, NEW b \in Boards, JoinTimeout(b) PROVE PlainInv'
<1>1. PlainTypes /\ NumberedOK /\ (\A c \in Boards : BoardOK(c)) /\ pc[b] = "join"
  BY DEF PlainInv, JoinTimeout
<1>2. /\ pc' = [pc EXCEPT ![b] = "poll"]
      /\ pc' \in [Boards -> {"boot", "poll", "dv_scan", "nf_scan", "nf_join", "join"}]
      /\ phase' \in [Boards -> {"nothing", "nb_finding", "dv_routing"}]
      /\ due' \in [Boards -> BOOLEAN]
      /\ UNCHANGED <<recv_data, new_udp_recv_s, ackVars, todo>>
  BY <1>1, PassEnded DEF JoinTimeout, PlainTypes
<1>3. /\ target_ID' = [target_ID EXCEPT ![b] = ENABLE_AP]
      /\ signal_connect_thread' = [signal_connect_thread EXCEPT ![b] = TRUE]
      /\ next_dv_scan' \in [Boards -> {"never", "asap", "later"}]
      /\ UNCHANGED <<access_point, assoc, signal_send_thread, send_queue>>
  BY <1>1 DEF JoinTimeout, JoinFails, Retarget, radioVars, sendVars, PlainTypes
<1>4. faults' \in 0 .. MaxFaults
  BY <1>1, BoardsAssumption DEF JoinTimeout, JoinFails, Fault, PlainTypes
<1>5. ConnectTypes'
  BY <1>1, <1>2, <1>3, <1>4 DEF ConnectTypes, PlainTypes
<1>6. ASSUME NEW c \in Boards PROVE RadioOK(c)' /\ SendOK(c)'
  <2>1. BoardOK(c)
    BY <1>1
  <2>2. QED
    BY <1>1, <1>2, <1>3, <2>1, Numbers DEF BoardOK, RadioOK, SendOK, Bound, PlainTypes
<1>7. QED
  BY <1>2, <1>5, <1>6, ConnectKeeps DEF JoinTimeout, selfVars

(* Nothing of the neighbor finding or of the start happens.                *)
LEMMA NothingEarlier ==
  ASSUME PlainInv, NEW b \in Boards
  PROVE  ~ StartNfScan(b) /\ ~ NfScanDone(b) /\ ~ NfJoin(b) /\ ~ MasterBoot(b)
<1>1. pc[b] \in {"poll", "dv_scan", "join"} /\ target_ID[b] # NF_SCAN
  BY DEF PlainInv, BoardOK, RadioOK
<1>2. ~ StartNfScan(b)
  BY <1>1, Numbers DEF StartNfScan, Block, Wake
<1>3. QED
  BY <1>1, <1>2 DEF NfScanDone, NfScanFound, NfScanNobody, NfScanFails, NfJoin, MasterBoot

(* So these are the steps of a board that has routes.                      *)
RoutedStep(b) ==
  \/ Send(b) \/ Ack(b)
  \/ RecvData(b) \/ RecvAck(b) \/ RecvAckDv(b) \/ RecvDv(b)
  \/ \E c \in Commands : Serial(b, c)
  \/ EnableAp(b) \/ EndRouting(b) \/ StartDvScan(b) \/ StartJoin(b)
  \/ (\E h \in IDs : DvScanFound(b, h)) \/ DvScanNobody(b)
  \/ Join(b) \/ JoinTimeout(b)

LEMMA RoutedSteps == PlainInv /\ Next => \E b \in Boards : RoutedStep(b)
<1> SUFFICES ASSUME PlainInv, Next PROVE \E b \in Boards : RoutedStep(b)
  OBVIOUS
<1>1. PICK b \in Boards : \/ Send(b) \/ Recv(b) \/ Ack(b)
                          \/ \E c \in Commands : Serial(b, c)
                          \/ Connect(b) \/ Unblock(b)
  BY DEF Next
<1>2. ~ RecvToken(b) /\ ~ StartNfScan(b) /\ ~ NfScanDone(b) /\ ~ NfJoin(b) /\ ~ MasterBoot(b)
  BY NoToken, NothingEarlier
<1>3. RoutedStep(b)
  BY <1>1, <1>2, Zenon DEF RoutedStep, Recv, Connect, Unblock, DvScanDone
<1>4. QED
  BY <1>3

LEMMA StepKeeps == ASSUME PlainInv, NEW b \in Boards, RoutedStep(b) PROVE PlainInv'
<1>1. CASE StartDvScan(b)
  BY <1>1, BlockKeeps DEF StartDvScan
<1>2. CASE StartJoin(b)
  <2>1. PICK id \in IDs : Block(b, id, "join")
    BY <1>2 DEF StartJoin
  <2>2. id # DV_SCAN
    BY Numbers
  <2>3. QED
    BY <2>1, <2>2, BlockKeeps
<1>3. QED
  BY <1>1, <1>2, SendKeeps, AckKeeps, RecvDataKeeps, RecvAckKeeps, RecvAckDvKeeps, RecvDvKeeps,
     SerialKeeps, EnableApKeeps, EndRoutingKeeps, DvScanFoundKeeps, DvScanNobodyKeeps,
     JoinKeeps, JoinTimeoutKeeps, Zenon DEF RoutedStep

LEMMA StutterKeeps == PlainInv /\ UNCHANGED vars => PlainInv'
<1> SUFFICES ASSUME PlainInv, UNCHANGED vars PROVE PlainInv'
  OBVIOUS
<1> USE DEF vars, selfVars, radioVars, connectVars, sendVars, recvVars, ackVars, envVars
<1>1. PlainTypes' /\ NumberedOK'
  BY DEF PlainInv, PlainTypes, NumberedOK
<1>2. ASSUME NEW c \in Boards PROVE BoardOK(c)'
  BY DEF PlainInv, BoardOK, RadioOK, SendOK, Bound, RecvOK, AckOK
<1>3. QED
  BY <1>1, <1>2 DEF PlainInv

(* The invariant, from any start with routes and whatever the boards do    *)
THEOREM RoutedInvariant == SpecRouted => []RoutedInv
<1>1. InitRouted => PlainInv
  BY InitRInv, PlainIsRouted
<1>2. PlainInv /\ [Next]_vars => PlainInv'
  BY RoutedSteps, StepKeeps, StutterKeeps
<1>3. QED
  BY <1>1, <1>2, PlainIsRouted, PTL DEF SpecRouted

(* Every variable keeps its type: no queue, index or mode leaves its range *)
(* in an exchange, whatever is lost, doubled or typed meanwhile.           *)
THEOREM RoutedTypeCorrect == SpecRouted => []TypeOK
<1>1. RoutedInv => TypeOK
  BY DEF RoutedInv
<1>2. QED
  BY <1>1, RoutedInvariant, PTL

LEMMA FoundBefore == RoutedInv => NoNullNeighbor
<1> SUFFICES ASSUME RoutedInv, NEW b \in Boards
             PROVE  /\ recv_data[b] # NONE
                         /\ (recv_data[b].type = "dv" \/ recv_data[b].acked = "dv")
                         => recv_data[b].src \in DOMAIN nbrs[b]
                    /\ pc[b] = "dv_scan" => PicoIDs(b) \subseteq DOMAIN nbrs[b]
  BY DEF NoNullNeighbor
<1>1. NumberedOK /\ RecvOK(b)
  BY DEF RoutedInv
<1>2. DOMAIN nbrs[b] = InRange[b]
  BY <1>1 DEF NumberedOK
<1>3. PicoIDs(b) \subseteq InRange[b]
  BY <1>1, BoardsAssumption DEF PicoIDs, Visible, NumberedOK
<1>4. QED
  BY <1>1, <1>2, <1>3 DEF RecvOK, Received

(* str_to_dv, the ack of a vector and the scan's callback look up no       *)
(* neighbor that is not there.                                             *)
THEOREM NoNullNeighborAlways == SpecRouted => []NoNullNeighbor
BY FoundBefore, RoutedInvariant, PTL

-----------------------------------------------------------------------------
(* The whole network: it boots, or it has converged routes.                *)

(* With routes the token is gone, and all is as a walk leaves it.          *)
LEMMA NobodyHolds ==
  ASSUME RoutedInv, NEW b \in Boards
  PROVE  ~ HoldsToken(send_queue[b]) /\ ~ HoldsToken(recv_data[b])
BY DEF RoutedInv, SendOK, Composed, RecvOK, Received, HoldsToken

LEMMA RoutedIsWalked == RoutedInv => UniqueToken /\ UniqueIDs /\ NeighborsComplete
<1> SUFFICES ASSUME RoutedInv PROVE UniqueToken /\ UniqueIDs /\ NeighborsComplete
  OBVIOUS
<1>1. NumberedOK
  BY DEF RoutedInv
<1>2. UniqueToken
  <2>1. /\ {b \in Boards : HoldsToken(send_queue[b])} = {}
        /\ {b \in Boards : HoldsToken(recv_data[b])} = {}
    BY NobodyHolds
  <2>2. QED
    BY <2>1, FS_EmptySet DEF UniqueToken
<1>3. UniqueIDs
  BY <1>1, NobodyHolds DEF UniqueIDs, NumberedOK
<1>4. NeighborsComplete
  <2>1. ASSUME NEW b \in Boards PROVE DOMAIN nbrs[b] = {ID[a] : a \in InRange[b]}
    BY <1>1, BoardsAssumption DEF NumberedOK
  <2>2. QED
    BY <2>1 DEF NeighborsComplete
<1>5. QED
  BY <1>2, <1>3, <1>4

NetworkInv == (IInv /\ CompleteInv) \/ RoutedInv

(* From either start a board is in a phase of the walk and nothing that    *)
(* failed has spoiled what it found, or all have routes for good.          *)
THEOREM NetworkInvariant == FairNetwork => []NetworkInv
<1>1. InitConverged => PlainInv
  BY InitCInv, PlainIsRouted
<1>2. PlainInv /\ [Next]_vars => PlainInv'
  BY RoutedSteps, StepKeeps, StutterKeeps
<1>3. InitBoot => IInv /\ CompleteInv
  BY InitIInv
<1>4. IInv /\ CompleteInv /\ [Next]_vars => IInv' /\ CompleteInv'
  BY StepIInv, StepComplete
<1>5. QED
  BY <1>1, <1>2, <1>3, <1>4, PlainIsRouted, PTL DEF FairNetwork, NetworkInv

(* Every variable keeps its type, from power-up and with routes.           *)
THEOREM NetworkTypeCorrect == FairNetwork => []TypeOK
<1>1. IInv => TypeOK
  BY DEF IInv, TypeInv, PlainTypes, NbrTypes, TypeOK
<1>2. RoutedInv => TypeOK
  BY DEF RoutedInv
<1>3. QED
  BY <1>1, <1>2, NetworkInvariant, PTL DEF NetworkInv

(* At most one board holds the token, whatever is lost, repeated or late:  *)
(* no buffer keeps a copy that could be sent or looked at again.           *)
THEOREM NetworkUniqueToken == FairNetwork => []UniqueToken
<1>1. IInv => UniqueToken
  BY OneToken DEF IInv
<1>2. QED
  BY <1>1, RoutedIsWalked, NetworkInvariant, PTL DEF NetworkInv

(* No two boards have the same ID, and the token brings a new one.         *)
THEOREM NetworkUniqueIDs == FairNetwork => []UniqueIDs
<1>1. IInv => UniqueIDs
  BY NewNumber DEF IInv
<1>2. QED
  BY <1>1, RoutedIsWalked, NetworkInvariant, PTL DEF NetworkInv

(* As long as nothing goes wrong on the radio, a board that believes to    *)
(* know its neighbors knows all that are in range.                         *)
THEOREM NetworkNeighborsComplete == FairNetwork => []NeighborsComplete
<1>1. IInv /\ CompleteInv => NeighborsComplete
  BY DEF CompleteInv, Listed, NeighborsComplete
<1>2. QED
  BY <1>1, RoutedIsWalked, NetworkInvariant, PTL DEF NetworkInv

-----------------------------------------------------------------------------
(* The implementation of DvExchange *)

(* The advertisement a packet is, if it is one                             *)
Carries(q, m) ==
  q # NONE /\ q.type = "dv" /\ m = [src |-> q.src, dst |-> q.dest, dv |-> q.dv]

LEMMA TransitIsCarried ==
  \A m : m \in InTransit
           <=> \E b \in Boards : Carries(send_queue[b], m) \/ Carries(recv_data[b], m)
BY Zenon DEF InTransit, Buffers, Carries

LEMMA TransitIsCarriedNext ==
  (\A m : m \in InTransit
            <=> \E b \in Boards : Carries(send_queue[b], m) \/ Carries(recv_data[b], m))'
BY TransitIsCarried, PTL

(* No vector is on its way that was not before.                            *)
LEMMA NothingNew ==
  ASSUME \A c \in Boards : \A m : Carries(send_queue'[c], m) => m \in InTransit,
         \A c \in Boards : \A m : Carries(recv_data'[c], m) => m \in InTransit
  PROVE  InTransit' \subseteq InTransit
BY TransitIsCarriedNext, Zenon DEF Carries

LEMMA KeptIsOld ==
  ASSUME NEW c \in Boards, NEW m
  PROVE  /\ send_queue'[c] \in {send_queue[c], NONE} /\ Carries(send_queue'[c], m)
              => m \in InTransit
         /\ recv_data'[c] \in {recv_data[c], NONE} /\ Carries(recv_data'[c], m)
              => m \in InTransit
BY TransitIsCarried, Zenon DEF Carries

(* The vectors that are stored stay the same.                              *)
LEMMA StoredUnchanged ==
  ASSUME UNCHANGED nbrs
  PROVE  UNCHANGED StoredVector
BY DEF StoredVector

(* Lose: the routes stay the same, and nothing new is on its way.          *)
LEMMA IsLose ==
  ASSUME PlainInv, PlainInv', InTransit' \subseteq InTransit, UNCHANGED StoredVector,
         UNCHANGED <<dist_vector, routing_table>>
  PROVE  Exchange!Next
<1>1. knows_nbrs' = knows_nbrs
  BY DEF PlainInv, NumberedOK
<1>2. Exchange!Lose
  BY <1>1 DEF Exchange!Lose
<1>3. QED
  BY <1>2 DEF Exchange!Next

LEMMA SendLoses == ASSUME PlainInv, PlainInv', NEW b \in Boards, Send(b) PROVE Exchange!Next
<1> DEFINE q == [send_queue[b] EXCEPT !.ip = b]
<1>1. send_queue[b] \in PacketSet /\ send_queue[b] # NONE
  BY DEF PlainInv, BoardOK, SendOK, Send, PlainTypes
<1>2. /\ q.type = send_queue[b].type /\ q.src = send_queue[b].src
      /\ q.dest = send_queue[b].dest /\ q.dv = send_queue[b].dv
  BY <1>1 DEF PacketSet
<1> HIDE DEF q
<1>3. \A c \in Boards : send_queue'[c] \in {send_queue[c], NONE}
  BY DEF Send, Dequeue, PlainInv, PlainTypes
<1>4. \A c \in Boards : recv_data'[c] \in {recv_data[c], q}
  BY DEF Send, Transmit, Callback, recvVars, PlainInv, PlainTypes, q
<1>5. ASSUME NEW c \in Boards, NEW m, Carries(recv_data'[c], m) PROVE m \in InTransit
  <2>1. CASE recv_data'[c] = q
    <3>1. Carries(send_queue[b], m)
      BY <1>1, <1>2, <1>5, <2>1 DEF Carries
    <3>2. QED
      BY <3>1, TransitIsCarried
  <2>2. QED
    BY <1>4, <1>5, <2>1, KeptIsOld
<1>6. ASSUME NEW c \in Boards, NEW m, Carries(send_queue'[c], m) PROVE m \in InTransit
  BY <1>3, <1>6, KeptIsOld
<1>7. InTransit' \subseteq InTransit
  BY <1>5, <1>6, NothingNew
<1>8. UNCHANGED <<nbrs, dist_vector, routing_table>>
  BY DEF Send, selfVars
<1>9. QED
  BY <1>7, <1>8, StoredUnchanged, IsLose

LEMMA AckLoses == ASSUME PlainInv, PlainInv', NEW b \in Boards, Ack(b) PROVE Exchange!Next
<1> DEFINE q == [ack_queue[b] EXCEPT !.ip = b]
<1>1. ack_queue[b] \in PacketSet /\ ack_queue[b].type = "ack"
  BY DEF PlainInv, BoardOK, AckOK, Answer, Ack, PlainTypes
<1>2. q.type # "dv"
  BY <1>1 DEF PacketSet
<1> HIDE DEF q
<1>3. UNCHANGED send_queue
  BY DEF Ack, sendVars
<1>4. \A c \in Boards : recv_data'[c] \in {recv_data[c], q}
  BY DEF Ack, Transmit, Callback, recvVars, PlainInv, PlainTypes, q
<1>5. ASSUME NEW c \in Boards, NEW m, Carries(recv_data'[c], m) PROVE m \in InTransit
  <2>1. recv_data'[c] # q
    BY <1>2, <1>5 DEF Carries
  <2>2. QED
    BY <1>4, <1>5, <2>1, KeptIsOld
<1>6. ASSUME NEW c \in Boards, NEW m, Carries(send_queue'[c], m) PROVE m \in InTransit
  BY <1>3, <1>6, KeptIsOld
<1>7. InTransit' \subseteq InTransit
  BY <1>5, <1>6, NothingNew
<1>8. UNCHANGED <<nbrs, dist_vector, routing_table>>
  BY DEF Ack, selfVars
<1>9. QED
  BY <1>7, <1>8, StoredUnchanged, IsLose

(* Received packets are taken, data may be queued.                         *)
LEMMA TakeLoses ==
  ASSUME \A c \in Boards : recv_data'[c] \in {recv_data[c], NONE},
         \A c \in Boards : \/ send_queue'[c] \in {send_queue[c], NONE}
                           \/ send_queue'[c].type = "data"
  PROVE  InTransit' \subseteq InTransit
<1>1. ASSUME NEW c \in Boards, NEW m, Carries(recv_data'[c], m) PROVE m \in InTransit
  BY <1>1, KeptIsOld
<1>2. ASSUME NEW c \in Boards, NEW m, Carries(send_queue'[c], m) PROVE m \in InTransit
  <2>1. send_queue'[c] \in {send_queue[c], NONE}
    BY <1>2 DEF Carries
  <2>2. QED
    BY <1>2, <2>1, KeptIsOld
<1>3. QED
  BY <1>1, <1>2, NothingNew

LEMMA RecvDataLoses ==
  ASSUME PlainInv, PlainInv', NEW b \in Boards, RecvData(b)
  PROVE  Exchange!Next
<1> DEFINE q == [recv_data[b] EXCEPT !.src = ID[b]]
<1>1. TakePacket(b, "data")
  BY DEF RecvData
<1>2. /\ recv_data[b] \in PacketSet /\ recv_data[b].type = "data"
      /\ \A c \in Boards : recv_data'[c] \in {recv_data[c], NONE}
  BY <1>1, Taken
<1>3. q.type = "data"
  BY <1>2 DEF PacketSet
<1> HIDE DEF q
<1>4. \A c \in Boards : send_queue'[c] \in {send_queue[c], q}
  <2>1. \/ UNCHANGED <<sendVars, target_ID, signal_connect_thread>>
        \/ Forward(b, q)
    BY DEF RecvData, q
  <2>2. QED
    BY <2>1 DEF sendVars, Forward, Enqueue, PlainInv, PlainTypes
<1>5. InTransit' \subseteq InTransit
  BY <1>2, <1>3, <1>4, TakeLoses
<1>6. UNCHANGED <<nbrs, dist_vector, routing_table>>
  BY DEF RecvData, selfVars
<1>7. QED
  BY <1>5, <1>6, StoredUnchanged, IsLose

LEMMA RecvAckLoses ==
  ASSUME PlainInv, PlainInv', NEW b \in Boards, RecvAck(b)
  PROVE  Exchange!Next
<1>1. TakePacket(b, "ack") /\ UNCHANGED <<send_queue, nbrs, dist_vector, routing_table>>
  BY DEF RecvAck, sendVars, selfVars
<1>2. \A c \in Boards : recv_data'[c] \in {recv_data[c], NONE}
  BY <1>1, Taken
<1>3. InTransit' \subseteq InTransit
  BY <1>1, <1>2, TakeLoses
<1>4. QED
  BY <1>1, <1>3, StoredUnchanged, IsLose

(* A neighbor is up-to-date now; the vector it gave stays.                 *)
LEMMA RecvAckDvLoses ==
  ASSUME PlainInv, PlainInv', NEW b \in Boards, RecvAckDv(b)
  PROVE  Exchange!Next
<1>1. /\ TakePacket(b, "ack") /\ UNCHANGED <<send_queue, dist_vector, routing_table>>
      /\ NumberedOK
  BY DEF RecvAckDv, sendVars, PlainInv
<1>2. \A c \in Boards : recv_data'[c] \in {recv_data[c], NONE}
  BY <1>1, Taken
<1>3. InTransit' \subseteq InTransit
  BY <1>1, <1>2, TakeLoses
<1>4. UNCHANGED StoredVector
  <2> DEFINE g == recv_data[b].src
             new == [nbrs[b] EXCEPT ![g].up_to_date = TRUE]
  <2>1. nbrs' = [nbrs EXCEPT ![b] = new]
    BY DEF RecvAckDv
  <2>2. nbrs[b] \in [InRange[b] -> Nbr_t] /\ DOMAIN nbrs = Boards
    BY <1>1 DEF NumberedOK
  <2>3. DOMAIN new = DOMAIN nbrs[b]
        /\ \A h \in DOMAIN nbrs[b] : new[h].dist_vector = nbrs[b][h].dist_vector
    BY <2>2 DEF Nbr_t
  <2> HIDE DEF new
  <2>4. \A c \in IDs : /\ DOMAIN nbrs'[c] = DOMAIN nbrs[c]
                       /\ \A h \in DOMAIN nbrs[c] :
                            nbrs'[c][h].dist_vector = nbrs[c][h].dist_vector
    BY <2>1, <2>2, <2>3, Numbers
  <2>5. QED
    BY <2>4 DEF StoredVector
<1>5. QED
  BY <1>1, <1>3, <1>4, IsLose

LEMMA SerialLoses ==
  ASSUME PlainInv, PlainInv', NEW b \in Boards, NEW k \in Commands, Serial(b, k)
  PROVE  Exchange!Next
<1> DEFINE q == Packet("data", k.dest, ID[b], b)
<1>1. UNCHANGED <<recv_data, nbrs, dist_vector, routing_table>>
  BY DEF Serial, recvVars, selfVars
<1>2. q.type = "data"
  BY DEF Packet
<1>3. k.kind # "token"
  BY DEF PlainInv, NumberedOK, Serial, TypedLine, TokenCommands
<1> HIDE DEF q
<1>4. \A c \in Boards : send_queue'[c] \in {send_queue[c], q}
  <2>1. UNCHANGED sendVars \/ Forward(b, q)
    BY <1>3 DEF Serial, q
  <2>2. QED
    BY <2>1 DEF sendVars, Forward, Enqueue, PlainInv, PlainTypes
<1>5. InTransit' \subseteq InTransit
  BY <1>1, <1>2, <1>4, TakeLoses
<1>6. QED
  BY <1>1, <1>5, StoredUnchanged, IsLose

(* What the connect thread does but for queueing a vector                  *)
LEMMA ConnectLoses ==
  ASSUME PlainInv, PlainInv', NEW b \in Boards,
         EnableAp(b) \/ EndRouting(b) \/ StartDvScan(b) \/ StartJoin(b)
           \/ DvScanNobody(b) \/ Join(b) \/ JoinTimeout(b)
  PROVE  Exchange!Next
<1>1. UNCHANGED <<recv_data, send_queue, nbrs, dist_vector, routing_table>>
  BY DEF EnableAp, EndRouting, StartDvScan, StartJoin, Block, DvScanNobody, Join, JoinTimeout,
     EndPass, selfVars, recvVars, sendVars
<1>2. InTransit' \subseteq InTransit
  BY <1>1, TakeLoses
<1>3. QED
  BY <1>1, <1>2, StoredUnchanged, IsLose

(* DvExchange's operators are those of the program.                        *)
LEMMA SameOperators ==
  /\ Exchange!IDs = IDs /\ Exchange!EmptyVector = EmptyVector
  /\ Exchange!EmptyTable = EmptyTable
  /\ \A dv, n, S : Exchange!InitVector(dv, n, S) = InitVector(dv, n, S)
  /\ \A rt, S : Exchange!InitTable(rt, S) = InitTable(rt, S)
  /\ \A dv, nv : Exchange!UpdateVector(dv, nv) = UpdateVector(dv, nv)
  /\ \A dv, rt, nv, n : Exchange!UpdateTable(dv, rt, nv, n) = UpdateTable(dv, rt, nv, n)
  /\ \A dv, rt, n : Exchange!Poisoned(dv, rt, n) = Poisoned(dv, rt, n)
<1>1. /\ Exchange!IDs = IDs /\ Exchange!DIST_IF_NO_ROUTE = DIST_IF_NO_ROUTE
      /\ Exchange!NO_ROUTE = NO_ROUTE /\ Exchange!DEFAULT_COST = DEFAULT_COST
      /\ Exchange!POISON_DIST = POISON_DIST
  BY DEF Exchange!IDs, IDs, Exchange!DIST_IF_NO_ROUTE, DIST_IF_NO_ROUTE, Exchange!NO_ROUTE,
     NO_ROUTE, Exchange!DEFAULT_COST, DEFAULT_COST, Exchange!POISON_DIST, POISON_DIST
<1>2. Exchange!EmptyVector = EmptyVector /\ Exchange!EmptyTable = EmptyTable
  BY <1>1 DEF Exchange!EmptyVector, EmptyVector, Exchange!EmptyTable, EmptyTable
<1>3. /\ \A dv, n, S : Exchange!InitVector(dv, n, S) = InitVector(dv, n, S)
      /\ \A rt, S : Exchange!InitTable(rt, S) = InitTable(rt, S)
  BY <1>1 DEF Exchange!InitVector, InitVector, Exchange!InitTable, InitTable
<1>4. \A dv, nv : Exchange!Improved(dv, nv) = Improved(dv, nv)
  BY <1>1 DEF Exchange!Improved, Improved
<1>5. /\ \A dv, nv : Exchange!UpdateVector(dv, nv) = UpdateVector(dv, nv)
      /\ \A dv, rt, nv, n : Exchange!UpdateTable(dv, rt, nv, n) = UpdateTable(dv, rt, nv, n)
  BY <1>1, <1>4 DEF Exchange!UpdateVector, UpdateVector, Exchange!UpdateTable, UpdateTable
<1>6. \A dv, rt, n : Exchange!Poisoned(dv, rt, n) = Poisoned(dv, rt, n)
  BY <1>1 DEF Exchange!Poisoned, Poisoned
<1>7. QED
  BY <1>1, <1>2, <1>3, <1>5, <1>6

(* A table that differs in one entry is that table updated.                *)
LEMMA NestedUpdate ==
  ASSUME NEW S, NEW old, NEW new, NEW b \in S, NEW h \in S, NEW v,
         old = [c \in S |-> [d \in S |-> old[c][d]]],
         new = [c \in S |-> [d \in S |-> new[c][d]]],
         \A c \in S \ {b} : new[c] = old[c],
         \A d \in S : new[b][d] = IF d = h THEN v ELSE old[b][d]
  PROVE  new = [old EXCEPT ![b][h] = v]
<1>1. old[b] = [d \in S |-> old[b][d]] /\ new[b] = [d \in S |-> new[b][d]]
  BY Zenon
<1>2. new[b] = [old[b] EXCEPT ![h] = v]
  BY <1>1
<1>3. old = [c \in S |-> old[c]] /\ new = [c \in S |-> new[c]]
  <2>1. \A c \in S : old[c] = [d \in S |-> old[c][d]] /\ new[c] = [d \in S |-> new[c][d]]
    BY Zenon
  <2>2. QED
    BY <2>1
<1> DEFINE w == [old[b] EXCEPT ![h] = v]
<1>4. new = [old EXCEPT ![b] = w]
  <2>1. new[b] = w
    BY <1>2
  <2> HIDE DEF w
  <2>2. QED
    BY <1>3, <2>1
<1>5. QED
  BY <1>4

(* Receive: the vector is stored and may improve that of the receiver.     *)
LEMMA RecvDvReceives ==
  ASSUME PlainInv, PlainInv', NEW b \in Boards, RecvDv(b)
  PROVE  Exchange!Next
<1> DEFINE p == recv_data[b]
           m == [src |-> p.src, dst |-> p.dest, dv |-> p.dv]
<1>1. TakePacket(b, "dv") /\ UNCHANGED send_queue /\ NumberedOK
  BY DEF RecvDv, sendVars, PlainInv
<1>2. /\ p \in PacketSet /\ Received(b, p) /\ p.type = "dv"
      /\ \A c \in Boards : recv_data'[c] \in {recv_data[c], NONE}
  BY <1>1, Taken
<1>3. p.dest = b /\ p.src \in InRange[b] /\ p.src \in IDs /\ b \in IDs
  BY <1>2, Numbers DEF Received
<1>4. m \in InTransit
  BY <1>2, TransitIsCarried, NoneAssumption DEF Carries
<1>5. InTransit' \subseteq InTransit
  BY <1>1, <1>2, TakeLoses
<1>6. dist_vector' = [dist_vector EXCEPT ![b] = UpdateVector(dist_vector[b], p.dv)]
      /\ routing_table' =
           [routing_table EXCEPT
              ![b] = UpdateTable(dist_vector[b], routing_table[b], p.dv, p.src)]
  BY DEF RecvDv, PlainInv, PlainTypes
<1>7. StoredVector' = [StoredVector EXCEPT ![b][p.src] = p.dv]
  <2>1. nbrs' = [nbrs EXCEPT ![b] = NbrsAfter(b, p)]
    BY DEF RecvDv
  <2>2. nbrs[b] \in [InRange[b] -> Nbr_t] /\ DOMAIN nbrs = Boards
    BY <1>1 DEF NumberedOK
  <2>3. /\ DOMAIN NbrsAfter(b, p) = DOMAIN nbrs[b]
        /\ \A h \in DOMAIN nbrs[b] :
             NbrsAfter(b, p)[h].dist_vector = IF h = p.src THEN p.dv ELSE nbrs[b][h].dist_vector
    <3> DEFINE stored == [nbrs[b] EXCEPT ![p.src].dist_vector = p.dv]
               changed == Improved(dist_vector[b], p.dv) # {}
    <3>1. NbrsAfter(b, p) =
            [h \in DOMAIN nbrs[b] |-> [stored[h] EXCEPT !.up_to_date = @ /\ ~ changed]]
      BY Zenon DEF NbrsAfter
    <3>2. \A h \in DOMAIN nbrs[b] :
            /\ stored[h] \in Nbr_t
            /\ stored[h].dist_vector = IF h = p.src THEN p.dv ELSE nbrs[b][h].dist_vector
      BY <1>2, <1>3, <2>2 DEF Nbr_t, PacketSet
    <3>3. \A h \in DOMAIN nbrs[b] :
            NbrsAfter(b, p)[h] = [stored[h] EXCEPT !.up_to_date = @ /\ ~ changed]
      BY <3>1, Zenon
    <3>4. \A r \in Nbr_t : [r EXCEPT !.up_to_date = @ /\ ~ changed].dist_vector = r.dist_vector
      <4> HIDE DEF changed
      <4> QED BY DEF Nbr_t
    <3>5. \A h \in DOMAIN nbrs[b] : NbrsAfter(b, p)[h].dist_vector = stored[h].dist_vector
      <4> HIDE DEF stored, changed
      <4> QED BY <3>2, <3>3, <3>4, Zenon
    <3>6. DOMAIN NbrsAfter(b, p) = DOMAIN nbrs[b]
      BY <3>1, Zenon
    <3>7. QED
      <4> HIDE DEF stored, changed
      <4> QED BY <3>2, <3>5, <3>6
  <2> DEFINE after == NbrsAfter(b, p)
  <2> HIDE DEF p, after
  <2>4. nbrs'[b] = after /\ \A c \in IDs \ {b} : nbrs'[c] = nbrs[c]
    BY <2>1, <2>2, Numbers DEF after
  <2>5. /\ DOMAIN after = InRange[b] /\ DOMAIN nbrs[b] = InRange[b]
        /\ \A h \in InRange[b] :
             after[h].dist_vector = IF h = p.src THEN p.dv ELSE nbrs[b][h].dist_vector
    BY <2>2, <2>3 DEF after
  <2>6. ASSUME NEW h \in IDs
        PROVE  StoredVector'[b][h] = IF h = p.src THEN p.dv ELSE StoredVector[b][h]
    BY <1>3, <2>4, <2>5 DEF StoredVector
  <2>7. \A c \in IDs \ {b} : StoredVector'[c] = StoredVector[c]
    BY <2>4 DEF StoredVector
  <2>8. /\ StoredVector = [c \in IDs |-> [h \in IDs |-> StoredVector[c][h]]]
        /\ StoredVector' = [c \in IDs |-> [h \in IDs |-> StoredVector'[c][h]]]
    BY DEF StoredVector
  <2>9. QED
    BY <1>3, <2>6, <2>7, <2>8, NestedUpdate
<1>8. knows_nbrs[b] /\ knows_nbrs' = knows_nbrs
  BY DEF PlainInv, NumberedOK
<1>9. m.src = p.src /\ m.dst = b /\ m.dv = p.dv
  BY <1>3
<1>10. Exchange!Receive(m)
  <2> HIDE DEF m, p
  <2> QED BY <1>3, <1>4, <1>5, <1>6, <1>7, <1>8, <1>9, SameOperators DEF Exchange!Receive
<1>11. QED
  BY <1>4, <1>10 DEF Exchange!Next

(* Advertise: a vector is queued for a neighbor; that may replace another. *)
LEMMA DvScanFoundAdvertises ==
  ASSUME PlainInv, PlainInv', NEW b \in Boards, NEW h \in IDs, DvScanFound(b, h)
  PROVE  Exchange!Next
<1> DEFINE q == DvFor(b, h)
           m == Exchange!AdvertTo(b, h)
<1>1. h \in InRange[b] /\ NumberedOK /\ b \in IDs /\ PlainTypes
  BY Numbers DEF PlainInv, DvScanFound, NeedVector, NumberedOK
<1>2. q \in PacketSet /\ Composed(b, q) /\ q.type = "dv" /\ q.dest = h
      /\ q.dv = Poisoned(dist_vector[b], routing_table[b], h)
  <2>1. TypeOK
    BY <1>1, TypesFromParts
  <2>2. QED
    BY <1>1, <2>1, VectorIsComposed
<1>3. /\ m = [src |-> q.src, dst |-> q.dest, dv |-> q.dv]
      /\ q # NONE
  BY <1>2, SameOperators, NoneAssumption DEF Composed, Exchange!AdvertTo
<1>4. /\ send_queue' = [send_queue EXCEPT ![b] = q]
      /\ UNCHANGED <<recv_data, nbrs, dist_vector, routing_table>>
  BY DEF DvScanFound, Enqueue, EndPass, selfVars
<1> HIDE DEF q, m
<1>5. m \in InTransit'
  <2>1. Carries(send_queue'[b], m)
    BY <1>1, <1>2, <1>3, <1>4 DEF Carries, PlainTypes
  <2>2. QED
    BY <2>1, TransitIsCarriedNext, Zenon DEF Carries
<1>6. ASSUME NEW a \in InTransit', a # m PROVE a \in InTransit
  <2>1. PICK c \in Boards : Carries(send_queue'[c], a) \/ Carries(recv_data'[c], a)
    BY <1>6, TransitIsCarriedNext, Zenon DEF Carries
  <2>2. ~ Carries(q, a)
    BY <1>3, <1>6 DEF Carries
  <2>3. Carries(send_queue[c], a) \/ Carries(recv_data[c], a)
    BY <1>1, <1>4, <2>1, <2>2 DEF PlainTypes
  <2>4. QED
    BY <2>3, TransitIsCarried
<1>7. InTransit' = (InTransit' \cap InTransit) \cup {m}
  BY <1>5, <1>6
<1>8. knows_nbrs[b] /\ knows_nbrs' = knows_nbrs
  BY DEF PlainInv, NumberedOK
<1>9. Exchange!Advertise(b, h)
  BY <1>1, <1>4, <1>7, <1>8, StoredUnchanged DEF Exchange!Advertise, m
<1>10. QED
  BY <1>1, <1>9, SameOperators DEF Exchange!Next

LEMMA InitImplements == InitRouted => Exchange!Init
<1> SUFFICES ASSUME InitRouted PROVE Exchange!Init
  OBVIOUS
<1>1. /\ knows_nbrs = [b \in IDs |-> TRUE]
      /\ dist_vector = [b \in IDs |-> InitVector(EmptyVector, b, InRange[b])]
      /\ routing_table = [b \in IDs |-> InitTable(EmptyTable, InRange[b])]
      /\ nbrs = [b \in IDs |-> [h \in InRange[b] |-> NewNbr]]
      /\ \A b \in Boards : send_queue[b] = NONE /\ recv_data[b] = NONE
  BY Numbers DEF InitRouted, NeighborsFound, Numbered, InitThreads, Idle
<1>2. InTransit = {}
  BY <1>1, TransitIsCarried DEF Carries
<1>3. StoredVector = [b \in IDs |-> [h \in IDs |-> EmptyVector]]
  BY <1>1 DEF StoredVector, NewNbr
<1>4. QED
  BY <1>1, <1>2, <1>3, SameOperators DEF Exchange!Init

LEMMA StepImplements ==
  ASSUME PlainInv, PlainInv', [Next]_vars
  PROVE  [Exchange!Next]_(Exchange!vars)
<1>1. CASE Next
  <2>1. PICK b \in Boards : RoutedStep(b)
    BY <1>1, RoutedSteps
  <2>2. Exchange!Next
    BY <2>1, SendLoses, AckLoses, RecvDataLoses, RecvAckLoses, RecvAckDvLoses, RecvDvReceives,
       SerialLoses, ConnectLoses, DvScanFoundAdvertises, Zenon DEF RoutedStep
  <2>3. QED
    BY <2>2
<1>2. CASE UNCHANGED vars
  <2>1. UNCHANGED <<recv_data, send_queue, nbrs, dist_vector, routing_table>>
    BY <1>2 DEF vars, selfVars, recvVars, sendVars
  <2>2. InTransit' \subseteq InTransit
    BY <2>1, TakeLoses
  <2>3. QED
    BY <2>1, <2>2, StoredUnchanged, IsLose
<1>3. QED
  BY <1>1, <1>2

(* The threads, the radio and the one-packet buffers, with whatever they   *)
(* lose, repeat or overwrite, implement DvExchange: a vector that a board  *)
(* stores is one that a neighbor composed for it.                          *)
THEOREM ImplementsExchangeProved == SpecRouted => ImplementsExchange
<1>1. PlainInv /\ PlainInv' /\ [Next]_vars => [Exchange!Next]_(Exchange!vars)
  BY StepImplements
<1>2. RoutedInv <=> PlainInv
  BY PlainIsRouted
<1>3. QED
  BY <1>1, <1>2, InitImplements, RoutedInvariant, PTL
     DEF SpecRouted, ImplementsExchange, Exchange!Spec

-----------------------------------------------------------------------------
(* The routes *)

(* What is on its way is no better than what its sender has by now, and    *)
(* the next hop of a route is a neighbor that is closer.                   *)
RoutesOK ==
  /\ \A m \in InTransit : \A d \in IDs : m.dv[d] >= dist_vector[m.src][d]
  /\ \A n, d \in IDs :
       routing_table[n][d] # NO_ROUTE
         => /\ routing_table[n][d] \in InRange[n]
            /\ dist_vector[routing_table[n][d]][d] < dist_vector[n][d]

(* update_dist_vector_by_nbr_id, entry by entry                            *)
LEMMA UpdatedEntry ==
  ASSUME NEW dv \in Vector, NEW rt \in Table, NEW nv \in WireVector, NEW n \in IDs,
         NEW d \in IDs
  PROVE  /\ dv[d] \in Dist /\ UpdateVector(dv, nv)[d] \in Dist
         /\ UpdateVector(dv, nv)[d] <= dv[d]
         /\ \/ /\ UpdateVector(dv, nv)[d] = dv[d]
               /\ UpdateTable(dv, rt, nv, n)[d] = rt[d]
            \/ /\ UpdateVector(dv, nv)[d] = 1 + nv[d]
               /\ UpdateTable(dv, rt, nv, n)[d] = n
<1>1. UpdateVector(dv, nv) \in Vector
  BY VectorTypes
<1>2. dv[d] \in Dist /\ UpdateVector(dv, nv)[d] \in Dist /\ nv[d] \in WireDist
  BY <1>1 DEF Vector, WireVector
<1>3. d \in Improved(dv, nv) <=> 1 + nv[d] < dv[d]
  BY DEF Improved, DEFAULT_COST
<1>4. /\ UpdateVector(dv, nv)[d] = IF d \in Improved(dv, nv) THEN 1 + nv[d] ELSE dv[d]
      /\ UpdateTable(dv, rt, nv, n)[d] = IF d \in Improved(dv, nv) THEN n ELSE rt[d]
  BY DEF UpdateVector, UpdateTable, DEFAULT_COST
<1>5. QED
  BY <1>2, <1>3, <1>4, Numbers DEF Dist, WireDist, DIST_IF_NO_ROUTE, POISON_DIST

LEMMA RouteTypes ==
  ASSUME PlainInv
  PROVE  /\ dist_vector \in [IDs -> Vector] /\ routing_table \in [IDs -> Table]
         /\ \A n, d \in IDs : dist_vector[n][d] \in Dist /\ dist_vector[n][d] \in Nat
<1>1. dist_vector \in [IDs -> Vector] /\ routing_table \in [IDs -> Table]
  BY Numbers DEF PlainInv, PlainTypes
<1>2. \A v \in Vector : \A d \in IDs : v[d] \in Dist /\ v[d] \in Nat
  BY Numbers DEF Vector, Dist, DIST_IF_NO_ROUTE
<1>3. \A n, d \in IDs : dist_vector[n][d] \in Dist /\ dist_vector[n][d] \in Nat
  BY <1>1, <1>2
<1>4. QED
  BY <1>1, <1>3

LEMMA TransitTypes ==
  ASSUME PlainInv, NEW m \in InTransit
  PROVE  m.src \in IDs /\ m.dst \in IDs /\ m.src \in InRange[m.dst] /\ m.dv \in WireVector
<1>1. PICK b \in Boards : Carries(send_queue[b], m) \/ Carries(recv_data[b], m)
  BY TransitIsCarried
<1>2. BoardOK(b) /\ b \in IDs /\ PlainTypes
  BY Numbers DEF PlainInv
<1>3. CASE Carries(send_queue[b], m)
  <2>1. send_queue[b] \in PacketSet /\ Composed(b, send_queue[b])
    BY <1>2, <1>3 DEF Carries, BoardOK, SendOK, PlainTypes
  <2>2. m.src = b /\ m.dst \in InRange[b] /\ m.dst \in IDs
    BY <1>3, <2>1 DEF Carries, Composed
  <2>3. m.dv \in WireVector
    BY <1>3, <2>1 DEF Carries, PacketSet
  <2>4. QED
    BY <1>2, <2>2, <2>3, BoardsAssumption, Numbers
<1>4. CASE Carries(recv_data[b], m)
  <2>1. recv_data[b] \in PacketSet /\ Received(b, recv_data[b])
    BY <1>2, <1>4 DEF Carries, BoardOK, RecvOK, PlainTypes
  <2>2. m.dst = b /\ m.src \in InRange[b] /\ m.src \in IDs
    BY <1>4, <2>1 DEF Carries, Received
  <2>3. m.dv \in WireVector
    BY <1>4, <2>1 DEF Carries, PacketSet
  <2>4. QED
    BY <1>2, <2>2, <2>3
<1>5. QED
  BY <1>1, <1>3, <1>4

LEMMA InitRoutes == InitRouted => RoutesOK
<1> SUFFICES ASSUME InitRouted PROVE RoutesOK
  OBVIOUS
<1>1. /\ dist_vector = [b \in IDs |-> InitVector(EmptyVector, b, InRange[b])]
      /\ routing_table = [b \in IDs |-> InitTable(EmptyTable, InRange[b])]
      /\ \A b \in Boards : send_queue[b] = NONE /\ recv_data[b] = NONE
  BY Numbers DEF InitRouted, NeighborsFound, InitThreads, Idle
<1>2. InTransit = {}
  BY <1>1, TransitIsCarried DEF Carries
<1>3. ASSUME NEW n \in IDs, NEW d \in IDs, routing_table[n][d] # NO_ROUTE
      PROVE  /\ routing_table[n][d] \in InRange[n]
             /\ dist_vector[routing_table[n][d]][d] < dist_vector[n][d]
  <2>1. d \in InRange[n] /\ routing_table[n][d] = d
    BY <1>1, <1>3 DEF InitTable, EmptyTable
  <2>2. d # n
    BY <2>1, BoardsAssumption, Numbers
  <2>3. dist_vector[n][d] = 1 /\ dist_vector[d][d] = 0
    BY <1>1, <2>1, <2>2 DEF InitVector, DEFAULT_COST
  <2>4. QED
    BY <2>1, <2>3
<1>4. QED
  BY <1>2, <1>3 DEF RoutesOK

(* No distance ever grows: the argument is about DvExchange alone.         *)
LEMMA RoutesKeep ==
  ASSUME PlainInv, PlainInv', RoutesOK, Exchange!Next
  PROVE  /\ RoutesOK'
         /\ \A n, d \in IDs : dist_vector'[n][d] <= dist_vector[n][d]
<1>1. /\ dist_vector \in [IDs -> Vector] /\ routing_table \in [IDs -> Table]
      /\ \A n, d \in IDs : dist_vector[n][d] \in Dist
      /\ \A n \in IDs : knows_nbrs[n]
  BY RouteTypes, Numbers DEF PlainInv, NumberedOK
<1>2. ASSUME InTransit' \subseteq InTransit, UNCHANGED <<dist_vector, routing_table>>
      PROVE  RoutesOK' /\ \A n, d \in IDs : dist_vector'[n][d] <= dist_vector[n][d]
  <2>1. \A n, d \in IDs : dist_vector'[n][d] <= dist_vector[n][d]
    BY <1>2, RouteTypes
  <2>2. RoutesOK'
    BY <1>2 DEF RoutesOK
  <2>3. QED
    BY <2>1, <2>2
<1>3. CASE Exchange!Lose
  BY <1>2, <1>3 DEF Exchange!Lose
<1>4. ASSUME NEW n \in IDs, NEW h \in IDs, Exchange!Advertise(n, h)
      PROVE  RoutesOK' /\ \A x, d \in IDs : dist_vector'[x][d] <= dist_vector[x][d]
  <2> DEFINE a == Exchange!AdvertTo(n, h)
  <2>1. UNCHANGED <<dist_vector, routing_table>> /\ \A m \in InTransit' : m \in InTransit \/ m = a
    BY <1>4 DEF Exchange!Advertise
  <2>2. \A d \in IDs : a.dv[d] >= dist_vector[a.src][d]
    <3>1. a.src = n /\ a.dv = Poisoned(dist_vector[n], routing_table[n], h)
      BY SameOperators DEF Exchange!AdvertTo
    <3>2. QED
      BY <1>1, <3>1, Numbers DEF Poisoned, Dist, POISON_DIST, DIST_IF_NO_ROUTE
  <2> HIDE DEF a
  <2>3. \A m \in InTransit' : \A d \in IDs : m.dv[d] >= dist_vector'[m.src][d]
    BY <2>1, <2>2 DEF RoutesOK
  <2>4. RoutesOK'
    BY <2>1, <2>3 DEF RoutesOK
  <2>5. \A x, d \in IDs : dist_vector'[x][d] <= dist_vector[x][d]
    BY <2>1, RouteTypes
  <2>6. QED
    BY <2>4, <2>5
<1>5. ASSUME NEW m \in InTransit, Exchange!Receive(m)
      PROVE  RoutesOK' /\ \A x, d \in IDs : dist_vector'[x][d] <= dist_vector[x][d]
  <2> DEFINE b == m.dst
             h == m.src
  <2>1. b \in IDs /\ h \in IDs /\ h \in InRange[b] /\ m.dv \in WireVector /\ h # b
    BY TransitTypes, BoardsAssumption, Numbers
  <2>2. /\ dist_vector' = [dist_vector EXCEPT ![b] = UpdateVector(dist_vector[b], m.dv)]
        /\ routing_table' =
             [routing_table EXCEPT
                ![b] = UpdateTable(dist_vector[b], routing_table[b], m.dv, h)]
        /\ InTransit' \subseteq InTransit
    BY <1>1, <1>5, <2>1, SameOperators DEF Exchange!Receive
  <2>3. \A d \in IDs : m.dv[d] >= dist_vector[h][d] /\ m.dv[d] \in WireDist
    BY <2>1 DEF RoutesOK, WireVector
  <2> HIDE DEF b, h
  <2>4. \A n \in IDs \ {b} : dist_vector'[n] = dist_vector[n] /\ routing_table'[n] = routing_table[n]
    BY <1>1, <2>2
  <2>5. ASSUME NEW d \in IDs
        PROVE  /\ dist_vector'[b][d] \in Dist /\ dist_vector'[b][d] <= dist_vector[b][d]
               /\ \/ /\ dist_vector'[b][d] = dist_vector[b][d]
                     /\ routing_table'[b][d] = routing_table[b][d]
                  \/ /\ dist_vector'[b][d] = 1 + m.dv[d]
                     /\ routing_table'[b][d] = h
    <3>1. dist_vector[b] \in Vector /\ routing_table[b] \in Table
      BY <1>1, <2>1
    <3>2. /\ dist_vector'[b] = UpdateVector(dist_vector[b], m.dv)
          /\ routing_table'[b] = UpdateTable(dist_vector[b], routing_table[b], m.dv, h)
      BY <1>1, <2>1, <2>2
    <3>3. QED
      BY <2>1, <3>1, <3>2, UpdatedEntry
  <2>6. \A x, d \in IDs : dist_vector'[x][d] <= dist_vector[x][d] /\ dist_vector'[x][d] \in Dist
    BY <1>1, <2>4, <2>5, Numbers DEF Dist, DIST_IF_NO_ROUTE
  <2>7. \A a \in InTransit' : \A d \in IDs : a.dv[d] >= dist_vector'[a.src][d]
    <3> SUFFICES ASSUME NEW a \in InTransit', NEW d \in IDs
                 PROVE  a.dv[d] >= dist_vector'[a.src][d]
      OBVIOUS
    <3>1. a \in InTransit /\ a.src \in IDs /\ a.dv[d] \in WireDist
      BY <2>2, TransitTypes DEF WireVector
    <3>2. a.dv[d] >= dist_vector[a.src][d]
      BY <3>1 DEF RoutesOK
    <3>3. dist_vector'[a.src][d] <= dist_vector[a.src][d]
          /\ dist_vector'[a.src][d] \in Dist /\ dist_vector[a.src][d] \in Dist
      BY <1>1, <2>6, <3>1
    <3>4. QED
      BY <3>1, <3>2, <3>3, Numbers DEF Dist, WireDist, DIST_IF_NO_ROUTE, POISON_DIST
  <2>8. ASSUME NEW n \in IDs, NEW d \in IDs, routing_table'[n][d] # NO_ROUTE
        PROVE  /\ routing_table'[n][d] \in InRange[n]
               /\ dist_vector'[routing_table'[n][d]][d] < dist_vector'[n][d]
    <3>1. CASE routing_table'[n][d] = routing_table[n][d] /\ dist_vector'[n][d] = dist_vector[n][d]
      <4> DEFINE g == routing_table[n][d]
      <4>1. g \in InRange[n] /\ dist_vector[g][d] < dist_vector[n][d]
        BY <2>8, <3>1 DEF RoutesOK
      <4>2. g \in IDs
        BY <4>1, BoardsAssumption, Numbers
      <4> HIDE DEF g
      <4>3. dist_vector'[g][d] <= dist_vector[g][d] /\ dist_vector'[g][d] \in Dist
            /\ dist_vector[g][d] \in Dist /\ dist_vector[n][d] \in Dist
        BY <1>1, <2>6, <4>2
      <4>4. dist_vector'[g][d] < dist_vector[n][d]
        BY <4>1, <4>3, Numbers DEF Dist, DIST_IF_NO_ROUTE
      <4>5. QED
        BY <3>1, <4>1, <4>4 DEF g
    <3>2. CASE n = b /\ dist_vector'[b][d] = 1 + m.dv[d] /\ routing_table'[b][d] = h
      <4>1. dist_vector'[h][d] = dist_vector[h][d] /\ dist_vector[h][d] \in Dist
        BY <1>1, <2>1, <2>4
      <4>2. dist_vector[h][d] < 1 + m.dv[d]
        BY <2>3, <4>1, Numbers DEF Dist, WireDist, DIST_IF_NO_ROUTE, POISON_DIST
      <4>3. QED
        BY <2>1, <3>2, <4>1, <4>2
    <3>3. QED
      BY <2>4, <2>5, <3>1, <3>2
  <2>9. QED
    BY <2>6, <2>7, <2>8 DEF RoutesOK
<1>6. ASSUME NEW n \in IDs PROVE ~ Exchange!LearnNeighbors(n)
  BY <1>1 DEF Exchange!LearnNeighbors
<1>7. QED
  BY <1>3, <1>4, <1>5, <1>6, SameOperators DEF Exchange!Next

LEMMA StepsKeepRoutes ==
  ASSUME PlainInv, PlainInv', RoutesOK, [Next]_vars
  PROVE  /\ RoutesOK'
         /\ \A n, d \in IDs : dist_vector'[n][d] <= dist_vector[n][d]
<1>1. CASE Exchange!Next
  BY <1>1, RoutesKeep
<1>2. CASE UNCHANGED Exchange!vars
  <2>1. \A n, d \in IDs : dist_vector[n][d] \in Int
    BY RouteTypes
  <2>2. UNCHANGED <<dist_vector, routing_table, InTransit>>
    BY <1>2 DEF Exchange!vars
  <2>3. QED
    BY <2>1, <2>2 DEF RoutesOK
<1>3. QED
  BY <1>1, <1>2, StepImplements

LEMMA RoutesOKAlways == SpecRouted => []RoutesOK
<1>1. PlainInv /\ PlainInv' /\ RoutesOK /\ [Next]_vars => RoutesOK'
  BY StepsKeepRoutes
<1>2. RoutedInv <=> PlainInv
  BY PlainIsRouted
<1>3. QED
  BY <1>1, <1>2, InitRoutes, RoutedInvariant, PTL DEF SpecRouted

(* At any time of an exchange, whatever is lost, a board sends data on to  *)
(* a neighbor that is closer to its destination.                           *)
THEOREM RoutesLeadCloser == SpecRouted => []Exchange!NextHopCloser
<1>1. RoutesOK => Exchange!NextHopCloser
  BY SameOperators DEF RoutesOK, Exchange!NextHopCloser, Exchange!NO_ROUTE, NO_ROUTE
<1>2. QED
  BY <1>1, RoutesOKAlways, PTL

(* No set of boards ever routes data round among themselves, not even      *)
(* while vectors are on their way.                                         *)
THEOREM NoLoopInNetwork == SpecRouted => []Exchange!NoRoutingLoop
<1>1. RoutedInv /\ RoutesOK => Exchange!NoRoutingLoop
  <2> SUFFICES ASSUME RoutedInv, RoutesOK, NEW d \in IDs, NEW S \in SUBSET (IDs \ {d}),
                      S # {}
               PROVE  \E n \in S : routing_table[n][d] \notin S
    BY SameOperators DEF Exchange!NoRoutingLoop
  <2> DEFINE T == {dist_vector[n][d] : n \in S}
  <2>1. T \in SUBSET Nat /\ T # {}
    <3>1. \A n \in S : dist_vector[n][d] \in Nat
      BY Numbers DEF RoutedInv, TypeOK, Vector, Dist, DIST_IF_NO_ROUTE
    <3>2. QED
      BY <3>1
  <2> HIDE DEF T
  <2>2. PICK y \in T : \A z \in T : <<z, y>> \notin OpToRel(<, Nat)
    BY <2>1, NatLessThanWellFounded, WFMin
  <2>3. \A z \in T : ~ (z < y)
    BY <2>1, <2>2 DEF OpToRel
  <2> USE DEF T
  <2>4. PICK n \in S : y = dist_vector[n][d]
    BY <2>2
  <2>5. ASSUME routing_table[n][d] \in S PROVE FALSE
    <3>1. routing_table[n][d] # NO_ROUTE
      BY <2>5, Numbers
    <3>2. dist_vector[routing_table[n][d]][d] < y
      BY <2>4, <3>1 DEF RoutesOK
    <3>3. QED
      BY <2>3, <2>5, <3>2
  <2>6. QED
    BY <2>5
<1>2. QED
  BY <1>1, RoutesOKAlways, RoutedInvariant, PTL

-----------------------------------------------------------------------------
(* The distances *)

(* No distance is too short, a board is at none from itself, and it has    *)
(* taken every vector that it stores into account.                         *)
LearnedOK ==
  /\ \A n, d \in IDs : dist_vector[n][d] >= Hops[n][d]
  /\ \A n \in IDs : dist_vector[n][n] = 0
  /\ \A n, d \in IDs : \A h \in InRange[n] :
       dist_vector[n][d] <= 1 + StoredVector[n][h][d]

(* The true distances                                                      *)
LEMMA HopsAre ==
  /\ \A n, d \in IDs : Hops[n][d] \in Nat /\ Hops[n][d] <= MAX_NODES
  /\ \A d \in IDs : Hops[d][d] = 0
  /\ \A n, d \in IDs : \A h \in InRange[n] : Hops[n][d] <= 1 + Hops[h][d]
  /\ \A n, d \in IDs : d # n /\ Hops[n][d] < MAX_NODES
       => \E h \in InRange[n] : Hops[n][d] = 1 + Hops[h][d]
<1>1. \A n, d \in IDs : Hops[n][d] \in 0 .. MAX_NODES
  BY RoutingAssumption DEF Vector, Dist, DIST_IF_NO_ROUTE
<1>2. \A n \in IDs : \A h \in InRange[n] : h \in IDs
  BY BoardsAssumption, Numbers
<1>3. /\ \A d \in IDs : Hops[d][d] = 0
      /\ \A n, d \in IDs : \A h \in InRange[n] : Hops[n][d] <= Hops[h][d] + 1
      /\ \A n, d \in IDs : d # n /\ Hops[n][d] # MAX_NODES
           => \E h \in InRange[n] : Hops[h][d] + 1 = Hops[n][d]
  BY RoutingAssumption DEF DEFAULT_COST, DIST_IF_NO_ROUTE
<1>4. \A n, d \in IDs : \A h \in InRange[n] : Hops[n][d] <= 1 + Hops[h][d]
  BY <1>1, <1>2, <1>3
<1>5. ASSUME NEW n \in IDs, NEW d \in IDs, d # n, Hops[n][d] < MAX_NODES
      PROVE  \E h \in InRange[n] : Hops[n][d] = 1 + Hops[h][d]
  <2>1. Hops[n][d] # MAX_NODES
    BY <1>1, <1>5, Numbers
  <2>2. PICK h \in InRange[n] : Hops[h][d] + 1 = Hops[n][d]
    BY <1>3, <1>5, <2>1
  <2>3. Hops[h][d] \in Int
    BY <1>1, <1>2
  <2>4. QED
    BY <2>2, <2>3
<1>6. \A n, d \in IDs : Hops[n][d] \in Nat /\ Hops[n][d] <= MAX_NODES
  BY <1>1, Numbers
<1>7. QED
  BY <1>3, <1>4, <1>5, <1>6

(* update_dist_vector_by_nbr_id leaves no entry worse than the neighbor's. *)
LEMMA UpdatedIsRelaxed ==
  ASSUME NEW dv \in Vector, NEW nv \in WireVector, NEW d \in IDs
  PROVE  UpdateVector(dv, nv)[d] <= 1 + nv[d]
<1>1. dv[d] \in Dist /\ nv[d] \in WireDist
  BY DEF Vector, WireVector
<1>2. d \in Improved(dv, nv) <=> 1 + nv[d] < dv[d]
  BY DEF Improved, DEFAULT_COST
<1>3. UpdateVector(dv, nv)[d] = IF d \in Improved(dv, nv) THEN 1 + nv[d] ELSE dv[d]
  BY DEF UpdateVector, DEFAULT_COST
<1>4. QED
  BY <1>1, <1>2, <1>3, Numbers DEF Dist, WireDist, DIST_IF_NO_ROUTE, POISON_DIST

LEMMA StoredTypes ==
  ASSUME PlainInv
  PROVE  /\ StoredVector = [n \in IDs |-> [h \in IDs |-> StoredVector[n][h]]]
         /\ \A n, h \in IDs : StoredVector[n][h] \in WireVector
         /\ \A n, h, d \in IDs : StoredVector[n][h][d] \in Nat
         /\ \A n \in IDs : \A h \in InRange[n] : StoredVector[n][h] = nbrs[n][h].dist_vector
<1>1. \A n \in IDs : nbrs[n] \in [InRange[n] -> Nbr_t]
  BY Numbers DEF PlainInv, NumberedOK
<1>2. \A n \in IDs : InRange[n] \subseteq IDs
  BY BoardsAssumption, Numbers
<1>3. StoredVector = [n \in IDs |-> [h \in IDs |-> StoredVector[n][h]]]
  BY DEF StoredVector
<1>4. ASSUME NEW n \in IDs, NEW h \in IDs
      PROVE  /\ StoredVector[n][h] \in WireVector
             /\ h \in InRange[n] => StoredVector[n][h] = nbrs[n][h].dist_vector
  <2>1. StoredVector[n][h] = IF h \in InRange[n] THEN nbrs[n][h].dist_vector ELSE EmptyVector
    BY <1>1 DEF StoredVector
  <2>2. h \in InRange[n] => nbrs[n][h].dist_vector \in WireVector
    BY <1>1 DEF Nbr_t
  <2>3. QED
    BY <2>1, <2>2, VectorTypes
<1>5. \A v \in WireVector : \A d \in IDs : v[d] \in Nat
  BY Numbers DEF WireVector, WireDist, POISON_DIST, DIST_IF_NO_ROUTE
<1>6. \A n \in IDs : \A h \in InRange[n] : StoredVector[n][h] = nbrs[n][h].dist_vector
  BY <1>2, <1>4
<1>7. \A n, h \in IDs : StoredVector[n][h] \in WireVector
  BY <1>4
<1>8. QED
  BY <1>3, <1>5, <1>6, <1>7

LEMMA InitLearned == InitRouted => LearnedOK
<1> SUFFICES ASSUME InitRouted PROVE LearnedOK
  OBVIOUS
<1>1. dist_vector = [b \in IDs |-> InitVector(EmptyVector, b, InRange[b])]
  BY Numbers DEF InitRouted, NeighborsFound
<1>2. \A n, d \in IDs : dist_vector[n][d] = IF d = n THEN 0
                                            ELSE IF d \in InRange[n] THEN 1 ELSE MAX_NODES
  BY <1>1 DEF InitVector, EmptyVector, DEFAULT_COST, DIST_IF_NO_ROUTE
<1>3. ASSUME NEW n \in IDs, NEW d \in IDs PROVE dist_vector[n][d] >= Hops[n][d]
  <2>1. d \in InRange[n] => Hops[n][d] <= 1
    BY HopsAre
  <2>2. QED
    BY <1>2, <2>1, HopsAre, Numbers
<1>4. ASSUME NEW n \in IDs, NEW h \in InRange[n] PROVE StoredVector[n][h] = EmptyVector
  <2>1. nbrs = [b \in IDs |-> [a \in InRange[b] |-> NewNbr]] /\ h \in IDs
    BY BoardsAssumption, Numbers DEF InitRouted, NeighborsFound
  <2>2. h \in DOMAIN nbrs[n] /\ nbrs[n][h] = NewNbr
    BY <2>1
  <2>3. QED
    BY <2>1, <2>2 DEF StoredVector, NewNbr
<1>5. ASSUME NEW n \in IDs, NEW d \in IDs, NEW h \in InRange[n]
      PROVE  dist_vector[n][d] <= 1 + StoredVector[n][h][d]
  <2>1. StoredVector[n][h][d] = MAX_NODES
    BY <1>4 DEF EmptyVector, DIST_IF_NO_ROUTE
  <2>2. dist_vector[n][d] \in {0, 1, MAX_NODES}
    BY <1>2
  <2>3. QED
    BY <2>1, <2>2, Numbers
<1>6. \A n \in IDs : dist_vector[n][n] = 0
  BY <1>2
<1>7. QED
  BY <1>3, <1>5, <1>6 DEF LearnedOK

LEMMA LearnedKeeps ==
  ASSUME PlainInv, PlainInv', RoutesOK, LearnedOK, Exchange!Next
  PROVE  LearnedOK'
<1>1. /\ dist_vector \in [IDs -> Vector] /\ routing_table \in [IDs -> Table]
      /\ \A n, d \in IDs : dist_vector[n][d] \in Nat
      /\ \A n \in IDs : knows_nbrs[n]
  BY RouteTypes, Numbers DEF PlainInv, NumberedOK
<1>2. ASSUME UNCHANGED <<dist_vector, StoredVector>> PROVE LearnedOK'
  BY <1>2 DEF LearnedOK
<1>3. CASE Exchange!Lose
  BY <1>2, <1>3 DEF Exchange!Lose
<1>4. ASSUME NEW n \in IDs, NEW h \in IDs, Exchange!Advertise(n, h) PROVE LearnedOK'
  BY <1>2, <1>4 DEF Exchange!Advertise
<1>5. ASSUME NEW m \in InTransit, Exchange!Receive(m) PROVE LearnedOK'
  <2> DEFINE b == m.dst
             g == m.src
             s == StoredVector'
  <2>1. b \in IDs /\ g \in IDs /\ g \in InRange[b] /\ m.dv \in WireVector /\ g # b
    BY TransitTypes, BoardsAssumption, Numbers
  <2>2. /\ dist_vector' = [dist_vector EXCEPT ![b] = UpdateVector(dist_vector[b], m.dv)]
        /\ s = [StoredVector EXCEPT ![b][g] = m.dv]
    BY <1>1, <1>5, <2>1, SameOperators DEF Exchange!Receive
  <2>3. \A d \in IDs : m.dv[d] >= dist_vector[g][d] /\ m.dv[d] \in Nat
    BY <2>1, Numbers DEF RoutesOK, WireVector, WireDist, POISON_DIST, DIST_IF_NO_ROUTE
  <2> HIDE DEF b, g, s
  <2>4. \A n \in IDs \ {b} : dist_vector'[n] = dist_vector[n]
    BY <1>1, <2>2
  <2>5. dist_vector'[b] = UpdateVector(dist_vector[b], m.dv) /\ dist_vector[b] \in Vector
    BY <1>1, <2>1, <2>2
  <2>6. ASSUME NEW d \in IDs
        PROVE  /\ dist_vector'[b][d] = dist_vector[b][d] \/ dist_vector'[b][d] = 1 + m.dv[d]
               /\ dist_vector'[b][d] <= dist_vector[b][d]
               /\ dist_vector'[b][d] <= 1 + m.dv[d]
               /\ dist_vector'[b][d] \in Nat
    <3>1. routing_table[b] \in Table
      BY <1>1, <2>1
    <3>2. UpdateVector(dist_vector[b], m.dv) \in Vector
      BY <2>1, <2>5, <3>1, VectorTypes
    <3>3. UpdateVector(dist_vector[b], m.dv)[d] \in Nat
      BY <3>2, Numbers DEF Vector, Dist, DIST_IF_NO_ROUTE
    <3>4. QED
      BY <2>1, <2>5, <3>1, <3>3, UpdatedEntry, UpdatedIsRelaxed
  <2>7. ASSUME NEW n \in IDs, NEW d \in IDs PROVE dist_vector'[n][d] >= Hops[n][d]
    <3>1. CASE n # b
      BY <2>4, <3>1 DEF LearnedOK
    <3>2. CASE n = b
      <4>1. dist_vector[b][d] >= Hops[b][d] /\ dist_vector[g][d] >= Hops[g][d]
        BY <2>1 DEF LearnedOK
      <4>2. Hops[b][d] <= 1 + Hops[g][d] /\ Hops[b][d] \in Nat /\ Hops[g][d] \in Nat
        BY <2>1, HopsAre
      <4>3. dist_vector[g][d] \in Nat
        BY <1>1, <2>1
      <4>4. QED
        BY <2>3, <2>6, <3>2, <4>1, <4>2, <4>3
    <3>3. QED
      BY <3>1, <3>2
  <2>8. ASSUME NEW n \in IDs PROVE dist_vector'[n][n] = 0
    <3>1. dist_vector[n][n] = 0
      BY DEF LearnedOK
    <3>2. CASE n # b
      BY <2>4, <3>1, <3>2
    <3>3. CASE n = b
      BY <2>6, <3>1, <3>3
    <3>4. QED
      BY <3>2, <3>3
  <2>9. ASSUME NEW n \in IDs, NEW d \in IDs, NEW h \in InRange[n]
        PROVE  dist_vector'[n][d] <= 1 + s[n][h][d]
    <3>1. h \in IDs /\ StoredVector[n][h][d] \in Nat
      BY BoardsAssumption, Numbers, StoredTypes
    <3>2. dist_vector[n][d] <= 1 + StoredVector[n][h][d]
      BY DEF LearnedOK
    <3>3. s[n][h] = IF n = b /\ h = g THEN m.dv ELSE StoredVector[n][h]
      BY <2>1, <2>2, <3>1, StoredTypes
    <3>4. CASE n # b
      BY <2>4, <3>2, <3>3, <3>4
    <3>5. CASE n = b /\ h = g
      BY <2>6, <3>3, <3>5
    <3>6. CASE n = b /\ h # g
      <4>1. dist_vector'[n][d] <= dist_vector[n][d] /\ dist_vector'[n][d] \in Nat
        BY <2>6, <3>6
      <4>2. QED
        BY <1>1, <3>1, <3>2, <3>3, <3>6, <4>1
    <3>7. QED
      BY <3>4, <3>5, <3>6
  <2>10. QED
    BY <2>7, <2>8, <2>9 DEF LearnedOK, s
<1>6. ASSUME NEW n \in IDs PROVE ~ Exchange!LearnNeighbors(n)
  BY <1>1 DEF Exchange!LearnNeighbors
<1>7. QED
  BY <1>3, <1>4, <1>5, <1>6, SameOperators DEF Exchange!Next

LEMMA LearnedOKAlways == SpecRouted => []LearnedOK
<1>1. PlainInv /\ PlainInv' /\ RoutesOK /\ LearnedOK /\ [Next]_vars => LearnedOK'
  <2> SUFFICES ASSUME PlainInv, PlainInv', RoutesOK, LearnedOK, [Next]_vars PROVE LearnedOK'
    OBVIOUS
  <2>1. CASE Exchange!Next
    BY <2>1, LearnedKeeps
  <2>2. CASE UNCHANGED Exchange!vars
    BY <2>2 DEF Exchange!vars, LearnedOK
  <2>3. QED
    BY <2>1, <2>2, StepImplements
<1>2. RoutedInv <=> PlainInv
  BY PlainIsRouted
<1>3. QED
  BY <1>1, <1>2, InitLearned, RoutesOKAlways, RoutedInvariant, PTL DEF SpecRouted

(* No board of the program ever believes to be closer to another than it   *)
(* is, whatever is late, lost or repeated.                                 *)
THEOREM NeverTooCloseInNetwork == SpecRouted => []Exchange!NeverTooClose
<1>1. LearnedOK => Exchange!NeverTooClose
  BY SameOperators DEF LearnedOK, Exchange!NeverTooClose
<1>2. QED
  BY <1>1, LearnedOKAlways, PTL

(* Each neighbor of b holds what b would send it now.                      *)
HeldByAll ==
  \A b \in IDs : \A h \in InRange[b] :
    StoredVector[h][b] = Poisoned(dist_vector[b], routing_table[b], h)

(* Then a board is at most one further away from anyone than its neighbor: *)
(* poisoned reverse hides from it only what goes through itself.           *)
LEMMA HeldBellman ==
  ASSUME PlainInv, RoutesOK, LearnedOK, HeldByAll, NEW n \in IDs, NEW d \in IDs,
         NEW h \in InRange[n]
  PROVE  dist_vector[n][d] <= 1 + dist_vector[h][d]
<1>1. h \in IDs /\ n \in InRange[h]
  BY BoardsAssumption, Numbers
<1>2. /\ dist_vector[n][d] <= 1 + StoredVector[n][h][d]
      /\ StoredVector[n][h] = Poisoned(dist_vector[h], routing_table[h], n)
  BY <1>1 DEF LearnedOK, HeldByAll
<1>3. dist_vector[n][d] \in Nat /\ dist_vector[h][d] \in Nat
  BY <1>1, RouteTypes
<1>4. CASE routing_table[h][d] # n
  BY <1>2, <1>4 DEF Poisoned
<1>5. CASE routing_table[h][d] = n
  <2>1. routing_table[h][d] # NO_ROUTE
    BY <1>5, Numbers
  <2>2. dist_vector[n][d] < dist_vector[h][d]
    BY <1>1, <1>5, <2>1 DEF RoutesOK
  <2>3. QED
    BY <1>3, <2>2
<1>6. QED
  BY <1>4, <1>5

(* And so all distances are right: of the boards whose distance is too     *)
(* large take one that is closest; a neighbor on a shortest path is closer *)
(* and has the right one.                                                  *)
LEMMA HeldIsShortest ==
  ASSUME PlainInv, RoutesOK, LearnedOK, HeldByAll
  PROVE  dist_vector = Hops
<1>1. \A n, d \in IDs : /\ dist_vector[n][d] \in Nat /\ dist_vector[n][d] <= MAX_NODES
                        /\ Hops[n][d] \in Nat /\ Hops[n][d] <= MAX_NODES
                        /\ dist_vector[n][d] >= Hops[n][d]
  BY RouteTypes, HopsAre, Numbers DEF Dist, DIST_IF_NO_ROUTE, LearnedOK
<1>2. ASSUME NEW d \in IDs PROVE \A n \in IDs : dist_vector[n][d] <= Hops[n][d]
  <2> DEFINE Bad == {n \in IDs : ~ (dist_vector[n][d] <= Hops[n][d])}
             T == {Hops[n][d] : n \in Bad}
  <2> SUFFICES ASSUME Bad # {} PROVE FALSE
    OBVIOUS
  <2>1. T \in SUBSET Nat /\ T # {}
    BY <1>1
  <2> HIDE DEF T
  <2>2. PICK x \in T : \A z \in T : <<z, x>> \notin OpToRel(<, Nat)
    BY <2>1, NatLessThanWellFounded, WFMin
  <2>3. \A z \in T : ~ (z < x)
    BY <2>1, <2>2 DEF OpToRel
  <2> USE DEF T
  <2>4. PICK n \in Bad : Hops[n][d] = x
    BY <2>2
  <2>5. n \in IDs /\ ~ (dist_vector[n][d] <= Hops[n][d])
    OBVIOUS
  <2>6. Hops[n][d] < MAX_NODES
    BY <1>1, <2>5, Numbers
  <2>7. n # d
    BY <2>5, HopsAre DEF LearnedOK
  <2>8. PICK h \in InRange[n] : Hops[n][d] = 1 + Hops[h][d]
    BY <2>5, <2>6, <2>7, HopsAre
  <2>9. h \in IDs
    BY <2>5, BoardsAssumption, Numbers
  <2>10. h \notin Bad
    <3>1. h \in Bad => Hops[h][d] \in T
      OBVIOUS
    <3>2. Hops[h][d] < x
      BY <1>1, <2>4, <2>8, <2>9
    <3>3. QED
      BY <2>3, <3>1, <3>2
  <2>11. dist_vector[h][d] <= Hops[h][d]
    BY <2>9, <2>10
  <2>12. dist_vector[n][d] <= 1 + dist_vector[h][d]
    BY <2>5, HeldBellman
  <2> HIDE DEF Bad, T
  <2>13. QED
    BY <1>1, <2>5, <2>8, <2>9, <2>11, <2>12
<1>3. \A n, d \in IDs : dist_vector[n][d] = Hops[n][d]
  BY <1>1, <1>2
<1>4. \A v, w \in Vector : (\A d \in IDs : v[d] = w[d]) => v = w
  BY DEF Vector
<1>5. dist_vector \in [IDs -> Vector] /\ Hops \in [IDs -> Vector]
  BY RouteTypes, RoutingAssumption
<1>6. \A n \in IDs : dist_vector[n] = Hops[n]
  <2> TAKE n \in IDs
  <2>1. dist_vector[n] \in Vector /\ Hops[n] \in Vector
    BY <1>5
  <2>2. QED
    BY <1>3, <1>4, <2>1
<1>7. QED
  BY <1>5, <1>6

(* Once each neighbor holds what it would be sent now, all distances of    *)
(* the program's boards are the shortest.                                  *)
THEOREM SettledInNetwork == SpecRouted => []Exchange!SettledIsShortest
<1>1. PlainInv /\ RoutesOK /\ LearnedOK => Exchange!SettledIsShortest
  <2> SUFFICES ASSUME PlainInv, RoutesOK, LearnedOK, Exchange!Settled PROVE dist_vector = Hops
    BY DEF Exchange!SettledIsShortest
  <2>1. HeldByAll
    <3> SUFFICES ASSUME NEW b \in IDs, NEW h \in InRange[b]
                 PROVE  StoredVector[h][b] = Poisoned(dist_vector[b], routing_table[b], h)
      BY DEF HeldByAll
    <3>1. h \in IDs
      BY BoardsAssumption, Numbers
    <3>2. StoredVector[h][b] = Exchange!AdvertTo(b, h).dv
      BY <3>1, SameOperators DEF Exchange!Settled
    <3>3. QED
      BY <3>2, SameOperators DEF Exchange!AdvertTo
  <2>2. QED
    BY <2>1, HeldIsShortest
<1>2. RoutedInv <=> PlainInv
  BY PlainIsRouted
<1>3. QED
  BY <1>1, <1>2, LearnedOKAlways, RoutesOKAlways, RoutedInvariant, PTL

-----------------------------------------------------------------------------
(* Rest *)

(* A board has no scan ahead of it if all its neighbors have its vector,   *)
(* or it takes no part in an exchange yet.                                 *)
Served(b) == next_dv_scan[b] = "never" /\ \A h \in InRange[b] : nbrs[b][h].up_to_date

Untouched(b) ==
  /\ next_dv_scan[b] = "never"
  /\ \A h \in InRange[b] : nbrs[b][h] = NewNbr
  /\ \A c \in Commands \ todo : ~ (c.kind = "dv" /\ c.board = b)

Quiet == \A b \in Boards : next_dv_scan[b] # "never" \/ Served(b) \/ Untouched(b)

LEMMA InitQuiet == InitRouted => Quiet
<1> SUFFICES ASSUME InitRouted, NEW b \in Boards PROVE Untouched(b)
  BY DEF Quiet
<1>1. /\ nbrs = [a \in Boards |-> [h \in InRange[a] |-> NewNbr]]
      /\ next_dv_scan = [a \in Boards |-> "never"]
      /\ todo = Commands \ TokenCommands
  BY DEF InitRouted, NeighborsFound, InitThreads, Idle
<1>2. QED
  BY <1>1 DEF Untouched, TokenCommands

(* What a step does to the scans and lists: nothing, or a scan is ahead,   *)
(* or the exchange is over for a board.                                    *)
LEMMA QuietKept ==
  ASSUME PlainInv, Quiet, NEW b \in Boards,
         \A c \in Boards \ {b} : next_dv_scan'[c] = next_dv_scan[c] /\ nbrs'[c] = nbrs[c],
         \A c \in todo \ todo' : c.kind = "dv" => c.board = b,
         \/ next_dv_scan'[b] # "never"
         \/ Served(b)'
         \/ /\ next_dv_scan'[b] = next_dv_scan[b] /\ nbrs'[b] = nbrs[b]
            /\ \A c \in todo \ todo' : c.kind # "dv"
  PROVE  Quiet'
<1> SUFFICES ASSUME NEW a \in Boards
             PROVE  next_dv_scan'[a] # "never" \/ Served(a)' \/ Untouched(a)'
  BY DEF Quiet
<1>1. next_dv_scan[a] # "never" \/ Served(a) \/ Untouched(a)
  BY DEF Quiet
<1>2. CASE /\ next_dv_scan'[a] = next_dv_scan[a] /\ nbrs'[a] = nbrs[a]
           /\ \A c \in todo \ todo' : ~ (c.kind = "dv" /\ c.board = a)
  <2>1. CASE next_dv_scan[a] # "never"
    BY <1>2, <2>1
  <2>2. CASE Served(a)
    BY <1>2, <2>2 DEF Served
  <2>3. CASE Untouched(a)
    BY <1>2, <2>3 DEF Untouched
  <2>4. QED
    BY <1>1, <2>1, <2>2, <2>3
<1>3. CASE a # b
  BY <1>2, <1>3
<1>4. CASE a = b
  BY <1>2, <1>4
<1>5. QED
  BY <1>3, <1>4

LEMMA QuietStep ==
  ASSUME PlainInv, Quiet, NEW b \in Boards, RoutedStep(b)
  PROVE  Quiet'
<1>1. DOMAIN next_dv_scan = Boards /\ DOMAIN nbrs = Boards
  BY DEF PlainInv, PlainTypes, NumberedOK
<1>2. ASSUME UNCHANGED <<next_dv_scan, nbrs, todo>> PROVE Quiet'
  BY <1>2, QuietKept
<1>3. ASSUME UNCHANGED <<nbrs, todo>>, NEW t, t # "never",
             next_dv_scan' = [next_dv_scan EXCEPT ![b] = t]
      PROVE  Quiet'
  <2>1. /\ next_dv_scan'[b] # "never"
        /\ \A c \in Boards \ {b} : next_dv_scan'[c] = next_dv_scan[c] /\ nbrs'[c] = nbrs[c]
    BY <1>1, <1>3
  <2>2. QED
    BY <1>3, <2>1, QuietKept
<1>4. CASE Send(b) \/ Ack(b)
  BY <1>2, <1>4 DEF Send, Ack, selfVars, connectVars
<1>5. CASE RecvData(b) \/ RecvAck(b)
  BY <1>2, <1>5 DEF RecvData, RecvAck, TakePacket, selfVars, envVars
<1>6. CASE RecvAckDv(b)
  <2>1. /\ next_dv_scan' = [next_dv_scan EXCEPT ![b] = "asap"] /\ UNCHANGED todo
        /\ nbrs' = [nbrs EXCEPT ![b][recv_data[b].src].up_to_date = TRUE]
    BY <1>6 DEF RecvAckDv, TakePacket, envVars
  <2>2. \A c \in Boards \ {b} : next_dv_scan'[c] = next_dv_scan[c] /\ nbrs'[c] = nbrs[c]
    BY <1>1, <2>1
  <2>3. next_dv_scan'[b] # "never"
    BY <1>1, <2>1
  <2>4. QED
    BY <2>1, <2>2, <2>3, QuietKept
<1>7. CASE RecvDv(b)
  <2>1. /\ next_dv_scan' = [next_dv_scan EXCEPT ![b] = "later"] /\ UNCHANGED todo
        /\ nbrs' = [nbrs EXCEPT ![b] = NbrsAfter(b, recv_data[b])]
    BY <1>7 DEF RecvDv, TakePacket, envVars
  <2>2. \A c \in Boards \ {b} : next_dv_scan'[c] = next_dv_scan[c] /\ nbrs'[c] = nbrs[c]
    BY <1>1, <2>1
  <2>3. next_dv_scan'[b] # "never"
    BY <1>1, <2>1
  <2>4. QED
    BY <2>1, <2>2, <2>3, QuietKept
<1>8. ASSUME NEW c \in Commands, Serial(b, c) PROVE Quiet'
  <2>1. todo' = todo \ {c} /\ c.board = b /\ UNCHANGED nbrs
    BY <1>8 DEF Serial, TypedLine, selfVars
  <2>2. \A d \in todo \ todo' : d = c
    BY <2>1
  <2>3. CASE c.kind = "dv"
    <3>1. next_dv_scan' = [next_dv_scan EXCEPT ![b] = "asap"]
      BY <1>8, <2>3 DEF Serial
    <3>2. \A a \in Boards \ {b} : next_dv_scan'[a] = next_dv_scan[a] /\ nbrs'[a] = nbrs[a]
      BY <1>1, <2>1, <3>1
    <3>3. next_dv_scan'[b] # "never"
      BY <1>1, <3>1
    <3>4. QED
      BY <2>1, <2>2, <3>2, <3>3, QuietKept
  <2>4. CASE c.kind # "dv"
    <3>1. UNCHANGED next_dv_scan
      BY <1>8, <2>4 DEF Serial
    <3>2. QED
      BY <2>1, <2>2, <2>4, <3>1, QuietKept
  <2>5. QED
    BY <2>3, <2>4
<1>9. CASE EnableAp(b)
  BY <1>2, <1>9 DEF EnableAp, EndPass
<1>10. CASE EndRouting(b)
  <2>1. /\ next_dv_scan' = [next_dv_scan EXCEPT ![b] = "never"] /\ UNCHANGED <<nbrs, todo>>
        /\ \A h \in DOMAIN nbrs[b] : nbrs[b][h].up_to_date
    BY <1>10 DEF EndRouting, EndPass, NoScan, AllUpToDate, selfVars
  <2>2. DOMAIN nbrs[b] = InRange[b]
    BY DEF PlainInv, NumberedOK
  <2>3. /\ \A c \in Boards \ {b} : next_dv_scan'[c] = next_dv_scan[c] /\ nbrs'[c] = nbrs[c]
        /\ Served(b)'
    BY <1>1, <2>1, <2>2 DEF Served
  <2>4. QED
    BY <2>1, <2>3, QuietKept
<1>11. CASE StartDvScan(b) \/ StartJoin(b)
  BY <1>2, <1>11 DEF StartDvScan, StartJoin, Block, selfVars, envVars
<1>12. CASE (\E h \in IDs : DvScanFound(b, h)) \/ DvScanNobody(b)
  <2>1. next_dv_scan' = [next_dv_scan EXCEPT ![b] = "later"] /\ UNCHANGED <<nbrs, todo>>
    BY <1>12 DEF DvScanFound, DvScanNobody, EndPass, selfVars
  <2>2. QED
    BY <1>3, <2>1
<1>13. CASE Join(b)
  BY <1>2, <1>13 DEF Join, EndPass, selfVars
<1>14. CASE JoinTimeout(b)
  <2>1. UNCHANGED <<nbrs, todo>>
    BY <1>14 DEF JoinTimeout, EndPass, selfVars
  <2>2. \/ next_dv_scan' = [next_dv_scan EXCEPT ![b] = "later"]
        \/ next_dv_scan' = [next_dv_scan EXCEPT ![b] = next_dv_scan[b]]
    BY <1>14 DEF JoinTimeout
  <2>3. CASE next_dv_scan' = [next_dv_scan EXCEPT ![b] = "later"]
    BY <1>3, <2>1, <2>3
  <2>4. CASE next_dv_scan' = [next_dv_scan EXCEPT ![b] = next_dv_scan[b]]
    <3>1. \A c \in Boards : next_dv_scan'[c] = next_dv_scan[c]
      BY <1>1, <2>4
    <3>2. QED
      BY <2>1, <3>1, QuietKept
  <2>5. QED
    BY <2>2, <2>3, <2>4
<1>15. QED
  BY <1>4, <1>5, <1>6, <1>7, <1>8, <1>9, <1>10, <1>11, <1>12, <1>13, <1>14, Zenon
     DEF RoutedStep

LEMMA QuietAlways == SpecRouted => []Quiet
<1>1. PlainInv /\ Quiet /\ [Next]_vars => Quiet'
  <2> SUFFICES ASSUME PlainInv, Quiet, [Next]_vars PROVE Quiet'
    OBVIOUS
  <2>1. CASE Next
    BY <2>1, RoutedSteps, QuietStep
  <2>2. CASE UNCHANGED vars
    <3>1. UNCHANGED <<next_dv_scan, nbrs, todo>>
      BY <2>2 DEF vars, selfVars, connectVars, envVars
    <3>2. QED
      BY <3>1, BoardsAssumption, QuietKept
  <2>3. QED
    BY <2>1, <2>2
<1>2. RoutedInv <=> PlainInv
  BY PlainIsRouted
<1>3. QED
  BY <1>1, <1>2, InitQuiet, RoutedInvariant, PTL DEF SpecRouted

(* A board whose neighbor holds its vector has been reached.               *)
LEMMA HeldIsTouched ==
  ASSUME PlainInv, LearnedOK, UpToDateMeansHolds, NEW b \in Boards, Served(b),
         NEW h \in InRange[b]
  PROVE  /\ ~ Untouched(h)
         /\ StoredVector[h][b] = Poisoned(dist_vector[b], routing_table[b], h)
<1>1. h \in IDs /\ b \in IDs /\ b \in InRange[h] /\ h \in Boards
  BY BoardsAssumption, Numbers
<1>2. DOMAIN nbrs[b] = InRange[b]
  BY DEF PlainInv, NumberedOK
<1>3. nbrs[h][b].dist_vector = Poisoned(dist_vector[b], routing_table[b], h)
  BY <1>2 DEF Served, UpToDateMeansHolds
<1>4. nbrs[h][b].dist_vector[b] \in {0, POISON_DIST}
  BY <1>1, <1>3 DEF Poisoned, LearnedOK
<1>5. EmptyVector[b] = MAX_NODES
  BY <1>1 DEF EmptyVector, DIST_IF_NO_ROUTE
<1>6. nbrs[h][b].dist_vector # EmptyVector
  BY <1>4, <1>5, Numbers DEF POISON_DIST, DIST_IF_NO_ROUTE
<1>7. ~ Untouched(h)
  BY <1>1, <1>6 DEF Untouched, NewNbr
<1>8. QED
  BY <1>1, <1>3, <1>7, StoredTypes

(* From a board that has been reached the exchange has gone on to all: to  *)
(* board 0 by way of ever smaller numbers, and from there to every one.    *)
LEMMA AllServed ==
  ASSUME PlainInv, LearnedOK, Quiet, UpToDateMeansHolds,
         \A b \in Boards : next_dv_scan[b] = "never",
         NEW c \in Boards, ~ Untouched(c)
  PROVE  \A b \in Boards : Served(b)
<1>1. \A b \in Boards : Served(b) => \A h \in InRange[b] : Served(h)
  <2> SUFFICES ASSUME NEW b \in Boards, Served(b), NEW h \in InRange[b] PROVE Served(h)
    OBVIOUS
  <2>1. h \in Boards
    BY BoardsAssumption
  <2>2. QED
    BY <2>1, HeldIsTouched DEF Quiet
<1>2. \A T \in SUBSET Nat : T # {} => \E x \in T : \A z \in T : ~ (z < x)
  <2> SUFFICES ASSUME NEW T \in SUBSET Nat, T # {} PROVE \E x \in T : \A z \in T : ~ (z < x)
    OBVIOUS
  <2>1. PICK x \in T : \A z \in T : <<z, x>> \notin OpToRel(<, Nat)
    BY NatLessThanWellFounded, WFMin
  <2>2. QED
    BY <2>1 DEF OpToRel
<1>3. Boards \subseteq Nat /\ \A b \in Boards : b # 0 => \E h \in InRange[b] : h < b
  BY RoutingAssumption, Numbers
<1>4. \A b \in Boards : InRange[b] \subseteq Boards /\ \A h \in InRange[b] : b \in InRange[h]
  BY BoardsAssumption
<1>5. Served(c)
  BY DEF Quiet
<1>6. Served(0)
  <2> DEFINE T == {b \in Boards : Served(b)}
  <2>1. T \in SUBSET Nat /\ T # {}
    BY <1>3, <1>5
  <2>2. PICK x \in T : \A z \in T : ~ (z < x)
    BY <1>2, <2>1
  <2>3. x # 0 => \E h \in T : h < x
    BY <1>1, <1>3, <1>4
  <2>4. QED
    BY <2>2, <2>3
<1>7. ASSUME NEW b \in Boards, ~ Served(b) PROVE FALSE
  <2> DEFINE T == {a \in Boards : ~ Served(a)}
  <2>1. T \in SUBSET Nat /\ T # {}
    BY <1>3, <1>7
  <2>2. PICK x \in T : \A z \in T : ~ (z < x)
    BY <1>2, <2>1
  <2>3. PICK h \in InRange[x] : h < x
    BY <1>3, <1>6
  <2>4. h \in T
    BY <1>1, <1>4, <2>2, <2>3
  <2>5. QED
    BY <2>2, <2>3, <2>4
<1>8. QED
  BY <1>7

(* When the boards have come to rest after an exchange, all distances are  *)
(* the shortest, unless some flag up_to_date is set although the neighbor  *)
(* has an older vector: nothing that is lost, late, repeated or typed      *)
(* meanwhile is another reason for a board to stop too early.              *)
THEOREM RestIsShortestUnlessStale == SpecRouted => []RestIsShortestIfHeld
<1>1. PlainInv /\ RoutesOK /\ LearnedOK /\ Quiet => RestIsShortestIfHeld
  <2> SUFFICES ASSUME PlainInv, RoutesOK, LearnedOK, Quiet, UpToDateMeansHolds, AtRest,
                      NEW c \in Commands \ todo, c.kind = "dv"
               PROVE  dist_vector = Hops
    BY DEF RestIsShortestIfHeld, RestIsShortest
  <2>1. c.board \in Boards /\ ~ Untouched(c.board)
    BY BoardsAssumption DEF Untouched
  <2>2. \A b \in Boards : next_dv_scan[b] = "never"
    BY DEF AtRest, Idle
  <2>3. \A b \in Boards : Served(b)
    BY <2>1, <2>2, AllServed
  <2>4. HeldByAll
    BY <2>3, HeldIsTouched, Numbers DEF HeldByAll
  <2>5. QED
    BY <2>4, HeldIsShortest
<1>2. RoutedInv <=> PlainInv
  BY PlainIsRouted
<1>3. QED
  BY <1>1, <1>2, LearnedOKAlways, RoutesOKAlways, QuietAlways, RoutedInvariant, PTL

-----------------------------------------------------------------------------
(* Data *)

(* Data in the send queue costs its board no more than when it was queued, *)
(* and less the board it will be sent to; data received costs less than it *)
(* cost its sender.                                                        *)
Priced(b) ==
  /\ IsData(send_queue[b]) =>
       /\ dist_vector[b][send_queue[b].dest] <= queued_at[b]
       /\ \A h \in Boards : Bound(b, h) => dist_vector[h][send_queue[b].dest] < queued_at[b]
  /\ IsData(recv_data[b]) => dist_vector[b][recv_data[b].dest] < sent_at[b]

DataInv ==
  /\ queued_at \in [Boards -> Dist] /\ sent_at \in [Boards -> Dist]
  /\ \A b \in Boards : Priced(b)

(* Data in a buffer is for some board, and came from one.                  *)
LEMMA DataHasIDs ==
  ASSUME PlainInv, NEW b \in Boards
  PROVE  /\ IsData(send_queue[b]) => send_queue[b].dest \in IDs
         /\ IsData(recv_data[b]) => recv_data[b].dest \in IDs /\ recv_data[b].src \in IDs
BY DEF PlainInv, BoardOK, SendOK, RecvOK, Composed, Received, IsData

LEMMA DataHasIDsNext ==
  ASSUME PlainInv', NEW b \in Boards
  PROVE  /\ IsData(send_queue'[b]) => send_queue'[b].dest \in IDs
         /\ IsData(recv_data'[b]) => recv_data'[b].dest \in IDs /\ recv_data'[b].src \in IDs
BY DEF PlainInv, BoardOK, SendOK, RecvOK, Composed, Received, IsData

(* What a step does to the data in c's send queue: it stays, for no other  *)
(* receiver than before, or it is queued anew for the next hop.            *)
Stays(c) ==
  /\ send_queue'[c] = send_queue[c]
  /\ \A h \in Boards : Bound(c, h)' => Bound(c, h)

Routed(c) ==
  /\ IsData(send_queue'[c])
  /\ UNCHANGED dist_vector
  /\ \A h \in Boards : Bound(c, h)' => routing_table[c][send_queue'[c].dest] = h

QueueStep(c) == ~ IsData(send_queue'[c]) \/ Stays(c) \/ Routed(c)

LEMMA ForwardRoutes ==
  ASSUME PlainInv, NEW b \in Boards, NEW p, p.type = "data", Forward(b, p),
         UNCHANGED <<pc, dist_vector>>, pc[b] = "poll", p # NONE
  PROVE  /\ Routed(b)
         /\ \A c \in Boards \ {b} : send_queue'[c] = send_queue[c]
                                    /\ target_ID'[c] = target_ID[c]
                                    /\ signal_connect_thread'[c] = signal_connect_thread[c]
<1> DEFINE g == routing_table[b][p.dest]
<1>1. /\ send_queue' = [send_queue EXCEPT ![b] = p]
      /\ target_ID' = [target_ID EXCEPT ![b] = g]
      /\ signal_connect_thread' = [signal_connect_thread EXCEPT ![b] = TRUE]
  BY DEF Forward, Enqueue, Retarget
<1>2. PlainTypes
  BY DEF PlainInv
<1> HIDE DEF g
<1>3. send_queue'[b] = p /\ target_ID'[b] = g /\ signal_connect_thread'[b] /\ pc'[b] = "poll"
  BY <1>1, <1>2 DEF PlainTypes
<1>4. \A h : Bound(b, h)' => g = h
  BY <1>3 DEF Bound
<1>5. Routed(b)
  BY <1>3, <1>4 DEF Routed, IsData, g
<1>6. QED
  BY <1>1, <1>2, <1>5 DEF PlainTypes

LEMMA QueueSteps ==
  ASSUME PlainInv, NEW b \in Boards, RoutedStep(b), NEW c \in Boards
  PROVE  QueueStep(c)
<1>1. PlainTypes /\ NumberedOK /\ BoardOK(b) /\ BoardOK(c)
  BY DEF PlainInv
<1>2. CASE Send(b)
  BY <1>1, <1>2 DEF Send, Dequeue, radioVars, connectVars, PlainTypes, QueueStep, IsData,
     Stays, Bound
<1>3. CASE Ack(b)
  BY <1>3 DEF Ack, radioVars, connectVars, sendVars, QueueStep, Stays, Bound
<1>4. CASE RecvData(b)
  <2> DEFINE q == [recv_data[b] EXCEPT !.src = ID[b]]
  <2>1. TakePacket(b, "data") /\ UNCHANGED dist_vector
    BY <1>4 DEF RecvData, selfVars
  <2>2. /\ recv_data[b] \in PacketSet /\ recv_data[b].type = "data" /\ pc[b] = "poll"
        /\ UNCHANGED <<access_point, assoc, pc>>
    BY <2>1, Taken
  <2>3. q.type = "data" /\ q \in PacketSet
    <3>1. ID[b] \in -1 .. MAX_NODES
      BY <1>1, Numbers DEF NumberedOK
    <3>2. QED
      BY <2>2, <3>1 DEF PacketSet
  <2>4. UNCHANGED <<send_queue, target_ID, signal_connect_thread>> \/ Forward(b, q)
    BY <1>4 DEF RecvData, sendVars
  <2> HIDE DEF q
  <2>5. CASE UNCHANGED <<send_queue, target_ID, signal_connect_thread>>
    BY <2>2, <2>5 DEF QueueStep, Stays, Bound
  <2>6. CASE Forward(b, q)
    <3>1. /\ Routed(b)
          /\ \A a \in Boards \ {b} : send_queue'[a] = send_queue[a]
                                     /\ target_ID'[a] = target_ID[a]
                                     /\ signal_connect_thread'[a] = signal_connect_thread[a]
      BY <2>1, <2>2, <2>3, <2>6, ForwardRoutes, NoneAssumption
    <3>2. QED
      BY <2>2, <3>1 DEF QueueStep, Stays, Bound
  <2>7. QED
    BY <2>4, <2>5, <2>6
<1>5. CASE RecvAck(b)
  <2>1. TakePacket(b, "ack") /\ UNCHANGED send_queue /\ Retarget(b, ENABLE_AP)
    BY <1>5 DEF RecvAck, sendVars
  <2>2. UNCHANGED <<access_point, assoc, pc>> /\ pc[b] = "poll"
    BY <2>1, Taken
  <2>3. QED
    BY <1>1, <2>1, <2>2, Numbers DEF Retarget, PlainTypes, QueueStep, Stays, Bound
<1>6. CASE RecvAckDv(b)
  <2>1. /\ TakePacket(b, "ack") /\ UNCHANGED <<send_queue, signal_connect_thread>>
        /\ target_ID' = [target_ID EXCEPT ![b] = DV_SCAN]
    BY <1>6 DEF RecvAckDv, sendVars
  <2>2. UNCHANGED <<access_point, assoc, pc>> /\ pc[b] = "poll"
    BY <2>1, Taken
  <2>3. QED
    BY <1>1, <2>1, <2>2, Numbers DEF PlainTypes, QueueStep, Stays, Bound
<1>7. CASE RecvDv(b)
  <2>1. TakePacket(b, "dv") /\ UNCHANGED <<send_queue, signal_connect_thread, target_ID>>
    BY <1>7 DEF RecvDv, sendVars
  <2>2. UNCHANGED <<access_point, assoc, pc>>
    BY <2>1, Taken
  <2>3. QED
    BY <2>1, <2>2 DEF QueueStep, Stays, Bound
<1>8. ASSUME NEW k \in Commands, Serial(b, k) PROVE QueueStep(c)
  <2> DEFINE q == Packet("data", k.dest, ID[b], b)
  <2>1. UNCHANGED <<pc, access_point, assoc, dist_vector>> /\ pc[b] = "poll" /\ k \in todo
    BY <1>8 DEF Serial, TypedLine, Turn, radioVars, selfVars
  <2>2. k.kind # "token"
    BY <1>1, <2>1 DEF NumberedOK, TokenCommands
  <2>3. UNCHANGED <<send_queue, target_ID, signal_connect_thread>> \/ Forward(b, q)
    BY <1>8, <2>2 DEF Serial, sendVars
  <2>4. q.type = "data" /\ q # NONE
    <3>1. k.dest \in IDs /\ ID[b] = b
      BY <1>1, BoardsAssumption DEF NumberedOK
    <3>2. QED
      BY <3>1, TypedIsComposed, NoneAssumption DEF Packet
  <2> HIDE DEF q
  <2>5. CASE UNCHANGED <<send_queue, target_ID, signal_connect_thread>>
    BY <2>1, <2>5 DEF QueueStep, Stays, Bound
  <2>6. CASE Forward(b, q)
    <3>1. /\ Routed(b)
          /\ \A a \in Boards \ {b} : send_queue'[a] = send_queue[a]
                                     /\ target_ID'[a] = target_ID[a]
                                     /\ signal_connect_thread'[a] = signal_connect_thread[a]
      BY <2>1, <2>4, <2>6, ForwardRoutes
    <3>2. QED
      BY <2>1, <3>1 DEF QueueStep, Stays, Bound
  <2>7. QED
    BY <2>3, <2>5, <2>6
<1>9. CASE EnableAp(b)
  <2>1. /\ pc[b] = "poll" /\ pc' = [pc EXCEPT ![b] = "poll"]
        /\ signal_connect_thread' = [signal_connect_thread EXCEPT ![b] = FALSE]
        /\ UNCHANGED <<target_ID, send_queue>>
    BY <1>9 DEF EnableAp, EndPass, Wake, Turn, sendVars
  <2>2. assoc'[b] = NONE /\ \A a \in Boards \ {b} : assoc'[a] = assoc[a]
    <3>1. CASE access_point[b] /\ UNCHANGED assoc
      BY <1>1, <3>1 DEF BoardOK, RadioOK
    <3>2. CASE BootAp(b)
      BY <1>1, <3>2 DEF BootAp, PlainTypes
    <3>3. QED
      BY <1>9, <3>1, <3>2 DEF EnableAp
  <2>3. QED
    BY <1>1, <2>1, <2>2, NoneAssumption DEF PlainTypes, QueueStep, Stays, Bound
<1>10. CASE EndRouting(b)
  <2>1. /\ pc[b] = "poll" /\ pc' = [pc EXCEPT ![b] = "poll"]
        /\ Retarget(b, ENABLE_AP) /\ UNCHANGED send_queue
    BY <1>10 DEF EndRouting, EndPass, Wake, Turn, sendVars
  <2>2. \A a \in Boards : assoc'[a] \in {assoc[a], NONE}
    BY <1>10, StationNow DEF EndRouting
  <2>3. CASE c = b
    <3>1. target_ID'[b] = ENABLE_AP /\ signal_connect_thread'[b] /\ pc'[b] = "poll"
      BY <1>1, <2>1 DEF Retarget, PlainTypes
    <3>2. QED
      BY <2>1, <2>3, <3>1, Numbers DEF QueueStep, Stays, Bound
  <2>4. CASE c # b
    <3>1. /\ target_ID'[c] = target_ID[c] /\ pc'[c] = pc[c]
          /\ signal_connect_thread'[c] = signal_connect_thread[c]
      BY <1>1, <2>1, <2>4 DEF Retarget, PlainTypes
    <3>2. QED
      BY <2>1, <2>2, <3>1, NoneAssumption DEF QueueStep, Stays, Bound
  <2>5. QED
    BY <2>3, <2>4
<1>11. ASSUME NEW t \in {DV_SCAN} \cup IDs, NEW where, Block(b, t, where),
              where = IF t = DV_SCAN THEN "dv_scan" ELSE "join"
       PROVE  QueueStep(c)
  <2>1. /\ pc[b] = "poll" /\ pc' = [pc EXCEPT ![b] = where]
        /\ target_ID' = [target_ID EXCEPT ![b] = t]
        /\ signal_connect_thread' = [signal_connect_thread EXCEPT ![b] = FALSE]
        /\ IF signal_connect_thread[b] THEN t = target_ID[b] ELSE t = DV_SCAN
        /\ UNCHANGED send_queue
    BY <1>11 DEF Block, Wake, Turn, sendVars
  <2>2. \A a \in Boards : assoc'[a] \in {assoc[a], NONE}
    BY <1>11, StationNow DEF Block
  <2>3. CASE c = b
    <3>1. pc'[b] = where /\ target_ID'[b] = t /\ ~ signal_connect_thread'[b]
      BY <1>1, <2>1 DEF PlainTypes
    <3>2. ASSUME NEW h \in Boards, Bound(b, h)' PROVE Bound(b, h)
      <4>1. where = "join" /\ t = h
        BY <1>11, <3>1, <3>2 DEF Bound
      <4>2. signal_connect_thread[b] /\ t = target_ID[b]
        BY <1>11, <2>1, <4>1, Zenon
      <4>3. QED
        BY <4>1, <4>2 DEF Bound
    <3>3. QED
      BY <2>1, <2>3, <3>2 DEF QueueStep, Stays
  <2>4. CASE c # b
    BY <1>1, <2>1, <2>2, <2>4, NoneAssumption DEF PlainTypes, QueueStep, Stays, Bound
  <2>5. QED
    BY <2>3, <2>4
<1>12. CASE StartDvScan(b)
  BY <1>11, <1>12 DEF StartDvScan
<1>13. CASE StartJoin(b)
  <2>1. PICK id \in IDs : Block(b, id, "join")
    BY <1>13 DEF StartJoin
  <2>2. id # DV_SCAN
    BY Numbers
  <2>3. QED
    BY <1>11, <2>1, <2>2
<1>14. ASSUME NEW g \in IDs, DvScanFound(b, g) PROVE QueueStep(c)
  <2> DEFINE q == DvFor(b, g)
  <2>1. q.type = "dv"
    <3>1. g \in InRange[b]
      BY <1>1, <1>14 DEF DvScanFound, NeedVector, NumberedOK
    <3>2. QED
      BY <1>1, <3>1, TypesFromParts, VectorIsComposed
  <2>2. /\ send_queue' = [send_queue EXCEPT ![b] = q]
        /\ target_ID' = [target_ID EXCEPT ![b] = g]
        /\ signal_connect_thread' = [signal_connect_thread EXCEPT ![b] = TRUE]
        /\ pc' = [pc EXCEPT ![b] = "poll"] /\ UNCHANGED assoc
    BY <1>14 DEF DvScanFound, Enqueue, Retarget, EndPass, radioVars
  <2> HIDE DEF q
  <2>3. QED
    BY <1>1, <2>1, <2>2 DEF PlainTypes, QueueStep, Stays, Bound, IsData
<1>15. CASE DvScanNobody(b)
  <2>1. pc' = [pc EXCEPT ![b] = "poll"] /\ Retarget(b, ENABLE_AP) /\ UNCHANGED <<send_queue, assoc>>
    BY <1>15 DEF DvScanNobody, EndPass, sendVars, radioVars
  <2>2. QED
    BY <1>1, <2>1, Numbers DEF Retarget, PlainTypes, QueueStep, Stays, Bound
<1>16. CASE Join(b)
  <2>1. PICK a \in Networks(b) : Joined(b, a)
    BY <1>16 DEF Join
  <2>2. a = target_ID[b]
    BY <1>1, <2>1, BoardsAssumption DEF Networks, Visible, NumberedOK
  <2>3. /\ pc[b] = "join" /\ pc' = [pc EXCEPT ![b] = "poll"]
        /\ assoc' = [assoc EXCEPT ![b] = a]
        /\ UNCHANGED <<send_queue, target_ID, signal_connect_thread>>
    BY <1>16, <2>1 DEF Join, Joined, EndPass, sendVars
  <2>4. QED
    BY <1>1, <2>2, <2>3 DEF PlainTypes, QueueStep, Stays, Bound
<1>17. CASE JoinTimeout(b)
  <2>1. pc' = [pc EXCEPT ![b] = "poll"] /\ Retarget(b, ENABLE_AP) /\ UNCHANGED <<send_queue, assoc>>
    BY <1>17 DEF JoinTimeout, JoinFails, EndPass, sendVars, radioVars
  <2>2. QED
    BY <1>1, <2>1, Numbers DEF Retarget, PlainTypes, QueueStep, Stays, Bound
<1>18. QED
  BY <1>2, <1>3, <1>4, <1>5, <1>6, <1>7, <1>8, <1>9, <1>10, <1>12, <1>13, <1>14, <1>15, <1>16,
     <1>17, Zenon DEF RoutedStep

(* What a step does to the data in c's buffer: it stays, or it was sent by *)
(* the board that had it queued for c.                                     *)
Kept(c) == recv_data'[c] = recv_data[c] /\ ~ (new_udp_recv_s'[c] > new_udp_recv_s[c])

SentBy(a, c) ==
  /\ IsData(send_queue[a]) /\ Bound(a, c) /\ UNCHANGED dist_vector
  /\ recv_data'[c].src = a /\ recv_data'[c].dest = send_queue[a].dest
  /\ new_udp_recv_s'[c] > new_udp_recv_s[c]

RecvStep(c) == ~ IsData(recv_data'[c]) \/ Kept(c) \/ \E a \in Boards : SentBy(a, c)

LEMMA SendSteps ==
  ASSUME PlainInv, NEW b \in Boards, Send(b), NEW c \in Boards
  PROVE  RecvStep(c)
<1> DEFINE q == [send_queue[b] EXCEPT !.ip = b]
<1>1. PlainTypes /\ BoardOK(b) /\ new_udp_recv_s[c] \in Nat
  BY DEF PlainInv, PlainTypes
<1>2. /\ send_queue[b] \in PacketSet /\ send_queue[b] # NONE /\ Composed(b, send_queue[b])
      /\ pc[b] = "poll" /\ ~ signal_connect_thread[b] /\ UNCHANGED dist_vector
  BY <1>1 DEF Send, Turn, BoardOK, SendOK, PlainTypes, selfVars
<1>3. q.type = send_queue[b].type /\ q.src = b /\ q.dest = send_queue[b].dest
  BY <1>2 DEF PacketSet, Composed
<1>4. Transmit(b, assoc[b], q)
  BY DEF Send
<1> HIDE DEF q
<1>5. CASE assoc[b] \in Boards /\ Callback(assoc[b], q)
  <2>1. CASE c = assoc[b]
    <3>1. recv_data'[c] = q /\ new_udp_recv_s'[c] = new_udp_recv_s[c] + 1
      BY <1>1, <1>5, <2>1 DEF Callback, PlainTypes
    <3>2. Bound(b, c)
      BY <1>2, <2>1 DEF Bound
    <3>3. new_udp_recv_s'[c] > new_udp_recv_s[c]
      BY <1>1, <3>1
    <3>4. CASE IsData(q)
      <4>1. IsData(send_queue[b])
        BY <1>2, <1>3, <3>4 DEF IsData
      <4>2. SentBy(b, c)
        BY <1>2, <1>3, <3>1, <3>2, <3>3, <4>1 DEF SentBy
      <4>3. QED
        BY <4>2 DEF RecvStep
    <3>5. QED
      BY <3>1, <3>4 DEF RecvStep
  <2>2. CASE c # assoc[b]
    <3>1. recv_data'[c] = recv_data[c] /\ new_udp_recv_s'[c] = new_udp_recv_s[c]
      BY <1>1, <1>5, <2>2 DEF Callback, PlainTypes
    <3>2. QED
      BY <1>1, <3>1 DEF RecvStep, Kept
  <2>3. QED
    BY <2>1, <2>2
<1>6. CASE UNCHANGED recvVars
  BY <1>1, <1>6 DEF recvVars, RecvStep, Kept
<1>7. QED
  BY <1>4, <1>5, <1>6 DEF Transmit

LEMMA AckSteps ==
  ASSUME PlainInv, NEW b \in Boards, Ack(b), NEW c \in Boards
  PROVE  RecvStep(c)
<1> DEFINE q == [ack_queue[b] EXCEPT !.ip = b]
           h == AckTo(b)
<1>1. PlainTypes /\ BoardOK(b) /\ new_udp_recv_s[c] \in Nat
  BY DEF PlainInv, PlainTypes
<1>2. ack_queue[b] \in PacketSet /\ ack_queue[b].type = "ack"
  BY <1>1 DEF Ack, BoardOK, AckOK, Answer, PlainTypes
<1>3. q.type = "ack"
  BY <1>2 DEF PacketSet
<1>4. Transmit(b, h, q)
  BY DEF Ack
<1> HIDE DEF q, h
<1>5. CASE h \in Boards /\ Callback(h, q)
  <2>1. CASE c = h
    <3>1. recv_data'[c] = q
      BY <1>1, <1>5, <2>1 DEF Callback, PlainTypes
    <3>2. QED
      BY <1>3, <3>1 DEF RecvStep, IsData
  <2>2. CASE c # h
    <3>1. recv_data'[c] = recv_data[c] /\ new_udp_recv_s'[c] = new_udp_recv_s[c]
      BY <1>1, <1>5, <2>2 DEF Callback, PlainTypes
    <3>2. QED
      BY <1>1, <3>1 DEF RecvStep, Kept
  <2>3. QED
    BY <2>1, <2>2
<1>6. CASE UNCHANGED recvVars
  BY <1>1, <1>6 DEF recvVars, RecvStep, Kept
<1>7. QED
  BY <1>4, <1>5, <1>6 DEF Transmit

LEMMA RecvSteps ==
  ASSUME PlainInv, NEW b \in Boards, RoutedStep(b), NEW c \in Boards
  PROVE  RecvStep(c)
<1>1. PlainTypes /\ new_udp_recv_s[c] \in Nat
  BY DEF PlainInv, PlainTypes
<1>2. ASSUME NEW type, TakePacket(b, type) PROVE RecvStep(c)
  <2>1. recv_data'[c] \in {recv_data[c], NONE}
    BY <1>2, Taken
  <2>2. ~ (new_udp_recv_s'[c] > new_udp_recv_s[c])
    <3>1. CASE c = b
      <4>1. new_udp_recv_s'[b] = new_udp_recv_s[b] - 1
        BY <1>1, <1>2 DEF TakePacket, PlainTypes
      <4>2. QED
        BY <1>1, <3>1, <4>1
    <3>2. CASE c # b
      <4>1. new_udp_recv_s'[c] = new_udp_recv_s[c]
        BY <1>1, <1>2, <3>2 DEF TakePacket, PlainTypes
      <4>2. QED
        BY <1>1, <4>1
    <3>3. QED
      BY <3>1, <3>2
  <2>3. QED
    BY <2>1, <2>2 DEF RecvStep, Kept, IsData
<1>3. ASSUME UNCHANGED <<recv_data, new_udp_recv_s>> PROVE RecvStep(c)
  BY <1>1, <1>3 DEF RecvStep, Kept
<1>4. CASE RecvData(b) \/ RecvAck(b) \/ RecvAckDv(b) \/ RecvDv(b)
  BY <1>2, <1>4 DEF RecvData, RecvAck, RecvAckDv, RecvDv
<1>5. CASE \E k \in Commands : Serial(b, k)
  BY <1>3, <1>5 DEF Serial, recvVars
<1>6. CASE \/ EnableAp(b) \/ EndRouting(b) \/ DvScanNobody(b) \/ Join(b) \/ JoinTimeout(b)
           \/ \E h \in IDs : DvScanFound(b, h)
  BY <1>3, <1>6 DEF EnableAp, EndRouting, DvScanNobody, Join, JoinTimeout, DvScanFound, EndPass
<1>7. CASE StartDvScan(b) \/ StartJoin(b)
  BY <1>3, <1>7 DEF StartDvScan, StartJoin, Block, recvVars
<1>8. QED
  BY <1>4, <1>5, <1>6, <1>7, SendSteps, AckSteps, Zenon DEF RoutedStep

(* A stutter of the boards is one of their buffers.                        *)
LEMMA Stutters ==
  ASSUME PlainInv, UNCHANGED vars, NEW c \in Boards
  PROVE  QueueStep(c) /\ RecvStep(c)
<1>1. new_udp_recv_s[c] \in Nat
  BY DEF PlainInv, PlainTypes
<1>2. QED
  BY <1>1 DEF vars, radioVars, connectVars, sendVars, recvVars, QueueStep, Stays, Bound,
     RecvStep, Kept

LEMMA DataSteps ==
  ASSUME PlainInv, [Next]_vars, NEW c \in Boards
  PROVE  QueueStep(c) /\ RecvStep(c)
<1>1. CASE Next
  <2>1. PICK b \in Boards : RoutedStep(b)
    BY <1>1, RoutedSteps
  <2>2. QED
    BY <2>1, QueueSteps, RecvSteps
<1>2. QED
  BY <1>1, Stutters

(* The price of what is queued *)
LEMMA QueuePriced ==
  ASSUME PlainInv, PlainInv', RoutesOK, DataInv, [Next]_vars, NoteQueued, NEW c \in Boards,
         IsData(send_queue'[c])
  PROVE  /\ dist_vector'[c][send_queue'[c].dest] <= queued_at'[c]
         /\ \A h \in Boards :
              Bound(c, h)' => dist_vector'[h][send_queue'[c].dest] < queued_at'[c]
<1> DEFINE d == send_queue'[c].dest
<1>1. d \in IDs
  BY DataHasIDsNext
<1>2. \A n \in IDs : /\ dist_vector'[n][d] <= dist_vector[n][d]
                     /\ dist_vector[n][d] \in Nat /\ dist_vector'[n][d] \in Nat
  <2>1. \A n, e \in IDs : dist_vector'[n][e] <= dist_vector[n][e]
    BY StepsKeepRoutes
  <2>2. \A n, e \in IDs : dist_vector[n][e] \in Nat
    BY RouteTypes
  <2>3. \A n \in IDs : dist_vector'[n][d] \in Nat
    <3>1. dist_vector' \in [Boards -> Vector]
      BY DEF PlainInv, PlainTypes
    <3>2. \A v \in Vector : v[d] \in Nat
      BY <1>1, Numbers DEF Vector, Dist, DIST_IF_NO_ROUTE
    <3>3. QED
      BY <3>1, <3>2, Numbers
  <2>4. QED
    BY <1>1, <2>1, <2>2, <2>3
<1>3. queued_at[c] \in Nat /\ c \in IDs
  BY Numbers DEF DataInv, Dist, DIST_IF_NO_ROUTE
<1>4. queued_at'[c] = IF send_queue'[c] # send_queue[c] THEN dist_vector[c][d] ELSE queued_at[c]
  BY DEF NoteQueued
<1>5. send_queue'[c] = send_queue[c]
        => /\ dist_vector[c][d] <= queued_at[c]
           /\ \A h \in Boards : Bound(c, h) => dist_vector[h][d] < queued_at[c]
  BY DEF DataInv, Priced
<1> HIDE DEF d
<1>6. CASE Stays(c)
  <2>1. queued_at'[c] = queued_at[c] /\ dist_vector[c][d] <= queued_at[c]
    BY <1>4, <1>5, <1>6 DEF Stays
  <2>2. ASSUME NEW h \in Boards, Bound(c, h)' PROVE dist_vector'[h][d] < queued_at'[c]
    <3>1. dist_vector[h][d] < queued_at[c] /\ h \in IDs
      BY <1>5, <1>6, <2>2, Numbers DEF Stays
    <3>2. QED
      BY <1>2, <1>3, <2>1, <3>1
  <2>3. dist_vector'[c][d] <= queued_at'[c]
    BY <1>2, <1>3, <2>1
  <2>4. QED
    BY <2>2, <2>3 DEF d
<1>7. CASE Routed(c)
  <2>1. dist_vector[c][d] <= queued_at'[c] /\ queued_at'[c] \in Nat
    BY <1>2, <1>3, <1>4, <1>5
  <2>2. UNCHANGED dist_vector /\ \A h \in Boards : Bound(c, h)' => routing_table[c][d] = h
    BY <1>7 DEF Routed, d
  <2>3. ASSUME NEW h \in Boards, Bound(c, h)' PROVE dist_vector'[h][d] < queued_at'[c]
    <3>1. routing_table[c][d] = h /\ h # NO_ROUTE /\ h \in IDs
      BY <2>2, <2>3, Numbers
    <3>2. dist_vector[h][d] < dist_vector[c][d]
      BY <1>1, <1>3, <3>1 DEF RoutesOK
    <3>3. QED
      BY <1>2, <1>3, <2>1, <2>2, <3>1, <3>2
  <2>4. dist_vector'[c][d] <= queued_at'[c]
    BY <2>1, <2>2
  <2>5. QED
    BY <2>3, <2>4 DEF d
<1>8. QED
  BY <1>6, <1>7, DataSteps DEF QueueStep

(* The price of what is received *)
LEMMA RecvPriced ==
  ASSUME PlainInv, PlainInv', RoutesOK, DataInv, [Next]_vars, NoteSent, NEW c \in Boards,
         IsData(recv_data'[c])
  PROVE  dist_vector'[c][recv_data'[c].dest] < sent_at'[c]
<1> DEFINE d == recv_data'[c].dest
<1>1. d \in IDs /\ c \in IDs
  BY DataHasIDsNext, Numbers
<1>2. /\ dist_vector'[c][d] <= dist_vector[c][d]
      /\ dist_vector[c][d] \in Nat /\ dist_vector'[c][d] \in Nat
  <2>1. dist_vector'[c][d] <= dist_vector[c][d]
    BY <1>1, StepsKeepRoutes
  <2>2. dist_vector[c][d] \in Nat
    BY <1>1, RouteTypes
  <2>3. dist_vector'[c][d] \in Nat
    <3>1. dist_vector' \in [Boards -> Vector]
      BY DEF PlainInv, PlainTypes
    <3>2. \A v \in Vector : v[d] \in Nat
      BY <1>1, Numbers DEF Vector, Dist, DIST_IF_NO_ROUTE
    <3>3. QED
      BY <3>1, <3>2
  <2>4. QED
    BY <2>1, <2>2, <2>3
<1>3. /\ \A a \in Boards : queued_at[a] \in Nat
      /\ sent_at[c] \in Nat
  BY Numbers DEF DataInv, Dist, DIST_IF_NO_ROUTE
<1>4. sent_at'[c] = IF new_udp_recv_s'[c] > new_udp_recv_s[c]
                    THEN queued_at[recv_data'[c].src] ELSE sent_at[c]
  BY DEF NoteSent
<1>5. CASE Kept(c)
  <2>1. dist_vector[c][d] < sent_at[c]
    BY <1>5 DEF Kept, DataInv, Priced
  <2>2. sent_at'[c] = sent_at[c]
    BY <1>4, <1>5 DEF Kept
  <2> HIDE DEF d
  <2>3. dist_vector'[c][d] < sent_at'[c]
    BY <1>2, <1>3, <2>1, <2>2
  <2>4. QED
    BY <2>3 DEF d
<1>6. ASSUME NEW a \in Boards, SentBy(a, c)
      PROVE  dist_vector'[c][d] < sent_at'[c]
  <2>1. sent_at'[c] = queued_at[a]
    BY <1>4, <1>6 DEF SentBy
  <2>2. dist_vector[c][d] < queued_at[a]
    BY <1>6 DEF SentBy, DataInv, Priced
  <2>3. UNCHANGED dist_vector
    BY <1>6 DEF SentBy
  <2> HIDE DEF d
  <2>4. QED
    BY <2>1, <2>2, <2>3
<1>7. QED
  BY <1>5, <1>6, DataSteps DEF RecvStep

LEMMA DataKeeps ==
  ASSUME PlainInv, PlainInv', RoutesOK, DataInv, [NextData]_dataVars
  PROVE  DataInv'
<1>1. CASE NextData
  <2>1. [Next]_vars /\ NoteQueued /\ NoteSent
    BY <1>1 DEF NextData
  <2>2. queued_at' \in [Boards -> Dist]
    <3>1. ASSUME NEW c \in Boards, IsData(send_queue'[c])
          PROVE  dist_vector[c][send_queue'[c].dest] \in Dist
      BY <3>1, DataHasIDsNext, RouteTypes, Numbers
    <3>2. \A c \in Boards : queued_at[c] \in Dist
      BY DEF DataInv
    <3>3. QED
      BY <2>1, <3>1, <3>2 DEF NoteQueued
  <2>3. sent_at' \in [Boards -> Dist]
    <3>1. ASSUME NEW c \in Boards, IsData(recv_data'[c])
          PROVE  queued_at[recv_data'[c].src] \in Dist
      <4>1. recv_data'[c].src \in Boards
        BY <3>1, DataHasIDsNext, Numbers
      <4>2. QED
        BY <4>1 DEF DataInv
    <3>2. \A c \in Boards : sent_at[c] \in Dist
      BY DEF DataInv
    <3>3. QED
      BY <2>1, <3>1, <3>2 DEF NoteSent
  <2>4. ASSUME NEW c \in Boards PROVE Priced(c)'
    BY <2>1, QueuePriced, RecvPriced DEF Priced, IsData
  <2>5. QED
    BY <2>2, <2>3, <2>4 DEF DataInv
<1>2. CASE UNCHANGED dataVars
  <2>1. /\ UNCHANGED <<queued_at, sent_at, send_queue, recv_data, dist_vector>>
        /\ UNCHANGED <<signal_connect_thread, target_ID, pc, assoc>>
    BY <1>2 DEF dataVars, vars, selfVars, sendVars, recvVars, connectVars, radioVars
  <2>2. QED
    BY <2>1 DEF DataInv, Priced, IsData, Bound
<1>3. QED
  BY <1>1, <1>2

(* A packet of data costs less with every hop, at the price its sender put *)
(* on it when it was queued: no change of a route, no loss and no repeated *)
(* packet sends it round.                                                  *)
THEOREM DataMovesCloserAlways == SpecData => []DataMovesCloser
<1>1. InitData => InitRouted /\ DataInv
  BY Numbers DEF InitData, DataInv, Priced, IsData, InitRouted, InitThreads, Idle, Dist,
     DIST_IF_NO_ROUTE
<1>2. [NextData]_dataVars => [Next]_vars
  BY DEF NextData, dataVars
<1>3. SpecData => SpecRouted
  BY <1>1, <1>2, PTL DEF SpecData, SpecRouted
<1>4. PlainInv /\ PlainInv' /\ RoutesOK /\ DataInv /\ [NextData]_dataVars => DataInv'
  BY DataKeeps
<1>5. RoutedInv <=> PlainInv
  BY PlainIsRouted
<1>6. SpecData => []DataInv
  BY <1>1, <1>3, <1>4, <1>5, RoutedInvariant, RoutesOKAlways, PTL DEF SpecData
<1>7. DataInv => DataMovesCloser
  BY DEF DataInv, Priced, DataMovesCloser
<1>8. QED
  BY <1>6, <1>7, PTL
=============================================================================
