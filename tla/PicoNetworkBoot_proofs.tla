----------------------- MODULE PicoNetworkBoot_proofs -----------------------
(***************************************************************************)
(* The program of distance_vector/ from power-up: it implements the walk   *)
(* of one token, numbers the boards and finds their neighbors.  For any    *)
(* boards and ranges, any number of faults and of packets that wait; only  *)
(* "token" is typed, once.                                                 *)
(*                                                                         *)
(* The inductive invariant follows the token: a board is in one of eleven  *)
(* phases, at most one board is in a phase that holds the token, and what  *)
(* packets, links and names say about IDs is true.  A second invariant on  *)
(* top of it says what holds as long as nothing fails: whoever is not      *)
(* hosting is about to, so a scan sees all neighbors.                      *)
(***************************************************************************)
EXTENDS PicoNetwork, TLAPS, FiniteSetTheorems

-----------------------------------------------------------------------------
(* Where the token is *)

TokenQueued(b) == HoldsToken(send_queue[b])
TokenArrived(b) == HoldsToken(recv_data[b])
Holder(b) == TokenQueued(b) \/ TokenArrived(b)

(* How many boards have an ID, which is the number the token carries       *)
WithID == {b \in Boards : ID[b] # DEFAULT_ID}
Count == Cardinality(WithID)

-----------------------------------------------------------------------------
(* The phases of a board during a walk *)

NoSend(b) == send_queue[b] = NONE /\ ~ signal_send_thread[b]
NoRecv(b) == recv_data[b] = NONE /\ new_udp_recv_s[b] = 0
NoAck(b) == new_udp_ack_s[b] = 0 /\ ack_queue_empty[b]
NoCall(b) == ~ signal_connect_thread[b]
ToSend(b) == TokenQueued(b) /\ signal_send_thread[b]

(* It waits, as an access point or as a station.                           *)
Waiting(b) == /\ pc[b] = "poll"
              /\ NoSend(b) /\ NoRecv(b) /\ NoAck(b) /\ NoCall(b)

BootPhase(b) == /\ b = 0 /\ pc[b] = "boot" /\ ~ access_point[b]
                /\ NoSend(b) /\ NoRecv(b) /\ NoAck(b) /\ NoCall(b)

(* It has the token; has it ready for the next board and owes the ack, is  *)
(* about to scan, scans and joins, is told to join its parent, has joined, *)
ArrivedPhase(b) ==
  /\ access_point[b] /\ pc[b] = "poll"
  /\ TokenArrived(b) /\ new_udp_recv_s[b] = 1
  /\ NoSend(b) /\ NoAck(b) /\ NoCall(b)

AckDue(b) ==
  /\ access_point[b] /\ pc[b] = "poll" /\ ToSend(b)
  /\ signal_connect_thread[b] /\ target_ID[b] = NF_SCAN
  /\ new_udp_ack_s[b] = 1 /\ ~ ack_queue_empty[b]
  /\ ack_queue[b] # NONE
  /\ ack_queue[b].type = "ack" /\ ack_queue[b].acked = "token"
  /\ NoRecv(b)

Woken(b) ==
  /\ access_point[b] /\ pc[b] = "poll" /\ ToSend(b)
  /\ signal_connect_thread[b] /\ target_ID[b] = NF_SCAN
  /\ NoRecv(b) /\ NoAck(b)

BusyPhase(b) ==
  /\ ~ access_point[b] /\ pc[b] \in {"nf_scan", "nf_join", "join"} /\ ToSend(b)
  /\ NoRecv(b) /\ NoAck(b) /\ NoCall(b)
  /\ pc[b] = "join" => b # 0 /\ target_ID[b] = parent_ID[b]

HomeCall(b) ==
  /\ ~ access_point[b] /\ pc[b] = "poll" /\ ToSend(b)
  /\ b # 0 /\ signal_connect_thread[b]
  /\ target_ID[b] = parent_ID[b] /\ parent_ID[b] # DEFAULT_ID
  /\ NoRecv(b) /\ NoAck(b)

QueuedPhase(b) ==
  /\ ~ access_point[b] /\ pc[b] = "poll" /\ ToSend(b)
  /\ NoRecv(b) /\ NoAck(b) /\ NoCall(b)

(* and has the ack, and is about to host again, where a token that found   *)
(* nobody stays in the queue for good.                                     *)
AckedPhase(b) ==
  /\ ~ access_point[b] /\ pc[b] = "poll"
  /\ recv_data[b] # NONE /\ recv_data[b].type = "ack"
  /\ recv_data[b].acked = "token" /\ new_udp_recv_s[b] = 1
  /\ NoSend(b) /\ NoAck(b) /\ NoCall(b)

EndPhase(b) ==
  /\ ~ access_point[b] /\ pc[b] = "poll"
  /\ signal_connect_thread[b] /\ target_ID[b] = ENABLE_AP
  /\ NoSend(b) \/ ToSend(b)
  /\ NoRecv(b) /\ NoAck(b)

StuckPhase(b) ==
  /\ access_point[b] /\ pc[b] = "poll" /\ ToSend(b)
  /\ NoRecv(b) /\ NoAck(b) /\ NoCall(b)

(* Nobody takes part in an exchange of vectors.                            *)
NoRouting(b) == next_dv_scan[b] = "never" /\ phase[b] # "dv_routing"

Phase(b) ==
  /\ NoRouting(b)
  /\ \/ Waiting(b) \/ BootPhase(b) \/ ArrivedPhase(b) \/ AckDue(b) \/ Woken(b)
     \/ BusyPhase(b) \/ HomeCall(b) \/ QueuedPhase(b) \/ AckedPhase(b)
     \/ EndPhase(b) \/ StuckPhase(b)

-----------------------------------------------------------------------------
(* The walk *)

(* The token may go from a to c: to a board it finds, or home.             *)
LinkOK(a, c) ==
  \/ ID[c] = DEFAULT_ID /\ c \in InRange[a]
  \/ ID[c] # DEFAULT_ID /\ a # 0 /\ ID[c] = parent_ID[a]

(* Nothing happens before the token is typed.                              *)
Started == todo = {} /\ pc[0] # "boot"
Fresh == \A b \in Boards : /\ Waiting(b) \/ BootPhase(b)
                           /\ access_point[b] <=> b # 0
                           /\ b # 0 => ID[b] = DEFAULT_ID

OneHolder == \A a, b \in Boards : Holder(a) /\ Holder(b) => a = b

IDsOK ==
  /\ ID[0] = 0
  /\ \A a, b \in Boards : ID[a] = ID[b] /\ ID[a] # DEFAULT_ID => a = b
  /\ \A b \in Boards : ID[b] < Count
  /\ \A b \in Boards :
       ~ access_point[b] \/ TokenQueued(b) => ID[b] # DEFAULT_ID
  /\ \A b \in Boards : ID[b] # DEFAULT_ID /\ b # 0 =>
       \E a \in Boards : /\ b \in InRange[a]
                         /\ ID[a] # DEFAULT_ID /\ ID[a] = parent_ID[b]

NamesOK ==
  \A b \in Boards :
    /\ wifi_ssid[b] = PIDOG \/ (wifi_ssid[b] = ID[b] /\ ID[b] # DEFAULT_ID)
    /\ access_point[b] /\ wifi_ssid[b] = PIDOG =>
         ID[b] = DEFAULT_ID \/ TokenQueued(b)

NumbersOK ==
  \A b \in Boards :
    /\ TokenQueued(b) => /\ send_queue[b].num = Count
                         /\ send_queue[b].src = ID[b]
                         /\ send_queue[b].acked = ""
    /\ TokenArrived(b) => /\ recv_data[b].num = Count
                          /\ recv_data[b].acked = ""
                          /\ ID[recv_data[b].ip] = recv_data[b].src
                          /\ recv_data[b].src # DEFAULT_ID
                          /\ LinkOK(recv_data[b].ip, b)
                          /\ assoc[recv_data[b].ip] = b
    /\ AckDue(b) => assoc[ack_queue[b].ip] = b

LinksOK ==
  \A a \in Boards : assoc[a] # NONE =>
    /\ ~ access_point[a] /\ pc[a] = "poll" /\ access_point[assoc[a]]
    /\ Woken(assoc[a]) \/ (NoRecv(a) /\ NoCall(a))
    /\ todo # {} \/ TokenQueued(a) => LinkOK(a, assoc[a])
    /\ \A h \in Boards : Holder(h) => h \in {a, assoc[a]}
    /\ \A b \in Boards : assoc[b] = assoc[a] => b = a

WalkInv ==
  /\ \A b \in Boards : Phase(b)
  /\ Started \/ Fresh
  /\ OneHolder /\ IDsOK /\ NamesOK /\ NumbersOK /\ LinksOK

(* The types but for those of nbrs                                         *)
PlainTypes ==
  /\ ID \in [Boards -> IDs \cup {DEFAULT_ID}]
  /\ parent_ID \in [Boards -> IDs \cup {DEFAULT_ID}]
  /\ wifi_ssid \in [Boards -> IDs \cup {DEFAULT_ID, PIDOG}]
  /\ knows_nbrs \in [Boards -> BOOLEAN]
  /\ ID_is_nbr \in [Boards -> SUBSET IDs]
  /\ dist_vector \in [Boards -> Vector]
  /\ routing_table \in [Boards -> Table]
  /\ access_point \in [Boards -> BOOLEAN]
  /\ assoc \in [Boards -> Boards \cup {NONE}]
  /\ phase \in [Boards -> {"nothing", "nb_finding", "dv_routing"}]
  /\ target_ID \in [Boards -> {DV_SCAN, NF_SCAN, ENABLE_AP} \cup IDs]
  /\ signal_connect_thread \in [Boards -> BOOLEAN]
  /\ next_dv_scan \in [Boards -> {"never", "asap", "later"}]
  /\ pc \in [Boards -> {"boot", "poll", "dv_scan", "nf_scan", "nf_join", "join"}]
  /\ joining \in [Boards -> Boards \cup {NONE}]
  /\ pidogs_found \in [Boards -> BOOLEAN]
  /\ signal_send_thread \in [Boards -> BOOLEAN]
  /\ send_queue \in [Boards -> PacketSet \cup {NONE}]
  /\ recv_data \in [Boards -> PacketSet \cup {NONE}]
  /\ new_udp_recv_s \in [Boards -> Nat]
  /\ due \in [Boards -> BOOLEAN]
  /\ ack_queue \in [Boards -> PacketSet \cup {NONE}]
  /\ new_udp_ack_s \in [Boards -> Nat]
  /\ ack_queue_empty \in [Boards -> BOOLEAN]
  /\ todo \subseteq Commands
  /\ faults \in 0 .. MaxFaults

(* nbrs, once the other types hold                                         *)
NbrTypes ==
  /\ DOMAIN nbrs = Boards
  /\ \A b \in Boards : \E S \in SUBSET IDs : nbrs[b] \in [S -> Nbr_t]

TypeInv == PlainTypes /\ todo \subseteq TokenCommands

IInv == TypeInv /\ NbrTypes /\ WalkInv

(* What faults may spoil.  While a board has the token, whoever is not     *)
(* hosting is about to, or waits for its ack;                              *)
Waits(a, h) == assoc[a] = h /\ (TokenArrived(h) \/ AckDue(h))

Awaited ==
  \A a, h \in Boards : Holder(h) /\ a # h /\ ~ access_point[a] =>
                       Returning(a) \/ Waits(a, h)

(* and only neighbors are known, and all of them in the end.               *)
Listed ==
  \A b \in Boards :
    /\ \A id \in ID_is_nbr[b] : \E a \in InRange[b] : ID[a] = id
    /\ knows_nbrs[b] => DOMAIN nbrs[b] = {ID[a] : a \in InRange[b]}

CompleteInv == faults = 0 => Awaited /\ Listed

-----------------------------------------------------------------------------
(* Numbers, vectors and packets *)

(* The special values of target_ID and of an ID are no IDs.                *)
LEMMA BootNumbers ==
  /\ MAX_NODES \in Nat /\ MAX_NODES > 0 /\ IDs = 0 .. MAX_NODES - 1
  /\ Boards \subseteq IDs /\ 0 \in Boards
  /\ DV_SCAN = -3 /\ NF_SCAN = -2 /\ ENABLE_AP = -1 /\ DEFAULT_ID = -1
  /\ PIDOG = -2 /\ MASTER_ID = 0
BY MaxNodesAssumption, BoardsAssumption
   DEF IDs, DV_SCAN, NF_SCAN, ENABLE_AP, DEFAULT_ID, PIDOG, MASTER_ID

(* What distance_vector.c computes is a vector, a table, a vector to send. *)
LEMMA VectorTypes ==
  /\ EmptyVector \in Vector /\ EmptyVector \in WireVector /\ EmptyTable \in Table
  /\ \A dv \in Vector, rt \in Table, n \in IDs, S \in SUBSET IDs :
       /\ InitVector(dv, n, S) \in Vector /\ InitTable(rt, S) \in Table
       /\ Poisoned(dv, rt, n) \in WireVector
  /\ \A dv \in Vector, rt \in Table, n \in IDs, nv \in WireVector :
       UpdateVector(dv, nv) \in Vector /\ UpdateTable(dv, rt, nv, n) \in Table
<1> USE BootNumbers DEF Vector, WireVector, Table, Dist, WireDist, DIST_IF_NO_ROUTE, POISON_DIST
<1>1. /\ EmptyVector \in Vector /\ EmptyVector \in WireVector /\ EmptyTable \in Table
  BY DEF EmptyVector, EmptyTable
<1>2. ASSUME NEW dv \in Vector, NEW rt \in Table, NEW n \in IDs, NEW S \in SUBSET IDs
      PROVE  /\ InitVector(dv, n, S) \in Vector /\ InitTable(rt, S) \in Table
             /\ Poisoned(dv, rt, n) \in WireVector
  <2>1. InitVector(dv, n, S) \in Vector /\ InitTable(rt, S) \in Table
    BY DEF InitVector, InitTable, DEFAULT_COST
  <2>2. Poisoned(dv, rt, n) \in WireVector
    BY DEF Poisoned
  <2>3. QED
    BY <2>1, <2>2
<1>3. ASSUME NEW dv \in Vector, NEW rt \in Table, NEW n \in IDs, NEW nv \in WireVector
      PROVE  UpdateVector(dv, nv) \in Vector /\ UpdateTable(dv, rt, nv, n) \in Table
  <2>1. ASSUME NEW id \in IDs
        PROVE  (IF id \in Improved(dv, nv) THEN DEFAULT_COST + nv[id] ELSE dv[id]) \in Dist
    <3>1. dv[id] \in 0 .. MAX_NODES /\ nv[id] \in 0 .. MAX_NODES + 1
      OBVIOUS
    <3>2. id \in Improved(dv, nv) => 1 + nv[id] < dv[id]
      BY DEF Improved, DEFAULT_COST
    <3>3. QED
      BY <3>1, <3>2 DEF DEFAULT_COST
  <2>2. UpdateVector(dv, nv) \in Vector
    BY <2>1 DEF UpdateVector
  <2>3. UpdateTable(dv, rt, nv, n) \in Table
    BY DEF UpdateTable
  <2>4. QED
    BY <2>2, <2>3
<1>4. QED
  BY <1>1, <1>2, <1>3

LEMMA NewPacket ==
  ASSUME NEW type \in PacketType, NEW dest \in -3 .. MAX_NODES, NEW src \in -1 .. MAX_NODES,
         NEW ip \in Boards
  PROVE  Packet(type, dest, src, ip) \in PacketSet
<1>1. EmptyVector \in WireVector
  BY BootNumbers DEF EmptyVector, WireVector, WireDist, DIST_IF_NO_ROUTE, POISON_DIST
<1>2. 0 \in 0 .. MAX_NODES
  BY BootNumbers
<1>3. QED
  BY <1>1, <1>2 DEF Packet, PacketSet

-----------------------------------------------------------------------------
(* Phases *)

(* A board has the token in one of eight phases; an access point that has  *)
(* not got it waits, and so does a station that is told nothing.           *)
LEMMA PhaseFacts ==
  ASSUME NEW b \in Boards, Phase(b)
  PROVE  /\ TokenArrived(b) <=> ArrivedPhase(b)
         /\ TokenQueued(b) <=> \/ AckDue(b) \/ Woken(b) \/ BusyPhase(b) \/ HomeCall(b)
                               \/ QueuedPhase(b) \/ StuckPhase(b)
                               \/ (EndPhase(b) /\ ToSend(b))
         /\ access_point[b] /\ ~ Holder(b) => Waiting(b)
         /\ ~ access_point[b] /\ ~ Holder(b) /\ pc[b] = "poll" /\ NoRecv(b) /\ NoCall(b)
              => Waiting(b)
         /\ ~ (TokenArrived(b) /\ TokenQueued(b))
BY DEF Phase, TokenQueued, TokenArrived, Holder, HoldsToken, Waiting, BootPhase, ArrivedPhase,
       AckDue, Woken, BusyPhase, HomeCall, QueuedPhase, AckedPhase, EndPhase, StuckPhase,
       NoSend, NoRecv, NoAck, NoCall, ToSend

(* The part of the state that a phase depends on                           *)
Same(b) ==
  /\ pc'[b] = pc[b] /\ access_point'[b] = access_point[b]
  /\ signal_connect_thread'[b] = signal_connect_thread[b]
  /\ target_ID'[b] = target_ID[b] /\ parent_ID'[b] = parent_ID[b]
  /\ next_dv_scan'[b] = next_dv_scan[b] /\ phase'[b] = phase[b]
  /\ send_queue'[b] = send_queue[b]
  /\ signal_send_thread'[b] = signal_send_thread[b]
  /\ recv_data'[b] = recv_data[b] /\ new_udp_recv_s'[b] = new_udp_recv_s[b]
  /\ ack_queue'[b] = ack_queue[b] /\ new_udp_ack_s'[b] = new_udp_ack_s[b]
  /\ ack_queue_empty'[b] = ack_queue_empty[b]

(* A board that a step does not touch stays in its phase.                  *)
LEMMA SamePhase ==
  ASSUME NEW b \in Boards, Same(b)
  PROVE  /\ Phase(b)' <=> Phase(b)
         /\ TokenQueued(b)' <=> TokenQueued(b)
         /\ TokenArrived(b)' <=> TokenArrived(b)
         /\ Holder(b)' <=> Holder(b)
         /\ Waiting(b)' <=> Waiting(b)
         /\ BootPhase(b)' <=> BootPhase(b)
         /\ Woken(b)' <=> Woken(b)
         /\ AckDue(b)' <=> AckDue(b)
         /\ NoRecv(b)' <=> NoRecv(b)
         /\ NoCall(b)' <=> NoCall(b)
<1>1. /\ TokenQueued(b)' <=> TokenQueued(b)
      /\ TokenArrived(b)' <=> TokenArrived(b)
  BY DEF Same, TokenQueued, TokenArrived, HoldsToken
<1>2. /\ NoSend(b)' <=> NoSend(b)
      /\ NoRecv(b)' <=> NoRecv(b)
      /\ NoAck(b)' <=> NoAck(b)
      /\ NoCall(b)' <=> NoCall(b)
      /\ ToSend(b)' <=> ToSend(b)
      /\ NoRouting(b)' <=> NoRouting(b)
  BY <1>1 DEF Same, NoSend, NoRecv, NoAck, NoCall, ToSend, NoRouting
<1>3. /\ Waiting(b)' <=> Waiting(b)
      /\ BootPhase(b)' <=> BootPhase(b)
      /\ ArrivedPhase(b)' <=> ArrivedPhase(b)
      /\ Woken(b)' <=> Woken(b)
      /\ QueuedPhase(b)' <=> QueuedPhase(b)
      /\ EndPhase(b)' <=> EndPhase(b)
      /\ StuckPhase(b)' <=> StuckPhase(b)
  BY <1>1, <1>2 DEF Same, Waiting, BootPhase, ArrivedPhase, Woken, QueuedPhase, EndPhase,
     StuckPhase
<1>4. /\ AckDue(b)' <=> AckDue(b)
      /\ AckedPhase(b)' <=> AckedPhase(b)
      /\ BusyPhase(b)' <=> BusyPhase(b)
      /\ HomeCall(b)' <=> HomeCall(b)
  BY <1>1, <1>2 DEF Same, AckDue, AckedPhase, BusyPhase, HomeCall
<1>5. QED
  BY <1>1, <1>2, <1>3, <1>4 DEF Phase, Holder

-----------------------------------------------------------------------------
(* How many boards have an ID *)

LEMMA CountIsSmall ==
  /\ IsFiniteSet(WithID) /\ Count \in Nat /\ Count =< MAX_NODES
  /\ \A b \in Boards : ID[b] = DEFAULT_ID => Count < MAX_NODES
<1>1. /\ IsFiniteSet(IDs) /\ Cardinality(IDs) = MAX_NODES /\ MAX_NODES \in Nat
  BY FS_Interval, BootNumbers
<1>2. WithID \subseteq IDs
  BY BootNumbers DEF WithID
<1>3. IsFiniteSet(WithID) /\ Count =< MAX_NODES
  BY <1>1, <1>2, FS_Subset DEF Count
<1>4. Count \in Nat
  BY <1>3, FS_CardinalityType DEF Count
<1>5. ASSUME NEW b \in Boards, ID[b] = DEFAULT_ID PROVE Count < MAX_NODES
  <2>1. b \notin WithID /\ b \in IDs
    BY <1>5, BootNumbers DEF WithID
  <2>2. Cardinality(WithID \cup {b}) = Count + 1
    BY <1>3, <2>1, FS_AddElement DEF Count
  <2>3. Cardinality(WithID \cup {b}) =< MAX_NODES
    BY <1>1, <1>2, <2>1, FS_Subset
  <2>4. QED
    BY <1>1, <1>4, <2>2, <2>3
<1>6. QED
  BY <1>3, <1>4, <1>5

(* A board that is given an ID counts.                                     *)
LEMMA CountGrows ==
  ASSUME PlainTypes, NEW b \in Boards, ID[b] = DEFAULT_ID,
         NEW n \in IDs, ID' = [ID EXCEPT ![b] = n]
  PROVE  Count' = Count + 1
<1>1. n # DEFAULT_ID
  BY BootNumbers
<1>2. WithID' = WithID \cup {b} /\ b \notin WithID
  BY <1>1 DEF WithID, PlainTypes
<1>3. QED
  BY <1>2, CountIsSmall, FS_AddElement DEF Count

LEMMA IDsSame ==
  ASSUME UNCHANGED <<ID, parent_ID>>
  PROVE  Count' = Count /\ \A a, c \in Boards : LinkOK(a, c)' <=> LinkOK(a, c)
BY DEF Count, WithID, LinkOK

LEMMA IDsKept ==
  ASSUME IDsOK, UNCHANGED <<ID, parent_ID>>,
         \A c \in Boards : ~ access_point'[c] \/ TokenQueued(c)' => ID[c] # DEFAULT_ID
  PROVE  IDsOK'
<1>1. Count' = Count
  BY IDsSame
<1>2. QED
  BY <1>1 DEF IDsOK

-----------------------------------------------------------------------------
(* Steps.  These lemmas say what the steps of the program have in common;  *)
(* b is the board that takes the step, and all others stay as they are.    *)

Others(b) == \A c \in Boards : c # b => Same(c)

LEMMA OthersPhases ==
  ASSUME WalkInv, NEW b \in Boards, Others(b), NEW c \in Boards, c # b
  PROVE  /\ Phase(c)'
         /\ TokenQueued(c)' <=> TokenQueued(c)
         /\ TokenArrived(c)' <=> TokenArrived(c)
         /\ Holder(c)' <=> Holder(c)
         /\ Waiting(c)' <=> Waiting(c)
         /\ BootPhase(c)' <=> BootPhase(c)
         /\ Woken(c)' <=> Woken(c)
         /\ AckDue(c)' <=> AckDue(c)
         /\ NoRecv(c)' <=> NoRecv(c)
         /\ NoCall(c)' <=> NoCall(c)
         /\ pc'[c] = pc[c] /\ access_point'[c] = access_point[c]
         /\ send_queue'[c] = send_queue[c] /\ recv_data'[c] = recv_data[c]
         /\ ack_queue'[c] = ack_queue[c]
<1>1. Same(c) /\ Phase(c)
  BY DEF Others, WalkInv
<1>2. QED
  BY <1>1, SamePhase DEF Same

(* The board that has the token is the only one to have anything of it.    *)
LEMMA HolderAlone ==
  ASSUME WalkInv, NEW b \in Boards, Holder(b), NEW c \in Boards, c # b
  PROVE  ~ Holder(c) /\ ~ TokenQueued(c) /\ ~ TokenArrived(c) /\ ~ AckDue(c) /\ ~ Woken(c)
<1>1. ~ Holder(c)
  BY DEF WalkInv, OneHolder
<1>2. QED
  BY <1>1 DEF Holder, AckDue, Woken, ToSend

(* Once somebody does something, the walk has begun.                       *)
LEMMA HasStarted ==
  ASSUME WalkInv, NEW b \in Boards, ~ Waiting(b), ~ BootPhase(b)
  PROVE  Started
BY DEF WalkInv, Fresh

(* A step that numbers nobody, moves no access point and makes no link     *)
LEMMA LocalStep ==
  ASSUME TypeInv, WalkInv, Started, NEW b \in Boards, Others(b),
         UNCHANGED <<ID, parent_ID, wifi_ssid, access_point, assoc, todo>>,
         Phase(b)', pc'[b] # "boot", ~ TokenArrived(b)', ~ AckDue(b)',
         TokenQueued(b)' => TokenQueued(b) /\ send_queue'[b] = send_queue[b],
         access_point[b] /\ TokenQueued(b) => TokenQueued(b)',
         Woken(b) => Woken(b)',
         assoc[b] # NONE => /\ pc'[b] = "poll"
                            /\ (NoRecv(b)' /\ NoCall(b)') \/ Woken(assoc[b])
  PROVE  WalkInv'
<1>1. Count' = Count /\ \A a, c \in Boards : LinkOK(a, c)' <=> LinkOK(a, c)
  BY IDsSame
<1>2. \A c \in Boards : Phase(c)'
  BY OthersPhases
<1>3. \A c \in Boards : Holder(c)' => Holder(c)
  BY OthersPhases DEF Holder
<1>4. OneHolder'
  BY <1>3 DEF WalkInv, OneHolder
<1>5. Started'
  BY OthersPhases, BootNumbers DEF Started
<1>6. IDsOK'
  <2>1. IDsOK /\ \A c \in Boards : TokenQueued(c)' => TokenQueued(c)
    BY OthersPhases DEF WalkInv
  <2>2. QED
    BY <2>1, IDsKept DEF IDsOK
<1>7. NamesOK'
  <2>1. NamesOK /\ \A c \in Boards : access_point[c] /\ TokenQueued(c) => TokenQueued(c)'
    BY OthersPhases DEF WalkInv
  <2>2. QED
    BY <2>1 DEF NamesOK
<1>8. NumbersOK'
  <2>1. NumbersOK
    BY DEF WalkInv
  <2>2. ASSUME NEW c \in Boards, TokenQueued(c)'
        PROVE  send_queue'[c].num = Count' /\ send_queue'[c].src = ID'[c]
               /\ send_queue'[c].acked = ""
    <3>1. TokenQueued(c) /\ send_queue'[c] = send_queue[c]
      BY <2>2, OthersPhases
    <3>2. QED
      BY <1>1, <2>1, <3>1, ZenonT(30) DEF NumbersOK
  <2>3. ASSUME NEW c \in Boards, TokenArrived(c)'
        PROVE  /\ recv_data'[c].num = Count' /\ recv_data'[c].acked = ""
               /\ ID'[recv_data'[c].ip] = recv_data'[c].src
               /\ recv_data'[c].src # DEFAULT_ID
               /\ LinkOK(recv_data[c].ip, c)'
               /\ assoc'[recv_data'[c].ip] = c
    <3>1. TokenArrived(c) /\ recv_data'[c] = recv_data[c]
      BY <2>3, OthersPhases
    <3>2. LinkOK(recv_data[c].ip, c)' <=> LinkOK(recv_data[c].ip, c)
      BY <3>1 DEF LinkOK
    <3>3. /\ recv_data[c].num = Count /\ recv_data[c].acked = ""
          /\ ID[recv_data[c].ip] = recv_data[c].src
          /\ recv_data[c].src # DEFAULT_ID
          /\ LinkOK(recv_data[c].ip, c)
          /\ assoc[recv_data[c].ip] = c
      BY <2>1, <3>1 DEF NumbersOK
    <3>4. QED
      BY <1>1, <3>1, <3>2, <3>3
  <2>4. ASSUME NEW c \in Boards, AckDue(c)' PROVE assoc'[ack_queue'[c].ip] = c
    <3>1. AckDue(c) /\ ack_queue'[c] = ack_queue[c]
      BY <2>4, OthersPhases
    <3>2. QED
      BY <2>1, <3>1 DEF NumbersOK
  <2>5. QED
    BY <2>2, <2>3, <2>4 DEF NumbersOK
<1>9. LinksOK'
  <2> SUFFICES ASSUME NEW a \in Boards, assoc'[a] # NONE
               PROVE  /\ ~ access_point'[a] /\ pc'[a] = "poll" /\ access_point'[assoc'[a]]
                      /\ Woken(assoc[a])' \/ (NoRecv(a)' /\ NoCall(a)')
                      /\ (todo # {} \/ TokenQueued(a))' => LinkOK(a, assoc[a])'
                      /\ \A h \in Boards : Holder(h)' => h \in {a, assoc'[a]}
                      /\ \A c \in Boards : assoc'[c] = assoc'[a] => c = a
    BY DEF LinksOK
  <2>1. /\ ~ access_point[a] /\ pc[a] = "poll" /\ access_point[assoc[a]]
        /\ Woken(assoc[a]) \/ (NoRecv(a) /\ NoCall(a))
        /\ todo # {} \/ TokenQueued(a) => LinkOK(a, assoc[a])
        /\ \A h \in Boards : Holder(h) => h \in {a, assoc[a]}
        /\ \A c \in Boards : assoc[c] = assoc[a] => c = a
    BY DEF WalkInv, LinksOK
  <2>2. assoc[a] \in Boards /\ assoc[a] # a
    BY <2>1 DEF TypeInv, PlainTypes
  <2>3. Woken(assoc[a]) => Woken(assoc[a])'
    BY <2>2, OthersPhases
  <2>4. (todo # {} \/ TokenQueued(a))' => LinkOK(a, assoc[a])'
    <3>1. TokenQueued(a)' => TokenQueued(a)
      BY OthersPhases
    <3>2. LinkOK(a, assoc[a])' <=> LinkOK(a, assoc[a])
      BY <1>1, <2>2 DEF LinkOK
    <3>3. QED
      BY <2>1, <3>1, <3>2
  <2>5. pc'[a] = "poll" /\ (Woken(assoc[a])' \/ (NoRecv(a)' /\ NoCall(a)'))
    BY <2>1, <2>2, <2>3, OthersPhases
  <2>6. QED
    BY <1>3, <2>1, <2>4, <2>5
<1>10. QED
  BY <1>2, <1>4, <1>5, <1>6, <1>7, <1>8, <1>9 DEF WalkInv

(* What the token and its packet say, while a board keeps it in its queue  *)
LEMMA NumbersKept ==
  ASSUME WalkInv, NEW b \in Boards, Others(b), UNCHANGED <<ID, parent_ID>>,
         TokenQueued(b), send_queue'[b] = send_queue[b],
         ~ TokenArrived(b)', ~ AckDue(b)'
  PROVE  NumbersOK'
<1>1. Count' = Count
  BY IDsSame
<1>2. \A c \in Boards : c # b => ~ TokenQueued(c)' /\ ~ TokenArrived(c)' /\ ~ AckDue(c)'
  <2> SUFFICES ASSUME NEW c \in Boards, c # b
               PROVE  ~ TokenQueued(c)' /\ ~ TokenArrived(c)' /\ ~ AckDue(c)'
    OBVIOUS
  <2>1. ~ TokenQueued(c) /\ ~ TokenArrived(c) /\ ~ AckDue(c)
    BY HolderAlone DEF Holder
  <2>2. QED
    BY <2>1, OthersPhases
<1>3. send_queue'[b].num = Count' /\ send_queue'[b].src = ID'[b] /\ send_queue'[b].acked = ""
  BY <1>1 DEF WalkInv, NumbersOK
<1>4. QED
  BY <1>2, <1>3 DEF NumbersOK

(* While a station has the token in its queue and blocks, nobody is linked.*)
LEMMA NoLinks ==
  ASSUME TypeInv, WalkInv, NEW b \in Boards, TokenQueued(b), ~ access_point[b],
         pc[b] # "poll" \/ assoc[b] = NONE
  PROVE  \A a \in Boards : assoc[a] = NONE
<1> SUFFICES ASSUME NEW a \in Boards, assoc[a] # NONE PROVE FALSE
  OBVIOUS
<1>1. b \in {a, assoc[a]} /\ access_point[assoc[a]] /\ pc[a] = "poll"
  BY DEF WalkInv, LinksOK, Holder
<1>2. QED
  BY <1>1

(* The board with the token joins the next.                                *)
LEMMA JoinStep ==
  ASSUME TypeInv, WalkInv, NEW b \in Boards, Others(b), BusyPhase(b), QueuedPhase(b)',
         UNCHANGED <<ID, parent_ID, wifi_ssid, access_point, todo>>,
         NoRouting(b)', send_queue'[b] = send_queue[b],
         NEW a \in Boards, access_point[a], LinkOK(b, a),
         assoc' = [assoc EXCEPT ![b] = a]
  PROVE  WalkInv'
<1>1. /\ TokenQueued(b) /\ ~ access_point[b] /\ pc[b] # "poll" /\ Holder(b)
      /\ TokenQueued(b)' /\ pc'[b] = "poll" /\ NoRecv(b)' /\ NoCall(b)'
      /\ ~ TokenArrived(b)' /\ ~ AckDue(b)'
  BY DEF BusyPhase, QueuedPhase, ToSend, Holder, NoRecv, TokenArrived, HoldsToken, AckDue, NoAck
<1>2. Count' = Count /\ \A x, c \in Boards : LinkOK(x, c)' <=> LinkOK(x, c)
  BY IDsSame
<1>3. \A c \in Boards : Phase(c)'
  BY OthersPhases DEF Phase
<1>4. \A c \in Boards : Holder(c)' => c = b
  BY <1>1, OthersPhases, HolderAlone
<1>5. Started'
  <2>1. Started
    BY <1>1, HasStarted DEF Waiting, BootPhase, ToSend, NoSend, TokenQueued, HoldsToken
  <2>2. QED
    BY <1>1, <2>1, OthersPhases, BootNumbers DEF Started
<1>6. IDsOK'
  <2>1. IDsOK /\ \A c \in Boards : TokenQueued(c)' => TokenQueued(c)
    BY <1>1, OthersPhases DEF WalkInv
  <2>2. QED
    BY <2>1, IDsKept DEF IDsOK
<1>7. NamesOK'
  <2>1. NamesOK /\ \A c \in Boards : TokenQueued(c) => TokenQueued(c)'
    BY <1>1, OthersPhases DEF WalkInv
  <2>2. QED
    BY <2>1 DEF NamesOK
<1>8. NumbersOK'
  BY <1>1, NumbersKept
<1>9. LinksOK'
  <2>1. \A c \in Boards : assoc'[c] = IF c = b THEN a ELSE NONE
    BY <1>1, NoLinks DEF TypeInv, PlainTypes
  <2>2. LinkOK(b, a)'
    BY <1>2
  <2>3. LinkOK(b, assoc[b])'
    BY <2>1, <2>2 DEF LinkOK
  <2>4. a # NONE
    BY NoneAssumption
  <2>5. QED
    BY <1>1, <1>4, <2>1, <2>3, <2>4 DEF LinksOK
<1>10. OneHolder'
  BY <1>4 DEF OneHolder
<1>11. QED
  BY <1>3, <1>5, <1>6, <1>7, <1>8, <1>9, <1>10 DEF WalkInv

(* The board with the token leaves its access point or network and blocks. *)
LEMMA StationStep ==
  ASSUME TypeInv, WalkInv, NEW b \in Boards, Others(b), Woken(b) \/ HomeCall(b), BusyPhase(b)',
         UNCHANGED <<ID, parent_ID, wifi_ssid, todo>>, BecomeStation(b),
         NoRouting(b)', send_queue'[b] = send_queue[b]
  PROVE  WalkInv'
<1>1. /\ TokenQueued(b) /\ Holder(b) /\ ~ Waiting(b) /\ ~ BootPhase(b)
      /\ TokenQueued(b)' /\ ~ access_point'[b] /\ pc'[b] # "boot"
      /\ ~ TokenArrived(b)' /\ ~ AckDue(b)'
  BY DEF Woken, HomeCall, BusyPhase, ToSend, Holder, NoRecv, TokenArrived, HoldsToken, AckDue,
         NoAck, NoSend, Waiting, BootPhase, TokenQueued
<1>2. \A c \in Boards : Phase(c)'
  BY OthersPhases DEF Phase
<1>3. \A c \in Boards : Holder(c)' => c = b
  BY <1>1, OthersPhases, HolderAlone
<1>4. Started'
  <2>1. Started
    BY <1>1, HasStarted
  <2>2. QED
    BY <1>1, <2>1, OthersPhases, BootNumbers DEF Started
<1>5. IDsOK'
  <2>1. /\ IDsOK /\ \A c \in Boards : TokenQueued(c)' => TokenQueued(c)
        /\ \A c \in Boards : c # b => access_point'[c] = access_point[c]
    BY <1>1, OthersPhases DEF WalkInv
  <2>2. QED
    BY <1>1, <2>1, IDsKept DEF IDsOK
<1>6. NamesOK'
  <2>1. /\ NamesOK /\ \A c \in Boards : TokenQueued(c) => TokenQueued(c)'
        /\ \A c \in Boards : access_point'[c] => access_point[c]
    BY <1>1, OthersPhases DEF WalkInv
  <2>2. QED
    BY <2>1 DEF NamesOK
<1>7. NumbersOK'
  BY <1>1, NumbersKept
<1>8. \A c \in Boards : assoc'[c] = NONE
  <2>1. \A c \in Boards : assoc[c] # NONE => b \in {c, assoc[c]}
    BY <1>1 DEF WalkInv, LinksOK
  <2>2. QED
    BY <2>1 DEF BecomeStation
<1>9. LinksOK'
  BY <1>8 DEF LinksOK
<1>10. OneHolder'
  BY <1>3 DEF OneHolder
<1>11. QED
  BY <1>2, <1>4, <1>5, <1>6, <1>7, <1>9, <1>10 DEF WalkInv

(* A board is back in access point mode.                                   *)
LEMMA HostStep ==
  ASSUME TypeInv, WalkInv, NEW b \in Boards, Others(b), EndPhase(b), Waiting(b)' \/ StuckPhase(b)',
         BootAp(b), UNCHANGED <<ID, parent_ID, todo>>,
         NoRouting(b)', send_queue'[b] = send_queue[b]
  PROVE  WalkInv'
<1>1. /\ ~ access_point[b] /\ ~ Waiting(b) /\ ~ BootPhase(b) /\ pc'[b] # "boot"
      /\ ~ NoCall(b) /\ ID[b] # DEFAULT_ID
      /\ ~ TokenArrived(b)' /\ ~ AckDue(b)'
      /\ TokenQueued(b)' <=> TokenQueued(b)
  BY DEF EndPhase, StuckPhase, NoRecv, TokenArrived, TokenQueued, HoldsToken, AckDue,
         NoAck, NoCall, Waiting, BootPhase, WalkInv, IDsOK
<1>2. Count' = Count /\ \A a, c \in Boards : LinkOK(a, c)' <=> LinkOK(a, c)
  BY IDsSame
<1>3. \A c \in Boards : Phase(c)'
  BY OthersPhases DEF Phase
<1>4. \A c \in Boards : Holder(c)' => Holder(c)
  BY <1>1, OthersPhases DEF Holder
<1>5. Started'
  <2>1. Started
    BY <1>1, HasStarted
  <2>2. QED
    BY <1>1, <2>1, OthersPhases, BootNumbers DEF Started
<1>6. \A c \in Boards : /\ access_point'[c] = (c = b \/ access_point[c])
                        /\ assoc'[c] = IF c = b THEN NONE ELSE assoc[c]
                        /\ wifi_ssid'[c] = IF c = b THEN ID[b] ELSE wifi_ssid[c]
  BY DEF BootAp, TypeInv, PlainTypes
<1>7. IDsOK'
  <2>1. /\ IDsOK /\ \A c \in Boards : TokenQueued(c)' => TokenQueued(c)
    BY <1>1, OthersPhases DEF WalkInv
  <2>2. QED
    BY <1>6, <2>1, IDsKept DEF IDsOK
<1>8. NamesOK'
  <2>1. NamesOK /\ \A c \in Boards : TokenQueued(c) => TokenQueued(c)'
    BY <1>1, OthersPhases DEF WalkInv
  <2>2. ID[b] # PIDOG
    BY BootNumbers DEF TypeInv, PlainTypes
  <2>3. QED
    BY <1>1, <1>6, <2>1, <2>2 DEF NamesOK
<1>9. \A a \in Boards : assoc[a] # NONE /\ ~ Woken(assoc[a]) => a # b
  BY <1>1 DEF WalkInv, LinksOK
<1>10. NumbersOK'
  <2>1. NumbersOK
    BY DEF WalkInv
  <2>2. ASSUME NEW c \in Boards, TokenQueued(c)'
        PROVE  send_queue'[c].num = Count' /\ send_queue'[c].src = ID'[c]
               /\ send_queue'[c].acked = ""
    <3>1. TokenQueued(c) /\ send_queue'[c] = send_queue[c]
      BY <1>1, <2>2, OthersPhases
    <3>2. QED
      BY <1>2, <2>1, <3>1 DEF NumbersOK
  <2>3. ASSUME NEW c \in Boards, TokenArrived(c)'
        PROVE  /\ recv_data'[c].num = Count' /\ recv_data'[c].acked = ""
               /\ ID'[recv_data'[c].ip] = recv_data'[c].src
               /\ recv_data'[c].src # DEFAULT_ID
               /\ LinkOK(recv_data[c].ip, c)'
               /\ assoc'[recv_data'[c].ip] = c
    <3>1. TokenArrived(c) /\ recv_data'[c] = recv_data[c]
      BY <1>1, <2>3, OthersPhases
    <3>2. LinkOK(recv_data[c].ip, c)' <=> LinkOK(recv_data[c].ip, c)
      BY <3>1 DEF LinkOK
    <3>3. recv_data[c].ip \in Boards /\ assoc[recv_data[c].ip] = c /\ c # NONE
      <4>1. recv_data[c] \in PacketSet
        BY <3>1 DEF TypeInv, PlainTypes, TokenArrived, HoldsToken
      <4>2. assoc[recv_data[c].ip] = c
        BY <2>1, <3>1 DEF NumbersOK
      <4>3. QED
        BY <4>1, <4>2, NoneAssumption DEF PacketSet
    <3>4. ~ Woken(c)
      BY <3>1 DEF Woken, NoRecv, TokenArrived, HoldsToken
    <3>5. assoc'[recv_data[c].ip] = c
      BY <1>6, <1>9, <3>3, <3>4
    <3>6. QED
      BY <1>2, <2>1, <3>1, <3>2, <3>5, ZenonT(30) DEF NumbersOK
  <2>4. ASSUME NEW c \in Boards, AckDue(c)' PROVE assoc'[ack_queue'[c].ip] = c
    <3>1. AckDue(c) /\ ack_queue'[c] = ack_queue[c]
      BY <1>1, <2>4, OthersPhases
    <3>2. ack_queue[c].ip \in Boards /\ assoc[ack_queue[c].ip] = c /\ c # NONE
      <4>1. ack_queue[c] \in PacketSet
        BY <3>1 DEF TypeInv, PlainTypes, AckDue
      <4>2. assoc[ack_queue[c].ip] = c
        BY <2>1, <3>1 DEF NumbersOK
      <4>3. QED
        BY <4>1, <4>2, NoneAssumption DEF PacketSet
    <3>3. ~ Woken(c)
      BY <3>1 DEF Woken, AckDue, NoAck
    <3>4. QED
      BY <1>6, <1>9, <3>1, <3>2, <3>3
  <2>5. QED
    BY <2>2, <2>3, <2>4 DEF NumbersOK
<1>11. LinksOK'
  <2> SUFFICES ASSUME NEW a \in Boards, assoc'[a] # NONE
               PROVE  /\ ~ access_point'[a] /\ pc'[a] = "poll" /\ access_point'[assoc'[a]]
                      /\ Woken(assoc[a])' \/ (NoRecv(a)' /\ NoCall(a)')
                      /\ (todo # {} \/ TokenQueued(a))' => LinkOK(a, assoc[a])'
                      /\ \A h \in Boards : Holder(h)' => h \in {a, assoc'[a]}
                      /\ \A c \in Boards : assoc'[c] = assoc'[a] => c = a
    BY DEF LinksOK
  <2>1. a # b /\ assoc'[a] = assoc[a]
    BY <1>6
  <2>2. /\ ~ access_point[a] /\ pc[a] = "poll" /\ access_point[assoc[a]]
        /\ Woken(assoc[a]) \/ (NoRecv(a) /\ NoCall(a))
        /\ todo # {} \/ TokenQueued(a) => LinkOK(a, assoc[a])
        /\ \A h \in Boards : Holder(h) => h \in {a, assoc[a]}
        /\ \A c \in Boards : assoc[c] = assoc[a] => c = a
    BY <2>1 DEF WalkInv, LinksOK
  <2>3. assoc[a] \in Boards /\ assoc[a] # b
    BY <1>1, <2>1, <2>2 DEF TypeInv, PlainTypes
  <2>4. Woken(assoc[a])' <=> Woken(assoc[a])
    <3>1. PICK h \in Boards : h = assoc[a] /\ h = assoc'[a] /\ h # b
      BY <2>1, <2>3
    <3>2. Woken(h)' <=> Woken(h)
      BY <3>1, OthersPhases
    <3>3. (Woken(assoc[a])' <=> Woken(h)') /\ (Woken(assoc[a]) <=> Woken(h))
      BY <3>1 DEF Woken, ToSend, TokenQueued, NoRecv, NoAck
    <3>4. QED
      BY <3>2, <3>3
  <2>5. LinkOK(a, assoc[a])' <=> LinkOK(a, assoc[a])
    BY <1>2, <2>1, <2>3 DEF LinkOK
  <2>6. /\ ~ access_point'[a] /\ pc'[a] = "poll" /\ access_point'[assoc'[a]]
        /\ Woken(assoc[a])' \/ (NoRecv(a)' /\ NoCall(a)')
        /\ (todo # {} \/ TokenQueued(a))' => LinkOK(a, assoc[a])'
    BY <1>6, <2>1, <2>2, <2>3, <2>4, <2>5, OthersPhases
  <2>7. \A c \in Boards : assoc'[c] = assoc'[a] => c = a
    BY <1>6, <2>1, <2>2
  <2>8. QED
    BY <1>4, <2>1, <2>2, <2>6, <2>7
<1>12. OneHolder'
  BY <1>4 DEF WalkInv, OneHolder
<1>13. QED
  BY <1>3, <1>5, <1>7, <1>8, <1>10, <1>11, <1>12 DEF WalkInv

-----------------------------------------------------------------------------
(* Packets that are sent, and taken *)

LEMMA WithIp ==
  ASSUME NEW p \in PacketSet, NEW b \in Boards
  PROVE  /\ [p EXCEPT !.ip = b] \in PacketSet /\ [p EXCEPT !.ip = b].ip = b
         /\ [p EXCEPT !.ip = b].type = p.type /\ [p EXCEPT !.ip = b].num = p.num
         /\ [p EXCEPT !.ip = b].src = p.src /\ [p EXCEPT !.ip = b].acked = p.acked
BY DEF PacketSet

LEMMA TokenPacket ==
  ASSUME NEW p \in PacketSet, NEW n \in 0 .. MAX_NODES
  PROVE  /\ [p EXCEPT !.num = n] \in PacketSet /\ [p EXCEPT !.num = n].type = p.type
         /\ [p EXCEPT !.num = n].src = p.src /\ [p EXCEPT !.num = n].num = n
         /\ [p EXCEPT !.num = n].acked = p.acked
BY DEF PacketSet

LEMMA AckPacket ==
  ASSUME NEW p \in PacketSet, NEW i \in -1 .. MAX_NODES
  PROVE  LET q == [Packet("ack", p.src, i, p.ip) EXCEPT !.acked = p.type]
         IN  q \in PacketSet /\ q.type = "ack" /\ q.acked = p.type /\ q.ip = p.ip
<1> DEFINE r == Packet("ack", p.src, i, p.ip)
<1>1. p.src \in -3 .. MAX_NODES /\ p.ip \in Boards /\ p.type \in PacketType
  <2>1. p.src \in -1 .. MAX_NODES /\ p.ip \in Boards /\ p.type \in PacketType
    BY DEF PacketSet
  <2>2. QED
    BY <2>1, BootNumbers
<1>2. r \in PacketSet
  BY <1>1, NewPacket DEF PacketType
<1>3. r.type = "ack" /\ r.ip = p.ip
  BY DEF Packet
<1> HIDE DEF r
<1>4. LET q == [r EXCEPT !.acked = p.type]
      IN  q \in PacketSet /\ q.type = "ack" /\ q.acked = p.type /\ q.ip = p.ip
  BY <1>1, <1>2, <1>3 DEF PacketSet
<1>5. QED
  BY <1>4 DEF r

(* A packet that is sent arrives or does not.                              *)
Delivered(a, h, p) ==
  /\ h \in Boards /\ Linked(a, h) /\ UNCHANGED faults
  /\ recv_data' = [recv_data EXCEPT ![h] = p]
  /\ new_udp_recv_s' = [new_udp_recv_s EXCEPT ![h] = @ + 1]

NotDelivered(a, h) ==
  /\ UNCHANGED <<recv_data, new_udp_recv_s>>
  /\ \/ faults' # 0
     \/ ~ (h \in Boards /\ Linked(a, h)) /\ UNCHANGED faults

LEMMA Transmitted ==
  ASSUME TypeInv, NEW a \in Boards, NEW h, NEW p, Transmit(a, h, p),
         h \in Boards => p \in PacketSet
  PROVE  /\ recv_data' \in [Boards -> PacketSet \cup {NONE}]
         /\ new_udp_recv_s' \in [Boards -> Nat] /\ due' = due
         /\ faults' \in 0 .. MaxFaults
         /\ Delivered(a, h, p) \/ NotDelivered(a, h)
<1>1. /\ recv_data \in [Boards -> PacketSet \cup {NONE}]
      /\ new_udp_recv_s \in [Boards -> Nat] /\ faults \in 0 .. MaxFaults
  BY DEF TypeInv, PlainTypes
<1>2. CASE h \in Boards /\ Linked(a, h) /\ Callback(h, p) /\ UNCHANGED faults
  BY <1>1, <1>2 DEF Callback, Delivered
<1>3. CASE ~ (h \in Boards /\ Linked(a, h)) /\ UNCHANGED <<recvVars, faults>>
  BY <1>1, <1>3 DEF recvVars, NotDelivered
<1>4. CASE Fault /\ UNCHANGED recvVars
  BY <1>1, <1>4, BoardsAssumption DEF Fault, recvVars, NotDelivered
<1>5. QED
  BY <1>2, <1>3, <1>4 DEF Transmit

LEMMA SendPhase ==
  ASSUME TypeInv, WalkInv, NEW b \in Boards, Send(b)
  PROVE  /\ QueuedPhase(b) /\ TokenQueued(b) /\ Holder(b) /\ Started
         /\ send_queue[b] \in PacketSet /\ ID[b] # DEFAULT_ID
         /\ send_queue[b].num = Count /\ send_queue[b].src = ID[b]
         /\ send_queue[b].acked = ""
<1>1. Phase(b) /\ pc[b] = "poll" /\ signal_send_thread[b] /\ ~ signal_connect_thread[b]
      /\ ~ access_point[b]
  BY DEF WalkInv, Send, Turn
<1>2. QueuedPhase(b)
  BY <1>1 DEF Phase, Waiting, BootPhase, ArrivedPhase, AckDue, Woken, BusyPhase, HomeCall,
     QueuedPhase, AckedPhase, EndPhase, StuckPhase, NoSend
<1>3. TokenQueued(b) /\ Holder(b) /\ Started
  BY <1>1, <1>2, HasStarted DEF QueuedPhase, ToSend, Holder, Waiting, BootPhase, NoSend
<1>4. send_queue[b] \in PacketSet
  BY <1>3 DEF TypeInv, PlainTypes, TokenQueued, HoldsToken
<1>5. QED
  BY <1>1, <1>2, <1>3, <1>4 DEF WalkInv, IDsOK, NumbersOK

(* A station sends the token on.                                           *)
LEMMA WalkSend ==
  ASSUME TypeInv, WalkInv, NEW b \in Boards, Send(b)
  PROVE  /\ TypeInv' /\ WalkInv' /\ UNCHANGED <<ID, parent_ID, todo>>
         /\ QueuedPhase(b) /\ TokenQueued(b) /\ Waiting(b)'
         /\ UNCHANGED <<access_point, assoc, ID_is_nbr, knows_nbrs, nbrs>>
         /\ \/ \A c \in Boards : ~ Holder(c)'
            \/ /\ ID[b] # DEFAULT_ID
               /\ \E a \in Boards : /\ TokenArrived(a)' /\ recv_data'[a].src = ID[b]
                                    /\ assoc[b] = a
                                    /\ \A c \in Boards : c # a /\ c # b => Same(c)
<1> DEFINE q == [send_queue[b] EXCEPT !.ip = b]
<1>1. /\ QueuedPhase(b) /\ TokenQueued(b) /\ Holder(b) /\ Started /\ ID[b] # DEFAULT_ID
      /\ q \in PacketSet /\ q.ip = b /\ q.type = "token" /\ q.num = Count
      /\ q.src = ID[b] /\ q.acked = ""
  <2>1. send_queue[b] \in PacketSet
    BY SendPhase
  <2>2. /\ q \in PacketSet /\ q.ip = b /\ q.type = send_queue[b].type
        /\ q.num = send_queue[b].num /\ q.src = send_queue[b].src
        /\ q.acked = send_queue[b].acked
    BY <2>1, WithIp
  <2>3. QED
    BY <2>2, SendPhase DEF TokenQueued, HoldsToken
<1>2. /\ recv_data' \in [Boards -> PacketSet \cup {NONE}]
      /\ new_udp_recv_s' \in [Boards -> Nat] /\ due' = due
      /\ faults' \in 0 .. MaxFaults
      /\ Delivered(b, assoc[b], q) \/ NotDelivered(b, assoc[b])
  BY <1>1, Transmitted DEF Send
<1> HIDE DEF q
<1>3. UNCHANGED <<ID, parent_ID, wifi_ssid, knows_nbrs, ID_is_nbr, dist_vector, routing_table,
                  nbrs, access_point, assoc, phase, target_ID, signal_connect_thread,
                  next_dv_scan, pc, joining, pidogs_found, ack_queue, new_udp_ack_s,
                  ack_queue_empty, todo>>
  BY DEF Send, selfVars, radioVars, connectVars, ackVars
<1>4. /\ send_queue' = [send_queue EXCEPT ![b] = NONE]
      /\ signal_send_thread' = [signal_send_thread EXCEPT ![b] = FALSE]
  BY DEF Send, Dequeue
<1>5. TypeInv'
  BY <1>2, <1>3, <1>4 DEF TypeInv, PlainTypes
<1>6. /\ send_queue'[b] = NONE /\ ~ signal_send_thread'[b]
      /\ \A c \in Boards : c # b => /\ send_queue'[c] = send_queue[c]
                                    /\ signal_send_thread'[c] = signal_send_thread[c]
  BY <1>4 DEF TypeInv, PlainTypes
<1>7. CASE NotDelivered(b, assoc[b])
  <2>1. UNCHANGED <<recv_data, new_udp_recv_s>>
    BY <1>7 DEF NotDelivered
  <2>2. Waiting(b)' /\ NoRouting(b)'
    BY <1>1, <1>3, <1>6, <2>1
       DEF QueuedPhase, Waiting, NoSend, NoRecv, NoAck, NoCall, NoRouting, WalkInv, Phase
  <2>3. Others(b)
    BY <1>3, <1>6, <2>1 DEF Others, Same
  <2>4. Phase(b)' /\ pc'[b] = "poll" /\ ~ TokenArrived(b)' /\ ~ AckDue(b)' /\ ~ TokenQueued(b)'
        /\ NoRecv(b)' /\ NoCall(b)' /\ ~ access_point[b] /\ ~ Woken(b)
    BY <1>1, <2>2 DEF Phase, Waiting, NoRecv, NoSend, NoAck, TokenArrived, TokenQueued, HoldsToken,
       AckDue, QueuedPhase, Woken
  <2>5. WalkInv'
    BY <1>1, <1>3, <2>3, <2>4, LocalStep
  <2>6. \A c \in Boards : ~ Holder(c)'
    BY <1>1, <2>3, <2>4, OthersPhases, HolderAlone DEF Holder
  <2>7. QED
    BY <1>1, <1>3, <1>5, <2>2, <2>3, <2>5, <2>6
<1>8. ASSUME NEW a \in Boards, a = assoc[b], Delivered(b, a, q)
      PROVE  /\ WalkInv' /\ Waiting(b)' /\ TokenArrived(a)' /\ recv_data'[a].src = ID[b]
             /\ \A c \in Boards : c # a /\ c # b => Same(c)
  <2>1. /\ assoc[b] = a /\ assoc[b] # NONE /\ access_point[a] /\ ~ access_point[b] /\ a # b
        /\ LinkOK(b, a) /\ \A c \in Boards : assoc[c] = a => c = b
        /\ \A c \in Boards : assoc[c] # NONE => c = b
    <3>1. assoc[b] # NONE /\ ~ access_point[b]
      BY <1>1, <1>8, NoneAssumption DEF QueuedPhase
    <3>2. /\ access_point[a] /\ LinkOK(b, a) /\ \A c \in Boards : assoc[c] = a => c = b
          /\ \A c \in Boards : assoc[c] # NONE => b \in {c, assoc[c]} /\ access_point[assoc[c]]
      BY <1>1, <1>8, <3>1, ZenonT(30) DEF WalkInv, LinksOK
    <3>3. QED
      BY <1>8, <3>1, <3>2
  <2>2. Waiting(a) /\ NoRouting(a)
    <3>1. Phase(a) /\ ~ Holder(a)
      BY <1>1, <2>1, HolderAlone DEF WalkInv
    <3>2. QED
      BY <2>1, <3>1, PhaseFacts DEF Phase
  <2>3. /\ recv_data'[a] = q /\ new_udp_recv_s'[a] = new_udp_recv_s[a] + 1
        /\ \A c \in Boards : c # a => /\ recv_data'[c] = recv_data[c]
                                      /\ new_udp_recv_s'[c] = new_udp_recv_s[c]
    BY <1>8 DEF Delivered, TypeInv, PlainTypes
  <2>4. Waiting(b)' /\ NoRouting(b)'
    BY <1>1, <1>3, <1>6, <2>1, <2>3
       DEF QueuedPhase, Waiting, NoSend, NoRecv, NoAck, NoCall, NoRouting, WalkInv, Phase
  <2>5. q # NONE /\ new_udp_recv_s'[a] = 1
    <3>1. new_udp_recv_s[a] = 0
      BY <2>2 DEF Waiting, NoRecv
    <3>2. new_udp_recv_s'[a] = 1
      BY <2>3, <3>1
    <3>3. QED
      BY <1>1, <3>2, NoneAssumption
  <2>6. ArrivedPhase(a)' /\ NoRouting(a)' /\ TokenArrived(a)'
    BY <1>1, <1>3, <1>6, <2>1, <2>2, <2>3, <2>5
       DEF ArrivedPhase, Waiting, NoSend, NoAck, NoCall, NoRouting, TokenArrived, HoldsToken
  <2>7. \A c \in Boards : c # a /\ c # b => Same(c)
    BY <1>3, <1>6, <2>3 DEF Same
  <2>8. \A c \in Boards : c # a /\ c # b =>
          /\ Phase(c)' /\ ~ Holder(c)' /\ ~ TokenQueued(c)' /\ ~ TokenArrived(c)' /\ ~ AckDue(c)'
    <3> SUFFICES ASSUME NEW c \in Boards, c # a, c # b
                 PROVE  /\ Phase(c)' /\ ~ Holder(c)' /\ ~ TokenQueued(c)' /\ ~ TokenArrived(c)'
                        /\ ~ AckDue(c)'
      OBVIOUS
    <3>1. Same(c) /\ Phase(c)
      BY <2>7 DEF WalkInv
    <3>2. ~ Holder(c) /\ ~ TokenQueued(c) /\ ~ TokenArrived(c) /\ ~ AckDue(c)
      BY <1>1, HolderAlone
    <3>3. QED
      BY <3>1, <3>2, SamePhase
  <2>9. /\ ~ Holder(b)' /\ ~ TokenQueued(b)' /\ ~ TokenArrived(b)' /\ ~ AckDue(b)'
        /\ NoRecv(b)' /\ NoCall(b)' /\ pc'[b] = "poll"
        /\ ~ TokenQueued(a)' /\ ~ AckDue(a)' /\ pc'[a] = "poll"
    BY <2>4, <2>6 DEF Waiting, ArrivedPhase, NoSend, NoRecv, NoAck, Holder, TokenQueued, TokenArrived,
       HoldsToken, AckDue
  <2>10. Count' = Count /\ \A x, c \in Boards : LinkOK(x, c)' <=> LinkOK(x, c)
    BY <1>3, IDsSame
  <2>11. \A c \in Boards : Holder(c)' => c = a
    BY <2>8, <2>9
  <2>12. \A c \in Boards : Phase(c)'
    BY <2>4, <2>6, <2>8 DEF Phase
  <2>13. Started'
    BY <1>1, <1>3 DEF Started
  <2>14. IDsOK'
    <3>1. IDsOK /\ \A c \in Boards : ~ TokenQueued(c)'
      BY <2>8, <2>9 DEF WalkInv
    <3>2. QED
      BY <1>3, <3>1, IDsKept DEF IDsOK
  <2>15. NamesOK'
    <3>1. NamesOK /\ \A c \in Boards : access_point[c] => ~ TokenQueued(c)
      BY <1>1, <2>1, HolderAlone DEF WalkInv
    <3>2. QED
      BY <1>3, <3>1 DEF NamesOK
  <2>16. NumbersOK'
    <3>1. /\ recv_data'[a].num = Count' /\ recv_data'[a].acked = ""
          /\ recv_data'[a].ip = b
          /\ ID'[b] = recv_data'[a].src /\ recv_data'[a].src # DEFAULT_ID
          /\ assoc'[b] = a /\ LinkOK(b, a)'
      BY <1>1, <1>3, <2>1, <2>3, <2>10
    <3>2. LinkOK(recv_data[a].ip, a)'
      BY <3>1 DEF LinkOK
    <3>3. QED
      BY <2>8, <2>9, <3>1, <3>2 DEF NumbersOK
  <2>17. LinksOK'
    <3>1. todo' = {}
      BY <2>13 DEF Started
    <3>2. QED
      BY <1>3, <2>1, <2>9, <2>11, <3>1 DEF LinksOK
  <2>18. OneHolder'
    BY <2>11 DEF OneHolder
  <2>19. WalkInv'
    BY <2>12, <2>13, <2>14, <2>15, <2>16, <2>17, <2>18 DEF WalkInv
  <2>20. QED
    BY <1>1, <2>3, <2>4, <2>6, <2>7, <2>19
<1>9. CASE Delivered(b, assoc[b], q)
  <2>1. assoc[b] \in Boards
    BY <1>9 DEF Delivered
  <2>2. QED
    BY <1>1, <1>3, <1>5, <1>8, <1>9, <2>1
<1>10. QED
  BY <1>2, <1>7, <1>9

(* A packet that is taken is the only one, and makes room.                 *)
LEMMA TakenOne ==
  ASSUME TypeInv, WalkInv, NEW b \in Boards, NEW t, TakePacket(b, t)
  PROVE  /\ (t = "token" /\ ArrivedPhase(b)) \/ (t = "ack" /\ AckedPhase(b))
         /\ recv_data[b] \in PacketSet
         /\ recv_data' \in [Boards -> PacketSet \cup {NONE}]
         /\ new_udp_recv_s' \in [Boards -> Nat] /\ due' \in [Boards -> BOOLEAN]
         /\ recv_data'[b] = NONE /\ new_udp_recv_s'[b] = 0
         /\ \A c \in Boards : c # b => /\ recv_data'[c] = recv_data[c]
                                       /\ new_udp_recv_s'[c] = new_udp_recv_s[c]
         /\ UNCHANGED <<access_point, assoc, pc, joining, pidogs_found, todo, faults>>
<1>1. Phase(b) /\ new_udp_recv_s[b] > 0 /\ recv_data[b].type = t
  BY DEF WalkInv, TakePacket
<1>2. (t = "token" /\ ArrivedPhase(b)) \/ (t = "ack" /\ AckedPhase(b))
  <2>1. ArrivedPhase(b) \/ AckedPhase(b)
    BY <1>1 DEF Phase, Waiting, BootPhase, AckDue, Woken, BusyPhase, HomeCall, QueuedPhase,
       EndPhase, StuckPhase, NoRecv
  <2>2. /\ ArrivedPhase(b) => recv_data[b].type = "token"
        /\ AckedPhase(b) => recv_data[b].type = "ack"
    BY DEF ArrivedPhase, AckedPhase, TokenArrived, HoldsToken
  <2>3. QED
    BY <1>1, <2>1, <2>2
<1>3. recv_data[b] # NONE /\ new_udp_recv_s[b] = 1
  BY <1>2 DEF ArrivedPhase, AckedPhase, TokenArrived, HoldsToken
<1>4. /\ recv_data \in [Boards -> PacketSet \cup {NONE}]
      /\ new_udp_recv_s \in [Boards -> Nat] /\ due \in [Boards -> BOOLEAN]
  BY DEF TypeInv, PlainTypes
<1>5. /\ new_udp_recv_s' = [new_udp_recv_s EXCEPT ![b] = 0]
      /\ recv_data' = [recv_data EXCEPT ![b] = NONE]
      /\ due' = [due EXCEPT ![b] = FALSE]
      /\ UNCHANGED <<access_point, assoc, pc, joining, pidogs_found, todo, faults>>
  BY <1>3 DEF TakePacket, radioVars, envVars
<1>6. QED
  BY <1>2, <1>3, <1>4, <1>5

(* The ack of the token: back to access point mode                         *)
LEMMA WalkRecvAck ==
  ASSUME TypeInv, WalkInv, NEW b \in Boards, RecvAck(b)
  PROVE  /\ TypeInv' /\ WalkInv' /\ UNCHANGED <<ID, parent_ID, todo>>
         /\ Others(b) /\ AckedPhase(b) /\ EndPhase(b)'
         /\ UNCHANGED <<access_point, assoc, send_queue, faults, ID_is_nbr, knows_nbrs, nbrs>>
<1>1. /\ AckedPhase(b)
      /\ recv_data' \in [Boards -> PacketSet \cup {NONE}]
      /\ new_udp_recv_s' \in [Boards -> Nat] /\ due' \in [Boards -> BOOLEAN]
      /\ recv_data'[b] = NONE /\ new_udp_recv_s'[b] = 0
      /\ \A c \in Boards : c # b => /\ recv_data'[c] = recv_data[c]
                                    /\ new_udp_recv_s'[c] = new_udp_recv_s[c]
      /\ UNCHANGED <<access_point, assoc, pc, joining, pidogs_found, todo, faults>>
  BY TakenOne DEF RecvAck
<1>2. UNCHANGED <<ID, parent_ID, wifi_ssid, knows_nbrs, ID_is_nbr, dist_vector, routing_table,
                  nbrs, phase, next_dv_scan, signal_send_thread, send_queue, ack_queue,
                  new_udp_ack_s, ack_queue_empty>>
  BY DEF RecvAck, selfVars, sendVars, ackVars
<1>3. /\ target_ID' = [target_ID EXCEPT ![b] = ENABLE_AP]
      /\ signal_connect_thread' = [signal_connect_thread EXCEPT ![b] = TRUE]
  BY DEF RecvAck, Retarget
<1>4. TypeInv'
  BY <1>1, <1>2, <1>3 DEF TypeInv, PlainTypes
<1>5. /\ target_ID'[b] = ENABLE_AP /\ signal_connect_thread'[b]
      /\ \A c \in Boards : c # b => /\ target_ID'[c] = target_ID[c]
                                    /\ signal_connect_thread'[c] = signal_connect_thread[c]
  BY <1>3 DEF TypeInv, PlainTypes
<1>6. Others(b)
  BY <1>1, <1>2, <1>5 DEF Others, Same
<1>7. EndPhase(b)' /\ NoRouting(b)'
  BY <1>1, <1>2, <1>5
     DEF AckedPhase, EndPhase, NoSend, NoRecv, NoAck, NoRouting, WalkInv, Phase
<1>8. /\ Started /\ ~ TokenQueued(b)' /\ ~ TokenArrived(b)' /\ ~ AckDue(b)' /\ ~ Woken(b)
      /\ ~ access_point[b] /\ pc'[b] = "poll" /\ ~ NoRecv(b)
  <2>1. ~ Waiting(b) /\ ~ BootPhase(b) /\ ~ Woken(b) /\ ~ NoRecv(b) /\ ~ access_point[b]
    BY <1>1 DEF AckedPhase, Waiting, BootPhase, Woken, NoRecv
  <2>2. ~ TokenQueued(b)' /\ ~ TokenArrived(b)' /\ ~ AckDue(b)' /\ pc'[b] = "poll"
    BY <1>1, <1>2 DEF AckedPhase, NoSend, TokenQueued, TokenArrived, HoldsToken, AckDue, ToSend
  <2>3. QED
    BY <2>1, <2>2, HasStarted
<1>9. assoc[b] # NONE => Woken(assoc[b])
  BY <1>8 DEF WalkInv, LinksOK
<1>10. WalkInv'
  BY <1>1, <1>2, <1>6, <1>7, <1>8, <1>9, LocalStep DEF Phase
<1>11. QED
  BY <1>1, <1>2, <1>4, <1>6, <1>7, <1>10

(* The ack goes out: it is that of the token.                              *)
LEMMA AckPhase ==
  ASSUME TypeInv, WalkInv, NEW b \in Boards, Ack(b)
  PROVE  /\ AckDue(b) /\ TokenQueued(b) /\ Holder(b) /\ Started /\ NoRouting(b)
         /\ ack_queue[b] \in PacketSet /\ ack_queue[b].ip \in Boards
         /\ assoc[ack_queue[b].ip] = b /\ AckTo(b) = ack_queue[b].ip
         /\ new_udp_ack_s' = [new_udp_ack_s EXCEPT ![b] = 0]
<1>1. Phase(b) /\ new_udp_ack_s[b] > 0
  BY DEF WalkInv, Ack
<1>2. AckDue(b)
  BY <1>1 DEF Phase, Waiting, BootPhase, ArrivedPhase, Woken, BusyPhase, HomeCall, QueuedPhase,
     AckedPhase, EndPhase, StuckPhase, NoAck
<1>3. TokenQueued(b) /\ Holder(b) /\ Started
  BY <1>1, <1>2, HasStarted DEF AckDue, ToSend, Holder, Waiting, BootPhase, NoAck
<1>4. ack_queue[b] \in PacketSet
  BY <1>2 DEF TypeInv, PlainTypes, AckDue
<1>5. ack_queue[b].ip \in Boards
  BY <1>4 DEF PacketSet
<1>6. assoc[ack_queue[b].ip] = b
  BY <1>2 DEF WalkInv, NumbersOK
<1>7. new_udp_ack_s' = [new_udp_ack_s EXCEPT ![b] = 0]
  BY <1>2 DEF Ack, AckDue
<1>8. AckTo(b) = ack_queue[b].ip
  BY <1>2 DEF AckDue, AckTo
<1>9. QED
  BY <1>1, <1>2, <1>3, <1>4, <1>5, <1>6, <1>7, <1>8 DEF Phase

LEMMA WalkAck ==
  ASSUME TypeInv, WalkInv, NEW b \in Boards, Ack(b)
  PROVE  /\ TypeInv' /\ WalkInv' /\ UNCHANGED <<ID, parent_ID, todo>>
         /\ AckDue(b) /\ TokenQueued(b)' /\ Woken(b)'
         /\ UNCHANGED <<access_point, assoc, send_queue, ID_is_nbr, knows_nbrs, nbrs>>
         /\ \A c \in Boards : c # b => /\ TokenQueued(c)' <=> TokenQueued(c)
                                       /\ ~ TokenArrived(c)'
                                       /\ ~ Holder(c)'
         /\ \/ Others(b) /\ (faults' = 0 =>
                               ~ Linked(b, ack_queue[b].ip) /\ UNCHANGED faults)
            \/ /\ UNCHANGED faults
               /\ recv_data'[ack_queue[b].ip] # NONE
               /\ \A c \in Boards : c # b /\ c # ack_queue[b].ip => Same(c)
               /\ ack_queue[b].ip # b
<1> DEFINE q == [ack_queue[b] EXCEPT !.ip = b]
<1>0. PICK h \in Boards : h = ack_queue[b].ip /\ h = AckTo(b)
  BY AckPhase
<1>1. /\ AckDue(b) /\ TokenQueued(b) /\ Holder(b) /\ Started /\ NoRouting(b)
      /\ ack_queue[b] \in PacketSet /\ h \in Boards /\ assoc[h] = b
      /\ new_udp_ack_s' = [new_udp_ack_s EXCEPT ![b] = 0]
  BY <1>0, AckPhase
<1>2. q \in PacketSet /\ q.type = "ack" /\ q.acked = "token"
  BY <1>1, WithIp DEF AckDue
<1>3. /\ recv_data' \in [Boards -> PacketSet \cup {NONE}]
      /\ new_udp_recv_s' \in [Boards -> Nat] /\ due' = due
      /\ faults' \in 0 .. MaxFaults
      /\ Delivered(b, h, q) \/ NotDelivered(b, h)
  BY <1>0, <1>2, Transmitted DEF Ack
<1> HIDE DEF q
<1>4. UNCHANGED <<ID, parent_ID, wifi_ssid, knows_nbrs, ID_is_nbr, dist_vector, routing_table,
                  nbrs, access_point, assoc, phase, target_ID, signal_connect_thread,
                  next_dv_scan, pc, joining, pidogs_found, signal_send_thread, send_queue,
                  todo>>
  BY DEF Ack, selfVars, radioVars, connectVars, sendVars
<1>5. /\ ack_queue' = [ack_queue EXCEPT ![b] = NONE]
      /\ ack_queue_empty' = [ack_queue_empty EXCEPT ![b] = TRUE]
  BY DEF Ack
<1>6. TypeInv'
  BY <1>1, <1>3, <1>4, <1>5 DEF TypeInv, PlainTypes
<1>7. /\ ack_queue_empty'[b] /\ new_udp_ack_s'[b] = 0
      /\ \A c \in Boards : c # b => /\ ack_queue'[c] = ack_queue[c]
                                    /\ new_udp_ack_s'[c] = new_udp_ack_s[c]
                                    /\ ack_queue_empty'[c] = ack_queue_empty[c]
  BY <1>1, <1>5 DEF TypeInv, PlainTypes
<1>8. h # b /\ access_point[b] /\ ~ access_point[h] /\ assoc[h] # NONE /\ assoc[b] = NONE
  <2>1. access_point[b] /\ b # NONE
    BY <1>1, NoneAssumption DEF AckDue
  <2>2. ~ access_point[h] /\ (assoc[b] # NONE => ~ access_point[b])
    BY <1>1, <2>1 DEF WalkInv, LinksOK
  <2>3. QED
    BY <1>1, <2>1, <2>2
<1>9. ASSUME recv_data'[b] = recv_data[b], new_udp_recv_s'[b] = new_udp_recv_s[b]
      PROVE  Woken(b)' /\ TokenQueued(b)' /\ Phase(b)' /\ ~ TokenArrived(b)' /\ ~ AckDue(b)'
             /\ pc'[b] = "poll"
  <2>1. Woken(b)' /\ TokenQueued(b)'
    BY <1>1, <1>4, <1>7, <1>9 DEF AckDue, Woken, NoRecv, NoAck, ToSend, TokenQueued
  <2>2. NoRouting(b)'
    BY <1>1, <1>4 DEF NoRouting
  <2>3. QED
    BY <2>1, <2>2 DEF Phase, Woken, NoRecv, NoAck, TokenArrived, HoldsToken, AckDue
<1>10. CASE NotDelivered(b, h)
  <2>1. UNCHANGED <<recv_data, new_udp_recv_s>>
    BY <1>10 DEF NotDelivered
  <2>2. Others(b)
    BY <1>4, <1>7, <2>1 DEF Others, Same
  <2>3. WalkInv'
    BY <1>1, <1>4, <1>8, <1>9, <2>1, <2>2, LocalStep
  <2>4. \A c \in Boards : c # b => /\ TokenQueued(c)' <=> TokenQueued(c)
                                   /\ ~ TokenArrived(c)' /\ ~ Holder(c)'
    BY <1>1, <2>2, HolderAlone, OthersPhases
  <2>5. faults' = 0 => ~ Linked(b, h) /\ UNCHANGED faults
    BY <1>1, <1>10 DEF NotDelivered
  <2>6. QED
    BY <1>0, <1>1, <1>4, <1>6, <1>9, <2>1, <2>2, <2>3, <2>4, <2>5
<1>11. CASE Delivered(b, h, q)
  <2>1. /\ recv_data'[h] = q /\ new_udp_recv_s'[h] = new_udp_recv_s[h] + 1
        /\ \A c \in Boards : c # h => /\ recv_data'[c] = recv_data[c]
                                      /\ new_udp_recv_s'[c] = new_udp_recv_s[c]
        /\ UNCHANGED faults
    BY <1>1, <1>11 DEF Delivered, TypeInv, PlainTypes
  <2>2. Woken(b)' /\ TokenQueued(b)' /\ Phase(b)' /\ ~ TokenArrived(b)' /\ ~ AckDue(b)'
        /\ pc'[b] = "poll"
    BY <1>8, <1>9, <2>1
  <2>3. \A c \in Boards : c # b /\ c # h => Same(c)
    BY <1>4, <1>7, <2>1 DEF Same
  <2>4. /\ pc[h] = "poll" /\ \A c \in Boards : assoc[c] # NONE => c = h
        /\ Waiting(h) /\ NoRouting(h) /\ ~ Holder(h)
    <3>1. ~ Woken(b)
      BY <1>1 DEF AckDue, Woken, NoAck
    <3>2. /\ pc[h] = "poll" /\ NoRecv(h) /\ NoCall(h)
          /\ \A c \in Boards : assoc[c] = b => c = h
      BY <1>1, <1>8, <3>1 DEF WalkInv, LinksOK
    <3>3. Phase(h) /\ ~ Holder(h)
      BY <1>1, <1>8, HolderAlone DEF WalkInv
    <3>4. \A c \in Boards : assoc[c] # NONE => c = b \/ assoc[c] = b
      BY <1>1 DEF WalkInv, LinksOK
    <3>5. QED
      BY <1>8, <3>2, <3>3, <3>4, PhaseFacts DEF Phase
  <2>5. q # NONE /\ new_udp_recv_s'[h] = 1
    <3>1. new_udp_recv_s[h] = 0
      BY <2>4 DEF Waiting, NoRecv
    <3>2. new_udp_recv_s'[h] = 1
      BY <2>1, <3>1
    <3>3. QED
      BY <1>2, <3>2, NoneAssumption
  <2>6. AckedPhase(h)' /\ NoRouting(h)'
    BY <1>2, <1>4, <1>7, <1>8, <2>1, <2>4, <2>5
       DEF AckedPhase, Waiting, NoSend, NoAck, NoCall, NoRouting
  <2>7. /\ ~ TokenQueued(h)' /\ ~ TokenArrived(h)' /\ ~ Holder(h)' /\ ~ AckDue(h)'
        /\ recv_data'[h] # NONE /\ ~ TokenQueued(h)
    BY <1>2, <2>1, <2>4, <2>5, <2>6
       DEF AckedPhase, NoSend, Holder, TokenQueued, TokenArrived, HoldsToken, AckDue
  <2>8. \A c \in Boards : c # b /\ c # h =>
          /\ Phase(c)' /\ ~ Holder(c)' /\ ~ TokenQueued(c)' /\ ~ TokenArrived(c)' /\ ~ AckDue(c)'
          /\ ~ TokenQueued(c)
    <3> SUFFICES ASSUME NEW c \in Boards, c # b, c # h
                 PROVE  /\ Phase(c)' /\ ~ Holder(c)' /\ ~ TokenQueued(c)' /\ ~ TokenArrived(c)'
                        /\ ~ AckDue(c)' /\ ~ TokenQueued(c)
      OBVIOUS
    <3>1. Same(c) /\ Phase(c)
      BY <2>3 DEF WalkInv
    <3>2. ~ Holder(c) /\ ~ TokenQueued(c) /\ ~ TokenArrived(c) /\ ~ AckDue(c)
      BY <1>1, HolderAlone
    <3>3. QED
      BY <3>1, <3>2, SamePhase
  <2>9. Count' = Count /\ \A x, c \in Boards : LinkOK(x, c)' <=> LinkOK(x, c)
    BY <1>4, IDsSame
  <2>10. \A c \in Boards : Holder(c)' => c = b
    BY <2>7, <2>8
  <2>11. \A c \in Boards : Phase(c)'
    BY <2>2, <2>6, <2>8 DEF Phase
  <2>12. Started'
    BY <1>1, <1>4 DEF Started
  <2>13. IDsOK'
    <3>1. IDsOK /\ \A c \in Boards : TokenQueued(c)' => TokenQueued(c)
      BY <1>1, <2>7, <2>8 DEF WalkInv
    <3>2. QED
      BY <1>4, <3>1, IDsKept DEF IDsOK
  <2>14. NamesOK'
    <3>1. NamesOK /\ \A c \in Boards : TokenQueued(c) => TokenQueued(c)'
      BY <2>2, <2>7, <2>8 DEF WalkInv
    <3>2. QED
      BY <1>4, <3>1 DEF NamesOK
  <2>15. NumbersOK'
    <3>1. send_queue'[b].num = Count' /\ send_queue'[b].src = ID'[b] /\ send_queue'[b].acked = ""
      BY <1>1, <1>4, <2>9 DEF WalkInv, NumbersOK
    <3>2. QED
      BY <2>2, <2>7, <2>8, <3>1 DEF NumbersOK
  <2>16. LinksOK'
    <3>1. todo' = {} /\ ~ TokenQueued(h)'
      BY <2>7, <2>12 DEF Started
    <3>2. \A c \in Boards : assoc'[c] # NONE => c = h /\ assoc'[c] = b
      BY <1>1, <1>4, <2>4
    <3>3. Woken(assoc[h])'
      BY <1>1, <1>4, <2>2 DEF Woken, ToSend, TokenQueued, NoRecv, NoAck
    <3>4. QED
      BY <1>4, <1>8, <1>1, <2>4, <2>10, <3>1, <3>2, <3>3 DEF LinksOK
  <2>17. OneHolder'
    BY <2>10 DEF OneHolder
  <2>18. WalkInv'
    BY <2>11, <2>12, <2>13, <2>14, <2>15, <2>16, <2>17 DEF WalkInv
  <2>19. /\ UNCHANGED faults /\ recv_data'[h] # NONE /\ h # b
         /\ \A c \in Boards : c # b /\ c # h => Same(c)
    BY <1>8, <2>1, <2>3, <2>7
  <2>20. \A c \in Boards : c # b => /\ TokenQueued(c)' <=> TokenQueued(c)
                                    /\ ~ TokenArrived(c)' /\ ~ Holder(c)'
    BY <2>7, <2>8
  <2>21. QED
    BY <1>0, <1>1, <1>4, <1>6, <2>2, <2>18, <2>19, <2>20
<1>12. QED
  BY <1>3, <1>10, <1>11

(* The board that gets the token takes its number, or has an ID, and is    *)
(* woken to scan.                                                          *)
LEMMA WalkRecvToken ==
  ASSUME TypeInv, WalkInv, NEW b \in Boards, RecvToken(b)
  PROVE  /\ TypeInv' /\ WalkInv' /\ todo' = todo
         /\ TokenArrived(b) /\ TokenQueued(b)' /\ AckDue(b)' /\ Others(b)
         /\ \A c \in Boards : c # b => ~ Holder(c) /\ ~ Holder(c)'
         /\ UNCHANGED <<access_point, assoc, faults, ID_is_nbr, knows_nbrs, nbrs>>
         /\ \/ /\ ID[b] = DEFAULT_ID
               /\ ID' = [ID EXCEPT ![b] = Count]
               /\ parent_ID' = [parent_ID EXCEPT ![b] = recv_data[b].src]
               /\ Count' = Count + 1
            \/ ID[b] # DEFAULT_ID /\ UNCHANGED <<ID, parent_ID>>
<1> DEFINE p == recv_data[b]
           new == ID[b] = DEFAULT_ID
           id == IF new THEN p.num ELSE ID[b]
           n == NextNumber(new, p.num)
           ack == [Packet("ack", p.src, ID[b], p.ip) EXCEPT !.acked = p.type]
           tok == [Packet("token", target_ID[b], id, b) EXCEPT !.num = n]
<1>1. /\ ArrivedPhase(b) /\ p \in PacketSet
      /\ recv_data' \in [Boards -> PacketSet \cup {NONE}]
      /\ new_udp_recv_s' \in [Boards -> Nat] /\ due' \in [Boards -> BOOLEAN]
      /\ recv_data'[b] = NONE /\ new_udp_recv_s'[b] = 0
      /\ \A c \in Boards : c # b => /\ recv_data'[c] = recv_data[c]
                                    /\ new_udp_recv_s'[c] = new_udp_recv_s[c]
      /\ UNCHANGED <<access_point, assoc, pc, joining, pidogs_found, todo, faults>>
  BY TakenOne DEF RecvToken
<1>2. /\ TokenArrived(b) /\ Holder(b) /\ Started /\ access_point[b] /\ ~ TokenQueued(b)
      /\ pc[b] = "poll" /\ p.type = "token"
      /\ new_udp_ack_s[b] = 0
  <2>1. TokenArrived(b) /\ access_point[b] /\ pc[b] = "poll" /\ new_udp_ack_s[b] = 0
        /\ ~ TokenQueued(b) /\ ~ Waiting(b) /\ ~ BootPhase(b)
    BY <1>1 DEF ArrivedPhase, NoAck, NoSend, TokenQueued, HoldsToken, Waiting, BootPhase, NoRecv
  <2>2. QED
    BY <2>1, HasStarted DEF Holder, TokenArrived, HoldsToken
<1>3. PICK a \in Boards : a = p.ip
  BY <1>1 DEF PacketSet
<1>4. /\ p.num = Count /\ ID[a] = p.src /\ p.src # DEFAULT_ID /\ LinkOK(a, b) /\ assoc[a] = b
  <2>1. /\ p.num = Count /\ ID[p.ip] = p.src /\ p.src # DEFAULT_ID /\ LinkOK(p.ip, b)
        /\ assoc[p.ip] = b
    BY <1>2 DEF WalkInv, NumbersOK
  <2>2. QED
    BY <1>3, <2>1 DEF LinkOK
<1>5. Count \in Nat /\ Count <= MAX_NODES /\ (new => Count < MAX_NODES)
  BY CountIsSmall
<1>6. /\ id \in IDs /\ n \in 0 .. MAX_NODES /\ n = IF new THEN Count + 1 ELSE Count
      /\ ID[b] \in -1 .. MAX_NODES /\ id \in -1 .. MAX_NODES /\ id # DEFAULT_ID
      /\ target_ID[b] \in -3 .. MAX_NODES
  <2>1. ID[b] \in IDs \cup {DEFAULT_ID} /\ target_ID[b] \in {DV_SCAN, NF_SCAN, ENABLE_AP} \cup IDs
    BY DEF TypeInv, PlainTypes
  <2>2. n = IF new THEN Count + 1 ELSE Count
    BY <1>4 DEF NextNumber
  <2>3. id = IF new THEN Count ELSE ID[b]
    BY <1>4
  <2> HIDE DEF n, id
  <2>4. QED
    BY <1>5, <2>1, <2>2, <2>3, BootNumbers
<1>7. ack \in PacketSet /\ ack.type = "ack" /\ ack.acked = "token" /\ ack.ip = a
  BY <1>1, <1>2, <1>3, <1>6, AckPacket
<1>8. tok \in PacketSet /\ tok.type = "token" /\ tok.src = id /\ tok.num = n /\ tok.acked = ""
  <2> DEFINE q == Packet("token", target_ID[b], id, b)
  <2>1. q.type = "token" /\ q.src = id /\ q.acked = ""
    BY DEF Packet
  <2> HIDE DEF id, n, new, p, ack
  <2>2. "token" \in PacketType
    BY DEF PacketType
  <2>3. q \in PacketSet /\ n \in 0 .. MAX_NODES
    BY <1>6, <2>2, NewPacket
  <2> HIDE DEF q
  <2>4. /\ [q EXCEPT !.num = n] \in PacketSet /\ [q EXCEPT !.num = n].type = "token"
        /\ [q EXCEPT !.num = n].src = id /\ [q EXCEPT !.num = n].num = n
        /\ [q EXCEPT !.num = n].acked = ""
    BY <2>1, <2>3, TokenPacket
  <2>5. tok = [q EXCEPT !.num = n]
    BY Zenon DEF q
  <2> HIDE DEF tok
  <2>6. QED
    BY <2>4, <2>5
<1>9. /\ ack_queue' = [ack_queue EXCEPT ![b] = ack]
      /\ new_udp_ack_s' = [new_udp_ack_s EXCEPT ![b] = @ + 1]
      /\ ack_queue_empty' = [ack_queue_empty EXCEPT ![b] = FALSE]
      /\ phase' = [phase EXCEPT ![b] = "nb_finding"]
      /\ ID' = [ID EXCEPT ![b] = id]
      /\ parent_ID' = [parent_ID EXCEPT ![b] = IF new THEN p.src ELSE @]
      /\ send_queue' = [send_queue EXCEPT ![b] = tok]
      /\ signal_send_thread' = [signal_send_thread EXCEPT ![b] = TRUE]
      /\ target_ID' = [target_ID EXCEPT ![b] = NF_SCAN]
      /\ signal_connect_thread' = [signal_connect_thread EXCEPT ![b] = TRUE]
      /\ UNCHANGED <<wifi_ssid, knows_nbrs, ID_is_nbr, dist_vector, routing_table, nbrs,
                     next_dv_scan>>
  BY DEF RecvToken, QueueAck, Enqueue, Retarget
<1>10. p.src = ID[a] /\ ID[a] \in IDs \cup {DEFAULT_ID}
  BY <1>4 DEF TypeInv, PlainTypes
<1> HIDE DEF p, new, id, n, ack, tok
<1>11. TypeInv'
  <2>1. /\ ack_queue' \in [Boards -> PacketSet \cup {NONE}]
        /\ new_udp_ack_s' \in [Boards -> Nat]
        /\ ack_queue_empty' \in [Boards -> BOOLEAN]
        /\ send_queue' \in [Boards -> PacketSet \cup {NONE}]
        /\ signal_send_thread' \in [Boards -> BOOLEAN]
    <3>1. /\ ack_queue \in [Boards -> PacketSet \cup {NONE}]
          /\ new_udp_ack_s \in [Boards -> Nat]
          /\ ack_queue_empty \in [Boards -> BOOLEAN]
          /\ send_queue \in [Boards -> PacketSet \cup {NONE}]
          /\ signal_send_thread \in [Boards -> BOOLEAN]
      BY DEF TypeInv, PlainTypes
    <3>2. /\ ack_queue' = [ack_queue EXCEPT ![b] = ack]
          /\ new_udp_ack_s' = [new_udp_ack_s EXCEPT ![b] = @ + 1]
          /\ ack_queue_empty' = [ack_queue_empty EXCEPT ![b] = FALSE]
          /\ send_queue' = [send_queue EXCEPT ![b] = tok]
          /\ signal_send_thread' = [signal_send_thread EXCEPT ![b] = TRUE]
      BY <1>9
    <3>3. ack \in PacketSet /\ tok \in PacketSet
      BY <1>7, <1>8
    <3>4. QED
      BY <3>1, <3>2, <3>3
  <2>2. /\ phase' \in [Boards -> {"nothing", "nb_finding", "dv_routing"}]
        /\ ID' \in [Boards -> IDs \cup {DEFAULT_ID}]
        /\ parent_ID' \in [Boards -> IDs \cup {DEFAULT_ID}]
        /\ target_ID' \in [Boards -> {DV_SCAN, NF_SCAN, ENABLE_AP} \cup IDs]
        /\ signal_connect_thread' \in [Boards -> BOOLEAN]
    BY <1>6, <1>9, <1>10 DEF TypeInv, PlainTypes
  <2>3. QED
    BY <1>1, <1>9, <2>1, <2>2 DEF TypeInv, PlainTypes
<1>12. /\ ack_queue'[b] = ack /\ new_udp_ack_s'[b] = 1 /\ ~ ack_queue_empty'[b]
       /\ phase'[b] = "nb_finding" /\ ID'[b] = id
       /\ parent_ID'[b] = (IF new THEN p.src ELSE parent_ID[b])
       /\ send_queue'[b] = tok /\ signal_send_thread'[b]
       /\ target_ID'[b] = NF_SCAN /\ signal_connect_thread'[b]
  BY <1>2, <1>9 DEF TypeInv, PlainTypes
<1>13. Others(b) /\ \A c \in Boards : c # b => ID'[c] = ID[c] /\ parent_ID'[c] = parent_ID[c]
  BY <1>1, <1>9 DEF Others, Same, TypeInv, PlainTypes
<1>14. TokenQueued(b)' /\ ~ TokenArrived(b)' /\ Holder(b)'
  BY <1>1, <1>8, <1>12, NoneAssumption DEF TokenQueued, TokenArrived, HoldsToken, Holder
<1>15. AckDue(b)' /\ NoRouting(b)'
  <2>1. ack # NONE
    BY <1>7, NoneAssumption
  <2>2. next_dv_scan'[b] = "never"
    BY <1>9 DEF WalkInv, Phase, NoRouting
  <2>3. QED
    BY <1>1, <1>2, <1>7, <1>12, <1>14, <2>1, <2>2 DEF AckDue, NoRouting, ToSend, NoRecv
<1>16. \A c \in Boards : c # b => /\ ~ Holder(c) /\ ~ Holder(c)' /\ ~ TokenQueued(c)'
                                  /\ ~ TokenArrived(c)' /\ ~ AckDue(c)'
  <2> SUFFICES ASSUME NEW c \in Boards, c # b
               PROVE  /\ ~ Holder(c) /\ ~ Holder(c)' /\ ~ TokenQueued(c)'
                      /\ ~ TokenArrived(c)' /\ ~ AckDue(c)'
    OBVIOUS
  <2>1. ~ Holder(c) /\ ~ TokenQueued(c) /\ ~ TokenArrived(c) /\ ~ AckDue(c)
    BY <1>2, HolderAlone
  <2>2. QED
    BY <1>13, <2>1, OthersPhases
<1>17. \/ /\ new /\ ID[b] = DEFAULT_ID /\ id = Count
          /\ ID' = [ID EXCEPT ![b] = Count]
          /\ parent_ID' = [parent_ID EXCEPT ![b] = recv_data[b].src]
          /\ Count' = Count + 1 /\ b # 0 /\ b \in InRange[a]
       \/ /\ ~ new /\ ID[b] # DEFAULT_ID /\ UNCHANGED <<ID, parent_ID>>
          /\ Count' = Count /\ id = ID[b]
  <2>1. CASE new
    <3>1. ID[b] = DEFAULT_ID /\ id = Count
      BY <1>4, <2>1 DEF new, id
    <3>2. ID' = [ID EXCEPT ![b] = Count] /\ Count \in IDs
      BY <1>5, <1>9, <2>1, <3>1, BootNumbers
    <3>3. Count' = Count + 1
      BY <3>1, <3>2, CountGrows DEF TypeInv
    <3>4. b # 0
      BY <3>1, BootNumbers DEF WalkInv, IDsOK
    <3>5. b \in InRange[a]
      BY <1>4, <3>1 DEF LinkOK
    <3>6. parent_ID' = [parent_ID EXCEPT ![b] = recv_data[b].src]
      BY <1>9, <2>1 DEF p
    <3>7. QED
      BY <2>1, <3>1, <3>2, <3>3, <3>4, <3>5, <3>6
  <2>2. CASE ~ new
    <3>1. ID[b] # DEFAULT_ID /\ id = ID[b]
      BY <2>2 DEF new, id
    <3>2. UNCHANGED <<ID, parent_ID>>
      BY <1>9, <2>2, <3>1 DEF TypeInv, PlainTypes
    <3>3. QED
      BY <2>2, <3>1, <3>2, IDsSame
  <2>3. QED
    BY <2>1, <2>2
<1>18. IDsOK'
  <2>1. /\ ID[0] = 0
        /\ \A x, y \in Boards : ID[x] = ID[y] /\ ID[x] # DEFAULT_ID => x = y
        /\ \A x \in Boards : ID[x] < Count
        /\ \A x \in Boards : ~ access_point[x] \/ TokenQueued(x) => ID[x] # DEFAULT_ID
        /\ \A x \in Boards : ID[x] # DEFAULT_ID /\ x # 0 =>
             \E y \in Boards : /\ x \in InRange[y]
                               /\ ID[y] # DEFAULT_ID /\ ID[y] = parent_ID[x]
    BY DEF WalkInv, IDsOK
  <2>2. \A x \in Boards : ID[x] \in IDs \cup {DEFAULT_ID}
    BY DEF TypeInv, PlainTypes
  <2>3. ID'[0] = 0
    BY <1>12, <1>13, <1>17, <2>1, BootNumbers
  <2>4. \A x, y \in Boards : ID'[x] = ID'[y] /\ ID'[x] # DEFAULT_ID => x = y
    <3>1. \A x \in Boards : x # b => ID'[x] # ID'[b]
      <4> SUFFICES ASSUME NEW x \in Boards, x # b PROVE ID'[x] # ID'[b]
        OBVIOUS
      <4>1. CASE new
        BY <1>5, <1>12, <1>13, <1>17, <2>1, <2>2, <4>1, BootNumbers
      <4>2. CASE ~ new
        BY <1>12, <1>13, <1>17, <2>1, <4>2
      <4>3. QED
        BY <4>1, <4>2
    <3>2. QED
      BY <1>13, <2>1, <3>1
  <2>5. \A x \in Boards : ID'[x] < Count'
    <3> SUFFICES ASSUME NEW x \in Boards PROVE ID'[x] < Count'
      OBVIOUS
    <3>1. CASE new
      BY <1>5, <1>12, <1>13, <1>17, <2>1, <2>2, <3>1, BootNumbers
    <3>2. CASE ~ new
      BY <1>17, <2>1, <3>2
    <3>3. QED
      BY <3>1, <3>2
  <2>6. \A x \in Boards : ~ access_point'[x] \/ TokenQueued(x)' => ID'[x] # DEFAULT_ID
    BY <1>1, <1>2, <1>6, <1>12, <1>13, <1>16, <2>1
  <2>7. ASSUME NEW x \in Boards, ID'[x] # DEFAULT_ID, x # 0
        PROVE  \E y \in Boards : /\ x \in InRange[y]
                                 /\ ID'[y] # DEFAULT_ID /\ ID'[y] = parent_ID'[x]
    <3>1. CASE x = b /\ new
      <4>1. a # b /\ ID'[a] = p.src /\ parent_ID'[x] = p.src
        BY <1>4, <1>12, <1>13, <1>17, <3>1
      <4>2. QED
        BY <1>4, <1>17, <3>1, <4>1
    <3>2. CASE ~ (x = b /\ new)
      <4>1. ID[x] # DEFAULT_ID /\ parent_ID'[x] = parent_ID[x]
        BY <1>12, <1>13, <1>17, <2>7, <3>2
      <4>2. PICK y \in Boards : x \in InRange[y] /\ ID[y] # DEFAULT_ID /\ ID[y] = parent_ID[x]
        BY <2>1, <2>7, <4>1
      <4>3. ID'[y] = ID[y]
        BY <1>12, <1>13, <1>17, <4>2
      <4>4. QED
        BY <4>1, <4>2, <4>3
    <3>3. QED
      BY <3>1, <3>2
  <2>8. QED
    BY <2>3, <2>4, <2>5, <2>6, <2>7 DEF IDsOK
<1>19. NamesOK'
  <2>1. NamesOK
    BY DEF WalkInv
  <2>2. wifi_ssid'[b] = PIDOG \/ (wifi_ssid'[b] = ID'[b] /\ ID'[b] # DEFAULT_ID)
    BY <1>9, <1>12, <1>17, <2>1 DEF NamesOK
  <2>3. \A c \in Boards : c # b => ~ TokenQueued(c)
    BY <1>16 DEF Holder
  <2>4. QED
    BY <1>1, <1>9, <1>13, <1>14, <2>1, <2>2, <2>3 DEF NamesOK
<1>20. NumbersOK'
  <2>1. send_queue'[b].num = Count' /\ send_queue'[b].src = ID'[b] /\ send_queue'[b].acked = ""
    BY <1>6, <1>8, <1>12, <1>17
  <2>2. assoc'[ack_queue'[b].ip] = b
    BY <1>1, <1>4, <1>7, <1>12
  <2>3. QED
    BY <1>14, <1>16, <2>1, <2>2 DEF NumbersOK
<1>21. LinksOK'
  <2> SUFFICES ASSUME NEW x \in Boards, assoc'[x] # NONE
               PROVE  /\ ~ access_point'[x] /\ pc'[x] = "poll" /\ access_point'[assoc'[x]]
                      /\ NoRecv(x)' /\ NoCall(x)'
                      /\ ~ (todo # {} \/ TokenQueued(x))'
                      /\ \A h \in Boards : Holder(h)' => h \in {x, assoc'[x]}
                      /\ \A c \in Boards : assoc'[c] = assoc'[x] => c = x
    BY DEF LinksOK
  <2>1. /\ ~ access_point[x] /\ pc[x] = "poll" /\ access_point[assoc[x]]
        /\ Woken(assoc[x]) \/ (NoRecv(x) /\ NoCall(x))
        /\ b \in {x, assoc[x]}
        /\ \A c \in Boards : assoc[c] = assoc[x] => c = x
    BY <1>1, <1>2 DEF WalkInv, LinksOK
  <2>2. x # b /\ assoc[x] = b /\ ~ Woken(b)
    BY <1>2, <2>1 DEF Woken, ToSend
  <2>3. NoRecv(x)' /\ NoCall(x)'
    BY <1>13, <2>1, <2>2, OthersPhases
  <2>4. todo' = {} /\ ~ TokenQueued(x)'
    BY <1>1, <1>2, <1>16, <2>2 DEF Started
  <2>5. QED
    BY <1>1, <1>16, <2>1, <2>2, <2>3, <2>4
<1>22. WalkInv'
  <2>1. \A c \in Boards : Phase(c)'
    BY <1>13, <1>15, OthersPhases DEF Phase
  <2>2. Started'
    BY <1>1, <1>2 DEF Started
  <2>3. OneHolder'
    BY <1>16 DEF OneHolder
  <2>4. QED
    BY <1>18, <1>19, <1>20, <1>21, <2>1, <2>2, <2>3 DEF WalkInv
<1>23. QED
  BY <1>1, <1>2, <1>9, <1>11, <1>13, <1>14, <1>15, <1>16, <1>17, <1>22

(* The token is typed at the master, which waits.                          *)
LEMMA WalkSerial ==
  ASSUME TypeInv, WalkInv, NEW b \in Boards, NEW c \in Commands, Serial(b, c)
  PROVE  /\ TypeInv' /\ WalkInv' /\ UNCHANGED <<ID, parent_ID>>
         /\ todo \cap TokenCommands # {} /\ todo' = {}
         /\ \A d \in Boards : ~ Holder(d)
         /\ \A d \in Boards : ~ access_point'[d] => d = 0
         /\ TokenQueued(0)' /\ ~ TokenArrived(0)' /\ Count' = 1
         /\ UNCHANGED <<access_point, assoc, faults, ID_is_nbr, knows_nbrs, nbrs>>
<1> DEFINE tok == [Packet("token", target_ID[b], ID[b], b) EXCEPT !.num = 1]
<1>1. /\ c \in todo /\ c \in TokenCommands /\ c.kind = "token" /\ b = 0 /\ todo' = {}
  <2>1. todo \subseteq TokenCommands /\ c \in todo /\ c.board = b /\ todo' = todo \ {c}
    BY DEF TypeInv, Serial, TypedLine
  <2>2. \A d \in todo : d = c
    BY <2>1, TokenAssumption
  <2>3. QED
    BY <2>1, <2>2, TokenAssumption DEF TokenCommands
<1>2. /\ send_queue' = [send_queue EXCEPT ![b] = tok]
      /\ signal_send_thread' = [signal_send_thread EXCEPT ![b] = TRUE]
      /\ UNCHANGED <<target_ID, signal_connect_thread, next_dv_scan>>
  BY <1>1 DEF Serial, Enqueue
<1>3. UNCHANGED <<ID, parent_ID, wifi_ssid, knows_nbrs, ID_is_nbr, dist_vector, routing_table,
                  nbrs, access_point, assoc, phase, pc, joining, pidogs_found, recv_data,
                  new_udp_recv_s, due,
                  ack_queue, new_udp_ack_s, ack_queue_empty, faults>>
  BY DEF Serial, selfVars, radioVars, recvVars, ackVars
<1>4. /\ Fresh /\ ID[0] = 0 /\ 0 \in Boards /\ pc[0] = "poll"
      /\ \A d \in Boards : d # 0 => ID[d] = DEFAULT_ID
      /\ \A d \in Boards : access_point[d] <=> d # 0
      /\ \A d \in Boards : ~ Holder(d) /\ ~ TokenQueued(d) /\ ~ TokenArrived(d) /\ ~ AckDue(d)
      /\ Waiting(0)
  <2>1. Fresh /\ ID[0] = 0 /\ 0 \in Boards /\ pc[0] = "poll"
    BY <1>1, BootNumbers DEF WalkInv, Started, IDsOK, Serial, Turn
  <2>2. \A d \in Boards : ~ TokenQueued(d) /\ ~ TokenArrived(d) /\ ~ AckDue(d)
    BY <2>1 DEF Fresh, Waiting, BootPhase, NoSend, NoRecv, NoAck, TokenQueued, TokenArrived,
       HoldsToken, AckDue
  <2>3. Waiting(0)
    BY <2>1 DEF Fresh, BootPhase
  <2>4. QED
    BY <2>1, <2>2, <2>3 DEF Fresh, Holder
<1>5. tok \in PacketSet /\ tok.type = "token" /\ tok.src = 0 /\ tok.num = 1 /\ tok.acked = ""
  <2> DEFINE q == Packet("token", target_ID[b], ID[b], b)
  <2>1. q.type = "token" /\ q.src = 0 /\ q.acked = ""
    BY <1>1, <1>4 DEF Packet
  <2>2. /\ "token" \in PacketType /\ target_ID[b] \in -3 .. MAX_NODES
        /\ ID[b] \in -1 .. MAX_NODES /\ 1 \in 0 .. MAX_NODES
    <3>1. "token" \in PacketType
      BY DEF PacketType
    <3>2. target_ID[b] \in {DV_SCAN, NF_SCAN, ENABLE_AP} \cup IDs
      BY DEF TypeInv, PlainTypes
    <3>3. QED
      BY <1>1, <1>4, <3>1, <3>2, BootNumbers
  <2>3. q \in PacketSet
    BY <2>2, NewPacket
  <2> HIDE DEF q
  <2>4. /\ [q EXCEPT !.num = 1] \in PacketSet /\ [q EXCEPT !.num = 1].type = "token"
        /\ [q EXCEPT !.num = 1].src = 0 /\ [q EXCEPT !.num = 1].num = 1
        /\ [q EXCEPT !.num = 1].acked = ""
    BY <2>1, <2>2, <2>3, TokenPacket
  <2>5. tok = [q EXCEPT !.num = 1]
    BY Zenon DEF q
  <2> HIDE DEF tok
  <2>6. QED
    BY <2>4, <2>5
<1> HIDE DEF tok
<1>6. TypeInv'
  BY <1>1, <1>2, <1>3, <1>5 DEF TypeInv, PlainTypes
<1>7. /\ send_queue'[0] = tok /\ signal_send_thread'[0]
      /\ \A d \in Boards : d # 0 => /\ send_queue'[d] = send_queue[d]
                                    /\ signal_send_thread'[d] = signal_send_thread[d]
  BY <1>1, <1>2 DEF TypeInv, PlainTypes
<1>8. Others(0)
  BY <1>2, <1>3, <1>7 DEF Others, Same
<1>9. tok # NONE
  BY <1>5, NoneAssumption
<1>10. QueuedPhase(0)' /\ NoRouting(0)' /\ TokenQueued(0)' /\ ~ TokenArrived(0)' /\ ~ AckDue(0)'
  <2>1. TokenQueued(0)'
    BY <1>5, <1>7, <1>9 DEF TokenQueued, HoldsToken
  <2>2. QueuedPhase(0)'
    BY <1>2, <1>3, <1>4, <1>7, <2>1 DEF Waiting, QueuedPhase, ToSend, NoRecv, NoAck, NoCall
  <2>3. NoRouting(0)'
    BY <1>2, <1>3, <1>4 DEF NoRouting, WalkInv, Phase
  <2>4. QED
    BY <2>1, <2>2, <2>3 DEF QueuedPhase, NoRecv, NoAck, TokenArrived, HoldsToken, AckDue
<1>11. \A d \in Boards : d # 0 =>
          /\ Phase(d)' /\ ~ Holder(d)' /\ ~ TokenQueued(d)' /\ ~ TokenArrived(d)' /\ ~ AckDue(d)'
  BY <1>4, <1>8, OthersPhases
<1>12. Count' = 1 /\ Count = 1
  <2>1. WithID = {0}
    <3>1. \A d \in Boards : ID[d] # DEFAULT_ID <=> d = 0
      BY <1>4, BootNumbers
    <3>2. QED
      BY <1>4, <3>1 DEF WithID
  <2>2. Count = 1
    BY <2>1, FS_Singleton DEF Count
  <2>3. QED
    BY <1>3, <2>2, IDsSame
<1>13. IDsOK'
  <2>1. /\ IDsOK /\ \A d \in Boards : ~ access_point'[d] \/ TokenQueued(d)' => d = 0
        /\ ID[0] # DEFAULT_ID
    BY <1>3, <1>4, <1>11, BootNumbers DEF WalkInv
  <2>2. QED
    BY <1>3, <2>1, IDsKept
<1>14. NamesOK'
  BY <1>3, <1>4 DEF WalkInv, NamesOK
<1>15. NumbersOK'
  BY <1>3, <1>4, <1>5, <1>7, <1>10, <1>11, <1>12, ZenonT(30) DEF NumbersOK
<1>16. LinksOK'
  <2> SUFFICES ASSUME NEW a \in Boards, assoc'[a] # NONE
               PROVE  /\ ~ access_point'[a] /\ pc'[a] = "poll" /\ access_point'[assoc'[a]]
                      /\ NoRecv(a)' /\ NoCall(a)'
                      /\ LinkOK(a, assoc[a])'
                      /\ \A h \in Boards : Holder(h)' => h \in {a, assoc'[a]}
                      /\ \A d \in Boards : assoc'[d] = assoc'[a] => d = a
    BY DEF LinksOK
  <2>1. /\ ~ access_point[a] /\ pc[a] = "poll" /\ access_point[assoc[a]]
        /\ Woken(assoc[a]) \/ (NoRecv(a) /\ NoCall(a))
        /\ LinkOK(a, assoc[a])
        /\ \A d \in Boards : assoc[d] = assoc[a] => d = a
    BY <1>1, <1>3 DEF WalkInv, LinksOK
  <2>2. a = 0 /\ NoRecv(a) /\ NoCall(a)
    BY <1>4, <2>1 DEF Waiting
  <2>3. LinkOK(a, assoc[a])'
    BY <1>3, <2>1 DEF LinkOK
  <2>4. NoRecv(a)' /\ NoCall(a)'
    BY <1>2, <1>3, <2>2 DEF NoRecv, NoCall
  <2>5. QED
    BY <1>3, <1>11, <2>1, <2>2, <2>3, <2>4
<1>17. WalkInv'
  <2>1. \A d \in Boards : Phase(d)'
    BY <1>10, <1>11 DEF Phase
  <2>2. Started'
    BY <1>1, <1>3, <1>4 DEF Started
  <2>3. OneHolder'
    BY <1>11 DEF OneHolder
  <2>4. QED
    BY <1>13, <1>14, <1>15, <1>16, <2>1, <2>2, <2>3 DEF WalkInv
<1>18. QED
  BY <1>1, <1>3, <1>4, <1>6, <1>10, <1>12, <1>17

-----------------------------------------------------------------------------
(* The connect thread *)

(* What wakes it: the token, the parent's call, or the end; never a scan   *)
(* for vectors.                                                            *)
LEMMA WakePhase ==
  ASSUME TypeInv, WalkInv, NEW b \in Boards, NEW t, Wake(b, t)
  PROVE  /\ Started /\ NoRouting(b)
         /\ \/ t = NF_SCAN /\ Woken(b)
            \/ t \in IDs /\ t = parent_ID[b] /\ HomeCall(b)
            \/ t = ENABLE_AP /\ EndPhase(b)
<1>1. Phase(b) /\ NoRouting(b) /\ ack_queue_empty[b] /\ Turn(b)
  BY DEF WalkInv, Wake, Phase
<1>2. signal_connect_thread[b] /\ t = target_ID[b]
  BY <1>1 DEF Wake, Expired, NoRouting
<1>3. Woken(b) \/ HomeCall(b) \/ EndPhase(b)
  BY <1>1, <1>2 DEF Phase, Waiting, BootPhase, ArrivedPhase, AckDue, BusyPhase, QueuedPhase,
     AckedPhase, StuckPhase, NoCall
<1>4. Started
  BY <1>2, HasStarted DEF Waiting, BootPhase, NoCall
<1>5. HomeCall(b) => t \in IDs /\ t = parent_ID[b]
  BY <1>2 DEF HomeCall, TypeInv, PlainTypes
<1>6. (Woken(b) => t = NF_SCAN) /\ (EndPhase(b) => t = ENABLE_AP)
  BY <1>2 DEF Woken, EndPhase
<1>7. QED
  BY <1>1, <1>3, <1>4, <1>5, <1>6

LEMMA NoVectorScan ==
  ASSUME TypeInv, WalkInv, NEW b \in Boards
  PROVE  ~ Wake(b, DV_SCAN)
<1>1. DV_SCAN # NF_SCAN /\ DV_SCAN # ENABLE_AP /\ DV_SCAN \notin IDs
  BY BootNumbers
<1>2. QED
  BY <1>1, WakePhase

(* The end of its pass *)
LEMMA PassEnds ==
  ASSUME TypeInv, WalkInv, NEW b \in Boards, EndPass(b, phase[b])
  PROVE  /\ pc' \in [Boards -> {"boot", "poll", "dv_scan", "nf_scan", "nf_join", "join"}]
         /\ phase' \in [Boards -> {"nothing", "nb_finding", "dv_routing"}]
         /\ due' \in [Boards -> BOOLEAN]
         /\ pc'[b] = "poll" /\ phase'[b] # "dv_routing"
         /\ \A c \in Boards : c # b => pc'[c] = pc[c] /\ phase'[c] = phase[c]
         /\ UNCHANGED <<recv_data, new_udp_recv_s, ack_queue, new_udp_ack_s, ack_queue_empty,
                        todo>>
<1>1. /\ pc \in [Boards -> {"boot", "poll", "dv_scan", "nf_scan", "nf_join", "join"}]
      /\ phase \in [Boards -> {"nothing", "nb_finding", "dv_routing"}]
      /\ due \in [Boards -> BOOLEAN] /\ phase[b] # "dv_routing"
  BY DEF TypeInv, PlainTypes, WalkInv, Phase, NoRouting
<1>2. PICK p \in {"nothing", "nb_finding"} : phase' = [phase EXCEPT ![b] = p]
  BY <1>1 DEF EndPass
<1>3. PICK d \in BOOLEAN : due' = [due EXCEPT ![b] = d]
  <2> DEFINE d == new_udp_recv_s[b] > 0
  <2>1. d \in BOOLEAN
    OBVIOUS
  <2>2. due' = [due EXCEPT ![b] = d]
    BY Zenon DEF EndPass
  <2> HIDE DEF d
  <2>3. QED
    BY <2>1, <2>2
<1>4. /\ pc' = [pc EXCEPT ![b] = "poll"]
      /\ UNCHANGED <<recv_data, new_udp_recv_s, ack_queue, new_udp_ack_s, ack_queue_empty, todo>>
  BY DEF EndPass, ackVars
<1>5. due' \in [Boards -> BOOLEAN]
  BY <1>1, <1>3
<1>6. QED
  BY <1>1, <1>2, <1>4, <1>5

(* Back to access point mode                                               *)
LEMMA WalkEnableAp ==
  ASSUME TypeInv, WalkInv, NEW b \in Boards, EnableAp(b)
  PROVE  /\ TypeInv' /\ WalkInv' /\ UNCHANGED <<ID, parent_ID, todo>>
         /\ Others(b) /\ EndPhase(b) /\ access_point'[b]
         /\ UNCHANGED <<faults, ID_is_nbr, knows_nbrs, nbrs, send_queue, recv_data>>
         /\ \A c \in Boards : c # b => assoc'[c] = assoc[c]
<1>1. EndPhase(b) /\ ~ access_point[b] /\ NoRouting(b)
  <2>1. ENABLE_AP # NF_SCAN /\ ENABLE_AP \notin IDs
    BY BootNumbers
  <2>2. EndPhase(b) /\ NoRouting(b)
    BY <2>1, WakePhase DEF EnableAp
  <2>3. QED
    BY <2>2 DEF EndPhase
<1>2. /\ pc' \in [Boards -> {"boot", "poll", "dv_scan", "nf_scan", "nf_join", "join"}]
      /\ phase' \in [Boards -> {"nothing", "nb_finding", "dv_routing"}]
      /\ due' \in [Boards -> BOOLEAN]
      /\ pc'[b] = "poll" /\ phase'[b] # "dv_routing"
      /\ \A c \in Boards : c # b => pc'[c] = pc[c] /\ phase'[c] = phase[c]
      /\ UNCHANGED <<recv_data, new_udp_recv_s, ack_queue, new_udp_ack_s, ack_queue_empty, todo>>
  BY PassEnds DEF EnableAp
<1>3. /\ BootAp(b)
      /\ signal_connect_thread' = [signal_connect_thread EXCEPT ![b] = FALSE]
      /\ UNCHANGED <<ID, parent_ID, knows_nbrs, ID_is_nbr, dist_vector, routing_table, nbrs,
                     target_ID, next_dv_scan, joining, pidogs_found, signal_send_thread,
                     send_queue, faults>>
  BY <1>1 DEF EnableAp, sendVars
<1>4. /\ access_point' = [access_point EXCEPT ![b] = TRUE]
      /\ assoc' = [assoc EXCEPT ![b] = NONE]
      /\ wifi_ssid' = [wifi_ssid EXCEPT ![b] = ID[b]]
  BY <1>3 DEF BootAp
<1>5. TypeInv'
  BY <1>2, <1>3, <1>4 DEF TypeInv, PlainTypes
<1>6. /\ ~ signal_connect_thread'[b] /\ access_point'[b]
      /\ \A c \in Boards : c # b =>
           /\ signal_connect_thread'[c] = signal_connect_thread[c]
           /\ access_point'[c] = access_point[c] /\ assoc'[c] = assoc[c]
  BY <1>3, <1>4 DEF TypeInv, PlainTypes
<1>7. Others(b)
  BY <1>2, <1>3, <1>6 DEF Others, Same
<1>8. NoRouting(b)' /\ (Waiting(b)' \/ StuckPhase(b)')
  BY <1>1, <1>2, <1>3, <1>6
     DEF EndPhase, Waiting, StuckPhase, NoSend, ToSend, TokenQueued, NoRecv, NoAck, NoCall, NoRouting
<1>9. WalkInv'
  BY <1>1, <1>2, <1>3, <1>7, <1>8, HostStep
<1>10. QED
  BY <1>1, <1>2, <1>3, <1>5, <1>6, <1>7, <1>9

(* Station mode: the scan for neighbors, or the join of the parent         *)
LEMMA WalkBlock ==
  ASSUME TypeInv, WalkInv, NEW b \in Boards, StartNfScan(b) \/ StartJoin(b)
  PROVE  /\ TypeInv' /\ WalkInv' /\ UNCHANGED <<ID, parent_ID, todo>>
         /\ Others(b) /\ TokenQueued(b) /\ TokenQueued(b)'
         /\ Woken(b) \/ HomeCall(b)
         /\ UNCHANGED <<faults, ID_is_nbr, knows_nbrs, nbrs, send_queue, recv_data>>
<1>1. PICK t \in {DV_SCAN, NF_SCAN, ENABLE_AP} \cup IDs,
           where \in {"nf_scan", "join"} :
        /\ Wake(b, t) /\ BecomeStation(b)
        /\ target_ID' = [target_ID EXCEPT ![b] = t]
        /\ signal_connect_thread' = [signal_connect_thread EXCEPT ![b] = FALSE]
        /\ pc' = [pc EXCEPT ![b] = where]
        /\ where = "nf_scan" => t = NF_SCAN
        /\ where = "join" => t \in IDs
        /\ UNCHANGED <<ID, parent_ID, wifi_ssid, knows_nbrs, ID_is_nbr, dist_vector,
                       routing_table, nbrs, phase, next_dv_scan, joining, pidogs_found,
                       signal_send_thread,
                       send_queue, recv_data, new_udp_recv_s, due, ack_queue, new_udp_ack_s,
                       ack_queue_empty, todo, faults>>
  <2>1. CASE StartNfScan(b)
    BY <2>1 DEF StartNfScan, Block, selfVars, sendVars, recvVars, ackVars, envVars
  <2>2. CASE StartJoin(b)
    BY <2>2 DEF StartJoin, Block, selfVars, sendVars, recvVars, ackVars, envVars
  <2>3. QED
    BY <2>1, <2>2
<1>2. /\ NoRouting(b)
      /\ \/ where = "nf_scan" /\ Woken(b)
         \/ where = "join" /\ t = parent_ID[b] /\ HomeCall(b)
  <2>1. NF_SCAN # ENABLE_AP /\ NF_SCAN \notin IDs /\ ENABLE_AP \notin IDs
    BY BootNumbers
  <2>2. QED
    BY <1>1, <2>1, WakePhase
<1>3. Woken(b) \/ HomeCall(b)
  BY <1>2
<1>4. /\ access_point' = [access_point EXCEPT ![b] = FALSE]
      /\ assoc' = [a \in Boards |-> IF a = b \/ assoc[a] = b THEN NONE ELSE assoc[a]]
  BY <1>1 DEF BecomeStation
<1>5. TypeInv'
  BY <1>1, <1>4 DEF TypeInv, PlainTypes
<1>6. /\ ~ signal_connect_thread'[b] /\ ~ access_point'[b] /\ pc'[b] = where
      /\ target_ID'[b] = t
      /\ \A c \in Boards : c # b =>
           /\ signal_connect_thread'[c] = signal_connect_thread[c]
           /\ access_point'[c] = access_point[c] /\ pc'[c] = pc[c]
           /\ target_ID'[c] = target_ID[c]
  BY <1>1, <1>4 DEF TypeInv, PlainTypes
<1>7. Others(b)
  BY <1>1, <1>6 DEF Others, Same
<1>8. ToSend(b) /\ NoRecv(b) /\ NoAck(b) /\ (where = "join" => b # 0)
  BY <1>2 DEF Woken, HomeCall
<1>9. ToSend(b)' /\ NoRecv(b)' /\ NoAck(b)' /\ NoCall(b)' /\ NoRouting(b)'
  BY <1>1, <1>2, <1>6, <1>8 DEF ToSend, TokenQueued, NoRecv, NoAck, NoCall, NoRouting
<1>10. BusyPhase(b)'
  BY <1>1, <1>2, <1>6, <1>8, <1>9 DEF BusyPhase
<1>11. WalkInv'
  BY <1>1, <1>3, <1>7, <1>9, <1>10, StationStep
<1>12. QED
  BY <1>1, <1>3, <1>5, <1>7, <1>8, <1>9, <1>11 DEF ToSend

(* A board that scans or joins has the token in its queue, and nobody is   *)
(* linked.                                                                 *)
LEMMA BusyFacts ==
  ASSUME TypeInv, WalkInv, NEW b \in Boards, pc[b] \in {"nf_scan", "nf_join", "join"}
  PROVE  /\ BusyPhase(b) /\ NoRouting(b) /\ Started
         /\ TokenQueued(b) /\ Holder(b) /\ ~ access_point[b]
         /\ \A a \in Boards : assoc[a] = NONE
<1>1. BusyPhase(b) /\ NoRouting(b)
  BY DEF WalkInv, Phase, Waiting, BootPhase, ArrivedPhase, AckDue, Woken, HomeCall, QueuedPhase,
     AckedPhase, EndPhase, StuckPhase
<1>2. TokenQueued(b) /\ Holder(b) /\ ~ access_point[b] /\ ~ Waiting(b) /\ ~ BootPhase(b)
  BY <1>1 DEF BusyPhase, ToSend, Holder, Waiting, BootPhase
<1>3. Started
  BY <1>2, HasStarted
<1>4. QED
  BY <1>1, <1>2, <1>3, NoLinks

LEMMA NoBusyVectorScan ==
  ASSUME WalkInv, NEW b \in Boards
  PROVE  pc[b] # "dv_scan"
BY DEF WalkInv, Phase, Waiting, BootPhase, ArrivedPhase, AckDue, Woken, BusyPhase, HomeCall,
   QueuedPhase, AckedPhase, EndPhase, StuckPhase

(* Who hosts under an ID has it.                                           *)
LEMMA SeenIDs ==
  ASSUME TypeInv, WalkInv, NEW b \in Boards
  PROVE  /\ PicoIDs(b) \subseteq IDs
         /\ \A id \in PicoIDs(b) : \E a \in InRange[b] : a \in Boards /\ ID[a] = id
<1> SUFFICES ASSUME NEW id \in PicoIDs(b)
             PROVE  id \in IDs /\ \E a \in InRange[b] : a \in Boards /\ ID[a] = id
  OBVIOUS
<1>1. PICK a \in InRange[b] : wifi_ssid[a] = id /\ id # PIDOG
  BY DEF PicoIDs, Visible
<1>2. a \in Boards
  BY BoardsAssumption
<1>3. ID[a] = id /\ ID[a] # DEFAULT_ID
  BY <1>1, <1>2 DEF WalkInv, NamesOK
<1>4. QED
  BY <1>1, <1>2, <1>3 DEF TypeInv, PlainTypes

LEMMA AwaitTypes ==
  ASSUME TypeInv, NEW b \in Boards, AwaitAps(b)
  PROVE  faults' \in 0 .. MaxFaults /\ (faults' = faults \/ faults' = faults + 1)
<1>1. faults' = faults \/ (faults < MaxFaults /\ faults' = faults + 1)
  BY DEF AwaitAps, Fault
<1>2. QED
  BY <1>1, BoardsAssumption DEF TypeInv, PlainTypes

LEMMA JoinFailTypes ==
  ASSUME TypeInv, NEW b \in Boards, NEW N, JoinFails(b, N)
  PROVE  /\ faults' \in 0 .. MaxFaults /\ UNCHANGED radioVars
         /\ (faults' = faults /\ N = {}) \/ faults' = faults + 1
<1>1. /\ UNCHANGED radioVars
      /\ (faults' = faults /\ N = {}) \/ (faults < MaxFaults /\ faults' = faults + 1)
  BY DEF JoinFails, Fault
<1>2. QED
  BY <1>1, BoardsAssumption DEF TypeInv, PlainTypes

(* A board joins the network it has seen, or that of nobody.               *)
LEMMA WalkBeginNfJoin ==
  ASSUME TypeInv, WalkInv, NEW b \in Boards, pc[b] = "nf_scan",
         NEW a \in Boards \cup {NONE}, BeginNfJoin(b, a), faults' \in 0 .. MaxFaults,
         ID_is_nbr' \in [Boards -> SUBSET IDs], pidogs_found' \in [Boards -> BOOLEAN]
  PROVE  /\ TypeInv' /\ WalkInv' /\ UNCHANGED <<ID, parent_ID, todo>>
         /\ Others(b) /\ TokenQueued(b) /\ TokenQueued(b)' /\ BusyPhase(b)
         /\ UNCHANGED <<knows_nbrs, nbrs, send_queue, recv_data, access_point, assoc>>
<1>1. BusyPhase(b) /\ NoRouting(b) /\ Started /\ TokenQueued(b)
  BY BusyFacts
<1>2. /\ pc' = [pc EXCEPT ![b] = "nf_join"] /\ joining' = [joining EXCEPT ![b] = a]
      /\ UNCHANGED <<ID, parent_ID, wifi_ssid, knows_nbrs, dist_vector, routing_table, nbrs,
                     access_point, assoc, phase, target_ID, signal_connect_thread, next_dv_scan,
                     signal_send_thread, send_queue, recv_data, new_udp_recv_s, due,
                     ack_queue, new_udp_ack_s, ack_queue_empty, todo>>
  BY DEF BeginNfJoin, radioVars, sendVars, recvVars, ackVars
<1>3. TypeInv'
  BY <1>2 DEF TypeInv, PlainTypes
<1>4. pc'[b] = "nf_join" /\ \A c \in Boards : c # b => pc'[c] = pc[c]
  BY <1>2 DEF TypeInv, PlainTypes
<1>5. Others(b)
  BY <1>2, <1>4 DEF Others, Same
<1>6. BusyPhase(b)' /\ NoRouting(b)' /\ TokenQueued(b)'
  BY <1>1, <1>2, <1>4 DEF BusyPhase, ToSend, TokenQueued, NoRecv, NoAck, NoCall, NoRouting
<1>7. ~ TokenArrived(b)' /\ ~ AckDue(b)' /\ ~ Woken(b) /\ ~ access_point[b] /\ assoc[b] = NONE
  BY <1>1, <1>6, BusyFacts DEF BusyPhase, NoRecv, TokenArrived, HoldsToken, AckDue, Woken
<1>8. WalkInv'
  BY <1>1, <1>2, <1>4, <1>5, <1>6, <1>7, LocalStep DEF Phase
<1>9. QED
  BY <1>1, <1>2, <1>3, <1>5, <1>6, <1>8

(* A board without ID is seen, and joined next.                            *)
LEMMA WalkNfScanFound ==
  ASSUME TypeInv, WalkInv, NEW b \in Boards, NEW a \in Boards, NfScanFound(b, a)
  PROVE  /\ TypeInv' /\ WalkInv' /\ UNCHANGED <<ID, parent_ID, todo>>
         /\ Others(b) /\ TokenQueued(b) /\ TokenQueued(b)' /\ BusyPhase(b)
         /\ UNCHANGED <<knows_nbrs, nbrs, send_queue, recv_data, access_point, assoc>>
<1>1. pc[b] = "nf_scan" /\ BeginNfJoin(b, a) /\ faults' \in 0 .. MaxFaults
  BY AwaitTypes DEF NfScanFound
<1>2. ID_is_nbr' \in [Boards -> SUBSET IDs]
  <2>1. PicoIDs(b) \subseteq IDs
    BY SeenIDs
  <2>2. QED
    BY <2>1 DEF NfScanFound, TypeInv, PlainTypes
<1>3. pidogs_found' \in [Boards -> BOOLEAN]
  BY DEF NfScanFound, TypeInv, PlainTypes
<1>4. QED
  BY <1>1, <1>2, <1>3, WalkBeginNfJoin

(* The master is the board with ID 0, and any other with an ID a board     *)
(* with a parent.                                                          *)
LEMMA MasterHasZero ==
  ASSUME TypeInv, WalkInv, NEW b \in Boards, ID[b] # DEFAULT_ID
  PROVE  /\ ID[b] = MASTER_ID <=> b = 0
         /\ b # 0 => parent_ID[b] \in IDs /\ parent_ID[b] # DEFAULT_ID
<1>1. /\ ID[0] = 0 /\ \A a, c \in Boards : ID[a] = ID[c] /\ ID[a] # DEFAULT_ID => a = c
      /\ b # 0 => \E a \in Boards : ID[a] # DEFAULT_ID /\ ID[a] = parent_ID[b]
  BY DEF WalkInv, IDsOK
<1>2. ID[b] = MASTER_ID <=> b = 0
  BY <1>1, BootNumbers
<1>3. b # 0 => parent_ID[b] # DEFAULT_ID /\ parent_ID[b] \in IDs
  BY <1>1 DEF TypeInv, PlainTypes
<1>4. QED
  BY <1>2, <1>3

(* The token goes home, or the walk is over.                               *)
LEMMA WalkNobodyLeft ==
  ASSUME TypeInv, WalkInv, NEW b \in Boards, pc[b] = "nf_scan",
         NEW found \in SUBSET IDs, NobodyLeft(b, found), faults' \in 0 .. MaxFaults,
         pidogs_found' \in [Boards -> BOOLEAN]
  PROVE  /\ TypeInv' /\ WalkInv' /\ UNCHANGED <<ID, parent_ID, todo>>
         /\ Others(b) /\ TokenQueued(b) /\ BusyPhase(b) /\ Holder(b)
         /\ TokenQueued(b)' \/ (~ TokenQueued(b)' /\ EndPhase(b)')
         /\ ~ TokenArrived(b)'
         /\ UNCHANGED <<recv_data, access_point, assoc>>
<1>1. /\ pc[b] = "nf_scan" /\ BusyPhase(b) /\ NoRouting(b) /\ Started /\ TokenQueued(b)
      /\ Holder(b) /\ ID[b] # DEFAULT_ID
  <2>1. /\ pc[b] = "nf_scan" /\ BusyPhase(b) /\ NoRouting(b) /\ Started /\ TokenQueued(b)
        /\ Holder(b)
    BY BusyFacts
  <2>2. QED
    BY <2>1 DEF WalkInv, IDsOK
<1> DEFINE t == TokenTarget(b)
<1>2. /\ ID_is_nbr' = [ID_is_nbr EXCEPT ![b] = found]
      /\ knows_nbrs' = [knows_nbrs EXCEPT ![b] = TRUE]
      /\ target_ID' = [target_ID EXCEPT ![b] = t]
      /\ signal_connect_thread' = [signal_connect_thread EXCEPT ![b] = TRUE]
      /\ UNCHANGED <<ID, parent_ID, wifi_ssid, access_point, assoc, next_dv_scan, joining>>
  BY DEF NobodyLeft, Retarget, radioVars
<1>3. /\ dist_vector' = dist_vector
            \/ dist_vector' = [dist_vector EXCEPT ![b] = InitVector(dist_vector[b], ID[b], found)]
      /\ routing_table' = routing_table
            \/ routing_table' = [routing_table EXCEPT ![b] = InitTable(routing_table[b], found)]
  BY DEF NobodyLeft
<1>4. /\ pc' \in [Boards -> {"boot", "poll", "dv_scan", "nf_scan", "nf_join", "join"}]
      /\ phase' \in [Boards -> {"nothing", "nb_finding", "dv_routing"}]
      /\ due' \in [Boards -> BOOLEAN]
      /\ pc'[b] = "poll" /\ phase'[b] # "dv_routing"
      /\ \A c \in Boards : c # b => pc'[c] = pc[c] /\ phase'[c] = phase[c]
      /\ UNCHANGED <<recv_data, new_udp_recv_s, ack_queue, new_udp_ack_s, ack_queue_empty, todo>>
  BY PassEnds DEF NobodyLeft
<1>5. \/ /\ b = 0 /\ t = ENABLE_AP
         /\ send_queue' = [send_queue EXCEPT ![b] = NONE]
         /\ signal_send_thread' = [signal_send_thread EXCEPT ![b] = FALSE]
      \/ /\ b # 0 /\ t = parent_ID[b] /\ t \in IDs /\ t # DEFAULT_ID
         /\ UNCHANGED <<send_queue, signal_send_thread>>
  <2>1. CASE b = 0
    <3>1. ID[b] = MASTER_ID
      BY <1>1, <2>1, MasterHasZero
    <3>2. QED
      BY <2>1, <3>1 DEF NobodyLeft, Dequeue, TokenTarget
  <2>2. CASE b # 0
    <3>1. ID[b] # MASTER_ID /\ parent_ID[b] \in IDs /\ parent_ID[b] # DEFAULT_ID
      BY <1>1, <2>2, MasterHasZero
    <3>2. QED
      BY <2>2, <3>1 DEF NobodyLeft, TokenTarget, sendVars
  <2>3. QED
    BY <2>1, <2>2
<1> HIDE DEF t
<1>6. TypeInv'
  <2>1. dist_vector' \in [Boards -> Vector] /\ routing_table' \in [Boards -> Table]
    <3>1. ID[b] \in IDs /\ dist_vector[b] \in Vector /\ routing_table[b] \in Table
          /\ dist_vector \in [Boards -> Vector] /\ routing_table \in [Boards -> Table]
      BY <1>1 DEF TypeInv, PlainTypes
    <3>2. /\ InitVector(dist_vector[b], ID[b], found) \in Vector
          /\ InitTable(routing_table[b], found) \in Table
      BY <3>1, VectorTypes
    <3>3. QED
      BY <1>3, <3>1, <3>2
  <2>2. ID_is_nbr' \in [Boards -> SUBSET IDs] /\ knows_nbrs' \in [Boards -> BOOLEAN]
    BY <1>2 DEF TypeInv, PlainTypes
  <2>3. /\ send_queue' \in [Boards -> PacketSet \cup {NONE}]
        /\ signal_send_thread' \in [Boards -> BOOLEAN]
    BY <1>5 DEF TypeInv, PlainTypes
  <2>4. /\ target_ID' \in [Boards -> {DV_SCAN, NF_SCAN, ENABLE_AP} \cup IDs]
        /\ signal_connect_thread' \in [Boards -> BOOLEAN]
    BY <1>2, <1>5 DEF TypeInv, PlainTypes
  <2>5. QED
    BY <1>2, <1>4, <2>1, <2>2, <2>3, <2>4 DEF TypeInv, PlainTypes
<1>7. /\ signal_connect_thread'[b] /\ target_ID'[b] = t
      /\ \A c \in Boards : c # b =>
           /\ signal_connect_thread'[c] = signal_connect_thread[c] /\ target_ID'[c] = target_ID[c]
           /\ send_queue'[c] = send_queue[c] /\ signal_send_thread'[c] = signal_send_thread[c]
  BY <1>2, <1>5 DEF TypeInv, PlainTypes
<1>8. Others(b)
  BY <1>2, <1>4, <1>7 DEF Others, Same
<1>9. ToSend(b) /\ NoRecv(b) /\ NoAck(b) /\ ~ access_point[b]
  BY <1>1 DEF BusyPhase
<1>10. NoRecv(b)' /\ NoAck(b)' /\ NoRouting(b)' /\ ~ access_point'[b] /\ ~ NoCall(b)'
  BY <1>1, <1>2, <1>4, <1>7, <1>9 DEF NoRecv, NoAck, NoCall, NoRouting
<1>11. \/ HomeCall(b)' /\ TokenQueued(b)' /\ send_queue'[b] = send_queue[b]
       \/ EndPhase(b)' /\ ~ TokenQueued(b)'
  <2>1. CASE b = 0
    <3>1. NoSend(b)' /\ ~ TokenQueued(b)'
      BY <1>5, <2>1 DEF NoSend, TokenQueued, HoldsToken, TypeInv, PlainTypes
    <3>2. target_ID'[b] = ENABLE_AP
      BY <1>5, <1>7, <2>1
    <3>3. QED
      BY <1>4, <1>7, <1>10, <3>1, <3>2 DEF EndPhase
  <2>2. CASE b # 0
    <3>1. send_queue'[b] = send_queue[b] /\ signal_send_thread'[b] = signal_send_thread[b]
      BY <1>5, <2>2
    <3>2. ToSend(b)' /\ TokenQueued(b)'
      BY <1>9, <3>1 DEF ToSend, TokenQueued
    <3>3. target_ID'[b] = parent_ID'[b] /\ parent_ID'[b] # DEFAULT_ID
      BY <1>2, <1>5, <1>7, <2>2
    <3>4. QED
      BY <1>4, <1>7, <1>10, <2>2, <3>1, <3>2, <3>3 DEF HomeCall
  <2>3. QED
    BY <2>1, <2>2
<1>12. /\ ~ TokenArrived(b)' /\ ~ AckDue(b)' /\ ~ Woken(b) /\ assoc[b] = NONE
       /\ pc'[b] # "boot"
  BY <1>1, <1>4, <1>9, <1>10, BusyFacts DEF NoRecv, TokenArrived, HoldsToken, AckDue, Woken
<1>13. WalkInv'
  BY <1>1, <1>2, <1>4, <1>8, <1>9, <1>10, <1>11, <1>12, LocalStep DEF Phase
<1>14. QED
  BY <1>1, <1>2, <1>4, <1>6, <1>8, <1>11, <1>12, <1>13

(* Nobody without ID is seen.                                              *)
LEMMA WalkNfScanNobody ==
  ASSUME TypeInv, WalkInv, NEW b \in Boards, NfScanNobody(b)
  PROVE  /\ TypeInv' /\ WalkInv' /\ UNCHANGED <<ID, parent_ID, todo>>
         /\ Others(b) /\ TokenQueued(b) /\ BusyPhase(b) /\ Holder(b)
         /\ TokenQueued(b)' \/ (~ TokenQueued(b)' /\ EndPhase(b)')
         /\ ~ TokenArrived(b)'
         /\ UNCHANGED <<recv_data, access_point, assoc>>
<1>1. /\ pc[b] = "nf_scan" /\ faults' \in 0 .. MaxFaults
      /\ NobodyLeft(b, ID_is_nbr[b] \cup PicoIDs(b))
  BY AwaitTypes DEF NfScanNobody
<1>2. ID_is_nbr[b] \cup PicoIDs(b) \in SUBSET IDs
  BY SeenIDs DEF TypeInv, PlainTypes
<1>3. pidogs_found' \in [Boards -> BOOLEAN]
  BY DEF NfScanNobody, TypeInv, PlainTypes
<1>4. QED
  BY <1>1, <1>2, <1>3, WalkNobodyLeft

(* The scan does not start: the board acts on what the one before found.   *)
LEMMA WalkNfScanFails ==
  ASSUME TypeInv, WalkInv, NEW b \in Boards, NfScanFails(b)
  PROVE  /\ TypeInv' /\ WalkInv' /\ UNCHANGED <<ID, parent_ID, todo>>
         /\ Others(b) /\ TokenQueued(b) /\ BusyPhase(b) /\ Holder(b)
         /\ TokenQueued(b)' \/ (~ TokenQueued(b)' /\ EndPhase(b)')
         /\ ~ TokenArrived(b)'
         /\ UNCHANGED <<recv_data, access_point, assoc>>
<1>1. /\ pc[b] = "nf_scan" /\ faults' \in 0 .. MaxFaults
      /\ pidogs_found' \in [Boards -> BOOLEAN]
  BY BoardsAssumption DEF NfScanFails, Fault, TypeInv, PlainTypes
<1>2. CASE BeginNfJoin(b, NONE) /\ UNCHANGED ID_is_nbr
  <2>1. ID_is_nbr' \in [Boards -> SUBSET IDs]
    BY <1>2 DEF TypeInv, PlainTypes
  <2>2. /\ TypeInv' /\ WalkInv' /\ UNCHANGED <<ID, parent_ID, todo>>
        /\ Others(b) /\ TokenQueued(b) /\ TokenQueued(b)' /\ BusyPhase(b)
        /\ UNCHANGED <<recv_data, access_point, assoc>>
    BY <1>1, <1>2, <2>1, WalkBeginNfJoin
  <2>3. Holder(b) /\ ~ TokenArrived(b)'
    BY <2>2 DEF BusyPhase, NoRecv, Holder, TokenArrived, HoldsToken
  <2>4. QED
    BY <2>2, <2>3
<1>3. CASE NobodyLeft(b, ID_is_nbr[b])
  <2>1. ID_is_nbr[b] \in SUBSET IDs
    BY DEF TypeInv, PlainTypes
  <2>2. QED
    BY <1>1, <1>3, <2>1, WalkNobodyLeft
<1>4. QED
  BY <1>2, <1>3 DEF NfScanFails

(* A board that joins, or tries to                                         *)
LEMMA WalkNfJoin ==
  ASSUME TypeInv, WalkInv, NEW b \in Boards, NfJoin(b)
  PROVE  /\ TypeInv' /\ WalkInv' /\ UNCHANGED <<ID, parent_ID, todo>>
         /\ Others(b) /\ TokenQueued(b) /\ TokenQueued(b)' /\ Holder(b)
         /\ faults' = faults \/ faults' = faults + 1
         /\ UNCHANGED <<ID_is_nbr, knows_nbrs, nbrs, send_queue, recv_data, access_point>>
<1>1. /\ pc[b] = "nf_join" /\ BusyPhase(b) /\ NoRouting(b) /\ Started /\ TokenQueued(b)
      /\ Holder(b) /\ ~ access_point[b] /\ \A a \in Boards : assoc[a] = NONE
  BY BusyFacts DEF NfJoin
<1>2. /\ joining' = [joining EXCEPT ![b] = NONE]
      /\ UNCHANGED <<ID, parent_ID, wifi_ssid, knows_nbrs, ID_is_nbr, dist_vector, routing_table,
                     nbrs, target_ID, signal_connect_thread, next_dv_scan, pidogs_found,
                     signal_send_thread, send_queue>>
  BY DEF NfJoin, selfVars, sendVars
<1>3. /\ pc' \in [Boards -> {"boot", "poll", "dv_scan", "nf_scan", "nf_join", "join"}]
      /\ phase' \in [Boards -> {"nothing", "nb_finding", "dv_routing"}]
      /\ due' \in [Boards -> BOOLEAN]
      /\ pc'[b] = "poll" /\ phase'[b] # "dv_routing"
      /\ \A c \in Boards : c # b => pc'[c] = pc[c] /\ phase'[c] = phase[c]
      /\ UNCHANGED <<recv_data, new_udp_recv_s, ack_queue, new_udp_ack_s, ack_queue_empty, todo>>
  BY PassEnds DEF NfJoin
<1>4. /\ access_point' = access_point
      /\ faults' \in 0 .. MaxFaults /\ (faults' = faults \/ faults' = faults + 1)
      /\ \/ assoc' = assoc
         \/ \E a \in Pidogs(b) : assoc' = [assoc EXCEPT ![b] = a]
  <2>1. CASE \E a \in {joining[b]} \cap Pidogs(b) : Joined(b, a)
    BY <2>1 DEF Joined, TypeInv, PlainTypes
  <2>2. CASE JoinFails(b, {joining[b]} \cap Pidogs(b))
    BY <2>2, JoinFailTypes DEF radioVars
  <2>3. QED
    BY <2>1, <2>2 DEF NfJoin
<1>5. /\ Pidogs(b) \subseteq Boards
      /\ \A a \in Pidogs(b) : a \in InRange[b] /\ access_point[a] /\ wifi_ssid[a] = PIDOG
  BY BoardsAssumption DEF Pidogs, Visible
<1>6. TypeInv'
  <2>1. assoc' \in [Boards -> Boards \cup {NONE}]
    BY <1>4, <1>5 DEF TypeInv, PlainTypes
  <2>2. QED
    BY <1>2, <1>3, <1>4, <2>1 DEF TypeInv, PlainTypes
<1>7. Others(b)
  BY <1>2, <1>3, <1>4 DEF Others, Same
<1>8. QueuedPhase(b)' /\ NoRouting(b)' /\ TokenQueued(b)'
  BY <1>1, <1>2, <1>3, <1>4
     DEF BusyPhase, QueuedPhase, ToSend, TokenQueued, NoRecv, NoAck, NoCall, NoRouting
<1>9. CASE assoc' = assoc
  <2>1. ~ TokenArrived(b)' /\ ~ AckDue(b)' /\ ~ Woken(b) /\ assoc[b] = NONE
    BY <1>1, <1>8 DEF QueuedPhase, NoRecv, TokenArrived, HoldsToken, AckDue, Woken
  <2>2. WalkInv'
    BY <1>1, <1>2, <1>3, <1>4, <1>7, <1>8, <1>9, <2>1, LocalStep DEF Phase
  <2>3. QED
    BY <1>1, <1>2, <1>3, <1>4, <1>6, <1>7, <1>8, <2>2
<1>10. ASSUME NEW a \in Pidogs(b), assoc' = [assoc EXCEPT ![b] = a]
       PROVE  WalkInv'
  <2>1. a \in Boards /\ a \in InRange[b] /\ access_point[a] /\ wifi_ssid[a] = PIDOG /\ a # b
    BY <1>1, <1>5
  <2>2. ~ TokenQueued(a)
    BY <1>1, <2>1, HolderAlone
  <2>3. LinkOK(b, a)
    BY <2>1, <2>2 DEF LinkOK, WalkInv, NamesOK
  <2>4. UNCHANGED <<ID, parent_ID, wifi_ssid, access_point, todo>> /\ send_queue'[b] = send_queue[b]
    BY <1>2, <1>3, <1>4
  <2>5. QED
    BY <1>1, <1>7, <1>8, <1>10, <2>1, <2>3, <2>4, JoinStep
<1>11. QED
  BY <1>1, <1>2, <1>3, <1>4, <1>6, <1>7, <1>8, <1>9, <1>10

(* It joins its parent.                                                    *)
LEMMA WalkJoin ==
  ASSUME TypeInv, WalkInv, NEW b \in Boards, Join(b)
  PROVE  /\ TypeInv' /\ WalkInv' /\ UNCHANGED <<ID, parent_ID, todo, faults>>
         /\ Others(b) /\ TokenQueued(b) /\ TokenQueued(b)' /\ Holder(b)
         /\ UNCHANGED <<ID_is_nbr, knows_nbrs, nbrs, send_queue, recv_data, access_point>>
<1>1. /\ pc[b] = "join" /\ BusyPhase(b) /\ NoRouting(b) /\ TokenQueued(b)
      /\ Holder(b) /\ ~ access_point[b]
      /\ b # 0 /\ target_ID[b] = parent_ID[b] /\ ID[b] # DEFAULT_ID
  <2>1. /\ pc[b] = "join" /\ BusyPhase(b) /\ NoRouting(b) /\ TokenQueued(b)
        /\ Holder(b) /\ ~ access_point[b]
    BY BusyFacts DEF Join
  <2>2. QED
    BY <2>1 DEF BusyPhase, WalkInv, IDsOK
<1>2. /\ UNCHANGED <<ID, parent_ID, wifi_ssid, knows_nbrs, ID_is_nbr, dist_vector, routing_table,
                     nbrs, target_ID, signal_connect_thread, next_dv_scan, joining,
                     pidogs_found,
                     signal_send_thread, send_queue>>
  BY DEF Join, selfVars, sendVars
<1>3. /\ pc' \in [Boards -> {"boot", "poll", "dv_scan", "nf_scan", "nf_join", "join"}]
      /\ phase' \in [Boards -> {"nothing", "nb_finding", "dv_routing"}]
      /\ due' \in [Boards -> BOOLEAN]
      /\ pc'[b] = "poll" /\ phase'[b] # "dv_routing"
      /\ \A c \in Boards : c # b => pc'[c] = pc[c] /\ phase'[c] = phase[c]
      /\ UNCHANGED <<recv_data, new_udp_recv_s, ack_queue, new_udp_ack_s, ack_queue_empty, todo>>
  BY PassEnds DEF Join
<1>4. PICK a \in Networks(b) : assoc' = [assoc EXCEPT ![b] = a] /\ UNCHANGED <<access_point, faults>>
  BY DEF Join, Joined
<1>5. a \in Boards /\ access_point[a] /\ wifi_ssid[a] = parent_ID[b] /\ a # b
  BY <1>1, BoardsAssumption DEF Networks, Visible
<1>6. TypeInv'
  <2>1. assoc' \in [Boards -> Boards \cup {NONE}]
    BY <1>4, <1>5 DEF TypeInv, PlainTypes
  <2>2. QED
    BY <1>2, <1>3, <1>4, <2>1 DEF TypeInv, PlainTypes
<1>7. Others(b)
  BY <1>2, <1>3, <1>4 DEF Others, Same
<1>8. QueuedPhase(b)' /\ NoRouting(b)' /\ TokenQueued(b)'
  BY <1>1, <1>2, <1>3, <1>4
     DEF BusyPhase, QueuedPhase, ToSend, TokenQueued, NoRecv, NoAck, NoCall, NoRouting
<1>9. LinkOK(b, a)
  <2>1. parent_ID[b] \in IDs
    BY <1>1, MasterHasZero
  <2>2. wifi_ssid[a] # PIDOG
    BY <1>5, <2>1, BootNumbers
  <2>3. ID[a] = parent_ID[b] /\ ID[a] # DEFAULT_ID
    BY <1>5, <2>2 DEF WalkInv, NamesOK
  <2>4. QED
    BY <1>1, <2>3 DEF LinkOK
<1>10. WalkInv'
  <2>1. UNCHANGED <<ID, parent_ID, wifi_ssid, access_point, todo>> /\ send_queue'[b] = send_queue[b]
    BY <1>2, <1>3, <1>4
  <2>2. QED
    BY <1>1, <1>4, <1>5, <1>7, <1>8, <1>9, <2>1, JoinStep
<1>11. QED
  BY <1>1, <1>2, <1>3, <1>4, <1>6, <1>7, <1>8, <1>10

(* It does not find it: the token stays in its queue for good.             *)
LEMMA WalkJoinTimeout ==
  ASSUME TypeInv, WalkInv, NEW b \in Boards, JoinTimeout(b)
  PROVE  /\ TypeInv' /\ WalkInv' /\ UNCHANGED <<ID, parent_ID, todo>>
         /\ Others(b) /\ TokenQueued(b) /\ TokenQueued(b)' /\ Holder(b) /\ EndPhase(b)'
         /\ faults' = faults \/ faults' = faults + 1
         /\ UNCHANGED <<ID_is_nbr, knows_nbrs, nbrs, send_queue, recv_data, access_point, assoc>>
<1>1. /\ pc[b] = "join" /\ BusyPhase(b) /\ NoRouting(b) /\ Started /\ TokenQueued(b)
      /\ Holder(b) /\ ~ access_point[b] /\ assoc[b] = NONE
  BY BusyFacts DEF JoinTimeout
<1>2. /\ target_ID' = [target_ID EXCEPT ![b] = ENABLE_AP]
      /\ signal_connect_thread' = [signal_connect_thread EXCEPT ![b] = TRUE]
      /\ UNCHANGED <<ID, parent_ID, wifi_ssid, knows_nbrs, ID_is_nbr, dist_vector, routing_table,
                     nbrs, joining, pidogs_found, signal_send_thread, send_queue>>
  BY DEF JoinTimeout, Retarget, selfVars, sendVars
<1>3. next_dv_scan' = next_dv_scan
  <2>1. phase[b] # "dv_routing" /\ next_dv_scan \in [Boards -> {"never", "asap", "later"}]
    BY <1>1 DEF NoRouting, TypeInv, PlainTypes
  <2>2. next_dv_scan' = [next_dv_scan EXCEPT ![b] = next_dv_scan[b]]
    BY <2>1 DEF JoinTimeout
  <2>3. QED
    BY <2>1, <2>2
<1>4. /\ pc' \in [Boards -> {"boot", "poll", "dv_scan", "nf_scan", "nf_join", "join"}]
      /\ phase' \in [Boards -> {"nothing", "nb_finding", "dv_routing"}]
      /\ due' \in [Boards -> BOOLEAN]
      /\ pc'[b] = "poll" /\ phase'[b] # "dv_routing"
      /\ \A c \in Boards : c # b => pc'[c] = pc[c] /\ phase'[c] = phase[c]
      /\ UNCHANGED <<recv_data, new_udp_recv_s, ack_queue, new_udp_ack_s, ack_queue_empty, todo>>
  BY PassEnds DEF JoinTimeout
<1>5. /\ UNCHANGED <<access_point, assoc>>
      /\ faults' \in 0 .. MaxFaults /\ (faults' = faults \/ faults' = faults + 1)
  BY JoinFailTypes DEF JoinTimeout, radioVars
<1>6. TypeInv'
  BY <1>2, <1>3, <1>4, <1>5 DEF TypeInv, PlainTypes
<1>7. /\ signal_connect_thread'[b] /\ target_ID'[b] = ENABLE_AP
      /\ \A c \in Boards : c # b =>
           signal_connect_thread'[c] = signal_connect_thread[c] /\ target_ID'[c] = target_ID[c]
  BY <1>2 DEF TypeInv, PlainTypes
<1>8. Others(b)
  BY <1>2, <1>3, <1>4, <1>5, <1>7 DEF Others, Same
<1>9. EndPhase(b)' /\ NoRouting(b)' /\ TokenQueued(b)'
  BY <1>1, <1>2, <1>3, <1>4, <1>5, <1>7
     DEF BusyPhase, EndPhase, ToSend, TokenQueued, NoRecv, NoAck, NoRouting
<1>10. ~ TokenArrived(b)' /\ ~ AckDue(b)' /\ ~ Woken(b)
  BY <1>1, <1>9 DEF EndPhase, NoRecv, NoAck, TokenArrived, HoldsToken, AckDue, Woken
<1>11. WalkInv'
  BY <1>1, <1>2, <1>4, <1>5, <1>8, <1>9, <1>10, LocalStep DEF Phase
<1>12. QED
  BY <1>1, <1>2, <1>4, <1>5, <1>6, <1>8, <1>9, <1>11

(* The master is ready, and has joined a board without ID or nobody.       *)
LEMMA WalkMasterBoot ==
  ASSUME TypeInv, WalkInv, NEW b \in Boards, MasterBoot(b)
  PROVE  /\ TypeInv' /\ WalkInv' /\ UNCHANGED <<ID, parent_ID, todo>>
         /\ \A c \in Boards : ~ Holder(c) /\ ~ Holder(c)'
         /\ faults' = faults \/ faults' = faults + 1
         /\ UNCHANGED <<ID_is_nbr, knows_nbrs, nbrs, send_queue, recv_data, access_point>>
<1>1. BootPhase(b) /\ b = 0 /\ pc[0] = "boot" /\ ~ access_point[b]
  BY DEF MasterBoot, WalkInv, Phase, Waiting, BootPhase, ArrivedPhase, AckDue, Woken, BusyPhase,
         HomeCall, QueuedPhase, AckedPhase, EndPhase, StuckPhase
<1>2. ~ Started /\ Fresh
  BY <1>1 DEF WalkInv, Started
<1>3. /\ pc' = [pc EXCEPT ![b] = "poll"]
      /\ UNCHANGED <<ID, parent_ID, wifi_ssid, knows_nbrs, ID_is_nbr, dist_vector, routing_table,
                     nbrs, phase, target_ID, signal_connect_thread, next_dv_scan, joining,
                     signal_send_thread, send_queue, recv_data, new_udp_recv_s, due, ack_queue,
                     new_udp_ack_s, ack_queue_empty, todo>>
  BY DEF MasterBoot, selfVars, sendVars, recvVars, ackVars
<1>4. /\ access_point' = access_point
      /\ faults' \in 0 .. MaxFaults /\ (faults' = faults \/ faults' = faults + 1)
      /\ pidogs_found' \in [Boards -> BOOLEAN]
      /\ \/ assoc' = assoc
         \/ \E a \in Pidogs(b) : assoc' = [assoc EXCEPT ![b] = a]
  <2>1. pidogs_found' \in [Boards -> BOOLEAN]
    BY DEF MasterBoot, TypeInv, PlainTypes
  <2>2. CASE \E a \in Pidogs(b) : Joined(b, a)
    BY <2>1, <2>2 DEF Joined, TypeInv, PlainTypes
  <2>3. CASE JoinFails(b, Pidogs(b))
    BY <2>1, <2>3, JoinFailTypes DEF radioVars
  <2>4. CASE Fault /\ UNCHANGED <<radioVars, pidogs_found>>
    BY <2>1, <2>4, BoardsAssumption DEF Fault, radioVars, TypeInv, PlainTypes
  <2>5. QED
    BY <2>2, <2>3, <2>4 DEF MasterBoot
<1>5. /\ Pidogs(b) \subseteq Boards
      /\ \A a \in Pidogs(b) : a \in InRange[b] /\ access_point[a] /\ a # b
  BY <1>1, BoardsAssumption DEF Pidogs, Visible
<1>6. TypeInv'
  <2>1. assoc' \in [Boards -> Boards \cup {NONE}]
    BY <1>4, <1>5 DEF TypeInv, PlainTypes
  <2>2. pc' \in [Boards -> {"boot", "poll", "dv_scan", "nf_scan", "nf_join", "join"}]
    BY <1>3 DEF TypeInv, PlainTypes
  <2>3. QED
    BY <1>3, <1>4, <2>1, <2>2 DEF TypeInv, PlainTypes
<1>7. pc'[b] = "poll" /\ \A c \in Boards : c # b => pc'[c] = pc[c]
  BY <1>3 DEF TypeInv, PlainTypes
<1>8. Others(b)
  BY <1>3, <1>4, <1>7 DEF Others, Same
<1>9. \A c \in Boards : NoSend(c) /\ NoRecv(c) /\ NoAck(c) /\ NoCall(c)
  BY <1>2 DEF Fresh, Waiting, BootPhase
<1>10. Waiting(b)' /\ NoRouting(b)'
  <2>1. NoRouting(b)
    BY DEF WalkInv, Phase
  <2>2. QED
    BY <1>3, <1>7, <1>9, <2>1 DEF Waiting, NoSend, NoRecv, NoAck, NoCall, NoRouting
<1>11. \A c \in Boards : Waiting(c)' /\ Phase(c)'
  <2> SUFFICES ASSUME NEW c \in Boards PROVE Waiting(c)' /\ Phase(c)'
    OBVIOUS
  <2>1. CASE c = b
    BY <1>10, <2>1 DEF Phase
  <2>2. CASE c # b
    <3>1. Waiting(c)
      BY <1>1, <1>2, <2>2 DEF Fresh, BootPhase
    <3>2. QED
      BY <1>8, <2>2, <3>1, OthersPhases
  <2>3. QED
    BY <2>1, <2>2
<1>12. \A c \in Boards : /\ ~ Holder(c) /\ ~ Holder(c)' /\ ~ TokenQueued(c)' /\ ~ TokenArrived(c)'
                         /\ ~ AckDue(c)' /\ NoRecv(c)' /\ NoCall(c)' /\ pc'[c] = "poll"
  BY <1>9, <1>11 DEF Waiting, NoSend, NoRecv, NoAck, Holder, TokenQueued, TokenArrived, HoldsToken,
     AckDue
<1>13. Fresh'
  <2>1. \A c \in Boards : (access_point'[c] <=> c # 0) /\ (c # 0 => ID'[c] = DEFAULT_ID)
    BY <1>2, <1>3, <1>4 DEF Fresh
  <2>2. QED
    BY <1>11, <2>1 DEF Fresh
<1>14. OneHolder'
  BY <1>12 DEF OneHolder
<1>15. IDsOK'
  <2>1. IDsOK /\ \A c \in Boards : ~ access_point'[c] \/ TokenQueued(c)' => ID[c] # DEFAULT_ID
    BY <1>4, <1>12 DEF WalkInv, IDsOK
  <2>2. QED
    BY <1>3, <2>1, IDsKept
<1>16. NamesOK'
  <2>1. NamesOK /\ \A c \in Boards : ~ TokenQueued(c)
    BY <1>12 DEF WalkInv, Holder
  <2>2. QED
    BY <1>3, <1>4, <2>1 DEF NamesOK
<1>17. NumbersOK'
  BY <1>12 DEF NumbersOK
<1>18. LinksOK'
  <2>1. ASSUME NEW a \in Boards PROVE assoc[a] = NONE
    BY <1>1, <1>2 DEF WalkInv, LinksOK, Fresh
  <2>2. CASE assoc' = assoc
    BY <2>1, <2>2 DEF LinksOK
  <2>3. ASSUME NEW a \in Pidogs(b), assoc' = [assoc EXCEPT ![b] = a]
        PROVE  LinksOK'
    <3>1. a \in Boards /\ access_point[a] /\ a \in InRange[b] /\ a # b
      BY <1>5
    <3>2. ID[a] = DEFAULT_ID
      BY <1>1, <1>2, <3>1 DEF Fresh
    <3>3. \A c \in Boards : assoc'[c] = IF c = b THEN a ELSE NONE
      BY <2>1, <2>3 DEF TypeInv, PlainTypes
    <3>4. LinkOK(b, a)'
      BY <1>3, <3>1, <3>2 DEF LinkOK
    <3>5. LinkOK(b, assoc[b])'
      BY <3>3, <3>4 DEF LinkOK
    <3>6. a # NONE
      BY <3>1, NoneAssumption
    <3>7. QED
      BY <1>1, <1>4, <1>12, <3>1, <3>3, <3>5, <3>6 DEF LinksOK
  <2>4. QED
    BY <1>4, <2>2, <2>3
<1>19. WalkInv'
  BY <1>11, <1>13, <1>14, <1>15, <1>16, <1>17, <1>18 DEF WalkInv
<1>20. QED
  BY <1>3, <1>4, <1>6, <1>12, <1>19

-----------------------------------------------------------------------------
(* The walk that the program takes *)

(* Without an exchange of vectors and without data, these are its steps.   *)
BootStep(b) ==
  \/ Send(b) \/ RecvAck(b) \/ RecvToken(b) \/ Ack(b)
  \/ \E c \in Commands : Serial(b, c)
  \/ EnableAp(b) \/ StartNfScan(b) \/ StartJoin(b)
  \/ \E a \in Boards : NfScanFound(b, a)
  \/ NfScanNobody(b) \/ NfScanFails(b)
  \/ NfJoin(b) \/ Join(b) \/ JoinTimeout(b) \/ MasterBoot(b)

LEMMA BootSteps ==
  ASSUME TypeInv, WalkInv, Next
  PROVE  \E b \in Boards : BootStep(b)
<1>1. PICK b \in Boards :
        \/ Send(b) \/ Recv(b) \/ Ack(b)
        \/ \E c \in Commands : Serial(b, c)
        \/ Connect(b) \/ Unblock(b)
  BY DEF Next
<1>2. ~ RecvData(b) /\ ~ RecvDv(b)
  BY TakenOne DEF RecvData, RecvDv
<1>3. ~ RecvAckDv(b)
  <2>1. RecvAckDv(b) => AckedPhase(b)
    BY TakenOne DEF RecvAckDv
  <2>2. QED
    BY <2>1 DEF RecvAckDv, AckedPhase
<1>4. ~ EndRouting(b) /\ ~ StartDvScan(b)
  BY NoVectorScan DEF EndRouting, StartDvScan, Block
<1>5. ~ DvScanDone(b)
  BY NoBusyVectorScan DEF DvScanDone, DvScanFound, DvScanNobody
<1>6. Recv(b) => RecvAck(b) \/ RecvToken(b)
  BY <1>2, <1>3 DEF Recv
<1>7. Connect(b) => EnableAp(b) \/ StartNfScan(b) \/ StartJoin(b)
  BY <1>4 DEF Connect
<1>8. Unblock(b) => \/ \E a \in Boards : NfScanFound(b, a)
                    \/ NfScanNobody(b) \/ NfScanFails(b)
                    \/ NfJoin(b) \/ Join(b) \/ JoinTimeout(b) \/ MasterBoot(b)
  BY <1>5 DEF Unblock, NfScanDone
<1>9. QED
  BY <1>1, <1>6, <1>7, <1>8 DEF BootStep

LEMMA BoardOfID ==
  ASSUME WalkInv, NEW a \in Boards, ID[a] # DEFAULT_ID
  PROVE  Board(ID[a]) = a
<1>1. \A c \in Boards : ID[c] = ID[a] => c = a
  BY DEF WalkInv, IDsOK
<1>2. QED
  BY <1>1 DEF Board

(* A token that arrives comes from a board with an ID.                     *)
LEMMA Sender ==
  ASSUME TypeInv, WalkInv, NEW b \in Boards, TokenArrived(b)
  PROVE  \E a \in Boards : ID[a] = recv_data[b].src /\ ID[a] # DEFAULT_ID /\ LinkOK(a, b)
<1>1. recv_data[b] \in PacketSet
  BY DEF TypeInv, PlainTypes, TokenArrived, HoldsToken
<1>2. PICK a \in Boards : a = recv_data[b].ip
  BY <1>1 DEF PacketSet
<1>3. /\ ID[recv_data[b].ip] = recv_data[b].src /\ recv_data[b].src # DEFAULT_ID
      /\ LinkOK(recv_data[b].ip, b)
  BY DEF WalkInv, NumbersOK
<1>4. LinkOK(a, b)
  BY <1>2, <1>3 DEF LinkOK
<1>5. QED
  BY <1>2, <1>3, <1>4

(* The token is with the board that got it last, and carries the number of *)
(* boards that have an ID.                                                 *)
TokenPlace ==
  /\ (\A c \in Boards : ~ Holder(c)) => Tokens = {}
  /\ \A b \in Boards : TokenQueued(b) => Tokens = {[at |-> b, num |-> Count]}
  /\ \A a, b \in Boards : TokenArrived(b) /\ recv_data[b].src = ID[a] /\ ID[a] # DEFAULT_ID =>
       Tokens = {[at |-> a, num |-> Count]}

LEMMA TokensAre == TypeInv /\ WalkInv => TokenPlace
<1> SUFFICES ASSUME TypeInv, WalkInv PROVE TokenPlace
  OBVIOUS
<1> DEFINE queued == {[at |-> b, num |-> send_queue[b].num] :
                        b \in {a \in Boards : TokenQueued(a)}}
           arrived == {[at |-> Board(recv_data[b].src), num |-> recv_data[b].num] :
                         b \in {a \in Boards : TokenArrived(a)}}
<1>1. Tokens = queued \cup arrived
  BY DEF Tokens, TokenQueued, TokenArrived
<1>2. ASSUME \A c \in Boards : ~ Holder(c) PROVE Tokens = {}
  <2>1. \A c \in Boards : ~ TokenQueued(c) /\ ~ TokenArrived(c)
    BY <1>2 DEF Holder
  <2>2. QED
    BY <1>1, <2>1
<1>3. \A b \in Boards : ~ (TokenArrived(b) /\ TokenQueued(b))
  BY PhaseFacts DEF WalkInv
<1>4. ASSUME NEW b \in Boards, TokenQueued(b) PROVE Tokens = {[at |-> b, num |-> Count]}
  <2>1. \A c \in Boards : c # b => ~ TokenQueued(c) /\ ~ TokenArrived(c)
    BY <1>4, HolderAlone DEF Holder
  <2>2. ~ TokenArrived(b) /\ send_queue[b].num = Count
    BY <1>3, <1>4 DEF WalkInv, NumbersOK
  <2>3. arrived = {}
    BY <2>1, <2>2
  <2>4. queued = {[at |-> b, num |-> Count]}
    BY <1>4, <2>1, <2>2
  <2> HIDE DEF queued, arrived
  <2>5. QED
    BY <1>1, <2>3, <2>4
<1>5. ASSUME NEW a \in Boards, NEW b \in Boards, TokenArrived(b), recv_data[b].src = ID[a],
             ID[a] # DEFAULT_ID
      PROVE  Tokens = {[at |-> a, num |-> Count]}
  <2>1. \A c \in Boards : c # b => ~ TokenQueued(c) /\ ~ TokenArrived(c)
    BY <1>5, HolderAlone DEF Holder
  <2>2. ~ TokenQueued(b) /\ recv_data[b].num = Count
    BY <1>3, <1>5 DEF WalkInv, NumbersOK
  <2>3. Board(recv_data[b].src) = a
    BY <1>5, BoardOfID
  <2>4. queued = {}
    BY <2>1, <2>2
  <2>5. arrived = {[at |-> a, num |-> Count]}
    BY <1>5, <2>1, <2>2, <2>3
  <2> HIDE DEF queued, arrived
  <2>6. QED
    BY <1>1, <2>4, <2>5
<1>6. QED
  BY <1>2, <1>4, <1>5 DEF TokenPlace

LEMMA TokensAreNext == (TypeInv /\ WalkInv)' => TokenPlace'
BY TokensAre, PTL

(* A step after which the same board has the token, if one has it, is no   *)
(* step of the walk.                                                       *)
LEMMA SameTokens ==
  ASSUME TypeInv, WalkInv, TypeInv', WalkInv', UNCHANGED <<ID, parent_ID, todo>>,
         \A c \in Boards : /\ TokenQueued(c)' <=> TokenQueued(c)
                           /\ TokenArrived(c)' <=> TokenArrived(c)
                           /\ TokenArrived(c) => recv_data'[c] = recv_data[c]
  PROVE  UNCHANGED Walk!vars
<1>1. TokenPlace /\ TokenPlace' /\ Count' = Count
  BY TokensAre, TokensAreNext, IDsSame
<1>2. Tokens' = Tokens
  <2>1. CASE \A c \in Boards : ~ Holder(c)
    BY <1>1, <2>1 DEF Holder, TokenPlace
  <2>2. ASSUME NEW c \in Boards, TokenQueued(c) PROVE Tokens' = Tokens
    BY <1>1, <2>2 DEF TokenPlace
  <2>3. ASSUME NEW c \in Boards, TokenArrived(c) PROVE Tokens' = Tokens
    <3>1. PICK a \in Boards : ID[a] = recv_data[c].src /\ ID[a] # DEFAULT_ID
      BY <2>3, Sender
    <3>2. ID[a] = recv_data[c].src /\ ID[a] # DEFAULT_ID
      BY <3>1
    <3>3. Tokens = {[at |-> a, num |-> Count]}
      BY <1>1, <2>3, <3>2 DEF TokenPlace
    <3>4. TokenArrived(c)' /\ recv_data'[c].src = ID'[a] /\ ID'[a] # DEFAULT_ID
      BY <2>3, <3>2
    <3>5. Tokens' = {[at |-> a, num |-> Count']}
      BY <1>1, <3>4 DEF TokenPlace
    <3>6. QED
      BY <1>1, <3>3, <3>5
  <2>4. QED
    BY <2>1, <2>2, <2>3 DEF Holder
<1>3. QED
  BY <1>2 DEF Walk!vars

(* The walk is over when the token of one board is nowhere.                *)
LEMMA TokenEnds ==
  ASSUME TypeInv, WalkInv, TypeInv', WalkInv', UNCHANGED <<ID, parent_ID, todo>>,
         NEW b \in Boards, TokenQueued(b), \A c \in Boards : ~ Holder(c)'
  PROVE  Walk!End
<1>1. Tokens = {[at |-> b, num |-> Count]} /\ Tokens' = {}
  BY TokensAre, TokensAreNext DEF TokenPlace
<1>2. QED
  BY <1>1 DEF Walk!End

LEMMA TokenStays ==
  ASSUME TypeInv, WalkInv, TypeInv', WalkInv', UNCHANGED <<ID, parent_ID, todo>>,
         NEW b \in Boards, TokenQueued(b),
         \/ TokenQueued(b)'
         \/ /\ \E a \in Boards : TokenArrived(a)' /\ recv_data'[a].src = ID[b]
            /\ ID[b] # DEFAULT_ID
  PROVE  UNCHANGED Walk!vars
<1>1. TokenPlace /\ TokenPlace' /\ Count' = Count
  BY TokensAre, TokensAreNext, IDsSame
<1>2. Tokens = {[at |-> b, num |-> Count]}
  BY <1>1 DEF TokenPlace
<1>3. Tokens' = {[at |-> b, num |-> Count']}
  BY <1>1 DEF TokenPlace
<1>4. QED
  BY <1>1, <1>2, <1>3 DEF Walk!vars

(* A board that gets the token is numbered, or has it back.                *)
LEMMA TokenTaken ==
  ASSUME TypeInv, WalkInv, NEW b \in Boards, RecvToken(b)
  PROVE  Walk!Number(b) \/ Walk!Return(b)
<1>1. /\ WalkInv' /\ TypeInv' /\ todo' = todo /\ TokenArrived(b) /\ TokenQueued(b)'
      /\ \/ /\ ID[b] = DEFAULT_ID
            /\ ID' = [ID EXCEPT ![b] = Count]
            /\ parent_ID' = [parent_ID EXCEPT ![b] = recv_data[b].src]
            /\ Count' = Count + 1
         \/ ID[b] # DEFAULT_ID /\ UNCHANGED <<ID, parent_ID>>
  BY WalkRecvToken
<1>2. PICK a \in Boards : ID[a] = recv_data[b].src /\ ID[a] # DEFAULT_ID /\ LinkOK(a, b)
  BY <1>1, Sender
<1> DEFINE t == [at |-> a, num |-> Count]
<1>3. Tokens = {t}
  BY <1>1, <1>2, TokensAre DEF TokenPlace
<1>4. Tokens' = {[at |-> b, num |-> Count']}
  BY <1>1, TokensAreNext DEF TokenPlace
<1>5. t \in Tokens /\ t.at = a /\ t.num = Count
  BY <1>3
<1> HIDE DEF t
<1>6. CASE ID[b] = DEFAULT_ID
  <2>1. /\ b \in InRange[t.at] /\ ID[b] = -1 /\ ID' = [ID EXCEPT ![b] = t.num]
        /\ parent_ID' = [parent_ID EXCEPT ![b] = ID[t.at]]
        /\ Tokens' = {[at |-> b, num |-> t.num + 1]}
    BY <1>1, <1>2, <1>4, <1>5, <1>6 DEF LinkOK, DEFAULT_ID
  <2>2. QED
    BY <1>1, <1>5, <2>1 DEF Walk!Number, Walk!NoID
<1>7. CASE ID[b] # DEFAULT_ID
  <2>1. Count' = Count
    BY <1>1, <1>7, IDsSame
  <2>2. /\ t.at # 0 /\ ID[b] # -1 /\ ID[b] = parent_ID[t.at]
        /\ Tokens' = {[at |-> b, num |-> t.num]}
    BY <1>2, <1>4, <1>5, <1>7, <2>1 DEF LinkOK, DEFAULT_ID
  <2>3. QED
    BY <1>1, <1>5, <1>7, <2>2 DEF Walk!Return, Walk!NoID
<1>8. QED
  BY <1>6, <1>7

(* Every step of the program keeps the invariant, and is a step of the     *)
(* walk or none.                                                           *)
LEMMA WalkStep ==
  ASSUME TypeInv, WalkInv, NEW b \in Boards, BootStep(b)
  PROVE  TypeInv' /\ WalkInv' /\ [Walk!Next]_(Walk!vars)
<1>1. CASE Send(b)
  BY <1>1, WalkSend, TokenEnds, TokenStays DEF Walk!Next
<1>2. CASE RecvAck(b)
  <2>1. /\ TypeInv' /\ WalkInv' /\ UNCHANGED <<ID, parent_ID, todo>>
        /\ Others(b) /\ AckedPhase(b) /\ EndPhase(b)' /\ send_queue' = send_queue
    BY <1>2, WalkRecvAck
  <2>2. ~ TokenArrived(b) /\ ~ TokenArrived(b)'
    BY <2>1 DEF AckedPhase, EndPhase, NoRecv, TokenArrived, HoldsToken
  <2>3. \A c \in Boards : TokenQueued(c)' <=> TokenQueued(c)
    BY <2>1 DEF TokenQueued
  <2>4. QED
    BY <2>1, <2>2, <2>3, OthersPhases, SameTokens
<1>3. CASE RecvToken(b)
  BY <1>3, WalkRecvToken, TokenTaken DEF Walk!Next
<1>4. CASE Ack(b)
  <2>1. AckDue(b) => TokenQueued(b)
    BY DEF AckDue, ToSend
  <2>2. QED
    BY <1>4, <2>1, WalkAck, TokenStays
<1>5. ASSUME NEW c \in Commands, Serial(b, c)
      PROVE  TypeInv' /\ WalkInv' /\ [Walk!Next]_(Walk!vars)
  <2>1. /\ TypeInv' /\ WalkInv' /\ UNCHANGED <<ID, parent_ID>>
        /\ todo \cap TokenCommands # {} /\ todo' = {} /\ \A d \in Boards : ~ Holder(d)
        /\ TokenQueued(0)' /\ Count' = 1
    BY <1>5, WalkSerial
  <2>2. Tokens' = {[at |-> 0, num |-> 1]}
    BY <2>1, TokensAreNext, BootNumbers DEF TokenPlace
  <2>3. Walk!Start
    BY <2>1, <2>2 DEF Walk!Start
  <2>4. QED
    BY <2>1, <2>3 DEF Walk!Next
<1>6. CASE EnableAp(b)
  <2>1. /\ TypeInv' /\ WalkInv' /\ UNCHANGED <<ID, parent_ID, todo>>
        /\ UNCHANGED <<send_queue, recv_data>>
    BY <1>6, WalkEnableAp
  <2>2. \A c \in Boards : /\ TokenQueued(c)' <=> TokenQueued(c)
                          /\ TokenArrived(c)' <=> TokenArrived(c)
                          /\ recv_data'[c] = recv_data[c]
    BY <2>1 DEF TokenQueued, TokenArrived
  <2>3. QED
    BY <2>1, <2>2, SameTokens
<1>7. CASE StartNfScan(b) \/ StartJoin(b)
  BY <1>7, WalkBlock, TokenStays
<1>8. ASSUME NEW a \in Boards, NfScanFound(b, a)
      PROVE  TypeInv' /\ WalkInv' /\ [Walk!Next]_(Walk!vars)
  BY <1>8, WalkNfScanFound, TokenStays
<1>9. CASE NfScanNobody(b) \/ NfScanFails(b)
  <2>1. /\ TypeInv' /\ WalkInv' /\ UNCHANGED <<ID, parent_ID, todo>>
        /\ Others(b) /\ TokenQueued(b) /\ Holder(b) /\ ~ TokenArrived(b)'
    BY <1>9, WalkNfScanNobody, WalkNfScanFails
  <2>2. \A c \in Boards : c # b => ~ Holder(c)'
    BY <2>1, HolderAlone, OthersPhases
  <2>3. CASE TokenQueued(b)'
    BY <2>1, <2>3, TokenStays
  <2>4. CASE ~ TokenQueued(b)'
    <3>1. \A c \in Boards : ~ Holder(c)'
      BY <2>1, <2>2, <2>4 DEF Holder
    <3>2. QED
      BY <2>1, <3>1, TokenEnds DEF Walk!Next
  <2>5. QED
    BY <2>3, <2>4
<1>10. CASE NfJoin(b)
  BY <1>10, WalkNfJoin, TokenStays
<1>11. CASE Join(b)
  BY <1>11, WalkJoin, TokenStays
<1>12. CASE JoinTimeout(b)
  BY <1>12, WalkJoinTimeout, TokenStays
<1>13. CASE MasterBoot(b)
  <2>1. /\ TypeInv' /\ WalkInv' /\ UNCHANGED <<ID, parent_ID, todo>>
        /\ \A c \in Boards : ~ Holder(c) /\ ~ Holder(c)'
    BY <1>13, WalkMasterBoot
  <2>2. QED
    BY <2>1, SameTokens DEF Holder
<1>14. QED
  BY <1>1, <1>2, <1>3, <1>4, <1>5, <1>6, <1>7, <1>8, <1>9, <1>10, <1>11, <1>12, <1>13 DEF BootStep

(* Only a scan that ends neighbor finding touches what is kept per         *)
(* neighbor.                                                               *)
LEMMA NbrStep ==
  ASSUME TypeInv, WalkInv, NbrTypes, NEW b \in Boards, BootStep(b)
  PROVE  NbrTypes'
<1>1. ASSUME NEW found \in SUBSET IDs, NobodyLeft(b, found)
      PROVE  NbrTypes'
  <2>1. nbrs' = nbrs \/ nbrs' = [nbrs EXCEPT ![b] = [h \in found |-> NewNbr]]
    BY <1>1 DEF NobodyLeft
  <2>2. NewNbr \in Nbr_t
    BY VectorTypes DEF NewNbr, Nbr_t
  <2>3. [h \in found |-> NewNbr] \in [found -> Nbr_t]
    BY <2>2
  <2>4. QED
    BY <2>1, <2>3 DEF NbrTypes
<1>2. CASE ~ NfScanNobody(b) /\ ~ (NfScanFails(b) /\ nbrs' # nbrs)
  <2>1. nbrs' = nbrs
    <3>1. Send(b) \/ RecvAck(b) \/ RecvToken(b) \/ Ack(b) => nbrs' = nbrs
      BY DEF Send, RecvAck, RecvToken, Ack, selfVars
    <3>2. (\E c \in Commands : Serial(b, c)) => nbrs' = nbrs
      BY DEF Serial, selfVars
    <3>3. EnableAp(b) \/ StartNfScan(b) \/ StartJoin(b) => nbrs' = nbrs
      BY DEF EnableAp, StartNfScan, StartJoin, Block, selfVars
    <3>4. (\E a \in Boards : NfScanFound(b, a)) => nbrs' = nbrs
      BY DEF NfScanFound, BeginNfJoin
    <3>5. NfJoin(b) \/ Join(b) \/ JoinTimeout(b) \/ MasterBoot(b) => nbrs' = nbrs
      BY DEF NfJoin, Join, JoinTimeout, MasterBoot, selfVars
    <3>6. QED
      BY <1>2, <3>1, <3>2, <3>3, <3>4, <3>5 DEF BootStep
  <2>2. QED
    BY <2>1 DEF NbrTypes
<1>3. ID_is_nbr[b] \in SUBSET IDs /\ ID_is_nbr[b] \cup PicoIDs(b) \in SUBSET IDs
  BY SeenIDs DEF TypeInv, PlainTypes
<1>4. CASE NfScanNobody(b)
  BY <1>1, <1>3, <1>4 DEF NfScanNobody
<1>5. CASE NfScanFails(b) /\ nbrs' # nbrs
  BY <1>1, <1>3, <1>5 DEF NfScanFails, BeginNfJoin
<1>6. QED
  BY <1>2, <1>4, <1>5

-----------------------------------------------------------------------------
(* The program from power-up *)

LEMMA InitBootTypes == InitBoot => TypeInv /\ NbrTypes
<1> SUFFICES ASSUME InitBoot PROVE TypeInv /\ NbrTypes
  OBVIOUS
<1>1. /\ ID \in [Boards -> IDs \cup {DEFAULT_ID}]
      /\ parent_ID \in [Boards -> IDs \cup {DEFAULT_ID}]
      /\ wifi_ssid \in [Boards -> IDs \cup {DEFAULT_ID, PIDOG}]
      /\ knows_nbrs \in [Boards -> BOOLEAN] /\ ID_is_nbr \in [Boards -> SUBSET IDs]
      /\ access_point \in [Boards -> BOOLEAN]
      /\ pc \in [Boards -> {"boot", "poll", "dv_scan", "nf_scan", "nf_join", "join"}]
  BY BootNumbers DEF InitBoot
<1>2. dist_vector \in [Boards -> Vector] /\ routing_table \in [Boards -> Table]
  BY VectorTypes DEF InitBoot
<1>3. /\ assoc \in [Boards -> Boards \cup {NONE}]
      /\ phase \in [Boards -> {"nothing", "nb_finding", "dv_routing"}]
      /\ target_ID \in [Boards -> {DV_SCAN, NF_SCAN, ENABLE_AP} \cup IDs]
      /\ signal_connect_thread \in [Boards -> BOOLEAN]
      /\ next_dv_scan \in [Boards -> {"never", "asap", "later"}]
      /\ joining \in [Boards -> Boards \cup {NONE}] /\ pidogs_found \in [Boards -> BOOLEAN]
      /\ signal_send_thread \in [Boards -> BOOLEAN]
      /\ new_udp_recv_s \in [Boards -> Nat] /\ due \in [Boards -> BOOLEAN]
      /\ new_udp_ack_s \in [Boards -> Nat] /\ ack_queue_empty \in [Boards -> BOOLEAN]
  BY DEF InitBoot, InitThreads, Idle
<1>4. /\ send_queue \in [Boards -> PacketSet \cup {NONE}]
      /\ recv_data \in [Boards -> PacketSet \cup {NONE}]
      /\ ack_queue \in [Boards -> PacketSet \cup {NONE}]
  BY DEF InitBoot, InitThreads, Idle
<1>5. todo \subseteq TokenCommands /\ TokenCommands \subseteq Commands
  BY DEF InitBoot, TokenCommands
<1>6. faults \in 0 .. MaxFaults
  BY BoardsAssumption DEF InitBoot, InitThreads
<1>7. NbrTypes
  <2>1. {} \in SUBSET IDs /\ [h \in {} |-> NONE] \in [{} -> Nbr_t]
    OBVIOUS
  <2>2. QED
    BY <2>1 DEF NbrTypes, InitBoot
<1>8. QED
  BY <1>1, <1>2, <1>3, <1>4, <1>5, <1>6, <1>7 DEF TypeInv, PlainTypes

LEMMA InitIInv == InitBoot => IInv /\ CompleteInv /\ Walk!Init
<1> SUFFICES ASSUME InitBoot PROVE IInv /\ CompleteInv /\ Walk!Init
  OBVIOUS
<1>1. ASSUME NEW b \in Boards
      PROVE  /\ NoSend(b) /\ NoRecv(b) /\ NoAck(b) /\ NoCall(b) /\ NoRouting(b)
             /\ access_point[b] <=> b # 0
             /\ assoc[b] = NONE /\ wifi_ssid[b] = PIDOG
             /\ ID[b] = IF b = 0 THEN 0 ELSE DEFAULT_ID
             /\ pc[b] = IF b = 0 THEN "boot" ELSE "poll"
             /\ ~ knows_nbrs[b] /\ ID_is_nbr[b] = {}
  BY DEF InitBoot, InitThreads, Idle, NoSend, NoRecv, NoAck, NoCall, NoRouting, MASTER_ID
<1>2. ASSUME NEW b \in Boards
      PROVE  /\ ~ Holder(b) /\ ~ TokenQueued(b) /\ ~ TokenArrived(b) /\ ~ AckDue(b)
             /\ Waiting(b) \/ BootPhase(b)
  BY <1>1 DEF NoSend, NoRecv, NoAck, Holder, TokenQueued, TokenArrived, HoldsToken, AckDue, Waiting,
     BootPhase
<1>3. Tokens = {}
  BY <1>2 DEF Tokens, TokenQueued, TokenArrived
<1>4. Walk!Init
  BY <1>3 DEF InitBoot, Walk!Init, Walk!NoID, MASTER_ID, DEFAULT_ID
<1>5. Count = 1
  <2>1. \A b \in Boards : ID[b] # DEFAULT_ID <=> b = 0
    BY <1>1, BootNumbers
  <2>2. WithID = {0}
    BY <2>1, BootNumbers DEF WithID
  <2>3. QED
    BY <2>2, FS_Singleton DEF Count
<1>6. (\A b \in Boards : Phase(b)) /\ OneHolder /\ Fresh
  BY <1>1, <1>2 DEF Phase, OneHolder, Fresh
<1>7. IDsOK
  BY <1>1, <1>2, <1>5, BootNumbers DEF IDsOK
<1>8. NamesOK /\ NumbersOK /\ LinksOK
  BY <1>1, <1>2, BootNumbers DEF NamesOK, NumbersOK, LinksOK
<1>9. WalkInv
  BY <1>6, <1>7, <1>8 DEF WalkInv
<1>10. CompleteInv
  BY <1>1, <1>2 DEF CompleteInv, Awaited, Listed
<1>11. QED
  BY <1>4, <1>9, <1>10, InitBootTypes DEF IInv

LEMMA StutterStep ==
  ASSUME UNCHANGED vars
  PROVE  /\ TypeInv => TypeInv'
         /\ NbrTypes => NbrTypes'
         /\ TypeInv /\ WalkInv => WalkInv'
         /\ CompleteInv => CompleteInv'
         /\ UNCHANGED Walk!vars
<1>1. UNCHANGED <<ID, parent_ID, wifi_ssid, knows_nbrs, ID_is_nbr, dist_vector, routing_table,
                  nbrs, access_point, assoc, phase, target_ID, signal_connect_thread,
                  next_dv_scan, pc, joining, pidogs_found, signal_send_thread, send_queue,
                  recv_data,
                  new_udp_recv_s, due, ack_queue, new_udp_ack_s, ack_queue_empty, todo, faults>>
  BY DEF vars, selfVars, radioVars, connectVars, sendVars, recvVars, ackVars, envVars
<1>2. TypeInv => TypeInv'
  BY <1>1 DEF TypeInv, PlainTypes
<1>3. NbrTypes => NbrTypes'
  BY <1>1 DEF NbrTypes
<1>4. \A c \in Boards : Same(c)
  BY <1>1 DEF Same
<1>5. ASSUME TypeInv, WalkInv PROVE WalkInv'
  <2>1. \A c \in Boards : /\ Phase(c)' /\ (Holder(c)' <=> Holder(c))
                         /\ (Waiting(c)' <=> Waiting(c)) /\ (BootPhase(c)' <=> BootPhase(c))
                         /\ (TokenArrived(c)' <=> TokenArrived(c))
                         /\ (TokenQueued(c)' <=> TokenQueued(c))
                         /\ (AckDue(c)' <=> AckDue(c)) /\ (Woken(c)' <=> Woken(c))
                         /\ (NoRecv(c)' <=> NoRecv(c)) /\ (NoCall(c)' <=> NoCall(c))
    BY <1>4, <1>5, SamePhase DEF WalkInv
  <2>2. Count' = Count /\ \A a, c \in Boards : LinkOK(a, c)' <=> LinkOK(a, c)
    BY <1>1, IDsSame
  <2>3. OneHolder' /\ (Started \/ Fresh)'
    BY <1>1, <1>5, <2>1 DEF WalkInv, OneHolder, Started, Fresh
  <2>4. IDsOK'
    BY <1>1, <1>5, <2>1, <2>2 DEF WalkInv, IDsOK
  <2>5. NamesOK'
    BY <1>1, <1>5, <2>1 DEF WalkInv, NamesOK
  <2>6. NumbersOK'
    <3>1. NumbersOK
      BY <1>5 DEF WalkInv
    <3>2. \A c \in Boards : LinkOK(recv_data[c].ip, c)' <=> LinkOK(recv_data[c].ip, c)
      BY <1>1 DEF LinkOK
    <3>3. QED
      BY <1>1, <2>1, <2>2, <3>1, <3>2 DEF NumbersOK
  <2>7. LinksOK'
    <3>1. LinksOK /\ \A c \in Boards : assoc[c] # NONE => assoc[c] \in Boards
      BY <1>5 DEF WalkInv, TypeInv, PlainTypes
    <3>2. QED
      BY <1>1, <2>1, <2>2, <3>1 DEF LinksOK
  <2>8. QED
    BY <2>1, <2>3, <2>4, <2>5, <2>6, <2>7 DEF WalkInv
<1>6. CompleteInv => CompleteInv'
  BY <1>1 DEF CompleteInv, Awaited, Listed, Returning, Waits, Holder, TokenQueued, TokenArrived, AckDue,
     ToSend, NoRecv
<1>7. UNCHANGED Walk!vars
  <2>1. Tokens' = Tokens
    BY <1>1 DEF Tokens, Board
  <2>2. QED
    BY <1>1, <2>1 DEF Walk!vars
<1>8. QED
  BY <1>2, <1>3, <1>5, <1>6, <1>7

LEMMA StepIInv == IInv /\ [Next]_vars => IInv' /\ [Walk!Next]_(Walk!vars)
<1> SUFFICES ASSUME IInv, [Next]_vars PROVE IInv' /\ [Walk!Next]_(Walk!vars)
  OBVIOUS
<1>1. TypeInv /\ WalkInv /\ NbrTypes
  BY DEF IInv
<1>2. CASE Next
  <2>1. PICK b \in Boards : BootStep(b)
    BY <1>1, <1>2, BootSteps
  <2>2. QED
    BY <1>1, <2>1, WalkStep, NbrStep DEF IInv
<1>3. CASE UNCHANGED vars
  BY <1>1, <1>3, StutterStep DEF IInv
<1>4. QED
  BY <1>2, <1>3

(* The inductive invariant holds in every state of the program.            *)
THEOREM BootInvariant == SpecBoot => []IInv
<1>1. InitBoot => IInv
  BY InitIInv
<1>2. IInv /\ [Next]_vars => IInv'
  BY StepIInv
<1>3. QED
  BY <1>1, <1>2, PTL DEF SpecBoot

(* All variables keep their types: the IDs that the token hands out stay   *)
(* below MAX_NODES, and nobody looks up an ID that is none.                *)
THEOREM BootTypeCorrect == SpecBoot => []TypeOK
<1>1. IInv => TypeOK
  BY DEF IInv, TypeInv, PlainTypes, NbrTypes, TypeOK
<1>2. QED
  BY <1>1, BootInvariant, PTL

(* The threads, queues, buffers, scans and joins of all boards, with all   *)
(* that may fail, implement the walk of one token (main.c:333-360,         *)
(* 651-686).                                                               *)
THEOREM BootImplementsWalk == SpecBoot => ImplementsWalk
<1>1. InitBoot => Walk!Init
  BY InitIInv
<1>2. IInv /\ [Next]_vars => [Walk!Next]_(Walk!vars)
  BY StepIInv
<1>3. QED
  BY <1>1, <1>2, BootInvariant, PTL DEF SpecBoot, ImplementsWalk, Walk!Spec

LEMMA OneToken == WalkInv => UniqueToken
<1> SUFFICES ASSUME WalkInv PROVE UniqueToken
  OBVIOUS
<1> DEFINE Q == {b \in Boards : TokenQueued(b)}
           A == {b \in Boards : TokenArrived(b)}
<1>1. /\ Q = {b \in Boards : HoldsToken(send_queue[b])}
      /\ A = {b \in Boards : HoldsToken(recv_data[b])}
  BY DEF TokenQueued, TokenArrived
<1>2. \A a, b \in Q \cup A : a = b
  BY DEF WalkInv, OneHolder, Holder
<1>3. Q \cap A = {}
  BY PhaseFacts DEF WalkInv
<1>4. CASE Q \cup A = {}
  <2>1. Q = {} /\ A = {}
    BY <1>4
  <2>2. Cardinality(Q) = 0 /\ Cardinality(A) = 0
    BY <2>1, FS_EmptySet
  <2> HIDE DEF Q, A
  <2>3. QED
    BY <1>1, <2>2 DEF UniqueToken
<1>5. ASSUME NEW b \in Q \cup A PROVE UniqueToken
  <2>1. (Q = {b} /\ A = {}) \/ (Q = {} /\ A = {b})
    BY <1>2, <1>3, <1>5
  <2>2. /\ Cardinality({b}) = 1 /\ Cardinality({}) = 0
    BY FS_Singleton, FS_EmptySet
  <2> HIDE DEF Q, A
  <2>3. QED
    BY <1>1, <2>1, <2>2 DEF UniqueToken
<1>6. QED
  BY <1>4, <1>5

(* At most one token is in any buffer of any board: what is sent on is     *)
(* cleared, what is acknowledged is not sent again (main.c:333-360,        *)
(* 651-686).                                                               *)
THEOREM BootUniqueToken == SpecBoot => []UniqueToken
<1>1. IInv => UniqueToken
  BY OneToken DEF IInv
<1>2. QED
  BY <1>1, BootInvariant, PTL

LEMMA NewNumber == WalkInv => UniqueIDs
<1> SUFFICES ASSUME WalkInv PROVE UniqueIDs
  OBVIOUS
<1>1. \A a, b \in Boards : ID[a] = ID[b] /\ ID[a] # DEFAULT_ID => a = b
  BY DEF WalkInv, IDsOK
<1>2. ASSUME NEW b \in Boards, HoldsToken(recv_data[b]), NEW a \in Boards
      PROVE  ID[a] # recv_data[b].num
  <2>1. recv_data[b].num = Count
    BY <1>2 DEF WalkInv, NumbersOK, TokenArrived
  <2>2. ID[a] < Count /\ Count \in Nat
    BY CountIsSmall DEF WalkInv, IDsOK
  <2>3. QED
    BY <2>1, <2>2
<1>3. QED
  BY <1>1, <1>2 DEF UniqueIDs

(* No ID is given twice, and the token's next number is nobody's           *)
(* (main.c:660-664).                                                       *)
THEOREM BootUniqueIDs == SpecBoot => []UniqueIDs
<1>1. IInv => UniqueIDs
  BY NewNumber DEF IInv
<1>2. QED
  BY <1>1, BootInvariant, PTL

-----------------------------------------------------------------------------
(* What holds as long as nothing fails *)

LEMMA FaultsCount ==
  ASSUME TypeInv, NEW b \in Boards, BootStep(b), faults' = 0
  PROVE  faults' = faults
<1>1. faults \in Nat
  BY DEF TypeInv, PlainTypes
<1>2. Send(b) \/ Ack(b) => faults' = faults \/ faults' = faults + 1
  BY DEF Send, Ack, Transmit, Fault
<1>3. RecvAck(b) \/ RecvToken(b) \/ (\E c \in Commands : Serial(b, c)) => faults' = faults
  BY DEF RecvAck, RecvToken, TakePacket, Serial, envVars
<1>4. EnableAp(b) \/ StartNfScan(b) \/ StartJoin(b) => faults' = faults
  BY DEF EnableAp, StartNfScan, StartJoin, Block, envVars
<1>5. (\E a \in Boards : NfScanFound(b, a)) \/ NfScanNobody(b) \/ NfScanFails(b)
        => faults' = faults \/ faults' = faults + 1
  BY DEF NfScanFound, NfScanNobody, NfScanFails, AwaitAps, Fault
<1>6. NfJoin(b) \/ Join(b) \/ JoinTimeout(b) \/ MasterBoot(b)
        => faults' = faults \/ faults' = faults + 1
  BY DEF NfJoin, Join, JoinTimeout, MasterBoot, Joined, JoinFails, Fault
<1>7. faults' = faults \/ faults' = faults + 1
  BY <1>2, <1>3, <1>4, <1>5, <1>6 DEF BootStep
<1>8. QED
  BY <1>1, <1>7

LEMMA SameReturning ==
  ASSUME NEW c \in Boards, Same(c)
  PROVE  /\ Returning(c)' <=> Returning(c)
         /\ access_point'[c] = access_point[c]
         /\ AckDue(c)' <=> AckDue(c)
         /\ TokenArrived(c)' <=> TokenArrived(c)
         /\ Holder(c)' <=> Holder(c)
<1>1. Returning(c)' <=> Returning(c)
  BY DEF Same, Returning
<1>2. QED
  BY <1>1, SamePhase DEF Same

(* A step of one board, which has the token after it, hosts, or is about   *)
(* to host                                                                 *)
LEMMA AwaitedKept ==
  ASSUME TypeInv, WalkInv, WalkInv', Awaited, NEW b \in Boards, Others(b),
         Holder(b)' => Holder(b),
         Holder(b)' \/ access_point'[b] \/ Returning(b)',
         \A a \in Boards : a # b /\ assoc[a] # NONE => assoc'[a] = assoc[a] \/ ~ Waits(a, assoc[a]),
         \A a \in Boards : Waits(a, b) => AckDue(b)'
  PROVE  Awaited'
<1> SUFFICES ASSUME NEW a \in Boards, NEW h \in Boards, Holder(h)', a # h, ~ access_point'[a]
             PROVE  Returning(a)' \/ Waits(a, h)'
  BY DEF Awaited
<1>1. CASE a = b
  <2>1. ~ Holder(b)'
    BY <1>1 DEF WalkInv, OneHolder
  <2>2. QED
    BY <1>1, <2>1
<1>2. CASE a # b
  <2>1. Same(a) /\ (h # b => Same(h))
    BY <1>2 DEF Others
  <2>2. Holder(h)
    BY <2>1, SameReturning
  <2>3. Returning(a) \/ Waits(a, h)
    BY <2>1, <2>2, SameReturning DEF Awaited
  <2>4. CASE Returning(a)
    BY <2>1, <2>4, SameReturning
  <2>5. CASE Waits(a, h)
    <3>1. assoc'[a] = h
      BY <1>2, <2>5, NoneAssumption DEF Waits
    <3>2. TokenArrived(h)' \/ AckDue(h)'
      <4>1. CASE h = b
        BY <2>5, <4>1
      <4>2. CASE h # b
        BY <2>1, <2>5, <4>2, SameReturning DEF Waits
      <4>3. QED
        BY <4>1, <4>2
    <3>3. QED
      BY <3>1, <3>2 DEF Waits
  <2>6. QED
    BY <2>3, <2>4, <2>5
<1>3. QED
  BY <1>1, <1>2

(* The board that has sent the token waits for the ack.                    *)
LEMMA AwaitedSend ==
  ASSUME TypeInv, WalkInv, Awaited, NEW b \in Boards, Send(b)
  PROVE  Awaited'
<1>1. /\ WalkInv' /\ QueuedPhase(b) /\ TokenQueued(b) /\ UNCHANGED <<access_point, assoc>>
      /\ \/ \A c \in Boards : ~ Holder(c)'
         \/ \E a \in Boards :
              /\ TokenArrived(a)' /\ recv_data'[a].src = ID[b]
              /\ assoc[b] = a /\ \A c \in Boards : c # a /\ c # b => Same(c)
  BY WalkSend
<1>2. CASE \A c \in Boards : ~ Holder(c)'
  BY <1>2 DEF Awaited
<1>3. ASSUME NEW a \in Boards, TokenArrived(a)', assoc[b] = a,
             \A c \in Boards : c # a /\ c # b => Same(c)
      PROVE  Awaited'
  <2> SUFFICES ASSUME NEW c \in Boards, NEW h \in Boards, Holder(h)', c # h, ~ access_point'[c]
               PROVE  Returning(c)' \/ Waits(c, h)'
    BY DEF Awaited
  <2>1. h = a
    BY <1>1, <1>3 DEF WalkInv, OneHolder, Holder
  <2>2. CASE c = b
    BY <1>1, <1>3, <2>1, <2>2 DEF Waits
  <2>3. CASE c # b
    <3>1. Same(c) /\ ~ access_point[c] /\ Holder(b)
      BY <1>1, <1>3, <2>1, <2>3 DEF Holder
    <3>2. ~ Waits(c, b)
      BY <1>1 DEF Waits, QueuedPhase, NoRecv, NoAck, TokenArrived, HoldsToken, AckDue
    <3>3. QED
      BY <2>3, <3>1, <3>2, SameReturning DEF Awaited
  <2>4. QED
    BY <2>2, <2>3
<1>4. QED
  BY <1>1, <1>2, <1>3

(* The ack reaches whoever waits for it.                                   *)
LEMMA AwaitedAck ==
  ASSUME TypeInv, WalkInv, Awaited, NEW b \in Boards, Ack(b), faults' = 0
  PROVE  Awaited'
<1> DEFINE h == ack_queue[b].ip
<1>1. /\ WalkInv' /\ AckDue(b) /\ TokenQueued(b)' /\ UNCHANGED <<access_point, assoc>>
      /\ \A c \in Boards : c # b => ~ Holder(c)'
      /\ \/ ~ Linked(b, h)
         \/ recv_data'[h] # NONE /\ \A c \in Boards : c # b /\ c # h => Same(c)
  BY WalkAck
<1>2. h \in Boards /\ assoc[h] = b /\ Holder(b) /\ access_point[b]
  BY <1>1, AckPhase DEF AckDue
<1>3. /\ recv_data'[h] # NONE /\ \A c \in Boards : c # b /\ c # h => Same(c)
      /\ \A c \in Boards : assoc[c] = b => c = h
      /\ ~ access_point[h]
  <2>1. Linked(b, h)
    BY <1>2 DEF Linked
  <2>2. assoc[h] # NONE
    BY <1>2, NoneAssumption
  <2>3. ~ access_point[h] /\ \A c \in Boards : assoc[c] = assoc[h] => c = h
    BY <1>2, <2>2 DEF WalkInv, LinksOK
  <2>4. QED
    BY <1>1, <1>2, <2>1, <2>3
<1> HIDE DEF h
<1> SUFFICES ASSUME NEW c \in Boards, NEW k \in Boards, Holder(k)', c # k, ~ access_point'[c]
             PROVE  Returning(c)' \/ Waits(c, k)'
  BY DEF Awaited
<1>4. k = b
  BY <1>1
<1>5. CASE c = h
  BY <1>1, <1>3, <1>5 DEF Returning
<1>6. CASE c # h
  <2>1. Same(c) /\ ~ Waits(c, b) /\ c # b
    BY <1>3, <1>4, <1>6 DEF Waits
  <2>2. QED
    BY <1>2, <2>1, SameReturning DEF Awaited
<1>7. QED
  BY <1>5, <1>6

(* The steps of a board that keeps the token, or ends its turn             *)
LEMMA AwaitedOthers ==
  ASSUME TypeInv, WalkInv, Awaited, NEW b \in Boards, BootStep(b), ~ Send(b), ~ Ack(b)
  PROVE  Awaited'
<1>1. CASE RecvAck(b)
  <2>1. /\ WalkInv' /\ Others(b) /\ AckedPhase(b) /\ EndPhase(b)'
        /\ UNCHANGED <<access_point, assoc, send_queue>>
    BY <1>1, WalkRecvAck
  <2>2. Returning(b)' /\ ~ Holder(b)' /\ ~ TokenArrived(b) /\ ~ AckDue(b)
    BY <2>1 DEF AckedPhase, EndPhase, NoSend, NoRecv, NoAck, Returning, Holder, TokenQueued,
       TokenArrived, HoldsToken, AckDue
  <2>3. QED
    BY <2>1, <2>2, AwaitedKept DEF Waits
<1>2. CASE RecvToken(b)
  <2>1. /\ WalkInv' /\ Others(b) /\ TokenArrived(b) /\ TokenQueued(b)' /\ AckDue(b)'
        /\ assoc' = assoc
    BY <1>2, WalkRecvToken
  <2>2. QED
    BY <2>1, AwaitedKept DEF Holder
<1>3. CASE \E c \in Commands : Serial(b, c)
  <2>1. /\ WalkInv' /\ TokenQueued(0)' /\ 0 \in Boards
        /\ \A c \in Boards : ~ access_point'[c] => c = 0
    BY <1>3, WalkSerial, BootNumbers
  <2>2. \A h \in Boards : Holder(h)' => h = 0
    BY <2>1 DEF WalkInv, OneHolder, Holder
  <2>3. QED
    BY <2>1, <2>2 DEF Awaited
<1>4. CASE EnableAp(b)
  <2>1. /\ WalkInv' /\ Others(b) /\ EndPhase(b) /\ access_point'[b]
        /\ UNCHANGED <<send_queue, recv_data>>
        /\ \A c \in Boards : c # b => assoc'[c] = assoc[c]
    BY <1>4, WalkEnableAp
  <2>2. /\ Holder(b)' => Holder(b)
        /\ ~ TokenArrived(b) /\ ~ AckDue(b)
    BY <2>1 DEF EndPhase, NoRecv, NoAck, Holder, TokenQueued, TokenArrived, HoldsToken, AckDue
  <2>3. QED
    BY <2>1, <2>2, AwaitedKept DEF Waits
<1>5. CASE StartNfScan(b) \/ StartJoin(b)
  <2>1. /\ WalkInv' /\ Others(b) /\ TokenQueued(b) /\ TokenQueued(b)'
        /\ Woken(b) \/ HomeCall(b)
    BY <1>5, WalkBlock
  <2>2. ~ TokenArrived(b) /\ ~ AckDue(b)
    BY <2>1 DEF Woken, HomeCall, NoRecv, NoAck, TokenArrived, HoldsToken, AckDue
  <2>3. \A a \in Boards : ~ Waits(a, b)
    BY <2>2 DEF Waits
  <2>4. \A a \in Boards : a # b => assoc'[a] = IF assoc[a] = b THEN NONE ELSE assoc[a]
    BY <1>5 DEF StartNfScan, StartJoin, Block, BecomeStation
  <2>5. \A a \in Boards : a # b /\ assoc[a] # NONE => assoc'[a] = assoc[a] \/ ~ Waits(a, assoc[a])
    BY <2>3, <2>4
  <2>6. QED
    BY <2>1, <2>3, <2>5, AwaitedKept DEF Holder
<1>6. ASSUME pc[b] \in {"nf_scan", "nf_join", "join"}, WalkInv', Others(b),
             Holder(b)' \/ Returning(b)'
      PROVE  Awaited'
  <2>1. BusyPhase(b) /\ Holder(b) /\ \A a \in Boards : assoc[a] = NONE
    BY <1>6, BusyFacts
  <2>2. \A a \in Boards : ~ Waits(a, b)
    BY <2>1 DEF BusyPhase, NoRecv, NoAck, Waits, TokenArrived, HoldsToken, AckDue
  <2>3. QED
    BY <1>6, <2>1, <2>2, AwaitedKept
<1>7. ASSUME NEW a \in Boards, NfScanFound(b, a) PROVE Awaited'
  <2>1. pc[b] = "nf_scan" /\ WalkInv' /\ Others(b) /\ Holder(b)'
    BY <1>7, WalkNfScanFound DEF NfScanFound, Holder
  <2>2. QED
    BY <1>6, <2>1
<1>8. CASE NfScanNobody(b) \/ NfScanFails(b)
  <2>1. pc[b] = "nf_scan" /\ WalkInv' /\ Others(b) /\ (TokenQueued(b)' \/ EndPhase(b)')
    BY <1>8, WalkNfScanNobody, WalkNfScanFails DEF NfScanNobody, NfScanFails
  <2>2. Holder(b)' \/ Returning(b)'
    BY <2>1 DEF Holder, EndPhase, Returning
  <2>3. QED
    BY <1>6, <2>1, <2>2
<1>9. CASE NfJoin(b) \/ Join(b) \/ JoinTimeout(b)
  <2>1. pc[b] \in {"nf_join", "join"} /\ WalkInv' /\ Others(b) /\ TokenQueued(b)'
    BY <1>9, WalkNfJoin, WalkJoin, WalkJoinTimeout DEF NfJoin, Join, JoinTimeout
  <2>2. QED
    BY <1>6, <2>1 DEF Holder
<1>10. CASE MasterBoot(b)
  BY <1>10, WalkMasterBoot DEF Awaited
<1>11. QED
  BY <1>1, <1>2, <1>3, <1>4, <1>5, <1>7, <1>8, <1>9, <1>10 DEF BootStep

(* Nobody in range of a board that knows its neighbors gets another ID.    *)
LEMMA ListedRecvToken ==
  ASSUME TypeInv, NbrTypes, WalkInv, Listed, NEW b \in Boards, RecvToken(b)
  PROVE  Listed'
<1>1. /\ UNCHANGED <<ID_is_nbr, knows_nbrs, nbrs>>
      /\ \/ ID[b] = DEFAULT_ID /\ ID' = [ID EXCEPT ![b] = Count]
         \/ ID' = ID
  BY WalkRecvToken
<1>2. \A c \in Boards : ID[c] # DEFAULT_ID => ID'[c] = ID[c]
  BY <1>1 DEF TypeInv, PlainTypes
<1>3. /\ DEFAULT_ID \notin IDs
      /\ \A c \in Boards : ID_is_nbr[c] \subseteq IDs /\ InRange[c] \subseteq Boards
  BY BootNumbers, BoardsAssumption DEF TypeInv, PlainTypes
<1>4. \A c \in Boards : DOMAIN nbrs[c] \subseteq IDs
  BY DEF NbrTypes
<1>5. ASSUME NEW c \in Boards, NEW id \in ID_is_nbr[c]
      PROVE  \E a \in InRange[c] : ID'[a] = id
  <2>1. PICK a \in InRange[c] : ID[a] = id
    BY DEF Listed
  <2>2. a \in Boards /\ ID[a] # DEFAULT_ID
    BY <1>3, <2>1
  <2>3. QED
    BY <1>2, <2>1, <2>2
<1>6. ASSUME NEW c \in Boards, knows_nbrs[c]
      PROVE  DOMAIN nbrs[c] = {ID'[a] : a \in InRange[c]}
  <2>1. DOMAIN nbrs[c] = {ID[a] : a \in InRange[c]}
    BY <1>6 DEF Listed
  <2>2. \A a \in InRange[c] : ID'[a] = ID[a]
    <3> SUFFICES ASSUME NEW a \in InRange[c] PROVE ID'[a] = ID[a]
      OBVIOUS
    <3>1. ID[a] \in IDs
      BY <1>4, <2>1
    <3>2. QED
      BY <1>2, <1>3, <3>1
  <2>3. QED
    BY <2>1, <2>2
<1>7. QED
  BY <1>1, <1>5, <1>6 DEF Listed

(* A scan that nobody has to be awaited for sees all neighbors.            *)
LEMMA ListedNobody ==
  ASSUME TypeInv, NbrTypes, WalkInv, Awaited, Listed, NEW b \in Boards, NfScanNobody(b),
         faults' = 0
  PROVE  Listed'
<1> DEFINE found == ID_is_nbr[b] \cup PicoIDs(b)
           all == {ID[a] : a \in InRange[b]}
<1>1. /\ pc[b] = "nf_scan" /\ Pidogs(b) = {} /\ AwaitAps(b)
      /\ ID_is_nbr' = [ID_is_nbr EXCEPT ![b] = found]
      /\ knows_nbrs' = [knows_nbrs EXCEPT ![b] = TRUE]
      /\ ID' = ID
  BY DEF NfScanNobody, NobodyLeft
<1>2. IF knows_nbrs[b] THEN nbrs' = nbrs ELSE nbrs' = [nbrs EXCEPT ![b] = [h \in found |-> NewNbr]]
  BY DEF NfScanNobody, NobodyLeft
<1>3. /\ BusyPhase(b) /\ Holder(b) /\ \A a \in InRange[b] : a \in Boards /\ a # b
  BY <1>1, BusyFacts, BoardsAssumption
<1>4. \A a \in InRange[b] : ~ Returning(a)
  <2>1. faults \in Nat
    BY DEF TypeInv, PlainTypes
  <2>2. QED
    BY <1>1, <2>1 DEF AwaitAps, Fault
<1>5. \A a \in Boards : ~ Waits(a, b)
  BY <1>3 DEF BusyPhase, NoRecv, NoAck, Waits, TokenArrived, HoldsToken, AckDue
<1>6. \A a \in InRange[b] : access_point[a]
  BY <1>3, <1>4, <1>5 DEF Awaited
<1>7. Visible(b) = InRange[b]
  BY <1>6 DEF Visible
<1>8. \A a \in InRange[b] : wifi_ssid[a] = ID[a] /\ wifi_ssid[a] # PIDOG
  BY <1>1, <1>3, <1>7 DEF Pidogs, WalkInv, NamesOK
<1>9. PicoIDs(b) = all
  BY <1>7, <1>8 DEF PicoIDs
<1>10. ID_is_nbr[b] \subseteq all
  BY DEF Listed
<1>11. found = all
  BY <1>9, <1>10
<1> HIDE DEF found
<1>12. ASSUME NEW c \in Boards, NEW id \in ID_is_nbr'[c]
       PROVE  \E a \in InRange[c] : ID'[a] = id
  <2>1. CASE c = b
    <3>1. id \in all
      BY <1>1, <1>11, <1>12, <2>1 DEF TypeInv, PlainTypes
    <3>2. QED
      BY <1>1, <2>1, <3>1
  <2>2. CASE c # b
    <3>1. id \in ID_is_nbr[c]
      BY <1>1, <1>12, <2>2 DEF TypeInv, PlainTypes
    <3>2. QED
      BY <1>1, <3>1 DEF Listed
  <2>3. QED
    BY <2>1, <2>2
<1>13. ASSUME NEW c \in Boards, knows_nbrs'[c]
       PROVE  DOMAIN nbrs'[c] = {ID'[a] : a \in InRange[c]}
  <2>1. CASE c = b /\ ~ knows_nbrs[b]
    <3>1. nbrs'[b] = [h \in found |-> NewNbr]
      BY <1>2, <2>1 DEF NbrTypes
    <3>2. DOMAIN nbrs'[b] = all
      BY <1>11, <3>1
    <3>3. QED
      BY <1>1, <2>1, <3>2
  <2>2. CASE ~ (c = b /\ ~ knows_nbrs[b])
    <3>1. nbrs'[c] = nbrs[c] /\ knows_nbrs[c]
      BY <1>1, <1>2, <1>13, <2>2 DEF NbrTypes, TypeInv, PlainTypes
    <3>2. QED
      BY <1>1, <3>1 DEF Listed
  <2>3. QED
    BY <2>1, <2>2
<1>14. QED
  BY <1>12, <1>13 DEF Listed

LEMMA ListedStep ==
  ASSUME TypeInv, NbrTypes, WalkInv, Awaited, Listed, NEW b \in Boards, BootStep(b), faults' = 0
  PROVE  Listed'
<1>1. ASSUME UNCHANGED <<ID, ID_is_nbr, knows_nbrs, nbrs>> PROVE Listed'
  BY <1>1 DEF Listed
<1>2. CASE RecvToken(b)
  BY <1>2, ListedRecvToken
<1>3. CASE NfScanNobody(b)
  BY <1>3, ListedNobody
<1>4. ASSUME NEW a \in Boards, NfScanFound(b, a) PROVE Listed'
  <2>1. UNCHANGED <<ID, knows_nbrs, nbrs>>
    BY <1>4, WalkNfScanFound
  <2>2. ID_is_nbr' = [ID_is_nbr EXCEPT ![b] = ID_is_nbr[b] \cup PicoIDs(b)]
    BY <1>4 DEF NfScanFound
  <2>3. \A c \in Boards : ID_is_nbr'[c] = ID_is_nbr[c] \cup (IF c = b THEN PicoIDs(b) ELSE {})
    BY <2>2 DEF TypeInv, PlainTypes
  <2>4. \A id \in PicoIDs(b) : \E x \in InRange[b] : ID[x] = id
    BY SeenIDs
  <2>5. QED
    BY <2>1, <2>3, <2>4 DEF Listed
<1>5. CASE Send(b) \/ RecvAck(b) \/ Ack(b)
  BY <1>1, <1>5, WalkSend, WalkRecvAck, WalkAck
<1>6. CASE \E c \in Commands : Serial(b, c)
  BY <1>1, <1>6, WalkSerial
<1>7. CASE EnableAp(b) \/ StartNfScan(b) \/ StartJoin(b)
  BY <1>1, <1>7, WalkEnableAp, WalkBlock
<1>8. CASE NfJoin(b) \/ Join(b) \/ JoinTimeout(b) \/ MasterBoot(b)
  BY <1>1, <1>8, WalkNfJoin, WalkJoin, WalkJoinTimeout, WalkMasterBoot
<1>9. ~ NfScanFails(b)
  <2>1. faults \in Nat
    BY DEF TypeInv, PlainTypes
  <2>2. QED
    BY <2>1 DEF NfScanFails, Fault
<1>10. QED
  BY <1>2, <1>3, <1>4, <1>5, <1>6, <1>7, <1>8, <1>9 DEF BootStep

LEMMA StepComplete == IInv /\ CompleteInv /\ [Next]_vars => CompleteInv'
<1> SUFFICES ASSUME IInv, CompleteInv, [Next]_vars, faults' = 0 PROVE Awaited' /\ Listed'
  BY DEF CompleteInv
<1>1. TypeInv /\ WalkInv /\ NbrTypes
  BY DEF IInv
<1>2. CASE Next
  <2>1. PICK b \in Boards : BootStep(b)
    BY <1>1, <1>2, BootSteps
  <2>2. Awaited /\ Listed
    BY <1>1, <2>1, FaultsCount DEF CompleteInv
  <2>3. Awaited'
    BY <1>1, <2>1, <2>2, AwaitedSend, AwaitedAck, AwaitedOthers
  <2>4. Listed'
    BY <1>1, <2>1, <2>2, ListedStep
  <2>5. QED
    BY <2>3, <2>4
<1>3. CASE UNCHANGED vars
  BY <1>3, StutterStep DEF CompleteInv
<1>4. QED
  BY <1>2, <1>3

(* As long as nothing fails, whoever does not host while a board has the   *)
(* token is about to, or waits for its ack; and what is known of neighbors *)
(* is right.                                                               *)
THEOREM NothingSpoiled == SpecBoot => []CompleteInv
<1>1. InitBoot => CompleteInv
  BY InitIInv
<1>2. IInv /\ CompleteInv /\ [Next]_vars => CompleteInv'
  BY StepComplete
<1>3. QED
  BY <1>1, <1>2, BootInvariant, PTL DEF SpecBoot

(* A board that believes to know its neighbors knows all in range, not     *)
(* only its parent and children, as long as nothing fails on the radio     *)
(* (wifi_scan.c:86-113, main.c:333-360).                                   *)
THEOREM BootNeighborsComplete == SpecBoot => []NeighborsComplete
<1>1. CompleteInv => NeighborsComplete
  BY DEF CompleteInv, Listed, NeighborsComplete
<1>2. QED
  BY <1>1, NothingSpoiled, PTL

=============================================================================
