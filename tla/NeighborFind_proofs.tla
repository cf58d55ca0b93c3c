------------------------ MODULE NeighborFind_proofs -------------------------
(***************************************************************************)
(* The program of neighbor_find/ implements the walk of one token, for any *)
(* boards, any ranges, any number of faults and of packets that wait.      *)
(*                                                                         *)
(* The inductive invariant follows the token: a board is in one of nine    *)
(* phases, at most one board is in a phase that holds the token, and what  *)
(* packets, links and names say about IDs is true.  A second invariant on  *)
(* top of it says what holds as long as nothing fails: whoever is not      *)
(* hosting is about to, so a scan sees all neighbors.                      *)
(***************************************************************************)
EXTENDS NeighborFind, TLAPS, FiniteSetTheorems

-----------------------------------------------------------------------------
(* Where the token is *)

Queued(b) == send_queue[b] # NONE /\ send_queue[b].type = "token"
Arrived(b) == recv_data[b] # NONE /\ recv_data[b].type = "token"
Working(b) == \/ pc[b] \in {"scan", "pidog", "parent"}
              \/ signal_connect_thread[b] /\ target_ID[b] = RUN_SCAN
Holder(b) == Queued(b) \/ Arrived(b) \/ Working(b)

Typed == \A c \in todo : c.kind # "token"

(* How many boards have an ID, which is the number the token carries       *)
Numbered == {b \in Boards : ID[b] # DEFAULT_ID}
Count == Cardinality(Numbered)

-----------------------------------------------------------------------------
(* The phases of a board during a walk *)

NoSend(b) == send_queue[b] = NONE /\ new_udp_send_s[b] = 0
NoRecv(b) == recv_data[b] = NONE /\ new_udp_recv_s[b] = 0
NoAck(b) == new_udp_ack_s[b] = 0 /\ ack_queue_empty[b]
NoCall(b) == ~ signal_connect_thread[b]

(* It waits, as an access point or as a station.                           *)
Idle(b) == /\ pc[b] = "poll"
           /\ NoSend(b) /\ NoRecv(b) /\ NoAck(b) /\ NoCall(b)

BootPhase(b) == /\ b = 0 /\ pc[b] = "boot" /\ ~ access_point[b]
                /\ NoSend(b) /\ NoRecv(b) /\ NoAck(b) /\ NoCall(b)

(* It has the token, owes the ack, is about to scan, scans and joins, has  *)
(* the next holder's packet ready,                                         *)
ArrivedPhase(b) ==
  /\ access_point[b] /\ pc[b] = "poll"
  /\ Arrived(b) /\ new_udp_recv_s[b] = 1
  /\ NoSend(b) /\ NoAck(b) /\ NoCall(b)

AckDue(b) ==
  /\ access_point[b] /\ pc[b] = "poll"
  /\ signal_connect_thread[b] /\ target_ID[b] = RUN_SCAN
  /\ new_udp_ack_s[b] = 1 /\ ~ ack_queue_empty[b]
  /\ ack_queue[b].type = "ack" /\ ack_queue[b].acked = "token"
  /\ ack_queue[b].ip = "station"
  /\ NoSend(b) /\ NoRecv(b)

Woken(b) ==
  /\ access_point[b] /\ pc[b] = "poll"
  /\ signal_connect_thread[b] /\ target_ID[b] = RUN_SCAN
  /\ NoSend(b) /\ NoRecv(b) /\ NoAck(b)

BusyPhase(b) ==
  /\ ~ access_point[b] /\ pc[b] \in {"scan", "pidog", "parent"}
  /\ NoSend(b) /\ NoRecv(b) /\ NoAck(b) /\ NoCall(b)

QueuedPhase(b) ==
  /\ ~ access_point[b] /\ pc[b] = "poll"
  /\ Queued(b) /\ new_udp_send_s[b] = 1
  /\ NoRecv(b) /\ NoAck(b) /\ NoCall(b)

(* and has the ack, and is about to host again.                            *)
AckedPhase(b) ==
  /\ ~ access_point[b] /\ pc[b] = "poll"
  /\ recv_data[b] # NONE /\ recv_data[b].type = "ack"
  /\ recv_data[b].acked = "token" /\ new_udp_recv_s[b] = 1
  /\ NoSend(b) /\ NoAck(b) /\ NoCall(b)

EndPhase(b) ==
  /\ ~ access_point[b] /\ pc[b] = "poll"
  /\ signal_connect_thread[b] /\ target_ID[b] = ENABLE_AP
  /\ NoSend(b) /\ NoRecv(b) /\ NoAck(b)

Phase(b) ==
  \/ Idle(b) \/ BootPhase(b) \/ ArrivedPhase(b) \/ AckDue(b) \/ Woken(b)
  \/ BusyPhase(b) \/ QueuedPhase(b) \/ AckedPhase(b) \/ EndPhase(b)

-----------------------------------------------------------------------------
(* The walk *)

(* The token may go from a to c: to a board it finds, or home.             *)
LinkOK(a, c) ==
  \/ ID[c] = DEFAULT_ID /\ c \in InRange[a]
  \/ ID[c] # DEFAULT_ID /\ a # 0 /\ ID[c] = parent_ID[a]

OneHolder ==
  /\ \A a, b \in Boards : Holder(a) /\ Holder(b) => a = b
  /\ Typed => todo = {} /\ pc[0] # "boot"
  /\ ~ Typed => \A b \in Boards : /\ Idle(b) \/ BootPhase(b)
                                  /\ access_point[b] <=> b # 0

IDsOK ==
  /\ ID[0] = 0
  /\ \A a, b \in Boards : ID[a] = ID[b] /\ ID[a] # DEFAULT_ID => a = b
  /\ \A b \in Boards : ID[b] < Count
  /\ \A b \in Boards :
       ~ access_point[b] \/ Working(b) => ID[b] # DEFAULT_ID
  /\ \A b \in Boards : ID[b] # DEFAULT_ID /\ b # 0 =>
       \E a \in Boards : /\ b \in InRange[a]
                         /\ ID[a] # DEFAULT_ID /\ ID[a] = parent_ID[b]
  /\ ~ Typed => \A b \in Boards : b # 0 => ID[b] = DEFAULT_ID

NamesOK ==
  \A b \in Boards :
    /\ wifi_ssid[b] \in {PIDOG, ID[b]}
    /\ access_point[b] /\ wifi_ssid[b] = PIDOG => ID[b] = DEFAULT_ID \/ Working(b)

NumbersOK ==
  \A b \in Boards :
    /\ Queued(b) => /\ send_queue[b].num = Count
                    /\ send_queue[b].src = ID[b]
                    /\ send_queue[b].ip = "station"
    /\ Arrived(b) => /\ recv_data[b].num = Count
                     /\ recv_data[b].ip = "station"
                     /\ \E a \in Boards : /\ ID[a] = recv_data[b].src
                                          /\ ID[a] # DEFAULT_ID /\ LinkOK(a, b)
    /\ Working(b) => token_id_number[b] = Count

LinksOK ==
  \A a \in Boards : assoc[a] # NONE =>
    /\ ~ access_point[a] /\ pc[a] = "poll" /\ access_point[assoc[a]]
    /\ Woken(assoc[a]) \/ (NoRecv(a) /\ NoCall(a))
    /\ ~ Typed \/ Queued(a) => LinkOK(a, assoc[a])
    /\ \A h \in Boards : Holder(h) => h \in {a, assoc[a]}
    /\ \A b \in Boards : assoc[b] = assoc[a] => b = a

SeekingOK ==
  \A b \in Boards :
    /\ pc[b] = "pidog" => \/ target_ssid[b] = NONE
                          \/ \E a \in InRange[b] : target_ssid[b] = <<a, PIDOG>>
    /\ pc[b] = "parent" => b # 0 /\ \E a \in Boards : target_ssid[b] = <<a, parent_ID[b]>>

WalkInv ==
  /\ \A b \in Boards : Phase(b)
  /\ OneHolder /\ IDsOK /\ NamesOK /\ NumbersOK /\ LinksOK /\ SeekingOK

(* A run without a token *)
DataBoard(b) ==
  /\ pc[b] \in {"boot", "poll"} /\ NoCall(b)
  /\ send_queue[b] # NONE => send_queue[b].type = "data"
  /\ recv_data[b] # NONE =>
       \/ recv_data[b].type = "data"
       \/ recv_data[b].type = "ack" /\ recv_data[b].acked = "data"
  /\ ack_queue[b] # NONE => ack_queue[b].type = "ack" /\ ack_queue[b].acked = "data"
  /\ ~ knows_nbrs[b] /\ ID_is_nbr[b] = {}

DataInv == Typed /\ \A b \in Boards : DataBoard(b)

Filled ==
  \A b \in Boards :
    /\ new_udp_send_s[b] > 0 => send_queue[b] # NONE
    /\ new_udp_recv_s[b] > 0 => recv_data[b] # NONE
    /\ new_udp_ack_s[b] > 0 => ack_queue[b] # NONE
    /\ \A id \in IDs : ID_to_phys_ID[b][id] \in Boards

IInv == TypeOK /\ Filled /\ (DataInv \/ WalkInv)

(* What faults may spoil.  While a board has the token, whoever is not     *)
(* hosting is about to, or waits for its ack;                              *)
Waits(a, h) == assoc[a] = h /\ (Arrived(h) \/ AckDue(h))

Awaited ==
  \A a, h \in Boards : Holder(h) /\ a # h /\ ~ access_point[a] =>
                       Returning(a) \/ Waits(a, h)

(* only neighbors are known, and all of them in the end;                   *)
Listed ==
  \A b \in Boards :
    /\ \A id \in ID_is_nbr[b] : \E a \in InRange[b] : ID[a] = id
    /\ knows_nbrs[b] => \A a \in InRange[b] : ID[a] \in ID_is_nbr[b]

(* and the parent is sought by its own SSID.                               *)
SeeksHome ==
  \A b \in Boards :
    pc[b] = "parent" => target_ssid[b] = <<Board(parent_ID[b]), parent_ID[b]>>

CompleteInv == faults = 0 => Awaited /\ Listed /\ SeeksHome

-----------------------------------------------------------------------------
(* Phases *)

(* A board has the token in five of the phases, one for each way to have   *)
(* it; an access point that has not got it waits.                          *)
LEMMA PhaseFacts ==
  ASSUME NEW b \in Boards, Phase(b)
  PROVE  /\ Queued(b) <=> QueuedPhase(b)
         /\ Arrived(b) <=> ArrivedPhase(b)
         /\ Working(b) <=> AckDue(b) \/ Woken(b) \/ BusyPhase(b)
         /\ access_point[b] /\ ~ Holder(b) => Idle(b)
BY DEF Phase, Queued, Arrived, Working, Holder, Idle, BootPhase, ArrivedPhase, AckDue,
       Woken, BusyPhase, QueuedPhase, AckedPhase, EndPhase, NoSend, NoRecv, NoAck, NoCall,
       RUN_SCAN, ENABLE_AP

(* The part of the state that a phase depends on                           *)
Same(b) ==
  /\ pc'[b] = pc[b] /\ access_point'[b] = access_point[b]
  /\ signal_connect_thread'[b] = signal_connect_thread[b]
  /\ target_ID'[b] = target_ID[b]
  /\ send_queue'[b] = send_queue[b] /\ new_udp_send_s'[b] = new_udp_send_s[b]
  /\ recv_data'[b] = recv_data[b] /\ new_udp_recv_s'[b] = new_udp_recv_s[b]
  /\ ack_queue'[b] = ack_queue[b] /\ new_udp_ack_s'[b] = new_udp_ack_s[b]
  /\ ack_queue_empty'[b] = ack_queue_empty[b]

(* A board that a step does not touch stays in its phase.                  *)
LEMMA SamePhase ==
  ASSUME NEW b \in Boards, Same(b)
  PROVE  /\ Phase(b)' <=> Phase(b)
         /\ Queued(b)' <=> Queued(b)
         /\ Arrived(b)' <=> Arrived(b)
         /\ Working(b)' <=> Working(b)
         /\ Holder(b)' <=> Holder(b)
         /\ Idle(b)' <=> Idle(b)
         /\ BootPhase(b)' <=> BootPhase(b)
         /\ Woken(b)' <=> Woken(b)
         /\ AckDue(b)' <=> AckDue(b)
         /\ NoRecv(b)' <=> NoRecv(b)
         /\ NoCall(b)' <=> NoCall(b)
<1>1. /\ Queued(b)' <=> Queued(b)
      /\ Arrived(b)' <=> Arrived(b)
      /\ Working(b)' <=> Working(b)
  BY DEF Same, Queued, Arrived, Working
<1>2. /\ NoSend(b)' <=> NoSend(b)
      /\ NoRecv(b)' <=> NoRecv(b)
      /\ NoAck(b)' <=> NoAck(b)
      /\ NoCall(b)' <=> NoCall(b)
  BY DEF Same, NoSend, NoRecv, NoAck, NoCall
<1>3. /\ Idle(b)' <=> Idle(b)
      /\ BootPhase(b)' <=> BootPhase(b)
      /\ ArrivedPhase(b)' <=> ArrivedPhase(b)
      /\ Woken(b)' <=> Woken(b)
      /\ BusyPhase(b)' <=> BusyPhase(b)
      /\ QueuedPhase(b)' <=> QueuedPhase(b)
      /\ EndPhase(b)' <=> EndPhase(b)
  BY <1>1, <1>2 DEF Same, Idle, BootPhase, ArrivedPhase, Woken, BusyPhase, QueuedPhase, EndPhase
<1>4. /\ AckDue(b)' <=> AckDue(b)
      /\ AckedPhase(b)' <=> AckedPhase(b)
  BY <1>1, <1>2 DEF Same, AckDue, AckedPhase
<1>5. QED
  BY <1>1, <1>2, <1>3, <1>4 DEF Phase, Holder

-----------------------------------------------------------------------------
(* How many boards have an ID *)

LEMMA CountIsSmall ==
  /\ IsFiniteSet(Numbered) /\ Count \in Nat /\ Count =< MAX_NODES
  /\ \A b \in Boards : ID[b] = DEFAULT_ID => Count < MAX_NODES
<1>1. /\ IsFiniteSet(0 .. MAX_NODES - 1) /\ Cardinality(0 .. MAX_NODES - 1) = MAX_NODES
      /\ MAX_NODES \in Nat
  BY FS_Interval, NeighborFindAssumption
<1>2. Numbered \subseteq 0 .. MAX_NODES - 1
  BY NeighborFindAssumption DEF Numbered
<1>3. IsFiniteSet(Numbered) /\ Count =< MAX_NODES
  BY <1>1, <1>2, FS_Subset DEF Count
<1>4. Count \in Nat
  BY <1>3, FS_CardinalityType DEF Count
<1>5. ASSUME NEW b \in Boards, ID[b] = DEFAULT_ID PROVE Count < MAX_NODES
  <2>1. b \notin Numbered /\ b \in 0 .. MAX_NODES - 1
    BY <1>5, NeighborFindAssumption DEF Numbered
  <2>2. Cardinality(Numbered \cup {b}) = Count + 1
    BY <1>3, <2>1, FS_AddElement DEF Count
  <2>3. Cardinality(Numbered \cup {b}) =< MAX_NODES
    BY <1>1, <1>2, <2>1, FS_Subset
  <2>4. QED
    BY <1>1, <1>4, <2>2, <2>3
<1>6. QED
  BY <1>3, <1>4, <1>5

(* A board that is given an ID counts.                                     *)
LEMMA CountGrows ==
  ASSUME TypeOK, NEW b \in Boards, ID[b] = DEFAULT_ID,
         NEW n \in IDs, ID' = [ID EXCEPT ![b] = n]
  PROVE  Count' = Count + 1
<1>1. Numbered' = Numbered \cup {b} /\ b \notin Numbered
  BY DEF Numbered, TypeOK, IDs, DEFAULT_ID
<1>2. QED
  BY <1>1, CountIsSmall, FS_AddElement DEF Count

-----------------------------------------------------------------------------
(* Types.  The facts about the walk that a lemma needs are among its       *)
(* assumptions.                                                            *)

TypeInv == TypeOK /\ Filled

(* Packets are records of all their fields.                                *)
LEMMA PacketFields ==
  ASSUME NEW p \in Packet_t
  PROVE  /\ p = [type |-> p.type, dest |-> p.dest, src |-> p.src, ip |-> p.ip,
                 num |-> p.num, acked |-> p.acked]
         /\ p.type \in PacketType /\ p.dest \in -2 .. MAX_NODES /\ p.src \in -1 .. MAX_NODES
         /\ p.ip \in {"ap", "station"} /\ p.num \in Number /\ p.acked \in PacketType \cup {""}
BY DEF Packet_t

LEMMA IsPacket ==
  ASSUME NEW type \in PacketType, NEW dest \in -2 .. MAX_NODES, NEW src \in -1 .. MAX_NODES,
         NEW ip \in {"ap", "station"}, NEW num \in Number, NEW acked \in PacketType \cup {""}
  PROVE  [type |-> type, dest |-> dest, src |-> src, ip |-> ip, num |-> num, acked |-> acked]
           \in Packet_t
BY DEF Packet_t

LEMMA AckPacket ==
  ASSUME NEW p \in Packet_t, NEW i \in IDs \cup {DEFAULT_ID}
  PROVE  LET q == [new_packet("ack", p.src, i, p.ip) EXCEPT !.acked = p.type]
         IN  /\ q \in Packet_t /\ q.type = "ack" /\ q.acked = p.type /\ q.ip = p.ip
             /\ q.src = i
<1> DEFINE r == new_packet("ack", p.src, i, p.ip)
<1>1. [r EXCEPT !.acked = p.type] =
        [type |-> "ack", dest |-> p.src, src |-> i, ip |-> p.ip, num |-> 0, acked |-> p.type]
  <2>1. r = [type |-> "ack", dest |-> p.src, src |-> i, ip |-> p.ip, num |-> 0, acked |-> ""]
    BY DEF new_packet
  <2> HIDE DEF r
  <2>2. PICK q : q = [r EXCEPT !.acked = p.type]
    OBVIOUS
  <2>3. q = [type |-> "ack", dest |-> p.src, src |-> i, ip |-> p.ip, num |-> 0, acked |-> p.type]
    BY <2>1, <2>2
  <2>4. QED
    BY <2>2, <2>3
<1>2. /\ MAX_NODES \in Nat
      /\ p.type \in PacketType /\ p.src \in -1 .. MAX_NODES /\ p.ip \in {"ap", "station"}
  BY NeighborFindAssumption, PacketFields
<1>3. [type |-> "ack", dest |-> p.src, src |-> i, ip |-> p.ip, num |-> 0, acked |-> p.type]
        \in Packet_t
  <2>1. /\ "ack" \in PacketType /\ p.src \in -2 .. MAX_NODES /\ i \in -1 .. MAX_NODES
        /\ 0 \in Number
    BY <1>2 DEF PacketType, Number, IDs, DEFAULT_ID
  <2>2. QED
    BY <1>2, <2>1, IsPacket
<1>4. QED
  BY <1>1, <1>3

LEMMA NewPacket ==
  ASSUME NEW type \in {"data", "token"}, NEW dest \in -2 .. MAX_NODES,
         NEW i \in IDs \cup {DEFAULT_ID}, NEW ip \in {"ap", "station"}, NEW n \in Number
  PROVE  LET q == [new_packet(type, dest, i, ip) EXCEPT !.num = n]
         IN  /\ q \in Packet_t /\ q.type = type /\ q.num = n /\ q.ip = ip
             /\ q.src = i
<1> DEFINE r == new_packet(type, dest, i, ip)
<1>1. [r EXCEPT !.num = n] =
        [type |-> type, dest |-> dest, src |-> i, ip |-> ip, num |-> n, acked |-> ""]
  <2>1. r = [type |-> type, dest |-> dest, src |-> i, ip |-> ip, num |-> 0, acked |-> ""]
    BY DEF new_packet
  <2> HIDE DEF r
  <2>2. PICK q : q = [r EXCEPT !.num = n]
    OBVIOUS
  <2>3. q = [type |-> type, dest |-> dest, src |-> i, ip |-> ip, num |-> n, acked |-> ""]
    BY <2>1, <2>2
  <2>4. QED
    BY <2>2, <2>3
<1>2. MAX_NODES \in Nat
  BY NeighborFindAssumption
<1>3. [type |-> type, dest |-> dest, src |-> i, ip |-> ip, num |-> n, acked |-> ""]
        \in Packet_t
  <2>1. type \in PacketType /\ "" \in PacketType \cup {""} /\ i \in -1 .. MAX_NODES
    BY <1>2 DEF PacketType, IDs, DEFAULT_ID
  <2>2. QED
    BY <2>1, IsPacket
<1>4. QED
  BY <1>1, <1>3

LEMMA SentPacket ==
  ASSUME NEW p \in Packet_t, NEW ip \in {"ap", "station"}
  PROVE  LET q == [p EXCEPT !.ip = ip]
         IN  /\ q \in Packet_t /\ q.type = p.type /\ q.acked = p.acked /\ q.ip = ip
             /\ q.src = p.src /\ q.num = p.num
<1>1. [p EXCEPT !.ip = ip] =
        [type |-> p.type, dest |-> p.dest, src |-> p.src, ip |-> ip, num |-> p.num,
         acked |-> p.acked]
  <2>1. p = [type |-> p.type, dest |-> p.dest, src |-> p.src, ip |-> p.ip, num |-> p.num,
             acked |-> p.acked]
    BY PacketFields
  <2>2. PICK q : q = [p EXCEPT !.ip = ip]
    OBVIOUS
  <2>3. q = [type |-> p.type, dest |-> p.dest, src |-> p.src, ip |-> ip, num |-> p.num,
             acked |-> p.acked]
    BY <2>1, <2>2
  <2>4. QED
    BY <2>2, <2>3
<1>2. [type |-> p.type, dest |-> p.dest, src |-> p.src, ip |-> ip, num |-> p.num,
       acked |-> p.acked] \in Packet_t
  BY PacketFields DEF Packet_t
<1>3. QED
  BY <1>1, <1>2

(* The part of it about the receive buffers                                *)
RecvTyped ==
  /\ recv_data \in [Boards -> Packet_t \cup {NONE}]
  /\ new_udp_recv_s \in [Boards -> 0 .. MaxPending]
  /\ \A c \in Boards : new_udp_recv_s[c] > 0 => recv_data[c] # NONE

(* A transmission leaves the packet at one of the boards it reaches, or    *)
(* nothing.                                                                *)
Delivered(a, p) ==
  /\ new_udp_recv_s[a] < MaxPending
  /\ recv_data' = [recv_data EXCEPT ![a] = p]
  /\ new_udp_recv_s' = [new_udp_recv_s EXCEPT ![a] = new_udp_recv_s[a] + 1]
  /\ faults' = faults

Dropped == UNCHANGED recvVars /\ (faults' = faults \/ Fault)

LEMMA DeliveredTypes ==
  ASSUME TypeInv, NEW a \in Boards, NEW p \in Packet_t, Delivered(a, p)
  PROVE  RecvTyped' /\ faults' \in 0 .. MaxFaults
<1>1. new_udp_recv_s[a] + 1 \in 0 .. MaxPending /\ p # NONE
  BY NoneAssumption, NeighborFindAssumption DEF Delivered, TypeInv, TypeOK
<1>2. QED
  BY <1>1 DEF Delivered, TypeInv, TypeOK, Filled, RecvTyped

LEMMA DroppedTypes == TypeInv /\ Dropped => RecvTyped' /\ faults' \in 0 .. MaxFaults
BY NeighborFindAssumption DEF Dropped, Fault, recvVars, TypeInv, TypeOK, Filled, RecvTyped

LEMMA InitTypes == Init => TypeInv
<1>1. MAX_NODES \in Nat /\ 0 \in 0 .. MAX_NODES - 1 /\ 0 \in Boards /\ 0 \in IDs
  BY NeighborFindAssumption DEF IDs
<1>2. MaxPending \in Nat /\ MaxFaults \in Nat
  BY NeighborFindAssumption
<1>3. QED
  BY <1>1, <1>2 DEF Init, TypeInv, TypeOK, Filled, MASTER_ID, DEFAULT_ID, PIDOG, ENABLE_AP, Number

LEMMA SendTypes ==
  ASSUME TypeInv, NEW b \in Boards, Send(b)
  PROVE  TypeInv'
<1>1. /\ new_udp_send_s[b] > 0
      /\ new_udp_send_s' = [new_udp_send_s EXCEPT ![b] = new_udp_send_s[b] - 1]
      /\ (\E a \in Boards : Delivered(a, send_queue[b])) \/ Dropped
      /\ send_queue' = [send_queue EXCEPT
                          ![b] = IF new_udp_send_s[b] = 1 THEN NONE ELSE send_queue[b]]
      /\ UNCHANGED <<selfVars, radioVars, connectVars, ackVars, todo>>
  BY DEF Send, SemWait, Transmit, Reached, Callback, SemSignal, Delivered, Dropped, recvVars
<1>2. send_queue[b] \in Packet_t /\ new_udp_send_s[b] \in Nat
  BY <1>1 DEF TypeInv, TypeOK, Filled
<1>3. RecvTyped' /\ faults' \in 0 .. MaxFaults
  BY <1>1, <1>2, DeliveredTypes, DroppedTypes
<1>4. /\ send_queue' \in [Boards -> Packet_t \cup {NONE}]
      /\ new_udp_send_s' \in [Boards -> Nat]
      /\ \A c \in Boards : new_udp_send_s'[c] > 0 => send_queue'[c] # NONE
  BY <1>1, <1>2 DEF TypeInv, TypeOK, Filled
<1>5. QED
  BY <1>1, <1>3, <1>4
     DEF TypeInv, TypeOK, Filled, RecvTyped, selfVars, radioVars, connectVars, ackVars

(* The two halves of taking a packet: the buffer, and what becomes of it   *)
LEMMA TakeTypes ==
  ASSUME TypeInv, NEW b \in Boards, NEW type, TakePacket(b, type)
  PROVE  /\ recv_data[b] \in Packet_t /\ recv_data[b].type = type
         /\ new_udp_ack_s[b] = 0
         /\ RecvTyped'
<1>1. /\ new_udp_recv_s[b] > 0 /\ new_udp_ack_s[b] = 0
      /\ new_udp_recv_s' = [new_udp_recv_s EXCEPT ![b] = new_udp_recv_s[b] - 1]
      /\ recv_data[b].type = type
      /\ recv_data' = [recv_data EXCEPT
                         ![b] = IF new_udp_recv_s[b] = 1 THEN NONE ELSE recv_data[b]]
  BY DEF TakePacket, SemWait, Turn
<1>2. /\ recv_data[b] \in Packet_t /\ new_udp_recv_s[b] \in 0 .. MaxPending
      /\ new_udp_recv_s[b] - 1 \in 0 .. MaxPending
  BY <1>1, NeighborFindAssumption DEF TypeInv, TypeOK, Filled
<1>3. QED
  BY <1>1, <1>2, NeighborFindAssumption DEF TypeInv, TypeOK, Filled, RecvTyped

LEMMA QueueAckTypes ==
  ASSUME TypeInv, NEW b \in Boards, NEW p \in Packet_t, QueueAck(b, p), new_udp_ack_s[b] = 0
  PROVE  /\ ack_queue' \in [Boards -> Packet_t \cup {NONE}]
         /\ new_udp_ack_s' \in [Boards -> 0 .. 1]
         /\ ack_queue_empty' \in [Boards -> BOOLEAN]
         /\ \A c \in Boards : new_udp_ack_s'[c] > 0 => ack_queue'[c] # NONE
         /\ \A c \in Boards : c # b => /\ ack_queue'[c] = ack_queue[c]
                                       /\ new_udp_ack_s'[c] = new_udp_ack_s[c]
                                       /\ ack_queue_empty'[c] = ack_queue_empty[c]
         /\ new_udp_ack_s'[b] = 1 /\ ~ ack_queue_empty'[b]
         /\ ack_queue'[b].type = "ack" /\ ack_queue'[b].acked = p.type
         /\ ack_queue'[b].ip = p.ip
<1> DEFINE q == [new_packet("ack", p.src, ID[b], p.ip) EXCEPT !.acked = p.type]
<1>1. /\ q \in Packet_t /\ q.type = "ack" /\ q.acked = p.type /\ q.ip = p.ip
  BY AckPacket DEF TypeInv, TypeOK
<1>2. /\ ack_queue' = [ack_queue EXCEPT ![b] = q]
      /\ new_udp_ack_s' = [new_udp_ack_s EXCEPT ![b] = 1]
      /\ ack_queue_empty' = [ack_queue_empty EXCEPT ![b] = FALSE]
  BY DEF QueueAck, SemSignal
<1>3. q # NONE
  BY <1>1, NoneAssumption
<1> HIDE DEF q
<1>4. QED
  BY <1>1, <1>2, <1>3 DEF TypeInv, TypeOK, Filled

LEMMA RecvDataTypes ==
  ASSUME TypeInv, NEW b \in Boards, RecvData(b)
  PROVE  TypeInv'
<1>1. /\ TakePacket(b, "data") /\ QueueAck(b, recv_data[b])
      /\ UNCHANGED <<ID, parent_ID, target_ID, signal_connect_thread, token_id_number>>
  BY DEF RecvData
<1>2. UNCHANGED <<wifi_ssid, ID_is_nbr, knows_nbrs, ID_to_phys_ID, radioVars,
                  pc, target_ssid, pidogs_found, sendVars, todo, faults>>
  BY <1>1 DEF TakePacket
<1>3. QED
  BY <1>1, <1>2, TakeTypes, QueueAckTypes DEF TypeInv, TypeOK, Filled, RecvTyped, radioVars, sendVars

LEMMA RecvAckTypes ==
  ASSUME TypeInv, NEW b \in Boards, RecvAck(b)
  PROVE  TypeInv'
<1>1. /\ TakePacket(b, "ack")
      /\ UNCHANGED <<ID, parent_ID, token_id_number, ackVars>>
      /\ Retarget(b, ENABLE_AP) \/ UNCHANGED <<target_ID, signal_connect_thread>>
  BY DEF RecvAck
<1>2. UNCHANGED <<wifi_ssid, ID_is_nbr, knows_nbrs, ID_to_phys_ID, radioVars,
                  pc, target_ssid, pidogs_found, sendVars, todo, faults>>
  BY <1>1 DEF TakePacket
<1>3. /\ target_ID' \in [Boards -> {RUN_SCAN, ENABLE_AP} \cup IDs]
      /\ signal_connect_thread' \in [Boards -> BOOLEAN]
  BY <1>1 DEF Retarget, TypeInv, TypeOK
<1>4. QED
  BY <1>1, <1>2, <1>3, TakeTypes DEF TypeInv, TypeOK, Filled, RecvTyped, radioVars, sendVars, ackVars

LEMMA RecvTokenTypes ==
  ASSUME TypeInv, NEW b \in Boards, RecvToken(b),
         recv_data[b].src \in IDs,
         ID[b] = DEFAULT_ID => recv_data[b].num \in IDs
  PROVE  TypeInv'
<1> DEFINE p == recv_data[b]
<1>1. /\ TakePacket(b, "token") /\ QueueAck(b, p) /\ Retarget(b, RUN_SCAN)
      /\ token_id_number' = [token_id_number EXCEPT
                               ![b] = IF ID[b] = DEFAULT_ID THEN p.num + 1 ELSE p.num]
      /\ \/ ID' = [ID EXCEPT ![b] = p.num] /\ parent_ID' = [parent_ID EXCEPT ![b] = p.src]
            /\ ID[b] = DEFAULT_ID
         \/ UNCHANGED <<ID, parent_ID>>
  BY DEF RecvToken, NextNumber
<1>2. UNCHANGED <<wifi_ssid, ID_is_nbr, knows_nbrs, ID_to_phys_ID, radioVars,
                  pc, target_ssid, pidogs_found, sendVars, todo, faults>>
  BY <1>1 DEF TakePacket
<1>3. /\ target_ID' \in [Boards -> {RUN_SCAN, ENABLE_AP} \cup IDs]
      /\ signal_connect_thread' \in [Boards -> BOOLEAN]
  BY <1>1 DEF Retarget, TypeInv, TypeOK
<1>4. p \in Packet_t /\ p.num \in Number /\ new_udp_ack_s[b] = 0
  BY <1>1, TakeTypes, PacketFields
<1>5. /\ ID' \in [Boards -> IDs \cup {DEFAULT_ID}]
      /\ parent_ID' \in [Boards -> IDs \cup {DEFAULT_ID}]
  BY <1>1 DEF TypeInv, TypeOK
<1>6. token_id_number' \in [Boards -> Number]
  <2>1. (IF ID[b] = DEFAULT_ID THEN p.num + 1 ELSE p.num) \in Number
    BY <1>4, NeighborFindAssumption DEF Number, IDs
  <2>2. QED
    BY <1>1, <2>1 DEF TypeInv, TypeOK
<1>7. QED
  BY <1>1, <1>2, <1>3, <1>4, <1>5, <1>6, TakeTypes, QueueAckTypes
     DEF TypeInv, TypeOK, Filled, RecvTyped, radioVars, sendVars

LEMMA AckTypes ==
  ASSUME TypeInv, NEW b \in Boards, Ack(b)
  PROVE  TypeInv'
<1> DEFINE q == [ack_queue[b] EXCEPT !.ip = IpAddr(b)]
<1>1. /\ new_udp_ack_s[b] > 0
      /\ new_udp_ack_s' = [new_udp_ack_s EXCEPT ![b] = new_udp_ack_s[b] - 1]
      /\ (\E a \in Boards : Delivered(a, q)) \/ Dropped
      /\ ack_queue' = [ack_queue EXCEPT ![b] = NONE]
      /\ ack_queue_empty' = [ack_queue_empty EXCEPT ![b] = TRUE]
      /\ UNCHANGED <<selfVars, radioVars, connectVars, sendVars, todo>>
  BY DEF Ack, SemWait, Transmit, Reached, Callback, SemSignal, Delivered, Dropped, recvVars
<1>2. /\ new_udp_ack_s[b] = 1 /\ ack_queue[b] \in Packet_t
      /\ IpAddr(b) \in {"ap", "station"}
  BY <1>1 DEF TypeInv, TypeOK, Filled, IpAddr
<1>3. q \in Packet_t
  BY <1>2, SentPacket
<1> HIDE DEF q
<1>4. RecvTyped' /\ faults' \in 0 .. MaxFaults
  BY <1>1, <1>3, DeliveredTypes, DroppedTypes
<1>5. /\ ack_queue' \in [Boards -> Packet_t \cup {NONE}]
      /\ new_udp_ack_s' \in [Boards -> 0 .. 1]
      /\ ack_queue_empty' \in [Boards -> BOOLEAN]
      /\ \A c \in Boards : new_udp_ack_s'[c] > 0 => ack_queue'[c] # NONE
  BY <1>1, <1>2 DEF TypeInv, TypeOK, Filled
<1>6. QED
  BY <1>1, <1>4, <1>5
     DEF TypeInv, TypeOK, Filled, RecvTyped, selfVars, radioVars, connectVars, sendVars

(* What Enqueue does, for a packet and the board that is to send it        *)
LEMMA EnqueueTypes ==
  ASSUME TypeInv, NEW b \in Boards, NEW p \in Packet_t, Enqueue(b, p)
  PROVE  /\ send_queue' = [send_queue EXCEPT ![b] = p] /\ p # NONE
         /\ new_udp_send_s' = [new_udp_send_s EXCEPT ![b] = new_udp_send_s[b] + 1]
         /\ send_queue' \in [Boards -> Packet_t \cup {NONE}]
         /\ new_udp_send_s' \in [Boards -> Nat]
         /\ \A c \in Boards : new_udp_send_s'[c] > 0 => send_queue'[c] # NONE
<1>1. /\ send_queue' = [send_queue EXCEPT ![b] = p]
      /\ new_udp_send_s' = [new_udp_send_s EXCEPT ![b] = new_udp_send_s[b] + 1]
  BY DEF Enqueue, SemSignal
<1>2. p # NONE
  BY NoneAssumption
<1>3. QED
  BY <1>1, <1>2 DEF TypeInv, TypeOK, Filled

(* Any target can be a packet's destination, and any fault is counted.     *)
LEMMA TargetIsDest == TypeInv => \A b \in Boards : target_ID[b] \in -2 .. MAX_NODES
<1>1. MAX_NODES \in Nat
  BY NeighborFindAssumption
<1>2. SUFFICES ASSUME TypeInv, NEW b \in Boards PROVE target_ID[b] \in -2 .. MAX_NODES
  OBVIOUS
<1>3. target_ID[b] \in {RUN_SCAN, ENABLE_AP} \cup IDs
  BY <1>2 DEF TypeInv, TypeOK
<1>4. QED
  BY <1>1, <1>3 DEF RUN_SCAN, ENABLE_AP, IDs

LEMMA FaultTypes == TypeInv /\ (faults' = faults \/ Fault) => faults' \in 0 .. MaxFaults
BY NeighborFindAssumption DEF Fault, TypeInv, TypeOK

LEMMA SerialTypes ==
  ASSUME TypeInv, NEW b \in Boards, NEW S \in Sessions, NEW c \in S, Serial(b, c)
  PROVE  TypeInv'
<1> DEFINE p == [new_packet(c.kind, target_ID[b], ID[b], IpAddr(b)) EXCEPT
                   !.num = IF c.kind = "token" THEN 1 ELSE 0]
<1>1. /\ Enqueue(b, p) /\ todo' = todo \ {c}
      /\ UNCHANGED <<selfVars, radioVars, connectVars, recvVars, ackVars, faults>>
  BY DEF Serial, TypedLine
<1>2. p \in Packet_t
  <2>1. c.kind \in {"data", "token"}
    BY NeighborFindAssumption
  <2>2. MAX_NODES \in Nat /\ 0 \in 0 .. MAX_NODES - 1
    BY NeighborFindAssumption
  <2>3. target_ID[b] \in -2 .. MAX_NODES /\ (IF c.kind = "token" THEN 1 ELSE 0) \in Number
    BY <2>2, TargetIsDest DEF Number
  <2>4. ID[b] \in IDs \cup {DEFAULT_ID} /\ IpAddr(b) \in {"ap", "station"}
    BY DEF TypeInv, TypeOK, IpAddr
  <2>5. QED
    BY <2>1, <2>3, <2>4, NewPacket
<1> HIDE DEF p
<1>3. /\ send_queue' \in [Boards -> Packet_t \cup {NONE}]
      /\ new_udp_send_s' \in [Boards -> Nat]
      /\ \A d \in Boards : new_udp_send_s'[d] > 0 => send_queue'[d] # NONE
  BY <1>1, <1>2, EnqueueTypes
<1>4. \E T \in Sessions : todo' \subseteq T
  BY <1>1 DEF TypeInv, TypeOK
<1>5. QED
  BY <1>1, <1>3, <1>4 DEF TypeInv, TypeOK, Filled, selfVars, radioVars, connectVars, recvVars, ackVars

LEMMA WakeTypes ==
  ASSUME TypeInv, NEW b \in Boards, WakeHost(b) \/ WakeStation(b),
         ~ access_point[b] => ID[b] \in IDs
  PROVE  TypeInv'
<1>1. /\ signal_connect_thread' = [signal_connect_thread EXCEPT ![b] = FALSE]
      /\ UNCHANGED <<ID, parent_ID, ID_is_nbr, knows_nbrs, ID_to_phys_ID,
                     target_ID, target_ssid, pidogs_found, token_id_number,
                     sendVars, recvVars, ackVars, todo, faults>>
  BY DEF WakeHost, WakeStation, Wake
<1>2. /\ access_point' \in [Boards -> BOOLEAN]
      /\ assoc' \in [Boards -> Boards \cup {NONE}]
      /\ wifi_ssid' \in [Boards -> IDs \cup {PIDOG}]
      /\ pc' \in [Boards -> {"boot", "poll", "scan", "pidog", "parent"}]
  <2>1. CASE WakeHost(b)
    BY <2>1 DEF WakeHost, BecomeStation, TypeInv, TypeOK
  <2>2. CASE WakeStation(b)
    BY <2>2 DEF WakeStation, BootAp, TypeInv, TypeOK, radioVars
  <2>3. QED
    BY <2>1, <2>2
<1>3. QED
  BY <1>1, <1>2 DEF TypeInv, TypeOK, Filled, sendVars, recvVars, ackVars

LEMMA ReportTypes ==
  ASSUME TypeInv, NEW b \in Boards, ReportPicows(b)
  PROVE  /\ ID_is_nbr' \in [Boards -> SUBSET IDs]
         /\ ID_to_phys_ID' \in [Boards -> [IDs -> IDs]]
         /\ \A c \in Boards : \A id \in IDs : ID_to_phys_ID'[c][id] \in Boards
<1>1. Picows(b) \subseteq Boards /\ \A a \in Picows(b) : wifi_ssid[a] \in IDs
  BY NeighborFindAssumption DEF Picows, Pidogs, Visible, TypeInv, TypeOK
<1>2. Boards \subseteq IDs
  BY NeighborFindAssumption DEF IDs
<1>3. ID_is_nbr' \in [Boards -> SUBSET IDs]
  BY <1>1 DEF ReportPicows, TypeInv, TypeOK
<1> DEFINE f == [id \in IDs |-> IF \E a \in Picows(b) : wifi_ssid[a] = id
                               THEN CHOOSE a \in Picows(b) : wifi_ssid[a] = id
                               ELSE ID_to_phys_ID[b][id]]
<1>4. ASSUME NEW id \in IDs PROVE f[id] \in Boards
  <2>1. CASE \E a \in Picows(b) : wifi_ssid[a] = id
    <3>1. (CHOOSE a \in Picows(b) : wifi_ssid[a] = id) \in Picows(b)
      BY <2>1
    <3>2. QED
      BY <1>1, <2>1, <3>1
  <2>2. CASE ~ \E a \in Picows(b) : wifi_ssid[a] = id
    BY <2>2 DEF TypeInv, Filled
  <2>3. QED
    BY <2>1, <2>2
<1>5. f \in [IDs -> Boards] /\ ID_to_phys_ID' = [ID_to_phys_ID EXCEPT ![b] = f]
  BY <1>4 DEF ReportPicows
<1> HIDE DEF f
<1>6. QED
  BY <1>2, <1>3, <1>5 DEF TypeInv, TypeOK, Filled

(* What a scan leaves behind: a network to join, or nobody left to number  *)
LEMMA ScanTypes ==
  ASSUME TypeInv, NEW b \in Boards, Scan(b),
         ID[b] # MASTER_ID => parent_ID[b] \in IDs
  PROVE  TypeInv'
<1>1. /\ ScanEnds(b)
      /\ UNCHANGED <<ID, parent_ID, wifi_ssid, radioVars, token_id_number,
                     sendVars, recvVars, ackVars, todo>>
  BY DEF Scan, ScanFound, ScanNobody, ScanFails, ScanEnds
<1>2. /\ ID_is_nbr' \in [Boards -> SUBSET IDs]
      /\ ID_to_phys_ID' \in [Boards -> [IDs -> IDs]]
      /\ \A c \in Boards : \A id \in IDs : ID_to_phys_ID'[c][id] \in Boards
  <2>1. ReportPicows(b) \/ UNCHANGED <<ID_is_nbr, ID_to_phys_ID>>
    BY DEF Scan, ScanFound, ScanNobody, ScanFails
  <2>2. QED
    BY <2>1, ReportTypes DEF TypeInv, TypeOK, Filled
<1>3. pidogs_found' \in [Boards -> BOOLEAN] /\ faults' \in 0 .. MaxFaults
  <2>1. faults' = faults \/ Fault
    BY DEF Scan, ScanFound, ScanNobody, ScanFails, AwaitHosts
  <2>2. \/ pidogs_found' = pidogs_found
        \/ pidogs_found' = [pidogs_found EXCEPT ![b] = TRUE]
        \/ pidogs_found' = [pidogs_found EXCEPT ![b] = FALSE]
    BY DEF Scan, ScanFound, ScanNobody, ScanFails
  <2>3. pidogs_found \in [Boards -> BOOLEAN]
    BY DEF TypeInv, TypeOK
  <2>4. QED
    BY <2>1, <2>2, <2>3, FaultTypes
<1>4. /\ knows_nbrs' \in [Boards -> BOOLEAN]
      /\ target_ID' \in [Boards -> {RUN_SCAN, ENABLE_AP} \cup IDs]
      /\ signal_connect_thread' \in [Boards -> BOOLEAN]
      /\ pc' \in [Boards -> {"boot", "poll", "scan", "pidog", "parent"}]
      /\ target_ssid' \in [Boards -> (Boards \X (IDs \cup {PIDOG})) \cup {NONE}]
  <2>1. ASSUME NEW a \in Boards, ScanFound(b, a) PROVE <1>4
    BY <2>1 DEF ScanFound, Seek, TypeInv, TypeOK
  <2>2. CASE NobodyLeft(b)
    <3>1. CASE ID[b] = MASTER_ID
      <4>1. /\ knows_nbrs' = [knows_nbrs EXCEPT ![b] = TRUE]
            /\ target_ID' = [target_ID EXCEPT ![b] = ENABLE_AP]
            /\ signal_connect_thread' = [signal_connect_thread EXCEPT ![b] = TRUE]
            /\ target_ssid' = [target_ssid EXCEPT ![b] = target_ssid[b]]
            /\ pc' = [pc EXCEPT ![b] = "poll"]
        BY <2>2, <3>1 DEF NobodyLeft, Retarget, Seek
      <4>2. QED
        BY <4>1 DEF TypeInv, TypeOK
    <3>2. CASE ID[b] # MASTER_ID
      <4>1. ID_to_phys_ID'[b][parent_ID[b]] \in Boards /\ parent_ID[b] \in IDs
        BY <1>2, <3>2
      <4> DEFINE x == <<ID_to_phys_ID'[b][parent_ID[b]], parent_ID[b]>>
      <4>2. x \in Boards \X (IDs \cup {PIDOG})
        BY <4>1
      <4>3. /\ knows_nbrs' = [knows_nbrs EXCEPT ![b] = TRUE]
            /\ target_ID' = [target_ID EXCEPT ![b] = parent_ID[b]]
            /\ signal_connect_thread' = signal_connect_thread
            /\ target_ssid' = [target_ssid EXCEPT ![b] = x]
            /\ pc' = [pc EXCEPT ![b] = "parent"]
        BY <2>2, <3>2 DEF NobodyLeft, Seek
      <4> HIDE DEF x
      <4>4. QED
        BY <4>1, <4>2, <4>3 DEF TypeInv, TypeOK
    <3>3. QED
      BY <3>1, <3>2
  <2>3. CASE /\ Seek(b, NONE, "pidog")
             /\ UNCHANGED <<knows_nbrs, target_ID, signal_connect_thread>>
    BY <2>3 DEF Seek, TypeInv, TypeOK
  <2>4. QED
    BY <2>1, <2>2, <2>3 DEF Scan, ScanNobody, ScanFails
<1>5. QED
  BY <1>1, <1>2, <1>3, <1>4 DEF TypeInv, TypeOK, Filled, radioVars, sendVars, recvVars, ackVars

LEMMA JoinTypes ==
  ASSUME TypeInv, NEW b \in Boards, Join(b) \/ JoinFails(b) \/ MasterBoot(b)
  PROVE  TypeInv'
<1>1. /\ pc' = [pc EXCEPT ![b] = "poll"]
      /\ UNCHANGED <<selfVars, access_point, target_ID, signal_connect_thread,
                     target_ssid, token_id_number, recvVars, ackVars, todo>>
  BY DEF Join, JoinFails, MasterBoot, JoinEnds
<1>2. /\ assoc' \in [Boards -> Boards \cup {NONE}]
      /\ pidogs_found' \in [Boards -> BOOLEAN]
      /\ faults' \in 0 .. MaxFaults
  <2>1. faults' = faults \/ Fault
    BY DEF Join, JoinFails, MasterBoot
  <2>2. \/ assoc' = assoc
        \/ \E a \in Boards : assoc' = [assoc EXCEPT ![b] = a]
    BY NeighborFindAssumption DEF Join, JoinFails, MasterBoot, Networks, Pidogs, Visible
  <2>3. \/ pidogs_found' = pidogs_found
        \/ \E found \in BOOLEAN : pidogs_found' = [pidogs_found EXCEPT ![b] = found]
    BY DEF Join, JoinFails, MasterBoot
  <2>4. assoc \in [Boards -> Boards \cup {NONE}] /\ pidogs_found \in [Boards -> BOOLEAN]
    BY DEF TypeInv, TypeOK
  <2>5. pidogs_found' \in [Boards -> BOOLEAN]
    BY <2>3, <2>4
  <2>6. QED
    BY <2>1, <2>2, <2>4, <2>5, FaultTypes
<1>3. /\ send_queue' \in [Boards -> Packet_t \cup {NONE}]
      /\ new_udp_send_s' \in [Boards -> Nat]
      /\ \A c \in Boards : new_udp_send_s'[c] > 0 => send_queue'[c] # NONE
  <2>1. CASE PassToken(b)
    <3> DEFINE d == IF pc[b] = "pidog" THEN -1 ELSE target_ID[b]
               p == [new_packet("token", d, ID[b], "station") EXCEPT !.num = token_id_number[b]]
    <3>1. d \in -2 .. MAX_NODES
      BY TargetIsDest, NeighborFindAssumption
    <3>2. p \in Packet_t
      <4>1. ID[b] \in IDs \cup {DEFAULT_ID} /\ token_id_number[b] \in Number
        BY DEF TypeInv, TypeOK
      <4> HIDE DEF d
      <4>2. QED
        BY <3>1, <4>1, NewPacket
    <3>3. Enqueue(b, p)
      BY <2>1 DEF PassToken
    <3> HIDE DEF p
    <3>4. QED
      BY <3>2, <3>3, EnqueueTypes
  <2>2. CASE UNCHANGED sendVars
    BY <2>2 DEF sendVars, TypeInv, TypeOK, Filled
  <2>3. QED
    BY <2>1, <2>2 DEF Join, JoinFails, MasterBoot
<1>4. QED
  BY <1>1, <1>2, <1>3 DEF TypeInv, TypeOK, Filled, selfVars, recvVars, ackVars

-----------------------------------------------------------------------------
(* A run without a token: nothing moves for the walk. *)

LEMMA DataHasNoToken == DataInv => Tokens = {} /\ Typed
<1>1. ASSUME DataInv, NEW b \in Boards PROVE ~ Holder(b)
  BY <1>1 DEF DataInv, DataBoard, Holder, Queued, Arrived, Working, NoCall
<1>2. QED
  BY <1>1 DEF Tokens, Holder, Queued, Arrived, Working, DataInv

LEMMA DataHasNoTokenNext == DataInv' => (Tokens = {} /\ Typed)'
BY DataHasNoToken, PTL

(* What may lie in a buffer of such a run                                  *)
DataPacket(p) == p # NONE => \/ p.type = "data"
                             \/ p.type = "ack" /\ p.acked = "data"

LEMMA DataDelivered ==
  ASSUME TypeInv, DataInv, NEW p \in Packet_t, DataPacket(p),
         (\E a \in Boards : Delivered(a, p)) \/ Dropped
  PROVE  \A c \in Boards : DataPacket(recv_data'[c])
<1>1. ASSUME NEW a \in Boards, Delivered(a, p), NEW c \in Boards
      PROVE  DataPacket(recv_data'[c])
  BY <1>1 DEF Delivered, DataInv, DataBoard, DataPacket, TypeInv, TypeOK
<1>2. ASSUME Dropped, NEW c \in Boards PROVE DataPacket(recv_data'[c])
  BY <1>2 DEF Dropped, recvVars, DataInv, DataBoard, DataPacket
<1>3. QED
  BY <1>1, <1>2

LEMMA DataSend ==
  ASSUME TypeInv, DataInv, NEW b \in Boards, Send(b)
  PROVE  DataInv' /\ UNCHANGED <<ID, parent_ID>>
<1>1. /\ new_udp_send_s[b] > 0
      /\ (\E a \in Boards : Delivered(a, send_queue[b])) \/ Dropped
      /\ send_queue' = [send_queue EXCEPT
                          ![b] = IF new_udp_send_s[b] = 1 THEN NONE ELSE send_queue[b]]
      /\ UNCHANGED <<selfVars, radioVars, connectVars, ackVars, todo>>
  BY DEF Send, SemWait, Transmit, Reached, Callback, SemSignal, Delivered, Dropped, recvVars
<1>2. send_queue[b] \in Packet_t /\ DataPacket(send_queue[b])
  BY <1>1 DEF TypeInv, TypeOK, Filled, DataInv, DataBoard, DataPacket
<1>3. \A c \in Boards : DataPacket(recv_data'[c])
  BY <1>1, <1>2, DataDelivered
<1>4. ASSUME NEW c \in Boards PROVE DataBoard(c)'
  BY <1>1, <1>3 DEF DataInv, DataBoard, DataPacket, NoCall, TypeInv, TypeOK,
                    selfVars, connectVars, ackVars
<1>5. QED
  BY <1>1, <1>4 DEF DataInv, Typed, selfVars

LEMMA DataAck ==
  ASSUME TypeInv, DataInv, NEW b \in Boards, Ack(b)
  PROVE  DataInv' /\ UNCHANGED <<ID, parent_ID>>
<1> DEFINE q == [ack_queue[b] EXCEPT !.ip = IpAddr(b)]
<1>1. /\ new_udp_ack_s[b] > 0
      /\ (\E a \in Boards : Delivered(a, q)) \/ Dropped
      /\ ack_queue' = [ack_queue EXCEPT ![b] = NONE]
      /\ UNCHANGED <<selfVars, radioVars, connectVars, sendVars, todo>>
  BY DEF Ack, SemWait, Transmit, Reached, Callback, SemSignal, Delivered, Dropped, recvVars
<1>2. /\ ack_queue[b] \in Packet_t /\ IpAddr(b) \in {"ap", "station"}
      /\ ack_queue[b].type = "ack" /\ ack_queue[b].acked = "data"
  <2>1. ack_queue[b] # NONE /\ ack_queue[b] \in Packet_t \cup {NONE}
    BY <1>1 DEF TypeInv, TypeOK, Filled
  <2>2. QED
    BY <2>1 DEF DataInv, DataBoard, IpAddr
<1>3. q \in Packet_t /\ DataPacket(q)
  BY <1>2, SentPacket DEF DataPacket
<1> HIDE DEF q
<1>4. \A c \in Boards : DataPacket(recv_data'[c])
  BY <1>1, <1>3, DataDelivered
<1>5. ASSUME NEW c \in Boards PROVE DataBoard(c)'
  BY <1>1, <1>4 DEF DataInv, DataBoard, DataPacket, NoCall, TypeInv, TypeOK,
                    selfVars, connectVars, sendVars
<1>6. QED
  BY <1>1, <1>5 DEF DataInv, Typed, selfVars

LEMMA DataRecv ==
  ASSUME TypeInv, DataInv, NEW b \in Boards, Recv(b)
  PROVE  DataInv' /\ UNCHANGED <<ID, parent_ID>> /\ ~ RecvToken(b)
<1>1. recv_data[b] # NONE /\ DataPacket(recv_data[b])
  BY DEF Recv, RecvData, RecvAck, RecvToken, TakePacket, SemWait, TypeInv, Filled,
         DataInv, DataBoard, DataPacket
<1>2. ~ RecvToken(b)
  BY <1>1 DEF RecvToken, TakePacket, DataPacket
<1>3. /\ recv_data' = [recv_data EXCEPT
                         ![b] = IF new_udp_recv_s[b] = 1 THEN NONE ELSE recv_data[b]]
      /\ UNCHANGED <<knows_nbrs, ID_is_nbr, pc, signal_connect_thread, sendVars, todo, ID,
                     parent_ID>>
  BY <1>1, <1>2 DEF Recv, RecvData, RecvAck, TakePacket, DataPacket
<1>4. ASSUME NEW c \in Boards
      PROVE  ack_queue'[c] # NONE =>
               ack_queue'[c].type = "ack" /\ ack_queue'[c].acked = "data"
  <2>1. CASE RecvData(b)
    <3>1. /\ recv_data[b] \in Packet_t /\ recv_data[b].type = "data"
          /\ new_udp_ack_s[b] = 0 /\ QueueAck(b, recv_data[b])
      BY <2>1, TakeTypes DEF RecvData
    <3>2. CASE c = b
      BY <3>1, <3>2, QueueAckTypes
    <3>3. CASE c # b
      BY <3>1, <3>3, QueueAckTypes DEF DataInv, DataBoard
    <3>4. QED
      BY <3>2, <3>3
  <2>2. CASE RecvAck(b)
    BY <2>2 DEF RecvAck, ackVars, DataInv, DataBoard
  <2>3. QED
    BY <1>2, <2>1, <2>2 DEF Recv
<1>5. ASSUME NEW c \in Boards PROVE DataBoard(c)'
  BY <1>3, <1>4 DEF DataInv, DataBoard, NoCall, TypeInv, TypeOK, sendVars
<1>6. QED
  BY <1>2, <1>3, <1>5 DEF DataInv, Typed

LEMMA DataSerial ==
  ASSUME TypeInv, DataInv, NEW b \in Boards, NEW S \in Sessions, NEW c \in S, Serial(b, c)
  PROVE  DataInv' /\ UNCHANGED <<ID, parent_ID>>
<1> DEFINE p == [new_packet(c.kind, target_ID[b], ID[b], IpAddr(b)) EXCEPT
                   !.num = IF c.kind = "token" THEN 1 ELSE 0]
<1>1. /\ Enqueue(b, p) /\ c \in todo /\ todo' = todo \ {c}
      /\ UNCHANGED <<selfVars, radioVars, connectVars, recvVars, ackVars, faults>>
  BY DEF Serial, TypedLine
<1>2. c.kind = "data"
  BY <1>1, NeighborFindAssumption DEF DataInv, Typed
<1>3. p \in Packet_t /\ p.type = "data"
  <2>1. MAX_NODES \in Nat /\ 0 \in 0 .. MAX_NODES - 1
    BY NeighborFindAssumption
  <2>2. target_ID[b] \in -2 .. MAX_NODES /\ (IF c.kind = "token" THEN 1 ELSE 0) \in Number
    BY <2>1, TargetIsDest DEF Number
  <2>3. ID[b] \in IDs \cup {DEFAULT_ID} /\ IpAddr(b) \in {"ap", "station"}
    BY DEF TypeInv, TypeOK, IpAddr
  <2>4. QED
    BY <1>2, <2>2, <2>3, NewPacket
<1> HIDE DEF p
<1>4. send_queue' = [send_queue EXCEPT ![b] = p]
  BY <1>1 DEF Enqueue
<1>5. ASSUME NEW d \in Boards PROVE DataBoard(d)'
  BY <1>1, <1>3, <1>4 DEF DataInv, DataBoard, NoCall, TypeInv, TypeOK, selfVars, connectVars,
                          recvVars, ackVars
<1>6. QED
  BY <1>1, <1>5 DEF DataInv, Typed, selfVars

LEMMA DataConnect ==
  ASSUME TypeInv, DataInv, NEW b \in Boards, Connect(b) \/ Unblock(b)
  PROVE  DataInv' /\ UNCHANGED <<ID, parent_ID>> /\ MasterBoot(b)
<1>1. pc[b] \in {"boot", "poll"} /\ ~ signal_connect_thread[b]
  BY DEF DataInv, DataBoard, NoCall
<1>2. MasterBoot(b)
  BY <1>1 DEF Connect, WakeHost, WakeStation, Wake, Unblock, Scan, ScanFound, ScanNobody,
              ScanFails, ScanEnds, Join, JoinFails
<1>3. /\ pc' = [pc EXCEPT ![b] = "poll"]
      /\ UNCHANGED <<selfVars, signal_connect_thread, sendVars, recvVars, ackVars, todo>>
  BY <1>2 DEF MasterBoot, JoinEnds
<1>4. ASSUME NEW c \in Boards PROVE DataBoard(c)'
  BY <1>3 DEF DataInv, DataBoard, NoCall, TypeInv, TypeOK, selfVars, sendVars, recvVars, ackVars
<1>5. QED
  BY <1>2, <1>3, <1>4 DEF DataInv, Typed, selfVars

(* Every step of such a run keeps the invariant and is none of the walk's. *)
LEMMA DataStep ==
  ASSUME TypeInv, DataInv, Next
  PROVE  TypeInv' /\ DataInv' /\ UNCHANGED Walk!vars
<1>1. PICK b \in Boards :
        \/ Send(b) \/ Recv(b) \/ Ack(b)
        \/ \E S \in Sessions : \E c \in S : Serial(b, c)
        \/ Connect(b) \/ Unblock(b)
  BY DEF Next
<1>2. TypeInv' /\ DataInv' /\ UNCHANGED <<ID, parent_ID>>
  <2>1. CASE Send(b)
    BY <2>1, DataSend, SendTypes
  <2>2. CASE Recv(b)
    BY <2>2, DataRecv, RecvDataTypes, RecvAckTypes DEF Recv
  <2>3. CASE Ack(b)
    BY <2>3, DataAck, AckTypes
  <2>4. CASE \E S \in Sessions : \E c \in S : Serial(b, c)
    BY <2>4, DataSerial, SerialTypes
  <2>5. CASE Connect(b) \/ Unblock(b)
    BY <2>5, DataConnect, JoinTypes
  <2>6. QED
    BY <1>1, <2>1, <2>2, <2>3, <2>4, <2>5
<1>3. Tokens = {} /\ Tokens' = {} /\ Typed /\ Typed'
  <2>1. Tokens = {} /\ Typed
    BY DataHasNoToken
  <2>2. Tokens' = {} /\ Typed'
    BY <1>2, DataHasNoTokenNext
  <2>3. QED
    BY <2>1, <2>2
<1>4. QED
  BY <1>2, <1>3 DEF Walk!vars, Typed

-----------------------------------------------------------------------------
(* A run with a token *)

LEMMA WalkPhase == WalkInv => \A b \in Boards : Phase(b)
BY DEF WalkInv

(* While one board has the token, no other has it, and every link is from  *)
(* or to that board.                                                       *)
LEMMA HolderFacts ==
  ASSUME WalkInv, NEW b \in Boards, Holder(b)
  PROVE  /\ Typed /\ todo = {} /\ pc[0] # "boot"
         /\ \A c \in Boards : c # b => ~ Holder(c)
         /\ \A a \in Boards : assoc[a] # NONE => b = a \/ b = assoc[a]
<1>1. ~ Idle(b) /\ ~ BootPhase(b)
  BY DEF Idle, BootPhase, Holder, Queued, Arrived, Working, NoSend, NoRecv, NoAck, NoCall
<1>2. Typed
  BY <1>1 DEF WalkInv, OneHolder
<1>3. QED
  BY <1>2 DEF WalkInv, OneHolder, LinksOK

LEMMA IDsSame ==
  ASSUME UNCHANGED <<ID, parent_ID>>
  PROVE  /\ Count' = Count
         /\ \A a, c \in Boards : LinkOK(a, c)' <=> LinkOK(a, c)
<1>1. Numbered' = Numbered
  BY DEF Numbered
<1>2. QED
  BY <1>1 DEF Count, LinkOK

(* What a step that numbers no board has to keep, if h is the only board   *)
(* that may have the token after it                                        *)
LEMMA WalkKept ==
  ASSUME WalkInv, Typed, NEW h \in Boards,
         UNCHANGED <<ID, parent_ID, todo>>,
         \A c \in Boards : Phase(c)',
         \A c \in Boards : c # h => ~ Holder(c)',
         pc'[0] # "boot",
         \A c \in Boards : ~ access_point'[c] \/ Working(c)' =>
                             ~ access_point[c] \/ Working(c),
         NamesOK', NumbersOK', LinksOK', SeekingOK'
  PROVE  WalkInv'
<1>1. Typed' /\ todo' = {} /\ Count' = Count
  BY IDsSame DEF WalkInv, OneHolder, Typed
<1>2. OneHolder'
  BY <1>1 DEF OneHolder
<1>3. IDsOK'
  BY <1>1 DEF WalkInv, IDsOK
<1>4. QED
  BY <1>2, <1>3 DEF WalkInv

(* No board takes up hosting or puts the token down as a host.             *)
LEMMA NamesKept ==
  ASSUME WalkInv, UNCHANGED <<ID, wifi_ssid>>,
         \A c \in Boards : access_point'[c] => access_point[c] /\ (Working(c) => Working(c)')
  PROVE  NamesOK'
BY DEF WalkInv, NamesOK

LEMMA SeekingKept ==
  ASSUME WalkInv, UNCHANGED <<parent_ID, target_ssid>>,
         \A c \in Boards : pc'[c] \in {"pidog", "parent"} => pc'[c] = pc[c]
  PROVE  SeekingOK'
BY DEF WalkInv, SeekingOK

(* The holder sends the token to the board it has joined, which gets it or *)
(* does not.                                                               *)
LEMMA WalkSend ==
  ASSUME TypeInv, WalkInv, NEW b \in Boards, Send(b)
  PROVE  /\ WalkInv' /\ UNCHANGED <<ID, parent_ID, todo>>
         /\ Queued(b) /\ ID[b] # DEFAULT_ID
         /\ \/ \A c \in Boards : ~ Holder(c)'
            \/ \E a \in Boards :
                 /\ Arrived(a)' /\ recv_data'[a].src = ID[b]
                 /\ assoc[b] = a /\ \A c \in Boards : c # a /\ c # b => Same(c)
         /\ UNCHANGED <<access_point, assoc>>
<1>1. QueuedPhase(b)
  BY DEF Send, SemWait, WalkInv, Phase, Idle, BootPhase, ArrivedPhase, AckDue, Woken,
         BusyPhase, AckedPhase, EndPhase, NoSend
<1>2. /\ Holder(b) /\ Queued(b) /\ ~ access_point[b] /\ new_udp_send_s[b] = 1
      /\ pc[b] = "poll"
  BY <1>1 DEF QueuedPhase, Holder
<1>3. /\ (\E a \in Boards : assoc[b] = a /\ Delivered(a, send_queue[b])) \/ Dropped
      /\ send_queue' = [send_queue EXCEPT ![b] = NONE]
      /\ new_udp_send_s' = [new_udp_send_s EXCEPT ![b] = 0]
      /\ UNCHANGED <<selfVars, radioVars, connectVars, ackVars, todo>>
  BY <1>2 DEF Send, SemWait, Transmit, Reached, Callback, SemSignal, Delivered, Dropped, recvVars,
              DestAddr
<1>4. /\ Typed /\ pc[0] # "boot" /\ \A c \in Boards : c # b => ~ Holder(c)
      /\ \A a \in Boards : assoc[a] # NONE => b = a \/ b = assoc[a]
  BY <1>2, HolderFacts
<1>5. ID[b] # DEFAULT_ID /\ UNCHANGED <<ID, parent_ID, wifi_ssid, todo, pc, access_point, assoc,
                                       target_ssid, token_id_number>>
  BY <1>2, <1>3 DEF WalkInv, IDsOK, selfVars, radioVars, connectVars
<1>6. /\ Idle(b)' \/ ~ NoRecv(b)'
      /\ ~ Queued(b)' /\ ~ Working(b)' /\ ~ Working(b)
  BY <1>1, <1>3 DEF QueuedPhase, Idle, Queued, Working, NoSend, NoAck, NoCall, TypeInv, TypeOK,
                    connectVars, ackVars
<1>7. CASE Dropped
  <2>1. NoRecv(b)' /\ Idle(b)' /\ ~ Holder(b)'
    BY <1>1, <1>6, <1>7 DEF QueuedPhase, NoRecv, Dropped, recvVars, Holder, Arrived
  <2>2. ASSUME NEW c \in Boards, c # b PROVE Same(c)
    BY <1>3, <1>7, <2>2 DEF Same, Dropped, recvVars, radioVars, connectVars, ackVars, TypeInv, TypeOK
  <2>3. ASSUME NEW c \in Boards PROVE Phase(c)' /\ ~ Holder(c)' /\ (Working(c)' => Working(c))
    BY <1>4, <1>6, <2>1, <2>2, SamePhase DEF WalkInv, Phase
  <2>4. NamesOK' /\ SeekingOK'
    <3>1. ASSUME NEW c \in Boards, Working(c) PROVE Working(c)'
      BY <1>4, <1>6, <2>2, <3>1, SamePhase DEF Holder
    <3>2. QED
      BY <1>5, <3>1, NamesKept, SeekingKept
  <2>5. NumbersOK'
    BY <2>3 DEF NumbersOK, Holder
  <2>6. LinksOK'
    <3>1. ASSUME NEW a \in Boards PROVE NoRecv(a)' <=> NoRecv(a)
      BY <1>7 DEF Dropped, recvVars, NoRecv
    <3>2. ASSUME NEW a \in Boards PROVE (NoCall(a)' <=> NoCall(a)) /\ (Woken(a) => Woken(a)')
      BY <1>4, <1>6, <2>2, SamePhase, <1>3 DEF NoCall, connectVars, Woken, Working
    <3>3. Typed' /\ \A c \in Boards : ~ Queued(c)' /\ ~ Holder(c)'
      BY <1>4, <1>5, <2>3 DEF Holder, Typed
    <3>4. LinksOK /\ \A c \in Boards : assoc[c] # NONE => assoc[c] \in Boards
      BY DEF WalkInv, TypeInv, TypeOK
    <3>5. QED
      BY <1>5, <3>1, <3>2, <3>3, <3>4 DEF LinksOK
  <2>7. WalkInv'
    BY <1>4, <1>5, <2>3, <2>4, <2>5, <2>6, WalkKept
  <2>8. QED
    BY <1>2, <1>5, <2>3, <2>7
<1>8. ASSUME NEW a \in Boards, assoc[b] = a, Delivered(a, send_queue[b])
      PROVE  /\ WalkInv' /\ Arrived(a)' /\ recv_data'[a].src = ID[b]
             /\ \A c \in Boards : c # a /\ c # b => Same(c)
  <2>1. /\ access_point[a] /\ a # b /\ Idle(a) /\ LinkOK(b, a)
    <3>1. assoc[b] # NONE
      BY <1>8, NoneAssumption
    <3>2. access_point[a] /\ LinkOK(b, a)
      BY <1>2, <1>8, <3>1 DEF WalkInv, LinksOK
    <3>3. a # b /\ ~ Holder(a)
      BY <1>2, <1>4, <3>2
    <3>4. QED
      BY <3>2, <3>3, WalkPhase, PhaseFacts
  <2>2. /\ recv_data'[a] = send_queue[b] /\ new_udp_recv_s'[a] = 1
        /\ \A c \in Boards : c # a => recv_data'[c] = recv_data[c] /\ new_udp_recv_s'[c] = new_udp_recv_s[c]
    BY <1>8, <2>1 DEF Delivered, TypeInv, TypeOK, Idle, NoRecv
  <2>3. /\ send_queue[b] # NONE /\ send_queue[b].type = "token"
        /\ send_queue[b].num = Count /\ send_queue[b].src = ID[b] /\ send_queue[b].ip = "station"
    BY <1>2 DEF Queued, WalkInv, NumbersOK
  <2>4. Arrived(a)' /\ ArrivedPhase(a)' /\ ~ Working(a)'
    BY <1>3, <2>1, <2>2, <2>3 DEF Arrived, ArrivedPhase, Working, Idle, NoSend, NoAck, NoCall, TypeInv,
       TypeOK, radioVars, connectVars, ackVars
  <2>5. NoRecv(b)' /\ Idle(b)' /\ ~ Holder(b)'
    BY <1>1, <1>6, <2>1, <2>2 DEF QueuedPhase, NoRecv, Holder, Arrived
  <2>6. ASSUME NEW c \in Boards, c # b, c # a PROVE Same(c)
    BY <1>3, <2>2, <2>6 DEF Same, radioVars, connectVars, ackVars, TypeInv, TypeOK
  <2>7. ASSUME NEW c \in Boards PROVE Phase(c)' /\ (c # a => ~ Holder(c)') /\ ~ Working(c)'
    <3>1. CASE c = a
      BY <2>4, <3>1 DEF Phase
    <3>2. CASE c = b
      BY <2>5, <3>2 DEF Phase, Holder
    <3>3. CASE c # a /\ c # b
      BY <1>4, <2>6, <3>3, SamePhase, WalkPhase DEF Holder
    <3>4. QED
      BY <3>1, <3>2, <3>3
  <2>8. ASSUME NEW c \in Boards PROVE ~ Working(c)
    BY <1>4, <1>6 DEF Holder
  <2>9. NamesOK' /\ SeekingOK'
    BY <1>5, <2>8, NamesKept, SeekingKept
  <2>10. NumbersOK'
    <3>1. ASSUME NEW c \in Boards PROVE ~ Queued(c)' /\ (Arrived(c)' => c = a)
      <4>1. CASE c = a
        BY <2>1, <1>3, <4>1 DEF Idle, NoSend, Queued, TypeInv, TypeOK
      <4>2. CASE c # a
        BY <2>7, <4>2 DEF Holder
      <4>3. QED
        BY <4>1, <4>2
    <3>2. \E x \in Boards : (ID[x] = recv_data[a].src /\ ID[x] # DEFAULT_ID /\ LinkOK(x, a))'
      BY <1>5, <2>1, <2>2, <2>3, IDsSame
    <3>3. recv_data'[a].num = Count' /\ recv_data'[a].ip = "station"
      BY <1>5, <2>2, <2>3, IDsSame
    <3>4. QED
      BY <2>7, <3>1, <3>2, <3>3 DEF NumbersOK
  <2>11. LinksOK'
    <3>1. ASSUME NEW x \in Boards, assoc[x] # NONE
          PROVE x = b
      BY <1>2, <1>4, <3>1 DEF WalkInv, LinksOK
    <3>2. NoRecv(b)' /\ NoCall(b)'
      BY <2>5 DEF Idle
    <3>3. QED
      BY <1>2, <1>4, <1>5, <1>8, <2>1, <2>5, <2>7, <3>1, <3>2 DEF LinksOK, Holder, Typed
  <2>12. WalkInv'
    <3>1. \A c \in Boards : c # a => ~ Holder(c)'
      BY <2>7
    <3>2. QED
      BY <1>4, <1>5, <2>7, <2>9, <2>10, <2>11, <3>1, WalkKept
  <2>13. QED
    BY <2>2, <2>3, <2>4, <2>6, <2>12
<1>9. QED
  BY <1>2, <1>3, <1>5, <1>7, <1>8

(* What waits in a receive buffer is the token or the ack of one.          *)
LEMMA WalkTaken ==
  ASSUME TypeInv, WalkInv, NEW b \in Boards, NEW type, TakePacket(b, type)
  PROVE  /\ type = "token" => ArrivedPhase(b)
         /\ type = "ack" => AckedPhase(b)
         /\ type \in {"token", "ack"}
         /\ new_udp_recv_s' = [new_udp_recv_s EXCEPT ![b] = 0]
         /\ recv_data' = [recv_data EXCEPT ![b] = NONE]
<1>1. new_udp_recv_s[b] > 0 /\ recv_data[b].type = type
  BY DEF TakePacket, SemWait
<1>2. ArrivedPhase(b) \/ AckedPhase(b)
  BY <1>1 DEF WalkInv, Phase, Idle, BootPhase, ArrivedPhase, AckDue, Woken,
         BusyPhase, QueuedPhase, AckedPhase, EndPhase, NoRecv
<1>3. /\ new_udp_recv_s[b] = 1
      /\ \/ recv_data[b].type = "token" /\ ArrivedPhase(b)
         \/ recv_data[b].type = "ack" /\ AckedPhase(b)
  <2>1. CASE ArrivedPhase(b)
    <3>1. new_udp_recv_s[b] = 1 /\ recv_data[b].type = "token"
      BY <2>1 DEF ArrivedPhase, Arrived
    <3>2. QED
      BY <2>1, <3>1
  <2>2. CASE AckedPhase(b)
    <3>1. new_udp_recv_s[b] = 1 /\ recv_data[b].type = "ack"
      BY <2>2 DEF AckedPhase
    <3>2. QED
      BY <2>2, <3>1
  <2>3. QED
    BY <1>2, <2>1, <2>2
<1>4. QED
  BY <1>1, <1>3 DEF TakePacket, SemWait

(* The board that has passed the token on is told to host again.           *)
LEMMA WalkRecvAck ==
  ASSUME TypeInv, WalkInv, NEW b \in Boards, RecvAck(b)
  PROVE  /\ WalkInv' /\ UNCHANGED <<ID, parent_ID, todo>>
         /\ \A c \in Boards : /\ Queued(c)' <=> Queued(c)
                              /\ Working(c)' <=> Working(c)
                              /\ Arrived(c)' <=> Arrived(c)
                              /\ Arrived(c) => recv_data'[c] = recv_data[c]
         /\ EndPhase(b)' /\ assoc' = assoc /\ \A c \in Boards : c # b => Same(c)
<1>1. /\ TakePacket(b, "ack")
      /\ UNCHANGED <<ID, parent_ID, token_id_number, ackVars>>
  BY DEF RecvAck
<1>2. /\ AckedPhase(b)
      /\ new_udp_recv_s' = [new_udp_recv_s EXCEPT ![b] = 0]
      /\ recv_data' = [recv_data EXCEPT ![b] = NONE]
  BY <1>1, WalkTaken
<1>3. /\ target_ID' = [target_ID EXCEPT ![b] = ENABLE_AP]
      /\ signal_connect_thread' = [signal_connect_thread EXCEPT ![b] = TRUE]
      /\ UNCHANGED <<wifi_ssid, access_point, assoc, pc, target_ssid, sendVars, todo>>
  BY <1>1, <1>2 DEF RecvAck, Retarget, AckedPhase, TakePacket, radioVars
<1>4. /\ EndPhase(b)' /\ ~ Holder(b)' /\ ~ Holder(b) /\ ~ access_point[b]
  <2>1. EndPhase(b)'
    BY <1>1, <1>2, <1>3 DEF AckedPhase, EndPhase, NoSend, NoRecv, NoAck, NoCall, TypeInv, TypeOK,
                            sendVars, ackVars
  <2>2. ~ Holder(b)'
    BY <2>1 DEF EndPhase, Holder, Queued, Arrived, Working, NoSend, NoRecv, RUN_SCAN, ENABLE_AP
  <2>3. ~ Holder(b) /\ ~ access_point[b]
    BY <1>2 DEF AckedPhase, Holder, Queued, Arrived, Working, NoSend, NoCall
  <2>4. QED
    BY <2>1, <2>2, <2>3
<1>5. ASSUME NEW c \in Boards, c # b PROVE Same(c)
  BY <1>1, <1>2, <1>3, <1>5 DEF Same, sendVars, ackVars, TypeInv, TypeOK
<1>6. ASSUME NEW c \in Boards
      PROVE  /\ Phase(c)'
             /\ Queued(c)' <=> Queued(c)
             /\ Working(c)' <=> Working(c)
             /\ Arrived(c)' <=> Arrived(c)
             /\ Holder(c)' <=> Holder(c)
             /\ Arrived(c) => recv_data'[c] = recv_data[c] /\ c # b
             /\ Woken(c) => Woken(c)'
             /\ c # b => (NoRecv(c)' <=> NoRecv(c)) /\ (NoCall(c)' <=> NoCall(c))
  <2>1. CASE c = b
    BY <1>4, <2>1 DEF Phase, Holder, Woken, Working
  <2>2. CASE c # b
    BY <1>5, <2>2, SamePhase, WalkPhase DEF Same
  <2>3. QED
    BY <2>1, <2>2
<1>7. Typed
  <2>1. ~ Idle(b) /\ ~ BootPhase(b)
    BY <1>2 DEF AckedPhase, Idle, BootPhase, NoRecv
  <2>2. QED
    BY <2>1 DEF WalkInv, OneHolder
<1>8. NamesOK' /\ SeekingOK'
  BY <1>1, <1>3, <1>6, NamesKept, SeekingKept
<1>9. NumbersOK'
  <2>1. /\ Count' = Count
        /\ \A a, c \in Boards : LinkOK(a, c)' <=> LinkOK(a, c)
    BY <1>1, IDsSame
  <2>2. NumbersOK
    BY DEF WalkInv
  <2>3. QED
    BY <1>1, <1>3, <1>6, <2>1, <2>2 DEF NumbersOK, sendVars
<1>10. LinksOK'
  <2>1. LinksOK /\ \A c \in Boards : assoc[c] # NONE => assoc[c] \in Boards
    BY DEF WalkInv, TypeInv, TypeOK
  <2>2. ~ NoRecv(b)
    BY <1>2 DEF AckedPhase, NoRecv
  <2>3. /\ Typed' /\ Typed
        /\ \A a, c \in Boards : LinkOK(a, c)' <=> LinkOK(a, c)
    BY <1>1, <1>3, <1>7, IDsSame DEF Typed
  <2>4. ASSUME NEW a \in Boards, assoc[a] # NONE
        PROVE  Woken(assoc[a])' \/ (NoRecv(a)' /\ NoCall(a)')
    <3>1. Woken(assoc[a]) \/ (a # b /\ NoRecv(a) /\ NoCall(a))
      BY <2>1, <2>2, <2>4 DEF LinksOK
    <3>2. assoc[a] \in Boards /\ assoc' = assoc
      BY <1>3, <2>1, <2>4
    <3>3. QED
      BY <1>6, <3>1, <3>2
  <2>5. QED
    BY <1>3, <1>6, <2>1, <2>3, <2>4 DEF LinksOK
<1>11. PICK h \in Boards : \A c \in Boards : c # h => ~ Holder(c)'
  BY <1>6, HolderFacts, NeighborFindAssumption
<1>12. QED
  BY <1>1, <1>3, <1>4, <1>5, <1>6, <1>7, <1>8, <1>9, <1>10, <1>11, WalkKept
     DEF WalkInv, OneHolder

(* The board that has the token hands an ack to the board that sent it.    *)
LEMMA WalkAck ==
  ASSUME TypeInv, WalkInv, NEW b \in Boards, Ack(b)
  PROVE  /\ WalkInv' /\ UNCHANGED <<ID, parent_ID, todo>>
         /\ Working(b) /\ Working(b)'
         /\ UNCHANGED <<access_point, assoc>>
         /\ \A c \in Boards : c # b => ~ Holder(c)' /\ (assoc[c] # b => Same(c))
         /\ \A a, c \in Boards : assoc[a] = b /\ assoc[c] = b => a = c
<1> DEFINE q == [ack_queue[b] EXCEPT !.ip = IpAddr(b)]
<1>1. AckDue(b)
  BY DEF Ack, SemWait, WalkInv, Phase, Idle, BootPhase, ArrivedPhase, Woken, QueuedPhase,
         BusyPhase, AckedPhase, EndPhase, NoAck
<1>2. /\ Holder(b) /\ Working(b) /\ access_point[b] /\ new_udp_ack_s[b] = 1
      /\ ack_queue[b].ip = "station" /\ ack_queue[b].type = "ack" /\ ack_queue[b].acked = "token"
  BY <1>1 DEF AckDue, Holder, Working
<1>3. q \in Packet_t /\ q.type = "ack" /\ q.acked = "token"
  <2>1. ack_queue[b] \in Packet_t
    BY <1>2 DEF TypeInv, TypeOK, Filled
  <2>2. IpAddr(b) \in {"ap", "station"}
    BY DEF IpAddr
  <2>3. QED
    BY <1>2, <2>1, <2>2, SentPacket
<1>4. /\ (\E a \in Boards : assoc[a] = b /\ Delivered(a, q)) \/ Dropped
      /\ new_udp_ack_s' = [new_udp_ack_s EXCEPT ![b] = 0]
      /\ ack_queue' = [ack_queue EXCEPT ![b] = NONE]
      /\ ack_queue_empty' = [ack_queue_empty EXCEPT ![b] = TRUE]
      /\ UNCHANGED <<selfVars, radioVars, connectVars, sendVars, todo>>
  BY <1>2 DEF Ack, SemWait, Transmit, Reached, Callback, SemSignal, Delivered, Dropped, recvVars
<1> HIDE DEF q
<1>5. /\ Typed /\ pc[0] # "boot" /\ \A c \in Boards : c # b => ~ Holder(c)
      /\ \A a \in Boards : assoc[a] # NONE => b = a \/ b = assoc[a]
  BY <1>2, HolderFacts
<1>6. UNCHANGED <<ID, parent_ID, wifi_ssid, todo, pc, access_point, assoc, target_ssid,
                  token_id_number, signal_connect_thread, target_ID>>
  BY <1>4 DEF selfVars, radioVars, connectVars
<1>7. NoRecv(b)' => Woken(b)'
  BY <1>1, <1>4, <1>6 DEF AckDue, Woken, NoSend, NoRecv, NoAck, TypeInv, TypeOK, sendVars
<1>8. Working(b)'
  BY <1>2, <1>6 DEF Working
(* The board that is told so, if there is one                              *)
<1>9. ASSUME NEW a \in Boards, assoc[a] # NONE
      PROVE  /\ a # b /\ assoc[a] = b /\ ~ access_point[a] /\ Idle(a)
             /\ \A x \in Boards : assoc[x] # NONE => x = a
  <2>1. /\ ~ access_point[a] /\ access_point[assoc[a]]
        /\ Woken(assoc[a]) \/ (NoRecv(a) /\ NoCall(a))
        /\ \A x \in Boards : assoc[x] = assoc[a] => x = a
        /\ pc[a] = "poll"
    BY <1>9 DEF WalkInv, LinksOK
  <2>2. a # b /\ assoc[a] = b
    BY <1>2, <1>5, <1>9, <2>1
  <2>3. ~ Woken(b)
    BY <1>1 DEF AckDue, Woken, NoAck
  <2>4. NoRecv(a) /\ NoCall(a) /\ ~ Holder(a) /\ Phase(a)
    BY <1>5, <2>1, <2>2, <2>3 DEF WalkInv
  <2>5. Idle(a)
    BY <2>1, <2>4 DEF Phase, Idle, BootPhase, ArrivedPhase, AckDue, Woken, QueuedPhase,
         BusyPhase, AckedPhase, EndPhase, NoRecv, NoCall, Holder
  <2>6. \A x \in Boards : assoc[x] # NONE => assoc[x] = b
    BY <1>2, <1>5 DEF WalkInv, LinksOK
  <2>7. QED
    BY <2>1, <2>2, <2>5, <2>6
<1>10. /\ NoRecv(b)'
       /\ \A c \in Boards : \/ Same(c)
                            \/ c = b
                            \/ assoc[c] = b /\ AckedPhase(c)' /\ ~ Holder(c)'
  <2>1. NoRecv(b) /\ \A c \in Boards : c # b =>
          /\ pc'[c] = pc[c] /\ access_point'[c] = access_point[c]
          /\ signal_connect_thread'[c] = signal_connect_thread[c]
          /\ target_ID'[c] = target_ID[c]
          /\ send_queue'[c] = send_queue[c] /\ new_udp_send_s'[c] = new_udp_send_s[c]
          /\ ack_queue'[c] = ack_queue[c] /\ new_udp_ack_s'[c] = new_udp_ack_s[c]
          /\ ack_queue_empty'[c] = ack_queue_empty[c]
    BY <1>1, <1>4, <1>6 DEF AckDue, TypeInv, TypeOK, sendVars
  <2>2. CASE Dropped
    <3>1. NoRecv(b)'
      BY <2>1, <2>2 DEF Dropped, recvVars, NoRecv
    <3>2. ASSUME NEW c \in Boards, c # b PROVE Same(c)
      BY <2>1, <2>2, <3>2 DEF Dropped, recvVars, Same
    <3>3. QED
      BY <3>1, <3>2
  <2>3. ASSUME NEW a \in Boards, assoc[a] = b, Delivered(a, q)
        PROVE  <1>10
    <3>1. a # b /\ ~ access_point[a] /\ Idle(a)
      BY <1>9, <2>3, NoneAssumption
    <3>2. /\ recv_data'[a] = q /\ new_udp_recv_s'[a] = 1
          /\ \A c \in Boards : c # a => recv_data'[c] = recv_data[c] /\ new_udp_recv_s'[c] = new_udp_recv_s[c]
      BY <2>3, <3>1 DEF Delivered, TypeInv, TypeOK, Idle, NoRecv
    <3>3. q # NONE
      BY <1>3, NoneAssumption
    <3>4. AckedPhase(a)' /\ ~ Holder(a)'
      BY <1>3, <2>1, <3>1, <3>2, <3>3
         DEF AckedPhase, Idle, NoSend, NoAck, NoCall, Holder, Queued, Arrived, Working
    <3>5. QED
      <4>1. NoRecv(b)'
        BY <2>1, <3>1, <3>2 DEF NoRecv
      <4>2. ASSUME NEW c \in Boards, c # b, c # a PROVE Same(c)
        BY <2>1, <3>2, <4>2 DEF Same
      <4>3. QED
        BY <2>3, <3>4, <4>1, <4>2
  <2>4. QED
    BY <1>4, <2>2, <2>3
<1>11. ASSUME NEW c \in Boards
       PROVE  /\ Phase(c)'
              /\ c # b => ~ Holder(c)' /\ ~ Holder(c)
              /\ ~ Queued(c)' /\ ~ Arrived(c)' /\ (Working(c)' <=> Working(c))
  <2>1. CASE c = b
    BY <1>1, <1>4, <1>7, <1>8, <1>10, <1>2, <2>1 DEF Phase, Queued, Arrived, NoRecv, AckDue, NoSend, sendVars
  <2>2. CASE c # b /\ Same(c)
    BY <1>5, <2>2, SamePhase, WalkPhase DEF Holder
  <2>3. CASE c # b /\ AckedPhase(c)' /\ ~ Holder(c)'
    BY <1>5, <2>3 DEF Phase, Holder
  <2>4. QED
    BY <1>10, <2>1, <2>2, <2>3
<1>12. NamesOK' /\ SeekingOK'
  BY <1>6, <1>11, NamesKept, SeekingKept
<1>13. NumbersOK'
  <2>1. Count' = Count /\ token_id_number[b] = Count
    BY <1>2, <1>6, IDsSame DEF WalkInv, NumbersOK
  <2>2. QED
    BY <1>6, <1>11, <2>1 DEF NumbersOK, Holder
<1>14. LinksOK'
  <2>1. Woken(b)' /\ Typed'
    BY <1>5, <1>6, <1>7, <1>10 DEF Typed
  <2>2. LinksOK
    BY DEF WalkInv
  <2>3. QED
    BY <1>6, <1>9, <1>11, <2>1, <2>2 DEF LinksOK
<1>15. QED
  <2>1. WalkInv'
    BY <1>5, <1>6, <1>11, <1>12, <1>13, <1>14, WalkKept
  <2>2. \A c \in Boards : c # b => ~ Holder(c)' /\ (assoc[c] # b => Same(c))
    BY <1>10, <1>11
  <2>3. \A a, c \in Boards : assoc[a] = b /\ assoc[c] = b => a = c
    BY <1>9, NoneAssumption
  <2>4. QED
    BY <1>2, <1>6, <1>8, <2>1, <2>2, <2>3

(* A board gets the token: it owes the ack and is told to scan.  A board   *)
(* without ID is numbered.                                                 *)
LEMMA WalkRecvToken ==
  ASSUME TypeInv, WalkInv, NEW b \in Boards, RecvToken(b)
  PROVE  /\ WalkInv' /\ TypeInv' /\ todo' = todo
         /\ Arrived(b) /\ Working(b)'
         /\ AckDue(b)' /\ assoc' = assoc /\ \A c \in Boards : c # b => Same(c)
         /\ \/ /\ ID[b] = DEFAULT_ID
               /\ ID' = [ID EXCEPT ![b] = Count]
               /\ parent_ID' = [parent_ID EXCEPT ![b] = recv_data[b].src]
               /\ Count' = Count + 1
            \/ ID[b] # DEFAULT_ID /\ UNCHANGED <<ID, parent_ID>>
<1> DEFINE p == recv_data[b]
<1>1. /\ TakePacket(b, "token") /\ QueueAck(b, p)
      /\ target_ID' = [target_ID EXCEPT ![b] = RUN_SCAN]
      /\ signal_connect_thread' = [signal_connect_thread EXCEPT ![b] = TRUE]
      /\ token_id_number' = [token_id_number EXCEPT
                               ![b] = IF ID[b] = DEFAULT_ID THEN p.num + 1 ELSE p.num]
      /\ \/ ID' = [ID EXCEPT ![b] = p.num] /\ parent_ID' = [parent_ID EXCEPT ![b] = p.src]
            /\ ID[b] = DEFAULT_ID
         \/ UNCHANGED <<ID, parent_ID>> /\ ID[b] # DEFAULT_ID
  BY DEF RecvToken, NextNumber, Retarget
<1>2. /\ ArrivedPhase(b)
      /\ new_udp_recv_s' = [new_udp_recv_s EXCEPT ![b] = 0]
      /\ recv_data' = [recv_data EXCEPT ![b] = NONE]
  BY <1>1, WalkTaken
<1>3. UNCHANGED <<wifi_ssid, access_point, assoc, pc, target_ssid, sendVars, todo>>
  BY <1>1 DEF TakePacket, radioVars
<1>4. /\ Arrived(b) /\ Holder(b) /\ access_point[b] /\ pc[b] = "poll"
      /\ ~ Queued(b) /\ ~ Working(b) /\ p.type = "token"
  BY <1>2 DEF ArrivedPhase, Arrived, Holder, Queued, Working, NoSend, NoCall
<1>5. /\ p.num = Count /\ p.ip = "station"
      /\ \E a \in Boards : ID[a] = p.src /\ ID[a] # DEFAULT_ID /\ LinkOK(a, b)
  BY <1>4 DEF WalkInv, NumbersOK
<1>6. /\ Typed /\ todo = {} /\ pc[0] # "boot" /\ \A c \in Boards : c # b => ~ Holder(c)
      /\ \A a \in Boards : assoc[a] # NONE => b = a \/ b = assoc[a]
  BY <1>4, HolderFacts
<1>7. p.src \in IDs /\ (ID[b] = DEFAULT_ID => p.num \in IDs) /\ p \in Packet_t
  <2>1. p.src \in IDs
    BY <1>5 DEF TypeInv, TypeOK
  <2>2. ID[b] = DEFAULT_ID => Count \in IDs
    BY CountIsSmall, NeighborFindAssumption DEF IDs
  <2>3. p \in Packet_t
    BY <1>1, TakeTypes
  <2>4. QED
    BY <1>5, <2>1, <2>2, <2>3
<1>8. TypeInv'
  BY <1>7, RecvTokenTypes
<1>9. /\ new_udp_ack_s'[b] = 1 /\ ~ ack_queue_empty'[b]
      /\ ack_queue'[b].type = "ack" /\ ack_queue'[b].acked = p.type
      /\ ack_queue'[b].ip = p.ip
      /\ \A c \in Boards : c # b => /\ ack_queue'[c] = ack_queue[c]
                                    /\ new_udp_ack_s'[c] = new_udp_ack_s[c]
                                    /\ ack_queue_empty'[c] = ack_queue_empty[c]
  <2>1. new_udp_ack_s[b] = 0
    BY <1>1, TakeTypes
  <2>2. QueueAck(b, p)
    BY <1>1
  <2>3. QED
    BY <1>7, <2>1, <2>2, QueueAckTypes
<1> HIDE DEF p
<1>10. AckDue(b)' /\ Working(b)' /\ ~ Queued(b)' /\ ~ Arrived(b)'
  BY <1>1, <1>2, <1>3, <1>4, <1>5, <1>9
     DEF ArrivedPhase, AckDue, Working, Queued, Arrived, NoSend, NoRecv, TypeInv, TypeOK, sendVars
<1>11. ASSUME NEW c \in Boards, c # b PROVE Same(c)
  BY <1>1, <1>2, <1>3, <1>9, <1>11 DEF Same, sendVars, TypeInv, TypeOK
<1>12. ASSUME NEW c \in Boards
       PROVE  /\ Phase(c)'
              /\ c # b => ~ Holder(c)' /\ ~ Holder(c) /\ (Idle(c) => Idle(c)')
              /\ ~ Queued(c)' /\ ~ Arrived(c)' /\ (Working(c)' => c = b)
  <2>1. CASE c = b
    BY <1>10, <2>1 DEF Phase
  <2>2. CASE c # b
    BY <1>6, <1>11, <2>2, SamePhase, WalkPhase DEF Holder
  <2>3. QED
    BY <2>1, <2>2
<1>13. CASE ID[b] # DEFAULT_ID
  <2>1. UNCHANGED <<ID, parent_ID>>
    BY <1>1, <1>13
  <2>2. Count' = Count /\ \A a, c \in Boards : LinkOK(a, c)' <=> LinkOK(a, c)
    BY <2>1, IDsSame
  <2>3. NamesOK' /\ SeekingOK'
    <3>1. \A c \in Boards : Working(c) => Working(c)'
      BY <1>10, <1>12 DEF Holder
    <3>2. QED
      BY <1>3, <2>1, <3>1, NamesKept, SeekingKept
  <2>4. NumbersOK'
    <3>1. token_id_number'[b] = Count'
      BY <1>1, <1>5, <1>13, <2>2 DEF TypeInv, TypeOK
    <3>2. QED
      BY <1>12, <3>1 DEF NumbersOK
  <2>5. LinksOK'
    <3>1. LinksOK /\ \A c \in Boards : assoc[c] # NONE => assoc[c] \in Boards
      BY DEF WalkInv, TypeInv, TypeOK
    <3>2. \A c \in Boards : ~ Woken(c) /\ (c # b => (NoRecv(c)' <=> NoRecv(c)) /\ (NoCall(c)' <=> NoCall(c)))
      BY <1>4, <1>6, <1>11, SamePhase DEF Woken, Holder, Working
    <3>3. Typed' /\ \A c \in Boards : Holder(c)' => c = b
      BY <1>3, <1>6, <1>12 DEF Typed
    <3>4. QED
      BY <1>3, <1>4, <1>6, <1>12, <3>1, <3>2, <3>3 DEF LinksOK
  <2>6. WalkInv'
    <3>1. \A c \in Boards : ~ access_point'[c] \/ Working(c)' => ~ access_point[c] \/ c = b
      BY <1>3, <1>12
    <3>2. Typed' /\ todo' = {} /\ IDsOK
      BY <1>3, <1>6 DEF Typed, WalkInv
    <3>3. IDsOK'
      BY <1>13, <2>1, <2>2, <3>1, <3>2 DEF IDsOK
    <3>4. OneHolder'
      BY <1>3, <1>6, <1>12, <3>2 DEF OneHolder
    <3>5. QED
      BY <1>12, <2>3, <2>4, <2>5, <3>3, <3>4 DEF WalkInv
  <2>7. QED
    BY <1>3, <1>4, <1>8, <1>10, <1>11, <1>13, <2>1, <2>6
<1>14. CASE ID[b] = DEFAULT_ID
  <2>1. /\ ID' = [ID EXCEPT ![b] = Count]
        /\ parent_ID' = [parent_ID EXCEPT ![b] = p.src]
        /\ Count \in IDs /\ Count' = Count + 1 /\ Count # DEFAULT_ID
    <3>1. /\ ID' = [ID EXCEPT ![b] = Count] /\ Count \in IDs
          /\ parent_ID' = [parent_ID EXCEPT ![b] = p.src]
      BY <1>1, <1>5, <1>7, <1>14
    <3>2. TypeOK
      BY DEF TypeInv
    <3>3. Count' = Count + 1
      BY <1>14, <3>1, <3>2, CountGrows
    <3>4. QED
      BY <3>1, <3>3 DEF IDs, DEFAULT_ID
  <2>2. /\ ID'[b] = Count /\ parent_ID'[b] = p.src
        /\ \A c \in Boards : c # b => ID'[c] = ID[c] /\ parent_ID'[c] = parent_ID[c]
    BY <2>1 DEF TypeInv, TypeOK
  <2>3. IDsOK /\ \A c \in Boards : ID[c] < Count /\ ID[c] \in Int
    BY DEF WalkInv, IDsOK, TypeInv, TypeOK, IDs, DEFAULT_ID
  <2>4. IDsOK'
    <3>1. ID'[0] = 0
      BY <1>14, <2>2, <2>3, NeighborFindAssumption DEF IDsOK, DEFAULT_ID
    <3>2. \A x, y \in Boards : ID'[x] = ID'[y] /\ ID'[x] # DEFAULT_ID => x = y
      BY <2>2, <2>3 DEF IDsOK
    <3>3. \A x \in Boards : ID'[x] < Count'
      BY <2>1, <2>2, <2>3 DEF IDs
    <3>4. \A x \in Boards : ~ access_point'[x] \/ Working(x)' => ID'[x] # DEFAULT_ID
      BY <1>3, <1>12, <2>1, <2>2, <2>3 DEF IDsOK
    <3>5. ASSUME NEW x \in Boards, ID'[x] # DEFAULT_ID, x # 0
          PROVE  \E a \in Boards : /\ x \in InRange[a]
                                   /\ ID'[a] # DEFAULT_ID /\ ID'[a] = parent_ID'[x]
      <4>1. PICK a \in Boards : /\ x \in InRange[a] /\ ID[a] # DEFAULT_ID
                                /\ ID[a] = parent_ID'[x]
        <5>1. CASE x = b
          BY <1>5, <1>14, <2>2, <5>1 DEF LinkOK
        <5>2. CASE x # b
          BY <2>2, <2>3, <3>5, <5>2 DEF IDsOK
        <5>3. QED
          BY <5>1, <5>2
      <4>2. a # b
        BY <1>14, <4>1
      <4>3. QED
        BY <2>2, <4>1, <4>2
    <3>6. Typed'
      BY <1>3, <1>6 DEF Typed
    <3>7. QED
      BY <3>1, <3>2, <3>3, <3>4, <3>5, <3>6 DEF IDsOK
  <2>5. NamesOK'
    <3>1. wifi_ssid[b] = PIDOG
      BY <1>14 DEF WalkInv, NamesOK, TypeInv, TypeOK, IDs, PIDOG, DEFAULT_ID
    <3>2. ASSUME NEW c \in Boards
          PROVE  /\ wifi_ssid'[c] \in {PIDOG, ID'[c]}
                 /\ access_point'[c] /\ wifi_ssid'[c] = PIDOG => ID'[c] = DEFAULT_ID \/ Working(c)'
      <4>1. CASE c = b
        BY <1>3, <1>10, <3>1, <4>1
      <4>2. CASE c # b
        BY <1>3, <1>12, <2>2, <4>2 DEF WalkInv, NamesOK, Holder
      <4>3. QED
        BY <4>1, <4>2
    <3>3. QED
      BY <3>2 DEF NamesOK
  <2>6. SeekingOK'
    <3>1. pc'[b] = "poll"
      BY <1>3, <1>4
    <3>2. QED
      BY <1>3, <2>2, <3>1 DEF WalkInv, SeekingOK
  <2>7. NumbersOK'
    <3>1. token_id_number'[b] = Count'
      BY <1>1, <1>5, <1>14, <2>1 DEF TypeInv, TypeOK
    <3>2. QED
      BY <1>12, <3>1 DEF NumbersOK
  <2>8. LinksOK'
    <3>1. LinksOK /\ \A c \in Boards : assoc[c] # NONE => assoc[c] \in Boards
      BY DEF WalkInv, TypeInv, TypeOK
    <3>2. \A c \in Boards : ~ Woken(c) /\ (c # b => (NoRecv(c)' <=> NoRecv(c)) /\ (NoCall(c)' <=> NoCall(c)))
      BY <1>4, <1>6, <1>11, SamePhase DEF Woken, Holder, Working
    <3>3. Typed' /\ \A c \in Boards : Holder(c)' => c = b
      BY <1>3, <1>6, <1>12 DEF Typed
    <3>4. QED
      BY <1>3, <1>4, <1>6, <1>12, <3>1, <3>2, <3>3 DEF LinksOK
  <2>9. OneHolder'
    <3>1. Typed' /\ todo' = {}
      BY <1>3, <1>6 DEF Typed
    <3>2. QED
      BY <1>3, <1>6, <1>12, <3>1 DEF OneHolder
  <2>10. WalkInv'
    BY <1>12, <2>4, <2>5, <2>6, <2>7, <2>8, <2>9 DEF WalkInv
  <2>11. QED
    BY <1>3, <1>4, <1>8, <1>10, <1>11, <1>14, <2>1, <2>10 DEF p
<1>15. QED
  BY <1>13, <1>14

(* The walk begins: "token" is typed at the master, which has joined a     *)
(* board without ID or nobody.                                             *)
LEMMA WalkSerial ==
  ASSUME TypeInv, WalkInv, NEW b \in Boards, NEW S \in Sessions, NEW c \in S, Serial(b, c)
  PROVE  /\ WalkInv' /\ UNCHANGED <<ID, parent_ID>>
         /\ ~ Typed /\ Typed' /\ \A d \in Boards : ~ Holder(d)
         /\ Queued(0)' /\ Count' = 1
<1> DEFINE p == [new_packet(c.kind, target_ID[b], ID[b], IpAddr(b)) EXCEPT
                   !.num = IF c.kind = "token" THEN 1 ELSE 0]
<1>1. /\ Turn(b) /\ c \in todo /\ c.board = b /\ todo' = todo \ {c} /\ Enqueue(b, p)
      /\ UNCHANGED <<selfVars, radioVars, connectVars, recvVars, ackVars, faults>>
  BY DEF Serial, TypedLine
<1>2. ~ Typed
  BY <1>1 DEF WalkInv, OneHolder
<1>3. c.kind = "token" /\ b = 0 /\ todo' = {}
  <2>1. PICK t \in todo : t.kind = "token"
    BY <1>2 DEF Typed
  <2>2. PICK T \in Sessions : todo \subseteq T
    BY DEF TypeInv, TypeOK
  <2>3. T = {t}
    BY <2>1, <2>2, SessionsAssumption
  <2>4. c = t /\ todo = {t}
    BY <1>1, <2>1, <2>2, <2>3
  <2>5. c.board = 0
    BY <2>1, <2>2, <2>4, SessionsAssumption
  <2>6. QED
    BY <1>1, <2>1, <2>4, <2>5
<1>4. /\ ~ access_point[b] /\ Idle(b) /\ ID[b] = 0
      /\ \A d \in Boards : (Idle(d) \/ BootPhase(d)) /\ (access_point[d] <=> d # 0)
  BY <1>1, <1>2, <1>3 DEF WalkInv, OneHolder, IDsOK, Turn, BootPhase
<1>5. p \in Packet_t /\ p.type = "token" /\ p.num = 1 /\ p.ip = "station" /\ p.src = ID[b]
  <2>1. 1 \in Number
    BY NeighborFindAssumption DEF Number
  <2>2. target_ID[b] \in -2 .. MAX_NODES
    BY TargetIsDest
  <2>3. ID[b] \in IDs \cup {DEFAULT_ID} /\ IpAddr(b) = "station"
    BY <1>4 DEF TypeInv, TypeOK, IpAddr
  <2>4. p = [new_packet("token", target_ID[b], ID[b], "station") EXCEPT !.num = 1]
    BY <1>3, <2>3
  <2> HIDE DEF p
  <2>5. QED
    BY <2>1, <2>2, <2>3, <2>4, NewPacket
<1> HIDE DEF p
<1>6. /\ send_queue' = [send_queue EXCEPT ![b] = p] /\ p # NONE
      /\ new_udp_send_s' = [new_udp_send_s EXCEPT ![b] = 1]
  <2>1. /\ send_queue' = [send_queue EXCEPT ![b] = p] /\ p # NONE
        /\ new_udp_send_s' = [new_udp_send_s EXCEPT ![b] = new_udp_send_s[b] + 1]
    BY <1>1, <1>5, EnqueueTypes
  <2>2. QED
    BY <1>4, <2>1 DEF Idle, NoSend
<1>7. UNCHANGED <<ID, parent_ID, wifi_ssid, pc, access_point, assoc, target_ssid,
                  token_id_number, target_ID, signal_connect_thread>>
  BY <1>1 DEF selfVars, radioVars, connectVars
<1>8. QueuedPhase(b)' /\ Queued(b)' /\ ~ Arrived(b)' /\ ~ Working(b)'
  BY <1>1, <1>4, <1>5, <1>6, <1>7
     DEF QueuedPhase, Queued, Arrived, Working, Idle, NoRecv, NoAck, NoCall, TypeInv, TypeOK,
         recvVars, ackVars
<1>9. ASSUME NEW d \in Boards, d # b PROVE Same(d)
  BY <1>1, <1>6, <1>7, <1>9 DEF Same, recvVars, ackVars, TypeInv, TypeOK
<1>10. ASSUME NEW d \in Boards PROVE ~ Holder(d) /\ NoRecv(d) /\ NoCall(d)
  BY <1>4 DEF Holder, Queued, Arrived, Working, Idle, BootPhase, NoSend, NoRecv, NoCall
<1>11. ASSUME NEW d \in Boards
       PROVE  /\ Phase(d)' /\ NoRecv(d)' /\ NoCall(d)'
              /\ d # b => ~ Holder(d)'
              /\ ~ Arrived(d)' /\ ~ Working(d)' /\ ~ Working(d) /\ (Queued(d)' => d = b)
  <2>1. CASE d = b
    BY <1>8, <1>10, <2>1 DEF Phase, QueuedPhase, Holder
  <2>2. CASE d # b
    BY <1>9, <1>10, <2>2, SamePhase, WalkPhase DEF Holder
  <2>3. QED
    BY <2>1, <2>2
<1>12. Count = 1 /\ Count' = 1 /\ \A x, d \in Boards : LinkOK(x, d)' <=> LinkOK(x, d)
  <2>1. Numbered = {0}
    <3>1. ID[0] = 0 /\ \A d \in Boards : d # 0 => ID[d] = DEFAULT_ID
      BY <1>2 DEF WalkInv, IDsOK
    <3>2. 0 \in Boards /\ 0 # DEFAULT_ID
      BY NeighborFindAssumption DEF DEFAULT_ID
    <3>3. QED
      BY <3>1, <3>2 DEF Numbered
  <2>2. QED
    BY <1>7, <2>1, IDsSame, FS_Singleton DEF Count
<1>13. Typed'
  BY <1>3 DEF Typed
<1>14. NamesOK' /\ SeekingOK'
  BY <1>7, <1>11, NamesKept, SeekingKept
<1>15. NumbersOK'
  <2>1. send_queue'[b] = p
    BY <1>6 DEF TypeInv, TypeOK
  <2>2. QED
    BY <1>5, <1>7, <1>11, <1>12, <2>1 DEF NumbersOK
<1>16. LinksOK'
  <2>1. LinksOK
    BY DEF WalkInv
  <2>2. ASSUME NEW a \in Boards, assoc[a] # NONE PROVE a = b /\ LinkOK(a, assoc[a])
    BY <1>2, <1>3, <1>4, <2>1, <2>2 DEF LinksOK
  <2>3. \A a \in Boards : assoc[a] # NONE => assoc[a] \in Boards
    BY DEF TypeInv, TypeOK
  <2>4. \A h \in Boards : Holder(h)' => h = b
    BY <1>11
  <2>5. LinkOK(b, assoc[b])' <=> LinkOK(b, assoc[b])
    BY <1>7 DEF LinkOK
  <2>6. ASSUME NEW a \in Boards, assoc'[a] # NONE
        PROVE  /\ ~ access_point'[a] /\ pc'[a] = "poll" /\ access_point'[assoc'[a]]
               /\ NoRecv(a)' /\ NoCall(a)'
               /\ LinkOK(a, assoc[a])'
               /\ \A h \in Boards : Holder(h)' => h \in {a, assoc'[a]}
               /\ \A d \in Boards : assoc'[d] = assoc'[a] => d = a
    <3>1. assoc[a] # NONE /\ a = b
      BY <1>7, <2>2, <2>6
    <3>2. LinkOK(a, assoc[a])'
      BY <2>2, <2>5, <3>1
    <3>3. QED
      BY <1>7, <1>11, <2>1, <2>4, <3>1, <3>2 DEF LinksOK
  <2>7. QED
    BY <1>7, <2>6 DEF LinksOK
<1>17. IDsOK'
  <2>1. IDsOK
    BY DEF WalkInv
  <2>2. QED
    BY <1>7, <1>11, <1>12, <1>13, <2>1 DEF IDsOK
<1>18. OneHolder'
  <2>1. pc'[0] # "boot"
    BY <1>3, <1>4, <1>7 DEF Idle
  <2>2. QED
    BY <1>3, <1>11, <1>13, <2>1 DEF OneHolder
<1>19. QED
  BY <1>2, <1>3, <1>7, <1>8, <1>10, <1>11, <1>12, <1>13, <1>14, <1>15, <1>16, <1>17, <1>18
     DEF WalkInv

(* Everybody but a board that scans or joins keeps away from its radio.    *)
LEMMA BusyFacts ==
  ASSUME WalkInv, NEW b \in Boards, pc[b] \in {"scan", "pidog", "parent"}
  PROVE  /\ BusyPhase(b) /\ Working(b) /\ Holder(b) /\ ID[b] # DEFAULT_ID
         /\ token_id_number[b] = Count
         /\ ~ Queued(b) /\ ~ Arrived(b)
         /\ \A a \in Boards : assoc[a] = NONE
<1>1. BusyPhase(b) /\ Working(b) /\ Holder(b)
  BY DEF WalkInv, Phase, Idle, BootPhase, ArrivedPhase, AckDue, Woken, QueuedPhase,
         AckedPhase, EndPhase, Working, Holder
<1>2. ~ access_point[b] /\ ~ Queued(b) /\ ~ Arrived(b)
  BY <1>1 DEF BusyPhase, Queued, Arrived, NoSend, NoRecv
<1>3. \A a \in Boards : assoc[a] # NONE => b = a \/ b = assoc[a]
  BY <1>1, HolderFacts
<1>4. \A a \in Boards : assoc[a] = NONE
  BY <1>2, <1>3 DEF WalkInv, LinksOK
<1>5. QED
  BY <1>1, <1>2, <1>4 DEF WalkInv, IDsOK, NumbersOK

(* A host that has handed out the ack starts to scan.                      *)
LEMMA WalkWakeHost ==
  ASSUME TypeInv, WalkInv, NEW b \in Boards, WakeHost(b)
  PROVE  /\ WalkInv' /\ UNCHANGED <<ID, parent_ID, todo>>
         /\ Working(b) /\ Working(b)'
         /\ Woken(b) /\ \A c \in Boards : c # b => Same(c)
<1>1. /\ Turn(b) /\ signal_connect_thread[b] /\ ack_queue_empty[b] /\ access_point[b]
      /\ signal_connect_thread' = [signal_connect_thread EXCEPT ![b] = FALSE]
      /\ access_point' = [access_point EXCEPT ![b] = FALSE]
      /\ assoc' = [a \in Boards |-> IF assoc[a] = b THEN NONE ELSE assoc[a]]
      /\ pc' = [pc EXCEPT ![b] = IF target_ID[b] = RUN_SCAN THEN "scan" ELSE pc[b]]
      /\ UNCHANGED <<ID, parent_ID, wifi_ssid, target_ID, target_ssid, token_id_number,
                     sendVars, recvVars, ackVars, todo>>
  BY DEF WakeHost, Wake, BecomeStation
<1>2. Woken(b)
  BY <1>1 DEF Turn, WalkInv, Phase, Idle, BootPhase, ArrivedPhase, AckDue, BusyPhase, QueuedPhase,
              AckedPhase, EndPhase, NoCall
<1>3. Working(b) /\ Holder(b) /\ pc'[b] = "scan"
  BY <1>1, <1>2 DEF Woken, Working, Holder, TypeInv, TypeOK
<1>4. /\ Typed /\ todo = {} /\ pc[0] # "boot" /\ \A c \in Boards : c # b => ~ Holder(c)
      /\ \A a \in Boards : assoc[a] # NONE => b = a \/ b = assoc[a]
  BY <1>3, HolderFacts
<1>5. BusyPhase(b)' /\ Working(b)' /\ ~ Queued(b)' /\ ~ Arrived(b)'
  BY <1>1, <1>2, <1>3 DEF Woken, BusyPhase, Working, Queued, Arrived, NoSend, NoRecv, NoAck, NoCall,
                          TypeInv, TypeOK, sendVars, recvVars, ackVars
<1>6. ASSUME NEW c \in Boards, c # b PROVE Same(c)
  BY <1>1, <1>6 DEF Same, sendVars, recvVars, ackVars, TypeInv, TypeOK
<1>7. ASSUME NEW c \in Boards
      PROVE  /\ Phase(c)'
             /\ c # b => ~ Holder(c)' /\ ~ Holder(c)
             /\ ~ Queued(c)' /\ ~ Arrived(c)' /\ (Working(c)' <=> Working(c))
             /\ access_point'[c] => access_point[c]
             /\ pc'[c] # pc[c] => pc'[c] = "scan"
  <2>1. CASE c = b
    BY <1>1, <1>3, <1>5, <2>1 DEF Phase
  <2>2. CASE c # b
    BY <1>4, <1>6, <2>2, SamePhase, WalkPhase DEF Holder, Same
  <2>3. QED
    BY <2>1, <2>2
<1>8. NamesOK' /\ SeekingOK'
  <2>1. \A c \in Boards : pc'[c] \in {"pidog", "parent"} => pc'[c] = pc[c]
    BY <1>7
  <2>2. \A c \in Boards : access_point'[c] => access_point[c] /\ (Working(c) => Working(c)')
    BY <1>7
  <2>3. UNCHANGED <<ID, parent_ID, wifi_ssid, target_ssid>>
    BY <1>1
  <2>4. QED
    BY <2>1, <2>2, <2>3, NamesKept, SeekingKept
<1>9. NumbersOK'
  <2>1. Count' = Count /\ token_id_number'[b] = Count
    BY <1>1, <1>3, IDsSame DEF WalkInv, NumbersOK
  <2>2. QED
    BY <1>7, <2>1 DEF NumbersOK, Holder
<1>10. LinksOK'
  <2>1. ASSUME NEW a \in Boards PROVE assoc'[a] = NONE
    BY <1>1, <1>4 DEF WalkInv, LinksOK
  <2>2. QED
    BY <2>1 DEF LinksOK
<1>11. \A c \in Boards : ~ access_point'[c] \/ Working(c)' => ~ access_point[c] \/ Working(c)
  <2>1. \A c \in Boards : c # b => access_point'[c] = access_point[c]
    BY <1>6 DEF Same
  <2>2. QED
    BY <1>3, <1>7, <2>1
<1>12. pc'[0] # "boot"
  BY <1>4, <1>7, NeighborFindAssumption
<1>13. QED
  BY <1>1, <1>2, <1>3, <1>4, <1>5, <1>6, <1>7, <1>8, <1>9, <1>10, <1>11, <1>12, WalkKept

(* A station that is told to hosts again, under its ID.                    *)
LEMMA WalkWakeStation ==
  ASSUME TypeInv, WalkInv, NEW b \in Boards, WakeStation(b)
  PROVE  /\ WalkInv' /\ UNCHANGED <<ID, parent_ID, todo>>
         /\ ID[b] # DEFAULT_ID
         /\ \A c \in Boards : /\ Queued(c)' <=> Queued(c)
                              /\ Working(c)' <=> Working(c)
                              /\ Arrived(c)' <=> Arrived(c)
                              /\ recv_data'[c] = recv_data[c]
         /\ access_point'[b]
         /\ \A c \in Boards : c # b => Same(c) /\ assoc'[c] = assoc[c]
<1>1. /\ Turn(b) /\ signal_connect_thread[b] /\ ack_queue_empty[b] /\ ~ access_point[b]
      /\ signal_connect_thread' = [signal_connect_thread EXCEPT ![b] = FALSE]
      /\ UNCHANGED <<ID, parent_ID, pc, target_ID, target_ssid, token_id_number,
                     sendVars, recvVars, ackVars, todo>>
  BY DEF WakeStation, Wake
<1>2. EndPhase(b)
  BY <1>1 DEF Turn, WalkInv, Phase, Idle, BootPhase, ArrivedPhase, AckDue, Woken, BusyPhase,
              QueuedPhase, AckedPhase, NoCall
<1>3. /\ access_point' = [access_point EXCEPT ![b] = TRUE]
      /\ assoc' = [assoc EXCEPT ![b] = NONE]
      /\ wifi_ssid' = [wifi_ssid EXCEPT ![b] = ID[b]]
  BY <1>2 DEF WakeStation, BootAp, EndPhase
<1>4. ~ Holder(b) /\ ID[b] # DEFAULT_ID /\ ID[b] # PIDOG
  <2>1. ~ Holder(b)
    BY <1>2 DEF EndPhase, Holder, Queued, Arrived, Working, NoSend, NoRecv, RUN_SCAN, ENABLE_AP
  <2>2. ID[b] # DEFAULT_ID
    BY <1>1 DEF WalkInv, IDsOK
  <2>3. QED
    BY <2>1, <2>2 DEF TypeInv, TypeOK, IDs, PIDOG, DEFAULT_ID
<1>5. Idle(b)' /\ ~ Queued(b)' /\ ~ Arrived(b)' /\ ~ Working(b)'
  BY <1>1, <1>2 DEF EndPhase, Idle, Queued, Arrived, Working, NoSend, NoRecv, NoAck, NoCall,
                    TypeInv, TypeOK, sendVars, recvVars, ackVars
<1>6. ASSUME NEW c \in Boards, c # b PROVE Same(c)
  BY <1>1, <1>3, <1>6 DEF Same, sendVars, recvVars, ackVars, TypeInv, TypeOK
<1>7. ASSUME NEW c \in Boards
      PROVE  /\ Phase(c)'
             /\ Queued(c)' <=> Queued(c)
             /\ Working(c)' <=> Working(c)
             /\ Arrived(c)' <=> Arrived(c)
             /\ Holder(c)' <=> Holder(c)
             /\ c # b => /\ access_point'[c] = access_point[c]
                         /\ (NoRecv(c)' <=> NoRecv(c)) /\ (NoCall(c)' <=> NoCall(c))
                         /\ (Woken(c)' <=> Woken(c))
  <2>1. CASE c = b
    BY <1>4, <1>5, <2>1 DEF Phase, Holder
  <2>2. CASE c # b
    BY <1>6, <2>2, SamePhase, WalkPhase DEF Same
  <2>3. QED
    BY <2>1, <2>2
<1>8. Typed /\ pc[0] # "boot"
  <2>1. ~ Idle(b) /\ ~ BootPhase(b)
    BY <1>1, <1>2 DEF EndPhase, Idle, BootPhase, NoCall
  <2>2. QED
    BY <2>1 DEF WalkInv, OneHolder
<1>9. NamesOK'
  <2>1. ASSUME NEW c \in Boards
        PROVE  /\ wifi_ssid'[c] \in {PIDOG, ID'[c]}
               /\ access_point'[c] /\ wifi_ssid'[c] = PIDOG => ID'[c] = DEFAULT_ID \/ Working(c)'
    <3>1. CASE c = b
      BY <1>1, <1>3, <1>4, <3>1 DEF TypeInv, TypeOK
    <3>2. CASE c # b
      BY <1>1, <1>3, <1>7, <3>2 DEF WalkInv, NamesOK, TypeInv, TypeOK
    <3>3. QED
      BY <3>1, <3>2
  <2>2. QED
    BY <2>1 DEF NamesOK
<1>10. SeekingOK'
  BY <1>1, SeekingKept
<1>11. NumbersOK'
  <2>1. /\ Count' = Count
        /\ \A a, c \in Boards : LinkOK(a, c)' <=> LinkOK(a, c)
    BY <1>1, IDsSame
  <2>2. NumbersOK
    BY DEF WalkInv
  <2>3. QED
    BY <1>1, <1>7, <2>1, <2>2 DEF NumbersOK, sendVars, recvVars
<1>12. LinksOK'
  <2>1. LinksOK /\ \A c \in Boards : assoc[c] # NONE => assoc[c] \in Boards
    BY DEF WalkInv, TypeInv, TypeOK
  <2>2. /\ Typed' /\ Typed
        /\ \A a, c \in Boards : LinkOK(a, c)' <=> LinkOK(a, c)
    BY <1>1, <1>8, IDsSame DEF Typed
  <2>3. \A a \in Boards : assoc'[a] = IF a = b THEN NONE ELSE assoc[a]
    BY <1>3 DEF TypeInv, TypeOK
  <2>4. \A a \in Boards : assoc[a] # NONE => assoc[a] # b
    BY <1>1, <2>1 DEF LinksOK
  <2>5. QED
    BY <1>1, <1>7, <2>1, <2>2, <2>3, <2>4 DEF LinksOK
<1>13. PICK h \in Boards : \A c \in Boards : c # h => ~ Holder(c)'
  BY <1>7, HolderFacts, NeighborFindAssumption
<1>14. \A c \in Boards : ~ access_point'[c] \/ Working(c)' => ~ access_point[c] \/ Working(c)
  BY <1>1, <1>7
<1>15. QED
  <2>1. UNCHANGED <<ID, parent_ID, todo>> /\ pc'[0] # "boot"
    BY <1>1, <1>8
  <2>2. \A c \in Boards : Phase(c)'
    BY <1>7
  <2>3. WalkInv'
    BY <1>8, <1>9, <1>10, <1>11, <1>12, <1>13, <1>14, <2>1, <2>2, WalkKept
  <2>4. access_point'[b] /\ \A c \in Boards : c # b => assoc'[c] = assoc[c]
    BY <1>3 DEF TypeInv, TypeOK
  <2>5. QED
    BY <1>1, <1>4, <1>6, <1>7, <2>1, <2>3, <2>4 DEF recvVars

(* A scan ends: the board seeks a pidog in its range or its parent, or is  *)
(* the master and done.                                                    *)
LEMMA ScanOutcome ==
  ASSUME TypeInv, TypeInv', NEW b \in Boards, Scan(b),
         ID[b] # MASTER_ID => parent_ID[b] \in IDs
  PROVE  /\ pc[b] = "scan"
         /\ UNCHANGED <<ID, parent_ID, wifi_ssid, access_point, assoc, token_id_number,
                        sendVars, recvVars, ackVars, todo>>
         /\ \/ /\ \E x : /\ x = NONE \/ \E a \in InRange[b] : x = <<a, PIDOG>>
                         /\ target_ssid' = [target_ssid EXCEPT ![b] = x]
               /\ pc' = [pc EXCEPT ![b] = "pidog"]
               /\ UNCHANGED <<target_ID, signal_connect_thread>>
            \/ /\ \E a \in Boards :
                     target_ssid' = [target_ssid EXCEPT ![b] = <<a, parent_ID[b]>>]
               /\ pc' = [pc EXCEPT ![b] = "parent"]
               /\ target_ID' = [target_ID EXCEPT ![b] = parent_ID[b]]
               /\ UNCHANGED signal_connect_thread
               /\ ID[b] # MASTER_ID
            \/ /\ target_ssid' = target_ssid
               /\ pc' = [pc EXCEPT ![b] = "poll"]
               /\ target_ID' = [target_ID EXCEPT ![b] = ENABLE_AP]
               /\ signal_connect_thread' = [signal_connect_thread EXCEPT ![b] = TRUE]
               /\ ID[b] = MASTER_ID
<1>1. ScanEnds(b)
  BY DEF Scan, ScanFound, ScanNobody, ScanFails
<1>2. /\ pc[b] = "scan"
      /\ UNCHANGED <<ID, parent_ID, wifi_ssid, access_point, assoc, token_id_number,
                     sendVars, recvVars, ackVars, todo>>
  BY <1>1 DEF ScanEnds, radioVars
<1>3. CASE \E a \in Boards : ScanFound(b, a)
  <2>1. PICK a \in Boards : ScanFound(b, a)
    BY <1>3
  <2>2. a \in InRange[b]
    BY <2>1 DEF ScanFound, Pidogs, Visible
  <2>3. /\ target_ssid' = [target_ssid EXCEPT ![b] = <<a, PIDOG>>]
        /\ pc' = [pc EXCEPT ![b] = "pidog"]
        /\ UNCHANGED <<target_ID, signal_connect_thread>>
    BY <2>1 DEF ScanFound, Seek
  <2>4. \E x : /\ x = NONE \/ \E c \in InRange[b] : x = <<c, PIDOG>>
               /\ target_ssid' = [target_ssid EXCEPT ![b] = x]
    BY <2>2, <2>3
  <2>5. QED
    BY <1>2, <2>3, <2>4
<1>4. CASE NobodyLeft(b)
  <2>1. CASE ID[b] = MASTER_ID
    <3>1. /\ target_ssid' = [target_ssid EXCEPT ![b] = target_ssid[b]]
          /\ pc' = [pc EXCEPT ![b] = "poll"]
          /\ target_ID' = [target_ID EXCEPT ![b] = ENABLE_AP]
          /\ signal_connect_thread' = [signal_connect_thread EXCEPT ![b] = TRUE]
      BY <1>4, <2>1 DEF NobodyLeft, Retarget, Seek
    <3>2. target_ssid' = target_ssid
      BY <3>1 DEF TypeInv, TypeOK
    <3>3. QED
      BY <1>2, <2>1, <3>1, <3>2
  <2>2. CASE ID[b] # MASTER_ID
    <3> DEFINE a == ID_to_phys_ID'[b][parent_ID[b]]
    <3>1. /\ target_ssid' = [target_ssid EXCEPT ![b] = <<a, parent_ID[b]>>]
          /\ pc' = [pc EXCEPT ![b] = "parent"]
          /\ target_ID' = [target_ID EXCEPT ![b] = parent_ID[b]]
          /\ UNCHANGED signal_connect_thread
      BY <1>4, <2>2 DEF NobodyLeft, Seek
    <3>2. a \in Boards
      BY <2>2 DEF TypeInv, Filled
    <3> HIDE DEF a
    <3>3. \E c \in Boards : target_ssid' = [target_ssid EXCEPT ![b] = <<c, parent_ID[b]>>]
      BY <3>1, <3>2
    <3>4. QED
      BY <1>2, <2>2, <3>1, <3>3
  <2>3. QED
    BY <2>1, <2>2
<1>5. CASE Seek(b, NONE, "pidog") /\ UNCHANGED <<knows_nbrs, target_ID, signal_connect_thread>>
  <2>1. /\ target_ssid' = [target_ssid EXCEPT ![b] = NONE]
        /\ pc' = [pc EXCEPT ![b] = "pidog"]
        /\ UNCHANGED <<target_ID, signal_connect_thread>>
    BY <1>5 DEF Seek
  <2>2. \E x : /\ x = NONE \/ \E c \in InRange[b] : x = <<c, PIDOG>>
               /\ target_ssid' = [target_ssid EXCEPT ![b] = x]
    BY <2>1
  <2>3. QED
    BY <1>2, <2>1, <2>2
<1>6. QED
  BY <1>3, <1>4, <1>5 DEF Scan, ScanNobody, ScanFails

(* Whoever scans has a parent, or is the master.                           *)
LEMMA ParentHasID ==
  ASSUME TypeInv, WalkInv, NEW b \in Boards, ID[b] # DEFAULT_ID, ID[b] # MASTER_ID
  PROVE  /\ b # 0 /\ parent_ID[b] \in IDs
<1>1. ID[0] = 0 /\ \A d \in Boards : ID[d] # DEFAULT_ID /\ d # 0 =>
                     \E a \in Boards : ID[a] # DEFAULT_ID /\ ID[a] = parent_ID[d]
  BY DEF WalkInv, IDsOK
<1>2. b # 0
  BY <1>1 DEF MASTER_ID
<1>3. QED
  BY <1>1, <1>2 DEF TypeInv, TypeOK

(* What is left to show when a scan or a join has ended, as all of them    *)
(* leave other boards, radios and names alone: the phase of the board, and *)
(* what it knows if it has the token still.                                *)
LEMMA BusyStep ==
  ASSUME TypeInv, WalkInv, NEW b \in Boards, pc[b] \in {"scan", "pidog", "parent"},
         UNCHANGED <<ID, parent_ID, wifi_ssid, access_point, token_id_number, todo>>,
         \A c \in Boards : c # b => Same(c),
         Phase(b)', pc'[b] # "boot", ~ Arrived(b)',
         Queued(b)' => /\ send_queue'[b].num = Count /\ send_queue'[b].src = ID[b]
                       /\ send_queue'[b].ip = "station",
         SeekingOK', LinksOK'
  PROVE  WalkInv'
<1>1. /\ BusyPhase(b) /\ Working(b) /\ Holder(b) /\ ID[b] # DEFAULT_ID
      /\ token_id_number[b] = Count /\ ~ access_point[b]
  BY BusyFacts DEF BusyPhase
<1>2. /\ Typed /\ todo = {} /\ pc[0] # "boot" /\ \A c \in Boards : c # b => ~ Holder(c)
  BY <1>1, HolderFacts
<1>3. ASSUME NEW c \in Boards
      PROVE  /\ Phase(c)'
             /\ c # b => ~ Holder(c)' /\ ~ Holder(c)
             /\ ~ Arrived(c)' /\ (Queued(c)' => c = b)
             /\ Working(c)' => c = b
             /\ c # b => pc'[c] = pc[c]
  <2>1. CASE c = b
    BY <2>1
  <2>2. CASE c # b
    BY <1>2, <2>2, SamePhase, WalkPhase DEF Holder, Same
  <2>3. QED
    BY <2>1, <2>2
<1>4. NamesOK'
  <2>1. \A c \in Boards : access_point'[c] => access_point[c] /\ (Working(c) => Working(c)')
    BY <1>1, <1>3 DEF Holder
  <2>2. QED
    BY <2>1, NamesKept
<1>5. NumbersOK'
  <2>1. Count' = Count
    BY IDsSame
  <2>2. QED
    BY <1>1, <1>3, <2>1 DEF NumbersOK
<1>6. \A c \in Boards : ~ access_point'[c] \/ Working(c)' => ~ access_point[c] \/ Working(c)
  BY <1>1, <1>3
<1>7. pc'[0] # "boot"
  BY <1>2, <1>3, NeighborFindAssumption
<1>8. QED
  BY <1>2, <1>3, <1>4, <1>5, <1>6, <1>7, WalkKept

LEMMA WalkScan ==
  ASSUME TypeInv, WalkInv, NEW b \in Boards, Scan(b)
  PROVE  /\ WalkInv' /\ TypeInv' /\ UNCHANGED <<ID, parent_ID, todo>>
         /\ Working(b)
         /\ Working(b)' \/ \A c \in Boards : ~ Holder(c)'
         /\ BusyPhase(b) /\ \A c \in Boards : c # b => Same(c)
<1>1. pc[b] = "scan"
  BY DEF Scan, ScanFound, ScanNobody, ScanFails, ScanEnds
<1>2. /\ BusyPhase(b) /\ Working(b) /\ Holder(b) /\ ID[b] # DEFAULT_ID
      /\ ~ Queued(b) /\ ~ Arrived(b)
      /\ \A a \in Boards : assoc[a] = NONE
  BY <1>1, BusyFacts
<1>3. ID[b] # MASTER_ID => b # 0 /\ parent_ID[b] \in IDs
  BY <1>2, ParentHasID
<1>4. TypeInv'
  BY <1>3, ScanTypes
<1>5. /\ UNCHANGED <<ID, parent_ID, wifi_ssid, access_point, assoc, token_id_number,
                     sendVars, recvVars, ackVars, todo>>
      /\ \/ /\ \E x : /\ x = NONE \/ \E a \in InRange[b] : x = <<a, PIDOG>>
                      /\ target_ssid' = [target_ssid EXCEPT ![b] = x]
            /\ pc' = [pc EXCEPT ![b] = "pidog"]
            /\ UNCHANGED <<target_ID, signal_connect_thread>>
         \/ /\ \E a \in Boards :
                  target_ssid' = [target_ssid EXCEPT ![b] = <<a, parent_ID[b]>>]
            /\ pc' = [pc EXCEPT ![b] = "parent"]
            /\ target_ID' = [target_ID EXCEPT ![b] = parent_ID[b]]
            /\ UNCHANGED signal_connect_thread
            /\ ID[b] # MASTER_ID
         \/ /\ target_ssid' = target_ssid
            /\ pc' = [pc EXCEPT ![b] = "poll"]
            /\ target_ID' = [target_ID EXCEPT ![b] = ENABLE_AP]
            /\ signal_connect_thread' = [signal_connect_thread EXCEPT ![b] = TRUE]
            /\ ID[b] = MASTER_ID
  BY <1>3, <1>4, ScanOutcome
<1>6. /\ \A c \in Boards : c # b => Same(c)
      /\ \A c \in Boards : c # b => target_ssid'[c] = target_ssid[c] /\ pc'[c] = pc[c]
      /\ pc'[b] \in {"pidog", "parent", "poll"}
  BY <1>5 DEF Same, sendVars, recvVars, ackVars, TypeInv, TypeOK
<1>7. ~ Queued(b)' /\ ~ Arrived(b)'
  BY <1>2, <1>5 DEF Queued, Arrived, sendVars, recvVars
<1>8. /\ Phase(b)'
      /\ Working(b)' \/ ~ Holder(b)'
  <2>1. CASE pc'[b] \in {"pidog", "parent"}
    <3>1. BusyPhase(b)'
      BY <1>2, <1>5, <2>1 DEF BusyPhase, NoSend, NoRecv, NoAck, NoCall, sendVars, recvVars, ackVars,
                              TypeInv, TypeOK
    <3>2. QED
      BY <2>1, <3>1 DEF Phase, Working
  <2>2. CASE pc'[b] = "poll"
    <3>1. signal_connect_thread'[b] /\ target_ID'[b] = ENABLE_AP
      BY <1>5, <2>2 DEF TypeInv, TypeOK
    <3>2. EndPhase(b)'
      BY <1>2, <1>5, <2>2, <3>1 DEF BusyPhase, EndPhase, NoSend, NoRecv, NoAck, sendVars, recvVars,
                                    ackVars
    <3>3. ~ Working(b)'
      BY <2>2, <3>1 DEF Working, RUN_SCAN, ENABLE_AP
    <3>4. QED
      BY <1>7, <3>2, <3>3 DEF Phase, Holder
  <2>3. QED
    BY <1>6, <2>1, <2>2
<1>9. SeekingOK'
  <2>1. pc'[b] = "pidog" => \/ target_ssid'[b] = NONE
                           \/ \E a \in InRange[b] : target_ssid'[b] = <<a, PIDOG>>
    BY <1>5 DEF TypeInv, TypeOK
  <2>2. pc'[b] = "parent" => b # 0 /\ \E a \in Boards : target_ssid'[b] = <<a, parent_ID'[b]>>
    BY <1>3, <1>5 DEF TypeInv, TypeOK
  <2>3. parent_ID' = parent_ID
    BY <1>5
  <2>4. QED
    BY <1>6, <2>1, <2>2, <2>3 DEF WalkInv, SeekingOK
<1>10. LinksOK'
  BY <1>2, <1>5 DEF LinksOK
<1>11. WalkInv'
  <2>1. pc'[b] # "boot" /\ pc[b] \in {"scan", "pidog", "parent"}
    BY <1>1, <1>6
  <2>2. UNCHANGED <<ID, parent_ID, wifi_ssid, access_point, token_id_number, todo>>
    BY <1>5
  <2>3. QED
    BY <1>6, <1>7, <1>8, <1>9, <1>10, <2>1, <2>2, BusyStep
<1>12. Working(b)' \/ \A c \in Boards : ~ Holder(c)'
  <2>1. \A c \in Boards : c # b => ~ Holder(c)'
    BY <1>2, <1>6, HolderFacts, SamePhase
  <2>2. QED
    BY <1>8, <2>1
<1>13. QED
  BY <1>2, <1>4, <1>5, <1>6, <1>11, <1>12

(* The next holder has been joined: it has no ID yet, or is the parent.    *)
LEMMA WalkJoin ==
  ASSUME TypeInv, WalkInv, NEW b \in Boards, Join(b)
  PROVE  /\ WalkInv' /\ UNCHANGED <<ID, parent_ID, todo>>
         /\ Working(b) /\ Queued(b)'
         /\ BusyPhase(b) /\ \A c \in Boards : c # b => Same(c)
<1>1. pc[b] \in {"pidog", "parent"}
  BY DEF Join
<1>2. /\ BusyPhase(b) /\ Working(b) /\ Holder(b) /\ ID[b] # DEFAULT_ID
      /\ ~ Queued(b) /\ ~ Arrived(b) /\ token_id_number[b] = Count
      /\ \A a \in Boards : assoc[a] = NONE
  BY <1>1, BusyFacts
<1>3. PICK a \in Networks(b) : assoc' = [assoc EXCEPT ![b] = a]
  BY DEF Join
<1>4. a \in Boards /\ access_point[a] /\ target_ssid[b] = <<a, wifi_ssid[a]>>
  BY DEF Networks
<1>5. /\ pc' = [pc EXCEPT ![b] = "poll"]
      /\ UNCHANGED <<ID, parent_ID, wifi_ssid, access_point, target_ID, signal_connect_thread,
                     target_ssid, token_id_number, recvVars, ackVars, todo>>
  BY DEF Join, JoinEnds, selfVars
<1> DEFINE d == IF pc[b] = "pidog" THEN -1 ELSE target_ID[b]
           p == [new_packet("token", d, ID[b], "station") EXCEPT !.num = token_id_number[b]]
<1>6. /\ p \in Packet_t /\ p.type = "token" /\ p.num = Count /\ p.ip = "station"
      /\ p.src = ID[b]
  <2>1. d \in -2 .. MAX_NODES
    BY TargetIsDest, NeighborFindAssumption
  <2>2. ID[b] \in IDs \cup {DEFAULT_ID} /\ token_id_number[b] \in Number
    BY DEF TypeInv, TypeOK
  <2> HIDE DEF d
  <2>3. QED
    BY <1>2, <2>1, <2>2, NewPacket
<1>7. Enqueue(b, p)
  BY DEF Join, PassToken
<1> HIDE DEF p
<1>8. /\ send_queue' = [send_queue EXCEPT ![b] = p] /\ p # NONE
      /\ new_udp_send_s' = [new_udp_send_s EXCEPT ![b] = 1]
  <2>1. /\ send_queue' = [send_queue EXCEPT ![b] = p] /\ p # NONE
        /\ new_udp_send_s' = [new_udp_send_s EXCEPT ![b] = new_udp_send_s[b] + 1]
    BY <1>6, <1>7, EnqueueTypes
  <2>2. QED
    BY <1>2, <2>1 DEF BusyPhase, NoSend
<1>9. /\ \A c \in Boards : c # b => Same(c)
      /\ pc'[b] = "poll" /\ send_queue'[b] = p
  BY <1>5, <1>8 DEF Same, recvVars, ackVars, TypeInv, TypeOK
<1>10. /\ QueuedPhase(b)' /\ Queued(b)' /\ ~ Arrived(b)' /\ ~ Working(b)'
       /\ NoRecv(b)' /\ NoCall(b)'
  BY <1>2, <1>5, <1>6, <1>8, <1>9
     DEF BusyPhase, QueuedPhase, Queued, Arrived, Working, NoRecv, NoAck, NoCall, recvVars, ackVars,
         TypeInv, TypeOK
<1>11. /\ Typed /\ \A c \in Boards : c # b => ~ Holder(c) /\ ~ Holder(c)'
  BY <1>2, <1>9, HolderFacts, SamePhase
<1>12. ~ access_point[b] /\ a # b
  BY <1>2, <1>4 DEF BusyPhase
<1>13. LinkOK(b, a)
  <2>1. wifi_ssid[a] \in IDs \cup {PIDOG} /\ wifi_ssid[a] \in {PIDOG, ID[a]}
    BY <1>4 DEF TypeInv, TypeOK, WalkInv, NamesOK
  <2>2. CASE pc[b] = "pidog"
    <3>1. target_ssid[b] # NONE
      BY <1>4, <2>1, NoneAssumption
    <3>2. PICK c \in InRange[b] : target_ssid[b] = <<c, PIDOG>>
      BY <2>2, <3>1 DEF WalkInv, SeekingOK
    <3>3. a \in InRange[b] /\ wifi_ssid[a] = PIDOG
      BY <1>4, <3>2
    <3>4. ~ Working(a)
      BY <1>4, <1>11, <1>12 DEF Holder
    <3>5. ID[a] = DEFAULT_ID
      BY <1>4, <3>3, <3>4 DEF WalkInv, NamesOK
    <3>6. QED
      BY <3>3, <3>5 DEF LinkOK
  <2>3. CASE pc[b] = "parent"
    <3>1. b # 0 /\ \E c \in Boards : target_ssid[b] = <<c, parent_ID[b]>>
      BY <2>3 DEF WalkInv, SeekingOK
    <3>2. ID[b] # MASTER_ID
      BY <3>1, NeighborFindAssumption DEF WalkInv, IDsOK, MASTER_ID, DEFAULT_ID
    <3>3. parent_ID[b] \in IDs
      BY <1>2, <3>2, ParentHasID
    <3>4. wifi_ssid[a] = parent_ID[b]
      BY <1>4, <3>1
    <3>5. ID[a] = parent_ID[b] /\ ID[a] # DEFAULT_ID
      BY <2>1, <3>3, <3>4 DEF IDs, PIDOG, DEFAULT_ID
    <3>6. QED
      BY <3>1, <3>5 DEF LinkOK
  <2>4. QED
    BY <1>1, <2>2, <2>3
<1>14. \A c \in Boards : assoc'[c] = IF c = b THEN a ELSE NONE
  BY <1>2, <1>3 DEF TypeInv, TypeOK
<1>15. LinksOK'
  <2>1. LinkOK(b, a)'
    BY <1>5, <1>13 DEF LinkOK
  <2>2. ASSUME NEW x \in Boards, assoc'[x] # NONE
        PROVE  /\ ~ access_point'[x] /\ pc'[x] = "poll" /\ access_point'[assoc'[x]]
               /\ NoRecv(x)' /\ NoCall(x)'
               /\ LinkOK(x, assoc[x])'
               /\ \A h \in Boards : Holder(h)' => h \in {x, assoc'[x]}
               /\ \A c \in Boards : assoc'[c] = assoc'[x] => c = x
    <3>1. x = b /\ assoc'[x] = a
      BY <1>14, <2>2
    <3>2. LinkOK(x, assoc[x])'
      BY <2>1, <3>1 DEF LinkOK
    <3>3. a # NONE
      BY <1>4, NoneAssumption
    <3>4. QED
      BY <1>4, <1>5, <1>9, <1>10, <1>11, <1>12, <1>14, <3>1, <3>2, <3>3
  <2>3. QED
    BY <2>2 DEF LinksOK
<1>16. SeekingOK'
  <2>1. UNCHANGED <<parent_ID, target_ssid>>
    BY <1>5
  <2>2. \A c \in Boards : pc'[c] \in {"pidog", "parent"} => pc'[c] = pc[c]
    BY <1>9 DEF Same
  <2>3. QED
    BY <2>1, <2>2, SeekingKept
<1>17. WalkInv'
  <2>1. /\ pc[b] \in {"scan", "pidog", "parent"} /\ pc'[b] # "boot"
        /\ UNCHANGED <<ID, parent_ID, wifi_ssid, access_point, token_id_number, todo>>
    BY <1>1, <1>5, <1>9
  <2>2. Phase(b)' /\ ~ Arrived(b)'
    BY <1>10 DEF Phase
  <2>3. /\ send_queue'[b].num = Count /\ send_queue'[b].src = ID[b]
        /\ send_queue'[b].ip = "station"
    BY <1>6, <1>9
  <2>4. QED
    BY <1>9, <1>15, <1>16, <2>1, <2>2, <2>3, BusyStep
<1>18. QED
  BY <1>2, <1>5, <1>9, <1>10, <1>17

(* No such network, or a fault: the token is lost.                         *)
LEMMA WalkJoinFails ==
  ASSUME TypeInv, WalkInv, NEW b \in Boards, JoinFails(b)
  PROVE  /\ WalkInv' /\ UNCHANGED <<ID, parent_ID, todo>>
         /\ Working(b) /\ \A c \in Boards : ~ Holder(c)'
<1>1. pc[b] \in {"pidog", "parent"}
  BY DEF JoinFails
<1>2. /\ BusyPhase(b) /\ Working(b) /\ Holder(b)
      /\ \A a \in Boards : assoc[a] = NONE
  BY <1>1, BusyFacts
<1>3. /\ pc' = [pc EXCEPT ![b] = "poll"]
      /\ UNCHANGED <<ID, parent_ID, wifi_ssid, access_point, assoc, target_ID,
                     signal_connect_thread, target_ssid, token_id_number, sendVars, recvVars,
                     ackVars, todo>>
  BY DEF JoinFails, JoinEnds, selfVars
<1>4. (\A c \in Boards : c # b => Same(c)) /\ pc'[b] = "poll"
  BY <1>3 DEF Same, sendVars, recvVars, ackVars, TypeInv, TypeOK
<1>5. Idle(b)' /\ ~ Queued(b)' /\ ~ Arrived(b)' /\ ~ Working(b)'
  BY <1>2, <1>3, <1>4
     DEF BusyPhase, Idle, Queued, Arrived, Working, NoSend, NoRecv, NoAck, NoCall, sendVars,
         recvVars, ackVars
<1>6. LinksOK'
  BY <1>2, <1>3 DEF LinksOK
<1>7. SeekingOK'
  <2>1. UNCHANGED <<parent_ID, target_ssid>>
    BY <1>3
  <2>2. \A c \in Boards : pc'[c] \in {"pidog", "parent"} => pc'[c] = pc[c]
    BY <1>4 DEF Same
  <2>3. QED
    BY <2>1, <2>2, SeekingKept
<1>8. WalkInv'
  <2>1. /\ pc[b] \in {"scan", "pidog", "parent"} /\ pc'[b] # "boot"
        /\ UNCHANGED <<ID, parent_ID, wifi_ssid, access_point, token_id_number, todo>>
    BY <1>1, <1>3, <1>4
  <2>2. Phase(b)' /\ ~ Arrived(b)' /\ ~ Queued(b)'
    BY <1>5 DEF Phase
  <2>3. QED
    BY <1>4, <1>6, <1>7, <2>1, <2>2, BusyStep
<1>9. \A c \in Boards : ~ Holder(c)'
  BY <1>2, <1>4, <1>5, HolderFacts, SamePhase DEF Holder
<1>10. QED
  BY <1>2, <1>3, <1>8, <1>9

(* The master is ready, and has joined a board without ID or nobody.       *)
LEMMA WalkMasterBoot ==
  ASSUME TypeInv, WalkInv, NEW b \in Boards, MasterBoot(b)
  PROVE  /\ WalkInv' /\ UNCHANGED <<ID, parent_ID, todo>>
         /\ \A c \in Boards : ~ Holder(c) /\ ~ Holder(c)'
<1>1. BootPhase(b)
  BY DEF MasterBoot, WalkInv, Phase, Idle, ArrivedPhase, AckDue, Woken, BusyPhase, QueuedPhase,
         AckedPhase, EndPhase
<1>2. b = 0 /\ pc[0] = "boot" /\ ~ access_point[b]
  BY <1>1 DEF BootPhase
<1>3. ~ Typed
  BY <1>2 DEF WalkInv, OneHolder
<1>4. \A d \in Boards : (Idle(d) \/ BootPhase(d)) /\ (access_point[d] <=> d # 0)
  BY <1>3 DEF WalkInv, OneHolder
<1>5. /\ pc' = [pc EXCEPT ![b] = "poll"]
      /\ UNCHANGED <<ID, parent_ID, wifi_ssid, access_point, target_ID,
                     signal_connect_thread, target_ssid, token_id_number, sendVars, recvVars,
                     ackVars, todo>>
      /\ \/ assoc' = assoc
         \/ \E a \in Pidogs(b) : assoc' = [assoc EXCEPT ![b] = a]
  BY DEF MasterBoot, JoinEnds, selfVars
<1>6. (\A c \in Boards : c # b => Same(c)) /\ pc'[b] = "poll"
  BY <1>5 DEF Same, sendVars, recvVars, ackVars, TypeInv, TypeOK
<1>7. Idle(b)'
  BY <1>1, <1>5, <1>6 DEF BootPhase, Idle, NoSend, NoRecv, NoAck, NoCall, sendVars, recvVars, ackVars
<1>8. ASSUME NEW c \in Boards PROVE ~ Holder(c) /\ NoRecv(c) /\ NoCall(c)
  BY <1>4 DEF Holder, Queued, Arrived, Working, Idle, BootPhase, NoSend, NoRecv, NoCall
<1>9. ASSUME NEW c \in Boards
      PROVE  /\ Idle(c)' /\ NoRecv(c)' /\ NoCall(c)' /\ pc'[c] = "poll"
             /\ ~ Queued(c)' /\ ~ Arrived(c)' /\ ~ Working(c)'
  <2>1. Idle(c)'
    <3>1. CASE c = b
      BY <1>7, <3>1
    <3>2. CASE c # b
      BY <1>2, <1>4, <1>6, <3>2, SamePhase DEF BootPhase
    <3>3. QED
      BY <3>1, <3>2
  <2>2. QED
    BY <2>1 DEF Idle, Queued, Arrived, Working, NoSend, NoRecv, NoCall
<1>10. ~ Typed' /\ \A c \in Boards : ~ Holder(c)'
  BY <1>3, <1>5, <1>9 DEF Typed, Holder
<1>11. OneHolder'
  <2>1. \A d \in Boards : access_point'[d] <=> d # 0
    BY <1>4, <1>5
  <2>2. QED
    BY <1>9, <1>10, <2>1 DEF OneHolder
<1>12. Count' = Count /\ \A a, c \in Boards : LinkOK(a, c)' <=> LinkOK(a, c)
  BY <1>5, IDsSame
<1>13. IDsOK'
  <2>1. IDsOK
    BY DEF WalkInv
  <2>2. QED
    BY <1>3, <1>5, <1>9, <1>12, <2>1 DEF IDsOK
<1>14. NamesOK' /\ SeekingOK'
  <2>1. \A c \in Boards : access_point'[c] => access_point[c] /\ (Working(c) => Working(c)')
    BY <1>5, <1>8 DEF Holder
  <2>2. \A c \in Boards : pc'[c] \in {"pidog", "parent"} => pc'[c] = pc[c]
    BY <1>9
  <2>3. UNCHANGED <<ID, parent_ID, wifi_ssid, target_ssid>>
    BY <1>5
  <2>4. QED
    BY <2>1, <2>2, <2>3, NamesKept, SeekingKept
<1>15. NumbersOK'
  BY <1>9 DEF NumbersOK
<1>16. LinksOK'
  <2>1. ASSUME NEW a \in Boards PROVE assoc[a] = NONE
    BY <1>2, <1>4 DEF WalkInv, LinksOK
  <2>2. CASE assoc' = assoc
    BY <2>1, <2>2 DEF LinksOK
  <2>3. ASSUME NEW a \in Pidogs(b), assoc' = [assoc EXCEPT ![b] = a]
        PROVE  LinksOK'
    <3>1. a \in Boards /\ access_point[a] /\ a \in InRange[b] /\ a # b
      BY <1>2, NeighborFindAssumption DEF Pidogs, Visible
    <3>2. ID[a] = DEFAULT_ID
      BY <1>2, <1>3, <3>1 DEF WalkInv, IDsOK
    <3>3. \A c \in Boards : assoc'[c] = IF c = b THEN a ELSE NONE
      BY <2>1, <2>3 DEF TypeInv, TypeOK
    <3>4. LinkOK(b, a)'
      BY <1>5, <3>1, <3>2 DEF LinkOK
    <3>5. ASSUME NEW x \in Boards, assoc'[x] # NONE
          PROVE  /\ ~ access_point'[x] /\ pc'[x] = "poll" /\ access_point'[assoc'[x]]
                 /\ NoRecv(x)' /\ NoCall(x)'
                 /\ LinkOK(x, assoc[x])'
                 /\ \A c \in Boards : assoc'[c] = assoc'[x] => c = x
      <4>1. x = b /\ assoc'[x] = a
        BY <3>3, <3>5
      <4>2. LinkOK(x, assoc[x])'
        BY <3>4, <4>1 DEF LinkOK
      <4>3. a # NONE
        BY <3>1, NoneAssumption
      <4>4. QED
        BY <1>2, <1>5, <1>9, <3>1, <3>3, <4>1, <4>2, <4>3
    <3>6. QED
      BY <1>10, <3>5 DEF LinksOK
  <2>4. QED
    BY <1>5, <2>2, <2>3
<1>17. WalkInv'
  BY <1>9, <1>11, <1>13, <1>14, <1>15, <1>16 DEF WalkInv, Phase
<1>18. QED
  BY <1>5, <1>8, <1>10, <1>17

-----------------------------------------------------------------------------
(* The walk that the program takes *)

LEMMA BoardOfID ==
  ASSUME WalkInv, NEW a \in Boards, ID[a] # DEFAULT_ID
  PROVE  Board(ID[a]) = a
<1>1. \A c \in Boards : ID[c] = ID[a] => c = a
  BY DEF WalkInv, IDsOK
<1>2. QED
  BY <1>1 DEF Board

(* The token is with the board that got it last, and carries the number of *)
(* boards that have an ID.                                                 *)
TokenPlace ==
  /\ (\A c \in Boards : ~ Holder(c)) => Tokens = {}
  /\ \A b \in Boards : Queued(b) \/ Working(b) => Tokens = {[at |-> b, num |-> Count]}
  /\ \A a, b \in Boards : Arrived(b) /\ recv_data[b].src = ID[a] /\ ID[a] # DEFAULT_ID =>
       Tokens = {[at |-> a, num |-> Count]}

LEMMA TokensAre == TypeInv /\ WalkInv => TokenPlace
<1> SUFFICES ASSUME TypeInv, WalkInv PROVE TokenPlace
  OBVIOUS
<1> DEFINE queued == {[at |-> b, num |-> send_queue[b].num] : b \in {a \in Boards : Queued(a)}}
           arrived == {[at |-> Board(recv_data[b].src), num |-> recv_data[b].num] :
                         b \in {a \in Boards : Arrived(a)}}
           working == {[at |-> b, num |-> token_id_number[b]] : b \in {a \in Boards : Working(a)}}
<1>1. Tokens = queued \cup arrived \cup working
  BY DEF Tokens, Queued, Arrived, Working
<1>2. ASSUME \A c \in Boards : ~ Holder(c) PROVE Tokens = {}
  <2>1. \A c \in Boards : ~ Queued(c) /\ ~ Arrived(c) /\ ~ Working(c)
    BY <1>2 DEF Holder
  <2>2. QED
    BY <1>1, <2>1
<1>3. ASSUME NEW b \in Boards, Queued(b) \/ Working(b) PROVE Tokens = {[at |-> b, num |-> Count]}
  <2>1. \A c \in Boards : c # b => ~ Queued(c) /\ ~ Arrived(c) /\ ~ Working(c)
    BY <1>3, HolderFacts DEF Holder
  <2>2. ~ Arrived(b)
    BY <1>3, WalkPhase, PhaseFacts
       DEF QueuedPhase, ArrivedPhase, AckDue, Woken, BusyPhase, NoRecv, NoSend, NoCall, Arrived
  <2>3. /\ Queued(b) => send_queue[b].num = Count
        /\ Working(b) => token_id_number[b] = Count
    BY DEF WalkInv, NumbersOK
  <2>4. arrived = {}
    BY <2>1, <2>2
  <2>5. queued = IF Queued(b) THEN {[at |-> b, num |-> Count]} ELSE {}
    BY <2>1, <2>3
  <2>6. working = IF Working(b) THEN {[at |-> b, num |-> Count]} ELSE {}
    BY <2>1, <2>3
  <2> HIDE DEF queued, arrived, working
  <2>7. QED
    BY <1>1, <1>3, <2>4, <2>5, <2>6
<1>4. ASSUME NEW a \in Boards, NEW b \in Boards, Arrived(b), recv_data[b].src = ID[a],
             ID[a] # DEFAULT_ID
      PROVE  Tokens = {[at |-> a, num |-> Count]}
  <2>1. \A c \in Boards : c # b => ~ Queued(c) /\ ~ Arrived(c) /\ ~ Working(c)
    BY <1>4, HolderFacts DEF Holder
  <2>2. ~ Queued(b) /\ ~ Working(b)
    BY <1>4, WalkPhase, PhaseFacts
       DEF QueuedPhase, ArrivedPhase, AckDue, Woken, BusyPhase, NoRecv, NoSend, NoCall, Arrived
  <2>3. recv_data[b].num = Count
    BY <1>4 DEF WalkInv, NumbersOK
  <2>4. Board(recv_data[b].src) = a
    BY <1>4, BoardOfID
  <2>5. queued = {} /\ working = {}
    BY <2>1, <2>2
  <2>6. arrived = {[at |-> a, num |-> Count]}
    BY <1>4, <2>1, <2>3, <2>4
  <2> HIDE DEF queued, arrived, working
  <2>7. QED
    BY <1>1, <2>5, <2>6
<1>5. QED
  BY <1>2, <1>3, <1>4 DEF TokenPlace

LEMMA TokensAreNext == (TypeInv /\ WalkInv)' => TokenPlace'
BY TokensAre, PTL

(* A step after which the same board has the token, if one has it, is no   *)
(* step of the walk.                                                       *)
LEMMA SameTokens ==
  ASSUME TypeInv, WalkInv, TypeInv', WalkInv', UNCHANGED <<ID, parent_ID, todo>>,
         \A c \in Boards : /\ Queued(c)' <=> Queued(c)
                           /\ Working(c)' <=> Working(c)
                           /\ Arrived(c)' <=> Arrived(c)
                           /\ Arrived(c) => recv_data'[c] = recv_data[c]
  PROVE  UNCHANGED Walk!vars
<1>1. TokenPlace /\ TokenPlace' /\ Count' = Count
  BY TokensAre, TokensAreNext, IDsSame
<1>2. Tokens' = Tokens
  <2>1. CASE \A c \in Boards : ~ Holder(c)
    BY <1>1, <2>1 DEF Holder, TokenPlace
  <2>2. ASSUME NEW c \in Boards, Queued(c) \/ Working(c) PROVE Tokens' = Tokens
    BY <1>1, <2>2 DEF TokenPlace
  <2>3. ASSUME NEW c \in Boards, Arrived(c) PROVE Tokens' = Tokens
    <3>1. PICK a \in Boards : ID[a] = recv_data[c].src /\ ID[a] # DEFAULT_ID
      BY <2>3 DEF WalkInv, NumbersOK
    <3>2. Tokens = {[at |-> a, num |-> Count]}
      BY <1>1, <2>3, <3>1 DEF TokenPlace
    <3>3. Arrived(c)' /\ recv_data'[c].src = ID'[a] /\ ID'[a] # DEFAULT_ID
      BY <2>3, <3>1
    <3>4. Tokens' = {[at |-> a, num |-> Count']}
      BY <1>1, <3>3 DEF TokenPlace
    <3>5. QED
      BY <1>1, <3>2, <3>4
  <2>4. QED
    BY <2>1, <2>2, <2>3 DEF Holder
<1>3. QED
  BY <1>2 DEF Walk!vars

(* The walk is over when the token of one board is nowhere.                *)
LEMMA TokenEnds ==
  ASSUME TypeInv, WalkInv, TypeInv', WalkInv', UNCHANGED <<ID, parent_ID, todo>>,
         NEW b \in Boards, Queued(b) \/ Working(b), \A c \in Boards : ~ Holder(c)'
  PROVE  Walk!End
<1>1. Tokens = {[at |-> b, num |-> Count]} /\ Tokens' = {}
  BY TokensAre, TokensAreNext DEF TokenPlace
<1>2. QED
  BY <1>1 DEF Walk!End

LEMMA TokenStays ==
  ASSUME TypeInv, WalkInv, TypeInv', WalkInv', UNCHANGED <<ID, parent_ID, todo>>,
         NEW b \in Boards, Queued(b) \/ Working(b),
         \/ Queued(b)' \/ Working(b)'
         \/ /\ \E a \in Boards : Arrived(a)' /\ recv_data'[a].src = ID[b]
            /\ ID[b] # DEFAULT_ID
  PROVE  UNCHANGED Walk!vars
<1>1. TokenPlace /\ TokenPlace' /\ Count' = Count
  BY TokensAre, TokensAreNext, IDsSame
<1>2. Tokens = {[at |-> b, num |-> Count]}
  BY <1>1 DEF TokenPlace
<1>3. Tokens' = {[at |-> b, num |-> Count']}
  BY <1>1 DEF TokenPlace
<1>4. QED
  BY <1>1, <1>2, <1>3 DEF Walk!vars

(* A board that gets the token is numbered, or has it back.                *)
LEMMA TokenTaken ==
  ASSUME TypeInv, WalkInv, NEW b \in Boards, RecvToken(b)
  PROVE  Walk!Number(b) \/ Walk!Return(b)
<1>1. /\ WalkInv' /\ TypeInv' /\ todo' = todo /\ Arrived(b) /\ Working(b)'
      /\ \/ /\ ID[b] = DEFAULT_ID
            /\ ID' = [ID EXCEPT ![b] = Count]
            /\ parent_ID' = [parent_ID EXCEPT ![b] = recv_data[b].src]
            /\ Count' = Count + 1
         \/ ID[b] # DEFAULT_ID /\ UNCHANGED <<ID, parent_ID>>
  BY WalkRecvToken
<1>2. PICK a \in Boards : ID[a] = recv_data[b].src /\ ID[a] # DEFAULT_ID /\ LinkOK(a, b)
  BY <1>1 DEF WalkInv, NumbersOK
<1> DEFINE t == [at |-> a, num |-> Count]
<1>3. Tokens = {t}
  BY <1>1, <1>2, TokensAre DEF TokenPlace
<1>4. Tokens' = {[at |-> b, num |-> Count']}
  BY <1>1, TokensAreNext DEF TokenPlace
<1>5. t \in Tokens /\ t.at = a /\ t.num = Count
  BY <1>3
<1> HIDE DEF t
<1>6. CASE ID[b] = DEFAULT_ID
  <2>1. /\ b \in InRange[t.at] /\ ID[b] = -1 /\ ID' = [ID EXCEPT ![b] = t.num]
        /\ parent_ID' = [parent_ID EXCEPT ![b] = ID[t.at]]
        /\ Tokens' = {[at |-> b, num |-> t.num + 1]}
    BY <1>1, <1>2, <1>4, <1>5, <1>6 DEF LinkOK, DEFAULT_ID
  <2>2. QED
    BY <1>1, <1>5, <2>1 DEF Walk!Number, Walk!NoID
<1>7. CASE ID[b] # DEFAULT_ID
  <2>1. Count' = Count
    BY <1>1, <1>7, IDsSame
  <2>2. /\ t.at # 0 /\ ID[b] # -1 /\ ID[b] = parent_ID[t.at]
        /\ Tokens' = {[at |-> b, num |-> t.num]}
    BY <1>2, <1>4, <1>5, <1>7, <2>1 DEF LinkOK, DEFAULT_ID
  <2>3. QED
    BY <1>1, <1>5, <1>7, <2>2 DEF Walk!Return, Walk!NoID
<1>8. QED
  BY <1>6, <1>7

(* Every step of the program keeps the invariant, and is a step of the     *)
(* walk or none.                                                           *)
LEMMA WalkStep ==
  ASSUME TypeInv, WalkInv, Next
  PROVE  TypeInv' /\ WalkInv' /\ [Walk!Next]_(Walk!vars)
<1>1. PICK b \in Boards :
        \/ Send(b) \/ Recv(b) \/ Ack(b)
        \/ \E S \in Sessions : \E c \in S : Serial(b, c)
        \/ Connect(b) \/ Unblock(b)
  BY DEF Next
<1>2. CASE Send(b)
  BY <1>2, SendTypes, WalkSend, TokenEnds, TokenStays DEF Walk!Next
<1>3. CASE RecvData(b)
  <2>1. TakePacket(b, "data")
    BY <1>3 DEF RecvData
  <2>2. QED
    BY <2>1, WalkTaken
<1>4. CASE RecvAck(b)
  BY <1>4, RecvAckTypes, WalkRecvAck, SameTokens
<1>5. CASE RecvToken(b)
  BY <1>5, WalkRecvToken, TokenTaken DEF Walk!Next
<1>6. CASE Ack(b)
  BY <1>6, AckTypes, WalkAck, TokenStays
<1>7. ASSUME NEW S \in Sessions, NEW c \in S, Serial(b, c)
      PROVE  TypeInv' /\ WalkInv' /\ [Walk!Next]_(Walk!vars)
  <2>1. /\ TypeInv' /\ WalkInv' /\ UNCHANGED <<ID, parent_ID>>
        /\ ~ Typed /\ Typed' /\ \A d \in Boards : ~ Holder(d)
        /\ Queued(0)' /\ Count' = 1
    BY <1>7, SerialTypes, WalkSerial
  <2>2. Tokens' = {[at |-> 0, num |-> 1]}
    BY <2>1, TokensAreNext, NeighborFindAssumption DEF TokenPlace
  <2>3. Walk!Start
    BY <2>1, <2>2 DEF Walk!Start, Typed
  <2>4. QED
    BY <2>1, <2>3 DEF Walk!Next
<1>8. CASE Connect(b)
  <2>1. ~ access_point[b] => ID[b] \in IDs
    BY DEF WalkInv, IDsOK, TypeInv, TypeOK
  <2>2. TypeInv'
    BY <1>8, <2>1, WakeTypes DEF Connect
  <2>3. QED
    BY <1>8, <2>2, WalkWakeHost, WalkWakeStation, TokenStays, SameTokens DEF Connect
<1>9. CASE Scan(b)
  BY <1>9, WalkScan, TokenEnds, TokenStays DEF Walk!Next
<1>10. CASE Join(b)
  BY <1>10, JoinTypes, WalkJoin, TokenStays
<1>11. CASE JoinFails(b)
  BY <1>11, JoinTypes, WalkJoinFails, TokenEnds DEF Walk!Next
<1>12. CASE MasterBoot(b)
  BY <1>12, JoinTypes, WalkMasterBoot, SameTokens DEF Holder
<1>13. QED
  BY <1>1, <1>2, <1>3, <1>4, <1>5, <1>6, <1>7, <1>8, <1>9, <1>10, <1>11, <1>12
     DEF Recv, Unblock

-----------------------------------------------------------------------------
(* The program from its first state *)

LEMMA InitIInv == Init => IInv /\ Walk!Init
<1> SUFFICES ASSUME Init PROVE IInv /\ Walk!Init
  OBVIOUS
<1>1. TypeInv
  BY InitTypes
<1>2. ASSUME NEW b \in Boards
      PROVE  /\ NoSend(b) /\ NoRecv(b) /\ NoAck(b) /\ NoCall(b)
             /\ ~ Holder(b) /\ ~ Queued(b) /\ ~ Arrived(b) /\ ~ Working(b)
             /\ Idle(b) \/ BootPhase(b)
             /\ access_point[b] <=> b # 0
             /\ assoc[b] = NONE /\ wifi_ssid[b] = PIDOG
             /\ ID[b] = IF b = 0 THEN 0 ELSE DEFAULT_ID
             /\ pc[b] \in {"boot", "poll"} /\ ack_queue[b] = NONE
             /\ ~ knows_nbrs[b] /\ ID_is_nbr[b] = {}
  BY DEF Init, NoSend, NoRecv, NoAck, NoCall, Holder, Queued, Arrived, Working, Idle, BootPhase,
         MASTER_ID
<1>3. Tokens = {}
  BY <1>2 DEF Tokens, Queued, Arrived, Working
<1>4. Walk!Init
  BY <1>3 DEF Init, Walk!Init, Walk!NoID, MASTER_ID, DEFAULT_ID
<1>5. CASE Typed
  <2>1. DataInv
    BY <1>2, <1>5 DEF DataInv, DataBoard, NoSend, NoRecv
  <2>2. QED
    BY <1>1, <1>4, <2>1 DEF IInv, TypeInv
<1>6. CASE ~ Typed
  <2>1. Count = 1
    <3>1. 0 \in Boards /\ 0 # DEFAULT_ID
      BY NeighborFindAssumption DEF DEFAULT_ID
    <3>2. Numbered = {0}
      BY <1>2, <3>1 DEF Numbered
    <3>3. QED
      BY <3>2, FS_Singleton DEF Count
  <2>2. (\A b \in Boards : Phase(b)) /\ OneHolder
    BY <1>2, <1>6 DEF Phase, OneHolder
  <2>3. IDsOK
    BY <1>2, <1>6, <2>1, NeighborFindAssumption DEF IDsOK, DEFAULT_ID
  <2>4. NamesOK /\ NumbersOK /\ LinksOK
    BY <1>2, NeighborFindAssumption DEF NamesOK, NumbersOK, LinksOK, DEFAULT_ID, PIDOG
  <2>5. SeekingOK
    BY <1>2 DEF SeekingOK
  <2>6. WalkInv
    BY <2>2, <2>3, <2>4, <2>5 DEF WalkInv
  <2>7. QED
    BY <1>1, <1>4, <2>6 DEF IInv, TypeInv
<1>7. QED
  BY <1>5, <1>6

LEMMA StutterStep ==
  ASSUME UNCHANGED vars
  PROVE  /\ TypeInv => TypeInv'
         /\ DataInv => DataInv'
         /\ TypeInv /\ WalkInv => WalkInv'
         /\ UNCHANGED Walk!vars
<1>1. UNCHANGED <<ID, parent_ID, wifi_ssid, ID_is_nbr, knows_nbrs, ID_to_phys_ID, access_point,
                  assoc, target_ID, signal_connect_thread, pc, target_ssid, pidogs_found,
                  token_id_number, send_queue, new_udp_send_s, recv_data, new_udp_recv_s,
                  ack_queue, new_udp_ack_s, ack_queue_empty, todo, faults>>
  BY DEF vars, selfVars, radioVars, connectVars, sendVars, recvVars, ackVars
<1>2. TypeInv => TypeInv'
  BY <1>1 DEF TypeInv, TypeOK, Filled
<1>3. DataInv => DataInv'
  BY <1>1 DEF DataInv, DataBoard, Typed, NoCall
<1>4. ASSUME NEW c \in Boards PROVE Same(c)
  BY <1>1 DEF Same
<1>5. ASSUME TypeInv, WalkInv PROVE WalkInv'
  <2>1. \A c \in Boards : /\ Phase(c)' /\ (Holder(c)' <=> Holder(c))
                         /\ (Idle(c)' <=> Idle(c)) /\ (BootPhase(c)' <=> BootPhase(c))
                         /\ (Working(c)' <=> Working(c)) /\ (Arrived(c)' <=> Arrived(c))
                         /\ (Queued(c)' <=> Queued(c)) /\ (Woken(c)' <=> Woken(c))
                         /\ (NoRecv(c)' <=> NoRecv(c)) /\ (NoCall(c)' <=> NoCall(c))
    BY <1>4, <1>5, SamePhase, WalkPhase
  <2>2. /\ Count' = Count /\ (Typed' <=> Typed)
        /\ \A a, c \in Boards : LinkOK(a, c)' <=> LinkOK(a, c)
    BY <1>1, IDsSame DEF Typed
  <2>3. OneHolder'
    BY <1>1, <1>5, <2>1, <2>2 DEF WalkInv, OneHolder
  <2>4. IDsOK'
    BY <1>1, <1>5, <2>1, <2>2 DEF WalkInv, IDsOK
  <2>5. NamesOK' /\ SeekingOK'
    BY <1>1, <1>5, <2>1 DEF WalkInv, NamesOK, SeekingOK
  <2>6. NumbersOK'
    BY <1>1, <1>5, <2>1, <2>2 DEF WalkInv, NumbersOK
  <2>7. LinksOK'
    <3>1. LinksOK /\ \A c \in Boards : assoc[c] # NONE => assoc[c] \in Boards
      BY <1>5 DEF WalkInv, TypeInv, TypeOK
    <3>2. QED
      BY <1>1, <2>1, <2>2, <3>1 DEF LinksOK
  <2>8. QED
    BY <2>1, <2>3, <2>4, <2>5, <2>6, <2>7 DEF WalkInv
<1>6. UNCHANGED Walk!vars
  <2>1. Tokens' = Tokens
    BY <1>1 DEF Tokens, Board
  <2>2. QED
    BY <1>1, <2>1 DEF Walk!vars
<1>7. QED
  BY <1>2, <1>3, <1>5, <1>6

LEMMA StepIInv == IInv /\ [Next]_vars => IInv' /\ [Walk!Next]_(Walk!vars)
<1> SUFFICES ASSUME IInv, [Next]_vars PROVE IInv' /\ [Walk!Next]_(Walk!vars)
  OBVIOUS
<1>1. TypeInv /\ (DataInv \/ WalkInv)
  BY DEF IInv, TypeInv
<1>2. CASE Next /\ DataInv
  BY <1>1, <1>2, DataStep DEF IInv, TypeInv
<1>3. CASE Next /\ WalkInv
  BY <1>1, <1>3, WalkStep DEF IInv, TypeInv
<1>4. CASE UNCHANGED vars
  BY <1>1, <1>4, StutterStep DEF IInv, TypeInv
<1>5. QED
  BY <1>1, <1>2, <1>3, <1>4

(* The inductive invariant holds in every state of the program.            *)
THEOREM NeighborInvariant == Spec => []IInv
<1>1. Init => IInv
  BY InitIInv
<1>2. IInv /\ [Next]_vars => IInv'
  BY StepIInv
<1>3. QED
  BY <1>1, <1>2, PTL DEF Spec

(* All variables keep their types: IDs stay below MAX_NODES, no semaphore  *)
(* is signalled more often than the buffers allow, and nobody looks up an  *)
(* ID that is none.                                                        *)
THEOREM NeighborTypeCorrect == Spec => []TypeOK
<1>1. IInv => TypeOK
  BY DEF IInv
<1>2. QED
  BY <1>1, NeighborInvariant, PTL

(* The threads, queues, buffers, scans and joins of all boards, with all   *)
(* that may fail, implement the walk of one token                          *)
(* (neighbor_find.c:201-278, 485-515).                                     *)
THEOREM NeighborImplementsWalk == Spec => ImplementsWalk
<1>1. Init => Walk!Init
  BY InitIInv
<1>2. IInv /\ [Next]_vars => [Walk!Next]_(Walk!vars)
  BY StepIInv
<1>3. QED
  BY <1>1, <1>2, NeighborInvariant, PTL DEF Spec, ImplementsWalk, Walk!Spec

-----------------------------------------------------------------------------
(* What holds as long as nothing fails *)

(* A step that numbers nobody and ends no scan leaves what boards know.    *)
LEMMA KnowledgeKept ==
  ASSUME Listed, SeeksHome,
         UNCHANGED <<ID, parent_ID, ID_is_nbr, knows_nbrs, target_ssid>>,
         \A c \in Boards : pc'[c] = "parent" => pc[c] = "parent"
  PROVE  Listed' /\ SeeksHome'
<1>1. Listed'
  BY DEF Listed
<1>2. \A id : Board(id)' = Board(id)
  BY DEF Board
<1>3. SeeksHome'
  BY <1>2 DEF SeeksHome
<1>4. QED
  BY <1>1, <1>3

LEMMA SameReturning ==
  ASSUME NEW c \in Boards, Same(c)
  PROVE  /\ Returning(c)' <=> Returning(c)
         /\ access_point'[c] = access_point[c]
         /\ AckDue(c)' <=> AckDue(c)
         /\ Arrived(c)' <=> Arrived(c)
         /\ Holder(c)' <=> Holder(c)
<1>1. Returning(c)' <=> Returning(c)
  BY DEF Same, Returning
<1>2. QED
  BY <1>1, SamePhase DEF Same

(* A step of one board, which has the token after it, hosts, or is about   *)
(* to host                                                                 *)
LEMMA AwaitedKept ==
  ASSUME TypeInv, WalkInv, WalkInv', Awaited, NEW b \in Boards,
         \A c \in Boards : c # b => Same(c),
         Holder(b)' => Holder(b),
         Holder(b)' \/ access_point'[b] \/ Returning(b)',
         \A a \in Boards : a # b /\ assoc[a] # NONE => assoc'[a] = assoc[a] \/ ~ Waits(a, assoc[a]),
         \A a \in Boards : Waits(a, b) => AckDue(b)'
  PROVE  Awaited'
<1> SUFFICES ASSUME NEW a \in Boards, NEW h \in Boards, Holder(h)', a # h, ~ access_point'[a]
             PROVE  Returning(a)' \/ Waits(a, h)'
  BY DEF Awaited
<1>1. CASE a = b
  <2>1. ~ Holder(b)'
    BY <1>1 DEF WalkInv, OneHolder
  <2>2. QED
    BY <1>1, <2>1
<1>2. CASE a # b
  <2>1. Holder(h)
    BY SameReturning
  <2>2. Returning(a) \/ Waits(a, h)
    BY <1>2, <2>1, SameReturning DEF Awaited
  <2>3. CASE Returning(a)
    BY <1>2, <2>3, SameReturning
  <2>4. CASE Waits(a, h)
    <3>1. assoc'[a] = h
      BY <1>2, <2>4, NoneAssumption DEF Waits
    <3>2. Arrived(h)' \/ AckDue(h)'
      <4>1. CASE h = b
        BY <2>4, <4>1
      <4>2. CASE h # b
        BY <2>4, <4>2, SameReturning DEF Waits
      <4>3. QED
        BY <4>1, <4>2
    <3>3. QED
      BY <3>1, <3>2 DEF Waits
  <2>5. QED
    BY <2>2, <2>3, <2>4
<1>3. QED
  BY <1>1, <1>2

(* The board that has sent the token waits for the ack.                    *)
LEMMA AwaitedSend ==
  ASSUME TypeInv, WalkInv, Awaited, NEW b \in Boards, Send(b)
  PROVE  Awaited'
<1>1. /\ WalkInv' /\ Queued(b) /\ UNCHANGED <<access_point, assoc>>
      /\ \/ \A c \in Boards : ~ Holder(c)'
         \/ \E a \in Boards :
              /\ Arrived(a)' /\ recv_data'[a].src = ID[b]
              /\ assoc[b] = a /\ \A c \in Boards : c # a /\ c # b => Same(c)
  BY WalkSend
<1>2. CASE \A c \in Boards : ~ Holder(c)'
  BY <1>2 DEF Awaited
<1>3. ASSUME NEW a \in Boards, Arrived(a)', assoc[b] = a,
             \A c \in Boards : c # a /\ c # b => Same(c)
      PROVE  Awaited'
  <2> SUFFICES ASSUME NEW c \in Boards, NEW h \in Boards, Holder(h)', c # h, ~ access_point'[c]
               PROVE  Returning(c)' \/ Waits(c, h)'
    BY DEF Awaited
  <2>1. h = a
    BY <1>1, <1>3 DEF WalkInv, OneHolder, Holder
  <2>2. CASE c = b
    BY <1>1, <1>3, <2>1, <2>2 DEF Waits
  <2>3. CASE c # b
    <3>1. Same(c) /\ ~ access_point[c] /\ Holder(b)
      BY <1>1, <1>3, <2>1, <2>3 DEF Holder
    <3>2. ~ Waits(c, b)
      BY <1>1, WalkPhase, PhaseFacts DEF Waits, QueuedPhase, NoRecv, NoAck, Arrived, AckDue
    <3>3. QED
      BY <2>3, <3>1, <3>2, SameReturning DEF Awaited
  <2>4. QED
    BY <2>2, <2>3
<1>4. QED
  BY <1>1, <1>2, <1>3

(* The ack reaches whoever waits for it.                                   *)
LEMMA AwaitedAck ==
  ASSUME TypeInv, WalkInv, Awaited, NEW b \in Boards, Ack(b), faults' = faults
  PROVE  Awaited'
<1>1. /\ WalkInv' /\ Working(b) /\ Working(b)' /\ UNCHANGED <<access_point, assoc>>
      /\ \A c \in Boards : c # b => ~ Holder(c)' /\ (assoc[c] # b => Same(c))
      /\ \A a, c \in Boards : assoc[a] = b /\ assoc[c] = b => a = c
  BY WalkAck
<1> SUFFICES ASSUME NEW c \in Boards, NEW h \in Boards, Holder(h)', c # h, ~ access_point'[c]
             PROVE  Returning(c)' \/ Waits(c, h)'
  BY DEF Awaited
<1>2. h = b
  BY <1>1
<1>3. CASE assoc[c] = b
  <2> DEFINE q == [ack_queue[b] EXCEPT !.ip = IpAddr(b)]
  <2>1. AckDue(b)
    BY DEF Ack, SemWait, WalkInv, Phase, Idle, BootPhase, ArrivedPhase, Woken, QueuedPhase,
           BusyPhase, AckedPhase, EndPhase, NoAck
  <2>2. ack_queue[b].ip = "station"
    BY <2>1 DEF AckDue
  <2>3. \E a \in Boards : assoc[a] = b /\ Delivered(a, q)
    <3>1. c \in Reached(b, "station")
      BY <1>3 DEF Reached
    <3>2. ~ Fault
      BY DEF Fault, TypeInv, TypeOK
    <3>3. PICK a \in Reached(b, "station") : Callback(a, q) /\ UNCHANGED faults
      BY <2>2, <3>1, <3>2 DEF Ack, Transmit
    <3>4. a \in Boards /\ assoc[a] = b
      BY <3>3 DEF Reached
    <3>5. Delivered(a, q)
      BY <3>3 DEF Callback, SemSignal, Delivered
    <3>6. QED
      BY <3>4, <3>5
  <2>4. Delivered(c, q)
    BY <1>1, <1>3, <2>3
  <2>5. new_udp_recv_s'[c] > 0
    BY <2>4 DEF Delivered, TypeInv, TypeOK
  <2>6. QED
    BY <2>5 DEF Returning
<1>4. CASE assoc[c] # b
  <2>1. Same(c) /\ ~ Waits(c, b) /\ Holder(b) /\ c # b
    BY <1>1, <1>2, <1>4 DEF Waits, Holder
  <2>2. QED
    BY <1>1, <2>1, SameReturning DEF Awaited
<1>5. QED
  BY <1>3, <1>4

(* The holder's steps and those of the boards that end their turn          *)
LEMMA AwaitedOthers ==
  ASSUME TypeInv, WalkInv, Awaited, NEW b \in Boards,
         RecvAck(b) \/ RecvToken(b) \/ Connect(b) \/ Scan(b) \/ Join(b) \/ JoinFails(b)
           \/ MasterBoot(b)
  PROVE  Awaited'
<1>1. CASE RecvAck(b)
  <2>1. /\ WalkInv' /\ EndPhase(b)' /\ assoc' = assoc /\ \A c \in Boards : c # b => Same(c)
        /\ \A c \in Boards : /\ Queued(c)' <=> Queued(c)
                             /\ Working(c)' <=> Working(c)
                             /\ Arrived(c)' <=> Arrived(c)
    BY <1>1, WalkRecvAck
  <2>2. Returning(b)' /\ ~ Holder(b)'
    BY <2>1 DEF EndPhase, Returning, Holder, Queued, Arrived, Working, NoSend, NoRecv,
                RUN_SCAN, ENABLE_AP
  <2>3. ~ Arrived(b) /\ ~ AckDue(b)
    BY <2>1, <2>2 DEF Holder, AckDue, Working
  <2>4. QED
    BY <2>1, <2>2, <2>3, AwaitedKept DEF Waits
<1>2. CASE RecvToken(b)
  <2>1. /\ WalkInv' /\ Arrived(b) /\ Working(b)' /\ AckDue(b)' /\ assoc' = assoc
        /\ \A c \in Boards : c # b => Same(c)
    BY <1>2, WalkRecvToken
  <2>2. QED
    BY <2>1, AwaitedKept DEF Holder
<1>3. CASE WakeHost(b)
  <2>1. /\ WalkInv' /\ Working(b) /\ Working(b)' /\ Woken(b)
        /\ \A c \in Boards : c # b => Same(c)
    BY <1>3, WalkWakeHost
  <2>2. ~ Arrived(b) /\ ~ AckDue(b)
    BY <2>1 DEF Woken, NoRecv, NoAck, Arrived, AckDue
  <2>3. \A a \in Boards : assoc[a] = b => ~ Waits(a, b)
    BY <2>2 DEF Waits
  <2>4. \A a \in Boards : assoc'[a] = IF assoc[a] = b THEN NONE ELSE assoc[a]
    BY <1>3 DEF WakeHost, BecomeStation
  <2>5. \A a \in Boards : a # b /\ assoc[a] # NONE => assoc'[a] = assoc[a] \/ ~ Waits(a, assoc[a])
    BY <2>3, <2>4
  <2>6. \A a \in Boards : Waits(a, b) => AckDue(b)'
    BY <2>2 DEF Waits
  <2>7. QED
    BY <2>1, <2>5, <2>6, AwaitedKept DEF Holder
<1>4. CASE WakeStation(b)
  <2>1. /\ WalkInv' /\ access_point'[b]
        /\ \A c \in Boards : c # b => Same(c) /\ assoc'[c] = assoc[c]
        /\ \A c \in Boards : /\ Queued(c)' <=> Queued(c)
                             /\ Working(c)' <=> Working(c)
                             /\ Arrived(c)' <=> Arrived(c)
    BY <1>4, WalkWakeStation
  <2>2. ~ access_point[b]
    BY <1>4 DEF WakeStation
  <2>3. \A a \in Boards : assoc[a] # b
    BY <2>2, NoneAssumption DEF WalkInv, LinksOK
  <2>4. QED
    BY <2>1, <2>3, AwaitedKept DEF Holder, Waits
<1>5. CASE Scan(b) \/ Join(b)
  <2>1. /\ WalkInv' /\ Working(b) /\ BusyPhase(b)
        /\ \A c \in Boards : c # b => Same(c)
        /\ Holder(b)' \/ \A c \in Boards : ~ Holder(c)'
    BY <1>5, WalkScan, WalkJoin DEF Holder
  <2>2. CASE \A c \in Boards : ~ Holder(c)'
    BY <2>2 DEF Awaited
  <2>3. CASE Holder(b)'
    <3>1. ~ Arrived(b) /\ ~ AckDue(b)
      BY <2>1 DEF BusyPhase, NoRecv, NoAck, Arrived, AckDue
    <3>2. \A a \in Boards : assoc[a] = NONE
      BY <2>1, BusyFacts DEF BusyPhase
    <3>3. Holder(b)
      BY <2>1 DEF Holder
    <3>4. \A a \in Boards : ~ Waits(a, b)
      BY <3>1 DEF Waits
    <3>5. QED
      BY <2>1, <2>3, <3>2, <3>3, <3>4, AwaitedKept
  <2>4. QED
    BY <2>1, <2>2, <2>3
<1>6. CASE JoinFails(b) \/ MasterBoot(b)
  BY <1>6, WalkJoinFails, WalkMasterBoot DEF Awaited
<1>7. QED
  BY <1>1, <1>2, <1>3, <1>4, <1>5, <1>6 DEF Connect

(* Nobody in range of a board that knows its neighbors gets another ID.    *)
LEMMA KnowledgeRecvToken ==
  ASSUME TypeInv, WalkInv, Listed, NEW b \in Boards, RecvToken(b)
  PROVE  Listed' /\ SeeksHome'
<1>1. /\ WalkInv' /\ Working(b)' /\ AckDue(b)'
      /\ \/ /\ ID[b] = DEFAULT_ID
            /\ ID' = [ID EXCEPT ![b] = Count]
         \/ UNCHANGED <<ID, parent_ID>>
  BY WalkRecvToken
<1>2. UNCHANGED <<ID_is_nbr, knows_nbrs, target_ssid>>
  BY DEF RecvToken, TakePacket
<1>3. \A c \in Boards : ID[c] # DEFAULT_ID => ID'[c] = ID[c]
  BY <1>1 DEF TypeInv, TypeOK
<1>4. DEFAULT_ID \notin IDs /\ \A c \in Boards : ID_is_nbr[c] \subseteq IDs /\ InRange[c] \subseteq Boards
  BY NeighborFindAssumption DEF TypeInv, TypeOK, DEFAULT_ID, IDs
<1>5. Listed'
  <2>1. ASSUME NEW c \in Boards, NEW id \in ID_is_nbr[c]
        PROVE  \E a \in InRange[c] : ID'[a] = id
    <3>1. PICK a \in InRange[c] : ID[a] = id
      BY DEF Listed
    <3>2. a \in Boards /\ ID[a] # DEFAULT_ID
      BY <1>4, <3>1
    <3>3. QED
      BY <1>3, <3>1, <3>2
  <2>2. ASSUME NEW c \in Boards, knows_nbrs[c], NEW a \in InRange[c]
        PROVE  ID'[a] \in ID_is_nbr[c]
    <3>1. ID[a] \in ID_is_nbr[c]
      BY <2>2 DEF Listed
    <3>2. a \in Boards /\ ID[a] # DEFAULT_ID
      BY <1>4, <3>1
    <3>3. QED
      BY <1>3, <3>1, <3>2
  <2>3. QED
    BY <1>2, <2>1, <2>2 DEF Listed
<1>6. SeeksHome'
  <2>1. ASSUME NEW c \in Boards, pc'[c] = "parent" PROVE FALSE
    <3>1. Holder(c)' /\ Holder(b)'
      BY <1>1, <2>1 DEF Holder, Working
    <3>2. c = b
      BY <1>1, <3>1 DEF WalkInv, OneHolder
    <3>3. QED
      BY <1>1, <2>1, <3>2 DEF AckDue
  <2>2. QED
    BY <2>1 DEF SeeksHome
<1>7. QED
  BY <1>5, <1>6

(* A scan that nobody has to be awaited for sees all neighbors: those      *)
(* without ID as pidogs, the others by their IDs.                          *)
LEMMA ScanSees ==
  ASSUME TypeInv, WalkInv, Awaited, NEW b \in Boards, pc[b] = "scan",
         \A a \in InRange[b] : ~ Returning(a)
  PROVE  /\ Visible(b) = InRange[b]
         /\ \A a \in Picows(b) : wifi_ssid[a] = ID[a] /\ ID[a] # DEFAULT_ID
         /\ \A a \in InRange[b] \ Picows(b) : a \in Pidogs(b) /\ ID[a] = DEFAULT_ID
<1>1. /\ Holder(b) /\ BusyPhase(b)
      /\ \A c \in Boards : c # b => ~ Holder(c)
  BY BusyFacts, HolderFacts
<1>2. \A a \in InRange[b] : a \in Boards /\ a # b
  BY NeighborFindAssumption
<1>3. \A a \in Boards : ~ Waits(a, b)
  BY <1>1 DEF BusyPhase, NoRecv, NoAck, Waits, Arrived, AckDue
<1>4. \A a \in InRange[b] : access_point[a] /\ ~ Working(a)
  BY <1>1, <1>2, <1>3 DEF Awaited, Holder
<1>5. Visible(b) = InRange[b]
  BY <1>4 DEF Visible
<1>6. \A a \in InRange[b] : /\ wifi_ssid[a] \in {PIDOG, ID[a]}
                            /\ wifi_ssid[a] = PIDOG => ID[a] = DEFAULT_ID
                            /\ wifi_ssid[a] \in IDs \cup {PIDOG}
  BY <1>2, <1>4 DEF WalkInv, NamesOK, TypeInv, TypeOK
<1>7. DEFAULT_ID \notin IDs
  BY DEF DEFAULT_ID, IDs
<1>8. QED
  BY <1>5, <1>6, <1>7 DEF Picows, Pidogs

(* What the scan found is kept with the physical IDs, the parent's, too.   *)
LEMMA ReportSees ==
  ASSUME TypeInv, WalkInv, Awaited, Listed, NEW b \in Boards, pc[b] = "scan",
         \A a \in InRange[b] : ~ Returning(a), ReportPicows(b)
  PROVE  /\ \A id \in ID_is_nbr'[b] : \E a \in InRange[b] : ID[a] = id
         /\ Pidogs(b) = {} => \A a \in InRange[b] : ID[a] \in ID_is_nbr'[b]
         /\ \A c \in Boards : c # b => ID_is_nbr'[c] = ID_is_nbr[c]
         /\ ID[b] # MASTER_ID =>
              ID_to_phys_ID'[b][parent_ID[b]] = Board(parent_ID[b])
<1>1. /\ Visible(b) = InRange[b]
      /\ \A a \in Picows(b) : wifi_ssid[a] = ID[a] /\ ID[a] # DEFAULT_ID
      /\ \A a \in InRange[b] \ Picows(b) : a \in Pidogs(b) /\ ID[a] = DEFAULT_ID
  BY ScanSees
<1>2. Picows(b) \subseteq InRange[b] /\ InRange[b] \subseteq Boards
  BY <1>1, NeighborFindAssumption DEF Picows
<1>3. /\ ID_is_nbr'[b] = ID_is_nbr[b] \cup {wifi_ssid[a] : a \in Picows(b)}
      /\ \A c \in Boards : c # b => ID_is_nbr'[c] = ID_is_nbr[c]
  BY DEF ReportPicows, TypeInv, TypeOK
<1>4. \A id \in ID_is_nbr'[b] : \E a \in InRange[b] : ID[a] = id
  BY <1>1, <1>2, <1>3 DEF Listed
<1>5. ASSUME Pidogs(b) = {}, NEW a \in InRange[b] PROVE ID[a] \in ID_is_nbr'[b]
  <2>1. a \in Picows(b)
    BY <1>1, <1>5
  <2>2. QED
    BY <1>1, <1>3, <2>1
<1>6. ASSUME ID[b] # MASTER_ID
      PROVE  ID_to_phys_ID'[b][parent_ID[b]] = Board(parent_ID[b])
  <2>1. ID[b] # DEFAULT_ID
    BY BusyFacts
  <2>2. b # 0 /\ parent_ID[b] \in IDs
    BY <1>6, <2>1, ParentHasID
  <2>3. PICK p \in Boards : b \in InRange[p] /\ ID[p] # DEFAULT_ID /\ ID[p] = parent_ID[b]
    BY <2>1, <2>2 DEF WalkInv, IDsOK
  <2>4. p \in Picows(b)
    BY <1>1, <2>3, NeighborFindAssumption
  <2>5. \A a \in Picows(b) : wifi_ssid[a] = parent_ID[b] => a = p
    BY <1>1, <1>2, <2>3 DEF WalkInv, IDsOK
  <2>6. wifi_ssid[p] = parent_ID[b]
    BY <1>1, <2>3, <2>4
  <2>7. (CHOOSE a \in Picows(b) : wifi_ssid[a] = parent_ID[b]) = p
    BY <2>4, <2>5, <2>6
  <2>8. ID_to_phys_ID'[b][parent_ID[b]] =
          IF \E a \in Picows(b) : wifi_ssid[a] = parent_ID[b]
          THEN CHOOSE a \in Picows(b) : wifi_ssid[a] = parent_ID[b]
          ELSE ID_to_phys_ID[b][parent_ID[b]]
    BY <2>2 DEF ReportPicows, TypeInv, TypeOK
  <2>9. ID_to_phys_ID'[b][parent_ID[b]] = p
    BY <2>4, <2>6, <2>7, <2>8
  <2>10. QED
    BY <2>3, <2>9, BoardOfID
<1>7. QED
  BY <1>3, <1>4, <1>5, <1>6

LEMMA KnowledgeScan ==
  ASSUME TypeInv, WalkInv, Awaited, Listed, SeeksHome, NEW b \in Boards, Scan(b), faults' = faults
  PROVE  Listed' /\ SeeksHome'
<1>1. ~ Fault
  BY DEF Fault, TypeInv, TypeOK
<1>2. PICK a \in Boards : ScanFound(b, a) \/ ScanNobody(b)
  BY <1>1, NeighborFindAssumption DEF Scan, ScanFails
<1>3. /\ pc[b] = "scan" /\ ReportPicows(b) /\ AwaitHosts(b)
      /\ UNCHANGED <<ID, parent_ID>>
  BY <1>2 DEF ScanFound, ScanNobody, ScanEnds
<1>4. \A c \in InRange[b] : ~ Returning(c)
  BY <1>1, <1>3 DEF AwaitHosts
<1>5. /\ \A id \in ID_is_nbr'[b] : \E c \in InRange[b] : ID[c] = id
      /\ Pidogs(b) = {} => \A c \in InRange[b] : ID[c] \in ID_is_nbr'[b]
      /\ \A c \in Boards : c # b => ID_is_nbr'[c] = ID_is_nbr[c]
      /\ ID[b] # MASTER_ID =>
           ID_to_phys_ID'[b][parent_ID[b]] = Board(parent_ID[b])
  BY <1>3, <1>4, ReportSees
<1>6. /\ \A c \in Boards : c # b => /\ knows_nbrs'[c] = knows_nbrs[c]
                                    /\ pc'[c] = pc[c] /\ target_ssid'[c] = target_ssid[c]
      /\ \/ /\ Pidogs(b) # {} /\ pc'[b] = "pidog" /\ knows_nbrs' = knows_nbrs
            /\ ID_is_nbr[b] \subseteq ID_is_nbr'[b]
         \/ /\ Pidogs(b) = {}
            /\ pc'[b] = "parent" =>
                 /\ ID[b] # MASTER_ID
                 /\ target_ssid'[b] = <<ID_to_phys_ID'[b][parent_ID[b]], parent_ID[b]>>
  <2>1. CASE ScanFound(b, a)
    <3>1. /\ Pidogs(b) # {} /\ knows_nbrs' = knows_nbrs
          /\ target_ssid' = [target_ssid EXCEPT ![b] = <<a, PIDOG>>]
          /\ pc' = [pc EXCEPT ![b] = "pidog"]
      BY <2>1 DEF ScanFound, Seek
    <3>2. ID_is_nbr[b] \subseteq ID_is_nbr'[b]
      BY <1>3 DEF ReportPicows, TypeInv, TypeOK
    <3>3. QED
      BY <3>1, <3>2 DEF TypeInv, TypeOK
  <2>2. CASE ScanNobody(b)
    <3>1. NobodyLeft(b) /\ Pidogs(b) = {} /\ knows_nbrs' = [knows_nbrs EXCEPT ![b] = TRUE]
      BY <2>2 DEF ScanNobody, NobodyLeft
    <3>2. CASE ID[b] = MASTER_ID
      <4>1. /\ target_ssid' = [target_ssid EXCEPT ![b] = target_ssid[b]]
            /\ pc' = [pc EXCEPT ![b] = "poll"]
        BY <3>1, <3>2 DEF NobodyLeft, Seek
      <4>2. QED
        BY <3>1, <4>1 DEF TypeInv, TypeOK
    <3>3. CASE ID[b] # MASTER_ID
      <4> DEFINE x == <<ID_to_phys_ID'[b][parent_ID[b]], parent_ID[b]>>
      <4>1. /\ target_ssid' = [target_ssid EXCEPT ![b] = x]
            /\ pc' = [pc EXCEPT ![b] = "parent"]
        BY <3>1, <3>3 DEF NobodyLeft, Seek
      <4> HIDE DEF x
      <4>2. /\ target_ssid'[b] = x
            /\ \A c \in Boards : c # b => /\ knows_nbrs'[c] = knows_nbrs[c]
                                          /\ pc'[c] = pc[c] /\ target_ssid'[c] = target_ssid[c]
        BY <3>1, <4>1 DEF TypeInv, TypeOK
      <4>3. QED
        BY <3>1, <3>3, <4>2 DEF x
    <3>4. QED
      BY <3>2, <3>3
  <2>3. QED
    BY <1>2, <2>1, <2>2
<1>7. Listed'
  <2>1. ASSUME NEW c \in Boards, NEW id \in ID_is_nbr'[c]
        PROVE  \E d \in InRange[c] : ID'[d] = id
    BY <1>3, <1>5, <2>1 DEF Listed
  <2>2. ASSUME NEW c \in Boards, knows_nbrs'[c], NEW d \in InRange[c]
        PROVE  ID'[d] \in ID_is_nbr'[c]
    <3>1. CASE c = b /\ Pidogs(b) = {}
      BY <1>3, <1>5, <3>1
    <3>2. CASE c = b /\ Pidogs(b) # {}
      BY <1>3, <1>6, <2>2, <3>2 DEF Listed
    <3>3. CASE c # b
      BY <1>3, <1>5, <1>6, <2>2, <3>3 DEF Listed
    <3>4. QED
      BY <3>1, <3>2, <3>3
  <2>3. QED
    BY <2>1, <2>2 DEF Listed
<1>8. SeeksHome'
  <2>1. \A id : Board(id)' = Board(id)
    BY <1>3 DEF Board
  <2>2. ASSUME NEW c \in Boards, pc'[c] = "parent"
        PROVE  target_ssid'[c] = <<Board(parent_ID[c]), parent_ID[c]>>
    <3>1. CASE c = b
      BY <1>5, <1>6, <2>2, <3>1
    <3>2. CASE c # b
      BY <1>6, <2>2, <3>2 DEF SeeksHome
    <3>3. QED
      BY <3>1, <3>2
  <2>3. QED
    BY <1>3, <2>1, <2>2 DEF SeeksHome
<1>9. QED
  BY <1>7, <1>8

(* Nothing fails in a step after which nothing has failed.                 *)
LEMMA FaultsCount ==
  ASSUME TypeInv, Next, faults' = 0
  PROVE  faults = 0
<1>1. faults \in Nat /\ (Fault => faults' # 0)
  BY DEF TypeInv, TypeOK, Fault
<1>2. PICK b \in Boards :
        \/ Send(b) \/ Recv(b) \/ Ack(b)
        \/ \E S \in Sessions : \E c \in S : Serial(b, c)
        \/ Connect(b) \/ Unblock(b)
  BY DEF Next
<1>3. CASE Send(b) \/ Ack(b)
  BY <1>1, <1>3 DEF Send, Ack, Transmit
<1>4. CASE Recv(b) \/ \E S \in Sessions : \E c \in S : Serial(b, c)
  BY <1>4 DEF Recv, RecvData, RecvAck, RecvToken, TakePacket, Serial
<1>5. CASE Connect(b)
  BY <1>5 DEF Connect, WakeHost, WakeStation, Wake
<1>6. CASE Unblock(b)
  BY <1>1, <1>6 DEF Unblock, Scan, ScanFound, ScanNobody, ScanFails, AwaitHosts, Join, JoinFails,
                    MasterBoot
<1>7. QED
  BY <1>2, <1>3, <1>4, <1>5, <1>6

LEMMA CompleteStep ==
  ASSUME TypeInv, WalkInv, Awaited, Listed, SeeksHome, Next, faults' = faults
  PROVE  Awaited' /\ Listed' /\ SeeksHome'
<1>1. PICK b \in Boards :
        \/ Send(b) \/ Recv(b) \/ Ack(b)
        \/ \E S \in Sessions : \E c \in S : Serial(b, c)
        \/ Connect(b) \/ Unblock(b)
  BY DEF Next
<1>2. CASE Send(b) \/ Ack(b)
  <2>1. UNCHANGED <<ID, parent_ID, ID_is_nbr, knows_nbrs, target_ssid, pc>>
    BY <1>2 DEF Send, Ack, selfVars, connectVars
  <2>2. QED
    BY <1>2, <2>1, AwaitedSend, AwaitedAck, KnowledgeKept
<1>3. CASE RecvData(b)
  <2>1. TakePacket(b, "data")
    BY <1>3 DEF RecvData
  <2>2. QED
    BY <2>1, WalkTaken
<1>4. CASE RecvAck(b)
  <2>1. UNCHANGED <<ID, parent_ID, ID_is_nbr, knows_nbrs, target_ssid, pc>>
    BY <1>4 DEF RecvAck, TakePacket
  <2>2. QED
    BY <1>4, <2>1, AwaitedOthers, KnowledgeKept
<1>5. CASE RecvToken(b)
  BY <1>5, AwaitedOthers, KnowledgeRecvToken
<1>6. ASSUME NEW S \in Sessions, NEW c \in S, Serial(b, c)
      PROVE  Awaited' /\ Listed' /\ SeeksHome'
  <2>1. WalkInv' /\ ~ Typed /\ Queued(0)'
    BY <1>6, WalkSerial
  <2>2. UNCHANGED <<ID, parent_ID, ID_is_nbr, knows_nbrs, target_ssid, pc, access_point>>
    BY <1>6 DEF Serial, selfVars, connectVars, radioVars
  <2>3. \A h \in Boards : Holder(h)' => h = 0
    BY <2>1, NeighborFindAssumption DEF WalkInv, OneHolder, Holder
  <2>4. \A d \in Boards : ~ access_point[d] => d = 0
    BY <2>1 DEF WalkInv, OneHolder
  <2>5. Awaited'
    BY <2>2, <2>3, <2>4 DEF Awaited
  <2>6. QED
    BY <2>2, <2>5, KnowledgeKept
<1>7. CASE Connect(b)
  <2>1. /\ UNCHANGED <<ID, parent_ID, ID_is_nbr, knows_nbrs, target_ssid>>
        /\ pc' = pc \/ pc' = [pc EXCEPT ![b] = IF target_ID[b] = RUN_SCAN THEN "scan" ELSE pc[b]]
    BY <1>7 DEF Connect, WakeHost, WakeStation, Wake
  <2>2. \A c \in Boards : pc'[c] = "parent" => pc[c] = "parent"
    BY <2>1 DEF TypeInv, TypeOK
  <2>3. QED
    BY <1>7, <2>1, <2>2, AwaitedOthers, KnowledgeKept
<1>8. CASE Scan(b)
  BY <1>8, AwaitedOthers, KnowledgeScan
<1>9. CASE Join(b) \/ JoinFails(b) \/ MasterBoot(b)
  <2>1. /\ UNCHANGED <<ID, parent_ID, ID_is_nbr, knows_nbrs, target_ssid>>
        /\ pc' = [pc EXCEPT ![b] = "poll"]
    BY <1>9 DEF Join, JoinFails, MasterBoot, JoinEnds, selfVars
  <2>2. \A c \in Boards : pc'[c] = "parent" => pc[c] = "parent"
    BY <2>1 DEF TypeInv, TypeOK
  <2>3. QED
    BY <1>9, <2>1, <2>2, AwaitedOthers, KnowledgeKept
<1>10. QED
  BY <1>1, <1>2, <1>3, <1>4, <1>5, <1>6, <1>7, <1>8, <1>9 DEF Recv, Unblock

(* Without a token nobody learns, seeks or has anything.                   *)
LEMMA DataKnowsNothing ==
  ASSUME DataInv
  PROVE  CompleteInv
<1>1. ASSUME NEW b \in Boards
      PROVE  ~ Holder(b) /\ pc[b] # "parent" /\ ~ knows_nbrs[b] /\ ID_is_nbr[b] = {}
  BY DEF DataInv, DataBoard, Holder, Queued, Arrived, Working, NoCall
<1>2. QED
  BY <1>1 DEF CompleteInv, Awaited, Listed, SeeksHome

LEMMA DataKnowsNothingNext == DataInv' => CompleteInv'
BY DataKnowsNothing, PTL

LEMMA InitComplete == Init => CompleteInv
<1> SUFFICES ASSUME Init PROVE CompleteInv
  OBVIOUS
<1>1. ASSUME NEW b \in Boards
      PROVE  ~ Holder(b) /\ pc[b] # "parent" /\ ~ knows_nbrs[b] /\ ID_is_nbr[b] = {}
  BY DEF Init, Holder, Queued, Arrived, Working
<1>2. QED
  BY <1>1 DEF CompleteInv, Awaited, Listed, SeeksHome

LEMMA StutterComplete ==
  ASSUME UNCHANGED vars, CompleteInv
  PROVE  CompleteInv'
<1>1. UNCHANGED <<ID, parent_ID, ID_is_nbr, knows_nbrs, access_point,
                  assoc, target_ID, signal_connect_thread, pc, target_ssid,
                  send_queue, new_udp_send_s, recv_data, new_udp_recv_s,
                  ack_queue, new_udp_ack_s, ack_queue_empty, faults>>
  BY DEF vars, selfVars, radioVars, connectVars, sendVars, recvVars, ackVars
<1>2. \A c \in Boards : Same(c)
  BY <1>1 DEF Same
<1>3. ASSUME Awaited PROVE Awaited'
  <2>1. \A a, h \in Boards : Waits(a, h)' <=> Waits(a, h)
    BY <1>1, <1>2, SameReturning DEF Waits
  <2>2. QED
    BY <1>2, <1>3, <2>1, SameReturning DEF Awaited
<1>4. ASSUME Listed, SeeksHome PROVE Listed' /\ SeeksHome'
  BY <1>1, <1>4, KnowledgeKept
<1>5. QED
  BY <1>1, <1>3, <1>4 DEF CompleteInv

LEMMA StepComplete == IInv /\ CompleteInv /\ [Next]_vars => CompleteInv'
<1> SUFFICES ASSUME IInv, CompleteInv, [Next]_vars PROVE CompleteInv'
  OBVIOUS
<1>1. TypeInv /\ (DataInv \/ WalkInv)
  BY DEF IInv, TypeInv
<1>2. CASE UNCHANGED vars
  BY <1>2, StutterComplete
<1>3. CASE Next /\ DataInv
  BY <1>1, <1>3, DataStep, DataKnowsNothingNext
<1>4. CASE Next /\ WalkInv
  <2> SUFFICES ASSUME faults' = 0 PROVE Awaited' /\ Listed' /\ SeeksHome'
    BY DEF CompleteInv
  <2>1. faults = 0
    BY <1>1, <1>4, FaultsCount
  <2>2. Awaited /\ Listed /\ SeeksHome /\ faults' = faults
    BY <2>1 DEF CompleteInv
  <2>3. QED
    BY <1>1, <1>4, <2>2, CompleteStep
<1>5. QED
  BY <1>1, <1>2, <1>3, <1>4

(* As long as nothing has failed, what boards know is true, and whoever is *)
(* not hosting while another board has the token is about to.              *)
THEOREM NothingSpoiled == Spec => []CompleteInv
<1>1. IInv /\ CompleteInv /\ [Next]_vars => CompleteInv'
  BY StepComplete
<1>2. QED
  BY <1>1, InitComplete, NeighborInvariant, PTL DEF Spec

(* A board that knows its neighbors knows all of them, if nothing failed,  *)
(* for any layout (neighbor_find.c:201-278, wifi_scan.c:101-107).          *)
THEOREM NeighborsAllKnown == Spec => []NeighborsComplete
<1>1. IInv /\ CompleteInv => NeighborsComplete
  <2> SUFFICES ASSUME IInv, CompleteInv, faults = 0, NEW b \in Boards, knows_nbrs[b]
               PROVE  ID_is_nbr[b] = {ID[a] : a \in InRange[b]}
    BY DEF NeighborsComplete
  <2>1. QED
    BY DEF CompleteInv, Listed
<1>2. QED
  BY <1>1, NeighborInvariant, NothingSpoiled, PTL

(* The SSID by which a board seeks its parent is its parent's, if nothing  *)
(* failed (connect.c:45-55).                                               *)
THEOREM ParentIsFound == Spec => []ReturnsToParent
<1>1. CompleteInv => ReturnsToParent
  BY DEF CompleteInv, SeeksHome, ReturnsToParent
<1>2. QED
  BY <1>1, NothingSpoiled, PTL
=============================================================================
