---------------------------- MODULE NeighborFind ----------------------------
(***************************************************************************)
(* The program of neighbor_find/, which distance_vector/ grew from: boards *)
(* that number themselves and find their neighbors by passing a token.     *)
(*                                                                         *)
(* As in PicoNetwork, a thread's pass from one yield to the next is one    *)
(* action, but for the connect thread, which blocks its board while it     *)
(* scans and joins, and a packet that reaches a board runs                 *)
(* udp_recv_callback there at once.  The threads differ.  The send thread  *)
(* waits on a semaphore and sends whatever mode the board is in.  The      *)
(* connect thread looks at its signal only, composes the token when a join *)
(* has succeeded, and tries nothing else when it has failed: there are no  *)
(* timers here, and a packet that is lost is never sent again.             *)
(*                                                                         *)
(* Board b has physical ID b.  Its SSID is <<b, PIDOG>>                    *)
(* (pidog_<physical ID>_<serial number>) until it hosts under its ID, and  *)
(* <<b, ID>> (picow_<physical ID>_<ID>) from then on.                      *)
(***************************************************************************)
EXTENDS Integers, FiniteSets

CONSTANTS
  MAX_NODES,  \* network_opts.h
  Boards,     \* the boards, numbered from 0; board 0 is flashed as the master
  InRange,    \* InRange[b]: the boards that b's layout lets it see
  Sessions,   \* sets of commands: what may be typed in one run
  MaxFaults,  \* bound on what goes wrong on the radio
  MaxPending, \* bound on packets a board has got and not yet looked at
  NONE        \* no board, no packet

ASSUME NeighborFindAssumption ==
  /\ MAX_NODES \in Nat
  /\ Boards \subseteq 0 .. MAX_NODES - 1
  /\ 0 \in Boards
  /\ InRange \in [Boards -> SUBSET Boards]
  /\ \A a, b \in Boards : a \in InRange[b] => b \in InRange[a] /\ a # b
  /\ \A S \in Sessions : S \subseteq [board : Boards, kind : {"token", "data"}]
  /\ MaxFaults \in Nat
  /\ MaxPending \in Nat \ {0}

MASTER_ID  == 0
DEFAULT_ID == -1
RUN_SCAN   == -2
ENABLE_AP  == -1
PIDOG      == -2
IDs        == 0 .. MAX_NODES - 1

VARIABLES
  ID, parent_ID, wifi_ssid, ID_is_nbr, knows_nbrs,   \* node.h: self
  ID_to_phys_ID,          \* layout.c
  access_point,           \* connect.c
  assoc,                  \* the board whose access point b has joined, or NONE
  pidogs_found,           \* wifi_scan.c, of the last scan that was started
  target_ID, signal_connect_thread,
  pc,                     \* where the connect thread blocks, or "poll"
  target_ssid,
  token_id_number,
  send_queue, new_udp_send_s,
  recv_data, new_udp_recv_s,
  ack_queue, new_udp_ack_s, ack_queue_empty,
  todo,                   \* commands not typed yet
  faults                  \* radio faults so far

selfVars == <<ID, parent_ID, wifi_ssid, ID_is_nbr, knows_nbrs, ID_to_phys_ID>>
radioVars == <<access_point, assoc>>
connectVars == <<target_ID, signal_connect_thread, pc, target_ssid,
                 pidogs_found, token_id_number>>
sendVars == <<send_queue, new_udp_send_s>>
recvVars == <<recv_data, new_udp_recv_s>>
ackVars == <<ack_queue, new_udp_ack_s, ack_queue_empty>>
vars == <<selfVars, radioVars, connectVars, sendVars, recvVars, ackVars, todo,
          faults>>

PacketType == {"data", "ack", "token"}
Number == 0 .. MAX_NODES
Packet_t == [type : PacketType, dest : -2 .. MAX_NODES, src : -1 .. MAX_NODES,
             ip : {"ap", "station"}, num : Number,
             acked : PacketType \cup {""}]

(* The token is typed once, at the master, and no data with it: a line     *)
(* typed while the token is in the send queue would overwrite it.          *)
ASSUME SessionsAssumption ==
  \A S \in Sessions : \A c \in S : c.kind = "token" => c.board = 0 /\ S = {c}

ASSUME NoneAssumption ==
  NONE \notin Boards /\ NONE \notin Packet_t /\ NONE \notin Boards \X (IDs \cup {PIDOG})

TypeOK ==
  /\ ID \in [Boards -> IDs \cup {DEFAULT_ID}]
  /\ parent_ID \in [Boards -> IDs \cup {DEFAULT_ID}]
  /\ wifi_ssid \in [Boards -> IDs \cup {PIDOG}]
  /\ ID_is_nbr \in [Boards -> SUBSET IDs]
  /\ knows_nbrs \in [Boards -> BOOLEAN]
  /\ ID_to_phys_ID \in [Boards -> [IDs -> IDs]]
  /\ access_point \in [Boards -> BOOLEAN]
  /\ assoc \in [Boards -> Boards \cup {NONE}]
  /\ pidogs_found \in [Boards -> BOOLEAN]
  /\ target_ID \in [Boards -> {RUN_SCAN, ENABLE_AP} \cup IDs]
  /\ signal_connect_thread \in [Boards -> BOOLEAN]
  /\ pc \in [Boards -> {"boot", "poll", "scan", "pidog", "parent"}]
  /\ target_ssid \in [Boards -> (Boards \X (IDs \cup {PIDOG})) \cup {NONE}]
  /\ token_id_number \in [Boards -> Number]
  /\ send_queue \in [Boards -> Packet_t \cup {NONE}]
  /\ new_udp_send_s \in [Boards -> Nat]
  /\ recv_data \in [Boards -> Packet_t \cup {NONE}]
  /\ new_udp_recv_s \in [Boards -> 0 .. MaxPending]
  /\ ack_queue \in [Boards -> Packet_t \cup {NONE}]
  /\ new_udp_ack_s \in [Boards -> 0 .. 1]
  /\ ack_queue_empty \in [Boards -> BOOLEAN]
  /\ \E S \in Sessions : todo \subseteq S
  /\ faults \in 0 .. MaxFaults

(* packet.c: new_packet.  num is the number a token carries, acked the     *)
(* type an ack names; both travel as msg.  The other texts, the counter    *)
(* and the timestamp are left out.                                         *)
new_packet(type, dest, src, ip) ==
  [type |-> type, dest |-> dest, src |-> src, ip |-> ip, num |-> 0,
   acked |-> ""]

-----------------------------------------------------------------------------
(* new_node, boot_ap (which the master does not reach) and the globals     *)
Init ==
  /\ ID = [b \in Boards |-> IF b = 0 THEN MASTER_ID ELSE DEFAULT_ID]
  /\ parent_ID = [b \in Boards |-> DEFAULT_ID]
  /\ wifi_ssid = [b \in Boards |-> PIDOG]
  /\ ID_is_nbr = [b \in Boards |-> {}]
  /\ knows_nbrs = [b \in Boards |-> FALSE]
  /\ ID_to_phys_ID = [b \in Boards |-> [id \in IDs |-> 0]]
  /\ access_point = [b \in Boards |-> b # 0]
  /\ assoc = [b \in Boards |-> NONE]
  /\ pidogs_found = [b \in Boards |-> FALSE]
  /\ target_ID = [b \in Boards |-> ENABLE_AP]
  /\ signal_connect_thread = [b \in Boards |-> FALSE]
  /\ pc = [b \in Boards |-> IF b = 0 THEN "boot" ELSE "poll"]
  /\ target_ssid = [b \in Boards |-> NONE]
  /\ token_id_number = [b \in Boards |-> 0]
  /\ send_queue = [b \in Boards |-> NONE]
  /\ new_udp_send_s = [b \in Boards |-> 0]
  /\ recv_data = [b \in Boards |-> NONE]
  /\ new_udp_recv_s = [b \in Boards |-> 0]
  /\ ack_queue = [b \in Boards |-> NONE]
  /\ new_udp_ack_s = [b \in Boards |-> 0]
  /\ ack_queue_empty = [b \in Boards |-> TRUE]
  /\ todo \in Sessions
  /\ faults = 0

(* PT_SEM_SAFE_SIGNAL and the part of PT_SEM_SAFE_WAIT that passes         *)
SemSignal(s, b) == s' = [s EXCEPT ![b] = @ + 1]
SemWait(s, b) == s[b] > 0 /\ s' = [s EXCEPT ![b] = @ - 1]

(* A fault of the radio, while there are some left *)
Fault == faults < MaxFaults /\ faults' = faults + 1

(* The boards that hear what b sends to address ip: an access point has    *)
(* the address AP_ADDR, every station STATION_ADDR.                        *)
Reached(b, ip) ==
  {a \in Boards : \/ ip = "ap" /\ assoc[b] = a
                  \/ ip = "station" /\ assoc[a] = b}

(* The callback of the board that is reached; packets to nobody are lost,  *)
(* and others may be.                                                      *)
Callback(a, p) ==
  /\ new_udp_recv_s[a] < MaxPending
  /\ recv_data' = [recv_data EXCEPT ![a] = p]
  /\ SemSignal(new_udp_recv_s, a)

Transmit(b, ip, p) ==
  \/ \E a \in Reached(b, ip) : Callback(a, p) /\ UNCHANGED faults
  \/ Reached(b, ip) = {} /\ UNCHANGED <<recvVars, faults>>
  \/ Reached(b, ip) # {} /\ Fault /\ UNCHANGED recvVars

(* The threads of b can run, and the recv thread has not just run: the ack *)
(* thread's turn comes first.                                              *)
Turn(b) == pc[b] = "poll" /\ new_udp_ack_s[b] = 0

(* dest_addr_str and self.ip_addr follow the mode of the radio.            *)
DestAddr(b) == IF access_point[b] THEN "station" ELSE "ap"
IpAddr(b) == IF access_point[b] THEN "ap" ELSE "station"

(* The one place of the send queue, and the send thread's signal *)
Enqueue(b, p) ==
  /\ send_queue' = [send_queue EXCEPT ![b] = p]
  /\ SemSignal(new_udp_send_s, b)

Retarget(b, id) ==
  /\ target_ID' = [target_ID EXCEPT ![b] = id]
  /\ signal_connect_thread' = [signal_connect_thread EXCEPT ![b] = TRUE]

-----------------------------------------------------------------------------
(* protothread_udp_send *)
Send(b) ==
  /\ Turn(b)
  /\ SemWait(new_udp_send_s, b)
  /\ Transmit(b, DestAddr(b), send_queue[b])
  /\ send_queue' = [send_queue EXCEPT
                      ![b] = IF new_udp_send_s[b] = 1 THEN NONE ELSE @]
  /\ UNCHANGED <<selfVars, radioVars, connectVars, ackVars, todo>>

(* protothread_udp_recv *)
TakePacket(b, type) ==
  /\ Turn(b)
  /\ SemWait(new_udp_recv_s, b)
  /\ recv_data[b].type = type
  /\ recv_data' = [recv_data EXCEPT
                     ![b] = IF new_udp_recv_s[b] = 1 THEN NONE ELSE @]
  /\ UNCHANGED <<wifi_ssid, ID_is_nbr, knows_nbrs, ID_to_phys_ID, radioVars,
                 pc, target_ssid, pidogs_found, sendVars, todo, faults>>

(* The ack goes out with this board's old ID if it is about to get one.    *)
QueueAck(b, p) ==
  /\ ack_queue' = [ack_queue EXCEPT
                     ![b] = [new_packet("ack", p.src, ID[b], p.ip) EXCEPT
                               !.acked = p.type]]
  /\ SemSignal(new_udp_ack_s, b)
  /\ ack_queue_empty' = [ack_queue_empty EXCEPT ![b] = FALSE]

RecvData(b) ==
  /\ TakePacket(b, "data")
  /\ QueueAck(b, recv_data[b])
  /\ UNCHANGED <<ID, parent_ID, target_ID, signal_connect_thread,
                 token_id_number>>

(* Mutant of RecvAck: an acked token does not end the station mode. *)
RecvAckPrinted(b) ==
  /\ TakePacket(b, "ack")
  /\ UNCHANGED <<ID, parent_ID, target_ID, signal_connect_thread,
                 token_id_number, ackVars>>

(* The next holder has the token: host again.  Acks of data are only       *)
(* printed.                                                                *)
RecvAck(b) ==
  /\ TakePacket(b, "ack")
  /\ IF recv_data[b].acked = "token" THEN Retarget(b, ENABLE_AP)
     ELSE UNCHANGED <<target_ID, signal_connect_thread>>
  /\ UNCHANGED <<ID, parent_ID, token_id_number, ackVars>>

(* Mutant of NextNumber: the number is not counted on. *)
NextNumberSame(new, num) == num

(* Mutant of NextNumber: a board that has an ID counts on, too. *)
NextNumberAlways(new, num) == num + 1

NextNumber(new, num) == IF new THEN num + 1 ELSE num

RecvToken(b) ==
  LET p == recv_data[b]
      new == ID[b] = DEFAULT_ID
  IN
  /\ TakePacket(b, "token")
  /\ QueueAck(b, p)
  /\ token_id_number' = [token_id_number EXCEPT ![b] = NextNumber(new, p.num)]
  /\ IF new THEN /\ ID' = [ID EXCEPT ![b] = p.num]
                 /\ parent_ID' = [parent_ID EXCEPT ![b] = p.src]
     ELSE UNCHANGED <<ID, parent_ID>>
  /\ Retarget(b, RUN_SCAN)

(* protothread_udp_ack *)
Ack(b) ==
  /\ pc[b] = "poll"
  /\ SemWait(new_udp_ack_s, b)
  /\ Transmit(b, ack_queue[b].ip, [ack_queue[b] EXCEPT !.ip = IpAddr(b)])
  /\ ack_queue' = [ack_queue EXCEPT ![b] = NONE]
  /\ ack_queue_empty' = [ack_queue_empty EXCEPT ![b] = TRUE]
  /\ UNCHANGED <<selfVars, radioVars, connectVars, sendVars, todo>>

(* pt_serialin_polled hands the thread a line that was typed up to Enter.  *)
(* Nobody types two lines at once, and backspaces are behind the line.     *)
TypedLine(b, c) == c \in todo /\ c.board = b /\ todo' = todo \ {c}

(* protothread_serial: "token", or a message for whoever is connected *)
Serial(b, c) ==
  /\ Turn(b)
  /\ TypedLine(b, c)
  /\ Enqueue(b, [new_packet(c.kind, target_ID[b], ID[b], IpAddr(b)) EXCEPT
                   !.num = IF c.kind = "token" THEN 1 ELSE 0])
  /\ UNCHANGED <<selfVars, radioVars, connectVars, recvVars, ackVars, faults>>

-----------------------------------------------------------------------------
(* protothread_connect.  Its pass begins when it is signalled and no ack   *)
(* is pending.                                                             *)
Wake(b) ==
  /\ Turn(b)
  /\ signal_connect_thread[b] /\ ack_queue_empty[b]
  /\ signal_connect_thread' = [signal_connect_thread EXCEPT ![b] = FALSE]
  /\ UNCHANGED <<ID, parent_ID, ID_is_nbr, knows_nbrs, ID_to_phys_ID,
                 target_ID, target_ssid, pidogs_found, token_id_number,
                 sendVars, recvVars, ackVars, todo, faults>>

(* shutdown_ap and boot_station: every link of b is cut.                   *)
BecomeStation(b) ==
  /\ access_point' = [access_point EXCEPT ![b] = FALSE]
  /\ assoc' = [a \in Boards |-> IF assoc[a] = b THEN NONE ELSE assoc[a]]

(* An access point becomes a station to scan. *)
WakeHost(b) ==
  /\ Wake(b)
  /\ access_point[b]
  /\ BecomeStation(b)
  /\ pc' = [pc EXCEPT ![b] = IF target_ID[b] = RUN_SCAN THEN "scan" ELSE @]
  /\ UNCHANGED wifi_ssid

(* shutdown_station and boot_ap, under the board's ID *)
BootAp(b) ==
  /\ access_point' = [access_point EXCEPT ![b] = TRUE]
  /\ assoc' = [assoc EXCEPT ![b] = NONE]
  /\ wifi_ssid' = [wifi_ssid EXCEPT ![b] = ID[b]]

(* A station only ever obeys ENABLE_AP; any other signal is used up.       *)
WakeStation(b) ==
  /\ Wake(b)
  /\ ~ access_point[b]
  /\ IF target_ID[b] = ENABLE_AP THEN BootAp(b)
     ELSE UNCHANGED <<radioVars, wifi_ssid>>
  /\ UNCHANGED pc

(* scan_wifi: the access points that b may see *)
Visible(b) == {a \in InRange[b] : access_point[a]}
Pidogs(b) == {a \in Visible(b) : wifi_ssid[a] = PIDOG}
Picows(b) == Visible(b) \ Pidogs(b)

(* A neighbor that has passed the token on and is about to host again.     *)
(* The two seconds before the scan are meant to be enough for it.          *)
Returning(a) ==
  /\ ~ access_point[a]
  /\ \/ new_udp_recv_s[a] > 0
     \/ signal_connect_thread[a] /\ target_ID[a] = ENABLE_AP

(* Mutant of AwaitHosts: the scan starts at once. *)
AwaitHostsNot(b) == UNCHANGED faults

AwaitHosts(b) ==
  IF \E a \in InRange[b] : Returning(a) THEN Fault ELSE UNCHANGED faults

(* Mutant of ReportPicows: the physical IDs are not kept. *)
ReportPicowsNotPhys(b) ==
  /\ ID_is_nbr' =
       [ID_is_nbr EXCEPT ![b] = @ \cup {wifi_ssid[a] : a \in Picows(b)}]
  /\ UNCHANGED ID_to_phys_ID

(* scan_callback: each picow seen is a neighbor, and its physical ID is    *)
(* kept with its ID.                                                       *)
ReportPicows(b) ==
  /\ ID_is_nbr' =
       [ID_is_nbr EXCEPT ![b] = @ \cup {wifi_ssid[a] : a \in Picows(b)}]
  /\ ID_to_phys_ID' =
       [ID_to_phys_ID EXCEPT
          ![b] = [id \in IDs |->
                    IF \E a \in Picows(b) : wifi_ssid[a] = id
                    THEN CHOOSE a \in Picows(b) : wifi_ssid[a] = id
                    ELSE @[id]]]

Seek(b, ssid, next) ==
  /\ target_ssid' = [target_ssid EXCEPT ![b] = ssid]
  /\ pc' = [pc EXCEPT ![b] = next]

(* No pidogs: the board knows its neighbors.  The master hosts again, the  *)
(* others join their parent, by the SSID they believe it to have.          *)
NobodyLeft(b) ==
  /\ knows_nbrs' = [knows_nbrs EXCEPT ![b] = TRUE]
  /\ IF ID[b] = MASTER_ID
     THEN /\ Retarget(b, ENABLE_AP)
          /\ Seek(b, target_ssid[b], "poll")
     ELSE /\ target_ID' = [target_ID EXCEPT ![b] = parent_ID[b]]
          /\ Seek(b, <<ID_to_phys_ID'[b][parent_ID[b]], parent_ID[b]>>, "parent")
          /\ UNCHANGED signal_connect_thread

ScanEnds(b) ==
  /\ pc[b] = "scan"
  /\ UNCHANGED <<ID, parent_ID, wifi_ssid, radioVars, token_id_number,
                 sendVars, recvVars, ackVars, todo>>

(* Any pidog may be the last one that is reported: that is the one to join. *)
ScanFound(b, a) ==
  /\ ScanEnds(b)
  /\ a \in Pidogs(b)
  /\ AwaitHosts(b)
  /\ ReportPicows(b)
  /\ pidogs_found' = [pidogs_found EXCEPT ![b] = TRUE]
  /\ Seek(b, <<a, PIDOG>>, "pidog")
  /\ UNCHANGED <<knows_nbrs, target_ID, signal_connect_thread>>

ScanNobody(b) ==
  /\ ScanEnds(b)
  /\ Pidogs(b) = {}
  /\ AwaitHosts(b)
  /\ ReportPicows(b)
  /\ pidogs_found' = [pidogs_found EXCEPT ![b] = FALSE]
  /\ NobodyLeft(b)

(* The scan fails to start.  scan_result is "none", pidogs_found is that   *)
(* of the scan before, and nobody looks at the error.                      *)
ScanFails(b) ==
  /\ ScanEnds(b)
  /\ Fault
  /\ UNCHANGED <<ID_is_nbr, ID_to_phys_ID, pidogs_found>>
  /\ IF pidogs_found[b]
     THEN /\ Seek(b, NONE, "pidog")
          /\ UNCHANGED <<knows_nbrs, target_ID, signal_connect_thread>>
     ELSE NobodyLeft(b)

(* The networks that connect_to_network can join *)
Networks(b) ==
  {a \in Boards : access_point[a] /\ target_ssid[b] = <<a, wifi_ssid[a]>>}

(* Mutant of PassToken: the number that came is passed on. *)
PassTokenStale(b) ==
  Enqueue(b, [new_packet("token", target_ID[b], ID[b], "station") EXCEPT
                !.num = 1])

(* The token is composed when its next holder has been joined.             *)
PassToken(b) ==
  LET dest == IF pc[b] = "pidog" THEN -1 ELSE target_ID[b] IN
  Enqueue(b, [new_packet("token", dest, ID[b], "station") EXCEPT
                !.num = token_id_number[b]])

(* connect_to_network succeeds, or fails: there is no such network, or a   *)
(* fault.  A failure is printed, and that is all.                          *)
JoinEnds(b) ==
  /\ pc' = [pc EXCEPT ![b] = "poll"]
  /\ UNCHANGED <<selfVars, access_point, target_ID, signal_connect_thread,
                 target_ssid, token_id_number, recvVars, ackVars, todo>>

Join(b) ==
  /\ pc[b] \in {"pidog", "parent"}
  /\ \E a \in Networks(b) : assoc' = [assoc EXCEPT ![b] = a]
  /\ PassToken(b)
  /\ JoinEnds(b)
  /\ UNCHANGED <<pidogs_found, faults>>

JoinFails(b) ==
  /\ pc[b] \in {"pidog", "parent"}
  /\ (Networks(b) = {} /\ UNCHANGED faults) \/ Fault
  /\ JoinEnds(b)
  /\ UNCHANGED <<assoc, sendVars, pidogs_found>>

(* main() of the master: a scan, and the pidog found last is joined.  A    *)
(* scan that fails to start leaves pidogs_found as it is and nothing to    *)
(* join.                                                                   *)
MasterBoot(b) ==
  /\ pc[b] = "boot"
  /\ \/ /\ \E a \in Pidogs(b) : assoc' = [assoc EXCEPT ![b] = a]
        /\ pidogs_found' = [pidogs_found EXCEPT ![b] = TRUE]
        /\ UNCHANGED faults
     \/ /\ (Pidogs(b) = {} /\ UNCHANGED faults) \/ Fault
        /\ pidogs_found' = [pidogs_found EXCEPT ![b] = Pidogs(b) # {}]
        /\ UNCHANGED assoc
     \/ Fault /\ UNCHANGED <<pidogs_found, assoc>>
  /\ JoinEnds(b)
  /\ UNCHANGED sendVars

-----------------------------------------------------------------------------
Recv(b) == RecvData(b) \/ RecvAck(b) \/ RecvToken(b)

Connect(b) == WakeHost(b) \/ WakeStation(b)

Scan(b) == (\E a \in Boards : ScanFound(b, a)) \/ ScanNobody(b) \/ ScanFails(b)

Unblock(b) == Scan(b) \/ Join(b) \/ JoinFails(b) \/ MasterBoot(b)

Next == \E b \in Boards :
  \/ Send(b) \/ Recv(b) \/ Ack(b)
  \/ \E S \in Sessions : \E c \in S : Serial(b, c)
  \/ Connect(b) \/ Unblock(b)

Spec == Init /\ [][Next]_vars

(* The scheduler calls every thread again and again; scans and joins end.  *)
FairSpec == Spec /\ \A b \in Boards :
  /\ WF_vars(Send(b)) /\ WF_vars(Recv(b)) /\ WF_vars(Ack(b))
  /\ WF_vars(Connect(b)) /\ WF_vars(Unblock(b))

-----------------------------------------------------------------------------
(* The token in the program: on its way to be sent, in a receive buffer    *)
(* with its sender's ID, or with a board that has been told to scan.       *)
Board(id) == CHOOSE b \in Boards : ID[b] = id

Tokens ==
  {[at |-> b, num |-> send_queue[b].num] :
     b \in {a \in Boards : send_queue[a] # NONE /\ send_queue[a].type = "token"}}
  \cup
  {[at |-> Board(recv_data[b].src), num |-> recv_data[b].num] :
     b \in {a \in Boards : recv_data[a] # NONE /\ recv_data[a].type = "token"}}
  \cup
  {[at |-> b, num |-> token_id_number[b]] :
     b \in {a \in Boards : \/ pc[a] \in {"scan", "pidog", "parent"}
                           \/ signal_connect_thread[a] /\ target_ID[a] = RUN_SCAN}}

Walk == INSTANCE TokenWalk WITH
  Master <- 0, tokens <- Tokens,
  started <- \A c \in todo : c.kind # "token"

(* Threads, queues, buffers, scans and joins, with all that may fail,      *)
(* implement the walk of one token: it is never in two places, and its     *)
(* number is never taken twice (neighbor_find.c:201-278, 485-515).         *)
ImplementsWalk == Walk!Spec

(* A board that knows its neighbors knows all of them, if nothing failed:  *)
(* each had an ID and hosted its access point at the last scan.            *)
NeighborsComplete ==
  faults = 0 => \A b \in Boards :
    knows_nbrs[b] => ID_is_nbr[b] = {ID[a] : a \in InRange[b]}

(* A board hands the token back to its parent by an SSID that holds the    *)
(* parent's physical ID as it was seen in a scan, and 0 before: if nothing *)
(* failed it is the right one (connect.c:45-55, wifi_scan.c:101-107).      *)
ReturnsToParent ==
  faults = 0 => \A b \in Boards :
    pc[b] = "parent" => target_ssid[b] = <<Board(parent_ID[b]), parent_ID[b]>>

(* A token that was typed visits all boards that it can reach and returns: *)
(* in the end each knows its neighbors and hosts its access point, unless  *)
(* something failed.                                                       *)
AllKnow ==
  \A b \in Boards : knows_nbrs[b] /\ access_point[b] /\ wifi_ssid[b] = ID[b]

WalkEnds ==
  (\E c \in todo : c.kind = "token") =>
    ((todo = {}) ~> (faults > 0 \/ []AllKnow))
=============================================================================
