----------------------------- MODULE PicoNetwork -----------------------------
(***************************************************************************)
(* The program of distance_vector/: Pico-W boards that find their          *)
(* neighbors by passing a token, route by exchanging distance vectors and  *)
(* forward data, each over one radio that either hosts an access point or  *)
(* joins one.                                                              *)
(*                                                                         *)
(* A board runs five protothreads (send, recv, ack, serial, connect) that  *)
(* share globals.  A thread's pass from one yield to the next is one       *)
(* action.  The connect thread blocks its board while it scans or joins a  *)
(* network, so its pass is two actions, pc says which comes next, and the  *)
(* other boards run between them.  A packet that reaches a board runs      *)
(* udp_recv_callback there, in an interrupt, whatever its threads do.      *)
(*                                                                         *)
(* The scheduler calls the threads round robin in the order above          *)
(* (main.c:976-981).  Two facts of that order matter and are kept: the ack *)
(* thread runs directly after the recv thread, and the connect thread      *)
(* passes at most once between a packet's arrival and the recv thread's    *)
(* pass that takes it (due).  Otherwise a thread that may run may run at   *)
(* any time.  Semaphore operations are atomic here; PtSemSafe looks inside *)
(* them.  The one-packet buffers are NONE here while no semaphore or flag  *)
(* says that they hold something: their old bytes are never read.          *)
(*                                                                         *)
(* Time: next_dv_scan is "never" (NO_SCAN), "asap" (SCAN_ASAP) or "later", *)
(* a deadline that may expire at any time.  last_contact, counters, ack    *)
(* numbers, timestamps and texts are left out: any neighbor that still     *)
(* needs the vector may be the one a scan selects.                         *)
(***************************************************************************)
EXTENDS DistVector, FiniteSets, FiniteSetsExt

CONSTANTS
  Boards,     \* the boards, numbered from 0; board 0 is flashed as the master
  InRange,    \* InRange[b]: the boards whose access point b's scan can see
  Commands,   \* what is typed on the serial consoles, each once
  MaxFaults,  \* bound on packets lost, joins timed out by the radio, scans
              \* that do not start and access points that boot late
  MaxPending, \* bound on packets a board has got and not yet looked at
  Prompt,     \* no deadline expires while a packet is being handled
  NONE        \* no board, no packet

ASSUME BoardsAssumption ==
  /\ Boards \subseteq IDs
  /\ 0 \in Boards
  /\ InRange \in [Boards -> SUBSET Boards]
  /\ \A a, b \in Boards : a \in InRange[b] => b \in InRange[a] /\ a # b
  /\ Commands \subseteq [board : Boards, kind : {"token", "dv", "data"},
                         dest : IDs]
  /\ MaxFaults \in Nat
  /\ MaxPending \in Nat \ {0}
  /\ Prompt \in BOOLEAN

MASTER_ID  == 0
DEFAULT_ID == -1

(* Special values of target_ID; ENABLE_AP is the same number as NO_ROUTE.  *)
DV_SCAN   == -3
NF_SCAN   == -2
ENABLE_AP == -1

PIDOG == -2   \* SSID pidog_<serial> of a board without ID; picow_<ID> is the ID

VARIABLES
  ID, parent_ID, wifi_ssid, knows_nbrs, ID_is_nbr, dist_vector, routing_table,
  nbrs,                 \* node.h: self; DOMAIN nbrs[b] are the non-NULL ones
  access_point,         \* connect.c: the radio hosts an access point
  assoc,                \* the board whose access point b has joined, or NONE
  phase, target_ID, signal_connect_thread, next_dv_scan,
  pc,                   \* where the connect thread blocks, or "poll"
  joining,              \* the board whose pidog network target_ssid names
  pidogs_found,         \* wifi_scan.c, of the last scan that was started
  signal_send_thread, send_queue,
  recv_data, new_udp_recv_s,
  due,                  \* the connect thread has passed since the last arrival
  ack_queue,            \* with return_addr_str in its field ip
  new_udp_ack_s, ack_queue_empty,
  todo,                 \* commands not typed yet
  faults                \* radio faults so far

selfVars == <<ID, parent_ID, wifi_ssid, knows_nbrs, ID_is_nbr, dist_vector,
              routing_table, nbrs>>
radioVars == <<access_point, assoc>>
connectVars == <<phase, target_ID, signal_connect_thread, next_dv_scan, pc,
                 joining, pidogs_found>>
sendVars == <<signal_send_thread, send_queue>>
recvVars == <<recv_data, new_udp_recv_s, due>>
ackVars == <<ack_queue, new_udp_ack_s, ack_queue_empty>>
envVars == <<todo, faults>>
vars == <<selfVars, radioVars, connectVars, sendVars, recvVars, ackVars,
          envVars>>

(* packet.c: new_packet.  ip is the board whose address is in the packet.  *)
(* msg is split by packet type: the vector of a "dv", the number of a      *)
(* "token", the acknowledged type of an "ack".                             *)
Packet(type, dest, src, ip) ==
  [type |-> type, dest |-> dest, src |-> src, ip |-> ip,
   dv |-> EmptyVector, num |-> 0, acked |-> ""]

PacketType == {"data", "ack", "token", "dv"}
PacketSet ==
  [type : PacketType, dest : -3 .. MAX_NODES, src : -1 .. MAX_NODES,
   ip : Boards, dv : WireVector, num : 0 .. MAX_NODES,
   acked : PacketType \cup {""}]

Nbr_t == [dist_vector : WireVector, up_to_date : BOOLEAN]

ASSUME NoneAssumption == NONE \notin Boards /\ NONE \notin PacketSet

TypeOK ==
  /\ ID \in [Boards -> IDs \cup {DEFAULT_ID}]
  /\ parent_ID \in [Boards -> IDs \cup {DEFAULT_ID}]
  /\ wifi_ssid \in [Boards -> IDs \cup {DEFAULT_ID, PIDOG}]
  /\ knows_nbrs \in [Boards -> BOOLEAN]
  /\ ID_is_nbr \in [Boards -> SUBSET IDs]
  /\ dist_vector \in [Boards -> Vector]
  /\ routing_table \in [Boards -> Table]
  /\ \A b \in Boards : \E S \in SUBSET IDs : nbrs[b] \in [S -> Nbr_t]
  /\ access_point \in [Boards -> BOOLEAN]
  /\ assoc \in [Boards -> Boards \cup {NONE}]
  /\ phase \in [Boards -> {"nothing", "nb_finding", "dv_routing"}]
  /\ target_ID \in [Boards -> {DV_SCAN, NF_SCAN, ENABLE_AP} \cup IDs]
  /\ signal_connect_thread \in [Boards -> BOOLEAN]
  /\ next_dv_scan \in [Boards -> {"never", "asap", "later"}]
  /\ pc \in [Boards -> {"boot", "poll", "dv_scan", "nf_scan", "nf_join",
                        "join"}]
  /\ joining \in [Boards -> Boards \cup {NONE}]
  /\ pidogs_found \in [Boards -> BOOLEAN]
  /\ signal_send_thread \in [Boards -> BOOLEAN]
  /\ send_queue \in [Boards -> PacketSet \cup {NONE}]
  /\ recv_data \in [Boards -> PacketSet \cup {NONE}]
  /\ new_udp_recv_s \in [Boards -> Nat]
  /\ due \in [Boards -> BOOLEAN]
  /\ ack_queue \in [Boards -> PacketSet \cup {NONE}]
  /\ new_udp_ack_s \in [Boards -> Nat]
  /\ ack_queue_empty \in [Boards -> BOOLEAN]
  /\ todo \subseteq Commands
  /\ faults \in 0 .. MaxFaults
-----------------------------------------------------------------------------
(* The program's globals as they are initialized: no thread has anything   *)
(* to do.                                                                  *)
Idle ==
  /\ phase = [b \in Boards |-> "nothing"]
  /\ target_ID = [b \in Boards |-> ENABLE_AP]
  /\ signal_connect_thread = [b \in Boards |-> FALSE]
  /\ next_dv_scan = [b \in Boards |-> "never"]
  /\ joining = [b \in Boards |-> NONE]
  /\ signal_send_thread = [b \in Boards |-> FALSE]
  /\ send_queue = [b \in Boards |-> NONE]
  /\ recv_data = [b \in Boards |-> NONE]
  /\ new_udp_recv_s = [b \in Boards |-> 0]
  /\ due = [b \in Boards |-> FALSE]
  /\ ack_queue = [b \in Boards |-> NONE]
  /\ new_udp_ack_s = [b \in Boards |-> 0]
  /\ ack_queue_empty = [b \in Boards |-> TRUE]
  /\ assoc = [b \in Boards |-> NONE]

InitThreads ==
  /\ Idle
  /\ pidogs_found = [b \in Boards |-> FALSE]
  /\ faults = 0

TokenCommands == {c \in Commands : c.kind = "token"}

(* The token is typed once, at the master: there is one to be unique.      *)
ASSUME TokenAssumption == \A c, d \in TokenCommands : c.board = 0 /\ c = d

(* node.c: new_node, and main() up to boot_ap, which the master does not   *)
(* reach.                                                                  *)
InitBoot ==
  /\ todo = TokenCommands
  /\ ID = [b \in Boards |-> IF b = 0 THEN MASTER_ID ELSE DEFAULT_ID]
  /\ parent_ID = [b \in Boards |-> DEFAULT_ID]
  /\ wifi_ssid = [b \in Boards |-> PIDOG]
  /\ knows_nbrs = [b \in Boards |-> FALSE]
  /\ ID_is_nbr = [b \in Boards |-> {}]
  /\ dist_vector = [b \in Boards |-> EmptyVector]
  /\ routing_table = [b \in Boards |-> EmptyTable]
  /\ nbrs = [b \in Boards |-> [h \in {} |-> NONE]]
  /\ access_point = [b \in Boards |-> b # 0]
  /\ pc = [b \in Boards |-> IF b = 0 THEN "boot" ELSE "poll"]
  /\ InitThreads

NewNbr == [dist_vector |-> EmptyVector, up_to_date |-> FALSE]

(* Every board b was given ID b, knows its neighbors and hosts its access  *)
(* point.  The token walks depth first, so a board's parent is its highest *)
(* neighbor below it.                                                      *)
Numbered ==
  /\ ID = [b \in Boards |-> b]
  /\ parent_ID = [b \in Boards |->
                    IF b = 0 THEN DEFAULT_ID
                    ELSE Max({h \in InRange[b] : h < b})]
  /\ wifi_ssid = [b \in Boards |-> b]
  /\ knows_nbrs = [b \in Boards |-> TRUE]
  /\ ID_is_nbr = InRange
  /\ access_point = [b \in Boards |-> TRUE]
  /\ pc = [b \in Boards |-> "poll"]

(* What neighbor finding leaves behind                                     *)
NeighborsFound ==
  /\ Numbered
  /\ dist_vector =
       [b \in Boards |-> InitVector(EmptyVector, b, InRange[b])]
  /\ routing_table = [b \in Boards |-> InitTable(EmptyTable, InRange[b])]
  /\ nbrs = [b \in Boards |-> [h \in InRange[b] |-> NewNbr]]

InitRouted == NeighborsFound /\ InitThreads /\ todo = Commands \ TokenCommands

-----------------------------------------------------------------------------
(* The radio, which is not in src/: udp_sendto from board a reaches board  *)
(* b if one is the access point the other has joined.                      *)
Linked(a, b) == \/ assoc[a] = b /\ access_point[b]
                \/ assoc[b] = a /\ access_point[a]

(* main.c: udp_recv_callback.  The packet overwrites the one buffer and    *)
(* the semaphore counts it.                                                *)
Callback(b, p) ==
  /\ new_udp_recv_s[b] < MaxPending
  /\ recv_data' = [recv_data EXCEPT ![b] = p]
  /\ new_udp_recv_s' = [new_udp_recv_s EXCEPT ![b] = @ + 1]
  /\ UNCHANGED due

(* A fault of the radio, while there are some left *)
Fault == faults < MaxFaults /\ faults' = faults + 1

(* Packet p sent by a to b arrives at once, or is lost because a and b are *)
(* not linked (any more), or by a fault.                                   *)
Transmit(a, b, p) ==
  \/ /\ b \in Boards /\ Linked(a, b)
     /\ Callback(b, p)
     /\ UNCHANGED faults
  \/ /\ ~ (b \in Boards /\ Linked(a, b))
     /\ UNCHANGED <<recvVars, faults>>
  \/ /\ b \in Boards /\ Linked(a, b)
     /\ Fault
     /\ UNCHANGED recvVars

(* The threads of b can run, and the recv thread has not just run: the ack *)
(* thread's turn comes first.                                              *)
Turn(b) == pc[b] = "poll" /\ new_udp_ack_s[b] = 0

-----------------------------------------------------------------------------
(* The connect thread is told to act on target id.                         *)
Retarget(b, id) ==
  /\ target_ID' = [target_ID EXCEPT ![b] = id]
  /\ signal_connect_thread' = [signal_connect_thread EXCEPT ![b] = TRUE]

(* Packet p takes the one place of the send queue, whatever is there.      *)
Enqueue(b, p) ==
  /\ send_queue' = [send_queue EXCEPT ![b] = p]
  /\ signal_send_thread' = [signal_send_thread EXCEPT ![b] = TRUE]

(* Mutant of Dequeue: the signal is not cleared and the packet sent again. *)
DequeueNothing(b) == UNCHANGED sendVars

Dequeue(b) ==
  /\ send_queue' = [send_queue EXCEPT ![b] = NONE]
  /\ signal_send_thread' = [signal_send_thread EXCEPT ![b] = FALSE]

(* protothread_udp_send: a station sends what is queued to the access      *)
(* point it has joined (dest_addr_str is AP_ADDR in every station).        *)
Send(b) ==
  /\ Turn(b)
  /\ signal_send_thread[b]
  /\ ~ signal_connect_thread[b]
  /\ ~ access_point[b]
  /\ Dequeue(b)
  /\ Transmit(b, assoc[b], [send_queue[b] EXCEPT !.ip = b])
  /\ UNCHANGED <<selfVars, radioVars, connectVars, ackVars, todo>>

(* protothread_udp_recv: the packet in the buffer, whichever it is by now  *)
TakePacket(b, type) ==
  /\ Turn(b)
  /\ new_udp_recv_s[b] > 0
  /\ recv_data[b].type = type
  /\ new_udp_recv_s' = [new_udp_recv_s EXCEPT ![b] = @ - 1]
  /\ recv_data' = [recv_data EXCEPT
                     ![b] = IF new_udp_recv_s[b] = 1 THEN NONE ELSE @]
  /\ due' = [due EXCEPT ![b] = FALSE]
  /\ UNCHANGED <<radioVars, pc, joining, pidogs_found, envVars>>

(* Mutant of QueueAck: sender and receiver swapped *)
QueueAckSwapped(b, p) ==
  /\ ack_queue' = [ack_queue EXCEPT
                     ![b] = [Packet("ack", ID[b], p.src, p.ip) EXCEPT
                               !.acked = p.type]]
  /\ new_udp_ack_s' = [new_udp_ack_s EXCEPT ![b] = @ + 1]
  /\ ack_queue_empty' = [ack_queue_empty EXCEPT ![b] = FALSE]

(* All but acks are acknowledged.                                          *)
QueueAck(b, p) ==
  /\ ack_queue' = [ack_queue EXCEPT
                     ![b] = [Packet("ack", p.src, ID[b], p.ip) EXCEPT
                               !.acked = p.type]]
  /\ new_udp_ack_s' = [new_udp_ack_s EXCEPT ![b] = @ + 1]
  /\ ack_queue_empty' = [ack_queue_empty EXCEPT ![b] = FALSE]

(* Mutant of Forward: any neighbor will do. *)
ForwardToFirst(b, p) == Enqueue(b, p) /\ Retarget(b, Min(DOMAIN nbrs[b]))

(* Mutant of Forward: the connect thread is not told. *)
ForwardUnsignalled(b, p) ==
  /\ Enqueue(b, p)
  /\ target_ID' = [target_ID EXCEPT ![b] = routing_table[b][p.dest]]
  /\ UNCHANGED signal_connect_thread

(* Data goes into the send queue, and the connect thread is told the next  *)
(* hop, which may be NO_ROUTE.                                             *)
Forward(b, p) == Enqueue(b, p) /\ Retarget(b, routing_table[b][p.dest])

RecvData(b) ==
  LET p == recv_data[b] IN
  /\ TakePacket(b, "data")
  /\ QueueAck(b, p)
  /\ IF p.dest = ID[b]
     THEN UNCHANGED <<sendVars, target_ID, signal_connect_thread>>
     ELSE Forward(b, [p EXCEPT !.src = ID[b]])
  /\ UNCHANGED <<selfVars, phase, next_dv_scan>>

(* Data or the token has arrived: back to access point mode.               *)
RecvAck(b) ==
  /\ TakePacket(b, "ack")
  /\ recv_data[b].acked \in {"data", "token"}
  /\ Retarget(b, ENABLE_AP)
  /\ UNCHANGED <<selfVars, phase, next_dv_scan, sendVars, ackVars>>

(* The neighbor has my vector: scan for the next one at once.              *)
RecvAckDv(b) ==
  LET h == recv_data[b].src IN
  /\ TakePacket(b, "ack")
  /\ recv_data[b].acked = "dv"
  /\ h \in DOMAIN nbrs[b]
  /\ nbrs' = [nbrs EXCEPT ![b][h].up_to_date = TRUE]
  /\ target_ID' = [target_ID EXCEPT ![b] = DV_SCAN]
  /\ next_dv_scan' = [next_dv_scan EXCEPT ![b] = "asap"]
  /\ UNCHANGED <<ID, parent_ID, wifi_ssid, knows_nbrs, ID_is_nbr, dist_vector,
                 routing_table, phase, signal_connect_thread, sendVars,
                 ackVars>>

(* Mutant of NextNumber: the token is passed on as it came. *)
NextNumberSame(new, num) == num

(* Mutant of NextNumber: every visit counts. *)
NextNumberAlways(new, num) == num + 1

NextNumber(new, num) == IF new THEN num + 1 ELSE num

(* A board without ID takes the token's number and passes on the next.     *)
RecvToken(b) ==
  LET p == recv_data[b]
      new == ID[b] = DEFAULT_ID
      id == IF new THEN p.num ELSE ID[b]
  IN
  /\ TakePacket(b, "token")
  /\ QueueAck(b, p)
  /\ phase' = [phase EXCEPT ![b] = "nb_finding"]
  /\ ID' = [ID EXCEPT ![b] = id]
  /\ parent_ID' = [parent_ID EXCEPT ![b] = IF new THEN p.src ELSE @]
  /\ Enqueue(b, [Packet("token", target_ID[b], id, b) EXCEPT
                   !.num = NextNumber(new, p.num)])
  /\ Retarget(b, NF_SCAN)
  /\ UNCHANGED <<wifi_ssid, knows_nbrs, ID_is_nbr, dist_vector, routing_table,
                 nbrs, next_dv_scan>>

(* str_to_dv stores the vector; if it changes that of b, no neighbor is    *)
(* up-to-date any more.                                                    *)
NbrsAfter(b, p) ==
  LET stored == [nbrs[b] EXCEPT ![p.src].dist_vector = p.dv]
      changed == Improved(dist_vector[b], p.dv) # {}
  IN [h \in DOMAIN nbrs[b] |->
        [stored[h] EXCEPT !.up_to_date = @ /\ ~ changed]]

(* str_to_dv, update_dist_vector_by_nbr_id and a delayed scan.  The two    *)
(* functions set and clear new_dv on the way, which nothing reads.         *)
RecvDv(b) ==
  LET p == recv_data[b] IN
  /\ TakePacket(b, "dv")
  /\ p.src \in DOMAIN nbrs[b]
  /\ QueueAck(b, p)
  /\ phase' = [phase EXCEPT ![b] = "dv_routing"]
  /\ nbrs' = [nbrs EXCEPT ![b] = NbrsAfter(b, p)]
  /\ dist_vector' = [dist_vector EXCEPT ![b] = UpdateVector(@, p.dv)]
  /\ routing_table' = [routing_table EXCEPT
                         ![b] = UpdateTable(dist_vector[b], @, p.dv, p.src)]
  /\ next_dv_scan' = [next_dv_scan EXCEPT ![b] = "later"]
  /\ UNCHANGED <<ID, parent_ID, wifi_ssid, knows_nbrs, ID_is_nbr, sendVars,
                 target_ID, signal_connect_thread>>

(* return_addr_str is the address of a station in the network that b       *)
(* hosted when the packet came.  If b is a station by now, nobody that b   *)
(* can reach has it.                                                       *)
AckTo(b) == IF access_point[b] THEN ack_queue[b].ip ELSE NONE

(* protothread_udp_ack                                                     *)
Ack(b) ==
  /\ pc[b] = "poll"
  /\ new_udp_ack_s[b] > 0
  /\ new_udp_ack_s' = [new_udp_ack_s EXCEPT ![b] = @ - 1]
  /\ ack_queue_empty' = [ack_queue_empty EXCEPT ![b] = TRUE]
  /\ ack_queue' = [ack_queue EXCEPT ![b] = NONE]
  /\ Transmit(b, AckTo(b), [ack_queue[b] EXCEPT !.ip = b])
  /\ UNCHANGED <<selfVars, radioVars, connectVars, sendVars, todo>>

(* pt_serialin_polled hands the thread a line that was typed up to Enter.  *)
(* Nobody types two lines at once, and backspaces are behind the line.     *)
TypedLine(b, c) == c \in todo /\ c.board = b /\ todo' = todo \ {c}

(* protothread_serial: "token", "dv" or "<ID>-<message>"                   *)
Serial(b, c) ==
  /\ Turn(b)
  /\ TypedLine(b, c)
  /\ \/ /\ c.kind = "token"
        /\ Enqueue(b, [Packet("token", target_ID[b], ID[b], b) EXCEPT
                         !.num = 1])
        /\ UNCHANGED <<target_ID, signal_connect_thread, next_dv_scan>>
     \/ /\ c.kind = "dv"
        /\ next_dv_scan' = [next_dv_scan EXCEPT ![b] = "asap"]
        /\ UNCHANGED <<sendVars, target_ID, signal_connect_thread>>
     \/ /\ c.kind = "data"
        /\ Forward(b, Packet("data", c.dest, ID[b], b))
        /\ UNCHANGED next_dv_scan
  /\ UNCHANGED <<selfVars, radioVars, phase, pc, joining, pidogs_found,
                 recvVars, ackVars, faults>>

-----------------------------------------------------------------------------
(* A board has a packet to look at, to acknowledge or to send, or its      *)
(* connect thread is signalled.  It takes milliseconds to get to that, or  *)
(* seconds if it is scanning; a scan that is put off is put off by ten     *)
(* seconds or more.                                                        *)
Handling(b) ==
  /\ pc[b] # "join"
  /\ \/ new_udp_recv_s[b] > 0
     \/ new_udp_ack_s[b] > 0
     \/ signal_connect_thread[b]
     \/ signal_send_thread[b] /\ ~ access_point[b]

Expired(b) ==
  \/ next_dv_scan[b] = "asap"
  \/ next_dv_scan[b] = "later" /\ (Prompt => \A a \in Boards : ~ Handling(a))

(* protothread_connect wakes when it is signalled or a scan is scheduled,  *)
(* and no ack is pending.  Without a signal its target becomes DV_SCAN.    *)
Wake(b, t) ==
  /\ Turn(b)
  /\ ack_queue_empty[b]
  /\ ~ due[b]
  /\ IF signal_connect_thread[b] THEN t = target_ID[b]
     ELSE Expired(b) /\ t = DV_SCAN

(* shutdown_ap or shutdown_station, then boot_station: every link of b is  *)
(* cut.                                                                    *)
BecomeStation(b) ==
  /\ access_point' = [access_point EXCEPT ![b] = FALSE]
  /\ assoc' = [a \in Boards |->
                 IF a = b \/ assoc[a] = b THEN NONE ELSE assoc[a]]

(* The end of the thread's pass: neighbor finding is over for a board that *)
(* knows its neighbors and is back in access point mode.                   *)
EndPass(b, newPhase) ==
  /\ pc' = [pc EXCEPT ![b] = "poll"]
  /\ phase' = [phase EXCEPT
                 ![b] = IF newPhase = "nb_finding" /\ knows_nbrs'[b]
                           /\ access_point'[b]
                        THEN "nothing" ELSE newPhase]
  /\ due' = [due EXCEPT ![b] = new_udp_recv_s[b] > 0]
  /\ UNCHANGED <<recv_data, new_udp_recv_s, ackVars, todo>>

(* boot_ap, under the SSID that the board has by now *)
BootAp(b) ==
  /\ access_point' = [access_point EXCEPT ![b] = TRUE]
  /\ assoc' = [assoc EXCEPT ![b] = NONE]
  /\ wifi_ssid' = [wifi_ssid EXCEPT ![b] = ID[b]]

EnableAp(b) ==
  /\ Wake(b, ENABLE_AP)
  /\ signal_connect_thread' = [signal_connect_thread EXCEPT ![b] = FALSE]
  /\ IF access_point[b] THEN UNCHANGED <<access_point, assoc, wifi_ssid>>
     ELSE BootAp(b)
  /\ UNCHANGED <<ID, parent_ID, knows_nbrs, ID_is_nbr, dist_vector,
                 routing_table, nbrs, target_ID, next_dv_scan, joining,
                 pidogs_found, sendVars, faults>>
  /\ EndPass(b, phase[b])

(* Mutant of NoScan: the deadline stays. *)
NoScanKept(b) == UNCHANGED next_dv_scan

NoScan(b) == next_dv_scan' = [next_dv_scan EXCEPT ![b] = "never"]

(* Mutant of AllUpToDate: one neighbor is enough. *)
AllUpToDateOne(b) ==
  /\ phase[b] = "dv_routing"
  /\ \E h \in DOMAIN nbrs[b] : nbrs[b][h].up_to_date

(* num_unupdated_nbrs is 0 in an exchange. *)
AllUpToDate(b) ==
  /\ phase[b] = "dv_routing"
  /\ \A h \in DOMAIN nbrs[b] : nbrs[b][h].up_to_date

(* All neighbors have my vector: stop scanning until it changes.           *)
EndRouting(b) ==
  /\ Wake(b, DV_SCAN)
  /\ AllUpToDate(b)
  /\ BecomeStation(b)
  /\ NoScan(b)
  /\ Retarget(b, ENABLE_AP)
  /\ UNCHANGED <<selfVars, joining, pidogs_found, sendVars, faults>>
  /\ EndPass(b, "nothing")

(* Station mode, and the blocking part begins.                             *)
Block(b, t, where) ==
  /\ Wake(b, t)
  /\ BecomeStation(b)
  /\ target_ID' = [target_ID EXCEPT ![b] = t]
  /\ signal_connect_thread' = [signal_connect_thread EXCEPT ![b] = FALSE]
  /\ pc' = [pc EXCEPT ![b] = where]
  /\ UNCHANGED <<selfVars, phase, next_dv_scan, joining, pidogs_found,
                 sendVars, recvVars, ackVars, envVars>>

StartDvScan(b) ==
  /\ ~ AllUpToDate(b)
  /\ Block(b, DV_SCAN, "dv_scan")

StartNfScan(b) == Block(b, NF_SCAN, "nf_scan")

StartJoin(b) == \E id \in IDs : Block(b, id, "join")

(* scan_wifi: the access points in range, by SSID                          *)
Visible(b) == {a \in InRange[b] : access_point[a]}
PicoIDs(b) == {wifi_ssid[a] : a \in Visible(b)} \ {PIDOG}
Pidogs(b) == {a \in Visible(b) : wifi_ssid[a] = PIDOG}

(* vector_routing_scan_callback: the neighbors that need my vector and are *)
(* hosting.  With none found yet it compares with routing_scan_result =    *)
(* NULL, whose last_contact is read from the boot ROM and exceeds every    *)
(* time since boot.                                                        *)
NeedVector(b) ==
  {h \in PicoIDs(b) \cap DOMAIN nbrs[b] : ~ nbrs[b][h].up_to_date}

(* Mutant of DvFor: no poisoned reverse *)
DvForUnpoisoned(b, h) == [Packet("dv", h, ID[b], b) EXCEPT !.dv = dist_vector[b]]

DvFor(b, h) ==
  [Packet("dv", h, ID[b], b) EXCEPT
     !.dv = Poisoned(dist_vector[b], routing_table[b], h)]

DvScanFound(b, h) ==
  /\ pc[b] = "dv_scan"
  /\ h \in NeedVector(b)
  /\ Enqueue(b, DvFor(b, h))
  /\ Retarget(b, h)
  /\ next_dv_scan' = [next_dv_scan EXCEPT ![b] = "later"]
  /\ UNCHANGED <<selfVars, radioVars, joining, pidogs_found, faults>>
  /\ EndPass(b, phase[b])

(* There is nobody, or the scan does not start and routing_scan_result     *)
(* stays NULL.                                                             *)
DvScanNobody(b) ==
  /\ pc[b] = "dv_scan"
  /\ (NeedVector(b) = {} /\ UNCHANGED faults) \/ Fault
  /\ Retarget(b, ENABLE_AP)
  /\ next_dv_scan' = [next_dv_scan EXCEPT ![b] = "later"]
  /\ UNCHANGED <<selfVars, radioVars, joining, pidogs_found, sendVars>>
  /\ EndPass(b, phase[b])

(* An access point that is about to be there again: that of a neighbor     *)
(* whose token was just acknowledged                                       *)
Returning(a) ==
  /\ ~ access_point[a]
  /\ \/ recv_data[a] # NONE
     \/ signal_connect_thread[a] /\ target_ID[a] = ENABLE_AP

(* Mutant of AwaitAps: the scan does not wait. *)
AwaitApsNot(b) == UNCHANGED faults

(* The wait of AP_BOOT_TIME before the scan is long enough for all of them *)
(* but by a fault.                                                         *)
AwaitAps(b) ==
  IF \E a \in InRange[b] : Returning(a)
  THEN Fault ELSE UNCHANGED faults

(* connect_to_network begins, with the SSID in target_ssid.                *)
BeginNfJoin(b, network) ==
  /\ joining' = [joining EXCEPT ![b] = network]
  /\ pc' = [pc EXCEPT ![b] = "nf_join"]
  /\ UNCHANGED <<ID, parent_ID, wifi_ssid, knows_nbrs, dist_vector,
                 routing_table, nbrs, radioVars, phase, target_ID,
                 signal_connect_thread, next_dv_scan, sendVars, recvVars,
                 ackVars, todo>>

(* nbr_finding_scan_callback: every picow seen is a neighbor; any pidog    *)
(* seen may be the last one reported, and is joined.                       *)
NfScanFound(b, a) ==
  /\ pc[b] = "nf_scan"
  /\ AwaitAps(b)
  /\ a \in Pidogs(b)
  /\ ID_is_nbr' = [ID_is_nbr EXCEPT ![b] = @ \cup PicoIDs(b)]
  /\ pidogs_found' = [pidogs_found EXCEPT ![b] = TRUE]
  /\ BeginNfJoin(b, a)

(* Mutant of TokenTarget: everyone keeps the token. *)
TokenTargetNone(b) == ENABLE_AP

TokenTarget(b) == IF ID[b] = MASTER_ID THEN ENABLE_AP ELSE parent_ID[b]

(* No pidog left: record the neighbors, once, and hand the token back; the *)
(* master keeps it.                                                        *)
NobodyLeft(b, found) ==
  /\ ID_is_nbr' = [ID_is_nbr EXCEPT ![b] = found]
  /\ knows_nbrs' = [knows_nbrs EXCEPT ![b] = TRUE]
  /\ IF knows_nbrs[b] THEN UNCHANGED <<dist_vector, routing_table, nbrs>>
     ELSE /\ dist_vector' =
               [dist_vector EXCEPT ![b] = InitVector(@, ID[b], found)]
          /\ routing_table' =
               [routing_table EXCEPT ![b] = InitTable(@, found)]
          /\ nbrs' = [nbrs EXCEPT ![b] = [h \in found |-> NewNbr]]
  /\ Retarget(b, TokenTarget(b))
  /\ IF ID[b] = MASTER_ID THEN Dequeue(b) ELSE UNCHANGED sendVars
  /\ UNCHANGED <<ID, parent_ID, wifi_ssid, radioVars, next_dv_scan, joining>>
  /\ EndPass(b, phase[b])

NfScanNobody(b) ==
  /\ pc[b] = "nf_scan"
  /\ AwaitAps(b)
  /\ Pidogs(b) = {}
  /\ pidogs_found' = [pidogs_found EXCEPT ![b] = FALSE]
  /\ NobodyLeft(b, ID_is_nbr[b] \cup PicoIDs(b))

(* The scan does not start.  Nothing is seen, pidogs_found is that of the  *)
(* scan before, and the SSID to join is that of nobody.                    *)
NfScanFails(b) ==
  /\ pc[b] = "nf_scan"
  /\ Fault
  /\ UNCHANGED pidogs_found
  /\ IF pidogs_found[b] THEN BeginNfJoin(b, NONE) /\ UNCHANGED ID_is_nbr
     ELSE NobodyLeft(b, ID_is_nbr[b])

(* connect_to_network: joins an access point that is there, or fails after *)
(* 30 seconds without one, or by a fault.                                  *)
Joined(b, a) ==
  /\ assoc' = [assoc EXCEPT ![b] = a]
  /\ UNCHANGED <<access_point, faults>>

JoinFails(b, networks) ==
  /\ UNCHANGED radioVars
  /\ \/ networks = {} /\ UNCHANGED faults
     \/ networks # {} /\ Fault

(* After a neighbor-finding scan the outcome is not looked at.             *)
NfJoin(b) ==
  LET networks == {joining[b]} \cap Pidogs(b) IN
  /\ pc[b] = "nf_join"
  /\ (\E a \in networks : Joined(b, a)) \/ JoinFails(b, networks)
  /\ joining' = [joining EXCEPT ![b] = NONE]
  /\ UNCHANGED <<selfVars, target_ID, signal_connect_thread, next_dv_scan,
                 pidogs_found, sendVars>>
  /\ EndPass(b, phase[b])

Networks(b) == {a \in Visible(b) : wifi_ssid[a] = target_ID[b]}

Join(b) ==
  /\ pc[b] = "join"
  /\ \E a \in Networks(b) : Joined(b, a)
  /\ UNCHANGED <<selfVars, target_ID, signal_connect_thread, next_dv_scan,
                 joining, pidogs_found, sendVars>>
  /\ EndPass(b, phase[b])

JoinTimeout(b) ==
  /\ pc[b] = "join"
  /\ JoinFails(b, Networks(b))
  /\ Retarget(b, ENABLE_AP)
  /\ next_dv_scan' =
       [next_dv_scan EXCEPT ![b] = IF phase[b] = "dv_routing" THEN "later"
                                                              ELSE @]
  /\ UNCHANGED <<selfVars, joining, pidogs_found, sendVars>>
  /\ EndPass(b, phase[b])

(* main() of the master: a scan and a join before the threads start        *)
MasterBoot(b) ==
  /\ pc[b] = "boot"
  /\ \/ /\ pidogs_found' = [pidogs_found EXCEPT ![b] = Pidogs(b) # {}]
        /\ (\E a \in Pidogs(b) : Joined(b, a)) \/ JoinFails(b, Pidogs(b))
     \/ Fault /\ UNCHANGED <<radioVars, pidogs_found>>
  /\ pc' = [pc EXCEPT ![b] = "poll"]
  /\ UNCHANGED <<selfVars, phase, target_ID, signal_connect_thread,
                 next_dv_scan, joining, sendVars, recvVars, ackVars, todo>>

-----------------------------------------------------------------------------
Recv(b) == RecvData(b) \/ RecvAck(b) \/ RecvAckDv(b) \/ RecvToken(b) \/ RecvDv(b)

Connect(b) == \/ EnableAp(b) \/ EndRouting(b)
              \/ StartDvScan(b) \/ StartNfScan(b) \/ StartJoin(b)

DvScanDone(b) == (\E h \in IDs : DvScanFound(b, h)) \/ DvScanNobody(b)
NfScanDone(b) == \/ \E a \in Boards : NfScanFound(b, a)
                 \/ NfScanNobody(b) \/ NfScanFails(b)

Unblock(b) == \/ DvScanDone(b) \/ NfScanDone(b)
              \/ NfJoin(b) \/ Join(b) \/ JoinTimeout(b) \/ MasterBoot(b)

Next == \E b \in Boards :
  \/ Send(b) \/ Recv(b) \/ Ack(b)
  \/ \E c \in Commands : Serial(b, c)
  \/ Connect(b) \/ Unblock(b)

SpecBoot == InitBoot /\ [][Next]_vars

SpecRouted == InitRouted /\ [][Next]_vars

(* The round robin scheduler calls every thread again and again, scans and *)
(* joins come to an end, deadlines pass.  Nobody has to type anything.     *)
Scheduled == \A b \in Boards :
  /\ WF_vars(Send(b)) /\ WF_vars(Recv(b)) /\ WF_vars(Ack(b))
  /\ WF_vars(Connect(b)) /\ WF_vars(Unblock(b))

(* Scans of two boards do not stay in step forever, each missing the       *)
(* other's access point: this is what the random cooldown between scans is *)
(* for (main.c:307-309), and strong fairness of its lucky outcomes says    *)
(* that it works.                                                          *)
OutOfStep == \A b \in Boards :
  /\ SF_vars(StartDvScan(b) /\ NeedVector(b) # {})
  /\ SF_vars(\E h \in IDs : DvScanFound(b, h))
  /\ SF_vars(Join(b))

Fairness == Scheduled /\ OutOfStep

FairRouted == SpecRouted /\ Fairness
-----------------------------------------------------------------------------
(* Neighbor finding                                                        *)

HoldsToken(p) == p # NONE /\ p.type = "token"

(* At most one board holds the token: it is sent on, handed back or kept   *)
(* by the master, and no packet buffer still has a copy that could be sent *)
(* or looked at again (main.c:333-360, 651-686).                           *)
UniqueToken ==
  Cardinality({b \in Boards : HoldsToken(send_queue[b])})
    + Cardinality({b \in Boards : HoldsToken(recv_data[b])}) <= 1

(* No two boards have the same ID, and the token's number is the ID of     *)
(* none of them when a board without ID takes it (main.c:660-664).         *)
UniqueIDs ==
  /\ \A a, b \in Boards : a # b /\ ID[a] = ID[b] => ID[a] = DEFAULT_ID
  /\ \A b \in Boards :
       HoldsToken(recv_data[b]) /\ ID[b] = DEFAULT_ID
         => \A a \in Boards : ID[a] # recv_data[b].num

(* The token in the program: in a send queue, or in a receive buffer with  *)
(* its sender's ID                                                         *)
Board(id) == CHOOSE b \in Boards : ID[b] = id

Tokens ==
  {[at |-> b, num |-> send_queue[b].num] :
     b \in {a \in Boards : HoldsToken(send_queue[a])}}
  \cup
  {[at |-> Board(recv_data[b].src), num |-> recv_data[b].num] :
     b \in {a \in Boards : HoldsToken(recv_data[a])}}

Walk == INSTANCE TokenWalk WITH
  Master <- 0, tokens <- Tokens, started <- todo \cap TokenCommands = {}

(* From power-up, the threads and the radio, with whatever is lost on the  *)
(* way, implement the walk of one token (main.c:333-360, 651-686).         *)
ImplementsWalk == Walk!Spec

(* A board that believes to know its neighbors knows all that are in       *)
(* range, not only its parent and children: each of them had an ID and     *)
(* hosted an access point when it made its last scan, unless something     *)
(* went wrong on the radio (wifi_scan.c:86-113, main.c:333-360).           *)
NeighborsComplete ==
  faults = 0 =>
    \A b \in Boards :
      knows_nbrs[b] => DOMAIN nbrs[b] = {ID[a] : a \in InRange[b]}

(* The token visits every board and returns to the master, and then every  *)
(* board knows its neighbors, hosts its access point and has nothing left  *)
(* to do, unless something went wrong on the radio.  If the token met the  *)
(* boards in their order, this is the state InitRouted starts from.        *)
AtRest == Idle /\ \A b \in Boards : access_point[b] /\ pc[b] = "poll"

NeighborFindingEnds ==
  todo \cap TokenCommands # {} =>
    ((todo = {}) ~> \/ faults > 0
                    \/ [](/\ AtRest
                          /\ \A b \in Boards : knows_nbrs[b]
                          /\ (\A b \in Boards : ID[b] = b) => NeighborsFound))

(* The distance-vector exchange                                            *)

(* A neighbor that a board looks up was found by it: str_to_dv, the ack of *)
(* a vector and vector_routing_scan_callback dereference nbrs[id] without  *)
(* a look (distance_vector.c:116-126, main.c:637, wifi_scan.c:176-178).    *)
NoNullNeighbor ==
  \A b \in Boards :
    /\ recv_data[b] # NONE
         /\ (recv_data[b].type = "dv" \/ recv_data[b].acked = "dv")
         => recv_data[b].src \in DOMAIN nbrs[b]
    /\ pc[b] = "dv_scan" => PicoIDs(b) \subseteq DOMAIN nbrs[b]

(* What node.h:21 asks: "Is this nbr up-to-date on my DV?"  If the flag is *)
(* set, the neighbor (board h has ID h) holds what it would be sent now.   *)
UpToDateMeansHolds ==
  \A b \in Boards : \A h \in DOMAIN nbrs[b] :
    nbrs[b][h].up_to_date
      => nbrs[h][b].dist_vector = Poisoned(dist_vector[b], routing_table[b], h)

(* What main.c:281 says of a board whose neighbors all have its vector:    *)
(* "Don't scan anymore until your DV updates".  A board that was not told  *)
(* to start an exchange scans only as long as it takes part in one.        *)
NoScanAfterRouting ==
  [][\A b \in Boards :
       pc[b] = "poll" /\ pc'[b] = "dv_scan"
         => \/ phase[b] = "dv_routing"
            \/ \E c \in Commands \ todo : c.board = b /\ c.kind = "dv"]_vars

(* Whatever was typed, and whatever packet or join was lost on the way,    *)
(* the boards come to rest: no packet, signal, scan or neighbor is left    *)
(* over, and all can be reached again.                                     *)
ComesToRest == (todo = {}) ~> []AtRest
=============================================================================
