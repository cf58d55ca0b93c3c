---------------------------- MODULE UdpSendRecv ----------------------------
(***************************************************************************)
(* The demo UDP/udp_send_recv: an access point and a station that send     *)
(* each other the lines typed at them, and acknowledge what they get.  The *)
(* other demos of UDP/ grew from it and differ in how they boot, in their  *)
(* addresses and, one of them, in the core that sends; they extend this    *)
(* module.  The variable demo tells which of the programs runs.            *)
(*                                                                         *)
(* Core 0 calls the threads in turn: send, recv, ack, serial.  A pass of a *)
(* thread is one action, but for the recv thread, whose pass is cut where  *)
(* the receive interrupt makes a difference: before and after the          *)
(* decrement of its semaphore, and before and amid its copy of the packet. *)
(* Core 1 blinks the LED.  Packets reach a board by interrupt.             *)
(*                                                                         *)
(* A message is typed once, so it stands for the timestamp it is sent      *)
(* with.  What an lwIP call does when it is interrupted by one is left out *)
(* (the calls of cyw43_arch_lwip_begin are commented out).                 *)
(***************************************************************************)
EXTENDS Integers, FiniteSets

CONSTANTS
  Demos,      \* the programs to look at
  Stations,   \* Stations[demo]: the boards flashed as stations; 0 hosts
  Lines,      \* Lines[demo]: the lines to type, as <<board, message>>
  TEST,       \* the message "???"
  MaxFaults,  \* bound on what goes wrong on the radio
  NONE        \* no packet, no network, a field that is garbled

ASSUME CountsAssumption ==
  MaxFaults \in Nat /\ \A d \in Demos : IsFiniteSet(Lines[d])

AP == 0
Boards == 0 .. 2
Messages == UNION {{l[2] : l \in Lines[d]} : d \in Demos}

AP_ADDR      == "192.168.4.1"
STATION_ADDR == "192.168.4.10"
NO_ADDR      == "255.255.255.255"
Addresses == {AP_ADDR, STATION_ADDR, "192.168.4.11", "192.168.4.12", NO_ADDR}

VARIABLES
  demo,
  main,                        \* how far main() has come
  ssid,                        \* the network a station looks for
  assoc,                       \* the network it has joined
  my_addr, dest_addr_str, packet_counter,
  send_data, new_udp_send_s,
  recv_data, new_udp_recv_s,
  recv_pc, count_read,         \* the recv thread within its pass
  tbuf,                        \* the packet it copies
  return_data,                 \* return_addr_str, _ack_number, _timestamp
  new_udp_ack_s,
  led_flag, led, led_alarm,    \* led_alarm: the alarm is running
  core_1,                      \* how far core 1 is in its loop
  todo,                        \* lines not typed yet
  faults,                      \* radio faults so far
  fresh,                       \* the packet in recv_data was never looked at
  sent, acked, lost            \* what became of the messages

bootVars == <<demo, main, ssid, assoc, my_addr, dest_addr_str>>
sendVars == <<packet_counter, send_data, new_udp_send_s, sent>>
recvVars == <<recv_data, new_udp_recv_s, fresh, tbuf, lost>>
passVars == <<recv_pc, count_read>>
ackVars == <<return_data, new_udp_ack_s>>
ledVars == <<led_flag, led, led_alarm, core_1>>
vars == <<bootVars, sendVars, recvVars, passVars, ackVars, ledVars, todo,
          faults, acked>>

(* How many packets of data the boards can send: one for a line.  In the   *)
(* demo on two cores a signal may undo all that the send thread has        *)
(* decremented since the count was loaded, and a packet is sent again.     *)
MaxSent ==
  LET n == Cardinality(Lines[demo])
  IN  IF demo = "multicore" THEN (n * (n + 1)) \div 2 ELSE n

Number == 0 .. MaxSent
Stamp == Messages \cup {NONE}

(* torn is no part of the packet: whether it, or what it acknowledges, was *)
(* put together from two.                                                  *)
Packet == [type : {"data", "ack", "other"}, src : Addresses,
           num : Number \cup {NONE}, msg : Stamp, torn : BOOLEAN]
(* The message of a packet, if it can be told                              *)
Names(p) == {p.msg} \ {NONE}

Count == Number

TypeOK ==
  /\ demo \in Demos
  /\ main \in [Boards -> {"off", "init", "scan", "join", "net", "callback",
                          "threads", "ended"}]
  /\ ssid \in [Boards -> {"ap", "foreign", NONE}]
  /\ assoc \in [Boards -> {"ap", "foreign", NONE}]
  /\ my_addr \in [Boards -> Addresses]
  /\ dest_addr_str \in [Boards -> Addresses]
  /\ packet_counter \in [Boards -> Number]
  /\ send_data \in [Boards -> Stamp]
  /\ new_udp_send_s \in [Boards -> Count]
  /\ sent \in [Boards -> SUBSET (Number \X Messages)]
  /\ recv_data \in [Boards -> Packet \cup {NONE}]
  /\ new_udp_recv_s \in [Boards -> Count]
  /\ fresh \in [Boards -> BOOLEAN]
  /\ tbuf \in [Boards -> Packet \cup {NONE}]
  /\ lost \subseteq Messages
  /\ recv_pc \in [Boards -> {"wait", "loaded", "read", "copy"}]
  /\ count_read \in [Boards -> Count]
  /\ return_data \in [Boards -> Packet \cup {NONE}]
  /\ new_udp_ack_s \in [Boards -> 0 .. 1]
  /\ led_flag \in [Boards -> BOOLEAN]
  /\ led \in [Boards -> BOOLEAN]
  /\ led_alarm \in [Boards -> BOOLEAN]
  /\ core_1 \in [Boards -> {"poll", "on", "armed"}]
  /\ todo \subseteq Lines[demo]
  /\ faults \in 0 .. MaxFaults
  /\ acked \in [Boards -> SUBSET Messages]

Init ==
  /\ demo \in Demos
  /\ main = [b \in Boards |-> IF b \in Stations[demo] \cup {AP} THEN "init"
                              ELSE "off"]
  /\ ssid = [b \in Boards |-> NONE]
  /\ assoc = [b \in Boards |-> NONE]
  /\ my_addr = [b \in Boards |-> NO_ADDR]
  /\ dest_addr_str = [b \in Boards |-> NO_ADDR]
  /\ packet_counter = [b \in Boards |-> 0]
  /\ send_data = [b \in Boards |-> NONE]
  /\ new_udp_send_s = [b \in Boards |-> 0]
  /\ sent = [b \in Boards |-> {}]
  /\ recv_data = [b \in Boards |-> NONE]
  /\ new_udp_recv_s = [b \in Boards |-> 0]
  /\ fresh = [b \in Boards |-> FALSE]
  /\ tbuf = [b \in Boards |-> NONE]
  /\ lost = {}
  /\ recv_pc = [b \in Boards |-> "wait"]
  /\ count_read = [b \in Boards |-> 0]
  /\ return_data = [b \in Boards |-> NONE]
  /\ new_udp_ack_s = [b \in Boards |-> 0]
  /\ led_flag = [b \in Boards |-> FALSE]
  /\ led = [b \in Boards |-> FALSE]
  /\ led_alarm = [b \in Boards |-> FALSE]
  /\ core_1 = [b \in Boards |-> "poll"]
  /\ todo = Lines[demo]
  /\ faults = 0
  /\ acked = [b \in Boards |-> {}]

Fault == faults < MaxFaults /\ faults' = faults + 1

-----------------------------------------------------------------------------
(* main()                                                                  *)
Boot(b, from, to) == main[b] = from /\ main' = [main EXCEPT ![b] = to]

Address(b, mine, dest) ==
  /\ my_addr' = [my_addr EXCEPT ![b] = mine]
  /\ dest_addr_str' = [dest_addr_str EXCEPT ![b] = dest]

NoThreads == UNCHANGED <<demo, sendVars, passVars, ackVars, ledVars, todo, acked>>

EnableAp(dest) ==
  /\ Boot(AP, "init", "net")
  /\ Address(AP, AP_ADDR, dest)
  /\ UNCHANGED <<ssid, assoc, recvVars, faults>>
  /\ NoThreads

(* The station waits a second and looks for its network.                   *)
EnableStation(b) ==
  /\ b \in Stations[demo]
  /\ Boot(b, "init", "join")
  /\ ssid' = [ssid EXCEPT ![b] = "ap"]
  /\ UNCHANGED <<assoc, my_addr, dest_addr_str, recvVars, faults>>
  /\ NoThreads

Hosting == main[AP] # "init"

(* It joins, and replaces the address that DHCP gave it.                   *)
Join(b, mine) ==
  /\ Boot(b, "join", "net")
  /\ ssid[b] = "ap" => Hosting
  /\ ssid[b] # NONE
  /\ assoc' = [assoc EXCEPT ![b] = ssid[b]]
  /\ Address(b, mine, AP_ADDR)
  /\ UNCHANGED <<ssid, recvVars, faults>>
  /\ NoThreads

(* After 30 s without success the program is over.                         *)
JoinFails(b) ==
  /\ Boot(b, "join", "ended")
  /\ IF ssid[b] = "ap" /\ Hosting THEN Fault ELSE UNCHANGED faults
  /\ UNCHANGED <<ssid, assoc, my_addr, dest_addr_str, recvVars>>
  /\ NoThreads

RegisterCallback(b) ==
  /\ Boot(b, "net", "callback")
  /\ UNCHANGED <<ssid, assoc, my_addr, dest_addr_str, recvVars, faults>>
  /\ NoThreads

(* A packet that came before is forgotten.                                 *)
InitSemaphores(b) ==
  /\ Boot(b, "callback", "threads")
  /\ new_udp_recv_s' = [new_udp_recv_s EXCEPT ![b] = 0]
  /\ fresh' = [fresh EXCEPT ![b] = FALSE]
  /\ lost' = lost \cup (IF fresh[b] THEN Names(recv_data[b]) ELSE {})
  /\ UNCHANGED <<ssid, assoc, my_addr, dest_addr_str, recv_data, tbuf, faults>>
  /\ NoThreads

-----------------------------------------------------------------------------
(* The board, if any, that b reaches at an address, over the access point  *)
(* they share.                                                             *)
Linked(b) == IF b = AP THEN Hosting ELSE assoc[b] = "ap"

Reached(b, addr) ==
  {a \in Boards \ {b} : /\ Linked(a) /\ Linked(b)
                        /\ my_addr[a] = addr
                        /\ main[a] \in {"callback", "threads"}}

Garbage ==
  [type |-> "other", src |-> NO_ADDR, num |-> NONE, msg |-> NONE, torn |-> TRUE]

(* What the recv thread's sprintf makes of packet p when q overwrites it   *)
(* meanwhile.  It reads from front to back: the fields before some place   *)
(* are p's.  From there on each is q's, or garbled: it was cut, or the     *)
(* headers differ in length.  Those of one type that a board gets have     *)
(* addresses of one length.                                                *)
Torn(p, q) ==
  LET Cut(src, nums) == [type : {p.type}, src : {src}, num : nums,
                         msg : {q.msg, NONE}, torn : {TRUE}]
      Garbled == IF p.type = q.type /\ p.num = q.num THEN {} ELSE {NONE}
  IN  {p, q, Garbage} \cup Cut(q.src, {q.num})
      \cup Cut(NO_ADDR, {q.num, NONE})
      \cup Cut(p.src, {p.num, q.num} \cup Garbled)

(* The messages that an arrival at board a puts an end to: nobody will     *)
(* look at them, or not as they were sent.                                 *)
Overwritten(a) == IF fresh[a] THEN Names(recv_data[a]) ELSE {}
Spoiled(a) == IF tbuf'[a] # tbuf[a] THEN Names(tbuf[a]) ELSE {}

(* udp_recv_callback: the buffer has one place, and whatever was in it is  *)
(* overwritten, be it amid the recv thread's copy.                         *)
Callback(a, p) ==
  /\ recv_data' = [recv_data EXCEPT ![a] = p]
  /\ new_udp_recv_s' = [new_udp_recv_s EXCEPT ![a] = @ + 1]
  /\ fresh' = [fresh EXCEPT ![a] = TRUE]
  /\ IF recv_pc[a] = "copy"
     THEN \E t \in Torn(tbuf[a], p) : tbuf' = [tbuf EXCEPT ![a] = t]
     ELSE UNCHANGED tbuf
  /\ lost' = lost \cup Overwritten(a) \cup Spoiled(a)

(* The callback of the demo on two cores blinks the LED, too.              *)
CallbackBlinks(a) ==
  IF demo = "multicore"
  THEN /\ led' = [led EXCEPT ![a] = TRUE]
       /\ led_alarm' = [led_alarm EXCEPT ![a] = TRUE]
  ELSE UNCHANGED <<led, led_alarm>>

Transmit(b, addr, p) ==
  \/ \E a \in Reached(b, addr) :
       Callback(a, p) /\ CallbackBlinks(a) /\ UNCHANGED faults
  \/ /\ IF Reached(b, addr) = {} THEN UNCHANGED faults ELSE Fault
     /\ lost' = lost \cup Names(p)
     /\ UNCHANGED <<recv_data, new_udp_recv_s, fresh, tbuf, led, led_alarm>>

(* Core 0 is free for another thread, and it is not the ack thread's turn. *)
Turn(b) ==
  main[b] = "threads" /\ recv_pc[b] = "wait" /\ new_udp_ack_s[b] = 0

Data(b, msg) ==
  IF msg = TEST
  THEN [type |-> "other", src |-> NO_ADDR, num |-> 0, msg |-> msg,
        torn |-> FALSE]
  ELSE [type |-> "data", src |-> my_addr[b], num |-> packet_counter[b],
        msg |-> msg, torn |-> FALSE]

(* protothread_udp_send.  udp_sendto may fail; the message is gone then    *)
(* and its number is used again.                                           *)
SendWait(b) ==
  /\ Turn(b)
  /\ new_udp_send_s[b] > 0
  /\ new_udp_send_s' = [new_udp_send_s EXCEPT ![b] = @ - 1]
  /\ UNCHANGED <<bootVars, send_data, passVars, ackVars, led_flag, core_1,
                 todo, acked>>

Send(b) ==
  /\ SendWait(b)
  /\ Transmit(b, dest_addr_str[b], Data(b, send_data[b]))
  /\ sent' = [sent EXCEPT ![b] = @ \cup {<<packet_counter[b], send_data[b]>>}]
  /\ packet_counter' = [packet_counter EXCEPT ![b] = @ + 1]

SendFails(b) ==
  /\ SendWait(b)
  /\ Fault
  /\ UNCHANGED <<packet_counter, sent, recvVars, led, led_alarm>>

(* Mutant of RecvLoad: off by one. *)
RecvLoadAboveOne(b) ==
  /\ Turn(b)
  /\ new_udp_recv_s[b] > 1
  /\ count_read' = [count_read EXCEPT ![b] = new_udp_recv_s[b]]
  /\ recv_pc' = [recv_pc EXCEPT ![b] = "loaded"]
  /\ UNCHANGED <<bootVars, sendVars, recvVars, ackVars, ledVars, todo, faults,
                 acked>>

(* PT_SEM_WAIT of the recv thread: the test, and the two halves of the     *)
(* decrement.                                                              *)
RecvLoad(b) ==
  /\ Turn(b)
  /\ new_udp_recv_s[b] > 0
  /\ count_read' = [count_read EXCEPT ![b] = new_udp_recv_s[b]]
  /\ recv_pc' = [recv_pc EXCEPT ![b] = "loaded"]
  /\ UNCHANGED <<bootVars, sendVars, recvVars, ackVars, ledVars, todo, faults,
                 acked>>

(* Mutant of RecvStore: the count goes down by two. *)
RecvStoreTwo(b) ==
  /\ recv_pc[b] = "loaded"
  /\ new_udp_recv_s' = [new_udp_recv_s EXCEPT ![b] = count_read[b] - 2]
  /\ recv_pc' = [recv_pc EXCEPT ![b] = "read"]
  /\ UNCHANGED <<bootVars, sendVars, recv_data, fresh, tbuf, lost, count_read,
                 ackVars, ledVars, todo, faults, acked>>

RecvStore(b) ==
  /\ recv_pc[b] = "loaded"
  /\ new_udp_recv_s' = [new_udp_recv_s EXCEPT ![b] = count_read[b] - 1]
  /\ recv_pc' = [recv_pc EXCEPT ![b] = "read"]
  /\ UNCHANGED <<bootVars, sendVars, recv_data, fresh, tbuf, lost, count_read,
                 ackVars, ledVars, todo, faults, acked>>

(* Mutant of Acknowledge: the ack thread is not signalled. *)
AcknowledgeLater(b, p) ==
  /\ return_data' = [return_data EXCEPT ![b] = p]
  /\ UNCHANGED new_udp_ack_s

(* What is left of protothread_udp_recv: the copy is looked at; data is to *)
(* be acknowledged, an ack is printed.                                     *)
Acknowledge(b, p) ==
  /\ return_data' = [return_data EXCEPT ![b] = p]
  /\ new_udp_ack_s' = [new_udp_ack_s EXCEPT ![b] = @ + 1]

PrintAck(b, p) ==
  acked' = [acked EXCEPT ![b] = IF p.type = "ack" THEN @ \cup Names(p) ELSE @]

(* sprintf(tbuf, recv_data) begins                                         *)
RecvCopy(b) ==
  /\ recv_pc[b] = "read"
  /\ recv_pc' = [recv_pc EXCEPT ![b] = "copy"]
  /\ tbuf' = [tbuf EXCEPT ![b] = recv_data[b]]
  /\ fresh' = [fresh EXCEPT ![b] = FALSE]
  /\ UNCHANGED <<bootVars, sendVars, recv_data, new_udp_recv_s, lost,
                 count_read, ackVars, ledVars, todo, faults, acked>>

(* It ends. *)
Copied(b) ==
  /\ recv_pc[b] = "copy"
  /\ recv_pc' = [recv_pc EXCEPT ![b] = "wait"]
  /\ tbuf' = [tbuf EXCEPT ![b] = NONE]
  /\ PrintAck(b, tbuf[b])
  /\ UNCHANGED <<bootVars, sendVars, recv_data, new_udp_recv_s, fresh, lost,
                 count_read, led, led_alarm, core_1, todo, faults>>

RecvRead(b) ==
  /\ Copied(b)
  /\ IF tbuf[b].type = "data"
     THEN /\ Acknowledge(b, tbuf[b])
          /\ led_flag' = [led_flag EXCEPT ![b] = TRUE]
     ELSE UNCHANGED <<ackVars, led_flag>>

(* Mutant of AckFor: the ack carries the sender's own count. *)
AckForCounter(b) ==
  [type |-> "ack", src |-> my_addr[b], num |-> packet_counter[b],
   msg |-> return_data[b].msg, torn |-> return_data[b].torn]

AckFor(b) ==
  [type |-> "ack", src |-> my_addr[b], num |-> return_data[b].num,
   msg |-> return_data[b].msg, torn |-> return_data[b].torn]

(* protothread_udp_ack *)
Ack(b) ==
  /\ main[b] = "threads" /\ recv_pc[b] = "wait"
  /\ new_udp_ack_s[b] > 0
  /\ new_udp_ack_s' = [new_udp_ack_s EXCEPT ![b] = @ - 1]
  /\ Transmit(b, return_data[b].src, AckFor(b))
  /\ UNCHANGED <<bootVars, sendVars, passVars, return_data, led_flag, core_1,
                 todo, acked>>

(* pt_serialin_polled hands the thread a line that was typed up to Enter.  *)
TypedLine(b, l) == l \in todo /\ l[1] = b /\ todo' = todo \ {l}

(* protothread_serial.  A line takes it 100 ms and more, so the one before *)
(* has been sent.                                                          *)
Serial(b) ==
  /\ Turn(b)
  /\ new_udp_send_s[b] = 0
  /\ \E l \in Lines[demo] :
       /\ TypedLine(b, l)
       /\ send_data' = [send_data EXCEPT ![b] = l[2]]
  /\ new_udp_send_s' = [new_udp_send_s EXCEPT ![b] = @ + 1]
  /\ UNCHANGED <<bootVars, packet_counter, sent, recvVars, passVars, ackVars,
                 ledVars, faults, acked>>

-----------------------------------------------------------------------------
(* core_1_main: the LED on, the alarm set anew, the flag down.  The alarm  *)
(* may go off in between.                                                  *)
NotLed == UNCHANGED <<bootVars, sendVars, recvVars, passVars, ackVars, todo,
                      faults, acked>>

LedOn(b) ==
  /\ core_1[b] = "poll" /\ led_flag[b]
  /\ led' = [led EXCEPT ![b] = TRUE]
  /\ core_1' = [core_1 EXCEPT ![b] = "on"]
  /\ UNCHANGED <<led_flag, led_alarm>>
  /\ NotLed

(* Mutant of RestartAlarm: an alarm that is running is only cancelled. *)
RestartAlarmNot(b) ==
  /\ core_1[b] = "on"
  /\ led_alarm' = [led_alarm EXCEPT ![b] = ~ @]
  /\ core_1' = [core_1 EXCEPT ![b] = "armed"]
  /\ UNCHANGED <<led_flag, led>>
  /\ NotLed

RestartAlarm(b) ==
  /\ core_1[b] = "on"
  /\ led_alarm' = [led_alarm EXCEPT ![b] = TRUE]
  /\ core_1' = [core_1 EXCEPT ![b] = "armed"]
  /\ UNCHANGED <<led_flag, led>>
  /\ NotLed

ResetFlag(b) ==
  /\ core_1[b] = "armed"
  /\ led_flag' = [led_flag EXCEPT ![b] = FALSE]
  /\ core_1' = [core_1 EXCEPT ![b] = "poll"]
  /\ UNCHANGED <<led, led_alarm>>
  /\ NotLed

AlarmCallback(b) ==
  /\ led_alarm[b]
  /\ led_alarm' = [led_alarm EXCEPT ![b] = FALSE]
  /\ led' = [led EXCEPT ![b] = FALSE]
  /\ UNCHANGED <<led_flag, core_1>>
  /\ NotLed

Core1(b) == LedOn(b) \/ RestartAlarm(b) \/ ResetFlag(b)

-----------------------------------------------------------------------------
(* The recv thread up to its copy of the packet, which all demos share     *)
Pass(b) == RecvLoad(b) \/ RecvStore(b) \/ RecvCopy(b)

(* main() of udp_send_recv itself *)
MainSendRecv(b) ==
  /\ demo = "send_recv"
  /\ \/ b = AP /\ EnableAp(STATION_ADDR)
     \/ EnableStation(b)
     \/ Join(b, STATION_ADDR) \/ JoinFails(b)
     \/ RegisterCallback(b) \/ InitSemaphores(b)

NextSendRecv(b) ==
  \/ MainSendRecv(b)
  \/ /\ demo = "send_recv"
     /\ \/ Send(b) \/ SendFails(b) \/ Pass(b) \/ RecvRead(b) \/ Ack(b)
        \/ Serial(b) \/ Core1(b) \/ AlarmCallback(b)

(* What the program promises, whichever of the demos it is.                *)

(* An ack names a message of the board it reaches, with the number that    *)
(* this message was sent with: "If data was received, respond with ACK"    *)
(* (udp_send_recv.c:383-395, 431-446).  So it is unless the interrupt has  *)
(* hit the copy of the very packet that is acknowledged: return address,   *)
(* number and timestamp belong together although they are kept apart, only *)
(* one packet at a time is remembered, and others arrive meanwhile         *)
(* (333-395).  A torn copy may give the ack the fields of two packets.     *)
UntornAcksAnswer ==
  \A b \in Boards :
    recv_data[b] # NONE /\ recv_data[b].type = "ack" /\ ~ recv_data[b].torn =>
      <<recv_data[b].num, recv_data[b].msg>> \in sent[b]

(* A packet that nobody has looked at is signalled, whatever interrupts    *)
(* whatever: the decrement may lose signals, but never the last one, and   *)
(* a packet that comes amid a copy is looked at again, whole               *)
(* (udp_send_recv.c:159-177, 331-335).                                     *)
FreshIsSignalled ==
  \A b \in Boards : fresh[b] /\ main[b] = "threads" =>
    new_udp_recv_s[b] > 0 \/ recv_pc[b] \in {"loaded", "read"}

(* The LED is never left on: while it is lit an alarm is running or core 1 *)
(* is about to set one (udp_send_recv.c:508-524, 148-152).                 *)
LedIsTimed ==
  \A b \in Boards : led[b] => led_alarm[b] \/ core_1[b] = "on"

Sends(b, m) == \E n \in Number : <<n, m>> \in sent[b]

(* Every message that is sent is acknowledged to its sender in the end, or *)
(* it or its ack was lost on the radio, overwritten in a receive buffer or *)
(* amid its copy, or came to a board that was not up yet.                  *)
MessagesAccounted ==
  \A m \in Messages \ {TEST} :
    (\E b \in Boards : Sends(b, m)) ~>
      (m \in lost \/ \E b \in Boards : Sends(b, m) /\ m \in acked[b])

(* Acks are not acknowledged: when all is typed the network falls silent.  *)
FallsSilent ==
  <>[](\A b \in Boards : /\ recv_pc[b] = "wait" /\ new_udp_ack_s[b] = 0
                         /\ main[b] = "threads" => new_udp_recv_s[b] = 0)
=============================================================================
