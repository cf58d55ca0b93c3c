---------------------------- MODULE UdpMulticore ----------------------------
(***************************************************************************)
(* The demo UDP/udp_send_recv_multicore: the send thread runs on core 1    *)
(* and gets whole packets from the serial thread of core 0 over a queue of *)
(* one place, with a mutex for the packet and a semaphore for the signal.  *)
(* Both cores are cut where the other can see the difference: at the       *)
(* mutex, amid the copy of a packet and amid the change of the count.      *)
(*                                                                         *)
(* The recv and ack threads are both on core 0, so their own mutex never   *)
(* makes one of them wait; it is left out.  That the receive interrupt may *)
(* wait for ever for the semaphores' lock is the subject of PtSemSafe.     *)
(***************************************************************************)
EXTENDS UdpSendRecvAuto

VARIABLES
  send_queue, send_mutex,  \* send_mutex: the core that holds it
  send_pc, send_buf, send_read,     \* the send thread, on core 1
  serial_pc, line, serial_read      \* the serial thread, on core 0

(* NONE also is a mutex that no core holds. *)
ASSUME MutexAssumption == NONE \notin {0, 1}

queueVars == <<send_queue, send_mutex>>
sendThread == <<send_pc, send_buf, send_read>>
serialThread == <<serial_pc, line, serial_read>>
multiVars == <<queueVars, sendThread, serialThread>>
allVars == <<vars, multiVars>>

(* A packet in the making: its message has a timestamp, the line that it   *)
(* was composed for.                                                       *)
Content == [num : Number, time : Messages \cup {NONE},
            msg : Messages \cup {NONE}]
Empty == [num |-> 0, time |-> NONE, msg |-> NONE]

TypeOKMulti ==
  /\ send_queue \in [Boards -> Content]
  /\ send_mutex \in [Boards -> {0, 1, NONE}]
  /\ send_pc \in [Boards -> {"wait", "loaded", "lock", "copy", "send"}]
  /\ send_buf \in [Boards -> Content]
  /\ send_read \in [Boards -> Count]
  /\ serial_pc \in [Boards -> {"wait", "lock", "copy", "signal", "loaded"}]
  /\ line \in [Boards -> Messages \cup {NONE}]
  /\ serial_read \in [Boards -> Count]

InitMulti ==
  /\ send_queue = [b \in Boards |-> Empty]
  /\ send_mutex = [b \in Boards |-> NONE]
  /\ send_pc = [b \in Boards |-> "wait"]
  /\ send_buf = [b \in Boards |-> Empty]
  /\ send_read = [b \in Boards |-> 0]
  /\ serial_pc = [b \in Boards |-> "wait"]
  /\ line = [b \in Boards |-> NONE]
  /\ serial_read = [b \in Boards |-> 0]

Step(pc, b, from, to) == pc[b] = from /\ pc' = [pc EXCEPT ![b] = to]

(* Core 0 runs none of its other threads while the serial thread is busy.  *)
Core0(b) == demo = "multicore" /\ serial_pc[b] = "wait"

(* main(), as in udp_send_recv_auto *)
MainMulti(b) ==
  /\ demo = "multicore"
  /\ \/ b = AP /\ EnableAp(STATION_ADDR)
     \/ StartScan(b) \/ FindTarget(b)
     \/ Join(b, STATION_ADDR) \/ JoinFails(b)
     \/ RegisterCallback(b) \/ InitSemaphores(b)
  /\ UNCHANGED multiVars

(* A packet that comes before the semaphores are initialised signals under *)
(* a lock that is not there yet.  The write to address 0 may go unnoticed, *)
(* or be the end of the program.                                           *)
SignalUnlocked(b) ==
  /\ demo = "multicore"
  /\ fresh[b]
  /\ Boot(b, "callback", "ended")
  /\ lost' = lost \cup Names(recv_data[b])
  /\ fresh' = [fresh EXCEPT ![b] = FALSE]
  /\ UNCHANGED <<ssid, assoc, my_addr, dest_addr_str, recv_data,
                 new_udp_recv_s, tbuf, faults, multiVars>>
  /\ NoThreads

-----------------------------------------------------------------------------
(* protothread_udp_send, on core 1.  It waits without the semaphore's lock *)
(* (see PtSemSafe).                                                        *)
SendOnly(b) ==
  /\ demo = "multicore" /\ main[b] = "threads"
  /\ UNCHANGED <<bootVars, send_data, passVars, ackVars, led_flag, core_1,
                 todo, acked, serialThread>>

NotOut == UNCHANGED <<packet_counter, sent, recvVars, led, led_alarm, faults>>

SendLoad(b) ==
  /\ SendOnly(b)
  /\ new_udp_send_s[b] > 0
  /\ Step(send_pc, b, "wait", "loaded")
  /\ send_read' = [send_read EXCEPT ![b] = new_udp_send_s[b]]
  /\ UNCHANGED <<new_udp_send_s, send_buf, queueVars>>
  /\ NotOut

SendStore(b) ==
  /\ SendOnly(b)
  /\ Step(send_pc, b, "loaded", "lock")
  /\ new_udp_send_s' = [new_udp_send_s EXCEPT ![b] = send_read[b] - 1]
  /\ UNCHANGED <<send_read, send_buf, queueVars>>
  /\ NotOut

(* Mutant of SendEnter: the mutex is not waited for. *)
SendEnterAnyway(b) ==
  /\ SendOnly(b)
  /\ Step(send_pc, b, "lock", "copy")
  /\ send_mutex' = [send_mutex EXCEPT ![b] = 1]
  /\ send_buf' = [send_buf EXCEPT ![b].num = send_queue[b].num,
                                  ![b].time = send_queue[b].time]
  /\ UNCHANGED <<new_udp_send_s, send_read, send_queue>>
  /\ NotOut

SendEnter(b) ==
  /\ SendOnly(b)
  /\ send_mutex[b] = NONE
  /\ Step(send_pc, b, "lock", "copy")
  /\ send_mutex' = [send_mutex EXCEPT ![b] = 1]
  /\ send_buf' = [send_buf EXCEPT ![b].num = send_queue[b].num,
                                  ![b].time = send_queue[b].time]
  /\ UNCHANGED <<new_udp_send_s, send_read, send_queue>>
  /\ NotOut

SendExit(b) ==
  /\ SendOnly(b)
  /\ Step(send_pc, b, "copy", "send")
  /\ send_mutex' = [send_mutex EXCEPT ![b] = NONE]
  /\ send_buf' = [send_buf EXCEPT ![b].msg = send_queue[b].msg]
  /\ UNCHANGED <<new_udp_send_s, send_read, send_queue>>
  /\ NotOut

SendTo(b) ==
  /\ SendOnly(b)
  /\ Step(send_pc, b, "send", "wait")
  /\ UNCHANGED <<new_udp_send_s, send_read, send_buf, queueVars>>
  /\ \/ /\ Transmit(b, dest_addr_str[b],
                    [type |-> "data", src |-> my_addr[b],
                     num |-> send_buf[b].num, msg |-> send_buf[b].msg,
                     torn |-> FALSE])
        /\ sent' = [sent EXCEPT
                      ![b] = @ \cup {<<send_buf[b].num, send_buf[b].msg>>}]
        /\ packet_counter' = [packet_counter EXCEPT ![b] = @ + 1]
     \/ /\ Fault
        /\ UNCHANGED <<packet_counter, sent, recvVars, led, led_alarm>>

SendMulti(b) ==
  SendLoad(b) \/ SendStore(b) \/ SendEnter(b) \/ SendExit(b) \/ SendTo(b)

-----------------------------------------------------------------------------
(* protothread_serial, on core 0: a packet is composed in the queue, with  *)
(* the count of that moment, and signalled.                                *)
SerialOnly(b) ==
  /\ demo = "multicore"
  /\ UNCHANGED <<bootVars, packet_counter, sent, send_data, recvVars, passVars,
                 ackVars, ledVars, faults, acked, sendThread>>

SerialRead(b) ==
  /\ SerialOnly(b)
  /\ Turn(b)
  /\ Step(serial_pc, b, "wait", "lock")
  /\ \E l \in todo : /\ l[1] = b
                     /\ todo' = todo \ {l}
                     /\ line' = [line EXCEPT ![b] = l[2]]
  /\ UNCHANGED <<new_udp_send_s, queueVars, serial_read>>

SerialEnter(b) ==
  /\ SerialOnly(b)
  /\ send_mutex[b] = NONE
  /\ Step(serial_pc, b, "lock", "copy")
  /\ send_mutex' = [send_mutex EXCEPT ![b] = 0]
  /\ send_queue' = [send_queue EXCEPT ![b].num = packet_counter[b],
                                      ![b].time = line[b]]
  /\ UNCHANGED <<new_udp_send_s, todo, line, serial_read>>

SerialExit(b) ==
  /\ SerialOnly(b)
  /\ Step(serial_pc, b, "copy", "signal")
  /\ send_mutex' = [send_mutex EXCEPT ![b] = NONE]
  /\ send_queue' = [send_queue EXCEPT ![b].msg = line[b]]
  /\ UNCHANGED <<new_udp_send_s, todo, line, serial_read>>

SerialLoad(b) ==
  /\ SerialOnly(b)
  /\ Step(serial_pc, b, "signal", "loaded")
  /\ serial_read' = [serial_read EXCEPT ![b] = new_udp_send_s[b]]
  /\ UNCHANGED <<new_udp_send_s, queueVars, todo, line>>

SerialStore(b) ==
  /\ SerialOnly(b)
  /\ Step(serial_pc, b, "loaded", "wait")
  /\ new_udp_send_s' = [new_udp_send_s EXCEPT ![b] = serial_read[b] + 1]
  /\ UNCHANGED <<queueVars, todo, line, serial_read>>

SerialMulti(b) ==
  \/ SerialRead(b) \/ SerialEnter(b) \/ SerialExit(b)
  \/ SerialLoad(b) \/ SerialStore(b)

-----------------------------------------------------------------------------
(* protothread_udp_recv: ack_queue and return_addr_str together are        *)
(* return_data, and the LED was blinked by the callback.                   *)
RecvReadMulti(b) ==
  /\ Copied(b)
  /\ IF tbuf[b].type = "data" THEN Acknowledge(b, tbuf[b])
     ELSE UNCHANGED ackVars
  /\ UNCHANGED led_flag

RecvMulti(b) ==
  Core0(b) /\ (Pass(b) \/ RecvReadMulti(b)) /\ UNCHANGED multiVars

AckMulti(b) == Core0(b) /\ Ack(b) /\ UNCHANGED multiVars

AlarmMulti(b) ==
  demo = "multicore" /\ AlarmCallback(b) /\ UNCHANGED multiVars

NextMulti(b) ==
  \/ MainMulti(b) \/ SignalUnlocked(b)
  \/ SendMulti(b) \/ SerialMulti(b) \/ RecvMulti(b) \/ AckMulti(b)
  \/ AlarmMulti(b)

(* A packet that core 1 sends is one that core 0 composed: its timestamp   *)
(* and its message never come from two of them                             *)
(* (udp_send_recv_multicore.c:402-405, 615-618).                           *)
NoTornSend ==
  \A b \in Boards : send_pc[b] = "send" => send_buf[b].time = send_buf[b].msg
=============================================================================
