-------------------------- MODULE UdpDemos_proofs ---------------------------
(***************************************************************************)
(* What the UDP demos promise, for any lines that are typed, any number of *)
(* faults and any choice of demos: the LED is timed, a packet that nobody  *)
(* has looked at is signalled, the two cores never mix two packets, an ack *)
(* answers a message of the board it reaches unless it was put together    *)
(* from two packets, and everything has its type, the counters with their  *)
(* bound.  Each promise has an inductive invariant of its own, about the   *)
(* few variables it depends on; for each there is a lemma that says what a *)
(* step does to these.  The types need two counting arguments: how many    *)
(* packets are sent, and how many are signalled.                           *)
(***************************************************************************)
EXTENDS UdpDemos, FiniteSetTheorems, TLAPS

-----------------------------------------------------------------------------
(* The steps *)

StationOf(b) == IF demo = "three_connect" THEN StationAddr(b) ELSE STATION_ADDR

Booting(b) ==
  \/ b = AP /\ (EnableAp(STATION_ADDR) \/ EnableAp(STATION_BASE_ADDR))
  \/ EnableStation(b) \/ StartScan(b) \/ FindTarget(b)
  \/ Join(b, StationOf(b)) \/ JoinFails(b)
  \/ RegisterCallback(b) \/ InitSemaphores(b)

Thread(b) ==
  \/ demo # "multicore" /\ (Send(b) \/ SendFails(b) \/ Serial(b))
  \/ RecvLoad(b) \/ RecvStore(b) \/ RecvCopy(b)
  \/ RecvRead(b) \/ RecvReadMulti(b) \/ Ack(b)

(* Whatever the demo, a step is one of main(), of a thread, of the LED or  *)
(* of the threads that only the demo on two cores has.                     *)
LEMMA StepCases ==
  ASSUME Next
  PROVE  \E b \in Boards :
           \/ /\ Booting(b) \/ Thread(b) \/ Core1(b) \/ AlarmCallback(b)
              /\ UNCHANGED multiVars
           \/ SignalUnlocked(b) \/ SendMulti(b) \/ SerialMulti(b)
<1>1. PICK b \in Boards : OneCore(b) \/ NextMulti(b)
  BY DEF Next
<1>2. CASE NextSendRecv(b) /\ UNCHANGED multiVars
  BY <1>2, Zenon DEF NextSendRecv, MainSendRecv, Pass, Booting, Thread, StationOf
<1>3. CASE NextAuto(b) /\ UNCHANGED multiVars
  BY <1>3, Zenon DEF NextAuto, MainAuto, SendAuto, RecvAuto, AckAuto, SerialAuto,
                     LedAuto, Pass, Booting, Thread, StationOf
<1>4. CASE NextThree(b) /\ UNCHANGED multiVars
  BY <1>4, Zenon DEF NextThree, MainThree, SendThree, RecvThree, AckThree,
                     SerialThree, LedThree, Pass, Booting, Thread, StationOf
<1>5. CASE NextMulti(b)
  BY <1>5, Zenon DEF NextMulti, MainMulti, RecvMulti, AckMulti, AlarmMulti, Pass,
                     Booting, Thread, StationOf
<1>6. QED
  BY <1>1, <1>2, <1>3, <1>4, <1>5 DEF OneCore

-----------------------------------------------------------------------------
(* The LED *)

LedShape ==
  /\ led \in [Boards -> BOOLEAN] /\ led_alarm \in [Boards -> BOOLEAN]
  /\ core_1 \in [Boards -> {"poll", "on", "armed"}]

LedInv == LedShape /\ LedIsTimed

(* Only core 1, the alarm and, in one of the demos, the callback touch it. *)
LEMMA LedSteps ==
  ASSUME Next
  PROVE  \/ UNCHANGED <<led, led_alarm, core_1>>
         \/ \E a \in Boards : CallbackBlinks(a) /\ UNCHANGED core_1
         \/ \E b \in Boards : Core1(b) \/ AlarmCallback(b)
<1>1. PICK b \in Boards :
           \/ Booting(b) \/ Thread(b) \/ Core1(b) \/ AlarmCallback(b)
           \/ SignalUnlocked(b) \/ SendMulti(b) \/ SerialMulti(b)
  BY StepCases
<1>2. ASSUME NEW addr, NEW p, Transmit(b, addr, p), UNCHANGED core_1
      PROVE  \/ UNCHANGED <<led, led_alarm, core_1>>
             \/ \E a \in Boards : CallbackBlinks(a) /\ UNCHANGED core_1
  BY <1>2 DEF Transmit, Reached
<1>3. CASE Booting(b) \/ SignalUnlocked(b)
  BY <1>3 DEF Booting, SignalUnlocked, NoThreads, ledVars, EnableAp, EnableStation,
              StartScan, FindTarget, Join, JoinFails, RegisterCallback, InitSemaphores
<1>4. CASE Thread(b)
  <2>1. CASE Send(b)
    BY <1>2, <2>1 DEF Send, SendWait
  <2>2. CASE Ack(b)
    BY <1>2, <2>2 DEF Ack
  <2>3. CASE \/ SendFails(b) \/ RecvLoad(b) \/ RecvStore(b) \/ RecvCopy(b)
             \/ RecvRead(b) \/ RecvReadMulti(b) \/ Serial(b)
    BY <2>3 DEF SendFails, SendWait, RecvLoad, RecvStore, RecvCopy, RecvRead,
                RecvReadMulti, Copied, Serial, ledVars
  <2>4. QED
    BY <1>4, <2>1, <2>2, <2>3 DEF Thread
<1>5. CASE SendMulti(b)
  <2>1. CASE SendTo(b)
    BY <1>2, <2>1 DEF SendTo, SendOnly
  <2>2. CASE SendLoad(b) \/ SendStore(b) \/ SendEnter(b) \/ SendExit(b)
    BY <2>2 DEF SendLoad, SendStore, SendEnter, SendExit, SendOnly, NotOut
  <2>3. QED
    BY <1>5, <2>1, <2>2 DEF SendMulti
<1>6. CASE SerialMulti(b)
  BY <1>6 DEF SerialMulti, SerialRead, SerialEnter, SerialExit, SerialLoad,
              SerialStore, SerialOnly, ledVars
<1>7. QED
  BY <1>1, <1>3, <1>4, <1>5, <1>6

LEMMA InitLed == InitDemos => LedInv
BY DEF InitDemos, Init, LedInv, LedShape, LedIsTimed

LEMMA StepLed == LedInv /\ [Next]_allVars => LedInv'
<1> SUFFICES ASSUME LedInv, [Next]_allVars PROVE LedInv'
  OBVIOUS
<1>1. CASE UNCHANGED <<led, led_alarm, core_1>>
  BY <1>1 DEF LedInv, LedShape, LedIsTimed
<1>2. ASSUME NEW a \in Boards, CallbackBlinks(a), UNCHANGED core_1 PROVE LedInv'
  BY <1>2 DEF CallbackBlinks, LedInv, LedShape, LedIsTimed
<1>3. ASSUME NEW b \in Boards, LedOn(b) PROVE LedInv'
  BY <1>3 DEF LedOn, LedInv, LedShape, LedIsTimed
<1>4. ASSUME NEW b \in Boards, RestartAlarm(b) PROVE LedInv'
  BY <1>4 DEF RestartAlarm, LedInv, LedShape, LedIsTimed
<1>5. ASSUME NEW b \in Boards, ResetFlag(b) PROVE LedInv'
  BY <1>5 DEF ResetFlag, LedInv, LedShape, LedIsTimed
<1>6. ASSUME NEW b \in Boards, AlarmCallback(b) PROVE LedInv'
  BY <1>6 DEF AlarmCallback, LedInv, LedShape, LedIsTimed
<1>7. CASE UNCHANGED allVars
  BY <1>1, <1>7 DEF allVars, vars, ledVars
<1>8. QED
  BY <1>1, <1>2, <1>3, <1>4, <1>5, <1>6, <1>7, LedSteps DEF Core1

(* The LED is never left on.                                               *)
THEOREM LedAlwaysTimed == Spec => []LedIsTimed
<1>1. LedInv => LedIsTimed
  BY DEF LedInv
<1>2. QED
  BY <1>1, InitLed, StepLed, PTL DEF Spec

-----------------------------------------------------------------------------
(* The signals of the receive callback *)

RecvShape ==
  /\ main \in [Boards -> {"off", "init", "scan", "join", "net", "callback",
                         "threads", "ended"}]
  /\ new_udp_recv_s \in [Boards -> Nat] /\ count_read \in [Boards -> Nat]
  /\ fresh \in [Boards -> BOOLEAN]
  /\ recv_pc \in [Boards -> {"wait", "loaded", "read", "copy"}]

(* The decrement stores one less than it loaded: its effect may undo that  *)
(* of an interrupt in between, but then the pass is not over yet, and it   *)
(* will look at the packet of the interrupt.                               *)
SignalInv ==
  /\ RecvShape /\ FreshIsSignalled
  /\ \A b \in Boards : recv_pc[b] = "loaded" => count_read[b] >= 1

LEMMA RecvSteps ==
  ASSUME RecvShape, Next
  PROVE  \/ /\ UNCHANGED <<new_udp_recv_s, fresh, recv_pc, count_read>>
            /\ \/ UNCHANGED main
               \/ \E b \in Boards, to \in {"scan", "join", "net", "callback", "ended"} :
                    main' = [main EXCEPT ![b] = to]
         \/ \E a \in Boards : \E p :
              Callback(a, p) /\ UNCHANGED <<recv_pc, count_read, main>>
         \/ \E b \in Boards : \/ RecvLoad(b) \/ RecvStore(b) \/ RecvCopy(b)
                             \/ Copied(b) \/ InitSemaphores(b) \/ SignalUnlocked(b)
<1>1. PICK b \in Boards :
           \/ Booting(b) \/ Thread(b) \/ Core1(b) \/ AlarmCallback(b)
           \/ SignalUnlocked(b) \/ SendMulti(b) \/ SerialMulti(b)
  BY StepCases
<1>2. ASSUME NEW addr, NEW p, Transmit(b, addr, p), UNCHANGED <<recv_pc, count_read, main>>
      PROVE  \/ UNCHANGED <<new_udp_recv_s, fresh, recv_pc, count_read, main>>
             \/ \E a \in Boards : Callback(a, p) /\ UNCHANGED <<recv_pc, count_read, main>>
  BY <1>2 DEF Transmit, Reached
<1>3. CASE Booting(b)
  <2>1. CASE b = AP /\ (EnableAp(STATION_ADDR) \/ EnableAp(STATION_BASE_ADDR))
    BY <2>1 DEF EnableAp, Boot, NoThreads, recvVars, passVars, AP, Boards
  <2>2. CASE EnableStation(b) \/ StartScan(b) \/ FindTarget(b)
    BY <2>2 DEF EnableStation, StartScan, FindTarget, Boot, NoThreads, recvVars, passVars
  <2>3. CASE Join(b, StationOf(b)) \/ JoinFails(b) \/ RegisterCallback(b)
    BY <2>3 DEF Join, JoinFails, RegisterCallback, Boot, NoThreads, recvVars, passVars
  <2>4. QED
    BY <1>3, <2>1, <2>2, <2>3, Zenon DEF Booting
<1>4. CASE Thread(b)
  <2>1. CASE Send(b)
    BY <1>2, <2>1 DEF Send, SendWait, bootVars, passVars
  <2>2. CASE Ack(b)
    BY <1>2, <2>2 DEF Ack, bootVars, passVars
  <2>3. CASE SendFails(b) \/ Serial(b)
    BY <2>3 DEF SendFails, SendWait, Serial, bootVars, recvVars, passVars
  <2>4. CASE RecvRead(b) \/ RecvReadMulti(b)
    BY <2>4 DEF RecvRead, RecvReadMulti
  <2>5. QED
    BY <1>4, <2>1, <2>2, <2>3, <2>4, Zenon DEF Thread
<1>5. CASE Core1(b) \/ AlarmCallback(b)
  BY <1>5 DEF Core1, LedOn, RestartAlarm, ResetFlag, AlarmCallback, NotLed,
              bootVars, recvVars, passVars
<1>6. CASE SendMulti(b)
  <2>1. CASE SendTo(b)
    BY <1>2, <2>1 DEF SendTo, SendOnly, bootVars, recvVars, passVars
  <2>2. CASE SendLoad(b) \/ SendStore(b) \/ SendEnter(b) \/ SendExit(b)
    BY <2>2 DEF SendLoad, SendStore, SendEnter, SendExit, SendOnly, NotOut,
                bootVars, recvVars, passVars
  <2>3. QED
    BY <1>6, <2>1, <2>2 DEF SendMulti
<1>7. CASE SerialMulti(b)
  BY <1>7 DEF SerialMulti, SerialRead, SerialEnter, SerialExit, SerialLoad,
              SerialStore, SerialOnly, bootVars, recvVars, passVars
<1>8. QED
  BY <1>1, <1>3, <1>4, <1>5, <1>6, <1>7, Zenon

LEMMA InitSignal == InitDemos => SignalInv
<1> SUFFICES ASSUME InitDemos PROVE SignalInv
  OBVIOUS
<1>1. RecvShape
  BY DEF InitDemos, Init, RecvShape
<1>2. QED
  BY <1>1 DEF InitDemos, Init, SignalInv, FreshIsSignalled

LEMMA StepSignal == SignalInv /\ [Next]_allVars => SignalInv'
<1> SUFFICES ASSUME SignalInv, [Next]_allVars PROVE SignalInv'
  OBVIOUS
<1> USE DEF SignalInv, RecvShape, FreshIsSignalled
<1>1. CASE UNCHANGED <<new_udp_recv_s, fresh, recv_pc, count_read, main>>
  BY <1>1
<1>2. ASSUME NEW b \in Boards, NEW to \in {"scan", "join", "net", "callback", "ended"},
             main' = [main EXCEPT ![b] = to],
             UNCHANGED <<new_udp_recv_s, fresh, recv_pc, count_read>>
      PROVE  SignalInv'
  BY <1>2
<1>3. ASSUME NEW a \in Boards, NEW p, Callback(a, p),
             UNCHANGED <<recv_pc, count_read, main>>
      PROVE  SignalInv'
  BY <1>3 DEF Callback
<1>4. ASSUME NEW b \in Boards, RecvLoad(b) PROVE SignalInv'
  BY <1>4 DEF RecvLoad, bootVars, recvVars
<1>5. ASSUME NEW b \in Boards, RecvStore(b) PROVE SignalInv'
  BY <1>5 DEF RecvStore, bootVars
<1>6. ASSUME NEW b \in Boards, RecvCopy(b) \/ Copied(b) PROVE SignalInv'
  BY <1>6 DEF RecvCopy, Copied, bootVars
<1>7. ASSUME NEW b \in Boards, InitSemaphores(b) PROVE SignalInv'
  BY <1>7 DEF InitSemaphores, Boot, NoThreads, passVars
<1>8. ASSUME NEW b \in Boards, SignalUnlocked(b) PROVE SignalInv'
  BY <1>8 DEF SignalUnlocked, Boot, NoThreads, passVars
<1>9. CASE UNCHANGED allVars
  BY <1>1, <1>9 DEF allVars, vars, bootVars, recvVars, passVars
<1> HIDE DEF SignalInv, RecvShape, FreshIsSignalled
<1>10. RecvShape
  BY DEF SignalInv
<1>11. CASE Next
  BY <1>1, <1>2, <1>3, <1>4, <1>5, <1>6, <1>7, <1>8, <1>10, <1>11, RecvSteps
<1>12. QED
  BY <1>9, <1>11

(* A packet that nobody has looked at is signalled.                        *)
THEOREM FreshAlwaysSignalled == Spec => []FreshIsSignalled
<1>1. SignalInv => FreshIsSignalled
  BY DEF SignalInv
<1>2. QED
  BY <1>1, InitSignal, StepSignal, PTL DEF Spec

-----------------------------------------------------------------------------
(* The queue between the cores *)

IsContent(r) == r = [num |-> r.num, time |-> r.time, msg |-> r.msg]

QueueShape ==
  /\ send_queue = [b \in Boards |-> send_queue[b]]
  /\ send_buf = [b \in Boards |-> send_buf[b]]
  /\ \A b \in Boards : IsContent(send_queue[b]) /\ IsContent(send_buf[b])
  /\ send_mutex \in [Boards -> {0, 1, NONE}]
  /\ send_pc \in [Boards -> {"wait", "loaded", "lock", "copy", "send"}]
  /\ serial_pc \in [Boards -> {"wait", "lock", "copy", "signal", "loaded"}]
  /\ line = [b \in Boards |-> line[b]]

(* The mutex is held by the core that copies, so by one; the packet in the *)
(* queue is whole unless core 0 is at it; and what core 1 has copied       *)
(* belongs to the packet in the queue.                                     *)
CoresOK(core1, core0, mutex, queue, buf, typed) ==
  /\ core1 = "copy" <=> mutex = 1
  /\ core0 = "copy" <=> mutex = 0
  /\ core0 = "copy" => queue.time = typed
  /\ core0 # "copy" => queue.time = queue.msg
  /\ core1 = "copy" => buf.time = queue.time
  /\ core1 = "send" => buf.time = buf.msg

QueueInv ==
  /\ QueueShape
  /\ \A b \in Boards : CoresOK(send_pc[b], serial_pc[b], send_mutex[b],
                              send_queue[b], send_buf[b], line[b])

LEMMA QueueSteps ==
  ASSUME Next
  PROVE  \/ UNCHANGED multiVars
         \/ \E b \in Boards :
              \/ SendLoad(b) \/ SendStore(b) \/ SendEnter(b) \/ SendExit(b) \/ SendTo(b)
              \/ SerialRead(b) \/ SerialEnter(b) \/ SerialExit(b)
              \/ SerialLoad(b) \/ SerialStore(b)
<1>1. ASSUME NEW b \in Boards, SignalUnlocked(b) PROVE UNCHANGED multiVars
  BY <1>1 DEF SignalUnlocked
<1>2. QED
  BY <1>1, StepCases DEF SendMulti, SerialMulti

LEMMA InitQueue == InitDemos => QueueInv
BY MutexAssumption
   DEF InitDemos, InitMulti, QueueInv, QueueShape, CoresOK, IsContent, Empty

(* A copy is made in two halves: number and time, then the message.        *)
Contents(f) == f = [c \in Boards |-> f[c]] /\ \A c \in Boards : IsContent(f[c])
Half(f, g, b, n, t) == g = [f EXCEPT ![b].num = n, ![b].time = t]
Rest(f, g, b, t) == g = [f EXCEPT ![b].msg = t]

(* The first half changes the time of one packet.                          *)
LEMMA FirstHalf ==
  ASSUME NEW f, NEW g, NEW b \in Boards, NEW n, NEW t, Contents(f), Half(f, g, b, n, t)
  PROVE  /\ Contents(g) /\ g[b].time = t
         /\ \A c \in Boards : c # b => g[c] = f[c]
<1>1. /\ g = [c \in Boards |-> g[c]]
      /\ \A c \in Boards : c # b => g[c] = f[c]
      /\ g[b] = [f[b] EXCEPT !.num = n, !.time = t]
  BY DEF Contents, Half
<1>2. f[b] = [num |-> f[b].num, time |-> f[b].time, msg |-> f[b].msg]
  BY DEF Contents, IsContent
<1>3. g[b] = [num |-> n, time |-> t, msg |-> f[b].msg]
  BY <1>1, <1>2
<1>4. QED
  BY <1>1, <1>3 DEF Contents, IsContent

(* The second half changes its message.                                    *)
LEMMA SecondHalf ==
  ASSUME NEW f, NEW g, NEW b \in Boards, NEW t, Contents(f), Rest(f, g, b, t)
  PROVE  /\ Contents(g) /\ g[b].msg = t /\ g[b].time = f[b].time
         /\ \A c \in Boards : c # b => g[c] = f[c]
<1>1. /\ g = [c \in Boards |-> g[c]]
      /\ \A c \in Boards : c # b => g[c] = f[c]
      /\ g[b] = [f[b] EXCEPT !.msg = t]
  BY DEF Contents, Rest
<1>2. f[b] = [num |-> f[b].num, time |-> f[b].time, msg |-> f[b].msg]
  BY DEF Contents, IsContent
<1>3. g[b] = [num |-> f[b].num, time |-> f[b].time, msg |-> t]
  BY <1>1, <1>2
<1>4. QED
  BY <1>1, <1>3 DEF Contents, IsContent

(* A step changes the state of the queue of one board.                     *)
LEMMA OneQueue ==
  ASSUME QueueInv, QueueShape', NEW b \in Boards,
         CoresOK(send_pc'[b], serial_pc'[b], send_mutex'[b],
                 send_queue'[b], send_buf'[b], line'[b]),
         \A c \in Boards : c # b =>
           /\ send_pc'[c] = send_pc[c] /\ serial_pc'[c] = serial_pc[c]
           /\ send_mutex'[c] = send_mutex[c] /\ line'[c] = line[c]
           /\ send_queue'[c] = send_queue[c] /\ send_buf'[c] = send_buf[c]
  PROVE  QueueInv'
<1>1. ASSUME NEW c \in Boards
      PROVE  CoresOK(send_pc'[c], serial_pc'[c], send_mutex'[c],
                     send_queue'[c], send_buf'[c], line'[c])
  <2>1. CASE c = b
    BY <2>1
  <2>2. CASE c # b
    BY <2>2 DEF QueueInv
  <2>3. QED
    BY <2>1, <2>2
<1>2. QED
  BY <1>1 DEF QueueInv

LEMMA StepQueue == QueueInv /\ [Next]_allVars => QueueInv'
<1> SUFFICES ASSUME QueueInv, [Next]_allVars PROVE QueueInv'
  OBVIOUS
<1>1. CASE UNCHANGED multiVars
  BY <1>1 DEF multiVars, queueVars, sendThread, serialThread, QueueInv, QueueShape
<1>2. QueueShape /\ \A b \in Boards :
        CoresOK(send_pc[b], serial_pc[b], send_mutex[b], send_queue[b], send_buf[b], line[b])
  BY DEF QueueInv
<1>3. ASSUME NEW b \in Boards, SendLoad(b) \/ SendStore(b) \/ SendTo(b) PROVE QueueInv'
  <2>1. /\ UNCHANGED <<queueVars, send_buf, serialThread>>
        /\ \/ Step(send_pc, b, "wait", "loaded") \/ Step(send_pc, b, "loaded", "lock")
           \/ Step(send_pc, b, "send", "wait")
    BY <1>3 DEF SendLoad, SendStore, SendTo, SendOnly
  <2>2. /\ QueueShape' /\ send_pc[b] # "copy" /\ send_pc'[b] \notin {"copy", "send"}
        /\ \A c \in Boards : c # b => send_pc'[c] = send_pc[c]
    BY <1>2, <2>1 DEF Step, QueueShape, queueVars, serialThread
  <2>3. CoresOK(send_pc'[b], serial_pc'[b], send_mutex'[b], send_queue'[b], send_buf'[b], line'[b])
    BY <1>2, <2>1, <2>2 DEF CoresOK, queueVars, serialThread
  <2>4. QED
    BY <2>1, <2>2, <2>3, OneQueue DEF queueVars, serialThread
<1>4. ASSUME NEW b \in Boards, SendEnter(b) PROVE QueueInv'
  <2>1. /\ send_mutex[b] = NONE /\ Step(send_pc, b, "lock", "copy")
        /\ send_mutex' = [send_mutex EXCEPT ![b] = 1]
        /\ send_buf' = [send_buf EXCEPT ![b].num = send_queue[b].num,
                                        ![b].time = send_queue[b].time]
        /\ UNCHANGED <<send_queue, serialThread>>
    BY <1>4 DEF SendEnter, SendOnly
  <2>2. /\ send_buf' = [c \in Boards |-> send_buf'[c]]
        /\ \A c \in Boards : IsContent(send_buf'[c])
        /\ send_buf'[b].time = send_queue[b].time
        /\ \A c \in Boards : c # b => send_buf'[c] = send_buf[c]
    <3>1. Contents(send_buf)
      BY <1>2 DEF QueueShape, Contents
    <3>2. Half(send_buf, send_buf', b, send_queue[b].num, send_queue[b].time)
      BY <2>1 DEF Half
    <3>3. /\ Contents(send_buf') /\ send_buf'[b].time = send_queue[b].time
          /\ \A c \in Boards : c # b => send_buf'[c] = send_buf[c]
      BY <3>1, <3>2, FirstHalf
    <3>4. QED
      BY <3>3 DEF Contents
  <2>3. /\ QueueShape' /\ send_pc'[b] = "copy" /\ send_mutex'[b] = 1
        /\ \A c \in Boards : c # b => send_pc'[c] = send_pc[c] /\ send_mutex'[c] = send_mutex[c]
    BY <1>2, <2>1, <2>2 DEF Step, QueueShape, serialThread
  <2>4. CoresOK(send_pc'[b], serial_pc'[b], send_mutex'[b], send_queue'[b], send_buf'[b], line'[b])
    BY <1>2, <2>1, <2>2, <2>3, MutexAssumption DEF CoresOK, serialThread
  <2>5. QED
    BY <2>1, <2>2, <2>3, <2>4, OneQueue DEF serialThread
<1>5. ASSUME NEW b \in Boards, SendExit(b) PROVE QueueInv'
  <2>1. /\ Step(send_pc, b, "copy", "send")
        /\ send_mutex' = [send_mutex EXCEPT ![b] = NONE]
        /\ send_buf' = [send_buf EXCEPT ![b].msg = send_queue[b].msg]
        /\ UNCHANGED <<send_queue, serialThread>>
    BY <1>5 DEF SendExit, SendOnly
  <2>2. /\ send_buf' = [c \in Boards |-> send_buf'[c]]
        /\ \A c \in Boards : IsContent(send_buf'[c])
        /\ send_buf'[b].msg = send_queue[b].msg /\ send_buf'[b].time = send_buf[b].time
        /\ \A c \in Boards : c # b => send_buf'[c] = send_buf[c]
    <3>1. Contents(send_buf)
      BY <1>2 DEF QueueShape, Contents
    <3>2. Rest(send_buf, send_buf', b, send_queue[b].msg)
      BY <2>1 DEF Rest
    <3>3. QED
      BY <3>1, <3>2, SecondHalf DEF Contents
  <2>3. /\ QueueShape' /\ send_pc[b] = "copy" /\ send_pc'[b] = "send" /\ send_mutex'[b] = NONE
        /\ \A c \in Boards : c # b => send_pc'[c] = send_pc[c] /\ send_mutex'[c] = send_mutex[c]
    BY <1>2, <2>1, <2>2 DEF Step, QueueShape, serialThread
  <2>4. CoresOK(send_pc'[b], serial_pc'[b], send_mutex'[b], send_queue'[b], send_buf'[b], line'[b])
    BY <1>2, <2>1, <2>2, <2>3, MutexAssumption DEF CoresOK, serialThread
  <2>5. QED
    BY <2>1, <2>2, <2>3, <2>4, OneQueue DEF serialThread
<1>6. ASSUME NEW b \in Boards, SerialRead(b) PROVE QueueInv'
  <2>1. /\ Step(serial_pc, b, "wait", "lock")
        /\ \E l \in todo : line' = [line EXCEPT ![b] = l[2]]
        /\ UNCHANGED <<queueVars, sendThread>>
    BY <1>6 DEF SerialRead, SerialOnly
  <2>2. /\ QueueShape' /\ serial_pc[b] = "wait" /\ serial_pc'[b] = "lock"
        /\ \A c \in Boards : c # b => serial_pc'[c] = serial_pc[c] /\ line'[c] = line[c]
    BY <1>2, <2>1 DEF Step, QueueShape, queueVars, sendThread
  <2>3. CoresOK(send_pc'[b], serial_pc'[b], send_mutex'[b], send_queue'[b], send_buf'[b], line'[b])
    BY <1>2, <2>1, <2>2 DEF CoresOK, queueVars, sendThread
  <2>4. QED
    BY <2>1, <2>2, <2>3, OneQueue DEF queueVars, sendThread
<1>7. ASSUME NEW b \in Boards, SerialEnter(b) PROVE QueueInv'
  <2>1. /\ send_mutex[b] = NONE /\ Step(serial_pc, b, "lock", "copy")
        /\ send_mutex' = [send_mutex EXCEPT ![b] = 0]
        /\ send_queue' = [send_queue EXCEPT ![b].num = packet_counter[b],
                                            ![b].time = line[b]]
        /\ UNCHANGED <<line, sendThread>>
    BY <1>7 DEF SerialEnter, SerialOnly
  <2>2. /\ send_queue' = [c \in Boards |-> send_queue'[c]]
        /\ \A c \in Boards : IsContent(send_queue'[c])
        /\ send_queue'[b].time = line[b]
        /\ \A c \in Boards : c # b => send_queue'[c] = send_queue[c]
    <3>1. Contents(send_queue)
      BY <1>2 DEF QueueShape, Contents
    <3>2. Half(send_queue, send_queue', b, packet_counter[b], line[b])
      BY <2>1 DEF Half
    <3>3. QED
      BY <3>1, <3>2, FirstHalf DEF Contents
  <2>3. /\ QueueShape' /\ serial_pc'[b] = "copy" /\ send_mutex'[b] = 0
        /\ \A c \in Boards : c # b => serial_pc'[c] = serial_pc[c] /\ send_mutex'[c] = send_mutex[c]
    BY <1>2, <2>1, <2>2 DEF Step, QueueShape, sendThread
  <2>4. CoresOK(send_pc'[b], serial_pc'[b], send_mutex'[b], send_queue'[b], send_buf'[b], line'[b])
    BY <1>2, <2>1, <2>2, <2>3, MutexAssumption DEF CoresOK, sendThread
  <2>5. QED
    BY <2>1, <2>2, <2>3, <2>4, OneQueue DEF sendThread
<1>8. ASSUME NEW b \in Boards, SerialExit(b) PROVE QueueInv'
  <2>1. /\ Step(serial_pc, b, "copy", "signal")
        /\ send_mutex' = [send_mutex EXCEPT ![b] = NONE]
        /\ send_queue' = [send_queue EXCEPT ![b].msg = line[b]]
        /\ UNCHANGED <<line, sendThread>>
    BY <1>8 DEF SerialExit, SerialOnly
  <2>2. /\ send_queue' = [c \in Boards |-> send_queue'[c]]
        /\ \A c \in Boards : IsContent(send_queue'[c])
        /\ send_queue'[b].msg = line[b] /\ send_queue'[b].time = send_queue[b].time
        /\ \A c \in Boards : c # b => send_queue'[c] = send_queue[c]
    <3>1. Contents(send_queue)
      BY <1>2 DEF QueueShape, Contents
    <3>2. Rest(send_queue, send_queue', b, line[b])
      BY <2>1 DEF Rest
    <3>3. QED
      BY <3>1, <3>2, SecondHalf DEF Contents
  <2>3. /\ QueueShape' /\ serial_pc[b] = "copy" /\ serial_pc'[b] = "signal"
        /\ send_mutex'[b] = NONE
        /\ \A c \in Boards : c # b => serial_pc'[c] = serial_pc[c] /\ send_mutex'[c] = send_mutex[c]
    BY <1>2, <2>1, <2>2 DEF Step, QueueShape, sendThread
  <2>4. CoresOK(send_pc'[b], serial_pc'[b], send_mutex'[b], send_queue'[b], send_buf'[b], line'[b])
    BY <1>2, <2>1, <2>2, <2>3, MutexAssumption DEF CoresOK, sendThread
  <2>5. QED
    BY <2>1, <2>2, <2>3, <2>4, OneQueue DEF sendThread
<1>9. ASSUME NEW b \in Boards, SerialLoad(b) \/ SerialStore(b) PROVE QueueInv'
  <2>1. /\ UNCHANGED <<queueVars, line, sendThread>>
        /\ \/ Step(serial_pc, b, "signal", "loaded") \/ Step(serial_pc, b, "loaded", "wait")
    BY <1>9 DEF SerialLoad, SerialStore, SerialOnly
  <2>2. /\ QueueShape' /\ serial_pc[b] # "copy" /\ serial_pc'[b] # "copy"
        /\ \A c \in Boards : c # b => serial_pc'[c] = serial_pc[c]
    BY <1>2, <2>1 DEF Step, QueueShape, queueVars, sendThread
  <2>3. CoresOK(send_pc'[b], serial_pc'[b], send_mutex'[b], send_queue'[b], send_buf'[b], line'[b])
    BY <1>2, <2>1, <2>2 DEF CoresOK, queueVars, sendThread
  <2>4. QED
    BY <2>1, <2>2, <2>3, OneQueue DEF queueVars, sendThread
<1>10. CASE UNCHANGED allVars
  BY <1>1, <1>10 DEF allVars
<1>11. QED
  BY <1>1, <1>3, <1>4, <1>5, <1>6, <1>7, <1>8, <1>9, <1>10, QueueSteps

(* The two cores never mix two packets.                                    *)
THEOREM SendNeverTorn == Spec => []NoTornSend
<1>1. QueueInv => NoTornSend
  BY DEF QueueInv, CoresOK, NoTornSend
<1>2. QED
  BY <1>1, InitQueue, StepQueue, PTL DEF Spec

-----------------------------------------------------------------------------
(* Addresses *)

Live(d) == Stations[d] \cup {AP}

AddrOf(d, b) ==
  IF b = AP THEN AP_ADDR
  ELSE IF d = "three_connect" THEN StationAddr(b) ELSE STATION_ADDR

(* A board that can be reached has the address that main() gives it.       *)
AddressInv ==
  /\ demo \in Demos
  /\ main = [b \in Boards |-> main[b]] /\ my_addr = [b \in Boards |-> my_addr[b]]
  /\ \A b \in Boards :
       /\ main[b] \in {"scan", "join"} => b \in Stations[demo]
       /\ main[b] \in {"net", "callback", "threads"} =>
            b \in Live(demo) /\ my_addr[b] = AddrOf(demo, b)

(* No two boards of a demo have the same address.                          *)
LEMMA AddressesDiffer ==
  ASSUME NEW d \in Demos, NEW a \in Live(d), NEW c \in Live(d), AddrOf(d, a) = AddrOf(d, c)
  PROVE  a = c
<1>1. Live(d) \subseteq IF d = "three_connect" THEN {0, 1, 2} ELSE {0, 1}
  BY DemosAssumption DEF Live, AP
<1>2. QED
  BY <1>1 DEF AddrOf, AP, AP_ADDR, STATION_ADDR, StationAddr, STATION_ADDR_1, STATION_ADDR_2

LEMMA LiveAreBoards == \A d \in Demos : Live(d) \subseteq Boards
BY DemosAssumption DEF Live, AP, Boards

-----------------------------------------------------------------------------
(* The packets *)

(* A board of the demo sent this data packet, unless it was put together   *)
(* from two.                                                               *)
DataOK(d, s, p) ==
  p.torn \/ \E c \in Live(d) : p.src = AddrOf(d, c) /\ <<p.num, p.msg>> \in s[c]

(* What a board may get, given what was sent                               *)
PacketOK(d, s, b, p) ==
  /\ p.type = "data" => DataOK(d, s, p)
  /\ p.type = "ack" => p.torn \/ <<p.num, p.msg>> \in s[b]

(* What a board may have in its receive buffer, in the copy of the recv    *)
(* thread, and in return_data while an ack is due                          *)
MailOK(d, s, b, buffer, signals, pc, copy, answer, acks) ==
  /\ buffer = NONE \/ PacketOK(d, s, b, buffer)
  /\ signals > 0 \/ pc # "wait" => PacketOK(d, s, b, buffer)
  /\ pc = "copy" => PacketOK(d, s, b, copy)
  /\ acks \in Int
  /\ acks > 0 => DataOK(d, s, answer)

MailOf(b) == MailOK(demo, sent, b, recv_data[b], new_udp_recv_s[b], recv_pc[b],
                    tbuf[b], return_data[b], new_udp_ack_s[b])

MailShape ==
  /\ recv_data = [b \in Boards |-> recv_data[b]]
  /\ new_udp_recv_s = [b \in Boards |-> new_udp_recv_s[b]]
  /\ recv_pc = [b \in Boards |-> recv_pc[b]]
  /\ tbuf = [b \in Boards |-> tbuf[b]]
  /\ return_data = [b \in Boards |-> return_data[b]]
  /\ new_udp_ack_s = [b \in Boards |-> new_udp_ack_s[b]]
  /\ sent = [b \in Boards |-> sent[b]]

MailInv == AddressInv /\ MailShape /\ \A b \in Boards : MailOf(b)

LEMMA InitMail == InitDemos => MailInv
BY DEF InitDemos, Init, MailInv, AddressInv, MailShape, MailOf, MailOK

(* Only main() gives a board its address.                                  *)
LEMMA StepAddress ==
  ASSUME AddressInv, Next
  PROVE  AddressInv' /\ demo' = demo
<1>1. PICK b \in Boards :
           \/ Booting(b) \/ Thread(b) \/ Core1(b) \/ AlarmCallback(b)
           \/ SignalUnlocked(b) \/ SendMulti(b) \/ SerialMulti(b)
  BY StepCases
<1>2. CASE UNCHANGED bootVars
  BY <1>2 DEF bootVars, AddressInv
<1>3. CASE Thread(b) \/ Core1(b) \/ AlarmCallback(b) \/ SendMulti(b) \/ SerialMulti(b)
  <2>1. UNCHANGED bootVars
    BY <1>3 DEF Thread, Send, SendFails, SendWait, RecvLoad, RecvStore, RecvCopy,
                RecvRead, RecvReadMulti, Copied, Ack, Serial, Core1, LedOn, RestartAlarm, ResetFlag,
                AlarmCallback, NotLed, SendMulti, SendLoad, SendStore, SendEnter, SendExit,
                SendTo, SendOnly, SerialMulti, SerialRead, SerialEnter, SerialExit,
                SerialLoad, SerialStore, SerialOnly
  <2>2. QED
    BY <1>2, <2>1
<1>4. AP \in Boards /\ AP \in Live(demo) /\ AddrOf(demo, AP) = AP_ADDR
  BY DEF AP, Boards, Live, AddrOf
<1>5. AP \notin Stations[demo]
  BY DemosAssumption DEF AP, AddressInv
<1>6. ASSUME NEW dest, EnableAp(dest) PROVE AddressInv' /\ demo' = demo
  BY <1>4, <1>6 DEF EnableAp, Boot, Address, NoThreads, AddressInv
<1>7. CASE EnableStation(b) \/ StartScan(b) \/ FindTarget(b)
  BY <1>7 DEF EnableStation, StartScan, FindTarget, Boot, NoThreads, AddressInv
<1>8. CASE Join(b, StationOf(b))
  <2>1. /\ main[b] = "join" /\ main' = [main EXCEPT ![b] = "net"]
        /\ my_addr' = [my_addr EXCEPT ![b] = StationOf(b)] /\ demo' = demo
    BY <1>8 DEF Join, Boot, Address, NoThreads
  <2>2. b \in Stations[demo]
    BY <2>1 DEF AddressInv
  <2>3. b \in Live(demo) /\ StationOf(b) = AddrOf(demo, b)
    BY <1>5, <2>2 DEF Live, StationOf, AddrOf
  <2>4. QED
    BY <2>1, <2>3 DEF AddressInv
<1>9. CASE JoinFails(b)
  BY <1>9 DEF JoinFails, Boot, NoThreads, AddressInv
<1>10. CASE RegisterCallback(b) \/ InitSemaphores(b) \/ SignalUnlocked(b)
  BY <1>10 DEF RegisterCallback, InitSemaphores, SignalUnlocked, Boot, NoThreads, AddressInv
<1>11. QED
  BY <1>1, <1>3, <1>6, <1>7, <1>8, <1>9, <1>10 DEF Booting

(* What was sent stays sent.                                               *)
LEMMA MailStays ==
  ASSUME NEW d \in Demos, NEW s, NEW t, \A c \in Boards : s[c] \subseteq t[c],
         NEW b \in Boards, NEW buffer, NEW signals, NEW pc, NEW copy, NEW answer, NEW acks,
         MailOK(d, s, b, buffer, signals, pc, copy, answer, acks)
  PROVE  MailOK(d, t, b, buffer, signals, pc, copy, answer, acks)
<1>1. \A p : DataOK(d, s, p) => DataOK(d, t, p)
  BY LiveAreBoards DEF DataOK
<1>2. \A p : PacketOK(d, s, b, p) => PacketOK(d, t, b, p)
  BY <1>1 DEF PacketOK
<1>3. QED
  BY <1>1, <1>2 DEF MailOK

(* What becomes of a copy is one of two packets or torn.                   *)
LEMMA TornPackets ==
  ASSUME NEW p, NEW q, NEW t \in Torn(p, q)
  PROVE  t = p \/ t = q \/ t.torn = TRUE
<1>1. CASE t = Garbage
  BY <1>1 DEF Garbage
<1>2. ASSUME NEW srcs, NEW nums,
             t \in [type : {p.type}, src : srcs, num : nums,
                   msg : {q.msg, NONE}, torn : {TRUE}]
      PROVE  t.torn = TRUE
  BY <1>2
<1>3. QED
  BY <1>1, <1>2 DEF Torn

(* Only the threads that send, receive and acknowledge change the mail.    *)
LEMMA MailSteps ==
  ASSUME Next
  PROVE  \/ UNCHANGED <<recvVars, recv_pc, ackVars, sent, acked>>
         \/ \E b \in Boards :
              \/ InitSemaphores(b) \/ SignalUnlocked(b) \/ (demo # "multicore" /\ Send(b))
              \/ SendTo(b) \/ RecvLoad(b) \/ RecvStore(b) \/ RecvCopy(b)
              \/ RecvRead(b) \/ RecvReadMulti(b) \/ Ack(b)
<1>1. PICK b \in Boards :
           \/ Booting(b) \/ Thread(b) \/ Core1(b) \/ AlarmCallback(b)
           \/ SignalUnlocked(b) \/ SendMulti(b) \/ SerialMulti(b)
  BY StepCases
<1>2. CASE \/ EnableAp(STATION_ADDR) \/ EnableAp(STATION_BASE_ADDR) \/ EnableStation(b)
           \/ StartScan(b) \/ FindTarget(b) \/ Join(b, StationOf(b)) \/ JoinFails(b)
           \/ RegisterCallback(b)
  BY <1>2 DEF EnableAp, EnableStation, StartScan, FindTarget, Join, JoinFails,
              RegisterCallback, NoThreads, sendVars, passVars
<1>3. CASE Core1(b) \/ AlarmCallback(b) \/ SerialMulti(b) \/ Serial(b) \/ SendFails(b)
  BY <1>3 DEF Core1, LedOn, RestartAlarm, ResetFlag, AlarmCallback, NotLed, sendVars,
              passVars, SerialMulti, SerialRead, SerialEnter, SerialExit, SerialLoad,
              SerialStore, SerialOnly, Serial, SendFails, SendWait
<1>4. CASE SendLoad(b) \/ SendStore(b) \/ SendEnter(b) \/ SendExit(b)
  BY <1>4 DEF SendLoad, SendStore, SendEnter, SendExit, SendOnly, NotOut, passVars
<1>5. QED
  BY <1>1, <1>2, <1>3, <1>4, Zenon DEF Booting, Thread, SendMulti

(* A packet that every board with its address may get does no harm.        *)
LEMMA Delivered ==
  ASSUME MailInv, AddressInv', demo' = demo, MailShape',
         \A c \in Boards : sent[c] \subseteq sent'[c],
         recv_pc' = recv_pc, return_data' = return_data,
         \A c \in Boards : new_udp_ack_s'[c] \in Int /\ new_udp_ack_s'[c] =< new_udp_ack_s[c],
         NEW b \in Boards, NEW addr, NEW p, Transmit(b, addr, p),
         \A c \in Live(demo) : AddrOf(demo, c) = addr => PacketOK(demo, sent', c, p)
  PROVE  MailInv'
<1>1. demo \in Demos /\ \A c \in Boards : MailOf(c)
  BY DEF MailInv, AddressInv
<1>2. ASSUME NEW c \in Boards
      PROVE  MailOK(demo, sent', c, recv_data[c], new_udp_recv_s[c], recv_pc[c],
                    tbuf[c], return_data[c], new_udp_ack_s[c])
  BY <1>1, MailStays DEF MailOf
<1>3. CASE UNCHANGED <<recv_data, new_udp_recv_s, tbuf>>
  BY <1>2, <1>3 DEF MailInv, MailOf, MailOK
<1>4. ASSUME NEW a \in Reached(b, addr), Callback(a, p) PROVE MailInv'
  <2>1. a \in Live(demo) /\ AddrOf(demo, a) = addr
    BY DEF Reached, MailInv, AddressInv
  <2>2. a \in Boards /\ PacketOK(demo, sent', a, p)
    BY <2>1 DEF Reached
  <2>3. /\ recv_data'[a] = p
        /\ \A c \in Boards : c # a => /\ recv_data'[c] = recv_data[c]
                                      /\ new_udp_recv_s'[c] = new_udp_recv_s[c]
                                      /\ tbuf'[c] = tbuf[c]
        /\ recv_pc[a] = "copy" => tbuf'[a] \in Torn(tbuf[a], p)
    BY <1>4, <2>2 DEF Callback, MailInv, MailShape
  <2>4. ASSUME NEW c \in Boards PROVE MailOf(c)'
    <3>1. MailOK(demo, sent', c, recv_data[c], new_udp_recv_s[c], recv_pc[c],
                 tbuf[c], return_data[c], new_udp_ack_s[c])
      BY <1>2
    <3>2. CASE c = a
      <4>1. recv_pc[a] = "copy" => PacketOK(demo, sent', a, tbuf'[a])
        <5>1. recv_pc[a] = "copy" => tbuf'[a] = tbuf[a] \/ tbuf'[a] = p \/ tbuf'[a].torn = TRUE
          BY <2>3, TornPackets
        <5>2. tbuf'[a].torn = TRUE => PacketOK(demo, sent', a, tbuf'[a])
          BY DEF PacketOK, DataOK
        <5>3. recv_pc[a] = "copy" => PacketOK(demo, sent', a, tbuf[a])
          BY <3>1, <3>2 DEF MailOK
        <5>4. QED
          BY <2>2, <5>1, <5>2, <5>3
      <4>2. QED
        BY <2>2, <2>3, <3>1, <3>2, <4>1 DEF MailOf, MailOK
    <3>3. CASE c # a
      BY <2>3, <3>1, <3>3 DEF MailOf, MailOK
    <3>4. QED
      BY <3>2, <3>3
  <2>5. QED
    BY <2>4 DEF MailInv
<1>5. QED
  BY <1>3, <1>4 DEF Transmit

LEMMA StepMail == MailInv /\ [Next]_allVars => MailInv'
<1> SUFFICES ASSUME MailInv, [Next]_allVars PROVE MailInv'
  OBVIOUS
<1>1. demo \in Demos /\ MailShape /\ \A b \in Boards : MailOf(b)
  BY DEF MailInv, AddressInv
<1>2. CASE UNCHANGED allVars
  BY <1>2 DEF allVars, vars, bootVars, sendVars, recvVars, passVars, ackVars,
              MailInv, AddressInv, MailShape, MailOf
<1> SUFFICES ASSUME Next PROVE MailInv'
  BY <1>2
<1>3. AddressInv' /\ demo' = demo
  BY StepAddress DEF MailInv
<1>4. CASE UNCHANGED <<recvVars, recv_pc, ackVars, sent, acked>>
  BY <1>1, <1>3, <1>4 DEF recvVars, ackVars, MailInv, MailShape, MailOf
<1>5. ASSUME NEW b \in Boards, InitSemaphores(b) PROVE MailInv'
  <2>1. /\ new_udp_recv_s' = [new_udp_recv_s EXCEPT ![b] = 0]
        /\ UNCHANGED <<recv_data, recv_pc, tbuf, return_data, new_udp_ack_s, sent>>
    BY <1>5 DEF InitSemaphores, NoThreads, sendVars, passVars, ackVars
  <2>2. MailShape'
    BY <1>1, <2>1 DEF MailShape
  <2>3. ASSUME NEW c \in Boards PROVE MailOf(c)'
    BY <1>1, <1>3, <2>1 DEF MailOf, MailOK, MailShape
  <2>4. QED
    BY <1>3, <2>2, <2>3 DEF MailInv
<1>6. ASSUME NEW b \in Boards, SignalUnlocked(b) PROVE MailInv'
  BY <1>1, <1>3, <1>6 DEF SignalUnlocked, NoThreads, sendVars, passVars, ackVars,
                          MailInv, MailShape, MailOf
<1>7. ASSUME NEW b \in Boards, Send(b) PROVE MailInv'
  <2>1. /\ main[b] = "threads" /\ Transmit(b, dest_addr_str[b], Data(b, send_data[b]))
        /\ sent' = [sent EXCEPT ![b] = @ \cup {<<packet_counter[b], send_data[b]>>}]
        /\ UNCHANGED <<recv_pc, return_data, new_udp_ack_s>>
    BY <1>7 DEF Send, SendWait, Turn, passVars, ackVars
  <2>2. b \in Live(demo) /\ my_addr[b] = AddrOf(demo, b)
    BY <2>1 DEF MailInv, AddressInv
  <2>3. /\ \A c \in Boards : sent[c] \subseteq sent'[c]
        /\ <<packet_counter[b], send_data[b]>> \in sent'[b]
    BY <1>1, <2>1 DEF MailShape
  <2>4. \A c : PacketOK(demo, sent', c, Data(b, send_data[b]))
    BY <2>2, <2>3 DEF PacketOK, DataOK, Data
  <2>5. MailShape'
    BY <1>1, <2>1 DEF MailShape, Transmit, Callback
  <2>6. \A c \in Boards :
         new_udp_ack_s'[c] \in Int /\ new_udp_ack_s'[c] =< new_udp_ack_s[c]
    BY <1>1, <2>1 DEF MailOf, MailOK
  <2>7. QED
    BY <1>3, <2>1, <2>3, <2>4, <2>5, <2>6, Delivered
<1>8. ASSUME NEW b \in Boards, SendTo(b) PROVE MailInv'
  <2>1. main[b] = "threads" /\ UNCHANGED <<recv_pc, return_data, new_udp_ack_s>>
    BY <1>8 DEF SendTo, SendOnly, passVars, ackVars
  <2>2. CASE UNCHANGED <<sent, recvVars>>
    BY <1>1, <1>3, <2>1, <2>2 DEF recvVars, MailInv, MailShape, MailOf
  <2> DEFINE p == [type |-> "data", src |-> my_addr[b], num |-> send_buf[b].num,
                   msg |-> send_buf[b].msg, torn |-> FALSE]
  <2>3. ASSUME Transmit(b, dest_addr_str[b], p),
               sent' = [sent EXCEPT ![b] = @ \cup {<<send_buf[b].num, send_buf[b].msg>>}]
        PROVE  MailInv'
    <3>1. b \in Live(demo) /\ my_addr[b] = AddrOf(demo, b)
      BY <2>1 DEF MailInv, AddressInv
    <3>2. /\ \A c \in Boards : sent[c] \subseteq sent'[c]
          /\ <<send_buf[b].num, send_buf[b].msg>> \in sent'[b]
      BY <1>1, <2>3 DEF MailShape
    <3>3. \A c : PacketOK(demo, sent', c, p)
      BY <3>1, <3>2 DEF PacketOK, DataOK
    <3>4. MailShape'
      BY <1>1, <2>1, <2>3 DEF MailShape, Transmit, Callback
    <3>5. \A c \in Boards :
           new_udp_ack_s'[c] \in Int /\ new_udp_ack_s'[c] =< new_udp_ack_s[c]
      BY <1>1, <2>1 DEF MailOf, MailOK
    <3>6. QED
      BY <1>3, <2>1, <2>3, <3>2, <3>3, <3>4, <3>5, Delivered
  <2>4. QED
    BY <1>8, <2>2, <2>3 DEF SendTo
<1>9. ASSUME NEW b \in Boards, RecvLoad(b) PROVE MailInv'
  <2>1. /\ new_udp_recv_s[b] > 0 /\ recv_pc' = [recv_pc EXCEPT ![b] = "loaded"]
        /\ UNCHANGED <<recv_data, new_udp_recv_s, tbuf, return_data, new_udp_ack_s, sent>>
    BY <1>9 DEF RecvLoad, sendVars, recvVars, ackVars
  <2>2. MailShape'
    BY <1>1, <2>1 DEF MailShape
  <2>3. ASSUME NEW c \in Boards PROVE MailOf(c)'
    BY <1>1, <1>3, <2>1 DEF MailOf, MailOK, MailShape
  <2>4. QED
    BY <1>3, <2>2, <2>3 DEF MailInv
<1>10. ASSUME NEW b \in Boards, RecvStore(b) PROVE MailInv'
  <2>1. /\ recv_pc[b] = "loaded" /\ recv_pc' = [recv_pc EXCEPT ![b] = "read"]
        /\ new_udp_recv_s' = [new_udp_recv_s EXCEPT ![b] = count_read[b] - 1]
        /\ UNCHANGED <<recv_data, tbuf, return_data, new_udp_ack_s, sent>>
    BY <1>10 DEF RecvStore, sendVars, ackVars
  <2>2. MailShape'
    BY <1>1, <2>1 DEF MailShape
  <2>3. ASSUME NEW c \in Boards PROVE MailOf(c)'
    <3>1. CASE c = b
      BY <1>1, <1>3, <2>1, <3>1 DEF MailOf, MailOK, MailShape
    <3>2. CASE c # b
      BY <1>1, <1>3, <2>1, <3>2 DEF MailOf, MailOK, MailShape
    <3>3. QED
      BY <3>1, <3>2
  <2>4. QED
    BY <1>3, <2>2, <2>3 DEF MailInv
<1>11. ASSUME NEW b \in Boards, RecvCopy(b) PROVE MailInv'
  <2>1. /\ recv_pc[b] = "read" /\ recv_pc' = [recv_pc EXCEPT ![b] = "copy"]
        /\ tbuf' = [tbuf EXCEPT ![b] = recv_data[b]]
        /\ UNCHANGED <<recv_data, new_udp_recv_s, return_data, new_udp_ack_s, sent>>
    BY <1>11 DEF RecvCopy, sendVars, ackVars
  <2>2. MailShape'
    BY <1>1, <2>1 DEF MailShape
  <2>3. ASSUME NEW c \in Boards PROVE MailOf(c)'
    <3>1. CASE c = b
      BY <1>1, <1>3, <2>1, <3>1 DEF MailOf, MailOK, MailShape
    <3>2. CASE c # b
      BY <1>1, <1>3, <2>1, <3>2 DEF MailOf, MailOK, MailShape
    <3>3. QED
      BY <3>1, <3>2
  <2>4. QED
    BY <1>3, <2>2, <2>3 DEF MailInv
<1>12. ASSUME NEW b \in Boards, RecvRead(b) \/ RecvReadMulti(b) PROVE MailInv'
  <2>1. /\ recv_pc[b] = "copy" /\ recv_pc' = [recv_pc EXCEPT ![b] = "wait"]
        /\ tbuf' = [tbuf EXCEPT ![b] = NONE]
        /\ UNCHANGED <<recv_data, new_udp_recv_s, sent>>
        /\ \/ tbuf[b].type = "data" /\ Acknowledge(b, tbuf[b])
           \/ UNCHANGED ackVars
    BY <1>12 DEF RecvRead, RecvReadMulti, Copied, sendVars
  <2>2. MailShape'
    BY <1>1, <2>1 DEF MailShape, Acknowledge, ackVars
  <2>3. PacketOK(demo, sent, b, tbuf[b])
    BY <1>1, <2>1 DEF MailOf, MailOK
  <2>4. /\ recv_pc'[b] = "wait"
        /\ \A c \in Boards : c # b => recv_pc'[c] = recv_pc[c] /\ tbuf'[c] = tbuf[c]
    BY <1>1, <2>1 DEF MailShape
  <2>5. ASSUME NEW c \in Boards PROVE MailOf(c)'
    <3>1. CASE UNCHANGED ackVars
      <4>1. MailOf(c)
        BY <1>1
      <4>2. QED
        BY <1>3, <2>1, <2>4, <3>1, <4>1 DEF MailOf, MailOK, ackVars
    <3>2. CASE tbuf[b].type = "data" /\ Acknowledge(b, tbuf[b])
      <4>1. DataOK(demo, sent, tbuf[b])
        BY <2>3, <3>2 DEF PacketOK
      <4>2. CASE c = b
        BY <1>1, <1>3, <2>1, <2>4, <3>2, <4>1, <4>2
           DEF MailOf, MailOK, MailShape, Acknowledge
      <4>3. CASE c # b
        BY <1>1, <1>3, <2>1, <2>4, <3>2, <4>3 DEF MailOf, MailOK, MailShape, Acknowledge
      <4>4. QED
        BY <4>2, <4>3
    <3>3. QED
      BY <2>1, <3>1, <3>2
  <2>6. QED
    BY <1>3, <2>2, <2>5 DEF MailInv
<1>13. ASSUME NEW b \in Boards, Ack(b) PROVE MailInv'
  <2>1. /\ new_udp_ack_s[b] > 0 /\ new_udp_ack_s' = [new_udp_ack_s EXCEPT ![b] = @ - 1]
        /\ Transmit(b, return_data[b].src, AckFor(b))
        /\ UNCHANGED <<recv_pc, return_data, sent>>
    BY <1>13 DEF Ack, sendVars, passVars
  <2>2. DataOK(demo, sent, return_data[b])
    BY <1>1, <2>1 DEF MailOf, MailOK
  <2>3. ASSUME NEW c \in Live(demo), AddrOf(demo, c) = return_data[b].src
        PROVE  PacketOK(demo, sent', c, AckFor(b))
    <3>1. return_data[b].torn \/ <<return_data[b].num, return_data[b].msg>> \in sent[c]
      BY <1>1, <2>2, <2>3, AddressesDiffer DEF DataOK
    <3>2. QED
      BY <2>1, <3>1 DEF PacketOK, AckFor
  <2>4. MailShape'
    BY <1>1, <2>1 DEF MailShape, Transmit, Callback
  <2>5. ASSUME NEW c \in Boards
        PROVE  new_udp_ack_s'[c] \in Int /\ new_udp_ack_s'[c] =< new_udp_ack_s[c]
    <3>1. new_udp_ack_s[c] \in Int
      BY <1>1 DEF MailOf, MailOK
    <3>2. new_udp_ack_s'[c] = IF c = b THEN new_udp_ack_s[c] - 1 ELSE new_udp_ack_s[c]
      BY <1>1, <2>1 DEF MailShape
    <3>3. QED
      BY <3>1, <3>2
  <2>6. QED
    BY <1>3, <2>1, <2>3, <2>4, <2>5, Delivered
<1>14. QED
  BY <1>4, <1>5, <1>6, <1>7, <1>8, <1>9, <1>10, <1>11, <1>12, <1>13, MailSteps

(* An ack names a message of the board it reaches, with the number it was  *)
(* sent with, unless the receive interrupt has hit the copy of the packet  *)
(* that it answers.                                                        *)
THEOREM UntornAcksAlwaysAnswer == Spec => []UntornAcksAnswer
<1>1. MailInv => UntornAcksAnswer
  BY DEF MailInv, MailOf, MailOK, PacketOK, UntornAcksAnswer
<1>2. QED
  BY <1>1, InitMail, StepMail, PTL DEF Spec
-----------------------------------------------------------------------------
(* The count of what is sent *)

sendAll == <<demo, todo, sendVars, multiVars>>

LEMMA SendSteps ==
  ASSUME Next
  PROVE  \/ UNCHANGED sendAll
         \/ \E b \in Boards :
              \/ /\ demo # "multicore" /\ UNCHANGED multiVars
                 /\ Send(b) \/ SendFails(b) \/ Serial(b)
              \/ demo = "multicore" /\ (SendMulti(b) \/ SerialMulti(b))
<1>1. PICK b \in Boards :
           \/ /\ Booting(b) \/ Thread(b) \/ Core1(b) \/ AlarmCallback(b)
              /\ UNCHANGED multiVars
           \/ SignalUnlocked(b) \/ SendMulti(b) \/ SerialMulti(b)
  BY StepCases
<1>2. ASSUME Booting(b) PROVE UNCHANGED <<demo, todo, sendVars>>
  <2>1. CASE b = AP /\ (EnableAp(STATION_ADDR) \/ EnableAp(STATION_BASE_ADDR))
    BY <2>1 DEF EnableAp, NoThreads
  <2>2. CASE EnableStation(b) \/ StartScan(b) \/ FindTarget(b)
    BY <2>2 DEF EnableStation, StartScan, FindTarget, NoThreads
  <2>3. CASE \/ Join(b, StationOf(b)) \/ JoinFails(b) \/ RegisterCallback(b)
             \/ InitSemaphores(b)
    BY <2>3 DEF Join, JoinFails, RegisterCallback, InitSemaphores, NoThreads
  <2>4. QED
    BY <1>2, <2>1, <2>2, <2>3, Zenon DEF Booting
<1>3. ASSUME Core1(b) \/ AlarmCallback(b) PROVE UNCHANGED <<demo, todo, sendVars>>
  BY <1>3 DEF Core1, LedOn, RestartAlarm, ResetFlag, AlarmCallback, NotLed, bootVars
<1>4. ASSUME \/ RecvLoad(b) \/ RecvStore(b) \/ RecvCopy(b) \/ RecvRead(b)
             \/ RecvReadMulti(b) \/ Ack(b)
      PROVE  UNCHANGED <<demo, todo, sendVars>>
  BY <1>4 DEF RecvLoad, RecvStore, RecvCopy, RecvRead, RecvReadMulti, Copied, Ack, bootVars
<1>5. ASSUME SignalUnlocked(b) PROVE UNCHANGED sendAll
  BY <1>5 DEF SignalUnlocked, NoThreads, sendAll
<1>6. ASSUME UNCHANGED <<demo, todo, sendVars>>, UNCHANGED multiVars PROVE UNCHANGED sendAll
  BY <1>6 DEF sendAll
<1>7. SendMulti(b) \/ SerialMulti(b) => demo = "multicore"
  BY DEF SendMulti, SendLoad, SendStore, SendEnter, SendExit, SendTo, SendOnly,
         SerialMulti, SerialRead, SerialEnter, SerialExit, SerialLoad, SerialStore,
         SerialOnly
<1>8. QED
  BY <1>1, <1>2, <1>3, <1>4, <1>5, <1>6, <1>7, Zenon DEF Thread

Total(f) == f[0] + f[1] + f[2]

LEMMA OneChanges ==
  ASSUME NEW f \in [Boards -> Int], NEW g \in [Boards -> Int], NEW b \in Boards,
         \A c \in Boards : c # b => g[c] = f[c]
  PROVE  Total(g) - Total(f) = g[b] - f[b]
<1>1. b = 0 \/ b = 1 \/ b = 2
  BY DEF Boards
<1>2. /\ f[0] \in Int /\ f[1] \in Int /\ f[2] \in Int
      /\ g[0] \in Int /\ g[1] \in Int /\ g[2] \in Int
  BY DEF Boards
<1>3. /\ 0 # b => g[0] = f[0]
      /\ 1 # b => g[1] = f[1]
      /\ 2 # b => g[2] = f[2]
  BY DEF Boards
<1>4. QED
  BY <1>1, <1>2, <1>3 DEF Total

LEMMA TotalOfNat ==
  ASSUME NEW f \in [Boards -> Nat]
  PROVE  /\ Total(f) \in Nat
         /\ \A b \in Boards : f[b] <= Total(f)
<1>1. f[0] \in Nat /\ f[1] \in Nat /\ f[2] \in Nat
  BY DEF Boards
<1>2. ASSUME NEW b \in Boards PROVE f[b] <= Total(f)
  <2>1. b = 0 \/ b = 1 \/ b = 2
    BY DEF Boards
  <2>2. QED
    BY <1>1, <2>1 DEF Total
<1>3. QED
  BY <1>1, <1>2 DEF Total

(* Packets that the board has sent, those it is signalled for, and the one *)
(* that core 1 has in hand                                                 *)
Loads ==
  [b \in Boards |-> packet_counter[b] + new_udp_send_s[b]
                    + (IF send_pc[b] \in {"lock", "copy", "send"} THEN 1 ELSE 0)]

(* Lines that were typed and signalled                                     *)
Typing == [b \in Boards |-> IF serial_pc[b] = "wait" THEN 0 ELSE 1]
Signalled == Cardinality(Lines[demo] \ todo) - Total(Typing)

SendShape ==
  /\ demo \in Demos /\ todo \subseteq Lines[demo]
  /\ packet_counter \in [Boards -> Nat] /\ new_udp_send_s \in [Boards -> Nat]
  /\ send_pc \in [Boards -> {"wait", "loaded", "lock", "copy", "send"}]
  /\ send_read \in [Boards -> Nat]
  /\ serial_pc \in [Boards -> {"wait", "lock", "copy", "signal", "loaded"}]
  /\ serial_read \in [Boards -> Nat]

(* Core 1 decrements a count that has not gone down since it was loaded,   *)
(* core 0 increments one that has not gone up.                             *)
CountOK(multi, core1, core0, count, read1, read0, n) ==
  /\ core1 = "loaded" => read1 >= 1 /\ read1 <= count
  /\ core0 = "loaded" => count <= read0
  /\ count <= n /\ read1 <= n /\ read0 <= n
  /\ ~multi => core1 = "wait" /\ core0 = "wait"

CountOf(b, n) ==
  CountOK(demo = "multicore", send_pc[b], serial_pc[b], new_udp_send_s[b], send_read[b],
          serial_read[b], n)

Budget(multi, t, n) == IF multi THEN 2 * t <= n * (n + 1) ELSE t <= n

SendInv ==
  /\ SendShape
  /\ \A b \in Boards : CountOf(b, Signalled)
  /\ Budget(demo = "multicore", Total(Loads), Signalled)

LEMMA LoadsShape == SendShape => Loads \in [Boards -> Nat] /\ Typing \in [Boards -> Nat]
BY DEF SendShape, Loads, Typing

LEMMA LinesTyped ==
  ASSUME SendShape
  PROVE  /\ IsFiniteSet(Lines[demo])
         /\ Cardinality(Lines[demo] \ todo) \in Nat
         /\ Cardinality(Lines[demo] \ todo) <= Cardinality(Lines[demo])
         /\ \A l \in todo : Cardinality(Lines[demo] \ (todo \ {l}))
                            = Cardinality(Lines[demo] \ todo) + 1
<1>1. IsFiniteSet(Lines[demo])
  BY CountsAssumption DEF SendShape
<1>2. IsFiniteSet(Lines[demo] \ todo)
  BY <1>1, FS_Subset, Zenon
<1>3. ASSUME NEW l \in todo
      PROVE  Cardinality(Lines[demo] \ (todo \ {l})) = Cardinality(Lines[demo] \ todo) + 1
  <2>1. Lines[demo] \ (todo \ {l}) = (Lines[demo] \ todo) \cup {l}
    BY DEF SendShape
  <2>2. l \notin Lines[demo] \ todo
    OBVIOUS
  <2>3. QED
    BY <1>2, <2>1, <2>2, FS_AddElement
<1>4. Lines[demo] \ todo \in SUBSET Lines[demo]
  BY Zenon
<1>5. QED
  BY <1>1, <1>2, <1>3, <1>4, FS_Subset, FS_CardinalityType

LEMMA SignalledType == SendShape => Signalled \in Int
BY LinesTyped, LoadsShape, TotalOfNat DEF Signalled

LEMMA Triangle ==
  ASSUME NEW t \in Int, NEW u \in Int, NEW n \in Nat, 2 * t <= n * (n + 1), u - t <= n + 1
  PROVE  2 * u <= (n + 1) * (n + 2)
<1>1. (n + 1) * (n + 2) = n * (n + 1) + 2 * (n + 1)
  OBVIOUS
<1>2. n * (n + 1) \in Int
  OBVIOUS
<1>3. QED
  BY <1>1, <1>2

(* A step of one board changes the counts by what it does there.           *)
LEMMA SignalledChanges ==
  ASSUME SendShape, SendShape', demo' = demo, NEW b \in Boards,
         \A c \in Boards : c # b => serial_pc'[c] = serial_pc[c],
         NEW d \in Int,
         \/ todo' = todo /\ d = 0
         \/ d = 1 /\ \E l \in todo : todo' = todo \ {l}
  PROVE  Signalled' = Signalled + d - (Typing'[b] - Typing[b])
<1>1. Cardinality(Lines[demo] \ todo') = Cardinality(Lines[demo] \ todo) + d
  <2>1. Cardinality(Lines[demo] \ todo) \in Int
    BY LinesTyped
  <2>2. CASE todo' = todo /\ d = 0
    BY <2>1, <2>2
  <2>3. ASSUME NEW l \in todo, todo' = todo \ {l}, d = 1
        PROVE  Cardinality(Lines[demo] \ todo') = Cardinality(Lines[demo] \ todo) + d
    BY <2>3, LinesTyped
  <2>4. QED
    BY <2>2, <2>3
<1>2. /\ Typing \in [Boards -> Int] /\ Typing' \in [Boards -> Int]
      /\ \A c \in Boards : c # b => Typing'[c] = Typing[c]
  BY DEF Typing
<1>3. Total(Typing') - Total(Typing) = Typing'[b] - Typing[b]
  BY <1>2, OneChanges
<1>4. Total(Typing) \in Int /\ Total(Typing') \in Int /\ Typing[b] \in Int /\ Typing'[b] \in Int
  BY <1>2 DEF Total, Boards
<1>5. Signalled' = Cardinality(Lines[demo] \ todo') - Total(Typing')
  BY DEF Signalled
<1>6. QED
  BY <1>1, <1>3, <1>4, <1>5, LinesTyped DEF Signalled

LEMMA OneSends ==
  ASSUME SendInv, SendShape', demo' = demo, NEW b \in Boards,
         \A c \in Boards : c # b =>
           /\ packet_counter'[c] = packet_counter[c]
           /\ new_udp_send_s'[c] = new_udp_send_s[c]
           /\ send_pc'[c] = send_pc[c] /\ send_read'[c] = send_read[c]
           /\ serial_pc'[c] = serial_pc[c] /\ serial_read'[c] = serial_read[c],
         CountOK(demo = "multicore", send_pc'[b], serial_pc'[b], new_udp_send_s'[b],
                 send_read'[b], serial_read'[b], Signalled'),
         \/ Signalled' = Signalled /\ Loads'[b] <= Loads[b]
         \/ /\ Signalled' = Signalled + 1
            /\ Loads'[b] - Loads[b] <= IF demo = "multicore" THEN Signalled + 1 ELSE 1
  PROVE  SendInv'
<1>1. /\ Signalled \in Nat /\ SendShape
      /\ \A c \in Boards : CountOf(c, Signalled)
      /\ Budget(demo = "multicore", Total(Loads), Signalled)
  <2>1. Signalled \in Int /\ 0 \in Boards /\ CountOf(0, Signalled)
    BY SignalledType DEF SendInv, Boards
  <2>2. new_udp_send_s[0] \in Nat
    BY <2>1 DEF SendInv, SendShape
  <2>3. QED
    BY <2>1, <2>2 DEF CountOf, CountOK, SendInv
<1>2. ASSUME NEW c \in Boards PROVE CountOf(c, Signalled)'
  <2>1. CASE c = b
    BY <2>1 DEF CountOf
  <2>2. CASE c # b
    <3>1. CountOf(c, Signalled)
      BY <1>1
    <3>2. Signalled <= Signalled'
      BY <1>1
    <3>3. /\ new_udp_send_s[c] \in Nat /\ serial_read[c] \in Nat
          /\ send_read[c] \in Nat
      BY <1>1 DEF SendShape
    <3>4. QED
      BY <1>1, <2>2, <3>1, <3>2, <3>3 DEF CountOf, CountOK
  <2>3. QED
    BY <2>1, <2>2
<1>3. Budget(demo = "multicore", Total(Loads'), Signalled')
  <2>1. /\ Loads \in [Boards -> Int] /\ Loads' \in [Boards -> Int]
        /\ \A c \in Boards : c # b => Loads'[c] = Loads[c]
    BY DEF Loads, SendInv, SendShape
  <2>2. Total(Loads') - Total(Loads) = Loads'[b] - Loads[b]
    BY <2>1, OneChanges
  <2>3. Total(Loads) \in Int /\ Total(Loads') \in Int /\ Loads[b] \in Int /\ Loads'[b] \in Int
    BY <2>1 DEF Total, Boards
  <2>4. CASE Signalled' = Signalled /\ Loads'[b] <= Loads[b]
    <3>1. Total(Loads') <= Total(Loads)
      BY <2>2, <2>3, <2>4
    <3>2. Signalled * (Signalled + 1) \in Int
      BY <1>1
    <3>3. QED
      BY <1>1, <2>3, <2>4, <3>1, <3>2 DEF Budget
  <2>5. CASE demo = "multicore" /\ Signalled' = Signalled + 1
             /\ Loads'[b] - Loads[b] <= Signalled + 1
    <3>1. Total(Loads') - Total(Loads) <= Signalled + 1
      BY <2>2, <2>5
    <3>2. 2 * Total(Loads) <= Signalled * (Signalled + 1)
      BY <1>1, <2>5 DEF Budget
    <3>3. 2 * Total(Loads') <= (Signalled + 1) * (Signalled + 2)
      BY <1>1, <2>3, <3>1, <3>2, Triangle
    <3>4. Signalled + 1 + 1 = Signalled + 2
      BY <1>1
    <3>5. QED
      BY <2>5, <3>3, <3>4 DEF Budget
  <2>6. CASE demo # "multicore" /\ Signalled' = Signalled + 1 /\ Loads'[b] - Loads[b] <= 1
    BY <1>1, <2>2, <2>3, <2>6 DEF Budget
  <2>7. QED
    BY <2>4, <2>5, <2>6
<1>4. QED
  BY <1>2, <1>3 DEF SendInv

LEMMA InitSend == InitDemos => SendInv
<1> SUFFICES ASSUME InitDemos PROVE SendInv
  OBVIOUS
<1>1. SendShape
  BY DEF InitDemos, Init, InitMulti, SendShape
<1>2. Lines[demo] \ todo = {} /\ Total(Typing) = 0
  BY DEF InitDemos, Init, InitMulti, Total, Typing, Boards
<1>3. Signalled = 0
  BY <1>2, FS_EmptySet DEF Signalled
<1>4. Total(Loads) = 0
  BY DEF InitDemos, Init, InitMulti, Total, Loads, Boards
<1>5. \A b \in Boards : CountOf(b, Signalled)
  BY <1>3 DEF InitDemos, Init, InitMulti, CountOf, CountOK
<1>6. QED
  BY <1>1, <1>3, <1>4, <1>5 DEF SendInv, Budget

(* What there is to change on a board                                      *)
LEMMA CountsOf ==
  ASSUME SendInv, NEW b \in Boards
  PROVE  /\ packet_counter[b] \in Nat /\ new_udp_send_s[b] \in Nat
         /\ send_read[b] \in Nat /\ serial_read[b] \in Nat /\ Signalled \in Int
         /\ CountOf(b, Signalled)
BY SignalledType DEF SendInv, SendShape

LEMMA StepSendOneCore ==
  ASSUME SendInv, NEW b \in Boards, demo # "multicore", UNCHANGED multiVars,
         Send(b) \/ SendFails(b) \/ Serial(b)
  PROVE  SendInv'
<1>1. SendShape /\ demo' = demo
  BY DEF SendInv, Send, SendFails, SendWait, Serial, bootVars
<1>2. UNCHANGED <<send_pc, send_read, serial_pc, serial_read>>
  BY DEF multiVars, sendThread, serialThread
<1>3. /\ send_pc[b] = "wait" /\ serial_pc[b] = "wait" /\ serial_read[b] <= Signalled
      /\ new_udp_send_s[b] <= Signalled /\ send_read[b] <= Signalled
  BY CountsOf DEF CountOf, CountOK
<1>4. Typing'[b] = Typing[b]
  BY <1>2 DEF Typing
<1>5. CASE Send(b) \/ SendFails(b)
  <2>1. /\ new_udp_send_s[b] > 0 /\ todo' = todo
        /\ new_udp_send_s' = [new_udp_send_s EXCEPT ![b] = @ - 1]
        /\ \/ packet_counter' = [packet_counter EXCEPT ![b] = @ + 1]
           \/ packet_counter' = packet_counter
    BY <1>5 DEF Send, SendFails, SendWait
  <2>2. SendShape'
    BY <1>1, <1>2, <2>1 DEF SendShape
  <2>3. Signalled' = Signalled
    <3>1. Signalled' = Signalled + 0 - (Typing'[b] - Typing[b])
      BY <1>1, <1>2, <2>1, <2>2, SignalledChanges
    <3>2. Typing[b] \in Nat
      BY <1>1, LoadsShape
    <3>3. QED
      BY <1>4, <3>1, <3>2, CountsOf
  <2>4. /\ new_udp_send_s'[b] = new_udp_send_s[b] - 1
        /\ packet_counter'[b] \in {packet_counter[b], packet_counter[b] + 1}
        /\ \A c \in Boards : c # b => /\ new_udp_send_s'[c] = new_udp_send_s[c]
                                      /\ packet_counter'[c] = packet_counter[c]
    BY <1>1, <2>1 DEF SendShape
  <2>5. Loads'[b] <= Loads[b]
    BY <1>2, <1>3, <2>4, CountsOf DEF Loads
  <2>6. CountOK(demo = "multicore", send_pc'[b], serial_pc'[b], new_udp_send_s'[b],
                send_read'[b], serial_read'[b], Signalled')
    BY <1>2, <1>3, <2>3, <2>4, CountsOf DEF CountOK
  <2>7. QED
    BY <1>1, <1>2, <2>2, <2>3, <2>4, <2>5, <2>6, OneSends
<1>6. CASE Serial(b)
  <2>1. /\ \E l \in todo : todo' = todo \ {l}
        /\ new_udp_send_s' = [new_udp_send_s EXCEPT ![b] = @ + 1]
        /\ packet_counter' = packet_counter
    BY <1>6 DEF Serial, TypedLine
  <2>2. SendShape'
    BY <1>1, <1>2, <2>1 DEF SendShape
  <2>3. Signalled' = Signalled + 1
    <3>1. Signalled' = Signalled + 1 - (Typing'[b] - Typing[b])
      BY <1>1, <1>2, <2>1, <2>2, SignalledChanges
    <3>2. Typing[b] \in Nat
      BY <1>1, LoadsShape
    <3>3. QED
      BY <1>4, <3>1, <3>2, CountsOf
  <2>4. /\ new_udp_send_s'[b] = new_udp_send_s[b] + 1
        /\ \A c \in Boards : c # b => new_udp_send_s'[c] = new_udp_send_s[c]
    BY <1>1, <2>1 DEF SendShape
  <2>5. Loads'[b] - Loads[b] = 1
    BY <1>2, <1>3, <2>1, <2>4, CountsOf DEF Loads
  <2>6. CountOK(demo = "multicore", send_pc'[b], serial_pc'[b], new_udp_send_s'[b],
                send_read'[b], serial_read'[b], Signalled')
    BY <1>2, <1>3, <2>3, <2>4, CountsOf DEF CountOK
  <2>7. QED
    BY <1>1, <1>2, <2>1, <2>2, <2>3, <2>4, <2>5, <2>6, OneSends
<1>7. QED
  BY <1>5, <1>6

LEMMA StepSendThread ==
  ASSUME SendInv, NEW b \in Boards, SendMulti(b)
  PROVE  SendInv'
<1>1. /\ demo = "multicore" /\ demo' = demo /\ todo' = todo /\ SendShape
      /\ UNCHANGED <<serial_pc, serial_read>>
  BY DEF SendMulti, SendLoad, SendStore, SendEnter, SendExit, SendTo, SendOnly, bootVars,
         serialThread, SendInv
<1>2. Typing'[b] = Typing[b]
  BY <1>1 DEF Typing
<1>3. SendShape' => Signalled' = Signalled
  <2>1. SendShape' => Signalled' = Signalled + 0 - (Typing'[b] - Typing[b])
    BY <1>1, SignalledChanges
  <2>2. Typing[b] \in Nat
    BY <1>1, LoadsShape
  <2>3. QED
    BY <1>2, <2>1, <2>2, CountsOf
<1>4. CountOK(TRUE, send_pc[b], serial_pc[b], new_udp_send_s[b], send_read[b],
              serial_read[b], Signalled)
  BY <1>1, CountsOf DEF CountOf
<1>5. CASE SendLoad(b)
  <2>1. /\ new_udp_send_s[b] > 0 /\ Step(send_pc, b, "wait", "loaded")
        /\ send_read' = [send_read EXCEPT ![b] = new_udp_send_s[b]]
        /\ UNCHANGED <<new_udp_send_s, packet_counter>>
    BY <1>5 DEF SendLoad, NotOut
  <2>2. SendShape'
    BY <1>1, <2>1, CountsOf DEF SendShape, Step
  <2>3. /\ send_pc[b] = "wait" /\ send_pc'[b] = "loaded" /\ send_read'[b] = new_udp_send_s[b]
        /\ \A c \in Boards : c # b => send_pc'[c] = send_pc[c] /\ send_read'[c] = send_read[c]
    BY <1>1, <2>1 DEF SendShape, Step
  <2>4. Loads'[b] = Loads[b]
    BY <2>1, <2>3 DEF Loads
  <2>5. CountOK(TRUE, send_pc'[b], serial_pc'[b], new_udp_send_s'[b], send_read'[b],
                serial_read'[b], Signalled')
    BY <1>1, <1>3, <1>4, <2>1, <2>2, <2>3, CountsOf DEF CountOK
  <2>6. Loads'[b] <= Loads[b]
    BY <2>4, LoadsShape, <1>1
  <2>7. QED
    BY <1>1, <1>3, <2>1, <2>2, <2>3, <2>5, <2>6, OneSends
<1>6. CASE SendStore(b)
  <2>1. /\ Step(send_pc, b, "loaded", "lock")
        /\ new_udp_send_s' = [new_udp_send_s EXCEPT ![b] = send_read[b] - 1]
        /\ UNCHANGED <<send_read, packet_counter>>
    BY <1>6 DEF SendStore, NotOut
  <2>2. send_pc[b] = "loaded" /\ send_read[b] >= 1 /\ send_read[b] <= new_udp_send_s[b]
    BY <1>4, <2>1 DEF CountOK, Step
  <2>3. SendShape'
    BY <1>1, <2>1, <2>2, CountsOf DEF SendShape, Step
  <2>4. /\ send_pc'[b] = "lock" /\ new_udp_send_s'[b] = send_read[b] - 1
        /\ \A c \in Boards : c # b => /\ send_pc'[c] = send_pc[c]
                                      /\ new_udp_send_s'[c] = new_udp_send_s[c]
    BY <1>1, <2>1 DEF SendShape, Step
  <2>5. Loads'[b] <= Loads[b]
    BY <2>1, <2>2, <2>4, CountsOf DEF Loads
  <2>6. CountOK(TRUE, send_pc'[b], serial_pc'[b], new_udp_send_s'[b], send_read'[b],
                serial_read'[b], Signalled')
    BY <1>1, <1>3, <1>4, <2>1, <2>2, <2>3, <2>4, CountsOf DEF CountOK
  <2>7. QED
    BY <1>1, <1>3, <2>1, <2>3, <2>4, <2>5, <2>6, OneSends
<1>7. CASE SendEnter(b) \/ SendExit(b)
  <2>1. /\ Step(send_pc, b, "lock", "copy") \/ Step(send_pc, b, "copy", "send")
        /\ UNCHANGED <<new_udp_send_s, send_read, packet_counter>>
    BY <1>7 DEF SendEnter, SendExit, NotOut
  <2>2. SendShape'
    BY <1>1, <2>1 DEF SendShape, Step
  <2>3. /\ send_pc[b] \in {"lock", "copy"} /\ send_pc'[b] \in {"copy", "send"}
        /\ \A c \in Boards : c # b => send_pc'[c] = send_pc[c]
    BY <1>1, <2>1 DEF SendShape, Step
  <2>4. Loads'[b] = Loads[b]
    BY <2>1, <2>3 DEF Loads
  <2>5. CountOK(TRUE, send_pc'[b], serial_pc'[b], new_udp_send_s'[b], send_read'[b],
                serial_read'[b], Signalled')
    BY <1>1, <1>3, <1>4, <2>1, <2>2, <2>3, CountsOf DEF CountOK
  <2>6. Loads'[b] <= Loads[b]
    BY <2>4, LoadsShape, <1>1
  <2>7. QED
    BY <1>1, <1>3, <2>1, <2>2, <2>3, <2>5, <2>6, OneSends
<1>8. CASE SendTo(b)
  <2>1. /\ Step(send_pc, b, "send", "wait") /\ UNCHANGED <<new_udp_send_s, send_read>>
        /\ \/ packet_counter' = [packet_counter EXCEPT ![b] = @ + 1]
           \/ packet_counter' = packet_counter
    BY <1>8 DEF SendTo
  <2>2. SendShape'
    BY <1>1, <2>1 DEF SendShape, Step
  <2>3. /\ send_pc[b] = "send" /\ send_pc'[b] = "wait"
        /\ packet_counter'[b] \in {packet_counter[b], packet_counter[b] + 1}
        /\ \A c \in Boards : c # b => /\ send_pc'[c] = send_pc[c]
                                      /\ packet_counter'[c] = packet_counter[c]
    BY <1>1, <2>1 DEF SendShape, Step
  <2>4. Loads'[b] <= Loads[b]
    BY <2>1, <2>3, CountsOf DEF Loads
  <2>5. CountOK(TRUE, send_pc'[b], serial_pc'[b], new_udp_send_s'[b], send_read'[b],
                serial_read'[b], Signalled')
    BY <1>1, <1>3, <1>4, <2>1, <2>2, <2>3, CountsOf DEF CountOK
  <2>6. QED
    BY <1>1, <1>3, <2>1, <2>2, <2>3, <2>4, <2>5, OneSends
<1>9. QED
  BY <1>5, <1>6, <1>7, <1>8 DEF SendMulti

LEMMA StepSerialThread ==
  ASSUME SendInv, NEW b \in Boards, demo = "multicore", SerialMulti(b)
  PROVE  SendInv'
<1>1. /\ demo' = demo /\ SendShape /\ UNCHANGED <<packet_counter, send_pc, send_read>>
  BY DEF SerialMulti, SerialRead, SerialEnter, SerialExit, SerialLoad, SerialStore,
         SerialOnly, bootVars, sendThread, SendInv
<1>2. CountOK(TRUE, send_pc[b], serial_pc[b], new_udp_send_s[b], send_read[b],
              serial_read[b], Signalled)
  BY CountsOf DEF CountOf
<1>3. Typing[b] = (IF serial_pc[b] = "wait" THEN 0 ELSE 1)
      /\ Typing'[b] = (IF serial_pc'[b] = "wait" THEN 0 ELSE 1)
  BY DEF Typing
<1>4. CASE SerialRead(b)
  <2>1. /\ Step(serial_pc, b, "wait", "lock") /\ UNCHANGED <<new_udp_send_s, serial_read>>
        /\ \E l \in todo : todo' = todo \ {l}
    BY <1>4 DEF SerialRead
  <2>2. SendShape'
    BY <1>1, <2>1 DEF SendShape, Step
  <2>3. /\ serial_pc[b] = "wait" /\ serial_pc'[b] = "lock"
        /\ \A c \in Boards : c # b => serial_pc'[c] = serial_pc[c]
    BY <1>1, <2>1 DEF SendShape, Step
  <2>4. Signalled' = Signalled
    <3>1. Signalled' = Signalled + 1 - (Typing'[b] - Typing[b])
      BY <1>1, <2>1, <2>2, <2>3, SignalledChanges
    <3>2. QED
      BY <1>3, <2>3, <3>1, CountsOf
  <2>5. Loads'[b] <= Loads[b]
    BY <1>1, <2>1, CountsOf DEF Loads
  <2>6. CountOK(TRUE, send_pc'[b], serial_pc'[b], new_udp_send_s'[b], send_read'[b],
                serial_read'[b], Signalled')
    BY <1>1, <1>2, <2>1, <2>3, <2>4, CountsOf DEF CountOK
  <2>7. QED
    BY <1>1, <2>1, <2>2, <2>3, <2>4, <2>5, <2>6, OneSends
<1>5. CASE SerialEnter(b) \/ SerialExit(b) \/ SerialLoad(b)
  <2>1. /\ \/ Step(serial_pc, b, "lock", "copy") /\ serial_read' = serial_read
           \/ Step(serial_pc, b, "copy", "signal") /\ serial_read' = serial_read
           \/ /\ Step(serial_pc, b, "signal", "loaded")
              /\ serial_read' = [serial_read EXCEPT ![b] = new_udp_send_s[b]]
        /\ UNCHANGED <<new_udp_send_s, todo>>
    BY <1>5 DEF SerialEnter, SerialExit, SerialLoad
  <2>2. SendShape'
    BY <1>1, <2>1, CountsOf DEF SendShape, Step
  <2>3. /\ serial_pc[b] \in {"lock", "copy", "signal"}
        /\ serial_pc'[b] \in {"copy", "signal", "loaded"}
        /\ \A c \in Boards : c # b => /\ serial_pc'[c] = serial_pc[c]
                                      /\ serial_read'[c] = serial_read[c]
        /\ \/ serial_read'[b] = serial_read[b] /\ serial_pc'[b] # "loaded"
           \/ serial_read'[b] = new_udp_send_s[b]
    BY <1>1, <2>1 DEF SendShape, Step
  <2>4. Signalled' = Signalled
    <3>1. Signalled' = Signalled + 0 - (Typing'[b] - Typing[b])
      BY <1>1, <2>1, <2>2, <2>3, SignalledChanges
    <3>2. QED
      BY <1>3, <2>3, <3>1, CountsOf
  <2>5. Loads'[b] <= Loads[b]
    BY <1>1, <2>1, CountsOf DEF Loads
  <2>6. CountOK(TRUE, send_pc'[b], serial_pc'[b], new_udp_send_s'[b], send_read'[b],
                serial_read'[b], Signalled')
    BY <1>1, <1>2, <2>1, <2>3, <2>4, CountsOf DEF CountOK
  <2>7. QED
    BY <1>1, <2>1, <2>2, <2>3, <2>4, <2>5, <2>6, OneSends
<1>6. CASE SerialStore(b)
  <2>1. /\ Step(serial_pc, b, "loaded", "wait")
        /\ new_udp_send_s' = [new_udp_send_s EXCEPT ![b] = serial_read[b] + 1]
        /\ UNCHANGED <<serial_read, todo>>
    BY <1>6 DEF SerialStore
  <2>2. SendShape'
    BY <1>1, <2>1, CountsOf DEF SendShape, Step
  <2>3. /\ serial_pc[b] = "loaded" /\ serial_pc'[b] = "wait"
        /\ new_udp_send_s'[b] = serial_read[b] + 1
        /\ \A c \in Boards : c # b => /\ serial_pc'[c] = serial_pc[c]
                                      /\ new_udp_send_s'[c] = new_udp_send_s[c]
    BY <1>1, <2>1 DEF SendShape, Step
  <2>4. Signalled' = Signalled + 1
    <3>1. Signalled' = Signalled + 0 - (Typing'[b] - Typing[b])
      BY <1>1, <2>1, <2>2, <2>3, SignalledChanges
    <3>2. QED
      BY <1>3, <2>3, <3>1, CountsOf
  <2>5. new_udp_send_s[b] <= serial_read[b] /\ serial_read[b] <= Signalled
    BY <1>2, <2>3 DEF CountOK
  <2>6. Loads'[b] - Loads[b] <= Signalled + 1
    BY <1>1, <2>3, <2>5, CountsOf DEF Loads
  <2>7. CountOK(TRUE, send_pc'[b], serial_pc'[b], new_udp_send_s'[b], send_read'[b],
                serial_read'[b], Signalled')
    BY <1>1, <1>2, <2>1, <2>3, <2>4, <2>5, CountsOf DEF CountOK
  <2>8. QED
    BY <1>1, <2>1, <2>2, <2>3, <2>4, <2>6, <2>7, OneSends
<1>7. QED
  BY <1>4, <1>5, <1>6 DEF SerialMulti

LEMMA StepSend == SendInv /\ [Next]_allVars => SendInv'
<1> SUFFICES ASSUME SendInv, [Next]_allVars PROVE SendInv'
  OBVIOUS
<1>1. CASE UNCHANGED sendAll
  BY <1>1 DEF sendAll, sendVars, multiVars, sendThread, serialThread, SendInv, SendShape,
              CountOf, Signalled, Typing, Loads
<1>2. CASE UNCHANGED allVars
  BY <1>1, <1>2 DEF allVars, vars, bootVars, sendAll
<1>3. QED
  BY <1>1, <1>2, SendSteps, StepSendOneCore, StepSendThread, StepSerialThread

LEMMA TrianglesGrow ==
  ASSUME NEW x \in Nat, NEW y \in Nat, x <= y
  PROVE  x * (x + 1) <= y * (y + 1) /\ 2 * y <= y * (y + 1)
<1>1. PICK d \in Nat : y = x + d
  <2>1. y - x \in Nat /\ y = x + (y - x)
    OBVIOUS
  <2>2. QED
    BY <2>1
<1>2. d * (2 * x + d + 1) \in Nat
  OBVIOUS
<1>3. y * (y + 1) = x * (x + 1) + d * (2 * x + d + 1)
  BY <1>1
<1>4. x * (x + 1) \in Nat
  OBVIOUS
<1>5. x * (x + 1) <= y * (y + 1)
  BY <1>2, <1>3, <1>4
<1>6. 2 * y <= y * (y + 1)
  <2>1. CASE y = 0
    BY <2>1
  <2>2. CASE y >= 1
    <3>1. PICK z \in Nat : y = z + 1
      <4>1. y - 1 \in Nat /\ y = (y - 1) + 1
        BY <2>2
      <4>2. QED
        BY <4>1
    <3>2. y * (y + 1) = z * (z + 1) + 2 * y
      BY <3>1
    <3>3. z * (z + 1) \in Nat
      OBVIOUS
    <3>4. QED
      BY <3>2, <3>3
  <2>3. QED
    BY <2>1, <2>2
<1>7. QED
  BY <1>5, <1>6

LEMMA Halves ==
  ASSUME NEW t \in Int, NEW m \in Nat, 2 * t <= m
  PROVE  t <= m \div 2 /\ m \div 2 \in Nat
OBVIOUS

(* As many packets are sent and signalled as lines were typed, in the demo *)
(* on two cores as many as 1 + 2 + ... up to the number of lines.          *)
LEMMA SendBound ==
  ASSUME SendInv
  PROVE  /\ MaxSent \in Nat /\ Total(packet_counter) \in Nat
         /\ Total(packet_counter) <= MaxSent
         /\ \A b \in Boards : /\ packet_counter[b] <= MaxSent
                              /\ new_udp_send_s[b] <= MaxSent
                              /\ send_read[b] <= MaxSent
                              /\ serial_read[b] <= MaxSent
<1> DEFINE n == Cardinality(Lines[demo])
<1>1. n \in Nat /\ Signalled \in Int /\ Signalled <= n
  BY LinesTyped, SignalledType, LoadsShape, TotalOfNat, FS_CardinalityType DEF Signalled, SendInv
<1>2. Signalled \in Nat
  <2>1. 0 \in Boards
    BY DEF Boards
  <2>2. new_udp_send_s[0] \in Nat /\ new_udp_send_s[0] <= Signalled
    BY <2>1, CountsOf DEF CountOf, CountOK
  <2>3. QED
    BY <1>1, <2>2
<1>3. MaxSent = IF demo = "multicore" THEN (n * (n + 1)) \div 2 ELSE n
  BY DEF MaxSent
<1> HIDE DEF n
<1>4. /\ Signalled * (Signalled + 1) <= n * (n + 1) /\ 2 * n <= n * (n + 1)
      /\ n * (n + 1) \in Nat /\ Signalled * (Signalled + 1) \in Nat
  BY <1>1, <1>2, TrianglesGrow
<1>5. MaxSent \in Nat /\ n <= MaxSent
  BY <1>1, <1>3, <1>4, Halves
<1>6. Total(Loads) \in Nat
  BY LoadsShape, TotalOfNat DEF SendInv
<1>7. Total(Loads) <= MaxSent
  <2>1. CASE demo = "multicore"
    <3>1. 2 * Total(Loads) <= Signalled * (Signalled + 1)
      BY <2>1 DEF SendInv, Budget
    <3>2. 2 * Total(Loads) <= n * (n + 1)
      BY <1>4, <1>6, <3>1
    <3>3. QED
      BY <1>3, <1>4, <1>6, <2>1, <3>2, Halves
  <2>2. CASE demo # "multicore"
    BY <1>1, <1>2, <1>3, <1>6, <2>2 DEF SendInv, Budget
  <2>3. QED
    BY <2>1, <2>2
<1>8. \A b \in Boards : packet_counter[b] \in Nat /\ packet_counter[b] <= Loads[b]
  BY CountsOf DEF Loads
<1>9. Total(packet_counter) \in Nat /\ Total(packet_counter) <= Total(Loads)
  <2>1. 0 \in Boards /\ 1 \in Boards /\ 2 \in Boards
    BY DEF Boards
  <2>2. Loads[0] \in Nat /\ Loads[1] \in Nat /\ Loads[2] \in Nat
    BY <2>1, LoadsShape DEF SendInv
  <2>3. QED
    BY <1>8, <2>1, <2>2 DEF Total
<1>10. ASSUME NEW b \in Boards
       PROVE  /\ packet_counter[b] <= MaxSent /\ new_udp_send_s[b] <= MaxSent
              /\ send_read[b] <= MaxSent /\ serial_read[b] <= MaxSent
  <2>1. Loads[b] \in Nat /\ Loads[b] <= Total(Loads)
    BY LoadsShape, TotalOfNat DEF SendInv
  <2>2. packet_counter[b] <= MaxSent
    BY <1>5, <1>6, <1>7, <1>8, <2>1
  <2>3. /\ new_udp_send_s[b] <= Signalled /\ send_read[b] <= Signalled
        /\ serial_read[b] <= Signalled
    BY CountsOf DEF CountOf, CountOK
  <2>4. QED
    BY <1>1, <1>2, <1>5, <2>2, <2>3, CountsOf
<1>11. QED
  BY <1>5, <1>6, <1>7, <1>9, <1>10

-----------------------------------------------------------------------------
(* The count of what is received *)

ReceiveShape ==
  /\ main = [b \in Boards |-> main[b]]
  /\ packet_counter \in [Boards -> Nat] /\ new_udp_recv_s \in [Boards -> Nat]
  /\ count_read \in [Boards -> Nat] /\ new_udp_ack_s \in [Boards -> 0 .. 1]
  /\ recv_pc \in [Boards -> {"wait", "loaded", "read", "copy"}]

(* A pass of the recv thread that has yet to look at its packet            *)
Looks == [b \in Boards |-> IF recv_pc[b] \in {"read", "copy"} THEN 1 ELSE 0]

PassOK(stage, pc, signals, read, acks, n) ==
  /\ pc # "wait" => stage = "threads" /\ acks = 0
  /\ pc = "loaded" => read >= 1 /\ read <= signals
  /\ read <= n

PassOf(b, n) ==
  PassOK(main[b], recv_pc[b], new_udp_recv_s[b], count_read[b], new_udp_ack_s[b], n)

(* There is a packet of data for each signal, each pass that looks at a    *)
(* packet and each ack that is due: an ack takes the place of what it      *)
(* acknowledges, and is not acknowledged itself.                           *)
ReceiveInv ==
  /\ ReceiveShape
  /\ \A b \in Boards : PassOf(b, Total(packet_counter))
  /\ Total(new_udp_recv_s) + Total(new_udp_ack_s) + Total(Looks) <= Total(packet_counter)

received == <<packet_counter, new_udp_recv_s, count_read, new_udp_ack_s, recv_pc>>
Lasting == \A c \in Boards : main[c] = "threads" => main'[c] = "threads"

LEMMA ReceiveSteps ==
  ASSUME Next, ReceiveShape
  PROVE  \/ UNCHANGED received /\ Lasting /\ main' = [b \in Boards |-> main'[b]]
         \/ \E b \in Boards :
              \/ InitSemaphores(b) \/ Send(b) \/ SendTo(b) \/ RecvLoad(b) \/ RecvStore(b)
              \/ RecvCopy(b) \/ RecvRead(b) \/ RecvReadMulti(b) \/ Ack(b)
<1>1. PICK b \in Boards :
           \/ Booting(b) \/ Thread(b) \/ Core1(b) \/ AlarmCallback(b)
           \/ SignalUnlocked(b) \/ SendMulti(b) \/ SerialMulti(b)
  BY StepCases
<1>2. main = [c \in Boards |-> main[c]]
  BY DEF ReceiveShape
<1>3. CASE b = AP /\ (EnableAp(STATION_ADDR) \/ EnableAp(STATION_BASE_ADDR))
  BY <1>2, <1>3 DEF EnableAp, Boot, NoThreads, received, sendVars, passVars, ackVars, Lasting,
                    recvVars, AP, Boards
<1>4. CASE EnableStation(b) \/ StartScan(b) \/ FindTarget(b) \/ SignalUnlocked(b)
  BY <1>2, <1>4 DEF EnableStation, StartScan, FindTarget, SignalUnlocked, Boot, NoThreads,
                    received, sendVars, recvVars, passVars, ackVars, Lasting
<1>5. CASE Join(b, StationOf(b)) \/ JoinFails(b) \/ RegisterCallback(b)
  BY <1>2, <1>5 DEF Join, JoinFails, RegisterCallback, Boot, NoThreads, received, sendVars,
                    recvVars, passVars, ackVars, Lasting
<1>6. CASE SendFails(b) \/ Serial(b) \/ Core1(b) \/ AlarmCallback(b)
  BY <1>2, <1>6 DEF SendFails, SendWait, Serial, Core1, LedOn, RestartAlarm, ResetFlag,
                    AlarmCallback, NotLed, bootVars, received, sendVars, recvVars, passVars,
                    ackVars, Lasting
<1>7. CASE SendLoad(b) \/ SendStore(b) \/ SendEnter(b) \/ SendExit(b) \/ SerialMulti(b)
  BY <1>2, <1>7 DEF SendLoad, SendStore, SendEnter, SendExit, SendOnly, NotOut, SerialMulti,
                    SerialRead, SerialEnter, SerialExit, SerialLoad, SerialStore, SerialOnly,
                    bootVars, received, recvVars, passVars, ackVars, Lasting
<1>8. QED
  BY <1>1, <1>3, <1>4, <1>5, <1>6, <1>7, Zenon DEF Booting, Thread, SendMulti

LEMMA ReceiveTypes ==
  ASSUME ReceiveShape
  PROVE  /\ packet_counter \in [Boards -> Int] /\ new_udp_recv_s \in [Boards -> Int]
         /\ new_udp_ack_s \in [Boards -> Int] /\ Looks \in [Boards -> Int]
         /\ Total(packet_counter) \in Nat /\ Total(new_udp_recv_s) \in Nat
         /\ Total(new_udp_ack_s) \in Nat /\ Total(Looks) \in Nat
<1>1. /\ packet_counter \in [Boards -> Nat] /\ new_udp_recv_s \in [Boards -> Nat]
      /\ new_udp_ack_s \in [Boards -> Nat] /\ Looks \in [Boards -> Nat]
  BY DEF ReceiveShape, Looks
<1>2. /\ packet_counter \in [Boards -> Int] /\ new_udp_recv_s \in [Boards -> Int]
      /\ new_udp_ack_s \in [Boards -> Int] /\ Looks \in [Boards -> Int]
  BY <1>1
<1>3. QED
  BY <1>1, <1>2, TotalOfNat

(* A signal is never more than there are packets.                          *)
LEMMA SignalsBounded ==
  ASSUME ReceiveInv, NEW b \in Boards
  PROVE  /\ new_udp_recv_s[b] \in Nat /\ new_udp_recv_s[b] <= Total(packet_counter)
         /\ count_read[b] \in Nat /\ new_udp_ack_s[b] \in 0 .. 1
         /\ PassOf(b, Total(packet_counter))
<1>1. ReceiveShape /\ new_udp_recv_s \in [Boards -> Nat]
  BY DEF ReceiveInv, ReceiveShape
<1>2. new_udp_recv_s[b] <= Total(new_udp_recv_s)
  BY <1>1, TotalOfNat
<1>3. QED
  BY <1>1, <1>2, ReceiveTypes DEF ReceiveInv, ReceiveShape

LEMMA InitReceive == InitDemos => ReceiveInv
<1> SUFFICES ASSUME InitDemos PROVE ReceiveInv
  OBVIOUS
<1>1. ReceiveShape
  BY DEF InitDemos, Init, ReceiveShape
<1>2. /\ Total(packet_counter) = 0 /\ Total(new_udp_recv_s) = 0
      /\ Total(new_udp_ack_s) = 0 /\ Total(Looks) = 0
  BY DEF InitDemos, Init, Total, Looks, Boards
<1>3. \A b \in Boards : PassOf(b, Total(packet_counter))
  BY <1>2 DEF InitDemos, Init, PassOf, PassOK
<1>4. QED
  BY <1>1, <1>2, <1>3 DEF ReceiveInv

(* At most one packet more is signalled, and no signal is taken away.      *)
LEMMA OneArrives ==
  ASSUME ReceiveShape, NEW b, NEW addr, NEW p, Transmit(b, addr, p)
  PROVE  /\ new_udp_recv_s' \in [Boards -> Nat]
         /\ \A c \in Boards : new_udp_recv_s[c] <= new_udp_recv_s'[c]
         /\ Total(new_udp_recv_s') <= Total(new_udp_recv_s) + 1
<1>1. new_udp_recv_s \in [Boards -> Nat] /\ Total(new_udp_recv_s) \in Nat
  BY ReceiveTypes DEF ReceiveShape
<1>2. CASE new_udp_recv_s' = new_udp_recv_s
  BY <1>1, <1>2
<1>3. ASSUME NEW a \in Boards, new_udp_recv_s' = [new_udp_recv_s EXCEPT ![a] = @ + 1]
      PROVE  /\ new_udp_recv_s' \in [Boards -> Nat]
             /\ \A c \in Boards : new_udp_recv_s[c] <= new_udp_recv_s'[c]
             /\ Total(new_udp_recv_s') <= Total(new_udp_recv_s) + 1
  <2>1. new_udp_recv_s' \in [Boards -> Nat]
    BY <1>1, <1>3
  <2>2. /\ new_udp_recv_s'[a] = new_udp_recv_s[a] + 1
        /\ \A c \in Boards : c # a => new_udp_recv_s'[c] = new_udp_recv_s[c]
    BY <1>1, <1>3
  <2>3. /\ new_udp_recv_s \in [Boards -> Int] /\ new_udp_recv_s' \in [Boards -> Int]
        /\ new_udp_recv_s[a] \in Nat
    BY <1>1, <2>1
  <2>4. Total(new_udp_recv_s') - Total(new_udp_recv_s) = new_udp_recv_s'[a] - new_udp_recv_s[a]
    BY <2>2, <2>3, OneChanges
  <2>5. Total(new_udp_recv_s') \in Nat
    BY <2>1, TotalOfNat
  <2>6. Total(new_udp_recv_s') <= Total(new_udp_recv_s) + 1
    BY <1>1, <2>2, <2>3, <2>4, <2>5
  <2>7. \A c \in Boards : new_udp_recv_s[c] <= new_udp_recv_s'[c]
    <3>1. \A c \in Boards : new_udp_recv_s[c] \in Nat
      BY <1>1
    <3>2. QED
      BY <2>2, <3>1
  <2>8. QED
    BY <2>1, <2>6, <2>7
<1>4. QED
  BY <1>2, <1>3 DEF Transmit, Callback, Reached

LEMMA StepSent ==
  ASSUME ReceiveInv, NEW b \in Boards, Send(b) \/ SendTo(b)
  PROVE  ReceiveInv'
<1>1. ReceiveShape /\ UNCHANGED <<main, recv_pc, count_read, new_udp_ack_s>>
  BY DEF ReceiveInv, Send, SendWait, SendTo, SendOnly, bootVars, passVars, ackVars
<1>2. \/ UNCHANGED <<packet_counter, new_udp_recv_s>>
      \/ /\ packet_counter' = [packet_counter EXCEPT ![b] = @ + 1]
         /\ \E addr, p : Transmit(b, addr, p)
  BY DEF Send, SendTo, recvVars
<1>3. CASE UNCHANGED <<packet_counter, new_udp_recv_s>>
  BY <1>1, <1>3 DEF ReceiveInv, ReceiveShape, PassOf, Looks
<1>4. CASE /\ packet_counter' = [packet_counter EXCEPT ![b] = @ + 1]
           /\ \E addr, p : Transmit(b, addr, p)
  <2>1. /\ packet_counter' \in [Boards -> Nat] /\ packet_counter[b] \in Nat
        /\ packet_counter'[b] = packet_counter[b] + 1
        /\ \A c \in Boards : c # b => packet_counter'[c] = packet_counter[c]
    BY <1>1, <1>4 DEF ReceiveShape
  <2>2. packet_counter' \in [Boards -> Int] /\ Total(packet_counter') \in Nat
    BY <2>1, TotalOfNat
  <2>3. Total(packet_counter') - Total(packet_counter) = packet_counter'[b] - packet_counter[b]
    BY <1>1, <2>1, <2>2, ReceiveTypes, OneChanges
  <2>4. Total(packet_counter') = Total(packet_counter) + 1
    BY <1>1, <2>1, <2>2, <2>3, ReceiveTypes
  <2>5. /\ new_udp_recv_s' \in [Boards -> Nat]
        /\ \A c \in Boards : new_udp_recv_s[c] <= new_udp_recv_s'[c]
        /\ Total(new_udp_recv_s') <= Total(new_udp_recv_s) + 1
    BY <1>1, <1>4, OneArrives
  <2>6. ReceiveShape'
    BY <1>1, <2>1, <2>5 DEF ReceiveShape
  <2>7. ASSUME NEW c \in Boards PROVE PassOf(c, Total(packet_counter))'
    <3>1. /\ new_udp_recv_s[c] <= new_udp_recv_s'[c] /\ new_udp_recv_s'[c] \in Nat
          /\ new_udp_recv_s[c] \in Nat /\ count_read[c] \in Nat /\ PassOf(c, Total(packet_counter))
      BY <2>5, SignalsBounded
    <3>2. PassOK(main[c], recv_pc[c], new_udp_recv_s'[c], count_read[c], new_udp_ack_s[c],
                 Total(packet_counter'))
      BY <1>1, <2>4, <3>1, ReceiveTypes DEF PassOf, PassOK
    <3>3. QED
      BY <1>1, <3>2 DEF PassOf
  <2>8. Looks' = Looks
    BY <1>1 DEF Looks
  <2>9. Total(new_udp_recv_s') + Total(new_udp_ack_s') + Total(Looks')
         <= Total(packet_counter')
    <3>1. Total(new_udp_recv_s') \in Nat
      BY <2>5, TotalOfNat
    <3>2. QED
      BY <1>1, <2>4, <2>5, <2>8, <3>1, ReceiveTypes DEF ReceiveInv
  <2>10. QED
    BY <2>6, <2>7, <2>9 DEF ReceiveInv
<1>5. QED
  BY <1>2, <1>3, <1>4

LEMMA StepAcked ==
  ASSUME ReceiveInv, NEW b \in Boards, Ack(b)
  PROVE  ReceiveInv'
<1>1. ReceiveShape /\ UNCHANGED <<main, recv_pc, count_read, packet_counter>>
  BY DEF ReceiveInv, Ack, bootVars, sendVars, passVars
<1>2. /\ recv_pc[b] = "wait" /\ new_udp_ack_s[b] > 0 /\ \E addr, p : Transmit(b, addr, p)
      /\ new_udp_ack_s' = [new_udp_ack_s EXCEPT ![b] = @ - 1]
  BY DEF Ack
<1>3. /\ new_udp_ack_s' \in [Boards -> 0 .. 1] /\ new_udp_ack_s[b] \in 0 .. 1
      /\ new_udp_ack_s'[b] = new_udp_ack_s[b] - 1
      /\ \A c \in Boards : c # b => new_udp_ack_s'[c] = new_udp_ack_s[c]
  BY <1>1, <1>2 DEF ReceiveShape
<1>4. new_udp_ack_s' \in [Boards -> Nat]
  BY <1>3
<1>5. new_udp_ack_s' \in [Boards -> Int] /\ Total(new_udp_ack_s') \in Nat
  BY <1>4, TotalOfNat
<1>6. Total(new_udp_ack_s') - Total(new_udp_ack_s) = new_udp_ack_s'[b] - new_udp_ack_s[b]
  BY <1>1, <1>3, <1>5, ReceiveTypes, OneChanges
<1>7. Total(new_udp_ack_s') = Total(new_udp_ack_s) - 1
  BY <1>1, <1>3, <1>5, <1>6, ReceiveTypes
<1>8. /\ new_udp_recv_s' \in [Boards -> Nat]
      /\ \A c \in Boards : new_udp_recv_s[c] <= new_udp_recv_s'[c]
      /\ Total(new_udp_recv_s') <= Total(new_udp_recv_s) + 1
  BY <1>1, <1>2, OneArrives
<1>9. ReceiveShape'
  BY <1>1, <1>3, <1>8 DEF ReceiveShape
<1>10. ASSUME NEW c \in Boards PROVE PassOf(c, Total(packet_counter))'
  <2>1. /\ new_udp_recv_s[c] <= new_udp_recv_s'[c] /\ new_udp_recv_s'[c] \in Nat
        /\ new_udp_recv_s[c] \in Nat /\ count_read[c] \in Nat /\ PassOf(c, Total(packet_counter))
    BY <1>8, SignalsBounded
  <2>2. recv_pc[c] # "wait" => new_udp_ack_s'[c] = new_udp_ack_s[c]
    BY <1>2, <1>3
  <2>3. PassOK(main[c], recv_pc[c], new_udp_recv_s'[c], count_read[c], new_udp_ack_s'[c],
               Total(packet_counter))
    BY <2>1, <2>2 DEF PassOf, PassOK
  <2>4. QED
    BY <1>1, <2>3 DEF PassOf
<1>11. Looks' = Looks
  BY <1>1 DEF Looks
<1>12. Total(new_udp_recv_s') + Total(new_udp_ack_s') + Total(Looks') <= Total(packet_counter')
  <2>1. Total(new_udp_recv_s') \in Nat
    BY <1>8, TotalOfNat
  <2>2. QED
    BY <1>1, <1>5, <1>7, <1>8, <1>11, <2>1, ReceiveTypes DEF ReceiveInv
<1>13. QED
  BY <1>9, <1>10, <1>12 DEF ReceiveInv

LEMMA StepPass ==
  ASSUME ReceiveInv, NEW b \in Boards,
         \/ InitSemaphores(b) \/ RecvLoad(b) \/ RecvStore(b) \/ RecvCopy(b)
         \/ RecvRead(b) \/ RecvReadMulti(b)
  PROVE  ReceiveInv'
<1> DEFINE n == Total(packet_counter)
<1>1. /\ ReceiveShape /\ packet_counter' = packet_counter /\ n \in Nat
      /\ \A c \in Boards : PassOf(c, n)
      /\ Total(new_udp_recv_s) + Total(new_udp_ack_s) + Total(Looks) <= n
  BY ReceiveTypes DEF ReceiveInv, InitSemaphores, NoThreads, RecvLoad, RecvStore, RecvCopy,
         RecvRead, RecvReadMulti, Copied, sendVars
<1>2. n' = n
  BY <1>1
<1> HIDE DEF n
<1>3. ASSUME ReceiveShape', \A c \in Boards : PassOf(c, n)',
             Total(new_udp_recv_s') + Total(new_udp_ack_s') + Total(Looks') <= n
      PROVE  ReceiveInv'
  BY <1>2, <1>3 DEF n, ReceiveInv
<1>4. \A c \in Boards : /\ new_udp_recv_s[c] \in Nat /\ new_udp_recv_s[c] <= n
                        /\ count_read[c] \in Nat /\ new_udp_ack_s[c] \in 0 .. 1
  BY SignalsBounded DEF n
<1>5. /\ new_udp_recv_s \in [Boards -> Int] /\ new_udp_ack_s \in [Boards -> Int]
      /\ Looks \in [Boards -> Int] /\ Total(new_udp_recv_s) \in Nat
      /\ Total(new_udp_ack_s) \in Nat /\ Total(Looks) \in Nat
  BY <1>1, ReceiveTypes
<1>6. ReceiveShape' =>
        /\ new_udp_recv_s' \in [Boards -> Int] /\ new_udp_ack_s' \in [Boards -> Int]
        /\ Looks' \in [Boards -> Int] /\ Total(new_udp_recv_s') \in Nat
        /\ Total(new_udp_ack_s') \in Nat /\ Total(Looks') \in Nat
  <2>1. ReceiveShape' => /\ new_udp_recv_s' \in [Boards -> Nat]
                         /\ new_udp_ack_s' \in [Boards -> Nat] /\ Looks' \in [Boards -> Nat]
    BY DEF ReceiveShape, Looks
  <2>2. QED
    BY <2>1, TotalOfNat
<1>7. CASE InitSemaphores(b)
  <2>1. /\ main[b] = "callback" /\ main' = [main EXCEPT ![b] = "threads"]
        /\ new_udp_recv_s' = [new_udp_recv_s EXCEPT ![b] = 0]
        /\ UNCHANGED <<recv_pc, count_read, new_udp_ack_s>>
    BY <1>7 DEF InitSemaphores, Boot, NoThreads, passVars, ackVars
  <2>2. recv_pc[b] = "wait"
    BY <1>1, <2>1 DEF PassOf, PassOK
  <2>3. ReceiveShape'
    BY <1>1, <2>1 DEF ReceiveShape
  <2>4. /\ new_udp_recv_s'[b] = 0
        /\ \A c \in Boards : c # b => new_udp_recv_s'[c] = new_udp_recv_s[c] /\ main'[c] = main[c]
    BY <1>1, <2>1 DEF ReceiveShape
  <2>5. ASSUME NEW c \in Boards PROVE PassOf(c, n)'
    <3>1. PassOf(c, n)
      BY <1>1
    <3>2. CASE c = b
      BY <1>2, <2>1, <2>2, <3>1, <3>2 DEF PassOf, PassOK
    <3>3. CASE c # b
      BY <1>2, <2>1, <2>4, <3>1, <3>3 DEF PassOf, PassOK
    <3>4. QED
      BY <3>2, <3>3
  <2>6. Looks' = Looks
    BY <2>1 DEF Looks
  <2>7. Total(new_udp_recv_s') - Total(new_udp_recv_s) = new_udp_recv_s'[b] - new_udp_recv_s[b]
    BY <1>5, <1>6, <2>3, <2>4, OneChanges
  <2>8. Total(new_udp_recv_s') <= Total(new_udp_recv_s)
    BY <1>4, <1>5, <1>6, <2>3, <2>4, <2>7
  <2>9. Total(new_udp_recv_s') + Total(new_udp_ack_s') + Total(Looks') <= n
    BY <1>1, <1>5, <1>6, <2>1, <2>3, <2>6, <2>8
  <2>10. QED
    BY <1>3, <2>3, <2>5, <2>9
<1>8. CASE RecvLoad(b)
  <2>1. /\ main[b] = "threads" /\ recv_pc[b] = "wait" /\ new_udp_ack_s[b] = 0
        /\ new_udp_recv_s[b] > 0 /\ UNCHANGED <<main, new_udp_recv_s, new_udp_ack_s>>
        /\ count_read' = [count_read EXCEPT ![b] = new_udp_recv_s[b]]
        /\ recv_pc' = [recv_pc EXCEPT ![b] = "loaded"]
    BY <1>8 DEF RecvLoad, Turn, bootVars, recvVars, ackVars
  <2>2. ReceiveShape'
    BY <1>1, <1>4, <2>1 DEF ReceiveShape
  <2>3. /\ count_read'[b] = new_udp_recv_s[b] /\ recv_pc'[b] = "loaded"
        /\ \A c \in Boards : c # b => count_read'[c] = count_read[c] /\ recv_pc'[c] = recv_pc[c]
    BY <1>1, <2>1 DEF ReceiveShape
  <2>4. ASSUME NEW c \in Boards PROVE PassOf(c, n)'
    <3>1. PassOf(c, n)
      BY <1>1
    <3>2. CASE c = b
      BY <1>2, <1>4, <2>1, <2>3, <3>2 DEF PassOf, PassOK
    <3>3. CASE c # b
      BY <1>2, <2>1, <2>3, <3>1, <3>3 DEF PassOf, PassOK
    <3>4. QED
      BY <3>2, <3>3
  <2>5. Looks' = Looks
    BY <2>1, <2>3 DEF Looks
  <2>6. QED
    BY <1>1, <1>3, <2>1, <2>2, <2>4, <2>5
<1>9. CASE RecvStore(b)
  <2>1. /\ recv_pc[b] = "loaded" /\ UNCHANGED <<main, count_read, new_udp_ack_s>>
        /\ new_udp_recv_s' = [new_udp_recv_s EXCEPT ![b] = count_read[b] - 1]
        /\ recv_pc' = [recv_pc EXCEPT ![b] = "read"]
    BY <1>9 DEF RecvStore, bootVars, ackVars
  <2>2. /\ count_read[b] >= 1 /\ count_read[b] <= new_udp_recv_s[b]
    BY <1>1, <2>1 DEF PassOf, PassOK
  <2>3. count_read[b] - 1 \in Nat
    BY <1>4, <2>2
  <2>4. ReceiveShape'
    BY <1>1, <2>1, <2>3 DEF ReceiveShape
  <2>5. /\ new_udp_recv_s'[b] = count_read[b] - 1 /\ recv_pc'[b] = "read"
        /\ \A c \in Boards : c # b => /\ new_udp_recv_s'[c] = new_udp_recv_s[c]
                                      /\ recv_pc'[c] = recv_pc[c]
    BY <1>1, <2>1 DEF ReceiveShape
  <2>6. ASSUME NEW c \in Boards PROVE PassOf(c, n)'
    <3>1. PassOf(c, n)
      BY <1>1
    <3>2. CASE c = b
      BY <1>2, <2>1, <2>5, <3>1, <3>2 DEF PassOf, PassOK
    <3>3. CASE c # b
      BY <1>2, <2>1, <2>5, <3>1, <3>3 DEF PassOf, PassOK
    <3>4. QED
      BY <3>2, <3>3
  <2>7. /\ Looks'[b] = 1 /\ Looks[b] = 0
        /\ \A c \in Boards : c # b => Looks'[c] = Looks[c]
    BY <2>1, <2>5 DEF Looks
  <2>8. /\ Total(Looks') - Total(Looks) = Looks'[b] - Looks[b]
        /\ Total(new_udp_recv_s') - Total(new_udp_recv_s)
             = new_udp_recv_s'[b] - new_udp_recv_s[b]
    BY <1>5, <1>6, <2>4, <2>5, <2>7, OneChanges
  <2>9. Total(new_udp_recv_s') + Total(Looks') <= Total(new_udp_recv_s) + Total(Looks)
    BY <1>4, <1>5, <1>6, <2>2, <2>4, <2>5, <2>7, <2>8
  <2>10. Total(new_udp_recv_s') + Total(new_udp_ack_s') + Total(Looks') <= n
    BY <1>1, <1>5, <1>6, <2>1, <2>4, <2>9
  <2>11. QED
    BY <1>3, <2>4, <2>6, <2>10
<1>10. CASE RecvCopy(b)
  <2>1. /\ recv_pc[b] = "read" /\ recv_pc' = [recv_pc EXCEPT ![b] = "copy"]
        /\ UNCHANGED <<main, count_read, new_udp_recv_s, new_udp_ack_s>>
    BY <1>10 DEF RecvCopy, bootVars, ackVars
  <2>2. ReceiveShape'
    BY <1>1, <2>1 DEF ReceiveShape
  <2>3. recv_pc'[b] = "copy" /\ \A c \in Boards : c # b => recv_pc'[c] = recv_pc[c]
    BY <1>1, <2>1 DEF ReceiveShape
  <2>4. ASSUME NEW c \in Boards PROVE PassOf(c, n)'
    <3>1. PassOf(c, n)
      BY <1>1
    <3>2. CASE c = b
      BY <1>2, <2>1, <2>3, <3>1, <3>2 DEF PassOf, PassOK
    <3>3. CASE c # b
      BY <1>2, <2>1, <2>3, <3>1, <3>3 DEF PassOf, PassOK
    <3>4. QED
      BY <3>2, <3>3
  <2>5. Looks' = Looks
    BY <2>1, <2>3 DEF Looks
  <2>6. QED
    BY <1>1, <1>3, <2>1, <2>2, <2>4, <2>5
<1>11. CASE RecvRead(b) \/ RecvReadMulti(b)
  <2>1. /\ recv_pc[b] = "copy" /\ UNCHANGED <<main, count_read, new_udp_recv_s>>
        /\ recv_pc' = [recv_pc EXCEPT ![b] = "wait"]
        /\ \/ new_udp_ack_s' = [new_udp_ack_s EXCEPT ![b] = @ + 1]
           \/ new_udp_ack_s' = new_udp_ack_s
    BY <1>11 DEF RecvRead, RecvReadMulti, Copied, Acknowledge, bootVars, ackVars
  <2>2. new_udp_ack_s[b] = 0
    BY <1>1, <2>1 DEF PassOf, PassOK
  <2>3. ReceiveShape'
    BY <1>1, <2>1, <2>2 DEF ReceiveShape
  <2>4. /\ recv_pc'[b] = "wait" /\ new_udp_ack_s'[b] \in 0 .. 1
        /\ \A c \in Boards : c # b => /\ new_udp_ack_s'[c] = new_udp_ack_s[c]
                                      /\ recv_pc'[c] = recv_pc[c]
    BY <1>1, <2>1, <2>2 DEF ReceiveShape
  <2>5. ASSUME NEW c \in Boards PROVE PassOf(c, n)'
    <3>1. PassOf(c, n)
      BY <1>1
    <3>2. CASE c = b
      BY <1>2, <2>1, <2>4, <3>1, <3>2 DEF PassOf, PassOK
    <3>3. CASE c # b
      BY <1>2, <2>1, <2>4, <3>1, <3>3 DEF PassOf, PassOK
    <3>4. QED
      BY <3>2, <3>3
  <2>6. /\ Looks'[b] = 0 /\ Looks[b] = 1
        /\ \A c \in Boards : c # b => Looks'[c] = Looks[c]
    BY <2>1, <2>4 DEF Looks
  <2>7. /\ Total(Looks') - Total(Looks) = Looks'[b] - Looks[b]
        /\ Total(new_udp_ack_s') - Total(new_udp_ack_s)
             = new_udp_ack_s'[b] - new_udp_ack_s[b]
    BY <1>5, <1>6, <2>3, <2>4, <2>6, OneChanges
  <2>8. Total(new_udp_ack_s') + Total(Looks') <= Total(new_udp_ack_s) + Total(Looks)
    BY <1>5, <1>6, <2>2, <2>3, <2>4, <2>6, <2>7
  <2>9. Total(new_udp_recv_s') + Total(new_udp_ack_s') + Total(Looks') <= n
    BY <1>1, <1>5, <1>6, <2>1, <2>3, <2>8
  <2>10. QED
    BY <1>3, <2>3, <2>5, <2>9
<1>12. QED
  BY <1>7, <1>8, <1>9, <1>10, <1>11

LEMMA StepReceive == ReceiveInv /\ [Next]_allVars => ReceiveInv'
<1> SUFFICES ASSUME ReceiveInv, [Next]_allVars PROVE ReceiveInv'
  OBVIOUS
<1>1. CASE UNCHANGED received /\ Lasting /\ main' = [b \in Boards |-> main'[b]]
  <2>1. /\ ReceiveShape /\ \A b \in Boards : PassOf(b, Total(packet_counter))
        /\ UNCHANGED <<packet_counter, new_udp_recv_s, count_read, new_udp_ack_s, recv_pc>>
    BY <1>1 DEF ReceiveInv, received
  <2>2. ReceiveShape' /\ Looks' = Looks
    BY <1>1, <2>1 DEF ReceiveShape, Looks
  <2>3. ASSUME NEW b \in Boards PROVE PassOf(b, Total(packet_counter))'
    BY <1>1, <2>1 DEF PassOf, PassOK, Lasting
  <2>4. QED
    BY <2>1, <2>2, <2>3 DEF ReceiveInv
<1>2. CASE UNCHANGED allVars
  <2>1. UNCHANGED received /\ main' = main
    BY <1>2 DEF allVars, vars, bootVars, sendVars, recvVars, passVars, ackVars, received
  <2>2. QED
    BY <1>1, <2>1 DEF Lasting, ReceiveInv, ReceiveShape
<1>3. ReceiveShape
  BY DEF ReceiveInv
<1>4. QED
  BY <1>1, <1>2, <1>3, ReceiveSteps, StepSent, StepAcked, StepPass

-----------------------------------------------------------------------------
(* The types of what is sent and received *)

(* What a packet may hold depends on the demo, which stays what it is.     *)
LEMMA SameTypes ==
  ASSUME demo' = demo
  PROVE  Number' = Number /\ Packet' = Packet /\ Content' = Content
<1>1. Number' = Number
  BY DEF Number, MaxSent
<1>2. QED
  BY <1>1 DEF Packet, Content

LEMMA NumbersFit ==
  ASSUME SendInv
  PROVE  /\ demo \in Demos /\ 0 \in Number
         /\ packet_counter \in [Boards -> Number] /\ new_udp_send_s \in [Boards -> Number]
         /\ send_read \in [Boards -> Number] /\ serial_read \in [Boards -> Number]
<1>1. MaxSent \in Nat /\ SendShape
  BY SendBound DEF SendInv
<1>2. ASSUME NEW b \in Boards
      PROVE  /\ packet_counter[b] \in Number /\ new_udp_send_s[b] \in Number
             /\ send_read[b] \in Number /\ serial_read[b] \in Number
  BY <1>1, SendBound, CountsOf DEF Number
<1>3. 0 \in Number
  BY <1>1 DEF Number
<1>4. QED
  BY <1>1, <1>2, <1>3 DEF SendShape

(* What a board has to send is a message, once it is signalled.            *)
HeldOK(multi, count, core1, core0, data, typed, queue, buf) ==
  /\ ~multi /\ count > 0 => data \in Messages
  /\ core0 # "wait" => typed \in Messages
  /\ (multi /\ count > 0) \/ core1 \in {"loaded", "lock", "copy"}
                         \/ core0 \in {"signal", "loaded"} => queue.msg \in Messages
  /\ core1 = "send" => buf.msg \in Messages

HeldOf(b) ==
  HeldOK(demo = "multicore", new_udp_send_s[b], send_pc[b], serial_pc[b], send_data[b],
         line[b], send_queue[b], send_buf[b])

HeldTypes ==
  /\ send_data \in [Boards -> Messages \cup {NONE}]
  /\ send_queue \in [Boards -> Content] /\ send_buf \in [Boards -> Content]
  /\ line \in [Boards -> Messages \cup {NONE}]

HeldInv == HeldTypes /\ \A b \in Boards : HeldOf(b)

LEMMA InitHeld == InitDemos => HeldInv
<1> SUFFICES ASSUME InitDemos PROVE HeldInv
  OBVIOUS
<1>1. 0 \in Number
  BY InitSend, NumbersFit
<1>2. Empty \in Content
  BY <1>1 DEF Empty, Content
<1>3. HeldTypes
  BY <1>2 DEF InitDemos, Init, InitMulti, HeldTypes
<1>4. \A b \in Boards : HeldOf(b)
  BY DEF InitDemos, Init, InitMulti, HeldOf, HeldOK
<1>5. QED
  BY <1>3, <1>4 DEF HeldInv

LEMMA ContentTypes ==
  ASSUME NEW q \in Content
  PROVE  /\ q.num \in Number /\ q.time \in Messages \cup {NONE}
         /\ q.msg \in Messages \cup {NONE}
         /\ \A n \in Number, t \in Messages \cup {NONE} :
              /\ [q EXCEPT !.num = n, !.time = t] \in Content
              /\ [q EXCEPT !.num = n, !.time = t].msg = q.msg
         /\ \A t \in Messages \cup {NONE} : /\ [q EXCEPT !.msg = t] \in Content
                                            /\ [q EXCEPT !.msg = t].msg = t
BY DEF Content

LEMMA LinesAreMessages ==
  ASSUME NEW d \in Demos, NEW l \in Lines[d]
  PROVE  l[2] \in Messages
BY DEF Messages

LEMMA HeldKept ==
  ASSUME HeldInv, HeldTypes', demo' = demo, NEW b \in Boards,
         \A c \in Boards : c # b =>
           /\ new_udp_send_s'[c] = new_udp_send_s[c] /\ send_pc'[c] = send_pc[c]
           /\ serial_pc'[c] = serial_pc[c] /\ send_data'[c] = send_data[c]
           /\ line'[c] = line[c] /\ send_queue'[c] = send_queue[c]
           /\ send_buf'[c] = send_buf[c],
         HeldOK(demo = "multicore", new_udp_send_s'[b], send_pc'[b], serial_pc'[b],
                send_data'[b], line'[b], send_queue'[b], send_buf'[b])
  PROVE  HeldInv'
<1>1. ASSUME NEW c \in Boards PROVE HeldOf(c)'
  <2>1. CASE c = b
    BY <2>1 DEF HeldOf
  <2>2. CASE c # b
    BY <2>2 DEF HeldOf, HeldInv
  <2>3. QED
    BY <2>1, <2>2
<1>2. QED
  BY <1>1 DEF HeldInv

LEMMA StepHeldOneCore ==
  ASSUME SendInv, HeldInv, NEW b \in Boards, demo # "multicore", UNCHANGED multiVars,
         Send(b) \/ SendFails(b) \/ Serial(b)
  PROVE  HeldInv'
<1>1. /\ HeldTypes /\ HeldOf(b) /\ demo' = demo /\ demo \in Demos
      /\ new_udp_send_s \in [Boards -> Nat]
      /\ UNCHANGED <<send_queue, send_buf, line, send_pc, serial_pc>>
  BY DEF HeldInv, SendInv, SendShape, Send, SendFails, SendWait, Serial, bootVars, multiVars,
         queueVars, sendThread, serialThread
<1>2. HeldTypes' <=> send_data' \in [Boards -> Messages \cup {NONE}]
  BY <1>1, SameTypes DEF HeldTypes
<1>3. CASE Send(b) \/ SendFails(b)
  <2>1. /\ send_data' = send_data /\ new_udp_send_s[b] > 0
        /\ new_udp_send_s' = [new_udp_send_s EXCEPT ![b] = @ - 1]
    BY <1>3 DEF Send, SendFails, SendWait
  <2>2. \A c \in Boards : c # b => new_udp_send_s'[c] = new_udp_send_s[c]
    BY <1>1, <2>1
  <2>3. HeldTypes'
    BY <1>1, <1>2, <2>1 DEF HeldTypes
  <2>4. HeldOK(demo = "multicore", new_udp_send_s'[b], send_pc'[b], serial_pc'[b],
               send_data'[b], line'[b], send_queue'[b], send_buf'[b])
    BY <1>1, <2>1 DEF HeldOf, HeldOK
  <2>5. QED
    BY <1>1, <2>1, <2>2, <2>3, <2>4, HeldKept
<1>4. CASE Serial(b)
  <2>1. /\ new_udp_send_s' = [new_udp_send_s EXCEPT ![b] = @ + 1]
        /\ \E l \in Lines[demo] : send_data' = [send_data EXCEPT ![b] = l[2]]
    BY <1>4 DEF Serial
  <2>2. PICK t \in Messages : send_data' = [send_data EXCEPT ![b] = t]
    BY <1>1, <2>1, LinesAreMessages
  <2>3. /\ send_data' \in [Boards -> Messages \cup {NONE}] /\ send_data'[b] \in Messages
        /\ \A c \in Boards : c # b => /\ send_data'[c] = send_data[c]
                                      /\ new_udp_send_s'[c] = new_udp_send_s[c]
    BY <1>1, <2>1, <2>2 DEF HeldTypes
  <2>4. HeldOK(demo = "multicore", new_udp_send_s'[b], send_pc'[b], serial_pc'[b],
               send_data'[b], line'[b], send_queue'[b], send_buf'[b])
    BY <1>1, <2>3 DEF HeldOf, HeldOK
  <2>5. QED
    BY <1>1, <1>2, <2>3, <2>4, HeldKept
<1>5. QED
  BY <1>3, <1>4

LEMMA StepHeldSend ==
  ASSUME SendInv, HeldInv, NEW b \in Boards, SendMulti(b)
  PROVE  HeldInv'
<1>1. /\ HeldTypes /\ HeldOf(b) /\ demo = "multicore" /\ demo' = demo
      /\ new_udp_send_s \in [Boards -> Nat]
      /\ send_pc \in [Boards -> {"wait", "loaded", "lock", "copy", "send"}]
      /\ UNCHANGED <<send_data, send_queue, line, serial_pc>>
  BY DEF HeldInv, SendInv, SendShape, SendMulti, SendLoad, SendStore, SendEnter, SendExit,
         SendTo, SendOnly, bootVars, queueVars, serialThread
<1>2. HeldTypes' <=> send_buf' \in [Boards -> Content]
  BY <1>1, SameTypes DEF HeldTypes
<1>3. CASE SendLoad(b) \/ SendStore(b) \/ SendTo(b)
  <2>1. /\ send_buf' = send_buf
        /\ \/ /\ Step(send_pc, b, "wait", "loaded") /\ new_udp_send_s[b] > 0
              /\ new_udp_send_s' = new_udp_send_s
           \/ /\ Step(send_pc, b, "loaded", "lock")
              /\ new_udp_send_s' = [new_udp_send_s EXCEPT ![b] = send_read[b] - 1]
           \/ Step(send_pc, b, "send", "wait") /\ new_udp_send_s' = new_udp_send_s
    BY <1>3 DEF SendLoad, SendStore, SendTo
  <2>2. HeldTypes'
    BY <1>1, <1>2, <2>1 DEF HeldTypes
  <2>3. /\ \A c \in Boards : c # b => /\ send_pc'[c] = send_pc[c]
                                      /\ new_udp_send_s'[c] = new_udp_send_s[c]
        /\ \/ send_pc[b] = "wait" /\ send_pc'[b] = "loaded" /\ new_udp_send_s[b] > 0
           \/ send_pc[b] = "loaded" /\ send_pc'[b] = "lock"
           \/ /\ send_pc[b] = "send" /\ send_pc'[b] = "wait"
              /\ new_udp_send_s'[b] = new_udp_send_s[b]
    BY <1>1, <2>1 DEF Step
  <2>4. HeldOK(TRUE, new_udp_send_s'[b], send_pc'[b], serial_pc'[b], send_data'[b],
               line'[b], send_queue'[b], send_buf'[b])
    BY <1>1, <2>1, <2>3 DEF HeldOf, HeldOK
  <2>5. QED
    BY <1>1, <2>1, <2>2, <2>3, <2>4, HeldKept
<1>4. CASE SendEnter(b)
  <2>1. /\ Step(send_pc, b, "lock", "copy") /\ new_udp_send_s' = new_udp_send_s
        /\ send_buf' = [send_buf EXCEPT ![b].num = send_queue[b].num,
                                        ![b].time = send_queue[b].time]
    BY <1>4 DEF SendEnter
  <2> DEFINE q == [send_buf[b] EXCEPT !.num = send_queue[b].num, !.time = send_queue[b].time]
  <2>2. send_queue[b] \in Content /\ send_buf[b] \in Content
    BY <1>1 DEF HeldTypes
  <2>3. q \in Content
    BY <2>2, ContentTypes
  <2>4. send_buf' = [send_buf EXCEPT ![b] = q]
    BY <2>1
  <2> HIDE DEF q
  <2>5. HeldTypes' /\ \A c \in Boards : c # b => send_buf'[c] = send_buf[c]
    BY <1>1, <1>2, <2>3, <2>4 DEF HeldTypes
  <2>6. /\ send_pc[b] = "lock" /\ send_pc'[b] = "copy"
        /\ \A c \in Boards : c # b => send_pc'[c] = send_pc[c]
    BY <1>1, <2>1 DEF Step
  <2>7. HeldOK(TRUE, new_udp_send_s'[b], send_pc'[b], serial_pc'[b], send_data'[b],
               line'[b], send_queue'[b], send_buf'[b])
    BY <1>1, <2>1, <2>6 DEF HeldOf, HeldOK
  <2>8. QED
    BY <1>1, <2>1, <2>5, <2>6, <2>7, HeldKept
<1>5. CASE SendExit(b)
  <2>1. /\ Step(send_pc, b, "copy", "send") /\ new_udp_send_s' = new_udp_send_s
        /\ send_buf' = [send_buf EXCEPT ![b].msg = send_queue[b].msg]
    BY <1>5 DEF SendExit
  <2> DEFINE q == [send_buf[b] EXCEPT !.msg = send_queue[b].msg]
  <2>2. send_queue[b] \in Content /\ send_buf[b] \in Content
    BY <1>1 DEF HeldTypes
  <2>3. /\ send_pc[b] = "copy" /\ send_pc'[b] = "send"
        /\ \A c \in Boards : c # b => send_pc'[c] = send_pc[c]
    BY <1>1, <2>1 DEF Step
  <2>4. send_queue[b].msg \in Messages
    BY <1>1, <2>3 DEF HeldOf, HeldOK
  <2>5. q \in Content /\ q.msg \in Messages
    BY <2>2, <2>4, ContentTypes
  <2>6. send_buf' = [send_buf EXCEPT ![b] = q]
    BY <2>1
  <2> HIDE DEF q
  <2>7. /\ HeldTypes' /\ send_buf'[b] = q
        /\ \A c \in Boards : c # b => send_buf'[c] = send_buf[c]
    BY <1>1, <1>2, <2>5, <2>6 DEF HeldTypes
  <2>8. HeldOK(TRUE, new_udp_send_s'[b], send_pc'[b], serial_pc'[b], send_data'[b],
               line'[b], send_queue'[b], send_buf'[b])
    BY <1>1, <2>1, <2>3, <2>4, <2>5, <2>7 DEF HeldOf, HeldOK
  <2>9. QED
    BY <1>1, <2>1, <2>3, <2>7, <2>8, HeldKept
<1>6. QED
  BY <1>3, <1>4, <1>5 DEF SendMulti

LEMMA StepHeldSerial ==
  ASSUME SendInv, HeldInv, NEW b \in Boards, demo = "multicore", SerialMulti(b)
  PROVE  HeldInv'
<1>1. /\ HeldTypes /\ HeldOf(b) /\ demo' = demo /\ demo \in Demos /\ todo \subseteq Lines[demo]
      /\ new_udp_send_s \in [Boards -> Nat]
      /\ serial_pc \in [Boards -> {"wait", "lock", "copy", "signal", "loaded"}]
      /\ UNCHANGED <<send_data, send_buf, send_pc>>
  BY DEF HeldInv, SendInv, SendShape, SerialMulti, SerialRead, SerialEnter, SerialExit,
         SerialLoad, SerialStore, SerialOnly, bootVars, queueVars, sendThread
<1>2. HeldTypes' <=> /\ send_queue' \in [Boards -> Content]
                     /\ line' \in [Boards -> Messages \cup {NONE}]
  BY <1>1, SameTypes DEF HeldTypes
<1>3. CASE SerialRead(b)
  <2>1. /\ Step(serial_pc, b, "wait", "lock") /\ UNCHANGED <<new_udp_send_s, send_queue>>
        /\ \E l \in todo : line' = [line EXCEPT ![b] = l[2]]
    BY <1>3 DEF SerialRead, queueVars
  <2>2. PICK t \in Messages : line' = [line EXCEPT ![b] = t]
    BY <1>1, <2>1, LinesAreMessages
  <2>3. /\ HeldTypes' /\ line'[b] \in Messages
        /\ \A c \in Boards : c # b => line'[c] = line[c]
    BY <1>1, <1>2, <2>1, <2>2 DEF HeldTypes
  <2>4. /\ serial_pc[b] = "wait" /\ serial_pc'[b] = "lock"
        /\ \A c \in Boards : c # b => serial_pc'[c] = serial_pc[c]
    BY <1>1, <2>1 DEF Step
  <2>5. HeldOK(TRUE, new_udp_send_s'[b], send_pc'[b], serial_pc'[b], send_data'[b],
               line'[b], send_queue'[b], send_buf'[b])
    BY <1>1, <2>1, <2>3, <2>4 DEF HeldOf, HeldOK
  <2>6. QED
    BY <1>1, <2>1, <2>3, <2>4, <2>5, HeldKept
<1>4. CASE SerialEnter(b)
  <2>1. /\ Step(serial_pc, b, "lock", "copy") /\ UNCHANGED <<new_udp_send_s, line>>
        /\ send_queue' = [send_queue EXCEPT ![b].num = packet_counter[b],
                                            ![b].time = line[b]]
    BY <1>4 DEF SerialEnter
  <2> DEFINE q == [send_queue[b] EXCEPT !.num = packet_counter[b], !.time = line[b]]
  <2>2. /\ send_queue[b] \in Content /\ line[b] \in Messages \cup {NONE}
        /\ packet_counter[b] \in Number
    BY <1>1, NumbersFit DEF HeldTypes
  <2>3. q \in Content /\ q.msg = send_queue[b].msg
    <3>1. \A n \in Number, t \in Messages \cup {NONE} :
            /\ [send_queue[b] EXCEPT !.num = n, !.time = t] \in Content
            /\ [send_queue[b] EXCEPT !.num = n, !.time = t].msg = send_queue[b].msg
      BY <2>2, ContentTypes
    <3>2. QED
      BY <2>2, <3>1, Zenon
  <2>4. send_queue' = [send_queue EXCEPT ![b] = q]
    BY <2>1
  <2> HIDE DEF q
  <2>5. /\ HeldTypes' /\ send_queue'[b].msg = send_queue[b].msg
        /\ \A c \in Boards : c # b => send_queue'[c] = send_queue[c]
    BY <1>1, <1>2, <2>1, <2>3, <2>4 DEF HeldTypes
  <2>6. /\ serial_pc[b] = "lock" /\ serial_pc'[b] = "copy"
        /\ \A c \in Boards : c # b => serial_pc'[c] = serial_pc[c]
    BY <1>1, <2>1 DEF Step
  <2>7. HeldOK(TRUE, new_udp_send_s'[b], send_pc'[b], serial_pc'[b], send_data'[b],
               line'[b], send_queue'[b], send_buf'[b])
    BY <1>1, <2>1, <2>5, <2>6 DEF HeldOf, HeldOK
  <2>8. QED
    BY <1>1, <2>1, <2>5, <2>6, <2>7, HeldKept
<1>5. CASE SerialExit(b)
  <2>1. /\ Step(serial_pc, b, "copy", "signal") /\ UNCHANGED <<new_udp_send_s, line>>
        /\ send_queue' = [send_queue EXCEPT ![b].msg = line[b]]
    BY <1>5 DEF SerialExit
  <2> DEFINE q == [send_queue[b] EXCEPT !.msg = line[b]]
  <2>2. /\ serial_pc[b] = "copy" /\ serial_pc'[b] = "signal"
        /\ \A c \in Boards : c # b => serial_pc'[c] = serial_pc[c]
    BY <1>1, <2>1 DEF Step
  <2>3. send_queue[b] \in Content /\ line[b] \in Messages
    BY <1>1, <2>2 DEF HeldTypes, HeldOf, HeldOK
  <2>4. q \in Content /\ q.msg \in Messages
    BY <2>3, ContentTypes
  <2>5. send_queue' = [send_queue EXCEPT ![b] = q]
    BY <2>1
  <2> HIDE DEF q
  <2>6. /\ HeldTypes' /\ send_queue'[b] = q
        /\ \A c \in Boards : c # b => send_queue'[c] = send_queue[c]
    BY <1>1, <1>2, <2>1, <2>4, <2>5 DEF HeldTypes
  <2>7. HeldOK(TRUE, new_udp_send_s'[b], send_pc'[b], serial_pc'[b], send_data'[b],
               line'[b], send_queue'[b], send_buf'[b])
    BY <1>1, <2>1, <2>2, <2>4, <2>6 DEF HeldOf, HeldOK
  <2>8. QED
    BY <1>1, <2>1, <2>2, <2>6, <2>7, HeldKept
<1>6. CASE SerialLoad(b) \/ SerialStore(b)
  <2>1. /\ UNCHANGED <<send_queue, line>>
        /\ \/ Step(serial_pc, b, "signal", "loaded") /\ new_udp_send_s' = new_udp_send_s
           \/ /\ Step(serial_pc, b, "loaded", "wait")
              /\ new_udp_send_s' = [new_udp_send_s EXCEPT ![b] = serial_read[b] + 1]
    BY <1>6 DEF SerialLoad, SerialStore, queueVars
  <2>2. HeldTypes'
    BY <1>1, <1>2, <2>1 DEF HeldTypes
  <2>3. /\ serial_pc[b] \in {"signal", "loaded"} /\ serial_pc'[b] \in {"loaded", "wait"}
        /\ \A c \in Boards : c # b => /\ serial_pc'[c] = serial_pc[c]
                                      /\ new_udp_send_s'[c] = new_udp_send_s[c]
    BY <1>1, <2>1 DEF Step
  <2>4. HeldOK(TRUE, new_udp_send_s'[b], send_pc'[b], serial_pc'[b], send_data'[b],
               line'[b], send_queue'[b], send_buf'[b])
    BY <1>1, <2>1, <2>3 DEF HeldOf, HeldOK
  <2>5. QED
    BY <1>1, <2>1, <2>2, <2>3, <2>4, HeldKept
<1>7. QED
  BY <1>3, <1>4, <1>5, <1>6 DEF SerialMulti

LEMMA StepHeld == SendInv /\ HeldInv /\ [Next]_allVars => HeldInv'
<1> SUFFICES ASSUME SendInv, HeldInv, [Next]_allVars PROVE HeldInv'
  OBVIOUS
<1>1. CASE UNCHANGED sendAll
  <2>1. demo' = demo
    BY <1>1 DEF sendAll
  <2>2. QED
    BY <1>1, <2>1, SameTypes DEF sendAll, sendVars, multiVars, queueVars, sendThread,
                                 serialThread, HeldInv, HeldTypes, HeldOf
<1>2. CASE UNCHANGED allVars
  BY <1>1, <1>2 DEF allVars, vars, bootVars, sendAll
<1>3. QED
  BY <1>1, <1>2, SendSteps, StepHeldOneCore, StepHeldSend, StepHeldSerial

(* What main(), the radio and the LED's flag keep                          *)
BootInv ==
  /\ ssid \in [Boards -> {"ap", "foreign", NONE}]
  /\ assoc \in [Boards -> {"ap", "foreign", NONE}]
  /\ my_addr \in [Boards -> Addresses] /\ dest_addr_str \in [Boards -> Addresses]
  /\ faults \in 0 .. MaxFaults /\ led_flag \in [Boards -> BOOLEAN]

LEMMA InitBoot == InitDemos => BootInv
BY CountsAssumption DEF InitDemos, Init, BootInv, Addresses

LEMMA StepBoot == BootInv /\ [Next]_allVars => BootInv'
<1> SUFFICES ASSUME BootInv, [Next]_allVars PROVE BootInv'
  OBVIOUS
<1>1. CASE UNCHANGED allVars
  BY <1>1 DEF allVars, vars, bootVars, ledVars, BootInv
<1> SUFFICES ASSUME Next PROVE BootInv'
  BY <1>1
<1>2. PICK b \in Boards :
           \/ Booting(b) \/ Thread(b) \/ Core1(b) \/ AlarmCallback(b)
           \/ SignalUnlocked(b) \/ SendMulti(b) \/ SerialMulti(b)
  BY StepCases
<1>3. AP \in Boards /\ MaxFaults \in Nat /\ StationOf(b) \in Addresses
      /\ AP_ADDR \in Addresses /\ STATION_ADDR \in Addresses /\ STATION_BASE_ADDR \in Addresses
  BY CountsAssumption DEF AP, Boards, StationOf, StationAddr, STATION_ADDR_1, STATION_ADDR_2,
                          STATION_ADDR, STATION_BASE_ADDR, AP_ADDR, Addresses
<1>4. ASSUME Fault \/ UNCHANGED faults PROVE faults' \in 0 .. MaxFaults
  BY <1>3, <1>4 DEF Fault, BootInv
<1>5. CASE Booting(b)
  <2>1. led_flag' = led_flag /\ (Fault \/ UNCHANGED faults)
    <3>1. CASE b = AP /\ (EnableAp(STATION_ADDR) \/ EnableAp(STATION_BASE_ADDR))
      BY <3>1 DEF EnableAp, NoThreads, ledVars
    <3>2. CASE EnableStation(b) \/ StartScan(b) \/ FindTarget(b)
      BY <3>2 DEF EnableStation, StartScan, FindTarget, NoThreads, ledVars
    <3>3. CASE \/ Join(b, StationOf(b)) \/ JoinFails(b) \/ RegisterCallback(b)
               \/ InitSemaphores(b)
      BY <3>3 DEF Join, JoinFails, RegisterCallback, InitSemaphores, NoThreads, ledVars
    <3>4. QED
      BY <1>5, <3>1, <3>2, <3>3, Zenon DEF Booting
  <2>2. /\ ssid' \in [Boards -> {"ap", "foreign", NONE}]
        /\ assoc' \in [Boards -> {"ap", "foreign", NONE}]
    <3>1. CASE b = AP /\ (EnableAp(STATION_ADDR) \/ EnableAp(STATION_BASE_ADDR))
      BY <3>1 DEF EnableAp, BootInv
    <3>2. CASE EnableStation(b) \/ StartScan(b) \/ FindTarget(b)
      BY <3>2 DEF EnableStation, StartScan, FindTarget, BootInv
    <3>3. CASE \/ Join(b, StationOf(b)) \/ JoinFails(b) \/ RegisterCallback(b)
               \/ InitSemaphores(b)
      BY <3>3 DEF Join, JoinFails, RegisterCallback, InitSemaphores, BootInv
    <3>4. QED
      BY <1>5, <3>1, <3>2, <3>3, Zenon DEF Booting
  <2>3. my_addr' \in [Boards -> Addresses] /\ dest_addr_str' \in [Boards -> Addresses]
    <3>1. ASSUME NEW dest \in Addresses, EnableAp(dest)
          PROVE  my_addr' \in [Boards -> Addresses] /\ dest_addr_str' \in [Boards -> Addresses]
      BY <1>3, <3>1 DEF EnableAp, Address, BootInv
    <3>2. CASE EnableStation(b) \/ StartScan(b) \/ FindTarget(b)
      BY <3>2 DEF EnableStation, StartScan, FindTarget, BootInv
    <3>3. CASE Join(b, StationOf(b))
      BY <1>3, <3>3 DEF Join, Address, BootInv
    <3>4. CASE JoinFails(b) \/ RegisterCallback(b) \/ InitSemaphores(b)
      BY <3>4 DEF JoinFails, RegisterCallback, InitSemaphores, BootInv
    <3>5. QED
      BY <1>3, <1>5, <3>1, <3>2, <3>3, <3>4, Zenon DEF Booting
  <2>4. QED
    BY <1>4, <2>1, <2>2, <2>3 DEF BootInv
<1>6. ASSUME NEW addr, NEW p, Transmit(b, addr, p) PROVE Fault \/ UNCHANGED faults
  BY <1>6 DEF Transmit
<1>7. ASSUME UNCHANGED bootVars, Fault \/ UNCHANGED faults,
             led_flag' \in [Boards -> BOOLEAN]
      PROVE  BootInv'
  BY <1>4, <1>7 DEF bootVars, BootInv
<1>8. ASSUME UNCHANGED led_flag PROVE led_flag' \in [Boards -> BOOLEAN]
  BY <1>8 DEF BootInv
<1>9. CASE Thread(b)
  <2>1. CASE Send(b)
    BY <1>6, <1>7, <1>8, <2>1 DEF Send, SendWait
  <2>2. CASE Ack(b)
    BY <1>6, <1>7, <1>8, <2>2 DEF Ack
  <2>3. CASE \/ SendFails(b) \/ RecvLoad(b) \/ RecvStore(b) \/ RecvCopy(b)
             \/ RecvReadMulti(b) \/ Serial(b)
    BY <1>7, <1>8, <2>3 DEF SendFails, SendWait, RecvLoad, RecvStore, RecvCopy,
                            RecvReadMulti, Copied, Serial, ledVars
  <2>4. CASE RecvRead(b)
    <3>1. /\ UNCHANGED bootVars /\ UNCHANGED faults
          /\ led_flag' = led_flag \/ led_flag' = [led_flag EXCEPT ![b] = TRUE]
      BY <2>4 DEF RecvRead, Copied
    <3>2. led_flag' \in [Boards -> BOOLEAN]
      BY <3>1 DEF BootInv
    <3>3. QED
      BY <1>7, <3>1, <3>2
  <2>5. QED
    BY <1>9, <2>1, <2>2, <2>3, <2>4, Zenon DEF Thread
<1>10. CASE Core1(b) \/ AlarmCallback(b)
  <2>1. /\ UNCHANGED bootVars /\ UNCHANGED faults
        /\ led_flag' = led_flag \/ led_flag' = [led_flag EXCEPT ![b] = FALSE]
    BY <1>10 DEF Core1, LedOn, RestartAlarm, ResetFlag, AlarmCallback, NotLed
  <2>2. led_flag' \in [Boards -> BOOLEAN]
    BY <2>1 DEF BootInv
  <2>3. QED
    BY <1>7, <2>1, <2>2
<1>11. CASE SignalUnlocked(b)
  BY <1>11 DEF SignalUnlocked, NoThreads, ledVars, BootInv
<1>12. CASE SendMulti(b)
  <2>1. CASE SendTo(b)
    BY <1>6, <1>7, <1>8, <2>1 DEF SendTo, SendOnly
  <2>2. CASE SendLoad(b) \/ SendStore(b) \/ SendEnter(b) \/ SendExit(b)
    BY <1>7, <1>8, <2>2 DEF SendLoad, SendStore, SendEnter, SendExit, SendOnly, NotOut
  <2>3. QED
    BY <1>12, <2>1, <2>2, Zenon DEF SendMulti
<1>13. CASE SerialMulti(b)
  BY <1>7, <1>8, <1>13 DEF SerialMulti, SerialRead, SerialEnter, SerialExit, SerialLoad,
                           SerialStore, SerialOnly, ledVars
<1>14. QED
  BY <1>2, <1>5, <1>9, <1>10, <1>11, <1>12, <1>13, Zenon

(* A packet that is signalled, looked at or to be acknowledged is there.   *)
GotOK(new, signals, pc, buffer, copy, acks, answer) ==
  /\ new \/ signals > 0 \/ pc # "wait" => buffer \in Packet
  /\ pc = "copy" => copy \in Packet
  /\ acks > 0 => answer \in Packet

GotOf(b) ==
  GotOK(fresh[b], new_udp_recv_s[b], recv_pc[b], recv_data[b], tbuf[b],
        new_udp_ack_s[b], return_data[b])

GotTypes ==
  /\ recv_data \in [Boards -> Packet \cup {NONE}]
  /\ tbuf \in [Boards -> Packet \cup {NONE}]
  /\ return_data \in [Boards -> Packet \cup {NONE}]
  /\ fresh \in [Boards -> BOOLEAN]
  /\ sent \in [Boards -> SUBSET (Number \X Messages)]
  /\ acked \in [Boards -> SUBSET Messages] /\ lost \subseteq Messages

GotInv == GotTypes /\ \A b \in Boards : GotOf(b)

LEMMA InitGot == InitDemos => GotInv
BY DEF InitDemos, Init, GotInv, GotTypes, GotOf, GotOK

LEMMA PacketTypes ==
  ASSUME NEW p \in Packet
  PROVE  /\ p.src \in Addresses /\ p.num \in Number \cup {NONE}
         /\ p.msg \in Stamp /\ p.torn \in BOOLEAN /\ Names(p) \subseteq Messages
BY DEF Packet, Names, Stamp

(* Whatever becomes of a copy, it has the type of a packet.                *)
LEMMA TornTypes ==
  ASSUME NEW p \in Packet, NEW q \in Packet
  PROVE  Torn(p, q) \subseteq Packet
<1>1. /\ p.type \in {"data", "ack", "other"} /\ p.src \in Addresses
      /\ q.src \in Addresses /\ NO_ADDR \in Addresses
      /\ p.num \in Number \cup {NONE} /\ q.num \in Number \cup {NONE}
      /\ q.msg \in Stamp /\ NONE \in Stamp
  BY DEF Packet, Stamp, Addresses
<1>2. Garbage \in Packet
  BY <1>1 DEF Garbage, Packet
<1>3. QED
  BY <1>1, <1>2 DEF Torn, Packet

(* A packet that is sent may come to a board, or be lost.                  *)
LEMMA GotSent ==
  ASSUME ReceiveInv, GotInv, demo' = demo, UNCHANGED <<recv_pc, return_data, acked>>,
         sent' \in [Boards -> SUBSET (Number \X Messages)],
         \A c \in Boards : new_udp_ack_s'[c] > 0 => new_udp_ack_s[c] > 0,
         NEW b, NEW addr, NEW p \in Packet, Transmit(b, addr, p)
  PROVE  GotInv'
<1>1. GotTypes /\ \A c \in Boards : GotOf(c)
  BY DEF GotInv
<1>2. Number' = Number /\ Packet' = Packet
  BY SameTypes
<1>3. Names(p) \subseteq Messages
  BY PacketTypes
<1>4. CASE lost' = lost \cup Names(p) /\ UNCHANGED <<recv_data, new_udp_recv_s, fresh, tbuf>>
  <2>1. GotTypes'
    BY <1>1, <1>2, <1>3, <1>4 DEF GotTypes
  <2>2. ASSUME NEW c \in Boards PROVE GotOf(c)'
    BY <1>1, <1>2, <1>4 DEF GotOf, GotOK
  <2>3. QED
    BY <2>1, <2>2 DEF GotInv
<1>5. ASSUME NEW a \in Boards, Callback(a, p) PROVE GotInv'
  <2>1. /\ recv_data' = [recv_data EXCEPT ![a] = p] /\ fresh' = [fresh EXCEPT ![a] = TRUE]
        /\ new_udp_recv_s' = [new_udp_recv_s EXCEPT ![a] = @ + 1]
        /\ lost' = lost \cup Overwritten(a) \cup Spoiled(a)
        /\ \/ /\ recv_pc[a] = "copy"
              /\ \E t \in Torn(tbuf[a], p) : tbuf' = [tbuf EXCEPT ![a] = t]
           \/ recv_pc[a] # "copy" /\ tbuf' = tbuf
    BY <1>5 DEF Callback
  <2>2. new_udp_recv_s \in [Boards -> Nat]
    BY DEF ReceiveInv, ReceiveShape
  <2>3. recv_pc[a] = "copy" => tbuf[a] \in Packet /\ Torn(tbuf[a], p) \subseteq Packet
    BY <1>1, TornTypes DEF GotOf, GotOK
  <2>4. /\ tbuf' \in [Boards -> Packet \cup {NONE}]
        /\ recv_pc[a] = "copy" => tbuf'[a] \in Packet
        /\ \A c \in Boards : c # a => tbuf'[c] = tbuf[c]
    <3>1. tbuf \in [Boards -> Packet \cup {NONE}]
      BY <1>1 DEF GotTypes
    <3>2. CASE recv_pc[a] = "copy"
      <4>1. PICK t \in Packet : tbuf' = [tbuf EXCEPT ![a] = t]
        BY <2>1, <2>3, <3>2
      <4>2. QED
        BY <3>1, <4>1
    <3>3. CASE recv_pc[a] # "copy"
      BY <2>1, <3>1, <3>3
    <3>4. QED
      BY <3>2, <3>3
  <2>5. lost' \subseteq Messages
    <3>1. Overwritten(a) \subseteq Messages
      BY <1>1, PacketTypes DEF Overwritten, GotOf, GotOK
    <3>2. Spoiled(a) \subseteq Messages
      <4>1. tbuf'[a] # tbuf[a] => tbuf[a] \in Packet
        BY <2>1, <2>3
      <4>2. QED
        BY <4>1, PacketTypes DEF Spoiled
    <3>3. QED
      BY <1>1, <2>1, <3>1, <3>2 DEF GotTypes
  <2>6. GotTypes'
    BY <1>1, <1>2, <2>1, <2>4, <2>5 DEF GotTypes
  <2>7. /\ recv_data'[a] = p
        /\ \A c \in Boards : c # a =>
             /\ recv_data'[c] = recv_data[c] /\ fresh'[c] = fresh[c]
             /\ new_udp_recv_s'[c] = new_udp_recv_s[c]
    BY <1>1, <2>1, <2>2 DEF GotTypes
  <2>8. ASSUME NEW c \in Boards PROVE GotOf(c)'
    <3>1. CASE c = a
      BY <1>1, <1>2, <2>4, <2>7, <3>1 DEF GotOf, GotOK
    <3>2. CASE c # a
      BY <1>1, <1>2, <2>4, <2>7, <3>2 DEF GotOf, GotOK
    <3>3. QED
      BY <3>1, <3>2
  <2>9. QED
    BY <2>6, <2>8 DEF GotInv
<1>6. QED
  BY <1>4, <1>5 DEF Transmit, Reached

LEMMA StepGotSend ==
  ASSUME SendInv, HeldInv, BootInv, ReceiveInv, GotInv, demo' = demo,
         NEW b \in Boards, (demo # "multicore" /\ Send(b)) \/ SendTo(b)
  PROVE  GotInv'
<1>1. /\ GotTypes /\ HeldOf(b) /\ UNCHANGED <<recv_pc, return_data, acked, new_udp_ack_s>>
  BY DEF GotInv, HeldInv, Send, SendWait, SendTo, SendOnly, passVars, ackVars
<1>2. /\ 0 \in Number /\ packet_counter[b] \in Number /\ my_addr[b] \in Addresses
      /\ NO_ADDR \in Addresses /\ send_buf[b] \in Content
      /\ Number' = Number /\ Packet' = Packet
  BY NumbersFit, SameTypes DEF BootInv, HeldInv, HeldTypes, Addresses
<1>3. ASSUME NEW p \in Packet, NEW n \in Number, NEW m \in Messages, NEW addr,
             Transmit(b, addr, p), sent' = [sent EXCEPT ![b] = @ \cup {<<n, m>>}]
      PROVE  GotInv'
  <2>1. sent' \in [Boards -> SUBSET (Number \X Messages)]
    BY <1>1, <1>3 DEF GotTypes
  <2>2. QED
    BY <1>1, <1>3, <2>1, GotSent
<1>4. CASE demo # "multicore" /\ Send(b)
  <2>1. /\ new_udp_send_s[b] > 0 /\ Transmit(b, dest_addr_str[b], Data(b, send_data[b]))
        /\ sent' = [sent EXCEPT ![b] = @ \cup {<<packet_counter[b], send_data[b]>>}]
    BY <1>4 DEF Send, SendWait
  <2>2. send_data[b] \in Messages
    BY <1>1, <1>4, <2>1 DEF HeldOf, HeldOK
  <2>3. Data(b, send_data[b]) \in Packet
    BY <1>2, <2>2 DEF Data, Packet, Stamp
  <2>4. QED
    BY <1>2, <1>3, <2>1, <2>2, <2>3
<1>5. CASE SendTo(b)
  <2> DEFINE p == [type |-> "data", src |-> my_addr[b], num |-> send_buf[b].num,
                   msg |-> send_buf[b].msg, torn |-> FALSE]
  <2>1. /\ send_pc[b] = "send"
        /\ \/ /\ Transmit(b, dest_addr_str[b], p)
              /\ sent' = [sent EXCEPT ![b] = @ \cup {<<send_buf[b].num, send_buf[b].msg>>}]
           \/ UNCHANGED <<sent, recvVars>>
    BY <1>5 DEF SendTo, Step
  <2>2. send_buf[b].num \in Number /\ send_buf[b].msg \in Messages
    BY <1>1, <1>2, <2>1, ContentTypes DEF HeldOf, HeldOK
  <2>3. p \in Packet
    BY <1>2, <2>2 DEF Packet, Stamp
  <2>4. CASE UNCHANGED <<sent, recvVars>>
    BY <1>1, <1>2, <2>4 DEF recvVars, GotInv, GotTypes, GotOf, GotOK
  <2>5. ASSUME Transmit(b, dest_addr_str[b], p),
               sent' = [sent EXCEPT ![b] = @ \cup {<<send_buf[b].num, send_buf[b].msg>>}]
        PROVE  GotInv'
    <3> HIDE DEF p
    <3>1. QED
      BY <1>3, <2>2, <2>3, <2>5
  <2>6. QED
    BY <2>1, <2>4, <2>5
<1>6. QED
  BY <1>4, <1>5

LEMMA StepGotRead ==
  ASSUME ReceiveInv, GotInv, demo' = demo,
         NEW b \in Boards, RecvRead(b) \/ RecvReadMulti(b)
  PROVE  GotInv'
<1>1. /\ GotTypes /\ \A c \in Boards : GotOf(c)
      /\ recv_pc \in [Boards -> {"wait", "loaded", "read", "copy"}]
      /\ new_udp_ack_s \in [Boards -> 0 .. 1]
  BY DEF GotInv, ReceiveInv, ReceiveShape
<1>2. Number' = Number /\ Packet' = Packet
  BY SameTypes
<1>3. /\ recv_pc[b] = "copy" /\ recv_pc' = [recv_pc EXCEPT ![b] = "wait"]
      /\ tbuf' = [tbuf EXCEPT ![b] = NONE] /\ PrintAck(b, tbuf[b])
      /\ UNCHANGED <<recv_data, new_udp_recv_s, fresh, lost, sent>>
      /\ Acknowledge(b, tbuf[b]) \/ UNCHANGED ackVars
  BY DEF RecvRead, RecvReadMulti, Copied, sendVars
<1>4. recv_data[b] \in Packet /\ tbuf[b] \in Packet /\ Names(tbuf[b]) \subseteq Messages
  BY <1>1, <1>3, PacketTypes DEF GotOf, GotOK
<1>5. acked' \in [Boards -> SUBSET Messages]
  BY <1>1, <1>3, <1>4 DEF GotTypes, PrintAck
<1>6. tbuf' \in [Boards -> Packet \cup {NONE}]
  BY <1>1, <1>3 DEF GotTypes
<1>7. \A c \in Boards : c # b => tbuf'[c] = tbuf[c] /\ recv_pc'[c] = recv_pc[c]
  BY <1>1, <1>3 DEF GotTypes
<1>8. /\ return_data' \in [Boards -> Packet \cup {NONE}]
      /\ new_udp_ack_s'[b] > 0 => return_data'[b] \in Packet
      /\ \A c \in Boards : c # b => /\ return_data'[c] = return_data[c]
                                    /\ new_udp_ack_s'[c] = new_udp_ack_s[c]
  <2>1. CASE Acknowledge(b, tbuf[b])
    BY <1>1, <1>4, <2>1 DEF Acknowledge, GotTypes
  <2>2. CASE UNCHANGED ackVars
    BY <1>1, <2>2 DEF ackVars, GotTypes, GotOf, GotOK
  <2>3. QED
    BY <1>3, <2>1, <2>2
<1>9. GotTypes'
  BY <1>1, <1>2, <1>3, <1>5, <1>6, <1>8 DEF GotTypes
<1>10. ASSUME NEW c \in Boards PROVE GotOf(c)'
  <2>1. CASE c = b
    BY <1>1, <1>2, <1>3, <1>4, <1>8, <2>1 DEF GotOf, GotOK
  <2>2. CASE c # b
    BY <1>1, <1>2, <1>3, <1>7, <1>8, <2>2 DEF GotOf, GotOK
  <2>3. QED
    BY <2>1, <2>2
<1>11. QED
  BY <1>9, <1>10 DEF GotInv

LEMMA StepGot ==
  SendInv /\ HeldInv /\ BootInv /\ ReceiveInv /\ GotInv /\ [Next]_allVars => GotInv'
<1> SUFFICES ASSUME SendInv, HeldInv, BootInv, ReceiveInv, GotInv, [Next]_allVars
             PROVE  GotInv'
  OBVIOUS
<1>1. /\ GotTypes /\ \A c \in Boards : GotOf(c)
      /\ recv_pc \in [Boards -> {"wait", "loaded", "read", "copy"}]
      /\ new_udp_recv_s \in [Boards -> Nat] /\ new_udp_ack_s \in [Boards -> 0 .. 1]
  BY DEF GotInv, ReceiveInv, ReceiveShape
<1>2. demo' = demo
  <2>1. CASE UNCHANGED sendAll \/ UNCHANGED allVars
    BY <2>1 DEF sendAll, allVars, vars, bootVars
  <2>2. ASSUME NEW b \in Boards, Send(b) \/ SendFails(b) \/ Serial(b) PROVE demo' = demo
    BY <2>2 DEF Send, SendFails, SendWait, Serial, bootVars
  <2>3. ASSUME NEW b \in Boards, SendMulti(b) \/ SerialMulti(b) PROVE demo' = demo
    BY <2>3 DEF SendMulti, SendLoad, SendStore, SendEnter, SendExit, SendTo, SendOnly,
                SerialMulti, SerialRead, SerialEnter, SerialExit, SerialLoad, SerialStore,
                SerialOnly, bootVars
  <2>4. QED
    BY <2>1, <2>2, <2>3, SendSteps
<1>3. Number' = Number /\ Packet' = Packet
  BY <1>2, SameTypes
<1>4. CASE UNCHANGED <<recvVars, recv_pc, ackVars, sent, acked>>
  BY <1>1, <1>3, <1>4 DEF recvVars, ackVars, GotInv, GotTypes, GotOf, GotOK
<1>5. CASE UNCHANGED allVars
  BY <1>4, <1>5 DEF allVars, vars, sendVars, passVars
<1>6. ASSUME NEW b \in Boards, InitSemaphores(b) \/ SignalUnlocked(b) PROVE GotInv'
  <2>1. /\ fresh' = [fresh EXCEPT ![b] = FALSE]
        /\ \/ new_udp_recv_s' = [new_udp_recv_s EXCEPT ![b] = 0]
           \/ UNCHANGED new_udp_recv_s
        /\ lost' = lost \cup (IF fresh[b] THEN Names(recv_data[b]) ELSE {})
        /\ UNCHANGED <<recv_data, recv_pc, tbuf, return_data, new_udp_ack_s, sent, acked>>
    BY <1>6 DEF InitSemaphores, SignalUnlocked, NoThreads, sendVars, passVars, ackVars
  <2>2. fresh[b] => Names(recv_data[b]) \subseteq Messages
    BY <1>1, PacketTypes DEF GotOf, GotOK
  <2>3. lost' \subseteq Messages
    BY <1>1, <2>1, <2>2 DEF GotTypes
  <2>4. GotTypes'
    BY <1>1, <1>3, <2>1, <2>3 DEF GotTypes
  <2>5. ASSUME NEW c \in Boards PROVE GotOf(c)'
    <3>1. ~ fresh'[b] /\ (c # b => fresh'[c] = fresh[c])
      BY <1>1, <2>1 DEF GotTypes
    <3>2. new_udp_recv_s'[c] = new_udp_recv_s[c] \/ new_udp_recv_s'[c] = 0
      BY <1>1, <2>1
    <3>3. QED
      BY <1>1, <1>3, <2>1, <3>1, <3>2 DEF GotOf, GotOK
  <2>6. QED
    BY <2>4, <2>5 DEF GotInv
<1>7. ASSUME NEW b \in Boards, RecvLoad(b) PROVE GotInv'
  <2>1. /\ new_udp_recv_s[b] > 0 /\ recv_pc' = [recv_pc EXCEPT ![b] = "loaded"]
        /\ UNCHANGED <<recvVars, ackVars, sent, acked>>
    BY <1>7 DEF RecvLoad, sendVars
  <2>2. GotTypes'
    BY <1>1, <1>3, <2>1 DEF recvVars, ackVars, GotTypes
  <2>3. ASSUME NEW c \in Boards PROVE GotOf(c)'
    <3>1. c # b => recv_pc'[c] = recv_pc[c]
      BY <1>1, <2>1
    <3>2. QED
      BY <1>1, <1>3, <2>1, <3>1 DEF recvVars, ackVars, GotOf, GotOK
  <2>4. QED
    BY <2>2, <2>3 DEF GotInv
<1>8. ASSUME NEW b \in Boards, RecvStore(b) PROVE GotInv'
  <2>1. /\ recv_pc[b] = "loaded" /\ recv_pc' = [recv_pc EXCEPT ![b] = "read"]
        /\ new_udp_recv_s' = [new_udp_recv_s EXCEPT ![b] = count_read[b] - 1]
        /\ UNCHANGED <<recv_data, fresh, tbuf, lost, ackVars, sent, acked>>
    BY <1>8 DEF RecvStore, sendVars
  <2>2. GotTypes'
    BY <1>1, <1>3, <2>1 DEF ackVars, GotTypes
  <2>3. ASSUME NEW c \in Boards PROVE GotOf(c)'
    <3>1. c # b => recv_pc'[c] = recv_pc[c] /\ new_udp_recv_s'[c] = new_udp_recv_s[c]
      BY <1>1, <2>1
    <3>2. QED
      BY <1>1, <1>3, <2>1, <3>1 DEF ackVars, GotOf, GotOK
  <2>4. QED
    BY <2>2, <2>3 DEF GotInv
<1>9. ASSUME NEW b \in Boards, RecvCopy(b) PROVE GotInv'
  <2>1. /\ recv_pc[b] = "read" /\ recv_pc' = [recv_pc EXCEPT ![b] = "copy"]
        /\ tbuf' = [tbuf EXCEPT ![b] = recv_data[b]]
        /\ fresh' = [fresh EXCEPT ![b] = FALSE]
        /\ UNCHANGED <<recv_data, new_udp_recv_s, lost, ackVars, sent, acked>>
    BY <1>9 DEF RecvCopy, sendVars
  <2>2. recv_data[b] \in Packet
    BY <1>1, <2>1 DEF GotOf, GotOK
  <2>3. GotTypes'
    BY <1>1, <1>3, <2>1, <2>2 DEF ackVars, GotTypes
  <2>4. /\ tbuf'[b] = recv_data[b]
        /\ \A c \in Boards : c # b => /\ recv_pc'[c] = recv_pc[c] /\ tbuf'[c] = tbuf[c]
                                      /\ fresh'[c] = fresh[c]
    BY <1>1, <2>1 DEF GotTypes
  <2>5. ASSUME NEW c \in Boards PROVE GotOf(c)'
    <3>1. CASE c = b
      BY <1>1, <1>3, <2>1, <2>2, <2>4, <3>1 DEF ackVars, GotOf, GotOK
    <3>2. CASE c # b
      BY <1>1, <1>3, <2>1, <2>4, <3>2 DEF ackVars, GotOf, GotOK
    <3>3. QED
      BY <3>1, <3>2
  <2>6. QED
    BY <2>3, <2>5 DEF GotInv
<1>10. ASSUME NEW b \in Boards, Ack(b) PROVE GotInv'
  <2>1. /\ new_udp_ack_s[b] > 0 /\ new_udp_ack_s' = [new_udp_ack_s EXCEPT ![b] = @ - 1]
        /\ Transmit(b, return_data[b].src, AckFor(b))
        /\ UNCHANGED <<recv_pc, return_data, sent, acked>>
    BY <1>10 DEF Ack, sendVars, passVars
  <2>2. return_data[b] \in Packet /\ my_addr[b] \in Addresses
    BY <1>1, <2>1 DEF GotOf, GotOK, BootInv
  <2>3. AckFor(b) \in Packet
    <3>1. /\ return_data[b].num \in Number \cup {NONE} /\ return_data[b].msg \in Stamp
          /\ return_data[b].torn \in BOOLEAN
      BY <2>2, PacketTypes
    <3>2. QED
      BY <2>2, <3>1 DEF AckFor, Packet
  <2>4. \A c \in Boards : new_udp_ack_s'[c] > 0 => new_udp_ack_s[c] > 0
    BY <1>1, <2>1
  <2>5. sent' \in [Boards -> SUBSET (Number \X Messages)]
    BY <1>1, <2>1 DEF GotTypes
  <2>6. QED
    BY <1>2, <2>1, <2>3, <2>4, <2>5, GotSent
<1>11. QED
  BY <1>2, <1>4, <1>5, <1>6, <1>7, <1>8, <1>9, <1>10, MailSteps, StepGotSend, StepGotRead

(* The types of everything: no counter passes the number of packets that   *)
(* can be sent, whatever the interrupts and the two cores do to the counts *)
(* of the semaphores, and no board sends, acknowledges or looks at a       *)
(* packet that is not there.                                               *)
THEOREM DemosTypeCorrect == Spec => []TypesOK
<1> DEFINE Inv == /\ LedInv /\ SignalInv /\ QueueInv /\ SendInv
                  /\ HeldInv /\ BootInv /\ ReceiveInv /\ GotInv
<1>1. InitDemos => Inv
  BY InitLed, InitSignal, InitQueue, InitSend, InitHeld, InitBoot, InitReceive, InitGot
<1>2. Inv /\ [Next]_allVars => Inv'
  BY StepLed, StepSignal, StepQueue, StepSend, StepHeld, StepBoot, StepReceive, StepGot
<1>3. Inv => TypesOK
  <2> SUFFICES ASSUME Inv PROVE TypesOK
    OBVIOUS
  <2>1. /\ demo \in Demos /\ todo \subseteq Lines[demo]
        /\ packet_counter \in [Boards -> Number] /\ new_udp_send_s \in [Boards -> Number]
        /\ send_read \in [Boards -> Number] /\ serial_read \in [Boards -> Number]
    BY NumbersFit DEF SendInv, SendShape
  <2>2. /\ new_udp_recv_s \in [Boards -> Number] /\ count_read \in [Boards -> Number]
        /\ new_udp_ack_s \in [Boards -> 0 .. 1]
    <3>1. /\ MaxSent \in Nat /\ Total(packet_counter) \in Nat
          /\ Total(packet_counter) <= MaxSent
      BY SendBound, ReceiveTypes DEF ReceiveInv
    <3>2. ASSUME NEW b \in Boards
          PROVE  new_udp_recv_s[b] \in Number /\ count_read[b] \in Number
      <4>1. /\ new_udp_recv_s[b] \in Nat /\ new_udp_recv_s[b] <= Total(packet_counter)
            /\ count_read[b] \in Nat /\ count_read[b] <= Total(packet_counter)
        BY SignalsBounded DEF PassOf, PassOK
      <4>2. QED
        BY <3>1, <4>1 DEF Number
    <3>3. QED
      BY <3>2 DEF ReceiveInv, ReceiveShape
  <2>3. /\ led \in [Boards -> BOOLEAN] /\ led_alarm \in [Boards -> BOOLEAN]
        /\ core_1 \in [Boards -> {"poll", "on", "armed"}]
    BY DEF LedInv, LedShape
  <2>4. /\ main \in [Boards -> {"off", "init", "scan", "join", "net", "callback",
                               "threads", "ended"}]
        /\ recv_pc \in [Boards -> {"wait", "loaded", "read", "copy"}]
    BY DEF SignalInv, RecvShape
  <2>5. TypeOK
    BY <2>1, <2>2, <2>3, <2>4 DEF TypeOK, Count, Stamp, BootInv, HeldInv, HeldTypes, GotInv, GotTypes
  <2>6. TypeOKMulti
    BY <2>1 DEF TypeOKMulti, Count, QueueInv, QueueShape, HeldInv, HeldTypes
  <2>7. QED
    BY <2>5, <2>6 DEF TypesOK
<1> HIDE DEF Inv
<1>4. QED
  BY <1>1, <1>2, <1>3, PTL DEF Spec
=============================================================================
