-------------------------- MODULE UdpThreeConnect --------------------------
(***************************************************************************)
(* The demo UDP/udp_send_recv_three_connect: one access point and two      *)
(* stations, each compiled with its ID.  The stations send to the access   *)
(* point.  The access point sends to STATION_BASE_ADDR, which none of them *)
(* has: it can acknowledge what it gets, and reaches nobody else.          *)
(***************************************************************************)
EXTENDS UdpSendRecvAuto

STATION_BASE_ADDR == "192.168.4.10"
STATION_ADDR_1    == "192.168.4.11"
STATION_ADDR_2    == "192.168.4.12"

(* The address that a station is compiled with *)
StationAddr(b) == IF b = 1 THEN STATION_ADDR_1 ELSE STATION_ADDR_2

(* main() of this program *)
MainThree(b) ==
  /\ demo = "three_connect"
  /\ \/ b = AP /\ EnableAp(STATION_BASE_ADDR)
     \/ StartScan(b) \/ FindTarget(b)
     \/ Join(b, StationAddr(b)) \/ JoinFails(b)
     \/ RegisterCallback(b) \/ InitSemaphores(b)

SendThree(b) == demo = "three_connect" /\ (Send(b) \/ SendFails(b))
RecvThree(b) == demo = "three_connect" /\ (Pass(b) \/ RecvRead(b))
AckThree(b) == demo = "three_connect" /\ Ack(b)
SerialThree(b) == demo = "three_connect" /\ Serial(b)
LedThree(b) == demo = "three_connect" /\ (Core1(b) \/ AlarmCallback(b))

NextThree(b) ==
  \/ MainThree(b)
  \/ SendThree(b) \/ RecvThree(b) \/ AckThree(b) \/ SerialThree(b)
  \/ LedThree(b)
=============================================================================
