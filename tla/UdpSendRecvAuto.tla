-------------------------- MODULE UdpSendRecvAuto --------------------------
(***************************************************************************)
(* The demo UDP/udp_send_recv_auto: udp_send_recv with a station that      *)
(* scans for its network and joins whatever is named "picow..." and was    *)
(* reported last.  Its threads are those of udp_send_recv, line by line.   *)
(***************************************************************************)
EXTENDS UdpSendRecv

(* The station, a second after power-up, scans. *)
StartScan(b) ==
  /\ b \in Stations[demo]
  /\ Boot(b, "init", "scan")
  /\ UNCHANGED <<ssid, assoc, my_addr, dest_addr_str, recvVars, faults>>
  /\ NoThreads

(* find_target ends after its ten seconds: any picow network in range may  *)
(* have been the last one, there may have been none, and the scan may have *)
(* failed to start, which main does not look at.                           *)
FindTarget(b) ==
  /\ Boot(b, "scan", "join")
  /\ \/ Hosting /\ ssid' = [ssid EXCEPT ![b] = "ap"] /\ UNCHANGED faults
     \/ ssid' = [ssid EXCEPT ![b] = "foreign"] /\ Fault
     \/ /\ IF Hosting THEN Fault ELSE UNCHANGED faults
        /\ UNCHANGED ssid
  /\ UNCHANGED <<assoc, my_addr, dest_addr_str, recvVars>>
  /\ NoThreads

(* main() of this program *)
MainAuto(b) ==
  /\ demo = "auto"
  /\ \/ b = AP /\ EnableAp(STATION_ADDR)
     \/ StartScan(b) \/ FindTarget(b)
     \/ Join(b, STATION_ADDR) \/ JoinFails(b)
     \/ RegisterCallback(b) \/ InitSemaphores(b)

SendAuto(b) == demo = "auto" /\ (Send(b) \/ SendFails(b))
RecvAuto(b) == demo = "auto" /\ (Pass(b) \/ RecvRead(b))
AckAuto(b) == demo = "auto" /\ Ack(b)
SerialAuto(b) == demo = "auto" /\ Serial(b)
LedAuto(b) == demo = "auto" /\ (Core1(b) \/ AlarmCallback(b))

NextAuto(b) ==
  \/ MainAuto(b)
  \/ SendAuto(b) \/ RecvAuto(b) \/ AckAuto(b) \/ SerialAuto(b)
  \/ LedAuto(b)
=============================================================================
