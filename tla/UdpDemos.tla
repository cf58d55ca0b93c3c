------------------------------ MODULE UdpDemos ------------------------------
(***************************************************************************)
(* The four demos of UDP/.  In each of them one board hosts the network;   *)
(* the others are flashed as stations.                                     *)
(***************************************************************************)
EXTENDS UdpThreeConnect, UdpMulticore

(* Only the stations of three_connect have addresses of their own: every   *)
(* other demo is for one station.                                          *)
ASSUME DemosAssumption ==
  /\ Demos \subseteq {"send_recv", "auto", "three_connect", "multicore"}
  /\ \A d \in Demos :
       Stations[d] \subseteq IF d = "three_connect" THEN {1, 2} ELSE {1}

OneCore(b) ==
  (NextSendRecv(b) \/ NextAuto(b) \/ NextThree(b)) /\ UNCHANGED multiVars

Next == \E b \in Boards : OneCore(b) \/ NextMulti(b)

InitDemos == Init /\ InitMulti

Spec == InitDemos /\ [][Next]_allVars

TypesOK == TypeOK /\ TypeOKMulti

(* The schedulers of both cores call their threads again and again, scans  *)
(* and joins end, and alarms go off.  Nobody has to type.                  *)
FairSpec == Spec /\ \A b \in Boards :
  /\ WF_allVars(OneCore(b) /\ todo' = todo)
  /\ WF_allVars(MainMulti(b)) /\ WF_allVars(SendMulti(b))
  /\ WF_allVars(SerialMulti(b) /\ todo' = todo)
  /\ WF_allVars(RecvMulti(b)) /\ WF_allVars(AckMulti(b))
  /\ WF_allVars(AlarmMulti(b))
=============================================================================
