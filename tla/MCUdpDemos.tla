----------------------------- MODULE MCUdpDemos -----------------------------
(***************************************************************************)
(* The four demos of UDP/, each on its boards.                             *)
(***************************************************************************)
EXTENDS UdpDemos

CONSTANTS m1, m2, m3

DemoStations ==
  [d \in Demos |-> IF d = "three_connect" THEN {1, 2} ELSE {1}]

(* Lines that meet on the way or come fast: two of a station and the test  *)
(* message of the other board, one of each board, and two at one board of  *)
(* the demo on two cores.                                                  *)
DemoLines ==
  [d \in Demos |->
     CASE d = "send_recv"     -> {<<1, m1>>, <<1, m2>>, <<0, TEST>>}
       [] d = "auto"          -> {<<0, m1>>, <<1, m2>>}
       [] d = "three_connect" -> {<<0, m1>>, <<1, m2>>, <<2, m3>>}
       [] d = "multicore"     -> {<<1, m1>>, <<1, m2>>}]
=============================================================================
