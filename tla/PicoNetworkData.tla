--------------------------- MODULE PicoNetworkData ---------------------------
(***************************************************************************)
(* Data on its way through the network of PicoNetworkRouting.  Routes may  *)
(* change while a packet waits in a queue, so two history variables keep   *)
(* what it cost when it was queued.  They restrict no step.                *)
(***************************************************************************)
EXTENDS PicoNetworkRouting

VARIABLES
  queued_at,  \* the distance of b to the destination of the data in its
              \* send queue, when that was queued
  sent_at     \* the same of the board that sent b the data in recv_data[b]

dataVars == <<vars, queued_at, sent_at>>

IsData(p) == p # NONE /\ p.type = "data"

InitData ==
  /\ InitRouted
  /\ queued_at = [b \in Boards |-> DIST_IF_NO_ROUTE]
  /\ sent_at = [b \in Boards |-> DIST_IF_NO_ROUTE]

(* Data that is queued anew costs what the route costs by then; data that  *)
(* arrives, what its sender queued it at.                                  *)
NoteQueued ==
  queued_at' = [b \in Boards |->
    IF IsData(send_queue'[b]) /\ send_queue'[b] # send_queue[b]
    THEN dist_vector[b][send_queue'[b].dest] ELSE queued_at[b]]

NoteSent ==
  sent_at' = [b \in Boards |->
    IF IsData(recv_data'[b]) /\ new_udp_recv_s'[b] > new_udp_recv_s[b]
    THEN queued_at[recv_data'[b].src] ELSE sent_at[b]]

NextData == Next /\ NoteQueued /\ NoteSent

SpecData == InitData /\ [][NextData]_dataVars

(* A board that gets data for another node is closer to that node than the *)
(* board it has the data from was when it queued the data.  So a packet    *)
(* costs less with every hop and makes at most MAX_NODES of them, whatever *)
(* is exchanged, lost or typed meanwhile: not even a route that changes    *)
(* under a queued packet sends it round (main.c:580-596, 646-660).         *)
DataMovesCloser ==
  \A b \in Boards :
    IsData(recv_data[b])
      => dist_vector[b][recv_data[b].dest] < sent_at[b]
=============================================================================
