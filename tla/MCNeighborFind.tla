--------------------------- MODULE MCNeighborFind ---------------------------
(***************************************************************************)
(* NeighborFind on a layout of layout.c.                                   *)
(***************************************************************************)
EXTENDS NeighborFind, Layout, PacketCodec

CONSTANT LAYOUT

LayoutInRange == conn_array(adj_list[LAYOUT], Boards)

TokenOrData ==
  {{[board |-> 0, kind |-> "token"]}, {[board |-> 0, kind |-> "data"]}}
=============================================================================
