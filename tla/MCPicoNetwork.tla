---------------------------- MODULE MCPicoNetwork ----------------------------
(***************************************************************************)
(* Instances of PicoNetwork and PicoNetworkRouting: boards in a line       *)
(* (LAYOUT 1 of layout.c), or a triangle with a leaf (LAYOUT 3) and a      *)
(* second leaf at another corner.                                          *)
(***************************************************************************)
EXTENDS PicoNetworkRouting, TLC

LineInRange == [b \in Boards |-> {a \in Boards : a = b - 1 \/ a = b + 1}]
LineHops == [b \in Boards |-> [d \in IDs |-> IF b < d THEN d - b ELSE b - d]]
TailsInRange ==
  (0 :> {1, 2, 4}) @@ (1 :> {0, 2}) @@ (2 :> {0, 1, 3}) @@ (3 :> {2})
    @@ (4 :> {0})
TailsHops ==
  [b \in Boards |-> [d \in IDs |->
     IF b = d THEN 0
     ELSE IF d \in TailsInRange[b] THEN 1
     ELSE IF TailsInRange[b] \cap TailsInRange[d] # {} THEN 2 ELSE 3]]

Cmd(b, kind, d) == [board |-> b, kind |-> kind, dest |-> d]

(* an exchange, started at one board, at two, or while data is sent *)
DvCommand == {Cmd(0, "dv", 0)}
DvAt1And2 == {Cmd(1, "dv", 0), Cmd(2, "dv", 0)}
DvAndData == {Cmd(0, "dv", 0), Cmd(0, "data", 2)}

(* neighbor finding; data on two routes of TailsInRange that do not touch *)
TokenAndDataBeside ==
  {Cmd(0, "token", 0), Cmd(4, "data", 1), Cmd(3, "data", 2)}
=============================================================================
