------------------------------- MODULE Layout -------------------------------
(***************************************************************************)
(* The preset layouts of layout.c: which boards act as if they saw each    *)
(* other's access points.                                                  *)
(***************************************************************************)
EXTENDS Integers, Sequences

EOL == -1

(* adj_list for each value of LAYOUT; rows that are not there are zeros.   *)
adj_list ==
  [LAYOUT \in 0 .. 4 |->
     CASE LAYOUT = 0 -> << <<1, EOL>>, <<0, EOL>> >>
       [] LAYOUT = 1 -> << <<1, EOL>>, <<0, 2, EOL>>, <<1, 3, EOL>>, <<2, EOL>> >>
       [] LAYOUT = 2 -> << <<1, EOL>>, <<0, 2, 3, EOL>>, <<1, EOL>>, <<1, EOL>> >>
       [] LAYOUT = 3 -> << <<1, 2, EOL>>, <<0, 2, EOL>>, <<0, 1, 3, EOL>>,
                           <<2, EOL>> >>
       [] LAYOUT = 4 -> << <<1, 4, EOL>>, <<0, 2, 3, EOL>>, <<1, EOL>>,
                           <<1, EOL>>, <<0, EOL>> >>]

(* A row that starts with two zeros was not given: it has no entries.      *)
Ended(row) == IF row[1] = 0 /\ row[2] = 0 THEN <<EOL>> ELSE row

Row(list, i) == Ended(IF i < Len(list) THEN list[i + 1] ELSE <<0, 0>>)

(* conn_array[i][j]: j is in row i, before its end.                        *)
Adjacent(list, i, j) ==
  \E k \in DOMAIN Row(list, i) :
    /\ Row(list, i)[k] = j
    /\ \A m \in 1 .. k : Row(list, i)[m] # EOL

conn_array(list, boards) ==
  [i \in boards |-> {j \in boards : Adjacent(list, i, j)}]

(* init_layout's two checks: no board next to itself, no one-way link      *)
init_layout(list, boards) ==
  \A i, j \in boards : Adjacent(list, i, j) => Adjacent(list, j, i) /\ i # j

(* The presets pass them, and any boards of a layout form a network all of *)
(* whose links work both ways.                                             *)
ASSUME PresetsAssumption ==
  \A LAYOUT \in 0 .. 4 : init_layout(adj_list[LAYOUT], 0 .. 4)
=============================================================================
