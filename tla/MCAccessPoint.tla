--------------------------- MODULE MCAccessPoint ----------------------------
(***************************************************************************)
(* Two clients, one of which browses, and the queries they send            *)
(***************************************************************************)
EXTENDS AccessPoint

CONSTANTS c1, c2

Query(len, labels) ==
  [len |-> len, response |-> FALSE, standard |-> TRUE, questions |-> 1,
   labels |-> labels]

(* A name in use, the longest name, names that are too long by one byte or *)
(* by a label, one that the packet's end cuts, and headers to be ignored.  *)
SomeQueries ==
  {Query(29, <<4, 5, 2, 0>>),
   Query(271, <<63, 63, 63, 61, 0>>),
   Query(272, <<63, 63, 63, 62, 0>>),
   Query(400, <<63, 63, 63, 63, 63>>),
   Query(80, <<64, 0>>),
   Query(40, <<63>>),
   Query(11, <<0>>),
   [Query(29, <<4, 5, 2, 0>>) EXCEPT !.response = TRUE],
   [Query(29, <<4, 5, 2, 0>>) EXCEPT !.standard = FALSE],
   [Query(29, <<4, 5, 2, 0>>) EXCEPT !.questions = 0]}
=============================================================================
