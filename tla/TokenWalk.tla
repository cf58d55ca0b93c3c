----------------------------- MODULE TokenWalk -----------------------------
(***************************************************************************)
(* What neighbor finding promises, in neighbor_find/ as in                 *)
(* distance_vector/: one token walks from board to neighboring board.  A   *)
(* board without ID takes the token's number for its own and the board it  *)
(* got the token from for its parent; a board hands the token back to its  *)
(* parent.  The token may be lost at any time, and its walk is over then.  *)
(***************************************************************************)
EXTENDS Integers

CONSTANTS Boards,
          Master,   \* the board that is flashed as the master
          InRange   \* InRange[b]: the boards in range of b

(* What the proofs need of the constants: the master is one of the boards. *)
MasterIsABoard == Master \in Boards

VARIABLES
  ID, parent_ID,  \* node_t
  started,        \* "token" was typed at the master, or never will be
  tokens          \* the board that got the token last, and its number

vars == <<ID, parent_ID, started, tokens>>

NoID == -1

TypeOK ==
  /\ ID \in [Boards -> Nat \cup {NoID}]
  /\ parent_ID \in [Boards -> Nat \cup {NoID}]
  /\ started \in BOOLEAN
  /\ tokens \subseteq [at : Boards, num : Nat]

Init ==
  /\ ID = [b \in Boards |-> IF b = Master THEN 0 ELSE NoID]
  /\ parent_ID = [b \in Boards |-> NoID]
  /\ started \in BOOLEAN
  /\ tokens = {}

Start ==
  /\ ~ started
  /\ started' = TRUE
  /\ tokens' = {[at |-> Master, num |-> 1]}
  /\ UNCHANGED <<ID, parent_ID>>

(* b gets its ID from the token that a passes on. *)
Number(b) ==
  \E t \in tokens :
    /\ b \in InRange[t.at]
    /\ ID[b] = NoID
    /\ ID' = [ID EXCEPT ![b] = t.num]
    /\ parent_ID' = [parent_ID EXCEPT ![b] = ID[t.at]]
    /\ tokens' = {[at |-> b, num |-> t.num + 1]}
    /\ UNCHANGED started

(* The token goes back to b. *)
Return(b) ==
  \E t \in tokens :
    /\ t.at # Master
    /\ ID[b] # NoID
    /\ ID[b] = parent_ID[t.at]
    /\ tokens' = {[at |-> b, num |-> t.num]}
    /\ UNCHANGED <<ID, parent_ID, started>>

(* It is lost on the way, or has come home. *)
End ==
  /\ tokens # {}
  /\ tokens' = {}
  /\ UNCHANGED <<ID, parent_ID, started>>

Next == Start \/ End \/ \E b \in Boards : Number(b) \/ Return(b)

Spec == Init /\ [][Next]_vars
-----------------------------------------------------------------------------
(* No two boards have the same ID, however the token walked and wherever   *)
(* it was lost.                                                            *)
UniqueIDs ==
  \A a, b \in Boards : a # b /\ ID[a] = ID[b] => ID[a] = NoID

(* A board got its ID after its parent did, so the parents form a tree     *)
(* that leads to the master: the token that is handed back to parents gets *)
(* home.                                                                   *)
ParentsLeadHome ==
  \A b \in Boards : ID[b] # NoID /\ b # Master =>
    \E a \in Boards : /\ b \in InRange[a]
                      /\ ID[a] # NoID
                      /\ ID[a] = parent_ID[b]
                      /\ ID[a] < ID[b]
=============================================================================
