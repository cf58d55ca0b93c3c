-------------------------- MODULE TokenWalk_proofs --------------------------
(***************************************************************************)
(* The token walk keeps IDs unique and parents leading home, for any       *)
(* boards, any ranges and any loss of the token.                           *)
(***************************************************************************)
EXTENDS TokenWalk, TLAPS

(* The number of the one token is above every ID given out, and its holder *)
(* has one.  Until the token is typed, only the master has an ID.          *)
OneToken == \A t, u \in tokens : t = u

NumberIsNew == \A t \in tokens : \A b \in Boards : ID[b] < t.num

HolderHasID == \A t \in tokens : ID[t.at] # NoID

Fresh ==
  ~ started => /\ tokens = {}
               /\ \A b \in Boards : b # Master => ID[b] = NoID

IInv ==
  /\ TypeOK
  /\ ID[Master] = 0
  /\ Fresh
  /\ OneToken
  /\ NumberIsNew
  /\ HolderHasID
  /\ UniqueIDs
  /\ ParentsLeadHome

(* The walk starts in the invariant. *)
LEMMA InitIInv == ASSUME MasterIsABoard PROVE Init => IInv
BY DEF MasterIsABoard, Init, IInv, TypeOK, Fresh, OneToken, NumberIsNew,
       HolderHasID, UniqueIDs, ParentsLeadHome, NoID

(* Typing "token" at the master keeps it: the number 1 is above 0.         *)
LEMMA StartIInv == ASSUME MasterIsABoard, IInv, Start PROVE IInv'
<1>1. /\ tokens' = {[at |-> Master, num |-> 1]} /\ started' = TRUE
      /\ ID' = ID /\ parent_ID' = parent_ID
  BY DEF Start
<1>2. \A b \in Boards : b # Master => ID[b] = NoID
  BY DEF IInv, Fresh, Start
<1>3. TypeOK'
  BY <1>1 DEF MasterIsABoard, IInv, TypeOK
<1>4. NumberIsNew' /\ HolderHasID' /\ OneToken'
  BY <1>1, <1>2 DEF IInv, NumberIsNew, HolderHasID, OneToken, NoID
<1>5. UniqueIDs' /\ ParentsLeadHome'
  BY <1>1 DEF IInv, UniqueIDs, ParentsLeadHome
<1>. QED BY <1>1, <1>3, <1>4, <1>5 DEF IInv, Fresh

(* So does numbering a board: the token's number is new, and the holder,   *)
(* who has a smaller one, becomes the parent.                              *)
LEMMA NumberIInv ==
  ASSUME MasterIsABoard, IInv, NEW b \in Boards, Number(b) PROVE IInv'
<1>1. PICK t \in tokens :
        /\ b \in InRange[t.at]
        /\ ID[b] = NoID
        /\ ID' = [ID EXCEPT ![b] = t.num]
        /\ parent_ID' = [parent_ID EXCEPT ![b] = ID[t.at]]
        /\ tokens' = {[at |-> b, num |-> t.num + 1]}
        /\ started' = started
  BY DEF Number
<1>2. /\ ID \in [Boards -> Nat \cup {NoID}]
      /\ parent_ID \in [Boards -> Nat \cup {NoID}]
      /\ t.at \in Boards /\ t.num \in Nat /\ started \in BOOLEAN
  BY DEF IInv, TypeOK
<1>3. /\ ID'[b] = t.num /\ parent_ID'[b] = ID[t.at]
      /\ \A c \in Boards : c # b => ID'[c] = ID[c] /\ parent_ID'[c] = parent_ID[c]
  BY <1>1, <1>2
<1>4. ID[t.at] # NoID /\ t.at # b /\ (\A c \in Boards : ID[c] < t.num)
  BY <1>1 DEF IInv, HolderHasID, NumberIsNew
<1>5. TypeOK'
  BY <1>1, <1>2 DEF TypeOK
<1>6. ID'[Master] = 0
  BY <1>1, <1>3 DEF IInv, MasterIsABoard, NoID
<1>7. started
  BY <1>1, <1>2 DEF IInv, Fresh
<1>8. NumberIsNew'
  <2>. SUFFICES ASSUME NEW c \in Boards PROVE ID'[c] < t.num + 1
    BY <1>1 DEF NumberIsNew
  <2>. QED BY <1>2, <1>3, <1>4 DEF NoID
<1>9. HolderHasID'
  BY <1>1, <1>2, <1>3 DEF HolderHasID, NoID
<1>10. UniqueIDs'
  BY <1>2, <1>3, <1>4 DEF UniqueIDs, IInv, NoID
<1>11. ParentsLeadHome'
  <2>. SUFFICES ASSUME NEW c \in Boards, ID'[c] # NoID, c # Master
       PROVE \E a \in Boards : /\ c \in InRange[a]
                               /\ ID'[a] # NoID
                               /\ ID'[a] = parent_ID'[c]
                               /\ ID'[a] < ID'[c]
    BY DEF ParentsLeadHome
  <2>1. CASE c = b
    BY <2>1, <1>1, <1>2, <1>3, <1>4
  <2>2. CASE c # b
    <3>1. PICK a \in Boards : /\ c \in InRange[a]
                              /\ ID[a] # NoID
                              /\ ID[a] = parent_ID[c]
                              /\ ID[a] < ID[c]
      BY <2>2, <1>3 DEF IInv, ParentsLeadHome
    <3>2. a # b
      BY <3>1, <1>1
    <3>. QED BY <3>1, <3>2, <2>2, <1>3
  <2>. QED BY <2>1, <2>2
<1>. QED BY <1>1, <1>5, <1>6, <1>7, <1>8, <1>9, <1>10, <1>11
          DEF IInv, Fresh, OneToken

(* A token that is handed back moves and changes nothing else.             *)
LEMMA ReturnIInv ==
  ASSUME MasterIsABoard, IInv, NEW b \in Boards, Return(b) PROVE IInv'
<1>1. PICK t \in tokens :
        /\ ID[b] # NoID
        /\ tokens' = {[at |-> b, num |-> t.num]}
        /\ ID' = ID /\ parent_ID' = parent_ID /\ started' = started
  BY DEF Return
<1>2. t \in [at : Boards, num : Nat] /\ started
  BY <1>1 DEF IInv, TypeOK, Fresh
<1>3. t.num \in Nat
  BY <1>2
<1>4. TypeOK'
  BY <1>1, <1>3 DEF IInv, TypeOK
<1>5. NumberIsNew' /\ HolderHasID' /\ OneToken'
  BY <1>1, <1>3 DEF IInv, NumberIsNew, HolderHasID, OneToken
<1>6. UniqueIDs' /\ ParentsLeadHome'
  BY <1>1 DEF IInv, UniqueIDs, ParentsLeadHome
<1>. QED BY <1>1, <1>2, <1>4, <1>5, <1>6 DEF IInv, Fresh

(* Every step keeps the invariant. *)
LEMMA NextIInv == ASSUME MasterIsABoard, IInv, [Next]_vars PROVE IInv'
<1>1. CASE Start
  BY <1>1, StartIInv
<1>2. CASE End
  BY <1>2 DEF End, IInv, TypeOK, Fresh, OneToken, NumberIsNew, HolderHasID,
              UniqueIDs, ParentsLeadHome
<1>3. ASSUME NEW b \in Boards, Number(b) PROVE IInv'
  BY <1>3, NumberIInv
<1>4. ASSUME NEW b \in Boards, Return(b) PROVE IInv'
  BY <1>4, ReturnIInv
<1>5. CASE UNCHANGED vars
  BY <1>5 DEF vars, IInv, TypeOK, Fresh, OneToken, NumberIsNew, HolderHasID,
              UniqueIDs, ParentsLeadHome
<1>. QED BY <1>1, <1>2, <1>3, <1>4, <1>5 DEF Next

(* The inductive invariant holds throughout the walk.                      *)
THEOREM WalkIInv == ASSUME MasterIsABoard PROVE Spec => []IInv
<1>1. Init => IInv
  BY InitIInv
<1>2. IInv /\ [Next]_vars => IInv'
  BY NextIInv
<1>. QED BY <1>1, <1>2, PTL DEF Spec

(* No two boards ever have one ID, whatever the layout, the way of the     *)
(* token and the place where it is lost.                                   *)
THEOREM WalkUniqueIDs == ASSUME MasterIsABoard PROVE Spec => []UniqueIDs
<1>1. IInv => UniqueIDs
  BY DEF IInv
<1>. QED BY <1>1, WalkIInv, PTL

(* Whoever hands the token back to parents gets it home: a parent is in    *)
(* range and was numbered before.                                          *)
THEOREM WalkParentsLeadHome ==
  ASSUME MasterIsABoard PROVE Spec => []ParentsLeadHome
<1>1. IInv => ParentsLeadHome
  BY DEF IInv
<1>. QED BY <1>1, WalkIInv, PTL
=============================================================================
