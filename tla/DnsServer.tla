----------------------------- MODULE DnsServer ------------------------------
(***************************************************************************)
(* The DNS server of the TCP access point (dnsserver.c).  It keeps nothing *)
(* between packets: it answers every query with its own address, and       *)
(* writes the answer behind the question, into the buffer the packet was   *)
(* copied to.  A query is its length, its flags, the number of questions   *)
(* in its header and the lengths of the labels of its first name.          *)
(***************************************************************************)
EXTENDS Integers, Sequences

CONSTANT Queries  \* the packets sent to the DNS port

HEADER           == 12   \* sizeof(dns_header_t)
MAX_DNS_MSG_SIZE == 300
MAX_LABEL        == 63
MAX_NAME         == 255
ANSWER           == 16   \* bytes written behind the question

Smaller(a, b) == IF a < b THEN a ELSE b

(* Where question_ptr stands after i labels *)
Ptr(q) ==
  LET ptr[i \in 0 .. Len(q.labels)] ==
        IF i = 0 THEN HEADER ELSE ptr[i - 1] + 1 + q.labels[i]
  IN ptr

(* The loop ends behind a label of no length, or at the end of what        *)
(* pbuf_copy_partial() copied.                                             *)
Ends(q) ==
  {i \in 0 .. Len(q.labels) :
     \/ Ptr(q)[i] >= Smaller(q.len, MAX_DNS_MSG_SIZE)
     \/ i > 0 /\ q.labels[i] = 0}

LabelsRead(q) == CHOOSE i \in Ends(q) : \A j \in Ends(q) : i <= j

QuestionEnd(q) == Ptr(q)[LabelsRead(q)]

(* The labels of a query reach to the end of its name or of the packet.    *)
ASSUME QueriesAssumption ==
  \A q \in Queries :
    /\ q.len \in Nat /\ q.questions \in Nat /\ q.labels \in Seq(0 .. 255)
    /\ {q.response, q.standard} \subseteq BOOLEAN
    /\ Ends(q) # {}

(* Mutant of NameFits: only the labels are checked. *)
NameFitsLabels(q) == \A i \in 1 .. LabelsRead(q) : q.labels[i] <= MAX_LABEL

NameFits(q) ==
  /\ \A i \in 1 .. LabelsRead(q) : q.labels[i] <= MAX_LABEL
  /\ QuestionEnd(q) - HEADER <= MAX_NAME

Answered(q) ==
  /\ q.len >= HEADER
  /\ ~q.response /\ q.standard /\ q.questions >= 1
  /\ NameFits(q)

(* The answer follows the question, whose type and class are skipped.      *)
ReplyLen(q) == QuestionEnd(q) + 4 + ANSWER
=============================================================================
