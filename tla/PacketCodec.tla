---------------------------- MODULE PacketCodec ----------------------------
(***************************************************************************)
(* What a packet becomes on its way: packet_to_str, and the strtok() that  *)
(* takes it apart again.  A text is its parts, that is what stands between *)
(* its semicolons; a part is a sequence of letters.  The other modules     *)
(* send packets as records: HeaderKept is why they may.                    *)
(***************************************************************************)
EXTENDS Integers, Sequences, SequencesExt

CONSTANTS
  TOK_LEN,      \* the length of a field, with the 0 that ends it
  Letter        \* what fields and messages are written with

ASSUME CodecAssumption == TOK_LEN \in Nat /\ TOK_LEN > 3

NA == <<"n", "/", "a">>
UNSET == "unset"        \* a number that nobody has assigned

(* The tokens of strtok(_, ";"): it passes over parts that are empty.      *)
strtok(text) == SelectSeq(text, LAMBDA part : part # <<>>)

Cut(part) == IF Len(part) < TOK_LEN THEN part ELSE SubSeq(part, 1, TOK_LEN - 1)

copy_field(tokens, k) == IF k > Len(tokens) THEN NA ELSE Cut(tokens[k])

(* The fields of the header, then whatever part is next.  A number that    *)
(* has no token is left as it is.                                          *)
Fields(tokens, number) ==
  [k \in DOMAIN number |->
     IF number[k] /\ k > Len(tokens) THEN UNSET ELSE copy_field(tokens, k)]

Decoded(text, number) ==
  [header |-> Fields(strtok(text), number),
   msg    |-> <<copy_field(strtok(text), Len(number) + 1)>>]

(* type; dest_id; src_id; ip_addr; ack_num; timestamp                      *)
str_to_packet(text) ==
  Decoded(text, <<FALSE, TRUE, TRUE, FALSE, TRUE, TRUE>>)

(* The demo on two cores: type; ip_addr; ack_num; timestamp                *)
string_to_packet(text) == Decoded(text, <<FALSE, FALSE, TRUE, TRUE>>)

packet_to_str(p) == p.header \o p.msg

-----------------------------------------------------------------------------
Parts(n) == UNION {[1 .. k -> Letter] : k \in 0 .. n}

(* Packets of the program: no field is empty or too long, or holds a       *)
(* semicolon.  Two of the fields vary; the message is up to three parts,   *)
(* which may be empty or longer than a field.                              *)
Packets(header) ==
  {[header |-> [k \in 1 .. header |-> IF k % 2 = 0 THEN a ELSE b], msg |-> m] :
     a \in Parts(TOK_LEN - 1) \ {<<>>}, b \in Parts(1) \ {<<>>},
     m \in UNION {[1 .. k -> Parts(TOK_LEN)] : k \in 1 .. 3}}

Messages(p) == SelectSeq(p.msg, LAMBDA part : part # <<>>)

(* What arrives of p, when the header is the one that was sent and of the  *)
(* message the first part that is not empty, as far as it fits.            *)
Arrives(p) ==
  [header |-> p.header,
   msg    |-> <<IF Messages(p) = <<>> THEN NA ELSE Cut(Head(Messages(p)))>>]

(* Every field of the header comes back as it was sent, whatever the       *)
(* message holds.                                                          *)
ASSUME HeaderKept ==
  /\ \A p \in Packets(6) : str_to_packet(packet_to_str(p)) = Arrives(p)
  /\ \A p \in Packets(4) : string_to_packet(packet_to_str(p)) = Arrives(p)

(* A message that is cut is cut on its first hop; forwarding it again, as  *)
(* protothread_udp_recv does, loses nothing more.                          *)
ASSUME CutOnce ==
  \A p \in Packets(6) :
    str_to_packet(packet_to_str(Arrives(p))) = Arrives(p)

(* An ack of the demo on two cores ends at its timestamp: it reads "n/a".  *)
ASSUME AckHasNoMessage ==
  \A p \in Packets(4) :
    string_to_packet(p.header) = [header |-> p.header, msg |-> <<NA>>]
=============================================================================
