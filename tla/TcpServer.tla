----------------------------- MODULE TcpServer ------------------------------
(***************************************************************************)
(* The web server of the TCP access point (picow_access_point.c): the      *)
(* callbacks lwIP makes for the connection of each client, and the state   *)
(* the program allocates for it.                                           *)
(*                                                                         *)
(* pcb is lwIP's side of the connection: established, closing (tcp_close   *)
(* was called and lwIP still sends what was written) or none.  callbacks   *)
(* are those registered with it.  The bytes of a response are HEADER_LEN   *)
(* units; lwIP is given a reference to con_state->headers and keeps no     *)
(* copy (unacked counts the units it may still have to send again).  The   *)
(* LED that a request may switch is left out.                              *)
(***************************************************************************)
EXTENDS Integers

CONSTANTS
  Browsers,    \* the clients that open connections
  MaxRequests  \* bound on the packets of one connection

ASSUME RequestsAssumption == MaxRequests \in Nat

HEADER_LEN  == 2    \* a response's headers, in units
RESULT_SIZE == 256  \* sizeof(con_state->result)

(* What snprintf() of LED_TEST_BODY returns, the number of calls having    *)
(* one digit: the length of the whole page.                                *)
PAGE_LEN == 302

VARIABLES
  pcb, callbacks,
  con,      \* con_state; none when it is not allocated
  unacked,
  asked,    \* packets that came on the connection
  ended     \* why the program closed it

tcpVars == <<pcb, callbacks, con, unacked, asked, ended>>

NoCon == [sent_len |-> 0, header_len |-> 0, result_len |-> 0, live |-> FALSE]
NewCon == [NoCon EXCEPT !.live = TRUE]
Requests == {"page", "other_page", "not_get"}

TypeOKTcp ==
  /\ pcb \in [Browsers -> {"none", "established", "closing"}]
  /\ callbacks \in [Browsers -> SUBSET {"sent", "recv", "poll", "err"}]
  /\ con \in [Browsers -> [sent_len : 0 .. MaxRequests * HEADER_LEN,
                           header_len : {0, HEADER_LEN},
                           result_len : {0, PAGE_LEN}, live : BOOLEAN]]
  /\ unacked \in [Browsers -> 0 .. MaxRequests * HEADER_LEN]
  /\ asked \in [Browsers -> 0 .. MaxRequests]
  /\ ended \in [Browsers -> {"open", "done", "fin", "poll", "too_big",
                             "write"}]

InitTcp ==
  /\ pcb = [c \in Browsers |-> "none"]
  /\ callbacks = [c \in Browsers |-> {}]
  /\ con = [c \in Browsers |-> NoCon]
  /\ unacked = [c \in Browsers |-> 0]
  /\ asked = [c \in Browsers |-> 0]
  /\ ended = [c \in Browsers |-> "open"]

Put(f, c, x) == [f EXCEPT ![c] = x]

-----------------------------------------------------------------------------
(* The connection is over, for lwIP too.                                   *)
Gone(c) ==
  /\ pcb' = Put(pcb, c, "none")
  /\ unacked' = Put(unacked, c, 0)
  /\ asked' = Put(asked, c, 0)
  /\ ended' = Put(ended, c, "open")

(* tcp_close_client_connection: tcp_close(), or tcp_abort() if that fails  *)
Close(c, why, pending, packets) ==
  /\ callbacks' = Put(callbacks, c, {})
  /\ con' = Put(con, c, NoCon)
  /\ \/ /\ pcb' = Put(pcb, c, "closing")
        /\ unacked' = Put(unacked, c, pending)
        /\ asked' = Put(asked, c, packets)
        /\ ended' = Put(ended, c, why)
     \/ Gone(c)

(* Mutant of Callbacks: no poll. *)
CallbacksUnpolled == {"sent", "recv", "err"}

(* Those that tcp_server_accept registers                                  *)
Callbacks == {"sent", "recv", "poll", "err"}

(* tcp_server_accept.  When calloc() fails lwIP aborts the connection, and *)
(* all is as it was.                                                       *)
Accept(c) ==
  /\ pcb[c] = "none"
  /\ pcb' = Put(pcb, c, "established")
  /\ callbacks' = Put(callbacks, c, Callbacks)
  /\ con' = Put(con, c, NewCon)
  /\ UNCHANGED <<unacked, asked, ended>>

-----------------------------------------------------------------------------
(* Mutant of AllSent: the first acknowledgement ends it. *)
AllSentAtOnce(k) == k.sent_len > 0

AllSent(k) == k.sent_len >= k.header_len + k.result_len

(* tcp_server_sent: n units were acknowledged.                             *)
Sent(c, n) ==
  LET k == [con[c] EXCEPT !.sent_len = @ + n] IN
  /\ "sent" \in callbacks[c] /\ n \in 1 .. unacked[c]
  /\ IF AllSent(k)
     THEN Close(c, "done", unacked[c] - n, asked[c])
     ELSE /\ con' = Put(con, c, k)
          /\ unacked' = Put(unacked, c, unacked[c] - n)
          /\ UNCHANGED <<pcb, callbacks, asked, ended>>

(* test_server_content returns the length of the page for its address, and *)
(* 0 for all others.                                                       *)
ResultLen(req) == IF req = "other_page" THEN 0 ELSE PAGE_LEN

(* A GET that is not for the page is sent to it; tcp_write() may fail.     *)
Redirect(c) ==
  \/ /\ con' = Put(con, c, [con[c] EXCEPT !.sent_len = 0,
                              !.header_len = HEADER_LEN, !.result_len = 0])
     /\ unacked' = Put(unacked, c, unacked[c] + HEADER_LEN)
     /\ asked' = Put(asked, c, asked[c] + 1)
     /\ UNCHANGED <<pcb, callbacks, ended>>
  \/ Close(c, "write", unacked[c], asked[c] + 1)

(* tcp_server_recv of a packet.  The page does not fit into result, so it  *)
(* is never sent: the part of the callback that would send it is not       *)
(* reached.                                                                *)
Recv(c, req) ==
  /\ "recv" \in callbacks[c] /\ asked[c] < MaxRequests
  /\ \/ /\ req = "not_get"
        /\ asked' = Put(asked, c, asked[c] + 1)
        /\ UNCHANGED <<pcb, callbacks, con, unacked, ended>>
     \/ /\ req # "not_get" /\ ResultLen(req) > RESULT_SIZE - 1
        /\ Close(c, "too_big", unacked[c], asked[c] + 1)
     \/ /\ req # "not_get" /\ ResultLen(req) = 0
        /\ Redirect(c)

(* tcp_server_recv of NULL: the client has closed its side.                *)
RecvFin(c) == "recv" \in callbacks[c] /\ Close(c, "fin", unacked[c], asked[c])

(* tcp_server_poll, every POLL_TIME_S seconds                              *)
Poll(c) == "poll" \in callbacks[c] /\ Close(c, "poll", unacked[c], asked[c])

(* tcp_server_err: lwIP has given the connection up.  The state is freed,  *)
(* or, after ERR_ABRT, left where nothing refers to it.  The tcp_close()   *)
(* of a pcb that lwIP is about to free, or has freed, is not modelled.     *)
Err(c) ==
  /\ "err" \in callbacks[c]
  /\ Gone(c)
  /\ callbacks' = Put(callbacks, c, {})
  /\ con' = Put(con, c, NoCon)

(* lwIP, after tcp_close(): acknowledgements come, or it gives up.         *)
Lwip(c) ==
  /\ pcb[c] = "closing"
  /\ \/ /\ unacked[c] > 0
        /\ unacked' = Put(unacked, c, unacked[c] - 1)
        /\ UNCHANGED <<pcb, asked, ended>>
     \/ Gone(c)
  /\ UNCHANGED <<callbacks, con>>

RestartTcp ==
  /\ pcb' = [c \in Browsers |-> "none"]
  /\ callbacks' = [c \in Browsers |-> {}]
  /\ con' = [c \in Browsers |-> NoCon]
  /\ unacked' = [c \in Browsers |-> 0]
  /\ asked' = [c \in Browsers |-> 0]
  /\ ended' = [c \in Browsers |-> "open"]

-----------------------------------------------------------------------------
(* What lwIP may have to send again lies in a con_state that is still      *)
(* there: a response that was asked for by itself is acknowledged before   *)
(* the program closes the connection, unless the client or the poll ends   *)
(* it first (picow_access_point.c:55-64, 159-164).                         *)
WrittenIsKept ==
  \A c \in Browsers :
    unacked[c] > 0 /\ ~con[c].live
    => asked[c] > 1 \/ ended[c] \in {"fin", "poll"}

(* A connection is not held for ever by a client that says nothing         *)
(* (picow_access_point.c:181-185, 216).                                    *)
ConnectionsEnd ==
  \A c \in Browsers : (pcb[c] = "established") ~> (pcb[c] = "none")
=============================================================================
