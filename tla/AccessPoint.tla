---------------------------- MODULE AccessPoint -----------------------------
(***************************************************************************)
(* The program TCP/tcp_access_point: a board that hosts a network, gives   *)
(* addresses, answers for every name and serves a page.  A client gets an  *)
(* address, asks for a name and connects.  All of it happens in callbacks  *)
(* of lwIP, which do not interrupt each other; main() starts the servers   *)
(* one by one, and the callbacks of one may run before the next is there.  *)
(* Then it reads the motion sensor, which nothing else looks at.           *)
(***************************************************************************)
EXTENDS DhcpServer, DnsServer, TcpServer

ASSUME BrowsersAssumption == Browsers \subseteq Clients

VARIABLES
  main,  \* the server main() starts next, or none
  reply  \* the length of the answer a client is about to use, 0: none

apVars == <<main, reply>>
allVars == <<dhcpVars, tcpVars, apVars>>

Stages == {"dhcp", "dns", "tcp", "sensor", "ended"}

TypeOK ==
  /\ TypeOKDhcp /\ TypeOKTcp
  /\ main \in Stages
  /\ reply \in [Browsers -> Nat]

NoReply == [c \in Browsers |-> 0]

Init ==
  /\ InitDhcp /\ InitTcp
  /\ main = "dhcp"
  /\ reply = NoReply

(* main(), after the access point is enabled.  Without a listening socket  *)
(* it returns, and with its stack go the other servers.                    *)
Main ==
  /\ \/ main = "dhcp" /\ main' = "dns"
     \/ main = "dns" /\ main' = "tcp"
     \/ main = "tcp" /\ main' \in {"sensor", "ended"}
  /\ UNCHANGED <<dhcpVars, tcpVars, reply>>

Connected == \E c \in Browsers : pcb[c] # "none"

(* A connection is a matter of seconds and a tick one of hours, so the     *)
(* clock stands while there is one, and a client that has one keeps its    *)
(* address.                                                                *)
Dhcp ==
  /\ \/ Tick /\ ~Connected
     \/ \E c \in Clients :
          \/ main \notin {"dhcp", "ended"} /\ (Discover(c) \/ Request(c))
          \/ Ask(c) \/ AskAgain(c) \/ TakeOffer(c) \/ TakeAck(c) \/ Lose(c)
          \/ Release(c) /\ ~(c \in Browsers /\ pcb[c] # "none")
  /\ reply' = [c \in Browsers |-> IF Using(c)' THEN reply[c] ELSE 0]
  /\ UNCHANGED <<tcpVars, main>>

(* dns_server_process, and the client that takes the answer                *)
Dns(c) ==
  /\ main \in {"tcp", "sensor"} /\ Using(c) /\ pcb[c] = "none"
  /\ \E q \in Queries :
       reply' = Put(reply, c, IF Answered(q) THEN ReplyLen(q) ELSE 0)
  /\ UNCHANGED <<dhcpVars, tcpVars, main>>

Connect(c) ==
  /\ main = "sensor" /\ reply[c] > 0
  /\ Accept(c)
  /\ reply' = Put(reply, c, 0)
  /\ UNCHANGED <<dhcpVars, main>>

Tcp(c) ==
  /\ \/ \E n \in 1 .. unacked[c] : Sent(c, n)
     \/ \E req \in Requests : Recv(c, req)
     \/ RecvFin(c) \/ Poll(c) \/ Err(c) \/ Lwip(c)
  /\ UNCHANGED <<dhcpVars, apVars>>

(* The board is switched off and on.                                       *)
Restart ==
  /\ RestartDhcp /\ RestartTcp
  /\ main' = "dhcp"
  /\ reply' = NoReply

Next == Main \/ Dhcp \/ Restart \/ \E c \in Browsers : Dns(c) \/ Connect(c) \/ Tcp(c)

Spec == Init /\ [][Next]_allVars

(* lwIP polls its connections and gives closed ones up in the end.         *)
FairSpec == Spec /\ \A c \in Browsers :
  /\ WF_allVars(Poll(c) /\ UNCHANGED <<dhcpVars, apVars>>)
  /\ WF_allVars(Lwip(c) /\ UNCHANGED <<dhcpVars, apVars>>)

(* The answer is written into the buffer of the query, within its bounds   *)
(* (dnsserver.c:107, 154-201).                                             *)
ReplyFits == \A c \in Browsers : reply[c] <= MAX_DNS_MSG_SIZE
=============================================================================
