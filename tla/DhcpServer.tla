----------------------------- MODULE DhcpServer -----------------------------
(***************************************************************************)
(* The DHCP server of an access point (dhcpserver.c; every program of the  *)
(* repository that hosts a network has a copy) and the clients that ask    *)
(* it for an address.                                                      *)
(*                                                                         *)
(* The server's timer is a 32-bit count of milliseconds that wraps, and a  *)
(* lease keeps the upper half of its end.  Here the timer counts to WRAP   *)
(* and a lease keeps its end divided by UNIT.                              *)
(*                                                                         *)
(* The clients are those of RFC 2131: they request what they are offered,  *)
(* remember the address that was last acknowledged and request it when     *)
(* their link comes back, and stop using it when the lease is over.  Each  *)
(* has at most one message under way.  One that keeps an address although  *)
(* its link has fallen or its request was not answered is left out.        *)
(***************************************************************************)
EXTENDS Integers

CONSTANTS
  Clients,       \* the hardware addresses of the clients
  DHCPS_MAX_IP,  \* addresses to give
  LEASE_TIME,    \* DEFAULT_LEASE_TIME_S, in ticks
  UNIT,          \* ticks to one count of a lease's expiry
  WRAP,          \* ticks to a wrap of the timer
  NONE           \* the hardware address 00:00:00:00:00:00, no address

ASSUME TimerAssumption ==
  /\ {LEASE_TIME, UNIT, WRAP} \subseteq Nat \ {0}
  /\ WRAP % (2 * UNIT) = 0
  /\ LEASE_TIME + UNIT <= WRAP \div 2

ASSUME ClientsAssumption == NONE \notin Clients

ASSUME PoolAssumption == DHCPS_MAX_IP \in Nat

VARIABLES
  now,    \* cyw43_hal_ticks_ms()
  lease,  \* the server's leases
  client  \* each client: what it does, the address it remembers, the one
          \* its message is about, the ticks left to it

dhcpVars == <<now, lease, client>>

Slots == 0 .. DHCPS_MAX_IP - 1

(* With a message under way, st is its type: "discover" and "request" to   *)
(* the server, "offer" and "ack" from it.                                  *)
UnderWay == {"discover", "offer", "request", "ack"}

TypeOKDhcp ==
  /\ now \in 0 .. WRAP - 1
  /\ lease \in [Slots -> [mac : Clients \union {NONE},
                          expiry : 0 .. WRAP \div UNIT - 1]]
  /\ client \in [Clients -> [st : {"idle", "bound"} \union UnderWay,
                             ip : Slots \union {NONE},
                             req : Slots \union {NONE},
                             left : 0 .. LEASE_TIME]]

NoLeases == [i \in Slots |-> [mac |-> NONE, expiry |-> 0]]

InitDhcp ==
  /\ now = 0
  /\ lease = NoLeases
  /\ client = [c \in Clients |->
                 [st |-> "idle", ip |-> NONE, req |-> NONE, left |-> 0]]

-----------------------------------------------------------------------------
(* The server *)

(* The lower half of the end is taken as ones. *)
EndOf(l) == l.expiry * UNIT + UNIT - 1

(* Mutant of Expired: the timer is compared as it stands. *)
ExpiredUnwrapped(l) == EndOf(l) < now

(* (int32_t)(expiry - cyw43_hal_ticks_ms()) < 0 *)
Expired(l) == (EndOf(l) - now) % WRAP >= WRAP \div 2

(* Mutant of Expiry: the timer does not wrap. *)
ExpiryUnwrapped == (now + LEASE_TIME) \div UNIT

(* (cyw43_hal_ticks_ms() + DEFAULT_LEASE_TIME_S * 1000) >> 16              *)
Expiry == ((now + LEASE_TIME) % WRAP) \div UNIT

Free(l) == l.mac = NONE \/ Expired(l)

(* The loop ends at the client's own lease.  A lease that is free is taken *)
(* when it is the first one on the way there.                              *)
OwnSlots(c) == {i \in Slots : lease[i].mac = c}
Seen(c) == {i \in Slots : \A j \in OwnSlots(c) : i < j}
FreeSeen(c) == {i \in Seen(c) : Free(lease[i])}
First(S) == CHOOSE i \in S : \A j \in S : i <= j

(* Mutant of Offerable: the first free lease, before the client's own. *)
OfferableFirst(c) == IF FreeSeen(c) # {} THEN FreeSeen(c) ELSE OwnSlots(c)

Offerable(c) == IF OwnSlots(c) # {} THEN OwnSlots(c) ELSE FreeSeen(c)

Tell(c, st, req) == client' = [client EXCEPT ![c].st = st, ![c].req = req]
Ignore(c) == Tell(c, "idle", NONE)

(* dhcp_server_process on a discover.  The offer is not recorded.          *)
Discover(c) ==
  /\ client[c].st = "discover"
  /\ lease' = IF FreeSeen(c) = {} THEN lease
              ELSE [lease EXCEPT ![First(FreeSeen(c))].mac = NONE]
  /\ IF Offerable(c) = {} THEN Ignore(c)
     ELSE Tell(c, "offer", First(Offerable(c)))
  /\ UNCHANGED now

(* A lease is taken by its owner, over or not, or if it is nobody's.       *)
MayHave(c, i) == lease[i].mac \in {c, NONE}

(* dhcp_server_process on a request that names an address                  *)
Request(c) ==
  LET i == client[c].req IN
  /\ client[c].st = "request"
  /\ IF MayHave(c, i)
     THEN /\ lease' = [lease EXCEPT ![i] = [mac |-> c, expiry |-> Expiry]]
          /\ Tell(c, "ack", i)
     ELSE Ignore(c) /\ UNCHANGED lease
  /\ UNCHANGED now

-----------------------------------------------------------------------------
(* The clients *)

(* A client renews with a request that names no address: opt_find returns  *)
(* NULL and the server ignores it, as it ignores a release.  So there is   *)
(* no action for the one, and the other is the client's alone.             *)
Ask(c) ==
  /\ client[c].st = "idle"
  /\ Tell(c, "discover", NONE)
  /\ UNCHANGED <<now, lease>>

AskAgain(c) ==
  /\ client[c].st = "idle" /\ client[c].ip # NONE
  /\ Tell(c, "request", client[c].ip)
  /\ UNCHANGED <<now, lease>>

TakeOffer(c) ==
  /\ client[c].st = "offer"
  /\ Tell(c, "request", client[c].req)
  /\ UNCHANGED <<now, lease>>

TakeAck(c) ==
  /\ client[c].st = "ack"
  /\ client' = [client EXCEPT ![c] = [st |-> "bound", ip |-> client[c].req,
                                      req |-> NONE, left |-> LEASE_TIME]]
  /\ UNCHANGED <<now, lease>>

Lose(c) ==
  /\ client[c].st \in UnderWay
  /\ Ignore(c)
  /\ UNCHANGED <<now, lease>>

(* A client that remembers its address and does nothing                    *)
Unlinked(c) == [st |-> "idle", ip |-> client[c].ip, req |-> NONE, left |-> 0]

Release(c) ==
  /\ client[c].st = "bound"
  /\ client' = [client EXCEPT ![c] = Unlinked(c)]
  /\ UNCHANGED <<now, lease>>

(* Nothing stays under way for as long as a tick.                          *)
Tick ==
  /\ now' = (now + 1) % WRAP
  /\ client' = [c \in Clients |->
       IF client[c].st = "bound" /\ client[c].left > 1
       THEN [client[c] EXCEPT !.left = @ - 1]
       ELSE Unlinked(c)]
  /\ UNCHANGED lease

(* The access point is switched off and on: dhcp_server_init clears all    *)
(* leases, and the links of the clients fall.                              *)
RestartDhcp ==
  /\ lease' = NoLeases
  /\ client' = [c \in Clients |-> Unlinked(c)]
  /\ UNCHANGED now

-----------------------------------------------------------------------------
Using(c) == client[c].st = "bound"

(* No two clients use one address at a time: not when they were offered    *)
(* the same, not after the timer wraps, not when the server has forgotten  *)
(* its leases (dhcpserver.c:216-231, 256-266).                             *)
NoSharedAddress ==
  \A c, d \in Clients :
    Using(c) /\ Using(d) /\ client[c].ip = client[d].ip => c = d

(* However often a client asks, comes back or loses an answer, and however *)
(* often the server forgets: of its leases all but one are of the address  *)
(* it remembers.  So it never takes up more than two of the few, and one   *)
(* that remembers none has one.  The server gives a client that has a      *)
(* lease no other, but when it is asked for an address it never looks at   *)
(* the client's other leases (dhcpserver.c:212-231, 256-266).              *)
OneLeaseForgotten ==
  \A c \in Clients : \A i, j \in OwnSlots(c) \ {client[c].ip} : i = j
=============================================================================
