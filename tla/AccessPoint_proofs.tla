------------------------- MODULE AccessPoint_proofs -------------------------
(***************************************************************************)
(* What the program tcp_access_point promises, in every state it reaches:  *)
(* its types, that the DHCP server gives no address twice, that an answer  *)
(* of the DNS server fits its buffer, and that what the web server wrote   *)
(* is kept until it is acknowledged.  For any clients, any pool, any timer *)
(* that satisfies TimerAssumption, any set of queries and any number of    *)
(* packets on a connection.  First the DHCP server: its inductive          *)
(* invariant, kept by each action of server and clients.                   *)
(***************************************************************************)
EXTENDS AccessPoint, SequenceTheorems, NaturalsInduction, WellFoundedInduction,
        TLAPS

-----------------------------------------------------------------------------
(* Division with remainder                                                 *)
LEMMA DivMod ==
  ASSUME NEW a \in Int, NEW b \in Nat \ {0}
  PROVE  /\ a \div b \in Int
         /\ a % b \in 0 .. b - 1
         /\ a = b * (a \div b) + (a % b)
BY SMT

LEMMA ModSmall ==
  ASSUME NEW b \in Nat \ {0}, NEW a \in 0 .. b - 1
  PROVE  a % b = a /\ (a - b) % b = a
BY SMT

(* A remainder does not count the turns. *)
LEMMA ModTurns ==
  ASSUME NEW b \in Nat \ {0}, NEW t \in Int, NEW a \in 0 .. b - 1
  PROVE  (b * t + a) % b = a
<1> DEFINE x == b * t + a
           d == x \div b
           r == x % b
<1>1. x \in Int
  OBVIOUS
<1>2. d \in Int /\ r \in 0 .. b - 1 /\ x = b * d + r
  BY <1>1, DivMod
<1>3. b * t < b * (d + 1) /\ b * d < b * (t + 1)
  BY <1>2
<1>4. t < d + 1 /\ d < t + 1
  <2> HIDE DEF d
  <2>1. QED
    BY <1>2, <1>3, SMT
<1>5. d = t
  BY <1>2, <1>4
<1>6. r = a
  BY <1>2, <1>5
<1>7. QED
  BY <1>6

(* A sum that wraps at most once *)
LEMMA ModWraps ==
  ASSUME NEW b \in Nat \ {0}, NEW a \in 0 .. 2 * b - 1
  PROVE  a % b = IF a < b THEN a ELSE a - b
<1>1. CASE a < b
  BY <1>1, ModSmall
<1>2. CASE ~ (a < b)
  <2>1. a - b \in 0 .. b - 1
    BY <1>2
  <2>2. a % b \in 0 .. b - 1 /\ a \div b \in Int /\ a = b * (a \div b) + (a % b)
    BY DivMod
  <2>3. b * (a \div b) < b * 2 /\ b * 0 < b * (a \div b)
    BY <1>2, <2>2
  <2>4. a \div b < 2 /\ 0 < a \div b
    BY <2>2, <2>3, SMT
  <2>5. a \div b = 1
    BY <2>2, <2>4
  <2>6. QED
    BY <1>2, <2>2, <2>5
<1>3. QED
  BY <1>1, <1>2

LEMMA PlusWraps ==
  ASSUME NEW b \in Nat \ {0}, NEW a \in 0 .. b - 1, NEW c \in 0 .. b
  PROVE  (a + c) % b \in {a + c, a + c - b}
<1> DEFINE n == a + c
<1>1. n \in 0 .. 2 * b - 1
  OBVIOUS
<1> HIDE DEF n
<1>2. n % b = IF n < b THEN n ELSE n - b
  BY <1>1, ModWraps
<1>3. n % b \in {n, n - b}
  BY <1>2, Zenon
<1>4. QED
  BY <1>3 DEF n

LEMMA HalfOfTwice ==
  ASSUME NEW a \in Int, NEW b \in Int, a = 2 * b
  PROVE  a \div 2 = b
BY SMT

Half == WRAP \div 2

(* Half a wrap is a whole number of units, and a lease is shorter.         *)
LEMMA Timer ==
  /\ LEASE_TIME \in Nat \ {0} /\ UNIT \in Nat \ {0} /\ WRAP \in Nat \ {0}
  /\ Half \in Nat \ {0} /\ WRAP = 2 * Half
  /\ LEASE_TIME + UNIT <= Half
  /\ WRAP \div UNIT \in Nat /\ WRAP = UNIT * (WRAP \div UNIT)
<1>1. LEASE_TIME \in Nat \ {0} /\ UNIT \in Nat \ {0} /\ WRAP \in Nat \ {0}
  BY TimerAssumption
<1> DEFINE k == WRAP \div (2 * UNIT)
           m == UNIT * k
           q == WRAP \div UNIT
<1>2. k \in Int /\ WRAP = (2 * UNIT) * k
  <2> DEFINE u == 2 * UNIT
  <2>1. u \in Nat \ {0} /\ WRAP \in Int /\ WRAP % u = 0
    BY <1>1, TimerAssumption
  <2> HIDE DEF u
  <2>2. WRAP \div u \in Int /\ WRAP = u * (WRAP \div u) + 0
    BY <2>1, DivMod
  <2>3. WRAP = u * (WRAP \div u)
    <3> DEFINE x == WRAP \div u
    <3>1. x \in Int /\ WRAP = u * x + 0
      BY <2>2
    <3> HIDE DEF x
    <3>2. WRAP = u * x
      BY <2>1, <3>1
    <3> QED
      BY <3>2 DEF x
  <2> QED
    BY <2>2, <2>3 DEF u
<1>3. m \in Int /\ WRAP = 2 * m
  BY <1>1, <1>2
<1>4. WRAP \div 2 = m
  BY <1>3, HalfOfTwice
<1>5. Half \in Nat \ {0} /\ WRAP = 2 * Half /\ LEASE_TIME + UNIT <= Half
  BY <1>1, <1>3, <1>4, TimerAssumption DEF Half
<1>6. q \in Int /\ WRAP % UNIT \in 0 .. UNIT - 1 /\ WRAP = UNIT * q + (WRAP % UNIT)
  BY <1>1, DivMod
<1>7. UNIT * q <= UNIT * (2 * k) /\ UNIT * (2 * k) < UNIT * (q + 1)
  BY <1>1, <1>2, <1>6
<1>8. q <= 2 * k /\ 2 * k < q + 1
  <2> HIDE DEF q, k
  <2>1. QED
    BY <1>1, <1>2, <1>6, <1>7, SMT
<1>9. q = 2 * k
  BY <1>2, <1>6, <1>8
<1>10. WRAP = UNIT * q
  BY <1>1, <1>2, <1>9
<1>11. q >= 0
  <2> HIDE DEF q
  <2>1. QED
    BY <1>1, <1>6, <1>10, SMT
<1>12. QED
  BY <1>1, <1>5, <1>6, <1>10, <1>11

(* A wrap is at least one unit.                                            *)
LEMMA UnitsFit == WRAP \div UNIT >= 1
<1> DEFINE W == WRAP \div UNIT
<1>1. W \in Nat /\ WRAP = UNIT * W
  BY Timer
<1> HIDE DEF W
<1>2. W # 0
  BY <1>1, Timer
<1>3. W >= 1
  BY <1>1, <1>2
<1>4. QED
  BY <1>3 DEF W

(* Timer without the products *)
LEMMA Bounds ==
  /\ LEASE_TIME \in Nat \ {0} /\ UNIT \in Nat \ {0} /\ WRAP \in Nat \ {0}
  /\ Half \in Nat \ {0} /\ WRAP = 2 * Half
  /\ LEASE_TIME + UNIT <= Half
BY Timer

-----------------------------------------------------------------------------
(* The time a lease has left at t, as the server computes it *)
Remaining(l, t) == (EndOf(l) - t) % WRAP

(* A lease given now has LEASE_TIME left, and its end is before the half   *)
(* of the timer's turn after which it would be taken for the past.         *)
LEMMA NewLease ==
  ASSUME now \in 0 .. WRAP - 1, NEW l, l.expiry = Expiry
  PROVE  /\ Expiry \in 0 .. WRAP \div UNIT - 1
         /\ Remaining(l, now) \in LEASE_TIME .. Half - 1
<1> DEFINE n == now + LEASE_TIME
           s == n % WRAP
           e == s \div UNIT
           r == s % UNIT
           W == WRAP \div UNIT
<1>1. n \in 0 .. 2 * WRAP - 1
  BY Bounds
<1>2. s = IF n < WRAP THEN n ELSE n - WRAP
  <2> HIDE DEF n
  <2> QED BY <1>1, Bounds, ModWraps
<1>3. s \in 0 .. WRAP - 1 /\ (s = n \/ s = n - WRAP)
  <2> HIDE DEF n, s
  <2> QED BY <1>1, <1>2, Bounds
<1>4. e \in Int /\ r \in 0 .. UNIT - 1 /\ s = UNIT * e + r
  <2> HIDE DEF s
  <2> QED BY <1>3, Bounds, DivMod
<1>5. W \in Int /\ WRAP = UNIT * W
  BY Timer
<1>6. Expiry = e
  BY DEF Expiry
<1> HIDE DEF s, e, r, W
<1>7. UNIT * (-1) < UNIT * e /\ UNIT * e < UNIT * W
  BY <1>3, <1>4, <1>5, Bounds
<1>8. -1 < e /\ e < W
  BY <1>4, <1>5, <1>7, Bounds, SMT
<1>9. Expiry \in 0 .. W - 1
  BY <1>4, <1>5, <1>6, <1>8
<1> DEFINE k == UNIT - 1 - r
           left == LEASE_TIME + k
<1>10. EndOf(l) = UNIT * e + UNIT - 1
  BY <1>4, <1>6, Bounds DEF EndOf
<1>11. k \in 0 .. UNIT - 1 /\ EndOf(l) = s + k
  <2> DEFINE p == UNIT * e
  <2>1. p \in Int /\ s = p + r /\ EndOf(l) = p + UNIT - 1
    BY <1>4, <1>10, Bounds
  <2> HIDE DEF p
  <2> QED BY <1>3, <1>4, <2>1, Bounds
<1>12. EndOf(l) - now = left \/ EndOf(l) - now = left - WRAP
  BY <1>3, <1>4, <1>11, Bounds
<1>13. left \in LEASE_TIME .. Half - 1 /\ left \in 0 .. WRAP - 1
  BY <1>4, Bounds
<1> HIDE DEF left
<1>14. left % WRAP = left /\ (left - WRAP) % WRAP = left
  BY <1>13, Bounds, ModSmall
<1>15. Remaining(l, now) = left
  BY <1>12, <1>14, Zenon DEF Remaining
<1>16. QED
  BY <1>9, <1>13, <1>15 DEF W

LEMMA RemainingIsTime ==
  ASSUME NEW n \in 0 .. WRAP - 1, NEW l, l.expiry \in Nat
  PROVE  Remaining(l, n) \in Nat
<1> DEFINE x == EndOf(l) - n
<1>1. x \in Int
  BY Bounds DEF EndOf
<1> HIDE DEF x
<1>2. x % WRAP \in Nat
  BY <1>1, Bounds, DivMod
<1>3. QED
  BY <1>2 DEF x, Remaining

(* A tick takes one from what is left, over the wrap of the timer too.     *)
LEMMA OneTick ==
  ASSUME NEW n \in 0 .. WRAP - 1,
         NEW l, l.expiry \in Nat, Remaining(l, n) >= 1
  PROVE  Remaining(l, (n + 1) % WRAP) = Remaining(l, n) - 1
<1> DEFINE m == (n + 1) % WRAP
           x == EndOf(l) - n
           t == x \div WRAP
           r == x % WRAP
<1>1. EndOf(l) \in Int /\ x \in Int
  BY Bounds DEF EndOf
<1>2. t \in Int /\ r \in 0 .. WRAP - 1 /\ x = WRAP * t + r
  <2> HIDE DEF x
  <2> QED BY <1>1, Bounds, DivMod
<1>3. r = Remaining(l, n)
  BY DEF Remaining
<1>4. m \in {n + 1, n + 1 - WRAP}
  <2>1. 1 \in 0 .. WRAP
    BY Bounds
  <2>2. (n + 1) % WRAP \in {n + 1, n + 1 - WRAP}
    BY <2>1, Bounds, PlusWraps
  <2>3. QED
    BY <2>2, Zenon
<1> HIDE DEF t, r, m
<1>5. r - 1 \in 0 .. WRAP - 1
  BY <1>2, <1>3, Bounds
<1>6. \/ EndOf(l) - m = WRAP * t + (r - 1)
      \/ EndOf(l) - m = WRAP * (t + 1) + (r - 1)
  <2> DEFINE p == WRAP * t
  <2>1. p \in Int /\ x = p + r /\ WRAP * (t + 1) = p + WRAP
    BY <1>2, Bounds
  <2> HIDE DEF p
  <2>2. EndOf(l) - m = p + (r - 1) \/ EndOf(l) - m = p + WRAP + (r - 1)
    BY <1>1, <1>2, <1>4, <2>1, Bounds
  <2> QED BY <2>1, <2>2 DEF p
<1> DEFINE y == EndOf(l) - m
<1>7. t + 1 \in Int /\ (y = WRAP * t + (r - 1) \/ y = WRAP * (t + 1) + (r - 1))
  BY <1>2, <1>6
<1> DEFINE a == r - 1
<1>8. (WRAP * t + a) % WRAP = a /\ (WRAP * (t + 1) + a) % WRAP = a
  <2> HIDE DEF a
  <2> QED BY <1>2, <1>5, <1>7, Bounds, ModTurns DEF a
<1>9. y % WRAP = r - 1
  BY <1>7, <1>8, Zenon
<1>10. QED
  BY <1>3, <1>9, Zenon DEF m, Remaining

-----------------------------------------------------------------------------
(* The inductive invariant *)

(* The clients whose message names an address, and those that were given   *)
(* one, with the address                                                   *)
Naming == {"offer", "request", "ack"}
Given == {"ack", "bound"}
GivenTo(c) == IF client[c].st = "ack" THEN client[c].req ELSE client[c].ip

(* The addresses a client has a lease of, remembers or is asking for: at   *)
(* most one besides the one it remembers                                   *)
Known(c) == OwnSlots(c) \union {client[c].ip}
              \union (IF client[c].st \in Naming THEN {client[c].req} ELSE {})

OneBeside(S, k) == \A i, j \in S : i = j \/ i = k \/ j = k

OneOther == \A c \in Clients : OneBeside(Known(c), client[c].ip)

NamesAddress ==
  \A c \in Clients :
    /\ client[c].st \in Naming => client[c].req \in Slots
    /\ client[c].st = "bound" => client[c].ip \in Slots

(* A client stops using its address before the server takes the lease for  *)
(* over: the server has as much left for it as the client, or more.        *)
LeaseLasts ==
  \A c \in Clients : client[c].st \in Given =>
    LET l == lease[GivenTo(c)] IN
    /\ l.mac = c
    /\ Remaining(l, now) < Half
    /\ client[c].st = "ack" => Remaining(l, now) >= LEASE_TIME
    /\ client[c].st = "bound" => /\ client[c].left >= 1
                                 /\ Remaining(l, now) >= client[c].left

DhcpInv == TypeOKDhcp /\ OneOther /\ NamesAddress /\ LeaseLasts

(* A lease that is in use is not free.                                     *)
LEMMA GivenIsNotFree ==
  ASSUME DhcpInv, NEW c \in Clients, client[c].st \in Given
  PROVE  /\ GivenTo(c) \in Slots
         /\ lease[GivenTo(c)].mac = c
         /\ ~ Free(lease[GivenTo(c)])
<1> DEFINE l == lease[GivenTo(c)]
<1>1. GivenTo(c) \in Slots
  BY DEF DhcpInv, NamesAddress, Given, GivenTo, Naming
<1>2. l.mac = c /\ Remaining(l, now) < Half
  BY DEF DhcpInv, LeaseLasts
<1>3. l.mac # NONE
  BY <1>2, ClientsAssumption
<1>4. ~ Expired(l)
  <2>1. Remaining(l, now) \in Nat
    <3>1. l.expiry \in Nat
      BY <1>1, Timer DEF DhcpInv, TypeOKDhcp
    <3>2. QED
      BY <3>1, RemainingIsTime DEF DhcpInv, TypeOKDhcp
  <2>2. ~ (Remaining(l, now) >= Half)
    BY <1>2, <2>1, Bounds
  <2>3. QED
    BY <2>2, Zenon DEF Expired, Remaining, Half
<1>5. QED
  BY <1>1, <1>2, <1>3, <1>4 DEF Free

(* It is what the two promises of the server rest on.                      *)
LEMMA DhcpInvConcludes == DhcpInv => NoSharedAddress /\ OneLeaseForgotten
<1> SUFFICES ASSUME DhcpInv PROVE NoSharedAddress /\ OneLeaseForgotten
  OBVIOUS
<1>1. NoSharedAddress
  <2> SUFFICES ASSUME NEW c \in Clients, NEW d \in Clients, Using(c), Using(d),
                      client[c].ip = client[d].ip
               PROVE  c = d
    BY DEF NoSharedAddress
  <2>1. /\ client[c].st \in Given /\ GivenTo(c) = client[c].ip
        /\ client[d].st \in Given /\ GivenTo(d) = client[d].ip
    BY DEF Using, Given, GivenTo
  <2>2. lease[client[c].ip].mac = c /\ lease[client[d].ip].mac = d
    BY <2>1, GivenIsNotFree
  <2>3. QED
    BY <2>2
<1>2. OneLeaseForgotten
  BY DEF DhcpInv, OneOther, OneBeside, Known, OneLeaseForgotten
<1>3. QED
  BY <1>1, <1>2

(* What a client and a lease may be, to cite TypeOKDhcp by its parts *)
ClientStates == [st : {"idle", "bound"} \union UnderWay,
                 ip : Slots \union {NONE}, req : Slots \union {NONE},
                 left : 0 .. LEASE_TIME]
Leases == [mac : Clients \union {NONE}, expiry : 0 .. WRAP \div UNIT - 1]

LEMMA TypeParts ==
  TypeOKDhcp <=> /\ now \in 0 .. WRAP - 1
                 /\ lease \in [Slots -> Leases]
                 /\ client \in [Clients -> ClientStates]
BY DEF TypeOKDhcp, Leases, ClientStates

LEMMA FirstValues ==
  /\ 0 \in 0 .. WRAP - 1 /\ 0 \in 0 .. WRAP \div UNIT - 1
  /\ 0 \in 0 .. LEASE_TIME /\ LEASE_TIME \in 0 .. LEASE_TIME
BY Timer, UnitsFit

LEMMA InitDhcpInv == InitDhcp => DhcpInv
<1> SUFFICES ASSUME InitDhcp PROVE DhcpInv
  OBVIOUS
<1>1. 0 \in 0 .. WRAP - 1 /\ 0 \in 0 .. WRAP \div UNIT - 1 /\ 0 \in 0 .. LEASE_TIME
  BY Timer, UnitsFit
<1>2. TypeOKDhcp
  BY <1>1 DEF InitDhcp, TypeOKDhcp, NoLeases
<1>3. /\ \A i \in Slots : lease[i].mac = NONE
      /\ \A c \in Clients : client[c].st = "idle" /\ client[c].ip = NONE
  BY DEF InitDhcp, NoLeases
<1>4. OneOther
  BY <1>3, ClientsAssumption DEF OneOther, OneBeside, Known, OwnSlots, Naming
<1>5. NamesAddress /\ LeaseLasts
  BY <1>3 DEF NamesAddress, Naming, LeaseLasts, Given
<1>6. QED
  BY <1>2, <1>4, <1>5 DEF DhcpInv

(* Every non-empty set of natural numbers has a least element.             *)
LEMMA LeastNat ==
  ASSUME NEW S \in SUBSET Nat, S # {}
  PROVE  \E i \in S : \A j \in S : i <= j
<1>1. PICK i \in S : \A j \in S : <<j, i>> \notin OpToRel(<, Nat)
  BY NatLessThanWellFounded, WFMin
<1>2. \A j \in S : ~ (j < i)
  BY <1>1 DEF OpToRel
<1>3. \A j \in S : i <= j
  BY <1>2
<1>4. QED
  BY <1>3

LEMMA LeastSlot ==
  ASSUME NEW S \in SUBSET Slots, S # {}
  PROVE  First(S) \in S /\ First(S) \in Slots
<1>1. S \in SUBSET Nat
  BY PoolAssumption DEF Slots
<1>2. \E i \in S : \A j \in S : i <= j
  BY <1>1, LeastNat
<1>3. First(S) \in S
  BY <1>2 DEF First
<1>4. QED
  BY <1>3

-----------------------------------------------------------------------------
(* Each action keeps the invariant. *)

(* A client that knows no address it did not know                          *)
LEMMA KnownShrinks ==
  ASSUME OneOther, \A d \in Clients : Known(d)' \subseteq Known(d)
  PROVE  OneOther'
<1>1. \A d \in Clients : client'[d].ip \in Known(d)
  BY DEF Known
<1>2. QED
  BY <1>1 DEF OneOther, OneBeside

(* The steps of the clients that change no lease: what is said of the      *)
(* client is weakened, or what it does was true before.                    *)
LEMMA TellKeeps ==
  ASSUME DhcpInv, UNCHANGED <<now, lease>>, NEW c \in Clients,
         NEW st \in {"discover", "request", "idle"},
         NEW i \in Slots \union {NONE}, Tell(c, st, i),
         st = "request" => i \in Slots /\ i \in Known(c)
  PROVE  DhcpInv'
<1>1. TypeOKDhcp'
  BY DEF DhcpInv, TypeOKDhcp, Tell, UnderWay
<1>2. /\ \A d \in Clients :
           /\ client'[d].ip = client[d].ip
           /\ client'[d].left = client[d].left
           /\ d # c => client'[d] = client[d]
      /\ client'[c].st = st /\ client'[c].req = i
  BY DEF DhcpInv, TypeOKDhcp, Tell
<1>3. OneOther'
  <2>1. \A d \in Clients : OwnSlots(d)' = OwnSlots(d)
    BY DEF OwnSlots
  <2>2. \A d \in Clients : Known(d)' \subseteq Known(d)
    <3> SUFFICES ASSUME NEW d \in Clients PROVE Known(d)' \subseteq Known(d)
      OBVIOUS
    <3>1. CASE d # c
      BY <1>2, <2>1, <3>1 DEF Known
    <3>2. CASE d = c /\ st = "request"
      BY <1>2, <2>1, <3>2 DEF Known
    <3>3. CASE d = c /\ st # "request"
      BY <1>2, <2>1, <3>3 DEF Known, Naming
    <3>4. QED
      BY <3>1, <3>2, <3>3
  <2>3. QED
    BY <2>2, KnownShrinks DEF DhcpInv
<1>4. NamesAddress'
  BY <1>2 DEF DhcpInv, NamesAddress, Naming
<1>5. LeaseLasts'
  BY <1>2 DEF DhcpInv, LeaseLasts, Given, GivenTo
<1>6. QED
  BY <1>1, <1>3, <1>4, <1>5 DEF DhcpInv

LEMMA AskKeeps ==
  ASSUME DhcpInv, NEW c \in Clients, Ask(c) \/ AskAgain(c) \/ TakeOffer(c)
  PROVE  DhcpInv'
<1>1. CASE Ask(c)
  BY <1>1, TellKeeps DEF Ask
<1>2. CASE AskAgain(c)
  <2>1. client[c].ip \in Slots /\ client[c].ip \in Known(c)
    BY <1>2 DEF AskAgain, DhcpInv, TypeOKDhcp, Known
  <2>2. QED
    BY <1>2, <2>1, TellKeeps DEF AskAgain
<1>3. CASE TakeOffer(c)
  <2>1. client[c].req \in Slots /\ client[c].req \in Known(c)
    BY <1>3 DEF TakeOffer, DhcpInv, NamesAddress, Naming, Known
  <2>2. QED
    BY <1>3, <2>1, TellKeeps DEF TakeOffer
<1>4. QED
  BY <1>1, <1>2, <1>3

LEMMA LoseKeeps ==
  ASSUME DhcpInv, NEW c \in Clients, Lose(c)
  PROVE  DhcpInv'
BY TellKeeps DEF Lose, Ignore

(* A client that remembers its address and does nothing promises nothing.  *)
LEMMA UnlinkedIs ==
  ASSUME DhcpInv, NEW c \in Clients
  PROVE  /\ Unlinked(c) \in ClientStates
         /\ Unlinked(c).st = "idle" /\ Unlinked(c).ip = client[c].ip
BY FirstValues, TypeParts DEF DhcpInv, Unlinked, ClientStates

LEMMA ReleaseKeeps ==
  ASSUME DhcpInv, NEW c \in Clients, Release(c)
  PROVE  DhcpInv'
<1>1. /\ now' = now /\ lease' = lease
      /\ client' = [client EXCEPT ![c] = Unlinked(c)]
      /\ client \in [Clients -> ClientStates]
  BY TypeParts DEF Release, DhcpInv
<1>2. /\ client' \in [Clients -> ClientStates]
      /\ \A d \in Clients : client'[d].ip = client[d].ip
      /\ \A d \in Clients : d # c => client'[d] = client[d]
      /\ client'[c].st = "idle"
  BY <1>1, UnlinkedIs
<1>3. TypeOKDhcp'
  BY <1>1, <1>2 DEF DhcpInv, TypeOKDhcp, ClientStates
<1>4. OneOther'
  <2>1. \A d \in Clients : Known(d)' \subseteq Known(d)
    BY <1>1, <1>2 DEF Known, OwnSlots, Naming
  <2>2. QED
    BY <2>1, KnownShrinks DEF DhcpInv
<1>5. NamesAddress'
  BY <1>2 DEF DhcpInv, NamesAddress, Naming
<1>6. LeaseLasts'
  BY <1>1, <1>2 DEF DhcpInv, LeaseLasts, Given, GivenTo
<1>7. QED
  BY <1>3, <1>4, <1>5, <1>6 DEF DhcpInv

(* The client counts from LEASE_TIME, and as much is left of its lease.    *)
LEMMA TakeAckKeeps ==
  ASSUME DhcpInv, NEW c \in Clients, TakeAck(c)
  PROVE  DhcpInv'
<1> DEFINE taken == [st |-> "bound", ip |-> client[c].req,
                     req |-> NONE, left |-> LEASE_TIME]
<1>1. /\ now' = now /\ lease' = lease /\ client[c].st = "ack"
      /\ client' = [client EXCEPT ![c] = taken]
      /\ client \in [Clients -> ClientStates] /\ client[c].req \in Slots
  BY TypeParts DEF TakeAck, DhcpInv, NamesAddress, Naming
<1>2. taken \in ClientStates
  BY <1>1, FirstValues DEF ClientStates
<1>3. /\ client' \in [Clients -> ClientStates]
      /\ \A d \in Clients : d # c => client'[d] = client[d]
      /\ client'[c].st = "bound" /\ client'[c].left = LEASE_TIME
      /\ client'[c].ip = client[c].req
  BY <1>1, <1>2
<1>4. TypeOKDhcp'
  BY <1>1, <1>3 DEF DhcpInv, TypeOKDhcp, ClientStates
<1>5. OneOther'
  <2>1. \A d \in Clients : OwnSlots(d)' = OwnSlots(d)
    BY <1>1 DEF OwnSlots
  <2>2. \A d \in Clients : Known(d)' \subseteq Known(d)
    BY <1>1, <1>3, <2>1 DEF Known, Naming
  <2>3. QED
    BY <2>2, KnownShrinks DEF DhcpInv
<1>6. NamesAddress'
  BY <1>1, <1>3 DEF DhcpInv, NamesAddress, Naming
<1>7. LeaseLasts'
  BY <1>1, <1>3, Bounds DEF DhcpInv, LeaseLasts, Given, GivenTo
<1>8. QED
  BY <1>4, <1>5, <1>6, <1>7 DEF DhcpInv

(* The leases are forgotten, and no client uses what it had.               *)
LEMMA RestartKeeps ==
  ASSUME DhcpInv, RestartDhcp
  PROVE  DhcpInv'
<1>1. lease' \in [Slots -> Leases]
  BY FirstValues DEF RestartDhcp, NoLeases, Leases
<1>2. /\ client' \in [Clients -> ClientStates]
      /\ \A c \in Clients : client'[c].st = "idle" /\ client'[c].ip = client[c].ip
  BY UnlinkedIs DEF RestartDhcp
<1>3. TypeOKDhcp'
  BY <1>1, <1>2 DEF DhcpInv, TypeOKDhcp, RestartDhcp, Leases, ClientStates
<1>4. \A i \in Slots : lease'[i].mac = NONE
  BY DEF RestartDhcp, NoLeases
<1>5. OneOther'
  <2>1. \A d \in Clients : Known(d)' \subseteq Known(d)
    BY <1>2, <1>4, ClientsAssumption DEF Known, OwnSlots, Naming
  <2>2. QED
    BY <2>1, KnownShrinks DEF DhcpInv
<1>6. NamesAddress' /\ LeaseLasts'
  BY <1>2 DEF NamesAddress, Naming, LeaseLasts, Given
<1>7. QED
  BY <1>3, <1>5, <1>6 DEF DhcpInv

(* A tick takes as much from a client as from its lease.                   *)
LEMMA TickKeeps ==
  ASSUME DhcpInv, Tick
  PROVE  DhcpInv'
<1>1. now \in 0 .. WRAP - 1 /\ now' \in 0 .. WRAP - 1
  <2>1. now + 1 \in Int
    BY Bounds DEF DhcpInv, TypeOKDhcp
  <2>2. (now + 1) % WRAP \in 0 .. WRAP - 1
    BY <2>1, Bounds, DivMod
  <2>3. QED
    BY <2>2 DEF Tick, DhcpInv, TypeOKDhcp
<1>2. /\ lease' = lease
      /\ DOMAIN client' = Clients
      /\ \A d \in Clients :
           \/ /\ client[d].st = "bound" /\ client[d].left > 1
              /\ client'[d] = [client[d] EXCEPT !.left = @ - 1]
           \/ client'[d] = Unlinked(d)
  BY DEF Tick
<1>3. TypeOKDhcp'
  <2>1. \A d \in Clients : client'[d] \in ClientStates
    <3> SUFFICES ASSUME NEW d \in Clients PROVE client'[d] \in ClientStates
      OBVIOUS
    <3>1. client[d] \in ClientStates
      BY TypeParts DEF DhcpInv
    <3>2. client[d].left > 1 => client[d].left - 1 \in 0 .. LEASE_TIME
      BY <3>1, Bounds DEF ClientStates
    <3>3. CASE client'[d] = Unlinked(d)
      BY <3>3, UnlinkedIs
    <3>4. CASE /\ client[d].left > 1
               /\ client'[d] = [client[d] EXCEPT !.left = @ - 1]
      BY <3>1, <3>2, <3>4 DEF ClientStates
    <3>5. QED
      BY <1>2, <3>3, <3>4
  <2>2. client' \in [Clients -> ClientStates]
    BY <2>1 DEF Tick
  <2>3. QED
    BY <1>1, <1>2, <2>2 DEF DhcpInv, TypeOKDhcp, ClientStates
<1>4. \A d \in Clients :
        /\ client'[d].ip = client[d].ip
        /\ \/ client'[d].st = "idle"
           \/ /\ client[d].st = "bound" /\ client'[d].st = "bound"
              /\ client[d].left > 1 /\ client'[d].left = client[d].left - 1
  <2>1. \A d \in Clients : client[d] \in ClientStates
    BY TypeParts DEF DhcpInv
  <2>2. QED
    BY <1>2, <2>1, UnlinkedIs DEF ClientStates
<1>5. OneOther' /\ NamesAddress'
  <2>1. \A d \in Clients : Known(d)' \subseteq Known(d)
    BY <1>2, <1>4 DEF Known, OwnSlots, Naming
  <2>2. OneOther'
    BY <2>1, KnownShrinks DEF DhcpInv
  <2>3. NamesAddress'
    BY <1>4 DEF DhcpInv, NamesAddress, Naming
  <2>4. QED
    BY <2>2, <2>3
<1>6. LeaseLasts'
  <2> SUFFICES ASSUME NEW d \in Clients, (client[d].st \in Given)'
               PROVE  /\ lease'[client'[d].ip].mac = d
                      /\ client'[d].st = "bound"
                      /\ Remaining(lease'[client'[d].ip], now') < Half
                      /\ client'[d].left >= 1
                      /\ Remaining(lease'[client'[d].ip], now') >= client'[d].left
    BY DEF LeaseLasts, GivenTo
  <2> DEFINE l == lease[client[d].ip]
             r == Remaining(l, now)
  <2>1. /\ client[d].st = "bound" /\ client'[d].st = "bound"
        /\ client[d].left \in 0 .. LEASE_TIME /\ client[d].left > 1
        /\ client'[d].left = client[d].left - 1
        /\ lease'[client'[d].ip] = l
    BY <1>2, <1>4 DEF Given, DhcpInv, TypeOKDhcp
  <2>2. l.mac = d /\ r < Half /\ r >= client[d].left
    BY <2>1 DEF DhcpInv, LeaseLasts, Given, GivenTo
  <2>3. l.expiry \in Nat
    <3>1. client[d].ip \in Slots
      BY <2>1 DEF DhcpInv, NamesAddress
    <3>2. l.expiry \in 0 .. WRAP \div UNIT - 1
      BY <3>1 DEF DhcpInv, TypeOKDhcp
    <3>3. QED
      BY <3>2, Timer
  <2>4. r \in Nat
    BY <1>1, <2>3, RemainingIsTime
  <2>5. Remaining(l, now') = r - 1
    <3>1. r >= 1
      BY <2>1, <2>2, <2>4, Bounds
    <3>2. QED
      BY <1>1, <2>3, <3>1, OneTick DEF Tick
  <2> HIDE DEF r, l
  <2>6. Remaining(l, now') < Half /\ Remaining(l, now') >= client'[d].left /\ client'[d].left >= 1
    BY <2>1, <2>2, <2>4, <2>5, Bounds
  <2>7. QED
    BY <2>1, <2>2, <2>6 DEF l
<1>7. QED
  BY <1>3, <1>5, <1>6 DEF DhcpInv

(* An offer takes a lease only if it is free, so from nobody who uses it,  *)
(* and it is the client's own address if there is one.                     *)
LEMMA DiscoverKeeps ==
  ASSUME DhcpInv, NEW c \in Clients, Discover(c)
  PROVE  DhcpInv'
<1>1. /\ FreeSeen(c) \in SUBSET Slots /\ OwnSlots(c) \in SUBSET Slots
      /\ Offerable(c) \in SUBSET Slots
  BY DEF FreeSeen, Seen, OwnSlots, Offerable
<1>2. /\ FreeSeen(c) # {} => First(FreeSeen(c)) \in FreeSeen(c)
      /\ Offerable(c) # {} => First(Offerable(c)) \in Offerable(c)
  BY <1>1, LeastSlot
<1>3. now' = now /\ lease \in [Slots -> Leases] /\ client \in [Clients -> ClientStates]
  BY TypeParts DEF DhcpInv, Discover
<1>4. /\ lease' \in [Slots -> Leases]
      /\ \A i \in Slots :
           \/ lease'[i] = lease[i]
           \/ i \in FreeSeen(c) /\ lease'[i].mac = NONE
  <2>1. CASE FreeSeen(c) = {}
    BY <1>3, <2>1 DEF Discover
  <2>2. CASE FreeSeen(c) # {}
    <3> DEFINE f == First(FreeSeen(c))
    <3>1. f \in Slots /\ f \in FreeSeen(c)
      BY <1>1, <1>2, <2>2
    <3>2. lease' = [lease EXCEPT ![f].mac = NONE]
      BY <2>2 DEF Discover
    <3> HIDE DEF f
    <3>3. QED
      BY <1>3, <3>1, <3>2 DEF Leases
  <2>3. QED
    BY <2>1, <2>2
<1>5. /\ client' \in [Clients -> ClientStates]
      /\ \A d \in Clients : d # c => client'[d] = client[d]
      /\ client'[c].ip = client[c].ip
      /\ \/ client'[c].st = "idle"
         \/ client'[c].st = "offer" /\ client'[c].req \in Offerable(c)
  <2>1. CASE Offerable(c) = {}
    BY <1>3, <2>1 DEF Discover, Ignore, Tell, ClientStates
  <2>2. CASE Offerable(c) # {}
    <3> DEFINE f == First(Offerable(c))
    <3>1. f \in Slots /\ f \in Offerable(c)
      BY <1>1, <1>2, <2>2
    <3>2. Tell(c, "offer", f)
      BY <2>2 DEF Discover
    <3> HIDE DEF f
    <3>3. QED
      BY <1>3, <3>1, <3>2 DEF Tell, ClientStates, UnderWay
  <2>3. QED
    BY <2>1, <2>2
<1>6. TypeOKDhcp'
  BY <1>3, <1>4, <1>5 DEF DhcpInv, TypeOKDhcp, Leases, ClientStates
<1>7. OneOther'
  <2>1. \A d \in Clients : OwnSlots(d)' \subseteq OwnSlots(d)
    BY <1>4, ClientsAssumption DEF OwnSlots
  <2>2. \A d \in Clients : d # c => Known(d)' \subseteq Known(d)
    BY <1>5, <2>1 DEF Known
  <2>3. OneBeside(Known(c)', client'[c].ip)
    <3>1. CASE client'[c].st = "idle" \/ client'[c].req \in OwnSlots(c)
      <4>1. Known(c)' \subseteq Known(c)
        BY <1>5, <2>1, <3>1 DEF Known, Naming
      <4>2. QED
        BY <4>1, <1>5 DEF DhcpInv, OneOther, OneBeside
    <3>2. CASE client'[c].req \in Offerable(c) /\ client'[c].req \notin OwnSlots(c)
      <4>1. OwnSlots(c)' = {}
        BY <2>1, <3>2 DEF Offerable
      <4>2. Known(c)' \subseteq {client'[c].ip, client'[c].req}
        BY <4>1 DEF Known
      <4>3. QED
        BY <4>2 DEF OneBeside
    <3>3. QED
      BY <1>5, <3>1, <3>2
  <2>4. QED
    BY <1>5, <2>2, <2>3 DEF DhcpInv, OneOther, OneBeside
<1>8. NamesAddress'
  BY <1>1, <1>5 DEF DhcpInv, NamesAddress, Naming
<1>9. LeaseLasts'
  <2>1. \A d \in Clients : client'[d].st \in Given => d # c /\ client'[d] = client[d]
    BY <1>5 DEF Given
  <2>2. \A d \in Clients : client'[d].st \in Given =>
          lease'[GivenTo(d)] = lease[GivenTo(d)]
    <3> SUFFICES ASSUME NEW d \in Clients, client'[d].st \in Given
                 PROVE  lease'[GivenTo(d)] = lease[GivenTo(d)]
      OBVIOUS
    <3>1. GivenTo(d) \in Slots /\ ~ Free(lease[GivenTo(d)])
      BY <2>1, GivenIsNotFree
    <3>2. GivenTo(d) \notin FreeSeen(c)
      BY <3>1 DEF FreeSeen
    <3>3. QED
      BY <1>4, <3>1, <3>2
  <2>3. QED
    BY <1>3, <2>1, <2>2 DEF DhcpInv, LeaseLasts, GivenTo
<1>10. QED
  BY <1>6, <1>7, <1>8, <1>9 DEF DhcpInv

(* A request is granted on the client's own lease or on one that is        *)
(* nobody's, and the address is one that it knew.                          *)
LEMMA RequestKeeps ==
  ASSUME DhcpInv, NEW c \in Clients, Request(c)
  PROVE  DhcpInv'
<1> DEFINE i == client[c].req
           given == [mac |-> c, expiry |-> Expiry]
<1>1. /\ now' = now /\ client[c].st = "request"
      /\ lease \in [Slots -> Leases] /\ client \in [Clients -> ClientStates]
  BY TypeParts DEF DhcpInv, Request
<1>2. i \in Slots /\ i \in Known(c)
  BY <1>1 DEF DhcpInv, NamesAddress, Naming, Known
<1>3. CASE ~ MayHave(c, i)
  BY <1>3, TellKeeps DEF Request, Ignore
<1>4. CASE MayHave(c, i)
  <2>1. Expiry \in 0 .. WRAP \div UNIT - 1 /\ Remaining(given, now) \in LEASE_TIME .. Half - 1
    BY NewLease DEF DhcpInv, TypeOKDhcp
  <2>2. Remaining(given, now) >= LEASE_TIME /\ Remaining(given, now) < Half
    BY <2>1, Bounds
  <2>3. lease' = [lease EXCEPT ![i] = given] /\ Tell(c, "ack", i)
    BY <1>4 DEF Request
  <2>4. given \in Leases
    BY <2>1 DEF Leases
  <2> HIDE DEF given
  <2>5. /\ lease' \in [Slots -> Leases] /\ lease'[i] = given
        /\ \A j \in Slots : j # i => lease'[j] = lease[j]
    BY <1>1, <1>2, <2>3, <2>4
  <2>6. /\ client' \in [Clients -> ClientStates]
        /\ \A d \in Clients : d # c => client'[d] = client[d]
        /\ client'[c].st = "ack" /\ client'[c].req = i
        /\ client'[c].ip = client[c].ip
    BY <1>1, <1>2, <2>3 DEF Tell, ClientStates, UnderWay
  <2>7. TypeOKDhcp'
    BY <1>1, <2>5, <2>6 DEF DhcpInv, TypeOKDhcp, Leases, ClientStates
  <2>8. OneOther'
    <3>1. /\ OwnSlots(c)' \subseteq OwnSlots(c) \union {i}
          /\ \A d \in Clients : d # c => OwnSlots(d)' \subseteq OwnSlots(d)
      BY <2>5 DEF OwnSlots, given
    <3>2. Known(c)' \subseteq Known(c)
      BY <1>2, <2>6, <3>1 DEF Known
    <3>3. \A d \in Clients : d # c => Known(d)' \subseteq Known(d)
      BY <2>6, <3>1 DEF Known
    <3>4. QED
      BY <3>2, <3>3, KnownShrinks DEF DhcpInv
  <2>9. NamesAddress'
    BY <1>2, <2>6 DEF DhcpInv, NamesAddress
  <2>10. LeaseLasts'
    <3> SUFFICES ASSUME NEW d \in Clients, (client[d].st \in Given)'
                 PROVE  LET l == lease'[GivenTo(d)'] IN
                        /\ l.mac = d
                        /\ Remaining(l, now) < Half
                        /\ client'[d].st = "ack" => Remaining(l, now) >= LEASE_TIME
                        /\ client'[d].st = "bound" =>
                             /\ client'[d].left >= 1
                             /\ Remaining(l, now) >= client'[d].left
      BY <1>1 DEF LeaseLasts
    <3>1. CASE d = c
      BY <2>2, <2>5, <2>6, <3>1 DEF given, GivenTo
    <3>2. CASE d # c
      <4>1. client'[d] = client[d] /\ client[d].st \in Given /\ GivenTo(d)' = GivenTo(d)
        BY <2>6, <3>2 DEF GivenTo
      <4>2. GivenTo(d) \in Slots /\ lease[GivenTo(d)].mac = d
        BY <4>1, GivenIsNotFree
      <4>3. GivenTo(d) # i
        BY <1>4, <3>2, <4>2, ClientsAssumption DEF MayHave
      <4>4. lease'[GivenTo(d)'] = lease[GivenTo(d)]
        BY <2>5, <4>1, <4>2, <4>3
      <4>5. QED
        BY <4>1, <4>4 DEF DhcpInv, LeaseLasts
    <3>3. QED
      BY <3>1, <3>2
  <2>11. QED
    BY <2>7, <2>8, <2>9, <2>10 DEF DhcpInv
<1>5. QED
  BY <1>3, <1>4

(* Whatever server, clients and clock do, the invariant is kept.           *)
LEMMA DhcpStep ==
  ASSUME DhcpInv,
         \/ Tick \/ RestartDhcp \/ UNCHANGED dhcpVars
         \/ \E c \in Clients :
              \/ Discover(c) \/ Request(c) \/ Ask(c) \/ AskAgain(c)
              \/ TakeOffer(c) \/ TakeAck(c) \/ Lose(c) \/ Release(c)
  PROVE  DhcpInv'
<1>1. CASE Tick
  BY <1>1, TickKeeps
<1>2. CASE RestartDhcp
  BY <1>2, RestartKeeps
<1>3. CASE UNCHANGED dhcpVars
  BY <1>3 DEF dhcpVars, DhcpInv, TypeOKDhcp, OneOther, Known, OwnSlots, NamesAddress,
              LeaseLasts, GivenTo
<1>4. ASSUME NEW c \in Clients,
             \/ Discover(c) \/ Request(c) \/ Ask(c) \/ AskAgain(c)
             \/ TakeOffer(c) \/ TakeAck(c) \/ Lose(c) \/ Release(c)
      PROVE  DhcpInv'
  BY <1>4, DiscoverKeeps, RequestKeeps, AskKeeps, TakeAckKeeps, LoseKeeps, ReleaseKeeps
<1>5. QED
  BY <1>1, <1>2, <1>3, <1>4

-----------------------------------------------------------------------------
(* The DNS server: where the name of a question ends *)

(* One step of the loop over the labels of q *)
Behind(q, f, i) == IF i = 0 THEN HEADER ELSE f[i - 1] + 1 + q.labels[i]

(* The positions exist: of the numbers of labels for which they do not,    *)
(* there would be a least one.                                             *)
LEMMA PositionsExist ==
  ASSUME NEW q, NEW n \in Nat
  PROVE  \E f : f = [i \in 0 .. n |-> Behind(q, f, i)]
<1> DEFINE Has(k) == \E f : f = [i \in 0 .. k |-> Behind(q, f, i)]
           T == {k \in Nat : ~ Has(k)}
<1> SUFFICES ASSUME T # {} PROVE FALSE
  OBVIOUS
<1>1. PICK k \in T : \A j \in T : k <= j
  <2> T \in SUBSET Nat
    OBVIOUS
  <2> HIDE DEF T
  <2> QED
    BY LeastNat
<1>2. k \in Nat /\ ~ Has(k)
  OBVIOUS
<1>3. k # 0
  <2> DEFINE f == [i \in 0 .. 0 |-> HEADER]
  <2>1. f = [i \in 0 .. 0 |-> Behind(q, f, i)]
    BY DEF Behind
  <2>2. Has(0)
    BY <2>1
  <2>3. QED
    BY <1>2, <2>2
<1>4. k - 1 \in Nat /\ Has(k - 1)
  BY <1>1, <1>2, <1>3
<1>5. PICK f : f = [i \in 0 .. k - 1 |-> Behind(q, f, i)]
  BY <1>4
<1> DEFINE g == [i \in 0 .. k |-> IF i = k THEN f[k - 1] + 1 + q.labels[k] ELSE f[i]]
<1>6. \A i \in 0 .. k : g[i] = Behind(q, g, i)
  BY <1>2, <1>3, <1>5 DEF Behind
<1>7. g = [i \in 0 .. k |-> Behind(q, g, i)]
  BY <1>6
<1>8. Has(k)
  BY <1>7
<1>9. QED
  BY <1>2, <1>8

LEMMA PtrIs ==
  ASSUME NEW q, Len(q.labels) \in Nat
  PROVE  Ptr(q) = [i \in 0 .. Len(q.labels) |-> Behind(q, Ptr(q), i)]
BY PositionsExist DEF Ptr, Behind

(* They are positions in the packet, not below its beginning.              *)
LEMMA PtrNat ==
  ASSUME NEW q, q.labels \in Seq(0 .. 255)
  PROVE  \A i \in 0 .. Len(q.labels) : Ptr(q)[i] \in Nat
<1> DEFINE n == Len(q.labels)
           T == {i \in 0 .. n : Ptr(q)[i] \notin Nat}
<1>1. n \in Nat /\ \A i \in 1 .. n : q.labels[i] \in Nat
  <2> DEFINE l == q.labels
  <2>1. l \in Seq(0 .. 255)
    OBVIOUS
  <2> HIDE DEF l
  <2>2. Len(l) \in Nat
    BY <2>1
  <2>3. ASSUME NEW i \in 1 .. Len(l) PROVE l[i] \in Nat
    <3>1. l[i] \in 0 .. 255
      BY <2>1, ElementOfSeq, Zenon
    <3>2. 0 .. 255 \subseteq Nat
      OBVIOUS
    <3>3. QED
      BY <3>1, <3>2, Zenon
  <2>4. QED
    BY <2>2, <2>3 DEF l
<1>2. \A i \in 0 .. n : Ptr(q)[i] = Behind(q, Ptr(q), i)
  BY <1>1, PtrIs
<1> SUFFICES ASSUME T # {} PROVE FALSE
  OBVIOUS
<1>3. PICK i \in T : \A j \in T : i <= j
  <2>1. T \in SUBSET Nat
    OBVIOUS
  <2> HIDE DEF T
  <2>2. QED
    BY <2>1, LeastNat
<1>4. i \in 0 .. n /\ Ptr(q)[i] \notin Nat
  OBVIOUS
<1>5. i # 0
  BY <1>1, <1>2, <1>4 DEF Behind, HEADER
<1>6. i - 1 \in 0 .. n /\ i \in 1 .. n
  BY <1>1, <1>4, <1>5
<1>7. Ptr(q)[i - 1] \in Nat
  BY <1>3, <1>6
<1>8. Ptr(q)[i] = Ptr(q)[i - 1] + 1 + q.labels[i]
  BY <1>2, <1>4, <1>5 DEF Behind
<1>9. QED
  BY <1>1, <1>4, <1>6, <1>7, <1>8

(* The loop ends where its condition fails for the first time.             *)
LEMMA QuestionEndNat ==
  ASSUME NEW q \in Queries
  PROVE  QuestionEnd(q) \in Nat
<1>1. q.labels \in Seq(0 .. 255) /\ Ends(q) # {}
  BY QueriesAssumption
<1>2. Ends(q) \in SUBSET (0 .. Len(q.labels)) /\ Ends(q) \in SUBSET Nat
  BY DEF Ends
<1>3. \E i \in Ends(q) : \A j \in Ends(q) : i <= j
  BY <1>1, <1>2, LeastNat
<1>4. LabelsRead(q) \in Ends(q)
  BY <1>3 DEF LabelsRead
<1>5. QED
  BY <1>1, <1>2, <1>4, PtrNat DEF QuestionEnd

(* An answer that is sent ends within the buffer: the name was measured    *)
(* before anything was written behind it.                                  *)
LEMMA AnswerFits ==
  ASSUME NEW q \in Queries
  PROVE  /\ ReplyLen(q) \in Nat
         /\ Answered(q) => ReplyLen(q) <= MAX_DNS_MSG_SIZE
<1>1. QuestionEnd(q) \in Nat
  BY QuestionEndNat
<1>2. QED
  BY <1>1 DEF ReplyLen, Answered, NameFits, HEADER, MAX_NAME, MAX_DNS_MSG_SIZE, ANSWER

-----------------------------------------------------------------------------
(* The web server *)

(* What holds of one connection, between lwIP and the program.  While the  *)
(* program has it, what was written and not acknowledged belongs to the    *)
(* packets that came; as long as there was but one, the count of bytes     *)
(* sent is complete exactly when nothing is left to acknowledge.  When the *)
(* program has let go of it and bytes are left, there was more than one    *)
(* packet, or the client or the poll ended it.                             *)
ConnectionOK(p, cb, k, u, a, e) ==
  /\ k \in [sent_len : 0 .. MaxRequests * HEADER_LEN, header_len : {0, HEADER_LEN},
            result_len : {0}, live : BOOLEAN]
  /\ u \in Nat /\ a \in 0 .. MaxRequests
  /\ k.sent_len + u <= a * HEADER_LEN
  /\ \/ /\ p = "none" /\ cb = {} /\ k = NoCon
        /\ u = 0 /\ a = 0 /\ e = "open"
     \/ /\ p = "established" /\ cb = Callbacks /\ k.live /\ e = "open"
        /\ a = 0 => k.header_len = 0
        /\ a = 1 => k.sent_len + u = k.header_len
     \/ /\ p = "closing" /\ cb = {} /\ k = NoCon
        /\ e \in {"done", "fin", "poll", "too_big", "write"}
        /\ u > 0 => a > 1 \/ e \in {"fin", "poll"}

TcpInv ==
  /\ pcb = [c \in Browsers |-> pcb[c]]
  /\ callbacks = [c \in Browsers |-> callbacks[c]]
  /\ con = [c \in Browsers |-> con[c]]
  /\ unacked = [c \in Browsers |-> unacked[c]]
  /\ asked = [c \in Browsers |-> asked[c]]
  /\ ended = [c \in Browsers |-> ended[c]]
  /\ \A c \in Browsers :
       ConnectionOK(pcb[c], callbacks[c], con[c], unacked[c], asked[c], ended[c])

LEMMA TcpInvConcludes == TcpInv => TypeOKTcp /\ WrittenIsKept
<1> SUFFICES ASSUME TcpInv PROVE TypeOKTcp /\ WrittenIsKept
  OBVIOUS
<1>1. \A c \in Browsers :
        /\ pcb[c] \in {"none", "established", "closing"}
        /\ callbacks[c] \in SUBSET {"sent", "recv", "poll", "err"}
        /\ con[c] \in [sent_len : 0 .. MaxRequests * HEADER_LEN,
                      header_len : {0, HEADER_LEN},
                      result_len : {0, PAGE_LEN}, live : BOOLEAN]
        /\ unacked[c] \in 0 .. MaxRequests * HEADER_LEN
        /\ asked[c] \in 0 .. MaxRequests
        /\ ended[c] \in {"open", "done", "fin", "poll", "too_big", "write"}
  <2> TAKE c \in Browsers
  <2>1. ConnectionOK(pcb[c], callbacks[c], con[c], unacked[c], asked[c], ended[c])
    BY DEF TcpInv
  <2>2. /\ pcb[c] \in {"none", "established", "closing"}
        /\ callbacks[c] \in SUBSET {"sent", "recv", "poll", "err"}
        /\ ended[c] \in {"open", "done", "fin", "poll", "too_big", "write"}
    BY <2>1 DEF ConnectionOK, Callbacks
  <2>3. unacked[c] \in 0 .. MaxRequests * HEADER_LEN /\ asked[c] \in 0 .. MaxRequests
    BY <2>1, RequestsAssumption DEF ConnectionOK, HEADER_LEN
  <2>4. con[c] \in [sent_len : 0 .. MaxRequests * HEADER_LEN,
                   header_len : {0, HEADER_LEN},
                   result_len : {0, PAGE_LEN}, live : BOOLEAN]
    BY <2>1 DEF ConnectionOK
  <2>5. QED
    BY <2>2, <2>3, <2>4
<1>2. TypeOKTcp
  BY <1>1 DEF TcpInv, TypeOKTcp
<1>3. WrittenIsKept
  BY DEF TcpInv, ConnectionOK, WrittenIsKept
<1>4. QED
  BY <1>2, <1>3

(* What an action says of one connection is all it changes.                *)
LEMMA OneConnection ==
  ASSUME TcpInv, NEW c \in Browsers,
         NEW p, NEW cb, NEW k, NEW u, NEW a, NEW e,
         ConnectionOK(p, cb, k, u, a, e),
         pcb' = Put(pcb, c, p), callbacks' = Put(callbacks, c, cb),
         con' = Put(con, c, k), unacked' = Put(unacked, c, u),
         asked' = Put(asked, c, a), ended' = Put(ended, c, e)
  PROVE  TcpInv'
<1>1. \A d \in Browsers :
        /\ pcb'[d] = IF d = c THEN p ELSE pcb[d]
        /\ callbacks'[d] = IF d = c THEN cb ELSE callbacks[d]
        /\ con'[d] = IF d = c THEN k ELSE con[d]
        /\ unacked'[d] = IF d = c THEN u ELSE unacked[d]
        /\ asked'[d] = IF d = c THEN a ELSE asked[d]
        /\ ended'[d] = IF d = c THEN e ELSE ended[d]
  BY DEF TcpInv, Put
<1>2. \A d \in Browsers :
        ConnectionOK(pcb'[d], callbacks'[d], con'[d], unacked'[d], asked'[d], ended'[d])
  BY <1>1 DEF TcpInv
<1>3. /\ pcb' = [d \in Browsers |-> pcb'[d]]
      /\ callbacks' = [d \in Browsers |-> callbacks'[d]]
      /\ con' = [d \in Browsers |-> con'[d]]
      /\ unacked' = [d \in Browsers |-> unacked'[d]]
      /\ asked' = [d \in Browsers |-> asked'[d]]
      /\ ended' = [d \in Browsers |-> ended'[d]]
  BY DEF TcpInv, Put
<1>4. QED
  BY <1>2, <1>3 DEF TcpInv

LEMMA NoConnection == ConnectionOK("none", {}, NoCon, 0, 0, "open")
BY RequestsAssumption DEF ConnectionOK, NoCon, HEADER_LEN

(* A variable an action leaves alone *)
LEMMA PutSame ==
  ASSUME TcpInv, NEW c \in Browsers
  PROVE  /\ pcb = Put(pcb, c, pcb[c]) /\ callbacks = Put(callbacks, c, callbacks[c])
         /\ con = Put(con, c, con[c]) /\ unacked = Put(unacked, c, unacked[c])
         /\ asked = Put(asked, c, asked[c]) /\ ended = Put(ended, c, ended[c])
BY DEF TcpInv, Put

(* The callbacks run only while the program has the connection.            *)
LEMMA CalledWhenEstablished ==
  ASSUME TcpInv, NEW c \in Browsers, callbacks[c] # {}
  PROVE  /\ pcb[c] = "established" /\ callbacks[c] = Callbacks
         /\ con[c].live /\ ended[c] = "open"
         /\ con[c] \in [sent_len : 0 .. MaxRequests * HEADER_LEN,
                       header_len : {0, HEADER_LEN}, result_len : {0},
                       live : BOOLEAN]
         /\ unacked[c] \in Nat /\ asked[c] \in 0 .. MaxRequests
         /\ con[c].sent_len + unacked[c] <= asked[c] * HEADER_LEN
         /\ asked[c] = 0 => con[c].header_len = 0
         /\ asked[c] = 1 => con[c].sent_len + unacked[c] = con[c].header_len
         /\ con[c].sent_len \in Nat /\ con[c].header_len \in {0, HEADER_LEN}
         /\ con[c].result_len = 0
<1>1. /\ ConnectionOK(pcb[c], callbacks[c], con[c], unacked[c], asked[c], ended[c])
      /\ pcb[c] = "established"
  BY DEF TcpInv, ConnectionOK
<1>2. con[c].sent_len \in 0 .. MaxRequests * HEADER_LEN
  BY <1>1 DEF ConnectionOK
<1>3. con[c].sent_len \in Nat
  BY <1>2, RequestsAssumption DEF HEADER_LEN
<1>4. QED
  BY <1>1, <1>3 DEF ConnectionOK

LEMMA CloseKeeps ==
  ASSUME TcpInv, NEW c \in Browsers, callbacks[c] # {},
         NEW why \in {"done", "fin", "poll", "too_big", "write"},
         NEW pending \in 0 .. unacked[c],
         NEW packets \in asked[c] .. MaxRequests,
         pending > 0 => packets > 1 \/ why \in {"fin", "poll"},
         Close(c, why, pending, packets)
  PROVE  TcpInv'
<1>1. /\ callbacks' = Put(callbacks, c, {}) /\ con' = Put(con, c, NoCon)
      /\ \/ /\ pcb' = Put(pcb, c, "closing") /\ unacked' = Put(unacked, c, pending)
            /\ asked' = Put(asked, c, packets) /\ ended' = Put(ended, c, why)
         \/ /\ pcb' = Put(pcb, c, "none") /\ unacked' = Put(unacked, c, 0)
            /\ asked' = Put(asked, c, 0) /\ ended' = Put(ended, c, "open")
  BY DEF Close, Gone
<1>2. ConnectionOK("closing", {}, NoCon, pending, packets, why)
  <2>1. /\ pending \in Nat /\ packets \in 0 .. MaxRequests
        /\ 0 + pending <= packets * HEADER_LEN
    BY CalledWhenEstablished, RequestsAssumption DEF HEADER_LEN
  <2>2. NoCon \in [sent_len : 0 .. MaxRequests * HEADER_LEN,
                  header_len : {0, HEADER_LEN}, result_len : {0}, live : BOOLEAN]
    BY NoConnection DEF ConnectionOK
  <2>3. QED
    BY <2>1, <2>2 DEF ConnectionOK, NoCon
<1>3. QED
  BY <1>1, <1>2, NoConnection, OneConnection

LEMMA AcceptKeeps ==
  ASSUME TcpInv, NEW c \in Browsers, Accept(c)
  PROVE  TcpInv'
<1>1. unacked[c] = 0 /\ asked[c] = 0 /\ ended[c] = "open"
  BY DEF TcpInv, ConnectionOK, Accept
<1>2. ConnectionOK("established", Callbacks, NewCon, 0, 0, "open")
  <2> DEFINE R == [sent_len : 0 .. MaxRequests * HEADER_LEN,
                   header_len : {0, HEADER_LEN}, result_len : {0}, live : BOOLEAN]
  <2>1. 0 \in 0 .. MaxRequests * HEADER_LEN /\ 0 \in 0 .. MaxRequests /\ 0 + 0 <= 0 * HEADER_LEN
    BY RequestsAssumption DEF HEADER_LEN
  <2>2. NoCon \in R /\ NoCon.sent_len = 0 /\ NoCon.header_len = 0
    BY <2>1 DEF NoCon
  <2>3. NewCon \in R /\ NewCon.sent_len = 0 /\ NewCon.header_len = 0 /\ NewCon.live = TRUE
    <3> HIDE DEF NoCon
    <3>1. QED
      BY <2>2 DEF NewCon
  <2>4. QED
    BY <2>1, <2>3 DEF ConnectionOK
<1>3. QED
  BY <1>1, <1>2, PutSame, OneConnection DEF Accept

(* When the response was asked for by itself, the last acknowledgement is  *)
(* the one that completes it.                                              *)
LEMMA SentKeeps ==
  ASSUME TcpInv, NEW c \in Browsers, NEW n \in 1 .. unacked[c], Sent(c, n)
  PROVE  TcpInv'
<1> DEFINE k == [con[c] EXCEPT !.sent_len = @ + n]
           u == unacked[c] - n
<1>1. callbacks[c] # {}
  BY DEF Sent
<1>2. /\ u \in 0 .. unacked[c] /\ u \in Nat
      /\ k.sent_len = con[c].sent_len + n /\ k.header_len = con[c].header_len
      /\ k.result_len = 0 /\ k.live
      /\ k.sent_len + u = con[c].sent_len + unacked[c]
      /\ k.sent_len + u <= asked[c] * HEADER_LEN
      /\ asked[c] = 0 => k.header_len = 0
      /\ asked[c] = 1 => k.sent_len + u = k.header_len
  <2>1. /\ k.sent_len = con[c].sent_len + n /\ k.header_len = con[c].header_len
        /\ k.result_len = 0 /\ k.live
    BY <1>1, CalledWhenEstablished
  <2> HIDE DEF k
  <2>2. QED
    BY <1>1, <2>1, CalledWhenEstablished DEF HEADER_LEN
<1>3. k \in [sent_len : 0 .. MaxRequests * HEADER_LEN, header_len : {0, HEADER_LEN},
            result_len : {0}, live : BOOLEAN]
  <2>1. con[c].sent_len + n \in 0 .. MaxRequests * HEADER_LEN
    <3> DEFINE s == con[c].sent_len
               v == unacked[c]
               m == asked[c]
    <3>1. s \in Nat /\ v \in Nat /\ m \in 0 .. MaxRequests /\ s + v <= m * HEADER_LEN
      BY <1>1, CalledWhenEstablished
    <3> HIDE DEF s, v, m
    <3>2. n \in 1 .. v
      BY DEF v
    <3>3. s + n \in 0 .. MaxRequests * HEADER_LEN
      BY <3>1, <3>2, RequestsAssumption DEF HEADER_LEN
    <3>4. QED
      BY <3>3 DEF s
  <2>2. con[c] \in [sent_len : 0 .. MaxRequests * HEADER_LEN,
                   header_len : {0, HEADER_LEN}, result_len : {0}, live : BOOLEAN]
    BY <1>1, CalledWhenEstablished
  <2>3. QED
    BY <2>1, <2>2
<1>4. asked[c] \in asked[c] .. MaxRequests /\ asked[c] > 0
  BY <1>1, CalledWhenEstablished DEF HEADER_LEN
<1>5. CASE AllSent(k)
  <2>1. u > 0 => asked[c] > 1
    BY <1>1, <1>2, <1>3, <1>4, <1>5, CalledWhenEstablished DEF AllSent, HEADER_LEN
  <2>2. Close(c, "done", u, asked[c])
    BY <1>5 DEF Sent
  <2> HIDE DEF u, k
  <2>3. QED
    BY <1>1, <1>2, <1>4, <2>1, <2>2, CloseKeeps
<1>6. CASE ~ AllSent(k)
  <2>1. /\ con' = Put(con, c, k) /\ unacked' = Put(unacked, c, u)
        /\ UNCHANGED <<pcb, callbacks, asked, ended>>
    BY <1>6 DEF Sent
  <2> HIDE DEF u, k
  <2>2. ConnectionOK(pcb[c], callbacks[c], k, u, asked[c], ended[c])
    BY <1>1, <1>2, <1>3, CalledWhenEstablished DEF ConnectionOK
  <2>3. QED
    BY <2>1, <2>2, PutSame, OneConnection
<1>7. QED
  BY <1>5, <1>6

LEMMA RecvKeeps ==
  ASSUME TcpInv, NEW c \in Browsers, NEW req \in Requests, Recv(c, req)
  PROVE  TcpInv'
<1>1. callbacks[c] # {} /\ asked[c] < MaxRequests
  BY DEF Recv
<1> DEFINE a == asked[c] + 1
<1>2. /\ a \in asked[c] .. MaxRequests /\ a \in 0 .. MaxRequests /\ a > 0
      /\ unacked[c] \in 0 .. unacked[c] /\ unacked[c] \in Nat
      /\ unacked[c] > 0 => a > 1
  BY <1>1, CalledWhenEstablished, RequestsAssumption DEF HEADER_LEN
<1>3. CASE /\ asked' = Put(asked, c, asked[c] + 1)
           /\ UNCHANGED <<pcb, callbacks, con, unacked, ended>>
  <2>1. ConnectionOK(pcb[c], callbacks[c], con[c], unacked[c], a, ended[c])
    <3>1. /\ con[c].sent_len + unacked[c] <= a * HEADER_LEN
          /\ a = 1 => con[c].sent_len + unacked[c] = con[c].header_len
      <4> DEFINE s == con[c].sent_len
                 h == con[c].header_len
                 v == unacked[c]
                 m == asked[c]
      <4>1. /\ s \in Nat /\ v \in Nat /\ m \in 0 .. MaxRequests
            /\ s + v <= m * HEADER_LEN /\ (m = 0 => h = 0) /\ h \in {0, HEADER_LEN}
        BY <1>1, CalledWhenEstablished
      <4> HIDE DEF s, h, v, m
      <4>2. s + v <= (m + 1) * HEADER_LEN
        BY <4>1, RequestsAssumption DEF HEADER_LEN
      <4>3. m + 1 = 1 => s + v = h
        BY <4>1, RequestsAssumption DEF HEADER_LEN
      <4>4. QED
        BY <4>2, <4>3 DEF s, h, v, m
    <3>2. QED
      BY <1>1, <1>2, <3>1, CalledWhenEstablished DEF ConnectionOK
  <2> HIDE DEF a
  <2>2. QED
    BY <1>3, <2>1, PutSame, OneConnection DEF a
<1>4. CASE Close(c, "too_big", unacked[c], a)
  <2> HIDE DEF a
  <2>1. QED
    BY <1>1, <1>2, <1>4, CloseKeeps
<1>5. CASE Redirect(c)
  <2>1. CASE Close(c, "write", unacked[c], a)
    <3> HIDE DEF a
    <3>1. QED
      BY <1>1, <1>2, <2>1, CloseKeeps
  <2>2. CASE ~ Close(c, "write", unacked[c], a)
    <3> DEFINE k == [con[c] EXCEPT !.sent_len = 0, !.header_len = HEADER_LEN,
                                   !.result_len = 0]
               u == unacked[c] + HEADER_LEN
    <3>1. /\ con' = Put(con, c, k) /\ unacked' = Put(unacked, c, u)
          /\ asked' = Put(asked, c, a) /\ UNCHANGED <<pcb, callbacks, ended>>
      BY <1>5, <2>2 DEF Redirect
    <3>2. /\ k \in [sent_len : 0 .. MaxRequests * HEADER_LEN,
                    header_len : {0, HEADER_LEN}, result_len : {0}, live : BOOLEAN]
          /\ k.sent_len = 0 /\ k.header_len = HEADER_LEN /\ k.live
      <4>1. 0 \in 0 .. MaxRequests * HEADER_LEN
        BY RequestsAssumption DEF HEADER_LEN
      <4>2. QED
        BY <1>1, <4>1, CalledWhenEstablished
    <3>3. /\ u \in Nat /\ k.sent_len + u <= a * HEADER_LEN
          /\ a = 1 => k.sent_len + u = k.header_len
      BY <1>1, <3>2, CalledWhenEstablished DEF HEADER_LEN
    <3>4. ConnectionOK(pcb[c], callbacks[c], k, u, a, ended[c])
      <4> HIDE DEF k, u, a
      <4>1. QED
        BY <1>1, <1>2, <3>2, <3>3, CalledWhenEstablished DEF ConnectionOK
    <3> HIDE DEF k, u, a
    <3>5. QED
      BY <3>1, <3>4, PutSame, OneConnection
  <2>3. QED
    BY <2>1, <2>2
<1>6. QED
  BY <1>3, <1>4, <1>5 DEF Recv

LEMMA RecvFinPollKeep ==
  ASSUME TcpInv, NEW c \in Browsers, RecvFin(c) \/ Poll(c)
  PROVE  TcpInv'
<1>1. /\ callbacks[c] # {}
      /\ Close(c, "fin", unacked[c], asked[c]) \/ Close(c, "poll", unacked[c], asked[c])
  BY DEF RecvFin, Poll
<1>2. unacked[c] \in 0 .. unacked[c] /\ asked[c] \in asked[c] .. MaxRequests
  BY <1>1, CalledWhenEstablished, RequestsAssumption
<1>3. QED
  BY <1>1, <1>2, CloseKeeps

LEMMA ErrKeeps ==
  ASSUME TcpInv, NEW c \in Browsers, Err(c)
  PROVE  TcpInv'
BY NoConnection, OneConnection DEF Err, Gone

LEMMA LwipKeeps ==
  ASSUME TcpInv, NEW c \in Browsers, Lwip(c)
  PROVE  TcpInv'
<1>1. ConnectionOK("closing", {}, NoCon, unacked[c], asked[c], ended[c])
  BY DEF Lwip, TcpInv, ConnectionOK
<1>2. pcb[c] = "closing" /\ callbacks[c] = {} /\ con[c] = NoCon
  BY DEF Lwip, TcpInv, ConnectionOK
<1>3. CASE /\ unacked[c] > 0 /\ unacked' = Put(unacked, c, unacked[c] - 1)
           /\ UNCHANGED <<pcb, callbacks, con, asked, ended>>
  <2> DEFINE v == unacked[c]
  <2>1. v \in Nat /\ v > 0 /\ 0 + v <= asked[c] * HEADER_LEN /\ asked[c] \in 0 .. MaxRequests
    BY <1>1, <1>3 DEF ConnectionOK, NoCon
  <2> HIDE DEF v
  <2>2. v - 1 \in Nat /\ 0 + (v - 1) <= asked[c] * HEADER_LEN
    BY <2>1, RequestsAssumption DEF HEADER_LEN
  <2>3. ConnectionOK("closing", {}, NoCon, v - 1, asked[c], ended[c])
    <3>1. /\ NoCon \in [sent_len : 0 .. MaxRequests * HEADER_LEN,
                       header_len : {0, HEADER_LEN}, result_len : {0}, live : BOOLEAN]
          /\ NoCon.sent_len = 0
          /\ ended[c] \in {"done", "fin", "poll", "too_big", "write"}
          /\ asked[c] > 1 \/ ended[c] \in {"fin", "poll"}
      BY <1>1, <2>1 DEF ConnectionOK, NoCon, v
    <3>2. QED
      BY <2>1, <2>2, <3>1 DEF ConnectionOK
  <2>4. QED
    BY <1>2, <1>3, <2>3, PutSame, OneConnection DEF v
<1>4. CASE Gone(c) /\ UNCHANGED <<callbacks, con>>
  BY <1>2, <1>4, NoConnection, PutSame, OneConnection DEF Gone
<1>5. QED
  BY <1>3, <1>4 DEF Lwip

LEMMA NoneKeeps ==
  /\ InitTcp => TcpInv
  /\ RestartTcp => TcpInv'
BY NoConnection DEF InitTcp, RestartTcp, TcpInv

-----------------------------------------------------------------------------
(* The program *)

(* The inductive invariant: those of the servers, and an answer that is    *)
(* about to be used fits.                                                  *)
ApInv ==
  /\ DhcpInv /\ TcpInv
  /\ main \in Stages
  /\ reply \in [Browsers -> Nat]
  /\ ReplyFits

LEMMA NoReplyFits ==
  NoReply \in [Browsers -> Nat] /\ \A c \in Browsers : NoReply[c] <= MAX_DNS_MSG_SIZE
BY DEF NoReply, MAX_DNS_MSG_SIZE

LEMMA InitAp == Init => ApInv
BY InitDhcpInv, NoneKeeps, NoReplyFits DEF Init, ApInv, ReplyFits, Stages

LEMMA StepAp == ApInv /\ [Next]_allVars => ApInv'
<1> SUFFICES ASSUME ApInv, [Next]_allVars PROVE ApInv'
  OBVIOUS
<1>1. ASSUME UNCHANGED dhcpVars PROVE DhcpInv'
  BY <1>1, DhcpStep DEF ApInv
<1>2. ASSUME UNCHANGED tcpVars PROVE TcpInv'
  BY <1>2 DEF ApInv, TcpInv, tcpVars
<1>3. ASSUME UNCHANGED reply PROVE reply' \in [Browsers -> Nat] /\ ReplyFits'
  BY <1>3 DEF ApInv, ReplyFits
<1>4. CASE Main
  <2>1. main' \in Stages
    BY <1>4 DEF Main, Stages
  <2>2. QED
    BY <1>1, <1>2, <1>3, <1>4, <2>1 DEF Main, ApInv
<1>5. CASE Dhcp
  <2>1. DhcpInv'
    BY <1>5, DhcpStep DEF Dhcp, ApInv
  <2>2. reply' \in [Browsers -> Nat] /\ ReplyFits'
    BY <1>5 DEF Dhcp, ApInv, ReplyFits, MAX_DNS_MSG_SIZE
  <2>3. QED
    BY <1>2, <1>5, <2>1, <2>2 DEF Dhcp, ApInv
<1>6. CASE Restart
  <2>1. DhcpInv' /\ TcpInv'
    BY <1>6, DhcpStep, NoneKeeps DEF Restart, ApInv
  <2>2. QED
    BY <1>6, <2>1, NoReplyFits DEF Restart, ApInv, Stages, ReplyFits
<1>7. ASSUME NEW c \in Browsers, Dns(c) PROVE ApInv'
  <2>1. PICK q \in Queries : reply' = Put(reply, c, IF Answered(q) THEN ReplyLen(q) ELSE 0)
    BY <1>7 DEF Dns
  <2> DEFINE n == IF Answered(q) THEN ReplyLen(q) ELSE 0
  <2>2. n \in Nat /\ n <= MAX_DNS_MSG_SIZE
    BY AnswerFits DEF MAX_DNS_MSG_SIZE
  <2> HIDE DEF n
  <2>3. reply' = Put(reply, c, n)
    BY <2>1 DEF n
  <2>4. reply' \in [Browsers -> Nat] /\ ReplyFits'
    BY <2>2, <2>3 DEF Put, ApInv, ReplyFits
  <2>5. QED
    BY <1>1, <1>2, <1>7, <2>4 DEF Dns, ApInv
<1>8. ASSUME NEW c \in Browsers, Connect(c) PROVE ApInv'
  <2>1. TcpInv'
    BY <1>8, AcceptKeeps DEF Connect, ApInv
  <2>2. reply' \in [Browsers -> Nat] /\ ReplyFits'
    BY <1>8 DEF Connect, Put, ApInv, ReplyFits, MAX_DNS_MSG_SIZE
  <2>3. QED
    BY <1>1, <1>8, <2>1, <2>2 DEF Connect, ApInv
<1>9. ASSUME NEW c \in Browsers, Tcp(c) PROVE ApInv'
  <2>1. TcpInv'
    BY <1>9, SentKeeps, RecvKeeps, RecvFinPollKeep, ErrKeeps, LwipKeeps DEF Tcp, ApInv
  <2>2. QED
    BY <1>1, <1>3, <1>9, <2>1 DEF Tcp, apVars, ApInv
<1>10. CASE UNCHANGED allVars
  BY <1>1, <1>2, <1>3, <1>10 DEF allVars, apVars, ApInv
<1>11. QED
  BY <1>4, <1>5, <1>6, <1>7, <1>8, <1>9, <1>10 DEF Next

-----------------------------------------------------------------------------
(* The inductive invariant holds in every state of the program.            *)
THEOREM ApInvariant == Spec => []ApInv
BY InitAp, StepAp, PTL DEF Spec

(* The types of the state, the lengths of all answers among them.          *)
THEOREM ApTypeCorrect == Spec => []TypeOK
<1>1. ApInv => TypeOK
  BY TcpInvConcludes DEF ApInv, DhcpInv, TypeOK
<1>2. QED
  BY <1>1, ApInvariant, PTL

(* No two clients use one address: what the server has left for a lease is *)
(* never less than what its client believes to have, over wraps of the     *)
(* timer, offers made twice and restarts of the server.                    *)
THEOREM ApNoSharedAddress == Spec => []NoSharedAddress
<1>1. ApInv => NoSharedAddress
  BY DhcpInvConcludes DEF ApInv
<1>2. QED
  BY <1>1, ApInvariant, PTL

(* Of a client's leases all but one are of the address it remembers,      *)
(* whatever it loses and however often it asks and the server restarts: so *)
(* it never takes up more than two.                                        *)
THEOREM ApOneLeaseForgotten == Spec => []OneLeaseForgotten
<1>1. ApInv => OneLeaseForgotten
  BY DhcpInvConcludes DEF ApInv
<1>2. QED
  BY <1>1, ApInvariant, PTL

(* An answer of the DNS server fits its buffer, whatever labels, lengths   *)
(* and flags the query has.                                                *)
THEOREM ApReplyFits == Spec => []ReplyFits
<1>1. ApInv => ReplyFits
  BY DEF ApInv
<1>2. QED
  BY <1>1, ApInvariant, PTL

(* The bytes lwIP may send again are still there, unless a second packet   *)
(* came on the connection, or the client or the poll ended it.             *)
THEOREM ApWrittenIsKept == Spec => []WrittenIsKept
<1>1. ApInv => WrittenIsKept
  BY TcpInvConcludes DEF ApInv
<1>2. QED
  BY <1>1, ApInvariant, PTL
=============================================================================
