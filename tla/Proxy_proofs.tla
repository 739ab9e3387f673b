---------------------------- MODULE Proxy_proofs ----------------------------
(***************************************************************************)
(* Proofs about the proxy: TableExact and InOrder are invariants for every *)
(* number of connections, slots and flow numbers.                          *)
(*                                                                         *)
(* The invariant has four parts.  Sound: slots and sockets correspond.     *)
(* Events: an event that is still to be handled is of an open connection,  *)
(* so a flow number read from an event is not yet used again; this is what *)
(* HandleOut and HandleIn rely on.  Streams: for every connection, what    *)
(* waits in its slot and in its socket continues the client's stream right *)
(* after the requests already passed on.  Typed: the rest.                 *)
(*                                                                         *)
(* Most actions change a table in a few ways: a slot or a socket changes   *)
(* but for its place (Like, Data), connections close (Closed), one opens   *)
(* (OpenSlot, FillSlot).  Each way has its lemmas; there is one lemma for  *)
(* each action.                                                            *)
(***************************************************************************)
EXTENDS Proxy, SequenceTheorems, WellFoundedInduction, TLAPS

\* The table of connections and the sockets.
TabType == [ccs : [Slots -> SlotType], sock : [Conns -> SockType]]

\* A message of a queue.
MsgType == [flow : 0..MaxFlow - 1, data : Seq(UnitSet)]

\* An event of epoll_wait.
EvType  == [fd : {ListenFd, UdpFd} \cup Conns, flow : 0..MaxFlow - 1, in : BOOLEAN, out : BOOLEAN]

\* The place of the main loop.
PcType  == [at : {"wait", "events", "accept", "udp", "send", "recv", "ctor"},
            flow : 0..MaxFlow - 1, retry : Int, in : BOOLEAN]

\* The types of the variables but the table.
Typed ==
    /\ flow_ \in 0..MaxFlow - 1 /\ blob \in Seq(UnitSet) /\ pc \in PcType /\ evs \subseteq EvType
    /\ backlog \subseteq Conns /\ udpq \subseteq Grams
    /\ reqq \subseteq MsgType /\ rspq \in Seq(MsgType)
    /\ sent \in [Clients -> Nat] /\ asked \in [Clients -> Seq(Seq(UnitSet))]

\* The table is sound: a slot is free as a whole or holds a flow number that belongs
\* there; the TCP connections of the table and the open sockets correspond, under the
\* same flow number.
Sound(t) ==
    /\ t \in TabType
    /\ \A s \in Slots : IF t.ccs[s].flow = 0 THEN t.ccs[s] = FreeSlot
                        ELSE Slot(t.ccs[s].flow) = s /\ t.ccs[s].sk \in Clients
    /\ \A s \in Slots : t.ccs[s].flow # 0 /\ t.ccs[s].sk \in Conns =>
            t.sock[t.ccs[s].sk].st = "open" /\ t.sock[t.ccs[s].sk].flow = t.ccs[s].flow
    /\ \A c \in Conns : t.sock[c].st = "open" =>
            /\ t.sock[c].flow # 0 /\ t.ccs[Slot(t.sock[c].flow)].flow = t.sock[c].flow
            /\ t.ccs[Slot(t.sock[c].flow)].sk = c

\* Flow number f is that of an open connection with no event left in E.  A round of
\* epoll_wait reports a connection once, so nothing but its own event closes it before
\* that event is handled.
Mine(t, E, f) == \E c \in Conns : t.sock[c].st = "open" /\ t.sock[c].flow = f /\ \A e \in E : e.fd # c

\* The events E still to be handled are those of open connections, at most one each;
\* B are the sockets not yet accepted.  The event in work is of a connection that is
\* open, or, once its data could not be sent, of one that is gone.
Events(t, p, E, B) ==
    /\ \A c \in B : t.sock[c].st = "backlog"
    /\ \A e \in E : e.fd \in Conns => t.sock[e.fd].st = "open" /\ t.sock[e.fd].flow = e.flow
    /\ \A e, d \in E : e.fd = d.fd => e = d
    /\ p.at \in {"wait", "ctor"} => E = {}
    /\ p.at = "send" => Mine(t, E, p.flow)
    /\ p.at = "recv" => Mine(t, E, p.flow) \/ (p.flow # 0 /\ ~Finds(t, p.flow))

\* What has been read of connection c and is not yet a whole request (r of its slot).
Held(t, c) == IF t.sock[c].st = "open" THEN t.ccs[Slot(t.sock[c].flow)].r ELSE <<>>

\* r and then n are what follows the first b units client c sent, of k; b is a whole
\* number of requests, and the requests in ask are among them.
Follows(c, r, n, ask, k) ==
    LET b == k - Len(r) - Len(n) IN
    /\ b \in Nat /\ b % ReqLen = 0 /\ k <= ReqLen * MaxReq
    /\ \A i \in 1..Len(r) : r[i] = Stream(c)[b + i]
    /\ \A i \in 1..Len(n) : n[i] = Stream(c)[b + Len(r) + i]
    /\ \A i \in DOMAIN ask : ReqLen * ask[i][1][2] <= b

\* ask are whole requests of client c, in the order it sent them (InOrder).
Ordered(c, ask) ==
    \A i, j \in DOMAIN ask :
            /\ Len(ask[i]) = ReqLen
            /\ ask[i] \in {Request(Stream(c), n) : n \in 1..MaxReq}
            /\ i < j => ask[i][1][2] < ask[j][1][2]

\* The requests of every connection are in order and its data is complete.
Streams(t, sn, ask) ==
    \A c \in Conns :
        /\ Ordered(c, ask[c])
        /\ t.sock[c].st # "closed" => Follows(c, Held(t, c), t.sock[c].in, ask[c], sn[c])

\* The inductive invariant.
IInv == Typed /\ Sound(tab) /\ Events(tab, pc, evs, backlog) /\ Streams(tab, sent, asked)
----------------------------------------------------------------------------

\* A set of natural numbers has a least element: the induction of this module.
LEMMA Least ==
    ASSUME NEW S, S \subseteq Nat, S # {}
    PROVE  \E x \in S : \A y \in S : x <= y
<1> DEFINE R == OpToRel(<, Nat)
<1>1. IsWellFoundedOn(R, Nat)
  BY NatLessThanWellFounded
<1>2. ASSUME NEW a \in Nat, NEW b \in Nat, a < b PROVE <<a, b>> \in R
  BY <1>2 DEF OpToRel
<1> HIDE DEF R
<1>3. PICK x \in S : \A y \in S : ~(<<y, x>> \in R)
  BY <1>1, WFMin
<1>4. ASSUME NEW y \in S PROVE x <= y
  <2>1. ~(y < x)
    BY <1>2, <1>3
  <2> QED BY <2>1
<1> QED BY <1>4

\* A smaller number is its own remainder.
LEMMA ModSmall == \A a, m \in Nat : a < m => a % m = a
  OBVIOUS
\* A number leaves no remainder by itself.
LEMMA ModSelf == \A m \in Nat \ {0} : m % m = 0
  OBVIOUS
\* A flow number has a slot.
LEMMA SlotRange == \A f \in Nat : Slot(f) \in Slots
  BY ProxyAssumption DEF Slot, Slots
\* The number after a flow number is one: the last is followed by 1.
LEMMA FollowingRange ==
    ASSUME NEW f \in 1..MaxFlow - 1
    PROVE  Following(f) = (IF f = MaxFlow - 1 THEN 1 ELSE f + 1) /\ Following(f) \in 1..MaxFlow - 1
<1>1. MaxFlow \in Nat /\ MaxFlow > 2
  BY ProxyAssumption
<1>2. CASE f = MaxFlow - 1
  <2>1. f + 1 = MaxFlow
    BY <1>1, <1>2
  <2>2. (f + 1) % MaxFlow = 0
    BY <1>1, <2>1, ModSelf
  <2> QED BY <1>1, <1>2, <2>2 DEF Following
<1>3. CASE f # MaxFlow - 1
  <2>1. f + 1 \in Nat /\ f + 1 < MaxFlow
    BY <1>1, <1>3
  <2>2. (f + 1) % MaxFlow = f + 1
    BY <1>1, <2>1, ModSmall
  <2> QED BY <1>1, <1>3, <2>1, <2>2 DEF Following
<1> QED BY <1>2, <1>3

\* The numbers addconn tries are flow numbers.
LEMMA PlacesFcn ==
    ASSUME NEW f \in 1..MaxFlow - 1
    PROVE  Places(f) = [i \in 0..MaxConn - 1 |-> IF i = 0 THEN f ELSE Following(Places(f)[i - 1])]
<1> DEFINE g == [i \in 0..MaxConn - 1 |-> IF f + i <= MaxFlow - 1 THEN f + i ELSE f + i - (MaxFlow - 1)]
           Is(at) == at = [i \in 0..MaxConn - 1 |-> IF i = 0 THEN f ELSE Following(at[i - 1])]
<1>1. Is(g)
  <2>1. ASSUME NEW i \in 0..MaxConn - 1 PROVE g[i] = IF i = 0 THEN f ELSE Following(g[i - 1])
    <3>1. CASE i = 0
      BY <3>1
    <3>2. CASE i # 0
      <4>1. i - 1 \in 0..MaxConn - 1 /\ MaxConn \in Nat /\ MaxFlow \in Nat /\ MaxFlow > MaxConn + 1
        BY <3>2, ProxyAssumption
      <4>2. g[i - 1] = IF f + i - 1 <= MaxFlow - 1 THEN f + i - 1 ELSE f + i - 1 - (MaxFlow - 1)
        BY <4>1
      <4>3. g[i - 1] \in 1..MaxFlow - 1
        BY <4>1, <4>2
      <4>4. Following(g[i - 1]) = IF g[i - 1] = MaxFlow - 1 THEN 1 ELSE g[i - 1] + 1
        BY <4>3, FollowingRange
      <4> QED BY <3>2, <4>1, <4>2, <4>4
    <3> QED BY <3>1, <3>2
  <2> QED BY <2>1
<1>2. \E at : Is(at)
  BY <1>1
<1>3. Places(f) = CHOOSE at : Is(at)
  BY DEF Places
<1> QED BY <1>2, <1>3

\* The numbers addconn tries are flow numbers, by induction along the list.
LEMMA PlacesRange ==
    ASSUME NEW f \in 1..MaxFlow - 1, NEW i \in 0..MaxConn - 1
    PROVE  Places(f)[i] \in 1..MaxFlow - 1
<1> DEFINE B == {j \in 0..MaxConn - 1 : Places(f)[j] \notin 1..MaxFlow - 1}
<1> SUFFICES B = {}
  OBVIOUS
<1> SUFFICES ASSUME B # {} PROVE FALSE
  OBVIOUS
<1>1. MaxConn \in Nat
  BY ProxyAssumption
<1>2. PICK x \in B : \A y \in B : x <= y
  <2>1. B \subseteq Nat
    BY <1>1
  <2> HIDE DEF B
  <2> QED BY <2>1, Least
<1>3. x # 0
  BY <1>1, PlacesFcn
<1>4. x - 1 \in 0..MaxConn - 1 /\ x - 1 \notin B
  BY <1>1, <1>2, <1>3
<1>5. Places(f)[x] = Following(Places(f)[x - 1])
  BY <1>3, PlacesFcn
<1>6. Places(f)[x - 1] \in 1..MaxFlow - 1
  BY <1>4
<1> HIDE DEF B
<1>7. Places(f)[x] \in 1..MaxFlow - 1
  BY <1>5, <1>6, FollowingRange
<1> QED BY <1>2, <1>7 DEF B

\* addconn returns a flow number; its slot is free unless the table is full.
LEMMA FindFlowFacts ==
    ASSUME NEW t, NEW f \in 1..MaxFlow - 1
    PROVE  LET p == FindFlow(t, f) IN
           p.flow \in 1..MaxFlow - 1 /\ (p.ok => t.ccs[Slot(p.flow)].flow = 0)
<1> DEFINE free == {i \in 0..MaxConn - 1 : t.ccs[Slot(Places(f)[i])].flow = 0}
           p == FindFlow(t, f)
<1>0. MaxConn \in Nat \ {0}
  BY ProxyAssumption
<1>1. CASE free = {}
  <2>1. p.ok = FALSE /\ p.flow = Places(f)[MaxConn - 1]
    BY <1>1 DEF FindFlow
  <2>2. MaxConn - 1 \in 0..MaxConn - 1
    BY <1>0, SMTT(30)
  <2> QED BY <2>1, <2>2, PlacesRange
<1>2. CASE free # {}
  <2> DEFINE i == CHOOSE i \in free : \A j \in free : i <= j
  <2>1. p.flow = Places(f)[i]
    BY <1>2 DEF FindFlow
  <2>2. \E x \in free : \A y \in free : x <= y
    <3>1. free \subseteq Nat
      BY <1>0
    <3> HIDE DEF free
    <3> QED BY <1>2, <3>1, Least
  <2>3. i \in free
    BY <2>2
  <2> QED BY <2>1, <2>3, PlacesRange
<1> QED BY <1>1, <1>2

\* The number addconn tries first is a flow number.
LEMMA NextFlowRange == flow_ \in 0..MaxFlow - 1 => NextFlow \in 1..MaxFlow - 1
  BY ProxyAssumption DEF NextFlow

----------------------------------------------------------------------------
\* Table u has the same connections as t, in the same places.
Like(t, u) ==
    /\ u \in TabType
    /\ \A s \in Slots : /\ u.ccs[s].flow = t.ccs[s].flow /\ u.ccs[s].sk = t.ccs[s].sk
                        /\ t.ccs[s].flow = 0 => u.ccs[s] = t.ccs[s]
    /\ \A c \in Conns : u.sock[c].st = t.sock[c].st /\ u.sock[c].flow = t.sock[c].flow

\* ... and the same data waits to be read and handled.
Data(t, u) ==
    /\ \A s \in Slots : u.ccs[s].r = t.ccs[s].r
    /\ \A c \in Conns : u.sock[c].in = t.sock[c].in

\* The table with one slot changed.
SetSlot(t, s, c) == [t EXCEPT !.ccs[s] = c]
\* The table with one socket changed.
SetSock(t, c, k) == [t EXCEPT !.sock[c] = k]

\* Like and Data are reflexive.
LEMMA LikeSelf == ASSUME NEW t \in TabType PROVE Like(t, t) /\ Data(t, t)
BY DEF Like, Data

\* Like and Data are transitive.
LEMMA LikeTrans ==
    ASSUME NEW t, NEW u, NEW v, Like(t, u), Like(u, v)
    PROVE  Like(t, v) /\ (Data(t, u) /\ Data(u, v) => Data(t, v))
BY DEF Like, Data

\* The flow number of a socket has a slot.
LEMMA SockFlow ==
    ASSUME NEW t \in TabType, NEW c \in Conns
    PROVE  t.sock[c].flow \in Nat /\ Slot(t.sock[c].flow) \in Slots
<1>1. t.sock[c].flow \in 0..MaxFlow - 1
  BY DEF TabType, SockType
<1> QED BY <1>1, SlotRange, ProxyAssumption

\* The three parts of the invariant depend on what Like and Data keep.
LEMMA LikeSound ==
    ASSUME NEW t, NEW u, Sound(t), Like(t, u)
    PROVE  Sound(u)
<1>1. t \in TabType /\ u \in TabType
  BY DEF Sound, Like
<1>2. ASSUME NEW c \in Conns, u.sock[c].st = "open"
      PROVE  /\ u.sock[c].flow # 0 /\ u.ccs[Slot(u.sock[c].flow)].flow = u.sock[c].flow
             /\ u.ccs[Slot(u.sock[c].flow)].sk = c
  <2>1. Slot(t.sock[c].flow) \in Slots
    BY <1>1, SockFlow
  <2> QED BY <1>2, <2>1 DEF Sound, Like
<1>3. ASSUME NEW s \in Slots
      PROVE  IF u.ccs[s].flow = 0 THEN u.ccs[s] = FreeSlot
             ELSE Slot(u.ccs[s].flow) = s /\ u.ccs[s].sk \in Clients
  BY DEF Sound, Like
<1>4. ASSUME NEW s \in Slots, u.ccs[s].flow # 0, u.ccs[s].sk \in Conns
      PROVE  u.sock[u.ccs[s].sk].st = "open" /\ u.sock[u.ccs[s].sk].flow = u.ccs[s].flow
  BY <1>4 DEF Sound, Like
<1> QED BY <1>1, <1>2, <1>3, <1>4 DEF Sound

\* Events carries over to a table that is Like.
LEMMA LikeEvents ==
    ASSUME NEW t, NEW u, NEW p \in PcType, NEW E, NEW B, B \subseteq Conns,
           Like(t, u), Events(t, p, E, B)
    PROVE  Events(u, p, E, B)
<1>1. Slot(p.flow) \in Slots
  BY SlotRange, ProxyAssumption DEF PcType
<1>2. Finds(u, p.flow) <=> Finds(t, p.flow)
  BY <1>1 DEF Finds, Like
<1>3. Mine(t, E, p.flow) => Mine(u, E, p.flow)
  BY DEF Mine, Like
<1> QED BY <1>2, <1>3 DEF Events, Like

\* Streams carries over to a table that is Like and holds the same data.
LEMMA DataStreams ==
    ASSUME NEW t, NEW u, NEW sn, NEW ask, t \in TabType, Like(t, u), Data(t, u), Streams(t, sn, ask)
    PROVE  Streams(u, sn, ask)
<1>1. ASSUME NEW c \in Conns PROVE Held(u, c) = Held(t, c)
  <2>1. Slot(t.sock[c].flow) \in Slots
    BY SockFlow
  <2> QED BY <2>1 DEF Held, Like, Data
<1> QED BY <1>1 DEF Streams, Like, Data

\* Changing a slot in use but for its flow number and socket, and changing a socket but
\* for its state and flow number, keeps the connections.
LEMMA SlotSet ==
    ASSUME NEW t \in TabType, NEW s \in Slots, NEW c \in SlotType, t.ccs[s].flow # 0,
           c.flow = t.ccs[s].flow, c.sk = t.ccs[s].sk
    PROVE  Like(t, SetSlot(t, s, c)) /\ (c.r = t.ccs[s].r => Data(t, SetSlot(t, s, c)))
<1> DEFINE u == SetSlot(t, s, c)
<1>1. /\ u \in TabType /\ u.sock = t.sock /\ u.ccs[s] = c
      /\ \A x \in Slots \ {s} : u.ccs[x] = t.ccs[x]
  BY DEF SetSlot, TabType
<1> HIDE DEF u
<1> QED BY <1>1 DEF Like, Data, u

\* Changing a socket but for its state and flow number gives a table that is Like.
LEMMA SockSet ==
    ASSUME NEW t \in TabType, NEW c \in Conns, NEW k \in SockType,
           k.st = t.sock[c].st, k.flow = t.sock[c].flow
    PROVE  Like(t, SetSock(t, c, k)) /\ (k.in = t.sock[c].in => Data(t, SetSock(t, c, k)))
<1> DEFINE u == SetSock(t, c, k)
<1>1. /\ u \in TabType /\ u.ccs = t.ccs /\ u.sock[c] = k
      /\ \A x \in Conns \ {c} : u.sock[x] = t.sock[x]
  BY DEF SetSock, TabType
<1> HIDE DEF u
<1> QED BY <1>1 DEF Like, Data, u

\* Sending (Sent) and CEPollFlow::modify keep the connections and the data.
LEMMA SentLike ==
    ASSUME NEW t \in TabType, NEW sk, NEW n, NEW k
    PROVE  Like(t, Sent(t, sk, n, k)) /\ Data(t, Sent(t, sk, n, k))
<1>1. CASE sk \in Conns /\ k < n
  <2> DEFINE m == [t.sock[sk] EXCEPT !.full = TRUE]
  <2>1. Sent(t, sk, n, k) = SetSock(t, sk, m)
    BY <1>1 DEF Sent, SetSock, TabType
  <2>2. m \in SockType /\ m.st = t.sock[sk].st /\ m.flow = t.sock[sk].flow /\ m.in = t.sock[sk].in
    BY <1>1, ZenonT(30) DEF TabType, SockType
  <2> HIDE DEF m
  <2> QED BY <1>1, <2>1, <2>2, SockSet
<1>2. CASE ~(sk \in Conns /\ k < n)
  BY <1>2, LikeSelf DEF Sent
<1> QED BY <1>1, <1>2

\* modify changes the interest and the edge of one socket only.
LEMMA ModifyLike ==
    ASSUME NEW t \in TabType, NEW c \in Conns, NEW out \in BOOLEAN
    PROVE  Like(t, modify(t, c, out)) /\ Data(t, modify(t, c, out))
<1> DEFINE e == t.sock[c].edge \/ t.sock[c].in # <<>> \/ t.sock[c].eof \/ (out /\ ~t.sock[c].full)
           m == [t.sock[c] EXCEPT !.out = out, !.edge = e]
<1>1. e \in BOOLEAN
  BY DEF TabType, SockType
<1>2. modify(t, c, out) = SetSock(t, c, m)
  BY DEF modify, SetSock, TabType
<1> HIDE DEF e
<1>3. m \in SockType /\ m.st = t.sock[c].st /\ m.flow = t.sock[c].flow /\ m.in = t.sock[c].in
  BY <1>1, ZenonT(30) DEF TabType, SockType
<1> HIDE DEF m
<1> QED BY <1>2, <1>3, SockSet

----------------------------------------------------------------------------
\* The table with the connections in the slots Z closed (closeconn, check_expire).
Closed(t, Z) ==
    [ccs  |-> [s \in Slots |-> IF s \in Z THEN FreeSlot ELSE t.ccs[s]],
     sock |-> [c \in Conns |-> IF \E s \in Z : t.ccs[s].sk = c
                               THEN [NoSock EXCEPT !.st = "closed"] ELSE t.sock[c]]]

\* The slots in use.
Used(t) == {s \in Slots : t.ccs[s].flow # 0}
\* The slot a flow number finds, if any.
SlotOf(t, f) == IF Finds(t, f) THEN {Slot(f)} ELSE {}

\* A free slot and a new or closed socket have their types.
LEMMA FreeTypes ==
    /\ FreeSlot \in SlotType
    /\ NoSock \in SockType
    /\ [NoSock EXCEPT !.st = "closed"] \in SockType
    /\ [NoSock EXCEPT !.st = "closed"].st = "closed"
<1>1. <<>> \in Seq(UnitSet) /\ 0 \in 0..MaxFlow - 1
  BY ProxyAssumption
<1> QED BY <1>1 DEF FreeSlot, NoSock, SlotType, SockType

\* What closing does to each slot and socket.
LEMMA ClosedFields ==
    ASSUME NEW t \in TabType, NEW Z
    PROVE  LET u == Closed(t, Z) IN
           /\ u \in TabType
           /\ \A s \in Slots : u.ccs[s] = IF s \in Z THEN FreeSlot ELSE t.ccs[s]
           /\ \A c \in Conns : /\ (\E s \in Z : t.ccs[s].sk = c) => u.sock[c].st = "closed"
                               /\ (\A s \in Z : t.ccs[s].sk # c) => u.sock[c] = t.sock[c]
<1> DEFINE cl == [NoSock EXCEPT !.st = "closed"]
<1>1. cl \in SockType /\ cl.st = "closed" /\ FreeSlot \in SlotType
  BY FreeTypes
<1> HIDE DEF cl
<1>2. Closed(t, Z) = [ccs  |-> [s \in Slots |-> IF s \in Z THEN FreeSlot ELSE t.ccs[s]],
                      sock |-> [c \in Conns |-> IF \E s \in Z : t.ccs[s].sk = c
                                                THEN cl ELSE t.sock[c]]]
  BY DEF Closed, cl
<1>3. \A s \in Slots : t.ccs[s] \in SlotType
  BY DEF TabType
<1>4. \A c \in Conns : t.sock[c] \in SockType
  BY DEF TabType
<1>5. Closed(t, Z) \in TabType
  BY <1>1, <1>2, <1>3, <1>4 DEF TabType
<1> QED BY <1>1, <1>2, <1>5

\* closeconn closes the slot of the flow number, or nothing.
LEMMA CloseIsClosed ==
    ASSUME NEW t \in TabType, NEW f \in Nat
    PROVE  closeconn(t, f) = Closed(t, SlotOf(t, f))
<1>1. Slot(f) \in Slots
  BY SlotRange
<1>2. CASE ~Finds(t, f)
  BY <1>2 DEF closeconn, Closed, SlotOf, TabType
<1>3. CASE Finds(t, f)
  <2> DEFINE cl == [NoSock EXCEPT !.st = "closed"]
             sk == t.ccs[Slot(f)].sk
  <2>1. SlotOf(t, f) = {Slot(f)}
    BY <1>3 DEF SlotOf
  <2> HIDE DEF cl
  <2>2. closeconn(t, f) = [ccs  |-> [t.ccs EXCEPT ![Slot(f)] = FreeSlot],
                           sock |-> IF sk \in Conns THEN [t.sock EXCEPT ![sk] = cl] ELSE t.sock]
    BY <1>3 DEF closeconn, cl
  <2>3. Closed(t, SlotOf(t, f)) =
            [ccs  |-> [s \in Slots |-> IF s = Slot(f) THEN FreeSlot ELSE t.ccs[s]],
             sock |-> [c \in Conns |-> IF sk = c THEN cl ELSE t.sock[c]]]
    BY <2>1 DEF Closed, cl
  <2>4. [t.ccs EXCEPT ![Slot(f)] = FreeSlot] = [s \in Slots |-> IF s = Slot(f) THEN FreeSlot ELSE t.ccs[s]]
    BY <1>1 DEF TabType
  <2>5. (IF sk \in Conns THEN [t.sock EXCEPT ![sk] = cl] ELSE t.sock)
             = [c \in Conns |-> IF sk = c THEN cl ELSE t.sock[c]]
    BY DEF TabType
  <2> QED BY <2>2, <2>3, <2>4, <2>5
<1> QED BY <1>2, <1>3

\* Closing leaves a sound table: no other slot has the socket.
LEMMA ClosedSound ==
    ASSUME NEW t, Sound(t), NEW Z, Z \subseteq Used(t)
    PROVE  Sound(Closed(t, Z))
<1> DEFINE u == Closed(t, Z)
<1>0. t \in TabType
  BY DEF Sound
<1>1. /\ u \in TabType
      /\ \A s \in Slots : u.ccs[s] = IF s \in Z THEN FreeSlot ELSE t.ccs[s]
      /\ \A c \in Conns : /\ (\E s \in Z : t.ccs[s].sk = c) => u.sock[c].st = "closed"
                          /\ (\A s \in Z : t.ccs[s].sk # c) => u.sock[c] = t.sock[c]
  BY <1>0, ClosedFields
<1> HIDE DEF u
<1>2. FreeSlot.flow = 0
  BY DEF FreeSlot
<1>3. ASSUME NEW s \in Slots
      PROVE  IF u.ccs[s].flow = 0 THEN u.ccs[s] = FreeSlot
             ELSE Slot(u.ccs[s].flow) = s /\ u.ccs[s].sk \in Clients
  BY <1>1, <1>2 DEF Sound
<1>4. ASSUME NEW s \in Slots, u.ccs[s].flow # 0, u.ccs[s].sk \in Conns
      PROVE  u.sock[u.ccs[s].sk].st = "open" /\ u.sock[u.ccs[s].sk].flow = u.ccs[s].flow
  <2>1. s \notin Z /\ u.ccs[s] = t.ccs[s]
    BY <1>1, <1>2, <1>4
  <2> DEFINE c == t.ccs[s].sk
  <2>2. c \in Conns /\ t.sock[c].st = "open" /\ t.sock[c].flow = t.ccs[s].flow /\ Slot(t.ccs[s].flow) = s
    BY <1>4, <2>1 DEF Sound
  <2>3. ASSUME NEW z \in Z PROVE t.ccs[z].sk # c
    <3>1. z \in Slots /\ t.ccs[z].flow # 0 /\ z # s
      BY <2>1 DEF Used
    <3>2. Slot(t.ccs[z].flow) = z
      BY <3>1 DEF Sound
    <3>3. t.ccs[z].sk = c => t.sock[c].flow = t.ccs[z].flow
      BY <2>2, <3>1 DEF Sound
    <3> QED BY <2>2, <3>1, <3>2, <3>3
  <2>4. u.sock[c] = t.sock[c]
    BY <1>1, <2>2, <2>3
  <2> QED BY <2>1, <2>2, <2>4
<1>5. ASSUME NEW c \in Conns, u.sock[c].st = "open"
      PROVE  /\ u.sock[c].flow # 0 /\ u.ccs[Slot(u.sock[c].flow)].flow = u.sock[c].flow
             /\ u.ccs[Slot(u.sock[c].flow)].sk = c
  <2>1. (\A s \in Z : t.ccs[s].sk # c) /\ u.sock[c] = t.sock[c]
    BY <1>1, <1>5
  <2>2. /\ t.sock[c].flow # 0 /\ t.ccs[Slot(t.sock[c].flow)].flow = t.sock[c].flow
        /\ t.ccs[Slot(t.sock[c].flow)].sk = c
    BY <1>5, <2>1 DEF Sound
  <2>3. Slot(t.sock[c].flow) \in Slots
    BY <1>0, SockFlow
  <2> QED BY <1>1, <2>1, <2>2, <2>3
<1> QED BY <1>1, <1>3, <1>4, <1>5 DEF Sound, u

\* Closing connections that have no event left keeps the events right.
LEMMA ClosedEvents ==
    ASSUME NEW t, Sound(t), NEW Z, Z \subseteq Used(t), NEW p, NEW q, NEW E, NEW B, B \subseteq Conns,
           Events(t, p, E, B), \A s \in Z : \A e \in E : e.fd # t.ccs[s].sk,
           q.at # "send", q.at \in {"wait", "ctor"} => E = {},
           q.at = "recv" => q.flow # 0 /\ ~Finds(Closed(t, Z), q.flow)
    PROVE  Events(Closed(t, Z), q, E, B)
<1> DEFINE u == Closed(t, Z)
<1>0. t \in TabType
  BY DEF Sound
<1>1. \A c \in Conns : (\A s \in Z : t.ccs[s].sk # c) => u.sock[c] = t.sock[c]
  BY <1>0, ClosedFields
<1>2. ~Finds(u, q.flow) <=> ~Finds(Closed(t, Z), q.flow)
  OBVIOUS
<1> HIDE DEF u
<1>3. ASSUME NEW c \in B PROVE u.sock[c].st = "backlog"
  <2>1. c \in Conns /\ t.sock[c].st = "backlog"
    BY DEF Events
  <2>2. \A s \in Z : t.ccs[s].sk # c
    BY <2>1 DEF Sound, Used
  <2> QED BY <1>1, <2>1, <2>2
<1>4. ASSUME NEW e \in E, e.fd \in Conns PROVE u.sock[e.fd].st = "open" /\ u.sock[e.fd].flow = e.flow
  BY <1>1, <1>4 DEF Events
<1> QED BY <1>2, <1>3, <1>4 DEF Events, u

\* Closing keeps the streams of the others; of the closed ones only the order of their
\* requests matters.
LEMMA ClosedStreams ==
    ASSUME NEW t, Sound(t), NEW Z, Z \subseteq Used(t), NEW sn, NEW ask, NEW ask2, Streams(t, sn, ask),
           \A c \in Conns : Ordered(c, ask2[c]),
           \A c \in Conns : (\A s \in Z : t.ccs[s].sk # c) => ask2[c] = ask[c]
    PROVE  Streams(Closed(t, Z), sn, ask2)
<1> DEFINE u == Closed(t, Z)
<1>0. t \in TabType
  BY DEF Sound
<1>1. /\ \A s \in Slots : u.ccs[s] = IF s \in Z THEN FreeSlot ELSE t.ccs[s]
      /\ \A c \in Conns : /\ (\E s \in Z : t.ccs[s].sk = c) => u.sock[c].st = "closed"
                          /\ (\A s \in Z : t.ccs[s].sk # c) => u.sock[c] = t.sock[c]
  BY <1>0, ClosedFields
<1> HIDE DEF u
<1>2. ASSUME NEW c \in Conns, u.sock[c].st # "closed"
      PROVE  Follows(c, Held(u, c), u.sock[c].in, ask2[c], sn[c])
  <2>1. (\A s \in Z : t.ccs[s].sk # c) /\ u.sock[c] = t.sock[c] /\ ask2[c] = ask[c]
    BY <1>1, <1>2
  <2>2. Slot(t.sock[c].flow) \in Slots
    BY <1>0, SockFlow
  <2>3. t.sock[c].st = "open" => t.ccs[Slot(t.sock[c].flow)].sk = c
    BY DEF Sound
  <2>4. t.sock[c].st = "open" => u.ccs[Slot(t.sock[c].flow)] = t.ccs[Slot(t.sock[c].flow)]
    BY <1>1, <2>1, <2>2, <2>3
  <2>5. Held(u, c) = Held(t, c)
    BY <2>1, <2>4 DEF Held
  <2>6. Follows(c, Held(t, c), t.sock[c].in, ask[c], sn[c])
    BY <1>2, <2>1 DEF Streams
  <2> QED BY <2>1, <2>5, <2>6
<1> QED BY <1>2 DEF Streams, u

\* A flow number that is found is in use; once closed it is not found.
LEMMA SlotOfUsed ==
    ASSUME NEW t, NEW f \in Nat
    PROVE  SlotOf(t, f) \subseteq Used(t)
BY SlotRange DEF SlotOf, Used, Finds

\* After closeconn the flow number is not found any more.
LEMMA CloseNotFound ==
    ASSUME NEW t \in TabType, NEW f \in Nat
    PROVE  ~Finds(closeconn(t, f), f)
<1>1. Slot(f) \in Slots
  BY SlotRange
<1>2. CASE ~Finds(t, f)
  BY <1>2 DEF closeconn
<1>3. CASE Finds(t, f)
  <2> DEFINE Z == SlotOf(t, f)
  <2>1. Slot(f) \in Z
    BY <1>3 DEF SlotOf
  <2>2. closeconn(t, f) = Closed(t, Z)
    BY CloseIsClosed
  <2> HIDE DEF Z
  <2>3. closeconn(t, f).ccs[Slot(f)] = FreeSlot
    BY <1>1, <2>1, <2>2, ClosedFields
  <2> QED BY <2>3 DEF Finds, FreeSlot
<1> QED BY <1>2, <1>3

----------------------------------------------------------------------------
\* Part of a sequence.
LEMMA SubSeqType ==
    ASSUME NEW S, NEW s \in Seq(S), NEW m \in Nat \ {0}, NEW n \in Nat, n <= Len(s)
    PROVE  /\ SubSeq(s, m, n) \in Seq(S)
           /\ Len(SubSeq(s, m, n)) = IF m <= n THEN n - m + 1 ELSE 0
           /\ \A i \in 1..n - m + 1 : SubSeq(s, m, n)[i] = s[m + i - 1]
<1>1. \A i \in m..n : s[i] \in S
  <2>1. \A i \in 1..Len(s) : s[i] \in S
    BY ElementOfSeq
  <2>2. Len(s) \in Nat
    BY LenProperties
  <2> QED BY <2>1, <2>2
<1>2. m \in Int /\ n \in Int
  OBVIOUS
<1> QED BY <1>1, <1>2, SubSeqProperties

\* Padding has the type of data.
LEMMA JunkType == Junk \in UnitSet
BY DEF UnitSet

\* A blob padded to a length is a sequence of units.
LEMMA PadType ==
    ASSUME NEW s \in Seq(UnitSet), NEW n \in Nat
    PROVE  Pad(s, n) \in Seq(UnitSet)
<1>1. \A i \in 1..Len(s) : s[i] \in UnitSet
  BY ElementOfSeq
<1>2. \A i \in 1..n : (IF i <= Len(s) THEN s[i] ELSE Junk) \in UnitSet
  BY <1>1, JunkType
<1>3. Pad(s, n) \in [1..n -> UnitSet]
  BY <1>2 DEF Pad
<1> QED BY <1>3, SeqDef

\* ator_recvdata_v2 passes on whole requests that were there, and counts as processed at
\* least those and a whole number of requests, or asks to close.
LEMMA HandledFacts ==
    ASSUME NEW data \in Seq(UnitSet), NEW o \in Handled(data)
    PROVE  /\ o.n \in Nat /\ o.ret \in Int /\ 2 * o.n <= Len(data)
           /\ o.ret # -1 => /\ o.ret \in Nat /\ o.ret <= Len(data)
                            /\ 2 * o.n <= o.ret /\ o.ret % 2 = 0
<1> DEFINE len == Len(data)
           whole == len \div 2
<1>1. len \in Nat
  BY LenProperties
<1>2. /\ o.n \in 0..whole /\ o.ret \in -1..len
      /\ \/ o.n = whole /\ o.ret = o.n * 2
         \/ o.n * 2 < len /\ o.ret = -1
         \/ o.n < whole /\ o.ret \in {-1, (o.n + 1) * 2}
  BY DEF Handled, ReqLen
<1> HIDE DEF len
<1>3. whole \in Nat /\ 2 * whole <= len
  BY <1>1
<1> HIDE DEF whole
<1> DEFINE n == o.n
           ret == o.ret
<1>4. /\ n \in 0..whole /\ ret \in -1..len
      /\ \/ n = whole /\ ret = n * 2
         \/ n * 2 < len /\ ret = -1
         \/ n < whole /\ ret \in {-1, (n + 1) * 2}
  BY <1>2
<1> HIDE DEF n, ret
<1>5. /\ n \in Nat /\ ret \in Int /\ 2 * n <= len
      /\ ret # -1 => ret \in Nat /\ ret <= len /\ 2 * n <= ret /\ ret % 2 = 0
  BY <1>1, <1>3, <1>4
<1> QED BY <1>5 DEF n, ret, len

\* The j-th request of the data: two units.
LEMMA RequestType ==
    ASSUME NEW data \in Seq(UnitSet), NEW j \in Nat \ {0}, 2 * j <= Len(data)
    PROVE  /\ Request(data, j) \in Seq(UnitSet) /\ Len(Request(data, j)) = 2
           /\ Request(data, j)[1] = data[2 * j - 1] /\ Request(data, j)[2] = data[2 * j]
<1> DEFINE m == 2 * (j - 1) + 1
           n == 2 * j
<1>1. m \in Nat \ {0} /\ n \in Nat /\ n <= Len(data) /\ n - m + 1 = 2 /\ m + 1 - 1 = 2 * j - 1 /\ m + 2 - 1 = 2 * j
  OBVIOUS
<1>2. Request(data, j) = SubSeq(data, m, n)
  BY DEF Request, ReqLen
<1> HIDE DEF m, n
<1>3. /\ SubSeq(data, m, n) \in Seq(UnitSet)
      /\ Len(SubSeq(data, m, n)) = IF m <= n THEN n - m + 1 ELSE 0
      /\ \A i \in 1..n - m + 1 : SubSeq(data, m, n)[i] = data[m + i - 1]
  BY <1>1, SubSeqType
<1>4. m <= n /\ 1 \in 1..n - m + 1 /\ 2 \in 1..n - m + 1
  BY <1>1
<1>5. SubSeq(data, m, n)[1] = data[m + 1 - 1] /\ SubSeq(data, m, n)[2] = data[m + 2 - 1]
  BY <1>3, <1>4
<1> QED BY <1>1, <1>2, <1>3, <1>4, <1>5

\* The messages to the workers have their type.
LEMMA PassedType ==
    ASSUME NEW f \in 0..MaxFlow - 1, NEW data \in Seq(UnitSet), NEW n \in Nat, 2 * n <= Len(data)
    PROVE  Passed(f, data, n) \subseteq MsgType
<1>0. Len(data) \in Nat
  BY LenProperties
<1>1. ASSUME NEW j \in 1..n PROVE [flow |-> f, data |-> Request(data, j)] \in MsgType
  <2>1. j \in Nat \ {0} /\ 2 * j <= Len(data)
    BY <1>0
  <2>2. Request(data, j) \in Seq(UnitSet)
    BY <2>1, RequestType
  <2> QED BY <2>2 DEF MsgType
<1> QED BY <1>1 DEF Passed

\* So has what buff_blob_ points to.
LEMMA BlobType ==
    ASSUME NEW data \in Seq(UnitSet), NEW o \in Handled(data)
    PROVE  BlobAfter(data, o) \in Seq(UnitSet)
<1>0. Len(data) \in Nat
  BY LenProperties
<1>1. /\ o.n \in Nat /\ o.ret \in Int /\ 2 * o.n <= Len(data)
      /\ o.ret # -1 => o.ret \in Nat
  BY HandledFacts
<1>2. <<>> \in Seq(UnitSet)
  OBVIOUS
<1> DEFINE tl == SubSeq(data, o.n * ReqLen + 1, Len(data))
           rest == IF o.ret = Len(data) THEN <<>> ELSE tl
<1>3. tl \in Seq(UnitSet)
  <2>1. o.n * ReqLen + 1 \in Nat \ {0}
    BY <1>1 DEF ReqLen
  <2> QED BY <1>0, <2>1, SubSeqType
<1> HIDE DEF tl
<1>4. rest \in Seq(UnitSet)
  BY <1>2, <1>3
<1> HIDE DEF rest
<1>5. o.ret > 0 => Pad(rest, o.ret) \in Seq(UnitSet)
  <2>1. o.ret > 0 => o.ret \in Nat
    BY <1>1
  <2> QED BY <1>4, <2>1, PadType
<1>6. Len(data) - o.n * ReqLen \in Nat
  BY <1>0, <1>1 DEF ReqLen
<1>7. Pad(<<>>, Len(data) - o.n * ReqLen) \in Seq(UnitSet)
  BY <1>2, <1>6, PadType
<1>8. BlobAfter(data, o) = CASE ~HasClose -> <<>>
                             [] HasClose /\ o.ret = 0 -> data
                             [] HasClose /\ o.ret > 0 -> Pad(rest, o.ret)
                             [] HasClose /\ o.ret < 0 -> Pad(<<>>, Len(data) - o.n * ReqLen)
  BY DEF BlobAfter, rest, tl
<1>9. HasClose \in BOOLEAN
  BY ProxyAssumption
<1>10. CASE ~HasClose
  BY <1>8, <1>10
<1>11. CASE HasClose /\ o.ret = 0
  BY <1>8, <1>11
<1>12. CASE HasClose /\ o.ret > 0
  BY <1>1, <1>5, <1>8, <1>12
<1>13. CASE HasClose /\ o.ret < 0
  BY <1>7, <1>8, <1>13
<1> QED BY <1>1, <1>9, <1>10, <1>11, <1>12, <1>13

\* The i-th unit a client sends: an odd one begins request (i + 1) / 2.
LEMMA StreamUnit ==
    ASSUME NEW c \in Conns, NEW i \in 1..2 * MaxReq
    PROVE  /\ Stream(c)[i] \in UnitSet
           /\ i % 2 = 1 => Stream(c)[i][2] = (i + 1) \div 2
<1> DEFINE q == ((i - 1) \div 2) + 1
           k == ((i - 1) % 2) + 1
<1>0. MaxReq \in Nat
  BY ProxyAssumption
<1>1. Stream(c)[i] = <<c, q, k>>
  BY DEF Stream, Unit, ReqLen
<1>2. q \in 1..MaxReq + 1 /\ k \in 1..2
  BY <1>0
<1>3. i % 2 = 1 => q = (i + 1) \div 2
  BY <1>0
<1> HIDE DEF q, k
<1>4. <<c, q, k>> \in UnitSet
  BY <1>2 DEF UnitSet, Unit, ReqLen, Clients
<1> QED BY <1>1, <1>3, <1>4

\* All that a client sends is a sequence of units.
LEMMA StreamSeq ==
    ASSUME NEW c \in Conns
    PROVE  Stream(c) \in Seq(UnitSet) /\ Len(Stream(c)) = 2 * MaxReq
<1>0. 2 * MaxReq \in Nat
  BY ProxyAssumption
<1>1. DOMAIN Stream(c) = 1..2 * MaxReq /\ \A i \in 1..2 * MaxReq : Stream(c)[i] \in UnitSet
  BY StreamUnit DEF Stream, ReqLen
<1>2. Stream(c) = [i \in 1..2 * MaxReq |-> Stream(c)[i]]
  BY DEF Stream, ReqLen
<1>3. Stream(c) \in [1..2 * MaxReq -> UnitSet]
  BY <1>1, <1>2
<1> HIDE DEF Stream
<1>4. Stream(c) \in Seq(UnitSet)
  BY <1>0, <1>3, SeqDef
<1> QED BY <1>0, <1>1, <1>4

\* Sequences of length 2 with the same elements are equal.
LEMMA PairEqual ==
    ASSUME NEW S, NEW s \in Seq(S), NEW t \in Seq(S), Len(s) = 2, Len(t) = 2, s[1] = t[1], s[2] = t[2]
    PROVE  s = t
<1>1. \A i \in 1..2 : s[i] = t[i]
  <2>1. \A i \in 1..2 : i = 1 \/ i = 2
    OBVIOUS
  <2> QED BY <2>1
<1> QED BY <1>1, SeqEqual

\* Data that begins after h requests of the client: its j-th request is request h + j of
\* the client.
LEMMA NextRequest ==
    ASSUME NEW c \in Conns, NEW data \in Seq(UnitSet), NEW h \in Nat, 2 * h + Len(data) <= 2 * MaxReq,
           \A i \in 1..Len(data) : data[i] = Stream(c)[2 * h + i],
           NEW j \in Nat \ {0}, 2 * j <= Len(data)
    PROVE  /\ Len(Request(data, j)) = 2 /\ Request(data, j)[1][2] = h + j
           /\ h + j \in 1..MaxReq /\ Request(data, j) = Request(Stream(c), h + j)
           /\ Request(data, j) \in Seq(UnitSet)
<1>0. Len(data) \in Nat /\ MaxReq \in Nat
  BY LenProperties, ProxyAssumption
<1>1. h + j \in Nat \ {0} /\ h + j <= MaxReq /\ 2 * (h + j) <= 2 * MaxReq
  BY <1>0
<1>2. /\ Request(data, j) \in Seq(UnitSet) /\ Len(Request(data, j)) = 2
      /\ Request(data, j)[1] = data[2 * j - 1] /\ Request(data, j)[2] = data[2 * j]
  BY RequestType
<1>3. Stream(c) \in Seq(UnitSet) /\ Len(Stream(c)) = 2 * MaxReq
  BY StreamSeq
<1> DEFINE q == h + j
<1>4. q \in Nat \ {0} /\ 2 * q <= Len(Stream(c))
  BY <1>1, <1>3
<1>5. /\ Request(Stream(c), q) \in Seq(UnitSet) /\ Len(Request(Stream(c), q)) = 2
      /\ Request(Stream(c), q)[1] = Stream(c)[2 * q - 1] /\ Request(Stream(c), q)[2] = Stream(c)[2 * q]
  <2> HIDE DEF q
  <2> QED BY <1>3, <1>4, RequestType
<1>6. 2 * j - 1 \in 1..Len(data) /\ 2 * j \in 1..Len(data)
  BY <1>0
<1>7. 2 * h + (2 * j - 1) = 2 * q - 1 /\ 2 * h + 2 * j = 2 * q
  OBVIOUS
<1>8. data[2 * j - 1] = Stream(c)[2 * q - 1] /\ data[2 * j] = Stream(c)[2 * q]
  <2> HIDE DEF q
  <2>1. data[2 * j - 1] = Stream(c)[2 * h + (2 * j - 1)]
    BY <1>6
  <2>2. data[2 * j] = Stream(c)[2 * h + 2 * j]
    BY <1>6
  <2> QED BY <1>7, <2>1, <2>2
<1>9. Request(data, j) = Request(Stream(c), q)
  <2> HIDE DEF q
  <2> QED BY <1>2, <1>5, <1>8, PairEqual
<1>10. 2 * q - 1 \in 1..2 * MaxReq /\ (2 * q - 1) % 2 = 1 /\ (2 * q - 1 + 1) \div 2 = q
  BY <1>0, <1>1
<1>11. Stream(c)[2 * q - 1][2] = q
  <2> HIDE DEF q
  <2> QED BY <1>10, StreamUnit
<1> QED BY <1>0, <1>1, <1>2, <1>8, <1>9, <1>11

\* What is left of a sequence after k elements, and its first k elements.
LEMMA RestOf ==
    ASSUME NEW s \in Seq(UnitSet), NEW k \in Nat, k <= Len(s)
    PROVE  /\ SubSeq(s, k + 1, Len(s)) \in Seq(UnitSet)
           /\ Len(SubSeq(s, k + 1, Len(s))) = Len(s) - k
           /\ \A i \in 1..Len(s) - k : SubSeq(s, k + 1, Len(s))[i] = s[k + i]
<1> DEFINE u == SubSeq(s, k + 1, Len(s))
           l == Len(s)
<1>1. l \in Nat
  BY LenProperties
<1>2. k + 1 \in Nat \ {0} /\ l <= Len(s)
  BY <1>1
<1>3. /\ u \in Seq(UnitSet)
      /\ Len(u) = IF k + 1 <= l THEN l - (k + 1) + 1 ELSE 0
      /\ \A i \in 1..l - (k + 1) + 1 : u[i] = s[k + 1 + i - 1]
  BY <1>1, <1>2, SubSeqType, SMTT(30)
<1>4. l - (k + 1) + 1 = l - k /\ \A i \in Int : k + 1 + i - 1 = k + i
  BY <1>1
<1>5. k + 1 <= l \/ l - k = 0
  BY <1>1
<1> HIDE DEF u
<1>6. Len(u) = l - k
  BY <1>3, <1>4, <1>5
<1> HIDE DEF l
<1>7. \A i \in 1..l - k : u[i] = s[k + i]
  BY <1>1, <1>3, <1>4
<1> QED BY <1>3, <1>6, <1>7 DEF u, l

\* The first k units of a sequence.
LEMMA FirstOf ==
    ASSUME NEW s \in Seq(UnitSet), NEW k \in Nat, k <= Len(s)
    PROVE  /\ SubSeq(s, 1, k) \in Seq(UnitSet) /\ Len(SubSeq(s, 1, k)) = k
           /\ \A i \in 1..k : SubSeq(s, 1, k)[i] = s[i]
<1> DEFINE u == SubSeq(s, 1, k)
<1>1. /\ u \in Seq(UnitSet)
      /\ Len(u) = IF 1 <= k THEN k - 1 + 1 ELSE 0
      /\ \A i \in 1..k - 1 + 1 : u[i] = s[1 + i - 1]
  <2>1. 1 \in Nat \ {0}
    OBVIOUS
  <2> QED BY <2>1, SubSeqType
<1>2. k - 1 + 1 = k /\ \A i \in Int : 1 + i - 1 = i
  OBVIOUS
<1> HIDE DEF u
<1>3. \A i \in 1..k : u[i] = s[i]
  BY <1>1, <1>2
<1> QED BY <1>1, <1>2, <1>3 DEF u

\* s is what the client sends after its first b units.
FromStream(s, c, b) == \A i \in 1..Len(s) : s[i] = Stream(c)[b + i]

\* The data handed to ator_recvdata_v2 after a read of k units.
DataIn(r, n, k) == r \o SubSeq(n, 1, k)
\* The requests passed on when ator_recvdata_v2 has passed m of data.
AskedIn(ask, data, m) == ask \o [j \in 1..m |-> Request(data, j)]

\* What was kept and what is read now follow each other in the stream.
LEMMA DataOfStream ==
    ASSUME NEW c, NEW r \in Seq(UnitSet), NEW n \in Seq(UnitSet), NEW b \in Nat, NEW k \in Nat, k <= Len(n),
           FromStream(r, c, b), FromStream(n, c, b + Len(r))
    PROVE  /\ DataIn(r, n, k) \in Seq(UnitSet) /\ Len(DataIn(r, n, k)) = Len(r) + k
           /\ FromStream(DataIn(r, n, k), c, b)
<1> DEFINE u == SubSeq(n, 1, k)
           data == r \o u
<1>0. Len(r) \in Nat /\ Len(n) \in Nat
  BY LenProperties
<1>1. u \in Seq(UnitSet) /\ Len(u) = k /\ \A i \in 1..k : u[i] = n[i]
  BY FirstOf
<1> HIDE DEF u
<1>2. /\ data \in Seq(UnitSet) /\ Len(data) = Len(r) + k
      /\ \A i \in 1..Len(r) + k : data[i] = IF i <= Len(r) THEN r[i] ELSE u[i - Len(r)]
  BY <1>1, ConcatProperties
<1> HIDE DEF data
<1>3. ASSUME NEW i \in 1..Len(data) PROVE data[i] = Stream(c)[b + i]
  <2>1. CASE i <= Len(r)
    BY <1>0, <1>2, <2>1, SMTT(30) DEF FromStream
  <2>2. CASE i > Len(r)
    <3>1. i - Len(r) \in 1..k /\ i - Len(r) \in 1..Len(n) /\ b + Len(r) + (i - Len(r)) = b + i
      BY <1>0, <1>2, <2>2
    <3>2. data[i] = n[i - Len(r)]
      BY <1>0, <1>1, <1>2, <2>2, <3>1
    <3>3. n[i - Len(r)] = Stream(c)[b + Len(r) + (i - Len(r))]
      BY <3>1 DEF FromStream
    <3> QED BY <3>1, <3>2, <3>3
  <2> QED BY <1>0, <2>1, <2>2
<1>4. FromStream(data, c, b)
  BY <1>3 DEF FromStream
<1> QED BY <1>2, <1>4 DEF data, u, DataIn

\* The requests passed on after a read continue those passed on before.
LEMMA AskMore ==
    ASSUME NEW c \in Conns, NEW ask \in Seq(Seq(UnitSet)), Ordered(c, ask), NEW h \in Nat, NEW m \in Nat,
           \A i \in DOMAIN ask : 2 * ask[i][1][2] <= 2 * h,
           NEW data \in Seq(UnitSet), 2 * h + Len(data) <= 2 * MaxReq, 2 * m <= Len(data),
           \A i \in 1..Len(data) : data[i] = Stream(c)[2 * h + i]
    PROVE  LET ask2 == AskedIn(ask, data, m) IN
           /\ ask2 \in Seq(Seq(UnitSet)) /\ Ordered(c, ask2)
           /\ \A i \in DOMAIN ask2 : 2 * ask2[i][1][2] <= 2 * h + 2 * m
<1> DEFINE new == [j \in 1..m |-> Request(data, j)]
           ask2 == ask \o new
           Good(q) == Len(q) = 2 /\ q \in {Request(Stream(c), x) : x \in 1..MaxReq}
<1>1. Len(data) \in Nat /\ Len(ask) \in Nat /\ MaxReq \in Nat
  BY LenProperties, ProxyAssumption
<1>2. ASSUME NEW j \in 1..m
      PROVE  Request(data, j) \in Seq(UnitSet) /\ Good(Request(data, j)) /\ Request(data, j)[1][2] = h + j
  <2>1. j \in Nat \ {0} /\ 2 * j <= Len(data)
    BY <1>1
  <2>2. /\ Len(Request(data, j)) = 2 /\ Request(data, j)[1][2] = h + j
        /\ h + j \in 1..MaxReq /\ Request(data, j) = Request(Stream(c), h + j)
        /\ Request(data, j) \in Seq(UnitSet)
    BY <2>1, NextRequest
  <2> QED BY <2>2
<1>3. ASSUME NEW i \in 1..Len(ask)
      PROVE  Good(ask[i]) /\ ask[i][1][2] \in Nat /\ ask[i][1][2] <= h
  <2>0. DOMAIN ask = 1..Len(ask)
    BY LenProperties
  <2>1. Good(ask[i])
    BY <2>0 DEF Ordered, ReqLen
  <2>2. PICK x \in 1..MaxReq : ask[i] = Request(Stream(c), x)
    BY <2>1
  <2>3. Request(Stream(c), x)[1][2] = x
    <3>1. Stream(c) \in Seq(UnitSet) /\ Len(Stream(c)) = 2 * MaxReq
      BY StreamSeq
    <3>2. x \in Nat \ {0} /\ 2 * x <= Len(Stream(c))
      BY <1>1, <3>1
    <3>3. Request(Stream(c), x)[1] = Stream(c)[2 * x - 1]
      BY <3>1, <3>2, RequestType
    <3>4. 2 * x - 1 \in 1..2 * MaxReq /\ (2 * x - 1) % 2 = 1 /\ (2 * x - 1 + 1) \div 2 = x
      BY <1>1
    <3> QED BY <3>3, <3>4, StreamUnit
  <2>4. 2 * x <= 2 * h
    BY <2>0, <2>2, <2>3
  <2>5. x \in Nat /\ x <= h
    BY <1>1, <2>4
  <2> QED BY <2>1, <2>2, <2>3, <2>5
<1>4. new \in Seq(Seq(UnitSet)) /\ Len(new) = m /\ \A j \in 1..m : new[j] = Request(data, j)
  <2>1. new \in [1..m -> Seq(UnitSet)]
    BY <1>2
  <2>2. new \in Seq(Seq(UnitSet))
    BY <2>1, SeqDef
  <2>3. DOMAIN new = 1..m /\ \A j \in 1..m : new[j] = Request(data, j)
    OBVIOUS
  <2> HIDE DEF new
  <2>4. Len(new) = m
    BY <2>2, <2>3, LenProperties
  <2> QED BY <2>2, <2>3, <2>4
<1> HIDE DEF new, Good
<1>5. /\ ask2 \in Seq(Seq(UnitSet)) /\ Len(ask2) = Len(ask) + m
      /\ \A i \in 1..Len(ask) + m : ask2[i] = IF i <= Len(ask) THEN ask[i] ELSE new[i - Len(ask)]
  BY <1>4, ConcatProperties, ZenonT(30)
<1>6. DOMAIN ask2 = 1..Len(ask) + m
  BY <1>5, LenProperties
<1> HIDE DEF ask2
<1> DEFINE v(i) == ask2[i][1][2]
           l == Len(ask)
<1>7. ASSUME NEW i \in 1..l + m, i <= l
      PROVE  Good(ask2[i]) /\ v(i) \in Nat /\ v(i) <= h /\ ask2[i] = ask[i] /\ i \in 1..l
  <2>1. i \in 1..l /\ ask2[i] = ask[i]
    BY <1>1, <1>5, <1>7, SMTT(30)
  <2> QED BY <1>3, <2>1
<1>8. ASSUME NEW i \in 1..l + m, i > l PROVE Good(ask2[i]) /\ v(i) = h + i - l
  <2>1. i - l \in 1..m /\ ~(i <= l)
    BY <1>1, <1>8
  <2>2. ask2[i] = Request(data, i - l)
    BY <1>4, <1>5, <2>1
  <2> QED BY <1>1, <1>2, <2>1, <2>2
<1>9. ASSUME NEW i \in 1..l + m PROVE Good(ask2[i]) /\ 2 * v(i) <= 2 * h + 2 * m
  <2> HIDE DEF v
  <2>1. CASE i <= l
    BY <1>7, <2>1, SMTT(30)
  <2>2. CASE i > l
    BY <1>1, <1>8, <2>2
  <2> QED BY <1>1, <2>1, <2>2
<1>10. ASSUME NEW i \in 1..l + m, NEW j \in 1..l + m, i < j PROVE v(i) < v(j)
  <2>1. CASE j <= l
    <3>1. i <= l
      BY <1>1, <1>10, <2>1
    <3>2. ask2[i] = ask[i] /\ ask2[j] = ask[j] /\ i \in 1..l /\ j \in 1..l
      BY <1>7, <2>1, <3>1
    <3>3. DOMAIN ask = 1..l
      BY LenProperties
    <3> QED BY <1>10, <3>2, <3>3 DEF Ordered
  <2>2. CASE i <= l /\ j > l
    <3> HIDE DEF v
    <3> QED BY <1>1, <1>7, <1>8, <2>2
  <2>3. CASE i > l /\ j > l
    <3> HIDE DEF v
    <3>1. v(i) = h + i - l /\ v(j) = h + j - l
      BY <1>8, <2>3
    <3> QED BY <1>1, <1>10, <3>1
  <2> QED BY <1>1, <1>10, <2>1, <2>2, <2>3
<1>11. Ordered(c, ask2)
  BY <1>6, <1>9, <1>10 DEF Ordered, ReqLen, Good
<1> QED BY <1>5, <1>6, <1>9, <1>11 DEF ask2, new, AskedIn

\* A position behind the first m of l units, and the same position in the stream.
LEMMA Shifted ==
    ASSUME NEW l \in Nat, NEW m \in Nat, NEW x \in Int, NEW i \in 1..l - m
    PROVE  m + i \in 1..l /\ x + (m + i) = x + m + i
OBVIOUS

\* What is kept after a read and what is left in the socket continue the stream.
LEMMA RestFollows ==
    ASSUME NEW c, NEW data \in Seq(UnitSet), NEW n \in Seq(UnitSet), NEW b \in Nat, b % 2 = 0,
           NEW k \in Nat, k <= Len(n), NEW ret \in Nat, ret <= Len(data), ret % 2 = 0,
           NEW sn \in Nat, sn <= 2 * MaxReq, sn = b + Len(data) - k + Len(n),
           \A i \in 1..Len(data) : data[i] = Stream(c)[b + i],
           \A i \in 1..Len(n) : n[i] = Stream(c)[b + Len(data) - k + i],
           NEW ask, \A i \in DOMAIN ask : 2 * ask[i][1][2] <= b + ret
    PROVE  Follows(c, SubSeq(data, ret + 1, Len(data)), SubSeq(n, k + 1, Len(n)), ask, sn)
<1> DEFINE r2 == SubSeq(data, ret + 1, Len(data))
           n2 == SubSeq(n, k + 1, Len(n))
           b2 == sn - Len(r2) - Len(n2)
<1>0. Len(data) \in Nat /\ Len(n) \in Nat
  BY LenProperties
<1>1. /\ r2 \in Seq(UnitSet) /\ Len(r2) = Len(data) - ret
      /\ \A i \in 1..Len(data) - ret : r2[i] = data[ret + i]
  BY RestOf
<1>2. /\ n2 \in Seq(UnitSet) /\ Len(n2) = Len(n) - k
      /\ \A i \in 1..Len(n) - k : n2[i] = n[k + i]
  BY RestOf
<1> HIDE DEF r2, n2
<1>3. b2 = b + ret
  BY <1>0, <1>1, <1>2
<1> HIDE DEF b2
<1>4. b2 \in Nat /\ b2 % 2 = 0
  BY <1>3
<1>5. ASSUME NEW i \in 1..Len(r2) PROVE r2[i] = Stream(c)[b2 + i]
  <2>0. i \in 1..Len(data) - ret
    BY <1>1
  <2>1. ret + i \in 1..Len(data) /\ b + (ret + i) = b2 + i
    BY <1>0, <1>3, <2>0, Shifted
  <2>2. data[ret + i] = Stream(c)[b + (ret + i)]
    BY <2>1
  <2> QED BY <1>1, <2>0, <2>1, <2>2
<1>6. ASSUME NEW i \in 1..Len(n2) PROVE n2[i] = Stream(c)[b2 + Len(r2) + i]
  <2>1. k + i \in 1..Len(n) /\ b + Len(data) - k + (k + i) = b2 + Len(r2) + i /\ i \in 1..Len(n) - k
    BY <1>0, <1>1, <1>2, <1>3
  <2>2. n[k + i] = Stream(c)[b + Len(data) - k + (k + i)]
    BY <2>1
  <2> QED BY <1>2, <2>1, <2>2
<1>7. \A i \in DOMAIN ask : 2 * ask[i][1][2] <= b2
  BY <1>3
<1> QED BY <1>4, <1>5, <1>6, <1>7 DEF Follows, ReqLen, r2, n2, b2

\* One read keeps the stream of the connection right (HandleIn).
LEMMA ReadStream ==
    ASSUME NEW c \in Conns, NEW r \in Seq(UnitSet), NEW n \in Seq(UnitSet), NEW ask \in Seq(Seq(UnitSet)),
           NEW sn \in Nat, Follows(c, r, n, ask, sn), Ordered(c, ask), NEW k \in 0..Len(n),
           NEW o \in Handled(DataIn(r, n, k))
    PROVE  LET data == DataIn(r, n, k)
               ask2 == AskedIn(ask, data, o.n) IN
           /\ data \in Seq(UnitSet) /\ ask2 \in Seq(Seq(UnitSet)) /\ Ordered(c, ask2)
           /\ o.ret # -1 => Follows(c, SubSeq(data, o.ret + 1, Len(data)), SubSeq(n, k + 1, Len(n)),
                                    ask2, sn)
<1> DEFINE b == sn - Len(r) - Len(n)
           h == b \div 2
           data == DataIn(r, n, k)
           ask2 == AskedIn(ask, data, o.n)
<1>1. Len(r) \in Nat /\ Len(n) \in Nat /\ MaxReq \in Nat
  BY LenProperties, ProxyAssumption
<1>2. b \in Nat /\ b % 2 = 0 /\ sn <= 2 * MaxReq
  BY DEF Follows, ReqLen
<1>3. /\ \A i \in 1..Len(r) : r[i] = Stream(c)[b + i]
      /\ \A i \in 1..Len(n) : n[i] = Stream(c)[b + Len(r) + i]
      /\ \A i \in DOMAIN ask : 2 * ask[i][1][2] <= b
  BY DEF Follows, ReqLen
<1>4. sn = b + Len(r) + Len(n)
  BY <1>1
<1> HIDE DEF b
<1>5. h \in Nat /\ b = 2 * h
  BY <1>2
<1> HIDE DEF h
<1>6. k \in Nat /\ k <= Len(n)
  BY <1>1
<1>7. /\ data \in Seq(UnitSet) /\ Len(data) = Len(r) + k
      /\ \A i \in 1..Len(data) : data[i] = Stream(c)[b + i]
  <2>1. FromStream(r, c, b) /\ FromStream(n, c, b + Len(r))
    BY <1>3 DEF FromStream
  <2>2. data \in Seq(UnitSet) /\ Len(data) = Len(r) + k /\ FromStream(data, c, b)
    BY <1>2, <1>6, <2>1, DataOfStream
  <2> QED BY <2>2 DEF FromStream
<1>8. o \in Handled(data)
  OBVIOUS
<1> HIDE DEF data
<1>9. /\ o.n \in Nat /\ o.ret \in Int /\ 2 * o.n <= Len(data)
      /\ o.ret # -1 => /\ o.ret \in Nat /\ o.ret <= Len(data)
                       /\ 2 * o.n <= o.ret /\ o.ret % 2 = 0
  BY <1>7, <1>8, HandledFacts
<1>10. 2 * h + Len(data) <= 2 * MaxReq
  BY <1>1, <1>2, <1>4, <1>5, <1>6, <1>7
<1>11. /\ ask2 \in Seq(Seq(UnitSet)) /\ Ordered(c, ask2)
       /\ \A i \in DOMAIN ask2 : 2 * ask2[i][1][2] <= 2 * h + 2 * o.n
  BY <1>3, <1>5, <1>7, <1>9, <1>10, AskMore, ZenonT(30)
<1>12. ASSUME NEW i \in DOMAIN ask2 PROVE ask2[i][1][2] \in Nat
  <2>1. PICK x \in 1..MaxReq : ask2[i] = Request(Stream(c), x)
    <3> HIDE DEF ask2
    <3> QED BY <1>11 DEF Ordered
  <2>2. Stream(c) \in Seq(UnitSet) /\ Len(Stream(c)) = 2 * MaxReq
    BY StreamSeq
  <2>3. x \in Nat \ {0} /\ 2 * x <= Len(Stream(c))
    BY <1>1, <2>2
  <2>4. Request(Stream(c), x)[1] = Stream(c)[2 * x - 1]
    BY <2>2, <2>3, RequestType
  <2>5. 2 * x - 1 \in 1..2 * MaxReq /\ (2 * x - 1) % 2 = 1 /\ (2 * x - 1 + 1) \div 2 = x
    BY <1>1
  <2>6. Stream(c)[2 * x - 1][2] = x
    BY <2>5, StreamUnit
  <2> HIDE DEF ask2
  <2> QED BY <2>1, <2>3, <2>4, <2>6
<1> HIDE DEF ask2
<1>13. ASSUME o.ret # -1
       PROVE  Follows(c, SubSeq(data, o.ret + 1, Len(data)), SubSeq(n, k + 1, Len(n)), ask2, sn)
  <2> DEFINE ret == o.ret
  <2>1. ret \in Nat /\ ret <= Len(data) /\ ret % 2 = 0 /\ 2 * o.n <= ret
    BY <1>9, <1>13
  <2> HIDE DEF ret
  <2>2. ASSUME NEW i \in DOMAIN ask2 PROVE 2 * ask2[i][1][2] <= b + ret
    <3>1. 2 * ask2[i][1][2] <= 2 * h + 2 * o.n /\ ask2[i][1][2] \in Nat
      BY <1>11, <1>12
    <3> DEFINE v == ask2[i][1][2]
               m == o.n
    <3>2. 2 * v <= 2 * h + 2 * m /\ v \in Nat /\ m \in Nat /\ 2 * m <= ret
      BY <1>9, <2>1, <3>1
    <3> HIDE DEF v, m
    <3>3. 2 * v <= b + ret
      BY <1>5, <2>1, <3>2
    <3> QED BY <3>3 DEF v
  <2>3. Len(r) = Len(data) - k /\ b + Len(data) - k = b + Len(r)
    BY <1>1, <1>2, <1>6, <1>7
  <2>4. sn = b + Len(data) - k + Len(n)
    BY <1>1, <1>4, <2>3
  <2>5. \A i \in 1..Len(n) : n[i] = Stream(c)[b + Len(data) - k + i]
    BY <1>3, <2>3
  <2>6. Follows(c, SubSeq(data, ret + 1, Len(data)), SubSeq(n, k + 1, Len(n)), ask2, sn)
    BY <1>2, <1>6, <1>7, <2>1, <2>2, <2>4, <2>5, RestFollows
  <2> QED BY <2>6 DEF ret
<1> QED BY <1>7, <1>11, <1>13 DEF data, ask2

\* What the client sends is the continuation of its stream (ClientSend).
LEMMA SendStream ==
    ASSUME NEW c \in Conns, NEW r \in Seq(UnitSet), NEW n \in Seq(UnitSet), NEW ask, NEW sn \in Nat,
           NEW k \in Nat, sn + k <= 2 * MaxReq, Follows(c, r, n, ask, sn)
    PROVE  LET n2 == n \o SubSeq(Stream(c), sn + 1, sn + k) IN
           n2 \in Seq(UnitSet) /\ Follows(c, r, n2, ask, sn + k)
<1> DEFINE u == SubSeq(Stream(c), sn + 1, sn + k)
           n2 == n \o u
           b == sn - Len(r) - Len(n)
           b2 == sn + k - Len(r) - Len(n2)
<1>1. Len(r) \in Nat /\ Len(n) \in Nat /\ MaxReq \in Nat
  BY LenProperties, ProxyAssumption
<1>2. Stream(c) \in Seq(UnitSet) /\ Len(Stream(c)) = 2 * MaxReq
  BY StreamSeq
<1>3. u \in Seq(UnitSet) /\ Len(u) = k /\ \A i \in 1..k : u[i] = Stream(c)[sn + i]
  <2>1. sn + 1 \in Nat \ {0} /\ sn + k \in Nat /\ sn + k <= Len(Stream(c))
    BY <1>2
  <2>2. /\ u \in Seq(UnitSet)
        /\ Len(u) = IF sn + 1 <= sn + k THEN sn + k - (sn + 1) + 1 ELSE 0
        /\ \A i \in 1..sn + k - (sn + 1) + 1 : u[i] = Stream(c)[sn + 1 + i - 1]
    BY <1>2, <2>1, SubSeqType
  <2> HIDE DEF u
  <2>3. sn + k - (sn + 1) + 1 = k /\ \A i \in Int : sn + 1 + i - 1 = sn + i
    OBVIOUS
  <2>4. Len(u) = k
    BY <2>2, <2>3
  <2>5. \A i \in 1..k : u[i] = Stream(c)[sn + i]
    BY <2>2, <2>3
  <2> QED BY <2>2, <2>4, <2>5
<1> HIDE DEF u
<1>4. /\ n2 \in Seq(UnitSet) /\ Len(n2) = Len(n) + k
      /\ \A i \in 1..Len(n) + k : n2[i] = IF i <= Len(n) THEN n[i] ELSE u[i - Len(n)]
  BY <1>3, ConcatProperties
<1> HIDE DEF n2
<1>5. b \in Nat /\ b % 2 = 0
  BY DEF Follows, ReqLen
<1>6. b2 = b /\ sn = b + Len(r) + Len(n)
  BY <1>1, <1>4
<1>7. /\ \A i \in 1..Len(r) : r[i] = Stream(c)[b + i]
      /\ \A i \in 1..Len(n) : n[i] = Stream(c)[b + Len(r) + i]
      /\ \A i \in DOMAIN ask : 2 * ask[i][1][2] <= b
  BY DEF Follows, ReqLen
<1> HIDE DEF b, b2
<1>8. ASSUME NEW i \in 1..Len(n2) PROVE n2[i] = Stream(c)[b + Len(r) + i]
  <2>1. CASE i <= Len(n)
    BY <1>1, <1>4, <1>7, <2>1
  <2>2. CASE i > Len(n)
    <3>1. i - Len(n) \in 1..k /\ sn + (i - Len(n)) = b + Len(r) + i /\ i \in 1..Len(n) + k /\ ~(i <= Len(n))
      BY <1>1, <1>4, <1>5, <1>6, <2>2
    <3>2. n2[i] = u[i - Len(n)]
      BY <1>4, <3>1
    <3>3. u[i - Len(n)] = Stream(c)[sn + (i - Len(n))]
      BY <1>3, <3>1
    <3> QED BY <3>1, <3>2, <3>3
  <2> QED BY <1>1, <1>4, <2>1, <2>2
<1>9. Follows(c, r, n2, ask, sn + k)
  <2>1. /\ b2 \in Nat /\ b2 % 2 = 0 /\ sn + k <= 2 * MaxReq
        /\ \A i \in 1..Len(r) : r[i] = Stream(c)[b2 + i]
        /\ \A i \in 1..Len(n2) : n2[i] = Stream(c)[b2 + Len(r) + i]
        /\ \A i \in DOMAIN ask : 2 * ask[i][1][2] <= b2
    BY <1>5, <1>6, <1>7, <1>8
  <2> QED BY <2>1 DEF Follows, ReqLen, b2
<1> QED BY <1>4, <1>9 DEF n2, u
----------------------------------------------------------------------------
\* The table after a read: n2 is left in the socket, r2 is kept.
TableRead(t, c, s, n2, r2) ==
    SetSlot(SetSock(t, c, [t.sock[c] EXCEPT !.in = n2]), s, [t.ccs[s] EXCEPT !.r = r2])

\* A read changes the data of its connection only.
LEMMA ReadTable ==
    ASSUME NEW t, Sound(t), NEW c \in Conns, t.sock[c].st = "open", NEW s, s = Slot(t.sock[c].flow),
           NEW r2 \in Seq(UnitSet), NEW n2 \in Seq(UnitSet)
    PROVE  LET u == TableRead(t, c, s, n2, r2) IN
           /\ Like(t, u) /\ Held(u, c) = r2 /\ u.sock[c].in = n2
           /\ \A d \in Conns \ {c} : Held(u, d) = Held(t, d) /\ u.sock[d] = t.sock[d]
<1> DEFINE m == [t.sock[c] EXCEPT !.in = n2]
           a == [t.ccs[s] EXCEPT !.r = r2]
           v == SetSock(t, c, m)
           u == SetSlot(v, s, a)
<1>1. t \in TabType /\ s \in Slots
  BY SockFlow DEF Sound
<1>2. t.ccs[s].sk = c /\ t.ccs[s].flow # 0
  BY <1>1 DEF Sound
<1>3. m \in SockType /\ m.st = t.sock[c].st /\ m.flow = t.sock[c].flow /\ m.in = n2
  BY <1>1, ZenonT(30) DEF TabType, SockType
<1>4. a \in SlotType /\ a.flow = t.ccs[s].flow /\ a.sk = t.ccs[s].sk /\ a.r = r2
  BY <1>1 DEF TabType, SlotType
<1> HIDE DEF m, a
<1>5. Like(t, v)
  BY <1>1, <1>3, SockSet
<1>6. v \in TabType /\ v.ccs = t.ccs /\ v.sock[c] = m /\ \A x \in Conns \ {c} : v.sock[x] = t.sock[x]
  BY <1>1, <1>3 DEF SetSock, TabType
<1> HIDE DEF v
<1>7. Like(v, u)
  BY <1>1, <1>2, <1>4, <1>6, SlotSet
<1>8. u.sock = v.sock /\ u.ccs[s] = a /\ \A x \in Slots \ {s} : u.ccs[x] = t.ccs[x]
  BY <1>1, <1>4, <1>6 DEF SetSlot, TabType
<1> HIDE DEF u
<1>9. Like(t, u)
  BY <1>5, <1>7, LikeTrans
<1>10. Held(u, c) = r2
  BY <1>3, <1>4, <1>6, <1>8 DEF Held
<1>11. ASSUME NEW d \in Conns \ {c} PROVE Held(u, d) = Held(t, d)
  <2>1. u.sock[d] = t.sock[d]
    BY <1>6, <1>8
  <2>2. CASE t.sock[d].st # "open"
    BY <2>1, <2>2 DEF Held
  <2>3. CASE t.sock[d].st = "open"
    <3>1. Slot(t.sock[d].flow) \in Slots
      BY <1>1, SockFlow
    <3>2. t.ccs[Slot(t.sock[d].flow)].sk = d
      BY <2>3 DEF Sound
    <3>3. Slot(t.sock[d].flow) # s
      BY <1>2, <3>2
    <3> QED BY <1>8, <2>1, <3>1, <3>3 DEF Held
  <2> QED BY <2>2, <2>3
<1> QED BY <1>3, <1>6, <1>8, <1>9, <1>10, <1>11, ZenonT(30) DEF u, v, m, a, TableRead

\* The streams are right when those of one connection change rightly and the others not.
LEMMA ChangedStreams ==
    ASSUME NEW t, NEW u, NEW c \in Conns, NEW sn, NEW sn2, NEW ask, NEW ask2, Streams(t, sn, ask),
           \A d \in Conns : u.sock[d].st = t.sock[d].st,
           \A d \in Conns \ {c} : /\ Held(u, d) = Held(t, d) /\ u.sock[d] = t.sock[d]
                                  /\ sn2[d] = sn[d] /\ ask2[d] = ask[d],
           Ordered(c, ask2[c]),
           t.sock[c].st # "closed" => Follows(c, Held(u, c), u.sock[c].in, ask2[c], sn2[c])
    PROVE  Streams(u, sn2, ask2)
<1>1. ASSUME NEW d \in Conns
      PROVE  /\ Ordered(d, ask2[d])
             /\ u.sock[d].st # "closed" => Follows(d, Held(u, d), u.sock[d].in, ask2[d], sn2[d])
  <2>1. CASE d = c
    BY <2>1
  <2>2. CASE d # c
    BY <2>2 DEF Streams
  <2> QED BY <2>1, <2>2
<1> QED BY <1>1 DEF Streams

\* A datagram takes a free slot: the TCP connections stay as they are.
LEMMA FillSlot ==
    ASSUME NEW t, Sound(t), NEW f \in 1..MaxFlow - 1, t.ccs[Slot(f)].flow = 0,
           NEW a \in SlotType, a.flow = f, a.sk \in Grams
    PROVE  LET u == SetSlot(t, Slot(f), a) IN
           /\ Sound(u) /\ u.sock = t.sock
           /\ \A d \in Conns : Held(u, d) = Held(t, d)
<1> DEFINE s == Slot(f)
           u == SetSlot(t, s, a)
<1>0. t \in TabType /\ s \in Slots /\ f # 0
  BY SlotRange, ProxyAssumption DEF Sound
<1>1. u \in TabType /\ u.sock = t.sock /\ u.ccs[s] = a /\ \A x \in Slots \ {s} : u.ccs[x] = t.ccs[x]
  BY <1>0 DEF SetSlot, TabType
<1>2. a.sk \in Clients /\ a.sk \notin Conns
  BY ProxyAssumption DEF Clients, Conns
<1>3. Slot(a.flow) = s
  OBVIOUS
<1> HIDE DEF u, s
<1>4. ASSUME NEW x \in Slots
      PROVE  IF u.ccs[x].flow = 0 THEN u.ccs[x] = FreeSlot
             ELSE Slot(u.ccs[x].flow) = x /\ u.ccs[x].sk \in Clients
  <2>1. CASE x = s
    BY <1>0, <1>1, <1>2, <1>3, <2>1
  <2>2. CASE x # s
    BY <1>1, <2>2 DEF Sound
  <2> QED BY <2>1, <2>2
<1>5. ASSUME NEW x \in Slots, u.ccs[x].flow # 0, u.ccs[x].sk \in Conns
      PROVE  u.sock[u.ccs[x].sk].st = "open" /\ u.sock[u.ccs[x].sk].flow = u.ccs[x].flow
  BY <1>1, <1>2, <1>5 DEF Sound
<1>6. ASSUME NEW d \in Conns, t.sock[d].st = "open" PROVE Slot(t.sock[d].flow) \in Slots \ {s}
  <2>1. Slot(t.sock[d].flow) \in Slots
    BY <1>0, SockFlow
  <2>2. t.ccs[Slot(t.sock[d].flow)].flow # 0
    BY <1>6 DEF Sound
  <2> QED BY <2>1, <2>2 DEF s
<1>7. ASSUME NEW c \in Conns, u.sock[c].st = "open"
      PROVE  /\ u.sock[c].flow # 0 /\ u.ccs[Slot(u.sock[c].flow)].flow = u.sock[c].flow
             /\ u.ccs[Slot(u.sock[c].flow)].sk = c
  BY <1>1, <1>6, <1>7 DEF Sound
<1>8. ASSUME NEW d \in Conns PROVE Held(u, d) = Held(t, d)
  BY <1>1, <1>6 DEF Held
<1>9. Sound(u)
  BY <1>1, <1>4, <1>5, <1>7 DEF Sound
<1> QED BY <1>1, <1>8, <1>9 DEF u, s

\* An accepted connection takes a free slot: the others stay as they are.
LEMMA OpenSlot ==
    ASSUME NEW t, Sound(t), NEW f \in 1..MaxFlow - 1, t.ccs[Slot(f)].flow = 0,
           NEW c \in Conns, t.sock[c].st = "backlog",
           NEW a \in SlotType, a.flow = f, a.sk = c, a.r = <<>>,
           NEW k \in SockType, k.st = "open", k.flow = f, k.in = t.sock[c].in
    PROVE  LET u == SetSock(SetSlot(t, Slot(f), a), c, k) IN
           /\ Sound(u) /\ \A d \in Conns \ {c} : u.sock[d] = t.sock[d]
           /\ \A d \in Conns : Held(u, d) = Held(t, d) /\ u.sock[d].in = t.sock[d].in
           /\ u.sock[c].st = "open" /\ u.sock[c].flow = f
<1> DEFINE s == Slot(f)
           v == SetSlot(t, s, a)
           u == SetSock(v, c, k)
<1>0. t \in TabType /\ s \in Slots /\ f # 0 /\ f \in 0..MaxFlow - 1
  BY SlotRange, ProxyAssumption DEF Sound
<1>1. v \in TabType /\ v.sock = t.sock /\ v.ccs[s] = a /\ \A x \in Slots \ {s} : v.ccs[x] = t.ccs[x]
  BY <1>0 DEF SetSlot, TabType
<1> HIDE DEF v
<1>2. /\ u \in TabType /\ u.ccs = v.ccs /\ u.sock[c] = k
      /\ \A d \in Conns \ {c} : u.sock[d] = t.sock[d]
  BY <1>1 DEF SetSock, TabType
<1>3. a.sk \in Clients /\ Slot(a.flow) = s
  BY DEF Clients
<1> HIDE DEF u, s
<1>4. ASSUME NEW x \in Slots
      PROVE  IF u.ccs[x].flow = 0 THEN u.ccs[x] = FreeSlot
             ELSE Slot(u.ccs[x].flow) = x /\ u.ccs[x].sk \in Clients
  <2>1. CASE x = s
    BY <1>0, <1>1, <1>2, <1>3, <2>1
  <2>2. CASE x # s
    BY <1>1, <1>2, <2>2 DEF Sound
  <2> QED BY <2>1, <2>2
<1>5. ASSUME NEW x \in Slots, u.ccs[x].flow # 0, u.ccs[x].sk \in Conns
      PROVE  u.sock[u.ccs[x].sk].st = "open" /\ u.sock[u.ccs[x].sk].flow = u.ccs[x].flow
  <2>1. CASE x = s
    BY <1>1, <1>2, <2>1
  <2>2. CASE x # s
    <3>1. u.ccs[x] = t.ccs[x]
      BY <1>1, <1>2, <2>2
    <3>2. t.sock[t.ccs[x].sk].st = "open" /\ t.sock[t.ccs[x].sk].flow = t.ccs[x].flow
      BY <1>5, <3>1 DEF Sound
    <3> QED BY <1>2, <1>5, <3>1, <3>2
  <2> QED BY <2>1, <2>2
<1>6. ASSUME NEW d \in Conns, t.sock[d].st = "open" PROVE Slot(t.sock[d].flow) \in Slots \ {s}
  <2>1. Slot(t.sock[d].flow) \in Slots
    BY <1>0, SockFlow
  <2>2. t.ccs[Slot(t.sock[d].flow)].flow # 0
    BY <1>6 DEF Sound
  <2> QED BY <2>1, <2>2 DEF s
<1>7. ASSUME NEW d \in Conns, u.sock[d].st = "open"
      PROVE  /\ u.sock[d].flow # 0 /\ u.ccs[Slot(u.sock[d].flow)].flow = u.sock[d].flow
             /\ u.ccs[Slot(u.sock[d].flow)].sk = d
  <2>1. CASE d = c
    BY <1>0, <1>1, <1>2, <2>1 DEF s
  <2>2. CASE d # c
    BY <1>1, <1>2, <1>6, <1>7, <2>2 DEF Sound
  <2> QED BY <2>1, <2>2
<1>8. ASSUME NEW d \in Conns PROVE Held(u, d) = Held(t, d) /\ u.sock[d].in = t.sock[d].in
  <2>1. CASE d = c
    BY <1>1, <1>2, <2>1 DEF Held, s
  <2>2. CASE d # c
    BY <1>1, <1>2, <1>6, <2>2 DEF Held
  <2> QED BY <2>1, <2>2
<1>9. Sound(u)
  BY <1>2, <1>4, <1>5, <1>7 DEF Sound
<1> QED BY <1>2, <1>8, <1>9 DEF u, v, s

----------------------------------------------------------------------------
\* The labels of the main loop.
LEMMA AtType ==
    ASSUME NEW l \in {"wait", "events", "accept", "udp", "send", "recv", "ctor"}
    PROVE  At(l) \in PcType /\ At(l).at = l
<1>1. 0 \in 0..MaxFlow - 1
  BY ProxyAssumption
<1> QED BY <1>1 DEF At, PcType

\* The loop goes on from a place without an event in work.
LEMMA EventsNext ==
    ASSUME NEW t, NEW p, NEW q, NEW E, NEW E2, NEW B, NEW B2, Events(t, p, E, B), E2 \subseteq E, B2 \subseteq B,
           q.at \notin {"send", "recv"}, q.at \in {"wait", "ctor"} => E2 = {}
    PROVE  Events(t, q, E2, B2)
BY DEF Events

\* The invariant holds initially.
LEMMA InitHolds == Init => IInv
<1> SUFFICES ASSUME Init PROVE IInv
  OBVIOUS
<1>0. 0 \in 0..MaxFlow - 1 /\ MaxReq \in Nat /\ StartFlow \in 0..MaxFlow - 1
  BY ProxyAssumption
<1>1. Typed
  <2>1. At("wait") \in PcType
    BY AtType
  <2>2. sent \in [Clients -> Nat] /\ asked \in [Clients -> Seq(Seq(UnitSet))]
    BY DEF Init
  <2>3. blob \in Seq(UnitSet) /\ rspq \in Seq(MsgType)
    BY DEF Init
  <2> QED BY <1>0, <2>1, <2>2, <2>3 DEF Init, Typed
<1>2. /\ tab \in TabType
      /\ \A s \in Slots : tab.ccs[s] = FreeSlot
      /\ \A c \in Conns : tab.sock[c] = NoSock
  BY FreeTypes DEF Init, TabType
<1>3. FreeSlot.flow = 0 /\ NoSock.st = "none" /\ NoSock.in = <<>>
  BY DEF FreeSlot, NoSock
<1>4. Sound(tab)
  BY <1>2, <1>3 DEF Sound
<1>5. Events(tab, pc, evs, backlog)
  <2>1. pc.at = "wait"
    BY AtType DEF Init
  <2> QED BY <2>1 DEF Events, Init
<1>6. ASSUME NEW c \in Conns
      PROVE  Ordered(c, asked[c]) /\ Follows(c, Held(tab, c), tab.sock[c].in, asked[c], sent[c])
  <2>1. Held(tab, c) = <<>> /\ tab.sock[c].in = <<>>
    BY <1>2, <1>3 DEF Held
  <2>2. asked[c] = <<>> /\ sent[c] = 0
    BY DEF Init, Clients
  <2>3. Ordered(c, <<>>)
    BY DEF Ordered
  <2>4. Follows(c, <<>>, <<>>, <<>>, 0)
    BY <1>0 DEF Follows, ReqLen
  <2> QED BY <2>1, <2>2, <2>3, <2>4
<1>7. Streams(tab, sent, asked)
  BY <1>6 DEF Streams
<1> QED BY <1>1, <1>4, <1>5, <1>7 DEF IInv

\* A client connects: its socket waits to be accepted.
LEMMA ConnectStep ==
    ASSUME IInv, NEW c \in Conns, Connect(c)
    PROVE  IInv'
<1> DEFINE k == [tab.sock[c] EXCEPT !.st = "backlog"]
<1>0. Typed /\ Sound(tab) /\ Events(tab, pc, evs, backlog) /\ Streams(tab, sent, asked) /\ tab \in TabType
  BY DEF IInv, Sound
<1>1. tab.sock[c].st = "none" /\ backlog' = backlog \cup {c}
  BY DEF Connect
<1>2. k \in SockType /\ k.st = "backlog" /\ k.in = tab.sock[c].in
  BY <1>0 DEF TabType, SockType
<1>3. tab' = SetSock(tab, c, k)
  BY <1>0 DEF Connect, SetSock, TabType
<1> HIDE DEF k
<1>4. /\ tab' \in TabType /\ tab'.ccs = tab.ccs /\ tab'.sock[c] = k
      /\ \A d \in Conns \ {c} : tab'.sock[d] = tab.sock[d]
  BY <1>0, <1>2, <1>3 DEF SetSock, TabType
<1>5. UNCHANGED <<flow_, blob, pc, evs, udpq, reqq, rspq, sent, asked>>
  BY DEF Connect, hist
<1>6. Typed'
  BY <1>0, <1>1, <1>5 DEF Typed
<1>7. Sound(tab')
  <2>1. ASSUME NEW s \in Slots, tab'.ccs[s].flow # 0, tab'.ccs[s].sk \in Conns
        PROVE  tab'.sock[tab'.ccs[s].sk].st = "open" /\ tab'.sock[tab'.ccs[s].sk].flow = tab'.ccs[s].flow
    <3>1. tab.sock[tab.ccs[s].sk].st = "open" /\ tab.sock[tab.ccs[s].sk].flow = tab.ccs[s].flow
      BY <1>0, <1>4, <2>1 DEF Sound
    <3> QED BY <1>1, <1>4, <2>1, <3>1
  <2>2. ASSUME NEW d \in Conns, tab'.sock[d].st = "open"
        PROVE  /\ tab'.sock[d].flow # 0 /\ tab'.ccs[Slot(tab'.sock[d].flow)].flow = tab'.sock[d].flow
               /\ tab'.ccs[Slot(tab'.sock[d].flow)].sk = d
    <3>1. d # c /\ tab'.sock[d] = tab.sock[d]
      BY <1>2, <1>4, <2>2
    <3> QED BY <1>0, <1>4, <2>2, <3>1 DEF Sound
  <2>3. ASSUME NEW s \in Slots
        PROVE  IF tab'.ccs[s].flow = 0 THEN tab'.ccs[s] = FreeSlot
               ELSE Slot(tab'.ccs[s].flow) = s /\ tab'.ccs[s].sk \in Clients
    BY <1>0, <1>4 DEF Sound
  <2> QED BY <1>4, <2>1, <2>2, <2>3 DEF Sound
<1>8. Events(tab', pc', evs', backlog')
  <2>1. ASSUME NEW d \in backlog' PROVE tab'.sock[d].st = "backlog"
    <3>1. d \in Conns
      BY <1>0, <1>1 DEF Typed
    <3> QED BY <1>0, <1>1, <1>2, <1>4, <3>1 DEF Events
  <2>2. ASSUME NEW e \in evs, e.fd \in Conns PROVE tab'.sock[e.fd].st = "open" /\ tab'.sock[e.fd].flow = e.flow
    BY <1>0, <1>1, <1>4, <2>2 DEF Events
  <2>3. Mine(tab, evs, pc.flow) => Mine(tab', evs, pc.flow)
    BY <1>1, <1>4 DEF Mine
  <2>4. Finds(tab', pc.flow) <=> Finds(tab, pc.flow)
    BY <1>4 DEF Finds
  <2> QED BY <1>0, <1>5, <2>1, <2>2, <2>3, <2>4 DEF Events
<1>9. Streams(tab', sent', asked')
  <2>1. ASSUME NEW d \in Conns PROVE Held(tab', d) = Held(tab, d) /\ tab'.sock[d].in = tab.sock[d].in
    BY <1>1, <1>2, <1>4 DEF Held
  <2>2. ASSUME NEW d \in Conns, tab'.sock[d].st # "closed" PROVE tab.sock[d].st # "closed"
    BY <1>1, <1>4, <2>2
  <2> QED BY <1>0, <1>5, <2>1, <2>2 DEF Streams
<1> QED BY <1>6, <1>7, <1>8, <1>9 DEF IInv

\* A step that changes a table to one like it and nothing else that matters here.
LEMMA LikeStep ==
    ASSUME IInv, Like(tab, tab'), UNCHANGED <<flow_, blob, pc, evs, backlog, udpq, reqq, asked>>,
           rspq' \in Seq(MsgType), sent' \in [Clients -> Nat], Streams(tab', sent', asked')
    PROVE  IInv'
<1>1. Typed /\ Sound(tab) /\ Events(tab, pc, evs, backlog)
  BY DEF IInv
<1>2. Typed'
  BY <1>1 DEF Typed
<1>3. Sound(tab')
  BY <1>1, LikeSound
<1>4. Events(tab', pc', evs', backlog')
  <2>1. pc \in PcType /\ backlog \subseteq Conns
    BY <1>1 DEF Typed
  <2>2. Events(tab', pc, evs, backlog)
    BY <1>1, <2>1, LikeEvents
  <2> QED BY <2>2
<1> QED BY <1>2, <1>3, <1>4 DEF IInv

\* A client sends.
LEMMA ClientSendStep ==
    ASSUME IInv, NEW c \in Conns, ClientSend(c)
    PROVE  IInv'
<1>0. Typed /\ Sound(tab) /\ Streams(tab, sent, asked) /\ tab \in TabType
  BY DEF IInv, Sound
<1>1. PICK n \in 1..2 :
        /\ tab.sock[c].st \in {"backlog", "open"} /\ sent[c] + n <= 2 * MaxReq
        /\ sent' = [sent EXCEPT ![c] = @ + n]
        /\ tab' = [tab EXCEPT !.sock[c].in = @ \o SubSeq(Stream(c), sent[c] + 1, sent[c] + n),
                              !.sock[c].edge = TRUE]
        /\ UNCHANGED <<flow_, blob, pc, evs, backlog, udpq, reqq, rspq, asked>>
  BY DEF ClientSend, ReqLen, hist
<1> DEFINE in2 == tab.sock[c].in \o SubSeq(Stream(c), sent[c] + 1, sent[c] + n)
           k == [tab.sock[c] EXCEPT !.in = in2, !.edge = TRUE]
<1>2. c \in Clients /\ sent[c] \in Nat /\ n \in Nat /\ tab.sock[c].in \in Seq(UnitSet)
  BY <1>0 DEF Typed, Clients, TabType, SockType
<1>3. Held(tab, c) \in Seq(UnitSet)
  <2>1. Slot(tab.sock[c].flow) \in Slots
    BY <1>0, SockFlow
  <2> QED BY <1>0, <2>1 DEF Held, TabType, SlotType
<1>4. Ordered(c, asked[c]) /\ Follows(c, Held(tab, c), tab.sock[c].in, asked[c], sent[c])
  BY <1>0, <1>1 DEF Streams
<1>5. in2 \in Seq(UnitSet) /\ Follows(c, Held(tab, c), in2, asked[c], sent[c] + n)
  BY <1>1, <1>2, <1>3, <1>4, SendStream
<1>6. tab' = SetSock(tab, c, k)
  BY <1>0, <1>1 DEF SetSock, TabType
<1> HIDE DEF in2
<1>7. k \in SockType /\ k.st = tab.sock[c].st /\ k.flow = tab.sock[c].flow /\ k.in = in2
  BY <1>0, <1>5 DEF TabType, SockType
<1> HIDE DEF k
<1>8. Like(tab, tab')
  BY <1>0, <1>6, <1>7, SockSet
<1>9. /\ tab' \in TabType /\ tab'.ccs = tab.ccs /\ tab'.sock[c] = k
      /\ \A d \in Conns \ {c} : tab'.sock[d] = tab.sock[d]
  BY <1>0, <1>6, <1>7 DEF SetSock, TabType
<1>10. \A d \in Conns : Held(tab', d) = Held(tab, d)
  BY <1>7, <1>9 DEF Held
<1>11. sent' \in [Clients -> Nat] /\ sent'[c] = sent[c] + n /\ \A d \in Conns \ {c} : sent'[d] = sent[d]
  <2>1. sent[c] + n \in Nat
    BY <1>2
  <2> QED BY <1>0, <1>1, <1>2, <2>1 DEF Typed, Clients
<1>12. Streams(tab', sent', asked')
  <2>1. \A d \in Conns : tab'.sock[d].st = tab.sock[d].st
    BY <1>8 DEF Like
  <2>2. Follows(c, Held(tab', c), tab'.sock[c].in, asked'[c], sent'[c]) /\ Ordered(c, asked'[c])
    BY <1>1, <1>4, <1>5, <1>7, <1>9, <1>10, <1>11
  <2>3. \A d \in Conns \ {c} : /\ Held(tab', d) = Held(tab, d) /\ tab'.sock[d] = tab.sock[d]
                               /\ sent'[d] = sent[d] /\ asked'[d] = asked[d]
    BY <1>1, <1>9, <1>10, <1>11
  <2> QED BY <1>0, <2>1, <2>2, <2>3, ChangedStreams, ZenonT(30)
<1>13. rspq' \in Seq(MsgType)
  BY <1>0, <1>1 DEF Typed
<1> QED BY <1>1, <1>8, <1>11, <1>12, <1>13, LikeStep

\* A step that changes flags of one socket.
LEMMA SockStep ==
    ASSUME IInv, NEW c \in Conns, NEW k \in SockType, tab' = SetSock(tab, c, k),
           k.st = tab.sock[c].st, k.flow = tab.sock[c].flow, k.in = tab.sock[c].in,
           UNCHANGED <<flow_, blob, pc, evs, backlog, udpq, sent, reqq, rspq, asked>>
    PROVE  IInv'
<1>0. Typed /\ Sound(tab) /\ Streams(tab, sent, asked) /\ tab \in TabType
  BY DEF IInv, Sound
<1>1. Like(tab, tab') /\ Data(tab, tab')
  BY <1>0, SockSet
<1>2. Streams(tab', sent, asked)
  BY <1>0, <1>1, DataStreams
<1>3. rspq' \in Seq(MsgType) /\ sent' \in [Clients -> Nat]
  BY <1>0 DEF Typed
<1> QED BY <1>1, <1>2, <1>3, LikeStep

\* A client reads.
LEMMA ClientReadStep ==
    ASSUME IInv, NEW c \in Conns, ClientRead(c)
    PROVE  IInv'
<1> DEFINE e == tab.sock[c].edge \/ tab.sock[c].out
           k == [tab.sock[c] EXCEPT !.full = FALSE, !.edge = e]
<1>0. tab \in TabType
  BY DEF IInv, Sound
<1>1. e \in BOOLEAN
  BY <1>0 DEF TabType, SockType
<1>2. tab' = SetSock(tab, c, k)
  BY <1>0 DEF ClientRead, SetSock, TabType
<1> HIDE DEF e
<1>3. k \in SockType /\ k.st = tab.sock[c].st /\ k.flow = tab.sock[c].flow /\ k.in = tab.sock[c].in
  BY <1>0, <1>1, ZenonT(30) DEF TabType, SockType
<1> HIDE DEF k
<1>4. UNCHANGED <<flow_, blob, pc, evs, backlog, udpq, sent, reqq, rspq, asked>>
  BY DEF ClientRead, net, hist
<1> QED BY <1>2, <1>3, <1>4, SockStep

\* A client closes.
LEMMA ClientCloseStep ==
    ASSUME IInv, NEW c \in Conns, ClientClose(c)
    PROVE  IInv'
<1> DEFINE k == [tab.sock[c] EXCEPT !.eof = TRUE, !.edge = TRUE]
<1>0. tab \in TabType
  BY DEF IInv, Sound
<1>2. tab' = SetSock(tab, c, k)
  BY <1>0 DEF ClientClose, SetSock, TabType
<1>3. k \in SockType /\ k.st = tab.sock[c].st /\ k.flow = tab.sock[c].flow /\ k.in = tab.sock[c].in
  BY <1>0 DEF TabType, SockType
<1> HIDE DEF k
<1>4. UNCHANGED <<flow_, blob, pc, evs, backlog, udpq, sent, reqq, rspq, asked>>
  BY DEF ClientClose, net, hist
<1> QED BY <1>2, <1>3, <1>4, SockStep

\* A datagram arrives.
LEMMA DatagramStep ==
    ASSUME IInv, NEW g \in Grams, Datagram(g)
    PROVE  IInv'
<1>0. Typed /\ Sound(tab) /\ Events(tab, pc, evs, backlog) /\ Streams(tab, sent, asked)
  BY DEF IInv
<1>1. /\ sent' = [sent EXCEPT ![g] = 1] /\ udpq' = udpq \cup {g}
      /\ UNCHANGED <<tab, flow_, blob, pc, evs, backlog, reqq, rspq, asked>>
  BY DEF Datagram, hist
<1>2. g \in Clients /\ g \notin Conns /\ Conns \subseteq Clients
  BY ProxyAssumption DEF Clients, Conns
<1>3. sent' \in [Clients -> Nat] /\ \A c \in Conns : sent'[c] = sent[c]
  BY <1>0, <1>1, <1>2 DEF Typed
<1>4. Typed'
  BY <1>0, <1>1, <1>3 DEF Typed
<1>5. Streams(tab', sent', asked')
  BY <1>0, <1>1, <1>3 DEF Streams
<1> QED BY <1>0, <1>1, <1>4, <1>5 DEF IInv

\* A worker handles a request.
LEMMA ProcessStep ==
    ASSUME IInv, NEW m \in reqq, Process(m)
    PROVE  IInv'
<1>0. Typed /\ Sound(tab) /\ Events(tab, pc, evs, backlog) /\ Streams(tab, sent, asked)
  BY DEF IInv
<1>1. PICK rsp \in {<<Answer(m)>>, <<Answer(m), CloseIt(m)>>, <<CloseIt(m)>>, <<>>} : rspq' = rspq \o rsp
  BY DEF Process
<1>2. m \in MsgType
  BY <1>0 DEF Typed
<1>3. Answer(m) \in MsgType /\ CloseIt(m) \in MsgType
  <2>1. <<>> \in Seq(UnitSet)
    OBVIOUS
  <2> QED BY <1>2, <2>1 DEF Answer, CloseIt, MsgType
<1>4. rsp \in Seq(MsgType)
  <2> DEFINE x == Answer(m)
             y == CloseIt(m)
  <2>1. x \in MsgType /\ y \in MsgType
    BY <1>3
  <2>2. rsp = <<x>> \/ rsp = <<x, y>> \/ rsp = <<y>> \/ rsp = <<>>
    OBVIOUS
  <2> HIDE DEF x, y
  <2>3. <<x>> \in Seq(MsgType) /\ <<x, y>> \in Seq(MsgType) /\ <<y>> \in Seq(MsgType) /\ <<>> \in Seq(MsgType)
    BY <2>1
  <2> QED BY <2>2, <2>3
<1>5. rspq' \in Seq(MsgType)
  <2>1. rspq \in Seq(MsgType)
    BY <1>0 DEF Typed
  <2> QED BY <1>1, <1>4, <2>1, ConcatProperties
<1>6. /\ reqq' \subseteq reqq
      /\ UNCHANGED <<tab, flow_, blob, pc, evs, backlog, udpq, sent, asked>>
  BY DEF Process, net, hist
<1>7. Typed'
  BY <1>0, <1>5, <1>6 DEF Typed
<1> QED BY <1>0, <1>6, <1>7 DEF IInv

----------------------------------------------------------------------------
\* The event epoll_wait reports for connection c.
EventOf(t, c) == [fd |-> c, flow |-> t.sock[c].flow, in |-> t.sock[c].in # <<>> \/ t.sock[c].eof,
                  out |-> t.sock[c].out /\ ~t.sock[c].full]

\* Events have their type and say which socket they are of.
LEMMA EventOfType ==
    ASSUME NEW t \in TabType, NEW c \in Conns
    PROVE  EventOf(t, c) \in EvType /\ EventOf(t, c).fd = c /\ EventOf(t, c).flow = t.sock[c].flow
<1> DEFINE i == t.sock[c].in # <<>> \/ t.sock[c].eof
           o == t.sock[c].out /\ ~t.sock[c].full
<1>1. t.sock[c].flow \in 0..MaxFlow - 1
  BY DEF TabType, SockType
<1>2. i \in BOOLEAN /\ o \in BOOLEAN
  BY DEF TabType, SockType
<1>3. EventOf(t, c) = [fd |-> c, flow |-> t.sock[c].flow, in |-> i, out |-> o]
  BY DEF EventOf
<1> HIDE DEF i, o
<1> QED BY <1>1, <1>2, <1>3 DEF EvType

\* The event of the listening or the datagram socket has its type.
LEMMA WakeType ==
    ASSUME NEW fd \in {ListenFd, UdpFd}
    PROVE  Wake(fd) \in EvType /\ Wake(fd).fd = fd
<1>1. 0 \in 0..MaxFlow - 1
  BY ProxyAssumption
<1> QED BY <1>1 DEF Wake, EvType

\* The listening and the datagram socket are no connections.
LEMMA FdsDiffer == ListenFd \notin Conns /\ UdpFd \notin Conns /\ ListenFd # UdpFd
BY ProxyAssumption DEF ListenFd, UdpFd, Conns

\* epoll_wait reports each open connection once, under its flow number.
LEMMA EpollWaitStep ==
    ASSUME IInv, EpollWait
    PROVE  IInv'
<1> DEFINE edges == {c \in Conns : tab.sock[c].st = "open" /\ tab.sock[c].edge}
<1>0. Typed /\ Sound(tab) /\ Events(tab, pc, evs, backlog) /\ Streams(tab, sent, asked) /\ tab \in TabType
  BY DEF IInv, Sound
<1>1. /\ tab' = [tab EXCEPT !.sock = [c \in Conns |-> IF c \in edges THEN [@[c] EXCEPT !.edge = FALSE] ELSE @[c]]]
      /\ pc' = At("events")
      /\ UNCHANGED <<flow_, blob, backlog, udpq, sent, reqq, rspq, asked>>
  BY DEF EpollWait, net, hist
<1>2. evs' = {e \in {EventOf(tab, c) : c \in edges} : e.in \/ e.out}
                       \cup (IF backlog # {} THEN {Wake(ListenFd)} ELSE {})
                       \cup (IF udpq # {} THEN {Wake(UdpFd)} ELSE {})
  BY DEF EpollWait, EventOf
<1>3. ASSUME NEW e \in evs'
      PROVE  e = Wake(ListenFd) \/ e = Wake(UdpFd) \/ \E c \in edges : e = EventOf(tab, c)
  <2> HIDE DEF edges
  <2> QED BY <1>2
<1>4. ASSUME NEW c \in Conns
      PROVE  LET k == IF c \in edges THEN [tab.sock[c] EXCEPT !.edge = FALSE] ELSE tab.sock[c] IN
             k \in SockType /\ k.st = tab.sock[c].st /\ k.flow = tab.sock[c].flow /\ k.in = tab.sock[c].in
  <2> HIDE DEF edges
  <2>1. CASE c \in edges
    BY <1>0, <2>1 DEF TabType, SockType
  <2>2. CASE c \notin edges
    BY <1>0, <2>2 DEF TabType
  <2> QED BY <2>1, <2>2
<1>5. edges \subseteq Conns /\ \A c \in edges : tab.sock[c].st = "open"
  OBVIOUS
<1> HIDE DEF edges
<1> DEFINE k(c) == IF c \in edges THEN [tab.sock[c] EXCEPT !.edge = FALSE] ELSE tab.sock[c]
<1>6. tab' = [ccs |-> tab.ccs, sock |-> [c \in Conns |-> k(c)]]
  BY <1>0, <1>1 DEF TabType
<1>7. \A c \in Conns : k(c) \in SockType /\ k(c).st = tab.sock[c].st /\ k(c).flow = tab.sock[c].flow
                       /\ k(c).in = tab.sock[c].in
  BY <1>4
<1> HIDE DEF k
<1>8. tab' \in TabType /\ tab'.ccs = tab.ccs /\ \A c \in Conns : tab'.sock[c] = k(c)
  BY <1>0, <1>6, <1>7 DEF TabType
<1>9. Like(tab, tab') /\ Data(tab, tab')
  BY <1>7, <1>8 DEF Like, Data
<1>10. ASSUME NEW e \in evs'
       PROVE  /\ e \in EvType
              /\ e.fd \in Conns => e.fd \in edges /\ e = EventOf(tab, e.fd) /\ e.flow = tab.sock[e.fd].flow
              /\ e.fd \notin Conns => e = Wake(e.fd)
  <2>1. CASE e = Wake(ListenFd)
    BY <2>1, WakeType, FdsDiffer
  <2>2. CASE e = Wake(UdpFd)
    BY <2>2, WakeType, FdsDiffer
  <2>3. ASSUME NEW c \in edges, e = EventOf(tab, c)
        PROVE  /\ e \in EvType
               /\ e.fd \in Conns => e.fd \in edges /\ e = EventOf(tab, e.fd) /\ e.flow = tab.sock[e.fd].flow
               /\ e.fd \notin Conns => e = Wake(e.fd)
    BY <1>0, <1>5, <2>3, EventOfType
  <2> QED BY <1>3, <2>1, <2>2, <2>3
<1>11. Typed'
  <2>1. pc' \in PcType
    BY <1>1, AtType
  <2>2. evs' \subseteq EvType
    BY <1>10
  <2> QED BY <1>0, <1>1, <2>1, <2>2 DEF Typed
<1>12. Sound(tab')
  BY <1>0, <1>9, LikeSound
<1>13. Streams(tab', sent', asked')
  BY <1>0, <1>1, <1>9, DataStreams
<1>14. Events(tab', pc', evs', backlog')
  <2>1. pc'.at = "events"
    BY <1>1, AtType
  <2>2. \A c \in backlog' : tab'.sock[c].st = "backlog"
    <3>1. backlog \subseteq Conns
      BY <1>0 DEF Typed
    <3> QED BY <1>0, <1>1, <1>9, <3>1 DEF Events, Like
  <2>3. ASSUME NEW e \in evs', e.fd \in Conns PROVE tab'.sock[e.fd].st = "open" /\ tab'.sock[e.fd].flow = e.flow
    BY <1>5, <1>9, <1>10, <2>3 DEF Like
  <2>4. ASSUME NEW e \in evs', NEW d \in evs', e.fd = d.fd PROVE e = d
    <3>1. CASE e.fd \in Conns
      BY <1>10, <2>4, <3>1
    <3>2. CASE e.fd \notin Conns
      BY <1>10, <2>4, <3>2
    <3> QED BY <3>1, <3>2
  <2> QED BY <2>1, <2>2, <2>3, <2>4 DEF Events
<1> QED BY <1>11, <1>12, <1>13, <1>14 DEF IInv

\* The loop takes the next event: it is of an open connection.
LEMMA NextEventStep ==
    ASSUME IInv, NextEvent
    PROVE  IInv'
<1>0. Typed /\ Sound(tab) /\ Events(tab, pc, evs, backlog) /\ Streams(tab, sent, asked)
  BY DEF IInv
<1>1. PICK e \in evs :
        /\ evs' = evs \ {e}
        /\ pc' = CASE e.fd = ListenFd -> At("accept")
                   [] e.fd = UdpFd -> At("udp")
                   [] OTHER -> [at |-> IF e.out THEN "send" ELSE "recv", flow |-> e.flow,
                                retry |-> RetryCnt, in |-> e.in]
  BY DEF NextEvent
<1>2. UNCHANGED <<tab, flow_, blob, backlog, udpq, sent, reqq, rspq, asked>>
  BY DEF NextEvent, net, hist
<1> DEFINE q == [at |-> IF e.out THEN "send" ELSE "recv", flow |-> e.flow, retry |-> RetryCnt, in |-> e.in]
<1>3. e \in EvType
  BY <1>0 DEF Typed
<1>4. q \in PcType /\ q.at \in {"send", "recv"} /\ q.flow = e.flow
  BY <1>3, ProxyAssumption DEF EvType, PcType
<1> HIDE DEF q
<1>5. \/ e.fd = ListenFd /\ pc' = At("accept")
      \/ e.fd = UdpFd /\ pc' = At("udp")
      \/ e.fd \notin {ListenFd, UdpFd} /\ pc' = q
  <2>1. pc' = CASE e.fd = ListenFd -> At("accept") [] e.fd = UdpFd -> At("udp") [] OTHER -> q
    BY <1>1 DEF q
  <2>2. ListenFd # UdpFd
    BY FdsDiffer
  <2>3. CASE e.fd = ListenFd
    BY <2>1, <2>2, <2>3, Zenon
  <2>4. CASE e.fd = UdpFd
    BY <2>1, <2>2, <2>4, Zenon
  <2>5. CASE e.fd # ListenFd /\ e.fd # UdpFd
    BY <2>1, <2>5, Zenon
  <2> QED BY <2>3, <2>4, <2>5
<1>6. pc' \in PcType
  BY <1>4, <1>5, AtType
<1>7. Typed'
  BY <1>0, <1>1, <1>2, <1>6 DEF Typed
<1>8. Events(tab, pc', evs', backlog)
  <2>1. CASE pc' = At("accept") \/ pc' = At("udp")
    <3>1. pc'.at \in {"accept", "udp"}
      BY <2>1, AtType
    <3>2. evs' \subseteq evs /\ backlog \subseteq backlog
      BY <1>1
    <3> QED BY <1>0, <3>1, <3>2, EventsNext
  <2>2. CASE e.fd \notin {ListenFd, UdpFd} /\ pc' = q
    <3>1. e.fd \in Conns
      BY <1>3, <2>2 DEF EvType
    <3>2. tab.sock[e.fd].st = "open" /\ tab.sock[e.fd].flow = e.flow
      BY <1>0, <3>1 DEF Events
    <3>3. \A d \in evs' : d.fd # e.fd
      BY <1>0, <1>1 DEF Events
    <3>4. Mine(tab, evs', pc'.flow)
      BY <1>4, <2>2, <3>1, <3>2, <3>3 DEF Mine
    <3>5. pc'.at \in {"send", "recv"}
      BY <1>4, <2>2
    <3>6. evs' \subseteq evs
      BY <1>1
    <3> QED BY <1>0, <3>4, <3>5, <3>6 DEF Events
  <2> QED BY <1>5, <2>1, <2>2
<1> QED BY <1>0, <1>2, <1>7, <1>8 DEF IInv

\* check_expire closes any connections: no event is left.
LEMMA CheckExpireStep ==
    ASSUME IInv, CheckExpire
    PROVE  IInv'
<1>0. Typed /\ Sound(tab) /\ Events(tab, pc, evs, backlog) /\ Streams(tab, sent, asked)
  BY DEF IInv
<1>1. evs = {} /\ pc' = At("ctor") /\ UNCHANGED <<flow_, blob, evs, backlog, udpq, sent, reqq, rspq, asked>>
  BY DEF CheckExpire, net, hist
<1>2. PICK old : old \subseteq Used(tab) /\ tab' = Closed(tab, old)
  BY DEF CheckExpire, Closed, Used
<1>3. pc' \in PcType /\ pc'.at = "ctor"
  BY <1>1, AtType
<1>4. Typed'
  BY <1>0, <1>1, <1>3 DEF Typed
<1>5. Sound(tab')
  BY <1>0, <1>2, ClosedSound
<1>6. Events(tab', pc', evs', backlog')
  <2>1. backlog \subseteq Conns /\ \A s \in old : \A e \in evs : e.fd # tab.ccs[s].sk
    BY <1>0, <1>1 DEF Typed
  <2>2. Events(Closed(tab, old), pc', evs, backlog)
    BY <1>0, <1>1, <1>2, <1>3, <2>1, ClosedEvents
  <2> QED BY <1>1, <1>2, <2>2
<1>7. Streams(tab', sent', asked')
  <2>1. \A c \in Conns : Ordered(c, asked[c])
    BY <1>0 DEF Streams
  <2>2. Streams(Closed(tab, old), sent, asked)
    BY <1>0, <1>2, <2>1, ClosedStreams
  <2> QED BY <1>1, <1>2, <2>2
<1> QED BY <1>4, <1>5, <1>6, <1>7 DEF IInv

\* closeconn on a connection without an event left keeps the invariant, also when the
\* requests of that connection changed.
LEMMA CloseFacts ==
    ASSUME NEW t, Sound(t), NEW f \in Nat, NEW p, NEW q, NEW E, NEW B, B \subseteq Conns, Events(t, p, E, B),
           Finds(t, f) => \A e \in E : e.fd # t.ccs[Slot(f)].sk,
           q.at # "send", q.at \in {"wait", "ctor"} => E = {}, q.at = "recv" => f # 0 /\ q.flow = f,
           NEW sn, NEW ask, NEW ask2, Streams(t, sn, ask), \A c \in Conns : Ordered(c, ask2[c]),
           \A c \in Conns : ask2[c] # ask[c] => Finds(t, f) /\ t.ccs[Slot(f)].sk = c
    PROVE  /\ Sound(closeconn(t, f)) /\ Events(closeconn(t, f), q, E, B)
           /\ Streams(closeconn(t, f), sn, ask2)
<1> DEFINE Z == SlotOf(t, f)
<1>1. t \in TabType
  BY DEF Sound
<1>2. closeconn(t, f) = Closed(t, Z)
  BY <1>1, CloseIsClosed
<1>3. Z \subseteq Used(t)
  BY SlotOfUsed
<1>4. ~Finds(Closed(t, Z), f)
  BY <1>1, <1>2, CloseNotFound
<1>5. \A s \in Z : \A e \in E : e.fd # t.ccs[s].sk
  BY DEF SlotOf
<1>6. \A c \in Conns : (\A s \in Z : t.ccs[s].sk # c) => ask2[c] = ask[c]
  BY DEF SlotOf
<1> HIDE DEF Z
<1>7. Sound(Closed(t, Z))
  BY <1>3, ClosedSound
<1>8. Events(Closed(t, Z), q, E, B)
  BY <1>3, <1>4, <1>5, ClosedEvents
<1>9. Streams(Closed(t, Z), sn, ask2)
  BY <1>3, <1>6, ClosedStreams
<1> QED BY <1>2, <1>7, <1>8, <1>9

\* The table after a connection is accepted.
Opened(t, f, c) == [addconn(t, f, c) EXCEPT !.sock[c].st = "open", !.sock[c].flow = f]

\* It is the table with a slot and a socket changed.
LEMMA OpenedIs ==
    ASSUME NEW t \in TabType, NEW f \in 0..MaxFlow - 1, NEW c \in Conns, t.ccs[Slot(f)] = FreeSlot
    PROVE  \E a \in SlotType, k \in SockType :
              /\ Opened(t, f, c) = SetSock(SetSlot(t, Slot(f), a), c, k)
              /\ a.flow = f /\ a.sk = c /\ a.r = <<>>
              /\ k.st = "open" /\ k.flow = f /\ k.in = t.sock[c].in
<1> DEFINE s == Slot(f)
           a == [t.ccs[s] EXCEPT !.flow = f, !.sk = c]
           k == [t.sock[c] EXCEPT !.st = "open", !.flow = f]
           v == addconn(t, f, c)
<1>0. s \in Slots /\ t.ccs[s] \in SlotType /\ t.sock[c] \in SockType
  <2>1. f \in Nat
    BY ProxyAssumption
  <2> QED BY <2>1, SlotRange DEF TabType
<1>1. a \in SlotType /\ a.flow = f /\ a.sk = c /\ a.r = <<>>
  <2> DEFINE x == t.ccs[s]
  <2>1. c \in Clients \cup {None} /\ x.r = <<>>
    BY DEF Clients, FreeSlot
  <2>2. x \in SlotType
    BY <1>0
  <2> HIDE DEF x
  <2>3. [x EXCEPT !.flow = f, !.sk = c] \in SlotType
    BY <2>1, <2>2 DEF SlotType
  <2>4. /\ [x EXCEPT !.flow = f, !.sk = c].flow = f /\ [x EXCEPT !.flow = f, !.sk = c].sk = c
        /\ [x EXCEPT !.flow = f, !.sk = c].r = x.r
    BY <2>2 DEF SlotType
  <2> QED BY <2>1, <2>3, <2>4 DEF x
<1>2. k \in SockType /\ k.st = "open" /\ k.flow = f /\ k.in = t.sock[c].in
  <2> DEFINE x == t.sock[c]
  <2>1. x \in SockType
    BY <1>0
  <2> HIDE DEF x
  <2>2. [x EXCEPT !.st = "open", !.flow = f] \in SockType
    BY <2>1 DEF SockType
  <2>3. /\ [x EXCEPT !.st = "open", !.flow = f].st = "open" /\ [x EXCEPT !.st = "open", !.flow = f].flow = f
        /\ [x EXCEPT !.st = "open", !.flow = f].in = x.in
    BY <2>1 DEF SockType
  <2> QED BY <2>2, <2>3 DEF x
<1>3. v = SetSlot(t, s, a)
  BY DEF addconn, SetSlot
<1>4. v \in TabType /\ v.sock = t.sock
  <2> HIDE DEF a
  <2> QED BY <1>0, <1>1, <1>3 DEF SetSlot, TabType
<1>5. Opened(t, f, c) = [v EXCEPT !.sock[c].st = "open", !.sock[c].flow = f]
  BY DEF Opened
<1> HIDE DEF v
<1>6. [v EXCEPT !.sock[c].st = "open", !.sock[c].flow = f]
          = SetSock(v, c, [v.sock[c] EXCEPT !.st = "open", !.flow = f])
  BY <1>4 DEF SetSock, TabType
<1>7. Opened(t, f, c) = SetSock(SetSlot(t, s, a), c, k)
  BY <1>3, <1>4, <1>5, <1>6
<1> HIDE DEF a, k, s
<1>8. /\ Opened(t, f, c) = SetSock(SetSlot(t, Slot(f), a), c, k)
      /\ a.flow = f /\ a.sk = c /\ a.r = <<>>
      /\ k.st = "open" /\ k.flow = f /\ k.in = t.sock[c].in
  BY <1>1, <1>2, <1>7 DEF s
<1> QED BY <1>1, <1>2, <1>8

\* An accepted connection keeps the invariant.
LEMMA OpenedFacts ==
    ASSUME NEW t, Sound(t), NEW f \in 1..MaxFlow - 1, t.ccs[Slot(f)].flow = 0,
           NEW c \in Conns, t.sock[c].st = "backlog", NEW p, p.at \notin {"send", "recv"},
           NEW E, NEW B, B \subseteq Conns, Events(t, p, E, B), NEW sn, NEW ask, Streams(t, sn, ask)
    PROVE  LET u == Opened(t, f, c) IN
           /\ Sound(u) /\ Events(u, p, E, B \ {c}) /\ Streams(u, sn, ask)
           /\ Finds(u, f) => \A e \in E : e.fd # u.ccs[Slot(f)].sk
<1> DEFINE s == Slot(f)
<1>0. t \in TabType /\ s \in Slots /\ f \in 0..MaxFlow - 1
  BY SlotRange, ProxyAssumption DEF Sound
<1>1. t.ccs[s] = FreeSlot
  BY <1>0 DEF Sound
<1>2. PICK a \in SlotType, k \in SockType :
              /\ Opened(t, f, c) = SetSock(SetSlot(t, s, a), c, k)
              /\ a.flow = f /\ a.sk = c /\ a.r = <<>>
              /\ k.st = "open" /\ k.flow = f /\ k.in = t.sock[c].in
  BY <1>0, <1>1, OpenedIs
<1> DEFINE u == SetSock(SetSlot(t, s, a), c, k)
<1>5. /\ Sound(u) /\ \A d \in Conns \ {c} : u.sock[d] = t.sock[d]
      /\ \A d \in Conns : Held(u, d) = Held(t, d) /\ u.sock[d].in = t.sock[d].in
      /\ u.sock[c].st = "open" /\ u.sock[c].flow = f
  BY <1>2, OpenSlot
<1> HIDE DEF u
<1>6. \A e \in E : e.fd # c
  BY DEF Events
<1>7. Events(u, p, E, B \ {c})
  BY <1>5, <1>6 DEF Events
<1>8. Streams(u, sn, ask)
  <2>1. ASSUME NEW d \in Conns, u.sock[d].st # "closed" PROVE t.sock[d].st # "closed"
    BY <1>5, <2>1
  <2> QED BY <1>5, <2>1 DEF Streams
<1>9. u.ccs[s].sk = c
  BY <1>5 DEF Sound
<1>10. Opened(t, f, c) = u
  BY <1>2 DEF u
<1> QED BY <1>5, <1>6, <1>7, <1>8, <1>9, <1>10

\* A connection refused because the table is full keeps the invariant.
LEMMA RefusedFacts ==
    ASSUME NEW t, Sound(t), NEW c \in Conns, t.sock[c].st = "backlog", NEW p, p.at \notin {"send", "recv"},
           NEW E, NEW B, B \subseteq Conns, Events(t, p, E, B), NEW sn, NEW ask, Streams(t, sn, ask)
    PROVE  LET u == [t EXCEPT !.sock[c] = [NoSock EXCEPT !.st = "closed"]] IN
           Sound(u) /\ Events(u, p, E, B \ {c}) /\ Streams(u, sn, ask)
<1> DEFINE k == [NoSock EXCEPT !.st = "closed"]
           u == [t EXCEPT !.sock[c] = k]
<1>0. t \in TabType
  BY DEF Sound
<1>1. k \in SockType /\ k.st = "closed"
  BY FreeTypes
<1> HIDE DEF k
<1>2. /\ u \in TabType /\ u.ccs = t.ccs /\ u.sock[c] = k
      /\ \A d \in Conns \ {c} : u.sock[d] = t.sock[d]
  BY <1>0, <1>1 DEF TabType
<1> HIDE DEF u
<1>3. ASSUME NEW s \in Slots, u.ccs[s].flow # 0, u.ccs[s].sk \in Conns
      PROVE  u.sock[u.ccs[s].sk].st = "open" /\ u.sock[u.ccs[s].sk].flow = u.ccs[s].flow
  <2>1. t.sock[t.ccs[s].sk].st = "open" /\ t.sock[t.ccs[s].sk].flow = t.ccs[s].flow
    BY <1>2, <1>3 DEF Sound
  <2> QED BY <1>2, <1>3, <2>1
<1>4. ASSUME NEW d \in Conns, u.sock[d].st = "open"
      PROVE  /\ u.sock[d].flow # 0 /\ u.ccs[Slot(u.sock[d].flow)].flow = u.sock[d].flow
             /\ u.ccs[Slot(u.sock[d].flow)].sk = d
  <2>1. d # c /\ u.sock[d] = t.sock[d]
    BY <1>1, <1>2, <1>4
  <2> QED BY <1>2, <1>4, <2>1 DEF Sound
<1>5. Sound(u)
  <2>1. ASSUME NEW s \in Slots
        PROVE  IF u.ccs[s].flow = 0 THEN u.ccs[s] = FreeSlot
               ELSE Slot(u.ccs[s].flow) = s /\ u.ccs[s].sk \in Clients
    BY <1>2 DEF Sound
  <2> QED BY <1>2, <1>3, <1>4, <2>1 DEF Sound
<1>6. Events(u, p, E, B \ {c})
  BY <1>2 DEF Events
<1>7. Streams(u, sn, ask)
  <2>1. ASSUME NEW d \in Conns, u.sock[d].st # "closed" PROVE u.sock[d] = t.sock[d] /\ Held(u, d) = Held(t, d)
    BY <1>1, <1>2, <2>1 DEF Held
  <2> QED BY <2>1 DEF Streams
<1> QED BY <1>5, <1>6, <1>7 DEF u, k

\* handle_accept, one connection.
LEMMA HandleAcceptStep ==
    ASSUME IInv, HandleAccept
    PROVE  IInv'
<1> DEFINE place == FindFlow(tab, NextFlow)
<1>0. Typed /\ Sound(tab) /\ Events(tab, pc, evs, backlog) /\ Streams(tab, sent, asked)
  BY DEF IInv
<1>1. pc = At("accept") /\ UNCHANGED <<evs, udpq, reqq, rspq, sent, asked>>
  BY DEF HandleAccept, hist
<1>2. pc.at = "accept" /\ pc \in PcType /\ At("events") \in PcType /\ At("events").at = "events"
  BY <1>1, AtType
<1>3. flow_ \in 0..MaxFlow - 1 /\ blob \in Seq(UnitSet) /\ backlog \subseteq Conns
  BY <1>0 DEF Typed
<1>4. CASE backlog = {} /\ pc' = At("events") /\ UNCHANGED <<tab, flow_, blob, backlog>>
  <2>1. Events(tab, pc', evs, backlog)
    BY <1>0, <1>2, <1>4, EventsNext
  <2>2. Typed'
    BY <1>0, <1>1, <1>2, <1>4 DEF Typed
  <2> QED BY <1>0, <1>1, <1>4, <2>1, <2>2 DEF IInv
<1>5. ASSUME NEW c \in backlog,
             backlog' = backlog \ {c}, flow_' = place.flow,
             blob' = IF ~place.ok \/ IpLimit THEN <<>> ELSE blob,
             \/ /\ ~place.ok
                /\ tab' = [tab EXCEPT !.sock[c] = [NoSock EXCEPT !.st = "closed"]]
                /\ pc' = At("events")
             \/ place.ok /\ tab' = Opened(tab, place.flow, c) /\ UNCHANGED pc
             \/ /\ place.ok /\ tab' = closeconn(Opened(tab, place.flow, c), place.flow)
                /\ pc' \in {At("events")} \cup (IF IpLimit THEN {pc} ELSE {})
      PROVE  IInv'
  <2>1. place.flow \in 1..MaxFlow - 1 /\ (place.ok => tab.ccs[Slot(place.flow)].flow = 0)
    BY <1>3, NextFlowRange, FindFlowFacts
  <2> HIDE DEF place
  <2>2. place.flow \in 0..MaxFlow - 1 /\ place.flow \in Nat
    BY <2>1, ProxyAssumption
  <2>3. c \in Conns /\ tab.sock[c].st = "backlog"
    BY <1>0, <1>3 DEF Events
  <2>4. pc' \in PcType /\ pc'.at \in {"events", "accept"}
    BY <1>2, <1>5
  <2>5. Typed'
    <3>1. blob' \in Seq(UnitSet)
      BY <1>3, <1>5
    <3>2. backlog' \subseteq Conns /\ flow_' \in 0..MaxFlow - 1
      BY <1>3, <1>5, <2>2
    <3> QED BY <1>0, <1>1, <2>4, <3>1, <3>2 DEF Typed
  <2>6. pc.at \notin {"send", "recv"} /\ backlog' \subseteq backlog /\ backlog' \subseteq Conns
    BY <1>2, <1>3, <1>5
  <2>7. CASE tab' = [tab EXCEPT !.sock[c] = [NoSock EXCEPT !.st = "closed"]]
    <3>1. Sound(tab') /\ Events(tab', pc, evs, backlog \ {c}) /\ Streams(tab', sent, asked)
      BY <1>0, <1>3, <2>3, <2>6, <2>7, RefusedFacts
    <3>2. Events(tab', pc', evs, backlog')
      BY <1>5, <2>4, <3>1, EventsNext
    <3> QED BY <1>1, <2>5, <3>1, <3>2 DEF IInv
  <2>8. CASE place.ok
    <3> DEFINE u == Opened(tab, place.flow, c)
    <3>1. /\ Sound(u) /\ Events(u, pc, evs, backlog \ {c}) /\ Streams(u, sent, asked)
          /\ Finds(u, place.flow) => \A e \in evs : e.fd # u.ccs[Slot(place.flow)].sk
      BY <1>0, <1>3, <2>1, <2>3, <2>6, <2>8, OpenedFacts
    <3> HIDE DEF u
    <3>2. CASE tab' = u
      <4>1. Events(tab', pc', evs, backlog')
        BY <1>5, <2>4, <3>1, <3>2, EventsNext
      <4> QED BY <1>1, <2>5, <3>1, <3>2, <4>1 DEF IInv
    <3>3. CASE tab' = closeconn(u, place.flow)
      <4>1. \A d \in Conns : Ordered(d, asked[d])
        BY <1>0 DEF Streams
      <4>2. Sound(tab') /\ Events(tab', pc', evs, backlog') /\ Streams(tab', sent, asked)
        BY <1>5, <2>2, <2>4, <2>6, <3>1, <3>3, <4>1, CloseFacts
      <4> QED BY <1>1, <2>5, <4>2 DEF IInv
    <3>4. tab' = u \/ tab' = closeconn(u, place.flow)
      BY <1>5, <2>8 DEF u
    <3> QED BY <3>2, <3>3, <3>4
  <2> QED BY <1>5, <2>7, <2>8
<1> QED
  <2>1. \/ backlog = {} /\ pc' = At("events") /\ UNCHANGED <<tab, flow_, blob, backlog>>
        \/ \E c \in backlog :
             /\ backlog' = backlog \ {c}
             /\ flow_' = place.flow
             /\ blob' = IF ~place.ok \/ IpLimit THEN <<>> ELSE blob
             /\ \/ /\ ~place.ok
                   /\ tab' = [tab EXCEPT !.sock[c] = [NoSock EXCEPT !.st = "closed"]]
                   /\ pc' = At("events")
                \/ place.ok /\ tab' = Opened(tab, place.flow, c) /\ UNCHANGED pc
                \/ /\ place.ok /\ tab' = closeconn(Opened(tab, place.flow, c), place.flow)
                   /\ pc' \in {At("events")} \cup (IF IpLimit THEN {pc} ELSE {})
    BY ZenonT(30) DEF HandleAccept, Opened
  <2> HIDE DEF place
  <2> QED BY <1>4, <1>5, <2>1

\* The data of a datagram.
GramData(g) == <<Unit(g, 1, 1), Unit(g, 1, 2)>>

\* The data of a datagram is a sequence of two units.
LEMMA GramDataType == ASSUME NEW g \in Grams PROVE GramData(g) \in Seq(UnitSet) /\ Len(GramData(g)) = 2
<1>1. 1 \in 1..MaxReq + 1 /\ 1 \in 1..ReqLen /\ 2 \in 1..ReqLen /\ g \in Clients
  BY ProxyAssumption DEF ReqLen, Clients
<1>2. Unit(g, 1, 1) \in UnitSet /\ Unit(g, 1, 2) \in UnitSet
  BY <1>1 DEF UnitSet
<1> QED BY <1>2 DEF GramData

\* The table after a datagram is the table with one slot changed.
LEMMA GramSlotIs ==
    ASSUME NEW t \in TabType, NEW f \in 0..MaxFlow - 1, NEW g \in Grams
    PROVE  \E a \in SlotType :
              /\ [addconn(t, f, g) EXCEPT !.ccs[Slot(f)].r = GramData(g)] = SetSlot(t, Slot(f), a)
              /\ a.flow = f /\ a.sk = g
<1> DEFINE s == Slot(f)
           d == GramData(g)
           x == t.ccs[s]
           a == [x EXCEPT !.flow = f, !.sk = g]
           b == [a EXCEPT !.r = d]
<1>0. s \in Slots /\ x \in SlotType
  <2>1. f \in Nat
    BY ProxyAssumption
  <2> QED BY <2>1, SlotRange DEF TabType
<1>1. d \in Seq(UnitSet) /\ g \in Clients \cup {None}
  BY GramDataType DEF Clients
<1> HIDE DEF d
<1>2. addconn(t, f, g) = SetSlot(t, s, a)
  BY DEF addconn, SetSlot
<1> HIDE DEF x
<1>3. a \in SlotType /\ a.flow = f /\ a.sk = g
  BY <1>0, <1>1 DEF SlotType
<1> HIDE DEF a
<1>4. b \in SlotType /\ b.flow = f /\ b.sk = g
  BY <1>1, <1>3 DEF SlotType
<1>5. [SetSlot(t, s, a) EXCEPT !.ccs[s].r = d] = SetSlot(t, s, b)
  BY <1>0, <1>3 DEF SetSlot, TabType
<1> HIDE DEF b
<1>6. [addconn(t, f, g) EXCEPT !.ccs[s].r = d] = SetSlot(t, s, b)
  BY <1>2, <1>5
<1> QED BY <1>4, <1>6 DEF s, d

\* handle_accept_udp, one datagram.
LEMMA HandleUdpStep ==
    ASSUME IInv, HandleUdp
    PROVE  IInv'
<1> DEFINE place == FindFlow(tab, NextFlow)
<1>0. Typed /\ Sound(tab) /\ Events(tab, pc, evs, backlog) /\ Streams(tab, sent, asked) /\ tab \in TabType
  BY DEF IInv, Sound
<1>1. pc = At("udp") /\ UNCHANGED <<evs, backlog, rspq, sent>>
  BY DEF HandleUdp
<1>2. pc.at = "udp" /\ pc \in PcType /\ At("events") \in PcType /\ At("events").at = "events"
  BY <1>1, AtType
<1>3. flow_ \in 0..MaxFlow - 1 /\ blob \in Seq(UnitSet) /\ reqq \subseteq MsgType /\ udpq \subseteq Grams
      /\ asked \in [Clients -> Seq(Seq(UnitSet))]
  BY <1>0 DEF Typed
<1>4. place.flow \in 1..MaxFlow - 1 /\ (place.ok => tab.ccs[Slot(place.flow)].flow = 0)
  BY <1>3, NextFlowRange, FindFlowFacts
<1>5. place.flow \in 0..MaxFlow - 1
  BY <1>4, ProxyAssumption
<1>6. /\ flow_' = flow_ \/ flow_' = place.flow
      /\ \/ /\ pc' = At("events") /\ blob' = IF place.ok THEN blob ELSE <<>>
            /\ UNCHANGED <<tab, udpq, reqq, asked>>
         \/ /\ place.ok /\ UNCHANGED pc
            /\ \E g \in udpq :
                 /\ udpq' = udpq \ {g}
                 /\ \/ /\ blob' = IF HasClose THEN Pad(<<>>, ReqLen) ELSE <<>>
                       /\ UNCHANGED <<tab, reqq, asked>>
                    \/ \E o \in Handled(GramData(g)) :
                         /\ tab' = [addconn(tab, place.flow, g) EXCEPT !.ccs[Slot(place.flow)].r = GramData(g)]
                         /\ blob' = IF HasClose THEN SubSeq(GramData(g), o.n * ReqLen + 1, ReqLen) ELSE <<>>
                         /\ reqq' = reqq \cup Passed(place.flow, GramData(g), o.n)
                         /\ asked' = [asked EXCEPT ![g] = @ \o [j \in 1..o.n |-> GramData(g)]]
  BY Zenon DEF HandleUdp, GramData
<1> HIDE DEF place
<1>7. flow_' \in 0..MaxFlow - 1
  BY <1>3, <1>5, <1>6
<1>8. CASE /\ pc' = At("events") /\ blob' = IF place.ok THEN blob ELSE <<>>
           /\ UNCHANGED <<tab, udpq, reqq, asked>>
  <2>1. blob' \in Seq(UnitSet)
    BY <1>3, <1>8
  <2>2. Typed'
    BY <1>0, <1>1, <1>2, <1>7, <1>8, <2>1 DEF Typed
  <2>3. Events(tab, pc', evs, backlog)
    BY <1>0, <1>2, <1>8, EventsNext
  <2> QED BY <1>0, <1>1, <1>8, <2>2, <2>3 DEF IInv
<1>9. ASSUME NEW g \in udpq, UNCHANGED pc, udpq' = udpq \ {g},
             blob' = IF HasClose THEN Pad(<<>>, ReqLen) ELSE <<>>,
             UNCHANGED <<tab, reqq, asked>>
      PROVE  IInv'
  <2>1. blob' \in Seq(UnitSet)
    <3>1. <<>> \in Seq(UnitSet) /\ ReqLen \in Nat
      BY DEF ReqLen
    <3>2. Pad(<<>>, ReqLen) \in Seq(UnitSet)
      BY <3>1, PadType
    <3> QED BY <1>9, <3>1, <3>2
  <2>2. Typed'
    BY <1>0, <1>1, <1>2, <1>7, <1>9, <2>1 DEF Typed
  <2> QED BY <1>0, <1>1, <1>9, <2>2 DEF IInv
<1>10. ASSUME place.ok, UNCHANGED pc, NEW g \in udpq, udpq' = udpq \ {g}, NEW o \in Handled(GramData(g)),
              tab' = [addconn(tab, place.flow, g) EXCEPT !.ccs[Slot(place.flow)].r = GramData(g)],
              blob' = IF HasClose THEN SubSeq(GramData(g), o.n * ReqLen + 1, ReqLen) ELSE <<>>,
              reqq' = reqq \cup Passed(place.flow, GramData(g), o.n),
              asked' = [asked EXCEPT ![g] = @ \o [j \in 1..o.n |-> GramData(g)]]
       PROVE  IInv'
  <2>0. g \in Grams /\ g \in Clients /\ g \notin Conns /\ Conns \subseteq Clients
    BY <1>3, ProxyAssumption DEF Clients, Conns
  <2>1. GramData(g) \in Seq(UnitSet) /\ Len(GramData(g)) = 2
    BY <2>0, GramDataType
  <2>2. o.n \in Nat /\ 2 * o.n <= 2
    BY <2>1, HandledFacts
  <2>3. blob' \in Seq(UnitSet)
    <3>1. <<>> \in Seq(UnitSet) /\ o.n * ReqLen + 1 \in Nat \ {0} /\ ReqLen \in Nat /\ ReqLen <= Len(GramData(g))
      BY <2>1, <2>2 DEF ReqLen
    <3>2. SubSeq(GramData(g), o.n * ReqLen + 1, ReqLen) \in Seq(UnitSet)
      BY <2>1, <3>1, SubSeqType
    <3> QED BY <1>10, <3>1, <3>2
  <2>4. reqq' \subseteq MsgType
    <3>1. Passed(place.flow, GramData(g), o.n) \subseteq MsgType
      BY <1>5, <2>1, <2>2, PassedType
    <3> QED BY <1>3, <1>10, <3>1
  <2>5. asked' \in [Clients -> Seq(Seq(UnitSet))] /\ \A c \in Conns : asked'[c] = asked[c]
    <3> DEFINE d == GramData(g)
               new == [j \in 1..o.n |-> d]
    <3>1. new \in Seq(Seq(UnitSet))
      <4>1. new \in [1..o.n -> Seq(UnitSet)]
        BY <2>1
      <4> QED BY <2>2, <4>1, SeqDef
    <3>2. asked' = [asked EXCEPT ![g] = asked[g] \o new]
      BY <1>10
    <3> HIDE DEF new
    <3>3. asked[g] \o new \in Seq(Seq(UnitSet))
      BY <1>3, <2>0, <3>1, ConcatProperties
    <3> QED BY <1>3, <2>0, <3>2, <3>3
  <2>6. Typed'
    <3>1. udpq' \subseteq Grams
      BY <1>3, <1>10
    <3> QED BY <1>0, <1>1, <1>2, <1>7, <1>10, <2>3, <2>4, <2>5, <3>1 DEF Typed
  <2>7. PICK a \in SlotType : tab' = SetSlot(tab, Slot(place.flow), a) /\ a.flow = place.flow /\ a.sk = g
    <3>1. \E a \in SlotType :
              /\ [addconn(tab, place.flow, g) EXCEPT !.ccs[Slot(place.flow)].r = GramData(g)]
                    = SetSlot(tab, Slot(place.flow), a)
              /\ a.flow = place.flow /\ a.sk = g
      BY <1>0, <1>5, <2>0, GramSlotIs
    <3> QED BY <1>10, <3>1
  <2>8. Sound(tab') /\ tab'.sock = tab.sock /\ \A d \in Conns : Held(tab', d) = Held(tab, d)
    <3> DEFINE f == place.flow
    <3>1. f \in 1..MaxFlow - 1 /\ tab.ccs[Slot(f)].flow = 0
      BY <1>4, <1>10
    <3>2. a.flow = f /\ a.sk \in Grams /\ tab' = SetSlot(tab, Slot(f), a)
      BY <2>0, <2>7
    <3> HIDE DEF f
    <3> QED BY <1>0, <3>1, <3>2, FillSlot
  <2>9. Events(tab', pc', evs', backlog')
    <3>1. pc'.at = "udp"
      BY <1>2, <1>10
    <3> QED BY <1>0, <1>1, <2>8, <3>1 DEF Events
  <2>10. Streams(tab', sent', asked')
    BY <1>0, <1>1, <2>5, <2>8 DEF Streams
  <2> QED BY <2>6, <2>8, <2>9, <2>10 DEF IInv
<1> QED BY <1>6, <1>8, <1>9, <1>10

----------------------------------------------------------------------------
\* The invariant for a table with the same connections and data.
LEMMA Kept ==
    ASSUME NEW t, NEW u, NEW p \in PcType, NEW E, NEW B, B \subseteq Conns, NEW sn, NEW ask,
           Sound(t), Events(t, p, E, B), Streams(t, sn, ask), Like(t, u), Data(t, u)
    PROVE  Sound(u) /\ Events(u, p, E, B) /\ Streams(u, sn, ask) /\ u \in TabType
<1>1. t \in TabType
  BY DEF Sound
<1> QED BY <1>1, LikeSound, LikeEvents, DataStreams DEF Like

\* The kernel takes a part of the data, or there is an error.
LEMMA SendResRange ==
    ASSUME NEW t, NEW sk, NEW n \in Nat, NEW k \in SendRes(t, sk, n)
    PROVE  k = -1 \/ (k \in Nat /\ k <= n)
BY DEF SendRes

\* A send changes no slot of the table.
LEMMA SentCcs == ASSUME NEW t \in TabType, NEW sk, NEW n, NEW k PROVE Sent(t, sk, n, k).ccs = t.ccs
BY DEF Sent, TabType

\* The cache after k units of it were sent, and after data was appended.
LEMMA CutSlot ==
    ASSUME NEW c \in SlotType, NEW k \in Nat, k <= Len(c.w)
    PROVE  LET d == [c EXCEPT !.w = SubSeq(@, k + 1, Len(c.w))] IN
           d \in SlotType /\ d.flow = c.flow /\ d.sk = c.sk /\ d.r = c.r
<1> DEFINE w == SubSeq(c.w, k + 1, Len(c.w))
<1>1. c.w \in Seq(UnitSet)
  BY DEF SlotType
<1>2. w \in Seq(UnitSet)
  BY <1>1, RestOf
<1> HIDE DEF w
<1>3. [c EXCEPT !.w = w] \in SlotType
  BY <1>2 DEF SlotType
<1>4. [c EXCEPT !.w = w].flow = c.flow /\ [c EXCEPT !.w = w].sk = c.sk /\ [c EXCEPT !.w = w].r = c.r
  BY DEF SlotType
<1> QED BY <1>3, <1>4 DEF w

\* append changes the unsent data of a slot only.
LEMMA AppendSlot ==
    ASSUME NEW c \in SlotType, NEW data \in Seq(UnitSet)
    PROVE  /\ append(c, data) \in SlotType /\ append(c, data).flow = c.flow
           /\ append(c, data).sk = c.sk /\ append(c, data).r = c.r
<1> DEFINE w == c.w \o data
<1>1. c.w \in Seq(UnitSet)
  BY DEF SlotType
<1>2. w \in Seq(UnitSet)
  BY <1>1, ConcatProperties
<1>3. append(c, data) = IF c.fin THEN c ELSE [c EXCEPT !.w = w]
  BY DEF append
<1> HIDE DEF w
<1>4. [c EXCEPT !.w = w] \in SlotType
  BY <1>2 DEF SlotType
<1>5. [c EXCEPT !.w = w].flow = c.flow /\ [c EXCEPT !.w = w].sk = c.sk /\ [c EXCEPT !.w = w].r = c.r
  BY DEF SlotType
<1> QED BY <1>3, <1>4, <1>5

\* The connection of the event in work.
LEMMA MineFacts ==
    ASSUME NEW t, Sound(t), NEW E, NEW f, Mine(t, E, f)
    PROVE  /\ Finds(t, f) /\ t.ccs[Slot(f)].sk \in Conns /\ t.sock[t.ccs[Slot(f)].sk].st = "open"
           /\ t.sock[t.ccs[Slot(f)].sk].flow = f /\ \A e \in E : e.fd # t.ccs[Slot(f)].sk
<1>1. PICK c \in Conns : t.sock[c].st = "open" /\ t.sock[c].flow = f /\ \A e \in E : e.fd # c
  BY DEF Mine
<1>2. f # 0 /\ t.ccs[Slot(f)].flow = f /\ t.ccs[Slot(f)].sk = c
  BY <1>1 DEF Sound
<1> QED BY <1>1, <1>2 DEF Finds

\* The slot of a flow number that is found.
LEMMA FoundSlot ==
    ASSUME NEW t \in TabType, NEW f \in Nat, Finds(t, f)
    PROVE  Slot(f) \in Slots /\ t.ccs[Slot(f)] \in SlotType /\ t.ccs[Slot(f)].flow # 0
BY SlotRange DEF Finds, TabType

\* The loop goes on with the event in work.
LEMMA EventsGo ==
    ASSUME NEW t, NEW p, NEW q, NEW E, NEW B, Events(t, p, E, B), q.flow = p.flow,
           \/ p.at = "send" /\ q.at = "recv"
           \/ q.at = p.at
    PROVE  Events(t, q, E, B)
BY DEF Events

\* After the EPOLLOUT part of an event comes its EPOLLIN part, or the next event.
LEMMA AfterOutFacts ==
    ASSUME pc \in PcType, pc.at = "send"
    PROVE  AfterOut \in PcType /\ (AfterOut.at = "events" \/ (AfterOut.at = "recv" /\ AfterOut.flow = pc.flow))
<1>1. At("events") \in PcType /\ At("events").at = "events"
  BY AtType
<1>2. [pc EXCEPT !.at = "recv"] \in PcType /\ [pc EXCEPT !.at = "recv"].at = "recv" /\ [pc EXCEPT !.at = "recv"].flow = pc.flow
  BY DEF PcType
<1> QED BY <1>1, <1>2 DEF AfterOut

\* EPOLLOUT: the cache is sent, and the connection may be closed.
LEMMA HandleOutStep ==
    ASSUME IInv, HandleOut
    PROVE  IInv'
<1> DEFINE f == pc.flow
           s == Slot(f)
           cc == tab.ccs[s]
           sk == cc.sk
           n == Len(cc.w)
           t(k) == [Sent(tab, sk, n, k) EXCEPT !.ccs[s].w = SubSeq(@, k + 1, n)]
<1>0. Typed /\ Sound(tab) /\ Events(tab, pc, evs, backlog) /\ Streams(tab, sent, asked) /\ tab \in TabType
  BY DEF IInv, Sound
<1>1. pc.at = "send" /\ pc' = AfterOut /\ UNCHANGED <<flow_, blob, evs, backlog, udpq, sent, reqq, rspq, asked>>
  BY DEF HandleOut, net
<1>2. pc \in PcType /\ backlog \subseteq Conns /\ f \in 0..MaxFlow - 1 /\ f \in Nat
  <2>1. pc \in PcType /\ backlog \subseteq Conns
    BY <1>0 DEF Typed
  <2> QED BY <2>1, ProxyAssumption DEF PcType
<1>3. pc' \in PcType /\ (pc'.at = "events" \/ (pc'.at = "recv" /\ pc'.flow = f))
  BY <1>1, <1>2, AfterOutFacts
<1>4. Mine(tab, evs, f)
  BY <1>0, <1>1 DEF Events
<1>5. Finds(tab, f) /\ sk \in Conns /\ \A e \in evs : e.fd # sk
  BY <1>0, <1>4, MineFacts
<1>6. s \in Slots /\ cc \in SlotType /\ cc.flow # 0 /\ f # 0
  BY <1>0, <1>2, <1>5, FoundSlot DEF Finds
<1>7. n \in Nat /\ cc.w \in Seq(UnitSet)
  BY <1>6, LenProperties DEF SlotType
<1>8. PICK k \in IF n = 0 THEN {0} ELSE SendRes(tab, sk, n) :
        \/ k = -1 /\ tab' = closeconn(tab, f)
        \/ /\ k # -1
           /\ tab' = CASE k = n /\ cc.fin -> closeconn(t(k), f)
                       [] k = n /\ ~cc.fin -> modify(t(k), sk, FALSE)
                       [] OTHER -> t(k)
  BY <1>5, ZenonT(30) DEF HandleOut
<1>9. k = -1 \/ (k \in Nat /\ k <= n)
  <2> HIDE DEF n
  <2> QED BY <1>7, SendResRange
<1>10. ASSUME k # -1 PROVE Like(tab, t(k)) /\ Data(tab, t(k))
  <2> DEFINE t1 == Sent(tab, sk, n, k)
             c1 == [cc EXCEPT !.w = SubSeq(@, k + 1, Len(cc.w))]
  <2>1. Like(tab, t1) /\ Data(tab, t1) /\ t1.ccs = tab.ccs
    BY <1>0, SentLike, SentCcs
  <2>2. t1 \in TabType
    BY <2>1 DEF Like
  <2> HIDE DEF t1
  <2>3. t(k) = SetSlot(t1, s, [t1.ccs[s] EXCEPT !.w = SubSeq(t1.ccs[s].w, k + 1, n)])
    BY <1>6, <2>2, SMTT(30) DEF SetSlot, TabType, t1
  <2>4. t(k) = SetSlot(t1, s, c1)
    BY <2>1, <2>3
  <2>5. c1 \in SlotType /\ c1.flow = cc.flow /\ c1.sk = cc.sk /\ c1.r = cc.r
    BY <1>6, <1>9, <1>10, CutSlot
  <2> HIDE DEF c1
  <2>6. Like(t1, SetSlot(t1, s, c1)) /\ Data(t1, SetSlot(t1, s, c1))
    BY <1>6, <2>1, <2>2, <2>5, SlotSet
  <2> HIDE DEF t
  <2>7. Like(t1, t(k)) /\ Data(t1, t(k))
    BY <2>4, <2>6
  <2> QED BY <2>1, <2>7, LikeTrans
<1>11. k # -1 => tab' = closeconn(t(k), f) \/ tab' = modify(t(k), sk, FALSE) \/ tab' = t(k)
  <2> DEFINE A == closeconn(t(k), f)
             B == modify(t(k), sk, FALSE)
             C == t(k)
  <2>1. k # -1 => tab' = CASE k = n /\ cc.fin -> A [] k = n /\ ~cc.fin -> B [] OTHER -> C
    BY <1>8
  <2> HIDE DEF A, B, C, n, cc
  <2>2. k # -1 => tab' = A \/ tab' = B \/ tab' = C
    BY <2>1, Zenon
  <2> QED BY <2>2 DEF A, B, C
<1> HIDE DEF t
<1>12. \A c \in Conns : Ordered(c, asked[c])
  BY <1>0 DEF Streams
<1>13. ASSUME NEW u, Like(tab, u), Data(tab, u)
       PROVE  /\ Sound(closeconn(u, f)) /\ Events(closeconn(u, f), pc', evs, backlog) /\ Streams(closeconn(u, f), sent, asked)
              /\ Sound(u) /\ Events(u, pc', evs, backlog) /\ Streams(u, sent, asked)
  <2>1. Sound(u) /\ Events(u, pc, evs, backlog) /\ Streams(u, sent, asked)
    BY <1>0, <1>2, <1>13, Kept
  <2>2. u.ccs[s].sk = sk
    BY <1>6, <1>13 DEF Like
  <2>3. \A e \in evs : e.fd # u.ccs[Slot(f)].sk
    BY <1>5, <2>2
  <2>4. pc'.at # "send" /\ pc'.at \notin {"wait", "ctor"} /\ (pc'.at = "recv" => f # 0 /\ pc'.flow = f)
    BY <1>3, <1>6
  <2>5. Sound(closeconn(u, f)) /\ Events(closeconn(u, f), pc', evs, backlog) /\ Streams(closeconn(u, f), sent, asked)
    BY <1>2, <1>12, <2>1, <2>3, <2>4, CloseFacts
  <2>6. Events(u, pc', evs, backlog)
    <3>1. CASE pc'.at = "events"
      BY <2>1, <3>1, EventsNext
    <3>2. CASE pc'.at = "recv" /\ pc'.flow = f
      BY <1>1, <2>1, <3>2, EventsGo
    <3> QED BY <1>3, <3>1, <3>2
  <2> QED BY <2>1, <2>5, <2>6
<1>14. Sound(tab') /\ Events(tab', pc', evs, backlog) /\ Streams(tab', sent, asked)
  <2>1. CASE k = -1
    <3>1. tab' = closeconn(tab, f)
      BY <1>8, <2>1
    <3>2. Like(tab, tab) /\ Data(tab, tab)
      BY <1>0, LikeSelf
    <3> QED BY <1>13, <3>1, <3>2
  <2>2. CASE k # -1
    <3> DEFINE u == t(k)
    <3>1. Like(tab, u) /\ Data(tab, u)
      BY <1>10, <2>2
    <3> HIDE DEF u
    <3>2. u \in TabType
      BY <3>1 DEF Like
    <3>3. Like(u, modify(u, sk, FALSE)) /\ Data(u, modify(u, sk, FALSE))
      BY <1>5, <3>2, ModifyLike
    <3>4. Like(tab, modify(u, sk, FALSE)) /\ Data(tab, modify(u, sk, FALSE))
      BY <3>1, <3>3, LikeTrans
    <3>5. tab' = closeconn(u, f) \/ tab' = modify(u, sk, FALSE) \/ tab' = u
      BY <1>11, <2>2 DEF u
    <3> QED BY <1>13, <3>1, <3>4, <3>5
  <2> QED BY <2>1, <2>2
<1>15. Typed'
  BY <1>0, <1>1, <1>3 DEF Typed
<1> QED BY <1>1, <1>14, <1>15, SMTT(30) DEF IInv

\* After a read comes another one, or the next event.
LEMMA ReadOnFacts ==
    ASSUME pc \in PcType, pc.at = "recv"
    PROVE  ReadOn \in PcType /\ (ReadOn.at = "events" \/ (ReadOn.at = "recv" /\ ReadOn.flow = pc.flow))
<1>1. At("events") \in PcType /\ At("events").at = "events"
  BY AtType
<1> DEFINE q == [pc EXCEPT !.retry = pc.retry - 1]
<1>2. pc.retry - 1 \in Int
  BY DEF PcType
<1>3. q \in PcType /\ q.at = "recv" /\ q.flow = pc.flow
  BY <1>2 DEF PcType
<1>4. ReadOn = At("events") \/ ReadOn = q
  BY SMTT(30) DEF ReadOn
<1> HIDE DEF q
<1> QED BY <1>1, <1>3, <1>4

\* What one read does, given the connection of the event in work.
ReadStep(f, s, sk, k, o) ==
    LET data == DataIn(tab.ccs[s].r, tab.sock[sk].in, k)
        t == TableRead(tab, sk, s, SubSeq(tab.sock[sk].in, k + 1, Len(tab.sock[sk].in)),
                       SubSeq(data, o.ret + 1, Len(data)))
    IN  /\ reqq' = reqq \cup Passed(f, data, o.n)
        /\ asked' = [asked EXCEPT ![sk] = AskedIn(asked[sk], data, o.n)]
        /\ blob' = BlobAfter(data, o)
        /\ \/ o.ret = -1 /\ tab' = closeconn(tab, f) /\ pc' = At("events")
           \/ o.ret # -1 /\ tab' = t /\ pc' = ReadOn

\* HandleIn on a connection that has data is such a read.
LEMMA ReadStepIs ==
    ASSUME tab \in TabType, HandleIn, Finds(tab, pc.flow), Slot(pc.flow) \in Slots,
           tab.ccs[Slot(pc.flow)].sk \in Conns, tab.sock[tab.ccs[Slot(pc.flow)].sk].in # <<>>
    PROVE  LET s == Slot(pc.flow)
               sk == tab.ccs[s].sk
           IN  \E k \in 0..Len(tab.sock[sk].in) : \E o \in Handled(DataIn(tab.ccs[s].r, tab.sock[sk].in, k)) :
                   ReadStep(pc.flow, s, sk, k, o)
<1> DEFINE f == pc.flow
           s == Slot(f)
           sk == tab.ccs[s].sk
           in == tab.sock[sk].in
           k  == IF Len(in) < RecvMax THEN Len(in) ELSE RecvMax
           data == tab.ccs[s].r \o SubSeq(in, 1, k)
           t(o) == [tab EXCEPT !.sock[sk].in = SubSeq(@, k + 1, Len(@)),
                               !.ccs[s].r = SubSeq(data, o.ret + 1, Len(data))]
           u(o) == TableRead(tab, sk, s, SubSeq(in, k + 1, Len(in)), SubSeq(data, o.ret + 1, Len(data)))
<1>1. k \in 0..Len(in)
  <2>1. in \in Seq(UnitSet)
    BY DEF TabType, SockType
  <2>2. Len(in) \in Nat
    BY <2>1, LenProperties
  <2> QED BY <2>2, ProxyAssumption
<1>2. PICK o \in Handled(data) :
         /\ reqq' = reqq \cup Passed(f, data, o.n)
         /\ asked' = [asked EXCEPT ![sk] = asked[sk] \o [j \in 1..o.n |-> Request(data, j)]]
         /\ blob' = BlobAfter(data, o)
         /\ IF o.ret = -1
            THEN tab' = closeconn(tab, f) /\ pc' = At("events")
            ELSE tab' = t(o) /\ pc' = ReadOn
  BY ZenonT(30) DEF HandleIn
<1>3. t(o) = u(o)
  <2> DEFINE x == SubSeq(in, k + 1, Len(in))
             y == SubSeq(data, o.ret + 1, Len(data))
             v == SetSock(tab, sk, [tab.sock[sk] EXCEPT !.in = x])
  <2>1. t(o) = [tab EXCEPT !.sock[sk].in = x, !.ccs[s].r = y]
    OBVIOUS
  <2> HIDE DEF x, y
  <2>2. [tab EXCEPT !.sock[sk].in = x] = v
    BY DEF SetSock, TabType
  <2>3. v = [ccs |-> tab.ccs, sock |-> v.sock]
    BY SMTT(30) DEF SetSock, TabType
  <2>4. [tab EXCEPT !.sock[sk].in = x, !.ccs[s].r = y] = [v EXCEPT !.ccs[s].r = y]
    BY <2>2
  <2> HIDE DEF v
  <2>5. [v EXCEPT !.ccs[s].r = y] = SetSlot(v, s, [tab.ccs[s] EXCEPT !.r = y])
    BY <2>3 DEF SetSlot, TabType
  <2>6. u(o) = SetSlot(v, s, [tab.ccs[s] EXCEPT !.r = y])
    BY DEF x, y, v, TableRead
  <2> HIDE DEF t, u
  <2> QED BY <2>1, <2>4, <2>5, <2>6
<1>4. data = DataIn(tab.ccs[s].r, in, k)
  BY DEF DataIn
<1>5. asked[sk] \o [j \in 1..o.n |-> Request(data, j)] = AskedIn(asked[sk], data, o.n)
  BY SMTT(30) DEF AskedIn
<1> HIDE DEF t, k, data
<1>6. \/ o.ret = -1 /\ tab' = closeconn(tab, f) /\ pc' = At("events")
      \/ o.ret # -1 /\ tab' = u(o) /\ pc' = ReadOn
  BY <1>2, <1>3
<1>7. ReadStep(f, s, sk, k, o)
  BY <1>2, <1>4, <1>5, <1>6, Zenon DEF ReadStep
<1> QED BY <1>1, <1>4, <1>7

\* EPOLLIN: read and hand on, see the end, or find nothing.
LEMMA HandleInStep ==
    ASSUME IInv, HandleIn
    PROVE  IInv'
<1> DEFINE f == pc.flow
           s == Slot(f)
           cc == tab.ccs[s]
           sk == cc.sk
<1>0. Typed /\ Sound(tab) /\ Events(tab, pc, evs, backlog) /\ Streams(tab, sent, asked) /\ tab \in TabType
  BY DEF IInv, Sound
<1>1. pc.at = "recv" /\ UNCHANGED <<flow_, evs, backlog, udpq, sent, rspq>>
  BY DEF HandleIn, net
<1>2. pc \in PcType /\ backlog \subseteq Conns /\ f \in 0..MaxFlow - 1 /\ f \in Nat
  <2>1. pc \in PcType /\ backlog \subseteq Conns
    BY <1>0 DEF Typed
  <2> QED BY <2>1, ProxyAssumption DEF PcType
<1>3. At("events") \in PcType /\ At("events").at = "events"
  BY AtType
<1>4. Finds(tab, f) => Mine(tab, evs, f)
  BY <1>0, <1>1 DEF Events
<1>5. Finds(tab, f) => /\ sk \in Conns /\ tab.sock[sk].st = "open" /\ tab.sock[sk].flow = f /\ f # 0
                       /\ \A e \in evs : e.fd # sk
  BY <1>0, <1>4, MineFacts DEF Finds
<1>6. s \in Slots
  BY <1>2, SlotRange
<1>7. ASSUME pc' = At("events"), UNCHANGED <<tab, blob, reqq, asked>> PROVE IInv'
  <2>1. Typed'
    BY <1>0, <1>1, <1>3, <1>7 DEF Typed
  <2>2. Events(tab, pc', evs, backlog)
    BY <1>0, <1>3, <1>7, EventsNext
  <2> QED BY <1>0, <1>1, <1>7, <2>1, <2>2 DEF IInv
<1>8. ASSUME NEW ask2, \A c \in Conns : Ordered(c, ask2[c]),
             \A c \in Conns : ask2[c] # asked[c] => Finds(tab, f) /\ tab.ccs[s].sk = c
      PROVE  /\ Sound(closeconn(tab, f)) /\ Events(closeconn(tab, f), At("events"), evs, backlog)
             /\ Streams(closeconn(tab, f), sent, ask2)
  <2>1. At("events").at # "send" /\ At("events").at \notin {"wait", "ctor"} /\ At("events").at # "recv"
    BY <1>3
  <2> QED BY <1>0, <1>2, <1>5, <1>8, <2>1, CloseFacts
<1>9. \A c \in Conns : Ordered(c, asked[c])
  BY <1>0 DEF Streams
<1>10. ASSUME Disconnect(f), tab' = closeconn(tab, f), pc' = At("events"), UNCHANGED asked PROVE IInv'
  <2>1. blob' \in Seq(UnitSet) /\ reqq' \subseteq MsgType
    <3>1. reqq \subseteq MsgType /\ blob \in Seq(UnitSet)
      BY <1>0 DEF Typed
    <3>2. [flow |-> f, data |-> blob] \in MsgType
      BY <1>2, <3>1 DEF MsgType
    <3>3. blob' = <<>> /\ (reqq' = reqq \/ reqq' = reqq \cup {[flow |-> f, data |-> blob]})
      BY <1>10 DEF Disconnect
    <3> QED BY <3>1, <3>2, <3>3
  <2>2. Typed'
    BY <1>0, <1>1, <1>3, <1>10, <2>1 DEF Typed
  <2> QED BY <1>1, <1>8, <1>9, <1>10, <2>2 DEF IInv
<1>11. ASSUME Finds(tab, f), tab.sock[sk].in # <<>> PROVE IInv'
  <2> DEFINE in == tab.sock[sk].in
  <2>1. PICK k \in 0..Len(in) : \E o \in Handled(DataIn(cc.r, in, k)) : ReadStep(f, s, sk, k, o)
    BY <1>0, <1>5, <1>6, <1>11, ReadStepIs, ZenonT(30)
  <2> DEFINE data == DataIn(cc.r, in, k)
  <2>2. PICK o \in Handled(data) : ReadStep(f, s, sk, k, o)
    BY <2>1, SMTT(30)
  <2> DEFINE r2 == SubSeq(data, o.ret + 1, Len(data))
             n2 == SubSeq(in, k + 1, Len(in))
             a2 == AskedIn(asked[sk], data, o.n)
             t == TableRead(tab, sk, s, n2, r2)
  <2>3. /\ reqq' = reqq \cup Passed(f, data, o.n)
        /\ asked' = [asked EXCEPT ![sk] = a2]
        /\ blob' = BlobAfter(data, o)
        /\ \/ o.ret = -1 /\ tab' = closeconn(tab, f) /\ pc' = At("events")
           \/ o.ret # -1 /\ tab' = t /\ pc' = ReadOn
    BY <2>2 DEF ReadStep
  <2>4. sk \in Conns /\ sk \in Clients /\ Conns \subseteq Clients
    BY <1>5, <1>11 DEF Clients
  <2>5. cc.r \in Seq(UnitSet) /\ in \in Seq(UnitSet) /\ sent[sk] \in Nat
    BY <1>0, <1>6, <2>4 DEF TabType, SlotType, SockType, Typed
  <2>6. asked \in [Clients -> Seq(Seq(UnitSet))] /\ reqq \subseteq MsgType
    BY <1>0, SMTT(30) DEF Typed
  <2>7. Held(tab, sk) = cc.r
    BY <1>5, <1>11, SMTT(30) DEF Held
  <2>8. Ordered(sk, asked[sk]) /\ Follows(sk, cc.r, in, asked[sk], sent[sk])
    BY <1>0, <1>5, <1>11, <2>4, <2>7 DEF Streams
  <2>9. /\ data \in Seq(UnitSet) /\ a2 \in Seq(Seq(UnitSet)) /\ Ordered(sk, a2)
        /\ o.ret # -1 => Follows(sk, r2, n2, a2, sent[sk])
    <3> HIDE DEF sk, in
    <3>1. asked[sk] \in Seq(Seq(UnitSet))
      BY <2>4, <2>6
    <3> QED BY <2>4, <2>5, <2>8, <3>1, ReadStream, SMTT(30)
  <2>10. /\ o.n \in Nat /\ 2 * o.n <= Len(data)
         /\ o.ret # -1 => o.ret \in Nat /\ o.ret <= Len(data)
    BY <2>9, HandledFacts, ZenonT(30)
  <2> HIDE DEF data, a2
  <2>11. /\ asked' \in [Clients -> Seq(Seq(UnitSet))] /\ asked'[sk] = a2
         /\ \A c \in Conns \ {sk} : asked'[c] = asked[c]
    BY <2>3, <2>4, <2>6, <2>9, SMTT(30)
  <2>12. reqq' \subseteq MsgType /\ blob' \in Seq(UnitSet)
    BY <1>2, <2>3, <2>6, <2>9, <2>10, PassedType, BlobType
  <2>13. pc' \in PcType /\ (pc'.at = "events" \/ (pc'.at = "recv" /\ pc'.flow = f))
    BY <1>1, <1>2, <1>3, <2>3, ReadOnFacts
  <2>14. Typed'
    BY <1>0, <1>1, <2>11, <2>12, <2>13 DEF Typed
  <2>15. \A c \in Conns : Ordered(c, asked'[c])
    BY <1>9, <2>9, <2>11
  <2>16. CASE o.ret = -1
    <3>1. tab' = closeconn(tab, f) /\ pc' = At("events")
      BY <2>3, <2>16
    <3>2. \A c \in Conns : asked'[c] # asked[c] => Finds(tab, f) /\ tab.ccs[s].sk = c
      BY <1>11, <2>11
    <3>3. Sound(tab') /\ Events(tab', pc', evs, backlog) /\ Streams(tab', sent, asked')
      BY <1>8, <2>15, <3>1, <3>2
    <3> QED BY <1>1, <2>14, <3>3 DEF IInv
  <2>17. CASE o.ret # -1
    <3>1. tab' = t
      BY <2>3, <2>17, SMTT(30)
    <3>2. r2 \in Seq(UnitSet) /\ n2 \in Seq(UnitSet)
      <4>1. k \in Nat /\ k <= Len(in)
        BY <2>5, LenProperties
      <4> QED BY <2>5, <2>9, <2>10, <2>17, <4>1, RestOf
    <3> HIDE DEF r2, n2
    <3>3. /\ Like(tab, t) /\ Held(t, sk) = r2 /\ t.sock[sk].in = n2
          /\ \A d \in Conns \ {sk} : Held(t, d) = Held(tab, d) /\ t.sock[d] = tab.sock[d]
      <4>1. tab.sock[sk].st = "open" /\ s = Slot(tab.sock[sk].flow)
        BY <1>5, <1>11
      <4> QED BY <1>0, <2>4, <3>2, <4>1, ReadTable
    <3> HIDE DEF t
    <3>4. Sound(tab') /\ Events(tab', pc, evs, backlog)
      BY <1>0, <1>2, <3>1, <3>3, LikeSound, LikeEvents
    <3>5. Events(tab', pc', evs, backlog)
      <4>1. CASE pc'.at = "events"
        BY <3>4, <4>1, EventsNext
      <4>2. CASE pc'.at = "recv" /\ pc'.flow = f
        BY <1>1, <3>4, <4>2, EventsGo
      <4> QED BY <2>13, <4>1, <4>2
    <3>6. Streams(tab', sent, asked')
      <4>1. \A d \in Conns : t.sock[d].st = tab.sock[d].st
        BY <3>3 DEF Like
      <4>2. Follows(sk, Held(t, sk), t.sock[sk].in, asked'[sk], sent[sk])
        BY <2>9, <2>11, <2>17, <3>3
      <4>3. \A d \in Conns \ {sk} : /\ Held(t, d) = Held(tab, d) /\ t.sock[d] = tab.sock[d]
                                    /\ sent[d] = sent[d] /\ asked'[d] = asked[d]
        BY <2>11, <3>3
      <4>4. Ordered(sk, asked'[sk])
        BY <2>4, <2>15
      <4> HIDE DEF sk
      <4>5. Streams(t, sent, asked')
        BY <1>0, <2>4, <4>1, <4>2, <4>3, <4>4, ChangedStreams
      <4> QED BY <3>1, <4>5
    <3> QED BY <1>1, <2>14, <3>4, <3>5, <3>6 DEF IInv
  <2> QED BY <2>16, <2>17, SMTT(30)
<1> QED
  <2>1. \/ pc' = At("events") /\ UNCHANGED <<tab, blob, reqq, asked>>
        \/ Disconnect(f) /\ tab' = closeconn(tab, f) /\ pc' = At("events") /\ UNCHANGED asked
        \/ Finds(tab, f) /\ tab.sock[sk].in # <<>>
    BY ZenonT(30) DEF HandleIn
  <2> QED BY <1>7, <1>10, <1>11, <2>1

----------------------------------------------------------------------------
\* What a response does to the table: it changes the connection of its flow
\* number, or closes it after such a change.
Responded(f) == \E u : Like(tab, u) /\ Data(tab, u) /\ (tab' = u \/ tab' = closeconn(u, f))

\* A response of length 0.
LEMMA SendCloseIs ==
    ASSUME Sound(tab), NEW f \in Nat, SendClose(f)
    PROVE  Responded(f)
<1> DEFINE s == Slot(f)
           cc == tab.ccs[s]
           c1 == [cc EXCEPT !.fin = TRUE]
<1>0. tab \in TabType /\ s \in Slots
  BY SlotRange DEF Sound
<1>1. CASE cc.w # <<>>
  <2>1. tab' = SetSlot(tab, s, c1)
    BY <1>0, <1>1 DEF SendClose, SetSlot, TabType
  <2>2. cc.flow # 0
    BY <1>0, <1>1 DEF Sound, FreeSlot
  <2>3. cc \in SlotType
    BY <1>0 DEF TabType
  <2> HIDE DEF cc
  <2>4. c1 \in SlotType /\ c1.flow = cc.flow /\ c1.sk = cc.sk /\ c1.r = cc.r
    BY <2>3 DEF SlotType
  <2> HIDE DEF c1
  <2>5. Like(tab, SetSlot(tab, s, c1)) /\ Data(tab, SetSlot(tab, s, c1))
    BY <1>0, <2>2, <2>4, SlotSet DEF cc
  <2> QED BY <2>1, <2>5 DEF Responded
<1>2. CASE cc.w = <<>>
  <2>1. tab' = closeconn(tab, f)
    BY <1>2 DEF SendClose
  <2> QED BY <1>0, <2>1, LikeSelf DEF Responded
<1> QED BY <1>1, <1>2

\* A response with data.
LEMMA SendDataIs ==
    ASSUME Sound(tab), NEW f \in Nat, NEW data \in Seq(UnitSet), SendData(f, data)
    PROVE  Responded(f)
<1> DEFINE s == Slot(f)
           cc == tab.ccs[s]
           sk == cc.sk
           n == Len(cc.w)
           l == Len(data)
           t1(k) == Sent(tab, sk, n, k)
           c1(k) == [cc EXCEPT !.w = SubSeq(@, k + 1, n)]
           t3(k, j) == SetSlot(Sent(t1(k), sk, l, j), s, append(c1(k), SubSeq(data, j + 1, l)))
<1>0. tab \in TabType /\ s \in Slots /\ Like(tab, tab) /\ Data(tab, tab)
  BY SlotRange, LikeSelf DEF Sound
<1>1. \/ tab' = closeconn(tab, f)
      \/ tab' = tab
      \/ /\ Finds(tab, f)
         /\ \E k \in IF n = 0 THEN {0} ELSE SendRes(tab, sk, n) :
              \/ k = -1 /\ tab' = closeconn(tab, f)
              \/ /\ k # -1
                 /\ tab' = IF sk \in Conns THEN modify(SetSlot(t1(k), s, append(c1(k), data)), sk, TRUE)
                           ELSE closeconn(t1(k), f)
              \/ /\ k = n
                 /\ \E j \in SendRes(t1(k), sk, l) :
                      tab' = CASE j = -1 -> closeconn(tab, f)
                               [] j \in 0..l - 1 -> IF sk \in Conns THEN modify(t3(k, j), sk, TRUE)
                                                    ELSE closeconn(t3(k, j), f)
                               [] OTHER -> IF sk \in Grams /\ UdpAutoClose
                                           THEN closeconn(t3(k, j), f) ELSE t3(k, j)
  <2>1. CASE SendLimit # 0 /\ n > SendLimit
    BY <2>1, Zenon DEF SendData
  <2>2. CASE ~(SendLimit # 0 /\ n > SendLimit) /\ ~Finds(tab, f)
    BY <2>2, Zenon DEF SendData
  <2>3. CASE ~(SendLimit # 0 /\ n > SendLimit) /\ Finds(tab, f)
    <3> DEFINE Last(k, j) == CASE j = -1 -> closeconn(tab, f)
                               [] j \in 0..l - 1 -> IF sk \in Conns THEN modify(t3(k, j), sk, TRUE)
                                                    ELSE closeconn(t3(k, j), f)
                               [] OTHER -> IF sk \in Grams /\ UdpAutoClose
                                           THEN closeconn(t3(k, j), f) ELSE t3(k, j)
    <3> DEFINE A(k) == /\ k = -1
                       /\ tab' = closeconn(tab, f) /\ UNCHANGED got
               B(k) == /\ k \in 0..n - 1
                       /\ got' = [got EXCEPT ![cc.sk] = @ \o SubSeq(cc.w, 1, k)]
                       /\ tab' = IF cc.sk \in Conns
                                 THEN modify([t1(k) EXCEPT !.ccs[s] = append(c1(k), data)], cc.sk, TRUE)
                                 ELSE closeconn(t1(k), f)
               C(k) == /\ k = n
                       /\ \E j \in SendRes(t1(k), cc.sk, Len(data)) :
                            /\ got' = [got EXCEPT ![cc.sk] = @ \o cc.w \o SubSeq(data, 1, j)]
                            /\ tab' = Last(k, j)
    <3>1. PICK k \in IF n = 0 THEN {0} ELSE SendRes(tab, sk, n) : A(k) \/ B(k) \/ C(k)
      BY <2>3, Zenon DEF SendData, SetSlot
    <3> HIDE DEF Last
    <3>2. A(k) => k = -1 /\ tab' = closeconn(tab, f)
      OBVIOUS
    <3>3. B(k) => /\ k # -1
                  /\ tab' = IF sk \in Conns THEN modify(SetSlot(t1(k), s, append(c1(k), data)), sk, TRUE)
                            ELSE closeconn(t1(k), f)
      <4>1. k \in 0..n - 1 => k # -1
        OBVIOUS
      <4> HIDE DEF n, t1, c1, l
      <4> QED BY <4>1, Zenon DEF SetSlot
    <3>4. C(k) => k = n /\ \E j \in SendRes(t1(k), sk, l) : tab' = Last(k, j)
      BY Zenon
    <3> HIDE DEF A, B, C, n, t1, c1, t3, sk, l
    <3> QED BY <2>3, <3>1, <3>2, <3>3, <3>4, Zenon DEF Last
  <2> QED BY <2>1, <2>2, <2>3
<1>2. CASE tab' = closeconn(tab, f) \/ tab' = tab
  BY <1>0, <1>2 DEF Responded
<1>3. ASSUME Finds(tab, f), NEW k \in IF n = 0 THEN {0} ELSE SendRes(tab, sk, n), k # -1
      PROVE  /\ Like(tab, t1(k)) /\ Data(tab, t1(k)) /\ t1(k) \in TabType
             /\ c1(k) \in SlotType /\ c1(k).flow = cc.flow /\ c1(k).sk = cc.sk /\ c1(k).r = cc.r
             /\ cc.flow # 0
  <2>1. cc \in SlotType /\ cc.flow # 0
    BY <1>0, <1>3, FoundSlot
  <2>2. n \in Nat
    BY <2>1, LenProperties DEF SlotType
  <2>3. k \in Nat /\ k <= n
    <3> HIDE DEF n
    <3> QED BY <1>3, <2>2, SendResRange
  <2>4. c1(k) \in SlotType /\ c1(k).flow = cc.flow /\ c1(k).sk = cc.sk /\ c1(k).r = cc.r
    <3> HIDE DEF cc
    <3> QED BY <2>1, <2>3, CutSlot, SMTT(30)
  <2>5. Like(tab, t1(k)) /\ Data(tab, t1(k))
    BY <1>0, SentLike
  <2>6. t1(k) \in TabType
    BY <2>5 DEF Like
  <2> QED BY <2>1, <2>4, <2>5, <2>6
<1>4. ASSUME Finds(tab, f), NEW t, Like(tab, t), Data(tab, t), NEW c \in SlotType, NEW d \in Seq(UnitSet),
             c.flow = cc.flow, c.sk = cc.sk, c.r = cc.r, cc.flow # 0
      PROVE  LET u == SetSlot(t, s, append(c, d)) IN
             /\ Like(tab, u) /\ Data(tab, u)
             /\ sk \in Conns => Like(tab, modify(u, sk, TRUE)) /\ Data(tab, modify(u, sk, TRUE))
  <2> DEFINE a == append(c, d)
             u == SetSlot(t, s, a)
  <2>1. a \in SlotType /\ a.flow = cc.flow /\ a.sk = cc.sk /\ a.r = cc.r
    BY <1>4, AppendSlot
  <2> HIDE DEF a
  <2>2. t \in TabType /\ t.ccs[s].flow = cc.flow /\ t.ccs[s].sk = cc.sk /\ t.ccs[s].r = cc.r
    BY <1>0, <1>4 DEF Like, Data
  <2> HIDE DEF cc
  <2>3. Like(t, u) /\ Data(t, u)
    BY <1>0, <1>4, <2>1, <2>2, SlotSet
  <2> HIDE DEF u
  <2>4. Like(tab, u) /\ Data(tab, u)
    BY <1>4, <2>3, LikeTrans
  <2>5. ASSUME sk \in Conns PROVE Like(tab, modify(u, sk, TRUE)) /\ Data(tab, modify(u, sk, TRUE))
    <3>1. u \in TabType
      BY <2>4 DEF Like
    <3>2. Like(u, modify(u, sk, TRUE)) /\ Data(u, modify(u, sk, TRUE))
      BY <2>5, <3>1, ModifyLike
    <3> QED BY <2>4, <3>2, LikeTrans
  <2> QED BY <2>4, <2>5 DEF u, a
<1> HIDE DEF t1, c1
<1>5. ASSUME Finds(tab, f), NEW k \in IF n = 0 THEN {0} ELSE SendRes(tab, sk, n), k # -1,
             tab' = IF sk \in Conns THEN modify(SetSlot(t1(k), s, append(c1(k), data)), sk, TRUE)
                    ELSE closeconn(t1(k), f)
      PROVE  Responded(f)
  <2> DEFINE u == SetSlot(t1(k), s, append(c1(k), data))
  <2>1. /\ Like(tab, t1(k)) /\ Data(tab, t1(k)) /\ c1(k) \in SlotType
        /\ c1(k).flow = cc.flow /\ c1(k).sk = cc.sk /\ c1(k).r = cc.r /\ cc.flow # 0
    BY <1>3, <1>5
  <2>2. sk \in Conns => Like(tab, modify(u, sk, TRUE)) /\ Data(tab, modify(u, sk, TRUE))
    BY <1>4, <1>5, <2>1
  <2>3. sk \in Conns => tab' = modify(u, sk, TRUE)
    BY <1>5
  <2>4. sk \notin Conns => tab' = closeconn(t1(k), f)
    BY <1>5
  <2> HIDE DEF u, sk
  <2> QED BY <2>1, <2>2, <2>3, <2>4 DEF Responded
<1>6. ASSUME Finds(tab, f), NEW k \in IF n = 0 THEN {0} ELSE SendRes(tab, sk, n), k # -1,
             NEW j \in SendRes(t1(k), sk, l),
             tab' = CASE j = -1 -> closeconn(tab, f)
                      [] j \in 0..l - 1 -> IF sk \in Conns THEN modify(t3(k, j), sk, TRUE)
                                           ELSE closeconn(t3(k, j), f)
                      [] OTHER -> IF sk \in Grams /\ UdpAutoClose
                                  THEN closeconn(t3(k, j), f) ELSE t3(k, j)
      PROVE  Responded(f)
  <2> DEFINE u == t3(k, j)
             A == closeconn(tab, f)
             M == modify(u, sk, TRUE)
             C == closeconn(u, f)
             In == sk \in Conns
             Out == sk \in Grams /\ UdpAutoClose
  <2>1. tab' = CASE j = -1 -> A
                 [] j \in 0..l - 1 -> IF In THEN M ELSE C
                 [] OTHER -> IF Out THEN C ELSE u
    BY <1>6
  <2>2. \/ tab' = A /\ j = -1
        \/ j # -1 /\ ((tab' = M /\ In) \/ tab' = C \/ tab' = u)
    <3> HIDE DEF A, M, C, In, Out, u
    <3>1. -1 \notin 0..l - 1
      OBVIOUS
    <3> HIDE DEF l
    <3>2. CASE j = -1
      BY <2>1, <3>1, <3>2, Zenon
    <3>3. CASE j # -1 /\ j \in 0..l - 1
      <4>1. tab' = IF In THEN M ELSE C
        BY <2>1, <3>3, Zenon
      <4> QED BY <3>3, <4>1, Zenon
    <3>4. CASE j # -1 /\ ~(j \in 0..l - 1)
      <4>1. tab' = IF Out THEN C ELSE u
        BY <2>1, <3>4, Zenon
      <4> QED BY <3>4, <4>1, Zenon
    <3> QED BY <3>2, <3>3, <3>4
  <2>3. CASE tab' = A
    BY <1>0, <2>3 DEF Responded
  <2>4. CASE j # -1 /\ ((tab' = M /\ In) \/ tab' = C \/ tab' = u)
    <3>1. j \in Nat /\ j <= l /\ l \in Nat
      <4>1. l \in Nat
        BY LenProperties
      <4> HIDE DEF l
      <4> QED BY <1>6, <2>4, <4>1, SendResRange
    <3>2. SubSeq(data, j + 1, l) \in Seq(UnitSet)
      BY <3>1, RestOf
    <3>3. /\ Like(tab, t1(k)) /\ Data(tab, t1(k)) /\ t1(k) \in TabType /\ c1(k) \in SlotType
          /\ c1(k).flow = cc.flow /\ c1(k).sk = cc.sk /\ c1(k).r = cc.r /\ cc.flow # 0
      BY <1>3, <1>6
    <3> DEFINE t2 == Sent(t1(k), sk, l, j)
               rest == SubSeq(data, j + 1, l)
    <3>4. Like(tab, t2) /\ Data(tab, t2)
      <4>1. Like(t1(k), t2) /\ Data(t1(k), t2)
        BY <3>3, SentLike
      <4> HIDE DEF t2
      <4> QED BY <3>3, <4>1, LikeTrans
    <3>5. u = SetSlot(t2, s, append(c1(k), rest))
      OBVIOUS
    <3> HIDE DEF t2, rest, u
    <3>6. rest \in Seq(UnitSet)
      BY <3>2 DEF rest
    <3>7. Like(tab, u) /\ Data(tab, u) /\ (sk \in Conns => Like(tab, M) /\ Data(tab, M))
      BY <1>4, <1>6, <3>3, <3>4, <3>5, <3>6
    <3> HIDE DEF M
    <3> QED BY <2>4, <3>7 DEF Responded
  <2> QED BY <2>2, <2>3, <2>4
<1> HIDE DEF t3
<1>7. ASSUME Finds(tab, f) PROVE n \in Nat
  <2>1. cc \in SlotType
    BY <1>0, <1>7, FoundSlot
  <2> QED BY <2>1, LenProperties DEF SlotType
<1> HIDE DEF n, sk, l, s, cc
<1>8. Finds(tab, f) => n # -1
  BY <1>7
<1> QED BY <1>1, <1>2, <1>5, <1>6, <1>8

\* The responses of the workers: no event is left while they are handled.
LEMMA CtorPollStep ==
    ASSUME IInv, CtorPoll
    PROVE  IInv'
<1>0. Typed /\ Sound(tab) /\ Events(tab, pc, evs, backlog) /\ Streams(tab, sent, asked) /\ tab \in TabType
  BY DEF IInv, Sound
<1>1. pc = At("ctor") /\ UNCHANGED <<flow_, blob, evs, backlog, udpq, sent, reqq, asked>>
  BY DEF CtorPoll, net
<1>2. pc \in PcType /\ pc.at = "ctor" /\ evs = {} /\ backlog \subseteq Conns
  <2>1. pc \in PcType /\ pc.at = "ctor"
    BY <1>1, AtType
  <2> QED BY <1>0, <2>1 DEF Events, Typed
<1>3. CASE rspq = <<>> /\ pc' = At("wait") /\ UNCHANGED <<tab, rspq>>
  <2>1. pc' \in PcType /\ pc'.at = "wait"
    BY <1>3, AtType
  <2>2. Typed'
    BY <1>0, <1>1, <1>3, <2>1 DEF Typed
  <2>3. Events(tab, pc', evs, backlog)
    BY <1>0, <1>2, <2>1, EventsNext
  <2> QED BY <1>0, <1>1, <1>3, <2>2, <2>3 DEF IInv
<1>4. CASE /\ rspq # <<>> /\ rspq' = Tail(rspq) /\ UNCHANGED pc
           /\ IF Head(rspq).data = <<>> THEN SendClose(Head(rspq).flow)
              ELSE SendData(Head(rspq).flow, Head(rspq).data)
  <2> DEFINE m == Head(rspq)
             f == m.flow
  <2>1. m \in MsgType /\ rspq' \in Seq(MsgType)
    <3>1. rspq \in Seq(MsgType)
      BY <1>0 DEF Typed
    <3> QED BY <1>4, <3>1, HeadTailProperties
  <2>2. f \in 0..MaxFlow - 1 /\ m.data \in Seq(UnitSet) /\ f \in Nat
    BY <2>1, ProxyAssumption DEF MsgType
  <2>3. Responded(f)
    <3>1. CASE m.data = <<>>
      BY <1>0, <1>4, <2>2, <3>1, SendCloseIs
    <3>2. CASE m.data # <<>>
      <4>1. SendData(f, m.data)
        BY <1>4, <3>2
      <4> QED BY <1>0, <2>2, <4>1, SendDataIs
    <3> QED BY <3>1, <3>2
  <2>4. PICK u : Like(tab, u) /\ Data(tab, u) /\ (tab' = u \/ tab' = closeconn(u, f))
    BY <2>3 DEF Responded
  <2>5. Sound(u) /\ Events(u, pc, evs, backlog) /\ Streams(u, sent, asked)
    BY <1>0, <1>2, <2>4, Kept
  <2>6. \A c \in Conns : Ordered(c, asked[c])
    BY <1>0 DEF Streams
  <2>7. /\ Sound(closeconn(u, f)) /\ Events(closeconn(u, f), pc, evs, backlog)
        /\ Streams(closeconn(u, f), sent, asked)
    <3> HIDE DEF f
    <3> QED BY <1>2, <2>2, <2>5, <2>6, CloseFacts
  <2>8. Sound(tab') /\ Events(tab', pc, evs, backlog) /\ Streams(tab', sent, asked)
    BY <2>4, <2>5, <2>7
  <2>9. Typed'
    BY <1>0, <1>1, <1>2, <1>4, <2>1 DEF Typed
  <2> QED BY <1>1, <1>4, <2>8, <2>9 DEF IInv
<1> QED BY <1>3, <1>4 DEF CtorPoll
----------------------------------------------------------------------------
\* Every step keeps the invariant.
LEMMA NextHolds == IInv /\ [Next]_vars => IInv'
<1> SUFFICES ASSUME IInv, [Next]_vars PROVE IInv'
  OBVIOUS
<1>1. CASE EpollWait
  BY <1>1, EpollWaitStep
<1>2. CASE NextEvent
  BY <1>2, NextEventStep
<1>3. CASE HandleAccept
  BY <1>3, HandleAcceptStep
<1>4. CASE HandleUdp
  BY <1>4, HandleUdpStep
<1>5. CASE HandleOut
  BY <1>5, HandleOutStep
<1>6. CASE HandleIn
  BY <1>6, HandleInStep
<1>7. CASE CheckExpire
  BY <1>7, CheckExpireStep
<1>8. CASE CtorPoll
  BY <1>8, CtorPollStep
<1>9. ASSUME NEW m \in reqq, Process(m) PROVE IInv'
  BY <1>9, ProcessStep
<1>10. ASSUME NEW c \in Conns, Connect(c) PROVE IInv'
  BY <1>10, ConnectStep
<1>11. ASSUME NEW c \in Conns, ClientSend(c) PROVE IInv'
  BY <1>11, ClientSendStep
<1>12. ASSUME NEW c \in Conns, ClientRead(c) PROVE IInv'
  BY <1>12, ClientReadStep
<1>13. ASSUME NEW c \in Conns, ClientClose(c) PROVE IInv'
  BY <1>13, ClientCloseStep
<1>14. ASSUME NEW g \in Grams, Datagram(g) PROVE IInv'
  BY <1>14, DatagramStep
<1>15. CASE UNCHANGED vars
  <2>1. UNCHANGED <<tab, flow_, blob, pc, evs, backlog, udpq, reqq, rspq, sent, asked>>
    BY <1>15 DEF vars
  <2>2. Typed'
    BY <2>1 DEF IInv, Typed
  <2> QED BY <2>1, <2>2 DEF IInv
<1> QED BY <1>1, <1>2, <1>3, <1>4, <1>5, <1>6, <1>7, <1>8, <1>9, <1>10, <1>11, <1>12, <1>13, <1>14,
           <1>15 DEF Next, Loop

\* IInv holds in every state: the induction behind the two theorems below.
THEOREM Inductive == Spec => []IInv
BY InitHolds, NextHolds, PTL DEF Spec

\* The invariant implies the property.
LEMMA IInvTable == IInv => TableExact
<1> SUFFICES ASSUME IInv PROVE TableExact
  OBVIOUS
<1>1. Typed /\ Sound(tab) /\ tab \in TabType
  BY DEF IInv, Sound
<1>2. TypeOK
  <2>1. pc.at \in {"wait", "events", "accept", "udp", "send", "recv", "ctor"}
    BY <1>1 DEF Typed, PcType
  <2> QED BY <1>1, <2>1 DEF TypeOK, Typed, TabType
<1>3. OneSlot
  <2>1. ASSUME NEW c \in Conns, tab.sock[c].st = "open"
        PROVE  \E s \in Slots : /\ tab.ccs[s].sk = c
                                /\ tab.ccs[s].flow = tab.sock[c].flow
                                /\ Slot(tab.sock[c].flow) = s
    <3>1. Slot(tab.sock[c].flow) \in Slots
      BY <1>1, SockFlow
    <3> QED BY <1>1, <2>1, <3>1 DEF Sound
  <2>2. ASSUME NEW s \in Slots, tab.ccs[s].flow # 0 /\ tab.ccs[s].sk \in Conns
        PROVE  tab.sock[tab.ccs[s].sk].st = "open" /\ tab.sock[tab.ccs[s].sk].flow = tab.ccs[s].flow
    BY <1>1, <2>2 DEF Sound
  <2> QED BY <2>1, <2>2 DEF OneSlot
<1> QED BY <1>2, <1>3 DEF TableExact

\* For every number of clients, slots and flow numbers, whatever the clients, the
\* workers and the time do: every open socket of the proxy is in exactly one slot of the
\* table, under the flow number its events carry, and every TCP slot has its socket open
\* (CConnSet::addconn, closeconn, check_expire, the wrap of flow_).
THEOREM TableIsExact == Spec => []TableExact
BY Inductive, IInvTable, PTL

\* The invariant implies the property.
LEMMA IInvOrder == IInv => InOrder
BY DEF IInv, Streams, Ordered, InOrder

\* For every number of clients, slots, units and reads: the requests of a connection are
\* passed to the workers whole, once and in the order the client sent them, although they
\* arrive in pieces and the callback may stop anywhere (ator_recvdata_v2, the skip in
\* CTSockCommu::poll).
THEOREM RequestsInOrder == Spec => []InOrder
BY Inductive, IInvOrder, PTL
=============================================================================
