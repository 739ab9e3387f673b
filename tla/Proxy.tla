------------------------------- MODULE Proxy -------------------------------
(***************************************************************************)
(* The proxy process: the socket acceptor CTSockCommu with its table of    *)
(* connections CConnSet and its caches, the callbacks of CDefaultProxy     *)
(* that pass requests to a group of workers and responses back, the main   *)
(* loop around both; the workers' side of it, the clients and the kernel's *)
(* edge triggered epoll.  The queues of the group are FIFOs, which is what *)
(* ShmMQ is shown to implement.                                            *)
(*                                                                         *)
(* A request and a response are two units long, so that either may arrive  *)
(* or be sent in part.  The unit is <<connection, request, position>>; a   *)
(* response to a request carries the request's name.                       *)
(***************************************************************************)
EXTENDS Integers, Sequences, FiniteSets, Functions

CONSTANTS
    NConn,        \* number of TCP connections clients make, one after the other
    Grams,        \* UDP requests, one datagram each
    MaxConn,      \* maxconn_, the slots of the connection table
    MaxFlow,      \* MAX_FLOW_NUM
    StartFlow,    \* flow_, the flow number used last: any, after enough connections
    RetryCnt,     \* reads of one connection for one event
    RecvMax,      \* C_READ_BUFFER_SIZE
    SendLimit,    \* sendcache_limit_, 0 for none
    UdpAutoClose, \* udpautoclose_
    Expire,       \* expiretime_ # 0
    HasClose,     \* the plugin has spp_handle_close
    IpLimit,      \* there is a list of addresses: CB_CONNECTED is registered
    MaxReq,       \* bound: requests of one connection
    MaxUnits,     \* bound: units all connections send
    FlowCap,      \* bound: a poll of the UDP socket with the table full uses up flow
                  \* numbers; it does so up to this one
    None

ASSUME ProxyAssumption ==
    /\ MaxConn \in Nat \ {0} /\ MaxFlow \in Nat /\ MaxFlow > MaxConn + 1
    /\ StartFlow \in 0..MaxFlow - 1
    /\ RetryCnt \in Nat \ {0} /\ RecvMax \in Nat \ {0}
    /\ SendLimit \in Nat /\ MaxReq \in Nat /\ MaxUnits \in Nat /\ FlowCap \in Nat
    /\ UdpAutoClose \in BOOLEAN /\ Expire \in BOOLEAN /\ HasClose \in BOOLEAN
    /\ IpLimit \in BOOLEAN
    /\ NConn \in Nat /\ (1..NConn) \cap Grams = {} /\ None \notin (1..NConn) \cup Grams

VARIABLES
    tab,     \* tab.ccs: the slots; tab.sock: the sockets of the clients
    flow_,   \* number given to the last connection
    blob,    \* what buff_blob_ points to; only spp_handle_close looks at it later
    pc,      \* where the main loop is: label, flow and retry_cnt of the event in work
    evs,     \* events of this epoll_wait still to be handled
    backlog, \* connections waiting in the listen socket
    udpq,    \* datagrams waiting in the UDP socket
    reqq,    \* requests in the queue to the workers or with a worker
    rspq,    \* queue of the workers' responses
    sent,    \* units each client has sent
    \* history
    got,     \* units each client was sent
    asked    \* requests passed to the workers for each client

vars == <<tab, flow_, blob, pc, evs, backlog, udpq, reqq, rspq, sent,
          got, asked>>
net  == <<backlog, udpq, sent>>
hist == <<got, asked>>

Conns   == 1..NConn
Clients == Conns \cup Grams
Slots   == 0..MaxConn - 1
ReqLen  == 2
Unit(c, i, k) == <<c, i, k>>
Junk    == Unit(None, 0, 0)
Stream(c) == [n \in 1..ReqLen * MaxReq |-> Unit(c, ((n - 1) \div ReqLen) + 1, ((n - 1) % ReqLen) + 1)]
Request(s, j) == SubSeq(s, ReqLen * (j - 1) + 1, ReqLen * j)

FreeSlot == [flow |-> 0, sk |-> None, r |-> <<>>, w |-> <<>>, fin |-> FALSE]
NoSock   == [st |-> "none", in |-> <<>>, eof |-> FALSE, full |-> FALSE, edge |-> FALSE,
             out |-> FALSE, flow |-> 0]
At(l)    == [at |-> l, flow |-> 0, retry |-> 0, in |-> FALSE]

Init ==
    /\ tab = [ccs  |-> [s \in Slots |-> FreeSlot],
              sock |-> [c \in Conns |-> NoSock]]
    /\ flow_ = StartFlow /\ blob = <<>> /\ pc = At("wait") /\ evs = {}
    /\ backlog = {} /\ udpq = {} /\ reqq = {} /\ rspq = <<>>
    /\ sent = [c \in Clients |-> 0]
    /\ got = [c \in Clients |-> <<>>]
    /\ asked = [c \in Clients |-> <<>>]
----------------------------------------------------------------------------
(* CConnSet: the table of connections *)

Slot(f) == f % MaxConn

\* Mutant: whoever has the slot now.
FindsSlot(t, f) == f # 0 /\ t.ccs[Slot(f)].flow # 0

Finds(t, f) == f # 0 /\ t.ccs[Slot(f)].flow = f

\* The flow number after f: MAX_FLOW_NUM is skipped, and 0.
Following(f) == IF (f + 1) % MaxFlow = 0 THEN 1 ELSE (f + 1) % MaxFlow

\* addconn: the first of MaxConn flow numbers from f on whose slot is free, or
\* the last of them with ok = FALSE.
Places(f) == LET at[i \in 0..MaxConn - 1] == IF i = 0 THEN f ELSE Following(at[i - 1]) IN at
FindFlow(t, f) ==
    LET free == {i \in 0..MaxConn - 1 : t.ccs[Slot(Places(f)[i])].flow = 0}
    IN  IF free = {} THEN [ok |-> FALSE, flow |-> Places(f)[MaxConn - 1]]
        ELSE [ok |-> TRUE, flow |-> Places(f)[CHOOSE i \in free : \A j \in free : i <= j]]

\* Mutant: no end to the numbers.
NextFlowUnbounded == flow_ + 1

\* The number tried first: ++flow_, and 1 after the last.
NextFlow == IF flow_ + 1 >= MaxFlow THEN 1 ELSE flow_ + 1

addconn(t, f, sk) ==
    [t EXCEPT !.ccs[Slot(f)] = [@ EXCEPT !.flow = f, !.sk = sk]]

\* Mutant: the slot is given back and the socket stays open.
ForgetConn(t, f) == IF Finds(t, f) THEN [t EXCEPT !.ccs[Slot(f)] = FreeSlot] ELSE t

closeconn(t, f) ==
    IF ~Finds(t, f) THEN t
    ELSE LET sk == t.ccs[Slot(f)].sk
         IN  [ccs  |-> [t.ccs EXCEPT ![Slot(f)] = FreeSlot],
              sock |-> IF sk \in Conns THEN [t.sock EXCEPT ![sk] = [NoSock EXCEPT !.st = "closed"]]
                       ELSE t.sock]

\* Mutant: what is in the cache is overwritten.
Overwrite(cc, data) == IF cc.fin THEN cc ELSE [cc EXCEPT !.w = data]

\* CRawCache::append drops the data once the fin bit is set.
append(cc, data) == IF cc.fin THEN cc ELSE [cc EXCEPT !.w = @ \o data]

\* How many of n units the kernel takes, or -1 for an error: all of them, or fewer
\* and then the socket is full; a client that is gone may give an error.  A
\* datagram goes as a whole or not at all.
SendRes(t, sk, n) ==
    IF sk \in Grams THEN {0, n, -1}
    ELSE (IF t.sock[sk].full THEN {0} ELSE 1..n) \cup (IF t.sock[sk].eof THEN {-1} ELSE {})
Sent(t, sk, n, k) ==
    IF sk \in Conns /\ k < n THEN [t EXCEPT !.sock[sk].full = TRUE] ELSE t

\* Mutant: EPOLLOUT is not asked for.
ModifyIn(t, c, out) ==
    [t EXCEPT !.sock[c].edge = @ \/ t.sock[c].in # <<>> \/ t.sock[c].eof]

\* CEPollFlow::modify: looks at the socket again, so what is ready now is reported.
modify(t, c, out) ==
    [t EXCEPT !.sock[c].out = out,
              !.sock[c].edge = @ \/ t.sock[c].in # <<>> \/ t.sock[c].eof
                                 \/ (out /\ ~t.sock[c].full)]
----------------------------------------------------------------------------
(* The clients and the kernel *)

Connect(c) ==
    /\ tab.sock[c].st = "none" /\ (c > 1 => tab.sock[c - 1].st # "none")
    /\ tab' = [tab EXCEPT !.sock[c].st = "backlog"]
    /\ backlog' = backlog \cup {c}
    /\ UNCHANGED <<flow_, blob, pc, evs, udpq, reqq, rspq, sent, hist>>

ClientSend(c) ==
    \E k \in 1..ReqLen :
        /\ tab.sock[c].st \in {"backlog", "open"} /\ ~tab.sock[c].eof
        /\ sent[c] + k <= ReqLen * MaxReq /\ SumFunctionOnSet(sent, Conns) + k <= MaxUnits
        /\ sent' = [sent EXCEPT ![c] = @ + k]
        /\ tab' = [tab EXCEPT !.sock[c].in = @ \o SubSeq(Stream(c), sent[c] + 1, sent[c] + k),
                              !.sock[c].edge = TRUE]
        /\ UNCHANGED <<flow_, blob, pc, evs, backlog, udpq, reqq, rspq, hist>>

\* The client reads what was sent to it: the socket can be written again.
ClientRead(c) ==
    /\ tab.sock[c].st = "open" /\ tab.sock[c].full
    /\ tab' = [tab EXCEPT !.sock[c].full = FALSE,
                          !.sock[c].edge = @ \/ tab.sock[c].out]
    /\ UNCHANGED <<flow_, blob, pc, evs, net, reqq, rspq, hist>>

ClientClose(c) ==
    /\ tab.sock[c].st \in {"backlog", "open"} /\ ~tab.sock[c].eof
    /\ tab' = [tab EXCEPT !.sock[c].eof = TRUE, !.sock[c].edge = TRUE]
    /\ UNCHANGED <<flow_, blob, pc, evs, net, reqq, rspq, hist>>

Datagram(g) ==
    /\ sent[g] = 0
    /\ sent' = [sent EXCEPT ![g] = 1]
    /\ udpq' = udpq \cup {g}
    /\ UNCHANGED <<tab, flow_, blob, pc, evs, backlog, reqq, rspq, hist>>
----------------------------------------------------------------------------
(* The workers of the group *)

Answer(m)  == [flow |-> m.flow, data |-> m.data]
CloseIt(m) == [flow |-> m.flow, data |-> <<>>]

\* CDefaultWorker::ator_recvdata_v2.  A request that waited too long is dropped, and
\* its connection closed if it is a UDP one; else the plugin answers or not, and
\* when it fails the connection is closed.
Process(m) ==
    /\ reqq' = reqq \ {m}
    /\ \E rsp \in {<<Answer(m)>>, <<Answer(m), CloseIt(m)>>, <<CloseIt(m)>>, <<>>} : rspq' = rspq \o rsp
    /\ UNCHANGED <<tab, flow_, blob, pc, evs, net, hist>>
----------------------------------------------------------------------------
(* Requests: the callbacks of the acceptor *)

\* Mutant: what is passed on is not counted as processed.
HandledAgain(data) == {[n |-> Len(data) \div ReqLen, ret |-> 0]}

\* The results of ator_recvdata_v2 on data: n requests passed on and the value it
\* returns.  It ends at an incomplete request; at data the plugin rejects (-1); at
\* a full queue, where the request counts as processed and the plugin may ask to
\* close (-1).
Handled(data) ==
    LET whole == Len(data) \div ReqLen
        rest(n) == n * ReqLen < Len(data)
    IN  {o \in [n : 0..whole, ret : -1..Len(data)] :
               \/ o.n = whole /\ o.ret = o.n * ReqLen
               \/ rest(o.n) /\ o.ret = -1
               \/ o.n < whole /\ o.ret \in {-1, (o.n + 1) * ReqLen}}

Passed(f, data, n) == {[flow |-> f, data |-> Request(data, j)] : j \in 1..n}

\* What buff_blob_ points to after the callback: it was moved past the requests
\* passed on, and poll then sets its length to the value returned.  The memory is
\* given back once all of it is skipped.
Pad(s, n) == [i \in 1..n |-> IF i <= Len(s) THEN s[i] ELSE Junk]
BlobAfter(data, o) ==
    CASE ~HasClose -> <<>>
      [] HasClose /\ o.ret = 0 -> data
      [] HasClose /\ o.ret > 0 -> Pad(IF o.ret = Len(data) THEN <<>>
                                      ELSE SubSeq(data, o.n * ReqLen + 1, Len(data)), o.ret)
      [] HasClose /\ o.ret < 0 -> Pad(<<>>, Len(data) - o.n * ReqLen)

\* ator_disconnect: data left over may be kept by the plugin and passed on.
Disconnect(f) ==
    /\ blob' = <<>>
    /\ \/ UNCHANGED reqq
       \/ /\ HasClose /\ blob # <<>>
          /\ reqq' = reqq \cup {[flow |-> f, data |-> blob]}
----------------------------------------------------------------------------
(* CTSockCommu::poll *)

\* An event of a listening socket.
ListenFd == 0
UdpFd == -1
Wake(fd) == [fd |-> fd, flow |-> 0, in |-> TRUE, out |-> FALSE]

\* epoll_wait: an edge since the last call reports all that is ready.
EpollWait ==
    /\ pc = At("wait")
    /\ LET edges == {c \in Conns : tab.sock[c].st = "open" /\ tab.sock[c].edge}
           ev(c) == [fd |-> c, flow |-> tab.sock[c].flow,
                     in |-> tab.sock[c].in # <<>> \/ tab.sock[c].eof,
                     out |-> tab.sock[c].out /\ ~tab.sock[c].full]
       IN  /\ evs' = {e \in {ev(c) : c \in edges} : e.in \/ e.out}
                       \cup (IF backlog # {} THEN {Wake(ListenFd)} ELSE {})
                       \cup (IF udpq # {} THEN {Wake(UdpFd)} ELSE {})
           /\ tab' = [tab EXCEPT !.sock = [c \in Conns |->
                         IF c \in edges THEN [@[c] EXCEPT !.edge = FALSE] ELSE @[c]]]
    /\ pc' = At("events")
    /\ UNCHANGED <<flow_, blob, net, reqq, rspq, hist>>

NextEvent ==
    /\ pc = At("events")
    /\ \E e \in evs :
         /\ evs' = evs \ {e}
         /\ pc' = CASE e.fd = ListenFd -> At("accept")
                     [] e.fd = UdpFd -> At("udp")
                     [] OTHER -> [at |-> IF e.out THEN "send" ELSE "recv", flow |-> e.flow,
                                  retry |-> RetryCnt, in |-> e.in]
    /\ UNCHANGED <<tab, flow_, blob, net, reqq, rspq, hist>>

\* check_expire at the end of poll, when it is time for it: the connections whose
\* last data is too long ago are closed, and that may be any of them.
CheckExpire ==
    /\ pc = At("events") /\ evs = {}
    /\ pc' = At("ctor")
    /\ \E old \in SUBSET {s \in Slots : tab.ccs[s].flow # 0} :
             /\ old # {} => Expire
             /\ tab' = [ccs  |-> [s \in Slots |-> IF s \in old THEN FreeSlot ELSE tab.ccs[s]],
                         sock |-> [c \in Conns |-> IF \E s \in old : tab.ccs[s].sk = c
                                                   THEN [NoSock EXCEPT !.st = "closed"]
                                                   ELSE tab.sock[c]]]
    /\ UNCHANGED <<flow_, blob, evs, net, reqq, rspq, hist>>

\* One round of handle_accept.  The client may be denied by the list of addresses
\* (the loop goes on) or epoll may refuse the socket (the loop ends).
HandleAccept ==
    /\ pc = At("accept")
    /\ \/ /\ backlog = {}
          /\ pc' = At("events")
          /\ UNCHANGED <<tab, flow_, blob, backlog>>
       \/ \E c \in backlog :
            LET place  == FindFlow(tab, NextFlow)
                opened == [addconn(tab, place.flow, c) EXCEPT !.sock[c].st = "open",
                                                               !.sock[c].flow = place.flow]
            IN  /\ backlog' = backlog \ {c}
                /\ flow_' = place.flow
                /\ blob' = IF ~place.ok \/ IpLimit THEN <<>> ELSE blob
                /\ \/ /\ ~place.ok
                      /\ tab' = [tab EXCEPT !.sock[c] = [NoSock EXCEPT !.st = "closed"]]
                      /\ pc' = At("events")
                   \/ place.ok /\ tab' = opened /\ UNCHANGED pc
                   \/ /\ place.ok /\ tab' = closeconn(opened, place.flow)
                      /\ pc' \in {At("events")} \cup (IF IpLimit THEN {pc} ELSE {})
    /\ UNCHANGED <<evs, udpq, reqq, rspq, sent, hist>>

\* One round of handle_accept_udp: a slot is taken before it is known whether there
\* is a datagram.  What the callback returns is not looked at.
HandleUdp ==
    /\ pc = At("udp")
    /\ LET place == FindFlow(tab, NextFlow)
           data(g) == <<Unit(g, 1, 1), Unit(g, 1, 2)>>
           capped == ~place.ok /\ place.flow \in FlowCap..StartFlow
       IN  /\ flow_' = IF capped THEN flow_ ELSE place.flow
           /\ \/ /\ ~place.ok \/ udpq = {}
                 /\ pc' = At("events")
                 /\ blob' = IF place.ok THEN blob ELSE <<>>
                 /\ UNCHANGED <<tab, udpq, reqq, asked>>
              \/ /\ place.ok
                 /\ \E g \in udpq :
                      LET t == addconn(tab, place.flow, g)
                      IN  /\ udpq' = udpq \ {g}
                          /\ \/ /\ IpLimit
                                /\ blob' = IF HasClose THEN Pad(<<>>, ReqLen) ELSE <<>>
                                /\ UNCHANGED <<tab, reqq, asked>>
                             \/ \E o \in Handled(data(g)) :
                                  /\ tab' = [t EXCEPT !.ccs[Slot(place.flow)].r = data(g)]
                                  /\ blob' = IF HasClose THEN SubSeq(data(g), o.n * ReqLen + 1, ReqLen) ELSE <<>>
                                  /\ reqq' = reqq \cup Passed(place.flow, data(g), o.n)
                                  /\ asked' = [asked EXCEPT ![g] = @ \o [j \in 1..o.n |-> data(g)]]
                 /\ UNCHANGED pc
    /\ UNCHANGED <<evs, backlog, rspq, sent, got>>

AfterOut == IF pc.in THEN [pc EXCEPT !.at = "recv"] ELSE At("events")

\* EPOLLOUT: sendfromcache, then close if all is sent and the fin bit is set, else
\* stop waiting for EPOLLOUT; an error closes.
HandleOut ==
    /\ pc.at = "send"
    /\ pc' = AfterOut
    /\ LET f  == pc.flow
           cc == tab.ccs[Slot(f)]
           n  == Len(cc.w)
       IN  IF ~Finds(tab, f) THEN UNCHANGED <<tab, got>>
           ELSE \E k \in IF n = 0 THEN {0} ELSE SendRes(tab, cc.sk, n) :
                  LET t == [Sent(tab, cc.sk, n, k) EXCEPT
                               !.ccs[Slot(f)].w = SubSeq(@, k + 1, n)]
                  IN  IF k = -1
                      THEN tab' = closeconn(tab, f) /\ UNCHANGED got
                      ELSE /\ tab' = CASE k = n /\ cc.fin -> closeconn(t, f)
                                       [] k = n /\ ~cc.fin -> modify(t, cc.sk, FALSE)
                                       [] OTHER -> t
                           /\ got' = [got EXCEPT ![cc.sk] = @ \o SubSeq(cc.w, 1, k)]
    /\ UNCHANGED <<flow_, blob, evs, net, reqq, rspq, asked>>

\* Mutant: one read for one event.
ReadOnce == At("events")

\* The loop of at most RetryCnt reads for one event.
ReadOn == IF pc.retry = 1 THEN At("events") ELSE [pc EXCEPT !.retry = @ - 1]

\* One round of the loop for EPOLLIN: read, and hand what has been read so far to
\* ator_recvdata_v2.
HandleIn ==
    /\ pc.at = "recv"
    /\ LET f    == pc.flow
           cc   == tab.ccs[Slot(f)]
           sk   == cc.sk
       IN  \/ /\ ~Finds(tab, f)
              /\ pc' = At("events")
              /\ UNCHANGED <<tab, blob, reqq, asked>>
           \/ /\ Finds(tab, f) /\ tab.sock[sk].in = <<>> /\ ~tab.sock[sk].eof
              /\ pc' = At("events")
              /\ UNCHANGED <<tab, blob, reqq, asked>>
           \/ /\ Finds(tab, f) /\ tab.sock[sk].in = <<>> /\ tab.sock[sk].eof
              /\ Disconnect(f)
              /\ tab' = closeconn(tab, f)
              /\ pc' = At("events")
              /\ UNCHANGED asked
           \/ /\ Finds(tab, f) /\ tab.sock[sk].in # <<>>
              /\ LET in == tab.sock[sk].in
                     k  == IF Len(in) < RecvMax THEN Len(in) ELSE RecvMax
                     data == cc.r \o SubSeq(in, 1, k)
                 IN  \E o \in Handled(data) :
                       LET t == [tab EXCEPT !.sock[sk].in = SubSeq(@, k + 1, Len(@)),
                                              !.ccs[Slot(f)].r = SubSeq(data, o.ret + 1, Len(data))]
                       IN  /\ reqq' = reqq \cup Passed(f, data, o.n)
                           /\ asked' = [asked EXCEPT ![sk] = @ \o [j \in 1..o.n |-> Request(data, j)]]
                           /\ blob' = BlobAfter(data, o)
                           /\ IF o.ret = -1
                              THEN tab' = closeconn(tab, f) /\ pc' = At("events")
                              ELSE tab' = t /\ pc' = ReadOn
    /\ UNCHANGED <<flow_, evs, net, rspq, got>>
----------------------------------------------------------------------------
(* Responses: CTSockCommu::sendto, called by ctor_recvdata *)

\* A response of length 0 closes the connection, once the cache is sent.
SendClose(f) ==
    LET cc == tab.ccs[Slot(f)]
    IN  /\ tab' = IF cc.w # <<>> THEN [tab EXCEPT !.ccs[Slot(f)].fin = TRUE]
                  ELSE closeconn(tab, f)
        /\ UNCHANGED got

\* CConnSet::send: k1 units of the cache leave and, when it is empty, k2 of the data;
\* the rest waits in the cache.
SendData(f, data) ==
    LET s  == Slot(f)
        cc == tab.ccs[s]
        n  == Len(cc.w)
    IN  IF SendLimit # 0 /\ n > SendLimit
        THEN tab' = closeconn(tab, f) /\ UNCHANGED got
        ELSE IF ~Finds(tab, f)
        THEN UNCHANGED <<tab, got>>
        ELSE \E k1 \in IF n = 0 THEN {0} ELSE SendRes(tab, cc.sk, n) :
                  LET t1 == Sent(tab, cc.sk, n, k1)
                      c1 == [cc EXCEPT !.w = SubSeq(@, k1 + 1, n)]
                  IN  \/ /\ k1 = -1
                         /\ tab' = closeconn(tab, f) /\ UNCHANGED got
                      \/ /\ k1 \in 0..n - 1
                         /\ got' = [got EXCEPT ![cc.sk] = @ \o SubSeq(cc.w, 1, k1)]
                         /\ tab' = IF cc.sk \in Conns
                                   THEN modify([t1 EXCEPT !.ccs[s] = append(c1, data)], cc.sk, TRUE)
                                   ELSE closeconn(t1, f)
                      \/ /\ k1 = n
                         /\ \E k2 \in SendRes(t1, cc.sk, Len(data)) :
                              LET t2 == Sent(t1, cc.sk, Len(data), k2)
                                  c2 == append(c1, SubSeq(data, k2 + 1, Len(data)))
                                  t3 == [t2 EXCEPT !.ccs[s] = c2]
                              IN  /\ got' = [got EXCEPT ![cc.sk] = @ \o cc.w \o SubSeq(data, 1, k2)]
                                  /\ tab' = CASE k2 = -1 -> closeconn(tab, f)
                                              [] k2 \in 0..Len(data) - 1 ->
                                                   IF cc.sk \in Conns THEN modify(t3, cc.sk, TRUE)
                                                   ELSE closeconn(t3, f)
                                              [] OTHER -> IF cc.sk \in Grams /\ UdpAutoClose
                                                          THEN closeconn(t3, f) ELSE t3

\* CTShmCommu::poll of the group in the main loop, until the queue is empty.
CtorPoll ==
    /\ pc = At("ctor")
    /\ \/ /\ rspq = <<>>
          /\ pc' = At("wait")
          /\ UNCHANGED <<tab, rspq, got>>
       \/ /\ rspq # <<>>
          /\ LET m == Head(rspq)
             IN  IF m.data = <<>> THEN SendClose(m.flow) ELSE SendData(m.flow, m.data)
          /\ rspq' = Tail(rspq)
          /\ UNCHANGED pc
    /\ UNCHANGED <<flow_, blob, evs, net, reqq, asked>>
----------------------------------------------------------------------------
Loop == \/ EpollWait \/ NextEvent \/ HandleAccept \/ HandleUdp \/ HandleOut \/ HandleIn
        \/ CheckExpire \/ CtorPoll

Next == \/ Loop
        \/ \E m \in reqq : Process(m)
        \/ \E c \in Conns : Connect(c) \/ ClientSend(c) \/ ClientRead(c) \/ ClientClose(c)
        \/ \E g \in Grams : Datagram(g)

Spec == Init /\ [][Next]_vars

\* The process runs, and its clients read what they are sent; nothing is assumed
\* of what clients send, of the workers or of the time.
FairSpec == Spec /\ WF_vars(Loop) /\ \A c \in Conns : WF_vars(ClientRead(c))
----------------------------------------------------------------------------
(* Properties *)

UnitSet == {Unit(c, i, k) : c \in Clients, i \in 1..MaxReq + 1, k \in 1..ReqLen} \cup {Junk}
SlotType == [flow : 0..MaxFlow - 1, sk : Clients \cup {None}, r : Seq(UnitSet), w : Seq(UnitSet),
             fin : BOOLEAN]
SockType == [st : {"none", "backlog", "open", "closed"}, in : Seq(UnitSet), eof : BOOLEAN,
             full : BOOLEAN, edge : BOOLEAN, out : BOOLEAN, flow : 0..MaxFlow - 1]

TypeOK ==
    /\ \A s \in Slots : tab.ccs[s] \in SlotType
    /\ \A c \in Conns : tab.sock[c] \in SockType
    /\ flow_ \in 0..MaxFlow - 1 /\ blob \in Seq(UnitSet)
    /\ pc.at \in {"wait", "events", "accept", "udp", "send", "recv", "ctor"}

\* A client is sent nothing but answers to its own requests, although the proxy
\* finds the connection of a response by its flow number alone and slots are used
\* again (CConnSet::send).
RightClient ==
    \A c \in Clients : \A i \in DOMAIN got[c] : got[c][i][1] = c

\* What a client was sent and what waits in its cache are whole responses one after
\* the other, as long as no worker has asked to close the connection
\* (CConnSet::send, sendfromcache, CRawCache).
NoGap ==
    \A s \in Slots :
        LET out == got[tab.ccs[s].sk] \o tab.ccs[s].w IN
        tab.ccs[s].flow # 0 /\ ~tab.ccs[s].fin =>
            /\ Len(out) % ReqLen = 0
            /\ \A i \in DOMAIN out : out[i] = Unit(out[i][1], out[i][2], ((i - 1) % ReqLen) + 1)

\* Each request is passed to the workers once, whole, in the order the client sent
\* them (ator_recvdata_v2 and the skip in CTSockCommu::poll).
InOrder ==
    \A c \in Conns :
        \A i, j \in DOMAIN asked[c] :
            /\ Len(asked[c][i]) = ReqLen
            /\ asked[c][i] \in {Request(Stream(c), n) : n \in 1..MaxReq}
            /\ i < j => asked[c][i][1][2] < asked[c][j][1][2]

\* A socket the proxy has open is in exactly one slot of the table, under the flow
\* number its events carry; a slot of a TCP connection has its socket open.
OneSlot ==
    /\ \A c \in Conns : tab.sock[c].st = "open" =>
         \E s \in Slots : /\ tab.ccs[s].sk = c
                          /\ tab.ccs[s].flow = tab.sock[c].flow
                          /\ Slot(tab.sock[c].flow) = s
    /\ \A s \in Slots : tab.ccs[s].flow # 0 /\ tab.ccs[s].sk \in Conns =>
         tab.sock[tab.ccs[s].sk].st = "open" /\ tab.sock[tab.ccs[s].sk].flow = tab.ccs[s].flow

\* The table of connections is exact: its variables have their types and sockets and
\* slots correspond (CConnSet::addconn, closeconn, the flow numbers).
TableExact == TypeOK /\ OneSlot

\* A client is sent whole answers to its own requests and nothing else.
RightAnswers == RightClient /\ NoGap

\* The last of the RetryCnt reads for this event leaves data or the end of the stream
\* behind: the loop ends and the edge is gone.
RunsOut(c) ==
    /\ pc.at = "recv" /\ pc.retry = 1
    /\ Finds(tab, pc.flow) /\ tab.ccs[Slot(pc.flow)].sk = c
    /\ tab.sock[c].in # <<>> /\ (Len(tab.sock[c].in) > RecvMax \/ tab.sock[c].eof)

\* Data that has reached the socket of a connection, and of which epoll has still to
\* report the edge, is read, or the connection is closed, or RetryCnt reads were not
\* enough for it (the loop of HandleIn, modify).
DataRead ==
    \A c \in Conns :
        (tab.sock[c].st = "open" /\ tab.sock[c].in # <<>> /\ tab.sock[c].edge)
            ~> (tab.sock[c].st = "closed" \/ tab.sock[c].in = <<>> \/ RunsOut(c))

\* A client that closes frees its slot, unless the reads before the end run out.
HangupSeen ==
    \A c \in Conns : (tab.sock[c].st = "open" /\ tab.sock[c].eof /\ tab.sock[c].edge)
                        ~> (tab.sock[c].st = "closed" \/ RunsOut(c))

\* A response that could not be sent at once is sent later, when the client reads,
\* or the connection is closed.
Flushed ==
    \A c \in Conns :
        (\E s \in Slots : tab.ccs[s].sk = c /\ tab.ccs[s].w # <<>>)
            ~> (\A s \in Slots : tab.ccs[s].sk = c => tab.ccs[s].w = <<>>)

\* The event loop forgets no connection, although epoll reports each edge once: an
\* edge is followed by reads until nothing is left or until they run out, hangups
\* are seen and caches are sent.
Served == DataRead /\ HangupSeen /\ Flushed

\* All that a client sends is read, or its connection is closed: the socket is edge
\* triggered and a read that does not fill the buffer is the end of the data
\* (CConnSet::recv).  The code does not guarantee it: the loop of CTSockCommu::poll
\* also ends after retry_cnt reads.
AllRead ==
    \A c \in Conns :
        (tab.sock[c].st = "open" /\ tab.sock[c].in # <<>>)
            ~> (tab.sock[c].st = "closed" \/ tab.sock[c].in = <<>>)
=============================================================================
