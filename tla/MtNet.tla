------------------------------- MODULE MtNet -------------------------------
(***************************************************************************)
(* CNetHelper::SendRecv: micro threads share a few connections to each     *)
(* destination (CDestLinks, CSockLink).  A call (CNetHandler) registers    *)
(* its session id, is put on a list of its connection while it waits to    *)
(* connect, to send or to receive, and is woken by the connection's events *)
(* or when its time is up.  Answers find their call by session id.         *)
(*                                                                         *)
(* A thread runs without interruption up to WaitNotify.  When none can run *)
(* the daemon waits for events, handles those of each connection, wakes    *)
(* the threads whose time is up and runs the timers of the destinations.   *)
(* What the far end does is placed where the daemon waits: nothing of this *)
(* process can tell it from an earlier time.                               *)
(*                                                                         *)
(* A request is Units pieces, an answer two; a piece carries the session   *)
(* id of its message.  A session id is not used again once its call ended. *)
(***************************************************************************)
EXTENDS Integers, Sequences, FiniteSets, SequencesExt

CONSTANTS
    Threads,
    Dests,
    Confs,     \* protocol of each destination, and _max_links
    Units,     \* pieces of a request
    Calls,     \* number of calls of each thread
    Reuse,     \* a CNetHelper may be used for a second call
    None

ASSUME NetAssumption ==
    /\ \A c \in Confs : c.proto \in [Dests -> {"tcp", "udp"}] /\ c.max \in Nat \ {0}
    /\ Units \in Nat \ {0} /\ Calls \in [Threads -> Nat] /\ Reuse \in BOOLEAN

VARIABLES
    w,      \* handlers, links, destinations and pools
    cur,    \* thread that runs, or what the daemon does
    todo,   \* links with events, or destinations with a timer, left to handle
    conf,
    ids     \* session ids given out

vars == <<w, cur, todo, conf, ids>>

Links == 1..(Cardinality(Dests) * (CHOOSE n \in {c.max : c \in Confs} : \A c \in Confs : n >= c.max))
Lists == {"conn", "send", "recv", "idle"}

NewHandler == [flags |-> {}, conn |-> None, err |-> "ok", left |-> 0, sid |-> None, dest |-> None,
               rsp |-> None]
\* The thread: at is the local variable conn, io the flag IO_LIST, ret what SendRecv returns.
NewThread == [pc |-> "idle", at |-> None, io |-> TRUE, ret |-> "ok", n |-> 0]
\* net, wire, asked, in and fin are the connection as the far end sees it: its state, the
\* pieces of an incomplete request, the requests, the pieces of answers not yet read here.
\* torn (history): a call left with a part of its request written.
NewLink == [dest |-> None, fd |-> FALSE, st |-> "new", err |-> "ok", q |-> [n \in Lists |-> <<>>],
            out |-> FALSE, cache |-> <<>>, fresh |-> TRUE,
            net |-> "none", wire |-> <<>>, asked |-> {}, in |-> <<>>, fin |-> FALSE, torn |-> FALSE]

Init ==
    /\ conf \in Confs
    /\ w = [h |-> [t \in Threads |-> NewHandler], th |-> [t \in Threads |-> NewThread],
            link |-> [l \in Links |-> NewLink],
            dest |-> [d \in Dests |-> [on |-> FALSE, list |-> <<>>, curr |-> 0, cb |-> FALSE]],
            pool |-> <<>>, total |-> 0, dpool |-> <<>>]
    /\ cur = "wait" /\ todo = {} /\ ids = 0
----------------------------------------------------------------------------
(* CNetHandler on the lists of its link *)

DetachConn(s, t) ==
    LET h == s.h[t] IN
    IF h.conn = None THEN s
    ELSE [s EXCEPT !.link[h.conn].q = [n \in Lists |-> IF n \in h.flags THEN Remove(@[n], t) ELSE @[n]],
                   !.h[t].flags = @ \ Lists]

\* SwitchToConn, SwitchToSend, SwitchToRecv, SwitchToIdle.
SwitchTo(s, t, n) ==
    LET c == s.h[t].conn IN
    IF c = None THEN s
    ELSE [DetachConn(s, t) EXCEPT !.h[t].flags = @ \cup {n}, !.link[c].q[n] = Append(@, t)]

Unlink(s, t) == [DetachConn(s, t) EXCEPT !.h[t].conn = None]

UnRegistSession(s, t) == [s EXCEPT !.h[t].flags = @ \ {"session"}]

\* Mutant: only a thread that waits for its answer is woken.
NotifyThreadRecv(s, t, result) ==
    [s EXCEPT !.h[t].err = IF result = "ok" THEN @ ELSE result,
              !.th[t].io = @ /\ "recv" \notin s.h[t].flags]

NotifyThread(s, t, result) ==
    [s EXCEPT !.h[t].err = IF result = "ok" THEN @ ELSE result, !.th[t].io = FALSE]
----------------------------------------------------------------------------
(* Closing a link *)

\* Mutant: the calls keep their pointer to the link.
NotifyAllLinked(s, l, result) ==
    LET q == s.link[l].q
    IN  FoldLeft(LAMBDA x, t : NotifyThread(x, t, result), s, q["conn"] \o q["send"] \o q["recv"] \o q["idle"])

\* Every call on a list of the link is woken and forgets the link.
NotifyAll(s, l, result) ==
    LET q == s.link[l].q
    IN  FoldLeft(LAMBDA x, t : Unlink(NotifyThread(x, t, result), t), s,
                 q["conn"] \o q["send"] \o q["recv"] \o q["idle"])

\* CSockLink::Reset: closed, everybody told, all fields as new.
ResetLink(s, l) == [NotifyAll(s, l, s.link[l].err) EXCEPT !.link[l] = NewLink]

\* CSockLink::Destroy, CDestLinks::FreeSockLink.
Destroy(s, l) ==
    LET d == s.link[l].dest
        r == ResetLink([s EXCEPT !.dest[d].list = Remove(@, l),
                                 !.dest[d].curr = IF @ > 0 THEN @ - 1 ELSE 0], l)
    IN  [r EXCEPT !.pool = Append(@, l)]

DestroyFor(s, l, err) == Destroy([s EXCEPT !.link[l].err = err], l)

\* FindCreateDest: the object of a destination comes back from the pool with the
\* default callback it had.
FindCreateDest(s, d) ==
    IF s.dest[d].on THEN s
    ELSE [s EXCEPT !.dest[d] = [on |-> TRUE, list |-> <<>>, curr |-> 0,
                                cb |-> IF s.dpool = <<>> THEN FALSE ELSE Head(s.dpool)],
                   !.dpool = IF @ = <<>> THEN @ ELSE Tail(@)]

\* Mutant: one link too many.
GetSockLinkMore(s, d) ==
    LET new == IF s.pool = <<>> THEN s.total + 1 ELSE Head(s.pool) IN
    IF s.dest[d].curr <= conf.max
    THEN [l |-> new, s |-> [s EXCEPT !.pool = IF @ = <<>> THEN @ ELSE Tail(@),
                                     !.total = IF s.pool = <<>> THEN @ + 1 ELSE @,
                                     !.link[new].dest = d,
                                     !.dest[d].list = Append(@, new), !.dest[d].curr = @ + 1]]
    ELSE [l |-> Head(s.dest[d].list),
          s |-> [s EXCEPT !.dest[d].list = Append(Tail(@), Head(@))]]

\* GetSockLink: a new link while there are fewer than _max_links, then in turn.
GetSockLink(s, d) ==
    LET new == IF s.pool = <<>> THEN s.total + 1 ELSE Head(s.pool) IN
    IF s.dest[d].curr < conf.max
    THEN [l |-> new, s |-> [s EXCEPT !.pool = IF @ = <<>> THEN @ ELSE Tail(@),
                                     !.total = IF s.pool = <<>> THEN @ + 1 ELSE @,
                                     !.link[new].dest = d,
                                     !.dest[d].list = Append(@, new), !.dest[d].curr = @ + 1]]
    ELSE [l |-> Head(s.dest[d].list),
          s |-> [s EXCEPT !.dest[d].list = Append(Tail(@), Head(@))]]
----------------------------------------------------------------------------
(* Sending *)

Tcp(s, l) == conf.proto[s.link[l].dest] = "tcp"

Rest(s, t) == [i \in 1..s.h[t].left |-> [sid |-> s.h[t].sid, n |-> Units - s.h[t].left + i]]

\* The far end cuts what it has read into requests by their length.
Requests(str) ==
    {LET req == SubSeq(str, (k - 1) * Units + 1, k * Units)
     IN  [sid |-> IF req[1].n = 1 THEN req[1].sid ELSE None, of |-> {req[i].sid : i \in 1..Units}]
        : k \in 1..(Len(str) \div Units)}
Written(k, str) ==
    LET all == k.wire \o str
    IN  [k EXCEPT !.asked = @ \cup Requests(all),
                  !.wire = SubSeq(all, (Len(all) \div Units) * Units + 1, Len(all))]

\* SkipSendPos for the calls in the list; one that is done is woken.
Skip(a, t) ==
    LET k == IF a.b < a.s.h[t].left THEN a.b ELSE a.s.h[t].left
        s == [a.s EXCEPT !.h[t].left = @ - k]
    IN  [b |-> a.b - k, s |-> IF s.h[t].left = 0 THEN SwitchTo(NotifyThread(s, t, "ok"), t, "idle") ELSE s]

\* All there is to write on the link: the list, then the data of the caller.
ToWrite(s, l, ts) == FoldLeft(LAMBDA str, t : str \o Rest(s, t), <<>>, s.link[l].q["send"] \o ts)

\* Mutant: the caller's data goes first.
SendCacheTcpFirst(s, l, ts, b) ==
    LET str == FoldLeft(LAMBDA x, t : x \o Rest(s, t), <<>>, ts \o s.link[l].q["send"])
        put == [s EXCEPT !.link[l] = Written(@, SubSeq(str, 1, b))]
    IN  FoldLeft(Skip, [b |-> b, s |-> put], s.link[l].q["send"])

\* SendCacheTcp: writev takes b pieces; b counts down to what is left for the caller.
SendCacheTcp(s, l, ts, b) ==
    LET put == [s EXCEPT !.link[l] = Written(@, SubSeq(ToWrite(s, l, ts), 1, b))]
    IN  FoldLeft(Skip, [b |-> b, s |-> put], s.link[l].q["send"])

\* SendCacheUdp: the first b calls are sent, each in one datagram; those of the list are
\* woken, with their data still marked as unsent.
SendCacheUdp(s, l, ts, b) ==
    LET q    == s.link[l].q["send"]
        sent == SubSeq(q \o ts, 1, b)
        put  == [s EXCEPT !.link[l].asked = @ \cup {[sid |-> s.h[t].sid, of |-> {s.h[t].sid}] : t \in ToSet(sent)}]
    IN  [b |-> IF b > Len(q) THEN Units ELSE 0,
         s |-> FoldLeft(LAMBDA x, t : SwitchTo(NotifyThread(x, t, "ok"), t, "idle"), put,
                        SubSeq(sent, 1, IF b < Len(q) THEN b ELSE Len(q)))]

Broken(s, l) == s.link[l].net = "rst" \/ s.link[l].fin

\* What writev or sendto can do for the calls ts after those in the list: accept a part,
\* or, once the far end has gone, fail.
SendCache(s, l, ts) ==
    LET most == IF Tcp(s, l) THEN Len(ToWrite(s, l, ts)) ELSE Len(s.link[l].q["send"] \o ts)
        done == {IF Tcp(s, l) THEN SendCacheTcp(s, l, ts, b) ELSE SendCacheUdp(s, l, ts, b) : b \in 0..most}
        fail == IF Tcp(s, l) THEN {s} ELSE {SendCacheUdp(s, l, ts, b).s : b \in 0..(most - 1)}
    IN  done \cup {[b |-> -1, s |-> x] : x \in IF Broken(s, l) THEN fail ELSE {}}

\* Mutant: no EPOLLOUT when a part was sent.
SendDataOut(r, l, t) ==
    [b |-> r.b, s |-> [r.s EXCEPT !.link[l].out = (r.b = 0), !.link[l].fresh = TRUE]]

\* SendData: EPOLLOUT is wanted while the caller's data is not all sent.
SendData(r, l, t) ==
    [b |-> r.b, s |-> [r.s EXCEPT !.link[l].out = (r.b < r.s.h[t].left), !.link[l].fresh = TRUE]]
----------------------------------------------------------------------------
(* Receiving *)

\* Mutant: the first call that waits.
FindSessionFirst(s, l, sid) == IF s.link[l].q["recv"] = <<>> THEN {} ELSE {Head(s.link[l].q["recv"])}

FindSession(s, l, sid) ==
    {t \in Threads : "session" \in s.h[t].flags /\ s.h[t].sid = sid /\ s.h[t].dest = s.link[l].dest}

\* An answer for a live session wakes its call; others are dropped.
Deliver(s, l, r) ==
    FoldLeft(LAMBDA x, t : [SwitchTo(NotifyThread(x, t, "ok"), t, "idle") EXCEPT !.h[t].rsp = r],
             s, SetToSeq(FindSession(s, l, r.sid)))

\* DispathTcp: complete answers are handed out one by one, up to one that cannot be parsed.
DispathTcp(s, l) ==
    LET k    == s.link[l]
        d    == k.dest
        cb   == s.dest[d].cb \/ k.q["recv"] # <<>>
        n    == Len(k.cache) \div 2
        ans  == [i \in 1..n |-> k.cache[2 * i]]
        bad  == SelectInSeq(ans, LAMBDA r : r.sid = None)
        upto == IF bad = 0 THEN n ELSE bad - 1
        got  == FoldLeft(LAMBDA x, r : Deliver(x, l, r),
                         [s EXCEPT !.dest[d].cb = cb, !.link[l].cache = SubSeq(@, 2 * upto + 1, Len(@))],
                         SubSeq(ans, 1, upto))
    IN  IF ~cb THEN [ret |-> "close", s |-> s]
        ELSE IF bad # 0 THEN [ret |-> "close", s |-> [got EXCEPT !.link[l].err = "pkg"]]
        ELSE [ret |-> "ok", s |-> got]

\* DispathUdp: with nobody waiting to receive, everything is dropped.
DispathUdp(s, l) ==
    LET ans == IF s.link[l].q["recv"] = <<>> THEN <<>> ELSE s.link[l].cache
    IN  [ret |-> "ok", s |-> FoldLeft(LAMBDA x, r : Deliver(x, l, r), [s EXCEPT !.link[l].cache = <<>>], ans)]

\* InputNotify after the cache was filled with n more pieces.
RecvDispath(s, l, n) ==
    LET rd == [s EXCEPT !.link[l].cache = @ \o SubSeq(s.link[l].in, 1, n), !.link[l].fresh = TRUE,
                        !.link[l].in = SubSeq(@, n + 1, Len(@))]
        r  == IF Tcp(s, l) THEN DispathTcp(rd, l) ELSE DispathUdp(rd, l)
    IN  [ok |-> r.ret = "ok", s |-> IF r.ret = "ok" THEN r.s ELSE Destroy(r.s, l)]

OutputDone(s, l) == [s EXCEPT !.link[l].out = @ /\ s.link[l].q["send"] # <<>>]

\* OutputNotify: who waited to connect is woken; then the list is sent.
OutputNotify(s, l) ==
    LET con == IF s.link[l].st # "connecting" THEN s
               ELSE FoldLeft(LAMBDA x, t : SwitchTo(NotifyThread(x, t, "ok"), t, "idle"),
                             [s EXCEPT !.link[l].st = "connected"], s.link[l].q["conn"])
    IN  {IF r.b < 0 THEN DestroyFor(r.s, l, "send")
         ELSE OutputDone([r.s EXCEPT !.link[l].fresh = TRUE], l) : r \in SendCache(con, l, <<>>)}
----------------------------------------------------------------------------
(* The daemon *)

Ready(s, l) ==
    LET k == s.link[l] IN
    k.fd /\ (k.net = "rst" \/ k.in # <<>> \/ k.fin \/ (k.out /\ k.net # "syn"))

EpollWait ==
    /\ cur = "wait" /\ cur' = "dispatch"
    /\ todo' = {l \in Links : Ready(w, l)}
    /\ UNCHANGED <<w, conf, ids>>

\* EpollRcvEventList: EPOLLERR and EPOLLHUP alone, or input and then output.
HangupNotify(l) ==
    /\ cur = "dispatch" /\ l \in todo /\ w.link[l].net = "rst"
    /\ w' = DestroyFor(w, l, "epoll")
    /\ todo' = todo \ {l}
    /\ UNCHANGED <<cur, conf, ids>>

\* The end of the stream is seen when nothing is left to read; it hides what was read
\* before it in the same call of cache_tcp_recv.  A read may also fail.
InputFails(l) ==
    /\ cur = "dispatch" /\ l \in todo /\ w.link[l].net # "rst"
    /\ \/ w.link[l].fin /\ w' = DestroyFor(w, l, "closed")
       \/ w.link[l].in # <<>> /\ w' = DestroyFor(w, l, "recv")
    /\ todo' = todo \ {l}
    /\ UNCHANGED <<cur, conf, ids>>

InputNotify(l) ==
    /\ cur = "dispatch" /\ l \in todo /\ w.link[l].net # "rst" /\ w.link[l].in # <<>>
    /\ \E n \in (IF Tcp(w, l) THEN 1..Len(w.link[l].in) ELSE {Len(w.link[l].in)}) :
         LET r == RecvDispath(w, l, n) IN
         \/ w' = r.s
         \/ r.ok /\ r.s.link[l].out /\ w' \in OutputNotify(r.s, l)
    /\ todo' = todo \ {l}
    /\ UNCHANGED <<cur, conf, ids>>

OutputOnly(l) ==
    /\ cur = "dispatch" /\ l \in todo /\ w.link[l].net # "rst"
    /\ w.link[l].in = <<>> /\ ~w.link[l].fin /\ w.link[l].out
    /\ w' \in OutputNotify(w, l)
    /\ todo' = todo \ {l}
    /\ UNCHANGED <<cur, conf, ids>>

Waiting  == {t \in Threads : w.th[t].io /\ w.th[t].pc # "idle"}
Sleepers == {t \in Threads : w.th[t].io /\ w.th[t].pc = "idle" /\ w.th[t].n < Calls[t]}

\* WakeupTimeout for the threads ts; after a long time every link is old and every timer due.
Clock(ts, long) ==
    /\ cur = "dispatch" /\ todo = {} /\ cur' = "timer"
    /\ w' = [w EXCEPT !.th = [t \in Threads |-> [@[t] EXCEPT !.io = @ /\ t \notin ts]],
                      !.link = [l \in Links |-> [@[l] EXCEPT !.fresh = @ /\ ~(long /\ w.link[l].dest # None)]]]
    /\ LET on == {d \in Dests : w.dest[d].on}
       IN  todo' \in (IF long THEN {on} ELSE SUBSET on)
    /\ UNCHANGED <<conf, ids>>

\* Mutant: a destination without links is kept.
TimerEmpty(s, d) == s

\* CDestLinks::timer_notify, after the old links are gone.
TimerDone(s, d) ==
    IF s.dest[d].list # <<>> THEN s
    ELSE [s EXCEPT !.dest[d].on = FALSE, !.dpool = Append(@, s.dest[d].cb)]

TimerNotify(d) ==
    /\ cur = "timer" /\ d \in todo
    /\ w' = TimerDone(FoldLeft(LAMBDA x, l : Destroy(x, l), w,
                               SelectSeq(w.dest[d].list, LAMBDA l : ~w.link[l].fresh)), d)
    /\ todo' = todo \ {d}
    /\ UNCHANGED <<cur, conf, ids>>

\* The next thread that can run, or the daemon.
Schedule(s) ==
    LET run == {t \in Threads : ~s.th[t].io} IN IF run = {} THEN {"wait"} ELSE run

TimerEnd ==
    /\ cur = "timer" /\ todo = {}
    /\ cur' \in Schedule(w)
    /\ UNCHANGED <<w, todo, conf, ids>>
----------------------------------------------------------------------------
(* SendRecv, step by step *)

At(t, pc) == cur = t /\ w.th[t].pc = pc

Go(s, t, pc)  == w' = [s EXCEPT !.th[t].pc = pc] /\ UNCHANGED <<cur, todo, conf, ids>>
Ret(s, t, rc) == w' = [s EXCEPT !.th[t].pc = "exit", !.th[t].ret = rc] /\ UNCHANGED <<cur, todo, conf, ids>>

WaitNotify(s, t, pc) ==
    LET r == [s EXCEPT !.th[t].pc = pc, !.th[t].io = TRUE]
    IN  w' = r /\ cur' \in Schedule(r) /\ UNCHANGED <<todo, conf, ids>>

\* Mutant: only sessions that wait for an answer are looked at.
TakenRecv(s, d, sid) ==
    \E t \in Threads : {"session", "recv"} \subseteq s.h[t].flags /\ s.h[t].sid = sid /\ s.h[t].dest = d

\* FindNetItem.
Taken(s, d, sid) ==
    \E t \in Threads : "session" \in s.h[t].flags /\ s.h[t].sid = sid /\ s.h[t].dest = d

\* The callers number their calls; one may take a number that is in use.
Offered ==
    LET live == {w.h[t].sid : t \in {u \in Threads : "session" \in w.h[u].flags}}
    IN  live \cup {ids + 1}

\* CheckParams: the session id is registered, if no call to the destination has it.
CheckParams(t, d, sid) ==
    /\ At(t, "idle")
    /\ LET s == [w EXCEPT !.h[t].left = Units, !.h[t].sid = sid, !.h[t].dest = d] IN
       w' = IF Taken(w, d, sid) THEN [s EXCEPT !.th[t].pc = "exit", !.th[t].ret = "sid"]
            ELSE [s EXCEPT !.h[t].flags = @ \cup {"session"}, !.th[t].pc = "link"]
    /\ ids' = IF sid > ids THEN sid ELSE ids
    /\ UNCHANGED <<cur, todo, conf>>

\* GetConnLink and Link; WaitConnect up to CreateSock, which may fail.
GetConnLink(t) ==
    /\ At(t, "link")
    /\ LET g == GetSockLink(FindCreateDest(w, w.h[t].dest), w.h[t].dest)
           s == SwitchTo([g.s EXCEPT !.h[t].conn = g.l, !.th[t].at = g.l], t, "idle")
       IN  \/ s.link[g.l].fd /\ Go(s, t, "connect")
           \/ ~s.link[g.l].fd /\ Ret(s, t, "sock")
           \/ /\ ~s.link[g.l].fd
              /\ Go([s EXCEPT !.link[g.l].fd = TRUE, !.link[g.l].out = Tcp(s, g.l),
                              !.link[g.l].net = IF Tcp(s, g.l) THEN "none" ELSE "est"], t, "connect")

\* Connect: UDP at once, TCP when the link is up; otherwise wait.  connect may be done
\* at once, go on, or fail, which shows as an event.
Connect(t) ==
    /\ At(t, "connect")
    /\ LET l == w.h[t].conn
           k == w.link[l]
           s == [w EXCEPT !.link[l].fresh = TRUE]
           wait(x) == WaitNotify(SwitchTo(x, t, "conn"), t, "connecting")
       IN  \/ /\ ~Tcp(w, l) \/ k.st = "connected"
              /\ Go([s EXCEPT !.link[l].st = "connected"], t, "send")
           \/ Tcp(w, l) /\ k.st = "connecting" /\ wait(s)
           \/ /\ Tcp(w, l) /\ k.st = "new"
              /\ \/ Go([s EXCEPT !.link[l].st = "connected", !.link[l].net = "est"], t, "send")
                 \/ \E net \in {"syn", "rst"} :
                      wait([s EXCEPT !.link[l].st = "connecting", !.link[l].net = net])

\* WaitConnect after the wait.
ConnectEnd(t) ==
    /\ At(t, "connecting")
    /\ LET s == SwitchTo(w, t, "idle")
       IN  IF s.h[t].err # "ok" THEN Ret(s, t, s.h[t].err)
           ELSE IF s.link[s.th[t].at].st = "connected" THEN Go(s, t, "send")
           ELSE Ret(s, t, "connect")

\* WaitSend.
Send(t) ==
    /\ At(t, "send")
    /\ LET l == w.h[t].conn IN
       \/ l = None /\ Ret(w, t, "mem")
       \/ /\ l # None
          /\ \E r \in SendCache(w, l, <<t>>) :
               LET x == SendData(r, l, t)
                   s == [x.s EXCEPT !.h[t].left = @ - x.b]
               IN  \/ x.b < 0 /\ Ret(x.s, t, "send")
                   \/ x.b >= 0 /\ s.h[t].left = 0 /\ Go(s, t, "recv")
                   \/ x.b >= 0 /\ s.h[t].left # 0 /\ WaitNotify(SwitchTo(s, t, "send"), t, "sending")

\* Mutant: waits until everything is sent.
SendEndRetry(t) ==
    /\ At(t, "sending")
    /\ LET s == SwitchTo(w, t, "idle")
       IN  IF s.h[t].err # "ok" THEN Ret(s, t, s.h[t].err)
           ELSE IF s.h[t].left = 0 THEN Go(s, t, "recv")
           ELSE WaitNotify(SwitchTo(s, t, "send"), t, "sending")

SendEnd(t) ==
    /\ At(t, "sending")
    /\ LET s == SwitchTo(w, t, "idle")
       IN  IF s.h[t].err # "ok" THEN Ret(s, t, s.h[t].err)
           ELSE IF s.h[t].left = 0 THEN Go(s, t, "recv")
           ELSE Ret(s, t, "send")

\* WaitRecv.
Recv(t) ==
    /\ At(t, "recv")
    /\ IF w.h[t].conn = None THEN Ret(w, t, "mem")
       ELSE WaitNotify(SwitchTo(w, t, "recv"), t, "recving")

RecvEnd(t) ==
    /\ At(t, "recving")
    /\ LET s == SwitchTo(w, t, "idle")
       IN  Ret(s, t, IF s.h[t].rsp # None THEN "ok" ELSE "recv")

\* CNetHandler::Reset.
ResetHandler(s, t) == [UnRegistSession(Unlink(s, t), t) EXCEPT !.h[t] = NewHandler]

\* EXIT_LABEL; then the CNetHelper goes, or is kept for another call.
Exit(t) ==
    /\ At(t, "exit")
    /\ LET h == w.h[t]
           c == IF h.conn # None /\ h.left \in 1..(Units - 1) THEN {h.conn} ELSE {}
           s == [UnRegistSession(Unlink(w, t), t) EXCEPT
                   !.link = [l \in Links |-> [@[l] EXCEPT !.torn = @ \/ l \in c]],
                   !.th[t] = [NewThread EXCEPT !.n = w.th[t].n + 1]]
       IN  \/ w' = ResetHandler(s, t)
           \/ Reuse /\ w' = s
    /\ cur' \in Schedule(w')
    /\ UNCHANGED <<todo, conf, ids>>
----------------------------------------------------------------------------
(* The far end *)

Far(l) == cur = "wait" /\ w.link[l].fd /\ UNCHANGED <<cur, todo, conf, ids>>

Accept(l) == Far(l) /\ w.link[l].net = "syn" /\ w' = [w EXCEPT !.link[l].net = "est"]

\* Refused, reset, or a datagram that could not be delivered.
PeerReset(l) == Far(l) /\ w.link[l].net \in {"syn", "est"} /\ w' = [w EXCEPT !.link[l].net = "rst"]

PeerClose(l) ==
    /\ Far(l) /\ Tcp(w, l) /\ w.link[l].net = "est" /\ ~w.link[l].fin
    /\ w' = [w EXCEPT !.link[l].fin = TRUE, !.link[l].asked = {}]

\* Requests are answered in any order, or never; a datagram may come twice.
PeerAnswer(l, r) ==
    /\ Far(l) /\ w.link[l].net = "est" /\ ~w.link[l].fin /\ r \in w.link[l].asked
    /\ IF Tcp(w, l)
       THEN w' = [w EXCEPT !.link[l].asked = @ \ {r}, !.link[l].in = @ \o <<r, r>>]
       ELSE /\ ~Contains(w.link[l].in, r)
            /\ \E once \in BOOLEAN : w' = [w EXCEPT !.link[l].in = Append(@, r),
                                                    !.link[l].asked = IF once THEN @ \ {r} ELSE @]
----------------------------------------------------------------------------
Thread(t) ==
    \/ \E d \in Dests, sid \in Offered : CheckParams(t, d, sid)
    \/ GetConnLink(t) \/ Connect(t) \/ ConnectEnd(t) \/ Send(t) \/ SendEnd(t) \/ Recv(t) \/ RecvEnd(t)
    \/ Exit(t)
Event(l) == HangupNotify(l) \/ InputFails(l) \/ InputNotify(l) \/ OutputOnly(l)
Clocks   == \E ts \in SUBSET (Waiting \cup Sleepers), long \in BOOLEAN : Clock(ts, long)
Peer(l)  == Accept(l) \/ PeerReset(l) \/ PeerClose(l) \/ \E r \in w.link[l].asked : PeerAnswer(l, r)

Next ==
    \/ \E t \in Threads : Thread(t)
    \/ EpollWait \/ Clocks \/ TimerEnd
    \/ \E l \in Links : Event(l) \/ Peer(l)
    \/ \E d \in Dests : TimerNotify(d)

Spec == Init /\ [][Next]_vars

\* The process runs: threads, the daemon's loop, and in it every event and timer that
\* was reported.  Every deadline passes; now and then a long time does.
FairSpec ==
    /\ Spec
    /\ WF_vars(\E t \in Threads : Thread(t))
    /\ WF_vars(EpollWait \/ Clocks \/ TimerEnd)
    /\ WF_todo(\E x \in todo : todo' = todo \ {x})
    /\ SF_vars(Clock(Waiting, TRUE))
----------------------------------------------------------------------------
(* Properties *)

\* The variables have their types; a destination never has more than _max_links links.
TypeOK ==
    /\ \A t \in Threads :
         /\ w.h[t].flags \subseteq Lists \cup {"session"} /\ w.h[t].left \in 0..Units
         /\ w.h[t].conn \in Links \cup {None} /\ w.h[t].sid \in Nat \cup {None}
         /\ w.h[t].err \in {"ok", "epoll", "closed", "recv", "send", "pkg"}
         /\ w.th[t].n \in 0..Calls[t]
    /\ \A l \in Links : w.link[l].dest \in Dests \cup {None} /\ Len(w.link[l].wire) < Units
    /\ w.total \in 0..Cardinality(Links)
    /\ \A d \in Dests : w.dest[d].curr \in 0..conf.max
    /\ cur \in Threads \cup {"wait", "dispatch", "timer"}

\* A call is on one list of its link, the one its flag names, and on no list once the
\* link is gone; a link belongs to one destination or is in the pool, once, and a
\* destination counts its links (Switch*, Unlink, NotifyAll, GetSockLink, FreeSockLink).
ListExact ==
    /\ \A t \in Threads, l \in Links, n \in Lists :
         Len(SelectSeq(w.link[l].q[n], LAMBDA x : x = t)) =
            IF w.h[t].conn = l /\ n \in w.h[t].flags THEN 1 ELSE 0
    /\ \A t \in Threads : Cardinality(w.h[t].flags \cap Lists) = IF w.h[t].conn = None THEN 0 ELSE 1
    /\ \A l \in 1..w.total :
         Cardinality({d \in Dests : w.dest[d].on /\ Contains(w.dest[d].list, l)})
            + Len(SelectSeq(w.pool, LAMBDA x : x = l)) = 1
    /\ \A d \in Dests : w.dest[d].curr = Len(w.dest[d].list)
    /\ \A l \in ToSet(w.pool) : w.link[l] = NewLink

\* No two calls under way to a destination have the same session id, and a call under
\* way is found by its id until it ends (RegistSession, UnRegistSession).
SessionExact ==
    \A t \in Threads :
        /\ w.th[t].pc \notin {"idle", "exit"} =>
             {u \in Threads : "session" \in w.h[u].flags /\ w.h[u].sid = w.h[t].sid
                                                       /\ w.h[u].dest = w.h[t].dest} = {t}
        /\ w.th[t].pc = "idle" => w.h[t].flags = {}

\* The books are exact: types, the lists of each link, the links of each destination and
\* the sessions.
BooksExact == TypeOK /\ ListExact /\ SessionExact

\* SendRecv succeeds only with the answer to the request of this call (FindSession).
OwnAnswer ==
    \A t \in Threads : w.th[t].pc = "exit" /\ w.th[t].ret = "ok" =>
        w.h[t].rsp = [sid |-> w.h[t].sid, of |-> {w.h[t].sid}]

\* The far end never sees pieces of two requests as one, unless a call gave up with a
\* part of its request written (SendCacheTcp, the list and then the caller).
NoMix ==
    \A l \in Links : ~w.link[l].torn =>
        \A r \in w.link[l].asked : r.of = {r.sid}

\* A thread that waits has not been overlooked: it has no answer, no error and a link
\* (NotifyThread before each change of list).
NoLostWakeup == \A t \in Waiting : w.h[t].rsp = None /\ w.h[t].err = "ok" /\ w.h[t].conn # None

\* While calls wait to connect or to send, the link watches for EPOLLOUT (SendData,
\* OutputNotify, CreateSock).
OutWatched ==
    \A l \in Links : w.link[l].q["conn"] \o w.link[l].q["send"] # <<>> => w.link[l].fd /\ w.link[l].out

\* Nobody waits for what will not come but by the timeout.
NoneForgotten == NoLostWakeup /\ OutWatched

\* Every SendRecv returns.
CallEnds == \A t \in Threads : w.th[t].pc # "idle" ~> w.th[t].pc = "idle"

\* Links and destinations nobody uses any more are closed and freed (timer_notify).
IdleClosed == <>[](\A d \in Dests : ~w.dest[d].on /\ \A l \in Links : ~w.link[l].fd)
=============================================================================
