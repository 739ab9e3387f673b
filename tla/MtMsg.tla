------------------------------- MODULE MtMsg -------------------------------
(***************************************************************************)
(* mt_msg_sendrcv: a micro thread sends a list of requests (actions) to    *)
(* back ends and waits for the answers until a deadline.  With it the      *)
(* connections it uses: one socket per request (UDP short), TCP            *)
(* connections kept open between requests (TcpKeepMgr, with an idle timer  *)
(* and epoll watching for the far end), and one UDP socket shared by all   *)
(* threads, where answers find their request by a session id (SessionMgr,  *)
(* UdpSessionNtfy).                                                        *)
(*                                                                         *)
(* The code of a thread runs without interruption up to the next poll; the *)
(* daemon thread then handles events, sets the clock, wakes the threads    *)
(* whose time is up and runs expired timers.  The clock a thread reads is  *)
(* the one the daemon set last.  A message is known by the action that     *)
(* asked for it; an action object is used for one call.                    *)
(***************************************************************************)
EXTENDS Integers, Sequences, FiniteSets, SequencesExt

CONSTANTS
    Threads,    \* micro threads
    Acts,       \* IMtAction objects
    Inputs,     \* what the threads do: the lists of actions each passes, call by call,
                \* and the kind of each action
    Kinds,      \* kinds of request in use: "tcp", "short", "session"
    KeepActs,   \* the actions of a call outlive it, up to the end of their thread
    EpollFails, \* epoll_ctl may fail
    None

\* Connection objects: no more than one for each action is ever needed.
Conns == Kinds \X (1..Cardinality(Acts))

\* An action is in one place of the lists at most.
UsedOnce(cs) ==
    \A t, u \in Threads : \A c \in DOMAIN cs[t], d \in DOMAIN cs[u] :
        \A i \in DOMAIN cs[t][c], j \in DOMAIN cs[u][d] :
            cs[t][c][i] = cs[u][d][j] => t = u /\ c = d /\ i = j

ASSUME MsgAssumption ==
    /\ IsFiniteSet(Acts)
    /\ \A x \in Inputs : /\ x.calls \in [Threads -> Seq(Seq(Acts))] /\ UsedOnce(x.calls)
                         /\ x.kind \in [Acts -> Kinds]
    /\ Kinds \subseteq {"tcp", "short", "session"}
    /\ KeepActs \in BOOLEAN /\ EpollFails \in BOOLEAN
    /\ None \notin Acts \cup Conns \cup {"send", "keep", "thread", "hung"}
    /\ {"send", "error"} \cap Acts = {} /\ {"dispatch", "clock", "timer"} \cap Threads = {}

VARIABLES
    w,       \* objects: actions, connections, pools, the idle list, the session table
    th,      \* the threads
    cur,     \* thread that runs, or what the daemon is doing
    calls,   \* the calls of this run
    kind,    \* protocol and connection type the caller set in each action
    \* history
    got      \* what each action was given: an answer, by who asked for it, or "error"

vars == <<w, th, cur, calls, kind, got>>
user == <<calls, kind>>

NewAct  == [flag |-> "undef", err |-> FALSE, conn |-> None, sconn |-> None]
\* buf: "send" is the request's own buffer; watch: who is the notify object of the fd;
\* late (history): given back by a call that ran past its deadline.
NewConn == [act |-> None, buf |-> None, ev |-> {}, st |-> "none", in |-> <<>>, owes |-> <<>>,
            eof |-> FALSE, watch |-> None, timer |-> FALSE, late |-> FALSE]
Rest    == [call |-> 0, pc |-> "idle", i |-> 1, wait |-> <<>>, has |-> FALSE, clk |-> 0,
            io |-> TRUE, poll |-> "no"]

Init ==
    /\ \E x \in Inputs : calls = x.calls /\ kind = x.kind
    /\ w = [act  |-> [a \in Acts |-> NewAct], conn |-> [k \in Conns |-> NewConn],
            keep |-> <<>>, pool |-> [d \in Kinds |-> <<>>], total |-> [d \in Kinds |-> 0],
            hash |-> {},
            udp  |-> [open |-> FALSE, in |-> {}, asked |-> {}, wlist |-> {}, out |-> FALSE]]
    /\ th = [t \in Threads |-> Rest] /\ cur = "dispatch"
    /\ got = [a \in Acts |-> None]

Fails == IF EpollFails THEN BOOLEAN ELSE {FALSE}
----------------------------------------------------------------------------
(* Connections: ConnectionMgr, TcpKeepMgr, CPtrPool *)

\* CPtrPool::AllocPtr: the object freed first, or a new one.
AllocPtr(s, d) ==
    IF s.pool[d] # <<>> THEN [k |-> Head(s.pool[d]), s |-> [s EXCEPT !.pool[d] = Tail(@)]]
    ELSE [k |-> <<d, s.total[d] + 1>>, s |-> [s EXCEPT !.total[d] = @ + 1]]

\* Reset of the connection (its socket is closed), then FreePtr.
ResetFree(s, k) ==
    [s EXCEPT !.conn[k] = [NewConn EXCEPT !.timer = s.conn[k].timer],
              !.pool[k[1]] = Append(@, k)]

\* Mutant: the timer runs on.
IdleDetachEpoll(s, k) ==
    IF s.conn[k].st = "none" \/ s.conn[k].watch # "keep" THEN s
    ELSE [s EXCEPT !.conn[k].watch = None]

IdleDetach(s, k) ==
    IF s.conn[k].st = "none" \/ s.conn[k].watch # "keep" THEN s
    ELSE [s EXCEPT !.conn[k].timer = FALSE, !.conn[k].watch = None]

\* IdleAttach: the timer is started first, then the fd watched.
IdleAttach(s, k, fails) ==
    LET c == s.conn[k] IN
    CASE c.st = "none"     -> [ok |-> FALSE, s |-> s]
      [] c.st # "none" /\ c.watch = "keep" -> [ok |-> TRUE, s |-> s]
      [] c.st # "none" /\ c.watch # "keep" /\ c.timer -> [ok |-> FALSE, s |-> s]
      [] OTHER -> [ok |-> ~fails,
                   s  |-> [s EXCEPT !.conn[k].timer = TRUE,
                                    !.conn[k].watch = IF fails THEN @ ELSE "keep"]]

\* GetConnection: an idle TCP connection is used again, the one that was idle longest.
GetConnection(s, d) ==
    IF d = "tcp" /\ s.keep # <<>>
    THEN [k |-> Head(s.keep), s |-> IdleDetach([s EXCEPT !.keep = Tail(@)], Head(s.keep))]
    ELSE AllocPtr(s, d)

\* FreeConnection: a TCP connection goes to the idle list unless it is forced to close.
FreeConnection(s, k, force, fails) ==
    LET at == IdleAttach(s, k, fails) IN
    IF k[1] # "tcp" \/ force THEN ResetFree(s, k)
    ELSE IF ~at.ok THEN ResetFree(at.s, k)
    ELSE [at.s EXCEPT !.conn[k].act = None, !.conn[k].buf = None, !.conn[k].ev = {},
                      !.keep = IF Contains(@, k) THEN @ ELSE Append(@, k)]

\* CloseIdleTcpKeep: of the idle timer and of any event of an idle connection.  A
\* connection without an address (in the pool) is not looked for in the list.
CloseIdleTcpKeep(s, k) ==
    ResetFree(IF s.conn[k].st = "none" /\ s.conn[k].act = None THEN s
              ELSE [IdleDetach(s, k) EXCEPT !.keep = RemoveFirst(@, k)], k)
----------------------------------------------------------------------------
(* Threads *)

Lst(t)  == calls[t][th[t].call]
A(t)    == Lst(t)[th[t].i]
K(t)    == w.act[A(t)].conn
Own(a)  == CHOOSE t \in Threads : \E c \in DOMAIN calls[t] : Contains(calls[t][c], a)
InCall(t) == th[t].pc # "idle" /\ th[t].pc # "done"

At(t, pc)   == cur = t /\ th[t].pc = pc /\ th[t].poll = "no" /\ ~th[t].io
One(t, pc)  == At(t, pc) /\ th[t].i <= Len(Lst(t))
All(t, pc)  == At(t, pc) /\ th[t].i > Len(Lst(t))

Step(t)     == th' = [th EXCEPT ![t].i = @ + 1]
Has(t)      == th' = [th EXCEPT ![t].i = @ + 1, ![t].has = TRUE]
Waits(t)    == th' = [th EXCEPT ![t].i = @ + 1, ![t].wait = Append(@, A(t))]
GoTo(t, pc) == th' = [th EXCEPT ![t] = [@ EXCEPT !.pc = pc, !.i = 1, !.wait = <<>>, !.has = FALSE]]
SetFlag(f, t) == [w EXCEPT !.act[A(t)].flag = f]
SetErrno(t)   == [w EXCEPT !.act[A(t)].err = TRUE]
Failed(s, as) == [s EXCEPT !.act = [a \in Acts |-> IF Contains(as, a) THEN [@[a] EXCEPT !.err = TRUE]
                                                   ELSE @[a]]]

\* ThreadSchdule: the next runnable thread, or the daemon.
Schedule(ths) ==
    LET run == {t \in Threads : ~ths[t].io /\ ths[t].pc # "done"}
    IN  IF run = {} THEN {"dispatch"} ELSE run

StartCall(t) ==
    /\ At(t, "idle") /\ th[t].call < Len(calls[t])
    /\ th' = [th EXCEPT ![t] = [Rest EXCEPT !.call = th[t].call + 1, !.pc = "init", !.io = FALSE]]
    /\ UNCHANGED <<w, cur, user, got>>

\* InitConnEnv and DoEncode of one action; the plugin may fail to encode.
InitConnEnv(t) ==
    /\ One(t, "init")
    /\ LET c == GetConnection(w, kind[A(t)])
           s == [c.s EXCEPT !.conn[c.k].act = A(t), !.conn[c.k].buf = "send",
                            !.act[A(t)].conn = c.k]
           n == IF kind[A(t)] # "session" THEN s
                ELSE [s EXCEPT !.act[A(t)].sconn = c.k, !.hash = @ \cup {A(t)}]
       IN  \E bad \in BOOLEAN : w' = [n EXCEPT !.act[A(t)].err = bad]
    /\ Step(t)
    /\ UNCHANGED <<cur, user, got>>

\* InitConnEnv fails after the connection was taken: mt_msg_sendrcv returns, and the
\* actions are cleaned up when they are destroyed.
InitFails(t) ==
    /\ One(t, "init")
    /\ LET c == GetConnection(w, kind[A(t)])
       IN  w' = [c.s EXCEPT !.conn[c.k].act = A(t), !.act[A(t)].conn = c.k]
    /\ GoTo(t, "reset")
    /\ UNCHANGED <<cur, user, got>>

InitDone(t) == All(t, "init") /\ GoTo(t, "sock") /\ UNCHANGED <<w, cur, user, got>>

\* mt_multi_newsock, one action.  The first socket that fails ends the call; the
\* actions behind it have no error set.
CreateSocket(t) ==
    /\ One(t, "sock")
    /\ LET k    == K(t)
           made == IF k[1] = "session" THEN [w EXCEPT !.udp.open = TRUE]
                   ELSE IF w.conn[k].st # "none" THEN w
                   ELSE [w EXCEPT !.conn[k].st = IF k[1] = "tcp" THEN "new" ELSE "open"]
       IN  \/ w.act[A(t)].err /\ Step(t) /\ UNCHANGED w
           \/ /\ ~w.act[A(t)].err
              /\ w' = [made EXCEPT !.act[A(t)].flag = IF k[1] = "tcp" THEN "init" ELSE "open"]
              /\ Has(t)
           \/ ~w.act[A(t)].err /\ made # w /\ w' = SetErrno(t) /\ GoTo(t, "report")
    /\ UNCHANGED <<cur, user, got>>

SockDone(t) ==
    /\ All(t, "sock")
    /\ GoTo(t, IF th[t].has THEN "open" ELSE "report")
    /\ UNCHANGED <<w, cur, user, got>>

\* Mutant: the events of all connections in use are forgotten.
EpollAddAll(s, as, how) ==
    LET ks == {s.act[as[n]].conn : n \in DOMAIN as}
        se == {k \in ks : k[1] = "session"}
    IN  [s EXCEPT
          !.conn = [k \in Conns |-> [@[k] EXCEPT !.ev = {},
                                     !.watch = IF k \in ks \ se THEN "thread" ELSE @]],
          !.udp.wlist = IF how = "out" THEN @ \cup se ELSE @,
          !.udp.out = @ \/ (how = "out" /\ se # {})]

\* mt_multi_netfd_poll: the notify objects of the list are put into epoll, and the
\* thread leaves the processor.
EpollAdd(s, as, how) ==
    LET ks == {s.act[as[n]].conn : n \in DOMAIN as}
        se == {k \in ks : k[1] = "session"}
        on(k) == [s.conn[k] EXCEPT !.ev = {}, !.watch = IF k \in se THEN @ ELSE "thread"]
    IN  [s EXCEPT
          !.conn = [k \in Conns |-> IF k \in ks THEN on(k) ELSE @[k]],
          !.udp.wlist = IF how = "out" THEN @ \cup se ELSE @,
          !.udp.out = @ \/ (how = "out" /\ se # {})]

\* After the wait: EpollDel.  The write event of the shared socket is taken out
\* whoever else waits for it.
EpollDel(s, as, how) ==
    LET ks == {s.act[as[n]].conn : n \in DOMAIN as}
        se == {k \in ks : k[1] = "session"}
    IN  [s EXCEPT
          !.conn = [k \in Conns |-> IF k \notin ks \ se THEN @[k] ELSE [@[k] EXCEPT !.watch = None]],
          !.udp.wlist = IF how = "out" THEN @ \ se ELSE @,
          !.udp.out = @ /\ ~(how = "out" /\ se # {})]

Poll(t, how) ==
    \/ /\ w' = EpollAdd(w, th[t].wait, how)
       /\ th' = [th EXCEPT ![t].io = TRUE, ![t].poll = how]
       /\ cur' \in Schedule(th')
    \/ /\ TRUE \in Fails
       /\ w' = Failed(w, <<Last(th[t].wait)>>)
       /\ th' = [th EXCEPT ![t].i = 1, ![t].wait = <<>>]
       /\ UNCHANGED cur

\* Mutant: the list of the last pass is not emptied.
PollBackKeep(t) ==
    /\ cur = t /\ ~th[t].io /\ th[t].poll # "no"
    /\ w' = EpollDel(w, th[t].wait, th[t].poll)
    /\ th' = [th EXCEPT ![t].i = 1, ![t].poll = "no"]
    /\ UNCHANGED <<cur, user, got>>

PollBack(t) ==
    /\ cur = t /\ ~th[t].io /\ th[t].poll # "no"
    /\ w' = EpollDel(w, th[t].wait, th[t].poll)
    /\ th' = [th EXCEPT ![t].i = 1, ![t].wait = <<>>, ![t].poll = "no"]
    /\ UNCHANGED <<cur, user, got>>

\* Mutant: a deadline that moves with the clock.
LateNever(t) == FALSE

\* GetLastClock() > end_ms
Late(t) == th[t].clk = 2

\* One action of mt_multi_open.  An error of connect is tried again like one that is
\* in progress.
OpenCnnect(t) ==
    /\ One(t, "open")
    /\ LET a == w.act[A(t)] IN
       \/ a.err /\ Step(t) /\ UNCHANGED w
       \/ ~a.err /\ a.flag = "open" /\ Has(t) /\ UNCHANGED w
       \/ /\ ~a.err /\ a.flag # "open" /\ Step(t)
          /\ w' = [SetFlag("open", t) EXCEPT !.conn[K(t)].st = "open"]
       \/ ~a.err /\ a.flag # "open" /\ w.conn[K(t)].st = "new" /\ Waits(t) /\ UNCHANGED w
    /\ UNCHANGED <<cur, user, got>>

\* The end of a pass of mt_multi_open: after the deadline it fails when something was
\* found open, and goes on when nothing was.
AfterOpen(t) == IF th[t].has THEN "report" ELSE "send"
OpenPass(t) ==
    /\ All(t, "open")
    /\ \/ Late(t) /\ w' = Failed(w, th[t].wait) /\ GoTo(t, AfterOpen(t)) /\ UNCHANGED cur
       \/ ~Late(t) /\ th[t].wait # <<>> /\ Poll(t, "out")
       \/ ~Late(t) /\ th[t].wait = <<>> /\ GoTo(t, "send") /\ UNCHANGED <<w, cur>>
    /\ UNCHANGED <<user, got>>

\* One action of mt_multi_sendto: all sent, part of it, or an error.  Only the error
\* of a TCP socket is -1; the others return -2, which counts as sent.
SendData(t) ==
    /\ One(t, "send")
    /\ LET a == w.act[A(t)]
           k == K(t)
           out == IF k[1] = "session" THEN [SetFlag("send", t) EXCEPT !.udp.asked = @ \cup {A(t)}]
                  ELSE [SetFlag("send", t) EXCEPT !.conn[k].owes = Append(@, A(t))]
       IN  \/ a.err /\ Step(t) /\ UNCHANGED w
           \/ ~a.err /\ a.flag = "send" /\ Has(t) /\ UNCHANGED w
           \/ ~a.err /\ a.flag # "send" /\ Step(t) /\ w' = out
           \/ ~a.err /\ a.flag # "send" /\ Waits(t) /\ UNCHANGED w
           \/ /\ ~a.err /\ a.flag # "send" /\ Step(t)
              /\ k[1] = "tcp" => w.conn[k].eof
              /\ w' = IF k[1] = "tcp" THEN SetErrno(t) ELSE SetFlag("send", t)
    /\ UNCHANGED <<cur, user, got>>

AfterSend(t) == IF th[t].has THEN "recv" ELSE "report"
SendPass(t) ==
    /\ All(t, "send")
    /\ \/ Late(t) /\ w' = Failed(w, th[t].wait) /\ GoTo(t, AfterSend(t)) /\ UNCHANGED cur
       \/ ~Late(t) /\ th[t].wait # <<>> /\ Poll(t, "out")
       \/ ~Late(t) /\ th[t].wait = <<>> /\ GoTo(t, "recv") /\ UNCHANGED <<w, cur>>
    /\ UNCHANGED <<user, got>>

\* One action of mt_multi_recvfrom.  A session's answer is in its buffer already; a
\* socket is read and may hold part of an answer, or one the plugin rejects.
RecvData(t) ==
    /\ One(t, "recv")
    /\ LET a == w.act[A(t)]
           k == K(t)
           c == w.conn[k]
           here == IF k[1] = "session" THEN "in" \in c.ev /\ c.buf # "send" ELSE c.in # <<>>
       IN  \/ (a.err \/ a.flag = "fin") /\ Step(t) /\ UNCHANGED w
           \/ ~a.err /\ a.flag # "fin" /\ (k[1] # "session" \/ ~here) /\ ~c.eof
              /\ Waits(t) /\ UNCHANGED w
           \/ /\ ~a.err /\ a.flag # "fin" /\ here /\ Step(t)
              /\ w' = IF k[1] = "session" THEN SetFlag("fin", t)
                      ELSE [SetFlag("fin", t) EXCEPT !.conn[k].buf = Head(c.in),
                                                     !.conn[k].in = Tail(c.in)]
           \/ /\ ~a.err /\ a.flag # "fin" /\ k[1] # "session" /\ (here \/ c.eof) /\ Step(t)
              /\ w' = SetErrno(t)
    /\ UNCHANGED <<cur, user, got>>

RecvPass(t) ==
    /\ All(t, "recv")
    /\ \/ Late(t) /\ w' = Failed(w, th[t].wait) /\ GoTo(t, "report") /\ UNCHANGED cur
       \/ ~Late(t) /\ th[t].wait # <<>> /\ Poll(t, "in")
       \/ ~Late(t) /\ th[t].wait = <<>> /\ GoTo(t, "report") /\ UNCHANGED <<w, cur>>
    /\ UNCHANGED <<user, got>>

\* DoProcess or DoError of every action.
Report(t) ==
    /\ At(t, "report")
    /\ got' = [a \in Acts |-> IF ~Contains(Lst(t), a) THEN got[a]
                              ELSE IF w.act[a].flag = "fin" THEN w.conn[w.act[a].conn].buf
                              ELSE "error"]
    /\ GoTo(t, "reset")
    /\ UNCHANGED <<w, cur, user>>

\* Mutant: a connection is given back and not taken from the action.
ResetTwice(t) ==
    /\ One(t, "reset")
    /\ \/ K(t) = None /\ UNCHANGED w
       \/ K(t) # None /\ w' = FreeConnection(w, K(t), w.act[A(t)].err, FALSE)
    /\ Step(t)
    /\ UNCHANGED <<cur, user, got>>

\* Mutant: every connection is kept.
ForceFreeNever(a) == FALSE

\* IMtAction::Reset: the connection is closed if the action has an error.
ForceFree(a) == w.act[a].err
Reset(t) ==
    /\ One(t, "reset")
    /\ LET a == A(t) IN
       \/ K(t) = None /\ UNCHANGED w
       \/ /\ K(t) # None
          /\ \E fails \in Fails :
               LET s == FreeConnection(w, K(t), ForceFree(a), fails)
               IN  w' = [s EXCEPT !.act[a].conn = None,
                                  !.conn[K(t)].late = @ \/ (Late(t) /\ Contains(s.keep, K(t)))]
    /\ Step(t)
    /\ UNCHANGED <<cur, user, got>>

\* Mutant: ~ISession leaves the table alone.
DestroyedLeft(t) == {}

\* The caller destroys actions: ~ISession takes the session out of the table.
Destroyed(t) ==
    IF ~KeepActs THEN ToSet(Lst(t))
    ELSE IF th[t].call = Len(calls[t]) THEN UNION {ToSet(calls[t][c]) : c \in DOMAIN calls[t]}
    ELSE {}
EndCall(t) ==
    /\ All(t, "reset")
    /\ w' = [w EXCEPT !.hash = @ \ Destroyed(t)]
    /\ \E io \in BOOLEAN :
         th' = [th EXCEPT ![t] = [Rest EXCEPT !.call = th[t].call, !.io = io,
                     !.pc = IF th[t].call = Len(calls[t]) THEN "done" ELSE "idle"]]
    /\ cur' \in IF th'[t].io \/ th'[t].pc = "done" THEN Schedule(th') ELSE {t}
    /\ UNCHANGED <<user, got>>
----------------------------------------------------------------------------
(* The daemon thread *)

\* The notify functions of EpollerObj: wake the owner if it waits.
Wake(t) == th' = [th EXCEPT ![t].io = @ /\ th[t].poll = "no"]

\* TcpKeepNtfy: anything that happens to an idle connection closes it.
KeepEvent(k) ==
    /\ cur = "dispatch"
    /\ w.conn[k].watch = "keep" /\ (w.conn[k].in # <<>> \/ w.conn[k].eof)
    /\ w' = CloseIdleTcpKeep(w, k)
    /\ UNCHANGED <<th, cur, user, got>>

ThreadEvent(k) ==
    /\ cur = "dispatch" /\ w.conn[k].watch = "thread"
    /\ LET t == Own(w.conn[k].act) IN
       /\ th[t].poll = "in" => w.conn[k].in # <<>> \/ w.conn[k].eof
       /\ th[t].io
       /\ w' = [w EXCEPT !.conn[k].ev = {th[t].poll}]
       /\ Wake(t)
    /\ UNCHANGED <<cur, user, got>>

\* EpollerObj::HangupNotify: the fd is watched no longer, the thread waits on.
HangupNotify(k) ==
    /\ cur = "dispatch" /\ w.conn[k].watch = "thread" /\ w.conn[k].eof
    /\ w' = [w EXCEPT !.conn[k].watch = "hung", !.conn[k].ev = {"hup"}]
    /\ UNCHANGED <<th, cur, user, got>>

\* UdpSessionNtfy::InputNotify, one datagram: the answer to a replaces the buffer of
\* the connection its session names, and the session's thread is woken.
InputNotify(a) ==
    /\ cur = "dispatch" /\ w.udp.open /\ a \in w.udp.in
    /\ LET s == [w EXCEPT !.udp.in = @ \ {a}]
           k == w.act[a].sconn
       IN  \/ /\ a \notin w.hash \/ w.conn[k].act = None
              /\ w' = s /\ UNCHANGED th
           \/ /\ a \in w.hash /\ w.conn[k].act # None
              /\ w' = [s EXCEPT !.conn[k].buf = a, !.conn[k].ev = {"in"}]
              /\ Wake(Own(a))
    /\ UNCHANGED <<cur, user, got>>

\* NotifyWriteWait: every proxy in the list, and its thread.
OutputNotify ==
    /\ cur = "dispatch" /\ w.udp.open /\ w.udp.out /\ w.udp.wlist # {}
    /\ w' = [w EXCEPT !.conn = [k \in Conns |-> IF k \in w.udp.wlist THEN [@[k] EXCEPT !.ev = {"out"}] ELSE @[k]]]
    /\ th' = [t \in Threads |-> IF \E k \in w.udp.wlist : Own(w.conn[k].act) = t
                                THEN [th[t] EXCEPT !.io = FALSE] ELSE th[t]]
    /\ \E t \in Threads : th'[t] # th[t]
    /\ UNCHANGED <<cur, user, got>>

\* UdpSessionNtfy::HangupNotify: the socket is opened again, if it can be.
SessionHangup ==
    /\ cur = "dispatch" /\ w.udp.open
    /\ \E open \in BOOLEAN : w' = [w EXCEPT !.udp.open = open, !.udp.in = {}, !.udp.out = FALSE]
    /\ UNCHANGED <<th, cur, user, got>>

DispatchEnd == cur = "dispatch" /\ cur' = "clock" /\ UNCHANGED <<w, th, user, got>>

\* SetLastClock: of each thread in ts the deadline comes nearer or is passed; then
\* WakeupTimeout.  A thread that sleeps between calls may be woken.
Clock(ts) ==
    /\ cur = "clock"
    /\ \E to \in [ts -> 1..2],
          up \in SUBSET {t \in Threads : th[t].pc = "idle" /\ th[t].io /\ th[t].call < Len(calls[t])} :
         /\ \A t \in ts : to[t] > th[t].clk
         /\ th' = [t \in Threads |->
                     LET c == IF t \in ts THEN to[t] ELSE th[t].clk
                     IN  IF t \in up THEN [th[t] EXCEPT !.io = FALSE]
                         ELSE [th[t] EXCEPT !.clk = c, !.io = @ /\ ~(InCall(t) /\ c >= 1)]]
    /\ cur' = "timer"
    /\ UNCHANGED <<w, user, got>>
Ticking == {t \in Threads : InCall(t) /\ th[t].clk < 2}

\* check_expired: an idle timer is due.
TimerNotify(k) ==
    /\ cur = "timer" /\ w.conn[k].timer
    /\ w' = CloseIdleTcpKeep([w EXCEPT !.conn[k].timer = FALSE], k)
    /\ UNCHANGED <<th, cur, user, got>>

TimerEnd ==
    /\ cur = "timer"
    /\ cur' \in Schedule(th)
    /\ UNCHANGED <<w, th, user, got>>
----------------------------------------------------------------------------
(* The back ends: they answer in order, late or never, and may close; datagrams may
   be lost or come twice. *)
Answer(k) ==
    /\ w.conn[k].owes # <<>> /\ ~w.conn[k].eof
    /\ w' = [w EXCEPT !.conn[k].owes = Tail(@), !.conn[k].in = Append(@, Head(w.conn[k].owes))]
    /\ UNCHANGED <<th, cur, user, got>>
PeerClose(k) ==
    /\ k[1] = "tcp" /\ w.conn[k].st = "open" /\ ~w.conn[k].eof
    /\ w' = [w EXCEPT !.conn[k].eof = TRUE, !.conn[k].owes = <<>>]
    /\ UNCHANGED <<th, cur, user, got>>
AnswerUdp(a) ==
    /\ a \in w.udp.asked \ w.udp.in /\ w.udp.open
    /\ w' = [w EXCEPT !.udp.in = @ \cup {a}]
    /\ UNCHANGED <<th, cur, user, got>>
----------------------------------------------------------------------------
Thread(t) ==
    \/ StartCall(t) \/ InitConnEnv(t) \/ InitFails(t) \/ InitDone(t) \/ CreateSocket(t) \/ SockDone(t)
    \/ OpenCnnect(t) \/ OpenPass(t) \/ SendData(t) \/ SendPass(t) \/ RecvData(t) \/ RecvPass(t)
    \/ PollBack(t) \/ Report(t) \/ Reset(t) \/ EndCall(t)
Daemon ==
    \/ \E k \in Conns : KeepEvent(k) \/ ThreadEvent(k) \/ HangupNotify(k) \/ TimerNotify(k)
    \/ \E a \in Acts : InputNotify(a)
    \/ OutputNotify \/ SessionHangup \/ DispatchEnd \/ TimerEnd
    \/ \E ts \in SUBSET Ticking : Clock(ts)
BackEnds ==
    \/ \E k \in Conns : Answer(k) \/ PeerClose(k)
    \/ \E a \in Acts : AnswerUdp(a)

Next == (\E t \in Threads : Thread(t)) \/ Daemon \/ BackEnds

Spec == Init /\ [][Next]_vars

\* The process runs, the daemon goes round, and time passes for every call.
FairSpec ==
    /\ Spec
    /\ WF_vars(\/ \E t \in Threads : Thread(t)
               \/ DispatchEnd \/ TimerEnd \/ \E ts \in SUBSET Ticking : Clock(ts))
    /\ SF_vars(Ticking # {} /\ Clock(Ticking))
----------------------------------------------------------------------------
(* Properties *)

\* The variables have their types, and no list of a poll names an action twice.
TypeOK ==
    /\ \A a \in Acts :
         w.act[a] \in [flag : {"undef", "init", "open", "send", "fin"}, err : BOOLEAN,
                      conn : Conns \cup {None}, sconn : Conns \cup {None}]
    /\ \A k \in Conns :
         w.conn[k] \in [act : Acts \cup {None}, buf : Acts \cup {"send", None},
                       ev : SUBSET {"in", "out", "hup"}, st : {"none", "new", "open"},
                       in : Seq(Acts), owes : Seq(Acts), eof : BOOLEAN,
                       watch : {None, "keep", "thread", "hung"}, timer : BOOLEAN, late : BOOLEAN]
    /\ w.keep \in Seq(Conns) /\ w.hash \subseteq Acts /\ w.udp.in \subseteq Acts
    /\ \A d \in Kinds : w.pool[d] \in Seq(Conns)
    /\ \A t \in Threads : /\ th[t].clk \in 0..2
                          /\ th[t].wait \in Seq(Acts) /\ IsInjective(th[t].wait)

\* A connection object is with one action, or idle, or in its pool, once; the action
\* it is with has it (GetConnection, FreeConnection, CloseIdleTcpKeep).
ConnOnce ==
    \A k \in Conns :
        LET users == {a \in Acts : w.act[a].conn = k}
            free  == {i \in DOMAIN w.pool[k[1]] : w.pool[k[1]][i] = k}
            idle  == {i \in DOMAIN w.keep : w.keep[i] = k}
        IN  /\ Cardinality(users) + Cardinality(free) + Cardinality(idle) = IF k[2] <= w.total[k[1]] THEN 1 ELSE 0
            /\ users = {} <=> w.conn[k].act = None
            /\ users # {} => w.conn[k].act \in users

\* The idle timer runs and epoll watches for exactly the connections that are idle
\* (IdleAttach, IdleDetach).
IdleExact ==
    \A k \in Conns :
        /\ w.conn[k].timer <=> Contains(w.keep, k)
        /\ w.conn[k].watch = "keep" <=> Contains(w.keep, k)

\* An idle connection owes no answer and has none unread, unless its call ran out of
\* time while it sent ("used again only after success", IMtAction::Reset).
IdleCleanInTime ==
    \A k \in ToSet(w.keep) :
        ~w.conn[k].late => w.conn[k].owes = <<>> /\ w.conn[k].in = <<>>

\* Connections are exact: types, one holder each, timer and epoll for the idle ones, and
\* an idle one is fit for the next request.
ConnExact == TypeOK /\ ConnOnce /\ IdleExact /\ IdleCleanInTime

\* An action processes the answer to its own request, unless it was given a
\* connection left by a call that was late.
OwnAnswer ==
    [][\A a \in Acts : got'[a] \in Acts /\ got'[a] # got[a]
                            => got'[a] = a \/ w.conn[w.act[a].conn].late]_vars

\* An answer delivered to the connection of a session is noticed: polls, which
\* forget old events, never forget it (mt_multi_netfd_poll, InputNotify).
AnswerSeen ==
    \A a \in Acts :
        LET k == w.act[a].conn IN
        k # None /\ kind[a] = "session" /\ w.conn[k].buf \in Acts /\ ~w.act[a].err
            => "in" \in w.conn[k].ev

\* Every call of mt_msg_sendrcv ends.
CallEnds == \A t \in Threads : InCall(t) ~> ~InCall(t)
=============================================================================
