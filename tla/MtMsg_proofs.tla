---------------------------- MODULE MtMsg_proofs ----------------------------
(***************************************************************************)
(* Proofs about requests over connections (mt_msg_sendrcv): ConnExact,     *)
(* AnswerSeen and OwnAnswer for every number of threads, actions, calls    *)
(* and kinds of request.                                                   *)
(*                                                                         *)
(* The invariant relates three tables that the code keeps apart: actions,  *)
(* connection objects, and threads in the middle of a call.  TabOk: an     *)
(* action and its connection point to each other and every connection is   *)
(* in one place (Paired, Placed), idle ones are watched and clean (Kept).  *)
(* ActOk: what the connection of a request holds, by how far the request   *)
(* has come (Stream, Session).  ThreadOk: how far each action of a call    *)
(* has come, by the position of the thread (StageOk), and what the thread  *)
(* polls for (WaitOk); this is what makes a connection that goes back to   *)
(* the idle list clean.  WatchOk: what epoll watches for a thread, some    *)
(* thread waits for.  CurOk: between two polls a thread keeps the          *)
(* processor, so that the daemon changes connections only while all their  *)
(* users poll.                                                             *)
(*                                                                         *)
(* The theorems are about runs in which epoll_ctl does not fail: with a    *)
(* failure IdleAttach leaves the timer of a freed connection running and   *)
(* ConnExact is false.  AnswersSeen and OwnAnswers also assume that a call *)
(* destroys its actions: a session that outlives its call stays in the     *)
(* table with a connection that is another's by then.                      *)
(***************************************************************************)
EXTENDS MtMsg, SequenceTheorems, FiniteSetTheorems, TLAPS

\* The records of w.
ActType  == [flag : {"undef", "init", "open", "send", "fin"}, err : BOOLEAN,
             conn : Conns \cup {None}, sconn : Conns \cup {None}]
ConnType == [act : Acts \cup {None}, buf : Acts \cup {"send", None}, ev : SUBSET {"in", "out", "hup"},
             st : {"none", "new", "open"}, in : Seq(Acts), owes : Seq(Acts), eof : BOOLEAN,
             watch : {None, "keep", "thread", "hung"}, timer : BOOLEAN, late : BOOLEAN]
UdpType  == [open : BOOLEAN, in : SUBSET Acts, asked : SUBSET Acts, wlist : SUBSET Conns, out : BOOLEAN]
WType    == [act : [Acts -> ActType], conn : [Conns -> ConnType], keep : Seq(Conns),
             pool : [Kinds -> Seq(Conns)], total : [Kinds -> Nat], hash : SUBSET Acts, udp : UdpType]

\* A thread.
ThType == [call : Nat, pc : {"idle", "init", "sock", "open", "send", "recv", "report", "reset", "done"},
           i : Nat \ {0}, wait : Seq(Acts), has : BOOLEAN, clk : 0..2, io : BOOLEAN,
           poll : {"no", "in", "out"}]

\* Where a connection object can be: with an action, idle, or in its pool.
Used(s, k) == s.conn[k].act # None
Idle(s, k) == \E i \in DOMAIN s.keep : s.keep[i] = k
Free(s, k) == \E i \in DOMAIN s.pool[k[1]] : s.pool[k[1]][i] = k
Made(s, k) == k[2] <= s.total[k[1]]
NoDup(q)   == \A i, j \in DOMAIN q : q[i] = q[j] => i = j

\* An action and the connection it has point to each other.
Paired(s) ==
    /\ \A a \in Acts : s.act[a].conn # None => s.conn[s.act[a].conn].act = a /\ s.act[a].conn[1] = kind[a]
    /\ \A k \in Conns : Used(s, k) => s.act[s.conn[k].act].conn = k

\* Every connection object made is in one place, once; H are those in the hands of
\* the caller.
Placed(s, H) ==
    /\ NoDup(s.keep) /\ \A d \in Kinds : NoDup(s.pool[d]) /\ \A i \in DOMAIN s.pool[d] : s.pool[d][i][1] = d
    /\ \A k \in Conns :
         /\ Used(s, k) => Made(s, k) /\ ~Idle(s, k) /\ ~Free(s, k) /\ k \notin H
         /\ Idle(s, k) => Made(s, k) /\ ~Free(s, k) /\ k \notin H /\ k[1] = "tcp"
         /\ Free(s, k) => Made(s, k) /\ k \notin H
         /\ Made(s, k) => Used(s, k) \/ Idle(s, k) \/ Free(s, k) \/ k \in H

\* The timer and epoll are on for the idle ones, which are open and, unless late,
\* clean; who is neither idle nor used is as new.
Kept(s) ==
    \A k \in Conns :
        /\ s.conn[k].timer <=> Idle(s, k)
        /\ s.conn[k].watch = "keep" <=> Idle(s, k)
        /\ Idle(s, k) => s.conn[k].st # "none" /\ s.conn[k].buf = None
        /\ Idle(s, k) /\ ~s.conn[k].late => s.conn[k].in = <<>> /\ s.conn[k].owes = <<>>
        /\ ~Idle(s, k) /\ ~Used(s, k) => s.conn[k] = NewConn

\* Some call of some thread names the action.
Listed(a) == \E t \in Threads : \E c \in DOMAIN calls[t] : \E j \in DOMAIN calls[t][c] : calls[t][c][j] = a

\* What is in the connection of a request: nothing before it is sent, at most its own
\* answer, that answer in the buffer at the end.
Stream(a, x, c) ==
    /\ x.flag \notin {"send", "fin"} => c.in = <<>> /\ c.owes = <<>>
    /\ x.flag = "send" => /\ \A i \in DOMAIN c.in : c.in[i] = a
                          /\ \A i \in DOMAIN c.owes : c.owes[i] = a
                          /\ Len(c.in) + Len(c.owes) <= 1
    /\ x.flag = "fin" => c.in = <<>> /\ c.owes = <<>> /\ c.buf = a

\* The connection of a session holds nothing but the answer to the session, and has its event.
Session(a, x, c, asked) ==
    /\ x.flag = "fin" \/ "in" \in c.ev => c.buf \in Acts
    /\ ~KeepActs /\ c.buf \in Acts => c.buf = a /\ a \in asked /\ (x.err \/ "in" \in c.ev)

\* An action: its place in the session table, and its connection.
ActOk(s, a) ==
    LET x == s.act[a] IN
    /\ x.conn # None \/ x.flag # "undef" \/ a \in s.hash \/ a \in s.udp.asked => Listed(a)
    /\ a \in s.udp.in => a \in s.udp.asked
    /\ a \in s.udp.asked => x.flag \in {"send", "fin"}
    /\ a \in s.hash => kind[a] = "session" /\ x.sconn \in Conns /\ x.sconn[1] = "session"
    /\ a \in s.hash /\ ~KeepActs /\ x.conn # None => x.sconn = x.conn
    /\ x.conn # None /\ kind[a] = "session" => Session(a, x, s.conn[x.conn], s.udp.asked)
    /\ x.conn # None /\ kind[a] # "session" /\ ~s.conn[x.conn].late => Stream(a, x, s.conn[x.conn])

\* A thread is in a call; a request is not sent yet.
Busy(r) == r.pc \notin {"idle", "done"}
Early == {"undef", "init", "open"}

\* Action number j of call c of a thread in state r.
StageOk(r, a, x, c, j, n, hash) ==
    /\ x.conn # None => n /\ (r.pc = "init" => j < r.i) /\ (r.pc = "reset" => j >= r.i)
    /\ n /\ r.pc # "reset" /\ (r.pc = "init" => j < r.i) => x.conn # None
    /\ a \in hash /\ ~KeepActs => n /\ (r.pc = "init" => j < r.i)
    /\ c > r.call \/ (n /\ (r.pc = "init" \/ (r.pc = "sock" /\ j >= r.i))) => x.flag = "undef"
    /\ n /\ r.pc \in {"sock", "open"} => x.flag \in Early
    /\ n /\ r.pc = "send" => x.flag # "fin"
    /\ n /\ r.pc = "recv" /\ j < r.i => x.err \/ x.flag = "fin" \/ \E m \in DOMAIN r.wait : r.wait[m] = a
    /\ n /\ r.pc \in {"report", "reset"} /\ r.clk < 2 => x.err \/ x.flag # "send"

\* The list of a poll: actions of the call before position i, none twice, that have
\* something to wait for.
WaitOk(t, r, s) ==
    /\ NoDup(r.wait)
    /\ r.wait # <<>> => r.pc \in {"open", "send", "recv"}
    /\ \A m \in DOMAIN r.wait :
         /\ \E j \in DOMAIN calls[t][r.call] : j < r.i /\ calls[t][r.call][j] = r.wait[m]
         /\ r.pc = "send" => s.act[r.wait[m]].flag # "send"
         /\ r.pc = "recv" /\ r.poll = "no" /\ kind[r.wait[m]] = "session" /\ ~KeepActs =>
                s.conn[s.act[r.wait[m]].conn].buf \notin Acts

\* A thread: its position, what it waits for, and every action it will ever pass.
ThreadOk(t, r, s) ==
    /\ r \in ThType /\ r.call \in 0..Len(calls[t])
    /\ Busy(r) => r.call \in DOMAIN calls[t] /\ r.i <= Len(calls[t][r.call]) + 1
    /\ r.poll # "no" => r.pc \in {"open", "send", "recv"} /\ (r.poll = "in" <=> r.pc = "recv")
    /\ WaitOk(t, r, s)
    /\ \A c \in DOMAIN calls[t] : \A j \in DOMAIN calls[t][c] :
         StageOk(r, calls[t][c][j], s.act[calls[t][c][j]], c, j, Busy(r) /\ c = r.call, s.hash)

\* Who is watched is waited for.
WatchOk(s, ths) ==
    /\ \A k \in Conns : s.conn[k].watch \in {"thread", "hung"} =>
         /\ k[1] # "session" /\ Used(s, k)
         /\ \E t \in Threads : ths[t].poll # "no" /\ \E m \in DOMAIN ths[t].wait : ths[t].wait[m] = s.conn[k].act
    /\ \A k \in s.udp.wlist :
         /\ k[1] = "session" /\ Used(s, k)
         /\ \E t \in Threads : ths[t].poll = "out" /\ \E m \in DOMAIN ths[t].wait : ths[t].wait[m] = s.conn[k].act

\* Between two polls a thread keeps the processor.
CurOk(c, ths) ==
    /\ c \in Threads \cup {"dispatch", "clock", "timer"}
    /\ \A t \in Threads : Busy(ths[t]) /\ ths[t].poll = "no" => c = t

\* The tables of connections are sound.
TabOk(s) == s \in WType /\ Paired(s) /\ Placed(s, {}) /\ Kept(s)

\* What the caller passes.
InputOk == calls \in [Threads -> Seq(Seq(Acts))] /\ UsedOnce(calls) /\ kind \in [Acts -> Kinds]

\* The inductive invariant.
IInv ==
    /\ InputOk /\ TabOk(w) /\ \A a \in Acts : ActOk(w, a)
    /\ th \in [Threads -> ThType] /\ \A t \in Threads : ThreadOk(t, th[t], w)
    /\ WatchOk(w, th) /\ CurOk(cur, th)
\* The actions of a thread.
Mine(t) == {a \in Acts : \E c \in DOMAIN calls[t] : \E j \in DOMAIN calls[t][c] : calls[t][c][j] = a}
----------------------------------------------------------------------------
(* The lists of actions *)

\* Calls and their actions are what they should be.
LEMMA CallTypes ==
    ASSUME InputOk, NEW t \in Threads
    PROVE  /\ Len(calls[t]) \in Nat /\ DOMAIN calls[t] = 1..Len(calls[t])
           /\ \A c \in DOMAIN calls[t] : /\ calls[t][c] \in Seq(Acts) /\ Len(calls[t][c]) \in Nat
                                         /\ DOMAIN calls[t][c] = 1..Len(calls[t][c])
                                         /\ \A j \in DOMAIN calls[t][c] : calls[t][c][j] \in Acts
<1>1. calls[t] \in Seq(Seq(Acts))
  BY DEF InputOk
<1>2. Len(calls[t]) \in Nat /\ DOMAIN calls[t] = 1..Len(calls[t])
  BY <1>1, LenProperties
<1>3. ASSUME NEW c \in DOMAIN calls[t]
      PROVE  /\ calls[t][c] \in Seq(Acts) /\ Len(calls[t][c]) \in Nat
             /\ DOMAIN calls[t][c] = 1..Len(calls[t][c])
             /\ \A j \in DOMAIN calls[t][c] : calls[t][c][j] \in Acts
  <2>1. calls[t][c] \in Seq(Acts)
    BY <1>1, <1>2, <1>3, ElementOfSeq
  <2>2. Len(calls[t][c]) \in Nat /\ DOMAIN calls[t][c] = 1..Len(calls[t][c])
    BY <2>1, LenProperties
  <2> QED BY <2>1, <2>2, ElementOfSeq
<1> QED BY <1>2, <1>3

\* An action is one of the thread that lists it.
LEMMA MineOf ==
    ASSUME InputOk, NEW t \in Threads, NEW c \in DOMAIN calls[t], NEW j \in DOMAIN calls[t][c]
    PROVE  calls[t][c][j] \in Mine(t)
BY CallTypes DEF Mine

\* An action is in one place of the lists of its thread.
LEMMA Once ==
    ASSUME InputOk, NEW t \in Threads, NEW c \in DOMAIN calls[t], NEW i \in DOMAIN calls[t][c],
           NEW d \in DOMAIN calls[t], NEW j \in DOMAIN calls[t][d], calls[t][c][i] = calls[t][d][j]
    PROVE  c = d /\ i = j
BY DEF InputOk, UsedOnce

\* Two threads share no action.
LEMMA MineApart ==
    ASSUME InputOk, NEW t \in Threads, NEW u \in Threads, NEW a \in Mine(t), a \in Mine(u)
    PROVE  t = u
BY DEF InputOk, UsedOnce, Mine

\* The owner of an action is the thread that lists it.
LEMMA OwnIs ==
    ASSUME InputOk, NEW t \in Threads, NEW a \in Mine(t)
    PROVE  Own(a) = t
<1>1. PICK c \in DOMAIN calls[t] : \E j \in DOMAIN calls[t][c] : calls[t][c][j] = a
  BY DEF Mine
<1>2. Contains(calls[t][c], a)
  BY <1>1, CallTypes DEF Contains
<1>3. ASSUME NEW u \in Threads, NEW d \in DOMAIN calls[u], Contains(calls[u][d], a) PROVE u = t
  <2>1. PICK j \in 1..Len(calls[u][d]) : calls[u][d][j] = a
    BY <1>3 DEF Contains
  <2>2. j \in DOMAIN calls[u][d]
    BY CallTypes
  <2> QED BY <2>1, <2>2, MineOf, MineApart
<1> QED BY <1>2, <1>3 DEF Own

\* A listed action is one of some thread.
LEMMA ListedMine ==
    ASSUME InputOk, NEW a \in Acts, Listed(a)
    PROVE  \E t \in Threads : a \in Mine(t)
BY DEF Listed, Mine

\* An action of a thread is listed.
LEMMA MineListed ==
    ASSUME NEW t \in Threads, NEW a \in Mine(t)
    PROVE  Listed(a)
BY DEF Listed, Mine

\* The types of the parts of a table.
LEMMA Parts ==
    ASSUME NEW s \in WType
    PROVE  /\ \A a \in Acts : s.act[a] \in ActType
           /\ \A k \in Conns : s.conn[k] \in ConnType
           /\ s.keep \in Seq(Conns) /\ \A d \in Kinds : s.pool[d] \in Seq(Conns) /\ s.total[d] \in Nat
           /\ s.hash \subseteq Acts /\ s.udp \in UdpType
BY DEF WType
----------------------------------------------------------------------------
(* Tables that differ in nothing that says where a connection is *)

\* u is like s: objects are in the same places, an idle one is still open and is no less
\* clean, one that is as new is untouched.
Like(s, u) ==
    /\ u \in WType /\ u.keep = s.keep /\ u.pool = s.pool /\ u.total = s.total
    /\ \A a \in Acts : u.act[a].conn = s.act[a].conn
    /\ \A k \in Conns :
         /\ u.conn[k].act = s.conn[k].act /\ u.conn[k].timer = s.conn[k].timer
         /\ u.conn[k].watch = "keep" <=> s.conn[k].watch = "keep"
         /\ Idle(s, k) => /\ u.conn[k].st # "none" /\ u.conn[k].buf = s.conn[k].buf
                          /\ u.conn[k].late = s.conn[k].late
                          /\ s.conn[k].in = <<>> /\ s.conn[k].owes = <<>> =>
                                u.conn[k].in = <<>> /\ u.conn[k].owes = <<>>
         /\ ~Idle(s, k) /\ ~Used(s, k) => u.conn[k] = s.conn[k]

\* A table that is like a sound one is sound.
LEMMA LikeTab ==
    ASSUME NEW s, NEW u, TabOk(s), Like(s, u)
    PROVE  TabOk(u)
<1>1. \A k \in Conns : /\ Used(u, k) <=> Used(s, k)
                       /\ Idle(u, k) <=> Idle(s, k)
                       /\ Free(u, k) <=> Free(s, k)
                       /\ Made(u, k) <=> Made(s, k)
  BY DEF Like, Used, Idle, Free, Made
<1>2. \A a \in Acts : s.act[a].conn # None => s.act[a].conn \in Conns
  BY Parts DEF TabOk, ActType
<1>3. \A k \in Conns : s.conn[k].act # None => s.conn[k].act \in Acts
  BY Parts DEF TabOk, ConnType
<1>4. Paired(u)
  BY <1>1, <1>2, <1>3, SMTT(30) DEF TabOk, Paired, Like, Used
<1>5. Placed(u, {})
  <2>1. NoDup(u.keep) /\ \A d \in Kinds : NoDup(u.pool[d]) /\ \A i \in DOMAIN u.pool[d] : u.pool[d][i][1] = d
    BY DEF TabOk, Placed, Like
  <2> QED BY <1>1, <2>1 DEF TabOk, Placed
<1>6. Kept(u)
  BY <1>1 DEF TabOk, Kept, Like
<1> QED BY <1>4, <1>5, <1>6 DEF TabOk, Like

\* A table is like itself.
LEMMA LikeSelf == ASSUME NEW s, TabOk(s) PROVE Like(s, s)
BY DEF Like, TabOk, Kept

\* What an action relies on.
SameAct(s, u, a) ==
    /\ u.act[a] = s.act[a] /\ (a \in u.hash <=> a \in s.hash)
    /\ (a \in u.udp.asked <=> a \in s.udp.asked) /\ (a \in u.udp.in => a \in s.udp.in \cup s.udp.asked)
    /\ s.act[a].conn # None => u.conn[s.act[a].conn] = s.conn[s.act[a].conn]

\* An action with nothing changed is as it should be.
LEMMA SameActOk ==
    ASSUME NEW s, NEW u, NEW a \in Acts, ActOk(s, a), SameAct(s, u, a)
    PROVE  ActOk(u, a)
<1>1. s.act[a].conn # None /\ kind[a] = "session" => Session(a, u.act[a], u.conn[u.act[a].conn], u.udp.asked)
  BY DEF ActOk, SameAct, Session
<1>2. s.act[a].conn # None /\ kind[a] # "session" /\ ~u.conn[u.act[a].conn].late
        => Stream(a, u.act[a], u.conn[u.act[a].conn])
  BY DEF ActOk, SameAct
<1> QED BY <1>1, <1>2 DEF ActOk, SameAct

\* A thread with nothing changed is as it should be.
LEMMA SameThreadOk ==
    ASSUME InputOk, NEW t \in Threads, NEW r, NEW s, NEW u, ThreadOk(t, r, s), \A a \in Mine(t) : SameAct(s, u, a)
    PROVE  ThreadOk(t, r, u)
<1>1. \A c \in DOMAIN calls[t] : \A j \in DOMAIN calls[t][c] :
         StageOk(r, calls[t][c][j], u.act[calls[t][c][j]], c, j, Busy(r) /\ c = r.call, u.hash)
  <2> SUFFICES ASSUME NEW c \in DOMAIN calls[t], NEW j \in DOMAIN calls[t][c]
               PROVE  StageOk(r, calls[t][c][j], u.act[calls[t][c][j]], c, j, Busy(r) /\ c = r.call, u.hash)
    OBVIOUS
  <2>1. SameAct(s, u, calls[t][c][j])
    BY MineOf
  <2>2. StageOk(r, calls[t][c][j], s.act[calls[t][c][j]], c, j, Busy(r) /\ c = r.call, s.hash)
    BY SMTT(30) DEF ThreadOk
  <2> QED BY <2>1, <2>2 DEF SameAct, StageOk
<1>2. WaitOk(t, r, u)
  <2>1. WaitOk(t, r, s)
    BY DEF ThreadOk
  <2> SUFFICES ASSUME NEW m \in DOMAIN r.wait
               PROVE  /\ r.pc = "send" => u.act[r.wait[m]].flag # "send"
                      /\ r.pc = "recv" /\ r.poll = "no" /\ kind[r.wait[m]] = "session" /\ ~KeepActs =>
                            u.conn[u.act[r.wait[m]].conn].buf \notin Acts
    BY <2>1, SMTT(30) DEF WaitOk
  <2>2. Busy(r) /\ r.call \in DOMAIN calls[t]
    <3>1. r.wait # <<>>
      BY EmptySeq
    <3> QED BY <2>1, <3>1 DEF WaitOk, ThreadOk, Busy
  <2>3. PICK j \in DOMAIN calls[t][r.call] : calls[t][r.call][j] = r.wait[m]
    BY <2>1 DEF WaitOk
  <2>4. SameAct(s, u, r.wait[m])
    BY <2>2, <2>3, MineOf
  <2>5. StageOk(r, r.wait[m], s.act[r.wait[m]], r.call, j, TRUE, s.hash)
    BY <2>2, <2>3 DEF ThreadOk
  <2>6. r.pc = "recv" => s.act[r.wait[m]].conn # None
    BY <2>5 DEF StageOk
  <2> QED BY <2>1, <2>4, <2>6, SMTT(30) DEF WaitOk, SameAct
<1> QED BY <1>1, <1>2, SMTT(30) DEF ThreadOk
----------------------------------------------------------------------------
(* Steps of the thread that runs *)

\* u differs from s in nothing of the actions of other threads.
Local(s, u, t) == \A a \in Acts \ Mine(t) : SameAct(s, u, a)

\* Nothing more is watched.
Quiet(s, u) ==
    /\ \A k \in Conns : u.conn[k].watch \in {"thread", "hung"} =>
            s.conn[k].watch \in {"thread", "hung"} /\ u.conn[k].act = s.conn[k].act
    /\ u.udp.wlist = s.udp.wlist /\ \A k \in s.udp.wlist : u.conn[k].act = s.conn[k].act

\* What any step needs for the invariant.
LEMMA WholeOk ==
    ASSUME IInv, UNCHANGED user, TabOk(w'), \A a \in Acts : ActOk(w', a), th' \in [Threads -> ThType],
           \A u \in Threads : ThreadOk(u, th'[u], w'), WatchOk(w', th'), CurOk(cur', th')
    PROVE  IInv'
<1>1. InputOk'
  BY DEF IInv, InputOk, user, UsedOnce
<1>2. (\A a \in Acts : ActOk(w, a))'
  <2> SUFFICES ASSUME NEW a \in Acts PROVE ActOk(w, a)'
    OBVIOUS
  <2>1. Listed(a)' <=> Listed(a)
    BY DEF Listed, user
  <2>2. ActOk(w', a) /\ kind' = kind
    BY DEF user
  <2> QED BY <2>1, <2>2 DEF ActOk
<1>3. (\A u \in Threads : ThreadOk(u, th[u], w))'
  <2> SUFFICES ASSUME NEW u \in Threads PROVE ThreadOk(u, th[u], w)'
    OBVIOUS
  <2>1. ThreadOk(u, th'[u], w') /\ kind' = kind /\ calls' = calls
    BY DEF user
  <2>2. WaitOk(u, th'[u], w')
    BY <2>1, SMTT(30) DEF ThreadOk
  <2>3. WaitOk(u, th[u], w)'
    BY <2>1, <2>2 DEF WaitOk
  <2> QED BY <2>1, <2>3 DEF ThreadOk
<1>4. TabOk(w)'
  <2>1. Paired(w)'
    BY DEF TabOk, Paired, user, Used
  <2> QED BY <2>1 DEF TabOk
<1>5. WatchOk(w, th)' /\ CurOk(cur, th)'
  OBVIOUS
<1> QED BY <1>1, <1>2, <1>3, <1>4, <1>5 DEF IInv

\* What a step of thread t needs for the invariant.
LEMMA StepOk ==
    ASSUME IInv, NEW t \in Threads, NEW r, UNCHANGED user,
           th' = [th EXCEPT ![t] = r], TabOk(w'), Local(w, w', t), \A a \in Mine(t) : ActOk(w', a),
           ThreadOk(t, r, w'), WatchOk(w', th'), CurOk(cur', th')
    PROVE  IInv'
<1>1. InputOk
  BY DEF IInv
<1>2. \A a \in Acts : ActOk(w', a)
  <2>1. \A a \in Acts : ActOk(w, a)
    BY DEF IInv
  <2> QED BY <2>1, SameActOk DEF Local
<1>3. \A u \in Threads \ {t} : ThreadOk(u, th[u], w')
  <2> SUFFICES ASSUME NEW u \in Threads \ {t} PROVE ThreadOk(u, th[u], w')
    OBVIOUS
  <2>1. ThreadOk(u, th[u], w)
    BY DEF IInv
  <2>2. \A a \in Mine(u) : a \in Acts \ Mine(t)
    BY <1>1, MineApart DEF Mine
  <2> QED BY <1>1, <2>1, <2>2, SameThreadOk DEF Local
<1>4. th' \in [Threads -> ThType] /\ th'[t] = r /\ \A u \in Threads \ {t} : th'[u] = th[u]
  BY DEF IInv, ThreadOk
<1>5. \A u \in Threads : ThreadOk(u, th'[u], w')
  BY <1>3, <1>4
<1> QED BY <1>2, <1>4, <1>5, WholeOk

\* Nothing new is watched by a step of a thread that does not poll.
LEMMA QuietWatch ==
    ASSUME NEW s, NEW u, NEW t \in Threads, NEW r, th[t].poll = "no", th \in [Threads -> ThType],
           WatchOk(s, th), Quiet(s, u)
    PROVE  WatchOk(u, [th EXCEPT ![t] = r])
<1> DEFINE ths == [th EXCEPT ![t] = r]
<1>1. \A x \in Threads : th[x].poll # "no" => ths[x] = th[x]
  OBVIOUS
<1> HIDE DEF ths
<1>2. ASSUME NEW k \in Conns, u.conn[k].watch \in {"thread", "hung"}
      PROVE  /\ k[1] # "session" /\ Used(u, k)
             /\ \E x \in Threads : ths[x].poll # "no" /\ \E m \in DOMAIN ths[x].wait : ths[x].wait[m] = u.conn[k].act
  <2>1. s.conn[k].watch \in {"thread", "hung"} /\ u.conn[k].act = s.conn[k].act
    BY <1>2 DEF Quiet
  <2>2. k[1] # "session" /\ Used(s, k)
    BY <1>2, <2>1 DEF WatchOk
  <2>3. PICK x \in Threads : th[x].poll # "no" /\ \E m \in DOMAIN th[x].wait : th[x].wait[m] = s.conn[k].act
    BY <1>2, <2>1 DEF WatchOk
  <2> QED BY <1>1, <2>1, <2>2, <2>3 DEF Used
<1>3. ASSUME NEW k \in u.udp.wlist
      PROVE  /\ k[1] = "session" /\ Used(u, k)
             /\ \E x \in Threads : ths[x].poll = "out" /\ \E m \in DOMAIN ths[x].wait : ths[x].wait[m] = u.conn[k].act
  <2>1. k \in s.udp.wlist /\ u.conn[k].act = s.conn[k].act
    BY <1>3 DEF Quiet
  <2>2. k[1] = "session" /\ Used(s, k)
    BY <2>1 DEF WatchOk
  <2>3. PICK x \in Threads : th[x].poll = "out" /\ \E m \in DOMAIN th[x].wait : th[x].wait[m] = s.conn[k].act
    BY <2>1 DEF WatchOk
  <2> QED BY <1>1, <2>1, <2>2, <2>3 DEF Used
<1> QED BY <1>2, <1>3 DEF WatchOk, ths

\* A thread that runs goes on running.
LEMMA CurStays ==
    ASSUME NEW t \in Threads, NEW r, CurOk(t, th), th \in [Threads -> ThType]
    PROVE  CurOk(t, [th EXCEPT ![t] = r])
BY DEF CurOk, Busy

\* A step of thread t that does not poll and keeps the processor.
LEMMA RunOk ==
    ASSUME IInv, NEW t \in Threads, NEW r, UNCHANGED <<cur, user>>, cur = t, th[t].poll = "no",
           th' = [th EXCEPT ![t] = r], TabOk(w'), Local(w, w', t), Quiet(w, w'),
           \A a \in Mine(t) : ActOk(w', a), ThreadOk(t, r, w')
    PROVE  IInv'
<1>1. th \in [Threads -> ThType] /\ WatchOk(w, th) /\ CurOk(t, th)
  BY DEF IInv
<1>2. WatchOk(w', th')
  BY <1>1, QuietWatch
<1>3. CurOk(cur', th')
  BY <1>1, CurStays
<1> QED BY <1>2, <1>3, StepOk

\* The table with one action, its connection and the shared socket changed.
Upd(s, a, x, k, c, v) == [s EXCEPT !.act[a] = x, !.conn[k] = c, !.udp = v]

\* Upd, part by part.
LEMMA UpdParts ==
    ASSUME NEW s \in WType, NEW a \in Acts, NEW x \in ActType, NEW k \in Conns, NEW c \in ConnType, NEW v \in UdpType
    PROVE  LET u == Upd(s, a, x, k, c, v) IN
           /\ u \in WType /\ u.keep = s.keep /\ u.pool = s.pool /\ u.total = s.total /\ u.hash = s.hash
           /\ u.udp = v /\ u.act[a] = x /\ u.conn[k] = c
           /\ \A b \in Acts \ {a} : u.act[b] = s.act[b]
           /\ \A l \in Conns \ {k} : u.conn[l] = s.conn[l]
BY DEF Upd, WType

\* u differs from s in action a, its connection and the shared socket only, and not in where
\* the connection is.
Fits(s, u, a) ==
    LET k == s.act[a].conn IN
    /\ u \in WType /\ u.keep = s.keep /\ u.pool = s.pool /\ u.total = s.total /\ u.hash = s.hash
    /\ k # None /\ u.act[a].conn = k /\ u.conn[k].act = s.conn[k].act
    /\ u.conn[k].timer = s.conn[k].timer /\ u.conn[k].watch = s.conn[k].watch
    /\ \A b \in Acts \ {a} : u.act[b] = s.act[b]
    /\ \A l \in Conns \ {k} : u.conn[l] = s.conn[l]
    /\ u.udp.wlist = s.udp.wlist /\ u.udp.in = s.udp.in
    /\ \A b \in Acts \ {a} : b \in u.udp.asked <=> b \in s.udp.asked

\* Upd is such a change.
LEMMA UpdFits ==
    ASSUME NEW s \in WType, NEW a \in Acts, NEW x \in ActType, NEW k \in Conns, NEW c \in ConnType, NEW v \in UdpType,
           x.conn = s.act[a].conn, k = s.act[a].conn, c.act = s.conn[k].act, c.timer = s.conn[k].timer,
           c.watch = s.conn[k].watch, v.wlist = s.udp.wlist, v.in = s.udp.in,
           v.asked = s.udp.asked \/ v.asked = s.udp.asked \cup {a}
    PROVE  /\ Fits(s, Upd(s, a, x, k, c, v), a) /\ Upd(s, a, x, k, c, v).act[a] = x
           /\ Upd(s, a, x, k, c, v).conn[k] = c /\ Upd(s, a, x, k, c, v).udp = v
           /\ Upd(s, a, x, k, c, v).hash = s.hash
<1> DEFINE u == Upd(s, a, x, k, c, v)
<1>1. /\ u \in WType /\ u.keep = s.keep /\ u.pool = s.pool /\ u.total = s.total /\ u.hash = s.hash
      /\ u.udp = v /\ u.act[a] = x /\ u.conn[k] = c
      /\ \A b \in Acts \ {a} : u.act[b] = s.act[b]
      /\ \A l \in Conns \ {k} : u.conn[l] = s.conn[l]
  BY UpdParts
<1>2. k # None
  BY MsgAssumption
<1> HIDE DEF u
<1>3. Fits(s, u, a)
  BY <1>1, <1>2 DEF Fits
<1> QED BY <1>1, <1>3 DEF u

\* Such a change leaves every other object alone.
LEMMA FitsFrame ==
    ASSUME NEW s, NEW u, NEW a \in Acts, TabOk(s), Fits(s, u, a)
    PROVE  /\ s.act[a].conn \in Conns /\ Like(s, u) /\ Quiet(s, u) /\ \A b \in Acts \ {a} : SameAct(s, u, b)
           /\ u.hash = s.hash
<1> DEFINE k == s.act[a].conn
<1>0. s \in WType /\ Paired(s) /\ Placed(s, {})
  BY DEF TabOk
<1>1. k \in Conns
  BY <1>0, Parts DEF Fits, ActType
<1>3. s.conn[k].act = a /\ Used(s, k) /\ ~Idle(s, k)
  <2>1. s.conn[k].act = a
    BY <1>0 DEF Fits, Paired
  <2>2. Used(s, k)
    BY <2>1, MsgAssumption, SMTT(30) DEF Used
  <2> QED BY <1>0, <1>1, <2>1, <2>2, SMTT(30) DEF Placed
<1>4. Like(s, u)
  BY <1>1, <1>3, LikeSelf DEF Like, Fits
<1>5. Quiet(s, u)
  <2>1. s.udp.wlist \subseteq Conns
    BY <1>0 DEF WType, UdpType
  <2> QED BY <1>1, <2>1 DEF Quiet, Fits
<1>6. ASSUME NEW b \in Acts \ {a} PROVE SameAct(s, u, b)
  <2>1. s.act[b].conn # k
    BY <1>0, <1>3, <1>1 DEF Paired, Fits
  <2>2. s.act[b].conn # None => s.act[b].conn \in Conns \ {k}
    BY <1>0, <2>1, Parts DEF ActType
  <2> QED BY <2>2, SMTT(30) DEF SameAct, Fits
<1> QED BY <1>1, <1>4, <1>5, <1>6 DEF Fits

\* A step of the thread that runs which changes one of its actions.
LEMMA UpdOk ==
    ASSUME IInv, NEW t \in Threads, NEW r, UNCHANGED <<cur, user>>, cur = t, th[t].poll = "no",
           th' = [th EXCEPT ![t] = r], NEW a \in Mine(t), Fits(w, w', a), ActOk(w', a), ThreadOk(t, r, w')
    PROVE  IInv'
<1>1. TabOk(w) /\ a \in Acts /\ \A b \in Acts : ActOk(w, b)
  BY DEF IInv, Mine
<1>2. Like(w, w') /\ Quiet(w, w') /\ \A b \in Acts \ {a} : SameAct(w, w', b)
  BY <1>1, FitsFrame
<1>3. TabOk(w')
  BY <1>1, <1>2, LikeTab
<1>4. Local(w, w', t)
  BY <1>2 DEF Local
<1>5. \A b \in Mine(t) : ActOk(w', b)
  <2> SUFFICES ASSUME NEW b \in Mine(t), b # a PROVE ActOk(w', b)
    OBVIOUS
  <2>1. b \in Acts
    BY DEF Mine
  <2> QED BY <1>1, <1>2, <2>1, SameActOk
<1> QED BY <1>2, <1>3, <1>4, <1>5, RunOk

\* Sequences with one element more.
LEMMA AppendFacts ==
    ASSUME NEW S, NEW q \in Seq(S), NEW e \in S
    PROVE  /\ Append(q, e) \in Seq(S) /\ DOMAIN q = 1..Len(q) /\ Len(q) \in Nat
           /\ DOMAIN Append(q, e) = 1..Len(q) + 1
           /\ Append(q, e)[Len(q) + 1] = e /\ \A m \in DOMAIN q : Append(q, e)[m] = q[m]
BY AppendProperties, LenProperties

\* Action a is the one a thread in state r has come to.
Current(t, r, a) == a = calls[t][r.call][r.i]

\* The thread after one action of its list.
LEMMA StepThread ==
    ASSUME InputOk, NEW t \in Threads, NEW r, NEW q \in ThType, NEW s, NEW u, TabOk(s), ThreadOk(t, r, s),
           r.pc \in {"sock", "open", "send", "recv"}, r.poll = "no", r.i <= Len(calls[t][r.call]),
           NEW a, Current(t, r, a), Fits(s, u, a),
           q.call = r.call, q.pc = r.pc, q.i = r.i + 1, q.clk = r.clk, q.poll = "no",
           q.wait = r.wait \/ q.wait = Append(r.wait, a),
           r.pc \in {"sock", "open"} => u.act[a].flag \in Early, r.pc = "sock" => q.wait = r.wait,
           r.pc = "send" => u.act[a].flag # "fin" /\ (q.wait # r.wait => u.act[a].flag # "send"),
           r.pc = "recv" => u.act[a].err \/ u.act[a].flag = "fin" \/ q.wait = Append(r.wait, a),
           r.pc = "recv" /\ q.wait # r.wait /\ kind[a] = "session" /\ ~KeepActs => u.conn[u.act[a].conn].buf \notin Acts
    PROVE  ThreadOk(t, q, u)
<1>0. /\ r \in ThType /\ r.i \in Nat \ {0} /\ r.call \in Nat /\ r.wait \in Seq(Acts)
      /\ r.call \in DOMAIN calls[t] /\ r.i \in DOMAIN calls[t][r.call] /\ Busy(r) /\ Busy(q)
      /\ Len(calls[t][r.call]) \in Nat /\ DOMAIN calls[t][r.call] = 1..Len(calls[t][r.call]) /\ WaitOk(t, r, s)
  <2>1. r \in ThType /\ r.i \in Nat \ {0} /\ r.call \in Nat /\ r.wait \in Seq(Acts) /\ Busy(r) /\ Busy(q)
    BY DEF ThreadOk, ThType, Busy
  <2>2. r.call \in DOMAIN calls[t]
    BY <2>1 DEF ThreadOk
  <2> QED BY <2>1, <2>2, CallTypes DEF ThreadOk
<1>1. a \in Mine(t) /\ a \in Acts
  BY <1>0, MineOf, Zenon DEF Mine, Current
<1>2. u.hash = s.hash /\ \A b \in Acts \ {a} : SameAct(s, u, b)
  BY <1>1, FitsFrame
<1>3. /\ DOMAIN r.wait = 1..Len(r.wait) /\ Len(r.wait) \in Nat
      /\ DOMAIN Append(r.wait, a) = 1..Len(r.wait) + 1
      /\ Append(r.wait, a)[Len(r.wait) + 1] = a /\ \A m \in DOMAIN r.wait : Append(r.wait, a)[m] = r.wait[m]
  BY <1>0, <1>1, AppendFacts
<1>4. \A m \in DOMAIN r.wait : m \in DOMAIN q.wait /\ q.wait[m] = r.wait[m]
  BY <1>3
<1>5. \A m \in DOMAIN q.wait : (m \in DOMAIN r.wait /\ q.wait[m] = r.wait[m])
                               \/ (m \notin DOMAIN r.wait /\ m = Len(r.wait) + 1 /\ q.wait[m] = a /\ q.wait # r.wait)
  BY <1>3, SMTT(30)
<1>6. \A m \in DOMAIN r.wait : r.wait[m] # a
  <2> SUFFICES ASSUME NEW m \in DOMAIN r.wait PROVE r.wait[m] # a
    BY SMTT(30)
  <2>1. PICK j \in DOMAIN calls[t][r.call] : j < r.i /\ calls[t][r.call][j] = r.wait[m]
    BY <1>0 DEF WaitOk
  <2>2. calls[t][r.call][j] # calls[t][r.call][r.i]
    <3>1. j # r.i
      BY <1>0, <2>1
    <3> QED BY <1>0, <3>1, Once, SMTT(30)
  <2> QED BY <2>1, <2>2, Zenon DEF Current
<1>7. \A e \in DOMAIN calls[t] : \A j \in DOMAIN calls[t][e] :
         StageOk(q, calls[t][e][j], u.act[calls[t][e][j]], e, j, Busy(q) /\ e = q.call, u.hash)
  <2> SUFFICES ASSUME NEW e \in DOMAIN calls[t], NEW j \in DOMAIN calls[t][e]
               PROVE  StageOk(q, calls[t][e][j], u.act[calls[t][e][j]], e, j, Busy(q) /\ e = q.call, u.hash)
    OBVIOUS
  <2>1. StageOk(r, calls[t][e][j], s.act[calls[t][e][j]], e, j, Busy(r) /\ e = r.call, s.hash)
    BY DEF ThreadOk
  <2>2. e \in Nat /\ j \in Nat
    BY CallTypes
  <2>3. CASE e = r.call /\ j = r.i
    <3>1. calls[t][e][j] = a /\ u.act[a].conn # None
      BY <1>2, <2>3, Zenon DEF Fits, Current
    <3>2. r.pc = "recv" /\ ~u.act[a].err /\ u.act[a].flag # "fin" => \E m \in DOMAIN q.wait : q.wait[m] = a
      BY <1>3
    <3>3. ~(e > q.call) /\ ~(j >= q.i) /\ j < q.i
      BY <1>0, <2>2, <2>3, SMTT(30)
    <3>4. a \in u.hash /\ ~KeepActs => Busy(r)
      BY <1>2, <2>1, <3>1 DEF StageOk
    <3> QED BY <1>0, <2>3, <3>1, <3>2, <3>3, <3>4, SMTT(30) DEF StageOk
  <2>4. CASE ~(e = r.call /\ j = r.i)
    <3>1. calls[t][e][j] \in Acts /\ calls[t][e][j] # a
      <4>1. calls[t][e][j] # calls[t][r.call][r.i]
        BY <1>0, <2>4, Once
      <4> QED BY <4>1, CallTypes, Zenon DEF Current
    <3>2. u.act[calls[t][e][j]] = s.act[calls[t][e][j]]
      BY <1>2, <3>1 DEF SameAct
    <3>3. e = r.call /\ j < q.i => j < r.i
      BY <1>0, <2>2, <2>4
    <3>4. j >= q.i => j >= r.i
      BY <1>0, <2>2, SMTT(30)
    <3> QED BY <1>0, <1>2, <1>4, <2>1, <2>2, <3>2, <3>3, <3>4, SMTT(30) DEF StageOk
  <2> QED BY <2>3, <2>4
<1>8. WaitOk(t, q, u)
  <2>1. NoDup(q.wait)
    <3> SUFFICES ASSUME NEW i \in DOMAIN q.wait, NEW j \in DOMAIN q.wait, q.wait[i] = q.wait[j] PROVE i = j
      BY SMTT(30) DEF NoDup
    <3>1. NoDup(r.wait)
      BY <1>0, SMTT(30) DEF WaitOk
    <3> QED BY <1>5, <1>6, <3>1 DEF NoDup
  <2>2. q.wait # <<>> => q.pc \in {"open", "send", "recv"}
    BY <1>0, SMTT(30) DEF WaitOk
  <2>3. ASSUME NEW m \in DOMAIN q.wait
        PROVE  /\ \E j \in DOMAIN calls[t][q.call] : j < q.i /\ calls[t][q.call][j] = q.wait[m]
               /\ q.pc = "send" => u.act[q.wait[m]].flag # "send"
               /\ q.pc = "recv" /\ q.poll = "no" /\ kind[q.wait[m]] = "session" /\ ~KeepActs =>
                      u.conn[u.act[q.wait[m]].conn].buf \notin Acts
    <3>1. CASE m \in DOMAIN r.wait /\ q.wait[m] = r.wait[m]
      <4>1. PICK j \in DOMAIN calls[t][r.call] : j < r.i /\ calls[t][r.call][j] = r.wait[m]
        BY <1>0, <3>1 DEF WaitOk
      <4>2. j < q.i
        BY <1>0, <4>1
      <4>3. r.wait[m] \in Acts /\ r.wait[m] # a
        BY <1>0, <1>6, <3>1, <4>1, CallTypes
      <4>4. SameAct(s, u, r.wait[m])
        BY <1>2, <4>3
      <4>5. StageOk(r, r.wait[m], s.act[r.wait[m]], r.call, j, TRUE, s.hash)
        BY <1>0, <4>1 DEF ThreadOk
      <4>6. s.act[r.wait[m]].conn # None
        BY <4>5 DEF StageOk
      <4> QED BY <1>0, <3>1, <4>1, <4>2, <4>4, <4>6, SMTT(30) DEF WaitOk, SameAct
    <3>2. CASE m = Len(r.wait) + 1 /\ q.wait[m] = a /\ q.wait # r.wait
      <4>1. r.i \in DOMAIN calls[t][q.call] /\ r.i < q.i /\ calls[t][q.call][r.i] = q.wait[m]
        <5>1. r.i \in DOMAIN calls[t][q.call] /\ r.i < q.i
          BY <1>0
        <5> QED BY <3>2, <5>1, Zenon DEF Current
      <4> QED BY <3>2, <4>1, SMTT(30)
    <3> QED BY <1>5, <3>1, <3>2, SMTT(30)
  <2> QED BY <2>1, <2>2, <2>3 DEF WaitOk
<1> QED BY <1>0, <1>7, <1>8, SMTT(30) DEF ThreadOk, Busy

\* A thread one action further, having found one, having one more to wait for, and at
\* another place.
StepOf(r) == [r EXCEPT !.i = @ + 1]
HasOf(r) == [r EXCEPT !.i = @ + 1, !.has = TRUE]
WaitsOf(r, a) == [r EXCEPT !.i = @ + 1, !.wait = Append(@, a)]
GoToOf(r, pc) == [r EXCEPT !.pc = pc, !.i = 1, !.wait = <<>>, !.has = FALSE]

\* These, field by field.
LEMMA OfTypes ==
    ASSUME NEW r \in ThType, NEW a \in Acts
    PROVE  /\ StepOf(r) \in ThType /\ HasOf(r) \in ThType /\ WaitsOf(r, a) \in ThType
           /\ \A q \in {StepOf(r), HasOf(r), WaitsOf(r, a)} :
                  q.call = r.call /\ q.pc = r.pc /\ q.i = r.i + 1 /\ q.clk = r.clk /\ q.poll = r.poll
           /\ StepOf(r).wait = r.wait /\ HasOf(r).wait = r.wait /\ WaitsOf(r, a).wait = Append(r.wait, a)
<1>1. r.i \in Nat \ {0} /\ r.i + 1 \in Nat \ {0} /\ Append(r.wait, a) \in Seq(Acts)
  BY AppendProperties DEF ThType
<1>2. StepOf(r) \in ThType /\ HasOf(r) \in ThType /\ WaitsOf(r, a) \in ThType
  BY <1>1 DEF StepOf, HasOf, WaitsOf, ThType
<1> QED BY <1>2 DEF StepOf, HasOf, WaitsOf, ThType

\* Step, Has, Waits and GoTo change the record of their thread.
LEMMA OfSteps ==
    ASSUME th \in [Threads -> ThType], NEW t \in Threads, NEW pc
    PROVE  /\ Step(t) => th' = [th EXCEPT ![t] = StepOf(th[t])]
           /\ Has(t) => th' = [th EXCEPT ![t] = HasOf(th[t])]
           /\ Waits(t) => th' = [th EXCEPT ![t] = WaitsOf(th[t], A(t))]
           /\ GoTo(t, pc) => th' = [th EXCEPT ![t] = GoToOf(th[t], pc)]
BY DEF Step, Has, Waits, GoTo, StepOf, HasOf, WaitsOf, GoToOf

\* What is known when a thread has come to an action.
OneKnown(t, p, a, k) ==
    /\ a \in Mine(t) /\ a \in Acts /\ Current(t, th[t], a) /\ w.act[a] \in ActType /\ ActOk(w, a)
    /\ k = w.act[a].conn /\ k \in Conns /\ k # None /\ k[1] = kind[a]
    /\ w.conn[k] \in ConnType /\ w.conn[k].act = a /\ w.udp \in UdpType /\ w \in WType /\ TabOk(w)
    /\ ThreadOk(t, th[t], w) /\ th[t] \in ThType /\ th \in [Threads -> ThType] /\ InputOk
    /\ th[t].pc = p /\ th[t].poll = "no" /\ cur = t
    /\ th[t].i <= Len(calls[t][th[t].call]) /\ th[t].call \in DOMAIN calls[t]
    /\ th[t].i \in DOMAIN calls[t][th[t].call]
    /\ StageOk(th[t], a, w.act[a], th[t].call, th[t].i, TRUE, w.hash)

\* It is so.
LEMMA OneFacts ==
    ASSUME IInv, NEW t \in Threads, NEW p \in {"sock", "open", "send", "recv"}, One(t, p)
    PROVE  OneKnown(t, p, A(t), K(t))
<1> DEFINE r == th[t]
<1>1. /\ ThreadOk(t, r, w) /\ r \in ThType /\ th \in [Threads -> ThType] /\ InputOk /\ TabOk(w) /\ w \in WType
      /\ \A b \in Acts : ActOk(w, b)
  BY DEF IInv, ThreadOk, TabOk
<1>2. r.pc = p /\ r.poll = "no" /\ cur = t /\ r.i <= Len(calls[t][r.call]) /\ A(t) = calls[t][r.call][r.i]
  BY DEF One, At, Lst, A
<1> HIDE DEF r
<1>3. Busy(r) /\ r.i \in Nat \ {0} /\ r.call \in DOMAIN calls[t]
  BY <1>1, <1>2 DEF Busy, ThType, ThreadOk
<1>4. r.i \in DOMAIN calls[t][r.call]
  BY <1>1, <1>2, <1>3, CallTypes
<1>5. StageOk(r, A(t), w.act[A(t)], r.call, r.i, TRUE, w.hash)
  BY <1>1, <1>2, <1>3, <1>4 DEF ThreadOk
<1>6. A(t) \in Mine(t) /\ A(t) \in Acts
  BY <1>1, <1>2, <1>3, <1>4, MineOf, SMTT(30) DEF Mine
<1>7. K(t) # None /\ w.act[A(t)] \in ActType /\ w.udp \in UdpType
  BY <1>1, <1>2, <1>5, <1>6, Parts DEF StageOk, K
<1>8. K(t) \in Conns /\ K(t)[1] = kind[A(t)] /\ w.conn[K(t)].act = A(t)
  BY <1>1, <1>6, <1>7 DEF K, ActType, TabOk, Paired
<1>9. w.conn[K(t)] \in ConnType
  BY <1>1, <1>8, Parts
<1>10. Current(t, r, A(t)) /\ K(t) = w.act[A(t)].conn
  BY <1>2 DEF Current, K
<1> QED BY <1>1, <1>2, <1>3, <1>4, <1>5, <1>6, <1>7, <1>8, <1>9, <1>10, Zenon DEF OneKnown, r

\* What a pass may make of the action a it has come to.
Moves(p, a, x, c, waits) ==
    /\ p \in {"sock", "open"} => x.flag \in Early
    /\ p = "sock" => ~waits
    /\ p = "send" => x.flag # "fin" /\ (waits => x.flag # "send")
    /\ p = "recv" => x.err \/ x.flag = "fin" \/ waits
    /\ p = "recv" /\ waits /\ kind[a] = "session" /\ ~KeepActs => c.buf \notin Acts

\* One action of a pass.
LEMMA OneStep ==
    ASSUME IInv, NEW t \in Threads, NEW p \in {"sock", "open", "send", "recv"}, NEW a, NEW k, OneKnown(t, p, a, k),
           UNCHANGED <<cur, user>>, Fits(w, w', a), ActOk(w', a),
           \/ /\ th' = [th EXCEPT ![t] = StepOf(th[t])] \/ th' = [th EXCEPT ![t] = HasOf(th[t])]
              /\ Moves(p, a, w'.act[a], w'.conn[k], FALSE)
           \/ /\ th' = [th EXCEPT ![t] = WaitsOf(th[t], a)]
              /\ Moves(p, a, w'.act[a], w'.conn[k], TRUE)
    PROVE  IInv'
<1>0. PICK q \in {StepOf(th[t]), HasOf(th[t]), WaitsOf(th[t], a)} :
         /\ th' = [th EXCEPT ![t] = q]
         /\ Moves(p, a, w'.act[a], w'.conn[k], q = WaitsOf(th[t], a))
         /\ q # WaitsOf(th[t], a) => q.wait = th[t].wait
  <2> DEFINE r == th[t]
  <2>1. r \in ThType /\ a \in Acts
    BY DEF OneKnown
  <2>2. StepOf(r).wait = r.wait /\ HasOf(r).wait = r.wait /\ WaitsOf(r, a).wait = Append(r.wait, a)
    BY <2>1, OfTypes
  <2>3. Append(r.wait, a) # r.wait
    <3>1. r.wait \in Seq(Acts)
      BY <2>1 DEF ThType
    <3> QED BY <2>1, <3>1, AppendProperties, LenProperties
  <2> HIDE DEF r
  <2> QED BY <2>2, <2>3 DEF r
<1>1. /\ q \in ThType /\ q.call = th[t].call /\ q.pc = th[t].pc /\ q.i = th[t].i + 1
      /\ q.clk = th[t].clk /\ q.poll = th[t].poll
      /\ q = WaitsOf(th[t], a) => q.wait = Append(th[t].wait, a)
  BY OfTypes DEF OneKnown
<1>2. ThreadOk(t, q, w')
  <2> DEFINE r == th[t]
  <2>1. /\ InputOk /\ TabOk(w) /\ ThreadOk(t, r, w) /\ r.pc = p /\ r.poll = "no"
        /\ r.i <= Len(calls[t][r.call]) /\ Current(t, r, a) /\ w.act[a].conn = k /\ w'.act[a].conn = k
    BY DEF OneKnown, Fits
  <2>2. q.wait = r.wait \/ q.wait = Append(r.wait, a)
    BY <1>0, <1>1
  <2>3. Moves(p, a, w'.act[a], w'.conn[k], q.wait # r.wait) \/ Moves(p, a, w'.act[a], w'.conn[k], TRUE)
    BY <1>0, <1>1
  <2>4. q.wait # r.wait => q = WaitsOf(r, a)
    BY <1>0
  <2>5. q = WaitsOf(r, a) => q.wait = Append(r.wait, a)
    BY <1>1
  <2>6. Moves(p, a, w'.act[a], w'.conn[k], q = WaitsOf(r, a))
    BY <1>0
  <2> HIDE DEF r
  <2>7. /\ r.pc \in {"sock", "open"} => w'.act[a].flag \in Early
        /\ r.pc = "sock" => q.wait = r.wait
        /\ r.pc = "send" => w'.act[a].flag # "fin" /\ (q.wait # r.wait => w'.act[a].flag # "send")
        /\ r.pc = "recv" => w'.act[a].err \/ w'.act[a].flag = "fin" \/ q.wait = Append(r.wait, a)
        /\ r.pc = "recv" /\ q.wait # r.wait /\ kind[a] = "session" /\ ~KeepActs => w'.conn[w'.act[a].conn].buf \notin Acts
    BY <2>1, <2>4, <2>5, <2>6 DEF Moves
  <2>8. q.call = r.call /\ q.pc = r.pc /\ q.i = r.i + 1 /\ q.clk = r.clk /\ q.poll = "no"
    BY <1>1, <2>1 DEF r
  <2> QED BY <1>1, <2>1, <2>2, <2>7, <2>8, StepThread
<1>3. cur = t /\ th[t].poll = "no" /\ a \in Mine(t)
  BY DEF OneKnown
<1> QED BY <1>0, <1>2, <1>3, UpdOk

\* The action after a change that fits.
LEMMA FitsAct ==
    ASSUME NEW s, NEW u, NEW a \in Acts, Fits(s, u, a), ActOk(s, a),
           u.act[a].sconn = s.act[a].sconn, a \in u.udp.asked => u.act[a].flag \in {"send", "fin"},
           a \in s.udp.asked => a \in u.udp.asked,
           kind[a] = "session" => Session(a, u.act[a], u.conn[s.act[a].conn], u.udp.asked),
           kind[a] # "session" /\ ~u.conn[s.act[a].conn].late => Stream(a, u.act[a], u.conn[s.act[a].conn])
    PROVE  ActOk(u, a)
<1>1. Listed(a)
  BY DEF ActOk, Fits
<1> QED BY <1>1 DEF ActOk, Fits

\* A table that is not changed fits.
LEMMA FitsSelf ==
    ASSUME NEW s \in WType, NEW a \in Acts, s.act[a].conn # None
    PROVE  Fits(s, s, a)
BY DEF Fits

\* SetFlag and SetErrno are changes of one action.
LEMMA FlagUpd ==
    ASSUME w \in WType, NEW a \in Acts, NEW k \in Conns, NEW f \in {"init", "open", "send", "fin"}
    PROVE  /\ [w EXCEPT !.act[a].flag = f] = Upd(w, a, [w.act[a] EXCEPT !.flag = f], k, w.conn[k], w.udp)
           /\ [w EXCEPT !.act[a].err = TRUE] = Upd(w, a, [w.act[a] EXCEPT !.err = TRUE], k, w.conn[k], w.udp)
           /\ [w.act[a] EXCEPT !.flag = f] \in ActType /\ [w.act[a] EXCEPT !.flag = f].flag = f
           /\ [w.act[a] EXCEPT !.flag = f].err = w.act[a].err
           /\ [w.act[a] EXCEPT !.flag = f].conn = w.act[a].conn
           /\ [w.act[a] EXCEPT !.flag = f].sconn = w.act[a].sconn
           /\ [w.act[a] EXCEPT !.err = TRUE] \in ActType /\ [w.act[a] EXCEPT !.err = TRUE].err = TRUE
           /\ [w.act[a] EXCEPT !.err = TRUE].flag = w.act[a].flag
           /\ [w.act[a] EXCEPT !.err = TRUE].conn = w.act[a].conn
           /\ [w.act[a] EXCEPT !.err = TRUE].sconn = w.act[a].sconn
<1>1. w.act[a] \in ActType
  BY Parts
<1>2. [w EXCEPT !.act[a].flag = f] = Upd(w, a, [w.act[a] EXCEPT !.flag = f], k, w.conn[k], w.udp)
  BY DEF Upd, WType
<1>3. [w EXCEPT !.act[a].err = TRUE] = Upd(w, a, [w.act[a] EXCEPT !.err = TRUE], k, w.conn[k], w.udp)
  BY DEF Upd, WType
<1> QED BY <1>1, <1>2, <1>3 DEF ActType

\* One action of a pass, with what becomes of the action, its connection and the shared
\* socket.
LEMMA OneUpd ==
    ASSUME IInv, NEW t \in Threads, NEW p \in {"sock", "open", "send", "recv"}, NEW a, NEW k, OneKnown(t, p, a, k),
           UNCHANGED <<cur, user>>, NEW x \in ActType, NEW c \in ConnType, NEW v \in UdpType,
           w' = Upd(w, a, x, k, c, v), x.conn = w.act[a].conn, x.sconn = w.act[a].sconn,
           c.act = w.conn[k].act, c.timer = w.conn[k].timer, c.watch = w.conn[k].watch,
           v.wlist = w.udp.wlist, v.in = w.udp.in,
           v.asked = w.udp.asked \/ v.asked = w.udp.asked \cup {a},
           a \in v.asked => x.flag \in {"send", "fin"},
           kind[a] = "session" => Session(a, x, c, v.asked),
           kind[a] # "session" /\ ~c.late => Stream(a, x, c),
           \/ (Step(t) \/ Has(t)) /\ Moves(p, a, x, c, FALSE)
           \/ Waits(t) /\ A(t) = a /\ Moves(p, a, x, c, TRUE)
    PROVE  IInv'
<1>1. /\ a \in Acts /\ k = w.act[a].conn /\ k \in Conns /\ w \in WType /\ ActOk(w, a) /\ th \in [Threads -> ThType]
  BY DEF OneKnown
<1>2. /\ Fits(w, w', a) /\ w'.act[a] = x /\ w'.conn[k] = c /\ w'.udp = v
  BY <1>1, UpdFits, SMTT(30)
<1>3. ActOk(w', a)
  <2>1. a \in w.udp.asked => a \in w'.udp.asked
    BY <1>2
  <2> QED BY <1>1, <1>2, <2>1, FitsAct
<1>4. \/ /\ th' = [th EXCEPT ![t] = StepOf(th[t])] \/ th' = [th EXCEPT ![t] = HasOf(th[t])]
         /\ Moves(p, a, w'.act[a], w'.conn[k], FALSE)
      \/ /\ th' = [th EXCEPT ![t] = WaitsOf(th[t], a)]
         /\ Moves(p, a, w'.act[a], w'.conn[k], TRUE)
  BY <1>1, <1>2, OfSteps
<1> QED BY <1>2, <1>3, <1>4, OneStep

\* One action of a pass that changes nothing of it.
LEMMA OneSame ==
    ASSUME IInv, NEW t \in Threads, NEW p \in {"sock", "open", "send", "recv"}, NEW a, NEW k, OneKnown(t, p, a, k),
           UNCHANGED <<w, cur, user>>,
           \/ (Step(t) \/ Has(t)) /\ Moves(p, a, w.act[a], w.conn[k], FALSE)
           \/ Waits(t) /\ A(t) = a /\ Moves(p, a, w.act[a], w.conn[k], TRUE)
    PROVE  IInv'
<1>1. /\ a \in Acts /\ k = w.act[a].conn /\ k # None /\ w \in WType /\ ActOk(w, a) /\ th \in [Threads -> ThType]
  BY DEF OneKnown
<1>2. Fits(w, w', a) /\ ActOk(w', a)
  BY <1>1, FitsSelf
<1>4. \/ /\ th' = [th EXCEPT ![t] = StepOf(th[t])] \/ th' = [th EXCEPT ![t] = HasOf(th[t])]
         /\ Moves(p, a, w'.act[a], w'.conn[k], FALSE)
      \/ /\ th' = [th EXCEPT ![t] = WaitsOf(th[t], a)]
         /\ Moves(p, a, w'.act[a], w'.conn[k], TRUE)
  BY <1>1, OfSteps
<1> QED BY <1>2, <1>4, OneStep

\* A thread at another place: what its actions must be.
Ready(x, pc, clk) ==
    /\ pc # "reset" => x.conn # None
    /\ pc = "sock" => x.flag = "undef"
    /\ pc = "open" => x.flag \in Early
    /\ pc = "send" => x.flag # "fin"
    /\ pc \in {"report", "reset"} /\ clk < 2 => x.err \/ x.flag # "send"

\* GoTo, field by field.
LEMMA GoToFields ==
    ASSUME NEW r \in ThType, NEW pc \in {"sock", "open", "send", "recv", "report", "reset"}
    PROVE  /\ GoToOf(r, pc) \in ThType
           /\ GoToOf(r, pc).call = r.call /\ GoToOf(r, pc).pc = pc /\ GoToOf(r, pc).i = 1
           /\ GoToOf(r, pc).wait = <<>> /\ GoToOf(r, pc).poll = r.poll /\ GoToOf(r, pc).clk = r.clk
<1>1. <<>> \in Seq(Acts) /\ 1 \in Nat \ {0}
  BY EmptySeq
<1> DEFINE e == <<>>
<1> HIDE DEF e
<1>2. e \in Seq(Acts)
  BY <1>1 DEF e
<1> DEFINE q == [r EXCEPT !.pc = pc, !.i = 1, !.wait = e, !.has = FALSE]
<1>3. /\ q \in ThType /\ q.call = r.call /\ q.pc = pc /\ q.i = 1
      /\ q.wait = e /\ q.poll = r.poll /\ q.clk = r.clk
  BY <1>1, <1>2 DEF ThType
<1> QED BY <1>3 DEF GoToOf, e

\* The thread that goes to another place of the call.
LEMMA GoToThread ==
    ASSUME InputOk, NEW t \in Threads, NEW r, NEW s, NEW u, ThreadOk(t, r, s), Busy(r), r.poll = "no",
           NEW pc \in {"sock", "open", "send", "recv", "report", "reset"},
           \A a \in Mine(t) : u.act[a].flag = s.act[a].flag /\ (a \in u.hash <=> a \in s.hash),
           \A c \in DOMAIN calls[t] \ {r.call} : \A j \in DOMAIN calls[t][c] :
               u.act[calls[t][c][j]].conn = s.act[calls[t][c][j]].conn,
           \A j \in DOMAIN calls[t][r.call] : Ready(u.act[calls[t][r.call][j]], pc, r.clk)
    PROVE  ThreadOk(t, GoToOf(r, pc), u)
<1> DEFINE q == GoToOf(r, pc)
<1>1. /\ q \in ThType /\ q.call = r.call /\ q.pc = pc /\ q.i = 1 /\ q.wait = <<>> /\ q.poll = "no" /\ q.clk = r.clk
      /\ r \in ThType /\ r.call \in DOMAIN calls[t] /\ Busy(q)
  <2>1. r \in ThType /\ r.call \in DOMAIN calls[t]
    BY DEF ThreadOk
  <2>2. q \in ThType /\ q.call = r.call /\ q.pc = pc /\ q.i = 1 /\ q.wait = <<>> /\ q.poll = r.poll /\ q.clk = r.clk
    BY <2>1, GoToFields
  <2> HIDE DEF q
  <2> QED BY <2>1, <2>2 DEF Busy
<1>2. Len(calls[t]) \in Nat /\ r.call \in 0..Len(calls[t]) /\ Len(calls[t][r.call]) \in Nat
  BY <1>1, CallTypes DEF ThreadOk
<1> HIDE DEF q
<1>3. WaitOk(t, q, u)
  BY <1>1 DEF WaitOk, NoDup
<1>4. ASSUME NEW c \in DOMAIN calls[t], NEW j \in DOMAIN calls[t][c]
      PROVE  StageOk(q, calls[t][c][j], u.act[calls[t][c][j]], c, j, Busy(q) /\ c = q.call, u.hash)
  <2> DEFINE a == calls[t][c][j]
  <2>1. StageOk(r, a, s.act[a], c, j, Busy(r) /\ c = r.call, s.hash)
    BY DEF ThreadOk
  <2>2. u.act[a].flag = s.act[a].flag /\ (a \in u.hash <=> a \in s.hash)
    BY MineOf
  <2>3. j \in Nat \ {0} /\ j >= 1 /\ ~(j < 1) /\ c \in Nat
    BY CallTypes
  <2>4. CASE c = r.call
    <3>1. Ready(u.act[a], pc, r.clk)
      BY <2>4
    <3>2. ~(c > r.call)
      BY <2>3, <2>4, SMTT(30)
    <3> HIDE DEF a
    <3>3. StageOk(q, a, u.act[a], c, j, TRUE, u.hash)
      BY <1>1, <2>1, <2>2, <2>3, <2>4, <3>1, <3>2 DEF StageOk, Ready, Early
    <3> QED BY <1>1, <2>4, <3>3 DEF a
  <2>5. CASE c # r.call
    <3>1. u.act[a].conn = s.act[a].conn
      BY <2>5
    <3> HIDE DEF a
    <3>2. StageOk(q, a, u.act[a], c, j, FALSE, u.hash)
      BY <1>1, <2>1, <2>2, <2>3, <2>5, <3>1 DEF StageOk, Early
    <3> QED BY <1>1, <2>5, <3>2 DEF a
  <2> QED BY <2>4, <2>5
<1>5. ThreadOk(t, q, u)
  BY <1>1, <1>2, <1>3, <1>4 DEF ThreadOk
<1> QED BY <1>5 DEF q

\* u differs from s in errors of the actions of t that were set.
Marked(s, u, t) ==
    /\ u \in WType /\ u.conn = s.conn /\ u.keep = s.keep /\ u.pool = s.pool /\ u.total = s.total
    /\ u.hash = s.hash /\ u.udp = s.udp
    /\ \A a \in Acts : /\ u.act[a].flag = s.act[a].flag /\ u.act[a].conn = s.act[a].conn
                       /\ u.act[a].sconn = s.act[a].sconn /\ (s.act[a].err => u.act[a].err)
                       /\ a \notin Mine(t) => u.act[a] = s.act[a]

\* The errors of a list of actions of t.
LEMMA FailedMarked ==
    ASSUME NEW s \in WType, NEW as \in Seq(Acts), NEW t, \A m \in DOMAIN as : as[m] \in Mine(t)
    PROVE  Marked(s, Failed(s, as), t)
<1> DEFINE f == [a \in Acts |-> IF Contains(as, a) THEN [s.act[a] EXCEPT !.err = TRUE] ELSE s.act[a]]
           u == [s EXCEPT !.act = f]
<1>1. Failed(s, as) = u
  BY DEF Failed, WType
<1>2. \A a \in Acts : s.act[a] \in ActType
  BY Parts
<1>3. \A a \in Acts : f[a] \in ActType
  BY <1>2 DEF ActType
<1>4. \A a \in Acts : /\ f[a].flag = s.act[a].flag /\ f[a].conn = s.act[a].conn
                      /\ f[a].sconn = s.act[a].sconn /\ (s.act[a].err => f[a].err)
  BY <1>2 DEF ActType
<1>5. \A a \in Acts : a \notin Mine(t) => f[a] = s.act[a]
  <2> SUFFICES ASSUME NEW a \in Acts, a \notin Mine(t) PROVE ~Contains(as, a)
    OBVIOUS
  <2>1. DOMAIN as = 1..Len(as)
    BY LenProperties
  <2> QED BY <2>1 DEF Contains
<1>6. f \in [Acts -> ActType]
  BY <1>3
<1> HIDE DEF f
<1>7. /\ u \in WType /\ u.act = f /\ u.conn = s.conn /\ u.keep = s.keep /\ u.pool = s.pool /\ u.total = s.total
      /\ u.hash = s.hash /\ u.udp = s.udp
  BY <1>6 DEF WType
<1> HIDE DEF u
<1> QED BY <1>1, <1>4, <1>5, <1>7 DEF Marked

\* A table that is not changed.
LEMMA MarkedSelf == ASSUME NEW s \in WType, NEW t PROVE Marked(s, s, t)
BY DEF Marked

\* Errors leave the rest sound.
LEMMA MarkedOk ==
    ASSUME NEW s, NEW u, NEW t \in Threads, TabOk(s), Marked(s, u, t), \A a \in Acts : ActOk(s, a)
    PROVE  Like(s, u) /\ TabOk(u) /\ Local(s, u, t) /\ Quiet(s, u) /\ \A a \in Acts : ActOk(u, a)
<1>1. Like(s, u)
  BY LikeSelf DEF Marked, Like
<1>2. Quiet(s, u)
  BY DEF Marked, Quiet
<1>3. Local(s, u, t)
  BY DEF Marked, Local, SameAct
<1>4. ASSUME NEW a \in Acts PROVE ActOk(u, a)
  <2>1. ActOk(s, a)
    OBVIOUS
  <2>2. /\ u.conn = s.conn /\ u.hash = s.hash /\ u.udp = s.udp /\ u.act[a].flag = s.act[a].flag
        /\ u.act[a].conn = s.act[a].conn /\ u.act[a].sconn = s.act[a].sconn /\ (s.act[a].err => u.act[a].err)
    BY SMTT(30) DEF Marked
  <2>3. s.act[a].conn # None /\ kind[a] = "session" => Session(a, u.act[a], u.conn[u.act[a].conn], u.udp.asked)
    BY <2>1, <2>2, SMTT(30) DEF ActOk, Session
  <2>4. s.act[a].conn # None /\ kind[a] # "session" /\ ~u.conn[u.act[a].conn].late
          => Stream(a, u.act[a], u.conn[u.act[a].conn])
    BY <2>1, <2>2, ZenonT(30) DEF ActOk, Stream
  <2> QED BY <2>1, <2>2, <2>3, <2>4 DEF ActOk
<1> QED BY <1>1, <1>2, <1>3, <1>4, LikeTab

\* A step of the thread that runs to another place of the call.
LEMMA PassStep ==
    ASSUME IInv, NEW t \in Threads, NEW pc \in {"sock", "open", "send", "recv", "report", "reset"},
           UNCHANGED <<cur, user>>, cur = t, th[t].poll = "no", Busy(th[t]), GoTo(t, pc), Marked(w, w', t),
           \A j \in DOMAIN calls[t][th[t].call] : Ready(w'.act[calls[t][th[t].call][j]], pc, th[t].clk)
    PROVE  IInv'
<1>1. /\ InputOk /\ TabOk(w) /\ ThreadOk(t, th[t], w) /\ th \in [Threads -> ThType]
      /\ \A a \in Acts : ActOk(w, a)
  BY DEF IInv
<1>2. TabOk(w') /\ Local(w, w', t) /\ Quiet(w, w') /\ \A a \in Acts : ActOk(w', a)
  BY <1>1, MarkedOk
<1>3. th' = [th EXCEPT ![t] = GoToOf(th[t], pc)]
  BY <1>1, OfSteps
<1>4. \A a \in Mine(t) : w'.act[a].flag = w.act[a].flag /\ (a \in w'.hash <=> a \in w.hash)
  BY DEF Marked, Mine
<1>5. \A c \in DOMAIN calls[t] \ {th[t].call} : \A j \in DOMAIN calls[t][c] :
               w'.act[calls[t][c][j]].conn = w.act[calls[t][c][j]].conn
  BY <1>1, CallTypes, SMTT(30) DEF Marked
<1>6. ThreadOk(t, GoToOf(th[t], pc), w')
  BY <1>1, <1>4, <1>5, GoToThread
<1>7. \A a \in Mine(t) : ActOk(w', a)
  BY <1>2 DEF Mine
<1> QED BY <1>2, <1>3, <1>6, <1>7, RunOk

\* What is known when a thread has come to the end of a pass.
AllKnown(t, p) ==
    /\ InputOk /\ TabOk(w) /\ w \in WType /\ ThreadOk(t, th[t], w) /\ th[t] \in ThType /\ th \in [Threads -> ThType]
    /\ th[t].pc = p /\ th[t].poll = "no" /\ cur = t /\ Busy(th[t]) /\ th[t].call \in DOMAIN calls[t]
    /\ \A j \in DOMAIN calls[t][th[t].call] :
         LET a == calls[t][th[t].call][j] IN
         /\ j < th[t].i /\ a \in Acts /\ a \in Mine(t) /\ w.act[a] \in ActType
         /\ StageOk(th[t], a, w.act[a], th[t].call, j, TRUE, w.hash)
    /\ th[t].wait \in Seq(Acts) /\ \A m \in DOMAIN th[t].wait : th[t].wait[m] \in Mine(t)

\* It is so.
LEMMA AllFacts ==
    ASSUME IInv, NEW t \in Threads, NEW p \in {"init", "sock", "open", "send", "recv", "reset"}, All(t, p)
    PROVE  AllKnown(t, p)
<1> DEFINE r == th[t]
<1>1. InputOk /\ TabOk(w) /\ w \in WType /\ ThreadOk(t, r, w) /\ r \in ThType /\ th \in [Threads -> ThType]
  BY DEF IInv, ThreadOk, TabOk
<1>2. r.pc = p /\ r.poll = "no" /\ cur = t /\ r.i > Len(calls[t][r.call])
  BY DEF All, At, Lst
<1> HIDE DEF r
<1>3. Busy(r) /\ r.i \in Nat \ {0} /\ r.call \in DOMAIN calls[t] /\ r.wait \in Seq(Acts) /\ WaitOk(t, r, w)
  BY <1>1, <1>2 DEF Busy, ThType, ThreadOk
<1>4. Len(calls[t][r.call]) \in Nat /\ DOMAIN calls[t][r.call] = 1..Len(calls[t][r.call])
  BY <1>1, <1>3, CallTypes
<1>5. ASSUME NEW j \in DOMAIN calls[t][r.call]
      PROVE  LET a == calls[t][r.call][j] IN
             /\ j < r.i /\ a \in Acts /\ a \in Mine(t) /\ w.act[a] \in ActType
             /\ StageOk(r, a, w.act[a], r.call, j, TRUE, w.hash)
  <2>1. j < r.i
    BY <1>2, <1>3, <1>4
  <2>2. calls[t][r.call][j] \in Mine(t) /\ calls[t][r.call][j] \in Acts
    BY <1>1, <1>3, MineOf DEF Mine
  <2>3. StageOk(r, calls[t][r.call][j], w.act[calls[t][r.call][j]], r.call, j, TRUE, w.hash)
    BY <1>1, <1>3 DEF ThreadOk
  <2> QED BY <1>1, <2>1, <2>2, <2>3, Parts
<1>6. ASSUME NEW m \in DOMAIN r.wait PROVE r.wait[m] \in Mine(t)
  <2>1. PICK j \in DOMAIN calls[t][r.call] : calls[t][r.call][j] = r.wait[m]
    BY <1>3 DEF WaitOk
  <2> QED BY <1>5, <2>1
<1> QED BY <1>1, <1>2, <1>3, <1>5, <1>6 DEF AllKnown, r
----------------------------------------------------------------------------
(* The steps of a thread between two polls *)

\* All actions have a connection.
LEMMA InitDoneOk == ASSUME IInv, NEW t \in Threads, InitDone(t) PROVE IInv'
<1>1. AllKnown(t, "init") /\ GoTo(t, "sock") /\ UNCHANGED <<w, cur, user>>
  BY AllFacts, SMTT(30) DEF InitDone
<1>2. \A j \in DOMAIN calls[t][th[t].call] : Ready(w.act[calls[t][th[t].call][j]], "sock", th[t].clk)
  BY <1>1 DEF AllKnown, StageOk, Ready
<1>3. Marked(w, w', t) /\ cur = t /\ th[t].poll = "no" /\ Busy(th[t])
  BY <1>1, MarkedSelf, SMTT(30) DEF AllKnown
<1> QED BY <1>1, <1>2, <1>3, PassStep

\* All sockets are there, or no action could have one.
LEMMA SockDoneOk == ASSUME IInv, NEW t \in Threads, SockDone(t) PROVE IInv'
<1>1. AllKnown(t, "sock") /\ UNCHANGED <<w, cur, user>>
  BY AllFacts DEF SockDone
<1>2. PICK pc \in {"open", "report"} : GoTo(t, pc)
  BY SMTT(30) DEF SockDone
<1>3. \A j \in DOMAIN calls[t][th[t].call] : Ready(w.act[calls[t][th[t].call][j]], pc, th[t].clk)
  BY <1>1, Zenon DEF AllKnown, StageOk, Ready, Early
<1>4. Marked(w, w', t) /\ cur = t /\ th[t].poll = "no" /\ Busy(th[t])
  BY <1>1, MarkedSelf, SMTT(30) DEF AllKnown
<1> QED BY <1>1, <1>2, <1>3, <1>4, PassStep

\* Pass p ends and the thread goes on at pc.
EndOf(t, p, pc) ==
    /\ GoTo(t, pc) /\ UNCHANGED cur
    /\ \/ Late(t) /\ w' = Failed(w, th[t].wait)
       \/ ~Late(t) /\ th[t].wait = <<>> /\ w' = w
    /\ p = "open" => pc \in {"send", "report"}
    /\ p = "send" => pc = "recv" \/ (Late(t) /\ pc = "report")
    /\ p = "recv" => pc = "report"

\* The end of a pass that does not poll: the deadline is over, or nothing is waited for.
LEMMA PassEnd ==
    ASSUME IInv, NEW t \in Threads, NEW p \in {"open", "send", "recv"}, AllKnown(t, p),
           NEW pc \in {"send", "recv", "report"}, EndOf(t, p, pc), UNCHANGED user
    PROVE  IInv'
<1>0. /\ GoTo(t, pc) /\ UNCHANGED cur
      /\ \/ Late(t) /\ w' = Failed(w, th[t].wait)
         \/ ~Late(t) /\ th[t].wait = <<>> /\ w' = w
      /\ p = "open" => pc \in {"send", "report"}
      /\ p = "send" => pc = "recv" \/ (Late(t) /\ pc = "report")
      /\ p = "recv" => pc = "report"
  BY DEF EndOf
<1>1. Marked(w, w', t)
  BY <1>0, FailedMarked, MarkedSelf DEF AllKnown
<1>2. ASSUME NEW j \in DOMAIN calls[t][th[t].call]
      PROVE  Ready(w'.act[calls[t][th[t].call][j]], pc, th[t].clk)
  <2> DEFINE a == calls[t][th[t].call][j]
             r == th[t]
  <2>1. /\ j < r.i /\ a \in Acts /\ StageOk(r, a, w.act[a], r.call, j, TRUE, w.hash)
        /\ r.pc = p /\ r.clk \in 0..2
    BY Zenon DEF AllKnown, ThType
  <2>2. w'.act[a].flag = w.act[a].flag /\ w'.act[a].conn = w.act[a].conn /\ (w.act[a].err => w'.act[a].err)
    BY <1>1, <2>1, Zenon DEF Marked
  <2>3. Late(t) => ~(r.clk < 2)
    BY <2>1 DEF Late
  <2>4. r.wait = <<>> => ~\E m \in DOMAIN r.wait : r.wait[m] = a
    OBVIOUS
  <2> HIDE DEF a, r
  <2>5. Ready(w'.act[a], pc, r.clk)
    <3>1. w'.act[a].conn # None
      BY <2>1, <2>2 DEF StageOk
    <3>2. CASE p = "open"
      BY <1>0, <2>1, <2>2, <3>1, <3>2 DEF StageOk, Ready, Early
    <3>3. CASE p = "send"
      BY <1>0, <2>1, <2>2, <2>3, <3>1, <3>3 DEF StageOk, Ready
    <3>4. CASE p = "recv"
      <4>1. r.wait = <<>> \/ Late(t)
        BY <1>0 DEF r
      <4> QED BY <1>0, <2>1, <2>2, <2>3, <2>4, <3>1, <3>4, <4>1 DEF StageOk, Ready
    <3> QED BY <3>2, <3>3, <3>4
  <2> QED BY <2>5 DEF a, r
<1>3. cur = t /\ th[t].poll = "no" /\ Busy(th[t])
  BY SMTT(30) DEF AllKnown
<1> QED BY <1>0, <1>1, <1>2, <1>3, PassStep

\* DoProcess or DoError.
LEMMA ReportOk == ASSUME IInv, NEW t \in Threads, Report(t) PROVE IInv'
<1>1. /\ cur = t /\ th[t].pc = "report" /\ th[t].poll = "no" /\ GoTo(t, "reset") /\ UNCHANGED <<w, cur, user>>
  BY DEF Report, At
<1>2. InputOk /\ w \in WType /\ ThreadOk(t, th[t], w) /\ Busy(th[t])
  BY <1>1 DEF IInv, TabOk, Busy
<1>3. th[t].call \in DOMAIN calls[t]
  BY <1>2, SMTT(30) DEF ThreadOk
<1>4. ASSUME NEW j \in DOMAIN calls[t][th[t].call]
      PROVE  Ready(w.act[calls[t][th[t].call][j]], "reset", th[t].clk)
  <2>1. StageOk(th[t], calls[t][th[t].call][j], w.act[calls[t][th[t].call][j]], th[t].call, j, TRUE, w.hash)
    BY <1>2, <1>3 DEF ThreadOk
  <2> QED BY <1>1, <2>1 DEF StageOk, Ready
<1>5. Marked(w, w', t)
  BY <1>1, <1>2, MarkedSelf
<1> QED BY <1>1, <1>2, <1>4, <1>5, PassStep

\* A connection that owes one answer more.
LEMMA OwesFields ==
    ASSUME NEW c \in ConnType, NEW a \in Acts
    PROVE  LET d == [c EXCEPT !.owes = Append(@, a)] IN
           /\ d \in ConnType /\ d.act = c.act /\ d.timer = c.timer /\ d.watch = c.watch /\ d.late = c.late
           /\ d.buf = c.buf /\ d.ev = c.ev /\ d.in = c.in /\ d.owes = Append(c.owes, a)
<1>1. c.owes \in Seq(Acts) /\ Append(c.owes, a) \in Seq(Acts)
  BY AppendProperties DEF ConnType
<1> DEFINE e == Append(c.owes, a)
<1>2. e \in Seq(Acts)
  BY <1>1
<1>3. [c EXCEPT !.owes = Append(@, a)] = [c EXCEPT !.owes = e]
  BY DEF ConnType
<1> HIDE DEF e
<1> DEFINE d == [c EXCEPT !.owes = e]
<1>4. /\ d \in ConnType /\ d.act = c.act /\ d.timer = c.timer /\ d.watch = c.watch /\ d.late = c.late
      /\ d.buf = c.buf /\ d.ev = c.ev /\ d.in = c.in /\ d.owes = e
  BY <1>2 DEF ConnType
<1> QED BY <1>3, <1>4 DEF e

\* mt_multi_newsock.
LEMMA CreateSocketOk == ASSUME IInv, NEW t \in Threads, CreateSocket(t) PROVE IInv'
<1> DEFINE a == A(t)
           k == K(t)
           f == IF k[1] = "tcp" THEN "init" ELSE "open"
           x == [w.act[a] EXCEPT !.flag = f]
           c == IF k[1] = "session" \/ w.conn[k].st # "none" THEN w.conn[k]
                ELSE [w.conn[k] EXCEPT !.st = IF k[1] = "tcp" THEN "new" ELSE "open"]
           v == IF k[1] = "session" THEN [w.udp EXCEPT !.open = TRUE] ELSE w.udp
           y == [w.act[a] EXCEPT !.err = TRUE]
<1>1. OneKnown(t, "sock", a, k) /\ UNCHANGED <<cur, user>>
  BY OneFacts DEF CreateSocket
<1>2. a \in Acts /\ k \in Conns /\ w \in WType /\ w.conn[k] \in ConnType /\ w.udp \in UdpType
  BY <1>1 DEF OneKnown
<1>3. \/ Step(t) /\ UNCHANGED w
      \/ Has(t) /\ w' = Upd(w, a, x, k, c, v)
      \/ GoTo(t, "report") /\ w' = Upd(w, a, y, k, w.conn[k], w.udp)
  <2>1. CASE w.act[a].err /\ Step(t) /\ UNCHANGED w
    BY <2>1
  <2>2. CASE GoTo(t, "report") /\ w' = SetErrno(t)
    <3>1. w' = [w EXCEPT !.act[a].err = TRUE]
      BY <2>2 DEF SetErrno
    <3> QED BY <1>2, <2>2, <3>1, FlagUpd
  <2> DEFINE made == IF k[1] = "session" THEN [w EXCEPT !.udp.open = TRUE]
                     ELSE IF w.conn[k].st # "none" THEN w
                     ELSE [w EXCEPT !.conn[k].st = IF k[1] = "tcp" THEN "new" ELSE "open"]
  <2>3. CASE Has(t) /\ w' = [made EXCEPT !.act[a].flag = f]
    <3>1. made = [w EXCEPT !.conn[k] = c, !.udp = v]
      BY <1>2 DEF WType
    <3> HIDE DEF c, v, made
    <3>2. [made EXCEPT !.act[a].flag = f] = Upd(w, a, x, k, c, v)
      BY <1>2, <3>1 DEF WType, Upd
    <3> QED BY <2>3, <3>2
  <2> QED BY <2>1, <2>2, <2>3 DEF CreateSocket
<1>4. /\ w.act[a].flag = "undef" /\ a \notin w.udp.asked /\ w.act[a] \in ActType /\ ActOk(w, a)
      /\ k = w.act[a].conn /\ k # None
  <2>1. /\ StageOk(th[t], a, w.act[a], th[t].call, th[t].i, TRUE, w.hash) /\ th[t].pc = "sock" /\ ActOk(w, a)
        /\ w.act[a] \in ActType /\ th[t].i \in Nat /\ k = w.act[a].conn /\ k # None
    BY <1>1 DEF OneKnown, ThType
  <2>2. w.act[a].flag = "undef"
    BY <2>1 DEF StageOk
  <2> QED BY <2>1, <2>2 DEF ActOk
<1>5. Session(a, w.act[a], w.conn[k], w.udp.asked) \/ kind[a] # "session"
  BY <1>4 DEF ActOk
<1>6. kind[a] # "session" /\ ~w.conn[k].late => w.conn[k].in = <<>> /\ w.conn[k].owes = <<>>
  BY <1>4 DEF ActOk, Stream
<1>7. CASE Step(t) /\ UNCHANGED w
  <2>1. Moves("sock", a, w.act[a], w.conn[k], FALSE)
    BY <1>4 DEF Moves, Early
  <2> QED BY <1>1, <1>7, <2>1, OneSame, Zenon
<1>8. CASE Has(t) /\ w' = Upd(w, a, x, k, c, v)
  <2>1. f \in {"init", "open"}
    OBVIOUS
  <2>2. x \in ActType /\ x.flag = f /\ x.err = w.act[a].err /\ x.conn = w.act[a].conn /\ x.sconn = w.act[a].sconn
    BY <1>4, <2>1 DEF ActType
  <2>3. /\ c \in ConnType /\ v \in UdpType /\ c.act = w.conn[k].act /\ c.timer = w.conn[k].timer
        /\ c.watch = w.conn[k].watch /\ c.late = w.conn[k].late /\ c.buf = w.conn[k].buf /\ c.ev = w.conn[k].ev
        /\ c.in = w.conn[k].in /\ c.owes = w.conn[k].owes
        /\ v.wlist = w.udp.wlist /\ v.in = w.udp.in /\ v.asked = w.udp.asked
    <3>1. /\ v \in UdpType /\ v.wlist = w.udp.wlist /\ v.in = w.udp.in /\ v.asked = w.udp.asked
      BY <1>2 DEF UdpType
    <3> DEFINE st == IF k[1] = "tcp" THEN "new" ELSE "open"
    <3>2. st \in {"none", "new", "open"}
      OBVIOUS
    <3>3. c = w.conn[k] \/ c = [w.conn[k] EXCEPT !.st = st]
      OBVIOUS
    <3> HIDE DEF c, v, st, k, a
    <3> DEFINE d == w.conn[k]
    <3>4. d \in ConnType
      BY <1>2
    <3>5. c = d \/ c = [d EXCEPT !.st = st]
      BY <3>3
    <3> HIDE DEF d
    <3>6. /\ c \in ConnType /\ c.act = d.act /\ c.timer = d.timer
          /\ c.watch = d.watch /\ c.late = d.late /\ c.buf = d.buf /\ c.ev = d.ev
          /\ c.in = d.in /\ c.owes = d.owes
      BY <3>2, <3>4, <3>5 DEF ConnType
    <3> QED BY <3>1, <3>6 DEF d
  <2> HIDE DEF x, c, v, f, a, k
  <2>4. Moves("sock", a, x, c, FALSE)
    BY <2>1, <2>2 DEF Moves, Early
  <2>5. kind[a] = "session" => Session(a, x, c, v.asked)
    <3>1. x.flag # "fin"
      BY <2>1, <2>2
    <3> QED BY <1>5, <2>2, <2>3, <3>1 DEF Session
  <2>6. kind[a] # "session" /\ ~c.late => Stream(a, x, c)
    BY <1>6, <2>1, <2>2, <2>3 DEF Stream
  <2> QED BY <1>1, <1>4, <1>8, <2>2, <2>3, <2>4, <2>5, <2>6, OneUpd, Zenon
<1>9. CASE GoTo(t, "report") /\ w' = Upd(w, a, y, k, w.conn[k], w.udp)
  <2>1. y \in ActType /\ y.flag = "undef" /\ y.conn = w.act[a].conn /\ y.sconn = w.act[a].sconn
    BY <1>4 DEF ActType
  <2> HIDE DEF y, a, k
  <2>2. Fits(w, w', a) /\ w'.act[a] = y /\ w'.conn[k] = w.conn[k] /\ w'.udp = w.udp
    BY <1>2, <1>4, <1>9, <2>1, UpdFits
  <2>3. ActOk(w', a)
    <3>1. kind[a] = "session" => Session(a, y, w.conn[k], w.udp.asked)
      BY <1>5, <1>4, <2>1 DEF Session
    <3>2. kind[a] # "session" /\ ~w.conn[k].late => Stream(a, y, w.conn[k])
      BY <1>6, <2>1 DEF Stream
    <3> QED BY <1>2, <1>4, <2>1, <2>2, <3>1, <3>2, FitsAct
  <2>4. /\ InputOk /\ TabOk(w) /\ ThreadOk(t, th[t], w) /\ Busy(th[t]) /\ th[t].poll = "no" /\ th[t].pc = "sock"
        /\ cur = t /\ a \in Mine(t) /\ th \in [Threads -> ThType] /\ th[t].call \in DOMAIN calls[t]
    BY <1>1 DEF OneKnown, Busy
  <2>5. \A b \in Acts : w'.act[b].flag = w.act[b].flag /\ (b \in w'.hash <=> b \in w.hash)
                        /\ w'.act[b].conn = w.act[b].conn
    BY <1>4, <2>1, <2>2, SMTT(30) DEF Fits
  <2>6. ASSUME NEW j \in DOMAIN calls[t][th[t].call]
        PROVE  Ready(w'.act[calls[t][th[t].call][j]], "report", th[t].clk)
    <3>1. StageOk(th[t], calls[t][th[t].call][j], w.act[calls[t][th[t].call][j]], th[t].call, j, TRUE, w.hash)
      BY <2>4 DEF ThreadOk
    <3>2. calls[t][th[t].call][j] \in Acts
      BY <2>4, CallTypes
    <3> QED BY <2>4, <2>5, <3>1, <3>2 DEF StageOk, Ready, Early
  <2>7. ThreadOk(t, GoToOf(th[t], "report"), w')
    <3>1. \A b \in Mine(t) : w'.act[b].flag = w.act[b].flag /\ (b \in w'.hash <=> b \in w.hash)
      BY <2>5 DEF Mine
    <3>2. \A d \in DOMAIN calls[t] \ {th[t].call} : \A j \in DOMAIN calls[t][d] :
               w'.act[calls[t][d][j]].conn = w.act[calls[t][d][j]].conn
      BY <2>4, <2>5, CallTypes
    <3> QED BY <2>4, <2>6, <3>1, <3>2, GoToThread
  <2>8. th' = [th EXCEPT ![t] = GoToOf(th[t], "report")]
    BY <1>9, <2>4, OfSteps
  <2> QED BY <1>1, <2>2, <2>3, <2>4, <2>7, <2>8, UpdOk
<1> QED BY <1>3, <1>7, <1>8, <1>9

\* mt_multi_open, one action.
LEMMA OpenCnnectOk == ASSUME IInv, NEW t \in Threads, OpenCnnect(t) PROVE IInv'
<1> DEFINE a == A(t)
           k == K(t)
           x == [w.act[a] EXCEPT !.flag = "open"]
           c == [w.conn[k] EXCEPT !.st = "open"]
<1>1. OneKnown(t, "open", a, k) /\ UNCHANGED <<cur, user>>
  BY OneFacts DEF OpenCnnect
<1>2. /\ a \in Acts /\ k \in Conns /\ w \in WType /\ w.conn[k] \in ConnType /\ w.udp \in UdpType
      /\ w.act[a] \in ActType /\ ActOk(w, a) /\ k = w.act[a].conn /\ k # None
      /\ w.act[a].flag \in Early
  BY <1>1 DEF OneKnown, StageOk
<1>3. \/ (Step(t) \/ Has(t) \/ Waits(t)) /\ UNCHANGED w
      \/ Step(t) /\ w' = Upd(w, a, x, k, c, w.udp)
  <2>1. [[w EXCEPT !.act[a].flag = "open"] EXCEPT !.conn[k].st = "open"] = Upd(w, a, x, k, c, w.udp)
    BY <1>2 DEF WType, Upd
  <2> QED BY <2>1 DEF OpenCnnect, SetFlag
<1>4. CASE (Step(t) \/ Has(t) \/ Waits(t)) /\ UNCHANGED w
  <2>1. Moves("open", a, w.act[a], w.conn[k], FALSE) /\ Moves("open", a, w.act[a], w.conn[k], TRUE)
    BY <1>2, SMTT(30) DEF Moves
  <2> QED BY <1>1, <1>4, <2>1, OneSame
<1>5. CASE Step(t) /\ w' = Upd(w, a, x, k, c, w.udp)
  <2>1. /\ x \in ActType /\ x.flag = "open" /\ x.err = w.act[a].err
        /\ x.conn = w.act[a].conn /\ x.sconn = w.act[a].sconn
    BY <1>2 DEF ActType
  <2>2. /\ c \in ConnType /\ c.act = w.conn[k].act /\ c.timer = w.conn[k].timer
        /\ c.watch = w.conn[k].watch /\ c.late = w.conn[k].late /\ c.buf = w.conn[k].buf /\ c.ev = w.conn[k].ev
        /\ c.in = w.conn[k].in /\ c.owes = w.conn[k].owes
    BY <1>2 DEF ConnType
  <2> HIDE DEF x, c, a, k
  <2>3. kind[a] = "session" => Session(a, x, c, w.udp.asked)
    BY <1>2, <2>1, <2>2 DEF ActOk, Session
  <2>4. kind[a] # "session" /\ ~c.late => Stream(a, x, c)
    BY <1>2, <2>1, <2>2, Zenon DEF ActOk, Stream, Early
  <2>5. Moves("open", a, x, c, FALSE) /\ a \notin w.udp.asked
    BY <1>2, <2>1 DEF Moves, Early, ActOk
  <2> QED BY <1>1, <1>2, <1>5, <2>1, <2>2, <2>3, <2>4, <2>5, OneUpd
<1> QED BY <1>3, <1>4, <1>5

\* mt_multi_sendto, one action.
LEMMA SendDataOk == ASSUME IInv, NEW t \in Threads, SendData(t) PROVE IInv'
<1> DEFINE a == A(t)
           k == K(t)
           x == [w.act[a] EXCEPT !.flag = "send"]
           y == [w.act[a] EXCEPT !.err = TRUE]
           c == [w.conn[k] EXCEPT !.owes = Append(@, a)]
           v == [w.udp EXCEPT !.asked = @ \cup {a}]
<1>1. OneKnown(t, "send", a, k) /\ UNCHANGED <<cur, user>>
  BY OneFacts DEF SendData
<1>2. /\ a \in Acts /\ k \in Conns /\ w \in WType /\ w.conn[k] \in ConnType /\ w.udp \in UdpType
      /\ w.act[a] \in ActType /\ ActOk(w, a) /\ k = w.act[a].conn /\ k # None
      /\ w.act[a].flag # "fin" /\ k[1] = kind[a]
  BY <1>1, SMTT(30) DEF OneKnown, StageOk
<1>3. \/ (Step(t) \/ Has(t)) /\ UNCHANGED w
      \/ Waits(t) /\ w.act[a].flag # "send" /\ UNCHANGED w
      \/ /\ Step(t) /\ w.act[a].flag # "send" /\ kind[a] = "session"
         /\ w' = Upd(w, a, x, k, w.conn[k], v)
      \/ /\ Step(t) /\ w.act[a].flag # "send" /\ kind[a] # "session"
         /\ w' = Upd(w, a, x, k, c, w.udp)
      \/ Step(t) /\ w.act[a].flag # "send" /\ w' = Upd(w, a, x, k, w.conn[k], w.udp)
      \/ Step(t) /\ w' = Upd(w, a, y, k, w.conn[k], w.udp)
  <2>1. [[w EXCEPT !.act[a].flag = "send"] EXCEPT !.conn[k].owes = Append(@, a)] = Upd(w, a, x, k, c, w.udp)
    BY <1>2 DEF WType, Upd
  <2>2. [[w EXCEPT !.act[a].flag = "send"] EXCEPT !.udp.asked = @ \cup {a}] = Upd(w, a, x, k, w.conn[k], v)
    BY <1>2 DEF WType, Upd
  <2>3. [w EXCEPT !.act[a].flag = "send"] = Upd(w, a, x, k, w.conn[k], w.udp)
    BY <1>2, FlagUpd
  <2>4. [w EXCEPT !.act[a].err = TRUE] = Upd(w, a, y, k, w.conn[k], w.udp)
    BY <1>2, FlagUpd
  <2> QED BY <1>2, <2>1, <2>2, <2>3, <2>4, Zenon DEF SendData, SetFlag, SetErrno
<1>4. CASE (Step(t) \/ Has(t)) /\ UNCHANGED w
  <2>1. Moves("send", a, w.act[a], w.conn[k], FALSE)
    BY <1>2 DEF Moves
  <2> QED BY <1>1, <1>4, <2>1, OneSame
<1>5. CASE Waits(t) /\ w.act[a].flag # "send" /\ UNCHANGED w
  <2>1. Moves("send", a, w.act[a], w.conn[k], TRUE)
    BY <1>2, <1>5 DEF Moves
  <2> QED BY <1>1, <1>5, <2>1, OneSame
<1>6. /\ x \in ActType /\ x.flag = "send" /\ x.err = w.act[a].err
      /\ x.conn = w.act[a].conn /\ x.sconn = w.act[a].sconn
      /\ y \in ActType /\ y.flag = w.act[a].flag /\ y.err
      /\ y.conn = w.act[a].conn /\ y.sconn = w.act[a].sconn
  BY <1>2 DEF ActType
<1>7. /\ c \in ConnType /\ c.act = w.conn[k].act /\ c.timer = w.conn[k].timer
      /\ c.watch = w.conn[k].watch /\ c.late = w.conn[k].late /\ c.in = w.conn[k].in
      /\ c.owes = Append(w.conn[k].owes, a)
  <2> DEFINE d == w.conn[k]
             e == [d EXCEPT !.owes = Append(@, a)]
  <2>1. d \in ConnType /\ a \in Acts
    BY <1>2
  <2> HIDE DEF d, a
  <2>2. /\ e \in ConnType /\ e.act = d.act /\ e.timer = d.timer /\ e.watch = d.watch /\ e.late = d.late
        /\ e.in = d.in /\ e.owes = Append(d.owes, a)
    BY <2>1, OwesFields
  <2> QED BY <2>2 DEF d
<1>8. v \in UdpType /\ v.wlist = w.udp.wlist /\ v.in = w.udp.in /\ v.asked = w.udp.asked \cup {a}
  BY <1>2 DEF UdpType
<1> HIDE DEF x, y, c, v, a, k
<1>9. /\ Moves("send", a, x, w.conn[k], FALSE) /\ Moves("send", a, x, c, FALSE)
      /\ Moves("send", a, y, w.conn[k], FALSE)
  BY <1>2, <1>6, SMTT(30) DEF Moves
<1>10. CASE /\ Step(t) /\ w.act[a].flag # "send" /\ kind[a] = "session"
            /\ w' = Upd(w, a, x, k, w.conn[k], v)
  <2>1. Session(a, x, w.conn[k], v.asked)
    BY <1>2, <1>6, <1>8, <1>10 DEF ActOk, Session
  <2> QED BY <1>1, <1>2, <1>6, <1>8, <1>9, <1>10, <2>1, OneUpd
<1>11. CASE /\ Step(t) /\ w.act[a].flag # "send" /\ kind[a] # "session"
            /\ w' = Upd(w, a, x, k, c, w.udp)
  <2>1. ~c.late => Stream(a, x, c)
    <3> SUFFICES ASSUME ~c.late PROVE Stream(a, x, c)
      OBVIOUS
    <3>1. w.conn[k].in = <<>> /\ w.conn[k].owes = <<>>
      BY <1>2, <1>7, <1>11, Zenon DEF ActOk, Stream
    <3>2. c.in = <<>> /\ c.owes = <<a>>
      BY <1>7, <3>1
    <3>3. Len(c.in) + Len(c.owes) <= 1 /\ \A i \in DOMAIN c.owes : c.owes[i] = a
      BY <3>2, SMTT(30)
    <3> QED BY <1>6, <3>2, <3>3 DEF Stream
  <2> QED BY <1>1, <1>2, <1>6, <1>7, <1>9, <1>11, <2>1, OneUpd, ZenonT(30)
<1>12. CASE Step(t) /\ w.act[a].flag # "send" /\ w' = Upd(w, a, x, k, w.conn[k], w.udp)
  <2>1. kind[a] = "session" => Session(a, x, w.conn[k], w.udp.asked)
    BY <1>2, <1>6, <1>12 DEF ActOk, Session
  <2>2. kind[a] # "session" /\ ~w.conn[k].late => Stream(a, x, w.conn[k])
    <3> SUFFICES ASSUME kind[a] # "session", ~w.conn[k].late PROVE Stream(a, x, w.conn[k])
      BY SMTT(30)
    <3>1. w.conn[k].in = <<>> /\ w.conn[k].owes = <<>>
      BY <1>2, <1>12 DEF ActOk, Stream
    <3>2. Len(w.conn[k].in) + Len(w.conn[k].owes) <= 1
      BY <3>1
    <3> QED BY <1>6, <3>1, <3>2 DEF Stream
  <2> QED BY <1>1, <1>2, <1>6, <1>9, <1>12, <2>1, <2>2, OneUpd
<1>13. CASE Step(t) /\ w' = Upd(w, a, y, k, w.conn[k], w.udp)
  <2>1. kind[a] = "session" => Session(a, y, w.conn[k], w.udp.asked)
    BY <1>2, <1>6 DEF ActOk, Session
  <2>2. kind[a] # "session" /\ ~w.conn[k].late => Stream(a, y, w.conn[k])
    BY <1>2, <1>6 DEF ActOk, Stream
  <2>3. a \in w.udp.asked => y.flag \in {"send", "fin"}
    BY <1>2, <1>6 DEF ActOk
  <2> QED BY <1>1, <1>2, <1>6, <1>9, <1>13, <2>1, <2>2, <2>3, OneUpd
<1> QED BY <1>3, <1>4, <1>5, <1>10, <1>11, <1>12, <1>13

\* Two lists with one element between them, and it is in the first.
LEMMA OneInBoth ==
    ASSUME NEW S, NEW p \in Seq(S), NEW q \in Seq(S), p # <<>>, Len(p) + Len(q) <= 1
    PROVE  1 \in DOMAIN p /\ q = <<>> /\ Tail(p) = <<>> /\ Head(p) = p[1]
<1>1. Len(p) \in Nat \ {0} /\ DOMAIN p = 1..Len(p) /\ Len(q) \in Nat
  BY EmptySeq, LenProperties
<1>2. Len(p) = 1 /\ Len(q) = 0
  BY <1>1
<1>3. q = <<>>
  BY <1>2, EmptySeq
<1>4. Tail(p) \in Seq(S) /\ Len(Tail(p)) = 0
  BY <1>2, HeadTailProperties
<1>5. Tail(p) = <<>>
  BY <1>4, EmptySeq
<1>6. Head(p) = p[1]
  OBVIOUS
<1> QED BY <1>1, <1>2, <1>3, <1>5, <1>6

\* A connection from which the first answer was read.
LEMMA ReadFields ==
    ASSUME NEW c \in ConnType, c.in # <<>>
    PROVE  LET d == [c EXCEPT !.buf = Head(c.in), !.in = Tail(c.in)] IN
           /\ d \in ConnType /\ d.act = c.act /\ d.timer = c.timer /\ d.watch = c.watch /\ d.late = c.late
           /\ d.buf = Head(c.in) /\ d.in = Tail(c.in) /\ d.owes = c.owes
<1> DEFINE h == Head(c.in)
           e == Tail(c.in)
<1>1. c.in \in Seq(Acts)
  BY DEF ConnType
<1>2. h \in Acts /\ e \in Seq(Acts)
  BY <1>1, HeadTailProperties
<1> HIDE DEF h, e
<1> DEFINE d == [c EXCEPT !.buf = h, !.in = e]
<1>3. /\ d \in ConnType /\ d.act = c.act /\ d.timer = c.timer /\ d.watch = c.watch /\ d.late = c.late
      /\ d.buf = h /\ d.in = e /\ d.owes = c.owes
  BY <1>2 DEF ConnType
<1> QED BY <1>3 DEF h, e

\* mt_multi_recvfrom, one action.
LEMMA RecvDataOk == ASSUME IInv, NEW t \in Threads, RecvData(t) PROVE IInv'
<1> DEFINE a == A(t)
           k == K(t)
           x == [w.act[a] EXCEPT !.flag = "fin"]
           y == [w.act[a] EXCEPT !.err = TRUE]
           d == w.conn[k]
           c == [d EXCEPT !.buf = Head(d.in), !.in = Tail(d.in)]
<1>1. OneKnown(t, "recv", a, k) /\ UNCHANGED <<cur, user>>
  BY OneFacts DEF RecvData
<1>2. /\ a \in Acts /\ k \in Conns /\ w \in WType /\ d \in ConnType /\ w.udp \in UdpType
      /\ w.act[a] \in ActType /\ ActOk(w, a) /\ k = w.act[a].conn /\ k # None /\ k[1] = kind[a]
  BY <1>1, SMTT(30) DEF OneKnown
<1>3. \/ (w.act[a].err \/ w.act[a].flag = "fin") /\ Step(t) /\ UNCHANGED w
      \/ /\ ~w.act[a].err /\ (kind[a] # "session" \/ ~("in" \in d.ev /\ d.buf # "send"))
         /\ Waits(t) /\ UNCHANGED w
      \/ /\ kind[a] = "session" /\ "in" \in d.ev /\ Step(t)
         /\ w' = Upd(w, a, x, k, w.conn[k], w.udp)
      \/ /\ kind[a] # "session" /\ w.act[a].flag # "fin" /\ d.in # <<>> /\ Step(t)
         /\ w' = Upd(w, a, x, k, c, w.udp)
      \/ kind[a] # "session" /\ Step(t) /\ w' = Upd(w, a, y, k, w.conn[k], w.udp)
  <2>1. [[w EXCEPT !.act[a].flag = "fin"] EXCEPT !.conn[k].buf = Head(d.in), !.conn[k].in = Tail(d.in)]
          = Upd(w, a, x, k, c, w.udp)
    BY <1>2 DEF WType, Upd
  <2>3. [w EXCEPT !.act[a].flag = "fin"] = Upd(w, a, x, k, w.conn[k], w.udp)
    BY <1>2, FlagUpd
  <2>4. [w EXCEPT !.act[a].err = TRUE] = Upd(w, a, y, k, w.conn[k], w.udp)
    BY <1>2, FlagUpd
  <2> QED BY <1>2, <2>1, <2>3, <2>4, Zenon DEF RecvData, SetFlag, SetErrno
<1>4. CASE (w.act[a].err \/ w.act[a].flag = "fin") /\ Step(t) /\ UNCHANGED w
  <2>1. Moves("recv", a, w.act[a], w.conn[k], FALSE)
    BY <1>4 DEF Moves
  <2> QED BY <1>1, <1>4, <2>1, OneSame
<1>5. CASE /\ ~w.act[a].err /\ (kind[a] # "session" \/ ~("in" \in d.ev /\ d.buf # "send"))
           /\ Waits(t) /\ UNCHANGED w
  <2>1. kind[a] = "session" /\ ~KeepActs => w.conn[k].buf \notin Acts
    <3>1. "send" \notin Acts
      BY MsgAssumption
    <3> QED BY <1>2, <1>5, <3>1 DEF ActOk, Session
  <2>2. Moves("recv", a, w.act[a], w.conn[k], TRUE)
    BY <2>1 DEF Moves
  <2> QED BY <1>1, <1>5, <2>2, OneSame
<1>6. /\ x \in ActType /\ x.flag = "fin" /\ x.err = w.act[a].err
      /\ x.conn = w.act[a].conn /\ x.sconn = w.act[a].sconn
      /\ y \in ActType /\ y.flag = w.act[a].flag /\ y.err
      /\ y.conn = w.act[a].conn /\ y.sconn = w.act[a].sconn
  BY <1>2 DEF ActType
<1>7. d.in # <<>> => /\ c \in ConnType /\ c.act = d.act /\ c.timer = d.timer
                     /\ c.watch = d.watch /\ c.late = d.late /\ c.in = Tail(d.in)
                     /\ c.owes = d.owes /\ c.buf = Head(d.in)
  <2> HIDE DEF d
  <2> QED BY <1>2, ReadFields
<1> HIDE DEF x, y, c, a, k
<1>8. \A z : Moves("recv", a, x, z, FALSE) /\ Moves("recv", a, y, z, FALSE)
  BY <1>6, SMTT(30) DEF Moves
<1>9. CASE /\ kind[a] = "session" /\ "in" \in d.ev /\ Step(t)
           /\ w' = Upd(w, a, x, k, w.conn[k], w.udp)
  <2>1. Session(a, x, w.conn[k], w.udp.asked)
    BY <1>2, <1>6, <1>9 DEF ActOk, Session
  <2> QED BY <1>1, <1>2, <1>6, <1>8, <1>9, <2>1, OneUpd
<1>10. CASE /\ kind[a] # "session" /\ w.act[a].flag # "fin" /\ d.in # <<>> /\ Step(t)
            /\ w' = Upd(w, a, x, k, c, w.udp)
  <2>1. ~c.late => Stream(a, x, c)
    <3> SUFFICES ASSUME ~c.late PROVE Stream(a, x, c)
      OBVIOUS
    <3>1. Stream(a, w.act[a], d) /\ w.act[a].flag = "send"
      BY <1>2, <1>7, <1>10 DEF ActOk, Stream
    <3>2. d.in \in Seq(Acts) /\ d.owes \in Seq(Acts) /\ d.in # <<>>
      BY <1>2, <1>10 DEF ConnType
    <3>3. Len(d.in) + Len(d.owes) <= 1
      BY <3>1 DEF Stream
    <3> DEFINE p == d.in
               q == d.owes
    <3>4. p \in Seq(Acts) /\ q \in Seq(Acts) /\ p # <<>> /\ Len(p) + Len(q) <= 1
      BY <3>2, <3>3
    <3> HIDE DEF p, q
    <3>5. 1 \in DOMAIN p /\ q = <<>> /\ Tail(p) = <<>> /\ Head(p) = p[1]
      BY <3>4, OneInBoth
    <3>6. d.in[1] = a
      BY <3>1, <3>5 DEF Stream, p
    <3> QED BY <1>6, <1>7, <1>10, <3>5, <3>6 DEF Stream, p, q
  <2>2. c \in ConnType /\ c.act = w.conn[k].act /\ c.timer = w.conn[k].timer /\ c.watch = w.conn[k].watch
    BY <1>7, <1>10, SMTT(30)
  <2> HIDE DEF d
  <2> QED BY <1>1, <1>2, <1>6, <1>8, <1>10, <2>1, <2>2, OneUpd
<1>11. CASE kind[a] # "session" /\ Step(t) /\ w' = Upd(w, a, y, k, w.conn[k], w.udp)
  <2>2. ~w.conn[k].late => Stream(a, y, w.conn[k])
    BY <1>2, <1>6, <1>11, Zenon DEF ActOk, Stream
  <2>3. a \in w.udp.asked => y.flag \in {"send", "fin"}
    BY <1>2, <1>6 DEF ActOk
  <2> QED BY <1>1, <1>2, <1>6, <1>8, <1>11, <2>2, <2>3, OneUpd, Zenon
<1> QED BY <1>3, <1>4, <1>5, <1>9, <1>10, <1>11
----------------------------------------------------------------------------
(* Polls *)

\* The connections of a list of actions.
OfList(s, as, k) == \E m \in DOMAIN as : s.act[as[m]].conn = k

\* u differs from s in what epoll knows of the connections of the list.
Polled(s, u, as) ==
    /\ u \in WType /\ u.act = s.act /\ u.keep = s.keep /\ u.pool = s.pool /\ u.total = s.total /\ u.hash = s.hash
    /\ u.udp.in = s.udp.in /\ u.udp.asked = s.udp.asked
    /\ \A k \in Conns :
         /\ ~OfList(s, as, k) => u.conn[k] = s.conn[k]
         /\ OfList(s, as, k) => (u.conn[k].watch = "keep" => s.conn[k].watch = "keep")
         /\ u.conn[k].act = s.conn[k].act /\ u.conn[k].buf = s.conn[k].buf /\ u.conn[k].st = s.conn[k].st
         /\ u.conn[k].in = s.conn[k].in /\ u.conn[k].owes = s.conn[k].owes
         /\ u.conn[k].timer = s.conn[k].timer /\ u.conn[k].late = s.conn[k].late

\* A list of actions that have connections.
Linked(s, as, t) == \A m \in DOMAIN as : as[m] \in Mine(t) /\ as[m] \in Acts /\ s.act[as[m]].conn # None

\* The connection is used by an action of the list.
ForList(s, as, k) == k \in Conns /\ Used(s, k) /\ ~Idle(s, k) /\ \E m \in DOMAIN as : s.conn[k].act = as[m]

\* The connections of a list are those of its actions.
LEMMA LinkedConn ==
    ASSUME NEW s, NEW as, NEW t, TabOk(s), Linked(s, as, t), NEW k, OfList(s, as, k)
    PROVE  ForList(s, as, k)
<1>1. PICK m \in DOMAIN as : s.act[as[m]].conn = k
  BY DEF OfList
<1>2. as[m] \in Acts /\ k # None
  BY <1>1 DEF Linked
<1>3. k \in Conns
  BY <1>1, <1>2, Parts DEF TabOk, ActType
<1>4. s.conn[k].act = as[m]
  BY <1>1, <1>2 DEF TabOk, Paired
<1>5. Used(s, k)
  BY <1>2, <1>4, MsgAssumption DEF Used
<1> QED BY <1>3, <1>4, <1>5 DEF TabOk, Placed, ForList

\* The rest is untouched.
LEMMA PolledFrame ==
    ASSUME NEW s, NEW u, NEW as, NEW t \in Threads, TabOk(s), Linked(s, as, t), Polled(s, u, as)
    PROVE  TabOk(u) /\ Local(s, u, t)
<1>1. \A k \in Conns : OfList(s, as, k) => /\ Used(s, k) /\ ~Idle(s, k) /\ s.conn[k].watch # "keep"
                                           /\ \E m \in DOMAIN as : s.conn[k].act = as[m]
  <2> SUFFICES ASSUME NEW k \in Conns, OfList(s, as, k)
               PROVE  /\ Used(s, k) /\ ~Idle(s, k) /\ s.conn[k].watch # "keep"
                      /\ \E m \in DOMAIN as : s.conn[k].act = as[m]
    OBVIOUS
  <2>1. Used(s, k) /\ ~Idle(s, k) /\ \E m \in DOMAIN as : s.conn[k].act = as[m]
    <3>1. ForList(s, as, k)
      BY LinkedConn
    <3> QED BY <3>1 DEF ForList
  <2> QED BY <2>1 DEF TabOk, Kept
<1>2. Like(s, u)
  <2>1. Like(s, s)
    BY LikeSelf
  <2> SUFFICES ASSUME NEW k \in Conns
               PROVE  /\ u.conn[k].act = s.conn[k].act /\ u.conn[k].timer = s.conn[k].timer
                      /\ u.conn[k].watch = "keep" <=> s.conn[k].watch = "keep"
                      /\ Idle(s, k) => /\ u.conn[k].st # "none" /\ u.conn[k].buf = s.conn[k].buf
                                       /\ u.conn[k].late = s.conn[k].late
                                       /\ s.conn[k].in = <<>> /\ s.conn[k].owes = <<>> =>
                                             u.conn[k].in = <<>> /\ u.conn[k].owes = <<>>
                      /\ ~Idle(s, k) /\ ~Used(s, k) => u.conn[k] = s.conn[k]
    BY DEF Like, Polled
  <2>2. CASE OfList(s, as, k)
    BY <1>1, <2>2 DEF Polled
  <2>3. CASE ~OfList(s, as, k)
    BY <2>1, <2>3 DEF Polled, Like
  <2> QED BY <2>2, <2>3
<1>3. ASSUME NEW a \in Acts \ Mine(t) PROVE SameAct(s, u, a)
  <2>1. s.act[a].conn # None => s.act[a].conn \in Conns /\ s.conn[s.act[a].conn].act = a
    BY Parts DEF TabOk, Paired, ActType
  <2>2. s.act[a].conn # None => ~OfList(s, as, s.act[a].conn)
    BY <1>1, <2>1 DEF Linked
  <2> QED BY <2>1, <2>2 DEF Polled, SameAct
<1> QED BY <1>2, <1>3, LikeTab DEF Local

\* EpollAdd, part by part.
LEMMA AddParts ==
    ASSUME NEW s, NEW as, NEW t, TabOk(s), Linked(s, as, t), NEW how
    PROVE  LET u == EpollAdd(s, as, how) IN
           /\ Polled(s, u, as)
           /\ \A k \in Conns : OfList(s, as, k) =>
                  u.conn[k].ev = {} /\ (k[1] = "session" => u.conn[k].watch = s.conn[k].watch)
           /\ \A k \in u.udp.wlist : k \in s.udp.wlist \/ (how = "out" /\ k[1] = "session" /\ OfList(s, as, k))
<1> DEFINE ks == {s.act[as[n]].conn : n \in DOMAIN as}
           se == {k \in ks : k[1] = "session"}
           on(k) == [s.conn[k] EXCEPT !.ev = {}, !.watch = IF k \in se THEN @ ELSE "thread"]
           f == [k \in Conns |-> IF k \in ks THEN on(k) ELSE s.conn[k]]
           v == [s.udp EXCEPT !.wlist = IF how = "out" THEN @ \cup se ELSE @,
                              !.out = @ \/ (how = "out" /\ se # {})]
           u == [s EXCEPT !.conn = f, !.udp = v]
<1>1. EpollAdd(s, as, how) = u
  BY DEF EpollAdd, TabOk, WType, UdpType
<1>2. \A k : k \in ks <=> OfList(s, as, k)
  BY DEF OfList
<1>3. ks \subseteq Conns
  BY <1>2, LinkedConn DEF ForList
<1>4. s \in WType /\ s.udp \in UdpType /\ \A k \in Conns : s.conn[k] \in ConnType
  BY Parts DEF TabOk
<1>5. v \in UdpType /\ v.in = s.udp.in /\ v.asked = s.udp.asked
      /\ \A k \in v.wlist : k \in s.udp.wlist \/ (how = "out" /\ k \in se)
  BY <1>3, <1>4 DEF UdpType
<1>6. \A k \in Conns : /\ on(k) \in ConnType /\ on(k).ev = {} /\ on(k).watch = IF k \in se THEN s.conn[k].watch ELSE "thread"
                       /\ on(k).act = s.conn[k].act /\ on(k).buf = s.conn[k].buf /\ on(k).st = s.conn[k].st
                       /\ on(k).in = s.conn[k].in /\ on(k).owes = s.conn[k].owes
                       /\ on(k).timer = s.conn[k].timer /\ on(k).late = s.conn[k].late
  BY <1>4, ZenonT(30) DEF ConnType
<1> HIDE DEF v, on, ks
<1>7. f \in [Conns -> ConnType] /\ \A k \in Conns : f[k] = IF k \in ks THEN on(k) ELSE s.conn[k]
  BY <1>4, <1>6
<1> HIDE DEF f
<1>8. /\ u \in WType /\ u.act = s.act /\ u.keep = s.keep /\ u.pool = s.pool /\ u.total = s.total /\ u.hash = s.hash
      /\ u.udp = v /\ u.conn = f
  BY <1>4, <1>5, <1>7 DEF WType
<1> HIDE DEF u
<1>9. Polled(s, u, as)
  <2> SUFFICES ASSUME NEW k \in Conns
               PROVE  /\ ~OfList(s, as, k) => u.conn[k] = s.conn[k]
                      /\ OfList(s, as, k) => (u.conn[k].watch = "keep" => s.conn[k].watch = "keep")
                      /\ u.conn[k].act = s.conn[k].act /\ u.conn[k].buf = s.conn[k].buf
                      /\ u.conn[k].st = s.conn[k].st
                      /\ u.conn[k].in = s.conn[k].in /\ u.conn[k].owes = s.conn[k].owes
                      /\ u.conn[k].timer = s.conn[k].timer /\ u.conn[k].late = s.conn[k].late
    BY <1>5, <1>8 DEF Polled
  <2>1. CASE OfList(s, as, k)
    <3>1. u.conn[k] = on(k)
      BY <1>2, <1>7, <1>8, <2>1
    <3>2. on(k).watch = "keep" => s.conn[k].watch = "keep"
      BY <1>6
    <3> QED BY <1>6, <2>1, <3>1, <3>2
  <2>2. CASE ~OfList(s, as, k)
    <3>1. u.conn[k] = s.conn[k]
      BY <1>2, <1>7, <1>8, <2>2
    <3> QED BY <2>2, <3>1
  <2> QED BY <2>1, <2>2
<1>10. \A k \in Conns : OfList(s, as, k) =>
                  u.conn[k].ev = {} /\ (k[1] = "session" => u.conn[k].watch = s.conn[k].watch)
  BY <1>2, <1>6, <1>7, <1>8, ZenonT(30)
<1>11. \A k \in u.udp.wlist : k \in s.udp.wlist \/ (how = "out" /\ k[1] = "session" /\ OfList(s, as, k))
  BY <1>2, <1>5, <1>8
<1> QED BY <1>1, <1>9, <1>10, <1>11

\* EpollDel, part by part.
LEMMA DelParts ==
    ASSUME NEW s, NEW as, NEW t, TabOk(s), Linked(s, as, t), NEW how
    PROVE  LET u == EpollDel(s, as, how) IN
           /\ Polled(s, u, as)
           /\ \A k \in Conns : /\ u.conn[k].ev = s.conn[k].ev
                               /\ u.conn[k].watch = IF OfList(s, as, k) /\ k[1] # "session" THEN None
                                                    ELSE s.conn[k].watch
           /\ \A k : k \in u.udp.wlist <=> k \in s.udp.wlist /\ ~(how = "out" /\ k[1] = "session" /\ OfList(s, as, k))
<1> DEFINE ks == {s.act[as[n]].conn : n \in DOMAIN as}
           se == {k \in ks : k[1] = "session"}
           off(k) == [s.conn[k] EXCEPT !.watch = None]
           f == [k \in Conns |-> IF k \notin ks \ se THEN s.conn[k] ELSE off(k)]
           v == [s.udp EXCEPT !.wlist = IF how = "out" THEN @ \ se ELSE @,
                              !.out = @ /\ ~(how = "out" /\ se # {})]
           u == [s EXCEPT !.conn = f, !.udp = v]
<1>1. EpollDel(s, as, how) = u
  BY Zenon DEF EpollDel, TabOk, WType, UdpType
<1>2. \A k : k \in ks <=> OfList(s, as, k)
  BY DEF OfList
<1>4. s \in WType /\ s.udp \in UdpType /\ \A k \in Conns : s.conn[k] \in ConnType
  BY Parts DEF TabOk
<1>5. v \in UdpType /\ v.in = s.udp.in /\ v.asked = s.udp.asked
      /\ \A k : k \in v.wlist <=> k \in s.udp.wlist /\ ~(how = "out" /\ k \in se)
  BY <1>4 DEF UdpType
<1>6. \A k \in Conns : /\ off(k) \in ConnType /\ off(k).ev = s.conn[k].ev /\ off(k).watch = None
                       /\ off(k).act = s.conn[k].act /\ off(k).buf = s.conn[k].buf /\ off(k).st = s.conn[k].st
                       /\ off(k).in = s.conn[k].in /\ off(k).owes = s.conn[k].owes
                       /\ off(k).timer = s.conn[k].timer /\ off(k).late = s.conn[k].late
  BY <1>4 DEF ConnType
<1> HIDE DEF v, off, ks
<1>7. f \in [Conns -> ConnType] /\ \A k \in Conns : f[k] = IF k \in ks /\ k[1] # "session" THEN off(k) ELSE s.conn[k]
  BY <1>4, <1>6
<1> HIDE DEF f
<1>8. /\ u \in WType /\ u.act = s.act /\ u.keep = s.keep /\ u.pool = s.pool /\ u.total = s.total /\ u.hash = s.hash
      /\ u.udp = v /\ u.conn = f
  BY <1>4, <1>5, <1>7 DEF WType
<1> HIDE DEF u
<1>9. Polled(s, u, as)
  <2>1. None # "keep"
    BY MsgAssumption
  <2> QED BY <1>2, <1>5, <1>6, <1>7, <1>8, <2>1, ZenonT(30) DEF Polled
<1>10. \A k \in Conns : /\ u.conn[k].ev = s.conn[k].ev
                        /\ u.conn[k].watch = IF OfList(s, as, k) /\ k[1] # "session" THEN None ELSE s.conn[k].watch
  BY <1>2, <1>6, <1>7, <1>8, ZenonT(30)
<1>11. \A k : k \in u.udp.wlist <=> k \in s.udp.wlist /\ ~(how = "out" /\ k[1] = "session" /\ OfList(s, as, k))
  BY <1>2, <1>5, <1>8
<1> QED BY <1>1, <1>9, <1>10, <1>11

\* The list of a thread.
LEMMA WaitLinked ==
    ASSUME InputOk, NEW t \in Threads, NEW r, NEW s, ThreadOk(t, r, s)
    PROVE  Linked(s, r.wait, t)
<1> SUFFICES ASSUME NEW m \in DOMAIN r.wait
             PROVE  r.wait[m] \in Mine(t) /\ r.wait[m] \in Acts /\ s.act[r.wait[m]].conn # None
  BY DEF Linked
<1>1. WaitOk(t, r, s)
  BY DEF ThreadOk
<1>2. r.pc \in {"open", "send", "recv"} /\ Busy(r) /\ r.call \in DOMAIN calls[t]
  <2>1. r.wait # <<>>
    BY EmptySeq
  <2> QED BY <1>1, <2>1 DEF WaitOk, ThreadOk, Busy
<1>3. PICK j \in DOMAIN calls[t][r.call] : calls[t][r.call][j] = r.wait[m]
  BY <1>1 DEF WaitOk
<1>4. r.wait[m] \in Mine(t) /\ r.wait[m] \in Acts
  BY <1>2, <1>3, MineOf DEF Mine
<1>5. StageOk(r, r.wait[m], s.act[r.wait[m]], r.call, j, TRUE, s.hash)
  BY <1>2, <1>3 DEF ThreadOk
<1>6. s.act[r.wait[m]].conn # None
  BY <1>2, <1>5 DEF StageOk
<1> QED BY <1>4, <1>6

\* A thread that goes into a poll.
PollOf(r, how) == [r EXCEPT !.io = TRUE, !.poll = how]

\* The thread in its poll.
LEMMA PollThread ==
    ASSUME NEW t \in Threads, NEW r, NEW s, NEW u, ThreadOk(t, r, s), u.act = s.act, u.hash = s.hash,
           NEW how \in {"in", "out"}, r.pc \in {"open", "send", "recv"}, how = "in" <=> r.pc = "recv"
    PROVE  ThreadOk(t, PollOf(r, how), u) /\ PollOf(r, how).wait = r.wait /\ PollOf(r, how).poll = how
<1> DEFINE q == PollOf(r, how)
<1>1. r \in ThType
  BY DEF ThreadOk
<1>2. /\ q \in ThType /\ q.call = r.call /\ q.pc = r.pc /\ q.i = r.i /\ q.wait = r.wait /\ q.clk = r.clk /\ q.poll = how
  BY <1>1 DEF PollOf, ThType
<1> HIDE DEF q
<1>3. Busy(q) <=> Busy(r)
  BY <1>2 DEF Busy
<1>4. WaitOk(t, q, u)
  <2>1. WaitOk(t, r, s)
    BY DEF ThreadOk
  <2> QED BY <1>2, <2>1 DEF WaitOk
<1>5. ASSUME NEW c \in DOMAIN calls[t], NEW j \in DOMAIN calls[t][c]
      PROVE  StageOk(q, calls[t][c][j], u.act[calls[t][c][j]], c, j, Busy(q) /\ c = q.call, u.hash)
  <2>1. StageOk(r, calls[t][c][j], s.act[calls[t][c][j]], c, j, Busy(r) /\ c = r.call, s.hash)
    BY DEF ThreadOk
  <2> QED BY <1>2, <1>3, <2>1 DEF StageOk
<1>6. /\ r.call \in 0..Len(calls[t])
      /\ Busy(r) => r.call \in DOMAIN calls[t] /\ r.i <= Len(calls[t][r.call]) + 1
  BY DEF ThreadOk
<1>7. ThreadOk(t, q, u)
  BY <1>2, <1>3, <1>4, <1>5, <1>6 DEF ThreadOk
<1> QED BY <1>2, <1>7 DEF q

\* Actions whose connection goes into epoll: an answer that came is not forgotten.
LEMMA AddActs ==
    ASSUME NEW s, NEW u, NEW as, NEW a \in Acts, TabOk(s), Polled(s, u, as), ActOk(s, a),
           OfList(s, as, s.act[a].conn) /\ kind[a] = "session" =>
               /\ u.conn[s.act[a].conn].ev = {}
               /\ ~KeepActs => s.conn[s.act[a].conn].buf \notin Acts
    PROVE  ActOk(u, a)
<1> DEFINE k == s.act[a].conn
           c == s.conn[k]
           d == u.conn[k]
           x == s.act[a]
<1>1. k # None => k \in Conns
  BY Parts DEF TabOk, ActType
<1>2. k # None => d.buf = c.buf /\ d.in = c.in /\ d.owes = c.owes /\ d.late = c.late
  BY <1>1 DEF Polled
<1>3. k # None /\ ~OfList(s, as, k) => d = c
  BY <1>1 DEF Polled
<1>4. u.act = s.act /\ u.hash = s.hash /\ u.udp.in = s.udp.in /\ u.udp.asked = s.udp.asked
  BY DEF Polled
<1>5. OfList(s, as, k) /\ kind[a] = "session" => d.ev = {} /\ (~KeepActs => c.buf \notin Acts)
  OBVIOUS
<1>6. k # None /\ kind[a] = "session" => Session(a, x, c, s.udp.asked)
  BY DEF ActOk
<1>7. k # None /\ kind[a] # "session" /\ ~c.late => Stream(a, x, c)
  BY DEF ActOk
<1> HIDE DEF c, d, k, x
<1>8. k # None /\ kind[a] = "session" => Session(a, x, d, u.udp.asked)
  BY <1>2, <1>3, <1>4, <1>5, <1>6 DEF Session
<1>9. k # None /\ kind[a] # "session" /\ ~d.late => Stream(a, x, d)
  BY <1>2, <1>7 DEF Stream
<1> QED BY <1>4, <1>8, <1>9 DEF ActOk, c, d, k, x

\* mt_multi_netfd_poll.
LEMMA PollOk ==
    ASSUME IInv, NEW t \in Threads, NEW p \in {"open", "send", "recv"}, AllKnown(t, p), NEW how \in {"in", "out"},
           how = "in" <=> p = "recv", w' = EpollAdd(w, th[t].wait, how), th' = [th EXCEPT ![t] = PollOf(th[t], how)],
           cur' \in Schedule(th'), UNCHANGED user
    PROVE  IInv'
<1> DEFINE as == th[t].wait
           q == PollOf(th[t], how)
<1>1. /\ InputOk /\ TabOk(w) /\ ThreadOk(t, th[t], w) /\ th \in [Threads -> ThType] /\ WatchOk(w, th) /\ CurOk(t, th)
      /\ th[t].pc = p /\ th[t].poll = "no" /\ \A a \in Acts : ActOk(w, a)
  BY DEF IInv, AllKnown
<1>2. Linked(w, as, t)
  BY <1>1, WaitLinked
<1>3. /\ Polled(w, w', as)
      /\ \A k \in Conns : OfList(w, as, k) =>
                  w'.conn[k].ev = {} /\ (k[1] = "session" => w'.conn[k].watch = w.conn[k].watch)
      /\ \A k \in w'.udp.wlist : k \in w.udp.wlist \/ (how = "out" /\ k[1] = "session" /\ OfList(w, as, k))
  BY <1>1, <1>2, AddParts
<1>4. TabOk(w') /\ Local(w, w', t)
  BY <1>1, <1>2, <1>3, PolledFrame
<1>5. ThreadOk(t, q, w') /\ q.wait = as /\ q.poll = how
  BY <1>1, <1>3, PollThread DEF Polled
<1>6. ASSUME NEW a \in Mine(t) PROVE ActOk(w', a)
  <2>1. a \in Acts /\ ActOk(w, a)
    BY <1>1 DEF Mine
  <2>2. ASSUME OfList(w, as, w.act[a].conn), kind[a] = "session"
        PROVE  w'.conn[w.act[a].conn].ev = {} /\ (~KeepActs => w.conn[w.act[a].conn].buf \notin Acts)
    <3> DEFINE k == w.act[a].conn
    <3>1. ForList(w, as, k)
      BY <1>1, <1>2, <2>2, LinkedConn
    <3>2. PICK m \in DOMAIN as : w.conn[k].act = as[m]
      BY <3>1 DEF ForList
    <3>3. k \in Conns /\ k # None
      BY <3>1, MsgAssumption DEF ForList
    <3>4. as[m] = a
      BY <1>1, <2>1, <3>2, <3>3, SMTT(30) DEF TabOk, Paired
    <3>5. /\ p = "send" => w.act[a].flag # "send"
          /\ p = "recv" /\ ~KeepActs => w.conn[k].buf \notin Acts
      <4>1. WaitOk(t, th[t], w)
        BY <1>1 DEF ThreadOk
      <4> QED BY <1>1, <2>2, <3>4, <4>1 DEF WaitOk
    <3>6. p = "open" => w.act[a].flag \in Early
      <4>1. WaitOk(t, th[t], w)
        BY <1>1 DEF ThreadOk
      <4>2. PICK j \in DOMAIN calls[t][th[t].call] : calls[t][th[t].call][j] = a
        BY <3>4, <4>1 DEF WaitOk
      <4>3. StageOk(th[t], a, w.act[a], th[t].call, j, TRUE, w.hash)
        BY <4>2 DEF AllKnown
      <4> QED BY <1>1, <4>3, SMTT(30) DEF StageOk
    <3>7. p = "send" => w.act[a].flag # "fin"
      <4>1. WaitOk(t, th[t], w)
        BY <1>1 DEF ThreadOk
      <4>2. PICK j \in DOMAIN calls[t][th[t].call] : calls[t][th[t].call][j] = a
        BY <3>4, <4>1 DEF WaitOk
      <4>3. StageOk(th[t], a, w.act[a], th[t].call, j, TRUE, w.hash)
        BY <4>2 DEF AllKnown
      <4> QED BY <1>1, <4>3 DEF StageOk
    <3>8. ~KeepActs /\ w.conn[k].buf \in Acts => w.act[a].flag \in {"send", "fin"}
      BY <2>1, <2>2, <3>3 DEF ActOk, Session
    <3>9. ~KeepActs => w.conn[k].buf \notin Acts
      BY <3>5, <3>6, <3>7, <3>8 DEF Early
    <3> QED BY <1>3, <2>2, <3>3, <3>9
  <2> QED BY <1>1, <1>3, <2>1, <2>2, AddActs
<1>7. WatchOk(w', th')
  <2>0. th'[t] = q /\ \A x \in Threads : th[x].poll # "no" => th'[x] = th[x]
    BY <1>1
  <2>1. ASSUME NEW k \in Conns, w'.conn[k].watch \in {"thread", "hung"}
        PROVE  /\ k[1] # "session" /\ Used(w', k)
               /\ \E x \in Threads : th'[x].poll # "no" /\ \E m \in DOMAIN th'[x].wait : th'[x].wait[m] = w'.conn[k].act
    <3>1. w'.conn[k].act = w.conn[k].act
      BY <1>3 DEF Polled
    <3>2. CASE OfList(w, as, k) /\ k[1] # "session"
      <4>1. ForList(w, as, k)
        BY <1>1, <1>2, <3>2, LinkedConn
      <4>2. PICK m \in DOMAIN as : w.conn[k].act = as[m]
        BY <4>1 DEF ForList
      <4>3. th'[t].poll # "no" /\ th'[t].wait = as
        BY <1>5, <2>0
      <4> QED BY <3>1, <3>2, <4>1, <4>2, <4>3 DEF Used, ForList
    <3>3. CASE ~(OfList(w, as, k) /\ k[1] # "session")
      <4>1. w'.conn[k].watch = w.conn[k].watch
        BY <1>3, <3>3 DEF Polled
      <4>2. k[1] # "session" /\ Used(w, k)
        BY <1>1, <2>1, <4>1 DEF WatchOk
      <4>3. PICK x \in Threads : th[x].poll # "no" /\ \E m \in DOMAIN th[x].wait : th[x].wait[m] = w.conn[k].act
        BY <1>1, <2>1, <4>1 DEF WatchOk
      <4>4. th'[x] = th[x]
        BY <2>0, <4>3
      <4> QED BY <3>1, <4>2, <4>3, <4>4, SMTT(30) DEF Used
    <3> QED BY <3>2, <3>3, SMTT(30)
  <2>2. ASSUME NEW k \in w'.udp.wlist
        PROVE  /\ k[1] = "session" /\ Used(w', k)
               /\ \E x \in Threads : th'[x].poll = "out" /\ \E m \in DOMAIN th'[x].wait : th'[x].wait[m] = w'.conn[k].act
    <3>1. k \in Conns
      BY <1>4, Parts, SMTT(30) DEF TabOk, UdpType
    <3>2. w'.conn[k].act = w.conn[k].act
      BY <1>3, <3>1 DEF Polled
    <3>3. CASE how = "out" /\ k[1] = "session" /\ OfList(w, as, k)
      <4>1. ForList(w, as, k)
        BY <1>1, <1>2, <3>3, LinkedConn
      <4>2. PICK m \in DOMAIN as : w.conn[k].act = as[m]
        BY <4>1 DEF ForList
      <4>3. th'[t].poll = "out" /\ th'[t].wait = as
        BY <1>5, <2>0, <3>3
      <4> QED BY <3>2, <3>3, <4>1, <4>2, <4>3 DEF Used, ForList
    <3>4. CASE k \in w.udp.wlist
      <4>2. k[1] = "session" /\ Used(w, k)
        BY <1>1, <3>4 DEF WatchOk
      <4>3. PICK x \in Threads : th[x].poll = "out" /\ \E m \in DOMAIN th[x].wait : th[x].wait[m] = w.conn[k].act
        BY <1>1, <3>4 DEF WatchOk
      <4>4. th'[x] = th[x]
        BY <2>0, <4>3
      <4> QED BY <3>2, <4>2, <4>3, <4>4 DEF Used
    <3> QED BY <1>3, <3>3, <3>4
  <2> QED BY <2>1, <2>2 DEF WatchOk
<1>8. CurOk(cur', th')
  <2>1. cur' \in Threads \cup {"dispatch", "clock", "timer"}
    BY DEF Schedule
  <2>2. \A x \in Threads : ~(Busy(th'[x]) /\ th'[x].poll = "no")
    <3> SUFFICES ASSUME NEW x \in Threads, Busy(th'[x]), th'[x].poll = "no" PROVE FALSE
      OBVIOUS
    <3>1. x # t
      BY <1>1, <1>5
    <3>2. th'[x] = th[x]
      BY <1>1, <3>1
    <3> QED BY <1>1, <3>1, <3>2 DEF CurOk
  <2> QED BY <2>1, <2>2 DEF CurOk
<1> QED BY <1>4, <1>5, <1>6, <1>7, <1>8, StepOk

\* A thread back from a poll.
BackOf(r) == [r EXCEPT !.i = 1, !.wait = <<>>, !.poll = "no"]

\* The thread back from its poll.
LEMMA BackThread ==
    ASSUME InputOk, NEW t \in Threads, NEW r, NEW s, NEW u, ThreadOk(t, r, s), u.act = s.act, u.hash = s.hash,
           r.pc \in {"open", "send", "recv"}
    PROVE  ThreadOk(t, BackOf(r), u)
<1> DEFINE e == <<>>
           q == [r EXCEPT !.i = 1, !.wait = e, !.poll = "no"]
<1>1. r \in ThType /\ e \in Seq(Acts) /\ 1 \in Nat \ {0}
  BY EmptySeq DEF ThreadOk
<1> HIDE DEF e
<1>2. q \in ThType /\ q.call = r.call /\ q.pc = r.pc /\ q.i = 1 /\ q.wait = e /\ q.clk = r.clk /\ q.poll = "no"
  BY <1>1 DEF ThType
<1>3. BackOf(r) = q
  BY DEF BackOf, e
<1> HIDE DEF q
<1>4. Busy(q) /\ Busy(r)
  BY <1>2 DEF Busy
<1>5. WaitOk(t, q, u)
  BY <1>2 DEF WaitOk, NoDup, e
<1>6. r.call \in 0..Len(calls[t]) /\ r.call \in DOMAIN calls[t] /\ Len(calls[t][r.call]) \in Nat
  BY <1>4, CallTypes DEF ThreadOk
<1>7. ASSUME NEW c \in DOMAIN calls[t], NEW j \in DOMAIN calls[t][c]
      PROVE  StageOk(q, calls[t][c][j], u.act[calls[t][c][j]], c, j, Busy(q) /\ c = q.call, u.hash)
  <2>1. StageOk(r, calls[t][c][j], s.act[calls[t][c][j]], c, j, Busy(r) /\ c = r.call, s.hash)
    BY DEF ThreadOk
  <2>2. ~(j < 1)
    BY CallTypes
  <2> QED BY <1>2, <1>4, <2>1, <2>2 DEF StageOk
<1>8. ThreadOk(t, q, u)
  BY <1>2, <1>4, <1>5, <1>6, <1>7 DEF ThreadOk
<1> QED BY <1>3, <1>8

\* After the wait.
LEMMA PollBackOk == ASSUME IInv, NEW t \in Threads, PollBack(t) PROVE IInv'
<1> DEFINE as == th[t].wait
           how == th[t].poll
<1>1. /\ InputOk /\ TabOk(w) /\ ThreadOk(t, th[t], w) /\ th \in [Threads -> ThType] /\ WatchOk(w, th) /\ CurOk(t, th)
      /\ how # "no" /\ \A a \in Acts : ActOk(w, a)
  BY DEF IInv, PollBack
<1>2. Linked(w, as, t) /\ th[t].pc \in {"open", "send", "recv"}
  BY <1>1, WaitLinked DEF ThreadOk
<1>3. w' = EpollDel(w, as, how) /\ th' = [th EXCEPT ![t] = BackOf(th[t])] /\ UNCHANGED <<cur, user>> /\ cur = t
  BY <1>1 DEF PollBack, BackOf
<1>4. /\ Polled(w, w', as)
      /\ \A k \in Conns : /\ w'.conn[k].ev = w.conn[k].ev
                          /\ w'.conn[k].watch = IF OfList(w, as, k) /\ k[1] # "session" THEN None
                                                ELSE w.conn[k].watch
      /\ \A k : k \in w'.udp.wlist <=> k \in w.udp.wlist /\ ~(how = "out" /\ k[1] = "session" /\ OfList(w, as, k))
  BY <1>1, <1>2, <1>3, DelParts
<1> HIDE DEF as, how
<1>5. TabOk(w') /\ Local(w, w', t)
  BY <1>1, <1>2, <1>4, PolledFrame
<1>6. ThreadOk(t, BackOf(th[t]), w')
  BY <1>1, <1>2, <1>4, BackThread DEF Polled
<1>7. ASSUME NEW a \in Mine(t) PROVE ActOk(w', a)
  <2> DEFINE k == w.act[a].conn
  <2>1. a \in Acts /\ ActOk(w, a)
    BY <1>1 DEF Mine
  <2>2. k # None => k \in Conns
    BY <1>1, <2>1, Parts DEF TabOk, ActType
  <2>3. /\ w'.act = w.act /\ w'.hash = w.hash /\ w'.udp.in = w.udp.in /\ w'.udp.asked = w.udp.asked
        /\ k # None => /\ w'.conn[k].buf = w.conn[k].buf /\ w'.conn[k].in = w.conn[k].in
                       /\ w'.conn[k].owes = w.conn[k].owes /\ w'.conn[k].late = w.conn[k].late
                       /\ w'.conn[k].ev = w.conn[k].ev
    BY <1>4, <2>2 DEF Polled
  <2>4. k # None /\ kind[a] = "session" => Session(a, w'.act[a], w'.conn[k], w'.udp.asked)
    BY <2>1, <2>3, SMTT(30) DEF ActOk, Session
  <2>5. k # None /\ kind[a] # "session" /\ ~w'.conn[k].late => Stream(a, w'.act[a], w'.conn[k])
    BY <2>1, <2>3 DEF ActOk, Stream
  <2> QED BY <2>1, <2>3, <2>4, <2>5 DEF ActOk
<1>8. WatchOk(w', th')
  <2>0. \A x \in Threads \ {t} : th'[x] = th[x]
    BY <1>1, <1>3
  <2>1. ASSUME NEW k \in Conns, Used(w, k), NEW m \in DOMAIN as, as[m] = w.conn[k].act PROVE OfList(w, as, k)
    BY <1>1, <2>1, ZenonT(30) DEF OfList, TabOk, Paired
  <2>2. ASSUME NEW k \in Conns, w'.conn[k].watch \in {"thread", "hung"}
        PROVE  /\ k[1] # "session" /\ Used(w', k)
               /\ \E x \in Threads : th'[x].poll # "no" /\ \E m \in DOMAIN th'[x].wait : th'[x].wait[m] = w'.conn[k].act
    <3>1. w'.conn[k].act = w.conn[k].act
      BY <1>4 DEF Polled
    <3>2. w'.conn[k].watch = w.conn[k].watch /\ ~(OfList(w, as, k) /\ k[1] # "session")
      BY <1>4, <2>2, MsgAssumption
    <3>3. k[1] # "session" /\ Used(w, k)
      BY <1>1, <2>2, <3>2 DEF WatchOk
    <3>4. PICK x \in Threads : th[x].poll # "no" /\ \E m \in DOMAIN th[x].wait : th[x].wait[m] = w.conn[k].act
      BY <1>1, <2>2, <3>2 DEF WatchOk
    <3>5. x # t
      BY <2>1, <3>2, <3>3, <3>4 DEF as
    <3>6. th'[x] = th[x]
      BY <2>0, <3>5
    <3> QED BY <3>1, <3>3, <3>4, <3>6 DEF Used
  <2>3. ASSUME NEW k \in w'.udp.wlist
        PROVE  /\ k[1] = "session" /\ Used(w', k)
               /\ \E x \in Threads : th'[x].poll = "out" /\ \E m \in DOMAIN th'[x].wait : th'[x].wait[m] = w'.conn[k].act
    <3>1. k \in Conns
      BY <1>5, Parts DEF TabOk, UdpType
    <3>2. w'.conn[k].act = w.conn[k].act
      BY <1>4, <3>1 DEF Polled
    <3>3. k[1] = "session" /\ Used(w, k)
      BY <1>1, <1>4 DEF WatchOk
    <3>4. PICK x \in Threads : th[x].poll = "out" /\ \E m \in DOMAIN th[x].wait : th[x].wait[m] = w.conn[k].act
      BY <1>1, <1>4 DEF WatchOk
    <3>5. x # t
      BY <1>4, <2>1, <3>1, <3>3, <3>4 DEF as, how
    <3>6. th'[x] = th[x]
      BY <2>0, <3>5
    <3> QED BY <3>2, <3>3, <3>4, <3>6 DEF Used
  <2> QED BY <2>2, <2>3 DEF WatchOk
<1>9. CurOk(cur', th')
  BY <1>1, <1>3, CurStays
<1> QED BY <1>3, <1>5, <1>6, <1>7, <1>8, <1>9, StepOk

\* The end of a pass: one of the three.
LEMMA PassOk ==
    ASSUME EpollFails = FALSE, IInv, NEW t \in Threads, OpenPass(t) \/ SendPass(t) \/ RecvPass(t)
    PROVE  IInv'
<1>1. PICK p \in {"open", "send", "recv"} : All(t, p) /\ (p = "open" => OpenPass(t)) /\ (p = "send" => SendPass(t))
                                            /\ (p = "recv" => RecvPass(t))
  BY DEF OpenPass, SendPass, RecvPass
<1>2. AllKnown(t, p) /\ UNCHANGED user
  BY <1>1, AllFacts DEF OpenPass, SendPass, RecvPass
<1> DEFINE how == IF p = "recv" THEN "in" ELSE "out"
<1>3. \/ Poll(t, how)
      \/ \E pc \in {"send", "recv", "report"} : EndOf(t, p, pc)
  <2>1. CASE p = "open"
    <3>1. PICK pc \in {"send", "report"} : pc = AfterOpen(t)
      BY DEF AfterOpen, AfterSend
    <3>2. \/ Late(t) /\ w' = Failed(w, th[t].wait) /\ GoTo(t, pc) /\ UNCHANGED cur
          \/ Poll(t, how)
          \/ ~Late(t) /\ th[t].wait = <<>> /\ GoTo(t, "send") /\ UNCHANGED <<w, cur>>
      BY <1>1, <2>1, <3>1 DEF OpenPass
    <3>3. CASE Late(t) /\ w' = Failed(w, th[t].wait) /\ GoTo(t, pc) /\ UNCHANGED cur
      <4>1. EndOf(t, p, pc)
        BY <2>1, <3>1, <3>3 DEF EndOf
      <4> QED BY <4>1
    <3>4. CASE ~Late(t) /\ th[t].wait = <<>> /\ GoTo(t, "send") /\ UNCHANGED <<w, cur>>
      <4>1. EndOf(t, p, "send")
        BY <2>1, <3>4 DEF EndOf
      <4> QED BY <4>1
    <3> QED BY <3>2, <3>3, <3>4
  <2>2. CASE p = "send"
    <3>1. PICK pc \in {"recv", "report"} : pc = AfterSend(t)
      BY DEF AfterOpen, AfterSend
    <3>2. \/ Late(t) /\ w' = Failed(w, th[t].wait) /\ GoTo(t, pc) /\ UNCHANGED cur
          \/ Poll(t, how)
          \/ ~Late(t) /\ th[t].wait = <<>> /\ GoTo(t, "recv") /\ UNCHANGED <<w, cur>>
      BY <1>1, <2>2, <3>1 DEF SendPass
    <3>3. CASE Late(t) /\ w' = Failed(w, th[t].wait) /\ GoTo(t, pc) /\ UNCHANGED cur
      <4>1. EndOf(t, p, pc)
        BY <2>2, <3>1, <3>3 DEF EndOf
      <4> QED BY <4>1
    <3>4. CASE ~Late(t) /\ th[t].wait = <<>> /\ GoTo(t, "recv") /\ UNCHANGED <<w, cur>>
      <4>1. EndOf(t, p, "recv")
        BY <2>2, <3>4 DEF EndOf
      <4> QED BY <4>1
    <3> QED BY <3>2, <3>3, <3>4
  <2>3. CASE p = "recv"
    <3>1. PICK pc \in {"report"} : pc = "report"
      BY DEF AfterOpen, AfterSend
    <3>2. \/ Late(t) /\ w' = Failed(w, th[t].wait) /\ GoTo(t, pc) /\ UNCHANGED cur
          \/ Poll(t, how)
          \/ ~Late(t) /\ th[t].wait = <<>> /\ GoTo(t, "report") /\ UNCHANGED <<w, cur>>
      BY <1>1, <2>3, <3>1 DEF RecvPass
    <3>3. CASE Late(t) /\ w' = Failed(w, th[t].wait) /\ GoTo(t, pc) /\ UNCHANGED cur
      <4>1. EndOf(t, p, pc)
        BY <2>3, <3>1, <3>3 DEF EndOf
      <4> QED BY <4>1
    <3>4. CASE ~Late(t) /\ th[t].wait = <<>> /\ GoTo(t, "report") /\ UNCHANGED <<w, cur>>
      <4>1. EndOf(t, p, "report")
        BY <2>3, <3>4 DEF EndOf
      <4> QED BY <4>1
    <3> QED BY <3>2, <3>3, <3>4
  <2> QED BY <2>1, <2>2, <2>3
<1>4. CASE Poll(t, how)
  <2>1. TRUE \notin Fails
    BY DEF Fails
  <2>2. /\ w' = EpollAdd(w, th[t].wait, how) /\ cur' \in Schedule(th')
        /\ th' = [th EXCEPT ![t].io = TRUE, ![t].poll = how]
    BY <1>4, <2>1 DEF Poll
  <2>3. th' = [th EXCEPT ![t] = PollOf(th[t], how)]
    <3>1. th \in [Threads -> ThType]
      BY <1>2 DEF AllKnown
    <3> QED BY <2>2, <3>1 DEF PollOf
  <2>4. how \in {"in", "out"} /\ (how = "in" <=> p = "recv")
    OBVIOUS
  <2> HIDE DEF how
  <2> QED BY <1>2, <2>2, <2>3, <2>4, PollOk
<1>5. CASE \E pc \in {"send", "recv", "report"} : EndOf(t, p, pc)
  <2>1. PICK pc \in {"send", "recv", "report"} : EndOf(t, p, pc)
    BY <1>5
  <2> QED BY <1>2, <2>1, PassEnd
<1> QED BY <1>3, <1>4, <1>5

\* Rest with some fields set.
RestOf(call, pc, io) == [Rest EXCEPT !.call = call, !.pc = pc, !.io = io]

\* RestOf, field by field.
LEMMA RestFields ==
    ASSUME NEW call \in Nat, NEW pc \in {"idle", "init", "done"}, NEW io \in BOOLEAN
    PROVE  LET q == RestOf(call, pc, io) IN
           /\ q \in ThType /\ q.call = call /\ q.pc = pc /\ q.i = 1 /\ q.wait = <<>>
           /\ q.clk = 0 /\ q.poll = "no"
<1> DEFINE e == <<>>
           z == [call |-> 0, pc |-> "idle", i |-> 1, wait |-> e, has |-> FALSE, clk |-> 0, io |-> TRUE, poll |-> "no"]
<1>1. e \in Seq(Acts) /\ 1 \in Nat \ {0} /\ 0 \in 0..2
  BY EmptySeq
<1>2. Rest = z
  BY DEF Rest
<1> HIDE DEF e
<1>3. z \in ThType /\ z.i = 1 /\ z.wait = e /\ z.clk = 0 /\ z.poll = "no"
  BY <1>1 DEF ThType
<1> HIDE DEF z
<1> DEFINE q == [z EXCEPT !.call = call, !.pc = pc, !.io = io]
<1>4. q \in ThType /\ q.call = call /\ q.pc = pc /\ q.i = 1 /\ q.wait = e /\ q.clk = 0 /\ q.poll = "no"
  BY <1>3 DEF ThType
<1> QED BY <1>2, <1>4 DEF e, RestOf

\* A thread with nothing to wait for waits for nothing.
LEMMA NoWait ==
    ASSUME NEW t, NEW r, NEW s, r.wait = <<>>
    PROVE  WaitOk(t, r, s)
BY DEF WaitOk, NoDup

\* The next call.
LEMMA StartCallOk == ASSUME IInv, NEW t \in Threads, StartCall(t) PROVE IInv'
<1>0. PICK io \in BOOLEAN : io = FALSE
  OBVIOUS
<1> DEFINE r == th[t]
           q == RestOf(r.call + 1, "init", io)
<1>1. /\ InputOk /\ TabOk(w) /\ ThreadOk(t, r, w) /\ th \in [Threads -> ThType] /\ \A a \in Acts : ActOk(w, a)
      /\ cur = t /\ r.pc = "idle" /\ r.poll = "no" /\ r.call < Len(calls[t]) /\ th' = [th EXCEPT ![t] = q]
      /\ UNCHANGED <<w, cur, user>>
  BY <1>0 DEF IInv, StartCall, At, RestOf
<1> HIDE DEF r
<1>2. r.call \in Nat /\ r.call + 1 \in Nat /\ Len(calls[t]) \in Nat /\ DOMAIN calls[t] = 1..Len(calls[t])
  BY <1>1, CallTypes DEF ThreadOk, ThType
<1>3. q \in ThType /\ q.call = r.call + 1 /\ q.pc = "init" /\ q.i = 1 /\ q.wait = <<>> /\ q.poll = "no" /\ q.clk = 0
  <2> DEFINE n == r.call + 1
  <2>1. n \in Nat
    BY <1>2
  <2> HIDE DEF n
  <2>2. LET z == RestOf(n, "init", io) IN
        z \in ThType /\ z.call = n /\ z.pc = "init" /\ z.i = 1 /\ z.wait = <<>> /\ z.poll = "no" /\ z.clk = 0
    BY <2>1, RestFields
  <2> QED BY <2>2 DEF n
<1> HIDE DEF q
<1>4. q.call \in DOMAIN calls[t] /\ q.call \in 0..Len(calls[t])
  BY <1>1, <1>2, <1>3
<1>5. Len(calls[t][q.call]) \in Nat /\ Busy(q) /\ ~Busy(r)
  BY <1>1, <1>3, <1>4, CallTypes DEF Busy
<1>6. ASSUME NEW c \in DOMAIN calls[t], NEW j \in DOMAIN calls[t][c]
      PROVE  StageOk(q, calls[t][c][j], w.act[calls[t][c][j]], c, j, Busy(q) /\ c = q.call, w.hash)
  <2>1. StageOk(r, calls[t][c][j], w.act[calls[t][c][j]], c, j, FALSE, w.hash)
    BY <1>1, <1>5 DEF ThreadOk
  <2>2. c \in Nat /\ j \in Nat \ {0} /\ ~(j < 1)
    BY <1>1, CallTypes
  <2>3. c > q.call \/ c = q.call => c > r.call
    BY <1>2, <1>3, <2>2
  <2> QED BY <1>3, <1>5, <2>1, <2>2, <2>3 DEF StageOk
<1>7. WaitOk(t, q, w)
  BY <1>3, NoWait
<1>8. ThreadOk(t, q, w)
  BY <1>3, <1>4, <1>5, <1>6, <1>7 DEF ThreadOk
<1>9. Local(w, w', t) /\ Quiet(w, w')
  BY <1>1 DEF Local, SameAct, Quiet
<1>10. \A a \in Mine(t) : ActOk(w', a)
  BY <1>1 DEF Mine
<1>11. TabOk(w') /\ ThreadOk(t, q, w') /\ th[t].poll = "no"
  BY <1>1, <1>8 DEF r
<1> QED BY <1>1, <1>9, <1>10, <1>11, RunOk

\* Only actions of the thread are destroyed, and those of the call when none is kept.
LEMMA DestroyedMine ==
    ASSUME InputOk, NEW t \in Threads, th[t].call \in DOMAIN calls[t]
    PROVE  /\ \A a \in Acts : a \in Destroyed(t) => a \in Mine(t)
           /\ ~KeepActs => \A j \in DOMAIN calls[t][th[t].call] : calls[t][th[t].call][j] \in Destroyed(t)
<1>1. \A c \in DOMAIN calls[t] : \A a \in ToSet(calls[t][c]) : a \in Mine(t)
  <2> SUFFICES ASSUME NEW c \in DOMAIN calls[t], NEW a \in ToSet(calls[t][c]) PROVE a \in Mine(t)
    OBVIOUS
  <2>1. PICK j \in DOMAIN calls[t][c] : a = calls[t][c][j]
    BY DEF ToSet
  <2> QED BY <2>1, MineOf
<1>2. ASSUME NEW a \in Acts, a \in Destroyed(t) PROVE a \in Mine(t)
  <2>1. \E c \in DOMAIN calls[t] : a \in ToSet(calls[t][c])
    BY <1>2 DEF Destroyed, Lst
  <2> QED BY <1>1, <2>1
<1>3. ~KeepActs => \A j \in DOMAIN calls[t][th[t].call] : calls[t][th[t].call][j] \in Destroyed(t)
  BY DEF Destroyed, Lst, ToSet
<1> QED BY <1>2, <1>3

\* The end of the call.
LEMMA EndCallOk == ASSUME IInv, NEW t \in Threads, EndCall(t) PROVE IInv'
<1> DEFINE r == th[t]
           D == Destroyed(t)
<1>1. /\ AllKnown(t, "reset") /\ UNCHANGED user /\ w' = [w EXCEPT !.hash = @ \ D]
      /\ WatchOk(w, th) /\ CurOk(t, th) /\ \A a \in Acts : ActOk(w, a)
  BY AllFacts, Zenon DEF EndCall, IInv, AllKnown
<1>2. /\ InputOk /\ TabOk(w) /\ w \in WType /\ ThreadOk(t, r, w) /\ r \in ThType /\ th \in [Threads -> ThType]
      /\ r.pc = "reset" /\ r.poll = "no" /\ Busy(r) /\ r.call \in DOMAIN calls[t]
      /\ \A j \in DOMAIN calls[t][r.call] :
           LET a == calls[t][r.call][j] IN
           /\ j < r.i /\ StageOk(r, a, w.act[a], r.call, j, TRUE, w.hash)
  BY <1>1 DEF AllKnown
<1>3. PICK pc \in {"idle", "done"}, io \in BOOLEAN : th' = [th EXCEPT ![t] = RestOf(r.call, pc, io)]
  BY DEF EndCall, RestOf
<1>4. cur' \in Threads \cup {"dispatch", "clock", "timer"}
  BY DEF EndCall, Schedule
<1> DEFINE q == RestOf(r.call, pc, io)
<1>5. r.call \in Nat /\ r.call \in 0..Len(calls[t]) /\ r.i \in Nat
  BY <1>2 DEF ThType, ThreadOk
<1>6. q \in ThType /\ q.call = r.call /\ q.pc = pc /\ q.i = 1 /\ q.wait = <<>> /\ q.poll = "no" /\ q.clk = 0
  BY <1>5, RestFields
<1>7. /\ \A a \in Acts : a \in D => a \in Mine(t)
      /\ ~KeepActs => \A j \in DOMAIN calls[t][r.call] : calls[t][r.call][j] \in D
  BY <1>2, DestroyedMine
<1> HIDE DEF D, q
<1>8. /\ w' \in WType /\ w'.act = w.act /\ w'.conn = w.conn /\ w'.keep = w.keep /\ w'.pool = w.pool
      /\ w'.total = w.total /\ w'.udp = w.udp /\ w'.hash = w.hash \ D
  BY <1>1, <1>2 DEF WType
<1>9. TabOk(w') /\ Quiet(w, w')
  <2>1. Like(w, w')
    BY <1>2, <1>8, LikeSelf DEF Like
  <2> QED BY <1>2, <1>8, <2>1, LikeTab DEF Quiet
<1>10. Local(w, w', t)
  BY <1>7, <1>8 DEF Local, SameAct
<1>11. ASSUME NEW a \in Mine(t) PROVE ActOk(w', a)
  <2>1. ActOk(w, a)
    BY <1>1 DEF Mine
  <2> QED BY <1>8, <2>1 DEF ActOk
<1> HIDE DEF r
<1>12. ASSUME NEW c \in DOMAIN calls[t], NEW j \in DOMAIN calls[t][c]
       PROVE  StageOk(q, calls[t][c][j], w'.act[calls[t][c][j]], c, j, Busy(q) /\ c = q.call, w'.hash)
  <2>1. StageOk(r, calls[t][c][j], w.act[calls[t][c][j]], c, j, c = r.call, w.hash)
    BY <1>2 DEF ThreadOk
  <2>2. ~Busy(q)
    BY <1>6 DEF Busy
  <2>3. j \in Nat
    BY <1>2, CallTypes
  <2>4. c = r.call => ~(j >= r.i)
    <3>1. c = r.call => j < r.i
      BY <1>2
    <3> QED BY <1>5, <2>3, <3>1
  <2>5. w.act[calls[t][c][j]].conn = None
    BY <1>2, <2>1, <2>4 DEF StageOk
  <2>6. calls[t][c][j] \in w'.hash => KeepActs
    BY <1>7, <1>8, <2>1 DEF StageOk
  <2>7. c > q.call => w.act[calls[t][c][j]].flag = "undef"
    BY <1>6, <2>1 DEF StageOk
  <2> QED BY <1>8, <2>2, <2>5, <2>6, <2>7 DEF StageOk
<1>13. WaitOk(t, q, w')
  BY <1>6, NoWait
<1>14. ThreadOk(t, q, w')
  <2>1. ~Busy(q)
    BY <1>6 DEF Busy
  <2> QED BY <1>5, <1>6, <1>12, <1>13, <2>1 DEF ThreadOk
<1>15. WatchOk(w', th')
  BY <1>1, <1>2, <1>3, <1>9, QuietWatch DEF r, q
<1>16. CurOk(cur', th')
  <2>1. th' = [th EXCEPT ![t] = q]
    BY <1>3 DEF q
  <2>2. ~Busy(q)
    BY <1>6 DEF Busy
  <2> QED BY <1>1, <1>2, <1>4, <2>1, <2>2 DEF CurOk
<1>17. th' = [th EXCEPT ![t] = q]
  BY <1>3 DEF q
<1> QED BY <1>1, <1>9, <1>10, <1>11, <1>14, <1>15, <1>16, <1>17, StepOk, Zenon
----------------------------------------------------------------------------
(* Where connections go *)

\* e is in the list q.
In(q, e) == \E i \in DOMAIN q : q[i] = e

\* A list without its first element.
LEMMA TailNoDup ==
    ASSUME NEW S, NEW q \in Seq(S), q # <<>>, NoDup(q)
    PROVE  /\ Tail(q) \in Seq(S) /\ Head(q) \in S /\ In(q, Head(q)) /\ NoDup(Tail(q))
           /\ \A e : In(Tail(q), e) <=> In(q, e) /\ e # Head(q)
<1>1. /\ Tail(q) \in Seq(S) /\ Head(q) \in S /\ Len(Tail(q)) = Len(q) - 1 /\ Len(q) \in Nat \ {0}
      /\ DOMAIN q = 1..Len(q) /\ DOMAIN Tail(q) = 1..Len(Tail(q)) /\ Head(q) = q[1]
      /\ \A i \in 1..Len(Tail(q)) : Tail(q)[i] = q[i + 1]
  BY HeadTailProperties, EmptySeq, LenProperties
<1>2. 1 \in DOMAIN q /\ \A i \in DOMAIN Tail(q) : i \in Nat \ {0} /\ i + 1 \in DOMAIN q /\ i + 1 # 1 /\ Tail(q)[i] = q[i + 1]
  BY <1>1
<1>3. \A i \in DOMAIN q : i # 1 => i - 1 \in DOMAIN Tail(q) /\ Tail(q)[i - 1] = q[i]
  BY <1>1
<1>4. NoDup(Tail(q))
  <2> SUFFICES ASSUME NEW i \in DOMAIN Tail(q), NEW j \in DOMAIN Tail(q), Tail(q)[i] = Tail(q)[j] PROVE i = j
    BY DEF NoDup
  <2>1. i + 1 = j + 1
    BY <1>2 DEF NoDup
  <2> QED BY <1>2, <2>1
<1>5. ASSUME NEW e PROVE In(Tail(q), e) <=> In(q, e) /\ e # Head(q)
  <2>1. In(Tail(q), e) => In(q, e) /\ e # Head(q)
    BY <1>1, <1>2 DEF In, NoDup
  <2>2. In(q, e) /\ e # Head(q) => In(Tail(q), e)
    BY <1>1, <1>3 DEF In
  <2> QED BY <2>1, <2>2
<1> QED BY <1>1, <1>2, <1>4, <1>5 DEF In

\* A list with one element more.
LEMMA AppendNoDup ==
    ASSUME NEW S, NEW q \in Seq(S), NEW x \in S, NoDup(q), ~In(q, x)
    PROVE  /\ Append(q, x) \in Seq(S) /\ NoDup(Append(q, x))
           /\ \A e : In(Append(q, x), e) <=> In(q, e) \/ e = x
<1> DEFINE p == Append(q, x)
<1>1. /\ p \in Seq(S) /\ DOMAIN q = 1..Len(q) /\ Len(q) \in Nat /\ DOMAIN p = 1..Len(q) + 1
      /\ p[Len(q) + 1] = x /\ \A m \in DOMAIN q : p[m] = q[m]
  BY AppendFacts
<1> HIDE DEF p
<1>2. Len(q) + 1 \in DOMAIN p /\ Len(q) + 1 \notin DOMAIN q /\ \A m \in DOMAIN p : m \in DOMAIN q \/ m = Len(q) + 1
  BY <1>1
<1>3. \A m \in DOMAIN q : m \in DOMAIN p
  BY <1>1
<1>4. NoDup(p)
  BY <1>1, <1>2 DEF NoDup, In
<1>5. \A e : In(p, e) <=> In(q, e) \/ e = x
  BY <1>1, <1>2, <1>3 DEF In
<1> QED BY <1>1, <1>4, <1>5 DEF p

\* A list without an element.
LEMMA RemoveNoDup ==
    ASSUME NEW S, NEW q \in Seq(S), NEW x, NoDup(q), In(q, x)
    PROVE  /\ RemoveFirst(q, x) \in Seq(S) /\ NoDup(RemoveFirst(q, x))
           /\ \A e : In(RemoveFirst(q, x), e) <=> In(q, e) /\ e # x
<1>1. DOMAIN q = 1..Len(q) /\ Len(q) \in Nat
  BY LenProperties
<1>2. PICK n \in 1..Len(q) : q[n] = x
  BY <1>1 DEF In
<1> DEFINE I == {j \in 1..Len(q) : q[j] = x}
           p == RemoveAt(q, n)
<1>3. RemoveFirst(q, x) = p
  <2>1. I = {n}
    BY <1>1, <1>2 DEF NoDup
  <2>2. Min(I) = n
    BY <2>1 DEF Min
  <2>3. SelectInSeq(q, LAMBDA v : v = x) = n
    BY <2>1, <2>2 DEF SelectInSeq
  <2> QED BY <1>2, <2>3 DEF RemoveFirst
<1> DEFINE l == SubSeq(q, 1, n - 1)
           r == SubSeq(q, n + 1, Len(q))
<1>4. /\ l \in Seq(S) /\ Len(l) = n - 1 /\ \A i \in 1..(n - 1) : l[i] = q[i]
  BY <1>1, <1>2, SubSeqProperties
<1>5. /\ r \in Seq(S) /\ Len(r) = Len(q) - n /\ \A i \in 1..(Len(q) - n) : r[i] = q[n + i]
  <2>1. n + 1 \in Int /\ Len(q) \in Int /\ \A i \in (n + 1)..Len(q) : q[i] \in S
    BY <1>1, <1>2
  <2>2. /\ r \in Seq(S) /\ Len(r) = IF n + 1 <= Len(q) THEN Len(q) - (n + 1) + 1 ELSE 0
        /\ \A i \in 1..(Len(q) - (n + 1) + 1) : r[i] = q[n + 1 + i - 1]
    BY <2>1, SubSeqProperties
  <2> HIDE DEF r
  <2>3. Len(r) = Len(q) - n
    <3> DEFINE N == Len(q)
               m == Len(r)
    <3>1. N \in Nat /\ n \in 1..N /\ m = IF n + 1 <= N THEN N - (n + 1) + 1 ELSE 0
      BY <1>1, <2>2
    <3> HIDE DEF N, m
    <3>2. m = N - n
      BY <3>1
    <3> QED BY <3>2, SMTT(30) DEF N, m
  <2>4. ASSUME NEW i \in 1..(Len(q) - n) PROVE r[i] = q[n + i]
    <3>1. i \in 1..(Len(q) - (n + 1) + 1) /\ n + 1 + i - 1 = n + i
      BY <1>1, <1>2
    <3> QED BY <2>2, <3>1
  <2> QED BY <2>2, <2>3, <2>4
<1>6. p = l \o r
  BY DEF RemoveAt
<1> HIDE DEF l, r, p
<1>7. /\ p \in Seq(S) /\ Len(p) = Len(q) - 1 /\ DOMAIN p = 1..(Len(q) - 1)
      /\ \A i \in 1..(Len(q) - 1) : p[i] = IF i < n THEN q[i] ELSE q[i + 1]
  <2>1. p \in Seq(S) /\ Len(p) = Len(l) + Len(r)
    BY <1>4, <1>5, <1>6, ConcatProperties
  <2>2. \A i \in 1..(Len(l) + Len(r)) : p[i] = IF i <= Len(l) THEN l[i] ELSE r[i - Len(l)]
    BY <1>4, <1>5, <1>6, ConcatProperties
  <2>3. Len(p) = Len(q) - 1
    BY <1>1, <1>2, <1>4, <1>5, <2>1
  <2>4. ASSUME NEW i \in 1..(Len(q) - 1) PROVE p[i] = IF i < n THEN q[i] ELSE q[i + 1]
    <3>1. p[i] = IF i <= n - 1 THEN l[i] ELSE r[i - (n - 1)]
      BY <1>1, <1>2, <1>4, <1>5, <2>2
    <3>2. CASE i < n
      BY <1>1, <1>2, <1>4, <3>1, <3>2
    <3>3. CASE ~(i < n)
      <4>1. i - (n - 1) \in 1..(Len(q) - n) /\ n + (i - (n - 1)) = i + 1
        BY <1>1, <1>2, <3>3
      <4>2. r[i - (n - 1)] = q[i + 1]
        BY <1>5, <4>1
      <4> QED BY <1>1, <1>2, <3>1, <3>3, <4>2
    <3> QED BY <3>2, <3>3
  <2> QED BY <2>1, <2>3, <2>4, LenProperties
<1> DEFINE at(i) == IF i < n THEN i ELSE i + 1
<1>8. \A i \in DOMAIN p : at(i) \in DOMAIN q /\ at(i) # n /\ p[i] = q[at(i)]
  BY <1>1, <1>2, <1>7
<1>9. \A i, j \in DOMAIN p : at(i) = at(j) => i = j
  BY <1>1, <1>2, <1>7
<1>10. ASSUME NEW i \in DOMAIN q, i # n PROVE \E j \in DOMAIN p : at(j) = i
  <2>1. CASE i < n
    BY <1>1, <1>2, <1>7, <2>1
  <2>2. CASE ~(i < n)
    <3>1. i - 1 \in DOMAIN p /\ at(i - 1) = i
      BY <1>1, <1>2, <1>7, <1>10, <2>2
    <3> QED BY <3>1
  <2> QED BY <2>1, <2>2
<1> HIDE DEF at
<1>11. NoDup(p)
  BY <1>8, <1>9 DEF NoDup
<1>12. \A e : In(p, e) <=> In(q, e) /\ e # x
  <2> SUFFICES ASSUME NEW e PROVE In(p, e) <=> In(q, e) /\ e # x
    OBVIOUS
  <2>1. In(p, e) => In(q, e) /\ e # x
    BY <1>1, <1>2, <1>8 DEF In, NoDup
  <2>2. In(q, e) /\ e # x => In(p, e)
    BY <1>2, <1>8, <1>10 DEF In
  <2> QED BY <2>1, <2>2
<1> QED BY <1>3, <1>7, <1>11, <1>12

\* Connection k of kind d was taken from s, and u is what is left.
GotOk(s, d, k, u) ==
    /\ u \in WType /\ u.act = s.act /\ u.hash = s.hash /\ u.udp = s.udp
    /\ k \in Conns /\ k[1] = d /\ ~Used(s, k) /\ ~Used(u, k) /\ Made(u, k)
    /\ \A l \in Conns \ {k} : u.conn[l] = s.conn[l] /\ (Idle(u, l) <=> Idle(s, l))
    /\ Placed(u, {k})
    /\ u.conn[k].timer = FALSE /\ u.conn[k].watch = None
    /\ d # "tcp" => u.conn[k] = NewConn
    /\ ~u.conn[k].late => u.conn[k].in = <<>> /\ u.conn[k].owes = <<>>

\* The lists of a sound table.
LEMMA TabLists ==
    ASSUME NEW s, TabOk(s)
    PROVE  /\ s \in WType /\ s.keep \in Seq(Conns) /\ NoDup(s.keep)
           /\ \A d \in Kinds : /\ s.pool[d] \in Seq(Conns) /\ NoDup(s.pool[d])
                               /\ \A k : In(s.pool[d], k) => k \in Conns /\ k[1] = d
           /\ \A k : Idle(s, k) <=> In(s.keep, k)
           /\ \A k \in Conns : k[1] \in Kinds /\ (Free(s, k) <=> In(s.pool[k[1]], k))
<1>1. s \in WType /\ Placed(s, {})
  BY DEF TabOk
<1>2. s.keep \in Seq(Conns) /\ \A d \in Kinds : s.pool[d] \in Seq(Conns)
  BY <1>1, Parts
<1>3. \A d \in Kinds : \A k : In(s.pool[d], k) => k \in Conns /\ k[1] = d
  <2> SUFFICES ASSUME NEW d \in Kinds, NEW i \in DOMAIN s.pool[d] PROVE s.pool[d][i] \in Conns /\ s.pool[d][i][1] = d
    BY DEF In
  <2>1. s.pool[d][i] \in Conns
    BY <1>2, ElementOfSeq, LenProperties
  <2> QED BY <1>1, <2>1 DEF Placed
<1>4. \A k \in Conns : k[1] \in Kinds
  BY DEF Conns
<1> QED BY <1>1, <1>2, <1>3, <1>4 DEF Placed, Idle, Free, In

\* NewConn is a connection.
LEMMA NewConnType ==
    /\ NewConn \in ConnType /\ NewConn.act = None /\ NewConn.timer = FALSE /\ NewConn.watch = None /\ NewConn.late = FALSE
    /\ NewConn.in = <<>> /\ NewConn.owes = <<>> /\ NewConn.buf = None /\ NewConn.ev = {} /\ NewConn.st = "none"
<1> DEFINE e == <<>>
           z == [act |-> None, buf |-> None, ev |-> {}, st |-> "none", in |-> e, owes |-> e,
                 eof |-> FALSE, watch |-> None, timer |-> FALSE, late |-> FALSE]
<1>1. e \in Seq(Acts)
  BY EmptySeq
<1>2. NewConn = z
  BY DEF NewConn
<1> HIDE DEF e
<1>3. z \in ConnType
  BY <1>1 DEF ConnType
<1>4. /\ z.act = None /\ z.timer = FALSE /\ z.watch = None /\ z.late = FALSE
      /\ z.in = e /\ z.owes = e /\ z.buf = None /\ z.ev = {} /\ z.st = "none"
  OBVIOUS
<1> QED BY <1>2, <1>3, <1>4 DEF e

\* An idle connection is used again.
LEMMA TakeIdle ==
    ASSUME NEW s, TabOk(s), s.keep # <<>>, "tcp" \in Kinds
    PROVE  GotOk(s, "tcp", Head(s.keep), IdleDetach([s EXCEPT !.keep = Tail(@)], Head(s.keep)))
<1> DEFINE k == Head(s.keep)
           c == [s.conn[k] EXCEPT !.timer = FALSE, !.watch = None]
           u == [s EXCEPT !.keep = Tail(@), !.conn[k] = c]
<1>1. s \in WType /\ s.keep \in Seq(Conns) /\ NoDup(s.keep) /\ \A l : Idle(s, l) <=> In(s.keep, l)
  BY TabLists
<1>2. /\ Tail(s.keep) \in Seq(Conns) /\ k \in Conns /\ In(s.keep, k) /\ NoDup(Tail(s.keep))
      /\ \A e : In(Tail(s.keep), e) <=> In(s.keep, e) /\ e # k
  BY <1>1, TailNoDup
<1>3. Idle(s, k) /\ s.conn[k] \in ConnType
  BY <1>1, <1>2, Parts
<1>4. s.conn[k].st # "none" /\ s.conn[k].watch = "keep" /\ ~Used(s, k) /\ k[1] = "tcp" /\ Made(s, k) /\ ~Free(s, k)
  BY <1>2, <1>3 DEF TabOk, Kept, Placed
<1>5. IdleDetach([s EXCEPT !.keep = Tail(@)], k) = u
  BY <1>1, <1>2, <1>4 DEF IdleDetach, WType
<1>6. /\ c \in ConnType /\ c.timer = FALSE /\ c.watch = None /\ c.act = s.conn[k].act /\ c.late = s.conn[k].late
      /\ c.in = s.conn[k].in /\ c.owes = s.conn[k].owes
  BY <1>3 DEF ConnType
<1> HIDE DEF c, k
<1>7. /\ u \in WType /\ u.act = s.act /\ u.hash = s.hash /\ u.udp = s.udp /\ u.pool = s.pool /\ u.total = s.total
      /\ u.keep = Tail(s.keep) /\ u.conn[k] = c /\ \A l \in Conns \ {k} : u.conn[l] = s.conn[l]
  BY <1>1, <1>2, <1>6 DEF WType
<1> HIDE DEF u
<1>8. \A l \in Conns : /\ Idle(u, l) <=> Idle(s, l) /\ l # k
                       /\ Free(u, l) <=> Free(s, l)
                       /\ Made(u, l) <=> Made(s, l)
                       /\ Used(u, l) <=> Used(s, l)
  <2> SUFFICES ASSUME NEW l \in Conns
               PROVE  /\ Idle(u, l) <=> Idle(s, l) /\ l # k
                      /\ Free(u, l) <=> Free(s, l)
                      /\ Made(u, l) <=> Made(s, l)
                      /\ Used(u, l) <=> Used(s, l)
    OBVIOUS
  <2>1. Idle(u, l) <=> In(Tail(s.keep), l)
    BY <1>7 DEF Idle, In
  <2>2. u.conn[l].act = s.conn[l].act
    BY <1>6, <1>7
  <2> QED BY <1>1, <1>2, <1>7, <2>1, <2>2 DEF Free, Made, Used
<1>9. Placed(u, {k})
  <2>1. Placed(s, {})
    BY DEF TabOk
  <2>2. NoDup(u.keep) /\ \A d \in Kinds : NoDup(u.pool[d]) /\ \A i \in DOMAIN u.pool[d] : u.pool[d][i][1] = d
    BY <1>2, <1>7, <2>1 DEF Placed
  <2> QED BY <1>3, <1>4, <1>8, <2>1, <2>2 DEF Placed
<1>10. ~u.conn[k].late => u.conn[k].in = <<>> /\ u.conn[k].owes = <<>>
  BY <1>2, <1>3, <1>6, <1>7 DEF TabOk, Kept
<1>11. GotOk(s, "tcp", k, u)
  BY <1>2, <1>4, <1>6, <1>7, <1>8, <1>9, <1>10 DEF GotOk
<1> QED BY <1>5, <1>11 DEF k

\* A connection is taken from its pool.
LEMMA TakePool ==
    ASSUME NEW s, TabOk(s), NEW d \in Kinds, s.pool[d] # <<>>
    PROVE  GotOk(s, d, Head(s.pool[d]), [s EXCEPT !.pool[d] = Tail(@)])
<1> DEFINE k == Head(s.pool[d])
           q == s.pool[d]
           u == [s EXCEPT !.pool[d] = Tail(@)]
<1>1. /\ s \in WType /\ q \in Seq(Conns) /\ NoDup(q) /\ \A e : In(q, e) => e \in Conns /\ e[1] = d
      /\ \A l \in Conns : Free(s, l) <=> In(s.pool[l[1]], l)
  BY TabLists
<1>2. /\ Tail(q) \in Seq(Conns) /\ k \in Conns /\ In(q, k) /\ NoDup(Tail(q))
      /\ \A e : In(Tail(q), e) <=> In(q, e) /\ e # k
  BY <1>1, TailNoDup
<1> DEFINE p == Tail(q)
<1>3. k[1] = d /\ Free(s, k)
  BY <1>1, <1>2
<1>4. ~Used(s, k) /\ ~Idle(s, k) /\ Made(s, k) /\ s.conn[k] = NewConn
  BY <1>2, <1>3 DEF TabOk, Placed, Kept
<1>5. /\ u.act = s.act /\ u.hash = s.hash /\ u.udp = s.udp /\ u.keep = s.keep /\ u.total = s.total
      /\ u.conn = s.conn /\ u.pool[d] = p /\ \A e \in Kinds \ {d} : u.pool[e] = s.pool[e]
  BY <1>1 DEF WType
<1>6. p \in Seq(Conns) /\ NoDup(p) /\ \A e : In(p, e) <=> In(q, e) /\ e # k
  BY <1>2
<1>7. u \in WType
  BY <1>1, <1>6 DEF WType
<1> HIDE DEF u, k, p, q
<1>8. \A l \in Conns : /\ Idle(u, l) <=> Idle(s, l)
                       /\ Free(u, l) <=> Free(s, l) /\ l # k
                       /\ Made(u, l) <=> Made(s, l)
                       /\ Used(u, l) <=> Used(s, l)
  <2> SUFFICES ASSUME NEW l \in Conns
               PROVE  /\ Idle(u, l) <=> Idle(s, l)
                      /\ Free(u, l) <=> Free(s, l) /\ l # k
                      /\ Made(u, l) <=> Made(s, l)
                      /\ Used(u, l) <=> Used(s, l)
    OBVIOUS
  <2>1. Free(u, l) <=> In(u.pool[l[1]], l)
    BY DEF Free, In
  <2>2. l[1] \in Kinds
    BY DEF Conns
  <2>3. Free(u, l) <=> Free(s, l) /\ l # k
    <3>1. CASE l[1] = d
      BY <1>1, <1>5, <1>6, <2>1, <3>1 DEF q
    <3>2. CASE l[1] # d
      BY <1>1, <1>3, <1>5, <2>1, <2>2, <3>2
    <3> QED BY <3>1, <3>2
  <2> QED BY <1>5, <2>3 DEF Idle, Made, Used
<1>9. Placed(u, {k})
  <2>1. Placed(s, {})
    BY DEF TabOk
  <2>2. ASSUME NEW e \in Kinds PROVE NoDup(u.pool[e]) /\ \A i \in DOMAIN u.pool[e] : u.pool[e][i][1] = e
    <3>1. CASE e # d
      BY <1>5, <2>1, <3>1 DEF Placed
    <3>2. CASE e = d
      <4>1. NoDup(u.pool[e])
        BY <1>5, <1>6, <3>2
      <4>2. \A i \in DOMAIN u.pool[e] : In(q, u.pool[e][i])
        BY <1>5, <1>6, <3>2 DEF In
      <4> QED BY <1>1, <3>2, <4>1, <4>2
    <3> QED BY <3>1, <3>2
  <2>3. NoDup(u.keep)
    BY <1>5, <2>1 DEF Placed
  <2> QED BY <1>3, <1>4, <1>8, <2>1, <2>2, <2>3 DEF Placed
<1>10. GotOk(s, d, k, u)
  BY <1>2, <1>3, <1>4, <1>5, <1>7, <1>8, <1>9, NewConnType DEF GotOk
<1> QED BY <1>10 DEF k, u

\* With an action that has no connection and no connection of the kind to spare, there
\* are fewer connections of the kind than actions.
LEMMA Spare ==
    ASSUME NEW s, TabOk(s), NEW d \in Kinds, NEW a \in Acts, s.act[a].conn = None,
           s.pool[d] = <<>>, d # "tcp" \/ s.keep = <<>>
    PROVE  s.total[d] \in Nat /\ s.total[d] + 1 \in 1..Cardinality(Acts)
<1> DEFINE n == Cardinality(Acts)
           T == Acts \ {a}
<1>1. IsFiniteSet(Acts) /\ n \in Nat /\ IsFiniteSet(T) /\ Cardinality(T) = n - 1
  BY MsgAssumption, FS_CardinalityType, FS_RemoveElement
<1>2. s.total[d] \in Nat /\ s \in WType
  BY Parts DEF TabOk
<1>3. ASSUME s.total[d] >= n PROVE FALSE
  <2>1. ASSUME NEW i \in 1..n PROVE /\ <<d, i>> \in Conns /\ s.conn[<<d, i>>].act \in T
                                    /\ s.act[s.conn[<<d, i>>].act].conn = <<d, i>>
    <3>1. <<d, i>> \in Conns /\ <<d, i>>[1] = d /\ <<d, i>>[2] = i
      BY DEF Conns
    <3>2. Made(s, <<d, i>>)
      BY <1>1, <1>2, <1>3, <3>1 DEF Made
    <3>3. ~Free(s, <<d, i>>)
      BY <3>1 DEF Free
    <3>4. ~Idle(s, <<d, i>>)
      <4>1. Idle(s, <<d, i>>) => d = "tcp"
        BY <3>1 DEF TabOk, Placed
      <4>2. s.keep = <<>> => ~Idle(s, <<d, i>>)
        BY DEF Idle
      <4> QED BY <4>1, <4>2
    <3>5. Used(s, <<d, i>>)
      BY <3>1, <3>2, <3>3, <3>4 DEF TabOk, Placed
    <3>6. s.act[s.conn[<<d, i>>].act].conn = <<d, i>>
      BY <3>1, <3>5 DEF TabOk, Paired
    <3>7. s.conn[<<d, i>>].act \in Acts
      BY <1>2, <3>1, <3>5, Parts DEF ConnType, Used
    <3>8. <<d, i>> # None
      BY <3>1, MsgAssumption
    <3> QED BY <3>1, <3>6, <3>7, <3>8
  <2> DEFINE f == [i \in 1..n |-> s.conn[<<d, i>>].act]
  <2>2. f \in [1..n -> T]
    BY <2>1
  <2>3. \A i, j \in 1..n : f[i] = f[j] => i = j
    <3> SUFFICES ASSUME NEW i \in 1..n, NEW j \in 1..n, f[i] = f[j] PROVE i = j
      OBVIOUS
    <3>1. <<d, i>> = <<d, j>>
      BY <2>1
    <3> QED BY <3>1
  <2>4. IsFiniteSet(1..n) /\ Cardinality(1..n) = n
    BY <1>1, FS_Interval
  <2>5. Cardinality(T) < Cardinality(1..n)
    BY <1>1, <2>4
  <2> HIDE DEF f, T, n
  <2>6. \E i, j \in 1..n : i # j /\ f[i] = f[j]
    BY <1>1, <2>2, <2>4, <2>5, FS_PigeonHole
  <2> QED BY <2>3, <2>6
<1> QED BY <1>1, <1>2, <1>3

\* A new connection.
LEMMA TakeNew ==
    ASSUME NEW s, TabOk(s), NEW d \in Kinds, NEW a \in Acts, s.act[a].conn = None,
           s.pool[d] = <<>>, d # "tcp" \/ s.keep = <<>>
    PROVE  GotOk(s, d, <<d, s.total[d] + 1>>, [s EXCEPT !.total[d] = @ + 1])
<1> DEFINE n == s.total[d] + 1
           k == <<d, n>>
           u == [s EXCEPT !.total[d] = @ + 1]
<1>1. s.total[d] \in Nat /\ n \in 1..Cardinality(Acts) /\ n \in Nat
  BY Spare
<1>2. s \in WType
  BY DEF TabOk
<1>3. /\ u.act = s.act /\ u.hash = s.hash /\ u.udp = s.udp /\ u.keep = s.keep /\ u.pool = s.pool
      /\ u.conn = s.conn /\ u.total[d] = n /\ \A e \in Kinds \ {d} : u.total[e] = s.total[e]
  BY <1>2 DEF WType
<1>4. u \in WType
  BY <1>1, <1>2 DEF WType
<1>5. k \in Conns /\ k[1] = d /\ k[2] = n
  BY <1>1 DEF Conns
<1>6. ~Made(s, k) /\ Made(u, k)
  BY <1>1, <1>3, <1>5 DEF Made
<1> HIDE DEF u
<1>7. \A l \in Conns : /\ Idle(u, l) <=> Idle(s, l)
                       /\ Free(u, l) <=> Free(s, l)
                       /\ Made(u, l) <=> Made(s, l) \/ l = k
                       /\ Used(u, l) <=> Used(s, l)
  <2> SUFFICES ASSUME NEW l \in Conns PROVE Made(u, l) <=> Made(s, l) \/ l = k
    BY <1>3 DEF Idle, Free, Used
  <2>1. l[1] \in Kinds /\ l[2] \in Nat /\ l = <<l[1], l[2]>>
    BY DEF Conns
  <2>2. CASE l[1] # d
    BY <1>3, <1>5, <2>1, <2>2 DEF Made
  <2>3. CASE l[1] = d
    <3>1. l[2] <= n <=> l[2] <= s.total[d] \/ l[2] = n
      BY <1>1, <2>1
    <3>2. l = k <=> l[2] = n
      BY <2>1, <2>3
    <3> QED BY <1>3, <2>3, <3>1, <3>2 DEF Made
  <2> QED BY <2>2, <2>3
<1>8. ~Used(s, k) /\ ~Idle(s, k) /\ ~Free(s, k) /\ s.conn[k] = NewConn
  <2>1. ~Used(s, k) /\ ~Idle(s, k) /\ ~Free(s, k)
    BY <1>5, <1>6 DEF TabOk, Placed
  <2> QED BY <1>5, <2>1 DEF TabOk, Kept
<1> HIDE DEF k, n
<1>9. Placed(u, {k})
  <2>1. Placed(s, {})
    BY DEF TabOk
  <2>2. NoDup(u.keep) /\ \A e \in Kinds : NoDup(u.pool[e]) /\ \A i \in DOMAIN u.pool[e] : u.pool[e][i][1] = e
    BY <1>3, <2>1 DEF Placed
  <2> QED BY <1>7, <1>8, <2>1, <2>2 DEF Placed
<1>10. GotOk(s, d, k, u)
  BY <1>3, <1>4, <1>5, <1>6, <1>7, <1>8, <1>9, NewConnType DEF GotOk
<1> QED BY <1>10 DEF k, u, n

\* GetConnection: a connection nobody has.
LEMMA GetConnOk ==
    ASSUME NEW s, TabOk(s), NEW d \in Kinds, NEW a \in Acts, s.act[a].conn = None
    PROVE  GotOk(s, d, GetConnection(s, d).k, GetConnection(s, d).s)
<1> DEFINE c == GetConnection(s, d)
<1>1. CASE d = "tcp" /\ s.keep # <<>>
  <2>1. c = [k |-> Head(s.keep), s |-> IdleDetach([s EXCEPT !.keep = Tail(@)], Head(s.keep))]
    BY <1>1 DEF GetConnection
  <2>2. c.k = Head(s.keep) /\ c.s = IdleDetach([s EXCEPT !.keep = Tail(@)], Head(s.keep))
    BY <2>1
  <2>3. GotOk(s, "tcp", Head(s.keep), IdleDetach([s EXCEPT !.keep = Tail(@)], Head(s.keep)))
    BY <1>1, TakeIdle
  <2> QED BY <1>1, <2>2, <2>3
<1>2. CASE ~(d = "tcp" /\ s.keep # <<>>) /\ s.pool[d] # <<>>
  <2>1. c = [k |-> Head(s.pool[d]), s |-> [s EXCEPT !.pool[d] = Tail(@)]]
    BY <1>2 DEF GetConnection, AllocPtr
  <2>2. c.k = Head(s.pool[d]) /\ c.s = [s EXCEPT !.pool[d] = Tail(@)]
    BY <2>1
  <2>3. GotOk(s, d, Head(s.pool[d]), [s EXCEPT !.pool[d] = Tail(@)])
    BY <1>2, TakePool
  <2> QED BY <2>2, <2>3
<1>3. CASE ~(d = "tcp" /\ s.keep # <<>>) /\ s.pool[d] = <<>>
  <2>1. c = [k |-> <<d, s.total[d] + 1>>, s |-> [s EXCEPT !.total[d] = @ + 1]]
    BY <1>3 DEF GetConnection, AllocPtr
  <2>2. c.k = <<d, s.total[d] + 1>> /\ c.s = [s EXCEPT !.total[d] = @ + 1]
    BY <2>1
  <2>3. GotOk(s, d, <<d, s.total[d] + 1>>, [s EXCEPT !.total[d] = @ + 1])
    BY <1>3, TakeNew
  <2> QED BY <2>2, <2>3
<1> QED BY <1>1, <1>2, <1>3

\* v is u with connection k given to action a.
Given(s, u, v, a, k) ==
    /\ v \in WType /\ v.keep = u.keep /\ v.pool = u.pool /\ v.total = u.total /\ v.udp = s.udp
    /\ v.act[a].conn = k /\ \A b \in Acts \ {a} : v.act[b] = s.act[b] /\ (b \in v.hash <=> b \in s.hash)
    /\ v.conn[k].act = a /\ v.conn[k].timer = FALSE /\ v.conn[k].watch = None
    /\ \A l \in Conns \ {k} : v.conn[l] = u.conn[l]

\* The action has the connection, and nothing else changes.
LEMMA GivenOk ==
    ASSUME NEW s, NEW u, NEW v, NEW a \in Acts, NEW k, TabOk(s), s.act[a].conn = None,
           GotOk(s, kind[a], k, u), Given(s, u, v, a, k), \A l \in s.udp.wlist : l \in Conns /\ Used(s, l)
    PROVE  TabOk(v) /\ Quiet(s, v) /\ \A b \in Acts \ {a} : SameAct(s, v, b)
<1>1. /\ k \in Conns /\ k[1] = kind[a] /\ ~Used(s, k) /\ Made(u, k) /\ Placed(u, {k}) /\ u.act = s.act
      /\ \A l \in Conns \ {k} : u.conn[l] = s.conn[l] /\ (Idle(u, l) <=> Idle(s, l))
  BY DEF GotOk
<1>2. None \notin Acts /\ None # "keep" /\ None # "thread" /\ None # "hung" /\ k # None /\ Used(v, k)
  BY <1>1, MsgAssumption DEF Given, Used
<1>3. \A b \in Acts : s.act[b].conn # None => s.act[b].conn \in Conns
  BY Parts DEF TabOk, ActType
<1>4. \A l \in Conns : Used(s, l) => s.conn[l].act \in Acts
  BY Parts DEF TabOk, ConnType, Used
<1>5. \A l \in Conns \ {k} : v.conn[l] = s.conn[l]
  BY <1>1 DEF Given
<1>6. \A b \in Acts \ {a} : s.act[b].conn # k
  BY <1>1, <1>2 DEF TabOk, Paired, Used
<1>7. Paired(v)
  <2>1. ASSUME NEW b \in Acts, v.act[b].conn # None
        PROVE  v.conn[v.act[b].conn].act = b /\ v.act[b].conn[1] = kind[b]
    <3>1. CASE b = a
      BY <1>1, <3>1 DEF Given
    <3>2. CASE b # a
      BY <1>3, <1>5, <1>6, <2>1, <3>2 DEF Given, TabOk, Paired
    <3> QED BY <3>1, <3>2
  <2>2. ASSUME NEW l \in Conns, Used(v, l) PROVE v.act[v.conn[l].act].conn = l
    <3>1. CASE l = k
      BY <3>1 DEF Given
    <3>2. CASE l # k
      <4>1. Used(s, l) /\ v.conn[l].act = s.conn[l].act
        BY <1>5, <2>2, <3>2 DEF Used
      <4>2. s.conn[l].act \in Acts /\ s.act[s.conn[l].act].conn = l
        BY <1>4, <4>1 DEF TabOk, Paired
      <4>3. l # None
        BY MsgAssumption
      <4> QED BY <4>1, <4>2, <4>3 DEF Given
    <3> QED BY <3>1, <3>2
  <2> QED BY <2>1, <2>2 DEF Paired
<1>8. \A l \in Conns : /\ Idle(v, l) <=> Idle(u, l)
                       /\ Free(v, l) <=> Free(u, l)
                       /\ Made(v, l) <=> Made(u, l)
                       /\ Used(v, l) <=> Used(u, l) \/ l = k
  <2>1. \A l \in Conns : Used(v, l) <=> Used(u, l) \/ l = k
    BY <1>2 DEF Given, Used
  <2> QED BY <2>1 DEF Given, Idle, Free, Made
<1>9. Placed(v, {})
  <2>1. NoDup(v.keep) /\ \A d \in Kinds : NoDup(v.pool[d]) /\ \A i \in DOMAIN v.pool[d] : v.pool[d][i][1] = d
    BY <1>1 DEF Placed, Given
  <2> QED BY <1>1, <1>8, <2>1 DEF Placed
<1>10. Kept(v)
  <2> SUFFICES ASSUME NEW l \in Conns
               PROVE  /\ v.conn[l].timer <=> Idle(v, l)
                      /\ v.conn[l].watch = "keep" <=> Idle(v, l)
                      /\ Idle(v, l) => v.conn[l].st # "none" /\ v.conn[l].buf = None
                      /\ Idle(v, l) /\ ~v.conn[l].late => v.conn[l].in = <<>> /\ v.conn[l].owes = <<>>
                      /\ ~Idle(v, l) /\ ~Used(v, l) => v.conn[l] = NewConn
    BY DEF Kept
  <2>1. CASE l = k
    <3>1. ~Idle(v, k)
      BY <1>1, <1>8 DEF Placed
    <3> QED BY <1>2, <2>1, <3>1 DEF Given
  <2>2. CASE l # k
    <3>1. v.conn[l] = s.conn[l] /\ (Idle(v, l) <=> Idle(s, l)) /\ (Used(v, l) <=> Used(s, l))
      BY <1>1, <1>5, <1>8, <2>2 DEF Used
    <3> QED BY <3>1 DEF TabOk, Kept
  <2> QED BY <2>1, <2>2
<1>11. Quiet(s, v)
  BY <1>1, <1>2, <1>5 DEF Quiet, Given
<1>12. \A b \in Acts \ {a} : SameAct(s, v, b)
  BY <1>3, <1>5, <1>6, SMTT(30) DEF SameAct, Given
<1> QED BY <1>7, <1>9, <1>10, <1>11, <1>12 DEF TabOk, Given

\* What is known when a thread is about to take a connection for an action.
LEMMA InitFacts ==
    ASSUME IInv, NEW t \in Threads, One(t, "init")
    PROVE  /\ A(t) \in Mine(t) /\ A(t) \in Acts /\ Current(t, th[t], A(t)) /\ w.act[A(t)] \in ActType /\ ActOk(w, A(t))
           /\ w.act[A(t)].conn = None /\ w.act[A(t)].flag = "undef" /\ (~KeepActs => A(t) \notin w.hash)
           /\ TabOk(w) /\ w \in WType /\ ThreadOk(t, th[t], w) /\ th[t] \in ThType /\ th \in [Threads -> ThType] /\ InputOk
           /\ th[t].pc = "init" /\ th[t].poll = "no" /\ cur = t /\ th[t].i \in DOMAIN calls[t][th[t].call]
           /\ th[t].call \in DOMAIN calls[t] /\ Busy(th[t])
           /\ \A l \in w.udp.wlist : l \in Conns /\ Used(w, l)
<1> DEFINE r == th[t]
<1>1. /\ ThreadOk(t, r, w) /\ r \in ThType /\ th \in [Threads -> ThType] /\ InputOk /\ TabOk(w) /\ w \in WType
      /\ \A b \in Acts : ActOk(w, b)
  BY DEF IInv, ThreadOk, TabOk
<1>2. r.pc = "init" /\ r.poll = "no" /\ cur = t /\ r.i <= Len(calls[t][r.call]) /\ A(t) = calls[t][r.call][r.i]
  BY DEF One, At, Lst, A
<1>3. \A l \in w.udp.wlist : l \in Conns /\ Used(w, l)
  BY <1>1, Parts DEF IInv, WatchOk, UdpType
<1> HIDE DEF r
<1>4. Busy(r) /\ r.i \in Nat \ {0} /\ r.call \in DOMAIN calls[t]
  BY <1>1, <1>2 DEF Busy, ThType, ThreadOk
<1>5. r.i \in DOMAIN calls[t][r.call]
  BY <1>1, <1>2, <1>4, CallTypes
<1>6. StageOk(r, A(t), w.act[A(t)], r.call, r.i, TRUE, w.hash)
  BY <1>1, <1>2, <1>4, <1>5 DEF ThreadOk
<1>7. A(t) \in Mine(t) /\ A(t) \in Acts /\ Current(t, r, A(t))
  BY <1>1, <1>2, <1>4, <1>5, MineOf DEF Mine, Current
<1>8. ~(r.i < r.i)
  BY <1>4, SMTT(30)
<1>9. w.act[A(t)].conn = None /\ w.act[A(t)].flag = "undef" /\ (~KeepActs => A(t) \notin w.hash)
  BY <1>2, <1>6, <1>8 DEF StageOk
<1>10. w.act[A(t)] \in ActType /\ ActOk(w, A(t))
  BY <1>1, <1>7, Parts
<1> QED BY <1>1, <1>2, <1>3, <1>4, <1>5, <1>7, <1>9, <1>10, Zenon DEF r

\* The table with an action, a connection and the session table changed.
Give(u, a, x, k, c, H) == [u EXCEPT !.act[a] = x, !.conn[k] = c, !.hash = H]

\* The sets H and G differ in a only.
Agree(H, G, a) == \A b \in Acts \ {a} : b \in H <=> b \in G

\* Give, part by part.
Gave(v, a, x, k, c, H) == v.act[a] = x /\ v.conn[k] = c /\ v.hash = H

\* Give hands the connection to the action.
LEMMA GiveGiven ==
    ASSUME NEW s, NEW u, NEW d, NEW k, GotOk(s, d, k, u), NEW a \in Acts, NEW x \in ActType, NEW c \in ConnType,
           NEW H \in SUBSET Acts, x.conn = k, c.act = a, c.timer = FALSE, c.watch = None, Agree(H, s.hash, a)
    PROVE  Given(s, u, Give(u, a, x, k, c, H), a, k) /\ Gave(Give(u, a, x, k, c, H), a, x, k, c, H)
<1> DEFINE v == Give(u, a, x, k, c, H)
<1>1. u \in WType /\ k \in Conns /\ u.act = s.act /\ u.udp = s.udp
  BY DEF GotOk
<1>2. /\ v \in WType /\ v.keep = u.keep /\ v.pool = u.pool /\ v.total = u.total /\ v.udp = u.udp
      /\ v.act[a] = x /\ v.conn[k] = c /\ v.hash = H
      /\ \A b \in Acts \ {a} : v.act[b] = u.act[b]
      /\ \A l \in Conns \ {k} : v.conn[l] = u.conn[l]
  BY <1>1 DEF Give, WType
<1> HIDE DEF v
<1>3. Given(s, u, v, a, k)
  BY <1>1, <1>2 DEF Given, Agree
<1> QED BY <1>1, <1>2, <1>3 DEF v, Gave

\* The action with its new connection.
LEMMA GivenAct ==
    ASSUME NEW s, NEW u, NEW v, NEW a \in Acts, NEW k, ActOk(s, a), s.act[a].flag = "undef", Listed(a),
           GotOk(s, kind[a], k, u), Given(s, u, v, a, k), v.act[a].flag = "undef", v.act[a] \in ActType,
           a \in v.hash => kind[a] = "session" /\ v.act[a].sconn \in Conns /\ v.act[a].sconn[1] = "session",
           a \in v.hash /\ ~KeepActs => v.act[a].sconn = k,
           v.conn[k].in = u.conn[k].in, v.conn[k].owes = u.conn[k].owes, v.conn[k].ev = u.conn[k].ev,
           v.conn[k].late = u.conn[k].late, v.conn[k].buf = u.conn[k].buf \/ v.conn[k].buf = "send"
    PROVE  ActOk(v, a)
<1>1. a \notin s.udp.asked /\ a \notin s.udp.in /\ v.udp = s.udp /\ v.act[a].conn = k
  BY DEF ActOk, Given
<1>2. kind[a] = "session" => v.conn[k].ev = {} /\ v.conn[k].buf \notin Acts
  <2>1. kind[a] = "session" => u.conn[k] = NewConn
    BY DEF GotOk
  <2>2. "send" \notin Acts /\ None \notin Acts
    BY MsgAssumption
  <2> QED BY <2>1, <2>2, NewConnType
<1>3. kind[a] = "session" => Session(a, v.act[a], v.conn[k], v.udp.asked)
  BY <1>2 DEF Session
<1>4. kind[a] # "session" /\ ~v.conn[k].late => Stream(a, v.act[a], v.conn[k])
  BY DEF GotOk, Stream
<1> QED BY <1>1, <1>3, <1>4 DEF ActOk

\* The thread after it took a connection for one action.
LEMMA InitThread ==
    ASSUME InputOk, NEW t \in Threads, NEW r, NEW s, NEW u, ThreadOk(t, r, s), r.pc = "init", r.poll = "no",
           r.i \in DOMAIN calls[t][r.call], r.call \in DOMAIN calls[t], NEW a \in Acts, Current(t, r, a),
           u.act[a].conn # None, u.act[a].flag = "undef", \A b \in Acts \ {a} : SameAct(s, u, b)
    PROVE  ThreadOk(t, StepOf(r), u)
<1> DEFINE q == StepOf(r)
<1>1. /\ r \in ThType /\ r.i \in Nat \ {0} /\ r.call \in Nat /\ Busy(r) /\ r.call \in 0..Len(calls[t])
      /\ Len(calls[t][r.call]) \in Nat /\ DOMAIN calls[t][r.call] = 1..Len(calls[t][r.call]) /\ WaitOk(t, r, s)
  BY CallTypes DEF ThreadOk, ThType, Busy
<1>2. q \in ThType /\ q.call = r.call /\ q.pc = "init" /\ q.i = r.i + 1 /\ q.clk = r.clk /\ q.poll = "no" /\ q.wait = r.wait
  BY <1>1, OfTypes
<1> HIDE DEF q
<1>3. Busy(q) /\ q.i <= Len(calls[t][r.call]) + 1
  BY <1>1, <1>2 DEF Busy
<1>4. r.wait = <<>>
  BY <1>1 DEF WaitOk
<1>5. WaitOk(t, q, u)
  BY <1>2, <1>4, NoWait
<1>6. ASSUME NEW e \in DOMAIN calls[t], NEW j \in DOMAIN calls[t][e]
      PROVE  StageOk(q, calls[t][e][j], u.act[calls[t][e][j]], e, j, Busy(q) /\ e = q.call, u.hash)
  <2>1. StageOk(r, calls[t][e][j], s.act[calls[t][e][j]], e, j, Busy(r) /\ e = r.call, s.hash)
    BY DEF ThreadOk
  <2>2. e \in Nat /\ j \in Nat
    BY CallTypes
  <2>3. CASE e = r.call /\ j = r.i
    <3>1. calls[t][e][j] = a
      BY <2>3 DEF Current
    <3>2. j < q.i
      BY <1>1, <1>2, <2>3, SMTT(30)
    <3> QED BY <1>2, <1>3, <2>3, <3>1, <3>2 DEF StageOk, Early
  <2>4. CASE ~(e = r.call /\ j = r.i)
    <3>1. calls[t][e][j] \in Acts /\ calls[t][e][j] # a
      <4>1. calls[t][e][j] # calls[t][r.call][r.i]
        BY <2>4, Once
      <4> QED BY <4>1, CallTypes DEF Current
    <3>2. SameAct(s, u, calls[t][e][j])
      BY <3>1
    <3>3. e = r.call => (j < q.i <=> j < r.i)
      BY <1>1, <1>2, <2>2, <2>4
    <3> QED BY <1>1, <1>2, <1>3, <2>1, <3>2, <3>3 DEF StageOk, SameAct
  <2> QED BY <2>3, <2>4
<1>7. ThreadOk(t, q, u)
  BY <1>1, <1>2, <1>3, <1>5, <1>6 DEF ThreadOk
<1> QED BY <1>7 DEF q

\* The action and the connection InitConnEnv sets, without and with a session, and
\* what it sets when it fails.
ActOf(y, k, bad)  == [y EXCEPT !.conn = k, !.err = bad]
SessOf(y, k, bad) == [y EXCEPT !.conn = k, !.sconn = k, !.err = bad]
LinkOf(y, k)      == [y EXCEPT !.conn = k]
SendOf(d, a)      == [d EXCEPT !.act = a, !.buf = "send"]
HeldOf(d, a)      == [d EXCEPT !.act = a]

\* The assignments: a connection is linked, the session is put into the table, encoding
\* may fail.
Link(u, a, k)   == [u EXCEPT !.conn[k].act = a, !.conn[k].buf = "send", !.act[a].conn = k]
Ses(u, a, k)    == [u EXCEPT !.act[a].sconn = k, !.hash = @ \cup {a}]
Enc(u, a, bad)  == [u EXCEPT !.act[a].err = bad]
BadOf(y, bad)   == [y EXCEPT !.err = bad]
Hold(u, a, k)   == [u EXCEPT !.conn[k].act = a, !.act[a].conn = k]

\* These assignments, each as one change of the table.
LEMMA GiveEach ==
    ASSUME NEW u \in WType, NEW a \in Acts, NEW k \in Conns,
           NEW y \in ActType, NEW d \in ConnType, NEW H
    PROVE  /\ Link(u, a, k) = Give(u, a, LinkOf(u.act[a], k), k, SendOf(u.conn[k], a), u.hash)
           /\ Hold(u, a, k) = Give(u, a, LinkOf(u.act[a], k), k, HeldOf(u.conn[k], a), u.hash)
           /\ Ses(Give(u, a, y, k, d, H), a, k) = Give(u, a, [y EXCEPT !.sconn = k], k, d, H \cup {a})
<1>1. u.act[a] \in ActType /\ u.conn[k] \in ConnType
  BY Parts
<1>2. Link(u, a, k) = Give(u, a, LinkOf(u.act[a], k), k, SendOf(u.conn[k], a), u.hash)
  BY <1>1 DEF Link, Give, WType, LinkOf, SendOf
<1>3. Hold(u, a, k) = Give(u, a, LinkOf(u.act[a], k), k, HeldOf(u.conn[k], a), u.hash)
  BY <1>1 DEF Hold, Give, WType, LinkOf, HeldOf
<1>4. Ses(Give(u, a, y, k, d, H), a, k) = Give(u, a, [y EXCEPT !.sconn = k], k, d, H \cup {a})
  BY ZenonT(30) DEF Ses, Give, WType
<1> QED BY <1>2, <1>3, <1>4

\* Encoding changes one field of the action.
LEMMA GiveEnc ==
    ASSUME NEW u \in WType, NEW a \in Acts, NEW k \in Conns, NEW bad, NEW y \in ActType, NEW d, NEW H
    PROVE  Enc(Give(u, a, y, k, d, H), a, bad) = Give(u, a, BadOf(y, bad), k, d, H)
BY ZenonT(30) DEF Enc, Give, WType, BadOf

\* InitConnEnv without and with a session, and its failure, as one change of the table.
LEMMA GiveSteps ==
    ASSUME NEW u \in WType, NEW a \in Acts, NEW k \in Conns, NEW bad \in BOOLEAN
    PROVE  /\ Enc(Link(u, a, k), a, bad) = Give(u, a, ActOf(u.act[a], k, bad), k, SendOf(u.conn[k], a), u.hash)
           /\ Enc(Ses(Link(u, a, k), a, k), a, bad)
                = Give(u, a, SessOf(u.act[a], k, bad), k, SendOf(u.conn[k], a), u.hash \cup {a})
           /\ Hold(u, a, k) = Give(u, a, LinkOf(u.act[a], k), k, HeldOf(u.conn[k], a), u.hash)
<1> DEFINE x == u.act[a]
           c == u.conn[k]
           l == LinkOf(x, k)
           d == SendOf(c, a)
           y == [l EXCEPT !.sconn = k]
<1>1. x \in ActType /\ c \in ConnType
  BY Parts
<1>2. l \in ActType /\ d \in ConnType
  BY <1>1 DEF LinkOf, SendOf, ActType, ConnType
<1>3. BadOf(l, bad) = ActOf(x, k, bad)
  BY <1>1 DEF BadOf, LinkOf, ActOf, ActType
<1>4. BadOf(y, bad) = SessOf(x, k, bad)
  BY <1>1 DEF BadOf, LinkOf, SessOf, ActType
<1>5. y \in ActType
  <2> HIDE DEF l
  <2> QED BY <1>2 DEF ActType
<1>6. /\ Link(u, a, k) = Give(u, a, l, k, d, u.hash)
      /\ Hold(u, a, k) = Give(u, a, l, k, HeldOf(c, a), u.hash)
  BY <1>1, GiveEach
<1> HIDE DEF x, c, l, d
<1>7. /\ Enc(Give(u, a, l, k, d, u.hash), a, bad) = Give(u, a, BadOf(l, bad), k, d, u.hash)
      /\ Ses(Give(u, a, l, k, d, u.hash), a, k) = Give(u, a, y, k, d, u.hash \cup {a})
  BY <1>2, GiveEach, GiveEnc
<1> HIDE DEF y
<1>8. Enc(Give(u, a, y, k, d, u.hash \cup {a}), a, bad) = Give(u, a, BadOf(y, bad), k, d, u.hash \cup {a})
  <2> DEFINE H == u.hash \cup {a}
  <2> HIDE DEF H
  <2>1. Enc(Give(u, a, y, k, d, H), a, bad) = Give(u, a, BadOf(y, bad), k, d, H)
    BY <1>5, GiveEnc
  <2> QED BY <2>1 DEF H
<1>9. Enc(Link(u, a, k), a, bad) = Give(u, a, ActOf(x, k, bad), k, d, u.hash)
  BY <1>3, <1>6, <1>7
<1>10. Enc(Ses(Link(u, a, k), a, k), a, bad) = Give(u, a, SessOf(x, k, bad), k, d, u.hash \cup {a})
  BY <1>4, <1>6, <1>7, <1>8
<1> QED BY <1>6, <1>9, <1>10 DEF x, c, l, d

\* The table after thread t took connection k for action a, which is x now, the
\* connection being c and the session table H.
Took(a, k, u, x, c, H) ==
    /\ x \in ActType /\ x.conn = k /\ x.flag = "undef"
    /\ c \in ConnType /\ c.act = a /\ c.timer = u.conn[k].timer /\ c.watch = u.conn[k].watch /\ c.in = u.conn[k].in
    /\ c.owes = u.conn[k].owes /\ c.ev = u.conn[k].ev /\ c.late = u.conn[k].late
    /\ c.buf = u.conn[k].buf \/ c.buf = "send"
    /\ \/ H = u.hash /\ x.sconn = u.act[a].sconn /\ (a \in H => KeepActs)
       \/ H = u.hash \cup {a} /\ x.sconn = k /\ kind[a] = "session"

\* What is true of that table.
LEMMA TookOk ==
    ASSUME IInv, NEW t \in Threads, One(t, "init"), NEW a, a = A(t), NEW k, NEW u, GotOk(w, kind[a], k, u),
           NEW x, NEW c, NEW H, Took(a, k, u, x, c, H), w' = Give(u, a, x, k, c, H)
    PROVE  /\ TabOk(w') /\ Quiet(w, w') /\ Local(w, w', t) /\ \A b \in Mine(t) : ActOk(w', b)
           /\ \A b \in Acts \ {a} : SameAct(w, w', b)
           /\ w'.act[a] = x /\ (a \in w'.hash <=> a \in H) /\ k # None
<1>1. /\ a \in Mine(t) /\ a \in Acts /\ ActOk(w, a) /\ w.act[a].conn = None /\ w.act[a].flag = "undef" /\ TabOk(w)
      /\ w \in WType /\ InputOk /\ \A l \in w.udp.wlist : l \in Conns /\ Used(w, l)
  BY InitFacts
<1>2. /\ u.act = w.act /\ u.hash = w.hash /\ k \in Conns /\ k[1] = kind[a] /\ u.conn[k].timer = FALSE
      /\ u.conn[k].watch = None /\ w.hash \subseteq Acts
  BY <1>1, Parts DEF GotOk
<1>3. H \in SUBSET Acts /\ Agree(H, w.hash, a)
  BY <1>1, <1>2 DEF Took, Agree
<1>4. /\ Given(w, u, w', a, k) /\ w'.act[a] = x /\ w'.conn[k] = c /\ w'.hash = H
  <2>1. x \in ActType /\ c \in ConnType /\ x.conn = k /\ c.act = a /\ c.timer = FALSE /\ c.watch = None
    BY <1>2 DEF Took
  <2> DEFINE v == Give(u, a, x, k, c, H)
  <2>2. Given(w, u, v, a, k) /\ Gave(v, a, x, k, c, H)
    BY <1>1, <1>3, <2>1, GiveGiven
  <2>3. w' = v
    OBVIOUS
  <2> HIDE DEF v
  <2> QED BY <2>2, <2>3 DEF Gave
<1>5. TabOk(w') /\ Quiet(w, w') /\ \A b \in Acts \ {a} : SameAct(w, w', b)
  BY <1>1, <1>4, GivenOk
<1>6. ActOk(w', a)
  <2>1. a \in H => kind[a] = "session" /\ x.sconn \in Conns /\ x.sconn[1] = "session"
    BY <1>1, <1>2 DEF Took, ActOk
  <2>2. a \in H /\ ~KeepActs => x.sconn = k
    BY DEF Took
  <2>3. Listed(a)
    BY <1>1, MineListed
  <2> QED BY <1>1, <1>4, <2>1, <2>2, <2>3, GivenAct, SMTT(30) DEF Took
<1>7. \A b \in Mine(t) : ActOk(w', b)
  <2> SUFFICES ASSUME NEW b \in Mine(t), b # a PROVE ActOk(w', b)
    BY <1>6
  <2>1. b \in Acts /\ ActOk(w, b)
    BY DEF Mine, IInv
  <2> QED BY <1>5, <2>1, SameActOk
<1>8. Local(w, w', t)
  BY <1>1, <1>5 DEF Local
<1> QED BY <1>2, <1>4, <1>5, <1>7, <1>8, MsgAssumption

\* The records of Took.
LEMMA TookFields ==
    ASSUME NEW a \in Acts, NEW k \in Conns, NEW y \in ActType, NEW d \in ConnType, NEW bad \in BOOLEAN, y.flag = "undef"
    PROVE  /\ LET x == ActOf(y, k, bad) IN x \in ActType /\ x.conn = k /\ x.flag = "undef" /\ x.sconn = y.sconn
           /\ LET x == SessOf(y, k, bad) IN x \in ActType /\ x.conn = k /\ x.flag = "undef" /\ x.sconn = k
           /\ LET x == LinkOf(y, k) IN x \in ActType /\ x.conn = k /\ x.flag = "undef" /\ x.sconn = y.sconn
           /\ LET c == SendOf(d, a) IN
              /\ c \in ConnType /\ c.act = a /\ c.timer = d.timer /\ c.watch = d.watch /\ c.in = d.in
              /\ c.owes = d.owes /\ c.ev = d.ev /\ c.late = d.late /\ c.buf = "send"
           /\ LET c == HeldOf(d, a) IN
              /\ c \in ConnType /\ c.act = a /\ c.timer = d.timer /\ c.watch = d.watch /\ c.in = d.in
              /\ c.owes = d.owes /\ c.ev = d.ev /\ c.late = d.late /\ c.buf = d.buf
BY DEF ActType, ConnType, ActOf, SessOf, LinkOf, SendOf, HeldOf

\* InitConnEnv keeps the invariant.
LEMMA InitConnEnvOk == ASSUME IInv, NEW t \in Threads, InitConnEnv(t) PROVE IInv'
<1> DEFINE a == A(t)
           r == th[t]
           k == GetConnection(w, kind[a]).k
           u == GetConnection(w, kind[a]).s
<1>0. One(t, "init") /\ Step(t) /\ UNCHANGED <<cur, user>>
  BY Zenon DEF InitConnEnv
<1>1. /\ a \in Acts /\ Current(t, r, a) /\ w.act[a].conn = None /\ w.act[a].flag = "undef" /\ TabOk(w)
      /\ (~KeepActs => a \notin w.hash)
      /\ w \in WType /\ InputOk /\ ThreadOk(t, r, w) /\ r.pc = "init" /\ r.poll = "no" /\ cur = t
      /\ r.i \in DOMAIN calls[t][r.call] /\ r.call \in DOMAIN calls[t] /\ th \in [Threads -> ThType]
  BY <1>0, InitFacts
<1>2. kind[a] \in Kinds
  BY <1>1 DEF InputOk
<1>3. GotOk(w, kind[a], k, u)
  BY <1>1, <1>2, GetConnOk, SMTT(30)
<1>4. u \in WType /\ k \in Conns /\ u.act = w.act /\ u.hash = w.hash /\ u.act[a] \in ActType /\ u.conn[k] \in ConnType
  BY <1>1, <1>3, Parts, SMTT(30) DEF GotOk
<1>5. PICK bad \in BOOLEAN :
         w' = IF kind[a] # "session" THEN Enc(Link(u, a, k), a, bad) ELSE Enc(Ses(Link(u, a, k), a, k), a, bad)
  BY Zenon DEF InitConnEnv, Enc, Link, Ses
<1> HIDE DEF a, k, u, r
<1>6. \E x, c, H : Took(a, k, u, x, c, H) /\ w' = Give(u, a, x, k, c, H)
  <2> DEFINE c == SendOf(u.conn[k], a)
  <2>1. CASE kind[a] # "session"
    <3> DEFINE x == ActOf(u.act[a], k, bad)
    <3>1. w' = Give(u, a, x, k, c, u.hash)
      BY <1>1, <1>4, <1>5, <2>1, GiveSteps
    <3>2. Took(a, k, u, x, c, u.hash)
      BY <1>1, <1>4, TookFields DEF Took
    <3> HIDE DEF x, c
    <3> QED BY <3>1, <3>2
  <2>2. CASE kind[a] = "session"
    <3> DEFINE x == SessOf(u.act[a], k, bad)
    <3>1. w' = Give(u, a, x, k, c, u.hash \cup {a})
      BY <1>1, <1>4, <1>5, <2>2, GiveSteps, ZenonT(30)
    <3>2. Took(a, k, u, x, c, u.hash \cup {a})
      BY <1>1, <1>4, <2>2, TookFields DEF Took
    <3> HIDE DEF x, c
    <3> QED BY <3>1, <3>2
  <2> QED BY <2>1, <2>2
<1>7. PICK x, c, H : Took(a, k, u, x, c, H) /\ w' = Give(u, a, x, k, c, H)
  BY <1>6
<1>8. /\ TabOk(w') /\ Quiet(w, w') /\ Local(w, w', t) /\ \A b \in Mine(t) : ActOk(w', b)
      /\ \A b \in Acts \ {a} : SameAct(w, w', b)
      /\ w'.act[a] = x /\ k # None
  <2>1. a = A(t)
    BY DEF a
  <2> QED BY <1>0, <1>3, <1>7, <2>1, TookOk
<1>9. th' = [th EXCEPT ![t] = StepOf(r)]
  BY <1>0, <1>1, OfSteps DEF r
<1>10. ThreadOk(t, StepOf(r), w')
  <2>1. w'.act[a].conn # None /\ w'.act[a].flag = "undef"
    BY <1>7, <1>8 DEF Took
  <2> QED BY <1>1, <1>8, <2>1, InitThread
<1> QED BY <1>0, <1>1, <1>8, <1>9, <1>10, RunOk DEF r

\* Its failure keeps it.
LEMMA InitFailsOk == ASSUME IInv, NEW t \in Threads, InitFails(t) PROVE IInv'
<1> DEFINE a == A(t)
           r == th[t]
           k == GetConnection(w, kind[a]).k
           u == GetConnection(w, kind[a]).s
<1>0. One(t, "init") /\ GoTo(t, "reset") /\ UNCHANGED <<cur, user>>
  BY DEF InitFails
<1>1. /\ a \in Acts /\ Current(t, r, a) /\ w.act[a].conn = None /\ w.act[a].flag = "undef" /\ TabOk(w)
      /\ (~KeepActs => a \notin w.hash)
      /\ w \in WType /\ InputOk /\ ThreadOk(t, r, w) /\ r.pc = "init" /\ r.poll = "no" /\ cur = t
      /\ r.i \in DOMAIN calls[t][r.call] /\ r.call \in DOMAIN calls[t] /\ th \in [Threads -> ThType] /\ Busy(r)
  BY <1>0, InitFacts
<1>2. kind[a] \in Kinds
  BY <1>1 DEF InputOk
<1>3. GotOk(w, kind[a], k, u)
  BY <1>1, <1>2, GetConnOk, SMTT(30)
<1>4. u \in WType /\ k \in Conns /\ u.act = w.act /\ u.hash = w.hash /\ u.act[a] \in ActType /\ u.conn[k] \in ConnType
  BY <1>1, <1>3, Parts DEF GotOk
<1>5. w' = Hold(u, a, k)
  BY DEF InitFails, Hold
<1> HIDE DEF a, k, u, r
<1>6. \E x, c, H : Took(a, k, u, x, c, H) /\ H = u.hash /\ w' = Give(u, a, x, k, c, H)
  <2> DEFINE c == HeldOf(u.conn[k], a)
             x == LinkOf(u.act[a], k)
  <2>0. PICK bad \in BOOLEAN : TRUE
    OBVIOUS
  <2>1. w' = Give(u, a, x, k, c, u.hash)
    BY <1>1, <1>4, <1>5, <2>0, GiveSteps
  <2>2. Took(a, k, u, x, c, u.hash)
    BY <1>1, <1>4, <2>0, TookFields DEF Took
  <2> HIDE DEF x, c
  <2> QED BY <2>1, <2>2
<1>7. PICK x, c, H : Took(a, k, u, x, c, H) /\ H = u.hash /\ w' = Give(u, a, x, k, c, H)
  BY <1>6
<1>8. /\ TabOk(w') /\ Quiet(w, w') /\ Local(w, w', t) /\ \A b \in Mine(t) : ActOk(w', b)
      /\ \A b \in Acts \ {a} : SameAct(w, w', b)
      /\ w'.act[a] = x /\ (a \in w'.hash <=> a \in H) /\ k # None
  <2>1. a = A(t)
    BY DEF a
  <2> QED BY <1>0, <1>3, <1>7, <2>1, TookOk
<1>9. th' = [th EXCEPT ![t] = GoToOf(r, "reset")]
  BY <1>0, <1>1, OfSteps, SMTT(30) DEF r
<1>10. ThreadOk(t, GoToOf(r, "reset"), w')
  <2>1. \A b \in Mine(t) : w'.act[b].flag = w.act[b].flag /\ (b \in w'.hash <=> b \in w.hash)
    <3> SUFFICES ASSUME NEW b \in Mine(t) PROVE w'.act[b].flag = w.act[b].flag /\ (b \in w'.hash <=> b \in w.hash)
      OBVIOUS
    <3>1. CASE b = a
      BY <1>1, <1>4, <1>7, <1>8, <3>1 DEF Took
    <3>2. CASE b # a
      <4>1. b \in Acts
        BY DEF Mine
      <4> QED BY <1>8, <3>2, <4>1 DEF SameAct
    <3> QED BY <3>1, <3>2
  <2>2. ASSUME NEW d \in DOMAIN calls[t] \ {r.call}, NEW j \in DOMAIN calls[t][d]
        PROVE  w'.act[calls[t][d][j]].conn = w.act[calls[t][d][j]].conn
    <3>1. calls[t][d][j] \in Acts /\ calls[t][d][j] # calls[t][r.call][r.i]
      BY <1>1, Once, CallTypes
    <3> QED BY <1>1, <1>8, <3>1 DEF SameAct, Current
  <2>3. ASSUME NEW j \in DOMAIN calls[t][r.call]
        PROVE  Ready(w'.act[calls[t][r.call][j]], "reset", r.clk)
    <3>1. StageOk(r, calls[t][r.call][j], w.act[calls[t][r.call][j]], r.call, j, TRUE, w.hash)
      BY <1>1 DEF ThreadOk
    <3>2. w'.act[calls[t][r.call][j]].flag = "undef"
      BY <1>1, <2>1, <3>1, MineOf DEF StageOk
    <3> QED BY <3>2 DEF Ready
  <2> QED BY <1>1, <2>1, <2>2, <2>3, GoToThread
<1> QED BY <1>0, <1>1, <1>8, <1>9, <1>10, RunOk DEF r
----------------------------------------------------------------------------
(* Connections are given back *)

\* v is s with connection k put into its pool, or, open and fit for the next request,
\* into the idle list.
PutBack(s, v, k) ==
    /\ v \in WType /\ v.total = s.total /\ v.hash = s.hash /\ v.udp = s.udp
    /\ \A l \in Conns \ {k} : v.conn[l] = s.conn[l]
    /\ v.conn[k].act = None
    /\ \/ /\ v.conn[k] = NewConn /\ v.keep = s.keep /\ v.pool[k[1]] = Append(s.pool[k[1]], k)
          /\ \A d \in Kinds \ {k[1]} : v.pool[d] = s.pool[d]
       \/ /\ k[1] = "tcp" /\ v.pool = s.pool /\ v.keep = Append(s.keep, k)
          /\ v.conn[k].timer = TRUE /\ v.conn[k].watch = "keep" /\ v.conn[k].st # "none" /\ v.conn[k].buf = None
          /\ v.conn[k].late \/ (v.conn[k].in = <<>> /\ v.conn[k].owes = <<>>)

\* v is s with connection k of action a given back.
Freed(s, v, a, k) ==
    /\ PutBack(s, v, k)
    /\ v.act[a].conn = None /\ v.act[a].flag = s.act[a].flag /\ v.act[a].err = s.act[a].err
    /\ v.act[a].sconn = s.act[a].sconn
    /\ \A b \in Acts \ {a} : v.act[b] = s.act[b]

\* Where objects are then.
PlacesOf(s, v, k) ==
    /\ NoDup(v.keep) /\ \A d \in Kinds : NoDup(v.pool[d]) /\ \A i \in DOMAIN v.pool[d] : v.pool[d][i][1] = d
    /\ \A l \in Conns \ {k} : /\ Idle(v, l) <=> Idle(s, l)
                              /\ Free(v, l) <=> Free(s, l)
                              /\ Used(v, l) <=> Used(s, l)
    /\ \A l \in Conns : Made(v, l) <=> Made(s, l)
    /\ ~Used(v, k) /\ (Idle(v, k) <=> ~Free(v, k))
    /\ Idle(v, k) => /\ k[1] = "tcp" /\ v.conn[k].timer = TRUE /\ v.conn[k].watch = "keep" /\ v.conn[k].st # "none"
                     /\ v.conn[k].buf = None /\ (v.conn[k].late \/ (v.conn[k].in = <<>> /\ v.conn[k].owes = <<>>))
    /\ ~Idle(v, k) => v.conn[k] = NewConn

\* They are there after one was put back that was in no list.
LEMMA PutPlaces ==
    ASSUME NEW s, NEW v, TabOk(s), NEW k \in Conns, ~Idle(s, k), ~Free(s, k), PutBack(s, v, k)
    PROVE  PlacesOf(s, v, k)
<1>1. /\ s \in WType /\ s.keep \in Seq(Conns) /\ NoDup(s.keep)
      /\ \A d \in Kinds : s.pool[d] \in Seq(Conns) /\ NoDup(s.pool[d]) /\ \A l : In(s.pool[d], l) => l \in Conns /\ l[1] = d
      /\ \A l : Idle(s, l) <=> In(s.keep, l)
      /\ \A l \in Conns : l[1] \in Kinds /\ (Free(s, l) <=> In(s.pool[l[1]], l))
  BY TabLists
<1>2. \A l : Idle(v, l) <=> In(v.keep, l)
  BY DEF Idle, In
<1>3. \A l \in Conns : Free(v, l) <=> In(v.pool[l[1]], l)
  BY DEF Free, In
<1>4. \A l \in Conns : Made(v, l) <=> Made(s, l)
  BY DEF PutBack, Made
<1>5. ~Used(v, k) /\ \A l \in Conns \ {k} : Used(v, l) <=> Used(s, l)
  BY DEF PutBack, Used
<1>6. ASSUME NEW d \in Kinds, NoDup(v.pool[d]), \A l : In(v.pool[d], l) => l[1] = d
      PROVE  NoDup(v.pool[d]) /\ \A i \in DOMAIN v.pool[d] : v.pool[d][i][1] = d
  BY <1>6 DEF In
<1>7. CASE /\ v.conn[k] = NewConn /\ v.keep = s.keep /\ v.pool[k[1]] = Append(s.pool[k[1]], k)
           /\ \A d \in Kinds \ {k[1]} : v.pool[d] = s.pool[d]
  <2>1. /\ NoDup(v.pool[k[1]]) /\ \A l : In(v.pool[k[1]], l) <=> In(s.pool[k[1]], l) \/ l = k
    BY <1>1, <1>7, AppendNoDup
  <2>2. \A d \in Kinds : NoDup(v.pool[d]) /\ \A i \in DOMAIN v.pool[d] : v.pool[d][i][1] = d
    <3> SUFFICES ASSUME NEW d \in Kinds PROVE NoDup(v.pool[d]) /\ \A l : In(v.pool[d], l) => l[1] = d
      BY <1>6
    <3>1. CASE d = k[1]
      BY <1>1, <2>1, <3>1
    <3>2. CASE d # k[1]
      BY <1>1, <1>7, <3>2
    <3> QED BY <3>1, <3>2
  <2>3. \A l \in Conns : Idle(v, l) <=> Idle(s, l)
    BY <1>1, <1>2, <1>7
  <2>4. \A l \in Conns \ {k} : Free(v, l) <=> Free(s, l)
    BY <1>1, <1>3, <1>7, <2>1
  <2>5. Free(v, k)
    BY <1>3, <2>1
  <2> QED BY <1>1, <1>4, <1>5, <1>7, <2>2, <2>3, <2>4, <2>5 DEF PlacesOf
<1>8. CASE /\ k[1] = "tcp" /\ v.pool = s.pool /\ v.keep = Append(s.keep, k)
           /\ v.conn[k].timer = TRUE /\ v.conn[k].watch = "keep" /\ v.conn[k].st # "none" /\ v.conn[k].buf = None
           /\ v.conn[k].late \/ (v.conn[k].in = <<>> /\ v.conn[k].owes = <<>>)
  <2>1. NoDup(v.keep) /\ \A l : In(v.keep, l) <=> In(s.keep, l) \/ l = k
    BY <1>1, <1>8, AppendNoDup
  <2>2. \A d \in Kinds : NoDup(v.pool[d]) /\ \A i \in DOMAIN v.pool[d] : v.pool[d][i][1] = d
    BY <1>1, <1>6, <1>8
  <2>3. \A l \in Conns : Free(v, l) <=> Free(s, l)
    BY <1>1, <1>3, <1>8
  <2>4. \A l \in Conns \ {k} : Idle(v, l) <=> Idle(s, l)
    BY <1>1, <1>2, <2>1
  <2>5. Idle(v, k)
    BY <1>2, <2>1
  <2> QED BY <1>4, <1>5, <1>8, <2>1, <2>2, <2>3, <2>4, <2>5 DEF PlacesOf
<1> QED BY <1>7, <1>8 DEF PutBack

\* Giving back the connection of an action leaves everything else as it is.
LEMMA FreedOk ==
    ASSUME NEW s, NEW v, TabOk(s), NEW a \in Acts, NEW k, k = s.act[a].conn, k # None, Freed(s, v, a, k)
    PROVE  TabOk(v) /\ \A b \in Acts \ {a} : SameAct(s, v, b)
<1>1. k \in Conns /\ s.conn[k].act = a /\ Used(s, k)
  <2>1. k \in Conns
    BY Parts DEF TabOk, ActType
  <2>2. s.conn[k].act = a
    BY DEF TabOk, Paired
  <2> QED BY <2>1, <2>2, MsgAssumption DEF Used
<1>2. ~Idle(s, k) /\ ~Free(s, k) /\ Made(s, k)
  BY <1>1, SMTT(30) DEF TabOk, Placed
<1>3. PutBack(s, v, k) /\ v \in WType /\ \A l \in Conns \ {k} : v.conn[l] = s.conn[l]
  BY Zenon DEF Freed, PutBack
<1>4. /\ NoDup(v.keep) /\ \A d \in Kinds : NoDup(v.pool[d]) /\ \A i \in DOMAIN v.pool[d] : v.pool[d][i][1] = d
      /\ \A l \in Conns \ {k} : /\ Idle(v, l) <=> Idle(s, l)
                                /\ Free(v, l) <=> Free(s, l)
                                /\ Used(v, l) <=> Used(s, l)
      /\ \A l \in Conns : Made(v, l) <=> Made(s, l)
      /\ ~Used(v, k) /\ (Idle(v, k) <=> ~Free(v, k))
      /\ Idle(v, k) => k[1] = "tcp" /\ v.conn[k].timer = TRUE /\ v.conn[k].watch = "keep" /\ v.conn[k].st # "none"
                       /\ v.conn[k].buf = None /\ (v.conn[k].late \/ (v.conn[k].in = <<>> /\ v.conn[k].owes = <<>>))
      /\ ~Idle(v, k) => v.conn[k] = NewConn
  <2>1. PlacesOf(s, v, k)
    BY <1>1, <1>2, <1>3, PutPlaces
  <2> QED BY <2>1 DEF PlacesOf
<1>5. Placed(v, {})
  <2> SUFFICES ASSUME NEW l \in Conns
               PROVE  /\ Used(v, l) => Made(v, l) /\ ~Idle(v, l) /\ ~Free(v, l)
                      /\ Idle(v, l) => Made(v, l) /\ ~Free(v, l) /\ l[1] = "tcp"
                      /\ Free(v, l) => Made(v, l)
                      /\ Made(v, l) => Used(v, l) \/ Idle(v, l) \/ Free(v, l)
    BY <1>4 DEF Placed
  <2>1. CASE l = k
    BY <1>1, <1>2, <1>4, <2>1
  <2>2. CASE l # k
    BY <1>4, <2>2 DEF TabOk, Placed
  <2> QED BY <2>1, <2>2
<1>6. Kept(v)
  <2> SUFFICES ASSUME NEW l \in Conns
               PROVE  /\ v.conn[l].timer <=> Idle(v, l)
                      /\ v.conn[l].watch = "keep" <=> Idle(v, l)
                      /\ Idle(v, l) => v.conn[l].st # "none" /\ v.conn[l].buf = None
                      /\ Idle(v, l) /\ ~v.conn[l].late => v.conn[l].in = <<>> /\ v.conn[l].owes = <<>>
                      /\ ~Idle(v, l) /\ ~Used(v, l) => v.conn[l] = NewConn
    BY DEF Kept
  <2>1. CASE l = k
    BY <1>4, <2>1, NewConnType, MsgAssumption
  <2>2. CASE l # k
    BY <1>3, <1>4, <2>2 DEF TabOk, Kept
  <2> QED BY <2>1, <2>2
<1>7. \A b \in Acts \ {a} : s.act[b].conn # k /\ (s.act[b].conn # None => s.act[b].conn \in Conns)
  BY <1>1, Parts DEF TabOk, Paired, ActType
<1>8. Paired(v)
  <2>1. ASSUME NEW b \in Acts, v.act[b].conn # None
        PROVE  v.conn[v.act[b].conn].act = b /\ v.act[b].conn[1] = kind[b]
    BY <1>3, <1>7, <2>1 DEF Freed, TabOk, Paired
  <2>2. ASSUME NEW l \in Conns, Used(v, l) PROVE v.act[v.conn[l].act].conn = l
    <3>1. l # k /\ Used(s, l) /\ v.conn[l] = s.conn[l]
      BY <1>3, <1>4, <2>2
    <3>2. s.conn[l].act \in Acts /\ s.act[s.conn[l].act].conn = l
      BY <3>1, Parts, SMTT(30) DEF TabOk, Paired, ConnType, Used
    <3> QED BY <3>1, <3>2 DEF Freed
  <2> QED BY <2>1, <2>2 DEF Paired
<1>9. \A b \in Acts \ {a} : SameAct(s, v, b)
  BY <1>3, <1>7, Zenon DEF SameAct, Freed, PutBack
<1> QED BY <1>3, <1>5, <1>6, <1>8, <1>9 DEF TabOk

\* Connection k is with action a and nobody watches it.
Alone(a, k) ==
    /\ k \in Conns /\ w.conn[k].act = a /\ ~Idle(w, k) /\ k \notin w.udp.wlist
    /\ w.conn[k].watch = None /\ w.conn[k].timer = FALSE

\* Nobody watches the connections of a thread that does not poll.
LEMMA Unwatched ==
    ASSUME IInv, NEW t \in Threads, th[t].poll = "no", NEW a \in Mine(t), w.act[a].conn # None
    PROVE  Alone(a, w.act[a].conn)
<1> DEFINE k == w.act[a].conn
<1>1. a \in Acts /\ TabOk(w) /\ WatchOk(w, th) /\ InputOk /\ \A u \in Threads : ThreadOk(u, th[u], w)
  BY DEF IInv, Mine
<1>2. k \in Conns /\ w.conn[k] \in ConnType
  BY <1>1, Parts DEF TabOk, ActType
<1>3. w.conn[k].act = a
  BY <1>1 DEF TabOk, Paired
<1>4. ~Idle(w, k)
  BY <1>1, <1>2, <1>3, MsgAssumption DEF TabOk, Placed, Used
<1>5. ASSUME NEW u \in Threads, th[u].poll # "no", NEW m \in DOMAIN th[u].wait, th[u].wait[m] = a PROVE FALSE
  <2> DEFINE r == th[u]
  <2>1. ThreadOk(u, r, w) /\ r.wait[m] = a /\ r.poll # "no"
    BY <1>1, <1>5
  <2> HIDE DEF r
  <2>2. r.call \in DOMAIN calls[u]
    BY <2>1, SMTT(30) DEF ThreadOk, Busy
  <2>3. PICK j \in DOMAIN calls[u][r.call] : calls[u][r.call][j] = a
    BY <1>5, <2>1 DEF ThreadOk, WaitOk, r
  <2>4. a \in Mine(u)
    BY <1>1, <2>2, <2>3, MineOf
  <2> QED BY <1>1, <1>5, <2>4, MineApart
<1>6. w.conn[k].watch \notin {"thread", "hung"} /\ k \notin w.udp.wlist
  BY <1>1, <1>2, <1>3, <1>5 DEF WatchOk
<1>7. w.conn[k].watch # "keep" /\ w.conn[k].timer = FALSE
  BY <1>1, <1>2, <1>4 DEF TabOk, Kept, ConnType
<1> QED BY <1>2, <1>3, <1>4, <1>6, <1>7 DEF ConnType, Alone

\* A connection with its late mark set, and an idle one.
LateOf(c, l) == [c EXCEPT !.late = @ \/ l]
AttOf(c)     == [c EXCEPT !.timer = TRUE, !.watch = "keep", !.act = None, !.buf = None, !.ev = {}]

\* These, field by field.
LEMMA LateFields ==
    ASSUME NEW c \in ConnType, NEW l \in BOOLEAN
    PROVE  /\ LateOf(c, l) \in ConnType /\ (LateOf(c, l).late <=> c.late \/ l)
           /\ LateOf(c, l).act = c.act /\ LateOf(c, l).timer = c.timer /\ LateOf(c, l).watch = c.watch
           /\ LateOf(c, l).st = c.st /\ LateOf(c, l).buf = c.buf /\ LateOf(c, l).in = c.in /\ LateOf(c, l).owes = c.owes
           /\ l = FALSE => LateOf(c, l) = c
           /\ AttOf(c) \in ConnType /\ AttOf(c).act = None /\ AttOf(c).timer = TRUE /\ AttOf(c).watch = "keep"
           /\ AttOf(c).st = c.st /\ AttOf(c).buf = None /\ AttOf(c).in = c.in /\ AttOf(c).owes = c.owes
           /\ AttOf(c).late = c.late
<1>1. (c.late \/ l) \in BOOLEAN
  OBVIOUS
<1> DEFINE b == (c.late \/ l)
           d == [c EXCEPT !.late = b]
<1>2. LateOf(c, l) = d
  BY DEF LateOf, ConnType
<1> HIDE DEF b
<1>3. /\ d \in ConnType /\ d.late = b /\ d.act = c.act /\ d.timer = c.timer /\ d.watch = c.watch
      /\ d.st = c.st /\ d.buf = c.buf /\ d.in = c.in /\ d.owes = c.owes
  BY <1>1 DEF ConnType, b
<1>4. l = FALSE => d = c
  <2>1. l = FALSE => b = c.late
    BY DEF b, ConnType
  <2>2. [c EXCEPT !.late = c.late] = c
    BY DEF ConnType
  <2> QED BY <2>1, <2>2
<1>5. /\ AttOf(c) \in ConnType /\ AttOf(c).act = None /\ AttOf(c).timer = TRUE /\ AttOf(c).watch = "keep"
      /\ AttOf(c).st = c.st /\ AttOf(c).buf = None /\ AttOf(c).in = c.in /\ AttOf(c).owes = c.owes
      /\ AttOf(c).late = c.late
  BY DEF AttOf, ConnType
<1> QED BY <1>2, <1>3, <1>4, <1>5 DEF b

\* The last assignments of Reset.
Drop(u, a, k, l) == [u EXCEPT !.act[a].conn = None, !.conn[k].late = @ \/ l]

\* v is u with the connection k taken from action a.
Dropped(u, v, a, k, l) ==
    /\ v \in WType /\ v.keep = u.keep /\ v.pool = u.pool /\ v.total = u.total /\ v.hash = u.hash /\ v.udp = u.udp
    /\ v.act[a].conn = None /\ v.act[a].flag = u.act[a].flag /\ v.act[a].err = u.act[a].err
    /\ v.act[a].sconn = u.act[a].sconn /\ v.conn[k] = LateOf(u.conn[k], l)
    /\ \A b \in Acts \ {a} : v.act[b] = u.act[b]
    /\ \A m \in Conns \ {k} : v.conn[m] = u.conn[m]

\* They do that.
LEMMA DropParts ==
    ASSUME NEW u \in WType, NEW a \in Acts, NEW k \in Conns, NEW l \in BOOLEAN
    PROVE  Dropped(u, Drop(u, a, k, l), a, k, l)
<1> DEFINE x == LinkOf(u.act[a], None)
           c == LateOf(u.conn[k], l)
           v == [u EXCEPT !.act[a] = x, !.conn[k] = c]
<1>1. u.act[a] \in ActType /\ u.conn[k] \in ConnType
  BY Parts
<1>2. Drop(u, a, k, l) = v
  BY DEF Drop, LinkOf, LateOf, WType
<1>3. x \in ActType /\ x.conn = None /\ x.flag = u.act[a].flag /\ x.err = u.act[a].err /\ x.sconn = u.act[a].sconn
  BY <1>1 DEF LinkOf, ActType
<1>4. c \in ConnType
  BY <1>1, LateFields
<1> HIDE DEF x, c
<1>5. /\ v \in WType /\ v.keep = u.keep /\ v.pool = u.pool /\ v.total = u.total /\ v.udp = u.udp
      /\ v.act[a] = x /\ v.conn[k] = c /\ v.hash = u.hash
      /\ \A b \in Acts \ {a} : v.act[b] = u.act[b]
      /\ \A m \in Conns \ {k} : v.conn[m] = u.conn[m]
  BY <1>3, <1>4 DEF WType
<1> HIDE DEF v
<1>6. Dropped(u, v, a, k, l)
  BY <1>3, <1>5 DEF Dropped, c
<1> QED BY <1>2, <1>6

\* u is s with connection k closed and in its pool.
Closed(s, u, k) ==
    /\ u \in WType /\ u.act = s.act /\ u.keep = s.keep /\ u.total = s.total /\ u.hash = s.hash /\ u.udp = s.udp
    /\ u.conn[k] = NewConn /\ \A m \in Conns \ {k} : u.conn[m] = s.conn[m]
    /\ u.pool[k[1]] = Append(s.pool[k[1]], k) /\ \A d \in Kinds \ {k[1]} : u.pool[d] = s.pool[d]

\* ResetFree of a connection whose timer is off.
LEMMA ResetFreeParts ==
    ASSUME NEW s \in WType, NEW k \in Conns, s.conn[k].timer = FALSE
    PROVE  Closed(s, ResetFree(s, k), k)
<1> DEFINE d == k[1]
           p == Append(s.pool[d], k)
           u == [s EXCEPT !.conn[k] = NewConn, !.pool[d] = p]
<1>1. d \in Kinds /\ p \in Seq(Conns)
  <2>1. d \in Kinds
    BY DEF Conns
  <2>2. s.pool[d] \in Seq(Conns)
    BY <2>1, Parts
  <2> QED BY <2>1, <2>2, AppendProperties
<1>2. [NewConn EXCEPT !.timer = s.conn[k].timer] = NewConn
  <2>1. NewConn \in ConnType /\ NewConn.timer = s.conn[k].timer
    BY NewConnType
  <2> QED BY <2>1 DEF ConnType
<1>3. ResetFree(s, k) = u
  BY <1>1, <1>2 DEF ResetFree, WType
<1>4. NewConn \in ConnType
  BY NewConnType
<1> HIDE DEF p, d
<1>5. /\ u \in WType /\ u.act = s.act /\ u.keep = s.keep /\ u.total = s.total /\ u.hash = s.hash /\ u.udp = s.udp
      /\ u.conn[k] = NewConn /\ \A m \in Conns \ {k} : u.conn[m] = s.conn[m]
      /\ u.pool[d] = p /\ \A e \in Kinds \ {d} : u.pool[e] = s.pool[e]
  BY <1>1, <1>4 DEF WType
<1> HIDE DEF u
<1>6. Closed(s, u, k)
  BY <1>5 DEF Closed, p, d
<1> QED BY <1>3, <1>6

\* u is s with connection k in the idle list, watched and timed.
Attached(s, u, k) ==
    /\ u \in WType /\ u.act = s.act /\ u.pool = s.pool /\ u.total = s.total /\ u.hash = s.hash /\ u.udp = s.udp
    /\ u.conn[k] = AttOf(s.conn[k]) /\ \A m \in Conns \ {k} : u.conn[m] = s.conn[m]
    /\ u.keep = Append(s.keep, k)

\* FreeConnection that keeps the connection: it is watched and timed, then listed.
Att(s, k)  == [s EXCEPT !.conn[k].timer = TRUE, !.conn[k].watch = "keep"]
List(v, k) == [v EXCEPT !.conn[k].act = None, !.conn[k].buf = None, !.conn[k].ev = {},
                        !.keep = IF Contains(@, k) THEN @ ELSE Append(@, k)]

\* This is what it does.
LEMMA KeepParts ==
    ASSUME NEW s \in WType, NEW k \in Conns, ~Contains(s.keep, k)
    PROVE  Attached(s, List(Att(s, k), k), k)
<1> DEFINE v == Att(s, k)
           y == List(v, k)
           c == [s.conn[k] EXCEPT !.timer = TRUE, !.watch = "keep"]
           q == Append(s.keep, k)
           z == [s EXCEPT !.conn[k] = c]
           u == [s EXCEPT !.conn[k] = AttOf(s.conn[k]), !.keep = q]
<1>1. s.conn[k] \in ConnType /\ q \in Seq(Conns)
  BY Parts, AppendProperties
<1>2. v = z
  BY DEF WType, Att
<1>3. z.keep = s.keep /\ z.conn[k] = c /\ z \in WType
  <2>1. c \in ConnType
    BY <1>1 DEF ConnType
  <2> HIDE DEF c
  <2> QED BY <2>1 DEF WType
<1>4. [z EXCEPT !.conn[k].act = None, !.conn[k].buf = None, !.conn[k].ev = {}, !.keep = q]
        = [s EXCEPT !.conn[k] = [c EXCEPT !.act = None, !.buf = None, !.ev = {}], !.keep = q]
  <2> DEFINE e == [c EXCEPT !.act = None, !.buf = None, !.ev = {}]
  <2>1. ASSUME NEW x \in WType
        PROVE  [x EXCEPT !.conn[k].act = None, !.conn[k].buf = None, !.conn[k].ev = {}, !.keep = q]
                 = [x EXCEPT !.conn[k] = [x.conn[k] EXCEPT !.act = None, !.buf = None, !.ev = {}], !.keep = q]
    BY ZenonT(30) DEF WType
  <2>2. [z EXCEPT !.conn[k].act = None, !.conn[k].buf = None, !.conn[k].ev = {}, !.keep = q]
          = [z EXCEPT !.conn[k] = e, !.keep = q]
    <3> HIDE DEF z, c, q
    <3> QED BY <1>3, <2>1
  <2>3. [z EXCEPT !.conn[k] = e, !.keep = q] = [s EXCEPT !.conn[k] = e, !.keep = q]
    <3> HIDE DEF c, e, q
    <3> QED BY DEF WType
  <2> QED BY <2>2, <2>3
<1>5. [c EXCEPT !.act = None, !.buf = None, !.ev = {}] = AttOf(s.conn[k])
  BY <1>1 DEF AttOf, ConnType
<1>6. y = [v EXCEPT !.conn[k].act = None, !.conn[k].buf = None, !.conn[k].ev = {}, !.keep = q]
  <2>1. v.keep = s.keep
    BY <1>2, <1>3
  <2>2. (IF Contains(v.keep, k) THEN v.keep ELSE Append(v.keep, k)) = q
    BY <2>1
  <2> HIDE DEF v, q
  <2> QED BY <2>2 DEF List
<1>7. y = u
  BY <1>2, <1>4, <1>5, <1>6
<1>8. AttOf(s.conn[k]) \in ConnType
  BY <1>1 DEF AttOf, ConnType
<1> HIDE DEF q, y
<1>9. /\ u \in WType /\ u.act = s.act /\ u.pool = s.pool /\ u.total = s.total /\ u.hash = s.hash /\ u.udp = s.udp
      /\ u.conn[k] = AttOf(s.conn[k]) /\ \A m \in Conns \ {k} : u.conn[m] = s.conn[m]
      /\ u.keep = q
  BY <1>1, <1>8 DEF WType
<1> HIDE DEF u
<1>10. Attached(s, u, k)
  BY <1>9 DEF Attached, q
<1> QED BY <1>7, <1>10 DEF y

\* FreeConnection of a connection nobody watches, when epoll does not fail.
LEMMA FreeConnParts ==
    ASSUME NEW s \in WType, NEW k \in Conns, s.conn[k].timer = FALSE, s.conn[k].watch = None, ~Contains(s.keep, k),
           NEW force \in BOOLEAN, NEW no, no = FALSE
    PROVE  LET u == FreeConnection(s, k, force, no) IN
           Closed(s, u, k) \/ (Attached(s, u, k) /\ k[1] = "tcp" /\ ~force /\ s.conn[k].st # "none")
<1> DEFINE at == IdleAttach(s, k, no)
           u == FreeConnection(s, k, force, no)
<1>1. None # "keep"
  BY MsgAssumption
<1>2. Closed(s, ResetFree(s, k), k)
  BY ResetFreeParts
<1>3. CASE k[1] # "tcp" \/ force
  BY <1>2, <1>3 DEF FreeConnection
<1>4. CASE ~(k[1] # "tcp" \/ force) /\ s.conn[k].st = "none"
  <2>1. at = [ok |-> FALSE, s |-> s]
    BY <1>1, <1>4 DEF IdleAttach
  <2>2. at.ok = FALSE /\ at.s = s
    BY <2>1
  <2> HIDE DEF at
  <2>3. u = ResetFree(s, k)
    BY <1>4, <2>2 DEF FreeConnection, at
  <2> QED BY <1>2, <2>3
<1>5. CASE ~(k[1] # "tcp" \/ force) /\ s.conn[k].st # "none"
  <2>1. at = [ok |-> TRUE, s |-> [s EXCEPT !.conn[k].timer = TRUE, !.conn[k].watch = "keep"]]
    <3>1. at = [ok |-> ~no, s |-> [s EXCEPT !.conn[k].timer = TRUE, !.conn[k].watch = IF no THEN @ ELSE "keep"]]
      BY <1>1, <1>5 DEF IdleAttach
    <3> QED BY <3>1
  <2>2. at.ok = TRUE /\ at.s = Att(s, k)
    BY <2>1 DEF Att
  <2>3. u = List(at.s, k)
    <3>1. at = IdleAttach(s, k, no)
      OBVIOUS
    <3> HIDE DEF at
    <3> QED BY <1>5, <2>2, <3>1 DEF FreeConnection, List
  <2>4. Attached(s, u, k)
    <3> HIDE DEF at, u
    <3> QED BY <2>2, <2>3, KeepParts
  <2> QED BY <1>5, <2>4
<1> QED BY <1>3, <1>4, <1>5

\* The two together: the connection is given back.
LEMMA BackFreed ==
    ASSUME NEW s \in WType, NEW u, NEW v, NEW a \in Acts, NEW k \in Conns, NEW l \in BOOLEAN,
           Closed(s, u, k) \/ (Attached(s, u, k) /\ k[1] = "tcp" /\ s.conn[k].st # "none"),
           Dropped(u, v, a, k, l), Closed(s, u, k) => l = FALSE,
           l \/ s.conn[k].late \/ Closed(s, u, k) \/ (s.conn[k].in = <<>> /\ s.conn[k].owes = <<>>)
    PROVE  Freed(s, v, a, k)
<1>1. /\ v.act[a].conn = None /\ v.act[a].flag = s.act[a].flag /\ v.act[a].err = s.act[a].err
      /\ v.act[a].sconn = s.act[a].sconn /\ \A b \in Acts \ {a} : v.act[b] = s.act[b]
      /\ v \in WType /\ v.total = s.total /\ v.hash = s.hash /\ v.udp = s.udp
      /\ \A m \in Conns \ {k} : v.conn[m] = s.conn[m]
      /\ v.conn[k] = LateOf(u.conn[k], l) /\ v.pool = u.pool /\ v.keep = u.keep
  BY DEF Closed, Attached, Dropped
<1>2. CASE Closed(s, u, k)
  <2>1. v.conn[k] = NewConn /\ NewConn.act = None
    <3>1. u.conn[k] = NewConn /\ NewConn \in ConnType /\ NewConn.act = None /\ l = FALSE
      BY <1>2, NewConnType DEF Closed
    <3>2. LateOf(u.conn[k], l) = u.conn[k]
      BY <3>1, LateFields
    <3> QED BY <1>1, <3>1, <3>2
  <2>2. PutBack(s, v, k)
    BY <1>1, <1>2, <2>1 DEF PutBack, Closed
  <2> QED BY <1>1, <2>2 DEF Freed
<1>3. CASE Attached(s, u, k) /\ k[1] = "tcp" /\ s.conn[k].st # "none" /\ ~Closed(s, u, k)
  <2> DEFINE c == s.conn[k]
             d == AttOf(c)
             e == LateOf(d, l)
  <2>1. c \in ConnType /\ v.conn[k] = e
    BY <1>1, <1>3, Parts DEF Attached
  <2> HIDE DEF c
  <2>2. /\ d \in ConnType /\ d.act = None /\ d.timer = TRUE /\ d.watch = "keep" /\ d.st = c.st /\ d.buf = None
        /\ d.in = c.in /\ d.owes = c.owes /\ d.late = c.late
    BY <2>1, LateFields
  <2> HIDE DEF d
  <2>3. /\ e.act = None /\ e.timer = TRUE /\ e.watch = "keep" /\ e.st = c.st /\ e.buf = None
        /\ e.in = c.in /\ e.owes = c.owes /\ (e.late <=> c.late \/ l)
    BY <2>2, LateFields, ZenonT(30)
  <2> HIDE DEF e
  <2>4. PutBack(s, v, k)
    BY <1>1, <1>3, <2>1, <2>3 DEF PutBack, Attached, c
  <2> QED BY <1>1, <2>4 DEF Freed
<1> QED BY <1>2, <1>3, SMTT(30)

\* The thread after it took the connection from one action.
LEMMA ResetThread ==
    ASSUME InputOk, NEW t \in Threads, NEW r, NEW s, NEW u, ThreadOk(t, r, s), r.pc = "reset", r.poll = "no",
           r.i \in DOMAIN calls[t][r.call], r.call \in DOMAIN calls[t], NEW a \in Acts, Current(t, r, a),
           u.act[a].conn = None, u.act[a].flag = s.act[a].flag, u.act[a].err = s.act[a].err, u.hash = s.hash,
           \A b \in Acts \ {a} : u.act[b] = s.act[b]
    PROVE  ThreadOk(t, StepOf(r), u)
<1> DEFINE q == StepOf(r)
<1>1. /\ r \in ThType /\ r.i \in Nat \ {0} /\ r.call \in Nat /\ Busy(r) /\ r.call \in 0..Len(calls[t])
      /\ Len(calls[t][r.call]) \in Nat /\ DOMAIN calls[t][r.call] = 1..Len(calls[t][r.call]) /\ WaitOk(t, r, s)
  BY CallTypes DEF ThreadOk, ThType, Busy
<1>2. q \in ThType /\ q.call = r.call /\ q.pc = "reset" /\ q.i = r.i + 1 /\ q.clk = r.clk /\ q.poll = "no" /\ q.wait = r.wait
  BY <1>1, OfTypes
<1> HIDE DEF q
<1>3. Busy(q) /\ q.i <= Len(calls[t][r.call]) + 1
  BY <1>1, <1>2 DEF Busy
<1>4. r.wait = <<>>
  BY <1>1 DEF WaitOk
<1>5. WaitOk(t, q, u)
  BY <1>2, <1>4, NoWait
<1>6. ASSUME NEW e \in DOMAIN calls[t], NEW j \in DOMAIN calls[t][e]
      PROVE  StageOk(q, calls[t][e][j], u.act[calls[t][e][j]], e, j, Busy(q) /\ e = q.call, u.hash)
  <2>1. StageOk(r, calls[t][e][j], s.act[calls[t][e][j]], e, j, Busy(r) /\ e = r.call, s.hash)
    BY DEF ThreadOk
  <2>2. e \in Nat /\ j \in Nat
    BY CallTypes
  <2>3. CASE e = r.call /\ j = r.i
    <3>1. calls[t][e][j] = a
      BY <2>3 DEF Current
    <3> QED BY <1>1, <1>2, <1>3, <2>1, <2>3, <3>1, SMTT(30) DEF StageOk
  <2>4. CASE ~(e = r.call /\ j = r.i)
    <3>1. calls[t][e][j] \in Acts /\ calls[t][e][j] # a
      <4>1. calls[t][e][j] # calls[t][r.call][r.i]
        BY <2>4, Once
      <4> QED BY <4>1, CallTypes, Zenon DEF Current
    <3>2. u.act[calls[t][e][j]] = s.act[calls[t][e][j]]
      BY <3>1
    <3>3. e = r.call => (j >= q.i <=> j >= r.i)
      BY <1>1, <1>2, <2>2, <2>4
    <3> QED BY <1>1, <1>2, <1>3, <2>1, <3>2, <3>3, SMTT(30) DEF StageOk
  <2> QED BY <2>3, <2>4
<1>7. ThreadOk(t, q, u)
  BY <1>1, <1>2, <1>3, <1>5, <1>6, SMTT(30) DEF ThreadOk
<1> QED BY <1>7 DEF q

\* What is known when a thread has come to an action at the end of a call.
LEMMA ResetFacts ==
    ASSUME IInv, NEW t \in Threads, One(t, "reset")
    PROVE  /\ A(t) \in Mine(t) /\ A(t) \in Acts /\ Current(t, th[t], A(t)) /\ w.act[A(t)] \in ActType /\ ActOk(w, A(t))
           /\ TabOk(w) /\ w \in WType /\ ThreadOk(t, th[t], w) /\ th[t] \in ThType /\ th \in [Threads -> ThType] /\ InputOk
           /\ th[t].pc = "reset" /\ th[t].poll = "no" /\ cur = t /\ th[t].i \in DOMAIN calls[t][th[t].call]
           /\ th[t].call \in DOMAIN calls[t]
           /\ StageOk(th[t], A(t), w.act[A(t)], th[t].call, th[t].i, TRUE, w.hash)
<1> DEFINE r == th[t]
<1>1. /\ ThreadOk(t, r, w) /\ r \in ThType /\ th \in [Threads -> ThType] /\ InputOk /\ TabOk(w) /\ w \in WType
      /\ \A b \in Acts : ActOk(w, b)
  BY DEF IInv, ThreadOk, TabOk
<1>2. r.pc = "reset" /\ r.poll = "no" /\ cur = t /\ r.i <= Len(calls[t][r.call]) /\ A(t) = calls[t][r.call][r.i]
  BY DEF One, At, Lst, A
<1> HIDE DEF r
<1>4. Busy(r) /\ r.i \in Nat \ {0} /\ r.call \in DOMAIN calls[t]
  BY <1>1, <1>2 DEF Busy, ThType, ThreadOk
<1>5. r.i \in DOMAIN calls[t][r.call]
  BY <1>1, <1>2, <1>4, CallTypes
<1>6. StageOk(r, A(t), w.act[A(t)], r.call, r.i, TRUE, w.hash)
  BY <1>1, <1>2, <1>4, <1>5 DEF ThreadOk
<1>7. A(t) \in Mine(t) /\ A(t) \in Acts /\ Current(t, r, A(t))
  BY <1>1, <1>2, <1>4, <1>5, MineOf DEF Mine, Current
<1>10. w.act[A(t)] \in ActType /\ ActOk(w, A(t))
  BY <1>1, <1>7, Parts
<1> QED BY <1>1, <1>2, <1>4, <1>5, <1>6, <1>7, <1>10, Zenon DEF r

\* Reset keeps the invariant if epoll does not fail.
LEMMA ResetOk == ASSUME IInv, NEW t \in Threads, Reset(t), EpollFails = FALSE PROVE IInv'
<1> DEFINE a == A(t)
           r == th[t]
           k == K(t)
<1>0. One(t, "reset") /\ Step(t) /\ UNCHANGED <<cur, user>>
  BY DEF Reset
<1>1. /\ a \in Mine(t) /\ a \in Acts /\ Current(t, r, a) /\ w.act[a] \in ActType /\ ActOk(w, a)
      /\ TabOk(w) /\ w \in WType /\ ThreadOk(t, r, w) /\ r \in ThType /\ th \in [Threads -> ThType] /\ InputOk
      /\ r.pc = "reset" /\ r.poll = "no" /\ cur = t /\ r.i \in DOMAIN calls[t][r.call]
      /\ r.call \in DOMAIN calls[t] /\ StageOk(r, a, w.act[a], r.call, r.i, TRUE, w.hash)
  BY <1>0, ResetFacts
<1>2. k = w.act[a].conn
  BY DEF K
<1>3. th' = [th EXCEPT ![t] = StepOf(r)]
  BY <1>0, <1>1, OfSteps
<1>4. Late(t) <=> r.clk = 2
  BY SMTT(30) DEF Late
<1>5. \/ k = None /\ w' = w
      \/ /\ k # None
         /\ LET u == FreeConnection(w, k, w.act[a].err, FALSE)
            IN  w' = Drop(u, a, k, Late(t) /\ Contains(u.keep, k))
  BY Zenon DEF Reset, Fails, ForceFree, Drop
<1> HIDE DEF a, k, r
<1>6. CASE k = None /\ w' = w
  <2>1. TabOk(w') /\ Local(w, w', t) /\ Quiet(w, w')
    BY <1>1, <1>6 DEF Local, SameAct, Quiet
  <2>2. \A b \in Mine(t) : ActOk(w', b)
    BY <1>6 DEF IInv, Mine
  <2>3. ThreadOk(t, StepOf(r), w')
    BY <1>1, <1>2, <1>6, ResetThread
  <2> QED BY <1>0, <1>1, <1>3, <2>1, <2>2, <2>3, RunOk DEF r
<1>7. CASE k # None /\ LET u == FreeConnection(w, k, w.act[a].err, FALSE)
                       IN  w' = Drop(u, a, k, Late(t) /\ Contains(u.keep, k))
  <2>1. /\ k \in Conns /\ w.conn[k].act = a /\ ~Idle(w, k) /\ k \notin w.udp.wlist
        /\ w.conn[k].watch = None /\ w.conn[k].timer = FALSE
    <3>1. th[t].poll = "no" /\ w.act[a].conn # None
      BY <1>1, <1>2, <1>7 DEF r
    <3>2. Alone(a, w.act[a].conn)
      BY <1>1, <3>1, Unwatched
    <3> QED BY <1>2, <3>2 DEF Alone
  <2>2. ~Contains(w.keep, k)
    <3>1. DOMAIN w.keep = 1..Len(w.keep)
      BY <1>1, Parts, LenProperties
    <3> QED BY <2>1, <3>1 DEF Idle, Contains
  <2>3. PICK no : no = FALSE
    OBVIOUS
  <2> DEFINE u == FreeConnection(w, k, w.act[a].err, no)
             l == Late(t) /\ Contains(u.keep, k)
  <2>4. w.act[a].err \in BOOLEAN /\ w' = Drop(u, a, k, l)
    BY <1>1, <1>7, <2>3 DEF ActType
  <2>5. Closed(w, u, k) \/ (Attached(w, u, k) /\ k[1] = "tcp" /\ ~w.act[a].err /\ w.conn[k].st # "none")
    BY <1>1, <2>1, <2>2, <2>3, <2>4, FreeConnParts
  <2>6. l \in BOOLEAN
    OBVIOUS
  <2> HIDE DEF u
  <2>7. Closed(w, u, k) => l = FALSE
    BY <2>2 DEF Closed
  <2>8. Attached(w, u, k) => (l <=> r.clk = 2)
    <3> SUFFICES ASSUME Attached(w, u, k) PROVE Contains(u.keep, k)
      BY <1>4
    <3>1. u.keep = Append(w.keep, k) /\ w.keep \in Seq(Conns)
      BY <1>1, Parts DEF Attached
    <3>2. Len(w.keep) + 1 \in 1..Len(u.keep) /\ u.keep[Len(w.keep) + 1] = k
      BY <2>1, <3>1, AppendProperties, LenProperties
    <3> QED BY <3>2 DEF Contains
  <2>9. l \/ w.conn[k].late \/ Closed(w, u, k) \/ (w.conn[k].in = <<>> /\ w.conn[k].owes = <<>>)
    <3> SUFFICES ASSUME ~l, ~w.conn[k].late, ~Closed(w, u, k) PROVE w.conn[k].in = <<>> /\ w.conn[k].owes = <<>>
      OBVIOUS
    <3>1. ~w.act[a].err /\ k[1] = "tcp" /\ r.clk # 2
      BY <2>5, <2>8
    <3>2. r.clk < 2
      BY <1>1, <3>1 DEF ThType
    <3>3. w.act[a].flag # "send"
      BY <1>1, <3>1, <3>2 DEF StageOk
    <3>4. kind[a] = "tcp"
      BY <1>1, <1>2, <1>7, <3>1 DEF TabOk, Paired
    <3>5. Stream(a, w.act[a], w.conn[k])
      BY <1>1, <1>2, <1>7, <3>4 DEF ActOk
    <3> QED BY <3>3, <3>5 DEF Stream
  <2>10. u \in WType
    BY <2>5 DEF Closed, Attached
  <2> HIDE DEF l
  <2>11. Dropped(u, w', a, k, l)
    BY <1>1, <2>1, <2>4, <2>6, <2>10, DropParts
  <2>12. Freed(w, w', a, k)
    BY <1>1, <2>1, <2>5, <2>6, <2>7, <2>9, <2>11, BackFreed
  <2>13. TabOk(w') /\ \A b \in Acts \ {a} : SameAct(w, w', b)
    BY <1>1, <1>2, <1>7, <2>12, FreedOk
  <2>14. /\ w'.act[a].conn = None /\ w'.act[a].flag = w.act[a].flag /\ w'.act[a].err = w.act[a].err
         /\ w'.act[a].sconn = w.act[a].sconn /\ w'.hash = w.hash /\ w'.udp = w.udp
         /\ \A b \in Acts \ {a} : w'.act[b] = w.act[b]
         /\ \A m \in Conns \ {k} : w'.conn[m] = w.conn[m]
         /\ w'.conn[k].watch \in {None, "keep"}
    BY <2>12, NewConnType DEF Freed, PutBack
  <2>15. ActOk(w', a)
    BY <1>1, <2>14 DEF ActOk
  <2>16. \A b \in Mine(t) : ActOk(w', b)
    <3> SUFFICES ASSUME NEW b \in Mine(t), b # a PROVE ActOk(w', b)
      BY <2>15
    <3>1. b \in Acts /\ ActOk(w, b)
      BY DEF Mine, IInv
    <3> QED BY <2>13, <3>1, SameActOk
  <2>17. Local(w, w', t)
    BY <1>1, <2>13 DEF Local
  <2>18. Quiet(w, w')
    <3>1. w.udp.wlist \subseteq Conns
      BY <1>1, Parts DEF UdpType
    <3>2. None # "thread" /\ None # "hung"
      BY MsgAssumption
    <3> QED BY <2>1, <2>14, <3>1, <3>2 DEF Quiet
  <2>19. ThreadOk(t, StepOf(r), w')
    BY <1>1, <2>14, ResetThread
  <2> QED BY <1>0, <1>1, <1>3, <2>13, <2>16, <2>17, <2>18, <2>19, RunOk DEF r
<1> QED BY <1>5, <1>6, <1>7
----------------------------------------------------------------------------
(* The daemon thread and the back ends *)

\* What is watched is waited for as before when no thread polls for anything else.
LEMMA SameWatch ==
    ASSUME NEW s, NEW u, NEW ths, WatchOk(s, th), Quiet(s, u),
           \A t \in Threads : ths[t].poll = th[t].poll /\ ths[t].wait = th[t].wait
    PROVE  WatchOk(u, ths)
<1>2. ASSUME NEW k \in Conns, u.conn[k].watch \in {"thread", "hung"}
      PROVE  /\ k[1] # "session" /\ Used(u, k)
             /\ \E x \in Threads : ths[x].poll # "no" /\ \E m \in DOMAIN ths[x].wait : ths[x].wait[m] = u.conn[k].act
  <2>1. s.conn[k].watch \in {"thread", "hung"} /\ u.conn[k].act = s.conn[k].act
    BY <1>2 DEF Quiet
  <2>2. k[1] # "session" /\ Used(s, k)
    BY <1>2, <2>1 DEF WatchOk
  <2>3. PICK x \in Threads : th[x].poll # "no" /\ \E m \in DOMAIN th[x].wait : th[x].wait[m] = s.conn[k].act
    BY <1>2, <2>1 DEF WatchOk
  <2> QED BY <2>1, <2>2, <2>3 DEF Used
<1>3. ASSUME NEW k \in u.udp.wlist
      PROVE  /\ k[1] = "session" /\ Used(u, k)
             /\ \E x \in Threads : ths[x].poll = "out" /\ \E m \in DOMAIN ths[x].wait : ths[x].wait[m] = u.conn[k].act
  <2>1. k \in s.udp.wlist /\ u.conn[k].act = s.conn[k].act
    BY <1>3 DEF Quiet
  <2>2. k[1] = "session" /\ Used(s, k)
    BY <2>1 DEF WatchOk
  <2>3. PICK x \in Threads : th[x].poll = "out" /\ \E m \in DOMAIN th[x].wait : th[x].wait[m] = s.conn[k].act
    BY <2>1 DEF WatchOk
  <2> QED BY <2>1, <2>2, <2>3 DEF Used
<1> QED BY <1>2, <1>3 DEF WatchOk

\* A step that changes nothing an action relies on, and no thread.
LEMMA AsideOk ==
    ASSUME IInv, UNCHANGED <<th, cur, user>>, TabOk(w'), Quiet(w, w'), \A a \in Acts : SameAct(w, w', a)
    PROVE  IInv'
<1>1. /\ InputOk /\ th \in [Threads -> ThType] /\ WatchOk(w, th) /\ CurOk(cur, th)
      /\ (\A a \in Acts : ActOk(w, a)) /\ \A t \in Threads : ThreadOk(t, th[t], w)
  BY DEF IInv
<1>2. \A a \in Acts : ActOk(w', a)
  BY <1>1, SameActOk
<1>3. \A t \in Threads : ThreadOk(t, th[t], w')
  <2> SUFFICES ASSUME NEW t \in Threads PROVE ThreadOk(t, th[t], w')
    OBVIOUS
  <2>1. \A a \in Mine(t) : SameAct(w, w', a)
    BY DEF Mine
  <2>2. ThreadOk(t, th[t], w)
    BY <1>1
  <2> QED BY <1>1, <2>1, <2>2, SameThreadOk
<1>4. WatchOk(w', th')
  BY <1>1, SameWatch
<1> QED BY <1>1, <1>2, <1>3, <1>4, WholeOk

\* An idle connection taken out of the list, unwatched.
Pull(s, k) == [s EXCEPT !.conn[k].timer = FALSE, !.conn[k].watch = None, !.keep = RemoveFirst(@, k)]

\* Pull, part by part.
LEMMA PullParts ==
    ASSUME NEW s, TabOk(s), NEW k \in Conns, Idle(s, k)
    PROVE  LET u == Pull(s, k) IN
           /\ u \in WType /\ u.act = s.act /\ u.pool = s.pool /\ u.total = s.total /\ u.hash = s.hash /\ u.udp = s.udp
           /\ u.conn[k].timer = FALSE /\ \A m \in Conns \ {k} : u.conn[m] = s.conn[m]
           /\ u.keep = RemoveFirst(s.keep, k)
<1> DEFINE c == [s.conn[k] EXCEPT !.timer = FALSE, !.watch = None]
           q == RemoveFirst(s.keep, k)
           u == [s EXCEPT !.conn[k] = c, !.keep = q]
<1>1. s \in WType /\ s.keep \in Seq(Conns) /\ NoDup(s.keep) /\ In(s.keep, k) /\ s.conn[k] \in ConnType
  BY TabLists, Parts
<1>2. q \in Seq(Conns)
  BY <1>1, RemoveNoDup
<1>3. c \in ConnType /\ c.timer = FALSE
  BY <1>1 DEF ConnType
<1>4. Pull(s, k) = u
  BY <1>1 DEF Pull, WType
<1> HIDE DEF c, q
<1>5. /\ u \in WType /\ u.act = s.act /\ u.pool = s.pool /\ u.total = s.total /\ u.hash = s.hash /\ u.udp = s.udp
      /\ u.conn[k].timer = FALSE /\ \A m \in Conns \ {k} : u.conn[m] = s.conn[m]
      /\ u.keep = q
  BY <1>1, <1>2, <1>3 DEF WType
<1> HIDE DEF u
<1> QED BY <1>4, <1>5 DEF q

\* Both ways to close an idle connection pull it and free it.
LEMMA CloseIs ==
    ASSUME TabOk(w), NEW k \in Conns, Idle(w, k)
    PROVE  /\ CloseIdleTcpKeep(w, k) = ResetFree(Pull(w, k), k)
           /\ CloseIdleTcpKeep([w EXCEPT !.conn[k].timer = FALSE], k) = ResetFree(Pull(w, k), k)
<1>1. /\ w \in WType /\ w.conn[k] \in ConnType /\ w.conn[k].watch = "keep" /\ w.conn[k].st # "none"
  BY Parts DEF TabOk, Kept
<1>2. [IdleDetach(w, k) EXCEPT !.keep = RemoveFirst(@, k)] = Pull(w, k)
  BY <1>1 DEF IdleDetach, Pull, WType
<1> DEFINE s == [w EXCEPT !.conn[k].timer = FALSE]
<1>3. s.conn[k].watch = "keep" /\ s.conn[k].st # "none"
  BY <1>1 DEF WType, ConnType
<1>4. [IdleDetach(s, k) EXCEPT !.keep = RemoveFirst(@, k)] = Pull(w, k)
  <2>1. IdleDetach(s, k) = [s EXCEPT !.conn[k].timer = FALSE, !.conn[k].watch = None]
    BY <1>3 DEF IdleDetach
  <2>2. [s EXCEPT !.conn[k].timer = FALSE, !.conn[k].watch = None]
          = [w EXCEPT !.conn[k].timer = FALSE, !.conn[k].watch = None]
    <3> DEFINE off(x) == [x EXCEPT !.timer = FALSE, !.watch = None]
               c == w.conn[k]
               d == [c EXCEPT !.timer = FALSE]
    <3>1. ASSUME NEW x \in WType
          PROVE  [x EXCEPT !.conn[k].timer = FALSE, !.conn[k].watch = None] = [x EXCEPT !.conn[k] = off(x.conn[k])]
      BY DEF WType
    <3>2. s = [w EXCEPT !.conn[k] = d]
      BY <1>1 DEF WType
    <3>3. d \in ConnType /\ off(d) = off(c)
      BY <1>1 DEF ConnType
    <3>4. s \in WType /\ s.conn[k] = d
      <4> HIDE DEF s, d
      <4> QED BY <1>1, <3>2, <3>3 DEF WType
    <3>5. [s EXCEPT !.conn[k].timer = FALSE, !.conn[k].watch = None] = [s EXCEPT !.conn[k] = off(c)]
      <4> HIDE DEF s, d
      <4> QED BY <3>1, <3>3, <3>4, ZenonT(30)
    <3>6. [w EXCEPT !.conn[k].timer = FALSE, !.conn[k].watch = None] = [w EXCEPT !.conn[k] = off(c)]
      BY <1>1, <3>1
    <3>7. [s EXCEPT !.conn[k] = off(c)] = [w EXCEPT !.conn[k] = off(c)]
      <4> DEFINE e == off(c)
      <4> HIDE DEF s, d, e
      <4>1. [s EXCEPT !.conn[k] = e] = [w EXCEPT !.conn[k] = e]
        BY <1>1, <3>2 DEF WType
      <4> QED BY <4>1 DEF e
    <3> QED BY <3>5, <3>6, <3>7
  <2>3. IdleDetach(s, k) = [w EXCEPT !.conn[k].timer = FALSE, !.conn[k].watch = None]
    BY <2>1, <2>2
  <2> HIDE DEF s
  <2> QED BY <1>1, <2>3 DEF Pull, WType
<1>5. CloseIdleTcpKeep(w, k) = ResetFree(Pull(w, k), k)
  BY <1>1, <1>2 DEF CloseIdleTcpKeep
<1>6. CloseIdleTcpKeep(s, k) = ResetFree(Pull(w, k), k)
  <2> HIDE DEF s
  <2> QED BY <1>3, <1>4 DEF CloseIdleTcpKeep
<1> QED BY <1>5, <1>6

\* v is s with the idle connection k closed.
IdleClosed(s, v, k) ==
    /\ v \in WType /\ v.act = s.act /\ v.total = s.total /\ v.hash = s.hash /\ v.udp = s.udp
    /\ v.conn[k] = NewConn /\ \A m \in Conns \ {k} : v.conn[m] = s.conn[m]
    /\ v.pool[k[1]] = Append(s.pool[k[1]], k) /\ \A d \in Kinds \ {k[1]} : v.pool[d] = s.pool[d]
    /\ v.keep = RemoveFirst(s.keep, k)

\* That leaves everything else as it is.
LEMMA IdleClosedOk ==
    ASSUME NEW s, NEW v, TabOk(s), NEW k \in Conns, Idle(s, k), IdleClosed(s, v, k),
           \A l \in s.udp.wlist : l \in Conns /\ Used(s, l)
    PROVE  TabOk(v) /\ Quiet(s, v) /\ \A a \in Acts : SameAct(s, v, a)
<1>1. /\ s \in WType /\ s.keep \in Seq(Conns) /\ NoDup(s.keep)
      /\ \A d \in Kinds : s.pool[d] \in Seq(Conns) /\ NoDup(s.pool[d]) /\ \A l : In(s.pool[d], l) => l \in Conns /\ l[1] = d
      /\ \A l : Idle(s, l) <=> In(s.keep, l)
      /\ \A l \in Conns : l[1] \in Kinds /\ (Free(s, l) <=> In(s.pool[l[1]], l))
  BY TabLists
<1>2. ~Used(s, k) /\ ~Free(s, k) /\ Made(s, k)
  BY DEF TabOk, Placed
<1>3. NoDup(v.keep) /\ \A l : In(v.keep, l) <=> In(s.keep, l) /\ l # k
  BY <1>1, RemoveNoDup DEF IdleClosed
<1>4. NoDup(v.pool[k[1]]) /\ \A l : In(v.pool[k[1]], l) <=> In(s.pool[k[1]], l) \/ l = k
  BY <1>1, <1>2, AppendNoDup DEF IdleClosed
<1>5. \A d \in Kinds : NoDup(v.pool[d]) /\ \A i \in DOMAIN v.pool[d] : v.pool[d][i][1] = d
  <2> SUFFICES ASSUME NEW d \in Kinds PROVE NoDup(v.pool[d]) /\ \A l : In(v.pool[d], l) => l[1] = d
    BY DEF In
  <2>1. CASE d = k[1]
    BY <1>1, <1>4, <2>1
  <2>2. CASE d # k[1]
    BY <1>1, <2>2 DEF IdleClosed
  <2> QED BY <2>1, <2>2
<1>6. \A l \in Conns : /\ Idle(v, l) <=> Idle(s, l) /\ l # k
                       /\ Free(v, l) <=> Free(s, l) \/ l = k
                       /\ Made(v, l) <=> Made(s, l)
                       /\ Used(v, l) <=> Used(s, l)
  <2> SUFFICES ASSUME NEW l \in Conns
               PROVE  /\ Idle(v, l) <=> Idle(s, l) /\ l # k
                      /\ Free(v, l) <=> Free(s, l) \/ l = k
                      /\ Made(v, l) <=> Made(s, l)
                      /\ Used(v, l) <=> Used(s, l)
    OBVIOUS
  <2>1. Idle(v, l) <=> In(v.keep, l)
    BY DEF Idle, In
  <2>2. Free(v, l) <=> In(v.pool[l[1]], l)
    BY DEF Free, In
  <2>3. Free(v, l) <=> Free(s, l) \/ l = k
    BY <1>1, <1>4, <2>2 DEF IdleClosed
  <2>4. Used(v, l) <=> Used(s, l)
    BY <1>2, NewConnType DEF IdleClosed, Used
  <2> QED BY <1>1, <1>3, <2>1, <2>3, <2>4 DEF IdleClosed, Made
<1>7. Placed(v, {})
  BY <1>2, <1>3, <1>5, <1>6 DEF TabOk, Placed
<1>8. Kept(v)
  <2> SUFFICES ASSUME NEW l \in Conns
               PROVE  /\ v.conn[l].timer <=> Idle(v, l)
                      /\ v.conn[l].watch = "keep" <=> Idle(v, l)
                      /\ Idle(v, l) => v.conn[l].st # "none" /\ v.conn[l].buf = None
                      /\ Idle(v, l) /\ ~v.conn[l].late => v.conn[l].in = <<>> /\ v.conn[l].owes = <<>>
                      /\ ~Idle(v, l) /\ ~Used(v, l) => v.conn[l] = NewConn
    BY DEF Kept
  <2>1. CASE l = k
    BY <1>6, <2>1, NewConnType, MsgAssumption DEF IdleClosed
  <2>2. CASE l # k
    BY <1>6, <2>2 DEF TabOk, Kept, IdleClosed
  <2> QED BY <2>1, <2>2
<1>9. \A a \in Acts : s.act[a].conn # k /\ (s.act[a].conn # None => s.act[a].conn \in Conns)
  <2>1. None \notin Acts /\ k # None
    BY MsgAssumption
  <2> QED BY <1>1, <1>2, <2>1, Parts DEF TabOk, Paired, ActType, Used
<1>10. \A l \in Conns : Used(s, l) => l # k /\ s.conn[l].act \in Acts
  BY <1>1, <1>2, Parts DEF ConnType, Used
<1>11. Paired(v)
  BY <1>6, <1>9, <1>10 DEF TabOk, Paired, IdleClosed
<1>12. Quiet(s, v)
  <2>1. None # "thread" /\ None # "hung"
    BY MsgAssumption
  <2> QED BY <1>2, <2>1, NewConnType DEF Quiet, IdleClosed
<1>13. \A a \in Acts : SameAct(s, v, a)
  BY <1>9 DEF SameAct, IdleClosed
<1> QED BY <1>7, <1>8, <1>11, <1>12, <1>13 DEF TabOk, IdleClosed

\* Closing an idle connection keeps the invariant.
LEMMA CloseOk ==
    ASSUME IInv, NEW k \in Conns, Idle(w, k), w' = ResetFree(Pull(w, k), k), UNCHANGED <<th, cur, user>>
    PROVE  IInv'
<1> DEFINE u == Pull(w, k)
<1>1. TabOk(w) /\ w \in WType /\ \A l \in w.udp.wlist : l \in Conns /\ Used(w, l)
  BY Parts DEF IInv, TabOk, WatchOk, UdpType
<1>2. /\ u \in WType /\ u.act = w.act /\ u.pool = w.pool /\ u.total = w.total /\ u.hash = w.hash /\ u.udp = w.udp
      /\ u.conn[k].timer = FALSE /\ \A m \in Conns \ {k} : u.conn[m] = w.conn[m]
      /\ u.keep = RemoveFirst(w.keep, k)
  BY <1>1, PullParts
<1> HIDE DEF u
<1>3. Closed(u, w', k)
  <2>1. w' = ResetFree(u, k)
    BY DEF u
  <2> QED BY <1>2, <2>1, ResetFreeParts
<1>4. IdleClosed(w, w', k)
  BY <1>2, <1>3 DEF Closed, IdleClosed
<1>5. TabOk(w') /\ Quiet(w, w') /\ \A a \in Acts : SameAct(w, w', a)
  BY <1>1, <1>4, IdleClosedOk
<1> QED BY <1>5, AsideOk

\* KeepEvent and TimerNotify keep the invariant.
LEMMA KeepEventOk == ASSUME IInv, NEW k \in Conns, KeepEvent(k) \/ TimerNotify(k) PROVE IInv'
<1>1. TabOk(w)
  BY DEF IInv
<1>2. Idle(w, k)
  BY <1>1 DEF TabOk, Kept, KeepEvent, TimerNotify
<1>3. w' = ResetFree(Pull(w, k), k)
  BY <1>1, <1>2, CloseIs DEF KeepEvent, TimerNotify
<1> QED BY <1>2, <1>3, CloseOk DEF KeepEvent, TimerNotify

\* A thread whose clock went on, whose requests are as they were: the daemon touches no more.
LEMMA ThreadKeeps ==
    ASSUME InputOk, NEW t \in Threads, NEW r, NEW q \in ThType, NEW s, NEW u, ThreadOk(t, r, s),
           q.call = r.call, q.pc = r.pc, q.i = r.i, q.wait = r.wait, q.poll = r.poll, r.clk <= q.clk,
           \A a \in Mine(t) : u.act[a] = s.act[a], u.hash = s.hash,
           \A a \in Mine(t) : s.act[a].conn # None =>
               r.poll # "no" \/ u.conn[s.act[a].conn].buf = s.conn[s.act[a].conn].buf
    PROVE  ThreadOk(t, q, u)
<1>1. Busy(q) <=> Busy(r)
  BY DEF Busy
<1>2. r.clk \in 0..2 /\ q.clk \in 0..2 /\ (q.clk < 2 => r.clk < 2)
  BY SMTT(30) DEF ThreadOk, ThType
<1>3. \A c \in DOMAIN calls[t] : \A j \in DOMAIN calls[t][c] :
         StageOk(q, calls[t][c][j], u.act[calls[t][c][j]], c, j, Busy(q) /\ c = q.call, u.hash)
  <2> SUFFICES ASSUME NEW c \in DOMAIN calls[t], NEW j \in DOMAIN calls[t][c]
               PROVE  StageOk(q, calls[t][c][j], u.act[calls[t][c][j]], c, j, Busy(q) /\ c = q.call, u.hash)
    OBVIOUS
  <2>1. u.act[calls[t][c][j]] = s.act[calls[t][c][j]]
    BY MineOf
  <2>2. StageOk(r, calls[t][c][j], s.act[calls[t][c][j]], c, j, Busy(r) /\ c = r.call, s.hash)
    BY SMTT(30) DEF ThreadOk
  <2> QED BY <1>1, <1>2, <2>1, <2>2 DEF StageOk
<1>4. WaitOk(t, q, u)
  <2>1. WaitOk(t, r, s)
    BY DEF ThreadOk
  <2> SUFFICES ASSUME NEW m \in DOMAIN r.wait
               PROVE  /\ r.pc = "send" => u.act[r.wait[m]].flag # "send"
                      /\ r.pc = "recv" /\ r.poll = "no" /\ kind[r.wait[m]] = "session" /\ ~KeepActs =>
                            u.conn[u.act[r.wait[m]].conn].buf \notin Acts
    BY <2>1, SMTT(30) DEF WaitOk
  <2>2. Busy(r) /\ r.call \in DOMAIN calls[t]
    <3>1. r.wait # <<>>
      BY EmptySeq
    <3> QED BY <2>1, <3>1 DEF WaitOk, ThreadOk, Busy
  <2>3. PICK j \in DOMAIN calls[t][r.call] : calls[t][r.call][j] = r.wait[m]
    BY <2>1 DEF WaitOk
  <2>4. r.wait[m] \in Mine(t)
    BY <2>2, <2>3, MineOf
  <2>5. StageOk(r, r.wait[m], s.act[r.wait[m]], r.call, j, TRUE, s.hash)
    BY <2>2, <2>3 DEF ThreadOk
  <2>6. r.pc = "recv" => s.act[r.wait[m]].conn # None
    BY <2>5 DEF StageOk
  <2> QED BY <2>1, <2>4, <2>6 DEF WaitOk
<1> QED BY <1>1, <1>3, <1>4 DEF ThreadOk

\* While the daemon runs, a thread with a connection polls.
LEMMA DaemonPolls ==
    ASSUME IInv, cur \in {"dispatch", "clock", "timer"}, NEW t \in Threads
    PROVE  /\ Busy(th[t]) => th[t].poll # "no"
           /\ \A a \in Mine(t) : w.act[a].conn # None => th[t].poll # "no"
<1>1. CurOk(cur, th) /\ ThreadOk(t, th[t], w) /\ cur # t /\ InputOk
  BY MsgAssumption DEF IInv
<1>2. Busy(th[t]) => th[t].poll # "no"
  BY <1>1 DEF CurOk
<1>3. ASSUME NEW a \in Mine(t), w.act[a].conn # None PROVE Busy(th[t])
  <2> DEFINE r == th[t]
  <2> HIDE DEF r
  <2>1. PICK c \in DOMAIN calls[t] : \E j \in DOMAIN calls[t][c] : calls[t][c][j] = a
    BY DEF Mine
  <2>2. PICK j \in DOMAIN calls[t][c] : calls[t][c][j] = a
    BY <2>1
  <2>3. StageOk(r, calls[t][c][j], w.act[calls[t][c][j]], c, j, Busy(r) /\ c = r.call, w.hash)
    BY <1>1 DEF ThreadOk, r
  <2>4. Busy(r)
    BY <1>3, <2>2, <2>3 DEF StageOk
  <2> QED BY <2>4 DEF r
<1> QED BY <1>2, <1>3

\* Nobody starts or ends a poll.
LEMMA SameCur ==
    ASSUME CurOk(cur, th), NEW ths, \A t \in Threads : ths[t].poll = th[t].poll /\ ths[t].pc = th[t].pc
    PROVE  CurOk(cur, ths)
BY DEF CurOk, Busy

\* What may happen to connection k: it becomes c.
Happens(k, c) ==
    LET d == w.conn[k]
        a == d.act
    IN  /\ c.act = a /\ c.timer = d.timer /\ (c.watch = "keep" <=> d.watch = "keep")
        /\ c.watch \in {"thread", "hung"} => d.watch \in {"thread", "hung"}
        /\ Idle(w, k) => /\ c.st # "none" /\ c.buf = d.buf /\ c.late = d.late
                         /\ d.in = <<>> /\ d.owes = <<>> => c.in = <<>> /\ c.owes = <<>>
        /\ Idle(w, k) \/ Used(w, k)
        /\ Used(w, k) => /\ kind[a] = "session" => Session(a, w.act[a], c, w.udp.asked)
                         /\ kind[a] # "session" /\ ~c.late => Stream(a, w.act[a], c)

\* u is w with that, and v for the shared socket.
Happened(u, k, c, v) ==
    /\ u.act = w.act /\ u.hash = w.hash /\ u.udp = v /\ u.conn[k] = c
    /\ \A l \in Conns \ {k} : u.conn[l] = w.conn[l]

\* The table then.
LEMMA HappensOk ==
    ASSUME IInv, NEW k \in Conns, NEW c \in ConnType, NEW v \in UdpType, Happens(k, c),
           v.asked = w.udp.asked, v.wlist = w.udp.wlist, v.in \subseteq w.udp.in,
           w' = [w EXCEPT !.conn[k] = c, !.udp = v]
    PROVE  TabOk(w') /\ Quiet(w, w') /\ (\A a \in Acts : ActOk(w', a)) /\ Happened(w', k, c, v)
<1> DEFINE u == [w EXCEPT !.conn[k] = c, !.udp = v]
<1>1. TabOk(w) /\ w \in WType /\ \A a \in Acts : ActOk(w, a)
  BY DEF IInv, TabOk
<1>2. /\ u \in WType /\ u.keep = w.keep /\ u.pool = w.pool /\ u.total = w.total /\ u.hash = w.hash /\ u.act = w.act
      /\ u.udp = v /\ u.conn[k] = c /\ \A l \in Conns \ {k} : u.conn[l] = w.conn[l]
  BY <1>1 DEF WType
<1>3. w' = u
  OBVIOUS
<1> HIDE DEF u
<1>4. Happened(u, k, c, v)
  BY <1>2 DEF Happened
<1>5. Like(w, u)
  BY <1>1, <1>2, LikeSelf DEF Like, Happens
<1>6. Quiet(w, u)
  <2>1. w.udp.wlist \subseteq Conns
    BY <1>1, Parts DEF UdpType
  <2> QED BY <1>2, <2>1 DEF Quiet, Happens
<1>7. ASSUME NEW a \in Acts PROVE ActOk(u, a)
  <2>1. CASE w.act[a].conn # k
    <3>1. w.act[a].conn # None => w.act[a].conn \in Conns
      BY <1>1, Parts DEF ActType
    <3>2. SameAct(w, u, a)
      BY <1>2, <2>1, <3>1 DEF SameAct
    <3> QED BY <1>1, <3>2, SameActOk
  <2>2. CASE w.act[a].conn = k
    <3>1. k # None /\ a # None
      BY MsgAssumption
    <3>2. w.conn[k].act = a /\ Used(w, k)
      BY <1>1, <2>2, <3>1 DEF TabOk, Paired, Used
    <3>3. /\ kind[a] = "session" => Session(a, w.act[a], c, w.udp.asked)
          /\ kind[a] # "session" /\ ~c.late => Stream(a, w.act[a], c)
      BY <3>2 DEF Happens
    <3>4. ActOk(w, a)
      BY <1>1
    <3>5. u.act[a] = w.act[a] /\ u.hash = w.hash /\ u.udp.asked = w.udp.asked /\ u.conn[u.act[a].conn] = c
          /\ (a \in u.udp.in => a \in w.udp.in)
      BY <1>2, <2>2
    <3> QED BY <3>3, <3>4, <3>5 DEF ActOk
  <2> QED BY <2>1, <2>2
<1>8. TabOk(u)
  BY <1>1, <1>5, LikeTab
<1> QED BY <1>3, <1>4, <1>6, <1>7, <1>8

\* Something that happens to a connection whose buffer is left alone, threads being woken at most.
LEMMA HappenedOk ==
    ASSUME IInv, UNCHANGED <<cur, user>>, NEW k \in Conns, NEW c, NEW v, TabOk(w'), Quiet(w, w'), \A a \in Acts : ActOk(w', a),
           Happened(w', k, c, v), c.buf = w.conn[k].buf \/ cur \in {"dispatch", "clock", "timer"},
           th' \in [Threads -> ThType],
           \A t \in Threads : /\ th'[t].call = th[t].call /\ th'[t].pc = th[t].pc /\ th'[t].i = th[t].i
                              /\ th'[t].wait = th[t].wait /\ th'[t].poll = th[t].poll /\ th'[t].clk = th[t].clk
    PROVE  IInv'
<1>1. /\ InputOk /\ TabOk(w) /\ th \in [Threads -> ThType] /\ WatchOk(w, th) /\ CurOk(cur, th)
      /\ \A t \in Threads : ThreadOk(t, th[t], w)
  BY DEF IInv
<1>2. ASSUME NEW t \in Threads PROVE ThreadOk(t, th'[t], w')
  <2>1. /\ th'[t] \in ThType /\ th'[t].call = th[t].call /\ th'[t].pc = th[t].pc /\ th'[t].i = th[t].i
        /\ th'[t].wait = th[t].wait /\ th'[t].poll = th[t].poll /\ th[t].clk <= th'[t].clk /\ ThreadOk(t, th[t], w)
    <3>1. th[t] \in ThType /\ th'[t] \in ThType
      BY <1>1
    <3>2. th[t].clk <= th'[t].clk
      BY <3>1 DEF ThType
    <3> QED BY <1>1, <3>1, <3>2
  <2>2. \A a \in Mine(t) : w'.act[a] = w.act[a]
    BY DEF Happened
  <2>3. w'.hash = w.hash
    BY DEF Happened
  <2>4. ASSUME NEW a \in Mine(t), w.act[a].conn # None
        PROVE  th[t].poll # "no" \/ w'.conn[w.act[a].conn].buf = w.conn[w.act[a].conn].buf
    <3>1. CASE c.buf = w.conn[k].buf
      <4>1. a \in Acts
        BY DEF Mine
      <4>2. w.act[a].conn \in Conns
        BY <1>1, <2>4, <4>1, Parts DEF TabOk, ActType
      <4> QED BY <3>1, <4>2 DEF Happened
    <3>2. CASE cur \in {"dispatch", "clock", "timer"}
      BY <2>4, <3>2, DaemonPolls
    <3> QED BY <3>1, <3>2
  <2> QED BY <1>1, <2>1, <2>2, <2>3, <2>4, ThreadKeeps
<1>3. WatchOk(w', th')
  BY <1>1, SameWatch
<1>4. CurOk(cur', th')
  BY <1>1, SameCur
<1> QED BY <1>2, <1>3, <1>4, WholeOk

\* What may happen to a connection, by its new record.
LEMMA ConnHappens ==
    ASSUME IInv, NEW k \in Conns, NEW c \in ConnType, Happens(k, c), w' = [w EXCEPT !.conn[k] = c],
           UNCHANGED <<cur, user>>, c.buf = w.conn[k].buf, th' \in [Threads -> ThType],
           \A t \in Threads : /\ th'[t].call = th[t].call /\ th'[t].pc = th[t].pc /\ th'[t].i = th[t].i
                              /\ th'[t].wait = th[t].wait /\ th'[t].poll = th[t].poll /\ th'[t].clk = th[t].clk
    PROVE  IInv'
<1> DEFINE v == w.udp
<1>1. w \in WType /\ v \in UdpType
  BY Parts DEF IInv, TabOk
<1>2. w' = [w EXCEPT !.conn[k] = c, !.udp = v]
  BY <1>1 DEF WType
<1> HIDE DEF v
<1>3. v.asked = w.udp.asked /\ v.wlist = w.udp.wlist /\ v.in \subseteq w.udp.in
  BY DEF v
<1>4. TabOk(w') /\ Quiet(w, w') /\ (\A a \in Acts : ActOk(w', a)) /\ Happened(w', k, c, v)
  BY <1>1, <1>2, <1>3, HappensOk
<1> QED BY <1>4, HappenedOk

\* What is known of a connection that is used or idle.
LEMMA LiveFacts ==
    ASSUME IInv, NEW k \in Conns, w.conn[k] # NewConn
    PROVE  /\ Idle(w, k) \/ Used(w, k)
           /\ Idle(w, k) => ~Used(w, k) /\ w.conn[k].st # "none"
           /\ Idle(w, k) /\ ~w.conn[k].late => w.conn[k].in = <<>> /\ w.conn[k].owes = <<>>
           /\ Used(w, k) => LET a == w.conn[k].act IN
                            /\ a \in Acts /\ w.act[a].conn = k /\ kind[a] = k[1]
                            /\ kind[a] = "session" => Session(a, w.act[a], w.conn[k], w.udp.asked)
                            /\ kind[a] # "session" /\ ~w.conn[k].late => Stream(a, w.act[a], w.conn[k])
<1>1. TabOk(w) /\ w \in WType /\ \A a \in Acts : ActOk(w, a)
  BY DEF IInv, TabOk
<1>2. /\ Idle(w, k) \/ Used(w, k)
      /\ Idle(w, k) => ~Used(w, k) /\ w.conn[k].st # "none"
      /\ Idle(w, k) /\ ~w.conn[k].late => w.conn[k].in = <<>> /\ w.conn[k].owes = <<>>
  BY <1>1 DEF TabOk, Kept, Placed
<1>3. ASSUME Used(w, k)
      PROVE  LET a == w.conn[k].act IN
             /\ a \in Acts /\ w.act[a].conn = k /\ kind[a] = k[1]
             /\ kind[a] = "session" => Session(a, w.act[a], w.conn[k], w.udp.asked)
             /\ kind[a] # "session" /\ ~w.conn[k].late => Stream(a, w.act[a], w.conn[k])
  <2> DEFINE a == w.conn[k].act
  <2>1. a \in Acts
    BY <1>1, <1>3, Parts DEF ConnType, Used
  <2>2. w.act[a].conn = k /\ k # None
    BY <1>1, <1>3, MsgAssumption DEF TabOk, Paired
  <2>3. kind[a] = k[1]
    BY <1>1, <2>1, <2>2 DEF TabOk, Paired
  <2> HIDE DEF a
  <2>4. ActOk(w, a)
    BY <1>1, <2>1
  <2>5. /\ kind[a] = "session" => Session(a, w.act[a], w.conn[k], w.udp.asked)
        /\ kind[a] # "session" /\ ~w.conn[k].late => Stream(a, w.act[a], w.conn[k])
    BY <2>2, <2>4 DEF ActOk
  <2> QED BY <2>1, <2>2, <2>3, <2>5 DEF a
<1> QED BY <1>2, <1>3

\* The first element of a list moves to another.
MoveOf(d) == [d EXCEPT !.owes = Tail(d.owes), !.in = Append(d.in, Head(d.owes))]

\* MoveOf, field by field.
LEMMA MoveFields ==
    ASSUME NEW d \in ConnType, d.owes # <<>>
    PROVE  /\ MoveOf(d) \in ConnType /\ MoveOf(d).owes = Tail(d.owes) /\ MoveOf(d).in = Append(d.in, Head(d.owes))
           /\ MoveOf(d).act = d.act /\ MoveOf(d).timer = d.timer /\ MoveOf(d).watch = d.watch /\ MoveOf(d).st = d.st
           /\ MoveOf(d).buf = d.buf /\ MoveOf(d).late = d.late /\ MoveOf(d).ev = d.ev
<1> DEFINE p == Tail(d.owes)
           q == Append(d.in, Head(d.owes))
           c == [d EXCEPT !.owes = p, !.in = q]
<1>1. d.owes \in Seq(Acts) /\ d.in \in Seq(Acts)
  BY DEF ConnType
<1>2. p \in Seq(Acts) /\ q \in Seq(Acts)
  BY <1>1, HeadTailProperties, AppendProperties
<1> HIDE DEF p, q
<1>3. /\ c \in ConnType /\ c.owes = p /\ c.in = q /\ c.act = d.act /\ c.timer = d.timer /\ c.watch = d.watch /\ c.st = d.st
      /\ c.buf = d.buf /\ c.late = d.late /\ c.ev = d.ev
  BY <1>2 DEF ConnType
<1> QED BY <1>3 DEF MoveOf, p, q

\* An answer of a back end keeps the invariant.
LEMMA AnswerOk == ASSUME IInv, NEW k \in Conns, Answer(k) PROVE IInv'
<1> DEFINE d == w.conn[k]
           c == MoveOf(d)
<1>1. w \in WType /\ d \in ConnType /\ d.owes # <<>> /\ th \in [Threads -> ThType]
  BY Parts DEF IInv, TabOk, Answer
<1>2. w' = [w EXCEPT !.conn[k] = c] /\ UNCHANGED <<th, cur, user>>
  BY <1>1, ZenonT(30) DEF Answer, MoveOf, WType, ConnType
<1>3. d # NewConn
  BY <1>1, NewConnType
<1>4. /\ c \in ConnType /\ c.owes = Tail(d.owes) /\ c.in = Append(d.in, Head(d.owes))
      /\ c.act = d.act /\ c.timer = d.timer /\ c.watch = d.watch /\ c.st = d.st
      /\ c.buf = d.buf /\ c.late = d.late /\ c.ev = d.ev
  BY <1>1, MoveFields
<1> HIDE DEF c
<1>5. ASSUME Used(w, k) PROVE /\ kind[d.act] = "session" => Session(d.act, w.act[d.act], c, w.udp.asked)
                              /\ kind[d.act] # "session" /\ ~c.late => Stream(d.act, w.act[d.act], c)
  <2> DEFINE a == d.act
  <2>1. /\ kind[a] = "session" => Session(a, w.act[a], d, w.udp.asked)
        /\ kind[a] # "session" /\ ~d.late => Stream(a, w.act[a], d)
    BY <1>3, <1>5, LiveFacts
  <2>2. kind[a] = "session" => Session(a, w.act[a], c, w.udp.asked)
    BY <1>4, <2>1 DEF Session
  <2>3. ASSUME kind[a] # "session", ~c.late PROVE Stream(a, w.act[a], c)
    <3> HIDE DEF a
    <3>1. Stream(a, w.act[a], d)
      BY <1>4, <2>1, <2>3
    <3> HIDE DEF d
    <3>2. w.act[a].flag = "send"
      BY <1>1, <3>1 DEF Stream
    <3>3. /\ d.in \in Seq(Acts) /\ d.owes \in Seq(Acts) /\ Len(d.in) \in Nat /\ Len(d.owes) \in Nat \ {0}
          /\ Len(d.in) + Len(d.owes) <= 1 /\ 1 \in DOMAIN d.owes
      <4>1. d.in \in Seq(Acts) /\ d.owes \in Seq(Acts)
        BY <1>1 DEF ConnType
      <4>2. Len(d.in) \in Nat /\ Len(d.owes) \in Nat /\ DOMAIN d.owes = 1..Len(d.owes) /\ Len(d.owes) # 0
        BY <1>1, <4>1, LenProperties, EmptySeq
      <4>3. Len(d.in) + Len(d.owes) <= 1
        BY <3>1, <3>2 DEF Stream
      <4>4. 1 \in DOMAIN d.owes
        <5> DEFINE m == Len(d.owes)
        <5>1. m \in Nat /\ m # 0 /\ DOMAIN d.owes = 1..m
          BY <4>2
        <5> HIDE DEF m
        <5> QED BY <5>1
      <4> QED BY <4>1, <4>2, <4>3, <4>4
    <3>4. Len(d.in) = 0 /\ Len(d.owes) = 1
      <4> DEFINE n == Len(d.in)
                 m == Len(d.owes)
      <4>1. n \in Nat /\ m \in Nat \ {0} /\ n + m <= 1
        BY <3>3
      <4> HIDE DEF n, m
      <4>2. n = 0 /\ m = 1
        BY <4>1
      <4> QED BY <4>2 DEF n, m
    <3>5. d.in = <<>> /\ Head(d.owes) = a /\ Head(d.owes) \in Acts
      <4>1. d.in = <<>>
        BY <3>3, <3>4, EmptySeq
      <4>2. Head(d.owes) = d.owes[1] /\ Head(d.owes) \in Acts
        BY <1>1, <3>3, HeadTailProperties
      <4> QED BY <3>1, <3>2, <3>3, <4>1, <4>2 DEF Stream
    <3>6. c.owes = <<>>
      <4>1. Tail(d.owes) \in Seq(Acts) /\ Len(Tail(d.owes)) = 0
        BY <1>1, <3>3, <3>4, HeadTailProperties
      <4> QED BY <1>4, <4>1, EmptySeq
    <3>7. Len(c.in) = 1 /\ DOMAIN c.in = 1..1 /\ c.in[1] = a
      BY <1>4, <3>3, <3>4, <3>5, AppendFacts, AppendProperties
    <3>8. Len(c.owes) = 0 /\ DOMAIN c.owes = {}
      BY <3>6, SMTT(30)
    <3> QED BY <3>2, <3>7, <3>8 DEF Stream
  <2> QED BY <2>2, <2>3
<1>6. Happens(k, c)
  BY <1>1, <1>3, <1>4, <1>5, LiveFacts DEF Happens
<1> QED BY <1>1, <1>2, <1>4, <1>6, ConnHappens

\* A connection closed by the back end.
EofOf(d) == [d EXCEPT !.eof = TRUE, !.owes = <<>>]

\* EofOf, field by field.
LEMMA EofFields ==
    ASSUME NEW d \in ConnType
    PROVE  /\ EofOf(d) \in ConnType /\ EofOf(d).owes = <<>> /\ EofOf(d).in = d.in
           /\ EofOf(d).act = d.act /\ EofOf(d).timer = d.timer /\ EofOf(d).watch = d.watch /\ EofOf(d).st = d.st
           /\ EofOf(d).buf = d.buf /\ EofOf(d).late = d.late /\ EofOf(d).ev = d.ev
<1> DEFINE e == <<>>
           c == [d EXCEPT !.eof = TRUE, !.owes = e]
<1>1. e \in Seq(Acts)
  BY EmptySeq
<1> HIDE DEF e
<1>2. /\ c \in ConnType /\ c.owes = e /\ c.in = d.in /\ c.act = d.act /\ c.timer = d.timer /\ c.watch = d.watch /\ c.st = d.st
      /\ c.buf = d.buf /\ c.late = d.late /\ c.ev = d.ev
  BY <1>1 DEF ConnType
<1> QED BY <1>2 DEF EofOf, e

\* A close of the back end keeps the invariant.
LEMMA PeerCloseOk == ASSUME IInv, NEW k \in Conns, PeerClose(k) PROVE IInv'
<1> DEFINE d == w.conn[k]
           c == EofOf(d)
<1>1. w \in WType /\ d \in ConnType /\ d.st = "open" /\ th \in [Threads -> ThType]
  BY Parts DEF IInv, TabOk, PeerClose
<1>2. w' = [w EXCEPT !.conn[k] = c] /\ UNCHANGED <<th, cur, user>>
  BY <1>1 DEF PeerClose, EofOf, WType
<1>3. d # NewConn
  BY <1>1, NewConnType
<1>4. /\ c \in ConnType /\ c.owes = <<>> /\ c.in = d.in
      /\ c.act = d.act /\ c.timer = d.timer /\ c.watch = d.watch /\ c.st = d.st
      /\ c.buf = d.buf /\ c.late = d.late /\ c.ev = d.ev
  BY <1>1, EofFields
<1> HIDE DEF c
<1>5. ASSUME Used(w, k) PROVE /\ kind[d.act] = "session" => Session(d.act, w.act[d.act], c, w.udp.asked)
                              /\ kind[d.act] # "session" /\ ~c.late => Stream(d.act, w.act[d.act], c)
  <2> DEFINE a == d.act
  <2>1. /\ kind[a] = "session" => Session(a, w.act[a], d, w.udp.asked)
        /\ kind[a] # "session" /\ ~d.late => Stream(a, w.act[a], d)
    BY <1>3, <1>5, LiveFacts
  <2>2. kind[a] = "session" => Session(a, w.act[a], c, w.udp.asked)
    BY <1>4, <2>1 DEF Session
  <2>3. ASSUME kind[a] # "session", ~c.late PROVE Stream(a, w.act[a], c)
    <3> HIDE DEF a
    <3>1. Stream(a, w.act[a], d)
      BY <1>4, <2>1, <2>3
    <3> HIDE DEF d
    <3>2. Len(c.owes) = 0 /\ DOMAIN c.owes = {} /\ Len(d.in) \in Nat /\ Len(d.owes) \in Nat
      <4>1. d.in \in Seq(Acts) /\ d.owes \in Seq(Acts)
        BY <1>1 DEF ConnType
      <4> QED BY <1>4, <4>1, LenProperties
    <3>3. Len(d.in) + Len(d.owes) <= 1 => Len(c.in) + Len(c.owes) <= 1
      <4> DEFINE n == Len(d.in)
                 m == Len(d.owes)
      <4>1. n \in Nat /\ m \in Nat /\ Len(c.in) = n /\ Len(c.owes) = 0
        BY <1>4, <3>2
      <4> HIDE DEF n, m
      <4>2. n + m <= 1 => n + 0 <= 1
        BY <4>1
      <4> QED BY <4>1, <4>2 DEF n, m
    <3> QED BY <1>4, <3>1, <3>2, <3>3 DEF Stream
  <2> QED BY <2>2, <2>3
<1>6. Happens(k, c)
  BY <1>1, <1>3, <1>4, <1>5, LiveFacts DEF Happens
<1> QED BY <1>1, <1>2, <1>4, <1>6, ConnHappens

\* Who waits for the connection a thread watches is the owner of its action.
LEMMA WatcherIs ==
    ASSUME IInv, NEW k \in Conns, w.conn[k].watch = "thread"
    PROVE  /\ Own(w.conn[k].act) \in Threads /\ th[Own(w.conn[k].act)].poll # "no" /\ k[1] # "session" /\ Used(w, k)
<1>1. WatchOk(w, th) /\ InputOk /\ \A u \in Threads : ThreadOk(u, th[u], w)
  BY DEF IInv
<1>2. k[1] # "session" /\ Used(w, k)
  BY <1>1 DEF WatchOk
<1>3. PICK t \in Threads : th[t].poll # "no" /\ \E m \in DOMAIN th[t].wait : th[t].wait[m] = w.conn[k].act
  BY <1>1 DEF WatchOk
<1>4. PICK m \in DOMAIN th[t].wait : th[t].wait[m] = w.conn[k].act
  BY <1>3
<1> DEFINE r == th[t]
           a == w.conn[k].act
<1>5. ThreadOk(t, r, w) /\ r.wait[m] = a /\ r.poll # "no" /\ m \in DOMAIN r.wait
  BY <1>1, <1>3, <1>4
<1> HIDE DEF r, a
<1>6. r.call \in DOMAIN calls[t]
  BY <1>5 DEF ThreadOk, Busy
<1>7. PICK j \in DOMAIN calls[t][r.call] : calls[t][r.call][j] = a
  BY <1>5 DEF ThreadOk, WaitOk
<1>8. a \in Mine(t)
  BY <1>1, <1>6, <1>7, MineOf
<1>9. Own(a) = t
  BY <1>1, <1>8, OwnIs
<1> QED BY <1>2, <1>3, <1>9 DEF a

\* A connection with an event, watched as before or no longer.
EvOf(d, e)  == [d EXCEPT !.ev = e]
HungOf(d)   == [d EXCEPT !.watch = "hung", !.ev = {"hup"}]

\* These, field by field.
LEMMA EvFields ==
    ASSUME NEW d \in ConnType, NEW e \in SUBSET {"in", "out", "hup"}
    PROVE  /\ EvOf(d, e) \in ConnType /\ EvOf(d, e).ev = e /\ EvOf(d, e).owes = d.owes /\ EvOf(d, e).in = d.in
           /\ EvOf(d, e).act = d.act /\ EvOf(d, e).timer = d.timer /\ EvOf(d, e).watch = d.watch /\ EvOf(d, e).st = d.st
           /\ EvOf(d, e).buf = d.buf /\ EvOf(d, e).late = d.late
           /\ HungOf(d) \in ConnType /\ HungOf(d).owes = d.owes /\ HungOf(d).in = d.in
           /\ HungOf(d).act = d.act /\ HungOf(d).timer = d.timer /\ HungOf(d).watch = "hung" /\ HungOf(d).st = d.st
           /\ HungOf(d).buf = d.buf /\ HungOf(d).late = d.late
BY DEF EvOf, HungOf, ConnType

\* An event of a connection that a thread watches may happen.
LEMMA ThreadHappens ==
    ASSUME IInv, NEW k \in Conns, w.conn[k].watch = "thread", NEW c, c.act = w.conn[k].act, c.timer = w.conn[k].timer,
           c.watch \in {"thread", "hung"}, c.in = w.conn[k].in, c.owes = w.conn[k].owes, c.buf = w.conn[k].buf,
           c.late = w.conn[k].late
    PROVE  Happens(k, c)
<1> DEFINE d == w.conn[k]
           a == d.act
<1>1. Used(w, k) /\ k[1] # "session"
  BY WatcherIs
<1>2. d # NewConn
  BY MsgAssumption, NewConnType
<1>3. ~Idle(w, k) /\ kind[a] # "session" /\ (~d.late => Stream(a, w.act[a], d))
  <2>1. Idle(w, k) => ~Used(w, k)
    BY <1>2, LiveFacts
  <2>2. kind[a] = k[1] /\ (kind[a] # "session" /\ ~d.late => Stream(a, w.act[a], d))
    BY <1>1, <1>2, LiveFacts
  <2> QED BY <1>1, <2>1, <2>2
<1>4. ~c.late => Stream(a, w.act[a], c)
  BY <1>3 DEF Stream
<1> QED BY <1>1, <1>3, <1>4 DEF Happens

\* HangupNotify keeps the invariant.
LEMMA HangupNotifyOk == ASSUME IInv, NEW k \in Conns, HangupNotify(k) PROVE IInv'
<1> DEFINE d == w.conn[k]
           c == HungOf(d)
<1>1. w \in WType /\ d \in ConnType /\ d.watch = "thread" /\ th \in [Threads -> ThType]
  BY Parts DEF IInv, TabOk, HangupNotify
<1>2. w' = [w EXCEPT !.conn[k] = c] /\ UNCHANGED <<th, cur, user>>
  BY <1>1 DEF HangupNotify, HungOf, WType
<1>3. /\ c \in ConnType /\ c.owes = d.owes /\ c.in = d.in
      /\ c.act = d.act /\ c.timer = d.timer /\ c.watch = "hung" /\ c.st = d.st
      /\ c.buf = d.buf /\ c.late = d.late
  <2>1. PICK e \in SUBSET {"in", "out", "hup"} : TRUE
    OBVIOUS
  <2> QED BY <1>1, <2>1, EvFields
<1> HIDE DEF c
<1>4. Happens(k, c)
  BY <1>1, <1>3, ThreadHappens
<1> QED BY <1>1, <1>2, <1>3, <1>4, ConnHappens

\* The threads after one that polls, or none, was woken.
LEMMA WakeOk ==
    ASSUME th \in [Threads -> ThType], NEW t \in Threads, Wake(t)
    PROVE  /\ th' \in [Threads -> ThType]
           /\ \A u \in Threads : /\ th'[u].call = th[u].call /\ th'[u].pc = th[u].pc /\ th'[u].i = th[u].i
                                 /\ th'[u].wait = th[u].wait /\ th'[u].poll = th[u].poll /\ th'[u].clk = th[u].clk
<1> DEFINE b == th[t].io /\ th[t].poll = "no"
           q == [th[t] EXCEPT !.io = b]
<1>1. th[t] \in ThType /\ b \in BOOLEAN
  OBVIOUS
<1>2. th' = [th EXCEPT ![t] = q]
  BY DEF Wake
<1> HIDE DEF b
<1>3. /\ q \in ThType /\ q.call = th[t].call /\ q.pc = th[t].pc /\ q.i = th[t].i
      /\ q.wait = th[t].wait /\ q.poll = th[t].poll /\ q.clk = th[t].clk
  BY <1>1 DEF ThType
<1> HIDE DEF q
<1> QED BY <1>2, <1>3

\* ThreadEvent keeps the invariant.
LEMMA ThreadEventOk == ASSUME IInv, NEW k \in Conns, ThreadEvent(k) PROVE IInv'
<1> DEFINE d == w.conn[k]
           t == Own(d.act)
           e == {th[t].poll}
           c == EvOf(d, e)
<1>1. w \in WType /\ d \in ConnType /\ d.watch = "thread" /\ th \in [Threads -> ThType]
  BY Parts DEF IInv, TabOk, ThreadEvent
<1>2. t \in Threads /\ th[t].poll # "no"
  BY <1>1, WatcherIs
<1>3. e \in SUBSET {"in", "out", "hup"}
  <2>1. th[t].poll \in {"no", "in", "out"}
    BY <1>1, <1>2 DEF ThType
  <2> QED BY <1>2, <2>1
<1>4. w' = [w EXCEPT !.conn[k] = c] /\ UNCHANGED <<cur, user>> /\ Wake(t)
  BY <1>1 DEF ThreadEvent, EvOf, WType
<1> HIDE DEF e, t
<1>5. /\ c \in ConnType /\ c.owes = d.owes /\ c.in = d.in
      /\ c.act = d.act /\ c.timer = d.timer /\ c.watch = "thread" /\ c.st = d.st
      /\ c.buf = d.buf /\ c.late = d.late
  BY <1>1, <1>3, EvFields, SMTT(30)
<1> HIDE DEF c
<1>6. Happens(k, c)
  BY <1>1, <1>5, ThreadHappens
<1>7. /\ th' \in [Threads -> ThType]
      /\ \A u \in Threads : /\ th'[u].call = th[u].call /\ th'[u].pc = th[u].pc /\ th'[u].i = th[u].i
                            /\ th'[u].wait = th[u].wait /\ th'[u].poll = th[u].poll /\ th'[u].clk = th[u].clk
  BY <1>1, <1>2, <1>4, WakeOk
<1> QED BY <1>4, <1>5, <1>6, <1>7, ConnHappens

\* A change of the shared socket alone.
LEMMA UdpOk ==
    ASSUME IInv, UNCHANGED <<th, cur, user>>, NEW v \in UdpType, w' = [w EXCEPT !.udp = v],
           v.asked = w.udp.asked, v.wlist = w.udp.wlist, v.in \subseteq w.udp.in \cup w.udp.asked
    PROVE  IInv'
<1> DEFINE u == [w EXCEPT !.udp = v]
<1>1. TabOk(w) /\ w \in WType
  BY DEF IInv, TabOk
<1>2. /\ u \in WType /\ u.keep = w.keep /\ u.pool = w.pool /\ u.total = w.total /\ u.hash = w.hash /\ u.act = w.act
      /\ u.udp = v /\ u.conn = w.conn
  BY <1>1 DEF WType
<1>3. w' = u
  OBVIOUS
<1> HIDE DEF u
<1>4. Like(w, u)
  BY <1>1, <1>2, LikeSelf DEF Like
<1>5. TabOk(u)
  BY <1>1, <1>4, LikeTab
<1>6. Quiet(w, u) /\ \A a \in Acts : SameAct(w, u, a)
  BY <1>2 DEF Quiet, SameAct
<1> QED BY <1>3, <1>5, <1>6, AsideOk

\* The shared socket after a datagram came, was read, or the socket failed.
CameOf(v, a) == [v EXCEPT !.in = @ \cup {a}]
ReadOf(v, a) == [v EXCEPT !.in = @ \ {a}]
FailOf(v, b) == [v EXCEPT !.open = b, !.in = {}, !.out = FALSE]

\* These, field by field.
LEMMA CameFields ==
    ASSUME NEW v \in UdpType, NEW a \in Acts, NEW b \in BOOLEAN
    PROVE  /\ CameOf(v, a) \in UdpType /\ CameOf(v, a).asked = v.asked /\ CameOf(v, a).wlist = v.wlist
           /\ CameOf(v, a).in = v.in \cup {a}
           /\ ReadOf(v, a) \in UdpType /\ ReadOf(v, a).asked = v.asked /\ ReadOf(v, a).wlist = v.wlist
           /\ ReadOf(v, a).in = v.in \ {a}
           /\ FailOf(v, b) \in UdpType /\ FailOf(v, b).asked = v.asked /\ FailOf(v, b).wlist = v.wlist
           /\ FailOf(v, b).in = {}
BY DEF CameOf, ReadOf, FailOf, UdpType

\* AnswerUdp keeps the invariant.
LEMMA AnswerUdpOk == ASSUME IInv, NEW a \in Acts, AnswerUdp(a) PROVE IInv'
<1>1. w \in WType /\ w.udp \in UdpType /\ a \in w.udp.asked
  BY Parts DEF IInv, TabOk, AnswerUdp
<1>2. w' = [w EXCEPT !.udp = CameOf(w.udp, a)] /\ UNCHANGED <<th, cur, user>>
  BY <1>1 DEF AnswerUdp, CameOf, WType
<1>3. PICK b \in BOOLEAN : TRUE
  OBVIOUS
<1> DEFINE v == CameOf(w.udp, a)
<1>4. v \in UdpType /\ v.asked = w.udp.asked /\ v.wlist = w.udp.wlist /\ v.in = w.udp.in \cup {a}
  BY <1>1, <1>3, CameFields
<1> HIDE DEF v
<1>5. v.in \subseteq w.udp.in \cup w.udp.asked /\ w' = [w EXCEPT !.udp = v]
  BY <1>1, <1>2, <1>4 DEF v
<1> QED BY <1>2, <1>4, <1>5, UdpOk

\* SessionHangup keeps the invariant.
LEMMA SessionHangupOk == ASSUME IInv, SessionHangup PROVE IInv'
<1>1. w \in WType /\ w.udp \in UdpType
  BY Parts DEF IInv, TabOk
<1>2. PICK b \in BOOLEAN : w' = [w EXCEPT !.udp = FailOf(w.udp, b)] /\ UNCHANGED <<th, cur, user>>
  BY <1>1 DEF SessionHangup, FailOf, WType
<1> DEFINE v == FailOf(w.udp, b)
<1>4. v \in UdpType /\ v.asked = w.udp.asked /\ v.wlist = w.udp.wlist /\ v.in = {}
  BY <1>1 DEF FailOf, UdpType
<1> HIDE DEF v
<1>5. v.in \subseteq w.udp.in \cup w.udp.asked /\ w' = [w EXCEPT !.udp = v]
  BY <1>2, <1>4 DEF v
<1> QED BY <1>2, <1>4, <1>5, UdpOk

\* A session in the table while the daemon runs: its connection is that of its action.
LEMMA SessionHere ==
    ASSUME IInv, cur = "dispatch", NEW a \in Acts, a \in w.hash
    PROVE  /\ Own(a) \in Threads /\ kind[a] = "session" /\ w.act[a].sconn \in Conns /\ w.act[a].sconn[1] = "session"
           /\ ~KeepActs => w.conn[w.act[a].sconn].act = a
<1>1. InputOk /\ TabOk(w) /\ ActOk(w, a)
  BY DEF IInv
<1>2. Listed(a) /\ kind[a] = "session" /\ w.act[a].sconn \in Conns /\ w.act[a].sconn[1] = "session"
  BY <1>1 DEF ActOk
<1>3. PICK t \in Threads : a \in Mine(t)
  BY <1>1, <1>2, ListedMine
<1>4. Own(a) = t
  BY <1>1, <1>3, OwnIs
<1>5. ASSUME ~KeepActs PROVE w.conn[w.act[a].sconn].act = a
  <2> DEFINE r == th[t]
  <2>1. ThreadOk(t, r, w) /\ (Busy(r) => r.poll # "no")
    BY <1>3, DaemonPolls DEF IInv
  <2> HIDE DEF r
  <2>2. PICK c \in DOMAIN calls[t] : \E j \in DOMAIN calls[t][c] : calls[t][c][j] = a
    BY <1>3 DEF Mine
  <2>3. PICK j \in DOMAIN calls[t][c] : calls[t][c][j] = a
    BY <2>2
  <2>4. StageOk(r, calls[t][c][j], w.act[calls[t][c][j]], c, j, Busy(r) /\ c = r.call, w.hash)
    BY <2>1 DEF ThreadOk
  <2>5. Busy(r) /\ c = r.call
    BY <1>5, <2>3, <2>4 DEF StageOk
  <2>6. r.pc \in {"open", "send", "recv"}
    BY <2>1, <2>5 DEF ThreadOk
  <2>7. w.act[a].conn # None
    BY <2>3, <2>4, <2>5, <2>6 DEF StageOk
  <2>8. w.act[a].sconn = w.act[a].conn
    BY <1>1, <1>5, <2>7 DEF ActOk
  <2> QED BY <1>1, <2>7, <2>8 DEF TabOk, Paired
<1> QED BY <1>2, <1>4, <1>5

\* The connection of a session with an answer in it.
AnsOf(d, a) == [d EXCEPT !.buf = a, !.ev = {"in"}]

\* AnsOf, field by field.
LEMMA AnsFields ==
    ASSUME NEW d \in ConnType, NEW a \in Acts
    PROVE  /\ AnsOf(d, a) \in ConnType /\ AnsOf(d, a).ev = {"in"} /\ AnsOf(d, a).owes = d.owes /\ AnsOf(d, a).in = d.in
           /\ AnsOf(d, a).act = d.act /\ AnsOf(d, a).timer = d.timer /\ AnsOf(d, a).watch = d.watch
           /\ AnsOf(d, a).st = d.st /\ AnsOf(d, a).late = d.late /\ AnsOf(d, a).buf = a
BY DEF AnsOf, ConnType

\* InputNotify keeps the invariant.
LEMMA InputNotifyOk == ASSUME IInv, NEW a \in Acts, InputNotify(a) PROVE IInv'
<1> DEFINE v == ReadOf(w.udp, a)
           k == w.act[a].sconn
           d == w.conn[k]
           c == AnsOf(d, a)
           b == d.act
<1>1. w \in WType /\ w.udp \in UdpType /\ a \in w.udp.in /\ cur = "dispatch" /\ th \in [Threads -> ThType] /\ ActOk(w, a)
  BY Parts DEF IInv, TabOk, InputNotify
<1>2. v \in UdpType /\ v.asked = w.udp.asked /\ v.wlist = w.udp.wlist /\ v.in = w.udp.in \ {a}
  <2>1. PICK z \in BOOLEAN : TRUE
    OBVIOUS
  <2> QED BY <1>1, <2>1, CameFields
<1>3. [w EXCEPT !.udp.in = @ \ {a}] = [w EXCEPT !.udp = v]
  BY <1>1 DEF ReadOf, WType
<1>4. CASE w' = [w EXCEPT !.udp.in = @ \ {a}] /\ UNCHANGED th
  <2>1. w' = [w EXCEPT !.udp = v] /\ UNCHANGED <<th, cur, user>>
    BY <1>3, <1>4 DEF InputNotify
  <2> HIDE DEF v
  <2>2. v.in \subseteq w.udp.in \cup w.udp.asked
    BY <1>2
  <2> QED BY <1>2, <2>1, <2>2, UdpOk
<1>5. CASE /\ a \in w.hash /\ b # None /\ Wake(Own(a))
           /\ w' = [[w EXCEPT !.udp.in = @ \ {a}] EXCEPT !.conn[k].buf = a, !.conn[k].ev = {"in"}]
  <2>1. /\ Own(a) \in Threads /\ kind[a] = "session" /\ k \in Conns /\ k[1] = "session"
        /\ ~KeepActs => b = a
    BY <1>1, <1>5, SessionHere
  <2>2. d \in ConnType
    BY <1>1, <2>1, Parts
  <2>3. w' = [w EXCEPT !.conn[k] = c, !.udp = v]
    <3> HIDE DEF v, k
    <3>1. w' = [[w EXCEPT !.udp = v] EXCEPT !.conn[k].buf = a, !.conn[k].ev = {"in"}]
      BY <1>3, <1>5
    <3> QED BY <1>1, <2>1, <3>1 DEF AnsOf, WType
  <2>4. /\ c \in ConnType /\ c.ev = {"in"} /\ c.owes = d.owes /\ c.in = d.in
        /\ c.act = d.act /\ c.timer = d.timer /\ c.watch = d.watch /\ c.st = d.st /\ c.late = d.late /\ c.buf = a
    BY <2>2, AnsFields
  <2>5. Used(w, k) /\ d # NewConn
    BY <1>5, NewConnType DEF Used
  <2>6. b \in Acts /\ kind[b] = k[1] /\ ~Idle(w, k)
    BY <2>1, <2>5, LiveFacts
  <2>7. a \in w.udp.asked
    BY <1>1 DEF ActOk
  <2>8. Session(b, w.act[b], c, w.udp.asked)
    <3> HIDE DEF b, c
    <3> QED BY <2>1, <2>4, <2>7, SMTT(30) DEF Session
  <2> HIDE DEF c
  <2>9. Happens(k, c)
    BY <2>1, <2>4, <2>5, <2>6, <2>8, Zenon DEF Happens
  <2> HIDE DEF v, k, d, b
  <2>10. TabOk(w') /\ Quiet(w, w') /\ (\A z \in Acts : ActOk(w', z)) /\ Happened(w', k, c, v)
    <3>1. v.in \subseteq w.udp.in
      BY <1>2
    <3> QED BY <1>2, <2>1, <2>3, <2>4, <2>9, <3>1, HappensOk
  <2>11. /\ th' \in [Threads -> ThType]
         /\ \A u \in Threads : /\ th'[u].call = th[u].call /\ th'[u].pc = th[u].pc /\ th'[u].i = th[u].i
                               /\ th'[u].wait = th[u].wait /\ th'[u].poll = th[u].poll /\ th'[u].clk = th[u].clk
    BY <1>1, <1>5, <2>1, WakeOk
  <2>12. UNCHANGED <<cur, user>>
    BY DEF InputNotify
  <2> QED BY <1>1, <2>1, <2>10, <2>11, <2>12, HappenedOk, SMTT(30)
<1> QED BY <1>4, <1>5 DEF InputNotify

\* Who waits to write to the shared socket has nothing there yet.
LEMMA WriterIs ==
    ASSUME IInv, NEW k \in w.udp.wlist
    PROVE  /\ k \in Conns /\ Used(w, k) /\ kind[w.conn[k].act] = "session"
           /\ w.conn[k].act \in Acts /\ w.conn[k].act \notin w.udp.asked
<1> DEFINE a == w.conn[k].act
<1>1. WatchOk(w, th) /\ InputOk /\ TabOk(w) /\ w \in WType /\ w.udp \in UdpType
  BY Parts DEF IInv, TabOk
<1>2. k \in Conns /\ k[1] = "session" /\ Used(w, k)
  BY <1>1 DEF WatchOk, UdpType
<1>3. w.conn[k] # NewConn
  BY <1>2, NewConnType DEF Used
<1>4. a \in Acts /\ kind[a] = "session"
  BY <1>2, <1>3, LiveFacts
<1>5. PICK t \in Threads : th[t].poll = "out" /\ \E m \in DOMAIN th[t].wait : th[t].wait[m] = a
  BY <1>1 DEF WatchOk
<1> DEFINE r == th[t]
<1>6. ThreadOk(t, r, w) /\ r.poll = "out" /\ \E m \in DOMAIN r.wait : r.wait[m] = a
  BY <1>5 DEF IInv
<1> HIDE DEF r, a
<1>7. PICK m \in DOMAIN r.wait : r.wait[m] = a
  BY <1>6
<1>8. r.pc \in {"open", "send"}
  BY <1>6 DEF ThreadOk
<1>9. Busy(r) /\ r.call \in DOMAIN calls[t]
  BY <1>6, <1>8 DEF ThreadOk, Busy
<1>10. PICK j \in DOMAIN calls[t][r.call] : calls[t][r.call][j] = a
  BY <1>6, <1>7 DEF ThreadOk, WaitOk
<1>11. StageOk(r, a, w.act[a], r.call, j, TRUE, w.hash)
  BY <1>6, <1>9, <1>10 DEF ThreadOk
<1>12. r.pc = "send" => w.act[a].flag # "send"
  BY <1>6, <1>7 DEF ThreadOk, WaitOk
<1>13. w.act[a].flag \notin {"send", "fin"}
  BY <1>8, <1>11, <1>12 DEF StageOk, Early
<1>14. ActOk(w, a)
  BY <1>4 DEF IInv
<1>15. a \notin w.udp.asked
  BY <1>13, <1>14 DEF ActOk
<1> QED BY <1>2, <1>4, <1>15 DEF a

\* The table with the write event given to all who wait for it.
OutAll(s) == [k \in Conns |-> IF k \in s.udp.wlist THEN EvOf(s.conn[k], {"out"}) ELSE s.conn[k]]

\* A session that was given its write event.
LEMMA OutOk ==
    ASSUME IInv, NEW k \in w.udp.wlist, NEW a \in Acts, w.conn[k].act = a, NEW c, c.ev = {"out"}, c.buf = w.conn[k].buf
    PROVE  Session(a, w.act[a], c, w.udp.asked)
<1> DEFINE d == w.conn[k]
<1>1. k \in Conns /\ Used(w, k) /\ kind[a] = "session" /\ a \notin w.udp.asked
  BY WriterIs
<1>2. d # NewConn
  BY <1>1, NewConnType DEF Used
<1>3. Session(a, w.act[a], d, w.udp.asked)
  BY <1>1, <1>2, LiveFacts
<1> HIDE DEF d
<1>4. c.buf = d.buf
  BY DEF d
<1> QED BY <1>1, <1>3, <1>4 DEF Session

\* The table after OutputNotify.
LEMMA OutTab ==
    ASSUME IInv, w' = [w EXCEPT !.conn = OutAll(w)]
    PROVE  /\ TabOk(w') /\ Quiet(w, w') /\ (\A a \in Acts : ActOk(w', a))
           /\ w'.act = w.act /\ w'.hash = w.hash /\ \A k \in Conns : w'.conn[k].buf = w.conn[k].buf
<1> DEFINE u == [w EXCEPT !.conn = OutAll(w)]
<1>1. TabOk(w) /\ w \in WType /\ \A k \in Conns : w.conn[k] \in ConnType
  BY Parts DEF IInv, TabOk
<1>2. \A k \in Conns : /\ OutAll(w)[k] \in ConnType /\ OutAll(w)[k].owes = w.conn[k].owes /\ OutAll(w)[k].in = w.conn[k].in
                       /\ OutAll(w)[k].act = w.conn[k].act /\ OutAll(w)[k].timer = w.conn[k].timer
                       /\ OutAll(w)[k].watch = w.conn[k].watch /\ OutAll(w)[k].st = w.conn[k].st
                       /\ OutAll(w)[k].buf = w.conn[k].buf /\ OutAll(w)[k].late = w.conn[k].late
                       /\ k \in w.udp.wlist => OutAll(w)[k].ev = {"out"}
                       /\ k \notin w.udp.wlist => OutAll(w)[k] = w.conn[k]
  <2> SUFFICES ASSUME NEW k \in Conns
               PROVE   /\ OutAll(w)[k] \in ConnType /\ OutAll(w)[k].owes = w.conn[k].owes /\ OutAll(w)[k].in = w.conn[k].in
                       /\ OutAll(w)[k].act = w.conn[k].act /\ OutAll(w)[k].timer = w.conn[k].timer
                       /\ OutAll(w)[k].watch = w.conn[k].watch /\ OutAll(w)[k].st = w.conn[k].st
                       /\ OutAll(w)[k].buf = w.conn[k].buf /\ OutAll(w)[k].late = w.conn[k].late
                       /\ k \in w.udp.wlist => OutAll(w)[k].ev = {"out"}
                       /\ k \notin w.udp.wlist => OutAll(w)[k] = w.conn[k]
    OBVIOUS
  <2>1. CASE k \in w.udp.wlist
    <3>1. OutAll(w)[k] = EvOf(w.conn[k], {"out"})
      BY <2>1 DEF OutAll
    <3> DEFINE e == {"out"}
               c == EvOf(w.conn[k], e)
    <3>2. e \in SUBSET {"in", "out", "hup"}
      OBVIOUS
    <3>4. OutAll(w)[k] = c
      BY <3>1
    <3>5. e = {"out"}
      OBVIOUS
    <3> HIDE DEF e
    <3>3. /\ c \in ConnType /\ c.ev = e /\ c.owes = w.conn[k].owes /\ c.in = w.conn[k].in
          /\ c.act = w.conn[k].act /\ c.timer = w.conn[k].timer /\ c.watch = w.conn[k].watch /\ c.st = w.conn[k].st
          /\ c.buf = w.conn[k].buf /\ c.late = w.conn[k].late
      BY <1>1, <3>2, EvFields
    <3> HIDE DEF c
    <3> QED BY <2>1, <3>3, <3>4, <3>5
  <2>2. CASE k \notin w.udp.wlist
    <3>1. OutAll(w)[k] = w.conn[k]
      BY <2>2 DEF OutAll
    <3> QED BY <1>1, <2>2, <3>1
  <2> QED BY <2>1, <2>2
<1>3. /\ u \in WType /\ u.keep = w.keep /\ u.pool = w.pool /\ u.total = w.total /\ u.hash = w.hash /\ u.act = w.act
      /\ u.udp = w.udp /\ \A k \in Conns : u.conn[k] = OutAll(w)[k]
  <2>1. OutAll(w) \in [Conns -> ConnType]
    BY <1>2 DEF OutAll
  <2> QED BY <1>1, <2>1 DEF WType
<1>4. w' = u
  OBVIOUS
<1> HIDE DEF u
<1>5. ASSUME NEW k \in Conns, k \in w.udp.wlist PROVE Used(w, k) /\ ~Idle(w, k)
  <2>1. Used(w, k)
    BY <1>5, WriterIs
  <2> QED BY <1>1, <2>1 DEF TabOk, Placed
<1>6. Like(w, u)
  <2> SUFFICES ASSUME NEW k \in Conns
               PROVE /\ u.conn[k].act = w.conn[k].act /\ u.conn[k].timer = w.conn[k].timer
                     /\ u.conn[k].watch = "keep" <=> w.conn[k].watch = "keep"
                     /\ Idle(w, k) => /\ u.conn[k].st # "none" /\ u.conn[k].buf = w.conn[k].buf
                                      /\ u.conn[k].late = w.conn[k].late
                                      /\ w.conn[k].in = <<>> /\ w.conn[k].owes = <<>> =>
                                            u.conn[k].in = <<>> /\ u.conn[k].owes = <<>>
                     /\ ~Idle(w, k) /\ ~Used(w, k) => u.conn[k] = w.conn[k]
    BY <1>3 DEF Like
  <2>1. Idle(w, k) => w.conn[k].st # "none"
    BY <1>1 DEF TabOk, Kept
  <2> QED BY <1>2, <1>3, <1>5, <2>1
<1>7. TabOk(u)
  BY <1>1, <1>6, LikeTab
<1>8. Quiet(w, u)
  <2>1. w.udp.wlist \subseteq Conns
    BY <1>1, Parts DEF UdpType
  <2> QED BY <1>2, <1>3, <2>1 DEF Quiet
<1>9. ASSUME NEW a \in Acts PROVE ActOk(u, a)
  <2> DEFINE k == w.act[a].conn
             x == w.act[a]
  <2>1. ActOk(w, a) /\ x \in ActType
    BY <1>1, Parts DEF IInv
  <2>2. CASE k # None /\ k \in w.udp.wlist
    <3>1. k \in Conns /\ w.conn[k].act = a
      BY <1>1, <2>1, <2>2 DEF TabOk, Paired, ActType
    <3>2. kind[a] = "session"
      BY <2>2, <3>1, WriterIs
    <3> DEFINE c == u.conn[k]
    <3>3. c.ev = {"out"} /\ c.buf = w.conn[k].buf
      BY <1>2, <1>3, <2>2, <3>1
    <3>4. u.act[a] = x /\ u.act[a].conn = k
      BY <1>3
    <3> HIDE DEF c
    <3>5. Session(a, x, c, w.udp.asked)
      BY <2>2, <3>1, <3>3, OutOk
    <3> QED BY <1>3, <2>1, <3>2, <3>4, <3>5 DEF ActOk, c
  <2>3. CASE k = None \/ k \notin w.udp.wlist
    <3>1. k # None => k \in Conns
      BY <2>1 DEF ActType
    <3>2. SameAct(w, u, a)
      BY <1>2, <1>3, <2>3, <3>1 DEF SameAct
    <3> QED BY <2>1, <3>2, SameActOk
  <2> QED BY <2>2, <2>3
<1> QED BY <1>2, <1>3, <1>4, <1>7, <1>8, <1>9

\* OutputNotify keeps the invariant.
LEMMA OutputNotifyOk == ASSUME IInv, OutputNotify PROVE IInv'
<1>1. /\ InputOk /\ th \in [Threads -> ThType] /\ w \in WType /\ WatchOk(w, th) /\ CurOk(cur, th)
      /\ \A t \in Threads : ThreadOk(t, th[t], w)
  BY DEF IInv, TabOk
<1>2. w' = [w EXCEPT !.conn = OutAll(w)] /\ UNCHANGED <<cur, user>>
  BY <1>1 DEF OutputNotify, OutAll, EvOf, WType
<1>3. /\ TabOk(w') /\ Quiet(w, w') /\ (\A a \in Acts : ActOk(w', a))
      /\ w'.act = w.act /\ w'.hash = w.hash /\ \A k \in Conns : w'.conn[k].buf = w.conn[k].buf
  BY <1>2, OutTab
<1>4. \A t \in Threads : th'[t] = th[t] \/ th'[t] = [th[t] EXCEPT !.io = FALSE]
  BY DEF OutputNotify
<1>5. \A t \in Threads : /\ th'[t] \in ThType
                         /\ th'[t].call = th[t].call /\ th'[t].pc = th[t].pc /\ th'[t].i = th[t].i
                         /\ th'[t].wait = th[t].wait /\ th'[t].poll = th[t].poll /\ th'[t].clk = th[t].clk
  <2>1. ASSUME NEW r \in ThType
        PROVE  LET q == [r EXCEPT !.io = FALSE] IN
               q \in ThType /\ q.call = r.call /\ q.pc = r.pc /\ q.i = r.i /\ q.wait = r.wait /\ q.poll = r.poll /\ q.clk = r.clk
    BY DEF ThType
  <2> SUFFICES ASSUME NEW t \in Threads
               PROVE  /\ th'[t] \in ThType
                      /\ th'[t].call = th[t].call /\ th'[t].pc = th[t].pc /\ th'[t].i = th[t].i
                      /\ th'[t].wait = th[t].wait /\ th'[t].poll = th[t].poll /\ th'[t].clk = th[t].clk
    OBVIOUS
  <2>2. th[t] \in ThType
    BY <1>1
  <2> QED BY <1>4, <2>1, <2>2
<1>6. th' \in [Threads -> ThType]
  <2>1. th' = [t \in Threads |-> th'[t]]
    BY DEF OutputNotify
  <2> QED BY <1>5, <2>1
<1>7. ASSUME NEW t \in Threads PROVE ThreadOk(t, th'[t], w')
  <2> DEFINE q == th'[t]
             r == th[t]
  <2>1. /\ ThreadOk(t, r, w) /\ q \in ThType /\ q.call = r.call /\ q.pc = r.pc /\ q.i = r.i /\ q.wait = r.wait
        /\ q.poll = r.poll /\ r.clk <= q.clk
    <3>1. r.clk \in 0..2 /\ q.clk = r.clk
      BY <1>1, <1>5 DEF ThType
    <3> QED BY <1>1, <1>5, <3>1
  <2>2. \A a \in Mine(t) : w.act[a].conn # None => w.act[a].conn \in Conns
    <3>1. \A a \in Mine(t) : w.act[a] \in ActType
      BY <1>1, Parts DEF Mine
    <3> QED BY <3>1 DEF ActType
  <2>3. \A a \in Mine(t) : w.act[a].conn # None =>
               r.poll # "no" \/ w'.conn[w.act[a].conn].buf = w.conn[w.act[a].conn].buf
    BY <1>3, <2>2
  <2> HIDE DEF q, r
  <2>4. ThreadOk(t, q, w')
    BY <1>1, <1>3, <2>1, <2>3, ThreadKeeps
  <2> QED BY <2>4 DEF q
<1>8. WatchOk(w', th')
  BY <1>1, <1>3, <1>5, SameWatch
<1>9. CurOk(cur', th')
  BY <1>1, <1>2, <1>5, SameCur
<1> QED BY <1>2, <1>3, <1>6, <1>7, <1>8, <1>9, WholeOk

\* While the daemon runs, it may run on, or hand over to a thread.
LEMMA HandOver ==
    ASSUME IInv, cur \in {"dispatch", "clock", "timer"}, UNCHANGED <<w, th, user>>,
           cur' \in Threads \cup {"dispatch", "clock", "timer"}
    PROVE  IInv'
<1>1. CurOk(cur', th)
  BY DaemonPolls DEF CurOk
<1>2. /\ TabOk(w) /\ WatchOk(w, th) /\ th \in [Threads -> ThType]
      /\ (\A a \in Acts : ActOk(w, a)) /\ \A t \in Threads : ThreadOk(t, th[t], w)
  BY DEF IInv
<1>3. w' = w /\ th' = th /\ UNCHANGED user
  OBVIOUS
<1> QED BY <1>1, <1>2, <1>3, WholeOk

\* DispatchEnd and TimerEnd keep the invariant.
LEMMA DispatchEndOk == ASSUME IInv, DispatchEnd \/ TimerEnd PROVE IInv'
<1>1. CASE DispatchEnd
  BY <1>1, HandOver DEF DispatchEnd
<1>2. CASE TimerEnd
  <2>1. cur' \in Threads \cup {"dispatch"}
    BY <1>2 DEF TimerEnd, Schedule
  <2> QED BY <1>2, <2>1, HandOver DEF TimerEnd
<1> QED BY <1>1, <1>2

\* Clock keeps the invariant.
LEMMA ClockOk == ASSUME IInv, NEW ts \in SUBSET Ticking, Clock(ts) PROVE IInv'
<1>1. /\ InputOk /\ th \in [Threads -> ThType] /\ TabOk(w) /\ WatchOk(w, th)
      /\ (\A a \in Acts : ActOk(w, a)) /\ \A t \in Threads : ThreadOk(t, th[t], w)
  BY DEF IInv
<1>2. cur = "clock" /\ cur' = "timer" /\ w' = w /\ UNCHANGED user
  BY ZenonT(30) DEF Clock
<1>3. PICK to \in [ts -> 1..2], up \in SUBSET Threads :
         /\ \A t \in ts : to[t] > th[t].clk
         /\ th' = [t \in Threads |->
                     LET c == IF t \in ts THEN to[t] ELSE th[t].clk
                     IN  IF t \in up THEN [th[t] EXCEPT !.io = FALSE]
                         ELSE [th[t] EXCEPT !.clk = c, !.io = @ /\ ~(InCall(t) /\ c >= 1)]]
  BY DEF Clock
<1>4. ASSUME NEW t \in Threads
      PROVE  /\ th'[t] \in ThType
             /\ th'[t].call = th[t].call /\ th'[t].pc = th[t].pc /\ th'[t].i = th[t].i
             /\ th'[t].wait = th[t].wait /\ th'[t].poll = th[t].poll /\ th[t].clk <= th'[t].clk
  <2> DEFINE c == IF t \in ts THEN to[t] ELSE th[t].clk
             b == th[t].io /\ ~(InCall(t) /\ c >= 1)
             r == th[t]
  <2>1. th'[t] = [r EXCEPT !.io = FALSE] \/ th'[t] = [r EXCEPT !.clk = c, !.io = b]
    BY <1>3
  <2>2. r \in ThType /\ b \in BOOLEAN
    BY <1>1
  <2>3. c \in 0..2 /\ r.clk <= c /\ r.clk <= r.clk
    <3>1. r.clk \in 0..2
      BY <2>2 DEF ThType
    <3>2. CASE t \in ts
      <4>1. to[t] \in 1..2 /\ to[t] > r.clk /\ c = to[t]
        BY <1>3, <3>2
      <4> QED BY <3>1, <4>1
    <3>3. CASE t \notin ts
      BY <3>1, <3>3
    <3> QED BY <3>2, <3>3
  <2> HIDE DEF c, b
  <2> QED BY <2>1, <2>2, <2>3, ZenonT(30) DEF ThType
<1>5. th' \in [Threads -> ThType]
  BY <1>3, <1>4
<1>6. ASSUME NEW t \in Threads PROVE ThreadOk(t, th'[t], w)
  <2> DEFINE q == th'[t]
             r == th[t]
  <2>1. /\ ThreadOk(t, r, w) /\ q \in ThType /\ q.call = r.call /\ q.pc = r.pc /\ q.i = r.i /\ q.wait = r.wait
        /\ q.poll = r.poll /\ r.clk <= q.clk
    BY <1>1, <1>4
  <2> HIDE DEF q, r
  <2>2. ThreadOk(t, q, w)
    BY <1>1, <2>1, ThreadKeeps
  <2> QED BY <2>2 DEF q
<1>7. WatchOk(w, th')
  <2>1. Quiet(w, w)
    BY DEF Quiet
  <2> QED BY <1>1, <1>4, <2>1, SameWatch
<1>8. CurOk("timer", th')
  <2>1. \A t \in Threads : Busy(th'[t]) => th'[t].poll # "no"
    BY <1>2, <1>4, DaemonPolls DEF Busy
  <2> QED BY <2>1 DEF CurOk
<1> QED BY <1>1, <1>2, <1>5, <1>6, <1>7, <1>8, WholeOk
----------------------------------------------------------------------------
(* The induction, and what it gives *)

\* The table at the start.
LEMMA InitTab ==
    ASSUME Init
    PROVE  /\ w \in WType /\ (\A a \in Acts : w.act[a] = NewAct) /\ (\A k \in Conns : w.conn[k] = NewConn)
           /\ w.keep = <<>> /\ (\A d \in Kinds : w.pool[d] = <<>> /\ w.total[d] = 0) /\ w.hash = {}
           /\ w.udp.in = {} /\ w.udp.asked = {} /\ w.udp.wlist = {}
<1> DEFINE e == <<>>
           p == [d \in Kinds |-> e]
           v == [open |-> FALSE, in |-> {}, asked |-> {}, wlist |-> {}, out |-> FALSE]
           f == [a \in Acts |-> NewAct]
           g == [k \in Conns |-> NewConn]
           z == [d \in Kinds |-> 0]
<1>1. e \in Seq(Conns)
  BY EmptySeq
<1>2. NewAct \in ActType
  BY DEF NewAct, ActType
<1>3. v \in UdpType /\ v.in = {} /\ v.asked = {} /\ v.wlist = {}
  BY DEF UdpType
<1>4. w = [act |-> f, conn |-> g, keep |-> e, pool |-> p, total |-> z, hash |-> {}, udp |-> v]
  BY DEF Init
<1> HIDE DEF e
<1>5. p \in [Kinds -> Seq(Conns)] /\ \A d \in Kinds : p[d] = e
  BY <1>1
<1>6. f \in [Acts -> ActType] /\ g \in [Conns -> ConnType] /\ z \in [Kinds -> Nat]
  BY <1>2, NewConnType
<1>7. (\A a \in Acts : f[a] = NewAct) /\ (\A k \in Conns : g[k] = NewConn) /\ \A d \in Kinds : z[d] = 0
  OBVIOUS
<1> HIDE DEF p, v, f, g, z
<1>8. /\ w \in WType /\ w.act = f /\ w.conn = g /\ w.keep = e /\ w.pool = p /\ w.total = z /\ w.hash = {} /\ w.udp = v
  BY <1>1, <1>3, <1>4, <1>5, <1>6 DEF WType
<1> QED BY <1>3, <1>5, <1>7, <1>8 DEF e

\* The invariant holds at the start.
LEMMA InitHolds == Init => IInv
<1> SUFFICES ASSUME Init PROVE IInv
  OBVIOUS
<1>1. /\ w \in WType /\ (\A a \in Acts : w.act[a] = NewAct) /\ (\A k \in Conns : w.conn[k] = NewConn)
      /\ w.keep = <<>> /\ (\A d \in Kinds : w.pool[d] = <<>> /\ w.total[d] = 0) /\ w.hash = {}
      /\ w.udp.in = {} /\ w.udp.asked = {} /\ w.udp.wlist = {}
  BY InitTab
<1>2. InputOk
  BY MsgAssumption DEF Init, InputOk
<1>3. NewAct.flag = "undef" /\ NewAct.conn = None
  BY DEF NewAct
<1>4. \A k \in Conns : k[1] \in Kinds /\ ~Used(w, k) /\ ~Idle(w, k) /\ ~Free(w, k) /\ ~Made(w, k)
  <2> SUFFICES ASSUME NEW k \in Conns PROVE k[1] \in Kinds /\ ~Used(w, k) /\ ~Idle(w, k) /\ ~Free(w, k) /\ ~Made(w, k)
    OBVIOUS
  <2>1. k[1] \in Kinds /\ k[2] \in 1..Cardinality(Acts) /\ Cardinality(Acts) \in Nat
    BY MsgAssumption, FS_CardinalityType DEF Conns
  <2>2. ~(k[2] <= 0)
    BY <2>1
  <2>3. ~Used(w, k)
    BY <1>1, NewConnType DEF Used
  <2>4. ~Idle(w, k) /\ ~Free(w, k)
    BY <1>1, <2>1 DEF Idle, Free
  <2> QED BY <1>1, <2>1, <2>2, <2>3, <2>4 DEF Made
<1>5. Placed(w, {})
  BY <1>1, <1>4 DEF Placed, NoDup
<1>6. Paired(w)
  BY <1>1, <1>3, <1>4 DEF Paired
<1>7. Kept(w)
  BY <1>1, <1>4, NewConnType, MsgAssumption DEF Kept
<1>8. \A a \in Acts : ActOk(w, a)
  BY <1>1, <1>3 DEF ActOk
<1>9. /\ Rest.call = 0 /\ Rest.pc = "idle" /\ Rest.wait = <<>> /\ Rest.poll = "no" /\ Rest.i = 1 /\ ~Busy(Rest)
      /\ Rest \in ThType
  <2> DEFINE e == <<>>
             r == [call |-> 0, pc |-> "idle", i |-> 1, wait |-> e, has |-> FALSE, clk |-> 0, io |-> TRUE, poll |-> "no"]
  <2>1. e \in Seq(Acts) /\ Rest = r
    BY EmptySeq DEF Rest
  <2>2. 1 \in Nat \ {0} /\ 0 \in 0..2
    OBVIOUS
  <2> HIDE DEF e
  <2>3. r.call = 0 /\ r.pc = "idle" /\ r.wait = e /\ r.poll = "no" /\ r.i = 1 /\ r \in ThType
    BY <2>1, <2>2 DEF ThType
  <2> HIDE DEF r
  <2> QED BY <2>1, <2>3 DEF Busy, e
<1>10. th \in [Threads -> ThType] /\ \A t \in Threads : th[t] = Rest
  BY <1>9 DEF Init
<1>11. ASSUME NEW t \in Threads PROVE ThreadOk(t, th[t], w)
  <2>1. calls[t] \in Seq(Seq(Acts)) /\ Len(calls[t]) \in Nat
    BY <1>2, LenProperties DEF InputOk
  <2>2. WaitOk(t, Rest, w)
    BY <1>9 DEF WaitOk, NoDup
  <2>3. \A c \in DOMAIN calls[t] : \A j \in DOMAIN calls[t][c] :
          StageOk(Rest, calls[t][c][j], w.act[calls[t][c][j]], c, j, Busy(Rest) /\ c = Rest.call, w.hash)
    <3> SUFFICES ASSUME NEW c \in DOMAIN calls[t], NEW j \in DOMAIN calls[t][c]
                 PROVE  StageOk(Rest, calls[t][c][j], w.act[calls[t][c][j]], c, j, Busy(Rest) /\ c = Rest.call, w.hash)
      OBVIOUS
    <3>1. calls[t][c][j] \in Acts
      BY <1>2, MineOf DEF Mine
    <3> HIDE DEF Rest
    <3> QED BY <1>1, <1>3, <1>9, <3>1 DEF StageOk
  <2>4. 0 \in 0..Len(calls[t])
    BY <2>1
  <2>5. ThreadOk(t, Rest, w)
    BY <1>9, <2>2, <2>3, <2>4 DEF ThreadOk
  <2> QED BY <1>10, <2>5
<1>12. WatchOk(w, th)
  <2>1. None # "thread" /\ None # "hung"
    BY MsgAssumption
  <2> QED BY <1>1, <2>1, NewConnType DEF WatchOk
<1>13. CurOk(cur, th)
  <2>1. cur = "dispatch"
    BY DEF Init
  <2> QED BY <1>9, <1>10, <2>1 DEF CurOk
<1> QED BY <1>1, <1>2, <1>5, <1>6, <1>7, <1>8, <1>10, <1>11, <1>12, <1>13 DEF IInv, TabOk

\* A step of a thread keeps the invariant.
LEMMA ThreadHolds == ASSUME EpollFails = FALSE, IInv, NEW t \in Threads, Thread(t) PROVE IInv'
<1>1. CASE StartCall(t)
  BY <1>1, StartCallOk
<1>2. CASE InitConnEnv(t)
  BY <1>2, InitConnEnvOk
<1>3. CASE InitFails(t)
  BY <1>3, InitFailsOk
<1>4. CASE InitDone(t)
  BY <1>4, InitDoneOk
<1>5. CASE CreateSocket(t)
  BY <1>5, CreateSocketOk
<1>6. CASE SockDone(t)
  BY <1>6, SockDoneOk
<1>7. CASE OpenCnnect(t)
  BY <1>7, OpenCnnectOk
<1>8. CASE OpenPass(t) \/ SendPass(t) \/ RecvPass(t)
  BY <1>8, PassOk
<1>9. CASE SendData(t)
  BY <1>9, SendDataOk
<1>10. CASE RecvData(t)
  BY <1>10, RecvDataOk
<1>11. CASE PollBack(t)
  BY <1>11, PollBackOk
<1>12. CASE Report(t)
  BY <1>12, ReportOk
<1>13. CASE Reset(t)
  BY <1>13, ResetOk
<1>14. CASE EndCall(t)
  BY <1>14, EndCallOk
<1> QED BY <1>1, <1>2, <1>3, <1>4, <1>5, <1>6, <1>7, <1>8, <1>9, <1>10, <1>11, <1>12, <1>13, <1>14 DEF Thread

\* A step of the daemon keeps the invariant.
LEMMA DaemonHolds == ASSUME IInv, Daemon PROVE IInv'
<1>1. CASE \E k \in Conns : KeepEvent(k) \/ TimerNotify(k)
  BY <1>1, KeepEventOk
<1>2. CASE \E k \in Conns : ThreadEvent(k)
  BY <1>2, ThreadEventOk
<1>3. CASE \E k \in Conns : HangupNotify(k)
  BY <1>3, HangupNotifyOk
<1>4. CASE \E a \in Acts : InputNotify(a)
  BY <1>4, InputNotifyOk
<1>5. CASE OutputNotify
  BY <1>5, OutputNotifyOk
<1>6. CASE SessionHangup
  BY <1>6, SessionHangupOk
<1>7. CASE DispatchEnd \/ TimerEnd
  BY <1>7, DispatchEndOk
<1>8. CASE \E ts \in SUBSET Ticking : Clock(ts)
  BY <1>8, ClockOk
<1> QED BY <1>1, <1>2, <1>3, <1>4, <1>5, <1>6, <1>7, <1>8 DEF Daemon

\* A step of the back ends keeps the invariant.
LEMMA BackEndsHold == ASSUME IInv, BackEnds PROVE IInv'
<1>1. CASE \E k \in Conns : Answer(k)
  BY <1>1, AnswerOk
<1>2. CASE \E k \in Conns : PeerClose(k)
  BY <1>2, PeerCloseOk
<1>3. CASE \E a \in Acts : AnswerUdp(a)
  BY <1>3, AnswerUdpOk
<1> QED BY <1>1, <1>2, <1>3 DEF BackEnds

\* Every step keeps the invariant.
LEMMA NextHolds == ASSUME EpollFails = FALSE PROVE IInv /\ [Next]_vars => IInv'
<1> SUFFICES ASSUME IInv, [Next]_vars PROVE IInv'
  OBVIOUS
<1>1. CASE \E t \in Threads : Thread(t)
  BY <1>1, ThreadHolds
<1>2. CASE Daemon
  BY <1>2, DaemonHolds
<1>3. CASE BackEnds
  BY <1>3, BackEndsHold
<1>4. CASE UNCHANGED vars
  <2>1. w' = w /\ th' = th /\ cur' = cur /\ UNCHANGED user
    BY <1>4 DEF vars, user
  <2>2. /\ TabOk(w) /\ WatchOk(w, th) /\ th \in [Threads -> ThType] /\ CurOk(cur, th)
        /\ (\A a \in Acts : ActOk(w, a)) /\ \A t \in Threads : ThreadOk(t, th[t], w)
    BY DEF IInv
  <2> QED BY <2>1, <2>2, WholeOk
<1> QED BY <1>1, <1>2, <1>3, <1>4 DEF Next

\* When epoll_ctl does not fail, IInv holds in every state: the induction behind the
\* theorems below.
THEOREM Inductive == ASSUME EpollFails = FALSE PROVE Spec => []IInv
<1>1. IInv /\ [Next]_vars => IInv'
  BY NextHolds, Zenon
<1> QED BY <1>1, InitHolds, PTL DEF Spec

\* A set of one element at most.
LEMMA AtMostOne ==
    ASSUME NEW S, \A x, y \in S : x = y
    PROVE  (S = {} => Cardinality(S) = 0) /\ (S # {} => Cardinality(S) = 1)
<1>1. CASE S = {}
  BY <1>1, FS_EmptySet
<1>2. CASE S # {}
  <2>1. PICK x \in S : TRUE
    BY <1>2
  <2>2. S = {x}
    BY <2>1
  <2>3. Cardinality({x}) = 1
    BY FS_Singleton
  <2> QED BY <1>2, <2>2, <2>3
<1> QED BY <1>1, <1>2

\* The invariant implies the types.
LEMMA IInvType == IInv => TypeOK
<1> SUFFICES ASSUME IInv PROVE TypeOK
  OBVIOUS
<1>1. w \in WType /\ th \in [Threads -> ThType] /\ \A t \in Threads : ThreadOk(t, th[t], w)
  BY DEF IInv, TabOk
<1>2. \A a \in Acts : w.act[a] \in [flag : {"undef", "init", "open", "send", "fin"}, err : BOOLEAN,
                                    conn : Conns \cup {None}, sconn : Conns \cup {None}]
  BY <1>1, Parts DEF ActType
<1>3. \A k \in Conns :
         w.conn[k] \in [act : Acts \cup {None}, buf : Acts \cup {"send", None},
                        ev : SUBSET {"in", "out", "hup"}, st : {"none", "new", "open"},
                        in : Seq(Acts), owes : Seq(Acts), eof : BOOLEAN,
                        watch : {None, "keep", "thread", "hung"}, timer : BOOLEAN, late : BOOLEAN]
  BY <1>1, Parts DEF ConnType
<1>4. w.keep \in Seq(Conns) /\ w.hash \subseteq Acts /\ w.udp.in \subseteq Acts /\ \A d \in Kinds : w.pool[d] \in Seq(Conns)
  BY <1>1, Parts DEF UdpType
<1>5. ASSUME NEW t \in Threads PROVE th[t].clk \in 0..2 /\ th[t].wait \in Seq(Acts) /\ IsInjective(th[t].wait)
  <2> DEFINE r == th[t]
  <2>1. r \in ThType /\ NoDup(r.wait)
    BY <1>1 DEF ThreadOk, WaitOk
  <2> HIDE DEF r
  <2>2. r.clk \in 0..2 /\ r.wait \in Seq(Acts) /\ IsInjective(r.wait)
    BY <2>1 DEF ThType, NoDup, IsInjective
  <2> QED BY <2>2, SMTT(30) DEF r
<1> QED BY <1>2, <1>3, <1>4, <1>5 DEF TypeOK

\* The invariant implies that every connection is in one place.
LEMMA IInvOnce == IInv => ConnOnce
<1> SUFFICES ASSUME IInv PROVE ConnOnce
  OBVIOUS
<1> SUFFICES ASSUME NEW k \in Conns
             PROVE  LET users == {a \in Acts : w.act[a].conn = k}
                        free  == {i \in DOMAIN w.pool[k[1]] : w.pool[k[1]][i] = k}
                        idle  == {i \in DOMAIN w.keep : w.keep[i] = k}
                    IN  /\ Cardinality(users) + Cardinality(free) + Cardinality(idle)
                              = IF k[2] <= w.total[k[1]] THEN 1 ELSE 0
                        /\ users = {} <=> w.conn[k].act = None
                        /\ users # {} => w.conn[k].act \in users
  BY DEF ConnOnce
<1> DEFINE users == {a \in Acts : w.act[a].conn = k}
           free  == {i \in DOMAIN w.pool[k[1]] : w.pool[k[1]][i] = k}
           idle  == {i \in DOMAIN w.keep : w.keep[i] = k}
<1>1. /\ w \in WType /\ NoDup(w.keep) /\ k[1] \in Kinds /\ NoDup(w.pool[k[1]]) /\ Paired(w) /\ Placed(w, {})
      /\ w.conn[k] \in ConnType
  <2>1. TabOk(w)
    BY DEF IInv
  <2>2. w \in WType /\ NoDup(w.keep) /\ k[1] \in Kinds /\ NoDup(w.pool[k[1]])
    BY <2>1, TabLists
  <2> QED BY <2>1, <2>2, Parts DEF TabOk
<1>2. k # None /\ None \notin Acts
  BY MsgAssumption
<1>3. \A a \in users : w.conn[k].act = a
  BY <1>1, <1>2 DEF Paired
<1>4. Used(w, k) => w.conn[k].act \in users
  BY <1>1 DEF Paired, Used, ConnType
<1>5. (users # {} <=> Used(w, k)) /\ (users # {} => w.conn[k].act \in users)
  BY <1>2, <1>3, <1>4 DEF Used
<1>6. (idle # {} <=> Idle(w, k)) /\ (free # {} <=> Free(w, k))
  BY DEF Idle, Free
<1>7. /\ Made(w, k) <=> Used(w, k) \/ Idle(w, k) \/ Free(w, k)
      /\ ~(Used(w, k) /\ Idle(w, k)) /\ ~(Used(w, k) /\ Free(w, k)) /\ ~(Idle(w, k) /\ Free(w, k))
  BY <1>1 DEF Placed
<1>8. /\ \A x, y \in users : x = y
      /\ \A x, y \in free : x = y
      /\ \A x, y \in idle : x = y
  BY <1>1, <1>3 DEF NoDup
<1> HIDE DEF users, free, idle
<1>9. /\ (users = {} => Cardinality(users) = 0) /\ (users # {} => Cardinality(users) = 1)
      /\ (free = {} => Cardinality(free) = 0) /\ (free # {} => Cardinality(free) = 1)
      /\ (idle = {} => Cardinality(idle) = 0) /\ (idle # {} => Cardinality(idle) = 1)
  BY <1>8, AtMostOne
<1>10. Cardinality(users) + Cardinality(free) + Cardinality(idle) = IF Made(w, k) THEN 1 ELSE 0
  BY <1>5, <1>6, <1>7, <1>9
<1>11. users = {} <=> w.conn[k].act = None
  BY <1>5 DEF Used
<1> QED BY <1>5, <1>10, <1>11 DEF users, free, idle, Made

\* The invariant implies that idle connections are watched, timed and clean.
LEMMA IInvIdle == IInv => IdleExact /\ IdleCleanInTime
<1> SUFFICES ASSUME IInv PROVE IdleExact /\ IdleCleanInTime
  OBVIOUS
<1>1. Kept(w) /\ w.keep \in Seq(Conns)
  BY Parts DEF IInv, TabOk
<1>2. DOMAIN w.keep = 1..Len(w.keep) /\ \A i \in DOMAIN w.keep : w.keep[i] \in Conns
  BY <1>1, LenProperties, ElementOfSeq
<1>3. \A k \in Conns : Contains(w.keep, k) <=> Idle(w, k)
  BY <1>2 DEF Contains, Idle
<1>4. IdleExact
  BY <1>1, <1>3 DEF IdleExact, Kept
<1>5. \A k \in ToSet(w.keep) : k \in Conns /\ Idle(w, k)
  BY <1>2 DEF ToSet, Idle
<1>6. IdleCleanInTime
  BY <1>1, <1>5 DEF IdleCleanInTime, Kept
<1> QED BY <1>4, <1>6

\* For every number of threads, actions and calls, when epoll_ctl does not fail: a
\* connection object is with one action, in the idle list or in its pool, once; its idle
\* timer runs and epoll watches it exactly while it is idle, and an idle one has no
\* answer coming unless its call ran past the deadline (GetConnection, FreeConnection,
\* IdleAttach, IdleDetach, CloseIdleTcpKeep, IMtAction::Reset).
THEOREM ConnsExact == ASSUME EpollFails = FALSE PROVE Spec => []ConnExact
<1>1. IInv => ConnExact
  BY IInvType, IInvOnce, IInvIdle DEF ConnExact
<1>2. Spec => []IInv
  BY Inductive, Zenon
<1> QED BY <1>1, <1>2, PTL

\* For every number of threads, actions and calls, when epoll_ctl does not fail and the
\* actions of a call are destroyed at its end: an answer that is in the connection of a
\* session still has its event, whatever other threads poll for on the shared socket
\* (mt_multi_netfd_poll, UdpSessionNtfy::InputNotify, NotifyWriteWait).
THEOREM AnswersSeen == ASSUME EpollFails = FALSE, KeepActs = FALSE PROVE Spec => []AnswerSeen
<1>1. IInv => AnswerSeen
  <2> SUFFICES ASSUME IInv, NEW a \in Acts,
                      w.act[a].conn # None, kind[a] = "session", w.conn[w.act[a].conn].buf \in Acts, ~w.act[a].err
               PROVE  "in" \in w.conn[w.act[a].conn].ev
    BY DEF AnswerSeen
  <2>1. Session(a, w.act[a], w.conn[w.act[a].conn], w.udp.asked)
    BY DEF IInv, ActOk
  <2> QED BY <2>1 DEF Session
<1>2. Spec => []IInv
  BY Inductive, Zenon
<1> QED BY <1>1, <1>2, PTL

\* What DoProcess is given at the end of a call.
LEMMA ReportOwn ==
    ASSUME KeepActs = FALSE, IInv, NEW t \in Threads, Report(t), NEW a \in Acts, got'[a] \in Acts, got'[a] # got[a]
    PROVE  got'[a] = a \/ w.conn[w.act[a].conn].late
<1> DEFINE r == th[t]
           x == w.act[a]
           c == w.conn[x.conn]
<1>1. /\ InputOk /\ ThreadOk(t, r, w) /\ ActOk(w, a) /\ r.pc = "report"
  BY DEF IInv, Report, At
<1>2. /\ Contains(calls[t][r.call], a) /\ x.flag = "fin" /\ got'[a] = c.buf
  <2>1. got'[a] = IF ~Contains(Lst(t), a) THEN got[a]
                  ELSE IF w.act[a].flag = "fin" THEN w.conn[w.act[a].conn].buf
                  ELSE "error"
    BY DEF Report
  <2>2. "error" \notin Acts
    BY MsgAssumption
  <2> QED BY <2>1, <2>2 DEF Lst
<1> HIDE DEF r, x, c
<1>3. Busy(r) /\ r.call \in DOMAIN calls[t]
  BY <1>1 DEF ThreadOk, Busy
<1>4. PICK j \in DOMAIN calls[t][r.call] : calls[t][r.call][j] = a
  <2>1. DOMAIN calls[t][r.call] = 1..Len(calls[t][r.call])
    BY <1>1, <1>3, CallTypes
  <2> QED BY <1>2, <2>1 DEF Contains
<1>5. StageOk(r, a, x, r.call, j, TRUE, w.hash)
  BY <1>1, <1>3, <1>4 DEF ThreadOk, x
<1>6. x.conn # None
  BY <1>1, <1>5 DEF StageOk
<1>7. /\ kind[a] = "session" => Session(a, x, c, w.udp.asked)
      /\ kind[a] # "session" /\ ~c.late => Stream(a, x, c)
  BY <1>1, <1>6 DEF ActOk, x, c
<1>8. c.buf = a \/ c.late
  BY <1>2, <1>7 DEF Session, Stream
<1> QED BY <1>2, <1>8 DEF c, x

\* Only Report gives an action anything.
LEMMA OnlyReport ==
    ASSUME [Next]_vars, \A t \in Threads : ~Report(t)
    PROVE  got' = got
<1>1. CASE \E t \in Threads : Thread(t)
  <2>0. PICK t \in Threads : Thread(t)
    BY <1>1
  <2>1. StartCall(t) => got' = got
    BY SMTT(30) DEF StartCall
  <2>2. InitConnEnv(t) => got' = got
    BY Zenon DEF InitConnEnv
  <2>3. InitFails(t) => got' = got
    BY DEF InitFails
  <2>4. InitDone(t) => got' = got
    BY DEF InitDone
  <2>5. CreateSocket(t) => got' = got
    BY DEF CreateSocket
  <2>6. SockDone(t) => got' = got
    BY DEF SockDone
  <2>7. OpenCnnect(t) => got' = got
    BY DEF OpenCnnect
  <2>8. OpenPass(t) => got' = got
    BY DEF OpenPass
  <2>9. SendData(t) => got' = got
    BY DEF SendData
  <2>10. SendPass(t) => got' = got
    BY DEF SendPass
  <2>11. RecvData(t) => got' = got
    BY DEF RecvData
  <2>12. RecvPass(t) => got' = got
    BY DEF RecvPass
  <2>13. PollBack(t) => got' = got
    BY DEF PollBack
  <2>14. Reset(t) => got' = got
    BY DEF Reset
  <2>15. EndCall(t) => got' = got
    BY SMTT(30) DEF EndCall
  <2> QED BY <2>0, <2>1, <2>2, <2>3, <2>4, <2>5, <2>6, <2>7, <2>8, <2>9, <2>10, <2>11, <2>12, <2>13, <2>14, <2>15 DEF Thread
<1>2. CASE Daemon
  BY <1>2, ZenonT(30) DEF Daemon, KeepEvent, ThreadEvent, HangupNotify, TimerNotify, InputNotify, OutputNotify, SessionHangup,
     DispatchEnd, TimerEnd, Clock
<1>3. CASE BackEnds
  BY <1>3, Zenon DEF BackEnds, Answer, PeerClose, AnswerUdp
<1>4. CASE UNCHANGED vars
  BY <1>4 DEF vars
<1> QED BY <1>1, <1>2, <1>3, <1>4 DEF Next

\* For every number of threads, actions and calls, when epoll_ctl does not fail and the
\* actions of a call are destroyed at its end: an action processes the answer to its own
\* request, unless the connection it was given was left by a call that ran past its
\* deadline (IMtAction::Reset, mt_multi_recvfrom, the session table of UdpSessionNtfy).
THEOREM OwnAnswers == ASSUME EpollFails = FALSE, KeepActs = FALSE PROVE Spec => OwnAnswer
<1> DEFINE Own1 == \A a \in Acts : got'[a] \in Acts /\ got'[a] # got[a] => got'[a] = a \/ w.conn[w.act[a].conn].late
<1>1. IInv /\ [Next]_vars => [Own1]_vars
  <2> SUFFICES ASSUME IInv, [Next]_vars, NEW a \in Acts, got'[a] \in Acts, got'[a] # got[a]
               PROVE  got'[a] = a \/ w.conn[w.act[a].conn].late
    OBVIOUS
  <2>1. CASE \E t \in Threads : Report(t)
    BY <2>1, ReportOwn
  <2>2. CASE \A t \in Threads : ~Report(t)
    BY <2>2, OnlyReport
  <2> QED BY <2>1, <2>2
<1>2. Spec => []IInv
  BY Inductive
<1>3. Spec => [][Next]_vars
  BY DEF Spec
<1>4. OwnAnswer <=> [][Own1]_vars
  BY DEF OwnAnswer
<1> HIDE DEF Own1
<1> QED BY <1>1, <1>2, <1>3, <1>4, PTL
=============================================================================
