--------------------------- MODULE MtFrame_proofs ---------------------------
(***************************************************************************)
(* MtFrame keeps its promises for every number of threads, fds, tasks and  *)
(* every size of the pool.                                                 *)
(*                                                                         *)
(* The places of OnePlace are not inductive by themselves: a thread that   *)
(* waits for its sub threads is only found again through parent and sub    *)
(* (Family), a thread that is taken from the pool is only clean because    *)
(* the lists and the context labels agree (Stage), and FreeThread may only *)
(* delete what no list, parent or epoll object leads to (Pooled, Watched). *)
(* IInv is all of this; Registered adds what the frame knows of epoll.     *)
(* Most steps compose several calls, between which a                       *)
(* thread is in the hand of the caller and in no list: MidInv has the set  *)
(* H of the threads in hand as a parameter, each function of the frame has *)
(* one lemma that says how it moves a thread into or out of H, and the     *)
(* lemma of an action chains the lemmas of the calls it makes.             *)
(***************************************************************************)
EXTENDS MtFrame, FiniteSetTheorems, TLAPS

\* Where the daemon can be, where any thread can be, and what types there are.
DaemonLabels == {"poll", "event", "wakeup", "expired"}
Labels == {"user", "start", "sleep", "wait", "epoll", "pend", "create", "start_subs",
           "undo"} \cup DaemonLabels
Types == {"NORMAL", "PRIMORDIAL", "DAEMON", "SUB_THREAD"}

\* The frames: the type of fr.
Frame ==
    [active : All, runlist : Seq(Users), iolist : SUBSET Users, sleeplist : SUBSET Users,
     pendlist : SUBSET Users, freelist : Seq(Threads), live : SUBSET Pool,
     total : Nat, use : Nat, flag : [All -> SUBSET Flags], type : [All -> Types],
     parent : [All -> Users \cup {None}], sub : [All -> SUBSET Threads],
     left : [All -> Times], fdset : [All -> SUBSET Fds], rcv : [All -> SUBSET Fds],
     pc : [All -> Labels]]

\* The threads that exist, the daemon apart; the one that runs; lists without
\* repetition.
Alive(f) == (f.live \cup {Primo}) \ {Daemon}
Hand(f)  == {f.active} \ {Daemon}
NoDup(s) == \A i, j \in DOMAIN s : s[i] = s[j] => i = j

\* Every thread that exists is in exactly one of the lists of the frame, the list
\* m of mt_exec_all_task and the hand H of the caller.
Placed(f, m, H) ==
    LET R == Elems(f.runlist) F == Elems(f.freelist) M == Elems(m)
        S == f.sleeplist P == f.pendlist
    IN  /\ NoDup(f.runlist) /\ NoDup(f.freelist) /\ NoDup(m)
        /\ R \cup S \cup P \cup F \cup M \cup H = Alive(f)
        /\ R \cap (S \cup P \cup F \cup M \cup H) = {}
        /\ S \cap (P \cup F \cup M \cup H) = {}
        /\ P \cap (F \cup M \cup H) = {}
        /\ F \cap (M \cup H) = {} /\ M \cap H = {}
        /\ f.iolist \subseteq S

\* The flags of a thread say in which lists it is.
Flagged(f) ==
    \A t \in Alive(f) :
        /\ "RUN_LIST" \in f.flag[t] <=> t \in Elems(f.runlist)
        /\ "SLEEP_LIST" \in f.flag[t] <=> t \in f.sleeplist
        /\ "IO_LIST" \in f.flag[t] <=> t \in f.iolist
        /\ "PEND_LIST" \in f.flag[t] <=> t \in f.pendlist
        /\ "FREE_LIST" \in f.flag[t] <=> t \in Elems(f.freelist)

\* Parents and sub threads point to each other, sub threads are alive and neither
\* free nor waiting to be started, and a thread with sub threads either is about to
\* park or is parked.
Family(f, m) ==
    /\ \A t, s \in All : s \in f.sub[t] <=> f.parent[s] = t
    /\ \A s \in All : f.parent[s] # None =>
           /\ s \in f.live /\ s \notin Elems(f.freelist) /\ s \notin Elems(m)
           /\ f.type[s] = "SUB_THREAD"
    /\ \A t \in All : f.sub[t] # {} =>
           t \in f.pendlist \/ (t = f.active /\ f.pc[t] = "start_subs")
    /\ \A t \in f.pendlist : f.sub[t] # {}
    /\ \A t \in Elems(m) : f.type[t] = "SUB_THREAD"

\* The label a thread will go on from fits the list it is in; one that is free,
\* made or not there at all is at its start.
Stage(f, m) ==
    /\ \A t \in Elems(f.runlist) :
           /\ f.pc[t] \in {"start", "sleep", "wait", "epoll", "pend"}
           /\ f.pc[t] = "epoll" => f.rcv[t] # {} \/ f.left[t] = 0
    /\ \A t \in f.sleeplist : f.pc[t] \in {"sleep", "wait", "epoll"}
    /\ \A t \in f.pendlist : f.pc[t] = "pend"
    /\ \A t \in Elems(f.freelist) \cup Elems(m) \cup (Threads \ f.live) : f.pc[t] = "start"
    /\ f.pc[Daemon] \in DaemonLabels

\* The counters of the pool.
Pooled(f) ==
    /\ IsFiniteSet(f.live) /\ Daemon \in f.live
    /\ f.total = Cardinality(f.live)
    /\ f.use = f.total - Len(f.freelist)
    /\ f.use = Cardinality(f.live \ Elems(f.freelist))
    /\ f.total <= MaxNum \/ f.total <= DefaultNum

\* What holds of a frame between two calls, with the threads H in hand.
MidInv(f, m, H) == 
    /\ f \in Frame /\ m \in Seq(Threads)
    /\ Placed(f, m, H) /\ Flagged(f) /\ Family(f, m) /\ Stage(f, m) /\ Pooled(f)

\* What epoll watches has the object of a thread in EpollSchedule.
Watched(f, n, l) ==
    /\ n \in [Fds -> Users \cup {None}] /\ l \subseteq Fds
    /\ \A d \in l : n[d] # None /\ f.pc[n[d]] = "epoll" /\ d \in f.fdset[n[d]]

\* A task list exists only inside mt_exec_all_task, whose last step finds a sub
\* thread.
Executing(f, m, w) ==
    /\ w \in Nat
    /\ m # <<>> => f.pc[f.active] \in {"create", "start_subs", "undo"}
    /\ f.pc[f.active] = "create" => w >= 1
    /\ f.pc[f.active] = "start_subs" => m # <<>> \/ f.sub[f.active] # {}

\* WokenForReason, of any frame.
Woken(f) == f.pc[f.active] = "epoll" => f.rcv[f.active] # {} \/ f.left[f.active] = 0

\* The invariant, of any state.
StateInv(f, m, n, l, w) ==
    MidInv(f, m, Hand(f)) /\ Watched(f, n, l) /\ Executing(f, m, w) /\ Woken(f)

\* The inductive invariant of the frame.
IInv == StateInv(fr, made, notify, watch, want)

\* What the frame knows of epoll: it watches only what is open and listened to, what
\* is listened to has an object, even if it is one left behind, and the events at
\* hand are of fds still watched, because only the daemon runs while there are any.
Registered ==
    /\ listen \subseteq Fds /\ open \subseteq Fds /\ watch \subseteq listen \cap open
    /\ \A d \in listen : notify[d] # None
    /\ DOMAIN evts \subseteq watch
    /\ DOMAIN evts # {} => fr.active = Daemon /\ fr.pc[Daemon] = "event"

(***************************************************************************)
(* Sequences as lists without repetition.                                  *)
(***************************************************************************)

\* The empty list has no members.
LEMMA EmptyElems == Elems(<<>>) = {} /\ NoDup(<<>>)
BY DEF Elems, NoDup

\* The members of a list are of its type; only the empty list has none.
LEMMA SeqElems ==
    ASSUME NEW S, NEW s \in Seq(S)
    PROVE  /\ Elems(s) \subseteq S
           /\ s # <<>> => Head(s) \in Elems(s) /\ Head(s) \in S
<1>1. Elems(s) \subseteq S
  BY DEF Elems
<1>2. ASSUME s # <<>> PROVE Head(s) \in Elems(s) /\ Head(s) \in S
  <2>1. 1 \in DOMAIN s /\ Head(s) = s[1]
    BY <1>2
  <2> QED BY <1>1, <2>1 DEF Elems
<1> QED BY <1>1, <1>2

\* A new member at the end.
LEMMA AppendElems ==
    ASSUME NEW S, NEW s \in Seq(S), NEW x \in S
    PROVE  /\ Append(s, x) \in Seq(S) /\ Append(s, x) # <<>>
           /\ Len(Append(s, x)) = Len(s) + 1
           /\ Elems(Append(s, x)) = Elems(s) \cup {x}
           /\ NoDup(s) /\ x \notin Elems(s) => NoDup(Append(s, x))
<1>1. /\ Append(s, x) \in Seq(S) /\ Append(s, x) # <<>>
      /\ Len(Append(s, x)) = Len(s) + 1
      /\ DOMAIN Append(s, x) = 1..(Len(s) + 1) /\ DOMAIN s = 1..Len(s) /\ Len(s) \in Nat
      /\ \A i \in 1..Len(s) : Append(s, x)[i] = s[i]
      /\ Append(s, x)[Len(s) + 1] = x
  OBVIOUS
<1>2. Elems(Append(s, x)) = Elems(s) \cup {x}
  <2>1. ASSUME NEW y \in Elems(Append(s, x)) PROVE y \in Elems(s) \cup {x}
    BY <1>1, <2>1 DEF Elems
  <2>2. ASSUME NEW y \in Elems(s) \cup {x} PROVE y \in Elems(Append(s, x))
    BY <1>1, <2>2 DEF Elems
  <2> QED BY <2>1, <2>2
<1>3. ASSUME NoDup(s), x \notin Elems(s) PROVE NoDup(Append(s, x))
  BY <1>1, <1>3 DEF NoDup, Elems
<1> QED BY <1>1, <1>2, <1>3

\* The first member taken off.
LEMMA TailElems ==
    ASSUME NEW S, NEW s \in Seq(S), s # <<>>
    PROVE  /\ Head(s) \in Elems(s) /\ Head(s) \in S
           /\ Tail(s) \in Seq(S) /\ Len(Tail(s)) = Len(s) - 1 /\ Len(s) >= 1 /\ Len(s) \in Nat
           /\ NoDup(s) => NoDup(Tail(s)) /\ Elems(Tail(s)) = Elems(s) \ {Head(s)}
<1>1. /\ Len(s) \in Nat /\ Len(s) >= 1 /\ DOMAIN s = 1..Len(s)
      /\ Tail(s) \in Seq(S) /\ Len(Tail(s)) = Len(s) - 1
      /\ DOMAIN Tail(s) = 1..(Len(s) - 1)
      /\ \A i \in 1..(Len(s) - 1) : Tail(s)[i] = s[i + 1]
      /\ Head(s) = s[1]
  OBVIOUS
<1>2. Head(s) \in Elems(s) /\ Head(s) \in S
  BY SeqElems
<1>3. ASSUME NoDup(s) PROVE NoDup(Tail(s))
  BY <1>1, <1>3 DEF NoDup
<1>4. ASSUME NoDup(s) PROVE Elems(Tail(s)) = Elems(s) \ {Head(s)}
  <2>1. ASSUME NEW y \in Elems(Tail(s)) PROVE y \in Elems(s) \ {Head(s)}
    <3>1. PICK i \in 1..(Len(s) - 1) : y = s[i + 1]
      BY <1>1 DEF Elems
    <3>2. i + 1 \in DOMAIN s /\ 1 \in DOMAIN s /\ i + 1 # 1
      BY <1>1
    <3>3. s[i + 1] # s[1]
      BY <1>4, <3>2 DEF NoDup
    <3> QED BY <1>1, <3>1, <3>2, <3>3 DEF Elems
  <2>2. ASSUME NEW y \in Elems(s) \ {Head(s)} PROVE y \in Elems(Tail(s))
    <3>1. PICK i \in 1..Len(s) : y = s[i] /\ i # 1
      BY <1>1 DEF Elems
    <3>2. i - 1 \in 1..(Len(s) - 1) /\ Tail(s)[i - 1] = s[i]
      BY <1>1, <3>1
    <3> QED BY <1>1, <3>1, <3>2 DEF Elems
  <2> QED BY <2>1, <2>2
<1> QED BY <1>1, <1>2, <1>3, <1>4

(***************************************************************************)
(* The functions of the frame, field by field.                             *)
(***************************************************************************)

\* What of a frame the places, flags, family and pool depend on.
SameLists(f, g) ==
    /\ g.runlist = f.runlist /\ g.iolist = f.iolist /\ g.sleeplist = f.sleeplist
    /\ g.pendlist = f.pendlist /\ g.freelist = f.freelist /\ g.live = f.live
    /\ g.flag = f.flag
SameFamily(f, g) == g.type = f.type /\ g.parent = f.parent /\ g.sub = f.sub
SamePool(f, g)   == g.total = f.total /\ g.use = f.use
SameWait(f, g)   == g.left = f.left /\ g.fdset = f.fdset /\ g.rcv = f.rcv

\* The first runnable thread leaves the run list and runs; without one the daemon runs.
LEMMA ThreadSchduleFields ==
    ASSUME NEW f \in Frame
    PROVE  LET g == ThreadSchdule(f) IN
           /\ f.runlist = <<>> =>
                /\ g \in Frame /\ g.active = Daemon /\ SameLists(f, g) /\ SameFamily(f, g)
                /\ SamePool(f, g) /\ SameWait(f, g) /\ g.pc = f.pc
           /\ f.runlist # <<>> =>
                LET x == Head(f.runlist) IN
                /\ g \in Frame /\ g.active = x /\ g.runlist = Tail(f.runlist)
                /\ g.flag = [f.flag EXCEPT ![x] = @ \ {"RUN_LIST"}]
                /\ g.iolist = f.iolist /\ g.sleeplist = f.sleeplist /\ g.pendlist = f.pendlist
                /\ g.freelist = f.freelist /\ g.live = f.live /\ g.pc = f.pc
                /\ SameFamily(f, g) /\ SamePool(f, g) /\ SameWait(f, g)
<1>1. CASE f.runlist = <<>>
  BY <1>1 DEF ThreadSchdule, Frame, All, SameLists, SameFamily, SamePool, SameWait
<1>2. CASE f.runlist # <<>>
  <2>1. Tail(f.runlist) \in Seq(Users) /\ Head(f.runlist) \in Users
    BY <1>2, TailElems DEF Frame
  <2> QED BY <1>2, <2>1 DEF ThreadSchdule, RemoveRunable, Frame, SameFamily, SamePool,
          SameWait, All, Users
<1> QED BY <1>1, <1>2

\* Nobody is in hand: the scheduler takes the first runnable thread or the daemon.
LEMMA Scheduled ==
    ASSUME NEW f, NEW m, MidInv(f, m, {}), f.pc[f.active] # "start_subs"
    PROVE  LET g == ThreadSchdule(f) IN
           /\ MidInv(g, m, Hand(g))
           /\ g.pc = f.pc /\ g.fdset = f.fdset
           /\ g.pc[g.active] \in {"start", "sleep", "wait", "epoll", "pend"} \cup DaemonLabels
           /\ g.pc[g.active] = "epoll" => g.rcv[g.active] # {} \/ g.left[g.active] = 0
<1> DEFINE g == ThreadSchdule(f)
<1>0. /\ f \in Frame /\ m \in Seq(Threads) /\ Placed(f, m, {}) /\ Flagged(f)
      /\ Family(f, m) /\ Stage(f, m) /\ Pooled(f)
  BY DEF MidInv
<1>1. CASE f.runlist = <<>>
  <2>2. /\ g \in Frame /\ g.active = Daemon /\ SameLists(f, g) /\ SameFamily(f, g)
        /\ SamePool(f, g) /\ SameWait(f, g) /\ g.pc = f.pc
    BY <1>0, <1>1, ThreadSchduleFields
  <2>3. Hand(g) = {}
    BY <2>2 DEF Hand
  <2>4. Placed(g, m, Hand(g)) /\ Flagged(g) /\ Stage(g, m) /\ Pooled(g)
    BY <1>0, <2>2, <2>3 DEF Placed, Flagged, Stage, Pooled, Alive, SameLists, SamePool,
       SameWait
  <2>5. Family(g, m)
    BY <1>0, <2>2 DEF Family, SameLists, SameFamily
  <2>6. g.pc[g.active] \in DaemonLabels
    BY <1>0, <2>2 DEF Stage
  <2> QED BY <1>0, <2>2, <2>4, <2>5, <2>6 DEF MidInv, DaemonLabels, SameWait
<1>2. CASE f.runlist # <<>>
  <2> DEFINE x == Head(f.runlist)
  <2>1. /\ x \in Elems(f.runlist) /\ x \in Users /\ Tail(f.runlist) \in Seq(Users)
        /\ NoDup(Tail(f.runlist)) /\ Elems(Tail(f.runlist)) = Elems(f.runlist) \ {x}
    <3>1. f.runlist \in Seq(Users) /\ NoDup(f.runlist)
      BY <1>0 DEF Frame, Placed
    <3> QED BY <1>2, <3>1, TailElems
  <2>3. /\ g \in Frame /\ g.active = x /\ g.runlist = Tail(f.runlist)
        /\ g.flag = [f.flag EXCEPT ![x] = @ \ {"RUN_LIST"}]
        /\ g.iolist = f.iolist /\ g.sleeplist = f.sleeplist /\ g.pendlist = f.pendlist
        /\ g.freelist = f.freelist /\ g.live = f.live /\ g.pc = f.pc
        /\ SameFamily(f, g) /\ SamePool(f, g) /\ SameWait(f, g)
    BY <1>0, <1>2, ThreadSchduleFields
  <2>4. x # Daemon /\ Hand(g) = {x} /\ Alive(g) = Alive(f)
    BY <2>1, <2>3, FrameAssumption DEF Hand, Alive, Users
  <2>5. Placed(g, m, Hand(g))
    BY <1>0, <2>1, <2>3, <2>4 DEF Placed
  <2>6. Flagged(g)
    <3>1. f.flag \in [All -> SUBSET Flags] /\ Alive(f) \subseteq All
      BY <1>0 DEF Frame, Alive, All, Pool
    <3> QED BY <1>0, <2>1, <2>3, <2>4, <3>1 DEF Flagged
  <2>7. Family(g, m)
    BY <1>0, <2>3 DEF Family, SameFamily
  <2>8. Stage(g, m) /\ Pooled(g)
    BY <1>0, <2>1, <2>3 DEF Stage, Pooled, SamePool, SameWait
  <2>9. /\ f.pc[x] \in {"start", "sleep", "wait", "epoll", "pend"}
        /\ f.pc[x] = "epoll" => f.rcv[x] # {} \/ f.left[x] = 0
    BY <1>0, <2>1 DEF Stage
  <2> QED BY <1>0, <2>3, <2>5, <2>6, <2>7, <2>8, <2>9 DEF MidInv, SameWait
<1> QED BY <1>1, <1>2

\* The active thread saves its context at p.
Leave(f, p) == [f EXCEPT !.pc[f.active] = p]

\* The active thread t has gone to the sleep heap, and to the IO list if io.
Slept(f, g, t, p, io) ==
    /\ g \in Frame /\ g.active = t /\ g.runlist = f.runlist /\ g.pendlist = f.pendlist
    /\ g.freelist = f.freelist /\ g.live = f.live
    /\ g.sleeplist = f.sleeplist \cup {t}
    /\ g.iolist = IF io THEN f.iolist \cup {t} ELSE f.iolist
    /\ g.flag = [f.flag EXCEPT ![t] = @ \cup IF io THEN {"SLEEP_LIST", "IO_LIST"}
                                                   ELSE {"SLEEP_LIST"}]
    /\ SameFamily(f, g) /\ SamePool(f, g)
    /\ \A u \in All \ {t} : g.left[u] = f.left[u] /\ g.rcv[u] = f.rcv[u]
                            /\ g.fdset[u] = f.fdset[u]
    /\ g.pc = [f.pc EXCEPT ![t] = p]

\* The active thread says how long it waits, and for which fds.
SetLeft(f, ms) == [f EXCEPT !.left[f.active] = ms]
SetWait(f, ms, F) ==
    [f EXCEPT !.left[f.active] = ms, !.fdset[f.active] = F, !.rcv[f.active] = {}]

\* Into the heap.
LEMMA InsertSleepFields ==
    ASSUME NEW f \in Frame, NEW t \in Users
    PROVE  LET g == InsertSleep(f, t) IN
           /\ g \in Frame /\ g.active = f.active /\ g.runlist = f.runlist
           /\ g.pendlist = f.pendlist /\ g.freelist = f.freelist /\ g.live = f.live
           /\ g.sleeplist = f.sleeplist \cup {t} /\ g.iolist = f.iolist
           /\ g.flag = [f.flag EXCEPT ![t] = @ \cup {"SLEEP_LIST"}]
           /\ SameFamily(f, g) /\ SamePool(f, g) /\ SameWait(f, g) /\ g.pc = f.pc
BY DEF InsertSleep, Frame, SameFamily, SamePool, SameWait, All, Users, Flags

\* Out of the heap.
LEMMA RemoveSleepFields ==
    ASSUME NEW f \in Frame, NEW t \in Users
    PROVE  LET g == RemoveSleep(f, t) IN
           /\ g \in Frame /\ g.active = f.active /\ g.runlist = f.runlist
           /\ g.pendlist = f.pendlist /\ g.freelist = f.freelist /\ g.live = f.live
           /\ g.sleeplist = f.sleeplist \ {t} /\ g.iolist = f.iolist
           /\ g.flag = [f.flag EXCEPT ![t] = @ \ {"SLEEP_LIST"}]
           /\ SameFamily(f, g) /\ SamePool(f, g) /\ SameWait(f, g) /\ g.pc = f.pc
BY DEF RemoveSleep, Frame, SameFamily, SamePool, SameWait, All, Users

\* The IO list takes a thread together with the sleep heap.
LEMMA InsertIoWaitFields ==
    ASSUME NEW f \in Frame, NEW t \in Users
    PROVE  LET g == InsertIoWait(f, t) IN
           /\ g \in Frame /\ g.active = f.active /\ g.runlist = f.runlist
           /\ g.pendlist = f.pendlist /\ g.freelist = f.freelist /\ g.live = f.live
           /\ g.sleeplist = f.sleeplist \cup {t} /\ g.iolist = f.iolist \cup {t}
           /\ g.flag = [f.flag EXCEPT ![t] = @ \cup {"SLEEP_LIST", "IO_LIST"}]
           /\ SameFamily(f, g) /\ SamePool(f, g) /\ SameWait(f, g) /\ g.pc = f.pc
<1> DEFINE e == [f EXCEPT !.flag[t] = @ \cup {"IO_LIST"}, !.iolist = @ \cup {t}]
           g == InsertIoWait(f, t)
<1>1. /\ e \in Frame /\ e.active = f.active /\ e.runlist = f.runlist
      /\ e.pendlist = f.pendlist /\ e.freelist = f.freelist /\ e.live = f.live
      /\ e.sleeplist = f.sleeplist /\ e.iolist = f.iolist \cup {t}
      /\ e.flag = [f.flag EXCEPT ![t] = @ \cup {"IO_LIST"}]
      /\ SameFamily(f, e) /\ SamePool(f, e) /\ SameWait(f, e) /\ e.pc = f.pc
  BY DEF Frame, SameFamily, SamePool, SameWait, All, Users, Flags
<1>2. g = InsertSleep(e, t)
  BY DEF InsertIoWait
<1> HIDE DEF e, g
<1>3. /\ g \in Frame /\ g.active = e.active /\ g.runlist = e.runlist
      /\ g.pendlist = e.pendlist /\ g.freelist = e.freelist /\ g.live = e.live
      /\ g.sleeplist = e.sleeplist \cup {t} /\ g.iolist = e.iolist
      /\ g.flag = [e.flag EXCEPT ![t] = @ \cup {"SLEEP_LIST"}]
      /\ SameFamily(e, g) /\ SamePool(e, g) /\ SameWait(e, g) /\ g.pc = e.pc
  BY <1>1, <1>2, InsertSleepFields
<1>4. g.flag = [f.flag EXCEPT ![t] = @ \cup {"SLEEP_LIST", "IO_LIST"}]
  <2>1. f.flag \in [All -> SUBSET Flags] /\ t \in All
    BY DEF Frame, All, Users
  <2>2. (f.flag[t] \cup {"IO_LIST"}) \cup {"SLEEP_LIST"}
            = f.flag[t] \cup {"SLEEP_LIST", "IO_LIST"}
    OBVIOUS
  <2>3. g.flag = [f.flag EXCEPT ![t] = (f.flag[t] \cup {"IO_LIST"}) \cup {"SLEEP_LIST"}]
    BY <1>1, <1>3, <2>1
  <2> QED BY <2>2, <2>3
<1>5. SameFamily(f, g) /\ SamePool(f, g) /\ SameWait(f, g)
  BY <1>1, <1>3 DEF SameFamily, SamePool, SameWait
<1> QED BY <1>1, <1>3, <1>4, <1>5 DEF g

\* What saving the context changes.
LEMMA LeaveFields ==
    ASSUME NEW f \in Frame, NEW p \in Labels
    PROVE  LET g == Leave(f, p) IN
           /\ g \in Frame /\ g.active = f.active /\ SameLists(f, g) /\ SameFamily(f, g)
           /\ SamePool(f, g) /\ SameWait(f, g) /\ g.pc = [f.pc EXCEPT ![f.active] = p]
BY DEF Leave, Frame, SameLists, SameFamily, SamePool, SameWait

\* The three calls that put the active thread to sleep. The first is sleep.
LEMMA SleepFields ==
    ASSUME NEW f \in Frame, NEW ms \in Times, f.active \in Users
    PROVE  Slept(f, Leave(InsertSleep(SetLeft(f, ms), f.active), "sleep"),
                 f.active, "sleep", FALSE)
<1> DEFINE h == SetLeft(f, ms)
           i == InsertSleep(h, f.active)
<1>1. /\ h \in Frame /\ h.active = f.active /\ SameLists(f, h) /\ SameFamily(f, h)
      /\ SamePool(f, h) /\ h.pc = f.pc /\ h.fdset = f.fdset /\ h.rcv = f.rcv
      /\ \A u \in All \ {f.active} : h.left[u] = f.left[u]
  BY DEF SetLeft, Frame, SameLists, SameFamily, SamePool, All, Users
<1> HIDE DEF h
<1>2. /\ i \in Frame /\ i.active = h.active /\ i.runlist = h.runlist
      /\ i.pendlist = h.pendlist /\ i.freelist = h.freelist /\ i.live = h.live
      /\ i.sleeplist = h.sleeplist \cup {f.active} /\ i.iolist = h.iolist
      /\ i.flag = [h.flag EXCEPT ![f.active] = @ \cup {"SLEEP_LIST"}]
      /\ SameFamily(h, i) /\ SamePool(h, i) /\ SameWait(h, i) /\ i.pc = h.pc
  BY <1>1, InsertSleepFields
<1> HIDE DEF i
<1> DEFINE g == Leave(i, "sleep")
<1>3. /\ g \in Frame /\ g.active = i.active /\ SameLists(i, g) /\ SameFamily(i, g)
      /\ SamePool(i, g) /\ SameWait(i, g) /\ g.pc = [i.pc EXCEPT ![i.active] = "sleep"]
  BY <1>2, LeaveFields DEF Labels
<1> HIDE DEF g
<1>4. Slept(f, g, f.active, "sleep", FALSE)
  BY <1>1, <1>2, <1>3 DEF Slept, SameLists, SameFamily, SamePool, SameWait
<1> QED BY <1>4 DEF g, h, i
\* WaitNotify.
LEMMA WaitFields ==
    ASSUME NEW f \in Frame, NEW ms \in Times, f.active \in Users
    PROVE  Slept(f, Leave(InsertIoWait(SetLeft(f, ms), f.active), "wait"),
                 f.active, "wait", TRUE)
<1> DEFINE h == SetLeft(f, ms)
           i == InsertIoWait(h, f.active)
<1>1. /\ h \in Frame /\ h.active = f.active /\ SameLists(f, h) /\ SameFamily(f, h)
      /\ SamePool(f, h) /\ h.pc = f.pc /\ h.fdset = f.fdset /\ h.rcv = f.rcv
      /\ \A u \in All \ {f.active} : h.left[u] = f.left[u]
  BY DEF SetLeft, Frame, SameLists, SameFamily, SamePool, All, Users
<1> HIDE DEF h
<1>2. /\ i \in Frame /\ i.active = h.active /\ i.runlist = h.runlist
      /\ i.pendlist = h.pendlist /\ i.freelist = h.freelist /\ i.live = h.live
      /\ i.sleeplist = h.sleeplist \cup {f.active} /\ i.iolist = h.iolist \cup {f.active}
      /\ i.flag = [h.flag EXCEPT ![f.active] = @ \cup {"SLEEP_LIST", "IO_LIST"}]
      /\ SameFamily(h, i) /\ SamePool(h, i) /\ SameWait(h, i) /\ i.pc = h.pc
  BY <1>1, InsertIoWaitFields
<1> HIDE DEF i
<1> DEFINE g == Leave(i, "wait")
<1>3. /\ g \in Frame /\ g.active = i.active /\ SameLists(i, g) /\ SameFamily(i, g)
      /\ SamePool(i, g) /\ SameWait(i, g) /\ g.pc = [i.pc EXCEPT ![i.active] = "wait"]
  BY <1>2, LeaveFields DEF Labels
<1> HIDE DEF g
<1>4. Slept(f, g, f.active, "wait", TRUE)
  BY <1>1, <1>2, <1>3 DEF Slept, SameLists, SameFamily, SamePool, SameWait
<1> QED BY <1>4 DEF g, h, i

\* EpollSchedule.
LEMMA EpollFields ==
    ASSUME NEW f \in Frame, NEW ms \in Times, NEW F \in SUBSET Fds, f.active \in Users
    PROVE  LET g == Leave(InsertIoWait(SetWait(f, ms, F), f.active), "epoll")
           IN  Slept(f, g, f.active, "epoll", TRUE) /\ g.fdset = [f.fdset EXCEPT ![f.active] = F]
<1> DEFINE h == SetWait(f, ms, F)
           i == InsertIoWait(h, f.active)
<1>1. /\ h \in Frame /\ h.active = f.active /\ SameLists(f, h) /\ SameFamily(f, h)
      /\ SamePool(f, h) /\ h.pc = f.pc /\ h.fdset = [f.fdset EXCEPT ![f.active] = F]
      /\ \A u \in All \ {f.active} : h.left[u] = f.left[u] /\ h.rcv[u] = f.rcv[u]
                                     /\ h.fdset[u] = f.fdset[u]
  BY DEF SetWait, Frame, SameLists, SameFamily, SamePool, All, Users
<1> HIDE DEF h
<1>2. /\ i \in Frame /\ i.active = h.active /\ i.runlist = h.runlist
      /\ i.pendlist = h.pendlist /\ i.freelist = h.freelist /\ i.live = h.live
      /\ i.sleeplist = h.sleeplist \cup {f.active} /\ i.iolist = h.iolist \cup {f.active}
      /\ i.flag = [h.flag EXCEPT ![f.active] = @ \cup {"SLEEP_LIST", "IO_LIST"}]
      /\ SameFamily(h, i) /\ SamePool(h, i) /\ SameWait(h, i) /\ i.pc = h.pc
  BY <1>1, InsertIoWaitFields
<1> HIDE DEF i
<1> DEFINE g == Leave(i, "epoll")
<1>3. /\ g \in Frame /\ g.active = i.active /\ SameLists(i, g) /\ SameFamily(i, g)
      /\ SamePool(i, g) /\ SameWait(i, g) /\ g.pc = [i.pc EXCEPT ![i.active] = "epoll"]
  BY <1>2, LeaveFields DEF Labels
<1> HIDE DEF g
<1>4. Slept(f, g, f.active, "epoll", TRUE) /\ g.fdset = [f.fdset EXCEPT ![f.active] = F]
  BY <1>1, <1>2, <1>3 DEF Slept, SameLists, SameFamily, SamePool, SameWait
<1> QED BY <1>4 DEF g, h, i

\* A thread that was in hand and sleeps is in its place.
LEMMA SleptInv ==
    ASSUME NEW f, NEW g, NEW m, NEW t \in Users, NEW p \in {"sleep", "wait", "epoll"},
           NEW io \in BOOLEAN, f.active = t, f.pc[t] = "user",
           MidInv(f, m, {t}), Slept(f, g, t, p, io)
    PROVE  MidInv(g, m, {}) /\ g.pc[g.active] = p
<1>0. /\ f \in Frame /\ m \in Seq(Threads) /\ Placed(f, m, {t}) /\ Flagged(f)
      /\ Family(f, m) /\ Stage(f, m) /\ Pooled(f) /\ t \in All /\ g \in Frame
  BY DEF MidInv, All, Users, Slept
<1>1. Alive(g) = Alive(f) /\ t \in Alive(f) /\ Alive(f) \subseteq All
  BY <1>0 DEF Alive, Slept, Placed, Frame, All, Pool
<1>2. Placed(g, m, {})
  BY <1>0, <1>1 DEF Placed, Slept
<1>3. Flagged(g)
  <2>1. f.flag \in [All -> SUBSET Flags] /\ t \notin f.iolist
    BY <1>0 DEF Frame, Placed
  <2>2. \A u \in All \ {t} : g.flag[u] = f.flag[u]
    BY <2>1 DEF Slept
  <2>3. g.flag[t] = f.flag[t] \cup IF io THEN {"SLEEP_LIST", "IO_LIST"} ELSE {"SLEEP_LIST"}
    BY <1>0, <2>1 DEF Slept
  <2>4. ASSUME NEW u \in Alive(f), u # t
        PROVE  /\ "RUN_LIST" \in g.flag[u] <=> u \in Elems(g.runlist)
               /\ "SLEEP_LIST" \in g.flag[u] <=> u \in g.sleeplist
               /\ "IO_LIST" \in g.flag[u] <=> u \in g.iolist
               /\ "PEND_LIST" \in g.flag[u] <=> u \in g.pendlist
               /\ "FREE_LIST" \in g.flag[u] <=> u \in Elems(g.freelist)
    BY <1>0, <1>1, <2>2, <2>4 DEF Flagged, Slept
  <2>5. /\ "RUN_LIST" \in g.flag[t] <=> t \in Elems(g.runlist)
        /\ "SLEEP_LIST" \in g.flag[t] <=> t \in g.sleeplist
        /\ "IO_LIST" \in g.flag[t] <=> t \in g.iolist
        /\ "PEND_LIST" \in g.flag[t] <=> t \in g.pendlist
        /\ "FREE_LIST" \in g.flag[t] <=> t \in Elems(g.freelist)
    BY <1>0, <1>1, <2>1, <2>3 DEF Flagged, Slept
  <2> QED BY <1>1, <2>4, <2>5 DEF Flagged
<1>4. f.pc \in [All -> Labels] /\ g.pc[t] = p /\ \A u \in All \ {t} : g.pc[u] = f.pc[u]
  BY <1>0 DEF Slept, Frame
<1>5. Family(g, m)
  BY <1>0, <1>4 DEF Family, Slept, SameFamily
<1>6. Stage(g, m)
  <2>1. Elems(f.runlist) \subseteq All \ {t} /\ f.sleeplist \subseteq All /\ f.pendlist \subseteq All \ {t}
    BY <1>0, <1>1 DEF Placed
  <2>2. Elems(f.freelist) \cup Elems(m) \cup (Threads \ f.live) \subseteq All \ {t}
    BY <1>0, <1>1, FrameAssumption DEF Placed, Alive, All
  <2>3. Daemon \in All \ {t}
    BY <1>0, FrameAssumption DEF All, Users
  <2> QED BY <1>0, <1>4, <2>1, <2>2, <2>3 DEF Stage, Slept
<1>7. Pooled(g)
  BY <1>0 DEF Pooled, Slept, SamePool
<1> QED BY <1>0, <1>2, <1>3, <1>4, <1>5, <1>6, <1>7 DEF MidInv, Slept

\* A thread has gone from the sleep heap to the run list.
Woke(f, g, t) ==
    /\ g \in Frame /\ g.active = f.active /\ g.runlist = Append(f.runlist, t)
    /\ g.pendlist = f.pendlist /\ g.freelist = f.freelist /\ g.live = f.live
    /\ g.sleeplist = f.sleeplist \ {t} /\ g.iolist = f.iolist \ {t}
    /\ g.flag = [f.flag EXCEPT ![t] = (@ \ {"IO_LIST", "SLEEP_LIST"}) \cup {"RUN_LIST"}]
    /\ SameFamily(f, g) /\ SamePool(f, g) /\ SameWait(f, g) /\ g.pc = f.pc

\* A thread joins the run list at its end.
LEMMA InsertRunableFields ==
    ASSUME NEW f \in Frame, NEW t \in Users
    PROVE  LET g == InsertRunable(f, t) IN
           /\ g \in Frame /\ g.active = f.active /\ g.runlist = Append(f.runlist, t)
           /\ g.iolist = f.iolist /\ g.sleeplist = f.sleeplist /\ g.pendlist = f.pendlist
           /\ g.freelist = f.freelist /\ g.live = f.live
           /\ g.flag = [f.flag EXCEPT ![t] = @ \cup {"RUN_LIST"}]
           /\ SameFamily(f, g) /\ SamePool(f, g) /\ SameWait(f, g) /\ g.pc = f.pc
<1>1. Append(f.runlist, t) \in Seq(Users)
  BY AppendElems DEF Frame
<1> QED BY <1>1 DEF InsertRunable, Frame, SameFamily, SamePool, SameWait, All, Users, Flags

\* Out of the IO list and the heap, into the run list.
LEMMA WakeIoFields ==
    ASSUME NEW f \in Frame, NEW t \in Users
    PROVE  Woke(f, InsertRunable(RemoveIoWait(f, t), t), t)
<1> DEFINE h == RemoveIoWait(f, t)
           g == InsertRunable(h, t)
<1>1. /\ h \in Frame /\ h.active = f.active /\ h.runlist = f.runlist
      /\ h.pendlist = f.pendlist /\ h.freelist = f.freelist /\ h.live = f.live
      /\ h.sleeplist = f.sleeplist \ {t} /\ h.iolist = f.iolist \ {t}
      /\ h.flag = [f.flag EXCEPT ![t] = @ \ {"IO_LIST", "SLEEP_LIST"}]
      /\ SameFamily(f, h) /\ SamePool(f, h) /\ SameWait(f, h) /\ h.pc = f.pc
  <2> DEFINE e == [f EXCEPT !.flag[t] = @ \ {"IO_LIST"}, !.iolist = @ \ {t}]
  <2>1. /\ e \in Frame /\ e.active = f.active /\ e.runlist = f.runlist
        /\ e.pendlist = f.pendlist /\ e.freelist = f.freelist /\ e.live = f.live
        /\ e.sleeplist = f.sleeplist /\ e.iolist = f.iolist \ {t}
        /\ e.flag = [f.flag EXCEPT ![t] = @ \ {"IO_LIST"}]
        /\ SameFamily(f, e) /\ SamePool(f, e) /\ SameWait(f, e) /\ e.pc = f.pc
    BY DEF Frame, SameFamily, SamePool, SameWait, All, Users
  <2>2. h = RemoveSleep(e, t)
    BY DEF RemoveIoWait
  <2> HIDE DEF e, h
  <2>3. /\ h \in Frame /\ h.active = e.active /\ h.runlist = e.runlist
        /\ h.pendlist = e.pendlist /\ h.freelist = e.freelist /\ h.live = e.live
        /\ h.sleeplist = e.sleeplist \ {t} /\ h.iolist = e.iolist
        /\ h.flag = [e.flag EXCEPT ![t] = @ \ {"SLEEP_LIST"}]
        /\ SameFamily(e, h) /\ SamePool(e, h) /\ SameWait(e, h) /\ h.pc = e.pc
    BY <2>1, <2>2, RemoveSleepFields
  <2>4. h.flag = [f.flag EXCEPT ![t] = @ \ {"IO_LIST", "SLEEP_LIST"}]
    <3>1. f.flag \in [All -> SUBSET Flags] /\ t \in All
      BY DEF Frame, All, Users
    <3>2. (f.flag[t] \ {"IO_LIST"}) \ {"SLEEP_LIST"} = f.flag[t] \ {"IO_LIST", "SLEEP_LIST"}
      OBVIOUS
    <3>3. h.flag = [f.flag EXCEPT ![t] = (f.flag[t] \ {"IO_LIST"}) \ {"SLEEP_LIST"}]
      BY <2>1, <2>3, <3>1
    <3> QED BY <3>2, <3>3
  <2> QED BY <2>1, <2>3, <2>4 DEF SameFamily, SamePool, SameWait
<1> HIDE DEF h
<1>2. /\ g \in Frame /\ g.active = h.active /\ g.runlist = Append(h.runlist, t)
      /\ g.iolist = h.iolist /\ g.sleeplist = h.sleeplist /\ g.pendlist = h.pendlist
      /\ g.freelist = h.freelist /\ g.live = h.live
      /\ g.flag = [h.flag EXCEPT ![t] = @ \cup {"RUN_LIST"}]
      /\ SameFamily(h, g) /\ SamePool(h, g) /\ SameWait(h, g) /\ g.pc = h.pc
  BY <1>1, InsertRunableFields
<1> HIDE DEF g
<1>3. g.flag = [f.flag EXCEPT ![t] = (@ \ {"IO_LIST", "SLEEP_LIST"}) \cup {"RUN_LIST"}]
  <2>1. f.flag \in [All -> SUBSET Flags] /\ t \in All
    BY DEF Frame, All, Users
  <2> QED BY <1>1, <1>2, <2>1
<1>4. Woke(f, g, t)
  BY <1>1, <1>2, <1>3 DEF Woke, SameFamily, SamePool, SameWait
<1> QED BY <1>4 DEF g, h

\* Out of the heap, into the run list.
LEMMA WakeSleepFields ==
    ASSUME NEW f \in Frame, NEW t \in Users, "IO_LIST" \notin f.flag[t], t \notin f.iolist
    PROVE  Woke(f, InsertRunable(RemoveSleep(f, t), t), t)
<1> DEFINE h == RemoveSleep(f, t)
           g == InsertRunable(h, t)
<1>1. /\ h \in Frame /\ h.active = f.active /\ h.runlist = f.runlist
      /\ h.pendlist = f.pendlist /\ h.freelist = f.freelist /\ h.live = f.live
      /\ h.sleeplist = f.sleeplist \ {t} /\ h.iolist = f.iolist
      /\ h.flag = [f.flag EXCEPT ![t] = @ \ {"SLEEP_LIST"}]
      /\ SameFamily(f, h) /\ SamePool(f, h) /\ SameWait(f, h) /\ h.pc = f.pc
  BY RemoveSleepFields
<1> HIDE DEF h
<1>2. /\ g \in Frame /\ g.active = f.active /\ g.runlist = Append(f.runlist, t)
      /\ g.pendlist = f.pendlist /\ g.freelist = f.freelist /\ g.live = f.live
      /\ g.sleeplist = f.sleeplist \ {t} /\ g.iolist = f.iolist
      /\ g.flag = [f.flag EXCEPT ![t] = (@ \ {"SLEEP_LIST"}) \cup {"RUN_LIST"}]
      /\ SameFamily(f, g) /\ SamePool(f, g) /\ SameWait(f, g) /\ g.pc = f.pc
  <2>1. /\ g \in Frame /\ g.active = h.active /\ g.runlist = Append(h.runlist, t)
        /\ g.iolist = h.iolist /\ g.sleeplist = h.sleeplist /\ g.pendlist = h.pendlist
        /\ g.freelist = h.freelist /\ g.live = h.live
        /\ g.flag = [h.flag EXCEPT ![t] = @ \cup {"RUN_LIST"}]
        /\ SameFamily(h, g) /\ SamePool(h, g) /\ SameWait(h, g) /\ g.pc = h.pc
    BY <1>1, InsertRunableFields
  <2> HIDE DEF g
  <2>2. f.flag \in [All -> SUBSET Flags] /\ t \in All
    BY DEF Frame, All, Users
  <2>3. g.flag = [f.flag EXCEPT ![t] = (f.flag[t] \ {"SLEEP_LIST"}) \cup {"RUN_LIST"}]
    BY <1>1, <2>1, <2>2
  <2>4. SameFamily(f, g) /\ SamePool(f, g) /\ SameWait(f, g)
    BY <1>1, <2>1 DEF SameFamily, SamePool, SameWait
  <2> QED BY <1>1, <2>1, <2>3, <2>4
<1> HIDE DEF g
<1>3. f.flag[t] \ {"SLEEP_LIST"} = f.flag[t] \ {"IO_LIST", "SLEEP_LIST"}
  OBVIOUS
<1>4. f.iolist = f.iolist \ {t}
  OBVIOUS
<1>5. Woke(f, g, t)
  BY <1>2, <1>3, <1>4 DEF Woke
<1> QED BY <1>5 DEF g, h

\* It keeps its one place, and knows why it was woken.
LEMMA WokeInv ==
    ASSUME NEW f, NEW g, NEW m, NEW H, MidInv(f, m, H), NEW t \in f.sleeplist,
           f.pc[t] = "epoll" => f.rcv[t] # {} \/ f.left[t] = 0, Woke(f, g, t)
    PROVE  MidInv(g, m, H)
<1>0. /\ f \in Frame /\ m \in Seq(Threads) /\ Placed(f, m, H) /\ Flagged(f)
      /\ Family(f, m) /\ Stage(f, m) /\ Pooled(f) /\ g \in Frame /\ t \in Users
  BY DEF MidInv, Woke, Frame
<1>1. Alive(g) = Alive(f) /\ t \in Alive(f) /\ Alive(f) \subseteq All
  BY <1>0 DEF Alive, Woke, Placed, Frame, All, Pool
<1>2. /\ t \notin Elems(f.runlist) /\ Elems(g.runlist) = Elems(f.runlist) \cup {t}
      /\ NoDup(g.runlist)
  <2>1. t \notin Elems(f.runlist) /\ NoDup(f.runlist) /\ f.runlist \in Seq(Users)
    BY <1>0 DEF Placed, Frame
  <2> QED BY <1>0, <2>1, AppendElems DEF Woke
<1>3. Placed(g, m, H)
  BY <1>0, <1>1, <1>2 DEF Placed, Woke
<1>4. Flagged(g)
  <2>1. f.flag \in [All -> SUBSET Flags] /\ t \notin f.pendlist /\ t \notin Elems(f.freelist)
    BY <1>0 DEF Frame, Placed
  <2>2. \A u \in All \ {t} : g.flag[u] = f.flag[u]
    BY <2>1 DEF Woke
  <2>3. g.flag[t] = (f.flag[t] \ {"IO_LIST", "SLEEP_LIST"}) \cup {"RUN_LIST"}
    BY <1>1, <2>1 DEF Woke
  <2>4. ASSUME NEW u \in Alive(f), u # t
        PROVE  /\ "RUN_LIST" \in g.flag[u] <=> u \in Elems(g.runlist)
               /\ "SLEEP_LIST" \in g.flag[u] <=> u \in g.sleeplist
               /\ "IO_LIST" \in g.flag[u] <=> u \in g.iolist
               /\ "PEND_LIST" \in g.flag[u] <=> u \in g.pendlist
               /\ "FREE_LIST" \in g.flag[u] <=> u \in Elems(g.freelist)
    BY <1>0, <1>1, <1>2, <2>2, <2>4 DEF Flagged, Woke
  <2>5. /\ "RUN_LIST" \in g.flag[t] <=> t \in Elems(g.runlist)
        /\ "SLEEP_LIST" \in g.flag[t] <=> t \in g.sleeplist
        /\ "IO_LIST" \in g.flag[t] <=> t \in g.iolist
        /\ "PEND_LIST" \in g.flag[t] <=> t \in g.pendlist
        /\ "FREE_LIST" \in g.flag[t] <=> t \in Elems(g.freelist)
    BY <1>0, <1>1, <1>2, <2>1, <2>3 DEF Flagged, Woke
  <2> QED BY <1>1, <2>4, <2>5 DEF Flagged
<1>5. Family(g, m)
  BY <1>0 DEF Family, Woke, SameFamily
<1>6. Stage(g, m)
  BY <1>0, <1>2 DEF Stage, Woke, SameWait
<1>7. Pooled(g)
  BY <1>0 DEF Pooled, Woke, SamePool
<1> QED BY <1>0, <1>3, <1>4, <1>5, <1>6, <1>7 DEF MidInv

\* An event wakes a thread that waits for IO and leaves any other alone.
LEMMA WakeIoInv ==
    ASSUME NEW f, NEW m, NEW H, MidInv(f, m, H), NEW t \in Alive(f),
           f.pc[t] = "epoll" => f.rcv[t] # {} \/ f.left[t] = 0
    PROVE  LET g == WakeIo(f, t) IN
           /\ MidInv(g, m, H) /\ g.active = f.active /\ g.pc = f.pc
           /\ SameFamily(f, g) /\ SameWait(f, g)
<1>0. f \in Frame /\ Flagged(f) /\ Placed(f, m, H) /\ t \in Users
  <2>1. f \in Frame /\ Flagged(f) /\ Placed(f, m, H)
    BY DEF MidInv
  <2> QED BY <2>1 DEF Frame, Alive, Pool, Users
<1>1. CASE HasFlag(f, t, "IO_LIST")
  <2> DEFINE g == InsertRunable(RemoveIoWait(f, t), t)
  <2>1. t \in f.sleeplist
    BY <1>0, <1>1 DEF HasFlag, Flagged, Placed
  <2>2. Woke(f, g, t)
    BY <1>0, WakeIoFields
  <2>3. WakeIo(f, t) = g
    BY <1>1 DEF WakeIo
  <2> HIDE DEF g
  <2>4. MidInv(g, m, H)
    BY <2>1, <2>2, WokeInv
  <2> QED BY <2>2, <2>3, <2>4 DEF Woke
<1>2. CASE ~HasFlag(f, t, "IO_LIST")
  BY <1>2 DEF WakeIo, SameFamily, SameWait
<1> QED BY <1>1, <1>2

\* A step that changes a frame only in the context of the active thread, and what
\* threads wait for only so that a reason to wake stays one.
Touched(f, g, p) ==
    /\ g \in Frame /\ g.active = f.active /\ SameLists(f, g) /\ SameFamily(f, g)
    /\ SamePool(f, g)
    /\ g.pc = [f.pc EXCEPT ![f.active] = p]
    /\ \A u \in All \ {f.active} : /\ f.rcv[u] # {} => g.rcv[u] # {}
                                   /\ f.left[u] = 0 => g.left[u] = 0

\* Such a step keeps every thread in its place.
LEMMA TouchedInv ==
    ASSUME NEW f, NEW g, NEW m, MidInv(f, m, Hand(f)), NEW p \in Labels, Touched(f, g, p),
           f.active = Daemon => p \in DaemonLabels,
           f.pc[f.active] = "start_subs" => p = "start_subs"
    PROVE  MidInv(g, m, Hand(g))
<1>0. /\ f \in Frame /\ m \in Seq(Threads) /\ Placed(f, m, Hand(f)) /\ Flagged(f)
      /\ Family(f, m) /\ Stage(f, m) /\ Pooled(f) /\ g \in Frame
  BY DEF MidInv, Touched
<1>1. Hand(g) = Hand(f) /\ Alive(g) = Alive(f) /\ f.active \in All
  BY <1>0 DEF Touched, Hand, Alive, SameLists, Frame
<1>2. Placed(g, m, Hand(g)) /\ Flagged(g) /\ Pooled(g)
  BY <1>0, <1>1 DEF Touched, Placed, Flagged, Pooled, SameLists, SamePool
<1>3. f.pc \in [All -> Labels] /\ g.pc[f.active] = p
      /\ \A u \in All \ {f.active} : g.pc[u] = f.pc[u]
  BY <1>0, <1>1 DEF Touched, Frame
<1>4. Family(g, m)
  BY <1>0, <1>3 DEF Family, Touched, SameLists, SameFamily
<1>5. Stage(g, m)
  <2>1. Alive(f) \subseteq All /\ Daemon \in All
    BY <1>0 DEF Alive, Frame, All, Pool
  <2>2. Elems(f.runlist) \subseteq All \ {f.active} /\ f.sleeplist \subseteq All \ {f.active}
        /\ f.pendlist \subseteq All \ {f.active}
    BY <1>0, <2>1 DEF Placed, Hand, Alive
  <2>3. Elems(f.freelist) \cup Elems(m) \cup (Threads \ f.live) \subseteq All \ {f.active}
    <3>1. f.active \in Threads => f.active \in f.live
      BY <1>0, FrameAssumption DEF Placed, Hand, Alive
    <3> QED BY <1>0, <2>1, <3>1 DEF Placed, Hand, Alive, All
  <2>4. g.pc[Daemon] \in DaemonLabels
    BY <1>0, <1>3, <2>1 DEF Stage
  <2> QED BY <1>0, <1>3, <2>2, <2>3, <2>4 DEF Stage, Touched, SameLists
<1> QED BY <1>0, <1>2, <1>4, <1>5 DEF MidInv

\* The five flags of a thread say in which lists it is.
FlagsTell(f, t) ==
    /\ "RUN_LIST" \in f.flag[t] <=> t \in Elems(f.runlist)
    /\ "SLEEP_LIST" \in f.flag[t] <=> t \in f.sleeplist
    /\ "IO_LIST" \in f.flag[t] <=> t \in f.iolist
    /\ "PEND_LIST" \in f.flag[t] <=> t \in f.pendlist
    /\ "FREE_LIST" \in f.flag[t] <=> t \in Elems(f.freelist)

\* Flagged, thread by thread.
LEMMA FlaggedTell == ASSUME NEW f PROVE Flagged(f) <=> \A t \in Alive(f) : FlagsTell(f, t)
BY DEF Flagged, FlagsTell

\* A thread in hand joins the run list.
LEMMA RunInv ==
    ASSUME NEW f, NEW m, NEW H, MidInv(f, m, H), NEW t \in H,
           f.pc[t] \in {"start", "sleep", "wait", "pend"}
    PROVE  LET g == InsertRunable(f, t) IN
           /\ MidInv(g, m, H \ {t}) /\ g.active = f.active /\ g.pc = f.pc
           /\ SameFamily(f, g) /\ SameWait(f, g)
<1> DEFINE g == InsertRunable(f, t)
<1>0. /\ f \in Frame /\ m \in Seq(Threads) /\ Placed(f, m, H) /\ Flagged(f)
      /\ Family(f, m) /\ Stage(f, m) /\ Pooled(f)
  BY DEF MidInv
<1>1. t \in Alive(f) /\ Alive(f) \subseteq All /\ t \in Users
  BY <1>0 DEF Alive, Placed, Frame, All, Pool, Users
<1>2. /\ g \in Frame /\ g.active = f.active /\ g.runlist = Append(f.runlist, t)
      /\ g.iolist = f.iolist /\ g.sleeplist = f.sleeplist /\ g.pendlist = f.pendlist
      /\ g.freelist = f.freelist /\ g.live = f.live
      /\ g.flag = [f.flag EXCEPT ![t] = @ \cup {"RUN_LIST"}]
      /\ SameFamily(f, g) /\ SamePool(f, g) /\ SameWait(f, g) /\ g.pc = f.pc
  BY <1>0, <1>1, InsertRunableFields
<1> HIDE DEF g
<1>3. /\ t \notin Elems(f.runlist) /\ Elems(g.runlist) = Elems(f.runlist) \cup {t}
      /\ NoDup(g.runlist)
  <2>1. t \notin Elems(f.runlist) /\ NoDup(f.runlist) /\ f.runlist \in Seq(Users)
    BY <1>0 DEF Placed, Frame
  <2> QED BY <1>1, <1>2, <2>1, AppendElems
<1>4. Alive(g) = Alive(f)
  BY <1>2 DEF Alive
<1>5. Placed(g, m, H \ {t})
  BY <1>0, <1>2, <1>3, <1>4 DEF Placed
<1>6. Flagged(g)
  <2>1. f.flag \in [All -> SUBSET Flags]
    BY <1>0 DEF Frame
  <2>2. ASSUME NEW u \in Alive(f), u # t PROVE FlagsTell(g, u)
    <3>1. g.flag[u] = f.flag[u] /\ FlagsTell(f, u)
      BY <1>0, <1>1, <1>2, <2>1, <2>2, FlaggedTell
    <3> QED BY <1>2, <1>3, <2>2, <3>1 DEF FlagsTell
  <2>3. FlagsTell(g, t)
    <3>1. g.flag[t] = f.flag[t] \cup {"RUN_LIST"} /\ FlagsTell(f, t)
      BY <1>0, <1>1, <1>2, <2>1, FlaggedTell
    <3> QED BY <1>2, <1>3, <3>1 DEF FlagsTell
  <2> QED BY <1>4, <2>2, <2>3, FlaggedTell
<1>7. Family(g, m)
  BY <1>0, <1>2 DEF Family, SameFamily
<1>8. Stage(g, m)
  BY <1>0, <1>2, <1>3 DEF Stage, SameWait
<1>9. Pooled(g)
  BY <1>0, <1>2 DEF Pooled, SamePool
<1> QED BY <1>0, <1>2, <1>5, <1>6, <1>7, <1>8, <1>9 DEF MidInv, g

\* A thread that the pool hands out.
Taken(f, g, x) ==
    /\ g \in Frame /\ g.active = f.active /\ g.runlist = f.runlist
    /\ g.iolist = f.iolist /\ g.sleeplist = f.sleeplist /\ g.pendlist = f.pendlist
    /\ g.pc = f.pc /\ g.rcv = f.rcv /\ g.use = f.use + 1
    /\ \A u \in All \ {x} : /\ g.flag[u] = f.flag[u] /\ g.type[u] = f.type[u]
                            /\ g.left[u] = f.left[u] /\ g.fdset[u] = f.fdset[u]
    /\ g.parent = f.parent /\ g.sub = f.sub
    /\ \/ /\ f.freelist # <<>> /\ g.freelist = Tail(f.freelist) /\ g.live = f.live
          /\ g.total = f.total /\ g.flag[x] = f.flag[x] \ {"FREE_LIST"}
       \/ /\ f.freelist = <<>> /\ g.freelist = <<>> /\ g.live = f.live \cup {x}
          /\ g.total = f.total + 1 /\ g.flag[x] = {}

\* AllocThread, from the free list or with a new object.
LEMMA AllocFields ==
    ASSUME NEW f \in Frame, NEW x \in Threads, MayAlloc(f, x), f.pc[x] = "start",
           f.parent[x] = None, f.sub[x] = {}
    PROVE  Taken(f, AllocThread(f, x), x)
<1> DEFINE g == AllocThread(f, x)
<1>1. CASE f.freelist # <<>>
  <2>1. Tail(f.freelist) \in Seq(Threads)
    BY <1>1, TailElems DEF Frame
  <2>2. g = [f EXCEPT !.flag[x] = @ \ {"FREE_LIST"}, !.freelist = Tail(@), !.use = @ + 1]
    BY <1>1 DEF AllocThread
  <2>3. g \in Frame
    <3> DEFINE h == [f EXCEPT !.flag[x] = @ \ {"FREE_LIST"}]
               i == [h EXCEPT !.freelist = Tail(f.freelist)]
               n == f.use + 1
    <3>1. h \in Frame
      BY DEF Frame, All
    <3>4. n \in Nat
      BY DEF Frame
    <3>2. g = [i EXCEPT !.use = n]
      BY <2>2 DEF Frame
    <3> HIDE DEF h, n
    <3>3. i \in Frame
      BY <2>1, <3>1 DEF Frame
    <3> HIDE DEF i
    <3> QED BY <3>2, <3>3, <3>4, ZenonT(30) DEF Frame
  <2>4. /\ g.active = f.active /\ g.runlist = f.runlist
        /\ g.iolist = f.iolist /\ g.sleeplist = f.sleeplist /\ g.pendlist = f.pendlist
        /\ g.pc = f.pc /\ g.rcv = f.rcv /\ g.use = f.use + 1
        /\ g.type = f.type /\ g.left = f.left /\ g.fdset = f.fdset
        /\ g.parent = f.parent /\ g.sub = f.sub
        /\ g.freelist = Tail(f.freelist) /\ g.live = f.live /\ g.total = f.total
    BY <2>2 DEF Frame
  <2>5. /\ \A u \in All \ {x} : g.flag[u] = f.flag[u]
        /\ g.flag[x] = f.flag[x] \ {"FREE_LIST"}
    BY <2>2 DEF Frame, All
  <2> HIDE DEF g
  <2>6. Taken(f, g, x)
    BY <1>1, <2>3, <2>4, <2>5 DEF Taken
  <2> QED BY <2>6 DEF g
<1>2. CASE f.freelist = <<>>
  <2>2. g = [f EXCEPT !.flag[x] = {}, !.type[x] = "NORMAL", !.parent[x] = None,
                   !.sub[x] = {}, !.left[x] = 0, !.fdset[x] = {}, !.pc[x] = "start",
                   !.live = @ \cup {x}, !.total = @ + 1, !.use = @ + 1]
    BY <1>2 DEF AllocThread
  <2> HIDE DEF g
  <2>4. /\ g.active = f.active /\ g.runlist = f.runlist
        /\ g.iolist = f.iolist /\ g.sleeplist = f.sleeplist /\ g.pendlist = f.pendlist
        /\ g.rcv = f.rcv /\ g.use = f.use + 1
        /\ g.freelist = f.freelist /\ g.live = f.live \cup {x} /\ g.total = f.total + 1
        /\ g.flag = [f.flag EXCEPT ![x] = {}] /\ g.type = [f.type EXCEPT ![x] = "NORMAL"]
        /\ g.left = [f.left EXCEPT ![x] = 0] /\ g.fdset = [f.fdset EXCEPT ![x] = {}]
    BY <2>2 DEF Frame
  <2>5. x \in All /\ g.pc = f.pc /\ g.parent = f.parent /\ g.sub = f.sub
    <3>1. x \in All
      BY DEF All
    <3>2. /\ g.pc = [f.pc EXCEPT ![x] = "start"] /\ g.parent = [f.parent EXCEPT ![x] = None]
          /\ g.sub = [f.sub EXCEPT ![x] = {}]
      BY <2>2 DEF Frame
    <3> QED BY <3>1, <3>2 DEF Frame
  <2>6. /\ g.flag \in [All -> SUBSET Flags] /\ g.type \in [All -> Types]
        /\ g.left \in [All -> Times] /\ g.fdset \in [All -> SUBSET Fds]
    <3>1. 0 \in Times
      BY FrameAssumption DEF Times
    <3> QED BY <2>4, <2>5, <3>1 DEF Frame, Types
  <2>7. g.live \in SUBSET Pool /\ g.total \in Nat /\ g.use \in Nat
    BY <2>4 DEF Frame, Pool
  <2>3. g \in Frame
    <3>1. g = [active |-> g.active, runlist |-> g.runlist, iolist |-> g.iolist,
               sleeplist |-> g.sleeplist, pendlist |-> g.pendlist, freelist |-> g.freelist,
               live |-> g.live, total |-> g.total, use |-> g.use, flag |-> g.flag,
               type |-> g.type, parent |-> g.parent, sub |-> g.sub, left |-> g.left,
               fdset |-> g.fdset, rcv |-> g.rcv, pc |-> g.pc]
      BY <2>2 DEF Frame
    <3> QED BY <2>4, <2>5, <2>6, <2>7, <3>1 DEF Frame
  <2>8. /\ \A u \in All \ {x} : /\ g.flag[u] = f.flag[u] /\ g.type[u] = f.type[u]
                                /\ g.left[u] = f.left[u] /\ g.fdset[u] = f.fdset[u]
        /\ g.flag[x] = {}
    BY <2>4, <2>5 DEF Frame
  <2>9. Taken(f, g, x)
    BY <1>2, <2>3, <2>4, <2>5, <2>8 DEF Taken
  <2> QED BY <2>9 DEF g
<1> QED BY <1>1, <1>2

\* What MidInv says of a thread that the pool may hand out.
LEMMA MayAllocFacts ==
    ASSUME NEW f, NEW m, NEW H, MidInv(f, m, H), NEW x \in Threads, MayAlloc(f, x),
           f.active \in H \cup {Daemon}
    PROVE  /\ f.pc[x] = "start" /\ f.parent[x] = None /\ f.sub[x] = {} /\ x # f.active
           /\ f.freelist # <<>> => x \in Elems(f.freelist) /\ x \in f.live
           /\ f.freelist = <<>> => x \notin f.live
<1>0. /\ f \in Frame /\ Placed(f, m, H) /\ Family(f, m) /\ Stage(f, m) /\ x \in All
      /\ x # Daemon /\ x # Primo
  BY FrameAssumption DEF MidInv, All
<1>1. CASE f.freelist # <<>>
  <2>1. x \in Elems(f.freelist)
    BY <1>0, <1>1, SeqElems DEF MayAlloc, Frame
  <2>2. x \in f.live /\ x \notin H /\ x \notin f.pendlist
    BY <1>0, <2>1 DEF Placed, Alive
  <2> QED BY <1>0, <1>1, <2>1, <2>2 DEF Family, Stage
<1>2. CASE f.freelist = <<>>
  <2>1. x \notin f.live
    BY <1>2 DEF MayAlloc
  <2>2. x \notin H /\ x \notin f.pendlist
    BY <1>0, <2>1 DEF Placed, Alive
  <2> QED BY <1>0, <1>2, <2>1, <2>2 DEF Family, Stage
<1> QED BY <1>1, <1>2

\* AllocThread puts a thread in hand; the counters of the pool stay exact.
LEMMA AllocInv ==
    ASSUME NEW f, NEW m, NEW H, MidInv(f, m, H), NEW x \in Threads, MayAlloc(f, x),
           f.active \in H \cup {Daemon}
    PROVE  LET g == AllocThread(f, x) IN
           /\ MidInv(g, m, H \cup {x}) /\ Taken(f, g, x) /\ x \notin H /\ x \in g.live
<1> DEFINE g == AllocThread(f, x)
<1>0. /\ f \in Frame /\ m \in Seq(Threads) /\ Placed(f, m, H) /\ Flagged(f)
      /\ Family(f, m) /\ Stage(f, m) /\ Pooled(f) /\ x \in All /\ x # Daemon /\ x # Primo
  BY FrameAssumption DEF MidInv, All
<1>1. /\ f.pc[x] = "start" /\ f.parent[x] = None /\ f.sub[x] = {} /\ x # f.active
      /\ f.freelist # <<>> => x \in Elems(f.freelist) /\ x \in f.live
      /\ f.freelist = <<>> => x \notin f.live
  BY MayAllocFacts
<1>2. Taken(f, g, x)
  BY <1>0, <1>1, AllocFields
<1> HIDE DEF g
<1>3. CASE f.freelist # <<>>
  <2>1. g.freelist = Tail(f.freelist) /\ g.live = f.live /\ g.total = f.total
        /\ g.flag[x] = f.flag[x] \ {"FREE_LIST"}
    BY <1>2, <1>3 DEF Taken
  <2>2. x = Head(f.freelist) /\ f.freelist \in Seq(Threads) /\ NoDup(f.freelist)
    BY <1>0, <1>3 DEF MayAlloc, Frame, Placed
  <2>3. /\ NoDup(g.freelist) /\ Elems(g.freelist) = Elems(f.freelist) \ {x}
        /\ Len(g.freelist) = Len(f.freelist) - 1 /\ Len(f.freelist) \in Nat
    BY <1>3, <2>1, <2>2, TailElems
  <2>4. Alive(g) = Alive(f) /\ x \in Alive(f) /\ Alive(f) \subseteq All
    BY <1>0, <1>1, <1>3, <2>1 DEF Alive, Frame, All, Pool
  <2>5. Placed(g, m, H \cup {x}) /\ x \notin H
    BY <1>0, <1>1, <1>2, <1>3, <2>3, <2>4 DEF Placed, Taken
  <2>6. Flagged(g)
    <3>1. ASSUME NEW u \in Alive(f), u # x PROVE FlagsTell(g, u)
      <4>1. g.flag[u] = f.flag[u] /\ FlagsTell(f, u)
        BY <1>0, <1>2, <2>4, <3>1, FlaggedTell DEF Taken
      <4> QED BY <1>2, <2>3, <3>1, <4>1 DEF FlagsTell, Taken
    <3>2. FlagsTell(g, x)
      <4>1. FlagsTell(f, x)
        BY <1>0, <2>4, FlaggedTell
      <4> QED BY <1>2, <2>1, <2>3, <4>1 DEF FlagsTell, Taken
    <3> QED BY <2>4, <3>1, <3>2, FlaggedTell
  <2>7. Family(g, m)
    <3>1. \A s \in All : f.parent[s] # None => g.type[s] = f.type[s]
      BY <1>1, <1>2 DEF Taken
    <3>2. \A s \in Elems(m) : g.type[s] = f.type[s]
      BY <1>0, <1>1, <1>2, <1>3, <2>4 DEF Taken, Placed
    <3> QED BY <1>0, <1>1, <1>2, <2>1, <2>3, <3>1, <3>2 DEF Family, Taken
  <2>8. Stage(g, m)
    <3>1. \A u \in Elems(f.runlist) : g.left[u] = f.left[u]
      BY <1>0, <1>1, <1>2, <1>3, <2>4 DEF Taken, Placed
    <3> QED BY <1>0, <1>1, <1>2, <2>1, <2>3, <3>1 DEF Stage, Taken
  <2>9. Pooled(g)
    <3>1. /\ IsFiniteSet(f.live) /\ f.use = Cardinality(f.live \ Elems(f.freelist))
          /\ g.use = f.use + 1 /\ f.total \in Nat /\ f.use \in Nat
      BY <1>0, <1>2 DEF Pooled, Taken, Frame
    <3>2. f.live \ Elems(g.freelist) = (f.live \ Elems(f.freelist)) \cup {x}
      BY <1>1, <1>3, <2>3
    <3>3. IsFiniteSet(f.live \ Elems(f.freelist)) /\ x \notin f.live \ Elems(f.freelist)
      BY <1>1, <1>3, <3>1, FS_Difference
    <3>4. Cardinality(f.live \ Elems(g.freelist)) = Cardinality(f.live \ Elems(f.freelist)) + 1
      BY <3>2, <3>3, FS_AddElement
    <3> QED BY <1>0, <2>1, <2>3, <3>1, <3>4 DEF Pooled
  <2> QED BY <1>0, <1>1, <1>2, <1>3, <2>1, <2>5, <2>6, <2>7, <2>8, <2>9 DEF MidInv, Taken, g
<1>4. CASE f.freelist = <<>>
  <2>1. g.freelist = <<>> /\ g.live = f.live \cup {x} /\ g.total = f.total + 1
        /\ g.flag[x] = {} /\ Elems(f.freelist) = {} /\ Elems(g.freelist) = {}
    BY <1>2, <1>4, EmptyElems DEF Taken
  <2>4. Alive(g) = Alive(f) \cup {x} /\ x \notin Alive(f) /\ Alive(g) \subseteq All
    BY <1>0, <1>1, <1>4, <2>1 DEF Alive, Frame, All, Pool
  <2>5. Placed(g, m, H \cup {x}) /\ x \notin H
    BY <1>0, <1>2, <2>1, <2>4, <1>4 DEF Placed, Taken
  <2>6. Flagged(g)
    <3>1. ASSUME NEW u \in Alive(f) PROVE FlagsTell(g, u)
      <4>1. g.flag[u] = f.flag[u] /\ FlagsTell(f, u)
        BY <1>0, <1>2, <2>4, <3>1, FlaggedTell DEF Taken
      <4> QED BY <1>2, <2>1, <3>1, <4>1 DEF FlagsTell, Taken
    <3>2. FlagsTell(g, x)
      <4>1. x \notin Elems(f.runlist) /\ x \notin f.sleeplist /\ x \notin f.pendlist
            /\ x \notin f.iolist
        BY <1>0, <2>4 DEF Placed
      <4> QED BY <1>2, <2>1, <4>1 DEF FlagsTell, Taken
    <3> QED BY <2>4, <3>1, <3>2, FlaggedTell
  <2>7. Family(g, m)
    <3>1. \A s \in All : f.parent[s] # None => g.type[s] = f.type[s]
      BY <1>1, <1>2 DEF Taken
    <3>2. \A s \in Elems(m) : g.type[s] = f.type[s]
      BY <1>0, <1>1, <1>2, <2>4 DEF Taken, Placed
    <3> QED BY <1>0, <1>1, <1>2, <2>1, <3>1, <3>2 DEF Family, Taken
  <2>8. Stage(g, m)
    <3>1. \A u \in Elems(f.runlist) : g.left[u] = f.left[u]
      BY <1>0, <1>2, <2>4 DEF Taken, Placed
    <3> QED BY <1>0, <1>1, <1>2, <2>1, <3>1 DEF Stage, Taken
  <2>9. Pooled(g)
    <3>1. /\ IsFiniteSet(f.live) /\ f.use = Cardinality(f.live \ Elems(f.freelist))
          /\ f.use = f.total - Len(f.freelist) /\ f.total = Cardinality(f.live)
          /\ g.use = f.use + 1 /\ f.total \in Nat /\ f.use \in Nat /\ Daemon \in f.live
      BY <1>0, <1>2 DEF Pooled, Taken, Frame
    <3>2. IsFiniteSet(g.live) /\ Cardinality(g.live) = f.total + 1
      <4>1. x \notin f.live /\ IsFiniteSet(f.live)
        BY <1>1, <1>4, <3>1
      <4>2. /\ IsFiniteSet(f.live \cup {x})
            /\ Cardinality(f.live \cup {x}) = Cardinality(f.live) + 1
        BY <4>1, FS_AddElement
      <4> QED BY <2>1, <3>1, <4>2
    <3>3. g.live \ Elems(g.freelist) = g.live /\ Len(f.freelist) = 0 /\ Len(g.freelist) = 0
      BY <1>4, <2>1
    <3>4. g.total <= MaxNum
      BY <1>4, <2>1, <3>1, FrameAssumption DEF MayAlloc
    <3>5. Daemon \in g.live /\ g.total = Cardinality(g.live)
      BY <2>1, <3>1, <3>2
    <3>6. g.use = g.total - Len(g.freelist) /\ g.use = Cardinality(g.live \ Elems(g.freelist))
      <4>1. f.use = f.total /\ g.use = g.total
        BY <2>1, <3>1, <3>3
      <4>2. g.total \in Nat
        BY <2>1, <3>1
      <4>3. g.total - Len(g.freelist) = g.total
        BY <3>3, <4>2
      <4>4. Cardinality(g.live \ Elems(g.freelist)) = g.total
        BY <3>3, <3>5
      <4> QED BY <4>1, <4>3, <4>4
    <3> QED BY <3>2, <3>4, <3>5, <3>6 DEF Pooled
  <2> QED BY <1>0, <1>2, <2>1, <2>5, <2>6, <2>7, <2>8, <2>9 DEF MidInv, Taken, g
<1> QED BY <1>3, <1>4

(***************************************************************************)
(* Threads go back to the pool.                                            *)
(***************************************************************************)

\* What a push to the free list leaves.
Pushed(f, g, t) ==
    /\ g \in Frame /\ g.active = f.active /\ g.runlist = f.runlist
    /\ g.iolist = f.iolist /\ g.sleeplist = f.sleeplist /\ g.pendlist = f.pendlist
    /\ g.freelist = Append(f.freelist, t) /\ g.live = f.live /\ g.total = f.total
    /\ g.use = f.use - 1 /\ g.flag[t] = {"FREE_LIST"} /\ g.pc[t] = "start"
    /\ g.parent = f.parent /\ g.sub = f.sub /\ g.rcv = f.rcv
    /\ \A u \in All \ {t} : /\ g.flag[u] = f.flag[u] /\ g.type[u] = f.type[u]
                            /\ g.left[u] = f.left[u] /\ g.fdset[u] = f.fdset[u]
                            /\ g.pc[u] = f.pc[u]

\* Reset clears a thread and PushFree appends it.
LEMMA PushFields ==
    ASSUME NEW f \in Frame, NEW t \in Threads, f.use >= 1, f.parent[t] = None, f.sub[t] = {}
    PROVE  Pushed(f, PushFree(f, t), t)
<1> DEFINE h == Reset(f, t)
           g == PushFree(f, t)
<1>1. t \in All
  BY DEF All
<1>2. /\ h.active = f.active /\ h.runlist = f.runlist
      /\ h.iolist = f.iolist /\ h.sleeplist = f.sleeplist /\ h.pendlist = f.pendlist
      /\ h.freelist = f.freelist /\ h.live = f.live /\ h.total = f.total /\ h.use = f.use
      /\ h.rcv = f.rcv
      /\ h.flag = [f.flag EXCEPT ![t] = {}] /\ h.type = [f.type EXCEPT ![t] = "NORMAL"]
      /\ h.parent = [f.parent EXCEPT ![t] = None] /\ h.sub = [f.sub EXCEPT ![t] = {}]
      /\ h.left = [f.left EXCEPT ![t] = 0] /\ h.fdset = [f.fdset EXCEPT ![t] = {}]
      /\ h.pc = [f.pc EXCEPT ![t] = "start"]
  BY DEF Reset, Frame
<1>3. g = [h EXCEPT !.use = @ - 1, !.freelist = Append(@, t), !.flag[t] = {"FREE_LIST"}]
  BY DEF PushFree
<1>12. h = [f EXCEPT !.flag[t] = {}, !.type[t] = "NORMAL", !.parent[t] = None, !.sub[t] = {},
                     !.left[t] = 0, !.fdset[t] = {}, !.pc[t] = "start"]
  BY DEF Reset
<1> HIDE DEF h, g
<1>11. h = [active |-> h.active, runlist |-> h.runlist, iolist |-> h.iolist,
            sleeplist |-> h.sleeplist, pendlist |-> h.pendlist, freelist |-> h.freelist,
            live |-> h.live, total |-> h.total, use |-> h.use, flag |-> h.flag,
            type |-> h.type, parent |-> h.parent, sub |-> h.sub, left |-> h.left,
            fdset |-> h.fdset, rcv |-> h.rcv, pc |-> h.pc]
  BY <1>12 DEF Frame
<1>4. h.parent = f.parent /\ h.sub = f.sub
  BY <1>1, <1>2 DEF Frame
<1>5. /\ h.flag \in [All -> SUBSET Flags] /\ h.type \in [All -> Types]
      /\ h.left \in [All -> Times] /\ h.fdset \in [All -> SUBSET Fds]
      /\ h.pc \in [All -> Labels]
  <2>1. 0 \in Times
    BY FrameAssumption DEF Times
  <2> QED BY <1>1, <1>2, <2>1 DEF Frame, Types, Labels
<1>6. h \in Frame
  BY <1>2, <1>4, <1>5, <1>11 DEF Frame
<1>7. /\ g.active = h.active /\ g.runlist = h.runlist
      /\ g.iolist = h.iolist /\ g.sleeplist = h.sleeplist /\ g.pendlist = h.pendlist
      /\ g.freelist = Append(h.freelist, t) /\ g.live = h.live /\ g.total = h.total
      /\ g.use = h.use - 1 /\ g.rcv = h.rcv /\ g.type = h.type /\ g.parent = h.parent
      /\ g.sub = h.sub /\ g.left = h.left /\ g.fdset = h.fdset /\ g.pc = h.pc
      /\ g.flag = [h.flag EXCEPT ![t] = {"FREE_LIST"}]
      /\ g = [active |-> g.active, runlist |-> g.runlist, iolist |-> g.iolist,
               sleeplist |-> g.sleeplist, pendlist |-> g.pendlist, freelist |-> g.freelist,
               live |-> g.live, total |-> g.total, use |-> g.use, flag |-> g.flag,
               type |-> g.type, parent |-> g.parent, sub |-> g.sub, left |-> g.left,
               fdset |-> g.fdset, rcv |-> g.rcv, pc |-> g.pc]
  BY <1>3, <1>6 DEF Frame
<1>8. g \in Frame
  <2>1. g.freelist \in Seq(Threads)
    BY <1>6, <1>7, AppendElems DEF Frame
  <2>2. g.use \in Nat
    <3>1. f.use \in Nat
      BY DEF Frame
    <3> QED BY <1>2, <1>7, <3>1
  <2>3. g.flag \in [All -> SUBSET Flags]
    BY <1>1, <1>5, <1>7 DEF Flags
  <2> QED BY <1>6, <1>7, <2>1, <2>2, <2>3 DEF Frame
<1>9. /\ g.flag[t] = {"FREE_LIST"} /\ g.pc[t] = "start"
      /\ \A u \in All \ {t} : /\ g.flag[u] = f.flag[u] /\ g.type[u] = f.type[u]
                              /\ g.left[u] = f.left[u] /\ g.fdset[u] = f.fdset[u]
                              /\ g.pc[u] = f.pc[u]
  BY <1>1, <1>2, <1>7 DEF Frame
<1>10. Pushed(f, g, t)
  BY <1>2, <1>4, <1>7, <1>8, <1>9 DEF Pushed
<1> QED BY <1>10 DEF g

\* A thread in hand that is nobody's parent and nobody's child goes to the free list.
LEMMA PushInv ==
    ASSUME NEW f, NEW m, NEW H, MidInv(f, m, H), NEW t \in Threads, t \in H,
           f.parent[t] = None, f.sub[t] = {}
    PROVE  LET g == PushFree(f, t) IN MidInv(g, m, H \ {t}) /\ Pushed(f, g, t)
<1> DEFINE g == PushFree(f, t)
<1>0. /\ f \in Frame /\ m \in Seq(Threads) /\ Placed(f, m, H) /\ Flagged(f)
      /\ Family(f, m) /\ Stage(f, m) /\ Pooled(f) /\ t \in All /\ t # Daemon /\ t # Primo
  BY FrameAssumption DEF MidInv, All
<1>1. t \in Alive(f) /\ t \in f.live /\ t \notin Elems(f.freelist) /\ Alive(f) \subseteq All
  BY <1>0 DEF Placed, Alive, Frame, All, Pool
<1>2. /\ IsFiniteSet(f.live \ Elems(f.freelist)) /\ f.use >= 1
      /\ Cardinality((f.live \ Elems(f.freelist)) \ {t}) = f.use - 1
  <2> DEFINE L == f.live \ Elems(f.freelist)
  <2>1. IsFiniteSet(f.live) /\ f.use = Cardinality(L) /\ f.use \in Nat
    BY <1>0 DEF Pooled, Frame
  <2>2. IsFiniteSet(L)
    BY <2>1, FS_Difference
  <2>3. t \in L
    BY <1>1
  <2> HIDE DEF L
  <2>4. L # {} /\ Cardinality(L) # 0
    BY <2>2, <2>3, FS_EmptySet
  <2>5. Cardinality(L \ {t}) = Cardinality(L) - 1
    BY <2>2, <2>3, FS_RemoveElement
  <2>6. f.use >= 1
    BY <2>1, <2>4
  <2> QED BY <2>1, <2>2, <2>5, <2>6 DEF L
<1>3. Pushed(f, g, t)
  BY <1>0, <1>2, PushFields
<1> HIDE DEF g
<1>4. /\ Elems(g.freelist) = Elems(f.freelist) \cup {t} /\ NoDup(g.freelist)
      /\ Len(g.freelist) = Len(f.freelist) + 1 /\ Len(f.freelist) \in Nat
  <2>1. f.freelist \in Seq(Threads) /\ NoDup(f.freelist)
    BY <1>0 DEF Frame, Placed
  <2> QED BY <1>1, <1>3, <2>1, AppendElems DEF Pushed
<1>5. Alive(g) = Alive(f)
  BY <1>3 DEF Alive, Pushed
<1>6. Placed(g, m, H \ {t})
  BY <1>0, <1>3, <1>4, <1>5 DEF Placed, Pushed
<1>7. Flagged(g)
  <2>1. ASSUME NEW u \in Alive(f), u # t PROVE FlagsTell(g, u)
    <3>1. g.flag[u] = f.flag[u] /\ FlagsTell(f, u)
      BY <1>0, <1>1, <1>3, <2>1, FlaggedTell DEF Pushed
    <3> QED BY <1>3, <1>4, <2>1, <3>1 DEF FlagsTell, Pushed
  <2>2. FlagsTell(g, t)
    <3>1. t \notin Elems(f.runlist) /\ t \notin f.sleeplist /\ t \notin f.iolist
          /\ t \notin f.pendlist
      BY <1>0 DEF Placed
    <3> QED BY <1>3, <1>4, <3>1 DEF FlagsTell, Pushed
  <2> QED BY <1>5, <2>1, <2>2, FlaggedTell
<1>8. Family(g, m)
  <2>1. \A s \in All : f.parent[s] # None => g.type[s] = f.type[s]
    BY <1>3 DEF Pushed
  <2>2. \A s \in Elems(m) : g.type[s] = f.type[s]
    BY <1>0, <1>1, <1>3 DEF Pushed, Placed
  <2> QED BY <1>0, <1>3, <1>4, <2>1, <2>2, SMTT(30) DEF Family, Pushed
<1>9. Stage(g, m)
  <2>1. t \notin Elems(f.runlist) /\ t \notin f.sleeplist /\ t \notin f.pendlist /\ t \notin Elems(m)
    BY <1>0 DEF Placed
  <2>2. Elems(f.runlist) \subseteq All \ {t} /\ f.sleeplist \subseteq All \ {t}
        /\ f.pendlist \subseteq All \ {t} /\ Elems(m) \subseteq All \ {t}
        /\ Elems(f.freelist) \subseteq All \ {t} /\ Threads \ f.live \subseteq All \ {t}
        /\ Daemon \in All \ {t}
    BY <1>0, <1>1, <2>1 DEF Placed, All
  <2> QED BY <1>0, <1>3, <1>4, <2>2 DEF Stage, Pushed
<1>10. Pooled(g)
  <2>1. f.live \ Elems(g.freelist) = (f.live \ Elems(f.freelist)) \ {t}
    BY <1>4
  <2>2. f.use \in Nat /\ f.total \in Nat /\ f.use = f.total - Len(f.freelist)
    BY <1>0 DEF Pooled, Frame
  <2>3. g.use = f.use - 1 /\ g.total = f.total /\ g.live = f.live
    BY <1>3 DEF Pushed
  <2>4. g.use = g.total - Len(g.freelist)
    BY <1>4, <2>2, <2>3
  <2>5. g.use = Cardinality(g.live \ Elems(g.freelist))
    BY <1>2, <2>1, <2>3
  <2> QED BY <1>0, <2>3, <2>4, <2>5 DEF Pooled
<1> QED BY <1>0, <1>3, <1>6, <1>7, <1>8, <1>9, <1>10 DEF MidInv, Pushed, g

\* What the deletion of the thread at the front of the free list leaves.
LEMMA DeleteFields ==
    ASSUME NEW f \in Frame, f.freelist # <<>>, f.total >= 1
    PROVE  LET g == DeleteFront(f) IN
           /\ g \in Frame /\ g.active = f.active /\ g.runlist = f.runlist
           /\ g.iolist = f.iolist /\ g.sleeplist = f.sleeplist /\ g.pendlist = f.pendlist
           /\ g.freelist = Tail(f.freelist) /\ g.live = f.live \ {Head(f.freelist)}
           /\ g.total = f.total - 1 /\ g.use = f.use /\ g.flag = f.flag
           /\ SameFamily(f, g) /\ SameWait(f, g) /\ g.pc = f.pc
<1> DEFINE g == DeleteFront(f)
<1>1. Tail(f.freelist) \in Seq(Threads)
  BY TailElems DEF Frame
<1>2. f.total - 1 \in Nat
  <2>1. f.total \in Nat
    BY DEF Frame
  <2> QED BY <2>1
<1> DEFINE n == f.total - 1
           T == Tail(f.freelist)
           L == f.live \ {Head(f.freelist)}
<1>3. g = [f EXCEPT !.freelist = T, !.live = L, !.total = n]
  BY DEF DeleteFront, Frame
<1>4. L \in SUBSET Pool
  BY DEF Frame
<1> HIDE DEF n, g, T, L
<1>5. /\ g \in Frame /\ g.active = f.active /\ g.runlist = f.runlist
      /\ g.iolist = f.iolist /\ g.sleeplist = f.sleeplist /\ g.pendlist = f.pendlist
      /\ g.freelist = T /\ g.live = L
      /\ g.total = n /\ g.use = f.use /\ g.flag = f.flag
      /\ SameFamily(f, g) /\ SameWait(f, g) /\ g.pc = f.pc
  <2>1. n \in Nat /\ T \in Seq(Threads)
    BY <1>1, <1>2 DEF n, T
  <2> QED BY <1>3, <1>4, <2>1 DEF Frame, SameFamily, SameWait
<1> QED BY <1>5 DEF n, T, L, g

\* No list leads to the thread that is deleted, and it is counted out.
LEMMA DeleteInv ==
    ASSUME NEW f, NEW m, NEW H, MidInv(f, m, H), f.freelist # <<>>
    PROVE  LET g == DeleteFront(f) IN
           /\ MidInv(g, m, H) /\ g.active = f.active /\ g.pc = f.pc
           /\ SameFamily(f, g) /\ SameWait(f, g)
<1> DEFINE g == DeleteFront(f)
           x == Head(f.freelist)
<1>0. /\ f \in Frame /\ m \in Seq(Threads) /\ Placed(f, m, H) /\ Flagged(f)
      /\ Family(f, m) /\ Stage(f, m) /\ Pooled(f)
  BY DEF MidInv
<1>1. /\ x \in Elems(f.freelist) /\ x \in Threads /\ NoDup(Tail(f.freelist))
      /\ Elems(Tail(f.freelist)) = Elems(f.freelist) \ {x}
      /\ Len(Tail(f.freelist)) = Len(f.freelist) - 1 /\ Len(f.freelist) >= 1
      /\ Len(f.freelist) \in Nat
  <2>1. f.freelist \in Seq(Threads) /\ NoDup(f.freelist)
    BY <1>0 DEF Frame, Placed
  <2> QED BY <2>1, TailElems
<1>2. x # Daemon /\ x # Primo /\ x \in Alive(f) /\ x \in f.live
  BY <1>0, <1>1, FrameAssumption DEF Placed, Alive
<1>3. /\ f.total \in Nat /\ f.use \in Nat /\ f.use = f.total - Len(f.freelist)
      /\ f.total = Cardinality(f.live) /\ IsFiniteSet(f.live)
  BY <1>0 DEF Pooled, Frame
<1>4. f.total >= 1
  BY <1>1, <1>3
<1>5. /\ g \in Frame /\ g.active = f.active /\ g.runlist = f.runlist
      /\ g.iolist = f.iolist /\ g.sleeplist = f.sleeplist /\ g.pendlist = f.pendlist
      /\ g.freelist = Tail(f.freelist) /\ g.live = f.live \ {x}
      /\ g.total = f.total - 1 /\ g.use = f.use /\ g.flag = f.flag
      /\ SameFamily(f, g) /\ SameWait(f, g) /\ g.pc = f.pc
  BY <1>0, <1>4, DeleteFields
<1> HIDE DEF g
<1>6. Alive(g) = Alive(f) \ {x}
  BY <1>2, <1>5 DEF Alive
<1>7. Placed(g, m, H)
  BY <1>0, <1>1, <1>2, <1>5, <1>6 DEF Placed
<1>8. Flagged(g)
  BY <1>0, <1>1, <1>5, <1>6 DEF Flagged
<1>9. Family(g, m)
  BY <1>0, <1>1, <1>5 DEF Family, SameFamily
<1>10. Stage(g, m)
  BY <1>0, <1>1, <1>5 DEF Stage, SameWait
<1>11. Pooled(g)
  <2>1. IsFiniteSet(g.live) /\ Cardinality(g.live) = f.total - 1
    <3>1. IsFiniteSet(f.live \ {x}) /\ Cardinality(f.live \ {x}) = Cardinality(f.live) - 1
      BY <1>2, <1>3, FS_RemoveElement
    <3> QED BY <1>3, <1>5, <3>1
  <2>2. g.live \ Elems(g.freelist) = f.live \ Elems(f.freelist)
    BY <1>1, <1>5
  <2>3. g.use = g.total - Len(g.freelist)
    BY <1>1, <1>3, <1>5
  <2>4. g.use = Cardinality(g.live \ Elems(g.freelist)) /\ Daemon \in g.live
    BY <1>0, <1>2, <1>5, <2>2 DEF Pooled
  <2>5. g.total <= MaxNum \/ g.total <= DefaultNum
    <3>1. f.total <= MaxNum \/ f.total <= DefaultNum
      BY <1>0 DEF Pooled
    <3> QED BY <1>3, <1>5, <3>1, FrameAssumption
  <2> QED BY <1>5, <2>1, <2>3, <2>4, <2>5 DEF Pooled
<1> QED BY <1>0, <1>5, <1>7, <1>8, <1>9, <1>10, <1>11 DEF MidInv, g

\* FreeThread takes a thread out of hand and keeps the pool exact.
LEMMA FreeInv ==
    ASSUME NEW f, NEW m, NEW H, MidInv(f, m, H), NEW t \in Threads, t \in H,
           f.parent[t] = None, f.sub[t] = {}
    PROVE  LET g == FreeThread(f, t) IN
           /\ MidInv(g, m, H \ {t}) /\ g.active = f.active /\ g.pc[t] = "start"
           /\ g.sub = f.sub /\ g.rcv = f.rcv
           /\ \A u \in All \ {t} : /\ g.pc[u] = f.pc[u] /\ g.fdset[u] = f.fdset[u]
                                   /\ g.left[u] = f.left[u]
<1> DEFINE h == PushFree(f, t)
<1>1. MidInv(h, m, H \ {t}) /\ Pushed(f, h, t)
  BY PushInv
<1>2. FreeThread(f, t) = IF Len(h.freelist) > DefaultNum /\ Len(h.freelist) > 1
                         THEN DeleteFront(h) ELSE h
  BY DEF FreeThread
<1>3. h.freelist # <<>>
  <2>1. f \in Frame
    BY DEF MidInv
  <2>2. f.freelist \in Seq(Threads)
    BY <2>1 DEF Frame
  <2> QED BY <1>1, <2>2, AppendElems DEF Pushed
<1> HIDE DEF h
<1>4. CASE FreeThread(f, t) = DeleteFront(h)
  <2> DEFINE g == DeleteFront(h)
  <2>1. /\ MidInv(g, m, H \ {t}) /\ g.active = h.active /\ g.pc = h.pc
        /\ SameFamily(h, g) /\ SameWait(h, g)
    BY <1>1, <1>3, DeleteInv
  <2> HIDE DEF g
  <2>2. FreeThread(f, t) = g
    BY <1>4 DEF g
  <2> QED BY <1>1, <2>1, <2>2 DEF Pushed, SameFamily, SameWait
<1>5. CASE FreeThread(f, t) = h
  BY <1>1, <1>5 DEF Pushed
<1> QED BY <1>2, <1>4, <1>5

\* A thread leaves the list of mt_exec_all_task and is in hand.
LEMMA MadeOut ==
    ASSUME NEW f, NEW m, NEW H, MidInv(f, m, H), m # <<>>
    PROVE  LET t == Head(m) IN
           /\ MidInv(f, Tail(m), H \cup {t}) /\ t \notin H /\ t \in Threads
           /\ t \notin Elems(Tail(m)) /\ t \in f.live /\ t \notin Elems(f.freelist)
           /\ f.pc[t] = "start" /\ f.parent[t] = None /\ f.type[t] = "SUB_THREAD"
           /\ (f.active \in H \cup {Daemon}) => (f.sub[t] = {} /\ t # f.active)
<1> DEFINE t == Head(m)
<1>0. /\ f \in Frame /\ m \in Seq(Threads) /\ Placed(f, m, H) /\ Flagged(f)
      /\ Family(f, m) /\ Stage(f, m) /\ Pooled(f)
  BY DEF MidInv
<1>1. /\ t \in Elems(m) /\ t \in Threads /\ Tail(m) \in Seq(Threads)
      /\ NoDup(Tail(m)) /\ Elems(Tail(m)) = Elems(m) \ {t}
  BY <1>0, TailElems DEF Placed
<1> HIDE DEF t
<1>2. t \in All /\ t # Daemon /\ t # Primo /\ t \in f.live /\ t \notin Elems(f.freelist)
      /\ t \notin H /\ t \notin f.pendlist
  BY <1>0, <1>1, FrameAssumption DEF Placed, Alive, All
<1>3. Placed(f, Tail(m), H \cup {t})
  BY <1>0, <1>1 DEF Placed
<1>4. Family(f, Tail(m))
  BY <1>0, <1>1 DEF Family
<1>5. Stage(f, Tail(m)) /\ f.pc[t] = "start"
  BY <1>0, <1>1 DEF Stage
<1>6. f.parent[t] = None /\ f.type[t] = "SUB_THREAD"
  BY <1>0, <1>1, <1>2 DEF Family
<1>7. f.active \in H \cup {Daemon} => f.sub[t] = {} /\ t # f.active
  BY <1>0, <1>2 DEF Family
<1> QED BY <1>0, <1>1, <1>2, <1>3, <1>4, <1>5, <1>6, <1>7 DEF MidInv, t

(***************************************************************************)
(* Sub threads.                                                            *)
(***************************************************************************)

\* What a frame keeps when only its families change.
SameButFamily(f, g) ==
    /\ g.active = f.active /\ g.runlist = f.runlist /\ g.iolist = f.iolist
    /\ g.sleeplist = f.sleeplist /\ g.pendlist = f.pendlist /\ g.freelist = f.freelist
    /\ g.live = f.live /\ SamePool(f, g) /\ SameWait(f, g) /\ g.pc = f.pc

\* A new sub thread.
MakeSub(f, x) == [f EXCEPT !.type[x] = "SUB_THREAD"]

\* A thread in hand becomes a sub thread and joins the list of mt_exec_all_task.
LEMMA MadeIn ==
    ASSUME NEW f, NEW m, NEW H, NEW x \in Threads, x \notin H, MidInv(f, m, H \cup {x}),
           f.pc[x] = "start", f.parent[x] = None
    PROVE  LET g == MakeSub(f, x) IN
           MidInv(g, Append(m, x), H) /\ SameButFamily(f, g) /\ g.sub = f.sub
<1> DEFINE g == MakeSub(f, x)
           n == Append(m, x)
<1>0. /\ f \in Frame /\ m \in Seq(Threads) /\ Placed(f, m, H \cup {x}) /\ Flagged(f)
      /\ Family(f, m) /\ Stage(f, m) /\ Pooled(f) /\ x \in All
  BY DEF MidInv, All
<1>1. /\ g \in Frame /\ SameButFamily(f, g) /\ g.flag = f.flag /\ g.parent = f.parent
      /\ g.sub = f.sub /\ g.type = [f.type EXCEPT ![x] = "SUB_THREAD"]
  BY <1>0 DEF Frame, MakeSub, SameButFamily, SamePool, SameWait, Types
<1>2. g.type[x] = "SUB_THREAD" /\ \A u \in All \ {x} : g.type[u] = f.type[u]
  BY <1>0, <1>1 DEF Frame
<1>3. /\ n \in Seq(Threads) /\ Elems(n) = Elems(m) \cup {x} /\ NoDup(n)
      /\ x \notin Elems(m) /\ x \notin Elems(f.freelist)
  <2>1. NoDup(m) /\ x \notin Elems(m) /\ x \notin Elems(f.freelist)
    BY <1>0 DEF Placed
  <2> QED BY <1>0, <2>1, AppendElems
<1> HIDE DEF g, n
<1>4. Alive(g) = Alive(f)
  BY <1>1 DEF Alive, SameButFamily
<1>5. Placed(g, n, H)
  BY <1>0, <1>1, <1>3, <1>4 DEF Placed, SameButFamily
<1>6. Flagged(g) /\ Pooled(g)
  BY <1>0, <1>1, <1>4 DEF Flagged, Pooled, SameButFamily, SamePool
<1>7. Family(g, n)
  <2>1. \A s \in All : f.parent[s] # None => g.type[s] = f.type[s] /\ s # x
    BY <1>2
  <2>2. \A s \in Elems(m) : g.type[s] = f.type[s] \/ s = x
    BY <1>0, <1>2, SeqElems DEF All
  <2> QED BY <1>0, <1>1, <1>2, <1>3, <2>1, <2>2 DEF Family, SameButFamily
<1>8. Stage(g, n)
  BY <1>0, <1>1, <1>3 DEF Stage, SameButFamily, SameWait
<1> QED BY <1>1, <1>3, <1>5, <1>6, <1>7, <1>8 DEF MidInv, g, n

\* The thread that runs in mt_exec_all_task gets a sub thread.
LEMMA AddSubInv ==
    ASSUME NEW f, NEW m, NEW H, MidInv(f, m, H), NEW s \in Threads, s \in H,
           f.active \in Users, f.pc[f.active] = "start_subs", s # f.active,
           f.parent[s] = None, f.type[s] = "SUB_THREAD"
    PROVE  LET g == AddSubThread(f, f.active, s) IN
           /\ MidInv(g, m, H) /\ SameButFamily(f, g) /\ s \in g.sub[f.active]
<1> DEFINE p == f.active
           g == AddSubThread(f, p, s)
<1>0. /\ f \in Frame /\ m \in Seq(Threads) /\ Placed(f, m, H) /\ Flagged(f)
      /\ Family(f, m) /\ Stage(f, m) /\ Pooled(f) /\ s \in All /\ p \in All
      /\ s \in f.live /\ s \notin Elems(f.freelist) /\ s \notin Elems(m)
  <2>1. /\ f \in Frame /\ m \in Seq(Threads) /\ Placed(f, m, H) /\ Flagged(f)
        /\ Family(f, m) /\ Stage(f, m) /\ Pooled(f)
    BY DEF MidInv
  <2> QED BY <2>1, FrameAssumption DEF Placed, Alive, All, Users
<1>1. /\ g \in Frame /\ SameButFamily(f, g) /\ g.type = f.type
      /\ g.sub = [f.sub EXCEPT ![p] = @ \cup {s}] /\ g.parent = [f.parent EXCEPT ![s] = p]
      /\ g.flag = [f.flag EXCEPT ![s] = @ \cup {"SUB_LIST"}]
  <2>1. /\ SameButFamily(f, g) /\ g.type = f.type
        /\ g.sub = [f.sub EXCEPT ![p] = @ \cup {s}] /\ g.parent = [f.parent EXCEPT ![s] = p]
        /\ g.flag = [f.flag EXCEPT ![s] = @ \cup {"SUB_LIST"}]
        /\ g = [f EXCEPT !.sub = g.sub, !.parent = g.parent, !.flag = g.flag]
    BY <1>0 DEF Frame, AddSubThread, SameButFamily, SamePool, SameWait
  <2> HIDE DEF g
  <2>2. /\ g.sub \in [All -> SUBSET Threads] /\ g.parent \in [All -> Users \cup {None}]
        /\ g.flag \in [All -> SUBSET Flags]
    BY <1>0, <2>1 DEF Frame, Flags
  <2>3. g \in Frame
    BY <1>0, <2>1, <2>2, ZenonT(30) DEF Frame
  <2> QED BY <2>1, <2>3
<1>2. /\ g.sub[p] = f.sub[p] \cup {s} /\ \A u \in All \ {p} : g.sub[u] = f.sub[u]
      /\ g.parent[s] = p /\ \A u \in All \ {s} : g.parent[u] = f.parent[u]
      /\ g.flag[s] = f.flag[s] \cup {"SUB_LIST"} /\ \A u \in All \ {s} : g.flag[u] = f.flag[u]
  BY <1>0, <1>1 DEF Frame
<1> HIDE DEF g
<1>4. Alive(g) = Alive(f) /\ Alive(f) \subseteq All
  BY <1>0, <1>1 DEF Alive, SameButFamily, Frame, All, Pool
<1>5. Placed(g, m, H)
  BY <1>0, <1>1, <1>4 DEF Placed, SameButFamily
<1>6. Flagged(g)
  BY <1>0, <1>1, <1>2, <1>4 DEF Flagged, SameButFamily
<1>7. Family(g, m)
  <2>1. p # None /\ None \notin All /\ \A t \in All : s \notin f.sub[t]
    BY <1>0, FrameAssumption DEF Family, All
  <2>2. ASSUME NEW t \in All, NEW u \in All PROVE u \in g.sub[t] <=> g.parent[u] = t
    <3>1. u \in f.sub[t] <=> f.parent[u] = t
      BY <1>0 DEF Family
    <3>2. CASE u = s
      BY <1>2, <2>1, <3>2
    <3>3. CASE u # s
      BY <1>2, <3>1, <3>3
    <3> QED BY <3>2, <3>3
  <2>3. \A u \in All : g.parent[u] # None =>
           /\ u \in g.live /\ u \notin Elems(g.freelist) /\ u \notin Elems(m)
           /\ g.type[u] = "SUB_THREAD"
    BY <1>0, <1>1, <1>2 DEF Family, SameButFamily
  <2>4. \A t \in All : g.sub[t] # {} =>
           t \in g.pendlist \/ (t = g.active /\ g.pc[t] = "start_subs")
    BY <1>0, <1>1, <1>2 DEF Family, SameButFamily
  <2>5. \A t \in g.pendlist : g.sub[t] # {}
    BY <1>0, <1>1, <1>2, <1>4 DEF Family, SameButFamily, Placed
  <2>6. \A t \in Elems(m) : g.type[t] = "SUB_THREAD"
    BY <1>0, <1>1 DEF Family
  <2> QED BY <2>2, <2>3, <2>4, <2>5, <2>6 DEF Family
<1>8. Stage(g, m) /\ Pooled(g)
  BY <1>0, <1>1 DEF Stage, Pooled, SameButFamily, SameWait, SamePool
<1> QED BY <1>0, <1>1, <1>2, <1>5, <1>6, <1>7, <1>8 DEF MidInv, g

\* Thread::Wait parks a thread that has sub threads.
LEMMA PendInv ==
    ASSUME NEW f, NEW m, MidInv(f, m, Hand(f)), f.active \in Users, f.sub[f.active] # {}
    PROVE  LET g == Leave(InsertPend(f, f.active), "pend") IN
           /\ MidInv(g, m, {}) /\ g.active = f.active /\ g.pc[f.active] = "pend"
           /\ SameFamily(f, g) /\ SameWait(f, g)
           /\ \A u \in All \ {f.active} : g.pc[u] = f.pc[u]
<1> DEFINE t == f.active
           h == InsertPend(f, t)
           g == Leave(h, "pend")
<1>0. /\ f \in Frame /\ m \in Seq(Threads) /\ Placed(f, m, {t}) /\ Flagged(f)
      /\ Family(f, m) /\ Stage(f, m) /\ Pooled(f) /\ t \in All /\ t # Daemon
  <2>1. t # Daemon /\ Hand(f) = {t} /\ t \in All
    BY FrameAssumption DEF Users, Hand, All
  <2> QED BY <2>1 DEF MidInv
<1>1. /\ h \in Frame /\ h.active = f.active /\ h.runlist = f.runlist /\ h.iolist = f.iolist
      /\ h.sleeplist = f.sleeplist /\ h.freelist = f.freelist /\ h.live = f.live
      /\ h.pendlist = f.pendlist \cup {t}
      /\ h.flag = [f.flag EXCEPT ![t] = @ \cup {"PEND_LIST"}]
      /\ SameFamily(f, h) /\ SamePool(f, h) /\ SameWait(f, h) /\ h.pc = f.pc
  BY <1>0 DEF Frame, InsertPend, SameFamily, SamePool, SameWait, Flags
<1> HIDE DEF h
<1>2. /\ g \in Frame /\ g.active = h.active /\ SameLists(h, g) /\ SameFamily(h, g)
      /\ SamePool(h, g) /\ SameWait(h, g) /\ g.pc = [h.pc EXCEPT ![h.active] = "pend"]
  BY <1>1, LeaveFields DEF Labels
<1> HIDE DEF g
<1>3. /\ g.active = t /\ g.runlist = f.runlist /\ g.iolist = f.iolist
      /\ g.sleeplist = f.sleeplist /\ g.freelist = f.freelist /\ g.live = f.live
      /\ g.pendlist = f.pendlist \cup {t}
      /\ g.flag[t] = f.flag[t] \cup {"PEND_LIST"}
      /\ \A u \in All \ {t} : g.flag[u] = f.flag[u] /\ g.pc[u] = f.pc[u]
      /\ g.pc[t] = "pend"
      /\ SameFamily(f, g) /\ SamePool(f, g) /\ SameWait(f, g)
  BY <1>0, <1>1, <1>2 DEF Frame, SameLists, SameFamily, SamePool, SameWait
<1>4. Alive(g) = Alive(f) /\ t \in Alive(f) /\ Alive(f) \subseteq All
  BY <1>0, <1>3 DEF Alive, Placed, Frame, All, Pool
<1>5. Placed(g, m, {})
  BY <1>0, <1>3, <1>4 DEF Placed
<1>6. Flagged(g)
  <2>1. ASSUME NEW u \in Alive(f), u # t PROVE FlagsTell(g, u)
    <3>1. g.flag[u] = f.flag[u] /\ FlagsTell(f, u)
      BY <1>0, <1>3, <1>4, <2>1, FlaggedTell
    <3> QED BY <1>3, <2>1, <3>1 DEF FlagsTell
  <2>2. FlagsTell(g, t)
    <3>1. FlagsTell(f, t)
      BY <1>0, <1>4, FlaggedTell
    <3> QED BY <1>3, <3>1 DEF FlagsTell
  <2> QED BY <1>4, <2>1, <2>2, FlaggedTell
<1>7. Family(g, m)
  <2>1. \A u \in All : u # t => g.pc[u] = f.pc[u]
    BY <1>3
  <2> QED BY <1>0, <1>3, <2>1 DEF Family, SameFamily
<1>8. Stage(g, m)
  <2>2. Elems(f.runlist) \subseteq All \ {t} /\ f.sleeplist \subseteq All \ {t}
        /\ f.pendlist \subseteq All \ {t} /\ Elems(m) \subseteq All \ {t}
        /\ Elems(f.freelist) \subseteq All \ {t} /\ Threads \ f.live \subseteq All \ {t}
        /\ Daemon \in All \ {t}
    BY <1>0, <1>4, FrameAssumption DEF Placed, All, Alive
  <2> QED BY <1>0, <1>3, <2>2 DEF Stage, SameWait
<1>9. Pooled(g)
  BY <1>0, <1>3 DEF Pooled, SamePool
<1> QED BY <1>0, <1>2, <1>3, <1>5, <1>6, <1>7, <1>8, <1>9 DEF MidInv, g, h

\* What RemoveSubThread leaves: t is nobody's child any more.
Orphaned(f, g, p, t) ==
    /\ g \in Frame /\ SameButFamily(f, g) /\ g.type = f.type
    /\ g.sub[p] = f.sub[p] \ {t} /\ \A u \in All \ {p} : g.sub[u] = f.sub[u]
    /\ g.parent[t] = None /\ \A u \in All \ {t} : g.parent[u] = f.parent[u]
    /\ g.flag[t] = f.flag[t] \ {"SUB_LIST"} /\ \A u \in All \ {t} : g.flag[u] = f.flag[u]

\* RemoveSubThread, field by field.
LEMMA RemoveSubFields ==
    ASSUME NEW f \in Frame, NEW p \in Users, NEW t \in Threads
    PROVE  Orphaned(f, RemoveSubThread(f, p, t), p, t)
<1> DEFINE g == RemoveSubThread(f, p, t)
<1>0. p \in All /\ t \in All
  BY DEF All, Users
<1>1. /\ g \in Frame /\ SameButFamily(f, g) /\ g.type = f.type
      /\ g.sub = [f.sub EXCEPT ![p] = @ \ {t}] /\ g.parent = [f.parent EXCEPT ![t] = None]
      /\ g.flag = [f.flag EXCEPT ![t] = @ \ {"SUB_LIST"}]
  BY <1>0 DEF Frame, RemoveSubThread, SameButFamily, SamePool, SameWait
<1> HIDE DEF g
<1>2. Orphaned(f, g, p, t)
  BY <1>0, <1>1 DEF Orphaned, Frame
<1> QED BY <1>2 DEF g

\* The families of a frame whose thread p may have lost its last sub thread.
FamilyBut(g, m, p) ==
    /\ \A q, s \in All : s \in g.sub[q] <=> g.parent[s] = q
    /\ \A s \in All : g.parent[s] # None =>
         /\ s \in g.live /\ s \notin Elems(g.freelist) /\ s \notin Elems(m)
         /\ g.type[s] = "SUB_THREAD"
    /\ \A q \in All : g.sub[q] # {} =>
         q \in g.pendlist \/ (q = g.active /\ g.pc[q] = "start_subs")
    /\ \A q \in g.pendlist \ {p} : g.sub[q] # {}
    /\ \A s \in Elems(m) : g.type[s] = "SUB_THREAD"

\* What holds of the family once a sub thread t of p that runs has left it.
LEMMA OrphanFacts ==
    ASSUME NEW f, NEW g, NEW m, NEW p \in Users, NEW t \in Threads,
           MidInv(f, m, Hand(f)), f.active = t, f.pc[t] = "user", f.parent[t] = p,
           Orphaned(f, g, p, t)
    PROVE  /\ p \in f.pendlist /\ p # t /\ p \in All /\ t \in All
           /\ f.sub[t] = {} /\ g.sub[t] = {}
           /\ Placed(g, m, Hand(g)) /\ Flagged(g) /\ Stage(g, m) /\ Pooled(g)
           /\ FamilyBut(g, m, p)
<1>0. /\ f \in Frame /\ m \in Seq(Threads) /\ Placed(f, m, Hand(f)) /\ Flagged(f)
      /\ Family(f, m) /\ Stage(f, m) /\ Pooled(f) /\ p \in All /\ t \in All /\ t # Daemon
      /\ None \notin All
  BY FrameAssumption DEF MidInv, All, Users
<1>1. t \in f.sub[p] /\ p \in f.pendlist /\ p # t /\ f.sub[t] = {} /\ t \notin f.pendlist
  <2>1. t \in f.sub[p]
    BY <1>0 DEF Family
  <2>2. Hand(f) = {t}
    BY <1>0 DEF Hand
  <2>3. t \notin f.pendlist
    BY <1>0, <2>2 DEF Placed
  <2>4. f.sub[t] = {}
    BY <1>0, <2>3 DEF Family
  <2>5. p # t
    BY <2>1, <2>4
  <2>6. p \in f.pendlist
    BY <1>0, <2>1, <2>5 DEF Family
  <2> QED BY <2>1, <2>3, <2>4, <2>5, <2>6
<1>2. g.sub[t] = {}
  BY <1>0, <1>1 DEF Orphaned
<1>3. Alive(g) = Alive(f) /\ Alive(f) \subseteq All /\ Hand(g) = Hand(f)
  BY <1>0 DEF Alive, Orphaned, SameButFamily, Frame, All, Pool, Hand
<1>4. Placed(g, m, Hand(g)) /\ Stage(g, m) /\ Pooled(g)
  BY <1>0, <1>3 DEF Placed, Stage, Pooled, Orphaned, SameButFamily, SameWait, SamePool
<1>5. Flagged(g)
  BY <1>0, <1>3 DEF Flagged, Orphaned, SameButFamily
<1>6. ASSUME NEW q \in All, NEW s \in All PROVE s \in g.sub[q] <=> g.parent[s] = q
  <2>1. s \in f.sub[q] <=> f.parent[s] = q
    BY <1>0 DEF Family
  <2>2. CASE s = t
    <3>1. q # None /\ g.parent[s] # q
      BY <1>0, <2>2 DEF Orphaned
    <3>2. s \notin g.sub[q]
      BY <1>0, <2>1, <2>2 DEF Orphaned
    <3> QED BY <3>1, <3>2
  <2>3. CASE s # t
    <3>1. s \in g.sub[q] <=> s \in f.sub[q]
      BY <2>3 DEF Orphaned
    <3> QED BY <2>1, <2>3, <3>1 DEF Orphaned
  <2> QED BY <2>2, <2>3
<1>7. \A s \in All : g.parent[s] # None =>
           /\ s \in g.live /\ s \notin Elems(g.freelist) /\ s \notin Elems(m)
           /\ g.type[s] = "SUB_THREAD"
  BY <1>0 DEF Family, Orphaned, SameButFamily
<1>8. \A q \in All : g.sub[q] # {} =>
           q \in g.pendlist \/ (q = g.active /\ g.pc[q] = "start_subs")
  BY <1>0, <1>1 DEF Family, Orphaned, SameButFamily
<1>9. \A q \in g.pendlist \ {p} : g.sub[q] # {}
  BY <1>0, <1>3 DEF Family, Orphaned, SameButFamily, Placed
<1>10. \A s \in Elems(m) : g.type[s] = "SUB_THREAD"
  BY <1>0 DEF Family, Orphaned
<1> QED BY <1>0, <1>1, <1>2, <1>4, <1>5, <1>6, <1>7, <1>8, <1>9, <1>10 DEF FamilyBut

\* ScheduleUnpend takes a thread from the pend list to the run list.
LEMMA UnpendFields ==
    ASSUME NEW f \in Frame, NEW p \in Users
    PROVE  LET g == ScheduleUnpend(f, p) IN
           /\ g \in Frame /\ g.active = f.active /\ g.runlist = Append(f.runlist, p)
           /\ g.iolist = f.iolist /\ g.sleeplist = f.sleeplist
           /\ g.pendlist = f.pendlist \ {p} /\ g.freelist = f.freelist /\ g.live = f.live
           /\ g.flag[p] = (f.flag[p] \ {"PEND_LIST"}) \cup {"RUN_LIST"}
           /\ \A u \in All \ {p} : g.flag[u] = f.flag[u]
           /\ SameFamily(f, g) /\ SamePool(f, g) /\ SameWait(f, g) /\ g.pc = f.pc
<1> DEFINE h == RemovePend(f, p)
           g == InsertRunable(h, p)
<1>0. p \in All
  BY DEF All, Users
<1>1. /\ h \in Frame /\ h.active = f.active /\ h.runlist = f.runlist
      /\ h.iolist = f.iolist /\ h.sleeplist = f.sleeplist
      /\ h.pendlist = f.pendlist \ {p} /\ h.freelist = f.freelist /\ h.live = f.live
      /\ h.flag = [f.flag EXCEPT ![p] = @ \ {"PEND_LIST"}]
      /\ SameFamily(f, h) /\ SamePool(f, h) /\ SameWait(f, h) /\ h.pc = f.pc
  BY <1>0 DEF Frame, RemovePend, SameFamily, SamePool, SameWait
<1> HIDE DEF h
<1>2. /\ g \in Frame /\ g.active = h.active /\ g.runlist = Append(h.runlist, p)
      /\ g.iolist = h.iolist /\ g.sleeplist = h.sleeplist /\ g.pendlist = h.pendlist
      /\ g.freelist = h.freelist /\ g.live = h.live
      /\ g.flag = [h.flag EXCEPT ![p] = @ \cup {"RUN_LIST"}]
      /\ SameFamily(h, g) /\ SamePool(h, g) /\ SameWait(h, g) /\ g.pc = h.pc
  BY <1>1, InsertRunableFields
<1> HIDE DEF g
<1>3. /\ g.flag[p] = (f.flag[p] \ {"PEND_LIST"}) \cup {"RUN_LIST"}
      /\ \A u \in All \ {p} : g.flag[u] = f.flag[u]
  BY <1>0, <1>1, <1>2 DEF Frame
<1>4. ScheduleUnpend(f, p) = g
  BY DEF ScheduleUnpend, g, h
<1> QED BY <1>1, <1>2, <1>3, <1>4 DEF SameFamily, SamePool, SameWait

\* A thread that ends leaves its parent, which runs again when it was the last one.
LEMMA WakeupParentInv ==
    ASSUME NEW f, NEW m, MidInv(f, m, Hand(f)), f.active \in Threads,
           f.pc[f.active] = "user"
    PROVE  LET g == WakeupParent(f, f.active) IN
           /\ MidInv(g, m, Hand(g)) /\ g.active = f.active /\ g.pc = f.pc
           /\ SameWait(f, g) /\ g.parent[f.active] = None /\ g.sub[f.active] = {}
<1> DEFINE t == f.active
           p == f.parent[t]
<1>0. /\ f \in Frame /\ m \in Seq(Threads) /\ Placed(f, m, Hand(f)) /\ Family(f, m)
      /\ t \in All /\ t # Daemon
  BY FrameAssumption DEF MidInv, All
<1>1. CASE p = None
  <2>1. t \in Hand(f) /\ t \notin f.pendlist
    BY <1>0 DEF Hand, Placed
  <2>2. f.sub[t] = {}
    BY <1>0, <2>1 DEF Family
  <2> QED BY <1>1, <2>2 DEF WakeupParent, SameWait
<1>2. CASE p # None
  <2> DEFINE g == RemoveSubThread(f, p, t)
  <2>1. p \in Users
    BY <1>0, <1>2 DEF Frame
  <2>2. WakeupParent(f, t) = IF g.sub[p] = {} THEN ScheduleUnpend(g, p) ELSE g
    BY <1>2 DEF WakeupParent
  <2>3. Orphaned(f, g, p, t)
    BY <1>0, <2>1, RemoveSubFields
  <2> HIDE DEF g
  <2>4. /\ p \in f.pendlist /\ p # t /\ p \in All /\ t \in All
        /\ f.sub[t] = {} /\ g.sub[t] = {}
        /\ Placed(g, m, Hand(g)) /\ Flagged(g) /\ Stage(g, m) /\ Pooled(g)
        /\ FamilyBut(g, m, p)
    <3> HIDE DEF p
    <3>1. f.active = t /\ f.pc[t] = "user" /\ f.parent[t] = p
      BY DEF p
    <3> HIDE DEF t
    <3>2. t \in Threads
      BY DEF t
    <3> QED BY <2>1, <2>3, <3>1, <3>2, OrphanFacts
  <2>5. g \in Frame /\ g.active = t /\ g.pc = f.pc /\ SameWait(f, g) /\ g.parent[t] = None
        /\ g.pendlist = f.pendlist
    BY <2>3 DEF Orphaned, SameButFamily
  <2> HIDE DEF p
  <2>6. CASE g.sub[p] # {}
    <3>1. Family(g, m)
      BY <2>4, <2>6 DEF Family, FamilyBut
    <3>2. MidInv(g, m, Hand(g)) /\ WakeupParent(f, t) = g
      BY <1>0, <2>2, <2>4, <2>5, <2>6, <3>1 DEF MidInv
    <3> QED BY <2>4, <2>5, <3>2
  <2>7. CASE g.sub[p] = {}
    <3> DEFINE h == ScheduleUnpend(g, p)
    <3>1. WakeupParent(f, t) = h
      BY <2>2, <2>7
    <3>2. /\ h \in Frame /\ h.active = g.active /\ h.runlist = Append(g.runlist, p)
          /\ h.iolist = g.iolist /\ h.sleeplist = g.sleeplist
          /\ h.pendlist = g.pendlist \ {p} /\ h.freelist = g.freelist /\ h.live = g.live
          /\ h.flag[p] = (g.flag[p] \ {"PEND_LIST"}) \cup {"RUN_LIST"}
          /\ \A u \in All \ {p} : h.flag[u] = g.flag[u]
          /\ SameFamily(g, h) /\ SamePool(g, h) /\ SameWait(g, h) /\ h.pc = g.pc
      BY <2>1, <2>5, UnpendFields
    <3> HIDE DEF h
    <3>3. /\ p \notin Elems(g.runlist) /\ Elems(h.runlist) = Elems(g.runlist) \cup {p}
          /\ NoDup(h.runlist)
      <4>1. p \notin Elems(g.runlist) /\ NoDup(g.runlist) /\ g.runlist \in Seq(Users)
        BY <2>4, <2>5 DEF Placed, Frame
      <4> QED BY <2>1, <3>2, <4>1, AppendElems
    <3>4. Alive(h) = Alive(g) /\ Hand(h) = Hand(g) /\ Alive(g) \subseteq All /\ p \in Alive(g)
      BY <2>4, <2>5, <3>2 DEF Alive, Hand, Placed, Frame, All, Pool
    <3>5. Placed(h, m, Hand(h))
      BY <2>4, <2>5, <3>2, <3>3, <3>4 DEF Placed
    <3>6. Flagged(h)
      <4>1. ASSUME NEW u \in Alive(g), u # p PROVE FlagsTell(h, u)
        <5>1. h.flag[u] = g.flag[u] /\ FlagsTell(g, u)
          BY <2>4, <3>2, <3>4, <4>1, FlaggedTell
        <5> QED BY <3>2, <3>3, <4>1, <5>1 DEF FlagsTell
      <4>2. FlagsTell(h, p)
        <5>1. FlagsTell(g, p)
          BY <2>4, <3>4, FlaggedTell
        <5> QED BY <3>2, <3>3, <5>1 DEF FlagsTell
      <4> QED BY <3>4, <4>1, <4>2, FlaggedTell
    <3>7. Family(h, m)
      BY <2>4, <2>5, <2>7, <3>2 DEF Family, FamilyBut, SameFamily
    <3>8. Stage(h, m) /\ Pooled(h)
      <4>1. g.pc[p] = "pend"
        BY <2>4, <2>5 DEF Stage
      <4> QED BY <2>4, <3>2, <3>3, <4>1 DEF Stage, Pooled, SameWait, SamePool
    <3>9. MidInv(h, m, Hand(h))
      BY <1>0, <3>2, <3>5, <3>6, <3>7, <3>8 DEF MidInv
    <3> QED BY <2>4, <2>5, <3>1, <3>2, <3>9 DEF SameWait, SameFamily
  <2> QED BY <2>6, <2>7
<1> QED BY <1>1, <1>2

(***************************************************************************)
(* The steps.                                                              *)
(***************************************************************************)

\* The scheduler runs and no task list is left over.
LEMMA SwitchStep ==
    ASSUME NEW g, NEW m, NEW n, NEW l, NEW w \in Nat, MidInv(g, m, {}), m = <<>>,
           g.pc[g.active] # "start_subs", Watched(g, n, l)
    PROVE  StateInv(ThreadSchdule(g), m, n, l, w)
<1> DEFINE h == ThreadSchdule(g)
<1>1. /\ MidInv(h, m, Hand(h))
      /\ h.pc = g.pc /\ h.fdset = g.fdset
      /\ h.pc[h.active] \in {"start", "sleep", "wait", "epoll", "pend"} \cup DaemonLabels
      /\ h.pc[h.active] = "epoll" => h.rcv[h.active] # {} \/ h.left[h.active] = 0
  BY Scheduled
<1> HIDE DEF h
<1>2. Watched(h, n, l)
  BY <1>1 DEF Watched
<1>3. Executing(h, m, w)
  BY <1>1 DEF Executing, DaemonLabels
<1> QED BY <1>1, <1>2, <1>3 DEF StateInv, Woken, h

\* The objects on the fds are of threads in EpollSchedule: a step that changes
\* only the context of others leaves them alone.
LEMMA WatchedKept ==
    ASSUME NEW f \in Frame, NEW g, NEW n, NEW l, NEW t \in All, Watched(f, n, l),
           f.pc[t] # "epoll",
           \A u \in All \ {t} : g.pc[u] = f.pc[u] /\ g.fdset[u] = f.fdset[u]
    PROVE  Watched(g, n, l)
<1>1. \A d \in l : n[d] \in All \ {t}
  BY DEF Watched, All, Users
<1> QED BY <1>1 DEF Watched

\* The active thread, or the daemon, goes on to p.
LEMMA LeaveStep ==
    ASSUME NEW f, NEW m, NEW n, NEW l, NEW w, StateInv(f, m, n, l, w), NEW v \in Nat,
           NEW p \in Labels, p # "epoll", f.pc[f.active] # "epoll",
           f.active = Daemon => p \in DaemonLabels,
           f.pc[f.active] = "start_subs" => p = "start_subs",
           m # <<>> => p \in {"create", "start_subs", "undo"},
           p = "create" => v >= 1,
           p = "start_subs" => m # <<>> \/ f.sub[f.active] # {}
    PROVE  StateInv(Leave(f, p), m, n, l, v)
<1> DEFINE g == Leave(f, p)
<1>0. f \in Frame /\ MidInv(f, m, Hand(f)) /\ Watched(f, n, l) /\ f.active \in All
  BY DEF StateInv, MidInv, Frame
<1>1. /\ g \in Frame /\ g.active = f.active /\ SameLists(f, g) /\ SameFamily(f, g)
      /\ SamePool(f, g) /\ SameWait(f, g) /\ g.pc = [f.pc EXCEPT ![f.active] = p]
  BY <1>0, LeaveFields
<1> HIDE DEF g
<1>2. Touched(f, g, p)
  BY <1>1 DEF Touched, SameWait
<1>3. MidInv(g, m, Hand(g))
  BY <1>0, <1>2, TouchedInv
<1>4. g.pc[g.active] = p /\ \A u \in All \ {f.active} : g.pc[u] = f.pc[u]
  BY <1>0, <1>1 DEF Frame
<1>5. Watched(g, n, l)
  BY <1>0, <1>1, <1>4, WatchedKept, ZenonT(30) DEF SameWait
<1>6. Executing(g, m, v)
  BY <1>1, <1>4 DEF Executing, SameFamily
<1>7. Woken(g)
  BY <1>4 DEF Woken
<1> QED BY <1>3, <1>5, <1>6, <1>7 DEF StateInv, g

\* What the invariant says while the daemon or a thread's own code runs.
LEMMA RunFacts ==
    ASSUME NEW f, NEW m, NEW n, NEW l, NEW w, StateInv(f, m, n, l, w)
    PROVE  /\ f \in Frame /\ f.active \in All /\ w \in Nat
           /\ MidInv(f, m, Hand(f)) /\ Watched(f, n, l) /\ Executing(f, m, w) /\ Woken(f)
           /\ f.active # Daemon => f.active \in Users /\ Hand(f) = {f.active}
           /\ f.active = Daemon => Hand(f) = {} /\ f.pc[f.active] \in DaemonLabels /\ m = <<>>
           /\ f.pc[f.active] = "user" => m = <<>>
<1>1. /\ f \in Frame /\ w \in Nat /\ Stage(f, m)
      /\ MidInv(f, m, Hand(f)) /\ Watched(f, n, l) /\ Executing(f, m, w) /\ Woken(f)
  BY DEF StateInv, MidInv, Executing
<1>2. f.active \in All /\ (f.active # Daemon => f.active \in Users)
  BY <1>1 DEF Frame, All, Users
<1>3. f.active = Daemon => f.pc[f.active] \in DaemonLabels
  BY <1>1 DEF Stage
<1>4. (f.active = Daemon \/ f.pc[f.active] = "user") => m = <<>>
  BY <1>1, <1>3 DEF Executing, DaemonLabels
<1> QED BY <1>1, <1>2, <1>3, <1>4 DEF Hand

\* A thread comes back to its own code.
LEMMA ResumeStep == IInv /\ Resume => IInv'
<1> SUFFICES ASSUME IInv, Resume PROVE IInv'
  OBVIOUS
<1>1. /\ Me # Daemon /\ fr.pc[Me] \in {"start", "sleep", "wait", "pend"}
      /\ fr' = Leave(fr, "user")
      /\ notify' = notify /\ watch' = watch /\ made' = made /\ want' = want
  BY DEF Resume, Leave, Me, epoll, tasks
<1>2. made = <<>>
  BY <1>1 DEF IInv, StateInv, Executing, Me
<1>3. StateInv(Leave(fr, "user"), made, notify, watch, want)
  BY <1>1, <1>2, LeaveStep, RunFacts DEF IInv, Me, Labels
<1> QED BY <1>1, <1>3 DEF IInv

\* epoll_wait returns.
LEMMA DispathStep == IInv /\ EpollDispath => IInv'
<1> SUFFICES ASSUME IInv, EpollDispath PROVE IInv'
  OBVIOUS
<1>1. /\ fr.active = Daemon /\ fr.pc[fr.active] = "poll" /\ fr' = Leave(fr, "event")
      /\ notify' = notify /\ watch' = watch /\ made' = made /\ want' = want
  BY DEF EpollDispath, DaemonAt, Leave, Me, epoll, tasks
<1>3. StateInv(Leave(fr, "event"), made, notify, watch, want)
  BY <1>1, LeaveStep, RunFacts DEF IInv, Labels, DaemonLabels
<1> QED BY <1>1, <1>3 DEF IInv

\* No timeout is due any more.
LEMMA WakeupDoneStep == IInv /\ WakeupDone => IInv'
<1> SUFFICES ASSUME IInv, WakeupDone PROVE IInv'
  OBVIOUS
<1>1. /\ fr.active = Daemon /\ fr.pc[fr.active] = "wakeup" /\ fr' = Leave(fr, "expired")
      /\ notify' = notify /\ watch' = watch /\ made' = made /\ want' = want
  BY DEF WakeupDone, DaemonAt, Leave, Me, epoll, tasks
<1>3. StateInv(Leave(fr, "expired"), made, notify, watch, want)
  BY <1>1, LeaveStep, RunFacts DEF IInv, Labels, DaemonLabels
<1> QED BY <1>1, <1>3 DEF IInv

\* mt_exec_all_task begins.
LEMMA ExecAllTaskStep == ASSUME NEW k \in 1..MaxTasks PROVE IInv /\ ExecAllTask(k) => IInv'
<1> SUFFICES ASSUME IInv, ExecAllTask(k) PROVE IInv'
  OBVIOUS
<1>1. /\ fr.active # Daemon /\ fr.pc[fr.active] = "user" /\ fr' = Leave(fr, "create")
      /\ notify' = notify /\ watch' = watch /\ made' = made /\ want' = k
      /\ k \in Nat /\ k >= 1
  BY FrameAssumption DEF ExecAllTask, User, Leave, Me, epoll
<1>3. StateInv(Leave(fr, "create"), made, notify, watch, k)
  BY <1>1, LeaveStep, RunFacts DEF IInv, Labels
<1> QED BY <1>1, <1>3 DEF IInv

\* AllocThread has returned NULL to mt_exec_all_task.
LEMMA CreateFailsStep == IInv /\ ExecCreateFails => IInv'
<1> SUFFICES ASSUME IInv, ExecCreateFails PROVE IInv'
  OBVIOUS
<1>1. /\ fr.active # Daemon /\ fr.pc[fr.active] = "create" /\ fr' = Leave(fr, "undo")
      /\ notify' = notify /\ watch' = watch /\ made' = made /\ want' = want
  BY DEF ExecCreateFails, Leave, Me, epoll, tasks
<1>3. StateInv(Leave(fr, "undo"), made, notify, watch, want)
  BY <1>1, LeaveStep, RunFacts DEF IInv, Labels
<1> QED BY <1>1, <1>3 DEF IInv

\* All tasks have a thread: there is at least one.
LEMMA ExecStartStep == IInv /\ ExecStart => IInv'
<1> SUFFICES ASSUME IInv, ExecStart PROVE IInv'
  OBVIOUS
<1>1. /\ fr.active # Daemon /\ fr.pc[fr.active] = "create" /\ fr' = Leave(fr, "start_subs")
      /\ notify' = notify /\ watch' = watch /\ made' = made /\ want' = want
      /\ Len(made) = want
  BY DEF ExecStart, Leave, Me, epoll, tasks
<1>2. made # <<>>
  <2>1. want >= 1 /\ want \in Nat
    BY <1>1 DEF IInv, StateInv, Executing
  <2> QED BY <1>1, <2>1
<1>3. StateInv(Leave(fr, "start_subs"), made, notify, watch, want)
  BY <1>1, <1>2, LeaveStep, RunFacts DEF IInv, Labels
<1> QED BY <1>1, <1>3 DEF IInv

\* The active thread sleeps at p and the scheduler runs.
LEMMA SleepStep ==
    ASSUME NEW g, NEW p \in {"sleep", "wait", "epoll"}, NEW io \in BOOLEAN,
           IInv, User, Slept(fr, g, fr.active, p, io), Watched(g, notify', watch')
    PROVE  StateInv(ThreadSchdule(g), made, notify', watch', want)
<1>1. /\ fr \in Frame /\ fr.active \in Users /\ MidInv(fr, made, {fr.active})
      /\ made = <<>> /\ want \in Nat /\ fr.pc[fr.active] = "user"
  <2>1. fr.active # Daemon /\ fr.pc[fr.active] = "user" /\ StateInv(fr, made, notify, watch, want)
    BY DEF User, Me, IInv
  <2>2. /\ fr \in Frame /\ fr.active \in Users /\ MidInv(fr, made, Hand(fr))
        /\ Hand(fr) = {fr.active} /\ made = <<>> /\ want \in Nat
    BY <2>1, RunFacts
  <2> QED BY <2>1, <2>2
<1>2. MidInv(g, made, {}) /\ g.pc[g.active] = p
  BY <1>1, SleptInv
<1> QED BY <1>1, <1>2, SwitchStep

\* The objects of the other threads stay.
LEMMA SleepWatched ==
    ASSUME NEW g, NEW p, NEW io, IInv, User, Slept(fr, g, fr.active, p, io)
    PROVE  Watched(g, notify, watch)
<1>1. /\ fr \in Frame /\ fr.active \in All /\ Watched(fr, notify, watch)
      /\ fr.pc[fr.active] = "user"
  BY RunFacts DEF IInv, User, Me
<1>2. \A u \in All \ {fr.active} : g.pc[u] = fr.pc[u] /\ g.fdset[u] = fr.fdset[u]
  BY <1>1 DEF Slept, Frame
<1> QED BY <1>1, <1>2, WatchedKept

\* mt_sleep keeps the invariant.
LEMMA SleepKeeps == ASSUME NEW ms \in Times PROVE IInv /\ Sleep(ms) => IInv'
<1> SUFFICES ASSUME IInv, Sleep(ms) PROVE IInv'
  OBVIOUS
<1> DEFINE g == Leave(InsertSleep(SetLeft(fr, ms), fr.active), "sleep")
<1>1. /\ User /\ fr' = ThreadSchdule(g)
      /\ notify' = notify /\ watch' = watch /\ made' = made /\ want' = want
  BY DEF Sleep, SwitchContext, SetLeft, Leave, Me, epoll, tasks
<1>2. Slept(fr, g, fr.active, "sleep", FALSE)
  <2>1. fr \in Frame /\ fr.active \in Users
    BY <1>1, RunFacts DEF IInv, User, Me
  <2> QED BY <2>1, SleepFields
<1> HIDE DEF g
<1>3. Watched(g, notify, watch)
  BY <1>1, <1>2, SleepWatched
<1> QED BY <1>1, <1>2, <1>3, SleepStep DEF IInv

\* WaitNotify keeps the invariant.
LEMMA WaitKeeps == ASSUME NEW ms \in Times PROVE IInv /\ WaitNotify(ms) => IInv'
<1> SUFFICES ASSUME IInv, WaitNotify(ms) PROVE IInv'
  OBVIOUS
<1> DEFINE g == Leave(InsertIoWait(SetLeft(fr, ms), fr.active), "wait")
<1>1. /\ User /\ fr' = ThreadSchdule(g)
      /\ notify' = notify /\ watch' = watch /\ made' = made /\ want' = want
  BY DEF WaitNotify, SwitchContext, SetLeft, Leave, Me, epoll, tasks
<1>2. Slept(fr, g, fr.active, "wait", TRUE)
  <2>1. fr \in Frame /\ fr.active \in Users
    BY <1>1, RunFacts DEF IInv, User, Me
  <2> QED BY <2>1, WaitFields
<1> HIDE DEF g
<1>3. Watched(g, notify, watch)
  BY <1>1, <1>2, SleepWatched
<1> QED BY <1>1, <1>2, <1>3, SleepStep DEF IInv

\* EpollSchedule keeps the invariant: its objects are its own.
LEMMA EpollScheduleKeeps ==
    ASSUME NEW ms \in Times, NEW F \in SUBSET Fds
    PROVE  IInv /\ EpollSchedule(F, ms) => IInv'
<1> SUFFICES ASSUME IInv, EpollSchedule(F, ms) PROVE IInv'
  OBVIOUS
<1> DEFINE g == Leave(InsertIoWait(SetWait(fr, ms, F), fr.active), "epoll")
<1>1. /\ User /\ fr' = ThreadSchdule(g)
      /\ notify' = [d \in Fds |-> IF d \in F THEN fr.active ELSE notify[d]]
      /\ watch' = watch \cup (F \ listen) /\ made' = made /\ want' = want
  BY DEF EpollSchedule, SwitchContext, SetWait, Leave, Me, tasks, EpollCtlAdd, EpollCtrlAdd
<1>2. fr \in Frame /\ fr.active \in Users /\ fr.active \in All /\ fr.active # None
  BY <1>1, RunFacts, FrameAssumption DEF IInv, User, Me, Users
<1>3. Slept(fr, g, fr.active, "epoll", TRUE) /\ g.fdset = [fr.fdset EXCEPT ![fr.active] = F]
  BY <1>2, EpollFields
<1> HIDE DEF g
<1>4. Watched(g, notify, watch)
  BY <1>1, <1>3, SleepWatched
<1>5. g.pc[fr.active] = "epoll" /\ g.fdset[fr.active] = F
  BY <1>2, <1>3 DEF Slept, Frame
<1>6. Watched(g, notify', watch')
  BY <1>1, <1>2, <1>4, <1>5 DEF Watched
<1>7. StateInv(ThreadSchdule(g), made, notify', watch', want)
  BY <1>1, <1>3, <1>6, SleepStep
<1> QED BY <1>1, <1>7 DEF IInv

\* A step of the active thread that gives its fields new values and goes on as
\* user code.
LEMMA BackToUser ==
    ASSUME NEW g, IInv, Me # Daemon, fr.pc[Me] \in {"user", "epoll"}, Touched(fr, g, "user"),
           Watched(g, notify', watch')
    PROVE  StateInv(g, made, notify', watch', want)
<1>1. /\ fr \in Frame /\ fr.active \in All /\ MidInv(fr, made, Hand(fr))
      /\ Executing(fr, made, want) /\ fr.active # Daemon
  BY RunFacts DEF IInv, Me
<1>2. MidInv(g, made, Hand(g))
  BY <1>1, TouchedInv DEF Labels, Me
<1>3. g.pc[g.active] = "user"
  BY <1>1 DEF Touched, Frame
<1>4. Executing(g, made, want) /\ Woken(g)
  BY <1>1, <1>3 DEF Executing, Woken, Me
<1> QED BY <1>2, <1>4 DEF StateInv

\* A failed EpollAdd takes off what epoll watches; an object that it cannot take off
\* is not watched.
LEMMA AddFailsKeeps ==
    ASSUME NEW G \in SUBSET Fds PROVE IInv /\ EpollAddFails(G) => IInv'
<1> SUFFICES ASSUME IInv, EpollAddFails(G) PROVE IInv'
  OBVIOUS
<1>1. PICK S \in DelFails(G) :
         /\ Me # Daemon /\ fr' = fr /\ made' = made /\ want' = want
         /\ notify' = [f \in Fds |-> IF f \in S THEN Me ELSE IF f \in G THEN None ELSE notify[f]]
         /\ watch' = watch \ G
  BY DEF EpollAddFails, User, tasks, EpollCtlDel, EpollCtrlDelRef
<1>2. /\ fr \in Frame /\ MidInv(fr, made, Hand(fr)) /\ Watched(fr, notify, watch)
      /\ Executing(fr, made, want) /\ Woken(fr) /\ Me \in Users
  BY <1>1, RunFacts DEF IInv, Me
<1>3. S \subseteq G
  BY DEF DelFails
<1>4. Watched(fr, notify', watch')
  BY <1>1, <1>2, <1>3 DEF Watched
<1> QED BY <1>1, <1>2, <1>4 DEF IInv, StateInv

\* The way back from EpollSchedule, in terms of the active thread.
GoBack(f) == [f EXCEPT !.pc[f.active] = "user", !.rcv[f.active] = {}, !.fdset[f.active] = {}]

\* On the way back from EpollSchedule epoll watches no fd of the thread any more.
LEMMA EpollBackKeeps == IInv /\ EpollBack => IInv'
<1> SUFFICES ASSUME IInv, EpollBack PROVE IInv'
  OBVIOUS
<1> DEFINE mine == {d \in fr.fdset[Me] : notify[d] = Me}
<1>1. PICK S \in DelFails(mine) :
         /\ Me # Daemon /\ fr.pc[Me] = "epoll" /\ fr' = GoBack(fr)
         /\ notify' = [f \in Fds |-> IF f \in S THEN Me ELSE IF f \in mine THEN None ELSE notify[f]]
         /\ watch' = watch \ mine /\ made' = made /\ want' = want
  BY DEF EpollBack, GoBack, Me, tasks, EpollCtlDel, EpollCtrlDelRef
<1>2. fr \in Frame /\ fr.active \in All /\ Watched(fr, notify, watch) /\ Me \in Users
  BY <1>1, RunFacts DEF IInv, Me
<1>0. S \subseteq mine
  BY DEF DelFails
<1>3. /\ fr' \in Frame /\ fr'.active = fr.active /\ SameLists(fr, fr') /\ SameFamily(fr, fr')
      /\ SamePool(fr, fr') /\ fr'.pc = [fr.pc EXCEPT ![fr.active] = "user"]
      /\ fr'.left = fr.left
      /\ \A u \in All \ {fr.active} : fr'.rcv[u] = fr.rcv[u] /\ fr'.fdset[u] = fr.fdset[u]
  BY <1>1, <1>2 DEF GoBack, Frame, SameLists, SameFamily, SamePool, Labels
<1>4. Touched(fr, fr', "user")
  BY <1>3 DEF Touched
<1>5. \A u \in All \ {fr.active} : fr'.pc[u] = fr.pc[u]
  BY <1>2, <1>3 DEF Frame
<1>6. ASSUME NEW d \in watch'
      PROVE  notify'[d] # None /\ fr'.pc[notify'[d]] = "epoll" /\ d \in fr'.fdset[notify'[d]]
  <2>1. d \in watch /\ d \notin mine /\ d \notin S /\ d \in Fds
    BY <1>0, <1>1, <1>2 DEF Watched
  <2>2. /\ fr.pc[notify[d]] = "epoll" /\ d \in fr.fdset[notify[d]] /\ notify[d] # None
        /\ notify[d] \in Users /\ notify'[d] = notify[d]
    BY <1>1, <1>2, <2>1 DEF Watched
  <2>3. notify[d] # fr.active
    BY <2>1, <2>2 DEF Me
  <2> QED BY <1>3, <1>5, <2>2, <2>3 DEF All, Users
<1>7. Watched(fr', notify', watch')
  <2>1. notify' \in [Fds -> Users \cup {None}] /\ watch' \subseteq Fds
    BY <1>1, <1>2 DEF Watched
  <2> QED BY <1>6, <2>1 DEF Watched
<1>8. StateInv(fr', made, notify', watch', want)
  BY <1>1, <1>4, <1>7, BackToUser
<1> QED BY <1>1, <1>8 DEF IInv

\* socket and close take nothing from the threads but what epoll watches.
LEMMA FdsKeep == ASSUME NEW f \in Fds PROVE IInv /\ (Socket(f) \/ Close(f)) => IInv'
<1> SUFFICES ASSUME IInv, Socket(f) \/ Close(f) PROVE IInv'
  OBVIOUS
<1>1. /\ fr' = fr /\ made' = made /\ want' = want /\ notify' = notify
      /\ watch' \subseteq watch
  BY DEF Socket, Close, tasks
<1>2. Watched(fr, notify, watch')
  BY <1>1 DEF IInv, StateInv, Watched
<1> QED BY <1>1, <1>2 DEF IInv, StateInv

\* CreateThread takes a thread from the pool and makes it runnable.
LEMMA CreateKeeps == ASSUME NEW x \in Threads PROVE IInv /\ CreateThread(x) => IInv'
<1> SUFFICES ASSUME IInv, CreateThread(x) PROVE IInv'
  OBVIOUS
<1> DEFINE g == AllocThread(fr, x)
           h == InsertRunable(g, x)
<1>1. /\ fr.active # Daemon /\ fr.pc[fr.active] = "user" /\ MayAlloc(fr, x) /\ fr' = h
      /\ notify' = notify /\ watch' = watch /\ made' = made /\ want' = want
  BY DEF CreateThread, User, Me, epoll, tasks
<1>2. /\ fr \in Frame /\ Watched(fr, notify, watch) /\ MidInv(fr, made, Hand(fr))
      /\ Hand(fr) = {fr.active} /\ made = <<>> /\ want \in Nat
  BY <1>1, RunFacts DEF IInv
<1>3. fr.pc[x] = "start" /\ x \in All
  BY <1>1, <1>2, MayAllocFacts DEF All
<1>4. /\ MidInv(g, made, {fr.active} \cup {x}) /\ Taken(fr, g, x) /\ x # fr.active
  BY <1>1, <1>2, AllocInv
<1>5. /\ g.active = fr.active /\ g.pc = fr.pc
      /\ \A u \in All \ {x} : g.fdset[u] = fr.fdset[u]
  BY <1>4 DEF Taken
<1> HIDE DEF g
<1>6. /\ MidInv(h, made, ({fr.active} \cup {x}) \ {x}) /\ h.active = g.active /\ h.pc = g.pc
      /\ SameFamily(g, h) /\ SameWait(g, h)
  BY <1>3, <1>4, <1>5, RunInv
<1> HIDE DEF h
<1>7. MidInv(h, made, Hand(h))
  <2>1. Hand(h) = ({fr.active} \cup {x}) \ {x}
    BY <1>1, <1>4, <1>5, <1>6 DEF Hand
  <2> QED BY <1>6, <2>1
<1>8. Watched(h, notify, watch)
  BY <1>2, <1>3, <1>5, <1>6, WatchedKept DEF SameWait
<1>9. Executing(h, made, want) /\ Woken(h)
  BY <1>1, <1>2, <1>5, <1>6 DEF Executing, Woken
<1> QED BY <1>1, <1>7, <1>8, <1>9 DEF IInv, StateInv

\* A thread that is not at its start is alive.
LEMMA BegunAlive ==
    ASSUME NEW f, NEW m, NEW H, MidInv(f, m, H), NEW t \in Users, f.pc[t] # "start"
    PROVE  t \in Alive(f)
<1>1. Stage(f, m)
  BY DEF MidInv
<1>2. t = Primo \/ t \in f.live
  BY <1>1 DEF Stage, Users
<1> QED BY <1>2, FrameAssumption DEF Alive, Users

\* NotifyThread wakes a thread at most once.
LEMMA NotifyKeeps == ASSUME NEW t \in Users PROVE IInv /\ NotifyThread(t) => IInv'
<1> SUFFICES ASSUME IInv, NotifyThread(t) PROVE IInv'
  OBVIOUS
<1> DEFINE g == WakeIo(fr, t)
<1>1. /\ fr.pc[t] = "wait" /\ fr' = g
      /\ notify' = notify /\ watch' = watch /\ made' = made /\ want' = want
  BY DEF NotifyThread, epoll, tasks
<1>2. /\ fr \in Frame /\ Watched(fr, notify, watch) /\ MidInv(fr, made, Hand(fr))
      /\ Executing(fr, made, want) /\ Woken(fr)
  BY RunFacts DEF IInv
<1>3. t \in Alive(fr)
  BY <1>1, <1>2, BegunAlive
<1>4. /\ MidInv(g, made, Hand(fr)) /\ g.active = fr.active /\ g.pc = fr.pc
      /\ SameFamily(fr, g) /\ SameWait(fr, g)
  BY <1>1, <1>2, <1>3, WakeIoInv
<1> HIDE DEF g
<1>5. MidInv(g, made, Hand(g))
  <2>1. Hand(g) = Hand(fr)
    BY <1>4 DEF Hand
  <2> QED BY <1>4, <2>1
<1>6. Watched(g, notify, watch) /\ Executing(g, made, want) /\ Woken(g)
  BY <1>2, <1>4 DEF Watched, Executing, Woken, SameWait, SameFamily
<1> QED BY <1>1, <1>5, <1>6 DEF IInv, StateInv

\* A thread that ends tells its parent and goes back to the pool.
LEMMA ExitKeeps == IInv /\ Exit => IInv'
<1> SUFFICES ASSUME IInv, Exit PROVE IInv'
  OBVIOUS
<1> DEFINE t == fr.active
           g == IF fr.type[t] = "SUB_THREAD" THEN WakeupParent(fr, t) ELSE fr
           h == FreeThread(g, t)
<1>1. /\ t # Daemon /\ fr.pc[t] = "user" /\ t \in Threads /\ fr' = ThreadSchdule(h)
      /\ notify' = notify /\ watch' = watch /\ made' = made /\ want' = want
  BY DEF Exit, User, Me, epoll, tasks
<1>2. /\ fr \in Frame /\ Watched(fr, notify, watch) /\ MidInv(fr, made, Hand(fr))
      /\ t \in All /\ Hand(fr) = {t} /\ made = <<>> /\ want \in Nat
  BY <1>1, RunFacts DEF IInv
<1>3. /\ MidInv(g, made, Hand(g)) /\ g.active = t /\ g.pc = fr.pc
      /\ SameWait(fr, g) /\ g.parent[t] = None /\ g.sub[t] = {}
  <2>1. CASE fr.type[t] = "SUB_THREAD"
    <3> DEFINE q == WakeupParent(fr, t)
    <3>1. /\ MidInv(q, made, Hand(q)) /\ q.active = t /\ q.pc = fr.pc
          /\ SameWait(fr, q) /\ q.parent[t] = None /\ q.sub[t] = {}
      BY <1>1, <1>2, WakeupParentInv
    <3>2. g = q
      BY <2>1
    <3> QED BY <3>1, <3>2
  <2>2. CASE fr.type[t] # "SUB_THREAD"
    <3>1. Family(fr, made) /\ Placed(fr, made, Hand(fr))
      BY <1>2 DEF MidInv
    <3>2. t \notin fr.pendlist
      BY <1>2, <3>1 DEF Placed
    <3>3. fr.parent[t] = None /\ fr.sub[t] = {}
      BY <1>1, <1>2, <2>2, <3>1, <3>2 DEF Family
    <3>4. g = fr
      BY <2>2
    <3> QED BY <1>2, <3>3, <3>4 DEF SameWait
  <2> QED BY <2>1, <2>2
<1> HIDE DEF g
<1>4. /\ MidInv(h, made, Hand(g) \ {t}) /\ h.active = g.active /\ h.pc[t] = "start"
      /\ \A u \in All \ {t} : h.pc[u] = g.pc[u] /\ h.fdset[u] = g.fdset[u]
  <2>1. t \in Hand(g)
    BY <1>1, <1>3 DEF Hand
  <2> QED BY <1>1, <1>3, <2>1, FreeInv
<1> HIDE DEF h
<1>5. Hand(g) \ {t} = {}
  BY <1>3 DEF Hand
<1>6. Watched(h, notify, watch)
  <2>1. \A u \in All \ {t} : h.pc[u] = fr.pc[u] /\ h.fdset[u] = fr.fdset[u]
    BY <1>3, <1>4 DEF SameWait
  <2>2. fr.pc[t] # "epoll"
    BY <1>1
  <2> HIDE DEF t
  <2> QED BY <1>2, <2>1, <2>2, WatchedKept
<1>7. h.pc[h.active] # "start_subs" /\ MidInv(h, made, {})
  BY <1>3, <1>4, <1>5
<1>8. StateInv(ThreadSchdule(h), made, notify, watch, want)
  BY <1>2, <1>6, <1>7, SwitchStep
<1> QED BY <1>1, <1>8 DEF IInv

\* A task of mt_exec_all_task gets a thread.
LEMMA ExecCreateKeeps == ASSUME NEW x \in Threads PROVE IInv /\ ExecCreate(x) => IInv'
<1> SUFFICES ASSUME IInv, ExecCreate(x) PROVE IInv'
  OBVIOUS
<1> DEFINE g == AllocThread(fr, x)
           h == MakeSub(g, x)
<1>1. /\ fr.active # Daemon /\ fr.pc[fr.active] = "create" /\ MayAlloc(fr, x) /\ fr' = h
      /\ notify' = notify /\ watch' = watch /\ made' = Append(made, x) /\ want' = want
  BY DEF ExecCreate, MakeSub, Me, epoll
<1>2. /\ fr \in Frame /\ Watched(fr, notify, watch) /\ MidInv(fr, made, Hand(fr))
      /\ Hand(fr) = {fr.active} /\ Executing(fr, made, want)
  BY <1>1, RunFacts DEF IInv
<1>3. fr.pc[x] = "start" /\ x \in All /\ fr.parent[x] = None
  BY <1>1, <1>2, MayAllocFacts DEF All
<1>4. /\ MidInv(g, made, {fr.active} \cup {x}) /\ Taken(fr, g, x) /\ x \notin {fr.active}
  BY <1>1, <1>2, AllocInv
<1>5. /\ g.active = fr.active /\ g.pc = fr.pc /\ g.parent = fr.parent
      /\ \A u \in All \ {x} : g.fdset[u] = fr.fdset[u]
  BY <1>4 DEF Taken
<1> HIDE DEF g
<1>6. MidInv(h, Append(made, x), {fr.active}) /\ SameButFamily(g, h) /\ h.sub = g.sub
  BY <1>3, <1>4, <1>5, MadeIn
<1> HIDE DEF h
<1>7. MidInv(h, Append(made, x), Hand(h))
  <2>1. Hand(h) = {fr.active}
    BY <1>1, <1>5, <1>6 DEF Hand, SameButFamily
  <2> QED BY <1>6, <2>1
<1>8. Watched(h, notify, watch)
  BY <1>2, <1>3, <1>5, <1>6, WatchedKept DEF SameButFamily, SameWait
<1>9. Executing(h, Append(made, x), want) /\ Woken(h)
  BY <1>1, <1>2, <1>5, <1>6 DEF Executing, Woken, SameButFamily
<1> QED BY <1>1, <1>7, <1>8, <1>9 DEF IInv, StateInv

\* A sub thread is started.
LEMMA AddSubKeeps == IInv /\ ExecAddSub => IInv'
<1> SUFFICES ASSUME IInv, ExecAddSub PROVE IInv'
  OBVIOUS
<1> DEFINE s == Head(made)
           g == AddSubThread(fr, fr.active, s)
           h == InsertRunable(g, s)
           m == Tail(made)
<1>1. /\ fr.active # Daemon /\ fr.pc[fr.active] = "start_subs" /\ made # <<>> /\ fr' = h
      /\ notify' = notify /\ watch' = watch /\ made' = m /\ want' = want
  BY DEF ExecAddSub, Me, epoll
<1>2. /\ fr \in Frame /\ Watched(fr, notify, watch) /\ MidInv(fr, made, Hand(fr))
      /\ Hand(fr) = {fr.active} /\ fr.active \in Users /\ want \in Nat
  BY <1>1, RunFacts DEF IInv
<1>3. /\ MidInv(fr, m, {fr.active} \cup {s}) /\ s \notin {fr.active} /\ s \in Threads
      /\ fr.pc[s] = "start" /\ fr.parent[s] = None /\ fr.type[s] = "SUB_THREAD"
  BY <1>1, <1>2, MadeOut
<1> HIDE DEF s, m
<1>4. /\ MidInv(g, m, {fr.active} \cup {s}) /\ SameButFamily(fr, g) /\ s \in g.sub[fr.active]
  <2>1. s \in {fr.active} \cup {s} /\ s # fr.active
    BY <1>3
  <2> QED BY <1>1, <1>2, <1>3, <2>1, AddSubInv
<1> HIDE DEF g
<1>5. g.active = fr.active /\ g.pc = fr.pc /\ SameWait(fr, g)
  BY <1>4 DEF SameButFamily
<1>6. /\ MidInv(h, m, ({fr.active} \cup {s}) \ {s}) /\ h.active = g.active /\ h.pc = g.pc
      /\ SameFamily(g, h) /\ SameWait(g, h)
  BY <1>3, <1>4, <1>5, RunInv
<1> HIDE DEF h
<1>7. MidInv(h, m, Hand(h))
  <2>1. Hand(h) = ({fr.active} \cup {s}) \ {s}
    BY <1>1, <1>3, <1>5, <1>6 DEF Hand
  <2> QED BY <1>6, <2>1
<1>8. Watched(h, notify, watch)
  BY <1>2, <1>5, <1>6 DEF Watched, SameWait
<1>9. Executing(h, m, want) /\ Woken(h)
  BY <1>1, <1>2, <1>4, <1>5, <1>6 DEF Executing, Woken, SameFamily
<1> QED BY <1>1, <1>7, <1>8, <1>9 DEF IInv, StateInv

\* A thread parks only when it has a sub thread.
LEMMA ExecWaitKeeps == IInv /\ ExecWait => IInv'
<1> SUFFICES ASSUME IInv, ExecWait PROVE IInv'
  OBVIOUS
<1> DEFINE g == Leave(InsertPend(fr, fr.active), "pend")
<1>1. /\ fr.active # Daemon /\ fr.pc[fr.active] = "start_subs" /\ made = <<>>
      /\ fr' = ThreadSchdule(g)
      /\ notify' = notify /\ watch' = watch /\ made' = made /\ want' = 0
  BY DEF ExecWait, SwitchContext, Leave, Me, epoll
<1>2. /\ fr \in Frame /\ Watched(fr, notify, watch) /\ MidInv(fr, made, Hand(fr))
      /\ fr.active \in Users /\ fr.active \in All /\ Executing(fr, made, want)
  BY <1>1, RunFacts DEF IInv
<1>3. fr.sub[fr.active] # {}
  BY <1>1, <1>2 DEF Executing
<1>4. /\ MidInv(g, made, {}) /\ g.active = fr.active /\ g.pc[fr.active] = "pend"
      /\ SameWait(fr, g) /\ \A u \in All \ {fr.active} : g.pc[u] = fr.pc[u]
  BY <1>2, <1>3, PendInv
<1> HIDE DEF g
<1>5. Watched(g, notify, watch)
  <2>1. \A u \in All \ {fr.active} : g.pc[u] = fr.pc[u] /\ g.fdset[u] = fr.fdset[u]
    BY <1>4 DEF SameWait
  <2>2. fr.pc[fr.active] # "epoll"
    BY <1>1
  <2> QED BY <1>2, <2>1, <2>2, WatchedKept
<1>6. StateInv(ThreadSchdule(g), made, notify, watch, 0)
  BY <1>1, <1>4, <1>5, SwitchStep
<1> QED BY <1>1, <1>6 DEF IInv

\* When a thread is missing, those made so far go back to the pool.
LEMMA UndoKeeps == IInv /\ ExecUndo => IInv'
<1> SUFFICES ASSUME IInv, ExecUndo PROVE IInv'
  OBVIOUS
<1>0. /\ fr.active # Daemon /\ fr.pc[fr.active] = "undo"
      /\ notify' = notify /\ watch' = watch
  BY DEF ExecUndo, Me, epoll
<1>1. CASE made = <<>>
  <2>1. fr' = Leave(fr, "user") /\ want' = 0 /\ made' = made
    BY <1>1 DEF ExecUndo, Leave, Me
  <2>2. StateInv(Leave(fr, "user"), made, notify, watch, 0)
    BY <1>0, <1>1, LeaveStep DEF IInv, Labels
  <2> QED BY <1>0, <2>1, <2>2 DEF IInv
<1>2. CASE made # <<>>
  <2> DEFINE s == Head(made)
             g == FreeThread(fr, s)
             m == Tail(made)
  <2>1. fr' = g /\ want' = want /\ made' = m
    BY <1>2 DEF ExecUndo
  <2>2. /\ fr \in Frame /\ Watched(fr, notify, watch) /\ MidInv(fr, made, Hand(fr))
        /\ Hand(fr) = {fr.active} /\ fr.active \in All /\ Executing(fr, made, want)
    BY <1>0, RunFacts DEF IInv
  <2>3. /\ MidInv(fr, m, {fr.active} \cup {s}) /\ s \notin {fr.active} /\ s \in Threads
        /\ fr.pc[s] = "start" /\ fr.parent[s] = None /\ fr.sub[s] = {}
    BY <1>2, <2>2, MadeOut
  <2> HIDE DEF s, m
  <2>4. /\ MidInv(g, m, ({fr.active} \cup {s}) \ {s}) /\ g.active = fr.active
        /\ g.sub = fr.sub
        /\ \A u \in All \ {s} : g.pc[u] = fr.pc[u] /\ g.fdset[u] = fr.fdset[u]
    BY <2>3, FreeInv
  <2> HIDE DEF g
  <2>5. MidInv(g, m, Hand(g))
    <3>1. Hand(g) = ({fr.active} \cup {s}) \ {s}
      BY <1>0, <2>3, <2>4 DEF Hand
    <3> QED BY <2>4, <3>1
  <2>6. Watched(g, notify, watch)
    <3>1. fr.pc[s] # "epoll" /\ s \in All
      BY <2>3 DEF All
    <3> QED BY <2>2, <2>4, <3>1, WatchedKept
  <2>7. g.pc[g.active] = "undo"
    BY <1>0, <2>2, <2>3, <2>4
  <2>8. Executing(g, m, want) /\ Woken(g)
    BY <2>2, <2>7 DEF Executing, Woken
  <2> QED BY <1>0, <2>1, <2>5, <2>6, <2>8 DEF IInv, StateInv
<1> QED BY <1>1, <1>2

\* An event is noted in the object of the thread.
SetRcv(f, t, d) == [f EXCEPT !.rcv[t] = @ \cup {d}]

\* An event is noted, then its thread is woken if it still waits.
LEMMA RcvEventKeeps ==
    ASSUME NEW d \in Fds PROVE IInv /\ Registered /\ EpollRcvEvent(d) => IInv'
<1> SUFFICES ASSUME IInv, Registered, EpollRcvEvent(d) PROVE IInv'
  OBVIOUS
<1>0. /\ fr.active = Daemon /\ fr.pc[fr.active] = "event" /\ made' = made /\ want' = want
      /\ notify' = notify /\ watch' \subseteq watch /\ d \in watch
  BY DEF EpollRcvEvent, Unwatch, DaemonAt, Me, tasks, Registered
<1>1. /\ fr \in Frame /\ Watched(fr, notify, watch) /\ MidInv(fr, made, Hand(fr))
      /\ Executing(fr, made, want) /\ Woken(fr) /\ fr.active \in All
  BY RunFacts DEF IInv
<1>2. ASSUME NEW g, MidInv(g, made, Hand(fr)), g.active = fr.active, g.pc = fr.pc,
             SameFamily(fr, g), g.fdset = fr.fdset, fr' = g
      PROVE  IInv'
  <2>1. MidInv(g, made, Hand(g))
    <3>1. Hand(g) = Hand(fr)
      BY <1>2 DEF Hand
    <3> QED BY <1>2, <3>1
  <2>2. Watched(g, notify', watch')
    BY <1>0, <1>1, <1>2 DEF Watched
  <2>3. Executing(g, made', want') /\ Woken(g)
    BY <1>0, <1>1, <1>2 DEF Executing, Woken, SameFamily
  <2> QED BY <1>0, <1>2, <2>1, <2>2, <2>3 DEF IInv, StateInv
<1>3. CASE notify[d] = None
  <2>1. fr' = fr
    BY <1>3 DEF EpollRcvEvent
  <2> QED BY <1>1, <1>2, <2>1 DEF SameFamily
<1>4. CASE notify[d] # None
  <2> DEFINE t == notify[d]
             g == SetRcv(fr, t, d)
  <2>1. t \in Users /\ fr.pc[t] = "epoll" /\ t \in All
    BY <1>0, <1>1 DEF Watched, All, Users
  <2>2. fr' = g \/ fr' = WakeIo(g, t)
    BY <1>4 DEF EpollRcvEvent, SetRcv
  <2> HIDE DEF t
  <2>3. /\ g \in Frame /\ g.active = fr.active /\ SameLists(fr, g) /\ SameFamily(fr, g)
        /\ SamePool(fr, g) /\ g.pc = fr.pc /\ g.left = fr.left /\ g.fdset = fr.fdset
        /\ g.rcv = [fr.rcv EXCEPT ![t] = @ \cup {d}]
    BY <1>1, <2>1 DEF Frame, SetRcv, SameLists, SameFamily, SamePool
  <2> HIDE DEF g
  <2>4. g.rcv[t] # {} /\ \A u \in All \ {t} : g.rcv[u] = fr.rcv[u]
    <3>1. fr.rcv \in [All -> SUBSET Fds]
      BY <1>1 DEF Frame
    <3>2. g.rcv[t] = fr.rcv[t] \cup {d}
      BY <2>1, <2>3, <3>1
    <3> QED BY <2>3, <3>1, <3>2
  <2>5. Touched(fr, g, "event")
    <3>1. fr.pc = [fr.pc EXCEPT ![fr.active] = "event"]
      BY <1>0, <1>1 DEF Frame
    <3> QED BY <2>3, <2>4, <3>1 DEF Touched
  <2>6. MidInv(g, made, Hand(g)) /\ Hand(g) = Hand(fr)
    BY <1>0, <1>1, <2>3, <2>5, TouchedInv DEF Labels, DaemonLabels, Hand
  <2>7. CASE fr' = g
    BY <1>2, <2>3, <2>6, <2>7
  <2>8. CASE fr' = WakeIo(g, t)
    <3> DEFINE h == WakeIo(g, t)
    <3>1. t \in Alive(g)
      BY <2>1, <2>3, <2>6, BegunAlive
    <3>2. /\ MidInv(h, made, Hand(g)) /\ h.active = g.active /\ h.pc = g.pc
          /\ SameFamily(g, h) /\ SameWait(g, h)
      BY <2>4, <2>6, <3>1, WakeIoInv
    <3> HIDE DEF h
    <3>3. SameFamily(fr, h) /\ h.fdset = fr.fdset /\ h.pc = fr.pc /\ h.active = fr.active
      BY <2>3, <3>2 DEF SameFamily, SameWait
    <3>4. fr' = h
      BY <2>8 DEF h
    <3> QED BY <1>2, <2>6, <3>2, <3>3, <3>4
  <2> QED BY <2>2, <2>7, <2>8
<1> QED BY <1>3, <1>4

\* Time has passed and the daemon goes on.
SetClock(f, d) == [f EXCEPT !.left = [t \in All |-> IF f.left[t] > d THEN f.left[t] - d ELSE 0],
                            !.pc[Daemon] = "wakeup"]

\* The clock only brings timeouts nearer.
LEMMA ClockKeeps == ASSUME NEW d \in Times PROVE IInv /\ SetLastClock(d) => IInv'
<1> SUFFICES ASSUME IInv, SetLastClock(d) PROVE IInv'
  OBVIOUS
<1>0. /\ fr.active = Daemon /\ fr.pc[fr.active] = "event" /\ made' = made /\ want' = want
      /\ notify' = notify /\ watch' = watch /\ fr' = SetClock(fr, d)
  BY DEF SetLastClock, DaemonAt, Me, tasks, epoll, SetClock, Passed
<1>1. /\ fr \in Frame /\ Watched(fr, notify, watch) /\ MidInv(fr, made, Hand(fr))
      /\ fr.active \in All /\ made = <<>> /\ want \in Nat
  BY <1>0, RunFacts DEF IInv
<1> DEFINE L == [t \in All |-> IF fr.left[t] > d THEN fr.left[t] - d ELSE 0]
<1>2. L \in [All -> Times] /\ \A u \in All : fr.left[u] = 0 => L[u] = 0
  <2>1. fr.left \in [All -> Times]
    BY <1>1 DEF Frame
  <2>2. d \in Nat /\ MaxTimeout \in Nat
    BY FrameAssumption DEF Times
  <2> QED BY <2>1, <2>2 DEF Times
<1>3. fr' = [fr EXCEPT !.left = L, !.pc[Daemon] = "wakeup"]
  BY <1>0 DEF SetClock
<1> HIDE DEF L
<1>4. /\ fr' \in Frame /\ fr'.active = fr.active /\ SameLists(fr, fr') /\ SameFamily(fr, fr')
      /\ SamePool(fr, fr') /\ fr'.pc = [fr.pc EXCEPT ![fr.active] = "wakeup"]
      /\ fr'.left = L /\ fr'.fdset = fr.fdset /\ fr'.rcv = fr.rcv
  <2>1. fr' = [fr EXCEPT !.left = L, !.pc[fr.active] = "wakeup"]
    BY <1>0, <1>3
  <2>2. "wakeup" \in Labels /\ L \in [All -> Times]
    BY <1>2 DEF Labels, DaemonLabels
  <2> QED BY <1>1, <2>1, <2>2 DEF Frame, SameLists, SameFamily, SamePool
<1>5. Touched(fr, fr', "wakeup")
  BY <1>2, <1>4 DEF Touched
<1>6. MidInv(fr', made, Hand(fr'))
  BY <1>0, <1>1, <1>5, TouchedInv DEF Labels, DaemonLabels
<1>7. fr'.pc[fr'.active] = "wakeup" /\ \A u \in All \ {fr.active} : fr'.pc[u] = fr.pc[u]
  BY <1>1, <1>4 DEF Frame
<1>8. Watched(fr', notify, watch)
  <2>1. fr.pc[fr.active] # "epoll"
    BY <1>0
  <2>2. \A u \in All \ {fr.active} : fr'.pc[u] = fr.pc[u] /\ fr'.fdset[u] = fr.fdset[u]
    BY <1>4, <1>7
  <2> QED BY <1>1, <2>1, <2>2, WatchedKept
<1>9. Executing(fr', made, want) /\ Woken(fr')
  BY <1>1, <1>7 DEF Executing, Woken
<1> QED BY <1>0, <1>6, <1>8, <1>9 DEF IInv, StateInv

\* A timeout wakes a thread out of the heap and, if it is there, the IO list.
LEMMA TimeoutKeeps == ASSUME NEW t \in Users PROVE IInv /\ WakeupTimeout(t) => IInv'
<1> SUFFICES ASSUME IInv, WakeupTimeout(t) PROVE IInv'
  OBVIOUS
<1>0. /\ made' = made /\ want' = want /\ notify' = notify /\ watch' = watch
      /\ t \in fr.sleeplist /\ fr.left[t] = 0
      /\ fr' = InsertRunable(IF HasFlag(fr, t, "IO_LIST") THEN RemoveIoWait(fr, t)
                                                          ELSE RemoveSleep(fr, t), t)
  BY DEF WakeupTimeout, HeapTops, tasks, epoll
<1>1. /\ fr \in Frame /\ Watched(fr, notify, watch) /\ MidInv(fr, made, Hand(fr))
      /\ Executing(fr, made, want) /\ Woken(fr)
  BY RunFacts DEF IInv
<1>2. Woke(fr, fr', t)
  <2>1. CASE HasFlag(fr, t, "IO_LIST")
    <3>1. fr' = InsertRunable(RemoveIoWait(fr, t), t)
      BY <1>0, <2>1
    <3> QED BY <1>1, <3>1, WakeIoFields
  <2>2. CASE ~HasFlag(fr, t, "IO_LIST")
    <3>1. fr' = InsertRunable(RemoveSleep(fr, t), t)
      BY <1>0, <2>2
    <3>2. "IO_LIST" \notin fr.flag[t]
      BY <2>2 DEF HasFlag
    <3>3. t \notin fr.iolist
      <4>1. Placed(fr, made, Hand(fr)) /\ Flagged(fr)
        BY <1>1 DEF MidInv
      <4>2. t \in Alive(fr)
        BY <1>0, <4>1 DEF Placed
      <4> QED BY <3>2, <4>1, <4>2 DEF Flagged
    <3> QED BY <1>1, <3>1, <3>2, <3>3, WakeSleepFields
  <2> QED BY <2>1, <2>2
<1>3. MidInv(fr', made, Hand(fr))
  BY <1>0, <1>1, <1>2, WokeInv
<1>4. /\ Hand(fr') = Hand(fr) /\ fr'.active = fr.active /\ fr'.pc = fr.pc
      /\ SameFamily(fr, fr') /\ SameWait(fr, fr')
  BY <1>2 DEF Woke, Hand
<1>5. Watched(fr', notify, watch) /\ Executing(fr', made, want) /\ Woken(fr')
  BY <1>1, <1>4 DEF Watched, Executing, Woken, SameWait, SameFamily
<1> QED BY <1>0, <1>3, <1>4, <1>5 DEF IInv, StateInv

\* The daemon gives way.
LEMMA DaemonSwitchKeeps == IInv /\ DaemonSwitch => IInv'
<1> SUFFICES ASSUME IInv, DaemonSwitch PROVE IInv'
  OBVIOUS
<1> DEFINE g == Leave(fr, "poll")
<1>0. /\ fr.active = Daemon /\ fr.pc[fr.active] = "expired" /\ fr' = ThreadSchdule(g)
      /\ made' = made /\ want' = want /\ notify' = notify /\ watch' = watch
  BY DEF DaemonSwitch, DaemonAt, SwitchContext, Leave, Me, tasks, epoll
<1>1. made = <<>> /\ want \in Nat /\ fr \in Frame
  BY <1>0, RunFacts DEF IInv
<1>2. StateInv(g, made, notify, watch, want)
  BY <1>0, <1>1, LeaveStep DEF IInv, Labels, DaemonLabels
<1>3. g.active = Daemon
  BY <1>0, <1>1, LeaveFields DEF Labels, DaemonLabels
<1> HIDE DEF g
<1>4. /\ MidInv(g, made, Hand(g)) /\ Hand(g) = {} /\ g.pc[g.active] \in DaemonLabels
      /\ Watched(g, notify, watch)
  BY <1>2, <1>3, RunFacts
<1>5. StateInv(ThreadSchdule(g), made, notify, watch, want)
  BY <1>1, <1>4, SwitchStep DEF DaemonLabels
<1> QED BY <1>0, <1>5 DEF IInv

\* Every step keeps the invariant.
LEMMA NextKeeps == IInv /\ Registered /\ [Next]_vars => IInv'
<1> SUFFICES ASSUME IInv, Registered, [Next]_vars PROVE IInv'
  OBVIOUS
<1>1. CASE Resume
  BY <1>1, ResumeStep
<1>2. CASE EpollBack
  BY <1>2, EpollBackKeeps
<1>3. CASE Yield
  BY <1>3, SleepKeeps, WaitKeeps, EpollScheduleKeeps, ExitKeeps DEF Yield
<1>4. CASE Exec
  BY <1>4, ExecCreateKeeps, CreateFailsStep, ExecStartStep, AddSubKeeps, ExecWaitKeeps,
     UndoKeeps DEF Exec
<1>5. CASE DaemonStep
  BY <1>5, DispathStep, RcvEventKeeps, ClockKeeps, TimeoutKeeps, WakeupDoneStep,
     DaemonSwitchKeeps DEF DaemonStep
<1>6. ASSUME NEW G \in SUBSET Fds, EpollAddFails(G) PROVE IInv'
  BY <1>6, AddFailsKeeps
<1>11. ASSUME NEW f \in Fds, Socket(f) \/ Close(f) PROVE IInv'
  BY <1>11, FdsKeep
<1>7. ASSUME NEW x \in Threads, CreateThread(x) PROVE IInv'
  BY <1>7, CreateKeeps
<1>8. ASSUME NEW t \in Users, NotifyThread(t) PROVE IInv'
  BY <1>8, NotifyKeeps
<1>9. ASSUME NEW k \in 1..MaxTasks, ExecAllTask(k) PROVE IInv'
  BY <1>9, ExecAllTaskStep
<1>10. CASE UNCHANGED vars
  BY <1>10 DEF IInv, vars
<1> QED BY <1>1, <1>2, <1>3, <1>4, <1>5, <1>6, <1>7, <1>8, <1>9, <1>10, <1>11 DEF Next

\* A step that leaves epoll alone, when no event is at hand or the daemon stays where
\* it is.
LEMMA RegisteredStays ==
    ASSUME Registered, UNCHANGED <<epoll, evts>>,
           DOMAIN evts = {} \/ (fr'.active = fr.active /\ fr'.pc[Daemon] = fr.pc[Daemon])
    PROVE  Registered'
BY DEF Registered, epoll

\* Every step keeps what the frame knows of epoll.
LEMMA RegisteredKept == IInv /\ Registered /\ [Next]_vars => Registered'
<1> SUFFICES ASSUME IInv, Registered, [Next]_vars PROVE Registered'
  OBVIOUS
<1>0. /\ Me # Daemon => DOMAIN evts = {} /\ Me \in Users /\ Me # None
      /\ ~DaemonAt("event") => DOMAIN evts = {}
      /\ notify \in [Fds -> Users \cup {None}]
  <2>1. fr.active # Daemon => fr.active \in Users
    BY RunFacts DEF IInv
  <2>2. Watched(fr, notify, watch)
    BY DEF IInv, StateInv
  <2>3. None \notin Users
    BY FrameAssumption DEF Users
  <2>4. DOMAIN evts # {} => DaemonAt("event") /\ Me = Daemon
    BY DEF Registered, DaemonAt, Me
  <2> QED BY <2>1, <2>2, <2>3, <2>4 DEF Watched, Me
<1>1. ASSUME NEW F \in SUBSET Fds, NEW S \in DelFails(F), Me # Daemon,
             EpollCtlDel(F, S), EpollCtrlDelRef(F, S), UNCHANGED <<open, evts>>
      PROVE  Registered'
  <2>1. S \subseteq F /\ DOMAIN evts = {} /\ evts' = evts /\ open' = open
    BY <1>0, <1>1 DEF DelFails
  <2>2. /\ listen' = listen \ (F \ S) /\ watch' = watch \ F
        /\ notify' = [f \in Fds |-> IF f \in S THEN Me ELSE IF f \in F THEN None ELSE notify[f]]
    BY <1>1 DEF EpollCtlDel, EpollCtrlDelRef
  <2>3. \A d \in listen' : notify'[d] # None
    BY <1>0, <1>1, <2>1, <2>2 DEF Registered
  <2> QED BY <2>1, <2>2, <2>3 DEF Registered
<1>2. CASE EpollBack
  <2>1. Me # Daemon /\ UNCHANGED <<open, evts>>
    BY <1>2 DEF EpollBack
  <2> DEFINE mine == {f \in fr.fdset[Me] : notify[f] = Me}
  <2>2. PICK S \in DelFails(mine) : EpollCtlDel(mine, S) /\ EpollCtrlDelRef(mine, S)
    BY <1>2 DEF EpollBack
  <2>3. mine \subseteq Fds
    BY RunFacts DEF IInv, Frame, Me
  <2> HIDE DEF mine
  <2> QED BY <1>1, <2>1, <2>2, <2>3
<1>3. ASSUME NEW G \in SUBSET Fds, EpollAddFails(G) PROVE Registered'
  BY <1>1, <1>3 DEF EpollAddFails, User
<1>4. ASSUME NEW F \in SUBSET Fds, NEW ms \in Times, EpollSchedule(F, ms) PROVE Registered'
  <2>1. /\ DOMAIN evts = {} /\ evts' = evts /\ open' = open /\ Me # None
        /\ listen' = listen \cup F /\ watch' = watch \cup (F \ listen)
        /\ notify' = [f \in Fds |-> IF f \in F THEN Me ELSE notify[f]]
    BY <1>0, <1>4 DEF EpollSchedule, User, EpollCtlAdd, EpollCtrlAdd
  <2>2. F \ listen \subseteq open
    BY <1>4 DEF EpollSchedule, Free
  <2>3. \A d \in listen' : notify'[d] # None
    BY <2>1 DEF Registered
  <2> QED BY <2>1, <2>2, <2>3 DEF Registered
<1>5. ASSUME NEW f \in Fds, Socket(f) \/ Close(f) PROVE Registered'
  <2>1. /\ DOMAIN evts = {} /\ evts' = evts /\ listen' = listen /\ notify' = notify
        /\ \/ open' = open \cup {f} /\ watch' = watch
           \/ open' = open \ {f} /\ watch' = watch \ {f}
    BY <1>0, <1>5 DEF Socket, Close, User
  <2> QED BY <2>1 DEF Registered
<1>6. CASE EpollDispath
  <2>1. /\ fr.active = Daemon /\ fr' = Leave(fr, "event") /\ UNCHANGED epoll
        /\ DOMAIN evts' \subseteq watch
    BY <1>6 DEF EpollDispath, DaemonAt, Me, Leave
  <2>2. fr'.active = Daemon /\ fr'.pc[Daemon] = "event"
    <3>1. fr \in Frame /\ "event" \in Labels
      BY RunFacts DEF IInv, Labels, DaemonLabels
    <3>2. fr'.active = fr.active /\ fr'.pc = [fr.pc EXCEPT ![fr.active] = "event"]
      BY <2>1, <3>1, LeaveFields
    <3>3. fr.pc \in [All -> Labels] /\ Daemon \in All
      BY <3>1 DEF Frame, All
    <3> QED BY <2>1, <3>2, <3>3
  <2> QED BY <2>1, <2>2 DEF Registered, epoll
<1>7. ASSUME NEW f \in Fds, EpollRcvEvent(f) PROVE Registered'
  <2>1. /\ DaemonAt("event") /\ DOMAIN evts' = DOMAIN evts \ {f} /\ open' = open
        /\ notify' = notify
        /\ \/ listen' = listen /\ watch' = watch
           \/ listen' = listen \ {f} /\ watch' = watch \ {f}
    BY <1>7 DEF EpollRcvEvent, Unwatch
  <2>2. fr'.active = fr.active /\ fr'.pc = fr.pc
    BY <1>7 DEF EpollRcvEvent, WakeIo, InsertRunable, RemoveIoWait, RemoveSleep
  <2> QED BY <2>1, <2>2 DEF Registered, DaemonAt, Me
<1>8. ASSUME NEW d \in Times, SetLastClock(d) PROVE Registered'
  <2>1. UNCHANGED epoll /\ DOMAIN evts' = {}
    BY <1>8 DEF SetLastClock
  <2> QED BY <2>1 DEF Registered, epoll
<1>9. ASSUME NEW t \in Users, NotifyThread(t) PROVE Registered'
  <2>1. fr'.active = fr.active /\ fr'.pc = fr.pc /\ UNCHANGED <<epoll, evts>>
    BY <1>9 DEF NotifyThread, WakeIo, InsertRunable, RemoveIoWait, RemoveSleep
  <2> QED BY <2>1, RegisteredStays
<1>10. ASSUME UNCHANGED <<epoll, evts>>, Me # Daemon \/ ~DaemonAt("event") PROVE Registered'
  BY <1>0, <1>10, RegisteredStays
<1>11. CASE Resume \/ Exec \/ Exit \/ WakeupDone \/ DaemonSwitch
            \/ (\E t \in Users : WakeupTimeout(t)) \/ (\E x \in Threads : CreateThread(x))
            \/ (\E k \in 1..MaxTasks : ExecAllTask(k))
            \/ (\E ms \in Times : Sleep(ms) \/ WaitNotify(ms))
  <2>1. UNCHANGED <<epoll, evts>>
    BY <1>11 DEF Resume, Exec, Exit, WakeupDone, DaemonSwitch, WakeupTimeout, CreateThread,
       ExecAllTask, Sleep, WaitNotify, ExecCreate, ExecCreateFails, ExecStart, ExecAddSub,
       ExecWait, ExecUndo
  <2>2. Me # Daemon \/ ~DaemonAt("event")
    BY <1>11 DEF Resume, Exec, Exit, WakeupDone, DaemonSwitch, WakeupTimeout, CreateThread,
       ExecAllTask, Sleep, WaitNotify, ExecCreate, ExecCreateFails, ExecStart, ExecAddSub,
       ExecWait, ExecUndo, User, DaemonAt
  <2> QED BY <1>10, <2>1, <2>2
<1>12. CASE UNCHANGED vars
  BY <1>12 DEF Registered, vars
<1> QED BY <1>2, <1>3, <1>4, <1>5, <1>6, <1>7, <1>8, <1>9, <1>11, <1>12
       DEF Next, Yield, DaemonStep

(***************************************************************************)
(* The initial states.                                                     *)
(***************************************************************************)

\* A list without repetition has as many members as entries.
LEMMA ElemsCount ==
    ASSUME NEW S, NEW k \in Nat, NEW s \in [1..k -> S], NoDup(s)
    PROVE  IsFiniteSet(Elems(s)) /\ Cardinality(Elems(s)) = k
<1>1. s \in Bijection(1..k, Elems(s))
  BY DEF Bijection, Injection, Surjection, IsInjective, NoDup, Elems
<1>2. IsFiniteSet(1..k) /\ Cardinality(1..k) = k
  BY FS_Interval
<1> QED BY <1>1, <1>2, FS_Bijection DEF ExistsBijection

\* InitFrame establishes the invariant.
LEMMA InitIInv == Init => IInv
<1> SUFFICES ASSUME Init PROVE IInv
  OBVIOUS
<1>1. PICK s \in UNION {[1..k -> Threads] : k \in 0..DefaultNum - 1} :
         /\ \A i, j \in DOMAIN s : s[i] = s[j] => i = j
         /\ fr.active = Primo /\ fr.runlist = <<>> /\ fr.iolist = {} /\ fr.sleeplist = {}
         /\ fr.pendlist = {} /\ fr.freelist = s /\ fr.live = Elems(s) \cup {Daemon}
         /\ fr.total = Len(s) + 1 /\ fr.use = 1
         /\ fr.flag = [t \in All |-> IF \E i \in DOMAIN s : s[i] = t
                                     THEN {"FREE_LIST"} ELSE {}]
         /\ fr.type = [t \in All |-> CASE t = Primo -> "PRIMORDIAL"
                                       [] t = Daemon -> "DAEMON" [] OTHER -> "NORMAL"]
         /\ fr.parent = [t \in All |-> None] /\ fr.sub = [t \in All |-> {}]
         /\ fr.left = [t \in All |-> 0] /\ fr.fdset = [t \in All |-> {}]
         /\ fr.rcv = [t \in All |-> {}]
         /\ fr.pc = [t \in All |-> CASE t = Primo -> "user"
                                     [] t = Daemon -> "poll" [] OTHER -> "start"]
         /\ fr = [active |-> fr.active, runlist |-> fr.runlist, iolist |-> fr.iolist,
                  sleeplist |-> fr.sleeplist, pendlist |-> fr.pendlist,
                  freelist |-> fr.freelist, live |-> fr.live, total |-> fr.total,
                  use |-> fr.use, flag |-> fr.flag, type |-> fr.type,
                  parent |-> fr.parent, sub |-> fr.sub, left |-> fr.left,
                  fdset |-> fr.fdset, rcv |-> fr.rcv, pc |-> fr.pc]
  BY DEF Init, Elems
<1>2. notify = [f \in Fds |-> None] /\ watch = {} /\ made = <<>> /\ want = 0
  BY DEF Init
<1>17. PICK k \in 0..DefaultNum - 1 : s \in [1..k -> Threads]
  OBVIOUS
<1>3. /\ k \in Nat /\ k <= DefaultNum - 1 /\ s \in Seq(Threads) /\ Len(s) = k /\ NoDup(s)
      /\ Elems(s) \subseteq Threads /\ DefaultNum \in Nat
  <2>1. k \in Nat /\ k <= DefaultNum - 1 /\ DefaultNum \in Nat
    BY FrameAssumption
  <2>2. s \in Seq(Threads) /\ Len(s) = k
    BY <1>17, <2>1
  <2> QED BY <1>1, <2>1, <2>2, SeqElems DEF NoDup
<1>4. /\ Primo \in All /\ Daemon \in All /\ Primo # Daemon /\ Primo \notin Threads
      /\ Daemon \notin Threads /\ Elems(<<>>) = {} /\ NoDup(<<>>)
  BY FrameAssumption, EmptyElems DEF All
<1>5. \A t \in All : fr.flag[t] = IF t \in Elems(s) THEN {"FREE_LIST"} ELSE {}
  BY <1>1 DEF Elems
<1>6. /\ fr.pc[Primo] = "user" /\ fr.pc[Daemon] = "poll"
      /\ \A t \in Threads : fr.pc[t] = "start"
  BY <1>1, <1>4 DEF All
<1>7. fr \in Frame
  <2>1. fr.flag \in [All -> SUBSET Flags]
    BY <1>1 DEF Flags
  <2>2. fr.type \in [All -> Types]
    BY <1>1 DEF Types
  <2>3. fr.pc \in [All -> Labels]
    BY <1>1 DEF Labels, DaemonLabels
  <2>4. fr.left \in [All -> Times]
    BY <1>1, FrameAssumption DEF Times
  <2>5. /\ fr.parent \in [All -> Users \cup {None}] /\ fr.sub \in [All -> SUBSET Threads]
        /\ fr.fdset \in [All -> SUBSET Fds] /\ fr.rcv \in [All -> SUBSET Fds]
    BY <1>1
  <2>6. fr.total \in Nat /\ fr.use \in Nat
    BY <1>1, <1>3
  <2>7. fr.live \in SUBSET Pool /\ fr.active \in All /\ fr.runlist \in Seq(Users)
        /\ fr.freelist \in Seq(Threads)
    BY <1>1, <1>3, <1>4 DEF Pool
  <2>8. fr.iolist \in SUBSET Users /\ fr.sleeplist \in SUBSET Users /\ fr.pendlist \in SUBSET Users
    BY <1>1
  <2> QED BY <1>1, <2>1, <2>2, <2>3, <2>4, <2>5, <2>6, <2>7, <2>8 DEF Frame
<1>8. Hand(fr) = {Primo} /\ Alive(fr) = Elems(s) \cup {Primo}
  BY <1>1, <1>3, <1>4 DEF Hand, Alive
<1>9. Placed(fr, made, Hand(fr))
  BY <1>1, <1>2, <1>3, <1>4, <1>8 DEF Placed
<1>10. Flagged(fr)
  <2>1. /\ fr.runlist = <<>> /\ fr.iolist = {} /\ fr.sleeplist = {} /\ fr.pendlist = {}
        /\ fr.freelist = s
    BY <1>1
  <2>2. \A t \in Alive(fr) : t \in All
    BY <1>3, <1>4, <1>8 DEF All
  <2>3. ASSUME NEW t \in Alive(fr) PROVE FlagsTell(fr, t)
    <3>1. fr.flag[t] = IF t \in Elems(s) THEN {"FREE_LIST"} ELSE {}
      BY <1>5, <2>2
    <3> QED BY <1>4, <2>1, <3>1 DEF FlagsTell
  <2> QED BY <2>3, FlaggedTell
<1>11. Family(fr, made)
  <2>1. None \notin All
    BY FrameAssumption DEF All
  <2> QED BY <1>1, <1>2, <1>4, <2>1 DEF Family
<1>12. Stage(fr, made)
  BY <1>1, <1>2, <1>3, <1>4, <1>6 DEF Stage, DaemonLabels
<1>13. Pooled(fr)
  <2>1. IsFiniteSet(Elems(s)) /\ Cardinality(Elems(s)) = k
    BY <1>3, <1>17, ElemsCount
  <2>2. Daemon \notin Elems(s)
    BY <1>3, <1>4
  <2>3. IsFiniteSet(fr.live) /\ Cardinality(fr.live) = k + 1
    BY <1>1, <2>1, <2>2, FS_AddElement, SMTT(30)
  <2>4. fr.live \ Elems(fr.freelist) = {Daemon}
    BY <1>1, <2>2
  <2>5. fr.use = Cardinality(fr.live \ Elems(fr.freelist))
    <3>1. Cardinality({Daemon}) = 1
      BY FS_Singleton
    <3> QED BY <1>1, <2>4, <3>1
  <2>6. fr.total = Cardinality(fr.live) /\ fr.use = fr.total - Len(fr.freelist)
        /\ fr.total <= DefaultNum
    BY <1>1, <1>3, <2>3
  <2> QED BY <1>1, <2>3, <2>5, <2>6 DEF Pooled
<1>14. MidInv(fr, made, Hand(fr))
  BY <1>2, <1>7, <1>9, <1>10, <1>11, <1>12, <1>13 DEF MidInv
<1>15. Watched(fr, notify, watch)
  BY <1>2 DEF Watched
<1>16. Executing(fr, made, want) /\ Woken(fr)
  BY <1>1, <1>2, <1>6 DEF Executing, Woken
<1> QED BY <1>14, <1>15, <1>16 DEF IInv, StateInv

(***************************************************************************)
(* What the invariant says.                                                *)
(***************************************************************************)

\* The invariant gives one place to every thread.
LEMMA PlacedIsOnePlace == IInv => OnePlace
<1> SUFFICES ASSUME IInv PROVE OnePlace
  OBVIOUS
<1>0. /\ fr \in Frame /\ Placed(fr, made, Hand(fr)) /\ Flagged(fr) /\ Family(fr, made)
  BY DEF IInv, StateInv, MidInv
<1> DEFINE W == {"active", "run", "sleep", "pend", "free", "made"}
           In(p, t) == CASE p = "active" -> fr.active = t
                         [] p = "run"    -> t \in Elems(fr.runlist)
                         [] p = "sleep"  -> t \in fr.sleeplist
                         [] p = "pend"   -> t \in fr.pendlist
                         [] p = "free"   -> t \in Elems(fr.freelist)
                         [] p = "made"   -> t \in Elems(made)
<1>1. ASSUME NEW t \in Users \cap (fr.live \cup {Primo})
      PROVE  /\ Cardinality({p \in W : In(p, t)}) = 1
             /\ FlagsTell(fr, t)
  <2>1. t \in Alive(fr) /\ t # Daemon
    BY FrameAssumption DEF Alive, Users
  <2>2. \E p \in W : {q \in W : In(q, t)} = {p}
    <3>1. CASE t \in Elems(fr.runlist)
      <4>1. /\ t # fr.active /\ t \notin fr.sleeplist /\ t \notin fr.pendlist
            /\ t \notin Elems(fr.freelist) /\ t \notin Elems(made)
        BY <1>0, <2>1, <3>1 DEF Placed, Hand
      <4> QED BY <3>1, <4>1
    <3>2. CASE t \in fr.sleeplist
      <4>1. /\ t # fr.active /\ t \notin Elems(fr.runlist) /\ t \notin fr.pendlist
            /\ t \notin Elems(fr.freelist) /\ t \notin Elems(made)
        BY <1>0, <2>1, <3>2 DEF Placed, Hand
      <4> QED BY <3>2, <4>1
    <3>3. CASE t \in fr.pendlist
      <4>1. /\ t # fr.active /\ t \notin Elems(fr.runlist) /\ t \notin fr.sleeplist
            /\ t \notin Elems(fr.freelist) /\ t \notin Elems(made)
        BY <1>0, <2>1, <3>3 DEF Placed, Hand
      <4> QED BY <3>3, <4>1
    <3>4. CASE t \in Elems(fr.freelist)
      <4>1. /\ t # fr.active /\ t \notin Elems(fr.runlist) /\ t \notin fr.sleeplist
            /\ t \notin fr.pendlist /\ t \notin Elems(made)
        BY <1>0, <2>1, <3>4 DEF Placed, Hand
      <4> QED BY <3>4, <4>1
    <3>5. CASE t \in Elems(made)
      <4>1. /\ t # fr.active /\ t \notin Elems(fr.runlist) /\ t \notin fr.sleeplist
            /\ t \notin fr.pendlist /\ t \notin Elems(fr.freelist)
        BY <1>0, <2>1, <3>5 DEF Placed, Hand
      <4> QED BY <3>5, <4>1
    <3>6. CASE t \in Hand(fr)
      <4>1. /\ t = fr.active /\ t \notin Elems(fr.runlist) /\ t \notin fr.sleeplist
            /\ t \notin fr.pendlist /\ t \notin Elems(fr.freelist) /\ t \notin Elems(made)
        BY <1>0, <3>6 DEF Placed, Hand
      <4> QED BY <4>1
    <3> QED BY <1>0, <2>1, <3>1, <3>2, <3>3, <3>4, <3>5, <3>6 DEF Placed
  <2>3. Cardinality({q \in W : In(q, t)}) = 1
    <3> HIDE DEF W, In
    <3> QED BY <2>2, FS_Singleton
  <2>4. FlagsTell(fr, t)
    BY <1>0, <2>1, FlaggedTell
  <2> QED BY <2>3, <2>4
<1>2. fr.iolist \subseteq fr.sleeplist
  BY <1>0 DEF Placed
<1>3. \A s \in {fr.runlist, fr.freelist, made} : \A i, j \in DOMAIN s : s[i] = s[j] => i = j
  BY <1>0 DEF Placed, NoDup
<1>4. PendHasSubs
  <2>1. ASSUME NEW t \in fr.pendlist PROVE fr.sub[t] # {}
    BY <1>0 DEF Family
  <2>2. ASSUME NEW t \in fr.pendlist, NEW u \in fr.sub[t]
        PROVE  /\ fr.parent[u] = t /\ fr.type[u] = "SUB_THREAD"
               /\ ~HasFlag(fr, u, "FREE_LIST")
    <3>1. t \in All /\ u \in Threads /\ u \in All /\ t # None
      BY <1>0, FrameAssumption DEF Frame, All, Users
    <3>2. /\ fr.parent[u] = t /\ fr.type[u] = "SUB_THREAD" /\ u \in fr.live
          /\ u \notin Elems(fr.freelist)
      BY <1>0, <3>1 DEF Family
    <3>3. u \in Alive(fr)
      BY <3>1, <3>2, FrameAssumption DEF Alive
    <3> QED BY <1>0, <3>2, <3>3 DEF Flagged, HasFlag
  <2> QED BY <2>1, <2>2 DEF PendHasSubs
<1> QED BY <1>1, <1>2, <1>3, <1>4 DEF OnePlace, FlagsTell, HasFlag

\* The invariant gives types, counters and no dangling pointer.
LEMMA InvIsPoolSound == IInv /\ Registered => PoolSound
<1> SUFFICES ASSUME IInv, Registered PROVE PoolSound
  OBVIOUS
<1>0. /\ fr \in Frame /\ made \in Seq(Threads) /\ Placed(fr, made, Hand(fr))
      /\ Family(fr, made) /\ Stage(fr, made) /\ Pooled(fr) /\ Watched(fr, notify, watch)
  BY DEF IInv, StateInv, MidInv
<1>1. TypeOK
  BY <1>0 DEF TypeOK, Frame, Types, Pooled, Watched, Registered
<1>2. PoolExact
  BY <1>0 DEF PoolExact, Pooled
<1>3. NoDangling
  <2>1. Alive(fr) \subseteq fr.live \cup {Primo, None}
    BY DEF Alive
  <2>2. {fr.active} \cup Elems(fr.runlist) \cup Elems(fr.freelist) \cup Elems(made)
        \cup fr.sleeplist \cup fr.iolist \cup fr.pendlist \subseteq fr.live \cup {Primo, None}
    <3>1. Daemon \in fr.live
      BY <1>0 DEF Pooled
    <3> QED BY <1>0, <2>1, <3>1 DEF Placed, Hand
  <2>3. ASSUME NEW t \in fr.live \cup {Primo}
        PROVE  fr.sub[t] \cup {fr.parent[t]} \subseteq fr.live \cup {Primo, None}
    <3>1. t \in All /\ None \notin All
      BY <1>0, FrameAssumption DEF Frame, All, Pool
    <3>2. fr.sub[t] \subseteq fr.live
      <4>1. fr.sub[t] \subseteq Threads
        BY <1>0, <3>1 DEF Frame
      <4>2. ASSUME NEW u \in fr.sub[t] PROVE u \in fr.live
        <5>1. u \in All /\ fr.parent[u] = t
          BY <1>0, <3>1, <4>1 DEF Family, All
        <5> QED BY <1>0, <3>1, <5>1 DEF Family
      <4> QED BY <4>2
    <3>3. ASSUME fr.parent[t] # None PROVE fr.parent[t] \in fr.live \cup {Primo}
      <4> DEFINE p == fr.parent[t]
      <4>1. p \in Users /\ p \in All
        BY <1>0, <3>1, <3>3 DEF Frame, All, Users
      <4>2. t \in fr.sub[p]
        BY <1>0, <3>1, <4>1 DEF Family
      <4>3. p \in fr.pendlist \/ p = fr.active
        BY <1>0, <4>1, <4>2 DEF Family
      <4> QED BY <2>2, <3>3, <4>3
    <3> QED BY <3>2, <3>3
  <2>4. ASSUME NEW d \in watch PROVE notify[d] \in fr.live \cup {Primo, None}
    <3>1. notify[d] \in Users /\ fr.pc[notify[d]] # "start"
      BY <1>0 DEF Watched
    <3>2. MidInv(fr, made, Hand(fr))
      BY DEF IInv, StateInv
    <3> QED BY <2>1, <3>1, <3>2, BegunAlive
  <2>5. UNION {fr.sub[t] \cup {fr.parent[t]} : t \in fr.live \cup {Primo}}
           \subseteq fr.live \cup {Primo, None}
    BY <2>3
  <2>6. {notify[d] : d \in watch} \subseteq fr.live \cup {Primo, None}
    BY <2>4
  <2> DEFINE A == {fr.active} \cup Elems(fr.runlist) \cup Elems(fr.freelist) \cup Elems(made)
                 \cup fr.sleeplist \cup fr.iolist \cup fr.pendlist
             B == UNION {fr.sub[t] \cup {fr.parent[t]} : t \in fr.live \cup {Primo}}
             C == {notify[d] : d \in watch}
             L == fr.live \cup {Primo, None}
  <2>7. NoDangling <=> A \cup C \cup B \subseteq L
    BY DEF NoDangling
  <2>8. A \subseteq L /\ B \subseteq L /\ C \subseteq L
    BY <2>2, <2>5, <2>6
  <2> HIDE DEF A, B, C, L
  <2> QED BY <2>7, <2>8
<1> QED BY <1>1, <1>2, <1>3 DEF PoolSound

\* Epoll watches nothing at first.
LEMMA InitRegistered == Init => Registered
BY DEF Init, Registered

\* The inductive invariant holds in every state of MtFrame.
THEOREM Inductive == Spec => [](IInv /\ Registered)
BY InitIInv, InitRegistered, NextKeeps, RegisteredKept, PTL DEF Spec

\* Every thread is in exactly one of the lists of the scheduler, its flags say in
\* which, no list holds it twice and a parked thread has a sub thread to wake it
\* (InsertSleep, InsertIoWait, InsertRunable, InsertPend and their counterparts).
THEOREM ThreadsInOnePlace == Spec => []OnePlace
BY Inductive, PlacedIsOnePlace, PTL

\* The counters of ThreadPool are exact and no list, parent or epoll object that an
\* event can reach leads to a thread that FreeThread deleted.
THEOREM PoolIsSound == Spec => []PoolSound
BY Inductive, InvIsPoolSound, PTL

\* A thread comes back from EpollSchedule with an event or when its time is up,
\* whoever wakes it: EpollRcvEventList, WakeupTimeout or NotifyThread.
THEOREM WakeupsHaveReason == Spec => []WokenForReason
<1>1. IInv => WokenForReason
  BY DEF IInv, StateInv, Woken, WokenForReason, Me
<1> QED BY <1>1, Inductive, PTL

\* What epoll watches is open and has the object of a thread inside EpollSchedule with
\* it, although fds are closed under the threads that wait for them and EpollDel may
\* then fail and leave its object behind (EpollAdd, EpollDel, EpollRcvEventList).
THEOREM EpollIsClosed == Spec => []EpollClosed
<1>1. IInv /\ Registered => EpollClosed
  BY DEF IInv, StateInv, Watched, Registered, EpollClosed
<1> QED BY <1>1, Inductive, PTL
=============================================================================
