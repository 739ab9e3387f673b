------------------------------ MODULE MtFrame ------------------------------
(***************************************************************************)
(* The micro thread scheduler of sync_frame/micro_thread: MtFrame, its     *)
(* thread pool, the epoll proxy it inherits and the sub thread tasks of    *)
(* mt_exec_all_task.  One process runs one micro thread at a time; it      *)
(* leaves the processor only inside ThreadSchdule.  The functions of the   *)
(* code are operators from frame states to frame states, so that an action *)
(* composes the calls its handler makes, in their order.                   *)
(*                                                                         *)
(* Times are kept as what is left until they are due, never below 0: the   *)
(* code only asks whether a wakeup time is past.                           *)
(***************************************************************************)
EXTENDS Integers, Sequences, FiniteSets

CONSTANTS
    Threads,    \* MicroThread objects the pool may hold beside the daemon
    Primo,      \* _primo, the main thread of the process
    Daemon,     \* _daemon
    Fds,        \* file descriptors micro threads wait on
    DefaultNum, \* ThreadPool::default_thread_num
    MaxNum,     \* _max_num
    MaxTasks,   \* bound: tasks of one mt_exec_all_task
    MaxTimeout, \* bound: timeouts, and one advance of the clock
    MaxWork,    \* bound: threads made or notified between two runs of the daemon
    MaxClosed,  \* bound: fds that are closed at a time
    None        \* NULL

ASSUME FrameAssumption ==
    /\ DefaultNum \in Nat \ {0} /\ MaxNum \in Nat /\ MaxTasks \in Nat
    /\ MaxTimeout \in Nat /\ MaxWork \in Nat /\ MaxClosed \in Nat
    /\ Primo # Daemon /\ {Primo, Daemon} \cap Threads = {}
    /\ None \notin Threads \cup {Primo, Daemon}

VARIABLES
    fr,         \* the frame: lists, flags, pool, threads
    notify,     \* _epobj of each FdRef: the thread whose object it is, or None
    listen,     \* the fds whose FdRef has _events: those epoll is thought to watch
    watch,      \* the fds epoll does watch
    open,       \* the fds that are open
    evts,       \* _evtlist: the events of this epoll_wait still to be handled
    made, want, \* list and number of tasks of mt_exec_all_task
    work        \* threads made or notified since the daemon last ran

vars == <<fr, notify, listen, watch, open, evts, made, want, work>>

All   == Threads \cup {Primo, Daemon}
Users == Threads \cup {Primo}
Pool  == Threads \cup {Daemon}
Times == 0..MaxTimeout
Flags == {"FREE_LIST", "IO_LIST", "SLEEP_LIST", "RUN_LIST", "PEND_LIST", "SUB_LIST"}

\* After InitFrame: the pool may have got fewer threads than it asked for, the
\* daemon has been taken from it and _primo runs.
Init ==
    /\ \E s \in UNION {[1..k -> Threads] : k \in 0..DefaultNum - 1} :
         /\ \A i, j \in DOMAIN s : s[i] = s[j] => i = j
         /\ fr = [active   |-> Primo,
                  runlist  |-> <<>>, iolist |-> {}, sleeplist |-> {}, pendlist |-> {},
                  freelist |-> s,
                  live     |-> {s[i] : i \in DOMAIN s} \cup {Daemon},
                  total    |-> Len(s) + 1,
                  use      |-> 1,
                  flag     |-> [t \in All |-> IF \E i \in DOMAIN s : s[i] = t
                                              THEN {"FREE_LIST"} ELSE {}],
                  type     |-> [t \in All |-> CASE t = Primo -> "PRIMORDIAL"
                                                [] t = Daemon -> "DAEMON"
                                                [] OTHER -> "NORMAL"],
                  parent   |-> [t \in All |-> None],
                  sub      |-> [t \in All |-> {}],
                  left     |-> [t \in All |-> 0],
                  fdset    |-> [t \in All |-> {}],
                  rcv      |-> [t \in All |-> {}],
                  pc       |-> [t \in All |-> CASE t = Primo -> "user"
                                                [] t = Daemon -> "poll"
                                                [] OTHER -> "start"]]
    /\ notify = [f \in Fds |-> None] /\ listen = {} /\ watch = {} /\ open = Fds
    /\ evts = <<>>
    /\ made = <<>> /\ want = 0 /\ work = 0
----------------------------------------------------------------------------
(* The lists of the frame *)

HasFlag(f, t, g) == g \in f.flag[t]

InsertSleep(f, t) ==
    [f EXCEPT !.flag[t] = @ \cup {"SLEEP_LIST"}, !.sleeplist = @ \cup {t}]

RemoveSleep(f, t) ==
    [f EXCEPT !.flag[t] = @ \ {"SLEEP_LIST"}, !.sleeplist = @ \ {t}]

\* Mutant: no timeout is armed.
InsertIoWaitOnly(f, t) ==
    [f EXCEPT !.flag[t] = @ \cup {"IO_LIST"}, !.iolist = @ \cup {t}]

InsertIoWait(f, t) ==
    InsertSleep([f EXCEPT !.flag[t] = @ \cup {"IO_LIST"}, !.iolist = @ \cup {t}], t)

RemoveIoWait(f, t) ==
    RemoveSleep([f EXCEPT !.flag[t] = @ \ {"IO_LIST"}, !.iolist = @ \ {t}], t)

InsertRunable(f, t) ==
    [f EXCEPT !.flag[t] = @ \cup {"RUN_LIST"}, !.runlist = Append(@, t)]

RemoveRunable(f, t) ==
    [f EXCEPT !.flag[t] = @ \ {"RUN_LIST"}, !.runlist = Tail(@)]

InsertPend(f, t) ==
    [f EXCEPT !.flag[t] = @ \cup {"PEND_LIST"}, !.pendlist = @ \cup {t}]

RemovePend(f, t) ==
    [f EXCEPT !.flag[t] = @ \ {"PEND_LIST"}, !.pendlist = @ \ {t}]

\* The daemon runs only when no thread is runnable.
ThreadSchdule(f) ==
    IF f.runlist = <<>> THEN [f EXCEPT !.active = Daemon]
    ELSE [RemoveRunable(f, Head(f.runlist)) EXCEPT !.active = Head(f.runlist)]

\* The active thread saves its context at p and another one runs.
SwitchContext(f, p) == ThreadSchdule([f EXCEPT !.pc[f.active] = p])

\* Mutant: no check whether the thread still waits.
WakeIoAgain(f, t) == InsertRunable(RemoveIoWait(f, t), t)

\* What an event does to its thread: nothing if another one was first.
WakeIo(f, t) ==
    IF HasFlag(f, t, "IO_LIST") THEN InsertRunable(RemoveIoWait(f, t), t) ELSE f
----------------------------------------------------------------------------
(* The pool *)

\* AllocThread takes the oldest free thread, or a new object x when there is
\* none, the quota is not used up and its stack can be had.
MayAlloc(f, x) ==
    IF f.freelist # <<>> THEN x = Head(f.freelist)
                         ELSE f.total < MaxNum /\ x \notin f.live

AllocThread(f, x) ==
    IF f.freelist # <<>>
    THEN [f EXCEPT !.flag[x] = @ \ {"FREE_LIST"}, !.freelist = Tail(@), !.use = @ + 1]
    ELSE [f EXCEPT !.flag[x] = {}, !.type[x] = "NORMAL", !.parent[x] = None,
                   !.sub[x] = {}, !.left[x] = 0, !.fdset[x] = {}, !.pc[x] = "start",
                   !.live = @ \cup {x}, !.total = @ + 1, !.use = @ + 1]

\* AllocThread may return NULL.
AllocFails(f) == f.freelist = <<>>

Reset(f, t) ==
    [f EXCEPT !.flag[t] = {}, !.type[t] = "NORMAL", !.parent[t] = None, !.sub[t] = {},
              !.left[t] = 0, !.fdset[t] = {}, !.pc[t] = "start"]

PushFree(f, t) ==
    [Reset(f, t) EXCEPT !.use = @ - 1, !.freelist = Append(@, t), !.flag[t] = {"FREE_LIST"}]

\* Mutant: _total_num is not told.
DeleteFrontOnly(f) ==
    [f EXCEPT !.freelist = Tail(@), !.live = @ \ {Head(f.freelist)}]

\* Mutant: the thread deleted is taken for one in use.
DeleteFrontUse(f) ==
    [f EXCEPT !.freelist = Tail(@), !.live = @ \ {Head(f.freelist)}, !.total = @ - 1,
              !.use = @ - 1]

\* The pool deletes the thread that has been free for longest.
DeleteFront(f) ==
    [f EXCEPT !.freelist = Tail(@), !.live = @ \ {Head(f.freelist)}, !.total = @ - 1]

FreeThread(f, t) ==
    LET g == PushFree(f, t) IN
    IF Len(g.freelist) > DefaultNum /\ Len(g.freelist) > 1 THEN DeleteFront(g) ELSE g
----------------------------------------------------------------------------
(* Sub threads *)

AddSubThread(f, p, s) ==
    [f EXCEPT !.sub[p] = @ \cup {s}, !.parent[s] = p, !.flag[s] = @ \cup {"SUB_LIST"}]

\* Mutant: the parent keeps the sub thread in its list.
RemoveSubThreadFlag(f, p, s) ==
    [f EXCEPT !.parent[s] = None, !.flag[s] = @ \ {"SUB_LIST"}]

RemoveSubThread(f, p, s) ==
    [f EXCEPT !.sub[p] = @ \ {s}, !.parent[s] = None, !.flag[s] = @ \ {"SUB_LIST"}]

ScheduleUnpend(f, p) == InsertRunable(RemovePend(f, p), p)

\* Mutant: the list is looked at before the sub thread leaves it.
WakeupParentEarly(f, t) ==
    IF f.parent[t] = None THEN f
    ELSE LET g == RemoveSubThread(f, f.parent[t], t) IN
         IF f.sub[f.parent[t]] = {} THEN ScheduleUnpend(g, f.parent[t]) ELSE g

\* The last sub thread that ends makes its parent runnable.
WakeupParent(f, t) ==
    IF f.parent[t] = None THEN f
    ELSE LET g == RemoveSubThread(f, f.parent[t], t) IN
         IF g.sub[f.parent[t]] = {} THEN ScheduleUnpend(g, f.parent[t]) ELSE g
----------------------------------------------------------------------------
(* What a running micro thread does *)

Me        == fr.active
User      == Me # Daemon /\ fr.pc[Me] = "user"
epoll     == <<notify, listen, watch, open>>
tasks     == <<made, want>>

\* ThreadSchdule has restored the context of a thread: it enters its function,
\* or returns from sleep, WaitNotify or mt_exec_all_task.
Resume ==
    /\ Me # Daemon /\ fr.pc[Me] \in {"start", "sleep", "wait", "pend"}
    /\ fr' = [fr EXCEPT !.pc[Me] = "user"]
    /\ UNCHANGED <<epoll, evts, tasks, work>>

Sleep(ms) ==
    /\ User
    /\ fr' = SwitchContext(InsertSleep([fr EXCEPT !.left[Me] = ms], Me), "sleep")
    /\ UNCHANGED <<epoll, evts, tasks, work>>

WaitNotify(ms) ==
    /\ User
    /\ fr' = SwitchContext(InsertIoWait([fr EXCEPT !.left[Me] = ms], Me), "wait")
    /\ UNCHANGED <<epoll, evts, tasks, work>>

\* socket and close of the hooked system calls.  Any thread may close an fd, one that
\* another thread waits for as well: epoll forgets it and the frame does not.
Socket(f) ==
    /\ User /\ f \notin open
    /\ open' = open \cup {f}
    /\ UNCHANGED <<fr, notify, listen, watch, evts, tasks, work>>

Close(f) ==
    /\ User /\ f \in open /\ Cardinality(Fds \ open) < MaxClosed
    /\ open' = open \ {f} /\ watch' = watch \ {f}
    /\ UNCHANGED <<fr, notify, listen, evts, tasks, work>>

\* The fds F can be added: each has no object, or one that is the caller's own or
\* was at the same place of a stack that is gone; and epoll_ctl accepts it, or is
\* not called because the events are listened to.
Free(F) ==
    \A f \in F : /\ notify[f] \in {None, Me} \/ notify[f] \notin fr.live \cup {Primo}
                 /\ f \in open \/ f \in listen

\* Objects of this thread are put on the fds F, and epoll watches those it was not
\* thought to watch.
EpollCtlAdd(F) == notify' = [f \in Fds |-> IF f \in F THEN Me ELSE notify[f]]
EpollCtrlAdd(F) == listen' = listen \cup F /\ watch' = watch \cup (F \ listen)

\* The sets of fds out of F for which epoll_ctl may fail when F is taken off: one
\* that is closed fails; one that epoll does not watch any more, though it is open
\* again, fails if some events of it remain (EPOLL_CTL_MOD) and is forgiven if none
\* do (EPOLL_CTL_DEL, ENOENT).
DelFails(F) ==
    {S \in SUBSET (F \cap (listen \ watch)) : (F \cap listen) \ open \subseteq S}

\* Objects of this thread are taken off the fds F, but for S, where epoll_ctl fails:
\* there the object is put back and the events stay.
EpollCtlDel(F, S) ==
    notify' = [f \in Fds |-> IF f \in S THEN Me ELSE IF f \in F THEN None ELSE notify[f]]
EpollCtrlDelRef(F, S) == listen' = listen \ (F \ S) /\ watch' = watch \ F

\* EpollSchedule up to the switch.
EpollSchedule(F, ms) ==
    /\ User /\ Free(F)
    /\ EpollCtlAdd(F) /\ EpollCtrlAdd(F)
    /\ fr' = SwitchContext(InsertIoWait([fr EXCEPT !.left[Me] = ms, !.fdset[Me] = F,
                                                   !.rcv[Me] = {}], Me), "epoll")
    /\ UNCHANGED <<open, evts, tasks, work>>

\* EpollAdd gets no further than the fds G: the next one has the object of
\* another thread, or epoll_ctl fails.  G is taken back and the call fails.  The list
\* of fds and the wakeup time it has set are set again before they are read.
EpollAddFails(G) ==
    /\ User /\ G # Fds /\ Free(G)
    /\ \E S \in DelFails(G) : EpollCtlDel(G, S) /\ EpollCtrlDelRef(G, S)
    /\ UNCHANGED <<fr, open, evts, tasks, work>>

\* Mutant: EpollDel is left out on the way back.
EpollBackNoDel ==
    /\ Me # Daemon /\ fr.pc[Me] = "epoll"
    /\ fr' = [fr EXCEPT !.pc[Me] = "user"]
    /\ UNCHANGED <<epoll, evts, tasks, work>>

\* EpollSchedule after the switch: EpollDel, whose result is ignored, then back to
\* the caller.  The list of fds is empty when it is filled again.
EpollBack ==
    /\ Me # Daemon /\ fr.pc[Me] = "epoll"
    /\ LET mine == {f \in fr.fdset[Me] : notify[f] = Me}
       IN \E S \in DelFails(mine) : EpollCtlDel(mine, S) /\ EpollCtrlDelRef(mine, S)
    /\ fr' = [fr EXCEPT !.pc[Me] = "user", !.rcv[Me] = {}, !.fdset[Me] = {}]
    /\ UNCHANGED <<open, evts, tasks, work>>

\* MtFrame::CreateThread, for a request or by mt_start_thread.
CreateThread(x) ==
    /\ User /\ work < MaxWork /\ MayAlloc(fr, x)
    /\ fr' = InsertRunable(AllocThread(fr, x), x)
    /\ work' = work + 1
    /\ UNCHANGED <<epoll, evts, tasks>>

\* CSockLink::NotifyThread, called by a thread whose link breaks or by the
\* daemon in a callback, on a thread that is in WaitNotify and may have been
\* woken before.
NotifyThread(t) ==
    /\ User \/ (Me = Daemon /\ fr.pc[Daemon] \in {"event", "expired"})
    /\ work < MaxWork /\ t \in Users /\ fr.pc[t] = "wait"
    /\ fr' = WakeIo(fr, t)
    /\ work' = work + 1
    /\ UNCHANGED <<epoll, evts, tasks>>

\* MicroThread::Run when the thread function has returned.
Exit ==
    /\ User /\ Me \in Threads
    /\ fr' = ThreadSchdule(FreeThread(
               IF fr.type[Me] = "SUB_THREAD" THEN WakeupParent(fr, Me) ELSE fr, Me))
    /\ UNCHANGED <<epoll, evts, tasks, work>>
----------------------------------------------------------------------------
(* mt_exec_all_task: its loops, an iteration a step *)

ExecAllTask(n) ==
    /\ User /\ n >= 1 /\ work < MaxWork
    /\ fr' = [fr EXCEPT !.pc[Me] = "create"]
    /\ want' = n /\ work' = work + 1
    /\ UNCHANGED <<epoll, evts, made>>

ExecCreate(x) ==
    /\ Me # Daemon /\ fr.pc[Me] = "create" /\ Len(made) < want /\ MayAlloc(fr, x)
    /\ fr' = [AllocThread(fr, x) EXCEPT !.type[x] = "SUB_THREAD"]
    /\ made' = Append(made, x)
    /\ UNCHANGED <<epoll, evts, want, work>>

ExecCreateFails ==
    /\ Me # Daemon /\ fr.pc[Me] = "create" /\ Len(made) < want /\ AllocFails(fr)
    /\ fr' = [fr EXCEPT !.pc[Me] = "undo"]
    /\ UNCHANGED <<epoll, evts, tasks, work>>

ExecStart ==
    /\ Me # Daemon /\ fr.pc[Me] = "create" /\ Len(made) = want
    /\ fr' = [fr EXCEPT !.pc[Me] = "start_subs"]
    /\ UNCHANGED <<epoll, evts, tasks, work>>

ExecAddSub ==
    /\ Me # Daemon /\ fr.pc[Me] = "start_subs" /\ made # <<>>
    /\ fr' = InsertRunable(AddSubThread(fr, Me, Head(made)), Head(made))
    /\ made' = Tail(made)
    /\ UNCHANGED <<epoll, evts, want, work>>

\* Thread::Wait.
ExecWait ==
    /\ Me # Daemon /\ fr.pc[Me] = "start_subs" /\ made = <<>>
    /\ fr' = SwitchContext(InsertPend(fr, Me), "pend")
    /\ want' = 0
    /\ UNCHANGED <<epoll, evts, made, work>>

\* EXIT_LABEL: the threads made so far go back to the pool.
ExecUndo ==
    /\ Me # Daemon /\ fr.pc[Me] = "undo"
    /\ IF made # <<>>
       THEN fr' = FreeThread(fr, Head(made)) /\ made' = Tail(made) /\ UNCHANGED want
       ELSE fr' = [fr EXCEPT !.pc[Me] = "user"] /\ want' = 0 /\ UNCHANGED made
    /\ UNCHANGED <<epoll, evts, work>>
----------------------------------------------------------------------------
(* DaemonRun *)

DaemonAt(p) == Me = Daemon /\ fr.pc[Daemon] = p

\* epoll_wait returns with events of some of the fds it watches, or none.
EpollDispath ==
    /\ DaemonAt("poll")
    /\ \E F \in SUBSET watch : evts' \in [F -> {"IN", "HUP"}]
    /\ fr' = [fr EXCEPT !.pc[Daemon] = "event"]
    /\ work' = 0
    /\ UNCHANGED <<epoll, tasks>>

\* EpollCtrlDel of fds that epoll has just reported, and so watches.
Unwatch(F) == listen' = listen \ F /\ watch' = watch \ F

\* Mutant: the events are not noted in the object.
EpollRcvEventUnset(f) ==
    /\ DaemonAt("event") /\ f \in DOMAIN evts
    /\ evts' = [g \in DOMAIN evts \ {f} |-> evts[g]]
    /\ Unwatch(IF evts[f] = "HUP" \/ notify[f] = None THEN {f} ELSE {})
    /\ fr' = IF notify[f] = None \/ evts[f] = "HUP" THEN fr ELSE WakeIo(fr, notify[f])
    /\ UNCHANGED <<notify, open, tasks, work>>

\* One turn of EpollRcvEventList.  A hangup only stops the watching: the thread
\* waits for its timeout.
EpollRcvEvent(f) ==
    /\ DaemonAt("event") /\ f \in DOMAIN evts
    /\ evts' = [g \in DOMAIN evts \ {f} |-> evts[g]]
    /\ Unwatch(IF evts[f] = "HUP" \/ notify[f] = None THEN {f} ELSE {})
    /\ fr' = IF notify[f] = None THEN fr
             ELSE LET g == [fr EXCEPT !.rcv[notify[f]] = @ \cup {f}]
                  IN IF evts[f] = "HUP" THEN g ELSE WakeIo(g, notify[f])
    /\ UNCHANGED <<notify, open, tasks, work>>

Passed(t, d) == IF fr.left[t] > d THEN fr.left[t] - d ELSE 0

\* SetLastClock: the system clock has advanced by d.
SetLastClock(d) ==
    /\ DaemonAt("event") /\ DOMAIN evts = {}
    /\ fr' = [fr EXCEPT !.left = [t \in All |-> Passed(t, d)], !.pc[Daemon] = "wakeup"]
    /\ evts' = <<>>
    /\ UNCHANGED <<epoll, tasks, work>>

\* HeapTop of the sleep heap.  HeapDelete cannot break the order of fewer than
\* 6 entries; above that the top may be any entry (HeapList).
HeapTops ==
    {t \in fr.sleeplist : Cardinality(Users) < 6
                            => \A u \in fr.sleeplist : fr.left[t] <= fr.left[u]}

\* One turn of WakeupTimeout.
WakeupTimeout(t) ==
    /\ DaemonAt("wakeup") /\ t \in HeapTops /\ fr.left[t] = 0
    /\ fr' = InsertRunable(IF HasFlag(fr, t, "IO_LIST") THEN RemoveIoWait(fr, t)
                                                        ELSE RemoveSleep(fr, t), t)
    /\ UNCHANGED <<epoll, evts, tasks, work>>

WakeupDone ==
    /\ DaemonAt("wakeup")
    /\ fr.sleeplist = {} \/ \E t \in HeapTops : fr.left[t] > 0
    /\ fr' = [fr EXCEPT !.pc[Daemon] = "expired"]
    /\ UNCHANGED <<epoll, evts, tasks, work>>

\* CheckExpired has called the timers; the daemon gives way.
DaemonSwitch ==
    /\ DaemonAt("expired")
    /\ fr' = SwitchContext(fr, "poll")
    /\ UNCHANGED <<epoll, evts, tasks, work>>
----------------------------------------------------------------------------
\* The calls by which a thread gives up the processor.
Yield ==
    \/ \E ms \in Times : Sleep(ms) \/ WaitNotify(ms)
                         \/ \E F \in SUBSET Fds \ {{}} : EpollSchedule(F, ms)
    \/ Exit

Exec ==
    \/ \E x \in Threads : ExecCreate(x)
    \/ ExecCreateFails \/ ExecStart \/ ExecAddSub \/ ExecWait \/ ExecUndo

DaemonStep ==
    \/ EpollDispath
    \/ \E f \in Fds : EpollRcvEvent(f)
    \/ \E d \in Times : SetLastClock(d)
    \/ \E t \in Users : WakeupTimeout(t)
    \/ WakeupDone
    \/ DaemonSwitch

Next ==
    \/ Resume \/ EpollBack \/ Yield \/ Exec \/ DaemonStep
    \/ \E G \in SUBSET Fds : EpollAddFails(G)
    \/ \E f \in Fds : Socket(f) \/ Close(f)
    \/ \E x \in Threads : CreateThread(x)
    \/ \E t \in Users : NotifyThread(t)
    \/ \E n \in 1..MaxTasks : ExecAllTask(n)

Spec == Init /\ [][Next]_vars

\* The one process goes on; a thread that runs gives up the processor some time;
\* the system clock advances.
Fairness ==
    /\ WF_vars(Resume \/ EpollBack) /\ WF_vars(Yield) /\ WF_vars(Exec)
    /\ WF_vars(DaemonStep)
    /\ SF_vars(SetLastClock(MaxTimeout))

LiveSpec == Spec /\ Fairness
----------------------------------------------------------------------------
(* Properties *)

Elems(s) == {s[i] : i \in DOMAIN s}

TypeOK ==
    /\ fr.active \in All
    /\ fr.runlist \in Seq(Users) /\ fr.freelist \in Seq(Threads)
    /\ fr.iolist \subseteq Users /\ fr.sleeplist \subseteq Users
    /\ fr.pendlist \subseteq Users
    /\ fr.live \subseteq Pool /\ Daemon \in fr.live
    /\ fr.total \in Nat /\ fr.use \in Nat
    /\ fr.flag \in [All -> SUBSET Flags]
    /\ fr.type \in [All -> {"NORMAL", "PRIMORDIAL", "DAEMON", "SUB_THREAD"}]
    /\ fr.parent \in [All -> Users \cup {None}]
    /\ fr.sub \in [All -> SUBSET Threads]
    /\ fr.left \in [All -> Times]
    /\ fr.fdset \in [All -> SUBSET Fds] /\ fr.rcv \in [All -> SUBSET Fds]
    /\ notify \in [Fds -> Users \cup {None}]
    /\ listen \subseteq Fds /\ open \subseteq Fds /\ watch \subseteq Fds
    /\ made \in Seq(Threads)

\* A parent that waits in mt_exec_all_task has a sub thread that will wake it.
PendHasSubs ==
    \A t \in fr.pendlist :
      /\ fr.sub[t] # {}
      /\ \A s \in fr.sub[t] : /\ fr.parent[s] = t /\ fr.type[s] = "SUB_THREAD"
                              /\ ~HasFlag(fr, s, "FREE_LIST")

\* Every thread is in exactly one place, and its flags say which: it runs, it is
\* in the run list, the sleep heap, the IO list (and the heap), the pend list,
\* the free list or the local list of mt_exec_all_task.  No list holds it twice.
\* Where no timeout reaches it, in the pend list, somebody is left to wake it.
OnePlace ==
    LET At(t) == {p \in {"active", "run", "sleep", "pend", "free", "made"} :
                    CASE p = "active" -> fr.active = t
                      [] p = "run"    -> t \in Elems(fr.runlist)
                      [] p = "sleep"  -> t \in fr.sleeplist
                      [] p = "pend"   -> t \in fr.pendlist
                      [] p = "free"   -> t \in Elems(fr.freelist)
                      [] p = "made"   -> t \in Elems(made)}
    IN /\ \A t \in Users \cap (fr.live \cup {Primo}) :
            /\ Cardinality(At(t)) = 1
            /\ HasFlag(fr, t, "RUN_LIST")   <=> t \in Elems(fr.runlist)
            /\ HasFlag(fr, t, "SLEEP_LIST") <=> t \in fr.sleeplist
            /\ HasFlag(fr, t, "IO_LIST")    <=> t \in fr.iolist
            /\ HasFlag(fr, t, "PEND_LIST")  <=> t \in fr.pendlist
            /\ HasFlag(fr, t, "FREE_LIST")  <=> t \in Elems(fr.freelist)
       /\ fr.iolist \subseteq fr.sleeplist
       /\ \A s \in {fr.runlist, fr.freelist, made} : \A i, j \in DOMAIN s :
            s[i] = s[j] => i = j
       /\ PendHasSubs

\* _total_num is the number of threads that exist and _use_num the number of
\* those that are not free; the quota holds, unless the pool started above it.
PoolExact ==
    /\ fr.total = Cardinality(fr.live)
    /\ fr.use = fr.total - Len(fr.freelist)
    /\ fr.total <= MaxNum \/ fr.total <= DefaultNum

\* No list, parent pointer or epoll object that an event can reach leads to a thread
\* that FreeThread has deleted.
NoDangling ==
    LET held == {fr.active} \cup Elems(fr.runlist) \cup Elems(fr.freelist) \cup Elems(made)
                \cup fr.sleeplist \cup fr.iolist \cup fr.pendlist
                \cup {notify[f] : f \in watch}
                \cup UNION {fr.sub[t] \cup {fr.parent[t]} : t \in fr.live \cup {Primo}}
    IN held \subseteq fr.live \cup {Primo, None}

\* The pool and what leads to its threads: types, counters, no pointer to a thread
\* that was deleted (AllocThread, FreeThread, RemoveSubThread).
PoolSound == TypeOK /\ PoolExact /\ NoDangling

\* A thread comes back from EpollSchedule with an event or when its time is up.
WokenForReason ==
    fr.pc[Me] = "epoll" => fr.rcv[Me] # {} \/ fr.left[Me] = 0

\* What epoll watches is open, known to the frame and has the object of a thread
\* that is inside EpollSchedule with it: no event meets an object on a stack that is
\* gone, although fds are closed and opened under the threads that wait for them and
\* EpollDel may fail and leave objects behind (EpollerObj::EpollCtlDel).
EpollClosed ==
    /\ watch \subseteq listen \cap open
    /\ \A f \in listen : notify[f] # None
    /\ \A f \in watch : fr.pc[notify[f]] = "epoll" /\ f \in fr.fdset[notify[f]]

\* EpollSchedule adds and deletes its objects in one function, so that none is left
\* behind when it returns (the comment of its call of EpollDel).  The code does not
\* guarantee it: EpollCtlDel puts the object back when epoll_ctl fails.
NoneLeft ==
    \A f \in Fds :
      notify[f] # None => fr.pc[notify[f]] = "epoll" /\ f \in fr.fdset[notify[f]]

\* A thread inside sleep, WaitNotify or EpollSchedule runs again: no wakeup is
\* lost, and a hangup, which wakes nobody, leaves the timeout to do it.
WakesUp ==
    \A t \in Users : fr.pc[t] \in {"sleep", "wait", "epoll"} ~> fr.active = t
=============================================================================
