------------------------------ MODULE ProcMon ------------------------------
(***************************************************************************)
(* The process monitor of the controller (comm/tbase/tprocmon.cpp, driven  *)
(* by controller/defaultctrl.cpp) over one group of workers: heartbeats,   *)
(* the size of the group, dead processes replaced, exceptions reported by  *)
(* a dying worker, and the hot reload.  Workers are daemons: the monitor   *)
(* knows them only by the messages in a System V queue and by kill(pid, 0).*)
(*                                                                         *)
(* Time is a choice: a waiting period may or may not be over.  A worker    *)
(* that runs reports more often than its heartbeat limit; one that is dead *)
(* or hangs does not.  A pid is used again only when the monitor no longer *)
(* knows it.                                                               *)
(***************************************************************************)
EXTENDS Integers, Sequences, FiniteSets

CONSTANTS
    Pids,               \* bound: processes at one time
    MinNum, MaxNum,     \* minprocnum_, maxprocnum_
    ExceptionRestart,   \* _spp_g_exceptionrestart
    MaxMsg,             \* bound: messages of one process in the queue
    MaxFault,           \* bound: workers that crash or hang
    MaxReload           \* bound: reload signals

ASSUME GroupAssumption ==
    /\ IsFiniteSet(Pids)
    /\ MinNum \in Nat \ {0} /\ MaxNum \in Nat /\ MinNum <= MaxNum
    /\ ExceptionRestart \in BOOLEAN
    /\ MaxMsg \in Nat \ {0} /\ MaxFault \in Nat /\ MaxReload \in Nat

VARIABLES
    state,      \* what each worker does; "none": no such process
    msgs,       \* its messages in the queue
    told,       \* workers with a SIGUSR1 or SIGUSR2 to act on
    killed,     \* workers with a SIGKILL under way
    procs,      \* bucket_: the processes the group knows
    cur,        \* curprocnum_
    reload,     \* reload_
    tag,        \* reload_tag of the group
    pc,         \* where the main loop of the controller is
    stack,      \* calls of do_event that run, innermost first
    more,       \* processes PROCUP still has to stop
    beaten,     \* workers that have reported since the controller last slept
    silent,     \* workers that were dead or hung when it last slept
    handled,    \* it has not slept since it started or read the reload flag
    replaced,   \* history: workers that a reload took off the list, not dead yet
    faults, reloads

worker  == <<state, told, killed, replaced>>
group   == <<procs, cur, reload, tag>>
round   == <<beaten, silent, handled>>
control == <<pc, stack, more, round>>
bounds  == <<faults, reloads>>
vars    == <<state, msgs, told, killed, procs, cur, reload, tag, pc, stack, more,
             beaten, silent, handled, replaced, faults, reloads>>

Alive(p) == state[p] # "none"
Mute(p)  == state[p] \in {"none", "hung", "dying"}

\* curprocnum_ is not GROUP_UNUSED.
InUse == cur # -1

\* add_group has run; the first run of the monitor forks the group.
Init ==
    /\ state = [p \in Pids |-> "none"] /\ msgs = [p \in Pids |-> <<>>]
    /\ told = {} /\ killed = {}
    /\ procs = {} /\ cur = 0 /\ reload = "NORMAL" /\ tag = {}
    /\ pc = "recv" /\ stack = <<>> /\ more = 0 /\ beaten = {} /\ silent = {}
    /\ handled = TRUE
    /\ replaced = {} /\ faults = 0 /\ reloads = 0
----------------------------------------------------------------------------
(* Workers *)

\* A message that finds the queue full is dropped (IPC_NOWAIT).
Send(p, m) ==
    msgs' = IF Len(msgs[p]) < MaxMsg THEN [msgs EXCEPT ![p] = Append(@, m)] ELSE msgs

Become(p, s) ==
    /\ state' = [state EXCEPT ![p] = s]
    /\ IF s = "none" THEN /\ told' = told \ {p} /\ killed' = killed \ {p}
                          /\ replaced' = replaced \ {p}
                     ELSE UNCHANGED <<told, killed, replaced>>

\* initconf reports once, reserve_[0] set, before it calls spp_handle_init.
Report(p) ==
    /\ state[p] \in {"forked", "slow"}
    /\ Become(p, "init") /\ Send(p, "init")
    /\ UNCHANGED <<group, control, bounds>>

Ready(p) ==
    /\ state[p] = "init"
    /\ Become(p, "up")
    /\ UNCHANGED <<msgs, group, control, bounds>>

\* The loop of realrun looks for signals, then reports if it is time.  The
\* interval of the reports is longer than the 3 seconds the controller sleeps.
Time(p) ==
    /\ state[p] = "up" /\ p \notin told /\ p \notin beaten
    /\ Become(p, "report") /\ beaten' = beaten \cup {p}
    /\ UNCHANGED <<msgs, group, pc, stack, more, silent, handled, bounds>>

Beat(p) ==
    /\ state[p] = "report"
    /\ Become(p, "up") /\ Send(p, "beat")
    /\ UNCHANGED <<group, control, bounds>>

\* quit() or reload() in the loop of realrun.
Quit(p) ==
    /\ state[p] = "up" /\ p \in told
    /\ Become(p, "none")
    /\ UNCHANGED <<msgs, group, control, bounds>>

\* The process ends: SIGKILL takes effect, or the signal handler is done.
Die(p) ==
    /\ Alive(p) /\ (p \in killed \/ state[p] = "dying")
    /\ Become(p, "none")
    /\ UNCHANGED <<msgs, group, control, bounds>>

\* A worker takes more than ADJUST_PROC_DELAY to report, hangs, ends in its
\* signal handler, or just disappears.
Fault(p) ==
    /\ Alive(p) /\ state[p] # "dying" /\ p \notin killed /\ faults < MaxFault
    /\ faults' = faults + 1
    /\ \/ state[p] = "forked" /\ Become(p, "slow") /\ UNCHANGED msgs
       \/ state[p] \in {"init", "up", "report"} /\ Become(p, "hung") /\ UNCHANGED msgs
       \/ /\ state[p] \in {"init", "up", "report", "hung"}
          /\ Become(p, "dying") /\ Send(p, "exception")
       \/ Become(p, "none") /\ UNCHANGED msgs
    /\ UNCHANGED <<group, control, reloads>>
----------------------------------------------------------------------------
(* The lists of the group, and signals *)

AddProc(p) == procs' = procs \cup {p} /\ cur' = cur + 1

\* curprocnum_ goes down whether the process was found or not.
DelProc(p) == procs' = procs \ {p} /\ cur' = cur - 1

Known == procs \cup tag \cup {stack[i].pid : i \in DOMAIN stack}
Unused == {p \in Pids \ Known : state[p] = "none" /\ msgs[p] = <<>>}

\* system() starts a daemon, unless the limit on processes is reached.
DoFork(n) ==
    \E S \in SUBSET Unused :
        /\ Cardinality(S) = n \/ (S = Unused /\ Cardinality(S) < n)
        /\ state' = [p \in Pids |-> IF p \in S THEN "forked" ELSE state[p]]

\* A signal reaches the processes that exist.
Existing(S) == {p \in S : Alive(p)}
----------------------------------------------------------------------------
(* do_recv: one message a step.  Messages of one process keep their order.  *)

Top == Head(stack)
InRecv == IF stack = <<>> THEN pc = "recv" ELSE Top.at = "recv"
Wanted == IF stack = <<>> THEN Pids ELSE {Top.pid}

\* Mutant: a worker that has not run spp_handle_init counts.
HeartbeatEarly(p, m) ==
    IF InUse /\ p \notin procs /\ (reload = "NORMAL" \/ p \notin tag)
    THEN AddProc(p) ELSE UNCHANGED <<procs, cur>>

\* Mutant: reload_tag is not looked at.
HeartbeatOld(p, m) ==
    IF InUse /\ p \notin procs /\ (reload = "NORMAL" \/ m # "init")
    THEN AddProc(p) ELSE UNCHANGED <<procs, cur>>

\* Mutant: while the group reloads, the list is not searched.
HeartbeatAgain(p, m) ==
    IF InUse /\ IF reload = "NORMAL" THEN p \notin procs ELSE m # "init" /\ p \notin tag
    THEN AddProc(p) ELSE UNCHANGED <<procs, cur>>

\* An unknown process joins the group; while the group reloads not before its
\* spp_handle_init is done, and not if it is one of the old processes.
Heartbeat(p, m) ==
    IF InUse /\ p \notin procs /\ (reload = "NORMAL" \/ (m # "init" /\ p \notin tag))
    THEN AddProc(p) ELSE UNCHANGED <<procs, cur>>

Recv(p) ==
    /\ InRecv /\ p \in Wanted /\ msgs[p] # <<>>
    /\ msgs' = [msgs EXCEPT ![p] = Tail(@)]
    /\ IF Head(msgs[p]) = "exception"
       THEN /\ stack' = IF ExceptionRestart /\ InUse /\ p \in procs
                        THEN <<[op |-> "dead", pid |-> p, at |-> "kill"]>> \o stack
                        ELSE stack
            /\ UNCHANGED <<procs, cur>>
       ELSE Heartbeat(p, Head(msgs[p])) /\ UNCHANGED stack
    /\ UNCHANGED <<worker, reload, tag, pc, more, round, bounds>>

RecvAll ==
    /\ pc = "recv" /\ stack = <<>> /\ \A p \in Pids : msgs[p] = <<>>
    /\ pc' = "check"
    /\ UNCHANGED <<worker, msgs, group, stack, more, round, bounds>>
----------------------------------------------------------------------------
(* do_check on a group that reloads *)

InCheck(r) == pc = "check" /\ InUse /\ reload = r

ReloadStart ==
    /\ InCheck("START")
    /\ DoFork(MinNum)
    /\ reload' = "WAIT_NEW" /\ pc' = "sleep"
    /\ UNCHANGED <<msgs, told, killed, replaced, procs, cur, tag, stack, more,
                   round, bounds>>

\* Enough new processes, or 30 seconds are over: the old ones are told to go.
ReloadWaitNew ==
    /\ InCheck("WAIT_NEW")
    /\ pc' = "sleep"
    /\ \/ told' = told \cup Existing(tag) /\ reload' = "KILLOLD"
       \/ cur \in 0 .. MinNum - 1 /\ UNCHANGED <<told, reload>>
    /\ UNCHANGED <<msgs, state, killed, replaced, procs, cur, tag, stack, more,
                   round, bounds>>

ReloadKillOld ==
    /\ InCheck("KILLOLD")
    /\ told' = told \cup Existing(tag)
    /\ reload' = "CLEAR" /\ pc' = "sleep"
    /\ UNCHANGED <<msgs, state, killed, replaced, procs, cur, tag, stack, more,
                   round, bounds>>

\* Mutant: after 30 seconds the reload is over.
ReloadClearLate ==
    /\ InCheck("CLEAR")
    /\ pc' = "sleep"
    /\ IF Existing(tag) = {}
       THEN tag' = {} /\ reload' = "NORMAL" /\ UNCHANGED killed
       ELSE \/ killed' = killed \cup Existing(tag) /\ tag' = {} /\ reload' = "NORMAL"
            \/ UNCHANGED <<killed, tag, reload>>
    /\ UNCHANGED <<msgs, state, told, replaced, procs, cur, stack, more,
                   round, bounds>>

\* Mutant: SIGKILL is never sent.
ReloadClearPolite ==
    /\ InCheck("CLEAR")
    /\ pc' = "sleep"
    /\ IF Existing(tag) = {} THEN tag' = {} /\ reload' = "NORMAL"
                             ELSE UNCHANGED <<tag, reload>>
    /\ UNCHANGED <<msgs, state, told, killed, replaced, procs, cur, stack, more,
                   round, bounds>>

\* All old processes are dead, or 30 seconds are over and they are killed.
ReloadClear ==
    /\ InCheck("CLEAR")
    /\ pc' = "sleep"
    /\ IF Existing(tag) = {}
       THEN tag' = {} /\ reload' = "NORMAL" /\ UNCHANGED killed
       ELSE /\ killed' \in {killed, killed \cup Existing(tag)}
            /\ UNCHANGED <<tag, reload>>
    /\ UNCHANGED <<msgs, state, told, replaced, procs, cur, stack, more,
                   round, bounds>>
----------------------------------------------------------------------------
(* do_check on a group in service: check_group, then check_proc for each    *)

\* Within ADJUST_PROC_DELAY of the last adjustment the size is left alone.  A
\* group whose count is GROUP_UNUSED is passed over.
CheckGroupSkip ==
    /\ pc = "check" /\ (InUse => reload = "NORMAL")
    /\ pc' = IF InUse THEN "procs" ELSE "sleep"
    /\ UNCHANGED <<worker, msgs, group, stack, more, round, bounds>>

Starting ==
    {p \in Pids : state[p] = "forked" \/ \E i \in DOMAIN msgs[p] : msgs[p][i] = "init"}

\* ADJUST_PROC_DELAY is over: what the last adjustment forked has reported, if it
\* is not slow.  check_groupbusy is a choice: the load is the clients'.
CheckGroup ==
    /\ InCheck("NORMAL") /\ Starting = {}
    /\ \E busy \in BOOLEAN :
         LET less == IF cur < MinNum THEN MinNum - cur
                     ELSE IF busy /\ cur < MaxNum THEN 1 ELSE 0
             many == IF cur > MaxNum THEN cur - MaxNum
                     ELSE IF cur > MinNum /\ ~busy THEN 1 ELSE 0
         IN /\ DoFork(less)
            /\ more' = many
            /\ pc' = IF many > 0 THEN "up" ELSE "procs"
    /\ UNCHANGED <<msgs, told, killed, replaced, group, stack, round, bounds>>

\* PROCUP: SIGUSR1 to a process, then its messages are read.
ProcUp(p) ==
    /\ pc = "up" /\ stack = <<>> /\ more > 0 /\ p \in procs
    /\ told' = told \cup Existing({p})
    /\ stack' = <<[op |-> "up", pid |-> p, at |-> "recv"]>>
    /\ UNCHANGED <<msgs, state, killed, replaced, group, pc, more, round, bounds>>

\* ... and it is off the list.
ProcUpDel ==
    /\ stack # <<>> /\ Top.op = "up" /\ msgs[Top.pid] = <<>>
    /\ DelProc(Top.pid)
    /\ stack' = Tail(stack) /\ more' = more - 1
    /\ UNCHANGED <<worker, msgs, reload, tag, pc, round, bounds>>

ProcUpDone ==
    /\ pc = "up" /\ stack = <<>> /\ (more = 0 \/ procs = {})
    /\ more' = 0 /\ pc' = "procs"
    /\ UNCHANGED <<worker, msgs, group, stack, round, bounds>>

\* check_proc: a process that is dead or hangs has sent no heartbeat for longer
\* than the limit, which is longer than a round of the controller.
CheckProc(p) ==
    /\ pc = "procs" /\ stack = <<>> /\ p \in procs \cap silent /\ Mute(p)
    /\ stack' = <<[op |-> "dead", pid |-> p, at |-> "kill"]>>
    /\ UNCHANGED <<worker, msgs, group, pc, more, round, bounds>>

CheckDone ==
    /\ pc = "procs" /\ stack = <<>>
    /\ pc' = "sleep"
    /\ UNCHANGED <<worker, msgs, group, stack, more, round, bounds>>
----------------------------------------------------------------------------
(* do_event(PROCDEAD), from check_proc or from process_exception            *)

At(op, at) == stack # <<>> /\ Top.op = op /\ Top.at = at
GoOn(at)   == <<[op |-> Top.op, pid |-> Top.pid, at |-> at]>> \o Tail(stack)

DeadKill ==
    /\ At("dead", "kill")
    /\ killed' = killed \cup Existing({Top.pid})
    /\ stack' = GoOn("probe")
    /\ UNCHANGED <<state, msgs, told, replaced, group, pc, more, round, bounds>>

\* Mutant: a process that is gone is taken for one that is left.
DeadProbeGone ==
    /\ At("dead", "probe")
    /\ stack' = IF ~Alive(Top.pid) THEN Tail(stack) ELSE GoOn("recv")
    /\ UNCHANGED <<worker, msgs, group, pc, more, round, bounds>>

\* After 10 ms: a process that still exists (D or T) stays on the list.
DeadProbe ==
    /\ At("dead", "probe")
    /\ stack' = IF Alive(Top.pid) THEN Tail(stack) ELSE GoOn("recv")
    /\ UNCHANGED <<worker, msgs, group, pc, more, round, bounds>>

\* Its messages are gone; it is off the list and a new process is forked.  When
\* one of those messages was an exception, an inner do_event has deleted the
\* process: the ids are then read from freed memory and may name another group.
DeadDel ==
    /\ At("dead", "recv") /\ msgs[Top.pid] = <<>>
    /\ procs' = procs \ {Top.pid}
    /\ cur' \in IF Top.pid \in procs THEN {cur - 1} ELSE {cur - 1, cur}
    /\ DoFork(1)
    /\ stack' = Tail(stack)
    /\ UNCHANGED <<msgs, told, killed, replaced, reload, tag, pc, more, round, bounds>>
----------------------------------------------------------------------------
(* The main loop of CDefaultCtrl *)

Sleep ==
    /\ pc = "sleep"
    /\ pc' = "recv" /\ beaten' = {} /\ handled' = FALSE
    /\ silent' = {p \in procs : Mute(p)}
    /\ UNCHANGED <<worker, msgs, group, stack, more, bounds>>

\* reloadconf after a SIGUSR2: pre_reload_group, and the monitor runs at once.
\* What reload_tag held before is overwritten.
Reload ==
    /\ pc = "sleep" /\ ~handled /\ reloads < MaxReload
    /\ reloads' = reloads + 1 /\ handled' = TRUE
    /\ tag' = procs /\ procs' = {} /\ cur' = 0 /\ reload' = "START"
    /\ replaced' = replaced \cup Existing(procs)
    /\ pc' = "recv"
    /\ UNCHANGED <<state, msgs, told, killed, stack, more, beaten, silent, faults>>
----------------------------------------------------------------------------
Work(p) == Report(p) \/ Ready(p) \/ Time(p) \/ Beat(p)
End(p)  == Quit(p) \/ Die(p)

Monitor ==
    \/ \E p \in Pids : Recv(p) \/ ProcUp(p) \/ CheckProc(p)
    \/ RecvAll \/ ReloadStart \/ ReloadWaitNew \/ ReloadKillOld \/ ReloadClear
    \/ CheckGroupSkip \/ CheckGroup \/ ProcUpDel \/ ProcUpDone \/ CheckDone
    \/ DeadKill \/ DeadProbe \/ DeadDel \/ Sleep \/ Reload

Next == Monitor \/ \E p \in Pids : Work(p) \/ End(p) \/ Fault(p)

Spec == Init /\ [][Next]_vars

\* The controller goes on, and its waiting periods end; a worker that does not
\* hang comes up, reports and obeys; SIGKILL takes effect.
Fairness ==
    /\ WF_vars(Monitor)
    /\ SF_vars(CheckGroup) /\ SF_vars(\E p \in Pids : CheckProc(p))
    /\ SF_vars(ReloadWaitNew /\ reload' = "KILLOLD")
    /\ SF_vars(ReloadClear /\ (killed' # killed \/ reload' = "NORMAL"))
    /\ \A p \in Pids : WF_vars(Work(p)) /\ WF_vars(End(p))

LiveSpec == Spec /\ Fairness
----------------------------------------------------------------------------
(* Properties *)

States == {"none", "forked", "slow", "init", "up", "report", "hung",
           "dying"}
Frames == [op : {"up", "dead"}, pid : Pids, at : {"kill", "probe", "recv"}]

TypeOK ==
    /\ state \in [Pids -> States]
    /\ \A p \in Pids : /\ msgs[p] \in Seq({"init", "beat", "exception"})
                       /\ Len(msgs[p]) <= MaxMsg
    /\ told \subseteq Pids /\ killed \subseteq Pids /\ beaten \subseteq Pids
    /\ silent \subseteq Pids /\ handled \in BOOLEAN
    /\ procs \subseteq Pids /\ cur \in Int /\ tag \subseteq Pids
    /\ reload \in {"NORMAL", "START", "WAIT_NEW", "KILLOLD", "CLEAR"}
    /\ pc \in {"recv", "check", "up", "procs", "sleep"}
    /\ stack \in Seq(Frames) /\ more \in Nat

\* curprocnum_ ("current number of processes", tprocmon.h) is never above the
\* number of processes on the list, by which check_group sizes the group, and
\* never short of it by more than one for each worker that failed: however
\* do_event is nested by an exception (process_exception), one failure is
\* counted down at most twice.  Without restarts by exception it is exact.
CountShort ==
    LET short == Cardinality(procs) - cur
    IN  0 <= short /\ short <= (IF ExceptionRestart THEN faults ELSE 0)

\* A group with processes to look after is never taken for an unused one: at
\* GROUP_UNUSED its heartbeats are ignored and it is not checked any more.
StaysInUse == InUse

\* A process on the list of a group that reloads is not one of the old ones.
OldApart == tag \cap procs = {} /\ (reload = "NORMAL" => tag = {})

\* While a group reloads a worker joins it only after spp_handle_init: the old
\* processes are not stopped for new ones that cannot serve yet.
JoinReady ==
    [][\A p \in procs' \ procs :
         reload # "NORMAL" => state[p] \notin {"forked", "slow", "init"}]_vars

\* The reload is over only when every process it replaced is dead.
OldGone == reload = "NORMAL" => replaced = {}

\* Every reload ends, even if old workers hang.
ReloadEnds == reload # "NORMAL" ~> reload = "NORMAL"

\* Whatever crashes and hangs (and is found by its missing heartbeat), the group has
\* its minimum of live workers again and again: none is lost from sight, and ghosts
\* on the list are found.  (They may be in spp_handle_init: PROCUP does not care which
\* worker it stops.)  The one exception is a group taken for an unused one by a
\* process that was counted down twice (del_proc in a nested do_event).
Recovers == []<>(Cardinality({p \in procs : ~Mute(p)}) >= MinNum \/ ~InUse)
=============================================================================
