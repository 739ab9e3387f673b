--------------------------- MODULE ProcMon_proofs ---------------------------
(***************************************************************************)
(* Proofs about the process monitor, for every number of processes, every  *)
(* size of the group and every number of faults.                           *)
(***************************************************************************)
EXTENDS ProcMon, FiniteSetTheorems, TLAPS

\* The parts of the group that an action may leave alone.
Steady == UNCHANGED <<procs, tag, reload>>

\* What a step of the specification does to the lists of the group.
LEMMA GroupStep ==
    ASSUME [Next]_vars
    PROVE  \/ Steady
           \/ procs' \subseteq procs /\ UNCHANGED <<tag, reload>>
           \/ /\ \E p \in Pids : p \notin procs /\ procs' = procs \cup {p}
                                 /\ (reload = "NORMAL" \/ p \notin tag)
              /\ UNCHANGED <<tag, reload>>
           \/ UNCHANGED <<procs, tag>> /\ reload # "NORMAL" /\ reload' # "NORMAL"
           \/ UNCHANGED procs /\ tag' = {} /\ reload' = "NORMAL"
              /\ Existing(tag) = {} /\ reload = "CLEAR" /\ UNCHANGED <<state, replaced>>
           \/ tag' = procs /\ procs' = {} /\ reload' = "START"
  <1>1. CASE UNCHANGED vars
    BY <1>1 DEF vars, Steady
  <1>2. CASE \E p \in Pids : Work(p) \/ End(p) \/ Fault(p)
    BY <1>2 DEF Work, End, Report, Ready, Time, Beat, Quit, Die, Fault, group, Steady
  <1>3. CASE \E p \in Pids : Recv(p)
    <2>1. PICK p \in Pids : Recv(p)  BY <1>3
    <2>2. UNCHANGED <<tag, reload>>  BY <2>1 DEF Recv
    <2>3. CASE Head(msgs[p]) = "exception"
      BY <2>1, <2>2, <2>3 DEF Recv, Steady
    <2>4. CASE Head(msgs[p]) # "exception"
      BY <2>1, <2>2, <2>4 DEF Recv, Heartbeat, AddProc, Steady
    <2> QED  BY <2>3, <2>4
  <1>4. CASE ReloadStart \/ ReloadWaitNew \/ ReloadKillOld
    BY <1>4 DEF ReloadStart, ReloadWaitNew, ReloadKillOld, InCheck, Steady
  <1>5. CASE ReloadClear
    BY <1>5 DEF ReloadClear, InCheck, Steady
  <1>6. CASE ProcUpDel \/ DeadDel
    BY <1>6 DEF ProcUpDel, DeadDel, DelProc
  <1>7. CASE Reload
    BY <1>7 DEF Reload
  <1>8. CASE \/ \E p \in Pids : ProcUp(p) \/ CheckProc(p)
             \/ RecvAll \/ CheckGroupSkip \/ CheckGroup \/ ProcUpDone \/ CheckDone
             \/ DeadKill \/ DeadProbe \/ Sleep
    BY <1>8 DEF ProcUp, CheckProc, RecvAll, CheckGroupSkip, CheckGroup, ProcUpDone,
                CheckDone, DeadKill, DeadProbe, Sleep, group, Steady
  <1> QED
    BY <1>1, <1>2, <1>3, <1>4, <1>5, <1>6, <1>7, <1>8 DEF Next, Monitor

\* A heartbeat never brings an old process back while the group reloads, and the
\* memory of the old processes is empty in service (do_recv, pre_reload_group).
THEOREM ReloadApart == Spec => []OldApart
  <1>1. Init => OldApart  BY DEF Init, OldApart
  <1>2. OldApart /\ [Next]_vars => OldApart'
    BY GroupStep DEF OldApart, Steady
  <1> QED  BY <1>1, <1>2, PTL DEF Spec
-----------------------------------------------------------------------------
(* The processes a reload replaced.                                         *)

\* As long as the controller got one reload signal, the live processes that it
\* replaced are those of reload_tag.
ReplacedInv ==
    /\ OldApart
    /\ state \in [Pids -> States]
    /\ procs \subseteq Pids /\ tag \subseteq Pids /\ replaced \subseteq Pids
    /\ reloads \in Nat
    /\ reloads = 0 => replaced = {}
    /\ replaced \subseteq tag
    /\ \A p \in replaced : Alive(p)

\* The lists hold processes.
LEMMA ListStep ==
    ASSUME [Next]_vars, procs \subseteq Pids, tag \subseteq Pids
    PROVE  procs' \subseteq Pids /\ tag' \subseteq Pids
  BY GroupStep DEF Steady

\* A worker that changes its state is replaced no longer only when it is dead.
LEMMA BecomeReplaced ==
    ASSUME ReplacedInv, NEW p \in Pids, NEW s \in States, Become(p, s)
    PROVE  /\ state' \in [Pids -> States]
           /\ replaced' \subseteq replaced /\ \A q \in replaced' : (Alive(q))'
  BY DEF ReplacedInv, Become, Alive

\* do_fork makes live what was not there.
LEMMA ForkReplaced ==
    ASSUME ReplacedInv, NEW n, DoFork(n), UNCHANGED replaced
    PROVE  /\ state' \in [Pids -> States]
           /\ \A q \in replaced' : (Alive(q))'
  BY DEF ReplacedInv, DoFork, Alive, States, Unused

\* One step keeps the invariant.
LEMMA ReplacedStep ==
    ASSUME MaxReload <= 1, ReplacedInv, [Next]_vars
    PROVE  ReplacedInv'
  <1>1. OldApart' /\ procs' \subseteq Pids /\ tag' \subseteq Pids
    BY GroupStep, ListStep DEF ReplacedInv, OldApart, Steady
  <1>2. CASE \E p \in Pids : Work(p) \/ End(p) \/ Fault(p)
    <2>1. PICK p \in Pids : Work(p) \/ End(p) \/ Fault(p)  BY <1>2
    <2>2. \E s \in States : Become(p, s)
      BY <2>1 DEF Work, End, Report, Ready, Time, Beat, Quit, Die, Fault, States
    <2>3. UNCHANGED <<tag, reloads>>
      BY <2>1 DEF Work, End, Report, Ready, Time, Beat, Quit, Die, Fault, group, bounds
    <2> QED  BY <1>1, <2>2, <2>3, BecomeReplaced DEF ReplacedInv
  <1>3. CASE ReloadStart \/ CheckGroup \/ DeadDel
    <2>1. \E n : DoFork(n)
      BY <1>3 DEF ReloadStart, CheckGroup, DeadDel
    <2>2. UNCHANGED <<tag, reloads, replaced>>
      BY <1>3 DEF ReloadStart, CheckGroup, DeadDel, group, bounds
    <2> QED  BY <1>1, <2>1, <2>2, ForkReplaced DEF ReplacedInv
  <1>4. CASE ReloadClear
    <2>1. UNCHANGED <<state, replaced, reloads>>
      BY <1>4 DEF ReloadClear, bounds
    <2>2. tag' = tag \/ Existing(tag) = {}
      BY <1>4 DEF ReloadClear
    <2>3. Existing(tag) = {} => replaced = {}
      BY DEF ReplacedInv, Existing
    <2>4. replaced' \subseteq tag'
      BY <2>1, <2>2, <2>3 DEF ReplacedInv
    <2>5. \A q \in replaced' : (Alive(q))'
      BY <2>1 DEF ReplacedInv, Alive
    <2> QED  BY <1>1, <2>1, <2>4, <2>5 DEF ReplacedInv
  <1>5. CASE Reload
    <2>1. /\ reloads < MaxReload /\ reloads' = reloads + 1 /\ tag' = procs
          /\ replaced' = replaced \cup Existing(procs) /\ state' = state
      BY <1>5 DEF Reload
    <2>2. reloads = 0  BY <2>1, GroupAssumption DEF ReplacedInv
    <2>3. replaced' = Existing(procs)  BY <2>1, <2>2 DEF ReplacedInv
    <2>4. replaced' \subseteq tag' /\ replaced' \subseteq Pids
      BY <2>1, <2>3 DEF Existing, ReplacedInv
    <2>5. \A q \in replaced' : (Alive(q))'
      BY <2>1, <2>3 DEF Existing, Alive
    <2>6. reloads' \in Nat /\ reloads' # 0  BY <2>1, <2>2
    <2>7. state' \in [Pids -> States]  BY <2>1 DEF ReplacedInv
    <2> QED  BY <1>1, <2>4, <2>5, <2>6, <2>7 DEF ReplacedInv
  <1>6. CASE \/ \E p \in Pids : Recv(p) \/ ProcUp(p) \/ CheckProc(p)
             \/ RecvAll \/ ReloadWaitNew \/ ReloadKillOld \/ CheckGroupSkip
             \/ ProcUpDel \/ ProcUpDone \/ CheckDone \/ DeadKill \/ DeadProbe \/ Sleep
             \/ UNCHANGED vars
    <2>1. UNCHANGED <<state, tag, replaced, reloads>>
      BY <1>6 DEF Recv, ProcUp, CheckProc, RecvAll, ReloadWaitNew, ReloadKillOld,
           CheckGroupSkip, ProcUpDel, ProcUpDone, CheckDone, DeadKill, DeadProbe, Sleep,
           worker, group, bounds, vars
    <2>2. \A q \in replaced' : (Alive(q))'
      BY <2>1 DEF ReplacedInv, Alive
    <2> QED  BY <1>1, <2>1, <2>2 DEF ReplacedInv
  <1> QED  BY <1>2, <1>3, <1>4, <1>5, <1>6 DEF Next, Monitor

\* With one reload signal the reload is over only when every process it replaced
\* is dead; only a second signal, which overwrites reload_tag, loses one.
THEOREM ReloadComplete == ASSUME MaxReload <= 1 PROVE Spec => []OldGone
  <1>1. Init => ReplacedInv
    BY DEF Init, ReplacedInv, OldApart, States, Alive
  <1>2. ReplacedInv /\ [Next]_vars => ReplacedInv'
    BY ReplacedStep
  <1>3. ReplacedInv => OldGone
    BY DEF ReplacedInv, OldApart, OldGone
  <1> QED  BY <1>1, <1>2, <1>3, PTL DEF Spec
-----------------------------------------------------------------------------
(* The count of the group, without restarts by exception.                   *)

CountExact == cur = Cardinality(procs)

\* Without restarts by exception one call of do_event runs at a time, for a
\* process that stays on the list until the call deletes it.
CountInv ==
    /\ procs \subseteq Pids /\ CountExact
    /\ \/ stack = <<>>
       \/ /\ pc \in {"up", "procs"}
          /\ \E f \in Frames : stack = <<f>> /\ f.pid \in procs

\* add_proc of an unknown process and del_proc of a known one keep the count.
LEMMA CountedLists ==
    ASSUME procs \subseteq Pids, CountExact, NEW p \in Pids
    PROVE  /\ p \notin procs /\ AddProc(p) => CountExact'
           /\ p \in procs /\ DelProc(p) => CountExact'
  <1>1. IsFiniteSet(procs)  BY FS_Subset, GroupAssumption
  <1>2. Cardinality(procs) \in Nat  BY <1>1, FS_CardinalityType
  <1>3. p \notin procs => Cardinality(procs \cup {p}) = Cardinality(procs) + 1
    BY <1>1, FS_AddElement
  <1>4. p \in procs => Cardinality(procs \ {p}) = Cardinality(procs) - 1
    BY <1>1, FS_RemoveElement
  <1> QED  BY <1>2, <1>3, <1>4 DEF AddProc, DelProc, CountExact

\* One step keeps the invariant.
LEMMA CountStep ==
    ASSUME ExceptionRestart = FALSE, CountInv, [Next]_vars
    PROVE  CountInv'
  <1>1. procs' \subseteq Pids
    BY GroupStep DEF CountInv, Steady, OldApart
  <1>2. CASE \E p \in Pids : Recv(p)
    <2>1. PICK p \in Pids : Recv(p)  BY <1>2
    <2>2. UNCHANGED <<pc, stack>>
      BY <2>1 DEF Recv
    <2>3. UNCHANGED <<procs, cur>> \/ (p \notin procs /\ AddProc(p))
      BY <2>1 DEF Recv, Heartbeat
    <2>4. CountExact'  BY <2>3, CountedLists DEF CountInv, CountExact
    <2>5. procs \subseteq procs'  BY <2>3 DEF AddProc
    <2> QED  BY <1>1, <2>2, <2>4, <2>5 DEF CountInv
  <1>3. CASE \E p \in Pids : ProcUp(p) \/ CheckProc(p)
    <2>1. PICK p \in Pids : ProcUp(p) \/ CheckProc(p)  BY <1>3
    <2>2. UNCHANGED <<procs, cur, pc>> /\ pc \in {"up", "procs"} /\ p \in procs
      BY <2>1 DEF ProcUp, CheckProc, group
    <2>3. \E f \in Frames : stack' = <<f>> /\ f.pid = p
      <3>1. CASE ProcUp(p)
        <4> DEFINE f == [op |-> "up", pid |-> p, at |-> "recv"]
        <4>1. f \in Frames /\ f.pid = p  BY DEF Frames
        <4>2. stack' = <<f>>  BY <3>1 DEF ProcUp
        <4> QED  BY <4>1, <4>2
      <3>2. CASE CheckProc(p)
        <4> DEFINE f == [op |-> "dead", pid |-> p, at |-> "kill"]
        <4>1. f \in Frames /\ f.pid = p  BY DEF Frames
        <4>2. stack' = <<f>>  BY <3>2 DEF CheckProc
        <4> QED  BY <4>1, <4>2
      <3> QED  BY <2>1, <3>1, <3>2
    <2> QED  BY <1>1, <2>2, <2>3 DEF CountInv, CountExact
  <1>4. CASE ProcUpDel \/ DeadDel
    <2>1. stack # <<>>  BY <1>4 DEF ProcUpDel, DeadDel, At
    <2>2. PICK f \in Frames : stack = <<f>> /\ f.pid \in procs
      BY <2>1 DEF CountInv
    <2>3. Top = f /\ Tail(stack) = <<>>  BY <2>2 DEF Top
    <2>4. DelProc(f.pid) /\ stack' = <<>>
      BY <1>4, <2>2, <2>3 DEF ProcUpDel, DeadDel, DelProc
    <2>5. CountExact'  BY <2>2, <2>4, CountedLists DEF CountInv
    <2> QED  BY <1>1, <2>4, <2>5 DEF CountInv
  <1>5. CASE DeadKill \/ DeadProbe
    <2>1. stack # <<>> /\ UNCHANGED <<procs, cur, pc>>
      BY <1>5 DEF DeadKill, DeadProbe, At, group
    <2>2. PICK f \in Frames : stack = <<f>> /\ f.pid \in procs
      BY <2>1 DEF CountInv
    <2>3. Top = f /\ Tail(stack) = <<>>  BY <2>2 DEF Top
    <2>4. ASSUME NEW a \in {"kill", "probe", "recv"}, stack' = GoOn(a)
          PROVE  \E g \in Frames : stack' = <<g>> /\ g.pid \in procs
      <3> DEFINE g == [op |-> f.op, pid |-> f.pid, at |-> a]
      <3>1. g \in Frames /\ g.pid \in procs  BY <2>2 DEF Frames
      <3>2. GoOn(a) = <<g>> \o <<>>  BY <2>3 DEF GoOn
      <3> HIDE DEF g
      <3>3. <<g>> \o <<>> = <<g>>  OBVIOUS
      <3> QED  BY <2>4, <3>1, <3>2, <3>3
    <2>5. stack' = <<>> \/ stack' = GoOn("probe") \/ stack' = GoOn("recv")
      BY <1>5, <2>3 DEF DeadKill, DeadProbe
    <2> QED  BY <1>1, <2>1, <2>4, <2>5 DEF CountInv, CountExact
  <1>6. CASE Reload
    <2>1. pc = "sleep" /\ procs' = {} /\ cur' = 0 /\ stack' = stack
      BY <1>6 DEF Reload
    <2>2. CountExact'  BY <2>1, FS_EmptySet DEF CountExact
    <2> QED  BY <1>1, <2>1, <2>2 DEF CountInv
  <1>7. CASE \/ \E p \in Pids : Work(p) \/ End(p) \/ Fault(p)
             \/ UNCHANGED vars
    <2>1. UNCHANGED <<procs, cur, pc, stack>>
      BY <1>7 DEF Work, End, Report, Ready, Time, Beat, Quit, Die, Fault, group,
                  control, vars
    <2> QED  BY <1>1, <2>1 DEF CountInv, CountExact
  <1>8. CASE \/ RecvAll \/ ReloadStart \/ ReloadWaitNew \/ ReloadKillOld
             \/ ReloadClear \/ CheckGroupSkip \/ CheckGroup \/ ProcUpDone
             \/ CheckDone \/ Sleep
    <2>1. UNCHANGED <<procs, cur, stack>>
      BY <1>8 DEF RecvAll, ReloadStart, ReloadWaitNew, ReloadKillOld, ReloadClear,
                  CheckGroupSkip, CheckGroup, ProcUpDone, CheckDone, Sleep, group
    <2>2. stack = <<>>
      BY <1>8 DEF RecvAll, ReloadStart, ReloadWaitNew, ReloadKillOld, ReloadClear,
                  CheckGroupSkip, CheckGroup, ProcUpDone, CheckDone, Sleep, InCheck,
                  CountInv
    <2> QED  BY <1>1, <2>1, <2>2 DEF CountInv, CountExact
  <1> QED  BY <1>2, <1>3, <1>4, <1>5, <1>6, <1>7, <1>8 DEF Next, Monitor
-----------------------------------------------------------------------------
(* Who joins a group that reloads.                                          *)

Messages == {"init", "beat", "exception"}

\* The queue never holds a message that says more than its sender is: nothing
\* of a worker that has not reported, and only reports with reserve_[0] set of
\* one in spp_handle_init.
MsgInv ==
    /\ state \in [Pids -> States] /\ msgs \in [Pids -> Seq(Messages)]
    /\ \A p \in Pids :
         /\ state[p] \in {"forked", "slow"} => msgs[p] = <<>>
         /\ state[p] = "init" => \A i \in 1..Len(msgs[p]) : msgs[p][i] = "init"

\* A process is forked with a pid of which the queue holds nothing.
LEMMA ForkMsg ==
    ASSUME MsgInv, NEW n, DoFork(n), UNCHANGED msgs
    PROVE  MsgInv'
  BY DEF MsgInv, DoFork, Unused, States

\* One step keeps the invariant.
LEMMA MsgStep ==
    ASSUME MsgInv, [Next]_vars
    PROVE  MsgInv'
  <1>1. CASE \E p \in Pids : Report(p)
    <2>1. PICK p \in Pids : Report(p)  BY <1>1
    <2>2. state' = [state EXCEPT ![p] = "init"] /\ msgs[p] = <<>>
      BY <2>1 DEF Report, Become, MsgInv
    <2>3. msgs' = msgs \/ msgs' = [msgs EXCEPT ![p] = <<"init">>]
      BY <2>1, <2>2 DEF Report, Send, MsgInv
    <2>4. <<"init">> \in Seq(Messages) /\ Len(<<"init">>) = 1 /\ <<"init">>[1] = "init"
      BY DEF Messages
    <2>5. /\ state' \in [Pids -> States] /\ msgs' \in [Pids -> Seq(Messages)]
      BY <2>2, <2>3, <2>4 DEF MsgInv, States
    <2>6. ASSUME NEW q \in Pids
          PROVE  /\ state'[q] \in {"forked", "slow"} => msgs'[q] = <<>>
                 /\ state'[q] = "init" =>
                      \A i \in 1..Len(msgs'[q]) : msgs'[q][i] = "init"
      <3>1. CASE q = p
        <4>1. state'[p] = "init" /\ (msgs'[p] = <<>> \/ msgs'[p] = <<"init">>)
          BY <2>2, <2>3 DEF MsgInv
        <4>2. \A i \in 1..Len(msgs'[p]) : msgs'[p][i] = "init"
          BY <4>1, <2>4
        <4> QED  BY <3>1, <4>1, <4>2
      <3>2. CASE q # p
        <4>1. state'[q] = state[q] /\ msgs'[q] = msgs[q]
          BY <2>2, <2>3, <3>2 DEF MsgInv
        <4> QED  BY <4>1 DEF MsgInv
      <3> QED  BY <3>1, <3>2
    <2> QED  BY <2>5, <2>6 DEF MsgInv
  <1>2. CASE \E p \in Pids : Beat(p) \/ Fault(p)
    <2>1. PICK p \in Pids : Beat(p) \/ Fault(p)  BY <1>2
    <2>2. PICK s \in States : /\ state' = [state EXCEPT ![p] = s]
                              /\ s # "init" /\ (s \in {"forked", "slow"} =>
                                    state[p] = "forked" /\ UNCHANGED msgs)
      BY <2>1 DEF Beat, Fault, Become, States
    <2>3. UNCHANGED msgs \/ Send(p, "beat") \/ Send(p, "exception")
      BY <2>1 DEF Beat, Fault
    <2>4. /\ msgs' \in [Pids -> Seq(Messages)]
          /\ \A q \in Pids \ {p} : msgs'[q] = msgs[q]
      <3>1. \A m \in Messages : Append(msgs[p], m) \in Seq(Messages)
        BY DEF MsgInv
      <3>2. \A m \in Messages : Send(p, m) =>
              msgs' = msgs \/ msgs' = [msgs EXCEPT ![p] = Append(msgs[p], m)]
        BY DEF Send
      <3>3. msgs' = msgs \/ \E m \in Messages :
                              msgs' = [msgs EXCEPT ![p] = Append(msgs[p], m)]
        BY <2>3, <3>2 DEF Messages
      <3> QED  BY <3>1, <3>3 DEF MsgInv
    <2>5. state' \in [Pids -> States]  BY <2>2 DEF MsgInv
    <2>6. ASSUME NEW q \in Pids
          PROVE  /\ state'[q] \in {"forked", "slow"} => msgs'[q] = <<>>
                 /\ state'[q] = "init" =>
                      \A i \in 1..Len(msgs'[q]) : msgs'[q][i] = "init"
      <3>1. CASE q = p
        <4>1. state'[p] = s  BY <2>2 DEF MsgInv
        <4>2. s \in {"forked", "slow"} => msgs'[p] = <<>>  BY <2>2 DEF MsgInv
        <4> QED  BY <2>2, <3>1, <4>1, <4>2
      <3>2. CASE q # p
        <4>1. state'[q] = state[q] /\ msgs'[q] = msgs[q]
          BY <2>2, <2>4, <3>2 DEF MsgInv
        <4> QED  BY <4>1 DEF MsgInv
      <3> QED  BY <3>1, <3>2
    <2> QED  BY <2>4, <2>5, <2>6 DEF MsgInv
  <1>3. CASE \E p \in Pids : Ready(p) \/ Time(p) \/ End(p)
    <2>1. PICK p \in Pids : Ready(p) \/ Time(p) \/ End(p)  BY <1>3
    <2>2. UNCHANGED msgs
      BY <2>1 DEF Ready, Time, End, Quit, Die
    <2>3. \E s \in {"up", "report", "none"} : state' = [state EXCEPT ![p] = s]
      BY <2>1 DEF Ready, Time, End, Quit, Die, Become
    <2> QED  BY <2>2, <2>3 DEF MsgInv, States
  <1>4. CASE \E p \in Pids : Recv(p)
    <2>1. PICK p \in Pids : Recv(p)  BY <1>4
    <2>2. msgs[p] # <<>> /\ msgs' = [msgs EXCEPT ![p] = Tail(msgs[p])] /\ state' = state
      BY <2>1 DEF Recv, worker
    <2>3. /\ Tail(msgs[p]) \in Seq(Messages)
          /\ \A i \in 1..Len(Tail(msgs[p])) :
               Tail(msgs[p])[i] = msgs[p][i + 1] /\ i + 1 \in 1..Len(msgs[p])
      BY <2>2 DEF MsgInv
    <2> QED  BY <2>2, <2>3 DEF MsgInv
  <1>5. CASE ReloadStart \/ CheckGroup \/ DeadDel
    <2>1. (\E n : DoFork(n)) /\ UNCHANGED msgs
      BY <1>5 DEF ReloadStart, CheckGroup, DeadDel
    <2> QED  BY <2>1, ForkMsg
  <1>6. CASE \/ \E p \in Pids : ProcUp(p) \/ CheckProc(p)
             \/ RecvAll \/ ReloadWaitNew \/ ReloadKillOld \/ ReloadClear
             \/ CheckGroupSkip \/ ProcUpDel \/ ProcUpDone \/ CheckDone
             \/ DeadKill \/ DeadProbe \/ Sleep \/ Reload \/ UNCHANGED vars
    <2>1. UNCHANGED <<state, msgs>>
      BY <1>6 DEF ProcUp, CheckProc, RecvAll, ReloadWaitNew, ReloadKillOld,
           ReloadClear, CheckGroupSkip, ProcUpDel, ProcUpDone, CheckDone, DeadKill,
           DeadProbe, Sleep, Reload, worker, vars
    <2> QED  BY <2>1 DEF MsgInv
  <1> QED  BY <1>1, <1>2, <1>3, <1>4, <1>5, <1>6 DEF Next, Monitor, Work

\* Only do_recv lengthens the list.
LEMMA JoinStep ==
    ASSUME [Next]_vars, NEW p \in procs' \ procs
    PROVE  \/ reload = "NORMAL"
           \/ p \in Pids /\ msgs[p] # <<>> /\ Head(msgs[p]) # "init"
              /\ Head(msgs[p]) # "exception"
  <1>1. CASE \E q \in Pids : Recv(q)
    <2>1. PICK q \in Pids : Recv(q)  BY <1>1
    <2>2. Head(msgs[q]) # "exception" /\ Heartbeat(q, Head(msgs[q])) /\ msgs[q] # <<>>
      BY <2>1 DEF Recv
    <2> QED  BY <2>2 DEF Heartbeat, AddProc
  <1>2. CASE \/ \E q \in Pids : Work(q) \/ End(q) \/ Fault(q)
             \/ UNCHANGED vars
    BY <1>2 DEF Work, End, Report, Ready, Time, Beat, Quit, Die, Fault, group, vars
  <1>3. CASE \/ \E q \in Pids : ProcUp(q) \/ CheckProc(q)
             \/ RecvAll \/ ReloadStart \/ ReloadWaitNew \/ ReloadKillOld \/ ReloadClear
             \/ CheckGroupSkip \/ CheckGroup \/ ProcUpDel \/ ProcUpDone \/ CheckDone
             \/ DeadKill \/ DeadProbe \/ DeadDel \/ Sleep \/ Reload
    BY <1>3 DEF ProcUp, CheckProc, RecvAll, ReloadStart, ReloadWaitNew, ReloadKillOld,
           ReloadClear, CheckGroupSkip, CheckGroup, ProcUpDel, ProcUpDone, CheckDone,
           DeadKill, DeadProbe, DeadDel, DelProc, Sleep, Reload, group
  <1> QED  BY <1>1, <1>2, <1>3 DEF Next, Monitor

\* While a group reloads, a worker joins it only after spp_handle_init, however
\* long its messages have been in the queue (do_recv, initconf of the worker).
THEOREM JoinsReady == Spec => JoinReady
  <1>1. Init => MsgInv
    BY DEF Init, MsgInv, States, Messages
  <1>2. MsgInv /\ [Next]_vars => MsgInv'
    BY MsgStep
  <1>3. MsgInv /\ [Next]_vars =>
          [\A p \in procs' \ procs :
             reload # "NORMAL" => state[p] \notin {"forked", "slow", "init"}]_vars
    <2> SUFFICES ASSUME MsgInv, [Next]_vars, NEW p \in procs' \ procs,
                        reload # "NORMAL"
                 PROVE  state[p] \notin {"forked", "slow", "init"}
      OBVIOUS
    <2>1. p \in Pids /\ msgs[p] # <<>> /\ Head(msgs[p]) # "init"
      BY JoinStep
    <2>2. 1 \in 1..Len(msgs[p]) /\ msgs[p][1] # "init"
      BY <2>1 DEF MsgInv
    <2> QED  BY <2>1, <2>2 DEF MsgInv
  <1> QED  BY <1>1, <1>2, <1>3, PTL DEF Spec, JoinReady
-----------------------------------------------------------------------------
(* The count of the group, with restarts by exception.  A process that has   *)
(* sent an exception sends nothing more, so calls of do_event nest at most   *)
(* once, and each exception in the queue may cost the count one.             *)

Queued == {p \in Pids : \E i \in 1..Len(msgs[p]) : msgs[p][i] = "exception"}

QueueInv ==
    /\ MsgInv
    /\ \A p \in Pids : \A i \in 1..Len(msgs[p]) :
         msgs[p][i] = "exception" => i = Len(msgs[p]) /\ state[p] \in {"dying", "none"}

\* Nothing more will come from p.
Over(p) == msgs[p] = <<>> /\ state[p] \in {"dying", "none"}

\* The count is short by at most what the failures allow, less n.
Within(n) ==
    LET short == Cardinality(procs) - cur
    IN  0 <= short /\ short + Cardinality(Queued) + n <= faults

\* One call of do_event at most, for a process on the list.
Single ==
    \/ stack = <<>>
    \/ pc \in {"recv", "up", "procs"} /\ \E f \in Frames : stack = <<f>> /\ f.pid \in procs

\* A call nested in another for the same process, or the outer one when the
\* inner has deleted the process.
Nested ==
    /\ pc \in {"recv", "up", "procs"}
    /\ \E f \in Frames :
         /\ Over(f.pid)
         /\ \/ stack = <<f>> /\ f.pid \notin procs
            \/ /\ f.pid \in procs
               /\ \E g \in Frames : stack = <<g, f>> /\ g.pid = f.pid /\ g.op = "dead"

DriftInv ==
    /\ QueueInv
    /\ procs \subseteq Pids /\ cur \in Int /\ faults \in Nat
    /\ (Single /\ Within(0)) \/ (Nested /\ Within(1))

\* Cardinalities of the two sets.
LEMMA Finite ==
    ASSUME procs \subseteq Pids
    PROVE  /\ IsFiniteSet(procs) /\ Cardinality(procs) \in Nat
           /\ IsFiniteSet(Queued) /\ Cardinality(Queued) \in Nat
  <1>1. Queued \subseteq Pids  BY DEF Queued
  <1> QED  BY <1>1, FS_Subset, FS_CardinalityType, GroupAssumption

\* A message of a worker is the last in the queue.
LEMMA SendQueue ==
    ASSUME QueueInv, NEW p \in Pids, NEW m \in Messages, Send(p, m),
           state[p] \notin {"dying", "none"}
    PROVE  /\ \A q \in Pids \ {p} : msgs'[q] = msgs[q]
           /\ \A i \in 1..Len(msgs'[p]) : msgs'[p][i] = "exception"
                => m = "exception" /\ i = Len(msgs'[p])
           /\ Queued' \subseteq Queued \cup {p}
           /\ m # "exception" => Queued' \subseteq Queued
  <1>1. msgs \in [Pids -> Seq(Messages)] /\ msgs[p] \in Seq(Messages)
    BY DEF QueueInv, MsgInv
  <1>2. \A i \in 1..Len(msgs[p]) : msgs[p][i] # "exception"
    BY DEF QueueInv
  <1>3. msgs'[p] = msgs[p] \/ msgs'[p] = Append(msgs[p], m)
    BY <1>1 DEF Send
  <1>4. \A q \in Pids \ {p} : msgs'[q] = msgs[q]
    BY <1>1 DEF Send
  <1>5. \A i \in 1..Len(msgs'[p]) : msgs'[p][i] = "exception"
          => m = "exception" /\ i = Len(msgs'[p])
    <2>1. CASE msgs'[p] = msgs[p]  BY <2>1, <1>2
    <2>2. CASE msgs'[p] = Append(msgs[p], m)
      <3>1. /\ Len(msgs'[p]) = Len(msgs[p]) + 1 /\ Len(msgs[p]) \in Nat
            /\ msgs'[p][Len(msgs[p]) + 1] = m
            /\ \A i \in 1..Len(msgs[p]) : msgs'[p][i] = msgs[p][i]
        BY <1>1, <2>2
      <3> QED  BY <1>2, <3>1
    <2> QED  BY <1>3, <2>1, <2>2
  <1>6. Queued' \subseteq Queued \cup {p}  BY <1>4 DEF Queued
  <1>7. m # "exception" => p \notin Queued'  BY <1>5 DEF Queued
  <1> QED  BY <1>4, <1>5, <1>6, <1>7

\* What is read was first in the queue; an exception was alone in it.
LEMMA RecvQueue ==
    ASSUME QueueInv, NEW p \in Pids, msgs[p] # <<>>,
           msgs' = [msgs EXCEPT ![p] = Tail(msgs[p])]
    PROVE  /\ \A q \in Pids \ {p} : msgs'[q] = msgs[q]
           /\ Len(msgs'[p]) = Len(msgs[p]) - 1
           /\ \A i \in 1..Len(msgs'[p]) :
                i + 1 \in 1..Len(msgs[p]) /\ msgs'[p][i] = msgs[p][i + 1]
           /\ Queued' \subseteq Queued
           /\ Head(msgs[p]) = "exception" =>
                /\ msgs'[p] = <<>> /\ state[p] \in {"dying", "none"}
                /\ p \in Queued /\ Queued' \subseteq Queued \ {p}
  <1>1. msgs \in [Pids -> Seq(Messages)] /\ msgs[p] \in Seq(Messages)
    BY DEF QueueInv, MsgInv
  <1>2. msgs'[p] = Tail(msgs[p]) /\ \A q \in Pids \ {p} : msgs'[q] = msgs[q]
    BY <1>1
  <1>3. /\ Len(msgs'[p]) = Len(msgs[p]) - 1 /\ Len(msgs[p]) \in Nat \ {0}
        /\ msgs'[p] \in Seq(Messages)
        /\ \A i \in 1..Len(msgs'[p]) :
             i + 1 \in 1..Len(msgs[p]) /\ msgs'[p][i] = msgs[p][i + 1]
        /\ Head(msgs[p]) = msgs[p][1]
    BY <1>1, <1>2
  <1>4. Queued' \subseteq Queued
    <2>1. ASSUME NEW q \in Queued'  PROVE q \in Queued
      <3>1. q \in Pids /\ \E i \in 1..Len(msgs'[q]) : msgs'[q][i] = "exception"
        BY DEF Queued
      <3>2. CASE q = p  BY <1>3, <3>1, <3>2 DEF Queued
      <3>3. CASE q # p  BY <1>2, <3>1, <3>3 DEF Queued
      <3> QED  BY <3>2, <3>3
    <2> QED  BY <2>1
  <1>5. ASSUME Head(msgs[p]) = "exception"
        PROVE  /\ msgs'[p] = <<>> /\ state[p] \in {"dying", "none"}
               /\ p \in Queued /\ Queued' \subseteq Queued \ {p}
    <2>1. 1 \in 1..Len(msgs[p]) /\ msgs[p][1] = "exception"  BY <1>3, <1>5
    <2>2. Len(msgs[p]) = 1 /\ state[p] \in {"dying", "none"}
      BY <2>1 DEF QueueInv
    <2>3. Len(msgs'[p]) = 0  BY <1>3, <2>2
    <2>4. msgs'[p] = <<>>  BY <1>3, <2>3
    <2>5. p \in Queued  BY <2>1 DEF Queued
    <2>6. p \notin Queued'  BY <2>3 DEF Queued
    <2> QED  BY <1>4, <2>2, <2>4, <2>5, <2>6
  <1> QED  BY <1>2, <1>3, <1>4, <1>5

\* What a worker does keeps the queue in shape, and an exception costs a failure.
LEMMA WorkerQueue ==
    ASSUME QueueInv, faults \in Nat, NEW p \in Pids, Work(p) \/ End(p) \/ Fault(p)
    PROVE  /\ QueueInv'
           /\ \/ Queued' \subseteq Queued /\ faults' \in {faults, faults + 1}
              \/ Queued' \subseteq Queued \cup {p} /\ faults' = faults + 1
           /\ \A q \in Pids : Over(q) => Over(q)'
  <1>1. MsgInv'
    <2>1. Next  BY DEF Next
    <2> QED  BY <2>1, MsgStep DEF QueueInv
  <1>2. state \in [Pids -> States] /\ state' \in [Pids -> States]
    BY <1>1 DEF QueueInv, MsgInv
  <1>3. CASE Report(p) \/ Beat(p) \/ (Fault(p) /\ Send(p, "exception"))
    <2>1. PICK m \in Messages : Send(p, m) /\ (m = "exception" => Fault(p))
      BY <1>3 DEF Report, Beat, Messages
    <2>2. /\ state[p] \notin {"dying", "none"}
          /\ \A q \in Pids \ {p} : state'[q] = state[q]
          /\ faults' \in {faults, faults + 1} /\ (Fault(p) => faults' = faults + 1)
      BY <1>2, <1>3 DEF Report, Beat, Fault, Become, Alive, bounds
    <2>3. /\ \A q \in Pids \ {p} : msgs'[q] = msgs[q]
          /\ \A i \in 1..Len(msgs'[p]) : msgs'[p][i] = "exception"
                => m = "exception" /\ i = Len(msgs'[p])
          /\ Queued' \subseteq Queued \cup {p}
          /\ m # "exception" => Queued' \subseteq Queued
      BY <2>1, <2>2, SendQueue
    <2>4. m = "exception" => state'[p] = "dying" \/ msgs' = msgs
      <3> SUFFICES ASSUME m = "exception", msgs' # msgs  PROVE state'[p] = "dying"
        OBVIOUS
      <3>1. Fault(p) /\ ~UNCHANGED msgs  BY <2>1
      <3>2. Become(p, "dying")  BY <3>1 DEF Fault
      <3> QED  BY <1>2, <3>2 DEF Become
    <2>5. ASSUME NEW q \in Pids, NEW i \in 1..Len(msgs'[q]), msgs'[q][i] = "exception"
          PROVE  i = Len(msgs'[q]) /\ state'[q] \in {"dying", "none"}
      <3>1. CASE q # p
        <4>1. msgs'[q] = msgs[q] /\ state'[q] = state[q]  BY <2>2, <2>3, <3>1
        <4> QED  BY <2>5, <4>1 DEF QueueInv
      <3>2. CASE q = p
        <4>1. i = Len(msgs'[q]) /\ m = "exception"  BY <2>3, <2>5, <3>2
        <4>2. msgs' # msgs
          <5>1. \A k \in 1..Len(msgs[p]) : msgs[p][k] # "exception"
            BY <2>2 DEF QueueInv
          <5> QED  BY <2>5, <3>2, <5>1
        <4> QED  BY <2>4, <3>2, <4>1, <4>2
      <3> QED  BY <3>1, <3>2
    <2>6. ASSUME NEW q \in Pids, Over(q)  PROVE Over(q)'
      <3>1. q # p  BY <2>2, <2>6 DEF Over
      <3> QED  BY <2>2, <2>3, <2>6, <3>1 DEF Over
    <2> QED  BY <1>1, <2>1, <2>2, <2>3, <2>5, <2>6 DEF QueueInv
  <1>4. CASE UNCHANGED msgs
    <2>1. Queued' = Queued  BY <1>4 DEF Queued
    <2>2. faults' \in {faults, faults + 1}
      BY DEF Work, End, Report, Ready, Time, Beat, Quit, Die, Fault, bounds
    <2>3. /\ \A q \in Pids \ {p} : state'[q] = state[q]
          /\ state[p] \in {"dying", "none"} => state'[p] \in {"dying", "none"}
      BY <1>2 DEF Work, End, Report, Ready, Time, Beat, Quit, Die, Fault, Become, Alive
    <2>4. \A q \in Pids : state[q] \in {"dying", "none"} => state'[q] \in {"dying", "none"}
      BY <2>3
    <2>5. \A q \in Pids : Over(q) => Over(q)'  BY <1>4, <2>4 DEF Over
    <2>6. QueueInv'  BY <1>1, <1>4, <2>4 DEF QueueInv
    <2> QED  BY <2>1, <2>2, <2>5, <2>6
  <1>5. Fault(p) => UNCHANGED msgs \/ Send(p, "exception")
    BY DEF Fault
  <1>6. Ready(p) \/ Time(p) \/ End(p) => UNCHANGED msgs
    BY DEF Ready, Time, End, Quit, Die
  <1>7. Report(p) \/ Beat(p) \/ (Fault(p) /\ Send(p, "exception")) \/ UNCHANGED msgs
    BY <1>5, <1>6 DEF Work
  <1> QED  BY <1>3, <1>4, <1>7

\* The monitor reads messages and forks; it sends none.
LEMMA MonitorQueue ==
    ASSUME QueueInv, Monitor \/ UNCHANGED vars
    PROVE  /\ QueueInv'
           /\ UNCHANGED msgs => Queued' = Queued
           /\ UNCHANGED faults
           /\ \A q \in Pids \cap Known : Over(q) /\ UNCHANGED msgs => Over(q)'
  <1>1. MsgInv'
    <2>1. [Next]_vars  BY DEF Next
    <2> QED  BY <2>1, MsgStep DEF QueueInv
  <1>2. UNCHANGED msgs => Queued' = Queued  BY DEF Queued
  <1>3. UNCHANGED faults
    BY DEF Monitor, Recv, ProcUp, CheckProc, RecvAll, ReloadStart, ReloadWaitNew,
           ReloadKillOld, ReloadClear, CheckGroupSkip, CheckGroup, ProcUpDel,
           ProcUpDone, CheckDone, DeadKill, DeadProbe, DeadDel, Sleep, Reload, bounds,
           vars
  <1>4. CASE ReloadStart \/ CheckGroup \/ DeadDel
    <2>1. UNCHANGED msgs /\ \E n : DoFork(n)
      BY <1>4 DEF ReloadStart, CheckGroup, DeadDel
    <2>2. \A q \in Pids : state'[q] = state[q] \/ (q \notin Known /\ msgs[q] = <<>>)
      BY <2>1 DEF DoFork, Unused
    <2>3. QueueInv'
      <3>1. ASSUME NEW q \in Pids, NEW i \in 1..Len(msgs'[q]), msgs'[q][i] = "exception"
            PROVE  i = Len(msgs'[q]) /\ state'[q] \in {"dying", "none"}
        <4>1. msgs[q] # <<>>  BY <2>1, <3>1
        <4>2. state'[q] = state[q]  BY <2>2, <4>1
        <4> QED  BY <2>1, <3>1, <4>2 DEF QueueInv
      <3> QED  BY <1>1, <3>1 DEF QueueInv
    <2>4. \A q \in Pids \cap Known : Over(q) => Over(q)'
      BY <2>1, <2>2 DEF Over
    <2> QED  BY <1>2, <1>3, <2>3, <2>4
  <1>5. CASE \E p \in Pids : Recv(p)
    <2>1. PICK p \in Pids : Recv(p)  BY <1>5
    <2>2. msgs[p] # <<>> /\ msgs' = [msgs EXCEPT ![p] = Tail(msgs[p])] /\ state' = state
      BY <2>1 DEF Recv, worker
    <2>3. /\ \A q \in Pids \ {p} : msgs'[q] = msgs[q]
          /\ Len(msgs'[p]) = Len(msgs[p]) - 1
          /\ \A i \in 1..Len(msgs'[p]) :
               i + 1 \in 1..Len(msgs[p]) /\ msgs'[p][i] = msgs[p][i + 1]
      BY <2>2, RecvQueue
    <2>4. ASSUME NEW q \in Pids, NEW i \in 1..Len(msgs'[q]), msgs'[q][i] = "exception"
          PROVE  i = Len(msgs'[q]) /\ state'[q] \in {"dying", "none"}
      <3>1. CASE q # p
        <4>1. msgs'[q] = msgs[q]  BY <2>3, <3>1
        <4> QED  BY <2>2, <2>4, <4>1 DEF QueueInv
      <3>2. CASE q = p
        <4>1. i + 1 \in 1..Len(msgs[p]) /\ msgs[p][i + 1] = "exception"
          BY <2>3, <2>4, <3>2
        <4>2. i + 1 = Len(msgs[p]) /\ state[p] \in {"dying", "none"}
          BY <4>1 DEF QueueInv
        <4>3. msgs[p] \in Seq(Messages)  BY DEF QueueInv, MsgInv
        <4>4. Len(msgs[p]) \in Nat  BY <4>3
        <4>5. i \in Int  BY <2>3, <4>4, <3>2
        <4> QED  BY <2>2, <2>3, <3>2, <4>2, <4>4, <4>5
      <3> QED  BY <3>1, <3>2
    <2>5. QueueInv'  BY <1>1, <2>4 DEF QueueInv
    <2>6. \A q \in Pids \cap Known : Over(q) /\ UNCHANGED msgs => Over(q)'
      BY <2>2 DEF Over
    <2> QED  BY <1>2, <1>3, <2>5, <2>6
  <1>6. CASE \/ \E p \in Pids : ProcUp(p) \/ CheckProc(p)
             \/ RecvAll \/ ReloadWaitNew \/ ReloadKillOld \/ ReloadClear
             \/ CheckGroupSkip \/ ProcUpDel \/ ProcUpDone \/ CheckDone
             \/ DeadKill \/ DeadProbe \/ Sleep \/ Reload \/ UNCHANGED vars
    <2>1. UNCHANGED <<state, msgs>>
      BY <1>6 DEF ProcUp, CheckProc, RecvAll, ReloadWaitNew, ReloadKillOld,
           ReloadClear, CheckGroupSkip, ProcUpDel, ProcUpDone, CheckDone, DeadKill,
           DeadProbe, Sleep, Reload, worker, vars
    <2> QED  BY <1>1, <1>2, <1>3, <2>1 DEF QueueInv, Over
  <1> QED  BY <1>4, <1>5, <1>6 DEF Monitor

\* The bound follows the set of queued exceptions, the list and the count.
LEMMA WithinMoves ==
    ASSUME procs \subseteq Pids, procs' \subseteq Pids, cur \in Int, cur' \in Int,
           faults \in Nat, faults' \in Nat, NEW n \in Int, Within(n), NEW k \in Int,
           0 <= Cardinality(procs') - cur',
           Cardinality(procs') - cur' + Cardinality(Queued') + k - faults'
             <= Cardinality(procs) - cur + Cardinality(Queued) + n - faults
    PROVE  Within(k)'
  <1>1. Cardinality(procs) \in Nat /\ Cardinality(Queued) \in Nat  BY Finite
  <1>2. Cardinality(procs') \in Nat /\ Cardinality(Queued') \in Nat
    <2>1. Queued' \subseteq Pids  BY DEF Queued
    <2> QED  BY <2>1, FS_Subset, FS_CardinalityType, GroupAssumption
  <1> QED  BY <1>1, <1>2 DEF Within

\* add_proc of an unknown process and del_proc of a known one keep what is short.
LEMMA ShortKept ==
    ASSUME procs \subseteq Pids, cur \in Int, NEW p \in Pids
    PROVE  /\ p \notin procs /\ AddProc(p)
                => Cardinality(procs') - cur' = Cardinality(procs) - cur /\ cur' \in Int
           /\ p \in procs /\ procs' = procs \ {p} /\ cur' = cur - 1
                => Cardinality(procs') - cur' = Cardinality(procs) - cur /\ cur' \in Int
  <1>1. IsFiniteSet(procs) /\ Cardinality(procs) \in Nat  BY Finite
  <1>2. p \notin procs => Cardinality(procs \cup {p}) = Cardinality(procs) + 1
    BY <1>1, FS_AddElement
  <1>3. p \in procs => Cardinality(procs \ {p}) = Cardinality(procs) - 1
    BY <1>1, FS_RemoveElement
  <1>4. ASSUME p \notin procs, AddProc(p)
        PROVE  Cardinality(procs') - cur' = Cardinality(procs) - cur /\ cur' \in Int
    <2>1. Cardinality(procs') = Cardinality(procs) + 1 /\ cur' = cur + 1
      BY <1>2, <1>4 DEF AddProc
    <2> QED  BY <1>1, <2>1
  <1>5. ASSUME p \in procs, procs' = procs \ {p}, cur' = cur - 1
        PROVE  Cardinality(procs') - cur' = Cardinality(procs) - cur /\ cur' \in Int
    <2>1. Cardinality(procs') = Cardinality(procs) - 1
      BY <1>3, <1>5
    <2> QED  BY <1>1, <1>5, <2>1
  <1> QED  BY <1>4, <1>5

\* A step of a worker.
LEMMA DriftWorker ==
    ASSUME DriftInv, NEW p \in Pids, Work(p) \/ End(p) \/ Fault(p)
    PROVE  DriftInv'
  <1>1. UNCHANGED <<procs, cur, pc, stack>>
    BY DEF Work, End, Report, Ready, Time, Beat, Quit, Die, Fault, group, control
  <1>2. /\ QueueInv'
        /\ \/ Queued' \subseteq Queued /\ faults' \in {faults, faults + 1}
           \/ Queued' \subseteq Queued \cup {p} /\ faults' = faults + 1
        /\ \A q \in Pids : Over(q) => Over(q)'
    BY WorkerQueue DEF DriftInv
  <1>3. IsFiniteSet(Queued) /\ Cardinality(Queued) \in Nat /\ Cardinality(procs) \in Nat
    BY Finite DEF DriftInv
  <1>4. faults \in Nat /\ faults' \in Nat /\ Cardinality(Queued') \in Nat
        /\ Cardinality(Queued') - faults' <= Cardinality(Queued) - faults
    <2>1. faults \in Nat  BY DEF DriftInv
    <2>2. CASE Queued' \subseteq Queued /\ faults' \in {faults, faults + 1}
      <3>1. Cardinality(Queued') <= Cardinality(Queued) /\ IsFiniteSet(Queued')
        BY <1>3, <2>2, FS_Subset
      <3>2. Cardinality(Queued') \in Nat  BY <3>1, FS_CardinalityType
      <3> QED  BY <1>3, <2>1, <2>2, <3>1, <3>2
    <2>3. CASE Queued' \subseteq Queued \cup {p} /\ faults' = faults + 1
      <3>1. /\ IsFiniteSet(Queued \cup {p})
            /\ Cardinality(Queued \cup {p}) \in {Cardinality(Queued), Cardinality(Queued) + 1}
        BY <1>3, FS_AddElement
      <3>2. Cardinality(Queued') <= Cardinality(Queued \cup {p}) /\ IsFiniteSet(Queued')
        BY <2>3, <3>1, FS_Subset
      <3>3. Cardinality(Queued') \in Nat  BY <3>2, FS_CardinalityType
      <3> QED  BY <1>3, <2>1, <2>3, <3>1, <3>2, <3>3
    <2> QED  BY <1>2, <2>2, <2>3
  <1>5. ASSUME NEW n \in {0, 1}, Within(n)  PROVE Within(n)'
    <2>1. 0 <= Cardinality(procs) - cur  BY <1>5 DEF Within
    <2> QED  BY <1>1, <1>3, <1>4, <1>5, <2>1, WithinMoves DEF DriftInv
  <1>6. Single => Single'  BY <1>1 DEF Single
  <1>7. Nested => Nested'
    <2>1. \A f \in Frames : Over(f.pid) => Over(f.pid)'
      BY <1>2 DEF Frames
    <2> QED  BY <1>1, <2>1 DEF Nested
  <1> QED  BY <1>1, <1>2, <1>4, <1>5, <1>6, <1>7 DEF DriftInv

\* A step of the monitor that leaves the list, the count, the queue and the
\* calls of do_event alone.
LEMMA DriftQuiet ==
    ASSUME DriftInv, Monitor \/ UNCHANGED vars,
           UNCHANGED <<procs, cur, msgs>>, Single, Single', Within(0)
    PROVE  DriftInv'
  <1>1. QueueInv' /\ Queued' = Queued /\ faults' = faults
    BY MonitorQueue DEF DriftInv
  <1> QED  BY <1>1 DEF DriftInv, Within

\* Sequences with the same entries are the same.
LEMMA SeqEqual ==
    ASSUME NEW S, NEW s \in Seq(S), NEW t \in Seq(S), Len(s) = 2, Len(t) = 2,
           s[1] = t[1], s[2] = t[2]
    PROVE  s = t
  <1>1. s \in [1..2 -> S] /\ t \in [1..2 -> S]  OBVIOUS
  <1>2. \A i \in 1..2 : s[i] = t[i]  OBVIOUS
  <1> QED  BY <1>1, <1>2

\* A call on top of another.
LEMMA TwoCalls ==
    ASSUME NEW f, NEW g
    PROVE  /\ <<g>> \o <<f>> = <<g, f>> /\ Tail(<<g, f>>) = <<f>> /\ Head(<<g, f>>) = g
           /\ <<g>> \o <<>> = <<g>> /\ Tail(<<g>>) = <<>> /\ Head(<<g>>) = g
  <1>1. <<g>> \o <<f>> = <<g, f>>
    <2> DEFINE S == {f, g}
    <2>1. <<g>> \in Seq(S) /\ <<f>> \in Seq(S) /\ <<g, f>> \in Seq(S)  OBVIOUS
    <2>2. <<g>> \o <<f>> \in Seq(S) /\ Len(<<g>> \o <<f>>) = 2
      BY <2>1
    <2>3. (<<g>> \o <<f>>)[1] = g /\ (<<g>> \o <<f>>)[2] = f
      BY <2>1
    <2>4. Len(<<g, f>>) = 2 /\ <<g, f>>[1] = g /\ <<g, f>>[2] = f  OBVIOUS
    <2> HIDE DEF S
    <2> QED  BY <2>1, <2>2, <2>3, <2>4, SeqEqual
  <1>2. Tail(<<g, f>>) = <<f>>  OBVIOUS
  <1>3. Head(<<g, f>>) = g  OBVIOUS
  <1>4. <<g>> \o <<>> = <<g>>  OBVIOUS
  <1>5. Tail(<<g>>) = <<>>  OBVIOUS
  <1>6. Head(<<g>>) = g  OBVIOUS
  <1> QED  BY <1>1, <1>2, <1>3, <1>4, <1>5, <1>6

\* do_recv: an exception taken from the queue may nest a call.
LEMMA DriftRecv ==
    ASSUME DriftInv, NEW p \in Pids, Recv(p)
    PROVE  DriftInv'
  <1>1. /\ InRecv /\ p \in Wanted /\ msgs[p] # <<>> /\ pc' = pc /\ state' = state
        /\ msgs' = [msgs EXCEPT ![p] = Tail(msgs[p])]
    BY DEF Recv, worker
  <1>2. QueueInv' /\ faults' = faults
    BY MonitorQueue DEF DriftInv, Monitor
  <1>3. /\ Queued' \subseteq Queued
        /\ Head(msgs[p]) = "exception" =>
             /\ msgs'[p] = <<>> /\ state[p] \in {"dying", "none"}
             /\ p \in Queued /\ Queued' \subseteq Queued \ {p}
    BY <1>1, RecvQueue DEF DriftInv
  <1>4. stack # <<>> => p = Top.pid  BY <1>1 DEF Wanted
  <1>5. ~Nested
    <2> SUFFICES ASSUME NEW f \in Frames, Over(f.pid),
                        stack = <<f>> \/ \E g \in Frames : stack = <<g, f>> /\ g.pid = f.pid
                 PROVE  FALSE
      BY DEF Nested
    <2>1. stack # <<>> /\ Top.pid = f.pid  BY DEF Top
    <2> QED  BY <1>1, <1>4, <2>1 DEF Over
  <1>6. Single /\ Within(0)  BY <1>5 DEF DriftInv
  <1>7. IsFiniteSet(Queued) /\ Cardinality(Queued) \in Nat /\ Cardinality(procs) \in Nat
    BY Finite DEF DriftInv
  <1>8. Cardinality(Queued') \in Nat /\ Cardinality(Queued') <= Cardinality(Queued)
    <2>1. Cardinality(Queued') <= Cardinality(Queued) /\ IsFiniteSet(Queued')
      BY <1>3, <1>7, FS_Subset
    <2> QED  BY <2>1, FS_CardinalityType
  <1>9. procs' \subseteq Pids
    BY GroupStep DEF DriftInv, Steady, Next, Monitor
  <1>10. 0 <= Cardinality(procs) - cur  BY <1>6 DEF Within
  <1>11. CASE Head(msgs[p]) # "exception"
    <2>1. UNCHANGED stack /\ (UNCHANGED <<procs, cur>> \/ (p \notin procs /\ AddProc(p)))
      BY <1>11 DEF Recv, Heartbeat
    <2>2. Cardinality(procs') - cur' = Cardinality(procs) - cur /\ cur' \in Int
      BY <2>1, ShortKept DEF DriftInv
    <2>3. Cardinality(procs') \in Nat
      BY <1>9, FS_Subset, FS_CardinalityType, GroupAssumption
    <2>4. Within(0)'
      BY <1>2, <1>6, <1>7, <1>8, <1>9, <1>10, <2>2, <2>3, WithinMoves DEF DriftInv
    <2>5. procs \subseteq procs'  BY <2>1 DEF AddProc
    <2>6. Single'  BY <1>1, <1>6, <2>1, <2>5 DEF Single
    <2> QED  BY <1>2, <1>9, <2>2, <2>4, <2>6 DEF DriftInv
  <1>12. CASE Head(msgs[p]) = "exception"
    <2> DEFINE new == [op |-> "dead", pid |-> p, at |-> "kill"]
    <2>1. /\ UNCHANGED <<procs, cur>>
          /\ stack' = stack \/ (p \in procs /\ stack' = <<new>> \o stack)
      BY <1>12 DEF Recv
    <2>2. Cardinality(Queued') <= Cardinality(Queued) - 1
      <3>1. /\ IsFiniteSet(Queued \ {p})
            /\ Cardinality(Queued \ {p}) = Cardinality(Queued) - 1
        BY <1>3, <1>7, <1>12, FS_RemoveElement
      <3>2. Cardinality(Queued') <= Cardinality(Queued \ {p})
        BY <1>3, <1>12, <3>1, FS_Subset
      <3> QED  BY <3>1, <3>2
    <2>3. Within(0)' /\ Within(1)'
      <3>1. Cardinality(procs') = Cardinality(procs) /\ cur' = cur  BY <2>1
      <3> QED
        BY <1>2, <1>6, <1>7, <1>8, <1>9, <1>10, <2>2, <3>1, WithinMoves DEF DriftInv
    <2>4. new \in Frames /\ new.pid = p /\ new.op = "dead"  BY DEF Frames
    <2>5. Over(p)'  BY <1>1, <1>3, <1>12 DEF Over
    <2> HIDE DEF new
    <2>6. Single' \/ Nested'
      <3>1. CASE stack' = stack  BY <1>1, <1>6, <2>1, <3>1 DEF Single
      <3>2. CASE p \in procs /\ stack' = <<new>> \o stack /\ stack = <<>>
        <4>1. pc = "recv"  BY <1>1, <3>2 DEF InRecv
        <4>2. stack' = <<new>>  BY <3>2
        <4> QED  BY <1>1, <2>1, <2>4, <3>2, <4>1, <4>2 DEF Single
      <3>3. CASE p \in procs /\ stack' = <<new>> \o stack /\ stack # <<>>
        <4>1. PICK f \in Frames : stack = <<f>> /\ f.pid \in procs
              /\ pc \in {"recv", "up", "procs"}
          BY <1>6, <3>3 DEF Single
        <4>2. stack' = <<new, f>>  BY <3>3, <4>1, TwoCalls
        <4>3. f.pid = p  BY <1>4, <4>1 DEF Top
        <4> QED  BY <1>1, <2>1, <2>4, <2>5, <4>1, <4>2, <4>3 DEF Nested
      <3> QED  BY <2>1, <3>1, <3>2, <3>3
    <2> QED  BY <1>2, <1>9, <2>1, <2>3, <2>6 DEF DriftInv
  <1> QED  BY <1>11, <1>12

\* do_event deletes the process of the call that ends.
LEMMA DriftDel ==
    ASSUME DriftInv, ProcUpDel \/ DeadDel
    PROVE  DriftInv'
  <1>1. /\ stack # <<>> /\ stack' = Tail(stack) /\ pc' = pc
        /\ procs' = procs \ {Top.pid} /\ UNCHANGED msgs
    BY DEF ProcUpDel, DeadDel, DelProc, At
  <1>2. cur' = cur - 1 \/ (Top.pid \notin procs /\ cur' = cur)
    BY DEF ProcUpDel, DeadDel, DelProc
  <1>3. /\ QueueInv' /\ Queued' = Queued /\ faults' = faults
        /\ \A q \in Pids \cap Known : Over(q) => Over(q)'
    BY <1>1, MonitorQueue DEF DriftInv, Monitor
  <1>4. procs' \subseteq Pids /\ cur' \in Int  BY <1>1, <1>2 DEF DriftInv
  <1>5. Cardinality(Queued) \in Nat /\ Cardinality(procs) \in Nat
    BY Finite DEF DriftInv
  <1>6. CASE Single /\ Within(0)
    <2>1. PICK f \in Frames : stack = <<f>> /\ f.pid \in procs
      BY <1>1, <1>6 DEF Single
    <2>2. Top = f /\ stack' = <<>>  BY <1>1, <2>1, TwoCalls DEF Top
    <2>3. f.pid \in Pids  BY DEF Frames
    <2>4. Cardinality(procs') - cur' = Cardinality(procs) - cur
      BY <1>1, <1>2, <2>1, <2>2, <2>3, ShortKept DEF DriftInv
    <2>5. Within(0)'  BY <1>3, <1>6, <2>4 DEF Within
    <2>6. Single'  BY <2>2 DEF Single
    <2> QED  BY <1>3, <1>4, <2>5, <2>6 DEF DriftInv
  <1>7. CASE Nested /\ Within(1)
    <2>1. PICK f \in Frames :
            /\ Over(f.pid) /\ pc \in {"recv", "up", "procs"}
            /\ \/ stack = <<f>> /\ f.pid \notin procs
               \/ /\ f.pid \in procs
                  /\ \E g \in Frames : stack = <<g, f>> /\ g.pid = f.pid /\ g.op = "dead"
      BY <1>7 DEF Nested
    <2>2. CASE stack = <<f>> /\ f.pid \notin procs
      <3>1. Top = f /\ stack' = <<>> /\ procs' = procs
        BY <1>1, <2>2, TwoCalls DEF Top
      <3>2. Within(0)'  BY <1>2, <1>3, <1>5, <1>7, <3>1 DEF Within, DriftInv
      <3>3. Single'  BY <3>1 DEF Single
      <3> QED  BY <1>3, <1>4, <3>2, <3>3 DEF DriftInv
    <2>3. CASE /\ f.pid \in procs
               /\ \E g \in Frames : stack = <<g, f>> /\ g.pid = f.pid /\ g.op = "dead"
      <3>1. PICK g \in Frames : stack = <<g, f>> /\ g.pid = f.pid
        BY <2>3
      <3>2. Top = g /\ stack' = <<f>>  BY <1>1, <3>1, TwoCalls DEF Top
      <3>3. f.pid \in Pids \cap Known
        <4>1. 2 \in DOMAIN stack /\ stack[2] = f  BY <3>1
        <4> QED  BY <4>1 DEF Known, Frames
      <3>4. Over(f.pid)'  BY <1>3, <2>1, <3>3
      <3>5. Cardinality(procs') - cur' = Cardinality(procs) - cur
        BY <1>1, <1>2, <2>3, <3>1, <3>2, <3>3, ShortKept DEF DriftInv
      <3>6. Within(1)'  BY <1>3, <1>7, <3>5 DEF Within
      <3>7. f.pid \notin procs'  BY <1>1, <3>1, <3>2
      <3>8. Nested'  BY <1>1, <2>1, <3>2, <3>4, <3>7 DEF Nested
      <3> QED  BY <1>3, <1>4, <3>6, <3>8 DEF DriftInv
    <2> QED  BY <2>1, <2>2, <2>3
  <1> QED  BY <1>6, <1>7 DEF DriftInv

\* do_event(PROCDEAD) before it deletes the process.
LEMMA DriftDead ==
    ASSUME DriftInv, DeadKill \/ DeadProbe
    PROVE  DriftInv'
  <1>1. stack # <<>> /\ UNCHANGED <<procs, cur, pc, msgs, state>>
    BY DEF DeadKill, DeadProbe, At, group, worker
  <1>2. stack' = Tail(stack) \/ \E a \in {"probe", "recv"} : stack' = GoOn(a)
    BY DEF DeadKill, DeadProbe
  <1>3. Top.op = "dead"  BY DEF DeadKill, DeadProbe, At
  <1>4. QueueInv' /\ Queued' = Queued /\ faults' = faults
    BY <1>1, MonitorQueue DEF DriftInv, Monitor
  <1>5. \A n : Within(n) => Within(n)'  BY <1>1, <1>4 DEF Within
  <1>6. Within(1) => Within(0)
    <2>1. Cardinality(Queued) \in Nat /\ Cardinality(procs) \in Nat
      BY Finite DEF DriftInv
    <2> QED  BY <2>1 DEF Within, DriftInv
  <1>7. ASSUME NEW f \in Frames, Top = f, NEW a \in {"probe", "recv"}, stack' = GoOn(a)
        PROVE  \E h \in Frames : stack' = <<h>> \o Tail(stack) /\ h.pid = f.pid
                                  /\ h.op = f.op
    <2> DEFINE h == [op |-> f.op, pid |-> f.pid, at |-> a]
    <2>1. h \in Frames /\ h.pid = f.pid /\ h.op = f.op  BY DEF Frames
    <2>2. stack' = <<h>> \o Tail(stack)  BY <1>7 DEF GoOn
    <2> QED  BY <2>1, <2>2
  <1>8. CASE Single /\ Within(0)
    <2>1. PICK f \in Frames : stack = <<f>> /\ f.pid \in procs
                              /\ pc \in {"recv", "up", "procs"}
      BY <1>1, <1>8 DEF Single
    <2>2. Top = f /\ Tail(stack) = <<>>  BY <2>1, TwoCalls DEF Top
    <2>3. stack' = <<>> \/ \E h \in Frames : stack' = <<h>> /\ h.pid = f.pid
      <3>1. stack' = <<>> \/ \E h \in Frames : stack' = <<h>> \o <<>> /\ h.pid = f.pid
        BY <1>2, <1>7, <2>2
      <3> QED  BY <3>1, TwoCalls, Zenon
    <2>4. Single'  BY <1>1, <2>1, <2>3 DEF Single
    <2> QED  BY <1>1, <1>4, <1>5, <1>8, <2>4 DEF DriftInv
  <1>9. CASE Nested /\ Within(1)
    <2>1. PICK f \in Frames :
            /\ Over(f.pid) /\ pc \in {"recv", "up", "procs"}
            /\ \/ stack = <<f>> /\ f.pid \notin procs
               \/ /\ f.pid \in procs
                  /\ \E g \in Frames : stack = <<g, f>> /\ g.pid = f.pid /\ g.op = "dead"
      BY <1>9 DEF Nested
    <2>2. Over(f.pid)'  BY <1>1, <2>1 DEF Over
    <2>3. CASE stack = <<f>> /\ f.pid \notin procs
      <3>1. Top = f /\ Tail(stack) = <<>>  BY <2>3, TwoCalls DEF Top
      <3>2. stack' = <<>> \/ \E h \in Frames : stack' = <<h>> /\ h.pid = f.pid
        <4>1. stack' = <<>> \/ \E h \in Frames : stack' = <<h>> \o <<>> /\ h.pid = f.pid
          BY <1>2, <1>7, <3>1
        <4> QED  BY <4>1, TwoCalls, Zenon
      <3>3. stack' = <<>> => Single'  BY DEF Single
      <3>4. stack' # <<>> => Nested'  BY <1>1, <2>1, <2>2, <2>3, <3>2 DEF Nested
      <3> QED  BY <1>1, <1>4, <1>5, <1>6, <1>9, <3>3, <3>4 DEF DriftInv
    <2>4. CASE /\ f.pid \in procs
               /\ \E g \in Frames : stack = <<g, f>> /\ g.pid = f.pid /\ g.op = "dead"
      <3>1. PICK g \in Frames : stack = <<g, f>> /\ g.pid = f.pid  BY <2>4
      <3>2. Top = g /\ Tail(stack) = <<f>>  BY <3>1, TwoCalls DEF Top
      <3>3. CASE stack' = Tail(stack)
        <4>1. Single'  BY <1>1, <2>1, <2>4, <3>2, <3>3 DEF Single
        <4> QED  BY <1>1, <1>4, <1>5, <1>6, <1>9, <4>1 DEF DriftInv
      <3>4. CASE \E a \in {"probe", "recv"} : stack' = GoOn(a)
        <4>1. PICK h \in Frames : stack' = <<h, f>> /\ h.pid = g.pid /\ h.op = g.op
          <5>1. \E h \in Frames : stack' = <<h>> \o <<f>> /\ h.pid = g.pid /\ h.op = g.op
            BY <1>7, <3>2, <3>4
          <5> QED  BY <5>1, TwoCalls, Zenon
        <4>2. Nested'  BY <1>1, <1>3, <2>1, <2>2, <2>4, <3>1, <3>2, <4>1 DEF Nested
        <4> QED  BY <1>1, <1>4, <1>5, <1>9, <4>2 DEF DriftInv
      <3> QED  BY <1>2, <3>3, <3>4
    <2> QED  BY <2>1, <2>3, <2>4
  <1> QED  BY <1>8, <1>9 DEF DriftInv

\* One step keeps the invariant.
LEMMA DriftStep ==
    ASSUME DriftInv, [Next]_vars
    PROVE  DriftInv'
  <1>1. CASE \E p \in Pids : Work(p) \/ End(p) \/ Fault(p)  BY <1>1, DriftWorker
  <1>2. CASE \E p \in Pids : Recv(p)  BY <1>2, DriftRecv
  <1>3. CASE ProcUpDel \/ DeadDel  BY <1>3, DriftDel
  <1>4. CASE DeadKill \/ DeadProbe  BY <1>4, DriftDead
  <1>5. CASE UNCHANGED vars
    BY <1>5 DEF DriftInv, QueueInv, MsgInv, Single, Nested, Within, Queued, Over, vars
  <1>6. CASE \E p \in Pids : ProcUp(p) \/ CheckProc(p)
    <2>1. PICK p \in Pids : ProcUp(p) \/ CheckProc(p)  BY <1>6
    <2>2. /\ UNCHANGED <<procs, cur, msgs, pc>> /\ stack = <<>>
          /\ pc \in {"up", "procs"} /\ p \in procs
      BY <2>1 DEF ProcUp, CheckProc, group
    <2>3. \E f \in Frames : stack' = <<f>> /\ f.pid = p
      <3>1. CASE ProcUp(p)
        <4> DEFINE f == [op |-> "up", pid |-> p, at |-> "recv"]
        <4>1. f \in Frames /\ f.pid = p  BY DEF Frames
        <4>2. stack' = <<f>>  BY <3>1 DEF ProcUp
        <4> QED  BY <4>1, <4>2
      <3>2. CASE CheckProc(p)
        <4> DEFINE f == [op |-> "dead", pid |-> p, at |-> "kill"]
        <4>1. f \in Frames /\ f.pid = p  BY DEF Frames
        <4>2. stack' = <<f>>  BY <3>2 DEF CheckProc
        <4> QED  BY <4>1, <4>2
      <3> QED  BY <2>1, <3>1, <3>2
    <2>4. Single /\ Single'  BY <2>2, <2>3 DEF Single
    <2>5. Within(0)
      <3>1. ~Nested  BY <2>2 DEF Nested
      <3> QED  BY <3>1 DEF DriftInv
    <2> QED  BY <2>1, <2>2, <2>4, <2>5, DriftQuiet DEF Monitor
  <1>7. CASE \/ RecvAll \/ ReloadStart \/ ReloadWaitNew \/ ReloadKillOld
             \/ ReloadClear \/ CheckGroupSkip \/ CheckGroup \/ ProcUpDone
             \/ CheckDone \/ Sleep \/ Reload
    <2>1. stack' = stack /\ UNCHANGED msgs /\ Monitor
      BY <1>7 DEF RecvAll, ReloadStart, ReloadWaitNew, ReloadKillOld, ReloadClear,
                  CheckGroupSkip, CheckGroup, ProcUpDone, CheckDone, Sleep, Reload,
                  Monitor
    <2>2. stack = <<>> \/ pc \notin {"recv", "up", "procs"}
      BY <1>7 DEF RecvAll, ReloadStart, ReloadWaitNew, ReloadKillOld, ReloadClear,
                  CheckGroupSkip, CheckGroup, ProcUpDone, CheckDone, Sleep, InCheck, Reload
    <2>3. stack = <<>> /\ Single /\ Single' /\ Within(0)
      <3>1. ~Nested  BY <2>2 DEF Nested
      <3>2. stack = <<>>  BY <2>2, <3>1 DEF DriftInv, Single
      <3> QED  BY <2>1, <3>1, <3>2 DEF DriftInv, Single
    <2>4. CASE UNCHANGED <<procs, cur>>  BY <2>1, <2>3, <2>4, DriftQuiet
    <2>5. CASE Reload
      <3>1. procs' = {} /\ cur' = 0  BY <2>5 DEF Reload
      <3>2. QueueInv' /\ Queued' = Queued /\ faults' = faults
        BY <2>1, MonitorQueue DEF DriftInv
      <3>3. Cardinality(Queued) \in Nat /\ Cardinality(procs) \in Nat
        BY Finite DEF DriftInv
      <3>4. Cardinality(procs') = 0  BY <3>1, FS_EmptySet
      <3>5. Within(0)'  BY <2>3, <3>1, <3>2, <3>3, <3>4 DEF Within, DriftInv
      <3> QED  BY <2>3, <3>1, <3>2, <3>5 DEF DriftInv
    <2> QED
      BY <1>7, <2>4, <2>5 DEF RecvAll, ReloadStart, ReloadWaitNew, ReloadKillOld,
           ReloadClear, CheckGroupSkip, CheckGroup, ProcUpDone, CheckDone, Sleep, group
  <1> QED  BY <1>1, <1>2, <1>3, <1>4, <1>5, <1>6, <1>7 DEF Next, Monitor

\* The count of the group, in both configurations, for every number of workers,
\* failures and reloads and however late the messages are read: it is never
\* above the list, short by at most one for each worker that failed, and exact
\* where workers are not restarted by exception (do_recv, process_exception and
\* the nested do_event of tprocmon.cpp).
THEOREM CountKept == Spec => []CountShort
  <1>1. CASE ExceptionRestart = FALSE
    <2>1. Init => CountInv
      BY FS_EmptySet DEF Init, CountInv, CountExact
    <2>2. CountInv /\ [Next]_vars => CountInv'
      BY <1>1, CountStep
    <2>3. CountInv => CountShort
      <3> SUFFICES ASSUME CountInv PROVE CountShort  OBVIOUS
      <3>1. Cardinality(procs) \in Nat  BY Finite DEF CountInv
      <3> QED  BY <1>1, <3>1 DEF CountInv, CountExact, CountShort
    <2> QED  BY <2>1, <2>2, <2>3, PTL DEF Spec
  <1>2. CASE ExceptionRestart = TRUE
    <2>1. Init => DriftInv
      <3> SUFFICES ASSUME Init PROVE DriftInv  OBVIOUS
      <3>1. QueueInv  BY DEF Init, QueueInv, MsgInv, States, Messages
      <3>2. Queued = {}  BY DEF Init, Queued
      <3>3. Within(0)  BY <3>2, FS_EmptySet DEF Init, Within
      <3> QED  BY <3>1, <3>3 DEF Init, DriftInv, Single
    <2>2. DriftInv /\ [Next]_vars => DriftInv'
      BY DriftStep
    <2>3. DriftInv => CountShort
      <3> SUFFICES ASSUME DriftInv PROVE CountShort  OBVIOUS
      <3>1. Cardinality(procs) \in Nat /\ Cardinality(Queued) \in Nat
        BY Finite DEF DriftInv
      <3> QED  BY <1>2, <3>1 DEF DriftInv, Within, CountShort
    <2> QED  BY <2>1, <2>2, <2>3, PTL DEF Spec
  <1> QED  BY <1>1, <1>2, GroupAssumption
=============================================================================
