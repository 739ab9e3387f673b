----------------------------- MODULE AsyncFrame -----------------------------
(***************************************************************************)
(* The asynchronous frame put together: CAsyncFrame, CActionSet and        *)
(* CNetMgr over the two kinds of connection objects.                       *)
(***************************************************************************)
EXTENDS NetHandler, ParallelNet

Msgs == DOMAIN msg

Init ==
    /\ conf \in Confs
    /\ msg = [m \in 1..conf.msgs |-> "new"] /\ count = 0
    /\ sets = <<>> /\ needDelete = None
    /\ net = <<>> /\ idle = {} /\ ary = [i \in 1..MaxPending |-> None]
    /\ par = <<>> /\ stack = <<>>
----------------------------------------------------------------------------
(* CNetMgr *)

\* A new object, as long as there are fewer than NumHandlers.
NextHandler == {x \in 1..NumHandlers \ DOMAIN net : 1..(x - 1) \subseteq DOMAIN net}
AddHandler(h, type) == [x \in DOMAIN net \cup {h} |-> IF x = h THEN NewHandler(type) ELSE net[x]]

\* What GetHandler may return, and the tables after it.
GetHandler(type) ==
    LET slots == IF \A i \in DOMAIN ary : ary[i] = None THEN {1} ELSE DOMAIN ary IN
    IF type # "LongWithPending"
    THEN IF idle # {}
         THEN {[h |-> x, net |-> net, idle |-> idle \ {x}, ary |-> ary] : x \in idle}
         ELSE {[h |-> h, net |-> AddHandler(h, type), idle |-> idle, ary |-> ary] : h \in NextHandler}
    ELSE {[h |-> ary[i], net |-> net, idle |-> idle, ary |-> ary] : i \in {j \in slots : ary[j] # None}}
          \cup {[h |-> h, net |-> AddHandler(h, type), idle |-> idle, ary |-> [ary EXCEPT ![i] = h]] :
                   i \in {j \in slots : ary[j] = None}, h \in NextHandler}

\* A new object until there are _max_num, then any of them.
GetParallelHandler ==
    IF Len(par) < MaxParallel
    THEN {[p |-> Len(par) + 1, par |-> Append(par, NewParallel)]}
    ELSE {[p |-> p, par |-> par] : p \in DOMAIN par}

\* Mutant: objects of the type Long are not given back.
RecycleShortOnly(h) == IF h # None /\ net[h].type = "Short" THEN idle \cup {h} ELSE idle

RecycleHandler(h) == IF h # None /\ net[h].type # "LongWithPending" THEN idle \cup {h} ELSE idle

\* Mutant: the pointer in _aryHandler stays.
CheckIdleKeepsSlot ==
    LET old == {h \in DOMAIN net \cap (idle \cup Range(ary)) : net[h].proc = "IDLE_RECYCLE"} IN
    /\ stack = <<>>
    /\ net' = [h \in DOMAIN net \ old |-> net[h]]
    /\ idle' = idle \ old
    /\ UNCHANGED <<frame, ary, par, stack>>

\* TimerNotify of CNetMgr, every five minutes.
CheckIdleHander ==
    LET old == {h \in DOMAIN net \cap (idle \cup Range(ary)) : net[h].proc = "IDLE_RECYCLE"} IN
    /\ stack = <<>>
    /\ net' = [h \in DOMAIN net \ old |-> net[h]]
    /\ idle' = idle \ old
    /\ ary' = [i \in DOMAIN ary |-> IF ary[i] \in old THEN None ELSE ary[i]]
    /\ UNCHANGED <<frame, par, stack>>
----------------------------------------------------------------------------
(* CActionSet *)

ConnType(a) ==
    CASE Type(a) \in {"SendRecv", "SendOnly"} -> "Short"
      [] Type(a) \in {"SendRecv_KeepAlive", "SendOnly_KeepAlive"} -> "Long"
      [] OTHER -> "LongWithPending"

\* An action that has not got to a connection object is told that it has failed.
HandleError(a, calls) ==
    stack' = <<FinishedOf(a, None, None)>> \o Failed(calls) /\ UNCHANGED <<net, idle, ary, par>>

\* The encoding fails, or the action is given to a connection object.
HandleStart(a, calls) ==
    \/ HandleError(a, calls)
    \/ /\ Type(a) = "SendRecv_Parallel"
       /\ \E g \in GetParallelHandler :
             par' = g.par /\ stack' = <<ParallelRequestOf(g.p, a, "none")>> \o calls
       /\ UNCHANGED <<net, idle, ary>>
    \/ /\ Type(a) # "SendRecv_Parallel"
       /\ \E g \in GetHandler(ConnType(a)) :
             idle' = g.idle /\ ary' = g.ary /\ HandleRequest(g.h, g.net, a, calls)
       /\ UNCHANGED par

\* The L5 agent (external) knows no host for the action, or it starts.
HandleRoute(a, calls) == HandleError(a, calls) \/ HandleStart(a, calls)

\* The loop of StartAction, for one action or at its end.  The actions are a set of
\* pointers: any order.  Those of a late request are told and not started.
StartAction ==
    /\ Running("StartAction")
    /\ LET f == Head(stack) IN
       \/ /\ f.left = {}
          /\ stack' = Tail(stack) /\ UNCHANGED <<net, idle, ary, par>>
       \/ \E a \in f.left :
             LET calls == <<[f EXCEPT !.left = @ \ {a}]>> \o Tail(stack) IN
             IF f.late THEN HandleError(a, calls) ELSE HandleRoute(a, calls)
    /\ UNCHANGED frame

\* The plugin has been told of the action; the last one completes the state.
HandleFinished ==
    /\ Running("HandleFinished")
    /\ LET f == Head(stack)
           as == SetOf(f.a)
       IN  /\ idle' = RecycleHandler(f.h)
           /\ sets' = [sets EXCEPT ![as] = @ + 1]
           /\ stack' = (IF sets[as] + 1 = Cardinality(Actions(as)) THEN <<HandleProcessOf(as)>> ELSE <<>>)
                          \o Tail(stack)
    /\ UNCHANGED <<conf, msg, count, needDelete, net, ary, par>>
----------------------------------------------------------------------------
(* CAsyncFrame *)

\* The callback Fini, and the request is deleted.
Fini(m) == msg' = [msg EXCEPT ![m] = "done"] /\ count' = count - 1 /\ stack' = Tail(stack)

\* Started in a state, or overloaded or ended by the callback Init.
Process(m) ==
    /\ stack = <<>> /\ msg[m] = "new" /\ \A x \in 1..(m - 1) : msg[x] # "new"
    /\ \/ /\ OverloadLimit = 0 \/ count < OverloadLimit
          /\ msg' = [msg EXCEPT ![m] = "live"] /\ count' = count + 1
          /\ \E s \in DOMAIN conf.plan : stack' = <<HandleEncodeOf(m, s)>>
       \/ msg' = [msg EXCEPT ![m] = "done"] /\ UNCHANGED <<count, stack>>
    /\ UNCHANGED <<conf, sets, needDelete, net, idle, ary, par>>

\* The plugin refuses or the state is unknown, or the actions of the state are added.
HandleEncode ==
    /\ Running("HandleEncode")
    /\ LET m == Head(stack).m
           as == <<m, Head(stack).s>>
       IN  \/ Fini(m) /\ UNCHANGED sets
           \/ /\ sets' = [x \in DOMAIN sets \cup {as} |-> IF x = as THEN 0 ELSE sets[x]]
              /\ IF Actions(as) = {}
                 THEN stack' = <<HandleProcessOf(as)>> \o Tail(stack)
                 ELSE \E late \in BOOLEAN : stack' = <<StartActionOf(as, Actions(as), late)>> \o Tail(stack)
              /\ UNCHANGED <<msg, count>>
    /\ UNCHANGED <<conf, needDelete, net, idle, ary, par>>

\* Mutant: the set is deleted at once.
HandleProcessDeletes ==
    /\ Running("HandleProcess")
    /\ LET as == Head(stack).as IN
       /\ sets' = [x \in DOMAIN sets \ {as} |-> sets[x]]
       /\ \/ Fini(as[1])
          \/ /\ \E s \in (as[2] + 1)..Len(conf.plan) : stack' = <<HandleEncodeOf(as[1], s)>> \o Tail(stack)
             /\ UNCHANGED <<msg, count>>
    /\ UNCHANGED <<conf, needDelete, net, idle, ary, par>>

\* The state is complete: the set of the state completed before is deleted, this one
\* next time, as callers of this call may still use it.  The request ends or goes on.
HandleProcess ==
    /\ Running("HandleProcess")
    /\ LET as == Head(stack).as IN
       /\ sets' = [x \in DOMAIN sets \ {needDelete} |-> sets[x]]
       /\ needDelete' = as
       /\ \/ Fini(as[1])
          \/ /\ \E s \in (as[2] + 1)..Len(conf.plan) : stack' = <<HandleEncodeOf(as[1], s)>> \o Tail(stack)
             /\ UNCHANGED <<msg, count>>
    /\ UNCHANGED <<conf, net, idle, ary, par>>
----------------------------------------------------------------------------
Call ==
    \/ StartAction \/ HandleFinished \/ HandleEncode \/ HandleProcess
    \/ StartActionProcess \/ TryNextAction \/ PopFront
    \/ ParallelRequest \/ TellRecving \/ DropFront \/ EraseRecving \/ AfterTimeout

Timer ==
    \/ \E h \in DOMAIN net : TimerNotify(h)
    \/ \E p \in DOMAIN par, as \in DOMAIN sets : \E a \in Actions(as) : ParallelTimer(p, a)

Next ==
    \/ Call
    \/ Timer
    \/ \E m \in Msgs : Process(m)
    \/ \E h \in DOMAIN net : InputNotify(h) \/ OutputNotify(h) \/ HangupNotify(h)
    \/ \E p \in DOMAIN par : ParallelInput(p) \/ ParallelOutput(p) \/ ParallelHangup(p)
    \/ CheckIdleHander

\* A call goes on.  CheckExpired runs all timers that are due in every round of the loop.
Spec == Init /\ [][Next]_vars /\ WF_vars(Call) /\ WF_vars(Timer)
----------------------------------------------------------------------------
\* Entries of the lists of a connection object whose actions have not been told yet.
Waiting(h) ==
    {i \in DOMAIN net[h].pend : \A j \in DOMAIN stack : stack[j] # PopOf(h, net[h].pend[i].a)}
Sending(p) ==
    {i \in DOMAIN par[p].sending : \A j \in DOMAIN stack : stack[j] # DropFrontOf(p, par[p].sending[i].ac)}
Recving(p) ==
    {i \in DOMAIN par[p].recving : \A j \in DOMAIN stack :
        /\ stack[j] # EraseOf(p, par[p].recving[i])
        /\ stack[j].at = "TellRecving" /\ stack[j].p = p => stack[j].i <= i}

\* Where an action that has not finished is: on a connection object, in one of its
\* lists, about to be told its end, or about to be started.
Places(a) ==
    {<<"action", h>> : h \in {x \in DOMAIN net : net[x].action = a}}
      \cup UNION {{<<"pend", h, i>> : i \in {j \in Waiting(h) : net[h].pend[j].a = a}} : h \in DOMAIN net}
      \cup UNION {{<<"sending", p, i>> : i \in {j \in Sending(p) : par[p].sending[j].ac = a}} : p \in DOMAIN par}
      \cup UNION {{<<"recving", p, i>> : i \in {j \in Recving(p) : par[p].recving[j] = a}} : p \in DOMAIN par}
      \cup {<<"call", i>> : i \in {j \in DOMAIN stack :
               \/ stack[j].at \in {"HandleFinished", "ParallelRequest"} /\ stack[j].a = a
               \/ stack[j].at = "StartAction" /\ a \in stack[j].left}}

\* The count of finished actions of every set is exact: each action is in one place or
\* has finished, once.  Between events a connection object has an action if and only if
\* it is sending or receiving under the timer of the action, nothing waits behind an
\* object that does nothing, every object is in use or in the table CheckIdleHander
\* walks, an answer is awaited only on an open connection, every request that has not
\* ended has an action that has not, and _nRequestCount is the number of these requests.
HandlersExact ==
    /\ \A as \in DOMAIN sets :
          /\ \A a \in Actions(as) : Cardinality(Places(a)) <= 1
          /\ sets[as] = Cardinality({a \in Actions(as) : Places(a) = {}})
    /\ count = Cardinality({m \in Msgs : msg[m] = "live"})
    /\ stack = <<>> =>
          /\ \A h \in DOMAIN net :
                LET busy == net[h].action # None IN
                /\ busy <=> net[h].proc \in {"SENDING", "RECVING"}
                /\ busy <=> net[h].timer = "doing"
                /\ net[h].pend # <<>> => busy
                /\ IF busy THEN h \notin idle ELSE h \in idle \cup Range(ary)
          /\ \A p \in DOMAIN par : par[p].recving # <<>> => par[p].conn = "CONNECTED"
          /\ \A m \in Msgs : msg[m] = "live" =>
                \E as \in DOMAIN sets : as[1] = m /\ sets[as] < Cardinality(Actions(as))

\* No call that goes on later, and no connection object, holds a set, an action, a list
\* entry, a request or a connection object that has been deleted.
UseLive ==
    /\ \A i \in DOMAIN stack :
          LET f == stack[i] IN
          /\ f.at \in {"StartAction", "HandleProcess"} => f.as \in DOMAIN sets
          /\ f.at = "HandleFinished" => SetOf(f.a) \in DOMAIN sets /\ f.h \in DOMAIN net \cup {None}
          /\ f.at \in {"StartActionProcess", "TryNextAction", "PopFront"} => f.h \in DOMAIN net
          /\ f.at = "PopFront" => net[f.h].pend # <<>> /\ net[f.h].pend[1].a = f.a
          /\ f.at = "DropFront" => par[f.p].sending # <<>> /\ par[f.p].sending[1].ac = f.a
          /\ f.at = "EraseRecving" => f.a \in Range(par[f.p].recving)
          /\ f.at = "TellRecving" => f.i <= Len(par[f.p].recving) + 1
          /\ f.at = "HandleEncode" => msg[f.m] = "live"
    /\ \A as \in DOMAIN sets : sets[as] < Cardinality(Actions(as)) => msg[as[1]] = "live"
    /\ \A h \in DOMAIN net :
          \A a \in ({net[h].action} \ {None}) \cup {net[h].pend[i].a : i \in Waiting(h)} : SetOf(a) \in DOMAIN sets
    /\ \A p \in DOMAIN par :
          \A a \in ({par[p].sending[i].ac : i \in Sending(p)} \ {None}) \cup {par[p].recving[i] : i \in Recving(p)} :
             SetOf(a) \in DOMAIN sets
    /\ idle \cup Range(ary) \subseteq DOMAIN net \cup {None}

\* An action is never given the answer to the request of another action.
OwnAnswer ==
    \A i \in DOMAIN stack : stack[i].at = "HandleFinished" => stack[i].ans \in {None, stack[i].a}

\* Every request ends: its actions finish, whatever the far end does.
RequestEnds ==
    \A m \in UNION {1..c.msgs : c \in Confs} :
       (m \in Msgs /\ msg[m] = "live") ~> (m \in Msgs => msg[m] = "done")
=============================================================================
