----------------------------- MODULE AsyncCalls -----------------------------
(***************************************************************************)
(* The state of the asynchronous frame of a worker and the calls that nest *)
(* in it.  A request (CMsgBase) goes through states; a state is a set of   *)
(* actions (CActionSet) that run side by side on connection objects.  When *)
(* the last action of the set has finished the plugin names the next state.*)
(*                                                                         *)
(* Everything runs in one thread, called by the event loop, but calls      *)
(* nest: the end of an action calls the plugin, which starts the next      *)
(* state, which may finish at once, on the connection that is still being  *)
(* worked on further up.  stack holds the calls that go on after the call  *)
(* they made; the first of it runs.  Events come when it is empty.         *)
(*                                                                         *)
(* There is one destination.  An action is <<request, state, number>>.     *)
(***************************************************************************)
EXTENDS Integers, Sequences, FiniteSets, SequencesExt

CONSTANTS
    Confs,          \* numbers of requests, and types of the actions of each state
    NumHandlers,    \* objects of CNetHandler at one time
    MaxPending,     \* _MaxPendingConnNum
    MaxParallel,    \* _max_num of parallel_handler_array
    LinkTimeouts,   \* link_timeout_limit, 0 for none
    OverloadLimit,  \* _nOverloadLimit, 0 for none
    None

ActionTypes == {"SendRecv", "SendRecv_KeepAlive", "SendRecv_KeepAliveWithPending",
                "SendOnly", "SendOnly_KeepAlive", "SendOnly_KeepAliveWithPending",
                "SendRecv_Parallel"}

ASSUME AsyncAssumption ==
    /\ \A c \in Confs : c.msgs \in Nat /\ c.plan \in Seq(Seq(ActionTypes))
    /\ {NumHandlers, LinkTimeouts, OverloadLimit} \subseteq Nat
    /\ {MaxPending, MaxParallel} \subseteq Nat \ {0}
    /\ None \notin Nat \cup (Nat \X Nat \X Nat)

VARIABLES
    conf,
    msg,         \* request: "new", "live" (registered in _msgptr_mgr), "done" (deleted)
    count,       \* _nRequestCount
    sets,        \* live action sets and their _finished_count
    needDelete,  \* _pNeedDeleteAS
    net,         \* live objects of CNetHandler
    idle,        \* _mapHandler: objects for connections without waiting actions, not in use
    ary,         \* _aryHandler: objects for connections with waiting actions
    par,         \* the objects of CParallelNetHandler
    stack

frame == <<conf, msg, count, sets, needDelete>>
vars == <<frame, net, idle, ary, par, stack>>

SetOf(a) == <<a[1], a[2]>>
Actions(as) == {<<as[1], as[2], i>> : i \in DOMAIN conf.plan[as[2]]}
Type(a) == conf.plan[a[2]][a[3]]
SendOnly(a) == Type(a) \in {"SendOnly", "SendOnly_KeepAlive", "SendOnly_KeepAliveWithPending"}
----------------------------------------------------------------------------
(* The calls on the stack, with the locals they go on with. *)

HandleEncodeOf(m, s) == [at |-> "HandleEncode", m |-> m, s |-> s]
StartActionOf(as, left, late) == [at |-> "StartAction", as |-> as, left |-> left, late |-> late]
HandleProcessOf(as) == [at |-> "HandleProcess", as |-> as]
\* HandleError, HandleProcess or HandleSendFinished of an action; ans is the answer it got.
FinishedOf(a, h, ans) == [at |-> "HandleFinished", a |-> a, h |-> h, ans |-> ans]

Running(at) == stack # <<>> /\ Head(stack).at = at

\* The start of the action failed (ret < 0): the loop of StartAction returns at once if
\* it was the last one, without another look at the set.
Failed(calls) ==
    IF calls # <<>> /\ Head(calls).at = "StartAction" /\ Head(calls).left = {} THEN Tail(calls) ELSE calls
=============================================================================
