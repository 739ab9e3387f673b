----------------------------- MODULE NetHandler -----------------------------
(***************************************************************************)
(* CNetHandler: a connection object that works on one action at a time.    *)
(* Objects of the type LongWithPending keep a list of waiting actions.     *)
(***************************************************************************)
EXTENDS AsyncCalls

\* sent (external): requests the far end got on this connection and has not answered.
\* exp of a waiting action: it was seen to have expired.
NewHandler(type) ==
    [type |-> type, conn |-> "UNCONNECTED", proc |-> "IDLE", action |-> None, pend |-> <<>>,
     timer |-> "none", sent |-> <<>>]

StartProcessOf(h) == [at |-> "StartActionProcess", h |-> h]
TryNextOf(h) == [at |-> "TryNextAction", h |-> h]
\* TryNextAction after HandleError of the expired action a: delete its node, pop_front.
PopOf(h, a) == [at |-> "PopFront", h |-> h, a |-> a]
----------------------------------------------------------------------------
\* Mutant: the socket is kept.
CloseKeepsSocket(r) == [r EXCEPT !.proc = "IDLE", !.timer = "none"]

Close(r) == [r EXCEPT !.conn = "UNCONNECTED", !.proc = "IDLE", !.timer = "none", !.sent = <<>>]

EnableIdleTimer(r) == [r EXCEPT !.timer = "idle"]

\* HandleRequest of CNetHandler: the action is started, or waits behind another one.
HandleRequest(h, objects, a, calls) ==
    IF objects[h].action = None
    THEN net' = [objects EXCEPT ![h].action = a] /\ stack' = <<StartProcessOf(h)>> \o calls
    ELSE net' = [objects EXCEPT ![h].pend = Append(@, [a |-> a, exp |-> FALSE])] /\ stack' = calls

\* The connection is closed, the next waiting action tried, then the action told.
DoErrorFinished(h, calls) ==
    LET a == net[h].action IN
    /\ net' = [net EXCEPT ![h] = EnableIdleTimer(Close([@ EXCEPT !.action = None]))]
    /\ stack' = <<TryNextOf(h)>> \o (IF a = None THEN <<>> ELSE <<FinishedOf(a, h, None)>>) \o calls

\* DoRecvFinished, DoSendFinished of a SendOnly action.
DoFinished(h, r, ans, calls) ==
    LET free == [r EXCEPT !.action = None, !.proc = "IDLE"] IN
    /\ net' = [net EXCEPT ![h] = EnableIdleTimer(IF r.type = "Short" THEN Close(free) ELSE free)]
    /\ stack' = <<TryNextOf(h), FinishedOf(r.action, h, ans)>> \o calls

\* The kernel takes a part or nothing (r keeps the state SENDING), fails, or takes all.
DoSend(h, r, calls) ==
    \/ net' = [net EXCEPT ![h] = r] /\ stack' = calls
    \/ DoErrorFinished(h, Failed(calls))
    \/ /\ SendOnly(r.action)
       /\ DoFinished(h, r, None, calls)
    \/ /\ ~SendOnly(r.action)
       /\ net' = [net EXCEPT ![h] = [r EXCEPT !.proc = "RECVING", !.sent = Append(@, r.action)]]
       /\ stack' = calls

\* The socket is connected at once (always over UDP), later, or not at all.
Open(h, r, calls) ==
    \/ \E c \in {"CONNECTING", "CONNECTED"} : net' = [net EXCEPT ![h] = [r EXCEPT !.conn = c]] /\ stack' = calls
    \/ DoErrorFinished(h, Failed(calls))

\* Mutant: EnableDoingTimer left out.
StartActionUntimed ==
    /\ Running("StartActionProcess")
    /\ LET h == Head(stack).h
           r == [net[h] EXCEPT !.proc = "SENDING", !.timer = "none"]
       IN  IF r.conn = "UNCONNECTED" THEN Open(h, r, Tail(stack)) ELSE DoSend(h, r, Tail(stack))
    /\ UNCHANGED <<frame, idle, ary, par>>

StartActionProcess ==
    /\ Running("StartActionProcess")
    /\ LET h == Head(stack).h
           r == [net[h] EXCEPT !.proc = "SENDING", !.timer = "doing"]
       IN  IF r.conn = "UNCONNECTED" THEN Open(h, r, Tail(stack)) ELSE DoSend(h, r, Tail(stack))
    /\ UNCHANGED <<frame, idle, ary, par>>

\* An expired action is told before it is taken off the list; the first that has not
\* expired is started.
TryNextAction ==
    /\ Running("TryNextAction")
    /\ LET h == Head(stack).h
           list == net[h].pend
           waits == net[h].type = "LongWithPending" /\ list # <<>>
       IN  \/ ~waits /\ stack' = Tail(stack) /\ UNCHANGED net
           \/ /\ waits
              /\ net' = [net EXCEPT ![h].pend[1].exp = TRUE]
              /\ stack' = <<FinishedOf(list[1].a, h, None), PopOf(h, list[1].a)>> \o Tail(stack)
           \/ /\ waits /\ ~list[1].exp
              /\ net' = [net EXCEPT ![h].action = list[1].a, ![h].pend = Tail(@)]
              /\ stack' = <<StartProcessOf(h)>> \o Tail(stack)
    /\ UNCHANGED <<frame, idle, ary, par>>

PopFront ==
    /\ Running("PopFront")
    /\ LET h == Head(stack).h IN
       /\ net' = [net EXCEPT ![h].pend = Tail(@)]
       /\ stack' = <<TryNextOf(h)>> \o Tail(stack)
    /\ UNCHANGED <<frame, idle, ary, par>>
----------------------------------------------------------------------------
(* Events, from CPollerUnit and CTimerUnit *)

Attached(h) == stack = <<>> /\ net[h].conn # "UNCONNECTED"

\* The read fails, the far end has closed, or there is an answer.
DoRecv(h) ==
    \/ DoErrorFinished(h, <<>>)
    \/ /\ net[h].sent # <<>>
       /\ DoFinished(h, [net[h] EXCEPT !.sent = Tail(@)], Head(net[h].sent), <<>>)

\* Input is an error unless an answer is awaited.
InputNotify(h) ==
    /\ Attached(h)
    /\ IF net[h].proc = "RECVING" THEN DoRecv(h) ELSE DoErrorFinished(h, <<>>)
    /\ UNCHANGED <<frame, idle, ary, par>>

\* Output is watched while a request is being sent.
OutputNotify(h) ==
    /\ Attached(h) /\ net[h].proc = "SENDING"
    /\ \/ net[h].conn = "CONNECTING" /\ DoErrorFinished(h, <<>>)
       \/ DoSend(h, [net[h] EXCEPT !.conn = "CONNECTED"], <<>>)
    /\ UNCHANGED <<frame, idle, ary, par>>

HangupNotify(h) ==
    /\ Attached(h)
    /\ DoErrorFinished(h, <<>>)
    /\ UNCHANGED <<frame, idle, ary, par>>

\* The action took too long, or the object was idle for an hour.
TimerNotify(h) ==
    /\ stack = <<>> /\ net[h].timer # "none"
    /\ IF net[h].proc = "IDLE"
       THEN net' = [net EXCEPT ![h].timer = "none", ![h].proc = "IDLE_RECYCLE"] /\ UNCHANGED stack
       ELSE DoErrorFinished(h, <<>>)
    /\ UNCHANGED <<frame, idle, ary, par>>
=============================================================================
