---------------------------- MODULE ParallelNet ----------------------------
(***************************************************************************)
(* CParallelNetHandler: a connection object with many actions under way.   *)
(* They wait on _sending_list, then on _recving_list; an answer finds its  *)
(* action by sequence number, here the action itself.  Each action has its *)
(* own timer, armed from HandleRequest until it is taken off the lists.    *)
(***************************************************************************)
EXTENDS AsyncCalls

\* ac of an entry of sending is None once its action has timed out half sent.
\* sent (external): requests the far end got on this connection and has not answered.
NewParallel == [conn |-> "UNCONNECTED", sending |-> <<>>, recving |-> <<>>, timeouts |-> 0, sent |-> <<>>]

\* HandleRequest; ret is what Open returned, or "none" before it.
ParallelRequestOf(p, a, ret) == [at |-> "ParallelRequest", p |-> p, a |-> a, ret |-> ret]
\* DoErrorFinished: at entry i of _recving_list; at the front of _sending_list; after it was told.
TellRecvingOf(p, i) == [at |-> "TellRecving", p |-> p, i |-> i]
DropFrontOf(p, a) == [at |-> "DropFront", p |-> p, a |-> a]
\* DoRecvFinished after HandleProcess; TimerNotify after NotifyAction.
EraseOf(p, a) == [at |-> "EraseRecving", p |-> p, a |-> a]
AfterTimeoutOf(p) == [at |-> "AfterTimeout", p |-> p]
----------------------------------------------------------------------------
CloseParallel(r) == [r EXCEPT !.conn = "UNCONNECTED", !.timeouts = 0, !.sent = <<>>]

ErrorFinished(p, r, calls) ==
    /\ par' = [par EXCEPT ![p] = CloseParallel(r)]
    /\ stack' = <<TellRecvingOf(p, 1)>> \o calls

\* Connected at once, later, or not at all.
OpenParallel(p, r, opened, failed) ==
    \/ /\ \E c \in {"CONNECTING", "CONNECTED"} : par' = [par EXCEPT ![p] = [r EXCEPT !.conn = c]]
       /\ stack' = opened
    \/ ErrorFinished(p, r, failed)

\* Some requests are sent whole, of the next one a part; then the kernel takes no more,
\* fails, or nothing is left.  Only the first can have lost its action.
SendAll(p, r, calls) ==
    \E k \in 0..Len(r.sending) :
       LET gone == SubSeq(r.sending, 1, k)
           rest == SubSeq(r.sending, k + 1, Len(r.sending))
           acs == [i \in 1..k |-> gone[i].ac]
           told == IF k > 0 /\ gone[1].ac = None THEN Tail(acs) ELSE acs
           s == [r EXCEPT !.sending = rest, !.recving = @ \o told, !.sent = @ \o [i \in 1..k |-> gone[i].seq]]
       IN  \/ rest = <<>> /\ par' = [par EXCEPT ![p] = s] /\ stack' = calls
           \/ /\ rest # <<>>
              /\ \E part \in {rest[1].part, TRUE} : par' = [par EXCEPT ![p] = [s EXCEPT !.sending[1].part = part]]
              /\ stack' = calls
           \/ rest # <<>> /\ ErrorFinished(p, s, Failed(calls))

\* HandleRequest: opens the connection when there is none, queues the request, and sends
\* when connected.  When Open failed the request is queued all the same.
ParallelRequest ==
    /\ Running("ParallelRequest")
    /\ LET f == Head(stack)
           r == par[f.p]
           q == [r EXCEPT !.sending = Append(@, [seq |-> f.a, ac |-> f.a, part |-> FALSE])]
       IN  IF r.conn = "UNCONNECTED" /\ f.ret = "none"
           THEN OpenParallel(f.p, r, <<[f EXCEPT !.ret = "ok"]>> \o Tail(stack),
                                     <<[f EXCEPT !.ret = "fail"]>> \o Tail(stack))
           ELSE IF r.conn = "CONNECTED"
                THEN SendAll(f.p, q, Tail(stack))
                ELSE /\ par' = [par EXCEPT ![f.p] = q]
                     /\ stack' = IF f.ret = "fail" THEN Failed(Tail(stack)) ELSE Tail(stack)
    /\ UNCHANGED <<frame, net, idle, ary>>

\* DoErrorFinished: all actions that await an answer are told, then the front of the
\* sending list.
TellRecving ==
    /\ Running("TellRecving")
    /\ LET p == Head(stack).p
           i == Head(stack).i
           r == par[p]
       IN  IF i \in DOMAIN r.recving
           THEN /\ stack' = <<FinishedOf(r.recving[i], None, None), TellRecvingOf(p, i + 1)>> \o Tail(stack)
                /\ UNCHANGED par
           ELSE /\ par' = [par EXCEPT ![p].recving = <<>>]
                /\ stack' = IF r.sending = <<>> THEN Tail(stack)
                            ELSE LET a == r.sending[1].ac IN
                                 (IF a = None THEN <<>> ELSE <<FinishedOf(a, None, None)>>)
                                   \o <<DropFrontOf(p, a)>> \o Tail(stack)
    /\ UNCHANGED <<frame, net, idle, ary>>

\* DoErrorFinished: the front is dropped; what is left needs a new connection.
DropFront ==
    /\ Running("DropFront")
    /\ LET p == Head(stack).p
           r == [par[p] EXCEPT !.sending = Tail(@)]
       IN  IF r.sending = <<>>
           THEN par' = [par EXCEPT ![p] = r] /\ stack' = Tail(stack)
           ELSE OpenParallel(p, r, Tail(stack), Tail(stack))
    /\ UNCHANGED <<frame, net, idle, ary>>

EraseRecving ==
    /\ Running("EraseRecving")
    /\ par' = [par EXCEPT ![Head(stack).p].recving = RemoveFirst(@, Head(stack).a)]
    /\ stack' = Tail(stack)
    /\ UNCHANGED <<frame, net, idle, ary>>

\* TimerNotify: closed when nothing is under way, and when too many actions timed out.
AfterTimeout ==
    /\ Running("AfterTimeout")
    /\ LET p == Head(stack).p
           r == IF par[p].recving = <<>> /\ par[p].sending = <<>> THEN CloseParallel(par[p]) ELSE par[p]
       IN  IF LinkTimeouts # 0 /\ r.timeouts >= LinkTimeouts
           THEN ErrorFinished(p, r, Tail(stack))
           ELSE par' = [par EXCEPT ![p] = r] /\ stack' = Tail(stack)
    /\ UNCHANGED <<frame, net, idle, ary>>
----------------------------------------------------------------------------
(* Events *)

AttachedParallel(p) == stack = <<>> /\ par[p].conn # "UNCONNECTED"

\* Mutant: the first action that waits is given the answer.
RecvFinishedFirst(p, x) ==
    LET a == Head(par[p].recving) IN stack' = <<FinishedOf(a, None, x), EraseOf(p, a)>>

\* The action the answer x belongs to is told and then taken off the list.
RecvFinished(p, x) ==
    stack' = IF x \in Range(par[p].recving) THEN <<FinishedOf(x, None, x), EraseOf(p, x)>> ELSE <<>>

\* The read fails, the far end closed, or there is an answer, perhaps for nobody.
RecvAll(p) ==
    \/ ErrorFinished(p, par[p], <<>>)
    \/ \E x \in Range(par[p].sent) :
          par' = [par EXCEPT ![p].sent = RemoveFirst(@, x), ![p].timeouts = 0] /\ RecvFinished(p, x)

\* Input is an error unless an answer is awaited.
ParallelInput(p) ==
    /\ AttachedParallel(p)
    /\ IF par[p].recving = <<>> THEN ErrorFinished(p, par[p], <<>>) ELSE RecvAll(p)
    /\ UNCHANGED <<frame, net, idle, ary>>

ParallelOutput(p) ==
    /\ AttachedParallel(p)
    /\ \/ par[p].conn = "CONNECTING" /\ ErrorFinished(p, par[p], <<>>)
       \/ SendAll(p, [par[p] EXCEPT !.conn = "CONNECTED"], <<>>)
    /\ UNCHANGED <<frame, net, idle, ary>>

ParallelHangup(p) ==
    /\ AttachedParallel(p)
    /\ ErrorFinished(p, par[p], <<>>)
    /\ UNCHANGED <<frame, net, idle, ary>>

\* A request half sent stays, without its action, until the rest of it is sent.
CopyToPending(r) == [r EXCEPT !.sending[1] = [@ EXCEPT !.ac = None, !.part = FALSE]]

\* The timer of action a.
ParallelTimer(p, a) ==
    LET r == [par[p] EXCEPT !.timeouts = @ + 1]
        at == {i \in DOMAIN r.sending : r.sending[i].ac = a}
    IN  /\ stack = <<>>
        /\ \/ /\ a \in Range(r.recving)
              /\ par' = [par EXCEPT ![p] = [r EXCEPT !.recving = RemoveFirst(@, a)]]
           \/ \E i \in at :
                 par' = [par EXCEPT ![p] =
                            IF i = 1 /\ r.sending[1].part THEN CopyToPending(r)
                            ELSE [r EXCEPT !.sending = RemoveAt(@, i)]]
        /\ stack' = <<FinishedOf(a, None, None), AfterTimeoutOf(p)>>
        /\ UNCHANGED <<frame, net, idle, ary>>
=============================================================================
