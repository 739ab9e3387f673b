------------------------------ MODULE MsgFifo ------------------------------
(***************************************************************************)
(* What CTShmCommu promises its callers: a message that was accepted is    *)
(* handed to one comsumer, once, whole, and in the order of acceptance.    *)
(***************************************************************************)
EXTENDS Sequences

CONSTANT Message

VARIABLES queue, delivered

Init == queue = <<>> /\ delivered = <<>>

\* Some message joins the queue at its end.
Accept ==
    /\ queue' # <<>>
    /\ queue'[Len(queue')] \in Message
    /\ queue' = Append(queue, queue'[Len(queue')])
    /\ UNCHANGED delivered

Deliver ==
    /\ queue # <<>>
    /\ delivered' = Append(delivered, Head(queue))
    /\ queue' = Tail(queue)

Next == Accept \/ Deliver

Spec == Init /\ [][Next]_<<queue, delivered>>
=============================================================================
