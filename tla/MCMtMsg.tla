------------------------------ MODULE MCMtMsg ------------------------------
(* Instances of MtMsg for TLC. *)
EXTENDS MtMsg, TLC

CONSTANTS t1, t2, a1, a2

\* Two threads ask one back end each; one thread asks two at once, or one
\* after the other.
OneEach == t1 :> <<<<a1>>>> @@ t2 :> <<<<a2>>>>
AtOnce  == t1 :> <<<<a1, a2>>>> @@ t2 :> <<>>
Twice   == t1 :> <<<<a1>>, <<a2>>>> @@ t2 :> <<>>
MCInputs ==
    LET kinds(x, y) == a1 :> x @@ a2 :> y
    IN  [calls : {OneEach}, kind : {kinds("tcp", "tcp"), kinds("tcp", "session"),
                                    kinds("session", "session")}]
        \cup [calls : {AtOnce}, kind : {kinds("tcp", "session"), kinds("session", "session"),
                                      kinds("tcp", "tcp"), kinds("short", "session")}]
        \cup [calls : {Twice}, kind : {kinds("tcp", "tcp"), kinds("session", "session")}]
=============================================================================
