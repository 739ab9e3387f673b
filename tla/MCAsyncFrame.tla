---------------------------- MODULE MCAsyncFrame ----------------------------
(* Instances of AsyncFrame for TLC: what the states of a request are made of. *)
EXTENDS AsyncFrame

Wait == "SendRecv_KeepAliveWithPending"
Keep == "SendOnly_KeepAlive"
Parallel == "SendRecv_Parallel"

\* A connection with waiting actions, then one without; short and kept connections side
\* by side; a connection with many actions under way.
AllConfs ==
    {[msgs |-> 3, plan |-> <<<<Wait>>, <<Keep>>>>],
     [msgs |-> 2, plan |-> <<<<"SendRecv", Keep>>>>],
     [msgs |-> 2, plan |-> <<<<Parallel, Parallel>>, <<Keep>>>>]}

\* The next state waits on the same connection: HandlersExact fails.
AgainConfs == {[msgs |-> 2, plan |-> <<<<Wait>>, <<Wait>>>>]}

\* A next state without actions ends inside the first: UseLive fails.
InsideConfs == {[msgs |-> 2, plan |-> <<<<Keep>>, <<>>>>]}
=============================================================================
