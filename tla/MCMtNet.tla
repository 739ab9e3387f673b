------------------------------ MODULE MCMtNet ------------------------------
(* Instances of MtNet for TLC. *)
EXTENDS MtNet, TLC

CONSTANTS t1, t2, d1

\* One link shared by all calls, TCP or UDP, or two UDP sockets taken in turn.
MCConfs == {[proto |-> d1 :> "tcp", max |-> 1], [proto |-> d1 :> "udp", max |-> 1],
            [proto |-> d1 :> "udp", max |-> 2]}
MCCalls == t1 :> 2 @@ t2 :> 1
=============================================================================
