----------------------------- MODULE MCProcMon -----------------------------
(* Instances of ProcMon for TLC. *)
EXTENDS ProcMon, TLC

PidSymmetry == Permutations(Pids)
=============================================================================
