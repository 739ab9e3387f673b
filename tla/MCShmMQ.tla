------------------------------ MODULE MCShmMQ ------------------------------
(* Instances of ShmMQ for TLC: one proxy (px), a group of two workers.      *)
EXTENDS ShmMQ, TLC

CONSTANTS px, w1, w2

Proxy   == {px}
Workers == {w1, w2}

WorkerSymmetry == Permutations(Workers)
=============================================================================
