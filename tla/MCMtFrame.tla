------------------------------ MODULE MCMtFrame ------------------------------
EXTENDS MtFrame, TLC

\* Threads of the pool and fds are interchangeable.
Symmetric == Permutations(Threads) \cup Permutations(Fds)
==============================================================================
