----------------------------- MODULE MCHeapList -----------------------------
(* Instances of HeapList for TLC.                                           *)
EXTENDS HeapList, TLC

EntrySymmetry == Permutations(Entries)
=============================================================================
