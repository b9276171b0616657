------------------------------ MODULE MCStore ------------------------------
(* Small instances of Store for TLC: a thread is a pair of its handle and  *)
(* a number.                                                               *)
EXTENDS StoreRefinement, TLC

CONSTANT ThreadsPerHandle

ThreadSet == Handles \X (1 .. ThreadsPerHandle)
Owner == [t \in Threads |-> t[1]]

\* No definition tells one handle from another.
HandleSymmetry == Permutations(Handles)
=============================================================================
