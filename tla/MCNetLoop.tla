----------------------------- MODULE MCNetLoop -----------------------------
(* Instances of NetLoop for TLC.                                            *)
EXTENDS NetLoop
CONSTANTS t1, t2, p1, r1
=============================================================================
