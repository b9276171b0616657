------------------------------ MODULE MCServe ------------------------------
(* Instances of Serve for TLC.                                             *)
EXTENDS Serve

CONSTANTS r1, r2

Plain == [all |-> TRUE, given |-> {}, public |-> FALSE, relay |-> "auto", tracker |-> TRUE]
One == [Plain EXCEPT !.all = FALSE, !.given = {r1}]
Calls == {Plain, [One EXCEPT !.public = TRUE], [One EXCEPT !.relay = "given", !.tracker = FALSE],
          [One EXCEPT !.given = {}], [One EXCEPT !.relay = "never", !.tracker = FALSE]}
=============================================================================
