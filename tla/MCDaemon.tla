------------------------------ MODULE MCDaemon ------------------------------
(* Instances of Daemon for TLC.                                            *)
EXTENDS Daemon, TLC

CONSTANTS i1, i2, i3, r1, r2

SeedCmds == {"provide", "provide root", "unprovide", "bridge"}
StopCmds == {"provide", "fetch", "shutdown"}

\* Two requests of any kind at a time, or three about content one by one.
AllClients ==
    {[awaits |-> FALSE, lines |-> 2, cmds |-> AllCmds],
     [awaits |-> TRUE, lines |-> 3, cmds |-> SeedCmds]}
HastyClients == {[awaits |-> FALSE, lines |-> 2, cmds |-> SeedCmds]}
StoppingClients == {[awaits |-> FALSE, lines |-> 2, cmds |-> StopCmds]}
Interchangeable == Permutations(Ids) \cup Permutations(Roots)
=============================================================================
