---------------------------- MODULE MCReputation ----------------------------
(* Small instances of Reputation for TLC.                                  *)
EXTENDS Reputation, TLC

CONSTANTS A, B, C

Calm(downloads, sizes) ==
    [b \in Bounded |-> 0] @@ [downloads |-> downloads, sizes |-> sizes]

\* A downloads from B over a bad network; B is paid by A, meets C and downloads
\* from it, or reconnects and restarts; two nodes download from each other
\* until the counters are full; B earns one receipt more than its bag holds,
\* while a save fails.
Source == [Calm({<<A, B>>}, {2}) EXCEPT
             !.fetches = 2, !.drops = 1, !.losses = 1, !.restarts = 1, !.errors = 1, !.seconds = 1]
Chain == Calm({<<A, B>>, <<B, C>>}, {2})
Travel == [Chain EXCEPT !.fetches = 2]
Return == [Chain EXCEPT !.fetches = 1, !.drops = 1, !.restarts = 1]
Exchange == [Calm({<<A, B>>, <<B, A>>}, {2}) EXCEPT !.fetches = 2, !.symbols = 1]
Earner == [Calm({<<A, B>>}, {1, 2}) EXCEPT !.symbols = 3, !.errors = 1]
AllScenarios == {Source, Travel, Return, Exchange, Earner}
=============================================================================
