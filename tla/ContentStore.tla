---------------------------- MODULE ContentStore ----------------------------
(* What a content-addressed store promises its callers: a set of chunks that *)
(* only grows, whatever becomes of the process that writes to it.  A chunk   *)
(* lands at one moment between the beginning and the end of the call that    *)
(* stores it; no caller is told that it is stored before it is visible, and  *)
(* whoever opens the store sees everything that has landed.                  *)
EXTENDS FiniteSets

CONSTANTS Callers, Chunks, Initial, None

VARIABLES
    stored,     \* the chunks that have landed
    visible,    \* the chunks that has() finds; None while the store is closed
    doing,      \* doing[c]: the chunk that c is storing, or None
    answered    \* the chunks that a caller was told are newly stored

vars == <<stored, visible, doing, answered>>

Init ==
    /\ stored = Initial
    /\ visible = None
    /\ doing = [c \in Callers |-> None]
    /\ answered = {}

Open ==
    /\ visible = None
    /\ visible' = stored
    /\ UNCHANGED <<stored, doing, answered>>

\* The store is closed, or dies with the calls that are under way.
Close ==
    /\ visible' = None
    /\ doing' = [c \in Callers |-> None]
    /\ UNCHANGED <<stored, answered>>

Begin(c, h) ==
    /\ visible # None /\ doing[c] = None
    /\ doing' = [doing EXCEPT ![c] = h]
    /\ UNCHANGED <<stored, visible, answered>>

\* What was visible stays so, and more of what has landed may become visible.
Sees == visible # None /\ visible \subseteq visible' /\ visible' \subseteq stored'

\* The chunk lands, and is visible then or later.
Land(c) ==
    /\ doing[c] # None
    /\ stored' = stored \cup {doing[c]}
    /\ Sees
    /\ UNCHANGED <<doing, answered>>

Look == Sees /\ UNCHANGED <<stored, doing, answered>>

\* The call ends: its chunk is visible from here on. Only a caller that was
\* the one to store it is told so.
End(c) ==
    /\ Sees /\ doing[c] \in visible'
    /\ doing' = [doing EXCEPT ![c] = None]
    /\ answered' \in {answered, answered \cup {doing[c]}}
    /\ UNCHANGED stored

Next ==
    \/ Open \/ Close \/ Look
    \/ \E c \in Callers : Land(c) \/ End(c) \/ \E h \in Chunks : Begin(c, h)

Spec == Init /\ [][Next]_vars
=============================================================================
