-------------------------- MODULE StoreRefinement --------------------------
(* A directory that is opened by one handle at a time is a ContentStore.     *)
EXTENDS Store

\* The chunks that a whole line of a sidecar records; the text that a trim has
\* cut off and is writing back counts.
Recorded(f) ==
    Listed(file[f]) \cup
    UNION {Listed(kept[hd]) : hd \in {x \in Handles : phase[x] = "fill" /\ on[x] = f}}

OpenHandles == {hd \in Handles : phase[hd] = "open"}

\* What has landed, what has() finds, and the chunk that each call stores.
Stored == Legacy \cup Recorded("index") \cup Recorded("refs")
Visible ==
    IF OpenHandles = {} THEN None
    ELSE {h \in Hashes : \E hd \in OpenHandles : HasAnswer(hd, h)}
Doing == [t \in Threads |-> IF pc[t] = "idle" THEN None ELSE job[t].h]

\* "Nothing" is neither a chunk nor a set of chunks.
ASSUME NoChunkAssumption == None \notin Hashes /\ \A S \in SUBSET Hashes : S # None

Promise == INSTANCE ContentStore WITH
    Callers <- Threads,
    Chunks <- Hashes,
    Initial <- Legacy,
    stored <- Stored,
    visible <- Visible,
    doing <- Doing,
    answered <- acked

\* With one handle, every step of open, has, get, put and add_reference, and
\* every crash, is a step of the abstract store or no step at all, as long as
\* no write has failed: no chunk that has landed is ever lost, has() never
\* answers for one that has not, every open finds exactly what has landed, and
\* put answers (h, true) for nothing else.
IsContentStore ==
    /\ Promise!Init
    /\ [][Promise!Next \/ used'["errors"] # 0]_(Promise!vars)
=============================================================================
