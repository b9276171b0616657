------------------------------ MODULE Download ------------------------------
(* Fetching content from the network (net/lib.rs: get_manifest,             *)
(* download_multi, download_fec and the symbol cache of the provider;       *)
(* fec/lib.rs) with the retry loops around it (node/main.rs: cmd_fetch).    *)
(*                                                                          *)
(* One node fetches one content.  A provider is of a kind that says what it *)
(* answers; any request may also fail, and a provider may stop providing.   *)
(* A chunk is a name; symbols are only counted, in the sizes of the code.   *)
EXTENDS Integers, Sequences, FiniteSets, SequencesExt

CONSTANTS
    Kind,           \* Kind[p]: what kind of provider p is
    Groups,         \* the providers asked together, in the order they are tried
    List,           \* the chunks of the content in order, duplicates included
    Half,           \* the chunks a "partial" provider holds
    Junk,           \* bytes that hash to no chunk of the content
    TotalSizes,     \* sizes the content may have, for the erasure-coded way
    MaxTransfer,    \* MAX_FEC_TRANSFER_SIZE: 32 GiB
    BlockSymbols,   \* source symbols raptorq puts into a block at most: 56403
    Parallel,       \* PARALLEL: chunk requests in flight
    Attempts,       \* attempts per group (60, or 5 in the daemon)
    Ways,           \* "chunks", "symbols"
    MaxFaults,      \* requests that fail
    MaxDiskFaults,  \* puts that fail
    MaxGone,        \* providers that stop providing
    MaxBatches,     \* batches of symbols after which the model stops
    None

Providers == DOMAIN Kind
Chunks == ToSet(List)
SymbolSize == 1200          \* DEFAULT_SYMBOL_SIZE
PacketSize == SymbolSize + 4
Repair == 64                \* FEC_REPAIR_SYMBOLS
FecBatch == 128             \* FEC_BATCH
DecodeAttempts == 16        \* MAX_DECODE_ATTEMPTS

\* The symbols content is cut into, and the blocks raptorq cuts these into.
SourceSymbols(bytes) == (bytes + SymbolSize - 1) \div SymbolSize
SourceBlocks(bytes) == (SourceSymbols(bytes) + BlockSymbols - 1) \div BlockSymbols

\* A byte names the block of a symbol: what raptorq makes of more than 256 of
\* them (17 GB) is not modelled.
ASSUME DownloadAssumption ==
    /\ \A p \in Providers : Kind[p] \in {"honest", "partial", "liar", "forger", "hollow"}
    /\ Groups \in Seq(Seq(Providers) \ {<<>>}) \ {<<>>}
    /\ List \in Seq(Chunks) /\ Half \subseteq Chunks /\ Junk \notin Chunks
    /\ None \notin Chunks \cup Providers
    /\ Parallel \in Nat \ {0} /\ Attempts \in Nat \ {0} /\ Ways \subseteq {"chunks", "symbols"}
    /\ TotalSizes \subseteq Nat /\ MaxTransfer \in Nat
    /\ BlockSymbols \in Nat /\ BlockSymbols >= 1000
    /\ \A n \in TotalSizes : n <= MaxTransfer => SourceBlocks(n) <= 256
    /\ {MaxFaults, MaxDiskFaults, MaxGone, MaxBatches} \subseteq Nat

VARIABLES
    store,      \* the chunks the fetching node holds
    gone,       \* the providers that have stopped providing
    faults,     \* how many requests have failed, and how many puts
    late,       \* the deadline over all attempts has passed
    way,        \* how the content is fetched
    size,       \* its size in bytes
    at,         \* the attempt: group, number, where it is, what it has
    served,     \* served[p]: verified bytes p has sent in this attempt
    paid        \* paid[p]: bytes of the receipts sent to p in this attempt

vars == <<store, gone, faults, late, way, size, at, served, paid>>

Nobody == [p \in Providers |-> 0]
Need == LET n == SourceSymbols(size) IN IF n = 0 THEN 1 ELSE n

\* Everything an attempt keeps, as it is when it starts. There will be a slot
\* for each place of the list whose chunk is missing.
Fresh(group, number) ==
    [group |-> group, number |-> number, pc |-> "manifest", asked |-> 1, err |-> FALSE,
     slots |-> <<>>, fetched |-> Nobody, done |-> 0, first |-> None, had |-> 0,
     start |-> 0, good |-> 0, bytes |-> 0, tries |-> 0, lastlen |-> 0, batches |-> 0,
     clean |-> TRUE]

Init ==
    /\ store \in SUBSET Chunks
    /\ gone = {}
    /\ faults = [net |-> 0, disk |-> 0]
    /\ late = FALSE
    /\ way \in Ways
    /\ size \in TotalSizes
    /\ at = Fresh(1, 1)
    /\ served = Nobody
    /\ paid = Nobody

Group == Groups[at.group]
Asked(k) == Group[k]

-----------------------------------------------------------------------------
(* What providers answer *)

ManifestAnswer(p) ==
    IF p \in gone THEN "none"
    ELSE IF Kind[p] = "liar" THEN "bad" ELSE "good"

ChunkAnswer(p, c) ==
    CASE Kind[p] = "honest" -> c
      [] Kind[p] = "partial" -> IF c \in Half THEN c ELSE None
      [] Kind[p] \in {"liar", "forger"} -> Junk
      [] Kind[p] = "hollow" -> None

\* get_encoded_packets: the blocks one after the other, of each the source
\* symbols and then as many repair symbols as it was told.
AllSymbols == IF size = 0 THEN 0 ELSE SourceSymbols(size) + Repair * SourceBlocks(size)

\* ensure_symbols and symbols_range: the symbols encoded from the content, if
\* it is still provided and complete. A forger sends symbols of other data, a
\* hollow provider symbols without bytes.
SymbolsFrom(p) ==
    CASE Kind[p] = "honest" /\ p \notin gone ->
           LET n == IF at.start >= AllSymbols THEN 0
                    ELSE IF at.start + FecBatch < AllSymbols THEN FecBatch
                    ELSE AllSymbols - at.start
           IN  [count |-> n, good |-> n, bytes |-> n * PacketSize]
      [] Kind[p] = "forger" -> [count |-> FecBatch, good |-> 0, bytes |-> FecBatch * PacketSize]
      [] Kind[p] = "hollow" -> [count |-> FecBatch, good |-> 0, bytes |-> 0]
      [] OTHER -> [count |-> 0, good |-> 0, bytes |-> 0]

\* A request fails.
Fault == faults.net < MaxFaults /\ faults' = [faults EXCEPT !.net = @ + 1]

-----------------------------------------------------------------------------
(* The manifest *)

\* The places of the list whose chunks are not in the store.
Missing == {i \in DOMAIN List : List[i] \notin store}

\* A chunk's slot: asked so far, what has come and from whom.
Slot(i) == [chunk |-> List[i], k |-> 0, from |-> None, state |-> "waiting"]

\* on_progress of cmd_fetch: the first call of an attempt sets the baseline.
Baseline(done) == IF at.first = None THEN done ELSE at.first
AlreadyThere == Len(List) - Cardinality(Missing)

\* download_multi: the manifest is there; download_fec goes on with symbols,
\* unless the content is too large for it.
Start ==
    IF way = "chunks"
    THEN at' = [at EXCEPT !.pc = "fetch", !.slots = [i \in Missing |-> Slot(i)],
                          !.done = AlreadyThere, !.first = Baseline(AlreadyThere),
                          !.had = AlreadyThere]
    ELSE IF size > MaxTransfer THEN at' = [at EXCEPT !.pc = "ended", !.err = TRUE]
    ELSE at' = [at EXCEPT !.pc = "symbols"]

\* Providers are asked for the manifest in their order until one sends a good
\* one (get_manifest); download_fec has a single provider.
AskManifest ==
    LET p == Asked(at.asked)
        more == way = "chunks" /\ at.asked < Len(Group)
        next == [at EXCEPT !.asked = @ + 1, !.pc = IF more THEN "manifest" ELSE "ended",
                           !.err = ~more]
    IN  /\ at.pc = "manifest"
        /\ \/ ManifestAnswer(p) = "good" /\ Start /\ UNCHANGED faults
           \/ ManifestAnswer(p) # "good" /\ at' = next /\ UNCHANGED faults
           \/ Fault /\ at' = [next EXCEPT !.clean = FALSE]
        /\ UNCHANGED <<store, gone, late, way, size, served, paid>>

-----------------------------------------------------------------------------
(* Chunks from several providers *)

InFlight == {s \in DOMAIN at.slots : at.slots[s].state \in {"asking", "arrived", "failed"}}
Taken == {s \in DOMAIN at.slots : at.slots[s].state = "taken"}

\* buffer_unordered(PARALLEL)
RoomForOne == Cardinality(InFlight) < Parallel

\* The slots are started in their order.
StartSlot ==
    /\ at.pc = "fetch" /\ RoomForOne
    /\ \E s \in DOMAIN at.slots :
         /\ at.slots[s].state = "waiting"
         /\ \A r \in DOMAIN at.slots : r < s => at.slots[r].state # "waiting"
         /\ at' = [at EXCEPT !.slots[s].state = "asking"]
    /\ UNCHANGED <<store, gone, faults, late, way, size, served, paid>>

\* How many slots come before this one.
Before(s) == Cardinality({r \in DOMAIN at.slots : r < s})

BugSameProvider(s, k) == Group[(Before(s) % Len(Group)) + 1]

\* The provider a slot asks at its k-th try (from 0): round robin, then the
\* others in turn.
ProviderOf(s, k) == Group[((Before(s) + k) % Len(Group)) + 1]

\* chunk_hash_ok: the bytes are those of the chunk.
ChunkHashOk(c, bytes) == bytes = c

\* One answer to a slot: kept if it is the chunk, else the next is asked.
Answer ==
    \E s \in DOMAIN at.slots :
      LET slot == at.slots[s]
          p == ProviderOf(s, slot.k)
          bytes == ChunkAnswer(p, slot.chunk)
          good == ChunkHashOk(slot.chunk, bytes)
          next == [slot EXCEPT !.k = @ + 1,
                               !.state = IF slot.k + 1 < Len(Group) THEN "asking" ELSE "failed"]
      IN  /\ at.pc = "fetch" /\ slot.state = "asking"
          /\ \/ /\ at' = [at EXCEPT !.slots[s] =
                            IF good THEN [slot EXCEPT !.state = "arrived", !.from = p] ELSE next]
                /\ served' = IF good THEN [served EXCEPT ![p] = @ + 1] ELSE served
                /\ UNCHANGED faults
             \/ /\ Fault
                /\ at' = [at EXCEPT !.slots[s] = next, !.clean = FALSE]
                /\ UNCHANGED served
          /\ UNCHANGED <<store, gone, late, way, size, paid>>

\* The loop takes what has arrived: it counts the bytes, then puts the chunk;
\* a put that fails ends the download at once.
TakeChunk ==
    \E s \in DOMAIN at.slots :
      LET slot == at.slots[s]
          counted == [at EXCEPT !.slots[s].state = "taken", !.fetched[slot.from] = @ + 1]
          bytes == ChunkAnswer(slot.from, slot.chunk)
      IN  /\ at.pc = "fetch" /\ slot.state = "arrived"
          /\ \/ /\ store' = store \cup {bytes}
                /\ at' = [counted EXCEPT !.done = @ + 1]
                /\ UNCHANGED faults
             \/ /\ faults.disk < MaxDiskFaults
                /\ faults' = [faults EXCEPT !.disk = @ + 1]
                /\ at' = [counted EXCEPT !.pc = "ended", !.err = TRUE, !.clean = FALSE]
                /\ UNCHANGED store
          /\ UNCHANGED <<gone, late, way, size, served, paid>>

BugForgetsFailure(s) == [at EXCEPT !.slots[s].state = "taken"]
BugStopsAtFailure(s) == [at EXCEPT !.slots[s].state = "taken", !.err = TRUE, !.pc = "ended"]

\* A slot that failed is remembered, and the rest goes on.
AfterFailure(s) == [at EXCEPT !.slots[s].state = "taken", !.err = TRUE]

TakeFailure ==
    /\ at.pc = "fetch"
    /\ \E s \in DOMAIN at.slots : at.slots[s].state = "failed" /\ at' = AfterFailure(s)
    /\ UNCHANGED <<store, gone, faults, late, way, size, served, paid>>

\* Nothing is left: each provider gets a receipt for what it sent. A receipt
\* that cannot be delivered is not sent again.
Drained ==
    /\ at.pc = "fetch" /\ Taken = DOMAIN at.slots
    /\ paid' = at.fetched
    /\ at' = [at EXCEPT !.pc = "ended"]
    /\ UNCHANGED <<store, gone, faults, late, way, size, served>>

-----------------------------------------------------------------------------
(* Erasure-coded symbols from one provider *)

BugNoHeadroom(bytes) == bytes > size

\* More than twice the content has come.
TooMuch(bytes) == bytes > 2 * size

BugNoCap(tries) == FALSE

\* MAX_DECODE_ATTEMPTS
TriesUsed(tries) == tries >= DecodeAttempts

\* np2ptp_fec::decode rebuilds the content once every block has as many symbols
\* as it has source symbols. They come in their order, so it is the last block
\* that decides, and the repair symbols of the others have come before it.
\* Symbols of other data rebuild something else.
Decodes(good) == size = 0 \/ good >= Need + Repair * (SourceBlocks(size) - 1)
DecodesToJunk(p, count) == Kind[p] = "forger" /\ count >= Need

\* One round of download_fec's loop.
FetchBatch ==
    LET p == Asked(1)
        batch == SymbolsFrom(p)
        exhausted == batch.count = 0
        start == at.start + batch.count
        bytes == at.bytes + batch.bytes
        good == at.good + batch.good
        enough == start - at.lastlen >= (IF Need \div 4 = 0 THEN 1 ELSE Need \div 4)
        decode == (start >= Need \/ exhausted) /\ (enough \/ exhausted)
        tries == IF decode THEN at.tries + 1 ELSE at.tries
        now == [at EXCEPT !.start = start, !.bytes = bytes, !.good = good, !.tries = tries,
                          !.batches = @ + 1, !.lastlen = IF decode THEN start ELSE @]
        fail == [now EXCEPT !.pc = "ended", !.err = TRUE]
    IN  /\ at.pc = "symbols" /\ at.batches < MaxBatches
        /\ \/ /\ at' = IF TooMuch(bytes) THEN fail
                       ELSE IF decode /\ Decodes(good) THEN [now EXCEPT !.pc = "ingest"]
                       ELSE IF decode /\ DecodesToJunk(p, start) THEN fail
                       ELSE IF exhausted THEN fail
                       ELSE IF start >= Need /\ TriesUsed(tries) THEN fail
                       ELSE now
              /\ UNCHANGED faults
           \/ Fault /\ at' = [at EXCEPT !.pc = "ended", !.err = TRUE, !.clean = FALSE]
        /\ UNCHANGED <<store, gone, late, way, size, served, paid>>

\* The decoded stream reproduces the root, so it is ingested, chunk by chunk,
\* and the provider gets its receipt.
IngestDecoded ==
    /\ at.pc = "ingest"
    /\ \/ /\ store' = store \cup Chunks
          /\ paid' = [paid EXCEPT ![Asked(1)] = at.bytes]
          /\ at' = [at EXCEPT !.pc = "ended"]
          /\ UNCHANGED faults
       \/ /\ faults.disk < MaxDiskFaults
          /\ faults' = [faults EXCEPT !.disk = @ + 1]
          /\ \E n \in 0 .. Len(List) - 1 : store' = store \cup ToSet(SubSeq(List, 1, n))
          /\ at' = [at EXCEPT !.pc = "ended", !.err = TRUE, !.clean = FALSE]
          /\ UNCHANGED paid
    /\ UNCHANGED <<gone, late, way, size, served>>

-----------------------------------------------------------------------------
(* The loop around the attempts *)

\* The attempt has failed: again, the next candidate, or the end of it.
Retry ==
    /\ at.pc = "ended" /\ at.err
    /\ IF late THEN at' = [at EXCEPT !.pc = "failed"]
       ELSE IF at.number < Attempts THEN at' = Fresh(at.group, at.number + 1)
       ELSE IF at.group < Len(Groups) THEN at' = Fresh(at.group + 1, 1)
       ELSE at' = [at EXCEPT !.pc = "failed"]
    /\ served' = IF at'.pc = "manifest" THEN Nobody ELSE served
    /\ paid' = IF at'.pc = "manifest" THEN Nobody ELSE paid
    /\ UNCHANGED <<store, gone, faults, late, way, size>>

\* The content is there and is written out.
Finish ==
    /\ at.pc = "ended" /\ ~at.err
    /\ at' = [at EXCEPT !.pc = "fetched"]
    /\ UNCHANGED <<store, gone, faults, late, way, size, served, paid>>

DeadlinePasses ==
    /\ ~late /\ at.pc \notin {"fetched", "failed"}
    /\ late' = TRUE
    /\ UNCHANGED <<store, gone, faults, way, size, at, served, paid>>

\* Unprovide drops the manifest and the cached symbols; chunks are served on.
StopProviding ==
    /\ Cardinality(gone) < MaxGone /\ at.pc \notin {"fetched", "failed"}
    /\ \E p \in Providers \ gone : gone' = gone \cup {p}
    /\ at' = [at EXCEPT !.clean = FALSE]
    /\ UNCHANGED <<store, faults, late, way, size, served, paid>>

Work ==
    \/ AskManifest \/ StartSlot \/ Answer \/ TakeChunk \/ TakeFailure \/ Drained
    \/ FetchBatch \/ IngestDecoded \/ Retry \/ Finish

Next == Work \/ DeadlinePasses \/ StopProviding

\* The fetching task is polled until it is done, and each request is answered
\* or fails (libp2p's request timeout).
Spec == Init /\ [][Next]_vars /\ WF_vars(Work)

-----------------------------------------------------------------------------
(* Properties *)

TypeOK ==
    /\ store \subseteq Chunks \cup {Junk}
    /\ at.pc \in {"manifest", "fetch", "symbols", "ingest", "ended", "fetched", "failed"}
    /\ at.done \in 0 .. Len(List)
    /\ at.group \in DOMAIN Groups /\ at.number \in 1 .. Attempts
    /\ Cardinality(InFlight) <= Parallel

\* Whoever answered what, a fetch that succeeds has every chunk of the content
\* in the store and nothing else, and its report is of the attempt that
\* succeeded: each place of the list is counted once, and what did not have to
\* be fetched is what was in the store when that attempt began. (The types of
\* the variables are part of it.)
CompleteWhenFetched ==
    TypeOK /\ (at.pc = "fetched" =>
        /\ store = Chunks
        /\ way = "chunks" => at.done = Len(List) /\ at.first = at.had)

\* An attempt that ran to its end, failed chunks or not, pays each provider
\* exactly for the verified bytes it sent. (One that a disk error cut short
\* pays nobody.)
PaidWhatWasServed ==
    way = "chunks" /\ at.pc \in {"ended", "fetched"} /\ DOMAIN at.slots # {}
        /\ Taken = DOMAIN at.slots /\ faults.disk = 0 => paid = served

\* A chunk is only given up when no provider of the group has it: an attempt
\* during which no request failed ends in an error only if some chunk, or the
\* manifest, is with none of its providers.
GivenUpOnlyIfAbsent ==
    way = "chunks" /\ at.pc = "ended" /\ at.err /\ at.clean =>
        \/ \A k \in DOMAIN Group : ManifestAnswer(Group[k]) # "good"
        \/ \E c \in Chunks \ store : \A k \in DOMAIN Group : ChunkAnswer(Group[k], c) # c

\* An honest provider's symbols are enough, in one block or in several: an
\* attempt without a failing request does not fail ("legit downloads need
\* about 1x total_size in symbols, so 2x is generous headroom"), unless it is
\* refused for its size. It holds when TotalSizes leaves out what is not empty
\* and shorter than half of the first batch, below about 77 KB.
HonestSymbolsSuffice ==
    way = "symbols" /\ size <= MaxTransfer /\ Kind[Group[1]] = "honest" /\ Group[1] \notin gone
        /\ at.pc = "ended" /\ at.clean => ~at.err

\* Whatever the providers do, also if they send symbols without bytes for
\* ever, the fetch comes to an end.
FetchEnds == <>(at.pc \in {"fetched", "failed"})
=============================================================================
