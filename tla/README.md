# np2ptp: TLA+ models, checks and proofs

NP2PTP is a peer-to-peer transfer protocol in Rust: content is cut into chunks
named by their BLAKE3 hash, kept in a local store, announced in a DHT and on a
tracker, downloaded from several providers at once, and accounted for with
signed receipts. A bridge turns torrents into such content. This directory holds
TLA+ modules translated from the code, TLC configurations that check them on
small instances, and proofs that TLAPS checks for every instance.

## The system

| Component | Code | State | Operations | Module |
|---|---|---|---|---|
| Chunk store | `np2ptp-store/src/lib.rs` | pack files, the sidecars `packs/index` and `refs.tsv`; per handle two maps, two cursors, the current pack | `open`, `has`, `get`, `put`, `add_reference`, `object_count` | `Store`, abstractly `ContentStore` |
| Ingest, export | same file | none of their own | ingest with and without copying, export of a stream, a tree, a directory | `Content`, `Bridge` |
| Core | `np2ptp-core` | none | Merkle root and proofs, chunk lists, manifests and their checks, path checks | `Content` |
| Bridge | `np2ptp-bridge` | none | resolve, convert, publish, the two piece checks | `Bridge` |
| Ledger, receipts | `np2ptp-rep` | per-peer counters, `ledger.bin` | record, credit, reputation, save | `Reputation` |
| Receipt bag | `np2ptp-net/src/receipts.rs` | at most 50 receipts, `receipts.bin` | insert, list, save | `Reputation` |
| Event loop, accounting | `np2ptp-net/src/lib.rs` | `rep_peers`, `receipts_pulled_from`, `ledger_dirty`, the next epoch | identify, serve, responses, connection closed, save tick | `Reputation` |
| Event loop, commands and queries | same file | the command channel, the maps of waiting callers, what is provided, cached symbols | every command, the events of queries and requests | `NetLoop` |
| Downloads, FEC | same file, `np2ptp-fec` | requests in flight, symbols received | manifest, chunks from several providers, symbols, retries of a fetch | `Download` |
| Daemon | `np2ptp-node/src/daemon` | tasks, the channel to stdout, announce loops, the manifest registry | fetch, convert, torrent, provide, unprovide, status, dial, shutdown | `Daemon` |
| `serve`, serve set, identity key | `np2ptp-node/src/main.rs`, `serve_set.rs` | registry, `identity.key`, addresses, announcement ticks | collect, register, load or create the key, listen, map a port, reserve a relay, announce | `Serve` |
| Tracker client and service, port mapping | `tracker.rs`, `portmap.rs`, `tracker/` | the tracker's table with ages | announce, peers | `Serve` |
| `pack`, `get`, `torrent`, `fetch` | `main.rs` | none | as named | `Bridge`, `Download` |
| Identity, simulation, Python client | | | | no |

How they interact. The network's event loop and the operations of a node open
the *same* store directory through two `Store` handles, and several processes
may do the same; they share nothing but files, one file lock and the inode's
append lock. Callers talk to the event loop through a bounded channel and wait
for answers on oneshots. Downloads put chunks into the store and tell the event
loop what each provider delivered; the event loop keeps the ledger, signs
receipts and answers peers. The bridge verifies a torrent's data, ingests it,
provides the manifest and publishes the mapping from infohash to root in the DHT,
which other nodes follow. The daemon runs every request as a task over these
parts; `serve` provides what the registry lists and announces it to the tracker.

What is hard, and where:

* two handles over one directory, whose maps and cursors go stale
  (`store/lib.rs:163`, `:298`, `:769`), whose appends interleave (`:842`) and
  one of which may be trimming what the other appends to (`:751`);
* crashes and failed writes in the middle of an append, of a pack write, of a
  rewrite of a sidecar, of a registration, of the creation of the key;
* messages that are lost, answered late or repeated; connections that close
  for one side only; restarts from a ledger that is flushed by a tick;
* providers that lack chunks, send others, forge manifests, send symbols without
  end or leave; retries over several candidates under one deadline;
* events of several DHT queries mixed with commands from several callers;
* manifests whose sizes, lengths, ranges and names lie outside the root, and
  mappings in the DHT that anybody may write;
* integers at their limits, the receipt bag at its capacity, the channel full;
* concurrent requests of the daemon over three places that hold what is being
  seeded, panics in tasks, and a shutdown with a deadline.

`PROJECT.json` lists these as hazards, each at its line with the properties
that watch it. Some dangers that no property covers: two processes over one
`ledger.bin`, where the later save wins (`ledger.rs:185`); epochs of receipts that
fall back after a restart (`net/lib.rs:862`); a save that fails right after a
crediting and is not tried again (`:1139`); a provide that cannot register its
root, answers with an error and leaves the root provided (`daemon/mod.rs:798`);
files that change between the verification of a torrent and its ingest
(`streaming.rs:107`).

What makes each part correct:

* store: an index entry names the bytes of its chunk; a chunk that was
  acknowledged is found after a crash; `has` and `get` agree; a handle packs a
  chunk once; packs stay bounded; calls return;
* content: a root names one list of chunks; the ways to rebuild it agree or refuse;
  nothing is written outside the output directory;
* bridge: what is bridged is the torrent; the streaming check decides as the
  whole one; converters of one torrent get one root;
* downloads: complete or failed, never wrong content; providers paid for what
  they sent; a chunk somebody has is not given up; every fetch ends;
* accounting: receipts cover bytes that were served; credit is backed by
  receipts, each counted once; a taker is cut off and a giver never is; what is
  recorded is marked until it is on disk;
* event loop: each caller gets its own query's answer; nothing is left behind;
  what is unprovided leaves nothing in the node's own maps but the chunks;
* daemon: every request is answered once; what is listed as provided is
  provided; a shutdown is answered and ends the process without losing events;
* serve: the registry holds whole manifests, the identity stays, everything
  registered is served, and a node that is up stays in the tracker's lists.

## Modules

### Store

One directory, any number of handles (`Handles`) used by any number of threads. A
pack is a sequence of cells, a cell being the chunk that one `write_all` left or
`Torn`; a sidecar is a sequence of line and newline cells, so that half a line, two
lines run together and a cut line are all states of the model. What a reader makes
of a sidecar is computed by `CompleteLines`, `LocAt`, `RefreshedMem` and
`LoadedMem`, after `parse_pack_index_line`, `parse_ref_line`, `refresh_pack_index`
and `load_pack_index`. A failed append may leave a line cut in its last field, into
which the next append runs: for the pack index that is no line any more, for
`refs.tsv` it is one with a wrong path, as `splitn` reads it. `put` takes the steps
of the code: the look-up, the mutex, the second look-up, the guard with the seek,
the write, the two halves of the append, the insert and the advance of the cursor;
`open` trims each sidecar (read, truncate, write back), loads them and picks a pack.
Crashes end all threads of a handle at any step; a failed write leaves part of what
it wrote.

`ContentStore` says what this amounts to for a caller: a set of chunks that only
grows, a visible part of it, and calls whose chunk lands at one moment.
`StoreRefinement` maps `Store` onto it. What has landed are the chunks of whole
lines of either sidecar, with the text that a trim is writing back; what is
visible is what `has` answers; a call under way is a thread that is not idle.
Its parts are named `Stored`, `Visible` and `Doing`. The mapping holds for a
directory with one handle and at most one crash, until a write fails.

### Content and Bridge

`Content` has the pure part. Hashes are symbolic: a digest is the tagged tuple of
what was hashed, so that digests are equal exactly when their inputs are. Bytes are
0 and 1, and the chunker, which is external, cuts after every 1: content decides
where it is cut, as with FastCDC, and an insertion moves few boundaries. Loops over
a sequence are recursive functions over its places (`Total`, `Those`, `Levels`,
`Climb`, `Landing`), which can be proved about; the index of `MerkleProof` is halved
from level to level as in the code. A path is a sequence of parts, any strings but
"/", of a few kinds (plain, empty, parent, with a backslash, a colon or a trailing
dot, a device), which is what the path checks tell apart; a path that leads out of
the output directory lands at `Outside`, the one part that no path has. Manifests
keep their list of files with sizes and chunk ranges, the checks of `from_bytes`,
and the ways to rebuild: the stream, the files, the cut of the stream, the writing
to a directory.

`Bridge` has nodes that pack a tree, get a root, or bridge a torrent from local
files, from a source or from a magnet link, each step ending where the code
awaits. A foreign peer offers a manifest of its own, with altered or overlapping
ranges, sizes and lengths one off (they are unsigned) or disguised names, and may
have written the mapping in the DHT. Local data
may be whole, cut differently, damaged or missing. The streaming verifier gets
its reads in sizes up to `MaxWindow`. An ingest is one step; what its puts do in
the store is the subject of `Store`.

### Download

One fetch: candidates in groups, each group tried `Attempts` times under one
deadline, each attempt by chunks or by symbols. There is a slot for each place of
the list whose chunk is missing. A provider is honest, partial
(half of the chunks), a liar (other bytes), a forger (another manifest) or hollow
(symbols without bytes), and may leave. `download_multi` keeps at most `Parallel`
slots, asks round-robin and falls through to the other providers, takes results
in any order, puts each chunk (a put may fail) and pays at the end. The
erasure-coded way keeps the real sizes: symbol counts, the batch size, the bound
on bytes and the cap on decode attempts are computed from the constants of the
code, over a handful of content sizes. Symbols come block after block, of each the
source symbols and then 64 repair symbols; a block decodes when it has as many
symbols as it has source symbols, and the content when every block does, so that
with several blocks the count that triggers a decode may be reached before the last
block has its share. Content above `MaxTransfer` is refused. `BlockSymbols`,
raptorq's limit of 56403, is a constant.

### NetLoop

Callers send commands into a bounded channel and wait; the loop takes one at a
time, answers at once or starts a query whose id it keeps with the reply. The
events of queries and requests are those libp2p may report, in any order: found
steps, a last step, an error. `provided`, the cached symbols and the provider
records are what provide, unprovide and the first symbol request change. The records
are in two places: `announced` is the node's own record store, which `stop_providing`
clears; `elsewhere` are those sent to other peers, which only run out. Chunks are
answered from the store whatever is provided and are not part of the module. When the last
handle has been dropped and the channel is empty, the loop ends and the queries
that still run are dropped with the swarm.

### Serve

`serve` from its start to its loop: collecting the manifests (given ones or all
of the registry, entry by entry, with a daemon removing entries meanwhile),
registering them through a temporary file, flush and rename, loading or creating
the key, listening, mapping a port, deciding on a relay, then rounds of
announcements. Time passes in announcement periods; a round may last several. A
file is whole, soft (named but not flushed) or torn after a power failure. The
tracker is a table of announcements with ages that run out at `Ttl`, and may
restart empty. `missed` is history: the rounds missed in a row.

### Reputation

Nodes with ledger, bag, session state and files; requests and responses are
records in `wire`. `serve`, `on_rr`, `handle_receipts_response`, identify and
connection events, the save tick and `Network::spawn` are actions. A signature
is modelled by what `verify` establishes, so all receipts are genuine; a
`Disconnect` is seen by both ends, a `Reconnect` by one only. `U64Max` and
`I64Max` are constants, which lets TLC reach saturation. `issued` and `served`
are history: what was really signed and handed out; `offered`, all receipts that went
into the bag and into the one last saved.
A `scenario` chooses who talks to whom and how often each fault may happen; one
run goes through all of them.

### Daemon

Tasks go through stages that end where the code awaits or touches shared state;
`outq` and `printed` are the channel and stdout; `provided`, `registry` and
`announces` are what provide and unprovide change, one after the other.
`Network::provide` and `unprovide` take effect when their command is sent,
since the event loop handles commands in order. Returning from `run_daemon`
drops the tokio runtime: asynchronous tasks end, the blocking pool (exports,
ingests and the writer) is waited for. Progress events other than done = total
depend on the clock only and are left out, and so is the guard against a second
completion from a *retry*: a download that fails has not reached its total.

`MCStore`, `MCReputation`, `MCDaemon`, `MCBridge`, `MCDownload`, `MCNetLoop` and
`MCServe` instantiate these for TLC. Definitions that begin with `Bug` are
deliberate mistakes, one per property, that `PROJECT.json` pairs with the property
that notices them. The type invariant of a module is a run's invariant of its own
in `Store`, where it is proved, and a conjunct of a structural invariant elsewhere
(`NoOrphanAnnouncer`, `BagSound`, `StreamingAgrees`, `CompleteWhenFetched`, `NoLeak`,
`RegistryWhole`).

## Runs

`tlc -config X.cfg MC...`; every run finishes within a few minutes.

| Run | Shows |
|---|---|
| `store_siblings` | two handles without faults: packs are bounded by the rotation size and one chunk per sibling, types hold |
| `store_faults` | two handles with a crash, a failed write and an edited source: offsets stay sound, and puts, references and opens return |
| `store_single` | one handle, two threads, a crash, a failed write: packed once, `has` finds what is listed, `get` what `has` finds (but for a reference that was cut inside its path and run into), and until the write fails the store implements `ContentStore`, so acknowledged chunks survive |
| `rep` | a downloader and a provider over a bad network, a chain of three nodes, two nodes that fill counters of two bits, one that earns more receipts than its bag holds: credit is backed, receipts are honest, the bag keeps the best of what it was offered, debtors are cut off and givers never are, unsaved accounts stay marked |
| `daemon_requests` | two requests of any kind at once, or three awaited in turn, with a panic, a disk error and a tracker failure: answered once, no orphaned announce loop, nothing unprinted, and for the client that waits what is listed is served |
| `daemon_live` | provide, fetch and shutdown with a panic: requests and shutdowns are answered, the process exits |
| `bridge` | two nodes pack, get or bridge beside a peer with altered manifests: verified content is the torrent's, the piece checks agree, the ways to rebuild agree or refuse, a root names one content, nothing is written outside, one root for all converters |
| `download` | a fetch from all kinds of providers, by chunks or by symbols in one block or two: complete and correctly reported when it succeeds, providers paid, nothing given up that somebody has, honest symbols suffice, and it ends |
| `netloop` | two callers over a full channel: own answers, no leak, what is unprovided is in none of the node's own maps, calls return |
| `serve` | two starts in any way with one failure: whole registry, everything served, one identity, listed while up and listed again after every failure |

Two runs end in a violation: the code does something other than its comments
or docs say. `PROJECT.json` quotes them under `findings`.

| Run | What happens |
|---|---|
| `store_trim_race` | the open-time trim holds the guard, which an index append does not take: it cuts a line whose put is acknowledged |
| `daemon_race` | provide and unprovide at once: a root stays listed and announced that is neither served nor registered |

Other disagreements met while modelling, which the models exhibit when the
property named is checked under other bounds or which follow from a line at a
glance; no run is spent on them.

Store:

* with two handles, `HasFindsListed` fails in three ways: `put` advances its cursor
  by its line's length although a sibling's line may lie in between
  (`store/lib.rs:298`, comment at `:295`), and that line is never read;
  `load_pack_index` counts the half of a line that has landed as parsed (`:769`,
  doc at `:74`); `has` never refreshes `refs.tsv` (`:153`, doc at `:139`);
* with two handles, `HasImpliesGet` fails: a last line cut inside its length still
  parses (`:697`, doc at `:687`);
* a line of `refs.tsv` that a failed append cut inside its path and the next append
  ran into parses, with a wrong path, since `splitn(4)` takes the rest of the line:
  `has` is true and `get` finds nothing (`store/lib.rs:672`, doc of `has` at `:138`).
  `HasMeansStored` fails with one handle, one failed write and two calls;
* one handle is enough for `AckedDurable` to fail with two crashes, as `IsContentStore`
  does, since `fs::write` truncates before it writes (`:751`, comment at `:735`), and
  with a failed write in a process that goes on, since an append after a torn tail
  runs into it (`:786`, comment at `:734`).

Accounting:

* without its term for symbols, `DebtBounded` fails: `serve` applies the choke
  policy to chunks, not to symbols (`net/lib.rs:1173`, docs at `:802` and `:1145`);
* a receipt a node issued itself is credited like another's (`net/lib.rs:1133`;
  `ledger.rs:38` says "third-party receipts");
* a save that fails right after a crediting is not retried, since the crediting
  does not mark the ledger dirty (`net/lib.rs:1139`);
* the epoch of receipts is seeded from the clock and grows by one per receipt, so
  it falls back after a restart when receipts were issued faster than one a
  second (`net/lib.rs:862`, comment at `:857`);
* `submit_receipt` is sent and not awaited, so a process that exits right after a
  download may drop its receipts.

Downloads and bridge:

* content that is not empty and shorter than about 77 KB can never be downloaded
  by symbols: the first batch exceeds twice its size (`net/lib.rs:588-592`, "2x is
  generous headroom"); `HonestSymbolsSuffice` fails with 50000 in `TotalSizes`;
* `unprovide` takes back the node's own provider record only (`net/lib.rs:935`); those
  sent to other peers lead to it until they expire, where its doc (`:374`) has
  `find_providers` no longer find it. `UnprovidedIsNotFound` fails in `netloop`;
* `split_stream` cuts by the declared sizes and does not notice wrong ones, which
  `reconstruct_files` does and `export_tree_to_dir` does not use: for a manifest
  whose sizes move a byte across a file boundary one refuses and the others give
  different files. `ThreeWaysAgree` says so;
* the root does not depend on the torrent alone (`bridge/lib.rs:127-129`): the piece
  check sees the concatenation of the files, so that files of other lengths pass it
  and give another root; hence the premise of `SameRootAsDeclared`;
* a file whose name has a colon can be packed and not be exported (`path.rs:20-21`);
* `publish` ignores that `put_mapping` may answer false (`bridge/lib.rs:146`).

Daemon and serve:

* an announce loop keeps a sender of the writer's channel and never ends, so with
  a root provided every shutdown lasts the whole grace (`daemon/mod.rs:806`,
  comment at `:398`);
* a shutdown during an export waits for it, since dropping the runtime joins the
  blocking pool (`daemon/mod.rs:634`, doc of `SHUTDOWN_GRACE`);
* a fetch reports done = total once for the download and once for the export
  (`daemon/mod.rs:635`, comment at `:605`);
* `serve` hears Ctrl-C only between rounds (`main.rs:673`, prompt at `:664`), and its
  announcements have no HTTP timeout;
* a port mapping without a public address counts as one (`main.rs:597`, comment at
  `:593`), and a relay reservation that is lost is not renewed;
* two processes that start on a fresh store may create different identities, and
  `identity.key` is not flushed: a power failure may take it (`main.rs:369-388`);
  `SameIdentity` allows for that;
* a burst of mDNS discoveries dials only the first address.

### Bounds

Every bound is a constant whose name begins with `Max`, or a field of the scenario,
and a conjunct of the action it limits.

* Store: two chunks, up to two handles and two threads, two to four calls, a
  rotation size of one or two chunks: enough for an append between another
  handle's seek and write, for a rotation, for a reopening after every kind of torn
  file, and for a put after each.
* Reputation: two or three nodes (the third is needed for a receipt from somebody
  else), a few requests and one each of drop, loss, restart and failed save, as the
  scenario says; `Threshold` is 0 so that a single answer puts a peer in debt,
  `MaxReceipts` is 2 and one scenario has three receipts of two sizes, so that the
  bag overflows and has a choice of what to drop, and `U64Max` = 3 and `I64Max` = 1 so
  that counters saturate and the clamp is used.
* Daemon: two requests at once, or three in a row, and two attempts for the code's
  five, one of which is a retry.
* Bridge: torrents of at most two files and three bytes with pieces of two, so that
  a piece spans files, ends with one or is short; reads of at most three bytes, one
  damaged place, at most two chunks left over by a failed download. A foreign
  manifest that is not the torrent's meets whole or missing files only: the two
  kinds of damage do not interact, since data is either resolved or converted.
* Download: five providers, a list of three chunks one of which repeats, two slots,
  two attempts, contents of 0, 100000 and 300000 bytes, of 1210000 (two blocks of at
  most 1000 symbols) and of 2000000 (above the 1500000 that stand for 32 GiB), one
  lost request, one failed
  put, one provider that leaves, at most 40 batches (the code's cap ends an attempt
  before that).
* NetLoop: two callers, a channel of one command for the code's 64, two queries and
  one found event before the last of a query, so that callers wait for room, queries
  overlap and a peer is found again.
* Serve: two roots, two starts, one event of the environment, a time to live of
  three periods and rounds that last up to two.

Ids and roots of the daemon and the handles of a store are interchangeable:
`daemon_requests`, `daemon_race` and `store_siblings`, which check no liveness, use
this symmetry. Deadlock checking is off: all these systems come to rest when
the bounds are used up, the fetch has ended or the process has exited.

### Fairness

* `Store`: weak fairness of the steps of a call that has begun and of an open.
  The guard is a file lock that the operating system releases when a process
  dies, and the mutex is held only across steps of its holder. Nothing obliges
  anyone to call.
* `Reputation`, `Bridge`: none; only safety is checked.
* `Daemon`: weak fairness of every task, of the writer and of the main loop,
  which the tokio scheduler gives; operations have deadlines (tracker calls,
  retries, requests) and exports are finite. Nothing is assumed of the client.
  The grace of 500 ms is taken to outlast steps that wait for nothing: a task
  whose operation has returned gets to send its event.
* `Download`: weak fairness of the fetching task; each request is answered or
  fails, by libp2p's request timeout. Faults and the deadline are not fair.
* `NetLoop`: weak fairness of the loop's handling of commands and of its end; each
  query ends (Kademlia's query timeout, the request timeout); strong fairness of
  each caller's send, since tokio's channel grants permits in the order of the
  waiters, so that nobody is overtaken for ever.
* `Serve`: weak fairness of the process's steps and of the clock.

## Proofs

TLC checks small instances; TLAPS proves the theorems below for any sets of
handles, threads, nodes, callers, peers, requests and roots and for every value of
the bounds, from the assumptions named in the modules. Apart from types of the
constants these say that a special value is none of the ordinary ones, that the
rotation size, the bag and the widths of the counters are not zero, that a fetch has
a candidate and a group a provider, that the time to
live is more than one period, and that the sets whose members are counted or summed
over are finite (`HandlesAssumption`, `NodesAssumption`, the sizes of a scenario,
the callers and peers of `NetLoop`): there are finitely many processes at any time.
`BridgeAssumption` says that torrents are sequences of files over the bytes and
parts above and that `PathOrder` has every path of a torrent;
`LiteralsAssumption`, that the eight parts which the modules write out are strings
other than "/", which the provers do not evaluate and TLC does.

Hardly any invariant is inductive as it stands. Each proof names the invariant
that is, shows that `Init` establishes it and that every action keeps it, one step
per action, and derives the property in the end.

**`StoreProofs`** (`Store`): `StoreTypes`, the type invariant; `StoreOffsets`, that
no index line, map entry or pending line names the place of another chunk, through
crashes and failed writes; `StoreGuard`, that at most one thread is between the seek
and the write of a pack, and the end it has read stays the end; `StoreOnce`, that a
handle packs a chunk once. That a line is right when it is appended depends on the
offset read some steps earlier. `IndInv` therefore adds `Locks` (who holds mutex
and guard at which step, and that a thread between seek and write knows the pack's
end) and `Sound` (the job a thread carries, the copy that the trim will write back,
the maps and the file all name chunks where they lie). Packs only ever grow
(`NextGrows`), so what is right stays right. `StoreOnce` needs `Once`: an
acknowledged chunk is in the map of its handle, and a thread past the second look-up
carries a chunk that nobody packs under the same mutex. The module goes on with
what the store promises beyond that (`StoreRefinement`):

* `StorePackBound`, for any number of handles. `Fits` counts, for a full pack, the
  handles that still believe to have room in it: every write beyond the rotation
  size uses up one of them, a crash or a failed write.
* `StoreHasFinds` and `StoreHasGet`, under `Alone`: the directory has one handle.
  The run that checks these has one handle, too, and with two they are false (see
  above). `HasImpliesGet` leaves out the chunks in `RanOn`, whose own reference was
  cut inside its path and run into; for these it is false. Threads, crashes,
  reopenings and failed writes are unbounded. `Faithful` says of a loaded sidecar
  that each listed chunk is in the map or about to be inserted by a call under way
  (`Covered`), that a line half appended is the last one and its writer's
  (`Landing`), what the trim leaves behind at each of its steps (`Trimmed`), and
  that no map entry has a cut length (`Entire`).
* `StoreKeepsPromise`, the refinement: under `Calm`, `Spec` implies
  `IsContentStore`. `Calm` is `Alone` and at most one crash, and `IsContentStore`
  speaks of the steps until a write has failed; beyond either the code loses
  acknowledged chunks, as listed above, so this is the reach of the promise and not
  a convenience. It is the instance of `store_single` for any number of threads,
  chunks and calls. `Exact` adds to `Faithful` that lines are apart, that a sidecar
  ends in a newline between two calls, that only a crash leaves anything to trim,
  and that maps hold nothing unlisted; `Simulates` maps every step to a step of
  `ContentStore` or to none. `HasAnswer` reads a sidecar past the cursor, so the
  proof first replaces it by a plain set (`Seen`, `Readings`).

**`ReputationProofs`** (`Reputation`), for any nodes, scenarios, threshold, widths.
It begins with the sums over finite sets that the accounting is stated with: that
they are naturals, what one more element or one changed summand does, monotony. The
library's induction theorems cannot be instantiated by the provers used here, so
each induction is the choice of a smallest set that violates the claim (`Smallest`,
from the well-foundedness of strict inclusion). Then:

* `SpecBagSound`, from what `ReceiptBag::insert` keeps of a list, whatever the
  receipt, compared with all that was ever offered (`BestOf`): what the cut drops is
  worth no more than the last that stays, and stays so with every later receipt. Bag
  and file keep it together, since a restart loads what was saved.
* `SpecUnsavedIsMarked`, which is inductive, and `SpecGiverNotChoked`, a fact about
  clamping that needs the types only.
* `SpecHonestReceipts`. `Honest` counts, for each client and server, what was
  receipted, what was counted since, and the bytes of the answers under way that a
  download waits for: together no more than what was served.
* `SpecDebtBounded`. `Debt` bounds the account and its saved copy alike, since a
  restart returns to the copy, and lets the floor sink by an answer with every
  request for symbols that has left the wire.
* `SpecCreditBacked`. `Backed` says that all receipts about a peer that anyone
  holds, saves or has under way are members of one set whose sum was issued:
  receipts are copied and dropped, but made only by a submission. `Single` says that
  at most one pull of a peer's receipts is under way, and only by a node that has
  credited that peer nothing; so the one crediting that may follow starts from zero,
  and a restart from an older file only goes back.

**`NetLoopProofs`** (`NetLoop`): `SpecOwnAnswer`, `SpecUnprovidedIsGone` (of the
node's own records and cached symbols only), `SpecNoLeak`. `IndInv` relates the
channel, the calls, the entries of waiting callers and the queries of the swarm,
each to the next: a caller with a command in the channel waits for it, an entry
belongs to a query that runs and to a caller that waits for this query, and holds
what the query has found; and what a returned caller was told is what its query
found. `NoLeak` has bounds on top, for which the queries begun are counted with
those in the channel and in the hands of senders.

**`DaemonProofs`** (`Daemon`): `SpecNoOrphanAnnouncer` (a loop that runs is its
root's or its task is at the step that lists it), `SpecAllPrinted` (the writer stops
on an empty channel only), `SpecTerminalOnce` (an answer is sent as its task ends,
and a task that is done never speaks), `SpecSerialListed` (for a client that awaits
each answer at most one request is under way, so that the three places a provide
changes agree at every step of it but its own).

**`ServeProofs`** (`Serve`): `SpecRegistryWhole` (a name stands for flushed bytes;
`TypeOK` and where the process is), `SpecSameIdentity` (a key that does not fit has
cost a power failure, and the keys drawn are no more than those and one),
`SpecAllServed` (what stays registered is served already or still to be read),
`SpecLiveStaysListed` (an entry is no older than the rounds missed since, and one
period while a round that is due has not reached its root).

**`DownloadProofs`** (`Download`), for any content, providers, groups, number of slots
and faults:

* `SpecCompleteWhenFetched`, `SpecPaidWhatWasServed` and `SpecGivenUpOnlyIfAbsent`,
  from one `IndInv`. `Slotted` says what a slot knows: the providers it has asked
  had not got its chunk (unless a request failed), who sent it, and that a slot which
  gave up has asked as many as the group has; with `RoundRobin`, that is everybody.
  `Fetching` says that a place whose chunk is not in the store has an open slot, and
  that what is done and what is open add up to the list. `Accounted` says that what a
  provider sent is counted for it or waits in a slot. That the slot given up is still
  not in the store at the end, though its chunk may be listed twice, needs `Earned`:
  whatever of the slots' chunks is in the store came from one of the group.
* `SpecHonestSymbolsSuffice`, for every content size up to `MaxTransfer` under
  `Ample`: it is empty, or twice the size holds the first batch of symbols. The
  hypothesis is the reach of the code, which fails for every other size (a content of
  1 to 77055 bytes). `Decoding` says that every symbol that has come
  is one of the content. Those of one block decode as soon as there are as many as
  source symbols. Those of several blocks may then not decode yet, since they hold
  repair symbols of the early blocks. The second try comes only when all have come,
  since the repair symbols are fewer than a quarter of the source symbols, and all of
  them decode; no batch up to there exceeds the limit. `DownloadAssumption` has at
  most 256 blocks (17 GB).

**`ContentProofs`** (`Content`): what the pure code computes, for all content. The
algorithms are recursive functions, and every induction is again a choice: of the
least place at which a claim fails (`LeastOf`). `Recur` says that a recursion has
a solution of its type, `Alike` that it has one only; `Total`, `Those`, `FlattenSeq`,
`Levels`, `Climb` and `Landing` get their equations from these two.

* `ChunkFact`: the chunks of any data, joined, are the data, since each begins where
  the one before it ends (`Rising`, `Ends`).
* `FromFilesValid` and `FromFilesData`: what `from_files` builds passes `validate`, and
  rebuilds to the files it was built from. `Runs` are the files' chunks,
  `FlatSplit` finds a place of the concatenation in one of them.
* `DataIsStream`: for *every* manifest that `validate` accepts, with empty files and
  with chunk lengths that are not those of the bytes, the files joined are all of
  the data. `Tiling` is
  the induction: the first files hold the first chunks. `StreamSplit`, that
  `split_stream` finds the files again, follows with sizes for counts.
* `MerkleInjective`: a root names its list of digests. The root of a tree tells its
  height, which is the depth at which its leftmost leaf lies (`Deep`; an odd node
  that was carried up lies at the right and cannot be the leftmost); two levels
  of one height with the same next level are the same (`NextInjective`), since a
  last node that was carried up lies less deep than the parent of a pair
  (`SameLength`). Duplicating the odd node, which the code avoids on purpose,
  would break this very step.
* `BranchFact`: the branch that `merkle_proof` gives leads to the root. What has been
  climbed after k levels is the node at the halved index of level k (`Halves`,
  `OneUp`), whether that level had a sibling for it or carried it up.
* `LandingPlain` and `ValidInside`: what `validate_relative_path` accepts lands where it
  says.

**`BridgeProofs`** (`Bridge`, `ContentProofs`): all six properties of the run, for any
nodes, torrents, data on disk, foreign trees, piece length, sizes of reads and bounds.
There are two invariants. `Sound` says how far each operation has come: `Place`,
for a node that feeds the verifier, that the pieces completed so far are those of the
torrent and the buffer is what has been read since (`FedTo`, wherever files and
reads begin and end); and `Judged`, what the steps passed so far have established.
`Stocked` is about manifests: those that are provided, still to be tried or kept
are of the type of a decoded manifest, whatever was altered in them; and one that an
operation ends with (`Finished`) matches its root and has its chunks in the store.
`IInv` is both; `Stocked` needs `Sound` to know that what is ingested was verified.

* `SpecStreamingAgrees`, from `Sound`: a piece that does not match shows that the
  whole content does not verify, and a stream that is used up without one has
  the torrent's pieces. With `PiecesInjective`, pieces name their stream.
* `SpecSameRootAsDeclared`, from `Sound`: files of the declared lengths that pass the
  piece check are the torrent's files, one by one.
* `SpecRootNamesContent`, from `IInv` and `MerkleInjective`.
* `SpecThreeWaysAgree`, from `IInv`, `DataIsStream` and `StreamSplit`, with no premise
  about the lengths and sizes that the manifest declares: `AllExported` (every file is
  written, as its own chunks), `SplitFact` (sizes that are right give the files back,
  wrong ones give other files) and `MerkleInjective` (a cut that recomputes the root
  has the chunks of the manifest).
* `SpecWrittenInside`, from the types in `IInv` and `LandingPlain`: the name is
  sanitised, the paths were validated, and plain parts put below plain parts stay
  plain.
* `SpecBridgedIsTorrent`, from `IInv`: what was converted is rebuilt by
  `FromFilesValid`, `FromFilesData` and `BranchFact` (every chunk passes
  `verify_chunk`), what was found was checked against the pieces.

Nothing about a manifest that came over the network is assumed beyond what
decoding gives it; that digests do not collide is how `Content` writes them.

What stays with TLC, and why:

* liveness: `CallsReturn`, `EveryRequestAnswered`, `ShutdownEnds`, `FetchEnds`,
  `Relisted` need fairness, which is outside the prover's reach;
* `AckedDurable`, `HasMeansStored`, `ListedIsServed` and `UnprovidedIsNotFound`, and
  `HonestSymbolsSuffice` at sizes that are not `Ample`, which the code violates.

Every other property of a passing run is a theorem. The boundaries of FastCDC stay
as they are modelled: `ChunkFact` is about the external chunker's stand-in.

## Not modelled

Taken as what they promise: Ed25519 signatures, BLAKE3, the boundaries of FastCDC,
RaptorQ, libp2p (Kademlia, relay, AutoNAT, UPnP, mDNS, the transport), librqbit,
Redis. Left out:

* the identity of `np2ptp-rep`, which only signs and verifies;
* decoding of bencode, of the `.nptp` container and of URIs: parsers over bytes,
  which have fuzz targets and unit tests; the models start from what they decode;
* what raptorq does with more than 256 source blocks, about 17 GB, which the code's
  limit of 32 GiB allows for, and the cool-down of mDNS dials;
* the commands `info` and `relay`, argument parsing, printing and progress;
* HTTP routing of the tracker; its table is in `Serve`;
* `np2ptp-sim`, which drives real nodes to measure them, and the Python client,
  which starts the binary and parses its output;
* two processes over one `ledger.bin`, and files that change between the check of
  a torrent and its ingest.

## Plan

All modules of the inventory are modelled, checked, and every safety property that
holds is proved. Left, should the code grow there: the parsers (bencode, `.nptp`,
URIs), and a second process over one `ledger.bin`.
