------------------------------- MODULE Bridge -------------------------------
(* Getting content into and out of the network: pack, the BitTorrent bridge *)
(* (bridge/lib.rs, bridge/streaming.rs, bridge/bencode.rs), the local get   *)
(* and the export (node/main.rs, node/lib.rs, store/lib.rs), over the pure  *)
(* definitions of Content.                                                  *)
(*                                                                          *)
(* Every node bridges one torrent or packs a directory, then exports what   *)
(* it has.  A peer that is none of the nodes provides a manifest of its     *)
(* own, which may have been altered, and may have put its root into the DHT *)
(* as the mapping of the torrent.                                           *)
EXTENDS Content

CONSTANTS
    Nodes,
    None,
    Torrents,       \* the torrents considered: sequences of files in their order
    Others,         \* trees the foreign peer may provide instead
    PathOrder,      \* the paths in the order of their strings
    PieceLength,
    MaxWindow,      \* the most bytes one read returns (64 KiB in the code)
    MaxDamaged,     \* how many nodes have files other than the torrent's
    MaxLeft,        \* chunks that a failed download has fetched
    Roles           \* what the nodes do: "local", "source", "magnet", "pack", "get"

ASSUME BridgeAssumption ==
    /\ Torrents \cup Others \subseteq Seq(FileType)
    /\ PathOrder \in Seq(Seq(Parts))
    /\ \A t \in Torrents : \A i \in DOMAIN t : t[i].path \in ToSet(PathOrder)
    /\ PieceLength \in Nat \ {0} /\ MaxWindow \in Nat \ {0}
    /\ MaxDamaged \in Nat /\ MaxLeft \in Nat
    /\ Roles \subseteq [Nodes -> {"local", "source", "magnet", "pack", "get"}]

VARIABLES
    torrent,        \* the .torrent at hand: files, their lengths and the pieces
    disk,           \* disk[n]: the set of files below n's data directory
    foreign,        \* the manifest the foreign peer provides
    mapping,        \* the record infohash -> root of the DHT
    store,          \* store[n]: the chunks n holds
    provided,       \* provided[n]: the manifest n provides
    op              \* op[n]: the operation of n

vars == <<torrent, disk, foreign, mapping, store, provided, op>>

-----------------------------------------------------------------------------
(* Torrents and what may lie on a disk *)

\* The pieces of a stream: each of PieceLength bytes, the last may be shorter.
Pieces(data) ==
    [i \in 1 .. (Len(data) + PieceLength - 1) \div PieceLength |->
        SubSeq(data, (i - 1) * PieceLength + 1, Min({i * PieceLength, Len(data)}))]

\* bencode::validate_relative_path: only the kind of each component counts.
TorrentPathOk(p) ==
    p # <<>> /\ p[1] \notin {"", "."} /\ \A i \in DOMAIN p : p[i] # ".."

\* parse_torrent_file: the metadata, when the file is well formed.
ParseTorrentFile(files) ==
    IF \A i \in DOMAIN files : TorrentPathOk(files[i].path)
    THEN Ok([lengths |-> [i \in DOMAIN files |-> Len(files[i].data)],
             paths |-> [i \in DOMAIN files |-> files[i].path],
             pieces |-> Pieces(Stream(files))])
    ELSE Err

\* The same stream cut into files at other places.
Recut(files) ==
    {[i \in DOMAIN files |-> [path |-> files[i].path,
                              data |-> SubSeq(Stream(files), cut[i] + 1, cut[i + 1])]] :
        cut \in {c \in [1 .. Len(files) + 1 -> 0 .. Len(Stream(files))] :
                    /\ c[1] = 0 /\ c[Len(files) + 1] = Len(Stream(files))
                    /\ \A i \in DOMAIN files : c[i] <= c[i + 1]}}

\* One byte is wrong, or the last file lost its end.
Damaged(files) ==
    (UNION {{[files EXCEPT ![i].data[k] = 1 - @] : k \in DOMAIN files[i].data} : i \in DOMAIN files})
    \cup {[files EXCEPT ![i].data = Front(@)] : i \in {j \in DOMAIN files : files[j].data # <<>>}}

\* A directory is a set of files; an empty one stands for missing data.
Disks(files) == {ToSet(f) : f \in Recut(files) \cup Damaged(files) \cup {<<>>}}

\* A file's range moved onto the first file's.
Overlapping(m) == {[m EXCEPT !.files[i].chunk_start = 0] : i \in DOMAIN m.files}

\* An unsigned number that is one off.
OneOff(k) == {k - 1, k + 1} \cap Nat

\* A manifest with one field altered.
Altered(m) ==
    (UNION {{[m EXCEPT !.chunks[i].length = k] : k \in OneOff(m.chunks[i].length)} : i \in DOMAIN m.chunks})
    \cup (UNION {{[m EXCEPT !.files[i].size = k] : k \in OneOff(m.files[i].size)} : i \in DOMAIN m.files})
    \cup {[m EXCEPT !.files[i].chunk_count = @ + 1] : i \in DOMAIN m.files}
    \cup Overlapping(m)
    \cup {[m EXCEPT !.files[i].path = p] : i \in DOMAIN m.files, p \in {<<"..", "a">>, <<"NUL">>}}
    \cup {[m EXCEPT !.chunks = Append(@, Last(@))] : x \in {y \in {0} : m.chunks # <<>>}}
    \cup {[m EXCEPT !.chunks = Front(@)] : x \in {y \in {0} : m.chunks # <<>>}}
    \cup {[m EXCEPT !.total_size = @ + 1]}
    \cup {[m EXCEPT !.name = p] : p \in {<<"x", "..">>, <<"..", "a">>, <<"..\\e">>, <<"NUL">>}}

\* Alterations that keep every sum right: a byte of declared length, or a
\* chunk, moved from one place to the next.
Resized(m) ==
    [m EXCEPT !.files = [i \in DOMAIN @ |-> [@[i] EXCEPT !.size = Lengths(OwnChunks(m, m.files[i]))]]]
Disguised(m) ==
    {Resized([m EXCEPT !.chunks[i].length = @ + 1, !.chunks[i + 1].length = @ - 1]) :
        i \in {j \in 1 .. Len(m.chunks) - 1 : m.chunks[j + 1].length > 0}}
    \cup {Resized([m EXCEPT !.files[i].chunk_count = @ + 1, !.files[i + 1].chunk_start = @ + 1,
                           !.files[i + 1].chunk_count = @ - 1]) :
        i \in {j \in 1 .. Len(m.files) - 1 : m.files[j + 1].chunk_count > 0}}

Idle(mode) == [pc |-> "start", mode |-> mode, root |-> None, todo |-> {}, man |-> None,
               reading |-> 1, pos |-> 0, buf |-> <<>>, next |-> 0, converted |-> FALSE]

\* A foreign manifest that is not the torrent's meets whole or missing files
\* only, which keeps the product of the two small.
Init ==
    /\ torrent \in Torrents
    /\ disk \in [Nodes -> Disks(torrent)]
    /\ Cardinality({n \in Nodes : disk[n] # ToSet(torrent)}) <= MaxDamaged
    /\ \/ LET m == FromFiles(torrent) IN foreign \in {m} \cup Altered(m) \cup Disguised(m)
       \/ \E t \in Others : foreign \in {FromFiles(t)} \cup Overlapping(FromFiles(t))
    /\ foreign = FromFiles(torrent) \/ disk \in [Nodes -> {ToSet(torrent), {}}]
    /\ mapping \in {None, foreign.root}
    /\ mapping = None => foreign = FromFiles(torrent)
    /\ store = [n \in Nodes |-> {}]
    /\ provided = [n \in Nodes |-> None]
    /\ op \in {[n \in Nodes |-> Idle(role[n])] : role \in Roles}

Meta == ParseTorrentFile(torrent).val

\* The files of the torrent, in its order, as n finds them.
Declared(n) == [i \in DOMAIN torrent |-> CHOOSE f \in disk[n] : f.path = torrent[i].path]
HashesOf(m) == {m.chunks[i].hash : i \in DOMAIN m.chunks}

Goto(n, pc) == op' = [op EXCEPT ![n].pc = pc]
Fail(n) == Goto(n, "failed") /\ UNCHANGED <<torrent, disk, foreign, mapping, store, provided>>

-----------------------------------------------------------------------------
(* The bridge *)

\* A bug: the mapping of the DHT is trusted.
BugTrusts(mode) == FALSE

\* bridge/lib.rs: whether the piece hashes are known before the content is.
Verifies(mode) == mode \in {"local", "source"}

\* The .torrent file is parsed first, if there is one; resolve looks the
\* mapping up.
Lookup(n) ==
    /\ op[n].pc = "start" /\ op[n].mode \notin {"pack", "get"}
    /\ IF op[n].mode = "magnet" \/ ParseTorrentFile(torrent).ok
       THEN op' = [op EXCEPT ![n].pc = IF mapping = None THEN "convert" ELSE "resolve",
                             ![n].root = mapping,
                             ![n].todo = {m \in {provided[x] : x \in Nodes \ {n}} \cup {foreign} :
                                            m # None /\ m.root = mapping}]
       ELSE Goto(n, "failed")
    /\ UNCHANGED <<torrent, disk, foreign, mapping, store, provided>>

\* verify_pieces: the concatenated files against the pieces, one by one.
VerifyPieces(files, pieces) == Pieces(Stream(files)) = pieces

\* resolve: the next provider of the root. A download that fails, with what it
\* has fetched by then, or content that is not this torrent's, is passed over;
\* an export that fails ends it.
TryProvider(n) ==
    \E m \in op[n].todo : \E got \in SUBSET HashesOf(m), accepted \in BOOLEAN :
      LET files == ReconstructFiles(m, store[n] \cup HashesOf(m))
          fits == ~Verifies(op[n].mode) \/ (files.ok /\ VerifyPieces(files.val, Meta.pieces))
      IN  /\ op[n].pc = "resolve"
          /\ accepted => got = HashesOf(m)
          /\ accepted \/ Cardinality(got) <= MaxLeft
          /\ accepted \/ got # {} => AcceptsManifest(m, op[n].root)
          /\ store' = [store EXCEPT ![n] = @ \cup got]
          /\ op' = [op EXCEPT ![n].todo = @ \ {m},
                              ![n].man = IF accepted /\ fits THEN m ELSE None,
                              ![n].pc = IF ~accepted THEN "resolve"
                                        ELSE IF Verifies(op[n].mode) /\ ~files.ok THEN "failed"
                                        ELSE IF fits THEN "done" ELSE "resolve"]
          /\ UNCHANGED <<torrent, disk, foreign, mapping, provided>>

\* resolve has no provider left, so the content is converted.
NoProvider(n) ==
    /\ op[n].pc = "resolve" /\ op[n].todo = {}
    /\ Goto(n, "convert")
    /\ UNCHANGED <<torrent, disk, foreign, mapping, store, provided>>

(* StreamingPieceVerifier *)

\* A bug: what is left of a piece is thrown away with every read.
BugFeedRestarts(buf, next, data, pieces) ==
    LET all == IF Len(data) >= PieceLength THEN data ELSE buf \o data
        full == Len(all) \div PieceLength
        piece(i) == SubSeq(all, (i - 1) * PieceLength + 1, i * PieceLength)
    IN  [ok |-> \A i \in 1 .. full : next + i <= Len(pieces) /\ piece(i) = pieces[next + i],
         buf |-> SubSeq(all, full * PieceLength + 1, Len(all)), next |-> next + full]

\* What feed leaves of the buffer and the pieces done, or a mismatch.
Feed(buf, next, data, pieces) ==
    LET all == buf \o data
        full == Len(all) \div PieceLength
        piece(i) == SubSeq(all, (i - 1) * PieceLength + 1, i * PieceLength)
    IN  [ok |-> \A i \in 1 .. full : next + i <= Len(pieces) /\ piece(i) = pieces[next + i],
         buf |-> SubSeq(all, full * PieceLength + 1, Len(all)), next |-> next + full]

Finish(buf, next, pieces) ==
    LET done == IF buf = <<>> THEN next ELSE next + 1
    IN  /\ buf # <<>> => next < Len(pieces) /\ buf = pieces[next + 1]
        /\ done = Len(pieces)

\* verify_pieces_streaming, one read: any number of bytes up to the window.
Read(n) ==
    LET o == op[n]
        data == Declared(n)[o.reading].data
    IN  /\ o.pc = "convert" /\ o.mode = "local"
        /\ disk[n] # {} /\ o.reading <= Len(torrent) /\ o.pos < Len(data)
        /\ \E k \in 1 .. MaxWindow :
             LET fed == Feed(o.buf, o.next, SubSeq(data, o.pos + 1, o.pos + k), Meta.pieces)
             IN  /\ o.pos + k <= Len(data)
                 /\ op' = [op EXCEPT ![n].pos = o.pos + k, ![n].buf = fed.buf,
                                     ![n].next = fed.next,
                                     ![n].pc = IF fed.ok THEN "convert" ELSE "rejected"]
        /\ UNCHANGED <<torrent, disk, foreign, mapping, store, provided>>

\* A read of no bytes: the next file is opened.
NextFile(n) ==
    LET o == op[n]
    IN  /\ o.pc = "convert" /\ o.mode = "local" /\ disk[n] # {}
        /\ o.reading <= Len(torrent) /\ o.pos = Len(Declared(n)[o.reading].data)
        /\ op' = [op EXCEPT ![n].reading = @ + 1, ![n].pos = 0]
        /\ UNCHANGED <<torrent, disk, foreign, mapping, store, provided>>

\* The last file has been read.
FinishVerify(n) ==
    LET o == op[n]
    IN  /\ o.pc = "convert" /\ o.mode = "local" /\ disk[n] # {} /\ o.reading > Len(torrent)
        /\ Goto(n, IF Finish(o.buf, o.next, Meta.pieces) THEN "ingest" ELSE "rejected")
        /\ UNCHANGED <<torrent, disk, foreign, mapping, store, provided>>

\* convert: the in-memory way checks the whole download at once.
VerifyWhole(n) ==
    /\ op[n].pc = "convert" /\ op[n].mode \in {"source", "magnet"} /\ disk[n] # {}
    /\ Goto(n, IF ~ParseTorrentFile(torrent).ok THEN "failed"
               ELSE IF VerifyPieces(Declared(n), Meta.pieces) THEN "ingest" ELSE "rejected")
    /\ UNCHANGED <<torrent, disk, foreign, mapping, store, provided>>

\* A file of the torrent is not there, or the BitTorrent download fails.
NoData(n) == op[n].pc = "convert" /\ disk[n] = {} /\ Fail(n)

-----------------------------------------------------------------------------
(* Ingest, publish, pack *)

\* read_dir_paths: every regular file, whatever order the directory is listed
\* in, sorted by path.
ReadDirPaths(files) ==
    LET paths == {f.path : f \in files}
        present == Those(PathOrder, {i \in DOMAIN PathOrder : PathOrder[i] \in paths})
    IN  [i \in DOMAIN present |-> CHOOSE f \in files : f.path = present[i]]

\* cmd_pack: the directory is read; one without files is refused.
Walk(n) ==
    /\ op[n].pc = "start" /\ op[n].mode = "pack"
    /\ Goto(n, IF disk[n] = {} THEN "failed" ELSE "ingest")
    /\ UNCHANGED <<torrent, disk, foreign, mapping, store, provided>>

\* A bug: the files are taken in the order of the directory.
BugDirectoryOrder(n) == ReadDirPaths(disk[n])

\* A torrent's files keep the torrent's order.
FilesIn(n) == IF op[n].mode = "pack" THEN ReadDirPaths(disk[n]) ELSE Declared(n)

\* ingest_tree_files, or ingest_tree of files in memory: every chunk is put or
\* referenced, file by file, and the manifest is built on the way.
Ingest(n) ==
    LET m == FromFiles(FilesIn(n))
    IN  /\ op[n].pc = "ingest"
        /\ store' = [store EXCEPT ![n] = @ \cup HashesOf(m)]
        /\ op' = [op EXCEPT ![n].man = m,
                            ![n].converted = op[n].mode # "pack",
                            ![n].pc = IF op[n].mode = "pack" THEN "done" ELSE "publish"]
        /\ UNCHANGED <<torrent, disk, foreign, mapping, provided>>

\* publish: provide comes before the mapping that others follow.
Provide(n) ==
    /\ op[n].pc = "publish"
    /\ provided' = [provided EXCEPT ![n] = op[n].man]
    /\ Goto(n, "map")
    /\ UNCHANGED <<torrent, disk, foreign, mapping, store>>

\* Without a quorum put_mapping answers false, which publish does not look at.
PutMapping(n) ==
    /\ op[n].pc = "map" /\ Goto(n, "done")
    /\ mapping' \in {op[n].man.root, mapping}
    /\ UNCHANGED <<torrent, disk, foreign, store, provided>>

-----------------------------------------------------------------------------
(* get and export *)

LooksLikeTree(m) == Len(m.files) > 1 \/ (m.files # <<>> /\ Len(m.files[1].path) > 1)

\* write_output without --out: below a directory, or to a file, that has the
\* last part of the manifest's name, or a fixed one if that is not safe.
Written(m, st) ==
    LET safe == SanitizeOutputName(m.name)
        dest == IF safe.ok THEN safe.val ELSE <<"download">>
        tree == ExportTreeToDir(m, st)
        one == ExportTo(m, st)
        below(f) == [path |-> dest \o f.path, data |-> f.data]
    IN  IF LooksLikeTree(m)
        THEN [ok |-> tree.ok, files |-> [i \in DOMAIN tree.files |-> below(tree.files[i])]]
        ELSE [ok |-> one.ok, files |-> <<[path |-> dest, data |-> one.data]>>]

\* node::download_with_progress: the chunks in the order of the list, those
\* already here skipped, up to the first the source lacks.
LocalDownload(m, source, local) ==
    LET upto == Max({k \in 0 .. Len(m.chunks) :
                        \A i \in 1 .. k : m.chunks[i].hash \in source \cup local})
    IN  IF RootIsConsistent(m)
        THEN [ok |-> upto = Len(m.chunks),
              local |-> local \cup {m.chunks[i].hash : i \in 1 .. upto}]
        ELSE [ok |-> FALSE, local |-> local]

\* cmd_get: the manifest is a .nptp file, of which get_manifest's checks have
\* seen nothing; the source is the store of the peer that wrote it.
Get(n) ==
    LET held == {FromFiles(t) : t \in {torrent} \cup Others}
        r == LocalDownload(foreign, UNION {HashesOf(m) : m \in held}, store[n])
    IN  /\ op[n].pc = "start" /\ op[n].mode = "get"
        /\ store' = [store EXCEPT ![n] = r.local]
        /\ op' = [op EXCEPT ![n].man = foreign, ![n].pc = IF r.ok THEN "done" ELSE "failed"]
        /\ UNCHANGED <<torrent, disk, foreign, mapping, provided>>

Step(n) ==
    \/ Lookup(n) \/ TryProvider(n) \/ NoProvider(n)
    \/ Read(n) \/ NextFile(n) \/ FinishVerify(n) \/ VerifyWhole(n) \/ NoData(n)
    \/ Walk(n) \/ Ingest(n) \/ Provide(n) \/ PutMapping(n) \/ Get(n)

Next == \E n \in Nodes : Step(n)
Spec == Init /\ [][Next]_vars

-----------------------------------------------------------------------------
(* Properties *)

TypeOK ==
    /\ \A n \in Nodes :
         /\ op[n].pc \in {"start", "resolve", "convert", "ingest", "publish", "map",
                          "done", "failed", "rejected"}
         /\ Len(op[n].buf) < PieceLength
         /\ op[n].reading \in 1 .. Len(torrent) + 1
    /\ mapping \in {None, foreign.root} \cup {op[n].man.root : n \in {x \in Nodes : op[x].converted}}

Done(n) == op[n].pc = "done"

\* Whatever resolve or convert answers to a caller that has the .torrent file
\* rebuilds to the torrent's bytes, even if the mapping in the DHT or the
\* manifest of a provider is wrong (resolve, convert_local).
BridgedIsTorrent ==
    \A n \in Nodes : Done(n) /\ op[n].mode \in {"local", "source"} =>
        LET r == ReconstructFiles(op[n].man, store[n])
        IN  r.ok /\ Stream(r.val) = Stream(torrent)

\* Whatever sizes the reads return, and however pieces lie across files, the
\* streaming verifier decides as verify_pieces does on the whole content, and
\* keeps less than a piece of it (a conjunct of the types).
StreamingAgrees ==
    TypeOK /\ \A n \in Nodes : op[n].mode = "local" =>
        /\ op[n].pc \in {"ingest", "publish", "map"} => VerifyPieces(Declared(n), Meta.pieces)
        /\ op[n].pc = "rejected" => ~VerifyPieces(Declared(n), Meta.pieces)

\* A root names one content: whoever gets a manifest for the root of a tree,
\* whatever was altered in it, has that tree's chunks in that tree's order.
RootNamesContent ==
    \A n \in Nodes : \A t \in {torrent} \cup Others :
        Done(n) /\ op[n].man.root = FromFiles(t).root =>
            /\ Data(op[n].man.chunks) = Stream(t)
            /\ HashesOf(op[n].man) \subseteq store[n]

\* A manifest that came over the network passes validate also when the lengths
\* it declares are not those of its chunks. Whether they are or not: what
\* export_tree_to_dir writes is each file's own chunks, all of them if no path
\* is refused; reconstruct gives their concatenation or, for a wrong total, an
\* error; reconstruct_files gives the same files, or an error exactly when a
\* size is wrong. split_stream does not notice wrong sizes and gives other files
\* then; if these still recompute the root, as download_fec demands before it
\* stores them, they have the chunks of the manifest, in its order.
ThreeWaysAgree ==
    \A n \in Nodes : Done(n) /\ op[n].mode # "get" =>
        LET m == op[n].man
            own == FilesOf(m)
            w == ExportTreeToDir(m, store[n])
            cut == SplitStream(m, Stream(own))
            sized == \A i \in DOMAIN own : Len(own[i].data) = m.files[i].size
        IN  /\ w.files = SubSeq(own, 1, Len(w.files))
            /\ (\A i \in DOMAIN own : ValidateRelativePath(own[i].path)) => w.ok /\ w.files = own
            /\ Reconstruct(m, store[n]) =
                 IF Len(Stream(own)) = m.total_size THEN Ok(Stream(own)) ELSE Err
            /\ ReconstructFiles(m, store[n]) = IF sized THEN Ok(own) ELSE Err
            /\ sized <=> cut = Ok(own)
            /\ cut.ok /\ FromFiles(cut.val).root = m.root => Hashes(FromFiles(cut.val)) = Hashes(m)

\* Whatever name and paths a manifest has, a file is written below the
\* current directory, at the place its path names (export_tree_to_dir,
\* write_output, sanitize_output_name).
WrittenInside ==
    \A n \in Nodes : Done(n) =>
        LET w == Written(op[n].man, store[n]).files
        IN  \A i \in DOMAIN w : Landing(w[i].path) = Listed(w[i].path)

\* Two nodes that convert the same torrent from files of the declared lengths
\* get the same root, whatever way they convert it.
SameRootAsDeclared ==
    \A n \in Nodes :
        op[n].converted /\ (\A i \in DOMAIN torrent : Len(Declared(n)[i].data) = Meta.lengths[i])
            => op[n].man.root = FromFiles(torrent).root
=============================================================================
