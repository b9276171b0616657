------------------------------ MODULE Content ------------------------------
(* What the pure code computes: hashes and the Merkle tree (core/hash.rs),  *)
(* chunking (core/chunk.rs), manifests and how content is rebuilt from one  *)
(* (core/manifest.rs, the exporters of the store), and which paths may be   *)
(* written (core/path.rs).                                                  *)
(*                                                                          *)
(* Hashes are symbolic: a digest is the tagged tuple of what was hashed, so *)
(* two digests are equal exactly when their inputs are.  A byte is 0 or 1,  *)
(* a path is the sequence of its '/'-separated parts, a file is a record of *)
(* its path and its bytes.  Indices of files and chunks count from 0, as in *)
(* the code.                                                                *)
EXTENDS Integers, Sequences, SequencesExt, FiniteSetsExt

Bytes == {0, 1}
Parts == STRING \ {"/"}
FileType == [path : Seq(Parts), data : Seq(Bytes)]

\* The parts that this module and Bridge write out are such strings: the
\* provers do not evaluate what a string is, TLC does.
Literals == {"n", "e", "x", "a", "..", "..\\e", "NUL", "download"}
ASSUME LiteralsAssumption == Literals \subseteq Parts

\* Recursion on a sequence: the sum of numbers, and the elements at the places
\* in K, in order.
Total(nums) ==
    LET upto[k \in 0 .. Len(nums)] == IF k = 0 THEN 0 ELSE upto[k - 1] + nums[k]
    IN  upto[Len(nums)]
Those(seq, K) ==
    LET upto[k \in 0 .. Len(seq)] ==
            IF k = 0 THEN <<>>
            ELSE IF k \in K THEN Append(upto[k - 1], seq[k]) ELSE upto[k - 1]
    IN  upto[Len(seq)]

Ok(v) == [ok |-> TRUE, val |-> v]
Err == [ok |-> FALSE]

(* hash.rs *)
Hash(bytes) == <<"chunk", bytes>>
LeafHash(h) == <<"leaf", h>>
NodeHash(l, r) == <<"node", l, r>>
EmptyRoot == <<"empty">>

\* The bug that carrying avoids: the odd one is paired with itself.
BugDuplicateOdd(cur) ==
    [i \in 1 .. (Len(cur) + 1) \div 2 |->
        IF 2 * i <= Len(cur) THEN NodeHash(cur[2 * i - 1], cur[2 * i])
                             ELSE NodeHash(cur[2 * i - 1], cur[2 * i - 1])]

\* One level up: neighbours are hashed together, an odd last one is carried.
NextLevel(cur) ==
    [i \in 1 .. (Len(cur) + 1) \div 2 |->
        IF 2 * i <= Len(cur) THEN NodeHash(cur[2 * i - 1], cur[2 * i])
                             ELSE cur[2 * i - 1]]

\* The levels from the leaves up. One of at most one digest is the last; the
\* function goes on beyond it.
Levels(hashes) ==
    LET level[k \in 0 .. Len(hashes)] ==
            IF k = 0 THEN [i \in DOMAIN hashes |-> LeafHash(hashes[i])]
                     ELSE NextLevel(level[k - 1])
    IN  level
Height(hashes) == Min({k \in 0 .. Len(hashes) : Len(Levels(hashes)[k]) <= 1})

MerkleRoot(hashes) ==
    IF hashes = <<>> THEN EmptyRoot ELSE Levels(hashes)[Height(hashes)][1]

\* The siblings on the way up from the leaf at index (from 0).
MerkleProof(hashes, index) ==
    LET level == Levels(hashes)
        at[k \in 0 .. Height(hashes)] == IF k = 0 THEN index ELSE at[k - 1] \div 2
        sib(k) == IF at[k] % 2 = 0 THEN at[k] + 1 ELSE at[k] - 1
        step(k) == IF sib(k) >= Len(level[k]) THEN <<>>
                   ELSE <<[left |-> sib(k) < at[k], hash |-> level[k][sib(k) + 1]]>>
    IN  FlattenSeq([k \in 1 .. Height(hashes) |-> step(k - 1)])

\* The digest that the siblings lead up to.
Climb(hash, proof) ==
    LET acc[k \in 0 .. Len(proof)] ==
            IF k = 0 THEN LeafHash(hash)
            ELSE IF proof[k].left THEN NodeHash(proof[k].hash, acc[k - 1])
                                  ELSE NodeHash(acc[k - 1], proof[k].hash)
    IN  acc[Len(proof)]

MerkleVerify(hash, proof, root) == Climb(hash, proof) = root

(* chunk.rs: a boundary depends on the bytes before it (here: it follows    *)
(* every 1), and the end of a file is one.                                  *)
CutPoints(data) ==
    Those([i \in DOMAIN data |-> i], {i \in DOMAIN data : data[i] = 1 \/ i = Len(data)})

Chunk(data) ==
    LET ends == CutPoints(data)
        start(k) == IF k = 1 THEN 0 ELSE ends[k - 1]
    IN  [k \in DOMAIN ends |->
            [hash |-> Hash(SubSeq(data, start(k) + 1, ends[k])),
             offset |-> start(k), length |-> ends[k] - start(k)]]

(* manifest.rs *)
Hashes(m) == [i \in DOMAIN m.chunks |-> m.chunks[i].hash]
Lengths(chunks) == Total([i \in DOMAIN chunks |-> chunks[i].length])
Sizes(files) == Total([i \in DOMAIN files |-> files[i].size])
Counts(files) == Total([i \in DOMAIN files |-> files[i].chunk_count])

\* Manifest::from_files: every file is chunked for itself, in the order given.
\* The name is no part of the id.
FromFiles(files) ==
    LET spans == [i \in DOMAIN files |-> Chunk(files[i].data)]
        sizes == [i \in DOMAIN files |-> Len(files[i].data)]
        counts == [i \in DOMAIN files |-> Len(spans[i])]
        before(nums, i) == Total(SubSeq(nums, 1, i - 1))
        chunks == FlattenSeq([i \in DOMAIN files |->
                    [k \in DOMAIN spans[i] |->
                        [spans[i][k] EXCEPT !.offset = @ + before(sizes, i)]]])
    IN  [root |-> MerkleRoot([i \in DOMAIN chunks |-> chunks[i].hash]),
         total_size |-> Total(sizes),
         chunks |-> chunks, name |-> <<"n">>,
         files |-> [i \in DOMAIN files |->
            [path |-> files[i].path, size |-> sizes[i],
             chunk_start |-> before(counts, i), chunk_count |-> counts[i]]]]

RootIsConsistent(m) == MerkleRoot(Hashes(m)) = m.root

OwnChunks(m, f) == SubSeq(m.chunks, f.chunk_start + 1, f.chunk_start + f.chunk_count)

\* A bug: ranges may overlap as long as they are within the chunk list.
BugMayOverlap(m, i) == m.files[i].chunk_start >= 0

\* A file's range begins where the one before it ended.
Tiles(m, i) == m.files[i].chunk_start = Counts(SubSeq(m.files, 1, i - 1))

\* Manifest::validate.  Each size equals the declared lengths of the file's
\* own chunks, so no sum reaches the bound at which the code saturates.
Validate(m) ==
    /\ Lengths(m.chunks) = m.total_size
    /\ \A i \in DOMAIN m.files : LET f == m.files[i] IN
         /\ Tiles(m, i)
         /\ f.chunk_count = 0 => f.size = 0
         /\ f.chunk_start + f.chunk_count <= Len(m.chunks)
         /\ Lengths(OwnChunks(m, f)) = f.size
    /\ Counts(m.files) = Len(m.chunks)
    /\ Sizes(m.files) = m.total_size

ChunkHashOk(m, i, bytes) == i < Len(m.chunks) /\ Hash(bytes) = m.chunks[i + 1].hash

VerifyChunk(m, i, bytes) ==
    /\ ChunkHashOk(m, i, bytes)
    /\ MerkleVerify(m.chunks[i + 1].hash, MerkleProof(Hashes(m), i), m.root)

(* What a store answers: the bytes of a chunk it holds. *)
BytesOf(hash) == hash[2]
Range0(n) == 0 .. n - 1
Stream(files) == FlattenSeq([i \in DOMAIN files |-> files[i].data])
Held(m, store) == \A i \in DOMAIN m.chunks : m.chunks[i].hash \in store
Data(chunks) == FlattenSeq([k \in DOMAIN chunks |-> BytesOf(chunks[k].hash)])

\* Manifest::reconstruct, as Store::export uses it.
Reconstruct(m, store) ==
    IF /\ Validate(m) /\ Held(m, store)
       /\ \A i \in Range0(Len(m.chunks)) : VerifyChunk(m, i, BytesOf(m.chunks[i + 1].hash))
       /\ Len(Data(m.chunks)) = m.total_size
    THEN Ok(Data(m.chunks)) ELSE Err

FilesOf(m) ==
    [i \in DOMAIN m.files |-> [path |-> m.files[i].path,
                               data |-> Data(OwnChunks(m, m.files[i]))]]

\* Manifest::reconstruct_files, as Store::export_tree uses it.
ReconstructFiles(m, store) ==
    IF /\ Validate(m) /\ Held(m, store)
       /\ \A i \in Range0(Len(m.chunks)) : VerifyChunk(m, i, BytesOf(m.chunks[i + 1].hash))
       /\ \A i \in DOMAIN m.files : Len(FilesOf(m)[i].data) = m.files[i].size
    THEN Ok(FilesOf(m)) ELSE Err

\* Manifest::split_stream: the decoded stream cut by the declared sizes.
SplitStream(m, data) ==
    LET from(i) == Sizes(SubSeq(m.files, 1, i - 1))
    IN  IF Len(data) = m.total_size /\ Validate(m)
        THEN Ok([i \in DOMAIN m.files |->
                [path |-> m.files[i].path,
                 data |-> SubSeq(data, from(i) + 1, from(i) + m.files[i].size)]])
        ELSE Err

(* path.rs *)
Backslashed == {"..\\e"}         \* up and down again, where '\' separates
Coloned == {"C:"}                \* a drive
Trimmed == {"x."}                \* a dot the system may drop
Devices == {"NUL"}

BugKeepsDevices == Coloned \cup Trimmed

\* Parts that Path::components yields as Component::Normal but are refused.
RefusedNames == Coloned \cup Trimmed \cup Devices

ValidateRelativePath(p) ==
    /\ p # <<>>
    /\ \A i \in DOMAIN p : p[i] \notin Backslashed \cup RefusedNames \cup {".."}
    /\ p[1] \notin {"", "."}
    /\ \E i \in DOMAIN p : p[i] \notin {"", "."}

\* Where dest.push(part) for every part leads, on the system that is least
\* forgiving: the place below the output directory, or outside of it (written
\* as a part that no path has).
Outside == <<"/">>
Push(dest, part) ==
    CASE dest = Outside -> Outside
      [] part \in {"", "."} -> dest
      [] part = ".." -> IF dest = <<>> THEN Outside ELSE Front(dest)
      [] part \in Backslashed -> IF dest = <<>> THEN Outside ELSE Append(Front(dest), "e")
      [] part \in Coloned \cup Devices -> Outside
      [] part \in Trimmed -> Append(dest, "x")
      [] OTHER -> Append(dest, part)
Landing(p) ==
    LET dest[k \in 0 .. Len(p)] == IF k = 0 THEN <<>> ELSE Push(dest[k - 1], p[k])
    IN  IF p # <<>> /\ p[1] = "" THEN Outside ELSE dest[Len(p)]
Listed(p) == Those(p, {i \in DOMAIN p : p[i] \notin {"", "."}})

\* sanitize_output_name: the last part of a name, if that is a valid path.
SanitizeOutputName(p) ==
    LET last == IF p # <<>> /\ Last(p) \in Backslashed THEN <<"e">>
                ELSE IF p = <<>> \/ Last(p) = "" THEN <<>> ELSE <<Last(p)>>
    IN  IF ValidateRelativePath(last) THEN Ok(last) ELSE Err

(* The exporters of the store. They trust the chunk list once it matches    *)
(* the root, stop at the first failure and leave what is already written.   *)

\* Store::export_to_with_progress: all files one after the other, up to the
\* first chunk that is not held.
ExportTo(m, store) ==
    LET good == Max({n \in 0 .. Len(m.chunks) : \A i \in 1 .. n : m.chunks[i].hash \in store})
    IN  IF RootIsConsistent(m)
        THEN [ok |-> good = Len(m.chunks), data |-> Data(SubSeq(m.chunks, 1, good))]
        ELSE [ok |-> FALSE, data |-> <<>>]

\* Store::export_tree_to_dir_with_progress: the chunks of a file that can be
\* written, up to the first that is out of range or not held.
GoodChunks(m, store, f) ==
    LET good(c) == c < Len(m.chunks) /\ m.chunks[c + 1].hash \in store
    IN  Max({n \in 0 .. f.chunk_count : \A c \in Range0(n) : good(f.chunk_start + c)})

FileOk(m, store, f) ==
    ValidateRelativePath(f.path) /\ GoodChunks(m, store, f) = f.chunk_count

FileWritten(m, store, f) ==
    [path |-> f.path,
     data |-> Data(SubSeq(m.chunks, f.chunk_start + 1, f.chunk_start + GoodChunks(m, store, f)))]

\* The files before the first that fails, which is left behind unfinished
\* unless its path was refused.
ExportTreeToDir(m, store) ==
    LET good == Max({n \in 0 .. Len(m.files) : \A i \in 1 .. n : FileOk(m, store, m.files[i])})
        left == IF good < Len(m.files) /\ ValidateRelativePath(m.files[good + 1].path)
                THEN good + 1 ELSE good
    IN  IF RootIsConsistent(m)
        THEN [ok |-> good = Len(m.files),
              files |-> [i \in 1 .. left |-> FileWritten(m, store, m.files[i])]]
        ELSE [ok |-> FALSE, files |-> <<>>]

\* Network::get_manifest: what a requester accepts for the root it asked for.
AcceptsManifest(m, root) == m.root = root /\ RootIsConsistent(m) /\ Validate(m)
=============================================================================
