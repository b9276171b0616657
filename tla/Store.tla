------------------------------- MODULE Store -------------------------------
(***************************************************************************)
(* The content-addressed chunk store of np2ptp-store (Store, PackState):   *)
(* several handles (`Store` instances, in one process or in several) over  *)
(* one directory, each used by several threads.                            *)
(*                                                                         *)
(* A pack file is a sequence of cells: the chunk (named by its hash) that  *)
(* one write_all left there, or Torn for a write that was cut short.  The  *)
(* two append-only sidecars, packs/index and refs.tsv, are sequences of    *)
(* cells too: a line is the cell with its fields followed by the newline   *)
(* cell Nl, so a file may end in a line that has only partly landed, and   *)
(* two lines may run together; a line cell without its newline stands for  *)
(* a text that reaches into its last field or stops before it (`last`).    *)
(* A byte position is a number of cells.                                   *)
(* Pack `n.pack` of the code is packs[n + 1].                              *)
(***************************************************************************)
EXTENDS Integers, Sequences, FiniteSetsExt

CONSTANTS
    Handles,     \* Store instances over the same directory
    Threads,     \* callers of the handles
    HandleOf,    \* the handle a thread calls
    Hashes,      \* chunks, named by their hash
    Legacy,      \* chunks already in the old objects/ layout
    Rotate,      \* PACK_ROTATE_SIZE, in chunks
    Nl, Torn,    \* a newline; a chunk that was only partly written
    None,        \* nobody / no entry
    MaxOps,      \* bound: calls of put and add_reference
    MaxOpens,    \* bound: calls of Store::open
    MaxCrashes,  \* bound: process crashes
    MaxErrors,   \* bound: writes that return an error
    MaxEdits     \* bound: changes to a referenced source file

ASSUME HandlesAssumption == IsFiniteSet(Handles)
ASSUME HandleOfAssumption == HandleOf \in [Threads -> Handles]
ASSUME RotateAssumption == Rotate \in Nat \ {0}
ASSUME HashesAssumption == Hashes # {}
ASSUME LegacyAssumption == Legacy \subseteq Hashes
ASSUME NlAssumption == Nl \notin [h : Hashes, p : Nat, o : Nat, last : BOOLEAN]
ASSUME TornAssumption == Torn \notin Hashes
ASSUME NoneAssumption ==
    None \notin Handles \cup Threads \cup [p : Nat, o : Nat, len : {0, 1}]
ASSUME BoundAssumption ==
    MaxOps \in Nat /\ MaxOpens \in Nat /\
    MaxCrashes \in Nat /\ MaxErrors \in Nat /\ MaxEdits \in Nat

VARIABLES
    packs,       \* the pack files, by id + 1
    file,        \* file["index"] is packs/index, file["refs"] is refs.tsv
    source,      \* whether the source file of a referenced chunk still holds it
    guard,       \* the handle that holds the .write-lock file lock
    appender,    \* the thread inside an append to a sidecar (the inode's write lock)
    phase,       \* how far a handle has come in Store::open
    on,          \* the sidecar that open is at
    kept,        \* what truncate_partial_line_locked will write back
    mem,         \* a handle's in-memory maps, pack_index and refs
    pos,         \* a handle's cursors, pack_index_pos and refs_pos
    cur,         \* a handle's PackState
    mutex,       \* the thread that holds a handle's pack_state mutex
    pc,          \* where a thread is in put or add_reference
    job,         \* the line that the thread is about to record
    mine,        \* chunks for which this open handle answered (h, true)
    acked,       \* chunks for which some put answered (h, true)
    used         \* how much of the bounds is used up

disk == <<packs, file, source>>
opening == <<phase, on, kept>>
memory == <<mem, pos, cur>>
calls == <<pc, job>>
ghosts == <<mine, acked>>
vars == <<packs, file, source, guard, appender, phase, on, kept, mem, pos, cur,
          mutex, pc, job, mine, acked, used>>

Files == {"index", "refs"}
Phases == {"closed", "trim", "cut", "fill", "load", "pack", "open"}
PutSteps == {"lock", "seek", "write", "append", "landing", "insert", "advance"}
Lines == [h : Hashes, p : Nat, o : Nat, last : BOOLEAN]
Cells == Lines \cup {Nl}
Locs == [p : Nat, o : Nat, len : {0, 1}]   \* len 0: a length or path cut or run on
Bounded == {"ops", "opens", "crashes", "errors", "edits"}
Sources == {"there", "edited", "gone"}

TypeOK ==
    /\ packs \in Seq(Seq(Hashes \cup {Torn}))
    /\ file \in [Files -> Seq(Cells)]
    /\ source \in [Hashes -> Sources]
    /\ guard \in Handles \cup {None}
    /\ appender \in [Files -> Threads \cup {None}]
    /\ phase \in [Handles -> Phases]
    /\ on \in [Handles -> Files]
    /\ kept \in [Handles -> Seq(Cells)]
    /\ mem \in [Handles -> [Files -> [Hashes -> Locs \cup {None}]]]
    /\ pos \in [Handles -> [Files -> Nat]]
    /\ cur \in [Handles -> [id : Nat, size : Nat]]
    /\ mutex \in [Handles -> Threads \cup {None}]
    /\ pc \in [Threads -> PutSteps \cup {"idle"}]
    /\ job \in [Threads -> [f : Files, h : Hashes, p : Nat, o : Nat]]
    /\ mine \in [Handles -> SUBSET Hashes]
    /\ acked \in SUBSET Hashes
    /\ used \in [Bounded -> Nat]

-----------------------------------------------------------------------------
(* Sidecar text: lines, complete lines and what a reader makes of them.    *)

(* The end of the last complete line of s past position `from`.            *)
CompleteEnd(s, from) ==
    Max({from} \cup {i \in DOMAIN s : i > from /\ s[i] = Nl})

(* A line starts at i for a reader that starts reading after `from`.       *)
StartsLine(s, from, i) == s[i] # Nl /\ (i = from + 1 \/ s[i - 1] = Nl)

(* The positions after `from` of the lines that are whole: newline and all. *)
CompleteLines(s, from) ==
    {i \in DOMAIN s : /\ i > from
                      /\ i + 1 \in DOMAIN s
                      /\ StartsLine(s, from, i)
                      /\ s[i + 1] = Nl}

(* The positions after `from` and before `to` of the lines that were cut   *)
(* inside their last field and ran into the next one.                      *)
RunsOn(s, from, to) ==
    {i \in DOMAIN s : /\ i > from
                      /\ i < to
                      /\ StartsLine(s, from, i)
                      /\ s[i + 1] # Nl
                      /\ s[i].last}

(* What a reader of the text s, from `from` up to `to`, takes for a line.  *)
(* The last field of a pack index line is a number: run together with the  *)
(* next hash it does not parse.  The last field of a reference is all the  *)
(* rest, so there the path merely becomes a wrong one.                     *)
Readable(f, s, from, to) ==
    CompleteLines(s, from) \cup (IF f = "refs" THEN RunsOn(s, from, to) ELSE {})

LocAt(s, i) ==
    [p |-> s[i].p, o |-> s[i].o, len |-> IF i < Len(s) /\ s[i + 1] = Nl THEN 1 ELSE 0]

(* The map m with the lines at positions P inserted in file order.         *)
Inserted(m, s, P) ==
    [h \in Hashes |->
        LET at == {i \in P : s[i].h = h}
        IN  IF at = {} THEN m[h] ELSE LocAt(s, Max(at))]

RefreshedPos(hd, f) == CompleteEnd(file[f], pos[hd][f])
RefreshedMem(hd, f) ==
    Inserted(mem[hd][f], file[f], Readable(f, file[f], pos[hd][f], RefreshedPos(hd, f)))

(* Store::refresh_pack_index (and its mirror refresh_refs) over the set F. *)
Refresh(hd, F) ==
    /\ mem' = [mem EXCEPT ![hd] =
                   [f \in Files |-> IF f \in F THEN RefreshedMem(hd, f) ELSE mem[hd][f]]]
    /\ pos' = [pos EXCEPT ![hd] =
                   [f \in Files |-> IF f \in F THEN RefreshedPos(hd, f) ELSE pos[hd][f]]]

(* What the three look-ups of has and put say of h without a refresh.      *)
Known(m, h) == m["index"][h] # None \/ h \in Legacy \/ m["refs"][h] # None

(* Store::has: its answer, and the refresh it makes on a miss.             *)
HasAnswer(hd, h) == Known(mem[hd], h) \/ RefreshedMem(hd, "index")[h] # None
HasEffect(hd, h) ==
    IF Known(mem[hd], h) THEN UNCHANGED <<mem, pos>> ELSE Refresh(hd, {"index"})

(* read_from_pack followed by the hash check of get_from_pack_index.       *)
Resolves(loc, h) ==
    /\ loc.p \in DOMAIN packs
    /\ SubSeq(packs[loc.p], loc.o + 1, loc.o + loc.len) = <<h>>

GetPacked(loc, h) ==
    IF loc = None THEN "none" ELSE IF Resolves(loc, h) THEN "ok" ELSE "error"

(* get_reference: a path cut or run on into another line names no file, a  *)
(* missing source is None, other bytes than the chunk's are an error.      *)
GetReference(loc, h) ==
    IF loc = None \/ loc.len = 0 \/ source[h] = "gone" THEN "none"
    ELSE IF source[h] = "edited" THEN "error" ELSE "ok"

(* Store::get before and after its refresh.                                *)
GetLocal(hd, h) ==
    LET packed == GetPacked(mem[hd]["index"][h], h)
    IN  IF packed # "none" THEN packed
        ELSE IF h \in Legacy THEN "ok"
        ELSE GetReference(mem[hd]["refs"][h], h)

GetAnswer(hd, h) ==
    IF GetLocal(hd, h) # "none" THEN GetLocal(hd, h)
    ELSE GetPacked(RefreshedMem(hd, "index")[h], h)

-----------------------------------------------------------------------------
(* Locks.  A definition whose name begins with Bug is a deliberate mistake *)
(* in the one after it, there to show that the properties notice it.       *)

(* acquire_write_guard can return; the drop of a WriteGuard.               *)
GuardFree == guard = None
BugGuardLeaked == UNCHANGED guard
ReleaseGuard == guard' = None

(* The pack_state mutex can be taken.                                      *)
MutexFree(hd) == mutex[hd] = None

NoJob == [f |-> "index", h |-> CHOOSE h \in Hashes : TRUE, p |-> 0, o |-> 0]
EmptyMem == [f \in Files |-> [h \in Hashes |-> None]]

(* An empty directory that no handle has opened yet.                       *)
Init ==
    /\ packs = <<>>
    /\ file = [f \in Files |-> <<>>]
    /\ source = [h \in Hashes |-> "there"]
    /\ guard = None
    /\ appender = [f \in Files |-> None]
    /\ phase = [hd \in Handles |-> "closed"]
    /\ on = [hd \in Handles |-> "index"]
    /\ kept = [hd \in Handles |-> <<>>]
    /\ mem = [hd \in Handles |-> EmptyMem]
    /\ pos = [hd \in Handles |-> [f \in Files |-> 0]]
    /\ cur = [hd \in Handles |-> [id |-> 0, size |-> 0]]
    /\ mutex = [hd \in Handles |-> None]
    /\ pc = [t \in Threads |-> "idle"]
    /\ job = [t \in Threads |-> NoJob]
    /\ mine = [hd \in Handles |-> {}]
    /\ acked = {}
    /\ used = [b \in Bounded |-> 0]

-----------------------------------------------------------------------------
(* Store::open                                                             *)

Open(hd) ==
    /\ phase[hd] = "closed"
    /\ used["opens"] < MaxOpens
    /\ GuardFree
    /\ guard' = hd
    /\ phase' = [phase EXCEPT ![hd] = "trim"]
    /\ on' = [on EXCEPT ![hd] = "index"]
    /\ used' = [used EXCEPT !["opens"] = @ + 1]
    /\ UNCHANGED <<disk, appender, kept, memory, mutex, calls, ghosts>>

(* The trim of one sidecar is over: on to the next one, or drop the guard. *)
TrimDone(hd) ==
    IF on[hd] = "index"
    THEN /\ on' = [on EXCEPT ![hd] = "refs"]
         /\ phase' = [phase EXCEPT ![hd] = "trim"]
         /\ UNCHANGED guard
    ELSE /\ on' = [on EXCEPT ![hd] = "index"]
         /\ phase' = [phase EXCEPT ![hd] = "load"]
         /\ ReleaseGuard

(* truncate_partial_line_locked reads the text; nothing to do if it is     *)
(* empty or ends in a newline.                                             *)
BugNeverTorn(text) == FALSE
TornTail(text) == CompleteEnd(text, 0) # Len(text)

TrimRead(hd) ==
    LET text == file[on[hd]]
    IN  /\ phase[hd] = "trim"
        /\ IF TornTail(text)
           THEN /\ kept' = [kept EXCEPT ![hd] = SubSeq(text, 1, CompleteEnd(text, 0))]
                /\ phase' = [phase EXCEPT ![hd] = "cut"]
                /\ UNCHANGED <<on, guard>>
           ELSE TrimDone(hd) /\ UNCHANGED kept
        /\ UNCHANGED <<disk, appender, memory, mutex, calls, ghosts, used>>

(* fs::write first truncates the file ...                                  *)
TrimCut(hd) ==
    /\ phase[hd] = "cut"
    /\ appender[on[hd]] = None
    /\ file' = [file EXCEPT ![on[hd]] = <<>>]
    /\ phase' = [phase EXCEPT ![hd] = "fill"]
    /\ UNCHANGED <<packs, source, guard, appender, on, kept, memory, mutex, calls, ghosts, used>>

(* ... and then writes from its start, over what was appended meanwhile.   *)
TrimFill(hd) ==
    /\ phase[hd] = "fill"
    /\ appender[on[hd]] = None
    /\ file' = [file EXCEPT ![on[hd]] =
                    kept[hd] \o SubSeq(@, Len(kept[hd]) + 1, Len(@))]
    /\ kept' = [kept EXCEPT ![hd] = <<>>]
    /\ TrimDone(hd)
    /\ UNCHANGED <<packs, source, appender, memory, mutex, calls, ghosts, used>>

(* What load_pack_index and load_refs may make of a last line that has no  *)
(* newline yet: the text may stop before its last field (no entry), inside *)
(* it (an entry with digits of the length, or part of the path, missing)   *)
(* or right before the newline.                                            *)
LastLine(s) == {i \in {Len(s)} : s # <<>> /\ StartsLine(s, 0, i) /\ s[i].last}
LoadChoices == {"skip", "cut", "whole"}
BugLoadSkipsFirst(f, s, choice) ==
    Inserted([h \in Hashes |-> None], s, CompleteLines(s, 0) \ {1})
LoadedMem(f, s, choice) ==
    LET m == Inserted([h \in Hashes |-> None], s, Readable(f, s, 0, Len(s)))
        last == IF choice = "skip" THEN {} ELSE LastLine(s)
    IN  [h \in Hashes |->
            IF \E i \in last : s[i].h = h
            THEN [LocAt(s, Len(s)) EXCEPT !.len = IF choice = "cut" THEN 0 ELSE 1]
            ELSE m[h]]

(* load_pack_index, then load_refs: the cursor is the length of the text.  *)
Load(hd, choice) ==
    LET f == on[hd]
    IN  /\ phase[hd] = "load"
        /\ choice = "skip" \/ LastLine(file[f]) # {}
        /\ mem' = [mem EXCEPT ![hd][f] = LoadedMem(f, file[f], choice)]
        /\ pos' = [pos EXCEPT ![hd][f] = Len(file[f])]
        /\ IF f = "index"
           THEN on' = [on EXCEPT ![hd] = "refs"] /\ UNCHANGED phase
           ELSE on' = [on EXCEPT ![hd] = "index"] /\ phase' = [phase EXCEPT ![hd] = "pack"]
        /\ UNCHANGED <<disk, guard, appender, kept, cur, mutex, calls, ghosts, used>>

(* PackState::open resumes the highest pack and creates the first one.     *)
OpenPack(hd) ==
    LET opened == IF packs = <<>> THEN << <<>> >> ELSE packs
    IN  /\ phase[hd] = "pack"
        /\ packs' = opened
        /\ cur' = [cur EXCEPT ![hd] = [id |-> Len(opened), size |-> Len(opened[Len(opened)])]]
        /\ phase' = [phase EXCEPT ![hd] = "open"]
        /\ UNCHANGED <<file, source, guard, appender, on, kept, mem, pos, mutex, calls, ghosts, used>>

ThreadsOf(hd) == {t \in Threads : HandleOf[t] = hd}

(* The handle forgets everything it held in memory.                        *)
Forget(hd) ==
    /\ phase' = [phase EXCEPT ![hd] = "closed"]
    /\ on' = [on EXCEPT ![hd] = "index"]
    /\ kept' = [kept EXCEPT ![hd] = <<>>]
    /\ mem' = [mem EXCEPT ![hd] = EmptyMem]
    /\ pos' = [pos EXCEPT ![hd] = [f \in Files |-> 0]]
    /\ cur' = [cur EXCEPT ![hd] = [id |-> 0, size |-> 0]]
    /\ mine' = [mine EXCEPT ![hd] = {}]

(* The handle is dropped.                                                  *)
Close(hd) ==
    /\ phase[hd] = "open"
    /\ \A t \in ThreadsOf(hd) : pc[t] = "idle"
    /\ Forget(hd)
    /\ UNCHANGED <<disk, guard, appender, mutex, calls, acked, used>>

-----------------------------------------------------------------------------
(* Store::has, get, object_count                                           *)

(* has, and a put that has() answers with a dedup hit.                     *)
Has(t, h) ==
    LET hd == HandleOf[t]
    IN  /\ phase[hd] = "open"
        /\ pc[t] = "idle"
        /\ HasEffect(hd, h)
        /\ UNCHANGED <<disk, guard, appender, opening, cur, mutex, calls, ghosts, used>>

Get(t, h) ==
    LET hd == HandleOf[t]
    IN  /\ phase[hd] = "open"
        /\ pc[t] = "idle"
        /\ IF GetLocal(hd, h) # "none" THEN UNCHANGED <<mem, pos>> ELSE Refresh(hd, {"index"})
        /\ UNCHANGED <<disk, guard, appender, opening, cur, mutex, calls, ghosts, used>>

ObjectCount(t) ==
    LET hd == HandleOf[t]
    IN  /\ phase[hd] = "open"
        /\ pc[t] = "idle"
        /\ Refresh(hd, {"index"})
        /\ UNCHANGED <<disk, guard, appender, opening, cur, mutex, calls, ghosts, used>>

-----------------------------------------------------------------------------
(* Store::put and Store::add_reference                                     *)

Goto(t, step) == pc' = [pc EXCEPT ![t] = step]

(* The thread returns to its caller.                                       *)
Return(t) == Goto(t, "idle") /\ job' = [job EXCEPT ![t] = NoJob]

(* put(h) finds that the handle does not have h ...                        *)
PutMiss(t, h) ==
    LET hd == HandleOf[t]
    IN  /\ phase[hd] = "open"
        /\ pc[t] = "idle"
        /\ used["ops"] < MaxOps
        /\ ~HasAnswer(hd, h)
        /\ HasEffect(hd, h)
        /\ Goto(t, "lock")
        /\ job' = [job EXCEPT ![t] = [NoJob EXCEPT !.h = h]]
        /\ used' = [used EXCEPT !["ops"] = @ + 1]
        /\ UNCHANGED <<disk, guard, appender, opening, cur, mutex, ghosts>>

(* ... takes the pack_state mutex, refreshes both maps and looks again.    *)
BugNoSecondLook(hd, h) == FALSE
KnownAfterRefresh(hd, h) == Known([f \in Files |-> RefreshedMem(hd, f)], h)

PutLock(t) ==
    LET hd == HandleOf[t]
    IN  /\ pc[t] = "lock"
        /\ MutexFree(hd)
        /\ Refresh(hd, Files)
        /\ ~KnownAfterRefresh(hd, job[t].h)
        /\ mutex' = [mutex EXCEPT ![hd] = t]
        /\ Goto(t, "seek")
        /\ UNCHANGED <<disk, guard, appender, opening, cur, job, ghosts, used>>

PutLateHit(t) ==
    LET hd == HandleOf[t]
    IN  /\ pc[t] = "lock"
        /\ MutexFree(hd)
        /\ Refresh(hd, Files)
        /\ KnownAfterRefresh(hd, job[t].h)
        /\ Return(t)
        /\ UNCHANGED <<disk, guard, appender, opening, cur, mutex, ghosts, used>>

(* PackState::write rotates on its own idea of the pack's size ...         *)
PutRotate(t) ==
    LET hd == HandleOf[t]
        next == cur[hd].id + 1
    IN  /\ pc[t] = "seek"
        /\ cur[hd].size >= Rotate
        /\ cur' = [cur EXCEPT ![hd] = [id |-> next, size |-> 0]]
        /\ packs' = IF next > Len(packs) THEN Append(packs, <<>>) ELSE packs
        /\ UNCHANGED <<file, source, guard, appender, opening, mem, pos, mutex, calls, ghosts, used>>

(* ... takes the write guard and asks the file for its end ...             *)
BugEndOffByOne(hd) == Len(packs[cur[hd].id]) - 1
BugEndFromMemory(hd) == cur[hd].size
PackEnd(hd) == Len(packs[cur[hd].id])

PutSeek(t) ==
    LET hd == HandleOf[t]
    IN  /\ pc[t] = "seek"
        /\ cur[hd].size < Rotate
        /\ GuardFree
        /\ guard' = hd
        /\ job' = [job EXCEPT ![t] = [@ EXCEPT !.p = cur[hd].id, !.o = PackEnd(hd)]]
        /\ Goto(t, "write")
        /\ UNCHANGED <<disk, appender, opening, memory, mutex, ghosts, used>>

(* ... and the chunk lands at the end that the file has by then.           *)
BugCountOwnWrites(t) == cur[HandleOf[t]].size + 1
SizeAfterWrite(t) == job[t].o + 1

PutWrite(t) ==
    LET hd == HandleOf[t]
    IN  /\ pc[t] = "write"
        /\ packs' = [packs EXCEPT ![job[t].p] = Append(@, job[t].h)]
        /\ cur' = [cur EXCEPT ![hd] = [@ EXCEPT !.size = SizeAfterWrite(t)]]
        /\ ReleaseGuard
        /\ Goto(t, "append")
        /\ UNCHANGED <<file, source, appender, opening, mem, pos, mutex, job, ghosts, used>>

(* add_reference, after the has() that ingest_file_streaming_impl makes.   *)
AddReference(t, h) ==
    LET hd == HandleOf[t]
    IN  /\ phase[hd] = "open"
        /\ pc[t] = "idle"
        /\ used["ops"] < MaxOps
        /\ source[h] = "there"
        /\ HasEffect(hd, h)
        /\ Goto(t, "append")
        /\ job' = [job EXCEPT ![t] = [NoJob EXCEPT !.f = "refs", !.h = h]]
        /\ used' = [used EXCEPT !["ops"] = @ + 1]
        /\ UNCHANGED <<disk, guard, appender, opening, cur, mutex, ghosts>>

(* append_pack_index_line (or the append of add_reference): O_APPEND makes *)
(* the two halves of a line contiguous, and a reader may come in between.  *)
(* `last`: the first half reaches into the last field; told apart for      *)
(* refs.tsv only, where it decides what becomes of a line that runs on.    *)
LineOf(t, last) == [h |-> job[t].h, p |-> job[t].p, o |-> job[t].o, last |-> last]
AppendFields(t) ==
    LET f == job[t].f
    IN  /\ pc[t] = "append"
        /\ appender[f] = None
        /\ appender' = [appender EXCEPT ![f] = t]
        /\ \E last \in IF f = "refs" THEN BOOLEAN ELSE {TRUE} :
               file' = [file EXCEPT ![f] = Append(@, LineOf(t, last))]
        /\ Goto(t, "landing")
        /\ UNCHANGED <<packs, source, guard, opening, memory, mutex, job, ghosts, used>>

AppendNewline(t) ==
    LET f == job[t].f
    IN  /\ pc[t] = "landing"
        /\ appender' = [appender EXCEPT ![f] = None]
        /\ file' = [file EXCEPT ![f] = Append(@, Nl)]
        /\ Goto(t, "insert")
        /\ UNCHANGED <<packs, source, guard, opening, memory, mutex, job, ghosts, used>>

NewLoc(t) == [p |-> job[t].p, o |-> job[t].o, len |-> 1]

(* The new entry goes into the handle's map; add_reference ends here.      *)
PutInsert(t) ==
    /\ pc[t] = "insert"
    /\ job[t].f = "index"
    /\ mem' = [mem EXCEPT ![HandleOf[t]]["index"][job[t].h] = NewLoc(t)]
    /\ Goto(t, "advance")
    /\ UNCHANGED <<disk, guard, appender, opening, pos, cur, mutex, job, ghosts, used>>

ReferenceInsert(t) ==
    /\ pc[t] = "insert"
    /\ job[t].f = "refs"
    /\ mem' = [mem EXCEPT ![HandleOf[t]]["refs"][job[t].h] = NewLoc(t)]
    /\ Return(t)
    /\ UNCHANGED <<disk, guard, appender, opening, pos, cur, mutex, ghosts, used>>

(* The cursor advances by the length of the line, the mutex is dropped and *)
(* put answers (h, true).                                                  *)
PutAdvance(t) ==
    LET hd == HandleOf[t]
    IN  /\ pc[t] = "advance"
        /\ pos' = [pos EXCEPT ![hd]["index"] = @ + 2]
        /\ mutex' = [mutex EXCEPT ![hd] = None]
        /\ Return(t)
        /\ mine' = [mine EXCEPT ![hd] = @ \cup {job[t].h}]
        /\ acked' = acked \cup {job[t].h}
        /\ UNCHANGED <<disk, guard, appender, opening, mem, cur, used>>

-----------------------------------------------------------------------------
(* Failures                                                                *)

(* A write to the pack that fails may leave part of the chunk behind.      *)
TornPack(t, torn) ==
    packs' = IF torn THEN [packs EXCEPT ![job[t].p] = Append(@, Torn)] ELSE packs

(* PackState::write returns an error: the guard and the mutex are dropped, *)
(* current_size is not updated.                                            *)
PutWriteFails(t, torn) ==
    /\ pc[t] = "write"
    /\ used["errors"] < MaxErrors
    /\ used' = [used EXCEPT !["errors"] = @ + 1]
    /\ TornPack(t, torn)
    /\ ReleaseGuard
    /\ mutex' = [mutex EXCEPT ![HandleOf[t]] = None]
    /\ Return(t)
    /\ UNCHANGED <<file, source, appender, opening, memory, ghosts>>

(* The append to the sidecar returns an error, before or after some of the *)
(* line has landed.                                                        *)
AppendFails(t) ==
    LET hd == HandleOf[t]
        f == job[t].f
    IN  /\ pc[t] \in {"append", "landing"}
        /\ used["errors"] < MaxErrors
        /\ used' = [used EXCEPT !["errors"] = @ + 1]
        /\ appender' = IF pc[t] = "landing" THEN [appender EXCEPT ![f] = None] ELSE appender
        /\ mutex' = IF f = "index" THEN [mutex EXCEPT ![hd] = None] ELSE mutex
        /\ Return(t)
        /\ UNCHANGED <<disk, guard, opening, memory, ghosts>>

(* The process with the handle dies: the operating system drops its locks. *)
(* An open that returns an error leaves the same state behind.             *)
Crash(hd, torn) ==
    /\ phase[hd] # "closed"
    /\ used["crashes"] < MaxCrashes
    /\ used' = [used EXCEPT !["crashes"] = @ + 1]
    /\ IF \E t \in ThreadsOf(hd) : pc[t] = "write"
       THEN \E t \in ThreadsOf(hd) : pc[t] = "write" /\ TornPack(t, torn)
       ELSE ~torn /\ UNCHANGED packs
    /\ Forget(hd)
    /\ guard' = IF guard = hd THEN None ELSE guard
    /\ appender' = [f \in Files |-> IF appender[f] \in ThreadsOf(hd) THEN None ELSE appender[f]]
    /\ mutex' = [mutex EXCEPT ![hd] = None]
    /\ pc' = [t \in Threads |-> IF HandleOf[t] = hd THEN "idle" ELSE pc[t]]
    /\ job' = [t \in Threads |-> IF HandleOf[t] = hd THEN NoJob ELSE job[t]]
    /\ UNCHANGED <<file, source, acked>>

(* The user edits or removes a file that chunks are referenced from.       *)
EditSource(h, s) ==
    /\ used["edits"] < MaxEdits
    /\ source[h] = "there"
    /\ source' = [source EXCEPT ![h] = s]
    /\ used' = [used EXCEPT !["edits"] = @ + 1]
    /\ UNCHANGED <<packs, file, guard, appender, opening, memory, mutex, calls, ghosts>>

-----------------------------------------------------------------------------
OpenStep(hd) ==
    \/ TrimRead(hd) \/ TrimCut(hd) \/ TrimFill(hd)
    \/ \E choice \in LoadChoices : Load(hd, choice)
    \/ OpenPack(hd)

CallStep(t) ==
    \/ PutLock(t) \/ PutLateHit(t) \/ PutRotate(t) \/ PutSeek(t) \/ PutWrite(t)
    \/ AppendFields(t) \/ AppendNewline(t)
    \/ PutInsert(t) \/ ReferenceInsert(t) \/ PutAdvance(t)

Call(t) ==
    \/ \E h \in Hashes : Has(t, h) \/ Get(t, h) \/ PutMiss(t, h) \/ AddReference(t, h)
    \/ ObjectCount(t)

Fault ==
    \/ \E t \in Threads, torn \in BOOLEAN : PutWriteFails(t, torn)
    \/ \E t \in Threads : AppendFails(t)
    \/ \E hd \in Handles, torn \in BOOLEAN : Crash(hd, torn)
    \/ \E h \in Hashes, s \in Sources \ {"there"} : EditSource(h, s)

Next ==
    \/ \E hd \in Handles : Open(hd) \/ Close(hd) \/ OpenStep(hd)
    \/ \E t \in Threads : Call(t) \/ CallStep(t)
    \/ Fault

(* A call or an open that has begun keeps being scheduled; nobody has to   *)
(* call, to open or to fail.                                               *)
Fairness ==
    /\ \A hd \in Handles : WF_vars(OpenStep(hd))
    /\ \A t \in Threads : WF_vars(CallStep(t))

Spec == Init /\ [][Next]_vars /\ Fairness

-----------------------------------------------------------------------------
(* Properties                                                              *)

(* In the packs P, chunk h lies at offset o of pack p.                     *)
Names(P, p, o, h) == p \in DOMAIN P /\ o + 1 \in DOMAIN P[p] /\ P[p][o + 1] = h

(* The chunks that a reader of the whole text s finds a parseable line for. *)
Listed(s) == {s[i].h : i \in CompleteLines(s, 0)}

(* Every line of packs/index, complete or not, and every entry of a        *)
(* handle's pack_index records the place where that very chunk lies: the   *)
(* write guard makes seek-to-end and write one step among all handles      *)
(* ("the index would record an offset resolving to someone else's bytes"). *)
OffsetSound ==
    /\ \A i \in DOMAIN file["index"] :
          LET line == file["index"][i] IN line # Nl => Names(packs, line.p, line.o, line.h)
    /\ \A hd \in Handles, h \in Hashes :
          LET loc == mem[hd]["index"][h] IN loc # None => Names(packs, loc.p, loc.o, h)

(* A handle never packs a chunk for which it has already answered          *)
(* (h, true): the pack_state mutex is held from the second look-up until   *)
(* the entry is in the map.                                                *)
PackedOncePerHandle ==
    \A t \in Threads : pc[t] \in {"seek", "write"} => job[t].h \notin mine[HandleOf[t]]

(* A pack outgrows PACK_ROTATE_SIZE by at most one chunk per handle other  *)
(* than the one that fills it, whatever sizes the handles believe in, and  *)
(* by the remains of failed writes.                                        *)
PackBound ==
    \A p \in DOMAIN packs :
        Len(packs[p]) <= Rotate + (Cardinality(Handles) - 1) + used["crashes"] + used["errors"]

(* A chunk for which put answered (h, true) keeps a complete line in       *)
(* packs/index, or in the text that a trim is writing back, so that every  *)
(* later open finds it.                                                    *)
AckedDurable ==
    \A h \in acked :
        \/ h \in Listed(file["index"])
        \/ \E hd \in Handles : phase[hd] = "fill" /\ on[hd] = "index" /\ h \in Listed(kept[hd])

(* has() answers true for every chunk that a sidecar lists: what was       *)
(* packed is found by the refresh before has() concludes "really absent",  *)
(* however cursors, loads, appends and reopens follow each other.  (A call *)
(* between its append and its insert is still running.)                    *)
Settled(hd, h) ==
    phase[hd] = "open" /\ \A t \in ThreadsOf(hd) : pc[t] = "insert" => job[t].h # h
HasFindsListed ==
    \A hd \in Handles, h \in Hashes :
        Settled(hd, h) /\ (\E f \in Files : h \in Listed(file[f])) => HasAnswer(hd, h)

(* The chunks of the lines of s that were cut inside their last field and  *)
(* ran into the next line.                                                 *)
RanOn(s) ==
    {s[i].h : i \in {j \in DOMAIN s : j < Len(s) /\ s[j] # Nl /\ s[j + 1] # Nl /\ s[j].last}}

(* Content that has() (and so the dedup of put) says is there can be read  *)
(* back, as long as the referenced files are left alone: after crashes,    *)
(* torn appends and trims too, and for every chunk but those whose own     *)
(* reference a failed append ran into the next one.                        *)
HasImpliesGet ==
    \A hd \in Handles, h \in Hashes \ RanOn(file["refs"]) :
        phase[hd] = "open" /\ source[h] = "there" /\ HasAnswer(hd, h) => GetAnswer(hd, h) = "ok"

(* What the doc of has() says: "True if this exact content is already      *)
(* stored (packed, copied in under the old per-chunk-file layout, or       *)
(* referenced)", for every chunk.  A reference that a failed append cut    *)
(* inside its path and the next append ran into refutes it.                *)
HasMeansStored ==
    \A hd \in Handles, h \in Hashes :
        phase[hd] = "open" /\ source[h] = "there" /\ HasAnswer(hd, h) => GetAnswer(hd, h) = "ok"

(* Every put, add_reference and open that begins comes to an end: no cycle *)
(* of the mutex, the write guard and the appends blocks it.                *)
CallsReturn ==
    /\ \A t \in Threads : pc[t] # "idle" ~> pc[t] = "idle"
    /\ \A hd \in Handles : phase[hd] # "closed" ~> phase[hd] \in {"open", "closed"}
=============================================================================
