---------------------------- MODULE StoreProofs ----------------------------
(***************************************************************************)
(* Proofs about Store for every number of handles, threads and chunks and  *)
(* every bound: the soundness of its offsets, then what the chunk store    *)
(* promises beyond it (how far handles that do not know of each other      *)
(* overfill a pack, and what has and get answer while one handle at a time *)
(* uses the directory).                                                    *)
(***************************************************************************)
EXTENDS StoreRefinement, SequenceTheorems, FiniteSetTheorems, WellFoundedInduction, TLAPS

(* Max picks an element of a bounded non-empty set of numbers.             *)
LEMMA MaxIsMember ==
    ASSUME NEW S \in SUBSET Nat, NEW n \in Nat, S # {}, \A x \in S : x <= n
    PROVE  Max(S) \in S /\ \A x \in S : x <= Max(S)
<1> DEFINE T == {n - x : x \in S}
<1>1. T \subseteq Nat /\ T # {}
  <2>1. \A x \in S : x \in Nat /\ n - x \in Nat
    OBVIOUS
  <2> QED
    BY <2>1 DEF T
<1>2. PICK y \in T : \A z \in T : ~(<<z, y>> \in OpToRel(<, Nat))
  BY <1>1, WFMin, NatLessThanWellFounded
<1>3. PICK m \in S : y = n - m
  BY DEF T
<1>4. ASSUME NEW x \in S PROVE m >= x
  <2>1. n - x \in T /\ n - x \in Nat /\ y \in Nat
    BY <1>1 DEF T
  <2>2. ~(n - x < y)
    BY <1>2, <2>1 DEF OpToRel
  <2> QED
    BY <2>1, <2>2, <1>3
<1>5. Max(S) \in S /\ \A x \in S : Max(S) >= x
  BY <1>3, <1>4 DEF Max
<1> QED
  BY <1>5

-----------------------------------------------------------------------------
(* The inductive invariant.                                                *)

(* The thread is between the second look-up of put and its return.         *)
InPut(t) ==
    \/ pc[t] \in {"seek", "write", "advance"}
    \/ pc[t] \in {"append", "landing", "insert"} /\ job[t].f = "index"

(* A handle is open while a call on it runs, and then has a pack.          *)
CallsOpen == \A t \in Threads : pc[t] # "idle" => phase[HandleOf[t]] = "open"
HasPack == \A hd \in Handles : phase[hd] = "open" => cur[hd].id \in DOMAIN packs

(* Who holds the mutex, and who holds the write guard.                     *)
IndexJobs == \A t \in Threads : pc[t] \in {"lock", "seek", "write", "advance"} => job[t].f = "index"
MutexHeld == \A t \in Threads : InPut(t) => mutex[HandleOf[t]] = t
TrimGuarded == \A hd \in Handles : phase[hd] \in {"trim", "cut", "fill"} => guard = hd

(* The offset that the holder of the guard has read is still the end of    *)
(* the pack.                                                               *)
EndGuarded ==
    \A t \in Threads : pc[t] = "write" =>
        /\ guard = HandleOf[t]
        /\ job[t].p \in DOMAIN packs
        /\ job[t].o = Len(packs[job[t].p])

Locks == CallsOpen /\ HasPack /\ IndexJobs /\ MutexHeld /\ TrimGuarded /\ EndGuarded

LinesSound(P, s) == \A i \in DOMAIN s : s[i] # Nl => Names(P, s[i].p, s[i].o, s[i].h)
MemSound(P, m) == \A h \in Hashes : m[h] # None => Names(P, m[h].p, m[h].o, h)

(* OffsetSound, and what is on its way into packs/index and the maps.      *)
IndexSound == LinesSound(packs, file["index"])
MapsSound == \A hd \in Handles : MemSound(packs, mem[hd]["index"])
KeptSound ==
    \A hd \in Handles :
        phase[hd] \in {"cut", "fill"} /\ on[hd] = "index" => LinesSound(packs, kept[hd])
JobsSound ==
    \A t \in Threads :
        pc[t] \in {"append", "landing", "insert"} /\ job[t].f = "index" =>
            Names(packs, job[t].p, job[t].o, job[t].h)

Sound == IndexSound /\ MapsSound /\ KeptSound /\ JobsSound

IndInv == TypeOK /\ Locks /\ Sound

-----------------------------------------------------------------------------
(* Reading a sidecar.                                                      *)

LEMMA CompleteEndType ==
    ASSUME NEW s \in Seq(Cells), NEW from \in Nat
    PROVE  /\ CompleteEnd(s, from) \in Nat
           /\ CompleteEnd(s, from) <= Len(s) \/ CompleteEnd(s, from) = from
<1> DEFINE S == {from} \cup {i \in DOMAIN s : i > from /\ s[i] = Nl}
<1>1. S \in SUBSET Nat /\ S # {}
  OBVIOUS
<1>2. from + Len(s) \in Nat /\ \A x \in S : x <= from + Len(s)
  OBVIOUS
<1>3. Max(S) \in S
  <2> HIDE DEF S
  <2> QED BY <1>1, <1>2, MaxIsMember, Zenon
<1> QED
  BY <1>1, <1>3 DEF CompleteEnd

(* An entry of the map after an insert is an old one or that of a line.    *)
LEMMA InsertedFact ==
    ASSUME NEW s \in Seq(Cells), NEW m \in [Hashes -> Locs \cup {None}],
           NEW P \in SUBSET DOMAIN s, \A i \in P : s[i] # Nl
    PROVE  /\ Inserted(m, s, P) \in [Hashes -> Locs \cup {None}]
           /\ \A h \in Hashes :
                 \/ Inserted(m, s, P)[h] = m[h]
                 \/ \E i \in P : s[i].h = h /\ Inserted(m, s, P)[h] = LocAt(s, i)
<1> DEFINE at(h) == {i \in P : s[i].h = h}
<1>1. ASSUME NEW h \in Hashes, at(h) # {}
      PROVE  Max(at(h)) \in at(h)
  <2>1. at(h) \in SUBSET Nat /\ Len(s) \in Nat /\ \A x \in at(h) : x <= Len(s)
    OBVIOUS
  <2> QED
    <3> HIDE DEF at
    <3> QED BY <1>1, <2>1, MaxIsMember, Zenon
<1>2. \A i \in P : LocAt(s, i) \in Locs
  <2>1. \A i \in P : s[i] \in Lines
    BY DEF Cells
  <2> QED
    BY <2>1 DEF LocAt, Lines, Locs
<1>3. \A h \in Hashes :
         Inserted(m, s, P)[h] = IF at(h) = {} THEN m[h] ELSE LocAt(s, Max(at(h)))
  BY DEF Inserted
<1>4. \A h \in Hashes :
         \/ Inserted(m, s, P)[h] = m[h]
         \/ \E i \in P : s[i].h = h /\ Inserted(m, s, P)[h] = LocAt(s, i)
  <2> TAKE h \in Hashes
  <2>1. CASE at(h) = {}
    BY <2>1, <1>3
  <2>2. CASE at(h) # {}
    <3>1. Max(at(h)) \in P /\ s[Max(at(h))].h = h
      BY <1>1, <2>2
    <3>2. Inserted(m, s, P)[h] = LocAt(s, Max(at(h)))
      BY <1>3, <2>2
    <3> QED BY <3>1, <3>2
  <2> QED BY <2>1, <2>2
<1>5. Inserted(m, s, P) = [h \in Hashes |-> Inserted(m, s, P)[h]]
  BY DEF Inserted
<1>6. \A h \in Hashes : Inserted(m, s, P)[h] \in Locs \cup {None}
  <2> HIDE DEF at
  <2> QED BY <1>2, <1>4
<1> QED
  BY <1>4, <1>5, <1>6

LEMMA CompleteLinesFact ==
    ASSUME NEW s, NEW from
    PROVE  CompleteLines(s, from) \in SUBSET DOMAIN s /\ \A i \in CompleteLines(s, from) : s[i] # Nl
  BY DEF CompleteLines, StartsLine

(* What a reader takes for a line is whole, or a reference that ran on.    *)
LEMMA ReadableFact ==
    ASSUME NEW s \in Seq(Cells), NEW f \in Files, NEW from \in Nat, NEW to \in Nat,
           to <= Len(s) \/ to = from
    PROVE  /\ Readable(f, s, from, to) \in SUBSET DOMAIN s
           /\ \A i \in Readable(f, s, from, to) : s[i] # Nl
           /\ CompleteLines(s, from) \subseteq Readable(f, s, from, to)
           /\ f = "index" => Readable(f, s, from, to) = CompleteLines(s, from)
           /\ \A i \in Readable(f, s, from, to) :
                 LocAt(s, i).len = 1 \/ (f = "refs" /\ s[i].h \in RanOn(s))
<1>1. \A i \in CompleteLines(s, from) : i \in DOMAIN s /\ s[i] # Nl /\ LocAt(s, i).len = 1
  BY DEF CompleteLines, StartsLine, LocAt
<1>2. \A i \in RunsOn(s, from, to) : i \in DOMAIN s /\ s[i] # Nl /\ s[i].h \in RanOn(s)
  <2> TAKE i \in RunsOn(s, from, to)
  <2>1. i \in DOMAIN s /\ i > from /\ i < to /\ s[i] # Nl /\ s[i + 1] # Nl /\ s[i].last
    BY DEF RunsOn, StartsLine
  <2>2. i < Len(s)
    BY <2>1
  <2> QED BY <2>1, <2>2 DEF RanOn
<1> QED BY <1>1, <1>2 DEF Readable, Files

LEMMA RefreshFact ==
    ASSUME TypeOK, NEW hd \in Handles, NEW f \in Files
    PROVE  /\ RefreshedMem(hd, f) \in [Hashes -> Locs \cup {None}]
           /\ RefreshedPos(hd, f) \in Nat
           /\ LinesSound(packs, file[f]) /\ MemSound(packs, mem[hd][f]) => MemSound(packs, RefreshedMem(hd, f))
<1> DEFINE s == file[f]  P == Readable(f, s, pos[hd][f], RefreshedPos(hd, f))  new == RefreshedMem(hd, f)
<1>1. s \in Seq(Cells) /\ mem[hd][f] \in [Hashes -> Locs \cup {None}] /\ pos[hd][f] \in Nat
  BY DEF TypeOK
<1>a. RefreshedPos(hd, f) \in Nat /\ (RefreshedPos(hd, f) <= Len(s) \/ RefreshedPos(hd, f) = pos[hd][f])
  BY <1>1, CompleteEndType DEF RefreshedPos
<1>2. P \in SUBSET DOMAIN s /\ \A i \in P : s[i] # Nl
  BY <1>1, <1>a, ReadableFact
<1>3. /\ new \in [Hashes -> Locs \cup {None}]
      /\ \A h \in Hashes :
            \/ new[h] = mem[hd][f][h]
            \/ \E i \in P : s[i].h = h /\ new[h] = LocAt(s, i)
  <2> HIDE DEF s, P
  <2> QED BY <1>1, <1>2, InsertedFact DEF RefreshedMem, s, P
<1>4. RefreshedPos(hd, f) \in Nat
  BY <1>a
<1>5. ASSUME LinesSound(packs, s), MemSound(packs, mem[hd][f]), NEW h \in Hashes, new[h] # None
      PROVE  Names(packs, new[h].p, new[h].o, h)
  <2>1. CASE new[h] = mem[hd][f][h]
    BY <1>5, <2>1 DEF MemSound
  <2>2. ASSUME NEW i \in P, s[i].h = h, new[h] = LocAt(s, i)
        PROVE  Names(packs, new[h].p, new[h].o, h)
    <3>1. Names(packs, s[i].p, s[i].o, s[i].h)
      BY <1>2, <1>5 DEF LinesSound
    <3>2. new[h].p = s[i].p /\ new[h].o = s[i].o
      BY <2>2 DEF LocAt
    <3> QED BY <3>1, <3>2, <2>2
  <2> QED BY <1>3, <2>1, <2>2
<1> QED
  BY <1>3, <1>4, <1>5 DEF MemSound

LEMMA LoadFact ==
    ASSUME NEW f \in Files, NEW s \in Seq(Cells), NEW choice \in LoadChoices
    PROVE  /\ LoadedMem(f, s, choice) \in [Hashes -> Locs \cup {None}]
           /\ LinesSound(packs, s) => MemSound(packs, LoadedMem(f, s, choice))
<1> DEFINE none == [h \in Hashes |-> None]
           P == Readable(f, s, 0, Len(s))
           m == Inserted(none, s, P)
           last == IF choice = "skip" THEN {} ELSE LastLine(s)
           new == LoadedMem(f, s, choice)
           end(h) == \E i \in last : s[i].h = h
           loc == [LocAt(s, Len(s)) EXCEPT !.len = IF choice = "cut" THEN 0 ELSE 1]
<1>1. P \in SUBSET DOMAIN s /\ \A i \in P : s[i] # Nl
  BY ReadableFact
<1>2. /\ m \in [Hashes -> Locs \cup {None}]
      /\ \A h \in Hashes :
            \/ m[h] = None
            \/ \E i \in P : s[i].h = h /\ m[h] = LocAt(s, i)
  <2>1. none \in [Hashes -> Locs \cup {None}] /\ \A h \in Hashes : none[h] = None
    OBVIOUS
  <2> HIDE DEF none, P
  <2> QED BY <1>1, <2>1, InsertedFact
<1>3. ASSUME NEW h \in Hashes, end(h)
      PROVE  /\ Len(s) \in DOMAIN s /\ s[Len(s)] \in Lines /\ s[Len(s)].h = h
             /\ loc \in Locs /\ loc.p = s[Len(s)].p /\ loc.o = s[Len(s)].o
             /\ s[Len(s)] # Nl
  <2>1. s # <<>> /\ s[Len(s)] # Nl /\ s[Len(s)].h = h
    BY <1>3 DEF LastLine, StartsLine
  <2>2. Len(s) \in DOMAIN s /\ s[Len(s)] \in Lines
    BY <2>1 DEF Cells
  <2>3. loc = [p |-> s[Len(s)].p, o |-> s[Len(s)].o, len |-> IF choice = "cut" THEN 0 ELSE 1]
    BY DEF LocAt
  <2> QED BY <2>1, <2>2, <2>3 DEF Lines, Locs
<1>4. new = [h \in Hashes |-> IF end(h) THEN loc ELSE m[h]]
  BY DEF LoadedMem
<1>5. new \in [Hashes -> Locs \cup {None}]
  <2> HIDE DEF end, loc, m, new
  <2> QED BY <1>2, <1>3, <1>4
<1>6. ASSUME LinesSound(packs, s), NEW h \in Hashes, new[h] # None
      PROVE  Names(packs, new[h].p, new[h].o, h)
  <2>1. CASE end(h)
    <3>1. Names(packs, s[Len(s)].p, s[Len(s)].o, h)
      BY <1>3, <1>6, <2>1 DEF LinesSound
    <3>2. new[h] = loc
      BY <1>4, <2>1
    <3> HIDE DEF loc
    <3> QED BY <1>3, <2>1, <3>1, <3>2
  <2>2. CASE ~end(h)
    <3>1. new[h] = m[h]
      BY <1>4, <2>2
    <3>2. PICK i \in P : s[i].h = h /\ m[h] = LocAt(s, i)
      BY <1>2, <1>6, <3>1
    <3>3. Names(packs, s[i].p, s[i].o, s[i].h)
      BY <1>1, <1>6 DEF LinesSound
    <3> QED BY <3>1, <3>2, <3>3 DEF LocAt
  <2> QED BY <2>1, <2>2
<1> QED
  BY <1>5, <1>6 DEF MemSound

-----------------------------------------------------------------------------
(* Types.                                                                  *)

LEMMA NoJobType == NoJob \in [f : Files, h : Hashes, p : Nat, o : Nat]
  BY HashesAssumption DEF NoJob, Files

LEMMA EmptyMemType == EmptyMem \in [Files -> [Hashes -> Locs \cup {None}]]
  BY DEF EmptyMem

LEMMA RefreshType ==
    ASSUME TypeOK, NEW hd \in Handles, NEW F \in SUBSET Files, Refresh(hd, F)
    PROVE  /\ mem' \in [Handles -> [Files -> [Hashes -> Locs \cup {None}]]]
           /\ pos' \in [Handles -> [Files -> Nat]]
<1>1. \A f \in Files : RefreshedMem(hd, f) \in [Hashes -> Locs \cup {None}] /\ RefreshedPos(hd, f) \in Nat
  BY RefreshFact
<1> QED
  BY <1>1 DEF Refresh, TypeOK

LEMMA HasEffectType ==
    ASSUME TypeOK, NEW hd \in Handles, NEW h \in Hashes, HasEffect(hd, h)
    PROVE  /\ mem' \in [Handles -> [Files -> [Hashes -> Locs \cup {None}]]]
           /\ pos' \in [Handles -> [Files -> Nat]]
<1>1. {"index"} \in SUBSET Files
  BY DEF Files
<1> QED
  BY <1>1, RefreshType DEF HasEffect, TypeOK

LEMMA InitIndInv == Init => IndInv
<1> SUFFICES ASSUME Init PROVE IndInv
  OBVIOUS
<1>1. TypeOK
  BY NoJobType, EmptyMemType DEF Init, TypeOK, Files, Phases, Sources
<1>2. Locks
  BY HandleOfAssumption DEF Init, Locks, InPut, CallsOpen, HasPack, IndexJobs, MutexHeld, TrimGuarded, EndGuarded
<1>3. Sound
  BY DEF Init, Sound, IndexSound, MapsSound, KeptSound, JobsSound, LinesSound, MemSound, EmptyMem, Files
<1> QED
  BY <1>1, <1>2, <1>3 DEF IndInv

(* What a trim keeps, and what fs::write leaves over a file that grew.     *)
LEMMA KeptFact ==
    ASSUME NEW s \in Seq(Cells)
    PROVE  /\ SubSeq(s, 1, CompleteEnd(s, 0)) \in Seq(Cells)
           /\ LinesSound(packs, s) => LinesSound(packs, SubSeq(s, 1, CompleteEnd(s, 0)))
<1> DEFINE n == CompleteEnd(s, 0)  k == SubSeq(s, 1, n)
<1>1. n \in Nat /\ n <= Len(s) /\ Len(s) \in Nat
  BY CompleteEndType
<1> HIDE DEF n
<1>2. /\ k \in Seq(Cells) /\ DOMAIN k = 1 .. n
      /\ \A i \in 1 .. n : k[i] = s[i] /\ i \in DOMAIN s
  BY <1>1
<1>3. LinesSound(packs, s) => LinesSound(packs, k)
  <2> HIDE DEF k
  <2> QED BY <1>2 DEF LinesSound
<1> QED
  BY <1>2, <1>3 DEF n

LEMMA FillFact ==
    ASSUME NEW k \in Seq(Cells), NEW s \in Seq(Cells)
    PROVE  /\ k \o SubSeq(s, Len(k) + 1, Len(s)) \in Seq(Cells)
           /\ LinesSound(packs, k) /\ LinesSound(packs, s) => LinesSound(packs, k \o SubSeq(s, Len(k) + 1, Len(s)))
<1> DEFINE r == SubSeq(s, Len(k) + 1, Len(s))  w == k \o r
<1>1. /\ r \in Seq(Cells)
      /\ \A i \in DOMAIN r : Len(k) + i \in DOMAIN s /\ r[i] = s[Len(k) + i]
  OBVIOUS
<1> HIDE DEF r
<1>2. /\ w \in Seq(Cells)
      /\ \A i \in DOMAIN w : \/ i \in DOMAIN k /\ w[i] = k[i]
                             \/ i - Len(k) \in DOMAIN r /\ w[i] = r[i - Len(k)]
  BY <1>1
<1> HIDE DEF w
<1>3. \A i \in DOMAIN w : (\E j \in DOMAIN k : w[i] = k[j]) \/ (\E j \in DOMAIN s : w[i] = s[j])
  BY <1>1, <1>2
<1>4. LinesSound(packs, k) /\ LinesSound(packs, s) => LinesSound(packs, w)
  BY <1>3 DEF LinesSound
<1> QED
  BY <1>2, <1>4 DEF w, r

LEMMA ForgetType ==
    ASSUME TypeOK, NEW hd \in Handles, Forget(hd)
    PROVE  /\ phase' \in [Handles -> Phases] /\ on' \in [Handles -> Files]
           /\ kept' \in [Handles -> Seq(Cells)]
           /\ mem' \in [Handles -> [Files -> [Hashes -> Locs \cup {None}]]]
           /\ pos' \in [Handles -> [Files -> Nat]]
           /\ cur' \in [Handles -> [id : Nat, size : Nat]]
           /\ mine' \in [Handles -> SUBSET Hashes]
<1>1. phase' \in [Handles -> Phases] /\ on' \in [Handles -> Files]
  BY DEF Forget, TypeOK, Phases, Files
<1>2. kept' \in [Handles -> Seq(Cells)] /\ pos' \in [Handles -> [Files -> Nat]]
  BY DEF Forget, TypeOK
<1>3. mem' \in [Handles -> [Files -> [Hashes -> Locs \cup {None}]]]
  BY EmptyMemType DEF Forget, TypeOK
<1>4. cur' \in [Handles -> [id : Nat, size : Nat]] /\ mine' \in [Handles -> SUBSET Hashes]
  BY DEF Forget, TypeOK
<1> QED
  BY <1>1, <1>2, <1>3, <1>4

LEMMA TrimDoneType ==
    ASSUME TypeOK, NEW hd \in Handles, TrimDone(hd)
    PROVE  /\ phase' \in [Handles -> Phases] /\ on' \in [Handles -> Files]
           /\ guard' \in Handles \cup {None}
  BY DEF TypeOK, TrimDone, ReleaseGuard, Phases, Files

LEMMA GotoType ==
    ASSUME TypeOK, NEW t \in Threads, NEW step \in PutSteps \cup {"idle"}, Goto(t, step)
    PROVE  pc' \in [Threads -> PutSteps \cup {"idle"}]
  BY DEF TypeOK, Goto

LEMMA CountType ==
    ASSUME TypeOK, NEW b \in Bounded, used' = [used EXCEPT ![b] = @ + 1]
    PROVE  used' \in [Bounded -> Nat]
  BY DEF TypeOK

LEMMA ReturnType ==
    ASSUME TypeOK, NEW t \in Threads, Return(t)
    PROVE  /\ pc' \in [Threads -> PutSteps \cup {"idle"}]
           /\ job' \in [Threads -> [f : Files, h : Hashes, p : Nat, o : Nat]]
  BY GotoType, NoJobType DEF TypeOK, Return

LEMMA OpenTypes ==
    ASSUME TypeOK, Locks, NEW hd \in Handles, Open(hd) \/ Close(hd) \/ OpenStep(hd)
    PROVE  TypeOK'
<1> USE DEF TypeOK, disk, opening, memory, calls, ghosts
<1>1. CASE Open(hd)
  <2>1. used' \in [Bounded -> Nat]
    BY <1>1, CountType DEF Open, Bounded
  <2>2. phase' \in [Handles -> Phases] /\ on' \in [Handles -> Files]
    BY <1>1 DEF Open, Phases, Files
  <2> QED
    BY <1>1, <2>1, <2>2 DEF Open
<1>2. CASE Close(hd)
  BY <1>2, ForgetType DEF Close
<1>3. CASE TrimRead(hd)
  <2>1. SubSeq(file[on[hd]], 1, CompleteEnd(file[on[hd]], 0)) \in Seq(Cells)
    BY KeptFact
  <2>2. kept' \in [Handles -> Seq(Cells)]
    BY <1>3, <2>1 DEF TrimRead
  <2>3. phase' \in [Handles -> Phases] /\ on' \in [Handles -> Files] /\ guard' \in Handles \cup {None}
    BY <1>3, TrimDoneType DEF TrimRead, Phases
  <2> QED
    BY <1>3, <2>2, <2>3 DEF TrimRead
<1>4. CASE TrimCut(hd)
  <2>1. file' \in [Files -> Seq(Cells)] /\ phase' \in [Handles -> Phases]
    BY <1>4 DEF TrimCut, Phases
  <2> QED
    BY <1>4, <2>1 DEF TrimCut
<1>5. CASE TrimFill(hd)
  <2>1. file' \in [Files -> Seq(Cells)]
    BY <1>5, FillFact DEF TrimFill
  <2>2. kept' \in [Handles -> Seq(Cells)]
    BY <1>5 DEF TrimFill
  <2>3. phase' \in [Handles -> Phases] /\ on' \in [Handles -> Files] /\ guard' \in Handles \cup {None}
    BY <1>5, TrimDoneType DEF TrimFill
  <2> QED
    BY <1>5, <2>1, <2>2, <2>3 DEF TrimFill
<1>6. ASSUME NEW choice \in LoadChoices, Load(hd, choice)
      PROVE  TypeOK'
  <2>1. LoadedMem(on[hd], file[on[hd]], choice) \in [Hashes -> Locs \cup {None}]
    BY LoadFact
  <2>2. mem' \in [Handles -> [Files -> [Hashes -> Locs \cup {None}]]]
    BY <1>6, <2>1 DEF Load
  <2>3. pos' \in [Handles -> [Files -> Nat]]
    BY <1>6 DEF Load
  <2>4. phase' \in [Handles -> Phases] /\ on' \in [Handles -> Files]
    BY <1>6 DEF Load, Phases, Files
  <2> QED
    BY <1>6, <2>2, <2>3, <2>4 DEF Load
<1>7. CASE OpenPack(hd)
  <2>1. packs' \in Seq(Seq(Hashes \cup {Torn})) /\ Len(packs') \in DOMAIN packs'
    <3>1. CASE packs = <<>>
      <4>1. packs' = << <<>> >>
        BY <1>7, <3>1 DEF OpenPack
      <4>2. << <<>> >> \in Seq(Seq(Hashes \cup {Torn})) /\ Len(<< <<>> >>) = 1
        OBVIOUS
      <4> QED BY <4>1, <4>2
    <3>2. CASE packs # <<>>
      <4>1. packs' = packs
        BY <1>7, <3>2 DEF OpenPack
      <4> QED BY <3>2, <4>1
    <3> QED BY <3>1, <3>2
  <2>2. cur' \in [Handles -> [id : Nat, size : Nat]]
    <3>1. Len(packs') \in Nat /\ Len(packs'[Len(packs')]) \in Nat
      BY <2>1
    <3>2. cur' = [cur EXCEPT ![hd] = [id |-> Len(packs'), size |-> Len(packs'[Len(packs')])]]
      BY <1>7 DEF OpenPack
    <3> QED BY <3>1, <3>2
  <2>3. phase' \in [Handles -> Phases]
    BY <1>7 DEF OpenPack, Phases
  <2> QED
    BY <1>7, <2>1, <2>2, <2>3 DEF OpenPack
<1> QED
  BY <1>1, <1>2, <1>3, <1>4, <1>5, <1>6, <1>7 DEF OpenStep

LEMMA CallTypes ==
    ASSUME TypeOK, Locks, NEW t \in Threads, Call(t)
    PROVE  TypeOK'
<1> USE HandleOfAssumption DEF TypeOK, disk, opening, memory, calls, ghosts
<1>1. HandleOf[t] \in Handles /\ {"index"} \in SUBSET Files
  BY DEF Files
<1>2. ASSUME NEW h \in Hashes, Has(t, h)
      PROVE  TypeOK'
  BY <1>1, <1>2, HasEffectType DEF Has
<1>3. ASSUME NEW h \in Hashes, Get(t, h)
      PROVE  TypeOK'
  <2>1. mem' \in [Handles -> [Files -> [Hashes -> Locs \cup {None}]]] /\ pos' \in [Handles -> [Files -> Nat]]
    BY <1>1, <1>3, RefreshType DEF Get
  <2> QED BY <1>3, <2>1 DEF Get
<1>4. ASSUME NEW h \in Hashes, PutMiss(t, h)
      PROVE  TypeOK'
  <2>1. mem' \in [Handles -> [Files -> [Hashes -> Locs \cup {None}]]] /\ pos' \in [Handles -> [Files -> Nat]]
    BY <1>1, <1>4, HasEffectType DEF PutMiss
  <2>2. pc' \in [Threads -> PutSteps \cup {"idle"}] /\ used' \in [Bounded -> Nat]
    BY <1>4, GotoType, CountType DEF PutMiss, PutSteps, Bounded
  <2>3. [NoJob EXCEPT !.h = h] \in [f : Files, h : Hashes, p : Nat, o : Nat]
    BY NoJobType
  <2>4. job' \in [Threads -> [f : Files, h : Hashes, p : Nat, o : Nat]]
    BY <1>4, <2>3 DEF PutMiss
  <2> QED BY <1>4, <2>1, <2>2, <2>4 DEF PutMiss
<1>5. ASSUME NEW h \in Hashes, AddReference(t, h)
      PROVE  TypeOK'
  <2>1. mem' \in [Handles -> [Files -> [Hashes -> Locs \cup {None}]]] /\ pos' \in [Handles -> [Files -> Nat]]
    BY <1>1, <1>5, HasEffectType DEF AddReference
  <2>2. pc' \in [Threads -> PutSteps \cup {"idle"}] /\ used' \in [Bounded -> Nat]
    BY <1>5, GotoType, CountType DEF AddReference, PutSteps, Bounded
  <2>3. [NoJob EXCEPT !.f = "refs", !.h = h] \in [f : Files, h : Hashes, p : Nat, o : Nat]
    BY NoJobType DEF Files
  <2>4. job' \in [Threads -> [f : Files, h : Hashes, p : Nat, o : Nat]]
    BY <1>5, <2>3 DEF AddReference
  <2> QED BY <1>5, <2>1, <2>2, <2>4 DEF AddReference
<1>6. CASE ObjectCount(t)
  <2>1. mem' \in [Handles -> [Files -> [Hashes -> Locs \cup {None}]]] /\ pos' \in [Handles -> [Files -> Nat]]
    BY <1>1, <1>6, RefreshType DEF ObjectCount
  <2> QED BY <1>6, <2>1 DEF ObjectCount
<1> QED
  BY <1>2, <1>3, <1>4, <1>5, <1>6 DEF Call

(* One more cell at the end of one pack.                                   *)
LEMMA GrowPack ==
    ASSUME NEW S, NEW s \in Seq(Seq(S)), NEW p \in Nat, NEW e \in S
    PROVE  /\ [s EXCEPT ![p] = Append(@, e)] \in Seq(Seq(S))
           /\ DOMAIN [s EXCEPT ![p] = Append(@, e)] = DOMAIN s
           /\ \A q \in DOMAIN s :
                 [s EXCEPT ![p] = Append(@, e)][q] = IF q = p THEN Append(s[q], e) ELSE s[q]
<1>1. CASE p \in DOMAIN s
  <2>1. p \in 1 .. Len(s) /\ s[p] \in Seq(S)
    BY <1>1
  <2>2. Append(s[p], e) \in Seq(S)
    BY <2>1
  <2>3. /\ [s EXCEPT ![p] = Append(s[p], e)] \in Seq(Seq(S))
        /\ \A j \in 1 .. Len(s) :
              [s EXCEPT ![p] = Append(s[p], e)][j] = IF j = p THEN Append(s[p], e) ELSE s[j]
    BY <2>1, <2>2, ExceptSeq
  <2> QED BY <2>3
<1>2. CASE p \notin DOMAIN s
  <2>1. [s EXCEPT ![p] = Append(@, e)] = s
    BY <1>2
  <2> QED BY <1>2, <2>1
<1> QED
  BY <1>1, <1>2

LEMMA CallStepTypes ==
    ASSUME TypeOK, Locks, NEW t \in Threads, CallStep(t)
    PROVE  TypeOK'
<1> DEFINE hd == HandleOf[t]
<1>0. /\ hd \in Handles /\ Files \in SUBSET Files /\ job[t].f \in Files /\ "index" \in Files
      /\ job[t].h \in Hashes /\ job[t].p \in Nat /\ job[t].o \in Nat
      /\ packs \in Seq(Seq(Hashes \cup {Torn}))
      /\ cur[hd] \in [id : Nat, size : Nat] /\ pos[hd] \in [Files -> Nat]
      /\ file[job[t].f] \in Seq(Cells)
  BY HandleOfAssumption DEF TypeOK, Files
<1> HIDE DEF hd
<1>a. cur[hd].id + 1 \in Nat /\ SizeAfterWrite(t) \in Nat
  BY <1>0 DEF SizeAfterWrite
<1>b. [pos[hd] EXCEPT !["index"] = @ + 2] \in [Files -> Nat]
  BY <1>0
<1>c. [packs EXCEPT ![job[t].p] = Append(@, job[t].h)] \in Seq(Seq(Hashes \cup {Torn}))
  <2>1. job[t].h \in Hashes \cup {Torn}
    BY <1>0
  <2> QED BY <1>0, <2>1, GrowPack
<1>d. Append(file[job[t].f], Nl) \in Seq(Cells)
  <2>1. Nl \in Cells
    BY DEF Cells
  <2> QED BY <1>0, <2>1
<1> USE HandleOfAssumption DEF TypeOK, disk, opening, memory, calls, ghosts
<1>1. CASE PutLock(t)
  <2>1. mem' \in [Handles -> [Files -> [Hashes -> Locs \cup {None}]]] /\ pos' \in [Handles -> [Files -> Nat]]
    BY <1>0, <1>1, RefreshType DEF PutLock, hd
  <2>2. pc' \in [Threads -> PutSteps \cup {"idle"}]
    BY <1>1, GotoType DEF PutLock, PutSteps
  <2> QED BY <1>1, <2>1, <2>2 DEF PutLock
<1>2. CASE PutLateHit(t)
  <2>1. mem' \in [Handles -> [Files -> [Hashes -> Locs \cup {None}]]] /\ pos' \in [Handles -> [Files -> Nat]]
    BY <1>0, <1>2, RefreshType DEF PutLateHit, hd
  <2> QED BY <1>2, <2>1, ReturnType DEF PutLateHit
<1>3. CASE PutRotate(t)
  <2>2. cur' \in [Handles -> [id : Nat, size : Nat]]
    BY <1>0, <1>3, <1>a DEF PutRotate, hd
  <2>3. packs' \in Seq(Seq(Hashes \cup {Torn}))
    BY <1>3 DEF PutRotate
  <2> QED BY <1>3, <2>2, <2>3 DEF PutRotate
<1>4. CASE PutSeek(t)
  <2>1. cur[hd].id \in DOMAIN packs
    BY <1>0, <1>4 DEF PutSeek, Locks, CallsOpen, HasPack, hd
  <2>2. PackEnd(hd) \in Nat /\ cur[hd].id \in Nat
    BY <1>0, <2>1 DEF PackEnd
  <2>3. job' \in [Threads -> [f : Files, h : Hashes, p : Nat, o : Nat]]
    <3>1. job[t] \in [f : Files, h : Hashes, p : Nat, o : Nat]
      OBVIOUS
    <3>2. [job[t] EXCEPT !.p = cur[hd].id, !.o = PackEnd(hd)] \in [f : Files, h : Hashes, p : Nat, o : Nat]
      BY <2>2, <3>1
    <3> QED BY <1>4, <3>2 DEF PutSeek, hd
  <2>4. pc' \in [Threads -> PutSteps \cup {"idle"}]
    BY <1>4, GotoType DEF PutSeek, PutSteps
  <2> QED BY <1>0, <1>4, <2>3, <2>4 DEF PutSeek, hd
<1>5. CASE PutWrite(t)
  <2>1. packs' \in Seq(Seq(Hashes \cup {Torn}))
    BY <1>5, <1>c DEF PutWrite
  <2>2. cur' \in [Handles -> [id : Nat, size : Nat]]
    <3>2. [cur[hd] EXCEPT !.size = SizeAfterWrite(t)] \in [id : Nat, size : Nat]
      BY <1>0, <1>a
    <3> QED BY <1>5, <3>2 DEF PutWrite, hd
  <2>3. pc' \in [Threads -> PutSteps \cup {"idle"}]
    BY <1>5, GotoType DEF PutWrite, PutSteps
  <2> QED BY <1>5, <2>1, <2>2, <2>3 DEF PutWrite, ReleaseGuard
<1>6. CASE AppendFields(t)
  <2> PICK last \in BOOLEAN : file' = [file EXCEPT ![job[t].f] = Append(@, LineOf(t, last))]
    BY <1>6 DEF AppendFields
  <2>1. LineOf(t, last) \in Cells
    BY <1>0 DEF Cells, Lines, LineOf
  <2>2. file' \in [Files -> Seq(Cells)] /\ appender' \in [Files -> Threads \cup {None}]
    <3>1. Append(file[job[t].f], LineOf(t, last)) \in Seq(Cells)
      BY <1>0, <2>1
    <3> QED BY <1>6, <3>1 DEF AppendFields
  <2>3. pc' \in [Threads -> PutSteps \cup {"idle"}]
    BY <1>6, GotoType DEF AppendFields, PutSteps
  <2> QED BY <1>6, <2>2, <2>3 DEF AppendFields
<1>7. CASE AppendNewline(t)
  <2>1. file' \in [Files -> Seq(Cells)] /\ appender' \in [Files -> Threads \cup {None}]
    BY <1>7, <1>d DEF AppendNewline
  <2>2. pc' \in [Threads -> PutSteps \cup {"idle"}]
    BY <1>7, GotoType DEF AppendNewline, PutSteps
  <2> QED BY <1>7, <2>1, <2>2 DEF AppendNewline
<1>8. NewLoc(t) \in Locs
  BY <1>0 DEF NewLoc, Locs
<1>9. CASE PutInsert(t)
  <2>1. mem' \in [Handles -> [Files -> [Hashes -> Locs \cup {None}]]]
    <3>1. mem[hd] \in [Files -> [Hashes -> Locs \cup {None}]] /\ "index" \in Files
      BY <1>0 DEF Files
    <3>2. [mem[hd]["index"] EXCEPT ![job[t].h] = NewLoc(t)] \in [Hashes -> Locs \cup {None}]
      BY <1>0, <1>8, <3>1
    <3>3. [mem[hd] EXCEPT !["index"] = [@ EXCEPT ![job[t].h] = NewLoc(t)]] \in [Files -> [Hashes -> Locs \cup {None}]]
      BY <3>1, <3>2
    <3>4. mem' = [mem EXCEPT ![hd] = [mem[hd] EXCEPT !["index"] = [@ EXCEPT ![job[t].h] = NewLoc(t)]]]
      BY <1>9 DEF PutInsert, hd
    <3> QED BY <1>0, <3>3, <3>4
  <2>2. pc' \in [Threads -> PutSteps \cup {"idle"}]
    BY <1>9, GotoType DEF PutInsert, PutSteps
  <2> QED BY <1>9, <2>1, <2>2 DEF PutInsert
<1>10. CASE ReferenceInsert(t)
  <2>1. mem' \in [Handles -> [Files -> [Hashes -> Locs \cup {None}]]]
    <3>1. mem[hd] \in [Files -> [Hashes -> Locs \cup {None}]] /\ "refs" \in Files
      BY <1>0 DEF Files
    <3>2. [mem[hd]["refs"] EXCEPT ![job[t].h] = NewLoc(t)] \in [Hashes -> Locs \cup {None}]
      BY <1>0, <1>8, <3>1
    <3>3. [mem[hd] EXCEPT !["refs"] = [@ EXCEPT ![job[t].h] = NewLoc(t)]] \in [Files -> [Hashes -> Locs \cup {None}]]
      BY <3>1, <3>2
    <3>4. mem' = [mem EXCEPT ![hd] = [mem[hd] EXCEPT !["refs"] = [@ EXCEPT ![job[t].h] = NewLoc(t)]]]
      BY <1>10 DEF ReferenceInsert, hd
    <3> QED BY <1>0, <3>3, <3>4
  <2> QED BY <1>10, <2>1, ReturnType DEF ReferenceInsert
<1>11. CASE PutAdvance(t)
  <2>1. pos' \in [Handles -> [Files -> Nat]]
    <3>3. pos' = [pos EXCEPT ![hd] = [pos[hd] EXCEPT !["index"] = @ + 2]]
      BY <1>11 DEF PutAdvance, hd
    <3> QED BY <1>0, <1>b, <3>3
  <2>2. mutex' \in [Handles -> Threads \cup {None}]
    BY <1>11 DEF PutAdvance
  <2>3. mine' \in [Handles -> SUBSET Hashes] /\ acked' \in SUBSET Hashes
    BY <1>0, <1>11 DEF PutAdvance
  <2> QED BY <1>11, <2>1, <2>2, <2>3, ReturnType DEF PutAdvance
<1> QED
  BY <1>1, <1>2, <1>3, <1>4, <1>5, <1>6, <1>7, <1>9, <1>10, <1>11 DEF CallStep

LEMMA TornPackType ==
    ASSUME TypeOK, NEW t \in Threads, NEW torn \in BOOLEAN, TornPack(t, torn)
    PROVE  packs' \in Seq(Seq(Hashes \cup {Torn}))
<1>1. job[t].p \in Nat /\ Torn \in Hashes \cup {Torn}
  BY DEF TypeOK
<1> QED
  BY <1>1, GrowPack DEF TypeOK, TornPack

LEMMA FaultTypes ==
    ASSUME TypeOK, Fault
    PROVE  TypeOK'
<1> USE HandleOfAssumption DEF TypeOK, disk, opening, memory, calls, ghosts
<1>1. ASSUME NEW t \in Threads, NEW torn \in BOOLEAN, PutWriteFails(t, torn)
      PROVE  TypeOK'
  <2>1. used' \in [Bounded -> Nat]
    BY <1>1, CountType DEF PutWriteFails, Bounded
  <2>2. packs' \in Seq(Seq(Hashes \cup {Torn}))
    BY <1>1, TornPackType DEF PutWriteFails
  <2> QED BY <1>1, <2>1, <2>2, ReturnType DEF PutWriteFails, ReleaseGuard
<1>2. ASSUME NEW t \in Threads, AppendFails(t)
      PROVE  TypeOK'
  <2>1. used' \in [Bounded -> Nat]
    BY <1>2, CountType DEF AppendFails, Bounded
  <2>2. appender' \in [Files -> Threads \cup {None}] /\ mutex' \in [Handles -> Threads \cup {None}]
    BY <1>2 DEF AppendFails
  <2> QED BY <1>2, <2>1, <2>2, ReturnType DEF AppendFails
<1>3. ASSUME NEW hd \in Handles, NEW torn \in BOOLEAN, Crash(hd, torn)
      PROVE  TypeOK'
  <2>1. used' \in [Bounded -> Nat]
    BY <1>3, CountType DEF Crash, Bounded
  <2>2. packs' \in Seq(Seq(Hashes \cup {Torn}))
    BY <1>3, TornPackType DEF Crash, ThreadsOf
  <2>3. /\ appender' \in [Files -> Threads \cup {None}]
        /\ mutex' \in [Handles -> Threads \cup {None}]
        /\ guard' \in Handles \cup {None}
    BY <1>3 DEF Crash
  <2>4. pc' \in [Threads -> PutSteps \cup {"idle"}]
    BY <1>3 DEF Crash
  <2>5. job' \in [Threads -> [f : Files, h : Hashes, p : Nat, o : Nat]]
    BY <1>3, NoJobType DEF Crash
  <2>6. Forget(hd) /\ UNCHANGED <<file, source, acked>>
    BY <1>3 DEF Crash
  <2> QED BY <2>1, <2>2, <2>3, <2>4, <2>5, <2>6, ForgetType
<1>4. ASSUME NEW h \in Hashes, NEW s \in Sources \ {"there"}, EditSource(h, s)
      PROVE  TypeOK'
  <2>1. used' \in [Bounded -> Nat]
    BY <1>4, CountType DEF EditSource, Bounded
  <2> QED BY <1>4, <2>1 DEF EditSource
<1> QED
  BY <1>1, <1>2, <1>3, <1>4 DEF Fault

-----------------------------------------------------------------------------
(* Locks: the mutex, the write guard and the offset under the guard.       *)

LEMMA OpenLocks ==
    ASSUME TypeOK, Locks, NEW hd \in Handles, Open(hd) \/ Close(hd) \/ OpenStep(hd)
    PROVE  Locks'
<1>0. /\ HandleOf \in [Threads -> Handles] /\ None \notin Handles
      /\ phase \in [Handles -> Phases] /\ on \in [Handles -> Files]
      /\ packs \in Seq(Seq(Hashes \cup {Torn})) /\ cur \in [Handles -> [id : Nat, size : Nat]]
  BY HandleOfAssumption, NoneAssumption DEF TypeOK
<1> USE <1>0 DEF Locks, disk, opening, memory, calls, ghosts
<1>1. CASE Open(hd)
  BY <1>1 DEF Open, GuardFree, CallsOpen, HasPack, IndexJobs, MutexHeld, InPut, TrimGuarded, EndGuarded
<1>2. CASE Close(hd)
  BY <1>2 DEF Close, Forget, ThreadsOf, CallsOpen, HasPack, IndexJobs, MutexHeld, InPut, TrimGuarded, EndGuarded
<1>3. ASSUME TrimDone(hd), phase[hd] \in {"trim", "fill"}, UNCHANGED <<packs, cur, pc, job, mutex>>
      PROVE  Locks'
  <2>1. guard = hd /\ \A t \in Threads : pc[t] # "write"
    BY <1>3 DEF TrimGuarded, EndGuarded, CallsOpen
  <2>2. CallsOpen' /\ HasPack' /\ IndexJobs' /\ MutexHeld'
    BY <1>3 DEF TrimDone, CallsOpen, HasPack, IndexJobs, MutexHeld, InPut
  <2>3. TrimGuarded'
    BY <1>3, <2>1 DEF TrimDone, TrimGuarded, ReleaseGuard
  <2>4. EndGuarded'
    BY <1>3, <2>1 DEF EndGuarded
  <2> QED BY <2>2, <2>3, <2>4
<1>4. CASE TrimRead(hd)
  <2>1. CASE TornTail(file[on[hd]])
    BY <1>4, <2>1 DEF TrimRead, CallsOpen, HasPack, IndexJobs, MutexHeld, InPut, TrimGuarded, EndGuarded
  <2>2. CASE ~TornTail(file[on[hd]])
    BY <1>3, <1>4, <2>2 DEF TrimRead
  <2> QED BY <2>1, <2>2
<1>5. CASE TrimCut(hd)
  BY <1>5 DEF TrimCut, CallsOpen, HasPack, IndexJobs, MutexHeld, InPut, TrimGuarded, EndGuarded
<1>6. CASE TrimFill(hd)
  BY <1>3, <1>6 DEF TrimFill
<1>7. ASSUME NEW choice \in LoadChoices, Load(hd, choice)
      PROVE  Locks'
  BY <1>7 DEF Load, CallsOpen, HasPack, IndexJobs, MutexHeld, InPut, TrimGuarded, EndGuarded
<1>8. CASE OpenPack(hd)
  <2>1. packs = <<>> => packs' = << <<>> >> /\ cur'[hd].id = 1
    BY <1>8 DEF OpenPack
  <2>2. packs # <<>> => packs' = packs /\ cur'[hd].id = Len(packs)
    BY <1>8 DEF OpenPack
  <2>3. DOMAIN packs \subseteq DOMAIN packs' /\ cur'[hd].id \in DOMAIN packs'
    <3>1. CASE packs = <<>>
      BY <2>1, <3>1
    <3>2. CASE packs # <<>>
      <4>1. Len(packs) \in DOMAIN packs
        BY <3>2
      <4> QED BY <2>2, <3>2, <4>1
    <3> QED BY <3>1, <3>2
  <2>4. HasPack'
    BY <1>8, <2>3 DEF OpenPack, HasPack
  <2>5. EndGuarded'
    BY <1>8, <2>2 DEF OpenPack, EndGuarded
  <2>6. CallsOpen' /\ IndexJobs' /\ MutexHeld' /\ TrimGuarded'
    BY <1>8 DEF OpenPack, CallsOpen, IndexJobs, MutexHeld, InPut, TrimGuarded
  <2> QED BY <2>4, <2>5, <2>6
<1> QED
  BY <1>1, <1>2, <1>4, <1>5, <1>6, <1>7, <1>8 DEF OpenStep

LEMMA CallLocks ==
    ASSUME TypeOK, Locks, NEW t \in Threads, Call(t)
    PROVE  Locks'
<1>0. HandleOf \in [Threads -> Handles] /\ pc \in [Threads -> PutSteps \cup {"idle"}] /\ DOMAIN job = Threads
  BY HandleOfAssumption DEF TypeOK
<1> USE <1>0 DEF Locks, disk, opening, memory, calls, ghosts,
             CallsOpen, HasPack, IndexJobs, MutexHeld, InPut, TrimGuarded, EndGuarded
<1>1. ASSUME NEW h \in Hashes, Has(t, h)
      PROVE  Locks'
  BY <1>1 DEF Has
<1>2. ASSUME NEW h \in Hashes, Get(t, h)
      PROVE  Locks'
  BY <1>2 DEF Get
<1>3. ASSUME NEW h \in Hashes, PutMiss(t, h)
      PROVE  Locks'
  BY <1>3 DEF PutMiss, Goto, NoJob
<1>4. ASSUME NEW h \in Hashes, AddReference(t, h)
      PROVE  Locks'
  BY <1>4 DEF AddReference, Goto, NoJob
<1>5. CASE ObjectCount(t)
  BY <1>5 DEF ObjectCount
<1> QED
  BY <1>1, <1>2, <1>3, <1>4, <1>5 DEF Call

LEMMA CallStepLocks ==
    ASSUME TypeOK, Locks, NEW t \in Threads, CallStep(t)
    PROVE  Locks'
<1> DEFINE hd == HandleOf[t]
<1>0. /\ HandleOf \in [Threads -> Handles] /\ pc \in [Threads -> PutSteps \cup {"idle"}]
      /\ DOMAIN job = Threads /\ None \notin Handles \cup Threads /\ mutex \in [Handles -> Threads \cup {None}]
      /\ hd \in Handles
  BY HandleOfAssumption, NoneAssumption DEF TypeOK
<1> USE <1>0 DEF Locks, disk, opening, memory, calls, ghosts
<1>1. CASE PutLock(t)
  <2>1. CallsOpen' /\ HasPack' /\ IndexJobs' /\ TrimGuarded' /\ EndGuarded'
    BY <1>1 DEF PutLock, Goto, CallsOpen, HasPack, IndexJobs, TrimGuarded, EndGuarded
  <2>2. MutexHeld'
    BY <1>1 DEF PutLock, Goto, MutexFree, MutexHeld, InPut
  <2> QED BY <2>1, <2>2
<1>2. CASE PutLateHit(t)
  BY <1>2 DEF PutLateHit, Return, Goto, CallsOpen, HasPack, IndexJobs, MutexHeld, InPut, TrimGuarded, EndGuarded
<1>3. CASE PutRotate(t)
  <2>1. packs \in Seq(Seq(Hashes \cup {Torn})) /\ cur \in [Handles -> [id : Nat, size : Nat]]
    BY DEF TypeOK
  <2>2. /\ DOMAIN packs \subseteq DOMAIN packs'
        /\ \A p \in DOMAIN packs : packs'[p] = packs[p]
    BY <1>3, <2>1 DEF PutRotate
  <2>3. HasPack'
    <3>1. cur[hd].id \in DOMAIN packs
      BY <1>3 DEF PutRotate, HasPack, CallsOpen
    <3>2. cur[hd].id + 1 \in DOMAIN packs'
      BY <1>3, <2>1, <3>1 DEF PutRotate
    <3>3. cur' = [cur EXCEPT ![hd] = [id |-> cur[hd].id + 1, size |-> 0]] /\ phase' = phase
      BY <1>3 DEF PutRotate
    <3> QED BY <2>1, <2>2, <3>2, <3>3 DEF HasPack
  <2>4. EndGuarded'
    BY <1>3, <2>2 DEF PutRotate, EndGuarded
  <2>5. CallsOpen' /\ IndexJobs' /\ MutexHeld' /\ TrimGuarded'
    BY <1>3 DEF PutRotate, CallsOpen, IndexJobs, MutexHeld, InPut, TrimGuarded
  <2> QED BY <2>3, <2>4, <2>5
<1>4. CASE PutSeek(t)
  <2>1. CallsOpen' /\ HasPack'
    BY <1>4 DEF PutSeek, Goto, CallsOpen, HasPack
  <2>2. job'[t].f = job[t].f /\ job'[t].p = cur[hd].id /\ job'[t].o = PackEnd(hd)
    <3>1. job[t] \in [f : Files, h : Hashes, p : Nat, o : Nat]
      BY DEF TypeOK
    <3>2. job'[t] = [job[t] EXCEPT !.p = cur[hd].id, !.o = PackEnd(hd)]
      BY <1>4 DEF PutSeek
    <3> QED BY <3>1, <3>2
  <2>3. \A u \in Threads \ {t} : job'[u] = job[u] /\ pc'[u] = pc[u]
    BY <1>4 DEF PutSeek, Goto
  <2>4. IndexJobs' /\ MutexHeld'
    BY <1>4, <2>2, <2>3 DEF PutSeek, Goto, IndexJobs, MutexHeld, InPut
  <2>5. TrimGuarded'
    BY <1>4 DEF PutSeek, GuardFree, TrimGuarded
  <2>6. EndGuarded'
    <3>1. cur[hd].id \in DOMAIN packs
      BY <1>4 DEF PutSeek, CallsOpen, HasPack
    <3> QED BY <1>4, <2>2, <2>3, <3>1 DEF PutSeek, GuardFree, PackEnd, EndGuarded
  <2> QED BY <2>1, <2>4, <2>5, <2>6
<1>5. CASE PutWrite(t)
  <2>1. \A u \in Threads \ {t} : pc'[u] = pc[u] /\ pc[u] # "write"
    <3>1. ASSUME NEW u \in Threads, pc[u] = "write"
          PROVE  u = t
      <4>1. HandleOf[u] = hd
        BY <1>5, <3>1 DEF PutWrite, EndGuarded
      <4> QED BY <1>5, <3>1, <4>1 DEF PutWrite, MutexHeld, InPut
    <3> QED BY <1>5, <3>1 DEF PutWrite, Goto
  <2>2. pc'[t] = "append" /\ job' = job /\ phase' = phase /\ mutex' = mutex
    BY <1>5 DEF PutWrite, Goto
  <2>3. EndGuarded'
    BY <2>1, <2>2 DEF EndGuarded
  <2>4. CallsOpen' /\ IndexJobs' /\ MutexHeld'
    BY <1>5, <2>1, <2>2 DEF PutWrite, CallsOpen, IndexJobs, MutexHeld, InPut
  <2>5. TrimGuarded'
    <3>1. guard = hd /\ phase[hd] = "open"
      BY <1>5 DEF PutWrite, EndGuarded, CallsOpen
    <3> QED BY <2>2, <3>1 DEF TrimGuarded
  <2>6. HasPack'
    <3>1. DOMAIN packs' = DOMAIN packs
      BY <1>5 DEF PutWrite
    <3>2. \A g \in Handles : cur'[g].id = cur[g].id
      <4>1. cur \in [Handles -> [id : Nat, size : Nat]]
        BY DEF TypeOK
      <4> QED BY <1>5, <4>1 DEF PutWrite
    <3> QED BY <2>2, <3>1, <3>2 DEF HasPack
  <2> QED BY <2>3, <2>4, <2>5, <2>6
<1>6. ASSUME packs' = packs /\ phase' = phase /\ guard' = guard /\ cur' = cur /\ mutex' = mutex /\ job' = job,
             \/ Goto(t, "landing") /\ pc[t] = "append"
             \/ Goto(t, "insert") /\ pc[t] = "landing"
             \/ Goto(t, "advance") /\ pc[t] = "insert" /\ job[t].f = "index"
      PROVE  Locks'
  <2>1. CallsOpen' /\ HasPack' /\ IndexJobs' /\ TrimGuarded' /\ EndGuarded'
    BY <1>6 DEF Goto, CallsOpen, HasPack, IndexJobs, TrimGuarded, EndGuarded
  <2>2. MutexHeld'
    BY <1>6 DEF Goto, MutexHeld, InPut
  <2> QED BY <2>1, <2>2
<1>7. CASE AppendFields(t)
  <2>1. packs' = packs /\ phase' = phase /\ guard' = guard /\ cur' = cur /\ mutex' = mutex /\ job' = job
        /\ Goto(t, "landing") /\ pc[t] = "append"
    BY <1>7 DEF AppendFields
  <2> QED BY <1>6, <2>1
<1>8. CASE AppendNewline(t)
  <2>1. packs' = packs /\ phase' = phase /\ guard' = guard /\ cur' = cur /\ mutex' = mutex /\ job' = job
        /\ Goto(t, "insert") /\ pc[t] = "landing"
    BY <1>8 DEF AppendNewline
  <2> QED BY <1>6, <2>1
<1>9. CASE PutInsert(t)
  BY <1>6, <1>9 DEF PutInsert
<1>10. CASE ReferenceInsert(t)
  BY <1>10 DEF ReferenceInsert, Return, Goto, CallsOpen, HasPack, IndexJobs, MutexHeld, InPut, TrimGuarded, EndGuarded
<1>11. CASE PutAdvance(t)
  <2>1. CallsOpen' /\ HasPack' /\ IndexJobs' /\ TrimGuarded' /\ EndGuarded'
    BY <1>11 DEF PutAdvance, Return, Goto, CallsOpen, HasPack, IndexJobs, TrimGuarded, EndGuarded
  <2>2. mutex[hd] = t
    BY <1>11 DEF PutAdvance, MutexHeld, InPut
  <2>3. MutexHeld'
    BY <1>11, <2>2 DEF PutAdvance, Return, Goto, MutexHeld, InPut
  <2> QED BY <2>1, <2>3
<1> QED
  BY <1>1, <1>2, <1>3, <1>4, <1>5, <1>7, <1>8, <1>9, <1>10, <1>11 DEF CallStep

(* At most one thread is between seek and write.                           *)
LEMMA OneWriter ==
    ASSUME TypeOK, Locks, NEW t \in Threads, NEW u \in Threads, pc[t] = "write", pc[u] = "write"
    PROVE  t = u
<1>1. HandleOf[t] = HandleOf[u]
  BY DEF Locks, EndGuarded
<1> QED
  BY <1>1 DEF Locks, MutexHeld, InPut

LEMMA FaultLocks ==
    ASSUME TypeOK, Locks, Fault
    PROVE  Locks'
<1>0. /\ HandleOf \in [Threads -> Handles] /\ pc \in [Threads -> PutSteps \cup {"idle"}]
      /\ DOMAIN job = Threads /\ None \notin Handles \cup Threads /\ mutex \in [Handles -> Threads \cup {None}]
      /\ phase \in [Handles -> Phases]
  BY HandleOfAssumption, NoneAssumption DEF TypeOK
<1> USE <1>0 DEF Locks, disk, opening, memory, calls, ghosts
<1>1. ASSUME NEW t \in Threads, NEW torn \in BOOLEAN, PutWriteFails(t, torn)
      PROVE  Locks'
  <2>1. DOMAIN packs' = DOMAIN packs
    BY <1>1 DEF PutWriteFails, TornPack
  <2>2. \A u \in Threads : pc'[u] # "write"
    BY <1>1, OneWriter DEF PutWriteFails, Return, Goto
  <2>3. mutex[HandleOf[t]] = t /\ guard = HandleOf[t] /\ phase[HandleOf[t]] = "open"
    BY <1>1 DEF PutWriteFails, MutexHeld, InPut, EndGuarded, CallsOpen
  <2>4. CallsOpen' /\ HasPack' /\ IndexJobs'
    BY <1>1, <2>1 DEF PutWriteFails, Return, Goto, CallsOpen, HasPack, IndexJobs
  <2>5. MutexHeld'
    BY <1>1, <2>3 DEF PutWriteFails, Return, Goto, MutexHeld, InPut
  <2>6. TrimGuarded'
    BY <1>1, <2>3 DEF PutWriteFails, TrimGuarded
  <2>7. EndGuarded'
    BY <2>2 DEF EndGuarded
  <2> QED BY <2>4, <2>5, <2>6, <2>7
<1>2. ASSUME NEW t \in Threads, AppendFails(t)
      PROVE  Locks'
  <2>1. CallsOpen' /\ HasPack' /\ IndexJobs' /\ TrimGuarded' /\ EndGuarded'
    BY <1>2 DEF AppendFails, Return, Goto, CallsOpen, HasPack, IndexJobs, TrimGuarded, EndGuarded
  <2>2. job[t].f = "index" => mutex[HandleOf[t]] = t
    BY <1>2 DEF AppendFails, MutexHeld, InPut
  <2>3. MutexHeld'
    BY <1>2, <2>2 DEF AppendFails, Return, Goto, MutexHeld, InPut
  <2> QED BY <2>1, <2>3
<1>3. ASSUME NEW hd \in Handles, NEW torn \in BOOLEAN, Crash(hd, torn)
      PROVE  Locks'
  <2>1. /\ \A t \in Threads : HandleOf[t] = hd => pc'[t] = "idle"
        /\ \A t \in Threads : HandleOf[t] # hd => pc'[t] = pc[t] /\ job'[t] = job[t]
        /\ \A g \in Handles : g # hd => phase'[g] = phase[g] /\ cur'[g] = cur[g] /\ mutex'[g] = mutex[g]
        /\ phase'[hd] = "closed"
        /\ guard # hd => guard' = guard
    <3>1. cur \in [Handles -> [id : Nat, size : Nat]]
      BY DEF TypeOK
    <3> QED BY <1>3, <3>1 DEF Crash, Forget
  <2>2. DOMAIN packs' = DOMAIN packs
    BY <1>3 DEF Crash, TornPack
  <2>3. CallsOpen' /\ HasPack' /\ IndexJobs'
    BY <2>1, <2>2 DEF CallsOpen, HasPack, IndexJobs
  <2>4. MutexHeld'
    BY <2>1 DEF MutexHeld, InPut
  <2>5. TrimGuarded'
    BY <2>1 DEF TrimGuarded
  <2>6. EndGuarded'
    <3> SUFFICES ASSUME NEW u \in Threads, pc'[u] = "write"
                 PROVE  /\ guard' = HandleOf[u]
                        /\ job'[u].p \in DOMAIN packs'
                        /\ job'[u].o = Len(packs'[job'[u].p])
      BY DEF EndGuarded
    <3>1. HandleOf[u] # hd /\ pc[u] = "write" /\ guard = HandleOf[u]
      BY <2>1 DEF EndGuarded
    <3>2. packs' = packs
      <4>1. \A t \in ThreadsOf(hd) : pc[t] # "write"
        BY <3>1, OneWriter DEF ThreadsOf
      <4> QED BY <1>3, <4>1 DEF Crash
    <3> QED BY <2>1, <3>1, <3>2 DEF EndGuarded
  <2> QED BY <2>3, <2>4, <2>5, <2>6
<1>4. ASSUME NEW h \in Hashes, NEW s \in Sources \ {"there"}, EditSource(h, s)
      PROVE  Locks'
  BY <1>4 DEF EditSource, CallsOpen, HasPack, IndexJobs, MutexHeld, InPut, TrimGuarded, EndGuarded
<1> QED
  BY <1>1, <1>2, <1>3, <1>4 DEF Fault

-----------------------------------------------------------------------------
(* Sound: packs only grow, and every new line or entry names its chunk.    *)

Grows(P, Q) ==
    /\ DOMAIN P \subseteq DOMAIN Q
    /\ \A p \in DOMAIN P :
          DOMAIN P[p] \subseteq DOMAIN Q[p] /\ \A i \in DOMAIN P[p] : Q[p][i] = P[p][i]

LEMMA GrowsKeeps ==
    ASSUME NEW P, NEW Q, Grows(P, Q)
    PROVE  /\ \A p, o, h : Names(P, p, o, h) => Names(Q, p, o, h)
           /\ \A s : LinesSound(P, s) => LinesSound(Q, s)
           /\ \A m : MemSound(P, m) => MemSound(Q, m)
<1>1. \A p, o, h : Names(P, p, o, h) => Names(Q, p, o, h)
  BY DEF Grows, Names
<1> QED
  BY <1>1 DEF LinesSound, MemSound

LEMMA AppendGrows ==
    ASSUME TypeOK, NEW p \in Nat, NEW e \in Hashes \cup {Torn},
           packs' = [packs EXCEPT ![p] = Append(@, e)]
    PROVE  Grows(packs, packs')
<1>1. packs \in Seq(Seq(Hashes \cup {Torn}))
  BY DEF TypeOK
<1>2. /\ DOMAIN packs' = DOMAIN packs
      /\ \A q \in DOMAIN packs : packs'[q] = IF q = p THEN Append(packs[q], e) ELSE packs[q]
  BY <1>1, GrowPack
<1>3. \A q \in DOMAIN packs : packs[q] \in Seq(Hashes \cup {Torn})
  BY <1>1
<1>4. ASSUME NEW q \in DOMAIN packs
      PROVE  DOMAIN packs[q] \subseteq DOMAIN packs'[q] /\ \A i \in DOMAIN packs[q] : packs'[q][i] = packs[q][i]
  <2>1. CASE q = p
    <3>1. packs'[q] = Append(packs[q], e) /\ packs[q] \in Seq(Hashes \cup {Torn})
      BY <1>2, <1>3, <2>1
    <3> QED BY <3>1
  <2>2. CASE q # p
    BY <1>2, <2>2
  <2> QED BY <2>1, <2>2
<1> QED
  BY <1>2, <1>4 DEF Grows

LEMMA SameGrows == packs' = packs => Grows(packs, packs')
  BY DEF Grows

LEMMA NextGrows ==
    ASSUME TypeOK, Next
    PROVE  Grows(packs, packs')
<1> USE SameGrows DEF disk
<1>1. ASSUME NEW hd \in Handles, Open(hd) \/ Close(hd) \/ OpenStep(hd)
      PROVE  Grows(packs, packs')
  <2>1. CASE OpenPack(hd)
    <3>1. packs \in Seq(Seq(Hashes \cup {Torn}))
      BY DEF TypeOK
    <3> QED BY <2>1, <3>1 DEF OpenPack, Grows
  <2>2. CASE Open(hd) \/ Close(hd)
    BY <2>2 DEF Open, Close
  <2>3. CASE TrimRead(hd) \/ TrimCut(hd) \/ TrimFill(hd)
    BY <2>3 DEF TrimRead, TrimCut, TrimFill
  <2>4. CASE \E choice \in LoadChoices : Load(hd, choice)
    BY <2>4 DEF Load
  <2> QED BY <1>1, <2>1, <2>2, <2>3, <2>4 DEF OpenStep
<1>2. ASSUME NEW t \in Threads, Call(t)
      PROVE  Grows(packs, packs')
  BY <1>2 DEF Call, Has, Get, ObjectCount, PutMiss, AddReference
<1>3. ASSUME NEW t \in Threads, CallStep(t)
      PROVE  Grows(packs, packs')
  <2>1. CASE PutRotate(t)
    <3>1. packs \in Seq(Seq(Hashes \cup {Torn}))
      BY DEF TypeOK
    <3> QED BY <2>1, <3>1 DEF PutRotate, Grows
  <2>2. CASE PutWrite(t)
    <3>1. job[t].p \in Nat /\ job[t].h \in Hashes \cup {Torn}
      BY DEF TypeOK
    <3> QED BY <2>2, <3>1, AppendGrows DEF PutWrite
  <2>3. CASE PutLock(t) \/ PutLateHit(t) \/ PutSeek(t)
    BY <2>3 DEF PutLock, PutLateHit, PutSeek
  <2>4. CASE AppendFields(t) \/ AppendNewline(t)
    BY <2>4 DEF AppendFields, AppendNewline
  <2>5. CASE PutInsert(t) \/ ReferenceInsert(t) \/ PutAdvance(t)
    BY <2>5 DEF PutInsert, ReferenceInsert, PutAdvance
  <2> QED BY <1>3, <2>1, <2>2, <2>3, <2>4, <2>5 DEF CallStep
<1>4. CASE Fault
  <2>1. ASSUME NEW t \in Threads, NEW torn \in BOOLEAN, TornPack(t, torn)
        PROVE  Grows(packs, packs')
    <3>1. job[t].p \in Nat /\ Torn \in Hashes \cup {Torn}
      BY DEF TypeOK
    <3> QED BY <2>1, <3>1, AppendGrows DEF TornPack
  <2>2. ASSUME NEW t \in Threads, NEW torn \in BOOLEAN, PutWriteFails(t, torn)
        PROVE  Grows(packs, packs')
    BY <2>1, <2>2 DEF PutWriteFails
  <2>3. ASSUME NEW hd \in Handles, NEW torn \in BOOLEAN, Crash(hd, torn)
        PROVE  Grows(packs, packs')
    BY <2>1, <2>3 DEF Crash, ThreadsOf
  <2>4. ASSUME NEW t \in Threads, AppendFails(t)
        PROVE  Grows(packs, packs')
    BY <2>4 DEF AppendFails
  <2>5. ASSUME NEW h \in Hashes, NEW s \in Sources \ {"there"}, EditSource(h, s)
        PROVE  Grows(packs, packs')
    BY <2>5 DEF EditSource
  <2> QED BY <1>4, <2>2, <2>3, <2>4, <2>5 DEF Fault
<1> QED
  BY <1>1, <1>2, <1>3, <1>4 DEF Next

LEMMA RefreshSound ==
    ASSUME TypeOK, Sound, NEW hd \in Handles, NEW F \in SUBSET Files, Refresh(hd, F), Grows(packs, packs')
    PROVE  MapsSound'
<1>1. /\ "index" \in Files
      /\ mem \in [Handles -> [Files -> [Hashes -> Locs \cup {None}]]]
  BY DEF TypeOK, Files
<1>2. MemSound(packs, RefreshedMem(hd, "index"))
  BY <1>1, RefreshFact DEF Sound, IndexSound, MapsSound
<1>3. ASSUME NEW g \in Handles
      PROVE  MemSound(packs, mem'[g]["index"])
  <2>1. mem'[g]["index"] \in {mem[g]["index"], RefreshedMem(hd, "index")}
    BY <1>1 DEF Refresh
  <2> QED BY <1>2, <2>1 DEF Sound, MapsSound
<1> QED
  BY <1>3, GrowsKeeps DEF MapsSound

LEMMA OpenSound ==
    ASSUME IndInv, NEW hd \in Handles, Open(hd) \/ Close(hd) \/ OpenStep(hd), Grows(packs, packs')
    PROVE  Sound'
<1>0. /\ file \in [Files -> Seq(Cells)] /\ kept \in [Handles -> Seq(Cells)] /\ "index" \in Files
      /\ mem \in [Handles -> [Files -> [Hashes -> Locs \cup {None}]]]
      /\ on \in [Handles -> Files] /\ phase \in [Handles -> Phases]
  BY DEF IndInv, TypeOK, Files
<1>a. /\ \A p, o, h : Names(packs, p, o, h) => Names(packs', p, o, h)
      /\ \A s : LinesSound(packs, s) => LinesSound(packs', s)
      /\ \A m : MemSound(packs, m) => MemSound(packs', m)
  BY GrowsKeeps
<1> USE <1>0, <1>a DEF disk, opening, memory, calls, ghosts
<1>b. pc' = pc /\ job' = job => JobsSound'
  BY DEF IndInv, Sound, JobsSound
<1>c. file'["index"] = file["index"] => IndexSound'
  BY DEF IndInv, Sound, IndexSound
<1>d. mem' = mem => MapsSound'
  BY DEF IndInv, Sound, MapsSound
<1>e. ASSUME kept'[hd] = kept[hd] \/ phase'[hd] \notin {"cut", "fill"} \/ on'[hd] # "index",
             \A g \in Handles : g # hd => kept'[g] = kept[g] /\ phase'[g] = phase[g] /\ on'[g] = on[g],
             phase'[hd] \in {"cut", "fill"} => phase[hd] \in {"cut", "fill"},
             phase'[hd] \in {"cut", "fill"} => on'[hd] = on[hd]
      PROVE  KeptSound'
  BY <1>e DEF IndInv, Sound, KeptSound
<1>1. CASE Open(hd)
  <2>1. KeptSound'
    BY <1>1, <1>e DEF Open
  <2> QED BY <1>1, <1>b, <1>c, <1>d, <2>1 DEF Open, Sound
<1>2. CASE Close(hd)
  <2>1. KeptSound'
    BY <1>2, <1>e DEF Close, Forget
  <2>2. MapsSound'
    BY <1>2 DEF Close, Forget, EmptyMem, IndInv, Sound, MapsSound, MemSound
  <2> QED BY <1>2, <1>b, <1>c, <2>1, <2>2 DEF Close, Sound
<1>3. CASE TrimRead(hd)
  <2>1. CASE TornTail(file[on[hd]])
    <3> DEFINE k == SubSeq(file[on[hd]], 1, CompleteEnd(file[on[hd]], 0))
    <3>1. on[hd] = "index" => LinesSound(packs, k)
      BY KeptFact DEF IndInv, Sound, IndexSound
    <3>2. kept' = [kept EXCEPT ![hd] = k] /\ on' = on /\ phase' = [phase EXCEPT ![hd] = "cut"]
      BY <1>3, <2>1 DEF TrimRead
    <3> HIDE DEF k
    <3>3. KeptSound'
      BY <3>1, <3>2 DEF IndInv, Sound, KeptSound
    <3> QED BY <1>3, <1>b, <1>c, <1>d, <3>3 DEF TrimRead, Sound
  <2>2. CASE ~TornTail(file[on[hd]])
    <3>1. KeptSound'
      BY <1>3, <2>2, <1>e DEF TrimRead, TrimDone
    <3> QED BY <1>3, <2>2, <1>b, <1>c, <1>d, <3>1 DEF TrimRead, Sound
  <2> QED BY <2>1, <2>2
<1>4. CASE TrimCut(hd)
  <2>1. KeptSound'
    BY <1>4, <1>e DEF TrimCut
  <2>2. IndexSound'
    BY <1>4, <1>c DEF TrimCut, IndexSound, LinesSound
  <2> QED BY <1>4, <1>b, <1>d, <2>1, <2>2 DEF TrimCut, Sound
<1>5. CASE TrimFill(hd)
  <2>1. KeptSound'
    BY <1>5, <1>e DEF TrimFill, TrimDone
  <2>2. IndexSound'
    <3>1. CASE on[hd] = "index"
      <4> DEFINE w == kept[hd] \o SubSeq(file["index"], Len(kept[hd]) + 1, Len(file["index"]))
      <4>1. LinesSound(packs, w)
        BY <1>5, <3>1, FillFact DEF TrimFill, IndInv, Sound, IndexSound, KeptSound
      <4>2. file'["index"] = w
        BY <1>5, <3>1 DEF TrimFill
      <4> HIDE DEF w
      <4> QED BY <4>1, <4>2 DEF IndexSound
    <3>2. CASE on[hd] # "index"
      BY <1>5, <3>2, <1>c DEF TrimFill
    <3> QED BY <3>1, <3>2
  <2> QED BY <1>5, <1>b, <1>d, <2>1, <2>2 DEF TrimFill, Sound
<1>6. ASSUME NEW choice \in LoadChoices, Load(hd, choice)
      PROVE  Sound'
  <2>1. KeptSound'
    BY <1>6, <1>e DEF Load
  <2>2. MapsSound'
    <3>1. MemSound(packs, LoadedMem("index", file["index"], choice))
      BY LoadFact DEF IndInv, Sound, IndexSound
    <3>2. ASSUME NEW g \in Handles
          PROVE  mem'[g]["index"] \in {mem[g]["index"], LoadedMem("index", file["index"], choice)}
      <4>1. CASE g = hd /\ on[hd] = "index"
        BY <1>6, <4>1 DEF Load
      <4>2. CASE g # hd \/ on[hd] # "index"
        BY <1>6, <4>2 DEF Load
      <4> QED BY <4>1, <4>2
    <3> QED BY <3>1, <3>2 DEF IndInv, Sound, MapsSound
  <2> QED BY <1>6, <1>b, <1>c, <2>1, <2>2 DEF Load, Sound
<1>7. CASE OpenPack(hd)
  <2>1. KeptSound'
    BY <1>7, <1>e DEF OpenPack
  <2> QED BY <1>7, <1>b, <1>c, <1>d, <2>1 DEF OpenPack, Sound
<1> QED
  BY <1>1, <1>2, <1>3, <1>4, <1>5, <1>6, <1>7 DEF OpenStep

LEMMA CallSound ==
    ASSUME IndInv, NEW t \in Threads, Call(t), Grows(packs, packs')
    PROVE  Sound'
<1>0. /\ HandleOf[t] \in Handles /\ {"index"} \in SUBSET Files /\ TypeOK /\ Sound
      /\ pc \in [Threads -> PutSteps \cup {"idle"}] /\ DOMAIN job = Threads
  BY HandleOfAssumption DEF IndInv, TypeOK, Files
<1>a. /\ \A p, o, h : Names(packs, p, o, h) => Names(packs', p, o, h)
      /\ \A s : LinesSound(packs, s) => LinesSound(packs', s)
      /\ \A m : MemSound(packs, m) => MemSound(packs', m)
  BY GrowsKeeps
<1> USE <1>0, <1>a DEF disk, opening, memory, calls, ghosts
<1>b. pc' = pc /\ job' = job => JobsSound'
  BY DEF Sound, JobsSound
<1>c. file' = file /\ kept' = kept /\ on' = on /\ phase' = phase => IndexSound' /\ KeptSound'
  BY DEF Sound, IndexSound, KeptSound
<1>d. mem' = mem => MapsSound'
  BY DEF Sound, MapsSound
<1>e. ASSUME NEW h \in Hashes, HasEffect(HandleOf[t], h)
      PROVE  MapsSound'
  BY <1>e, <1>d, RefreshSound DEF HasEffect
<1>1. ASSUME NEW h \in Hashes, Has(t, h)
      PROVE  Sound'
  BY <1>1, <1>b, <1>c, <1>e DEF Has, Sound
<1>2. ASSUME NEW h \in Hashes, Get(t, h)
      PROVE  Sound'
  <2>1. MapsSound'
    BY <1>2, <1>d, RefreshSound DEF Get
  <2> QED BY <1>2, <1>b, <1>c, <2>1 DEF Get, Sound
<1>3. ASSUME NEW h \in Hashes, PutMiss(t, h)
      PROVE  Sound'
  <2>1. JobsSound'
    BY <1>3 DEF PutMiss, Goto, Sound, JobsSound
  <2> QED BY <1>3, <1>c, <1>e, <2>1 DEF PutMiss, Sound
<1>4. ASSUME NEW h \in Hashes, AddReference(t, h)
      PROVE  Sound'
  <2>1. job'[t].f = "refs"
    BY <1>4 DEF AddReference, NoJob
  <2>2. JobsSound'
    BY <1>4, <2>1 DEF AddReference, Goto, Sound, JobsSound
  <2> QED BY <1>4, <1>c, <1>e, <2>2 DEF AddReference, Sound
<1>5. CASE ObjectCount(t)
  <2>1. MapsSound'
    BY <1>5, RefreshSound DEF ObjectCount
  <2> QED BY <1>5, <1>b, <1>c, <2>1 DEF ObjectCount, Sound
<1> QED
  BY <1>1, <1>2, <1>3, <1>4, <1>5 DEF Call

LEMMA CallStepSound ==
    ASSUME IndInv, NEW t \in Threads, CallStep(t), Grows(packs, packs')
    PROVE  Sound'
<1> DEFINE hd == HandleOf[t]
<1>0. /\ hd \in Handles /\ Files \in SUBSET Files /\ "index" \in Files /\ "refs" \in Files
      /\ TypeOK /\ Sound /\ Locks
      /\ pc \in [Threads -> PutSteps \cup {"idle"}]
      /\ job \in [Threads -> [f : Files, h : Hashes, p : Nat, o : Nat]]
      /\ file \in [Files -> Seq(Cells)]
      /\ mem \in [Handles -> [Files -> [Hashes -> Locs \cup {None}]]]
  BY HandleOfAssumption DEF IndInv, TypeOK, Files
<1>a. /\ \A p, o, h : Names(packs, p, o, h) => Names(packs', p, o, h)
      /\ \A s : LinesSound(packs, s) => LinesSound(packs', s)
      /\ \A m : MemSound(packs, m) => MemSound(packs', m)
  BY GrowsKeeps
<1> USE <1>0, <1>a DEF disk, opening, memory, calls, ghosts
<1>b. kept' = kept /\ on' = on /\ phase' = phase => KeptSound'
  BY DEF Sound, KeptSound
<1>c. file' = file => IndexSound'
  BY DEF Sound, IndexSound
<1>d. mem' = mem => MapsSound'
  BY DEF Sound, MapsSound
<1>1. CASE PutLock(t)
  <2>1. MapsSound'
    BY <1>1, RefreshSound DEF PutLock
  <2>2. JobsSound'
    BY <1>1 DEF PutLock, Goto, Sound, JobsSound
  <2> QED BY <1>1, <1>b, <1>c, <2>1, <2>2 DEF PutLock, Sound
<1>2. CASE PutLateHit(t)
  <2>1. MapsSound'
    BY <1>2, RefreshSound DEF PutLateHit
  <2>2. JobsSound'
    BY <1>2 DEF PutLateHit, Return, Goto, Sound, JobsSound
  <2> QED BY <1>2, <1>b, <1>c, <2>1, <2>2 DEF PutLateHit, Sound
<1>3. CASE PutRotate(t)
  <2>1. JobsSound'
    BY <1>3 DEF PutRotate, Sound, JobsSound
  <2> QED BY <1>3, <1>b, <1>c, <1>d, <2>1 DEF PutRotate, Sound
<1>4. CASE PutSeek(t)
  <2>1. JobsSound'
    BY <1>4 DEF PutSeek, Goto, Sound, JobsSound
  <2> QED BY <1>4, <1>b, <1>c, <1>d, <2>1 DEF PutSeek, Sound
<1>5. CASE PutWrite(t)
  <2>1. Names(packs', job[t].p, job[t].o, job[t].h)
    <3> DEFINE p == job[t].p  o == job[t].o  h == job[t].h
    <3>1. packs \in Seq(Seq(Hashes \cup {Torn})) /\ p \in DOMAIN packs /\ o = Len(packs[p]) /\ h \in Hashes
      BY <1>5 DEF TypeOK, PutWrite, Locks, EndGuarded
    <3>2. packs' = [packs EXCEPT ![p] = Append(@, h)]
      BY <1>5 DEF PutWrite
    <3>3. packs[p] \in Seq(Hashes \cup {Torn}) /\ p \in DOMAIN packs' /\ packs'[p] = Append(packs[p], h)
      BY <3>1, <3>2
    <3> HIDE DEF p, o, h
    <3>4. o + 1 \in DOMAIN packs'[p] /\ packs'[p][o + 1] = h
      BY <3>1, <3>3
    <3> QED BY <3>3, <3>4 DEF Names, p, o, h
  <2>2. JobsSound'
    BY <1>5, <2>1 DEF PutWrite, Goto, Sound, JobsSound
  <2> QED BY <1>5, <1>b, <1>c, <1>d, <2>2 DEF PutWrite, Sound
<1>6. CASE AppendFields(t)
  <2>1. JobsSound'
    BY <1>6 DEF AppendFields, Goto, Sound, JobsSound
  <2>2. IndexSound'
    <3> DEFINE s == file["index"]  line == LineOf(t, TRUE)
    <3>1. CASE job[t].f = "index"
      <4>1. Names(packs, line.p, line.o, line.h)
        BY <1>6, <3>1 DEF AppendFields, Sound, JobsSound, LineOf
      <4>2. file'["index"] = Append(s, line)
        BY <1>6, <3>1 DEF AppendFields
      <4>3. LinesSound(packs, s) /\ s \in Seq(Cells)
        BY DEF Sound, IndexSound
      <4> HIDE DEF s, line
      <4>4. \A i \in DOMAIN Append(s, line) :
               Append(s, line)[i] = line \/ (i \in DOMAIN s /\ Append(s, line)[i] = s[i])
        BY <4>3
      <4>5. LinesSound(packs, Append(s, line))
        BY <4>1, <4>3, <4>4 DEF LinesSound
      <4> QED BY <4>2, <4>5 DEF IndexSound
    <3>2. CASE job[t].f # "index"
      <4>1. file'["index"] = file["index"]
        BY <1>6, <3>2 DEF AppendFields
      <4> QED BY <4>1 DEF Sound, IndexSound
    <3> QED BY <3>1, <3>2
  <2> QED BY <1>6, <1>b, <1>d, <2>1, <2>2 DEF AppendFields, Sound
<1>7. CASE AppendNewline(t)
  <2>1. JobsSound'
    BY <1>7 DEF AppendNewline, Goto, Sound, JobsSound
  <2>2. IndexSound'
    <3> DEFINE s == file["index"]
    <3>1. file'["index"] = Append(s, Nl) \/ file'["index"] = s
      BY <1>7 DEF AppendNewline
    <3>2. LinesSound(packs, s) /\ s \in Seq(Cells)
      BY DEF Sound, IndexSound
    <3> HIDE DEF s
    <3>3. \A i \in DOMAIN Append(s, Nl) :
             Append(s, Nl)[i] = Nl \/ (i \in DOMAIN s /\ Append(s, Nl)[i] = s[i])
      BY <3>2
    <3>4. LinesSound(packs, Append(s, Nl))
      BY <3>2, <3>3 DEF LinesSound
    <3> QED BY <3>1, <3>2, <3>4 DEF IndexSound
  <2> QED BY <1>7, <1>b, <1>d, <2>1, <2>2 DEF AppendNewline, Sound
<1>8. CASE PutInsert(t)
  <2>1. JobsSound'
    BY <1>8 DEF PutInsert, Goto, Sound, JobsSound
  <2>2. MapsSound'
    <3> DEFINE m == mem[hd]["index"]  n == [m EXCEPT ![job[t].h] = NewLoc(t)]
    <3>1. Names(packs, job[t].p, job[t].o, job[t].h)
      BY <1>8 DEF PutInsert, Sound, JobsSound
    <3>2. NewLoc(t).p = job[t].p /\ NewLoc(t).o = job[t].o
      BY DEF NewLoc
    <3>3. MemSound(packs, m) /\ m \in [Hashes -> Locs \cup {None}]
      BY DEF Sound, MapsSound
    <3>4. \A h \in Hashes : n[h] = IF h = job[t].h THEN NewLoc(t) ELSE m[h]
      BY <3>3
    <3>5. MemSound(packs, n)
      <4> HIDE DEF n, m
      <4> QED BY <3>1, <3>2, <3>3, <3>4 DEF MemSound
    <3>6. \A g \in Handles : mem'[g]["index"] = IF g = hd THEN n ELSE mem[g]["index"]
      BY <1>8 DEF PutInsert
    <3> HIDE DEF n, m
    <3> QED BY <3>5, <3>6 DEF Sound, MapsSound
  <2> QED BY <1>8, <1>b, <1>c, <2>1, <2>2 DEF PutInsert, Sound
<1>9. CASE ReferenceInsert(t)
  <2>1. JobsSound'
    BY <1>9 DEF ReferenceInsert, Return, Goto, Sound, JobsSound
  <2>2. \A g \in Handles : mem'[g]["index"] = mem[g]["index"]
    BY <1>9 DEF ReferenceInsert
  <2>3. MapsSound'
    BY <2>2 DEF Sound, MapsSound
  <2> QED BY <1>9, <1>b, <1>c, <2>1, <2>3 DEF ReferenceInsert, Sound
<1>10. CASE PutAdvance(t)
  <2>1. JobsSound'
    BY <1>10 DEF PutAdvance, Return, Goto, Sound, JobsSound
  <2> QED BY <1>10, <1>b, <1>c, <1>d, <2>1 DEF PutAdvance, Sound
<1> QED
  BY <1>1, <1>2, <1>3, <1>4, <1>5, <1>6, <1>7, <1>8, <1>9, <1>10 DEF CallStep

LEMMA FaultSound ==
    ASSUME IndInv, Fault, Grows(packs, packs')
    PROVE  Sound'
<1>0. /\ Sound /\ pc \in [Threads -> PutSteps \cup {"idle"}] /\ DOMAIN job = Threads
      /\ mem \in [Handles -> [Files -> [Hashes -> Locs \cup {None}]]] /\ "index" \in Files
      /\ phase \in [Handles -> Phases] /\ on \in [Handles -> Files] /\ kept \in [Handles -> Seq(Cells)]
  BY DEF IndInv, TypeOK, Files
<1>a. /\ \A p, o, h : Names(packs, p, o, h) => Names(packs', p, o, h)
      /\ \A s : LinesSound(packs, s) => LinesSound(packs', s)
      /\ \A m : MemSound(packs, m) => MemSound(packs', m)
  BY GrowsKeeps
<1> USE <1>0, <1>a DEF disk, opening, memory, calls, ghosts
<1>b. file' = file /\ kept' = kept /\ on' = on /\ phase' = phase /\ mem' = mem =>
         IndexSound' /\ KeptSound' /\ MapsSound'
  BY DEF Sound, IndexSound, KeptSound, MapsSound
<1>1. ASSUME NEW t \in Threads, NEW torn \in BOOLEAN, PutWriteFails(t, torn)
      PROVE  Sound'
  <2>1. JobsSound'
    BY <1>1 DEF PutWriteFails, Return, Goto, Sound, JobsSound
  <2> QED BY <1>1, <1>b, <2>1 DEF PutWriteFails, Sound
<1>2. ASSUME NEW t \in Threads, AppendFails(t)
      PROVE  Sound'
  <2>1. JobsSound'
    BY <1>2 DEF AppendFails, Return, Goto, Sound, JobsSound
  <2> QED BY <1>2, <1>b, <2>1 DEF AppendFails, Sound
<1>3. ASSUME NEW hd \in Handles, NEW torn \in BOOLEAN, Crash(hd, torn)
      PROVE  Sound'
  <2>1. JobsSound'
    BY <1>3 DEF Crash, Sound, JobsSound
  <2>2. MapsSound'
    BY <1>3 DEF Crash, Forget, EmptyMem, Sound, MapsSound, MemSound
  <2>3. KeptSound'
    BY <1>3 DEF Crash, Forget, Sound, KeptSound
  <2>4. IndexSound'
    BY <1>3 DEF Crash, Sound, IndexSound
  <2> QED BY <2>1, <2>2, <2>3, <2>4 DEF Sound
<1>4. ASSUME NEW h \in Hashes, NEW s \in Sources \ {"there"}, EditSource(h, s)
      PROVE  Sound'
  <2>1. JobsSound'
    BY <1>4 DEF EditSource, Sound, JobsSound
  <2> QED BY <1>4, <1>b, <2>1 DEF EditSource, Sound
<1> QED
  BY <1>1, <1>2, <1>3, <1>4 DEF Fault

-----------------------------------------------------------------------------
(* The theorems.                                                           *)

LEMMA StepIndInv == IndInv /\ [Next]_vars => IndInv'
<1> SUFFICES ASSUME IndInv, [Next]_vars PROVE IndInv'
  OBVIOUS
<1>0. TypeOK /\ Locks /\ Sound
  BY DEF IndInv
<1>1. CASE Next
  <2>1. TypeOK'
    BY <1>0, <1>1, OpenTypes, CallTypes, CallStepTypes, FaultTypes DEF Next
  <2>2. Locks'
    BY <1>0, <1>1, OpenLocks, CallLocks, CallStepLocks, FaultLocks DEF Next
  <2>3. Grows(packs, packs')
    BY <1>0, <1>1, NextGrows
  <2>4. Sound'
    BY <1>1, <2>3, OpenSound, CallSound, CallStepSound, FaultSound DEF Next
  <2> QED BY <2>1, <2>2, <2>4 DEF IndInv
<1>2. CASE UNCHANGED vars
  BY <1>0, <1>2 DEF vars, IndInv, TypeOK, Locks, CallsOpen, HasPack, IndexJobs, MutexHeld, InPut,
     TrimGuarded, EndGuarded, Sound, IndexSound, MapsSound, KeptSound, JobsSound
<1> QED
  BY <1>1, <1>2

(* Every variable keeps its type through every interleaving of handles and *)
(* threads, every crash and every failed write.                            *)
THEOREM StoreTypes == Spec => []TypeOK
<1>1. IndInv => TypeOK
  BY DEF IndInv
<1> QED
  BY <1>1, InitIndInv, StepIndInv, PTL DEF Spec

(* No index line and no map entry ever names the place of another chunk,   *)
(* for any number of handles and threads and whatever fails.               *)
THEOREM StoreOffsets == Spec => []OffsetSound
<1>1. IndInv => OffsetSound
  BY DEF IndInv, Sound, IndexSound, MapsSound, LinesSound, MemSound, OffsetSound
<1> QED
  BY <1>1, InitIndInv, StepIndInv, PTL DEF Spec

(* At most one thread of one handle is between PackState::write's seek and *)
(* its write, and the offset it has read is the pack's end all the while.  *)
THEOREM StoreGuard ==
    Spec => [](\A t, u \in Threads :
                  pc[t] = "write" /\ pc[u] = "write" => t = u /\ job[t].o = Len(packs[job[t].p]))
<1>1. IndInv => \A t, u \in Threads :
                   pc[t] = "write" /\ pc[u] = "write" => t = u /\ job[t].o = Len(packs[job[t].p])
  BY OneWriter DEF IndInv, Locks, EndGuarded
<1> QED
  BY <1>1, InitIndInv, StepIndInv, PTL DEF Spec

-----------------------------------------------------------------------------
(* PackedOncePerHandle: a chunk that the handle has answered for is in its *)
(* map, and no map of an open handle loses an entry.                       *)

Held(hd, h) == mem[hd]["index"][h] # None

Once ==
    /\ \A hd \in Handles : phase[hd] # "open" => mine[hd] = {}
    /\ \A hd \in Handles : \A h \in mine[hd] : Held(hd, h)
    /\ \A t \in Threads : pc[t] = "advance" => Held(HandleOf[t], job[t].h)
    /\ PackedOncePerHandle

LEMMA RefreshKeeps ==
    ASSUME TypeOK, NEW hd \in Handles, NEW h \in Hashes, Held(hd, h)
    PROVE  RefreshedMem(hd, "index")[h] # None
<1> DEFINE s == file["index"]
           P == Readable("index", s, pos[hd]["index"], RefreshedPos(hd, "index"))
           m == mem[hd]["index"]
<1>1. s \in Seq(Cells) /\ m \in [Hashes -> Locs \cup {None}] /\ "index" \in Files /\ pos[hd]["index"] \in Nat
  BY SMTT(30) DEF TypeOK, Files
<1>a. RefreshedPos(hd, "index") \in Nat
      /\ (RefreshedPos(hd, "index") <= Len(s) \/ RefreshedPos(hd, "index") = pos[hd]["index"])
  BY <1>1, CompleteEndType DEF RefreshedPos
<1>b. RefreshedMem(hd, "index") = Inserted(m, s, P)
  BY DEF RefreshedMem
<1>2. P \in SUBSET DOMAIN s /\ \A i \in P : s[i] # Nl
  <2> HIDE DEF s, m
  <2> QED BY <1>1, <1>a, ReadableFact
<1>3. \/ RefreshedMem(hd, "index")[h] = m[h]
      \/ \E i \in P : RefreshedMem(hd, "index")[h] = LocAt(s, i)
  <2> HIDE DEF s, P, m
  <2> QED BY <1>1, <1>2, <1>b, InsertedFact
<1>4. \A i \in P : LocAt(s, i) # None
  <2>1. \A i \in P : s[i] \in Lines
    BY <1>1, <1>2 DEF Cells
  <2>2. \A i \in P : LocAt(s, i) \in [p : Nat, o : Nat, len : {0, 1}]
    BY <2>1 DEF LocAt, Lines
  <2> QED BY <2>2, NoneAssumption
<1> QED
  BY <1>3, <1>4 DEF Held

LEMMA RefreshHeld ==
    ASSUME TypeOK, NEW hd \in Handles, NEW F \in SUBSET Files, Refresh(hd, F)
    PROVE  \A g \in Handles, h \in Hashes : Held(g, h) => Held(g, h)'
<1>1. mem \in [Handles -> [Files -> [Hashes -> Locs \cup {None}]]] /\ "index" \in Files
  BY DEF TypeOK, Files
<1>2. \A g \in Handles : g # hd => mem'[g] = mem[g]
  BY <1>1 DEF Refresh
<1>3. mem'[hd]["index"] \in {mem[hd]["index"], RefreshedMem(hd, "index")}
  BY <1>1 DEF Refresh
<1> QED
  BY <1>2, <1>3, RefreshKeeps DEF Held

(* A step that keeps the entries of open handles and changes neither calls *)
(* nor mine keeps Once.                                                    *)
LEMMA OnceFrame ==
    ASSUME TypeOK, Once, pc' = pc, job' = job, mine' = mine,
           \A g \in Handles, h \in Hashes : phase[g] = "open" /\ Held(g, h) => Held(g, h)',
           \A g \in Handles : phase[g] = "open" => phase'[g] = "open",
           \A t \in Threads : pc[t] # "idle" => phase[HandleOf[t]] = "open"
    PROVE  Once'
<1>1. /\ \A t \in Threads : HandleOf[t] \in Handles /\ job[t].h \in Hashes
      /\ \A g \in Handles : mine[g] \subseteq Hashes
  BY HandleOfAssumption DEF TypeOK
<1> QED
  BY <1>1 DEF Once, PackedOncePerHandle

LEMMA OpenOnce ==
    ASSUME IndInv, Once, NEW hd \in Handles, Open(hd) \/ Close(hd) \/ OpenStep(hd)
    PROVE  Once'
<1>0. /\ TypeOK /\ phase \in [Handles -> Phases]
      /\ mem \in [Handles -> [Files -> [Hashes -> Locs \cup {None}]]]
      /\ \A t \in Threads : pc[t] # "idle" => phase[HandleOf[t]] = "open"
  BY DEF IndInv, TypeOK, Locks, CallsOpen
<1> USE <1>0 DEF disk, opening, memory, calls, ghosts
<1>1. CASE Open(hd)
  BY <1>1, OnceFrame DEF Open, Held
<1>2. CASE Close(hd)
  <2>1. \A t \in Threads : HandleOf[t] = hd => pc[t] = "idle"
    BY <1>2 DEF Close, ThreadsOf
  <2>2. /\ mine' = [mine EXCEPT ![hd] = {}] /\ mem' = [mem EXCEPT ![hd] = EmptyMem]
        /\ phase' = [phase EXCEPT ![hd] = "closed"] /\ pc' = pc /\ job' = job
    BY <1>2 DEF Close, Forget
  <2>3. mine \in [Handles -> SUBSET Hashes] /\ HandleOf \in [Threads -> Handles]
    BY HandleOfAssumption DEF TypeOK
  <2> QED BY <2>1, <2>2, <2>3 DEF Once, PackedOncePerHandle, Held
<1>3. CASE TrimRead(hd)
  BY <1>3, OnceFrame DEF TrimRead, TrimDone, Held
<1>4. CASE TrimCut(hd)
  BY <1>4, OnceFrame DEF TrimCut, Held
<1>5. CASE TrimFill(hd)
  BY <1>5, OnceFrame DEF TrimFill, TrimDone, Held
<1>6. ASSUME NEW choice \in LoadChoices, Load(hd, choice)
      PROVE  Once'
  <2>1. \A g \in Handles : phase[g] = "open" => mem'[g] = mem[g] /\ phase'[g] = "open"
    BY <1>6 DEF Load
  <2> QED BY <1>6, <2>1, OnceFrame DEF Load, Held
<1>7. CASE OpenPack(hd)
  BY <1>7, OnceFrame DEF OpenPack, Held
<1> QED
  BY <1>1, <1>2, <1>3, <1>4, <1>5, <1>6, <1>7 DEF OpenStep

(* A step of thread t alone keeps Once if where it leaves t is all right.  *)
LEMMA OnceMove ==
    ASSUME TypeOK, Once, NEW t \in Threads, mine' = mine, phase' = phase,
           \A g \in Handles, h \in Hashes : Held(g, h) => Held(g, h)',
           \A u \in Threads : u # t => pc'[u] = pc[u] /\ job'[u] = job[u],
           pc'[t] = "advance" => Held(HandleOf[t], job[t].h)' /\ job'[t] = job[t],
           pc'[t] \in {"seek", "write"} => job'[t].h \notin mine[HandleOf[t]]
    PROVE  Once'
<1>1. /\ \A u \in Threads : HandleOf[u] \in Handles /\ job[u].h \in Hashes
      /\ \A g \in Handles : mine[g] \subseteq Hashes
  BY HandleOfAssumption DEF TypeOK
<1>2. /\ (\A hd \in Handles : phase[hd] # "open" => mine[hd] = {})'
      /\ (\A hd \in Handles : \A h \in mine[hd] : Held(hd, h))'
  BY <1>1 DEF Once
<1>3. (\A u \in Threads : pc[u] = "advance" => Held(HandleOf[u], job[u].h))'
  <2> SUFFICES ASSUME NEW u \in Threads, pc'[u] = "advance"
               PROVE  Held(HandleOf[u], job[u].h)'
    OBVIOUS
  <2>1. CASE u = t
    BY <2>1 DEF Held
  <2>2. CASE u # t
    <3>1. Held(HandleOf[u], job[u].h)
      BY <2>2 DEF Once
    <3> QED BY <1>1, <2>2, <3>1 DEF Held
  <2> QED BY <2>1, <2>2
<1>4. PackedOncePerHandle'
  BY DEF Once, PackedOncePerHandle
<1> QED
  BY <1>2, <1>3, <1>4 DEF Once

LEMMA HasEffectHeld ==
    ASSUME TypeOK, NEW hd \in Handles, NEW x \in Hashes, HasEffect(hd, x)
    PROVE  \A g \in Handles, h \in Hashes : Held(g, h) => Held(g, h)'
<1>1. {"index"} \in SUBSET Files
  BY DEF Files
<1> QED
  BY <1>1, RefreshHeld DEF HasEffect, Held

LEMMA CallOnce ==
    ASSUME IndInv, Once, NEW t \in Threads, Call(t)
    PROVE  Once'
<1>0. /\ TypeOK /\ HandleOf[t] \in Handles /\ {"index"} \in SUBSET Files
      /\ pc \in [Threads -> PutSteps \cup {"idle"}] /\ DOMAIN job = Threads
  BY HandleOfAssumption DEF IndInv, TypeOK, Files
<1> USE <1>0 DEF disk, opening, memory, calls, ghosts
<1>1. ASSUME NEW x \in Hashes, Has(t, x)
      PROVE  Once'
  BY <1>1, HasEffectHeld, OnceMove DEF Has, Once, PackedOncePerHandle
<1>2. ASSUME NEW x \in Hashes, Get(t, x)
      PROVE  Once'
  <2>1. \A g \in Handles, h \in Hashes : Held(g, h) => Held(g, h)'
    <3>1. CASE mem' = mem
      BY <3>1 DEF Held
    <3>2. CASE Refresh(HandleOf[t], {"index"})
      BY <3>2, RefreshHeld
    <3> QED BY <1>2, <3>1, <3>2 DEF Get
  <2> QED BY <1>2, <2>1, OnceMove DEF Get
<1>3. ASSUME NEW x \in Hashes, PutMiss(t, x)
      PROVE  Once'
  <2>1. \A g \in Handles, h \in Hashes : Held(g, h) => Held(g, h)'
    BY <1>3, HasEffectHeld DEF PutMiss
  <2> QED BY <1>3, <2>1, OnceMove DEF PutMiss, Goto
<1>4. ASSUME NEW x \in Hashes, AddReference(t, x)
      PROVE  Once'
  <2>1. \A g \in Handles, h \in Hashes : Held(g, h) => Held(g, h)'
    BY <1>4, HasEffectHeld DEF AddReference
  <2> QED BY <1>4, <2>1, OnceMove DEF AddReference, Goto
<1>5. CASE ObjectCount(t)
  <2>1. \A g \in Handles, h \in Hashes : Held(g, h) => Held(g, h)'
    BY <1>5, RefreshHeld DEF ObjectCount
  <2> QED BY <1>5, <2>1, OnceMove DEF ObjectCount
<1> QED
  BY <1>1, <1>2, <1>3, <1>4, <1>5 DEF Call

LEMMA CallStepOnce ==
    ASSUME IndInv, Once, NEW t \in Threads, CallStep(t)
    PROVE  Once'
<1> DEFINE hd == HandleOf[t]
<1>0. /\ TypeOK /\ HandleOf \in [Threads -> Handles] /\ hd \in Handles /\ job[t].h \in Hashes
      /\ pc \in [Threads -> PutSteps \cup {"idle"}] /\ DOMAIN job = Threads
      /\ mem \in [Handles -> [Files -> [Hashes -> Locs \cup {None}]]]
      /\ mine \in [Handles -> SUBSET Hashes] /\ "index" \in Files /\ Files \in SUBSET Files
  BY HandleOfAssumption DEF IndInv, TypeOK, Files
<1>a. mem' = mem => \A g \in Handles, h \in Hashes : Held(g, h) => Held(g, h)'
  BY DEF Held
<1>b. /\ \A h \in mine[hd] : Held(hd, h)
      /\ pc[t] = "seek" => job[t].h \notin mine[hd]
  BY <1>0 DEF Once, PackedOncePerHandle
<1> USE <1>0 DEF disk, opening, memory, calls, ghosts
<1>1. CASE PutLock(t)
  <2>1. \A g \in Handles, h \in Hashes : Held(g, h) => Held(g, h)'
    BY <1>1, RefreshHeld DEF PutLock
  <2>2. RefreshedMem(hd, "index")[job[t].h] = None
    BY <1>1 DEF PutLock, KnownAfterRefresh, Known
  <2>3. job[t].h \notin mine[hd]
    BY <1>b, <2>2, RefreshKeeps
  <2> QED BY <1>1, <2>1, <2>3, OnceMove DEF PutLock, Goto
<1>2. CASE PutLateHit(t)
  <2>1. \A g \in Handles, h \in Hashes : Held(g, h) => Held(g, h)'
    BY <1>2, RefreshHeld DEF PutLateHit
  <2> QED BY <1>2, <2>1, OnceMove DEF PutLateHit, Return, Goto
<1>3. CASE PutRotate(t)
  BY <1>3, <1>a, <1>b, OnceMove DEF PutRotate
<1>4. CASE PutSeek(t)
  <2>1. job'[t].h = job[t].h
    <3>1. job[t] \in [f : Files, h : Hashes, p : Nat, o : Nat]
      BY DEF TypeOK
    <3> QED BY <1>4, <3>1 DEF PutSeek
  <2> QED BY <1>4, <1>a, <1>b, <2>1, OnceMove DEF PutSeek, Goto
<1>5. CASE PutWrite(t)
  BY <1>5, <1>a, OnceMove DEF PutWrite, Goto
<1>6. CASE AppendFields(t)
  BY <1>6, <1>a, OnceMove DEF AppendFields, Goto
<1>7. CASE AppendNewline(t)
  BY <1>7, <1>a, OnceMove DEF AppendNewline, Goto
<1>8. CASE PutInsert(t)
  <2>1. NewLoc(t) # None
    <3>1. job[t] \in [f : Files, h : Hashes, p : Nat, o : Nat]
      BY DEF TypeOK
    <3>2. NewLoc(t) \in [p : Nat, o : Nat, len : {0, 1}]
      BY <3>1 DEF NewLoc
    <3> QED BY <3>2, NoneAssumption
  <2>2. \A g \in Handles, h \in Hashes : Held(g, h) => Held(g, h)'
    BY <1>8, <2>1 DEF PutInsert, Held
  <2>3. Held(hd, job[t].h)'
    BY <1>8, <2>1 DEF PutInsert, Held
  <2> QED BY <1>8, <2>2, <2>3, OnceMove DEF PutInsert, Goto
<1>9. CASE ReferenceInsert(t)
  <2>1. \A g \in Handles, h \in Hashes : Held(g, h) => Held(g, h)'
    BY <1>9 DEF ReferenceInsert, Held
  <2> QED BY <1>9, <2>1, OnceMove DEF ReferenceInsert, Return, Goto
<1>10. CASE PutAdvance(t)
  <2>1. /\ mem' = mem /\ phase' = phase /\ mine' = [mine EXCEPT ![hd] = @ \cup {job[t].h}]
        /\ pc' = [pc EXCEPT ![t] = "idle"] /\ job' = [job EXCEPT ![t] = NoJob]
        /\ pc[t] = "advance"
    BY <1>10 DEF PutAdvance, Return, Goto
  <2>2. /\ \A u \in Threads : pc[u] \in {"seek", "write"} => HandleOf[u] # hd
        /\ phase[hd] = "open"
    BY <2>1 DEF IndInv, Locks, MutexHeld, InPut, IndexJobs, CallsOpen
  <2>3. Held(hd, job[t].h)
    BY <2>1 DEF Once
  <2>4. PackedOncePerHandle'
    BY <2>1, <2>2 DEF Once, PackedOncePerHandle
  <2>5. (\A g \in Handles : \A h \in mine[g] : Held(g, h))'
    BY <2>1, <2>3 DEF Once, Held
  <2>6. (\A u \in Threads : pc[u] = "advance" => Held(HandleOf[u], job[u].h))'
    BY <2>1 DEF Once, Held
  <2>7. (\A g \in Handles : phase[g] # "open" => mine[g] = {})'
    BY <2>1, <2>2 DEF Once
  <2> QED BY <2>4, <2>5, <2>6, <2>7 DEF Once
<1> QED
  BY <1>1, <1>2, <1>3, <1>4, <1>5, <1>6, <1>7, <1>8, <1>9, <1>10 DEF CallStep

LEMMA FaultOnce ==
    ASSUME IndInv, Once, Fault
    PROVE  Once'
<1>0. /\ TypeOK /\ HandleOf \in [Threads -> Handles]
      /\ pc \in [Threads -> PutSteps \cup {"idle"}] /\ DOMAIN job = Threads
      /\ mine \in [Handles -> SUBSET Hashes] /\ phase \in [Handles -> Phases]
      /\ mem \in [Handles -> [Files -> [Hashes -> Locs \cup {None}]]]
      /\ \A t \in Threads : pc[t] # "idle" => phase[HandleOf[t]] = "open"
  BY HandleOfAssumption DEF IndInv, TypeOK, Locks, CallsOpen
<1>a. mem' = mem => \A g \in Handles, h \in Hashes : Held(g, h) => Held(g, h)'
  BY DEF Held
<1> USE <1>0 DEF disk, opening, memory, calls, ghosts
<1>1. ASSUME NEW t \in Threads, NEW torn \in BOOLEAN, PutWriteFails(t, torn)
      PROVE  Once'
  BY <1>1, <1>a, OnceMove DEF PutWriteFails, Return, Goto
<1>2. ASSUME NEW t \in Threads, AppendFails(t)
      PROVE  Once'
  BY <1>2, <1>a, OnceMove DEF AppendFails, Return, Goto
<1>3. ASSUME NEW hd \in Handles, NEW torn \in BOOLEAN, Crash(hd, torn)
      PROVE  Once'
  <2>1. /\ phase' = [phase EXCEPT ![hd] = "closed"] /\ mem' = [mem EXCEPT ![hd] = EmptyMem]
        /\ mine' = [mine EXCEPT ![hd] = {}]
        /\ pc' = [t \in Threads |-> IF HandleOf[t] = hd THEN "idle" ELSE pc[t]]
        /\ job' = [t \in Threads |-> IF HandleOf[t] = hd THEN NoJob ELSE job[t]]
    BY <1>3 DEF Crash, Forget
  <2> QED BY <2>1 DEF Once, PackedOncePerHandle, Held
<1>4. ASSUME NEW h \in Hashes, NEW s \in Sources \ {"there"}, EditSource(h, s)
      PROVE  Once'
  BY <1>4, <1>a, OnceFrame DEF EditSource
<1> QED
  BY <1>1, <1>2, <1>3, <1>4 DEF Fault

(* No handle ever packs a chunk again for which it has answered (h, true), *)
(* for any number of threads sharing it and of sibling handles.            *)
THEOREM StoreOnce == Spec => []PackedOncePerHandle
<1>1. Init => Once
  BY DEF Init, Once, PackedOncePerHandle
<1>2. IndInv /\ Once /\ [Next]_vars => Once'
  <2> SUFFICES ASSUME IndInv, Once, [Next]_vars PROVE Once'
    OBVIOUS
  <2>1. CASE Next
    BY <2>1, OpenOnce, CallOnce, CallStepOnce, FaultOnce DEF Next
  <2>2. CASE UNCHANGED vars
    BY <2>2 DEF vars, Once, PackedOncePerHandle, Held
  <2> QED BY <2>1, <2>2
<1>3. Once => PackedOncePerHandle
  BY DEF Once
<1> QED
  BY <1>1, <1>2, <1>3, InitIndInv, StepIndInv, PTL DEF Spec

-----------------------------------------------------------------------------
(* PackBound.  A handle has room in a pack while it may still write there: *)
(* it believes the pack is not full, or it has not come to it yet.  From   *)
(* the moment a pack is full, every write to it costs its handle the room. *)

Room(hd, p) ==
    phase[hd] = "open" /\ (cur[hd].id < p \/ (cur[hd].id = p /\ cur[hd].size < Rotate))
Roomy(p) == {hd \in Handles : Room(hd, p)}
Slack == used["crashes"] + used["errors"]
PackFits(p) ==
    \/ Len(packs[p]) < Rotate
    \/ Len(packs[p]) + Cardinality(Roomy(p)) <= Rotate + (Cardinality(Handles) - 1) + Slack
Fits == \A p \in DOMAIN packs : PackFits(p)

(* Whoever is about to write has room where it writes.                     *)
WritesInRoom ==
    \A t \in Threads : pc[t] = "write" =>
        cur[HandleOf[t]].size < Rotate /\ job[t].p = cur[HandleOf[t]].id

LEMMA BoundTypes ==
    ASSUME TypeOK
    PROVE  /\ used["crashes"] \in Nat /\ used["errors"] \in Nat /\ Slack \in Nat
           /\ packs \in Seq(Seq(Hashes \cup {Torn}))
           /\ \A p \in DOMAIN packs : p \in Nat /\ packs[p] \in Seq(Hashes \cup {Torn}) /\ Len(packs[p]) \in Nat
           /\ \A hd \in Handles : cur[hd].id \in Nat /\ cur[hd].size \in Nat
           /\ Rotate \in Nat /\ Rotate > 0
<1>1. used["crashes"] \in Nat /\ used["errors"] \in Nat /\ Rotate \in Nat /\ Rotate > 0
  BY RotateAssumption DEF TypeOK, Bounded
<1>2. packs \in Seq(Seq(Hashes \cup {Torn}))
  BY DEF TypeOK
<1>3. \A p \in DOMAIN packs : p \in Nat /\ packs[p] \in Seq(Hashes \cup {Torn})
  BY <1>2
<1>4. \A hd \in Handles : cur[hd] \in [id : Nat, size : Nat]
  BY DEF TypeOK
<1> QED BY <1>1, <1>2, <1>3, <1>4 DEF Slack

LEMMA RoomyFact ==
    ASSUME NEW R, R \subseteq Handles
    PROVE  /\ IsFiniteSet(R) /\ Cardinality(R) \in Nat /\ Cardinality(Handles) \in Nat
           /\ Cardinality(R) <= Cardinality(Handles)
           /\ \A S : S \subseteq R => Cardinality(S) \in Nat /\ Cardinality(S) <= Cardinality(R)
           /\ \A hd \in R : Cardinality(R \ {hd}) = Cardinality(R) - 1
<1>1. IsFiniteSet(Handles)
  BY HandlesAssumption
<1>2. IsFiniteSet(R) /\ Cardinality(R) <= Cardinality(Handles)
  BY <1>1, FS_Subset
<1>3. \A S : S \subseteq R => IsFiniteSet(S) /\ Cardinality(S) <= Cardinality(R)
  BY <1>2, FS_Subset
<1>4. \A hd \in R : Cardinality(R \ {hd}) = Cardinality(R) - 1
  BY <1>2, FS_RemoveElement
<1> QED BY <1>1, <1>2, <1>3, <1>4, FS_CardinalityType

(* A pack that does not grow keeps fitting while nobody gains room in it.  *)
LEMMA FitsKept ==
    ASSUME TypeOK, TypeOK', NEW p \in DOMAIN packs, p \in DOMAIN packs', PackFits(p), packs'[p] = packs[p],
           Len(packs[p]) >= Rotate => Roomy(p)' \subseteq Roomy(p), Slack <= Slack'
    PROVE  PackFits(p)'
<1>1. Slack \in Nat /\ Slack' \in Nat /\ Len(packs[p]) \in Nat /\ Rotate \in Nat
  <2>1. used'["crashes"] \in Nat /\ used'["errors"] \in Nat
    BY DEF TypeOK, Bounded
  <2>2. Slack' = used'["crashes"] + used'["errors"]
    BY DEF Slack
  <2> QED BY <2>1, <2>2, BoundTypes
<1>2. CASE Len(packs[p]) < Rotate
  BY <1>2 DEF PackFits
<1>3. CASE Len(packs[p]) >= Rotate
  <2> PICK R : R = Roomy(p)
    OBVIOUS
  <2> PICK S : S = Roomy(p)'
    OBVIOUS
  <2>1. S \subseteq R /\ R \subseteq Handles
    BY <1>3 DEF Roomy
  <2>2. Cardinality(R) \in Nat /\ Cardinality(S) \in Nat /\ Cardinality(S) <= Cardinality(R) /\ Cardinality(Handles) \in Nat
    BY <2>1, RoomyFact
  <2>3. Len(packs[p]) + Cardinality(R) <= Rotate + (Cardinality(Handles) - 1) + Slack
    BY <1>1, <1>3 DEF PackFits
  <2>4. Len(packs[p]) + Cardinality(S) <= Rotate + (Cardinality(Handles) - 1) + Slack'
    BY <2>2, <2>3, <1>1
  <2> QED BY <2>4 DEF PackFits
<1> QED BY <1>1, <1>2, <1>3

(* One more cell, for which a failure or the writer's room pays.           *)
Pays(p) ==
    Len(packs[p]) + 1 >= Rotate =>
        \/ Roomy(p)' \subseteq Roomy(p) /\ Slack' = Slack + 1
        \/ \E hd \in Roomy(p) : Roomy(p)' \subseteq Roomy(p) \ {hd}
Added(t, e) == packs' = [packs EXCEPT ![job[t].p] = Append(@, e)]

LEMMA FitsGrown ==
    ASSUME TypeOK, TypeOK', NEW p \in DOMAIN packs, p \in DOMAIN packs', PackFits(p),
           Len(packs'[p]) = Len(packs[p]) + 1, Slack <= Slack', Pays(p)
    PROVE  PackFits(p)'
<1>1. Slack \in Nat /\ Slack' \in Nat /\ Len(packs[p]) \in Nat /\ Rotate \in Nat
  <2>1. used'["crashes"] \in Nat /\ used'["errors"] \in Nat
    BY DEF TypeOK, Bounded
  <2>2. Slack' = used'["crashes"] + used'["errors"]
    BY DEF Slack
  <2> QED BY <2>1, <2>2, BoundTypes
<1>2. CASE Len(packs[p]) + 1 < Rotate
  BY <1>2 DEF PackFits
<1>3. CASE Len(packs[p]) + 1 >= Rotate
  <2> PICK R : R = Roomy(p)
    OBVIOUS
  <2> PICK S : S = Roomy(p)'
    OBVIOUS
  <2> PICK r : r = Cardinality(R)
    OBVIOUS
  <2> PICK k : k = Cardinality(S)
    OBVIOUS
  <2> PICK n : n = Cardinality(Handles)
    OBVIOUS
  <2>1. R \subseteq Handles /\ r \in Nat /\ n \in Nat /\ r <= n
    BY RoomyFact DEF Roomy
  <2>2. k \in Nat /\ ((k <= r /\ Slack' = Slack + 1) \/ k <= r - 1)
    <3>1. CASE S \subseteq R /\ Slack' = Slack + 1
      BY <3>1, <2>1, RoomyFact
    <3>2. ASSUME NEW hd \in R, S \subseteq R \ {hd} PROVE k \in Nat /\ k <= r - 1
      <4> PICK T : T = R \ {hd}
        OBVIOUS
      <4>1. T \subseteq Handles /\ Cardinality(T) = r - 1
        BY <2>1, RoomyFact
      <4>2. k \in Nat /\ k <= Cardinality(T)
        BY <3>2, <4>1, RoomyFact
      <4> QED BY <4>1, <4>2
    <3> QED BY <3>1, <3>2, <1>3 DEF Pays
  <2>3. (Len(packs[p]) < Rotate /\ Len(packs[p]) + 1 = Rotate) \/ Len(packs[p]) + r <= Rotate + (n - 1) + Slack
    BY <1>1, <1>3 DEF PackFits
  <2>4. Len(packs'[p]) + k <= Rotate + (n - 1) + Slack'
    <3> PICK l : l = Len(packs[p])
      OBVIOUS
    <3> PICK y : y = Slack
      OBVIOUS
    <3> PICK z : z = Slack'
      OBVIOUS
    <3>1. l \in Nat /\ Len(packs'[p]) = l + 1 /\ (l + 1 = Rotate \/ l + r <= Rotate + (n - 1) + y)
      BY <1>1, <2>3
    <3>2. y \in Nat /\ z \in Nat /\ y <= z /\ ((k <= r /\ z = y + 1) \/ k <= r - 1)
      BY <1>1, <2>2
    <3>3. r \in Nat /\ n \in Nat /\ k \in Nat /\ r <= n /\ Rotate \in Nat
      BY <1>1, <2>1, <2>2
    <3>4. l + 1 + k <= Rotate + (n - 1) + z
      <4>1. CASE k <= r /\ z = y + 1
        BY ONLY <4>1, <3>1, <3>2, <3>3
      <4>2. CASE k <= r - 1
        BY ONLY <4>2, <3>1, <3>2, <3>3
      <4> QED BY <4>1, <4>2, <3>2
    <3> QED BY <3>1, <3>4
  <2> QED BY <2>4 DEF PackFits
<1> QED BY <1>1, <1>2, <1>3

(* Steps that leave packs and room alone.                                  *)
Quiet ==
    /\ packs' = packs /\ cur' = cur
    /\ \A hd \in Handles : phase'[hd] = "open" => phase[hd] = "open"
    /\ used["crashes"] <= used'["crashes"] /\ used["errors"] <= used'["errors"]
Moves ==
    \/ \E hd \in Handles : OpenPack(hd) \/ Close(hd) \/ \E torn \in BOOLEAN : Crash(hd, torn)
    \/ \E t \in Threads : PutRotate(t) \/ PutWrite(t) \/ \E torn \in BOOLEAN : PutWriteFails(t, torn)

LEMMA NextQuiet == ASSUME TypeOK, [Next]_vars PROVE Quiet \/ Moves
<1> USE DEF disk, opening, memory, calls, ghosts
<1>0. used \in [Bounded -> Nat] /\ phase \in [Handles -> Phases]
  BY DEF TypeOK
<1>1. used["crashes"] \in Nat /\ used["errors"] \in Nat
  BY <1>0 DEF Bounded
<1>2. ASSUME packs' = packs, cur' = cur, phase' = phase, used' = used PROVE Quiet
  BY <1>1, <1>2 DEF Quiet
<1>3. ASSUME NEW b \in Bounded, used' = [used EXCEPT ![b] = @ + 1]
      PROVE  used["crashes"] <= used'["crashes"] /\ used["errors"] <= used'["errors"]
  BY <1>0, <1>1, <1>3 DEF Bounded
<1>4. ASSUME NEW hd \in Handles, Open(hd) PROVE Quiet
  <2>1. used["crashes"] <= used'["crashes"] /\ used["errors"] <= used'["errors"]
    BY <1>4, <1>3 DEF Open, Bounded
  <2> QED BY <2>1, <1>0, <1>4 DEF Open, Quiet
<1>5. ASSUME NEW hd \in Handles, TrimRead(hd) \/ TrimCut(hd) \/ TrimFill(hd) PROVE Quiet
  <2>1. packs' = packs /\ cur' = cur /\ used' = used
    BY <1>5 DEF TrimRead, TrimCut, TrimFill, TrimDone
  <2>2. \E x \in Phases : x # "open" /\ phase' = [phase EXCEPT ![hd] = x]
    BY <1>5 DEF TrimRead, TrimCut, TrimFill, TrimDone, Phases
  <2> QED BY <2>1, <2>2, <1>0, <1>1 DEF Quiet
<1>6. ASSUME NEW hd \in Handles, NEW choice \in LoadChoices, Load(hd, choice) PROVE Quiet
  <2>1. packs' = packs /\ cur' = cur /\ used' = used /\ (phase' = phase \/ phase' = [phase EXCEPT ![hd] = "pack"])
    BY <1>6 DEF Load
  <2> QED BY <2>1, <1>0, <1>1 DEF Quiet
<1>7. ASSUME NEW t \in Threads, Call(t) PROVE Quiet
  <2>1. packs' = packs /\ cur' = cur /\ phase' = phase
        /\ (used' = used \/ used' = [used EXCEPT !["ops"] = @ + 1])
    BY <1>7 DEF Call, Has, Get, PutMiss, AddReference, ObjectCount
  <2> QED BY <2>1, <1>1, <1>3 DEF Quiet, Bounded
<1>8. ASSUME NEW t \in Threads, CallStep(t), ~PutRotate(t), ~PutWrite(t) PROVE Quiet
  <2>1. packs' = packs /\ cur' = cur /\ phase' = phase /\ used' = used
    BY <1>8 DEF CallStep, PutLock, PutLateHit, PutSeek, AppendFields, AppendNewline, PutInsert, ReferenceInsert, PutAdvance
  <2> QED BY <2>1, <1>2
<1>9. ASSUME NEW t \in Threads, AppendFails(t) PROVE Quiet
  <2>1. packs' = packs /\ cur' = cur /\ phase' = phase /\ used' = [used EXCEPT !["errors"] = @ + 1]
    BY <1>9 DEF AppendFails
  <2> QED BY <2>1, <1>3 DEF Quiet, Bounded
<1>10. ASSUME NEW h \in Hashes, NEW x, EditSource(h, x) PROVE Quiet
  <2>1. packs' = packs /\ cur' = cur /\ phase' = phase /\ used' = [used EXCEPT !["edits"] = @ + 1]
    BY <1>10 DEF EditSource
  <2> QED BY <2>1, <1>3 DEF Quiet, Bounded
<1>11. CASE UNCHANGED vars
  BY <1>11, <1>2 DEF vars
<1> QED
  BY <1>4, <1>5, <1>6, <1>7, <1>8, <1>9, <1>10, <1>11 DEF Next, OpenStep, Fault, Moves

(* The writer of a handle is the one that holds its mutex.                 *)
LEMMA StepWrites == ASSUME IndInv, WritesInRoom, [Next]_vars PROVE WritesInRoom'
<1> USE DEF disk, opening, memory, calls, ghosts
<1>0. /\ TypeOK /\ Locks /\ HandleOf \in [Threads -> Handles] /\ pc \in [Threads -> PutSteps \cup {"idle"}]
      /\ job \in [Threads -> [f : Files, h : Hashes, p : Nat, o : Nat]]
      /\ cur \in [Handles -> [id : Nat, size : Nat]]
  BY HandleOfAssumption DEF IndInv, TypeOK
<1>a. \A t, u \in Threads : pc[t] = "write" /\ pc[u] \in {"seek", "write"} /\ HandleOf[t] = HandleOf[u] => t = u
  BY <1>0 DEF Locks, MutexHeld, InPut
<1>b. \A t \in Threads : pc[t] = "write" => phase[HandleOf[t]] = "open"
  BY <1>0 DEF Locks, CallsOpen
<1> SUFFICES ASSUME NEW t \in Threads, pc'[t] = "write"
             PROVE  cur'[HandleOf[t]].size < Rotate /\ job'[t].p = cur'[HandleOf[t]].id
  BY DEF WritesInRoom
<1>1. ASSUME pc[t] = "write", job'[t] = job[t], cur'[HandleOf[t]] = cur[HandleOf[t]]
      PROVE  cur'[HandleOf[t]].size < Rotate /\ job'[t].p = cur'[HandleOf[t]].id
  BY <1>1 DEF WritesInRoom
<1>2. ASSUME NEW hd \in Handles, Open(hd) \/ Close(hd) \/ OpenStep(hd) \/ \E torn \in BOOLEAN : Crash(hd, torn)
      PROVE  pc[t] = "write" /\ job'[t] = job[t] /\ cur'[HandleOf[t]] = cur[HandleOf[t]]
  <2>1. CASE Open(hd) \/ TrimRead(hd) \/ TrimCut(hd) \/ TrimFill(hd) \/ \E choice \in LoadChoices : Load(hd, choice)
    BY <2>1 DEF Open, TrimRead, TrimCut, TrimFill, Load
  <2>2. CASE OpenPack(hd)
    <3>1. pc' = pc /\ job' = job /\ phase[hd] = "pack"
      BY <2>2 DEF OpenPack
    <3>2. hd # HandleOf[t]
      BY <3>1, <1>b
    <3>3. cur'[HandleOf[t]] = cur[HandleOf[t]]
      BY <3>2, <2>2, <1>0 DEF OpenPack
    <3> QED BY <3>1, <3>3
  <2>3. CASE Close(hd)
    <3>1. pc' = pc /\ job' = job /\ hd # HandleOf[t]
      BY <2>3 DEF Close, ThreadsOf
    <3> QED BY <3>1, <2>3, <1>0 DEF Close, Forget
  <2>4. ASSUME NEW torn \in BOOLEAN, Crash(hd, torn)
        PROVE  pc[t] = "write" /\ job'[t] = job[t] /\ cur'[HandleOf[t]] = cur[HandleOf[t]]
    <3>1. HandleOf[t] # hd /\ pc'[t] = pc[t] /\ job'[t] = job[t]
      BY <2>4 DEF Crash
    <3> QED BY <3>1, <2>4, <1>0 DEF Crash, Forget
  <2> QED BY <2>1, <2>2, <2>3, <2>4, <1>2 DEF OpenStep
<1>3. ASSUME NEW u \in Threads, Call(u) PROVE pc[t] = "write" /\ job'[t] = job[t] /\ cur' = cur
  BY <1>3, <1>0 DEF Call, Has, Get, PutMiss, AddReference, ObjectCount, Goto
<1>4. ASSUME NEW u \in Threads, PutLock(u) \/ PutLateHit(u) \/ AppendFields(u) \/ AppendNewline(u)
                                \/ PutInsert(u) \/ ReferenceInsert(u) \/ PutAdvance(u)
                                \/ AppendFails(u)
      PROVE  pc[t] = "write" /\ job'[t] = job[t] /\ cur' = cur
  BY <1>4, <1>0 DEF PutLock, PutLateHit, AppendFields, AppendNewline, PutInsert, ReferenceInsert,
                    PutAdvance, AppendFails, Return, Goto
<1>5. ASSUME NEW u \in Threads, PutRotate(u) PROVE pc[t] = "write" /\ job'[t] = job[t] /\ cur'[HandleOf[t]] = cur[HandleOf[t]]
  <2>1. pc' = pc /\ job' = job /\ pc[u] = "seek"
    BY <1>5 DEF PutRotate
  <2>2. HandleOf[u] # HandleOf[t]
    BY <2>1, <1>a
  <2> QED BY <2>1, <2>2, <1>5, <1>0 DEF PutRotate
<1>6. ASSUME NEW u \in Threads, PutSeek(u)
      PROVE  cur'[HandleOf[t]].size < Rotate /\ job'[t].p = cur'[HandleOf[t]].id
  <2>1. CASE t = u
    <3>1. cur' = cur /\ cur[HandleOf[t]].size < Rotate
      BY <2>1, <1>6 DEF PutSeek
    <3>2. job'[t] = [job[t] EXCEPT !.p = cur[HandleOf[t]].id, !.o = PackEnd(HandleOf[t])]
      BY <2>1, <1>6, <1>0 DEF PutSeek
    <3>3. job'[t].p = cur[HandleOf[t]].id
      BY <3>2, <1>0
    <3> QED BY <3>1, <3>3
  <2>2. CASE t # u
    <3>1. pc[t] = "write" /\ job'[t] = job[t] /\ cur' = cur
      BY <2>2, <1>6, <1>0 DEF PutSeek, Goto
    <3> QED BY <3>1, <1>1
  <2> QED BY <2>1, <2>2
<1>7. ASSUME NEW u \in Threads, PutWrite(u) PROVE pc[t] = "write" /\ job'[t] = job[t] /\ cur'[HandleOf[t]] = cur[HandleOf[t]]
  <2>1. t # u /\ pc[t] = "write" /\ job' = job /\ pc[u] = "write"
    BY <1>7, <1>0 DEF PutWrite, Goto
  <2>2. HandleOf[u] # HandleOf[t]
    BY <2>1, <1>a
  <2> QED BY <2>1, <2>2, <1>7, <1>0 DEF PutWrite
<1>8. ASSUME NEW u \in Threads, NEW torn \in BOOLEAN, PutWriteFails(u, torn)
      PROVE  pc[t] = "write" /\ job'[t] = job[t] /\ cur' = cur
  BY <1>8, <1>0 DEF PutWriteFails, Return, Goto
<1>9. ASSUME NEW h \in Hashes, NEW x, EditSource(h, x) PROVE pc[t] = "write" /\ job'[t] = job[t] /\ cur' = cur
  BY <1>9 DEF EditSource
<1>10. CASE UNCHANGED vars
  BY <1>10, <1>1 DEF vars
<1> QED
  BY <1>1, <1>2, <1>3, <1>4, <1>5, <1>6, <1>7, <1>8, <1>9, <1>10 DEF Next, CallStep, Fault

LEMMA StepFits == ASSUME IndInv, TypeOK', WritesInRoom, Fits, [Next]_vars PROVE Fits'
<1> USE DEF disk, opening, memory, calls, ghosts
<1>0. /\ TypeOK /\ Locks /\ HandleOf \in [Threads -> Handles] /\ phase \in [Handles -> Phases]
      /\ cur \in [Handles -> [id : Nat, size : Nat]] /\ used \in [Bounded -> Nat]
  BY HandleOfAssumption DEF IndInv, TypeOK
<1>a. /\ used["crashes"] \in Nat /\ used["errors"] \in Nat /\ Slack \in Nat
      /\ packs \in Seq(Seq(Hashes \cup {Torn})) /\ DOMAIN packs = 1 .. Len(packs) /\ Len(packs) \in Nat
      /\ \A p \in DOMAIN packs : p \in Nat /\ packs[p] \in Seq(Hashes \cup {Torn}) /\ Len(packs[p]) \in Nat
      /\ \A hd \in Handles : cur[hd].id \in Nat /\ cur[hd].size \in Nat
      /\ Rotate \in Nat /\ Rotate > 0
  BY <1>0, BoundTypes
<1>b. used'["crashes"] \in Nat /\ used'["errors"] \in Nat
  BY DEF TypeOK, Bounded
<1>c. ASSUME used["crashes"] <= used'["crashes"], used["errors"] <= used'["errors"] PROVE Slack <= Slack'
  BY <1>a, <1>b, <1>c DEF Slack
<1>1. CASE Quiet
  <2>1. Slack <= Slack'
    BY <1>1, <1>c DEF Quiet
  <2>2. \A p : Roomy(p)' \subseteq Roomy(p)
    BY <1>1 DEF Quiet, Roomy, Room
  <2>3. packs' = packs
    BY <1>1 DEF Quiet
  <2> SUFFICES ASSUME NEW p \in DOMAIN packs PROVE PackFits(p)'
    BY <2>3 DEF Fits
  <2>4. PackFits(p)
    BY DEF Fits
  <2> QED BY <2>1, <2>2, <2>3, <2>4, <1>0, FitsKept
<1>2. ASSUME NEW hd \in Handles, OpenPack(hd) PROVE Fits'
  <2> PICK opened : opened = (IF packs = <<>> THEN << <<>> >> ELSE packs)
    OBVIOUS
  <2>1. /\ packs' = opened /\ used' = used
        /\ cur' = [cur EXCEPT ![hd] = [id |-> Len(opened), size |-> Len(opened[Len(opened)])]]
        /\ phase' = [phase EXCEPT ![hd] = "open"]
    BY <1>2 DEF OpenPack
  <2>2. Slack <= Slack'
    BY <2>1, <1>a DEF Slack
  <2>3. CASE packs = <<>>
    <3>1. DOMAIN packs' = {1} /\ Len(packs'[1]) = 0
      BY <2>1, <2>3
    <3> QED BY <3>1, <1>a DEF Fits, PackFits
  <2>4. CASE packs # <<>>
    <3>1. packs' = packs /\ opened = packs
      BY <2>1, <2>4
    <3> SUFFICES ASSUME NEW p \in DOMAIN packs PROVE PackFits(p)'
      BY <3>1 DEF Fits
    <3>2. PackFits(p)
      BY DEF Fits
    <3>3. ASSUME Len(packs[p]) >= Rotate, NEW g \in Handles, Room(g, p)' PROVE Room(g, p)
      <4>1. CASE g # hd
        <5>1. cur'[g] = cur[g] /\ phase'[g] = phase[g]
          BY <4>1, <2>1, <1>0
        <5> QED BY <5>1, <3>3 DEF Room
      <4>2. CASE g = hd
        <5>1. cur'[g].id = Len(packs) /\ cur'[g].size = Len(packs[Len(packs)])
          BY <4>2, <3>1, <2>1, <1>0
        <5>2. p <= Len(packs)
          BY <1>a
        <5>3. p = Len(packs) /\ Len(packs[Len(packs)]) < Rotate
          BY <5>1, <5>2, <3>3, <1>a DEF Room
        <5> QED BY <5>3, <3>3, <1>a
      <4> QED BY <4>1, <4>2
    <3>4. Len(packs[p]) >= Rotate => Roomy(p)' \subseteq Roomy(p)
      BY <3>3 DEF Roomy
    <3> QED BY <3>1, <3>2, <3>4, <2>2, <1>0, FitsKept
  <2> QED BY <2>3, <2>4
<1>3. ASSUME NEW hd \in Handles, Close(hd) PROVE Fits'
  <2>1. packs' = packs /\ used' = used /\ phase' = [phase EXCEPT ![hd] = "closed"]
        /\ cur' = [cur EXCEPT ![hd] = [id |-> 0, size |-> 0]]
    BY <1>3 DEF Close, Forget
  <2>2. \A p : Roomy(p)' \subseteq Roomy(p)
    BY <2>1, <1>0 DEF Roomy, Room
  <2>3. Slack <= Slack'
    BY <2>1, <1>a DEF Slack
  <2> SUFFICES ASSUME NEW p \in DOMAIN packs PROVE PackFits(p)'
    BY <2>1 DEF Fits
  <2>4. PackFits(p)
    BY DEF Fits
  <2> QED BY <2>1, <2>2, <2>3, <2>4, <1>0, FitsKept
<1>4. ASSUME NEW t \in Threads, PutRotate(t) PROVE Fits'
  <2> PICK hd : hd = HandleOf[t]
    OBVIOUS
  <2> PICK next : next = cur[hd].id + 1
    OBVIOUS
  <2>1. /\ cur[hd].size >= Rotate /\ used' = used /\ phase' = phase
        /\ cur' = [cur EXCEPT ![hd] = [id |-> next, size |-> 0]]
        /\ packs' = IF next > Len(packs) THEN Append(packs, <<>>) ELSE packs
    BY <1>4 DEF PutRotate
  <2>2. hd \in Handles /\ next \in Nat /\ cur[hd].id \in Nat /\ cur[hd].size \in Nat
    BY <1>0, <1>a
  <2>3. Slack <= Slack'
    BY <2>1, <1>a DEF Slack
  <2>4. ASSUME NEW p \in DOMAIN packs, NEW g \in Handles, Room(g, p)' PROVE Room(g, p)
    <3>1. CASE g # hd
      <4>1. cur'[g] = cur[g] /\ phase'[g] = phase[g]
        BY <3>1, <2>1, <1>0
      <4> QED BY <4>1, <2>4 DEF Room
    <3>2. CASE g = hd
      <4>1. cur'[g].id = next /\ phase'[g] = phase[g]
        BY <3>2, <2>1, <2>2, <1>0
      <4>2. next <= p /\ phase[g] = "open"
        BY <4>1, <2>2, <2>4, <1>a DEF Room
      <4>3. cur[g].id < p
        BY <4>2, <3>2, <2>2, <1>a, SMTT(30)
      <4> QED BY <4>2, <4>3 DEF Room
    <3> QED BY <3>1, <3>2
  <2>5. ASSUME NEW p \in DOMAIN packs', p \in DOMAIN packs, packs'[p] = packs[p] PROVE PackFits(p)'
    <3>1. PackFits(p) /\ Roomy(p)' \subseteq Roomy(p)
      BY <2>4, <2>5 DEF Fits, Roomy
    <3> QED BY <3>1, <2>3, <2>5, <1>0, FitsKept
  <2>6. CASE next > Len(packs)
    <3>1. packs' = Append(packs, <<>>)
      BY <2>1, <2>6
    <3>2. \A p \in DOMAIN packs' : (p \in DOMAIN packs /\ packs'[p] = packs[p]) \/ packs'[p] = <<>>
      BY <3>1, <1>a
    <3>3. ASSUME NEW p \in DOMAIN packs', packs'[p] = <<>> PROVE PackFits(p)'
      <4>1. Len(packs'[p]) < Rotate
        BY <3>3, <1>a
      <4> QED BY <4>1 DEF PackFits
    <3> QED BY <3>2, <3>3, <2>5 DEF Fits
  <2>7. CASE ~(next > Len(packs))
    <3>1. packs' = packs
      BY <2>1, <2>7
    <3> QED BY <3>1, <2>5 DEF Fits
  <2> QED BY <2>6, <2>7
<1>5. ASSUME NEW t \in Threads, pc[t] = "write", NEW e \in Hashes \cup {Torn},
             Added(t, e), Slack <= Slack', NEW p, p = job[t].p, Pays(p),
             \A q \in DOMAIN packs : q # p => Roomy(q)' \subseteq Roomy(q)
      PROVE  Fits'
  <2>1. p \in DOMAIN packs
    BY <1>5, <1>0 DEF Locks, EndGuarded
  <2>2. /\ DOMAIN packs' = DOMAIN packs
        /\ \A q \in DOMAIN packs : packs'[q] = IF q = p THEN Append(packs[q], e) ELSE packs[q]
    BY <1>5, <1>a, <2>1 DEF Added
  <2>3. Len(packs'[p]) = Len(packs[p]) + 1
    BY <2>1, <2>2, <1>a
  <2>4. ASSUME NEW q \in DOMAIN packs, q # p PROVE PackFits(q)'
    <3>1. q \in DOMAIN packs' /\ packs'[q] = packs[q] /\ PackFits(q) /\ Roomy(q)' \subseteq Roomy(q)
      BY <2>2, <2>4, <1>5 DEF Fits
    <3> QED BY <3>1, <1>0, <1>5, FitsKept
  <2>5. PackFits(p)'
    <3>1. p \in DOMAIN packs' /\ PackFits(p) /\ Pays(p)
      BY <2>1, <2>2, <1>5 DEF Fits
    <3> QED BY <3>1, <2>1, <2>3, <1>0, <1>5, FitsGrown
  <2> QED BY <2>2, <2>4, <2>5 DEF Fits
<1>6. ASSUME NEW t \in Threads, PutWrite(t) PROVE Fits'
  <2> PICK hd : hd = HandleOf[t]
    OBVIOUS
  <2> PICK p : p = job[t].p
    OBVIOUS
  <2>1. /\ pc[t] = "write" /\ packs' = [packs EXCEPT ![p] = Append(@, job[t].h)] /\ used' = used /\ phase' = phase
        /\ cur' = [cur EXCEPT ![hd] = [cur[hd] EXCEPT !.size = job[t].o + 1]]
    BY <1>6 DEF PutWrite, SizeAfterWrite
  <2>2. /\ hd \in Handles /\ job[t].h \in Hashes \cup {Torn} /\ p \in DOMAIN packs /\ job[t].o = Len(packs[p])
        /\ phase[hd] = "open" /\ cur[hd].size < Rotate /\ cur[hd].id = p
    BY <2>1, <1>0 DEF Locks, EndGuarded, CallsOpen, WritesInRoom, TypeOK
  <2>3. cur'[hd].id = p /\ cur'[hd].size = Len(packs[p]) + 1 /\ \A g \in Handles : g # hd => cur'[g] = cur[g]
    BY <2>1, <2>2, <1>0
  <2>4. hd \in Roomy(p)
    BY <2>2 DEF Roomy, Room
  <2>5. ASSUME NEW q \in DOMAIN packs, q # p PROVE Roomy(q)' \subseteq Roomy(q)
    BY <2>1, <2>2, <2>3, <2>5 DEF Roomy, Room
  <2>6. Len(packs[p]) + 1 >= Rotate => Roomy(p)' \subseteq Roomy(p) \ {hd}
    <3> SUFFICES ASSUME Len(packs[p]) + 1 >= Rotate, NEW g \in Handles, Room(g, p)' PROVE Room(g, p) /\ g # hd
      BY DEF Roomy
    <3>1. g # hd
      <4>1. Len(packs[p]) \in Nat /\ p \in Nat
        BY <2>2, <1>a
      <4>2. ~Room(hd, p)'
        BY <4>1, <2>3, <1>a DEF Room
      <4> QED BY <4>2
    <3>2. cur'[g] = cur[g] /\ phase'[g] = phase[g]
      BY <3>1, <2>1, <2>3
    <3> QED BY <3>1, <3>2 DEF Room
  <2>7. Slack <= Slack'
    BY <2>1, <1>a DEF Slack
  <2>8. Added(t, job[t].h) /\ Pays(p)
    BY <2>1, <2>4, <2>6 DEF Added, Pays
  <2> QED BY <2>1, <2>2, <2>5, <2>7, <2>8, <1>5
<1>7. ASSUME NEW t \in Threads, NEW torn \in BOOLEAN, PutWriteFails(t, torn) PROVE Fits'
  <2>1. /\ pc[t] = "write" /\ cur' = cur /\ phase' = phase /\ TornPack(t, torn)
        /\ used' = [used EXCEPT !["errors"] = @ + 1]
    BY <1>7 DEF PutWriteFails
  <2>2. \A q : Roomy(q)' = Roomy(q)
    BY <2>1 DEF Roomy, Room
  <2>3. Slack' = Slack + 1 /\ Slack <= Slack'
    <3>1. used'["crashes"] = used["crashes"] /\ used'["errors"] = used["errors"] + 1
      BY <2>1, <1>0 DEF Bounded
    <3> QED BY <3>1, <1>a DEF Slack
  <2>4. CASE torn
    <3> PICK p : p = job[t].p
      OBVIOUS
    <3>1. Added(t, Torn) /\ Torn \in Hashes \cup {Torn} /\ Pays(p)
      BY <2>1, <2>2, <2>3, <2>4 DEF TornPack, Added, Pays
    <3> QED BY <3>1, <2>1, <2>2, <2>3, <1>5
  <2>5. CASE ~torn
    <3>1. packs' = packs
      BY <2>1, <2>5 DEF TornPack
    <3> SUFFICES ASSUME NEW p \in DOMAIN packs PROVE PackFits(p)'
      BY <3>1 DEF Fits
    <3>2. PackFits(p)
      BY DEF Fits
    <3> QED BY <3>1, <3>2, <2>2, <2>3, <1>0, FitsKept
  <2> QED BY <2>4, <2>5
<1>8. ASSUME NEW hd \in Handles, NEW torn \in BOOLEAN, Crash(hd, torn) PROVE Fits'
  <2>1. /\ phase' = [phase EXCEPT ![hd] = "closed"] /\ cur' = [cur EXCEPT ![hd] = [id |-> 0, size |-> 0]]
        /\ used' = [used EXCEPT !["crashes"] = @ + 1]
        /\ packs' = packs \/ \E t \in ThreadsOf(hd) : pc[t] = "write" /\ TornPack(t, torn)
    BY <1>8 DEF Crash, Forget
  <2>2. \A q : Roomy(q)' \subseteq Roomy(q)
    BY <2>1, <1>0 DEF Roomy, Room
  <2>3. Slack' = Slack + 1 /\ Slack <= Slack'
    <3>1. used'["errors"] = used["errors"] /\ used'["crashes"] = used["crashes"] + 1
      BY <2>1, <1>0 DEF Bounded
    <3> QED BY <3>1, <1>a DEF Slack
  <2>4. CASE packs' = packs
    <3> SUFFICES ASSUME NEW p \in DOMAIN packs PROVE PackFits(p)'
      BY <2>4 DEF Fits
    <3>1. PackFits(p)
      BY DEF Fits
    <3> QED BY <3>1, <2>2, <2>3, <2>4, <1>0, FitsKept
  <2>5. ASSUME NEW t \in ThreadsOf(hd), pc[t] = "write", TornPack(t, torn), packs' # packs PROVE Fits'
    <3> PICK p : p = job[t].p
      OBVIOUS
    <3>1. t \in Threads /\ Added(t, Torn) /\ Torn \in Hashes \cup {Torn} /\ Pays(p)
      BY <2>2, <2>3, <2>5 DEF TornPack, ThreadsOf, Added, Pays
    <3> QED BY <3>1, <2>2, <2>3, <2>5, <1>5
  <2> QED BY <2>1, <2>4, <2>5
<1> QED
  BY <1>0, <1>1, <1>2, <1>3, <1>4, <1>6, <1>7, <1>8, NextQuiet DEF Moves

(* A pack outgrows PACK_ROTATE_SIZE by at most one chunk per other handle, *)
(* and by what failed writes leave: PackState::write rotates on its own    *)
(* idea of the size, but takes the true end of the file for it afterwards. *)
THEOREM StorePackBound == Spec => []PackBound
<1>1. Init => WritesInRoom /\ Fits
  BY DEF Init, WritesInRoom, Fits
<1>2. IndInv /\ WritesInRoom /\ Fits /\ [Next]_vars => IndInv' /\ WritesInRoom' /\ Fits'
  <2> SUFFICES ASSUME IndInv, WritesInRoom, Fits, [Next]_vars PROVE IndInv' /\ WritesInRoom' /\ Fits'
    OBVIOUS
  <2>1. IndInv'
    BY StepIndInv
  <2>2. TypeOK'
    BY <2>1 DEF IndInv
  <2> QED BY <2>1, <2>2, StepWrites, StepFits
<1>3. IndInv /\ Fits => PackBound
  <2> SUFFICES ASSUME IndInv, Fits, NEW p \in DOMAIN packs
               PROVE  Len(packs[p]) <= Rotate + (Cardinality(Handles) - 1) + used["crashes"] + used["errors"]
    BY DEF PackBound
  <2> PICK c : c = used["crashes"]
    OBVIOUS
  <2> PICK e : e = used["errors"]
    OBVIOUS
  <2> PICK n : n = Cardinality(Handles)
    OBVIOUS
  <2> PICK k : k = Cardinality(Roomy(p))
    OBVIOUS
  <2> PICK l : l = Len(packs[p])
    OBVIOUS
  <2>1. c \in Nat /\ e \in Nat /\ l \in Nat /\ Rotate \in Nat /\ Slack = c + e
    BY BoundTypes DEF IndInv, Slack
  <2>2. n \in Nat /\ k \in Nat
    BY RoomyFact DEF Roomy
  <2>3. l < Rotate \/ l + k <= Rotate + (n - 1) + (c + e)
    BY <2>1 DEF Fits, PackFits
  <2>4. l <= Rotate + (n - 1) + c + e
    BY ONLY <2>1, <2>2, <2>3
  <2> QED BY <2>4
<1> QED
  BY <1>1, <1>2, <1>3, InitIndInv, PTL DEF Spec

-----------------------------------------------------------------------------
(* What has and get answer while the directory has one handle.             *)

Alone == \A x, y \in Handles : x = y

(* The text is empty or ends in a newline: its last line is not torn.      *)
Whole(s) == s = <<>> \/ s[Len(s)] = Nl

(* An entry is whole, or its chunk is one whose reference ran on.          *)
Proper(f, s, loc, h) == loc # None => loc.len = 1 \/ (f = "refs" /\ h \in RanOn(s))

(* The chunk of a map entry or of a line that the map takes in is there.   *)
LEMMA InsertedSome ==
    ASSUME NEW s \in Seq(Cells), NEW m \in [Hashes -> Locs \cup {None}],
           NEW P \in SUBSET DOMAIN s, \A i \in P : s[i] # Nl, NEW h \in Hashes
    PROVE  Inserted(m, s, P)[h] # None <=> m[h] # None \/ \E i \in P : s[i].h = h
<1> DEFINE at == {i \in P : s[i].h = h}
<1>1. Inserted(m, s, P)[h] = IF at = {} THEN m[h] ELSE LocAt(s, Max(at))
  BY DEF Inserted
<1>2. CASE at = {}
  BY <1>1, <1>2
<1>3. CASE at # {}
  <2>1. at \in SUBSET Nat /\ Len(s) \in Nat /\ \A x \in at : x <= Len(s)
    OBVIOUS
  <2>2. PICK i : i = Max(at)
    OBVIOUS
  <2>3. i \in at
    <3> HIDE DEF at
    <3> QED BY <1>3, <2>1, <2>2, MaxIsMember
  <2>4. s[i] \in Lines
    BY <2>3 DEF Cells
  <2>5. LocAt(s, i) \in [p : Nat, o : Nat, len : {0, 1}]
    BY <2>4 DEF LocAt, Lines
  <2>6. Inserted(m, s, P)[h] = LocAt(s, i) /\ i \in P /\ s[i].h = h
    BY <1>1, <1>3, <2>2, <2>3
  <2> QED BY <2>5, <2>6, NoneAssumption
<1> QED BY <1>2, <1>3

LEMMA RefreshedSome ==
    ASSUME TypeOK, NEW hd \in Handles, NEW f \in Files, NEW h \in Hashes
    PROVE  /\ RefreshedMem(hd, f)[h] # None <=>
                 \/ mem[hd][f][h] # None
                 \/ \E i \in Readable(f, file[f], pos[hd][f], RefreshedPos(hd, f)) : file[f][i].h = h
           /\ Proper(f, file[f], mem[hd][f][h], h) => Proper(f, file[f], RefreshedMem(hd, f)[h], h)
<1> PICK s, m, P : s = file[f] /\ m = mem[hd][f] /\ P = Readable(f, s, pos[hd][f], RefreshedPos(hd, f))
  OBVIOUS
<1>1. s \in Seq(Cells) /\ m \in [Hashes -> Locs \cup {None}] /\ pos[hd][f] \in Nat
  BY DEF TypeOK
<1>a. RefreshedPos(hd, f) \in Nat /\ (RefreshedPos(hd, f) <= Len(s) \/ RefreshedPos(hd, f) = pos[hd][f])
  BY <1>1, CompleteEndType DEF RefreshedPos
<1>2. /\ P \in SUBSET DOMAIN s /\ \A i \in P : s[i] # Nl
      /\ \A i \in P : LocAt(s, i).len = 1 \/ (f = "refs" /\ s[i].h \in RanOn(s))
  BY <1>1, <1>a, ReadableFact
<1>3. RefreshedMem(hd, f) = Inserted(m, s, P)
  BY DEF RefreshedMem
<1>4. Inserted(m, s, P)[h] = m[h] \/ \E i \in P : s[i].h = h /\ Inserted(m, s, P)[h] = LocAt(s, i)
  BY <1>1, <1>2, InsertedFact
<1>5. Proper(f, s, m[h], h) => Proper(f, s, Inserted(m, s, P)[h], h)
  BY <1>2, <1>4 DEF Proper
<1>6. Inserted(m, s, P)[h] # None <=> m[h] # None \/ \E i \in P : s[i].h = h
  <2>1. P \in SUBSET DOMAIN s /\ \A i \in P : s[i] # Nl
    BY <1>2
  <2> QED BY ONLY <1>1, <2>1, InsertedSome, h \in Hashes
<1> QED BY <1>3, <1>5, <1>6

LEMMA RefreshedIndex ==
    ASSUME TypeOK, NEW hd \in Handles, NEW h \in Hashes
    PROVE  RefreshedMem(hd, "index")[h] # None <=>
              \/ mem[hd]["index"][h] # None
              \/ \E i \in CompleteLines(file["index"], pos[hd]["index"]) : file["index"][i].h = h
<1>1. /\ "index" \in Files /\ file["index"] \in Seq(Cells) /\ pos[hd]["index"] \in Nat
  BY DEF TypeOK, Files
<1>2. Readable("index", file["index"], pos[hd]["index"], RefreshedPos(hd, "index")) =
         CompleteLines(file["index"], pos[hd]["index"])
  BY <1>1, CompleteEndType, ReadableFact DEF RefreshedPos
<1> QED BY <1>1, <1>2, RefreshedSome

(* A text whose last line is whole loads as what it lists, and what ran on. *)
LEMMA LoadedSome ==
    ASSUME NEW f \in Files, NEW s \in Seq(Cells), NEW choice \in LoadChoices, NEW h \in Hashes
    PROVE  /\ h \in Listed(s) => LoadedMem(f, s, choice)[h] # None
           /\ Whole(s) => /\ Proper(f, s, LoadedMem(f, s, choice)[h], h)
                          /\ LoadedMem(f, s, choice)[h] # None =>
                                 \E i \in Readable(f, s, 0, Len(s)) : s[i].h = h
<1> DEFINE none == [x \in Hashes |-> None]
           P == Readable(f, s, 0, Len(s))
           m == Inserted(none, s, P)
           last == IF choice = "skip" THEN {} ELSE LastLine(s)
           end == \E i \in last : s[i].h = h
           loc == [LocAt(s, Len(s)) EXCEPT !.len = IF choice = "cut" THEN 0 ELSE 1]
<1>1. /\ P \in SUBSET DOMAIN s /\ \A i \in P : s[i] # Nl
      /\ \A i \in P : LocAt(s, i).len = 1 \/ (f = "refs" /\ s[i].h \in RanOn(s))
      /\ CompleteLines(s, 0) \subseteq P
  BY ReadableFact
<1>2. none \in [Hashes -> Locs \cup {None}] /\ none[h] = None
  OBVIOUS
<1>3. /\ m[h] # None <=> \E i \in P : s[i].h = h
      /\ m[h] = None \/ \E i \in P : s[i].h = h /\ m[h] = LocAt(s, i)
  <2> HIDE DEF none, P
  <2> QED BY <1>1, <1>2, InsertedSome, InsertedFact
<1>4. h \in Listed(s) => m[h] # None
  BY <1>1, <1>3 DEF Listed
<1>a. Proper(f, s, m[h], h)
  <2> HIDE DEF m, P
  <2> QED BY <1>1, <1>3 DEF Proper
<1>5. LoadedMem(f, s, choice)[h] = IF end THEN loc ELSE m[h]
  BY DEF LoadedMem
<1>6. ASSUME end PROVE loc # None /\ ~Whole(s)
  <2>1. s # <<>> /\ s[Len(s)] # Nl
    BY <1>6 DEF LastLine, StartsLine
  <2>2. Len(s) \in DOMAIN s /\ s[Len(s)] \in Lines
    BY <2>1 DEF Cells
  <2>3. loc = [p |-> s[Len(s)].p, o |-> s[Len(s)].o, len |-> IF choice = "cut" THEN 0 ELSE 1]
    BY DEF LocAt
  <2>4. loc \in [p : Nat, o : Nat, len : {0, 1}]
    BY <2>2, <2>3 DEF Lines
  <2> HIDE DEF loc
  <2> QED BY <2>1, <2>4, NoneAssumption DEF Whole
<1> HIDE DEF m, end, loc
<1> QED BY <1>3, <1>4, <1>a, <1>5, <1>6

(* What ran on stays as it is when a cell is appended.                     *)
LEMMA RanOnAppend ==
    ASSUME NEW s \in Seq(Cells), NEW c \in Cells
    PROVE  RanOn(s) \subseteq RanOn(Append(s, c))
<1> PICK a : a = Append(s, c)
  OBVIOUS
<1>1. /\ Len(a) = Len(s) + 1 /\ DOMAIN a = 1 .. Len(s) + 1 /\ DOMAIN s = 1 .. Len(s)
      /\ Len(s) \in Nat /\ \A i \in 1 .. Len(s) : a[i] = s[i]
  OBVIOUS
<1>2. ASSUME NEW i \in DOMAIN s, i < Len(s), s[i] # Nl, s[i + 1] # Nl, s[i].last
      PROVE  s[i].h \in RanOn(a)
  <2>1. i \in DOMAIN a /\ i < Len(a) /\ a[i] = s[i] /\ a[i + 1] = s[i + 1]
    BY <1>1, <1>2
  <2> QED BY <1>2, <2>1 DEF RanOn
<1> QED BY <1>2 DEF RanOn

(* An append completes at most the line that was last.                     *)
LEMMA LinesAppend ==
    ASSUME NEW s \in Seq(Cells), NEW c \in Cells, NEW from \in Nat
    PROVE  /\ \A i \in CompleteLines(s, from) :
                 i \in CompleteLines(Append(s, c), from) /\ Append(s, c)[i] = s[i]
           /\ \A i \in CompleteLines(Append(s, c), from) :
                 /\ i \in DOMAIN s /\ Append(s, c)[i] = s[i]
                 /\ i \in CompleteLines(s, from) \/ (c = Nl /\ i = Len(s) /\ s[i] # Nl)
<1> PICK a : a = Append(s, c)
  OBVIOUS
<1>1. /\ a \in Seq(Cells) /\ Len(a) = Len(s) + 1 /\ DOMAIN a = 1 .. Len(s) + 1 /\ DOMAIN s = 1 .. Len(s)
      /\ Len(s) \in Nat /\ a[Len(s) + 1] = c
      /\ \A i \in 1 .. Len(s) : a[i] = s[i]
  OBVIOUS
<1>2. ASSUME NEW i \in CompleteLines(s, from) PROVE i \in CompleteLines(a, from) /\ a[i] = s[i]
  <2>1. /\ i \in 1 .. Len(s) /\ i > from /\ i + 1 \in 1 .. Len(s) /\ s[i + 1] = Nl /\ s[i] # Nl
        /\ i = from + 1 \/ s[i - 1] = Nl
    BY <1>1 DEF CompleteLines, StartsLine
  <2>2. a[i] = s[i] /\ a[i + 1] = s[i + 1] /\ (i = from + 1 \/ a[i - 1] = s[i - 1])
    BY <2>1, <1>1
  <2>3. i \in DOMAIN a /\ i + 1 \in DOMAIN a
    BY <2>1, <1>1
  <2> QED BY <2>1, <2>2, <2>3 DEF CompleteLines, StartsLine
<1>3. ASSUME NEW i \in CompleteLines(a, from)
      PROVE  /\ i \in DOMAIN s /\ a[i] = s[i]
             /\ i \in CompleteLines(s, from) \/ (c = Nl /\ i = Len(s) /\ s[i] # Nl)
  <2>1. /\ i \in 1 .. Len(s) + 1 /\ i > from /\ i + 1 \in 1 .. Len(s) + 1 /\ a[i + 1] = Nl /\ a[i] # Nl
        /\ i = from + 1 \/ a[i - 1] = Nl
    BY <1>1 DEF CompleteLines, StartsLine
  <2>2. i \in 1 .. Len(s) /\ a[i] = s[i] /\ (i = from + 1 \/ a[i - 1] = s[i - 1])
    BY <2>1, <1>1
  <2>3. CASE i = Len(s)
    BY <2>1, <2>2, <2>3, <1>1
  <2>4. CASE i # Len(s)
    <3>1. i + 1 \in 1 .. Len(s) /\ a[i + 1] = s[i + 1]
      BY <2>2, <2>4, <1>1
    <3> QED BY <2>1, <2>2, <3>1, <1>1 DEF CompleteLines, StartsLine
  <2> QED BY <2>3, <2>4
<1> QED BY <1>2, <1>3

LEMMA ListedAppend ==
    ASSUME NEW s \in Seq(Cells), NEW c \in Cells, NEW h
    PROVE  /\ h \in Listed(s) => h \in Listed(Append(s, c))
           /\ h \in Listed(Append(s, c)) =>
                 h \in Listed(s) \/ (c = Nl /\ s # <<>> /\ s[Len(s)] # Nl /\ h = s[Len(s)].h)
<1> PICK a : a = Append(s, c)
  OBVIOUS
<1>1. /\ \A i \in CompleteLines(s, 0) : i \in CompleteLines(a, 0) /\ a[i] = s[i]
      /\ \A i \in CompleteLines(a, 0) :
                 /\ i \in DOMAIN s /\ a[i] = s[i]
                 /\ i \in CompleteLines(s, 0) \/ (c = Nl /\ i = Len(s) /\ s[i] # Nl)
  BY LinesAppend
<1>2. h \in Listed(s) => h \in Listed(a)
  BY <1>1 DEF Listed
<1>3. ASSUME h \in Listed(a) PROVE h \in Listed(s) \/ (c = Nl /\ s # <<>> /\ s[Len(s)] # Nl /\ h = s[Len(s)].h)
  <2>1. PICK i \in CompleteLines(a, 0) : h = a[i].h
    BY <1>3 DEF Listed
  <2> QED BY <2>1, <1>1 DEF Listed
<1> QED BY <1>2, <1>3

(* A call that has appended its line and not inserted it yet.              *)
Inserting(t, f, h) == pc[t] = "insert" /\ job[t].f = f /\ job[t].h = h

(* The handle has loaded f.                                                *)
Loaded(hd, f) ==
    phase[hd] \in {"pack", "open"} \/ (phase[hd] = "load" /\ on[hd] = "refs" /\ f = "index")

(* Everything that a loaded sidecar lists is in the map, or will be by a   *)
(* call under way: nothing depends on the cursors.                         *)
Covered ==
    \A hd \in Handles, f \in Files :
        Loaded(hd, f) =>
            \A h \in Listed(file[f]) : mem[hd][f][h] # None \/ \E t \in Threads : Inserting(t, f, h)

(* Between the two halves of its append, the thread's line is the last.    *)
Landing ==
    \A t \in Threads : pc[t] = "landing" =>
        LET s == file[job[t].f]
        IN  appender[job[t].f] = t /\ s # <<>> /\ s[Len(s)] # Nl /\ s[Len(s)].h = job[t].h

(* The trim leaves no torn line behind, and nobody appends meanwhile.      *)
Trimmed ==
    \A hd \in Handles :
        /\ phase[hd] \in {"load", "pack"} => \A f \in Files : Whole(file[f])
        /\ phase[hd] \in {"trim", "cut", "fill"} /\ on[hd] = "refs" => Whole(file["index"])
        /\ phase[hd] = "cut" => kept[hd] = SubSeq(file[on[hd]], 1, CompleteEnd(file[on[hd]], 0))
        /\ phase[hd] = "fill" => file[on[hd]] = <<>> /\ Whole(kept[hd])

(* Nothing is in memory before the load.                                   *)
Blank == \A hd \in Handles : phase[hd] \in {"closed", "trim", "cut", "fill"} => mem[hd] = EmptyMem

(* No entry has a cut length, and none a cut path but what ran on.         *)
Entire ==
    \A hd \in Handles, f \in Files, h \in Hashes : Proper(f, file[f], mem[hd][f][h], h)

Faithful == Covered /\ Landing /\ Trimmed /\ Blank /\ Entire

LEMMA ListedHashes == ASSUME NEW s \in Seq(Cells) PROVE Listed(s) \subseteq Hashes
<1>1. \A i \in CompleteLines(s, 0) : s[i] \in Lines
  BY CompleteLinesFact DEF Cells
<1> QED BY <1>1 DEF Listed, Lines

LEMMA TrimWhole ==
    ASSUME NEW s \in Seq(Cells)
    PROVE  /\ ~TornTail(s) <=> Whole(s)
           /\ Whole(SubSeq(s, 1, CompleteEnd(s, 0)))
<1> DEFINE S == {0} \cup {i \in DOMAIN s : i > 0 /\ s[i] = Nl}
<1> PICK n : n = CompleteEnd(s, 0)
  OBVIOUS
<1>1. S \in SUBSET Nat /\ S # {} /\ Len(s) \in Nat /\ \A x \in S : x <= Len(s)
  OBVIOUS
<1>2. n = Max(S)
  BY DEF CompleteEnd
<1>3. n \in S /\ \A x \in S : x <= n
  <2> HIDE DEF S
  <2> QED BY <1>1, <1>2, MaxIsMember
<1>4. n \in Nat /\ n <= Len(s) /\ (n = 0 \/ (n \in DOMAIN s /\ s[n] = Nl))
  BY <1>1, <1>3
<1>5. Whole(s) => n = Len(s)
  <2>1. CASE s = <<>>
    BY <1>4, <2>1
  <2>2. CASE s # <<>> /\ s[Len(s)] = Nl
    <3>1. Len(s) \in S
      BY <2>2
    <3> QED BY <3>1, <1>1, <1>3, <1>4
  <2> QED BY <2>1, <2>2 DEF Whole
<1>6. n = Len(s) => Whole(s)
  BY <1>4 DEF Whole
<1>7. Whole(SubSeq(s, 1, n))
  <2>1. CASE n = 0
    BY <2>1 DEF Whole
  <2>2. CASE n # 0
    <3>1. Len(SubSeq(s, 1, n)) = n /\ SubSeq(s, 1, n)[n] = s[n]
      BY <1>4, <2>2
    <3> QED BY <3>1, <2>2, <1>4 DEF Whole
  <2> QED BY <2>1, <2>2
<1> QED BY <1>5, <1>6, <1>7 DEF TornTail

(* A step that keeps the entries, the inserting calls and the lists.       *)
LEMMA CoveredMove ==
    ASSUME Covered, TypeOK, phase' = phase, on' = on,
           \A hd \in Handles, f \in Files, h \in Hashes : mem[hd][f][h] # None => mem'[hd][f][h] # None,
           \A f \in Files, h \in Hashes :
               h \in Listed(file'[f]) => h \in Listed(file[f]) \/ \E u \in Threads : Inserting(u, f, h)',
           \A u \in Threads, f \in Files, h \in Hashes :
               Inserting(u, f, h) => Inserting(u, f, h)' \/ \A hd \in Handles : mem'[hd][f][h] # None,
           file' \in [Files -> Seq(Cells)]
    PROVE  Covered'
<1> SUFFICES ASSUME NEW hd \in Handles, NEW f \in Files, Loaded(hd, f)', NEW h \in Listed(file'[f])
             PROVE  mem'[hd][f][h] # None \/ \E t \in Threads : Inserting(t, f, h)'
  BY DEF Covered
<1>1. Loaded(hd, f) /\ h \in Hashes
  BY ListedHashes DEF Loaded
<1>2. CASE \E u \in Threads : Inserting(u, f, h)'
  BY <1>2
<1>3. CASE h \in Listed(file[f])
  BY <1>1, <1>3 DEF Covered
<1> QED BY <1>1, <1>2, <1>3

(* Over an empty file, fs::write leaves what it writes.                    *)
LEMMA FillEmpty ==
    ASSUME NEW k \in Seq(Cells)
    PROVE  k \o SubSeq(<<>>, Len(k) + 1, Len(<<>>)) = k
<1>1. SubSeq(<<>>, Len(k) + 1, Len(<<>>)) = <<>>
  OBVIOUS
<1>2. k \o <<>> = k
  BY ConcatEmptySeq
<1> QED BY <1>1, <1>2

(* While a handle opens the directory alone, no call is under way.         *)
LEMMA Resting ==
    ASSUME IndInv, Alone, NEW hd \in Handles, phase[hd] # "open"
    PROVE  \A t \in Threads : pc[t] = "idle"
  BY HandleOfAssumption DEF IndInv, Locks, CallsOpen, Alone

LEMMA OpeningIdle ==
    ASSUME IndInv, Alone, NEW hd \in Handles, Open(hd) \/ Close(hd) \/ OpenStep(hd)
    PROVE  pc' = pc /\ appender' = appender /\ \A t \in Threads : pc[t] = "idle"
<1> USE DEF disk, opening, memory, calls, ghosts
<1>1. pc' = pc /\ appender' = appender
  BY DEF Open, Close, OpenStep, TrimRead, TrimCut, TrimFill, Load, OpenPack
<1>2. CASE Close(hd)
  BY <1>1, <1>2, HandleOfAssumption DEF Close, ThreadsOf, Alone
<1>3. CASE phase[hd] # "open"
  BY <1>1, <1>3, Resting
<1>4. ~Close(hd) => phase[hd] # "open"
  BY DEF Open, OpenStep, TrimRead, TrimCut, TrimFill, Load, OpenPack
<1> QED BY <1>2, <1>3, <1>4

LEMMA OpenFaithful ==
    ASSUME IndInv, Alone, Faithful, NEW hd \in Handles, Open(hd) \/ Close(hd) \/ OpenStep(hd)
    PROVE  Faithful'
<1> USE DEF disk, opening, memory, calls, ghosts
<1>0. /\ TypeOK /\ file \in [Files -> Seq(Cells)] /\ kept \in [Handles -> Seq(Cells)]
      /\ mem \in [Handles -> [Files -> [Hashes -> Locs \cup {None}]]] /\ phase \in [Handles -> Phases]
      /\ on \in [Handles -> Files] /\ pc \in [Threads -> PutSteps \cup {"idle"}]
      /\ Files = {"index", "refs"}
  BY DEF IndInv, TypeOK, Files
<1>a. \A x \in Handles : x = hd
  BY DEF Alone
<1>b. pc' = pc /\ \A t \in Threads : pc[t] = "idle"
  BY OpeningIdle
<1>c. Landing'
  BY <1>b DEF Landing
<1>d. mem' = mem /\ file' = file => Entire'
  BY DEF Faithful, Entire
<1>f. mem'[hd] = EmptyMem => Entire' /\ Blank'
  BY <1>a DEF Entire, Blank, EmptyMem, Proper
<1>g. phase'[hd] \notin {"closed", "trim", "cut", "fill"} => Blank'
  BY <1>a DEF Blank
<1>e. (\A f \in Files : ~Loaded(hd, f)') => Covered'
  BY <1>a DEF Covered
<1>1. CASE Open(hd)
  <2>1. /\ mem' = mem /\ phase'[hd] = "trim" /\ on'[hd] = "index" /\ file' = file
    BY <1>1, <1>0 DEF Open
  <2>2. Trimmed'
    BY <2>1, <1>a DEF Trimmed
  <2>3. Covered'
    BY <2>1, <1>e DEF Loaded
  <2>4. mem'[hd] = EmptyMem
    BY <1>1, <2>1 DEF Open, Faithful, Blank
  <2> QED BY <2>2, <2>3, <2>4, <1>c, <1>f DEF Faithful
<1>2. CASE Close(hd)
  <2>1. /\ mem'[hd] = EmptyMem /\ phase'[hd] = "closed"
    BY <1>2, <1>0 DEF Close, Forget
  <2>2. Trimmed'
    BY <2>1, <1>a DEF Trimmed
  <2>3. Covered'
    BY <2>1, <1>e DEF Loaded
  <2> QED BY <2>1, <2>2, <2>3, <1>c, <1>f DEF Faithful
<1>3. CASE TrimRead(hd)
  <2> PICK f, s : f = on[hd] /\ s = file[f]
    OBVIOUS
  <2>0. mem' = mem /\ file' = file /\ f \in Files /\ s \in Seq(Cells) /\ phase[hd] = "trim"
    BY <1>3, <1>0 DEF TrimRead
  <2>a. f = "refs" => Whole(file["index"])
    BY <2>0, <1>0 DEF Faithful, Trimmed
  <2>b. mem'[hd] = EmptyMem
    BY <2>0 DEF Faithful, Blank
  <2>1. CASE TornTail(s)
    <3>1. phase'[hd] = "cut" /\ on' = on /\ kept'[hd] = SubSeq(s, 1, CompleteEnd(s, 0))
      BY <1>3, <2>1, <1>0 DEF TrimRead
    <3>2. Trimmed'
      BY <3>1, <2>0, <2>a, <1>a DEF Trimmed
    <3>3. Covered'
      BY <3>1, <1>e DEF Loaded
    <3> QED BY <2>b, <3>2, <3>3, <1>c, <1>f DEF Faithful
  <2>2. CASE ~TornTail(s)
    <3>1. TrimDone(hd) /\ Whole(s)
      BY <1>3, <2>0, <2>2, TrimWhole DEF TrimRead
    <3>2. \/ f = "index" /\ on'[hd] = "refs" /\ phase'[hd] = "trim"
          \/ f = "refs" /\ on'[hd] = "index" /\ phase'[hd] = "load"
      BY <3>1, <2>0, <1>0 DEF TrimDone
    <3>3. Trimmed'
      BY <3>1, <3>2, <2>0, <2>a, <1>a, <1>0 DEF Trimmed
    <3>4. Covered'
      BY <3>2, <1>e DEF Loaded
    <3> QED BY <2>b, <3>3, <3>4, <1>c, <1>f DEF Faithful
  <2> QED BY <2>1, <2>2
<1>4. CASE TrimCut(hd)
  <2> PICK f : f = on[hd]
    OBVIOUS
  <2>1. /\ mem' = mem /\ phase'[hd] = "fill" /\ on' = on /\ kept' = kept /\ f \in Files
        /\ file'[f] = <<>> /\ \A g \in Files : g # f => file'[g] = file[g]
    BY <1>4, <1>0 DEF TrimCut
  <2>2. Whole(kept[hd])
    BY <1>4, <1>0, TrimWhole DEF TrimCut, Faithful, Trimmed
  <2>3. f = "refs" => Whole(file["index"])
    BY <1>4, <1>0 DEF TrimCut, Faithful, Trimmed
  <2>4. Trimmed'
    BY <2>1, <2>2, <2>3, <1>a, <1>0 DEF Trimmed
  <2>5. Covered'
    BY <2>1, <1>e DEF Loaded
  <2>6. mem'[hd] = EmptyMem
    BY <1>4, <2>1 DEF TrimCut, Faithful, Blank
  <2> QED BY <2>4, <2>5, <2>6, <1>c, <1>f DEF Faithful
<1>5. CASE TrimFill(hd)
  <2> PICK f : f = on[hd]
    OBVIOUS
  <2>1. file[f] = <<>> /\ Whole(kept[hd]) /\ (f = "refs" => Whole(file["index"])) /\ f \in Files
    BY <1>5, <1>0 DEF TrimFill, Faithful, Trimmed
  <2>2. mem' = mem /\ file'[f] = kept[hd] \o SubSeq(file[f], Len(kept[hd]) + 1, Len(file[f]))
        /\ \A g \in Files : g # f => file'[g] = file[g]
    BY <1>5, <1>0 DEF TrimFill
  <2>3. file'[f] = kept[hd]
    BY <2>1, <2>2, <1>0, FillEmpty
  <2>4. \/ f = "index" /\ on'[hd] = "refs" /\ phase'[hd] = "trim"
        \/ f = "refs" /\ on'[hd] = "index" /\ phase'[hd] = "load"
    BY <1>5, <1>0 DEF TrimFill, TrimDone
  <2>5. Trimmed'
    BY <2>1, <2>2, <2>3, <2>4, <1>a, <1>0 DEF Trimmed
  <2>6. Covered'
    BY <2>4, <1>e DEF Loaded
  <2>7. mem'[hd] = EmptyMem
    BY <1>5, <2>2 DEF TrimFill, Faithful, Blank
  <2> QED BY <2>5, <2>6, <2>7, <1>c, <1>f DEF Faithful
<1>6. ASSUME NEW choice \in LoadChoices, Load(hd, choice) PROVE Faithful'
  <2> PICK f, m : f = on[hd] /\ m = LoadedMem(f, file[f], choice)
    OBVIOUS
  <2>1. /\ phase[hd] = "load" /\ file' = file /\ mem' = [mem EXCEPT ![hd][f] = m] /\ f \in Files
        /\ \/ f = "index" /\ on'[hd] = "refs" /\ phase'[hd] = "load"
           \/ f = "refs" /\ on'[hd] = "index" /\ phase'[hd] = "pack"
    BY <1>6, <1>0 DEF Load
  <2>2. \A g \in Files : Whole(file[g])
    BY <2>1 DEF Faithful, Trimmed
  <2>3. Trimmed'
    BY <2>1, <2>2, <1>a DEF Trimmed
  <2>4. mem'[hd][f] = m /\ \A g \in Files : g # f => mem'[hd][g] = mem[hd][g]
    BY <2>1, <1>0
  <2>5. /\ \A h \in Listed(file[f]) : m[h] # None
        /\ \A h \in Hashes : Proper(f, file[f], m[h], h)
    BY <2>1, <2>2, <1>0, LoadedSome, ListedHashes
  <2>6. Entire'
    BY <2>1, <2>4, <2>5, <1>a DEF Faithful, Entire
  <2>7. Covered'
    <3>1. ASSUME f = "refs" PROVE \A h \in Listed(file["index"]) : mem[hd]["index"][h] # None
      <4>1. Loaded(hd, "index")
        BY <2>1, <3>1 DEF Loaded
      <4> QED BY <4>1, <1>0, <1>b DEF Faithful, Covered, Inserting
    <3>2. ASSUME NEW g \in Files, Loaded(hd, g)' PROVE \A h \in Listed(file'[g]) : mem'[hd][g][h] # None
      <4>1. CASE g = f
        BY <4>1, <2>1, <2>4, <2>5
      <4>2. CASE g # f
        <5>1. f = "refs" /\ g = "index"
          BY <4>2, <3>2, <2>1, <1>0 DEF Loaded
        <5> QED BY <5>1, <3>1, <2>1, <2>4
      <4> QED BY <4>1, <4>2
    <3> QED BY <3>2, <1>a DEF Covered
  <2> QED BY <2>1, <2>3, <2>6, <2>7, <1>c, <1>g DEF Faithful
<1>7. CASE OpenPack(hd)
  <2>1. mem' = mem /\ file' = file /\ phase[hd] = "pack" /\ phase'[hd] = "open"
    BY <1>7, <1>0 DEF OpenPack
  <2>2. Trimmed'
    BY <2>1, <1>a DEF Trimmed
  <2>3. \A f \in Files : \A h \in Listed(file[f]) : mem[hd][f][h] # None
    BY <2>1, <1>b DEF Faithful, Covered, Loaded, Inserting
  <2>4. Covered'
    BY <2>1, <2>3, <1>a DEF Covered
  <2> QED BY <2>1, <2>2, <2>4, <1>c, <1>d, <1>g DEF Faithful
<1> QED
  BY <1>1, <1>2, <1>3, <1>4, <1>5, <1>6, <1>7 DEF OpenStep

(* A refresh loses no entry and brings in no cut one.                      *)
LEMMA RefreshFaithful ==
    ASSUME TypeOK, NEW hd \in Handles, NEW F \in SUBSET Files, Refresh(hd, F) \/ mem' = mem
    PROVE  /\ \A g \in Handles, f \in Files, h \in Hashes : mem[g][f][h] # None => mem'[g][f][h] # None
           /\ Entire /\ file' = file => Entire'
<1>0. mem \in [Handles -> [Files -> [Hashes -> Locs \cup {None}]]]
  BY DEF TypeOK
<1>1. ASSUME NEW g \in Handles, NEW f \in Files
      PROVE  mem'[g][f] = mem[g][f] \/ (g = hd /\ mem'[g][f] = RefreshedMem(hd, f))
  <2>1. CASE mem' = mem
    BY <2>1
  <2>2. CASE Refresh(hd, F) /\ g = hd
    BY <2>2, <1>0 DEF Refresh
  <2>3. CASE Refresh(hd, F) /\ g # hd
    BY <2>3, <1>0 DEF Refresh
  <2> QED BY <2>1, <2>2, <2>3
<1>2. ASSUME NEW g \in Handles, NEW f \in Files, NEW h \in Hashes
      PROVE  /\ mem[g][f][h] # None => mem'[g][f][h] # None
             /\ Proper(f, file[f], mem[g][f][h], h) => Proper(f, file[f], mem'[g][f][h], h)
  BY <1>1, RefreshedSome
<1>3. Entire /\ file' = file => Entire'
  BY <1>2 DEF Entire
<1> QED BY <1>2, <1>3

(* A step of one thread of an open store that appends nothing and does not *)
(* come from insert.                                                       *)
LEMMA FaithfulMove ==
    ASSUME IndInv, Alone, Faithful, NEW t \in Threads, phase[HandleOf[t]] = "open",
           phase' = phase, on' = on, file' = file, appender' = appender,
           \A u \in Threads : u # t => pc'[u] = pc[u] /\ job'[u] = job[u],
           pc'[t] # "landing", pc[t] # "insert" \/ (pc'[t] = pc[t] /\ job'[t] = job[t]),
           \A g \in Handles, f \in Files, h \in Hashes : mem[g][f][h] # None => mem'[g][f][h] # None,
           Entire'
    PROVE  Faithful'
<1>0. TypeOK /\ HandleOf[t] \in Handles /\ file' \in [Files -> Seq(Cells)]
  BY HandleOfAssumption DEF IndInv, TypeOK
<1>1. \A hd \in Handles : phase'[hd] = "open"
  BY <1>0 DEF Alone
<1>2. Trimmed'
  BY <1>1 DEF Trimmed
<1>3. Landing'
  BY DEF Faithful, Landing
<1>4. \A u \in Threads, f \in Files, h \in Hashes : Inserting(u, f, h) => Inserting(u, f, h)'
  BY DEF Inserting
<1>5. Covered'
  BY <1>0, <1>4, CoveredMove DEF Faithful
<1>6. Blank'
  BY <1>1 DEF Blank
<1> QED BY <1>2, <1>3, <1>5, <1>6 DEF Faithful

LEMMA CallFaithful ==
    ASSUME IndInv, Alone, Faithful, NEW t \in Threads, Call(t)
    PROVE  Faithful'
<1> USE DEF disk, opening, memory, calls, ghosts
<1>0. /\ TypeOK /\ HandleOf[t] \in Handles /\ {"index"} \in SUBSET Files
      /\ pc \in [Threads -> PutSteps \cup {"idle"}] /\ DOMAIN job = Threads
  BY HandleOfAssumption DEF IndInv, TypeOK, Files
<1>1. Refresh(HandleOf[t], {"index"}) \/ mem' = mem
  BY DEF Call, Has, Get, PutMiss, AddReference, ObjectCount, HasEffect
<1>4. file' = file
  BY DEF Call, Has, Get, PutMiss, AddReference, ObjectCount
<1>2. /\ \A g \in Handles, f \in Files, h \in Hashes : mem[g][f][h] # None => mem'[g][f][h] # None
      /\ Entire'
  BY <1>0, <1>1, <1>4, RefreshFaithful DEF Faithful
<1>3. /\ phase[HandleOf[t]] = "open" /\ phase' = phase /\ on' = on /\ file' = file /\ appender' = appender
      /\ pc[t] = "idle" /\ pc'[t] # "landing"
      /\ \A u \in Threads : u # t => pc'[u] = pc[u] /\ job'[u] = job[u]
  BY <1>0 DEF Call, Has, Get, PutMiss, AddReference, ObjectCount, Goto
<1> QED BY <1>2, <1>3, FaithfulMove

LEMMA CallStepFaithful ==
    ASSUME IndInv, Alone, Faithful, NEW t \in Threads, CallStep(t)
    PROVE  Faithful'
<1> USE DEF disk, opening, memory, calls, ghosts
<1>0. /\ TypeOK /\ HandleOf[t] \in Handles /\ Files \in SUBSET Files /\ Files = {"index", "refs"}
      /\ pc \in [Threads -> PutSteps \cup {"idle"}] /\ job \in [Threads -> [f : Files, h : Hashes, p : Nat, o : Nat]]
      /\ mem \in [Handles -> [Files -> [Hashes -> Locs \cup {None}]]]
      /\ file \in [Files -> Seq(Cells)] /\ appender \in [Files -> Threads \cup {None}]
  BY HandleOfAssumption DEF IndInv, TypeOK, Files
<1>a. phase[HandleOf[t]] = "open" /\ phase' = phase /\ on' = on
  <2>1. pc[t] # "idle" /\ phase' = phase /\ on' = on
    BY DEF CallStep, PutLock, PutLateHit, PutRotate, PutSeek, PutWrite, AppendFields, AppendNewline,
           PutInsert, ReferenceInsert, PutAdvance
  <2> QED BY <2>1 DEF IndInv, Locks, CallsOpen
<1>b. \A hd \in Handles : hd = HandleOf[t]
  BY <1>0 DEF Alone
<1>c. Trimmed' /\ Blank'
  BY <1>a, <1>b DEF Trimmed, Blank
<1>d. ASSUME NEW f \in Files, NEW c \in Cells, file' = [file EXCEPT ![f] = Append(@, c)], mem' = mem
      PROVE  Entire'
  <2>1. /\ file'[f] = Append(file[f], c) /\ file[f] \in Seq(Cells)
        /\ \A g \in Files : g # f => file'[g] = file[g]
    BY <1>d, <1>0
  <2>2. \A g \in Files : RanOn(file[g]) \subseteq RanOn(file'[g])
    BY <2>1, RanOnAppend
  <2> QED BY <1>d, <2>2 DEF Faithful, Entire, Proper
<1>1. CASE PutLock(t) \/ PutLateHit(t)
  <2>1. Refresh(HandleOf[t], Files) /\ file' = file
    BY <1>1 DEF PutLock, PutLateHit
  <2>2. /\ \A g \in Handles, f \in Files, h \in Hashes : mem[g][f][h] # None => mem'[g][f][h] # None
        /\ Entire'
    BY <1>0, <2>1, RefreshFaithful DEF Faithful
  <2>3. /\ file' = file /\ appender' = appender /\ pc[t] = "lock" /\ pc'[t] # "landing"
        /\ \A u \in Threads : u # t => pc'[u] = pc[u] /\ job'[u] = job[u]
    BY <1>1, <1>0 DEF PutLock, PutLateHit, Return, Goto
  <2> QED BY <1>a, <2>2, <2>3, FaithfulMove
<1>2. CASE PutRotate(t) \/ PutSeek(t) \/ PutWrite(t) \/ PutAdvance(t)
  <2>1. /\ file' = file /\ appender' = appender /\ pc[t] # "insert" /\ pc'[t] # "landing" /\ mem' = mem
        /\ \A u \in Threads : u # t => pc'[u] = pc[u] /\ job'[u] = job[u]
    BY <1>2, <1>0 DEF PutRotate, PutSeek, PutWrite, PutAdvance, Return, Goto
  <2>2. Entire'
    BY <2>1 DEF Faithful, Entire
  <2> QED BY <1>a, <2>1, <2>2, FaithfulMove
<1>3. CASE AppendFields(t)
  <2> PICK f, c : f = job[t].f /\ file' = [file EXCEPT ![f] = Append(@, c)]
                  /\ \E last \in BOOLEAN : c = LineOf(t, last)
    BY <1>3 DEF AppendFields
  <2>1. /\ f \in Files /\ c \in Lines /\ c \in Cells /\ c # Nl /\ c.h = job[t].h
    BY <1>0, NlAssumption DEF Lines, Cells, LineOf
  <2>2. /\ file' = [file EXCEPT ![f] = Append(@, c)] /\ appender' = [appender EXCEPT ![f] = t]
        /\ appender[f] = None /\ pc' = [pc EXCEPT ![t] = "landing"] /\ job' = job /\ mem' = mem /\ pc[t] = "append"
    BY <1>3 DEF AppendFields, Goto
  <2>3. /\ file'[f] = Append(file[f], c) /\ file[f] \in Seq(Cells)
        /\ \A g \in Files : g # f => file'[g] = file[g]
        /\ file' \in [Files -> Seq(Cells)]
    BY <2>1, <2>2, <1>0
  <2>4. file'[f] # <<>> /\ file'[f][Len(file'[f])] = c
    <3>1. PICK s : s = file[f] /\ s \in Seq(Cells)
      BY <2>3
    <3>2. Append(s, c) # <<>> /\ Append(s, c)[Len(Append(s, c))] = c
      BY ONLY <3>1
    <3> QED BY <3>1, <3>2, <2>3
  <2>5. Landing'
    <3> SUFFICES ASSUME NEW u \in Threads, pc'[u] = "landing"
                 PROVE  LET s == file'[job'[u].f]
                        IN  appender'[job'[u].f] = u /\ s # <<>> /\ s[Len(s)] # Nl /\ s[Len(s)].h = job'[u].h
      BY DEF Landing
    <3>1. CASE u = t
      BY <3>1, <2>1, <2>2, <2>4, <1>0
    <3>2. CASE u # t
      <4>1. pc[u] = "landing" /\ job'[u] = job[u] /\ job[u].f \in Files
        BY <3>2, <2>2, <1>0
      <4>2. appender[job[u].f] = u
        BY <4>1 DEF Faithful, Landing
      <4>3. job[u].f # f
        BY <4>2, <2>2, NoneAssumption
      <4>4. appender'[job[u].f] = u /\ file'[job[u].f] = file[job[u].f]
        BY <4>1, <4>2, <4>3, <2>2, <2>3, <1>0
      <4>5. file[job[u].f] # <<>> /\ file[job[u].f][Len(file[job[u].f])] # Nl
            /\ file[job[u].f][Len(file[job[u].f])].h = job[u].h
        BY <4>1 DEF Faithful, Landing
      <4>6. job'[u] = job[u]
        BY <4>1
      <4> QED BY ONLY <4>4, <4>5, <4>6
    <3> QED BY <3>1, <3>2
  <2>6. \A g \in Files, h \in Hashes : h \in Listed(file'[g]) => h \in Listed(file[g])
    <3>1. \A h \in Hashes : h \in Listed(file'[f]) => h \in Listed(file[f])
      BY <2>1, <2>3, ListedAppend
    <3> QED BY <3>1, <2>3
  <2>7. \A u \in Threads, g \in Files, h \in Hashes : Inserting(u, g, h) => Inserting(u, g, h)'
    BY <2>2, <1>0 DEF Inserting
  <2>8. Covered'
    BY <1>a, <1>0, <2>2, <2>3, <2>6, <2>7, CoveredMove DEF Faithful
  <2> QED BY <1>c, <1>d, <2>1, <2>2, <2>5, <2>8 DEF Faithful
<1>4. CASE AppendNewline(t)
  <2> PICK f, x : f = job[t].f /\ x = job[t].h
    OBVIOUS
  <2>1. f \in Files /\ Nl \in Cells
    BY <1>0 DEF Cells
  <2>2. /\ file' = [file EXCEPT ![f] = Append(@, Nl)] /\ appender' = [appender EXCEPT ![f] = None]
        /\ pc' = [pc EXCEPT ![t] = "insert"] /\ job' = job /\ mem' = mem /\ pc[t] = "landing"
    BY <1>4 DEF AppendNewline, Goto
  <2>3. /\ file'[f] = Append(file[f], Nl) /\ file[f] \in Seq(Cells)
        /\ \A g \in Files : g # f => file'[g] = file[g]
        /\ file' \in [Files -> Seq(Cells)]
    BY <2>1, <2>2, <1>0
  <2>4. appender[f] = t /\ file[f][Len(file[f])].h = job[t].h
    BY <2>2 DEF Faithful, Landing
  <2>5. Landing'
    <3> SUFFICES ASSUME NEW u \in Threads, pc'[u] = "landing"
                 PROVE  LET s == file'[job'[u].f]
                        IN  appender'[job'[u].f] = u /\ s # <<>> /\ s[Len(s)] # Nl /\ s[Len(s)].h = job'[u].h
      BY DEF Landing
    <3>1. u # t /\ pc[u] = "landing" /\ job'[u] = job[u] /\ job[u].f \in Files
      BY <2>2, <1>0
    <3>2. appender[job[u].f] = u
      BY <3>1 DEF Faithful, Landing
    <3>3. job[u].f # f
      BY <3>1, <3>2, <2>4
    <3>4. appender'[job[u].f] = u /\ file'[job[u].f] = file[job[u].f]
      BY <3>1, <3>2, <3>3, <2>2, <2>3, <1>0
    <3> QED BY <3>1, <3>4 DEF Faithful, Landing
  <2>6. Inserting(t, f, x)'
    BY <2>2, <1>0 DEF Inserting
  <2>7. \A g \in Files, h \in Hashes :
           h \in Listed(file'[g]) => h \in Listed(file[g]) \/ \E u \in Threads : Inserting(u, g, h)'
    <3>1. \A h \in Hashes : h \in Listed(file'[f]) => h \in Listed(file[f]) \/ h = job[t].h
      <4>1. \A h \in Hashes : h \in Listed(Append(file[f], Nl)) => h \in Listed(file[f]) \/ h = file[f][Len(file[f])].h
        BY <2>1, <2>3, ListedAppend
      <4> QED BY <4>1, <2>3, <2>4
    <3>2. \A h \in Hashes : h \in Listed(file'[f]) => h \in Listed(file[f]) \/ \E u \in Threads : Inserting(u, f, h)'
      BY <3>1, <2>6
    <3> QED BY <3>2, <2>3
  <2>8. \A u \in Threads, g \in Files, h \in Hashes : Inserting(u, g, h) => Inserting(u, g, h)'
    BY <2>2, <1>0 DEF Inserting
  <2>9. Covered'
    BY <1>a, <1>0, <2>2, <2>3, <2>7, <2>8, CoveredMove DEF Faithful
  <2> QED BY <1>c, <1>d, <2>1, <2>2, <2>5, <2>9 DEF Faithful
<1>5. CASE PutInsert(t) \/ ReferenceInsert(t)
  <2> PICK f, h, hd, loc : f = job[t].f /\ h = job[t].h /\ hd = HandleOf[t] /\ loc = NewLoc(t)
    OBVIOUS
  <2>1. /\ mem' = [mem EXCEPT ![hd][f][h] = loc] /\ file' = file /\ appender' = appender
        /\ \A u \in Threads : u # t => pc'[u] = pc[u] /\ job'[u] = job[u]
        /\ pc'[t] # "landing" /\ pc[t] = "insert"
    BY <1>5, <1>0 DEF PutInsert, ReferenceInsert, Return, Goto
  <2>2. f \in Files /\ h \in Hashes /\ hd \in Handles
    BY <1>0
  <2>3. loc # None /\ loc.len = 1
    <3>1. loc \in [p : Nat, o : Nat, len : {0, 1}] /\ loc.len = 1
      BY <1>0 DEF NewLoc
    <3> QED BY <3>1, NoneAssumption
  <2>4. \A g \in Handles, e \in Files, x \in Hashes :
           IF g = hd /\ e = f /\ x = h THEN mem'[g][e][x] = loc ELSE mem'[g][e][x] = mem[g][e][x]
    BY <2>1, <2>2, <1>0
  <2>5. \A g \in Handles, e \in Files, x \in Hashes : mem[g][e][x] # None => mem'[g][e][x] # None
    BY <2>3, <2>4
  <2>6. Entire'
    BY <2>1, <2>3, <2>4 DEF Faithful, Entire, Proper
  <2>7. \A u \in Threads, e \in Files, x \in Hashes :
           Inserting(u, e, x) => Inserting(u, e, x)' \/ \A g \in Handles : mem'[g][e][x] # None
    <3>1. ASSUME NEW e \in Files, NEW x \in Hashes, Inserting(t, e, x) PROVE \A g \in Handles : mem'[g][e][x] # None
      BY <3>1, <2>2, <2>3, <2>4, <1>b DEF Inserting
    <3>2. ASSUME NEW u \in Threads, u # t, NEW e, NEW x, Inserting(u, e, x) PROVE Inserting(u, e, x)'
      BY <3>2, <2>1 DEF Inserting
    <3> QED BY <3>1, <3>2
  <2>8. Landing'
    BY <2>1 DEF Faithful, Landing
  <2>9. \A e \in Files, x \in Hashes : x \in Listed(file'[e]) => x \in Listed(file[e])
    BY <2>1
  <2>10. file' \in [Files -> Seq(Cells)]
    BY <2>1, <1>0
  <2>11. Covered'
    BY <1>a, <1>0, <2>5, <2>7, <2>9, <2>10, CoveredMove DEF Faithful
  <2> QED BY <1>c, <2>6, <2>8, <2>11 DEF Faithful
<1> QED
  BY <1>1, <1>2, <1>3, <1>4, <1>5 DEF CallStep

LEMMA FaultFaithful ==
    ASSUME IndInv, Alone, Faithful, Fault
    PROVE  Faithful'
<1> USE DEF disk, opening, memory, calls, ghosts
<1>0. /\ TypeOK /\ HandleOf \in [Threads -> Handles]
      /\ pc \in [Threads -> PutSteps \cup {"idle"}] /\ job \in [Threads -> [f : Files, h : Hashes, p : Nat, o : Nat]]
      /\ mem \in [Handles -> [Files -> [Hashes -> Locs \cup {None}]]] /\ phase \in [Handles -> Phases]
      /\ file \in [Files -> Seq(Cells)] /\ appender \in [Files -> Threads \cup {None}]
  BY HandleOfAssumption DEF IndInv, TypeOK
<1>1. ASSUME NEW t \in Threads, NEW torn \in BOOLEAN, PutWriteFails(t, torn)
      PROVE  Faithful'
  <2>1. /\ file' = file /\ appender' = appender /\ pc[t] = "write" /\ pc'[t] # "landing" /\ mem' = mem
        /\ phase' = phase /\ on' = on
        /\ \A u \in Threads : u # t => pc'[u] = pc[u] /\ job'[u] = job[u]
    BY <1>1, <1>0 DEF PutWriteFails, Return, Goto
  <2>2. phase[HandleOf[t]] = "open" /\ Entire'
    BY <2>1 DEF IndInv, Locks, CallsOpen, Faithful, Entire
  <2> QED BY <2>1, <2>2, FaithfulMove
<1>2. ASSUME NEW t \in Threads, AppendFails(t)
      PROVE  Faithful'
  <2> PICK f : f = job[t].f
    OBVIOUS
  <2>1. /\ file' = file /\ pc[t] \in {"append", "landing"} /\ pc'[t] = "idle" /\ mem' = mem
        /\ phase' = phase /\ on' = on
        /\ \A u \in Threads : u # t => pc'[u] = pc[u] /\ job'[u] = job[u]
        /\ appender' = IF pc[t] = "landing" THEN [appender EXCEPT ![f] = None] ELSE appender
    BY <1>2, <1>0 DEF AppendFails, Return, Goto
  <2>2. \A hd \in Handles : phase'[hd] = "open"
    BY <2>1, <1>0 DEF IndInv, Locks, CallsOpen, Alone
  <2>3. Trimmed'
    BY <2>2 DEF Trimmed
  <2>4. Landing'
    <3> SUFFICES ASSUME NEW u \in Threads, pc'[u] = "landing"
                 PROVE  LET s == file'[job'[u].f]
                        IN  appender'[job'[u].f] = u /\ s # <<>> /\ s[Len(s)] # Nl /\ s[Len(s)].h = job'[u].h
      BY DEF Landing
    <3>1. u # t /\ pc[u] = "landing" /\ job'[u] = job[u] /\ job[u].f \in Files
      BY <2>1, <1>0
    <3>2. appender[job[u].f] = u
      BY <3>1 DEF Faithful, Landing
    <3>3. appender'[job[u].f] = u
      <4>1. CASE pc[t] = "landing"
        <5>1. appender[f] = t
          BY <4>1 DEF Faithful, Landing
        <5> QED BY <5>1, <3>1, <3>2, <2>1, <1>0
      <4>2. CASE pc[t] # "landing"
        BY <4>2, <3>2, <2>1
      <4> QED BY <4>1, <4>2
    <3> QED BY <3>1, <3>3, <2>1 DEF Faithful, Landing
  <2>5. \A u \in Threads, e \in Files, x \in Hashes : Inserting(u, e, x) => Inserting(u, e, x)'
    BY <2>1 DEF Inserting
  <2>6. Covered'
    BY <1>0, <2>1, <2>5, CoveredMove DEF Faithful
  <2>7. Blank'
    BY <2>2 DEF Blank
  <2> QED BY <2>1, <2>3, <2>4, <2>6, <2>7 DEF Faithful, Entire
<1>3. ASSUME NEW hd \in Handles, NEW torn \in BOOLEAN, Crash(hd, torn)
      PROVE  Faithful'
  <2>1. \A g \in Handles : g = hd
    BY DEF Alone
  <2>2. phase'[hd] = "closed" /\ mem'[hd] = EmptyMem /\ \A t \in Threads : pc'[t] = "idle"
    BY <1>3, <2>1, <1>0 DEF Crash, Forget
  <2>3. Covered' /\ Trimmed'
    BY <2>1, <2>2 DEF Covered, Trimmed, Loaded
  <2>4. Landing' /\ Entire' /\ Blank'
    BY <2>1, <2>2 DEF Landing, Entire, EmptyMem, Proper, Blank
  <2> QED BY <2>3, <2>4 DEF Faithful
<1>4. ASSUME NEW h \in Hashes, NEW s \in Sources \ {"there"}, EditSource(h, s)
      PROVE  Faithful'
  BY <1>4 DEF EditSource, Faithful, Covered, Landing, Trimmed, Blank, Entire, Loaded, Inserting
<1> QED
  BY <1>1, <1>2, <1>3, <1>4 DEF Fault

LEMMA InitFaithful == Init => Faithful
<1> SUFFICES ASSUME Init PROVE Faithful
  OBVIOUS
<1>1. Covered /\ Trimmed
  BY DEF Init, Covered, Trimmed, Loaded
<1>2. Landing /\ Entire /\ Blank
  BY DEF Init, Landing, Entire, EmptyMem, Proper, Blank
<1> QED BY <1>1, <1>2 DEF Faithful

LEMMA StepFaithful == IndInv /\ Alone /\ Faithful /\ [Next]_vars => Faithful'
<1> SUFFICES ASSUME IndInv, Alone, Faithful, [Next]_vars PROVE Faithful'
  OBVIOUS
<1>1. CASE Next
  BY <1>1, OpenFaithful, CallFaithful, CallStepFaithful, FaultFaithful DEF Next
<1>2. CASE UNCHANGED vars
  BY <1>2 DEF vars, Faithful, Covered, Landing, Trimmed, Blank, Entire, Loaded, Inserting
<1> QED BY <1>1, <1>2

(* While one handle uses the directory, has() answers true for every chunk *)
(* that a sidecar lists, however its threads interleave, whatever fails    *)
(* and however often it crashes and reopens.                               *)
THEOREM StoreHasFinds == ASSUME Alone PROVE Spec => []HasFindsListed
<1>1. IndInv /\ Faithful => HasFindsListed
  <2> SUFFICES ASSUME IndInv, Faithful, NEW hd \in Handles, NEW h \in Hashes, Settled(hd, h),
                      NEW f \in Files, h \in Listed(file[f])
               PROVE  HasAnswer(hd, h)
    BY DEF HasFindsListed
  <2>1. Loaded(hd, f)
    BY DEF Settled, Loaded
  <2>2. \A t \in Threads : ~Inserting(t, f, h)
    BY HandleOfAssumption DEF Settled, ThreadsOf, Inserting, Alone
  <2>3. mem[hd][f][h] # None
    BY <2>1, <2>2 DEF Faithful, Covered
  <2> QED BY <2>3 DEF HasAnswer, Known, Files
<1>2. IndInv /\ Faithful /\ [Next]_vars => Faithful'
  BY StepFaithful
<1> QED
  BY <1>1, <1>2, InitIndInv, StepIndInv, InitFaithful, PTL DEF Spec

LEMMA OneCell ==
    ASSUME NEW S, NEW r \in Seq(S), Len(r) = 1
    PROVE  r = <<r[1]>>
OBVIOUS

LEMMA OneChunk ==
    ASSUME NEW S, NEW P \in Seq(S), NEW o \in Nat, o + 1 \in DOMAIN P
    PROVE  SubSeq(P, o + 1, o + 1) = <<P[o + 1]>>
<1>1. /\ SubSeq(P, o + 1, o + 1) \in Seq(S)
      /\ Len(SubSeq(P, o + 1, o + 1)) = 1
      /\ SubSeq(P, o + 1, o + 1)[1] = P[o + 1]
  OBVIOUS
<1> QED
  BY <1>1, OneCell

(* While one handle uses the directory, what has() answers true for can be *)
(* read back: get finds the packed chunk, the old object or the reference, *)
(* unless the referenced file was changed, or a failed append cut the      *)
(* reference inside its path and the next append ran into it.              *)
THEOREM StoreHasGet == ASSUME Alone PROVE Spec => []HasImpliesGet
<1>1. IndInv /\ Faithful => HasImpliesGet
  <2> SUFFICES ASSUME IndInv, Faithful, NEW hd \in Handles, NEW h \in Hashes, h \notin RanOn(file["refs"]),
                      source[h] = "there", HasAnswer(hd, h)
               PROVE  GetAnswer(hd, h) = "ok"
    BY DEF HasImpliesGet
  <2>0. TypeOK /\ "index" \in Files /\ "refs" \in Files /\ packs \in Seq(Seq(Hashes \cup {Torn}))
    BY DEF IndInv, TypeOK, Files
  <2>1. ASSUME NEW loc, loc # None, loc \in Locs, loc.len = 1, Names(packs, loc.p, loc.o, h)
        PROVE  GetPacked(loc, h) = "ok"
    <3> PICK P, o : P = packs[loc.p] /\ o = loc.o
      OBVIOUS
    <3>1. loc.p \in DOMAIN packs /\ o + 1 \in DOMAIN P /\ P[o + 1] = h /\ o \in Nat
      BY <2>1 DEF Names, Locs
    <3>2. P \in Seq(Hashes \cup {Torn})
      BY <3>1, <2>0
    <3>3. SubSeq(P, o + 1, o + 1) = <<P[o + 1]>>
      BY <3>1, <3>2, OneChunk
    <3> QED BY <2>1, <3>1, <3>3 DEF GetPacked, Resolves
  <2>2. CASE mem[hd]["index"][h] # None
    <3> PICK loc : loc = mem[hd]["index"][h]
      OBVIOUS
    <3>1. loc \in Locs /\ Names(packs, loc.p, loc.o, h) /\ loc.len = 1
      BY <2>2, <2>0 DEF IndInv, TypeOK, Sound, MapsSound, MemSound, Faithful, Entire, Proper
    <3>2. GetPacked(loc, h) = "ok"
      BY <3>1, <2>1, <2>2
    <3> QED BY <3>2 DEF GetAnswer, GetLocal
  <2>3. CASE mem[hd]["index"][h] = None /\ (h \in Legacy \/ mem[hd]["refs"][h] # None)
    <3>1. h \notin Legacy => mem[hd]["refs"][h].len = 1
      BY <2>3, <2>0 DEF Faithful, Entire, Proper
    <3> QED BY <2>3, <3>1 DEF GetAnswer, GetLocal, GetPacked, GetReference
  <2>4. CASE ~Known(mem[hd], h)
    <3> PICK loc : loc = RefreshedMem(hd, "index")[h]
      OBVIOUS
    <3>1. loc # None /\ mem[hd]["index"][h] = None /\ h \notin Legacy /\ mem[hd]["refs"][h] = None
      BY <2>4 DEF HasAnswer, Known
    <3>2. loc \in Locs
      BY <3>1, <2>0, RefreshFact
    <3>3. MemSound(packs, RefreshedMem(hd, "index"))
      BY <2>0, RefreshFact DEF IndInv, Sound, MapsSound, IndexSound
    <3>4. Names(packs, loc.p, loc.o, h)
      BY <3>1, <3>3 DEF MemSound
    <3>5. loc.len = 1
      <4>1. Proper("index", file["index"], loc, h)
        BY <3>1, <2>0, RefreshedSome DEF Proper
      <4> QED BY <3>1, <4>1 DEF Proper
    <3>6. GetPacked(loc, h) = "ok"
      BY <3>1, <3>2, <3>4, <3>5, <2>1
    <3> QED BY <3>1, <3>6 DEF GetAnswer, GetLocal, GetPacked, GetReference
  <2> QED BY <2>2, <2>3, <2>4 DEF Known
<1>2. IndInv /\ Faithful /\ [Next]_vars => Faithful'
  BY StepFaithful
<1> QED
  BY <1>1, <1>2, InitIndInv, StepIndInv, InitFaithful, PTL DEF Spec

-----------------------------------------------------------------------------
(* The refinement.  While one handle uses the directory, no write has      *)
(* failed and the process crashes at most once, what the sidecars list,    *)
(* what the maps hold and what has() answers agree.  (A second crash       *)
(* inside fs::write, or an append after one that failed, loses lines.)     *)

Calm == Alone /\ MaxCrashes <= 1
Unfailed == used["errors"] = 0

(* Errors are counted for ever.                                            *)
LEMMA UnfailedBefore == ASSUME TypeOK, [Next]_vars, Unfailed' PROVE Unfailed
<1> USE DEF disk, opening, memory, calls, ghosts, Unfailed
<1>0. used \in [Bounded -> Nat] /\ "errors" \in Bounded 
  BY DEF TypeOK, Bounded
<1>1. CASE Fault
  BY <1>0, <1>1 DEF Fault, PutWriteFails, AppendFails, Crash, EditSource, Bounded
<1>2. ASSUME NEW hd \in Handles, Open(hd) \/ Close(hd) \/ OpenStep(hd)
      PROVE  used'["errors"] = used["errors"]
  BY <1>0, <1>2 DEF Open, Close, OpenStep, TrimRead, TrimCut, TrimFill, Load, OpenPack
<1>3. ASSUME NEW t \in Threads, Call(t)
      PROVE  used'["errors"] = used["errors"]
  <2>1. ASSUME NEW h \in Hashes, Has(t, h) \/ Get(t, h) \/ ObjectCount(t)
        PROVE  used' = used
    BY <2>1 DEF Has, Get, ObjectCount, Refresh
  <2>2. ASSUME NEW h \in Hashes, PutMiss(t, h) \/ AddReference(t, h)
        PROVE  used'["errors"] = used["errors"]
    BY <1>0, <2>2 DEF PutMiss, AddReference
  <2> QED BY <1>3, <2>1, <2>2, HashesAssumption DEF Call
<1>4. ASSUME NEW t \in Threads, CallStep(t)
      PROVE  used'["errors"] = used["errors"]
  BY <1>0, <1>4 DEF CallStep, PutLock, PutLateHit, PutRotate, PutSeek, PutWrite, AppendFields, AppendNewline,
         PutInsert, ReferenceInsert, PutAdvance
<1> QED BY <1>1, <1>2, <1>3, <1>4 DEF Next, vars

(* No two lines run together.                                              *)
Parted(s) == \A i \in DOMAIN s : i > 1 /\ s[i] # Nl => s[i - 1] = Nl
PartedFiles ==
    /\ \A f \in Files : Parted(file[f])
    /\ \A hd \in Handles : phase[hd] = "fill" => Parted(kept[hd])

(* Only a call that is landing holds a sidecar, and between two calls the  *)
(* sidecar ends in a newline.                                              *)
HeldByLanding ==
    \A f \in Files : appender[f] # None =>
        \E t \in Threads : appender[f] = t /\ pc[t] = "landing" /\ job[t].f = f
WholeBetween ==
    \A hd \in Handles : phase[hd] = "open" => \A f \in Files : appender[f] = None => Whole(file[f])

(* Only after a crash is there anything to trim.                           *)
TornByCrash ==
    \A hd \in Handles :
        /\ phase[hd] \in {"closed", "trim"} /\ used["crashes"] = 0 => \A f \in Files : Whole(file[f])
        /\ phase[hd] \in {"cut", "fill"} => used["crashes"] # 0

(* The maps hold nothing that no line lists.                               *)
HeldIsListed ==
    \A hd \in Handles, f \in Files, h \in Hashes :
        mem[hd][f][h] # None =>
            h \in Listed(file[f]) /\ phase[hd] \notin {"closed", "trim", "cut", "fill"}
Landed ==
    \A t \in Threads : pc[t] \in {"insert", "advance"} => job[t].h \in Listed(file[job[t].f])

Exact == PartedFiles /\ HeldByLanding /\ WholeBetween /\ TornByCrash /\ HeldIsListed /\ Landed

LEMMA PartedLines ==
    ASSUME NEW s \in Seq(Cells), Parted(s), NEW from \in Nat, NEW i \in CompleteLines(s, from)
    PROVE  i \in CompleteLines(s, 0) /\ s[i].h \in Listed(s)
<1>1. /\ i \in 1 .. Len(s) /\ i + 1 \in DOMAIN s /\ s[i + 1] = Nl /\ s[i] # Nl /\ i \in DOMAIN s
  BY DEF CompleteLines, StartsLine
<1>2. i = 0 + 1 \/ s[i - 1] = Nl
  BY <1>1 DEF Parted
<1>3. i \in CompleteLines(s, 0)
  BY <1>1, <1>2 DEF CompleteLines, StartsLine
<1> QED BY <1>3 DEF Listed

LEMMA PartedReads ==
    ASSUME NEW s \in Seq(Cells), Parted(s), NEW f \in Files, NEW from \in Nat, NEW to \in Nat,
           to <= Len(s) \/ to = from
    PROVE  Readable(f, s, from, to) = CompleteLines(s, from)
<1>1. ASSUME NEW i \in RunsOn(s, from, to) PROVE FALSE
  <2>1. i \in DOMAIN s /\ i > from /\ i < to /\ s[i] # Nl /\ s[i + 1] # Nl
    BY DEF RunsOn, StartsLine
  <2>2. i + 1 \in DOMAIN s /\ i + 1 > 1 /\ (i + 1) - 1 = i
    BY <2>1
  <2> QED BY <2>1, <2>2 DEF Parted
<1> QED BY <1>1 DEF Readable

LEMMA PartedAppend ==
    ASSUME NEW s \in Seq(Cells), NEW c \in Cells, Parted(s), c = Nl \/ Whole(s)
    PROVE  Parted(Append(s, c))
<1> PICK a, n : a = Append(s, c) /\ n = Len(s)
  OBVIOUS
<1>1. /\ DOMAIN a = 1 .. n + 1 /\ DOMAIN s = 1 .. n /\ n \in Nat /\ a[n + 1] = c
      /\ \A i \in 1 .. n : a[i] = s[i]
  OBVIOUS
<1> SUFFICES ASSUME NEW i \in 1 .. n + 1, i > 1, a[i] # Nl PROVE a[i - 1] = Nl
  BY <1>1 DEF Parted
<1>2. CASE i = n + 1
  <2>1. n # 0 /\ n \in 1 .. n /\ i - 1 = n
    BY <1>1, <1>2
  <2>2. s # <<>> /\ s[n] = Nl
    BY <2>1, <1>1, <1>2 DEF Whole
  <2> QED BY <2>1, <2>2, <1>1
<1>3. CASE i # n + 1
  <2>1. i \in 1 .. n /\ i - 1 \in 1 .. n /\ i \in DOMAIN s
    BY <1>1, <1>3
  <2>2. s[i - 1] = Nl
    BY <2>1, <1>1 DEF Parted
  <2> QED BY <2>1, <2>2, <1>1
<1> QED BY <1>2, <1>3

(* The newline completes the line that was last.                           *)
LEMMA ListedNewline ==
    ASSUME NEW s \in Seq(Cells), Parted(s), s # <<>>, s[Len(s)] # Nl
    PROVE  s[Len(s)].h \in Listed(Append(s, Nl))
<1> PICK a, n : a = Append(s, Nl) /\ n = Len(s)
  OBVIOUS
<1>1. /\ DOMAIN a = 1 .. n + 1 /\ DOMAIN s = 1 .. n /\ n \in Nat /\ n # 0 /\ a[n + 1] = Nl
      /\ \A i \in 1 .. n : a[i] = s[i]
  OBVIOUS
<1>2. n = 1 \/ (n - 1 \in 1 .. n /\ s[n - 1] = Nl)
  BY <1>1 DEF Parted
<1>3. n = 0 + 1 \/ a[n - 1] = Nl
  BY <1>1, <1>2
<1>4. n \in DOMAIN a /\ n + 1 \in DOMAIN a /\ n > 0 /\ a[n] = s[n]
  BY <1>1
<1>5. n \in CompleteLines(a, 0)
  BY <1>1, <1>3, <1>4 DEF CompleteLines, StartsLine
<1> QED BY <1>4, <1>5 DEF Listed

(* What a trim keeps lists what the text listed.                           *)
LEMMA ListedKept ==
    ASSUME NEW s \in Seq(Cells)
    PROVE  /\ Listed(SubSeq(s, 1, CompleteEnd(s, 0))) = Listed(s)
           /\ Parted(s) => Parted(SubSeq(s, 1, CompleteEnd(s, 0)))
<1> DEFINE S == {0} \cup {i \in DOMAIN s : i > 0 /\ s[i] = Nl}
<1> PICK n : n = CompleteEnd(s, 0)
  OBVIOUS
<1> PICK k : k = SubSeq(s, 1, n)
  OBVIOUS
<1>1. S \in SUBSET Nat /\ S # {} /\ Len(s) \in Nat /\ \A x \in S : x <= Len(s)
  OBVIOUS
<1>2. n \in S /\ \A x \in S : x <= n
  <2>1. n = Max(S)
    BY DEF CompleteEnd
  <2> HIDE DEF S
  <2> QED BY <1>1, <2>1, MaxIsMember
<1>3. n \in Nat /\ n <= Len(s) /\ \A i \in DOMAIN s : s[i] = Nl => i <= n
  BY <1>1, <1>2
<1>4. DOMAIN k = 1 .. n /\ DOMAIN s = 1 .. Len(s) /\ \A i \in 1 .. n : k[i] = s[i] /\ i \in 1 .. Len(s)
  BY <1>3
<1>5. CompleteLines(k, 0) = CompleteLines(s, 0)
  <2>1. ASSUME NEW i \in CompleteLines(k, 0) PROVE i \in CompleteLines(s, 0)
    <3>1. /\ i \in 1 .. n /\ i + 1 \in 1 .. n /\ k[i + 1] = Nl /\ k[i] # Nl /\ (i = 0 + 1 \/ k[i - 1] = Nl)
      BY <1>4 DEF CompleteLines, StartsLine
    <3>2. i = 0 + 1 \/ i - 1 \in 1 .. n
      BY <3>1, <1>3
    <3> QED BY <3>1, <3>2, <1>3, <1>4 DEF CompleteLines, StartsLine
  <2>2. ASSUME NEW i \in CompleteLines(s, 0) PROVE i \in CompleteLines(k, 0)
    <3>1. /\ i \in 1 .. Len(s) /\ i + 1 \in 1 .. Len(s) /\ s[i + 1] = Nl /\ s[i] # Nl /\ (i = 0 + 1 \/ s[i - 1] = Nl)
      BY <1>4 DEF CompleteLines, StartsLine
    <3>2. i \in 1 .. n /\ i + 1 \in 1 .. n /\ (i = 0 + 1 \/ i - 1 \in 1 .. n)
      BY <3>1, <1>3, <1>4
    <3> QED BY <3>1, <3>2, <1>4 DEF CompleteLines, StartsLine
  <2> QED BY <2>1, <2>2
<1>6. \A i \in CompleteLines(k, 0) : k[i] = s[i]
  BY <1>4 DEF CompleteLines
<1>7. Listed(k) = Listed(s)
  BY <1>5, <1>6 DEF Listed
<1>8. ASSUME Parted(s) PROVE Parted(k)
  <2> SUFFICES ASSUME NEW i \in 1 .. n, i > 1, k[i] # Nl PROVE k[i - 1] = Nl
    BY <1>4 DEF Parted
  <2>1. i \in DOMAIN s /\ s[i] # Nl /\ i - 1 \in 1 .. n
    BY <1>3, <1>4
  <2> QED BY <2>1, <1>4, <1>8 DEF Parted
<1> QED BY <1>7, <1>8

LEMMA OpenExact ==
    ASSUME IndInv, Alone, Faithful, Exact, NEW hd \in Handles, Open(hd) \/ Close(hd) \/ OpenStep(hd)
    PROVE  Exact'
<1> USE DEF disk, opening, memory, calls, ghosts
<1>0. /\ TypeOK /\ file \in [Files -> Seq(Cells)] /\ kept \in [Handles -> Seq(Cells)]
      /\ mem \in [Handles -> [Files -> [Hashes -> Locs \cup {None}]]] /\ phase \in [Handles -> Phases]
      /\ on \in [Handles -> Files] /\ used \in [Bounded -> Nat] /\ Files = {"index", "refs"}
  BY DEF IndInv, TypeOK, Files
<1>a. \A x \in Handles : x = hd
  BY DEF Alone
<1>b. pc' = pc /\ appender' = appender /\ \A t \in Threads : pc[t] = "idle"
  BY OpeningIdle
<1>c. \A f \in Files : appender[f] = None
  BY <1>b DEF Exact, HeldByLanding
<1>d. HeldByLanding' /\ Landed'
  BY <1>b, <1>c DEF HeldByLanding, Landed
<1>e. phase[hd] \in {"closed", "trim", "cut", "fill"} => \A f \in Files, h \in Hashes : mem[hd][f][h] = None
  BY DEF Exact, HeldIsListed
<1>1. CASE Open(hd)
  <2>1. /\ mem' = mem /\ phase[hd] = "closed" /\ phase'[hd] = "trim" /\ file' = file /\ used'["crashes"] = used["crashes"]
    BY <1>1, <1>0 DEF Open
  <2>2. PartedFiles' /\ WholeBetween' /\ TornByCrash'
    BY <2>1, <1>a DEF Exact, PartedFiles, WholeBetween, TornByCrash
  <2>3. HeldIsListed'
    BY <2>1, <1>a, <1>e DEF HeldIsListed
  <2> QED BY <2>2, <2>3, <1>d DEF Exact
<1>2. CASE Close(hd)
  <2>1. mem'[hd] = EmptyMem /\ phase[hd] = "open" /\ phase'[hd] = "closed" /\ file' = file
    BY <1>2, <1>0 DEF Close, Forget
  <2>2. \A f \in Files : Whole(file[f])
    BY <2>1, <1>c DEF Exact, WholeBetween
  <2>3. PartedFiles' /\ WholeBetween' /\ TornByCrash'
    BY <2>1, <2>2, <1>a DEF Exact, PartedFiles, WholeBetween, TornByCrash
  <2>4. HeldIsListed'
    BY <2>1, <1>a DEF HeldIsListed, EmptyMem
  <2> QED BY <2>3, <2>4, <1>d DEF Exact
<1>3. CASE TrimRead(hd)
  <2> PICK s : s = file[on[hd]]
    OBVIOUS
  <2>0. mem' = mem /\ file' = file /\ s \in Seq(Cells) /\ phase[hd] = "trim" /\ used' = used /\ on[hd] \in Files
    BY <1>3, <1>0 DEF TrimRead
  <2>1. phase'[hd] \in {"cut", "trim", "load"} /\ (phase'[hd] = "cut" => TornTail(s))
    BY <1>3, <1>0 DEF TrimRead, TrimDone
  <2>2. TornTail(s) => used["crashes"] # 0
    BY <2>0, TrimWhole DEF Exact, TornByCrash
  <2>3. PartedFiles' /\ WholeBetween' /\ TornByCrash'
    BY <2>0, <2>1, <2>2, <1>a DEF Exact, PartedFiles, WholeBetween, TornByCrash
  <2>4. HeldIsListed'
    BY <2>0, <1>a, <1>e DEF HeldIsListed
  <2> QED BY <2>3, <2>4, <1>d DEF Exact
<1>4. CASE TrimCut(hd)
  <2> PICK f : f = on[hd]
    OBVIOUS
  <2>1. /\ mem' = mem /\ phase[hd] = "cut" /\ phase'[hd] = "fill" /\ kept' = kept /\ f \in Files /\ used' = used
        /\ file'[f] = <<>> /\ \A g \in Files : g # f => file'[g] = file[g]
    BY <1>4, <1>0 DEF TrimCut
  <2>2. Parted(kept[hd])
    <3> PICK s : s = file[f]
      OBVIOUS
    <3>1. s \in Seq(Cells) /\ Parted(s)
      BY <2>1, <1>0 DEF Exact, PartedFiles
    <3>2. kept[hd] = SubSeq(s, 1, CompleteEnd(s, 0))
      BY <2>1 DEF Faithful, Trimmed
    <3> QED BY <3>1, <3>2, ListedKept
  <2>3. PartedFiles'
    <3>1. Parted(<<>>)
      BY DEF Parted
    <3>2. \A g \in Files : Parted(file'[g])
      BY <3>1, <2>1 DEF Exact, PartedFiles
    <3> QED BY <3>2, <2>1, <2>2, <1>a DEF PartedFiles
  <2>4. WholeBetween' /\ TornByCrash'
    BY <2>1, <1>a DEF Exact, WholeBetween, TornByCrash
  <2>5. HeldIsListed'
    BY <2>1, <1>a, <1>e DEF HeldIsListed
  <2> QED BY <2>3, <2>4, <2>5, <1>d DEF Exact
<1>5. CASE TrimFill(hd)
  <2> PICK f : f = on[hd]
    OBVIOUS
  <2>1. file[f] = <<>> /\ phase[hd] = "fill" /\ f \in Files /\ Parted(kept[hd]) /\ used["crashes"] # 0
    BY <1>5, <1>0 DEF TrimFill, Faithful, Trimmed, Exact, PartedFiles, TornByCrash
  <2>2. mem' = mem /\ file'[f] = kept[hd] \o SubSeq(file[f], Len(kept[hd]) + 1, Len(file[f]))
        /\ used' = used /\ \A g \in Files : g # f => file'[g] = file[g]
    BY <1>5, <1>0 DEF TrimFill
  <2>3. file'[f] = kept[hd]
    BY <2>1, <2>2, <1>0, FillEmpty
  <2>4. phase'[hd] \in {"trim", "load"}
    BY <1>5, <1>0 DEF TrimFill, TrimDone
  <2>5. PartedFiles' /\ WholeBetween' /\ TornByCrash'
    <3>1. \A g \in Files : Parted(file'[g])
      BY <2>1, <2>2, <2>3 DEF Exact, PartedFiles
    <3> QED BY <3>1, <2>1, <2>2, <2>4, <1>a DEF PartedFiles, WholeBetween, TornByCrash
  <2>6. HeldIsListed'
    BY <2>1, <2>2, <1>a, <1>e DEF HeldIsListed
  <2> QED BY <2>5, <2>6, <1>d DEF Exact
<1>6. ASSUME NEW choice \in LoadChoices, Load(hd, choice) PROVE Exact'
  <2> PICK f, m : f = on[hd] /\ m = LoadedMem(f, file[f], choice)
    OBVIOUS
  <2>1. /\ phase[hd] = "load" /\ file' = file /\ mem' = [mem EXCEPT ![hd][f] = m] /\ f \in Files
        /\ phase'[hd] \in {"load", "pack"}
    BY <1>6, <1>0 DEF Load
  <2>2. Whole(file[f])
    BY <2>1 DEF Faithful, Trimmed
  <2>3. mem'[hd][f] = m /\ \A g \in Files : g # f => mem'[hd][g] = mem[hd][g]
    BY <2>1, <1>0
  <2>a. file[f] \in Seq(Cells) /\ Parted(file[f])
    BY <2>1, <1>0 DEF Exact, PartedFiles
  <2>b. Readable(f, file[f], 0, Len(file[f])) = CompleteLines(file[f], 0)
    BY <2>1, <2>a, PartedReads
  <2>4. \A h \in Hashes : m[h] # None => h \in Listed(file[f])
    BY <2>1, <2>2, <2>a, <2>b, LoadedSome DEF Listed
  <2>5. HeldIsListed'
    BY <2>1, <2>3, <2>4, <1>a DEF Exact, HeldIsListed
  <2>6. PartedFiles' /\ WholeBetween' /\ TornByCrash'
    BY <2>1, <1>a DEF Exact, PartedFiles, WholeBetween, TornByCrash
  <2> QED BY <2>5, <2>6, <1>d DEF Exact
<1>7. CASE OpenPack(hd)
  <2>1. mem' = mem /\ file' = file /\ phase[hd] = "pack" /\ phase'[hd] = "open"
    BY <1>7, <1>0 DEF OpenPack
  <2>2. \A f \in Files : Whole(file[f])
    BY <2>1 DEF Faithful, Trimmed
  <2>3. PartedFiles' /\ WholeBetween' /\ TornByCrash'
    BY <2>1, <2>2, <1>a DEF Exact, PartedFiles, WholeBetween, TornByCrash
  <2>4. HeldIsListed'
    BY <2>1, <1>a DEF Exact, HeldIsListed
  <2> QED BY <2>3, <2>4, <1>d DEF Exact
<1> QED
  BY <1>1, <1>2, <1>3, <1>4, <1>5, <1>6, <1>7 DEF OpenStep

(* A step of one thread of an open store that appends nothing.             *)
LEMMA ExactMove ==
    ASSUME IndInv, Alone, Exact, NEW t \in Threads, phase[HandleOf[t]] = "open",
           phase' = phase, file' = file, appender' = appender,
           \A u \in Threads : u # t => pc'[u] = pc[u] /\ job'[u] = job[u],
           pc[t] # "landing",
           pc'[t] \in {"insert", "advance"} => job'[t].h \in Listed(file[job'[t].f]),
           HeldIsListed'
    PROVE  Exact'
<1>0. HandleOf[t] \in Handles
  BY HandleOfAssumption
<1>1. \A hd \in Handles : phase'[hd] = "open" /\ phase[hd] = "open"
  BY <1>0 DEF Alone
<1>2. PartedFiles' /\ WholeBetween' /\ TornByCrash'
  BY <1>1 DEF Exact, PartedFiles, WholeBetween, TornByCrash
<1>3. HeldByLanding'
  BY DEF Exact, HeldByLanding
<1>4. Landed'
  BY DEF Exact, Landed
<1> QED BY <1>2, <1>3, <1>4 DEF Exact

(* A refresh takes in what is listed.                                      *)
LEMMA RefreshedListed ==
    ASSUME TypeOK, PartedFiles, HeldIsListed, NEW hd \in Handles, NEW f \in Files, NEW h \in Hashes,
           RefreshedMem(hd, f)[h] # None
    PROVE  h \in Listed(file[f])
<1> PICK s, n : s = file[f] /\ n = pos[hd][f]
  OBVIOUS
<1>1. s \in Seq(Cells) /\ n \in Nat /\ Parted(s)
  BY DEF TypeOK, PartedFiles
<1>a. Readable(f, s, n, RefreshedPos(hd, f)) = CompleteLines(s, n)
  BY <1>1, CompleteEndType, PartedReads DEF RefreshedPos
<1>2. mem[hd][f][h] # None \/ \E i \in CompleteLines(s, n) : s[i].h = h
  BY <1>a, RefreshedSome
<1> QED BY <1>1, <1>2, PartedLines DEF HeldIsListed

LEMMA RefreshListed ==
    ASSUME TypeOK, Exact, NEW hd \in Handles, NEW F \in SUBSET Files, Refresh(hd, F) \/ mem' = mem,
           phase[hd] = "open", phase' = phase, file' = file
    PROVE  HeldIsListed'
<1>0. mem \in [Handles -> [Files -> [Hashes -> Locs \cup {None}]]] /\ file \in [Files -> Seq(Cells)]
      /\ pos \in [Handles -> [Files -> Nat]]
  BY DEF TypeOK
<1>1. ASSUME NEW g \in Handles, NEW f \in Files
      PROVE  mem'[g][f] = mem[g][f] \/ (g = hd /\ mem'[g][f] = RefreshedMem(hd, f))
  <2>1. CASE mem' = mem
    BY <2>1
  <2>2. CASE Refresh(hd, F) /\ g = hd
    BY <2>2, <1>0 DEF Refresh
  <2>3. CASE Refresh(hd, F) /\ g # hd
    BY <2>3, <1>0 DEF Refresh
  <2> QED BY <2>1, <2>2, <2>3
<1>2. ASSUME NEW f \in Files, NEW h \in Hashes, RefreshedMem(hd, f)[h] # None
      PROVE  h \in Listed(file[f])
  BY <1>2, RefreshedListed DEF Exact
<1> QED BY <1>1, <1>2 DEF Exact, HeldIsListed

LEMMA CallExact ==
    ASSUME IndInv, Alone, Exact, NEW t \in Threads, Call(t)
    PROVE  Exact'
<1> USE DEF disk, opening, memory, calls, ghosts
<1>0. /\ TypeOK /\ HandleOf[t] \in Handles /\ {"index"} \in SUBSET Files
      /\ pc \in [Threads -> PutSteps \cup {"idle"}] /\ DOMAIN job = Threads
  BY HandleOfAssumption DEF IndInv, TypeOK, Files
<1>1. Refresh(HandleOf[t], {"index"}) \/ mem' = mem
  BY DEF Call, Has, Get, PutMiss, AddReference, ObjectCount, HasEffect
<1>2. /\ phase[HandleOf[t]] = "open" /\ phase' = phase /\ file' = file /\ appender' = appender
      /\ pc[t] = "idle" /\ pc'[t] \notin {"insert", "advance"}
      /\ \A u \in Threads : u # t => pc'[u] = pc[u] /\ job'[u] = job[u]
  BY <1>0 DEF Call, Has, Get, PutMiss, AddReference, ObjectCount, Goto
<1>3. HeldIsListed'
  BY <1>0, <1>1, <1>2, RefreshListed
<1> QED BY <1>2, <1>3, ExactMove

LEMMA CallStepExact ==
    ASSUME IndInv, Alone, Faithful, Exact, NEW t \in Threads, CallStep(t)
    PROVE  Exact'
<1> USE DEF disk, opening, memory, calls, ghosts
<1>0. /\ TypeOK /\ HandleOf[t] \in Handles /\ Files \in SUBSET Files /\ Files = {"index", "refs"}
      /\ pc \in [Threads -> PutSteps \cup {"idle"}] /\ job \in [Threads -> [f : Files, h : Hashes, p : Nat, o : Nat]]
      /\ mem \in [Handles -> [Files -> [Hashes -> Locs \cup {None}]]]
      /\ file \in [Files -> Seq(Cells)] /\ appender \in [Files -> Threads \cup {None}]
  BY HandleOfAssumption DEF IndInv, TypeOK, Files
<1>a. phase[HandleOf[t]] = "open" /\ phase' = phase
  <2>1. pc[t] # "idle" /\ phase' = phase
    BY DEF CallStep, PutLock, PutLateHit, PutRotate, PutSeek, PutWrite, AppendFields, AppendNewline,
           PutInsert, ReferenceInsert, PutAdvance
  <2> QED BY <2>1 DEF IndInv, Locks, CallsOpen
<1>b. \A hd \in Handles : hd = HandleOf[t]
  BY <1>0 DEF Alone
<1>c. TornByCrash'
  BY <1>a, <1>b DEF TornByCrash
<1>1. CASE PutLock(t) \/ PutLateHit(t)
  <2>1. Refresh(HandleOf[t], Files)
    BY <1>1 DEF PutLock, PutLateHit
  <2>2. /\ file' = file /\ appender' = appender /\ pc[t] = "lock" /\ pc'[t] \notin {"insert", "advance"}
        /\ \A u \in Threads : u # t => pc'[u] = pc[u] /\ job'[u] = job[u]
    BY <1>1, <1>0 DEF PutLock, PutLateHit, Return, Goto
  <2>3. HeldIsListed'
    BY <1>0, <1>a, <2>1, <2>2, RefreshListed
  <2> QED BY <1>a, <2>2, <2>3, ExactMove
<1>2. CASE PutRotate(t) \/ PutSeek(t) \/ PutWrite(t) \/ PutAdvance(t)
  <2>1. /\ file' = file /\ appender' = appender /\ pc[t] # "landing" /\ pc'[t] \notin {"insert", "advance"} /\ mem' = mem
        /\ \A u \in Threads : u # t => pc'[u] = pc[u] /\ job'[u] = job[u]
    BY <1>2, <1>0 DEF PutRotate, PutSeek, PutWrite, PutAdvance, Return, Goto
  <2>2. HeldIsListed'
    BY <1>a, <2>1 DEF Exact, HeldIsListed
  <2> QED BY <1>a, <2>1, <2>2, ExactMove
<1>3. CASE AppendFields(t)
  <2> PICK f, s, c : f = job[t].f /\ s = file[f] /\ file' = [file EXCEPT ![f] = Append(@, c)]
                     /\ \E last \in BOOLEAN : c = LineOf(t, last)
    BY <1>3 DEF AppendFields
  <2>1. f \in Files /\ c \in Cells /\ s \in Seq(Cells)
    BY <1>0 DEF Lines, Cells, LineOf
  <2>2. /\ file' = [file EXCEPT ![f] = Append(@, c)] /\ appender' = [appender EXCEPT ![f] = t]
        /\ appender[f] = None /\ pc' = [pc EXCEPT ![t] = "landing"] /\ job' = job /\ mem' = mem /\ pc[t] = "append"
    BY <1>3 DEF AppendFields, Goto
  <2>3. file'[f] = Append(s, c) /\ \A g \in Files : g # f => file'[g] = file[g]
    BY <2>1, <2>2, <1>0
  <2>4. Whole(s) /\ Parted(s)
    BY <2>1, <2>2, <1>a, <1>0 DEF Exact, WholeBetween, PartedFiles
  <2>5. Parted(Append(s, c))
    BY <2>1, <2>4, PartedAppend
  <2>6. PartedFiles'
    BY <2>3, <2>5, <1>a, <1>b DEF Exact, PartedFiles
  <2>7. \A g \in Files : \A h : h \in Listed(file[g]) => h \in Listed(file'[g])
    <3>1. \A h : h \in Listed(s) => h \in Listed(file'[f])
      BY <2>1, <2>3, ListedAppend
    <3> QED BY <3>1, <2>3
  <2>8. HeldByLanding'
    <3> SUFFICES ASSUME NEW g \in Files, appender'[g] # None
                 PROVE  \E u \in Threads : appender'[g] = u /\ pc'[u] = "landing" /\ job'[u].f = g
      BY DEF HeldByLanding
    <3>1. CASE g = f
      BY <3>1, <2>1, <2>2, <1>0
    <3>2. CASE g # f
      <4>1. appender'[g] = appender[g]
        BY <3>2, <2>2, <1>0
      <4>2. PICK u \in Threads : appender[g] = u /\ pc[u] = "landing" /\ job[u].f = g
        BY <4>1 DEF Exact, HeldByLanding
      <4>3. pc'[u] = "landing" /\ job'[u].f = g
        BY <4>2, <2>2, <1>0
      <4> QED BY <4>1, <4>2, <4>3
    <3> QED BY <3>1, <3>2
  <2>9. WholeBetween'
    <3> SUFFICES ASSUME NEW g \in Files, appender'[g] = None PROVE Whole(file'[g])
      BY DEF WholeBetween
    <3>1. g # f
      BY <2>1, <2>2, <1>0, NoneAssumption
    <3> QED BY <3>1, <2>2, <2>3, <1>a, <1>0 DEF Exact, WholeBetween
  <2>10. HeldIsListed'
    BY <2>2, <2>7, <1>a DEF Exact, HeldIsListed
  <2>11. Landed'
    BY <2>2, <2>7, <1>0 DEF Exact, Landed
  <2> QED BY <1>c, <2>6, <2>8, <2>9, <2>10, <2>11 DEF Exact
<1>4. CASE AppendNewline(t)
  <2> PICK f, s : f = job[t].f /\ s = file[f]
    OBVIOUS
  <2>1. f \in Files /\ Nl \in Cells /\ s \in Seq(Cells)
    BY <1>0 DEF Cells
  <2>2. /\ file' = [file EXCEPT ![f] = Append(@, Nl)] /\ appender' = [appender EXCEPT ![f] = None]
        /\ pc' = [pc EXCEPT ![t] = "insert"] /\ job' = job /\ mem' = mem /\ pc[t] = "landing"
    BY <1>4 DEF AppendNewline, Goto
  <2>3. file'[f] = Append(s, Nl) /\ \A g \in Files : g # f => file'[g] = file[g]
    BY <2>1, <2>2, <1>0
  <2>4. appender[f] = t /\ s # <<>> /\ s[Len(s)] # Nl /\ s[Len(s)].h = job[t].h /\ Parted(s)
    BY <2>1, <2>2 DEF Faithful, Landing, Exact, PartedFiles
  <2>5. Parted(Append(s, Nl)) /\ job[t].h \in Listed(Append(s, Nl))
    BY <2>1, <2>4, PartedAppend, ListedNewline
  <2>6. PartedFiles'
    BY <2>3, <2>5, <1>a, <1>b DEF Exact, PartedFiles
  <2>7. \A g \in Files : \A h : h \in Listed(file[g]) => h \in Listed(file'[g])
    <3>1. \A h : h \in Listed(s) => h \in Listed(file'[f])
      BY <2>1, <2>3, ListedAppend
    <3> QED BY <3>1, <2>3
  <2>8. HeldByLanding'
    <3> SUFFICES ASSUME NEW g \in Files, appender'[g] # None
                 PROVE  \E u \in Threads : appender'[g] = u /\ pc'[u] = "landing" /\ job'[u].f = g
      BY DEF HeldByLanding
    <3>1. g # f /\ appender'[g] = appender[g]
      BY <2>2, <1>0
    <3>2. PICK u \in Threads : appender[g] = u /\ pc[u] = "landing" /\ job[u].f = g
      BY <3>1 DEF Exact, HeldByLanding
    <3>3. pc'[u] = "landing" /\ job'[u].f = g
      BY <3>1, <3>2, <2>2, <1>0
    <3> QED BY <3>1, <3>2, <3>3
  <2>9. WholeBetween'
    <3> SUFFICES ASSUME NEW g \in Files, appender'[g] = None PROVE Whole(file'[g])
      BY DEF WholeBetween
    <3>1. CASE g = f
      <4>1. Append(s, Nl)[Len(Append(s, Nl))] = Nl
        BY <2>1
      <4> QED BY <3>1, <4>1, <2>3 DEF Whole
    <3>2. CASE g # f
      BY <3>2, <2>2, <2>3, <1>a, <1>0 DEF Exact, WholeBetween
    <3> QED BY <3>1, <3>2
  <2>10. HeldIsListed'
    BY <2>2, <2>7, <1>a DEF Exact, HeldIsListed
  <2>11. Landed'
    <3> SUFFICES ASSUME NEW u \in Threads, pc'[u] \in {"insert", "advance"} PROVE job'[u].h \in Listed(file'[job'[u].f])
      BY DEF Landed
    <3>1. CASE u = t
      BY <3>1, <2>2, <2>3, <2>5
    <3>2. CASE u # t
      BY <3>2, <2>2, <2>7, <1>0 DEF Exact, Landed
    <3> QED BY <3>1, <3>2
  <2> QED BY <1>c, <2>6, <2>8, <2>9, <2>10, <2>11 DEF Exact
<1>5. CASE PutInsert(t) \/ ReferenceInsert(t)
  <2> PICK f, h, hd, loc : f = job[t].f /\ h = job[t].h /\ hd = HandleOf[t] /\ loc = NewLoc(t)
    OBVIOUS
  <2>1. /\ mem' = [mem EXCEPT ![hd][f][h] = loc] /\ file' = file /\ appender' = appender
        /\ \A u \in Threads : u # t => pc'[u] = pc[u] /\ job'[u] = job[u]
        /\ pc[t] = "insert" /\ pc'[t] # "insert" /\ (pc'[t] = "advance" => job'[t] = job[t])
    BY <1>5, <1>0 DEF PutInsert, ReferenceInsert, Return, Goto
  <2>2. f \in Files /\ h \in Hashes /\ hd \in Handles /\ h \in Listed(file[f])
    BY <2>1, <1>0 DEF Exact, Landed
  <2>3. \A g \in Handles, e \in Files, x \in Hashes :
           (g = hd /\ e = f /\ x = h) \/ mem'[g][e][x] = mem[g][e][x]
    BY <2>1, <2>2, <1>0
  <2>4. HeldIsListed'
    BY <2>1, <2>2, <2>3, <1>a DEF Exact, HeldIsListed
  <2> QED BY <1>a, <2>1, <2>2, <2>4, ExactMove
<1> QED
  BY <1>1, <1>2, <1>3, <1>4, <1>5 DEF CallStep

LEMMA FaultExact ==
    ASSUME IndInv, Calm, Faithful, Exact, Fault, Unfailed'
    PROVE  Exact'
<1> USE DEF disk, opening, memory, calls, ghosts
<1>0. /\ TypeOK /\ HandleOf \in [Threads -> Handles] /\ phase \in [Handles -> Phases]
      /\ pc \in [Threads -> PutSteps \cup {"idle"}] /\ used \in [Bounded -> Nat]
      /\ appender \in [Files -> Threads \cup {None}]
      /\ mem \in [Handles -> [Files -> [Hashes -> Locs \cup {None}]]]
  BY HandleOfAssumption DEF IndInv, TypeOK
<1>a. ~(used' = [used EXCEPT !["errors"] = @ + 1])
  BY <1>0 DEF Unfailed, Bounded
<1>1. ASSUME NEW hd \in Handles, NEW torn \in BOOLEAN, Crash(hd, torn)
      PROVE  Exact'
  <2>1. \A g \in Handles : g = hd
    BY DEF Calm, Alone
  <2>2. \A t \in Threads : HandleOf[t] = hd
    BY <2>1, <1>0
  <2>3. phase'[hd] = "closed" /\ mem'[hd] = EmptyMem /\ \A t \in Threads : pc'[t] = "idle"
    BY <1>1, <2>2, <1>0 DEF Crash, Forget
  <2>4. file' = file /\ \A f \in Files : appender'[f] = None
    BY <1>1, <2>2, <1>0 DEF Crash, ThreadsOf
  <2>5. used'["crashes"] # 0
    BY <1>1, <1>0 DEF Crash, Bounded
  <2>6. PartedFiles' /\ HeldByLanding' /\ WholeBetween' /\ TornByCrash'
    BY <2>1, <2>3, <2>4, <2>5 DEF Exact, PartedFiles, HeldByLanding, WholeBetween, TornByCrash
  <2>7. HeldIsListed' /\ Landed'
    BY <2>1, <2>3 DEF HeldIsListed, Landed, EmptyMem
  <2> QED BY <2>6, <2>7 DEF Exact
<1>2. ASSUME NEW h \in Hashes, NEW s \in Sources \ {"there"}, EditSource(h, s)
      PROVE  Exact'
  <2>1. /\ file' = file /\ appender' = appender /\ phase' = phase /\ kept' = kept /\ mem' = mem
        /\ pc' = pc /\ job' = job /\ used'["crashes"] = used["crashes"]
    BY <1>2, <1>0 DEF EditSource
  <2> QED BY <2>1 DEF Exact, PartedFiles, HeldByLanding, WholeBetween, TornByCrash, HeldIsListed, Landed
<1> QED
  BY <1>a, <1>1, <1>2 DEF Fault, PutWriteFails, AppendFails

LEMMA InitExact == Init => Exact
<1> SUFFICES ASSUME Init PROVE Exact
  OBVIOUS
<1>1. PartedFiles /\ HeldByLanding /\ WholeBetween /\ TornByCrash
  BY DEF Init, PartedFiles, HeldByLanding, WholeBetween, TornByCrash, Parted, Whole
<1>2. HeldIsListed /\ Landed
  BY DEF Init, HeldIsListed, Landed, EmptyMem
<1> QED BY <1>1, <1>2 DEF Exact

LEMMA StepExact == ASSUME IndInv, Calm, Faithful, Exact, [Next]_vars, Unfailed' PROVE Exact'
<1>0. Alone
  BY DEF Calm
<1>1. CASE Next
  BY <1>0, <1>1, OpenExact, CallExact, CallStepExact, FaultExact DEF Next
<1>2. CASE UNCHANGED vars
  BY <1>2 DEF vars, Exact, PartedFiles, HeldByLanding, WholeBetween, TornByCrash, HeldIsListed, Landed
<1> QED BY <1>1, <1>2

(* has() without the maps: an entry, or a line past the cursor.            *)
Seen(hd, h) ==
    \/ Known(mem[hd], h)
    \/ \E i \in CompleteLines(file["index"], pos[hd]["index"]) : file["index"][i].h = h

LEMMA HasSeen == TypeOK => \A hd \in Handles, h \in Hashes : HasAnswer(hd, h) <=> Seen(hd, h)
<1> SUFFICES ASSUME TypeOK, NEW hd \in Handles, NEW h \in Hashes PROVE HasAnswer(hd, h) <=> Seen(hd, h)
  OBVIOUS
<1>1. "index" \in Files
  BY DEF Files
<1>2. RefreshedMem(hd, "index")[h] # None <=>
         mem[hd]["index"][h] # None \/ \E i \in CompleteLines(file["index"], pos[hd]["index"]) : file["index"][i].h = h
  BY RefreshedIndex
<1> QED BY <1>2 DEF HasAnswer, Seen, Known

(* What is seen has landed.                                                *)
LEMMA SeenIsStored ==
    TypeOK /\ Exact => \A hd \in Handles, h \in Hashes : Seen(hd, h) => h \in Stored
<1> SUFFICES ASSUME TypeOK, Exact, NEW hd \in Handles, NEW h \in Hashes, Seen(hd, h) PROVE h \in Stored
  OBVIOUS
<1>1. "index" \in Files /\ "refs" \in Files
  BY DEF Files
<1>2. CASE h \in Legacy
  BY <1>2 DEF Stored
<1>3. CASE \E f \in Files : mem[hd][f][h] # None
  BY <1>3 DEF Exact, HeldIsListed, Stored, Recorded, Files
<1>4. CASE \E i \in CompleteLines(file["index"], pos[hd]["index"]) : file["index"][i].h = h
  <2>1. RefreshedMem(hd, "index")[h] # None
    BY <1>4, RefreshedIndex
  <2>2. h \in Listed(file["index"])
    BY <1>1, <2>1, RefreshedListed DEF Exact
  <2> QED BY <2>2 DEF Stored, Recorded
<1> QED BY <1>1, <1>2, <1>3, <1>4 DEF Seen, Known

(* The mapped variables of a directory with one handle.                    *)
LEMMA StoredIs ==
    Alone => \A hd \in Handles : phase[hd] # "fill" => Stored = Legacy \cup Listed(file["index"]) \cup Listed(file["refs"])
  BY DEF Alone, Stored, Recorded

LEMMA VisibleIs ==
    Alone => \A hd \in Handles :
        /\ phase[hd] = "open" => Visible = {h \in Hashes : HasAnswer(hd, h)} /\ Visible # None
        /\ phase[hd] # "open" => Visible = None
<1> SUFFICES ASSUME Alone, NEW hd \in Handles
             PROVE  /\ phase[hd] = "open" => Visible = {h \in Hashes : HasAnswer(hd, h)} /\ Visible # None
                    /\ phase[hd] # "open" => Visible = None
  OBVIOUS
<1>1. phase[hd] # "open" => OpenHandles = {}
  BY DEF Alone, OpenHandles
<1>2. phase[hd] = "open" => OpenHandles = {hd}
  BY DEF Alone, OpenHandles
<1>3. {h \in Hashes : HasAnswer(hd, h)} # None
  BY NoChunkAssumption
<1> QED BY <1>1, <1>2, <1>3 DEF Visible

LEMMA DoingIs ==
    TypeOK => \A t \in Threads : Doing[t] = IF pc[t] = "idle" THEN None ELSE job[t].h
  BY DEF Doing

(* After a refresh, no whole line is left past the cursor.                 *)
LEMMA NothingPastEnd ==
    ASSUME NEW s \in Seq(Cells), NEW from \in Nat
    PROVE  CompleteLines(s, CompleteEnd(s, from)) = {}
<1> DEFINE S == {from} \cup {i \in DOMAIN s : i > from /\ s[i] = Nl}
<1> PICK n : n = CompleteEnd(s, from)
  OBVIOUS
<1>1. S \in SUBSET Nat /\ S # {} /\ from + Len(s) \in Nat /\ \A x \in S : x <= from + Len(s)
  OBVIOUS
<1>2. n \in S /\ \A x \in S : x <= n
  <2>1. n = Max(S)
    BY DEF CompleteEnd
  <2> HIDE DEF S
  <2> QED BY <1>1, <2>1, MaxIsMember
<1>3. n \in Nat /\ n >= from /\ \A i \in DOMAIN s : i > from /\ s[i] = Nl => i <= n
  BY <1>1, <1>2
<1> SUFFICES ASSUME NEW i \in CompleteLines(s, n) PROVE FALSE
  OBVIOUS
<1>4. i \in DOMAIN s /\ i > n /\ i + 1 \in DOMAIN s /\ s[i + 1] = Nl /\ i \in Nat
  BY DEF CompleteLines
<1> QED BY <1>3, <1>4

(* These facts, of one state and of the next.                              *)
Readings ==
    /\ TypeOK => \A hd \in Handles, h \in Hashes : HasAnswer(hd, h) <=> Seen(hd, h)
    /\ TypeOK /\ Exact => \A hd \in Handles, h \in Hashes : Seen(hd, h) => h \in Stored
    /\ Alone => \A hd \in Handles :
          /\ phase[hd] # "fill" => Stored = Legacy \cup Listed(file["index"]) \cup Listed(file["refs"])
          /\ phase[hd] = "open" => Visible = {h \in Hashes : HasAnswer(hd, h)} /\ Visible # None
          /\ phase[hd] # "open" => Visible = None

LEMMA ReadingsHere == Readings
  BY HasSeen, SeenIsStored, StoredIs, VisibleIs DEF Readings

LEMMA ReadingsNext == Readings'
  BY ReadingsHere, PTL

Good == IndInv /\ Calm /\ Faithful /\ Exact

(* Steps of an open store: what has() finds only grows.                    *)
LEMMA SeesStep ==
    ASSUME Good, Good', NEW hd \in Handles, phase[hd] = "open", phase'[hd] = "open",
           \A h \in Hashes : Seen(hd, h) => Seen(hd, h)'
    PROVE  /\ Promise!Sees
           /\ \A h \in Hashes : h \in Visible <=> Seen(hd, h)
           /\ \A h \in Hashes : h \in Visible' <=> Seen(hd, h)'
           /\ Visible \subseteq Hashes /\ Visible' \subseteq Hashes
<1>0. TypeOK /\ Exact /\ Alone /\ TypeOK' /\ Exact' /\ Alone'
  BY DEF Good, IndInv, Calm
<1>1. /\ Visible = {h \in Hashes : HasAnswer(hd, h)} /\ Visible # None
      /\ \A h \in Hashes : HasAnswer(hd, h) <=> Seen(hd, h)
  BY <1>0, ReadingsHere DEF Readings
<1>2. /\ Visible' = {h \in Hashes : HasAnswer(hd, h)'}
      /\ \A h \in Hashes : HasAnswer(hd, h)' <=> Seen(hd, h)'
      /\ \A h \in Hashes : Seen(hd, h)' => h \in Stored'
  BY <1>0, ReadingsNext DEF Readings
<1> QED BY <1>1, <1>2 DEF Promise!Sees

(* Opening, closing.                                                       *)
LEMMA OpenSimulates ==
    ASSUME Good, Good', NEW hd \in Handles, Open(hd) \/ Close(hd) \/ OpenStep(hd)
    PROVE  [Promise!Next]_(Promise!vars)
<1> USE DEF disk, opening, memory, calls, ghosts
<1>0. /\ IndInv /\ Alone /\ Faithful /\ Exact /\ TypeOK /\ TypeOK' /\ Alone'
      /\ file \in [Files -> Seq(Cells)] /\ kept \in [Handles -> Seq(Cells)]
      /\ phase \in [Handles -> Phases] /\ on \in [Handles -> Files] /\ Files = {"index", "refs"}
  BY DEF Good, Calm, IndInv, TypeOK, Files
<1>a. \A x \in Handles : x = hd
  BY <1>0 DEF Alone
<1>b. pc' = pc /\ \A t \in Threads : pc[t] = "idle"
  BY <1>0, OpeningIdle
<1>c. Doing' = [t \in Threads |-> None] /\ Doing = [t \in Threads |-> None]
  BY <1>b DEF Doing
<1>d. Close(hd) \/ (acked' = acked /\ phase[hd] # "open")
  BY DEF Open, Close, OpenStep, TrimRead, TrimCut, TrimFill, Load, OpenPack
<1>e. /\ phase[hd] # "open" => Visible = None
      /\ phase'[hd] # "open" => Visible' = None
  BY <1>0, ReadingsHere, ReadingsNext DEF Readings
<1>1. ASSUME Stored' = Stored, phase[hd] # "open", phase'[hd] # "open", acked' = acked
      PROVE  UNCHANGED Promise!vars
  BY <1>1, <1>c, <1>e DEF Promise!vars
<1>2. ASSUME file' = file, phase[hd] # "fill", phase'[hd] # "fill"
      PROVE  Stored' = Stored
  BY <1>2, <1>0, ReadingsHere, ReadingsNext DEF Readings
<1>3. CASE Open(hd)
  <2>1. file' = file /\ phase[hd] = "closed" /\ phase'[hd] = "trim" /\ acked' = acked
    BY <1>3, <1>0 DEF Open
  <2> QED BY <2>1, <1>1, <1>2
<1>4. CASE Close(hd)
  <2>1. file' = file /\ phase[hd] = "open" /\ phase'[hd] = "closed" /\ acked' = acked
    BY <1>4, <1>0 DEF Close, Forget
  <2>2. Promise!Close
    BY <2>1, <1>2, <1>c, <1>e DEF Promise!Close
  <2> QED BY <2>2 DEF Promise!Next
<1>5. CASE TrimRead(hd)
  <2>1. file' = file /\ phase[hd] = "trim" /\ phase'[hd] \in {"cut", "trim", "load"} /\ acked' = acked
    BY <1>5, <1>0 DEF TrimRead, TrimDone
  <2> QED BY <2>1, <1>1, <1>2
<1>6. CASE TrimCut(hd)
  <2> PICK f, s : f = on[hd] /\ s = file[f]
    OBVIOUS
  <2>1. /\ phase[hd] = "cut" /\ phase'[hd] = "fill" /\ kept' = kept /\ f \in Files /\ on' = on /\ acked' = acked
        /\ file'[f] = <<>> /\ \A g \in Files : g # f => file'[g] = file[g]
    BY <1>6, <1>0 DEF TrimCut
  <2>2. kept[hd] = SubSeq(s, 1, CompleteEnd(s, 0)) /\ s \in Seq(Cells)
    BY <2>1, <1>0 DEF Faithful, Trimmed
  <2>3. Listed(kept'[hd]) = Listed(s) /\ Listed(file'[f]) = {}
    <3>1. Listed(<<>>) = {}
      BY DEF Listed, CompleteLines
    <3> QED BY <2>1, <2>2, <3>1, ListedKept
  <2>4. \A g \in Files : Recorded(g)' = Listed(file[g])
    <3>1. {x \in Handles : phase'[x] = "fill" /\ on'[x] = f} = {hd}
      BY <2>1, <1>a
    <3>2. \A g \in Files : g # f => {x \in Handles : phase'[x] = "fill" /\ on'[x] = g} = {}
      BY <2>1, <1>a
    <3> QED BY <3>1, <3>2, <2>1, <2>3 DEF Recorded
  <2>5. \A g \in Files : Recorded(g) = Listed(file[g])
    BY <2>1, <1>a DEF Recorded
  <2>6. Stored' = Stored
    BY <2>4, <2>5, <1>0 DEF Stored
  <2> QED BY <2>1, <2>6, <1>1
<1>7. CASE TrimFill(hd)
  <2> PICK f, k : f = on[hd] /\ k = kept[hd]
    OBVIOUS
  <2>1. file[f] = <<>> /\ phase[hd] = "fill" /\ f \in Files /\ k \in Seq(Cells)
    BY <1>7, <1>0 DEF TrimFill, Faithful, Trimmed
  <2>2. file'[f] = k \o SubSeq(file[f], Len(k) + 1, Len(file[f])) /\ acked' = acked
        /\ \A g \in Files : g # f => file'[g] = file[g]
    BY <1>7, <1>0 DEF TrimFill
  <2>3. file'[f] = k
    BY <2>1, <2>2, FillEmpty
  <2>4. phase'[hd] \in {"trim", "load"}
    BY <1>7, <1>0 DEF TrimFill, TrimDone
  <2>5. \A g \in Files : Recorded(g)' = Listed(file'[g])
    BY <2>4, <1>a DEF Recorded
  <2>6. \A g \in Files : Recorded(g) = Listed(file'[g])
    <3>1. {x \in Handles : phase[x] = "fill" /\ on[x] = f} = {hd}
      BY <2>1, <1>a
    <3>2. \A g \in Files : g # f => {x \in Handles : phase[x] = "fill" /\ on[x] = g} = {}
      BY <2>1, <1>a
    <3>3. Listed(<<>>) = {}
      BY DEF Listed, CompleteLines
    <3> QED BY <3>1, <3>2, <3>3, <2>1, <2>2, <2>3 DEF Recorded
  <2>7. Stored' = Stored
    BY <2>5, <2>6, <1>0 DEF Stored
  <2> QED BY <2>1, <2>2, <2>4, <2>7, <1>1
<1>8. ASSUME NEW choice \in LoadChoices, Load(hd, choice) PROVE [Promise!Next]_(Promise!vars)
  <2>1. file' = file /\ phase[hd] = "load" /\ phase'[hd] \in {"load", "pack"} /\ acked' = acked
    BY <1>8, <1>0 DEF Load
  <2> QED BY <2>1, <1>1, <1>2
<1>9. CASE OpenPack(hd)
  <2>1. file' = file /\ mem' = mem /\ phase[hd] = "pack" /\ phase'[hd] = "open" /\ acked' = acked
    BY <1>9, <1>0 DEF OpenPack
  <2>2. Stored' = Stored /\ Stored = Legacy \cup Listed(file["index"]) \cup Listed(file["refs"])
    BY <2>1, <1>0, <1>2, ReadingsHere DEF Readings
  <2>3. /\ Visible' = {h \in Hashes : HasAnswer(hd, h)'}
        /\ \A h \in Hashes : HasAnswer(hd, h)' <=> Seen(hd, h)'
        /\ \A h \in Hashes : Seen(hd, h)' => h \in Stored'
    BY <2>1, <1>0, ReadingsNext DEF Readings, Good
  <2>4. \A f \in Files : \A h \in Listed(file[f]) : mem[hd][f][h] # None
    BY <2>1, <1>0, <1>b DEF Faithful, Covered, Loaded, Inserting
  <2>5. \A h \in Stored : h \in Hashes /\ Seen(hd, h)'
    <3>1. ASSUME NEW h \in Stored PROVE h \in Hashes
      BY <2>2, <1>0, ListedHashes, LegacyAssumption
    <3>2. ASSUME NEW h \in Stored PROVE Known(mem'[hd], h)
      BY <2>1, <2>2, <2>4, <1>0 DEF Known
    <3> QED BY <3>1, <3>2 DEF Seen
  <2>6. Visible' = Stored
    BY <2>2, <2>3, <2>5
  <2>7. Promise!Open
    BY <2>1, <2>2, <2>6, <1>c, <1>e DEF Promise!Open
  <2> QED BY <2>7 DEF Promise!Next
<1> QED
  BY <1>3, <1>4, <1>5, <1>6, <1>7, <1>8, <1>9 DEF OpenStep

(* A refresh puts all that was seen into the maps; of packs/index alone, it *)
(* changes nothing of what has() answers.                                  *)
LEMMA SeenRefresh ==
    ASSUME TypeOK, NEW hd \in Handles, NEW F \in SUBSET Files, "index" \in F, Refresh(hd, F), file' = file
    PROVE  \A h \in Hashes :
              /\ Seen(hd, h) => Known(mem'[hd], h)
              /\ F = {"index"} /\ Seen(hd, h)' => Seen(hd, h)
<1>0. /\ mem \in [Handles -> [Files -> [Hashes -> Locs \cup {None}]]] /\ Files = {"index", "refs"}
      /\ pos \in [Handles -> [Files -> Nat]] /\ file["index"] \in Seq(Cells)
  BY DEF TypeOK, Files
<1>1. /\ mem'[hd]["index"] = RefreshedMem(hd, "index")
      /\ mem'[hd]["refs"] = mem[hd]["refs"] \/ mem'[hd]["refs"] = RefreshedMem(hd, "refs")
      /\ F = {"index"} => mem'[hd]["refs"] = mem[hd]["refs"]
      /\ pos'[hd]["index"] = CompleteEnd(file["index"], pos[hd]["index"])
  BY <1>0 DEF Refresh, RefreshedPos
<1>2. CompleteLines(file["index"], pos'[hd]["index"]) = {}
  BY <1>0, <1>1, NothingPastEnd
<1> TAKE h \in Hashes
<1>3. RefreshedMem(hd, "index")[h] # None <=>
         mem[hd]["index"][h] # None \/ \E i \in CompleteLines(file["index"], pos[hd]["index"]) : file["index"][i].h = h
  BY <1>0, RefreshedIndex
<1>4. mem[hd]["refs"][h] # None => mem'[hd]["refs"][h] # None
  BY <1>0, <1>1, RefreshedSome
<1>5. Seen(hd, h) => Known(mem'[hd], h)
  BY <1>1, <1>3, <1>4 DEF Seen, Known
<1>6. F = {"index"} /\ Seen(hd, h)' => Seen(hd, h)
  BY <1>1, <1>2, <1>3 DEF Seen, Known
<1> QED BY <1>5, <1>6

LEMMA CallSimulates ==
    ASSUME Good, Good', NEW t \in Threads, Call(t)
    PROVE  [Promise!Next]_(Promise!vars)
<1> USE DEF disk, opening, memory, calls, ghosts
<1> PICK hd : hd = HandleOf[t]
  OBVIOUS
<1>0. /\ IndInv /\ Alone /\ TypeOK /\ TypeOK' /\ Alone' /\ hd \in Handles /\ {"index"} \in SUBSET Files
      /\ pc \in [Threads -> PutSteps \cup {"idle"}] /\ DOMAIN job = Threads
  BY HandleOfAssumption DEF Good, Calm, IndInv, TypeOK, Files
<1>1. /\ phase[hd] = "open" /\ phase' = phase /\ file' = file /\ acked' = acked /\ pc[t] = "idle"
  BY DEF Call, Has, Get, PutMiss, AddReference, ObjectCount
<1>2. Refresh(hd, {"index"}) \/ (mem' = mem /\ pos' = pos)
  BY DEF Call, Has, Get, PutMiss, AddReference, ObjectCount, HasEffect
<1>3. \A h \in Hashes : Seen(hd, h) <=> Seen(hd, h)'
  <2>1. CASE Refresh(hd, {"index"})
    BY <2>1, <1>0, <1>1, SeenRefresh DEF Seen
  <2>2. CASE mem' = mem /\ pos' = pos
    BY <2>2, <1>1 DEF Seen
  <2> QED BY <1>2, <2>1, <2>2
<1>4. Stored' = Stored
  BY <1>0, <1>1, ReadingsHere, ReadingsNext DEF Readings
<1>5. Promise!Sees /\ Visible' = Visible /\ Visible # None
  <2>1. Visible # None
    BY <1>0, <1>1, ReadingsHere DEF Readings
  <2> QED BY <2>1, <1>0, <1>1, <1>3, SeesStep
<1>6. CASE \E h \in Hashes : Has(t, h) \/ Get(t, h) \/ ObjectCount(t)
  <2>1. Doing' = Doing
    BY <1>6 DEF Has, Get, ObjectCount, Doing
  <2>2. Promise!Look
    BY <2>1, <1>1, <1>4, <1>5 DEF Promise!Look
  <2> QED BY <2>2 DEF Promise!Next
<1>7. ASSUME NEW h \in Hashes, PutMiss(t, h) \/ AddReference(t, h)
      PROVE  [Promise!Next]_(Promise!vars)
  <2>1. /\ pc'[t] # "idle" /\ job'[t].h = h
        /\ \A u \in Threads : u # t => pc'[u] = pc[u] /\ job'[u] = job[u]
    <3>1. /\ pc'[t] # "idle" /\ \A u \in Threads : u # t => pc'[u] = pc[u] /\ job'[u] = job[u]
      BY <1>0, <1>7 DEF PutMiss, AddReference, Goto
    <3>2. job'[t] = [NoJob EXCEPT !.h = h] \/ job'[t] = [NoJob EXCEPT !.f = "refs", !.h = h]
      BY <1>0, <1>7 DEF PutMiss, AddReference
    <3>3. job'[t].h = h
      BY <3>2, NoJobType
    <3> QED BY <3>1, <3>3
  <2>2. Doing' = [Doing EXCEPT ![t] = h] /\ Doing[t] = None
    BY <2>1, <1>1 DEF Doing
  <2>3. Promise!Begin(t, h)
    BY <2>2, <1>1, <1>4, <1>5 DEF Promise!Begin
  <2> QED BY <2>3 DEF Promise!Next
<1>8. CASE ObjectCount(t)
  BY <1>6, <1>8, HashesAssumption
<1> QED
  BY <1>6, <1>7, <1>8 DEF Call

(* An append hides no line.                                                *)
LEMMA SeenAppend ==
    ASSUME TypeOK, NEW hd \in Handles, NEW f \in Files, NEW c \in Cells, mem' = mem, pos' = pos,
           file'[f] = Append(file[f], c), \A g \in Files : g # f => file'[g] = file[g]
    PROVE  \A x \in Hashes : Seen(hd, x) => Seen(hd, x)'
<1> PICK s, n : s = file["index"] /\ n = pos[hd]["index"]
  OBVIOUS
<1>1. s \in Seq(Cells) /\ n \in Nat /\ "index" \in Files
  BY DEF TypeOK, Files
<1>2. file'["index"] = s \/ file'["index"] = Append(s, c)
  BY <1>1
<1>3. \A i \in CompleteLines(s, n) : i \in CompleteLines(Append(s, c), n) /\ Append(s, c)[i] = s[i]
  BY <1>1, LinesAppend
<1>4. \A i \in CompleteLines(s, n) : i \in CompleteLines(file'["index"], n) /\ file'["index"][i] = s[i]
  BY <1>2, <1>3
<1> QED BY <1>4 DEF Seen

LEMMA CallStepSimulates ==
    ASSUME Good, Good', NEW t \in Threads, CallStep(t)
    PROVE  [Promise!Next]_(Promise!vars)
<1> USE DEF disk, opening, memory, calls, ghosts
<1> PICK hd, h, f : hd = HandleOf[t] /\ h = job[t].h /\ f = job[t].f
  OBVIOUS
<1>0. /\ IndInv /\ Alone /\ Faithful /\ Exact /\ TypeOK /\ TypeOK' /\ Alone' /\ Faithful' /\ Exact' /\ hd \in Handles
      /\ pc \in [Threads -> PutSteps \cup {"idle"}] /\ job \in [Threads -> [f : Files, h : Hashes, p : Nat, o : Nat]]
      /\ h \in Hashes /\ f \in Files /\ Files = {"index", "refs"} /\ Files \in SUBSET Files
      /\ mem \in [Handles -> [Files -> [Hashes -> Locs \cup {None}]]] /\ pos \in [Handles -> [Files -> Nat]]
      /\ file \in [Files -> Seq(Cells)]
  BY HandleOfAssumption DEF Good, Calm, IndInv, TypeOK, Files
<1>1. pc[t] # "idle" /\ phase[hd] = "open" /\ phase' = phase
  <2>1. pc[t] # "idle" /\ phase' = phase
    BY DEF CallStep, PutLock, PutLateHit, PutRotate, PutSeek, PutWrite, AppendFields, AppendNewline,
           PutInsert, ReferenceInsert, PutAdvance
  <2> QED BY <2>1, <1>0 DEF IndInv, Locks, CallsOpen
<1>2. Doing[t] = h /\ h # None
  BY <1>0, <1>1, NoChunkAssumption DEF Doing
<1>3. file' = file => Stored' = Stored
  BY <1>0, <1>1, ReadingsHere, ReadingsNext DEF Readings
<1>4. ASSUME \A x \in Hashes : Seen(hd, x) => Seen(hd, x)',
             Stored' = Stored, Doing' = Doing, acked' = acked
      PROVE  [Promise!Next]_(Promise!vars)
  <2>1. Promise!Sees
    BY <1>0, <1>1, <1>4, SeesStep
  <2>2. Promise!Look
    BY <1>4, <2>1 DEF Promise!Look
  <2> QED BY <2>2 DEF Promise!Next
<1>5. ASSUME \A x \in Hashes : Seen(hd, x) => Seen(hd, x)', file' = file,
             Return(t), acked' \in {acked, acked \cup {h}}, Seen(hd, h)'
      PROVE  [Promise!Next]_(Promise!vars)
  <2>1. Promise!Sees /\ h \in Visible'
    BY <1>0, <1>1, <1>5, SeesStep
  <2>2. Doing' = [Doing EXCEPT ![t] = None]
    BY <1>5, <1>0 DEF Doing, Return, Goto
  <2>3. Promise!End(t)
    BY <1>2, <1>3, <1>5, <2>1, <2>2 DEF Promise!End
  <2> QED BY <2>3 DEF Promise!Next
<1>6. ASSUME NEW step \in PutSteps, pc' = [pc EXCEPT ![t] = step], job' = job
      PROVE  Doing' = Doing
  <2>1. step # "idle"
    BY DEF PutSteps
  <2> QED BY <1>0, <1>1, <1>6, <2>1 DEF Doing
<1>7. ASSUME mem' = mem, pos' = pos, file' = file PROVE \A x \in Hashes : Seen(hd, x) => Seen(hd, x)'
  BY <1>7 DEF Seen
<1>8. CASE PutLock(t)
  <2>1. Refresh(hd, Files) /\ file' = file /\ job' = job /\ pc' = [pc EXCEPT ![t] = "seek"] /\ acked' = acked
    BY <1>8 DEF PutLock, Goto
  <2>2. \A x \in Hashes : Seen(hd, x) => Seen(hd, x)'
    BY <2>1, <1>0, SeenRefresh DEF Seen
  <2>3. Doing' = Doing
    BY <2>1, <1>6 DEF PutSteps
  <2> QED BY <2>1, <2>2, <2>3, <1>3, <1>4
<1>9. CASE PutLateHit(t)
  <2>1. Refresh(hd, Files) /\ file' = file /\ acked' = acked /\ Return(t) /\ KnownAfterRefresh(hd, h)
    BY <1>9 DEF PutLateHit
  <2>2. \A x \in Hashes : Seen(hd, x) => Seen(hd, x)'
    BY <2>1, <1>0, SeenRefresh DEF Seen
  <2>3. Seen(hd, h)'
    <3>1. \A e \in Files : mem'[hd][e] = RefreshedMem(hd, e)
      BY <2>1, <1>0 DEF Refresh
    <3> QED BY <3>1, <2>1, <1>0 DEF Seen, KnownAfterRefresh, Known
  <2> QED BY <2>1, <2>2, <2>3, <1>5
<1>10. CASE PutRotate(t)
  <2>1. file' = file /\ mem' = mem /\ pos' = pos /\ pc' = pc /\ job' = job /\ acked' = acked
    BY <1>10 DEF PutRotate
  <2>2. Doing' = Doing
    BY <2>1 DEF Doing
  <2> QED BY <2>1, <2>2, <1>3, <1>4, <1>7
<1>11. CASE PutSeek(t)
  <2>1. file' = file /\ mem' = mem /\ pos' = pos /\ pc' = [pc EXCEPT ![t] = "write"] /\ acked' = acked
        /\ job' = [job EXCEPT ![t] = [@ EXCEPT !.p = cur[hd].id, !.o = PackEnd(hd)]]
    BY <1>11 DEF PutSeek, Goto
  <2>2. \A u \in Threads : job'[u].h = job[u].h
    BY <2>1, <1>0
  <2>3. Doing' = Doing
    BY <2>1, <2>2, <1>0, <1>1 DEF Doing
  <2> QED BY <2>1, <2>3, <1>3, <1>4, <1>7
<1>12. CASE PutWrite(t)
  <2>1. file' = file /\ mem' = mem /\ pos' = pos /\ pc' = [pc EXCEPT ![t] = "append"] /\ job' = job /\ acked' = acked
    BY <1>12 DEF PutWrite, Goto
  <2>2. Doing' = Doing
    BY <2>1, <1>6 DEF PutSteps
  <2> QED BY <2>1, <2>2, <1>3, <1>4, <1>7
<1>13. CASE AppendFields(t)
  <2> PICK c, s : s = file[f] /\ file' = [file EXCEPT ![f] = Append(@, c)]
                  /\ \E last \in BOOLEAN : c = LineOf(t, last)
    BY <1>13 DEF AppendFields
  <2>1. /\ file' = [file EXCEPT ![f] = Append(@, c)] /\ mem' = mem /\ pos' = pos /\ job' = job /\ acked' = acked
        /\ pc' = [pc EXCEPT ![t] = "landing"]
    BY <1>13 DEF AppendFields, Goto
  <2>2. c \in Cells /\ c # Nl /\ s \in Seq(Cells)
    BY <1>0, NlAssumption DEF Lines, Cells, LineOf
  <2>3. file'[f] = Append(s, c) /\ \A g \in Files : g # f => file'[g] = file[g]
    BY <2>1, <1>0
  <2>4. Doing' = Doing
    BY <2>1, <1>6 DEF PutSteps
  <2>5. \A g \in Files : Listed(file'[g]) = Listed(file[g])
    <3>1. \A x : x \in Listed(Append(s, c)) <=> x \in Listed(s)
      BY <2>2, ListedAppend
    <3>2. Listed(Append(s, c)) = Listed(s)
      BY <3>1
    <3> QED BY <3>2, <2>3
  <2>6. Stored' = Stored
    BY <2>5, <1>0, <1>1, ReadingsHere, ReadingsNext DEF Readings
  <2>7. \A x \in Hashes : Seen(hd, x) => Seen(hd, x)'
    <3>1. file'[f] = Append(file[f], c)
      BY <2>2, <2>3, <2>1, <1>0
    <3>2. mem' = mem /\ pos' = pos /\ f \in Files /\ hd \in Handles /\ c \in Cells /\ TypeOK
      BY <2>1, <2>2, <1>0
    <3> QED BY ONLY <3>1, <3>2, <2>3, SeenAppend
  <2> QED BY <2>1, <2>4, <2>6, <2>7, <1>4
<1>14. CASE AppendNewline(t)
  <2> PICK s : s = file[f]
    OBVIOUS
  <2>1. /\ file' = [file EXCEPT ![f] = Append(@, Nl)] /\ mem' = mem /\ pos' = pos /\ job' = job /\ acked' = acked
        /\ pc' = [pc EXCEPT ![t] = "insert"] /\ pc[t] = "landing"
    BY <1>14 DEF AppendNewline, Goto
  <2>2. Nl \in Cells /\ s \in Seq(Cells)
    BY <1>0 DEF Cells
  <2>3. file'[f] = Append(s, Nl) /\ \A g \in Files : g # f => file'[g] = file[g]
    BY <2>1, <1>0
  <2>4. Doing' = Doing
    BY <2>1, <1>6 DEF PutSteps
  <2>5. s # <<>> /\ s[Len(s)] # Nl /\ s[Len(s)].h = h /\ Parted(s)
    BY <2>1, <1>0 DEF Faithful, Landing, Exact, PartedFiles
  <2>6. Listed(Append(s, Nl)) = Listed(s) \cup {h}
    BY <2>2, <2>5, ListedAppend, ListedNewline
  <2>7. Stored' = Stored \cup {h}
    <3>1. /\ Stored = Legacy \cup Listed(file["index"]) \cup Listed(file["refs"])
          /\ Stored' = Legacy \cup Listed(file'["index"]) \cup Listed(file'["refs"])
      BY <1>0, <1>1, ReadingsHere, ReadingsNext DEF Readings
    <3>2. CASE f = "index"
      BY <3>1, <3>2, <2>3, <2>6, <1>0
    <3>3. CASE f = "refs"
      BY <3>1, <3>3, <2>3, <2>6, <1>0
    <3> QED BY <3>2, <3>3, <1>0
  <2>8. \A x \in Hashes : Seen(hd, x) => Seen(hd, x)'
    BY <2>1, <2>2, <2>3, <1>0, SeenAppend
  <2>9. Promise!Sees
    BY <2>8, <1>0, <1>1, SeesStep
  <2>10. Promise!Land(t)
    BY <2>1, <2>4, <2>7, <2>9, <1>2 DEF Promise!Land
  <2> QED BY <2>10 DEF Promise!Next
<1>15. CASE PutInsert(t) \/ ReferenceInsert(t)
  <2> PICK loc : loc = NewLoc(t)
    OBVIOUS
  <2>1. /\ mem' = [mem EXCEPT ![hd][f][h] = loc] /\ file' = file /\ pos' = pos /\ acked' = acked /\ pc[t] = "insert"
    BY <1>15 DEF PutInsert, ReferenceInsert
  <2>2. loc # None
    <3>1. loc \in [p : Nat, o : Nat, len : {0, 1}]
      BY <1>0 DEF NewLoc
    <3> QED BY <3>1, NoneAssumption
  <2>3. /\ \A e \in Files, x \in Hashes : mem[hd][e][x] # None => mem'[hd][e][x] # None
        /\ mem'[hd][f][h] # None
    BY <2>1, <2>2, <1>0
  <2>4. \A x \in Hashes : Seen(hd, x) => Seen(hd, x)'
    BY <2>1, <2>3, <1>0 DEF Seen, Known
  <2>5. Seen(hd, h)'
    BY <2>3, <1>0 DEF Seen, Known
  <2>6. CASE PutInsert(t)
    <3>1. Doing' = Doing
      BY <2>6, <1>6 DEF PutInsert, Goto, PutSteps
    <3> QED BY <2>1, <2>4, <3>1, <1>3, <1>4
  <2>7. CASE ReferenceInsert(t)
    <3>1. Return(t)
      BY <2>7 DEF ReferenceInsert
    <3> QED BY <3>1, <2>1, <2>4, <2>5, <1>5
  <2> QED BY <1>15, <2>6, <2>7
<1>16. CASE PutAdvance(t)
  <2>1. /\ mem' = mem /\ file' = file /\ acked' = acked \cup {h} /\ Return(t) /\ pc[t] = "advance"
    BY <1>16 DEF PutAdvance
  <2>2. \A x \in Listed(file["index"]) : mem[hd]["index"][x] # None
    <3>1. \A u \in Threads : \A x : ~Inserting(u, "index", x)
      <4>1. \A u \in Threads : HandleOf[u] = hd
        BY HandleOfAssumption, <1>0 DEF Alone
      <4>2. mutex[hd] = t
        BY <2>1, <1>0 DEF IndInv, Locks, MutexHeld, InPut
      <4> QED BY <4>1, <4>2, <2>1, <1>0 DEF IndInv, Locks, MutexHeld, InPut, Inserting
    <3> QED BY <3>1, <1>0, <1>1 DEF Faithful, Covered, Loaded
  <2>3. \A x \in Hashes : Seen(hd, x) => Known(mem[hd], x)
    <3> TAKE x \in Hashes
    <3>1. ASSUME NEW i \in CompleteLines(file["index"], pos[hd]["index"]), file["index"][i].h = x
          PROVE  Known(mem[hd], x)
      <4>1. RefreshedMem(hd, "index")[x] # None
        BY <3>1, <1>0, RefreshedIndex
      <4>2. x \in Listed(file["index"])
        BY <4>1, <1>0, RefreshedListed DEF Exact
      <4> QED BY <4>2, <2>2 DEF Known
    <3> QED BY <3>1 DEF Seen
  <2>4. \A x \in Hashes : Seen(hd, x) => Seen(hd, x)'
    BY <2>1, <2>3 DEF Seen
  <2>5. Seen(hd, h)'
    <3>1. f = "index" /\ h \in Listed(file[f])
      BY <2>1, <1>0 DEF IndInv, Locks, IndexJobs, Exact, Landed
    <3> QED BY <3>1, <2>1, <2>2 DEF Seen, Known
  <2> QED BY <2>1, <2>4, <2>5, <1>5
<1> QED
  BY <1>8, <1>9, <1>10, <1>11, <1>12, <1>13, <1>14, <1>15, <1>16 DEF CallStep

LEMMA SameMapping ==
    file' = file /\ phase' = phase /\ on' = on /\ kept' = kept /\ mem' = mem /\ pos' = pos
    /\ pc' = pc /\ job' = job /\ acked' = acked => UNCHANGED Promise!vars
  BY DEF Promise!vars, Stored, Recorded, Listed, CompleteLines, StartsLine, Visible, OpenHandles, HasAnswer, Known,
         RefreshedMem, RefreshedPos, Readable, RunsOn, Inserted, Doing

LEMMA FaultSimulates ==
    ASSUME Good, Good', Fault, Unfailed'
    PROVE  [Promise!Next]_(Promise!vars)
<1> USE DEF disk, opening, memory, calls, ghosts
<1>0. /\ IndInv /\ Alone /\ Exact /\ TypeOK /\ TypeOK' /\ Alone' /\ HandleOf \in [Threads -> Handles]
      /\ used \in [Bounded -> Nat] /\ phase \in [Handles -> Phases]
  BY HandleOfAssumption DEF Good, Calm, IndInv, TypeOK
<1>a. ~(used' = [used EXCEPT !["errors"] = @ + 1])
  BY <1>0 DEF Unfailed, Bounded
<1>1. ASSUME NEW hd \in Handles, NEW torn \in BOOLEAN, Crash(hd, torn)
      PROVE  [Promise!Next]_(Promise!vars)
  <2>1. \A t \in Threads : HandleOf[t] = hd
    BY <1>0 DEF Alone
  <2>2. phase'[hd] = "closed" /\ file' = file /\ acked' = acked /\ \A t \in Threads : pc'[t] = "idle"
    BY <1>1, <2>1, <1>0 DEF Crash, Forget
  <2>3. phase[hd] # "fill"
    <3>1. used["crashes"] < MaxCrashes /\ used["crashes"] \in Nat
      BY <1>1, <1>0 DEF Crash, Bounded
    <3>2. used["crashes"] = 0
      BY <3>1, BoundAssumption DEF Good, Calm
    <3> QED BY <3>2, <1>0 DEF Exact, TornByCrash
  <2>4. Stored' = Stored /\ Visible' = None
    BY <2>2, <2>3, <1>0, ReadingsHere, ReadingsNext DEF Readings
  <2>5. Doing' = [t \in Threads |-> None]
    BY <2>2 DEF Doing
  <2>6. Promise!Close
    BY <2>2, <2>4, <2>5 DEF Promise!Close
  <2> QED BY <2>6 DEF Promise!Next
<1>2. ASSUME NEW h \in Hashes, NEW s \in Sources \ {"there"}, EditSource(h, s)
      PROVE  UNCHANGED Promise!vars
  <2>1. file' = file /\ phase' = phase /\ on' = on /\ kept' = kept /\ mem' = mem /\ pos' = pos
        /\ pc' = pc /\ job' = job /\ acked' = acked
    BY <1>2 DEF EditSource
  <2> QED BY <2>1, SameMapping
<1> QED
  BY <1>a, <1>1, <1>2 DEF Fault, PutWriteFails, AppendFails

(* Every step of a store with one handle is a step of the abstract one.    *)
LEMMA Simulates == ASSUME Good, Good', [Next]_vars, Unfailed' PROVE [Promise!Next]_(Promise!vars)
<1>1. CASE Next
  BY <1>1, OpenSimulates, CallSimulates, CallStepSimulates, FaultSimulates DEF Next
<1>2. CASE UNCHANGED vars
  BY <1>2, SameMapping DEF vars
<1> QED BY <1>1, <1>2

LEMMA InitPromise == Init => Promise!Init
<1> SUFFICES ASSUME Init PROVE Promise!Init
  OBVIOUS
<1>1. Listed(<<>>) = {}
  BY DEF Listed, CompleteLines
<1>2. \A f \in Files : Recorded(f) = {}
  BY <1>1 DEF Init, Recorded
<1>3. Stored = Legacy
  BY <1>2 DEF Stored, Files
<1>4. Visible = None
  BY DEF Init, Visible, OpenHandles
<1>5. Doing = [t \in Threads |-> None]
  BY DEF Init, Doing
<1> QED BY <1>3, <1>4, <1>5 DEF Init, Promise!Init

(* What holds also after a write has failed, and Good until then.          *)
Kept == IndInv /\ Calm /\ Faithful /\ (Unfailed => Exact)

(* While one handle uses the directory and the process dies at most once,  *)
(* the store keeps what ContentStore promises until a write returns an     *)
(* error: no chunk that has landed is lost, has() never answers for one    *)
(* that has not, every open finds exactly what has landed, and put answers *)
(* (h, true) only to the call that stored h.                               *)
THEOREM StoreKeepsPromise == ASSUME Calm PROVE Spec => IsContentStore
<1>1. Init => Kept
  BY InitIndInv, InitFaithful, InitExact DEF Kept
<1>2. ASSUME Kept, [Next]_vars
      PROVE  Kept' /\ ([Promise!Next]_(Promise!vars) \/ used'["errors"] # 0)
  <2>1. IndInv /\ Calm /\ Alone /\ Faithful /\ TypeOK
    BY <1>2 DEF Kept, Calm, IndInv
  <2>2. IndInv' /\ Faithful'
    BY <1>2, <2>1, StepIndInv, StepFaithful
  <2>3. Calm'
    BY <2>1 DEF Calm, Alone
  <2>4. ASSUME Unfailed'
        PROVE  Exact' /\ [Promise!Next]_(Promise!vars)
    <3>1. Exact
      BY <1>2, <2>1, <2>4, UnfailedBefore DEF Kept
    <3>2. Exact'
      BY <1>2, <2>1, <2>4, <3>1, StepExact
    <3>3. Good /\ Good'
      BY <2>1, <2>2, <2>3, <3>1, <3>2 DEF Good
    <3> QED BY <1>2, <2>4, <3>2, <3>3, Simulates
  <2> QED BY <2>2, <2>3, <2>4 DEF Kept, Unfailed
<1>3. Kept /\ [Next]_vars => Kept' /\ [Promise!Next \/ used'["errors"] # 0]_(Promise!vars)
  BY <1>2
<1>4. Init => Promise!Init
  BY InitPromise
<1> QED
  BY <1>1, <1>3, <1>4, PTL DEF Spec, IsContentStore
=============================================================================
