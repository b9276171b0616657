--------------------------- MODULE DownloadProofs ---------------------------
(***************************************************************************)
(* Proofs about Download for any content, any providers in any groups, and *)
(* any bounds.                                                             *)
(***************************************************************************)
EXTENDS Download, FiniteSetTheorems, TLAPS

(* The types.                                                              *)
SlotType == [chunk : Chunks, k : Nat, from : Providers \cup {None},
             state : {"waiting", "asking", "arrived", "failed", "taken"}]
Slots == UNION {[S -> SlotType] : S \in SUBSET DOMAIN List}
Stages == {"manifest", "fetch", "symbols", "ingest", "ended", "fetched", "failed"}
AtType ==
    [group : DOMAIN Groups, number : 1 .. Attempts, pc : Stages, asked : Nat, err : BOOLEAN,
     slots : Slots, fetched : [Providers -> Nat], done : 0 .. Len(List), first : Nat \cup {None},
     had : Nat, start : Nat, good : Nat, bytes : Nat, tries : Nat, lastlen : Nat, batches : Nat,
     clean : BOOLEAN]

Typed ==
    /\ at \in AtType
    /\ store \subseteq Chunks /\ gone \subseteq Providers /\ late \in BOOLEAN
    /\ faults \in [net : Nat, disk : Nat]
    /\ way \in {"chunks", "symbols"} /\ size \in TotalSizes
    /\ served \in [Providers -> Nat] /\ paid \in [Providers -> Nat]

(* An attempt that asks for the manifest has nothing yet, and whoever it   *)
(* has asked had none to give.                                             *)
Asking ==
    at.pc = "manifest" =>
        /\ DOMAIN at.slots = {} /\ at.err = FALSE /\ at.fetched = Nobody /\ at.first = None
        /\ at.start = 0 /\ at.good = 0 /\ at.bytes = 0 /\ at.lastlen = 0
        /\ at.asked \in DOMAIN Group /\ served = Nobody /\ paid = Nobody
        /\ at.clean => \A k \in 1 .. at.asked - 1 : ManifestAnswer(Group[k]) # "good"

(* What one slot knows: its chunk, whom it has asked in vain, and who sent *)
(* the chunk.                                                              *)
Holds(k, c) == ChunkAnswer(Group[k], c) = c
SlotOf(s, slot) ==
        /\ slot.chunk = List[s] /\ slot.k <= Len(Group)
        /\ slot.state \in {"waiting", "asking", "arrived"} => slot.k < Len(Group)
        /\ slot.from = None => slot.state # "arrived"
        /\ slot.from # None =>
              /\ slot.state \in {"arrived", "taken"}
              /\ ChunkAnswer(slot.from, slot.chunk) = slot.chunk
              /\ \E k \in DOMAIN Group : slot.from = Group[k]
        /\ slot.from = None /\ slot.state \in {"failed", "taken"} => slot.k = Len(Group)
Vainly(s, slot) ==
    at.clean => \A j \in 0 .. slot.k - 1 : ChunkAnswer(ProviderOf(s, j), slot.chunk) # slot.chunk
SlotKnows(s) == SlotOf(s, at.slots[s]) /\ Vainly(s, at.slots[s])

(* A chunk of a slot that is in the store was sent by one of the group.    *)
Earned(s) ==
    at.slots[s].chunk \in store => \E k \in DOMAIN Group : Holds(k, at.slots[s].chunk)

Kept(s) == at.slots[s].state = "taken" /\ at.slots[s].from # None
Lost(s) == at.slots[s].state = "taken" /\ at.slots[s].from = None
Open == {s \in DOMAIN at.slots : ~Kept(s)}
Arrived(p) == {s \in DOMAIN at.slots : at.slots[s].state = "arrived" /\ at.slots[s].from = p}

Slotted == \A s \in DOMAIN at.slots : SlotKnows(s) /\ Earned(s)

(* While chunks are fetched, what is not in the store has an open slot.    *)
Fetching ==
    at.pc = "fetch" =>
        /\ way = "chunks" /\ at.first = at.had
        /\ \A i \in DOMAIN List : List[i] \in store \/ i \in Open
        /\ at.done + Cardinality(Open) = Len(List)
        /\ at.err => \E s \in DOMAIN at.slots : Lost(s)
        /\ ~at.err => \A s \in DOMAIN at.slots : ~Lost(s)

(* What a provider sent is counted for it, or waits in a slot.             *)
Accounted ==
    /\ way = "chunks" => \A p \in Providers : served[p] = at.fetched[p] + Cardinality(Arrived(p))
    /\ way = "symbols" => DOMAIN at.slots = {}

Finished ==
    /\ at.pc \in {"ended", "fetched"} /\ ~at.err =>
          /\ store = Chunks
          /\ way = "chunks" => at.done = Len(List) /\ at.first = at.had
    /\ at.pc = "fetched" => ~at.err
    /\ way = "chunks" /\ at.pc \in {"ended", "fetched"} /\ DOMAIN at.slots # {} /\ faults.disk = 0
          => paid = served
    /\ at.pc \in {"symbols", "ingest"} => way = "symbols"
    /\ at.pc \in {"symbols", "ingest"} => ~at.err

IndInv ==
    /\ Typed /\ Asking /\ Slotted /\ Fetching /\ Accounted /\ Finished
    /\ Cardinality(InFlight) <= Parallel /\ GivenUpOnlyIfAbsent

(* Without faults, an honest provider's symbols of one block decode as     *)
(* soon as there are as many as the content has source symbols. Those of   *)
(* several blocks may fail to, once; they then decode when all have come.  *)
Ample == \A s \in TotalSizes : s = 0 \/ 2 * s >= FecBatch * PacketSize
Honest == way = "symbols" /\ size <= MaxTransfer /\ Kind[Group[1]] = "honest" /\ Group[1] \notin gone /\ at.clean
Decoding ==
    Honest =>
        /\ at.pc = "manifest" => at.asked = 1 /\ at.tries = 0
        /\ at.pc \in {"symbols", "ended"} => ~at.err
        /\ at.pc = "symbols" =>
              /\ at.good = at.start /\ at.bytes = at.start * PacketSize /\ at.start <= AllSymbols
              /\ at.start < Need =>
                    at.lastlen = 0 /\ at.tries = 0 /\ (at.start = 0 \/ at.start >= FecBatch)
              /\ at.start >= Need =>
                    at.lastlen >= Need /\ at.tries = 1 /\ SourceBlocks(size) > 1

-----------------------------------------------------------------------------
LEMMA ConstantsFact ==
    /\ List \in Seq(Chunks) /\ DOMAIN List = 1 .. Len(List) /\ Len(List) \in Nat
    /\ \A i \in DOMAIN List : List[i] \in Chunks
    /\ \A c \in Chunks : \E i \in DOMAIN List : List[i] = c
    /\ Groups \in Seq(Seq(Providers)) /\ Len(Groups) \in Nat /\ 1 \in DOMAIN Groups
    /\ DOMAIN Groups = 1 .. Len(Groups)
    /\ Attempts \in Nat /\ 1 \in 1 .. Attempts /\ Parallel \in Nat /\ Parallel > 0
    /\ None \notin Chunks /\ None \notin Providers /\ Junk \notin Chunks
    /\ Half \subseteq Chunks /\ TotalSizes \subseteq Nat /\ Ways \subseteq {"chunks", "symbols"}
    /\ \A p \in Providers : Kind[p] \in {"honest", "partial", "liar", "forger", "hollow"}
<1>1. /\ List \in Seq(Chunks) /\ DOMAIN List = 1 .. Len(List) /\ Len(List) \in Nat
      /\ \A i \in DOMAIN List : List[i] \in Chunks
  BY DownloadAssumption
<1>2. \A c \in Chunks : \E i \in DOMAIN List : List[i] = c
  BY DEF Chunks, ToSet
<1>3. Groups \in Seq(Seq(Providers) \ {<<>>}) /\ Groups # <<>>
  BY DownloadAssumption
<1>4. Groups \in Seq(Seq(Providers))
  BY <1>3
<1>5. Len(Groups) \in Nat /\ DOMAIN Groups = 1 .. Len(Groups) /\ 1 \in DOMAIN Groups
  BY <1>3
<1>6. Attempts \in Nat /\ 1 \in 1 .. Attempts /\ Parallel \in Nat /\ Parallel > 0
  BY DownloadAssumption
<1> QED BY <1>1, <1>2, <1>4, <1>5, <1>6, DownloadAssumption

LEMMA GroupFact ==
    ASSUME NEW g \in DOMAIN Groups
    PROVE  /\ Groups[g] \in Seq(Providers) /\ Len(Groups[g]) \in Nat /\ Len(Groups[g]) > 0
           /\ DOMAIN Groups[g] = 1 .. Len(Groups[g])
           /\ \A k \in DOMAIN Groups[g] : Groups[g][k] \in Providers
<1>1. Groups \in Seq(Seq(Providers) \ {<<>>})
  BY DownloadAssumption
<1>2. Groups[g] \in Seq(Providers) /\ Groups[g] # <<>>
  BY <1>1
<1>3. Len(Groups[g]) \in Nat /\ Len(Groups[g]) > 0 /\ DOMAIN Groups[g] = 1 .. Len(Groups[g])
  BY <1>2
<1> QED BY <1>2, <1>3

LEMMA SlotsFact ==
    /\ \A f \in Slots : /\ DOMAIN f \subseteq DOMAIN List
                        /\ \A s \in DOMAIN f : f[s] \in SlotType
    /\ \A f \in Slots : \A s \in DOMAIN f : \A x \in SlotType : [f EXCEPT ![s] = x] \in Slots
    /\ <<>> \in Slots /\ DOMAIN <<>> = {}
<1>1. \A f \in Slots : /\ DOMAIN f \subseteq DOMAIN List
                       /\ \A s \in DOMAIN f : f[s] \in SlotType
  BY DEF Slots
<1>2. ASSUME NEW f \in Slots, NEW s \in DOMAIN f, NEW x \in SlotType
      PROVE  [f EXCEPT ![s] = x] \in Slots
  <2>1. PICK S \in SUBSET DOMAIN List : f \in [S -> SlotType]
    BY DEF Slots
  <2>2. [f EXCEPT ![s] = x] \in [S -> SlotType]
    BY <2>1
  <2> QED BY <2>2 DEF Slots
<1>3. <<>> \in [{} -> SlotType] /\ DOMAIN <<>> = {}
  OBVIOUS
<1>4. {} \in SUBSET DOMAIN List
  OBVIOUS
<1>5. <<>> \in Slots
  BY <1>3, <1>4 DEF Slots
<1> QED BY <1>1, <1>2, <1>3, <1>5

LEMMA ModFact ==
    ASSUME NEW n \in Nat, n > 0, NEW a \in Nat, NEW b \in 0 .. n - 1
    PROVE  (a * n + b) % n = b
<1> PICK x \in Nat : x = a * n + b
  OBVIOUS
<1> PICK q \in Nat : q = x \div n
  OBVIOUS
<1> PICK m \in 0 .. n - 1 : m = x % n
  OBVIOUS
<1>1. x = q * n + m
  OBVIOUS
<1>2. (a - q) * n = m - b
  <2>1. a * n + b = q * n + m
    BY <1>1
  <2>2. (a - q) * n = a * n - q * n
    OBVIOUS
  <2> QED BY <2>1, <2>2
<1>3. CASE a > q
  <2>1. a - q >= 1
    BY <1>3
  <2>2. (a - q) * n >= 1 * n
    BY <2>1
  <2> QED BY <2>2, <1>2
<1>4. CASE a < q
  <2>1. q - a >= 1
    BY <1>4
  <2>2. (q - a) * n >= 1 * n
    BY <2>1
  <2>3. (q - a) * n = b - m
    BY <1>2
  <2> QED BY <2>2, <2>3
<1>5. CASE a = q
  BY <1>2, <1>5
<1> QED BY <1>3, <1>4, <1>5

(* Asking the providers in turn, from any of them, asks them all.          *)
LEMMA RoundRobin ==
    ASSUME NEW n \in Nat, n > 0, NEW t \in Nat, NEW k \in 1 .. n
    PROVE  \E j \in 0 .. n - 1 : ((t + j) % n) + 1 = k
<1> PICK q \in Nat : q = t \div n
  OBVIOUS
<1> PICK m \in 0 .. n - 1 : m = t % n
  OBVIOUS
<1>1. t = q * n + m
  OBVIOUS
<1> PICK b \in 0 .. n - 1 : b = k - 1
  OBVIOUS
<1>2. CASE b >= m
  <2> PICK j \in 0 .. n - 1 : j = b - m
    BY <1>2
  <2>1. t + j = q * n + b
    BY ONLY <1>1, j = b - m, q \in Nat, m \in Nat, b \in Nat, n \in Nat, t \in Nat, (q * n) \in Nat
  <2>2. (t + j) % n = b
    BY <2>1, ModFact
  <2>3. ((t + j) % n) + 1 = k
    BY <2>2
  <2> QED BY <2>3, Zenon
<1>3. CASE b < m
  <2> PICK j \in 0 .. n - 1 : j = b - m + n
    BY <1>3
  <2>1. t + j = (q + 1) * n + b
    <3>1. (q + 1) * n = q * n + n
      BY ONLY q \in Nat, n \in Nat
    <3>2. q * n \in Nat
      BY ONLY q \in Nat, n \in Nat
    <3> QED BY <3>1, <3>2, <1>1
  <2>2. (t + j) % n = b
    <3>1. q + 1 \in Nat
      OBVIOUS
    <3> QED BY <3>1, <2>1, ModFact
  <2> QED BY <2>2
<1> QED BY <1>2, <1>3

LEMMA AtFact ==
    ASSUME Typed
    PROVE  /\ at \in AtType /\ at.group \in DOMAIN Groups /\ at.slots \in Slots /\ at.pc \in Stages
           /\ at.asked \in Nat /\ at.err \in BOOLEAN /\ at.clean \in BOOLEAN /\ at.number \in 1 .. Attempts
           /\ at.done \in 0 .. Len(List) /\ at.fetched \in [Providers -> Nat]
           /\ DOMAIN at.slots \subseteq DOMAIN List
           /\ \A s \in DOMAIN at.slots : at.slots[s] \in SlotType
<1>1. at \in AtType
  BY DEF Typed
<1>2. /\ at.group \in DOMAIN Groups /\ at.slots \in Slots /\ at.pc \in Stages
      /\ at.asked \in Nat /\ at.err \in BOOLEAN /\ at.clean \in BOOLEAN /\ at.number \in 1 .. Attempts
      /\ at.done \in 0 .. Len(List) /\ at.fetched \in [Providers -> Nat]
  BY <1>1 DEF AtType
<1> QED BY <1>1, <1>2, SlotsFact

LEMMA TeamFact ==
    ASSUME Typed
    PROVE  /\ Len(Group) \in Nat /\ Len(Group) > 0 /\ DOMAIN Group = 1 .. Len(Group)
           /\ \A k \in DOMAIN Group : Group[k] \in Providers
BY AtFact, GroupFact DEF Group

LEMMA SlotFinite ==
    ASSUME Typed
    PROVE  /\ IsFiniteSet(DOMAIN at.slots)
           /\ \A S : S \subseteq DOMAIN at.slots => IsFiniteSet(S) /\ Cardinality(S) \in Nat
           /\ Open \subseteq DOMAIN at.slots /\ InFlight \subseteq DOMAIN at.slots
           /\ \A p : Arrived(p) \subseteq DOMAIN at.slots
<1>1. IsFiniteSet(1 .. Len(List))
  BY ConstantsFact, FS_Interval
<1>2. IsFiniteSet(DOMAIN at.slots)
  BY <1>1, AtFact, ConstantsFact, FS_Subset
<1>3. \A S : S \subseteq DOMAIN at.slots => IsFiniteSet(S)
  BY <1>2, FS_Subset
<1>4. \A S : S \subseteq DOMAIN at.slots => Cardinality(S) \in Nat
  BY <1>3, FS_CardinalityType
<1> QED BY <1>2, <1>3, <1>4 DEF Open, InFlight, Arrived

LEMMA BeforeFact == ASSUME Typed, NEW s PROVE Before(s) \in Nat
<1>1. {r \in DOMAIN at.slots : r < s} \subseteq DOMAIN at.slots
  OBVIOUS
<1> QED BY <1>1, SlotFinite DEF Before

LEMMA TurnFact ==
    ASSUME Typed, NEW s, NEW k \in Nat
    PROVE  /\ ((Before(s) + k) % Len(Group)) + 1 \in DOMAIN Group
           /\ ProviderOf(s, k) = Group[((Before(s) + k) % Len(Group)) + 1]
           /\ ProviderOf(s, k) \in Providers
<1>1. ((Before(s) + k) % Len(Group)) \in 0 .. Len(Group) - 1
  BY BeforeFact, TeamFact
<1>2. ((Before(s) + k) % Len(Group)) + 1 \in DOMAIN Group
  BY <1>1, TeamFact
<1> QED BY <1>2, TeamFact DEF ProviderOf

(* Whoever has asked as many as there are has asked everybody.             *)
LEMMA EveryoneAsked ==
    ASSUME Typed, NEW s, NEW k \in DOMAIN Group
    PROVE  \E j \in 0 .. Len(Group) - 1 : ProviderOf(s, j) = Group[k]
<1> PICK n \in Nat : n = Len(Group)
  BY TeamFact
<1> PICK t \in Nat : t = Before(s)
  BY BeforeFact
<1>0. \E j \in 0 .. n - 1 : ((t + j) % n) + 1 = k
  <2>1. n > 0 /\ k \in 1 .. n
    BY TeamFact
  <2> QED BY <2>1, RoundRobin
<1>1. PICK j \in 0 .. Len(Group) - 1 : ((Before(s) + j) % Len(Group)) + 1 = k
  BY <1>0
<1>2. j \in Nat
  BY <1>1, TeamFact
<1>3. ProviderOf(s, j) = Group[k]
  BY <1>1, <1>2, TurnFact
<1> QED BY <1>1, <1>3

(* The order of the slots, and so whom they ask.                           *)
LEMMA SameTurns ==
    ASSUME DOMAIN at'.slots = DOMAIN at.slots, at'.group = at.group
    PROVE  /\ Group' = Group
           /\ \A s, j : ProviderOf(s, j)' = ProviderOf(s, j)
<1>1. Group' = Group
  BY DEF Group
<1>2. \A s : Before(s)' = Before(s)
  BY DEF Before
<1> QED BY <1>1, <1>2 DEF ProviderOf

LEMMA KnowsStays ==
    ASSUME NEW s, SlotKnows(s), at'.slots[s] = at.slots[s], at'.clean => at.clean,
           Group' = Group, \A j : ProviderOf(s, j)' = ProviderOf(s, j)
    PROVE  SlotKnows(s)'
<1> PICK x : x = at.slots[s]
  OBVIOUS
<1>1. SlotOf(s, x) /\ Vainly(s, x)
  BY DEF SlotKnows
<1>2. SlotOf(s, x)'
  BY <1>1 DEF SlotOf, ChunkAnswer
<1>3. Vainly(s, x)'
  BY <1>1 DEF Vainly, ChunkAnswer
<1>4. (at.slots[s])' = x
  OBVIOUS
<1> QED BY <1>2, <1>3, <1>4 DEF SlotKnows

(* One slot changes, and no other.                                         *)
LEMMA OtherSlots ==
    ASSUME Typed, Slotted, at'.group = at.group, at'.clean => at.clean,
           NEW t \in DOMAIN at.slots, NEW x \in SlotType, at'.slots = [at.slots EXCEPT ![t] = x],
           NEW s \in DOMAIN at.slots, s # t
    PROVE  SlotKnows(s)'
<1>1. at'.slots[s] = at.slots[s] /\ DOMAIN at'.slots = DOMAIN at.slots
  OBVIOUS
<1>2. Group' = Group /\ \A j : ProviderOf(s, j)' = ProviderOf(s, j)
  BY <1>1, SameTurns
<1>3. SlotKnows(s)
  BY DEF Slotted
<1> QED BY <1>1, <1>2, <1>3, KnowsStays

LEMMA SameSlots ==
    ASSUME Typed, Slotted, at'.group = at.group, at'.clean => at.clean, at'.slots = at.slots,
           store' = store
    PROVE  Slotted'
<1>2. Group' = Group /\ \A s, j : ProviderOf(s, j)' = ProviderOf(s, j)
  BY SameTurns
<1> SUFFICES ASSUME NEW s \in DOMAIN at.slots PROVE SlotKnows(s)' /\ Earned(s)'
  BY DEF Slotted
<1>3. SlotKnows(s) /\ Earned(s)
  BY DEF Slotted
<1>4. SlotKnows(s)'
  BY <1>2, <1>3, KnowsStays
<1>5. Earned(s)'
  BY <1>2, <1>3 DEF Earned, Holds, ChunkAnswer
<1> QED BY <1>4, <1>5

-----------------------------------------------------------------------------
(* The manifest.                                                           *)

LEMMA NoSlots ==
    ASSUME DOMAIN at.slots = {}
    PROVE  /\ Slotted /\ Cardinality(InFlight) <= Parallel
           /\ \A p : Cardinality(Arrived(p)) = 0
<1>1. Slotted
  BY DEF Slotted
<1>2. Cardinality({}) = 0
  BY FS_EmptySet
<1>3. Cardinality(InFlight) <= Parallel
  <2>1. InFlight = {}
    BY DEF InFlight
  <2> QED BY <2>1, <1>2, ConstantsFact
<1>4. ASSUME NEW p PROVE Cardinality(Arrived(p)) = 0
  <2>1. Arrived(p) = {}
    BY DEF Arrived
  <2> QED BY <2>1, <1>2
<1> QED BY <1>1, <1>3, <1>4

LEMMA Empties == DOMAIN at.slots = {} => Slotted /\ Cardinality(InFlight) <= Parallel
BY NoSlots

LEMMA EmptyNext == (DOMAIN at.slots = {})' => (Slotted /\ Cardinality(InFlight) <= Parallel)'
BY Empties, PTL

LEMMA FreshFact ==
    ASSUME NEW g \in DOMAIN Groups, NEW m \in 1 .. Attempts
    PROVE  LET x == Fresh(g, m) IN
           /\ x \in AtType /\ x.group = g /\ x.number = m /\ x.pc = "manifest" /\ x.asked = 1
           /\ x.err = FALSE /\ x.slots = <<>> /\ DOMAIN x.slots = {} /\ x.fetched = Nobody
           /\ x.done = 0 /\ x.first = None /\ x.clean = TRUE
           /\ x.start = 0 /\ x.good = 0 /\ x.bytes = 0 /\ x.lastlen = 0
<1>1. Nobody \in [Providers -> Nat] /\ 0 \in 0 .. Len(List) /\ <<>> \in Slots /\ DOMAIN <<>> = {}
  BY ConstantsFact, SlotsFact DEF Nobody
<1>2. Fresh(g, m) \in AtType
  BY <1>1 DEF Fresh, AtType, Stages
<1> QED BY <1>1, <1>2 DEF Fresh

(* An attempt begins.                                                      *)
LEMMA Begun ==
    ASSUME Typed, at.pc = "manifest", at.err = FALSE, DOMAIN at.slots = {}, at.fetched = Nobody,
           at.first = None, at.start = 0, at.good = 0, at.bytes = 0, at.lastlen = 0,
           at.asked = 1, served = Nobody, paid = Nobody
    PROVE  IndInv
<1>1. Asking
  <2>1. 1 \in DOMAIN Group
    BY TeamFact
  <2>2. \A k \in 1 .. at.asked - 1 : FALSE
    OBVIOUS
  <2> QED BY <2>1, <2>2 DEF Asking
<1>2. Slotted /\ Cardinality(InFlight) <= Parallel /\ \A p : Cardinality(Arrived(p)) = 0
  BY NoSlots
<1>3. Accounted
  BY <1>2 DEF Accounted, Nobody
<1>4. Fetching /\ Finished /\ GivenUpOnlyIfAbsent
  BY DEF Fetching, Finished, GivenUpOnlyIfAbsent
<1> QED BY <1>1, <1>2, <1>3, <1>4 DEF IndInv

Begins == at.pc = "manifest" /\ at.err = FALSE /\ DOMAIN at.slots = {} /\ at.fetched = Nobody
            /\ at.first = None /\ at.start = 0 /\ at.good = 0 /\ at.bytes = 0 /\ at.lastlen = 0
            /\ at.asked = 1 /\ served = Nobody /\ paid = Nobody

LEMMA BeginsFact == Typed /\ Begins => IndInv
BY Begun DEF Begins

LEMMA BeginsNext == Typed' /\ Begins' => IndInv'
BY BeginsFact, PTL

LEMMA InitIndInv == Init => IndInv
<1> SUFFICES ASSUME Init PROVE Typed /\ Begins
  BY BeginsFact
<1> USE DEF Init
<1>1. 1 \in DOMAIN Groups /\ 1 \in 1 .. Attempts
  BY ConstantsFact
<1>2. Begins /\ at \in AtType
  BY <1>1, FreshFact, ZenonT(60) DEF Begins
<1>3. Nobody \in [Providers -> Nat] /\ [net |-> 0, disk |-> 0] \in [net : Nat, disk : Nat]
  BY DEF Nobody
<1> QED BY <1>2, <1>3, ConstantsFact DEF Typed

-----------------------------------------------------------------------------
(* The steps.                                                              *)

(* What Start makes of at.                                                 *)
LEMMA MissingFact ==
    /\ IsFiniteSet(Missing) /\ Cardinality(Missing) \in Nat /\ Cardinality(Missing) <= Len(List)
    /\ Missing \subseteq DOMAIN List
    /\ AlreadyThere \in 0 .. Len(List) /\ AlreadyThere + Cardinality(Missing) = Len(List)
<1>1. Missing \subseteq DOMAIN List
  BY DEF Missing
<1> PICK n \in Nat : n = Len(List)
  BY ConstantsFact
<1>0. IsFiniteSet(1 .. n) /\ Cardinality(1 .. n) = n
  <2>1. 1 \in Int /\ n \in Int
    OBVIOUS
  <2>2. IsFiniteSet(1 .. n) /\ Cardinality(1 .. n) = IF 1 > n THEN 0 ELSE n - 1 + 1
    BY <2>1, FS_Interval, Zenon
  <2> QED BY <2>2
<1>2. IsFiniteSet(1 .. Len(List)) /\ Cardinality(1 .. Len(List)) = Len(List)
  BY <1>0
<1>3. IsFiniteSet(Missing) /\ Cardinality(Missing) <= Len(List)
  BY <1>1, <1>2, ConstantsFact, FS_Subset
<1>4. Cardinality(Missing) \in Nat
  BY <1>3, FS_CardinalityType
<1> QED BY <1>1, <1>3, <1>4, ConstantsFact DEF AlreadyThere

LEMMA SlotTyped == ASSUME NEW i \in DOMAIN List PROVE Slot(i) \in SlotType
BY ConstantsFact DEF Slot, SlotType

LEMMA StartChunks ==
    ASSUME IndInv, at.pc = "manifest", way = "chunks", Start,
           UNCHANGED <<faults, store, gone, late, way, size, served, paid>>
    PROVE  IndInv'
<1>0. Typed /\ Asking
  BY DEF IndInv
<1>a. /\ at.err = FALSE /\ at.fetched = Nobody /\ served = Nobody /\ at.first = None
  BY <1>0 DEF Asking
<1> PICK f : f = [i \in Missing |-> Slot(i)]
  OBVIOUS
<1> PICK n \in 0 .. Len(List) : n = AlreadyThere
  BY MissingFact
<1>1. at' = [at EXCEPT !.pc = "fetch", !.slots = f, !.done = n, !.first = n, !.had = n]
  BY <1>a DEF Start, Baseline
<1>2. f \in Slots
  <2>1. f \in [Missing -> SlotType]
    BY MissingFact, SlotTyped
  <2> QED BY <2>1, MissingFact DEF Slots
<1>3. n \in Nat
  BY ConstantsFact
<1>4. /\ at' \in AtType /\ at'.pc = "fetch" /\ at'.slots = f /\ at'.done = n /\ at'.first = n /\ at'.had = n
      /\ at'.err = FALSE /\ at'.fetched = Nobody /\ at'.group = at.group
  BY <1>0, <1>a, <1>1, <1>2, <1>3, ZenonT(60) DEF Typed, AtType, Stages
<1>5. Typed'
  BY <1>0, <1>4 DEF Typed
<1>6. ASSUME NEW s \in Missing
      PROVE  f[s].chunk = List[s] /\ f[s].k = 0 /\ f[s].from = None /\ f[s].state = "waiting"
                /\ List[s] \notin store
  BY DEF Slot, Missing
<1>7. ASSUME NEW s \in DOMAIN at'.slots PROVE SlotKnows(s)' /\ Earned(s)' /\ ~Kept(s)' /\ ~Lost(s)'
  <2> PICK x : x = f[s]
    OBVIOUS
  <2>0. s \in Missing /\ at'.slots[s] = x
    BY <1>4
  <2>1. x.chunk = List[s] /\ x.k = 0 /\ x.from = None /\ x.state = "waiting" /\ List[s] \notin store
    BY <1>6, <2>0
  <2>2. Len(Group)' > 0 /\ Len(Group)' \in Nat
    BY <1>0, <1>4, TeamFact DEF Group
  <2>3. SlotOf(s, x)'
    BY <2>1, <2>2 DEF SlotOf
  <2>4. Vainly(s, x)'
    BY <2>1 DEF Vainly
  <2>5. (at.slots[s])' = x
    BY <2>0
  <2> QED BY <2>1, <2>3, <2>4, <2>5 DEF SlotKnows, Earned, Kept, Lost
<1>8. Open' = Missing
  BY <1>4, <1>7 DEF Open
<1>9. Fetching'
  <2>1. \A i \in DOMAIN List : List[i] \in store' \/ i \in Open'
    BY <1>8 DEF Missing
  <2>2. at'.done + Cardinality(Open') = Len(List)
    BY <1>8, <1>4, MissingFact
  <2> QED BY <1>4, <1>7, <2>1, <2>2 DEF Fetching
<1>10. InFlight' = {} /\ \A p : Arrived(p)' = {}
  <2>1. \A s \in DOMAIN at'.slots : at'.slots[s].state = "waiting"
    BY <1>4, <1>6
  <2> QED BY <2>1 DEF InFlight, Arrived
<1>11. Cardinality({}) = 0
  BY FS_EmptySet
<1>12. Accounted'
  <2>1. ASSUME NEW p \in Providers
        PROVE  served'[p] = at'.fetched[p] + Cardinality(Arrived(p)')
    <3>1. Cardinality(Arrived(p)') = 0
      BY <1>10, <1>11
    <3>2. served'[p] = 0 /\ at'.fetched[p] = 0
      BY <1>4, <1>a DEF Nobody
    <3> QED BY <3>1, <3>2
  <2> QED BY <2>1 DEF Accounted
<1>13. (Asking /\ Finished /\ GivenUpOnlyIfAbsent)'
  BY <1>4 DEF Asking, Finished, GivenUpOnlyIfAbsent
<1>14. Cardinality(InFlight)' <= Parallel
  BY <1>10, <1>11, ConstantsFact
<1> QED BY <1>5, <1>7, <1>9, <1>12, <1>13, <1>14 DEF IndInv, Slotted

LEMMA StartSymbols ==
    ASSUME IndInv, at.pc = "manifest", way = "symbols", Start,
           UNCHANGED <<faults, store, gone, late, way, size, served, paid>>
    PROVE  IndInv'
<1>0. Typed /\ Asking
  BY DEF IndInv
<1>a. DOMAIN at.slots = {} /\ at.err = FALSE
  BY <1>0 DEF Asking
<1>1. /\ at' \in AtType /\ at'.pc \in {"symbols", "ended"} /\ DOMAIN at'.slots = {}
      /\ at'.pc = "ended" <=> at'.err
  <2>1. CASE size > MaxTransfer
    <3>1. at' = [at EXCEPT !.pc = "ended", !.err = TRUE]
      BY <2>1 DEF Start
    <3> QED BY <1>0, <1>a, <3>1 DEF Typed, AtType, Stages
  <2>2. CASE ~(size > MaxTransfer)
    <3>1. at' = [at EXCEPT !.pc = "symbols"]
      BY <2>2 DEF Start
    <3> QED BY <1>0, <1>a, <3>1 DEF Typed, AtType, Stages
  <2> QED BY <2>1, <2>2
<1>2. Typed'
  BY <1>0, <1>1 DEF Typed
<1>3. (Slotted /\ Cardinality(InFlight) <= Parallel)'
  BY <1>1, EmptyNext
<1>4. (Asking /\ Fetching /\ Accounted /\ Finished /\ GivenUpOnlyIfAbsent)'
  BY <1>1 DEF Asking, Fetching, Accounted, Finished, GivenUpOnlyIfAbsent
<1> QED BY <1>2, <1>3, <1>4 DEF IndInv

(* The manifest did not come from the provider asked.                      *)
LEMMA NextManifest ==
    ASSUME IndInv, at.pc = "manifest", NEW more \in BOOLEAN, NEW c \in BOOLEAN,
           more <=> (way = "chunks" /\ at.asked < Len(Group)),
           at' = [at EXCEPT !.asked = @ + 1, !.pc = IF more THEN "manifest" ELSE "ended",
                            !.err = ~more, !.clean = c],
           c => at.clean /\ ManifestAnswer(Group[at.asked]) # "good",
           faults' \in [net : Nat, disk : Nat],
           UNCHANGED <<store, gone, late, way, size, served, paid>>
    PROVE  IndInv'
<1>0. Typed /\ Asking /\ Accounted
  BY DEF IndInv
<1>a. /\ DOMAIN at.slots = {} /\ at.err = FALSE /\ at.fetched = Nobody /\ at.first = None
      /\ at.start = 0 /\ at.good = 0 /\ at.bytes = 0 /\ at.lastlen = 0
      /\ at.asked \in 1 .. Len(Group) /\ served = Nobody /\ paid = Nobody
  BY <1>0, TeamFact DEF Asking
<1> PICK st \in {"manifest", "ended"} : st = IF more THEN "manifest" ELSE "ended"
  OBVIOUS
<1> PICK e \in BOOLEAN : e <=> ~more
  OBVIOUS
<1> PICK n \in Nat : n = at.asked + 1
  BY <1>0, AtFact
<1>b. at' = [at EXCEPT !.asked = n, !.pc = st, !.err = e, !.clean = c] /\ at \in AtType
  BY <1>0 DEF Typed
<1>c. at' \in AtType
  BY <1>b, ZenonT(60) DEF AtType, Stages
<1>1. /\ at' \in AtType /\ at'.pc = st /\ at'.slots = at.slots
      /\ at'.err = e /\ at'.clean = c /\ at'.asked = at.asked + 1 /\ at'.group = at.group
      /\ at'.fetched = Nobody /\ at'.first = None
      /\ at'.start = 0 /\ at'.good = 0 /\ at'.bytes = 0 /\ at'.lastlen = 0
  BY <1>a, <1>b, <1>c, ZenonT(60) DEF AtType
<1>2. Typed'
  BY <1>0, <1>1 DEF Typed
<1>3. (Slotted /\ Cardinality(InFlight) <= Parallel)'
  BY <1>1, <1>a, EmptyNext
<1>4. Group' = Group /\ \A p : ManifestAnswer(p)' = ManifestAnswer(p)
  BY <1>1 DEF Group, ManifestAnswer
<1>5. c => \A k \in 1 .. at.asked : ManifestAnswer(Group[k]) # "good"
  <2> SUFFICES ASSUME c, NEW k \in 1 .. at.asked PROVE ManifestAnswer(Group[k]) # "good"
    OBVIOUS
  <2>1. CASE k = at.asked
    BY <2>1
  <2>2. CASE k # at.asked
    <3>1. k \in 1 .. at.asked - 1
      BY <2>2, <1>a
    <3> QED BY <3>1, <1>0 DEF Asking
  <2> QED BY <2>1, <2>2
<1>6. Asking'
  <2> SUFFICES ASSUME more
               PROVE  at'.asked \in DOMAIN Group'
                      /\ (c => \A k \in 1 .. at'.asked - 1 : ManifestAnswer(Group[k])' # "good")
    BY <1>1, <1>a DEF Asking
  <2>1. at'.asked \in DOMAIN Group'
    BY <1>1, <1>a, <1>4, <1>0, TeamFact
  <2>2. at'.asked - 1 = at.asked
    BY <1>1, <1>a
  <2> QED BY <2>1, <2>2, <1>4, <1>5
<1>7. GivenUpOnlyIfAbsent'
  <2> SUFFICES ASSUME way = "chunks", ~more, c
               PROVE  \A k \in DOMAIN Group' : ManifestAnswer(Group[k])' # "good"
    BY <1>1 DEF GivenUpOnlyIfAbsent
  <2>1. at.asked = Len(Group)
    BY <1>a, <1>0, TeamFact
  <2> QED BY <2>1, <1>4, <1>5, <1>0, TeamFact
<1>8. Accounted'
  <2>1. \A p : Arrived(p)' = Arrived(p)
    BY <1>1 DEF Arrived
  <2>2. ASSUME NEW p \in Providers PROVE Cardinality(Arrived(p))' = Cardinality(Arrived(p))
    BY <2>1
  <2> QED BY <1>0, <1>1, <1>a, <2>2 DEF Accounted
<1>9. (Fetching /\ Finished)'
  BY <1>1, <1>a DEF Fetching, Finished
<1> QED BY <1>2, <1>3, <1>6, <1>7, <1>8, <1>9 DEF IndInv

LEMMA AskManifestKeeps == IndInv /\ AskManifest => IndInv'
<1> SUFFICES ASSUME IndInv, AskManifest PROVE IndInv'
  OBVIOUS
<1> PICK more \in BOOLEAN : more <=> (way = "chunks" /\ at.asked < Len(Group))
  OBVIOUS
<1>0. Typed
  BY DEF IndInv
<1>1. at.pc = "manifest" /\ UNCHANGED <<store, gone, late, way, size, served, paid>>
  BY DEF AskManifest
<1>2. CASE Start /\ UNCHANGED faults
  BY <1>0, <1>1, <1>2, StartChunks, StartSymbols DEF Typed
<1>3. CASE /\ ManifestAnswer(Asked(at.asked)) # "good" /\ UNCHANGED faults
           /\ at' = [at EXCEPT !.asked = @ + 1, !.pc = IF more THEN "manifest" ELSE "ended", !.err = ~more]
  <2> PICK c \in BOOLEAN : c = at.clean
    BY <1>0, AtFact
  <2>1. at' = [at EXCEPT !.asked = @ + 1, !.pc = IF more THEN "manifest" ELSE "ended", !.err = ~more,
                         !.clean = c]
    BY <1>3, <1>0 DEF Typed, AtType
  <2>2. faults' \in [net : Nat, disk : Nat]
    BY <1>0, <1>3 DEF Typed
  <2> QED BY <2>1, <2>2, <1>1, <1>3, NextManifest DEF Asked
<1>4. CASE /\ Fault
           /\ at' = [at EXCEPT !.asked = @ + 1, !.pc = IF more THEN "manifest" ELSE "ended", !.err = ~more,
                               !.clean = FALSE]
  <2>1. faults' \in [net : Nat, disk : Nat]
    BY <1>0, <1>4 DEF Typed, Fault
  <2> QED BY <2>1, <1>1, <1>4, NextManifest
<1> QED BY <1>2, <1>3, <1>4 DEF AskManifest

LEMMA VainlyStays ==
    ASSUME NEW t, NEW x, Vainly(t, x), at'.clean => at.clean, \A j : ProviderOf(t, j)' = ProviderOf(t, j)
    PROVE  Vainly(t, x)'
BY DEF Vainly, ChunkAnswer

(* What a step that changes one slot leaves of the slots.                  *)
LEMMA OneSlot ==
    ASSUME Typed, Slotted, at'.group = at.group, NEW t \in DOMAIN at.slots, NEW x \in SlotType,
           at'.slots = [at.slots EXCEPT ![t] = x],
           SlotOf(t, x), at'.clean => at.clean /\ Vainly(t, x)
    PROVE  /\ \A s \in DOMAIN at.slots : SlotKnows(s)'
           /\ DOMAIN at'.slots = DOMAIN at.slots /\ at'.slots[t] = x
           /\ \A s \in DOMAIN at.slots : s # t => at'.slots[s] = at.slots[s]
<1>1. /\ DOMAIN at'.slots = DOMAIN at.slots /\ at'.slots[t] = x
      /\ \A s \in DOMAIN at.slots : s # t => at'.slots[s] = at.slots[s]
  OBVIOUS
<1>2. \A s \in DOMAIN at.slots : s # t => SlotKnows(s)'
  BY OtherSlots
<1>3. Group' = Group /\ \A s, j : ProviderOf(s, j)' = ProviderOf(s, j)
  BY <1>1, SameTurns
<1>4. SlotOf(t, x)'
  BY <1>3 DEF SlotOf, ChunkAnswer
<1>5. Vainly(t, x)'
  <2>1. CASE at'.clean
    BY <2>1, <1>3, VainlyStays
  <2>2. CASE ~at'.clean
    BY <2>2 DEF Vainly
  <2> QED BY <2>1, <2>2
<1>6. SlotKnows(t)'
  <2>1. (at.slots[t])' = x
    BY <1>1
  <2> QED BY <2>1, <1>4, <1>5 DEF SlotKnows
<1> QED BY <1>1, <1>2, <1>6

(* ... and of the sets of slots.                                           *)
LEMMA OtherSets ==
    ASSUME DOMAIN at'.slots = DOMAIN at.slots, NEW t \in DOMAIN at.slots,
           \A s \in DOMAIN at.slots : s # t => at'.slots[s] = at.slots[s]
    PROVE  /\ \A s \in DOMAIN at.slots : s # t => (Kept(s)' <=> Kept(s)) /\ (Lost(s)' <=> Lost(s))
           /\ Open' \ {t} = Open \ {t} /\ InFlight' \ {t} = InFlight \ {t}
           /\ \A p : Arrived(p)' \ {t} = Arrived(p) \ {t}
           /\ t \in Open' <=> ~Kept(t)'
           /\ t \in InFlight' <=> at'.slots[t].state \in {"asking", "arrived", "failed"}
           /\ \A p : t \in Arrived(p)' <=> at'.slots[t].state = "arrived" /\ at'.slots[t].from = p
<1>1. \A s \in DOMAIN at.slots : s # t => (Kept(s)' <=> Kept(s)) /\ (Lost(s)' <=> Lost(s))
  BY DEF Kept, Lost
<1>2. Open' \ {t} = Open \ {t}
  <2>1. \A s : s \in Open' \ {t} <=> s \in Open \ {t}
    BY <1>1 DEF Open
  <2> QED BY <2>1
<1>3. InFlight' \ {t} = InFlight \ {t}
  <2>1. \A s : s \in InFlight' \ {t} <=> s \in InFlight \ {t}
    BY DEF InFlight
  <2> QED BY <2>1
<1>4. ASSUME NEW p PROVE Arrived(p)' \ {t} = Arrived(p) \ {t}
  <2>1. \A s : s \in Arrived(p)' \ {t} <=> s \in Arrived(p) \ {t}
    BY DEF Arrived
  <2> QED BY <2>1
<1>5. t \in Open' <=> ~Kept(t)'
  BY DEF Open
<1>6. t \in InFlight' <=> at'.slots[t].state \in {"asking", "arrived", "failed"}
  BY DEF InFlight
<1>7. \A p : t \in Arrived(p)' <=> at'.slots[t].state = "arrived" /\ at'.slots[t].from = p
  BY DEF Arrived
<1> QED BY <1>1, <1>2, <1>3, <1>4, <1>5, <1>6, <1>7

LEMMA SameSet ==
    ASSUME NEW A, NEW B, NEW t, A \ {t} = B \ {t}, t \in A <=> t \in B
    PROVE  A = B
<1>1. \A s : s \in A <=> s \in B
  <2> SUFFICES ASSUME NEW s PROVE s \in A <=> s \in B
    OBVIOUS
  <2>1. s \in A \ {t} <=> s \in B \ {t}
    OBVIOUS
  <2> QED BY <2>1
<1> QED BY <1>1

LEMMA AddOne ==
    ASSUME NEW S, IsFiniteSet(S), NEW t, t \notin S
    PROVE  Cardinality(S \cup {t}) = Cardinality(S) + 1
BY FS_AddElement

LEMMA RemoveOne ==
    ASSUME NEW S, IsFiniteSet(S), NEW t \in S
    PROVE  Cardinality(S \ {t}) = Cardinality(S) - 1
BY FS_RemoveElement

(* A slot that is taken is no longer in flight.                            *)
LEMMA FewerInFlight ==
    ASSUME Typed, Cardinality(InFlight) <= Parallel, DOMAIN at'.slots = DOMAIN at.slots,
           NEW t \in InFlight, t \notin InFlight',
           \A s \in DOMAIN at.slots : s # t => at'.slots[s] = at.slots[s]
    PROVE  Cardinality(InFlight)' <= Parallel
<1>1. t \in DOMAIN at.slots
  BY DEF InFlight
<1>2. InFlight' \ {t} = InFlight \ {t}
  BY <1>1, OtherSets
<1>3. InFlight' = InFlight \ {t}
  BY <1>2
<1>4. IsFiniteSet(InFlight) /\ Cardinality(InFlight) \in Nat
  BY SlotFinite
<1>5. Cardinality(InFlight') = Cardinality(InFlight) - 1
  BY <1>3, <1>4, RemoveOne
<1> QED BY <1>4, <1>5, ConstantsFact

LEMMA EarnedStays ==
    ASSUME NEW s \in DOMAIN at.slots, Earned(s), at'.group = at.group, store' = store,
           at'.slots[s].chunk = at.slots[s].chunk
    PROVE  Earned(s)'
<1>1. Group' = Group
  BY DEF Group
<1> QED BY <1>1 DEF Earned, Holds, ChunkAnswer

LEMMA SlotFact ==
    ASSUME Typed, Slotted, NEW t \in DOMAIN at.slots
    PROVE  /\ at.slots[t] \in SlotType /\ SlotOf(t, at.slots[t]) /\ Vainly(t, at.slots[t]) /\ Earned(t)
           /\ t \in DOMAIN List
BY AtFact DEF Slotted, SlotKnows

LEMMA StartSlotKeeps == IndInv /\ StartSlot => IndInv'
<1> SUFFICES ASSUME IndInv, StartSlot PROVE IndInv'
  OBVIOUS
<1>0. /\ Typed /\ Slotted /\ Fetching /\ Accounted /\ Finished /\ Asking
  BY DEF IndInv
<1>1. PICK t \in DOMAIN at.slots :
          at.slots[t].state = "waiting" /\ at' = [at EXCEPT !.slots[t].state = "asking"]
  BY DEF StartSlot
<1>2. /\ at.pc = "fetch" /\ RoomForOne
      /\ UNCHANGED <<store, gone, faults, late, way, size, served, paid>>
  BY DEF StartSlot
<1> PICK y \in SlotType : y = at.slots[t]
  BY <1>0, SlotFact
<1> PICK x : x = [y EXCEPT !.state = "asking"]
  OBVIOUS
<1>3. /\ x \in SlotType /\ x.state = "asking" /\ x.chunk = y.chunk /\ x.k = y.k /\ x.from = y.from
      /\ y.state = "waiting"
  BY <1>1 DEF SlotType
<1>4. SlotOf(t, x) /\ Vainly(t, x)
  <2>1. SlotOf(t, y) /\ Vainly(t, y)
    BY <1>0, SlotFact
  <2> QED BY <2>1, <1>3 DEF SlotOf, Vainly
<1> PICK f : f = [at.slots EXCEPT ![t] = x]
  OBVIOUS
<1>5. f \in Slots
  BY <1>0, <1>3, AtFact, SlotsFact
<1>6. at' = [at EXCEPT !.slots = f]
  BY <1>0, <1>1 DEF Typed, AtType
<1>7. /\ at' \in AtType /\ at'.slots = f /\ at'.group = at.group /\ at'.clean = at.clean /\ at'.pc = at.pc
      /\ at'.done = at.done /\ at'.first = at.first /\ at'.had = at.had /\ at'.err = at.err
      /\ at'.fetched = at.fetched
  BY <1>0, <1>5, <1>6 DEF Typed, AtType
<1>8. Typed'
  BY <1>0, <1>2, <1>7 DEF Typed
<1>9. /\ \A s \in DOMAIN at.slots : SlotKnows(s)'
      /\ DOMAIN at'.slots = DOMAIN at.slots /\ at'.slots[t] = x
      /\ \A s \in DOMAIN at.slots : s # t => at'.slots[s] = at.slots[s]
  BY <1>0, <1>3, <1>4, <1>7, OneSlot
<1>10. \A s \in DOMAIN at.slots : Earned(s)'
  BY <1>0, <1>2, <1>3, <1>7, <1>9, EarnedStays DEF Slotted
<1>11. /\ \A s \in DOMAIN at.slots : Kept(s)' <=> Kept(s)
       /\ \A s \in DOMAIN at.slots : Lost(s)' <=> Lost(s)
       /\ Open' = Open /\ \A p : Arrived(p)' = Arrived(p)
  <2>1. ~Kept(t) /\ ~Kept(t)' /\ ~Lost(t) /\ ~Lost(t)' /\ at'.slots[t].state = "asking"
    BY <1>3, <1>9 DEF Kept, Lost
  <2>2. t \in Open /\ \A p : t \notin Arrived(p)
    BY <1>3, <2>1 DEF Open, Arrived
  <2>3. t \in Open' /\ \A p : t \notin Arrived(p)'
    BY <1>9, <2>1, OtherSets
  <2>4. Open' = Open
    <3>1. Open' \ {t} = Open \ {t}
      BY <1>9, OtherSets
    <3> QED BY <3>1, <2>2, <2>3, SameSet
  <2>5. ASSUME NEW p PROVE Arrived(p)' = Arrived(p)
    <3>1. Arrived(p)' \ {t} = Arrived(p) \ {t}
      BY <1>9, OtherSets
    <3> QED BY <3>1, <2>2, <2>3, SameSet
  <2> QED BY <1>9, <2>1, <2>4, <2>5, OtherSets
<1>12. t \notin InFlight /\ InFlight' = InFlight \cup {t}
  <2>1. t \notin InFlight
    BY <1>3 DEF InFlight
  <2>2. t \in InFlight'
    BY <1>3, <1>9, OtherSets
  <2> QED BY <1>9, <2>1, <2>2, OtherSets
<1>13. Cardinality(InFlight)' <= Parallel
  <2>1. IsFiniteSet(InFlight) /\ Cardinality(InFlight) \in Nat
    BY <1>0, SlotFinite
  <2>2. Cardinality(InFlight') = Cardinality(InFlight) + 1
    BY <2>1, <1>12, AddOne
  <2> QED BY <2>1, <2>2, <1>2, ConstantsFact DEF RoomForOne
<1>14. Fetching'
  BY <1>0, <1>2, <1>7, <1>9, <1>11 DEF Fetching
<1>15. Accounted'
  BY <1>0, <1>2, <1>7, <1>9, <1>11 DEF Accounted
<1>16. (Asking /\ Finished /\ GivenUpOnlyIfAbsent)'
  BY <1>2, <1>7 DEF Asking, Finished, GivenUpOnlyIfAbsent
<1> QED BY <1>8, <1>9, <1>10, <1>13, <1>14, <1>15, <1>16 DEF IndInv, Slotted

(* An answer that is not the chunk, or none.                               *)
LEMMA AskNext ==
    ASSUME IndInv, at.pc = "fetch", NEW t \in DOMAIN at.slots, at.slots[t].state = "asking",
           NEW c \in BOOLEAN,
           c => at.clean /\ ChunkAnswer(ProviderOf(t, at.slots[t].k), at.slots[t].chunk) # at.slots[t].chunk,
           at' = [at EXCEPT !.clean = c,
                     !.slots[t] = [at.slots[t] EXCEPT
                        !.k = @ + 1,
                        !.state = IF at.slots[t].k + 1 < Len(Group) THEN "asking" ELSE "failed"]],
           faults' \in [net : Nat, disk : Nat], faults'.disk = faults.disk,
           UNCHANGED <<store, gone, late, way, size, served, paid>>
    PROVE  IndInv'
<1>0. /\ Typed /\ Slotted /\ Fetching /\ Accounted /\ Finished /\ Asking
  BY DEF IndInv
<1> PICK y \in SlotType : y = at.slots[t]
  BY <1>0, SlotFact
<1>1. SlotOf(t, y) /\ Vainly(t, y) /\ y.state = "asking" /\ y.k \in Nat /\ y.k < Len(Group)
  BY <1>0, SlotFact DEF SlotOf, SlotType
<1> PICK n \in Nat : n = y.k + 1
  BY <1>1
<1> PICK st \in {"asking", "failed"} : st = IF n < Len(Group) THEN "asking" ELSE "failed"
  OBVIOUS
<1> PICK x : x = [y EXCEPT !.k = n, !.state = st]
  OBVIOUS
<1>2. x \in SlotType /\ x.state = st /\ x.chunk = y.chunk /\ x.k = n /\ x.from = y.from
  BY DEF SlotType
<1>3. SlotOf(t, x)
  <2>1. n <= Len(Group) /\ (st = "asking" <=> n < Len(Group)) /\ (st = "failed" <=> n = Len(Group))
    BY <1>0, <1>1, TeamFact
  <2> QED BY <1>1, <1>2, <2>1 DEF SlotOf
<1>4. c => Vainly(t, x)
  <2> SUFFICES ASSUME c, NEW j \in 0 .. n - 1
               PROVE  ChunkAnswer(ProviderOf(t, j), y.chunk) # y.chunk
    BY <1>2 DEF Vainly
  <2>1. CASE j = y.k
    BY <2>1
  <2>2. CASE j # y.k
    <3>1. j \in 0 .. y.k - 1
      BY <2>2, <1>1
    <3> QED BY <3>1, <1>1 DEF Vainly
  <2> QED BY <2>1, <2>2
<1> PICK f : f = [at.slots EXCEPT ![t] = x]
  OBVIOUS
<1>5. f \in Slots
  BY <1>0, <1>2, AtFact, SlotsFact
<1>6. at' = [at EXCEPT !.clean = c, !.slots = f]
  BY <1>0 DEF Typed, AtType
<1>7. /\ at' \in AtType /\ at'.slots = f /\ at'.group = at.group /\ at'.clean = c /\ at'.pc = at.pc
      /\ at'.done = at.done /\ at'.first = at.first /\ at'.had = at.had /\ at'.err = at.err
      /\ at'.fetched = at.fetched
  BY <1>0, <1>5, <1>6, ZenonT(60) DEF Typed, AtType
<1>8. Typed'
  BY <1>0, <1>7 DEF Typed
<1>9. /\ \A s \in DOMAIN at.slots : SlotKnows(s)'
      /\ DOMAIN at'.slots = DOMAIN at.slots /\ at'.slots[t] = x
      /\ \A s \in DOMAIN at.slots : s # t => at'.slots[s] = at.slots[s]
  BY <1>0, <1>2, <1>3, <1>4, <1>7, OneSlot
<1>10. \A s \in DOMAIN at.slots : Earned(s)'
  BY <1>0, <1>2, <1>7, <1>9, EarnedStays DEF Slotted
<1>11. /\ \A s \in DOMAIN at.slots : Kept(s)' <=> Kept(s)
       /\ \A s \in DOMAIN at.slots : Lost(s)' <=> Lost(s)
       /\ Open' = Open /\ (\A p : Arrived(p)' = Arrived(p)) /\ InFlight' = InFlight
  <2>1. ~Kept(t) /\ ~Kept(t)' /\ ~Lost(t) /\ ~Lost(t)' /\ at'.slots[t].state \in {"asking", "failed"}
    BY <1>1, <1>2, <1>9 DEF Kept, Lost
  <2>2. t \in Open /\ (\A p : t \notin Arrived(p)) /\ t \in InFlight
    BY <1>1, <2>1 DEF Open, Arrived, InFlight
  <2>3. t \in Open' /\ (\A p : t \notin Arrived(p)') /\ t \in InFlight'
    BY <1>9, <2>1, OtherSets
  <2>4. Open' = Open
    <3>1. Open' \ {t} = Open \ {t}
      BY <1>9, OtherSets
    <3> QED BY <3>1, <2>2, <2>3, SameSet
  <2>5. ASSUME NEW p PROVE Arrived(p)' = Arrived(p)
    <3>1. Arrived(p)' \ {t} = Arrived(p) \ {t}
      BY <1>9, OtherSets
    <3> QED BY <3>1, <2>2, <2>3, SameSet
  <2>6. InFlight' = InFlight
    <3>1. InFlight' \ {t} = InFlight \ {t}
      BY <1>9, OtherSets
    <3> QED BY <3>1, <2>2, <2>3, SameSet
  <2> QED BY <1>9, <2>1, <2>4, <2>5, <2>6, OtherSets
<1>12. Cardinality(InFlight)' <= Parallel
  BY <1>11 DEF IndInv
<1>13. Fetching'
  BY <1>0, <1>7, <1>9, <1>11 DEF Fetching
<1>14. Accounted'
  BY <1>0, <1>7, <1>9, <1>11 DEF Accounted
<1>15. (Asking /\ Finished /\ GivenUpOnlyIfAbsent)'
  BY <1>7 DEF Asking, Finished, GivenUpOnlyIfAbsent
<1> QED BY <1>8, <1>9, <1>10, <1>12, <1>13, <1>14, <1>15 DEF IndInv, Slotted

(* The chunk has come from p.                                              *)
LEMMA KeepAnswer ==
    ASSUME IndInv, at.pc = "fetch", NEW t \in DOMAIN at.slots, at.slots[t].state = "asking",
           NEW p, p = ProviderOf(t, at.slots[t].k), ChunkAnswer(p, at.slots[t].chunk) = at.slots[t].chunk,
           at' = [at EXCEPT !.slots[t] = [at.slots[t] EXCEPT !.state = "arrived", !.from = p]],
           served' = [served EXCEPT ![p] = @ + 1],
           UNCHANGED <<faults, store, gone, late, way, size, paid>>
    PROVE  IndInv'
<1>0. /\ Typed /\ Slotted /\ Fetching /\ Accounted /\ Finished /\ Asking
  BY DEF IndInv
<1> PICK y \in SlotType : y = at.slots[t]
  BY <1>0, SlotFact
<1>1. SlotOf(t, y) /\ Vainly(t, y) /\ y.state = "asking" /\ y.k \in Nat /\ y.k < Len(Group)
  BY <1>0, SlotFact DEF SlotOf, SlotType
<1>a. p \in Providers /\ p # None /\ \E k \in DOMAIN Group : p = Group[k]
  BY <1>0, <1>1, TurnFact, ConstantsFact
<1> PICK x : x = [y EXCEPT !.state = "arrived", !.from = p]
  OBVIOUS
<1>2. x \in SlotType /\ x.state = "arrived" /\ x.chunk = y.chunk /\ x.k = y.k /\ x.from = p
  BY <1>a DEF SlotType
<1>3. SlotOf(t, x)
  BY <1>1, <1>2, <1>a DEF SlotOf
<1>4. Vainly(t, x)
  BY <1>1, <1>2 DEF Vainly
<1> PICK f : f = [at.slots EXCEPT ![t] = x]
  OBVIOUS
<1>5. f \in Slots
  BY <1>0, <1>2, AtFact, SlotsFact
<1>6. at' = [at EXCEPT !.slots = f]
  BY <1>0 DEF Typed, AtType
<1>7. /\ at' \in AtType /\ at'.slots = f /\ at'.group = at.group /\ at'.clean = at.clean /\ at'.pc = at.pc
      /\ at'.done = at.done /\ at'.first = at.first /\ at'.had = at.had /\ at'.err = at.err
      /\ at'.fetched = at.fetched
  BY <1>0, <1>5, <1>6 DEF Typed, AtType
<1>8. Typed'
  <2>1. served \in [Providers -> Nat]
    BY <1>0 DEF Typed
  <2>2. served' \in [Providers -> Nat]
    BY <2>1, <1>a
  <2> QED BY <1>0, <1>7, <2>2 DEF Typed
<1>9. /\ \A s \in DOMAIN at.slots : SlotKnows(s)'
      /\ DOMAIN at'.slots = DOMAIN at.slots /\ at'.slots[t] = x
      /\ \A s \in DOMAIN at.slots : s # t => at'.slots[s] = at.slots[s]
  BY <1>0, <1>2, <1>3, <1>4, <1>7, OneSlot
<1>10. \A s \in DOMAIN at.slots : Earned(s)'
  BY <1>0, <1>2, <1>7, <1>9, EarnedStays DEF Slotted
<1>b. ~Kept(t) /\ ~Kept(t)' /\ ~Lost(t) /\ ~Lost(t)' /\ at'.slots[t].state = "arrived" /\ at'.slots[t].from = p
  BY <1>1, <1>2, <1>9 DEF Kept, Lost
<1>c. t \in Open /\ (\A q : t \notin Arrived(q)) /\ t \in InFlight
  BY <1>1, <1>b DEF Open, Arrived, InFlight
<1>d. t \in Open' /\ (\A q : t \in Arrived(q)' <=> q = p) /\ t \in InFlight'
  BY <1>9, <1>b, OtherSets
<1>11. /\ \A s \in DOMAIN at.slots : Lost(s)' <=> Lost(s)
       /\ Open' = Open /\ InFlight' = InFlight
  <2>4. Open' = Open
    <3>1. Open' \ {t} = Open \ {t}
      BY <1>9, OtherSets
    <3> QED BY <3>1, <1>c, <1>d, SameSet
  <2>6. InFlight' = InFlight
    <3>1. InFlight' \ {t} = InFlight \ {t}
      BY <1>9, OtherSets
    <3> QED BY <3>1, <1>c, <1>d, SameSet
  <2> QED BY <1>9, <1>b, <2>4, <2>6, OtherSets
<1>12. Cardinality(InFlight)' <= Parallel
  BY <1>11 DEF IndInv
<1>13. Fetching'
  BY <1>0, <1>7, <1>9, <1>11 DEF Fetching
<1>14. Accounted'
  <2>1. ASSUME NEW q \in Providers
        PROVE  served'[q] = at'.fetched[q] + Cardinality(Arrived(q)')
    <3>0. /\ served[q] = at.fetched[q] + Cardinality(Arrived(q)) /\ Arrived(q)' \ {t} = Arrived(q) \ {t}
          /\ Cardinality(Arrived(q)) \in Nat /\ IsFiniteSet(Arrived(q)) /\ at.fetched[q] \in Nat
      BY <1>0, <1>9, AtFact, SlotFinite, OtherSets DEF Accounted, Fetching
    <3>1. CASE q = p
      <4>1. Arrived(q)' = Arrived(q) \cup {t} /\ t \notin Arrived(q)
        BY <3>0, <3>1, <1>c, <1>d
      <4>2. Cardinality(Arrived(q)') = Cardinality(Arrived(q)) + 1
        BY <4>1, <3>0, AddOne
      <4>3. served'[q] = served[q] + 1
        BY <3>1, <1>0 DEF Typed
      <4> QED BY <4>2, <4>3, <3>0, <1>7
    <3>2. CASE q # p
      <4>1. Arrived(q)' = Arrived(q)
        BY <3>0, <3>2, <1>c, <1>d, SameSet
      <4>2. served'[q] = served[q]
        BY <3>2, <1>0 DEF Typed
      <4> QED BY <4>1, <4>2, <3>0, <1>7
    <3> QED BY <3>1, <3>2
  <2> QED BY <2>1, <1>0, <1>7, <1>9 DEF Accounted
<1>15. (Asking /\ Finished /\ GivenUpOnlyIfAbsent)'
  BY <1>7 DEF Asking, Finished, GivenUpOnlyIfAbsent
<1> QED BY <1>8, <1>9, <1>10, <1>12, <1>13, <1>14, <1>15 DEF IndInv, Slotted

LEMMA AnswerKeeps == IndInv /\ Answer => IndInv'
<1> SUFFICES ASSUME IndInv, Answer PROVE IndInv'
  OBVIOUS
<1>0. Typed /\ Slotted
  BY DEF IndInv
<1> PICK t \in DOMAIN at.slots :
      LET slot == at.slots[t]
          p == ProviderOf(t, slot.k)
          bytes == ChunkAnswer(p, slot.chunk)
          good == ChunkHashOk(slot.chunk, bytes)
          next == [slot EXCEPT !.k = @ + 1,
                               !.state = IF slot.k + 1 < Len(Group) THEN "asking" ELSE "failed"]
      IN  /\ at.pc = "fetch" /\ slot.state = "asking"
          /\ \/ /\ at' = [at EXCEPT !.slots[t] =
                            IF good THEN [slot EXCEPT !.state = "arrived", !.from = p] ELSE next]
                /\ served' = IF good THEN [served EXCEPT ![p] = @ + 1] ELSE served
                /\ UNCHANGED faults
             \/ /\ Fault
                /\ at' = [at EXCEPT !.slots[t] = next, !.clean = FALSE]
                /\ UNCHANGED served
          /\ UNCHANGED <<store, gone, late, way, size, paid>>
  BY DEF Answer
<1> PICK y \in SlotType : y = at.slots[t]
  BY <1>0, SlotFact
<1> PICK p : p = ProviderOf(t, y.k)
  OBVIOUS
<1> PICK next : next = [y EXCEPT !.k = @ + 1, !.state = IF y.k + 1 < Len(Group) THEN "asking" ELSE "failed"]
  OBVIOUS
<1>1. at.pc = "fetch" /\ at.slots[t].state = "asking" /\ UNCHANGED <<store, gone, late, way, size, paid>>
  OBVIOUS
<1>2. CASE /\ ChunkAnswer(p, y.chunk) = y.chunk /\ UNCHANGED faults
           /\ at' = [at EXCEPT !.slots[t] = [y EXCEPT !.state = "arrived", !.from = p]]
           /\ served' = [served EXCEPT ![p] = @ + 1]
  BY <1>1, <1>2, KeepAnswer
<1>3. CASE /\ ChunkAnswer(p, y.chunk) # y.chunk /\ UNCHANGED <<faults, served>>
           /\ at' = [at EXCEPT !.slots[t] = next]
  <2> PICK c \in BOOLEAN : c = at.clean
    BY <1>0, AtFact
  <2>1. at' = [at EXCEPT !.clean = c, !.slots[t] = next]
    BY <1>3, <1>0 DEF Typed, AtType
  <2>2. faults' \in [net : Nat, disk : Nat] /\ faults'.disk = faults.disk
    BY <1>0, <1>3 DEF Typed
  <2> QED BY <2>1, <2>2, <1>1, <1>3, AskNext, ZenonT(60)
<1>4. CASE /\ Fault /\ UNCHANGED served
           /\ at' = [at EXCEPT !.slots[t] = next, !.clean = FALSE]
  <2>1. at' = [at EXCEPT !.clean = FALSE, !.slots[t] = next]
    BY <1>4, <1>0 DEF Typed, AtType
  <2>2. faults' \in [net : Nat, disk : Nat] /\ faults'.disk = faults.disk
    BY <1>0, <1>4 DEF Typed, Fault
  <2> QED BY <2>1, <2>2, <1>1, <1>4, AskNext
<1> QED BY <1>2, <1>3, <1>4 DEF ChunkHashOk

LEMMA TakeFailureKeeps == IndInv /\ TakeFailure => IndInv'
<1> SUFFICES ASSUME IndInv, TakeFailure PROVE IndInv'
  OBVIOUS
<1>0. /\ Typed /\ Slotted /\ Fetching /\ Accounted /\ Finished /\ Asking
  BY DEF IndInv
<1>1. PICK t \in DOMAIN at.slots :
          at.slots[t].state = "failed" /\ at' = [at EXCEPT !.slots[t].state = "taken", !.err = TRUE]
  BY DEF TakeFailure, AfterFailure
<1>2. /\ at.pc = "fetch" /\ UNCHANGED <<store, gone, faults, late, way, size, served, paid>>
  BY DEF TakeFailure
<1> PICK y \in SlotType : y = at.slots[t]
  BY <1>0, SlotFact
<1> PICK x : x = [y EXCEPT !.state = "taken"]
  OBVIOUS
<1>a. SlotOf(t, y) /\ Vainly(t, y)
  BY <1>0, SlotFact
<1>3. /\ x \in SlotType /\ x.state = "taken" /\ x.chunk = y.chunk /\ x.k = y.k /\ x.from = None
      /\ y.state = "failed" /\ y.from = None
  BY <1>1, <1>a DEF SlotType, SlotOf
<1>4. SlotOf(t, x) /\ Vainly(t, x)
  BY <1>a, <1>3 DEF SlotOf, Vainly
<1> PICK f : f = [at.slots EXCEPT ![t] = x]
  OBVIOUS
<1>5. f \in Slots
  BY <1>0, <1>3, AtFact, SlotsFact
<1>6. at' = [at EXCEPT !.slots = f, !.err = TRUE]
  BY <1>0, <1>1 DEF Typed, AtType
<1>7. /\ at' \in AtType /\ at'.slots = f /\ at'.group = at.group /\ at'.clean = at.clean /\ at'.pc = at.pc
      /\ at'.done = at.done /\ at'.first = at.first /\ at'.had = at.had /\ at'.err = TRUE
      /\ at'.fetched = at.fetched
  BY <1>0, <1>5, <1>6 DEF Typed, AtType
<1>8. Typed'
  BY <1>0, <1>2, <1>7 DEF Typed
<1>9. /\ \A s \in DOMAIN at.slots : SlotKnows(s)'
      /\ DOMAIN at'.slots = DOMAIN at.slots /\ at'.slots[t] = x
      /\ \A s \in DOMAIN at.slots : s # t => at'.slots[s] = at.slots[s]
  BY <1>0, <1>3, <1>4, <1>7, OneSlot
<1>10. \A s \in DOMAIN at.slots : Earned(s)'
  BY <1>0, <1>2, <1>3, <1>7, <1>9, EarnedStays DEF Slotted
<1>b. ~Kept(t) /\ ~Kept(t)' /\ Lost(t)' /\ at'.slots[t].state = "taken"
  BY <1>3, <1>9 DEF Kept, Lost
<1>c. t \in Open /\ (\A q : t \notin Arrived(q)) /\ t \in InFlight
  BY <1>3, <1>b DEF Open, Arrived, InFlight
<1>d. t \in Open' /\ (\A q : t \notin Arrived(q)') /\ t \notin InFlight'
  BY <1>9, <1>b, OtherSets
<1>11. Open' = Open /\ \A p : Arrived(p)' = Arrived(p)
  <2>1. Open' = Open
    <3>1. Open' \ {t} = Open \ {t}
      BY <1>9, OtherSets
    <3> QED BY <3>1, <1>c, <1>d, SameSet
  <2>2. ASSUME NEW p PROVE Arrived(p)' = Arrived(p)
    <3>1. Arrived(p)' \ {t} = Arrived(p) \ {t}
      BY <1>9, OtherSets
    <3> QED BY <3>1, <1>c, <1>d, SameSet
  <2> QED BY <2>1, <2>2
<1>12. Cardinality(InFlight)' <= Parallel
  BY <1>0, <1>9, <1>c, <1>d, FewerInFlight DEF IndInv
<1>13. Fetching'
  BY <1>0, <1>2, <1>7, <1>9, <1>b, <1>11 DEF Fetching
<1>14. Accounted'
  BY <1>0, <1>2, <1>7, <1>9, <1>11 DEF Accounted
<1>15. (Asking /\ Finished /\ GivenUpOnlyIfAbsent)'
  BY <1>2, <1>7 DEF Asking, Finished, GivenUpOnlyIfAbsent
<1> QED BY <1>8, <1>9, <1>10, <1>12, <1>13, <1>14, <1>15 DEF IndInv, Slotted

(* A chunk that has arrived is counted; it is put into the store, or the   *)
(* put fails and ends the attempt.                                         *)
LEMMA TakeChunkKeeps == IndInv /\ TakeChunk => IndInv'
<1> SUFFICES ASSUME IndInv, TakeChunk PROVE IndInv'
  OBVIOUS
<1>0. /\ Typed /\ Slotted /\ Fetching /\ Accounted /\ Finished /\ Asking
  BY DEF IndInv
<1>1. PICK t \in DOMAIN at.slots :
        LET slot == at.slots[t]
            counted == [at EXCEPT !.slots[t].state = "taken", !.fetched[slot.from] = @ + 1]
        IN  /\ at.pc = "fetch" /\ slot.state = "arrived"
            /\ \/ /\ store' = store \cup {ChunkAnswer(slot.from, slot.chunk)}
                  /\ at' = [counted EXCEPT !.done = @ + 1]
                  /\ UNCHANGED faults
               \/ /\ faults' = [faults EXCEPT !.disk = @ + 1]
                  /\ at' = [counted EXCEPT !.pc = "ended", !.err = TRUE, !.clean = FALSE]
                  /\ UNCHANGED store
            /\ UNCHANGED <<gone, late, way, size, served, paid>>
  BY DEF TakeChunk
<1>2. at.pc = "fetch" /\ way = "chunks" /\ UNCHANGED <<gone, late, way, size, served, paid>>
  BY <1>0, <1>1 DEF Fetching
<1> PICK y \in SlotType : y = at.slots[t]
  BY <1>0, SlotFact
<1> PICK x : x = [y EXCEPT !.state = "taken"]
  OBVIOUS
<1>a. SlotOf(t, y) /\ Vainly(t, y) /\ t \in DOMAIN List
  BY <1>0, SlotFact
<1>3. /\ x \in SlotType /\ x.state = "taken" /\ x.chunk = y.chunk /\ x.k = y.k /\ x.from = y.from
      /\ y.state = "arrived" /\ y.from # None /\ y.from \in Providers /\ y.chunk \in Chunks
      /\ y.chunk = List[t]
  BY <1>1, <1>a DEF SlotType, SlotOf
<1> PICK p \in Providers : p = y.from
  BY <1>3
<1>4. SlotOf(t, x) /\ Vainly(t, x) /\ ChunkAnswer(p, y.chunk) = y.chunk /\ \E k \in DOMAIN Group : p = Group[k]
  BY <1>a, <1>3 DEF SlotOf, Vainly
<1> PICK f : f = [at.slots EXCEPT ![t] = x]
  OBVIOUS
<1> PICK g : g = [at.fetched EXCEPT ![p] = @ + 1]
  OBVIOUS
<1>5. f \in Slots /\ g \in [Providers -> Nat]
  <2>1. f \in Slots
    BY <1>0, <1>3, AtFact, SlotsFact
  <2>2. at.fetched \in [Providers -> Nat]
    BY <1>0, AtFact
  <2> QED BY <2>1, <2>2
<1> PICK counted : counted = [at EXCEPT !.slots[t].state = "taken", !.fetched[p] = @ + 1]
  OBVIOUS
<1>6. counted = [at EXCEPT !.slots = f, !.fetched = g]
  BY <1>0 DEF Typed, AtType
<1>b. t \in Open /\ (\A q : t \in Arrived(q) <=> q = p) /\ t \in InFlight
  BY <1>3 DEF Open, Kept, Arrived, InFlight
<1>c. /\ IsFiniteSet(Open) /\ Cardinality(Open) \in Nat
      /\ at.done + Cardinality(Open) = Len(List) /\ at.done \in Nat
      /\ Cardinality(Open \ {t}) = Cardinality(Open) - 1 /\ Cardinality(Open \ {t}) \in Nat
  <2>1. IsFiniteSet(Open) /\ Cardinality(Open) \in Nat
    BY <1>0, SlotFinite
  <2>2. Cardinality(Open \ {t}) = Cardinality(Open) - 1
    BY <2>1, <1>b, RemoveOne
  <2>3. Cardinality(Open \ {t}) \in Nat
    <3>1. Open \ {t} \subseteq DOMAIN at.slots
      BY DEF Open
    <3> QED BY <3>1, <1>0, SlotFinite
  <2> QED BY <2>1, <2>2, <2>3, <1>0, <1>2, AtFact DEF Fetching
<1>d. at.done + 1 \in 0 .. Len(List)
  <2> PICK n \in Nat : n = Len(List)
    BY ConstantsFact
  <2> PICK d \in Nat : d = at.done
    BY <1>c
  <2> PICK c \in Nat : c = Cardinality(Open)
    BY <1>c
  <2>1. d + c = n /\ c - 1 \in Nat
    BY <1>c
  <2>2. d + 1 \in 0 .. n
    BY ONLY <2>1, d \in Nat, c \in Nat, n \in Nat
  <2> QED BY <2>2
<1>7. ASSUME at' \in AtType, at'.slots = f, at'.fetched = g, at'.group = at.group, at'.clean => at.clean
      PROVE  /\ \A s \in DOMAIN at.slots : SlotKnows(s)'
             /\ DOMAIN at'.slots = DOMAIN at.slots /\ at'.slots[t] = x
             /\ \A s \in DOMAIN at.slots : s # t => at'.slots[s] = at.slots[s]
             /\ Kept(t)' /\ ~Lost(t)'
             /\ Cardinality(InFlight)' <= Parallel /\ Accounted' /\ Open' = Open \ {t}
  <2>1. /\ \A s \in DOMAIN at.slots : SlotKnows(s)'
        /\ DOMAIN at'.slots = DOMAIN at.slots /\ at'.slots[t] = x
        /\ \A s \in DOMAIN at.slots : s # t => at'.slots[s] = at.slots[s]
    BY <1>0, <1>3, <1>4, <1>7, OneSlot
  <2>2. Kept(t)' /\ ~Lost(t)' /\ at'.slots[t].state = "taken"
    BY <1>3, <2>1 DEF Kept, Lost
  <2>3. t \notin Open' /\ (\A q : t \notin Arrived(q)') /\ t \notin InFlight'
    BY <2>1, <2>2, OtherSets
  <2>4. Open' = Open \ {t}
    <3>1. Open' \ {t} = Open \ {t}
      BY <2>1, OtherSets
    <3> QED BY <3>1, <2>3
  <2>5. Cardinality(InFlight)' <= Parallel
    BY <1>0, <2>1, <1>b, <2>3, FewerInFlight DEF IndInv
  <2>6. ASSUME NEW q \in Providers
        PROVE  served'[q] = at'.fetched[q] + Cardinality(Arrived(q)')
    <3>0. /\ served[q] = at.fetched[q] + Cardinality(Arrived(q)) /\ Arrived(q)' \ {t} = Arrived(q) \ {t}
          /\ Cardinality(Arrived(q)) \in Nat /\ IsFiniteSet(Arrived(q)) /\ at.fetched[q] \in Nat
          /\ at.fetched \in [Providers -> Nat]
      BY <1>0, <1>2, <2>1, AtFact, SlotFinite, OtherSets DEF Accounted
    <3>1. CASE q = p
      <4>1. Arrived(q)' = Arrived(q) \ {t} /\ t \in Arrived(q)
        BY <3>0, <3>1, <1>b, <2>3
      <4>2. Cardinality(Arrived(q)') = Cardinality(Arrived(q)) - 1
        BY <4>1, <3>0, RemoveOne
      <4>3. at'.fetched[q] = at.fetched[q] + 1
        BY <3>0, <3>1, <1>7
      <4> QED BY <4>2, <4>3, <3>0, <1>2
    <3>2. CASE q # p
      <4>1. Arrived(q)' = Arrived(q)
        BY <3>0, <3>2, <1>b, <2>3, SameSet
      <4>2. at'.fetched[q] = at.fetched[q]
        BY <3>0, <3>2, <1>7
      <4> QED BY <4>1, <4>2, <3>0, <1>2
    <3> QED BY <3>1, <3>2
  <2>7. Accounted'
    BY <2>6, <1>2 DEF Accounted
  <2> QED BY <2>1, <2>2, <2>4, <2>5, <2>7
<1>8. CASE /\ store' = store \cup {ChunkAnswer(p, y.chunk)}
           /\ at' = [counted EXCEPT !.done = @ + 1]
           /\ UNCHANGED faults
  <2> PICK n \in 0 .. Len(List) : n = at.done + 1
    BY <1>d
  <2>0. at' = [at EXCEPT !.slots = f, !.fetched = g, !.done = n]
    BY <1>0, <1>6, <1>8 DEF Typed, AtType
  <2>1. /\ at' \in AtType /\ at'.slots = f /\ at'.fetched = g /\ at'.group = at.group
        /\ at'.clean = at.clean /\ at'.pc = "fetch" /\ at'.err = at.err /\ at'.done = n
        /\ at'.first = at.first /\ at'.had = at.had
    BY <1>0, <1>2, <1>5, <2>0, ZenonT(60) DEF Typed, AtType
  <2>2. /\ \A s \in DOMAIN at.slots : SlotKnows(s)'
        /\ DOMAIN at'.slots = DOMAIN at.slots /\ at'.slots[t] = x
        /\ \A s \in DOMAIN at.slots : s # t => at'.slots[s] = at.slots[s]
        /\ Kept(t)' /\ ~Lost(t)'
        /\ Cardinality(InFlight)' <= Parallel /\ Accounted' /\ Open' = Open \ {t}
    BY <2>1, <1>7
  <2>3. store' = store \cup {y.chunk}
    BY <1>8, <1>4
  <2>4. Typed'
    BY <1>0, <1>2, <1>3, <1>8, <2>1, <2>3 DEF Typed
  <2>5. ASSUME NEW s \in DOMAIN at.slots PROVE Earned(s)'
    <3>1. at'.slots[s].chunk = at.slots[s].chunk /\ Group' = Group
      BY <1>3, <2>1, <2>2 DEF Group
    <3>2. CASE at.slots[s].chunk \in store
      BY <3>1, <3>2, <1>0, SlotFact DEF Earned, Holds, ChunkAnswer
    <3>3. CASE at.slots[s].chunk = y.chunk
      <4>1. PICK k \in DOMAIN Group : ChunkAnswer(Group[k], y.chunk) = y.chunk
        BY <1>4
      <4>2. Holds(k, y.chunk)'
        BY <4>1, <3>1 DEF Holds, ChunkAnswer
      <4>3. (at.slots[s].chunk)' = y.chunk
        BY <3>1, <3>3
      <4> QED BY <4>1, <4>2, <4>3, <3>1 DEF Earned
    <3>4. CASE at.slots[s].chunk \notin store /\ at.slots[s].chunk # y.chunk
      BY <3>1, <3>4, <2>3 DEF Earned
    <3> QED BY <3>2, <3>3, <3>4
  <2>6. Fetching'
    <3>1. \A i \in DOMAIN List : List[i] \in store' \/ i \in Open'
      <4> SUFFICES ASSUME NEW i \in DOMAIN List PROVE List[i] \in store' \/ i \in Open'
        OBVIOUS
      <4>1. CASE i = t
        BY <4>1, <1>3, <2>3
      <4>2. CASE i # t
        BY <4>2, <1>0, <1>2, <2>2, <2>3 DEF Fetching
      <4> QED BY <4>1, <4>2
    <3>2. at'.done + Cardinality(Open') = Len(List)
      <4>1. at'.done = at.done + 1 /\ Cardinality(Open') = Cardinality(Open) - 1
        BY <2>1, <2>2, <1>c
      <4>2. Cardinality(Open) \in Nat /\ at.done \in Nat /\ at.done + Cardinality(Open) = Len(List)
        BY <1>c
      <4> PICK d \in Nat : d = at.done
        BY <4>2
      <4> PICK c \in Nat : c = Cardinality(Open)
        BY <4>2
      <4>3. at'.done = d + 1 /\ Cardinality(Open') = c - 1 /\ d + c = Len(List)
        BY <4>1, <4>2
      <4>4. (d + 1) + (c - 1) = d + c
        BY ONLY d \in Nat, c \in Nat
      <4> QED BY <4>3, <4>4
    <3>3. \A s \in DOMAIN at.slots : Lost(s)' <=> Lost(s)
      <4>1. ~Lost(t)
        BY <1>3 DEF Lost
      <4> QED BY <4>1, <2>2, OtherSets
    <3> QED BY <1>0, <1>2, <2>1, <2>2, <3>1, <3>2, <3>3 DEF Fetching
  <2>7. (Asking /\ Finished /\ GivenUpOnlyIfAbsent)'
    BY <2>1 DEF Asking, Finished, GivenUpOnlyIfAbsent
  <2> QED BY <2>2, <2>4, <2>5, <2>6, <2>7 DEF IndInv, Slotted
<1>9. CASE /\ faults' = [faults EXCEPT !.disk = @ + 1]
           /\ at' = [counted EXCEPT !.pc = "ended", !.err = TRUE, !.clean = FALSE]
           /\ UNCHANGED store
  <2>0. at' = [at EXCEPT !.slots = f, !.fetched = g, !.pc = "ended", !.err = TRUE, !.clean = FALSE]
    BY <1>6, <1>9
  <2>a. at \in AtType
    BY <1>0 DEF Typed
  <2>b. at' \in AtType
    <3>1. counted \in AtType
      BY <2>a, <1>5, <1>6, ZenonT(60) DEF AtType
    <3> QED BY <3>1, <1>9, ZenonT(60) DEF AtType, Stages
  <2>1. /\ at' \in AtType /\ at'.slots = f /\ at'.fetched = g /\ at'.group = at.group
        /\ at'.clean = FALSE /\ at'.pc = "ended" /\ at'.err = TRUE
    BY <2>a, <2>b, <2>0, ZenonT(60) DEF AtType
  <2>2. /\ \A s \in DOMAIN at.slots : SlotKnows(s)'
        /\ DOMAIN at'.slots = DOMAIN at.slots /\ at'.slots[t] = x
        /\ \A s \in DOMAIN at.slots : s # t => at'.slots[s] = at.slots[s]
        /\ Cardinality(InFlight)' <= Parallel /\ Accounted'
    BY <2>1, <1>7
  <2>3. faults' \in [net : Nat, disk : Nat] /\ faults'.disk # 0
    BY <1>0, <1>9 DEF Typed
  <2>4. Typed'
    BY <1>0, <1>2, <1>9, <2>1, <2>3 DEF Typed
  <2>5. \A s \in DOMAIN at.slots : Earned(s)'
    BY <1>0, <1>3, <1>9, <2>1, <2>2, EarnedStays DEF Slotted
  <2>6. (Asking /\ Fetching /\ Finished /\ GivenUpOnlyIfAbsent)'
    BY <2>1, <2>3 DEF Asking, Fetching, Finished, GivenUpOnlyIfAbsent
  <2> QED BY <2>2, <2>4, <2>5, <2>6 DEF IndInv, Slotted
<1> QED BY <1>1, <1>8, <1>9

(* Everything is taken: the providers are paid, and the attempt is over.   *)
LEMMA DrainedKeeps == IndInv /\ Drained => IndInv'
<1> SUFFICES ASSUME IndInv, Drained PROVE IndInv'
  OBVIOUS
<1>0. /\ Typed /\ Slotted /\ Fetching /\ Accounted /\ Finished /\ Asking
  BY DEF IndInv
<1>1. /\ at.pc = "fetch" /\ way = "chunks" /\ Taken = DOMAIN at.slots /\ paid' = at.fetched
      /\ at' = [at EXCEPT !.pc = "ended"]
      /\ UNCHANGED <<store, gone, faults, late, way, size, served>>
  BY <1>0 DEF Drained, Fetching
<1>2. /\ at' \in AtType /\ at'.pc = "ended" /\ at'.slots = at.slots /\ at'.group = at.group
      /\ at'.clean = at.clean /\ at'.err = at.err /\ at'.fetched = at.fetched /\ at'.done = at.done
      /\ at'.first = at.first /\ at'.had = at.had
  BY <1>0, <1>1 DEF Typed, AtType, Stages
<1>3. Typed'
  BY <1>0, <1>1, <1>2, AtFact DEF Typed
<1>4. Slotted'
  BY <1>0, <1>1, <1>2, SameSlots
<1>5. InFlight' = InFlight /\ \A p : Arrived(p)' = Arrived(p)
  BY <1>2 DEF InFlight, Arrived
<1>6. Cardinality(InFlight)' <= Parallel
  BY <1>5 DEF IndInv
<1>7. Accounted'
  BY <1>0, <1>1, <1>2, <1>5 DEF Accounted
<1>8. \A s \in DOMAIN at.slots : at.slots[s].state = "taken"
  BY <1>1 DEF Taken
<1>9. paid' = served
  <2>1. ASSUME NEW p \in Providers PROVE served[p] = at.fetched[p]
    <3>1. Arrived(p) = {}
      BY <1>8 DEF Arrived
    <3>2. Cardinality(Arrived(p)) = 0
      BY <3>1, FS_EmptySet
    <3>3. at.fetched[p] \in Nat /\ served[p] = at.fetched[p] + Cardinality(Arrived(p))
      BY <1>0, <1>1, AtFact DEF Accounted
    <3> QED BY <3>2, <3>3
  <2>2. served \in [Providers -> Nat] /\ at.fetched \in [Providers -> Nat]
    BY <1>0, AtFact DEF Typed
  <2> QED BY <2>1, <2>2, <1>1
<1>10. Finished'
  <2>1. ASSUME ~at.err PROVE store = Chunks /\ at.done = Len(List) /\ at.first = at.had
    <3>1. \A s \in DOMAIN at.slots : Kept(s)
      BY <1>0, <1>1, <1>8, <2>1 DEF Fetching, Kept, Lost
    <3>2. Open = {}
      BY <3>1 DEF Open
    <3>3. \A c \in Chunks : c \in store
      BY <1>0, <1>1, <3>2, ConstantsFact DEF Fetching
    <3>4. Cardinality(Open) = 0
      BY <3>2, FS_EmptySet
    <3>5. at.done \in Nat
      BY <1>0, AtFact, ConstantsFact
    <3> QED BY <1>0, <1>1, <3>3, <3>4, <3>5 DEF Fetching, Typed
  <2> QED BY <2>1, <1>1, <1>2, <1>9 DEF Finished
<1>11. GivenUpOnlyIfAbsent'
  <2> SUFFICES ASSUME at.err, at.clean
               PROVE  (\E c \in Chunks \ store : \A k \in DOMAIN Group : ChunkAnswer(Group[k], c) # c)'
    BY <1>2 DEF GivenUpOnlyIfAbsent
  <2>1. PICK s \in DOMAIN at.slots : Lost(s)
    BY <1>0, <1>1 DEF Fetching
  <2> PICK y \in SlotType : y = at.slots[s]
    BY <1>0, SlotFact
  <2>2. SlotOf(s, y) /\ Vainly(s, y) /\ Earned(s) /\ y.chunk \in Chunks
    BY <1>0, SlotFact DEF SlotType
  <2>3. y.k = Len(Group)
    BY <2>1, <2>2 DEF Lost, SlotOf
  <2>4. ASSUME NEW k \in DOMAIN Group PROVE ChunkAnswer(Group[k], y.chunk) # y.chunk
    <3>1. PICK j \in 0 .. Len(Group) - 1 : ProviderOf(s, j) = Group[k]
      BY <1>0, EveryoneAsked
    <3> QED BY <3>1, <2>2, <2>3 DEF Vainly
  <2>5. y.chunk \notin store
    BY <2>2, <2>4 DEF Earned, Holds
  <2>6. Group' = Group /\ \A p, c : ChunkAnswer(p, c)' = ChunkAnswer(p, c)
    BY <1>2 DEF Group, ChunkAnswer
  <2>7. \A k \in DOMAIN Group' : ChunkAnswer(Group[k], y.chunk)' # y.chunk
    BY <2>4, <2>6
  <2>8. y.chunk \in Chunks \ store'
    BY <2>2, <2>5, <1>1
  <2> QED BY <2>7, <2>8
<1>12. (Asking /\ Fetching)'
  BY <1>2 DEF Asking, Fetching
<1> QED BY <1>3, <1>4, <1>6, <1>7, <1>10, <1>11, <1>12 DEF IndInv

(* Steps of an attempt that has no slots, and of one that is over.         *)
LEMMA SymbolStep ==
    ASSUME IndInv, at.pc \in {"symbols", "ingest"}, Typed', at'.slots = at.slots,
           at'.pc \in {"symbols", "ingest", "ended"}, UNCHANGED <<way, served>>,
           at'.pc \in {"symbols", "ingest"} => ~at'.err,
           at'.pc = "ended" /\ ~at'.err => store' = Chunks
    PROVE  IndInv'
<1>1. way = "symbols" /\ DOMAIN at.slots = {}
  BY DEF IndInv, Finished, Accounted
<1>2. (Slotted /\ Cardinality(InFlight) <= Parallel)'
  BY <1>1, EmptyNext
<1>3. (Asking /\ Fetching /\ Accounted /\ Finished /\ GivenUpOnlyIfAbsent)'
  BY <1>1 DEF Asking, Fetching, Accounted, Finished, GivenUpOnlyIfAbsent
<1> QED BY <1>2, <1>3 DEF IndInv

LEMMA BlocksFact ==
    ASSUME Typed
    PROVE  /\ SourceSymbols(size) \in Nat /\ SourceBlocks(size) \in Nat /\ AllSymbols \in Nat
           /\ size = 0 => SourceSymbols(size) = 0
           /\ size > 0 => /\ SourceSymbols(size) = (size + 1199) \div 1200
                         /\ SourceSymbols(size) > 0 /\ SourceBlocks(size) > 0
                         /\ 1000 * (SourceBlocks(size) - 1) < SourceSymbols(size)
<1> PICK sz \in Nat : sz = size
  BY ConstantsFact DEF Typed
<1> PICK k \in Nat : k = BlockSymbols /\ k >= 1000
  BY DownloadAssumption
<1>1. PICK n \in Nat : n = (sz + 1200 - 1) \div 1200
  OBVIOUS
<1>2. sz + 1200 - 1 = sz + 1199 /\ (sz = 0 => n = 0) /\ (sz > 0 => n > 0)
  BY <1>1
<1>3. n = SourceSymbols(size)
  BY <1>1 DEF SourceSymbols, SymbolSize
<1> PICK x \in Nat : x = n + k - 1
  OBVIOUS
<1>4. PICK z \in Nat : z = x \div k
  OBVIOUS
<1>5. z = SourceBlocks(size)
  BY <1>3, <1>4 DEF SourceBlocks
<1>6. k * z <= x /\ x < k * (z + 1)
  BY ONLY <1>4, k \in Nat, k >= 1000, x \in Nat, z \in Nat
<1>7. k * (z + 1) = k * z + k /\ k * z \in Nat
  BY ONLY k \in Nat, z \in Nat
<1>8. n > 0 => z > 0
  <2> SUFFICES ASSUME n > 0, z = 0 PROVE FALSE
    OBVIOUS
  <2>1. k * z = 0
    OBVIOUS
  <2> QED BY <2>1, <1>6, <1>7
<1>9. z > 0 => 1000 * (z - 1) < n
  <2> SUFFICES ASSUME z > 0 PROVE 1000 * (z - 1) < n
    OBVIOUS
  <2> PICK y \in Nat : y = z - 1
    OBVIOUS
  <2>1. k * z = k * y + k
    OBVIOUS
  <2>2. k * y < n
    BY <2>1, <1>6, <1>7
  <2>3. 1000 * y <= k * y
    OBVIOUS
  <2> QED BY <2>2, <2>3
<1>10. AllSymbols \in Nat
  BY <1>3, <1>5 DEF AllSymbols, Repair
<1> QED BY <1>1, <1>2, <1>3, <1>5, <1>8, <1>9, <1>10

LEMMA SymbolsFact ==
    ASSUME Typed, NEW p
    PROVE  LET b == SymbolsFrom(p) IN b.count \in Nat /\ b.good \in Nat /\ b.bytes \in Nat
<1> PICK b : b = SymbolsFrom(p)
  OBVIOUS
<1> PICK sz \in Nat : sz = size
  BY ConstantsFact DEF Typed
<1> PICK st \in Nat : st = at.start
  BY DEF Typed, AtType
<1>1. PICK m \in Nat : m = AllSymbols
  BY BlocksFact
<1>2. PICK n \in Nat : n = IF st >= m THEN 0 ELSE IF st + 128 < m THEN 128 ELSE m - st
  OBVIOUS
<1>3. \/ b = [count |-> n, good |-> n, bytes |-> n * 1204]
      \/ b = [count |-> 128, good |-> 0, bytes |-> 128 * 1204]
      \/ b = [count |-> 128, good |-> 0, bytes |-> 0]
      \/ b = [count |-> 0, good |-> 0, bytes |-> 0]
  BY <1>1, <1>2 DEF SymbolsFrom, FecBatch, PacketSize, SymbolSize
<1>4. n * 1204 \in Nat /\ 128 * 1204 \in Nat
  OBVIOUS
<1>5. b.count \in Nat /\ b.good \in Nat /\ b.bytes \in Nat
  BY <1>3, <1>4
<1> QED BY <1>5

LEMMA FetchBatchKeeps == IndInv /\ FetchBatch => IndInv'
<1> SUFFICES ASSUME IndInv, FetchBatch PROVE IndInv'
  OBVIOUS
<1>0. Typed /\ Finished /\ at.pc = "symbols" /\ ~at.err /\ at \in AtType
  BY DEF IndInv, Finished, FetchBatch, Typed
<1>1. UNCHANGED <<store, gone, late, way, size, served, paid>>
  BY DEF FetchBatch
<1> PICK b : b = SymbolsFrom(Asked(1))
  OBVIOUS
<1>2. b.count \in Nat /\ b.good \in Nat /\ b.bytes \in Nat
  BY <1>0, SymbolsFact
<1> DEFINE start == at.start + b.count
           bytes == at.bytes + b.bytes
           good == at.good + b.good
           enough == start - at.lastlen >= (IF Need \div 4 = 0 THEN 1 ELSE Need \div 4)
           decode == (start >= Need \/ b.count = 0) /\ (enough \/ b.count = 0)
           tries == IF decode THEN at.tries + 1 ELSE at.tries
           lastlen == IF decode THEN start ELSE at.lastlen
           now == [at EXCEPT !.start = start, !.bytes = bytes, !.good = good, !.tries = tries,
                             !.batches = @ + 1, !.lastlen = IF decode THEN start ELSE @]
           fail == [now EXCEPT !.pc = "ended", !.err = TRUE]
           done == [now EXCEPT !.pc = "ingest"]
           broken == [at EXCEPT !.pc = "ended", !.err = TRUE, !.clean = FALSE]
<1>3. \/ UNCHANGED faults /\ at' \in {fail, done, now}
      \/ Fault /\ at' = broken
  BY DEF FetchBatch
<1>4. now \in AtType /\ now.pc = "symbols" /\ now.slots = at.slots /\ ~now.err
  <2>0. at.start \in Nat /\ at.bytes \in Nat /\ at.good \in Nat /\ at.tries \in Nat /\ at.batches \in Nat
        /\ at.lastlen \in Nat
    BY <1>0 DEF AtType
  <2>1. start \in Nat /\ bytes \in Nat /\ good \in Nat /\ tries \in Nat /\ lastlen \in Nat
        /\ at.batches + 1 \in Nat
    BY <1>2, <2>0
  <2> PICK v1 \in Nat : v1 = start
    BY <2>1
  <2> PICK v2 \in Nat : v2 = bytes
    BY <2>1
  <2> PICK v3 \in Nat : v3 = good
    BY <2>1
  <2> PICK v4 \in Nat : v4 = tries
    BY <2>1
  <2> PICK v5 \in Nat : v5 = at.batches + 1
    BY <2>1
  <2> PICK v6 \in Nat : v6 = lastlen
    BY <2>1
  <2>2. now = [at EXCEPT !.start = v1, !.bytes = v2, !.good = v3, !.tries = v4, !.batches = v5, !.lastlen = v6]
    BY <1>0 DEF AtType
  <2> HIDE DEF now
  <2>3. PICK h \in AtType : h = [at EXCEPT !.start = v1, !.bytes = v2, !.good = v3]
    BY <1>0, ZenonT(60) DEF AtType
  <2>4. h.pc = at.pc /\ h.slots = at.slots /\ h.err = at.err
    BY <1>0, <2>3 DEF AtType
  <2>5. now = [h EXCEPT !.tries = v4, !.batches = v5, !.lastlen = v6]
    BY <2>2, <2>3, <1>0 DEF AtType
  <2>6. now \in AtType /\ now.pc = h.pc /\ now.slots = h.slots /\ now.err = h.err
    BY <2>5, ZenonT(60) DEF AtType
  <2> QED BY <2>4, <2>6, <1>0
<1> HIDE DEF now
<1>5. /\ fail \in AtType /\ fail.pc = "ended" /\ fail.slots = at.slots /\ fail.err = TRUE
      /\ done \in AtType /\ done.pc = "ingest" /\ done.slots = at.slots /\ ~done.err
  BY <1>4 DEF AtType, Stages
<1>6. broken \in AtType /\ broken.pc = "ended" /\ broken.slots = at.slots /\ broken.err = TRUE
  BY <1>0 DEF AtType, Stages
<1>7. faults' \in [net : Nat, disk : Nat]
  BY <1>0, <1>3 DEF Fault, Typed
<1>8. /\ at' \in AtType /\ at'.slots = at.slots /\ at'.pc \in {"symbols", "ingest", "ended"}
      /\ at'.pc \in {"symbols", "ingest"} => ~at'.err
      /\ at'.pc = "ended" => at'.err
  BY <1>3, <1>4, <1>5, <1>6
<1>9. Typed'
  BY <1>0, <1>1, <1>7, <1>8 DEF Typed
<1> QED BY <1>0, <1>1, <1>8, <1>9, SymbolStep

LEMMA IngestDecodedKeeps == IndInv /\ IngestDecoded => IndInv'
<1> SUFFICES ASSUME IndInv, IngestDecoded PROVE IndInv'
  OBVIOUS
<1>0. Typed /\ Finished /\ at.pc = "ingest" /\ ~at.err /\ at \in AtType
  BY DEF IndInv, Finished, IngestDecoded, Typed
<1>1. UNCHANGED <<gone, late, way, size, served>>
  BY DEF IngestDecoded
<1>2. CASE /\ store' = store \cup Chunks
           /\ paid' = [paid EXCEPT ![Asked(1)] = at.bytes]
           /\ at' = [at EXCEPT !.pc = "ended"]
           /\ UNCHANGED faults
  <2>1. /\ at' \in AtType /\ at'.slots = at.slots /\ at'.pc = "ended" /\ ~at'.err
    BY <1>0, <1>2 DEF AtType, Stages
  <2>2. paid' \in [Providers -> Nat]
    <3>1. Asked(1) \in Providers /\ at.bytes \in Nat
      BY <1>0, TeamFact DEF Asked, AtType
    <3> QED BY <3>1, <1>0, <1>2 DEF Typed
  <2>3. store' = Chunks
    BY <1>0, <1>2 DEF Typed
  <2>4. Typed'
    BY <1>0, <1>1, <1>2, <2>1, <2>2, <2>3 DEF Typed
  <2> QED BY <1>0, <1>1, <2>1, <2>3, <2>4, SymbolStep
<1>3. CASE /\ faults' = [faults EXCEPT !.disk = @ + 1]
           /\ \E n \in 0 .. Len(List) - 1 : store' = store \cup ToSet(SubSeq(List, 1, n))
           /\ at' = [at EXCEPT !.pc = "ended", !.err = TRUE, !.clean = FALSE]
           /\ UNCHANGED paid
  <2>1. /\ at' \in AtType /\ at'.slots = at.slots /\ at'.pc = "ended" /\ at'.err = TRUE
    BY <1>0, <1>3 DEF AtType, Stages
  <2>2. faults' \in [net : Nat, disk : Nat]
    BY <1>0, <1>3 DEF Typed
  <2>3. store' \subseteq Chunks
    <3>1. PICK n \in 0 .. Len(List) - 1 : store' = store \cup ToSet(SubSeq(List, 1, n))
      BY <1>3
    <3>2. SubSeq(List, 1, n) \in Seq(Chunks)
      BY <3>1, ConstantsFact
    <3>3. ToSet(SubSeq(List, 1, n)) \subseteq Chunks
      BY <3>2 DEF ToSet
    <3> QED BY <3>1, <3>3, <1>0 DEF Typed
  <2>4. Typed'
    BY <1>0, <1>1, <1>3, <2>1, <2>2, <2>3 DEF Typed
  <2> QED BY <1>0, <1>1, <2>1, <2>4, SymbolStep
<1> QED BY <1>2, <1>3 DEF IngestDecoded

(* The attempt is over, or only the clock and the providers move.          *)
LEMMA LaterStep ==
    ASSUME IndInv, at' \in AtType, at'.slots = at.slots, at'.group = at.group,
           at'.fetched = at.fetched, at'.done = at.done, at'.first = at.first, at'.had = at.had,
           at'.clean => at.clean, at'.err = at.err, UNCHANGED <<store, faults, way, size, served, paid>>
    PROVE  /\ (Slotted /\ Accounted)' /\ Cardinality(InFlight)' <= Parallel
           /\ gone' \subseteq Providers /\ late' \in BOOLEAN => Typed'
           /\ Open' = Open /\ \A s \in DOMAIN at.slots : Lost(s)' <=> Lost(s)
<1>0. Typed /\ Slotted /\ Accounted
  BY DEF IndInv
<1>1. Slotted'
  BY <1>0, SameSlots
<1>2. InFlight' = InFlight /\ (\A p : Arrived(p)' = Arrived(p)) /\ Open' = Open
  BY DEF InFlight, Arrived, Open, Kept
<1>3. Cardinality(InFlight)' <= Parallel
  BY <1>2 DEF IndInv
<1>4. Accounted'
  BY <1>0, <1>2 DEF Accounted
<1>5. gone' \subseteq Providers /\ late' \in BOOLEAN => Typed'
  BY <1>0 DEF Typed
<1>6. \A s \in DOMAIN at.slots : Lost(s)' <=> Lost(s)
  BY DEF Lost
<1> QED BY <1>1, <1>2, <1>3, <1>4, <1>5, <1>6

LEMMA FinishKeeps == IndInv /\ Finish => IndInv'
<1> SUFFICES ASSUME IndInv, Finish PROVE IndInv'
  OBVIOUS
<1>0. Typed /\ Finished /\ at.pc = "ended" /\ ~at.err /\ at \in AtType
  BY DEF IndInv, Finish, Typed
<1>1. at' = [at EXCEPT !.pc = "fetched"] /\ UNCHANGED <<store, gone, faults, late, way, size, served, paid>>
  BY DEF Finish
<1>2. /\ at' \in AtType /\ at'.pc = "fetched" /\ at'.slots = at.slots /\ at'.group = at.group
      /\ at'.fetched = at.fetched /\ at'.done = at.done /\ at'.first = at.first /\ at'.had = at.had
      /\ at'.clean = at.clean /\ at'.err = at.err
  BY <1>0, <1>1 DEF AtType, Stages
<1>3. Typed' /\ (Slotted /\ Accounted)' /\ Cardinality(InFlight)' <= Parallel
  BY <1>0, <1>1, <1>2, LaterStep DEF Typed
<1>4. (Asking /\ Fetching /\ Finished /\ GivenUpOnlyIfAbsent)'
  BY <1>0, <1>1, <1>2 DEF Asking, Fetching, Finished, GivenUpOnlyIfAbsent
<1> QED BY <1>3, <1>4 DEF IndInv

LEMMA RetryKeeps == IndInv /\ Retry => IndInv'
<1> SUFFICES ASSUME IndInv, Retry PROVE IndInv'
  OBVIOUS
<1>0. Typed /\ Finished /\ at.pc = "ended" /\ at.err /\ at \in AtType
  BY DEF IndInv, Retry, Typed
<1>1. UNCHANGED <<store, gone, faults, late, way, size>>
  BY DEF Retry
<1>2. CASE at' = [at EXCEPT !.pc = "failed"]
  <2>1. /\ at' \in AtType /\ at'.pc = "failed" /\ at'.slots = at.slots /\ at'.group = at.group
        /\ at'.fetched = at.fetched /\ at'.done = at.done /\ at'.first = at.first /\ at'.had = at.had
        /\ at'.clean = at.clean /\ at'.err = at.err
    BY <1>0, <1>2 DEF AtType, Stages
  <2>2. UNCHANGED <<served, paid>>
    BY <2>1 DEF Retry
  <2>3. Typed' /\ (Slotted /\ Accounted)' /\ Cardinality(InFlight)' <= Parallel
    BY <1>0, <1>1, <2>1, <2>2, LaterStep DEF Typed
  <2>4. (Asking /\ Fetching /\ Finished /\ GivenUpOnlyIfAbsent)'
    BY <2>1 DEF Asking, Fetching, Finished, GivenUpOnlyIfAbsent
  <2> QED BY <2>3, <2>4 DEF IndInv
<1>3. ASSUME NEW g \in DOMAIN Groups, NEW m \in 1 .. Attempts, at' = Fresh(g, m) PROVE IndInv'
  <2>1. /\ at' \in AtType /\ at'.pc = "manifest" /\ at'.err = FALSE /\ DOMAIN at'.slots = {}
        /\ at'.fetched = Nobody /\ at'.first = None /\ at'.start = 0 /\ at'.good = 0
        /\ at'.bytes = 0 /\ at'.lastlen = 0 /\ at'.asked = 1
    BY <1>3, FreshFact, ZenonT(60)
  <2>2. served' = Nobody /\ paid' = Nobody
    BY <2>1 DEF Retry
  <2>3. Nobody \in [Providers -> Nat] /\ Nobody' = Nobody
    BY DEF Nobody
  <2>4. Typed'
    BY <1>0, <1>1, <2>1, <2>2, <2>3 DEF Typed
  <2>5. Begins'
    BY <2>1, <2>2, <2>3 DEF Begins
  <2> QED BY <2>4, <2>5, BeginsNext
<1>4. at.group \in DOMAIN Groups /\ at.number \in 1 .. Attempts
  BY <1>0, AtFact
<1>5. at.number < Attempts => at.number + 1 \in 1 .. Attempts
  BY <1>4, ConstantsFact
<1>6. at.group < Len(Groups) => at.group + 1 \in DOMAIN Groups
  BY <1>4, ConstantsFact
<1>7. 1 \in 1 .. Attempts
  BY ConstantsFact
<1>8. \/ at' = [at EXCEPT !.pc = "failed"]
      \/ at.number < Attempts /\ at' = Fresh(at.group, at.number + 1)
      \/ at.group < Len(Groups) /\ at' = Fresh(at.group + 1, 1)
  BY DEF Retry
<1> QED BY <1>2, <1>3, <1>4, <1>5, <1>6, <1>7, <1>8

LEMMA DeadlinePassesKeeps == IndInv /\ DeadlinePasses => IndInv'
<1> SUFFICES ASSUME IndInv, DeadlinePasses PROVE IndInv'
  OBVIOUS
<1>1. Typed /\ at \in AtType
  BY DEF IndInv, Typed
<1>2. UNCHANGED <<store, gone, faults, way, size, at, served, paid>> /\ late' = TRUE
  BY DEF DeadlinePasses
<1>3. /\ Typed' /\ (Slotted /\ Accounted)' /\ Cardinality(InFlight)' <= Parallel /\ Open' = Open
      /\ \A s \in DOMAIN at.slots : Lost(s)' <=> Lost(s)
  BY <1>1, <1>2, LaterStep DEF Typed
<1>4. Fetching'
  BY <1>2, <1>3 DEF IndInv, Fetching
<1>5. (Asking /\ Finished /\ GivenUpOnlyIfAbsent)'
  BY <1>2 DEF IndInv, Asking, Finished, GivenUpOnlyIfAbsent, Group, ManifestAnswer, ChunkAnswer, Nobody
<1> QED BY <1>3, <1>4, <1>5 DEF IndInv

LEMMA StopProvidingKeeps == IndInv /\ StopProviding => IndInv'
<1> SUFFICES ASSUME IndInv, StopProviding PROVE IndInv'
  OBVIOUS
<1>1. Typed /\ at \in AtType
  BY DEF IndInv, Typed
<1>2. /\ UNCHANGED <<store, faults, late, way, size, served, paid>> /\ at' = [at EXCEPT !.clean = FALSE]
      /\ gone' \subseteq Providers
  BY <1>1 DEF StopProviding, Typed
<1>3. /\ at' \in AtType /\ at'.pc = at.pc /\ at'.slots = at.slots /\ at'.group = at.group
      /\ at'.fetched = at.fetched /\ at'.done = at.done /\ at'.first = at.first /\ at'.had = at.had
      /\ at'.clean = FALSE /\ at'.err = at.err /\ at'.asked = at.asked
      /\ at'.start = at.start /\ at'.good = at.good /\ at'.bytes = at.bytes /\ at'.lastlen = at.lastlen
  BY <1>1, <1>2 DEF AtType
<1>4. /\ Typed' /\ (Slotted /\ Accounted)' /\ Cardinality(InFlight)' <= Parallel /\ Open' = Open
      /\ \A s \in DOMAIN at.slots : Lost(s)' <=> Lost(s)
  BY <1>1, <1>2, <1>3, LaterStep DEF Typed
<1>5. Fetching'
  BY <1>2, <1>3, <1>4 DEF IndInv, Fetching
<1>6. (Asking /\ Finished /\ GivenUpOnlyIfAbsent)'
  BY <1>2, <1>3 DEF IndInv, Asking, Finished, GivenUpOnlyIfAbsent, Group, Nobody
<1> QED BY <1>4, <1>5, <1>6 DEF IndInv

LEMMA NextIndInv == IndInv /\ [Next]_vars => IndInv'
<1> SUFFICES ASSUME IndInv, [Next]_vars PROVE IndInv'
  OBVIOUS
<1>1. CASE UNCHANGED vars
  <2>1. UNCHANGED <<store, gone, faults, late, way, size, at, served, paid>>
    BY <1>1 DEF vars
  <2>2. /\ Typed' /\ (Slotted /\ Accounted)' /\ Cardinality(InFlight)' <= Parallel /\ Open' = Open
        /\ \A s \in DOMAIN at.slots : Lost(s)' <=> Lost(s)
    BY <2>1, LaterStep DEF Typed, IndInv
  <2>3. Fetching'
    BY <2>1, <2>2 DEF IndInv, Fetching
  <2>4. (Asking /\ Finished /\ GivenUpOnlyIfAbsent)'
    BY <2>1 DEF IndInv, Asking, Finished, GivenUpOnlyIfAbsent, Group, ManifestAnswer, ChunkAnswer, Nobody
  <2> QED BY <2>2, <2>3, <2>4 DEF IndInv
<1>2. CASE Next
  BY <1>2, AskManifestKeeps, StartSlotKeeps, AnswerKeeps, TakeChunkKeeps, TakeFailureKeeps, DrainedKeeps,
     FetchBatchKeeps, IngestDecodedKeeps, RetryKeeps, FinishKeeps, DeadlinePassesKeeps,
     StopProvidingKeeps DEF Next, Work
<1> QED BY <1>1, <1>2

LEMMA SpecIndInv == Spec => []IndInv
<1>1. IndInv /\ [Next]_vars => IndInv'
  BY NextIndInv
<1> QED BY <1>1, InitIndInv, PTL DEF Spec

-----------------------------------------------------------------------------
(* Whoever answered what, cmd_fetch reports success only with every chunk  *)
(* of the content in the store, no other bytes, and each place of the list *)
(* counted once in the progress of the attempt that succeeded.             *)
THEOREM SpecCompleteWhenFetched == Spec => []CompleteWhenFetched
<1>1. ASSUME IndInv PROVE CompleteWhenFetched
  <2>1. Typed /\ Finished
    BY <1>1 DEF IndInv
  <2>2. TypeOK
    BY <1>1, <2>1, AtFact DEF IndInv, TypeOK, Typed, Stages
  <2> QED BY <2>1, <2>2 DEF CompleteWhenFetched, Finished
<1> QED BY <1>1, SpecIndInv, PTL

(* download_multi pays each provider, in the attempt's receipts, for       *)
(* exactly the verified chunks it sent, whatever order they arrived in and *)
(* whichever chunks failed.                                                *)
THEOREM SpecPaidWhatWasServed == Spec => []PaidWhatWasServed
<1>1. IndInv => PaidWhatWasServed
  BY DEF IndInv, Finished, PaidWhatWasServed
<1> QED BY <1>1, SpecIndInv, PTL

(* The rotation over the providers skips none: an attempt of               *)
(* download_multi without a failing request gives up only for want of a    *)
(* chunk, or of the manifest, that no provider of the group has.           *)
THEOREM SpecGivenUpOnlyIfAbsent == Spec => []GivenUpOnlyIfAbsent
<1>1. IndInv => GivenUpOnlyIfAbsent
  BY DEF IndInv
<1> QED BY <1>1, SpecIndInv, PTL

-----------------------------------------------------------------------------
(* Symbols from an honest provider.                                        *)

(* A batch is no more than twice the content, and it is a whole one unless *)
(* it brings enough to decode.                                             *)
(* The next batch stays within twice the size. Once all source symbols of  *)
(* several blocks were tried, what is left is too little for another try.  *)
LEMMA BatchFits ==
    ASSUME NEW s \in Nat, s > 0, 2 * s >= 128 * 1204,
           NEW n \in Nat, n = (s + 1199) \div 1200, n > 0,
           NEW z \in Nat, z > 0, 1000 * (z - 1) < n,
           NEW m \in Nat, m = n + 64 * z,
           NEW a \in Nat, a <= m, a < n => a = 0 \/ a >= 128, a >= n => z > 1,
           NEW c \in Int, c = IF a >= m THEN 0 ELSE IF a + 128 < m THEN 128 ELSE m - a
    PROVE  /\ c >= 0 /\ a + c <= m /\ (c = 0 <=> a = m) /\ (a + c) * 1204 <= 2 * s
           /\ a + c < n => a + c >= 128
           /\ z > 1 => 64 * z < n \div 4
<1>1. 1200 * n <= s + 1199
  BY ONLY s \in Nat, n \in Nat, n = (s + 1199) \div 1200
<1>2. c >= 0 /\ a + c <= m /\ a + c <= a + 128 /\ (c = 0 <=> a = m) /\ (c = 128 \/ a + c = m)
  OBVIOUS
<1>3. a + c < n => a + c >= 128
  BY <1>2
<1>4. z > 1 => 64 * z < n \div 4 /\ n > 1000
  <2>1. z > 1 => n > 1000 /\ 256 * z + 4 <= n
    OBVIOUS
  <2> QED BY ONLY <2>1, n \in Nat, z \in Nat
<1>5. CASE a = 0 /\ c = 128
  BY <1>2, <1>3, <1>4, <1>5
<1>6. CASE a = 0 /\ c < 128
  <2>1. a + c <= 128
    BY <1>6
  <2> QED BY <1>2, <1>3, <1>4, <2>1
<1>7. CASE a # 0
  <2>1. n >= 129
    BY <1>4, <1>7
  <2>2. m * 1204 <= 2 * s
    BY ONLY <1>1, <2>1, m = n + 64 * z, 1000 * (z - 1) < n, n \in Nat, s \in Nat, z \in Nat, m \in Nat
  <2> QED BY <1>2, <1>3, <1>4, <2>2
<1> QED BY <1>2, <1>5, <1>6, <1>7

LEMMA NeedFact ==
    ASSUME Typed
    PROVE  /\ size \in Nat /\ Need \in Nat /\ Need > 0 /\ Need \div 4 \in Nat /\ Need \div 4 <= Need
           /\ (size + 1199) \div 1200 \in Nat
           /\ size > 0 => Need = (size + 1199) \div 1200
<1> PICK s \in Nat : s = size
  BY ConstantsFact DEF Typed
<1>1. PICK n \in Nat : n = (s + 1200 - 1) \div 1200
  OBVIOUS
<1>2. s + 1200 - 1 = s + 1199
  OBVIOUS
<1>3. Need = IF n = 0 THEN 1 ELSE n
  BY <1>1 DEF Need, SourceSymbols, SymbolSize
<1>4. s > 0 => n > 0
  BY <1>1
<1> QED BY <1>1, <1>2, <1>3, <1>4

LEMMA HonestBatch ==
    ASSUME Ample, IndInv, Decoding, FetchBatch, Honest'
    PROVE  Decoding'
<1>0. Typed /\ Finished /\ at.pc = "symbols" /\ ~at.err /\ at \in AtType
  BY DEF IndInv, Finished, FetchBatch, Typed
<1>1. UNCHANGED <<store, gone, late, way, size, served, paid>>
  BY DEF FetchBatch
<1> PICK b : b = SymbolsFrom(Asked(1))
  OBVIOUS
<1> DEFINE start == at.start + b.count
           bytes == at.bytes + b.bytes
           good == at.good + b.good
           enough == start - at.lastlen >= (IF Need \div 4 = 0 THEN 1 ELSE Need \div 4)
           decode == (start >= Need \/ b.count = 0) /\ (enough \/ b.count = 0)
           tries == IF decode THEN at.tries + 1 ELSE at.tries
           now == [at EXCEPT !.start = start, !.bytes = bytes, !.good = good, !.tries = tries,
                             !.batches = @ + 1, !.lastlen = IF decode THEN start ELSE @]
           fail == [now EXCEPT !.pc = "ended", !.err = TRUE]
           done == [now EXCEPT !.pc = "ingest"]
           broken == [at EXCEPT !.pc = "ended", !.err = TRUE, !.clean = FALSE]
<1>2. \/ at' = IF TooMuch(bytes) THEN fail
               ELSE IF decode /\ Decodes(good) THEN done
               ELSE IF decode /\ DecodesToJunk(Asked(1), start) THEN fail
               ELSE IF b.count = 0 THEN fail
               ELSE IF start >= Need /\ TriesUsed(tries) THEN fail
               ELSE now
      \/ at' = broken
  BY DEF FetchBatch
<1>3. at' # broken
  BY <1>0 DEF Honest, AtType
<1>4. /\ now.pc = "symbols" /\ now.err = at.err /\ now.start = start /\ now.bytes = bytes /\ now.good = good
      /\ now.tries = tries /\ now.lastlen = (IF decode THEN start ELSE at.lastlen) /\ now.group = at.group /\ now.clean = at.clean
      /\ fail.group = at.group /\ done.group = at.group /\ fail.clean = at.clean /\ done.clean = at.clean
      /\ done.pc = "ingest"
  BY <1>0 DEF AtType
<1>5. at'.group = at.group /\ at'.clean = at.clean
  BY <1>2, <1>3, <1>4
<1>6. Honest /\ Group' = Group
  BY <1>1, <1>5 DEF Honest, Group
<1>7. /\ at.good = at.start /\ at.bytes = at.start * PacketSize /\ at.start <= AllSymbols
      /\ at.start < Need =>
            at.lastlen = 0 /\ at.tries = 0 /\ (at.start = 0 \/ at.start >= FecBatch)
      /\ at.start >= Need => at.lastlen >= Need /\ at.tries = 1 /\ SourceBlocks(size) > 1
  BY <1>0, <1>6 DEF Decoding
<1>8. Need' = Need /\ AllSymbols' = AllSymbols /\ SourceBlocks(size)' = SourceBlocks(size)
  BY <1>1 DEF Need, AllSymbols
<1> PICK s \in Nat : s = size
  BY <1>0, NeedFact
<1> PICK n \in Nat : n = Need
  BY <1>0, NeedFact
<1> PICK a \in Nat : a = at.start
  BY <1>0 DEF AtType
<1> PICK t \in Nat : t = at.lastlen
  BY <1>0 DEF AtType
<1> PICK m \in Nat : m = AllSymbols
  BY <1>0, BlocksFact
<1> PICK z \in Nat : z = SourceBlocks(size)
  BY <1>0, BlocksFact
<1> PICK c \in Int : c = IF a >= m THEN 0 ELSE IF a + 128 < m THEN 128 ELSE m - a
  OBVIOUS
<1>9. /\ a <= m /\ (a < n => t = 0 /\ at.tries = 0 /\ (a = 0 \/ a >= 128))
      /\ a >= n => t >= n /\ at.tries = 1 /\ z > 1
  BY <1>7 DEF FecBatch
<1>10. b = [count |-> c, good |-> c, bytes |-> c * 1204] /\ Kind[Asked(1)] # "forger"
  <2>1. Kind[Asked(1)] = "honest" /\ Asked(1) \notin gone
    BY <1>6 DEF Honest, Asked
  <2>2. b = [count |-> c, good |-> c, bytes |-> c * 1204]
    BY <2>1 DEF SymbolsFrom, FecBatch, PacketSize, SymbolSize
  <2> QED BY <2>1, <2>2
<1>11. b.count = c /\ start = a + c /\ good = a + c /\ bytes = a * 1204 + c * 1204
  <2>1. PacketSize = 1204
    BY DEF PacketSize, SymbolSize
  <2>2. at.bytes = a * 1204 /\ at.good = a
    BY <1>7, <2>1
  <2>3. b.count = c /\ b.good = c /\ b.bytes = c * 1204
    BY <1>10
  <2> QED BY ONLY <2>2, <2>3, a = at.start
<1>12. ~DecodesToJunk(Asked(1), start) /\ at.err = FALSE
  BY <1>0, <1>10 DEF DecodesToJunk
<1>13. CASE s = 0
  <2>1. n = 1 /\ m = 0
    BY <1>0, <1>13, BlocksFact DEF Need, AllSymbols
  <2>2. a = 0 /\ c = 0 /\ bytes = 0
    BY <1>9, <1>11, <2>1
  <2>3. ~TooMuch(bytes) /\ decode /\ Decodes(good)
    BY <1>11, <1>13, <2>2 DEF TooMuch, Decodes
  <2>4. at' = done
    BY <1>2, <1>3, <2>3
  <2> QED BY <2>4, <1>4 DEF Decoding
<1>14. CASE s > 0
  <2>1. /\ n = (s + 1199) \div 1200 /\ n > 0 /\ z > 0 /\ 1000 * (z - 1) < n
        /\ m = n + 64 * z /\ 2 * s >= 128 * 1204
    <3>1. size \in TotalSizes
      BY <1>0 DEF Typed
    <3>2. 2 * s >= 128 * 1204
      BY <1>14, <3>1 DEF Ample, FecBatch, PacketSize, SymbolSize
    <3>3. SourceSymbols(size) = n
      BY <1>0, <1>14, NeedFact, BlocksFact
    <3> QED BY <1>0, <1>14, <3>2, <3>3, BlocksFact DEF AllSymbols, Repair
  <2>2. /\ c >= 0 /\ a + c <= m /\ (c = 0 <=> a = m) /\ (a + c) * 1204 <= 2 * s
        /\ a + c < n => a + c >= 128
        /\ z > 1 => 64 * z < n \div 4
    BY ONLY <1>9, <1>14, <2>1, BatchFits, s \in Nat, n \in Nat, z \in Nat, m \in Nat, a \in Nat,
            c \in Int, c = IF a >= m THEN 0 ELSE IF a + 128 < m THEN 128 ELSE m - a
  <2>3. bytes = (a + c) * 1204 /\ ~TooMuch(bytes)
    <3>1. a * 1204 + c * 1204 = (a + c) * 1204
      OBVIOUS
    <3> QED BY <1>11, <2>2, <3>1 DEF TooMuch
  <2> PICK q \in Nat : q = n \div 4 /\ q <= n
    BY <1>0, NeedFact
  <2>4. decode <=> (a + c >= n \/ c = 0) /\ (a + c - t >= (IF q = 0 THEN 1 ELSE q) \/ c = 0)
    BY <1>11
  <2>5. Decodes(good) <=> a + c >= n + 64 * (z - 1)
    BY <1>11, <1>14 DEF Decodes, Repair
  <2>6. CASE decode /\ Decodes(good)
    <3>1. at' = done
      BY <1>2, <1>3, <2>3, <2>6
    <3> QED BY <3>1, <1>4 DEF Decoding
  <2>7. CASE ~(decode /\ Decodes(good))
    <3> HIDE DEF start, bytes, good, enough, decode, tries, now, fail, done, broken
    <3>1. c # 0
      <4> SUFFICES ASSUME c = 0 PROVE decode /\ Decodes(good)
        BY <2>7
      <4>1. a + c = n + 64 * z
        BY <2>1, <2>2
      <4> QED BY <2>4, <2>5, <4>1
    <3>2. a + c >= n => z > 1
      <4> SUFFICES ASSUME a + c >= n, z = 1 PROVE FALSE
        BY <2>1
      <4>1. a < n
        BY <1>9
      <4>2. decode
        BY <1>9, <2>1, <2>4, <4>1
      <4> QED BY <2>5, <2>7, <4>2
    <3>3. a >= n => ~decode
      <4> SUFFICES ASSUME a >= n PROVE ~decode
        OBVIOUS
      <4>1. a + c - t <= 64 * z /\ 64 * z < q
        BY <1>9, <2>1, <2>2
      <4>2. ~(a + c - t >= (IF q = 0 THEN 1 ELSE q))
        BY <4>1
      <4> QED BY <2>4, <3>1, <4>2
    <3>4. a < n => (decode <=> a + c >= n)
      <4> SUFFICES ASSUME a < n PROVE decode <=> a + c >= n
        OBVIOUS
      <4>1. a + c >= n => a + c - t >= (IF q = 0 THEN 1 ELSE q)
        BY <1>9, <2>1
      <4> QED BY <2>4, <3>1, <4>1
    <3> PICK d \in BOOLEAN : d <=> decode
      OBVIOUS
    <3>5. tries = IF d THEN at.tries + 1 ELSE at.tries
      BY DEF tries
    <3>6. tries = IF a + c >= n THEN 1 ELSE 0
      <4>1. CASE a >= n
        BY <1>9, <2>2, <3>3, <3>5, <4>1
      <4>2. CASE a < n
        BY <1>9, <3>4, <3>5, <4>2
      <4> QED BY <4>1, <4>2
    <3>7. now.lastlen = IF d THEN a + c ELSE t
      BY <1>4, <1>11
    <3>8. /\ a + c < n => now.lastlen = 0
          /\ a + c >= n => now.lastlen >= n
      <4>1. CASE a >= n
        BY <1>9, <2>2, <3>3, <3>7, <4>1
      <4>2. CASE a < n
        BY <1>9, <3>4, <3>7, <4>2
      <4> QED BY <4>1, <4>2
    <3>9. ~TriesUsed(tries)
      BY <3>6 DEF TriesUsed, DecodeAttempts
    <3>10. at' = now
      BY <1>2, <1>3, <1>11, <1>12, <2>3, <2>7, <3>1, <3>9
    <3>11. /\ at'.pc = "symbols" /\ ~at'.err /\ at'.start = a + c /\ at'.good = a + c
           /\ at'.bytes = (a + c) * 1204
           /\ at'.tries = IF a + c >= n THEN 1 ELSE 0
           /\ a + c < n => at'.lastlen = 0
           /\ a + c >= n => at'.lastlen >= n
      BY <1>4, <1>11, <1>12, <2>3, <3>6, <3>8, <3>10
    <3>12. Need' = n /\ AllSymbols' = m /\ SourceBlocks(size)' = z
      BY <1>8
    <3> PICK y \in Nat : y = a + c
      BY <2>2
    <3>13. PacketSize = 1204 /\ FecBatch = 128
      BY DEF PacketSize, SymbolSize, FecBatch
    <3>14. /\ y <= m /\ (y < n => y = 0 \/ y >= 128) /\ (y >= n => z > 1)
           /\ y < n => at'.tries = 0 /\ at'.lastlen = 0
           /\ y >= n => at'.tries = 1 /\ at'.lastlen >= n
      BY <2>2, <3>2, <3>11
    <3>15. /\ at'.pc = "symbols" /\ ~at'.err /\ at'.start = y /\ at'.good = at'.start
           /\ at'.bytes = at'.start * PacketSize
      BY <3>11, <3>13
    <3>16. /\ at'.pc = "symbols" /\ ~at'.err /\ at'.good = at'.start
           /\ at'.bytes = at'.start * PacketSize /\ at'.start <= AllSymbols'
           /\ at'.start < Need' =>
                at'.lastlen = 0 /\ at'.tries = 0 /\ (at'.start = 0 \/ at'.start >= FecBatch)
           /\ at'.start >= Need' =>
                at'.lastlen >= Need' /\ at'.tries = 1 /\ SourceBlocks(size)' > 1
      BY ONLY <3>12, <3>13, <3>14, <3>15
    <3> QED BY <3>16, Zenon DEF Decoding
  <2> QED BY <2>6, <2>7
<1> QED BY <1>13, <1>14

LEMMA NextDecoding == Ample /\ IndInv /\ Decoding /\ [Next]_vars => Decoding'
<1> SUFFICES ASSUME Ample, IndInv, Decoding, [Next]_vars, Honest' PROVE Decoding'
  BY DEF Decoding
<1>0. Typed /\ Asking /\ Fetching /\ Finished /\ at \in AtType /\ way \in {"chunks", "symbols"}
  BY DEF IndInv, Typed
<1>1. way' = way /\ size' = size
  BY DEF Next, Work, vars, AskManifest, StartSlot, Answer, TakeChunk, TakeFailure, Drained, FetchBatch,
         IngestDecoded, Retry, Finish, DeadlinePasses, StopProviding
<1>2. way = "symbols" /\ at'.clean /\ Kind[Group'[1]] = "honest" /\ Group'[1] \notin gone'
  BY <1>1 DEF Honest
<1>3. at.pc # "fetch"
  BY <1>0, <1>2 DEF Fetching
<1>4. CASE AskManifest
  <2>0. at.pc = "manifest" /\ UNCHANGED <<store, gone, late, way, size, served, paid>>
    BY <1>4 DEF AskManifest
  <2> PICK next : next = [at EXCEPT !.asked = @ + 1, !.pc = "ended", !.err = TRUE]
    OBVIOUS
  <2>1. \/ Start
        \/ ManifestAnswer(Asked(at.asked)) # "good" /\ at' = next
        \/ at' = [next EXCEPT !.clean = FALSE]
    BY <1>2, <1>4 DEF AskManifest
  <2>2. next.clean = at.clean /\ next.group = at.group /\ ~[next EXCEPT !.clean = FALSE].clean
    BY <1>0 DEF AtType
  <2>3. at' # [next EXCEPT !.clean = FALSE]
    BY <1>2, <2>2
  <2>4. Start => at'.clean = at.clean /\ at'.group = at.group
    BY <1>0, <1>2 DEF Start, AtType
  <2>5. at'.clean = at.clean /\ Group' = Group
    BY <2>1, <2>2, <2>3, <2>4 DEF Group
  <2>6. Honest /\ at.asked = 1
    BY <1>2, <2>0, <2>5 DEF Honest, Decoding
  <2>7. ManifestAnswer(Asked(at.asked)) = "good"
    BY <2>6 DEF Honest, ManifestAnswer, Asked
  <2>8. at' = [at EXCEPT !.pc = "symbols"]
    <3>1. size <= MaxTransfer /\ size \in Nat /\ MaxTransfer \in Nat
      BY <1>0, <2>6, NeedFact, DownloadAssumption DEF Honest
    <3>2. ~(size > MaxTransfer)
      BY <3>1
    <3> QED BY <1>2, <2>1, <2>3, <2>7, <3>2 DEF Start
  <2>9. /\ at'.pc = "symbols" /\ at'.err = FALSE /\ at'.start = 0 /\ at'.good = 0 /\ at'.bytes = 0
        /\ at'.lastlen = 0 /\ at'.tries = 0
    BY <1>0, <2>0, <2>6, <2>8 DEF Asking, AtType, Decoding
  <2>10. Need' = Need /\ AllSymbols' = AllSymbols /\ Need \in Nat /\ AllSymbols \in Nat
         /\ 0 < Need /\ 0 = 0 * PacketSize
    BY <1>0, <2>0, NeedFact, BlocksFact DEF Need, AllSymbols, PacketSize, SymbolSize
  <2> QED BY <2>9, <2>10 DEF Decoding
<1>5. CASE StartSlot \/ Answer \/ TakeChunk \/ TakeFailure \/ Drained
  BY <1>3, <1>5 DEF StartSlot, Answer, TakeChunk, TakeFailure, Drained
<1>6. CASE FetchBatch
  BY <1>6, HonestBatch
<1>7. CASE IngestDecoded
  <2>1. \/ at' = [at EXCEPT !.pc = "ended"]
        \/ at' = [at EXCEPT !.pc = "ended", !.err = TRUE, !.clean = FALSE]
    BY <1>7 DEF IngestDecoded
  <2>2. at' = [at EXCEPT !.pc = "ended"]
    BY <2>1, <1>0, <1>2 DEF AtType
  <2>3. at.pc = "ingest" /\ ~at.err
    BY <1>7, <1>0 DEF IngestDecoded, Finished
  <2>4. at'.pc = "ended" /\ ~at'.err
    BY <2>2, <2>3, <1>0 DEF AtType
  <2> QED BY <2>4 DEF Decoding
<1>8. CASE Retry
  <2>1. \/ at' = [at EXCEPT !.pc = "failed"]
        \/ \E g, m : at' = Fresh(g, m)
    BY <1>8 DEF Retry
  <2>2. at'.pc = "failed" \/ (at'.pc = "manifest" /\ at'.asked = 1 /\ at'.tries = 0)
    BY <2>1, <1>0 DEF AtType, Fresh
  <2> QED BY <2>2 DEF Decoding
<1>9. CASE Finish
  <2>1. at'.pc = "fetched"
    BY <1>9, <1>0 DEF Finish, AtType
  <2> QED BY <2>1 DEF Decoding
<1>10. CASE DeadlinePasses \/ UNCHANGED vars
  <2>1. UNCHANGED <<at, gone, way, size>>
    BY <1>10 DEF DeadlinePasses, vars
  <2>2. Honest /\ Need' = Need /\ AllSymbols' = AllSymbols
    BY <2>1 DEF Honest, Group, Need, AllSymbols
  <2> QED BY <2>1, <2>2 DEF Decoding
<1>11. CASE StopProviding
  <2>1. at'.clean = FALSE
    BY <1>11, <1>0 DEF StopProviding, AtType
  <2> QED BY <2>1, <1>2
<1> QED BY <1>4, <1>5, <1>6, <1>7, <1>8, <1>9, <1>10, <1>11 DEF Next, Work

(* "Legit downloads need about 1x total_size in symbols, so 2x is generous *)
(* headroom": download_fec from an honest provider that goes on providing, *)
(* with no failing request, never ends in an error, in however many blocks *)
(* the symbols come. For this the content is no larger than the code takes *)
(* and is empty or its double holds the first batch; a smaller one runs    *)
(* into the limit with the first batch of symbols.                         *)
THEOREM SpecHonestSymbolsSuffice ==
    ASSUME Ample
    PROVE  Spec => []HonestSymbolsSuffice
<1>1. Init => Decoding
  <2> SUFFICES ASSUME Init PROVE at.pc = "manifest" /\ at.asked = 1 /\ at.tries = 0
    BY DEF Decoding
  <2> QED BY DEF Init, Fresh
<1>2. IndInv /\ Decoding /\ [Next]_vars => Decoding'
  BY Ample, NextDecoding
<1>3. Decoding => HonestSymbolsSuffice
  BY DEF Decoding, Honest, HonestSymbolsSuffice
<1> QED BY <1>1, <1>2, <1>3, SpecIndInv, PTL DEF Spec
=============================================================================
