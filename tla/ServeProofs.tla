---------------------------- MODULE ServeProofs ----------------------------
(***************************************************************************)
(* Proofs about Serve for any roots, invocations, time to live and bounds. *)
(***************************************************************************)
EXTENDS Serve, FiniteSetTheorems, TLAPS

(* The inductive invariant: types, and where the process is.               *)

(* The places of cmd_serve from which an identity is in use.               *)
Spawned == {"listen", "map", "external", "relay", "circuit", "loop"} \cup Loop

Started ==
    /\ pc # "down" => args \in Invocations
    /\ pc \notin Down => used.starts \in Seeds
    /\ pc \in Spawned => id \in Seeds
    /\ pc = "collect" => id = None
    /\ pc = "announce" => args.tracker /\ todo.roots \subseteq mine

(* A name in the registry stands for flushed bytes.                        *)
Flushed == \A r \in Roots : registry[r] \in {"none", "whole"}

IndInv == TypeOK /\ Started /\ Flushed

LEMMA ConstantsFact ==
    /\ MaxSlow \in Nat /\ MaxStarts \in Nat /\ MaxEvents \in Nat
    /\ Ttl \in Nat /\ Ttl >= 2
    /\ \A a \in Invocations : a.given \subseteq Roots /\ a.all \in BOOLEAN /\ a.tracker \in BOOLEAN
    /\ None \notin Invocations
BY ServeAssumption

LEMMA SeedsFact == Seeds \subseteq Nat \ {0} /\ None \notin Seeds
BY ServeAssumption DEF Seeds

LEMMA UnknownFact == Unknown \in [age : 0 .. Ttl, addrs : SUBSET Addresses] /\ Unknown.age = Ttl
BY ServeAssumption DEF Unknown, Addresses

LEMMA OlderFact ==
    ASSUME NEW e \in [age : 0 .. Ttl, addrs : SUBSET Addresses]
    PROVE  /\ Older(e) \in [age : 0 .. Ttl, addrs : SUBSET Addresses]
           /\ Older(e).age <= e.age + 1
BY ServeAssumption, UnknownFact DEF Older, Unknown

LEMMA UsedFact ==
    ASSUME NEW u \in [starts : 0 .. MaxStarts, cuts : Nat, events : Nat]
    PROVE  /\ [u EXCEPT !.events = @ + 1] \in [starts : 0 .. MaxStarts, cuts : Nat, events : Nat]
           /\ [u EXCEPT !.cuts = @ + 1, !.events = @ + 1]
                 \in [starts : 0 .. MaxStarts, cuts : Nat, events : Nat]
<1>1. u.events + 1 \in Nat /\ u.cuts + 1 \in Nat /\ u.starts \in 0 .. MaxStarts
  OBVIOUS
<1> QED BY <1>1

LEMMA EventFact ==
    ASSUME used \in [starts : 0 .. MaxStarts, cuts : Nat, events : Nat], Event
    PROVE  /\ used' \in [starts : 0 .. MaxStarts, cuts : Nat, events : Nat]
           /\ used'.starts = used.starts /\ used'.cuts = used.cuts
BY UsedFact DEF Event

LEMMA StoredFact ==
    ASSUME TypeOK, NEW i \in Seeds, NEW r \in Roots, NEW with \in SUBSET Addresses
    PROVE  /\ Stored(i, r, with) \in [Seeds -> [Roots -> [age : 0 .. Ttl, addrs : SUBSET Addresses]]]
           /\ Stored(i, r, with)[i][r] = [age |-> 0, addrs |-> with]
           /\ \A s \in Roots \ {r} : Stored(i, r, with)[i][s] = table[i][s]
<1> DEFINE E == [age : 0 .. Ttl, addrs : SUBSET Addresses]
           e == [age |-> 0, addrs |-> with]
<1>1. e \in E
  BY ConstantsFact
<1>2. table \in [Seeds -> [Roots -> E]]
  BY DEF TypeOK
<1>3. Stored(i, r, with) = [table EXCEPT ![i] = [table[i] EXCEPT ![r] = e]]
  BY DEF Stored
<1> HIDE DEF e, E
<1>4. [table[i] EXCEPT ![r] = e] \in [Roots -> E]
  BY <1>1, <1>2
<1> QED BY <1>2, <1>3, <1>4 DEF e, E

LEMMA InitIndInv == Init => IndInv
<1> SUFFICES ASSUME Init PROVE IndInv
  OBVIOUS
<1>1. TypeOK
  <2>1. until \in -MaxSlow .. Period /\ slow \in 0 .. MaxSlow /\ missed \in [Roots -> 0 .. Ttl]
    BY ConstantsFact DEF Init, Period
  <2>2. table \in [Seeds -> [Roots -> [age : 0 .. Ttl, addrs : SUBSET Addresses]]]
    BY UnknownFact DEF Init
  <2>3. used \in [starts : 0 .. MaxStarts, cuts : Nat, events : Nat]
    BY ConstantsFact DEF Init
  <2> QED
    BY <2>1, <2>2, <2>3 DEF Init, TypeOK, Places, Down, Loop, Addresses, NoRound
<1>2. Started /\ Flushed
  BY DEF Init, Started, Flushed, Down, Spawned, Loop
<1> QED BY <1>1, <1>2 DEF IndInv

LEMMA NextIndInv == IndInv /\ [Next]_vars => IndInv'
<1> SUFFICES ASSUME IndInv, [Next]_vars PROVE IndInv'
  OBVIOUS
<1> USE DEF vars, process, disk, clocks, ghosts
<1>0. TypeOK /\ Started /\ Flushed
  BY DEF IndInv
<1>1. CASE Start
  <2> PICK a \in Invocations :
         /\ args' = a
         /\ pc' \in {"failed", "collect"}
         /\ listing' = IF a.all THEN Registered ELSE a.given
    BY <1>1 DEF Start
  <2>1. /\ used'.starts \in 1 .. MaxStarts
        /\ used' \in [starts : 0 .. MaxStarts, cuts : Nat, events : Nat]
    BY <1>1, <1>0, ConstantsFact DEF TypeOK, Start
  <2>2. missed' \in [Roots -> 0 .. Ttl]
    BY <1>1, ConstantsFact DEF Start
  <2>3. Started'
    BY <1>1, <2>1 DEF Started, Spawned, Loop, Down, Seeds, Start
  <2>4. listing' \subseteq Roots /\ steady' \subseteq Roots
    BY <1>1, ConstantsFact DEF Start, Registered
  <2> QED
    BY <1>1, <1>0, <2>1, <2>2, <2>3, <2>4 DEF IndInv, TypeOK, Places, Down, Flushed, Start
<1>2. CASE Collect
  BY <1>2, <1>0, ConstantsFact
     DEF IndInv, TypeOK, Started, Flushed, Places, Addresses, Spawned, Loop, Down, Collect, ReadEntry
<1>3. CASE Register
  <2>1. \/ UNCHANGED registry
        \/ \E r \in Roots : registry' = [registry EXCEPT ![r] = "whole"]
    BY <1>3, <1>0 DEF TypeOK, Register, InPlace
  <2>2. registry' \in [Roots -> {"none", "whole", "soft", "torn"}] /\ Flushed'
    <3>0. registry \in [Roots -> {"none", "whole", "soft", "torn"}]
      BY <1>0 DEF TypeOK
    <3>1. CASE UNCHANGED registry
      BY <3>0, <3>1, <1>0 DEF Flushed
    <3>2. CASE \E r \in Roots : registry' = [registry EXCEPT ![r] = "whole"]
      <4> PICK r \in Roots : registry' = [registry EXCEPT ![r] = "whole"]
        BY <3>2
      <4>1. registry' \in [Roots -> {"none", "whole", "soft", "torn"}]
        BY <3>0
      <4>2. \A q \in Roots : registry'[q] = registry[q] \/ registry'[q] = "whole"
        BY <3>0
      <4> QED BY <4>1, <4>2, <1>0 DEF Flushed
    <3> QED BY <2>1, <3>1, <3>2
  <2>3. Started'
    BY <1>3, <1>0 DEF Started, Spawned, Loop, Down, Register
  <2> QED
    BY <1>3, <1>0, <2>2, <2>3 DEF IndInv, TypeOK, Places, Register, NextStage
<1>4. CASE Other
  <2>1. used' \in [starts : 0 .. MaxStarts, cuts : Nat, events : Nat]
    BY <1>4, <1>0, ConstantsFact DEF TypeOK, Other, Event
  <2>2. registry' \in [Roots -> {"none", "whole", "soft", "torn"}] /\ Flushed'
    BY <1>4, <1>0 DEF TypeOK, Flushed, Other, Event
  <2>3. Started'
    BY <1>4, <1>0, SeedsFact, ConstantsFact DEF TypeOK, Started, Spawned, Loop, Down, Other, Event
  <2> QED
    BY <1>4, <1>0, <2>1, <2>2, <2>3 DEF IndInv, TypeOK, Places, Loop, Down, Other, Event
<1>5. CASE LoadSeed
  <2>1. key' \in {None, 0} \cup Seeds /\ id' \in {None} \cup Seeds /\ ids' \subseteq Seeds
    BY <1>5, <1>0 DEF TypeOK, LoadSeed, Spawn, Fits
  <2>2. Started'
    BY <1>5, <1>0, SeedsFact, ConstantsFact DEF TypeOK, Started, Spawned, Loop, Down, LoadSeed, Spawn, Fits
  <2> QED
    BY <1>5, <1>0, <2>1, <2>2 DEF IndInv, TypeOK, Places, Loop, Down, Flushed, LoadSeed, Spawn, Fits
<1>6. CASE CreateSeed
  <2>1. key' \in {None, 0} \cup Seeds /\ id' \in {None} \cup Seeds /\ ids' \subseteq Seeds
    BY <1>6, <1>0 DEF TypeOK, Started, Down, CreateSeed, Spawn
  <2>2. Started'
    BY <1>6, <1>0, SeedsFact, ConstantsFact DEF TypeOK, Started, Spawned, Loop, Down, CreateSeed, Spawn
  <2> QED
    BY <1>6, <1>0, <2>1, <2>2 DEF IndInv, TypeOK, Places, Loop, Down, Flushed, CreateSeed, Spawn
<1>7. CASE Listen
  BY <1>7, <1>0, ConstantsFact
     DEF IndInv, TypeOK, Started, Flushed, Places, Addresses, Spawned, Loop, Down, Listen
<1>8. CASE Bind
  BY <1>8, <1>0, ConstantsFact
     DEF IndInv, TypeOK, Started, Flushed, Places, Addresses, Spawned, Loop, Down, Bind
<1>9. CASE MapPort
  BY <1>9, <1>0, ConstantsFact, ZenonT(40)
     DEF IndInv, TypeOK, Started, Flushed, Places, Addresses, Spawned, Loop, Down, MapPort
<1>10. CASE DecideRelay
  BY <1>10, <1>0, ConstantsFact
     DEF IndInv, TypeOK, Started, Flushed, Places, Addresses, Spawned, Loop, Down, DecideRelay
<1>11. CASE DialRelay
  BY <1>11, <1>0, ConstantsFact, ZenonT(40)
     DEF IndInv, TypeOK, Started, Flushed, Places, Addresses, Spawned, Loop, Down, DialRelay
<1>12. CASE AwaitCircuit
  <2>1. addrs' \subseteq Addresses
    BY <1>12, <1>0, ZenonT(40) DEF TypeOK, Addresses, AwaitCircuit
  <2>2. \/ UNCHANGED todo
        \/ todo' = [roots |-> mine, addrs |-> addrs' \ {"external"}, next |-> "loop"]
    BY <1>12 DEF AwaitCircuit, Round
  <2>3. todo' \in [roots : SUBSET Roots, addrs : SUBSET Addresses, next : {"idle", "loop"}]
    BY <2>1, <2>2, <1>0 DEF TypeOK
  <2>4. until' \in -MaxSlow .. Period /\ slow' \in 0 .. MaxSlow
    BY <1>12, ConstantsFact DEF AwaitCircuit, Period
  <2>5. Started'
    BY <1>12, <1>0 DEF Started, Spawned, Loop, Down, AwaitCircuit, Round
  <2> QED
    BY <1>12, <1>0, <2>1, <2>3, <2>4, <2>5 DEF IndInv, TypeOK, Places, Loop, Flushed, AwaitCircuit
<1>13. CASE AddressChanges
  <2>1. used' \in [starts : 0 .. MaxStarts, cuts : Nat, events : Nat]
    BY <1>13, <1>0, ConstantsFact DEF TypeOK, AddressChanges, Event
  <2>2. addrs' \subseteq Addresses
    BY <1>13, <1>0 DEF TypeOK, Addresses, AddressChanges, Event
  <2>3. Started'
    BY <1>13, <1>0, SeedsFact, ConstantsFact DEF TypeOK, Started, Spawned, Loop, Down, AddressChanges, Event
  <2> QED
    BY <1>13, <1>0, <2>1, <2>2, <2>3 DEF IndInv, TypeOK, Places, Loop, Down, Flushed, AddressChanges, Event
<1>14. CASE EnterLoop
  <2>1. until' \in -MaxSlow .. Period /\ slow' \in 0 .. MaxSlow
    BY <1>14, <1>0, ConstantsFact DEF TypeOK, Period, EnterLoop
  <2>2. Started'
    BY <1>14, <1>0 DEF Started, Spawned, Loop, Down, EnterLoop
  <2> QED
    BY <1>14, <1>0, <2>1, <2>2 DEF IndInv, TypeOK, Places, Loop, Flushed, EnterLoop
<1>15. CASE AnnounceTick
  BY <1>15, <1>0, ConstantsFact
     DEF IndInv, TypeOK, Started, Flushed, Places, Addresses, Spawned, Loop, Down, AnnounceTick, Round, Due, Period
<1>16. CASE AnnounceOne
  <2> PICK r \in todo.roots :
         /\ todo' = [todo EXCEPT !.roots = @ \ {r}]
         /\ \/ /\ table' = Stored(id, r, todo.addrs) /\ missed' = [missed EXCEPT ![r] = 0]
               /\ UNCHANGED used
            \/ /\ Event \/ UNCHANGED used
               /\ missed' = [missed EXCEPT ![r] = IF @ < Ttl THEN @ + 1 ELSE @]
               /\ UNCHANGED table
    BY <1>16 DEF AnnounceOne
  <2>0. r \in Roots /\ todo.addrs \subseteq Addresses /\ id \in Seeds
    BY <1>16, <1>0 DEF TypeOK, Started, Spawned, Loop, AnnounceOne
  <2>1. used' \in [starts : 0 .. MaxStarts, cuts : Nat, events : Nat]
    BY <1>0, EventFact DEF TypeOK
  <2>2. todo' \in [roots : SUBSET Roots, addrs : SUBSET Addresses, next : {"idle", "loop"}]
    BY <1>0 DEF TypeOK
  <2>3. table' \in [Seeds -> [Roots -> [age : 0 .. Ttl, addrs : SUBSET Addresses]]]
    <3>1. table \in [Seeds -> [Roots -> [age : 0 .. Ttl, addrs : SUBSET Addresses]]]
      BY <1>0 DEF TypeOK
    <3>2. Stored(id, r, todo.addrs) \in [Seeds -> [Roots -> [age : 0 .. Ttl, addrs : SUBSET Addresses]]]
      BY <1>0, <2>0, StoredFact
    <3> QED
      BY <3>1, <3>2
  <2>4. missed' \in [Roots -> 0 .. Ttl]
    BY <2>0, <1>0, ConstantsFact DEF TypeOK
  <2>5. UNCHANGED <<pc, process, disk, until, slow, steady, ids>> /\ used'.starts = used.starts
    BY <1>16, <1>0 DEF TypeOK, AnnounceOne, Event
  <2>6. Started'
    BY <2>5, <1>16, <1>0 DEF TypeOK, Started, AnnounceOne
  <2> QED
    BY <2>1, <2>2, <2>3, <2>4, <2>5, <2>6, <1>0 DEF IndInv, TypeOK, Flushed
<1>17. CASE AnnounceDone
  BY <1>17, <1>0, ConstantsFact
     DEF IndInv, TypeOK, Started, Flushed, Places, Addresses, Spawned, Loop, Down, AnnounceDone, NoRound
<1>18. CASE Tick
  <2>1. until' \in -MaxSlow .. Period /\ slow' \in 0 .. MaxSlow
    BY <1>18, <1>0, ConstantsFact DEF TypeOK, Period, Tick
  <2>2. table' \in [Seeds -> [Roots -> [age : 0 .. Ttl, addrs : SUBSET Addresses]]]
    BY <1>18, <1>0, UnknownFact, OlderFact DEF TypeOK, Tick
  <2>3. missed' \in [Roots -> 0 .. Ttl]
    BY <1>18, <1>0, ConstantsFact DEF TypeOK, Tick
  <2>4. Started'
    BY <1>18, <1>0, SeedsFact, ConstantsFact DEF TypeOK, Started, Spawned, Loop, Down, Tick
  <2> QED
    BY <1>18, <1>0, <2>1, <2>2, <2>3, <2>4 DEF IndInv, TypeOK, Places, Loop, Down, Flushed, Tick
<1>19. CASE Kill
  <2>1. until' \in -MaxSlow .. Period /\ slow' \in 0 .. MaxSlow
    BY <1>19, <1>0, ConstantsFact DEF TypeOK, Period, Kill, Gone, NoRound
  <2>2. todo' \in [roots : SUBSET Roots, addrs : SUBSET Addresses, next : {"idle", "loop"}]
    BY <1>19, <1>0 DEF TypeOK, Addresses, Kill, Gone, NoRound
  <2>3. missed' \in [Roots -> 0 .. Ttl]
    BY <1>19, <1>0, ConstantsFact DEF TypeOK, Kill, Gone, NoRound
  <2>4. Started'
    BY <1>19, <1>0, SeedsFact, ConstantsFact DEF TypeOK, Started, Spawned, Loop, Down, Kill, Gone, NoRound
  <2> QED
    BY <1>19, <1>0, <2>1, <2>2, <2>3, <2>4 DEF IndInv, TypeOK, Places, Loop, Down, Flushed, Kill, Gone, NoRound
<1>20. CASE Stop
  <2>1. until' \in -MaxSlow .. Period /\ slow' \in 0 .. MaxSlow
    BY <1>20, <1>0, ConstantsFact DEF TypeOK, Period, Stop, Gone, NoRound
  <2>2. todo' \in [roots : SUBSET Roots, addrs : SUBSET Addresses, next : {"idle", "loop"}]
    BY <1>20, <1>0 DEF TypeOK, Addresses, Stop, Gone, NoRound
  <2>3. missed' \in [Roots -> 0 .. Ttl]
    BY <1>20, <1>0, ConstantsFact DEF TypeOK, Stop, Gone, NoRound
  <2>4. Started'
    BY <1>20, <1>0, SeedsFact, ConstantsFact DEF TypeOK, Started, Spawned, Loop, Down, Stop, Gone, NoRound
  <2> QED
    BY <1>20, <1>0, <2>1, <2>2, <2>3, <2>4 DEF IndInv, TypeOK, Places, Loop, Down, Flushed, Stop, Gone, NoRound
<1>21. CASE PowerCut
  <2>1. until' \in -MaxSlow .. Period /\ slow' \in 0 .. MaxSlow
    BY <1>21, <1>0, ConstantsFact DEF TypeOK, Period, PowerCut, Gone, NoRound
  <2>2. todo' \in [roots : SUBSET Roots, addrs : SUBSET Addresses, next : {"idle", "loop"}]
    BY <1>21, <1>0 DEF TypeOK, Addresses, PowerCut, Gone, NoRound
  <2>3. missed' \in [Roots -> 0 .. Ttl]
    BY <1>21, <1>0, ConstantsFact DEF TypeOK, PowerCut, Gone, NoRound
  <2>4. used' \in [starts : 0 .. MaxStarts, cuts : Nat, events : Nat]
    BY <1>21, <1>0, UsedFact DEF TypeOK, PowerCut
  <2>5. registry' \in [Roots -> {"none", "whole", "soft", "torn"}] /\ Flushed'
    BY <1>21, <1>0 DEF TypeOK, Flushed, PowerCut, Gone, NoRound
  <2>6. key' \in {None, 0} \cup Seeds /\ id' \in {None} \cup Seeds /\ ids' \subseteq Seeds
    BY <1>21, <1>0, SeedsFact DEF TypeOK, Started, Down, PowerCut, Gone, NoRound
  <2>7. Started'
    BY <1>21, <1>0, SeedsFact, ConstantsFact DEF TypeOK, Started, Spawned, Loop, Down, PowerCut, Gone, NoRound
  <2> QED
    BY <1>21, <1>0, <2>1, <2>2, <2>3, <2>4, <2>5, <2>6, <2>7 DEF IndInv, TypeOK, Places, Loop, Down, PowerCut, Gone, NoRound
<1>22. CASE TrackerReset
  <2>1. used' \in [starts : 0 .. MaxStarts, cuts : Nat, events : Nat]
    BY <1>22, <1>0, ConstantsFact DEF TypeOK, TrackerReset, Event
  <2>2. table' \in [Seeds -> [Roots -> [age : 0 .. Ttl, addrs : SUBSET Addresses]]]
    BY <1>22, <1>0, UnknownFact, OlderFact DEF TypeOK, TrackerReset, Event
  <2>3. missed' \in [Roots -> 0 .. Ttl]
    BY <1>22, <1>0, ConstantsFact DEF TypeOK, TrackerReset, Event
  <2>4. Started'
    BY <1>22, <1>0, SeedsFact, ConstantsFact DEF TypeOK, Started, Spawned, Loop, Down, TrackerReset, Event
  <2> QED
    BY <1>22, <1>0, <2>1, <2>2, <2>3, <2>4 DEF IndInv, TypeOK, Places, Loop, Down, Flushed, TrackerReset, Event
<1>23. CASE UNCHANGED vars
  BY <1>23, <1>0 DEF IndInv, TypeOK, Started, Flushed
<1> QED
  BY <1>1, <1>2, <1>3, <1>4, <1>5, <1>6, <1>7, <1>8, <1>9, <1>10, <1>11, <1>12, <1>13, <1>14, <1>15, <1>16, <1>17, <1>18, <1>19, <1>20, <1>21, <1>22, <1>23 DEF Next, Work

(* Whatever is killed or cut off, the registry holds whole manifests only  *)
(* (register_manifest: staged, flushed, renamed).                          *)
THEOREM SpecRegistryWhole == Spec => []RegistryWhole
<1>1. IndInv => RegistryWhole
  BY DEF IndInv, Flushed, RegistryWhole
<1> QED
  BY <1>1, InitIndInv, NextIndInv, PTL DEF Spec

-----------------------------------------------------------------------------
(* The identity.                                                           *)

(* A fresh seed is drawn only when the key does not fit, and it stops      *)
(* fitting, once written, by a power failure only.                         *)
Lasting ==
    /\ Fits(key) => key \in ids /\ Cardinality(ids) <= 1 + used.cuts
    /\ ~Fits(key) => Cardinality(ids) <= used.cuts
    /\ pc = "truncated" => ~Fits(key)

(* What leaves the key alone.                                              *)
KeyKept ==
    /\ UNCHANGED <<key, ids>> /\ used'.cuts = used.cuts
    /\ pc' = "truncated" => pc = "truncated"

LEMMA KeyChanges ==
    ASSUME IndInv, [Next]_vars
    PROVE  LoadSeed \/ CreateSeed \/ PowerCut \/ KeyKept
<1> USE DEF vars, process, disk, clocks, ghosts
<1>0. TypeOK
  BY DEF IndInv
<1>1. used \in [starts : 0 .. MaxStarts, cuts : Nat, events : Nat]
  BY <1>0 DEF TypeOK
<1>2. CASE Start
  BY <1>2, <1>1 DEF Start, KeyKept
<1>3. CASE Collect \/ Register
  BY <1>3 DEF Collect, ReadEntry, Register, KeyKept
<1>4. CASE Other
  BY <1>4, <1>1, EventFact DEF Other, KeyKept
<1>5. CASE AddressChanges
  BY <1>5, <1>1, EventFact DEF AddressChanges, KeyKept
<1>6. CASE TrackerReset
  BY <1>6, <1>1, EventFact DEF TrackerReset, KeyKept
<1>7. CASE Listen \/ Bind \/ MapPort \/ DecideRelay \/ DialRelay \/ AwaitCircuit
  BY <1>7 DEF Listen, Bind, MapPort, DecideRelay, DialRelay, AwaitCircuit, KeyKept
<1>8. CASE EnterLoop \/ AnnounceTick \/ Tick
  BY <1>8 DEF EnterLoop, AnnounceTick, Tick, KeyKept
<1>9. CASE AnnounceOne
  <2>1. used' = used \/ Event
    BY <1>9 DEF AnnounceOne
  <2> QED
    BY <2>1, <1>9, <1>1, EventFact DEF AnnounceOne, KeyKept
<1>10. CASE AnnounceDone
  BY <1>10, <1>0 DEF AnnounceDone, KeyKept, TypeOK
<1>11. CASE Kill \/ Stop
  BY <1>11 DEF Kill, Stop, Gone, KeyKept
<1>12. CASE UNCHANGED vars
  BY <1>12 DEF KeyKept
<1> QED
  BY <1>2, <1>3, <1>4, <1>5, <1>6, <1>7, <1>8, <1>9, <1>10, <1>11, <1>12 DEF Next, Work

LEMMA IdsFinite == TypeOK => IsFiniteSet(ids) /\ Cardinality(ids) \in Nat /\ used.cuts \in Nat
<1> SUFFICES ASSUME TypeOK PROVE IsFiniteSet(ids) /\ Cardinality(ids) \in Nat /\ used.cuts \in Nat
  OBVIOUS
<1>1. IsFiniteSet(Seeds)
  BY ConstantsFact, FS_Interval DEF Seeds
<1>2. IsFiniteSet(ids)
  BY <1>1, FS_Subset DEF TypeOK
<1> QED BY <1>2, FS_CardinalityType DEF TypeOK

LEMMA InitLasting == Init => Lasting
<1> SUFFICES ASSUME Init PROVE Lasting
  OBVIOUS
<1>1. Cardinality(ids) = 0
  BY FS_EmptySet DEF Init
<1> QED BY <1>1 DEF Init, Lasting, Fits

LEMMA NextLasting == IndInv /\ Lasting /\ [Next]_vars => Lasting'
<1> SUFFICES ASSUME IndInv, Lasting, [Next]_vars PROVE Lasting'
  OBVIOUS
<1> USE DEF vars, process, disk, clocks, ghosts
<1>0. TypeOK /\ Started /\ IsFiniteSet(ids) /\ Cardinality(ids) \in Nat /\ used.cuts \in Nat
  BY IdsFinite DEF IndInv
<1>1. CASE LoadSeed
  <2>1. CASE Fits(key)
    <3>1. ids' = ids /\ key' = key /\ used' = used /\ pc' = "listen"
      BY <2>1, <1>1 DEF LoadSeed, Spawn, Lasting
    <3> QED BY <2>1, <3>1 DEF Lasting, Fits
  <2>2. CASE ~Fits(key)
    BY <2>2, <1>1 DEF LoadSeed, Lasting, Fits
  <2> QED BY <2>1, <2>2
<1>2. CASE CreateSeed
  <2>1. /\ key' = used.starts /\ ids' = ids \cup {used.starts} /\ used' = used
        /\ pc' = "listen" /\ used.starts \in Seeds /\ Cardinality(ids) <= used.cuts
    BY <1>2, <1>0 DEF CreateSeed, Spawn, Lasting, Started, Down
  <2>2. Cardinality(ids') <= 1 + used.cuts
    <3>1. Cardinality(ids \cup {used.starts}) <= Cardinality(ids) + 1
      BY <1>0, FS_AddElement
    <3>2. Cardinality(ids') = Cardinality(ids \cup {used.starts})
      BY <2>1
    <3>3. Cardinality(ids \cup {used.starts}) \in Nat
      BY <1>0, FS_AddElement, FS_CardinalityType
    <3> QED BY <3>1, <3>2, <3>3, <2>1, <1>0
  <2>3. Fits(key')
    BY <2>1, SeedsFact DEF Fits
  <2> QED BY <2>1, <2>2, <2>3 DEF Lasting, Fits
<1>3. CASE PowerCut
  <2>1. ids' = ids /\ used'.cuts = used.cuts + 1 /\ pc' = "down" /\ key' \in {key, 0}
    BY <1>3, <1>0 DEF PowerCut, Gone, TypeOK
  <2>2. Cardinality(ids) <= 1 + used.cuts
    BY <1>0 DEF Lasting
  <2> QED
    BY <2>1, <2>2, <1>0 DEF Lasting, Fits
<1>4. CASE KeyKept
  BY <1>4 DEF KeyKept, Lasting, Fits
<1> QED
  BY <1>1, <1>2, <1>3, <1>4, KeyChanges

(* Restarting serve keeps the identity unless a power failure took the key *)
(* (load_or_create_seed, write_secret).                                    *)
THEOREM SpecSameIdentity == Spec => []SameIdentity
<1>1. IndInv /\ Lasting => SameIdentity
  <2> SUFFICES ASSUME IndInv, Lasting PROVE SameIdentity
    OBVIOUS
  <2> QED BY IdsFinite DEF IndInv, Lasting, SameIdentity
<1> QED
  BY <1>1, InitIndInv, NextIndInv, InitLasting, NextLasting, PTL DEF Spec

-----------------------------------------------------------------------------
(* The manifests of --all.                                                 *)

Kept ==
    /\ \A r \in steady : registry[r] # "none"
    /\ pc = "collect" /\ args.all => steady \subseteq mine \cup listing
    /\ AllServed

LEMMA InitKept == Init => Kept
BY DEF Init, Kept, AllServed

LEMMA NextKept == IndInv /\ Kept /\ [Next]_vars => Kept'
<1> SUFFICES ASSUME IndInv, Kept, [Next]_vars PROVE Kept'
  OBVIOUS
<1> USE DEF vars, process, disk, clocks, ghosts
<1>0. TypeOK /\ Started /\ Flushed
  BY DEF IndInv
<1>1. CASE Start
  <2>1. steady' = Registered /\ registry' = registry /\ mine' = {}
    BY <1>1 DEF Start
  <2>2. \E a \in Invocations :
           /\ args' = a
           /\ IF a.all <=> a.given # {} THEN pc' = "failed" ELSE pc' = "collect"
           /\ listing' = IF a.all THEN Registered ELSE a.given
    BY <1>1 DEF Start
  <2>3. \A r \in steady' : registry'[r] # "none"
    BY <2>1 DEF Registered
  <2>4. pc' = "collect" /\ args'.all => steady' \subseteq mine' \cup listing'
    BY <2>1, <2>2
  <2>5. AllServed'
    BY <2>2, ConstantsFact DEF AllServed
  <2> QED BY <2>3, <2>4, <2>5 DEF Kept
<1>2. CASE Collect
  <2>1. UNCHANGED <<steady, registry, args, id>> /\ id = None /\ args \in Invocations
    BY <1>2, <1>0 DEF Collect, Started
  <2>2. CASE listing # {}
    <3>1. PICK r \in listing :
             /\ listing' = listing \ {r}
             /\ args.all => pc' = "collect" /\ mine' = ReadEntry(r).mine
             /\ pc' \in {"collect", "failed"}
      BY <1>2, <2>2, <2>1 DEF Collect, ReadEntry
    <3>2. ASSUME args.all PROVE steady' \subseteq mine' \cup listing' /\ pc' = "collect"
      <4>1. steady \subseteq mine \cup listing /\ steady \subseteq Roots
        BY <3>2, <1>2, <1>0 DEF Kept, Collect, TypeOK
      <4>2. mine' = IF registry[r] \in {"whole", "soft"} THEN mine \cup {r} ELSE mine
        BY <3>1, <3>2 DEF ReadEntry
      <4>3. r \in steady => registry[r] = "whole"
        BY <4>1, <1>0 DEF Kept, Flushed
      <4> QED BY <4>1, <4>2, <4>3, <3>1, <3>2, <2>1
    <3> QED BY <3>1, <3>2, <2>1 DEF Kept, AllServed
  <2>3. CASE listing = {}
    <3>1. mine' = mine /\ pc' = IF mine = {} THEN "failed" ELSE "register"
      BY <1>2, <2>3 DEF Collect
    <3>2. args.all => steady \subseteq mine
      BY <1>2, <2>3 DEF Kept, Collect
    <3> QED BY <3>1, <3>2, <2>1 DEF Kept, AllServed
  <2> QED BY <2>2, <2>3
<1>3. CASE Register
  <2>1. UNCHANGED <<steady, mine, args, id>> /\ pc' \in {"register", "seed"} /\ pc = "register"
    BY <1>3 DEF Register
  <2>2. \/ UNCHANGED registry
        \/ \E r \in Roots : registry' = [registry EXCEPT ![r] = "whole"]
    BY <1>3, <1>0 DEF TypeOK, Register, InPlace
  <2>3. \A r \in steady' : registry'[r] # "none"
    BY <2>1, <2>2, <1>0 DEF Kept, TypeOK
  <2> QED BY <2>1, <2>3 DEF Kept, AllServed
<1>4. CASE Other
  <2>1. UNCHANGED <<pc, args, mine, listing, id>> /\ steady' \subseteq steady
    BY <1>4 DEF Other
  <2>2. \A r \in steady' : registry'[r] # "none"
    BY <1>4, <1>0 DEF Other, Kept, TypeOK
  <2> QED BY <2>1, <2>2 DEF Kept, AllServed
<1>5. CASE LoadSeed \/ CreateSeed
  BY <1>5 DEF LoadSeed, CreateSeed, Spawn, Kept, AllServed
<1>6. CASE DialRelay
  <2>1. id # None
    BY <1>6, <1>0, SeedsFact DEF DialRelay, Started, Spawned
  <2> QED BY <1>6, <2>1 DEF DialRelay, Kept, AllServed
<1>7. CASE Listen \/ Bind \/ MapPort \/ DecideRelay \/ AwaitCircuit \/ AddressChanges
  BY <1>7 DEF Listen, Bind, MapPort, DecideRelay, AwaitCircuit, AddressChanges, Loop, Kept, AllServed
<1>8. CASE EnterLoop
  BY <1>8 DEF EnterLoop, Kept, AllServed
<1>9. CASE AnnounceTick \/ AnnounceOne \/ Tick \/ TrackerReset
  BY <1>9 DEF AnnounceTick, AnnounceOne, Tick, TrackerReset, Kept, AllServed
<1>10. CASE AnnounceDone
  BY <1>10, <1>0 DEF AnnounceDone, TypeOK, Kept, AllServed
<1>11. CASE Kill \/ Stop \/ PowerCut
  BY <1>11 DEF Kill, Stop, PowerCut, Gone, Kept, AllServed
<1>12. CASE UNCHANGED vars
  BY <1>12 DEF Kept, AllServed
<1> QED
  BY <1>1, <1>2, <1>3, <1>4, <1>5, <1>6, <1>7, <1>8, <1>9, <1>10, <1>11, <1>12 DEF Next, Work

(* serve --all serves what was registered before it started and stays      *)
(* (collect_serve_manifests skips an entry that is gone by the time it is  *)
(* read, and only that one).                                               *)
THEOREM SpecAllServed == Spec => []AllServed
<1>1. Kept => AllServed
  BY DEF Kept
<1> QED
  BY <1>1, InitIndInv, NextIndInv, InitKept, NextKept, PTL DEF Spec

-----------------------------------------------------------------------------
(* The announcements.                                                      *)

(* The round of announcements that r is due for has not reached it yet.    *)
Pending(r) == \/ pc = "idle" /\ until <= 0
              \/ pc = "announce" /\ r \in todo.roots

(* The tracker's entry is as old as what was missed since it was made,     *)
(* and one period more while an announcement is pending.                   *)
Fresh(r) ==
    missed[r] < Ttl => table[id][r].age <= missed[r] + (IF Pending(r) THEN 1 ELSE 0)

Heard ==
    /\ args # None /\ ~args.tracker => \A r \in Roots : missed[r] = Ttl
    /\ pc \notin Loop \cup {"loop"} => \A r \in Roots : missed[r] = Ttl
    /\ pc \in Loop \cup {"loop"} => \A r \in mine : Fresh(r)

(* Nothing is known to the tracker that has not been missed.               *)
LEMMA MissedAll ==
    ASSUME TypeOK', \A r \in Roots : missed'[r] = Ttl
    PROVE  Heard'
<1>1. \A r \in mine' : missed'[r] = Ttl
  BY DEF TypeOK
<1>2. Ttl \in Nat
  BY ConstantsFact
<1> QED BY <1>1, <1>2 DEF Heard, Fresh

LEMMA InitHeard == Init => Heard
BY ConstantsFact DEF Init, Heard, Fresh, Loop

LEMMA NextHeard == IndInv /\ IndInv' /\ Heard /\ [Next]_vars => Heard'
<1> SUFFICES ASSUME IndInv, IndInv', Heard, [Next]_vars PROVE Heard'
  OBVIOUS
<1> USE DEF vars, process, disk, clocks, ghosts
<1>0. TypeOK /\ TypeOK' /\ Started
  BY DEF IndInv
<1>1. CASE \/ Start \/ Kill \/ Stop \/ PowerCut \/ TrackerReset
  <2>1. missed' = [r \in Roots |-> Ttl]
    BY <1>1 DEF Start, Kill, Stop, PowerCut, TrackerReset, Gone
  <2> QED BY <2>1, <1>0, MissedAll
<1>2. CASE \/ Collect \/ Register \/ LoadSeed \/ CreateSeed \/ Listen \/ MapPort \/ DecideRelay
           \/ DialRelay \/ AwaitCircuit
  <2>1. missed' = missed /\ pc \notin Loop \cup {"loop"}
    BY <1>2 DEF Collect, Register, LoadSeed, CreateSeed, Listen, MapPort, DecideRelay, DialRelay,
                AwaitCircuit, Loop
  <2> QED BY <2>1, <1>0, MissedAll DEF Heard
<1>3. CASE Other \/ Bind \/ AddressChanges \/ UNCHANGED vars
  <2>1. UNCHANGED <<pc, args, mine, id, missed, table, until, todo>>
    BY <1>3 DEF Other, Bind, AddressChanges
  <2> QED BY <2>1 DEF Heard, Fresh, Pending
<1>4. CASE EnterLoop
  <2>1. UNCHANGED <<args, mine, id, missed, table>> /\ pc = "loop" /\ pc' = "idle" /\ until' = 0
    BY <1>4 DEF EnterLoop
  <2>2. ASSUME NEW r \in mine', missed'[r] < Ttl
        PROVE  table'[id'][r].age <= missed'[r] + 1
    <3>1. table[id][r].age <= missed[r]
      BY <2>1, <2>2, <1>0 DEF Heard, Fresh, Pending, TypeOK
    <3>2. table[id][r].age \in Nat /\ missed[r] \in Nat
      BY <2>1, <2>2, <1>0, ConstantsFact DEF TypeOK, Started, Spawned
    <3> QED BY <3>1, <3>2, <2>1
  <2> QED BY <2>1, <2>2 DEF Heard, Fresh, Pending, Loop
<1>5. CASE AnnounceTick
  <2>1. /\ UNCHANGED <<args, mine, id, missed, table>> /\ pc = "idle" /\ pc' = "announce"
        /\ until <= 0 /\ todo'.roots = mine
    BY <1>5 DEF AnnounceTick, Due, Round
  <2> QED BY <2>1 DEF Heard, Fresh, Pending, Loop
<1>6. CASE AnnounceOne
  <2>1. PICK r \in todo.roots :
           /\ todo' = [todo EXCEPT !.roots = @ \ {r}]
           /\ \/ table' = Stored(id, r, todo.addrs) /\ missed' = [missed EXCEPT ![r] = 0]
              \/ missed' = [missed EXCEPT ![r] = IF @ < Ttl THEN @ + 1 ELSE @] /\ table' = table
    BY <1>6 DEF AnnounceOne
  <2>2. /\ UNCHANGED <<pc, args, mine, id, until>> /\ pc = "announce" /\ id \in Seeds
        /\ r \in Roots /\ mine \subseteq Roots /\ args.tracker
    BY <1>6, <1>0, <2>1 DEF AnnounceOne, TypeOK, Started, Spawned, Loop
  <2>3. table \in [Seeds -> [Roots -> [age : 0 .. Ttl, addrs : SUBSET Addresses]]]
    BY <1>0 DEF TypeOK
  <2>4. todo.addrs \in SUBSET Addresses
    BY <1>0 DEF TypeOK
  <2>5. /\ Stored(id, r, todo.addrs)[id][r] = [age |-> 0, addrs |-> todo.addrs]
        /\ \A s \in Roots \ {r} : Stored(id, r, todo.addrs)[id][s] = table[id][s]
    BY <2>2, <2>4, <1>0, StoredFact
  <2>6. missed \in [Roots -> 0 .. Ttl] /\ Ttl \in Nat
    BY <1>0, ConstantsFact DEF TypeOK
  <2>7. ASSUME NEW s \in mine PROVE Fresh(s)'
    <3>1. s \in Roots /\ Fresh(s)
      BY <2>2 DEF Heard, Loop
    <3>2. CASE s # r
      <4>1. table'[id][s] = table[id][s]
        BY <2>1, <2>5, <3>1, <3>2
      <4>2. missed'[s] = missed[s] /\ (Pending(s)' <=> Pending(s))
        BY <2>1, <2>2, <2>6, <3>1, <3>2, <1>0 DEF Pending, TypeOK
      <4> QED BY <4>1, <4>2, <3>1, <2>2 DEF Fresh
    <3>3. CASE s = r /\ table' = Stored(id, r, todo.addrs) /\ missed' = [missed EXCEPT ![r] = 0]
      <4>1. table'[id][r].age = 0
        BY <3>3, <2>5
      <4> QED BY <4>1, <3>3, <2>2, <2>6 DEF Fresh
    <3>4. CASE s = r /\ missed' = [missed EXCEPT ![r] = IF @ < Ttl THEN @ + 1 ELSE @] /\ table' = table
      <4>1. ASSUME missed'[r] < Ttl PROVE table[id][r].age <= missed'[r]
        <5>1. missed[r] < Ttl /\ missed'[r] = missed[r] + 1
          BY <3>4, <4>1, <2>2, <2>6
        <5>2. Pending(r)
          BY <2>1, <2>2 DEF Pending
        <5> QED BY <5>1, <5>2, <3>1, <3>4 DEF Fresh
      <4>2. table[id][r].age \in Nat /\ missed'[r] \in Nat
        BY <2>2, <2>3, <1>0, ConstantsFact DEF TypeOK
      <4> QED BY <4>1, <4>2, <3>4, <2>2 DEF Fresh
    <3> QED BY <3>2, <3>3, <3>4, <2>1
  <2> QED BY <2>2, <2>7, <1>0 DEF Heard, Loop, Started
<1>7. CASE AnnounceDone
  <2>1. /\ UNCHANGED <<args, mine, id, missed, table>> /\ pc = "announce" /\ todo.roots = {}
        /\ pc' \in {"idle", "loop"}
    BY <1>7, <1>0 DEF AnnounceDone, TypeOK
  <2>2. ASSUME NEW r \in mine PROVE Fresh(r)'
    <3>1. missed[r] < Ttl => table[id][r].age <= missed[r]
      BY <2>1, <1>0, ConstantsFact DEF Heard, Fresh, Pending, Loop, TypeOK
    <3>2. table[id][r].age \in Nat /\ missed[r] \in Nat
      BY <2>1, <1>0, ConstantsFact DEF TypeOK, Started, Spawned, Loop
    <3> QED BY <3>1, <3>2, <2>1 DEF Fresh
  <2> QED BY <2>1, <2>2 DEF Heard, Loop
<1>8. CASE Tick
  <2>1. CASE \A r \in Roots : missed[r] = Ttl
    <3>1. \A r \in Roots : missed'[r] = Ttl
      BY <1>8, <2>1, <1>0, ConstantsFact DEF Tick, TypeOK
    <3> QED BY <3>1, <1>0, MissedAll
  <2>2. CASE pc \in Loop /\ args.tracker
    <3>1. /\ UNCHANGED <<pc, args, mine, id, todo>> /\ id \in Seeds /\ mine \subseteq Roots
          /\ table' = [i \in Seeds |-> [r \in Roots |-> Older(table[i][r])]]
      BY <1>8, <2>2, <1>0 DEF Tick, TypeOK, Started, Spawned
    <3>2. ASSUME NEW r \in mine PROVE Fresh(r)'
      <4>1. /\ table[id][r] \in [age : 0 .. Ttl, addrs : SUBSET Addresses]
            /\ missed[r] \in Nat /\ table[id][r].age \in Nat
        BY <3>1, <1>0, ConstantsFact DEF TypeOK
      <4>2. table'[id'][r].age <= table[id][r].age + 1 /\ table'[id'][r].age \in Nat
        BY <4>1, <3>1, OlderFact, ConstantsFact
      <4>3. CASE pc = "announce"
        <5>1. missed'[r] = IF missed[r] < Ttl THEN missed[r] + 1 ELSE Ttl
          BY <4>3, <1>8, <3>1 DEF Tick
        <5>2. Pending(r)' <=> Pending(r)
          BY <4>3, <3>1 DEF Pending
        <5>3. Fresh(r)
          BY <2>2 DEF Heard
        <5> QED BY <4>1, <4>2, <5>1, <5>2, <5>3, ConstantsFact DEF Fresh
      <4>4. CASE pc = "idle"
        <5>1. missed' = missed /\ until = 1 /\ until' = 0
          BY <4>4, <1>8, <1>0, <2>2, ConstantsFact DEF Tick, TypeOK, Period, Loop
        <5>2. ~Pending(r) /\ Pending(r)'
          BY <4>4, <5>1, <3>1 DEF Pending
        <5>3. Fresh(r)
          BY <2>2 DEF Heard
        <5> QED BY <4>1, <4>2, <5>1, <5>2, <5>3 DEF Fresh
      <4> QED BY <4>3, <4>4, <2>2 DEF Loop
    <3> QED BY <3>1, <3>2, <2>2 DEF Heard
  <2>3. pc \in Loop => args # None
    BY <1>0, ConstantsFact DEF Started, Loop
  <2>4. pc \in Loop \/ pc \notin Loop \cup {"loop"}
    BY <1>8 DEF Tick, Down, Loop
  <2> QED BY <2>1, <2>2, <2>3, <2>4 DEF Heard
<1> QED
  BY <1>1, <1>2, <1>3, <1>4, <1>5, <1>6, <1>7, <1>8 DEF Next, Work

(* A node that is up stays listed by the tracker (announce_interval,       *)
(* TTL_SECONDS): what ages its entry is a missed announcement.             *)
THEOREM SpecLiveStaysListed == Spec => []LiveStaysListed
<1>1. IndInv /\ Heard => LiveStaysListed
  <2> SUFFICES ASSUME IndInv, Heard, pc \in Loop, NEW r \in mine, missed[r] + 1 < Ttl
               PROVE  Listed(id, r)
    BY DEF LiveStaysListed
  <2>1. table[id][r].age \in Nat /\ missed[r] \in Nat /\ Ttl \in Nat
    BY ConstantsFact DEF IndInv, TypeOK, Started, Spawned
  <2>2. Fresh(r)
    BY DEF Heard
  <2> QED BY <2>1, <2>2 DEF Fresh, Listed
<1> QED
  BY <1>1, InitIndInv, NextIndInv, InitHeard, NextHeard, PTL DEF Spec
=============================================================================
