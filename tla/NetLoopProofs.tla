--------------------------- MODULE NetLoopProofs ---------------------------
(***************************************************************************)
(* Proofs about NetLoop for any callers, peers, roots and bounds.          *)
(***************************************************************************)
EXTENDS NetLoop, FiniteSetTheorems, TLAPS

(* The types, of what callers are told included.                           *)
Values == Peers \cup Roots \cup BOOLEAN
Answers == Seq(Peers) \cup Roots \cup BOOLEAN \cup {None}
QueryOps == Queries \cup {"internal"}
CallType == [state : {"sending", "waiting", "returned"}, op : Ops \cup {None}, root : Roots \cup {None},
             id : Nat \cup {None}, answer : Answers]
CmdType == [op : Ops, root : Roots, who : Callers]
QueryType == [op : QueryOps, events : Seq(Values), over : BOOLEAN]
WaitType == [op : QueryOps, who : Callers \cup {None}, acc : Seq(Peers)]

Count == Cardinality(DOMAIN swarm)

Typed ==
    /\ calls \in [Callers -> CallType]
    /\ chan \in Seq(CmdType)
    /\ loop \in {"running", "ended"} /\ handles \in BOOLEAN
    /\ Count \in Nat /\ swarm \in [1 .. Count -> QueryType]
    /\ pending \in [DOMAIN pending -> WaitType] /\ DOMAIN pending \subseteq 1 .. Count
    /\ provided \subseteq Roots

Distinct(s) == \A i, j \in DOMAIN s : s[i] = s[j] => i = j

(* A caller with a command in the channel waits for it, and has no other   *)
(* there that is to be answered.                                           *)
Awaited == Queries \cup Instant
ChanMatched ==
    /\ \A i \in DOMAIN chan : chan[i].op \in Awaited =>
          LET k == calls[chan[i].who] IN k.state = "waiting" /\ k.op = chan[i].op /\ k.id = None
    /\ \A i, j \in DOMAIN chan :
          chan[i].op \in Awaited /\ chan[j].op \in Awaited /\ chan[i].who = chan[j].who => i = j

(* An entry is of a query that runs and of a caller that waits for it, and *)
(* holds what the query has found.                                         *)
EntryMatched(q) ==
    /\ ~swarm[q].over /\ pending[q].op = swarm[q].op
    /\ pending[q].op \in Queries =>
          /\ pending[q].who \in Callers
          /\ LET k == calls[pending[q].who] IN k.state = "waiting" /\ k.id = q /\ k.op = pending[q].op
    /\ pending[q].op = "find" => ToSet(pending[q].acc) = ToSet(swarm[q].events) /\ Distinct(pending[q].acc)
    /\ pending[q].op \in Queries \ {"find"} => swarm[q].events = <<>>

(* A query that runs has its entry; only a get may have been answered.     *)
QueryMatched(q) == ~swarm[q].over /\ swarm[q].op # "get" => q \in DOMAIN pending

(* What c was told, of the query q, is right.                              *)
Right(c, q) ==
    /\ calls[c].op = "find" =>
          q.over /\ ToSet(calls[c].answer) = ToSet(q.events) /\ Distinct(calls[c].answer)
             /\ calls[c].answer \in Seq(Peers)
    /\ calls[c].op = "get" =>
          IF q.events = <<>> THEN q.over /\ calls[c].answer = None ELSE calls[c].answer = q.events[1]
    /\ calls[c].op \in {"put", "request"} => calls[c].answer = q.events[1] /\ q.over

CallMatched(c) ==
    /\ calls[c].state = "sending" => calls[c].id = None /\ calls[c].op \in Ops /\ calls[c].root \in Roots
    /\ loop = "running" /\ calls[c].id # None =>
          /\ calls[c].id \in 1 .. Count /\ swarm[calls[c].id].op = calls[c].op
          /\ calls[c].state = "returned" => Right(c, swarm[calls[c].id])

Ended == loop = "ended" => Count = 0 /\ ~handles /\ chan = <<>>
Unheld == ~handles => \A c \in Callers : calls[c].state = "returned"

IndInv ==
    /\ Typed /\ ChanMatched /\ Ended /\ Unheld
    /\ \A q \in DOMAIN pending : EntryMatched(q)
    /\ \A q \in 1 .. Count : QueryMatched(q)
    /\ \A c \in Callers : CallMatched(c)

-----------------------------------------------------------------------------
(* Sequences and maps.                                                     *)

LEMMA ConstantsFact ==
    /\ IsFiniteSet(Callers) /\ IsFiniteSet(Peers)
    /\ None \notin Callers /\ None \notin Roots /\ None \notin Nat
    /\ QueueSize \in Nat /\ MaxIds \in Nat /\ MaxFound \in Nat
BY NetLoopAssumption

LEMMA SetToSeqFact ==
    ASSUME NEW S, IsFiniteSet(S)
    PROVE  SetToSeq(S) \in Seq(S) /\ ToSet(SetToSeq(S)) = S /\ Distinct(SetToSeq(S))
<1>1. Cardinality(S) \in Nat /\ ExistsBijection(1 .. Cardinality(S), S)
  BY FS_CardinalityType
<1>2. PICK f \in [1 .. Cardinality(S) -> S] : IsInjective(f)
  BY <1>1 DEF ExistsBijection, Bijection, Injection, IsInjective
<1>3. SetToSeq(S) \in [1 .. Cardinality(S) -> S] /\ IsInjective(SetToSeq(S))
  BY <1>2 DEF SetToSeq
<1>4. SetToSeq(S) \in Injection(1 .. Cardinality(S), S)
  BY <1>3 DEF Injection, IsInjective
<1>5. IsFiniteSet(1 .. Cardinality(S)) /\ Cardinality(1 .. Cardinality(S)) = Cardinality(S)
  BY <1>1, FS_Interval
<1>6. SetToSeq(S) \in Surjection(1 .. Cardinality(S), S)
  BY <1>4, <1>5, FS_Injection
<1>7. ToSet(SetToSeq(S)) = S
  BY <1>3, <1>6 DEF Surjection, ToSet
<1>8. SetToSeq(S) \in Seq(S)
  BY <1>1, <1>3
<1> QED BY <1>3, <1>7, <1>8 DEF IsInjective, Distinct

LEMMA ConcatFact ==
    ASSUME NEW S, NEW s \in Seq(S), NEW t \in Seq(S)
    PROVE  /\ s \o t \in Seq(S) /\ ToSet(s \o t) = ToSet(s) \cup ToSet(t)
           /\ Distinct(s) /\ Distinct(t) /\ ToSet(s) \cap ToSet(t) = {} => Distinct(s \o t)
<1>1. /\ s \o t \in Seq(S) /\ Len(s) \in Nat /\ Len(t) \in Nat
      /\ DOMAIN s = 1 .. Len(s) /\ DOMAIN t = 1 .. Len(t) /\ DOMAIN (s \o t) = 1 .. Len(s) + Len(t)
      /\ \A i \in 1 .. Len(s) : (s \o t)[i] = s[i]
      /\ \A i \in Len(s) + 1 .. Len(s) + Len(t) : (s \o t)[i] = t[i - Len(s)]
  OBVIOUS
<1>2. \A i \in 1 .. Len(s) + Len(t) :
         i \in 1 .. Len(s) \/ (i \in Len(s) + 1 .. Len(s) + Len(t) /\ i - Len(s) \in 1 .. Len(t))
  BY <1>1
<1>3. \A i \in 1 .. Len(t) : i + Len(s) \in Len(s) + 1 .. Len(s) + Len(t) /\ (i + Len(s)) - Len(s) = i
  BY <1>1
<1>4. ToSet(s \o t) \subseteq ToSet(s) \cup ToSet(t)
  BY <1>1, <1>2 DEF ToSet
<1>5. ToSet(s) \subseteq ToSet(s \o t)
  BY <1>1 DEF ToSet
<1>6. ToSet(t) \subseteq ToSet(s \o t)
  <2> SUFFICES ASSUME NEW i \in 1 .. Len(t) PROVE t[i] \in ToSet(s \o t)
    BY <1>1 DEF ToSet
  <2>1. (s \o t)[i + Len(s)] = t[i] /\ i + Len(s) \in DOMAIN (s \o t)
    BY <1>1, <1>3
  <2> QED BY <2>1 DEF ToSet
<1>7. ASSUME Distinct(s), Distinct(t), ToSet(s) \cap ToSet(t) = {} PROVE Distinct(s \o t)
  <2> SUFFICES ASSUME NEW i \in 1 .. Len(s) + Len(t), NEW j \in 1 .. Len(s) + Len(t),
                      (s \o t)[i] = (s \o t)[j]
               PROVE  i = j
    BY <1>1 DEF Distinct
  <2>1. \A a \in 1 .. Len(s), b \in 1 .. Len(t) : s[a] # t[b]
    BY <1>1, <1>7 DEF ToSet
  <2>2. CASE i \in 1 .. Len(s) /\ j \in 1 .. Len(s)
    BY <2>2, <1>1, <1>7 DEF Distinct
  <2>3. CASE i \notin 1 .. Len(s) /\ j \notin 1 .. Len(s)
    <3>1. i - Len(s) = j - Len(s)
      BY <2>3, <1>1, <1>2, <1>7 DEF Distinct
    <3> QED BY <3>1, <1>1
  <2> QED BY <2>1, <2>2, <2>3, <1>1, <1>2
<1> QED BY <1>1, <1>4, <1>5, <1>6, <1>7

LEMMA DistinctLen ==
    ASSUME NEW S, NEW s \in Seq(S), Distinct(s)
    PROVE  Len(s) = Cardinality(ToSet(s))
<1>1. Len(s) \in Nat /\ DOMAIN s = 1 .. Len(s) /\ s \in [1 .. Len(s) -> S]
  OBVIOUS
<1>2. IsFiniteSet(1 .. Len(s)) /\ Cardinality(1 .. Len(s)) = Len(s)
  BY <1>1, FS_Interval
<1>3. s \in Bijection(1 .. Len(s), ToSet(s))
  <2>1. s \in [1 .. Len(s) -> ToSet(s)]
    BY <1>1 DEF ToSet
  <2>2. s \in Injection(1 .. Len(s), ToSet(s))
    BY <2>1, <1>1 DEF Injection, IsInjective, Distinct
  <2>3. s \in Surjection(1 .. Len(s), ToSet(s))
    BY <2>1, <1>1 DEF Surjection, ToSet
  <2> QED BY <2>2, <2>3 DEF Bijection
<1> QED BY <1>2, <1>3, FS_Bijection DEF ExistsBijection

LEMMA AddFoundFact ==
    ASSUME NEW acc \in Seq(Peers), Distinct(acc), NEW found \in SUBSET Peers
    PROVE  /\ AddFound(acc, found) \in Seq(Peers) /\ Distinct(AddFound(acc, found))
           /\ ToSet(AddFound(acc, found)) = ToSet(acc) \cup found
           /\ SetToSeq(found) \in Seq(Peers) /\ ToSet(SetToSeq(found)) = found
<1>1. IsFiniteSet(found) /\ IsFiniteSet(found \ ToSet(acc))
  BY ConstantsFact, FS_Subset
<1>2. SetToSeq(found) \in Seq(found) /\ ToSet(SetToSeq(found)) = found
  BY <1>1, SetToSeqFact
<1> DEFINE S == found \ ToSet(acc)
<1>3. SetToSeq(S) \in Seq(S) /\ ToSet(SetToSeq(S)) = S /\ Distinct(SetToSeq(S))
  BY <1>1, SetToSeqFact
<1>4. SetToSeq(S) \in Seq(Peers) /\ SetToSeq(found) \in Seq(Peers)
  BY <1>2, <1>3
<1>5. ToSet(acc) \cap ToSet(SetToSeq(S)) = {}
  BY <1>3
<1>6. ToSet(acc) \cup S = ToSet(acc) \cup found
  OBVIOUS
<1> HIDE DEF S
<1>7. /\ acc \o SetToSeq(S) \in Seq(Peers) /\ Distinct(acc \o SetToSeq(S))
      /\ ToSet(acc \o SetToSeq(S)) = ToSet(acc) \cup S
  BY <1>3, <1>4, <1>5, ConcatFact
<1> QED BY <1>2, <1>4, <1>6, <1>7 DEF AddFound, S

-----------------------------------------------------------------------------
(* What the steps do to the maps.                                          *)

LEMMA BeginFact ==
    ASSUME Typed, NEW op \in QueryOps, swarm' = Begin(op)
    PROVE  /\ Count' = Count + 1 /\ swarm' \in [1 .. Count' -> QueryType]
           /\ swarm'[Count + 1] = [op |-> op, events |-> <<>>, over |-> FALSE]
           /\ \A q \in 1 .. Count : swarm'[q] = swarm[q]
<1> DEFINE v == [op |-> op, events |-> <<>>, over |-> FALSE]
<1>1. v \in QueryType
  BY DEF QueryType
<1>2. Count \in Nat /\ swarm \in [1 .. Count -> QueryType] /\ DOMAIN swarm = 1 .. Count
  BY DEF Typed
<1>3. swarm' = [y \in DOMAIN swarm \cup {Count + 1} |-> IF y = Count + 1 THEN v ELSE swarm[y]]
  BY DEF Begin, With, NextId, Count
<1> HIDE DEF v, Count
<1>4. (1 .. Count) \cup {Count + 1} = 1 .. Count + 1
  BY <1>2
<1>5. swarm' = [y \in 1 .. Count + 1 |-> IF y = Count + 1 THEN v ELSE swarm[y]]
  BY <1>2, <1>3, <1>4
<1>6. Cardinality(1 .. Count + 1) = Count + 1
  BY <1>2, FS_Interval
<1>7. DOMAIN swarm' = 1 .. Count + 1
  BY <1>5
<1>8. Count' = Count + 1
  BY <1>6, <1>7 DEF Count
<1>9. swarm' \in [1 .. Count + 1 -> QueryType]
  BY <1>1, <1>2, <1>5
<1>10. swarm'[Count + 1] = v
  BY <1>2, <1>5
<1>11. \A q \in 1 .. Count : q \in 1 .. Count + 1 /\ q # Count + 1
  BY <1>2
<1>12. \A q \in 1 .. Count : swarm'[q] = swarm[q]
  BY <1>5, <1>11
<1> QED
  BY <1>8, <1>9, <1>10, <1>12 DEF v

LEMMA WaitFact ==
    ASSUME Typed, NEW op \in QueryOps, NEW who \in Callers \cup {None}, pending' = Wait(op, who)
    PROVE  /\ pending' \in [DOMAIN pending' -> WaitType]
           /\ DOMAIN pending' = DOMAIN pending \cup {Count + 1}
           /\ pending'[Count + 1] = [op |-> op, who |-> who, acc |-> <<>>]
           /\ \A q \in DOMAIN pending : q # Count + 1 /\ pending'[q] = pending[q]
<1> DEFINE v == [op |-> op, who |-> who, acc |-> <<>>]
<1>1. v \in WaitType
  BY DEF WaitType
<1>2. Count \in Nat /\ pending \in [DOMAIN pending -> WaitType] /\ DOMAIN pending \subseteq 1 .. Count
  BY DEF Typed
<1>3. pending' = [y \in DOMAIN pending \cup {Count + 1} |-> IF y = Count + 1 THEN v ELSE pending[y]]
  BY DEF Wait, With, NextId, Count
<1> HIDE DEF v, Count
<1>4. \A q \in DOMAIN pending : q # Count + 1
  BY <1>2
<1> QED BY <1>1, <1>2, <1>3, <1>4 DEF v

LEMMA HappensFact ==
    ASSUME Typed, NEW q \in 1 .. Count, NEW results \in Seq(Values), NEW last \in BOOLEAN,
           Happens(q, results, last)
    PROVE  /\ Count' = Count /\ swarm' \in [1 .. Count -> QueryType]
           /\ swarm'[q].op = swarm[q].op /\ swarm'[q].events = swarm[q].events \o results
           /\ swarm'[q].over = last
           /\ \A p \in (1 .. Count) \ {q} : swarm'[p] = swarm[p]
<1> DEFINE v == [swarm[q] EXCEPT !.events = @ \o results, !.over = last]
<1>1. swarm \in [1 .. Count -> QueryType] /\ swarm[q] \in QueryType
  BY DEF Typed
<1>2. swarm[q].events \o results \in Seq(Values)
  BY <1>1 DEF QueryType
<1>3. v \in QueryType
  BY <1>1, <1>2 DEF QueryType
<1>4. v.op = swarm[q].op /\ v.events = swarm[q].events \o results /\ v.over = last
  BY <1>1 DEF QueryType
<1>5. swarm' = [swarm EXCEPT ![q] = v]
  BY DEF Happens
<1> HIDE DEF v
<1>6. DOMAIN swarm' = DOMAIN swarm
  BY <1>5
<1>7. Count' = Count
  BY <1>6 DEF Count
<1> HIDE DEF Count
<1> QED BY <1>1, <1>3, <1>4, <1>5, <1>7

(* Who is told what.                                                       *)
Told(c, answer) ==
    /\ calls' \in [Callers -> CallType]
    /\ calls'[c].state = "returned" /\ calls'[c].answer = answer
    /\ calls'[c].op = calls[c].op /\ calls'[c].id = calls[c].id
    /\ \A d \in Callers \ {c} : calls'[d] = calls[d]

LEMMA ReplyFact ==
    ASSUME Typed, NEW c \in Callers, NEW answer \in Answers, calls' = Reply(c, answer)
    PROVE  Told(c, answer)
<1>1. calls \in [Callers -> CallType] /\ calls[c] \in CallType
  BY DEF Typed
<1>2. [calls[c] EXCEPT !.state = "returned", !.answer = answer] \in CallType
  BY <1>1 DEF CallType
<1>3. calls' = [calls EXCEPT ![c] = [calls[c] EXCEPT !.state = "returned", !.answer = answer]]
  BY DEF Reply
<1> QED BY <1>1, <1>2, <1>3 DEF CallType, Told

LEMMA CmdFact ==
    ASSUME chan \in Seq(CmdType), NEW i \in DOMAIN chan
    PROVE  chan[i].who \in Callers /\ chan[i].op \in Ops /\ chan[i].root \in Roots
<1>1. chan[i] \in CmdType
  OBVIOUS
<1> QED BY <1>1 DEF CmdType

LEMMA DroppedFact ==
    ASSUME Typed, NEW q, pending' = Restrict(pending, DOMAIN pending \ {q})
    PROVE  /\ pending' \in [DOMAIN pending' -> WaitType] /\ DOMAIN pending' = DOMAIN pending \ {q}
           /\ \A p \in DOMAIN pending' : pending'[p] = pending[p]
BY DEF Restrict, Typed

-----------------------------------------------------------------------------
(* Events of queries.                                                      *)

(* While its entry is there nobody has been told of a query.               *)
LEMMA NotToldYet ==
    ASSUME IndInv, loop = "running", NEW q \in DOMAIN pending, swarm[q].op \in Queries,
           NEW c \in Callers, calls[c].id = q
    PROVE  calls[c].state # "returned"
<1>1. EntryMatched(q) /\ CallMatched(c) /\ q \in 1 .. Count /\ q # None
  BY ConstantsFact DEF IndInv, Typed
<1>2. ~swarm[q].over /\ (swarm[q].op # "find" => swarm[q].events = <<>>)
  BY <1>1 DEF EntryMatched
<1> QED BY <1>1, <1>2 DEF CallMatched, Right, Queries

LEMMA EventAnswers ==
    ASSUME IndInv, loop = "running", NEW q \in DOMAIN pending, swarm[q].op \in Queries,
           NEW answer \in Answers, NEW results \in Seq(Values), NEW last \in BOOLEAN,
           Answered(q, answer), Happens(q, results, last),
           UNCHANGED <<chan, loop, handles, provided>>,
           swarm[q].op # "get" => last,
           swarm[q].op = "find" =>
              /\ ToSet(answer) = ToSet(swarm[q].events \o results) /\ Distinct(answer)
              /\ answer \in Seq(Peers),
           swarm[q].op = "get" => IF results = <<>> THEN last /\ answer = None ELSE answer = results[1],
           swarm[q].op \in {"put", "request"} => results # <<>> /\ answer = results[1]
    PROVE  IndInv'
<1> PICK who : who = pending[q].who
  OBVIOUS
<1>1. Typed /\ EntryMatched(q) /\ q \in 1 .. Count /\ q # None
  BY ConstantsFact DEF IndInv, Typed
<1>2. /\ who \in Callers /\ calls[who].state = "waiting" /\ calls[who].id = q
      /\ calls[who].op = swarm[q].op
  BY <1>1 DEF EntryMatched
<1>3. calls' = Reply(who, answer) /\ pending' = Restrict(pending, DOMAIN pending \ {q})
  BY DEF Answered
<1>4. Told(who, answer)
  BY <1>1, <1>2, <1>3, ReplyFact
<1>5. /\ pending' \in [DOMAIN pending' -> WaitType] /\ DOMAIN pending' = DOMAIN pending \ {q}
      /\ \A p \in DOMAIN pending' : pending'[p] = pending[p]
  BY <1>1, <1>3, DroppedFact
<1>6. /\ Count' = Count /\ swarm' \in [1 .. Count -> QueryType]
      /\ swarm'[q].op = swarm[q].op /\ swarm'[q].events = swarm[q].events \o results
      /\ swarm'[q].over = last
      /\ \A p \in (1 .. Count) \ {q} : swarm'[p] = swarm[p]
  BY <1>1, HappensFact
<1> HIDE DEF Count
<1>7. Typed'
  BY <1>1, <1>4, <1>5, <1>6 DEF Typed, Told
<1>8. ChanMatched'
  <2>1. ChanMatched /\ chan \in Seq(CmdType)
    BY <1>1 DEF IndInv, Typed
  <2>2. \A i \in DOMAIN chan : chan[i].who \in Callers
    BY <2>1, CmdFact
  <2>3. \A i \in DOMAIN chan : chan[i].op \in Awaited => chan[i].who # who
    BY <2>1, <1>1, <1>2 DEF ChanMatched
  <2> QED BY <2>1, <2>2, <2>3, <1>4 DEF ChanMatched, Told
<1>9. Ended' /\ Unheld'
  BY <1>2, <1>4 DEF IndInv, Ended, Unheld, Told
<1>10. ASSUME NEW p \in DOMAIN pending' PROVE EntryMatched(p)'
  <2>1. p \in DOMAIN pending /\ p # q /\ EntryMatched(p) /\ p \in 1 .. Count
    BY <1>1, <1>5 DEF IndInv, Typed
  <2>2. swarm'[p] = swarm[p] /\ pending'[p] = pending[p]
    BY <2>1, <1>5, <1>6
  <2>3. pending[p].op \in Queries => pending[p].who \in Callers \ {who}
    BY <2>1, <1>2 DEF EntryMatched
  <2> QED BY <2>1, <2>2, <2>3, <1>4 DEF EntryMatched, Told
<1>11. ASSUME NEW p \in 1 .. Count' PROVE QueryMatched(p)'
  <2>1. QueryMatched(p)
    BY <1>6 DEF IndInv
  <2> QED BY <2>1, <1>5, <1>6 DEF QueryMatched
<1>12. swarm[q].events \in Seq(Values)
  BY <1>1 DEF Typed, QueryType
<1>13. Right(who, swarm[q])'
  <2>1. CASE swarm[q].op = "find"
    BY <2>1, <1>2, <1>4, <1>6 DEF Right, Told
  <2>2. CASE swarm[q].op # "find"
    <3>1. swarm[q].events = <<>>
      BY <2>2, <1>1 DEF EntryMatched
    <3>2. swarm[q].events \o results = results
      BY <3>1
    <3> QED BY <2>2, <3>2, <1>2, <1>4, <1>6 DEF Right, Told
  <2> QED BY <2>1, <2>2
<1>14. ASSUME NEW c \in Callers PROVE CallMatched(c)'
  <2>1. CallMatched(c)
    BY DEF IndInv
  <2>2. CASE c = who
    BY <2>2, <1>1, <1>2, <1>4, <1>6, <1>13 DEF CallMatched, Told
  <2>3. CASE c # who
    <3>1. calls'[c] = calls[c]
      BY <2>3, <1>4 DEF Told
    <3>2. CASE calls[c].id = q
      <4>1. calls[c].state # "returned"
        BY <3>2, NotToldYet
      <4> QED BY <2>1, <3>1, <3>2, <4>1, <1>1, <1>6 DEF CallMatched
    <3>3. CASE calls[c].id # q
      BY <2>1, <3>1, <3>3, <1>6 DEF CallMatched, Right
    <3> QED BY <3>2, <3>3
  <2> QED BY <2>2, <2>3
<1> QED BY <1>6, <1>7, <1>8, <1>9, <1>10, <1>11, <1>14 DEF IndInv

(* A step of a query that changes nobody's entry but, perhaps, its own.    *)
LEMMA EventQuiet ==
    ASSUME IndInv, loop = "running", NEW q \in 1 .. Count, ~swarm[q].over,
           NEW results \in Seq(Values), NEW last \in BOOLEAN, Happens(q, results, last),
           UNCHANGED <<calls, chan, loop, handles, provided>>,
           pending' \in [DOMAIN pending' -> WaitType], DOMAIN pending' \subseteq DOMAIN pending,
           \A p \in DOMAIN pending \ {q} : p \in DOMAIN pending' /\ pending'[p] = pending[p],
           q \in DOMAIN pending' => EntryMatched(q)',
           ~last /\ swarm[q].op # "get" => q \in DOMAIN pending',
           \A c \in Callers : calls[c].id = q /\ calls[c].state = "returned" => Right(c, swarm[q])'
    PROVE  IndInv'
<1>1. Typed /\ q # None
  BY ConstantsFact DEF IndInv, Typed
<1>2. /\ Count' = Count /\ swarm' \in [1 .. Count -> QueryType]
      /\ swarm'[q].op = swarm[q].op /\ swarm'[q].events = swarm[q].events \o results
      /\ swarm'[q].over = last
      /\ \A p \in (1 .. Count) \ {q} : swarm'[p] = swarm[p]
  BY <1>1, HappensFact
<1> HIDE DEF Count
<1>3. Typed'
  BY <1>1, <1>2 DEF Typed
<1>4. ChanMatched' /\ Ended' /\ Unheld'
  BY <1>2 DEF IndInv, ChanMatched, Ended, Unheld
<1>5. ASSUME NEW p \in DOMAIN pending' PROVE EntryMatched(p)'
  <2>1. CASE p # q
    <3>1. EntryMatched(p) /\ p \in 1 .. Count /\ pending'[p] = pending[p]
      BY <2>1, <1>1 DEF IndInv, Typed
    <3> QED BY <2>1, <3>1, <1>2 DEF EntryMatched
  <2> QED BY <2>1
<1>6. ASSUME NEW p \in 1 .. Count' PROVE QueryMatched(p)'
  <2>1. QueryMatched(p)
    BY <1>2 DEF IndInv
  <2> QED BY <2>1, <1>2 DEF QueryMatched
<1>7. ASSUME NEW c \in Callers PROVE CallMatched(c)'
  <2>1. CallMatched(c)
    BY DEF IndInv
  <2>2. CASE calls[c].id = q
    BY <2>1, <2>2, <1>2 DEF CallMatched, Right
  <2>3. CASE calls[c].id # q
    BY <2>1, <2>3, <1>2 DEF CallMatched, Right
  <2> QED BY <2>2, <2>3
<1> QED BY <1>2, <1>3, <1>4, <1>5, <1>6, <1>7 DEF IndInv

LEMMA EventKeeps ==
    ASSUME IndInv, OnQueryEvent
    PROVE  IndInv'
<1> USE DEF contents
<1>0. /\ Typed /\ loop = "running" /\ UNCHANGED <<chan, loop, handles, provided>>
      /\ DOMAIN swarm = 1 .. Count /\ swarm \in [1 .. Count -> QueryType]
  BY DEF IndInv, Typed, OnQueryEvent
<1>1. ASSUME NEW op \in QueryOps, NEW q \in Running(op)
      PROVE  /\ q \in 1 .. Count /\ swarm[q].op = op /\ ~swarm[q].over /\ swarm[q].events \in Seq(Values)
             /\ op # "get" => q \in DOMAIN pending
             /\ q \in DOMAIN pending => EntryMatched(q) /\ pending[q] \in WaitType /\ pending[q].acc \in Seq(Peers)
  <2>1. q \in 1 .. Count /\ swarm[q].op = op /\ ~swarm[q].over
    BY <1>0, <1>1 DEF Running
  <2>2. QueryMatched(q) /\ swarm[q] \in QueryType
    BY <2>1, <1>0 DEF IndInv
  <2>3. q \in DOMAIN pending => EntryMatched(q) /\ pending[q] \in WaitType
    BY <1>0 DEF IndInv, Typed
  <2> QED BY <2>1, <2>2, <2>3 DEF QueryMatched, QueryType, WaitType
<1>2. <<>> \in Seq(Values) /\ Seq(Peers) \subseteq Answers /\ Roots \subseteq Answers
      /\ BOOLEAN \subseteq Answers /\ None \in Answers /\ Seq(Peers) \subseteq Seq(Values)
  BY DEF Values, Answers
<1>3. "find" \in QueryOps /\ "get" \in QueryOps /\ "put" \in QueryOps /\ "request" \in QueryOps
      /\ "internal" \in QueryOps
  BY DEF QueryOps, Queries
<1>4. CASE ProvidersFound
  <2>1. PICK q \in Running("find"), found \in SUBSET Peers, last \in BOOLEAN :
           /\ GatherProviders(q, AddFound(pending[q].acc, found), last)
           /\ Happens(q, SetToSeq(found), last)
    BY <1>4 DEF ProvidersFound
  <2>2. /\ q \in 1 .. Count /\ swarm[q].op = "find" /\ ~swarm[q].over /\ swarm[q].events \in Seq(Values)
        /\ q \in DOMAIN pending /\ EntryMatched(q) /\ pending[q] \in WaitType /\ pending[q].acc \in Seq(Peers)
    BY <1>1, <1>3
  <2>3. PICK acc : acc = AddFound(pending[q].acc, found)
    OBVIOUS
  <2>4. ToSet(pending[q].acc) = ToSet(swarm[q].events) /\ Distinct(pending[q].acc)
    BY <2>2 DEF EntryMatched
  <2>5. /\ acc \in Seq(Peers) /\ Distinct(acc) /\ ToSet(acc) = ToSet(pending[q].acc) \cup found
        /\ SetToSeq(found) \in Seq(Peers) /\ ToSet(SetToSeq(found)) = found
    BY <2>2, <2>3, <2>4, AddFoundFact
  <2>6. SetToSeq(found) \in Seq(Values)
    BY <2>5, <1>2
  <2>7. ToSet(acc) = ToSet(swarm[q].events \o SetToSeq(found))
    BY <2>2, <2>4, <2>5, <2>6, ConcatFact
  <2>8. CASE last
    <3>1. Answered(q, acc) /\ acc \in Answers
      BY <2>1, <2>3, <2>5, <2>8, <1>2 DEF GatherProviders
    <3> QED BY <2>1, <2>2, <2>5, <2>6, <2>7, <2>8, <3>1, <1>0, EventAnswers DEF Queries
  <2>9. CASE ~last
    <3>1. pending' = [pending EXCEPT ![q].acc = acc] /\ calls' = calls
      BY <2>1, <2>3, <2>9 DEF GatherProviders
    <3>2. pending' = [pending EXCEPT ![q] = [pending[q] EXCEPT !.acc = acc]]
      BY <3>1
    <3>3. [pending[q] EXCEPT !.acc = acc] \in WaitType
      BY <2>2, <2>5 DEF WaitType
    <3>4. /\ pending' \in [DOMAIN pending' -> WaitType] /\ DOMAIN pending' = DOMAIN pending
          /\ \A p \in DOMAIN pending \ {q} : pending'[p] = pending[p]
          /\ pending'[q] = [pending[q] EXCEPT !.acc = acc]
      BY <2>2, <3>2, <3>3, <1>0 DEF Typed
    <3>5. pending'[q].op = pending[q].op /\ pending'[q].who = pending[q].who /\ pending'[q].acc = acc
      BY <3>4, <2>2 DEF WaitType
    <3>6. swarm'[q].op = swarm[q].op /\ swarm'[q].events = swarm[q].events \o SetToSeq(found)
          /\ swarm'[q].over = last
      BY <2>1, <2>2, <2>6, <1>0, HappensFact
    <3>7. EntryMatched(q)'
      BY <2>2, <2>5, <2>7, <2>9, <3>1, <3>5, <3>6 DEF EntryMatched
    <3>8. \A c \in Callers : calls[c].id = q => calls[c].state # "returned"
      BY <2>2, <1>0, NotToldYet DEF Queries
    <3>9. /\ \A c \in Callers : calls[c].id = q /\ calls[c].state = "returned" => Right(c, swarm[q])'
          /\ \A p \in DOMAIN pending \ {q} : p \in DOMAIN pending' /\ pending'[p] = pending[p]
          /\ DOMAIN pending' \subseteq DOMAIN pending /\ q \in DOMAIN pending'
      BY <2>2, <3>4, <3>8
    <3>10. UNCHANGED <<calls, chan, loop, handles, provided>> /\ pending' \in [DOMAIN pending' -> WaitType]
      BY <3>1, <3>4, <1>0
    <3> QED BY <2>1, <2>2, <2>6, <3>7, <3>9, <3>10, <1>0, EventQuiet
  <2> QED BY <2>8, <2>9
<1>5. CASE ProvidersFailed
  <2>1. PICK q \in Running("find") : Answered(q, pending[q].acc) /\ Happens(q, <<>>, TRUE)
    BY <1>5 DEF ProvidersFailed, QueryError
  <2>2. /\ swarm[q].op = "find" /\ swarm[q].events \in Seq(Values)
        /\ q \in DOMAIN pending /\ EntryMatched(q) /\ pending[q].acc \in Seq(Peers)
    BY <1>1, <1>3
  <2>3. ToSet(pending[q].acc) = ToSet(swarm[q].events) /\ Distinct(pending[q].acc)
    BY <2>2 DEF EntryMatched
  <2>4. swarm[q].events \o <<>> = swarm[q].events
    BY <2>2
  <2> QED BY <2>1, <2>2, <2>3, <2>4, <1>0, <1>2, EventAnswers DEF Queries
<1>6. ASSUME NEW q \in Running("get"), NEW answer \in Answers, NEW results \in Seq(Values),
             NEW last \in BOOLEAN, Answered(q, answer), Happens(q, results, last),
             IF results = <<>> THEN last /\ answer = None ELSE answer = results[1]
      PROVE  IndInv'
  <2>1. /\ q \in 1 .. Count /\ swarm[q].op = "get" /\ ~swarm[q].over /\ swarm[q].events \in Seq(Values)
        /\ q \in DOMAIN pending => EntryMatched(q)
    BY <1>1, <1>3
  <2>2. CASE q \in DOMAIN pending
    BY <1>6, <2>1, <2>2, <1>0, EventAnswers DEF Queries
  <2>3. CASE q \notin DOMAIN pending
    <3>1. UNCHANGED <<calls, pending>>
      BY <1>6, <2>3 DEF Answered
    <3>2. swarm'[q].op = swarm[q].op /\ swarm'[q].events = swarm[q].events \o results
          /\ swarm'[q].over = last
      BY <1>6, <2>1, <1>0, HappensFact
    <3>3. ASSUME NEW c \in Callers, calls[c].id = q, calls[c].state = "returned"
          PROVE  Right(c, swarm[q])'
      <4>1. calls[c].op = "get" /\ Right(c, swarm[q])
        BY <3>3, <2>1, <1>0, ConstantsFact DEF IndInv, CallMatched
      <4>2. swarm[q].events # <<>> /\ calls[c].answer = swarm[q].events[1]
        BY <4>1, <2>1 DEF Right
      <4>3. swarm'[q].events # <<>> /\ swarm'[q].events[1] = swarm[q].events[1]
        BY <4>2, <3>2, <2>1, <1>6
      <4> QED BY <4>1, <4>2, <4>3, <3>1 DEF Right
    <3>4. pending \in [DOMAIN pending -> WaitType]
      BY <1>0 DEF Typed
    <3> QED BY <1>6, <2>1, <2>3, <3>1, <3>3, <3>4, <1>0, EventQuiet
  <2> QED BY <2>2, <2>3
<1>7. CASE RecordFound
  <2>1. PICK q \in Running("get"), value \in Roots \cup {None}, last \in BOOLEAN :
           /\ last \/ value # None
           /\ TakeRecord(q, value, last)
           /\ Happens(q, IF value = None THEN <<>> ELSE <<value>>, last)
    BY <1>7 DEF RecordFound
  <2>2. CASE value = None
    <3>1. Answered(q, None) /\ Happens(q, <<>>, last) /\ last
      BY <2>1, <2>2 DEF TakeRecord
    <3> QED BY <3>1, <1>2, <1>6
  <2>3. CASE value # None
    <3>1. Answered(q, value) /\ Happens(q, <<value>>, last)
      BY <2>1, <2>3 DEF TakeRecord
    <3>2. <<value>> \in Seq(Values) /\ value \in Answers /\ <<value>> # <<>> /\ <<value>>[1] = value
      BY <2>3, <1>2 DEF Values
    <3> QED BY <3>1, <3>2, <1>6
  <2> QED BY <2>2, <2>3
<1>8. CASE RecordFailed
  BY <1>8, <1>2, <1>6 DEF RecordFailed
<1>9. ASSUME NEW op \in {"put", "request"}, NEW q \in Running(op), NEW ok \in BOOLEAN,
             Answered(q, ok), Happens(q, <<ok>>, TRUE)
      PROVE  IndInv'
  <2>1. swarm[q].op = op /\ q \in DOMAIN pending
    BY <1>1, <1>3, <1>9
  <2>2. <<ok>> \in Seq(Values) /\ ok \in Answers /\ <<ok>> # <<>> /\ <<ok>>[1] = ok
    BY <1>2 DEF Values
  <2> QED BY <1>9, <2>1, <2>2, <1>0, EventAnswers DEF Queries
<1>10. ASSUME NEW q \in Running("internal"), pending' = Restrict(pending, DOMAIN pending \ {q}),
              Happens(q, <<>>, TRUE), UNCHANGED calls
       PROVE  IndInv'
  <2>1. q \in 1 .. Count /\ swarm[q].op = "internal" /\ ~swarm[q].over
    BY <1>1, <1>3
  <2>2. /\ pending' \in [DOMAIN pending' -> WaitType] /\ DOMAIN pending' = DOMAIN pending \ {q}
        /\ \A p \in DOMAIN pending' : pending'[p] = pending[p]
    BY <1>10, <1>0, DroppedFact
  <2>3. ASSUME NEW c \in Callers, calls[c].id = q, calls[c].state = "returned"
        PROVE  Right(c, swarm[q])'
    <3>1. calls[c].op = "internal"
      BY <2>1, <2>3, <1>0, ConstantsFact DEF IndInv, CallMatched
    <3> QED BY <3>1, <1>10 DEF Right
  <2> QED BY <1>10, <2>1, <2>2, <2>3, <1>0, <1>2, EventQuiet
<1> QED
  BY <1>4, <1>5, <1>7, <1>8, <1>9, <1>10 DEF OnQueryEvent, PutDone, ResponseArrives

-----------------------------------------------------------------------------
(* Commands and calls.                                                     *)

LEMMA InitIndInv == Init => IndInv
<1> SUFFICES ASSUME Init PROVE IndInv
  OBVIOUS
<1>1. DOMAIN swarm = {} /\ DOMAIN pending = {} /\ Count = 0
  BY FS_EmptySet DEF Init, Count
<1>2. Idle \in CallType
  BY DEF Idle, CallType, Answers
<1>3. 1 .. Count = {}
  BY <1>1
<1>4. swarm \in [1 .. Count -> QueryType] /\ pending \in [DOMAIN pending -> WaitType] /\ Count \in Nat
  BY <1>1, <1>3 DEF Init
<1>5. chan = <<>> /\ chan \in Seq(CmdType) /\ DOMAIN chan = {}
  BY DEF Init
<1>6. calls \in [Callers -> CallType] /\ \A c \in Callers : calls[c].id = None /\ calls[c].state = "returned"
  BY <1>2 DEF Init, Idle
<1> HIDE DEF Count
<1>7. Typed
  BY <1>1, <1>4, <1>5, <1>6 DEF Init, Typed
<1>8. \A c \in Callers : CallMatched(c)
  BY <1>6 DEF CallMatched
<1> QED
  BY <1>1, <1>3, <1>5, <1>6, <1>7, <1>8 DEF Init, IndInv, ChanMatched, Ended, Unheld

(* The channel without its first command.                                  *)
LEMMA ChanTail ==
    ASSUME chan \in Seq(CmdType), chan # <<>>
    PROVE  /\ Tail(chan) \in Seq(CmdType) /\ Head(chan) = chan[1] /\ 1 \in DOMAIN chan
           /\ \A i \in DOMAIN Tail(chan) : i \in Nat \ {0} /\ i + 1 \in DOMAIN chan /\ Tail(chan)[i] = chan[i + 1]
OBVIOUS

LEMMA ChanAppend ==
    ASSUME chan \in Seq(CmdType), NEW cmd \in CmdType
    PROVE  /\ Append(chan, cmd) \in Seq(CmdType)
           /\ \A i \in DOMAIN Append(chan, cmd) :
                 \/ i \in DOMAIN chan /\ Append(chan, cmd)[i] = chan[i]
                 \/ i = Len(chan) + 1 /\ i \notin DOMAIN chan /\ Append(chan, cmd)[i] = cmd
OBVIOUS

(* Nothing of the queries changes.                                         *)
LEMMA QueriesKept ==
    ASSUME IndInv, UNCHANGED <<swarm, pending>>, loop' = loop \/ (loop = "running" /\ loop' = "running"),
           calls' \in [Callers -> CallType],
           \A c \in Callers : \/ calls'[c] = calls[c]
                              \/ calls[c].id = None \/ calls[c].state = "returned",
           \A c \in Callers : CallMatched(c)'
    PROVE  /\ Count' = Count
           /\ \A q \in DOMAIN pending' : EntryMatched(q)'
           /\ \A q \in 1 .. Count' : QueryMatched(q)'
<1>1. Count' = Count
  BY DEF Count
<1>2. ASSUME NEW q \in DOMAIN pending' PROVE EntryMatched(q)'
  <2>1. EntryMatched(q) /\ q # None
    BY ConstantsFact DEF IndInv, Typed
  <2>2. pending[q].op \in Queries => calls'[pending[q].who] = calls[pending[q].who]
    BY <2>1 DEF EntryMatched
  <2> QED BY <2>1, <2>2 DEF EntryMatched
<1>3. \A q \in 1 .. Count' : QueryMatched(q)'
  BY <1>1 DEF IndInv, QueryMatched
<1> QED BY <1>1, <1>2, <1>3

(* The first command is taken, and its caller, if it waits, told.          *)
LEMMA CommandKeeps ==
    ASSUME IndInv, OnCommand
    PROVE  IndInv'
<1> USE DEF contents
<1> PICK cmd : cmd = Head(chan)
  OBVIOUS
<1>0. /\ Typed /\ loop = "running" /\ UNCHANGED <<loop, handles>> /\ chan # <<>> /\ chan' = Tail(chan)
      /\ chan \in Seq(CmdType) /\ Count \in Nat
      /\ StartQuery(cmd) \/ AnswerNow(cmd) \/ Provide(cmd) \/ Unprovide(cmd) \/ SubmitReceipt(cmd)
  BY DEF IndInv, Typed, OnCommand
<1>1. /\ chan' \in Seq(CmdType) /\ cmd = chan[1] /\ 1 \in DOMAIN chan
      /\ \A i \in DOMAIN chan' : i \in Nat \ {0} /\ i + 1 \in DOMAIN chan /\ chan'[i] = chan[i + 1]
  BY <1>0, ChanTail
<1>2. cmd.who \in Callers /\ cmd.op \in Ops /\ cmd.root \in Roots
  BY <1>0, <1>1, CmdFact
<1>3. \A i \in DOMAIN chan' : chan'[i].who \in Callers
  BY <1>0, <1>1, CmdFact
<1>4. cmd.op \in Awaited =>
         /\ calls[cmd.who].state = "waiting" /\ calls[cmd.who].op = cmd.op /\ calls[cmd.who].id = None
         /\ \A i \in DOMAIN chan' : chan'[i].op \in Awaited => chan'[i].who # cmd.who
  BY <1>1 DEF IndInv, ChanMatched
<1>5. ASSUME \A c \in Callers : calls'[c] = calls[c] \/ (cmd.op \in Awaited /\ c = cmd.who)
      PROVE  ChanMatched'
  BY <1>1, <1>3, <1>4, <1>5, SMTT(30) DEF IndInv, ChanMatched
<1>6. Ended' /\ (handles' => Unheld')
  BY <1>0 DEF Ended, Unheld
<1>7. /\ calls \in [Callers -> CallType]
      /\ pending \in [DOMAIN pending -> WaitType] /\ DOMAIN pending \subseteq 1 .. Count
      /\ swarm \in [1 .. Count -> QueryType] /\ provided \subseteq Roots
  BY <1>0 DEF Typed
<1>8. ASSUME NEW c \in Callers PROVE CallMatched(c)
  BY DEF IndInv
<1>9. ASSUME UNCHANGED <<swarm, pending>>, calls' \in [Callers -> CallType], provided' \subseteq Roots,
             \A c \in Callers :
                \/ calls'[c] = calls[c]
                \/ /\ cmd.op \in Awaited /\ c = cmd.who /\ calls'[c].state = "returned" /\ calls'[c].id = None
      PROVE  IndInv'
  <2>1. Count' = Count
    BY <1>9 DEF Count
  <2>2. ASSUME NEW c \in Callers PROVE CallMatched(c)'
    <3>1. CASE calls'[c] = calls[c]
      BY <3>1, <2>1, <1>0, <1>8, <1>9 DEF CallMatched, Right
    <3>2. CASE calls'[c].state = "returned" /\ calls'[c].id = None
      BY <3>2 DEF CallMatched
    <3> QED BY <3>1, <3>2, <1>9
  <2>3. \A c \in Callers : calls'[c] = calls[c] \/ calls[c].id = None \/ calls[c].state = "returned"
    BY <1>4, <1>9
  <2>4. /\ \A q \in DOMAIN pending' : EntryMatched(q)'
        /\ \A q \in 1 .. Count' : QueryMatched(q)'
    BY <2>2, <2>3, <1>0, <1>9, QueriesKept
  <2>5. Typed'
    <3> HIDE DEF Count
    <3> QED BY <2>1, <1>0, <1>1, <1>9 DEF Typed
  <2>6. ChanMatched'
    BY <1>5, <1>9
  <2>7. Unheld'
    BY <1>0, <1>9 DEF IndInv, Unheld
  <2> QED BY <2>2, <2>4, <2>5, <2>6, <2>7, <1>6 DEF IndInv
<1>10. ASSUME NEW op \in QueryOps, NEW who \in Callers \cup {None}, swarm' = Begin(op), pending' = Wait(op, who),
              calls' \in [Callers -> CallType], provided' = provided,
              \A c \in Callers : calls'[c] = calls[c] \/ (cmd.op \in Awaited /\ c = cmd.who),
              op \in Queries =>
                 /\ op = cmd.op /\ who = cmd.who /\ calls'[who].state = "waiting"
                 /\ calls'[who].id = Count + 1 /\ calls'[who].op = op,
              op \notin Queries => calls' = calls
       PROVE  IndInv'
  <2>1. /\ Count' = Count + 1 /\ swarm' \in [1 .. Count' -> QueryType]
        /\ swarm'[Count + 1] = [op |-> op, events |-> <<>>, over |-> FALSE]
        /\ \A q \in 1 .. Count : swarm'[q] = swarm[q]
    BY <1>0, <1>10, BeginFact
  <2>2. /\ pending' \in [DOMAIN pending' -> WaitType]
        /\ DOMAIN pending' = DOMAIN pending \cup {Count + 1}
        /\ pending'[Count + 1] = [op |-> op, who |-> who, acc |-> <<>>]
        /\ \A q \in DOMAIN pending : q # Count + 1 /\ pending'[q] = pending[q]
    BY <1>0, <1>10, WaitFact
  <2> HIDE DEF Count
  <2>3. 1 .. Count' = (1 .. Count) \cup {Count + 1} /\ Count' \in Nat
    BY <2>1, <1>0
  <2>4. Typed'
    BY <2>1, <2>2, <2>3, <1>0, <1>1, <1>7, <1>10 DEF Typed
  <2>5. ASSUME NEW q \in DOMAIN pending' PROVE EntryMatched(q)'
    <3>1. CASE q = Count + 1
      <4>1. /\ swarm'[q].op = op /\ swarm'[q].events = <<>> /\ swarm'[q].over = FALSE
            /\ pending'[q].op = op /\ pending'[q].who = who /\ pending'[q].acc = <<>>
        BY <3>1, <2>1, <2>2
      <4>2. Distinct(<<>>)
        BY DEF Distinct
      <4>3. op \in Queries => calls'[who].state = "waiting" /\ calls'[who].id = q /\ calls'[who].op = op
                              /\ who \in Callers
        BY <3>1, <1>2, <1>10
      <4> QED BY <4>1, <4>2, <4>3 DEF EntryMatched
    <3>2. CASE q \in DOMAIN pending
      <4>1. EntryMatched(q) /\ q \in 1 .. Count /\ q # None
        BY <3>2, <1>7, ConstantsFact DEF IndInv
      <4>2. swarm'[q] = swarm[q] /\ pending'[q] = pending[q]
        BY <3>2, <4>1, <2>1, <2>2
      <4>3. pending[q].op \in Queries => calls'[pending[q].who] = calls[pending[q].who]
        BY <4>1, <1>4, <1>10 DEF EntryMatched
      <4> QED BY <4>1, <4>2, <4>3 DEF EntryMatched
    <3> QED BY <3>1, <3>2, <2>2
  <2>6. ASSUME NEW q \in 1 .. Count' PROVE QueryMatched(q)'
    <3>1. CASE q = Count + 1
      BY <3>1, <2>2 DEF QueryMatched
    <3>2. CASE q \in 1 .. Count
      BY <3>2, <2>1, <2>2 DEF IndInv, QueryMatched
    <3> QED BY <3>1, <3>2, <2>3
  <2>7. ASSUME NEW c \in Callers PROVE CallMatched(c)'
    <3>1. CASE calls'[c] = calls[c]
      BY <3>1, <2>1, <2>3, <1>0, <1>8 DEF CallMatched, Right
    <3>2. CASE op \in Queries /\ c = who
      BY <3>2, <2>1, <2>3, <1>10 DEF CallMatched
    <3> QED BY <3>1, <3>2, <1>10
  <2>8. ChanMatched'
    BY <1>5, <1>10
  <2>9. Unheld'
    <3>1. op \in Queries => handles
      BY <1>4, <1>2, <1>10 DEF IndInv, Unheld, Awaited
    <3>2. op \notin Queries => Unheld'
      BY <1>0, <1>10 DEF IndInv, Unheld
    <3> QED BY <3>1, <3>2, <1>0, <1>6
  <2> QED BY <2>4, <2>5, <2>6, <2>7, <2>8, <2>9, <1>6, <1>0 DEF IndInv
<1>11. CASE StartQuery(cmd)
  <2>1. cmd.op \in Queries /\ cmd.op \in Awaited /\ cmd.op \in QueryOps /\ provided' = provided
    BY <1>11 DEF StartQuery, Awaited, QueryOps
  <2>2. calls[cmd.who] \in CallType
    BY <1>2, <1>7
  <2>3. CASE /\ swarm' = Begin(cmd.op) /\ pending' = Wait(cmd.op, cmd.who)
             /\ calls' = [calls EXCEPT ![cmd.who].id = NextId]
    <3>1. calls' = [calls EXCEPT ![cmd.who] = [calls[cmd.who] EXCEPT !.id = Count + 1]]
      BY <2>3 DEF NextId, Count
    <3>2. Count + 1 \in Nat
      BY <1>0
    <3> HIDE DEF Count
    <3>3. [calls[cmd.who] EXCEPT !.id = Count + 1] \in CallType
      BY <2>2, <3>2 DEF CallType
    <3>4. calls' \in [Callers -> CallType] /\ \A c \in Callers \ {cmd.who} : calls'[c] = calls[c]
      BY <3>1, <3>3, <1>2, <1>7
    <3>5. calls'[cmd.who] = [calls[cmd.who] EXCEPT !.id = Count + 1]
      BY <3>1, <1>2, <1>7
    <3>6. calls'[cmd.who].state = "waiting" /\ calls'[cmd.who].id = Count + 1 /\ calls'[cmd.who].op = cmd.op
      BY <3>5, <2>1, <2>2, <1>4 DEF CallType
    <3>7. \A c \in Callers : calls'[c] = calls[c] \/ (cmd.op \in Awaited /\ c = cmd.who)
      BY <2>1, <3>4
    <3> QED BY <2>1, <2>3, <3>4, <3>6, <3>7, <1>2, <1>10
  <2>4. CASE calls' = Reply(cmd.who, FALSE) /\ UNCHANGED <<swarm, pending>>
    <3>1. FALSE \in Answers
      BY DEF Answers
    <3>2. Told(cmd.who, FALSE)
      BY <2>4, <3>1, <1>0, <1>2, ReplyFact
    <3> QED BY <2>1, <2>4, <3>2, <1>4, <1>7, <1>9 DEF Told
  <2> QED BY <1>11, <2>3, <2>4 DEF StartQuery
<1>12. CASE AnswerNow(cmd)
  <2>1. cmd.op \in Awaited /\ calls' = [calls EXCEPT ![cmd.who] = Idle] /\ UNCHANGED <<swarm, pending, provided>>
    BY <1>12 DEF AnswerNow, Done, Awaited
  <2>2. Idle \in CallType /\ Idle.state = "returned" /\ Idle.id = None
    BY DEF Idle, CallType, Answers
  <2>3. /\ calls' \in [Callers -> CallType] /\ calls'[cmd.who] = Idle
        /\ \A c \in Callers \ {cmd.who} : calls'[c] = calls[c]
    BY <2>1, <2>2, <1>2, <1>7
  <2> QED BY <2>1, <2>2, <2>3, <1>7, <1>9
<1>13. CASE Provide(cmd) \/ Unprovide(cmd)
  <2>1. UNCHANGED <<calls, swarm, pending>> /\ provided' \subseteq Roots
    BY <1>13, <1>2, <1>7 DEF Provide, Unprovide
  <2> QED BY <2>1, <1>7, <1>9
<1>14. CASE SubmitReceipt(cmd)
  <2>1. calls' = calls /\ provided' = provided
    BY <1>14 DEF SubmitReceipt
  <2>2. CASE swarm' = Begin("internal") /\ pending' = Wait("internal", None)
    BY <2>1, <2>2, <1>7, <1>10 DEF QueryOps, Queries
  <2>3. CASE UNCHANGED <<swarm, pending>>
    BY <2>1, <2>3, <1>7, <1>9
  <2> QED BY <1>14, <2>2, <2>3 DEF SubmitReceipt
<1> QED
  BY <1>0, <1>11, <1>12, <1>13, <1>14

LEMMA NextIndInv == IndInv /\ [Next]_vars => IndInv'
<1> SUFFICES ASSUME IndInv, [Next]_vars PROVE IndInv'
  OBVIOUS
<1> USE DEF vars, contents
<1>0. /\ Typed /\ calls \in [Callers -> CallType] /\ chan \in Seq(CmdType)
      /\ Idle \in CallType
  BY DEF IndInv, Typed, Idle, CallType, Answers
<1>1. ASSUME NEW c \in Callers, NEW op \in Ops, NEW r \in Roots, Call(c, op, r) PROVE IndInv'
  <2> DEFINE new == [Idle EXCEPT !.state = "sending", !.op = op, !.root = r]
  <2>1. /\ handles /\ calls[c].state = "returned" /\ calls' = [calls EXCEPT ![c] = new]
        /\ UNCHANGED <<chan, loop, handles, pending, swarm, provided>>
    BY <1>1 DEF Call
  <2>2. new \in CallType /\ new.state = "sending" /\ new.op = op /\ new.root = r /\ new.id = None
    BY DEF Idle, CallType, Answers
  <2> HIDE DEF new
  <2>3. /\ calls' \in [Callers -> CallType] /\ calls'[c] = new
        /\ \A d \in Callers \ {c} : calls'[d] = calls[d]
    BY <2>1, <2>2, <1>0
  <2>4. Count' = Count
    BY <2>1 DEF Count
  <2>5. ASSUME NEW d \in Callers PROVE CallMatched(d)'
    <3>1. CASE d = c
      BY <3>1, <2>2, <2>3 DEF CallMatched
    <3>2. CASE d # c
      BY <3>2, <2>1, <2>3, <2>4 DEF IndInv, CallMatched, Right
    <3> QED BY <3>1, <3>2
  <2>6. /\ \A q \in DOMAIN pending' : EntryMatched(q)'
        /\ \A q \in 1 .. Count' : QueryMatched(q)'
    BY <2>1, <2>3, <2>5, QueriesKept
  <2>7. Typed'
    <3> HIDE DEF Count
    <3> QED BY <2>1, <2>3, <2>4, <1>0 DEF Typed
  <2>8. ChanMatched'
    <3>1. \A i \in DOMAIN chan : chan[i].who \in Callers
      BY <1>0, CmdFact
    <3>2. \A i \in DOMAIN chan : chan[i].op \in Awaited => chan[i].who # c
      BY <2>1 DEF IndInv, ChanMatched
    <3> QED BY <3>1, <3>2, <2>1, <2>3 DEF IndInv, ChanMatched
  <2>9. Ended' /\ Unheld'
    BY <2>1, <2>4 DEF IndInv, Ended, Unheld
  <2> QED BY <2>5, <2>6, <2>7, <2>8, <2>9 DEF IndInv
<1>2. ASSUME NEW c \in Callers, Send(c) PROVE IndInv'
  <2> DEFINE cmd == [op |-> calls[c].op, root |-> calls[c].root, who |-> c]
             new == [calls[c] EXCEPT !.state = "waiting"]
  <2>1. /\ calls[c].state = "sending" /\ chan' = Append(chan, cmd)
        /\ IF calls[c].op \in Posted THEN calls' = [calls EXCEPT ![c] = Idle]
           ELSE calls' = [calls EXCEPT ![c] = new]
        /\ UNCHANGED <<loop, handles, pending, swarm, provided>>
    BY <1>2 DEF Send, Done
  <2>2. calls[c] \in CallType /\ CallMatched(c)
    BY <1>0 DEF IndInv
  <2>3. calls[c].op \in Ops /\ calls[c].root \in Roots /\ calls[c].id = None
    BY <2>1, <2>2 DEF CallMatched
  <2>4. new \in CallType /\ new.state = "waiting" /\ new.op = calls[c].op /\ new.id = None
    BY <2>2, <2>3 DEF CallType
  <2>5. Idle.state = "returned" /\ Idle.id = None
    BY DEF Idle
  <2>6. cmd \in CmdType /\ cmd.op = calls[c].op /\ cmd.who = c
    BY <2>3 DEF CmdType
  <2> HIDE DEF cmd, new
  <2>7. /\ calls' \in [Callers -> CallType] /\ \A d \in Callers \ {c} : calls'[d] = calls[d]
        /\ calls'[c] = IF calls[c].op \in Posted THEN Idle ELSE new
    BY <2>1, <2>4, <1>0
  <2>8. Count' = Count
    BY <2>1 DEF Count
  <2>9. ASSUME NEW d \in Callers PROVE CallMatched(d)'
    <3>1. CASE d = c
      BY <3>1, <2>4, <2>5, <2>7 DEF CallMatched
    <3>2. CASE d # c
      BY <3>2, <2>1, <2>7, <2>8 DEF IndInv, CallMatched, Right
    <3> QED BY <3>1, <3>2
  <2>10. /\ \A q \in DOMAIN pending' : EntryMatched(q)'
         /\ \A q \in 1 .. Count' : QueryMatched(q)'
    BY <2>1, <2>3, <2>7, <2>9, QueriesKept
  <2>11. PICK n : n = cmd
    OBVIOUS
  <2>12. /\ chan' \in Seq(CmdType)
         /\ \A i \in DOMAIN chan' : \/ i \in DOMAIN chan /\ chan'[i] = chan[i]
                                    \/ i = Len(chan) + 1 /\ chan'[i] = n
    BY <2>1, <2>6, <2>11, <1>0, ChanAppend
  <2>13. Typed'
    <3> HIDE DEF Count
    <3> QED BY <2>1, <2>7, <2>8, <2>12, <1>0 DEF Typed
  <2>14. ChanMatched'
    <3>1. \A i \in DOMAIN chan : chan[i].who \in Callers
      BY <1>0, CmdFact
    <3>2. \A i \in DOMAIN chan : chan[i].op \in Awaited => chan[i].who # c
      BY <2>1 DEF IndInv, ChanMatched
    <3>3. n.op = calls[c].op /\ n.who = c /\ (n.op \in Awaited => calls[c].op \notin Posted)
      BY <2>6, <2>11 DEF Awaited, Posted, Queries, Instant
    <3> QED BY <3>1, <3>2, <3>3, <2>4, <2>7, <2>12 DEF IndInv, ChanMatched
  <2>15. Ended' /\ Unheld'
    BY <2>1, <2>8 DEF IndInv, Ended, Unheld
  <2> QED BY <2>9, <2>10, <2>13, <2>14, <2>15 DEF IndInv
<1>3. CASE DropHandles
  <2>1. /\ UNCHANGED <<calls, chan, loop, pending, swarm, provided>> /\ handles' = FALSE /\ handles
        /\ \A c \in Callers : calls[c].state = "returned"
    BY <1>3 DEF DropHandles
  <2>2. Count' = Count
    BY <2>1 DEF Count
  <2>3. Typed'
    <3> HIDE DEF Count
    <3> QED BY <2>1, <2>2, <1>0 DEF Typed
  <2>4. ChanMatched' /\ Ended' /\ Unheld'
    BY <2>1, <2>2 DEF IndInv, ChanMatched, Ended, Unheld
  <2>5. \A c \in Callers : CallMatched(c)'
    BY <2>1, <2>2 DEF IndInv, CallMatched, Right
  <2>6. /\ \A q \in DOMAIN pending' : EntryMatched(q)'
        /\ \A q \in 1 .. Count' : QueryMatched(q)'
    BY <2>1, <2>5, <1>0, QueriesKept
  <2> QED BY <2>3, <2>4, <2>5, <2>6 DEF IndInv
<1>4. CASE LoopEnds
  <2>1. /\ UNCHANGED <<calls, chan, handles, provided>> /\ ~handles /\ chan = <<>>
        /\ loop' = "ended" /\ pending' = <<>> /\ swarm' = <<>>
    BY <1>4 DEF LoopEnds
  <2>2. DOMAIN swarm' = {} /\ DOMAIN pending' = {}
    BY <2>1
  <2>3. Count' = 0
    BY <2>2, FS_EmptySet DEF Count
  <2> HIDE DEF Count
  <2>4. 1 .. Count' = {} /\ swarm' \in [1 .. Count' -> QueryType] /\ pending' \in [DOMAIN pending' -> WaitType]
    BY <2>1, <2>2, <2>3
  <2>5. Typed'
    BY <2>1, <2>2, <2>3, <2>4, <1>0 DEF Typed
  <2>6. ChanMatched' /\ Ended' /\ Unheld'
    BY <2>1, <2>3 DEF IndInv, ChanMatched, Ended, Unheld
  <2>7. \A c \in Callers : CallMatched(c)'
    BY <2>1 DEF IndInv, CallMatched
  <2> QED BY <2>2, <2>4, <2>5, <2>6, <2>7 DEF IndInv
<1>5. CASE OnCommand
  BY <1>5, CommandKeeps
<1>6. CASE OnQueryEvent
  BY <1>6, EventKeeps
<1>7. CASE CacheSymbols \/ RecordExpires \/ UNCHANGED vars
  <2>1. UNCHANGED <<calls, chan, loop, handles, pending, swarm, provided>>
    BY <1>7 DEF CacheSymbols, RecordExpires
  <2>2. Count' = Count
    BY <2>1 DEF Count
  <2>3. Typed'
    <3> HIDE DEF Count
    <3> QED BY <2>1, <2>2, <1>0 DEF Typed
  <2>4. ChanMatched' /\ Ended' /\ Unheld'
    BY <2>1, <2>2 DEF IndInv, ChanMatched, Ended, Unheld
  <2>5. \A c \in Callers : CallMatched(c)'
    BY <2>1, <2>2 DEF IndInv, CallMatched, Right
  <2>6. /\ \A q \in DOMAIN pending' : EntryMatched(q)'
        /\ \A q \in 1 .. Count' : QueryMatched(q)'
    BY <2>1, <2>5, <1>0, QueriesKept
  <2> QED BY <2>3, <2>4, <2>5, <2>6 DEF IndInv
<1> QED
  BY <1>1, <1>2, <1>3, <1>4, <1>5, <1>6, <1>7 DEF Next

(* Answers are of the caller's own query and lose nothing (on_event, of    *)
(* the Kademlia and request-response results), however the events of       *)
(* several queries are mixed.                                              *)
THEOREM SpecOwnAnswer == Spec => []OwnAnswer
<1>1. IndInv => OwnAnswer
  <2> SUFFICES ASSUME IndInv, NEW c \in Callers, calls[c].state = "returned", calls[c].id \in DOMAIN swarm
               PROVE  LET q == swarm[calls[c].id]
                          got == calls[c].answer
                      IN  /\ calls[c].op = "find" =>
                               q.over /\ ToSet(got) = ToSet(q.events) /\ Len(got) = Cardinality(ToSet(got))
                          /\ calls[c].op = "get" =>
                               IF q.events = <<>> THEN q.over /\ got = None ELSE got = q.events[1]
                          /\ calls[c].op \in {"put", "request"} => got = q.events[1]
    BY DEF OwnAnswer
  <2>1. Count \in Nat /\ calls[c].id \in 1 .. Count /\ loop \in {"running", "ended"}
    BY DEF IndInv, Typed
  <2>2. loop = "running"
    BY <2>1 DEF IndInv, Ended
  <2>3. calls[c].id # None
    BY <2>1, ConstantsFact
  <2>4. Right(c, swarm[calls[c].id])
    BY <2>2, <2>3 DEF IndInv, CallMatched
  <2>5. calls[c].op = "find" => Len(calls[c].answer) = Cardinality(ToSet(calls[c].answer))
    BY <2>4, DistinctLen DEF Right
  <2> QED BY <2>4, <2>5 DEF Right
<1> QED
  BY <1>1, InitIndInv, NextIndInv, PTL DEF Spec

-----------------------------------------------------------------------------
(* Neither the cached symbols of a root nor the node's own provider record *)
(* outlive its manifest (Command::Provide and Unprovide, and               *)
(* ensure_symbols, which caches symbols of provided content only); chunks  *)
(* and the records at other peers are not spoken of.                       *)
THEOREM SpecUnprovidedIsGone == Spec => []UnprovidedIsGone
<1>1. Init => UnprovidedIsGone
  BY DEF Init, UnprovidedIsGone
<1>2. UnprovidedIsGone /\ [Next]_vars => UnprovidedIsGone'
  <2> SUFFICES ASSUME UnprovidedIsGone, [Next]_vars PROVE UnprovidedIsGone'
    OBVIOUS
  <2> USE DEF vars, contents
  <2>1. CASE OnCommand
    BY <2>1 DEF OnCommand, StartQuery, AnswerNow, Provide, Unprovide, StartProviding, StopProviding,
                SubmitReceipt, UnprovidedIsGone
  <2>2. CASE CacheSymbols \/ RecordExpires
    BY <2>2 DEF CacheSymbols, RecordExpires, UnprovidedIsGone
  <2>3. CASE UNCHANGED contents
    BY <2>3 DEF UnprovidedIsGone
  <2> QED
    BY <2>1, <2>2, <2>3 DEF Next, Call, Send, DropHandles, LoopEnds, OnQueryEvent
<1> QED
  BY <1>1, <1>2, PTL DEF Spec

-----------------------------------------------------------------------------
(* The bounds.                                                             *)

InChan == {i \in DOMAIN chan : NeedsId(chan[i].op)}
Sending == {c \in Callers : calls[c].state = "sending" /\ NeedsId(calls[c].op)}
Bounds == Len(chan) <= QueueSize /\ Begun <= MaxIds

BegunParts ==
    /\ IsFiniteSet(InChan) /\ IsFiniteSet(Sending)
    /\ Cardinality(InChan) \in Nat /\ Cardinality(Sending) \in Nat
    /\ Begun = Count + Cardinality(InChan) + Cardinality(Sending)
    /\ Len(chan) \in Nat /\ DOMAIN chan = 1 .. Len(chan)

LEMMA BegunFact == Typed => BegunParts
<1> SUFFICES ASSUME Typed PROVE BegunParts
  OBVIOUS
<1>1. Len(chan) \in Nat /\ DOMAIN chan = 1 .. Len(chan)
  BY DEF Typed
<1>2. IsFiniteSet(InChan)
  <2>1. IsFiniteSet(1 .. Len(chan)) /\ InChan \in SUBSET (1 .. Len(chan))
    BY <1>1, FS_Interval DEF InChan
  <2> HIDE DEF InChan
  <2> QED BY <2>1, FS_Subset
<1>3. IsFiniteSet(Sending)
  BY ConstantsFact, FS_Subset DEF Sending
<1> QED
  BY <1>1, <1>2, <1>3, FS_CardinalityType DEF Begun, Count, InChan, Sending, BegunParts

(* No query is added, and none is asked for.                               *)
LEMMA BoundsKept ==
    ASSUME Typed, Typed', Bounds, Count' <= Count, chan' = chan, Sending' \subseteq Sending
    PROVE  Bounds'
<1>1. InChan' = InChan
  BY DEF InChan
<1>2. Cardinality(Sending') <= Cardinality(Sending)
  BY BegunFact, FS_Subset DEF BegunParts
<1>3. Count \in Nat /\ Count' \in Nat
  BY DEF Typed
<1>4. /\ Begun = Count + Cardinality(InChan) + Cardinality(Sending)
      /\ Cardinality(InChan) \in Nat /\ Cardinality(Sending) \in Nat
  BY BegunFact DEF BegunParts
<1>5. /\ Begun' = Count' + Cardinality(InChan') + Cardinality(Sending')
      /\ Cardinality(InChan') \in Nat /\ Cardinality(Sending') \in Nat
  <2>1. BegunParts'
    BY BegunFact, PTL
  <2> QED BY <2>1 DEF BegunParts
<1> HIDE DEF Count, Begun, InChan, Sending
<1> QED BY <1>1, <1>2, <1>3, <1>4, <1>5, ConstantsFact DEF Bounds

LEMMA ReplySends ==
    ASSUME Typed, NEW who, NEW answer, calls' = Reply(who, answer) \/ calls' = calls
    PROVE  Sending' \subseteq Sending
<1>1. calls \in [Callers -> CallType]
  BY DEF Typed
<1>2. CASE calls' = calls
  BY <1>2 DEF Sending
<1>3. CASE calls' = Reply(who, answer)
  <2> SUFFICES ASSUME NEW c \in Callers, calls'[c].state = "sending", NeedsId(calls'[c].op)
               PROVE  calls[c].state = "sending" /\ NeedsId(calls[c].op)
    BY DEF Sending
  <2>1. calls' = [calls EXCEPT ![who] = [calls[who] EXCEPT !.state = "returned", !.answer = answer]]
    BY <1>3 DEF Reply
  <2>2. c # who
    BY <2>1, <1>1 DEF CallType
  <2> QED BY <2>1, <2>2, <1>1
<1> QED BY <1>2, <1>3

LEMMA NextBounds == IndInv /\ IndInv' /\ Bounds /\ [Next]_vars => Bounds'
<1> SUFFICES ASSUME IndInv, IndInv', Bounds, [Next]_vars PROVE Bounds'
  OBVIOUS
<1> USE DEF vars, contents
<1>0. /\ Typed /\ Typed' /\ calls \in [Callers -> CallType] /\ chan \in Seq(CmdType)
      /\ Count \in Nat /\ Count' \in Nat
  BY DEF IndInv, Typed
<1>a. /\ Begun = Count + Cardinality(InChan) + Cardinality(Sending)
      /\ Cardinality(InChan) \in Nat /\ Cardinality(Sending) \in Nat
      /\ IsFiniteSet(InChan) /\ IsFiniteSet(Sending) /\ Len(chan) \in Nat /\ DOMAIN chan = 1 .. Len(chan)
  BY <1>0, BegunFact DEF BegunParts
<1>b. /\ Begun' = Count' + Cardinality(InChan') + Cardinality(Sending')
      /\ Cardinality(InChan') \in Nat /\ Cardinality(Sending') \in Nat
      /\ IsFiniteSet(InChan') /\ IsFiniteSet(Sending') /\ Len(chan') \in Nat
      /\ DOMAIN chan' = 1 .. Len(chan')
  <2>1. BegunParts'
    BY <1>0, BegunFact, PTL
  <2> QED BY <2>1 DEF BegunParts
<1>1. ASSUME NEW c \in Callers, NEW op \in Ops, NEW r \in Roots, Call(c, op, r) PROVE Bounds'
  <2>1. /\ NeedsId(op) => Begun < MaxIds
        /\ calls[c].state = "returned" /\ UNCHANGED <<chan, swarm>>
        /\ calls' = [calls EXCEPT ![c] = [Idle EXCEPT !.state = "sending", !.op = op, !.root = r]]
    BY <1>1 DEF Call
  <2>2. Count' = Count /\ InChan' = InChan
    BY <2>1 DEF Count, InChan
  <2>3. Sending' = IF NeedsId(op) THEN Sending \cup {c} ELSE Sending
    BY <2>1, <1>0 DEF Sending, Idle
  <2>4. Cardinality(Sending') <= Cardinality(Sending) + IF NeedsId(op) THEN 1 ELSE 0
    <3>1. Cardinality(Sending \cup {c}) <= Cardinality(Sending) + 1
      <4>1. Cardinality(Sending \cup {c}) = IF c \in Sending THEN Cardinality(Sending) ELSE Cardinality(Sending) + 1
        BY <1>a, FS_AddElement
      <4> HIDE DEF Sending
      <4> QED BY <4>1, <1>a
    <3> QED BY <2>3, <3>1, <1>a
  <2> HIDE DEF Begun, Count, InChan, Sending, NeedsId
  <2> QED BY <2>1, <2>2, <2>4, <1>0, <1>a, <1>b, ConstantsFact DEF Bounds
<1>2. ASSUME NEW c \in Callers, Send(c) PROVE Bounds'
  <2> DEFINE cmd == [op |-> calls[c].op, root |-> calls[c].root, who |-> c]
  <2>1. /\ calls[c].state = "sending" /\ Len(chan) < QueueSize /\ chan' = Append(chan, cmd) /\ swarm' = swarm
        /\ \/ calls[c].op \in Posted /\ calls' = [calls EXCEPT ![c] = Idle]
           \/ calls' = [calls EXCEPT ![c] = [calls[c] EXCEPT !.state = "waiting"]]
    BY <1>2 DEF Send, Done, Room
  <2>2. Count' = Count
    BY <2>1 DEF Count
  <2>3. Sending' = Sending \ {c}
    BY <2>1, <1>0 DEF Sending, Idle, CallType
  <2>4. cmd.op = calls[c].op
    OBVIOUS
  <2> HIDE DEF cmd
  <2>5. /\ Len(chan') = Len(chan) + 1 /\ chan'[Len(chan) + 1] = cmd
        /\ \A i \in 1 .. Len(chan) : chan'[i] = chan[i]
    BY <2>1, <1>0
  <2>6. DOMAIN chan' = DOMAIN chan \cup {Len(chan) + 1}
    BY <2>5, <1>a, <1>b
  <2>7. InChan' = IF NeedsId(cmd.op) THEN InChan \cup {Len(chan) + 1} ELSE InChan
    BY <2>5, <2>6, <1>a DEF InChan
  <2>8. NeedsId(cmd.op) <=> c \in Sending
    BY <2>1, <2>4 DEF Sending
  <2>9. Cardinality(InChan') + Cardinality(Sending') <= Cardinality(InChan) + Cardinality(Sending)
    <3>1. Cardinality(InChan \cup {Len(chan) + 1}) <= Cardinality(InChan) + 1
      <4> PICK k : k = Len(chan) + 1
        OBVIOUS
      <4> HIDE DEF InChan
      <4>1. Cardinality(InChan \cup {k}) = IF k \in InChan THEN Cardinality(InChan) ELSE Cardinality(InChan) + 1
        BY <1>a, FS_AddElement
      <4> QED BY <4>1, <1>a
    <3>2. Cardinality(Sending \ {c}) = IF c \in Sending THEN Cardinality(Sending) - 1 ELSE Cardinality(Sending)
      BY <1>a, FS_RemoveElement
    <3> HIDE DEF InChan, Sending
    <3> QED BY <2>3, <2>7, <2>8, <3>1, <3>2, <1>a, <1>b
  <2> HIDE DEF Begun, Count, InChan, Sending
  <2>10. Len(chan') <= QueueSize
    <3>1. Len(chan) < QueueSize /\ Len(chan') = Len(chan) + 1
      BY <2>1, <2>5
    <3>2. Len(chan) \in Nat /\ QueueSize \in Nat
      BY <1>a, ConstantsFact
    <3> QED BY <3>1, <3>2
  <2>11. Begun' <= Begun
    BY <2>2, <2>9, <1>0, <1>a, <1>b
  <2>12. Begun \in Nat /\ Begun' \in Nat
    BY <1>0, <1>a, <1>b, SMTT(30)
  <2> QED BY <2>10, <2>11, <2>12, ConstantsFact DEF Bounds
<1>3. CASE DropHandles \/ CacheSymbols \/ RecordExpires \/ UNCHANGED vars
  <2>1. UNCHANGED <<calls, chan, swarm>>
    BY <1>3 DEF DropHandles, CacheSymbols, RecordExpires
  <2>2. Count' = Count /\ Sending' = Sending
    BY <2>1 DEF Count, Sending
  <2> HIDE DEF Count, Sending
  <2> QED BY <2>1, <2>2, <1>0, BoundsKept
<1>4. CASE LoopEnds
  <2>1. UNCHANGED <<calls, chan>> /\ loop' = "ended"
    BY <1>4 DEF LoopEnds
  <2>2. Count' = 0 /\ Sending' = Sending
    BY <2>1 DEF IndInv, Ended, Sending
  <2> HIDE DEF Count, Sending
  <2> QED BY <2>1, <2>2, <1>0, BoundsKept
<1>5. CASE OnQueryEvent
  <2>1. \E who, answer : calls' = Reply(who, answer) \/ calls' = calls
    BY <1>5 DEF OnQueryEvent, ProvidersFound, GatherProviders, ProvidersFailed, QueryError, RecordFound,
                TakeRecord, RecordFailed, PutDone, ResponseArrives, Answered
  <2>2. Sending' \subseteq Sending
    BY <2>1, <1>0, ReplySends
  <2>3. DOMAIN swarm' = DOMAIN swarm /\ chan' = chan
    BY <1>5 DEF OnQueryEvent, ProvidersFound, ProvidersFailed, RecordFound, RecordFailed, PutDone,
                ResponseArrives, Happens
  <2>4. Count' = Count
    BY <2>3 DEF Count
  <2> HIDE DEF Count, Sending
  <2> QED BY <2>2, <2>3, <2>4, <1>0, BoundsKept
<1>6. CASE OnCommand
  <2> PICK cmd : cmd = Head(chan)
    OBVIOUS
  <2>0. /\ chan # <<>> /\ chan' = Tail(chan)
        /\ StartQuery(cmd) \/ AnswerNow(cmd) \/ Provide(cmd) \/ Unprovide(cmd) \/ SubmitReceipt(cmd)
    BY <1>6 DEF OnCommand
  <2>1. /\ cmd = chan[1] /\ 1 \in DOMAIN chan /\ Len(chan') = Len(chan) - 1
        /\ \A i \in DOMAIN chan' : i \in Nat \ {0} /\ i + 1 \in DOMAIN chan /\ chan'[i] = chan[i + 1]
    BY <2>0, <1>0, ChanTail
  <2>2. Cardinality(InChan') <= Cardinality(InChan \ {1}) /\ Cardinality(InChan \ {1}) \in Nat
    <3>1. IsFiniteSet(InChan \ {1})
      BY <1>a, FS_RemoveElement
    <3> DEFINE f == [i \in InChan' |-> i + 1]
    <3>2. f \in [InChan' -> InChan \ {1}]
      BY <2>1 DEF InChan
    <3>3. \A i, k \in InChan' : f[i] = f[k] => i = k
      BY <2>1 DEF InChan
    <3>4. f \in Injection(InChan', InChan \ {1})
      BY <3>2, <3>3 DEF Injection, IsInjective
    <3> HIDE DEF f
    <3> QED BY <3>1, <3>4, FS_Injection, FS_CardinalityType
  <2>3. 1 \in InChan <=> NeedsId(cmd.op)
    BY <2>1 DEF InChan
  <2>4. Cardinality(InChan \ {1}) = Cardinality(InChan) - IF NeedsId(cmd.op) THEN 1 ELSE 0
    <3>1. Cardinality(InChan \ {1}) = IF 1 \in InChan THEN Cardinality(InChan) - 1 ELSE Cardinality(InChan)
      BY <1>a, FS_RemoveElement
    <3> HIDE DEF InChan
    <3> QED BY <2>3, <3>1, <1>a
  <2>5. Count' <= Count + IF NeedsId(cmd.op) THEN 1 ELSE 0
    <3>1. CASE swarm' = swarm
      BY <3>1, <1>0 DEF Count
    <3>2. ASSUME NEW op \in QueryOps, swarm' = Begin(op), NeedsId(cmd.op)
          PROVE  Count' <= Count + 1
      <4>1. Count' = Count + 1
        BY <3>2, <1>0, BeginFact
      <4> HIDE DEF Count
      <4> QED BY <4>1, <1>0
    <3>3. CASE StartQuery(cmd)
      <4>1. cmd.op \in QueryOps /\ NeedsId(cmd.op) /\ (swarm' = Begin(cmd.op) \/ swarm' = swarm)
        BY <3>3 DEF StartQuery, QueryOps, NeedsId
      <4> QED BY <4>1, <3>1, <3>2
    <3>4. CASE SubmitReceipt(cmd)
      <4>1. "internal" \in QueryOps /\ NeedsId(cmd.op) /\ (swarm' = Begin("internal") \/ swarm' = swarm)
        BY <3>4 DEF SubmitReceipt, QueryOps, NeedsId
      <4> QED BY <4>1, <3>1, <3>2
    <3> QED BY <2>0, <3>1, <3>3, <3>4 DEF AnswerNow, Provide, Unprovide
  <2>6. Sending' \subseteq Sending
    <3>1. calls' = calls \/ calls' = Reply(cmd.who, FALSE) \/ calls' = [calls EXCEPT ![cmd.who].id = NextId]
          \/ calls' = [calls EXCEPT ![cmd.who] = Idle]
      BY <2>0 DEF StartQuery, AnswerNow, Done, Provide, Unprovide, SubmitReceipt
    <3>2. CASE calls' = calls \/ calls' = Reply(cmd.who, FALSE)
      BY <3>2, <1>0, ReplySends
    <3>3. CASE calls' = [calls EXCEPT ![cmd.who].id = NextId]
      BY <3>3, <1>0 DEF Sending, CallType
    <3>4. CASE calls' = [calls EXCEPT ![cmd.who] = Idle]
      BY <3>4, <1>0 DEF Sending, Idle
    <3> QED BY <3>1, <3>2, <3>3, <3>4
  <2>7. Cardinality(Sending') <= Cardinality(Sending)
    BY <2>6, <1>a, FS_Subset
  <2> HIDE DEF Begun, Count, InChan, Sending, NeedsId
  <2>8. Len(chan') <= QueueSize
    BY <2>1, <1>a, <1>b, ConstantsFact DEF Bounds
  <2>9. Begun' <= Begun
    BY <2>2, <2>4, <2>5, <2>7, <1>0, <1>a, <1>b, SMTT(30)
  <2>10. Begun \in Nat /\ Begun' \in Nat
    BY <1>0, <1>a, <1>b, SMTT(30)
  <2> QED BY <2>8, <2>9, <2>10, ConstantsFact DEF Bounds
<1> QED
  BY <1>1, <1>2, <1>3, <1>4, <1>5, <1>6 DEF Next

(* No caller's entry outlives its query, failed ones included, the channel does *)
(* not overflow, and the variables keep their types.                            *)
THEOREM SpecNoLeak == Spec => []NoLeak
<1>1. Init => Bounds
  <2> SUFFICES ASSUME Init PROVE Bounds
    OBVIOUS
  <2>1. DOMAIN swarm = {} /\ DOMAIN chan = {} /\ chan = <<>>
    BY DEF Init
  <2>2. Count = 0
    BY <2>1, FS_EmptySet DEF Count
  <2>3. InChan = {} /\ Sending = {}
    BY <2>1 DEF Init, Idle, InChan, Sending
  <2>4. Cardinality(InChan) = 0 /\ Cardinality(Sending) = 0
    BY <2>3, FS_EmptySet
  <2>5. Begun = Count + Cardinality(InChan) + Cardinality(Sending)
    BY InitIndInv, BegunFact DEF IndInv, BegunParts
  <2> QED BY <2>1, <2>2, <2>4, <2>5, ConstantsFact DEF Bounds
<1>2. IndInv /\ Bounds => NoLeak
  <2> SUFFICES ASSUME IndInv, Bounds PROVE NoLeak
    OBVIOUS
  <2>1. Typed
    BY DEF IndInv
  <2>2. /\ Begun = Count + Cardinality(InChan) + Cardinality(Sending)
        /\ Cardinality(InChan) \in Nat /\ Cardinality(Sending) \in Nat
    BY <2>1, BegunFact DEF BegunParts
  <2>3. Count \in Nat /\ DOMAIN swarm = 1 .. Count /\ DOMAIN pending \subseteq 1 .. Count
    BY <2>1 DEF Typed
  <2>4. \A q \in DOMAIN pending : ~swarm[q].over
    BY DEF IndInv, EntryMatched
  <2>5. \A c \in Callers : calls[c].state \in {"sending", "waiting", "returned"}
    BY <2>1 DEF Typed, CallType
  <2> HIDE DEF Count, InChan, Sending, Begun
  <2>6. DOMAIN swarm \subseteq 1 .. MaxIds
    BY <2>2, <2>3, ConstantsFact DEF Bounds
  <2> QED BY <2>1, <2>3, <2>4, <2>5, <2>6 DEF NoLeak, TypeOK, Ids, Bounds, Typed
<1> QED
  BY <1>1, <1>2, InitIndInv, NextIndInv, NextBounds, PTL DEF Spec
=============================================================================
