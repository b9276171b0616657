---------------------------- MODULE BridgeProofs ----------------------------
(***************************************************************************)
(* Proofs about Bridge for any nodes, torrents, foreign content, piece     *)
(* length, sizes of the reads and bounds.                                  *)
(***************************************************************************)
EXTENDS Bridge, ContentProofs

-----------------------------------------------------------------------------
(* The pieces of a stream                                                  *)
LEMMA DivFact ==
    ASSUME NEW a \in Nat, NEW b \in Nat \ {0}
    PROVE  a \div b \in Nat /\ (a \div b) * b <= a /\ a < (a \div b) * b + b
OBVIOUS

LEMMA MinFact ==
    ASSUME NEW a \in Int, NEW b \in Int
    PROVE  Min({a, b}) = IF a <= b THEN a ELSE b
<1> DEFINE m == IF a <= b THEN a ELSE b
<1>1. m \in {a, b} /\ \A y \in {a, b} : m <= y
  OBVIOUS
<1>2. \A x \in {a, b} : (\A y \in {a, b} : x <= y) => x = m
  OBVIOUS
<1> HIDE DEF m
<1>3. Min({a, b}) = CHOOSE x \in {a, b} : \A y \in {a, b} : x <= y
  BY DEF Min
<1>4. Min({a, b}) = m
  BY <1>1, <1>2, <1>3
<1> QED BY <1>4 DEF m

LEMMA LengthFact == PieceLength \in Nat \ {0}
BY BridgeAssumption DEF BridgeAssumption

LEMMA Grow ==
    ASSUME NEW i \in Nat, NEW j \in Nat, i <= j, NEW p \in Nat
    PROVE  i * p <= j * p /\ i * p \in Nat /\ j * p \in Nat
<1>1. PICK d \in Nat : j = i + d
  <2>1. j - i \in Nat /\ j = i + (j - i)
    OBVIOUS
  <2> QED BY <2>1
<1>2. d * p \in Nat /\ i * p \in Nat
  OBVIOUS
<1>3. j * p = i * p + d * p
  BY <1>1
<1> QED BY <1>2, <1>3

\* How many pieces there are: enough, and not one too many.
PieceCount(len) == (len + PieceLength - 1) \div PieceLength

LEMMA CountFact ==
    ASSUME NEW len \in Nat
    PROVE  LET c == PieceCount(len) IN
           /\ c \in Nat /\ len <= c * PieceLength
           /\ c # 0 => (c - 1) * PieceLength < len
<1> PICK p : p = PieceLength
  OBVIOUS
<1> PICK c : c = PieceCount(len)
  OBVIOUS
<1>1. p \in Nat \ {0} /\ len + p - 1 \in Nat
  BY LengthFact
<1>2. c \in Nat /\ c * p <= len + p - 1 /\ len + p - 1 < c * p + p
  BY <1>1, DivFact DEF PieceCount
<1>3. c * p \in Nat /\ (c - 1) * p = c * p - p
  BY <1>1, <1>2
<1>4. len <= c * p /\ (c - 1) * p < len
  BY <1>1, <1>2, <1>3
<1> QED BY <1>2, <1>4

LEMMA CountIs ==
    ASSUME NEW len \in Nat, NEW c \in Nat, len <= c * PieceLength, c # 0 => (c - 1) * PieceLength < len
    PROVE  PieceCount(len) = c
<1> PICK p : p = PieceLength
  OBVIOUS
<1> PICK d : d = PieceCount(len)
  OBVIOUS
<1>1. p \in Nat \ {0}
  BY LengthFact
<1>2. d \in Nat /\ len <= d * p /\ (d # 0 => (d - 1) * p < len)
  BY CountFact
<1>3. ASSUME d < c PROVE FALSE
  <2>1. c - 1 \in Nat /\ d <= c - 1
    BY <1>2, <1>3
  <2>2. d * p <= (c - 1) * p /\ d * p \in Nat /\ (c - 1) * p \in Nat
    BY <1>1, <1>2, <2>1, Grow
  <2> QED BY <1>2, <1>3, <2>2
<1>4. ASSUME c < d PROVE FALSE
  <2>1. d - 1 \in Nat /\ c <= d - 1
    BY <1>2, <1>4
  <2>2. c * p <= (d - 1) * p /\ c * p \in Nat /\ (d - 1) * p \in Nat
    BY <1>1, <1>2, <2>1, Grow
  <2> QED BY <1>2, <1>4, <2>2
<1> QED BY <1>2, <1>3, <1>4

\* The pieces of a stream.
PieceOf(data, i) ==
    Cut(data, (i - 1) * PieceLength,
        IF i * PieceLength <= Len(data) THEN i * PieceLength ELSE Len(data))

LEMMA PiecesFact ==
    ASSUME NEW S, NEW data \in Seq(S)
    PROVE  /\ Pieces(data) \in Seq(Seq(S))
           /\ Len(Pieces(data)) = PieceCount(Len(data))
           /\ \A i \in 1 .. PieceCount(Len(data)) : Pieces(data)[i] = PieceOf(data, i)
<1> PICK p : p = PieceLength
  OBVIOUS
<1> PICK c : c = PieceCount(Len(data))
  OBVIOUS
<1>1. p \in Nat \ {0} /\ Len(data) \in Nat
  BY LengthFact
<1>2. c \in Nat /\ Len(data) <= c * p /\ (c # 0 => (c - 1) * p < Len(data))
  BY <1>1, CountFact
<1>3. Pieces(data) = [i \in 1 .. c |-> SubSeq(data, (i - 1) * p + 1, Min({i * p, Len(data)}))]
  BY DEF Pieces, PieceCount
<1>4. ASSUME NEW i \in 1 .. c
      PROVE  /\ SubSeq(data, (i - 1) * p + 1, Min({i * p, Len(data)})) = PieceOf(data, i)
             /\ PieceOf(data, i) \in Seq(S)
  <2>1. i * p \in Int /\ Len(data) \in Int
    BY <1>1
  <2>2. Min({i * p, Len(data)}) = IF i * p <= Len(data) THEN i * p ELSE Len(data)
    BY <2>1, MinFact
  <2>3. SubSeq(data, (i - 1) * p + 1, Min({i * p, Len(data)})) = PieceOf(data, i)
    BY <2>2 DEF PieceOf, Cut
  <2>4. i - 1 \in Nat /\ c - 1 \in Nat /\ i - 1 <= c - 1 /\ i \in Nat /\ i - 1 <= i /\ p \in Nat /\ c # 0
    BY <1>1, <1>2
  <2>5. (i - 1) * p <= (c - 1) * p /\ (i - 1) * p \in Nat /\ (c - 1) * p \in Nat
    BY <2>4, Grow
  <2>6. (i - 1) * p <= i * p /\ i * p \in Nat
    BY <2>4, Grow
  <2> PICK e : e = IF i * p <= Len(data) THEN i * p ELSE Len(data)
    OBVIOUS
  <2>7. e \in Nat /\ (i - 1) * p <= e /\ e <= Len(data)
    BY <1>1, <1>2, <2>4, <2>5, <2>6, SMTT(30)
  <2> PICK a : a = (i - 1) * p
    OBVIOUS
  <2>8. In(S, data, a, e)
    BY <2>5, <2>7 DEF In
  <2>9. Cut(data, a, e) \in Seq(S)
    BY <2>8, CutType DEF IsCut
  <2> QED BY <2>3, <2>9 DEF PieceOf
<1>5. Pieces(data) = [i \in 1 .. c |-> PieceOf(data, i)]
  BY <1>3, <1>4
<1>6. Pieces(data) \in [1 .. c -> Seq(S)]
  BY <1>4, <1>5
<1>7. Pieces(data) \in Seq(Seq(S)) /\ Len(Pieces(data)) = c
  BY <1>2, <1>6
<1> QED BY <1>5, <1>7

\* A stream is what its pieces are.
LEMMA PieceLen ==
    ASSUME NEW S, NEW data \in Seq(S), NEW i \in 1 .. PieceCount(Len(data))
    PROVE  /\ (i - 1) * PieceLength \in Nat /\ (i - 1) * PieceLength < Len(data)
           /\ PieceOf(data, i) \in Seq(S)
           /\ Len(PieceOf(data, i)) =
                (IF i * PieceLength <= Len(data) THEN i * PieceLength ELSE Len(data)) - (i - 1) * PieceLength
           /\ \A k \in 1 .. Len(PieceOf(data, i)) : PieceOf(data, i)[k] = data[(i - 1) * PieceLength + k]
<1> PICK p : p = PieceLength
  OBVIOUS
<1> PICK c : c = PieceCount(Len(data))
  OBVIOUS
<1>1. p \in Nat \ {0} /\ Len(data) \in Nat
  BY LengthFact
<1>2. c \in Nat /\ Len(data) <= c * p /\ (c # 0 => (c - 1) * p < Len(data))
  BY <1>1, CountFact
<1>3. i - 1 \in Nat /\ c - 1 \in Nat /\ i - 1 <= c - 1 /\ i \in Nat /\ i - 1 <= i /\ p \in Nat /\ c # 0
  BY <1>1, <1>2
<1>4. (i - 1) * p <= (c - 1) * p /\ (i - 1) * p \in Nat /\ (c - 1) * p \in Nat
  BY <1>3, Grow
<1>5. (i - 1) * p <= i * p /\ i * p \in Nat
  BY <1>3, Grow
<1> PICK e : e = IF i * p <= Len(data) THEN i * p ELSE Len(data)
  OBVIOUS
<1> PICK a : a = (i - 1) * p
  OBVIOUS
<1>6. e \in Nat /\ a \in Nat /\ a <= e /\ e <= Len(data) /\ a < Len(data)
  BY <1>1, <1>2, <1>3, <1>4, <1>5, SMTT(30)
<1>a. In(S, data, a, e)
  BY <1>6 DEF In
<1> PICK t : t = Cut(data, a, e)
  OBVIOUS
<1>7. t \in Seq(S) /\ Len(t) = e - a /\ \A k \in 1 .. e - a : t[k] = data[a + k]
  BY <1>a, CutType DEF IsCut
<1>8. PieceOf(data, i) = t
  BY DEF PieceOf
<1> QED BY <1>6, <1>7, <1>8

\* The pieces of a torrent name its stream: verify_pieces accepts one stream
\* of bytes only, for any piece length.
THEOREM PiecesInjective ==
    ASSUME NEW S, NEW s \in Seq(S), NEW t \in Seq(S), Pieces(s) = Pieces(t)
    PROVE  s = t
<1> PICK p : p = PieceLength
  OBVIOUS
<1> PICK c : c = PieceCount(Len(s))
  OBVIOUS
<1>1. p \in Nat \ {0} /\ Len(s) \in Nat /\ Len(t) \in Nat
  BY LengthFact
<1>2. c = PieceCount(Len(t)) /\ \A i \in 1 .. c : PieceOf(s, i) = PieceOf(t, i)
  BY PiecesFact
<1>3. /\ c \in Nat /\ Len(s) <= c * p /\ (c # 0 => (c - 1) * p < Len(s))
      /\ Len(t) <= c * p /\ (c # 0 => (c - 1) * p < Len(t))
  BY <1>1, <1>2, CountFact
<1>4. Len(s) = Len(t)
  <2>1. CASE c = 0
    BY <1>1, <1>3, <2>1
  <2>2. CASE c # 0
    <3>1. c \in 1 .. c
      BY <1>3, <2>2
    <3> PICK q : q = c * p
      OBVIOUS
    <3> PICK r : r = (c - 1) * p
      OBVIOUS
    <3>2. r \in Nat /\ Len(PieceOf(s, c)) = (IF q <= Len(s) THEN q ELSE Len(s)) - r
      BY <3>1, PieceLen
    <3>3. Len(PieceOf(t, c)) = (IF q <= Len(t) THEN q ELSE Len(t)) - r
      BY <3>1, <1>2, PieceLen
    <3>4. Len(s) <= q /\ Len(t) <= q /\ PieceOf(s, c) = PieceOf(t, c) /\ q \in Nat
      BY <3>1, <1>2, <1>3, <1>1
    <3> QED BY <1>1, <3>2, <3>3, <3>4
  <2> QED BY <2>1, <2>2
<1>5. ASSUME NEW k \in 1 .. Len(s) PROVE s[k] = t[k]
  <2> PICK j : j = (k - 1) \div p
    OBVIOUS
  <2>1. j \in Nat /\ j * p <= k - 1 /\ k - 1 < j * p + p
    <3>1. k - 1 \in Nat
      OBVIOUS
    <3> QED BY <3>1, <1>1, DivFact
  <2>2. j < c
    <3> SUFFICES ASSUME c <= j PROVE FALSE
      BY <1>3, <2>1
    <3>1. c * p <= j * p /\ c * p \in Nat /\ j * p \in Nat
      BY <1>1, <1>3, <2>1, Grow
    <3> QED BY <3>1, <1>1, <1>3, <2>1
  <2>3. j + 1 \in 1 .. c /\ (j + 1) - 1 = j /\ (j + 1) * p = j * p + p /\ j * p \in Nat
    BY <1>1, <1>3, <2>1, <2>2
  <2> PICK i : i = j + 1
    OBVIOUS
  <2> PICK a : a = j * p
    OBVIOUS
  <2>4. i \in 1 .. c /\ (i - 1) * p = a /\ i * p = a + p /\ a \in Nat /\ a < k /\ k <= a + p
    BY <2>1, <2>3, <1>1
  <2>5. /\ Len(PieceOf(s, i)) = (IF i * p <= Len(s) THEN i * p ELSE Len(s)) - (i - 1) * p
        /\ \A x \in 1 .. Len(PieceOf(s, i)) : PieceOf(s, i)[x] = s[(i - 1) * p + x]
    BY <2>4, PieceLen, SMTT(30)
  <2>6. \A x \in 1 .. Len(PieceOf(t, i)) : PieceOf(t, i)[x] = t[(i - 1) * p + x]
    BY <2>4, <1>2, PieceLen, SMTT(30)
  <2>7. k - a \in 1 .. Len(PieceOf(s, i)) /\ a + (k - a) = k
    BY <2>4, <2>5, <1>1
  <2>a. PieceOf(t, i) = PieceOf(s, i)
    BY <2>4, <1>2
  <2>b. PieceOf(s, i)[k - a] = s[a + (k - a)]
    BY <2>4, <2>5, <2>7
  <2>c. PieceOf(t, i)[k - a] = t[a + (k - a)]
    BY <2>4, <2>6, <2>7, <2>a
  <2> QED BY <2>7, <2>a, <2>b, <2>c
<1> QED BY <1>4, <1>5, SeqEqual

-----------------------------------------------------------------------------
(* The streaming verifier                                                  *)
\* What it has kept and checked when it has been given the first got bytes
\* of a stream, and has not yet refused.
FedTo(s, pieces, got, buf, next) ==
    /\ got \in 0 .. Len(s) /\ next \in Nat
    /\ next * PieceLength <= got /\ got < next * PieceLength + PieceLength
    /\ buf = Cut(s, next * PieceLength, got)
    /\ next <= Len(pieces)
    /\ \A i \in 1 .. next : pieces[i] = Cut(s, (i - 1) * PieceLength, i * PieceLength)

LEMMA FedToStart ==
    ASSUME NEW S, NEW s \in Seq(S), NEW pieces \in Seq(Seq(S))
    PROVE  FedTo(s, pieces, 0, <<>>, 0)
<1>1. Cut(s, 0, 0) = <<>>
  BY DEF Cut
<1>2. 0 * PieceLength = 0 /\ PieceLength \in Nat \ {0} /\ Len(s) \in Nat /\ Len(pieces) \in Nat
  BY LengthFact
<1> QED BY <1>1, <1>2 DEF FedTo

LEMMA FedToType ==
    ASSUME NEW S, NEW s \in Seq(S), NEW pieces, NEW got, NEW buf, NEW next,
           FedTo(s, pieces, got, buf, next)
    PROVE  buf \in Seq(S) /\ Len(buf) = got - next * PieceLength /\ Len(buf) < PieceLength
<1>1. PieceLength \in Nat /\ next \in Nat /\ got \in Nat /\ got <= Len(s)
  BY LengthFact DEF FedTo
<1> PICK a : a = next * PieceLength
  OBVIOUS
<1>2. a \in Nat /\ a <= got /\ got < a + PieceLength /\ buf = Cut(s, a, got)
  BY <1>1 DEF FedTo
<1>b. In(S, s, a, got)
  BY <1>1, <1>2 DEF In
<1>3. buf \in Seq(S) /\ Len(buf) = got - a
  BY <1>2, <1>b, CutType DEF IsCut
<1> QED BY <1>1, <1>2, <1>3

LEMMA FeedStep ==
    ASSUME NEW S, NEW s \in Seq(S), NEW pieces \in Seq(Seq(S)), NEW got, NEW buf, NEW next,
           FedTo(s, pieces, got, buf, next), NEW k \in Nat, got + k <= Len(s),
           NEW fed, fed = Feed(buf, next, Cut(s, got, got + k), pieces)
    PROVE  /\ fed.ok \in BOOLEAN
           /\ fed.ok => FedTo(s, pieces, got + k, fed.buf, fed.next)
           /\ ~fed.ok => Pieces(s) # pieces
           /\ fed.buf \in Seq(S) /\ Len(fed.buf) < PieceLength /\ fed.next \in Nat
<1> PICK p : p = PieceLength
  OBVIOUS
<1> PICK a : a = next * p
  OBVIOUS
<1> PICK b : b = got + k
  OBVIOUS
<1> PICK all : all = buf \o Cut(s, got, b)
  OBVIOUS
<1> PICK full : full = Len(all) \div p
  OBVIOUS
<1>1. /\ p \in Nat \ {0} /\ next \in Nat /\ got \in Nat /\ a \in Nat /\ b \in Nat /\ Len(s) \in Nat
      /\ a <= got /\ got <= b /\ b <= Len(s) /\ got < a + p /\ buf = Cut(s, a, got)
      /\ Len(pieces) \in Nat /\ next <= Len(pieces)
      /\ \A i \in 1 .. next : pieces[i] = Cut(s, (i - 1) * p, i * p)
  BY LengthFact DEF FedTo
<1>a. In(S, s, a, got) /\ In(S, s, got, b)
  BY <1>1 DEF In
<1>2. all = Cut(s, a, b) /\ In(S, s, a, b)
  <2>1. Cut(s, a, got) \o Cut(s, got, b) = Cut(s, a, b) /\ In(S, s, a, b)
    BY ONLY <1>a, CutJoin
  <2> QED BY <2>1, <1>1
<1>3. all \in Seq(S) /\ Len(all) = b - a
  <2>1. IsCut(Cut(s, a, b), S, s, a, b)
    BY ONLY <1>2, CutType
  <2> QED BY ONLY <2>1, <1>2 DEF IsCut
<1>4. full \in Nat /\ full * p <= b - a /\ b - a < full * p + p
  <2>1. Len(all) \in Nat
    BY <1>3
  <2> QED BY <2>1, <1>1, <1>3, DivFact
<1> DEFINE piece(i) == SubSeq(all, (i - 1) * p + 1, i * p)
<1>5. fed = [ok |-> \A i \in 1 .. full : next + i <= Len(pieces) /\ piece(i) = pieces[next + i],
             buf |-> SubSeq(all, full * p + 1, Len(all)), next |-> next + full]
  BY DEF Feed
<1>9. fed.next = next + full /\ fed.ok \in BOOLEAN /\ fed.buf = SubSeq(all, full * p + 1, Len(all))
      /\ (fed.ok <=> \A i \in 1 .. full : next + i <= Len(pieces) /\ piece(i) = pieces[next + i])
  <2> DEFINE okay == \A i \in 1 .. full : next + i <= Len(pieces) /\ piece(i) = pieces[next + i]
  <2>1. okay \in BOOLEAN /\ fed = [ok |-> okay, buf |-> SubSeq(all, full * p + 1, Len(all)), next |-> next + full]
    BY <1>5
  <2> HIDE DEF okay
  <2>2. fed.ok = okay
    BY <2>1
  <2>3. fed.buf = SubSeq(all, full * p + 1, Len(all)) /\ fed.next = next + full
    BY ONLY <2>1
  <2> QED BY <2>1, <2>2, <2>3 DEF okay
<1>6. ASSUME NEW i \in 1 .. full
      PROVE  /\ piece(i) = Cut(s, (next + i - 1) * p, (next + i) * p)
             /\ (next + i) * p <= b
  <2>1. i - 1 \in Nat /\ i \in Nat /\ i - 1 <= i /\ i <= full /\ p \in Nat
    BY <1>1, <1>4
  <2>2. (i - 1) * p <= i * p /\ (i - 1) * p \in Nat /\ i * p \in Nat
    BY <2>1, Grow
  <2>3. i * p <= full * p
    BY <2>1, <1>4, Grow
  <2> PICK c : c = (i - 1) * p
    OBVIOUS
  <2> PICK d : d = i * p
    OBVIOUS
  <2>4. c \in Nat /\ d \in Nat /\ c <= d /\ d <= b - a
    BY <2>2, <2>3, <1>1, <1>4
  <2>a. In(S, Cut(s, a, b), c, d)
    BY <2>4, <1>2, <1>3 DEF In
  <2>5. Cut(Cut(s, a, b), c, d) = Cut(s, a + c, a + d)
    BY <1>2, <2>a, CutCut
  <2>6. a + c = (next + i - 1) * p /\ a + d = (next + i) * p
    BY <1>1, <2>1
  <2>7. piece(i) = Cut(all, c, d)
    BY DEF Cut
  <2>8. a + d <= b
    BY <1>1, <2>4
  <2> HIDE DEF piece
  <2> QED BY <2>5, <2>6, <2>7, <2>8, <1>2
<1>7. next + full \in Nat /\ (next + full) * p = a + full * p /\ full * p \in Nat
  BY <1>1, <1>4
<1>8. fed.buf = Cut(s, (next + full) * p, b)
  <2> PICK c : c = full * p
    OBVIOUS
  <2>1. c \in Nat /\ Len(all) \in Nat /\ c <= Len(all)
    BY <1>1, <1>3, <1>4, <1>7, SMTT(30)
  <2>a. In(S, Cut(s, a, b), c, Len(all))
    <3>1. In(S, all, c, Len(all))
      <4>1. Len(all) <= Len(all)
        BY <2>1
      <4> QED BY ONLY <2>1, <4>1, <1>3 DEF In
    <3> QED BY ONLY <3>1, <1>2
  <2>2. Cut(Cut(s, a, b), c, Len(all)) = Cut(s, a + c, a + Len(all))
    BY <1>2, <2>a, CutCut
  <2>3. fed.buf = Cut(all, c, Len(all))
    BY <1>9 DEF Cut
  <2>4. a + Len(all) = b
    BY <1>1, <1>3
  <2> QED BY <2>2, <2>3, <2>4, <1>2, <1>7
<1>10. (next + full) * p <= b /\ b < (next + full) * p + p
  BY <1>1, <1>4, <1>7
<1>11. ASSUME fed.ok PROVE FedTo(s, pieces, b, fed.buf, fed.next)
  <2>1. \A i \in 1 .. full : next + i <= Len(pieces) /\ piece(i) = pieces[next + i]
    BY <1>9, <1>11
  <2>2. next + full <= Len(pieces)
    <3>1. CASE full = 0
      BY <3>1, <1>1
    <3>2. CASE full # 0
      <4>1. full \in 1 .. full
        BY <3>2, <1>4
      <4> QED BY <4>1, <2>1
    <3> QED BY <3>1, <3>2
  <2>3. ASSUME NEW i \in 1 .. next + full PROVE pieces[i] = Cut(s, (i - 1) * p, i * p)
    <3>1. CASE i <= next
      <4>1. i \in 1 .. next
        BY <3>1, <1>1
      <4> QED BY <4>1, <1>1
    <3>2. CASE ~(i <= next)
      <4> PICK j : j = i - next
        OBVIOUS
      <4>1. j \in 1 .. full /\ next + j = i /\ next + j - 1 = i - 1
        BY <3>2, <1>1, <1>4
      <4>2. pieces[next + j] = Cut(s, (next + j - 1) * p, (next + j) * p)
        BY <4>1, <2>1, <1>6
      <4> QED BY <4>1, <4>2
    <3> QED BY <3>1, <3>2
  <2>4. b \in 0 .. Len(s)
    BY <1>1
  <2> HIDE DEF piece
  <2> QED BY <1>7, <1>8, <1>9, <1>10, <2>2, <2>3, <2>4 DEF FedTo
<1>12. ASSUME ~fed.ok, Pieces(s) = pieces PROVE FALSE
  <2>1. PICK i \in 1 .. full : ~(next + i <= Len(pieces) /\ piece(i) = pieces[next + i])
    BY <1>9, <1>12
  <2> PICK c : c = PieceCount(Len(s))
    OBVIOUS
  <2>2. c \in Nat /\ Len(s) <= c * p
    BY <1>1, CountFact
  <2>3. Len(pieces) = c /\ \A j \in 1 .. c : pieces[j] = PieceOf(s, j)
    BY <1>12, PiecesFact
  <2> PICK j : j = next + i
    OBVIOUS
  <2>x. piece(i) = Cut(s, (next + i - 1) * p, (next + i) * p) /\ (next + i) * p <= b
    BY <1>6
  <2>y. ~(next + i <= Len(pieces) /\ piece(i) = pieces[next + i])
    BY <2>1
  <2> HIDE DEF piece
  <2>4. j \in Nat \ {0} /\ j * p <= b
    BY <1>1, <1>4, <2>x
  <2>5. j <= c
    <3> SUFFICES ASSUME c <= j - 1 PROVE FALSE
      BY <2>2, <2>4
    <3>1. j - 1 \in Nat /\ j * p = (j - 1) * p + p
      BY <2>4, <1>1
    <3>2. c * p <= (j - 1) * p /\ c * p \in Nat /\ (j - 1) * p \in Nat
      BY <2>2, <3>1, <1>1, Grow
    <3> QED BY <2>2, <2>4, <3>1, <3>2, <1>1, SMTT(30)
  <2>6. pieces[j] = PieceOf(s, j) /\ j <= Len(pieces)
    BY <2>3, <2>4, <2>5, <2>2
  <2>7. j * p <= Len(s)
    <3>1. j * p \in Nat
      BY <2>4, <1>1
    <3> QED BY <3>1, <2>4, <1>1
  <2>8. PieceOf(s, j) = Cut(s, (j - 1) * p, j * p)
    BY <2>7 DEF PieceOf
  <2>9. piece(i) = Cut(s, (j - 1) * p, j * p)
    <3>1. j - 1 = next + i - 1 /\ j = next + i
      <4>1. next \in Int /\ i \in Int
        BY <1>1
      <4> QED BY ONLY <4>1, j = next + i
    <3> QED BY ONLY <2>x, <3>1
  <2> QED BY <2>y, <2>6, <2>8, <2>9
<1>13. fed.buf \in Seq(S) /\ Len(fed.buf) < p
  <2> PICK c : c = (next + full) * p
    OBVIOUS
  <2>1. c \in Nat /\ c <= b /\ b < c + p /\ b \in Nat /\ b <= Len(s)
    BY <1>1, <1>4, <1>7, <1>10
  <2>a. In(S, s, c, b)
    BY <2>1 DEF In
  <2>2. Cut(s, c, b) \in Seq(S) /\ Len(Cut(s, c, b)) = b - c
    <3>1. IsCut(Cut(s, c, b), S, s, c, b)
      BY ONLY <2>a, CutType
    <3> QED BY ONLY <3>1 DEF IsCut
  <2>3. b - c < p
    BY ONLY <2>1, <1>1
  <2> QED BY ONLY <2>2, <2>3, <1>8, c = (next + full) * p
<1> HIDE DEF piece
<1> QED BY <1>7, <1>9, <1>11, <1>12, <1>13

LEMMA FinishStep ==
    ASSUME NEW S, NEW s \in Seq(S), NEW pieces \in Seq(Seq(S)), NEW buf, NEW next,
           FedTo(s, pieces, Len(s), buf, next)
    PROVE  Finish(buf, next, pieces) <=> Pieces(s) = pieces
<1> PICK p : p = PieceLength
  OBVIOUS
<1> PICK a : a = next * p
  OBVIOUS
<1> PICK len : len = Len(s)
  OBVIOUS
<1>1. /\ p \in Nat \ {0} /\ next \in Nat /\ a \in Nat /\ len \in Nat
      /\ a <= len /\ len < a + p /\ buf = Cut(s, a, len)
      /\ Len(pieces) \in Nat /\ next <= Len(pieces)
      /\ \A i \in 1 .. next : pieces[i] = Cut(s, (i - 1) * p, i * p)
  BY LengthFact DEF FedTo
<1>b. In(S, s, a, len)
  BY <1>1 DEF In
<1>2. buf \in Seq(S) /\ Len(buf) = len - a
  <2>1. IsCut(Cut(s, a, len), S, s, a, len)
    BY ONLY <1>b, CutType
  <2> QED BY <2>1, <1>1 DEF IsCut
<1>3. buf = <<>> <=> len = a
  <2>1. buf = <<>> <=> Len(buf) = 0
    BY <1>2, EmptySeq
  <2> QED BY <2>1, <1>1, <1>2
<1> PICK done : done = IF buf = <<>> THEN next ELSE next + 1
  OBVIOUS
<1>4. Finish(buf, next, pieces) <=>
        /\ buf # <<>> => next < Len(pieces) /\ buf = pieces[next + 1]
        /\ done = Len(pieces)
  BY DEF Finish
<1>5. done \in Nat /\ PieceCount(len) = done
  <2>1. CASE buf = <<>>
    <3>1. done = next /\ len = next * p
      BY <2>1, <1>3
    <3>2. next # 0 => (next - 1) * p < len
      BY <3>1, <1>1
    <3>3. len <= next * p
      BY <3>1, <1>1
    <3> QED BY <3>1, <3>2, <3>3, <1>1, CountIs
  <2>2. CASE buf # <<>>
    <3>1. done = next + 1 /\ done \in Nat /\ len # a
      BY <2>2, <1>1, <1>3
    <3>2. done * p = a + p /\ (done - 1) * p = a
      BY <3>1, <1>1
    <3>3. len <= done * p /\ (done # 0 => (done - 1) * p < len)
      BY <3>1, <3>2, <1>1
    <3> QED BY <3>1, <3>3, <1>1, CountIs
  <2> QED BY <2>1, <2>2
<1>6. /\ Pieces(s) \in Seq(Seq(S)) /\ Len(Pieces(s)) = done
      /\ \A i \in 1 .. done : Pieces(s)[i] = PieceOf(s, i)
  BY <1>5, PiecesFact
<1>7. ASSUME NEW i \in 1 .. next PROVE PieceOf(s, i) = pieces[i]
  <2>1. i \in Nat /\ i <= next /\ p \in Nat
    BY <1>1
  <2>2. i * p <= next * p /\ i * p \in Nat
    BY <2>1, <1>1, Grow
  <2>3. i * p <= len
    BY <2>2, <1>1
  <2> QED BY <2>3, <1>1 DEF PieceOf
<1>8. buf # <<>> => PieceOf(s, next + 1) = buf
  <2> SUFFICES ASSUME buf # <<>> PROVE PieceOf(s, next + 1) = buf
    OBVIOUS
  <2>1. (next + 1) * p = a + p /\ ((next + 1) - 1) * p = a
    BY <1>1
  <2>2. ~((next + 1) * p <= len)
    BY <2>1, <1>1
  <2>3. PieceOf(s, next + 1) = Cut(s, ((next + 1) - 1) * p, len)
    BY <2>2 DEF PieceOf
  <2> QED BY <2>1, <2>3, <1>1
<1>9. ASSUME Finish(buf, next, pieces) PROVE Pieces(s) = pieces
  <2>1. done = Len(pieces) /\ (buf # <<>> => next < Len(pieces) /\ buf = pieces[next + 1])
    BY <1>4, <1>9
  <2>2. ASSUME NEW i \in 1 .. done PROVE Pieces(s)[i] = pieces[i]
    <3>1. CASE i \in 1 .. next
      BY <3>1, <1>6, <1>7
    <3>2. CASE i \notin 1 .. next
      <4>1. buf # <<>> /\ i = next + 1
        BY <3>2, <1>1
      <4> QED BY <4>1, <2>1, <1>6, <1>8
    <3> QED BY <3>1, <3>2
  <2> QED BY <2>1, <2>2, <1>6, SeqEqual
<1>10. ASSUME Pieces(s) = pieces PROVE Finish(buf, next, pieces)
  <2>1. Len(pieces) = done
    BY <1>6, <1>10
  <2>2. ASSUME buf # <<>> PROVE next < Len(pieces) /\ buf = pieces[next + 1]
    <3>1. done = next + 1 /\ next + 1 \in 1 .. done
      BY <2>2, <1>1
    <3> QED BY <3>1, <2>1, <2>2, <1>1, <1>6, <1>8, <1>10
  <2> QED BY <2>1, <2>2, <1>4
<1> QED BY <1>9, <1>10

-----------------------------------------------------------------------------
(* What lies on a disk, and the metadata of a torrent                      *)
\* Every file is one, and none of a torrent's is missing.
HasFiles(d, t) ==
    /\ \A f \in d : f \in FileType
    /\ \A i \in DOMAIN t : \E f \in d : f.path = t[i].path
DiskOk(d, t) == d # {} => HasFiles(d, t)

LEMMA HasFilesOf ==
    ASSUME NEW t \in Seq(FileType), NEW f, DOMAIN f = DOMAIN t,
           \A i \in DOMAIN t : f[i] \in FileType /\ f[i].path = t[i].path
    PROVE  HasFiles(ToSet(f), t)
<1>1. ToSet(f) = {f[i] : i \in DOMAIN f}
  BY DEF ToSet
<1> QED BY <1>1 DEF HasFiles

LEMMA RecutOk ==
    ASSUME NEW t \in Seq(FileType), NEW f \in Recut(t)
    PROVE  HasFiles(ToSet(f), t)
<1> PICK s : s = Stream(t)
  OBVIOUS
<1>1. s \in Seq(Bytes) /\ Len(s) \in Nat
  BY StreamType
<1>2. PICK c \in [1 .. Len(t) + 1 -> 0 .. Len(s)] :
         /\ \A i \in DOMAIN t : c[i] <= c[i + 1]
         /\ f = [i \in DOMAIN t |-> [path |-> t[i].path, data |-> SubSeq(s, c[i] + 1, c[i + 1])]]
  BY DEF Recut
<1>3. ASSUME NEW i \in DOMAIN t PROVE f[i] \in FileType /\ f[i].path = t[i].path
  <2>1. f[i] = [path |-> t[i].path, data |-> SubSeq(s, c[i] + 1, c[i + 1])]
    BY <1>2
  <2>2. i \in 1 .. Len(t) + 1 /\ i + 1 \in 1 .. Len(t) + 1
    OBVIOUS
  <2>3. c[i] \in Nat /\ c[i + 1] \in Nat /\ c[i] <= c[i + 1] /\ c[i + 1] <= Len(s)
    BY <1>1, <1>2, <2>2
  <2>4. In(Bytes, s, c[i], c[i + 1])
    BY <1>1, <2>3 DEF In
  <2>5. SubSeq(s, c[i] + 1, c[i + 1]) \in Seq(Bytes)
    <3>1. IsCut(Cut(s, c[i], c[i + 1]), Bytes, s, c[i], c[i + 1])
      BY ONLY <2>4, CutType
    <3> QED BY ONLY <3>1 DEF IsCut, Cut
  <2>a. t[i] \in FileType
    OBVIOUS
  <2>6. t[i].path \in Seq(Parts)
    BY <2>a, FileFields
  <2> QED BY <2>1, <2>5, <2>6, SMTT(30) DEF FileType
<1>4. DOMAIN f = DOMAIN t
  BY <1>2
<1> QED BY <1>3, <1>4, HasFilesOf

LEMMA DamagedOk ==
    ASSUME NEW t \in Seq(FileType), NEW f \in Damaged(t)
    PROVE  HasFiles(ToSet(f), t)
<1>0. \A j \in DOMAIN t : t[j] \in FileType /\ t[j].path \in Seq(Parts) /\ t[j].data \in Seq(Bytes)
  <2>1. \A j \in DOMAIN t : t[j] \in FileType
    OBVIOUS
  <2> QED BY <2>1, FileFields
<1> DEFINE Flip(i) == {[t EXCEPT ![i].data[k] = 1 - @] : k \in DOMAIN t[i].data}
<1>a. f \in UNION {Flip(i) : i \in DOMAIN t}
      \/ f \in {[t EXCEPT ![i].data = Front(@)] : i \in {j \in DOMAIN t : t[j].data # <<>>}}
  <2> DEFINE A == UNION {Flip(i) : i \in DOMAIN t}
             B == {[t EXCEPT ![i].data = Front(@)] : i \in {j \in DOMAIN t : t[j].data # <<>>}}
  <2>1. Damaged(t) = A \cup B
    BY DEF Damaged
  <2> HIDE DEF A, B
  <2>2. f \in A \/ f \in B
    BY <2>1
  <2> QED BY <2>2 DEF A, B
<1>1. PICK i \in DOMAIN t :
         \/ \E k \in DOMAIN t[i].data : f = [t EXCEPT ![i].data[k] = 1 - @]
         \/ t[i].data # <<>> /\ f = [t EXCEPT ![i].data = Front(@)]
  <2>1. ASSUME f \in UNION {Flip(i) : i \in DOMAIN t}
        PROVE  \E i \in DOMAIN t : f \in Flip(i)
    <3> HIDE DEF Flip
    <3> QED BY <2>1
  <2>2. ASSUME f \in {[t EXCEPT ![i].data = Front(@)] : i \in {j \in DOMAIN t : t[j].data # <<>>}}
        PROVE  \E i \in DOMAIN t : t[i].data # <<>> /\ f = [t EXCEPT ![i].data = Front(@)]
    BY <2>2
  <2> QED BY <1>a, <2>1, <2>2
<1>2. PICK e \in Seq(Bytes) : f = [t EXCEPT ![i].data = e]
  <2>1. ASSUME NEW k \in DOMAIN t[i].data, f = [t EXCEPT ![i].data[k] = 1 - @]
        PROVE  \E e \in Seq(Bytes) : f = [t EXCEPT ![i].data = e]
    <3> DEFINE e == [t[i].data EXCEPT ![k] = 1 - @]
    <3>1. t[i].data \in [1 .. Len(t[i].data) -> Bytes] /\ k \in 1 .. Len(t[i].data) /\ Len(t[i].data) \in Nat
      BY <1>0
    <3>2. t[i].data[k] \in Bytes
      BY <3>1
    <3>3. 1 - t[i].data[k] \in Bytes
      BY <3>2 DEF Bytes
    <3>4. e \in [1 .. Len(t[i].data) -> Bytes]
      BY <3>1, <3>3
    <3>5. e \in Seq(Bytes)
      BY <3>1, <3>4
    <3>6. f = [t EXCEPT ![i].data = e]
      BY <2>1
    <3> QED BY <3>5, <3>6
  <2>2. ASSUME t[i].data # <<>>, f = [t EXCEPT ![i].data = Front(@)]
        PROVE  \E e \in Seq(Bytes) : f = [t EXCEPT ![i].data = e]
    <3>1. Front(t[i].data) \in Seq(Bytes)
      <4> PICK d : d = t[i].data
        OBVIOUS
      <4>1. d \in Seq(Bytes) /\ d # <<>>
        BY <1>0, <2>2
      <4>2. SubSeq(d, 1, Len(d) - 1) \in Seq(Bytes)
        BY ONLY <4>1
      <4>3. Front(d) = SubSeq(d, 1, Len(d) - 1)
        BY DEF Front
      <4> QED BY <4>2, <4>3
    <3> QED BY <2>2, <3>1
  <2> QED BY <1>1, <2>1, <2>2
<1>3. f[i] = [t[i] EXCEPT !.data = e] /\ DOMAIN f = DOMAIN t /\ \A j \in DOMAIN t : j # i => f[j] = t[j]
  BY <1>2
<1>4. f[i] \in FileType /\ f[i].path = t[i].path
  BY <1>0, <1>2, <1>3 DEF FileType
<1>5. \A j \in DOMAIN t : f[j] \in FileType /\ f[j].path = t[j].path
  BY <1>0, <1>3, <1>4
<1> QED BY <1>3, <1>5, HasFilesOf

LEMMA DisksOk ==
    ASSUME NEW t \in Seq(FileType), NEW d \in Disks(t)
    PROVE  DiskOk(d, t)
<1>1. PICK f \in Recut(t) \cup Damaged(t) \cup {<<>>} : d = ToSet(f)
  BY DEF Disks
<1>2. CASE f \in Recut(t)
  BY <1>1, <1>2, RecutOk DEF DiskOk
<1>3. CASE f \in Damaged(t)
  BY <1>1, <1>3, DamagedOk DEF DiskOk
<1>4. CASE f = <<>>
  <2>1. ToSet(f) = {}
    BY <1>4 DEF ToSet
  <2> QED BY <1>1, <2>1 DEF DiskOk
<1> QED BY <1>1, <1>2, <1>3, <1>4

\* The files as a torrent declares them.
LEMMA DeclaredOk ==
    ASSUME NEW n \in Nodes, torrent \in Seq(FileType), HasFiles(disk[n], torrent)
    PROVE  /\ Declared(n) \in Seq(FileType) /\ Len(Declared(n)) = Len(torrent)
           /\ \A i \in 1 .. Len(torrent) : Declared(n)[i].path = torrent[i].path
<1> DEFINE file(i) == CHOOSE f \in disk[n] : f.path = torrent[i].path
<1>1. \A i \in DOMAIN torrent : file(i) \in disk[n] /\ file(i).path = torrent[i].path
  BY DEF HasFiles
<1>2. \A i \in DOMAIN torrent : file(i) \in FileType
  BY <1>1 DEF HasFiles
<1>3. Declared(n) = [i \in DOMAIN torrent |-> file(i)]
  BY DEF Declared
<1> HIDE DEF file
<1>4. DOMAIN torrent = 1 .. Len(torrent) /\ Len(torrent) \in Nat
  OBVIOUS
<1>5. Declared(n) \in [1 .. Len(torrent) -> FileType]
  BY <1>2, <1>3, <1>4
<1>6. Declared(n) \in Seq(FileType) /\ Len(Declared(n)) = Len(torrent)
  BY <1>4, <1>5
<1>7. \A i \in 1 .. Len(torrent) : Declared(n)[i].path = torrent[i].path
  BY <1>1, <1>3, <1>4
<1> QED BY <1>6, <1>7

ParseOk == ParseTorrentFile(torrent).ok

LEMMA MetaFact ==
    ASSUME ParseOk
    PROVE  /\ Meta.pieces = Pieces(Stream(torrent))
           /\ Meta.lengths = [i \in DOMAIN torrent |-> Len(torrent[i].data)]
<1>1. ParseTorrentFile(torrent) =
         Ok([lengths |-> [i \in DOMAIN torrent |-> Len(torrent[i].data)],
             paths |-> [i \in DOMAIN torrent |-> torrent[i].path],
             pieces |-> Pieces(Stream(torrent))])
  BY DEF ParseOk, ParseTorrentFile, Err
<1> QED BY <1>1 DEF Meta, Ok

LEMMA MetaType ==
    ASSUME ParseOk, torrent \in Seq(FileType)
    PROVE  Meta.pieces \in Seq(Seq(Bytes))
<1>1. Stream(torrent) \in Seq(Bytes)
  BY StreamType
<1>2. Pieces(Stream(torrent)) \in Seq(Seq(Bytes))
  BY <1>1, PiecesFact
<1> QED BY <1>2, MetaFact

-----------------------------------------------------------------------------
(* The operations of the nodes, and the first invariant: how far each of them *)
(* has come                                                                *)
Fields == {"pc", "mode", "root", "todo", "man", "reading", "pos", "buf", "next", "converted"}
Pcs == {"start", "resolve", "convert", "ingest", "publish", "map", "done", "failed", "rejected"}
Modes == {"local", "source", "magnet", "pack", "get"}

\* What Declared and Meta are, of the values of the variables.
Found(d, t) == [i \in DOMAIN t |-> CHOOSE f \in d : f.path = t[i].path]
Parsed(t) == ParseTorrentFile(t).ok
PiecesOf(t) == ParseTorrentFile(t).val.pieces
Fits(d, t) == d # {} /\ VerifyPieces(Found(d, t), PiecesOf(t))
Typed(o, t) ==
    /\ DOMAIN o = Fields /\ o.pc \in Pcs /\ o.mode \in Modes /\ o.converted \in BOOLEAN
    /\ o.buf \in Seq(Bytes) /\ Len(o.buf) < PieceLength /\ o.next \in Nat
    /\ o.reading \in 1 .. Len(t) + 1 /\ o.pos \in Nat
Fresh(o) == o.reading = 1 /\ o.pos = 0 /\ o.buf = <<>> /\ o.next = 0

\* How far the file at hand has been read, and what has been fed.
Place(o, d, t) ==
    /\ o.reading <= Len(t) => o.pos <= Len(Found(d, t)[o.reading].data)
    /\ o.reading > Len(t) => o.pos = 0
    /\ FedTo(Stream(Found(d, t)), PiecesOf(t), Off(Datas(Found(d, t)), o.reading - 1) + o.pos,
             o.buf, o.next)
Judged(o, d, t) ==
    /\ o.pc \in {"start", "resolve"} => Fresh(o)
    /\ o.pc = "convert" /\ o.mode = "local" /\ d # {} => Place(o, d, t)
    /\ o.pc \notin {"start", "failed"} /\ o.mode \in {"local", "source"} => Parsed(t)
    /\ o.pc \in {"ingest", "publish", "map"} /\ o.mode # "pack" => Parsed(t) /\ Fits(d, t)
    /\ o.pc = "rejected" => ~VerifyPieces(Found(d, t), PiecesOf(t))
    /\ o.mode = "pack" => o.pc \in {"start", "ingest", "done", "failed"}
    /\ o.mode = "get" => o.pc \in {"start", "done", "failed"}
    /\ o.pc \in {"publish", "map"} => o.converted
    /\ o.converted => /\ o.pc \in {"publish", "map", "done"} /\ o.mode # "pack"
                      /\ Parsed(t) /\ Fits(d, t) /\ o.man = FromFiles(Found(d, t))
NodeOk(o, d, t) == Typed(o, t) /\ Judged(o, d, t)
World ==
    /\ torrent \in Seq(FileType) /\ DOMAIN op = Nodes
    /\ DOMAIN store = Nodes /\ DOMAIN provided = Nodes
    /\ \A n \in Nodes : DiskOk(disk[n], torrent)
    /\ mapping \in {None, foreign.root} \cup {op[n].man.root : n \in {x \in Nodes : op[x].converted}}
NodesOk == \A n \in Nodes : NodeOk(op[n], disk[n], torrent)

LEMMA DeclaredIs ==
    ASSUME NEW n \in Nodes
    PROVE  Declared(n) = Found(disk[n], torrent) /\ Meta.pieces = PiecesOf(torrent)
BY DEF Declared, Found, Meta, PiecesOf

LEMMA FoundOk ==
    ASSUME NEW n \in Nodes, torrent \in Seq(FileType), DiskOk(disk[n], torrent), disk[n] # {}
    PROVE  /\ Found(disk[n], torrent) \in Seq(FileType)
           /\ Len(Found(disk[n], torrent)) = Len(torrent)
           /\ \A i \in 1 .. Len(torrent) : Found(disk[n], torrent)[i].path = torrent[i].path
<1>1. HasFiles(disk[n], torrent)
  BY DEF DiskOk
<1>2. Declared(n) = Found(disk[n], torrent)
  BY DeclaredIs
<1> QED BY <1>1, <1>2, DeclaredOk

LEMMA PiecesOfType ==
    ASSUME Parsed(torrent), torrent \in Seq(FileType)
    PROVE  PiecesOf(torrent) \in Seq(Seq(Bytes)) /\ PiecesOf(torrent) = Pieces(Stream(torrent))
<1>1. ParseOk /\ Meta.pieces = PiecesOf(torrent)
  BY DEF ParseOk, Parsed, Meta, PiecesOf
<1> QED BY <1>1, MetaType, MetaFact

\* What an operation leaves alone.
Only(p, o, F) == DOMAIN p = DOMAIN o /\ \A f \in DOMAIN o \ F : p[f] = o[f]
Frame(n) == DOMAIN op' = Nodes /\ \A x \in Nodes \ {n} : op'[x] = op[x]
Still == torrent' = torrent /\ disk' = disk /\ foreign' = foreign

LEMMA GotoFact ==
    ASSUME NEW n \in Nodes, DOMAIN op = Nodes, DOMAIN op[n] = Fields, NEW pc, Goto(n, pc)
    PROVE  Frame(n) /\ op'[n].pc = pc /\ Only(op'[n], op[n], {"pc"})
<1>1. op' = [op EXCEPT ![n].pc = pc]
  BY DEF Goto
<1>2. op'[n] = [op[n] EXCEPT !.pc = pc]
  BY <1>1
<1>3. "pc" \in DOMAIN op[n]
  BY DEF Fields
<1> QED BY <1>1, <1>2, <1>3 DEF Frame, Only

LEMMA Unread ==
    ASSUME NEW o, NEW p, NEW d, NEW t, Typed(o, t), Only(p, o, {"pc"}), p.pc \in Pcs
    PROVE  /\ Typed(p, t) /\ (Fresh(o) => Fresh(p)) /\ (Place(o, d, t) => Place(p, d, t))
           /\ p.mode = o.mode /\ p.converted = o.converted /\ p.man = o.man
<1>1. DOMAIN o = Fields /\ DOMAIN p = Fields
  BY DEF Typed, Only
<1>2. /\ p["mode"] = o["mode"] /\ p["reading"] = o["reading"] /\ p["pos"] = o["pos"] /\ p["buf"] = o["buf"]
      /\ p["next"] = o["next"] /\ p["converted"] = o["converted"] /\ p["man"] = o["man"]
  BY <1>1 DEF Only, Fields
<1>3. Typed(p, t)
  BY <1>1, <1>2 DEF Typed
<1>4. Fresh(o) => Fresh(p)
  BY <1>2 DEF Fresh
<1>5. Place(o, d, t) => Place(p, d, t)
  BY <1>2 DEF Place
<1> QED BY <1>2, <1>3, <1>4, <1>5

Moves(n) == Frame(n) /\ NodeOk(op'[n], disk[n], torrent) /\ op'[n].mode = op[n].mode
Keeps(n) == op'[n].man = op[n].man /\ op'[n].converted = op[n].converted

\* Nothing has been read yet.
LEMMA FreshPlace ==
    ASSUME NEW n \in Nodes, torrent \in Seq(FileType), DiskOk(disk[n], torrent), disk[n] # {},
           Parsed(torrent), NEW p, Fresh(p)
    PROVE  Place(p, disk[n], torrent)
<1>2. Found(disk[n], torrent) \in Seq(FileType) /\ Len(Found(disk[n], torrent)) = Len(torrent)
  BY FoundOk
<1>3. Stream(Found(disk[n], torrent)) \in Seq(Bytes) /\ Datas(Found(disk[n], torrent)) \in Seq(Seq(Bytes))
  BY <1>2, StreamType
<1>4. PiecesOf(torrent) \in Seq(Seq(Bytes))
  BY PiecesOfType
<1>5. FedTo(Stream(Found(disk[n], torrent)), PiecesOf(torrent), 0, <<>>, 0)
  BY <1>3, <1>4, FedToStart
<1>6. Off(Datas(Found(disk[n], torrent)), 0) = 0
  BY <1>3, OffStep
<1>7. p.reading = 1 /\ p.pos = 0 /\ p.buf = <<>> /\ p.next = 0
  BY DEF Fresh
<1>8. p.reading <= Len(torrent) => p.pos <= Len(Found(disk[n], torrent)[p.reading].data)
  <2> HAVE p.reading <= Len(torrent)
  <2>1. 1 \in 1 .. Len(torrent)
    BY <1>7
  <2>2. Found(disk[n], torrent)[1] \in FileType
    BY <2>1, <1>2
  <2> QED BY <2>2, <1>7, FileFields
<1> QED BY <1>5, <1>6, <1>7, <1>8 DEF Place

LEMMA LookupOk ==
    ASSUME NEW n \in Nodes, World, NodesOk, Lookup(n)
    PROVE  Moves(n) /\ Keeps(n)
<1> PICK o : o = op[n]
  OBVIOUS
<1> PICK p : p = op'[n]
  OBVIOUS
<1>1. Typed(o, torrent) /\ Judged(o, disk[n], torrent) /\ DOMAIN op = Nodes
  BY DEF NodesOk, NodeOk, World
<1>2. o.pc = "start" /\ o.mode \notin {"pack", "get"} /\ Fresh(o) /\ ~o.converted
  BY <1>1 DEF Lookup, Judged, Typed
<1>3. CASE ~(o.mode = "magnet" \/ Parsed(torrent))
  <2>1. Goto(n, "failed")
    BY <1>3 DEF Lookup, Parsed
  <2>2. Frame(n) /\ p.pc = "failed" /\ Only(p, o, {"pc"})
    BY <2>1, <1>1, GotoFact DEF Typed
  <2>3. Typed(p, torrent) /\ p.mode = o.mode /\ p.converted = o.converted /\ p.man = o.man
    BY <2>2, <1>1, Unread DEF Pcs
  <2>4. Judged(p, disk[n], torrent)
    BY <2>2, <2>3, <1>2 DEF Judged
  <2> QED BY <2>2, <2>3, <2>4 DEF Moves, Keeps, NodeOk
<1>4. CASE o.mode = "magnet" \/ Parsed(torrent)
  <2> DEFINE pc == IF mapping = None THEN "convert" ELSE "resolve"
             todo == {m \in {provided[x] : x \in Nodes \ {n}} \cup {foreign} :
                                            m # None /\ m.root = mapping}
  <2>1. op' = [op EXCEPT ![n].pc = pc, ![n].root = mapping, ![n].todo = todo]
    BY <1>4 DEF Lookup, Parsed
  <2> HIDE DEF pc, todo
  <2>2. Frame(n) /\ p = [o EXCEPT !.pc = pc, !.root = mapping, !.todo = todo]
    BY <2>1, <1>1 DEF Frame
  <2>3. p.pc = pc /\ Only(p, o, {"pc", "root", "todo"})
    BY <2>2, <1>1 DEF Only, Typed, Fields
  <2>4. /\ DOMAIN p = Fields /\ p.mode = o.mode /\ p.converted = o.converted /\ p.man = o.man
        /\ p.reading = o.reading /\ p.pos = o.pos /\ p.buf = o.buf /\ p.next = o.next
    BY <2>3, <1>1 DEF Only, Typed, Fields
  <2>5. pc \in {"convert", "resolve"}
    BY DEF pc
  <2>6. Typed(p, torrent)
    BY <2>3, <2>4, <2>5, <1>1 DEF Typed, Pcs
  <2>7. Fresh(p)
    BY <2>4, <1>2 DEF Fresh
  <2>8. o.mode = "local" /\ disk[n] # {} => Place(p, disk[n], torrent)
    BY <2>7, <1>4, FreshPlace DEF World
  <2>9. Judged(p, disk[n], torrent)
    BY <2>3, <2>4, <2>5, <2>7, <2>8, <1>2, <1>4 DEF Judged
  <2> QED BY <2>2, <2>4, <2>6, <2>9 DEF Moves, Keeps, NodeOk
<1> QED BY <1>3, <1>4

\* What is done with one provider.
Try(n, m, got, accepted) ==
      LET files == ReconstructFiles(m, store[n] \cup HashesOf(m))
          fits == ~Verifies(op[n].mode) \/ (files.ok /\ VerifyPieces(files.val, Meta.pieces))
      IN  /\ op[n].pc = "resolve"
          /\ accepted => got = HashesOf(m)
          /\ accepted \/ Cardinality(got) <= MaxLeft
          /\ accepted \/ got # {} => AcceptsManifest(m, op[n].root)
          /\ store' = [store EXCEPT ![n] = @ \cup got]
          /\ op' = [op EXCEPT ![n].todo = @ \ {m},
                              ![n].man = IF accepted /\ fits THEN m ELSE None,
                              ![n].pc = IF ~accepted THEN "resolve"
                                        ELSE IF Verifies(op[n].mode) /\ ~files.ok THEN "failed"
                                        ELSE IF fits THEN "done" ELSE "resolve"]
          /\ UNCHANGED <<torrent, disk, foreign, mapping, provided>>

LEMMA TryIs ==
    ASSUME NEW n, TryProvider(n)
    PROVE  \E m \in op[n].todo : \E got \in SUBSET HashesOf(m), accepted \in BOOLEAN : Try(n, m, got, accepted)
BY Zenon DEF TryProvider, Try

LEMMA TryProviderOk ==
    ASSUME NEW n \in Nodes, World, NodesOk, TryProvider(n)
    PROVE  Moves(n) /\ ~op[n].converted /\ op'[n].converted = op[n].converted
<1> PICK o : o = op[n]
  OBVIOUS
<1> PICK p : p = op'[n]
  OBVIOUS
<1>1. Typed(o, torrent) /\ Judged(o, disk[n], torrent) /\ DOMAIN op = Nodes
  BY DEF NodesOk, NodeOk, World
<1>2. o.pc = "resolve"
  BY DEF TryProvider
<1>3. /\ Fresh(o) /\ ~o.converted /\ o.mode \notin {"pack", "get"}
      /\ (o.mode \in {"local", "source"} => Parsed(torrent))
  BY <1>1, <1>2 DEF Judged, Typed
<1>4. \E todo, man, pc : /\ op' = [op EXCEPT ![n].todo = todo, ![n].man = man, ![n].pc = pc]
                         /\ pc \in {"resolve", "failed", "done"}
  <2>1. PICK m \in op[n].todo : \E got \in SUBSET HashesOf(m), accepted \in BOOLEAN : Try(n, m, got, accepted)
    BY TryIs
  <2>2. PICK got \in SUBSET HashesOf(m), accepted \in BOOLEAN : Try(n, m, got, accepted)
    BY <2>1
  <2> DEFINE files == ReconstructFiles(m, store[n] \cup HashesOf(m))
             fits == ~Verifies(op[n].mode) \/ (files.ok /\ VerifyPieces(files.val, Meta.pieces))
             man == IF accepted /\ fits THEN m ELSE None
             pc == IF ~accepted THEN "resolve"
                                        ELSE IF Verifies(op[n].mode) /\ ~files.ok THEN "failed"
                                        ELSE IF fits THEN "done" ELSE "resolve"
  <2>3. pc \in {"resolve", "failed", "done"}
    OBVIOUS
  <2>4. op' = [op EXCEPT ![n].todo = @ \ {m}, ![n].man = man, ![n].pc = pc]
    BY <2>2 DEF Try
  <2> HIDE DEF man, pc
  <2>5. op' = [op EXCEPT ![n].todo = op[n].todo \ {m}, ![n].man = man, ![n].pc = pc]
    BY <2>4
  <2> QED BY <2>3, <2>5
<1>5. PICK todo, man, pc : /\ op' = [op EXCEPT ![n].todo = todo, ![n].man = man, ![n].pc = pc]
                           /\ pc \in {"resolve", "failed", "done"}
  BY <1>4
<1>6. Frame(n) /\ p = [o EXCEPT !.todo = todo, !.man = man, !.pc = pc]
  BY <1>5, <1>1 DEF Frame
<1>7. p.pc = pc /\ Only(p, o, {"pc", "man", "todo"})
  BY <1>6, <1>1 DEF Only, Typed, Fields
<1>8. /\ DOMAIN p = Fields /\ p.mode = o.mode /\ p.converted = o.converted
      /\ p.reading = o.reading /\ p.pos = o.pos /\ p.buf = o.buf /\ p.next = o.next
  BY <1>7, <1>1 DEF Only, Typed, Fields
<1>9. Typed(p, torrent)
  BY <1>5, <1>7, <1>8, <1>1 DEF Typed, Pcs
<1>10. Fresh(p)
  BY <1>8, <1>3 DEF Fresh
<1>11. Judged(p, disk[n], torrent)
  BY <1>5, <1>7, <1>8, <1>10, <1>3 DEF Judged
<1> QED BY <1>3, <1>6, <1>8, <1>9, <1>11 DEF Moves, NodeOk

LEMMA NoProviderOk ==
    ASSUME NEW n \in Nodes, World, NodesOk, NoProvider(n)
    PROVE  Moves(n) /\ Keeps(n)
<1> PICK o : o = op[n]
  OBVIOUS
<1> PICK p : p = op'[n]
  OBVIOUS
<1>1. Typed(o, torrent) /\ Judged(o, disk[n], torrent) /\ DOMAIN op = Nodes
  BY DEF NodesOk, NodeOk, World
<1>2. Goto(n, "convert") /\ o.pc = "resolve"
  BY DEF NoProvider
<1>3. Frame(n) /\ p.pc = "convert" /\ Only(p, o, {"pc"})
  BY <1>2, <1>1, GotoFact DEF Typed
<1>4. Typed(p, torrent) /\ p.mode = o.mode /\ p.converted = o.converted /\ p.man = o.man /\ (Fresh(o) => Fresh(p))
  BY <1>3, <1>1, Unread DEF Pcs
<1>5. Fresh(p) /\ ~o.converted /\ o.mode \notin {"pack", "get"} /\ (o.mode \in {"local", "source"} => Parsed(torrent))
  BY <1>4, <1>1, <1>2 DEF Judged, Typed
<1>6. o.mode = "local" /\ disk[n] # {} => Place(p, disk[n], torrent)
  BY <1>5, FreshPlace DEF World
<1>7. Judged(p, disk[n], torrent)
  BY <1>3, <1>4, <1>5, <1>6 DEF Judged
<1> QED BY <1>3, <1>4, <1>7 DEF Moves, Keeps, NodeOk

\* The verifier is at work on the declared files of n.
Streaming(n) ==
    /\ World /\ NodesOk /\ op[n].pc = "convert" /\ op[n].mode = "local" /\ disk[n] # {}

LEMMA StreamingFact ==
    ASSUME NEW n \in Nodes, Streaming(n)
    PROVE  /\ Typed(op[n], torrent) /\ Place(op[n], disk[n], torrent) /\ Parsed(torrent) /\ ~op[n].converted
           /\ Found(disk[n], torrent) \in Seq(FileType) /\ Len(Found(disk[n], torrent)) = Len(torrent)
           /\ torrent \in Seq(FileType) /\ DOMAIN op = Nodes
           /\ Stream(Found(disk[n], torrent)) = FlattenSeq(Datas(Found(disk[n], torrent)))
           /\ Stream(Found(disk[n], torrent)) \in Seq(Bytes)
           /\ Datas(Found(disk[n], torrent)) \in Seq(Seq(Bytes))
           /\ Len(Datas(Found(disk[n], torrent))) = Len(torrent)
           /\ \A i \in 1 .. Len(torrent) : Datas(Found(disk[n], torrent))[i] = Found(disk[n], torrent)[i].data
           /\ PiecesOf(torrent) \in Seq(Seq(Bytes))
<1>1. Typed(op[n], torrent) /\ Judged(op[n], disk[n], torrent)
  BY DEF Streaming, NodesOk, NodeOk
<1>2. Place(op[n], disk[n], torrent) /\ Parsed(torrent) /\ ~op[n].converted
  BY <1>1 DEF Streaming, Judged
<1>3. torrent \in Seq(FileType) /\ DOMAIN op = Nodes /\ DiskOk(disk[n], torrent) /\ disk[n] # {}
  BY DEF Streaming, World
<1>4. Found(disk[n], torrent) \in Seq(FileType) /\ Len(Found(disk[n], torrent)) = Len(torrent)
  BY <1>3, FoundOk
<1>5. PiecesOf(torrent) \in Seq(Seq(Bytes))
  BY <1>2, <1>3, PiecesOfType
<1> QED BY <1>1, <1>2, <1>3, <1>4, <1>5, StreamType

\* A read within a file, as a part of the stream.
IsPart(ss, r, pos, k, got) ==
    /\ SubSeq(ss[r], pos + 1, pos + k) = Cut(FlattenSeq(ss), got, got + k)
    /\ got + k <= Len(FlattenSeq(ss)) /\ got \in Nat

LEMMA PartOfStream ==
    ASSUME NEW ss \in Seq(Seq(Bytes)), NEW r \in 1 .. Len(ss), NEW pos \in Nat, NEW k \in Nat,
           pos + k <= Len(ss[r])
    PROVE  IsPart(ss, r, pos, k, Off(ss, r - 1) + pos)
<1> PICK got : got = Off(ss, r - 1) + pos
  OBVIOUS
<1> PICK s : s = FlattenSeq(ss)
  OBVIOUS
<1> PICK a : a = Off(ss, r - 1)
  OBVIOUS
<1> PICK b : b = Off(ss, r)
  OBVIOUS
<1>1. In(Bytes, s, a, b) /\ Cut(s, a, b) = ss[r]
  BY FlatAt
<1>2. a \in Nat /\ b \in Nat /\ a <= b /\ b <= Len(s) /\ Len(s) \in Nat
  BY <1>1 DEF In
<1>3. IsCut(Cut(s, a, b), Bytes, s, a, b)
  BY ONLY <1>1, CutType
<1>4. Cut(s, a, b) \in Seq(Bytes) /\ Len(Cut(s, a, b)) = b - a /\ pos + k <= b - a
  BY <1>1, <1>3 DEF IsCut
<1>5. In(Bytes, Cut(s, a, b), pos, pos + k)
  BY <1>4 DEF In
<1>6. Cut(Cut(s, a, b), pos, pos + k) = Cut(s, a + pos, a + (pos + k))
  BY ONLY <1>1, <1>5, CutCut
<1>7. a + (pos + k) = got + k /\ a + pos = got /\ got + k <= Len(s) /\ got \in Nat
  <2>1. got = a + pos
    OBVIOUS
  <2>2. a \in Nat /\ pos \in Nat /\ k \in Nat /\ b \in Nat
    BY <1>2
  <2> QED BY ONLY <2>1, <2>2, <1>2, <1>4
<1>8. Cut(ss[r], pos, pos + k) = Cut(s, got, got + k)
  BY <1>1, <1>6, <1>7
<1> QED BY <1>7, <1>8 DEF Cut, IsPart

LEMMA ReadOk ==
    ASSUME NEW n \in Nodes, World, NodesOk, Read(n)
    PROVE  Moves(n) /\ Keeps(n)
<1> PICK o : o = op[n]
  OBVIOUS
<1> PICK p : p = op'[n]
  OBVIOUS
<1> PICK fd : fd = Found(disk[n], torrent)
  OBVIOUS
<1> PICK pieces : pieces = PiecesOf(torrent)
  OBVIOUS
<1>1. Streaming(n)
  BY DEF Read, Streaming
<1>2. /\ Typed(o, torrent) /\ Place(o, disk[n], torrent) /\ Parsed(torrent) /\ ~o.converted
      /\ fd \in Seq(FileType) /\ Len(fd) = Len(torrent) /\ DOMAIN op = Nodes /\ torrent \in Seq(FileType)
      /\ Stream(fd) = FlattenSeq(Datas(fd)) /\ Stream(fd) \in Seq(Bytes)
      /\ Datas(fd) \in Seq(Seq(Bytes)) /\ Len(Datas(fd)) = Len(torrent)
      /\ \A i \in 1 .. Len(torrent) : Datas(fd)[i] = fd[i].data
      /\ pieces \in Seq(Seq(Bytes))
  BY <1>1, StreamingFact
<1>3. Declared(n) = fd /\ Meta.pieces = pieces
  BY DeclaredIs
<1>4. /\ o.pc = "convert" /\ o.mode = "local" /\ o.reading <= Len(torrent)
      /\ \E k \in 1 .. MaxWindow :
             LET fed == Feed(o.buf, o.next, SubSeq(fd[o.reading].data, o.pos + 1, o.pos + k), pieces)
             IN  /\ o.pos + k <= Len(fd[o.reading].data)
                 /\ op' = [op EXCEPT ![n].pos = o.pos + k, ![n].buf = fed.buf,
                                     ![n].next = fed.next,
                                     ![n].pc = IF fed.ok THEN "convert" ELSE "rejected"]
  BY <1>3 DEF Read
<1> PICK r : r = o.reading
  OBVIOUS
<1>5. r \in 1 .. Len(torrent) /\ o.pos \in Nat /\ o.next \in Nat
  <2>1. r \in 1 .. Len(torrent) + 1 /\ o.pos \in Nat /\ o.next \in Nat
    BY <1>2 DEF Typed
  <2>2. r <= Len(torrent) /\ Len(torrent) \in Nat
    <3>1. r <= Len(torrent)
      BY <1>4
    <3>2. torrent \in Seq(FileType)
      BY <1>2
    <3> QED BY <3>1, <3>2
  <2> QED BY <2>1, <2>2
<1>6. PICK k \in 1 .. MaxWindow :
             LET fed == Feed(o.buf, o.next, SubSeq(fd[o.reading].data, o.pos + 1, o.pos + k), pieces)
             IN  /\ o.pos + k <= Len(fd[o.reading].data)
                 /\ op' = [op EXCEPT ![n].pos = o.pos + k, ![n].buf = fed.buf,
                                     ![n].next = fed.next,
                                     ![n].pc = IF fed.ok THEN "convert" ELSE "rejected"]
  BY <1>4
<1> PICK fed : fed = Feed(o.buf, o.next, SubSeq(fd[r].data, o.pos + 1, o.pos + k), pieces)
  OBVIOUS
<1>7. /\ o.pos + k <= Len(fd[r].data)
      /\ op' = [op EXCEPT ![n].pos = o.pos + k, ![n].buf = fed.buf, ![n].next = fed.next,
                          ![n].pc = IF fed.ok THEN "convert" ELSE "rejected"]
  BY <1>6
<1>8. k \in Nat /\ fd[r].data = Datas(fd)[r] /\ r \in 1 .. Len(Datas(fd))
  BY <1>2, <1>5
<1> PICK got : got = Off(Datas(fd), r - 1) + o.pos
  OBVIOUS
<1>9. /\ SubSeq(fd[r].data, o.pos + 1, o.pos + k) = Cut(Stream(fd), got, got + k)
      /\ got + k <= Len(Stream(fd)) /\ got \in Nat
  <2> PICK ss : ss = Datas(fd)
    OBVIOUS
  <2> PICK pos : pos = o.pos
    OBVIOUS
  <2>1. /\ ss \in Seq(Seq(Bytes)) /\ r \in 1 .. Len(ss) /\ pos \in Nat /\ k \in Nat
        /\ pos + k <= Len(ss[r]) /\ got = Off(ss, r - 1) + pos
    BY <1>2, <1>5, <1>7, <1>8
  <2>2. IsPart(ss, r, pos, k, got)
    BY <2>1, PartOfStream
  <2> QED BY <2>2, <1>2, <1>8 DEF IsPart
<1>10. FedTo(Stream(fd), pieces, got, o.buf, o.next)
  BY <1>2 DEF Place
<1>11. fed = Feed(o.buf, o.next, Cut(Stream(fd), got, got + k), pieces)
  BY <1>9
<1>12. /\ fed.ok \in BOOLEAN
       /\ fed.ok => FedTo(Stream(fd), pieces, got + k, fed.buf, fed.next)
       /\ ~fed.ok => Pieces(Stream(fd)) # pieces
       /\ fed.buf \in Seq(Bytes) /\ Len(fed.buf) < PieceLength /\ fed.next \in Nat
  BY <1>2, <1>8, <1>9, <1>10, <1>11, FeedStep, SMTT(30)
<1> PICK pc : pc = IF fed.ok THEN "convert" ELSE "rejected"
  OBVIOUS
<1>13. op' = [op EXCEPT ![n].pos = o.pos + k, ![n].buf = fed.buf, ![n].next = fed.next, ![n].pc = pc]
  BY <1>7
<1>14. Frame(n) /\ p = [o EXCEPT !.pos = o.pos + k, !.buf = fed.buf, !.next = fed.next, !.pc = pc]
  BY <1>2, <1>13 DEF Frame
<1>15. /\ DOMAIN p = Fields /\ p.mode = o.mode /\ p.converted = o.converted /\ p.man = o.man
       /\ p.reading = r /\ p.pos = o.pos + k /\ p.buf = fed.buf /\ p.next = fed.next /\ p.pc = pc
  BY <1>2, <1>14 DEF Typed, Fields
<1>16. pc \in {"convert", "rejected"}
  OBVIOUS
<1>17. o.pos + k \in Nat
  BY <1>5, <1>8, SMTT(30)
<1>18. Typed(p, torrent)
  BY <1>2, <1>12, <1>15, <1>16, <1>17 DEF Typed, Pcs
<1>19. pc = "convert" => Place(p, disk[n], torrent)
  <2> HAVE pc = "convert"
  <2>1. FedTo(Stream(fd), pieces, got + k, fed.buf, fed.next)
    BY <1>12
  <2>2. Off(Datas(fd), p.reading - 1) + p.pos = got + k
    <3>1. Off(Datas(fd), r - 1) \in Nat
      <4>1. r - 1 \in 0 .. Len(Datas(fd))
        <5>1. Len(Datas(fd)) \in Nat /\ r \in 1 .. Len(Datas(fd))
          BY <1>2, <1>8
        <5> QED BY ONLY <5>1
      <4> QED BY <4>1, <1>2, OffStep
    <3> PICK x : x = Off(Datas(fd), r - 1)
      OBVIOUS
    <3>2. Off(Datas(fd), p.reading - 1) = x /\ p.pos = o.pos + k /\ got = x + o.pos
      BY <1>15
    <3> QED BY <3>1, <3>2, <1>5, <1>8
  <2>3. p.reading <= Len(torrent) /\ ~(p.reading > Len(torrent))
    BY <1>5, <1>15, <1>2
  <2>4. p.pos <= Len(fd[p.reading].data)
    BY <1>7, <1>15
  <2> QED BY <2>1, <2>2, <2>3, <2>4, <1>15 DEF Place
<1>20. pc = "rejected" => ~VerifyPieces(fd, pieces)
  BY <1>12 DEF VerifyPieces
<1>21. Judged(p, disk[n], torrent)
  BY <1>2, <1>4, <1>15, <1>16, <1>19, <1>20 DEF Judged
<1> QED BY <1>14, <1>15, <1>18, <1>21 DEF Moves, Keeps, NodeOk

LEMMA NextFileOk ==
    ASSUME NEW n \in Nodes, World, NodesOk, NextFile(n)
    PROVE  Moves(n) /\ Keeps(n)
<1> PICK o : o = op[n]
  OBVIOUS
<1> PICK p : p = op'[n]
  OBVIOUS
<1> PICK fd : fd = Found(disk[n], torrent)
  OBVIOUS
<1> PICK ss : ss = Datas(fd)
  OBVIOUS
<1>1. Streaming(n)
  BY DEF NextFile, Streaming
<1>2. /\ Typed(o, torrent) /\ Place(o, disk[n], torrent) /\ Parsed(torrent) /\ ~o.converted
      /\ fd \in Seq(FileType) /\ Len(fd) = Len(torrent) /\ DOMAIN op = Nodes /\ torrent \in Seq(FileType)
      /\ ss \in Seq(Seq(Bytes)) /\ Len(ss) = Len(torrent)
      /\ \A i \in 1 .. Len(torrent) : ss[i] = fd[i].data
  BY <1>1, StreamingFact
<1>3. /\ o.pc = "convert" /\ o.mode = "local" /\ o.reading <= Len(torrent)
      /\ o.pos = Len(fd[o.reading].data)
      /\ op' = [op EXCEPT ![n].reading = @ + 1, ![n].pos = 0]
  BY DeclaredIs DEF NextFile
<1> PICK r : r = o.reading
  OBVIOUS
<1>4. Frame(n) /\ p = [o EXCEPT !.reading = r + 1, !.pos = 0]
  BY <1>2, <1>3 DEF Frame
<1>5. /\ DOMAIN p = Fields /\ p.mode = o.mode /\ p.converted = o.converted /\ p.man = o.man /\ p.pc = o.pc
      /\ p.reading = r + 1 /\ p.pos = 0 /\ p.buf = o.buf /\ p.next = o.next
  BY <1>2, <1>4 DEF Typed, Fields
<1>6. r \in 1 .. Len(torrent)
  BY <1>2, <1>3 DEF Typed
<1>7. Typed(p, torrent)
  <2>1. r + 1 \in 1 .. Len(torrent) + 1
    BY <1>6
  <2> QED BY <2>1, <1>2, <1>5 DEF Typed
<1>8. Place(p, disk[n], torrent)
  <2>1. FedTo(Stream(fd), PiecesOf(torrent), Off(ss, r - 1) + o.pos, o.buf, o.next)
    BY <1>2 DEF Place
  <2>2. Off(ss, r) = Off(ss, r - 1) + Len(ss[r]) /\ Off(ss, r) \in Nat /\ Off(ss, r - 1) \in Nat
    <3>1. r \in 1 .. Len(ss) /\ r \in 0 .. Len(ss) /\ r - 1 \in 0 .. Len(ss)
      BY <1>2, <1>6
    <3> QED BY <3>1, <1>2, OffStep
  <2>3. Off(ss, r - 1) + o.pos = Off(ss, p.reading - 1) + p.pos
    <3>1. p.reading - 1 = r
      BY <1>5, <1>6
    <3> QED BY <3>1, <2>2, <1>2, <1>3, <1>5, <1>6, SMTT(30)
  <2>4. p.reading <= Len(torrent) => p.pos <= Len(fd[p.reading].data)
    <3> HAVE p.reading <= Len(torrent)
    <3>1. p.reading \in 1 .. Len(torrent)
      BY <1>5, <1>6
    <3>2. fd[p.reading] \in FileType
      BY <3>1, <1>2
    <3> QED BY <3>2, <1>5, FileFields
  <2> QED BY <2>1, <2>3, <2>4, <1>5 DEF Place
<1>9. Judged(p, disk[n], torrent)
  BY <1>2, <1>3, <1>5, <1>8 DEF Judged
<1> QED BY <1>4, <1>5, <1>7, <1>9 DEF Moves, Keeps, NodeOk

LEMMA FinishVerifyOk ==
    ASSUME NEW n \in Nodes, World, NodesOk, FinishVerify(n)
    PROVE  Moves(n) /\ Keeps(n)
<1> PICK o : o = op[n]
  OBVIOUS
<1> PICK p : p = op'[n]
  OBVIOUS
<1>1. Typed(o, torrent) /\ Judged(o, disk[n], torrent) /\ DOMAIN op = Nodes
  BY DEF NodesOk, NodeOk, World
<1> PICK fd : fd = Found(disk[n], torrent)
  OBVIOUS
<1> PICK ss : ss = Datas(fd)
  OBVIOUS
<1> PICK pieces : pieces = PiecesOf(torrent)
  OBVIOUS
<1>2. Streaming(n)
  BY DEF FinishVerify, Streaming
<1>3. /\ Place(o, disk[n], torrent) /\ Parsed(torrent) /\ ~o.converted
      /\ Len(fd) = Len(torrent) /\ torrent \in Seq(FileType)
      /\ Stream(fd) = FlattenSeq(ss) /\ Stream(fd) \in Seq(Bytes)
      /\ ss \in Seq(Seq(Bytes)) /\ Len(ss) = Len(torrent) /\ pieces \in Seq(Seq(Bytes))
  BY <1>2, StreamingFact
<1> PICK pc : pc = IF Finish(o.buf, o.next, pieces) THEN "ingest" ELSE "rejected"
  OBVIOUS
<1>4. Goto(n, pc) /\ o.reading > Len(torrent) /\ o.mode = "local" /\ disk[n] # {}
  BY DeclaredIs DEF FinishVerify
<1>5. Frame(n) /\ p.pc = pc /\ Only(p, o, {"pc"})
  BY <1>4, <1>1, GotoFact DEF Typed
<1>6. Typed(p, torrent) /\ p.mode = o.mode /\ p.converted = o.converted /\ p.man = o.man
  BY <1>5, <1>1, Unread DEF Pcs
<1>7. FedTo(Stream(fd), pieces, Len(Stream(fd)), o.buf, o.next)
  <2>1. FedTo(Stream(fd), pieces, Off(ss, o.reading - 1) + o.pos, o.buf, o.next) /\ o.pos = 0
    BY <1>3, <1>4 DEF Place
  <2>2. o.reading - 1 = Len(ss)
    <3>1. Len(torrent) \in Nat
      BY <1>3
    <3>2. o.reading \in 1 .. Len(torrent) + 1 /\ o.reading > Len(torrent)
      BY <1>1, <1>4 DEF Typed
    <3>3. o.reading - 1 = Len(torrent)
      BY ONLY <3>1, <3>2
    <3> QED BY <3>3, <1>3
  <2>3. Off(ss, Len(ss)) = Len(FlattenSeq(ss)) /\ Off(ss, Len(ss)) \in Nat
    <3>1. Len(ss) \in 0 .. Len(ss)
      BY <1>3
    <3> QED BY <3>1, <1>3, OffStep
  <2>4. Off(ss, o.reading - 1) + o.pos = Len(Stream(fd))
    BY <2>1, <2>2, <2>3, <1>3
  <2> QED BY <2>1, <2>4
<1>8. Finish(o.buf, o.next, pieces) <=> Pieces(Stream(fd)) = pieces
  BY <1>3, <1>7, FinishStep
<1>9. (pc = "ingest" => Fits(disk[n], torrent)) /\ (pc = "rejected" => ~VerifyPieces(fd, pieces))
  BY <1>4, <1>8 DEF Fits, VerifyPieces
<1>10. Judged(p, disk[n], torrent)
  BY <1>3, <1>4, <1>5, <1>6, <1>9 DEF Judged
<1> QED BY <1>5, <1>6, <1>10 DEF Moves, Keeps, NodeOk

LEMMA VerifyWholeOk ==
    ASSUME NEW n \in Nodes, World, NodesOk, VerifyWhole(n)
    PROVE  Moves(n) /\ Keeps(n)
<1> PICK o : o = op[n]
  OBVIOUS
<1> PICK p : p = op'[n]
  OBVIOUS
<1>1. Typed(o, torrent) /\ Judged(o, disk[n], torrent) /\ DOMAIN op = Nodes
  BY DEF NodesOk, NodeOk, World
<1> PICK pc : pc = IF ~Parsed(torrent) THEN "failed"
               ELSE IF VerifyPieces(Found(disk[n], torrent), PiecesOf(torrent)) THEN "ingest" ELSE "rejected"
  OBVIOUS
<1>2. Goto(n, pc) /\ o.pc = "convert" /\ o.mode \in {"source", "magnet"} /\ disk[n] # {}
      /\ (pc = "ingest" => Parsed(torrent) /\ Fits(disk[n], torrent))
      /\ (pc = "rejected" => Parsed(torrent) /\ ~VerifyPieces(Found(disk[n], torrent), PiecesOf(torrent)))
  BY DeclaredIs DEF VerifyWhole, Parsed, Fits
<1>3. Frame(n) /\ p.pc = pc /\ Only(p, o, {"pc"}) /\ pc \in Pcs
  BY <1>1, <1>2, GotoFact DEF Typed, Pcs
<1>4. Typed(p, torrent) /\ p.mode = o.mode /\ p.converted = o.converted /\ p.man = o.man
  BY <1>3, <1>1, Unread
<1>5. Judged(p, disk[n], torrent)
  BY <1>1, <1>2, <1>3, <1>4 DEF Judged, Typed
<1> QED BY <1>3, <1>4, <1>5 DEF Moves, Keeps, NodeOk

LEMMA NoDataOk ==
    ASSUME NEW n \in Nodes, World, NodesOk, NoData(n)
    PROVE  Moves(n) /\ Keeps(n)
<1> PICK o : o = op[n]
  OBVIOUS
<1> PICK p : p = op'[n]
  OBVIOUS
<1>1. Typed(o, torrent) /\ Judged(o, disk[n], torrent) /\ DOMAIN op = Nodes
  BY DEF NodesOk, NodeOk, World
<1> PICK pc : pc = "failed"
  OBVIOUS
<1>2. Goto(n, pc) /\ o.pc = "convert"
  BY DEF NoData, Fail
<1>3. Frame(n) /\ p.pc = pc /\ Only(p, o, {"pc"}) /\ pc \in Pcs
  BY <1>1, <1>2, GotoFact DEF Typed, Pcs
<1>4. Typed(p, torrent) /\ p.mode = o.mode /\ p.converted = o.converted /\ p.man = o.man
  BY <1>3, <1>1, Unread
<1>5. Judged(p, disk[n], torrent)
  BY <1>1, <1>2, <1>3, <1>4 DEF Judged, Typed
<1> QED BY <1>3, <1>4, <1>5 DEF Moves, Keeps, NodeOk

LEMMA WalkOk ==
    ASSUME NEW n \in Nodes, World, NodesOk, Walk(n)
    PROVE  Moves(n) /\ Keeps(n)
<1> PICK o : o = op[n]
  OBVIOUS
<1> PICK p : p = op'[n]
  OBVIOUS
<1>1. Typed(o, torrent) /\ Judged(o, disk[n], torrent) /\ DOMAIN op = Nodes
  BY DEF NodesOk, NodeOk, World
<1> PICK pc : pc = IF disk[n] = {} THEN "failed" ELSE "ingest"
  OBVIOUS
<1>2. Goto(n, pc) /\ o.pc = "start" /\ o.mode = "pack" /\ pc \in {"failed", "ingest"}
  BY DEF Walk
<1>3. Frame(n) /\ p.pc = pc /\ Only(p, o, {"pc"}) /\ pc \in Pcs
  BY <1>1, <1>2, GotoFact DEF Typed, Pcs
<1>4. Typed(p, torrent) /\ p.mode = o.mode /\ p.converted = o.converted /\ p.man = o.man
  BY <1>3, <1>1, Unread
<1>5. Judged(p, disk[n], torrent)
  BY <1>1, <1>2, <1>3, <1>4 DEF Judged, Typed
<1> QED BY <1>3, <1>4, <1>5 DEF Moves, Keeps, NodeOk

LEMMA ProvideOk ==
    ASSUME NEW n \in Nodes, World, NodesOk, Provide(n)
    PROVE  Moves(n) /\ Keeps(n)
<1> PICK o : o = op[n]
  OBVIOUS
<1> PICK p : p = op'[n]
  OBVIOUS
<1>1. Typed(o, torrent) /\ Judged(o, disk[n], torrent) /\ DOMAIN op = Nodes
  BY DEF NodesOk, NodeOk, World
<1> PICK pc : pc = "map"
  OBVIOUS
<1>2. Goto(n, pc) /\ o.pc = "publish"
  BY DEF Provide
<1>3. Frame(n) /\ p.pc = pc /\ Only(p, o, {"pc"}) /\ pc \in Pcs
  BY <1>1, <1>2, GotoFact DEF Typed, Pcs
<1>4. Typed(p, torrent) /\ p.mode = o.mode /\ p.converted = o.converted /\ p.man = o.man
  BY <1>3, <1>1, Unread
<1>5. Judged(p, disk[n], torrent)
  BY <1>1, <1>2, <1>3, <1>4 DEF Judged, Typed
<1> QED BY <1>3, <1>4, <1>5 DEF Moves, Keeps, NodeOk

LEMMA PutMappingOk ==
    ASSUME NEW n \in Nodes, World, NodesOk, PutMapping(n)
    PROVE  Moves(n) /\ Keeps(n)
<1> PICK o : o = op[n]
  OBVIOUS
<1> PICK p : p = op'[n]
  OBVIOUS
<1>1. Typed(o, torrent) /\ Judged(o, disk[n], torrent) /\ DOMAIN op = Nodes
  BY DEF NodesOk, NodeOk, World
<1> PICK pc : pc = "done"
  OBVIOUS
<1>2. Goto(n, pc) /\ o.pc = "map"
  BY DEF PutMapping
<1>3. Frame(n) /\ p.pc = pc /\ Only(p, o, {"pc"}) /\ pc \in Pcs
  BY <1>1, <1>2, GotoFact DEF Typed, Pcs
<1>4. Typed(p, torrent) /\ p.mode = o.mode /\ p.converted = o.converted /\ p.man = o.man
  BY <1>3, <1>1, Unread
<1>5. Judged(p, disk[n], torrent)
  BY <1>1, <1>2, <1>3, <1>4 DEF Judged, Typed
<1> QED BY <1>3, <1>4, <1>5 DEF Moves, Keeps, NodeOk

LEMMA IngestOk ==
    ASSUME NEW n \in Nodes, World, NodesOk, Ingest(n)
    PROVE  Moves(n)
<1> PICK o : o = op[n]
  OBVIOUS
<1> PICK p : p = op'[n]
  OBVIOUS
<1>1. Typed(o, torrent) /\ Judged(o, disk[n], torrent) /\ DOMAIN op = Nodes
  BY DEF NodesOk, NodeOk, World
<1> PICK m : m = FromFiles(FilesIn(n))
  OBVIOUS
<1> PICK pc : pc = IF o.mode = "pack" THEN "done" ELSE "publish"
  OBVIOUS
<1> PICK converted : converted = (o.mode # "pack")
  OBVIOUS
<1>2. /\ op' = [op EXCEPT ![n].man = m, ![n].converted = converted, ![n].pc = pc]
      /\ o.pc = "ingest"
  BY DEF Ingest
<1>3. Frame(n) /\ p = [o EXCEPT !.man = m, !.converted = converted, !.pc = pc]
  BY <1>1, <1>2 DEF Frame
<1>4. /\ DOMAIN p = Fields /\ p.mode = o.mode /\ p.converted = converted /\ p.man = m /\ p.pc = pc
      /\ p.reading = o.reading /\ p.pos = o.pos /\ p.buf = o.buf /\ p.next = o.next
  BY <1>1, <1>3 DEF Typed, Fields
<1>5. pc \in {"done", "publish"} /\ converted \in BOOLEAN
  OBVIOUS
<1>6. Typed(p, torrent)
  BY <1>1, <1>4, <1>5 DEF Typed, Pcs
<1>7. o.mode # "pack" => m = FromFiles(Found(disk[n], torrent)) /\ Parsed(torrent) /\ Fits(disk[n], torrent)
  BY <1>1, <1>2, DeclaredIs DEF FilesIn, Judged
<1>8. Judged(p, disk[n], torrent)
  <2>1. CASE o.mode = "pack"
    <3>1. p.pc = "done" /\ p.mode = "pack" /\ ~p.converted
      BY <2>1, <1>4
    <3> QED BY <3>1 DEF Judged
  <2>2. CASE o.mode # "pack"
    <3>1. p.pc = "publish" /\ p.mode # "pack" /\ p.converted /\ p.mode # "get"
      BY <2>2, <1>1, <1>2, <1>4 DEF Judged
    <3>2. p.man = FromFiles(Found(disk[n], torrent)) /\ Parsed(torrent) /\ Fits(disk[n], torrent)
      BY <2>2, <1>4, <1>7
    <3> QED BY <3>1, <3>2 DEF Judged
  <2> QED BY <2>1, <2>2
<1> QED BY <1>3, <1>4, <1>6, <1>8 DEF Moves, NodeOk

LEMMA GetOk ==
    ASSUME NEW n \in Nodes, World, NodesOk, Get(n)
    PROVE  Moves(n) /\ ~op[n].converted /\ op'[n].converted = op[n].converted
<1> PICK o : o = op[n]
  OBVIOUS
<1> PICK p : p = op'[n]
  OBVIOUS
<1>1. Typed(o, torrent) /\ Judged(o, disk[n], torrent) /\ DOMAIN op = Nodes
  BY DEF NodesOk, NodeOk, World
<1> PICK pc : pc = IF LocalDownload(foreign,
                  UNION {HashesOf(m) : m \in {FromFiles(t) : t \in {torrent} \cup Others}}, store[n]).ok
                 THEN "done" ELSE "failed"
  OBVIOUS
<1>2. /\ op' = [op EXCEPT ![n].man = foreign, ![n].pc = pc]
      /\ o.pc = "start" /\ o.mode = "get"
  BY DEF Get
<1>3. Frame(n) /\ p = [o EXCEPT !.man = foreign, !.pc = pc]
  BY <1>1, <1>2 DEF Frame
<1>4. /\ DOMAIN p = Fields /\ p.mode = o.mode /\ p.converted = o.converted /\ p.pc = pc
      /\ p.reading = o.reading /\ p.pos = o.pos /\ p.buf = o.buf /\ p.next = o.next
  BY <1>1, <1>3 DEF Typed, Fields
<1>5. pc \in {"done", "failed"}
  OBVIOUS
<1>6. Typed(p, torrent)
  BY <1>1, <1>4, <1>5 DEF Typed, Pcs
<1>7. ~o.converted
  BY <1>1, <1>2 DEF Judged, Typed
<1>8. Judged(p, disk[n], torrent)
  BY <1>2, <1>4, <1>5, <1>7 DEF Judged
<1> QED BY <1>3, <1>4, <1>6, <1>7, <1>8 DEF Moves, NodeOk

Stays(n) == op[n].converted => op'[n].converted /\ op'[n].man = op[n].man
Shared == DOMAIN store' = Nodes /\ DOMAIN provided' = Nodes

LEMMA StepOk ==
    ASSUME NEW n \in Nodes, World, NodesOk, Step(n)
    PROVE  Moves(n) /\ Stays(n)
<1>1. CASE Lookup(n)
  BY <1>1, LookupOk DEF Keeps, Stays
<1>2. CASE TryProvider(n)
  BY <1>2, TryProviderOk DEF Stays
<1>3. CASE NoProvider(n)
  BY <1>3, NoProviderOk DEF Keeps, Stays
<1>4. CASE Read(n)
  BY <1>4, ReadOk DEF Keeps, Stays
<1>5. CASE NextFile(n)
  BY <1>5, NextFileOk DEF Keeps, Stays
<1>6. CASE FinishVerify(n)
  BY <1>6, FinishVerifyOk DEF Keeps, Stays
<1>7. CASE VerifyWhole(n)
  BY <1>7, VerifyWholeOk DEF Keeps, Stays
<1>8. CASE NoData(n)
  BY <1>8, NoDataOk DEF Keeps, Stays
<1>9. CASE Walk(n)
  BY <1>9, WalkOk DEF Keeps, Stays
<1>10. CASE Ingest(n)
  <2>1. op[n].pc = "ingest" /\ Judged(op[n], disk[n], torrent)
    BY <1>10 DEF Ingest, NodesOk, NodeOk
  <2>2. ~op[n].converted
    BY <2>1 DEF Judged
  <2> QED BY <2>2, <1>10, IngestOk DEF Stays
<1>11. CASE Provide(n)
  BY <1>11, ProvideOk DEF Keeps, Stays
<1>12. CASE PutMapping(n)
  BY <1>12, PutMappingOk DEF Keeps, Stays
<1>13. CASE Get(n)
  BY <1>13, GetOk DEF Stays
<1> QED BY <1>1, <1>2, <1>3, <1>4, <1>5, <1>6, <1>7, <1>8, <1>9, <1>10, <1>11, <1>12, <1>13 DEF Step

\* What is shared by the nodes: only publish writes to the DHT.
LEMMA StepStill ==
    ASSUME NEW n \in Nodes, World, NodesOk, Step(n)
    PROVE  Still /\ Shared /\ (mapping' = mapping \/ (op[n].converted /\ mapping' = op[n].man.root))
<1>1. CASE Lookup(n)
  BY <1>1 DEF Lookup, World, Still, Shared
<1>2. CASE TryProvider(n)
  <2>1. PICK m \in op[n].todo : \E got \in SUBSET HashesOf(m), accepted \in BOOLEAN : Try(n, m, got, accepted)
    BY <1>2, TryIs
  <2>2. PICK got \in SUBSET HashesOf(m), accepted \in BOOLEAN : Try(n, m, got, accepted)
    BY <2>1
  <2>3. UNCHANGED <<torrent, disk, foreign, mapping, provided>> /\ store' = [store EXCEPT ![n] = @ \cup got]
    BY <2>2 DEF Try
  <2> QED BY <2>3 DEF World, Still, Shared
<1>3. CASE NoProvider(n)
  BY <1>3 DEF NoProvider, World, Still, Shared
<1>4. CASE Read(n)
  BY <1>4 DEF Read, World, Still, Shared
<1>5. CASE NextFile(n)
  BY <1>5 DEF NextFile, World, Still, Shared
<1>6. CASE FinishVerify(n)
  BY <1>6 DEF FinishVerify, World, Still, Shared
<1>7. CASE VerifyWhole(n)
  BY <1>7 DEF VerifyWhole, World, Still, Shared
<1>8. CASE NoData(n)
  BY <1>8 DEF NoData, Fail, World, Still, Shared
<1>9. CASE Walk(n)
  BY <1>9 DEF Walk, World, Still, Shared
<1>10. CASE Ingest(n)
  BY <1>10 DEF Ingest, World, Still, Shared
<1>11. CASE Provide(n)
  BY <1>11 DEF Provide, World, Still, Shared
<1>12. CASE PutMapping(n)
  <2>1. op[n].converted
    BY <1>12 DEF PutMapping, NodesOk, NodeOk, Judged
  <2> QED BY <2>1, <1>12 DEF PutMapping, World, Still, Shared
<1>13. CASE Get(n)
  BY <1>13 DEF Get, World, Still, Shared
<1> QED BY <1>1, <1>2, <1>3, <1>4, <1>5, <1>6, <1>7, <1>8, <1>9, <1>10, <1>11, <1>12, <1>13 DEF Step

Sound == World /\ NodesOk

LEMMA InitSound == Init => Sound
<1> SUFFICES ASSUME Init PROVE Sound
  OBVIOUS
<1>1. torrent \in Torrents /\ torrent \in Seq(FileType)
  BY BridgeAssumption DEF Init
<1>2. DOMAIN store = Nodes /\ DOMAIN provided = Nodes /\ mapping \in {None, foreign.root}
  BY DEF Init
<1>3. \A n \in Nodes : DiskOk(disk[n], torrent)
  <2> TAKE n \in Nodes
  <2>1. disk[n] \in Disks(torrent)
    BY DEF Init
  <2> QED BY <1>1, <2>1, DisksOk
<1>4. PICK role \in Roles : op = [n \in Nodes |-> Idle(role[n])]
  BY DEF Init
<1>5. DOMAIN op = Nodes
  BY <1>4
<1>6. ASSUME NEW n \in Nodes PROVE NodeOk(op[n], disk[n], torrent)
  <2>1. op[n] = Idle(role[n]) /\ role[n] \in Modes
    <3>1. role \in [Nodes -> Modes]
      BY BridgeAssumption DEF Modes
    <3> QED BY <3>1, <1>4
  <2> PICK o : o = op[n]
    OBVIOUS
  <2>2. /\ DOMAIN o = Fields /\ o.pc = "start" /\ o.mode \in Modes /\ o.converted = FALSE
        /\ o.reading = 1 /\ o.pos = 0 /\ o.buf = <<>> /\ o.next = 0
    BY <2>1 DEF Idle, Fields
  <2>3. <<>> \in Seq(Bytes) /\ Len(<<>>) = 0
    OBVIOUS
  <2>4. PieceLength \in Nat \ {0} /\ Len(torrent) \in Nat
    BY <1>1, LengthFact
  <2>5. 1 \in 1 .. Len(torrent) + 1
    BY <2>4
  <2>6. Typed(o, torrent)
    <3>1. o.buf \in Seq(Bytes) /\ Len(o.buf) < PieceLength
      <4>1. Len(o.buf) = 0
        BY <2>2, <2>3
      <4> QED BY <4>1, <2>2, <2>3, <2>4
    <3>2. o.reading \in 1 .. Len(torrent) + 1 /\ o.pos \in Nat /\ o.next \in Nat
      BY <2>2, <2>5
    <3>3. o.pc \in Pcs /\ o.converted \in BOOLEAN
      BY <2>2 DEF Pcs
    <3> QED BY <2>2, <3>1, <3>2, <3>3 DEF Typed
  <2>7. Judged(o, disk[n], torrent)
    BY <2>2 DEF Judged, Fresh
  <2> QED BY <2>6, <2>7 DEF NodeOk
<1> QED BY <1>1, <1>2, <1>3, <1>5, <1>6 DEF Sound, World, NodesOk

LEMMA StepSound ==
    ASSUME NEW n \in Nodes, Sound, Step(n)
    PROVE  Sound'
<1>0. World /\ NodesOk
  BY DEF Sound
<1>1. Moves(n) /\ Stays(n)
  BY <1>0, StepOk
<1>2. Still /\ Shared /\ (mapping' = mapping \/ (op[n].converted /\ mapping' = op[n].man.root))
  BY <1>0, StepStill
<1>3. torrent' = torrent /\ disk' = disk /\ foreign' = foreign
  BY <1>2 DEF Still
<1>4. DOMAIN op' = Nodes /\ (\A x \in Nodes \ {n} : op'[x] = op[x]) /\ NodeOk(op'[n], disk[n], torrent)
  BY <1>1 DEF Moves, Frame
<1>5. \A x \in Nodes : NodeOk(op'[x], disk[x], torrent)
  BY <1>0, <1>4 DEF NodesOk
<1>6. \A x \in Nodes : NodeOk(op'[x], disk'[x], torrent')
  BY <1>3, <1>5
<1>7. \A x \in Nodes : op[x].converted => op'[x].converted /\ op'[x].man = op[x].man
  BY <1>1, <1>4 DEF Stays
<1>8. mapping' \in {None, foreign'.root} \cup {op'[x].man.root : x \in {y \in Nodes : op'[y].converted}}
  <2>1. CASE mapping' = mapping
    <3>1. mapping \in {None, foreign.root} \cup {op[x].man.root : x \in {y \in Nodes : op[y].converted}}
      BY <1>0 DEF World
    <3>2. CASE mapping \in {None, foreign.root}
      BY <3>2, <2>1, <1>3
    <3>3. CASE mapping \in {op[x].man.root : x \in {y \in Nodes : op[y].converted}}
      <4>1. PICK x \in Nodes : op[x].converted /\ mapping = op[x].man.root
        BY <3>3
      <4> QED BY <4>1, <1>7, <2>1
    <3> QED BY <3>1, <3>2, <3>3
  <2>2. CASE op[n].converted /\ mapping' = op[n].man.root
    BY <2>2, <1>7
  <2> QED BY <2>1, <2>2, <1>2
<1>9. /\ torrent \in Seq(FileType) /\ \A x \in Nodes : DiskOk(disk[x], torrent)
  BY <1>0 DEF World
<1>10. World'
  BY <1>3, <1>4, <1>2, <1>8, <1>9 DEF World, Shared
<1>11. NodesOk'
  BY <1>6 DEF NodesOk
<1> QED BY <1>10, <1>11 DEF Sound

LEMMA NextSound == Sound /\ [Next]_vars => Sound'
<1> SUFFICES ASSUME Sound, [Next]_vars PROVE Sound'
  OBVIOUS
<1>1. CASE Next
  BY <1>1, StepSound DEF Next
<1>2. CASE UNCHANGED vars
  BY <1>2 DEF vars, Sound, World, NodesOk
<1> QED BY <1>1, <1>2

\* Every operation keeps the first invariant: each node has come as far as its
\* mode and its disk allow, and holds what its part of convert_local,
\* StreamingVerifier, pack or resolve has written so far.
THEOREM SpecSound == Spec => []Sound
BY InitSound, NextSound, PTL DEF Spec

LEMMA SoundStreams == Sound => StreamingAgrees
<1> SUFFICES ASSUME Sound PROVE StreamingAgrees
  OBVIOUS
<1>1. TypeOK
  <2>1. ASSUME NEW n \in Nodes
        PROVE  /\ op[n].pc \in Pcs /\ Len(op[n].buf) < PieceLength
               /\ op[n].reading \in 1 .. Len(torrent) + 1
    BY DEF Sound, NodesOk, NodeOk, Typed
  <2>2. mapping \in {None, foreign.root} \cup {op[n].man.root : n \in {x \in Nodes : op[x].converted}}
    BY DEF Sound, World
  <2> QED BY <2>1, <2>2 DEF TypeOK, Pcs
<1>2. ASSUME NEW n \in Nodes, op[n].mode = "local"
      PROVE  /\ op[n].pc \in {"ingest", "publish", "map"} => VerifyPieces(Declared(n), Meta.pieces)
             /\ op[n].pc = "rejected" => ~VerifyPieces(Declared(n), Meta.pieces)
  <2>1. Judged(op[n], disk[n], torrent)
    BY DEF Sound, NodesOk, NodeOk
  <2>2. Declared(n) = Found(disk[n], torrent) /\ Meta.pieces = PiecesOf(torrent)
    BY DeclaredIs
  <2> QED BY <1>2, <2>1, <2>2 DEF Judged, Fits
<1> QED BY <1>1, <1>2 DEF StreamingAgrees

\* Whatever sizes the reads return, and however pieces lie across files,
\* StreamingVerifier (feed and finish) accepts what verify_pieces accepts and
\* refuses what it refuses.
THEOREM SpecStreamingAgrees == Spec => []StreamingAgrees
BY SpecSound, SoundStreams, PTL

\* Files with the torrent's paths, lengths and pieces are the torrent.
LEMMA SameFiles ==
    ASSUME NEW n \in Nodes, Sound, op[n].converted,
           \A i \in DOMAIN torrent : Len(Declared(n)[i].data) = Meta.lengths[i]
    PROVE  Found(disk[n], torrent) = torrent
<1> PICK fd : fd = Found(disk[n], torrent)
  OBVIOUS
<1>1. Parsed(torrent) /\ Fits(disk[n], torrent)
  BY DEF Sound, NodesOk, NodeOk, Judged
<1>2. torrent \in Seq(FileType) /\ DiskOk(disk[n], torrent) /\ disk[n] # {}
  BY <1>1 DEF Sound, World, Fits
<1>3. fd \in Seq(FileType) /\ Len(fd) = Len(torrent) /\ \A i \in 1 .. Len(torrent) : fd[i].path = torrent[i].path
  BY <1>2, FoundOk
<1>4. Pieces(Stream(fd)) = Pieces(Stream(torrent))
  BY <1>1, <1>2, PiecesOfType DEF Fits, VerifyPieces
<1>5. Stream(fd) = Stream(torrent)
  <2>1. Stream(fd) \in Seq(Bytes) /\ Stream(torrent) \in Seq(Bytes)
    BY <1>2, <1>3, StreamType
  <2> QED BY <1>4, <2>1, PiecesInjective
<1>6. \A i \in DOMAIN torrent : Len(fd[i].data) = Len(torrent[i].data)
  <2>1. Meta.lengths = [i \in DOMAIN torrent |-> Len(torrent[i].data)]
    BY <1>1, MetaFact DEF ParseOk, Parsed
  <2>2. Declared(n) = fd
    BY DeclaredIs
  <2> QED BY <2>1, <2>2
<1> PICK a : a = Datas(fd)
  OBVIOUS
<1> PICK b : b = Datas(torrent)
  OBVIOUS
<1>7. /\ a \in Seq(Seq(Bytes)) /\ b \in Seq(Seq(Bytes)) /\ Len(a) = Len(torrent) /\ Len(b) = Len(torrent)
      /\ (\A i \in 1 .. Len(torrent) : a[i] = fd[i].data /\ b[i] = torrent[i].data)
      /\ FlattenSeq(a) = FlattenSeq(b)
  BY <1>2, <1>3, <1>5, StreamType
<1>8. DOMAIN torrent = 1 .. Len(torrent)
  BY <1>2
<1>9. \A i \in 1 .. Len(a) : Len(a[i]) = Len(b[i])
  <2> TAKE i \in 1 .. Len(a)
  <2>1. i \in 1 .. Len(torrent) /\ i \in DOMAIN torrent
    BY <1>7, <1>8
  <2>2. a[i] = fd[i].data /\ b[i] = torrent[i].data
    BY <1>7, <2>1
  <2> QED BY <1>6, <2>1, <2>2
<1>10. a = b
  BY <1>7, <1>9, FlatInjective
<1>11. ASSUME NEW i \in 1 .. Len(torrent) PROVE fd[i] = torrent[i]
  <2>1. fd[i].data = torrent[i].data /\ fd[i].path = torrent[i].path
    BY <1>3, <1>7, <1>10
  <2>2. fd[i] \in FileType /\ torrent[i] \in FileType
    BY <1>2, <1>3
  <2> QED BY <2>1, <2>2, SMTT(30) DEF FileType
<1> QED BY <1>2, <1>3, <1>11

LEMMA SoundSameRoot == Sound => SameRootAsDeclared
<1> SUFFICES ASSUME Sound, NEW n \in Nodes, op[n].converted,
                    \A i \in DOMAIN torrent : Len(Declared(n)[i].data) = Meta.lengths[i]
             PROVE  op[n].man.root = FromFiles(torrent).root
  BY DEF SameRootAsDeclared
<1>1. op[n].man = FromFiles(Found(disk[n], torrent))
  BY DEF Sound, NodesOk, NodeOk, Judged
<1> QED BY <1>1, SameFiles

\* Two nodes whose convert_local or pack has read the torrent's files with
\* their declared lengths have built the same root, whichever way they went.
THEOREM SpecSameRootAsDeclared == Spec => []SameRootAsDeclared
BY SpecSound, SoundSameRoot, PTL

-----------------------------------------------------------------------------
(* Manifests that a foreign peer has altered                               *)
LEMMA PutIn ==
    ASSUME NEW S, NEW s \in Seq(S), NEW i \in DOMAIN s, NEW x \in S
    PROVE  [s EXCEPT ![i] = x] \in Seq(S)
OBVIOUS

LEMMA OtherChunks ==
    ASSUME NEW m, ManifestOk(m), NEW cs \in Seq(ChunkType)
    PROVE  ManifestOk([m EXCEPT !.chunks = cs])
BY DEF ManifestOk

LEMMA OtherFiles ==
    ASSUME NEW m, ManifestOk(m), NEW fs \in Seq(EntryType)
    PROVE  ManifestOk([m EXCEPT !.files = fs])
BY DEF ManifestOk

LEMMA OtherFile ==
    ASSUME NEW m, ManifestOk(m), NEW i \in DOMAIN m.files, NEW f \in EntryType
    PROVE  ManifestOk([m EXCEPT !.files = [m.files EXCEPT ![i] = f]])
<1>1. m.files \in Seq(EntryType)
  BY DEF ManifestOk
<1>2. [m.files EXCEPT ![i] = f] \in Seq(EntryType)
  BY <1>1, PutIn
<1> QED BY <1>2, OtherFiles

LEMMA OtherChunk ==
    ASSUME NEW m, ManifestOk(m), NEW i \in DOMAIN m.chunks, NEW c \in ChunkType
    PROVE  ManifestOk([m EXCEPT !.chunks = [m.chunks EXCEPT ![i] = c]])
<1>1. m.chunks \in Seq(ChunkType)
  BY DEF ManifestOk
<1>2. [m.chunks EXCEPT ![i] = c] \in Seq(ChunkType)
  BY <1>1, PutIn
<1> QED BY <1>2, OtherChunks

LEMMA FileOf ==
    ASSUME NEW m, ManifestOk(m), NEW i \in DOMAIN m.files
    PROVE  m.files[i] \in EntryType /\ "files" \in DOMAIN m
BY DEF ManifestOk

LEMMA OtherLength ==
    ASSUME NEW c \in ChunkType, NEW k \in Nat
    PROVE  [c EXCEPT !.length = k] \in ChunkType
BY DEF ChunkType

LEMMA OverlappingOk ==
    ASSUME NEW m, ManifestOk(m), NEW a \in Overlapping(m)
    PROVE  ManifestOk(a)
<1>1. PICK i \in DOMAIN m.files : a = [m EXCEPT !.files[i].chunk_start = 0]
  BY DEF Overlapping
<1> PICK f : f = [m.files[i] EXCEPT !.chunk_start = 0]
  OBVIOUS
<1>2. m.files[i] \in EntryType
  BY FileOf
<1>3. f \in EntryType
  BY <1>2 DEF EntryType
<1>4. a = [m EXCEPT !.files = [m.files EXCEPT ![i] = f]]
  BY <1>1
<1> QED BY <1>3, <1>4, OtherFile

LEMMA AlteredOk ==
    ASSUME NEW m, ManifestOk(m), NEW a \in Altered(m)
    PROVE  ManifestOk(a)
<1> DEFINE A1 == UNION {{[m EXCEPT !.chunks[i].length = k] : k \in OneOff(m.chunks[i].length)} : i \in DOMAIN m.chunks}
           A2 == UNION {{[m EXCEPT !.files[i].size = k] : k \in OneOff(m.files[i].size)} : i \in DOMAIN m.files}
           A3 == {[m EXCEPT !.files[i].chunk_count = @ + 1] : i \in DOMAIN m.files}
           A4 == {[m EXCEPT !.files[i].path = p] : i \in DOMAIN m.files, p \in {<<"..", "a">>, <<"NUL">>}}
           A5 == {[m EXCEPT !.chunks = Append(@, Last(@))] : x \in {y \in {0} : m.chunks # <<>>}}
           A6 == {[m EXCEPT !.chunks = Front(@)] : x \in {y \in {0} : m.chunks # <<>>}}
           A7 == {[m EXCEPT !.total_size = @ + 1]}
           A8 == {[m EXCEPT !.name = p] : p \in {<<"x", "..">>, <<"..", "a">>, <<"..\\e">>, <<"NUL">>}}
<1>0. a \in A1 \/ a \in A2 \/ a \in A3 \/ a \in Overlapping(m) \/ a \in A4 \/ a \in A5 \/ a \in A6 \/ a \in A7 \/ a \in A8
  <2>1. Altered(m) = A1 \cup A2 \cup A3 \cup Overlapping(m) \cup A4 \cup A5 \cup A6 \cup A7 \cup A8
    BY DEF Altered
  <2> HIDE DEF A1, A2, A3, A4, A5, A6, A7, A8
  <2> QED BY <2>1
<1>1. CASE a \in A1
  <2>1. PICK i \in DOMAIN m.chunks : \E k \in OneOff(m.chunks[i].length) : a = [m EXCEPT !.chunks[i].length = k]
    BY <1>1
  <2> PICK k \in OneOff(m.chunks[i].length) : a = [m EXCEPT !.chunks[i].length = k]
    BY <2>1
  <2> PICK c : c = [m.chunks[i] EXCEPT !.length = k]
    OBVIOUS
  <2>2. m.chunks[i] \in ChunkType /\ k \in Nat
    BY DEF ManifestOk, OneOff
  <2>3. c \in ChunkType
    BY <2>2, OtherLength
  <2>4. a = [m EXCEPT !.chunks = [m.chunks EXCEPT ![i] = c]]
    BY <2>1
  <2> QED BY <2>3, <2>4, OtherChunk
<1>2. CASE a \in A2
  <2>1. PICK i \in DOMAIN m.files : \E k \in OneOff(m.files[i].size) : a = [m EXCEPT !.files[i].size = k]
    BY <1>2
  <2> PICK k \in OneOff(m.files[i].size) : a = [m EXCEPT !.files[i].size = k]
    BY <2>1
  <2> PICK f : f = [m.files[i] EXCEPT !.size = k]
    OBVIOUS
  <2>2. m.files[i] \in EntryType
    BY FileOf
  <2>3. k \in Nat
    BY DEF OneOff
  <2>4. f \in EntryType
    BY <2>2, <2>3 DEF EntryType
  <2>5. a = [m EXCEPT !.files = [m.files EXCEPT ![i] = f]]
    BY <2>1
  <2> QED BY <2>4, <2>5, OtherFile
<1>3. CASE a \in A3
  <2>1. PICK i \in DOMAIN m.files : a = [m EXCEPT !.files[i].chunk_count = @ + 1]
    BY <1>3
  <2> PICK f : f = [m.files[i] EXCEPT !.chunk_count = m.files[i].chunk_count + 1]
    OBVIOUS
  <2>2. m.files[i] \in EntryType
    BY FileOf
  <2>3. m.files[i].chunk_count + 1 \in Nat
    BY <2>2, EntryFields
  <2>4. f \in EntryType
    BY <2>2, <2>3 DEF EntryType
  <2>5. a = [m EXCEPT !.files = [m.files EXCEPT ![i] = f]]
    BY <2>1
  <2> QED BY <2>4, <2>5, OtherFile
<1>4. CASE a \in Overlapping(m)
  BY <1>4, OverlappingOk
<1>5. CASE a \in A4
  <2>1. PICK i \in DOMAIN m.files, p \in {<<"..", "a">>, <<"NUL">>} : a = [m EXCEPT !.files[i].path = p]
    BY <1>5
  <2> PICK f : f = [m.files[i] EXCEPT !.path = p]
    OBVIOUS
  <2>2. m.files[i] \in EntryType
    BY FileOf
  <2>3. p \in Seq(Parts)
    BY LiteralPaths
  <2>4. f \in EntryType
    BY <2>2, <2>3 DEF EntryType
  <2>5. a = [m EXCEPT !.files = [m.files EXCEPT ![i] = f]]
    BY <2>1
  <2> QED BY <2>4, <2>5, OtherFile
<1>6. CASE a \in A5
  <2>1. a = [m EXCEPT !.chunks = Append(m.chunks, Last(m.chunks))] /\ m.chunks # <<>>
    BY <1>6
  <2>2. m.chunks \in Seq(ChunkType)
    BY DEF ManifestOk
  <2>3. Last(m.chunks) \in ChunkType
    BY <2>1, <2>2 DEF Last
  <2>4. Append(m.chunks, Last(m.chunks)) \in Seq(ChunkType)
    BY <2>2, <2>3
  <2> QED BY <2>1, <2>4, OtherChunks
<1>7. CASE a \in A6
  <2>1. a = [m EXCEPT !.chunks = Front(m.chunks)] /\ m.chunks # <<>>
    BY <1>7
  <2>2. m.chunks \in Seq(ChunkType)
    BY DEF ManifestOk
  <2>3. Front(m.chunks) \in Seq(ChunkType)
    BY <2>1, <2>2 DEF Front
  <2> QED BY <2>1, <2>3, OtherChunks
<1>8. CASE a \in A7
  BY <1>8 DEF ManifestOk
<1>9. CASE a \in A8
  <2>1. PICK p \in {<<"x", "..">>, <<"..", "a">>, <<"..\\e">>, <<"NUL">>} : a = [m EXCEPT !.name = p]
    BY <1>9
  <2>2. p \in Seq(Parts)
    BY LiteralPaths
  <2> QED BY <2>1, <2>2 DEF ManifestOk
<1> HIDE DEF A1, A2, A3, A4, A5, A6, A7, A8
<1> QED BY <1>0, <1>1, <1>2, <1>3, <1>4, <1>5, <1>6, <1>7, <1>8, <1>9

Ranged(m) == \A i \in DOMAIN m.files : m.files[i].chunk_start + m.files[i].chunk_count <= Len(m.chunks)

LEMMA ResizedOk ==
    ASSUME NEW m, ManifestOk(m), Ranged(m)
    PROVE  ManifestOk(Resized(m))
<1> PICK fs : fs = [i \in DOMAIN m.files |-> [m.files[i] EXCEPT !.size = Lengths(OwnChunks(m, m.files[i]))]]
  OBVIOUS
<1>1. Resized(m) = [m EXCEPT !.files = fs]
  BY DEF Resized
<1>2. m.files \in Seq(EntryType)
  BY DEF ManifestOk
<1>3. ASSUME NEW i \in DOMAIN m.files PROVE fs[i] \in EntryType
  <2>1. m.files[i] \in EntryType
    BY FileOf
  <2>2. OwnChunks(m, m.files[i]) \in Seq(ChunkType)
    BY <2>1, OwnChunksType DEF Ranged
  <2>3. Lengths(OwnChunks(m, m.files[i])) \in Nat
    BY <2>2, LengthsType
  <2> QED BY <2>1, <2>3 DEF EntryType
<1>4. fs \in Seq(EntryType)
  <2>1. DOMAIN m.files = 1 .. Len(m.files) /\ Len(m.files) \in Nat
    BY <1>2
  <2> QED BY <2>1, <1>3
<1> QED BY <1>1, <1>4, OtherFiles

\* A file's chunks follow those of the file before.
LEMMA NextStart ==
    ASSUME NEW files \in Seq(FileType), NEW i \in 1 .. Len(files), NEW j \in 1 .. Len(files), j - 1 = i
    PROVE  FromFiles(files).files[i].chunk_start + FromFiles(files).files[i].chunk_count
                = FromFiles(files).files[j].chunk_start
<1>1. RunAt(files, FromFiles(files), i) /\ RunAt(files, FromFiles(files), j)
  BY RunAtFact
<1> QED BY <1>1 DEF RunAt

LEMMA DisguisedOk ==
    ASSUME NEW files \in Seq(FileType), NEW a \in Disguised(FromFiles(files))
    PROVE  ManifestOk(a)
<1> PICK m : m = FromFiles(files)
  OBVIOUS
<1>1. ManifestOk(m) /\ Validate(m)
  BY FromFilesType, FromFilesValid
<1>2. m.chunks \in Seq(ChunkType) /\ m.files \in Seq(EntryType)
  BY <1>1 DEF ManifestOk
<1> PICK n : n = Len(m.files)
  OBVIOUS
<1>3. n \in Nat /\ DOMAIN m.files = 1 .. n /\ Len(m.chunks) \in Nat /\ DOMAIN m.chunks = 1 .. Len(m.chunks)
  BY <1>2
<1>4. Ranged(m)
  BY <1>1 DEF Validate, Ranged
<1>5. \A i \in 1 .. n : m.files[i] \in EntryType /\ m.files[i].chunk_start \in Nat /\ m.files[i].chunk_count \in Nat
  BY <1>2, <1>3, EntryFields
<1>6. ASSUME NEW i \in 1 .. Len(m.chunks) - 1, m.chunks[i + 1].length > 0,
             NEW b, b = [m EXCEPT !.chunks[i].length = @ + 1, !.chunks[i + 1].length = @ - 1]
      PROVE  ManifestOk(Resized(b))
  <2> PICK j : j = i + 1
    OBVIOUS
  <2>1. i \in DOMAIN m.chunks /\ j \in DOMAIN m.chunks /\ i # j
    BY <1>3
  <2> PICK c : c = [m.chunks[i] EXCEPT !.length = m.chunks[i].length + 1]
    OBVIOUS
  <2> PICK e : e = [m.chunks[j] EXCEPT !.length = m.chunks[j].length - 1]
    OBVIOUS
  <2>2. m.chunks[i] \in ChunkType /\ m.chunks[j] \in ChunkType
    BY <1>2, <2>1
  <2>3. c \in ChunkType /\ e \in ChunkType
    <3> PICK l : l = m.chunks[j].length
      OBVIOUS
    <3>1. m.chunks[i].length + 1 \in Nat
      BY <2>2, ChunkFields
    <3>2. l \in Nat /\ l > 0
      BY <2>2, <1>6, ChunkFields
    <3>3. l - 1 \in Nat
      BY ONLY <3>2
    <3> QED BY <2>2, <3>1, <3>3, OtherLength
  <2>5. "chunks" \in DOMAIN m
    BY <1>1 DEF ManifestOk
  <2>6. b = [m EXCEPT !.chunks[i].length = @ + 1, !.chunks[j].length = @ - 1]
    BY <1>6
  <2> PICK cs : cs = b.chunks
    OBVIOUS
  <2>7. /\ cs = [m.chunks EXCEPT ![i].length = @ + 1, ![j].length = @ - 1]
        /\ DOMAIN b = DOMAIN m /\ \A f \in DOMAIN m : f # "chunks" => b[f] = m[f]
    <3>1. cs = [m.chunks EXCEPT ![i].length = @ + 1, ![j].length = @ - 1]
      BY <2>1, <2>5, <2>6
    <3>2. DOMAIN b = DOMAIN m /\ \A f \in DOMAIN m : f # "chunks" => b[f] = m[f]
      BY ONLY <2>1, <2>5, <2>6
    <3> QED BY <3>1, <3>2
  <2>8. /\ cs[i] = [m.chunks[i] EXCEPT !.length = @ + 1] /\ cs[j] = [m.chunks[j] EXCEPT !.length = @ - 1]
        /\ DOMAIN cs = DOMAIN m.chunks /\ cs = [k \in DOMAIN m.chunks |-> cs[k]]
        /\ \A k \in DOMAIN m.chunks : k # i /\ k # j => cs[k] = m.chunks[k]
    BY ONLY <2>1, <2>7
  <2>10. \A k \in DOMAIN m.chunks : cs[k] \in ChunkType
    <3>1. cs[i] = c /\ cs[j] = e
      BY <2>8
    <3>2. \A k \in DOMAIN m.chunks : m.chunks[k] \in ChunkType
      BY <1>2
    <3>3. \A k \in DOMAIN m.chunks : cs[k] = c \/ cs[k] = e \/ cs[k] = m.chunks[k]
      BY ONLY <3>1, <2>8
    <3> QED BY ONLY <3>2, <3>3, <2>3
  <2>11. cs \in Seq(ChunkType) /\ Len(cs) = Len(m.chunks)
    <3> PICK l : l = Len(m.chunks)
      OBVIOUS
    <3>1. cs = [k \in 1 .. l |-> cs[k]] /\ l \in Nat
      BY <2>8, <1>3
    <3>2. \A k \in 1 .. l : cs[k] \in ChunkType
      BY <2>10, <1>3
    <3>3. cs \in Seq(ChunkType) /\ Len(cs) = l
      BY ONLY <3>1, <3>2
    <3> QED BY <3>3
  <2>12. ManifestOk(b) /\ b.files = m.files
    <3>1. b["files"] = m["files"] /\ b["name"] = m["name"] /\ b["total_size"] = m["total_size"]
      BY <2>7, <1>1 DEF ManifestOk
    <3> QED BY <3>1, <2>7, <2>11, <1>1 DEF ManifestOk
  <2>9. Ranged(b)
    BY <2>11, <2>12, <1>4 DEF Ranged
  <2> QED BY <2>9, <2>12, ResizedOk
<1>7. ASSUME NEW i \in 1 .. n - 1, m.files[i + 1].chunk_count > 0,
             NEW b, b = [m EXCEPT !.files[i].chunk_count = @ + 1, !.files[i + 1].chunk_start = @ + 1,
                           !.files[i + 1].chunk_count = @ - 1]
      PROVE  ManifestOk(Resized(b))
  <2> PICK j : j = i + 1
    OBVIOUS
  <2>1. i \in 1 .. n /\ j \in 1 .. n /\ i # j /\ j - 1 = i
    BY <1>3
  <2> PICK f : f = m.files[i]
    OBVIOUS
  <2> PICK g : g = m.files[j]
    OBVIOUS
  <2>2. f \in EntryType /\ g \in EntryType /\ g.chunk_count > 0
    BY <1>5, <1>7, <2>1
  <2>3. f.chunk_start \in Nat /\ f.chunk_count \in Nat /\ g.chunk_start \in Nat /\ g.chunk_count \in Nat
    BY <2>2, EntryFields
  <2> PICK f2 : f2 = [f EXCEPT !.chunk_count = f.chunk_count + 1]
    OBVIOUS
  <2> PICK g2 : g2 = [g EXCEPT !.chunk_start = g.chunk_start + 1, !.chunk_count = g.chunk_count - 1]
    OBVIOUS
  <2>4. f2 \in EntryType /\ g2 \in EntryType
    <3> PICK fc : fc = f.chunk_count
      OBVIOUS
    <3> PICK gc : gc = g.chunk_count
      OBVIOUS
    <3>1. f.chunk_count + 1 \in Nat /\ g.chunk_start + 1 \in Nat /\ g.chunk_count - 1 \in Nat
      <4>1. fc \in Nat /\ gc \in Nat /\ gc > 0 /\ g.chunk_start \in Nat
        BY <2>2, <2>3
      <4>2. fc + 1 \in Nat /\ gc - 1 \in Nat /\ g.chunk_start + 1 \in Nat
        BY ONLY <4>1
      <4> QED BY <4>2
    <3> QED BY <3>1, <2>2 DEF EntryType
  <2>5. "files" \in DOMAIN m /\ i \in DOMAIN m.files /\ j \in DOMAIN m.files
    BY <1>1, <1>3, <2>1 DEF ManifestOk
  <2>6. b = [m EXCEPT !.files[i].chunk_count = @ + 1, !.files[j].chunk_start = @ + 1,
                      !.files[j].chunk_count = @ - 1]
    BY <1>7
  <2> PICK fs : fs = b.files
    OBVIOUS
  <2>14. /\ fs = [m.files EXCEPT ![i].chunk_count = @ + 1, ![j].chunk_start = @ + 1, ![j].chunk_count = @ - 1]
         /\ DOMAIN b = DOMAIN m /\ \A x \in DOMAIN m : x # "files" => b[x] = m[x]
    <3>1. fs = [m.files EXCEPT ![i].chunk_count = @ + 1, ![j].chunk_start = @ + 1, ![j].chunk_count = @ - 1]
      BY <2>1, <2>5, <2>6
    <3>2. DOMAIN b = DOMAIN m /\ \A x \in DOMAIN m : x # "files" => b[x] = m[x]
      BY ONLY <2>1, <2>5, <2>6
    <3> QED BY <3>1, <3>2
  <2>15. /\ fs[i] = [m.files[i] EXCEPT !.chunk_count = @ + 1]
         /\ fs[j] = [m.files[j] EXCEPT !.chunk_start = @ + 1, !.chunk_count = @ - 1]
         /\ DOMAIN fs = DOMAIN m.files /\ fs = [k \in DOMAIN m.files |-> fs[k]]
         /\ \A k \in DOMAIN m.files : k # i /\ k # j => fs[k] = m.files[k]
    BY ONLY <2>1, <2>5, <2>14
  <2>9. fs[i] = f2 /\ fs[j] = g2 /\ \A k \in 1 .. n : k # i /\ k # j => fs[k] = m.files[k]
    BY <2>2, <2>15, <1>3 DEF EntryType
  <2>16. fs \in Seq(EntryType) /\ DOMAIN fs = 1 .. n
    <3>1. \A k \in 1 .. n : fs[k] \in EntryType
      BY <2>4, <2>9, <1>5
    <3>2. fs = [k \in 1 .. n |-> fs[k]] /\ n \in Nat
      BY <2>15, <1>3
    <3> QED BY ONLY <3>1, <3>2
  <2>8. b.files = fs /\ b.chunks = m.chunks
    BY <2>14, <1>1 DEF ManifestOk
  <2>7. ManifestOk(b)
    <3>1. b["name"] = m["name"] /\ b["total_size"] = m["total_size"]
      BY <2>14, <1>1 DEF ManifestOk
    <3> QED BY <3>1, <2>8, <2>14, <2>16, <1>1 DEF ManifestOk
  <2>10. /\ f2.chunk_start = f.chunk_start /\ f2.chunk_count = f.chunk_count + 1
         /\ g2.chunk_start = g.chunk_start + 1 /\ g2.chunk_count = g.chunk_count - 1
    BY <2>2, EntryFields
  <2>11. f.chunk_start + f.chunk_count = g.chunk_start
    <3>1. n = Len(files)
      BY FromFilesType
    <3> QED BY <3>1, <2>1, NextStart
  <2>12. g.chunk_start + g.chunk_count <= Len(m.chunks)
    BY <1>3, <1>4, <2>1 DEF Ranged
  <2>13. Ranged(b)
    <3>1. ASSUME NEW k \in 1 .. n PROVE fs[k].chunk_start + fs[k].chunk_count <= Len(m.chunks)
      <4>1. CASE k = i
        <5>1. fs[k].chunk_start = f.chunk_start /\ fs[k].chunk_count = f.chunk_count + 1
          BY <4>1, <2>9, <2>10
        <5> QED BY ONLY <5>1, <2>2, <2>3, <2>11, <2>12, <1>3, SMTT(30)
      <4>2. CASE k = j
        <5>1. fs[k].chunk_start = g.chunk_start + 1 /\ fs[k].chunk_count = g.chunk_count - 1
          BY <4>2, <2>9, <2>10
        <5> QED BY ONLY <5>1, <2>3, <2>12, <1>3
      <4>3. CASE k # i /\ k # j
        BY <4>3, <2>9, <1>3, <1>4 DEF Ranged
      <4> QED BY <4>1, <4>2, <4>3
    <3> QED BY <3>1, <2>16, <2>8 DEF Ranged
  <2> QED BY <2>7, <2>13, ResizedOk
<1> QED BY <1>6, <1>7 DEF Disguised

\* The manifest that the foreign peer provides.
LEMMA ForeignOk == Init => ManifestOk(foreign)
<1> SUFFICES ASSUME Init PROVE ManifestOk(foreign)
  OBVIOUS
<1>1. torrent \in Seq(FileType) /\ \A t \in Others : t \in Seq(FileType)
  BY BridgeAssumption DEF Init
<1>2. \/ foreign \in {FromFiles(torrent)} \cup Altered(FromFiles(torrent)) \cup Disguised(FromFiles(torrent))
      \/ \E t \in Others : foreign \in {FromFiles(t)} \cup Overlapping(FromFiles(t))
  BY DEF Init
<1>3. CASE foreign \in {FromFiles(torrent)} \cup Altered(FromFiles(torrent)) \cup Disguised(FromFiles(torrent))
  <2>1. ManifestOk(FromFiles(torrent))
    BY <1>1, FromFilesType
  <2> QED BY <1>1, <1>3, <2>1, AlteredOk, DisguisedOk
<1>4. CASE \E t \in Others : foreign \in {FromFiles(t)} \cup Overlapping(FromFiles(t))
  <2>1. PICK t \in Others : foreign \in {FromFiles(t)} \cup Overlapping(FromFiles(t))
    BY <1>4
  <2>2. ManifestOk(FromFiles(t))
    BY <1>1, FromFilesType
  <2> QED BY <2>1, <2>2, OverlappingOk
<1> QED BY <1>2, <1>3, <1>4

-----------------------------------------------------------------------------
(* What the nodes have at the end: the second invariant                    *)
\* The files of a directory, sorted.
LEMMA ReadDirOk ==
    ASSUME NEW d, \A f \in d : f \in FileType
    PROVE  ReadDirPaths(d) \in Seq(FileType)
<1> PICK paths : paths = {f.path : f \in d}
  OBVIOUS
<1> PICK present : present = Those(PathOrder, {i \in DOMAIN PathOrder : PathOrder[i] \in paths})
  OBVIOUS
<1>1. PathOrder \in Seq(Seq(Parts))
  BY BridgeAssumption
<1>2. present \in Seq(paths)
  BY <1>1, ThoseIn
<1>3. ReadDirPaths(d) = [i \in DOMAIN present |-> CHOOSE f \in d : f.path = present[i]]
  BY DEF ReadDirPaths
<1>4. ASSUME NEW i \in DOMAIN present PROVE (CHOOSE f \in d : f.path = present[i]) \in FileType
  <2>1. present[i] \in paths
    BY ONLY <1>2, <1>4
  <2>2. \E f \in d : f.path = present[i]
    BY <2>1
  <2>3. (CHOOSE f \in d : f.path = present[i]) \in d
    BY <2>2
  <2> QED BY <2>3
<1>5. DOMAIN present = 1 .. Len(present) /\ Len(present) \in Nat
  BY ONLY <1>2
<1> PICK r : r = ReadDirPaths(d)
  OBVIOUS
<1>6. DOMAIN r = 1 .. Len(present) /\ \A i \in 1 .. Len(present) : r[i] \in FileType
  BY <1>3, <1>4, <1>5
<1>7. r = [i \in 1 .. Len(present) |-> r[i]]
  BY <1>3, <1>5
<1>8. r \in Seq(FileType)
  BY ONLY <1>5, <1>6, <1>7
<1> QED BY <1>8

Finished(o, st) ==
    /\ ManifestOk(o.man) /\ RootIsConsistent(o.man) /\ HashesOf(o.man) \subseteq st
    /\ o.mode # "get" => Validate(o.man)
Rebuilt(m, st, t) ==
    ReconstructFiles(m, st).ok /\ VerifyPieces(ReconstructFiles(m, st).val, PiecesOf(t))
ManOk(o, st, t) ==
    /\ \A m \in o.todo : ManifestOk(m)
    /\ o.pc \in {"publish", "map", "done"} => Finished(o, st)
    /\ o.pc = "done" /\ o.mode \in {"local", "source"} => o.converted \/ Rebuilt(o.man, st, t)
Stocked ==
    /\ ManifestOk(foreign)
    /\ \A n \in Nodes : provided[n] # None => ManifestOk(provided[n])
    /\ \A n \in Nodes : ManOk(op[n], store[n], torrent)

\* What a step of n leaves to the other nodes.
Ours(n) ==
    /\ DOMAIN store' = Nodes /\ DOMAIN provided' = Nodes
    /\ \A x \in Nodes \ {n} : store'[x] = store[x] /\ provided'[x] = provided[x]
Supplies(n) ==
    /\ Ours(n) /\ ManOk(op'[n], store'[n], torrent)
    /\ provided'[n] # None => ManifestOk(provided'[n])

LEMMA NothingYet ==
    ASSUME NEW p, NEW st, NEW t, \A m \in p.todo : ManifestOk(m), p.pc \notin {"publish", "map", "done"}
    PROVE  ManOk(p, st, t)
BY DEF ManOk

\* An operation that only goes on, without an answer.
LEMMA GoesOn ==
    ASSUME NEW n \in Nodes, World, Stocked, DOMAIN op[n] = Fields,
           UNCHANGED <<store, provided>>, op'[n].todo = op[n].todo, op'[n].pc \notin {"publish", "map", "done"}
    PROVE  Supplies(n)
<1>1. \A m \in op'[n].todo : ManifestOk(m)
  BY DEF Stocked, ManOk
<1>2. ManOk(op'[n], store'[n], torrent)
  BY <1>1, NothingYet
<1>3. Ours(n)
  BY DEF Ours, World
<1> QED BY <1>2, <1>3 DEF Supplies, Stocked

LEMMA LookupMan ==
    ASSUME NEW n \in Nodes, World, NodesOk, Stocked, Lookup(n)
    PROVE  Supplies(n)
<1>1. DOMAIN op[n] = Fields /\ DOMAIN op = Nodes
  BY DEF World, NodesOk, NodeOk, Typed
<1>2. UNCHANGED <<store, provided>>
  BY DEF Lookup
<1>3. CASE Goto(n, "failed")
  <2>1. op'[n].pc = "failed" /\ Only(op'[n], op[n], {"pc"})
    BY <1>1, <1>3, GotoFact
  <2>2. op'[n].todo = op[n].todo
    BY <2>1, <1>1 DEF Only, Fields
  <2> QED BY <2>1, <2>2, <1>1, <1>2, GoesOn
<1>4. CASE ~Goto(n, "failed")
  <2> DEFINE pc == IF mapping = None THEN "convert" ELSE "resolve"
             todo == {m \in {provided[x] : x \in Nodes \ {n}} \cup {foreign} :
                                            m # None /\ m.root = mapping}
  <2>1. op' = [op EXCEPT ![n].pc = pc, ![n].root = mapping, ![n].todo = todo]
    BY <1>4 DEF Lookup
  <2>2. \A m \in todo : ManifestOk(m)
    BY DEF Stocked
  <2>3. pc \in {"convert", "resolve"}
    OBVIOUS
  <2> HIDE DEF pc, todo
  <2>4. op'[n] = [op[n] EXCEPT !.pc = pc, !.root = mapping, !.todo = todo]
    BY <2>1, <1>1
  <2>5. op'[n].pc = pc /\ op'[n].todo = todo
    BY <2>4, <1>1 DEF Fields
  <2>6. ManOk(op'[n], store'[n], torrent)
    BY <2>2, <2>3, <2>5, NothingYet
  <2>7. Ours(n)
    BY <1>2 DEF Ours, World
  <2> QED BY <2>6, <2>7, <1>2 DEF Supplies, Stocked
<1> QED BY <1>3, <1>4

LEMMA TryProviderMan ==
    ASSUME NEW n \in Nodes, World, NodesOk, Stocked, TryProvider(n)
    PROVE  Supplies(n)
<1>0. DOMAIN op[n] = Fields /\ DOMAIN op = Nodes /\ DOMAIN store = Nodes /\ DOMAIN provided = Nodes
  BY DEF World, NodesOk, NodeOk, Typed
<1> PICK o : o = op[n]
  OBVIOUS
<1> PICK p : p = op'[n]
  OBVIOUS
<1>1. PICK m \in o.todo : \E got \in SUBSET HashesOf(m), accepted \in BOOLEAN : Try(n, m, got, accepted)
  BY TryIs
<1>2. PICK got \in SUBSET HashesOf(m), accepted \in BOOLEAN : Try(n, m, got, accepted)
  BY <1>1
<1> PICK st : st = store[n] \cup HashesOf(m)
  OBVIOUS
<1> DEFINE files == ReconstructFiles(m, store[n] \cup HashesOf(m))
           fits == ~Verifies(op[n].mode) \/ (files.ok /\ VerifyPieces(files.val, Meta.pieces))
           man == IF accepted /\ fits THEN m ELSE None
           pc == IF ~accepted THEN "resolve"
                                        ELSE IF Verifies(op[n].mode) /\ ~files.ok THEN "failed"
                                        ELSE IF fits THEN "done" ELSE "resolve"
<1>3. /\ accepted => got = HashesOf(m)
      /\ accepted \/ got # {} => AcceptsManifest(m, op[n].root)
      /\ store' = [store EXCEPT ![n] = @ \cup got]
      /\ op' = [op EXCEPT ![n].todo = @ \ {m}, ![n].man = man, ![n].pc = pc]
      /\ provided' = provided
  BY <1>2 DEF Try
<1>4. pc \in {"resolve", "failed", "done"} /\ (pc = "done" => accepted /\ fits)
  OBVIOUS
<1>5. pc = "done" => man = m /\ (Verifies(o.mode) => Rebuilt(m, st, torrent))
  <2> HAVE pc = "done"
  <2>1. accepted /\ fits
    BY <1>4
  <2>2. Meta.pieces = PiecesOf(torrent)
    BY DEF Meta, PiecesOf
  <2> QED BY <2>1, <2>2 DEF Rebuilt
<1> HIDE DEF man, pc, fits, files
<1>6. p = [o EXCEPT !.todo = o.todo \ {m}, !.man = man, !.pc = pc]
  BY <1>0, <1>3
<1>7. p.pc = pc /\ p.man = man /\ p.todo = o.todo \ {m} /\ p.mode = o.mode
  BY <1>0, <1>6 DEF Fields
<1>8. \A x \in o.todo : ManifestOk(x)
  BY DEF Stocked, ManOk
<1>9. Ours(n)
  BY <1>0, <1>3 DEF Ours
<1>10. ManOk(p, store'[n], torrent)
  <2>1. CASE pc = "done"
    <3>1. accepted /\ got = HashesOf(m) /\ AcceptsManifest(m, op[n].root) /\ man = m
      BY <2>1, <1>3, <1>4, <1>5
    <3>2. store'[n] = st
      BY <3>1, <1>0, <1>3
    <3>3. Finished(p, store'[n])
      BY <3>1, <3>2, <1>7, <1>8 DEF Finished, AcceptsManifest
    <3>4. p.mode \in {"local", "source"} => Rebuilt(p.man, store'[n], torrent)
      BY <3>1, <3>2, <2>1, <1>5, <1>7 DEF Verifies
    <3> QED BY <3>3, <3>4, <1>7, <1>8 DEF ManOk
  <2>2. CASE pc # "done"
    BY <2>2, <1>4, <1>7, <1>8, NothingYet
  <2> QED BY <2>1, <2>2
<1> QED BY <1>3, <1>9, <1>10 DEF Supplies, Stocked

LEMMA GetMan ==
    ASSUME NEW n \in Nodes, World, NodesOk, Stocked, Get(n)
    PROVE  Supplies(n)
<1>0. DOMAIN op[n] = Fields /\ DOMAIN op = Nodes /\ DOMAIN store = Nodes /\ DOMAIN provided = Nodes
  BY DEF World, NodesOk, NodeOk, Typed
<1> PICK o : o = op[n]
  OBVIOUS
<1> PICK p : p = op'[n]
  OBVIOUS
<1> PICK source : source = UNION {HashesOf(m) : m \in {FromFiles(t) : t \in {torrent} \cup Others}}
  OBVIOUS
<1> PICK r : r = LocalDownload(foreign, source, store[n])
  OBVIOUS
<1> PICK pc : pc = IF r.ok THEN "done" ELSE "failed"
  OBVIOUS
<1>1. /\ o.mode = "get" /\ store' = [store EXCEPT ![n] = r.local] /\ provided' = provided
      /\ op' = [op EXCEPT ![n].man = foreign, ![n].pc = pc]
  BY DEF Get
<1>2. p = [o EXCEPT !.man = foreign, !.pc = pc]
  BY <1>0, <1>1
<1>3. p.pc = pc /\ p.man = foreign /\ p.todo = o.todo /\ p.mode = o.mode
  BY <1>0, <1>2 DEF Fields
<1>4. (\A x \in o.todo : ManifestOk(x)) /\ ManifestOk(foreign)
  BY DEF Stocked, ManOk
<1>5. Ours(n) /\ store'[n] = r.local
  BY <1>0, <1>1 DEF Ours
<1>6. r.ok => RootIsConsistent(foreign) /\ HashesOf(foreign) \subseteq r.local
  <2> DEFINE K == {k \in Nat : \A i \in 1 .. k : foreign.chunks[i].hash \in source \cup store[n]}
             upto == Max({k \in 0 .. Len(foreign.chunks) :
                        \A i \in 1 .. k : foreign.chunks[i].hash \in source \cup store[n]})
  <2>1. r = IF RootIsConsistent(foreign)
            THEN [ok |-> upto = Len(foreign.chunks),
                  local |-> store[n] \cup {foreign.chunks[i].hash : i \in 1 .. upto}]
            ELSE [ok |-> FALSE, local |-> store[n]]
    BY DEF LocalDownload
  <2>2. DOMAIN foreign.chunks = 1 .. Len(foreign.chunks)
    BY <1>4 DEF ManifestOk
  <2> HIDE DEF upto
  <2>3. CASE RootIsConsistent(foreign)
    <3>1. r = [ok |-> upto = Len(foreign.chunks),
                  local |-> store[n] \cup {foreign.chunks[i].hash : i \in 1 .. upto}]
      BY <2>1, <2>3
    <3>2. r.ok = (upto = Len(foreign.chunks)) /\ r.local = store[n] \cup {foreign.chunks[i].hash : i \in 1 .. upto}
      BY ONLY <3>1
    <3> QED BY <3>2, <2>2, <2>3 DEF HashesOf
  <2>4. CASE ~RootIsConsistent(foreign)
    <3>1. r = [ok |-> FALSE, local |-> store[n]]
      BY <2>1, <2>4
    <3>2. ~r.ok
      BY ONLY <3>1
    <3> QED BY <3>2
  <2> QED BY <2>3, <2>4
<1>7. ManOk(p, store'[n], torrent)
  <2>1. CASE r.ok
    <3>1. Finished(p, store'[n]) /\ p.pc = "done"
      BY <2>1, <1>1, <1>3, <1>4, <1>5, <1>6 DEF Finished
    <3> QED BY <3>1, <1>1, <1>3, <1>4 DEF ManOk
  <2>2. CASE ~r.ok
    <3>1. p.pc = "failed"
      BY <2>2, <1>3
    <3> QED BY <3>1, <1>3, <1>4, NothingYet
  <2> QED BY <2>1, <2>2
<1> QED BY <1>1, <1>5, <1>7 DEF Supplies, Stocked

LEMMA IngestMan ==
    ASSUME NEW n \in Nodes, World, NodesOk, Stocked, Ingest(n)
    PROVE  Supplies(n)
<1>0. DOMAIN op[n] = Fields /\ DOMAIN op = Nodes /\ DOMAIN store = Nodes /\ DOMAIN provided = Nodes
      /\ Judged(op[n], disk[n], torrent) /\ torrent \in Seq(FileType) /\ DiskOk(disk[n], torrent)
  BY DEF World, NodesOk, NodeOk, Typed
<1> PICK o : o = op[n]
  OBVIOUS
<1> PICK p : p = op'[n]
  OBVIOUS
<1> PICK files : files = FilesIn(n)
  OBVIOUS
<1> PICK m : m = FromFiles(files)
  OBVIOUS
<1> PICK pc : pc = IF o.mode = "pack" THEN "done" ELSE "publish"
  OBVIOUS
<1> PICK converted : converted = (o.mode # "pack")
  OBVIOUS
<1>1. /\ op' = [op EXCEPT ![n].man = m, ![n].converted = converted, ![n].pc = pc]
      /\ o.pc = "ingest" /\ store' = [store EXCEPT ![n] = @ \cup HashesOf(m)] /\ provided' = provided
  BY DEF Ingest
<1>2. p = [o EXCEPT !.man = m, !.converted = converted, !.pc = pc]
  BY <1>0, <1>1
<1>3. p.pc = pc /\ p.man = m /\ p.todo = o.todo /\ p.mode = o.mode
  BY <1>0, <1>2 DEF Fields
<1>4. \A x \in o.todo : ManifestOk(x)
  BY DEF Stocked, ManOk
<1>5. Ours(n) /\ store'[n] = store[n] \cup HashesOf(m)
  BY <1>0, <1>1 DEF Ours
<1>6. files \in Seq(FileType)
  <2>1. CASE o.mode = "pack"
    <3>1. \A f \in disk[n] : f \in FileType
      BY <1>0 DEF DiskOk, HasFiles
    <3> QED BY <3>1, <2>1, ReadDirOk DEF FilesIn
  <2>2. CASE o.mode # "pack"
    <3>1. disk[n] # {}
      BY <2>2, <1>0, <1>1 DEF Judged, Fits
    <3> QED BY <3>1, <2>2, <1>0, FoundOk, DeclaredIs DEF FilesIn
  <2> QED BY <2>1, <2>2
<1>7. ManifestOk(m) /\ RootIsConsistent(m) /\ Validate(m)
  BY <1>6, FromFilesType, FromFilesValid
<1>8. Finished(p, store'[n])
  BY <1>3, <1>5, <1>7 DEF Finished
<1>9. ManOk(p, store'[n], torrent)
  <2>1. pc = "done" => o.mode = "pack"
    OBVIOUS
  <2> QED BY <2>1, <1>3, <1>4, <1>8 DEF ManOk
<1> QED BY <1>1, <1>5, <1>9 DEF Supplies, Stocked

\* The answer stands when it has been published.
LEMMA Publishes ==
    ASSUME NEW n \in Nodes, World, NodesOk, Stocked, NEW pc, pc \in {"map", "done"},
           op[n].pc \in {"publish", "map"}, Goto(n, pc), store' = store
    PROVE  ManOk(op'[n], store'[n], torrent) /\ ManifestOk(op[n].man)
<1>0. DOMAIN op[n] = Fields /\ DOMAIN op = Nodes /\ Judged(op[n], disk[n], torrent)
  BY DEF World, NodesOk, NodeOk, Typed
<1>1. op'[n].pc = pc /\ Only(op'[n], op[n], {"pc"})
  BY <1>0, GotoFact
<1>2. /\ op'[n].todo = op[n].todo /\ op'[n].man = op[n].man /\ op'[n].mode = op[n].mode
      /\ op'[n].converted = op[n].converted
  BY <1>0, <1>1 DEF Only, Fields
<1>3. ManOk(op[n], store[n], torrent) /\ op[n].converted
  BY <1>0 DEF Stocked, Judged
<1>4. Finished(op[n], store[n])
  BY <1>3 DEF ManOk
<1>5. Finished(op'[n], store'[n])
  BY <1>2, <1>4 DEF Finished
<1> QED BY <1>1, <1>2, <1>3, <1>4, <1>5 DEF ManOk, Finished

LEMMA ReadIs ==
    ASSUME NEW n \in Nodes, Read(n)
    PROVE  /\ UNCHANGED <<store, provided>>
           /\ \E pos, buf, next, pc : /\ pc \in {"convert", "rejected"}
                                      /\ op' = [op EXCEPT ![n].pos = pos, ![n].buf = buf, ![n].next = next, ![n].pc = pc]
<1> PICK data : data = Declared(n)[op[n].reading].data
  OBVIOUS
<1>1. PICK k \in 1 .. MaxWindow :
             LET fed == Feed(op[n].buf, op[n].next, SubSeq(data, op[n].pos + 1, op[n].pos + k), Meta.pieces)
             IN  /\ op[n].pos + k <= Len(data)
                 /\ op' = [op EXCEPT ![n].pos = op[n].pos + k, ![n].buf = fed.buf,
                                     ![n].next = fed.next,
                                     ![n].pc = IF fed.ok THEN "convert" ELSE "rejected"]
  BY DEF Read
<1> PICK fed : fed = Feed(op[n].buf, op[n].next, SubSeq(data, op[n].pos + 1, op[n].pos + k), Meta.pieces)
  OBVIOUS
<1> PICK pc : pc = IF fed.ok THEN "convert" ELSE "rejected"
  OBVIOUS
<1>2. op' = [op EXCEPT ![n].pos = op[n].pos + k, ![n].buf = fed.buf, ![n].next = fed.next, ![n].pc = pc]
  BY <1>1
<1>3. pc \in {"convert", "rejected"}
  OBVIOUS
<1>4. UNCHANGED <<store, provided>>
  BY DEF Read
<1> QED BY <1>2, <1>3, <1>4

LEMMA StepMan ==
    ASSUME NEW n \in Nodes, World, NodesOk, Stocked, Step(n)
    PROVE  Supplies(n)
<1>0. DOMAIN op[n] = Fields /\ DOMAIN op = Nodes /\ DOMAIN store = Nodes /\ DOMAIN provided = Nodes
  BY DEF World, NodesOk, NodeOk, Typed
<1>a. ASSUME NEW pc, Goto(n, pc), pc \notin {"publish", "map", "done"}, UNCHANGED <<store, provided>>
      PROVE  Supplies(n)
  <2>1. op'[n].pc = pc /\ Only(op'[n], op[n], {"pc"})
    BY <1>a, <1>0, GotoFact
  <2>2. op'[n].todo = op[n].todo
    BY <2>1, <1>0 DEF Only, Fields
  <2> QED BY <1>a, <1>0, <2>1, <2>2, GoesOn
<1>1. CASE Lookup(n)
  BY <1>1, LookupMan
<1>2. CASE TryProvider(n)
  BY <1>2, TryProviderMan
<1>3. CASE NoProvider(n)
  BY <1>3, <1>a DEF NoProvider
<1>4. CASE Read(n)
  <2>1. /\ UNCHANGED <<store, provided>>
        /\ \E pos, buf, next, pc : /\ pc \in {"convert", "rejected"}
                                   /\ op' = [op EXCEPT ![n].pos = pos, ![n].buf = buf, ![n].next = next, ![n].pc = pc]
    BY <1>4, ReadIs
  <2>2. PICK pos, buf, next, pc : /\ pc \in {"convert", "rejected"}
                                  /\ op' = [op EXCEPT ![n].pos = pos, ![n].buf = buf, ![n].next = next, ![n].pc = pc]
    BY <2>1
  <2>3. op'[n].todo = op[n].todo /\ op'[n].pc = pc
    BY <2>2, <1>0 DEF Fields
  <2> QED BY <2>1, <2>2, <2>3, <1>0, GoesOn
<1>5. CASE NextFile(n)
  <2>1. UNCHANGED <<store, provided>> /\ op' = [op EXCEPT ![n].reading = @ + 1, ![n].pos = 0] /\ op[n].pc = "convert"
    BY <1>5 DEF NextFile
  <2>2. op'[n].todo = op[n].todo /\ op'[n].pc = op[n].pc
    BY <2>1, <1>0 DEF Fields
  <2> QED BY <2>1, <2>2, <1>0, GoesOn
<1>6. CASE FinishVerify(n)
  BY <1>6, <1>a DEF FinishVerify
<1>7. CASE VerifyWhole(n)
  BY <1>7, <1>a DEF VerifyWhole
<1>8. CASE NoData(n)
  BY <1>8, <1>a DEF NoData, Fail
<1>9. CASE Walk(n)
  BY <1>9, <1>a DEF Walk
<1>10. CASE Ingest(n)
  BY <1>10, IngestMan
<1>11. CASE Provide(n)
  <2>1. ManOk(op'[n], store'[n], torrent) /\ ManifestOk(op[n].man)
    BY <1>11, Publishes DEF Provide
  <2> QED BY <2>1, <1>0, <1>11 DEF Provide, Supplies, Ours
<1>12. CASE PutMapping(n)
  <2>1. ManOk(op'[n], store'[n], torrent)
    BY <1>12, Publishes DEF PutMapping
  <2> QED BY <2>1, <1>0, <1>12 DEF PutMapping, Supplies, Ours, Stocked
<1>13. CASE Get(n)
  BY <1>13, GetMan
<1> QED BY <1>1, <1>2, <1>3, <1>4, <1>5, <1>6, <1>7, <1>8, <1>9, <1>10, <1>11, <1>12, <1>13 DEF Step

IInv == Sound /\ Stocked

LEMMA InitStocked == Init => Stocked
<1> SUFFICES ASSUME Init PROVE Stocked
  OBVIOUS
<1>1. ManifestOk(foreign)
  BY ForeignOk
<1>2. \A n \in Nodes : provided[n] = None
  BY DEF Init
<1>3. PICK role \in Roles : op = [n \in Nodes |-> Idle(role[n])]
  BY DEF Init
<1>4. \A n \in Nodes : op[n].pc = "start" /\ op[n].todo = {}
  BY <1>3 DEF Idle
<1>5. \A n \in Nodes : ManOk(op[n], store[n], torrent)
  BY <1>4, NothingYet
<1> QED BY <1>1, <1>2, <1>5 DEF Stocked

LEMMA StepStocked ==
    ASSUME NEW n \in Nodes, Sound, Stocked, Step(n)
    PROVE  Stocked'
<1>0. World /\ NodesOk
  BY DEF Sound
<1>1. Supplies(n) /\ Frame(n) /\ Still
  BY <1>0, StepMan, StepOk, StepStill DEF Moves
<1>2. torrent' = torrent /\ foreign' = foreign /\ \A x \in Nodes \ {n} : op'[x] = op[x]
  BY <1>1 DEF Still, Frame
<1>3. /\ \A x \in Nodes \ {n} : store'[x] = store[x] /\ provided'[x] = provided[x]
      /\ ManOk(op'[n], store'[n], torrent) /\ (provided'[n] # None => ManifestOk(provided'[n]))
  BY <1>1 DEF Supplies, Ours
<1>4. \A x \in Nodes : ManOk(op'[x], store'[x], torrent')
  BY <1>2, <1>3 DEF Stocked
<1>5. \A x \in Nodes : provided'[x] # None => ManifestOk(provided'[x])
  BY <1>3 DEF Stocked
<1>6. ManifestOk(foreign')
  BY <1>2 DEF Stocked
<1> QED BY <1>4, <1>5, <1>6 DEF Stocked

LEMMA NextIInv == IInv /\ [Next]_vars => IInv'
<1> SUFFICES ASSUME IInv, [Next]_vars PROVE IInv'
  OBVIOUS
<1>0. Sound /\ Stocked
  BY DEF IInv
<1>1. Sound'
  BY <1>0, NextSound
<1>2. Stocked'
  <2>1. CASE Next
    BY <2>1, <1>0, StepStocked DEF Next
  <2>2. CASE UNCHANGED vars
    BY <2>2, <1>0 DEF vars, Stocked
  <2> QED BY <2>1, <2>2
<1> QED BY <1>1, <1>2 DEF IInv

\* The second invariant: a manifest that convert, resolve, pack or get ends
\* with matches its root, has all its chunks in the node's store and, except
\* after get, passes Manifest::validate.  What a node answers to a caller with
\* the .torrent file was converted from its data or rebuilds to its pieces.
THEOREM SpecIInv == Spec => []IInv
<1>1. Init => IInv
  BY InitSound, InitStocked DEF IInv
<1> QED BY <1>1, NextIInv, PTL DEF Spec

\* What a node has that is done.
LEMMA DoneHas ==
    ASSUME IInv, NEW n \in Nodes, Done(n)
    PROVE  /\ ManifestOk(op[n].man) /\ RootIsConsistent(op[n].man) /\ HashesOf(op[n].man) \subseteq store[n]
           /\ (op[n].mode # "get" => Validate(op[n].man))
<1>1. Finished(op[n], store[n])
  BY DEF IInv, Stocked, ManOk, Done
<1> QED BY <1>1 DEF Finished

-----------------------------------------------------------------------------
(* What follows from the two                                               *)
LEMMA AllWrittenInside ==
    ASSUME NEW m, ManifestOk(m), NEW st, NEW i \in DOMAIN Written(m, st).files
    PROVE  Inside(Written(m, st).files[i].path)
<1> PICK safe : safe = SanitizeOutputName(m.name)
  OBVIOUS
<1> PICK dest : dest = IF safe.ok THEN safe.val ELSE <<"download">>
  OBVIOUS
<1> PICK tree : tree = ExportTreeToDir(m, st)
  OBVIOUS
<1> PICK one : one = ExportTo(m, st)
  OBVIOUS
<1>1. Inside(dest)
  <2>1. m.name \in Seq(Parts)
    BY DEF ManifestOk
  <2> QED BY <2>1, SafeName, DownloadInside
<1> DEFINE fs == [k \in DOMAIN tree.files |-> [path |-> dest \o tree.files[k].path, data |-> tree.files[k].data]]
<1>2. Written(m, st) = IF LooksLikeTree(m)
        THEN [ok |-> tree.ok, files |-> fs]
        ELSE [ok |-> one.ok, files |-> <<[path |-> dest, data |-> one.data]>>]
  BY DEF Written
<1>3. CASE LooksLikeTree(m)
  <2>1. Written(m, st).files = fs
    BY <1>2, <1>3
  <2>2. i \in DOMAIN tree.files
    BY <2>1
  <2>3. /\ i \in 1 .. Len(tree.files) /\ tree.files[i] = FileWritten(m, st, m.files[i]) /\ Inside(m.files[i].path)
    BY <2>2, ExportedPaths
  <2>4. tree.files[i].path = m.files[i].path
    BY <2>3 DEF FileWritten
  <2>5. fs[i].path = dest \o m.files[i].path
    BY <2>2, <2>4
  <2>6. Inside(dest \o m.files[i].path)
    BY <2>3, <1>1, InsideBelow
  <2> QED BY ONLY <2>1, <2>5, <2>6
<1>4. CASE ~LooksLikeTree(m)
  <2>1. Written(m, st).files = <<[path |-> dest, data |-> one.data]>>
    BY <1>2, <1>4
  <2>2. i = 1
    BY <2>1
  <2>3. Written(m, st).files[i].path = dest
    BY <2>1, <2>2
  <2> QED BY <2>3, <1>1
<1> QED BY <1>3, <1>4

LEMMA IInvWritten == IInv => WrittenInside
<1> SUFFICES ASSUME IInv, NEW n \in Nodes, Done(n), NEW w, w = Written(op[n].man, store[n]).files, NEW i \in DOMAIN w
             PROVE  Landing(w[i].path) = Listed(w[i].path)
  BY DEF WrittenInside
<1>1. ManifestOk(op[n].man)
  BY DoneHas
<1>2. Inside(w[i].path)
  BY <1>1, AllWrittenInside
<1> QED BY <1>2, LandingPlain DEF Inside

\* export_tree_to_dir and write_output put every file of any manifest that
\* passed validate below the current directory, where its path says.
THEOREM SpecWrittenInside == Spec => []WrittenInside
BY SpecIInv, IInvWritten, PTL

LEMMA IInvRootNames == IInv => RootNamesContent
<1> SUFFICES ASSUME IInv, NEW n \in Nodes, NEW t \in {torrent} \cup Others,
                    Done(n), op[n].man.root = FromFiles(t).root
             PROVE  /\ Data(op[n].man.chunks) = Stream(t)
                    /\ HashesOf(op[n].man) \subseteq store[n]
  BY DEF RootNamesContent
<1> PICK m : m = op[n].man
  OBVIOUS
<1> PICK w : w = FromFiles(t)
  OBVIOUS
<1>1. t \in Seq(FileType)
  BY BridgeAssumption DEF IInv, Sound, World
<1>2. ManifestOk(m) /\ RootIsConsistent(m) /\ HashesOf(m) \subseteq store[n]
  BY DoneHas
<1>3. ManifestOk(w) /\ RootIsConsistent(w) /\ Data(w.chunks) = Stream(t)
  BY <1>1, FromFilesType, FromFilesData
<1>4. m.chunks \in Seq(ChunkType) /\ w.chunks \in Seq(ChunkType)
  BY <1>2, <1>3 DEF ManifestOk
<1>5. MerkleRoot(Hashes(m)) = MerkleRoot(Hashes(w))
  BY <1>2, <1>3 DEF RootIsConsistent
<1>6. Hashes(m) = Hashes(w)
  BY <1>4, <1>5, HashesType, MerkleInjective
<1>7. Data(m.chunks) = Data(w.chunks)
  BY <1>4, <1>6, SameHashesSameData
<1> QED BY <1>2, <1>3, <1>7

\* Whoever ends with a manifest whose root is that of a tree has that tree's
\* bytes, in its order: validate and root_is_consistent leave no other.
THEOREM SpecRootNamesContent == Spec => []RootNamesContent
BY SpecIInv, IInvRootNames, PTL

\* The ways to rebuild a manifest, as ThreeWaysAgree compares them.
WaysAgree(m, st) ==
    LET own == FilesOf(m)
        w == ExportTreeToDir(m, st)
        cut == SplitStream(m, Stream(own))
        sized == \A i \in DOMAIN own : Len(own[i].data) = m.files[i].size
    IN  /\ w.files = SubSeq(own, 1, Len(w.files))
        /\ (\A i \in DOMAIN own : ValidateRelativePath(own[i].path)) => w.ok /\ w.files = own
        /\ Reconstruct(m, st) =
             IF Len(Stream(own)) = m.total_size THEN Ok(Stream(own)) ELSE Err
        /\ ReconstructFiles(m, st) = IF sized THEN Ok(own) ELSE Err
        /\ sized <=> cut = Ok(own)
        /\ cut.ok /\ FromFiles(cut.val).root = m.root => Hashes(FromFiles(cut.val)) = Hashes(m)

LEMMA WaysFact ==
    ASSUME NEW m, ManifestOk(m), RootIsConsistent(m), Validate(m), NEW st, Held(m, st)
    PROVE  WaysAgree(m, st)
<1> DEFINE own == FilesOf(m)
           w == ExportTreeToDir(m, st)
           cut == SplitStream(m, Stream(own))
           sized == \A i \in DOMAIN own : Len(own[i].data) = m.files[i].size
<1>1. Checks(m, st)
  BY ChunksVerify DEF Checks
<1>2. own \in Seq(FileType) /\ DOMAIN own = DOMAIN m.files
  <2>1. Len(own) = Len(m.files) /\ own \in Seq(FileType)
    BY ContentsFact
  <2>2. m.files \in Seq(EntryType)
    BY DEF ManifestOk
  <2> QED BY ONLY <2>1, <2>2
<1>3. sized <=> Sized(m)
  BY <1>2 DEF Sized
<1> HIDE DEF sized
<1>4. w.files = SubSeq(own, 1, Len(w.files))
  BY DirFiles
<1>5. (\A i \in DOMAIN own : ValidateRelativePath(own[i].path)) => w.ok /\ w.files = own
  BY AllExported
<1>6. Reconstruct(m, st) = IF Len(Stream(own)) = m.total_size THEN Ok(Stream(own)) ELSE Err
  <2>1. Data(m.chunks) = Stream(own)
    BY DataIsStream
  <2> QED BY <2>1, <1>1, ReconstructIs
<1>7. ReconstructFiles(m, st) = IF sized THEN Ok(own) ELSE Err
  <2>1. CASE sized
    BY <2>1, <1>1, <1>3, ReconstructIs
  <2>2. CASE ~sized
    BY <2>2, <1>1, <1>3, ReconstructIs
  <2> QED BY <2>1, <2>2
<1>8. sized <=> cut = Ok(own)
  BY <1>3, SplitWhenSized
<1>9. cut.ok /\ FromFiles(cut.val).root = m.root => Hashes(FromFiles(cut.val)) = Hashes(m)
  <2>1. Stream(own) \in Seq(Bytes)
    BY <1>2, StreamType
  <2> QED BY <2>1, SplitNamesRoot
<1> USE DEF sized
<1> QED BY <1>4, <1>5, <1>6, <1>7, <1>8, <1>9, Zenon DEF WaysAgree

LEMMA IInvThreeWays == IInv => ThreeWaysAgree
<1>1. ASSUME IInv, NEW n \in Nodes, Done(n), op[n].mode # "get"
      PROVE  WaysAgree(op[n].man, store[n])
  <2>1. /\ ManifestOk(op[n].man) /\ RootIsConsistent(op[n].man) /\ Validate(op[n].man)
        /\ Held(op[n].man, store[n])
    BY <1>1, DoneHas DEF Held, HashesOf
  <2> QED BY <2>1, WaysFact
<1>2. ThreeWaysAgree <=> \A n \in Nodes : Done(n) /\ op[n].mode # "get" => WaysAgree(op[n].man, store[n])
  BY Zenon DEF ThreeWaysAgree, WaysAgree
<1> QED BY <1>1, <1>2

\* Every manifest that a node ends with and that came through validate is
\* exported as its own chunks; reconstruct, reconstruct_files and split_stream
\* give the same or refuse it, except that split_stream cuts the stream at other
\* places if the sizes are not those of the chunks: then what recomputes the root
\* has the chunks of the manifest.
THEOREM SpecThreeWaysAgree == Spec => []ThreeWaysAgree
BY SpecIInv, IInvThreeWays, PTL

\* What was ingested can be rebuilt.
LEMMA IngestedRebuilds ==
    ASSUME NEW files \in Seq(FileType), NEW st, NEW m, m = FromFiles(files), HashesOf(m) \subseteq st
    PROVE  Checks(m, st) /\ Sized(m) /\ FilesOf(m) = files
<1>1. ManifestOk(m) /\ RootIsConsistent(m) /\ Validate(m) /\ FilesOf(m) = files /\ Len(m.files) = Len(files)
  BY FromFilesType, FromFilesValid, FromFilesData
<1>2. Held(m, st)
  BY DEF Held, HashesOf
<1>3. Checks(m, st)
  BY <1>1, <1>2, ChunksVerify DEF Checks
<1>4. Sized(m)
  <2>1. DOMAIN m.files = 1 .. Len(files)
    <3>1. m.files \in Seq(EntryType)
      BY <1>1 DEF ManifestOk
    <3> QED BY <3>1, <1>1
  <2>2. \A i \in 1 .. Len(files) : m.files[i].size = Len(files[i].data)
    BY RunAtFact DEF RunAt
  <2> QED BY <2>1, <2>2, <1>1 DEF Sized
<1> QED BY <1>1, <1>3, <1>4

LEMMA IInvBridged == IInv => BridgedIsTorrent
<1> SUFFICES ASSUME IInv, NEW n \in Nodes, Done(n), op[n].mode \in {"local", "source"}
             PROVE  LET r == ReconstructFiles(op[n].man, store[n])
                    IN  r.ok /\ Stream(r.val) = Stream(torrent)
  BY DEF BridgedIsTorrent
<1> PICK o : o = op[n]
  OBVIOUS
<1> PICK m : m = o.man
  OBVIOUS
<1> PICK st : st = store[n]
  OBVIOUS
<1> PICK r : r = ReconstructFiles(m, st)
  OBVIOUS
<1> PICK found : found = Found(disk[n], torrent)
  OBVIOUS
<1>1. ManifestOk(m) /\ HashesOf(m) \subseteq st
  BY DoneHas
<1>2. o.pc = "done" /\ (o.converted \/ Rebuilt(m, st, torrent))
  BY DEF IInv, Stocked, ManOk, Done
<1>3. torrent \in Seq(FileType) /\ DiskOk(disk[n], torrent) /\ Judged(o, disk[n], torrent)
  BY DEF IInv, Sound, World, NodesOk, NodeOk
<1>4. Parsed(torrent) /\ (o.converted => Fits(disk[n], torrent) /\ m = FromFiles(found))
  BY <1>2, <1>3 DEF Judged
<1>5. PiecesOf(torrent) = Pieces(Stream(torrent)) /\ Stream(torrent) \in Seq(Bytes)
  BY <1>3, <1>4, PiecesOfType, StreamType
<1>6. ASSUME NEW files \in Seq(FileType), VerifyPieces(files, PiecesOf(torrent))
      PROVE  Stream(files) = Stream(torrent)
  <2>1. Stream(files) \in Seq(Bytes)
    BY StreamType
  <2>2. Pieces(Stream(files)) = Pieces(Stream(torrent))
    BY <1>5, <1>6 DEF VerifyPieces
  <2> QED BY <2>1, <2>2, <1>5, PiecesInjective
<1>7. CASE o.converted
  <2>1. found \in Seq(FileType)
    BY <1>3, <1>4, <1>7, FoundOk DEF Fits
  <2>2. VerifyPieces(found, PiecesOf(torrent)) /\ m = FromFiles(found)
    BY <1>4, <1>7 DEF Fits
  <2>3. Checks(m, st) /\ Sized(m) /\ FilesOf(m) = found
    BY <2>1, <2>2, <1>1, IngestedRebuilds
  <2>4. r = Ok(found)
    BY <2>3, ReconstructIs
  <2>5. r.ok = TRUE /\ r.val = found
    BY <2>4 DEF Ok
  <2> QED BY <2>1, <2>2, <2>5, <1>6
<1>8. CASE Rebuilt(m, st, torrent)
  <2>1. r.ok /\ VerifyPieces(r.val, PiecesOf(torrent))
    BY <1>8 DEF Rebuilt
  <2>2. Checks(m, st) /\ Sized(m)
    BY <2>1, ReconstructIs
  <2>3. r = Ok(FilesOf(m))
    BY <2>2, ReconstructIs
  <2>4. r.val = FilesOf(m)
    BY <2>3 DEF Ok
  <2>5. Validate(m)
    BY <2>2 DEF Checks
  <2>6. FilesOf(m) \in Seq(FileType)
    BY <2>5, <1>1, ContentsFact
  <2> QED BY <2>1, <2>4, <2>6, <1>6
<1> QED BY <1>2, <1>7, <1>8

\* What resolve or convert answers to a caller that has the .torrent file
\* rebuilds to the torrent's bytes, for any mapping in the DHT, any disk and
\* any manifest of a provider.
THEOREM SpecBridgedIsTorrent == Spec => []BridgedIsTorrent
BY SpecIInv, IInvBridged, PTL
=============================================================================
