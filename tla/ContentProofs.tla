---------------------------- MODULE ContentProofs ----------------------------
(***************************************************************************)
(* What the pure code of Content computes, for all content: sums, chunks,  *)
(* manifests, the Merkle tree, the ways to rebuild content from a manifest *)
(* and the paths that are written.                                         *)
(***************************************************************************)
EXTENDS Content, FiniteSetTheorems, SequenceTheorems, TLAPS

-----------------------------------------------------------------------------
(* Numbers, and recursions over the places of a sequence.  An induction is *)
(* the choice of a least number that violates the claim.                   *)
\* The least element of a nonempty set of numbers.
LEMMA LeastOf ==
    ASSUME NEW B \in SUBSET Nat, B # {}
    PROVE  \E n \in B : \A k \in B : n <= k
<1>1. IsWellFoundedOn(OpToRel(<, Nat), Nat)
  BY NatLessThanWellFounded
<1>2. PICK n \in B : \A k \in B : ~(<<k, n>> \in OpToRel(<, Nat))
  BY <1>1, WFMin
<1>3. ASSUME NEW k \in B, k < n PROVE FALSE
  <2>1. <<k, n>> \in OpToRel(<, Nat)
    BY <1>3 DEF OpToRel
  <2> QED BY <2>1, <1>2
<1> QED BY <1>3

\* Induction up to n: G holds 0, and with every number below n the next.
LEMMA Upto ==
    ASSUME NEW n \in Nat, NEW G, 0 \in G, \A k \in 0 .. n : k < n /\ k \in G => k + 1 \in G
    PROVE  \A k \in 0 .. n : k \in G
<1> DEFINE B == {k \in 0 .. n : k \notin G}
<1> SUFFICES ASSUME B # {} PROVE FALSE
  OBVIOUS
<1>1. PICK m \in B : \A k \in B : m <= k
  <2> HIDE DEF B
  <2>1. B \in SUBSET Nat
    BY DEF B
  <2> QED BY <2>1, LeastOf
<1>2. m \in 0 .. n /\ m \notin G
  BY <1>1
<1>3. m # 0 /\ m - 1 \in 0 .. n /\ m - 1 < n /\ (m - 1) + 1 = m /\ ~(m <= m - 1)
  BY <1>2
<1>4. m - 1 \in G
  BY <1>1, <1>3
<1> QED BY <1>2, <1>3, <1>4

LEMMA GreatestOf ==
    ASSUME NEW n \in Nat, NEW K, 0 \in K
    PROVE  LET good == Max({k \in 0 .. n : k \in K}) IN
           good \in 0 .. n /\ good \in K /\ \A k \in 0 .. n : k \in K => k <= good
<1> PICK B : B = {n - k : k \in {j \in 0 .. n : j \in K}}
  OBVIOUS
<1>1. B \in SUBSET Nat /\ B # {}
  <2>1. \A k \in 0 .. n : n - k \in Nat
    OBVIOUS
  <2>2. n - 0 \in B
    OBVIOUS
  <2> QED BY <2>1, <2>2
<1>2. PICK b \in B : \A x \in B : b <= x
  BY <1>1, LeastOf
<1>3. PICK g \in 0 .. n : g \in K /\ b = n - g
  BY <1>2
<1>4. \A k \in 0 .. n : k \in K => k <= g
  <2> TAKE k \in 0 .. n
  <2> HAVE k \in K
  <2>1. n - k \in B
    OBVIOUS
  <2>2. n - g <= n - k
    BY <2>1, <1>2, <1>3
  <2> QED BY <2>2
<1> PICK U : U = {k \in 0 .. n : k \in K}
  OBVIOUS
<1>5. \E x \in U : \A y \in U : x >= y
  BY <1>3, <1>4
<1>6. Max(U) \in U /\ \A y \in U : Max(U) >= y
  BY <1>5 DEF Max
<1> QED BY <1>6

\* A recursion over the places of a sequence has a solution.
Solves(f, m, V, v0, step) ==
    f \in [0 .. m -> V] /\ f[0] = v0 /\ \A k \in 1 .. m : f[k] = step[<<k, f[k - 1]>>]

LEMMA Recur ==
    ASSUME NEW n \in Nat, NEW V, NEW v0 \in V, NEW step \in [(1 .. n) \X V -> V]
    PROVE  \E f : Solves(f, n, V, v0, step)
<1> DEFINE G == {m \in 0 .. n : \E f : Solves(f, m, V, v0, step)}
<1>1. 0 \in G
  <2> DEFINE f == [k \in 0 .. 0 |-> v0]
  <2>1. Solves(f, 0, V, v0, step)
    BY DEF Solves
  <2> HIDE DEF f
  <2> QED BY <2>1
<1>2. ASSUME NEW m \in 0 .. n, m < n, m \in G PROVE m + 1 \in G
  <2>1. PICK g : Solves(g, m, V, v0, step)
    BY <1>2
  <2>a. g \in [0 .. m -> V] /\ g[0] = v0 /\ \A k \in 1 .. m : g[k] = step[<<k, g[k - 1]>>]
    BY <2>1 DEF Solves
  <2> DEFINE f == [k \in 0 .. m + 1 |-> IF k <= m THEN g[k] ELSE step[<<m + 1, g[m]>>]]
  <2>2. g[m] \in V /\ m + 1 \in 1 .. n
    BY <2>a, <1>2
  <2>3. <<m + 1, g[m]>> \in (1 .. n) \X V
    BY <2>2
  <2>4. step[<<m + 1, g[m]>>] \in V
    BY <2>3
  <2>5. f \in [0 .. m + 1 -> V] /\ f[0] = v0
    BY <2>a, <2>4, <1>2
  <2>6. ASSUME NEW k \in 1 .. m + 1 PROVE f[k] = step[<<k, f[k - 1]>>]
    <3>1. CASE k = m + 1
      <4>1. f[k] = step[<<m + 1, g[m]>>] /\ f[k - 1] = g[m]
        BY <3>1, <1>2
      <4> HIDE DEF f
      <4> QED BY <4>1, <3>1
    <3>2. CASE k # m + 1
      <4>1. k \in 1 .. m /\ f[k] = g[k] /\ f[k - 1] = g[k - 1]
        BY <3>2, <1>2
      <4>2. g[k] = step[<<k, g[k - 1]>>]
        BY <2>a, <4>1
      <4> HIDE DEF f
      <4> QED BY <4>1, <4>2
    <3> QED BY <3>1, <3>2
  <2> HIDE DEF f
  <2>7. Solves(f, m + 1, V, v0, step)
    BY <2>5, <2>6 DEF Solves
  <2> QED BY <2>2, <2>7, <1>2
<1>3. \A k \in 0 .. n : k \in G
  <2> HIDE DEF G
  <2> QED BY <1>1, <1>2, Upto
<1>4. n \in G
  BY <1>3
<1> QED BY <1>4

\* Sequences that agree step by step agree.
InStep(f, g, n) == f[0] = g[0] /\ \A k \in 1 .. n : f[k - 1] = g[k - 1] => f[k] = g[k]

LEMMA Alike ==
    ASSUME NEW n \in Nat, NEW f, NEW g, InStep(f, g, n)
    PROVE  \A k \in 0 .. n : f[k] = g[k]
<1>0. f[0] = g[0] /\ \A k \in 1 .. n : f[k - 1] = g[k - 1] => f[k] = g[k]
  BY DEF InStep
<1> DEFINE G == {k \in 0 .. n : f[k] = g[k]}
<1>1. 0 \in G
  BY <1>0
<1>2. ASSUME NEW k \in 0 .. n, k < n, k \in G PROVE k + 1 \in G
  <2>1. k + 1 \in 1 .. n /\ (k + 1) - 1 = k
    BY <1>2
  <2> QED BY <1>0, <1>2, <2>1
<1>3. \A k \in 0 .. n : k \in G
  <2> HIDE DEF G
  <2> QED BY <1>1, <1>2, Upto
<1> QED BY <1>3

-----------------------------------------------------------------------------
(* Sums                                                                    *)
\* The function that the definition of a sum chooses.
TotalEq(f, nums) == f = [k \in 0 .. Len(nums) |-> IF k = 0 THEN 0 ELSE f[k - 1] + nums[k]]
TotalFun(nums) == CHOOSE f : TotalEq(f, nums)

LEMMA TotalRec ==
    ASSUME NEW nums \in Seq(Int)
    PROVE  TotalEq(TotalFun(nums), nums)
<1> DEFINE n == Len(nums)
           step == [x \in (1 .. n) \X Int |-> x[2] + nums[x[1]]]
<1>1. n \in Nat /\ 0 \in Int /\ step \in [(1 .. n) \X Int -> Int]
  OBVIOUS
<1>2. PICK f : Solves(f, n, Int, 0, step)
  <2> HIDE DEF step, n
  <2> QED BY <1>1, Recur
<1>3. f \in [0 .. n -> Int] /\ f[0] = 0 /\ \A k \in 1 .. n : f[k] = step[<<k, f[k - 1]>>]
  BY <1>2 DEF Solves
<1>4. \A k \in 1 .. n : <<k, f[k - 1]>> \in (1 .. n) \X Int
  <2>1. \A k \in 1 .. n : k - 1 \in 0 .. n /\ f[k - 1] \in Int
    BY <1>1, <1>3, SMTT(30)
  <2> QED BY <2>1
<1>5. \A k \in 1 .. n : f[k] = f[k - 1] + nums[k]
  BY <1>3, <1>4
<1>6. f = [k \in 0 .. n |-> IF k = 0 THEN 0 ELSE f[k - 1] + nums[k]]
  BY <1>3, <1>5
<1>7. TotalEq(f, nums)
  BY <1>6 DEF TotalEq
<1> QED BY <1>7 DEF TotalFun

TotalFact(f, nums) ==
    /\ Total(nums) = f[Len(nums)] /\ f[0] = 0
    /\ \A k \in 1 .. Len(nums) : f[k] = f[k - 1] + nums[k]
    /\ f \in [0 .. Len(nums) -> Int]

LEMMA TotalUnfold == ASSUME NEW nums \in Seq(Int) PROVE TotalFact(TotalFun(nums), nums)
<1> PICK f : f = TotalFun(nums)
  OBVIOUS
<1>1. f = [k \in 0 .. Len(nums) |-> IF k = 0 THEN 0 ELSE f[k - 1] + nums[k]]
  BY TotalRec DEF TotalEq
<1>2. Total(nums) = f[Len(nums)]
  BY DEF Total, TotalFun, TotalEq
<1>3. \A k \in 0 .. Len(nums) : f[k] = IF k = 0 THEN 0 ELSE f[k - 1] + nums[k]
  BY <1>1
<1>4. Len(nums) \in Nat
  OBVIOUS
<1>5. f[0] = 0 /\ \A k \in 1 .. Len(nums) : f[k] = f[k - 1] + nums[k]
  BY <1>3, <1>4
<1>6. \A k \in 0 .. Len(nums) : k \in {j \in 0 .. Len(nums) : f[j] \in Int}
  <2> DEFINE G == {j \in 0 .. Len(nums) : f[j] \in Int}
  <2>1. 0 \in G
    BY <1>4, <1>5
  <2>2. ASSUME NEW k \in 0 .. Len(nums), k < Len(nums), k \in G PROVE k + 1 \in G
    <3>1. k + 1 \in 1 .. Len(nums) /\ (k + 1) - 1 = k /\ nums[k + 1] \in Int
      BY <2>2
    <3>2. f[k + 1] = f[k] + nums[k + 1]
      BY <3>1, <1>5
    <3> QED BY <3>1, <3>2, <2>2
  <2> HIDE DEF G
  <2> QED BY <1>4, <2>1, <2>2, Upto DEF G
<1>7. f \in [0 .. Len(nums) -> Int]
  BY <1>1, <1>6
<1> QED BY <1>2, <1>5, <1>7 DEF TotalFact

LEMMA TotalPrefix ==
    ASSUME NEW nums \in Seq(Int), NEW k \in 0 .. Len(nums)
    PROVE  Total(SubSeq(nums, 1, k)) = TotalFun(nums)[k]
<1> PICK p : p = SubSeq(nums, 1, k)
  OBVIOUS
<1> PICK f : f = TotalFun(nums)
  OBVIOUS
<1> PICK g : g = TotalFun(p)
  OBVIOUS
<1>1. p \in Seq(Int) /\ Len(p) = k /\ \A j \in 1 .. k : p[j] = nums[j]
  OBVIOUS
<1>a. TotalFact(f, nums) /\ TotalFact(g, p)
  BY <1>1, TotalUnfold
<1>2. f[0] = 0 /\ \A j \in 1 .. Len(nums) : f[j] = f[j - 1] + nums[j]
  BY <1>a DEF TotalFact
<1>3. g[0] = 0 /\ Total(p) = g[k] /\ \A j \in 1 .. k : g[j] = g[j - 1] + p[j]
  BY <1>1, <1>a DEF TotalFact
<1>4. k \in Nat /\ \A j \in 1 .. k : g[j - 1] = f[j - 1] => g[j] = f[j]
  BY <1>1, <1>2, <1>3
<1>b. g[0] = f[0]
  BY <1>2, <1>3
<1>c. InStep(g, f, k)
  BY <1>b, <1>4 DEF InStep
<1>5. \A j \in 0 .. k : g[j] = f[j]
  BY <1>c, <1>4, Alike
<1>6. k \in 0 .. k
  BY <1>4
<1> QED BY <1>3, <1>5, <1>6

LEMMA TotalEmpty == Total(<<>>) = 0
<1> PICK e : e = << >>
  OBVIOUS
<1>1. e \in Seq(Int) /\ Len(e) = 0
  OBVIOUS
<1> QED BY <1>1, TotalUnfold DEF TotalFact

LEMMA TotalLast ==
    ASSUME NEW nums \in Seq(Int), NEW k \in 1 .. Len(nums)
    PROVE  Total(SubSeq(nums, 1, k)) = Total(SubSeq(nums, 1, k - 1)) + nums[k]
<1> PICK f : f = TotalFun(nums)
  OBVIOUS
<1>1. k \in 0 .. Len(nums) /\ k - 1 \in 0 .. Len(nums)
  OBVIOUS
<1>2. f[k] = f[k - 1] + nums[k]
  BY TotalUnfold DEF TotalFact
<1> QED BY <1>1, <1>2, TotalPrefix

LEMMA TotalType ==
    ASSUME NEW nums \in Seq(Int)
    PROVE  Total(nums) \in Int /\ Total(SubSeq(nums, 1, 0)) = 0
<1>1. Total(nums) \in Int
  BY TotalUnfold DEF TotalFact
<1>2. SubSeq(nums, 1, 0) = <<>>
  OBVIOUS
<1> QED BY <1>1, <1>2, TotalEmpty

-----------------------------------------------------------------------------
(* Parts of sequences                                                      *)
\* The part of a sequence from after a up to b.
Cut(s, a, b) == SubSeq(s, a + 1, b)
In(S, s, a, b) == s \in Seq(S) /\ a \in Nat /\ b \in Nat /\ a <= b /\ b <= Len(s)
IsCut(t, S, s, a, b) ==
    t \in Seq(S) /\ Len(t) = b - a /\ \A i \in 1 .. b - a : t[i] = s[a + i]

LEMMA CutType ==
    ASSUME NEW S, NEW s, NEW a, NEW b, In(S, s, a, b)
    PROVE  IsCut(Cut(s, a, b), S, s, a, b)
<1>0. s \in Seq(S) /\ a \in Nat /\ b \in Nat /\ a <= b /\ b <= Len(s)
  BY DEF In
<1>1. \A i \in a + 1 .. b : s[i] \in S
  BY <1>0
<1>2. a + 1 \in Int /\ b \in Int
  BY <1>0
<1>3. /\ Cut(s, a, b) \in Seq(S)
      /\ Len(Cut(s, a, b)) = IF a + 1 <= b THEN b - (a + 1) + 1 ELSE 0
      /\ \A i \in 1 .. b - (a + 1) + 1 : Cut(s, a, b)[i] = s[a + 1 + i - 1]
  BY <1>1, <1>2, SubSeqProperties DEF Cut
<1>4. /\ Cut(s, a, b) \in Seq(S) /\ Len(Cut(s, a, b)) = b - a
      /\ \A i \in 1 .. b - a : Cut(s, a, b)[i] = s[a + i]
  BY <1>0, <1>3
<1> QED BY <1>4 DEF IsCut

LEMMA CutCut ==
    ASSUME NEW S, NEW s, NEW a, NEW b, In(S, s, a, b), NEW c, NEW d, In(S, Cut(s, a, b), c, d)
    PROVE  Cut(Cut(s, a, b), c, d) = Cut(s, a + c, a + d) /\ In(S, s, a + c, a + d)
<1> PICK t : t = Cut(s, a, b)
  OBVIOUS
<1> PICK u : u = Cut(t, c, d)
  OBVIOUS
<1> PICK v : v = Cut(s, a + c, a + d)
  OBVIOUS
<1>0. s \in Seq(S) /\ a \in Nat /\ b \in Nat /\ a <= b /\ b <= Len(s) /\ Len(s) \in Nat
  BY DEF In
<1>1. t \in Seq(S) /\ Len(t) = b - a /\ \A i \in 1 .. b - a : t[i] = s[a + i]
  BY CutType DEF IsCut
<1>a. c \in Nat /\ d \in Nat /\ c <= d /\ d <= b - a
  BY <1>1 DEF In
<1>2. u \in Seq(S) /\ Len(u) = d - c /\ \A i \in 1 .. d - c : u[i] = t[c + i]
  BY CutType DEF IsCut
<1>3. In(S, s, a + c, a + d)
  BY <1>0, <1>a DEF In
<1>4. v \in Seq(S) /\ Len(v) = d - c /\ \A i \in 1 .. d - c : v[i] = s[a + c + i]
  <2>1. v \in Seq(S) /\ Len(v) = (a + d) - (a + c) /\ \A i \in 1 .. (a + d) - (a + c) : v[i] = s[a + c + i]
    BY <1>3, CutType DEF IsCut
  <2> QED BY <2>1, <1>0, <1>a
<1>5. \A i \in 1 .. d - c : u[i] = v[i]
  <2> TAKE i \in 1 .. d - c
  <2>1. c + i \in 1 .. b - a /\ a + (c + i) = a + c + i
    BY <1>0, <1>a
  <2>2. u[i] = s[a + (c + i)] /\ v[i] = s[a + c + i]
    BY <2>1, <1>1, <1>2, <1>4
  <2> QED BY <2>1, <2>2
<1> QED BY <1>2, <1>3, <1>4, <1>5, SeqEqual

LEMMA CutJoin ==
    ASSUME NEW S, NEW s, NEW a, NEW b, NEW c, In(S, s, a, b), In(S, s, b, c)
    PROVE  Cut(s, a, b) \o Cut(s, b, c) = Cut(s, a, c) /\ In(S, s, a, c)
<1>0. s \in Seq(S) /\ a \in Nat /\ b \in Nat /\ a <= b /\ c \in Nat /\ b <= c /\ c <= Len(s)
  BY DEF In
<1>1. a + 1 \in 1 .. Len(s) + 1 /\ b \in (a + 1) - 1 .. Len(s) /\ c \in b .. Len(s)
  BY <1>0
<1>2. In(S, s, a, c)
  BY <1>0 DEF In
<1> QED BY <1>0, <1>1, <1>2, ConcatAdjacentSubSeq DEF Cut

LEMMA CutAll ==
    ASSUME NEW S, NEW s \in Seq(S)
    PROVE  Cut(s, 0, Len(s)) = s /\ In(S, s, 0, Len(s))
<1>1. In(S, s, 0, Len(s))
  BY DEF In
<1> QED BY <1>1, SubSeqFull DEF Cut

LEMMA CutConcat ==
    ASSUME NEW S, NEW s \in Seq(S), NEW t \in Seq(S)
    PROVE  /\ Cut(s \o t, 0, Len(s)) = s
           /\ Cut(s \o t, Len(s), Len(s) + Len(t)) = t
           /\ s \o t \in Seq(S) /\ Len(s \o t) = Len(s) + Len(t)
<1> PICK u : u = s \o t
  OBVIOUS
<1>1. /\ u \in Seq(S) /\ Len(u) = Len(s) + Len(t)
      /\ \A i \in 1 .. Len(s) + Len(t) : u[i] = IF i <= Len(s) THEN s[i] ELSE t[i - Len(s)]
  BY ConcatProperties
<1>2. Len(s) \in Nat /\ Len(t) \in Nat
  OBVIOUS
<1>3. Cut(u, 0, Len(s)) = s
  <2> PICK v : v = Cut(u, 0, Len(s))
    OBVIOUS
  <2>a. In(S, u, 0, Len(s))
    BY <1>1, <1>2 DEF In
  <2>1. v \in Seq(S) /\ Len(v) = Len(s) - 0 /\ \A i \in 1 .. Len(s) - 0 : v[i] = u[0 + i]
    <3>1. IsCut(v, S, u, 0, Len(s))
      BY ONLY <2>a, CutType, v = Cut(u, 0, Len(s))
    <3> QED BY ONLY <3>1 DEF IsCut
  <2>2. \A i \in 1 .. Len(s) : v[i] = s[i]
    BY <1>1, <1>2, <2>1
  <2> QED BY <1>2, <2>1, <2>2, SeqEqual
<1>4. Cut(u, Len(s), Len(s) + Len(t)) = t
  <2> PICK v : v = Cut(u, Len(s), Len(s) + Len(t))
    OBVIOUS
  <2>0. Len(s) + Len(t) \in Nat /\ Len(s) <= Len(s) + Len(t)
    BY <1>2
  <2>b. In(S, u, Len(s), Len(s) + Len(t))
    BY <1>1, <1>2, <2>0 DEF In
  <2>a. v \in Seq(S) /\ Len(v) = (Len(s) + Len(t)) - Len(s)
        /\ \A i \in 1 .. (Len(s) + Len(t)) - Len(s) : v[i] = u[Len(s) + i]
    <3>1. IsCut(v, S, u, Len(s), Len(s) + Len(t))
      BY ONLY <2>b, CutType, v = Cut(u, Len(s), Len(s) + Len(t))
    <3> QED BY ONLY <3>1 DEF IsCut
  <2>c. (Len(s) + Len(t)) - Len(s) = Len(t)
    BY ONLY <1>2
  <2>1. v \in Seq(S) /\ Len(v) = Len(t) /\ \A i \in 1 .. Len(t) : v[i] = u[Len(s) + i]
    BY ONLY <2>a, <2>c
  <2>2. \A i \in 1 .. Len(t) : v[i] = t[i]
    <3> TAKE i \in 1 .. Len(t)
    <3>1. Len(s) + i \in 1 .. Len(s) + Len(t) /\ ~(Len(s) + i <= Len(s)) /\ (Len(s) + i) - Len(s) = i
      BY <1>2
    <3> QED BY <1>1, <2>1, <3>1
  <2> QED BY <2>1, <2>2, SeqEqual
<1> QED BY <1>1, <1>3, <1>4

LEMMA PrefixTotal ==
    ASSUME NEW nums \in Seq(Int), NEW k \in 0 .. Len(nums)
    PROVE  SubSeq(nums, 1, k) \in Seq(Int) /\ Total(SubSeq(nums, 1, k)) \in Int
<1>1. In(Int, nums, 0, k)
  BY DEF In
<1>2. IsCut(Cut(nums, 0, k), Int, nums, 0, k)
  BY ONLY <1>1, CutType
<1>3. SubSeq(nums, 1, k) \in Seq(Int)
  BY <1>2 DEF IsCut, Cut
<1> QED BY <1>3, TotalType

\* No part of a sum of natural numbers is more than the sum.
LEMMA GrowingTotal ==
    ASSUME NEW nums \in Seq(Nat)
    PROVE  /\ Total(nums) \in Nat
           /\ \A k \in 0 .. Len(nums) : /\ Total(SubSeq(nums, 1, k)) \in Nat
                                        /\ Total(SubSeq(nums, 1, k)) <= Total(nums)
<1> PICK n : n = Len(nums)
  OBVIOUS
<1> PICK f : f = TotalFun(nums)
  OBVIOUS
<1>1. nums \in Seq(Int) /\ n \in Nat /\ \A k \in 1 .. n : nums[k] \in Nat
  OBVIOUS
<1>2. f[0] = 0 /\ Total(nums) = f[n] /\ \A k \in 1 .. n : f[k] = f[k - 1] + nums[k]
  BY <1>1, TotalUnfold DEF TotalFact
<1> DEFINE G == {k \in 0 .. n : f[k] \in Nat /\ \A j \in 0 .. k : f[j] \in Nat /\ f[j] <= f[k]}
<1>3. 0 \in G
  BY <1>1, <1>2
<1>4. ASSUME NEW k \in 0 .. n, k < n, k \in G PROVE k + 1 \in G
  <2> PICK h : h = k + 1
    OBVIOUS
  <2>1. h \in 1 .. n /\ h - 1 = k /\ h \in 0 .. n
    BY <1>1, <1>4
  <2>2. f[h] = f[k] + nums[h] /\ nums[h] \in Nat
    BY <2>1, <1>1, <1>2
  <2>3. f[k] \in Nat /\ \A j \in 0 .. k : f[j] \in Nat /\ f[j] <= f[k]
    BY <1>4
  <2>4. f[h] \in Nat /\ f[k] <= f[h]
    BY ONLY <2>2, <2>3
  <2>5. ASSUME NEW j \in 0 .. h PROVE f[j] \in Nat /\ f[j] <= f[h]
    <3>1. CASE j = h
      BY <3>1, <2>4
    <3>2. CASE j # h
      <4>1. j \in 0 .. k
        BY <3>2, <2>1
      <4>2. f[j] \in Nat /\ f[j] <= f[k]
        BY <4>1, <2>3
      <4> QED BY ONLY <4>2, <2>3, <2>4
    <3> QED BY <3>1, <3>2
  <2> QED BY <2>1, <2>4, <2>5
<1>5. n \in G
  <2>1. n \in 0 .. n
    BY <1>1
  <2> HIDE DEF G
  <2> QED BY <2>1, <1>1, <1>3, <1>4, Upto
<1>6. \A k \in 0 .. n : Total(SubSeq(nums, 1, k)) = f[k]
  BY <1>1, TotalPrefix
<1>7. f[n] \in Nat /\ \A k \in 0 .. n : f[k] \in Nat /\ f[k] <= f[n]
  BY <1>5
<1> HIDE DEF G
<1> QED BY <1>2, <1>6, <1>7

-----------------------------------------------------------------------------
(* Concatenation of a sequence of sequences                                *)
FlatEq(f, ss) == f = [i \in 1 .. Len(ss) |-> IF i = 1 THEN ss[i] ELSE f[i - 1] \o ss[i]]
FlatFun(ss) == CHOOSE f : FlatEq(f, ss)

LEMMA FlatRec ==
    ASSUME NEW S, NEW ss \in Seq(Seq(S)), ss # <<>>
    PROVE  FlatEq(FlatFun(ss), ss)
<1> DEFINE n == Len(ss)
           step == [x \in (1 .. n) \X Seq(S) |-> x[2] \o ss[x[1]]]
<1>1. n \in Nat /\ <<>> \in Seq(S)
  OBVIOUS
<1>2. step \in [(1 .. n) \X Seq(S) -> Seq(S)]
  <2>1. ASSUME NEW x \in (1 .. n) \X Seq(S) PROVE x[2] \o ss[x[1]] \in Seq(S)
    <3>1. x[2] \in Seq(S) /\ ss[x[1]] \in Seq(S)
      OBVIOUS
    <3> QED BY <3>1
  <2> QED BY <2>1
<1>3. PICK f : Solves(f, n, Seq(S), <<>>, step)
  <2> HIDE DEF step, n
  <2> QED BY <1>1, <1>2, Recur
<1>4. f \in [0 .. n -> Seq(S)] /\ f[0] = <<>> /\ \A k \in 1 .. n : f[k] = step[<<k, f[k - 1]>>]
  BY <1>3 DEF Solves
<1>5. \A k \in 1 .. n : <<k, f[k - 1]>> \in (1 .. n) \X Seq(S)
  <2>1. ASSUME NEW k \in 1 .. n PROVE k - 1 \in 0 .. n
    BY <1>1
  <2>2. \A k \in 1 .. n : f[k - 1] \in Seq(S)
    BY <2>1, <1>4
  <2> QED BY <2>2
<1>6. \A k \in 1 .. n : f[k] = f[k - 1] \o ss[k]
  BY <1>4, <1>5
<1> DEFINE g == [k \in 1 .. n |-> f[k]]
<1>7. ASSUME NEW k \in 1 .. n PROVE g[k] = IF k = 1 THEN ss[k] ELSE g[k - 1] \o ss[k]
  <2>1. CASE k = 1
    <3>1. f[1] = f[0] \o ss[1]
      <4>1. 1 \in 1 .. n /\ 1 - 1 = 0
        BY <2>1
      <4>2. f[1] = f[1 - 1] \o ss[1]
        BY <4>1, <1>6
      <4> QED BY <4>1, <4>2
    <3>2. ss[1] \in Seq(S) /\ f[0] = <<>>
      BY <1>4, <2>1
    <3>3. <<>> \o ss[1] = ss[1]
      BY <3>2
    <3>4. f[1] = ss[1]
      BY <3>1, <3>2, <3>3
    <3> QED BY <3>4, <2>1
  <2>2. CASE k # 1
    <3>1. k - 1 \in 1 .. n /\ g[k] = f[k] /\ g[k - 1] = f[k - 1]
      BY <2>2
    <3> QED BY <3>1, <2>2, <1>6
  <2> QED BY <2>1, <2>2
<1>8. g = [k \in 1 .. n |-> IF k = 1 THEN ss[k] ELSE g[k - 1] \o ss[k]]
  <2> PICK h : h = g
    OBVIOUS
  <2>1. h = [k \in 1 .. n |-> h[k]] /\ \A k \in 1 .. n : h[k] = IF k = 1 THEN ss[k] ELSE h[k - 1] \o ss[k]
    BY <1>7
  <2> QED BY <2>1
<1>9. FlatEq(g, ss)
  BY <1>8 DEF FlatEq
<1> HIDE DEF g
<1> QED BY <1>9 DEF FlatFun

FlatFact(f, ss) ==
    /\ FlattenSeq(ss) = f[Len(ss)] /\ f[1] = ss[1]
    /\ \A k \in 2 .. Len(ss) : f[k] = f[k - 1] \o ss[k]

LEMMA FlatUnfold ==
    ASSUME NEW S, NEW ss \in Seq(Seq(S)), ss # <<>>
    PROVE  /\ FlatFact(FlatFun(ss), ss)
           /\ \A k \in 1 .. Len(ss) : FlatFun(ss)[k] \in Seq(S)
<1> PICK f : f = FlatFun(ss)
  OBVIOUS
<1>1. f = [i \in 1 .. Len(ss) |-> IF i = 1 THEN ss[i] ELSE f[i - 1] \o ss[i]]
  BY FlatRec DEF FlatEq
<1>2. Len(ss) \in Nat \ {0}
  OBVIOUS
<1>3. FlattenSeq(ss) = f[Len(ss)]
  BY <1>2 DEF FlattenSeq, FlatFun, FlatEq
<1>4. \A k \in 1 .. Len(ss) : f[k] = IF k = 1 THEN ss[k] ELSE f[k - 1] \o ss[k]
  BY <1>1
<1>a. 1 \in 1 .. Len(ss) /\ \A k \in 2 .. Len(ss) : k \in 1 .. Len(ss) /\ k # 1
  BY <1>2
<1>5. f[1] = ss[1] /\ \A k \in 2 .. Len(ss) : f[k] = f[k - 1] \o ss[k]
  BY ONLY <1>a, <1>4
<1>6. ASSUME NEW k \in 1 .. Len(ss) PROVE f[k] \in Seq(S)
  <2> DEFINE G == {0} \cup {j \in 1 .. Len(ss) : f[j] \in Seq(S)}
  <2>2. ASSUME NEW j \in 0 .. Len(ss), j < Len(ss), j \in G PROVE j + 1 \in G
    <3>1. j + 1 \in 1 .. Len(ss) /\ (j + 1) - 1 = j /\ ss[j + 1] \in Seq(S)
      BY <2>2
    <3>2. CASE j = 0
      BY <3>1, <3>2, <1>5
    <3>3. CASE j # 0
      <4>0. j + 1 \in 2 .. Len(ss)
        BY <3>1, <3>3, <1>2
      <4>1. f[j + 1] = f[j] \o ss[j + 1]
        BY <4>0, <3>1, <1>5
      <4>2. f[j] \in Seq(S)
        BY <2>2, <3>3
      <4>3. f[j] \o ss[j + 1] \in Seq(S)
        BY <3>1, <4>2
      <4> QED BY <3>1, <4>1, <4>3
    <3> QED BY <3>2, <3>3
  <2>1. 0 \in G
    OBVIOUS
  <2>3. k \in G
    <3> HIDE DEF G
    <3>1. \A j \in 0 .. Len(ss) : j \in G
      BY <1>2, <2>1, <2>2, Upto
    <3> QED BY <3>1
  <2> QED BY <2>3
<1>7. FlatFact(f, ss)
  BY <1>3, <1>5 DEF FlatFact
<1> QED BY <1>6, <1>7

LEMMA FlatEmpty == FlattenSeq(<<>>) = <<>>
BY DEF FlattenSeq

LEMMA FlatPrefix ==
    ASSUME NEW S, NEW ss \in Seq(Seq(S)), NEW k \in 1 .. Len(ss)
    PROVE  FlattenSeq(SubSeq(ss, 1, k)) = FlatFun(ss)[k]
<1> PICK p : p = SubSeq(ss, 1, k)
  OBVIOUS
<1> PICK f : f = FlatFun(ss)
  OBVIOUS
<1> PICK g : g = FlatFun(p)
  OBVIOUS
<1>0. k \in Nat \ {0} /\ k <= Len(ss) /\ Len(ss) \in Nat
  OBVIOUS
<1>1. p \in Seq(Seq(S)) /\ Len(p) = k /\ p # <<>> /\ ss # <<>> /\ \A j \in 1 .. k : p[j] = ss[j]
  <2>1. p \in Seq(Seq(S)) /\ Len(p) = k /\ \A j \in 1 .. k : p[j] = ss[j]
    BY <1>0
  <2>2. ASSUME p = <<>> PROVE FALSE
    <3>1. Len(p) = 0
      BY <2>1, <2>2, EmptySeq
    <3> QED BY <3>1, <2>1, <1>0
  <2>3. ASSUME ss = <<>> PROVE FALSE
    <3>1. Len(ss) = 0
      BY <2>3
    <3> QED BY <3>1, <1>0
  <2> QED BY <2>1, <2>2, <2>3
<1>a. FlatFact(f, ss) /\ FlatFact(g, p)
  BY <1>1, FlatUnfold
<1>2. f[1] = ss[1] /\ \A j \in 2 .. Len(ss) : f[j] = f[j - 1] \o ss[j]
  BY <1>a DEF FlatFact
<1>3. g[1] = p[1] /\ FlattenSeq(p) = g[k] /\ \A j \in 2 .. k : g[j] = g[j - 1] \o p[j]
  BY <1>1, <1>a DEF FlatFact
<1> DEFINE F == [j \in 0 .. k |-> IF j = 0 THEN {} ELSE f[j]]
           H == [j \in 0 .. k |-> IF j = 0 THEN {} ELSE g[j]]
<1>4. k \in Nat /\ H[0] = F[0]
  OBVIOUS
<1>5. ASSUME NEW j \in 1 .. k, H[j - 1] = F[j - 1] PROVE H[j] = F[j]
  <2>1. CASE j = 1
    BY <1>1, <1>2, <1>3, <2>1
  <2>2. CASE j # 1
    <3>1. j - 1 # 0 /\ j - 1 \in 0 .. k /\ j \in 2 .. k /\ j \in 2 .. Len(ss) /\ j # 0 /\ j \in 0 .. k
      BY <2>2
    <3>2. g[j - 1] = f[j - 1] /\ p[j] = ss[j]
      BY <3>1, <1>5, <1>1
    <3>3. g[j] = f[j]
      BY <3>1, <3>2, <1>2, <1>3
    <3> QED BY <3>3, <3>1
  <2> QED BY <2>1, <2>2
<1>6. H[k] = F[k]
  <2> HIDE DEF H, F
  <2>a. InStep(H, F, k)
    BY <1>4, <1>5 DEF InStep
  <2>1. \A j \in 0 .. k : H[j] = F[j]
    BY <1>4, <2>a, Alike
  <2>2. k \in 0 .. k
    BY <1>4
  <2> QED BY ONLY <2>1, <2>2
<1> QED BY <1>3, <1>6

\* All but the last, then the last.
LEMMA FlatLast ==
    ASSUME NEW S, NEW ss \in Seq(Seq(S)), NEW k \in 1 .. Len(ss)
    PROVE  FlattenSeq(SubSeq(ss, 1, k)) = FlattenSeq(SubSeq(ss, 1, k - 1)) \o ss[k]
<1> PICK f : f = FlatFun(ss)
  OBVIOUS
<1>0. ss # <<>> /\ ss[k] \in Seq(S)
  OBVIOUS
<1>1. CASE k = 1
  <2>1. SubSeq(ss, 1, 0) = <<>>
    OBVIOUS
  <2>a. f[1] = ss[1]
    BY <1>0, FlatUnfold DEF FlatFact
  <2>2. FlattenSeq(SubSeq(ss, 1, k)) = ss[1]
    BY <1>1, <2>a, FlatPrefix
  <2>b. ss[1] \in Seq(S)
    BY <1>0, <1>1
  <2>3. <<>> \o ss[1] = ss[1]
    BY <2>b
  <2>4. k - 1 = 0 /\ ss[k] = ss[1]
    BY <1>1
  <2>5. FlattenSeq(SubSeq(ss, 1, k - 1)) \o ss[k] = ss[1]
    BY <2>1, <2>3, <2>4, FlatEmpty
  <2> QED BY <2>2, <2>5
<1>2. CASE k # 1
  <2>1. k \in 2 .. Len(ss) /\ k - 1 \in 1 .. Len(ss)
    BY <1>2
  <2>2. f[k] = f[k - 1] \o ss[k]
    BY <1>0, <2>1, FlatUnfold DEF FlatFact
  <2> QED BY <2>1, <2>2, FlatPrefix
<1> QED BY <1>1, <1>2

LEMMA FlatType ==
    ASSUME NEW S, NEW ss \in Seq(Seq(S))
    PROVE  FlattenSeq(ss) \in Seq(S)
<1>1. CASE ss = <<>>
  <2>1. FlattenSeq(ss) = <<>>
    BY <1>1, FlatEmpty
  <2> QED BY <2>1
<1>2. CASE ss # <<>>
  <2>1. Len(ss) \in 1 .. Len(ss)
    BY <1>2
  <2> QED BY <1>2, <2>1, FlatUnfold DEF FlatFact
<1> QED BY <1>1, <1>2

\* The concatenation of adjacent parts.
OneMore(S, ss, a, b, c) == In(Seq(S), ss, a, b) /\ c = b + 1 /\ c <= Len(ss)

LEMMA FlatCutLast ==
    ASSUME NEW S, NEW ss, NEW a, NEW b, NEW c, OneMore(S, ss, a, b, c)
    PROVE  FlattenSeq(Cut(ss, a, c)) = FlattenSeq(Cut(ss, a, b)) \o ss[c]
<1>0. /\ ss \in Seq(Seq(S)) /\ a \in Nat /\ b \in Nat /\ a <= b /\ b <= Len(ss) /\ Len(ss) \in Nat /\ c \in Nat
      /\ c = b + 1 /\ c <= Len(ss) /\ In(Seq(S), ss, a, b)
  BY DEF In, OneMore
<1> PICK t : t = Cut(ss, a, c)
  OBVIOUS
<1>1. In(Seq(S), ss, a, c)
  BY <1>0 DEF In
<1>2. IsCut(t, Seq(S), ss, a, c)
  BY <1>1, CutType
<1>3. t \in Seq(Seq(S)) /\ Len(t) = c - a /\ c - a \in 1 .. Len(t) /\ t[c - a] = ss[c]
  <2>1. t \in Seq(Seq(S)) /\ Len(t) = c - a /\ \A i \in 1 .. c - a : t[i] = ss[a + i]
    BY <1>2 DEF IsCut
  <2>2. c - a \in 1 .. c - a /\ a + (c - a) = c
    BY <1>0
  <2> QED BY <2>1, <2>2
<1> PICK n : n = c - a
  OBVIOUS
<1>4. FlattenSeq(SubSeq(t, 1, n)) = FlattenSeq(SubSeq(t, 1, n - 1)) \o t[n]
  BY <1>3, FlatLast
<1>5. SubSeq(t, 1, n) = t
  BY <1>3, SubSeqFull
<1>6. SubSeq(t, 1, n - 1) = Cut(ss, a, b)
  <2>1. In(Seq(S), Cut(ss, a, c), 0, n - 1)
    BY <1>0, <1>3 DEF In
  <2>2. Cut(Cut(ss, a, c), 0, n - 1) = Cut(ss, a + 0, a + (n - 1))
    BY ONLY <1>1, <2>1, CutCut
  <2>3. a + 0 = a /\ a + (n - 1) = b /\ 0 + 1 = 1
    BY <1>0
  <2>4. Cut(Cut(ss, a, c), 0, n - 1) = Cut(ss, a, b)
    BY ONLY <2>2, <2>3
  <2>5. Cut(t, 0, n - 1) = SubSeq(t, 1, n - 1)
    BY <2>3 DEF Cut
  <2> QED BY <2>4, <2>5
<1> QED BY <1>3, <1>4, <1>5, <1>6

LEMMA FlatCutType ==
    ASSUME NEW S, NEW ss, NEW a, NEW b, In(Seq(S), ss, a, b)
    PROVE  FlattenSeq(Cut(ss, a, b)) \in Seq(S)
<1>1. IsCut(Cut(ss, a, b), Seq(S), ss, a, b)
  BY CutType
<1>2. Cut(ss, a, b) \in Seq(Seq(S))
  BY <1>1 DEF IsCut
<1> QED BY <1>2, FlatType

LEMMA FlatCutEmpty == ASSUME NEW ss, NEW a \in Nat PROVE FlattenSeq(Cut(ss, a, a)) = <<>>
<1>1. Cut(ss, a, a) = <<>>
  BY DEF Cut
<1> QED BY <1>1, FlatEmpty

LEMMA FlatSplit ==
    ASSUME NEW S, NEW ss, NEW a, NEW b, NEW c, In(Seq(S), ss, a, b), In(Seq(S), ss, b, c)
    PROVE  FlattenSeq(Cut(ss, a, c)) = FlattenSeq(Cut(ss, a, b)) \o FlattenSeq(Cut(ss, b, c))
<1>0. ss \in Seq(Seq(S)) /\ a \in Nat /\ b \in Nat /\ a <= b /\ c \in Nat /\ b <= c /\ c <= Len(ss) /\ Len(ss) \in Nat
  BY DEF In
<1> DEFINE F(x, y) == FlattenSeq(Cut(ss, x, y))
           G == {k \in Nat : b + k <= Len(ss) => F(a, b + k) = F(a, b) \o F(b, b + k)}
<1>1. F(a, b) \in Seq(S)
  BY FlatCutType
<1>2. 0 \in G
  <2>1. b + 0 = b
    BY <1>0
  <2>2. F(b, b) = <<>>
    BY <1>0, FlatCutEmpty
  <2>3. F(a, b) = F(a, b) \o <<>>
    <3> HIDE DEF F
    <3> QED BY <1>1
  <2> HIDE DEF F
  <2> QED BY <2>1, <2>2, <2>3
<1>3. ASSUME NEW k \in 0 .. c - b, k < c - b, k \in G PROVE k + 1 \in G
  <2> SUFFICES ASSUME b + (k + 1) <= Len(ss) PROVE F(a, b + (k + 1)) = F(a, b) \o F(b, b + (k + 1))
    OBVIOUS
  <2> PICK d : d = b + k
    OBVIOUS
  <2> PICK e : e = b + (k + 1)
    OBVIOUS
  <2>1. d \in Nat /\ e = d + 1 /\ e <= Len(ss) /\ d <= Len(ss) /\ b <= d /\ a <= d
    BY <1>0
  <2>2. In(Seq(S), ss, a, d) /\ In(Seq(S), ss, b, d)
    BY <1>0, <2>1 DEF In
  <2>a. OneMore(S, ss, a, d, e) /\ OneMore(S, ss, b, d, e)
    BY <2>1, <2>2 DEF OneMore
  <2>3. F(a, e) = F(a, d) \o ss[e]
    BY ONLY <2>a, FlatCutLast
  <2>4. F(b, e) = F(b, d) \o ss[e]
    BY ONLY <2>a, FlatCutLast
  <2>5. F(a, d) = F(a, b) \o F(b, d)
    BY <1>3, <2>1
  <2>6. F(b, d) \in Seq(S)
    BY <2>2, FlatCutType
  <2>7. ss[e] \in Seq(S)
    BY <1>0, <2>1
  <2> HIDE DEF F
  <2>8. (F(a, b) \o F(b, d)) \o ss[e] = F(a, b) \o (F(b, d) \o ss[e])
    <3> PICK x : x = F(a, b)
      OBVIOUS
    <3> PICK y : y = F(b, d)
      OBVIOUS
    <3> PICK z : z = ss[e]
      OBVIOUS
    <3>1. x \in Seq(S) /\ y \in Seq(S) /\ z \in Seq(S)
      BY <1>1, <2>6, <2>7
    <3>2. (x \o y) \o z = x \o (y \o z)
      BY ONLY <3>1, ConcatAssociative
    <3> QED BY <3>2
  <2> QED BY <2>3, <2>4, <2>5, <2>8
<1>4. c - b \in Nat /\ c - b \in 0 .. c - b
  BY <1>0
<1>5. c - b \in G
  <2> HIDE DEF G
  <2>1. \A k \in 0 .. c - b : k \in G
    BY <1>2, <1>3, <1>4, Upto
  <2> QED BY <2>1, <1>4
<1>6. b + (c - b) = c
  BY <1>0
<1> QED BY <1>0, <1>5, <1>6

LEMMA FlatOne ==
    ASSUME NEW S, NEW ss \in Seq(Seq(S)), NEW i \in 1 .. Len(ss)
    PROVE  FlattenSeq(Cut(ss, i - 1, i)) = ss[i]
<1>1. In(Seq(S), ss, i - 1, i - 1)
  BY DEF In
<1>2. i = (i - 1) + 1 /\ i <= Len(ss) /\ i - 1 \in Nat
  OBVIOUS
<1>a. OneMore(S, ss, i - 1, i - 1, i)
  BY <1>1, <1>2 DEF OneMore
<1>3. FlattenSeq(Cut(ss, i - 1, i)) = FlattenSeq(Cut(ss, i - 1, i - 1)) \o ss[i]
  <2> PICK h : h = i - 1
    OBVIOUS
  <2>1. OneMore(S, ss, h, h, i)
    BY <1>a
  <2>2. FlattenSeq(Cut(ss, h, i)) = FlattenSeq(Cut(ss, h, h)) \o ss[i]
    BY ONLY <2>1, FlatCutLast
  <2> QED BY <2>2
<1>4. FlattenSeq(Cut(ss, i - 1, i - 1)) = <<>>
  BY <1>2, FlatCutEmpty
<1> PICK x : x = ss[i]
  OBVIOUS
<1>5. x \in Seq(S)
  OBVIOUS
<1>6. <<>> \o x = x
  BY ONLY <1>5, ConcatEmptySeq
<1> QED BY <1>3, <1>4, <1>6

\* How much of the concatenation the first i sequences are.
Off(ss, i) == Len(FlattenSeq(Cut(ss, 0, i)))

LEMMA OffStep ==
    ASSUME NEW S, NEW ss \in Seq(Seq(S))
    PROVE  /\ Off(ss, 0) = 0 /\ Off(ss, Len(ss)) = Len(FlattenSeq(ss))
           /\ \A i \in 1 .. Len(ss) : Off(ss, i) = Off(ss, i - 1) + Len(ss[i])
           /\ \A i \in 0 .. Len(ss) : Off(ss, i) \in Nat
<1>1. Off(ss, 0) = 0
  <2>1. FlattenSeq(Cut(ss, 0, 0)) = <<>>
    BY FlatCutEmpty
  <2> QED BY <2>1 DEF Off
<1>2. Off(ss, Len(ss)) = Len(FlattenSeq(ss))
  <2>1. Cut(ss, 0, Len(ss)) = ss
    BY CutAll
  <2> QED BY <2>1 DEF Off
<1>3. ASSUME NEW i \in 0 .. Len(ss) PROVE FlattenSeq(Cut(ss, 0, i)) \in Seq(S) /\ Off(ss, i) \in Nat
  <2>1. In(Seq(S), ss, 0, i)
    BY DEF In
  <2>2. FlattenSeq(Cut(ss, 0, i)) \in Seq(S)
    BY <2>1, FlatCutType
  <2> QED BY <2>2 DEF Off
<1>4. ASSUME NEW i \in 1 .. Len(ss) PROVE Off(ss, i) = Off(ss, i - 1) + Len(ss[i])
  <2>1. OneMore(S, ss, 0, i - 1, i)
    BY DEF In, OneMore
  <2>2. FlattenSeq(Cut(ss, 0, i)) = FlattenSeq(Cut(ss, 0, i - 1)) \o ss[i]
    <3> PICK h : h = i - 1
      OBVIOUS
    <3>1. OneMore(S, ss, 0, h, i)
      BY <2>1
    <3>2. FlattenSeq(Cut(ss, 0, i)) = FlattenSeq(Cut(ss, 0, h)) \o ss[i]
      BY ONLY <3>1, FlatCutLast
    <3> QED BY <3>2
  <2>3. ss[i] \in Seq(S) /\ i - 1 \in 0 .. Len(ss)
    OBVIOUS
  <2>4. FlattenSeq(Cut(ss, 0, i - 1)) \in Seq(S)
    BY <2>3, <1>3
  <2>5. Len(FlattenSeq(Cut(ss, 0, i - 1)) \o ss[i]) = Len(FlattenSeq(Cut(ss, 0, i - 1))) + Len(ss[i])
    BY ONLY <2>3, <2>4, CutConcat
  <2> QED BY <2>2, <2>5 DEF Off
<1> QED BY <1>1, <1>2, <1>3, <1>4

LEMMA FlatAt ==
    ASSUME NEW S, NEW ss \in Seq(Seq(S)), NEW i \in 1 .. Len(ss)
    PROVE  /\ In(S, FlattenSeq(ss), Off(ss, i - 1), Off(ss, i))
           /\ Cut(FlattenSeq(ss), Off(ss, i - 1), Off(ss, i)) = ss[i]
<1> PICK n : n = Len(ss)
  OBVIOUS
<1>1. In(Seq(S), ss, 0, i - 1) /\ In(Seq(S), ss, i - 1, i) /\ In(Seq(S), ss, 0, i) /\ In(Seq(S), ss, i, n)
  BY DEF In
<1> PICK x : x = FlattenSeq(Cut(ss, 0, i - 1))
  OBVIOUS
<1> PICK y : y = ss[i]
  OBVIOUS
<1> PICK z : z = FlattenSeq(Cut(ss, i, n))
  OBVIOUS
<1>2. x \in Seq(S) /\ y \in Seq(S) /\ z \in Seq(S)
  <2>1. x \in Seq(S) /\ z \in Seq(S)
    BY <1>1, FlatCutType
  <2> QED BY <2>1
<1>3. FlattenSeq(Cut(ss, 0, i)) = x \o y
  <2>1. FlattenSeq(Cut(ss, 0, i)) = FlattenSeq(Cut(ss, 0, i - 1)) \o FlattenSeq(Cut(ss, i - 1, i))
    BY ONLY <1>1, FlatSplit
  <2>2. FlattenSeq(Cut(ss, i - 1, i)) = y
    BY FlatOne
  <2> QED BY <2>1, <2>2
<1>4. FlattenSeq(ss) = (x \o y) \o z
  <2>1. FlattenSeq(Cut(ss, 0, n)) = FlattenSeq(Cut(ss, 0, i)) \o FlattenSeq(Cut(ss, i, n))
    BY ONLY <1>1, FlatSplit
  <2>2. Cut(ss, 0, n) = ss
    BY CutAll
  <2> QED BY <2>1, <2>2, <1>3
<1> PICK u : u = x \o y
  OBVIOUS
<1>5. /\ u \in Seq(S) /\ Len(u) = Len(x) + Len(y)
      /\ Cut(u, Len(x), Len(x) + Len(y)) = y
  <2>1. /\ x \o y \in Seq(S) /\ Len(x \o y) = Len(x) + Len(y)
        /\ Cut(x \o y, Len(x), Len(x) + Len(y)) = y
    BY ONLY <1>2, CutConcat
  <2> QED BY <2>1
<1>6. Cut(u \o z, 0, Len(u)) = u /\ u \o z \in Seq(S) /\ Len(u \o z) = Len(u) + Len(z)
  <2>1. u \in Seq(S) /\ z \in Seq(S)
    BY <1>2, <1>5
  <2> QED BY ONLY <2>1, CutConcat
<1>7. Off(ss, i - 1) = Len(x) /\ Off(ss, i) = Len(x) + Len(y)
  BY <1>3, <1>5 DEF Off
<1>8. Len(x) \in Nat /\ Len(y) \in Nat /\ Len(z) \in Nat /\ Len(u) \in Nat
  <2>1. u \in Seq(S)
    BY <1>5
  <2> QED BY ONLY <2>1, <1>2
<1>9. In(S, u \o z, 0, Len(u)) /\ In(S, u, Len(x), Len(x) + Len(y))
  BY ONLY <1>5, <1>6, <1>8 DEF In
<1>10. Cut(Cut(u \o z, 0, Len(u)), Len(x), Len(x) + Len(y)) = Cut(u \o z, 0 + Len(x), 0 + (Len(x) + Len(y)))
       /\ In(S, u \o z, 0 + Len(x), 0 + (Len(x) + Len(y)))
  <2>1. In(S, Cut(u \o z, 0, Len(u)), Len(x), Len(x) + Len(y))
    BY ONLY <1>6, <1>9
  <2> QED BY ONLY <1>9, <2>1, CutCut
<1>11. 0 + Len(x) = Len(x) /\ 0 + (Len(x) + Len(y)) = Len(x) + Len(y)
  BY <1>8
<1>12. Cut(u \o z, Len(x), Len(x) + Len(y)) = y /\ In(S, u \o z, Len(x), Len(x) + Len(y))
  BY ONLY <1>5, <1>6, <1>10, <1>11
<1> QED BY <1>4, <1>7, <1>12

\* The lengths and the concatenation determine the sequences.
LEMMA FlatInjective ==
    ASSUME NEW S, NEW ss \in Seq(Seq(S)), NEW tt \in Seq(Seq(S)), Len(ss) = Len(tt),
           \A i \in 1 .. Len(ss) : Len(ss[i]) = Len(tt[i]), FlattenSeq(ss) = FlattenSeq(tt)
    PROVE  ss = tt
<1> DEFINE f == [i \in 0 .. Len(ss) |-> Off(ss, i)]
           g == [i \in 0 .. Len(ss) |-> Off(tt, i)]
<1>0. Len(ss) \in Nat
  OBVIOUS
<1>1. InStep(f, g, Len(ss))
  <2>1. f[0] = g[0]
    BY OffStep, <1>0
  <2>2. ASSUME NEW k \in 1 .. Len(ss), f[k - 1] = g[k - 1] PROVE f[k] = g[k]
    <3>1. k \in 0 .. Len(ss) /\ k - 1 \in 0 .. Len(ss) /\ k \in 1 .. Len(tt)
      BY <1>0
    <3>2. Off(ss, k) = Off(ss, k - 1) + Len(ss[k]) /\ Off(tt, k) = Off(tt, k - 1) + Len(tt[k])
      BY <3>1, OffStep
    <3>3. Off(ss, k - 1) = Off(tt, k - 1)
      BY <3>1, <2>2
    <3> QED BY <3>1, <3>2, <3>3
  <2> HIDE DEF f, g
  <2> QED BY <2>1, <2>2 DEF InStep
<1>2. \A i \in 0 .. Len(ss) : f[i] = g[i]
  <2> HIDE DEF f, g
  <2> QED BY <1>0, <1>1, Alike
<1>3. ASSUME NEW i \in 1 .. Len(ss) PROVE ss[i] = tt[i]
  <2>1. i \in 0 .. Len(ss) /\ i - 1 \in 0 .. Len(ss) /\ i \in 1 .. Len(tt)
    BY <1>0
  <2>2. Off(ss, i) = Off(tt, i) /\ Off(ss, i - 1) = Off(tt, i - 1)
    BY <1>2, <2>1
  <2>3. Cut(FlattenSeq(ss), Off(ss, i - 1), Off(ss, i)) = ss[i]
    BY FlatAt
  <2>4. Cut(FlattenSeq(tt), Off(tt, i - 1), Off(tt, i)) = tt[i]
    BY <2>1, FlatAt
  <2> QED BY <2>2, <2>3, <2>4
<1> QED BY <1>3, SeqEqual

LEMMA FlatConcat ==
    ASSUME NEW S, NEW s \in Seq(Seq(S)), NEW t \in Seq(Seq(S))
    PROVE  FlattenSeq(s \o t) = FlattenSeq(s) \o FlattenSeq(t)
<1> PICK u : u = s \o t
  OBVIOUS
<1> PICK a : a = Len(s)
  OBVIOUS
<1> PICK b : b = Len(s) + Len(t)
  OBVIOUS
<1>1. Cut(u, 0, a) = s /\ Cut(u, a, b) = t /\ u \in Seq(Seq(S)) /\ Len(u) = b
  <2>1. /\ Cut(s \o t, 0, Len(s)) = s /\ Cut(s \o t, Len(s), Len(s) + Len(t)) = t
        /\ s \o t \in Seq(Seq(S)) /\ Len(s \o t) = Len(s) + Len(t)
    BY CutConcat
  <2> QED BY <2>1
<1>2. a \in Nat /\ b \in Nat /\ a <= b
  OBVIOUS
<1>3. In(Seq(S), u, 0, a) /\ In(Seq(S), u, a, b)
  BY <1>1, <1>2 DEF In
<1>4. FlattenSeq(Cut(u, 0, b)) = FlattenSeq(Cut(u, 0, a)) \o FlattenSeq(Cut(u, a, b))
  BY ONLY <1>3, FlatSplit
<1>5. Cut(u, 0, b) = u
  BY ONLY <1>1, CutAll
<1> QED BY <1>1, <1>4, <1>5

\* The lengths add up.
LEMMA OffTotal ==
    ASSUME NEW S, NEW ss \in Seq(Seq(S)), NEW lens \in Seq(Int), Len(lens) = Len(ss),
           \A i \in 1 .. Len(ss) : lens[i] = Len(ss[i])
    PROVE  \A k \in 0 .. Len(ss) : Total(SubSeq(lens, 1, k)) = Off(ss, k)
<1> DEFINE f == [k \in 0 .. Len(ss) |-> Total(SubSeq(lens, 1, k))]
           g == [k \in 0 .. Len(ss) |-> Off(ss, k)]
<1>0. Len(ss) \in Nat
  OBVIOUS
<1>1. InStep(f, g, Len(ss))
  <2>1. f[0] = g[0]
    BY <1>0, OffStep, TotalType
  <2>2. ASSUME NEW k \in 1 .. Len(ss), f[k - 1] = g[k - 1] PROVE f[k] = g[k]
    <3>1. k \in 0 .. Len(ss) /\ k - 1 \in 0 .. Len(ss)
      BY <1>0
    <3>2. Total(SubSeq(lens, 1, k - 1)) = Off(ss, k - 1)
      BY <2>2, <3>1
    <3>3. Total(SubSeq(lens, 1, k)) = Total(SubSeq(lens, 1, k - 1)) + lens[k]
      BY TotalLast
    <3>4. Off(ss, k) = Off(ss, k - 1) + Len(ss[k])
      BY OffStep
    <3>5. Total(SubSeq(lens, 1, k)) = Off(ss, k)
      BY ONLY <3>2, <3>3, <3>4, lens[k] = Len(ss[k])
    <3> QED BY <3>1, <3>5
  <2> HIDE DEF f, g
  <2> QED BY <2>1, <2>2 DEF InStep
<1>2. \A k \in 0 .. Len(ss) : f[k] = g[k]
  <2> HIDE DEF f, g
  <2> QED BY <1>0, <1>1, Alike
<1> QED BY <1>2

LEMMA LenTotal ==
    ASSUME NEW S, NEW ss \in Seq(Seq(S)), NEW lens \in Seq(Int), Len(lens) = Len(ss),
           \A i \in 1 .. Len(ss) : lens[i] = Len(ss[i])
    PROVE  Total(lens) = Len(FlattenSeq(ss))
<1>1. Len(ss) \in 0 .. Len(ss)
  OBVIOUS
<1>2. Total(SubSeq(lens, 1, Len(ss))) = Off(ss, Len(ss))
  BY <1>1, OffTotal
<1>3. SubSeq(lens, 1, Len(ss)) = lens
  BY SubSeqFull
<1> QED BY <1>2, <1>3, OffStep

-----------------------------------------------------------------------------
(* Elements chosen from a sequence                                         *)
ThoseEq(f, seq, K) ==
    f = [k \in 0 .. Len(seq) |->
            IF k = 0 THEN <<>>
            ELSE IF k \in K THEN Append(f[k - 1], seq[k]) ELSE f[k - 1]]
ThoseFun(seq, K) == CHOOSE f : ThoseEq(f, seq, K)
ThoseFact(f, seq, K) ==
    /\ Those(seq, K) = f[Len(seq)] /\ f[0] = <<>>
    /\ \A k \in 1 .. Len(seq) : f[k] = IF k \in K THEN Append(f[k - 1], seq[k]) ELSE f[k - 1]

LEMMA ThoseRec == ASSUME NEW S, NEW seq \in Seq(S), NEW K PROVE ThoseEq(ThoseFun(seq, K), seq, K)
<1> DEFINE n == Len(seq)
           step == [x \in (1 .. n) \X Seq(S) |-> IF x[1] \in K THEN Append(x[2], seq[x[1]]) ELSE x[2]]
<1>1. n \in Nat /\ <<>> \in Seq(S)
  OBVIOUS
<1>2. step \in [(1 .. n) \X Seq(S) -> Seq(S)]
  <2>1. ASSUME NEW x \in (1 .. n) \X Seq(S)
        PROVE  (IF x[1] \in K THEN Append(x[2], seq[x[1]]) ELSE x[2]) \in Seq(S)
    <3>1. x[2] \in Seq(S) /\ seq[x[1]] \in S
      OBVIOUS
    <3>2. Append(x[2], seq[x[1]]) \in Seq(S)
      BY ONLY <3>1
    <3> QED BY <3>1, <3>2
  <2> QED BY <2>1
<1>3. PICK f : Solves(f, n, Seq(S), <<>>, step)
  <2> HIDE DEF step, n
  <2> QED BY <1>1, <1>2, Recur
<1>4. f \in [0 .. n -> Seq(S)] /\ f[0] = <<>> /\ \A k \in 1 .. n : f[k] = step[<<k, f[k - 1]>>]
  BY <1>3 DEF Solves
<1>5. \A k \in 1 .. n : <<k, f[k - 1]>> \in (1 .. n) \X Seq(S)
  <2>1. ASSUME NEW k \in 1 .. n PROVE k - 1 \in 0 .. n
    BY <1>1
  <2>2. \A k \in 1 .. n : f[k - 1] \in Seq(S)
    BY <2>1, <1>4
  <2> QED BY <2>2
<1>6. \A k \in 1 .. n : f[k] = IF k \in K THEN Append(f[k - 1], seq[k]) ELSE f[k - 1]
  BY <1>4, <1>5
<1>7. f = [k \in 0 .. n |-> IF k = 0 THEN <<>>
                            ELSE IF k \in K THEN Append(f[k - 1], seq[k]) ELSE f[k - 1]]
  <2>1. ASSUME NEW k \in 0 .. n
        PROVE  f[k] = IF k = 0 THEN <<>>
                      ELSE IF k \in K THEN Append(f[k - 1], seq[k]) ELSE f[k - 1]
    <3>1. CASE k = 0
      BY <3>1, <1>4
    <3>2. CASE k # 0
      <4>1. k \in 1 .. n
        BY <3>2, <1>1
      <4>2. f[k] = IF k \in K THEN Append(f[k - 1], seq[k]) ELSE f[k - 1]
        BY <4>1, <1>6
      <4> QED BY <4>2, <3>2
    <3> QED BY <3>1, <3>2
  <2>2. f = [k \in 0 .. n |-> f[k]]
    BY <1>4
  <2> HIDE DEF n
  <2> QED BY ONLY <2>1, <2>2
<1>8. ThoseEq(f, seq, K)
  BY <1>7 DEF ThoseEq
<1> QED BY <1>8 DEF ThoseFun

LEMMA ThoseUnfold ==
    ASSUME NEW S, NEW seq \in Seq(S), NEW K
    PROVE  /\ ThoseFact(ThoseFun(seq, K), seq, K)
           /\ \A k \in 0 .. Len(seq) : ThoseFun(seq, K)[k] \in Seq(S)
<1> PICK f : f = ThoseFun(seq, K)
  OBVIOUS
<1>1. f = [k \in 0 .. Len(seq) |->
            IF k = 0 THEN <<>>
            ELSE IF k \in K THEN Append(f[k - 1], seq[k]) ELSE f[k - 1]]
  BY ThoseRec DEF ThoseEq
<1>2. Those(seq, K) = f[Len(seq)]
  BY DEF Those, ThoseFun, ThoseEq
<1>3. \A k \in 0 .. Len(seq) :
        f[k] = IF k = 0 THEN <<>> ELSE IF k \in K THEN Append(f[k - 1], seq[k]) ELSE f[k - 1]
  BY <1>1
<1>4. Len(seq) \in Nat
  OBVIOUS
<1>5. 0 \in 0 .. Len(seq) /\ \A k \in 1 .. Len(seq) : k # 0 /\ k \in 0 .. Len(seq)
  BY <1>4
<1>6. f[0] = <<>> /\ \A k \in 1 .. Len(seq) : f[k] = IF k \in K THEN Append(f[k - 1], seq[k]) ELSE f[k - 1]
  BY ONLY <1>3, <1>5
<1>7. ThoseFact(f, seq, K)
  BY <1>2, <1>6 DEF ThoseFact
<1>8. \A k \in 0 .. Len(seq) : f[k] \in Seq(S)
  <2> DEFINE G == {k \in 0 .. Len(seq) : f[k] \in Seq(S)}
  <2>1. 0 \in G
    <3>1. <<>> \in Seq(S)
      OBVIOUS
    <3>2. f[0] \in Seq(S)
      BY ONLY <3>1, <1>6
    <3> QED BY <3>2, <1>5
  <2>2. ASSUME NEW k \in 0 .. Len(seq), k < Len(seq), k \in G PROVE k + 1 \in G
    <3>1. k + 1 \in 1 .. Len(seq) /\ k + 1 \in 0 .. Len(seq) /\ (k + 1) - 1 = k /\ seq[k + 1] \in S
      BY <2>2
    <3>2. f[k + 1] = IF k + 1 \in K THEN Append(f[k], seq[k + 1]) ELSE f[k]
      BY <3>1, <1>6
    <3>3. f[k] \in Seq(S)
      BY <2>2
    <3>4. Append(f[k], seq[k + 1]) \in Seq(S)
      BY ONLY <3>1, <3>3
    <3> QED BY <3>1, <3>2, <3>3, <3>4
  <2>3. \A k \in 0 .. Len(seq) : k \in G
    <3> HIDE DEF G
    <3> QED BY <1>4, <2>1, <2>2, Upto
  <2> QED BY <2>3
<1> QED BY <1>7, <1>8

LEMMA ThoseType ==
    ASSUME NEW S, NEW seq \in Seq(S), NEW K
    PROVE  Those(seq, K) \in Seq(S)
<1>1. Len(seq) \in 0 .. Len(seq)
  OBVIOUS
<1> QED BY <1>1, ThoseUnfold DEF ThoseFact

LEMMA ThoseIn ==
    ASSUME NEW S, NEW seq \in Seq(S), NEW K, NEW T, \A k \in 1 .. Len(seq) : k \in K => seq[k] \in T
    PROVE  Those(seq, K) \in Seq(T)
<1> PICK f : f = ThoseFun(seq, K)
  OBVIOUS
<1> PICK n : n = Len(seq)
  OBVIOUS
<1> DEFINE G == {k \in Nat : k <= n => f[k] \in Seq(T)}
<1>1. ThoseFact(f, seq, K)
  BY ThoseUnfold
<1>2. /\ n \in Nat /\ Those(seq, K) = f[n] /\ f[0] = <<>>
      /\ \A k \in 1 .. n : f[k] = IF k \in K THEN Append(f[k - 1], seq[k]) ELSE f[k - 1]
  BY <1>1 DEF ThoseFact
<1>3. 0 \in G
  <2>1. <<>> \in Seq(T)
    OBVIOUS
  <2> QED BY <2>1, <1>2
<1>4. ASSUME NEW k \in 0 .. n, k < n, k \in G PROVE k + 1 \in G
  <2> PICK j : j = k + 1
    OBVIOUS
  <2>1. j \in 1 .. n /\ j - 1 = k /\ k \in Nat /\ j \in Nat
    BY <1>4, <1>2
  <2>2. f[k] \in Seq(T)
    BY <1>4, <2>1
  <2>3. f[j] = IF j \in K THEN Append(f[k], seq[j]) ELSE f[k]
    BY <2>1, <1>2
  <2>4. f[j] \in Seq(T)
    <3>1. CASE j \in K
      <4>1. seq[j] \in T
        BY <2>1, <3>1
      <4> QED BY <4>1, <3>1, <2>2, <2>3
    <3>2. CASE j \notin K
      BY <3>2, <2>2, <2>3
    <3> QED BY <3>1, <3>2
  <2> QED BY <2>1, <2>4
<1>5. n \in G
  <2> HIDE DEF G
  <2>1. \A k \in 0 .. n : k \in G
    BY <1>2, <1>3, <1>4, Upto
  <2> QED BY <2>1, <1>2
<1> QED BY <1>2, <1>5

-----------------------------------------------------------------------------
(* Files and their chunks                                                  *)
Datas(files) == [i \in DOMAIN files |-> files[i].data]

LEMMA FileFields ==
    ASSUME NEW f \in FileType
    PROVE  f.path \in Seq(Parts) /\ f.data \in Seq(Bytes)
BY DEF FileType

LEMMA StreamType ==
    ASSUME NEW files \in Seq(FileType)
    PROVE  /\ Datas(files) \in Seq(Seq(Bytes)) /\ Len(Datas(files)) = Len(files)
           /\ \A i \in 1 .. Len(files) : Datas(files)[i] = files[i].data
           /\ Stream(files) = FlattenSeq(Datas(files)) /\ Stream(files) \in Seq(Bytes)
<1>1. DOMAIN files = 1 .. Len(files) /\ Len(files) \in Nat
  OBVIOUS
<1>2. \A i \in 1 .. Len(files) : files[i].data \in Seq(Bytes)
  <2>1. \A i \in 1 .. Len(files) : files[i] \in FileType
    OBVIOUS
  <2> QED BY <2>1, FileFields
<1> PICK d : d = Datas(files)
  OBVIOUS
<1>3. d = [i \in 1 .. Len(files) |-> files[i].data]
  BY <1>1 DEF Datas
<1>4. d \in Seq(Seq(Bytes)) /\ Len(d) = Len(files) /\ \A i \in 1 .. Len(files) : d[i] = files[i].data
  <2>1. d \in [1 .. Len(files) -> Seq(Bytes)]
    BY <1>2, <1>3
  <2> QED BY <1>1, <1>3, <2>1
<1>5. Stream(files) = FlattenSeq(d)
  BY DEF Stream, Datas
<1>6. FlattenSeq(d) \in Seq(Bytes)
  BY <1>4, FlatType
<1> QED BY <1>4, <1>5, <1>6

Rising(e, k) ==
    /\ e \in Seq(Nat)
    /\ \A i \in 1 .. Len(e) : 0 < e[i] /\ e[i] <= k
    /\ \A i \in 1 .. Len(e) - 1 : e[i] < e[i + 1]

LEMMA RisingMore ==
    ASSUME NEW k \in Nat, NEW e, Rising(e, k)
    PROVE  Rising(e, k + 1) /\ Rising(Append(e, k + 1), k + 1)
<1>1. /\ e \in Seq(Nat) /\ \A i \in 1 .. Len(e) : 0 < e[i] /\ e[i] <= k
      /\ \A i \in 1 .. Len(e) - 1 : e[i] < e[i + 1]
  BY DEF Rising
<1>2. Rising(e, k + 1)
  <2>1. \A i \in 1 .. Len(e) : e[i] \in Nat
    BY <1>1
  <2>2. \A i \in 1 .. Len(e) : 0 < e[i] /\ e[i] <= k + 1
    BY <1>1, <2>1
  <2> QED BY <1>1, <2>2 DEF Rising
<1> PICK n : n = Len(e)
  OBVIOUS
<1> PICK a : a = Append(e, k + 1)
  OBVIOUS
<1>3. /\ a \in Seq(Nat) /\ Len(a) = n + 1 /\ n \in Nat
      /\ \A i \in 1 .. n : a[i] = e[i]
      /\ a[n + 1] = k + 1
  <2>1. k + 1 \in Nat /\ e \in Seq(Nat)
    BY <1>1
  <2> QED BY ONLY <2>1, AppendProperties, a = Append(e, k + 1), n = Len(e)
<1>4. \A i \in 1 .. n : e[i] \in Nat
  BY <1>1
<1>5. ASSUME NEW i \in 1 .. n + 1 PROVE 0 < a[i] /\ a[i] <= k + 1
  <2>1. CASE i = n + 1
    BY <2>1, <1>3
  <2>2. CASE i # n + 1
    <3>1. i \in 1 .. n
      BY <2>2, <1>3
    <3> QED BY <3>1, <1>1, <1>3, <1>4
  <2> QED BY <2>1, <2>2
<1>6. ASSUME NEW i \in 1 .. n PROVE a[i] < a[i + 1]
  <2>1. CASE i = n
    <3>1. a[i] = e[i] /\ a[i + 1] = k + 1 /\ e[i] <= k /\ e[i] \in Nat
      BY <2>1, <1>1, <1>3, <1>4
    <3> QED BY <3>1
  <2>2. CASE i # n
    <3>1. i \in 1 .. Len(e) - 1 /\ i + 1 \in 1 .. n
      BY <2>2, <1>3
    <3> QED BY <3>1, <1>1, <1>3
  <2> QED BY <2>1, <2>2
<1>7. (n + 1) - 1 = n
  BY <1>3
<1>8. Rising(a, k + 1)
  BY <1>3, <1>5, <1>6, <1>7 DEF Rising
<1> QED BY <1>2, <1>8

LEMMA CutPointsFact ==
    ASSUME NEW data, NEW S, data \in Seq(S)
    PROVE  LET e == CutPoints(data) IN
           /\ Rising(e, Len(data))
           /\ Len(data) # 0 => Len(e) # 0 /\ e[Len(e)] = Len(data)
<1> PICK n : n = Len(data)
  OBVIOUS
<1> PICK ids : ids = [i \in DOMAIN data |-> i]
  OBVIOUS
<1> PICK K : K = {i \in DOMAIN data : data[i] = 1 \/ i = Len(data)}
  OBVIOUS
<1> PICK f : f = ThoseFun(ids, K)
  OBVIOUS
<1>1. n \in Nat /\ DOMAIN data = 1 .. n
  OBVIOUS
<1>2. ids \in Seq(Nat) /\ Len(ids) = n /\ \A i \in 1 .. n : ids[i] = i
  <2>1. ids \in [1 .. n -> Nat]
    BY <1>1
  <2> QED BY <1>1, <2>1
<1>3. CutPoints(data) = Those(ids, K)
  BY DEF CutPoints
<1>4. /\ Those(ids, K) = f[n] /\ f[0] = <<>>
      /\ \A k \in 1 .. n : f[k] = IF k \in K THEN Append(f[k - 1], k) ELSE f[k - 1]
  <2>1. ThoseFact(f, ids, K)
    BY <1>2, ThoseUnfold
  <2> QED BY <2>1, <1>2 DEF ThoseFact
<1> DEFINE G == {k \in 0 .. n : Rising(f[k], k)}
<1>5. 0 \in G
  <2>1. Rising(<<>>, 0)
    BY DEF Rising
  <2> QED BY <2>1, <1>1, <1>4
<1>6. ASSUME NEW k \in 0 .. n, k < n, k \in G PROVE k + 1 \in G
  <2>1. k + 1 \in 1 .. n /\ k + 1 \in 0 .. n /\ (k + 1) - 1 = k /\ k \in Nat
    BY <1>1, <1>6
  <2>2. f[k + 1] = IF k + 1 \in K THEN Append(f[k], k + 1) ELSE f[k]
    BY <2>1, <1>4
  <2>3. Rising(f[k], k + 1) /\ Rising(Append(f[k], k + 1), k + 1)
    BY <2>1, <1>6, RisingMore
  <2> QED BY <2>1, <2>2, <2>3
<1>7. \A k \in 0 .. n : k \in G
  <2> HIDE DEF G
  <2> QED BY <1>1, <1>5, <1>6, Upto
<1>8. Rising(CutPoints(data), n)
  <2>1. n \in 0 .. n
    BY <1>1
  <2> QED BY <2>1, <1>3, <1>4, <1>7
<1>9. ASSUME n # 0
      PROVE  Len(CutPoints(data)) # 0 /\ CutPoints(data)[Len(CutPoints(data))] = n
  <2>1. n \in 1 .. n /\ n - 1 \in 0 .. n /\ n \in K
    BY <1>1, <1>9
  <2>2. CutPoints(data) = Append(f[n - 1], n)
    BY <2>1, <1>3, <1>4
  <2>3. Rising(f[n - 1], n - 1)
    BY <2>1, <1>7
  <2>4. f[n - 1] \in Seq(Nat)
    BY <2>3 DEF Rising
  <2>5. Len(Append(f[n - 1], n)) = Len(f[n - 1]) + 1 /\ Append(f[n - 1], n)[Len(f[n - 1]) + 1] = n
        /\ Len(f[n - 1]) \in Nat
    BY ONLY <2>4, <1>1, AppendProperties
  <2> QED BY <2>2, <2>5
<1> QED BY <1>8, <1>9

Digests == {Hash(b) : b \in Seq(Bytes)}
ChunkType == [hash : Digests, offset : Int, length : Nat]
Honest(chunks) ==
    \A k \in DOMAIN chunks : chunks[k].length = Len(BytesOf(chunks[k].hash))
Blobs(chunks) == [k \in DOMAIN chunks |-> BytesOf(chunks[k].hash)]

LEMMA DigestFact ==
    ASSUME NEW h \in Digests
    PROVE  BytesOf(h) \in Seq(Bytes) /\ Hash(BytesOf(h)) = h
<1>1. PICK b \in Seq(Bytes) : h = <<"chunk", b>>
  BY DEF Digests, Hash
<1> QED BY <1>1 DEF BytesOf, Hash

LEMMA HashFact == ASSUME NEW b PROVE BytesOf(Hash(b)) = b
BY DEF BytesOf, Hash

LEMMA ChunkFields ==
    ASSUME NEW c \in ChunkType
    PROVE  c.hash \in Digests /\ c.length \in Nat /\ c.offset \in Int
BY DEF ChunkType

LEMMA BlobsType ==
    ASSUME NEW chunks \in Seq(ChunkType)
    PROVE  /\ Blobs(chunks) \in Seq(Seq(Bytes)) /\ Len(Blobs(chunks)) = Len(chunks)
           /\ \A k \in 1 .. Len(chunks) : Blobs(chunks)[k] = BytesOf(chunks[k].hash)
           /\ Data(chunks) = FlattenSeq(Blobs(chunks)) /\ Data(chunks) \in Seq(Bytes)
<1>1. DOMAIN chunks = 1 .. Len(chunks) /\ Len(chunks) \in Nat
  OBVIOUS
<1>2. ASSUME NEW k \in 1 .. Len(chunks) PROVE BytesOf(chunks[k].hash) \in Seq(Bytes)
  <2>1. chunks[k] \in ChunkType
    OBVIOUS
  <2> QED BY <2>1, ChunkFields, DigestFact
<1> PICK b : b = Blobs(chunks)
  OBVIOUS
<1>3. b = [k \in 1 .. Len(chunks) |-> BytesOf(chunks[k].hash)]
  BY <1>1 DEF Blobs
<1>4. b \in Seq(Seq(Bytes)) /\ Len(b) = Len(chunks) /\ \A k \in 1 .. Len(chunks) : b[k] = BytesOf(chunks[k].hash)
  <2>1. b \in [1 .. Len(chunks) -> Seq(Bytes)]
    BY <1>2, <1>3
  <2> QED BY <1>1, <1>3, <2>1
<1>5. Data(chunks) = FlattenSeq(b)
  BY DEF Data, Blobs
<1>6. FlattenSeq(b) \in Seq(Bytes)
  BY <1>4, FlatType
<1> QED BY <1>4, <1>5, <1>6

LEMMA DataConcat ==
    ASSUME NEW x \in Seq(ChunkType), NEW y \in Seq(ChunkType)
    PROVE  Data(x \o y) = Data(x) \o Data(y)
<1> PICK z : z = x \o y
  OBVIOUS
<1>1. /\ z \in Seq(ChunkType) /\ Len(z) = Len(x) + Len(y) /\ Len(x) \in Nat /\ Len(y) \in Nat
      /\ \A i \in 1 .. Len(x) + Len(y) : z[i] = IF i <= Len(x) THEN x[i] ELSE y[i - Len(x)]
  BY ConcatProperties
<1> PICK bx : bx = Blobs(x)
  OBVIOUS
<1> PICK by : by = Blobs(y)
  OBVIOUS
<1> PICK bz : bz = Blobs(z)
  OBVIOUS
<1>2. bx \in Seq(Seq(Bytes)) /\ Len(bx) = Len(x) /\ \A k \in 1 .. Len(x) : bx[k] = BytesOf(x[k].hash)
  BY BlobsType
<1>3. by \in Seq(Seq(Bytes)) /\ Len(by) = Len(y) /\ \A k \in 1 .. Len(y) : by[k] = BytesOf(y[k].hash)
  BY BlobsType
<1>4. bz \in Seq(Seq(Bytes)) /\ Len(bz) = Len(z) /\ \A k \in 1 .. Len(z) : bz[k] = BytesOf(z[k].hash)
  BY <1>1, BlobsType
<1> PICK c : c = bx \o by
  OBVIOUS
<1>5. /\ c \in Seq(Seq(Bytes)) /\ Len(c) = Len(bx) + Len(by)
      /\ \A i \in 1 .. Len(bx) + Len(by) : c[i] = IF i <= Len(bx) THEN bx[i] ELSE by[i - Len(bx)]
  <2>1. bx \in Seq(Seq(Bytes)) /\ by \in Seq(Seq(Bytes))
    BY <1>2, <1>3
  <2>2. /\ bx \o by \in Seq(Seq(Bytes)) /\ Len(bx \o by) = Len(bx) + Len(by)
        /\ \A i \in 1 .. Len(bx) + Len(by) : (bx \o by)[i] = IF i <= Len(bx) THEN bx[i] ELSE by[i - Len(bx)]
    BY ONLY <2>1, ConcatProperties
  <2> QED BY ONLY <2>2, c = bx \o by
<1>6. \A k \in 1 .. Len(z) : bz[k] = c[k]
  <2> TAKE k \in 1 .. Len(z)
  <2>1. CASE k <= Len(x)
    <3>1. k \in 1 .. Len(x) /\ z[k] = x[k]
      BY <2>1, <1>1
    <3>2. c[k] = bx[k]
      BY <2>1, <1>1, <1>2, <1>3, <1>5
    <3> QED BY <3>1, <3>2, <1>2, <1>4
  <2>2. CASE ~(k <= Len(x))
    <3>1. k - Len(x) \in 1 .. Len(y) /\ z[k] = y[k - Len(x)]
      BY <2>2, <1>1
    <3>2. c[k] = by[k - Len(x)]
      BY <2>2, <1>1, <1>2, <1>3, <1>5
    <3> QED BY <3>1, <3>2, <1>3, <1>4
  <2> QED BY <2>1, <2>2
<1>7. bz = c
  <2>1. Len(bz) = Len(c)
    BY <1>1, <1>2, <1>3, <1>4, <1>5
  <2>2. \A k \in 1 .. Len(bz) : bz[k] = c[k]
    BY <1>4, <1>6
  <2> QED BY ONLY <2>1, <2>2, <1>4, <1>5, SeqEqual
<1>8. FlattenSeq(c) = FlattenSeq(bx) \o FlattenSeq(by)
  BY ONLY <1>2, <1>3, c = bx \o by, FlatConcat
<1>9. Data(z) = FlattenSeq(bz) /\ Data(x) = FlattenSeq(bx) /\ Data(y) = FlattenSeq(by)
  BY DEF Data, Blobs
<1> QED BY <1>7, <1>8, <1>9

LEMMA DataSplit ==
    ASSUME NEW cs, NEW a, NEW b, NEW c, In(ChunkType, cs, a, b), In(ChunkType, cs, b, c)
    PROVE  Data(Cut(cs, a, c)) = Data(Cut(cs, a, b)) \o Data(Cut(cs, b, c))
<1>1. Cut(cs, a, b) \o Cut(cs, b, c) = Cut(cs, a, c)
  BY CutJoin
<1>2. IsCut(Cut(cs, a, b), ChunkType, cs, a, b) /\ IsCut(Cut(cs, b, c), ChunkType, cs, b, c)
  BY CutType
<1>3. Cut(cs, a, b) \in Seq(ChunkType) /\ Cut(cs, b, c) \in Seq(ChunkType)
  BY <1>2 DEF IsCut
<1>4. Data(Cut(cs, a, b) \o Cut(cs, b, c)) = Data(Cut(cs, a, b)) \o Data(Cut(cs, b, c))
  BY <1>3, DataConcat
<1> QED BY <1>1, <1>4

LEMMA DataEmpty == Data(<<>>) = <<>>
<1>1. [k \in DOMAIN <<>> |-> BytesOf(<<>>[k].hash)] = <<>>
  OBVIOUS
<1> QED BY <1>1, FlatEmpty DEF Data

\* Chunks that say how long they are add up to their data.
LEMMA HonestLengths ==
    ASSUME NEW cs \in Seq(ChunkType), Honest(cs)
    PROVE  Lengths(cs) = Len(Data(cs))
<1> PICK lens : lens = [i \in DOMAIN cs |-> cs[i].length]
  OBVIOUS
<1> PICK b : b = Blobs(cs)
  OBVIOUS
<1>1. DOMAIN cs = 1 .. Len(cs) /\ Len(cs) \in Nat
  OBVIOUS
<1>2. \A i \in 1 .. Len(cs) : cs[i].length \in Int
  <2>1. \A i \in 1 .. Len(cs) : cs[i] \in ChunkType
    OBVIOUS
  <2> QED BY <2>1, ChunkFields
<1>3. lens \in Seq(Int) /\ Len(lens) = Len(cs) /\ \A i \in 1 .. Len(cs) : lens[i] = cs[i].length
  <2>1. lens \in [1 .. Len(cs) -> Int]
    BY <1>1, <1>2
  <2> QED BY <1>1, <2>1
<1>4. /\ b \in Seq(Seq(Bytes)) /\ Len(b) = Len(cs)
      /\ \A k \in 1 .. Len(cs) : b[k] = BytesOf(cs[k].hash)
      /\ Data(cs) = FlattenSeq(b)
  BY BlobsType
<1>5. \A i \in 1 .. Len(b) : lens[i] = Len(b[i])
  BY <1>1, <1>3, <1>4, SMTT(30) DEF Honest
<1>6. Total(lens) = Len(FlattenSeq(b))
  BY <1>3, <1>4, <1>5, LenTotal
<1> QED BY <1>4, <1>6 DEF Lengths

Ends(data) == [k \in 0 .. Len(CutPoints(data)) |-> IF k = 0 THEN 0 ELSE CutPoints(data)[k]]
EndsAre(data, p, n, e) ==
    /\ n \in Nat /\ e[0] = 0 /\ e[n] = Len(data)
    /\ \A k \in 1 .. n : In(Bytes, data, e[k - 1], e[k]) /\ e[k - 1] < e[k]
    /\ \A k \in 0 .. n : In(Bytes, data, 0, e[k])
    /\ \A k \in 1 .. n : e[k] = p[k] /\ e[k - 1] = IF k = 1 THEN 0 ELSE p[k - 1]

LEMMA EndsFact ==
    ASSUME NEW data \in Seq(Bytes)
    PROVE  EndsAre(data, CutPoints(data), Len(CutPoints(data)), Ends(data))
<1> PICK n : n = Len(CutPoints(data))
  OBVIOUS
<1> PICK e : e = Ends(data)
  OBVIOUS
<1> PICK p : p = CutPoints(data)
  OBVIOUS
<1> PICK len : len = Len(data)
  OBVIOUS
<1>1. Rising(p, len) /\ (len # 0 => Len(p) # 0 /\ p[Len(p)] = len) /\ len \in Nat
  BY CutPointsFact
<1>2. /\ p \in Seq(Nat) /\ \A i \in 1 .. n : 0 < p[i] /\ p[i] <= len
      /\ \A i \in 1 .. n - 1 : p[i] < p[i + 1]
  BY <1>1 DEF Rising
<1>3. n \in Nat /\ \A i \in 1 .. n : p[i] \in Nat
  BY <1>2
<1>4. e = [k \in 0 .. n |-> IF k = 0 THEN 0 ELSE p[k]]
  BY DEF Ends
<1>5. e[0] = 0 /\ \A k \in 1 .. n : e[k] = p[k]
  BY <1>3, <1>4
<1>6. \A k \in 1 .. n : e[k - 1] = IF k = 1 THEN 0 ELSE p[k - 1]
  <2> TAKE k \in 1 .. n
  <2>1. k - 1 \in 0 .. n /\ (k - 1 = 0 <=> k = 1)
    BY <1>3
  <2> QED BY <2>1, <1>4
<1>7. ASSUME NEW k \in 1 .. n PROVE e[k - 1] < e[k] /\ e[k - 1] \in Nat /\ e[k] \in Nat /\ e[k] <= len
  <2>1. CASE k = 1
    BY <2>1, <1>2, <1>3, <1>5, <1>6
  <2>2. CASE k # 1
    <3>1. k - 1 \in 1 .. n - 1 /\ (k - 1) + 1 = k /\ k - 1 \in 1 .. n
      BY <2>2, <1>3
    <3>2. p[k - 1] < p[k] /\ e[k - 1] = p[k - 1] /\ e[k] = p[k]
      BY <3>1, <2>2, <1>2, <1>5, <1>6
    <3> QED BY <3>1, <3>2, <1>2, <1>3
  <2> QED BY <2>1, <2>2
<1>8. \A k \in 1 .. n : In(Bytes, data, e[k - 1], e[k])
  BY <1>7 DEF In
<1>9. \A k \in 0 .. n : In(Bytes, data, 0, e[k])
  <2> TAKE k \in 0 .. n
  <2>1. CASE k = 0
    BY <2>1, <1>1, <1>5 DEF In
  <2>2. CASE k # 0
    <3>1. k \in 1 .. n
      BY <2>2, <1>3
    <3> QED BY <3>1, <1>7 DEF In
  <2> QED BY <2>1, <2>2
<1>10. e[n] = len
  <2>1. CASE n = 0
    <3>1. len = 0
      BY <2>1, <1>1
    <3> QED BY <3>1, <2>1, <1>5
  <2>2. CASE n # 0
    <3>1. n \in 1 .. n /\ len # 0
      <4>1. n \in 1 .. n
        BY <2>2, <1>3
      <4>2. 0 < p[n] /\ p[n] <= len /\ p[n] \in Nat
        BY <4>1, <1>2, <1>3
      <4> QED BY <4>1, <4>2, <1>1
    <3> QED BY <3>1, <1>1, <1>5
  <2> QED BY <2>1, <2>2
<1> QED BY <1>3, <1>5, <1>6, <1>7, <1>8, <1>9, <1>10 DEF EndsAre

ChunkIs(c, data, a, b) ==
    c = [hash |-> Hash(Cut(data, a, b)), offset |-> a, length |-> b - a]

LEMMA ChunkUnfold ==
    ASSUME NEW data \in Seq(Bytes)
    PROVE  /\ DOMAIN Chunk(data) = 1 .. Len(CutPoints(data))
           /\ \A k \in 1 .. Len(CutPoints(data)) :
                ChunkIs(Chunk(data)[k], data, Ends(data)[k - 1], Ends(data)[k])
           /\ Chunk(data) = [k \in 1 .. Len(CutPoints(data)) |-> Chunk(data)[k]]
<1> PICK p : p = CutPoints(data)
  OBVIOUS
<1> PICK n : n = Len(p)
  OBVIOUS
<1> PICK e : e = Ends(data)
  OBVIOUS
<1> DEFINE start(k) == IF k = 1 THEN 0 ELSE p[k - 1]
<1>1. Rising(p, Len(data))
  BY CutPointsFact
<1>2. p \in Seq(Nat) /\ DOMAIN p = 1 .. n
  <2>1. p \in Seq(Nat)
    BY <1>1 DEF Rising
  <2> QED BY <2>1
<1>3. Chunk(data) = [k \in DOMAIN p |->
            [hash |-> Hash(SubSeq(data, start(k) + 1, p[k])),
             offset |-> start(k), length |-> p[k] - start(k)]]
  BY DEF Chunk
<1>4. \A k \in 1 .. n : e[k] = p[k] /\ e[k - 1] = start(k)
  <2>1. EndsAre(data, p, n, e)
    BY EndsFact
  <2> QED BY ONLY <2>1 DEF EndsAre
<1> HIDE DEF start
<1>5. ASSUME NEW k \in 1 .. n
      PROVE  ChunkIs(Chunk(data)[k], data, e[k - 1], e[k])
  <2>1. Chunk(data)[k] = [hash |-> Hash(SubSeq(data, start(k) + 1, p[k])),
                          offset |-> start(k), length |-> p[k] - start(k)]
    BY <1>2, <1>3
  <2> QED BY <2>1, <1>4 DEF ChunkIs, Cut
<1>6. DOMAIN Chunk(data) = 1 .. n /\ Chunk(data) = [k \in 1 .. n |-> Chunk(data)[k]]
  BY <1>2, <1>3
<1> QED BY <1>5, <1>6

\* The chunker loses nothing: the chunks of any data, joined, are the data, and
\* each carries the digest and the length of its bytes.
THEOREM ChunkFact ==
    ASSUME NEW data \in Seq(Bytes)
    PROVE  /\ Chunk(data) \in Seq(ChunkType) /\ Honest(Chunk(data)) /\ Data(Chunk(data)) = data
           /\ (Len(Chunk(data)) = 0 => Len(data) = 0)
<1> PICK c : c = Chunk(data)
  OBVIOUS
<1> PICK n : n = Len(CutPoints(data))
  OBVIOUS
<1> PICK e : e = Ends(data)
  OBVIOUS
<1>1. DOMAIN c = 1 .. n /\ c = [k \in 1 .. n |-> c[k]] /\ \A k \in 1 .. n : ChunkIs(c[k], data, e[k - 1], e[k])
  BY ChunkUnfold
<1>2. /\ n \in Nat /\ e[0] = 0 /\ e[n] = Len(data)
      /\ \A k \in 1 .. n : In(Bytes, data, e[k - 1], e[k]) /\ e[k - 1] < e[k]
      /\ \A k \in 0 .. n : In(Bytes, data, 0, e[k])
  <2>1. EndsAre(data, CutPoints(data), n, e)
    BY EndsFact
  <2> QED BY ONLY <2>1 DEF EndsAre
<1>3. ASSUME NEW k \in 1 .. n
      PROVE  /\ c[k] \in ChunkType /\ BytesOf(c[k].hash) = Cut(data, e[k - 1], e[k])
             /\ c[k].length = Len(BytesOf(c[k].hash))
  <2> PICK a : a = e[k - 1]
    OBVIOUS
  <2> PICK b : b = e[k]
    OBVIOUS
  <2>1. In(Bytes, data, a, b)
    BY <1>2
  <2>2. IsCut(Cut(data, a, b), Bytes, data, a, b)
    BY <2>1, CutType
  <2>3. Cut(data, a, b) \in Seq(Bytes) /\ Len(Cut(data, a, b)) = b - a
    BY <2>2 DEF IsCut
  <2>4. a \in Nat /\ b \in Nat
    BY <2>1 DEF In
  <2>5. c[k] = [hash |-> Hash(Cut(data, a, b)), offset |-> a, length |-> b - a]
    BY <1>1 DEF ChunkIs
  <2>6. Hash(Cut(data, a, b)) \in Digests
    BY <2>3 DEF Digests
  <2>7. c[k] \in ChunkType
    <3>1. b - a \in Nat /\ a \in Int
      BY <2>1 DEF In
    <3> QED BY <2>5, <2>6, <3>1 DEF ChunkType
  <2>8. BytesOf(c[k].hash) = Cut(data, a, b)
    BY <2>5, HashFact
  <2>9. c[k].length = b - a
    BY <2>5
  <2> QED BY <2>3, <2>7, <2>8, <2>9
<1>4. c \in Seq(ChunkType) /\ Len(c) = n
  <2>1. c \in [1 .. n -> ChunkType]
    BY <1>1, <1>3
  <2> QED BY <2>1, <1>2
<1>5. Honest(c)
  BY <1>1, <1>3 DEF Honest
<1> PICK b : b = Blobs(c)
  OBVIOUS
<1>6. b \in Seq(Seq(Bytes)) /\ Len(b) = n /\ Data(c) = FlattenSeq(b) /\ \A k \in 1 .. n : b[k] = Cut(data, e[k - 1], e[k])
  BY <1>3, <1>4, BlobsType
<1> DEFINE f == [k \in 0 .. n |-> FlattenSeq(Cut(b, 0, k))]
           g == [k \in 0 .. n |-> Cut(data, 0, e[k])]
<1>7. InStep(f, g, n)
  <2>1. f[0] = g[0]
    <3>1. FlattenSeq(Cut(b, 0, 0)) = <<>>
      BY FlatCutEmpty
    <3>2. Cut(data, 0, 0) = <<>>
      BY DEF Cut
    <3> QED BY <3>1, <3>2, <1>2
  <2>2. ASSUME NEW k \in 1 .. n, f[k - 1] = g[k - 1] PROVE f[k] = g[k]
    <3> PICK h : h = k - 1
      OBVIOUS
    <3>1. h \in 0 .. n /\ k \in 0 .. n /\ k = h + 1 /\ k <= Len(b) /\ h \in Nat /\ h <= Len(b)
      BY <1>2, <1>6
    <3>2. In(Seq(Bytes), b, 0, h)
      BY <3>1, <1>6 DEF In
    <3>3. OneMore(Bytes, b, 0, h, k)
      BY <3>1, <3>2 DEF OneMore
    <3>4. FlattenSeq(Cut(b, 0, k)) = FlattenSeq(Cut(b, 0, h)) \o b[k]
      BY ONLY <3>3, FlatCutLast
    <3>5. b[k] = Cut(data, e[h], e[k])
      BY <1>6
    <3>6. In(Bytes, data, 0, e[h]) /\ In(Bytes, data, e[h], e[k])
      BY <3>1, <1>2
    <3>7. Cut(data, 0, e[h]) \o Cut(data, e[h], e[k]) = Cut(data, 0, e[k])
      BY ONLY <3>6, CutJoin
    <3>8. FlattenSeq(Cut(b, 0, h)) = Cut(data, 0, e[h])
      BY <2>2, <3>1
    <3> QED BY <3>1, <3>4, <3>5, <3>7, <3>8
  <2> HIDE DEF f, g
  <2> QED BY <2>1, <2>2 DEF InStep
<1>8. f[n] = g[n]
  <2>1. n \in 0 .. n
    BY <1>2
  <2> HIDE DEF f, g
  <2> QED BY <2>1, <1>2, <1>7, Alike
<1>9. FlattenSeq(Cut(b, 0, n)) = Cut(data, 0, Len(data))
  <2>1. n \in 0 .. n
    BY <1>2
  <2> QED BY <1>8, <2>1, <1>2
<1>10. Cut(b, 0, n) = b /\ Cut(data, 0, Len(data)) = data
  <2>1. Cut(b, 0, Len(b)) = b
    BY <1>6, CutAll
  <2> QED BY <2>1, <1>6, CutAll
<1>11. Len(c) = 0 => Len(data) = 0
  BY <1>2, <1>4
<1> QED BY <1>4, <1>5, <1>6, <1>9, <1>10, <1>11

-----------------------------------------------------------------------------
(* Manifests that from_files builds                                        *)
EntryType == [path : Seq(Parts), size : Nat, chunk_start : Nat, chunk_count : Nat]
ManifestOk(m) ==
    /\ DOMAIN m = {"root", "total_size", "chunks", "name", "files"}
    /\ m.total_size \in Int /\ m.name \in Seq(Parts)
    /\ m.chunks \in Seq(ChunkType) /\ m.files \in Seq(EntryType)
HonestType == {c \in ChunkType : c.length = Len(BytesOf(c.hash))}

\* What FromFiles is built from.
FileLens(files) == [i \in DOMAIN files |-> Len(files[i].data)]
RunLens(files) == [i \in DOMAIN files |-> Len(Chunk(files[i].data))]
Run(files, i) ==
    [k \in DOMAIN Chunk(files[i].data) |->
        [Chunk(files[i].data)[k] EXCEPT !.offset = @ + Total(SubSeq(FileLens(files), 1, i - 1))]]
Runs(files) == [i \in DOMAIN files |-> Run(files, i)]
Entries(files) ==
    [i \in DOMAIN files |-> [path |-> files[i].path, size |-> FileLens(files)[i],
                             chunk_start |-> Total(SubSeq(RunLens(files), 1, i - 1)),
                             chunk_count |-> RunLens(files)[i]]]

LEMMA FromFilesIs ==
    ASSUME NEW files
    PROVE  FromFiles(files) =
            [root |-> MerkleRoot([i \in DOMAIN FlattenSeq(Runs(files)) |-> FlattenSeq(Runs(files))[i].hash]),
             total_size |-> Total(FileLens(files)), chunks |-> FlattenSeq(Runs(files)),
             name |-> <<"n">>, files |-> Entries(files)]
<1> DEFINE spans == [i \in DOMAIN files |-> Chunk(files[i].data)]
           sizes == [i \in DOMAIN files |-> Len(files[i].data)]
           counts == [i \in DOMAIN files |-> Len(spans[i])]
           before(nums, i) == Total(SubSeq(nums, 1, i - 1))
           runs == [i \in DOMAIN files |->
                    [k \in DOMAIN spans[i] |->
                        [spans[i][k] EXCEPT !.offset = @ + before(sizes, i)]]]
           chunks == FlattenSeq(runs)
           entries == [i \in DOMAIN files |->
            [path |-> files[i].path, size |-> sizes[i],
             chunk_start |-> before(counts, i), chunk_count |-> counts[i]]]
<1>1. FromFiles(files) =
        [root |-> MerkleRoot([i \in DOMAIN chunks |-> chunks[i].hash]),
         total_size |-> Total(sizes), chunks |-> chunks, name |-> <<"n">>, files |-> entries]
  BY DEF FromFiles
<1>2. sizes = FileLens(files)
  BY DEF FileLens
<1>3. counts = RunLens(files)
  BY DEF RunLens
<1>4. runs = Runs(files)
  <2>1. ASSUME NEW i \in DOMAIN files PROVE runs[i] = Run(files, i)
    <3>1. spans[i] = Chunk(files[i].data)
      OBVIOUS
    <3> PICK c : c = spans[i]
      OBVIOUS
    <3> PICK b : b = before(sizes, i)
      OBVIOUS
    <3>2. runs[i] = [k \in DOMAIN c |-> [c[k] EXCEPT !.offset = @ + b]]
      OBVIOUS
    <3>3. Run(files, i) = [k \in DOMAIN c |-> [c[k] EXCEPT !.offset = @ + b]]
      <4>1. c = Chunk(files[i].data) /\ b = Total(SubSeq(FileLens(files), 1, i - 1))
        BY <1>2
      <4> QED BY ONLY <4>1 DEF Run
    <3> QED BY <3>2, <3>3
  <2> QED BY <2>1 DEF Runs
<1>5. entries = Entries(files)
  <2> HIDE DEF spans, sizes, counts
  <2> QED BY <1>2, <1>3 DEF Entries
<1> HIDE DEF runs, entries, sizes
<1> QED BY <1>1, <1>2, <1>4, <1>5

LEMMA RunFact ==
    ASSUME NEW files \in Seq(FileType), NEW i \in 1 .. Len(files)
    PROVE  /\ Run(files, i) \in Seq(HonestType) /\ Len(Run(files, i)) = Len(Chunk(files[i].data))
           /\ Data(Run(files, i)) = files[i].data
           /\ Len(Run(files, i)) = 0 => Len(files[i].data) = 0
<1> PICK c : c = Chunk(files[i].data)
  OBVIOUS
<1> PICK b : b = Total(SubSeq(FileLens(files), 1, i - 1))
  OBVIOUS
<1> PICK r : r = Run(files, i)
  OBVIOUS
<1>1. files[i].data \in Seq(Bytes)
  <2>1. files[i] \in FileType
    OBVIOUS
  <2> QED BY <2>1, FileFields
<1>2. /\ c \in Seq(ChunkType) /\ Honest(c) /\ Data(c) = files[i].data
      /\ (Len(c) = 0 => Len(files[i].data) = 0)
  BY <1>1, ChunkFact
<1>3. r = [k \in DOMAIN c |-> [c[k] EXCEPT !.offset = @ + b]]
  BY DEF Run
<1>4. b \in Int
  <2>1. FileLens(files) \in Seq(Int)
    <3>1. \A k \in 1 .. Len(files) : files[k].data \in Seq(Bytes)
      <4> TAKE k \in 1 .. Len(files)
      <4>1. files[k] \in FileType
        OBVIOUS
      <4> QED BY <4>1, FileFields
    <3>2. \A k \in 1 .. Len(files) : Len(files[k].data) \in Int
      BY <3>1
    <3>3. DOMAIN files = 1 .. Len(files) /\ Len(files) \in Nat
      OBVIOUS
    <3>4. FileLens(files) = [k \in 1 .. Len(files) |-> Len(files[k].data)]
      BY <3>3 DEF FileLens
    <3> QED BY <3>2, <3>3, <3>4
  <2> PICK s : s = FileLens(files)
    OBVIOUS
  <2> PICK h : h = i - 1
    OBVIOUS
  <2>2. In(Int, s, 0, h)
    <3>1. Len(s) = Len(files) /\ Len(files) \in Nat
      BY DEF FileLens
    <3> QED BY <2>1, <3>1 DEF In
  <2>3. IsCut(Cut(s, 0, h), Int, s, 0, h)
    BY ONLY <2>2, CutType
  <2>4. SubSeq(s, 1, h) \in Seq(Int)
    BY <2>3 DEF IsCut, Cut
  <2> QED BY <2>4, TotalType
<1>5. DOMAIN c = 1 .. Len(c) /\ Len(c) \in Nat
  BY <1>2
<1>6. ASSUME NEW k \in 1 .. Len(c)
      PROVE  r[k] \in HonestType /\ r[k].hash = c[k].hash
  <2>1. c[k] \in ChunkType
    BY <1>2
  <2>2. c[k] = [hash |-> c[k].hash, offset |-> c[k].offset, length |-> c[k].length]
        /\ c[k].offset \in Int
    BY <2>1 DEF ChunkType
  <2>3. r[k] = [c[k] EXCEPT !.offset = c[k].offset + b]
    BY <1>3, <1>5
  <2>4. r[k] = [hash |-> c[k].hash, offset |-> c[k].offset + b, length |-> c[k].length]
    BY <2>2, <2>3
  <2>5. c[k].offset + b \in Int
    BY <2>2, <1>4
  <2>6. r[k] \in ChunkType
    BY <2>1, <2>4, <2>5 DEF ChunkType
  <2>7. c[k].length = Len(BytesOf(c[k].hash))
    BY <1>2, <1>5 DEF Honest
  <2>8. r[k].length = Len(BytesOf(r[k].hash))
    BY <2>4, <2>7
  <2> QED BY <2>4, <2>6, <2>8 DEF HonestType
<1>7. DOMAIN r = DOMAIN c
  BY <1>3
<1>8. r \in Seq(HonestType) /\ Len(r) = Len(c)
  <2>1. r \in [1 .. Len(c) -> HonestType]
    BY <1>3, <1>5, <1>6
  <2> QED BY <2>1, <1>5
<1>9. Data(r) = Data(c)
  <2>1. [k \in DOMAIN r |-> BytesOf(r[k].hash)] = [k \in DOMAIN c |-> BytesOf(c[k].hash)]
    BY <1>5, <1>6, <1>7
  <2> QED BY <2>1 DEF Data
<1> QED BY <1>2, <1>8, <1>9

\* The data of chunks laid end to end.
LEMMA DataFlat ==
    ASSUME NEW rs \in Seq(Seq(ChunkType)), NEW ds \in Seq(Seq(Bytes)), Len(ds) = Len(rs),
           \A i \in 1 .. Len(rs) : Data(rs[i]) = ds[i]
    PROVE  Data(FlattenSeq(rs)) = FlattenSeq(ds)
<1> PICK n : n = Len(rs)
  OBVIOUS
<1> DEFINE f == [k \in 0 .. n |-> Data(FlattenSeq(Cut(rs, 0, k)))]
           g == [k \in 0 .. n |-> FlattenSeq(Cut(ds, 0, k))]
<1>0. n \in Nat /\ Len(ds) = n
  OBVIOUS
<1>1. InStep(f, g, n)
  <2>1. f[0] = g[0]
    <3>1. FlattenSeq(Cut(rs, 0, 0)) = <<>> /\ FlattenSeq(Cut(ds, 0, 0)) = <<>>
      BY FlatCutEmpty
    <3>2. f[0] = Data(FlattenSeq(Cut(rs, 0, 0))) /\ g[0] = FlattenSeq(Cut(ds, 0, 0))
      BY <1>0
    <3> QED BY <3>1, <3>2, DataEmpty
  <2>2. ASSUME NEW k \in 1 .. n, f[k - 1] = g[k - 1] PROVE f[k] = g[k]
    <3> PICK h : h = k - 1
      OBVIOUS
    <3>1. h \in 0 .. n /\ k \in 0 .. n /\ k = h + 1 /\ h \in Nat /\ h <= n /\ k <= n
      BY <1>0
    <3>2. In(Seq(ChunkType), rs, 0, h) /\ In(Seq(Bytes), ds, 0, h)
      BY <3>1, <1>0 DEF In
    <3>3. OneMore(ChunkType, rs, 0, h, k) /\ OneMore(Bytes, ds, 0, h, k)
      BY <3>1, <3>2, <1>0 DEF OneMore
    <3>4. FlattenSeq(Cut(rs, 0, k)) = FlattenSeq(Cut(rs, 0, h)) \o rs[k]
      BY ONLY <3>3, FlatCutLast
    <3>5. FlattenSeq(Cut(ds, 0, k)) = FlattenSeq(Cut(ds, 0, h)) \o ds[k]
      BY ONLY <3>3, FlatCutLast
    <3>6. FlattenSeq(Cut(rs, 0, h)) \in Seq(ChunkType)
      BY ONLY <3>2, FlatCutType
    <3>7. rs[k] \in Seq(ChunkType)
      OBVIOUS
    <3>8. Data(FlattenSeq(Cut(rs, 0, h)) \o rs[k]) = Data(FlattenSeq(Cut(rs, 0, h))) \o Data(rs[k])
      BY <3>6, <3>7, DataConcat
    <3>9. f[h] = Data(FlattenSeq(Cut(rs, 0, h))) /\ g[h] = FlattenSeq(Cut(ds, 0, h)) /\ f[h] = g[h]
      BY <2>2, <3>1
    <3>10. f[k] = Data(FlattenSeq(Cut(rs, 0, k))) /\ g[k] = FlattenSeq(Cut(ds, 0, k))
      BY <3>1
    <3>11. Data(rs[k]) = ds[k]
      OBVIOUS
    <3> HIDE DEF f, g
    <3> QED BY <3>4, <3>5, <3>8, <3>9, <3>10, <3>11
  <2> HIDE DEF f, g
  <2> QED BY <2>1, <2>2 DEF InStep
<1>2. f[n] = g[n]
  <2>1. n \in 0 .. n
    BY <1>0
  <2> HIDE DEF f, g
  <2> QED BY <2>1, <1>0, <1>1, Alike
<1>3. Data(FlattenSeq(Cut(rs, 0, n))) = FlattenSeq(Cut(ds, 0, n))
  <2>1. n \in 0 .. n
    BY <1>0
  <2> QED BY <1>2, <2>1
<1>4. Cut(rs, 0, Len(rs)) = rs /\ Cut(ds, 0, Len(ds)) = ds
  BY CutAll
<1> QED BY <1>0, <1>3, <1>4

LEMMA LensFact ==
    ASSUME NEW files \in Seq(FileType)
    PROVE  /\ FileLens(files) \in Seq(Int) /\ Len(FileLens(files)) = Len(files)
           /\ RunLens(files) \in Seq(Int) /\ Len(RunLens(files)) = Len(files)
           /\ \A i \in 1 .. Len(files) : /\ FileLens(files)[i] = Len(files[i].data)
                                         /\ FileLens(files)[i] \in Nat /\ RunLens(files)[i] \in Nat
                                         /\ RunLens(files)[i] = Len(Run(files, i))
           /\ Runs(files) \in Seq(Seq(HonestType)) /\ Len(Runs(files)) = Len(files)
           /\ \A i \in 1 .. Len(files) : Runs(files)[i] = Run(files, i)
<1> PICK n : n = Len(files)
  OBVIOUS
<1>1. DOMAIN files = 1 .. n /\ n \in Nat
  OBVIOUS
<1>2. \A i \in 1 .. n : Len(files[i].data) \in Nat
  <2> TAKE i \in 1 .. n
  <2>1. files[i].data \in Seq(Bytes)
    BY FileFields
  <2> QED BY <2>1
<1>3. \A i \in 1 .. n : /\ Run(files, i) \in Seq(HonestType)
                        /\ Len(Run(files, i)) = Len(Chunk(files[i].data)) /\ Len(Run(files, i)) \in Nat
  BY RunFact
<1>4. FileLens(files) = [i \in 1 .. n |-> Len(files[i].data)]
  BY <1>1 DEF FileLens
<1>5. RunLens(files) = [i \in 1 .. n |-> Len(Chunk(files[i].data))]
  BY <1>1 DEF RunLens
<1>6. Runs(files) = [i \in 1 .. n |-> Run(files, i)]
  BY <1>1 DEF Runs
<1>7. FileLens(files) \in Seq(Int) /\ Len(FileLens(files)) = n
  BY <1>1, <1>2, <1>4
<1>8. RunLens(files) \in Seq(Int) /\ Len(RunLens(files)) = n
  <2>1. \A i \in 1 .. n : Len(Chunk(files[i].data)) \in Int
    BY <1>3
  <2> QED BY <2>1, <1>1, <1>5
<1>9. Runs(files) \in Seq(Seq(HonestType)) /\ Len(Runs(files)) = n
  BY <1>1, <1>3, <1>6
<1> QED BY <1>2, <1>3, <1>4, <1>5, <1>6, <1>7, <1>8, <1>9

\* Where the chunks of a file are, and what they hold.
RunAt(files, m, i) ==
    /\ m.files[i].path = files[i].path /\ m.files[i].size = Len(files[i].data)
    /\ m.files[i].chunk_start = Off(Runs(files), i - 1)
    /\ m.files[i].chunk_count = Len(Run(files, i))
    /\ m.files[i] \in EntryType
    /\ m.files[i].chunk_start + m.files[i].chunk_count = Off(Runs(files), i)
    /\ Off(Runs(files), i) <= Len(m.chunks)
    /\ OwnChunks(m, m.files[i]) = Run(files, i)

LEMMA RunAtFact ==
    ASSUME NEW files \in Seq(FileType), NEW i \in 1 .. Len(files)
    PROVE  RunAt(files, FromFiles(files), i)
<1> PICK m : m = FromFiles(files)
  OBVIOUS
<1> PICK rs : rs = Runs(files)
  OBVIOUS
<1> PICK lens : lens = RunLens(files)
  OBVIOUS
<1>1. m.files = Entries(files) /\ m.chunks = FlattenSeq(rs)
  BY FromFilesIs
<1>2. DOMAIN files = 1 .. Len(files) /\ Len(files) \in Nat
  OBVIOUS
<1>3. m.files[i] = [path |-> files[i].path, size |-> FileLens(files)[i],
                    chunk_start |-> Total(SubSeq(lens, 1, i - 1)), chunk_count |-> lens[i]]
  BY <1>1, <1>2 DEF Entries
<1>4. /\ lens \in Seq(Int) /\ Len(lens) = Len(files) /\ FileLens(files)[i] = Len(files[i].data)
      /\ FileLens(files)[i] \in Nat /\ lens[i] \in Nat /\ lens[i] = Len(Run(files, i))
      /\ rs \in Seq(Seq(HonestType)) /\ Len(rs) = Len(files) /\ rs[i] = Run(files, i)
      /\ \A k \in 1 .. Len(rs) : lens[k] = Len(rs[k])
  BY LensFact, SMTT(30)
<1> PICK h : h = i - 1
  OBVIOUS
<1>5. h \in 0 .. Len(rs) /\ i \in 1 .. Len(rs) /\ i \in 0 .. Len(rs)
  BY <1>2, <1>4
<1>6. Total(SubSeq(lens, 1, h)) = Off(rs, h)
  BY <1>4, <1>5, OffTotal
<1>7. Off(rs, i) = Off(rs, h) + Len(rs[i]) /\ Off(rs, h) \in Nat /\ Off(rs, i) \in Nat
  BY <1>4, <1>5, OffStep
<1>8. In(HonestType, FlattenSeq(rs), Off(rs, h), Off(rs, i)) /\ Cut(FlattenSeq(rs), Off(rs, h), Off(rs, i)) = rs[i]
  BY <1>4, <1>5, FlatAt
<1>9. Off(rs, i) <= Len(FlattenSeq(rs))
  BY <1>8 DEF In
<1>10. /\ m.files[i].path = files[i].path /\ m.files[i].size = Len(files[i].data)
       /\ m.files[i].chunk_start = Off(rs, h) /\ m.files[i].chunk_count = Len(rs[i])
  BY <1>3, <1>4, <1>6
<1>11. m.files[i].chunk_start + m.files[i].chunk_count = Off(rs, i)
  BY <1>7, <1>10
<1>12. OwnChunks(m, m.files[i]) = rs[i]
  BY <1>1, <1>8, <1>10, <1>11 DEF OwnChunks, Cut
<1>13. m.files[i] \in EntryType
  <2>1. files[i].path \in Seq(Parts)
    BY FileFields
  <2>2. Total(SubSeq(lens, 1, h)) \in Nat
    BY <1>6, <1>7
  <2> QED BY <2>1, <2>2, <1>3, <1>4 DEF EntryType
<1> QED BY <1>1, <1>4, <1>9, <1>10, <1>11, <1>12, <1>13 DEF RunAt

LEMMA FromFilesType ==
    ASSUME NEW files \in Seq(FileType)
    PROVE  /\ ManifestOk(FromFiles(files)) /\ RootIsConsistent(FromFiles(files))
           /\ FromFiles(files).chunks = FlattenSeq(Runs(files))
           /\ FromFiles(files).chunks \in Seq(HonestType)
           /\ Len(FromFiles(files).files) = Len(files)
           /\ FromFiles(files).total_size = Total(FileLens(files))
<1> PICK m : m = FromFiles(files)
  OBVIOUS
<1> PICK cs : cs = FlattenSeq(Runs(files))
  OBVIOUS
<1>1. m = [root |-> MerkleRoot([i \in DOMAIN cs |-> cs[i].hash]),
             total_size |-> Total(FileLens(files)), chunks |-> cs,
             name |-> <<"n">>, files |-> Entries(files)]
  BY FromFilesIs
<1>2. cs \in Seq(HonestType)
  BY LensFact, FlatType
<1>3. cs \in Seq(ChunkType)
  BY <1>2 DEF HonestType
<1>4. m.files \in Seq(EntryType) /\ Len(m.files) = Len(files)
  <2>1. \A i \in 1 .. Len(files) : m.files[i] \in EntryType
    BY RunAtFact DEF RunAt
  <2>2. m.files = Entries(files)
    BY <1>1
  <2>3. DOMAIN files = 1 .. Len(files) /\ Len(files) \in Nat
    OBVIOUS
  <2>4. DOMAIN m.files = 1 .. Len(files) /\ m.files = [i \in 1 .. Len(files) |-> m.files[i]]
    BY <2>2, <2>3 DEF Entries
  <2> QED BY <2>1, <2>3, <2>4
<1>5. m.total_size \in Int
  BY <1>1, LensFact, TotalType
<1>6. m.name \in Seq(Parts)
  <2>1. "n" \in Parts
    BY LiteralsAssumption DEF Literals
  <2>2. <<"n">> \in Seq(Parts)
    BY <2>1
  <2> QED BY <1>1, <2>2
<1>7. RootIsConsistent(m)
  BY <1>1 DEF RootIsConsistent, Hashes
<1>8. m.chunks = cs /\ m.total_size = Total(FileLens(files))
      /\ DOMAIN m = {"root", "total_size", "chunks", "name", "files"}
  BY <1>1
<1> QED BY <1>2, <1>3, <1>4, <1>5, <1>6, <1>7, <1>8 DEF ManifestOk

LEMMA HonestIs ==
    ASSUME NEW cs \in Seq(HonestType)
    PROVE  cs \in Seq(ChunkType) /\ Lengths(cs) = Len(Data(cs)) /\ Lengths(cs) \in Int
<1>1. cs \in Seq(ChunkType)
  BY DEF HonestType
<1>2. Honest(cs)
  <2> SUFFICES ASSUME NEW k \in DOMAIN cs PROVE cs[k].length = Len(BytesOf(cs[k].hash))
    BY DEF Honest
  <2>1. cs[k] \in HonestType
    OBVIOUS
  <2> QED BY <2>1 DEF HonestType
<1>3. Lengths(cs) = Len(Data(cs))
  BY <1>1, <1>2, HonestLengths
<1>4. Data(cs) \in Seq(Bytes)
  BY <1>1, BlobsType
<1>5. Len(Data(cs)) \in Int
  BY <1>4
<1> QED BY <1>1, <1>3, <1>5

\* Pulling content apart and putting it together again: the chunks of the
\* manifest that from_files builds hold the stream of the files, and each file
\* that reconstruct_files makes of its own chunks is the file it was.
THEOREM FromFilesData ==
    ASSUME NEW files \in Seq(FileType)
    PROVE  /\ Data(FromFiles(files).chunks) = Stream(files)
           /\ \A i \in 1 .. Len(files) : Data(OwnChunks(FromFiles(files), FromFiles(files).files[i])) = files[i].data
           /\ FilesOf(FromFiles(files)) = files
<1> PICK m : m = FromFiles(files)
  OBVIOUS
<1> PICK rs : rs = Runs(files)
  OBVIOUS
<1> PICK ds : ds = Datas(files)
  OBVIOUS
<1>1. m.chunks = FlattenSeq(rs) /\ Len(m.files) = Len(files) /\ m.files \in Seq(EntryType)
  BY FromFilesType DEF ManifestOk
<1>2. rs \in Seq(Seq(HonestType)) /\ Len(rs) = Len(files) /\ \A i \in 1 .. Len(files) : rs[i] = Run(files, i)
  BY LensFact
<1>3. /\ ds \in Seq(Seq(Bytes)) /\ Len(ds) = Len(files) /\ Stream(files) = FlattenSeq(ds)
      /\ \A i \in 1 .. Len(files) : ds[i] = files[i].data
  BY StreamType
<1>4. \A i \in 1 .. Len(files) : Data(rs[i]) = ds[i]
  BY <1>2, <1>3, RunFact
<1>5. rs \in Seq(Seq(ChunkType))
  BY <1>2 DEF HonestType
<1>6. Data(FlattenSeq(rs)) = FlattenSeq(ds)
  BY <1>2, <1>3, <1>4, <1>5, DataFlat
<1>7. ASSUME NEW i \in 1 .. Len(files)
      PROVE  Data(OwnChunks(m, m.files[i])) = files[i].data /\ m.files[i].path = files[i].path
  BY <1>2, <1>3, <1>4, RunAtFact DEF RunAt
<1>8. FilesOf(m) = files
  <2>1. DOMAIN m.files = 1 .. Len(files) /\ DOMAIN files = 1 .. Len(files)
    BY <1>1
  <2>2. FilesOf(m) = [i \in 1 .. Len(files) |-> [path |-> m.files[i].path,
                                                 data |-> Data(OwnChunks(m, m.files[i]))]]
    BY <2>1 DEF FilesOf
  <2>3. ASSUME NEW i \in 1 .. Len(files) PROVE FilesOf(m)[i] = files[i]
    <3>1. files[i] \in FileType
      OBVIOUS
    <3>2. files[i] = [path |-> files[i].path, data |-> files[i].data]
      BY <3>1 DEF FileType
    <3> QED BY <2>2, <3>2, <1>7
  <2>4. DOMAIN FilesOf(m) = 1 .. Len(files)
    BY <2>2
  <2>5. FilesOf(m) = [i \in 1 .. Len(files) |-> files[i]]
    BY <2>2, <2>3, <2>4
  <2> QED BY <2>5
<1> QED BY <1>1, <1>3, <1>6, <1>7, <1>8

\* The counts and the sizes in a manifest that FromFiles has built.
LEMMA FromFilesSums ==
    ASSUME NEW files \in Seq(FileType)
    PROVE  LET m == FromFiles(files) IN
           /\ Counts(m.files) = Len(m.chunks) /\ Sizes(m.files) = m.total_size
           /\ Lengths(m.chunks) = m.total_size
           /\ \A i \in 1 .. Len(files) :
                Counts(SubSeq(m.files, 1, i - 1)) = m.files[i].chunk_start
<1> PICK m : m = FromFiles(files)
  OBVIOUS
<1> PICK rs : rs = Runs(files)
  OBVIOUS
<1> PICK lens : lens = RunLens(files)
  OBVIOUS
<1> PICK n : n = Len(files)
  OBVIOUS
<1>1. /\ m.chunks = FlattenSeq(rs) /\ Len(m.files) = n /\ m.files \in Seq(EntryType)
      /\ m.chunks \in Seq(HonestType) /\ m.total_size = Total(FileLens(files)) /\ n \in Nat
  BY FromFilesType DEF ManifestOk
<1>2. /\ lens \in Seq(Int) /\ Len(lens) = n /\ rs \in Seq(Seq(HonestType)) /\ Len(rs) = n
      /\ \A i \in 1 .. Len(rs) : lens[i] = Len(rs[i])
  BY LensFact
<1>3. \A i \in 1 .. n : /\ m.files[i].chunk_count = lens[i] /\ m.files[i].size = FileLens(files)[i]
                        /\ m.files[i].chunk_start = Off(rs, i - 1)
  BY LensFact, RunAtFact DEF RunAt
<1>4. DOMAIN m.files = 1 .. n /\ DOMAIN lens = 1 .. n
  BY <1>1, <1>2
<1>5. Counts(m.files) = Total(lens)
  <2>1. [i \in DOMAIN m.files |-> m.files[i].chunk_count] = lens
    BY <1>2, <1>3, <1>4
  <2> QED BY <2>1 DEF Counts
<1>6. Total(lens) = Len(FlattenSeq(rs))
  BY <1>2, LenTotal
<1>7. Sizes(m.files) = Total(FileLens(files))
  <2>1. FileLens(files) \in Seq(Int) /\ Len(FileLens(files)) = n
    BY LensFact
  <2>2. [i \in DOMAIN m.files |-> m.files[i].size] = FileLens(files)
    BY <2>1, <1>3, <1>4
  <2> QED BY <2>2 DEF Sizes
<1>8. Lengths(m.chunks) = Total(FileLens(files))
  <2> PICK ds : ds = Datas(files)
    OBVIOUS
  <2>1. Lengths(m.chunks) = Len(Data(m.chunks))
    BY <1>1, HonestIs
  <2>2. Data(m.chunks) = FlattenSeq(ds) /\ ds \in Seq(Seq(Bytes)) /\ Len(ds) = n
        /\ \A i \in 1 .. n : ds[i] = files[i].data
    BY FromFilesData, StreamType
  <2>3. /\ FileLens(files) \in Seq(Int) /\ Len(FileLens(files)) = Len(ds)
        /\ \A i \in 1 .. Len(ds) : FileLens(files)[i] = Len(ds[i])
    <3>1. /\ FileLens(files) \in Seq(Int) /\ Len(FileLens(files)) = n
          /\ \A i \in 1 .. n : FileLens(files)[i] = Len(files[i].data)
      BY LensFact
    <3> QED BY <3>1, <2>2
  <2>4. Total(FileLens(files)) = Len(FlattenSeq(ds))
    BY <2>2, <2>3, LenTotal
  <2> QED BY <2>1, <2>2, <2>4
<1>9. ASSUME NEW i \in 1 .. n
      PROVE  Counts(SubSeq(m.files, 1, i - 1)) = m.files[i].chunk_start
  <2> PICK h : h = i - 1
    OBVIOUS
  <2> PICK q : q = SubSeq(m.files, 1, h)
    OBVIOUS
  <2>1. h \in 0 .. n /\ h \in Nat /\ h <= n /\ h < i
    BY <1>1
  <2>2. In(EntryType, m.files, 0, h) /\ In(Int, lens, 0, h)
    BY <2>1, <1>1, <1>2 DEF In
  <2>3. IsCut(Cut(m.files, 0, h), EntryType, m.files, 0, h) /\ IsCut(Cut(lens, 0, h), Int, lens, 0, h)
    BY ONLY <2>2, CutType
  <2>4. /\ Cut(m.files, 0, h) \in Seq(EntryType) /\ Len(Cut(m.files, 0, h)) = h
        /\ (\A k \in 1 .. h : Cut(m.files, 0, h)[k] = m.files[k])
        /\ Cut(lens, 0, h) \in Seq(Int) /\ Len(Cut(lens, 0, h)) = h
        /\ (\A k \in 1 .. h : Cut(lens, 0, h)[k] = lens[k])
    <3>1. h - 0 = h /\ \A k \in 1 .. h : 0 + k = k
      BY <2>1
    <3> QED BY <3>1, <2>3 DEF IsCut
  <2>5. [k \in DOMAIN q |-> q[k].chunk_count] = SubSeq(lens, 1, h)
    <3>1. q = Cut(m.files, 0, h) /\ SubSeq(lens, 1, h) = Cut(lens, 0, h)
      BY DEF Cut
    <3>2. DOMAIN q = 1 .. h /\ DOMAIN Cut(lens, 0, h) = 1 .. h
      BY <2>4, <3>1
    <3>3. \A k \in 1 .. h : q[k].chunk_count = Cut(lens, 0, h)[k]
      <4> TAKE k \in 1 .. h
      <4>1. k \in 1 .. n
        BY <2>1, <1>1
      <4> QED BY <4>1, <2>4, <3>1, <1>3
    <3> PICK w : w = Cut(lens, 0, h)
      OBVIOUS
    <3>4. w = [k \in 1 .. h |-> w[k]]
      <4>1. w \in Seq(Int) /\ Len(w) = h
        BY <2>4
      <4> QED BY ONLY <4>1
    <3>5. [k \in DOMAIN q |-> q[k].chunk_count] = [k \in 1 .. h |-> w[k]]
      BY <3>2, <3>3
    <3> QED BY <3>1, <3>4, <3>5
  <2>6. Counts(q) = Total(SubSeq(lens, 1, h))
    BY <2>5 DEF Counts
  <2>7. Total(SubSeq(lens, 1, h)) = Off(rs, h)
    BY <2>1, <1>2, OffTotal
  <2> QED BY <2>6, <2>7, <1>3
<1> QED BY <1>1, <1>5, <1>6, <1>7, <1>8, <1>9

\* Manifest::validate accepts whatever Manifest::from_files builds.
THEOREM FromFilesValid ==
    ASSUME NEW files \in Seq(FileType)
    PROVE  Validate(FromFiles(files))
<1> PICK m : m = FromFiles(files)
  OBVIOUS
<1>1. /\ Counts(m.files) = Len(m.chunks) /\ Sizes(m.files) = m.total_size
      /\ Lengths(m.chunks) = m.total_size
      /\ \A i \in 1 .. Len(files) : Counts(SubSeq(m.files, 1, i - 1)) = m.files[i].chunk_start
  BY FromFilesSums
<1>2. DOMAIN m.files = 1 .. Len(files)
  <2>1. Len(m.files) = Len(files) /\ m.files \in Seq(EntryType)
    BY FromFilesType DEF ManifestOk
  <2> QED BY <2>1
<1>3. ASSUME NEW i \in 1 .. Len(files), NEW f, f = m.files[i]
      PROVE  /\ Tiles(m, i)
             /\ f.chunk_count = 0 => f.size = 0
             /\ f.chunk_start + f.chunk_count <= Len(m.chunks)
             /\ Lengths(OwnChunks(m, f)) = f.size
  <2>1. RunAt(files, m, i)
    BY RunAtFact
  <2>2. /\ f.size = Len(files[i].data) /\ f.chunk_count = Len(Run(files, i))
        /\ f.chunk_start + f.chunk_count <= Len(m.chunks) /\ OwnChunks(m, f) = Run(files, i)
    BY <2>1, <1>3 DEF RunAt
  <2>3. /\ Run(files, i) \in Seq(HonestType) /\ Data(Run(files, i)) = files[i].data
        /\ (Len(Run(files, i)) = 0 => Len(files[i].data) = 0)
    BY RunFact
  <2>4. Lengths(Run(files, i)) = Len(Data(Run(files, i)))
    BY <2>3, HonestIs
  <2>5. Tiles(m, i)
    BY <1>1 DEF Tiles
  <2> QED BY <2>2, <2>3, <2>4, <2>5
<1>4. \A i \in DOMAIN m.files : LET f == m.files[i] IN
         /\ Tiles(m, i)
         /\ f.chunk_count = 0 => f.size = 0
         /\ f.chunk_start + f.chunk_count <= Len(m.chunks)
         /\ Lengths(OwnChunks(m, f)) = f.size
  BY <1>2, <1>3
<1> QED BY <1>1, <1>4 DEF Validate

-----------------------------------------------------------------------------
(* The files of a manifest that validate accepts                           *)
LEMMA EntryFields ==
    ASSUME NEW f \in EntryType
    PROVE  /\ f.path \in Seq(Parts) /\ f.size \in Nat /\ f.chunk_start \in Nat /\ f.chunk_count \in Nat
           /\ DOMAIN f = {"path", "size", "chunk_start", "chunk_count"}
           /\ f = [path |-> f.path, size |-> f.size, chunk_start |-> f.chunk_start, chunk_count |-> f.chunk_count]
BY DEF EntryType

LEMMA LengthsType ==
    ASSUME NEW cs \in Seq(ChunkType)
    PROVE  Lengths(cs) \in Nat
<1> PICK nums : nums = [i \in DOMAIN cs |-> cs[i].length]
  OBVIOUS
<1>1. \A i \in 1 .. Len(cs) : cs[i].length \in Nat
  BY ChunkFields
<1>2. nums \in Seq(Nat)
  <2>1. nums = [i \in 1 .. Len(cs) |-> cs[i].length] /\ Len(cs) \in Nat
    OBVIOUS
  <2> QED BY <2>1, <1>1
<1>3. Total(nums) \in Nat
  BY <1>2, GrowingTotal
<1> QED BY <1>3 DEF Lengths

LEMMA OwnChunksType ==
    ASSUME NEW m, ManifestOk(m), NEW f \in EntryType, f.chunk_start + f.chunk_count <= Len(m.chunks)
    PROVE  /\ OwnChunks(m, f) = Cut(m.chunks, f.chunk_start, f.chunk_start + f.chunk_count)
           /\ In(ChunkType, m.chunks, f.chunk_start, f.chunk_start + f.chunk_count)
           /\ OwnChunks(m, f) \in Seq(ChunkType) /\ Len(OwnChunks(m, f)) = f.chunk_count
<1> PICK a : a = f.chunk_start
  OBVIOUS
<1> PICK b : b = f.chunk_start + f.chunk_count
  OBVIOUS
<1>1. a \in Nat /\ f.chunk_count \in Nat /\ m.chunks \in Seq(ChunkType)
  BY EntryFields DEF ManifestOk
<1>2. In(ChunkType, m.chunks, a, b)
  BY <1>1 DEF In
<1>3. IsCut(Cut(m.chunks, a, b), ChunkType, m.chunks, a, b)
  BY ONLY <1>2, CutType
<1>4. OwnChunks(m, f) = Cut(m.chunks, a, b)
  BY DEF OwnChunks, Cut
<1>5. b - a = f.chunk_count
  BY <1>1
<1> QED BY <1>2, <1>3, <1>4, <1>5 DEF IsCut

CountList(files) == [i \in DOMAIN files |-> files[i].chunk_count]
SizeList(files) == [i \in DOMAIN files |-> files[i].size]

\* The first k of a list of numbers taken from entries.
LEMMA FirstOnes ==
    ASSUME NEW s \in Seq(EntryType), NEW k \in 0 .. Len(s), NEW v, DOMAIN v = 1 .. Len(s),
           v = [i \in 1 .. Len(s) |-> v[i]], \A i \in 1 .. Len(s) : v[i] \in Int
    PROVE  /\ v \in Seq(Int) /\ Len(v) = Len(s)
           /\ SubSeq(s, 1, k) \in Seq(EntryType) /\ DOMAIN SubSeq(s, 1, k) = 1 .. k
           /\ \A i \in 1 .. k : SubSeq(s, 1, k)[i] = s[i]
           /\ SubSeq(v, 1, k) = [i \in 1 .. k |-> v[i]]
<1> PICK n : n = Len(s)
  OBVIOUS
<1>1. n \in Nat /\ k \in Nat /\ k <= n
  OBVIOUS
<1>2. v \in Seq(Int)
  BY ONLY <1>1, n = Len(s), v = [i \in 1 .. Len(s) |-> v[i]], \A i \in 1 .. Len(s) : v[i] \in Int
<1>3. Len(v) = n
  BY <1>1, <1>2
<1>4. In(EntryType, s, 0, k) /\ In(Int, v, 0, k)
  BY <1>1, <1>2, <1>3 DEF In
<1>5. IsCut(Cut(s, 0, k), EntryType, s, 0, k) /\ IsCut(Cut(v, 0, k), Int, v, 0, k)
  BY ONLY <1>4, CutType
<1>6. Cut(s, 0, k) = SubSeq(s, 1, k) /\ Cut(v, 0, k) = SubSeq(v, 1, k)
  BY DEF Cut
<1> PICK a : a = SubSeq(s, 1, k)
  OBVIOUS
<1> PICK b : b = SubSeq(v, 1, k)
  OBVIOUS
<1>7. k - 0 = k /\ \A i \in 1 .. k : 0 + i = i
  BY <1>1
<1>8. /\ a \in Seq(EntryType) /\ Len(a) = k /\ \A i \in 1 .. k : a[i] = s[i]
  BY <1>5, <1>6, <1>7 DEF IsCut
<1>9. /\ b \in Seq(Int) /\ Len(b) = k /\ \A i \in 1 .. k : b[i] = v[i]
  BY <1>5, <1>6, <1>7 DEF IsCut
<1>10. b = [i \in 1 .. k |-> b[i]]
  BY ONLY <1>1, <1>9
<1>11. b = [i \in 1 .. k |-> v[i]]
  BY ONLY <1>9, <1>10
<1>12. DOMAIN a = 1 .. k
  BY <1>8
<1> QED BY <1>2, <1>3, <1>8, <1>11, <1>12

LEMMA FieldSums ==
    ASSUME NEW s \in Seq(EntryType), NEW k \in 0 .. Len(s)
    PROVE  /\ CountList(s) \in Seq(Int) /\ Len(CountList(s)) = Len(s)
           /\ SizeList(s) \in Seq(Int) /\ Len(SizeList(s)) = Len(s)
           /\ \A i \in 1 .. Len(s) : CountList(s)[i] = s[i].chunk_count /\ SizeList(s)[i] = s[i].size
           /\ Counts(SubSeq(s, 1, k)) = Total(SubSeq(CountList(s), 1, k))
           /\ Sizes(SubSeq(s, 1, k)) = Total(SubSeq(SizeList(s), 1, k))
           /\ Counts(s) = Total(CountList(s)) /\ Sizes(s) = Total(SizeList(s))
<1> PICK n : n = Len(s)
  OBVIOUS
<1> PICK c : c = CountList(s)
  OBVIOUS
<1> PICK z : z = SizeList(s)
  OBVIOUS
<1>1. DOMAIN s = 1 .. n /\ \A i \in 1 .. n : s[i] \in EntryType
  OBVIOUS
<1>2. \A i \in 1 .. n : s[i].chunk_count \in Int /\ s[i].size \in Int
  BY <1>1, EntryFields
<1>3. c = [i \in 1 .. n |-> s[i].chunk_count] /\ z = [i \in 1 .. n |-> s[i].size]
  BY <1>1 DEF CountList, SizeList
<1>4. /\ DOMAIN c = 1 .. n /\ DOMAIN z = 1 .. n /\ c = [i \in 1 .. n |-> c[i]] /\ z = [i \in 1 .. n |-> z[i]]
      /\ \A i \in 1 .. n : c[i] = s[i].chunk_count /\ z[i] = s[i].size /\ c[i] \in Int /\ z[i] \in Int
  BY ONLY <1>2, <1>3
<1> PICK a : a = SubSeq(s, 1, k)
  OBVIOUS
<1>5. /\ c \in Seq(Int) /\ Len(c) = n /\ DOMAIN a = 1 .. k /\ \A i \in 1 .. k : a[i] = s[i]
      /\ SubSeq(c, 1, k) = [i \in 1 .. k |-> c[i]]
  BY <1>4, FirstOnes
<1>6. /\ z \in Seq(Int) /\ Len(z) = n /\ SubSeq(z, 1, k) = [i \in 1 .. k |-> z[i]]
  BY <1>4, FirstOnes
<1>7. \A i \in 1 .. k : a[i].chunk_count = c[i] /\ a[i].size = z[i]
  <2>1. \A i \in 1 .. k : i \in 1 .. n
    OBVIOUS
  <2> QED BY <2>1, <1>4, <1>5
<1>8. [i \in DOMAIN a |-> a[i].chunk_count] = SubSeq(c, 1, k) /\ [i \in DOMAIN a |-> a[i].size] = SubSeq(z, 1, k)
  BY ONLY <1>5, <1>6, <1>7
<1>9. Counts(a) = Total(SubSeq(c, 1, k)) /\ Sizes(a) = Total(SubSeq(z, 1, k))
  BY <1>8 DEF Counts, Sizes
<1>10. Counts(s) = Total(c) /\ Sizes(s) = Total(z)
  BY DEF Counts, Sizes, CountList, SizeList
<1> QED BY <1>4, <1>5, <1>6, <1>9, <1>10

\* Where the chunks of the files of a valid manifest begin and end.
Tiling(m, c) ==
    /\ c[0] = 0 /\ c[Len(m.files)] = Len(m.chunks)
    /\ \A i \in 0 .. Len(m.files) : c[i] \in Nat
    /\ \A i \in 1 .. Len(m.files) : /\ c[i] = c[i - 1] + m.files[i].chunk_count
                                    /\ m.files[i].chunk_start = c[i - 1]
                                    /\ In(ChunkType, m.chunks, c[i - 1], c[i])
                                    /\ In(ChunkType, m.chunks, 0, c[i - 1])
                                    /\ OwnChunks(m, m.files[i]) = Cut(m.chunks, c[i - 1], c[i])

LEMMA TiledFiles ==
    ASSUME NEW m, ManifestOk(m), Validate(m)
    PROVE  \E c : Tiling(m, c)
<1> PICK fs : fs = m.files
  OBVIOUS
<1> PICK n : n = Len(fs)
  OBVIOUS
<1> PICK nums : nums = CountList(fs)
  OBVIOUS
<1>0. fs \in Seq(EntryType) /\ m.chunks \in Seq(ChunkType) /\ n \in Nat /\ DOMAIN fs = 1 .. n
  BY DEF ManifestOk
<1>1. nums \in Seq(Int) /\ Len(nums) = n /\ (\A i \in 1 .. n : nums[i] = fs[i].chunk_count) /\ Counts(fs) = Total(nums)
  <2>1. 0 \in 0 .. Len(fs)
    BY <1>0
  <2> QED BY <2>1, <1>0, FieldSums
<1>2. \A k \in 0 .. n : Counts(SubSeq(fs, 1, k)) = Total(SubSeq(nums, 1, k))
  BY <1>0, FieldSums
<1>3. ASSUME NEW i \in 1 .. n
      PROVE  /\ fs[i].chunk_start = Counts(SubSeq(fs, 1, i - 1))
             /\ fs[i].chunk_start + fs[i].chunk_count <= Len(m.chunks)
             /\ fs[i].chunk_start \in Nat /\ fs[i].chunk_count \in Nat /\ fs[i] \in EntryType
  <2>1. i \in DOMAIN m.files
    BY <1>0
  <2>2. Tiles(m, i) /\ m.files[i].chunk_start + m.files[i].chunk_count <= Len(m.chunks)
    BY <2>1 DEF Validate
  <2>3. fs[i] \in EntryType
    BY <1>0
  <2> QED BY <2>2, <2>3, EntryFields DEF Tiles
<1> DEFINE c == [k \in 0 .. n |-> Total(SubSeq(nums, 1, k))]
<1>4. \A k \in 0 .. n : c[k] = Total(SubSeq(nums, 1, k))
  OBVIOUS
<1> HIDE DEF c
<1>5. c[0] = 0
  <2>1. 0 \in 0 .. n /\ Total(SubSeq(nums, 1, 0)) = 0
    BY <1>0, <1>1, TotalType
  <2> QED BY <2>1, <1>4
<1>6. c[n] = Len(m.chunks)
  <2>1. n \in 0 .. n
    BY <1>0
  <2>2. SubSeq(nums, 1, n) = nums
    BY <1>1
  <2>3. Counts(m.files) = Len(m.chunks)
    BY DEF Validate
  <2>4. c[n] = Total(nums)
    BY ONLY <2>1, <2>2, <1>4
  <2> QED BY <2>3, <2>4, <1>1
<1>7. ASSUME NEW i \in 1 .. n
      PROVE  /\ c[i] = c[i - 1] + fs[i].chunk_count /\ fs[i].chunk_start = c[i - 1]
             /\ c[i - 1] \in Nat /\ c[i] \in Nat /\ c[i] <= Len(m.chunks)
  <2> PICK h : h = i - 1
    OBVIOUS
  <2>1. h \in 0 .. n /\ i \in 0 .. n /\ i \in 1 .. Len(nums)
    BY <1>0, <1>1
  <2>2. Total(SubSeq(nums, 1, i)) = Total(SubSeq(nums, 1, i - 1)) + nums[i]
    BY <2>1, <1>1, TotalLast
  <2>3. c[i] = c[h] + nums[i]
    BY <2>1, <2>2, <1>4
  <2>4. fs[i].chunk_start = c[h]
    BY <2>1, <1>2, <1>3, <1>4
  <2>5. nums[i] = fs[i].chunk_count
    BY <1>1
  <2> QED BY <2>3, <2>4, <2>5, <1>3
<1>8. \A i \in 0 .. n : c[i] \in Nat
  <2> TAKE i \in 0 .. n
  <2>1. CASE i = 0
    BY <2>1, <1>5
  <2>2. CASE i # 0
    <3>1. i \in 1 .. n
      BY <2>2, <1>0
    <3> QED BY <3>1, <1>7
  <2> QED BY <2>1, <2>2
<1>9. ASSUME NEW i \in 1 .. n
      PROVE  /\ In(ChunkType, m.chunks, c[i - 1], c[i]) /\ In(ChunkType, m.chunks, 0, c[i - 1])
             /\ OwnChunks(m, m.files[i]) = Cut(m.chunks, c[i - 1], c[i])
  <2> PICK a : a = c[i - 1]
    OBVIOUS
  <2> PICK b : b = c[i]
    OBVIOUS
  <2> PICK f : f = fs[i]
    OBVIOUS
  <2>1. /\ b = a + f.chunk_count /\ f.chunk_start = a /\ a \in Nat /\ b \in Nat /\ b <= Len(m.chunks)
        /\ f.chunk_count \in Nat /\ f \in EntryType
    BY <1>3, <1>7
  <2>2. f.chunk_start + f.chunk_count <= Len(m.chunks) /\ f.chunk_start + f.chunk_count = b
    BY <2>1
  <2>3. OwnChunks(m, f) = Cut(m.chunks, a, b) /\ In(ChunkType, m.chunks, a, b)
    BY <2>1, <2>2, OwnChunksType
  <2>4. In(ChunkType, m.chunks, 0, a)
    <3>1. a <= b
      BY <2>1
    <3> QED BY <3>1, <2>1, <1>0 DEF In
  <2> QED BY <2>3, <2>4
<1>10. Tiling(m, c)
  BY <1>5, <1>6, <1>7, <1>8, <1>9 DEF Tiling
<1> QED BY <1>10

\* What the chunks of each file hold.
Contents(m) == [i \in DOMAIN m.files |-> Data(OwnChunks(m, m.files[i]))]

LEMMA ContentsFact ==
    ASSUME NEW m, ManifestOk(m), Validate(m)
    PROVE  /\ Contents(m) \in Seq(Seq(Bytes)) /\ Len(Contents(m)) = Len(m.files)
           /\ FilesOf(m) \in Seq(FileType) /\ Len(FilesOf(m)) = Len(m.files)
           /\ \A i \in 1 .. Len(m.files) : /\ FilesOf(m)[i] = [path |-> m.files[i].path, data |-> Contents(m)[i]]
                                           /\ FilesOf(m)[i].data = Contents(m)[i]
                                           /\ Contents(m)[i] = Data(OwnChunks(m, m.files[i]))
           /\ Stream(FilesOf(m)) = FlattenSeq(Contents(m))
<1> PICK n : n = Len(m.files)
  OBVIOUS
<1> PICK ds : ds = Contents(m)
  OBVIOUS
<1>0. m.files \in Seq(EntryType) /\ n \in Nat /\ DOMAIN m.files = 1 .. n
  BY DEF ManifestOk
<1>1. ASSUME NEW i \in 1 .. n
      PROVE  Data(OwnChunks(m, m.files[i])) \in Seq(Bytes) /\ m.files[i].path \in Seq(Parts)
  <2>1. m.files[i] \in EntryType
    BY <1>0
  <2>2. m.files[i].chunk_start + m.files[i].chunk_count <= Len(m.chunks)
    BY <1>0 DEF Validate
  <2>3. OwnChunks(m, m.files[i]) \in Seq(ChunkType)
    BY <2>1, <2>2, OwnChunksType
  <2> QED BY <2>1, <2>3, BlobsType, EntryFields
<1>2. ds = [i \in 1 .. n |-> Data(OwnChunks(m, m.files[i]))]
  BY <1>0 DEF Contents
<1>3. \A i \in 1 .. n : ds[i] = Data(OwnChunks(m, m.files[i])) /\ ds[i] \in Seq(Bytes)
  BY <1>1, <1>2
<1>4. ds \in Seq(Seq(Bytes))
  <2>1. ds = [i \in 1 .. n |-> ds[i]]
    BY ONLY <1>2
  <2>2. \A i \in 1 .. n : ds[i] \in Seq(Bytes)
    BY <1>3
  <2> QED BY ONLY <2>1, <2>2, <1>0
<1>5. Len(ds) = n
  BY <1>0, <1>2
<1> PICK fs : fs = FilesOf(m)
  OBVIOUS
<1>6. fs = [i \in 1 .. n |-> [path |-> m.files[i].path, data |-> ds[i]]]
  BY <1>0, <1>3 DEF FilesOf
<1>7. \A i \in 1 .. n : fs[i] = [path |-> m.files[i].path, data |-> ds[i]] /\ fs[i] \in FileType /\ fs[i].data = ds[i]
  BY <1>1, <1>3, <1>6 DEF FileType
<1>8. fs \in Seq(FileType) /\ Len(fs) = n /\ DOMAIN fs = 1 .. n
  <2>1. fs = [i \in 1 .. n |-> fs[i]] /\ DOMAIN fs = 1 .. n
    BY ONLY <1>6
  <2>2. \A i \in 1 .. n : fs[i] \in FileType
    BY <1>7
  <2>3. fs \in Seq(FileType)
    BY ONLY <2>1, <2>2, <1>0
  <2> QED BY <2>1, <2>3, <1>0
<1>9. [i \in DOMAIN fs |-> fs[i].data] = ds
  <2>1. ds = [i \in 1 .. n |-> ds[i]]
    BY ONLY <1>2
  <2> QED BY <2>1, <1>7, <1>8
<1>10. Stream(fs) = FlattenSeq(ds)
  BY <1>9 DEF Stream
<1> QED BY <1>3, <1>4, <1>5, <1>7, <1>8, <1>10

\* The files of a manifest that Manifest::validate accepts tile its chunks:
\* joined in their order, they are all of its data, once.
THEOREM DataIsStream ==
    ASSUME NEW m, ManifestOk(m), Validate(m)
    PROVE  Data(m.chunks) = Stream(FilesOf(m))
<1> PICK n : n = Len(m.files)
  OBVIOUS
<1> PICK ds : ds = Contents(m)
  OBVIOUS
<1> PICK c : Tiling(m, c)
  BY TiledFiles
<1>0. m.files \in Seq(EntryType) /\ n \in Nat /\ m.chunks \in Seq(ChunkType)
  BY DEF ManifestOk
<1>1. /\ ds \in Seq(Seq(Bytes)) /\ Len(ds) = n /\ Stream(FilesOf(m)) = FlattenSeq(ds)
      /\ \A i \in 1 .. n : ds[i] = Data(OwnChunks(m, m.files[i]))
  BY ContentsFact
<1>2. c[0] = 0 /\ c[n] = Len(m.chunks)
  BY DEF Tiling
<1> DEFINE G == {i \in 0 .. n : FlattenSeq(SubSeq(ds, 1, i)) = Data(Cut(m.chunks, 0, c[i]))}
<1>3. 0 \in G
  <2>1. SubSeq(ds, 1, 0) = <<>>
    BY <1>1
  <2>2. Cut(m.chunks, 0, 0) = <<>>
    BY <1>0 DEF Cut
  <2>3. FlattenSeq(SubSeq(ds, 1, 0)) = Data(Cut(m.chunks, 0, c[0]))
    BY <2>1, <2>2, <1>2, FlatEmpty, DataEmpty
  <2> QED BY <2>3, <1>0
<1>4. ASSUME NEW i \in 0 .. n, i < n, i \in G PROVE i + 1 \in G
  <2> PICK j : j = i + 1
    OBVIOUS
  <2>1. j \in 1 .. n /\ j - 1 = i /\ j \in 0 .. n
    BY <1>0, <1>4
  <2>2. /\ In(ChunkType, m.chunks, 0, c[i]) /\ In(ChunkType, m.chunks, c[i], c[j])
        /\ OwnChunks(m, m.files[j]) = Cut(m.chunks, c[i], c[j])
    BY <2>1 DEF Tiling
  <2>3. Data(Cut(m.chunks, 0, c[j])) = Data(Cut(m.chunks, 0, c[i])) \o Data(Cut(m.chunks, c[i], c[j]))
    BY ONLY <2>2, DataSplit
  <2>4. FlattenSeq(SubSeq(ds, 1, j)) = FlattenSeq(SubSeq(ds, 1, i)) \o ds[j]
    <3>1. j \in 1 .. Len(ds)
      BY <2>1, <1>1
    <3>2. FlattenSeq(SubSeq(ds, 1, j)) = FlattenSeq(SubSeq(ds, 1, j - 1)) \o ds[j]
      BY ONLY <3>1, <1>1, FlatLast
    <3> QED BY <3>2, <2>1
  <2>5. FlattenSeq(SubSeq(ds, 1, i)) = Data(Cut(m.chunks, 0, c[i]))
    BY <1>4
  <2>6. ds[j] = Data(Cut(m.chunks, c[i], c[j]))
    BY <2>1, <2>2, <1>1
  <2>7. FlattenSeq(SubSeq(ds, 1, j)) = Data(Cut(m.chunks, 0, c[j]))
    BY ONLY <2>3, <2>4, <2>5, <2>6
  <2>8. j \in G
    BY <2>1, <2>7
  <2> QED BY <2>8
<1>5. n \in G
  <2>1. n \in 0 .. n
    BY <1>0
  <2> HIDE DEF G
  <2> QED BY <2>1, <1>0, <1>3, <1>4, Upto
<1>6. FlattenSeq(SubSeq(ds, 1, n)) = Data(Cut(m.chunks, 0, Len(m.chunks)))
  BY <1>2, <1>5
<1>7. SubSeq(ds, 1, n) = ds
  BY <1>1
<1>8. Cut(m.chunks, 0, Len(m.chunks)) = m.chunks
  BY <1>0, CutAll
<1> QED BY <1>1, <1>6, <1>7, <1>8

\* When every file has the size that is declared for it.
Sized(m) == \A i \in DOMAIN m.files : Len(FilesOf(m)[i].data) = m.files[i].size

\* The part of the data that Manifest::split_stream cuts out for a file.
LEMMA SplitAt ==
    ASSUME NEW m, ManifestOk(m), Validate(m), Sized(m), NEW i \in 1 .. Len(m.files),
           NEW a, a = Sizes(SubSeq(m.files, 1, i - 1)), NEW data, data = Stream(FilesOf(m))
    PROVE  SubSeq(data, a + 1, a + m.files[i].size) = Contents(m)[i]
<1> PICK n : n = Len(m.files)
  OBVIOUS
<1> PICK ds : ds = Contents(m)
  OBVIOUS
<1> PICK z : z = SizeList(m.files)
  OBVIOUS
<1>0. m.files \in Seq(EntryType) /\ n \in Nat /\ DOMAIN m.files = 1 .. n
  BY DEF ManifestOk
<1>1. /\ ds \in Seq(Seq(Bytes)) /\ Len(ds) = n /\ data = FlattenSeq(ds)
      /\ \A j \in 1 .. n : FilesOf(m)[j].data = ds[j]
  BY ContentsFact
<1>2. \A j \in 1 .. n : Len(ds[j]) = m.files[j].size
  BY <1>0, <1>1 DEF Sized
<1> PICK h : h = i - 1
  OBVIOUS
<1>3. h \in 0 .. n /\ i \in 0 .. n
  BY <1>0
<1>4. /\ z \in Seq(Int) /\ Len(z) = n /\ Sizes(SubSeq(m.files, 1, h)) = Total(SubSeq(z, 1, h))
      /\ \A j \in 1 .. n : z[j] = m.files[j].size
  BY <1>0, <1>3, FieldSums
<1>5. \A k \in 0 .. Len(ds) : Total(SubSeq(z, 1, k)) = Off(ds, k)
  <2>1. Len(z) = Len(ds) /\ \A j \in 1 .. Len(ds) : z[j] = Len(ds[j])
    BY <1>1, <1>2, <1>4
  <2> QED BY <2>1, <1>1, <1>4, OffTotal
<1>6. a = Off(ds, h)
  BY <1>1, <1>3, <1>4, <1>5
<1>7. Off(ds, i) = Off(ds, h) + m.files[i].size
  <2>1. Off(ds, i) = Off(ds, i - 1) + Len(ds[i])
    BY <1>1, OffStep
  <2> QED BY <2>1, <1>2
<1>8. Cut(FlattenSeq(ds), Off(ds, i - 1), Off(ds, i)) = ds[i]
  BY <1>1, FlatAt
<1>9. Cut(data, a, a + m.files[i].size) = ds[i]
  BY <1>1, <1>6, <1>7, <1>8
<1> QED BY <1>9 DEF Cut

LEMMA SizedTotal ==
    ASSUME NEW m, ManifestOk(m), Validate(m), Sized(m)
    PROVE  Len(Stream(FilesOf(m))) = m.total_size
<1> PICK n : n = Len(m.files)
  OBVIOUS
<1> PICK ds : ds = Contents(m)
  OBVIOUS
<1> PICK z : z = SizeList(m.files)
  OBVIOUS
<1>0. m.files \in Seq(EntryType) /\ n \in Nat /\ DOMAIN m.files = 1 .. n
  BY DEF ManifestOk
<1>1. /\ ds \in Seq(Seq(Bytes)) /\ Len(ds) = n /\ Stream(FilesOf(m)) = FlattenSeq(ds)
      /\ \A j \in 1 .. n : FilesOf(m)[j].data = ds[j]
  BY ContentsFact
<1>2. \A j \in 1 .. n : Len(ds[j]) = m.files[j].size
  BY <1>0, <1>1 DEF Sized
<1>3. /\ z \in Seq(Int) /\ Len(z) = n /\ Sizes(m.files) = Total(z)
      /\ \A j \in 1 .. n : z[j] = m.files[j].size
  <2>1. 0 \in 0 .. Len(m.files)
    BY <1>0
  <2> QED BY <2>1, <1>0, FieldSums
<1>4. Total(z) = Len(FlattenSeq(ds))
  <2>1. Len(z) = Len(ds) /\ \A j \in 1 .. Len(ds) : z[j] = Len(ds[j])
    BY <1>1, <1>2, <1>3
  <2> QED BY <2>1, <1>1, <1>3, LenTotal
<1>5. Sizes(m.files) = m.total_size
  BY DEF Validate
<1> QED BY <1>1, <1>3, <1>4, <1>5

-----------------------------------------------------------------------------
(* The Merkle tree: a root names its leaves                                *)
\* A sequence of n elements, of whatever kind.
Row(c, n) == n \in Nat /\ Len(c) = n /\ DOMAIN c = 1 .. n /\ c = [i \in 1 .. n |-> c[i]]

LEMMA HalfFact ==
    ASSUME NEW n \in Nat, NEW p, p = (n + 1) \div 2
    PROVE  p \in Nat /\ (2 * p = n \/ 2 * p = n + 1)
OBVIOUS

\* Level k of the tree over hs, and all of them.
LevelEq(f, hs) ==
    f = [k \in 0 .. Len(hs) |-> IF k = 0 THEN [i \in DOMAIN hs |-> LeafHash(hs[i])] ELSE NextLevel(f[k - 1])]

\* The first levels.
Below(f, hs, m) ==
    /\ DOMAIN f = 0 .. m /\ f = [k \in 0 .. m |-> f[k]]
    /\ f[0] = [i \in DOMAIN hs |-> LeafHash(hs[i])]
    /\ \A k \in 1 .. m : f[k] = NextLevel(f[k - 1])

LEMMA LevelsFact ==
    ASSUME NEW S, NEW hs \in Seq(S)
    PROVE  Below(Levels(hs), hs, Len(hs))
<1> PICK n : n = Len(hs)
  OBVIOUS
<1>0. n \in Nat
  OBVIOUS
<1> DEFINE G == {m \in 0 .. n : \E f : Below(f, hs, m)}
<1>1. 0 \in G
  <2> DEFINE f == [k \in 0 .. 0 |-> [i \in DOMAIN hs |-> LeafHash(hs[i])]]
  <2>1. Below(f, hs, 0)
    <3>1. \A k \in 1 .. 0 : f[k] = NextLevel(f[k - 1])
      OBVIOUS
    <3> QED BY <3>1 DEF Below
  <2> HIDE DEF f
  <2> QED BY <2>1, <1>0
<1>2. ASSUME NEW m \in 0 .. n, m < n, m \in G PROVE m + 1 \in G
  <2>1. PICK g : Below(g, hs, m)
    BY <1>2
  <2> DEFINE f == [k \in 0 .. m + 1 |-> IF k <= m THEN g[k] ELSE NextLevel(g[m])]
  <2>a. f = [k \in 0 .. m + 1 |-> f[k]]
    OBVIOUS
  <2>2. DOMAIN f = 0 .. m + 1 /\ f[m + 1] = NextLevel(g[m]) /\ \A k \in 0 .. m : f[k] = g[k]
    BY <1>2, <1>0
  <2>3. g[0] = [i \in DOMAIN hs |-> LeafHash(hs[i])] /\ \A k \in 1 .. m : g[k] = NextLevel(g[k - 1])
    BY <2>1 DEF Below
  <2> HIDE DEF f
  <2>4. f[0] = [i \in DOMAIN hs |-> LeafHash(hs[i])]
    BY <2>2, <2>3, <1>2
  <2>5. ASSUME NEW k \in 1 .. m + 1 PROVE f[k] = NextLevel(f[k - 1])
    <3> PICK j : j = k - 1
      OBVIOUS
    <3>1. j \in 0 .. m
      BY <1>2
    <3>2. f[j] = g[j]
      BY <3>1, <2>2
    <3>3. CASE k = m + 1
      <4>1. j = m
        BY <3>3, <1>2
      <4> QED BY <4>1, <3>2, <3>3, <2>2
    <3>4. CASE k # m + 1
      <4>1. k \in 1 .. m /\ k \in 0 .. m
        BY <3>4, <1>2
      <4>2. f[k] = g[k] /\ g[k] = NextLevel(g[j])
        BY <4>1, <2>2, <2>3
      <4> QED BY <4>2, <3>2
    <3> QED BY <3>3, <3>4
  <2>6. Below(f, hs, m + 1)
    BY <2>a, <2>2, <2>4, <2>5 DEF Below
  <2>7. m + 1 \in 0 .. n
    BY <1>2
  <2> QED BY <2>6, <2>7
<1>3. PICK f : Below(f, hs, n)
  <2>1. n \in 0 .. n
    BY <1>0
  <2> HIDE DEF G
  <2>2. n \in G
    BY <2>1, <1>0, <1>1, <1>2, Upto
  <2> USE DEF G
  <2> QED BY <2>2
<1>4. LevelEq(f, hs)
  <2>1. /\ f = [k \in 0 .. n |-> f[k]] /\ f[0] = [i \in DOMAIN hs |-> LeafHash(hs[i])]
        /\ \A k \in 1 .. n : f[k] = NextLevel(f[k - 1])
    BY <1>3 DEF Below
  <2>2. \A k \in 0 .. n : f[k] = IF k = 0 THEN [i \in DOMAIN hs |-> LeafHash(hs[i])] ELSE NextLevel(f[k - 1])
    BY <2>1, <1>0
  <2>3. f = [k \in 0 .. n |-> IF k = 0 THEN [i \in DOMAIN hs |-> LeafHash(hs[i])] ELSE NextLevel(f[k - 1])]
    BY ONLY <2>1, <2>2, Zenon
  <2> QED BY <2>3 DEF LevelEq
<1>5. LevelEq(Levels(hs), hs)
  <2>1. Levels(hs) = CHOOSE g : LevelEq(g, hs)
    BY DEF Levels, LevelEq
  <2> QED BY <2>1, <1>4
<1>6. DOMAIN Levels(hs) = 0 .. n /\ Levels(hs) = [k \in 0 .. n |-> Levels(hs)[k]] /\ \A k \in 0 .. n : Levels(hs)[k] =
        IF k = 0 THEN [i \in DOMAIN hs |-> LeafHash(hs[i])] ELSE NextLevel(Levels(hs)[k - 1])
  BY <1>5 DEF LevelEq
<1> QED BY <1>6, <1>0 DEF Below

\* How deep the leftmost leaf below a digest is.
Deep(x, k) ==
    k \in Nat /\ \E g : /\ g[0] = x /\ g[k][1] = "leaf"
                        /\ \A j \in 1 .. k : g[j - 1][1] = "node" /\ g[j] = g[j - 1][2]

LEMMA DeepOnce ==
    ASSUME NEW x, NEW k, NEW j, Deep(x, k), Deep(x, j), j < k
    PROVE  FALSE
<1>0. k \in Nat /\ j \in Nat
  BY DEF Deep
<1>1. PICK g : g[0] = x /\ \A i \in 1 .. k : g[i - 1][1] = "node" /\ g[i] = g[i - 1][2]
  BY DEF Deep
<1>2. PICK h : h[0] = x /\ h[j][1] = "leaf" /\ \A i \in 1 .. j : h[i] = h[i - 1][2]
  BY DEF Deep
<1>3. InStep(g, h, j)
  <2>1. \A i \in 1 .. j : i \in 1 .. k
    BY <1>0
  <2> QED BY <1>1, <1>2, <2>1 DEF InStep
<1>4. g[j] = h[j]
  BY <1>3, <1>0, Alike
<1>5. j + 1 \in 1 .. k /\ (j + 1) - 1 = j
  BY <1>0
<1>6. g[j][1] = "node"
  BY <1>1, <1>5
<1> QED BY <1>2, <1>4, <1>6

LEMMA DeepSame ==
    ASSUME NEW x, NEW k, NEW j, Deep(x, k), Deep(x, j)
    PROVE  k = j
<1>1. k \in Nat /\ j \in Nat
  BY DEF Deep
<1> QED BY <1>1, DeepOnce

LEMMA DeepLeaf ==
    ASSUME NEW h
    PROVE  Deep(LeafHash(h), 0) /\ LeafHash(h)[2] = h /\ LeafHash(h)[1] = "leaf"
<1>1. LeafHash(h)[1] = "leaf" /\ LeafHash(h)[2] = h
  BY DEF LeafHash
<1> DEFINE g == [i \in 0 .. 0 |-> LeafHash(h)]
<1>2. g[0] = LeafHash(h) /\ \A j \in 1 .. 0 : g[j - 1][1] = "node" /\ g[j] = g[j - 1][2]
  OBVIOUS
<1> HIDE DEF g
<1> QED BY <1>1, <1>2 DEF Deep

LEMMA NodeFact ==
    ASSUME NEW l, NEW r
    PROVE  NodeHash(l, r)[1] = "node" /\ NodeHash(l, r)[2] = l /\ NodeHash(l, r)[3] = r
BY DEF NodeHash

LEMMA DeepNode ==
    ASSUME NEW l, NEW r, NEW k, Deep(l, k)
    PROVE  Deep(NodeHash(l, r), k + 1)
<1>0. k \in Nat
  BY DEF Deep
<1>1. PICK g : g[0] = l /\ g[k][1] = "leaf" /\ \A j \in 1 .. k : g[j - 1][1] = "node" /\ g[j] = g[j - 1][2]
  BY DEF Deep
<1> PICK x : x = NodeHash(l, r)
  OBVIOUS
<1> DEFINE f == [j \in 0 .. k + 1 |-> IF j = 0 THEN x ELSE g[j - 1]]
<1>2. f[0] = x /\ \A j \in 1 .. k + 1 : f[j] = g[j - 1]
  BY <1>0
<1> HIDE DEF f
<1>3. f[k + 1] = g[k]
  <2>1. k + 1 \in 1 .. k + 1 /\ (k + 1) - 1 = k
    BY <1>0
  <2> QED BY <2>1, <1>2
<1>4. ASSUME NEW j \in 1 .. k + 1 PROVE f[j - 1][1] = "node" /\ f[j] = f[j - 1][2]
  <2> PICK i : i = j - 1
    OBVIOUS
  <2>1. f[j] = g[i]
    BY <1>2
  <2>2. CASE i = 0
    <3>1. x[1] = "node" /\ x[2] = l
      BY NodeFact
    <3> QED BY <3>1, <2>1, <2>2, <1>1, <1>2
  <2>3. CASE i # 0
    <3>1. i \in 1 .. k /\ i \in 1 .. k + 1
      BY <2>3, <1>0
    <3>2. f[i] = g[i - 1] /\ g[i - 1][1] = "node" /\ g[i] = g[i - 1][2]
      BY <3>1, <1>1, <1>2
    <3> QED BY <3>2, <2>1
  <2> QED BY <2>2, <2>3
<1>5. k + 1 \in Nat
  BY <1>0
<1> QED BY <1>1, <1>2, <1>3, <1>4, <1>5 DEF Deep

LEMMA NodeSame ==
    ASSUME NEW l, NEW r, NEW x, NEW y, NodeHash(l, r) = NodeHash(x, y)
    PROVE  l = x /\ r = y
<1> PICK u : u = NodeHash(l, r)
  OBVIOUS
<1>1. u[2] = l /\ u[3] = r
  BY NodeFact
<1>2. u = NodeHash(x, y)
  OBVIOUS
<1>3. u[2] = x /\ u[3] = y
  BY <1>2, NodeFact
<1> QED BY ONLY <1>1, <1>3

\* A level and the one above it.
Above(u, c, n, p) ==
    /\ p \in Nat /\ (2 * p = n \/ 2 * p = n + 1) /\ Row(u, p)
    /\ \A i \in 1 .. p : /\ 2 * i <= n => u[i] = NodeHash(c[2 * i - 1], c[2 * i])
                         /\ ~(2 * i <= n) => u[i] = c[2 * i - 1]

LEMMA NextFact ==
    ASSUME NEW c, NEW n, Row(c, n), NEW p, p = (n + 1) \div 2
    PROVE  Above(NextLevel(c), c, n, p)
<1>0. n \in Nat /\ Len(c) = n
  BY DEF Row
<1> PICK u : u = NextLevel(c)
  OBVIOUS
<1>1. p \in Nat /\ (2 * p = n \/ 2 * p = n + 1)
  BY <1>0, HalfFact
<1>2. u = [i \in 1 .. p |-> IF 2 * i <= n THEN NodeHash(c[2 * i - 1], c[2 * i]) ELSE c[2 * i - 1]]
  BY <1>0 DEF NextLevel
<1>3. Len(u) = p /\ DOMAIN u = 1 .. p
  BY <1>1, <1>2
<1>4. \A i \in 1 .. p : u[i] = IF 2 * i <= n THEN NodeHash(c[2 * i - 1], c[2 * i]) ELSE c[2 * i - 1]
  BY <1>2
<1>5. u = [i \in 1 .. p |-> u[i]]
  BY <1>2
<1>6. Row(u, p)
  BY <1>1, <1>3, <1>5 DEF Row
<1> QED BY <1>1, <1>4, <1>6 DEF Above

\* Every digest of a level is the root of a full tree, but the last may have
\* been carried up from below.
LevelOk(c, n, k) ==
    /\ Row(c, n) /\ n # 0 /\ k \in Nat
    /\ \A i \in 1 .. n - 1 : Deep(c[i], k)
    /\ \E j \in 0 .. k : Deep(c[n], j)

LEMMA LevelUp ==
    ASSUME NEW c, NEW n, NEW k, LevelOk(c, n, k), NEW p, p = (n + 1) \div 2
    PROVE  /\ LevelOk(NextLevel(c), p, k + 1)
           /\ n > 1 => Deep(NextLevel(c)[1], k + 1)
<1> PICK u : u = NextLevel(c)
  OBVIOUS
<1>0. /\ Row(c, n) /\ n \in Nat /\ n # 0 /\ k \in Nat
      /\ \A i \in 1 .. n - 1 : Deep(c[i], k)
  BY DEF LevelOk, Row
<1>1. PICK j \in 0 .. k : Deep(c[n], j)
  BY DEF LevelOk
<1>2. Above(u, c, n, p)
  BY <1>0, NextFact
<1>3. /\ p \in Nat /\ (2 * p = n \/ 2 * p = n + 1) /\ Row(u, p)
      /\ \A i \in 1 .. p : /\ 2 * i <= n => u[i] = NodeHash(c[2 * i - 1], c[2 * i])
                           /\ ~(2 * i <= n) => u[i] = c[2 * i - 1]
  BY <1>2 DEF Above
<1>4. ASSUME NEW i \in 1 .. p, 2 * i <= n PROVE Deep(u[i], k + 1)
  <2>1. 2 * i - 1 \in 1 .. n - 1
    BY <1>0, <1>3, <1>4
  <2>2. Deep(c[2 * i - 1], k)
    BY <2>1, <1>0
  <2>3. u[i] = NodeHash(c[2 * i - 1], c[2 * i])
    BY <1>3, <1>4
  <2> QED BY <2>2, <2>3, DeepNode
<1>5. \A i \in 1 .. p - 1 : Deep(u[i], k + 1)
  <2> TAKE i \in 1 .. p - 1
  <2>1. i \in 1 .. p /\ 2 * i <= n
    BY <1>0, <1>3
  <2> QED BY <2>1, <1>4
<1>6. \E h \in 0 .. k + 1 : Deep(u[p], h)
  <2>0. p \in 1 .. p /\ p # 0
    BY <1>0, <1>3
  <2>1. CASE 2 * p <= n
    <3>1. Deep(u[p], k + 1)
      BY <2>0, <2>1, <1>4
    <3>2. k + 1 \in 0 .. k + 1
      BY <1>0
    <3> QED BY <3>1, <3>2
  <2>2. CASE ~(2 * p <= n)
    <3>1. 2 * p - 1 = n
      BY <2>2, <1>0, <1>3
    <3>2. u[p] = c[n]
      BY <2>0, <2>2, <3>1, <1>3
    <3>3. j \in 0 .. k + 1
      BY <1>0
    <3> QED BY <3>2, <3>3, <1>1
  <2> QED BY <2>1, <2>2
<1>7. n > 1 => Deep(u[1], k + 1)
  <2> HAVE n > 1
  <2>1. 1 \in 1 .. p /\ 2 * 1 <= n
    BY <1>0, <1>3
  <2> QED BY <2>1, <1>4
<1>8. p # 0 /\ k + 1 \in Nat
  BY <1>0, <1>3
<1> QED BY <1>3, <1>5, <1>6, <1>7, <1>8 DEF LevelOk

\* The odd one that was carried is not the parent of a pair.
LEMMA SameLength ==
    ASSUME NEW a, NEW na, NEW b, NEW nb, NEW k, LevelOk(a, na, k), LevelOk(b, nb, k),
           NextLevel(a) = NextLevel(b), na < nb
    PROVE  FALSE
<1>0. Row(a, na) /\ Row(b, nb) /\ na \in Nat /\ nb \in Nat /\ na # 0 /\ k \in Nat
  BY DEF LevelOk, Row
<1> PICK u : u = NextLevel(a)
  OBVIOUS
<1> PICK p : p = (na + 1) \div 2
  OBVIOUS
<1> PICK q : q = (nb + 1) \div 2
  OBVIOUS
<1>1. Above(u, a, na, p) /\ Above(u, b, nb, q)
  BY <1>0, NextFact
<1>2. p \in Nat /\ q \in Nat /\ Len(u) = p /\ Len(u) = q
  BY <1>1 DEF Above, Row
<1>3. 2 * p = nb /\ 2 * p - 1 = na /\ p \in 1 .. p /\ p = q
  <2>1. (2 * p = na \/ 2 * p = na + 1) /\ (2 * q = nb \/ 2 * q = nb + 1)
    BY <1>1 DEF Above
  <2> QED BY <2>1, <1>0, <1>2
<1>4. u[p] = a[na]
  <2>1. ~(2 * p <= na)
    BY <1>0, <1>2, <1>3
  <2>2. u[p] = a[2 * p - 1]
    BY <2>1, <1>1, <1>3 DEF Above
  <2> QED BY <2>2, <1>3
<1>5. u[p] = NodeHash(b[na], b[nb])
  <2>1. 2 * p <= nb
    BY <1>0, <1>3
  <2>2. u[p] = NodeHash(b[2 * p - 1], b[2 * p])
    BY <2>1, <1>1, <1>3 DEF Above
  <2> QED BY <2>2, <1>3
<1>6. Deep(b[na], k)
  <2>1. na \in 1 .. nb - 1
    BY <1>0
  <2> QED BY <2>1 DEF LevelOk
<1>7. PICK j \in 0 .. k : Deep(a[na], j)
  BY DEF LevelOk
<1>8. Deep(a[na], k + 1)
  BY <1>4, <1>5, <1>6, DeepNode
<1>9. j = k + 1
  BY <1>7, <1>8, DeepSame
<1> QED BY <1>9, <1>0

LEMMA NextInjective ==
    ASSUME NEW a, NEW na, NEW b, NEW nb, NEW k, LevelOk(a, na, k), LevelOk(b, nb, k),
           NextLevel(a) = NextLevel(b)
    PROVE  a = b
<1>0. Row(a, na) /\ Row(b, nb) /\ na \in Nat /\ nb \in Nat
  BY DEF LevelOk, Row
<1>1. na = nb
  BY <1>0, SameLength
<1> PICK u : u = NextLevel(a)
  OBVIOUS
<1> PICK p : p = (na + 1) \div 2
  OBVIOUS
<1>2. Above(u, a, na, p) /\ Above(u, b, na, p)
  BY <1>0, <1>1, NextFact
<1>3. p \in Nat /\ (2 * p = na \/ 2 * p = na + 1)
  BY <1>2 DEF Above
<1>4. \A i \in 1 .. na : a[i] = b[i]
  <2> TAKE i \in 1 .. na
  <2> PICK j : j = (i + 1) \div 2
    OBVIOUS
  <2>1. j \in 1 .. p /\ (i = 2 * j - 1 \/ i = 2 * j)
    <3>1. j \in Nat /\ (2 * j = i \/ 2 * j = i + 1)
      BY <1>0, HalfFact
    <3> QED BY <3>1, <1>0, <1>3
  <2>2. CASE 2 * j <= na
    <3>1. u[j] = NodeHash(a[2 * j - 1], a[2 * j]) /\ u[j] = NodeHash(b[2 * j - 1], b[2 * j])
      BY <2>1, <2>2, <1>2 DEF Above
    <3>a. NodeHash(a[2 * j - 1], a[2 * j]) = NodeHash(b[2 * j - 1], b[2 * j])
      BY ONLY <3>1, Zenon
    <3>2. a[2 * j - 1] = b[2 * j - 1] /\ a[2 * j] = b[2 * j]
      BY ONLY <3>a, NodeSame
    <3> QED BY <3>2, <2>1
  <2>3. CASE ~(2 * j <= na)
    <3>1. u[j] = a[2 * j - 1] /\ u[j] = b[2 * j - 1]
      BY <2>1, <2>3, <1>2 DEF Above
    <3>2. i = 2 * j - 1
      BY <2>1, <2>3, <1>0
    <3> QED BY <3>1, <3>2
  <2> QED BY <2>2, <2>3
<1>5. a = [i \in 1 .. na |-> a[i]] /\ b = [i \in 1 .. na |-> b[i]]
  BY <1>0, <1>1 DEF Row
<1> QED BY ONLY <1>4, <1>5, Zenon

\* The levels of a tree of n leaves, the one at height h being the last.
Tree(f, n, h) ==
    /\ n \in Nat /\ h \in 0 .. n /\ Len(f[h]) = 1
    /\ \A k \in 0 .. n : LevelOk(f[k], Len(f[k]), k)
    /\ \A k \in 1 .. n : f[k] = NextLevel(f[k - 1])
    /\ \A k \in 0 .. h - 1 : Len(f[k]) > 1

LEMMA LeafRow ==
    ASSUME NEW S, NEW hs \in Seq(S), hs # <<>>, NEW c, c = [i \in DOMAIN hs |-> LeafHash(hs[i])]
    PROVE  LevelOk(c, Len(hs), 0) /\ Len(c) = Len(hs)
<1> PICK n : n = Len(hs)
  OBVIOUS
<1>0. n \in Nat /\ DOMAIN hs = 1 .. n /\ n # 0
  OBVIOUS
<1>1. c = [i \in 1 .. n |-> LeafHash(hs[i])] /\ DOMAIN c = 1 .. n
  BY <1>0
<1>2. Len(c) = n /\ \A i \in 1 .. n : c[i] = LeafHash(hs[i])
  BY <1>0, <1>1
<1>3. c = [i \in 1 .. n |-> c[i]]
  BY <1>1, <1>2
<1>4. \A i \in 1 .. n : Deep(c[i], 0)
  BY <1>2, DeepLeaf
<1>5. n \in 1 .. n /\ 0 \in 0 .. 0 /\ \A i \in 1 .. n - 1 : i \in 1 .. n
  BY <1>0
<1>6. Row(c, n)
  BY <1>0, <1>1, <1>2, <1>3 DEF Row
<1> QED BY <1>0, <1>2, <1>4, <1>5, <1>6 DEF LevelOk

\* Every level but one of a single digest is shorter than the one below.
LEMMA Shrink ==
    ASSUME NEW n \in Nat, NEW k \in Nat, NEW c \in Nat, NEW p, p = (c + 1) \div 2,
           c <= 1 \/ c + k <= n
    PROVE  p <= 1 \/ p + (k + 1) <= n
<1>1. p \in Nat /\ (2 * p = c \/ 2 * p = c + 1)
  BY HalfFact
<1> QED BY <1>1

LEMMA TreeFact ==
    ASSUME NEW S, NEW hs \in Seq(S), hs # <<>>
    PROVE  Tree(Levels(hs), Len(hs), Height(hs))
<1> PICK n : n = Len(hs)
  OBVIOUS
<1> PICK f : f = Levels(hs)
  OBVIOUS
<1>0. n \in Nat /\ n # 0
  OBVIOUS
<1>1. Below(f, hs, n)
  BY LevelsFact
<1>2. f[0] = [i \in DOMAIN hs |-> LeafHash(hs[i])] /\ \A k \in 1 .. n : f[k] = NextLevel(f[k - 1])
  BY <1>1 DEF Below
<1> DEFINE G == {k \in 0 .. n : LevelOk(f[k], Len(f[k]), k) /\ (Len(f[k]) <= 1 \/ Len(f[k]) + k <= n)}
<1>3. 0 \in G
  <2>1. LevelOk(f[0], n, 0) /\ Len(f[0]) = n
    BY <1>2, LeafRow
  <2>2. LevelOk(f[0], Len(f[0]), 0)
    BY <2>1
  <2>3. Len(f[0]) + 0 <= n /\ 0 \in 0 .. n
    BY <2>1, <1>0
  <2> QED BY <2>2, <2>3
<1>4. ASSUME NEW k \in 0 .. n, k < n, k \in G PROVE k + 1 \in G
  <2> PICK j : j = k + 1
    OBVIOUS
  <2>0. j \in 1 .. n /\ j - 1 = k /\ j \in 0 .. n /\ k \in Nat
    BY <1>4
  <2> PICK c : c = Len(f[k])
    OBVIOUS
  <2> PICK p : p = (c + 1) \div 2
    OBVIOUS
  <2>1. LevelOk(f[k], c, k) /\ (c <= 1 \/ c + k <= n)
    BY <1>4
  <2>2. f[j] = NextLevel(f[k])
    BY <2>0, <1>2
  <2>3. LevelOk(f[j], p, k + 1)
    BY <2>1, <2>2, LevelUp
  <2>4. c \in Nat
    BY <2>1 DEF LevelOk, Row
  <2>5. Len(f[j]) = p
    BY <2>3 DEF LevelOk, Row
  <2>6. LevelOk(f[j], Len(f[j]), j)
    BY ONLY <2>3, <2>5, j = k + 1
  <2>7. p <= 1 \/ p + (k + 1) <= n
    BY ONLY <2>0, <2>1, <2>4, <1>0, p = (c + 1) \div 2, Shrink
  <2>8. Len(f[j]) <= 1 \/ Len(f[j]) + j <= n
    BY ONLY <2>5, <2>7, j = k + 1
  <2>9. j \in G
    BY <2>0, <2>6, <2>8
  <2> QED BY <2>9
<1>5. \A k \in 0 .. n : k \in G
  <2> HIDE DEF G
  <2> QED BY <1>0, <1>3, <1>4, Upto
<1>6. \A k \in 0 .. n : LevelOk(f[k], Len(f[k]), k) /\ (Len(f[k]) <= 1 \/ Len(f[k]) + k <= n)
  BY <1>5
<1>7. \A k \in 0 .. n : Len(f[k]) \in Nat /\ Len(f[k]) # 0
  BY <1>6 DEF LevelOk, Row
<1> PICK B : B = {k \in 0 .. n : Len(f[k]) <= 1}
  OBVIOUS
<1> PICK h : h = Height(hs)
  OBVIOUS
<1>8. h \in B /\ \A k \in B : h <= k
  <2>1. n \in B
    <3>1. n \in 0 .. n
      BY <1>0
    <3>2. Len(f[n]) <= 1
      BY <3>1, <1>0, <1>6, <1>7
    <3> QED BY <3>1, <3>2
  <2>2. B \in SUBSET Nat /\ B # {}
    BY <2>1
  <2>3. \E x \in B : \A y \in B : x <= y
    BY ONLY <2>2, LeastOf
  <2>4. h = Min(B)
    BY DEF Height
  <2> QED BY <2>3, <2>4 DEF Min
<1>9. h \in 0 .. n /\ Len(f[h]) = 1
  <2>1. h \in 0 .. n /\ Len(f[h]) <= 1
    BY <1>8
  <2>2. Len(f[h]) \in Nat /\ Len(f[h]) # 0
    BY <2>1, <1>7
  <2> PICK l : l = Len(f[h])
    OBVIOUS
  <2>a. l \in Nat /\ l # 0 /\ l <= 1
    BY ONLY <2>1, <2>2, l = Len(f[h]), Zenon
  <2>3. l = 1
    BY ONLY <2>a
  <2> QED BY <2>1, <2>3
<1>10. \A k \in 0 .. h - 1 : Len(f[k]) > 1
  <2> TAKE k \in 0 .. h - 1
  <2>1. k \in 0 .. n /\ ~(h <= k)
    BY <1>0, <1>9
  <2>2. k \notin B
    BY <2>1, <1>8
  <2> QED BY <2>1, <2>2, <1>7
<1> QED BY <1>0, <1>2, <1>6, <1>9, <1>10 DEF Tree

\* The root is the one digest of the last level, and full on its left.
LEMMA RootFact ==
    ASSUME NEW S, NEW hs \in Seq(S), hs # <<>>, NEW f, f = Levels(hs), NEW h, h = Height(hs)
    PROVE  MerkleRoot(hs) = f[h][1] /\ Deep(MerkleRoot(hs), h)
<1>1. Tree(f, Len(hs), h)
  BY TreeFact
<1> PICK n : n = Len(hs)
  OBVIOUS
<1>2. /\ n \in Nat /\ h \in 0 .. n /\ Len(f[h]) = 1
      /\ \A k \in 0 .. n : LevelOk(f[k], Len(f[k]), k)
      /\ \A k \in 1 .. n : f[k] = NextLevel(f[k - 1])
      /\ \A k \in 0 .. h - 1 : Len(f[k]) > 1
  BY <1>1 DEF Tree
<1>3. MerkleRoot(hs) = f[h][1]
  BY DEF MerkleRoot
<1>4. CASE h = 0
  <2>1. LevelOk(f[h], 1, 0)
    BY <1>2, <1>4
  <2>2. Deep(f[h][1], 0)
    BY <2>1 DEF LevelOk
  <2> QED BY <2>2, <1>3, <1>4
<1>5. CASE h # 0
  <2> PICK k : k = h - 1
    OBVIOUS
  <2>1. k \in 0 .. n /\ k \in 0 .. h - 1 /\ h = k + 1 /\ h \in 1 .. n
    BY <1>2, <1>5
  <2>2. LevelOk(f[k], Len(f[k]), k) /\ Len(f[k]) > 1 /\ f[h] = NextLevel(f[k])
    BY <2>1, <1>2
  <2>3. Deep(NextLevel(f[k])[1], k + 1)
    BY <2>2, LevelUp
  <2> QED BY <2>1, <2>2, <2>3, <1>3
<1> QED BY <1>4, <1>5, <1>3

LEMMA RootTag ==
    ASSUME NEW S, NEW hs \in Seq(S), hs # <<>>
    PROVE  MerkleRoot(hs) # EmptyRoot
<1> PICK x : x = MerkleRoot(hs)
  OBVIOUS
<1>1. PICK k : Deep(x, k)
  BY RootFact
<1>2. x[1] = "leaf" \/ x[1] = "node"
  <2>1. PICK g : g[0] = x /\ g[k][1] = "leaf" /\ \A j \in 1 .. k : g[j - 1][1] = "node" /\ g[j] = g[j - 1][2]
    BY <1>1 DEF Deep
  <2>2. k \in Nat
    BY <1>1 DEF Deep
  <2>3. CASE k = 0
    BY <2>1, <2>3
  <2>4. CASE k # 0
    <3>1. 1 \in 1 .. k /\ 1 - 1 = 0
      BY <2>2, <2>4
    <3>2. g[1 - 1][1] = "node"
      BY <3>1, <2>1
    <3> QED BY <3>1, <3>2, <2>1
  <2> QED BY <2>3, <2>4
<1>3. EmptyRoot[1] = "empty"
  BY DEF EmptyRoot
<1> QED BY <1>2, <1>3

\* A root names the digests below it, in their order and however many they
\* are: merkle_root, which tags leaves and nodes and carries an odd node up,
\* gives no two lists of digests the same root (hashes that never collide).
THEOREM MerkleInjective ==
    ASSUME NEW S, NEW a \in Seq(S), NEW b \in Seq(S), MerkleRoot(a) = MerkleRoot(b)
    PROVE  a = b
<1>1. CASE a = <<>> \/ b = <<>>
  <2>1. MerkleRoot(<<>>) = EmptyRoot
    BY DEF MerkleRoot
  <2>2. a = <<>> /\ b = <<>>
    BY <1>1, <2>1, RootTag
  <2> QED BY <2>2
<1>2. CASE a # <<>> /\ b # <<>>
  <2> PICK f : f = Levels(a)
    OBVIOUS
  <2> PICK g : g = Levels(b)
    OBVIOUS
  <2> PICK h : h = Height(a)
    OBVIOUS
  <2>1. Height(b) = h
    BY <1>2, RootFact, DeepSame
  <2>2. Tree(f, Len(a), h) /\ Tree(g, Len(b), h)
    BY <1>2, <2>1, TreeFact
  <2>3. f[h][1] = g[h][1]
    BY <1>2, <2>1, RootFact
  <2>4. h \in Nat /\ h <= Len(a) /\ h <= Len(b) /\ Len(f[h]) = 1 /\ Len(g[h]) = 1
    BY <2>2 DEF Tree
  <2>5. \A k \in 0 .. h : LevelOk(f[k], Len(f[k]), k) /\ LevelOk(g[k], Len(g[k]), k)
    <3>1. \A k \in 0 .. h : k \in 0 .. Len(a) /\ k \in 0 .. Len(b)
      BY <2>4
    <3> QED BY <3>1, <2>2 DEF Tree
  <2>6. \A k \in 1 .. h : f[k] = NextLevel(f[k - 1]) /\ g[k] = NextLevel(g[k - 1])
    <3>1. \A k \in 1 .. h : k \in 1 .. Len(a) /\ k \in 1 .. Len(b)
      BY <2>4
    <3> QED BY <3>1, <2>2 DEF Tree
  <2> DEFINE G == {i \in 0 .. h : f[h - i] = g[h - i]}
  <2>7. 0 \in G
    <3>1. h \in 0 .. h /\ h - 0 = h
      BY <2>4
    <3>2. Row(f[h], 1) /\ Row(g[h], 1)
      BY <3>1, <2>4, <2>5 DEF LevelOk
    <3>3. f[h] = [i \in 1 .. 1 |-> f[h][i]] /\ g[h] = [i \in 1 .. 1 |-> g[h][i]]
      BY <3>2 DEF Row
    <3>4. \A i \in 1 .. 1 : f[h][i] = g[h][i]
      BY <2>3
    <3>5. f[h] = g[h]
      BY ONLY <3>3, <3>4, Zenon
    <3> QED BY <3>1, <3>5, <2>4
  <2>8. ASSUME NEW i \in 0 .. h, i < h, i \in G PROVE i + 1 \in G
    <3> PICK k : k = h - i
      OBVIOUS
    <3> PICK j : j = k - 1
      OBVIOUS
    <3>1. k \in 1 .. h /\ j \in 0 .. h /\ h - (i + 1) = j
      BY <2>4, <2>8
    <3>2. f[k] = g[k]
      BY <2>8
    <3>3. f[k] = NextLevel(f[j]) /\ g[k] = NextLevel(g[j])
      BY <3>1, <2>6
    <3>4. LevelOk(f[j], Len(f[j]), j) /\ LevelOk(g[j], Len(g[j]), j)
      BY <3>1, <2>5
    <3>5. f[j] = g[j]
      BY ONLY <3>2, <3>3, <3>4, NextInjective
    <3> QED BY <3>1, <3>5, <2>4, <2>8
  <2>9. \A i \in 0 .. h : i \in G
    <3> HIDE DEF G
    <3> QED BY <2>4, <2>7, <2>8, Upto
  <2>10. f[0] = g[0]
    <3>1. h \in 0 .. h /\ h - h = 0
      BY <2>4
    <3>2. f[h - h] = g[h - h]
      BY <3>1, <2>9
    <3> QED BY <3>1, <3>2
  <2>11. f[0] = [i \in DOMAIN a |-> LeafHash(a[i])] /\ g[0] = [i \in DOMAIN b |-> LeafHash(b[i])]
    BY LevelsFact DEF Below
  <2>12. DOMAIN a = DOMAIN b
    BY <2>10, <2>11
  <2>13. \A i \in DOMAIN a : a[i] = b[i]
    <3> TAKE i \in DOMAIN a
    <3>1. f[0][i] = LeafHash(a[i])
      BY <2>11
    <3>2. g[0][i] = LeafHash(b[i])
      BY <2>11, <2>12
    <3>3. LeafHash(a[i])[2] = a[i] /\ LeafHash(b[i])[2] = b[i]
      BY DeepLeaf
    <3> QED BY <3>1, <3>2, <3>3, <2>10
  <2> QED BY <2>12, <2>13
<1> QED BY <1>1, <1>2

LEMMA HashesType ==
    ASSUME NEW m, m.chunks \in Seq(ChunkType)
    PROVE  /\ Hashes(m) \in Seq(Digests) /\ DOMAIN Hashes(m) = DOMAIN m.chunks
           /\ \A i \in DOMAIN m.chunks : Hashes(m)[i] = m.chunks[i].hash
<1> PICK cs : cs = m.chunks
  OBVIOUS
<1>1. Len(cs) \in Nat /\ DOMAIN cs = 1 .. Len(cs) /\ \A i \in 1 .. Len(cs) : cs[i] \in ChunkType
  OBVIOUS
<1>2. \A i \in 1 .. Len(cs) : cs[i].hash \in Digests
  BY <1>1, ChunkFields
<1> PICK h : h = Hashes(m)
  OBVIOUS
<1>3. h = [i \in 1 .. Len(cs) |-> cs[i].hash]
  BY <1>1 DEF Hashes
<1>4. h \in Seq(Digests)
  BY ONLY <1>1, <1>2, <1>3
<1> QED BY <1>1, <1>3, <1>4

\* Manifests with the same digests have the same data.
LEMMA SameHashesSameData ==
    ASSUME NEW m, NEW w, m.chunks \in Seq(ChunkType), w.chunks \in Seq(ChunkType), Hashes(m) = Hashes(w)
    PROVE  Data(m.chunks) = Data(w.chunks)
<1>1. DOMAIN m.chunks = DOMAIN w.chunks /\ \A i \in DOMAIN m.chunks : m.chunks[i].hash = w.chunks[i].hash
  BY HashesType
<1>2. [k \in DOMAIN m.chunks |-> BytesOf(m.chunks[k].hash)] = [k \in DOMAIN w.chunks |-> BytesOf(w.chunks[k].hash)]
  BY <1>1
<1> QED BY <1>2 DEF Data

-----------------------------------------------------------------------------
(* The Merkle tree: the branch from a leaf leads to the root               *)
Join(x, s) == IF s.left THEN NodeHash(s.hash, x) ELSE NodeHash(x, s.hash)
ClimbEq(f, hash, proof) ==
    f = [k \in 0 .. Len(proof) |-> IF k = 0 THEN LeafHash(hash)
                                   ELSE IF proof[k].left THEN NodeHash(proof[k].hash, f[k - 1])
                                                         ELSE NodeHash(f[k - 1], proof[k].hash)]
ClimbFun(hash, proof) == CHOOSE f : ClimbEq(f, hash, proof)
Climbs(f, hash, proof, m) ==
    /\ DOMAIN f = 0 .. m /\ f = [k \in 0 .. m |-> f[k]]
    /\ f[0] = LeafHash(hash)
    /\ \A k \in 1 .. m : f[k] = Join(f[k - 1], proof[k])

LEMMA ClimbRec ==
    ASSUME NEW n \in Nat, NEW hash, NEW proof
    PROVE  \E f : Climbs(f, hash, proof, n)
<1> DEFINE G == {m \in 0 .. n : \E f : Climbs(f, hash, proof, m)}
<1>1. 0 \in G
  <2> DEFINE f == [k \in 0 .. 0 |-> LeafHash(hash)]
  <2>1. Climbs(f, hash, proof, 0)
    <3>1. \A k \in 1 .. 0 : f[k] = Join(f[k - 1], proof[k])
      OBVIOUS
    <3> QED BY <3>1 DEF Climbs
  <2> HIDE DEF f
  <2> QED BY <2>1
<1>2. ASSUME NEW m \in 0 .. n, m < n, m \in G PROVE m + 1 \in G
  <2>1. PICK g : Climbs(g, hash, proof, m)
    BY <1>2
  <2> PICK top : top = Join(g[m], proof[m + 1])
    OBVIOUS
  <2> DEFINE f == [k \in 0 .. m + 1 |-> IF k <= m THEN g[k] ELSE top]
  <2>a. f = [k \in 0 .. m + 1 |-> f[k]]
    OBVIOUS
  <2>2. DOMAIN f = 0 .. m + 1 /\ f[m + 1] = top /\ \A k \in 0 .. m : f[k] = g[k]
    BY <1>2
  <2>3. g[0] = LeafHash(hash) /\ \A k \in 1 .. m : g[k] = Join(g[k - 1], proof[k])
    BY <2>1 DEF Climbs
  <2> HIDE DEF f
  <2>4. f[0] = LeafHash(hash)
    BY <2>2, <2>3, <1>2
  <2>5. ASSUME NEW k \in 1 .. m + 1 PROVE f[k] = Join(f[k - 1], proof[k])
    <3> PICK j : j = k - 1
      OBVIOUS
    <3>1. j \in 0 .. m
      BY <1>2
    <3>2. f[j] = g[j]
      BY <3>1, <2>2
    <3>3. CASE k = m + 1
      <4>1. j = m
        BY <3>3, <1>2
      <4> QED BY <4>1, <3>2, <3>3, <2>2
    <3>4. CASE k # m + 1
      <4>1. k \in 1 .. m /\ k \in 0 .. m
        BY <3>4, <1>2
      <4>2. f[k] = g[k] /\ g[k] = Join(g[j], proof[k])
        BY <4>1, <2>2, <2>3
      <4> QED BY <4>2, <3>2
    <3> QED BY <3>3, <3>4
  <2>6. Climbs(f, hash, proof, m + 1)
    BY <2>a, <2>2, <2>4, <2>5 DEF Climbs
  <2>7. m + 1 \in 0 .. n
    BY <1>2
  <2> QED BY <2>6, <2>7
<1> HIDE DEF G
<1>3. n \in G
  <2>1. n \in 0 .. n
    OBVIOUS
  <2> QED BY <2>1, <1>1, <1>2, Upto
<1> QED BY <1>3 DEF G

LEMMA ClimbFact ==
    ASSUME NEW S, NEW proof \in Seq(S), NEW hash
    PROVE  /\ Climbs(ClimbFun(hash, proof), hash, proof, Len(proof))
           /\ Climb(hash, proof) = ClimbFun(hash, proof)[Len(proof)]
<1> PICK n : n = Len(proof)
  OBVIOUS
<1>0. n \in Nat
  OBVIOUS
<1>1. PICK f : Climbs(f, hash, proof, n)
  BY <1>0, ClimbRec
<1>2. ClimbEq(f, hash, proof)
  <2>1. /\ f = [k \in 0 .. n |-> f[k]] /\ f[0] = LeafHash(hash)
        /\ \A k \in 1 .. n : f[k] = Join(f[k - 1], proof[k])
    BY <1>1 DEF Climbs
  <2>2. \A k \in 0 .. n : f[k] = IF k = 0 THEN LeafHash(hash)
                                 ELSE IF proof[k].left THEN NodeHash(proof[k].hash, f[k - 1])
                                                       ELSE NodeHash(f[k - 1], proof[k].hash)
    <3> TAKE k \in 0 .. n
    <3>1. CASE k = 0
      BY <3>1, <2>1
    <3>2. CASE k # 0
      <4>1. k \in 1 .. n
        BY <3>2, <1>0
      <4>2. f[k] = Join(f[k - 1], proof[k])
        BY ONLY <4>1, <2>1
      <4> QED BY ONLY <4>2, <3>2, Zenon DEF Join
    <3> QED BY <3>1, <3>2
  <2>3. f = [k \in 0 .. n |-> IF k = 0 THEN LeafHash(hash)
                              ELSE IF proof[k].left THEN NodeHash(proof[k].hash, f[k - 1])
                                                    ELSE NodeHash(f[k - 1], proof[k].hash)]
    BY ONLY <2>1, <2>2, Zenon
  <2> QED BY <2>3 DEF ClimbEq
<1> PICK g : g = ClimbFun(hash, proof)
  OBVIOUS
<1>3. ClimbEq(g, hash, proof)
  BY <1>2 DEF ClimbFun
<1>4. DOMAIN g = 0 .. n /\ g = [k \in 0 .. n |-> g[k]] /\ \A k \in 0 .. n : g[k] =
        IF k = 0 THEN LeafHash(hash) ELSE IF proof[k].left THEN NodeHash(proof[k].hash, g[k - 1])
                                                           ELSE NodeHash(g[k - 1], proof[k].hash)
  BY <1>3 DEF ClimbEq
<1>5. Climbs(g, hash, proof, n)
  BY <1>0, <1>4 DEF Climbs, Join
<1>6. Climb(hash, proof) = g[n]
  BY DEF Climb, ClimbFun, ClimbEq
<1> QED BY <1>5, <1>6

LEMMA ClimbEmpty ==
    ASSUME NEW hash
    PROVE  Climb(hash, <<>>) = LeafHash(hash)
<1>1. <<>> \in Seq(Nat) /\ Len(<<>>) = 0
  OBVIOUS
<1> QED BY <1>1, ClimbFact DEF Climbs

LEMMA ClimbMore ==
    ASSUME NEW S, NEW proof \in Seq(S), NEW s \in S, NEW hash
    PROVE  Climb(hash, proof \o <<s>>) = Join(Climb(hash, proof), s)
<1> PICK n : n = Len(proof)
  OBVIOUS
<1> PICK more : more = proof \o <<s>>
  OBVIOUS
<1>1. n \in Nat /\ more \in Seq(S) /\ Len(more) = n + 1 /\ more[n + 1] = s /\ \A k \in 1 .. n : more[k] = proof[k]
  OBVIOUS
<1> PICK f : f = ClimbFun(hash, proof)
  OBVIOUS
<1> PICK g : g = ClimbFun(hash, more)
  OBVIOUS
<1>2. Climbs(f, hash, proof, n) /\ Climb(hash, proof) = f[n]
  BY ClimbFact
<1>3. Climbs(g, hash, more, n + 1) /\ Climb(hash, more) = g[n + 1]
  BY <1>1, ClimbFact
<1>4. f[0] = LeafHash(hash) /\ \A k \in 1 .. n : f[k] = Join(f[k - 1], proof[k])
  BY <1>2 DEF Climbs
<1>5. g[0] = LeafHash(hash) /\ \A k \in 1 .. n + 1 : g[k] = Join(g[k - 1], more[k])
  BY <1>3 DEF Climbs
<1>6. InStep(f, g, n)
  <2>1. \A k \in 1 .. n : k \in 1 .. n + 1
    BY <1>1
  <2> QED BY <2>1, <1>1, <1>4, <1>5 DEF InStep
<1>7. f[n] = g[n]
  <2>1. n \in 0 .. n
    BY <1>1
  <2> QED BY <2>1, <1>1, <1>6, Alike
<1>8. g[n + 1] = Join(g[n], s)
  <2>1. n + 1 \in 1 .. n + 1 /\ (n + 1) - 1 = n
    BY <1>1
  <2> QED BY <2>1, <1>1, <1>5
<1> QED BY <1>2, <1>3, <1>7, <1>8

\* The place of a leaf's ancestor on each level, its sibling, and the step of
\* the proof there.
AtEq(f, h, index) == f = [k \in 0 .. h |-> IF k = 0 THEN index ELSE f[k - 1] \div 2]
AtFun(h, index) == CHOOSE f : AtEq(f, h, index)
Sib(a) == IF a % 2 = 0 THEN a + 1 ELSE a - 1
SibStep(c, a) ==
    IF Sib(a) >= Len(c) THEN <<>> ELSE <<[left |-> Sib(a) < a, hash |-> c[Sib(a) + 1]]>>
Halves(f, h, index) ==
    /\ f[0] = index /\ \A k \in 0 .. h : f[k] \in Nat
    /\ \A k \in 1 .. h : f[k] = f[k - 1] \div 2

LEMMA AtFact ==
    ASSUME NEW h \in Nat, NEW index \in Nat
    PROVE  Halves(AtFun(h, index), h, index)
<1> DEFINE step == [x \in (1 .. h) \X Nat |-> x[2] \div 2]
<1>1. step \in [(1 .. h) \X Nat -> Nat]
  <2>1. \A a \in Nat : a \div 2 \in Nat
    OBVIOUS
  <2> QED BY <2>1
<1>2. PICK f : Solves(f, h, Nat, index, step)
  <2> HIDE DEF step
  <2> QED BY <1>1, Recur
<1>3. f \in [0 .. h -> Nat] /\ f[0] = index /\ \A k \in 1 .. h : f[k] = step[<<k, f[k - 1]>>]
  BY <1>2 DEF Solves
<1>4. \A k \in 1 .. h : <<k, f[k - 1]>> \in (1 .. h) \X Nat
  <2>1. \A k \in 1 .. h : k - 1 \in 0 .. h /\ f[k - 1] \in Nat
    BY <1>3
  <2> QED BY <2>1
<1>5. \A k \in 1 .. h : f[k] = f[k - 1] \div 2
  BY <1>3, <1>4
<1>6. f = [k \in 0 .. h |-> IF k = 0 THEN index ELSE f[k - 1] \div 2]
  BY <1>3, <1>5
<1>7. AtEq(f, h, index)
  BY <1>6 DEF AtEq
<1> PICK g : g = AtFun(h, index)
  OBVIOUS
<1>8. AtEq(g, h, index)
  BY <1>7 DEF AtFun
<1>9. g = [k \in 0 .. h |-> IF k = 0 THEN index ELSE g[k - 1] \div 2]
  BY <1>8 DEF AtEq
<1>a. \A k \in 0 .. h : g[k] = IF k = 0 THEN index ELSE g[k - 1] \div 2
  BY <1>9
<1>10. g[0] = index /\ \A k \in 1 .. h : g[k] = g[k - 1] \div 2
  <2>1. 0 \in 0 .. h /\ \A k \in 1 .. h : k \in 0 .. h /\ k # 0
    OBVIOUS
  <2> QED BY ONLY <2>1, <1>a
<1>11. InStep(g, f, h)
  BY <1>3, <1>5, <1>10 DEF InStep
<1>12. \A k \in 0 .. h : g[k] = f[k]
  BY <1>11, Alike
<1>13. \A k \in 0 .. h : g[k] \in Nat
  BY <1>3, <1>12
<1> QED BY <1>10, <1>13 DEF Halves

LEMMA ProofIs ==
    ASSUME NEW hs, NEW index
    PROVE  MerkleProof(hs, index) =
            FlattenSeq([k \in 1 .. Height(hs) |-> SibStep(Levels(hs)[k - 1], AtFun(Height(hs), index)[k - 1])])
BY DEF MerkleProof, AtFun, AtEq, SibStep, Sib

\* One step up.
LEMMA OneUp ==
    ASSUME NEW c, NEW n, Row(c, n), NEW a \in Nat, a < n, NEW b, b = a \div 2, NEW u, u = NextLevel(c)
    PROVE  /\ b \in Nat /\ b < Len(u)
           /\ Sib(a) >= n => u[b + 1] = c[a + 1]
           /\ ~(Sib(a) >= n) => /\ Sib(a) + 1 \in 1 .. n
                                /\ u[b + 1] = Join(c[a + 1], [left |-> Sib(a) < a, hash |-> c[Sib(a) + 1]])
<1> PICK p : p = (n + 1) \div 2
  OBVIOUS
<1> PICK s : s = Sib(a)
  OBVIOUS
<1>0. n \in Nat
  BY DEF Row
<1>1. Above(u, c, n, p)
  BY NextFact
<1>2. /\ p \in Nat /\ (2 * p = n \/ 2 * p = n + 1) /\ Len(u) = p
      /\ \A i \in 1 .. p : /\ 2 * i <= n => u[i] = NodeHash(c[2 * i - 1], c[2 * i])
                           /\ ~(2 * i <= n) => u[i] = c[2 * i - 1]
  BY <1>1 DEF Above, Row
<1>3. b \in Nat /\ (a = 2 * b \/ a = 2 * b + 1) /\ (a % 2 = 0 <=> a = 2 * b)
  OBVIOUS
<1>4. b + 1 \in 1 .. p /\ b < p
  <2>1. p \in Nat /\ (2 * p = n \/ 2 * p = n + 1) /\ b \in Nat /\ (a = 2 * b \/ a = 2 * b + 1) /\ a < n /\ n \in Nat /\ a \in Nat
    BY <1>0, <1>2, <1>3
  <2> QED BY ONLY <2>1
<1>5. CASE a = 2 * b
  <2>1. s = a + 1
    BY <1>3, <1>5 DEF Sib
  <2>2. CASE s >= n
    <3>1. ~(2 * (b + 1) <= n) /\ 2 * (b + 1) - 1 = a + 1
      BY <2>1, <2>2, <1>0, <1>3, <1>5
    <3>2. u[b + 1] = c[2 * (b + 1) - 1]
      BY ONLY <3>1, <1>2, <1>4
    <3> QED BY <3>1, <3>2, <2>2, <1>2, <1>3, <1>4
  <2>3. CASE ~(s >= n)
    <3>1. 2 * (b + 1) <= n /\ 2 * (b + 1) - 1 = a + 1 /\ 2 * (b + 1) = s + 1 /\ s + 1 \in 1 .. n /\ ~(s < a)
      BY <2>1, <2>3, <1>0, <1>3, <1>5
    <3>2. u[b + 1] = NodeHash(c[2 * (b + 1) - 1], c[2 * (b + 1)])
      BY ONLY <3>1, <1>2, <1>4
    <3>3. u[b + 1] = NodeHash(c[a + 1], c[s + 1])
      BY ONLY <3>1, <3>2
    <3>4. u[b + 1] = Join(c[a + 1], [left |-> s < a, hash |-> c[s + 1]])
      BY <3>1, <3>3 DEF Join
    <3> QED BY <3>1, <3>4, <2>3, <1>2, <1>3, <1>4
  <2> QED BY <2>2, <2>3
<1>6. CASE a = 2 * b + 1
  <2>1. s = a - 1 /\ a # 2 * b
    BY <1>3, <1>6 DEF Sib
  <2>2. 2 * (b + 1) <= n /\ 2 * (b + 1) - 1 = s + 1 /\ 2 * (b + 1) = a + 1 /\ s + 1 \in 1 .. n /\ s < a /\ ~(s >= n)
    BY <2>1, <1>0, <1>3, <1>6
  <2>3. u[b + 1] = NodeHash(c[2 * (b + 1) - 1], c[2 * (b + 1)])
    BY ONLY <2>2, <1>2, <1>4
  <2>4. u[b + 1] = NodeHash(c[s + 1], c[a + 1])
    BY ONLY <2>2, <2>3
  <2>5. u[b + 1] = Join(c[a + 1], [left |-> s < a, hash |-> c[s + 1]])
    BY <2>2, <2>4 DEF Join
  <2> QED BY <2>2, <2>5, <1>2, <1>3, <1>4
<1> QED BY <1>3, <1>5, <1>6

LEMMA SibFact ==
    ASSUME NEW a \in Nat
    PROVE  Sib(a) \in Nat
<1>1. a % 2 = 0 \/ a - 1 \in Nat
  OBVIOUS
<1>2. a + 1 \in Nat
  OBVIOUS
<1> QED BY <1>1, <1>2 DEF Sib

\* The digests of a tree, and the steps that have one of them.
Digested(f) == {f[x[1]][x[2]] : x \in Nat \X Nat}
SibType(f) == [left : BOOLEAN, hash : Digested(f)]

LEMMA SibStepType ==
    ASSUME NEW f, NEW k \in Nat, NEW a \in Nat
    PROVE  /\ SibStep(f[k], a) \in Seq(SibType(f))
           /\ Sib(a) >= Len(f[k]) => SibStep(f[k], a) = <<>>
           /\ ~(Sib(a) >= Len(f[k])) =>
                /\ SibStep(f[k], a) = <<[left |-> Sib(a) < a, hash |-> f[k][Sib(a) + 1]]>>
                /\ [left |-> Sib(a) < a, hash |-> f[k][Sib(a) + 1]] \in SibType(f)
<1> PICK s : s = Sib(a) + 1
  OBVIOUS
<1> PICK e : e = [left |-> Sib(a) < a, hash |-> f[k][s]]
  OBVIOUS
<1>1. s \in Nat
  BY SibFact
<1>2. f[k][s] \in Digested(f)
  <2>1. <<k, s>> \in Nat \X Nat
    BY <1>1
  <2>2. <<k, s>>[1] = k /\ <<k, s>>[2] = s
    OBVIOUS
  <2> QED BY <2>1, <2>2 DEF Digested
<1>3. (Sib(a) < a) \in BOOLEAN
  BY SibFact
<1>4. e \in SibType(f)
  BY <1>2, <1>3 DEF SibType
<1>5. SibStep(f[k], a) = IF Sib(a) >= Len(f[k]) THEN <<>> ELSE <<e>>
  BY DEF SibStep
<1>6. <<>> \in Seq(SibType(f)) /\ <<e>> \in Seq(SibType(f))
  BY <1>4
<1> QED BY <1>4, <1>5, <1>6

\* A proof that merkle_proof gives for a leaf leads merkle_verify from that
\* leaf to the root, for a tree of any number of leaves.
THEOREM BranchFact ==
    ASSUME NEW S, NEW hs \in Seq(S), NEW index \in Nat, index < Len(hs)
    PROVE  Climb(hs[index + 1], MerkleProof(hs, index)) = MerkleRoot(hs)
<1> PICK n : n = Len(hs)
  OBVIOUS
<1> PICK f : f = Levels(hs)
  OBVIOUS
<1> PICK h : h = Height(hs)
  OBVIOUS
<1> PICK at : at = AtFun(h, index)
  OBVIOUS
<1> PICK x : x = hs[index + 1]
  OBVIOUS
<1>0. hs # <<>> /\ n \in Nat
  OBVIOUS
<1>1. Tree(f, n, h) /\ MerkleRoot(hs) = f[h][1]
  BY <1>0, TreeFact, RootFact
<1>2. /\ h \in Nat /\ Len(f[h]) = 1 /\ h <= n
      /\ \A k \in 0 .. h : LevelOk(f[k], Len(f[k]), k)
      /\ \A k \in 1 .. h : f[k] = NextLevel(f[k - 1])
  <2>1. h \in 0 .. n /\ Len(f[h]) = 1
    BY <1>1 DEF Tree
  <2>2. \A k \in 0 .. h : k \in 0 .. n
    BY <2>1, <1>0
  <2>3. \A k \in 1 .. h : k \in 1 .. n
    BY <2>1, <1>0
  <2> QED BY <2>1, <2>2, <2>3, <1>0, <1>1 DEF Tree
<1>3. at[0] = index /\ (\A k \in 0 .. h : at[k] \in Nat) /\ \A k \in 1 .. h : at[k] = at[k - 1] \div 2
  <2>1. Halves(at, h, index)
    BY ONLY <1>2, AtFact, at = AtFun(h, index), index \in Nat
  <2> QED BY ONLY <2>1 DEF Halves
<1> DEFINE ss == [k \in 1 .. h |-> SibStep(f[k - 1], at[k - 1])]
<1>4. MerkleProof(hs, index) = FlattenSeq(ss)
  BY ProofIs
<1>5. ss = [k \in 1 .. h |-> ss[k]] /\ \A k \in 1 .. h : ss[k] = SibStep(f[k - 1], at[k - 1])
  OBVIOUS
<1> HIDE DEF ss
<1>6. ss \in Seq(Seq(SibType(f))) /\ Len(ss) = h
  <2>1. \A k \in 1 .. h : ss[k] \in Seq(SibType(f))
    <3> TAKE k \in 1 .. h
    <3> PICK j : j = k - 1
      OBVIOUS
    <3>1. j \in Nat /\ j \in 0 .. h
      BY <1>2
    <3>2. at[j] \in Nat
      BY <3>1, <1>3
    <3>3. SibStep(f[j], at[j]) \in Seq(SibType(f))
      BY ONLY <3>1, <3>2, SibStepType
    <3>4. ss[k] = SibStep(f[j], at[j])
      BY <1>5
    <3> QED BY ONLY <3>3, <3>4
  <2>a. h \in Nat /\ ss = [k \in 1 .. h |-> ss[k]]
    BY <1>2, <1>5
  <2>2. ss \in Seq(Seq(SibType(f)))
    BY ONLY <2>1, <2>a, SMTT(30)
  <2>3. DOMAIN ss = 1 .. h
    BY <1>5
  <2> QED BY <2>2, <2>3, <1>2
<1> DEFINE G == {k \in 0 .. h : at[k] < Len(f[k]) /\ Climb(x, FlattenSeq(SubSeq(ss, 1, k))) = f[k][at[k] + 1]}
<1>7. 0 \in G
  <2>1. f[0] = [i \in DOMAIN hs |-> LeafHash(hs[i])]
    BY LevelsFact DEF Below
  <2>2. Len(f[0]) = n /\ f[0][index + 1] = LeafHash(x)
    <3>1. Len(f[0]) = n
      BY <2>1, <1>0, LeafRow
    <3>2. index + 1 \in DOMAIN hs
      OBVIOUS
    <3> QED BY <3>1, <3>2, <2>1
  <2>3. SubSeq(ss, 1, 0) = <<>>
    BY <1>6
  <2>4. Climb(x, FlattenSeq(SubSeq(ss, 1, 0))) = LeafHash(x)
    BY ONLY <2>3, FlatEmpty, ClimbEmpty
  <2>5. at[0] < Len(f[0])
    BY <2>2, <1>3
  <2>6. 0 \in 0 .. h
    BY <1>2
  <2> QED BY <2>2, <2>4, <2>5, <2>6, <1>3
<1>8. ASSUME NEW k \in 0 .. h, k < h, k \in G PROVE k + 1 \in G
  <2> PICK j : j = k + 1
    OBVIOUS
  <2>1. j \in 1 .. h /\ j - 1 = k /\ j \in 0 .. h /\ k \in Nat
    BY <1>2, <1>8
  <2> PICK c : c = f[k]
    OBVIOUS
  <2> PICK a : a = at[k]
    OBVIOUS
  <2> PICK b : b = at[j]
    OBVIOUS
  <2> PICK u : u = f[j]
    OBVIOUS
  <2> PICK p : p = FlattenSeq(SubSeq(ss, 1, k))
    OBVIOUS
  <2>2. a < Len(c) /\ Climb(x, p) = c[a + 1]
    BY <1>8
  <2>3. a \in Nat /\ b = a \div 2 /\ u = NextLevel(c) /\ Row(c, Len(c))
    <3>1. LevelOk(c, Len(c), k)
      BY <1>2
    <3>2. Row(c, Len(c))
      BY <3>1 DEF LevelOk
    <3>3. a \in Nat
      BY <1>3
    <3>4. b = a \div 2
      BY <2>1, <1>3
    <3>5. u = NextLevel(c)
      BY <2>1, <1>2
    <3> QED BY <3>2, <3>3, <3>4, <3>5
  <2> PICK e : e = [left |-> Sib(a) < a, hash |-> c[Sib(a) + 1]]
    OBVIOUS
  <2>4. /\ b < Len(u) /\ (Sib(a) >= Len(c) => u[b + 1] = c[a + 1])
        /\ (~(Sib(a) >= Len(c)) => u[b + 1] = Join(c[a + 1], e))
    BY ONLY <2>2, <2>3, e = [left |-> Sib(a) < a, hash |-> c[Sib(a) + 1]], OneUp
  <2>5. FlattenSeq(SubSeq(ss, 1, j)) = p \o ss[j]
    <3>1. j \in 1 .. Len(ss)
      BY <2>1, <1>6
    <3>2. FlattenSeq(SubSeq(ss, 1, j)) = FlattenSeq(SubSeq(ss, 1, j - 1)) \o ss[j]
      BY ONLY <3>1, <1>6, FlatLast
    <3> QED BY <3>2, <2>1
  <2>6. ss[j] = SibStep(c, a)
    BY <2>1, <1>5
  <2>7. p \in Seq(SibType(f))
    <3>1. SubSeq(ss, 1, k) \in Seq(Seq(SibType(f)))
      BY <1>6
    <3> QED BY <3>1, FlatType
  <2>8. Climb(x, p \o ss[j]) = u[b + 1]
    <3>1. CASE Sib(a) >= Len(c)
      <4>1. ss[j] = <<>>
        BY <3>1, <2>1, <2>3, <2>6, SibStepType
      <4>2. p \o <<>> = p
        BY <2>7
      <4> QED BY <4>1, <4>2, <3>1, <2>2, <2>4
    <3>2. CASE ~(Sib(a) >= Len(c))
      <4>1. ss[j] = <<e>> /\ e \in SibType(f)
        BY <3>2, <2>1, <2>3, <2>6, SibStepType
      <4>2. Climb(x, p \o <<e>>) = Join(Climb(x, p), e)
        BY <4>1, <2>7, ClimbMore
      <4> QED BY <4>1, <4>2, <3>2, <2>2, <2>4
    <3> QED BY <3>1, <3>2
  <2>9. j \in G
    BY <2>1, <2>4, <2>5, <2>8
  <2> QED BY <2>9
<1>9. h \in G
  <2>1. h \in 0 .. h
    BY <1>2
  <2> HIDE DEF G
  <2> QED BY <2>1, <1>2, <1>7, <1>8, Upto
<1>10. at[h] < 1 /\ at[h] \in Nat
  <2>1. h \in 0 .. h
    BY <1>2
  <2> QED BY <2>1, <1>2, <1>3, <1>9
<1>11. at[h] + 1 = 1
  BY <1>10
<1>12. Climb(x, FlattenSeq(SubSeq(ss, 1, h))) = f[h][1]
  BY <1>9, <1>11
<1>13. SubSeq(ss, 1, h) = ss
  BY <1>6
<1> QED BY <1>1, <1>4, <1>12, <1>13

\* Any chunk of a manifest that root_is_consistent accepts passes verify_chunk
\* with the bytes its digest names.
THEOREM ChunksVerify ==
    ASSUME NEW m, ManifestOk(m), RootIsConsistent(m), NEW i \in Range0(Len(m.chunks))
    PROVE  VerifyChunk(m, i, BytesOf(m.chunks[i + 1].hash))
<1> PICK cs : cs = m.chunks
  OBVIOUS
<1> PICK x : x = cs[i + 1].hash
  OBVIOUS
<1>0. cs \in Seq(ChunkType) /\ Len(cs) \in Nat
  BY DEF ManifestOk
<1>1. i \in Nat /\ i < Len(cs) /\ i + 1 \in 1 .. Len(cs) /\ i + 1 \in DOMAIN cs
  <2>1. i \in 0 .. Len(cs) - 1
    BY DEF Range0
  <2> QED BY <2>1, <1>0
<1>2. x \in Digests
  <2>1. cs[i + 1] \in ChunkType
    BY <1>0, <1>1
  <2> QED BY <2>1, ChunkFields
<1>3. Hash(BytesOf(x)) = x
  BY <1>2, DigestFact
<1>4. ChunkHashOk(m, i, BytesOf(x))
  BY <1>1, <1>3 DEF ChunkHashOk
<1> PICK hs : hs = Hashes(m)
  OBVIOUS
<1>5. hs \in Seq(Digests) /\ DOMAIN hs = DOMAIN cs /\ hs[i + 1] = x
  BY <1>0, <1>1, HashesType
<1>6. Len(hs) = Len(cs)
  <2>1. DOMAIN hs = 1 .. Len(hs) /\ DOMAIN cs = 1 .. Len(cs) /\ Len(hs) \in Nat
    BY <1>0, <1>5
  <2> QED BY <2>1, <1>0, <1>5
<1>7. Climb(x, MerkleProof(hs, i)) = MerkleRoot(hs)
  BY <1>1, <1>5, <1>6, BranchFact
<1>8. MerkleVerify(x, MerkleProof(hs, i), m.root)
  BY <1>7 DEF MerkleVerify, RootIsConsistent
<1> QED BY <1>4, <1>8 DEF VerifyChunk

-----------------------------------------------------------------------------
(* Rebuilding, splitting and exporting                                     *)
\* What is needed for the files to be rebuilt.
Checks(m, st) ==
    /\ Validate(m) /\ Held(m, st)
    /\ \A i \in Range0(Len(m.chunks)) : VerifyChunk(m, i, BytesOf(m.chunks[i + 1].hash))

LEMMA ReconstructIs ==
    ASSUME NEW m, NEW st
    PROVE  /\ ReconstructFiles(m, st) = IF Checks(m, st) /\ Sized(m) THEN Ok(FilesOf(m)) ELSE Err
           /\ Reconstruct(m, st) = IF Checks(m, st) /\ Len(Data(m.chunks)) = m.total_size
                                   THEN Ok(Data(m.chunks)) ELSE Err
           /\ (ReconstructFiles(m, st).ok <=> Checks(m, st) /\ Sized(m))
<1>1. ReconstructFiles(m, st) = IF Checks(m, st) /\ Sized(m) THEN Ok(FilesOf(m)) ELSE Err
  BY DEF ReconstructFiles, Checks, Sized
<1>2. Reconstruct(m, st) = IF Checks(m, st) /\ Len(Data(m.chunks)) = m.total_size
                           THEN Ok(Data(m.chunks)) ELSE Err
  BY DEF Reconstruct, Checks
<1>3. Ok(FilesOf(m)).ok = TRUE /\ Err.ok = FALSE
  BY DEF Ok, Err
<1>4. ReconstructFiles(m, st).ok <=> Checks(m, st) /\ Sized(m)
  <2>1. CASE Checks(m, st) /\ Sized(m)
    BY <2>1, <1>1, <1>3
  <2>2. CASE ~(Checks(m, st) /\ Sized(m))
    BY <2>2, <1>1, <1>3
  <2> QED BY <2>1, <2>2
<1> QED BY <1>1, <1>2, <1>4

LEMMA StreamRebuilt ==
    ASSUME NEW m, ManifestOk(m), NEW st, Checks(m, st), Sized(m)
    PROVE  Reconstruct(m, st) = Ok(Stream(FilesOf(m)))
<1>1. Validate(m)
  BY DEF Checks
<1>2. Data(m.chunks) = Stream(FilesOf(m)) /\ Len(Stream(FilesOf(m))) = m.total_size
  BY <1>1, DataIsStream, SizedTotal
<1> QED BY <1>2, ReconstructIs

\* split_stream undoes the concatenation of the files, for any manifest that
\* validate accepts and whose chunks have their declared sizes.
THEOREM StreamSplit ==
    ASSUME NEW m, ManifestOk(m), Validate(m), Sized(m)
    PROVE  SplitStream(m, Stream(FilesOf(m))) = Ok(FilesOf(m))
<1> PICK n : n = Len(m.files)
  OBVIOUS
<1> PICK data : data = Stream(FilesOf(m))
  OBVIOUS
<1> PICK fs : fs = FilesOf(m)
  OBVIOUS
<1>0. m.files \in Seq(EntryType) /\ n \in Nat /\ DOMAIN m.files = 1 .. n
  BY DEF ManifestOk
<1>1. Len(data) = m.total_size
  BY SizedTotal
<1>2. SplitStream(m, data) = Ok([i \in 1 .. n |->
         [path |-> m.files[i].path,
          data |-> SubSeq(data, Sizes(SubSeq(m.files, 1, i - 1)) + 1,
                          Sizes(SubSeq(m.files, 1, i - 1)) + m.files[i].size)]])
  BY <1>0, <1>1 DEF SplitStream
<1>3. \A i \in 1 .. n : SubSeq(data, Sizes(SubSeq(m.files, 1, i - 1)) + 1,
                               Sizes(SubSeq(m.files, 1, i - 1)) + m.files[i].size) = Contents(m)[i]
  BY SplitAt
<1>4. \A i \in 1 .. n : fs[i] = [path |-> m.files[i].path, data |-> Contents(m)[i]]
  BY ContentsFact
<1>5. fs = [i \in 1 .. n |-> fs[i]]
  <2>1. fs \in Seq(FileType) /\ Len(fs) = n
    BY ContentsFact
  <2> QED BY ONLY <2>1
<1> DEFINE cut == [i \in 1 .. n |->
         [path |-> m.files[i].path,
          data |-> SubSeq(data, Sizes(SubSeq(m.files, 1, i - 1)) + 1,
                          Sizes(SubSeq(m.files, 1, i - 1)) + m.files[i].size)]]
<1>6. \A i \in 1 .. n : cut[i] = fs[i]
  BY <1>3, <1>4
<1>7. cut = [i \in 1 .. n |-> cut[i]]
  OBVIOUS
<1>8. SplitStream(m, data) = Ok(cut)
  BY <1>2
<1> HIDE DEF cut
<1>9. cut = fs
  BY ONLY <1>5, <1>6, <1>7, Zenon
<1> QED BY <1>8, <1>9

\* What split_stream cuts out for the i-th file.
Piece(m, data, i) ==
    [path |-> m.files[i].path,
     data |-> SubSeq(data, Sizes(SubSeq(m.files, 1, i - 1)) + 1,
                     Sizes(SubSeq(m.files, 1, i - 1)) + m.files[i].size)]

LEMMA PieceFact ==
    ASSUME NEW m, ManifestOk(m), Validate(m), NEW data \in Seq(Bytes), Len(data) = m.total_size,
           NEW i \in 1 .. Len(m.files)
    PROVE  Piece(m, data, i) \in FileType /\ Len(Piece(m, data, i).data) = m.files[i].size
<1> PICK n : n = Len(m.files)
  OBVIOUS
<1> PICK z : z = SizeList(m.files)
  OBVIOUS
<1> PICK h : h = i - 1
  OBVIOUS
<1> PICK f : f = m.files[i]
  OBVIOUS
<1>0. m.files \in Seq(EntryType) /\ n \in Nat
  BY DEF ManifestOk
<1>1. h \in 0 .. n /\ i \in 0 .. n /\ i \in 1 .. n /\ h = i - 1
  BY <1>0
<1>2. f \in EntryType
  BY <1>0
<1>3. /\ z \in Seq(Int) /\ Len(z) = n /\ Sizes(SubSeq(m.files, 1, h)) = Total(SubSeq(z, 1, h))
      /\ (\A j \in 1 .. n : z[j] = m.files[j].size) /\ Sizes(m.files) = Total(z)
  BY <1>0, <1>1, FieldSums
<1>4. z \in Seq(Nat)
  <2>1. ASSUME NEW j \in 1 .. n PROVE z[j] \in Nat
    <3>1. m.files[j] \in EntryType
      BY <1>0
    <3> QED BY <3>1, <1>3, EntryFields
  <2>2. z = [j \in 1 .. n |-> z[j]]
    BY ONLY <1>3
  <2> QED BY ONLY <2>1, <2>2, <1>0
<1> PICK a : a = Total(SubSeq(z, 1, h))
  OBVIOUS
<1> PICK b : b = Total(SubSeq(z, 1, i))
  OBVIOUS
<1>5. a \in Nat /\ b \in Nat /\ b <= Total(z)
  BY <1>1, <1>3, <1>4, GrowingTotal
<1>6. b = a + f.size
  <2>1. b = Total(SubSeq(z, 1, i - 1)) + z[i]
    BY <1>1, <1>3, TotalLast
  <2> QED BY <2>1, <1>1, <1>3
<1>7. f.size \in Nat /\ f.path \in Seq(Parts)
  BY <1>2, EntryFields
<1>8. In(Bytes, data, a, b)
  <2>1. Total(z) = Len(data)
    BY <1>3 DEF Validate
  <2>2. data \in Seq(Bytes) /\ b <= Len(data)
    BY <2>1, <1>5
  <2>3. a <= b
    BY ONLY <1>5, <1>6, <1>7
  <2> QED BY ONLY <2>2, <2>3, <1>5 DEF In
<1>9. IsCut(Cut(data, a, b), Bytes, data, a, b)
  BY ONLY <1>8, CutType
<1>10. Piece(m, data, i) = [path |-> f.path, data |-> Cut(data, a, b)]
  BY <1>3, <1>6 DEF Piece, Cut
<1>11. Cut(data, a, b) \in Seq(Bytes) /\ Len(Cut(data, a, b)) = f.size
  <2>1. b - a = f.size
    BY ONLY <1>5, <1>6, <1>7
  <2> QED BY <2>1, <1>9 DEF IsCut
<1> QED BY ONLY <1>7, <1>10, <1>11, f = m.files[i] DEF FileType

\* Where split_stream succeeds, it makes files, of the declared sizes.
THEOREM SplitFact ==
    ASSUME NEW m, ManifestOk(m), NEW data \in Seq(Bytes), SplitStream(m, data).ok
    PROVE  LET cut == SplitStream(m, data).val IN
           /\ SplitStream(m, data) = Ok(cut) /\ cut \in Seq(FileType) /\ Len(cut) = Len(m.files)
           /\ \A i \in 1 .. Len(m.files) : Len(cut[i].data) = m.files[i].size
<1> PICK n : n = Len(m.files)
  OBVIOUS
<1> PICK cut : cut = [i \in 1 .. n |-> Piece(m, data, i)]
  OBVIOUS
<1>0. m.files \in Seq(EntryType) /\ n \in Nat /\ DOMAIN m.files = 1 .. n
  BY DEF ManifestOk
<1>1. Err.ok = FALSE /\ Ok(cut).val = cut
  BY DEF Err, Ok
<1>2. Len(data) = m.total_size /\ Validate(m)
  BY <1>1 DEF SplitStream
<1>3. SplitStream(m, data) = Ok(cut)
  BY <1>0, <1>2 DEF SplitStream, Piece
<1>4. \A i \in 1 .. n : Piece(m, data, i) \in FileType /\ Len(Piece(m, data, i).data) = m.files[i].size
  BY <1>2, PieceFact
<1>a. (\A i \in 1 .. n : cut[i] = Piece(m, data, i)) /\ cut = [i \in 1 .. n |-> cut[i]]
  OBVIOUS
<1>b. \A i \in 1 .. n : cut[i] \in FileType /\ Len(cut[i].data) = m.files[i].size
  BY <1>4, <1>a
<1>5. cut \in Seq(FileType) /\ Len(cut) = n
  <2>1. \A i \in 1 .. n : cut[i] \in FileType
    BY ONLY <1>b
  <2>2. cut = [i \in 1 .. n |-> cut[i]]
    BY ONLY <1>a
  <2> QED BY ONLY <2>1, <2>2, <1>0
<1>6. SplitStream(m, data).val = cut
  BY ONLY <1>1, <1>3
<1> QED BY ONLY <1>3, <1>5, <1>6, <1>b, n = Len(m.files)

\* split_stream gives the files back exactly when their sizes are declared.
LEMMA SplitWhenSized ==
    ASSUME NEW m, ManifestOk(m), Validate(m)
    PROVE  Sized(m) <=> SplitStream(m, Stream(FilesOf(m))) = Ok(FilesOf(m))
<1> PICK fs : fs = FilesOf(m)
  OBVIOUS
<1>1. fs \in Seq(FileType) /\ Len(fs) = Len(m.files)
  BY ContentsFact
<1>2. Stream(fs) \in Seq(Bytes)
  BY <1>1, StreamType
<1>3. ASSUME SplitStream(m, Stream(fs)) = Ok(fs) PROVE Sized(m)
  <2>1. SplitStream(m, Stream(fs)).ok /\ SplitStream(m, Stream(fs)).val = fs
    BY <1>3 DEF Ok
  <2>2. \A i \in 1 .. Len(m.files) : Len(fs[i].data) = m.files[i].size
    BY <2>1, <1>2, SplitFact
  <2>3. DOMAIN m.files = 1 .. Len(m.files)
    BY DEF ManifestOk
  <2> QED BY <2>2, <2>3 DEF Sized
<1>4. Sized(m) => SplitStream(m, Stream(fs)) = Ok(fs)
  BY StreamSplit
<1> QED BY <1>3, <1>4

\* If the pieces recompute the root, they have the chunks of the manifest.
LEMMA SplitNamesRoot ==
    ASSUME NEW m, ManifestOk(m), RootIsConsistent(m), NEW data \in Seq(Bytes), NEW cut,
           cut = SplitStream(m, data), cut.ok, FromFiles(cut.val).root = m.root
    PROVE  Hashes(FromFiles(cut.val)) = Hashes(m)
<1> PICK w : w = FromFiles(cut.val)
  OBVIOUS
<1>1. cut.val \in Seq(FileType)
  BY SplitFact
<1>2. ManifestOk(w) /\ RootIsConsistent(w)
  BY <1>1, FromFilesType
<1>3. Hashes(w) \in Seq(Digests) /\ Hashes(m) \in Seq(Digests)
  BY <1>2, HashesType DEF ManifestOk
<1>4. MerkleRoot(Hashes(w)) = MerkleRoot(Hashes(m))
  BY <1>2 DEF RootIsConsistent
<1> QED BY <1>3, <1>4, MerkleInjective

\* The chunks of a file that can be written are all of its chunks.
LEMMA AllGood ==
    ASSUME NEW m, ManifestOk(m), Validate(m), NEW st, Held(m, st), NEW i \in 1 .. Len(m.files)
    PROVE  GoodChunks(m, st, m.files[i]) = m.files[i].chunk_count
<1> PICK f : f = m.files[i]
  OBVIOUS
<1> PICK cs : cs = m.chunks
  OBVIOUS
<1>0. m.files \in Seq(EntryType) /\ cs \in Seq(ChunkType)
  BY DEF ManifestOk
<1>1. f.chunk_start \in Nat /\ f.chunk_count \in Nat /\ f.chunk_start + f.chunk_count <= Len(cs)
  <2>1. f \in EntryType /\ i \in DOMAIN m.files
    BY <1>0
  <2>2. m.files[i].chunk_start + m.files[i].chunk_count <= Len(m.chunks)
    BY <2>1 DEF Validate
  <2> QED BY <2>1, <2>2, EntryFields
<1> PICK a : a = f.chunk_start
  OBVIOUS
<1> PICK n : n = f.chunk_count
  OBVIOUS
<1> PICK K : K = {k \in Nat : \A c \in Range0(k) : a + c < Len(cs) /\ cs[a + c + 1].hash \in st}
  OBVIOUS
<1>2. n \in K /\ 0 \in K /\ n \in Nat
  <2>1. ASSUME NEW c \in Range0(n) PROVE a + c < Len(cs) /\ cs[a + c + 1].hash \in st
    <3>0. c \in 0 .. n - 1 /\ a \in Nat /\ n \in Nat /\ Len(cs) \in Nat /\ a + n <= Len(cs)
      BY <1>0, <1>1 DEF Range0
    <3>1. a + c + 1 \in 1 .. Len(cs) /\ a + c < Len(cs)
      BY ONLY <3>0
    <3>2. a + c + 1 \in DOMAIN m.chunks
      BY <3>1, <1>0
    <3> QED BY <3>1, <3>2 DEF Held
  <2>2. Range0(0) = {}
    BY DEF Range0
  <2> QED BY <2>1, <2>2, <1>1
<1> PICK good : good = Max({k \in 0 .. n : k \in K})
  OBVIOUS
<1>3. good \in 0 .. n /\ \A k \in 0 .. n : k \in K => k <= good
  BY ONLY <1>2, good = Max({k \in 0 .. n : k \in K}), GreatestOf
<1>4. good = n
  <2>1. n \in 0 .. n
    BY <1>2, SMTT(30)
  <2>2. n <= good
    BY <2>1, <1>2, <1>3
  <2>3. n \in Nat /\ good \in 0 .. n /\ n <= good
    BY <2>2, <1>2, <1>3
  <2> QED BY ONLY <2>3
<1>5. {k \in 0 .. n : k \in K} = {k \in 0 .. n : \A c \in Range0(k) : a + c < Len(cs) /\ cs[a + c + 1].hash \in st}
  <2>1. \A k \in 0 .. n : k \in Nat
    BY <1>2, SMTT(30)
  <2> QED BY ONLY <2>1, K = {k \in Nat : \A c \in Range0(k) : a + c < Len(cs) /\ cs[a + c + 1].hash \in st}, Zenon
<1>6. GoodChunks(m, st, f) = good
  BY <1>5 DEF GoodChunks
<1> QED BY <1>4, <1>6

LandingEq(f, p) == f = [k \in 0 .. Len(p) |-> IF k = 0 THEN <<>> ELSE Push(f[k - 1], p[k])]
LandingFun(p) == CHOOSE f : LandingEq(f, p)

\* A part that no system gives a meaning of its own.
Plain == Parts \ (Backslashed \cup RefusedNames \cup {".."})

\* The parts that lead nowhere, and a path that does not start at the root.
Skipped == {"", "."}
Rootless(p) == p[1] # ""

LEMMA PushPlain ==
    ASSUME NEW d \in Seq(Parts), NEW x \in Plain
    PROVE  Push(d, x) = IF x \in Skipped THEN d ELSE Append(d, x)
<1>1. d # Outside
  <2> SUFFICES ASSUME d = Outside PROVE FALSE
    OBVIOUS
  <2>1. Len(d) = 1 /\ d[1] = "/"
    BY DEF Outside
  <2>2. d[1] \in Parts
    BY <2>1
  <2> QED BY <2>1, <2>2 DEF Parts
<1>2. x # ".." /\ x \notin Backslashed /\ x \notin Coloned /\ x \notin Devices /\ x \notin Trimmed
  BY DEF Plain, RefusedNames
<1> QED BY <1>1, <1>2, Zenon DEF Push, Skipped

\* A path of plain components lands at the place it lists, whatever the file
\* system does with "..", "." and the root.
THEOREM LandingPlain ==
    ASSUME NEW p \in Seq(Plain), p # <<>>, Rootless(p)
    PROVE  Landing(p) = Listed(p)
<1> PICK n : n = Len(p)
  OBVIOUS
<1> PICK K : K = {i \in DOMAIN p : p[i] \notin Skipped}
  OBVIOUS
<1> PICK f : f = ThoseFun(p, K)
  OBVIOUS
<1>1. n \in Nat /\ DOMAIN p = 1 .. n /\ p \in Seq(Parts)
  BY DEF Plain
<1>2. ThoseEq(f, p, K)
  BY ThoseRec
<1>3. f = [k \in 0 .. n |-> IF k = 0 THEN <<>> ELSE IF k \in K THEN Append(f[k - 1], p[k]) ELSE f[k - 1]]
  BY <1>2 DEF ThoseEq
<1>4. ThoseFact(f, p, K) /\ \A k \in 0 .. n : f[k] \in Seq(Parts)
  BY <1>1, ThoseUnfold
<1>5. Listed(p) = f[n] /\ f[0] = <<>>
  <2>1. Listed(p) = Those(p, K)
    BY Zenon DEF Listed, Skipped
  <2> QED BY <2>1, <1>4 DEF ThoseFact
<1>6. ASSUME NEW k \in 1 .. n
      PROVE  f[k] = Push(f[k - 1], p[k])
  <2>1. k - 1 \in 0 .. n /\ k \in 0 .. n /\ k # 0
    BY <1>1
  <2>2. f[k - 1] \in Seq(Parts) /\ p[k] \in Plain
    BY <2>1, <1>1, <1>4
  <2>3. f[k] = IF k \in K THEN Append(f[k - 1], p[k]) ELSE f[k - 1]
    BY <1>4 DEF ThoseFact
  <2>4. k \in K <=> p[k] \notin Skipped
    BY <1>1
  <2> QED BY <2>2, <2>3, <2>4, PushPlain
<1>7. LandingEq(f, p)
  <2>1. DOMAIN f = 0 .. n /\ f = [k \in 0 .. n |-> f[k]]
    BY <1>3
  <2>2. \A k \in 0 .. n : f[k] = IF k = 0 THEN <<>> ELSE Push(f[k - 1], p[k])
    <3> TAKE k \in 0 .. n
    <3>1. CASE k = 0
      BY <3>1, <1>5
    <3>2. CASE k # 0
      <4>1. k \in 1 .. n
        BY <3>2, <1>1
      <4> QED BY <4>1, <3>2, <1>6
    <3> QED BY <3>1, <3>2
  <2> QED BY <2>1, <2>2 DEF LandingEq
<1> PICK g : g = LandingFun(p)
  OBVIOUS
<1>8. LandingEq(g, p)
  BY <1>7 DEF LandingFun
<1>9. g = [k \in 0 .. n |-> IF k = 0 THEN <<>> ELSE Push(g[k - 1], p[k])]
  BY <1>8 DEF LandingEq
<1>10. InStep(f, g, n)
  <2>1. f[0] = g[0]
    BY <1>1, <1>5, <1>9
  <2>2. ASSUME NEW k \in 1 .. n, f[k - 1] = g[k - 1] PROVE f[k] = g[k]
    <3>1. k \in 0 .. n /\ k # 0
      BY <1>1
    <3>2. g[k] = Push(g[k - 1], p[k])
      BY <1>9, <3>1
    <3> QED BY <3>2, <2>2, <1>6
  <2> QED BY <2>1, <2>2 DEF InStep
<1>11. f[n] = g[n]
  BY <1>1, <1>10, Alike
<1>12. Landing(p) = g[n]
  BY Zenon DEF Landing, LandingFun, LandingEq, Rootless
<1> QED BY <1>5, <1>11, <1>12

\* A path that may be written: below wherever it is put.
Inside(p) == p \in Seq(Plain) /\ p # <<>> /\ Rootless(p)

\* A path that validate_relative_path accepts consists of plain components.
THEOREM ValidInside ==
    ASSUME NEW p \in Seq(Parts), ValidateRelativePath(p)
    PROVE  Inside(p)
<1>1. p # <<>> /\ Rootless(p) /\ \A i \in DOMAIN p : p[i] \notin Backslashed \cup RefusedNames \cup {".."}
  BY Zenon DEF ValidateRelativePath, Rootless
<1>2. \A i \in DOMAIN p : p[i] \in Plain
  <2> TAKE i \in DOMAIN p
  <2>1. p[i] \in Parts
    OBVIOUS
  <2> QED BY <2>1, <1>1 DEF Plain
<1>3. p \in Seq(Plain)
  <2>1. p = [i \in 1 .. Len(p) |-> p[i]] /\ Len(p) \in Nat /\ DOMAIN p = 1 .. Len(p)
    OBVIOUS
  <2> QED BY <2>1, <1>2
<1> QED BY <1>1, <1>3 DEF Inside

LEMMA InsideBelow ==
    ASSUME NEW p, NEW q, Inside(p), Inside(q)
    PROVE  Inside(p \o q)
<1>1. p \in Seq(Plain) /\ q \in Seq(Plain) /\ p # <<>>
  BY DEF Inside
<1>2. p \o q \in Seq(Plain) /\ Len(p \o q) = Len(p) + Len(q) /\ (p \o q)[1] = p[1] /\ p \o q # <<>>
  <2>1. Len(p) \in Nat /\ Len(q) \in Nat /\ Len(p) # 0
    BY <1>1
  <2>2. /\ p \o q \in Seq(Plain) /\ Len(p \o q) = Len(p) + Len(q)
        /\ \A i \in 1 .. Len(p) + Len(q) : (p \o q)[i] = IF i <= Len(p) THEN p[i] ELSE q[i - Len(p)]
    BY <1>1, ConcatProperties
  <2>3. 1 \in 1 .. Len(p) + Len(q) /\ 1 <= Len(p)
    BY <2>1
  <2>4. (p \o q)[1] = p[1]
    BY <2>2, <2>3
  <2>5. p \o q # <<>>
    BY <2>1, <2>2
  <2> QED BY <2>2, <2>4, <2>5
<1>3. Rootless(p \o q)
  BY <1>2, Zenon DEF Rootless, Inside
<1> QED BY <1>2, <1>3 DEF Inside

LEMMA DownloadInside == Inside(<<"download">>)
<1>1. "download" \in Plain
  <2>1. "download" \in Parts
    BY LiteralsAssumption DEF Literals
  <2>2. "download" \notin Backslashed \cup RefusedNames \cup {".."}
    BY DEF Backslashed, RefusedNames, Coloned, Trimmed, Devices
  <2> QED BY <2>1, <2>2 DEF Plain
<1>2. <<"download">> \in Seq(Plain) /\ <<"download">> # <<>> /\ <<"download">>[1] = "download"
  BY <1>1
<1>3. Rootless(<<"download">>)
  BY <1>2, Zenon DEF Rootless
<1> QED BY <1>2, <1>3 DEF Inside

\* A name or path that was put into a manifest.
LEMMA LiteralPaths ==
    /\ <<"..", "a">> \in Seq(Parts) /\ <<"NUL">> \in Seq(Parts)
    /\ <<"x", "..">> \in Seq(Parts) /\ <<"..\\e">> \in Seq(Parts)
    /\ <<"download">> \in Seq(Parts) /\ <<"e">> \in Seq(Parts)
<1>1. /\ "a" \in Parts /\ ".." \in Parts /\ "NUL" \in Parts /\ "x" \in Parts /\ "..\\e" \in Parts
      /\ "download" \in Parts /\ "e" \in Parts
  BY LiteralsAssumption DEF Literals
<1>2. \A x, y \in Parts : <<x>> \in Seq(Parts) /\ <<x, y>> \in Seq(Parts)
  OBVIOUS
<1> QED BY <1>1, <1>2

LEMMA SafeName ==
    ASSUME NEW p \in Seq(Parts), SanitizeOutputName(p).ok
    PROVE  Inside(SanitizeOutputName(p).val)
<1> DEFINE last == IF p # <<>> /\ Last(p) \in Backslashed THEN <<"e">>
                   ELSE IF p = <<>> \/ Last(p) = "" THEN <<>> ELSE <<Last(p)>>
<1>1. SanitizeOutputName(p) = IF ValidateRelativePath(last) THEN Ok(last) ELSE Err
  BY Zenon DEF SanitizeOutputName
<1>2. last = <<"e">> \/ last = <<>> \/ (p # <<>> /\ last = <<Last(p)>>)
  BY Zenon
<1> HIDE DEF last
<1>3. last \in Seq(Parts)
  <2>1. <<"e">> \in Seq(Parts) /\ <<>> \in Seq(Parts)
    BY LiteralPaths
  <2>2. p # <<>> => <<Last(p)>> \in Seq(Parts)
    <3> HAVE p # <<>>
    <3>1. Last(p) \in Parts
      BY DEF Last
    <3> QED BY <3>1
  <2> QED BY <1>2, <2>1, <2>2
<1>4. ValidateRelativePath(last) /\ SanitizeOutputName(p).val = last
  <2>1. CASE ValidateRelativePath(last)
    BY <2>1, <1>1 DEF Ok
  <2>2. CASE ~ValidateRelativePath(last)
    BY <2>2, <1>1 DEF Err
  <2> QED BY <2>1, <2>2
<1> QED BY <1>3, <1>4, ValidInside

\* Store::export_tree_to_dir writes no file whose path it refuses.
LEMMA ExportedPaths ==
    ASSUME NEW m, ManifestOk(m), NEW st, NEW w, w = ExportTreeToDir(m, st).files
    PROVE  /\ Len(w) \in Nat /\ Len(w) <= Len(m.files) /\ DOMAIN w = 1 .. Len(w)
           /\ w = [i \in 1 .. Len(w) |-> w[i]]
           /\ \A i \in 1 .. Len(w) : w[i] = FileWritten(m, st, m.files[i]) /\ Inside(m.files[i].path)
<1> PICK n : n = Len(m.files)
  OBVIOUS
<1>1. n \in Nat /\ DOMAIN m.files = 1 .. n /\ \A i \in 1 .. n : m.files[i].path \in Seq(Parts)
  <2>1. m.files \in Seq(EntryType)
    BY DEF ManifestOk
  <2>2. \A i \in 1 .. n : m.files[i] \in EntryType
    BY <2>1
  <2> QED BY <2>1, <2>2, EntryFields
<1> PICK K : K = {k \in Nat : \A i \in 1 .. k : FileOk(m, st, m.files[i])}
  OBVIOUS
<1> PICK good : good = Max({k \in 0 .. n : k \in K})
  OBVIOUS
<1>2. good \in 0 .. n /\ good \in K
  <2>1. 0 \in K
    OBVIOUS
  <2>2. n \in Nat
    BY <1>1
  <2> QED BY ONLY <2>1, <2>2, good = Max({k \in 0 .. n : k \in K}), GreatestOf
<1>3. {k \in 0 .. n : k \in K} = {k \in 0 .. n : \A i \in 1 .. k : FileOk(m, st, m.files[i])}
  BY <1>1
<1> PICK left : left = IF good < n /\ ValidateRelativePath(m.files[good + 1].path) THEN good + 1 ELSE good
  OBVIOUS
<1>4. ExportTreeToDir(m, st) = IF RootIsConsistent(m)
        THEN [ok |-> good = n, files |-> [i \in 1 .. left |-> FileWritten(m, st, m.files[i])]]
        ELSE [ok |-> FALSE, files |-> <<>>]
  BY <1>3 DEF ExportTreeToDir
<1>5. left \in Nat /\ left <= n
  BY <1>1, <1>2
<1>6. \A i \in 1 .. left : ValidateRelativePath(m.files[i].path)
  <2> TAKE i \in 1 .. left
  <2>1. CASE i <= good
    <3>1. i \in 1 .. good
      BY <2>1, <1>2, <1>5
    <3> QED BY <3>1, <1>2 DEF FileOk
  <2>2. CASE ~(i <= good)
    <3>1. i = good + 1 /\ left = good + 1
      BY <2>2, <1>1, <1>2, <1>5
    <3>2. ValidateRelativePath(m.files[good + 1].path)
      BY <3>1, <1>2
    <3> QED BY <3>1, <3>2
  <2> QED BY <2>1, <2>2
<1>7. CASE RootIsConsistent(m)
  <2>1. w = [i \in 1 .. left |-> FileWritten(m, st, m.files[i])]
    BY <1>4, <1>7
  <2>2. Len(w) = left /\ DOMAIN w = 1 .. left /\ w = [i \in 1 .. left |-> w[i]]
    BY <2>1, <1>5, SMTT(30)
  <2>3. ASSUME NEW i \in 1 .. left PROVE w[i] = FileWritten(m, st, m.files[i]) /\ Inside(m.files[i].path)
    <3>1. i \in 1 .. n
      BY <1>1, <1>5
    <3> QED BY <3>1, <2>1, <1>1, <1>6, ValidInside
  <2> QED BY <2>2, <2>3, <1>5
<1>8. CASE ~RootIsConsistent(m)
  <2>1. w = <<>>
    BY <1>4, <1>8
  <2>2. Len(w) = 0 /\ DOMAIN w = 1 .. 0 /\ w = [i \in 1 .. 0 |-> w[i]]
    BY <2>1
  <2> QED BY <2>2, <1>1
<1> QED BY <1>7, <1>8

LEMMA DirFiles ==
    ASSUME NEW m, ManifestOk(m), Validate(m), NEW st, Held(m, st),
           NEW w, w = ExportTreeToDir(m, st).files
    PROVE  w = SubSeq(FilesOf(m), 1, Len(w))
<1> PICK n : n = Len(m.files)
  OBVIOUS
<1> PICK l : l = Len(w)
  OBVIOUS
<1> PICK fs : fs = FilesOf(m)
  OBVIOUS
<1>1. /\ l \in Nat /\ l <= n /\ w = [i \in 1 .. l |-> w[i]]
      /\ \A i \in 1 .. l : w[i] = FileWritten(m, st, m.files[i])
  BY ExportedPaths
<1>0. n \in Nat
  BY DEF ManifestOk
<1>2. fs \in Seq(FileType) /\ Len(fs) = n /\ \A i \in 1 .. n : fs[i] = [path |-> m.files[i].path, data |-> Data(OwnChunks(m, m.files[i]))]
  BY ContentsFact
<1>3. ASSUME NEW i \in 1 .. l PROVE w[i] = fs[i]
  <2>1. i \in 1 .. n
    BY <1>0, <1>1
  <2>2. GoodChunks(m, st, m.files[i]) = m.files[i].chunk_count
    BY <2>1, AllGood
  <2>3. FileWritten(m, st, m.files[i]) = [path |-> m.files[i].path, data |-> Data(OwnChunks(m, m.files[i]))]
    BY <2>2 DEF FileWritten, OwnChunks
  <2>4. w[i] = FileWritten(m, st, m.files[i])
    BY <1>1
  <2>5. fs[i] = [path |-> m.files[i].path, data |-> Data(OwnChunks(m, m.files[i]))]
    BY <2>1, <1>2
  <2> QED BY ONLY <2>3, <2>4, <2>5
<1>4. SubSeq(fs, 1, l) = [i \in 1 .. l |-> fs[i]]
  <2>1. In(FileType, fs, 0, l)
    BY <1>0, <1>1, <1>2 DEF In
  <2>2. IsCut(Cut(fs, 0, l), FileType, fs, 0, l)
    BY ONLY <2>1, CutType
  <2> PICK b : b = Cut(fs, 0, l)
    OBVIOUS
  <2>3. l - 0 = l /\ \A i \in 1 .. l : 0 + i = i
    BY <1>1
  <2>4. b \in Seq(FileType) /\ Len(b) = l /\ \A i \in 1 .. l : b[i] = fs[i]
    BY <2>2, <2>3 DEF IsCut
  <2>5. b = [i \in 1 .. l |-> b[i]]
    BY ONLY <2>4, <1>1
  <2>6. b = [i \in 1 .. l |-> fs[i]]
    BY ONLY <2>4, <2>5
  <2> QED BY <2>6 DEF Cut
<1> QED BY ONLY <1>1, <1>3, <1>4, l = Len(w), fs = FilesOf(m)

\* If no path is refused, export_tree_to_dir writes every file.
LEMMA AllExported ==
    ASSUME NEW m, ManifestOk(m), RootIsConsistent(m), Validate(m), NEW st, Held(m, st),
           \A i \in DOMAIN FilesOf(m) : ValidateRelativePath(FilesOf(m)[i].path),
           NEW w, w = ExportTreeToDir(m, st)
    PROVE  w.ok /\ w.files = FilesOf(m)
<1> PICK n : n = Len(m.files)
  OBVIOUS
<1> PICK fs : fs = FilesOf(m)
  OBVIOUS
<1>0. n \in Nat /\ DOMAIN m.files = 1 .. n
  BY DEF ManifestOk
<1>1. /\ fs \in Seq(FileType) /\ Len(fs) = n
      /\ \A i \in 1 .. n : fs[i] = [path |-> m.files[i].path, data |-> Contents(m)[i]]
  BY ContentsFact
<1>2. \A i \in 1 .. n : FileOk(m, st, m.files[i])
  <2> TAKE i \in 1 .. n
  <2>1. i \in DOMAIN fs /\ fs[i].path = m.files[i].path
    <3>1. DOMAIN fs = 1 .. n
      BY ONLY <1>1, <1>0
    <3>2. fs[i] = [path |-> m.files[i].path, data |-> Contents(m)[i]]
      BY <1>1
    <3> QED BY ONLY <3>1, <3>2
  <2>2. GoodChunks(m, st, m.files[i]) = m.files[i].chunk_count
    BY AllGood
  <2> QED BY <2>1, <2>2 DEF FileOk
<1> PICK K : K = {k \in Nat : \A i \in 1 .. k : FileOk(m, st, m.files[i])}
  OBVIOUS
<1> PICK good : good = Max({k \in 0 .. n : k \in K})
  OBVIOUS
<1>3. n \in K /\ 0 \in K
  BY <1>0, <1>2
<1>4. good \in 0 .. n /\ \A k \in 0 .. n : k \in K => k <= good
  BY ONLY <1>0, <1>3, good = Max({k \in 0 .. n : k \in K}), GreatestOf
<1>5. good = n
  <2>1. n \in 0 .. n
    BY <1>0
  <2>2. n <= good
    BY <2>1, <1>3, <1>4
  <2> QED BY ONLY <2>2, <1>0, <1>4
<1>6. {k \in 0 .. n : k \in K} = {k \in 0 .. n : \A i \in 1 .. k : FileOk(m, st, m.files[i])}
  BY <1>0
<1>7. w = [ok |-> good = n, files |-> [i \in 1 .. good |-> FileWritten(m, st, m.files[i])]]
  <2>1. ~(good < n)
    BY ONLY <1>0, <1>5
  <2> PICK left : left = IF good < n /\ ValidateRelativePath(m.files[good + 1].path) THEN good + 1 ELSE good
    OBVIOUS
  <2>2. left = good
    BY ONLY <2>1, left = IF good < n /\ ValidateRelativePath(m.files[good + 1].path) THEN good + 1 ELSE good
  <2>3. w = [ok |-> good = n, files |-> [i \in 1 .. left |-> FileWritten(m, st, m.files[i])]]
    BY <1>6 DEF ExportTreeToDir
  <2> QED BY <2>2, <2>3
<1> PICK written : written = w.files
  OBVIOUS
<1>8. w.ok /\ Len(written) = n
  <2>1. w.ok /\ written = [i \in 1 .. good |-> FileWritten(m, st, m.files[i])]
    <3>1. (good = n) = TRUE
      BY <1>5, Zenon
    <3>2. w = [ok |-> TRUE, files |-> [i \in 1 .. good |-> FileWritten(m, st, m.files[i])]]
      BY ONLY <3>1, <1>7, Zenon
    <3> QED BY ONLY <3>2, written = w.files
  <2>2. Len(written) = good
    <3>1. good \in Nat
      BY ONLY <1>0, <1>5
    <3> QED BY ONLY <2>1, <3>1
  <2> QED BY ONLY <2>1, <2>2, <1>5
<1>9. written = SubSeq(fs, 1, Len(written))
  BY DirFiles
<1>10. SubSeq(fs, 1, n) = fs
  BY <1>1
<1> QED BY ONLY <1>8, <1>9, <1>10, written = w.files, fs = FilesOf(m)
=============================================================================
