--------------------------- MODULE SwapPoolProofs ---------------------------
(***************************************************************************)
(* Proofs about the activation swap pool, for any number of tensors of any *)
(* sizes, any capacity and alignment, and any number of closing threads:   *)
(* the free list and the allocated extents always tile the region, and so  *)
(* no copy writes the bytes of another tensor.  At the end, proofs about   *)
(* the disk offloading.                                                    *)
(***************************************************************************)
EXTENDS SwapPool, DiskOffload, SequenceLemmas, TLAPS

-----------------------------------------------------------------------------
(* Lists of extents.                                                       *)

Extent == {e \in Byte \X (1..Capacity) : e[1] + e[2] <= Capacity}

End(e) == e[1] + e[2]

\* In the order of their offsets, without overlaps.
Ordered(q) == \A i, j \in 1..Len(q) : i < j => End(q[i]) <= q[j][1]

\* And no two of them touch.
Gaps(q) == \A i, j \in 1..Len(q) : i < j => End(q[i]) < q[j][1]

Covers(q, b) == \E i \in 1..Len(q) : b \in Span(q[i])

Apart(d, e) == End(d) <= e[1] \/ End(e) <= d[1]

LEMMA Sizes == Capacity \in Nat /\ Capacity >= 1 /\ Align \in Nat /\ Align >= 1
BY SwapAssumption

LEMMA ExtentFacts ==
    \A e \in Extent : /\ e[1] \in Nat /\ e[2] \in Nat /\ e[2] >= 1
                      /\ End(e) \in Nat /\ End(e) <= Capacity /\ e[1] < End(e)
                      /\ e = <<e[1], e[2]>>
BY Sizes DEF Extent, Byte, End

LEMMA AnExtent ==
    ASSUME NEW a \in Nat, NEW n \in Nat, n >= 1, a + n <= Capacity
    PROVE  <<a, n>> \in Extent
<1>1. a \in Byte /\ n \in 1..Capacity
  BY Sizes DEF Byte
<1> QED BY <1>1 DEF Extent

LEMMA SpanFacts ==
    /\ \A a, n \in Nat : \A b : b \in Span(<<a, n>>) <=> b \in Int /\ a <= b /\ b < a + n
    /\ \A e \in Extent : \A b : b \in Span(e) <=> b \in Int /\ e[1] <= b /\ b < End(e)
<1>1. ASSUME NEW a \in Nat, NEW n \in Nat, NEW b
      PROVE  b \in Span(<<a, n>>) <=> b \in Int /\ a <= b /\ b < a + n
  BY DEF Span
<1>2. ASSUME NEW e \in Extent, NEW b
      PROVE  b \in Span(e) <=> b \in Int /\ e[1] <= b /\ b < End(e)
  BY ExtentFacts DEF Span, End
<1> QED BY <1>1, <1>2

\* Two extents with no byte in common lie apart.
LEMMA DisjointApart ==
    ASSUME NEW d \in Extent, NEW e \in Extent,
           \A b \in Byte : ~ (b \in Span(d) /\ b \in Span(e))
    PROVE  Apart(d, e)
<1>1. SUFFICES ASSUME ~ Apart(d, e) PROVE FALSE
  OBVIOUS
<1>2. e[1] < End(d) /\ d[1] < End(e)
  BY <1>1, ExtentFacts DEF Apart
<1>3. PICK b \in {d[1], e[1]} : b >= d[1] /\ b >= e[1]
  BY ExtentFacts
<1>4. b \in Nat /\ b < End(d) /\ b < End(e)
  BY <1>2, <1>3, ExtentFacts
<1>5. b \in Byte
  BY <1>4, ExtentFacts, Sizes DEF Byte
<1>6. b \in Span(d) /\ b \in Span(e)
  BY <1>3, <1>4, SpanFacts
<1> QED BY <1>5, <1>6

\* self._free.sort()
LEMMA ByOffsetLists ==
    ASSUME NEW S \in SUBSET Extent, IsFiniteSet(S), \A d, e \in S : d # e => Apart(d, e)
    PROVE  /\ ByOffset(S) \in Seq(Extent) /\ ToSet(ByOffset(S)) = S
           /\ Ordered(ByOffset(S))
<1> DEFINE O == {e[1] : e \in S}
           q == Sorted(O)
           r == ByOffset(S)
<1>1. O \in SUBSET Nat /\ IsFiniteSet(O)
  <2> DEFINE f == [e \in S |-> e[1]]
  <2>1. f \in Surjection(S, O)
    BY DEF Surjection
  <2>2. IsFiniteSet(O)
    <3> HIDE DEF f, O
    <3> QED BY <2>1, FS_Surjection
  <2>3. O \subseteq Nat
    BY ExtentFacts
  <2> QED BY <2>2, <2>3
<1>2. \A o \in O : \E e \in S : e[1] = o
  OBVIOUS
<1>3. \A e \in S : e[1] \in O
  OBVIOUS
<1>4. r = [i \in 1..Len(q) |-> CHOOSE e \in S : e[1] = q[i]]
  BY DEF ByOffset
<1> HIDE DEF O
<1>5. /\ q \in Seq(O) /\ ToSet(q) = O /\ Increases(q, Len(q))
      /\ Len(q) \in Nat /\ \A i \in 1..Len(q) : q[i] \in O
  BY <1>1, SortedLists, LenProperties, ElementOfSeq
<1>6. \A x : x \in O <=> \E i \in 1..Len(q) : q[i] = x
  BY <1>5, ToSetDef
<1> HIDE DEF q, r
<1>7. \A i \in 1..Len(q) : r[i] \in S /\ r[i][1] = q[i]
  BY <1>2, <1>4, <1>5
<1>8. r \in Seq(Extent) /\ Len(r) = Len(q)
  <2>1. r \in [1..Len(q) -> Extent]
    BY <1>4, <1>7
  <2> QED BY <2>1, <1>5, SeqDef, LenProperties
<1>9. \A e \in S : \A d \in S : d[1] = e[1] => d = e
  BY ExtentFacts DEF Apart
<1>10. ToSet(r) = S
  <2>1. \A x : x \in ToSet(r) <=> \E i \in 1..Len(q) : r[i] = x
    BY <1>8, ToSetDef
  <2>2. ASSUME NEW e \in S PROVE \E i \in 1..Len(q) : r[i] = e
    <3>1. PICK i \in 1..Len(q) : q[i] = e[1]
      BY <1>3, <1>6
    <3>2. r[i] = e
      BY <1>7, <1>9, <3>1
    <3> QED BY <3>2
  <2> QED BY <1>7, <2>1, <2>2
<1>11. Ordered(r)
  <2> SUFFICES ASSUME NEW i \in 1..Len(q), NEW j \in 1..Len(q), i < j
               PROVE  End(r[i]) <= r[j][1]
    BY <1>8 DEF Ordered
  <2>1. r[i] \in Extent /\ r[j] \in Extent /\ r[i][1] < r[j][1]
    BY <1>5, <1>7 DEF Increases
  <2>2. r[i] # r[j]
    BY <2>1, ExtentFacts
  <2>3. Apart(r[i], r[j])
    BY <1>7, <2>2
  <2> QED BY <2>1, <2>3, ExtentFacts DEF Apart
<1> QED BY <1>8, <1>10, <1>11 DEF r

\* One step of the loop of _coalesce_locked.
LEMMA MergeStep ==
    ASSUME NEW m \in Seq(Extent), NEW e \in Extent, Gaps(m),
           \A i \in 1..Len(m) : End(m[i]) <= e[1]
    PROVE  /\ Merge(m, e) \in Seq(Extent) /\ Gaps(Merge(m, e))
           /\ \A i \in 1..Len(Merge(m, e)) : End(Merge(m, e)[i]) <= End(e)
           /\ \A b : Covers(Merge(m, e), b) <=> Covers(m, b) \/ b \in Span(e)
<1> DEFINE n == Len(m)
           r == Merge(m, e)
<1>1. n \in Nat /\ \A i \in 1..n : m[i] \in Extent
  BY LenProperties, ElementOfSeq
<1>2. CASE ~ (m # <<>> /\ End(Last(m)) = e[1])
  <2>1. r = Append(m, e)
    BY <1>2 DEF Merge, End
  <2> HIDE DEF r
  <2>2. /\ r \in Seq(Extent) /\ Len(r) = n + 1 /\ r[n + 1] = e
        /\ \A i \in 1..n : r[i] = m[i]
    BY <2>1, AppendProperties
  <2>3. \A i \in 1..n : End(m[i]) < e[1]
    <3> SUFFICES ASSUME NEW i \in 1..n PROVE End(m[i]) < e[1]
      OBVIOUS
    <3>1. n >= 1 /\ m # <<>> /\ n \in 1..n
      BY <1>1, EmptySeq
    <3>2. End(m[n]) # e[1]
      BY <1>2, <3>1 DEF Last
    <3>3. CASE i = n
      BY <1>1, <3>1, <3>2, <3>3, ExtentFacts
    <3>4. CASE i # n
      <4>1. i < n
        BY <1>1, <3>4
      <4>2. End(m[i]) < m[n][1] /\ m[n][1] < End(m[n]) /\ End(m[n]) <= e[1]
        BY <1>1, <3>1, <4>1, ExtentFacts DEF Gaps
      <4>3. End(m[i]) \in Nat /\ End(m[n]) \in Nat /\ m[n][1] \in Nat /\ e[1] \in Nat
        BY <1>1, <3>1, ExtentFacts
      <4> QED BY <4>2, <4>3
    <3> QED BY <3>3, <3>4
  <2>4. \A i \in 1..(n + 1) : i \in 1..n \/ i = n + 1
    BY <1>1
  <2>5. Gaps(r)
    <3> SUFFICES ASSUME NEW i \in 1..(n + 1), NEW j \in 1..(n + 1), i < j
                 PROVE  End(r[i]) < r[j][1]
      BY <2>2 DEF Gaps
    <3>1. i \in 1..n
      BY <1>1
    <3> QED BY <2>2, <2>3, <2>4, <3>1 DEF Gaps
  <2>6. \A i \in 1..Len(r) : End(r[i]) <= End(e)
    <3> SUFFICES ASSUME NEW i \in 1..(n + 1) PROVE End(r[i]) <= End(e)
      BY <2>2
    <3>1. End(e) \in Nat /\ e[1] \in Nat /\ e[1] <= End(e)
      BY ExtentFacts
    <3>2. CASE i = n + 1
      BY <2>2, <3>1, <3>2
    <3>3. CASE i \in 1..n
      <4>1. r[i] = m[i] /\ End(m[i]) \in Nat /\ End(m[i]) < e[1]
        BY <1>1, <2>2, <2>3, <3>3, ExtentFacts
      <4> QED BY <3>1, <4>1
    <3> QED BY <2>4, <3>2, <3>3
  <2>7. \A b : Covers(r, b) <=> Covers(m, b) \/ b \in Span(e)
    <3>1. n + 1 \in 1..(n + 1) /\ \A i \in 1..n : i \in 1..(n + 1)
      BY <1>1
    <3> QED BY <2>2, <2>4, <3>1 DEF Covers
  <2> QED BY <2>2, <2>5, <2>6, <2>7 DEF r
<1>3. CASE m # <<>> /\ End(Last(m)) = e[1]
  <2> DEFINE l == m[n]
             k == n - 1
             d == <<l[1], l[2] + e[2]>>
  <2>1. /\ n >= 1 /\ n \in 1..n /\ k \in Nat /\ k + 1 = n
        /\ l \in Extent /\ End(l) = e[1] /\ Last(m) = l
    BY <1>1, <1>3, EmptySeq DEF Last
  <2>2. r = Append(Front(m), d)
    BY <1>3, <2>1 DEF Merge, End
  <2>3. /\ d \in Extent /\ End(d) = End(e) /\ d[1] = l[1]
        /\ \A b : b \in Span(d) <=> b \in Span(l) \/ b \in Span(e)
    <3>1. l[1] \in Nat /\ l[2] + e[2] \in Nat /\ l[2] + e[2] >= 1 /\ l[1] + l[2] = e[1]
      BY <2>1, ExtentFacts DEF End
    <3>2. d \in Extent
      <4>1. l[1] + (l[2] + e[2]) <= Capacity
        BY <2>1, <3>1, ExtentFacts DEF End
      <4> QED BY <3>1, <4>1, AnExtent
    <3>3. End(d) = End(e) /\ d[1] = l[1]
      BY <2>1, <3>1, ExtentFacts DEF End
    <3> HIDE DEF d, l
    <3>4. \A b : b \in Span(d) <=> b \in Span(l) \/ b \in Span(e)
      <4> SUFFICES ASSUME NEW b PROVE b \in Span(d) <=> b \in Span(l) \/ b \in Span(e)
        OBVIOUS
      <4>1. /\ b \in Span(d) <=> b \in Int /\ d[1] <= b /\ b < End(d)
            /\ b \in Span(l) <=> b \in Int /\ l[1] <= b /\ b < End(l)
            /\ b \in Span(e) <=> b \in Int /\ e[1] <= b /\ b < End(e)
        BY <2>1, <3>2, SpanFacts
      <4>2. l[1] \in Nat /\ e[1] \in Nat /\ End(e) \in Nat /\ l[1] < e[1] /\ e[1] < End(e)
        BY <2>1, ExtentFacts
      <4> QED BY <2>1, <3>3, <4>1, <4>2
    <3> QED BY <3>2, <3>3, <3>4
  <2>4. /\ Front(m) \in Seq(Extent) /\ Len(Front(m)) = k
        /\ \A i \in 1..k : Front(m)[i] = m[i]
    <3>1. /\ 1 \in Int /\ n - 1 \in Int /\ \A i \in 1..(n - 1) : m[i] \in Extent
      BY <1>1
    <3>2. Front(m) = SubSeq(m, 1, n - 1)
      BY DEF Front
    <3>3. /\ SubSeq(m, 1, n - 1) \in Seq(Extent)
          /\ Len(SubSeq(m, 1, n - 1)) = IF 1 <= n - 1 THEN (n - 1) - 1 + 1 ELSE 0
          /\ \A i \in 1..((n - 1) - 1 + 1) : SubSeq(m, 1, n - 1)[i] = m[1 + i - 1]
      BY <3>1, SubSeqProperties
    <3>4. k = (n - 1) - 1 + 1 /\ \A i \in 1..k : 1 + i - 1 = i
      BY <2>1
    <3> HIDE DEF n
    <3> QED BY <2>1, <3>2, <3>3, <3>4
  <2> HIDE DEF r, d, l, k
  <2>5. /\ r \in Seq(Extent) /\ Len(r) = n /\ r[n] = d
        /\ \A i \in 1..k : r[i] = m[i]
    BY <2>1, <2>2, <2>3, <2>4, AppendProperties
  <2>6. \A i \in 1..n : i \in 1..k \/ i = n
    BY <2>1
  <2>7. \A i \in 1..k : i \in 1..n /\ i < n
    BY <2>1
  <2>8. Gaps(r)
    <3> SUFFICES ASSUME NEW i \in 1..n, NEW j \in 1..n, i < j
                 PROVE  End(r[i]) < r[j][1]
      BY <2>5 DEF Gaps
    <3>1. i \in 1..k /\ End(m[i]) < m[j][1]
      BY <2>1 DEF Gaps
    <3> QED BY <2>3, <2>5, <2>6, <3>1 DEF l
  <2>9. \A i \in 1..n : End(r[i]) <= End(e)
    <3> SUFFICES ASSUME NEW i \in 1..n PROVE End(r[i]) <= End(e)
      OBVIOUS
    <3>1. CASE i = n
      <4>1. End(r[i]) = End(e) /\ End(e) \in Nat
        BY <2>3, <2>5, <3>1, ExtentFacts
      <4> QED BY <4>1
    <3>2. CASE i \in 1..k
      <4>1. End(m[i]) <= e[1] /\ m[i] \in Extent
        BY <1>1, <2>7, <3>2
      <4>2. End(m[i]) <= End(e)
        BY <4>1, ExtentFacts
      <4> QED BY <2>5, <3>2, <4>2
    <3> QED BY <2>6, <3>1, <3>2
  <2>10. \A b : Covers(r, b) <=> Covers(m, b) \/ b \in Span(e)
    <3>1. \A b : Covers(r, b) <=> (\E i \in 1..k : b \in Span(m[i])) \/ b \in Span(d)
      BY <2>1, <2>5, <2>6, <2>7 DEF Covers
    <3>2. \A b : Covers(m, b) <=> (\E i \in 1..k : b \in Span(m[i])) \/ b \in Span(l)
      BY <2>1, <2>6, <2>7 DEF Covers, l
    <3> QED BY <2>3, <3>1, <3>2
  <2> QED BY <2>5, <2>8, <2>9, <2>10 DEF r
<1> QED BY <1>2, <1>3

\* The whole loop: neighbours are joined and no byte is won or lost.
LEMMA MergedAll ==
    ASSUME NEW q \in Seq(Extent), Ordered(q)
    PROVE  /\ MergeAll(q) \in Seq(Extent) /\ Gaps(MergeAll(q))
           /\ \A b : Covers(MergeAll(q), b) <=> Covers(q, b)
<1> DEFINE n == Len(q)
           Step(g, i) == IF i = 0 THEN <<>> ELSE Merge(g[i - 1], q[i])
           Solves(g, k) == g = [i \in 0..k |-> Step(g, i)]
<1>0. n \in Nat /\ \A i \in 1..n : q[i] \in Extent
  BY LenProperties, ElementOfSeq
<1>1. \A k \in Nat : \E g : Solves(g, k)
  <2> DEFINE K == {k \in Nat : \E g : Solves(g, k)}
  <2>1. 0 \in K
    <3>1. Solves([i \in 0..0 |-> <<>>], 0)
      OBVIOUS
    <3> QED BY <3>1
  <2>2. ASSUME NEW k \in K PROVE k + 1 \in K
    <3>1. PICK g : Solves(g, k)
      OBVIOUS
    <3> DEFINE h == [i \in 0..(k + 1) |-> Step(g, i)]
    <3> HIDE DEF Step
    <3>2. \A i \in 0..k : i \in 0..(k + 1) /\ h[i] = g[i]
      BY <3>1
    <3>3. \A i \in 0..(k + 1) : i # 0 => i - 1 \in 0..k
      OBVIOUS
    <3>4. ASSUME NEW i \in 0..(k + 1) PROVE Step(h, i) = Step(g, i)
      <4> HIDE DEF h
      <4> QED BY <3>2, <3>3 DEF Step
    <3>5. h = [i \in 0..(k + 1) |-> Step(h, i)]
      <4>1. h = [i \in 0..(k + 1) |-> Step(g, i)]
        OBVIOUS
      <4> HIDE DEF h
      <4> QED BY <3>4, <4>1
    <3> HIDE DEF h
    <3>6. Solves(h, k + 1)
      BY <3>5
    <3>7. \E e : Solves(e, k + 1)
      BY <3>6
    <3>8. k + 1 \in Nat
      OBVIOUS
    <3> QED BY <3>7, <3>8
  <2> HIDE DEF K
  <2>3. K = Nat
    <3>1. K \in SUBSET Nat BY DEF K
    <3> QED BY <3>1, <2>1, <2>2, NaturalInduction
  <2> QED BY <2>3 DEF K
<1>2. PICK f : MergeAll(q) = f[n] /\ f = [i \in 0..n |-> Step(f, i)]
  BY <1>0, <1>1 DEF MergeAll
<1> DEFINE Merged(m, i) == /\ m \in Seq(Extent) /\ Gaps(m)
                           /\ \A j \in 1..Len(m) : \A k \in (i + 1)..n : End(m[j]) <= q[k][1]
                           /\ \A b : Covers(m, b) <=> \E j \in 1..i : b \in Span(q[j])
           Good(i) == i <= n => Merged(f[i], i)
<1>3. \A i \in Nat : Good(i)
  <2> DEFINE G == {i \in Nat : Good(i)}
  <2>1. 0 \in G
    <3>1. f[0] = <<>>
      BY <1>2, <1>0
    <3>2. <<>> \in Seq(Extent) /\ Len(<<>>) = 0
      BY EmptySeq
    <3> DEFINE m == <<>>
    <3> HIDE DEF m
    <3>3. m \in Seq(Extent) /\ Len(m) = 0
      BY <3>2 DEF m
    <3>4. Merged(m, 0)
      BY <3>3 DEF Gaps, Covers
    <3>5. Good(0)
      BY <3>1, <3>4 DEF m
    <3> QED BY <3>5
  <2>2. ASSUME NEW i \in G PROVE i + 1 \in G
    <3> SUFFICES ASSUME i + 1 <= n PROVE Merged(f[i + 1], i + 1)
      OBVIOUS
    <3> DEFINE m == f[i]
               e == q[i + 1]
    <3>0. i \in Nat /\ i + 1 \in 1..n /\ i <= n
      BY <1>0
    <3>1. f[i + 1] = Merge(m, e)
      <4>1. i + 1 \in 0..n /\ i + 1 # 0 /\ (i + 1) - 1 = i
        BY <3>0
      <4> QED BY <1>2, <4>1
    <3>2. Merged(m, i)
      BY <3>0
    <3> HIDE DEF m
    <3>3. e \in Extent /\ \A j \in 1..Len(m) : End(m[j]) <= e[1]
      BY <1>0, <3>0, <3>2
    <3>4. /\ Merge(m, e) \in Seq(Extent) /\ Gaps(Merge(m, e))
          /\ \A j \in 1..Len(Merge(m, e)) : End(Merge(m, e)[j]) <= End(e)
          /\ \A b : Covers(Merge(m, e), b) <=> Covers(m, b) \/ b \in Span(e)
      BY <3>2, <3>3, MergeStep
    <3>5. \A j \in 1..Len(Merge(m, e)) : Merge(m, e)[j] \in Extent
      BY <3>4, ElementOfSeq
    <3>6. \A k \in ((i + 1) + 1)..n : q[k] \in Extent /\ End(e) <= q[k][1]
      <4> SUFFICES ASSUME NEW k \in ((i + 1) + 1)..n PROVE q[k] \in Extent /\ End(e) <= q[k][1]
        OBVIOUS
      <4>1. k \in 1..n /\ i + 1 < k
        BY <3>0, <1>0
      <4> QED BY <1>0, <3>0, <4>1 DEF Ordered
    <3> DEFINE r == Merge(m, e)
    <3> HIDE DEF r
    <3>7. \A j \in 1..Len(r) : \A k \in ((i + 1) + 1)..n : End(r[j]) <= q[k][1]
      <4> SUFFICES ASSUME NEW j \in 1..Len(r), NEW k \in ((i + 1) + 1)..n
                   PROVE  End(r[j]) <= q[k][1]
        OBVIOUS
      <4>1. End(r[j]) <= End(e) /\ End(e) <= q[k][1]
        BY <3>4, <3>6 DEF r
      <4>2. End(r[j]) \in Nat /\ End(e) \in Nat /\ q[k][1] \in Nat
        BY <3>3, <3>5, <3>6, ExtentFacts DEF r
      <4> QED BY <4>1, <4>2
    <3>8. \A b : Covers(r, b) <=> \E j \in 1..(i + 1) : b \in Span(q[j])
      <4>1. \A j \in 1..(i + 1) : j \in 1..i \/ j = i + 1
        BY <3>0
      <4>2. i + 1 \in 1..(i + 1) /\ \A j \in 1..i : j \in 1..(i + 1)
        BY <3>0
      <4>3. \A b : Covers(r, b) <=> (\E j \in 1..i : b \in Span(q[j])) \/ b \in Span(q[i + 1])
        BY <3>2, <3>4 DEF r
      <4> QED BY <4>1, <4>2, <4>3
    <3> QED BY <3>1, <3>4, <3>7, <3>8 DEF r
  <2> HIDE DEF G
  <2>3. G = Nat
    <3>1. G \in SUBSET Nat BY DEF G
    <3> QED BY <3>1, <2>1, <2>2, NaturalInduction
  <2> QED BY <2>3 DEF G
<1>4. Merged(f[n], n)
  <2>1. n \in Nat /\ n <= n
    BY <1>0
  <2> HIDE DEF Merged
  <2> QED BY <1>3, <2>1
<1> QED BY <1>2, <1>4 DEF Covers

\* _coalesce_locked, for extents with no byte in common.
LEMMA Coalesced ==
    ASSUME NEW q \in Seq(Extent),
           \A i, j \in 1..Len(q) : q[i] # q[j] => Apart(q[i], q[j])
    PROVE  /\ Coalesce(q) \in Seq(Extent) /\ Gaps(Coalesce(q))
           /\ \A b : Covers(Coalesce(q), b) <=> Covers(q, b)
<1> DEFINE S == ToSet(q)
<1>1. \A x : x \in S <=> \E i \in 1..Len(q) : q[i] = x
  BY ToSetDef
<1>2. S \in SUBSET Extent
  BY ToSetDef
<1>3. IsFiniteSet(S)
  <2>1. q \in Surjection(1..Len(q), S) /\ Len(q) \in Nat
    <3>1. DOMAIN q = 1..Len(q) /\ Len(q) \in Nat /\ q = [i \in 1..Len(q) |-> q[i]]
      BY LenProperties
    <3>2. q \in [1..Len(q) -> S]
      BY <1>1, <3>1
    <3> QED BY <1>1, <3>1, <3>2 DEF Surjection
  <2>2. IsFiniteSet(1..Len(q))
    BY <2>1, FS_Interval
  <2> HIDE DEF S
  <2> QED BY <2>1, <2>2, FS_Surjection
<1>4. \A d, e \in S : d # e => Apart(d, e)
  BY <1>1
<1> HIDE DEF S
<1> DEFINE r == ByOffset(S)
<1>5. r \in Seq(Extent) /\ ToSet(r) = S /\ Ordered(r)
  BY <1>2, <1>3, <1>4, ByOffsetLists
<1>6. /\ MergeAll(r) \in Seq(Extent) /\ Gaps(MergeAll(r))
      /\ \A b : Covers(MergeAll(r), b) <=> Covers(r, b)
  BY <1>5, MergedAll
<1>7. \A x : x \in S <=> \E i \in 1..Len(r) : r[i] = x
  BY <1>5, ToSetDef
<1>8. \A b : Covers(r, b) <=> Covers(q, b)
  <2>1. \A b : Covers(r, b) <=> \E e \in S : b \in Span(e)
    BY <1>7 DEF Covers
  <2>2. \A b : Covers(q, b) <=> \E e \in S : b \in Span(e)
    BY <1>1 DEF Covers
  <2> QED BY <2>1, <2>2
<1>9. Coalesce(q) = MergeAll(r)
  BY DEF Coalesce, S
<1> QED BY <1>6, <1>8, <1>9

\* The alignment never takes a size below what was asked for.
LEMMA RoundUpFacts ==
    ASSUME NEW n \in Nat, n >= 1
    PROVE  RoundUp(n) \in Nat /\ RoundUp(n) >= n
<1> DEFINE a == Align
           d == (n + a - 1) \div a
<1>1. a \in Nat /\ a >= 1
  BY Sizes
<1>2. d \in Int /\ d * a <= n + a - 1 /\ n + a - 1 < (d + 1) * a
  BY <1>1
<1> HIDE DEF a, d
<1>3. (d + 1) * a = d * a + a /\ d * a \in Int
  BY <1>1, <1>2
<1>4. RoundUp(n) = d * a
  BY DEF RoundUp, d, a
<1> QED BY <1>1, <1>2, <1>3, <1>4

\* What acquire leaves of the free list when extent i gives n bytes.
Taken(q, i, n) ==
    SubSeq(q, 1, i - 1) \o Remainder(q[i], n) \o SubSeq(q, i + 1, Len(q))

\* An extent that is used up is gone from the list, any other one is shorter.
LEMMA TakenList ==
    ASSUME NEW q \in Seq(Extent), NEW i \in 1..Len(q), NEW n \in Nat, n >= 1, n <= q[i][2]
    PROVE  /\ Taken(q, i, n) \in Seq(Extent)
           /\ n = q[i][2] => /\ Len(Taken(q, i, n)) = Len(q) - 1
                             /\ \A k \in 1..(Len(q) - 1) :
                                   Taken(q, i, n)[k] = IF k < i THEN q[k] ELSE q[k + 1]
           /\ n # q[i][2] => /\ Len(Taken(q, i, n)) = Len(q)
                             /\ \A k \in 1..Len(q) :
                                   Taken(q, i, n)[k] = IF k = i THEN <<q[i][1] + n, q[i][2] - n>>
                                                       ELSE q[k]
<1> DEFINE l == Len(q)
           before == SubSeq(q, 1, i - 1)
           rest == Remainder(q[i], n)
           after == SubSeq(q, i + 1, Len(q))
           front == before \o rest
           r == Taken(q, i, n)
<1>1. l \in Nat /\ i \in Nat /\ i >= 1 /\ i <= l /\ \A k \in 1..l : q[k] \in Extent
  BY LenProperties, ElementOfSeq
<1>2. /\ before \in Seq(Extent) /\ Len(before) = i - 1
      /\ \A k \in 1..(i - 1) : before[k] = q[k]
  <2>1. 1 \in Int /\ i - 1 \in Int /\ \A k \in 1..(i - 1) : q[k] \in Extent
    BY <1>1
  <2>2. /\ SubSeq(q, 1, i - 1) \in Seq(Extent)
        /\ Len(SubSeq(q, 1, i - 1)) = IF 1 <= i - 1 THEN (i - 1) - 1 + 1 ELSE 0
        /\ \A k \in 1..((i - 1) - 1 + 1) : SubSeq(q, 1, i - 1)[k] = q[1 + k - 1]
    BY <2>1, SubSeqProperties
  <2>3. (i - 1) - 1 + 1 = i - 1 /\ \A k \in 1..(i - 1) : 1 + k - 1 = k
    BY <1>1
  <2>4. Len(before) = i - 1
    BY <1>1, <2>2
  <2> QED BY <2>2, <2>3, <2>4
<1>3. /\ after \in Seq(Extent) /\ Len(after) = l - i
      /\ \A k \in 1..(l - i) : after[k] = q[i + k]
  <2>1. i + 1 \in Int /\ Len(q) \in Int /\ \A k \in (i + 1)..Len(q) : q[k] \in Extent
    BY <1>1
  <2>2. /\ SubSeq(q, i + 1, Len(q)) \in Seq(Extent)
        /\ Len(SubSeq(q, i + 1, Len(q))) = IF i + 1 <= Len(q) THEN Len(q) - (i + 1) + 1 ELSE 0
        /\ \A k \in 1..(Len(q) - (i + 1) + 1) : SubSeq(q, i + 1, Len(q))[k] = q[(i + 1) + k - 1]
    BY <2>1, SubSeqProperties
  <2>3. Len(q) - (i + 1) + 1 = l - i /\ \A k \in 1..(l - i) : (i + 1) + k - 1 = i + k
    BY <1>1
  <2>4. Len(after) = l - i
    BY <1>1, <2>2
  <2> QED BY <2>2, <2>3, <2>4
<1>4. r = front \o after
  BY DEF Taken
<1>5. CASE n = q[i][2]
  <2>1. rest = <<>>
    BY <1>5 DEF Remainder
  <2>2. front = before
    BY <1>2, <2>1, ConcatEmptySeq
  <2> HIDE DEF before, rest, after, front, r
  <2>3. /\ r \in Seq(Extent) /\ Len(r) = (i - 1) + (l - i)
        /\ \A k \in 1..((i - 1) + (l - i)) :
              r[k] = IF k <= i - 1 THEN before[k] ELSE after[k - (i - 1)]
    <3>1. /\ before \o after \in Seq(Extent) /\ Len(before \o after) = Len(before) + Len(after)
          /\ \A k \in 1..(Len(before) + Len(after)) :
                (before \o after)[k] = IF k <= Len(before) THEN before[k] ELSE after[k - Len(before)]
      BY <1>2, <1>3, ConcatProperties
    <3> QED BY <1>2, <1>3, <1>4, <2>2, <3>1
  <2>4. ASSUME NEW k \in 1..(l - 1) PROVE r[k] = IF k < i THEN q[k] ELSE q[k + 1]
    <3>1. CASE k < i
      <4>1. k <= i - 1 /\ k \in 1..(i - 1) /\ k \in 1..((i - 1) + (l - i))
        BY <1>1, <3>1
      <4> QED BY <1>2, <2>3, <3>1, <4>1
    <3>2. CASE ~ (k < i)
      <4>1. /\ ~ (k <= i - 1) /\ k - (i - 1) \in 1..(l - i) /\ k \in 1..((i - 1) + (l - i))
            /\ i + (k - (i - 1)) = k + 1
        BY <1>1, <3>2
      <4> QED BY <1>3, <2>3, <3>2, <4>1
    <3> QED BY <3>1, <3>2
  <2>5. Len(r) = l - 1
    BY <1>1, <2>3
  <2> QED BY <1>5, <2>3, <2>4, <2>5 DEF r
<1>6. CASE n # q[i][2]
  <2> DEFINE d == <<q[i][1] + n, q[i][2] - n>>
  <2>0. d \in Extent
    <3>1. /\ q[i] \in Extent /\ q[i][1] \in Nat /\ q[i][2] \in Nat
          /\ q[i][1] + q[i][2] <= Capacity /\ Capacity \in Nat
      BY <1>1, ExtentFacts, Sizes DEF End
    <3>2. q[i][1] + n \in Nat /\ q[i][2] - n \in Nat /\ q[i][2] - n >= 1
          /\ (q[i][1] + n) + (q[i][2] - n) <= Capacity
      BY <1>6, <3>1
    <3> QED BY <3>2, AnExtent
  <2>1. rest = <<d>>
    BY <1>6 DEF Remainder
  <2> HIDE DEF d
  <2>2. <<d>> \in Seq(Extent) /\ Len(<<d>>) = 1 /\ <<d>>[1] = d
    BY <2>0
  <2> DEFINE one == <<d>>
  <2> HIDE DEF before, rest, after, front, r, one
  <2>3. one \in Seq(Extent) /\ Len(one) = 1 /\ one[1] = d /\ front = before \o one
    BY <2>1, <2>2 DEF one, front
  <2>4. /\ front \in Seq(Extent) /\ Len(front) = (i - 1) + 1
        /\ \A k \in 1..((i - 1) + 1) : front[k] = IF k <= i - 1 THEN before[k] ELSE one[k - (i - 1)]
    <3>1. /\ before \o one \in Seq(Extent) /\ Len(before \o one) = Len(before) + Len(one)
          /\ \A k \in 1..(Len(before) + Len(one)) :
                (before \o one)[k] = IF k <= Len(before) THEN before[k] ELSE one[k - Len(before)]
      BY <1>2, <2>3, ConcatProperties
    <3> QED BY <1>2, <2>3, <3>1
  <2>5. /\ Len(front) = i /\ front[i] = d /\ \A k \in 1..(i - 1) : front[k] = q[k]
    <3>1. /\ i \in 1..((i - 1) + 1) /\ ~ (i <= i - 1) /\ i - (i - 1) = 1 /\ (i - 1) + 1 = i
          /\ \A k \in 1..(i - 1) : k \in 1..((i - 1) + 1) /\ k <= i - 1
      BY <1>1
    <3> QED BY <1>2, <2>3, <2>4, <3>1
  <2>6. /\ r \in Seq(Extent) /\ Len(r) = i + (l - i)
        /\ \A k \in 1..(i + (l - i)) : r[k] = IF k <= i THEN front[k] ELSE after[k - i]
    <3>1. /\ front \o after \in Seq(Extent) /\ Len(front \o after) = Len(front) + Len(after)
          /\ \A k \in 1..(Len(front) + Len(after)) :
                (front \o after)[k] = IF k <= Len(front) THEN front[k] ELSE after[k - Len(front)]
      BY <1>3, <2>4, ConcatProperties
    <3> QED BY <1>3, <1>4, <2>5, <3>1
  <2>7. ASSUME NEW k \in 1..l PROVE r[k] = IF k = i THEN d ELSE q[k]
    <3>1. k \in 1..(i + (l - i))
      BY <1>1
    <3>2. CASE k = i
      <4>1. k <= i
        BY <1>1, <3>2
      <4> QED BY <2>5, <2>6, <3>1, <3>2, <4>1
    <3>3. CASE k < i
      <4>1. k <= i /\ k \in 1..(i - 1) /\ k # i
        BY <1>1, <3>3
      <4> QED BY <2>5, <2>6, <3>1, <4>1
    <3>4. CASE k > i
      <4>1. ~ (k <= i) /\ k - i \in 1..(l - i) /\ i + (k - i) = k /\ k # i
        BY <1>1, <3>4
      <4> QED BY <1>3, <2>6, <3>1, <4>1
    <3>5. k < i \/ k = i \/ k > i
      BY <1>1
    <3> QED BY <3>2, <3>3, <3>4, <3>5
  <2>8. Len(r) = l
    BY <1>1, <2>6
  <2> QED BY <1>6, <2>6, <2>7, <2>8 DEF r, d
<1> QED BY <1>5, <1>6

\* The bytes taken leave the free list, and nothing else changes.
LEMMA TakenFacts ==
    ASSUME NEW q \in Seq(Extent), NEW i \in 1..Len(q), NEW n \in Nat, n >= 1, n <= q[i][2], Gaps(q)
    PROVE  /\ Taken(q, i, n) \in Seq(Extent) /\ Gaps(Taken(q, i, n))
           /\ <<q[i][1], n>> \in Extent
           /\ \A b : b \in Span(<<q[i][1], n>>) => Covers(q, b)
           /\ \A b : Covers(Taken(q, i, n), b)
                        <=> Covers(q, b) /\ b \notin Span(<<q[i][1], n>>)
<1> DEFINE l == Len(q)
           e == q[i]
           t == <<e[1], n>>
           r == Taken(q, i, n)
<1>1. l \in Nat /\ i \in Nat /\ i >= 1 /\ i <= l /\ \A k \in 1..l : q[k] \in Extent
  BY LenProperties, ElementOfSeq
<1>2. /\ e \in Extent /\ e[1] \in Nat /\ e[2] \in Nat /\ End(e) \in Nat
      /\ End(e) = e[1] + e[2] /\ End(e) <= Capacity /\ Capacity \in Nat
  BY <1>1, ExtentFacts, Sizes DEF End
<1>3. t \in Extent /\ \A b : b \in Span(t) <=> b \in Int /\ e[1] <= b /\ b < e[1] + n
  <2>1. e[1] + n <= Capacity
    BY <1>2
  <2> QED BY <1>2, <2>1, AnExtent, SpanFacts
<1>4. \A b : b \in Span(e) <=> b \in Int /\ e[1] <= b /\ b < End(e)
  BY <1>2, SpanFacts
<1>5. \A b : b \in Span(t) => b \in Span(e)
  BY <1>2, <1>3, <1>4
\* No other extent of the list has bytes of e.
<1>6. \A k \in 1..l : k # i => \A b \in Span(q[k]) : b \notin Span(e)
  <2> SUFFICES ASSUME NEW k \in 1..l, k # i, NEW b \in Span(q[k]), b \in Span(e) PROVE FALSE
    OBVIOUS
  <2>1. End(q[k]) < e[1] \/ End(e) < q[k][1]
    <3>1. k < i \/ i < k
      BY <1>1
    <3> QED BY <1>1, <3>1 DEF Gaps
  <2>2. b \in Int /\ q[k][1] <= b /\ b < End(q[k])
    BY <1>1, SpanFacts
  <2>3. q[k][1] \in Nat /\ End(q[k]) \in Nat
    BY <1>1, ExtentFacts
  <2> QED BY <1>2, <1>4, <2>1, <2>2, <2>3
<1>7. /\ r \in Seq(Extent)
      /\ n = e[2] => /\ Len(r) = l - 1
                     /\ \A k \in 1..(l - 1) : r[k] = IF k < i THEN q[k] ELSE q[k + 1]
      /\ n # e[2] => /\ Len(r) = l
                     /\ \A k \in 1..l : r[k] = IF k = i THEN <<e[1] + n, e[2] - n>> ELSE q[k]
  BY TakenList
<1> HIDE DEF l, e, t, r
<1>8. \A b : Covers(q, b) <=> b \in Span(e) \/ \E k \in 1..l : k # i /\ b \in Span(q[k])
  BY <1>1 DEF Covers, e, l
<1>9. CASE n = e[2]
  <2>1. \A b : b \in Span(t) <=> b \in Span(e)
    BY <1>2, <1>3, <1>4, <1>9
  <2>2. Len(r) = l - 1 /\ \A k \in 1..(l - 1) : r[k] = IF k < i THEN q[k] ELSE q[k + 1]
    BY <1>7, <1>9
  <2>3. Gaps(r)
    <3> SUFFICES ASSUME NEW k \in 1..(l - 1), NEW j \in 1..(l - 1), k < j
                 PROVE  End(r[k]) < r[j][1]
      BY <2>2 DEF Gaps
    <3>1. PICK x \in 1..l, y \in 1..l : r[k] = q[x] /\ r[j] = q[y] /\ x < y
      <4>1. /\ k \in 1..l /\ j \in 1..l /\ k + 1 \in 1..l /\ j + 1 \in 1..l
            /\ k < j + 1 /\ k + 1 < j + 1 /\ (~ (k < i) => ~ (j < i))
        BY <1>1
      <4>2. CASE k < i /\ j < i
        BY <2>2, <4>1, <4>2
      <4>3. CASE k < i /\ ~ (j < i)
        BY <2>2, <4>1, <4>3
      <4>4. CASE ~ (k < i)
        BY <2>2, <4>1, <4>4
      <4> QED BY <4>2, <4>3, <4>4
    <3> QED BY <3>1 DEF Gaps, l
  <2>4. \A b : Covers(r, b) <=> \E k \in 1..l : k # i /\ b \in Span(q[k])
    <3> SUFFICES ASSUME NEW b
                 PROVE  Covers(r, b) <=> \E k \in 1..l : k # i /\ b \in Span(q[k])
      OBVIOUS
    <3>1. ASSUME Covers(r, b) PROVE \E k \in 1..l : k # i /\ b \in Span(q[k])
      <4>1. PICK k \in 1..(l - 1) : b \in Span(r[k])
        BY <2>2, <3>1 DEF Covers
      <4>2. k \in 1..l /\ k + 1 \in 1..l /\ (k < i => k # i) /\ (~ (k < i) => k + 1 # i)
        BY <1>1
      <4> QED BY <2>2, <4>1, <4>2
    <3>2. ASSUME NEW k \in 1..l, k # i, b \in Span(q[k]) PROVE Covers(r, b)
      <4>1. CASE k < i
        <5>1. k \in 1..(l - 1)
          BY <1>1, <4>1
        <5> QED BY <2>2, <3>2, <4>1, <5>1 DEF Covers
      <4>2. CASE ~ (k < i)
        <5>1. k - 1 \in 1..(l - 1) /\ ~ (k - 1 < i) /\ (k - 1) + 1 = k
          BY <1>1, <3>2, <4>2
        <5>2. r[k - 1] = q[k]
          BY <2>2, <5>1
        <5> QED BY <2>2, <3>2, <5>1, <5>2 DEF Covers
      <4> QED BY <4>1, <4>2
    <3> QED BY <3>1, <3>2
  <2>5. \A b : Covers(r, b) <=> Covers(q, b) /\ b \notin Span(t)
    BY <1>6, <1>8, <2>1, <2>4
  <2> QED BY <1>3, <1>5, <1>7, <1>8, <2>3, <2>5 DEF r, t, e
<1>10. CASE n # e[2]
  <2> DEFINE d == <<e[1] + n, e[2] - n>>
  <2>1. Len(r) = l /\ \A k \in 1..l : r[k] = IF k = i THEN d ELSE q[k]
    BY <1>7, <1>10
  <2>2. /\ d[1] = e[1] + n /\ End(d) = End(e) /\ e[1] + n < End(e)
        /\ \A b : b \in Span(d) <=> b \in Int /\ e[1] + n <= b /\ b < End(e)
    <3>1. e[1] + n \in Nat /\ e[2] - n \in Nat /\ (e[1] + n) + (e[2] - n) = End(e)
      <4>1. n <= e[2]
        BY DEF e
      <4>2. e[2] - n \in Nat /\ e[1] + n \in Nat
        BY <1>2, <4>1
      <4>3. (e[1] + n) + (e[2] - n) = e[1] + e[2]
        BY <1>2
      <4> QED BY <1>2, <4>2, <4>3
    <3>2. e[1] + n < End(e)
      <4>1. n <= e[2]
        BY DEF e
      <4> QED BY <1>2, <1>10, <4>1
    <3>3. \A b : b \in Span(d) <=> b \in Int /\ e[1] + n <= b /\ b < (e[1] + n) + (e[2] - n)
      BY <3>1, SpanFacts
    <3> QED BY <3>1, <3>2, <3>3 DEF End
  <2> HIDE DEF d
  <2>3. \A b : b \in Span(d) <=> b \in Span(e) /\ b \notin Span(t)
    BY <1>2, <1>3, <1>4, <2>2
  <2>4. Gaps(r)
    <3> SUFFICES ASSUME NEW k \in 1..l, NEW j \in 1..l, k < j PROVE End(r[k]) < r[j][1]
      BY <2>1 DEF Gaps
    <3>1. End(q[k]) < q[j][1]
      BY DEF Gaps, l
    <3>2. CASE k = i
      <4>1. r[k] = d /\ r[j] = q[j] /\ q[k] = e
        BY <1>1, <2>1, <3>2 DEF e
      <4> QED BY <2>2, <3>1, <4>1
    <3>3. CASE j = i
      <4>1. r[k] = q[k] /\ r[j] = d /\ q[j] = e
        BY <1>1, <2>1, <3>3 DEF e
      <4>2. End(q[k]) \in Nat
        BY <1>1, ExtentFacts
      <4> QED BY <1>2, <2>2, <3>1, <4>1, <4>2
    <3>4. CASE k # i /\ j # i
      BY <2>1, <3>1, <3>4
    <3> QED BY <3>2, <3>3, <3>4
  <2>5. \A b : Covers(r, b) <=> b \in Span(d) \/ \E k \in 1..l : k # i /\ b \in Span(q[k])
    BY <1>1, <2>1 DEF Covers
  <2>6. \A b : Covers(r, b) <=> Covers(q, b) /\ b \notin Span(t)
    BY <1>5, <1>6, <1>8, <2>3, <2>5
  <2> QED BY <1>3, <1>5, <1>7, <1>8, <2>4, <2>6 DEF r, t, e
<1> QED BY <1>9, <1>10

-----------------------------------------------------------------------------
(* The inductive invariant.                                                *)

Live == {"acquired", "packed", "failed", "unpacking", "dropped"}

PoolShape ==
    /\ free \in Seq(Extent)
    /\ alloc \in [Tensor -> Extent \cup {NoExtent}]
    /\ inflight = SizeIn(Tensor, alloc, Extent)
    /\ \A t \in Tensor : alloc[t] # NoExtent => alloc[t][2] >= Size[t]

\* Every byte is free or some tensor's, and never two things at once.
Owns(t, b) == alloc[t] # NoExtent /\ b \in Span(alloc[t])

Tiles ==
    ~closed =>
        /\ Gaps(free)
        /\ \A b \in Byte : Covers(free, b) \/ (\E t \in Tensor : Owns(t, b))
        /\ \A b \in Byte : \A t \in Tensor :
              Owns(t, b) => ~ Covers(free, b) /\ (\A u \in Tensor : Owns(u, b) => u = t)

\* A slot for each tensor on its way, and for no other.
StageShape == \A t \in Tensor : (stage[t] \in Live) <=> (alloc[t] # NoExtent)

\* One thread closes at a time, and past the drain the pool stays empty.
CloseShape ==
    /\ \A k \in Closer : closer[k] # "idle" =>
          closing /\ (\A j \in Closer : closer[j] # "idle" => j = k)
    /\ \A k \in Closer : closer[k] \in {"freeing", "freed"} => inflight = 0
    /\ (closed \/ ~region) => closing /\ inflight = 0

\* A queued copy is of a tensor that waits for it, and the copy out is queued
\* before the copy back.
CopyShape ==
    /\ \A i \in 1..Len(stream) :
          /\ stage[stream[i].tensor] \in Live \ {"acquired"}
          /\ stream[i].op = "h2d" => stage[stream[i].tensor] = "unpacking"
    /\ \A i, j \in 1..Len(stream) :
          stream[i].op = "h2d" /\ stream[j] = [op |-> "d2h", tensor |-> stream[i].tensor]
              => j < i

\* A packed tensor is in its slot, or its copy out is still queued.
Filled == {"packed", "unpacking", "dropped"}

Written(t) == \A b \in Span(<<alloc[t][1], Size[t]>>) : bytes[b] = t

Queued(t) == \E i \in 1..Len(stream) : stream[i] = [op |-> "d2h", tensor |-> t]

Carried == \A t \in Tensor : stage[t] \in Filled => Written(t) \/ Queued(t)

IInv ==
    TypeOK /\ PoolShape /\ Tiles /\ StageShape /\ CloseShape /\ CopyShape /\ Carried

-----------------------------------------------------------------------------
(* The parts of a step.                                                    *)

LEMMA NoExtentIsNone == NoExtent \notin Extent /\ Extent \subseteq Byte \X (1..Capacity)
BY SwapAssumption DEF Extent, Byte

\* The types of the pool follow from its shape.
LEMMA PoolTypes ==
    ASSUME NEW q \in Seq(Extent), NEW f \in [Tensor -> Extent \cup {NoExtent}]
    PROVE  /\ q \in Seq(Byte \X (1..Capacity))
           /\ f \in [Tensor -> (Byte \X (1..Capacity)) \cup {NoExtent}]
           /\ SizeIn(Tensor, f, Extent) \in 0..Cardinality(Tensor)
<1>1. Extent \subseteq Byte \X (1..Capacity)
  BY NoExtentIsNone
<1>2. Seq(Extent) \subseteq Seq(Byte \X (1..Capacity))
  BY <1>1, SeqMonotonic
<1>3. f \in [Tensor -> (Byte \X (1..Capacity)) \cup {NoExtent}]
  BY <1>1
<1>4. /\ SizeIn(Tensor, f, Extent) \in Nat
      /\ SizeIn(Tensor, f, Extent) <= Cardinality(Tensor)
      /\ Cardinality(Tensor) \in Nat
  BY SwapAssumption, SizeInBounds
<1> QED BY <1>2, <1>3, <1>4

\* Nothing in flight: no tensor has a slot.
LEMMA EmptyPool ==
    ASSUME PoolShape, inflight = 0
    PROVE  \A t \in Tensor : alloc[t] = NoExtent
<1>1. SizeIn(Tensor, alloc, Extent) = 0
  BY DEF PoolShape
<1>2. \A t \in Tensor : alloc[t] \notin Extent
  BY <1>1, SwapAssumption, SizeInBounds
<1> QED BY <1>2 DEF PoolShape

\* How the number in flight changes with one slot.
LEMMA InflightMoves ==
    ASSUME NEW f \in [Tensor -> Extent \cup {NoExtent}], NEW t \in Tensor, NEW e \in Extent
    PROVE  /\ f[t] = NoExtent =>
                SizeIn(Tensor, [f EXCEPT ![t] = e], Extent) = SizeIn(Tensor, f, Extent) + 1
           /\ f[t] # NoExtent =>
                SizeIn(Tensor, [f EXCEPT ![t] = NoExtent], Extent) = SizeIn(Tensor, f, Extent) - 1
<1>1. IsFiniteSet(Tensor) /\ NoExtent \notin Extent
  BY SwapAssumption, NoExtentIsNone
<1>2. ASSUME f[t] = NoExtent
      PROVE  SizeIn(Tensor, [f EXCEPT ![t] = e], Extent) = SizeIn(Tensor, f, Extent) + 1
  <2> DEFINE g == [f EXCEPT ![t] = e]
  <2>1. g[t] = e /\ \A x \in Tensor \ {t} : g[x] = f[x]
    OBVIOUS
  <2> HIDE DEF g
  <2>2. f[t] \notin Extent /\ g[t] \in Extent
    BY <1>1, <1>2, <2>1
  <2>3. SizeIn(Tensor, g, Extent) = SizeIn(Tensor, f, Extent) + 1
    BY <1>1, <2>1, <2>2, SizeInMoves
  <2> QED BY <2>3 DEF g
<1>3. ASSUME f[t] # NoExtent
      PROVE  SizeIn(Tensor, [f EXCEPT ![t] = NoExtent], Extent) = SizeIn(Tensor, f, Extent) - 1
  <2> DEFINE g == [f EXCEPT ![t] = NoExtent]
  <2>1. g[t] = NoExtent /\ \A x \in Tensor \ {t} : g[x] = f[x]
    OBVIOUS
  <2> HIDE DEF g
  <2>2. f[t] \in Extent /\ g[t] \notin Extent
    BY <1>1, <1>3, <2>1
  <2>3. SizeIn(Tensor, g, Extent) = SizeIn(Tensor, f, Extent) - 1
    BY <1>1, <2>1, <2>2, SizeInMoves
  <2> QED BY <2>3 DEF g
<1> QED BY <1>2, <1>3

\* acquire gives the tensor a slot of its own.
LEMMA AcquireFacts ==
    ASSUME TypeOK, PoolShape, Tiles, ~closed, closed' = closed, NEW t \in Tensor,
           alloc[t] = NoExtent, Fits(RoundUp(Size[t])) # {}, Acquire(t)
    PROVE  /\ PoolShape' /\ Tiles' /\ alloc'[t] # NoExtent
           /\ \A u \in Tensor \ {t} : alloc'[u] = alloc[u]
<1> DEFINE n == RoundUp(Size[t])
           i == Min(Fits(n))
           e == <<free[i][1], n>>
<1>1. Size[t] \in Nat /\ Size[t] >= 1 /\ n \in Nat /\ n >= Size[t] /\ n >= 1
  <2>1. Size[t] \in Nat /\ Size[t] >= 1
    BY Sizes, SwapAssumption
  <2>2. n \in Nat /\ n >= Size[t]
    BY <2>1, RoundUpFacts
  <2> QED BY <2>1, <2>2
<1>2. free \in Seq(Extent) /\ Gaps(free)
      /\ alloc \in [Tensor -> Extent \cup {NoExtent}]
  BY DEF PoolShape, Tiles
<1>3. i \in 1..Len(free) /\ n <= free[i][2]
  <2>1. Fits(n) \subseteq Nat /\ Fits(n) # {}
    BY <1>2, LenProperties DEF Fits
  <2>2. \E x \in Fits(n) : \A y \in Fits(n) : x <= y
    BY <2>1, LeastNatural
  <2>3. i \in Fits(n)
    BY <2>2 DEF Min
  <2>4. i \in 1..Len(free) /\ free[i][2] >= n
    BY <2>3 DEF Fits
  <2>5. free[i][2] \in Nat
    BY <1>2, <2>4, ElementOfSeq, ExtentFacts
  <2> QED BY <1>1, <2>4, <2>5
<1>4. /\ free' = Taken(free, i, n) /\ alloc' = [alloc EXCEPT ![t] = e]
      /\ inflight' = inflight + 1
  BY DEF Acquire, Taken
<1> HIDE DEF n, i
<1>5. /\ Taken(free, i, n) \in Seq(Extent) /\ Gaps(Taken(free, i, n)) /\ e \in Extent
      /\ \A b : b \in Span(e) => Covers(free, b)
      /\ \A b : Covers(Taken(free, i, n), b) <=> Covers(free, b) /\ b \notin Span(e)
  BY <1>1, <1>2, <1>3, TakenFacts
<1>6. e[2] = n
  OBVIOUS
<1> HIDE DEF e
<1>7. /\ free' \in Seq(Extent) /\ Gaps(free)'
      /\ \A b : Covers(free, b)' <=> Covers(free, b) /\ b \notin Span(e)
  BY <1>4, <1>5 DEF Gaps, Covers
<1>8. /\ alloc' \in [Tensor -> Extent \cup {NoExtent}] /\ alloc'[t] = e
      /\ \A u \in Tensor \ {t} : alloc'[u] = alloc[u]
      /\ e # NoExtent
  BY <1>2, <1>4, <1>5, NoExtentIsNone
<1>9. PoolShape'
  <2>1. SizeIn(Tensor, alloc, Extent)' = SizeIn(Tensor, alloc, Extent) + 1
    <3>1. SizeIn(Tensor, [alloc EXCEPT ![t] = e], Extent) = SizeIn(Tensor, alloc, Extent) + 1
      BY <1>2, <1>5, InflightMoves
    <3> QED BY <1>4, <3>1 DEF SizeIn, Extent, Byte
  <2>2. inflight' = SizeIn(Tensor, alloc, Extent)'
    BY <1>4, <2>1 DEF PoolShape
  <2>3. \A u \in Tensor : alloc'[u] # NoExtent => alloc'[u][2] >= Size[u]
    BY <1>1, <1>6, <1>8 DEF PoolShape
  <2> QED BY <1>7, <1>8, <2>2, <2>3 DEF PoolShape, Extent, Byte
<1>10. /\ \A b : Owns(t, b)' <=> b \in Span(e)
       /\ \A u \in Tensor \ {t} : \A b : Owns(u, b)' <=> Owns(u, b)
       /\ \A b : ~ Owns(t, b)
  BY <1>8 DEF Owns, Span
<1>11. Tiles'
  <2>1. \A b \in Byte : Covers(free, b)' \/ (\E u \in Tensor : Owns(u, b)')
    <3> SUFFICES ASSUME NEW b \in Byte, ~ Covers(free, b)' PROVE \E u \in Tensor : Owns(u, b)'
      OBVIOUS
    <3>1. CASE b \in Span(e)
      BY <1>10, <3>1
    <3>2. CASE b \notin Span(e)
      <4>1. PICK u \in Tensor : Owns(u, b)
        BY <1>7, <3>2 DEF Tiles
      <4>2. u # t
        BY <1>10, <4>1
      <4> QED BY <1>10, <4>1, <4>2
    <3> QED BY <3>1, <3>2
  <2>2. ASSUME NEW b \in Byte, NEW u \in Tensor, Owns(u, b)'
        PROVE  ~ Covers(free, b)' /\ (\A v \in Tensor : Owns(v, b)' => v = u)
    <3>1. CASE u = t
      <4>1. b \in Span(e) /\ Covers(free, b)
        BY <1>5, <1>10, <2>2, <3>1
      <4>2. \A v \in Tensor : ~ Owns(v, b)
        BY <4>1 DEF Tiles
      <4> QED BY <1>7, <1>10, <3>1, <4>1, <4>2
    <3>2. CASE u # t
      <4>1. Owns(u, b)
        BY <1>10, <2>2, <3>2
      <4>2. ~ Covers(free, b) /\ (\A v \in Tensor : Owns(v, b) => v = u)
        BY <4>1 DEF Tiles
      <4>3. b \notin Span(e)
        BY <1>5, <4>2
      <4> QED BY <1>7, <1>10, <4>2, <4>3
    <3> QED BY <3>1, <3>2
  <2> QED BY <1>7, <2>1, <2>2 DEF Tiles, Byte
<1> QED BY <1>8, <1>9, <1>11

\* release takes the slot away, however the pool stands.
LEMMA ReleaseFacts ==
    ASSUME TypeOK, PoolShape, Tiles, CloseShape, closed' = closed, NEW t \in Tensor, Release(t)
    PROVE  /\ PoolShape' /\ Tiles' /\ alloc'[t] = NoExtent
           /\ \A u \in Tensor \ {t} : alloc'[u] = alloc[u]
           /\ inflight = 0 => inflight' = 0
<1>1. CASE closed \/ alloc[t] = NoExtent
  <2>1. UNCHANGED <<free, alloc, inflight>>
    BY <1>1 DEF Release, poolVars
  <2>2. alloc[t] = NoExtent
    BY <1>1, EmptyPool DEF CloseShape
  <2> QED BY <2>1, <2>2 DEF PoolShape, Tiles, Owns, Covers, Gaps, SizeIn, Extent, Byte
<1>2. CASE ~ closed /\ alloc[t] # NoExtent
  <2> DEFINE e == alloc[t]
             q == Append(free, e)
  <2>1. /\ free' = Coalesce(q) /\ alloc' = [alloc EXCEPT ![t] = NoExtent]
        /\ inflight' = inflight - 1
    BY <1>2 DEF Release
  <2>2. /\ free \in Seq(Extent) /\ Gaps(free) /\ e \in Extent
        /\ alloc \in [Tensor -> Extent \cup {NoExtent}]
    BY <1>2 DEF PoolShape, Tiles
  <2>3. \A b \in Byte : b \in Span(e) => ~ Covers(free, b)
    BY <1>2 DEF Tiles, Owns
  <2>4. /\ q \in Seq(Extent) /\ Len(q) = Len(free) + 1 /\ q[Len(free) + 1] = e
        /\ \A j \in 1..Len(free) : q[j] = free[j] /\ free[j] \in Extent
        /\ Len(free) \in Nat
    BY <2>2, AppendProperties, LenProperties, ElementOfSeq
  <2> HIDE DEF e, q
  <2>5. \A j \in 1..(Len(free) + 1) : j \in 1..Len(free) \/ j = Len(free) + 1
    BY <2>4
  <2>6. /\ \A j \in 1..Len(free) : j \in 1..(Len(free) + 1)
        /\ Len(free) + 1 \in 1..(Len(free) + 1)
    BY <2>4
  <2>7. \A i, j \in 1..Len(q) : q[i] # q[j] => Apart(q[i], q[j])
    <3>1. \A i \in 1..Len(free) : Apart(free[i], e) /\ Apart(e, free[i])
      <4> SUFFICES ASSUME NEW i \in 1..Len(free) PROVE Apart(free[i], e)
        BY DEF Apart
      <4>1. \A b \in Byte : ~ (b \in Span(free[i]) /\ b \in Span(e))
        BY <2>3 DEF Covers
      <4> QED BY <2>2, <2>4, <4>1, DisjointApart
    <3>2. ASSUME NEW i \in 1..Len(free), NEW j \in 1..Len(free), i # j
          PROVE  Apart(free[i], free[j])
      <4>1. i < j \/ j < i
        BY <2>4, <3>2
      <4>2. End(free[i]) < free[j][1] \/ End(free[j]) < free[i][1]
        BY <2>2, <4>1 DEF Gaps
      <4>3. /\ End(free[i]) \in Nat /\ End(free[j]) \in Nat
            /\ free[i][1] \in Nat /\ free[j][1] \in Nat
        BY <2>4, ExtentFacts
      <4> QED BY <4>2, <4>3 DEF Apart
    <3> SUFFICES ASSUME NEW i \in 1..(Len(free) + 1), NEW j \in 1..(Len(free) + 1),
                        q[i] # q[j]
                 PROVE  Apart(q[i], q[j])
      BY <2>4
    <3>3. i # j
      OBVIOUS
    <3> QED BY <2>4, <2>5, <3>1, <3>2, <3>3
  <2>8. /\ Coalesce(q) \in Seq(Extent) /\ Gaps(Coalesce(q))
        /\ \A b : Covers(Coalesce(q), b) <=> Covers(q, b)
    BY <2>4, <2>7, Coalesced
  <2>9. \A b : Covers(q, b) <=> Covers(free, b) \/ b \in Span(e)
    BY <2>4, <2>5, <2>6 DEF Covers
  <2>10. /\ free' \in Seq(Extent) /\ Gaps(free)'
         /\ \A b : Covers(free, b)' <=> Covers(free, b) \/ b \in Span(e)
    BY <2>1, <2>8, <2>9 DEF Gaps, Covers
  <2>11. /\ alloc' \in [Tensor -> Extent \cup {NoExtent}] /\ alloc'[t] = NoExtent
         /\ \A u \in Tensor \ {t} : alloc'[u] = alloc[u]
    BY <2>1, <2>2
  <2>12. SizeIn(Tensor, alloc, Extent)' = SizeIn(Tensor, alloc, Extent) - 1
    <3>1. SizeIn(Tensor, [alloc EXCEPT ![t] = NoExtent], Extent)
              = SizeIn(Tensor, alloc, Extent) - 1
      BY <1>2, <2>2, InflightMoves
    <3> QED BY <2>1, <3>1 DEF SizeIn, Extent, Byte
  <2>13. inflight # 0
    BY <1>2, EmptyPool
  <2>14. PoolShape'
    <3>1. inflight' = SizeIn(Tensor, alloc, Extent)'
      BY <2>1, <2>12 DEF PoolShape
    <3>2. \A u \in Tensor : alloc'[u] # NoExtent => alloc'[u][2] >= Size[u]
      BY <2>11 DEF PoolShape
    <3> QED BY <2>10, <2>11, <3>1, <3>2 DEF PoolShape, Extent, Byte
  <2>15. /\ \A b : ~ Owns(t, b)' /\ (Owns(t, b) <=> b \in Span(e))
         /\ \A u \in Tensor \ {t} : \A b : Owns(u, b)' <=> Owns(u, b)
    BY <1>2, <2>11 DEF Owns, Span, e
  <2>16. Tiles'
    <3>1. \A b \in Byte : Covers(free, b)' \/ (\E u \in Tensor : Owns(u, b)')
      <4> SUFFICES ASSUME NEW b \in Byte, ~ Covers(free, b)' PROVE \E u \in Tensor : Owns(u, b)'
        OBVIOUS
      <4>1. b \notin Span(e) /\ ~ Covers(free, b)
        BY <2>10
      <4>2. PICK u \in Tensor : Owns(u, b)
        BY <1>2, <4>1 DEF Tiles
      <4>3. u # t
        BY <2>15, <4>1, <4>2
      <4> QED BY <2>15, <4>2, <4>3
    <3>2. ASSUME NEW b \in Byte, NEW u \in Tensor, Owns(u, b)'
          PROVE  ~ Covers(free, b)' /\ (\A v \in Tensor : Owns(v, b)' => v = u)
      <4>1. u # t /\ Owns(u, b)
        BY <2>15, <3>2
      <4>2. ~ Covers(free, b) /\ (\A v \in Tensor : Owns(v, b) => v = u)
        BY <1>2, <4>1 DEF Tiles
      <4>3. b \notin Span(e)
        BY <2>15, <4>1, <4>2
      <4> QED BY <2>10, <2>15, <4>2, <4>3
    <3> QED BY <2>10, <3>1, <3>2 DEF Tiles, Byte
  <2> QED BY <2>11, <2>13, <2>14, <2>16
<1> QED BY <1>1, <1>2

\* The pool, when a step leaves it alone.
LEMMA PoolStays ==
    ASSUME PoolShape, Tiles, UNCHANGED <<free, alloc, inflight, closed>>
    PROVE  PoolShape' /\ Tiles'
BY DEF PoolShape, Tiles, Owns, Covers, Gaps, SizeIn, Extent, Byte

\* The queue, when no tensor with a copy in it moves.
LEMMA CopiesStay ==
    ASSUME CopyShape, UNCHANGED stream,
           \A i \in 1..Len(stream) : stage'[stream[i].tensor] = stage[stream[i].tensor]
    PROVE  CopyShape'
BY DEF CopyShape

\* What was written, when no filled slot is new or moves.
LEMMA CarriedStays ==
    ASSUME Carried, UNCHANGED <<stream, bytes>>,
           \A t \in Tensor : stage'[t] \in Filled => stage[t] \in Filled /\ alloc'[t] = alloc[t]
    PROVE  Carried'
<1> SUFFICES ASSUME NEW t \in Tensor, stage'[t] \in Filled PROVE Written(t)' \/ Queued(t)'
  BY DEF Carried
<1>1. stage[t] \in Filled /\ alloc'[t] = alloc[t]
  OBVIOUS
<1>2. Written(t) \/ Queued(t)
  BY <1>1 DEF Carried
<1> QED BY <1>1, <1>2 DEF Written, Queued, Span

LEMMA StreamTypes ==
    ASSUME TypeOK
    PROVE  /\ Len(stream) \in Nat
           /\ \A i \in 1..Len(stream) :
                 stream[i] \in [op : {"d2h", "h2d"}, tensor : Tensor]
BY LenProperties, ElementOfSeq DEF TypeOK

\* A tensor joins no stage with a slot without one, and the other way round.
LEMMA StagesFollow ==
    ASSUME TypeOK, StageShape, NEW t \in Tensor, NEW s, stage' = [stage EXCEPT ![t] = s],
           \A u \in Tensor \ {t} : alloc'[u] = alloc[u],
           (s \in Live) <=> (alloc'[t] # NoExtent)
    PROVE  StageShape'
BY DEF TypeOK, StageShape

-----------------------------------------------------------------------------
(* The steps of the hooks.                                                 *)

Stages == {"fresh", "passed", "acquired", "packed", "failed", "unpacking", "dropped", "gone"}

LEMMA StageTypes ==
    ASSUME TypeOK, PoolShape', NEW t \in Tensor, NEW s \in Stages,
           stage' = [stage EXCEPT ![t] = s], UNCHANGED <<closeVars, bytes>>,
           stream' \in Seq([op : {"d2h", "h2d"}, tensor : Tensor])
    PROVE  TypeOK'
<1>1. /\ free' \in Seq(Byte \X (1..Capacity))
      /\ alloc' \in [Tensor -> (Byte \X (1..Capacity)) \cup {NoExtent}]
      /\ inflight' \in 0..Cardinality(Tensor)
  <2>1. /\ free' \in Seq(Extent) /\ alloc' \in [Tensor -> Extent \cup {NoExtent}]
        /\ inflight' = SizeIn(Tensor, alloc', Extent)
    BY DEF PoolShape, SizeIn, Extent, Byte
  <2> QED BY <2>1, PoolTypes
<1>2. stage' \in [Tensor -> Stages]
  BY DEF TypeOK, Stages
<1> QED BY <1>1, <1>2 DEF TypeOK, Stages, closeVars, Byte

LEMMA PackAcquireStep == ASSUME IInv, NEW t \in Tensor, PackAcquire(t) PROVE IInv'
<1>1. /\ TypeOK /\ PoolShape /\ Tiles /\ StageShape /\ CloseShape /\ CopyShape /\ Carried
  BY DEF IInv
<1>2. /\ stage[t] = "fresh" /\ alloc[t] = NoExtent
      /\ UNCHANGED <<closing, closed, region, closer, stream, bytes>>
  BY <1>1 DEF PackAcquire, StageShape, Live, closeVars, copyVars
<1>3. CASE Shut \/ Fits(RoundUp(Size[t])) = {}
  <2>1. /\ stage' = [stage EXCEPT ![t] = "passed"]
        /\ UNCHANGED <<free, alloc, inflight>>
    BY <1>3 DEF PackAcquire, poolVars
  <2>2. PoolShape' /\ Tiles'
    BY <1>1, <1>2, <2>1, PoolStays
  <2>3. StageShape'
    <3>1. "passed" \notin Live
      BY DEF Live
    <3> QED BY <1>1, <1>2, <2>1, <3>1, StagesFollow
  <2>4. TypeOK'
    <3>1. "passed" \in Stages
      BY DEF Stages
    <3> QED BY <1>1, <1>2, <2>1, <2>2, <3>1, StageTypes DEF TypeOK, closeVars
  <2>5. CopyShape'
    <3>1. \A i \in 1..Len(stream) : stream[i].tensor # t
      BY <1>1, <1>2 DEF CopyShape, Live
    <3>2. \A i \in 1..Len(stream) : stage'[stream[i].tensor] = stage[stream[i].tensor]
      BY <1>1, <2>1, <3>1, StreamTypes DEF TypeOK
    <3> QED BY <1>1, <1>2, <3>2, CopiesStay
  <2>6. Carried'
    <3>1. \A u \in Tensor : stage'[u] \in Filled => stage[u] \in Filled /\ alloc'[u] = alloc[u]
      BY <1>1, <2>1 DEF TypeOK, Filled
    <3> QED BY <1>1, <1>2, <3>1, CarriedStays
  <2> QED BY <1>1, <1>2, <2>1, <2>2, <2>3, <2>4, <2>5, <2>6 DEF IInv, CloseShape
<1>4. CASE ~ (Shut \/ Fits(RoundUp(Size[t])) = {})
  <2>1. /\ stage' = [stage EXCEPT ![t] = "acquired"] /\ Acquire(t)
        /\ ~ closed /\ ~ closing /\ Fits(RoundUp(Size[t])) # {}
    BY <1>4 DEF PackAcquire, Shut
  <2>2. /\ PoolShape' /\ Tiles' /\ alloc'[t] # NoExtent
        /\ \A u \in Tensor \ {t} : alloc'[u] = alloc[u]
    BY <1>1, <1>2, <2>1, AcquireFacts
  <2>3. StageShape'
    <3>1. "acquired" \in Live
      BY DEF Live
    <3> QED BY <1>1, <2>1, <2>2, <3>1, StagesFollow
  <2>4. TypeOK'
    <3>1. "acquired" \in Stages
      BY DEF Stages
    <3> QED BY <1>1, <1>2, <2>1, <2>2, <3>1, StageTypes DEF TypeOK, closeVars
  <2>5. CopyShape'
    <3>1. \A i \in 1..Len(stream) : stream[i].tensor # t
      BY <1>1, <1>2 DEF CopyShape, Live
    <3>2. \A i \in 1..Len(stream) : stage'[stream[i].tensor] = stage[stream[i].tensor]
      BY <1>1, <2>1, <3>1, StreamTypes DEF TypeOK
    <3> QED BY <1>1, <1>2, <3>2, CopiesStay
  <2>6. Carried'
    <3>1. \A u \in Tensor : stage'[u] \in Filled => stage[u] \in Filled /\ alloc'[u] = alloc[u]
      BY <1>1, <2>1, <2>2 DEF TypeOK, Filled
    <3> QED BY <1>1, <1>2, <3>1, CarriedStays
  <2>7. CloseShape'
    BY <1>1, <1>2, <2>1 DEF CloseShape
  <2> QED BY <2>2, <2>3, <2>4, <2>5, <2>6, <2>7 DEF IInv
<1> QED BY <1>3, <1>4

\* A tensor moves on with its slot, and queues a copy or does not.
LEMMA QueueTypes ==
    ASSUME TypeOK, NEW t \in Tensor, NEW op \in {"d2h", "h2d"}, Queue(op, t)
    PROVE  /\ stream' \in Seq([op : {"d2h", "h2d"}, tensor : Tensor])
           /\ Len(stream') = Len(stream) + 1 /\ Len(stream) \in Nat
           /\ \A i \in 1..Len(stream) : stream'[i] = stream[i]
           /\ stream'[Len(stream) + 1] = [op |-> op, tensor |-> t]
           /\ \A i \in 1..(Len(stream) + 1) : i \in 1..Len(stream) \/ i = Len(stream) + 1
           /\ Len(stream) + 1 \in 1..(Len(stream) + 1)
           /\ \A i \in 1..Len(stream) : i \in 1..(Len(stream) + 1)
<1> DEFINE R == [op : {"d2h", "h2d"}, tensor : Tensor]
           c == [op |-> op, tensor |-> t]
<1>1. c \in R /\ stream \in Seq(R) /\ stream' = Append(stream, c)
  BY DEF TypeOK, Queue
<1> HIDE DEF R, c
<1>2. /\ stream' \in Seq(R) /\ Len(stream') = Len(stream) + 1 /\ Len(stream) \in Nat
      /\ \A i \in 1..Len(stream) : stream'[i] = stream[i]
      /\ stream'[Len(stream) + 1] = c
  BY <1>1, AppendProperties, LenProperties
<1> QED BY <1>2 DEF R, c

LEMMA PackCopyStep == ASSUME IInv, NEW t \in Tensor, PackCopy(t) PROVE IInv'
<1>1. /\ TypeOK /\ PoolShape /\ Tiles /\ StageShape /\ CloseShape /\ CopyShape /\ Carried
  BY DEF IInv
<1>2. /\ stage[t] = "acquired" /\ alloc[t] # NoExtent
      /\ UNCHANGED <<free, alloc, inflight, closing, closed, region, closer, bytes>>
  BY <1>1 DEF PackCopy, StageShape, Live, closeVars, poolVars
<1>3. PICK s \in {"packed", "failed"} :
        /\ stage' = [stage EXCEPT ![t] = s]
        /\ Queue("d2h", t) \/ (s = "failed" /\ UNCHANGED stream)
  BY DEF PackCopy
<1>4. PoolShape' /\ Tiles'
  BY <1>1, <1>2, PoolStays
<1>5. StageShape'
  <2>1. s \in Live
    BY DEF Live
  <2> QED BY <1>1, <1>2, <1>3, <2>1, StagesFollow
<1>6. \A i \in 1..Len(stream) : /\ stream[i].tensor # t
                                /\ stage'[stream[i].tensor] = stage[stream[i].tensor]
  BY <1>1, <1>2, <1>3, StreamTypes DEF CopyShape, Live, TypeOK
<1>7. CASE Queue("d2h", t)
  <2> DEFINE n == Len(stream) + 1
  <2>1. /\ stream' \in Seq([op : {"d2h", "h2d"}, tensor : Tensor])
        /\ Len(stream') = n /\ Len(stream) \in Nat
        /\ \A i \in 1..Len(stream) : stream'[i] = stream[i]
        /\ stream'[n] = [op |-> "d2h", tensor |-> t]
        /\ \A i \in 1..n : i \in 1..Len(stream) \/ i = n
        /\ n \in 1..n /\ \A i \in 1..Len(stream) : i \in 1..n
    BY <1>1, <1>7, QueueTypes
  <2> HIDE DEF n
  <2>2. TypeOK'
    <3>1. s \in Stages
      BY DEF Stages
    <3> QED BY <1>1, <1>2, <1>3, <1>4, <2>1, <3>1, StageTypes DEF closeVars
  <2>3. CopyShape'
    <3>1. stage'[t] = s /\ s \in Live \ {"acquired"} /\ "d2h" # "h2d"
      BY <1>1, <1>3 DEF TypeOK, Live
    <3>2. ASSUME NEW i \in 1..n
          PROVE  /\ stage'[stream'[i].tensor] \in Live \ {"acquired"}
                 /\ stream'[i].op = "h2d" => stage'[stream'[i].tensor] = "unpacking"
      <4>1. CASE i = n
        BY <2>1, <3>1, <4>1
      <4>2. CASE i \in 1..Len(stream)
        BY <1>1, <1>6, <2>1, <4>2 DEF CopyShape
      <4> QED BY <2>1, <4>1, <4>2
    <3>3. ASSUME NEW i \in 1..n, NEW j \in 1..n, stream'[i].op = "h2d",
                 stream'[j] = [op |-> "d2h", tensor |-> stream'[i].tensor]
          PROVE  j < i
      <4>1. i \in 1..Len(stream)
        BY <2>1, <3>1, <3>3
      <4>2. stream'[j].tensor # t
        BY <1>6, <2>1, <3>3, <4>1
      <4>3. j \in 1..Len(stream)
        BY <2>1, <4>2
      <4> QED BY <1>1, <2>1, <3>3, <4>1, <4>3 DEF CopyShape
    <3> QED BY <2>1, <3>2, <3>3 DEF CopyShape
  <2>4. Carried'
    <3> SUFFICES ASSUME NEW u \in Tensor, stage'[u] \in Filled PROVE Written(u)' \/ Queued(u)'
      BY DEF Carried
    <3>1. CASE u = t
      BY <2>1, <3>1 DEF Queued
    <3>2. CASE u # t
      <4>1. stage[u] \in Filled
        BY <1>1, <1>3, <3>2 DEF TypeOK
      <4>2. Written(u) \/ Queued(u)
        BY <1>1, <4>1 DEF Carried
      <4>3. Written(u) => Written(u)'
        BY <1>2 DEF Written, Span
      <4>4. Queued(u) => Queued(u)'
        BY <2>1 DEF Queued
      <4> QED BY <4>2, <4>3, <4>4
    <3> QED BY <3>1, <3>2
  <2> QED BY <1>1, <1>2, <1>4, <1>5, <2>2, <2>3, <2>4 DEF IInv, CloseShape
<1>8. CASE s = "failed" /\ UNCHANGED stream
  <2>1. TypeOK'
    <3>1. s \in Stages
      BY DEF Stages
    <3>2. stream' \in Seq([op : {"d2h", "h2d"}, tensor : Tensor])
      BY <1>1, <1>8 DEF TypeOK
    <3> QED BY <1>1, <1>2, <1>3, <1>4, <3>1, <3>2, StageTypes DEF closeVars
  <2>2. CopyShape'
    BY <1>1, <1>6, <1>8, CopiesStay
  <2>3. Carried'
    <3>1. \A u \in Tensor : stage'[u] \in Filled => stage[u] \in Filled /\ alloc'[u] = alloc[u]
      BY <1>1, <1>2, <1>3, <1>8 DEF TypeOK, Filled
    <3> QED BY <1>1, <1>2, <1>8, <3>1, CarriedStays
  <2> QED BY <1>1, <1>2, <1>4, <1>5, <2>1, <2>2, <2>3 DEF IInv, CloseShape
<1> QED BY <1>3, <1>7, <1>8

\* The end of a pack that failed and the end of an unpack: the copies of the
\* tensor are over and its slot is released.
LEMMA GoneStep ==
    ASSUME IInv, NEW t \in Tensor, Fenced(t), Release(t),
           stage' = [stage EXCEPT ![t] = "gone"], UNCHANGED <<closeVars, copyVars>>
    PROVE  IInv'
<1>1. /\ TypeOK /\ PoolShape /\ Tiles /\ StageShape /\ CloseShape /\ CopyShape /\ Carried
  BY DEF IInv
<1>2. UNCHANGED <<closing, closed, region, closer, stream, bytes>>
  BY DEF closeVars, copyVars
<1>3. /\ PoolShape' /\ Tiles' /\ alloc'[t] = NoExtent
      /\ \A u \in Tensor \ {t} : alloc'[u] = alloc[u]
      /\ inflight = 0 => inflight' = 0
  BY <1>1, <1>2, ReleaseFacts
<1>4. StageShape'
  <2>1. "gone" \notin Live
    BY DEF Live
  <2> QED BY <1>1, <1>3, <2>1, StagesFollow
<1>5. TypeOK'
  <2>1. "gone" \in Stages
    BY DEF Stages
  <2> QED BY <1>1, <1>2, <1>3, <2>1, StageTypes DEF TypeOK, closeVars
<1>6. CopyShape'
  <2>1. \A i \in 1..Len(stream) : stage'[stream[i].tensor] = stage[stream[i].tensor]
    BY <1>1, StreamTypes DEF Fenced, TypeOK
  <2> QED BY <1>1, <1>2, <2>1, CopiesStay
<1>7. Carried'
  <2>1. \A u \in Tensor : stage'[u] \in Filled => stage[u] \in Filled /\ alloc'[u] = alloc[u]
    BY <1>1, <1>3 DEF TypeOK, Filled
  <2> QED BY <1>1, <1>2, <2>1, CarriedStays
<1>8. CloseShape'
  BY <1>1, <1>2, <1>3 DEF CloseShape
<1> QED BY <1>3, <1>4, <1>5, <1>6, <1>7, <1>8 DEF IInv

LEMMA DropHandleStep == ASSUME IInv, NEW t \in Tensor, DropHandle(t) PROVE IInv'
<1>1. /\ TypeOK /\ PoolShape /\ Tiles /\ StageShape /\ CloseShape /\ CopyShape /\ Carried
  BY DEF IInv
<1>2. /\ stage[t] = "packed" /\ stage' = [stage EXCEPT ![t] = "dropped"]
      /\ UNCHANGED <<free, alloc, inflight, closing, closed, region, closer, stream, bytes>>
  BY DEF DropHandle, poolVars, closeVars, copyVars
<1>3. PoolShape' /\ Tiles'
  BY <1>1, <1>2, PoolStays
<1>4. StageShape'
  <2>1. "dropped" \in Live /\ alloc'[t] # NoExtent
    BY <1>1, <1>2 DEF Live, StageShape
  <2> QED BY <1>1, <1>2, <2>1, StagesFollow
<1>5. TypeOK'
  <2>1. "dropped" \in Stages
    BY DEF Stages
  <2> QED BY <1>1, <1>2, <1>3, <2>1, StageTypes DEF TypeOK, closeVars
<1>6. CopyShape'
  <2>1. ASSUME NEW i \in 1..Len(stream)
        PROVE  /\ stage'[stream[i].tensor] \in Live \ {"acquired"}
               /\ stream[i].op = "h2d" => stage'[stream[i].tensor] = "unpacking"
    BY <1>1, <1>2, StreamTypes DEF CopyShape, TypeOK, Live
  <2> QED BY <1>1, <1>2, <2>1 DEF CopyShape
<1>7. Carried'
  <2>1. \A u \in Tensor : stage'[u] \in Filled => stage[u] \in Filled /\ alloc'[u] = alloc[u]
    BY <1>1, <1>2 DEF TypeOK, Filled
  <2> QED BY <1>1, <1>2, <2>1, CarriedStays
<1> QED BY <1>1, <1>2, <1>3, <1>4, <1>5, <1>6, <1>7 DEF IInv, CloseShape

LEMMA UnpackStep == ASSUME IInv, NEW t \in Tensor, Unpack(t) PROVE IInv'
<1>1. /\ TypeOK /\ PoolShape /\ Tiles /\ StageShape /\ CloseShape /\ CopyShape /\ Carried
  BY DEF IInv
<1>2. /\ stage[t] = "packed" /\ stage' = [stage EXCEPT ![t] = "unpacking"]
      /\ UNCHANGED <<free, alloc, inflight, closing, closed, region, closer, bytes>>
      /\ Queue("h2d", t) \/ (Fenced(t) /\ UNCHANGED stream)
  BY DEF Unpack, poolVars, closeVars
<1>3. PoolShape' /\ Tiles'
  BY <1>1, <1>2, PoolStays
<1>4. StageShape'
  <2>1. "unpacking" \in Live /\ alloc'[t] # NoExtent
    BY <1>1, <1>2 DEF Live, StageShape
  <2> QED BY <1>1, <1>2, <2>1, StagesFollow
<1>5. stage'[t] = "unpacking" /\ \A u \in Tensor \ {t} : stage'[u] = stage[u]
  BY <1>1, <1>2 DEF TypeOK
<1>6. CASE Queue("h2d", t)
  <2> DEFINE n == Len(stream) + 1
  <2>1. /\ stream' \in Seq([op : {"d2h", "h2d"}, tensor : Tensor])
        /\ Len(stream') = n /\ Len(stream) \in Nat
        /\ \A i \in 1..Len(stream) : stream'[i] = stream[i]
        /\ stream'[n] = [op |-> "h2d", tensor |-> t]
        /\ \A i \in 1..n : i \in 1..Len(stream) \/ i = n
        /\ n \in 1..n /\ \A i \in 1..Len(stream) : i \in 1..n
    BY <1>1, <1>6, QueueTypes
  <2>a. \A i \in 1..Len(stream) : i < n
    BY <2>1
  <2> HIDE DEF n
  <2>2. TypeOK'
    <3>1. "unpacking" \in Stages
      BY DEF Stages
    <3> QED BY <1>1, <1>2, <1>3, <2>1, <3>1, StageTypes DEF closeVars
  <2>3. CopyShape'
    <3>1. ASSUME NEW i \in 1..n
          PROVE  /\ stage'[stream'[i].tensor] \in Live \ {"acquired"}
                 /\ stream'[i].op = "h2d" => stage'[stream'[i].tensor] = "unpacking"
      <4>0. "unpacking" \in Live \ {"acquired"}
        BY DEF Live
      <4>1. CASE i = n
        BY <1>5, <2>1, <4>0, <4>1
      <4>2. CASE i \in 1..Len(stream)
        <5>1. stream'[i] = stream[i] /\ stream[i].tensor \in Tensor
          BY <1>1, <2>1, <4>2, StreamTypes
        <5> QED BY <1>1, <1>5, <4>0, <4>2, <5>1 DEF CopyShape
      <4> QED BY <2>1, <4>1, <4>2
    <3>2. ASSUME NEW i \in 1..n, NEW j \in 1..n, stream'[i].op = "h2d",
                 stream'[j] = [op |-> "d2h", tensor |-> stream'[i].tensor]
          PROVE  j < i
      <4>1. j \in 1..Len(stream)
        BY <2>1, <3>2
      <4>2. CASE i = n
        BY <2>a, <4>1, <4>2
      <4>3. CASE i \in 1..Len(stream)
        BY <1>1, <2>1, <3>2, <4>1, <4>3 DEF CopyShape
      <4> QED BY <2>1, <4>2, <4>3
    <3> QED BY <2>1, <3>1, <3>2 DEF CopyShape
  <2>4. Carried'
    <3> SUFFICES ASSUME NEW u \in Tensor, stage'[u] \in Filled PROVE Written(u)' \/ Queued(u)'
      BY DEF Carried
    <3>1. stage[u] \in Filled
      BY <1>2, <1>5 DEF Filled
    <3>2. Written(u) \/ Queued(u)
      BY <1>1, <3>1 DEF Carried
    <3>3. Written(u) => Written(u)'
      BY <1>2 DEF Written, Span
    <3>4. Queued(u) => Queued(u)'
      BY <2>1 DEF Queued
    <3> QED BY <3>2, <3>3, <3>4
  <2> QED BY <1>1, <1>2, <1>3, <1>4, <2>2, <2>3, <2>4 DEF IInv, CloseShape
<1>7. CASE Fenced(t) /\ UNCHANGED stream
  <2>1. TypeOK'
    <3>1. "unpacking" \in Stages
      BY DEF Stages
    <3>2. stream' \in Seq([op : {"d2h", "h2d"}, tensor : Tensor])
      BY <1>1, <1>7 DEF TypeOK
    <3> QED BY <1>1, <1>2, <1>3, <3>1, <3>2, StageTypes DEF closeVars
  <2>2. CopyShape'
    <3>1. \A i \in 1..Len(stream) : stage'[stream[i].tensor] = stage[stream[i].tensor]
      BY <1>1, <1>5, <1>7, StreamTypes DEF Fenced
    <3> QED BY <1>1, <1>7, <3>1, CopiesStay
  <2>3. Carried'
    <3>1. \A u \in Tensor : stage'[u] \in Filled => stage[u] \in Filled /\ alloc'[u] = alloc[u]
      BY <1>2, <1>5 DEF Filled
    <3> QED BY <1>1, <1>2, <1>7, <3>1, CarriedStays
  <2> QED BY <1>1, <1>2, <1>3, <1>4, <2>1, <2>2, <2>3 DEF IInv, CloseShape
<1> QED BY <1>2, <1>6, <1>7

-----------------------------------------------------------------------------
(* The steps of the stream and of the threads that close.                  *)

\* The oldest copy runs: it writes its own slot, which no other tensor has.
LEMMA CopyStep == ASSUME IInv, Copy PROVE IInv'
<1>1. /\ TypeOK /\ PoolShape /\ Tiles /\ StageShape /\ CloseShape /\ CopyShape /\ Carried
  BY DEF IInv
<1> DEFINE R == [op : {"d2h", "h2d"}, tensor : Tensor]
           c == Head(stream)
           s == c.tensor
<1>2. /\ stream # <<>> /\ stream' = Tail(stream)
      /\ UNCHANGED <<free, alloc, inflight, closing, closed, region, closer, stage>>
      /\ bytes' = IF c.op = "d2h" /\ alloc[s] # NoExtent
                  THEN [b \in Byte |-> IF b \in Span(<<alloc[s][1], Size[s]>>)
                                       THEN s ELSE bytes[b]]
                  ELSE bytes
  BY DEF Copy, poolVars, closeVars
<1>3. /\ stream \in Seq(R) /\ stream' \in Seq(R) /\ Len(stream) \in Nat /\ Len(stream) >= 1
      /\ c = stream[1] /\ c \in R
      /\ Len(stream') = Len(stream) - 1
      /\ \A i \in 1..Len(stream') : stream'[i] = stream[i + 1]
  <2>1. stream \in Seq(R)
    BY <1>1 DEF TypeOK
  <2> HIDE DEF R
  <2>2. /\ Head(stream) \in R /\ Tail(stream) \in Seq(R)
        /\ Len(Tail(stream)) = Len(stream) - 1
        /\ \A i \in 1..Len(Tail(stream)) : Tail(stream)[i] = stream[i + 1]
    BY <1>2, <2>1, HeadTailProperties
  <2>3. Len(stream) \in Nat /\ Len(stream) >= 1 /\ Head(stream) = stream[1]
    BY <1>2, <2>1, EmptySeq, LenProperties
  <2> QED BY <1>2, <2>1, <2>2, <2>3
<1> HIDE DEF c
<1>4. s \in Tensor /\ c.op \in {"d2h", "h2d"} /\ c = [op |-> c.op, tensor |-> s]
  BY <1>3
<1> HIDE DEF s
<1>5. \A i \in 1..Len(stream') : i + 1 \in 1..Len(stream)
  BY <1>3
<1>6. \A i \in 1..Len(stream) : i = 1 \/ (i - 1 \in 1..Len(stream') /\ (i - 1) + 1 = i)
  BY <1>3
<1>7. PoolShape' /\ Tiles'
  BY <1>1, <1>2, PoolStays
<1>8. TypeOK'
  <2>1. bytes' \in [Byte -> Tensor \cup {Nobody}]
    BY <1>1, <1>2, <1>4 DEF TypeOK
  <2> QED BY <1>1, <1>2, <1>3, <2>1 DEF TypeOK, Byte
<1>9. CopyShape'
  <2>1. ASSUME NEW i \in 1..Len(stream')
        PROVE  /\ stage'[stream'[i].tensor] \in Live \ {"acquired"}
               /\ stream'[i].op = "h2d" => stage'[stream'[i].tensor] = "unpacking"
    BY <1>1, <1>2, <1>3, <1>5 DEF CopyShape
  <2>2. ASSUME NEW i \in 1..Len(stream'), NEW j \in 1..Len(stream'), stream'[i].op = "h2d",
               stream'[j] = [op |-> "d2h", tensor |-> stream'[i].tensor]
        PROVE  j < i
    <3>1. j + 1 < i + 1
      BY <1>1, <1>3, <1>5, <2>2 DEF CopyShape
    <3> QED BY <3>1
  <2> QED BY <2>1, <2>2 DEF CopyShape
<1>10. Carried'
  <2> SUFFICES ASSUME NEW t \in Tensor, stage'[t] \in Filled PROVE Written(t)' \/ Queued(t)'
    BY DEF Carried
  <2>1. Written(t) \/ Queued(t)
    BY <1>1, <1>2 DEF Carried
  <2>2. alloc[t] # NoExtent /\ alloc[t] \in Extent /\ alloc[t][2] >= Size[t]
        /\ Size[t] \in Nat
    <3>1. stage[t] \in Live
      BY <1>2 DEF Filled, Live
    <3> QED BY <1>1, <3>1, SwapAssumption, Sizes DEF StageShape, PoolShape
  <2> DEFINE slot == Span(<<alloc[t][1], Size[t]>>)
  <2>3. \A b \in slot : b \in Byte /\ b \in Span(alloc[t])
    <3> SUFFICES ASSUME NEW b \in slot PROVE b \in Byte /\ b \in Span(alloc[t])
      OBVIOUS
    <3>1. /\ alloc[t][1] \in Nat /\ alloc[t][2] \in Nat /\ End(alloc[t]) <= Capacity
          /\ End(alloc[t]) = alloc[t][1] + alloc[t][2] /\ Capacity \in Nat
      BY <2>2, ExtentFacts, Sizes DEF End
    <3>2. b \in Int /\ alloc[t][1] <= b /\ b < alloc[t][1] + Size[t]
      BY <2>2, <3>1, SpanFacts
    <3>3. b < End(alloc[t]) /\ b >= 0 /\ b <= Capacity - 1
      BY <2>2, <3>1, <3>2
    <3> QED BY <2>2, <3>2, <3>3, <3>1, SpanFacts DEF Byte
  <2>4. CASE Queued(t)
    <3>1. PICK i \in 1..Len(stream) : stream[i] = [op |-> "d2h", tensor |-> t]
      BY <2>4 DEF Queued
    <3>2. CASE i = 1
      <4>1. s = t /\ c.op = "d2h"
        BY <1>3, <3>1, <3>2 DEF s
      <4>2. bytes' = [b \in Byte |-> IF b \in slot THEN t ELSE bytes[b]]
        BY <1>2, <2>2, <4>1
      <4>3. \A b \in slot : bytes'[b] = t
        BY <2>3, <4>2
      <4> QED BY <1>2, <4>3 DEF Written, Span
    <3>3. CASE i # 1
      <4>1. i - 1 \in 1..Len(stream') /\ stream'[i - 1] = stream[i]
        BY <1>3, <1>6, <3>3
      <4> QED BY <3>1, <4>1 DEF Queued
    <3> QED BY <3>2, <3>3
  <2>5. CASE Written(t)
    <3>1. ASSUME NEW b \in slot PROVE bytes'[b] = t
      <4>1. bytes[b] = t /\ b \in Byte /\ Owns(t, b)
        BY <2>2, <2>3, <2>5 DEF Written, Owns
      <4>2. CASE c.op = "d2h" /\ alloc[s] # NoExtent /\ b \in Span(<<alloc[s][1], Size[s]>>)
        <5>1. s = t
          <6>1. alloc[s] \in Extent /\ alloc[s][2] >= Size[s] /\ Size[s] \in Nat
            BY <1>1, <1>4, <4>2, SwapAssumption, Sizes DEF PoolShape
          <6>2. /\ alloc[s][1] \in Nat /\ alloc[s][2] \in Nat
                /\ End(alloc[s]) = alloc[s][1] + alloc[s][2]
            BY <6>1, ExtentFacts DEF End
          <6>3. b \in Int /\ alloc[s][1] <= b /\ b < alloc[s][1] + Size[s]
            BY <4>2, <6>1, <6>2, SpanFacts
          <6>4. b \in Span(alloc[s])
            BY <6>1, <6>2, <6>3, SpanFacts
          <6>5. Owns(s, b)
            BY <4>2, <6>4 DEF Owns
          <6>6. ~ closed
            BY <1>1, <2>2, EmptyPool DEF CloseShape
          <6> QED BY <1>1, <1>4, <4>1, <6>5, <6>6 DEF Tiles
        <5> QED BY <1>2, <4>1, <4>2, <5>1
      <4>3. CASE ~ (c.op = "d2h" /\ alloc[s] # NoExtent /\ b \in Span(<<alloc[s][1], Size[s]>>))
        BY <1>2, <4>1, <4>3
      <4> QED BY <4>2, <4>3
    <3> QED BY <1>2, <3>1 DEF Written, Span
  <2> QED BY <2>1, <2>4, <2>5
<1> QED BY <1>1, <1>2, <1>7, <1>8, <1>9, <1>10 DEF IInv, StageShape, CloseShape

\* What a closing thread does before the end touches no slot.
LEMMA CloseFrame ==
    ASSUME IInv, CloseShape', TypeOK', UNCHANGED <<free, alloc, inflight, closed, stage, stream, bytes>>
    PROVE  IInv'
<1>1. /\ PoolShape /\ Tiles /\ StageShape /\ CopyShape /\ Carried
  BY DEF IInv
<1>2. PoolShape' /\ Tiles'
  BY <1>1, PoolStays
<1>3. StageShape' /\ CopyShape' /\ Carried'
  BY <1>1 DEF StageShape, CopyShape, Carried, Written, Queued, Span
<1> QED BY <1>2, <1>3 DEF IInv

LEMMA CloseStep ==
    ASSUME IInv, NEW k \in Closer,
           CloseBegin(k) \/ CloseDrained(k) \/ CloseTimeout(k) \/ CloseFree(k)
    PROVE  IInv'
<1>1. TypeOK /\ CloseShape /\ PoolShape
  BY DEF IInv
<1>2. UNCHANGED <<free, alloc, inflight, closed, stage, stream, bytes>>
  BY DEF CloseBegin, CloseDrained, CloseTimeout, CloseFree, poolVars, copyVars
<1>3. TypeOK'
  BY <1>1, <1>2 DEF TypeOK, CloseBegin, CloseDrained, CloseTimeout, CloseFree, Byte
<1>4. CloseShape'
  <2>1. CASE CloseBegin(k)
    BY <1>1, <2>1 DEF TypeOK, CloseShape, CloseBegin, poolVars
  <2>2. CASE CloseDrained(k)
    BY <1>1, <2>2 DEF TypeOK, CloseShape, CloseDrained, poolVars
  <2>3. CASE CloseTimeout(k)
    BY <1>1, <2>3 DEF TypeOK, CloseShape, CloseTimeout, poolVars
  <2>4. CASE CloseFree(k)
    BY <1>1, <2>4 DEF TypeOK, CloseShape, CloseFree, poolVars
  <2> QED BY <2>1, <2>2, <2>3, <2>4
<1> QED BY <1>2, <1>3, <1>4, CloseFrame

LEMMA CloseEndStep == ASSUME IInv, NEW k \in Closer, CloseEnd(k) PROVE IInv'
<1>1. /\ TypeOK /\ PoolShape /\ Tiles /\ StageShape /\ CloseShape /\ CopyShape /\ Carried
  BY DEF IInv
<1>2. /\ closer[k] = "freed" /\ closed' = TRUE
      /\ free' = <<>> /\ alloc' = [t \in Tensor |-> NoExtent] /\ inflight' = 0
      /\ closer' = [closer EXCEPT ![k] = "idle"]
      /\ UNCHANGED <<closing, region, stage, stream, bytes>>
  BY DEF CloseEnd, copyVars
<1>3. inflight = 0 /\ closing
  BY <1>1, <1>2 DEF CloseShape
<1>4. alloc' = alloc
  <2>1. \A t \in Tensor : alloc[t] = NoExtent
    BY <1>1, <1>3, EmptyPool
  <2> QED BY <1>1, <1>2, <2>1 DEF PoolShape
<1>5. PoolShape'
  <2>1. free' \in Seq(Extent)
    BY <1>2, EmptySeq
  <2>2. inflight' = inflight
    BY <1>2, <1>3
  <2> QED BY <1>1, <1>4, <2>1, <2>2 DEF PoolShape, SizeIn, Extent, Byte
<1>6. TypeOK'
  <2>1. free' \in Seq(Byte \X (1..Capacity))
    BY <1>2, EmptySeq
  <2> QED BY <1>1, <1>2, <1>3, <1>4, <2>1 DEF TypeOK, Byte
<1>7. Tiles'
  BY <1>2 DEF Tiles
<1>8. CloseShape'
  BY <1>1, <1>2, <1>3 DEF TypeOK, CloseShape
<1>9. StageShape' /\ CopyShape' /\ Carried'
  BY <1>1, <1>2, <1>4 DEF StageShape, CopyShape, Carried, Written, Queued, Span
<1> QED BY <1>5, <1>6, <1>7, <1>8, <1>9 DEF IInv

LEMMA IInvInit == Init => IInv
<1> SUFFICES ASSUME Init PROVE IInv
  OBVIOUS
<1> DEFINE e == <<0, Capacity>>
<1>1. e \in Extent
  BY Sizes, AnExtent
<1>2. e[1] = 0 /\ e[2] = Capacity /\ End(e) = Capacity
  BY Sizes DEF End
<1> HIDE DEF e
<1>3. free = <<e>> /\ Len(<<e>>) = 1 /\ <<e>>[1] = e /\ <<e>> \in Seq(Extent)
  BY <1>1 DEF Init, e
<1>4. PoolShape
  <2>1. SizeIn(Tensor, alloc, Extent) = 0
    <3>1. \A t \in Tensor : alloc[t] \notin Extent
      BY NoExtentIsNone DEF Init
    <3> QED BY <3>1, SwapAssumption, SizeInBounds
  <2> QED BY <1>3, <2>1 DEF Init, PoolShape
<1>5. TypeOK
  <2>1. /\ free \in Seq(Byte \X (1..Capacity))
        /\ alloc \in [Tensor -> (Byte \X (1..Capacity)) \cup {NoExtent}]
        /\ SizeIn(Tensor, alloc, Extent) \in 0..Cardinality(Tensor)
    BY <1>4, PoolTypes DEF PoolShape
  <2>2. stream \in Seq([op : {"d2h", "h2d"}, tensor : Tensor])
    BY EmptySeq DEF Init
  <2> QED BY <1>4, <2>1, <2>2 DEF Init, TypeOK, PoolShape
<1>6. Tiles
  <2>1. Gaps(free)
    BY <1>3 DEF Gaps
  <2>2. \A b \in Byte : Covers(free, b)
    <3> SUFFICES ASSUME NEW b \in Byte PROVE b \in Span(e)
      BY <1>3 DEF Covers
    <3>1. b \in Int /\ 0 <= b /\ b < Capacity
      BY Sizes DEF Byte
    <3> QED BY <1>1, <1>2, <3>1, SpanFacts
  <2>3. \A t \in Tensor : \A b : ~ Owns(t, b)
    BY DEF Init, Owns
  <2> QED BY <2>1, <2>2, <2>3 DEF Tiles
<1>7. StageShape /\ CloseShape /\ Carried
  BY DEF Init, StageShape, CloseShape, Carried, Live, Filled
<1>8. CopyShape
  <2>1. Len(stream) = 0
    BY NothingListed DEF Init
  <2> QED BY <2>1 DEF CopyShape
<1> QED BY <1>4, <1>5, <1>6, <1>7, <1>8 DEF IInv

LEMMA IInvStep == IInv /\ [Next]_vars => IInv'
<1> SUFFICES ASSUME IInv, [Next]_vars PROVE IInv'
  OBVIOUS
<1>1. ASSUME NEW t \in Tensor, PackAcquire(t) PROVE IInv'
  BY <1>1, PackAcquireStep
<1>2. ASSUME NEW t \in Tensor, PackCopy(t) PROVE IInv'
  BY <1>2, PackCopyStep
<1>3. ASSUME NEW t \in Tensor, PackAbort(t) PROVE IInv'
  BY <1>3, GoneStep DEF PackAbort
<1>4. ASSUME NEW t \in Tensor, DropHandle(t) PROVE IInv'
  BY <1>4, DropHandleStep
<1>5. ASSUME NEW t \in Tensor, Unpack(t) PROVE IInv'
  BY <1>5, UnpackStep
<1>6. ASSUME NEW t \in Tensor, UnpackEnd(t) PROVE IInv'
  BY <1>6, GoneStep DEF UnpackEnd, UnpackFence, Fenced
<1>7. CASE Copy
  BY <1>7, CopyStep
<1>8. ASSUME NEW k \in Closer,
             CloseBegin(k) \/ CloseDrained(k) \/ CloseTimeout(k) \/ CloseFree(k)
      PROVE  IInv'
  BY <1>8, CloseStep
<1>9. ASSUME NEW k \in Closer, CloseEnd(k) PROVE IInv'
  BY <1>9, CloseEndStep
<1>10. CASE Idle \/ UNCHANGED vars
  <2>1. UNCHANGED <<free, alloc, inflight, closing, closed, region, closer, stage, stream, bytes>>
    BY <1>10 DEF Idle, vars, poolVars, closeVars, copyVars
  <2>2. TypeOK' /\ CloseShape'
    BY <2>1 DEF IInv, TypeOK, CloseShape, Byte
  <2> QED BY <2>1, <2>2, CloseFrame
<1> QED BY <1>1, <1>2, <1>3, <1>4, <1>5, <1>6, <1>7, <1>8, <1>9, <1>10 DEF Next

-----------------------------------------------------------------------------
(* The theorems.                                                           *)

\* The inductive invariant: slots and free extents tile the region, a tensor
\* on its way has a slot, and its bytes or the copy of them stand in it.
THEOREM SwapInvariant == Spec => []IInv
<1>1. IInv /\ [Next]_vars => IInv'
  BY IInvStep
<1> QED BY IInvInit, <1>1, PTL DEF Spec

\* Whatever was packed, released or merged: until the pool is closed every byte
\* is in one free extent or in one tensor's slot, no two free extents touch,
\* and the drain waits for as many slices as there are.
THEOREM TiledHolds == Spec => []Tiled
<1>1. IInv => Tiled
  <2> SUFFICES ASSUME IInv PROVE Tiled
    OBVIOUS
  <2>1. TypeOK /\ PoolShape /\ Tiles
    BY DEF IInv
  <2>2. /\ free \in Seq(Extent) /\ Len(free) \in Nat
        /\ \A i \in 1..Len(free) : free[i] \in Extent
    BY <2>1, LenProperties, ElementOfSeq DEF PoolShape
  <2>3. ASSUME ~ closed, NEW b \in Byte
        PROVE  Cardinality({t \in Allocated : b \in Span(alloc[t])})
                 + Cardinality({i \in 1..Len(free) : b \in Span(free[i])}) = 1
    <3> DEFINE T == {t \in Allocated : b \in Span(alloc[t])}
               F == {i \in 1..Len(free) : b \in Span(free[i])}
    <3>1. /\ \A t : t \in T <=> t \in Tensor /\ Owns(t, b)
          /\ \A i : i \in F <=> i \in 1..Len(free) /\ b \in Span(free[i])
      BY DEF Owns, Allocated
    <3> HIDE DEF T, F
    <3>2. \A i, j \in F : i = j
      <4> SUFFICES ASSUME NEW i \in F, NEW j \in F, i < j PROVE FALSE
        BY <2>2, <3>1
      <4>1. End(free[i]) < free[j][1]
        BY <2>1, <2>3, <3>1 DEF Tiles, Gaps
      <4>2. free[i] \in Extent /\ free[j] \in Extent
        BY <2>2, <3>1
      <4>3. b \in Int /\ b < End(free[i]) /\ free[j][1] <= b
        BY <3>1, <4>2, SpanFacts
      <4> QED BY <4>1, <4>2, <4>3, ExtentFacts
    <3>3. ASSUME NEW t \in Tensor, Owns(t, b) PROVE Cardinality(T) + Cardinality(F) = 1
      <4>1. ~ Covers(free, b) /\ \A u \in Tensor : Owns(u, b) => u = t
        BY <2>1, <2>3, <3>3 DEF Tiles
      <4>2. T = {t} /\ F = {}
        BY <3>1, <3>3, <4>1 DEF Covers
      <4>3. Cardinality(T) = 1 /\ Cardinality(F) = 0
        BY <4>2, FS_Singleton, FS_EmptySet
      <4> QED BY <4>3
    <3>4. ASSUME ~ (\E t \in Tensor : Owns(t, b))
          PROVE  Cardinality(T) + Cardinality(F) = 1
      <4>1. Covers(free, b)
        BY <2>1, <2>3, <3>4 DEF Tiles
      <4>2. PICK i \in 1..Len(free) : b \in Span(free[i])
        BY <4>1 DEF Covers
      <4>3. T = {} /\ F = {i}
        BY <3>1, <3>2, <3>4, <4>2
      <4>4. Cardinality(T) = 0 /\ Cardinality(F) = 1
        BY <4>3, FS_Singleton, FS_EmptySet
      <4> QED BY <4>4
    <3> QED BY <3>3, <3>4 DEF T, F
  <2>4. ASSUME ~ closed, NEW i \in 1..(Len(free) - 1)
        PROVE  free[i][1] + free[i][2] < free[i + 1][1]
    <3>1. i \in 1..Len(free) /\ i + 1 \in 1..Len(free) /\ i < i + 1
      BY <2>2
    <3> QED BY <2>1, <2>4, <3>1 DEF Tiles, Gaps, End
  <2>5. inflight = Cardinality(Allocated)
    <3>1. Allocated = {t \in Tensor : alloc[t] \in Extent}
      BY <2>1, NoExtentIsNone DEF Allocated, PoolShape
    <3> QED BY <2>1, <3>1 DEF PoolShape, SizeIn
  <2> QED BY <2>1, <2>3, <2>4, <2>5 DEF Tiled
<1> QED BY <1>1, SwapInvariant, PTL

\* A copy back to the GPU reads the tensor's own bytes, for every order of
\* packs, releases, failures and closes.
THEOREM UnpacksOwnBytesHolds == Spec => []UnpacksOwnBytes
<1>1. IInv => UnpacksOwnBytes
  <2> SUFFICES ASSUME IInv, stream # <<>>, Head(stream).op = "h2d"
               PROVE  LET t == Head(stream).tensor IN
                      /\ alloc[t] # NoExtent
                      /\ \A b \in Span(<<alloc[t][1], Size[t]>>) : bytes[b] = t
    BY DEF UnpacksOwnBytes
  <2> DEFINE t == Head(stream).tensor
  <2>1. TypeOK /\ StageShape /\ CopyShape /\ Carried
    BY DEF IInv
  <2>2. Len(stream) \in Nat /\ 1 \in 1..Len(stream) /\ Head(stream) = stream[1]
    BY <2>1, EmptySeq, LenProperties DEF TypeOK
  <2>3. t \in Tensor /\ stage[t] = "unpacking"
    BY <2>1, <2>2, StreamTypes DEF CopyShape
  <2>4. alloc[t] # NoExtent /\ stage[t] \in Filled
    BY <2>1, <2>3 DEF StageShape, Live, Filled
  <2>5. ~ Queued(t)
    <3> SUFFICES ASSUME NEW j \in 1..Len(stream), stream[j] = [op |-> "d2h", tensor |-> t]
                 PROVE  FALSE
      BY DEF Queued
    <3>1. j < 1
      BY <2>1, <2>2 DEF CopyShape
    <3> QED BY <2>2, <3>1
  <2>6. Written(t)
    BY <2>1, <2>3, <2>4, <2>5 DEF Carried
  <2> QED BY <2>4, <2>6 DEF Written
<1> QED BY <1>1, SwapInvariant, PTL

\* close frees the pinned region only once nothing reads or writes it and no
\* tensor has a slot in it.
THEOREM RegionOutlivesCopiesHolds == Spec => []RegionOutlivesCopies
<1>1. IInv => RegionOutlivesCopies
  <2> SUFFICES ASSUME IInv, ~ region PROVE
           /\ stream = <<>>
           /\ \A t \in Tensor : stage[t] \notin {"acquired", "packed", "failed", "unpacking"}
    BY DEF RegionOutlivesCopies
  <2>1. TypeOK /\ PoolShape /\ StageShape /\ CloseShape /\ CopyShape
    BY DEF IInv
  <2>2. \A t \in Tensor : stage[t] \notin Live
    BY <2>1, EmptyPool DEF CloseShape, StageShape
  <2>3. stream = <<>>
    <3> SUFFICES ASSUME stream # <<>> PROVE FALSE
      OBVIOUS
    <3>1. Len(stream) \in Nat /\ 1 \in 1..Len(stream)
      BY <2>1, EmptySeq, LenProperties DEF TypeOK
    <3>2. stream[1].tensor \in Tensor /\ stage[stream[1].tensor] \in Live
      BY <2>1, <3>1, StreamTypes DEF CopyShape
    <3> QED BY <2>2, <3>2
  <2> QED BY <2>2, <2>3 DEF Live
<1> QED BY <1>1, SwapInvariant, PTL

-----------------------------------------------------------------------------
(***************************************************************************)
(* The disk offloading, for any number of tensors, pool threads, prefetch  *)
(* workers and faults: a permit is out for each save that is on its way    *)
(* and for each that raised, and the backward pass raises only for a       *)
(* tensor whose save failed.                                               *)
(***************************************************************************)

-----------------------------------------------------------------------------
(* The inductive invariant.                                                *)

Settled == {"saved", "failed"} \cup SaveOver    \* the file is written, or never will be
OnDisk == {"saved", "ok"}
Refused == {"failed", "notfound", "raised"}
Holding == {"queued", "pending", "raised"} \cup Writing    \* a permit

\* file_status leaves "saving" when the save is over, and only the file of a
\* save that went well is ready, being prefetched or missed.
StatusFollows == \A t \in SavedTensor :
    /\ (status[t] \notin {"none", "saving"} => save[t] \in Settled)
    /\ (status[t] \in {"ready", "prefetching", "missing"} => save[t] \in OnDisk)

\* So only those are ever handed to the prefetch workers.
Listed == ToSet(putting) \cup ToSet(prefetches) \cup cached
PrefetchedWasSaved ==
    /\ \A t \in Listed : save[t] \in OnDisk
    /\ \A w \in Prefetcher :
          /\ (worker[w].path # NoTensor => save[worker[w].path] \in OnDisk)
          /\ (worker[w].at # "idle" => worker[w].path # NoTensor)

\* What was written stays until the backward pass has come to it.
WholeUntilDeleted == \A t \in SavedTensor :
    save[t] \in OnDisk \cup {"written"} /\ (t < cur \/ (t = cur /\ at # "done"))
        => file[t] = "whole"

\* The autograd thread saves first to last, and loads what the wait saw settled.
Passes ==
    /\ (at \in {"save", "acquire"} => \A t \in SavedTensor : t >= cur => save[t] = "none")
    /\ (at \in {"take", "load", "mark", "cleanup", "delete"} => save[cur] \in Settled)
    /\ (failing => at \in {"cleanup", "delete", "done"})

DiskIInv ==
    Inv /\ StatusFollows /\ PrefetchedWasSaved /\ WholeUntilDeleted /\ Passes
        /\ FailsOnlyWithItsSave

-----------------------------------------------------------------------------
(* The parts of a step.                                                    *)

LEMMA TensorsFinite ==
    /\ SavedTensor \subseteq Int /\ IsFiniteSet(SavedTensor)
    /\ Permits \in Nat /\ NoTensor \notin SavedTensor
<1>1. IsFiniteSet(1..NTensors)
  BY DiskAssumption, FS_Interval
<1> QED BY <1>1, DiskAssumption DEF SavedTensor, Permits

\* What the queue's counter becomes.
LEMMA MaxOfTwo == \A a, b \in Int : Max({a, b}) = IF a >= b THEN a ELSE b
<1> SUFFICES ASSUME NEW a \in Int, NEW b \in Int PROVE Max({a, b}) = IF a >= b THEN a ELSE b
  OBVIOUS
<1>1. \E x \in {a, b} : \A y \in {a, b} : x >= y
  OBVIOUS
<1>2. Max({a, b}) \in {a, b} /\ \A y \in {a, b} : Max({a, b}) >= y
  BY <1>1 DEF Max
<1> QED BY <1>2

LEMMA MinOfTwo == \A a, b \in Int : Min({a, b}) = IF a <= b THEN a ELSE b
<1> SUFFICES ASSUME NEW a \in Int, NEW b \in Int PROVE Min({a, b}) = IF a <= b THEN a ELSE b
  OBVIOUS
<1>1. \E x \in {a, b} : \A y \in {a, b} : x =< y
  OBVIOUS
<1>2. Min({a, b}) \in {a, b} /\ \A y \in {a, b} : Min({a, b}) =< y
  BY <1>1 DEF Min
<1> QED BY <1>2

LEMMA ListedTensors == ASSUME DiskTypeOK PROVE Listed \subseteq SavedTensor
BY ToSetDef DEF DiskTypeOK, Listed

\* A save that is over stays over, and one that went well stays so.
Keeps == \A t \in SavedTensor : save[t] \in OnDisk => save'[t] \in OnDisk

LEMMA PrefetchedStays ==
    ASSUME DiskTypeOK, PrefetchedWasSaved, Keeps, UNCHANGED worker, Listed' \subseteq Listed
    PROVE  PrefetchedWasSaved'
<1>1. \A t \in Listed' : save'[t] \in OnDisk
  BY ListedTensors DEF PrefetchedWasSaved, Keeps
<1>2. ASSUME NEW w \in Prefetcher
      PROVE  /\ (worker'[w].path # NoTensor => save'[worker'[w].path] \in OnDisk)
             /\ (worker'[w].at # "idle" => worker'[w].path # NoTensor)
  <2>1. worker[w].path \in SavedTensor \cup {NoTensor}
    BY DEF DiskTypeOK
  <2> QED BY <2>1 DEF PrefetchedWasSaved, Keeps
<1> QED BY <1>1, <1>2 DEF PrefetchedWasSaved

LEMMA HoldingCount ==
    ASSUME NEW f, NEW g, NEW t \in SavedTensor, \A x \in SavedTensor \ {t} : g[x] = f[x]
    PROVE  /\ (f[t] \in Holding <=> g[t] \in Holding)
                  => SizeIn(SavedTensor, g, Holding) = SizeIn(SavedTensor, f, Holding)
           /\ f[t] \in Holding /\ g[t] \notin Holding
                  => SizeIn(SavedTensor, g, Holding) = SizeIn(SavedTensor, f, Holding) - 1
           /\ f[t] \notin Holding /\ g[t] \in Holding
                  => SizeIn(SavedTensor, g, Holding) = SizeIn(SavedTensor, f, Holding) + 1
<1>1. IsFiniteSet(SavedTensor)
  BY TensorsFinite
<1> QED BY <1>1, SizeInMoves

\* The permits out, when one save moves.
LEMMA HoldingMoves ==
    ASSUME DiskTypeOK, PermitsAccounted, NEW t \in SavedTensor, NEW to, save' = [save EXCEPT ![t] = to],
           \/ (save[t] \in Holding <=> to \in Holding) /\ permits' = permits
           \/ save[t] \notin Holding /\ to \in Holding /\ permits' = permits - 1
           \/ save[t] \in Holding /\ to \notin Holding /\ permits' = permits + 1
    PROVE  PermitsAccounted' /\ (permits' >= 0 => permits' \in 0..Permits)
<1>1. /\ permits \in Int /\ save'[t] = to /\ \A x \in SavedTensor \ {t} : save'[x] = save[x]
  BY TensorsFinite DEF DiskTypeOK
<1>2. PermitsAccounted <=> permits + SizeIn(SavedTensor, save, Holding) = Permits
  BY DEF PermitsAccounted, SizeIn, Holding
<1>3. PermitsAccounted' <=> permits' + SizeIn(SavedTensor, save', Holding) = Permits
  BY DEF PermitsAccounted, SizeIn, Holding
<1>4. /\ SizeIn(SavedTensor, save, Holding) \in Nat
      /\ SizeIn(SavedTensor, save', Holding) \in Nat
  BY TensorsFinite, SizeInBounds
<1>5. /\ (save[t] \in Holding <=> save'[t] \in Holding)
             => SizeIn(SavedTensor, save', Holding) = SizeIn(SavedTensor, save, Holding)
      /\ save[t] \in Holding /\ save'[t] \notin Holding
             => SizeIn(SavedTensor, save', Holding) = SizeIn(SavedTensor, save, Holding) - 1
      /\ save[t] \notin Holding /\ save'[t] \in Holding
             => SizeIn(SavedTensor, save', Holding) = SizeIn(SavedTensor, save, Holding) + 1
  <2>1. \A x \in SavedTensor \ {t} : save'[x] = save[x]
    BY <1>1
  <2> QED BY <2>1, HoldingCount, Zenon
<1> QED BY <1>1, <1>2, <1>3, <1>4, <1>5, TensorsFinite

-----------------------------------------------------------------------------
(* The steps of the autograd thread.                                       *)

LEMMA SaveTensorStep == ASSUME DiskIInv, SaveTensor PROVE DiskIInv'
<1>0. /\ DiskTypeOK /\ PermitsAccounted /\ StatusFollows /\ PrefetchedWasSaved
      /\ WholeUntilDeleted /\ Passes /\ FailsOnlyWithItsSave
  BY DEF DiskIInv, Inv
<1>1. DiskTypeOK'
  BY <1>0, TensorsFinite DEF DiskTypeOK, SaveTensor, saveVars, prefetchVars, mainVars
<1>2. PermitsAccounted'
  BY <1>0 DEF PermitsAccounted, SaveTensor, saveVars, prefetchVars, mainVars
<1>3. StatusFollows'
  BY <1>0 DEF DiskTypeOK, StatusFollows, PrefetchedWasSaved, Settled, OnDisk, SaveOver,
     Passes, SaveTensor, saveVars, prefetchVars, mainVars
<1>4. PrefetchedWasSaved'
  <2>1. Listed' \subseteq Listed
    BY DEF Listed, SaveTensor, mainVars
  <2>2. Keeps /\ UNCHANGED worker
    BY <1>0 DEF DiskTypeOK, Keeps, OnDisk, SaveTensor, saveVars, prefetchVars, mainVars
  <2> QED BY <1>0, <2>1, <2>2, PrefetchedStays
<1>5. WholeUntilDeleted'
  BY <1>0, TensorsFinite DEF DiskTypeOK, WholeUntilDeleted, OnDisk, Passes, SaveTensor, saveVars,
     prefetchVars, mainVars
<1>6. Passes' /\ FailsOnlyWithItsSave'
  BY <1>0, TensorsFinite DEF DiskTypeOK, Passes, FailsOnlyWithItsSave, Settled, SaveOver,
     SaveTensor,
     saveVars, prefetchVars, mainVars
<1> QED BY <1>1, <1>2, <1>3, <1>4, <1>5, <1>6 DEF DiskIInv, Inv

LEMMA AcquirePermitStep == ASSUME DiskIInv, AcquirePermit PROVE DiskIInv'
<1>0. /\ DiskTypeOK /\ PermitsAccounted /\ StatusFollows /\ PrefetchedWasSaved
      /\ WholeUntilDeleted /\ Passes /\ FailsOnlyWithItsSave
  BY DEF DiskIInv, Inv
<1>a. /\ save[cur] = "none" /\ save' = [save EXCEPT ![cur] = "queued"] /\ cur \in SavedTensor
      /\ permits \in Int /\ permits > 0 /\ permits' = permits - 1
      /\ save \in [SavedTensor -> {"none", "queued", "pending"} \cup Writing \cup SaveOver]
  BY <1>0, TensorsFinite DEF AcquirePermit, Passes, DiskTypeOK
<1>b. \A t \in SavedTensor : save'[t] = IF t = cur THEN "queued" ELSE save[t]
  BY <1>a
<1>c. PermitsAccounted' /\ permits' \in 0..Permits
  <2>1. "none" \notin Holding /\ "queued" \in Holding
    BY DEF Holding, Writing
  <2>2. permits' >= 0
    BY <1>a
  <2> QED BY <1>0, <1>a, <2>1, <2>2, HoldingMoves
<1>1. DiskTypeOK'
  <2>1. save' \in [SavedTensor -> {"none", "queued", "pending"} \cup Writing \cup SaveOver]
    BY <1>a
  <2>2. cur' \in SavedTensor /\ at' \in {"save", "trigger"}
    BY <1>0, DiskAssumption DEF AcquirePermit, DiskTypeOK, SavedTensor
  <2> QED BY <1>0, <1>c, <2>1, <2>2 DEF DiskTypeOK, AcquirePermit, prefetchVars
<1>2. PermitsAccounted'
  BY <1>c
<1>3. StatusFollows'
  <2>1. "none" \notin Settled /\ "none" \notin OnDisk
    BY DEF Settled, OnDisk, SaveOver
  <2> QED BY <1>0, <1>a, <1>b, <2>1 DEF StatusFollows, AcquirePermit
<1>4. PrefetchedWasSaved'
  <2>1. Listed' \subseteq Listed /\ UNCHANGED worker
    BY DEF Listed, AcquirePermit, prefetchVars
  <2>2. Keeps
    <3>1. "none" \notin OnDisk
      BY DEF OnDisk
    <3> QED BY <1>a, <1>b, <3>1 DEF Keeps
  <2> QED BY <1>0, <2>1, <2>2, PrefetchedStays
<1>5. WholeUntilDeleted'
  BY <1>0, TensorsFinite DEF DiskTypeOK, WholeUntilDeleted, OnDisk, Passes, AcquirePermit,
     saveVars, prefetchVars, mainVars
<1>6. Passes' /\ FailsOnlyWithItsSave'
  BY <1>0, TensorsFinite DEF DiskTypeOK, Passes, FailsOnlyWithItsSave, Settled, SaveOver,
     AcquirePermit,
     saveVars, prefetchVars, mainVars
<1> QED BY <1>1, <1>2, <1>3, <1>4, <1>5, <1>6 DEF DiskIInv, Inv

LEMMA TriggerPrefetchStep == ASSUME DiskIInv, TriggerPrefetch PROVE DiskIInv'
<1>0. /\ DiskTypeOK /\ PermitsAccounted /\ StatusFollows /\ PrefetchedWasSaved
      /\ WholeUntilDeleted /\ Passes /\ FailsOnlyWithItsSave
  BY DEF DiskIInv, Inv
<1>a. /\ putting' \in Seq(SavedTensor)
      /\ \A t \in ToSet(putting') : t \in SavedTensor /\ status[t] = "ready"
  <2> DEFINE R == {t \in SavedTensor : t \notin cached /\ status[t] = "ready"}
             n == Min({MaxPrefetch, Len(Prefetchable)})
  <2>1. /\ Reverse(paths) \in Seq(SavedTensor) /\ Prefetchable = Only(Reverse(paths), R)
    BY <1>0, ReverseSet DEF DiskTypeOK, Prefetchable
  <2> HIDE DEF R
  <2>2. Prefetchable \in Seq(SavedTensor) /\ ToSet(Prefetchable) = ToSet(Reverse(paths)) \cap R
    BY <2>1, OnlyKeeps
  <2>3. Len(Prefetchable) \in Nat /\ MaxPrefetch \in Int
    BY <2>2, LenProperties, DiskAssumption
  <2>4. n \in Int /\ n <= Len(Prefetchable)
    BY <2>3, MinOfTwo
  <2>5. putting' = SubSeq(Prefetchable, 1, n)
    BY DEF TriggerPrefetch
  <2> HIDE DEF n
  <2>6. \A i \in 1..n : Prefetchable[i] \in R \cap SavedTensor
    <3>1. \A i \in 1..n : i \in 1..Len(Prefetchable)
      BY <2>3, <2>4
    <3>2. \A i \in 1..Len(Prefetchable) : Prefetchable[i] \in ToSet(Prefetchable)
      BY <2>2, ToSetDef
    <3> QED BY <2>2, <3>1, <3>2, ElementOfSeq
  <2>7. putting' \in Seq(R \cap SavedTensor)
    <3>1. 1 \in Int
      OBVIOUS
    <3> QED BY <2>4, <2>5, <2>6, <3>1, SubSeqProperties
  <2>8. ToSet(putting') \subseteq R \cap SavedTensor
    BY <2>7, ToSetDef
  <2>9. putting' \in Seq(SavedTensor)
    <3>1. \A i \in 1..n : Prefetchable[i] \in SavedTensor
      BY <2>6
    <3>2. 1 \in Int
      OBVIOUS
    <3> QED BY <2>4, <2>5, <3>1, <3>2, SubSeqProperties
  <2> QED BY <2>8, <2>9 DEF R
<1>1. DiskTypeOK'
  BY <1>0, <1>a DEF DiskTypeOK, TriggerPrefetch, saveVars, prefetchVars
<1>2. PermitsAccounted'
  BY <1>0 DEF PermitsAccounted, TriggerPrefetch, saveVars, prefetchVars, mainVars
<1>3. StatusFollows'
  BY <1>0 DEF DiskTypeOK, StatusFollows, PrefetchedWasSaved, Settled, OnDisk, SaveOver,
     Passes, TriggerPrefetch, saveVars, prefetchVars, mainVars
<1>4. PrefetchedWasSaved'
  <2>1. \A t \in ToSet(putting') : save[t] \in OnDisk
    BY <1>0, <1>a DEF StatusFollows
  <2>2. UNCHANGED <<save, worker, cached, prefetches>>
    BY DEF TriggerPrefetch, saveVars, prefetchVars
  <2>3. \A t \in Listed' : save'[t] \in OnDisk
    BY <1>0, <2>1, <2>2 DEF Listed, PrefetchedWasSaved
  <2> QED BY <1>0, <2>2, <2>3 DEF PrefetchedWasSaved
<1>5. WholeUntilDeleted'
  BY <1>0, TensorsFinite DEF DiskTypeOK, WholeUntilDeleted, OnDisk, Passes, TriggerPrefetch,
     saveVars, prefetchVars, mainVars
<1>6. Passes' /\ FailsOnlyWithItsSave'
  BY <1>0, TensorsFinite DEF DiskTypeOK, Passes, FailsOnlyWithItsSave, Settled, SaveOver,
     TriggerPrefetch,
     saveVars, prefetchVars, mainVars
<1> QED BY <1>1, <1>2, <1>3, <1>4, <1>5, <1>6 DEF DiskIInv, Inv

LEMMA PutPrefetchStep == ASSUME DiskIInv, PutPrefetch PROVE DiskIInv'
<1>0. /\ DiskTypeOK /\ PermitsAccounted /\ StatusFollows /\ PrefetchedWasSaved
      /\ WholeUntilDeleted /\ Passes /\ FailsOnlyWithItsSave
  BY DEF DiskIInv, Inv
<1>a. /\ putting' \in Seq(SavedTensor) /\ prefetches' \in Seq(SavedTensor)
      /\ ToSet(putting') \cup ToSet(prefetches') \subseteq ToSet(putting) \cup ToSet(prefetches)
  <2>1. CASE putting = <<>>
    BY <1>0, <2>1 DEF PutPrefetch, DiskTypeOK
  <2>2. CASE putting # <<>>
    <3>1. /\ Head(putting) \in SavedTensor /\ Tail(putting) \in Seq(SavedTensor)
          /\ ToSet(putting) = {Head(putting)} \cup ToSet(Tail(putting))
      BY <1>0, <2>2, TailSet DEF DiskTypeOK
    <3>2. /\ Append(prefetches, Head(putting)) \in Seq(SavedTensor)
          /\ ToSet(Append(prefetches, Head(putting))) = ToSet(prefetches) \cup {Head(putting)}
      BY <1>0, <3>1, AppendProperties, AppendSet DEF DiskTypeOK
    <3>3. putting' = Tail(putting) /\ prefetches' = Append(prefetches, Head(putting))
      BY <2>2 DEF PutPrefetch
    <3> QED BY <3>1, <3>2, <3>3
  <2> QED BY <2>1, <2>2
<1>1. DiskTypeOK'
  <2>1. at' \in {"put", "wait"} /\ unfinished' \in Nat
    BY <1>0 DEF PutPrefetch, DiskTypeOK
  <2> QED BY <1>0, <1>a, <2>1 DEF DiskTypeOK, PutPrefetch, saveVars
<1>2. PermitsAccounted'
  BY <1>0 DEF PermitsAccounted, PutPrefetch, saveVars, prefetchVars, mainVars
<1>3. StatusFollows'
  BY <1>0 DEF DiskTypeOK, StatusFollows, PrefetchedWasSaved, Settled, OnDisk, SaveOver,
     Passes, PutPrefetch, saveVars, prefetchVars, mainVars
<1>4. PrefetchedWasSaved'
  <2>1. UNCHANGED <<save, worker, cached>>
    BY DEF PutPrefetch, saveVars
  <2>2. Listed' \subseteq Listed
    BY <1>a, <2>1 DEF Listed
  <2>3. Keeps
    BY <2>1 DEF Keeps
  <2> QED BY <1>0, <2>1, <2>2, <2>3, PrefetchedStays
<1>5. WholeUntilDeleted'
  BY <1>0, TensorsFinite DEF DiskTypeOK, WholeUntilDeleted, OnDisk, Passes, PutPrefetch,
     saveVars, prefetchVars, mainVars
<1>6. Passes' /\ FailsOnlyWithItsSave'
  BY <1>0, TensorsFinite DEF DiskTypeOK, Passes, FailsOnlyWithItsSave, Settled, SaveOver,
     PutPrefetch,
     saveVars, prefetchVars, mainVars
<1> QED BY <1>1, <1>2, <1>3, <1>4, <1>5, <1>6 DEF DiskIInv, Inv

LEMMA WaitForSaveStep == ASSUME DiskIInv, WaitForSave PROVE DiskIInv'
<1>0. /\ DiskTypeOK /\ PermitsAccounted /\ StatusFollows /\ PrefetchedWasSaved
      /\ WholeUntilDeleted /\ Passes /\ FailsOnlyWithItsSave
  BY DEF DiskIInv, Inv
<1>1. DiskTypeOK'
  BY <1>0, TensorsFinite DEF DiskTypeOK, WaitForSave, saveVars, prefetchVars, mainVars
<1>2. PermitsAccounted'
  BY <1>0 DEF PermitsAccounted, WaitForSave, saveVars, prefetchVars, mainVars
<1>3. StatusFollows'
  BY <1>0 DEF DiskTypeOK, StatusFollows, PrefetchedWasSaved, Settled, OnDisk, SaveOver,
     Passes, WaitForSave, saveVars, prefetchVars, mainVars
<1>4. PrefetchedWasSaved'
  <2>1. Listed' \subseteq Listed
    BY DEF Listed, WaitForSave, mainVars
  <2>2. Keeps /\ UNCHANGED worker
    BY <1>0 DEF DiskTypeOK, Keeps, OnDisk, WaitForSave, saveVars, prefetchVars, mainVars
  <2> QED BY <1>0, <2>1, <2>2, PrefetchedStays
<1>5. WholeUntilDeleted'
  BY <1>0, TensorsFinite DEF DiskTypeOK, WholeUntilDeleted, OnDisk, Passes, WaitForSave,
     saveVars, prefetchVars, mainVars
<1>6. Passes' /\ FailsOnlyWithItsSave'
  <2>1. save[cur] \in Settled
    <3>1. SaveSettled(cur) /\ cur \in SavedTensor
      BY <1>0 DEF WaitForSave, DiskTypeOK
    <3> QED BY <1>0, <3>1 DEF SaveSettled, StatusSettled, StatusFollows, Settled
  <2>2. UNCHANGED <<save, cur, failing>> /\ at = "wait" /\ at' = "take"
    BY DEF WaitForSave, saveVars
  <2> QED BY <1>0, <2>1, <2>2 DEF Passes, FailsOnlyWithItsSave
<1> QED BY <1>1, <1>2, <1>3, <1>4, <1>5, <1>6 DEF DiskIInv, Inv

LEMMA TakeCachedStep == ASSUME DiskIInv, TakeCached PROVE DiskIInv'
<1>0. /\ DiskTypeOK /\ PermitsAccounted /\ StatusFollows /\ PrefetchedWasSaved
      /\ WholeUntilDeleted /\ Passes /\ FailsOnlyWithItsSave
  BY DEF DiskIInv, Inv
<1>1. DiskTypeOK'
  BY <1>0, TensorsFinite DEF DiskTypeOK, TakeCached, saveVars, prefetchVars, mainVars
<1>2. PermitsAccounted'
  BY <1>0 DEF PermitsAccounted, TakeCached, saveVars, prefetchVars, mainVars
<1>3. StatusFollows'
  BY <1>0 DEF DiskTypeOK, StatusFollows, PrefetchedWasSaved, Settled, OnDisk, SaveOver,
     Passes, TakeCached, saveVars, prefetchVars, mainVars
<1>4. PrefetchedWasSaved'
  <2>1. UNCHANGED <<save, worker, putting, prefetches>> /\ cached' \subseteq cached
    BY DEF TakeCached, saveVars, prefetchVars
  <2>2. Listed' \subseteq Listed /\ Keeps
    BY <2>1 DEF Listed, Keeps
  <2> QED BY <1>0, <2>1, <2>2, PrefetchedStays
<1>5. WholeUntilDeleted'
  BY <1>0, TensorsFinite DEF DiskTypeOK, WholeUntilDeleted, OnDisk, Passes, TakeCached, saveVars,
     prefetchVars, mainVars
<1>6. Passes' /\ FailsOnlyWithItsSave'
  BY <1>0, TensorsFinite DEF DiskTypeOK, Passes, FailsOnlyWithItsSave, Settled, SaveOver,
     TakeCached,
     saveVars, prefetchVars, mainVars
<1> QED BY <1>1, <1>2, <1>3, <1>4, <1>5, <1>6 DEF DiskIInv, Inv

LEMMA LoadFromDiskStep == ASSUME DiskIInv, LoadFromDisk PROVE DiskIInv'
<1>0. /\ DiskTypeOK /\ PermitsAccounted /\ StatusFollows /\ PrefetchedWasSaved
      /\ WholeUntilDeleted /\ Passes /\ FailsOnlyWithItsSave
  BY DEF DiskIInv, Inv
<1>1. DiskTypeOK'
  BY <1>0, TensorsFinite DEF DiskTypeOK, LoadFromDisk, saveVars, prefetchVars, mainVars
<1>2. PermitsAccounted'
  BY <1>0 DEF PermitsAccounted, LoadFromDisk, saveVars, prefetchVars, mainVars
<1>3. StatusFollows'
  BY <1>0 DEF DiskTypeOK, StatusFollows, PrefetchedWasSaved, Settled, OnDisk, SaveOver,
     Passes, LoadFromDisk, saveVars, prefetchVars, mainVars
<1>4. PrefetchedWasSaved'
  <2>1. Listed' \subseteq Listed
    BY DEF Listed, LoadFromDisk, mainVars
  <2>2. Keeps /\ UNCHANGED worker
    BY <1>0 DEF DiskTypeOK, Keeps, OnDisk, LoadFromDisk, saveVars, prefetchVars, mainVars
  <2> QED BY <1>0, <2>1, <2>2, PrefetchedStays
<1>5. WholeUntilDeleted'
  BY <1>0, TensorsFinite DEF DiskTypeOK, WholeUntilDeleted, OnDisk, Passes, LoadFromDisk,
     saveVars, prefetchVars, mainVars
<1>6. Passes' /\ FailsOnlyWithItsSave'
  <2>1. /\ UNCHANGED <<save, cur>> /\ at = "load" /\ at' \in {"mark", "cleanup"}
        /\ failing' # failing => file[cur] # "whole" /\ at' = "cleanup"
        /\ cur \in SavedTensor /\ save[cur] \in Settled
    BY <1>0 DEF LoadFromDisk, saveVars, Passes, DiskTypeOK
  <2>2. file[cur] # "whole" => save[cur] \notin OnDisk
    BY <1>0, <2>1, TensorsFinite DEF WholeUntilDeleted
  <2>3. failing' => save[cur] \in Refused
    BY <1>0, <2>1, <2>2 DEF FailsOnlyWithItsSave, Settled, OnDisk, Refused, SaveOver,
       DiskTypeOK, LoadFromDisk
  <2>4. ~ failing
    BY <1>0, <2>1 DEF Passes
  <2> QED BY <1>0, <2>1, <2>3, <2>4 DEF Passes, FailsOnlyWithItsSave, Refused,
     LoadFromDisk
<1> QED BY <1>1, <1>2, <1>3, <1>4, <1>5, <1>6 DEF DiskIInv, Inv

LEMMA MarkLoadedStep == ASSUME DiskIInv, MarkLoaded PROVE DiskIInv'
<1>0. /\ DiskTypeOK /\ PermitsAccounted /\ StatusFollows /\ PrefetchedWasSaved
      /\ WholeUntilDeleted /\ Passes /\ FailsOnlyWithItsSave
  BY DEF DiskIInv, Inv
<1>1. DiskTypeOK'
  BY <1>0, TensorsFinite DEF DiskTypeOK, MarkLoaded, saveVars, prefetchVars, mainVars
<1>2. PermitsAccounted'
  BY <1>0 DEF PermitsAccounted, MarkLoaded, saveVars, prefetchVars, mainVars
<1>3. StatusFollows'
  BY <1>0 DEF DiskTypeOK, StatusFollows, PrefetchedWasSaved, Settled, OnDisk, SaveOver,
     Passes, MarkLoaded, saveVars, prefetchVars, mainVars
<1>4. PrefetchedWasSaved'
  <2>1. Listed' \subseteq Listed
    BY DEF Listed, MarkLoaded, mainVars
  <2>2. Keeps /\ UNCHANGED worker
    BY <1>0 DEF DiskTypeOK, Keeps, OnDisk, MarkLoaded, saveVars, prefetchVars, mainVars
  <2> QED BY <1>0, <2>1, <2>2, PrefetchedStays
<1>5. WholeUntilDeleted'
  BY <1>0, TensorsFinite DEF DiskTypeOK, WholeUntilDeleted, OnDisk, Passes, MarkLoaded, saveVars,
     prefetchVars, mainVars
<1>6. Passes' /\ FailsOnlyWithItsSave'
  BY <1>0, TensorsFinite DEF DiskTypeOK, Passes, FailsOnlyWithItsSave, Settled, SaveOver,
     MarkLoaded,
     saveVars, prefetchVars, mainVars
<1> QED BY <1>1, <1>2, <1>3, <1>4, <1>5, <1>6 DEF DiskIInv, Inv

LEMMA CleanupTensorStep == ASSUME DiskIInv, CleanupTensor PROVE DiskIInv'
<1>0. /\ DiskTypeOK /\ PermitsAccounted /\ StatusFollows /\ PrefetchedWasSaved
      /\ WholeUntilDeleted /\ Passes /\ FailsOnlyWithItsSave
  BY DEF DiskIInv, Inv
<1>1. DiskTypeOK'
  <2>1. paths' \in Seq(SavedTensor)
    BY <1>0, OnlyKeeps DEF CleanupTensor, DiskTypeOK
  <2> QED BY <1>0, <2>1 DEF DiskTypeOK, CleanupTensor, saveVars, prefetchVars
<1>2. PermitsAccounted'
  BY <1>0 DEF PermitsAccounted, CleanupTensor, saveVars, prefetchVars, mainVars
<1>3. StatusFollows'
  BY <1>0 DEF DiskTypeOK, StatusFollows, PrefetchedWasSaved, Settled, OnDisk, SaveOver,
     Passes, CleanupTensor, saveVars, prefetchVars, mainVars
<1>4. PrefetchedWasSaved'
  <2>1. UNCHANGED <<save, worker, putting, prefetches>> /\ cached' \subseteq cached
    BY DEF CleanupTensor, saveVars, prefetchVars
  <2>2. Listed' \subseteq Listed /\ Keeps
    BY <2>1 DEF Listed, Keeps
  <2> QED BY <1>0, <2>1, <2>2, PrefetchedStays
<1>5. WholeUntilDeleted'
  BY <1>0, TensorsFinite DEF DiskTypeOK, WholeUntilDeleted, OnDisk, Passes, CleanupTensor,
     saveVars, prefetchVars, mainVars
<1>6. Passes' /\ FailsOnlyWithItsSave'
  BY <1>0, TensorsFinite DEF DiskTypeOK, Passes, FailsOnlyWithItsSave, Settled, SaveOver,
     CleanupTensor,
     saveVars, prefetchVars, mainVars
<1> QED BY <1>1, <1>2, <1>3, <1>4, <1>5, <1>6 DEF DiskIInv, Inv

LEMMA SafeDeleteFileStep == ASSUME DiskIInv, SafeDeleteFile PROVE DiskIInv'
<1>0. /\ DiskTypeOK /\ PermitsAccounted /\ StatusFollows /\ PrefetchedWasSaved
      /\ WholeUntilDeleted /\ Passes /\ FailsOnlyWithItsSave
  BY DEF DiskIInv, Inv
<1>1. DiskTypeOK'
  <2>1. cur' \in SavedTensor /\ at' \in {"trigger", "done"}
    BY <1>0, DiskAssumption DEF DiskTypeOK, SafeDeleteFile, SavedTensor
  <2>2. /\ status' \in [SavedTensor -> {"none", "saving", "ready", "prefetching", "loaded",
                                   "deleted", "error", "missing"}]
        /\ file' \in [SavedTensor -> {"none", "partial", "whole"}]
    BY <1>0 DEF DiskTypeOK, SafeDeleteFile
  <2>3. registered' \subseteq SavedTensor
    BY <1>0 DEF DiskTypeOK, SafeDeleteFile
  <2> QED BY <1>0, <2>1, <2>2, <2>3 DEF DiskTypeOK, SafeDeleteFile, saveVars, prefetchVars
<1>2. PermitsAccounted'
  BY <1>0 DEF PermitsAccounted, SafeDeleteFile, saveVars, prefetchVars, mainVars
<1>3. StatusFollows'
  BY <1>0 DEF DiskTypeOK, StatusFollows, PrefetchedWasSaved, Settled, OnDisk, SaveOver,
     Passes, SafeDeleteFile, saveVars, prefetchVars, mainVars
<1>4. PrefetchedWasSaved'
  <2>1. Listed' \subseteq Listed
    BY DEF Listed, SafeDeleteFile, mainVars
  <2>2. Keeps /\ UNCHANGED worker
    BY <1>0 DEF DiskTypeOK, Keeps, OnDisk, SafeDeleteFile, saveVars, prefetchVars, mainVars
  <2> QED BY <1>0, <2>1, <2>2, PrefetchedStays
<1>5. WholeUntilDeleted'
  BY <1>0, TensorsFinite DEF DiskTypeOK, WholeUntilDeleted, OnDisk, Passes, SafeDeleteFile,
     saveVars, prefetchVars, mainVars
<1>6. Passes' /\ FailsOnlyWithItsSave'
  BY <1>0, TensorsFinite DEF DiskTypeOK, Passes, FailsOnlyWithItsSave, Settled, SaveOver,
     SafeDeleteFile,
     saveVars, prefetchVars, mainVars
<1> QED BY <1>1, <1>2, <1>3, <1>4, <1>5, <1>6 DEF DiskIInv, Inv

-----------------------------------------------------------------------------
(* The steps of the save worker and of the pool's threads.                 *)

LEMMA SubmitSaveStep == ASSUME DiskIInv, SubmitSave PROVE DiskIInv'
<1>0. /\ DiskTypeOK /\ PermitsAccounted /\ StatusFollows /\ PrefetchedWasSaved
      /\ WholeUntilDeleted /\ Passes /\ FailsOnlyWithItsSave
  BY DEF DiskIInv, Inv
<1>1. DiskTypeOK'
  BY <1>0, TensorsFinite DEF DiskTypeOK, SubmitSave, saveVars, prefetchVars, mainVars, Writing
<1>2. PermitsAccounted'
  <2>1. PICK t \in SavedTensor : save[t] = "queued" /\ save' = [save EXCEPT ![t] = "pending"]
    BY DEF SubmitSave
  <2>2. "queued" \in Holding /\ "pending" \in Holding /\ permits' = permits
    BY DEF Holding, Writing, SubmitSave
  <2> QED BY <1>0, <2>1, <2>2, HoldingMoves
<1>3. StatusFollows'
  BY <1>0 DEF DiskTypeOK, StatusFollows, PrefetchedWasSaved, Settled, OnDisk, SaveOver,
     Passes, SubmitSave, saveVars, prefetchVars, mainVars
<1>4. PrefetchedWasSaved'
  <2>1. Listed' \subseteq Listed
    BY DEF Listed, SubmitSave, mainVars
  <2>2. Keeps /\ UNCHANGED worker
    BY <1>0 DEF DiskTypeOK, Keeps, OnDisk, SubmitSave, saveVars, prefetchVars, mainVars
  <2> QED BY <1>0, <2>1, <2>2, PrefetchedStays
<1>5. WholeUntilDeleted'
  BY <1>0, TensorsFinite DEF DiskTypeOK, WholeUntilDeleted, OnDisk, Passes, SubmitSave, saveVars,
     prefetchVars, mainVars
<1>6. Passes' /\ FailsOnlyWithItsSave'
  BY <1>0, TensorsFinite DEF DiskTypeOK, Passes, FailsOnlyWithItsSave, Settled, SaveOver,
     SubmitSave,
     saveVars, prefetchVars, mainVars
<1> QED BY <1>1, <1>2, <1>3, <1>4, <1>5, <1>6 DEF DiskIInv, Inv

LEMMA StartSaveStep == ASSUME DiskIInv, StartSave PROVE DiskIInv'
<1>0. /\ DiskTypeOK /\ PermitsAccounted /\ StatusFollows /\ PrefetchedWasSaved
      /\ WholeUntilDeleted /\ Passes /\ FailsOnlyWithItsSave
  BY DEF DiskIInv, Inv
<1>1. DiskTypeOK'
  BY <1>0, TensorsFinite DEF DiskTypeOK, StartSave, saveVars, prefetchVars, mainVars, Writing
<1>2. PermitsAccounted'
  <2>1. PICK t \in SavedTensor : save[t] = "pending" /\ save' = [save EXCEPT ![t] = "writing"]
    BY DEF StartSave
  <2>2. "pending" \in Holding /\ "writing" \in Holding /\ permits' = permits
    BY DEF Holding, Writing, StartSave
  <2> QED BY <1>0, <2>1, <2>2, HoldingMoves
<1>3. StatusFollows'
  BY <1>0 DEF DiskTypeOK, StatusFollows, PrefetchedWasSaved, Settled, OnDisk, SaveOver,
     Passes, StartSave, saveVars, prefetchVars, mainVars
<1>4. PrefetchedWasSaved'
  <2>1. Listed' \subseteq Listed
    BY DEF Listed, StartSave, mainVars
  <2>2. Keeps /\ UNCHANGED worker
    BY <1>0 DEF DiskTypeOK, Keeps, OnDisk, StartSave, saveVars, prefetchVars, mainVars
  <2> QED BY <1>0, <2>1, <2>2, PrefetchedStays
<1>5. WholeUntilDeleted'
  BY <1>0, TensorsFinite DEF DiskTypeOK, WholeUntilDeleted, OnDisk, Passes, StartSave, saveVars,
     prefetchVars, mainVars
<1>6. Passes' /\ FailsOnlyWithItsSave'
  BY <1>0, TensorsFinite DEF DiskTypeOK, Passes, FailsOnlyWithItsSave, Settled, SaveOver,
     StartSave,
     saveVars, prefetchVars, mainVars
<1> QED BY <1>1, <1>2, <1>3, <1>4, <1>5, <1>6 DEF DiskIInv, Inv

LEMMA RegisterFutureStep == ASSUME DiskIInv, RegisterFuture PROVE DiskIInv'
<1>0. /\ DiskTypeOK /\ PermitsAccounted /\ StatusFollows /\ PrefetchedWasSaved
      /\ WholeUntilDeleted /\ Passes /\ FailsOnlyWithItsSave
  BY DEF DiskIInv, Inv
<1>1. DiskTypeOK'
  BY <1>0, TensorsFinite DEF DiskTypeOK, RegisterFuture, saveVars, prefetchVars, mainVars
<1>2. PermitsAccounted'
  BY <1>0 DEF PermitsAccounted, RegisterFuture, saveVars, prefetchVars, mainVars
<1>3. StatusFollows'
  BY <1>0 DEF DiskTypeOK, StatusFollows, PrefetchedWasSaved, Settled, OnDisk, SaveOver,
     Passes, RegisterFuture, saveVars, prefetchVars, mainVars
<1>4. PrefetchedWasSaved'
  <2>1. Listed' \subseteq Listed
    BY DEF Listed, RegisterFuture, mainVars
  <2>2. Keeps /\ UNCHANGED worker
    BY <1>0 DEF DiskTypeOK, Keeps, OnDisk, RegisterFuture, saveVars, prefetchVars, mainVars
  <2> QED BY <1>0, <2>1, <2>2, PrefetchedStays
<1>5. WholeUntilDeleted'
  BY <1>0, TensorsFinite DEF DiskTypeOK, WholeUntilDeleted, OnDisk, Passes, RegisterFuture,
     saveVars, prefetchVars, mainVars
<1>6. Passes' /\ FailsOnlyWithItsSave'
  BY <1>0, TensorsFinite DEF DiskTypeOK, Passes, FailsOnlyWithItsSave, Settled, SaveOver,
     RegisterFuture,
     saveVars, prefetchVars, mainVars
<1> QED BY <1>1, <1>2, <1>3, <1>4, <1>5, <1>6 DEF DiskIInv, Inv

LEMMA EndWriteStep == ASSUME NEW t \in SavedTensor, DiskIInv, EndWrite(t) PROVE DiskIInv'
<1>0. /\ DiskTypeOK /\ PermitsAccounted /\ StatusFollows /\ PrefetchedWasSaved
      /\ WholeUntilDeleted /\ Passes /\ FailsOnlyWithItsSave
  BY DEF DiskIInv, Inv
<1>a. PICK to \in {"written", "unwritten", "raised"} : save' = [save EXCEPT ![t] = to]
  BY DEF EndWrite
<1>b. /\ save[t] = "writing"
      /\ \A x \in SavedTensor : save'[x] = IF x = t THEN to ELSE save[x]
      /\ to \in {"written", "unwritten", "raised"}
  BY <1>0, <1>a DEF EndWrite, DiskTypeOK
<1>1. DiskTypeOK'
  <2>1. save' \in [SavedTensor -> {"none", "queued", "pending"} \cup Writing \cup SaveOver]
    BY <1>0, <1>a DEF DiskTypeOK, Writing, SaveOver
  <2>2. file' \in [SavedTensor -> {"none", "partial", "whole"}]
    BY <1>0 DEF DiskTypeOK, EndWrite
  <2>3. faults' \in 0..MaxFaults
    BY <1>0, DiskAssumption DEF DiskTypeOK, EndWrite
  <2> QED BY <1>0, <2>1, <2>2, <2>3 DEF DiskTypeOK, EndWrite, prefetchVars, mainVars
<1>2. PermitsAccounted'
  <2>1. "writing" \in Holding /\ to \in Holding /\ permits' = permits
    BY <1>b DEF Holding, Writing, EndWrite
  <2> QED BY <1>0, <1>a, <1>b, <2>1, HoldingMoves
<1>3. StatusFollows'
  <2>1. "writing" \notin Settled /\ "writing" \notin OnDisk
    BY DEF Settled, OnDisk, SaveOver
  <2> QED BY <1>0, <1>b, <2>1 DEF StatusFollows, EndWrite
<1>4. PrefetchedWasSaved'
  <2>1. Listed' \subseteq Listed /\ UNCHANGED worker
    BY DEF Listed, EndWrite, mainVars, prefetchVars
  <2>2. Keeps
    <3>1. "writing" \notin OnDisk
      BY DEF OnDisk
    <3> QED BY <1>b, <3>1 DEF Keeps
  <2> QED BY <1>0, <2>1, <2>2, PrefetchedStays
<1>5. WholeUntilDeleted'
  BY <1>0, TensorsFinite DEF DiskTypeOK, WholeUntilDeleted, OnDisk, Passes, EndWrite, saveVars,
     prefetchVars, mainVars
<1>6. Passes' /\ FailsOnlyWithItsSave'
  BY <1>0, TensorsFinite DEF DiskTypeOK, Passes, FailsOnlyWithItsSave, Settled, SaveOver, EndWrite,
     saveVars, prefetchVars, mainVars
<1> QED BY <1>1, <1>2, <1>3, <1>4, <1>5, <1>6 DEF DiskIInv, Inv

LEMMA MarkSavedStep == ASSUME NEW t \in SavedTensor, DiskIInv, MarkSaved(t) PROVE DiskIInv'
<1>0. /\ DiskTypeOK /\ PermitsAccounted /\ StatusFollows /\ PrefetchedWasSaved
      /\ WholeUntilDeleted /\ Passes /\ FailsOnlyWithItsSave
  BY DEF DiskIInv, Inv
<1>1. DiskTypeOK'
  BY <1>0, TensorsFinite DEF DiskTypeOK, MarkSaved, saveVars, prefetchVars, mainVars, Writing
<1>2. PermitsAccounted'
  <2>1. PICK to \in {"saved", "failed"} : save' = [save EXCEPT ![t] = to]
    BY DEF MarkSaved
  <2>2. save[t] \in Holding /\ to \in Holding /\ permits' = permits
    BY DEF Holding, Writing, MarkSaved
  <2> QED BY <1>0, <2>1, <2>2, HoldingMoves
<1>3. StatusFollows'
  BY <1>0 DEF DiskTypeOK, StatusFollows, PrefetchedWasSaved, Settled, OnDisk, SaveOver,
     Passes, MarkSaved, saveVars, prefetchVars, mainVars
<1>4. PrefetchedWasSaved'
  <2>1. Listed' \subseteq Listed
    BY DEF Listed, MarkSaved, mainVars
  <2>2. Keeps /\ UNCHANGED worker
    BY <1>0 DEF DiskTypeOK, Keeps, OnDisk, MarkSaved, saveVars, prefetchVars, mainVars
  <2> QED BY <1>0, <2>1, <2>2, PrefetchedStays
<1>5. WholeUntilDeleted'
  BY <1>0, TensorsFinite DEF DiskTypeOK, WholeUntilDeleted, OnDisk, Passes, MarkSaved, saveVars,
     prefetchVars, mainVars
<1>6. Passes' /\ FailsOnlyWithItsSave'
  BY <1>0, TensorsFinite DEF DiskTypeOK, Passes, FailsOnlyWithItsSave, Settled, SaveOver,
     MarkSaved,
     saveVars, prefetchVars, mainVars
<1> QED BY <1>1, <1>2, <1>3, <1>4, <1>5, <1>6 DEF DiskIInv, Inv

LEMMA ReleasePermitStep == ASSUME NEW t \in SavedTensor, DiskIInv, ReleasePermit(t) PROVE DiskIInv'
<1>0. /\ DiskTypeOK /\ PermitsAccounted /\ StatusFollows /\ PrefetchedWasSaved
      /\ WholeUntilDeleted /\ Passes /\ FailsOnlyWithItsSave
  BY DEF DiskIInv, Inv
<1>a. PICK to \in {"ok", "notfound"} : save' = [save EXCEPT ![t] = to]
  BY DEF ReleasePermit
<1>b. PermitsAccounted' /\ permits' \in 0..Permits
  <2>1. save[t] \in Holding /\ to \notin Holding /\ permits' = permits + 1
    BY DEF Holding, Writing, ReleasePermit, PermitBack
  <2>2. permits' >= 0
    BY <1>0, <2>1, TensorsFinite DEF DiskTypeOK
  <2> QED BY <1>0, <1>a, <2>1, <2>2, HoldingMoves
<1>1. DiskTypeOK'
  <2>1. save' \in [SavedTensor -> {"none", "queued", "pending"} \cup Writing \cup SaveOver]
    BY <1>0, <1>a DEF DiskTypeOK, Writing, SaveOver
  <2> QED BY <1>0, <1>b, <2>1 DEF DiskTypeOK, ReleasePermit, prefetchVars, mainVars
<1>2. PermitsAccounted'
  BY <1>b
<1>3. StatusFollows'
  BY <1>0 DEF DiskTypeOK, StatusFollows, PrefetchedWasSaved, Settled, OnDisk, SaveOver,
     Passes, ReleasePermit, saveVars, prefetchVars, mainVars
<1>4. PrefetchedWasSaved'
  <2>1. Listed' \subseteq Listed
    BY DEF Listed, ReleasePermit, mainVars
  <2>2. Keeps /\ UNCHANGED worker
    BY <1>0 DEF DiskTypeOK, Keeps, OnDisk, ReleasePermit, saveVars, prefetchVars, mainVars
  <2> QED BY <1>0, <2>1, <2>2, PrefetchedStays
<1>5. WholeUntilDeleted'
  BY <1>0, TensorsFinite DEF DiskTypeOK, WholeUntilDeleted, OnDisk, Passes, ReleasePermit,
     saveVars, prefetchVars, mainVars
<1>6. Passes' /\ FailsOnlyWithItsSave'
  BY <1>0, TensorsFinite DEF DiskTypeOK, Passes, FailsOnlyWithItsSave, Settled, SaveOver,
     ReleasePermit,
     saveVars, prefetchVars, mainVars
<1> QED BY <1>1, <1>2, <1>3, <1>4, <1>5, <1>6 DEF DiskIInv, Inv

-----------------------------------------------------------------------------
(* The steps of a prefetch worker.                                         *)

Places == {"idle", "check", "exists", "load", "store", "missing", "error", "finish", "dead"}

\* A worker that goes on keeps its path.
LEMMA GotoKeeps ==
    ASSUME DiskTypeOK, PrefetchedWasSaved, UNCHANGED save, NEW w \in Prefetcher, NEW to \in Places,
           Goto(w, to), to # "idle" => worker[w].at # "idle"
    PROVE  /\ worker' \in [Prefetcher -> [at : Places, path : SavedTensor \cup {NoTensor}]]
           /\ \A v \in Prefetcher :
                 /\ (worker'[v].path # NoTensor => save'[worker'[v].path] \in OnDisk)
                 /\ (worker'[v].at # "idle" => worker'[v].path # NoTensor)
<1>1. worker \in [Prefetcher -> [at : Places, path : SavedTensor \cup {NoTensor}]]
  BY DEF DiskTypeOK, Places
<1> DEFINE moved == [worker[w] EXCEPT !.at = to]
<1>2. /\ moved \in [at : Places, path : SavedTensor \cup {NoTensor}]
      /\ moved.at = to /\ moved.path = worker[w].path
  BY <1>1
<1>a. worker' = [worker EXCEPT ![w] = moved]
  BY DEF Goto
<1> HIDE DEF moved
<1>3. worker' \in [Prefetcher -> [at : Places, path : SavedTensor \cup {NoTensor}]]
  BY <1>1, <1>2, <1>a
<1>4. \A v \in Prefetcher : /\ worker'[v].path = worker[v].path
                            /\ worker'[v].at = IF v = w THEN to ELSE worker[v].at
  BY <1>1, <1>2, <1>a
<1> QED BY <1>3, <1>4 DEF PrefetchedWasSaved

\* task_done counts down, or ends the thread.
LEMMA TaskDoneType ==
    ASSUME DiskTypeOK, NEW w, NEW n \in Nat, NEW to \in Places, TaskDone(w, n, to)
    PROVE  unfinished' \in Nat /\ \E e \in {to, "dead"} : Goto(w, e)
<1>1. unfinished' \in Nat
  <2>1. unfinished - n \in Int /\ 0 \in Int
    BY DEF DiskTypeOK
  <2> QED BY <2>1, MaxOfTwo DEF TaskDone
<1> QED BY <1>1 DEF TaskDone

LEMMA PrefetchGetStep == ASSUME NEW w \in Prefetcher, DiskIInv, PrefetchGet(w) PROVE DiskIInv'
<1>0. /\ DiskTypeOK /\ PermitsAccounted /\ StatusFollows /\ PrefetchedWasSaved
      /\ WholeUntilDeleted /\ Passes /\ FailsOnlyWithItsSave
  BY DEF DiskIInv, Inv
<1>a. /\ Head(prefetches) \in SavedTensor /\ prefetches' \in Seq(SavedTensor)
      /\ ToSet(prefetches) = {Head(prefetches)} \cup ToSet(prefetches')
      /\ worker' = [worker EXCEPT ![w] = [at |-> "check", path |-> Head(prefetches)]]
  BY <1>0, TailSet DEF DiskTypeOK, PrefetchGet
<1>1. DiskTypeOK'
  BY <1>0, <1>a DEF DiskTypeOK, PrefetchGet, saveVars, mainVars
<1>2. PermitsAccounted'
  BY <1>0 DEF PermitsAccounted, PrefetchGet, saveVars, prefetchVars, mainVars
<1>3. StatusFollows'
  BY <1>0 DEF DiskTypeOK, StatusFollows, PrefetchedWasSaved, Settled, OnDisk, SaveOver,
     Passes, PrefetchGet, saveVars, prefetchVars, mainVars, Goto
<1>4. PrefetchedWasSaved'
  <2>1. UNCHANGED <<save, cached, putting>>
    BY DEF PrefetchGet, saveVars, mainVars
  <2>2. Listed' \subseteq Listed /\ Head(prefetches) \in Listed
    BY <1>a, <2>1 DEF Listed
  <2>3. \A v \in Prefetcher : worker'[v] = IF v = w THEN [at |-> "check", path |-> Head(prefetches)]
                                           ELSE worker[v]
    BY <1>0, <1>a DEF DiskTypeOK
  <2>4. save[Head(prefetches)] \in OnDisk /\ Head(prefetches) # NoTensor
    BY <1>0, <1>a, <2>2, TensorsFinite DEF PrefetchedWasSaved
  <2> QED BY <1>0, <2>1, <2>2, <2>3, <2>4 DEF PrefetchedWasSaved
<1>5. WholeUntilDeleted'
  BY <1>0, TensorsFinite DEF DiskTypeOK, WholeUntilDeleted, OnDisk, Passes, PrefetchGet,
     saveVars, prefetchVars, mainVars
<1>6. Passes' /\ FailsOnlyWithItsSave'
  BY <1>0, TensorsFinite DEF DiskTypeOK, Passes, FailsOnlyWithItsSave, Settled, SaveOver,
     PrefetchGet,
     saveVars, prefetchVars, mainVars
<1> QED BY <1>1, <1>2, <1>3, <1>4, <1>5, <1>6 DEF DiskIInv, Inv

LEMMA PrefetchCheckStep == ASSUME NEW w \in Prefetcher, DiskIInv, PrefetchCheck(w) PROVE DiskIInv'
<1>0. /\ DiskTypeOK /\ PermitsAccounted /\ StatusFollows /\ PrefetchedWasSaved
      /\ WholeUntilDeleted /\ Passes /\ FailsOnlyWithItsSave
  BY DEF DiskIInv, Inv
<1>p. worker[w].path \in SavedTensor /\ save[worker[w].path] \in OnDisk
  BY <1>0 DEF DiskTypeOK, PrefetchedWasSaved, PrefetchCheck
<1>a. /\ worker' \in [Prefetcher -> [at : Places, path : SavedTensor \cup {NoTensor}]]
      /\ \A v \in Prefetcher :
            /\ (worker'[v].path # NoTensor => save'[worker'[v].path] \in OnDisk)
            /\ (worker'[v].at # "idle" => worker'[v].path # NoTensor)
      /\ unfinished' \in Nat
  <2>1. PICK n \in Nat, to \in {"idle", "exists"} : TaskDone(w, n, to)
    BY DEF PrefetchCheck
  <2>2. {to, "dead"} \subseteq Places /\ worker[w].at # "idle" /\ UNCHANGED save
    BY DEF Places, PrefetchCheck, saveVars
  <2>3. PICK e \in {to, "dead"} : Goto(w, e)
    BY <1>0, <2>1, <2>2, TaskDoneType
  <2>4. unfinished' \in Nat
    BY <1>0, <2>1, <2>2, TaskDoneType
  <2>5. e \in Places
    BY <2>2, <2>3
  <2> QED BY <1>0, <2>2, <2>3, <2>4, <2>5, GotoKeeps
<1>1. DiskTypeOK'
  <2>1. status' \in [SavedTensor -> {"none", "saving", "ready", "prefetching", "loaded",
                                "deleted", "error", "missing"}]
    BY <1>0, <1>p DEF DiskTypeOK, PrefetchCheck
  <2> QED BY <1>0, <1>a, <2>1 DEF DiskTypeOK, Places, PrefetchCheck, saveVars, mainVars
<1>2. PermitsAccounted'
  BY <1>0 DEF PermitsAccounted, PrefetchCheck, saveVars, prefetchVars, mainVars
<1>3. StatusFollows'
  <2>1. /\ UNCHANGED save
        /\ \A t \in SavedTensor : status'[t] = status[t]
                             \/ (t = worker[w].path /\ status'[t] = "prefetching")
    <3>1. UNCHANGED save /\ (status' = status
                             \/ status' = [status EXCEPT ![worker[w].path] = "prefetching"])
      BY DEF PrefetchCheck, saveVars
    <3>2. DOMAIN status = SavedTensor /\ status = [t \in SavedTensor |-> status[t]]
      BY <1>0 DEF DiskTypeOK
    <3> QED BY <1>p, <3>1, <3>2
  <2>2. OnDisk \subseteq Settled
    BY DEF OnDisk, Settled, SaveOver
  <2> QED BY <1>0, <1>p, <2>1, <2>2 DEF StatusFollows
<1>4. PrefetchedWasSaved'
  <2>1. Listed' = Listed /\ UNCHANGED save
    BY DEF Listed, PrefetchCheck, mainVars, saveVars
  <2> QED BY <1>0, <1>a, <2>1 DEF PrefetchedWasSaved
<1>5. WholeUntilDeleted'
  BY <1>0, TensorsFinite DEF DiskTypeOK, WholeUntilDeleted, OnDisk, Passes, PrefetchCheck,
     saveVars, prefetchVars, mainVars
<1>6. Passes' /\ FailsOnlyWithItsSave'
  BY <1>0, TensorsFinite DEF DiskTypeOK, Passes, FailsOnlyWithItsSave, Settled, SaveOver,
     PrefetchCheck,
     saveVars, prefetchVars, mainVars
<1> QED BY <1>1, <1>2, <1>3, <1>4, <1>5, <1>6 DEF DiskIInv, Inv

LEMMA PrefetchExistsStep == ASSUME NEW w \in Prefetcher, DiskIInv, PrefetchExists(w) PROVE DiskIInv'
<1>0. /\ DiskTypeOK /\ PermitsAccounted /\ StatusFollows /\ PrefetchedWasSaved
      /\ WholeUntilDeleted /\ Passes /\ FailsOnlyWithItsSave
  BY DEF DiskIInv, Inv
<1>a. /\ worker' \in [Prefetcher -> [at : Places, path : SavedTensor \cup {NoTensor}]]
      /\ \A v \in Prefetcher :
            /\ (worker'[v].path # NoTensor => save'[worker'[v].path] \in OnDisk)
            /\ (worker'[v].at # "idle" => worker'[v].path # NoTensor)
  <2>1. PICK to \in {"missing", "load"} : Goto(w, to)
    BY DEF PrefetchExists
  <2>2. to \in Places /\ worker[w].at # "idle" /\ UNCHANGED save
    BY DEF Places, PrefetchExists, saveVars
  <2> QED BY <1>0, <2>1, <2>2, GotoKeeps
<1>1. DiskTypeOK'
  BY <1>0, <1>a DEF DiskTypeOK, Places, PrefetchExists, saveVars, prefetchVars, mainVars
<1>2. PermitsAccounted'
  BY <1>0 DEF PermitsAccounted, PrefetchExists, saveVars, prefetchVars, mainVars
<1>3. StatusFollows'
  BY <1>0 DEF DiskTypeOK, StatusFollows, PrefetchedWasSaved, Settled, OnDisk, SaveOver,
     Passes, PrefetchExists, saveVars, prefetchVars, mainVars, Goto
<1>4. PrefetchedWasSaved'
  <2>1. Listed' = Listed /\ UNCHANGED save
    BY DEF Listed, PrefetchExists, mainVars, saveVars
  <2> QED BY <1>0, <1>a, <2>1 DEF PrefetchedWasSaved
<1>5. WholeUntilDeleted'
  BY <1>0, TensorsFinite DEF DiskTypeOK, WholeUntilDeleted, OnDisk, Passes, PrefetchExists,
     saveVars, prefetchVars, mainVars
<1>6. Passes' /\ FailsOnlyWithItsSave'
  BY <1>0, TensorsFinite DEF DiskTypeOK, Passes, FailsOnlyWithItsSave, Settled, SaveOver,
     PrefetchExists,
     saveVars, prefetchVars, mainVars
<1> QED BY <1>1, <1>2, <1>3, <1>4, <1>5, <1>6 DEF DiskIInv, Inv

LEMMA PrefetchLoadStep == ASSUME NEW w \in Prefetcher, DiskIInv, PrefetchLoad(w) PROVE DiskIInv'
<1>0. /\ DiskTypeOK /\ PermitsAccounted /\ StatusFollows /\ PrefetchedWasSaved
      /\ WholeUntilDeleted /\ Passes /\ FailsOnlyWithItsSave
  BY DEF DiskIInv, Inv
<1>a. /\ worker' \in [Prefetcher -> [at : Places, path : SavedTensor \cup {NoTensor}]]
      /\ \A v \in Prefetcher :
            /\ (worker'[v].path # NoTensor => save'[worker'[v].path] \in OnDisk)
            /\ (worker'[v].at # "idle" => worker'[v].path # NoTensor)
  <2>1. PICK to \in {"error", "store", "dead"} : Goto(w, to)
    BY DEF PrefetchLoad
  <2>2. to \in Places /\ worker[w].at # "idle" /\ UNCHANGED save
    BY DEF Places, PrefetchLoad, saveVars
  <2> QED BY <1>0, <2>1, <2>2, GotoKeeps
<1>1. DiskTypeOK'
  <2>1. faults' \in 0..MaxFaults
    BY <1>0, DiskAssumption DEF DiskTypeOK, PrefetchLoad
  <2> QED BY <1>0, <1>a, <2>1 DEF DiskTypeOK, Places, PrefetchLoad, saveVars, mainVars
<1>2. PermitsAccounted'
  BY <1>0 DEF PermitsAccounted, PrefetchLoad, saveVars, prefetchVars, mainVars
<1>3. StatusFollows'
  BY <1>0 DEF DiskTypeOK, StatusFollows, PrefetchedWasSaved, Settled, OnDisk, SaveOver,
     Passes, PrefetchLoad, saveVars, prefetchVars, mainVars, Goto
<1>4. PrefetchedWasSaved'
  <2>1. Listed' = Listed /\ UNCHANGED save
    BY DEF Listed, PrefetchLoad, mainVars, saveVars
  <2> QED BY <1>0, <1>a, <2>1 DEF PrefetchedWasSaved
<1>5. WholeUntilDeleted'
  BY <1>0, TensorsFinite DEF DiskTypeOK, WholeUntilDeleted, OnDisk, Passes, PrefetchLoad,
     saveVars, prefetchVars, mainVars
<1>6. Passes' /\ FailsOnlyWithItsSave'
  BY <1>0, TensorsFinite DEF DiskTypeOK, Passes, FailsOnlyWithItsSave, Settled, SaveOver,
     PrefetchLoad,
     saveVars, prefetchVars, mainVars
<1> QED BY <1>1, <1>2, <1>3, <1>4, <1>5, <1>6 DEF DiskIInv, Inv

LEMMA PrefetchStoreStep == ASSUME NEW w \in Prefetcher, DiskIInv, PrefetchStore(w) PROVE DiskIInv'
<1>0. /\ DiskTypeOK /\ PermitsAccounted /\ StatusFollows /\ PrefetchedWasSaved
      /\ WholeUntilDeleted /\ Passes /\ FailsOnlyWithItsSave
  BY DEF DiskIInv, Inv
<1>p. worker[w].path \in SavedTensor /\ save[worker[w].path] \in OnDisk
  BY <1>0 DEF DiskTypeOK, PrefetchedWasSaved, PrefetchStore
<1>a. /\ worker' \in [Prefetcher -> [at : Places, path : SavedTensor \cup {NoTensor}]]
      /\ \A v \in Prefetcher :
            /\ (worker'[v].path # NoTensor => save'[worker'[v].path] \in OnDisk)
            /\ (worker'[v].at # "idle" => worker'[v].path # NoTensor)
  <2>1. PICK to \in {"finish"} : Goto(w, to)
    BY DEF PrefetchStore
  <2>2. to \in Places /\ worker[w].at # "idle" /\ UNCHANGED save
    BY DEF Places, PrefetchStore, saveVars
  <2> QED BY <1>0, <2>1, <2>2, GotoKeeps
<1>1. DiskTypeOK'
  <2>1. /\ status' \in [SavedTensor -> {"none", "saving", "ready", "prefetching", "loaded",
                                   "deleted", "error", "missing"}]
        /\ cached' \subseteq SavedTensor
    BY <1>0, <1>p DEF DiskTypeOK, PrefetchStore
  <2> QED BY <1>0, <1>a, <2>1 DEF DiskTypeOK, Places, PrefetchStore, saveVars, mainVars
<1>2. PermitsAccounted'
  BY <1>0 DEF PermitsAccounted, PrefetchStore, saveVars, prefetchVars, mainVars
<1>3. StatusFollows'
  BY <1>0 DEF DiskTypeOK, StatusFollows, PrefetchedWasSaved, Settled, OnDisk, SaveOver,
     Passes, PrefetchStore, saveVars, prefetchVars, mainVars, Goto
<1>4. PrefetchedWasSaved'
  <2>1. Listed' = Listed \cup {worker[w].path} /\ UNCHANGED save
    BY DEF Listed, PrefetchStore, mainVars, saveVars
  <2> QED BY <1>0, <1>p, <1>a, <2>1 DEF PrefetchedWasSaved
<1>5. WholeUntilDeleted'
  BY <1>0, TensorsFinite DEF DiskTypeOK, WholeUntilDeleted, OnDisk, Passes, PrefetchStore,
     saveVars, prefetchVars, mainVars
<1>6. Passes' /\ FailsOnlyWithItsSave'
  BY <1>0, TensorsFinite DEF DiskTypeOK, Passes, FailsOnlyWithItsSave, Settled, SaveOver,
     PrefetchStore,
     saveVars, prefetchVars, mainVars
<1> QED BY <1>1, <1>2, <1>3, <1>4, <1>5, <1>6 DEF DiskIInv, Inv

LEMMA PrefetchMissStep == ASSUME NEW w \in Prefetcher, DiskIInv, PrefetchMiss(w) PROVE DiskIInv'
<1>0. /\ DiskTypeOK /\ PermitsAccounted /\ StatusFollows /\ PrefetchedWasSaved
      /\ WholeUntilDeleted /\ Passes /\ FailsOnlyWithItsSave
  BY DEF DiskIInv, Inv
<1>a. /\ worker' \in [Prefetcher -> [at : Places, path : SavedTensor \cup {NoTensor}]]
      /\ \A v \in Prefetcher :
            /\ (worker'[v].path # NoTensor => save'[worker'[v].path] \in OnDisk)
            /\ (worker'[v].at # "idle" => worker'[v].path # NoTensor)
  <2>1. PICK to \in {"finish"} : Goto(w, to)
    BY DEF PrefetchMiss
  <2>2. to \in Places /\ worker[w].at # "idle" /\ UNCHANGED save
    BY DEF Places, PrefetchMiss, saveVars
  <2> QED BY <1>0, <2>1, <2>2, GotoKeeps
<1>1. DiskTypeOK'
  BY <1>0, <1>a DEF DiskTypeOK, Places, PrefetchMiss, saveVars, prefetchVars, mainVars
<1>2. PermitsAccounted'
  BY <1>0 DEF PermitsAccounted, PrefetchMiss, saveVars, prefetchVars, mainVars
<1>3. StatusFollows'
  BY <1>0 DEF DiskTypeOK, StatusFollows, PrefetchedWasSaved, Settled, OnDisk, SaveOver,
     Passes, PrefetchMiss, saveVars, prefetchVars, mainVars, Goto
<1>4. PrefetchedWasSaved'
  <2>1. Listed' = Listed /\ UNCHANGED save
    BY DEF Listed, PrefetchMiss, mainVars, saveVars
  <2> QED BY <1>0, <1>a, <2>1 DEF PrefetchedWasSaved
<1>5. WholeUntilDeleted'
  BY <1>0, TensorsFinite DEF DiskTypeOK, WholeUntilDeleted, OnDisk, Passes, PrefetchMiss,
     saveVars, prefetchVars, mainVars
<1>6. Passes' /\ FailsOnlyWithItsSave'
  BY <1>0, TensorsFinite DEF DiskTypeOK, Passes, FailsOnlyWithItsSave, Settled, SaveOver,
     PrefetchMiss,
     saveVars, prefetchVars, mainVars
<1> QED BY <1>1, <1>2, <1>3, <1>4, <1>5, <1>6 DEF DiskIInv, Inv

LEMMA PrefetchFinishStep == ASSUME NEW w \in Prefetcher, DiskIInv, PrefetchFinish(w) PROVE DiskIInv'
<1>0. /\ DiskTypeOK /\ PermitsAccounted /\ StatusFollows /\ PrefetchedWasSaved
      /\ WholeUntilDeleted /\ Passes /\ FailsOnlyWithItsSave
  BY DEF DiskIInv, Inv
<1>a. /\ worker' \in [Prefetcher -> [at : Places, path : SavedTensor \cup {NoTensor}]]
      /\ \A v \in Prefetcher :
            /\ (worker'[v].path # NoTensor => save'[worker'[v].path] \in OnDisk)
            /\ (worker'[v].at # "idle" => worker'[v].path # NoTensor)
      /\ unfinished' \in Nat
  <2>1. PICK n \in Nat, to \in {"idle"} : TaskDone(w, n, to)
    BY DEF PrefetchFinish
  <2>2. {to, "dead"} \subseteq Places /\ worker[w].at # "idle" /\ UNCHANGED save
    BY DEF Places, PrefetchFinish, saveVars
  <2>3. PICK e \in {to, "dead"} : Goto(w, e)
    BY <1>0, <2>1, <2>2, TaskDoneType
  <2>4. unfinished' \in Nat
    BY <1>0, <2>1, <2>2, TaskDoneType
  <2>5. e \in Places
    BY <2>2, <2>3
  <2> QED BY <1>0, <2>2, <2>3, <2>4, <2>5, GotoKeeps
<1>1. DiskTypeOK'
  BY <1>0, <1>a DEF DiskTypeOK, Places, PrefetchFinish, saveVars, prefetchVars, mainVars
<1>2. PermitsAccounted'
  BY <1>0 DEF PermitsAccounted, PrefetchFinish, saveVars, prefetchVars, mainVars
<1>3. StatusFollows'
  BY <1>0 DEF DiskTypeOK, StatusFollows, PrefetchedWasSaved, Settled, OnDisk, SaveOver,
     Passes, PrefetchFinish, saveVars, prefetchVars, mainVars, Goto
<1>4. PrefetchedWasSaved'
  <2>1. Listed' = Listed /\ UNCHANGED save
    BY DEF Listed, PrefetchFinish, mainVars, saveVars
  <2> QED BY <1>0, <1>a, <2>1 DEF PrefetchedWasSaved
<1>5. WholeUntilDeleted'
  BY <1>0, TensorsFinite DEF DiskTypeOK, WholeUntilDeleted, OnDisk, Passes, PrefetchFinish,
     saveVars, prefetchVars, mainVars
<1>6. Passes' /\ FailsOnlyWithItsSave'
  BY <1>0, TensorsFinite DEF DiskTypeOK, Passes, FailsOnlyWithItsSave, Settled, SaveOver,
     PrefetchFinish,
     saveVars, prefetchVars, mainVars
<1> QED BY <1>1, <1>2, <1>3, <1>4, <1>5, <1>6 DEF DiskIInv, Inv

-----------------------------------------------------------------------------
(* The theorems.                                                           *)

LEMMA InitInv == DiskInit => DiskIInv
<1> SUFFICES ASSUME DiskInit PROVE DiskIInv
  OBVIOUS
<1>1. DiskTypeOK
  <2>1. 1 \in SavedTensor /\ <<>> \in Seq(SavedTensor)
    BY DiskAssumption, EmptySeq DEF SavedTensor
  <2>2. worker \in [Prefetcher ->
          [at : {"idle", "check", "exists", "load", "store", "missing", "error", "finish",
                 "dead"}, path : SavedTensor \cup {NoTensor}]]
    BY DEF DiskInit
  <2>3. permits \in 0..Permits /\ faults \in 0..MaxFaults
    BY TensorsFinite, DiskAssumption DEF DiskInit
  <2> QED BY <2>1, <2>2, <2>3 DEF DiskInit, DiskTypeOK
<1>2. PermitsAccounted
  <2>1. \A t \in SavedTensor : save[t] \notin Holding
    BY DEF DiskInit, Holding, Writing
  <2>2. SizeIn(SavedTensor, save, Holding) = 0
    BY <2>1, TensorsFinite, SizeInBounds
  <2> QED BY <2>2, TensorsFinite DEF DiskInit, PermitsAccounted, SizeIn, Holding
<1>3. StatusFollows /\ WholeUntilDeleted
  BY DEF DiskInit, StatusFollows, WholeUntilDeleted, OnDisk
<1>4. PrefetchedWasSaved
  BY NothingListed DEF DiskInit, PrefetchedWasSaved, Listed
<1>5. Passes /\ FailsOnlyWithItsSave
  BY DEF DiskInit, Passes, FailsOnlyWithItsSave
<1> QED BY <1>1, <1>2, <1>3, <1>4, <1>5 DEF DiskIInv, Inv

LEMMA StepInv == DiskIInv /\ [DiskNext]_diskVars => DiskIInv'
<1> SUFFICES ASSUME DiskIInv, [DiskNext]_diskVars PROVE DiskIInv'
  OBVIOUS
<1>1. CASE Autograd
  BY <1>1, SaveTensorStep, AcquirePermitStep, TriggerPrefetchStep, PutPrefetchStep,
     WaitForSaveStep, TakeCachedStep, LoadFromDiskStep, MarkLoadedStep, CleanupTensorStep,
     SafeDeleteFileStep DEF Autograd
<1>2. CASE SubmitSave \/ RegisterFuture \/ StartSave
  BY <1>2, SubmitSaveStep, RegisterFutureStep, StartSaveStep
<1>3. ASSUME NEW t \in SavedTensor, Save(t) PROVE DiskIInv'
  BY <1>3, EndWriteStep, MarkSavedStep, ReleasePermitStep DEF Save
<1>4. ASSUME NEW w \in Prefetcher, Prefetch(w) PROVE DiskIInv'
  BY <1>4, PrefetchGetStep, PrefetchCheckStep, PrefetchExistsStep, PrefetchLoadStep,
     PrefetchStoreStep, PrefetchMissStep, PrefetchFinishStep DEF Prefetch
<1>5. CASE UNCHANGED diskVars
  <2>1. /\ DiskTypeOK' <=> DiskTypeOK
        /\ PermitsAccounted' <=> PermitsAccounted
        /\ StatusFollows' <=> StatusFollows
    BY <1>5 DEF diskVars, saveVars, prefetchVars, mainVars, DiskTypeOK, PermitsAccounted, StatusFollows
  <2>2. /\ PrefetchedWasSaved' <=> PrefetchedWasSaved
        /\ WholeUntilDeleted' <=> WholeUntilDeleted
        /\ Passes' <=> Passes
        /\ FailsOnlyWithItsSave' <=> FailsOnlyWithItsSave
    BY <1>5 DEF diskVars, saveVars, prefetchVars, mainVars, PrefetchedWasSaved, Listed,
       WholeUntilDeleted, Passes, FailsOnlyWithItsSave
  <2> QED BY <2>1, <2>2 DEF DiskIInv, Inv
<1> QED BY <1>1, <1>2, <1>3, <1>4, <1>5 DEF DiskNext, Finished

THEOREM DiskInvariant == DiskSpec => []DiskIInv
BY InitInv, StepInv, PTL DEF DiskSpec

\* A permit is out exactly for a save that is queued or under way, and for one
\* that raised, for any number of tensors, threads and faults.
THEOREM DiskInvHolds == DiskSpec => []Inv
<1>1. DiskIInv => Inv
  BY DEF DiskIInv
<1> QED BY <1>1, DiskInvariant, PTL

\* The backward pass raises for a tensor only if its save failed, however the
\* prefetches, the saves and the clean-ups are interleaved.
THEOREM FailsOnlyWithItsSaveHolds == DiskSpec => []FailsOnlyWithItsSave
<1>1. DiskIInv => FailsOnlyWithItsSave
  BY DEF DiskIInv
<1> QED BY <1>1, DiskInvariant, PTL
=============================================================================
