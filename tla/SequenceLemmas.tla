--------------------------- MODULE SequenceLemmas ---------------------------
(***************************************************************************)
(* Facts about sequences, enumerations of finite sets, natural numbers and *)
(* multiples that the proofs of several components need, or that belong to *)
(* none.  Induction is stated for sets of numbers: a set that has 0 and,   *)
(* with a number, the next one is Nat.                                     *)
(***************************************************************************)
EXTENDS Integers, Sequences, FiniteSets, SequencesExt, FiniteSetsExt, Selections,
        FiniteSetTheorems, SequenceTheorems, WellFoundedInduction, TLAPS

NoRepeat(q) == \A i, j \in 1..Len(q) : q[i] = q[j] => i = j

-----------------------------------------------------------------------------
(* Sequences.                                                              *)

\* The set of a sequence: its elements, at the positions they have.
LEMMA ToSetDef ==
    ASSUME NEW S, NEW q \in Seq(S)
    PROVE  /\ ToSet(q) \subseteq S
           /\ \A x : x \in ToSet(q) <=> \E i \in 1..Len(q) : q[i] = x
<1> DEFINE D == 1..Len(q)
<1>1. DOMAIN q = D
  BY LenProperties
<1>2. \A i \in D : q[i] \in S
  BY ElementOfSeq
<1>3. ToSet(q) = {q[i] : i \in D}
  BY <1>1 DEF ToSet
<1> HIDE DEF D
<1>4. ASSUME NEW x PROVE x \in ToSet(q) <=> \E i \in D : q[i] = x
  BY <1>3
<1>5. ToSet(q) \subseteq S
  BY <1>2, <1>4
<1> QED BY <1>4, <1>5 DEF D

LEMMA AppendSet ==
    ASSUME NEW S, NEW q \in Seq(S), NEW e \in S
    PROVE  ToSet(Append(q, e)) = ToSet(q) \cup {e}
<1> DEFINE r == Append(q, e)
<1>1. /\ r \in Seq(S) /\ Len(r) = Len(q) + 1 /\ Len(q) \in Nat
      /\ \A i \in 1..Len(q) : r[i] = q[i]
      /\ r[Len(q) + 1] = e
  BY AppendProperties, LenProperties
<1> HIDE DEF r
<1>2. \A x : x \in ToSet(r) <=> \E i \in 1..Len(r) : r[i] = x
  BY <1>1, ToSetDef
<1>3. \A x : x \in ToSet(q) <=> \E i \in 1..Len(q) : q[i] = x
  BY ToSetDef
<1>4. \A i \in 1..Len(r) : i \in 1..Len(q) \/ i = Len(q) + 1
  BY <1>1
<1>5. Len(q) + 1 \in 1..Len(r) /\ \A i \in 1..Len(q) : i \in 1..Len(r)
  BY <1>1
<1>6. ToSet(r) = ToSet(q) \cup {e}
  BY <1>1, <1>2, <1>3, <1>4, <1>5
<1> QED BY <1>6 DEF r

LEMMA ConcatSet ==
    ASSUME NEW S, NEW s \in Seq(S), NEW t \in Seq(S)
    PROVE  s \o t \in Seq(S) /\ ToSet(s \o t) = ToSet(s) \cup ToSet(t)
<1> DEFINE r == s \o t
<1>1. /\ r \in Seq(S) /\ Len(r) = Len(s) + Len(t) /\ Len(s) \in Nat /\ Len(t) \in Nat
      /\ \A i \in 1..(Len(s) + Len(t)) : r[i] = IF i <= Len(s) THEN s[i] ELSE t[i - Len(s)]
  BY ConcatProperties, LenProperties
<1> HIDE DEF r
<1>2. \A i \in 1..Len(r) : \/ i \in 1..Len(s) /\ r[i] = s[i]
                           \/ i - Len(s) \in 1..Len(t) /\ r[i] = t[i - Len(s)]
  BY <1>1
<1>3. \A i \in 1..Len(s) : i \in 1..Len(r) /\ r[i] = s[i]
  BY <1>1
<1>4. \A i \in 1..Len(t) : i + Len(s) \in 1..Len(r) /\ r[i + Len(s)] = t[i]
  <2> SUFFICES ASSUME NEW i \in 1..Len(t)
               PROVE  i + Len(s) \in 1..Len(r) /\ r[i + Len(s)] = t[i]
    OBVIOUS
  <2>1. i + Len(s) \in 1..Len(r) /\ ~ (i + Len(s) <= Len(s)) /\ (i + Len(s)) - Len(s) = i
    BY <1>1
  <2> QED BY <2>1, <1>1
<1>5. ASSUME NEW x PROVE x \in ToSet(r) <=> x \in ToSet(s) \cup ToSet(t)
  <2>1. /\ x \in ToSet(r) <=> \E i \in 1..Len(r) : r[i] = x
        /\ x \in ToSet(s) <=> \E i \in 1..Len(s) : s[i] = x
        /\ x \in ToSet(t) <=> \E i \in 1..Len(t) : t[i] = x
    BY <1>1, ToSetDef
  <2>2. x \in ToSet(r) => x \in ToSet(s) \cup ToSet(t)
    BY <1>2, <2>1
  <2>3. x \in ToSet(s) => x \in ToSet(r)
    BY <1>3, <2>1
  <2>4. x \in ToSet(t) => x \in ToSet(r)
    BY <1>4, <2>1
  <2> QED BY <2>2, <2>3, <2>4
<1> QED BY <1>1, <1>5 DEF r

LEMMA TailSet ==
    ASSUME NEW S, NEW q \in Seq(S), q # <<>>
    PROVE  /\ Head(q) \in S /\ Tail(q) \in Seq(S)
           /\ ToSet(q) = {Head(q)} \cup ToSet(Tail(q))
<1> DEFINE r == Tail(q)
<1>1. /\ Head(q) \in S /\ r \in Seq(S) /\ Len(r) = Len(q) - 1
      /\ \A i \in 1..Len(r) : r[i] = q[i + 1]
  BY HeadTailProperties
<1>2. Len(q) \in Nat \ {0} /\ Head(q) = q[1]
  BY EmptySeq
<1> HIDE DEF r
<1>3. \A i \in 1..Len(r) : i + 1 \in 1..Len(q) /\ r[i] = q[i + 1]
  BY <1>1, <1>2
<1>4. \A i \in 1..Len(q) : i = 1 \/ (i - 1 \in 1..Len(r) /\ r[i - 1] = q[i])
  <2> SUFFICES ASSUME NEW i \in 1..Len(q), i # 1
               PROVE  i - 1 \in 1..Len(r) /\ r[i - 1] = q[i]
    OBVIOUS
  <2>1. i - 1 \in 1..Len(r) /\ (i - 1) + 1 = i
    BY <1>1, <1>2
  <2> QED BY <1>1, <2>1
<1>5. /\ \A x : x \in ToSet(q) <=> \E i \in 1..Len(q) : q[i] = x
      /\ \A x : x \in ToSet(r) <=> \E i \in 1..Len(r) : r[i] = x
  BY <1>1, ToSetDef
<1>6. 1 \in 1..Len(q)
  BY <1>2
<1>7. ToSet(q) = {Head(q)} \cup ToSet(r)
  BY <1>2, <1>3, <1>4, <1>5, <1>6
<1> QED BY <1>1, <1>7 DEF r

LEMMA NothingListed == ToSet(<<>>) = {} /\ Len(<<>>) = 0
<1>1. Len(<<>>) = 0
  BY EmptySeq
<1>2. ToSet(<<>>) = {<<>>[i] : i \in {}}
  BY DEF ToSet
<1> QED BY <1>1, <1>2

LEMMA HeadOnce ==
    ASSUME NEW S, NEW q \in Seq(S), q # <<>>, NoRepeat(q)
    PROVE  NoRepeat(Tail(q)) /\ Head(q) \notin ToSet(Tail(q))
<1>1. /\ Tail(q) \in Seq(S) /\ Len(q) \in Nat /\ Len(q) >= 1 /\ Head(q) = q[1]
      /\ Len(Tail(q)) = Len(q) - 1
      /\ \A i \in 1..Len(Tail(q)) : Tail(q)[i] = q[i + 1]
  BY HeadTailProperties, EmptySeq, LenProperties
<1>2. \A i \in 1..Len(Tail(q)) : i + 1 \in 1..Len(q) /\ i + 1 # 1 /\ 1 \in 1..Len(q)
  BY <1>1
<1>3. NoRepeat(Tail(q))
  <2> SUFFICES ASSUME NEW i \in 1..Len(Tail(q)), NEW j \in 1..Len(Tail(q)),
                      Tail(q)[i] = Tail(q)[j]
               PROVE  i = j
    BY DEF NoRepeat
  <2>1. q[i + 1] = q[j + 1]
    BY <1>1
  <2>2. i + 1 = j + 1
    BY <1>2, <2>1 DEF NoRepeat
  <2> QED BY <2>2
<1>4. Head(q) \notin ToSet(Tail(q))
  <2> SUFFICES ASSUME Head(q) \in ToSet(Tail(q)) PROVE FALSE
    OBVIOUS
  <2>0. \A x : x \in ToSet(Tail(q)) <=> \E i \in 1..Len(Tail(q)) : Tail(q)[i] = x
    <3>1. Tail(q) \in Seq(S)
      BY <1>1
    <3> QED BY <3>1, ToSetDef
  <2>1. PICK i \in 1..Len(Tail(q)) : Tail(q)[i] = Head(q)
    BY <2>0
  <2>2. q[i + 1] = q[1]
    BY <1>1, <2>1
  <2> QED BY <1>2, <2>2 DEF NoRepeat
<1> QED BY <1>3, <1>4

LEMMA AppendOnce ==
    ASSUME NEW S, NEW q \in Seq(S), NEW e \in S, NoRepeat(q), e \notin ToSet(q)
    PROVE  NoRepeat(Append(q, e))
<1>1. /\ Len(q) \in Nat /\ Len(Append(q, e)) = Len(q) + 1
      /\ \A i \in 1..Len(q) : Append(q, e)[i] = q[i]
      /\ Append(q, e)[Len(q) + 1] = e
  BY AppendProperties, LenProperties
<1>2. \A i \in 1..Len(q) : q[i] # e
  BY ToSetDef
<1>3. \A i \in 1..Len(Append(q, e)) : i \in 1..Len(q) \/ i = Len(q) + 1
  BY <1>1
<1> QED BY <1>1, <1>2, <1>3 DEF NoRepeat

-----------------------------------------------------------------------------
(* Induction.                                                              *)

\* Every set of naturals that is not empty has a least element.
LEMMA LeastNatural ==
    ASSUME NEW T \in SUBSET Nat, T # {}
    PROVE  \E n \in T : \A m \in T : n <= m
<1> DEFINE R == OpToRel(<, Nat)
<1>1. IsWellFoundedOn(R, Nat)
  BY NatLessThanWellFounded
<1>2. \A x, y \in Nat : x < y => <<x, y>> \in R
  BY DEF OpToRel
<1> HIDE DEF R
<1>3. PICK n \in T : \A m \in T : ~ (<<m, n>> \in R)
  BY <1>1, WFMin
<1>4. ASSUME NEW m \in T PROVE n <= m
  <2>1. ~ (m < n)
    BY <1>2, <1>3
  <2> QED BY <2>1
<1> QED BY <1>4

\* So a set that has 0 and with each number its successor has all of them.
LEMMA NaturalInduction ==
    ASSUME NEW T \in SUBSET Nat, 0 \in T, \A n \in T : n + 1 \in T
    PROVE  T = Nat
<1>1. SUFFICES ASSUME Nat \ T # {} PROVE FALSE
  OBVIOUS
<1>2. PICK n \in Nat \ T : \A m \in Nat \ T : n <= m
  BY <1>1, LeastNatural
<1>3. n # 0 /\ n - 1 \in Nat /\ n - 1 \in T
  BY <1>2
<1> QED BY <1>2, <1>3

\* A finite set of naturals that is not empty has a greatest element.
LEMMA MaxIsMax ==
    ASSUME NEW S \in SUBSET Nat, NEW n \in Nat, \A x \in S : x <= n, S # {}
    PROVE  Max(S) \in S /\ \A x \in S : Max(S) >= x
<1> DEFINE T == {m \in Nat : \A x \in S : x <= m}
<1>1. PICK m \in T : \A k \in T : m <= k
  <2>1. n \in T OBVIOUS
  <2> QED BY <2>1, LeastNatural
<1>2. m \in S
  <2> SUFFICES ASSUME m \notin S PROVE FALSE
    OBVIOUS
  <2>1. m \in Nat /\ \A x \in S : x <= m /\ x # m /\ x \in Nat
    BY <1>1
  <2>2. \A x \in S : x <= m - 1
    BY <2>1
  <2>3. m - 1 \in Nat
    <3>1. PICK x \in S : x <= m - 1 /\ x \in Nat
      BY <2>1, <2>2
    <3> QED BY <3>1, <2>1
  <2>4. m - 1 \in T
    BY <2>2, <2>3
  <2>5. m <= m - 1
    BY <2>4, <1>1
  <2> QED BY <2>1, <2>5
<1>3. \E x \in S : \A y \in S : x >= y
  BY <1>1, <1>2
<1> QED BY <1>3 DEF Max

-----------------------------------------------------------------------------
(* Enumerations of finite sets.                                            *)

\* An injective enumeration of S by 1..Cardinality(S) lists every element once.
LEMMA Enumerates ==
    ASSUME NEW S, IsFiniteSet(S), NEW q \in [1..Cardinality(S) -> S],
           \A i, j \in 1..Cardinality(S) : q[i] = q[j] => i = j
    PROVE  q \in Seq(S) /\ ToSet(q) = S /\ NoRepeat(q)
<1>1. Cardinality(S) \in Nat
  BY FS_CardinalityType
<1> DEFINE D == 1..Cardinality(S)
<1>2. IsFiniteSet(D) /\ Cardinality(D) = Cardinality(S)
  BY <1>1, FS_Interval
<1>3. q \in Seq(S) /\ Len(q) = Cardinality(S) /\ DOMAIN q = D
  <2>1. q \in Seq(S)
    BY <1>1, SeqDef
  <2>2. DOMAIN q = 1..Len(q) /\ Len(q) \in Nat
    BY <2>1, LenProperties
  <2>3. 1..Len(q) = 1..Cardinality(S)
    BY <2>2
  <2>4. Len(q) = Cardinality(S)
    BY <2>2, <2>3, <1>1
  <2> QED BY <2>1, <2>4
<1>4. q \in Injection(D, S)
  BY <1>3 DEF Injection, IsInjective
<1>5. q \in Surjection(D, S)
  BY <1>2, <1>4, FS_Injection
<1>6. ToSet(q) = S
  BY <1>3, <1>5 DEF ToSet, Surjection
<1>7. NoRepeat(q)
  BY <1>3 DEF NoRepeat
<1> QED BY <1>3, <1>6, <1>7

\* list(S), for the chunks of the sweep and of the drain.
LEMMA SetToSeqLists ==
    ASSUME NEW S, IsFiniteSet(S)
    PROVE  SetToSeq(S) \in Seq(S) /\ ToSet(SetToSeq(S)) = S /\ NoRepeat(SetToSeq(S))
<1> DEFINE D == 1..Cardinality(S)
<1>1. PICK f \in [D -> S] : IsInjective(f)
  <2>1. \E f : f \in Bijection(D, S)
    BY FS_CardinalityType DEF ExistsBijection
  <2> QED BY <2>1 DEF Bijection, Injection
<1>2. SetToSeq(S) \in [D -> S] /\ IsInjective(SetToSeq(S))
  BY <1>1 DEF SetToSeq
<1> QED BY <1>2, Enumerates DEF IsInjective

\* A finite set of naturals is bounded.
LEMMA FiniteIsBounded ==
    ASSUME NEW S \in SUBSET Nat, IsFiniteSet(S)
    PROVE  \E k \in Nat : \A x \in S : x <= k
<1> DEFINE K == {n \in Nat : \A T \in SUBSET Nat : IsFiniteSet(T) /\ Cardinality(T) = n =>
                    \E k \in Nat : \A x \in T : x <= k}
<1>1. 0 \in K
  <2>1. ASSUME NEW T \in SUBSET Nat, IsFiniteSet(T), Cardinality(T) = 0
        PROVE  \E k \in Nat : \A x \in T : x <= k
    BY <2>1, FS_EmptySet
  <2> QED BY <2>1
<1>2. ASSUME NEW n \in K PROVE n + 1 \in K
  <2> SUFFICES ASSUME NEW T \in SUBSET Nat, IsFiniteSet(T), Cardinality(T) = n + 1
               PROVE  \E k \in Nat : \A x \in T : x <= k
    OBVIOUS
  <2>0. n \in Nat /\ T # {}
    BY FS_EmptySet
  <2>1. PICK m : m \in T
    BY <2>0
  <2>2. IsFiniteSet(T \ {m}) /\ Cardinality(T \ {m}) = n
    <3> HIDE DEF K
    <3>1. IsFiniteSet(T \ {m}) /\ Cardinality(T \ {m}) = Cardinality(T) - 1
      BY <2>1, FS_RemoveElement
    <3> QED BY <2>0, <3>1
  <2>3. PICK k \in Nat : \A x \in T \ {m} : x <= k
    <3>1. T \ {m} \in SUBSET Nat
      OBVIOUS
    <3> QED BY <2>2, <3>1
  <2>4. /\ m \in Nat /\ k + m \in Nat
        /\ \A x \in T : x <= k + m
    BY <2>1, <2>3
  <2> QED BY <2>4
<1> HIDE DEF K
<1>3. K = Nat
  <2>1. K \in SUBSET Nat
    BY DEF K
  <2> QED BY <1>1, <1>2, <2>1, NaturalInduction
<1>4. Cardinality(S) \in K
  BY <1>3, FS_CardinalityType
<1> QED BY <1>4 DEF K

Increases(q, n) == \A i, j \in 1..n : i < j => q[i] < q[j]

\* Every finite set of naturals has an increasing enumeration.
LEMMA SortedExists ==
    ASSUME NEW S \in SUBSET Nat, IsFiniteSet(S)
    PROVE  \E q \in [1..Cardinality(S) -> S] : Increases(q, Cardinality(S))
<1> DEFINE K == {n \in Nat : \A T \in SUBSET Nat : IsFiniteSet(T) /\ Cardinality(T) = n =>
                    \E q \in [1..n -> T] : Increases(q, n)}
<1>1. 0 \in K
  <2> SUFFICES ASSUME NEW T \in SUBSET Nat, IsFiniteSet(T), Cardinality(T) = 0
               PROVE  \E q \in [1..0 -> T] : Increases(q, 0)
    OBVIOUS
  <2> DEFINE q == [i \in 1..0 |-> 0]
  <2>1. q \in [1..0 -> T] /\ Increases(q, 0)
    BY DEF Increases
  <2> QED BY <2>1
<1>2. ASSUME NEW n \in K PROVE n + 1 \in K
  <2> SUFFICES ASSUME NEW T \in SUBSET Nat, IsFiniteSet(T), Cardinality(T) = n + 1
               PROVE  \E q \in [1..(n + 1) -> T] : Increases(q, n + 1)
    OBVIOUS
  <2>1. n \in Nat /\ T # {}
    BY FS_EmptySet
  <2>2. PICK m \in T : \A x \in T : x <= m
    <3>1. \E k \in Nat : \A x \in T : x <= k
      BY FiniteIsBounded
    <3> QED BY <2>1, <3>1, MaxIsMax
  <2>3. IsFiniteSet(T \ {m}) /\ Cardinality(T \ {m}) = n
    BY <2>1, FS_RemoveElement
  <2>4. PICK p \in [1..n -> T \ {m}] : Increases(p, n)
    <3>1. T \ {m} \in SUBSET Nat
      OBVIOUS
    <3> QED BY <2>3, <3>1
  <2> DEFINE q == [i \in 1..(n + 1) |-> IF i <= n THEN p[i] ELSE m]
  <2>5. \A i \in 1..n : p[i] \in T /\ p[i] < m
    <3> SUFFICES ASSUME NEW i \in 1..n PROVE p[i] \in T /\ p[i] < m
      OBVIOUS
    <3>1. p[i] \in T \ {m}
      BY <2>4
    <3>2. p[i] \in Nat /\ m \in Nat
      BY <3>1
    <3> QED BY <3>1, <3>2, <2>2
  <2>6. q \in [1..(n + 1) -> T]
    BY <2>1, <2>5
  <2>7. Increases(q, n + 1)
    <3> SUFFICES ASSUME NEW i \in 1..(n + 1), NEW j \in 1..(n + 1), i < j
                 PROVE  q[i] < q[j]
      BY DEF Increases
    <3>1. i \in 1..n /\ q[i] = p[i]
      BY <2>1
    <3>2. CASE j <= n
      <4>1. j \in 1..n /\ q[j] = p[j]
        BY <2>1, <3>2
      <4> QED BY <2>4, <3>1, <4>1 DEF Increases
    <3>3. CASE j = n + 1
      <4>1. q[j] = m
        BY <2>1, <3>3
      <4> QED BY <2>5, <3>1, <4>1
    <3> QED BY <2>1, <3>2, <3>3
  <2> HIDE DEF q
  <2> QED BY <2>6, <2>7
<1> HIDE DEF K
<1>3. K = Nat
  <2>1. K \in SUBSET Nat
    BY DEF K
  <2> QED BY <1>1, <1>2, <2>1, NaturalInduction
<1> QED BY <1>3, FS_CardinalityType DEF K

\* sorted(S): every element of S once, in increasing order.
LEMMA SortedLists ==
    ASSUME NEW S \in SUBSET Nat, IsFiniteSet(S)
    PROVE  /\ Sorted(S) \in Seq(S) /\ ToSet(Sorted(S)) = S /\ NoRepeat(Sorted(S))
           /\ Increases(Sorted(S), Len(Sorted(S)))
<1> DEFINE D == 1..Cardinality(S)
<1>1. /\ Sorted(S) \in [D -> S]
      /\ \A i, j \in D : i < j => Sorted(S)[i] < Sorted(S)[j]
  BY SortedExists DEF Sorted, Increases
<1>2. \A i, j \in D : Sorted(S)[i] = Sorted(S)[j] => i = j
  <2>1. \A i \in D : Sorted(S)[i] \in Nat
    BY <1>1
  <2>2. Cardinality(S) \in Nat
    BY FS_CardinalityType
  <2> QED BY <1>1, <2>1, <2>2
<1>3. Sorted(S) \in Seq(S) /\ ToSet(Sorted(S)) = S /\ NoRepeat(Sorted(S))
  BY <1>1, <1>2, Enumerates
<1>4. Len(Sorted(S)) = Cardinality(S)
  <2>1. Len(Sorted(S)) \in Nat /\ DOMAIN Sorted(S) = 1..Len(Sorted(S))
    BY <1>3, LenProperties
  <2>2. DOMAIN Sorted(S) = 1..Cardinality(S) /\ Cardinality(S) \in Nat
    BY <1>1, FS_CardinalityType
  <2> QED BY <2>1, <2>2
<1> QED BY <1>1, <1>3, <1>4 DEF Increases

\* What is selected from a sequence.
LEMMA OnlyKeeps ==
    ASSUME NEW S, NEW cs \in Seq(S), NEW T
    PROVE  /\ Only(cs, T) \in Seq(S)
           /\ ToSet(Only(cs, T)) = ToSet(cs) \cap T
<1> DEFINE n == Len(cs)
           Step(g, i) == IF i = 0 THEN <<>>
                         ELSE IF cs[i] \in T THEN Append(g[i - 1], cs[i]) ELSE g[i - 1]
           Solves(g, k) == g = [i \in 0..k |-> Step(g, i)]
<1>0. n \in Nat /\ \A i \in 1..n : cs[i] \in S
  BY LenProperties, ElementOfSeq
<1>1. \A k \in Nat : \E g : Solves(g, k)
  <2> DEFINE K == {k \in Nat : \E g : Solves(g, k)}
  <2>1. 0 \in K
    <3>1. Solves([i \in 0..0 |-> <<>>], 0)
      OBVIOUS
    <3> QED BY <3>1
  <2>2. ASSUME NEW k \in K PROVE k + 1 \in K
    <3>1. PICK g : Solves(g, k)
      OBVIOUS
    <3> DEFINE h == [i \in 0..(k + 1) |-> Step(g, i)]
    <3> HIDE DEF Step
    <3>2. \A i \in 0..k : i \in 0..(k + 1) /\ h[i] = g[i]
      BY <3>1
    <3>3. \A i \in 0..(k + 1) : i # 0 => i - 1 \in 0..k
      OBVIOUS
    <3>4. ASSUME NEW i \in 0..(k + 1) PROVE Step(h, i) = Step(g, i)
      <4> HIDE DEF h
      <4> QED BY <3>2, <3>3 DEF Step
    <3>5. h = [i \in 0..(k + 1) |-> Step(h, i)]
      <4>1. h = [i \in 0..(k + 1) |-> Step(g, i)]
        OBVIOUS
      <4> HIDE DEF h
      <4> QED BY <3>4, <4>1
    <3> HIDE DEF h
    <3>6. Solves(h, k + 1)
      BY <3>5
    <3>7. \E e : Solves(e, k + 1)
      BY <3>6
    <3>8. k + 1 \in Nat
      OBVIOUS
    <3> QED BY <3>7, <3>8
  <2> HIDE DEF K
  <2>3. K = Nat
    <3>1. K \in SUBSET Nat BY DEF K
    <3> QED BY <3>1, <2>1, <2>2, NaturalInduction
  <2> QED BY <2>3 DEF K
<1>2. PICK f : Only(cs, T) = f[n] /\ f = [i \in 0..n |-> Step(f, i)]
  BY <1>0, <1>1 DEF Only
<1> DEFINE Good(i) == i <= n => /\ f[i] \in Seq(S)
                                /\ ToSet(f[i]) = {cs[j] : j \in 1..i} \cap T
<1>3. \A i \in Nat : Good(i)
  <2> DEFINE G == {i \in Nat : Good(i)}
  <2>1. 0 \in G
    <3>1. f[0] = <<>>
      BY <1>2, <1>0
    <3>2. ToSet(<<>>) = {}
      BY DEF ToSet
    <3>3. {cs[j] : j \in 1..0} = {} /\ <<>> \in Seq(S)
      BY EmptySeq
    <3>4. Good(0)
      BY <3>1, <3>2, <3>3
    <3> QED BY <3>4
  <2>2. ASSUME NEW i \in G PROVE i + 1 \in G
    <3> SUFFICES ASSUME i + 1 <= n PROVE Good(i + 1)
      OBVIOUS
    <3>1. f[i + 1] = IF cs[i + 1] \in T THEN Append(f[i], cs[i + 1]) ELSE f[i]
      <4>1. i + 1 \in 0..n /\ i + 1 # 0 /\ (i + 1) - 1 = i
        OBVIOUS
      <4> QED BY <1>2, <4>1
    <3>2. f[i] \in Seq(S) /\ ToSet(f[i]) = {cs[j] : j \in 1..i} \cap T
      BY <1>0
    <3>3. {cs[j] : j \in 1..(i + 1)} = {cs[j] : j \in 1..i} \cup {cs[i + 1]}
      <4>1. \A j \in 1..(i + 1) : j \in 1..i \/ j = i + 1
        OBVIOUS
      <4>2. \A j \in 1..i : j \in 1..(i + 1)
        OBVIOUS
      <4> QED BY <4>1, <4>2
    <3>4. cs[i + 1] \in S
      BY <1>0
    <3>5. ToSet(Append(f[i], cs[i + 1])) = ToSet(f[i]) \cup {cs[i + 1]}
      BY <3>2, <3>4, AppendSet
    <3>6. Append(f[i], cs[i + 1]) \in Seq(S)
      BY <3>2, <3>4, AppendProperties
    <3> QED BY <3>1, <3>2, <3>3, <3>5, <3>6
  <2> HIDE DEF G
  <2>3. G = Nat
    <3>1. G \in SUBSET Nat BY DEF G
    <3> QED BY <3>1, <2>1, <2>2, NaturalInduction
  <2> QED BY <2>3 DEF G
<1>4. ToSet(cs) = {cs[j] : j \in 1..n}
  BY LenProperties DEF ToSet
<1>5. /\ f[n] \in Seq(S)
      /\ ToSet(f[n]) = {cs[j] : j \in 1..n} \cap T
  <2>1. n \in Nat /\ n <= n
    BY <1>0
  <2> HIDE DEF Good
  <2>2. Good(n)
    BY <1>3, <2>1
  <2> QED BY <2>1, <2>2 DEF Good
<1> HIDE DEF n
<1> QED BY <1>2, <1>4, <1>5

-----------------------------------------------------------------------------
(* Counting the members of a finite set that are somewhere.                *)

SizeIn(R, f, P) == Cardinality({x \in R : f[x] \in P})

LEMMA SizeInBounds ==
    ASSUME NEW R, NEW f, NEW P, IsFiniteSet(R)
    PROVE  /\ SizeIn(R, f, P) \in Nat /\ SizeIn(R, f, P) <= Cardinality(R)
           /\ Cardinality(R) \in Nat
           /\ SizeIn(R, f, P) = 0 <=> \A x \in R : f[x] \notin P
<1> DEFINE S == {x \in R : f[x] \in P}
<1>1. S \subseteq R
  OBVIOUS
<1>2. S = {} <=> \A x \in R : f[x] \notin P
  OBVIOUS
<1>3. SizeIn(R, f, P) = Cardinality(S)
  BY DEF SizeIn
<1> HIDE DEF S
<1>4. IsFiniteSet(S) /\ Cardinality(S) <= Cardinality(R)
  BY <1>1, FS_Subset
<1>5. Cardinality(S) \in Nat /\ Cardinality(R) \in Nat
  BY <1>4, FS_CardinalityType
<1>6. Cardinality(S) = 0 <=> S = {}
  BY <1>4, FS_EmptySet
<1> QED BY <1>2, <1>3, <1>4, <1>5, <1>6

\* How the count changes when one of them moves.
LEMMA SizeInMoves ==
    ASSUME NEW R, NEW f, NEW g, NEW P, NEW r \in R, IsFiniteSet(R),
           \A x \in R \ {r} : g[x] = f[x]
    PROVE  /\ (f[r] \in P <=> g[r] \in P) => SizeIn(R, g, P) = SizeIn(R, f, P)
           /\ f[r] \in P /\ g[r] \notin P => SizeIn(R, g, P) = SizeIn(R, f, P) - 1
           /\ f[r] \notin P /\ g[r] \in P => SizeIn(R, g, P) = SizeIn(R, f, P) + 1
<1> DEFINE S == {x \in R : f[x] \in P}
           T == {x \in R : g[x] \in P}
<1>0. S \subseteq R
  OBVIOUS
<1>2. (f[r] \in P <=> g[r] \in P) => T = S
  OBVIOUS
<1>3. f[r] \in P /\ g[r] \notin P => T = S \ {r} /\ r \in S
  OBVIOUS
<1>4. f[r] \notin P /\ g[r] \in P => T = S \cup {r} /\ r \notin S
  OBVIOUS
<1>5. SizeIn(R, f, P) = Cardinality(S) /\ SizeIn(R, g, P) = Cardinality(T)
  BY DEF SizeIn
<1> HIDE DEF S, T
<1>6. IsFiniteSet(S)
  BY <1>0, FS_Subset
<1>7. /\ r \in S => Cardinality(S \ {r}) = Cardinality(S) - 1
      /\ r \notin S => Cardinality(S \cup {r}) = Cardinality(S) + 1
  BY <1>6, FS_RemoveElement, FS_AddElement
<1> QED BY <1>2, <1>3, <1>4, <1>5, <1>7

\* A sequence the other way round.
LEMMA ReverseSet ==
    ASSUME NEW S, NEW q \in Seq(S)
    PROVE  Reverse(q) \in Seq(S) /\ ToSet(Reverse(q)) = ToSet(q)
<1> DEFINE n == Len(q)
           r == Reverse(q)
<1>1. n \in Nat /\ \A i \in 1..n : q[i] \in S
  BY LenProperties, ElementOfSeq
<1>2. r = [i \in 1..n |-> q[(n - i) + 1]]
  BY DEF Reverse
<1>3. \A i \in 1..n : (n - i) + 1 \in 1..n /\ (n - ((n - i) + 1)) + 1 = i
  BY <1>1
<1> HIDE DEF n, r
<1>4. r \in [1..n -> S]
  BY <1>1, <1>2, <1>3
<1>5. r \in Seq(S) /\ Len(r) = n
  BY <1>1, <1>4, SeqDef, LenProperties
<1>6. ASSUME NEW x PROVE x \in ToSet(r) <=> x \in ToSet(q)
  <2>1. x \in ToSet(r) <=> \E i \in 1..n : r[i] = x
    BY <1>5, ToSetDef
  <2>2. x \in ToSet(q) <=> \E i \in 1..n : q[i] = x
    BY ToSetDef DEF n
  <2>3. \A i \in 1..n : r[i] = q[(n - i) + 1] /\ r[(n - i) + 1] = q[i]
    BY <1>2, <1>3
  <2> QED BY <1>3, <2>1, <2>2, <2>3
<1> QED BY <1>5, <1>6 DEF r

-----------------------------------------------------------------------------
(* Multiples of a number.                                                 *)

LEMMA Divide ==
    ASSUME NEW x \in Int, NEW n \in Nat \ {0}
    PROVE  /\ x \div n \in Int /\ x % n \in 0..(n - 1)
           /\ x = n * (x \div n) + (x % n)
OBVIOUS

LEMMA Exact ==
    ASSUME NEW q \in Int, NEW n \in Nat \ {0}
    PROVE  (n * q) % n = 0
OBVIOUS

LEMMA MultiplePlus ==
    ASSUME NEW m \in Int, NEW n \in Nat \ {0}, m % n = 0, NEW r \in 0..(n - 1)
    PROVE  (m + r) % n = r
OBVIOUS

LEMMA Distributes ==
    ASSUME NEW a \in Int, NEW b \in Int, NEW n \in Int
    PROVE  /\ n * a \in Int /\ n * b \in Int /\ n * (a + b) = n * a + n * b
           /\ n * (a - b) = n * a - n * b /\ n * a = a * n
OBVIOUS

LEMMA ProductOrder ==
    ASSUME NEW a \in Int, NEW b \in Int, NEW n \in Nat \ {0}
    PROVE  n * a < n * b <=> a < b
OBVIOUS

LEMMA Multiple ==
    ASSUME NEW x \in Int, NEW n \in Nat \ {0}
    PROVE  x % n = 0 <=> \E q \in Int : x = n * q
<1>1. ASSUME x % n = 0 PROVE \E q \in Int : x = n * q
  <2>1. PICK q \in Int : x = n * q + (x % n)
    BY Divide
  <2> QED BY <1>1, <2>1
<1>2. ASSUME NEW q \in Int, x = n * q PROVE x % n = 0
  BY <1>2, Exact
<1> QED BY <1>1, <1>2

LEMMA MultiplesAdd ==
    ASSUME NEW x \in Int, NEW y \in Int, NEW n \in Nat \ {0}, x % n = 0, y % n = 0
    PROVE  (x + y) % n = 0
<1>1. PICK a \in Int : x = n * a
  BY Multiple
<1>2. PICK b \in Int : y = n * b
  BY Multiple
<1>3. x + y = n * (a + b) /\ a + b \in Int /\ x + y \in Int
  BY <1>1, <1>2, Distributes
<1> QED BY <1>3, Multiple

LEMMA MultiplesApart ==
    ASSUME NEW x \in Int, NEW y \in Int, NEW n \in Nat \ {0}, x % n = 0, y % n = 0, x < y
    PROVE  x + n <= y
<1>1. PICK a \in Int : x = n * a
  BY Multiple
<1>2. PICK b \in Int : y = n * b
  BY Multiple
<1>3. a < b
  BY <1>1, <1>2, ProductOrder
<1>4. ~(b < a + 1) /\ a + 1 \in Int
  BY <1>3
<1>5. ~(n * b < n * (a + 1))
  BY <1>4, ProductOrder
<1>6. n * (a + 1) = n * a + n * 1 /\ n * 1 = n
  BY Distributes
<1> QED BY <1>1, <1>2, <1>5, <1>6

LEMMA MultipleOfMultiple ==
    ASSUME NEW x \in Int, NEW p \in Nat \ {0}, NEW n \in Nat \ {0}, x % p = 0, p % n = 0
    PROVE  x % n = 0
<1>1. PICK a \in Int : x = p * a
  BY Multiple
<1>2. PICK b \in Int : p = n * b
  BY Multiple
<1>3. x = n * (b * a) /\ b * a \in Int
  BY <1>1, <1>2
<1> QED BY <1>3, Multiple

\* The number of numbers below one.
LEMMA BelowCount ==
    ASSUME NEW x \in Nat
    PROVE  IsFiniteSet(0..(x - 1)) /\ Cardinality(0..(x - 1)) = x
<1>1. 0 \in Int /\ x - 1 \in Int
  OBVIOUS
<1>2. /\ IsFiniteSet(0..(x - 1))
      /\ Cardinality(0..(x - 1)) = IF 0 > x - 1 THEN 0 ELSE x - 1 - 0 + 1
  BY <1>1, FS_Interval
<1>3. CASE x = 0
  BY <1>2, <1>3
<1>4. CASE x # 0
  BY <1>2, <1>4
<1> QED BY <1>3, <1>4

\* Of a finite set of numbers, as many have fewer than n below them as n says.
LEMMA FirstOnes ==
    ASSUME NEW T \in SUBSET Nat, IsFiniteSet(T), NEW n \in Nat, n <= Cardinality(T)
    PROVE  Cardinality({i \in T : Cardinality({j \in T : j < i}) < n}) = n
<1> DEFINE k == Cardinality(T)
           B(i) == {j \in T : j < i}
           R == [i \in T |-> Cardinality(B(i))]
           L == {i \in T : Cardinality(B(i)) < n}
           r == [i \in L |-> Cardinality(B(i))]
<1>1. k \in Nat
  BY FS_CardinalityType
<1>2. \A i \in T : IsFiniteSet(B(i)) /\ Cardinality(B(i)) \in Nat
  <2> SUFFICES ASSUME NEW i \in T PROVE IsFiniteSet(B(i)) /\ Cardinality(B(i)) \in Nat
    OBVIOUS
  <2>1. B(i) \in SUBSET T
    OBVIOUS
  <2>2. IsFiniteSet(B(i))
    BY <2>1, FS_Subset
  <2> QED BY <2>2, FS_CardinalityType
<1>3. \A i \in T : Cardinality(B(i)) + 1 <= k
  <2> SUFFICES ASSUME NEW i \in T PROVE Cardinality(B(i)) + 1 <= k
    OBVIOUS
  <2>1. B(i) \in SUBSET (T \ {i})
    OBVIOUS
  <2>2. IsFiniteSet(T \ {i}) /\ Cardinality(T \ {i}) = k - 1
    BY FS_RemoveElement
  <2>3. Cardinality(B(i)) <= Cardinality(T \ {i})
    BY <2>1, <2>2, FS_Subset
  <2> QED BY <1>1, <1>2, <2>2, <2>3
<1>4. \A i, l \in T : i < l => Cardinality(B(i)) + 1 <= Cardinality(B(l))
  <2> SUFFICES ASSUME NEW i \in T, NEW l \in T, i < l
               PROVE  Cardinality(B(i)) + 1 <= Cardinality(B(l))
    OBVIOUS
  <2>1. B(i) \cup {i} \in SUBSET B(l)
    <3>1. \A j \in T : j < i => j < l
      OBVIOUS
    <3> QED BY <3>1
  <2>2. Cardinality(B(i) \cup {i}) = Cardinality(B(i)) + 1
    <3>1. i \notin B(i)
      OBVIOUS
    <3> QED BY <1>2, <3>1, FS_AddElement
  <2>3. Cardinality(B(i) \cup {i}) <= Cardinality(B(l))
    BY <1>2, <2>1, FS_Subset
  <2> QED BY <2>2, <2>3
<1>5. \A i, l \in T : Cardinality(B(i)) = Cardinality(B(l)) => i = l
  <2> SUFFICES ASSUME NEW i \in T, NEW l \in T, i # l
               PROVE  Cardinality(B(i)) # Cardinality(B(l))
    OBVIOUS
  <2>1. i < l \/ l < i
    OBVIOUS
  <2>2. Cardinality(B(i)) + 1 <= Cardinality(B(l)) \/ Cardinality(B(l)) + 1 <= Cardinality(B(i))
    BY <1>4, <2>1
  <2>3. Cardinality(B(i)) \in Nat /\ Cardinality(B(l)) \in Nat
    BY <1>2
  <2> HIDE DEF B
  <2> QED BY <2>2, <2>3
<1>6. \A x \in Nat : IsFiniteSet(0..(x - 1)) /\ Cardinality(0..(x - 1)) = x
  BY BelowCount
<1>7. \A i \in T : Cardinality(B(i)) \in 0..(k - 1)
  <2> SUFFICES ASSUME NEW i \in T PROVE Cardinality(B(i)) \in 0..(k - 1)
    OBVIOUS
  <2>1. Cardinality(B(i)) \in Nat /\ Cardinality(B(i)) + 1 <= k
    BY <1>2, <1>3
  <2> HIDE DEF B, k
  <2> QED BY <1>1, <2>1
<1> HIDE DEF B, k
<1>8. \A x \in 0..(k - 1) : \E i \in T : Cardinality(B(i)) = x
  <2>1. R \in Injection(T, 0..(k - 1))
    BY <1>5, <1>7 DEF Injection, IsInjective
  <2>2. IsFiniteSet(0..(k - 1)) /\ Cardinality(T) = Cardinality(0..(k - 1))
    BY <1>1, <1>6 DEF k
  <2>3. R \in Surjection(T, 0..(k - 1))
    <3> HIDE DEF R
    <3> QED BY <2>1, <2>2, FS_Injection
  <2> QED BY <2>3 DEF Surjection
<1>9. L \subseteq T /\ \A i \in L : Cardinality(B(i)) \in 0..(n - 1)
  BY <1>2
<1>10. \A x \in 0..(n - 1) : \E i \in L : Cardinality(B(i)) = x
  <2>1. \A x \in 0..(n - 1) : x \in 0..(k - 1) /\ x < n
    BY <1>1 DEF k
  <2> QED BY <1>8, <2>1
<1> HIDE DEF L
<1>11. r \in Surjection(L, 0..(n - 1)) /\ r \in Injection(L, 0..(n - 1))
  <2>1. r \in [L -> 0..(n - 1)]
    BY <1>9
  <2>2. r \in Surjection(L, 0..(n - 1))
    BY <1>10, <2>1 DEF Surjection
  <2>3. r \in Injection(L, 0..(n - 1))
    BY <1>5, <1>9, <2>1 DEF Injection, IsInjective
  <2> QED BY <2>2, <2>3
<1>12. Cardinality(L) = n
  <2>1. IsFiniteSet(L)
    BY <1>9, FS_Subset
  <2> HIDE DEF r
  <2>2. Cardinality(0..(n - 1)) = Cardinality(L)
    BY <1>11, <2>1, FS_Surjection
  <2> QED BY <1>6, <2>2
<1> QED BY <1>12 DEF L, B

-----------------------------------------------------------------------------
(* Folds.  The community modules define them with a choice and an operator; *)
(* Fold takes a function instead, of which induction can be stated, and     *)
(* FoldIs leads from what the choice satisfies to it.                       *)

\* A fold of a function, along the sequence.
Along(F, base, q, h) ==
    h[0] = base /\ \A i \in 1..Len(q) : h[i] = F[<<h[i - 1], q[i]>>]
Fold(F, base, q) == (CHOOSE h : Along(F, base, q, h))[Len(q)]

\* A fold of the community modules, which takes the last element off.
Unfolds(F, base, q, n, f) ==
    f = [s \in SUBSET (1..n) |->
            IF s = {} THEN base ELSE F[<<f[s \ {Max(s)}], q[Max(s)]>>]]

LEMMA MaxOfPart ==
    ASSUME NEW n \in Nat, NEW s \in SUBSET (1..n), s # {}
    PROVE  Max(s) \in s /\ Max(s) \in 1..n /\ s \ {Max(s)} \in SUBSET (1..n)
           /\ \A x \in s : x <= Max(s)
<1>1. s \in SUBSET Nat /\ \A x \in s : x <= n
  OBVIOUS
<1>2. Max(s) \in s /\ \A x \in s : Max(s) >= x
  BY <1>1, MaxIsMax
<1> QED BY <1>1, <1>2

LEMMA MaxOfInterval ==
    ASSUME NEW i \in Nat \ {0}
    PROVE  Max(1..i) = i /\ (1..i) \ {i} = 1..(i - 1) /\ 1..i # {}
<1>1. 1..i \in SUBSET (1..i) /\ i \in 1..i /\ 1..i # {}
  OBVIOUS
<1>2. Max(1..i) \in 1..i /\ \A x \in 1..i : x <= Max(1..i)
  BY <1>1, MaxOfPart
<1>3. Max(1..i) = i
  BY <1>1, <1>2
<1> QED BY <1>1, <1>3

LEMMA UnfoldExists ==
    ASSUME NEW A, NEW X, NEW F \in [A \X X -> A], NEW base \in A, NEW q \in Seq(X)
    PROVE  \E f \in [SUBSET (1..Len(q)) -> A] : Unfolds(F, base, q, Len(q), f)
<1> DEFINE N == Len(q)
           Has(n) == \E f \in [SUBSET (1..n) -> A] : Unfolds(F, base, q, n, f)
           T == {n \in Nat : n <= N => Has(n)}
<1>0. N \in Nat /\ \A i \in 1..N : q[i] \in X
  BY LenProperties, ElementOfSeq
<1> HIDE DEF N
<1>1. 0 \in T
  <2> DEFINE f == [s \in SUBSET (1..0) |-> base]
  <2>1. 1..0 = {} /\ f \in [SUBSET (1..0) -> A]
    OBVIOUS
  <2>2. \A s \in SUBSET (1..0) : s = {}
    BY <2>1
  <2>3. Unfolds(F, base, q, 0, f)
    BY <2>2 DEF Unfolds
  <2> QED BY <2>1, <2>3
<1>2. ASSUME NEW n \in T PROVE n + 1 \in T
  <2> HIDE DEF Has
  <2> SUFFICES ASSUME n + 1 <= N PROVE Has(n + 1)
    BY DEF T
  <2> DEFINE m == n + 1
             D == SUBSET (1..n)
             E == SUBSET (1..m)
  <2>1. n \in Nat /\ n <= N /\ m \in Nat \ {0} /\ m \in 1..N /\ m - 1 = n
    BY <1>0
  <2>2. PICK f \in [D -> A] : Unfolds(F, base, q, n, f)
    BY <2>1 DEF Has
  <2> DEFINE g == [s \in E |-> IF m \in s THEN F[<<f[s \ {m}], q[m]>>] ELSE f[s]]
  <2>3. ASSUME NEW s \in E
        PROVE  /\ m \notin s => s \in D
               /\ m \in s => s \ {m} \in D /\ s \ {m} \in E /\ Max(s) = m
    <3>1. 1..n = (1..m) \ {m} /\ 1..n \subseteq 1..m
      BY <2>1
    <3>2. ASSUME m \in s PROVE Max(s) = m
      <4>1. s # {} /\ s \in SUBSET (1..m)
        BY <3>2
      <4>2. Max(s) \in 1..m /\ m <= Max(s)
        BY <2>1, <3>2, <4>1, MaxOfPart
      <4> QED BY <2>1, <4>2
    <3> HIDE DEF m
    <3> QED BY <3>1, <3>2
  <2>4. \A s \in D : f[s] = IF s = {} THEN base ELSE F[<<f[s \ {Max(s)}], q[Max(s)]>>]
    BY <2>2 DEF Unfolds
  <2>5. q[m] \in X
    BY <1>0, <2>1
  <2> HIDE DEF m
  <2>6. g \in [E -> A]
    <3>1. ASSUME NEW s \in E PROVE g[s] \in A
      BY <2>2, <2>3, <2>5
    <3> QED BY <3>1
  <2>7. ASSUME NEW s \in E
        PROVE  g[s] = IF s = {} THEN base ELSE F[<<g[s \ {Max(s)}], q[Max(s)]>>]
    <3>1. CASE m \in s
      <4>1. g[s \ {m}] = f[s \ {m}]
        BY <2>3, <3>1
      <4> QED BY <2>3, <3>1, <4>1
    <3>2. CASE m \notin s /\ s = {}
      BY <2>3, <2>4, <3>2
    <3>3. CASE m \notin s /\ s # {}
      <4>1. s \in D /\ s \ {Max(s)} \in E /\ m \notin s \ {Max(s)}
        BY <2>1, <2>3, <3>3
      <4>2. g[s] = f[s] /\ g[s \ {Max(s)}] = f[s \ {Max(s)}]
        BY <3>3, <4>1
      <4> QED BY <2>4, <3>3, <4>1, <4>2
    <3> QED BY <3>1, <3>2, <3>3
  <2>8. Unfolds(F, base, q, m, g)
    <3>1. g = [s \in E |-> g[s]]
      BY <2>6
    <3> HIDE DEF g
    <3> QED BY <2>7, <3>1 DEF Unfolds
  <2> HIDE DEF g
  <2> QED BY <2>6, <2>8 DEF m, Has
<1>3. T = Nat
  <2> HIDE DEF T
  <2>1. T \subseteq Nat
    BY DEF T
  <2> QED BY <1>1, <1>2, <2>1, NaturalInduction
<1>4. Has(N)
  <2> HIDE DEF Has, T
  <2>1. N \in T /\ N <= N
    BY <1>0, <1>3
  <2> QED BY <2>1 DEF T
<1> QED BY <1>4 DEF N

\* What holds of base and is kept along a sequence holds at its end.
LEMMA KeptAlong ==
    ASSUME NEW n \in Nat, NEW A, NEW h, h[0] \in A,
           \A i \in 1..n : h[i - 1] \in A => h[i] \in A
    PROVE  \A i \in 0..n : h[i] \in A
<1> DEFINE T == {i \in Nat : i <= n => h[i] \in A}
<1>1. 0 \in T
  OBVIOUS
<1>2. ASSUME NEW i \in T PROVE i + 1 \in T
  <2> SUFFICES ASSUME i + 1 <= n PROVE h[i + 1] \in A
    OBVIOUS
  <2>1. i \in Nat /\ i + 1 \in 1..n /\ (i + 1) - 1 = i /\ i <= n
    OBVIOUS
  <2> QED BY <2>1
<1>3. T = Nat
  <2> HIDE DEF T
  <2>1. T \subseteq Nat
    BY DEF T
  <2> QED BY <1>1, <1>2, <2>1, NaturalInduction
<1> QED BY <1>3

\* A fold of a function: the way along a sequence is the only one.
Foldable(A, X, F, base, q) == F \in [A \X X -> A] /\ base \in A /\ q \in Seq(X)
Upto(F, base, q, i) == (CHOOSE h : Along(F, base, q, h))[i]

LEMMA FoldAlong ==
    ASSUME NEW A, NEW X, NEW F, NEW base, NEW q, Foldable(A, X, F, base, q)
    PROVE  /\ Fold(F, base, q) \in A /\ Fold(F, base, q) = Upto(F, base, q, Len(q))
           /\ Upto(F, base, q, 0) = base
           /\ \A i \in 0..Len(q) : Upto(F, base, q, i) \in A
           /\ \A i \in 1..Len(q) : Upto(F, base, q, i) = F[<<Upto(F, base, q, i - 1), q[i]>>]
           /\ \A h : Along(F, base, q, h) => h[Len(q)] = Fold(F, base, q)
<1> DEFINE n == Len(q)
           H == CHOOSE h : Along(F, base, q, h)
<1>a. F \in [A \X X -> A] /\ base \in A /\ q \in Seq(X)
  BY DEF Foldable
<1>0. n \in Nat /\ n \in 0..n /\ \A i \in 1..n : q[i] \in X /\ i \in Nat \ {0} /\ i - 1 \in 0..n
  <2>1. n \in Nat /\ \A i \in 1..n : q[i] \in X
    BY <1>a, LenProperties, ElementOfSeq
  <2> HIDE DEF n
  <2> QED BY <2>1
<1>1. \E h : Along(F, base, q, h)
  <2>1. PICK f \in [SUBSET (1..n) -> A] : Unfolds(F, base, q, n, f)
    BY <1>a, UnfoldExists
  <2> HIDE DEF n
  <2>2. \A s \in SUBSET (1..n) : f[s] = IF s = {} THEN base ELSE F[<<f[s \ {Max(s)}], q[Max(s)]>>]
    BY <2>1 DEF Unfolds
  <2> DEFINE h == [i \in 0..n |-> f[1..i]]
  <2>3. h[0] = base
    <3>1. 1..0 = {} /\ 0 \in 0..n
      BY <1>0
    <3> QED BY <2>2, <3>1
  <2>4. ASSUME NEW i \in 1..n PROVE h[i] = F[<<h[i - 1], q[i]>>]
    <3>1. 1..i \in SUBSET (1..n) /\ i \in 0..n /\ i - 1 \in 0..n /\ i \in Nat \ {0}
      BY <1>0
    <3>2. f[1..i] = F[<<f[1..(i - 1)], q[i]>>]
      BY <2>2, <3>1, MaxOfInterval
    <3> QED BY <3>1, <3>2
  <2> HIDE DEF h
  <2>5. Along(F, base, q, h)
    BY <2>3, <2>4 DEF Along, n
  <2> QED BY <2>5
<1>2. Along(F, base, q, H)
  BY <1>1
<1> HIDE DEF H
<1>3. H[0] = base /\ \A i \in 1..n : H[i] = F[<<H[i - 1], q[i]>>]
  BY <1>2 DEF Along
<1> HIDE DEF n
<1>4. \A i \in 0..n : H[i] \in A
  <2>1. \A i \in 1..n : H[i - 1] \in A => H[i] \in A
    BY <1>a, <1>0, <1>3
  <2> QED BY <1>a, <1>0, <1>3, <2>1, KeptAlong
<1>5. ASSUME NEW h, Along(F, base, q, h) PROVE h[n] = H[n]
  <2> DEFINE T == {i \in Nat : i <= n => h[i] = H[i]}
  <2>1. h[0] = base /\ \A i \in 1..n : h[i] = F[<<h[i - 1], q[i]>>]
    BY <1>5 DEF Along, n
  <2>2. 0 \in T
    BY <1>3, <2>1
  <2>3. ASSUME NEW i \in T PROVE i + 1 \in T
    <3> SUFFICES ASSUME i + 1 <= n PROVE h[i + 1] = H[i + 1]
      OBVIOUS
    <3>1. i + 1 \in 1..n /\ (i + 1) - 1 = i /\ h[i] = H[i]
      BY <1>0
    <3> QED BY <1>3, <2>1, <3>1
  <2>4. T = Nat
    <3> HIDE DEF T
    <3>1. T \subseteq Nat
      BY DEF T
    <3> QED BY <2>2, <2>3, <3>1, NaturalInduction
  <2> QED BY <1>0, <2>4
<1>6. Fold(F, base, q) = H[n] /\ \A i : Upto(F, base, q, i) = H[i]
  BY DEF Fold, Upto, H, n
<1> QED BY <1>0, <1>3, <1>4, <1>5, <1>6 DEF n

LEMMA FoldEmpty ==
    ASSUME NEW A, NEW X, NEW F, NEW base, NEW q, Foldable(A, X, F, base, q)
    PROVE  Fold(F, base, <<>>) = base
<1>1. Foldable(A, X, F, base, <<>>) /\ Len(<<>>) = 0
  BY EmptySeq DEF Foldable
<1> QED BY <1>1, FoldAlong

LEMMA FoldAppend ==
    ASSUME NEW A, NEW X, NEW F, NEW base, NEW q, Foldable(A, X, F, base, q), NEW x \in X
    PROVE  Fold(F, base, Append(q, x)) = F[<<Fold(F, base, q), x>>]
<1> DEFINE r == Append(q, x)
           n == Len(q)
           h == [i \in 0..n |-> Upto(F, base, r, i)]
<1>1. /\ r \in Seq(X) /\ Len(r) = n + 1 /\ n \in Nat
      /\ \A i \in 1..n : r[i] = q[i]
      /\ r[n + 1] = x
  <2>1. q \in Seq(X)
    BY DEF Foldable
  <2> QED BY <2>1, AppendProperties, LenProperties
<1> HIDE DEF r
<1>a. Foldable(A, X, F, base, q) /\ Foldable(A, X, F, base, r)
  BY <1>1 DEF Foldable
<1>2. /\ Upto(F, base, r, 0) = base /\ Fold(F, base, r) = Upto(F, base, r, n + 1)
      /\ \A i \in 1..(n + 1) : Upto(F, base, r, i) = F[<<Upto(F, base, r, i - 1), r[i]>>]
  BY <1>a, <1>1, FoldAlong
<1>3. Along(F, base, q, h)
  <2> HIDE DEF n
  <2>1. h[0] = base
    <3>1. 0 \in 0..n
      BY <1>1
    <3> QED BY <1>2, <3>1
  <2>2. ASSUME NEW i \in 1..n PROVE h[i] = F[<<h[i - 1], q[i]>>]
    <3>1. i \in 0..n /\ i - 1 \in 0..n /\ i \in 1..(n + 1)
      BY <1>1
    <3> QED BY <1>1, <1>2, <3>1
  <2> HIDE DEF h
  <2> QED BY <2>1, <2>2 DEF Along, n
<1>4. Fold(F, base, q) = h[n]
  <2> HIDE DEF h
  <2>1. h[Len(q)] = Fold(F, base, q)
    BY <1>a, <1>3, FoldAlong
  <2> QED BY <2>1
<1>5. n + 1 \in 1..(n + 1) /\ (n + 1) - 1 = n /\ n \in 0..n
  BY <1>1
<1>6. h[n] = Upto(F, base, r, n)
  BY <1>5
<1> HIDE DEF n, h
<1> QED BY <1>1, <1>2, <1>4, <1>5, <1>6 DEF r, n

\* What the folds of two functions have in common.
Agree(A, F, q, B, G, r, R) ==
    /\ Len(q) = Len(r)
    /\ \A i \in 1..Len(q) : \A c \in A, d \in B :
          <<c, d>> \in R => <<F[<<c, q[i]>>], G[<<d, r[i]>>]>> \in R

LEMMA FoldsAgree ==
    ASSUME NEW A, NEW X, NEW F, NEW a, NEW q, Foldable(A, X, F, a, q),
           NEW B, NEW Y, NEW G, NEW b, NEW r, Foldable(B, Y, G, b, r),
           NEW R, <<a, b>> \in R, Agree(A, F, q, B, G, r, R)
    PROVE  <<Fold(F, a, q), Fold(G, b, r)>> \in R
<1> DEFINE n == Len(q)
           f == [i \in 0..n |-> Upto(F, a, q, i)]
           g == [i \in 0..n |-> Upto(G, b, r, i)]
           h == [i \in 0..n |-> <<f[i], g[i]>>]
<1>a. Foldable(A, X, F, a, q) /\ Foldable(B, Y, G, b, r)
  OBVIOUS
<1>0. n \in Nat /\ n = Len(r)
  BY LenProperties DEF Foldable, Agree
<1>1. /\ Fold(F, a, q) = Upto(F, a, q, n) /\ Upto(F, a, q, 0) = a
      /\ \A i \in 0..n : Upto(F, a, q, i) \in A
      /\ \A i \in 1..n : Upto(F, a, q, i) = F[<<Upto(F, a, q, i - 1), q[i]>>]
  BY <1>a, FoldAlong
<1>2. /\ Fold(G, b, r) = Upto(G, b, r, n) /\ Upto(G, b, r, 0) = b
      /\ \A i \in 0..n : Upto(G, b, r, i) \in B
      /\ \A i \in 1..n : Upto(G, b, r, i) = G[<<Upto(G, b, r, i - 1), r[i]>>]
  <2>1. /\ Fold(G, b, r) = Upto(G, b, r, Len(r)) /\ Upto(G, b, r, 0) = b
        /\ \A i \in 0..Len(r) : Upto(G, b, r, i) \in B
        /\ \A i \in 1..Len(r) : Upto(G, b, r, i) = G[<<Upto(G, b, r, i - 1), r[i]>>]
    BY <1>a, FoldAlong
  <2> HIDE DEF n
  <2> QED BY <1>0, <2>1
<1>3. \A i \in 1..n : \A c \in A, d \in B :
          <<c, d>> \in R => <<F[<<c, q[i]>>], G[<<d, r[i]>>]>> \in R
  BY DEF Agree
<1> HIDE DEF n
<1>4. \A i \in 1..n : i \in 0..n /\ i - 1 \in 0..n
  BY <1>0
<1>5. 0 \in 0..n /\ n \in 0..n
  BY <1>0
<1>6. h[0] \in R
  BY <1>1, <1>2, <1>5
<1>7. ASSUME NEW i \in 1..n, h[i - 1] \in R PROVE h[i] \in R
  <2>1. f[i] = F[<<f[i - 1], q[i]>>] /\ g[i] = G[<<g[i - 1], r[i]>>]
    BY <1>1, <1>2, <1>4
  <2>2. f[i - 1] \in A /\ g[i - 1] \in B /\ <<f[i - 1], g[i - 1]>> \in R
    BY <1>1, <1>2, <1>4, <1>7
  <2> QED BY <1>3, <1>4, <2>1, <2>2
<1>8. h[n] \in R
  <2> HIDE DEF h
  <2> QED BY <1>0, <1>5, <1>6, <1>7, KeptAlong
<1> QED BY <1>1, <1>2, <1>5, <1>8

Climbs(A, F, base, q, f) ==
    /\ f[{}] = base
    /\ \A i \in 1..Len(q) : f[1..(i - 1)] \in A => f[1..i] = F[<<f[1..(i - 1)], q[i]>>]

\* A fold of the community modules is that of a function, when its way stays
\* where the function is defined.
LEMMA FoldIs ==
    ASSUME NEW A, NEW X, NEW F, NEW base, NEW q, Foldable(A, X, F, base, q),
           NEW f, Climbs(A, F, base, q, f)
    PROVE  f[1..Len(q)] = Fold(F, base, q)
<1> DEFINE n == Len(q)
           h == [i \in 0..n |-> f[1..i]]
<1>a. F \in [A \X X -> A] /\ base \in A /\ q \in Seq(X)
  BY DEF Foldable
<1>0. n \in Nat /\ \A i \in 1..n : q[i] \in X
  BY <1>a, LenProperties, ElementOfSeq
<1>1. \A i \in 1..n : f[1..(i - 1)] \in A => f[1..i] = F[<<f[1..(i - 1)], q[i]>>]
  BY DEF Climbs
<1> HIDE DEF n
<1>2. 1..0 = {} /\ 0 \in 0..n /\ n \in 0..n /\ \A i \in 1..n : i \in 0..n /\ i - 1 \in 0..n
  BY <1>0
<1>3. h[0] = base
  BY <1>2 DEF Climbs
<1>4. \A i \in 1..n : h[i - 1] \in A => h[i] = F[<<h[i - 1], q[i]>>]
  BY <1>1, <1>2
<1>5. h[n] = f[1..n]
  BY <1>2
<1> HIDE DEF h
<1>6. \A i \in 0..n : h[i] \in A
  <2>1. \A i \in 1..n : h[i - 1] \in A => h[i] \in A
    BY <1>a, <1>0, <1>4
  <2> QED BY <1>a, <1>0, <1>3, <2>1, KeptAlong
<1>7. Along(F, base, q, h)
  BY <1>2, <1>3, <1>4, <1>6 DEF Along, n
<1>8. h[n] = Fold(F, base, q)
  BY <1>7, FoldAlong DEF n
<1> QED BY <1>5, <1>8 DEF n

\* What a fold has made of the elements so far, kept by the next.
KeepsIn(A, F, q, R) ==
    \A i \in 1..Len(q) : \A a \in A : <<i - 1, a>> \in R => <<i, F[<<a, q[i]>>]>> \in R

LEMMA FoldKeeps ==
    ASSUME NEW A, NEW X, NEW F, NEW base, NEW q, Foldable(A, X, F, base, q),
           NEW R, <<0, base>> \in R, KeepsIn(A, F, q, R)
    PROVE  /\ \A i \in 0..Len(q) : <<i, Upto(F, base, q, i)>> \in R
           /\ <<Len(q), Fold(F, base, q)>> \in R
<1> DEFINE n == Len(q)
<1>1. n \in Nat
  <2>1. q \in Seq(X)
    BY DEF Foldable
  <2> QED BY <2>1, LenProperties
<1>2. /\ Fold(F, base, q) = Upto(F, base, q, Len(q))
      /\ Upto(F, base, q, 0) = base
      /\ \A i \in 0..Len(q) : Upto(F, base, q, i) \in A
      /\ \A i \in 1..Len(q) : Upto(F, base, q, i) = F[<<Upto(F, base, q, i - 1), q[i]>>]
  <2> HIDE DEF n
  <2>1. Fold(F, base, q) = Upto(F, base, q, Len(q))
    BY FoldAlong
  <2>2. Upto(F, base, q, 0) = base
    BY FoldAlong
  <2>3. \A i \in 0..Len(q) : Upto(F, base, q, i) \in A
    BY FoldAlong
  <2>4. \A i \in 1..Len(q) : Upto(F, base, q, i) = F[<<Upto(F, base, q, i - 1), q[i]>>]
    BY FoldAlong
  <2> QED BY <2>1, <2>2, <2>3, <2>4
<1> DEFINE g == [i \in 0..n |-> Upto(F, base, q, i)]
           h == [i \in 0..n |-> <<i, g[i]>>]
<1>3. \A i \in 1..n : \A a \in A : <<i - 1, a>> \in R => <<i, F[<<a, q[i]>>]>> \in R
  BY DEF KeepsIn
<1>9. \A i \in 1..n : /\ Upto(F, base, q, i - 1) \in A
                      /\ Upto(F, base, q, i) = F[<<Upto(F, base, q, i - 1), q[i]>>]
  <2>1. \A i \in 1..Len(q) : i - 1 \in 0..Len(q)
    BY <1>1
  <2> QED BY <1>2, <2>1
<1> HIDE DEF n
<1>4. 0 \in 0..n /\ n \in 0..n /\ \A i \in 1..n : i \in 0..n /\ i - 1 \in 0..n
  BY <1>1
<1>5. h[0] \in R
  BY <1>2, <1>4
<1>6. ASSUME NEW i \in 1..n, h[i - 1] \in R PROVE h[i] \in R
  <2>1. g[i] = F[<<g[i - 1], q[i]>>] /\ g[i - 1] \in A
    BY <1>4, <1>9
  <2>2. h[i - 1] = <<i - 1, g[i - 1]>> /\ h[i] = <<i, g[i]>>
    BY <1>4
  <2>3. <<i - 1, g[i - 1]>> \in R
    BY <1>6, <2>2
  <2> HIDE DEF g, h
  <2>4. <<i, F[<<g[i - 1], q[i]>>]>> \in R
    BY <1>3, <2>1, <2>3
  <2> QED BY <2>1, <2>2, <2>4
<1>7. \A i \in 0..n : h[i] \in R
  <2> HIDE DEF h
  <2> QED BY <1>1, <1>5, <1>6, KeptAlong
<1>8. \A i \in 0..n : <<i, Upto(F, base, q, i)>> \in R
  BY <1>7
<1> QED BY <1>2, <1>4, <1>8 DEF n
=============================================================================
