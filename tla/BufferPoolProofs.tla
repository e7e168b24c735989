-------------------------- MODULE BufferPoolProofs --------------------------
(***************************************************************************)
(* Proofs about the buffer pool, for every number of slots, every set of   *)
(* chunks and every finite set of clients.                                 *)
(***************************************************************************)
EXTENDS BufferPool, FiniteSetTheorems, SequenceTheorems, TLAPS

-----------------------------------------------------------------------------
(* Sequences without repetition, as the free list is used.                 *)

NoRepeat(q) == \A i, j \in 1..Len(q) : q[i] = q[j] => i = j

\* The set of a sequence: its elements, at the positions they have.
LEMMA ToSetDef ==
    ASSUME NEW S, NEW q \in Seq(S)
    PROVE  /\ ToSet(q) \subseteq S
           /\ \A x : x \in ToSet(q) <=> \E i \in 1..Len(q) : q[i] = x
BY LenProperties, ElementOfSeq DEF ToSet

\* What _free.remove(slot) leaves: the other slots, each still once.
LEMMA RemoveAtFacts ==
    ASSUME NEW S, NEW q \in Seq(S), NoRepeat(q), NEW k \in 1..Len(q)
    PROVE  /\ RemoveAt(q, k) \in Seq(S)
           /\ NoRepeat(RemoveAt(q, k))
           /\ ToSet(RemoveAt(q, k)) = ToSet(q) \ {q[k]}
           /\ Len(RemoveAt(q, k)) = Len(q) - 1
           /\ \A i \in 1..(Len(q) - 1) :
                 RemoveAt(q, k)[i] = IF i < k THEN q[i] ELSE q[i + 1]
<1> DEFINE a == SubSeq(q, 1, k - 1)
           b == SubSeq(q, k + 1, Len(q))
           r == RemoveAt(q, k)
<1>0. Len(q) \in Nat /\ \A i \in 1..Len(q) : q[i] \in S
  BY LenProperties, ElementOfSeq
<1>1. a \in Seq(S) /\ Len(a) = k - 1 /\ \A i \in 1..(k - 1) : a[i] = q[i]
  <2>1. \A i \in 1..(k - 1) : q[i] \in S
    BY <1>0
  <2>2. k - 1 \in Int /\ 1 \in Int
    BY <1>0
  <2>3. /\ SubSeq(q, 1, k - 1) \in Seq(S)
        /\ Len(SubSeq(q, 1, k - 1)) = IF 1 <= k - 1 THEN (k - 1) - 1 + 1 ELSE 0
        /\ \A i \in 1..((k - 1) - 1 + 1) : SubSeq(q, 1, k - 1)[i] = q[1 + i - 1]
    BY <2>1, <2>2, SubSeqProperties
  <2> QED BY <2>3, <1>0
<1>2. /\ b \in Seq(S) /\ Len(b) = Len(q) - k
      /\ \A i \in 1..(Len(q) - k) : b[i] = q[k + i]
  <2>1. \A i \in (k + 1)..Len(q) : q[i] \in S
    BY <1>0
  <2>2. k + 1 \in Int /\ Len(q) \in Int
    BY <1>0
  <2>3. /\ SubSeq(q, k + 1, Len(q)) \in Seq(S)
        /\ Len(SubSeq(q, k + 1, Len(q))) =
              IF k + 1 <= Len(q) THEN Len(q) - (k + 1) + 1 ELSE 0
        /\ \A i \in 1..(Len(q) - (k + 1) + 1) :
              SubSeq(q, k + 1, Len(q))[i] = q[(k + 1) + i - 1]
    BY <2>1, <2>2, SubSeqProperties
  <2> QED BY <2>3, <1>0
<1>3. /\ r \in Seq(S) /\ Len(r) = Len(q) - 1
      /\ \A i \in 1..Len(r) : r[i] = IF i < k THEN q[i] ELSE q[i + 1]
  <2>1. /\ a \o b \in Seq(S)
        /\ Len(a \o b) = Len(a) + Len(b)
        /\ \A i \in 1..(Len(a) + Len(b)) :
              (a \o b)[i] = IF i <= Len(a) THEN a[i] ELSE b[i - Len(a)]
    BY <1>1, <1>2, ConcatProperties
  <2>2. r = a \o b
    BY DEF RemoveAt
  <2> HIDE DEF a, b, r
  <2>3. Len(r) = Len(q) - 1
    BY <1>0, <1>1, <1>2, <2>1, <2>2
  <2>4. ASSUME NEW i \in 1..Len(r), i < k PROVE r[i] = q[i]
    BY <1>0, <1>1, <1>2, <2>1, <2>2, <2>3, <2>4
  <2>5. ASSUME NEW i \in 1..Len(r), ~(i < k) PROVE r[i] = q[i + 1]
    <3>1. r[i] = b[i - (k - 1)]
      BY <1>0, <1>1, <1>2, <2>1, <2>2, <2>3, <2>5
    <3>2. i - (k - 1) \in 1..(Len(q) - k) /\ k + (i - (k - 1)) = i + 1
      BY <1>0, <2>3, <2>5
    <3> QED BY <3>1, <3>2, <1>2
  <2> QED BY <2>1, <2>2, <2>3, <2>4, <2>5
<1> HIDE DEF a, b, r
<1>4. NoRepeat(r)
  <2> SUFFICES ASSUME NEW i \in 1..Len(r), NEW j \in 1..Len(r), r[i] = r[j]
               PROVE  i = j
    BY DEF NoRepeat
  <2> DEFINE at(n) == IF n < k THEN n ELSE n + 1
  <2>1. at(i) \in 1..Len(q) /\ at(j) \in 1..Len(q)
    BY <1>0, <1>3
  <2>2. r[i] = q[at(i)] /\ r[j] = q[at(j)]
    BY <1>3
  <2>3. at(i) = at(j)
    BY <2>1, <2>2 DEF NoRepeat
  <2> QED BY <2>3, <1>0, <1>3
<1>5. ASSUME NEW x PROVE x \in ToSet(r) <=> x \in ToSet(q) \ {q[k]}
  <2>1. ASSUME NEW i \in 1..Len(r), r[i] = x
        PROVE  x \in ToSet(q) \ {q[k]}
    <3>1. PICK j \in 1..Len(q) : j # k /\ q[j] = x
      BY <1>0, <1>3, <2>1
    <3> QED BY <3>1, ToSetDef DEF NoRepeat
  <2>2. ASSUME NEW j \in 1..Len(q), q[j] = x, x # q[k]
        PROVE  x \in ToSet(r)
    <3>1. PICK i \in 1..Len(r) : r[i] = x
      <4>1. CASE j < k BY <1>0, <1>3, <2>2, <4>1
      <4>2. CASE j > k
        <5>1. j - 1 \in 1..Len(r) /\ r[j - 1] = q[j]
          BY <1>0, <1>3, <4>2
        <5> QED BY <5>1, <2>2
      <4> QED BY <4>1, <4>2, <2>2, <1>0
    <3> QED BY <3>1, <1>3, ToSetDef
  <2> QED BY <2>1, <2>2, <1>3, ToSetDef
<1> QED BY <1>3, <1>4, <1>5 DEF r

\* What _free.popleft() leaves.
LEMMA TailFacts ==
    ASSUME NEW S, NEW q \in Seq(S), NoRepeat(q), q # <<>>
    PROVE  /\ Head(q) \in ToSet(q) /\ Tail(q) \in Seq(S)
           /\ NoRepeat(Tail(q))
           /\ ToSet(Tail(q)) = ToSet(q) \ {Head(q)}
<1>0. Len(q) \in Nat \ {0} /\ Head(q) = q[1]
  BY EmptySeq
<1>1. /\ Tail(q) \in Seq(S) /\ Len(Tail(q)) = Len(q) - 1
      /\ \A i \in 1..Len(Tail(q)) : Tail(q)[i] = q[i + 1]
  BY HeadTailProperties
<1>2. NoRepeat(Tail(q))
  BY <1>0, <1>1 DEF NoRepeat
<1>3. Head(q) \in ToSet(q)
  BY <1>0, ToSetDef
<1>4. ASSUME NEW x PROVE x \in ToSet(Tail(q)) <=> x \in ToSet(q) \ {Head(q)}
  <2>1. ASSUME NEW i \in 1..Len(Tail(q)), Tail(q)[i] = x
        PROVE  x \in ToSet(q) \ {Head(q)}
    <3>1. i + 1 \in 1..Len(q) /\ q[i + 1] = x /\ i + 1 # 1
      BY <1>0, <1>1, <2>1
    <3>2. x # q[1]
      BY <3>1, <1>0 DEF NoRepeat
    <3> QED BY <3>1, <3>2, <1>0, ToSetDef
  <2>2. ASSUME NEW j \in 1..Len(q), q[j] = x, x # Head(q)
        PROVE  x \in ToSet(Tail(q))
    <3>1. j - 1 \in 1..Len(Tail(q)) /\ Tail(q)[j - 1] = x
      BY <1>0, <1>1, <2>2
    <3> QED BY <3>1, <1>1, ToSetDef
  <2>3. x \in ToSet(q) <=> \E j \in 1..Len(q) : q[j] = x
    BY ToSetDef
  <2>4. x \in ToSet(Tail(q)) <=> \E i \in 1..Len(Tail(q)) : Tail(q)[i] = x
    BY <1>1, ToSetDef
  <2> QED BY <2>1, <2>2, <2>3, <2>4
<1> QED BY <1>1, <1>2, <1>3, <1>4

\* What _free.append(slot) leaves.
LEMMA AppendFacts ==
    ASSUME NEW S, NEW q \in Seq(S), NoRepeat(q), NEW e \in S, e \notin ToSet(q)
    PROVE  /\ Append(q, e) \in Seq(S)
           /\ NoRepeat(Append(q, e))
           /\ ToSet(Append(q, e)) = ToSet(q) \cup {e}
<1> DEFINE r == Append(q, e)
<1>0. /\ Len(q) \in Nat /\ r \in Seq(S) /\ Len(r) = Len(q) + 1
      /\ \A i \in 1..Len(q) : r[i] = q[i]
      /\ r[Len(q) + 1] = e
  BY LenProperties, AppendProperties
<1> HIDE DEF r
<1>1. \A i \in 1..Len(q) : q[i] # e
  BY ToSetDef
<1>2. NoRepeat(r)
  <2> SUFFICES ASSUME NEW i \in 1..Len(r), NEW j \in 1..Len(r), r[i] = r[j]
               PROVE  i = j
    BY DEF NoRepeat
  <2>1. CASE i \in 1..Len(q) /\ j \in 1..Len(q) BY <1>0, <2>1 DEF NoRepeat
  <2>2. CASE i = Len(q) + 1 /\ j \in 1..Len(q) BY <1>0, <1>1, <2>2
  <2>3. CASE j = Len(q) + 1 /\ i \in 1..Len(q) BY <1>0, <1>1, <2>3
  <2>4. CASE i = Len(q) + 1 /\ j = Len(q) + 1 BY <2>4
  <2> QED BY <1>0, <2>1, <2>2, <2>3, <2>4
<1>3. ASSUME NEW x PROVE x \in ToSet(r) <=> x \in ToSet(q) \cup {e}
  <2>1. (\E i \in 1..Len(r) : r[i] = x) <=> ((\E i \in 1..Len(q) : q[i] = x) \/ x = e)
    BY <1>0
  <2> QED BY <2>1, <1>0, ToSetDef
<1> QED BY <1>0, <1>2, <1>3 DEF r

-----------------------------------------------------------------------------
(* The order of the free list.                                             *)

\* Removing a slot leaves the others in their order.
LEMMA RemovedOrder ==
    ASSUME NEW S, NEW q \in Seq(S), NoRepeat(q), NEW k \in 1..Len(q), NEW x, NEW y
    PROVE  Before(RemoveAt(q, k), x, y) <=> Before(q, x, y) /\ x # q[k] /\ y # q[k]
<1> DEFINE r == RemoveAt(q, k)
           at(n) == IF n < k THEN n ELSE n + 1
           from(n) == IF n < k THEN n ELSE n - 1
<1>1. /\ Len(q) \in Nat /\ Len(r) = Len(q) - 1
      /\ \A i \in 1..(Len(q) - 1) : r[i] = IF i < k THEN q[i] ELSE q[i + 1]
  BY RemoveAtFacts, LenProperties
<1> HIDE DEF r
<1>2. \A i \in 1..Len(r) : at(i) \in 1..Len(q) /\ at(i) # k /\ r[i] = q[at(i)]
  BY <1>1
<1>3. \A i \in 1..Len(q) : i # k => from(i) \in 1..Len(r) /\ at(from(i)) = i
  BY <1>1
<1>4. ASSUME NEW i \in 1..Len(r), NEW j \in 1..Len(r), i < j, r[i] = x, r[j] = y
      PROVE  Before(q, x, y) /\ x # q[k] /\ y # q[k]
  <2>1. at(i) < at(j)
    BY <1>1, <1>4
  <2>2. /\ at(i) \in 1..Len(q) /\ at(i) # k /\ x = q[at(i)]
        /\ at(j) \in 1..Len(q) /\ at(j) # k /\ y = q[at(j)]
    BY <1>2, <1>4
  <2> HIDE DEF at
  <2> QED BY <2>1, <2>2 DEF Before, NoRepeat
<1>5. ASSUME NEW i \in 1..Len(q), NEW j \in 1..Len(q), i < j, q[i] = x, q[j] = y,
             x # q[k], y # q[k]
      PROVE  Before(r, x, y)
  <2>1. i # k /\ j # k
    BY <1>5
  <2>2. from(i) < from(j)
    BY <1>1, <1>5, <2>1
  <2>3. /\ from(i) \in 1..Len(r) /\ at(from(i)) = i
        /\ from(j) \in 1..Len(r) /\ at(from(j)) = j
    BY <1>3, <2>1
  <2> HIDE DEF at, from
  <2>4. r[from(i)] = x /\ r[from(j)] = y
    BY <1>2, <1>5, <2>3
  <2> QED BY <2>2, <2>3, <2>4 DEF Before
<1> QED BY <1>4, <1>5 DEF Before, r

\* So does taking the first, which comes before all others.
LEMMA TailOrder ==
    ASSUME NEW S, NEW q \in Seq(S), NoRepeat(q), q # <<>>, NEW x, NEW y
    PROVE  /\ Before(Tail(q), x, y) <=> Before(q, x, y) /\ x # Head(q)
           /\ ~Before(q, x, Head(q))
<1> DEFINE r == Tail(q)
<1>1. /\ Len(q) \in Nat \ {0} /\ Head(q) = q[1] /\ Len(r) = Len(q) - 1
      /\ \A i \in 1..Len(r) : r[i] = q[i + 1]
  BY HeadTailProperties, EmptySeq
<1> HIDE DEF r
<1>2. ASSUME NEW i \in 1..Len(r), NEW j \in 1..Len(r), i < j, r[i] = x, r[j] = y
      PROVE  Before(q, x, y) /\ x # q[1]
  <2>1. /\ i + 1 \in 1..Len(q) /\ j + 1 \in 1..Len(q) /\ 1 \in 1..Len(q)
        /\ i + 1 < j + 1 /\ i + 1 # 1
    BY <1>1, <1>2
  <2>2. q[i + 1] = x /\ q[j + 1] = y
    BY <1>1, <1>2
  <2> QED BY <2>1, <2>2 DEF Before, NoRepeat
<1>3. ASSUME NEW i \in 1..Len(q), NEW j \in 1..Len(q), i < j, q[i] = x, q[j] = y, x # q[1]
      PROVE  Before(r, x, y)
  <2>1. i # 1
    BY <1>3
  <2>2. /\ i - 1 \in 1..Len(r) /\ j - 1 \in 1..Len(r) /\ i - 1 < j - 1
        /\ (i - 1) + 1 = i /\ (j - 1) + 1 = j
    BY <1>1, <1>3, <2>1
  <2>3. r[i - 1] = x /\ r[j - 1] = y
    BY <1>1, <1>3, <2>2
  <2> QED BY <2>2, <2>3 DEF Before
<1>4. ~Before(q, x, q[1])
  <2> SUFFICES ASSUME NEW i \in 1..Len(q), NEW j \in 1..Len(q), i < j, q[j] = q[1]
               PROVE  FALSE
    BY DEF Before
  <2>1. j # 1 /\ 1 \in 1..Len(q)
    BY <1>1
  <2> QED BY <2>1 DEF NoRepeat
<1> QED BY <1>1, <1>2, <1>3, <1>4 DEF Before, r

\* A slot that is appended comes after all others.
LEMMA AppendedOrder ==
    ASSUME NEW S, NEW q \in Seq(S), NEW e \in S, e \notin ToSet(q), NEW x, NEW y
    PROVE  Before(Append(q, e), x, y) <=> Before(q, x, y) \/ (x \in ToSet(q) /\ y = e)
<1> DEFINE r == Append(q, e)
<1>1. /\ Len(q) \in Nat /\ Len(r) = Len(q) + 1 /\ r[Len(q) + 1] = e
      /\ \A i \in 1..Len(q) : r[i] = q[i]
  BY LenProperties, AppendProperties
<1> HIDE DEF r
<1>2. \A z : z \in ToSet(q) <=> \E i \in 1..Len(q) : q[i] = z
  BY ToSetDef
<1>3. ASSUME NEW i \in 1..Len(r), NEW j \in 1..Len(r), i < j, r[i] = x, r[j] = y
      PROVE  Before(q, x, y) \/ (x \in ToSet(q) /\ y = e)
  <2>1. i \in 1..Len(q) /\ q[i] = x
    BY <1>1, <1>3
  <2>2. CASE j = Len(q) + 1
    BY <1>1, <1>2, <1>3, <2>1, <2>2
  <2>3. CASE j # Len(q) + 1
    <3>1. j \in 1..Len(q) /\ q[j] = y
      BY <1>1, <1>3, <2>3
    <3> QED BY <1>3, <2>1, <3>1 DEF Before
  <2> QED BY <2>2, <2>3
<1>4. ASSUME Before(q, x, y) PROVE Before(r, x, y)
  <2>1. PICK i \in 1..Len(q), j \in 1..Len(q) : i < j /\ q[i] = x /\ q[j] = y
    BY <1>4 DEF Before
  <2>2. i \in 1..Len(r) /\ j \in 1..Len(r) /\ r[i] = x /\ r[j] = y
    BY <1>1, <2>1
  <2> QED BY <2>1, <2>2 DEF Before
<1>5. ASSUME x \in ToSet(q), y = e PROVE Before(r, x, y)
  <2>1. PICK i \in 1..Len(q) : q[i] = x
    BY <1>2, <1>5
  <2>2. /\ i \in 1..Len(r) /\ Len(q) + 1 \in 1..Len(r) /\ i < Len(q) + 1
        /\ r[i] = x /\ r[Len(q) + 1] = y
    BY <1>1, <1>5, <2>1
  <2> QED BY <2>2 DEF Before
<1> QED BY <1>3, <1>4, <1>5 DEF Before, r

-----------------------------------------------------------------------------
(* Holders and tags.                                                       *)

\* A client that joins, or leaves, the holders changes their number by one.
LEMMA HoldersCount ==
    ASSUME TypeOK, NEW c \in Chunk
    PROVE  /\ Cardinality(holders[c]) \in Nat
           /\ Cardinality(holders[c]) = 0 <=> holders[c] = {}
           /\ \A k \in Client \ holders[c] :
                 Cardinality(holders[c] \cup {k}) = Cardinality(holders[c]) + 1
           /\ \A k \in holders[c] :
                 Cardinality(holders[c] \ {k}) = Cardinality(holders[c]) - 1
<1>1. IsFiniteSet(Client) /\ holders[c] \subseteq Client
  BY PoolAssumption DEF TypeOK
<1>2. IsFiniteSet(holders[c])
  BY <1>1, FS_Subset
<1>3. \A k \in Client \ holders[c] :
        Cardinality(holders[c] \cup {k}) = Cardinality(holders[c]) + 1
  BY <1>2, FS_AddElement
<1>4. \A k \in holders[c] : Cardinality(holders[c] \ {k}) = Cardinality(holders[c]) - 1
  BY <1>2, FS_RemoveElement
<1>5. Cardinality(holders[c]) = 0 <=> holders[c] = {}
  BY <1>2, FS_EmptySet
<1> QED BY <1>2, <1>3, <1>4, <1>5, FS_CardinalityType

\* Slot numbers are integers, and none of them is NoSlot.
LEMMA SlotType == NoSlot \notin Slot /\ Slot \subseteq Int
BY PoolAssumption DEF Slot

\* Two chunks never share a slot.
LEMMA SlotsApart ==
    ASSUME TypeOK, TagIndex, NEW c \in Chunk, NEW d \in Chunk,
           tagSlot[c] # NoSlot, tagSlot[d] = tagSlot[c]
    PROVE  c = d
BY DEF TypeOK, TagIndex

\* A chunk some client holds is leased, in an open pool.
LEMMA HeldIsLeased ==
    ASSUME IInv, NEW c \in Chunk, holders[c] # {}
    PROVE  Leased(c) /\ ~closed
<1>1. Cardinality(holders[c]) \in Nat \ {0}
  BY HoldersCount DEF IInv
<1>2. CASE c \in Large
  BY <1>1, <1>2 DEF IInv, LeasesConserved, LeasedIsTagged, Leased
<1>3. CASE c \notin Large
  <2>1. tagSlot[c] \in Slot /\ leases[tagSlot[c]] > 0 /\ leases[tagSlot[c]] # 0
    BY <1>1, <1>3, SlotType DEF IInv, LeasesConserved, TypeOK
  <2>2. ~closed
    BY <2>1 DEF IInv, LeasedIsTagged
  <2> QED BY <2>1, <2>2, <1>3, SlotType DEF Leased
<1> QED BY <1>2, <1>3

-----------------------------------------------------------------------------
(* The invariant is inductive: one lemma per way a call changes the pool.  *)

\* The empty pool satisfies the invariant.
LEMMA InitIInv == Init => IInv
<1> SUFFICES ASSUME Init PROVE IInv
  OBVIOUS
<1> USE PoolAssumption
<1>0. 0 \in Slot /\ Slot \subseteq Nat /\ NoSlot \notin Slot
  BY DEF Slot
<1>1. /\ free \in Seq(Slot) /\ Len(free) = NBuffer
      /\ \A i \in 1..NBuffer : free[i] = i - 1
  BY DEF Init, Slot
<1>2. TypeOK
  BY <1>1 DEF Init, TypeOK
<1>3. TagIndex
  BY DEF Init, TagIndex
<1>4. FreeIffUnleased
  <2>1. \A s \in Slot : s \in FreeSlots
    <3> TAKE s \in Slot
    <3>1. s + 1 \in 1..Len(free) /\ free[s + 1] = s
      BY <1>1 DEF Slot
    <3> QED BY <3>1, <1>1, ToSetDef DEF FreeSlots
  <2>2. FreeSlots \subseteq Slot
    BY <1>1, ToSetDef DEF FreeSlots
  <2>3. \A i, j \in 1..Len(free) : free[i] = free[j] => i = j
    BY <1>1
  <2>4. \A s \in Slot : leases[s] = 0
    BY DEF Init
  <2> QED BY <2>1, <2>2, <2>3, <2>4 DEF FreeIffUnleased
<1>5. LeasesConserved
  BY FS_EmptySet DEF Init, LeasesConserved
<1>6. LeasedIsTagged
  BY DEF Init, LeasedIsTagged
<1> QED BY <1>2, <1>3, <1>4, <1>5, <1>6 DEF IInv

\* One more lease on an oversize chunk.
LEMMA LargeLeased ==
    ASSUME IInv, NEW k \in Client, NEW c \in Chunk, k \notin holders[c],
           ~closed, LeaseLarge(c), closed' = closed,
           holders' = [holders EXCEPT ![c] = @ \cup {k}]
    PROVE  IInv'
<1>1. TypeOK'
  BY DEF IInv, TypeOK, LeaseLarge
<1>2. TagIndex' /\ FreeIffUnleased'
  BY DEF IInv, TagIndex, FreeIffUnleased, FreeSlots, LeaseLarge
<1>3. LeasesConserved'
  <2> SUFFICES ASSUME NEW d \in Chunk
               PROVE  Cardinality(holders'[d]) =
                         IF d \in Large THEN largeLeases'[d]
                         ELSE IF tagSlot'[d] = NoSlot THEN 0 ELSE leases'[tagSlot'[d]]
    BY DEF LeasesConserved
  <2>1. CASE d = c
    <3>1. Cardinality(holders'[d]) = Cardinality(holders[c]) + 1
      BY <2>1, HoldersCount DEF IInv, TypeOK
    <3>2. largeLeases'[d] = largeLeases[c] + 1
      BY <2>1 DEF LeaseLarge, IInv, TypeOK
    <3> QED BY <3>1, <3>2, <2>1 DEF LeaseLarge, IInv, LeasesConserved
  <2>2. CASE d # c
    BY <2>2 DEF LeaseLarge, IInv, TypeOK, LeasesConserved
  <2> QED BY <2>1, <2>2
<1>4. LeasedIsTagged'
  BY DEF IInv, LeasedIsTagged, LeaseLarge
<1> QED BY <1>1, <1>2, <1>3, <1>4 DEF IInv

\* A hit takes the slot off the free list and adds a lease to it alone.
LEMMA HitLeased ==
    ASSUME IInv, NEW k \in Client, NEW c \in Chunk, k \notin holders[c],
           ~closed, LeaseHit(c), closed' = closed,
           holders' = [holders EXCEPT ![c] = @ \cup {k}]
    PROVE  IInv'
<1> DEFINE s == tagSlot[c]
<1>0. s \in Slot /\ c \notin Large /\ leases[s] \in Nat
  BY DEF LeaseHit, IInv, TypeOK
<1>1. /\ free' \in Seq(Slot) /\ NoRepeat(free')
      /\ ToSet(free') = ToSet(free) \ {s}
  <2>1. free \in Seq(Slot) /\ NoRepeat(free)
    BY DEF IInv, TypeOK, FreeIffUnleased, NoRepeat
  <2>2. ASSUME NEW i \in 1..Len(free), free[i] = s, free' = RemoveAt(free, i)
        PROVE  /\ free' \in Seq(Slot) /\ NoRepeat(free')
               /\ ToSet(free') = ToSet(free) \ {s}
    BY <2>1, <2>2, RemoveAtFacts
  <2>3. CASE s \notin FreeSlots /\ UNCHANGED free
    BY <2>1, <2>3 DEF FreeSlots
  <2> QED BY <2>2, <2>3 DEF LeaseHit, TakeOffFree
<1>2. TypeOK'
  BY <1>0, <1>1 DEF IInv, TypeOK, LeaseHit
<1>3. TagIndex'
  BY DEF IInv, TagIndex, LeaseHit
<1>4. FreeIffUnleased'
  <2>1. \A t \in Slot : leases'[t] = IF t = s THEN leases[s] + 1 ELSE leases[t]
    BY <1>0 DEF LeaseHit, IInv, TypeOK
  <2>2. FreeSlots' = FreeSlots \ {s} /\ FreeSlots \subseteq Slot
    BY <1>1, ToSetDef DEF FreeSlots, IInv, TypeOK
  <2>3. \A t \in FreeSlots' : leases'[t] = 0
    BY <2>1, <2>2 DEF IInv, FreeIffUnleased
  <2>4. \A t \in Slot : leases'[t] = 0 => t \in FreeSlots'
    BY <2>1, <2>2, <1>0 DEF IInv, FreeIffUnleased
  <2> QED BY <1>1, <2>3, <2>4 DEF FreeIffUnleased, NoRepeat
<1>5. LeasesConserved'
  <2> SUFFICES ASSUME NEW d \in Chunk
               PROVE  Cardinality(holders'[d]) =
                         IF d \in Large THEN largeLeases'[d]
                         ELSE IF tagSlot'[d] = NoSlot THEN 0 ELSE leases'[tagSlot'[d]]
    BY DEF LeasesConserved
  <2>1. CASE d = c
    <3>1. Cardinality(holders'[d]) = Cardinality(holders[c]) + 1
      BY <2>1, HoldersCount DEF IInv, TypeOK
    <3>2. leases'[s] = leases[s] + 1 /\ tagSlot' = tagSlot
      BY <1>0 DEF LeaseHit, IInv, TypeOK
    <3>3. Cardinality(holders[c]) = leases[s]
      BY <1>0, SlotType DEF IInv, LeasesConserved
    <3> QED BY <3>1, <3>2, <3>3, <2>1, <1>0, SlotType
  <2>2. CASE d # c
    <3>1. holders'[d] = holders[d] /\ tagSlot'[d] = tagSlot[d]
      BY <2>2 DEF LeaseHit, IInv, TypeOK
    <3>2. tagSlot[d] # NoSlot => leases'[tagSlot[d]] = leases[tagSlot[d]]
      BY <2>2, <1>0, SlotType, SlotsApart DEF LeaseHit, IInv, TypeOK
    <3> QED BY <3>1, <3>2 DEF LeaseHit, IInv, LeasesConserved
  <2> QED BY <2>1, <2>2
<1>6. LeasedIsTagged'
  <2>1. tags[s] = c
    BY <1>0, SlotType DEF IInv, TagIndex
  <2>2. \A t \in Slot \ {s} : leases'[t] = leases[t]
    BY <1>0 DEF LeaseHit, IInv, TypeOK
  <2> QED BY <2>1, <2>2, <1>0 DEF LeaseHit, IInv, LeasedIsTagged
<1> QED BY <1>2, <1>3, <1>4, <1>5, <1>6 DEF IInv

\* A miss retags the longest-free slot: the chunk it held was nobody's.
LEMMA MissLeased ==
    ASSUME IInv, NEW k \in Client, NEW c \in Chunk, k \notin holders[c],
           ~closed, LeaseMiss(c), closed' = closed,
           holders' = [holders EXCEPT ![c] = @ \cup {k}]
    PROVE  IInv'
<1> DEFINE s == Head(free)
<1>0. free \in Seq(Slot) /\ NoRepeat(free) /\ free # <<>>
  BY DEF IInv, TypeOK, FreeIffUnleased, NoRepeat, LeaseMiss
<1>1. /\ free' \in Seq(Slot) /\ NoRepeat(free')
      /\ FreeSlots' = FreeSlots \ {s} /\ s \in FreeSlots /\ FreeSlots \subseteq Slot
  BY <1>0, TailFacts, ToSetDef DEF LeaseMiss, FreeSlots
<1>2. s \in Slot /\ leases[s] = 0 /\ c \notin Large /\ tagSlot[c] = NoSlot
  BY <1>1 DEF IInv, FreeIffUnleased, LeaseMiss
<1>3. \A t \in Slot : /\ tags'[t] = IF t = s THEN c ELSE tags[t]
                      /\ leases'[t] = IF t = s THEN 1 ELSE leases[t]
  BY <1>2 DEF LeaseMiss, IInv, TypeOK
<1>4. \A d \in Chunk : tagSlot'[d] = IF d = c THEN s
                                     ELSE IF d = tags[s] THEN NoSlot ELSE tagSlot[d]
  BY DEF LeaseMiss
<1>5. TypeOK'
  BY <1>1, <1>2 DEF IInv, TypeOK, LeaseMiss
<1> HIDE DEF s
<1>6. TagIndex'
  <2>1. ASSUME NEW d \in Chunk, tagSlot'[d] # NoSlot PROVE tags'[tagSlot'[d]] = d
    <3>1. CASE d = c BY <3>1, <1>2, <1>3, <1>4
    <3>2. CASE d # c
      <4>1. d # tags[s] /\ tagSlot'[d] = tagSlot[d] /\ tagSlot[d] \in Slot
        BY <2>1, <3>2, <1>4 DEF IInv, TypeOK
      <4>2. tags[tagSlot[d]] = d
        BY <4>1, SlotType DEF IInv, TagIndex
      <4> QED BY <4>1, <4>2, <1>3
    <3> QED BY <3>1, <3>2
  <2>2. ASSUME NEW t \in Slot, tags'[t] # NoChunk PROVE tagSlot'[tags'[t]] = t
    <3>1. CASE t = s BY <3>1, <1>2, <1>3, <1>4
    <3>2. CASE t # s
      <4>1. tags'[t] = tags[t] /\ tagSlot[tags[t]] = t /\ tags[t] \in Chunk
        BY <2>2, <3>2, <1>3 DEF IInv, TagIndex, TypeOK
      <4>2. tags[t] # c
        BY <4>1, <1>2, SlotType
      <4>3. tags[t] # tags[s]
        BY <4>1, <1>2, <3>2, PoolAssumption DEF IInv, TagIndex
      <4> QED BY <4>1, <4>2, <4>3, <1>4
    <3> QED BY <3>1, <3>2
  <2> QED BY <2>1, <2>2 DEF TagIndex
<1>7. FreeIffUnleased'
  <2>1. \A t \in FreeSlots' : leases'[t] = 0
    BY <1>1, <1>3 DEF IInv, FreeIffUnleased
  <2>2. \A t \in Slot : leases'[t] = 0 => t \in FreeSlots'
    BY <1>1, <1>3 DEF IInv, FreeIffUnleased
  <2> QED BY <1>1, <2>1, <2>2 DEF FreeIffUnleased, NoRepeat
<1>8. LeasesConserved'
  <2> SUFFICES ASSUME NEW d \in Chunk
               PROVE  Cardinality(holders'[d]) =
                         IF d \in Large THEN largeLeases'[d]
                         ELSE IF tagSlot'[d] = NoSlot THEN 0 ELSE leases'[tagSlot'[d]]
    BY DEF LeasesConserved
  <2>1. CASE d = c
    <3>1. Cardinality(holders'[d]) = Cardinality(holders[c]) + 1
      BY <2>1, HoldersCount DEF IInv, TypeOK
    <3>2. Cardinality(holders[c]) = 0
      BY <1>2 DEF IInv, LeasesConserved
    <3>3. tagSlot'[d] = s /\ leases'[s] = 1
      BY <2>1, <1>2, <1>3, <1>4
    <3> QED BY <3>1, <3>2, <3>3, <2>1, <1>2, SlotType
  <2>2. CASE d # c
    <3>1. holders'[d] = holders[d]
      BY <2>2 DEF IInv, TypeOK
    <3>2. CASE d \in Large
      BY <3>1, <3>2 DEF LeaseMiss, IInv, LeasesConserved
    <3>3. CASE d \notin Large /\ d = tags[s]
      <4>1. tagSlot[d] = s /\ tagSlot'[d] = NoSlot
        BY <3>3, <2>2, <1>2, <1>4, PoolAssumption DEF IInv, TagIndex
      <4> QED BY <4>1, <3>1, <3>3, <1>2, SlotType DEF IInv, LeasesConserved
    <3>4. CASE d \notin Large /\ d # tags[s]
      <4>1. tagSlot'[d] = tagSlot[d]
        BY <3>4, <2>2, <1>4
      <4>2. tagSlot[d] # NoSlot => tagSlot[d] # s /\ tagSlot[d] \in Slot
        BY <3>4 DEF IInv, TagIndex, TypeOK
      <4> QED BY <4>1, <4>2, <3>1, <3>4, <1>3 DEF IInv, LeasesConserved
    <3> QED BY <3>2, <3>3, <3>4
  <2> QED BY <2>1, <2>2
<1>9. LeasedIsTagged'
  <2>1. \A t \in Slot : leases'[t] > 0 => tags'[t] \in Chunk \ Large
    BY <1>2, <1>3 DEF IInv, LeasedIsTagged
  <2> QED BY <2>1 DEF LeasedIsTagged
<1> QED BY <1>5, <1>6, <1>7, <1>8, <1>9 DEF IInv

\* Dropping a lease of an oversize chunk.
LEMMA LargeReleased ==
    ASSUME IInv, NEW c \in Chunk, c \in Large, NEW k \in holders[c],
           ~closed, ReleaseLarge(c), closed' = closed,
           holders' = [holders EXCEPT ![c] = @ \ {k}]
    PROVE  IInv'
<1>0. largeLeases[c] \in Nat /\ largeLeases[c] > 0
  BY DEF ReleaseLarge, IInv, TypeOK
<1>1. TypeOK'
  BY <1>0 DEF IInv, TypeOK, ReleaseLarge
<1>2. TagIndex' /\ FreeIffUnleased'
  BY DEF IInv, TagIndex, FreeIffUnleased, FreeSlots, ReleaseLarge
<1>3. LeasesConserved'
  <2> SUFFICES ASSUME NEW d \in Chunk
               PROVE  Cardinality(holders'[d]) =
                         IF d \in Large THEN largeLeases'[d]
                         ELSE IF tagSlot'[d] = NoSlot THEN 0 ELSE leases'[tagSlot'[d]]
    BY DEF LeasesConserved
  <2>1. CASE d = c
    <3>1. Cardinality(holders'[d]) = Cardinality(holders[c]) - 1
      BY <2>1, HoldersCount DEF IInv, TypeOK
    <3>2. largeLeases'[d] = largeLeases[c] - 1
      BY <2>1 DEF ReleaseLarge, IInv, TypeOK
    <3> QED BY <3>1, <3>2, <2>1 DEF ReleaseLarge, IInv, LeasesConserved
  <2>2. CASE d # c
    BY <2>2 DEF ReleaseLarge, IInv, TypeOK, LeasesConserved
  <2> QED BY <2>1, <2>2
<1>4. LeasedIsTagged'
  BY DEF IInv, LeasedIsTagged, ReleaseLarge
<1> QED BY <1>1, <1>2, <1>3, <1>4 DEF IInv

\* Dropping a lease of a slot; the last one frees it and keeps its tag.
LEMMA SlotReleased ==
    ASSUME IInv, NEW c \in Chunk, c \notin Large, NEW k \in holders[c],
           ~closed, ReleaseSlot(c), closed' = closed,
           holders' = [holders EXCEPT ![c] = @ \ {k}]
    PROVE  IInv'
<1> DEFINE s == tagSlot[c]
<1>0. s \in Slot /\ leases[s] \in Nat \ {0} /\ tags[s] = c
  <2>1. s # NoSlot /\ leases[s] > 0
    BY DEF ReleaseSlot
  <2>2. s \in Slot
    BY <2>1 DEF IInv, TypeOK
  <2>3. leases[s] \in Nat
    BY <2>2 DEF IInv, TypeOK
  <2>4. tags[s] = c
    BY <2>1 DEF IInv, TagIndex
  <2> QED BY <2>1, <2>2, <2>3, <2>4
<1>1. \A t \in Slot : leases'[t] = IF t = s THEN leases[s] - 1 ELSE leases[t]
  BY <1>0 DEF ReleaseSlot, IInv, TypeOK
<1>2. s \notin FreeSlots /\ FreeSlots \subseteq Slot
  BY <1>0, ToSetDef DEF FreeSlots, IInv, FreeIffUnleased, TypeOK
<1>3. /\ free' \in Seq(Slot) /\ NoRepeat(free')
      /\ FreeSlots' = IF leases[s] = 1 THEN FreeSlots \cup {s} ELSE FreeSlots
  <2>1. free \in Seq(Slot) /\ NoRepeat(free)
    BY DEF IInv, TypeOK, FreeIffUnleased, NoRepeat
  <2>2. CASE leases[s] = 1
    <3>1. free' = Append(free, s)
      BY <2>2 DEF ReleaseSlot
    <3> QED BY <3>1, <2>1, <2>2, <1>0, <1>2, AppendFacts DEF FreeSlots
  <2>3. CASE leases[s] # 1
    <3>1. free' = free
      BY <2>3 DEF ReleaseSlot
    <3> QED BY <3>1, <2>1, <2>3 DEF FreeSlots
  <2> QED BY <2>2, <2>3
<1>4. TypeOK'
  BY <1>0, <1>3 DEF IInv, TypeOK, ReleaseSlot
<1>5. TagIndex'
  BY DEF IInv, TagIndex, ReleaseSlot
<1> HIDE DEF s
<1>6. FreeIffUnleased'
  <2>1. \A t \in FreeSlots' : leases'[t] = 0
    BY <1>0, <1>1, <1>2, <1>3 DEF IInv, FreeIffUnleased
  <2>2. \A t \in Slot : leases'[t] = 0 => t \in FreeSlots'
    BY <1>0, <1>1, <1>2, <1>3 DEF IInv, FreeIffUnleased
  <2> QED BY <1>3, <2>1, <2>2 DEF FreeIffUnleased, NoRepeat
<1>7. LeasesConserved'
  <2> SUFFICES ASSUME NEW d \in Chunk
               PROVE  Cardinality(holders'[d]) =
                         IF d \in Large THEN largeLeases'[d]
                         ELSE IF tagSlot'[d] = NoSlot THEN 0 ELSE leases'[tagSlot'[d]]
    BY DEF LeasesConserved
  <2>0. tagSlot' = tagSlot /\ largeLeases' = largeLeases
    BY DEF ReleaseSlot
  <2>1. CASE d = c
    <3>1. Cardinality(holders'[d]) = Cardinality(holders[c]) - 1
      BY <2>1, HoldersCount DEF IInv, TypeOK
    <3>2. Cardinality(holders[c]) = leases[s]
      BY <1>0, SlotType DEF IInv, LeasesConserved, s
    <3> QED BY <3>1, <3>2, <2>0, <2>1, <1>0, <1>1, SlotType DEF s
  <2>2. CASE d # c
    <3>1. holders'[d] = holders[d]
      BY <2>2 DEF IInv, TypeOK
    <3>2. tagSlot[d] # NoSlot => leases'[tagSlot[d]] = leases[tagSlot[d]]
      BY <2>2, <1>0, <1>1, SlotType DEF IInv, TypeOK, TagIndex
    <3> QED BY <3>1, <3>2, <2>0 DEF IInv, LeasesConserved
  <2> QED BY <2>1, <2>2
<1>8. LeasedIsTagged'
  <2>1. ASSUME NEW t \in Slot, leases'[t] > 0 PROVE leases[t] > 0
    <3>1. CASE t = s BY <3>1, <1>0
    <3>2. CASE t # s BY <3>2, <1>1, <2>1
    <3> QED BY <3>1, <3>2
  <2> QED BY <2>1 DEF IInv, LeasedIsTagged, ReleaseSlot
<1> QED BY <1>4, <1>5, <1>6, <1>7, <1>8 DEF IInv

\* invalidate_tag: the untagged slot is unleased and keeps its place.
LEMMA TagInvalidated ==
    ASSUME IInv, NEW c \in Chunk, InvalidateTag(c), holders' = holders
    PROVE  IInv'
<1> DEFINE s == tagSlot[c]
<1>0. s \in Slot /\ leases[s] = 0 /\ tags[s] = c
  BY SlotType DEF InvalidateTag, IInv, TypeOK, TagIndex
<1>1. /\ \A t \in Slot : tags'[t] = IF t = s THEN NoChunk ELSE tags[t]
      /\ \A d \in Chunk : tagSlot'[d] = IF d = c THEN NoSlot ELSE tagSlot[d]
  BY <1>0 DEF InvalidateTag, IInv, TypeOK
<1>2. TypeOK'
  BY DEF IInv, TypeOK, InvalidateTag
<1>3. TagIndex'
  <2>1. ASSUME NEW d \in Chunk, tagSlot'[d] # NoSlot PROVE tags'[tagSlot'[d]] = d
    BY <2>1, <1>0, <1>1 DEF IInv, TypeOK, TagIndex
  <2>2. ASSUME NEW t \in Slot, tags'[t] # NoChunk PROVE tagSlot'[tags'[t]] = t
    BY <2>2, <1>0, <1>1 DEF IInv, TypeOK, TagIndex
  <2> QED BY <2>1, <2>2 DEF TagIndex
<1>4. FreeIffUnleased'
  BY DEF IInv, FreeIffUnleased, FreeSlots, InvalidateTag
<1>5. LeasesConserved'
  BY <1>0, <1>1, SlotType DEF IInv, LeasesConserved, InvalidateTag
<1>6. LeasedIsTagged'
  <2>1. \A t \in Slot : leases'[t] > 0 => tags'[t] \in Chunk \ Large
    BY <1>0, <1>1 DEF IInv, LeasedIsTagged, InvalidateTag
  <2> QED BY <2>1 DEF IInv, LeasedIsTagged, InvalidateTag
<1> QED BY <1>2, <1>3, <1>4, <1>5, <1>6 DEF IInv

\* close finds no lease, so no client loses one.
LEMMA PoolClosed ==
    ASSUME IInv, Close, holders' = holders
    PROVE  IInv'
<1>1. TypeOK'
  BY EmptySeq DEF IInv, TypeOK, Close
<1>2. TagIndex'
  BY DEF TagIndex, Close
<1>3. FreeIffUnleased'
  <2>1. free' \in Seq(Slot) /\ Len(free') = 0
    BY EmptySeq DEF Close
  <2>2. \A x : x \in ToSet(free') <=> \E i \in 1..Len(free') : free'[i] = x
    BY <2>1, ToSetDef
  <2>3. FreeSlots' = {}
    BY <2>1, <2>2 DEF FreeSlots
  <2> QED BY <2>1, <2>3 DEF FreeIffUnleased, Close
<1>4. LeasesConserved'
  BY DEF IInv, TypeOK, LeasesConserved, Close
<1>5. LeasedIsTagged'
  <2>1. /\ \A s \in Slot : leases'[s] = 0
        /\ \A c \in Large : largeLeases'[c] = 0
    BY DEF Close
  <2> QED BY <2>1 DEF LeasedIsTagged
<1> QED BY <1>1, <1>2, <1>3, <1>4, <1>5 DEF IInv

\* A client's release: of a lease it holds, or of a chunk nobody holds.
LEMMA ReleaseCases ==
    ASSUME IInv, NEW k \in Client, NEW c \in Chunk, ClientRelease(k, c)
    PROVE  \/ /\ k \in holders[c] /\ ~closed /\ closed' = closed
              /\ \/ c \in Large /\ ReleaseLarge(c)
                 \/ c \notin Large /\ ReleaseSlot(c)
              /\ holders' = [holders EXCEPT ![c] = @ \ {k}]
           \/ UNCHANGED vars
<1>1. CASE k \in holders[c]
  <2>1. Leased(c) /\ ~closed
    BY <1>1, HeldIsLeased
  <2> QED BY <1>1, <2>1 DEF ClientRelease, Release
<1>2. CASE holders[c] = {}
  <2>1. ~Leased(c)
    <3>1. Cardinality(holders[c]) = 0
      BY <1>2, FS_EmptySet
    <3>2. CASE c \in Large
      BY <3>1, <3>2 DEF IInv, LeasesConserved, Leased
    <3>3. CASE c \notin Large
      BY <3>1, <3>3 DEF IInv, LeasesConserved, Leased
    <3> QED BY <3>2, <3>3
  <2>2. UNCHANGED <<tags, tagSlot, free, leases, largeLeases, closed>>
    <3>1. ~(c \in Large /\ ReleaseLarge(c)) /\ ~(c \notin Large /\ ReleaseSlot(c))
      BY <2>1 DEF Leased, ReleaseLarge, ReleaseSlot
    <3> QED BY <3>1 DEF ClientRelease, Release
  <2>3. holders' = holders
    BY <1>2 DEF ClientRelease, IInv, TypeOK
  <2> QED BY <2>2, <2>3 DEF vars, pool
<1> QED BY <1>1, <1>2 DEF ClientRelease

\* A successful acquire, of any of the three kinds, preserves the invariant.
LEMMA LeaseAdded ==
    ASSUME IInv, NEW k \in Client, NEW c \in Chunk,
           ClientAcquire(k, c) \/ ClientProbe(k, c)
    PROVE  IInv'
<1>1. /\ k \notin holders[c] /\ ~closed /\ closed' = closed
      /\ holders' = [holders EXCEPT ![c] = @ \cup {k}]
      /\ LeaseLarge(c) \/ LeaseHit(c) \/ LeaseMiss(c)
  BY DEF ClientAcquire, ClientProbe, Acquire, AcquireIfResident
<1> QED BY <1>1, LargeLeased, HitLeased, MissLeased

\* Every step of the pool preserves the invariant.
LEMMA StepIInv == IInv /\ [Next]_vars => IInv'
<1> SUFFICES ASSUME IInv, [Next]_vars PROVE IInv'
  OBVIOUS
<1>1. ASSUME NEW k \in Client, NEW c \in Chunk, ClientAcquire(k, c) PROVE IInv'
  BY <1>1, LeaseAdded
<1>2. ASSUME NEW k \in Client, NEW c \in Chunk, ClientProbe(k, c) PROVE IInv'
  BY <1>2, LeaseAdded
<1>4. CASE UNCHANGED vars
  BY <1>4 DEF vars, pool, IInv, TypeOK, TagIndex, FreeIffUnleased, FreeSlots,
              LeasesConserved, LeasedIsTagged
<1>3. ASSUME NEW k \in Client, NEW c \in Chunk, ClientRelease(k, c) PROVE IInv'
  BY <1>3, <1>4, ReleaseCases, LargeReleased, SlotReleased
<1>5. ASSUME NEW c \in Chunk, Invalidate(c) PROVE IInv'
  BY <1>5, TagInvalidated DEF Invalidate
<1>6. CASE ClosePool
  BY <1>6, PoolClosed DEF ClosePool
<1> QED BY <1>1, <1>2, <1>3, <1>4, <1>5, <1>6 DEF Next

\* The pool's invariant: types, the two tag tables, the free list and the
\* lease counts stay consistent through every sequence of calls.
THEOREM PoolInvariant == Spec => []IInv
<1> QED BY InitIInv, StepIInv, PTL DEF Spec

\* The tag tables stay inverse of one another.
THEOREM TagIndexHolds == Spec => []TagIndex
<1>1. IInv => TagIndex BY DEF IInv
<1> QED BY <1>1, PoolInvariant, PTL

\* A slot is on the free list, once, exactly when no lease is on it.
THEOREM FreeIffUnleasedHolds == Spec => []FreeIffUnleased
<1>1. IInv => FreeIffUnleased BY DEF IInv
<1> QED BY <1>1, PoolInvariant, PTL

\* The lease count of a chunk is the number of clients that hold it.
THEOREM LeasesConservedHolds == Spec => []LeasesConserved
<1>1. IInv => LeasesConserved BY DEF IInv
<1> QED BY <1>1, PoolInvariant, PTL

\* acquire raises "exhausted" only when every slot is under a held chunk.
THEOREM ExhaustedOnlyWhenHeldHolds == Spec => []ExhaustedOnlyWhenHeld
<1>1. IInv => ExhaustedOnlyWhenHeld
  <2> SUFFICES ASSUME IInv, NEW c \in Chunk, AcquireRefused(c), ~closed, NEW s \in Slot
               PROVE  tags[s] # NoChunk /\ holders[tags[s]] # {}
    BY DEF ExhaustedOnlyWhenHeld
  <2>1. free = <<>>
    BY DEF AcquireRefused
  <2>2. FreeSlots = {}
    <3>1. free \in Seq(Slot) /\ Len(free) = 0
      BY <2>1, EmptySeq
    <3>2. \A x : x \in ToSet(free) <=> \E i \in 1..Len(free) : free[i] = x
      BY <3>1, ToSetDef
    <3> QED BY <3>1, <3>2 DEF FreeSlots
  <2>3. leases[s] \in Nat /\ leases[s] # 0
    BY <2>2 DEF IInv, FreeIffUnleased, TypeOK
  <2>4. tags[s] \in Chunk \ Large
    BY <2>3 DEF IInv, LeasedIsTagged
  <2>5. tags[s] # NoChunk /\ tagSlot[tags[s]] = s
    BY <2>4, PoolAssumption DEF IInv, TagIndex
  <2>6. Cardinality(holders[tags[s]]) # 0
    BY <2>3, <2>4, <2>5, SlotType DEF IInv, LeasesConserved
  <2>7. holders[tags[s]] # {}
    BY <2>6, FS_EmptySet
  <2> QED BY <2>5, <2>7
<1> QED BY <1>1, PoolInvariant, PTL

\* A chunk that stays held stays in its slot: no step retags a held slot.
THEOREM HeldStaysPutHolds == Spec => HeldStaysPut
<1> DEFINE Put == \A c \in Chunk \ Large :
                     (holders[c] # {} /\ holders'[c] # {}) => tagSlot'[c] = tagSlot[c]
<1>1. IInv /\ [Next]_vars => [Put]_vars
  <2> SUFFICES ASSUME IInv, Next, NEW d \in Chunk \ Large, holders[d] # {}
               PROVE  tagSlot'[d] = tagSlot[d]
    OBVIOUS
  <2>0. Leased(d) /\ ~closed /\ tagSlot[d] # NoSlot
    BY HeldIsLeased DEF Leased
  <2>1. ASSUME NEW k \in Client, NEW c \in Chunk,
               ClientAcquire(k, c) \/ ClientProbe(k, c)
        PROVE  tagSlot'[d] = tagSlot[d]
    <3>1. CASE LeaseLarge(c) \/ LeaseHit(c)
      BY <3>1 DEF LeaseLarge, LeaseHit
    <3>2. CASE LeaseMiss(c)
      <4>1. free \in Seq(Slot) /\ NoRepeat(free) /\ free # <<>>
        BY <3>2 DEF IInv, TypeOK, FreeIffUnleased, NoRepeat, LeaseMiss
      <4>2. leases[Head(free)] = 0
        BY <4>1, TailFacts DEF IInv, FreeIffUnleased, FreeSlots
      <4>3. d # tags[Head(free)]
        <5>1. leases[tagSlot[d]] # 0
          BY <2>0 DEF Leased
        <5>2. tagSlot[d] # Head(free)
          BY <4>2, <5>1
        <5>3. Head(free) \in Slot
          BY <4>1, HeadTailProperties
        <5> QED BY <5>2, <5>3, PoolAssumption DEF IInv, TagIndex
      <4>4. d # c
        BY <2>0, <3>2 DEF LeaseMiss
      <4> QED BY <3>2, <4>3, <4>4 DEF LeaseMiss
    <3> QED BY <2>1, <3>1, <3>2
              DEF ClientAcquire, ClientProbe, Acquire, AcquireIfResident
  <2>2. ASSUME NEW k \in Client, NEW c \in Chunk, ClientRelease(k, c)
        PROVE  tagSlot'[d] = tagSlot[d]
    BY <2>2 DEF ClientRelease, Release, ReleaseLarge, ReleaseSlot
  <2>3. ASSUME NEW c \in Chunk, Invalidate(c)
        PROVE  tagSlot'[d] = tagSlot[d]
    <3>1. c # d
      BY <2>0, <2>3 DEF Leased, Invalidate, InvalidateTag
    <3> QED BY <2>3, <3>1 DEF Invalidate, InvalidateTag, IInv, TypeOK
  <2>4. ~ClosePool
    <3>1. tagSlot[d] \in Slot /\ leases[tagSlot[d]] # 0
      BY <2>0 DEF Leased, IInv, TypeOK
    <3> QED BY <3>1 DEF ClosePool, Close
  <2> QED BY <2>1, <2>2, <2>3, <2>4 DEF Next
<1> QED BY <1>1, PoolInvariant, PTL DEF Spec, HeldStaysPut

-----------------------------------------------------------------------------
(* The pool implements a cache of NBuffer chunks.                          *)

Older == {p \in CachedChunk \X CachedChunk : Before(free, tagSlot[p[1]], tagSlot[p[2]])}
LeaseOf == [c \in Chunk |-> Cardinality(holders[c])]

\* The small chunks that have a slot are at most as many as the slots.
LEMMA CacheFits ==
    ASSUME NEW S, NEW slotOf \in [S -> Slot],
           \A a, b \in S : slotOf[a] = slotOf[b] => a = b
    PROVE  IsFiniteSet(S) /\ Cardinality(S) <= NBuffer
<1>1. slotOf \in Injection(S, Slot)
  BY DEF Injection, IsInjective
<1>2. IsFiniteSet(Slot) /\ Cardinality(Slot) = NBuffer
  <2>1. 0 \in Int /\ NBuffer - 1 \in Int /\ NBuffer \in Nat \ {0}
    BY PoolAssumption
  <2> QED BY <2>1, FS_Interval DEF Slot
<1> QED BY <1>1, <1>2, FS_Injection

\* The two copies of Cardinality, here and in the cache, are one function.
LEMMA SameCardinality == \A S : Promise!Cardinality(S) = Cardinality(S)
BY DEF Promise!Cardinality, Cardinality

\* Adding a lease, as the cache sees it.
LEMMA LeaseOfAdded ==
    ASSUME TypeOK, NEW k \in Client, NEW c \in Chunk, k \notin holders[c],
           holders' = [holders EXCEPT ![c] = @ \cup {k}]
    PROVE  LeaseOf' = [LeaseOf EXCEPT ![c] = @ + 1]
<1>1. Cardinality(holders'[c]) = Cardinality(holders[c]) + 1
  BY HoldersCount DEF TypeOK
<1>2. \A d \in Chunk \ {c} : Cardinality(holders'[d]) = Cardinality(holders[d])
  BY DEF TypeOK
<1>3. LeaseOf' = [d \in Chunk |-> IF d = c THEN LeaseOf[c] + 1 ELSE LeaseOf[d]]
  BY <1>1, <1>2 DEF LeaseOf
<1> QED BY <1>3 DEF LeaseOf

\* Dropping a lease, as the cache sees it.
LEMMA LeaseOfDropped ==
    ASSUME TypeOK, NEW c \in Chunk, NEW k \in holders[c],
           holders' = [holders EXCEPT ![c] = @ \ {k}]
    PROVE  LeaseOf[c] > 0 /\ LeaseOf' = [LeaseOf EXCEPT ![c] = @ - 1]
<1>1. /\ Cardinality(holders[c]) \in Nat /\ Cardinality(holders[c]) # 0
      /\ Cardinality(holders'[c]) = Cardinality(holders[c]) - 1
  BY HoldersCount DEF TypeOK
<1>2. \A d \in Chunk \ {c} : Cardinality(holders'[d]) = Cardinality(holders[d])
  BY DEF TypeOK
<1>3. LeaseOf' = [d \in Chunk |-> IF d = c THEN LeaseOf[c] - 1 ELSE LeaseOf[d]]
  BY <1>1, <1>2 DEF LeaseOf
<1>4. LeaseOf[c] > 0
  BY <1>1 DEF LeaseOf
<1>5. LeaseOf' = [LeaseOf EXCEPT ![c] = @ - 1]
  BY <1>3 DEF LeaseOf
<1> QED BY <1>4, <1>5

\* A chunk is alone in its slot, which is on the free list when nobody leases it.
LEMMA CachedSlot ==
    ASSUME IInv, NEW d \in CachedChunk
    PROVE  /\ d \in Chunk \ Large /\ tagSlot[d] \in Slot /\ tags[tagSlot[d]] = d
           /\ \A e \in CachedChunk : tagSlot[e] = tagSlot[d] => e = d
           /\ LeaseOf[d] = leases[tagSlot[d]]
           /\ ~closed => (tagSlot[d] \in FreeSlots <=> LeaseOf[d] = 0)
<1>1. d \in Chunk \ Large /\ tagSlot[d] # NoSlot /\ tagSlot[d] \in Slot
  BY DEF CachedChunk, IInv, TypeOK
<1>2. LeaseOf[d] = leases[tagSlot[d]]
  BY <1>1 DEF LeaseOf, IInv, LeasesConserved
<1>3. tags[tagSlot[d]] = d /\ \A e \in CachedChunk : tagSlot[e] = tagSlot[d] => e = d
  BY <1>1 DEF CachedChunk, IInv, TagIndex
<1>4. ~closed => (tagSlot[d] \in FreeSlots <=> LeaseOf[d] = 0)
  BY <1>1, <1>2 DEF IInv, FreeIffUnleased
<1> QED BY <1>1, <1>2, <1>3, <1>4

\* The order of release once some chunks have left it.
Remaining(gone) == {p \in Older : p[1] \notin gone /\ p[2] \notin gone}

LEMMA RemainingIs == \A gone : Promise!Without(gone) = Remaining(gone)
BY DEF Promise!Without, Remaining, Older

\* A hit takes its chunk out of the order.
LEMMA OrderAfterHit ==
    ASSUME IInv, NEW c \in Chunk, LeaseHit(c)
    PROVE  Older' = Remaining({c})
<1> DEFINE s == tagSlot[c]
<1>1. /\ c \in CachedChunk /\ tagSlot' = tagSlot /\ CachedChunk' = CachedChunk
      /\ TakeOffFree(s)
  BY DEF LeaseHit, CachedChunk
<1>2. free \in Seq(Slot) /\ NoRepeat(free)
  BY DEF IInv, TypeOK, FreeIffUnleased, NoRepeat
<1>3. ASSUME NEW x, NEW y
      PROVE  Before(free', x, y) <=> Before(free, x, y) /\ x # s /\ y # s
  <2>1. ASSUME NEW i \in 1..Len(free), free[i] = s, free' = RemoveAt(free, i)
        PROVE  Before(free', x, y) <=> Before(free, x, y) /\ x # s /\ y # s
    <3>1. Before(RemoveAt(free, i), x, y) <=> Before(free, x, y) /\ x # free[i] /\ y # free[i]
      BY <1>2, RemovedOrder
    <3> QED BY <2>1, <3>1
  <2>2. ASSUME s \notin FreeSlots, free' = free
        PROVE  Before(free', x, y) <=> Before(free, x, y) /\ x # s /\ y # s
    <3>1. \A i \in 1..Len(free) : free[i] # s
      BY <1>2, <2>2, ToSetDef DEF FreeSlots
    <3> QED BY <2>2, <3>1 DEF Before
  <2> QED BY <1>1, <2>1, <2>2 DEF TakeOffFree
<1>4. \A d \in CachedChunk : tagSlot[d] = s <=> d = c
  BY <1>1, CachedSlot
<1> HIDE DEF s
<1>5. \A p \in CachedChunk \X CachedChunk :
        Before(free', tagSlot[p[1]], tagSlot[p[2]]) <=>
            Before(free, tagSlot[p[1]], tagSlot[p[2]]) /\ p[1] # c /\ p[2] # c
  BY <1>3, <1>4
<1> QED BY <1>1, <1>5 DEF Older, Remaining

\* A miss drops the chunk that is before all others, if any.
LEMMA OrderAfterMiss ==
    ASSUME IInv, NEW c \in Chunk, LeaseMiss(c), NEW gone,
           gone = {v \in CachedChunk : v = tags[Head(free)]},
           CachedChunk' = (CachedChunk \ gone) \cup {c}
    PROVE  /\ Older' = Remaining(gone)
           /\ \A v \in gone, a \in CachedChunk : <<a, v>> \notin Older
<1> DEFINE s == Head(free)
<1>1. free \in Seq(Slot) /\ NoRepeat(free) /\ free # <<>> /\ free' = Tail(free)
  BY DEF IInv, TypeOK, FreeIffUnleased, NoRepeat, LeaseMiss
<1>2. \A x, y : /\ Before(free', x, y) <=> Before(free, x, y) /\ x # s
                /\ ~Before(free, x, s)
  BY <1>1, TailOrder
<1>3. \A d \in Chunk : tagSlot'[d] = IF d = c THEN s
                                     ELSE IF d = tags[s] THEN NoSlot ELSE tagSlot[d]
  BY DEF LeaseMiss
<1>4. \A v \in CachedChunk : tagSlot[v] = s <=> v \in gone
  <2>1. s \in Slot
    BY <1>1, HeadTailProperties
  <2>2. \A v \in gone : tagSlot[v] = s
    BY <2>1, PoolAssumption DEF CachedChunk, IInv, TagIndex
  <2>3. \A v \in CachedChunk : tagSlot[v] = s => v = tags[s]
    BY CachedSlot
  <2> QED BY <2>2, <2>3
<1>5. c \notin CachedChunk /\ CachedChunk \subseteq Chunk /\ gone \subseteq CachedChunk
  BY DEF LeaseMiss, CachedChunk
<1>6. \A d \in CachedChunk \ gone : tagSlot'[d] = tagSlot[d] /\ tagSlot[d] # s
  BY <1>3, <1>4, <1>5
<1>7. tagSlot'[c] = s
  BY <1>3
<1> HIDE DEF s
<1>8. ASSUME NEW p \in CachedChunk' \X CachedChunk',
             Before(free', tagSlot'[p[1]], tagSlot'[p[2]])
      PROVE  p \in Remaining(gone)
  <2>1. p[1] # c /\ p[2] # c
    BY <1>2, <1>7, <1>8
  <2>2. p[1] \in CachedChunk \ gone /\ p[2] \in CachedChunk \ gone
    BY <2>1
  <2>3. Before(free, tagSlot[p[1]], tagSlot[p[2]])
    BY <1>2, <1>6, <1>8, <2>2
  <2> QED BY <2>2, <2>3 DEF Remaining, Older
<1>9. ASSUME NEW p \in Remaining(gone)
      PROVE  p \in CachedChunk' \X CachedChunk' /\ Before(free', tagSlot'[p[1]], tagSlot'[p[2]])
  <2>1. /\ p \in CachedChunk \X CachedChunk /\ p[1] \notin gone /\ p[2] \notin gone
        /\ Before(free, tagSlot[p[1]], tagSlot[p[2]])
    BY DEF Remaining, Older
  <2>2. p[1] \in CachedChunk \ gone /\ p[2] \in CachedChunk \ gone
    BY <2>1
  <2>3. Before(free', tagSlot'[p[1]], tagSlot'[p[2]])
    BY <1>2, <1>6, <2>1, <2>2
  <2> QED BY <2>1, <2>2, <2>3
<1>10. Older' = Remaining(gone)
  BY <1>8, <1>9 DEF Older
<1>11. \A v \in gone, a \in CachedChunk : <<a, v>> \notin Older
  BY <1>2, <1>4, <1>5 DEF Older
<1> QED BY <1>10, <1>11

\* The last release puts its chunk after all the unleased ones.
LEMMA OrderAfterRelease ==
    ASSUME IInv, NEW c \in Chunk \ Large, ReleaseSlot(c), ~closed
    PROVE  Older' = IF LeaseOf[c] = 1
                      THEN Older \cup ({d \in CachedChunk : LeaseOf[d] = 0} \X {c}) ELSE Older
<1> DEFINE s == tagSlot[c]
           idle == {d \in CachedChunk : LeaseOf[d] = 0}
<1>1. c \in CachedChunk /\ tagSlot' = tagSlot /\ CachedChunk' = CachedChunk
  BY DEF ReleaseSlot, CachedChunk
<1>2. s \in Slot /\ LeaseOf[c] = leases[s] /\ leases[s] > 0 /\ s \notin FreeSlots
  BY <1>1, CachedSlot DEF ReleaseSlot, IInv, FreeIffUnleased
<1>3. free \in Seq(Slot)
  BY DEF IInv, TypeOK
<1>4. CASE LeaseOf[c] = 1
  <2>1. free' = Append(free, s)
    BY <1>2, <1>4 DEF ReleaseSlot
  <2>2. \A x, y : Before(free', x, y) <=> Before(free, x, y) \/ (x \in FreeSlots /\ y = s)
    BY <1>2, <1>3, <2>1, AppendedOrder DEF FreeSlots
  <2>3. \A d \in CachedChunk : /\ tagSlot[d] = s <=> d = c
                               /\ tagSlot[d] \in FreeSlots <=> d \in idle
    BY <1>1, CachedSlot
  <2> HIDE DEF s, idle
  <2>4. \A p \in CachedChunk \X CachedChunk :
          Before(free', tagSlot[p[1]], tagSlot[p[2]]) <=>
              Before(free, tagSlot[p[1]], tagSlot[p[2]]) \/ (p[1] \in idle /\ p[2] = c)
    BY <2>2, <2>3
  <2>5. idle \X {c} \subseteq CachedChunk \X CachedChunk
    BY <1>1 DEF idle
  <2>6. Older' = Older \cup (idle \X {c})
    BY <1>1, <2>4, <2>5 DEF Older
  <2> QED BY <1>4, <2>6 DEF idle
<1>5. CASE LeaseOf[c] # 1
  <2>1. free' = free
    BY <1>2, <1>5 DEF ReleaseSlot
  <2> QED BY <1>1, <1>5, <2>1 DEF Older
<1> QED BY <1>4, <1>5

\* An invalidated chunk leaves the order; its empty place says nothing of others.
LEMMA OrderAfterForget ==
    ASSUME IInv, NEW c \in Chunk, free' = free, tagSlot' = [tagSlot EXCEPT ![c] = NoSlot]
    PROVE  Older' = Remaining({c})
<1>1. CachedChunk' = CachedChunk \ {c} /\ \A d \in CachedChunk' : tagSlot'[d] = tagSlot[d]
  BY DEF CachedChunk, IInv, TypeOK
<1>2. Older' = {p \in CachedChunk' \X CachedChunk' : Before(free, tagSlot[p[1]], tagSlot[p[2]])}
  BY <1>1 DEF Older
<1> QED BY <1>1, <1>2 DEF Older, Remaining

\* An acquire is a Hit or a Miss of the cache.
LEMMA AcquireImplements ==
    ASSUME IInv, IInv', NEW k \in Client, NEW c \in Chunk,
           ClientAcquire(k, c) \/ ClientProbe(k, c)
    PROVE  Promise!Hit(c) \/ Promise!Miss(c)
<1>0. /\ k \notin holders[c] /\ ~closed /\ closed' = closed
      /\ holders' = [holders EXCEPT ![c] = @ \cup {k}]
      /\ LeaseLarge(c) \/ LeaseHit(c) \/ LeaseMiss(c)
  BY DEF ClientAcquire, ClientProbe, Acquire, AcquireIfResident
<1>1. LeaseOf' = [LeaseOf EXCEPT ![c] = @ + 1]
  BY <1>0, LeaseOfAdded DEF IInv
<1>2. CASE LeaseLarge(c) \/ LeaseHit(c)
  <2>1. CachedChunk' = CachedChunk /\ (c \in CachedChunk \/ c \notin Chunk \ Large)
    BY <1>2 DEF LeaseLarge, LeaseHit, CachedChunk
  <2>2. Older' = Remaining({c})
    <3>1. CASE LeaseLarge(c)
      <4>1. free' = free /\ tagSlot' = tagSlot /\ c \notin CachedChunk
        BY <3>1 DEF LeaseLarge, CachedChunk
      <4> QED BY <2>1, <4>1 DEF Older, Remaining
    <3> QED BY <1>2, <3>1, OrderAfterHit
  <2>3. Older' = Promise!Without({c})
    BY <2>2, RemainingIs
  <2> QED BY <1>0, <1>1, <2>1, <2>3 DEF Promise!Hit, Promise!AddLease, Older, LeaseOf
<1>3. CASE LeaseMiss(c)
  <2> DEFINE s == Head(free)
             gone == {v \in CachedChunk : v = tags[s]}
  <2>1. free \in Seq(Slot) /\ NoRepeat(free) /\ free # <<>>
    BY <1>3 DEF IInv, TypeOK, FreeIffUnleased, NoRepeat, LeaseMiss
  <2>2. s \in Slot /\ leases[s] = 0
    BY <2>1, TailFacts, HeadTailProperties DEF IInv, FreeIffUnleased, FreeSlots
  <2>3. c \in (Chunk \ Large) \ CachedChunk
    BY <1>3 DEF LeaseMiss, CachedChunk
  <2>4. \A v \in gone : LeaseOf[v] = 0
    <3> SUFFICES ASSUME NEW v \in CachedChunk, v = tags[s] PROVE LeaseOf[v] = 0
      OBVIOUS
    <3>1. tagSlot[v] = s /\ v \in Chunk \ Large /\ tagSlot[v] # NoSlot
      BY <2>2, PoolAssumption DEF CachedChunk, IInv, TagIndex
    <3>2. Cardinality(holders[v]) = 0
      BY <3>1, <2>2 DEF IInv, LeasesConserved
    <3> QED BY <3>1, <3>2 DEF LeaseOf
  <2>5. Cardinality(gone) <= 1
    <3>1. CASE gone = {}
      BY <3>1, FS_EmptySet
    <3>2. CASE gone # {}
      <4>1. gone = {tags[s]}
        BY <3>2
      <4>2. Cardinality({tags[s]}) = 1
        BY FS_Singleton
      <4> QED BY <4>1, <4>2
    <3> QED BY <3>1, <3>2
  <2>6. CachedChunk' = (CachedChunk \ gone) \cup {c}
    <3>1. \A d \in Chunk : tagSlot'[d] = IF d = c THEN s
                                ELSE IF d = tags[s] THEN NoSlot ELSE tagSlot[d]
      BY <1>3 DEF LeaseMiss
    <3>2. s # NoSlot
      BY <2>2, SlotType
    <3> QED BY <2>3, <3>1, <3>2 DEF CachedChunk
  <2>7. Cardinality(CachedChunk') <= NBuffer
    <3> DEFINE f == [d \in CachedChunk' |-> tagSlot'[d]]
    <3>1. f \in [CachedChunk' -> Slot]
      BY DEF IInv, TypeOK, CachedChunk
    <3>2. \A a, b \in CachedChunk' : f[a] = f[b] => a = b
      BY DEF IInv, TagIndex, CachedChunk
    <3> HIDE DEF f
    <3> QED BY <3>1, <3>2, CacheFits
  <2>8. /\ Older' = Remaining(gone)
        /\ \A v \in gone, a \in CachedChunk : <<a, v>> \notin Older
    BY <1>3, <2>6, OrderAfterMiss
  <2>9. gone \subseteq CachedChunk
    OBVIOUS
  <2> HIDE DEF gone, s
  <2>10. gone \subseteq {v \in Promise!Idle : Promise!Oldest(v)}
    BY <2>4, <2>8, <2>9 DEF Promise!Idle, Promise!Oldest, Older, LeaseOf
  <2>11. Older' = Promise!Without(gone)
    BY <2>8, RemainingIs
  <2>12. \E g \in SUBSET {v \in Promise!Idle : Promise!Oldest(v)} :
            /\ Promise!Cardinality(g) <= 1
            /\ CachedChunk' = (CachedChunk \ g) \cup {c}
            /\ Older' = Promise!Without(g)
    BY <2>5, <2>6, <2>10, <2>11, SameCardinality
  <2>13. Promise!Cardinality(CachedChunk') <= NBuffer
    BY <2>7, SameCardinality
  <2> QED BY <1>0, <1>1, <2>3, <2>12, <2>13
            DEF Promise!Miss, Promise!AddLease, Older, LeaseOf
<1> QED BY <1>0, <1>2, <1>3

\* Every step of the pool is a step of the cache, or a stutter.
LEMMA StepImplements ==
    ASSUME IInv, IInv', [Next]_vars
    PROVE  [Promise!Next]_(Promise!vars)
<1>1. ASSUME UNCHANGED vars PROVE UNCHANGED Promise!vars
  BY <1>1 DEF vars, pool, Promise!vars, CachedChunk
<1>2. ASSUME NEW k \in Client, NEW c \in Chunk,
             ClientAcquire(k, c) \/ ClientProbe(k, c)
      PROVE  Promise!Next
  BY <1>2, AcquireImplements DEF Promise!Next
<1>3. ASSUME NEW k \in Client, NEW c \in Chunk, ClientRelease(k, c),
             ~UNCHANGED vars
      PROVE  Promise!Next
  <2>1. /\ k \in holders[c] /\ closed' = closed
        /\ (c \in Large /\ ReleaseLarge(c)) \/ (c \notin Large /\ ReleaseSlot(c))
        /\ holders' = [holders EXCEPT ![c] = @ \ {k}] /\ ~closed
    BY <1>3, ReleaseCases
  <2>2. LeaseOf[c] > 0 /\ LeaseOf' = [LeaseOf EXCEPT ![c] = @ - 1]
    BY <2>1, LeaseOfDropped DEF IInv
  <2>3. CachedChunk' = CachedChunk
    BY <2>1 DEF ReleaseLarge, ReleaseSlot, CachedChunk
  <2>4. Older' = IF c \in Chunk \ Large /\ LeaseOf[c] = 1
                   THEN Older \cup ({d \in CachedChunk : LeaseOf[d] = 0} \X {c})
                   ELSE Older
    <3>1. CASE c \in Large
      <4>1. free' = free /\ tagSlot' = tagSlot
        BY <2>1, <3>1 DEF ReleaseLarge
      <4> QED BY <2>3, <3>1, <4>1 DEF Older
    <3>2. CASE c \notin Large
      BY <2>1, <3>2, OrderAfterRelease
    <3> QED BY <3>1, <3>2
  <2>5. Promise!Drop(c)
    BY <2>1, <2>2, <2>3, <2>4 DEF Promise!Drop, Promise!Idle, Older, LeaseOf
  <2> QED BY <2>5 DEF Promise!Next
<1>4. ASSUME NEW c \in Chunk, Invalidate(c)
      PROVE  Promise!Next \/ UNCHANGED Promise!vars
  <2>1. /\ holders' = holders /\ closed' = closed /\ free' = free
        /\ tagSlot' = [tagSlot EXCEPT ![c] = NoSlot]
        /\ tagSlot[c] # NoSlot /\ leases[tagSlot[c]] = 0
    BY <1>4 DEF Invalidate, InvalidateTag
  <2>2. CachedChunk' = CachedChunk \ {c}
    BY <2>1 DEF CachedChunk, IInv, TypeOK
  <2>5. Older' = Remaining({c})
    BY <2>1, OrderAfterForget
  <2>3. CASE c \in Large
    <3>1. c \notin CachedChunk /\ CachedChunk' = CachedChunk
      BY <2>2, <2>3 DEF CachedChunk
    <3>2. Older' = Older
      BY <2>5, <3>1 DEF Remaining, Older
    <3> QED BY <2>1, <3>1, <3>2 DEF Promise!vars, Older
  <2>4. CASE c \notin Large
    <3>1. LeaseOf[c] = 0
      BY <2>1, <2>4 DEF IInv, LeasesConserved, LeaseOf
    <3>2. Older' = Promise!Without({c})
      BY <2>5, RemainingIs
    <3>3. Promise!Forget(c)
      BY <2>1, <2>2, <3>1, <3>2 DEF Promise!Forget, Older, LeaseOf
    <3> QED BY <3>3 DEF Promise!Next
  <2> QED BY <2>3, <2>4
<1>5. ASSUME ClosePool PROVE Promise!Next
  <2>1. /\ ~closed /\ closed' /\ holders' = holders
        /\ \A c \in Chunk : tagSlot'[c] = NoSlot
        /\ \A s \in Slot : leases[s] = 0
        /\ \A c \in Large : largeLeases[c] = 0
    BY <1>5 DEF ClosePool, Close
  <2>2. \A c \in Chunk : LeaseOf[c] = 0
    BY <2>1 DEF IInv, TypeOK, LeasesConserved, LeaseOf
  <2>3. CachedChunk' = {}
    BY <2>1 DEF CachedChunk
  <2>4. Older' = {}
    BY <2>3 DEF Older
  <2>5. Promise!Shut
    BY <2>1, <2>2, <2>3, <2>4 DEF Promise!Shut, Older, LeaseOf
  <2> QED BY <2>5 DEF Promise!Next
<1> QED BY <1>1, <1>2, <1>3, <1>4, <1>5 DEF Next

\* Seen as a set of cached chunks, lease counts and the order of the last
\* releases, the pool is the abstract cache: hits cost nobody a place, and a
\* miss drops at most one chunk, the least recently released of the unleased.
THEOREM PoolImplementsCache == Spec => ImplementsResidentCache
<1>1. Init => Promise!Init
  <2> SUFFICES ASSUME Init PROVE Promise!Init
    OBVIOUS
  <2>1. \A c \in Chunk : tagSlot[c] = NoSlot /\ Cardinality(holders[c]) = 0
    BY FS_EmptySet DEF Init
  <2>2. CachedChunk = {}
    BY <2>1 DEF CachedChunk
  <2>3. Older = {}
    BY <2>2 DEF Older
  <2> QED BY <2>1, <2>2, <2>3 DEF Init, Promise!Init, Older
<1>2. IInv /\ IInv' /\ [Next]_vars => [Promise!Next]_(Promise!vars)
  BY StepImplements
<1> QED BY <1>1, <1>2, PoolInvariant, PTL DEF Spec, Promise!Spec, ImplementsResidentCache
=============================================================================
