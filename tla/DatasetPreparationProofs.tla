----------------------- MODULE DatasetPreparationProofs -----------------------
(***************************************************************************)
(* Proofs about dataset preparation, for any number of ranks, runs, rows,  *)
(* faults and processes of the pool: nobody holds less than the whole      *)
(* dataset in its order, the memory of the queue is bounded, one rank      *)
(* builds at a time, the counter beside the lock counts the ranks, and a   *)
(* rank raises only for a cause.                                           *)
(***************************************************************************)
EXTENDS DatasetPreparation, SequenceLemmas, TLAPS

-----------------------------------------------------------------------------
(* The inductive invariant: the work queue.                                *)

Stages == {"off", "fill", "results", "write", "replace", "failing", "raised"}
States == {"none", "queued", "running", "done", "raised", "broken"}

QueueTypes ==
    /\ rows \in Sizes /\ dropped \subseteq 1..rows /\ stage \in Stages
    /\ cut \in Nat /\ cut <= Chunks /\ pending \in Seq(Nat)
    /\ future \in [1..MaxRows -> States] /\ broken \in BOOLEAN
    /\ buffered \in Seq(1..rows) /\ orphans \in Nat /\ faults \in Nat

\* The chunks whose rows have been taken: all but the pending ones, which are
\* the last ones submitted, the oldest first.
Taken == cut - Len(pending)
InOrder ==
    /\ Len(pending) <= MaxInFlight /\ Len(pending) <= cut
    /\ \A i \in 1..Len(pending) : pending[i] = Taken + i
    /\ \A c \in 1..MaxRows : c > cut => future[c] = "none"

\* The temporary file and the buffer hold the rows of the chunks taken.
Written ==
    /\ stage \in {"off", "raised"} <=> tmp = NoFile
    /\ stage \notin {"off", "raised"} => tmp \in Seq(1..rows)
    /\ stage \in {"fill", "results", "write"} => tmp \o buffered = Keep(0, ChunkEnd(Taken), dropped)
    /\ stage \in {"results", "write"} /\ pending = <<>> => cut = Chunks
    /\ stage = "fill" => buffered = <<>> /\ Taken = 0
    /\ stage = "results" => Len(buffered) < WriterBatch
    /\ Len(buffered) < 2 * WriterBatch
    /\ stage = "replace" => tmp = Mapped
    /\ cache \in {NoFile, Mapped}

\* The queue fails for a fault of this run, or because every row is dropped.
Faulty ==
    /\ stage # "off" /\ (broken \/ \E c \in 1..MaxRows : future[c] \in {"raised", "broken"}) => hurt
    /\ stage \in {"failing", "raised"} => hurt \/ Mapped = <<>>

-----------------------------------------------------------------------------
(* The inductive invariant: the ranks.                                     *)

Places == Inside \cup Over \cup {"start", "count", "counted", "recount", "unlink", "unlock"}
Holding == {"count", "counted", "load", "tokenize", "save", "saving", "loaded", "leave",
            "discount", "recount", "unlink", "unlock"}
RankTypes ==
    /\ at \in [Rank -> Places] /\ lock \in Rank \cup {NoRank}
    /\ first \in BOOLEAN /\ flag \in BOOLEAN /\ dead \in BOOLEAN /\ hurt \in BOOLEAN
    /\ count \in Int /\ run \in 1..MaxRuns /\ prepared \in {"none", "partial", "whole"}

LockShape == \A r \in Rank : lock = r <=> at[r] \in Holding

\* The pool belongs to the rank that tokenizes.
Caller ==
    /\ stage # "off" => Tokenizing
    /\ Tokenizing /\ stage = "off" => cache # NoFile
    /\ orphans > 0 => dead

\* What each rank holds, and what the directory holds.
Data ==
    /\ data \in [Rank -> {NoFile, Mapped}]
    /\ \A r \in Rank : /\ at[r] \in {"save", "saving", "loaded"} => data[r] # NoFile
                       /\ at[r] = "raised" => data[r] = NoFile
                       /\ at[r] \in {"tokenize", "save"} => prepared = "none"
                       /\ at[r] = "saving" => prepared = "partial"
    /\ prepared = "whole" => content = Mapped

\* A rank that leaves without data has a reason to: a fault of this run, a
\* dataset of which nothing is kept, or a directory left half-written.
Failed == {"leave", "cleanup", "discount", "recount", "unlink", "unlock", "raised"}
Causes ==
    \A r \in Rank : at[r] \in Failed /\ data[r] = NoFile =>
        hurt \/ Mapped = <<>> \/ (prepared = "partial" /\ \A s \in Rank : at[s] # "saving")

\* The counter and the flag, as long as no rank has died: NInside ranks are inside.
NInside == Cardinality({r \in Rank : at[r] \in Inside})
Holder(place) == \E r \in Rank : at[r] = place
Counted ==
    ~dead =>
        /\ Holder("counted") => count = NInside + 1
        /\ Holder("recount") => count = NInside /\ NInside >= 1
        /\ Holder("unlink") => NInside = 0
        /\ ~(Holder("counted") \/ Holder("recount") \/ Holder("unlink")) =>
              counter = IF NInside = 0 THEN -1 ELSE NInside
        /\ flag => NInside >= 1

\* However many ranks have died, the counter is bounded by those that have
\* counted themselves in this run and all of the earlier ones.
NYetToCount == Cardinality({r \in Rank : at[r] \in {"start", "count", "counted"}})
Most == Cardinality(Rank) * run - NYetToCount
CountBounded ==
    /\ counter \in Int /\ -1 <= counter /\ counter <= Most
    /\ Holder("counted") => 0 <= count /\ count <= Most + 1
    /\ Holder("recount") => 0 <= count /\ count <= Most

IInv ==
    /\ QueueTypes /\ InOrder /\ Written /\ Faulty
    /\ RankTypes /\ LockShape /\ Caller /\ Data /\ Causes /\ Counted /\ CountBounded
-----------------------------------------------------------------------------
(* The rows that are kept.                                                 *)

KeepStep(g, a, i, drop) ==
    IF i = a THEN <<>> ELSE IF i \in drop THEN g[i - 1] ELSE Append(g[i - 1], i)
Keeps(g, a, b, drop) == g = [i \in a..b |-> KeepStep(g, a, i, drop)]

LEMMA KeepsExists ==
    ASSUME NEW a \in Nat, NEW drop PROVE \A k \in Nat : \E g : Keeps(g, a, a + k, drop)
<1> DEFINE K == {k \in Nat : \E g : Keeps(g, a, a + k, drop)}
<1>1. 0 \in K
  <2>1. \A i \in a..(a + 0) : i = a
    OBVIOUS
  <2>2. Keeps([i \in a..(a + 0) |-> <<>>], a, a + 0, drop)
    BY <2>1 DEF Keeps, KeepStep
  <2> QED BY <2>2
<1>2. ASSUME NEW k \in K PROVE k + 1 \in K
  <2>1. PICK g : Keeps(g, a, a + k, drop)
    OBVIOUS
  <2> DEFINE D == a..(a + (k + 1))
             h == [i \in D |-> KeepStep(g, a, i, drop)]
  <2>2. \A i \in a..(a + k) : i \in D /\ h[i] = g[i]
    BY <2>1 DEF Keeps
  <2>3. \A i \in D : i # a => i - 1 \in a..(a + k)
    OBVIOUS
  <2>4. ASSUME NEW i \in D PROVE KeepStep(h, a, i, drop) = KeepStep(g, a, i, drop)
    <3> HIDE DEF h
    <3> QED BY <2>2, <2>3 DEF KeepStep
  <2>5. h = [i \in D |-> KeepStep(h, a, i, drop)]
    <3>1. h = [i \in D |-> KeepStep(g, a, i, drop)]
      OBVIOUS
    <3> HIDE DEF h
    <3> QED BY <2>4, <3>1
  <2> HIDE DEF h
  <2>6. Keeps(h, a, a + (k + 1), drop)
    BY <2>5 DEF Keeps
  <2>7. \E e : Keeps(e, a, a + (k + 1), drop)
    BY <2>6
  <2>8. k + 1 \in Nat
    OBVIOUS
  <2> QED BY <2>7, <2>8
<1> HIDE DEF K
<1>3. K = Nat
  <2>1. K \in SUBSET Nat
    BY DEF K
  <2> QED BY <1>1, <1>2, <2>1, NaturalInduction
<1> QED BY <1>3 DEF K

LEMMA KeepsUnique ==
    ASSUME NEW a \in Nat, NEW b \in Nat, NEW c \in Nat, a <= b, b <= c, NEW drop,
           NEW f, NEW g, Keeps(f, a, b, drop), Keeps(g, a, c, drop)
    PROVE  f[b] = g[b]
<1> DEFINE K == {k \in Nat : a + k <= b => f[a + k] = g[a + k]}
<1>0. /\ \A i \in a..b : f[i] = KeepStep(f, a, i, drop)
      /\ \A i \in a..c : g[i] = KeepStep(g, a, i, drop)
  BY DEF Keeps
<1>1. 0 \in K
  <2>1. a + 0 = a /\ a \in a..b /\ a \in a..c
    OBVIOUS
  <2>2. f[a] = <<>> /\ g[a] = <<>>
    BY <1>0, <2>1 DEF KeepStep
  <2> QED BY <2>1, <2>2
<1>2. ASSUME NEW k \in K PROVE k + 1 \in K
  <2> SUFFICES ASSUME a + (k + 1) <= b PROVE f[a + (k + 1)] = g[a + (k + 1)]
    OBVIOUS
  <2> DEFINE i == a + (k + 1)
  <2>1. i \in a..b /\ i \in a..c /\ i # a /\ i - 1 = a + k /\ a + k <= b
    OBVIOUS
  <2>2. f[i - 1] = g[i - 1]
    BY <2>1
  <2> HIDE DEF i
  <2>3. f[i] = g[i]
    BY <1>0, <2>1, <2>2 DEF KeepStep
  <2> QED BY <2>3 DEF i
<1> HIDE DEF K
<1>3. K = Nat
  <2>1. K \in SUBSET Nat
    BY DEF K
  <2> QED BY <1>1, <1>2, <2>1, NaturalInduction
<1>4. b - a \in K /\ a + (b - a) = b /\ b <= b
  BY <1>3
<1> QED BY <1>4 DEF K

LEMMA KeepIs ==
    ASSUME NEW a \in Nat, NEW b \in Nat, NEW drop, a <= b
    PROVE  \E g : Keeps(g, a, b, drop) /\ Keep(a, b, drop) = g[b]
<1>1. b - a \in Nat /\ a + (b - a) = b
  OBVIOUS
<1>2. \E g : Keeps(g, a, a + (b - a), drop)
  BY <1>1, KeepsExists
<1>3. \E g : Keeps(g, a, b, drop)
  BY <1>1, <1>2
<1> DEFINE k == CHOOSE g : Keeps(g, a, b, drop)
<1>4. Keeps(k, a, b, drop)
  BY <1>3
<1>5. Keep(a, b, drop) = k[b]
  BY DEF Keep, Keeps, KeepStep
<1> HIDE DEF k
<1> QED BY <1>4, <1>5

\* The equations of the recursion.
LEMMA KeepEquations ==
    ASSUME NEW a \in Nat, NEW b \in Nat, NEW drop, a <= b
    PROVE  /\ Keep(a, a, drop) = <<>>
           /\ Keep(a, b + 1, drop) = IF b + 1 \in drop THEN Keep(a, b, drop)
                                     ELSE Append(Keep(a, b, drop), b + 1)
<1>1. PICK e : Keeps(e, a, a, drop) /\ Keep(a, a, drop) = e[a]
  BY KeepIs
<1>2. PICK f : Keeps(f, a, b, drop) /\ Keep(a, b, drop) = f[b]
  BY KeepIs
<1>3. b + 1 \in Nat /\ a <= b + 1 /\ b <= b + 1 /\ (b + 1) - 1 = b /\ b + 1 # a
  OBVIOUS
<1>4. PICK g : Keeps(g, a, b + 1, drop) /\ Keep(a, b + 1, drop) = g[b + 1]
  BY <1>3, KeepIs
<1>5. e[a] = <<>>
  <2>1. a \in a..a
    OBVIOUS
  <2> QED BY <1>1, <2>1 DEF Keeps, KeepStep
<1>6. g[b + 1] = IF b + 1 \in drop THEN g[b] ELSE Append(g[b], b + 1)
  <2>1. b + 1 \in a..(b + 1)
    BY <1>3
  <2>2. g[b + 1] = KeepStep(g, a, b + 1, drop)
    BY <1>4, <2>1 DEF Keeps
  <2> QED BY <1>3, <2>2 DEF KeepStep
<1>7. f[b] = g[b]
  BY <1>2, <1>3, <1>4, KeepsUnique
<1> QED BY <1>1, <1>2, <1>4, <1>5, <1>6, <1>7

\* What is kept are rows of the range, at most as many as it has.
LEMMA KeepRows ==
    ASSUME NEW a \in Nat, NEW b \in Nat, NEW m \in Nat, NEW drop, a <= b, b <= m
    PROVE  Keep(a, b, drop) \in Seq(1..m) /\ Len(Keep(a, b, drop)) <= b - a
<1> DEFINE Good(k) == a + k <= m => /\ Keep(a, a + k, drop) \in Seq(1..m)
                                    /\ Len(Keep(a, a + k, drop)) <= k
           K == {k \in Nat : Good(k)}
<1>1. 0 \in K
  <2>1. a + 0 = a /\ Keep(a, a, drop) = <<>>
    BY KeepEquations
  <2>2. <<>> \in Seq(1..m) /\ Len(<<>>) = 0
    BY EmptySeq
  <2>3. Good(0)
    BY <2>1, <2>2
  <2> QED BY <2>3
<1>2. ASSUME NEW k \in K PROVE k + 1 \in K
  <2> SUFFICES ASSUME a + (k + 1) <= m PROVE Good(k + 1)
    OBVIOUS
  <2> DEFINE q == Keep(a, a + k, drop)
  <2>1. a + k \in Nat /\ a <= a + k /\ (a + k) + 1 = a + (k + 1) /\ (a + k) + 1 \in 1..m
    OBVIOUS
  <2>2. q \in Seq(1..m) /\ Len(q) <= k /\ Len(q) \in Nat
    <3>1. Good(k) /\ a + k <= m
      OBVIOUS
    <3> QED BY <3>1, LenProperties
  <2>3. Keep(a, a + (k + 1), drop) = IF (a + k) + 1 \in drop THEN q ELSE Append(q, (a + k) + 1)
    BY <2>1, KeepEquations
  <2> DEFINE r == Keep(a, a + (k + 1), drop)
             e == (a + k) + 1
  <2>4. r = IF e \in drop THEN q ELSE Append(q, e)
    BY <2>3
  <2> HIDE DEF q, r, e
  <2>5. Append(q, e) \in Seq(1..m) /\ Len(Append(q, e)) = Len(q) + 1
    BY <2>1, <2>2, AppendProperties DEF e
  <2>6. k \in Nat
    OBVIOUS
  <2>7. r \in Seq(1..m) /\ Len(r) <= k + 1
    <3> HIDE DEF K, Good
    <3>1. CASE e \in drop
      BY <2>2, <2>4, <2>6, <3>1
    <3>2. CASE e \notin drop
      BY <2>2, <2>4, <2>5, <2>6, <3>2
    <3> QED BY <3>1, <3>2
  <2> QED BY <2>7 DEF r
<1> HIDE DEF K
<1>3. K = Nat
  <2>1. K \in SUBSET Nat
    BY DEF K
  <2> QED BY <1>1, <1>2, <2>1, NaturalInduction
<1> HIDE DEF Good
<1>4. b - a \in Nat /\ a + (b - a) = b
  OBVIOUS
<1>5. Good(b - a)
  BY <1>3, <1>4 DEF K
<1> QED BY <1>4, <1>5 DEF Good

\* Keeping is done range by range.
Joined(a, b, c, drop) == Keep(a, b, drop) \o Keep(b, c, drop) = Keep(a, c, drop)

LEMMA KeepConcat ==
    ASSUME NEW a \in Nat, NEW b \in Nat, NEW c \in Nat, NEW drop, a <= b, b <= c
    PROVE  Joined(a, b, c, drop)
<1> DEFINE Good(k) == Keep(a, b, drop) \o Keep(b, b + k, drop) = Keep(a, b + k, drop)
           K == {k \in Nat : Good(k)}
           p == Keep(a, b, drop)
<1>0. p \in Seq(Nat)
  <2>1. p \in Seq(1..b)
    BY KeepRows
  <2> QED BY <2>1, SeqMonotonic
<1>1. 0 \in K
  <2>1. b + 0 = b /\ Keep(b, b, drop) = <<>>
    BY KeepEquations
  <2>2. p \o <<>> = p
    BY <1>0, ConcatEmptySeq
  <2>3. Good(0)
    BY <2>1, <2>2
  <2> QED BY <2>3
<1>2. ASSUME NEW k \in K PROVE k + 1 \in K
  <2> DEFINE q == Keep(b, b + k, drop)
             e == (b + k) + 1
  <2>1. b + k \in Nat /\ b <= b + k /\ a <= b + k /\ e = b + (k + 1) /\ e \in Nat
    OBVIOUS
  <2>2. q \in Seq(Nat)
    <3>1. q \in Seq(1..(b + k))
      BY <2>1, KeepRows
    <3> QED BY <3>1, SeqMonotonic
  <2>3. p \o q = Keep(a, b + k, drop)
    OBVIOUS
  <2>4. Keep(b, b + (k + 1), drop) = IF e \in drop THEN q ELSE Append(q, e)
    BY <2>1, KeepEquations
  <2>5. Keep(a, b + (k + 1), drop) = IF e \in drop THEN p \o q ELSE Append(p \o q, e)
    <3>1. Keep(a, (b + k) + 1, drop) = IF (b + k) + 1 \in drop THEN Keep(a, b + k, drop)
                                       ELSE Append(Keep(a, b + k, drop), (b + k) + 1)
      BY <2>1, KeepEquations
    <3> HIDE DEF p, q
    <3> QED BY <2>1, <2>3, <3>1
  <2> HIDE DEF p, q, e, K
  <2>6. p \o Append(q, e) = Append(p \o q, e)
    <3>1. e \in Nat /\ q \in Seq(Nat) /\ p \in Seq(Nat) /\ <<e>> \in Seq(Nat) /\ p \o q \in Seq(Nat)
      BY <1>0, <2>1, <2>2
    <3>2. Append(q, e) = q \o <<e>> /\ Append(p \o q, e) = (p \o q) \o <<e>>
      BY <3>1, AppendIsConcat
    <3>3. p \o (q \o <<e>>) = (p \o q) \o <<e>>
      BY <3>1, ConcatAssociative
    <3> QED BY <3>2, <3>3
  <2>7. p \o Keep(b, b + (k + 1), drop) = Keep(a, b + (k + 1), drop)
    BY <2>4, <2>5, <2>6
  <2>8. k \in Nat
    BY DEF K
  <2> QED BY <2>7, <2>8 DEF K, p
<1> HIDE DEF K
<1>3. K = Nat
  <2>1. K \in SUBSET Nat
    BY DEF K
  <2> QED BY <1>1, <1>2, <2>1, NaturalInduction
<1> HIDE DEF Good
<1>4. c - b \in Nat /\ b + (c - b) = c
  OBVIOUS
<1>5. Good(c - b)
  BY <1>3, <1>4 DEF K
<1> QED BY <1>4, <1>5 DEF Good, Joined

-----------------------------------------------------------------------------
(* The chunks.                                                             *)

LEMMA CeilFacts ==
    ASSUME NEW a \in Nat, NEW b \in Nat \ {0}
    PROVE  /\ CeilDiv(a, b) \in Nat /\ CeilDiv(a, b) * b >= a
           /\ CeilDiv(a, b) * b < a + b
<1> DEFINE q == (a + b - 1) \div b
<1>1. a + b - 1 \in Nat /\ b \in Int /\ b > 0
  OBVIOUS
<1>2. q \in Int /\ b * q <= a + b - 1 /\ a + b - 1 < b * q + b
  BY <1>1, SMT
<1>3. q >= 0
  BY <1>1, SMT
<1> HIDE DEF q
<1>4. q * b = b * q
  BY <1>2, SMT
<1>5. q \in Nat /\ q * b >= a /\ q * b < a + b
  BY <1>1, <1>2, <1>3, <1>4
<1> QED BY <1>5 DEF q, CeilDiv

LEMMA TimesMonotone ==
    ASSUME NEW x \in Nat, NEW y \in Nat, NEW k \in Nat, x <= y PROVE x * k <= y * k
<1>1. y - x \in Nat /\ (y - x) * k \in Nat
  OBVIOUS
<1>2. y * k = x * k + (y - x) * k
  OBVIOUS
<1> QED BY <1>1, <1>2

LEMMA ChunkSizeFacts ==
    ASSUME rows \in Nat
    PROVE  ChunkSize \in Nat \ {0} /\ ChunkSize <= WriterBatch
<1>1. /\ NumProc \in Nat \ {0} /\ ChunksPerWorker \in Nat \ {0} /\ MinChunk \in Nat \ {0}
      /\ MaxChunk \in Nat \ {0} /\ WriterBatch \in Nat \ {0} /\ MaxChunk <= WriterBatch
  BY QueueAssumption
<1>2. NumProc * ChunksPerWorker \in Nat \ {0}
  BY <1>1
<1> DEFINE k == CeilDiv(rows, NumProc * ChunksPerWorker)
<1>3. k \in Nat
  BY <1>2, CeilFacts
<1> HIDE DEF k
<1>4. ChunkSize = Larger(Smaller(MinChunk, MaxChunk), Smaller(MaxChunk, k))
  BY DEF ChunkSize, k
<1> QED BY <1>1, <1>3, <1>4 DEF Larger, Smaller

LEMMA Sizing ==
    ASSUME QueueTypes
    PROVE  /\ rows \in Nat \ {0} /\ MaxRows \in Nat /\ rows <= MaxRows
           /\ MaxInFlight \in Nat \ {0} /\ WriterBatch \in Nat \ {0}
           /\ ChunkSize \in Nat \ {0} /\ ChunkSize <= WriterBatch
           /\ Chunks \in Nat /\ Chunks <= MaxRows
<1>1. /\ Sizes \in SUBSET Nat /\ Sizes # {} /\ IsFiniteSet(Sizes) /\ rows \in Sizes
      /\ rows \in Nat \ {0}
  BY QueueAssumption DEF QueueTypes
<1>2. MaxRows \in Nat /\ rows <= MaxRows
  <2>1. PICK k \in Nat : \A x \in Sizes : x <= k
    BY <1>1, FiniteIsBounded
  <2>2. Max(Sizes) \in Sizes /\ \A x \in Sizes : Max(Sizes) >= x
    BY <1>1, <2>1, MaxIsMax
  <2> QED BY <1>1, <2>2 DEF MaxRows
<1>3. MaxInFlight \in Nat \ {0} /\ WriterBatch \in Nat \ {0}
  <2>1. NumProc \in Nat /\ InFlight \in Nat /\ WriterBatch \in Nat \ {0}
    BY QueueAssumption
  <2>2. NumProc * InFlight \in Nat
    BY <2>1
  <2> QED BY <2>1, <2>2 DEF MaxInFlight, Larger
<1>4. ChunkSize \in Nat \ {0} /\ ChunkSize <= WriterBatch
  BY <1>1, ChunkSizeFacts
<1>5. Chunks \in Nat /\ Chunks * ChunkSize < rows + ChunkSize
  BY <1>1, <1>4, CeilFacts DEF Chunks
<1>6. Chunks <= rows
  <2> SUFFICES ASSUME rows + 1 <= Chunks PROVE FALSE
    BY <1>1, <1>5
  <2>1. (rows + 1) * ChunkSize <= Chunks * ChunkSize
    BY <1>1, <1>4, <1>5, TimesMonotone
  <2>2. (rows + 1) * ChunkSize = rows * ChunkSize + ChunkSize
    BY <1>1, <1>4
  <2>3. rows * 1 <= rows * ChunkSize
    <3>1. 1 * rows <= ChunkSize * rows
      BY <1>1, <1>4, TimesMonotone
    <3> QED BY <1>1, <1>4, <3>1
  <2>4. rows * ChunkSize \in Nat /\ Chunks * ChunkSize \in Nat
    BY <1>1, <1>4, <1>5
  <2> QED BY <1>1, <1>4, <1>5, <2>1, <2>2, <2>3, <2>4
<1> QED BY <1>1, <1>2, <1>3, <1>4, <1>5, <1>6

\* Where the chunks end.
LEMMA ChunkEnds ==
    ASSUME QueueTypes
    PROVE  /\ ChunkEnd(0) = 0 /\ ChunkEnd(Chunks) = rows
           /\ \A c \in 0..Chunks : ChunkEnd(c) \in Nat /\ ChunkEnd(c) <= rows
           /\ \A c \in 1..Chunks :
                 /\ (c - 1) * ChunkSize = ChunkEnd(c - 1)
                 /\ ChunkEnd(c - 1) <= ChunkEnd(c)
                 /\ ChunkEnd(c) - ChunkEnd(c - 1) <= ChunkSize
<1> DEFINE s == ChunkSize
<1>1. rows \in Nat \ {0} /\ s \in Nat \ {0} /\ Chunks \in Nat
  BY Sizing
<1>2. Chunks * s >= rows /\ Chunks * s < rows + s
  BY <1>1, CeilFacts DEF Chunks
<1>3. \A c : ChunkEnd(c) = IF c * s < rows THEN c * s ELSE rows
  BY DEF ChunkEnd, Smaller
<1> HIDE DEF s
<1>4. \A c \in Nat : c * s \in Nat
  BY <1>1
<1>5. ChunkEnd(0) = 0
  <2>1. 0 * s = 0
    BY <1>1
  <2> QED BY <1>1, <1>3, <2>1
<1>6. ChunkEnd(Chunks) = rows
  BY <1>1, <1>2, <1>3, <1>4
<1>7. \A c \in 0..Chunks : ChunkEnd(c) \in Nat /\ ChunkEnd(c) <= rows
  BY <1>1, <1>3, <1>4
<1>8. ASSUME NEW c \in 1..Chunks
      PROVE  /\ (c - 1) * s = ChunkEnd(c - 1)
             /\ ChunkEnd(c - 1) <= ChunkEnd(c)
             /\ ChunkEnd(c) - ChunkEnd(c - 1) <= s
  <2>1. c - 1 \in Nat /\ c \in Nat /\ c - 1 <= Chunks /\ c <= Chunks
    BY <1>1
  <2>2. c * s = (c - 1) * s + s /\ (c - 1) * s \in Nat /\ c * s \in Nat
    BY <1>1, <1>4, <2>1
  <2>3. c * s <= Chunks * s
    BY <1>1, <2>1, TimesMonotone
  <2>4. (c - 1) * s < rows
    BY <1>1, <1>2, <1>4, <2>2, <2>3
  <2> QED BY <1>1, <1>3, <2>2, <2>4
<1> QED BY <1>5, <1>6, <1>7, <1>8 DEF s

LEMMA SameData ==
    ASSUME UNCHANGED <<rows, dropped>>
    PROVE  /\ ChunkSize' = ChunkSize /\ Chunks' = Chunks /\ Mapped' = Mapped
           /\ \A c : ChunkEnd(c)' = ChunkEnd(c)
BY DEF ChunkSize, Chunks, Mapped, ChunkEnd

LEMMA MappedIsRows ==
    ASSUME QueueTypes
    PROVE  Mapped \in Seq(1..rows) /\ NoFile \notin Seq(1..rows) /\ Mapped # NoFile
<1>1. rows \in Nat
  BY Sizing
<1>2. Mapped \in Seq(1..rows)
  BY <1>1, KeepRows DEF Mapped
<1>3. NoFile \notin Seq(1..rows)
  <2> SUFFICES ASSUME NoFile \in Seq(1..rows) PROVE FALSE
    OBVIOUS
  <2>1. Len(NoFile) = 1 /\ NoFile[1] = -1
    BY DEF NoFile
  <2>2. NoFile[1] \in 1..rows
    <3>1. 1 \in 1..Len(NoFile)
      BY <2>1
    <3> HIDE DEF NoFile
    <3> QED BY <3>1, ElementOfSeq
  <2> QED BY <1>1, <2>1, <2>2
<1> QED BY <1>2, <1>3

-----------------------------------------------------------------------------
(* The steps of the queue.                                                 *)

QInv == QueueTypes /\ InOrder /\ Written /\ Faulty
Others == RankTypes /\ LockShape /\ Data /\ Causes /\ Counted /\ CountBounded

\* What a step of the queue leaves alone.
LEMMA QueueQuiet ==
    ASSUME IInv, UNCHANGED <<at, data, lock, first, count, files, run, dead, rows, dropped>>,
           hurt' \in BOOLEAN, hurt => hurt'
    PROVE  Others'
<1>1. Mapped' = Mapped
  BY SameData
<1>2. UNCHANGED <<flag, counter, prepared, content>>
  BY DEF files
<1>3. RankTypes' /\ LockShape'
  BY <1>2 DEF IInv, RankTypes, LockShape
<1>4. Data' /\ Causes'
  BY <1>1, <1>2 DEF IInv, Data, Causes
<1>5. NInside' = NInside /\ Most' = Most /\ \A p : Holder(p)' = Holder(p)
  BY DEF NInside, Most, NYetToCount, Holder
<1>6. Counted'
  BY <1>2, <1>5 DEF IInv, Counted
<1>7. CountBounded'
  BY <1>2, <1>5 DEF IInv, CountBounded
<1> QED BY <1>3, <1>4, <1>6, <1>7 DEF Others

\* A sequence less its oldest element, with the next chunk when there is one.
LEMMA TakenOut ==
    ASSUME NEW q \in Seq(Nat), q # <<>>
    PROVE  /\ RemoveAt(q, 1) \in Seq(Nat) /\ Len(RemoveAt(q, 1)) = Len(q) - 1
           /\ Len(q) \in Nat \ {0}
           /\ \A i \in 1..(Len(q) - 1) : RemoveAt(q, 1)[i] = q[i + 1]
<1>1. Len(q) \in Nat \ {0} /\ \A i \in 1..Len(q) : q[i] \in Nat
  BY EmptySeq, LenProperties, ElementOfSeq
<1>2. SubSeq(q, 1, 1 - 1) = <<>>
  BY SubSeqEmpty
<1>3. /\ SubSeq(q, 2, Len(q)) \in Seq(Nat)
      /\ Len(SubSeq(q, 2, Len(q))) = Len(q) - 1
      /\ \A i \in 1..(Len(q) - 1) : SubSeq(q, 2, Len(q))[i] = q[i + 1]
  <2> DEFINE n == Len(q)
             t == SubSeq(q, 2, n)
  <2>1. n \in Int /\ 2 \in Int /\ \A i \in 2..n : q[i] \in Nat
    BY <1>1
  <2>2. /\ t \in Seq(Nat) /\ Len(t) = IF 2 <= n THEN n - 2 + 1 ELSE 0
        /\ \A i \in 1..(n - 2 + 1) : t[i] = q[2 + i - 1]
    BY <2>1, SubSeqProperties
  <2>3. n \in Nat \ {0}
    BY <1>1
  <2> HIDE DEF n, t
  <2>4. Len(t) = n - 1 /\ n - 2 + 1 = n - 1 /\ \A i \in 1..(n - 1) : 2 + i - 1 = i + 1
    BY <2>2, <2>3
  <2>5. \A i \in 1..(n - 1) : t[i] = q[i + 1]
    BY <2>2, <2>4
  <2> QED BY <2>2, <2>4, <2>5 DEF n, t
<1>4. RemoveAt(q, 1) = SubSeq(q, 2, Len(q))
  <2>1. RemoveAt(q, 1) = SubSeq(q, 1, 1 - 1) \o SubSeq(q, 1 + 1, Len(q))
    BY DEF RemoveAt
  <2> HIDE DEF RemoveAt
  <2>2. <<>> \o SubSeq(q, 2, Len(q)) = SubSeq(q, 2, Len(q))
    BY <1>3, ConcatEmptySeq
  <2> QED BY <1>2, <2>1, <2>2
<1> QED BY <1>1, <1>3, <1>4

\* A step of the queue ends its call only when there is a cache file.
CallOn ==
    /\ stage' = "off" => (stage = "off" /\ cache' = cache) \/ cache' # NoFile
    /\ orphans' = orphans

LEMMA FillStep == ASSUME QInv, Fill, UNCHANGED hurt PROVE QInv' /\ CallOn
<1>1. /\ stage = "fill"
      /\ UNCHANGED <<rows, dropped, broken, buffered, tmp, cache, orphans, faults>>
  BY DEF Fill
<1>2. /\ Chunks' = Chunks /\ Mapped' = Mapped /\ \A c : ChunkEnd(c)' = ChunkEnd(c)
      /\ Chunks \in Nat /\ Chunks <= MaxRows /\ MaxRows \in Nat /\ MaxInFlight \in Nat \ {0}
  BY <1>1, SameData, Sizing DEF QInv
<1>3. /\ pending \in Seq(Nat) /\ Len(pending) \in Nat /\ cut \in Nat
      /\ future \in [1..MaxRows -> States]
  BY LenProperties DEF QInv, QueueTypes
<1>4. buffered = <<>> /\ Taken = 0 /\ cut = Len(pending) /\ tmp \in Seq(1..rows)
      /\ tmp \o buffered = Keep(0, ChunkEnd(0), dropped)
  BY <1>1, <1>3 DEF QInv, Written, Taken
<1>5. CASE More /\ Len(pending) < MaxInFlight /\ ~broken
  <2>1. /\ cut' = cut + 1 /\ future' = [future EXCEPT ![cut + 1] = "queued"]
        /\ pending' = Append(pending, cut + 1) /\ stage' = stage
    BY <1>1, <1>5 DEF Fill, Submit
  <2>2. cut + 1 \in Nat /\ cut + 1 <= Chunks /\ cut + 1 \in 1..MaxRows
    BY <1>2, <1>3, <1>5 DEF More
  <2>3. /\ pending' \in Seq(Nat) /\ Len(pending') = Len(pending) + 1
        /\ \A i \in 1..Len(pending) : pending'[i] = pending[i]
        /\ pending'[Len(pending) + 1] = cut + 1
    BY <1>3, <2>1, <2>2, AppendProperties
  <2>4. Taken' = Taken
    BY <1>3, <2>1, <2>3 DEF Taken
  <2>5. QueueTypes'
    BY <1>1, <1>2, <1>3, <2>1, <2>2, <2>3 DEF QInv, QueueTypes, States
  <2>6. InOrder'
    <3>1. \A i \in 1..Len(pending') : pending'[i] = Taken' + i
      <4>1. \A i \in 1..Len(pending) : pending[i] = Taken + i
        BY DEF QInv, InOrder
      <4>2. \A i \in 1..Len(pending') : i \in 1..Len(pending) \/ i = Len(pending) + 1
        BY <1>3, <2>3
      <4>3. ASSUME NEW i \in 1..Len(pending) PROVE pending'[i] = Taken' + i
        BY <2>3, <2>4, <4>1
      <4>4. pending'[Len(pending) + 1] = Taken' + (Len(pending) + 1)
        BY <1>3, <1>4, <2>3, <2>4
      <4> QED BY <4>2, <4>3, <4>4
    <3>2. \A c \in 1..MaxRows : c > cut' => future'[c] = "none"
      BY <1>3, <2>1 DEF QInv, InOrder
    <3>3. MaxInFlight' = MaxInFlight
      BY DEF MaxInFlight
    <3> QED BY <1>2, <1>3, <1>4, <1>5, <2>1, <2>3, <3>1, <3>2, <3>3 DEF InOrder
  <2>7. Written'
    BY <1>1, <1>2, <2>1, <2>4 DEF QInv, Written
  <2>8. Faulty'
    <3>1. \A c \in 1..MaxRows : future'[c] \in {"raised", "broken"} => future[c] \in {"raised", "broken"}
      BY <1>3, <2>1, <2>2
    <3> QED BY <1>1, <1>2, <2>1, <3>1 DEF QInv, Faulty
  <2> QED BY <1>1, <2>1, <2>5, <2>6, <2>7, <2>8 DEF QInv, CallOn
<1>6. CASE ~(More /\ Len(pending) < MaxInFlight /\ ~broken)
  <2>1. /\ UNCHANGED <<cut, future, pending>>
        /\ \/ stage' = "failing" /\ broken
           \/ stage' = "results" /\ ~(More /\ Len(pending) < MaxInFlight)
    BY <1>1, <1>6 DEF Fill
  <2>2. Taken' = Taken /\ MaxInFlight' = MaxInFlight
    BY <2>1 DEF Taken, MaxInFlight
  <2>3. QueueTypes' /\ InOrder'
    BY <1>1, <1>2, <2>1, <2>2 DEF QInv, QueueTypes, InOrder, Stages
  <2>4. stage' = "results" /\ pending = <<>> => cut = Chunks
    <3> SUFFICES ASSUME ~(More /\ Len(pending) < MaxInFlight), pending = <<>> PROVE cut = Chunks
      BY <2>1
    <3>1. Len(pending) = 0
      BY <1>3, EmptySeq
    <3>2. ~More
      BY <1>2, <3>1
    <3>3. cut <= Chunks
      BY DEF QInv, QueueTypes
    <3> QED BY <1>2, <1>3, <3>2, <3>3 DEF More
  <2>5. Len(<<>>) < WriterBatch
    <3>1. WriterBatch \in Nat \ {0} /\ Len(<<>>) = 0
      BY NothingListed, QueueAssumption
    <3> QED BY <3>1
  <2>6. Written'
    BY <1>1, <1>2, <1>4, <2>1, <2>2, <2>4, <2>5 DEF QInv, Written
  <2>7. Faulty'
    BY <1>1, <1>2, <2>1 DEF QInv, Faulty
  <2> QED BY <1>1, <2>1, <2>3, <2>6, <2>7 DEF QInv, CallOn
<1> QED BY <1>5, <1>6

\* The chunk taken next, and its rows behind those of the chunks taken.
LEMMA NextChunk ==
    ASSUME QInv, pending # <<>>, stage \in {"fill", "results", "write"}
    PROVE  /\ Len(pending) \in Nat \ {0} /\ Taken \in Nat /\ Taken + 1 \in 1..Chunks
           /\ pending[1] = Taken + 1
           /\ Tokenized(Taken + 1) \in Seq(1..rows)
           /\ Len(Tokenized(Taken + 1)) <= WriterBatch
           /\ tmp \o (buffered \o Tokenized(Taken + 1)) = Keep(0, ChunkEnd(Taken + 1), dropped)
<1> DEFINE c == Taken + 1
<1>1. Len(pending) \in Nat \ {0} /\ cut \in Nat /\ cut <= Chunks /\ Chunks \in Nat
  BY Sizing, EmptySeq, LenProperties DEF QInv, QueueTypes
<1>2. Taken \in Nat /\ c \in 1..Chunks /\ c - 1 = Taken
  BY <1>1 DEF QInv, InOrder, Taken
<1>3. pending[1] = c
  <2>1. 1 \in 1..Len(pending)
    BY <1>1
  <2> QED BY <2>1 DEF QInv, InOrder
<1>4. /\ (c - 1) * ChunkSize = ChunkEnd(Taken)
      /\ ChunkEnd(Taken) \in Nat /\ ChunkEnd(c) \in Nat /\ ChunkEnd(c) <= rows
      /\ ChunkEnd(Taken) <= ChunkEnd(c) /\ ChunkEnd(c) - ChunkEnd(Taken) <= ChunkSize
  <2>1. c \in 0..Chunks /\ Taken \in 0..Chunks
    BY <1>1, <1>2
  <2> HIDE DEF c
  <2> QED BY <1>2, <2>1, ChunkEnds DEF QInv
<1> HIDE DEF c
<1>5. Tokenized(c) = Keep(ChunkEnd(Taken), ChunkEnd(c), dropped)
  BY <1>4 DEF Tokenized
<1>6. ChunkSize \in Nat /\ ChunkSize <= WriterBatch /\ WriterBatch \in Nat /\ rows \in Nat
  BY Sizing DEF QInv
<1>7. Tokenized(c) \in Seq(1..rows) /\ Len(Tokenized(c)) <= ChunkEnd(c) - ChunkEnd(Taken)
  BY <1>4, <1>5, <1>6, KeepRows
<1>8. Len(Tokenized(c)) <= WriterBatch
  <2>1. Len(Tokenized(c)) \in Nat
    BY <1>7, LenProperties
  <2> QED BY <1>4, <1>6, <1>7, <2>1
<1>9. tmp \o (buffered \o Tokenized(c)) = Keep(0, ChunkEnd(c), dropped)
  <2>1. tmp \in Seq(1..rows) /\ buffered \in Seq(1..rows)
        /\ tmp \o buffered = Keep(0, ChunkEnd(Taken), dropped)
    BY DEF QInv, QueueTypes, Written
  <2>2. \A t \in Seq(1..rows) : tmp \o (buffered \o t) = (tmp \o buffered) \o t
    <3> DEFINE R == 1..rows
    <3>1. tmp \in Seq(R) /\ buffered \in Seq(R)
      BY <2>1
    <3> HIDE DEF R
    <3>2. \A t \in Seq(R) : tmp \o (buffered \o t) = (tmp \o buffered) \o t
      BY <3>1, ConcatAssociative
    <3> QED BY <3>2 DEF R
  <2>3. Keep(0, ChunkEnd(Taken), dropped) \o Keep(ChunkEnd(Taken), ChunkEnd(c), dropped)
          = Keep(0, ChunkEnd(c), dropped)
    <3>1. 0 \in Nat /\ 0 <= ChunkEnd(Taken)
      BY <1>4
    <3>2. Joined(0, ChunkEnd(Taken), ChunkEnd(c), dropped)
      BY <1>4, <3>1, KeepConcat
    <3> QED BY <3>2 DEF Joined
  <2> QED BY <1>5, <1>7, <2>1, <2>2, <2>3
<1> QED BY <1>1, <1>2, <1>3, <1>7, <1>8, <1>9 DEF c

LEMMA ResultStep == ASSUME QInv, Result, UNCHANGED hurt PROVE QInv' /\ CallOn
<1>1. /\ stage = "results" /\ pending # <<>>
      /\ UNCHANGED <<rows, dropped, broken, tmp, cache, orphans, faults>>
  BY DEF Result, OldestFirst
<1>2. /\ Chunks' = Chunks /\ Mapped' = Mapped /\ \A c : ChunkEnd(c)' = ChunkEnd(c)
      /\ Chunks \in Nat /\ Chunks <= MaxRows /\ MaxRows \in Nat /\ MaxInFlight \in Nat \ {0}
      /\ WriterBatch \in Nat \ {0}
  BY <1>1, SameData, Sizing DEF QInv
<1>3. /\ pending \in Seq(Nat) /\ cut \in Nat /\ future \in [1..MaxRows -> States]
      /\ broken \in BOOLEAN
  BY DEF QInv, QueueTypes
<1>4. /\ Len(pending) \in Nat \ {0} /\ Taken \in Nat /\ Taken + 1 \in 1..Chunks
      /\ pending[1] = Taken + 1 /\ Taken = cut - Len(pending)
  BY <1>1, NextChunk DEF Taken
<1>5. CASE More /\ broken
  <2>1. stage' = "failing" /\ UNCHANGED <<cut, future, pending, buffered>>
    BY <1>5 DEF Result
  <2>2. Taken' = Taken /\ MaxInFlight' = MaxInFlight
    BY <2>1 DEF Taken, MaxInFlight
  <2>3. QueueTypes' /\ InOrder'
    BY <1>1, <1>2, <2>1, <2>2 DEF QInv, QueueTypes, InOrder, Stages
  <2>4. Written'
    BY <1>1, <1>2, <2>1, <2>2 DEF QInv, Written
  <2>5. Faulty'
    BY <1>1, <1>2, <1>5, <2>1 DEF QInv, Faulty
  <2> QED BY <1>1, <2>1, <2>3, <2>4, <2>5 DEF QInv, CallOn
<1>6. CASE ~(More /\ broken)
  <2> DEFINE rest == RemoveAt(pending, 1)
             t == Tokenized(Taken + 1)
  <2>1. /\ buffered' = buffered \o t /\ stage' = "write"
        /\ IF More THEN Submit /\ pending' = Append(rest, cut + 1)
                   ELSE UNCHANGED <<cut, future>> /\ pending' = rest
    BY <1>4, <1>6 DEF Result, OldestFirst
  <2>2. /\ rest \in Seq(Nat) /\ Len(rest) = Len(pending) - 1
        /\ \A i \in 1..(Len(pending) - 1) : rest[i] = pending[i + 1]
    BY <1>1, <1>3, TakenOut
  <2>3. /\ t \in Seq(1..rows) /\ Len(t) <= WriterBatch /\ Len(t) \in Nat
        /\ tmp \o (buffered \o t) = Keep(0, ChunkEnd(Taken + 1), dropped)
    BY <1>1, NextChunk, LenProperties
  <2> HIDE DEF rest, t
  <2>4. \A i \in 1..Len(rest) : rest[i] = (Taken + 1) + i
    <3>1. \A i \in 1..Len(pending) : pending[i] = Taken + i
      BY DEF QInv, InOrder
    <3>2. \A i \in 1..Len(rest) : i \in 1..(Len(pending) - 1) /\ i + 1 \in 1..Len(pending)
      BY <1>4, <2>2
    <3>3. ASSUME NEW i \in 1..Len(rest) PROVE rest[i] = (Taken + 1) + i
      <4>1. rest[i] = pending[i + 1] /\ pending[i + 1] = Taken + (i + 1)
        BY <2>2, <3>1, <3>2
      <4>2. i \in Nat
        BY <1>4, <2>2
      <4> QED BY <1>4, <4>1, <4>2
    <3> QED BY <3>3
  <2>5. /\ pending' \in Seq(Nat) /\ cut' \in Nat /\ cut' <= Chunks /\ cut <= cut'
        /\ future' \in [1..MaxRows -> States] /\ Len(pending') \in Nat
        /\ Len(pending') <= Len(pending) /\ Taken' = Taken + 1
        /\ \A i \in 1..Len(pending') : pending'[i] = (Taken + 1) + i
        /\ \A c \in 1..MaxRows : /\ c > cut' => future'[c] = future[c]
                                 /\ future'[c] \in {"raised", "broken"} => future'[c] = future[c]
        /\ pending' = <<>> => cut' = Chunks
    <3>0. cut <= Chunks
      BY DEF QInv, QueueTypes
    <3>1. CASE More
      <4>1. /\ cut' = cut + 1 /\ future' = [future EXCEPT ![cut + 1] = "queued"]
            /\ pending' = Append(rest, cut + 1)
        BY <2>1, <3>1 DEF Submit
      <4>2. cut + 1 \in Nat /\ cut + 1 <= Chunks /\ cut + 1 \in 1..MaxRows
        BY <1>2, <1>3, <3>1 DEF More
      <4>3. /\ pending' \in Seq(Nat) /\ Len(pending') = Len(rest) + 1
            /\ \A i \in 1..Len(rest) : pending'[i] = rest[i]
            /\ pending'[Len(rest) + 1] = cut + 1
        BY <2>2, <4>1, <4>2, AppendProperties
      <4>4. Len(pending') = Len(pending) /\ pending' # <<>>
        <5>1. Len(pending') = Len(pending)
          BY <1>4, <2>2, <4>3
        <5> QED BY <1>4, <4>3, <5>1, EmptySeq
      <4>5. Taken' = Taken + 1
        <5>1. Taken' = cut' - Len(pending')
          BY DEF Taken
        <5> QED BY <1>3, <1>4, <4>1, <4>4, <5>1
      <4>6. \A i \in 1..Len(pending') : pending'[i] = (Taken + 1) + i
        <5>1. \A i \in 1..Len(pending') : i \in 1..Len(rest) \/ i = Len(rest) + 1
          BY <1>4, <2>2, <4>3
        <5>2. pending'[Len(rest) + 1] = (Taken + 1) + (Len(rest) + 1)
          BY <1>3, <1>4, <2>2, <4>3
        <5>3. ASSUME NEW i \in 1..Len(rest) PROVE pending'[i] = (Taken + 1) + i
          BY <2>4, <4>3
        <5> QED BY <5>1, <5>2, <5>3
      <4>7. future' \in [1..MaxRows -> States]
        BY <1>3, <4>1 DEF States
      <4>8. \A c \in 1..MaxRows : /\ c > cut' => future'[c] = future[c]
                                  /\ future'[c] \in {"raised", "broken"} => future'[c] = future[c]
        BY <1>3, <4>1
      <4> QED BY <1>3, <1>4, <4>1, <4>2, <4>3, <4>4, <4>5, <4>6, <4>7, <4>8
    <3>2. CASE ~More
      <4>1. UNCHANGED <<cut, future>> /\ pending' = rest
        BY <2>1, <3>2
      <4>2. cut = Chunks
        BY <1>2, <1>3, <3>0, <3>2 DEF More
      <4>3. Taken' = Taken + 1 /\ Len(rest) \in Nat /\ Len(rest) <= Len(pending)
        <5>1. Taken' = cut' - Len(pending')
          BY DEF Taken
        <5> QED BY <1>3, <1>4, <2>2, <4>1, <5>1
      <4> QED BY <1>3, <2>2, <2>4, <3>0, <4>1, <4>2, <4>3
    <3> QED BY <3>1, <3>2
  <2>6. buffered' \in Seq(1..rows) /\ Len(buffered') < 2 * WriterBatch
    <3>1. buffered \in Seq(1..rows) /\ Len(buffered) < WriterBatch /\ Len(buffered) \in Nat
      BY <1>1, LenProperties DEF QInv, QueueTypes, Written
    <3>2. buffered' \in Seq(1..rows) /\ Len(buffered') = Len(buffered) + Len(t)
      BY <2>1, <2>3, <3>1, ConcatProperties
    <3> QED BY <1>2, <2>3, <3>1, <3>2
  <2>7. QueueTypes'
    BY <1>1, <1>2, <2>1, <2>5, <2>6 DEF QInv, QueueTypes, Stages
  <2>8. InOrder'
    <3>1. MaxInFlight' = MaxInFlight
      BY DEF MaxInFlight
    <3>2. Len(pending') <= MaxInFlight
      BY <1>2, <1>4, <2>5 DEF QInv, InOrder
    <3>3. Len(pending') <= cut'
      BY <1>3, <1>4, <2>5 DEF QInv, InOrder
    <3>4. \A c \in 1..MaxRows : c > cut' => c > cut
      BY <1>2, <1>3, <2>5
    <3>5. \A c \in 1..MaxRows : c > cut' => future'[c] = "none"
      BY <2>5, <3>4 DEF QInv, InOrder
    <3> QED BY <2>5, <3>1, <3>2, <3>3, <3>5 DEF InOrder
  <2>9. Written'
    <3>1. tmp' \o buffered' = Keep(0, ChunkEnd(Taken)', dropped')
      <4>1. ChunkEnd(Taken)' = ChunkEnd(Taken + 1)
        BY <1>1, <2>5 DEF ChunkEnd, ChunkSize
      <4> QED BY <1>1, <2>1, <2>3, <4>1
    <3> QED BY <1>1, <1>2, <2>1, <2>5, <2>6, <3>1 DEF QInv, Written
  <2>10. Faulty'
    BY <1>1, <1>2, <2>1, <2>5 DEF QInv, Faulty
  <2> QED BY <1>1, <2>1, <2>7, <2>8, <2>9, <2>10 DEF QInv, CallOn
<1> QED BY <1>5, <1>6

LEMMA ResultRaisesStep == ASSUME QInv, ResultRaises, UNCHANGED hurt PROVE QInv' /\ CallOn
<1>1. /\ stage = "results" /\ pending # <<>> /\ stage' = "failing"
      /\ future[Head(pending)] \in {"raised", "broken"}
      /\ UNCHANGED <<rows, dropped, cut, pending, future, broken, buffered, tmp, cache, orphans, faults>>
  BY DEF ResultRaises
<1>2. Taken' = Taken /\ MaxInFlight' = MaxInFlight
  BY <1>1 DEF Taken, MaxInFlight
<1>3. Chunks' = Chunks /\ Mapped' = Mapped /\ \A c : ChunkEnd(c)' = ChunkEnd(c)
  BY <1>1, SameData
<1>4. hurt
  <2>1. Head(pending) = pending[1]
    BY <1>1, EmptySeq DEF QInv, QueueTypes
  <2>2. pending[1] \in 1..MaxRows
    <3>1. pending[1] = Taken + 1 /\ Taken + 1 \in 1..Chunks
      BY <1>1, NextChunk
    <3>2. Chunks \in Nat /\ MaxRows \in Nat /\ Chunks <= MaxRows
      BY Sizing DEF QInv
    <3> QED BY <3>1, <3>2
  <2> QED BY <1>1, <2>1, <2>2 DEF QInv, Faulty
<1>5. QueueTypes' /\ InOrder'
  BY <1>1, <1>2, <1>3 DEF QInv, QueueTypes, InOrder, Stages
<1>6. Written'
  BY <1>1, <1>2, <1>3 DEF QInv, Written
<1>7. Faulty'
  BY <1>1, <1>4 DEF Faulty
<1> QED BY <1>1, <1>5, <1>6, <1>7 DEF QInv, CallOn

\* A batch that is written leaves the rows in their order.
BatchMoved(S, s, t, n) ==
    /\ s \o SubSeq(t, 1, n) \in Seq(S) /\ SubSeq(t, n + 1, Len(t)) \in Seq(S)
    /\ Len(SubSeq(t, n + 1, Len(t))) = Len(t) - n
    /\ (s \o SubSeq(t, 1, n)) \o SubSeq(t, n + 1, Len(t)) = s \o t

LEMMA Batch ==
    ASSUME NEW S, NEW s \in Seq(S), NEW t \in Seq(S), NEW n \in Nat, n <= Len(t)
    PROVE  BatchMoved(S, s, t, n)
<1> DEFINE m == Len(t)
           u == SubSeq(t, 1, n)
           v == SubSeq(t, n + 1, m)
<1>1. m \in Nat /\ n <= m /\ \A i \in 1..m : t[i] \in S
  BY LenProperties, ElementOfSeq
<1>2. u \in Seq(S)
  <2>1. \A i \in 1..n : t[i] \in S
    BY <1>1
  <2>2. 1 \in Int /\ n \in Int
    OBVIOUS
  <2> QED BY <2>1, <2>2, SubSeqProperties
<1>3. v \in Seq(S) /\ Len(v) = m - n
  <2>1. n + 1 \in Int /\ m \in Int /\ \A i \in (n + 1)..m : t[i] \in S
    BY <1>1
  <2>2. v \in Seq(S) /\ Len(v) = IF n + 1 <= m THEN m - (n + 1) + 1 ELSE 0
    BY <2>1, SubSeqProperties
  <2> HIDE DEF v, m
  <2> QED BY <1>1, <2>2
<1>4. u \o v = t
  <2>1. 1 \in 1..m + 1 /\ n \in (1 - 1)..m /\ m \in n..m
    BY <1>1
  <2>2. SubSeq(t, 1, n) \o SubSeq(t, n + 1, m) = SubSeq(t, 1, m)
    BY <2>1, ConcatAdjacentSubSeq
  <2>3. SubSeq(t, 1, m) = t
    BY SubSeqFull
  <2> QED BY <2>2, <2>3, Zenon
<1>5. (s \o u) \o v = s \o (u \o v)
  <2>1. \A p, q \in Seq(S) : (s \o p) \o q = s \o (p \o q)
    BY ConcatAssociative
  <2> QED BY <1>2, <1>3, <2>1
<1>6. s \o u \in Seq(S)
  <2> HIDE DEF u
  <2> QED BY <1>2, ConcatProperties
<1> QED BY <1>3, <1>4, <1>5, <1>6 DEF BatchMoved

LEMMA WriteBatchStep == ASSUME QInv, WriteBatch, UNCHANGED hurt PROVE QInv' /\ CallOn
<1>1. /\ stage = "write"
      /\ UNCHANGED <<rows, dropped, cut, pending, future, broken, cache, orphans, faults>>
  BY DEF WriteBatch
<1>2. Taken' = Taken /\ MaxInFlight' = MaxInFlight
  BY <1>1 DEF Taken, MaxInFlight
<1>3. /\ Chunks' = Chunks /\ Mapped' = Mapped /\ \A c : ChunkEnd(c)' = ChunkEnd(c)
      /\ WriterBatch \in Nat \ {0}
  BY <1>1, SameData, Sizing DEF QInv
<1>4. /\ tmp \in Seq(1..rows) /\ buffered \in Seq(1..rows) /\ Len(buffered) \in Nat
      /\ tmp \o buffered = Keep(0, ChunkEnd(Taken), dropped) /\ Len(buffered) < 2 * WriterBatch
  BY <1>1, LenProperties DEF QInv, QueueTypes, Written
<1>5. /\ stage' \in {"write", "results"} /\ tmp' \in Seq(1..rows) /\ buffered' \in Seq(1..rows)
      /\ Len(buffered') < 2 * WriterBatch
      /\ stage' = "results" => Len(buffered') < WriterBatch
      /\ tmp' \o buffered' = tmp \o buffered
  <2>1. CASE Len(buffered) >= WriterBatch
    <3>1. /\ stage' = stage /\ tmp' = tmp \o SubSeq(buffered, 1, WriterBatch)
          /\ buffered' = SubSeq(buffered, WriterBatch + 1, Len(buffered))
      BY <2>1 DEF WriteBatch
    <3>2. WriterBatch \in Nat /\ WriterBatch <= Len(buffered)
      BY <1>3, <1>4, <2>1
    <3>3. /\ tmp' \in Seq(1..rows) /\ buffered' \in Seq(1..rows)
          /\ Len(buffered') = Len(buffered) - WriterBatch
          /\ tmp' \o buffered' = tmp \o buffered
      <4>1. BatchMoved(1..rows, tmp, buffered, WriterBatch)
        BY <1>4, <3>2, Batch
      <4> QED BY <3>1, <4>1 DEF BatchMoved
    <3>4. Len(buffered') < 2 * WriterBatch
      BY <1>3, <1>4, <3>3
    <3> QED BY <1>1, <3>1, <3>3, <3>4
  <2>2. CASE ~(Len(buffered) >= WriterBatch)
    <3>1. stage' = "results" /\ tmp' = tmp /\ buffered' = buffered
      BY <2>2 DEF WriteBatch
    <3>2. Len(buffered) < WriterBatch
      BY <1>3, <1>4, <2>2
    <3> QED BY <1>4, <3>1, <3>2
  <2> QED BY <2>1, <2>2
<1>6. QueueTypes' /\ InOrder'
  BY <1>1, <1>2, <1>3, <1>5 DEF QInv, QueueTypes, InOrder, Stages
<1>7. Written'
  <2>1. tmp' # NoFile
    <3>1. NoFile \notin Seq(1..rows)
      BY MappedIsRows DEF QInv
    <3> QED BY <1>5, <3>1
  <2>2. tmp' \o buffered' = Keep(0, ChunkEnd(Taken)', dropped')
    <3>1. ChunkEnd(Taken)' = ChunkEnd(Taken)
      BY <1>1, <1>2 DEF ChunkEnd, ChunkSize
    <3> QED BY <1>1, <1>4, <1>5, <3>1
  <2>3. /\ stage' \notin {"off", "raised", "fill", "replace"} /\ cache' \in {NoFile, Mapped'}
        /\ tmp' \in Seq(1..rows') /\ (pending' = <<>> => cut' = Chunks')
    BY <1>1, <1>3, <1>5 DEF QInv, Written
  <2>4. /\ stage' = "results" => Len(buffered') < WriterBatch
        /\ Len(buffered') < 2 * WriterBatch
    BY <1>5
  <2> QED BY <2>1, <2>2, <2>3, <2>4 DEF Written
<1>8. Faulty'
  BY <1>1, <1>3, <1>5 DEF QInv, Faulty
<1> QED BY <1>1, <1>5, <1>6, <1>7, <1>8 DEF QInv, CallOn

LEMMA FinalizeStep == ASSUME QInv, Finalize, UNCHANGED hurt PROVE QInv' /\ CallOn
<1>1. /\ stage = "results" /\ pending = <<>> /\ tmp' = tmp \o buffered /\ buffered' = <<>>
      /\ stage' = (IF tmp' = <<>> THEN "failing" ELSE "replace")
      /\ UNCHANGED <<rows, dropped, cut, pending, future, broken, cache, orphans, faults>>
  BY DEF Finalize, Rest
<1>2. Taken' = Taken /\ MaxInFlight' = MaxInFlight
  BY <1>1 DEF Taken, MaxInFlight
<1>3. /\ Chunks' = Chunks /\ Mapped' = Mapped /\ \A c : ChunkEnd(c)' = ChunkEnd(c)
      /\ WriterBatch \in Nat \ {0} /\ Chunks \in Nat
  BY <1>1, SameData, Sizing DEF QInv
<1>4. Taken = Chunks
  <2>1. cut = Chunks
    BY <1>1 DEF QInv, Written
  <2>2. Len(pending) = 0
    BY <1>1, NothingListed
  <2> QED BY <1>3, <2>1, <2>2 DEF Taken
<1>5. tmp' = Mapped
  <2>1. tmp \o buffered = Keep(0, ChunkEnd(Taken), dropped)
    BY <1>1 DEF QInv, Written
  <2>2. ChunkEnd(Chunks) = rows
    BY ChunkEnds DEF QInv
  <2> QED BY <1>1, <1>4, <2>1, <2>2 DEF Mapped
<1>6. Mapped \in Seq(1..rows) /\ Mapped # NoFile
  BY MappedIsRows DEF QInv
<1>7. buffered' \in Seq(1..rows) /\ Len(buffered') = 0
  BY <1>1, NothingListed, EmptySeq
<1>8. QueueTypes' /\ InOrder'
  BY <1>1, <1>2, <1>3, <1>7 DEF QInv, QueueTypes, InOrder, Stages
<1>9. Written'
  BY <1>1, <1>2, <1>3, <1>5, <1>6, <1>7 DEF QInv, Written
<1>10. Faulty'
  BY <1>1, <1>3, <1>5 DEF QInv, Faulty
<1> QED BY <1>1, <1>8, <1>9, <1>10 DEF QInv, CallOn

LEMMA ReplaceStep == ASSUME QInv, Replace, UNCHANGED hurt PROVE QInv' /\ CallOn
<1>1. /\ stage = "replace" /\ cache' = tmp /\ tmp' = NoFile /\ stage' = "off"
      /\ UNCHANGED <<rows, dropped, cut, pending, future, broken, buffered, orphans, faults>>
  BY DEF Replace
<1>2. Taken' = Taken /\ MaxInFlight' = MaxInFlight
  BY <1>1 DEF Taken, MaxInFlight
<1>3. Chunks' = Chunks /\ Mapped' = Mapped /\ \A c : ChunkEnd(c)' = ChunkEnd(c)
  BY <1>1, SameData
<1>4. Mapped # NoFile /\ cache' = Mapped
  BY <1>1, MappedIsRows DEF QInv, Written
<1>5. QueueTypes' /\ InOrder'
  BY <1>1, <1>2, <1>3 DEF QInv, QueueTypes, InOrder, Stages
<1>6. Written'
  BY <1>1, <1>2, <1>3, <1>4 DEF QInv, Written
<1>7. Faulty'
  BY <1>1 DEF Faulty
<1> QED BY <1>1, <1>4, <1>5, <1>6, <1>7 DEF QInv, CallOn

LEMMA FailStep == ASSUME QInv, Fail, UNCHANGED hurt PROVE QInv' /\ CallOn
<1>1. /\ stage = "failing" /\ stage' = "raised" /\ tmp' = NoFile
      /\ UNCHANGED <<rows, dropped, cut, pending, future, broken, buffered, cache, orphans, faults>>
  BY DEF Fail
<1>2. Taken' = Taken /\ MaxInFlight' = MaxInFlight
  BY <1>1 DEF Taken, MaxInFlight
<1>3. Chunks' = Chunks /\ Mapped' = Mapped /\ \A c : ChunkEnd(c)' = ChunkEnd(c)
  BY <1>1, SameData
<1>4. QueueTypes' /\ InOrder'
  BY <1>1, <1>2, <1>3 DEF QInv, QueueTypes, InOrder, Stages
<1>5. Written'
  BY <1>1, <1>2, <1>3 DEF QInv, Written
<1>6. Faulty'
  BY <1>1, <1>3 DEF QInv, Faulty
<1> QED BY <1>1, <1>4, <1>5, <1>6 DEF QInv, CallOn

\* The pool changes futures of chunks that were submitted.
LEMMA PoolStep ==
    ASSUME QInv, UNCHANGED <<rows, dropped, stage, cut, pending, buffered, tmp, cache, orphans>>,
           faults' \in Nat, broken' \in BOOLEAN, future' \in [1..MaxRows -> States],
           \A c \in 1..MaxRows : future[c] = "none" => future'[c] = "none",
           hurt => hurt',
           broken' /\ ~broken => hurt',
           \A c \in 1..MaxRows : future'[c] \in {"raised", "broken"}
                                   => future[c] \in {"raised", "broken"} \/ hurt'
    PROVE  QInv' /\ CallOn
<1>1. Taken' = Taken /\ MaxInFlight' = MaxInFlight
  BY DEF Taken, MaxInFlight
<1>2. Chunks' = Chunks /\ Mapped' = Mapped /\ \A c : ChunkEnd(c)' = ChunkEnd(c)
  BY SameData
<1>3. QueueTypes' /\ InOrder'
  BY <1>1, <1>2 DEF QInv, QueueTypes, InOrder
<1>4. Written'
  BY <1>1, <1>2 DEF QInv, Written
<1>5. Faulty'
  BY <1>2 DEF QInv, Faulty
<1> QED BY <1>3, <1>4, <1>5 DEF QInv, CallOn

LEMMA PoolRuns ==
    ASSUME QInv, Pool, hurt \in BOOLEAN, hurt' = (hurt \/ faults' # faults)
    PROVE  QInv' /\ CallOn /\ faults' \in Nat
<1>1. /\ UNCHANGED <<rows, dropped, stage, cut, pending, broken, buffered, tmp, cache, orphans>>
      /\ future \in [1..MaxRows -> States] /\ faults \in Nat /\ broken \in BOOLEAN
      /\ hurt => hurt'
  BY DEF Pool, PoolTake, PoolDone, QInv, QueueTypes
<1>2. CASE PoolTake
  <2>1. /\ \E c \in Chunk : future[c] = "queued" /\ future' = [future EXCEPT ![c] = "running"]
        /\ faults' = faults
    BY <1>2 DEF PoolTake
  <2>2. PICK c \in Chunk : future[c] = "queued" /\ future' = [future EXCEPT ![c] = "running"]
    BY <2>1
  <2>3. /\ future' \in [1..MaxRows -> States]
        /\ \A d \in 1..MaxRows : future[d] = "none" => future'[d] = "none"
        /\ \A d \in 1..MaxRows : future'[d] \in {"raised", "broken"} => future[d] \in {"raised", "broken"}
    BY <1>1, <2>2 DEF States
  <2> QED BY <1>1, <2>1, <2>3, PoolStep
<1>3. CASE PoolDone
  <2>1. PICK c \in Running :
           \/ future' = [future EXCEPT ![c] = "done"] /\ faults' = faults
           \/ faults' = faults + 1 /\ future' = [future EXCEPT ![c] = "raised"]
    BY <1>3 DEF PoolDone
  <2>2. future[c] = "running"
    BY DEF Running
  <2>3. /\ future' \in [1..MaxRows -> States] /\ faults' \in Nat
        /\ \A d \in 1..MaxRows : future[d] = "none" => future'[d] = "none"
    <3>1. CASE future' = [future EXCEPT ![c] = "done"] /\ faults' = faults
      BY <1>1, <2>2, <3>1 DEF States
    <3>2. CASE faults' = faults + 1 /\ future' = [future EXCEPT ![c] = "raised"]
      <4>1. \A d \in 1..MaxRows : future'[d] = IF d = c THEN "raised" ELSE future[d]
        BY <1>1, <3>2
      <4>2. future' \in [1..MaxRows -> States]
        BY <1>1, <3>2 DEF States
      <4> QED BY <1>1, <2>2, <3>2, <4>1, <4>2
    <3> QED BY <2>1, <3>1, <3>2
  <2>4. ASSUME NEW d \in 1..MaxRows, future'[d] \in {"raised", "broken"}
        PROVE  future[d] \in {"raised", "broken"} \/ hurt'
    <3>1. CASE faults' # faults
      BY <3>1
    <3>2. CASE faults' = faults
      <4>1. future' = [future EXCEPT ![c] = "done"]
        BY <1>1, <2>1, <3>2
      <4> QED BY <1>1, <2>4, <4>1
    <3> QED BY <3>1, <3>2
  <2> QED BY <1>1, <2>3, <2>4, PoolStep
<1> QED BY <1>2, <1>3 DEF Pool

LEMMA PoolDiesStep == ASSUME QInv, PoolDies, hurt' = TRUE PROVE QInv' /\ CallOn
<1>1. /\ UNCHANGED <<rows, dropped, stage, cut, pending, buffered, tmp, cache, orphans>>
      /\ broken' = TRUE /\ faults' = faults + 1
      /\ future' = [c \in DOMAIN future |->
                      IF future[c] \in {"queued", "running"} THEN "broken" ELSE future[c]]
      /\ future \in [1..MaxRows -> States] /\ faults \in Nat
  BY DEF PoolDies, QInv, QueueTypes
<1>2. /\ future' \in [1..MaxRows -> States]
      /\ \A d \in 1..MaxRows : future[d] = "none" => future'[d] = "none"
  BY <1>1 DEF States
<1> QED BY <1>1, <1>2, PoolStep

LEMMA TokenizeStep ==
    ASSUME QInv, Tokenize, UNCHANGED hurt
    PROVE  QInv' /\ stage' = "fill" /\ UNCHANGED <<cache, orphans>>
<1>1. /\ cache = NoFile /\ stage' = "fill" /\ tmp' = <<>> /\ cut' = 0 /\ pending' = <<>>
      /\ buffered' = <<>> /\ future' = [c \in 1..MaxRows |-> "none"] /\ broken' = FALSE
      /\ UNCHANGED <<rows, dropped, cache, orphans, faults>>
  BY DEF Tokenize
<1>2. /\ Chunks' = Chunks /\ Mapped' = Mapped /\ \A c : ChunkEnd(c)' = ChunkEnd(c)
      /\ Chunks \in Nat /\ rows \in Nat /\ MaxInFlight \in Nat \ {0} /\ WriterBatch \in Nat \ {0}
  BY <1>1, SameData, Sizing DEF QInv
<1>3. Len(<<>>) = 0 /\ <<>> \in Seq(1..rows) /\ <<>> \in Seq(Nat) /\ <<>> \o <<>> = <<>>
  <2>1. <<>> \in Seq(1..rows) /\ <<>> \in Seq(Nat)
    BY EmptySeq
  <2> QED BY <2>1, NothingListed, ConcatEmptySeq
<1>4. Taken' = 0
  <2>1. Taken' = cut' - Len(pending')
    BY DEF Taken
  <2>2. Len(pending') = 0 /\ cut' = 0
    BY <1>1, NothingListed
  <2> QED BY <2>1, <2>2
<1>5. QueueTypes'
  <2>1. rows' \in Sizes /\ dropped' \subseteq 1..rows' /\ orphans' \in Nat /\ faults' \in Nat
    BY <1>1 DEF QInv, QueueTypes
  <2>2. cut' \in Nat /\ cut' <= Chunks' /\ broken' \in BOOLEAN /\ stage' \in Stages
    <3>1. cut' = 0 /\ broken' = FALSE /\ stage' = "fill" /\ Chunks' \in Nat
      BY <1>1, <1>2
    <3>2. cut' \in Nat /\ cut' <= Chunks'
      BY <3>1
    <3> QED BY <3>1, <3>2 DEF Stages
  <2>3. pending' \in Seq(Nat) /\ buffered' \in Seq(1..rows')
    BY <1>1, <1>3
  <2>4. future' \in [1..MaxRows -> States]
    BY <1>1 DEF States
  <2> QED BY <2>1, <2>2, <2>3, <2>4 DEF QueueTypes
<1>6. InOrder'
  <2>1. MaxInFlight' = MaxInFlight
    BY DEF MaxInFlight
  <2> QED BY <1>1, <1>2, <1>3, <2>1 DEF InOrder
<1>7. Written'
  <2>1. tmp' # NoFile
    <3>1. NoFile \notin Seq(1..rows)
      BY MappedIsRows DEF QInv
    <3> QED BY <1>1, <1>3, <3>1
  <2>2. Keep(0, ChunkEnd(Taken)', dropped') = <<>>
    <3>1. ChunkEnd(Taken)' = ChunkEnd(0)
      BY <1>1, <1>4 DEF ChunkEnd, ChunkSize
    <3>2. ChunkEnd(0) = 0
      BY ChunkEnds DEF QInv
    <3>3. Keep(0, 0, dropped) = <<>>
      <4>1. 0 \in Nat /\ 0 <= 0
        OBVIOUS
      <4> QED BY <4>1, KeepEquations
    <3> QED BY <1>1, <3>1, <3>2, <3>3
  <2> QED BY <1>1, <1>2, <1>3, <1>4, <2>1, <2>2 DEF QInv, Written
<1>8. Faulty'
  BY <1>1 DEF Faulty
<1> QED BY <1>1, <1>5, <1>6, <1>7, <1>8 DEF QInv

-----------------------------------------------------------------------------
(* The steps of the ranks.                                                 *)

\* How many ranks are at one of the places, when one of them moves.
CountIn(f, P) == SizeIn(Rank, f, P)

LEMMA CountBounds ==
    ASSUME NEW f, NEW P
    PROVE  /\ CountIn(f, P) \in Nat /\ CountIn(f, P) <= Cardinality(Rank)
           /\ Cardinality(Rank) \in Nat
           /\ CountIn(f, P) = 0 <=> \A x \in Rank : f[x] \notin P
BY SizeInBounds, PreparationAssumption DEF CountIn

LEMMA CountMoves ==
    ASSUME NEW f \in [Rank -> Places], NEW P, NEW r \in Rank, NEW to
    PROVE  LET g == [f EXCEPT ![r] = to] IN
           /\ (f[r] \in P <=> to \in P) => CountIn(g, P) = CountIn(f, P)
           /\ f[r] \in P /\ to \notin P => CountIn(g, P) = CountIn(f, P) - 1
           /\ f[r] \notin P /\ to \in P => CountIn(g, P) = CountIn(f, P) + 1
<1> DEFINE g == [f EXCEPT ![r] = to]
<1>1. IsFiniteSet(Rank) /\ g[r] = to /\ \A x \in Rank \ {r} : g[x] = f[x]
  BY PreparationAssumption
<1> HIDE DEF g
<1>2. /\ (f[r] \in P <=> to \in P) => SizeIn(Rank, g, P) = SizeIn(Rank, f, P)
      /\ f[r] \in P /\ to \notin P => SizeIn(Rank, g, P) = SizeIn(Rank, f, P) - 1
      /\ f[r] \notin P /\ to \in P => SizeIn(Rank, g, P) = SizeIn(Rank, f, P) + 1
  BY <1>1, SizeInMoves
<1> QED BY <1>2 DEF CountIn, g

\* Where the holder of the lock is says who is at the places inside it.
LEMMA OnlyHolder ==
    ASSUME NEW f, NEW l, \A s \in Rank : l = s <=> f[s] \in Holding
    PROVE  /\ \A r \in Rank : f[r] \in Holding =>
                 \A q \in Holding : \A s \in Rank : f[s] = q => s = r
           /\ l = NoRank => \A q \in Holding : \A s \in Rank : f[s] # q
<1>1. NoRank \notin Rank
  BY PreparationAssumption
<1> QED BY <1>1

LEMMA LockMoves ==
    ASSUME IInv, NEW r \in Rank, NEW from, NEW to, Go(r, from, to),
           \/ from \in Holding /\ to \in Holding /\ lock' = lock
           \/ from \notin Holding /\ to \in Holding /\ lock = NoRank /\ lock' = r
           \/ from \in Holding /\ to \notin Holding /\ lock' = NoRank
           \/ from \notin Holding /\ to \notin Holding /\ lock' = lock
    PROVE  LockShape' /\ lock' \in Rank \cup {NoRank}
<1>1. NoRank \notin Rank /\ lock \in Rank \cup {NoRank}
  BY PreparationAssumption DEF IInv, RankTypes
<1>2. /\ at[r] = from /\ \A s \in Rank : at'[s] = IF s = r THEN to ELSE at[s]
      /\ \A s \in Rank : lock = s <=> at[s] \in Holding
  BY DEF IInv, RankTypes, LockShape, Go
<1> HIDE DEF Holding
<1> QED BY <1>1, <1>2 DEF LockShape

\* A step that leaves the queue alone.
LEMMA QueueKept ==
    ASSUME QInv, UNCHANGED queueVars, faults' \in Nat, stage = "off" \/ (hurt => hurt')
    PROVE  QInv'
<1>1. UNCHANGED <<rows, dropped, stage, cut, pending, future, broken, buffered, tmp, cache, orphans>>
  BY DEF queueVars
<1>2. Taken' = Taken /\ MaxInFlight' = MaxInFlight
  BY <1>1 DEF Taken, MaxInFlight
<1>3. Chunks' = Chunks /\ Mapped' = Mapped /\ \A c : ChunkEnd(c)' = ChunkEnd(c)
  BY <1>1, SameData
<1>4. QueueTypes' /\ InOrder'
  BY <1>1, <1>2, <1>3 DEF QInv, QueueTypes, InOrder
<1>5. Written'
  BY <1>1, <1>2, <1>3 DEF QInv, Written
<1>6. Faulty'
  BY <1>1, <1>3 DEF QInv, Faulty
<1> QED BY <1>4, <1>5, <1>6 DEF QInv

LEMMA QuietMove ==
    ASSUME IInv, NEW r \in Rank, NEW from, NEW to, Go(r, from, to),
           from # "tokenize", to # "tokenize",
           UNCHANGED <<queueVars, dead>>, faults' \in Nat, hurt => hurt'
    PROVE  QInv' /\ Caller'
<1>1. QInv'
  BY QueueKept DEF IInv, QInv
<1>2. \A s \in Rank : at'[s] = "tokenize" <=> at[s] = "tokenize"
  BY DEF IInv, RankTypes, Go
<1>3. Tokenizing' = Tokenizing
  BY <1>2 DEF Tokenizing
<1>4. Caller'
  BY <1>3 DEF IInv, Caller, queueVars
<1> QED BY <1>1, <1>4

YetToCount == {"start", "count", "counted"}
Rewriting == {"counted", "recount", "unlink"}

LEMMA CountsAre ==
    /\ NInside = CountIn(at, Inside) /\ NYetToCount = CountIn(at, YetToCount)
    /\ NInside' = CountIn(at', Inside) /\ NYetToCount' = CountIn(at', YetToCount)
BY DEF NInside, NYetToCount, CountIn, SizeIn, YetToCount

\* A step that counts nobody and leaves the counter alone.
LEMMA CountsKept ==
    ASSUME IInv, NEW r \in Rank, NEW from, NEW to, Go(r, from, to),
           from \in Inside <=> to \in Inside, from \in YetToCount <=> to \in YetToCount,
           from \notin Rewriting, to \notin Rewriting,
           UNCHANGED <<count, counter, run, dead>>, flag' => flag \/ from \in Inside
    PROVE  Counted' /\ CountBounded'
<1>1. at \in [Rank -> Places] /\ at[r] = from /\ at' = [at EXCEPT ![r] = to]
  BY DEF IInv, RankTypes, Go
<1>2. NInside' = NInside /\ NYetToCount' = NYetToCount
  BY <1>1, CountsAre, CountMoves
<1>3. \A q \in Rewriting : Holder(q)' <=> Holder(q)
  BY <1>1 DEF Holder
<1>4. from \in Inside => NInside >= 1
  <2>1. CountIn(at, Inside) \in Nat /\ (CountIn(at, Inside) = 0 <=> \A x \in Rank : at[x] \notin Inside)
    BY CountBounds
  <2> QED BY <1>1, <2>1, CountsAre
<1>5. Most' = Most
  BY <1>2 DEF Most
<1>6. Counted'
  BY <1>2, <1>3, <1>4 DEF IInv, Counted, Rewriting
<1>7. CountBounded'
  BY <1>3, <1>5 DEF IInv, CountBounded, Rewriting
<1> QED BY <1>6, <1>7

\* A step that changes at most one rank's data and not the directory.
LEMMA DataMoves ==
    ASSUME IInv, NEW r \in Rank, NEW from, NEW to, NEW d \in {NoFile, Mapped},
           Go(r, from, to),
           UNCHANGED <<rows, dropped, prepared, content>>, hurt => hurt',
           data' = [data EXCEPT ![r] = d],
           to \in {"save", "loaded"} => d # NoFile, to = "raised" => d = NoFile,
           to \in {"tokenize", "save"} => prepared = "none", to # "saving",
           to \in Failed /\ d = NoFile =>
             hurt' \/ Mapped = <<>> \/ (prepared = "partial" /\ \A s \in Rank : at[s] # "saving")
    PROVE  Data' /\ Causes'
<1>1. /\ at[r] = from /\ \A s \in Rank : at'[s] = IF s = r THEN to ELSE at[s]
      /\ data \in [Rank -> {NoFile, Mapped}]
      /\ \A s \in Rank : data'[s] = IF s = r THEN d ELSE data[s]
  BY DEF IInv, RankTypes, Data, Go
<1>2. Mapped' = Mapped
  BY SameData
<1>3. Data'
  <2>1. data' \in [Rank -> {NoFile, Mapped'}]
    BY <1>1, <1>2
  <2> QED BY <1>1, <1>2, <2>1 DEF IInv, Data
<1>4. Causes'
  BY <1>1, <1>2 DEF IInv, Causes
<1> QED BY <1>3, <1>4

LEMMA DataStays ==
    ASSUME IInv, NEW r \in Rank, NEW from, NEW to, Go(r, from, to),
           UNCHANGED <<rows, dropped, prepared, content, data>>, hurt => hurt',
           to \in {"save", "loaded"} => data[r] # NoFile, to = "raised" => data[r] = NoFile,
           to \in {"tokenize", "save"} => prepared = "none", to # "saving",
           to \in Failed /\ data[r] = NoFile => from \in Failed \/
             hurt' \/ Mapped = <<>> \/ (prepared = "partial" /\ \A s \in Rank : at[s] # "saving")
    PROVE  Data' /\ Causes'
<1>1. data \in [Rank -> {NoFile, Mapped}]
  BY DEF IInv, Data
<1>2. data' = [data EXCEPT ![r] = data[r]] /\ data[r] \in {NoFile, Mapped}
  BY <1>1
<1>3. to \in Failed /\ data[r] = NoFile =>
        hurt' \/ Mapped = <<>> \/ (prepared = "partial" /\ \A s \in Rank : at[s] # "saving")
  BY DEF IInv, Causes, Go
<1> QED BY <1>2, <1>3, DataMoves

\* What the conjuncts are, one by one.
LEMMA Whole ==
    ASSUME QInv', RankTypes', LockShape', Caller', Data', Causes', Counted', CountBounded'
    PROVE  IInv'
BY DEF IInv, QInv

\* The holder of the lock is the only one at the places inside it.
LEMMA Alone ==
    ASSUME IInv, NEW r \in Rank, at[r] \in Holding
    PROVE  \A q \in Holding : \A s \in Rank : at[s] = q => s = r
BY OnlyHolder DEF IInv, LockShape

LEMMA NoneInside ==
    ASSUME IInv, lock = NoRank
    PROVE  \A q \in Holding : \A s \in Rank : at[s] # q
BY OnlyHolder DEF IInv, LockShape

LEMMA LoadLockStep == ASSUME IInv, NEW r \in Rank, LoadLock(r) PROVE IInv'
<1>1. /\ Go(r, "start", "count") /\ lock = NoRank /\ lock' = r
      /\ UNCHANGED <<queueVars, faults, data, first, count, files, run, dead, hurt>>
  BY DEF LoadLock, Locked
<1>2. UNCHANGED <<rows, dropped, flag, counter, prepared, content>> /\ faults \in Nat
  BY <1>1 DEF queueVars, files, IInv, QueueTypes
<1>3. LockShape' /\ lock' \in Rank \cup {NoRank}
  BY <1>1, LockMoves DEF Holding
<1>4. QInv' /\ Caller'
  BY <1>1, <1>2, QuietMove
<1>5. Counted' /\ CountBounded'
  BY <1>1, <1>2, CountsKept DEF Inside, YetToCount, Rewriting
<1>6. Data' /\ Causes'
  BY <1>1, <1>2, DataStays DEF Failed
<1>7. RankTypes'
  BY <1>1, <1>2, <1>3 DEF IInv, RankTypes, Go, Places
<1> QED BY <1>3, <1>4, <1>5, <1>6, <1>7, Whole

LEMMA TruncateStep == ASSUME IInv, NEW r \in Rank, Truncate(r) PROVE IInv'
<1>1. /\ Go(r, "count", "counted") /\ counter' = 0 /\ count' = Value + 1
      /\ UNCHANGED <<queueVars, faults, data, lock, first, flag, prepared, content, run, dead, hurt>>
  BY DEF Truncate
<1>2. UNCHANGED <<rows, dropped>> /\ faults \in Nat /\ counter \in Int
  BY <1>1 DEF queueVars, IInv, QueueTypes, CountBounded
<1>3. LockShape' /\ lock' \in Rank \cup {NoRank}
  BY <1>1, LockMoves DEF Holding
<1>4. QInv' /\ Caller'
  BY <1>1, <1>2, QuietMove
<1>5. Data' /\ Causes'
  BY <1>1, <1>2, DataStays DEF Failed
<1>6. RankTypes'
  BY <1>1, <1>2, <1>3 DEF IInv, RankTypes, Go, Places, Value
<1>7. at \in [Rank -> Places] /\ at[r] = "count" /\ at' = [at EXCEPT ![r] = "counted"]
  BY <1>1 DEF IInv, RankTypes, Go
<1>8. NInside' = NInside /\ NYetToCount' = NYetToCount
  BY <1>7, CountsAre, CountMoves DEF Inside, YetToCount
<1>9. ~Holder("counted") /\ ~Holder("recount") /\ ~Holder("unlink")
      /\ ~Holder("recount")' /\ ~Holder("unlink")'
  BY <1>7, Alone DEF Holder, Holding
<1>10. Counted'
  <2>1. NInside \in Nat
    BY CountsAre, CountBounds
  <2>2. ~dead => Value = NInside
    BY <1>9, <2>1 DEF IInv, Counted, Value
  <2>3. Holder("counted")'
    BY <1>7 DEF Holder
  <2>4. ~dead' => count' = NInside' + 1
    BY <1>1, <1>8, <2>1, <2>2
  <2>5. ~dead' => (flag' => NInside' >= 1)
    BY <1>1, <1>8 DEF IInv, Counted
  <2> QED BY <1>9, <2>3, <2>4, <2>5 DEF Counted
<1>11. Most \in Nat /\ Most' = Most
  <2>1. run \in Nat /\ run >= 1
    BY DEF IInv, RankTypes
  <2>2. Cardinality(Rank) \in Nat /\ NYetToCount \in Nat /\ NYetToCount <= Cardinality(Rank)
    BY CountsAre, CountBounds
  <2>3. 1 * Cardinality(Rank) <= run * Cardinality(Rank)
    BY <2>1, <2>2, TimesMonotone
  <2>4. Most \in Nat
    BY <2>1, <2>2, <2>3 DEF Most
  <2> QED BY <1>1, <1>8, <2>4 DEF Most
<1>12. CountBounded'
  BY <1>1, <1>2, <1>9, <1>11 DEF IInv, CountBounded, Value
<1> QED BY <1>3, <1>4, <1>5, <1>6, <1>10, <1>12, Whole

LEMMA CountStep == ASSUME IInv, NEW r \in Rank, Count(r) PROVE IInv'
<1>1. /\ Go(r, "counted", "load") /\ counter' = count /\ first' = ~flag
      /\ UNCHANGED <<queueVars, faults, data, lock, count, flag, prepared, content, run, dead, hurt>>
  BY DEF Count
<1>2. UNCHANGED <<rows, dropped>> /\ faults \in Nat
  BY <1>1 DEF queueVars, IInv, QueueTypes
<1>3. LockShape' /\ lock' \in Rank \cup {NoRank}
  BY <1>1, LockMoves DEF Holding
<1>4. QInv' /\ Caller'
  BY <1>1, <1>2, QuietMove
<1>5. Data' /\ Causes'
  BY <1>1, <1>2, DataStays DEF Failed
<1>6. RankTypes'
  BY <1>1, <1>2, <1>3 DEF IInv, RankTypes, Go, Places, Inside
<1>7. at \in [Rank -> Places] /\ at[r] = "counted" /\ at' = [at EXCEPT ![r] = "load"]
  BY <1>1 DEF IInv, RankTypes, Go
<1>8. NInside' = NInside + 1 /\ NYetToCount' = NYetToCount - 1
      /\ NInside \in Nat /\ NYetToCount \in Nat /\ Cardinality(Rank) \in Nat
  <2>1. NInside' = NInside + 1
    BY <1>7, CountsAre, CountMoves DEF Inside
  <2>2. NYetToCount' = NYetToCount - 1
    <3>1. "counted" \in YetToCount /\ "load" \notin YetToCount
      BY DEF YetToCount
    <3> QED BY <1>7, <3>1, CountsAre, CountMoves
  <2> QED BY <2>1, <2>2, CountsAre, CountBounds
<1>9. Holder("counted") /\ ~Holder("counted")' /\ ~Holder("recount")' /\ ~Holder("unlink")'
  BY <1>7, Alone DEF Holder, Holding
<1>10. Counted'
  BY <1>1, <1>8, <1>9 DEF IInv, Counted
<1>11. Most' = Most + 1
  <2>1. run \in Nat /\ run' = run
    BY <1>1 DEF IInv, RankTypes
  <2>2. Cardinality(Rank) * run \in Nat
    BY <1>8, <2>1
  <2> QED BY <1>8, <2>1, <2>2 DEF Most
<1>12. CountBounded'
  BY <1>1, <1>9, <1>11 DEF IInv, CountBounded, RankTypes
<1> QED BY <1>3, <1>4, <1>5, <1>6, <1>10, <1>12, Whole

LEMMA LoadPreparedStep == ASSUME IInv, NEW r \in Rank, LoadPrepared(r) PROVE IInv'
<1>1. /\ at[r] = "load" /\ prepared # "none"
      /\ UNCHANGED <<queueVars, faults, lock, first, count, files, run, dead, hurt>>
      /\ IF prepared = "whole"
           THEN Go(r, "load", "loaded") /\ data' = [data EXCEPT ![r] = content]
           ELSE Go(r, "load", "leave") /\ UNCHANGED data
  BY DEF LoadPrepared
<1>2. UNCHANGED <<rows, dropped, flag, counter, prepared, content>> /\ faults \in Nat
  BY <1>1 DEF queueVars, files, IInv, QueueTypes
<1>3. CASE prepared = "whole"
  <2>1. Go(r, "load", "loaded") /\ data' = [data EXCEPT ![r] = Mapped] /\ Mapped # NoFile
    BY <1>1, <1>3, MappedIsRows DEF IInv, Data
  <2>2. LockShape' /\ lock' \in Rank \cup {NoRank}
    BY <1>1, <2>1, LockMoves DEF Holding
  <2>3. QInv' /\ Caller'
    BY <1>1, <1>2, <2>1, QuietMove
  <2>4. Counted' /\ CountBounded'
    BY <1>1, <1>2, <2>1, CountsKept DEF Inside, YetToCount, Rewriting
  <2>5. Data' /\ Causes'
    BY <1>1, <1>2, <2>1, DataMoves DEF Failed
  <2>6. RankTypes'
    BY <1>1, <1>2, <2>1, <2>2 DEF IInv, RankTypes, Go, Places, Inside
  <2> QED BY <2>2, <2>3, <2>4, <2>5, <2>6, Whole
<1>4. CASE prepared # "whole"
  <2>1. Go(r, "load", "leave") /\ data' = data
    BY <1>1, <1>4
  <2>2. LockShape' /\ lock' \in Rank \cup {NoRank}
    BY <1>1, <2>1, LockMoves DEF Holding
  <2>3. QInv' /\ Caller'
    BY <1>1, <1>2, <2>1, QuietMove
  <2>4. Counted' /\ CountBounded'
    BY <1>1, <1>2, <2>1, CountsKept DEF Inside, YetToCount, Rewriting
  <2>5. prepared = "partial" /\ \A s \in Rank : at[s] # "saving"
    <3>1. \A s \in Rank : at[s] = "saving" => s = r
      BY <1>1, Alone DEF Holding
    <3> QED BY <1>1, <1>4, <3>1 DEF IInv, RankTypes
  <2>6. Data' /\ Causes'
    BY <1>1, <1>2, <2>1, <2>5, DataStays DEF Failed
  <2>7. RankTypes'
    BY <1>1, <1>2, <2>1, <2>2 DEF IInv, RankTypes, Go, Places, Inside
  <2> QED BY <2>2, <2>3, <2>4, <2>6, <2>7, Whole
<1> QED BY <1>3, <1>4

LEMMA UseCacheStep == ASSUME IInv, NEW r \in Rank, UseCache(r) PROVE IInv'
<1>1. /\ Go(r, "load", "save") /\ prepared = "none" /\ cache # NoFile
      /\ data' = [data EXCEPT ![r] = cache]
      /\ UNCHANGED <<queueVars, faults, lock, first, count, files, run, dead, hurt>>
  BY DEF UseCache
<1>2. UNCHANGED <<rows, dropped, flag, counter, prepared, content>> /\ faults \in Nat
  BY <1>1 DEF queueVars, files, IInv, QueueTypes
<1>3. LockShape' /\ lock' \in Rank \cup {NoRank}
  BY <1>1, LockMoves DEF Holding
<1>4. QInv' /\ Caller'
  BY <1>1, <1>2, QuietMove
<1>5. Counted' /\ CountBounded'
  BY <1>1, <1>2, CountsKept DEF Inside, YetToCount, Rewriting
<1>6. Data' /\ Causes'
  <2>1. cache = Mapped /\ Mapped # NoFile
    BY <1>1, MappedIsRows DEF IInv, Written
  <2>2. data' = [data EXCEPT ![r] = Mapped]
    BY <1>1, <2>1
  <2>3. "save" \notin Failed /\ Mapped \in {NoFile, Mapped}
    BY DEF Failed
  <2>4. /\ Go(r, "load", "save") /\ UNCHANGED <<rows, dropped, prepared, content>>
        /\ (hurt => hurt') /\ prepared = "none"
    BY <1>1, <1>2
  <2> QED BY <2>1, <2>2, <2>3, <2>4, DataMoves
<1>7. RankTypes'
  BY <1>1, <1>2, <1>3 DEF IInv, RankTypes, Go, Places, Inside
<1> QED BY <1>3, <1>4, <1>5, <1>6, <1>7, Whole

LEMMA BeginTokenizingStep == ASSUME IInv, NEW r \in Rank, BeginTokenizing(r) PROVE IInv'
<1>1. /\ Go(r, "load", "tokenize") /\ prepared = "none" /\ Tokenize
      /\ UNCHANGED <<data, lock, first, count, files, run, dead, hurt>>
  BY DEF BeginTokenizing
<1>2. UNCHANGED <<rows, dropped, flag, counter, prepared, content, faults>> /\ faults \in Nat
  BY <1>1 DEF Tokenize, files, IInv, QueueTypes
<1>3. LockShape' /\ lock' \in Rank \cup {NoRank}
  BY <1>1, LockMoves DEF Holding
<1>4. QInv' /\ stage' = "fill" /\ UNCHANGED <<cache, orphans>>
  BY <1>1, TokenizeStep DEF IInv, QInv
<1>5. Caller'
  <2>1. Tokenizing'
    BY <1>1 DEF Tokenizing, Go, IInv, RankTypes
  <2> QED BY <1>1, <1>4, <2>1 DEF IInv, Caller
<1>6. Counted' /\ CountBounded'
  BY <1>1, <1>2, CountsKept DEF Inside, YetToCount, Rewriting
<1>7. Data' /\ Causes'
  BY <1>1, <1>2, DataStays DEF Failed
<1>8. RankTypes'
  BY <1>1, <1>2, <1>3 DEF IInv, RankTypes, Go, Places, Inside
<1> QED BY <1>3, <1>4, <1>5, <1>6, <1>7, <1>8, Whole

LEMMA EndTokenizingStep == ASSUME IInv, NEW r \in Rank, EndTokenizing(r) PROVE IInv'
<1>1. /\ at[r] = "tokenize" /\ stage \in {"off", "raised"} /\ stage' = "off"
      /\ IF stage = "off"
           THEN Go(r, "tokenize", "save") /\ data' = [data EXCEPT ![r] = cache]
           ELSE Go(r, "tokenize", "leave") /\ UNCHANGED data
      /\ UNCHANGED <<rows, dropped, cut, pending, future, broken, buffered, tmp, cache, orphans,
                     faults, lock, first, count, files, run, dead, hurt>>
  BY DEF EndTokenizing
<1>2. UNCHANGED <<flag, counter, prepared, content>> /\ faults \in Nat
  BY <1>1 DEF files, IInv, QueueTypes
<1>3. PICK to \in {"save", "leave"} : Go(r, "tokenize", to)
  BY <1>1
<1>4. LockShape' /\ lock' \in Rank \cup {NoRank}
  BY <1>1, <1>3, LockMoves DEF Holding
<1>5. QInv'
  <2>1. Taken' = Taken /\ MaxInFlight' = MaxInFlight
    BY <1>1 DEF Taken, MaxInFlight
  <2>2. Chunks' = Chunks /\ Mapped' = Mapped /\ \A c : ChunkEnd(c)' = ChunkEnd(c)
    BY <1>1, SameData
  <2>3. QueueTypes' /\ InOrder'
    BY <1>1, <2>1, <2>2 DEF IInv, QueueTypes, InOrder, Stages
  <2>4. Written'
    BY <1>1, <2>1, <2>2 DEF IInv, Written
  <2>5. Faulty'
    BY <1>1 DEF Faulty
  <2> QED BY <2>3, <2>4, <2>5 DEF QInv
<1>6. Caller'
  <2>1. \A s \in Rank : at[s] = "tokenize" => s = r
    BY <1>1, Alone DEF Holding
  <2>2. ~Tokenizing'
    BY <1>3, <2>1 DEF Tokenizing, Go, IInv, RankTypes
  <2> QED BY <1>1, <2>2 DEF IInv, Caller
<1>7. Counted' /\ CountBounded'
  BY <1>1, <1>2, <1>3, CountsKept DEF Inside, YetToCount, Rewriting
<1>8. Data' /\ Causes'
  <2>0. prepared = "none"
    BY <1>1 DEF IInv, Data
  <2>1. CASE stage = "off"
    <3>1. cache = Mapped /\ Mapped # NoFile
      BY <1>1, <2>1, MappedIsRows DEF IInv, Written, Caller, Tokenizing
    <3>2. Go(r, "tokenize", "save") /\ data' = [data EXCEPT ![r] = Mapped]
      BY <1>1, <2>1, <3>1
    <3>3. "save" \notin Failed /\ Mapped \in {NoFile, Mapped}
      BY DEF Failed
    <3>4. UNCHANGED <<rows, dropped, prepared, content>> /\ (hurt => hurt')
      BY <1>1, <1>2
    <3> QED BY <2>0, <3>1, <3>2, <3>3, <3>4, DataMoves
  <2>2. CASE stage = "raised"
    <3>1. hurt \/ Mapped = <<>>
      BY <2>2 DEF IInv, Faulty
    <3>2. Go(r, "tokenize", "leave") /\ data' = data
      BY <1>1, <2>2
    <3> QED BY <1>1, <1>2, <3>1, <3>2, DataStays DEF Failed
  <2> QED BY <1>1, <2>1, <2>2
<1>9. RankTypes'
  BY <1>1, <1>2, <1>3, <1>4 DEF IInv, RankTypes, Go, Places, Inside
<1> QED BY <1>4, <1>5, <1>6, <1>7, <1>8, <1>9, Whole

LEMMA SaveBeginStep == ASSUME IInv, NEW r \in Rank, SaveBegin(r) PROVE IInv'
<1>1. /\ Go(r, "save", "saving") /\ prepared' = "partial"
      /\ UNCHANGED <<queueVars, faults, data, lock, first, count, flag, counter, content, run, dead, hurt>>
  BY DEF SaveBegin
<1>2. UNCHANGED <<rows, dropped>> /\ faults \in Nat /\ Mapped' = Mapped
  BY <1>1, SameData DEF queueVars, IInv, QueueTypes
<1>3. LockShape' /\ lock' \in Rank \cup {NoRank}
  BY <1>1, LockMoves DEF Holding
<1>4. QInv' /\ Caller'
  BY <1>1, <1>2, QuietMove
<1>5. Counted' /\ CountBounded'
  BY <1>1, <1>2, CountsKept DEF Inside, YetToCount, Rewriting
<1>6. /\ at[r] = "save" /\ \A s \in Rank : at'[s] = IF s = r THEN "saving" ELSE at[s]
      /\ prepared = "none"
  BY <1>1 DEF IInv, RankTypes, Go, Data
<1>7. \A s \in Rank : at[s] \in {"tokenize", "save", "saving"} => s = r
  BY <1>6, Alone DEF Holding
<1>8. Data'
  BY <1>1, <1>2, <1>6, <1>7 DEF IInv, Data
<1>9. Causes'
  BY <1>1, <1>2, <1>6 DEF IInv, Causes, Failed
<1>10. RankTypes'
  BY <1>1, <1>2, <1>3 DEF IInv, RankTypes, Go, Places, Inside
<1> QED BY <1>3, <1>4, <1>5, <1>8, <1>9, <1>10, Whole

LEMMA SaveEndStep == ASSUME IInv, NEW r \in Rank, SaveEnd(r) PROVE IInv'
<1>1. /\ at[r] = "saving"
      /\ UNCHANGED <<queueVars, lock, first, count, flag, counter, run, dead>>
      /\ \/ /\ prepared' = "whole" /\ content' = data[r]
            /\ Go(r, "saving", "loaded") /\ UNCHANGED <<data, faults, hurt>>
         \/ /\ faults' = faults + 1 /\ hurt' = TRUE
            /\ Go(r, "saving", "leave") /\ data' = [data EXCEPT ![r] = NoFile]
            /\ UNCHANGED <<prepared, content>>
  BY DEF SaveEnd
<1>2. /\ UNCHANGED <<rows, dropped>> /\ faults' \in Nat /\ Mapped' = Mapped /\ hurt' \in BOOLEAN
      /\ hurt => hurt'
  <2>1. UNCHANGED <<rows, dropped>>
    BY <1>1 DEF queueVars
  <2>2. faults' \in Nat
    BY <1>1 DEF IInv, QueueTypes
  <2>3. hurt' \in BOOLEAN /\ (hurt => hurt')
    BY <1>1 DEF IInv, RankTypes
  <2> QED BY <2>1, <2>2, <2>3, SameData
<1>3. PICK to \in {"loaded", "leave"} : Go(r, "saving", to)
  BY <1>1
<1>4. LockShape' /\ lock' \in Rank \cup {NoRank}
  BY <1>1, <1>3, LockMoves DEF Holding
<1>5. QInv' /\ Caller'
  BY <1>1, <1>2, <1>3, QuietMove
<1>6. Counted' /\ CountBounded'
  BY <1>1, <1>2, <1>3, CountsKept DEF Inside, YetToCount, Rewriting
<1>7. \A s \in Rank : at[s] \in {"tokenize", "save", "saving"} => s = r
  BY <1>1, Alone DEF Holding
<1>8. Data' /\ Causes'
  <2>1. CASE /\ prepared' = "whole" /\ content' = data[r]
             /\ Go(r, "saving", "loaded") /\ UNCHANGED <<data, faults, hurt>>
    <3>1. \A s \in Rank : at'[s] = IF s = r THEN "loaded" ELSE at[s]
      BY <2>1 DEF IInv, RankTypes, Go
    <3>2. data[r] = Mapped
      BY <1>1 DEF IInv, Data
    <3>3. Data'
      BY <1>1, <1>2, <1>7, <2>1, <3>1, <3>2 DEF IInv, Data
    <3>4. Causes'
      BY <1>1, <1>2, <2>1, <3>1 DEF IInv, Causes, Failed
    <3> QED BY <3>3, <3>4
  <2>2. CASE /\ faults' = faults + 1 /\ hurt' = TRUE
             /\ Go(r, "saving", "leave") /\ data' = [data EXCEPT ![r] = NoFile]
             /\ UNCHANGED <<prepared, content>>
    BY <1>2, <2>2, DataMoves
  <2> QED BY <1>1, <2>1, <2>2
<1>9. RankTypes'
  <2>1. prepared' \in {"none", "partial", "whole"}
    BY <1>1 DEF IInv, RankTypes
  <2> QED BY <1>1, <1>2, <1>3, <1>4, <2>1 DEF IInv, RankTypes, Go, Places, Inside
<1> QED BY <1>4, <1>5, <1>6, <1>8, <1>9, Whole

LEMMA LoadedStep == ASSUME IInv, NEW r \in Rank, Loaded(r) PROVE IInv'
<1>1. /\ Go(r, "loaded", "cleanup") /\ flag' = (flag \/ first) /\ lock' = NoRank
      /\ UNCHANGED <<queueVars, faults, data, first, count, counter, prepared, content, run, dead, hurt>>
  BY DEF Loaded
<1>2. UNCHANGED <<rows, dropped>> /\ faults \in Nat
  BY <1>1 DEF queueVars, IInv, QueueTypes
<1>3. LockShape' /\ lock' \in Rank \cup {NoRank}
  BY <1>1, LockMoves DEF Holding
<1>4. QInv' /\ Caller'
  BY <1>1, <1>2, QuietMove
<1>5. Counted' /\ CountBounded'
  BY <1>1, <1>2, CountsKept DEF Inside, YetToCount, Rewriting
<1>6. Data' /\ Causes'
  <2>1. data[r] # NoFile
    BY <1>1 DEF IInv, Data, Go
  <2> QED BY <1>1, <1>2, <2>1, DataStays
<1>7. RankTypes'
  BY <1>1, <1>2, <1>3 DEF IInv, RankTypes, Go, Places, Inside
<1> QED BY <1>3, <1>4, <1>5, <1>6, <1>7, Whole

LEMMA LeaveLoadStep == ASSUME IInv, NEW r \in Rank, LeaveLoad(r) PROVE IInv'
<1>1. /\ Go(r, "leave", "cleanup") /\ lock' = NoRank
      /\ UNCHANGED <<queueVars, faults, data, first, count, files, run, dead, hurt>>
  BY DEF LeaveLoad, Freed
<1>2. UNCHANGED <<rows, dropped, flag, counter, prepared, content>> /\ faults \in Nat
  BY <1>1 DEF queueVars, files, IInv, QueueTypes
<1>3. LockShape' /\ lock' \in Rank \cup {NoRank}
  BY <1>1, LockMoves DEF Holding
<1>4. QInv' /\ Caller'
  BY <1>1, <1>2, QuietMove
<1>5. Counted' /\ CountBounded'
  BY <1>1, <1>2, CountsKept DEF Inside, YetToCount, Rewriting
<1>6. Data' /\ Causes'
  BY <1>1, <1>2, DataStays DEF Failed
<1>7. RankTypes'
  BY <1>1, <1>2, <1>3 DEF IInv, RankTypes, Go, Places, Inside
<1> QED BY <1>3, <1>4, <1>5, <1>6, <1>7, Whole

LEMMA CleanupLockStep == ASSUME IInv, NEW r \in Rank, CleanupLock(r) PROVE IInv'
<1>1. /\ Go(r, "cleanup", "discount") /\ lock = NoRank /\ lock' = r
      /\ UNCHANGED <<queueVars, faults, data, first, count, files, run, dead, hurt>>
  BY DEF CleanupLock
<1>2. UNCHANGED <<rows, dropped, flag, counter, prepared, content>> /\ faults \in Nat
  BY <1>1 DEF queueVars, files, IInv, QueueTypes
<1>3. LockShape' /\ lock' \in Rank \cup {NoRank}
  BY <1>1, LockMoves DEF Holding
<1>4. QInv' /\ Caller'
  BY <1>1, <1>2, QuietMove
<1>5. Counted' /\ CountBounded'
  BY <1>1, <1>2, CountsKept DEF Inside, YetToCount, Rewriting
<1>6. Data' /\ Causes'
  BY <1>1, <1>2, DataStays DEF Failed
<1>7. RankTypes'
  BY <1>1, <1>2, <1>3 DEF IInv, RankTypes, Go, Places, Inside
<1> QED BY <1>3, <1>4, <1>5, <1>6, <1>7, Whole

LEMMA DiscountStep == ASSUME IInv, NEW r \in Rank, Discount(r) PROVE IInv'
<1>1. /\ at[r] = "discount"
      /\ UNCHANGED <<queueVars, faults, data, lock, first, prepared, content, run, dead, hurt>>
      /\ \/ counter = -1 /\ Go(r, "discount", "unlock") /\ UNCHANGED <<flag, counter, count>>
         \/ counter # -1 /\ LastProcess /\ Go(r, "discount", "unlink") /\ flag' = FALSE
            /\ UNCHANGED <<counter, count>>
         \/ counter # -1 /\ ~LastProcess /\ Go(r, "discount", "recount")
            /\ count' = counter - 1 /\ counter' = 0 /\ UNCHANGED flag
  BY DEF Discount
<1>2. UNCHANGED <<rows, dropped>> /\ faults \in Nat /\ counter \in Int /\ count \in Int
  BY <1>1 DEF queueVars, IInv, QueueTypes, CountBounded, RankTypes
<1>3. PICK to \in {"unlock", "unlink", "recount"} : Go(r, "discount", to)
  BY <1>1
<1>4. LockShape' /\ lock' \in Rank \cup {NoRank}
  BY <1>1, <1>3, LockMoves DEF Holding
<1>5. QInv' /\ Caller'
  BY <1>1, <1>2, <1>3, QuietMove
<1>6. Data' /\ Causes'
  BY <1>1, <1>2, <1>3, DataStays DEF Failed
<1>7. RankTypes'
  <2>1. flag' \in BOOLEAN /\ count' \in Int
    <3>1. flag \in BOOLEAN
      BY DEF IInv, RankTypes
    <3>2. flag' \in {flag, FALSE} /\ count' \in {count, counter - 1}
      BY <1>1
    <3>3. flag' \in BOOLEAN
      BY <3>1, <3>2
    <3>4. count' \in Int
      BY <1>2, <3>2
    <3> QED BY <3>3, <3>4
  <2> QED BY <1>1, <1>2, <1>3, <1>4, <2>1 DEF IInv, RankTypes, Go, Places
<1>8. at \in [Rank -> Places] /\ at[r] = "discount" /\ at' = [at EXCEPT ![r] = to]
  BY <1>3 DEF IInv, RankTypes, Go
<1>9. /\ NInside' = NInside - 1 /\ NYetToCount' = NYetToCount
      /\ NInside \in Nat /\ NInside' \in Nat /\ NYetToCount \in Nat
  <2>1. NInside' = NInside - 1
    BY <1>8, CountsAre, CountMoves DEF Inside
  <2>2. NYetToCount' = NYetToCount
    BY <1>8, CountsAre, CountMoves DEF YetToCount
  <2> QED BY <2>1, <2>2, CountsAre, CountBounds
<1>10. ~Holder("counted") /\ ~Holder("recount") /\ ~Holder("unlink")
  BY <1>8, Alone DEF Holder, Holding
<1>11. \A q \in Rewriting : Holder(q)' <=> to = q
  BY <1>8, <1>10 DEF Holder, Rewriting
<1>12. Counted'
  <2> SUFFICES ASSUME ~dead' PROVE Counted'
    BY DEF Counted
  <2>1. ~dead /\ counter = NInside /\ NInside >= 1
    BY <1>1, <1>9, <1>10 DEF IInv, Counted
  <2>2. CASE LastProcess
    <3>1. Go(r, "discount", "unlink") /\ flag' = FALSE
      BY <1>1, <2>1, <2>2
    <3>2. to = "unlink"
      BY <1>8, <3>1 DEF Go
    <3>3. NInside' = 0
      BY <1>9, <2>1, <2>2 DEF LastProcess, Value
    <3> QED BY <1>11, <3>1, <3>2, <3>3 DEF Counted, Rewriting
  <2>3. CASE ~LastProcess
    <3>1. Go(r, "discount", "recount") /\ count' = counter - 1
      BY <1>1, <2>1, <2>3
    <3>2. to = "recount"
      BY <1>8, <3>1 DEF Go
    <3>3. NInside' >= 1 /\ count' = NInside'
      BY <1>9, <2>1, <2>3, <3>1 DEF LastProcess, Value
    <3> QED BY <1>11, <3>2, <3>3 DEF Counted, Rewriting
  <2> QED BY <2>2, <2>3
<1>13. Most' = Most
  BY <1>1, <1>9 DEF Most
<1>14. CountBounded'
  <2>1. CASE to # "recount"
    <3>1. counter' = counter
      BY <1>1, <1>8, <2>1 DEF Go
    <3> QED BY <1>3, <1>11, <1>13, <2>1, <3>1 DEF IInv, CountBounded, Rewriting
  <2>2. CASE to = "recount"
    <3>1. /\ counter # -1 /\ ~LastProcess /\ count' = counter - 1 /\ counter' = 0
      BY <1>1, <1>8, <2>2 DEF Go
    <3>2. counter \in Int /\ counter > 0 /\ counter <= Most
      BY <1>2, <3>1 DEF LastProcess, Value, IInv, CountBounded
    <3>3. Most \in Int
      <4>1. Cardinality(Rank) \in Nat /\ run \in Nat
        BY CountBounds DEF IInv, RankTypes
      <4>2. Cardinality(Rank) * run \in Nat
        BY <4>1
      <4> QED BY <1>9, <4>2 DEF Most
    <3> QED BY <1>11, <1>13, <2>2, <3>1, <3>2, <3>3 DEF CountBounded, Rewriting
  <2> QED BY <2>1, <2>2
<1> QED BY <1>4, <1>5, <1>6, <1>7, <1>12, <1>14, Whole

\* The counter is put back, or taken away, by the one that wrote it.
LEMMA RecountStep == ASSUME IInv, NEW r \in Rank, Recount(r) \/ Unlink(r) PROVE IInv'
<1>1. PICK from \in {"recount", "unlink"} :
         /\ Go(r, from, "unlock")
         /\ counter' = IF from = "recount" THEN count ELSE -1
  BY DEF Recount, Unlink
<1>2. UNCHANGED <<queueVars, faults, data, lock, first, count, flag, prepared, content, run, dead, hurt>>
  BY DEF Recount, Unlink
<1>3. UNCHANGED <<rows, dropped>> /\ faults \in Nat
  BY <1>2 DEF queueVars, IInv, QueueTypes
<1>4. LockShape' /\ lock' \in Rank \cup {NoRank}
  BY <1>1, <1>2, LockMoves DEF Holding
<1>5. QInv' /\ Caller'
  BY <1>1, <1>2, <1>3, QuietMove
<1>6. Data' /\ Causes'
  BY <1>1, <1>2, <1>3, DataStays DEF Failed
<1>7. RankTypes'
  BY <1>1, <1>2, <1>3, <1>4 DEF IInv, RankTypes, Go, Places
<1>8. at \in [Rank -> Places] /\ at[r] = from /\ at' = [at EXCEPT ![r] = "unlock"]
  BY <1>1 DEF IInv, RankTypes, Go
<1>9. /\ NInside' = NInside /\ NYetToCount' = NYetToCount /\ NInside \in Nat
  <2>1. NInside' = NInside
    BY <1>1, <1>8, CountsAre, CountMoves DEF Inside
  <2>2. NYetToCount' = NYetToCount
    BY <1>1, <1>8, CountsAre, CountMoves DEF YetToCount
  <2> QED BY <2>1, <2>2, CountsAre, CountBounds
<1>10. \A q \in Rewriting : ~Holder(q)' /\ (Holder(q) <=> from = q)
  <2>1. \A q \in Rewriting : \A s \in Rank : at[s] = q => s = r
    BY <1>1, <1>8, Alone DEF Holding, Rewriting
  <2> QED BY <1>8, <2>1 DEF Holder, Rewriting
<1>11. Counted'
  BY <1>1, <1>2, <1>9, <1>10 DEF IInv, Counted, Rewriting
<1>12. Most' = Most
  BY <1>2, <1>9 DEF Most
<1>13. CountBounded'
  <2>1. Most >= -1 /\ Most \in Int
    <3>1. Cardinality(Rank) \in Nat /\ run \in Nat /\ NYetToCount \in Nat
      BY CountBounds, CountsAre DEF IInv, RankTypes
    <3>2. Cardinality(Rank) * run \in Nat
      BY <3>1
    <3>3. Most \in Int
      BY <3>1, <3>2 DEF Most
    <3> QED BY <3>3 DEF IInv, CountBounded
  <2>2. ~Holder("counted")' /\ ~Holder("recount")'
    BY <1>10 DEF Rewriting
  <2>3. counter' \in Int /\ -1 <= counter' /\ counter' <= Most
    <3>1. CASE from = "recount"
      <4>1. counter' = count /\ Holder("recount")
        BY <1>1, <1>10, <3>1 DEF Rewriting
      <4> QED BY <2>1, <4>1 DEF IInv, CountBounded, RankTypes
    <3>2. CASE from = "unlink"
      <4>1. counter' = -1
        BY <1>1, <3>2
      <4> QED BY <2>1, <4>1
    <3> QED BY <3>1, <3>2
  <2> QED BY <1>12, <2>2, <2>3 DEF CountBounded
<1> QED BY <1>4, <1>5, <1>6, <1>7, <1>11, <1>13, Whole

LEMMA CleanupUnlockStep == ASSUME IInv, NEW r \in Rank, CleanupUnlock(r) PROVE IInv'
<1>1. PICK to \in {"done", "raised"} : Go(r, "unlock", to) /\ to = Outcome(r)
  BY DEF CleanupUnlock, Go, Outcome
<1>2. /\ lock' = NoRank
      /\ UNCHANGED <<queueVars, faults, data, first, count, files, run, dead, hurt>>
  BY DEF CleanupUnlock
<1>3. UNCHANGED <<rows, dropped, flag, counter, prepared, content>> /\ faults \in Nat
  BY <1>2 DEF queueVars, files, IInv, QueueTypes
<1>4. LockShape' /\ lock' \in Rank \cup {NoRank}
  BY <1>1, <1>2, LockMoves DEF Holding
<1>5. QInv' /\ Caller'
  BY <1>1, <1>2, <1>3, QuietMove
<1>6. Counted' /\ CountBounded'
  BY <1>1, <1>2, <1>3, CountsKept DEF Inside, YetToCount, Rewriting
<1>7. Data' /\ Causes'
  BY <1>1, <1>2, <1>3, DataStays DEF Failed, Outcome
<1>8. RankTypes'
  BY <1>1, <1>2, <1>3, <1>4 DEF IInv, RankTypes, Go, Places, Over
<1> QED BY <1>4, <1>5, <1>6, <1>7, <1>8, Whole

LEMMA RankSteps == ASSUME IInv, NEW r \in Rank, RankStep(r) PROVE IInv'
<1>1. CASE LoadLock(r) BY <1>1, LoadLockStep
<1>2. CASE Truncate(r) BY <1>2, TruncateStep
<1>3. CASE Count(r) BY <1>3, CountStep
<1>4. CASE LoadPrepared(r) BY <1>4, LoadPreparedStep
<1>5. CASE UseCache(r) BY <1>5, UseCacheStep
<1>6. CASE BeginTokenizing(r) BY <1>6, BeginTokenizingStep
<1>7. CASE EndTokenizing(r) BY <1>7, EndTokenizingStep
<1>8. CASE SaveBegin(r) BY <1>8, SaveBeginStep
<1>9. CASE SaveEnd(r) BY <1>9, SaveEndStep
<1>10. CASE Loaded(r) BY <1>10, LoadedStep
<1>11. CASE LeaveLoad(r) BY <1>11, LeaveLoadStep
<1>12. CASE CleanupLock(r) BY <1>12, CleanupLockStep
<1>13. CASE Discount(r) BY <1>13, DiscountStep
<1>14. CASE Recount(r) \/ Unlink(r) BY <1>14, RecountStep
<1>15. CASE CleanupUnlock(r) BY <1>15, CleanupUnlockStep
<1> QED BY <1>1, <1>2, <1>3, <1>4, <1>5, <1>6, <1>7, <1>8, <1>9, <1>10, <1>11, <1>12, <1>13,
           <1>14, <1>15 DEF RankStep

LEMMA DieStep == ASSUME IInv, NEW r \in Rank, Die(r) PROVE IInv'
<1>1. /\ at[r] \notin Over /\ faults' = faults + 1 /\ dead' = TRUE /\ hurt' = TRUE
      /\ at' = [at EXCEPT ![r] = "dead"]
      /\ lock' = (IF lock = r THEN NoRank ELSE lock)
      /\ data' = [data EXCEPT ![r] = NoFile]
      /\ UNCHANGED <<rows, dropped, cut, pending, future, broken, buffered, cache, first, count, files, run>>
  BY DEF Die
<1>2. IF at[r] = "tokenize"
        THEN /\ orphans' = IF tmp = NoFile THEN orphans ELSE orphans + 1
             /\ stage' = "off" /\ tmp' = NoFile
        ELSE UNCHANGED <<orphans, stage, tmp>>
  BY DEF Die
<1>3. UNCHANGED <<flag, counter, prepared, content>> /\ faults' \in Nat
  BY <1>1 DEF files, IInv, QueueTypes
<1> DEFINE from == at[r]
<1>4. Go(r, from, "dead")
  BY <1>1 DEF Go
<1>5. at \in [Rank -> Places] /\ \A s \in Rank : at'[s] = IF s = r THEN "dead" ELSE at[s]
  BY <1>1 DEF IInv, RankTypes
<1> HIDE DEF from
<1>6. LockShape' /\ lock' \in Rank \cup {NoRank}
  <2>1. lock = r <=> from \in Holding
    BY DEF IInv, LockShape, from
  <2>2. "dead" \notin Holding
    BY DEF Holding
  <2> QED BY <1>1, <1>4, <2>1, <2>2, LockMoves
<1>7. stage' \in {stage, "off"} /\ orphans' \in Nat
  BY <1>2 DEF IInv, QueueTypes
<1>8. QInv'
  <2>1. Taken' = Taken /\ MaxInFlight' = MaxInFlight
    BY <1>1 DEF Taken, MaxInFlight
  <2>2. Chunks' = Chunks /\ Mapped' = Mapped /\ \A c : ChunkEnd(c)' = ChunkEnd(c)
    BY <1>1, SameData
  <2>3. QueueTypes' /\ InOrder'
    BY <1>1, <1>3, <1>7, <2>1, <2>2 DEF IInv, QueueTypes, InOrder, Stages
  <2>4. Written'
    <3>1. CASE from = "tokenize"
      <4>1. stage' = "off" /\ tmp' = NoFile
        BY <1>2, <3>1 DEF from
      <4> QED BY <1>1, <2>1, <2>2, <4>1 DEF IInv, Written
    <3>2. CASE from # "tokenize"
      <4>1. stage' = stage /\ tmp' = tmp
        BY <1>2, <3>2 DEF from
      <4> QED BY <1>1, <2>1, <2>2, <4>1 DEF IInv, Written
    <3> QED BY <3>1, <3>2
  <2>5. Faulty'
    BY <1>1 DEF Faulty
  <2> QED BY <2>3, <2>4, <2>5 DEF QInv
<1>9. Caller'
  <2>1. CASE from = "tokenize"
    <3>1. \A s \in Rank : at[s] = "tokenize" => s = r
      BY <2>1, Alone DEF Holding, from
    <3>2. ~Tokenizing'
      BY <1>5, <3>1 DEF Tokenizing
    <3> QED BY <1>1, <1>2, <2>1, <3>2 DEF Caller, from
  <2>2. CASE from # "tokenize"
    <3>1. \A s \in Rank : at'[s] = "tokenize" <=> at[s] = "tokenize"
      BY <1>5, <2>2 DEF from
    <3>2. Tokenizing' = Tokenizing
      BY <3>1 DEF Tokenizing
    <3> QED BY <1>1, <1>2, <2>2, <3>2 DEF IInv, Caller, from
  <2> QED BY <2>1, <2>2
<1>10. Data' /\ Causes'
  <2>1. "dead" \notin Failed /\ NoFile \in {NoFile, Mapped}
    BY DEF Failed
  <2>2. /\ UNCHANGED <<rows, dropped, prepared, content>> /\ (hurt => hurt')
        /\ data' = [data EXCEPT ![r] = NoFile]
    BY <1>1, <1>3
  <2> QED BY <1>4, <2>1, <2>2, DataMoves
<1>11. Counted'
  BY <1>1 DEF Counted
<1>12. CountBounded'
  <2>1. NYetToCount' <= NYetToCount /\ NYetToCount \in Nat /\ NYetToCount' \in Nat
    <3>1. "dead" \notin YetToCount
      BY DEF YetToCount
    <3>2. NYetToCount' = NYetToCount \/ NYetToCount' = NYetToCount - 1
      <4>1. CASE at[r] \in YetToCount
        <5>1. CountIn(at', YetToCount) = CountIn(at, YetToCount) - 1
          <6> DEFINE g == [at EXCEPT ![r] = "dead"]
          <6>1. CountIn(g, YetToCount) = CountIn(at, YetToCount) - 1
            BY <1>5, <3>1, <4>1, CountMoves
          <6> QED BY <1>1, <6>1
        <5> QED BY <5>1, CountsAre
      <4>2. CASE at[r] \notin YetToCount
        <5>1. CountIn(at', YetToCount) = CountIn(at, YetToCount)
          BY <1>1, <1>5, <3>1, <4>2, CountMoves, Zenon
        <5> QED BY <5>1, CountsAre
      <4> QED BY <4>1, <4>2
    <3>3. NYetToCount \in Nat /\ NYetToCount' \in Nat
      BY CountsAre, CountBounds
    <3> QED BY <3>2, <3>3
  <2>2. Most' >= Most /\ Most \in Int /\ Most' \in Int
    <3>1. Cardinality(Rank) \in Nat /\ run \in Nat
      BY CountBounds DEF IInv, RankTypes
    <3>2. Cardinality(Rank) * run \in Nat
      BY <3>1
    <3> QED BY <1>1, <2>1, <3>2 DEF Most
  <2>3. \A q \in {"counted", "recount"} : Holder(q)' => Holder(q)
    BY <1>5 DEF Holder
  <2>4. count \in Int /\ count' = count /\ counter' = counter
    BY <1>1, <1>3 DEF IInv, RankTypes
  <2>5. counter \in Int /\ -1 <= counter /\ counter <= Most
        /\ (Holder("counted") => 0 <= count /\ count <= Most + 1)
        /\ (Holder("recount") => 0 <= count /\ count <= Most)
    BY DEF IInv, CountBounded
  <2>6. (Holder("counted")' => Holder("counted")) /\ (Holder("recount")' => Holder("recount"))
    BY <2>3
  <2>7. ASSUME Holder("counted")' PROVE 0 <= count' /\ count' <= Most' + 1
    <3>1. 0 <= count /\ count <= Most + 1
      BY <2>5, <2>6, <2>7
    <3>2. \A c, m, n \in Int : m <= n /\ c <= m + 1 => c <= n + 1
      OBVIOUS
    <3>3. count <= Most' + 1
      <4>1. Most <= Most'
        BY <2>2
      <4> QED BY <2>2, <2>4, <3>1, <3>2, <4>1
    <3> QED BY <2>4, <3>1, <3>3
  <2>8. ASSUME Holder("recount")' PROVE 0 <= count' /\ count' <= Most'
    BY <2>2, <2>4, <2>5, <2>6, <2>8
  <2>9. counter' \in Int /\ -1 <= counter' /\ counter' <= Most'
    BY <2>2, <2>4, <2>5
  <2> QED BY <2>7, <2>8, <2>9 DEF CountBounded
<1>13. RankTypes'
  BY <1>1, <1>3, <1>5, <1>6 DEF IInv, RankTypes, Places, Over
<1> QED BY <1>6, <1>8, <1>9, <1>10, <1>11, <1>12, <1>13, Whole

LEMMA RestartStep == ASSUME IInv, Restart PROVE IInv'
<1>1. /\ run < MaxRuns /\ (\A r \in Rank : at[r] \in Over)
      /\ run' = run + 1 /\ hurt' = FALSE
      /\ at' = [r \in Rank |-> "start"] /\ data' = [r \in Rank |-> NoFile]
      /\ UNCHANGED <<queueVars, faults, lock, first, count, files, dead>>
  BY DEF Restart
<1>2. /\ UNCHANGED <<rows, dropped, flag, counter, prepared, content>> /\ faults \in Nat
      /\ Mapped' = Mapped
  BY <1>1, SameData DEF queueVars, files, IInv, QueueTypes
<1>3. ~Tokenizing /\ ~Tokenizing'
  BY <1>1 DEF Tokenizing, Over
<1>4. QInv' /\ Caller'
  <2>1. stage = "off"
    BY <1>3 DEF IInv, Caller
  <2>2. QInv'
    BY <1>1, <1>2, <2>1, QueueKept DEF IInv, QInv
  <2>3. Caller'
    BY <1>1, <1>3, <2>1 DEF IInv, Caller, queueVars
  <2> QED BY <2>2, <2>3
<1>5. LockShape'
  <2>1. \A r \in Rank : at[r] \notin Holding /\ at'[r] \notin Holding
    BY <1>1 DEF Over, Holding
  <2> QED BY <1>1, <2>1 DEF IInv, LockShape
<1>6. Data' /\ Causes'
  <2>1. \A r \in Rank : at'[r] = "start" /\ data'[r] = NoFile
    BY <1>1
  <2>2. data' \in [Rank -> {NoFile, Mapped'}]
    BY <1>1
  <2> QED BY <1>1, <1>2, <2>1, <2>2 DEF IInv, Data, Causes, Failed
<1>7. \A q : Holder(q)' => q = "start"
  BY <1>1 DEF Holder
<1>8. Counted'
  <2>1. NInside = 0 /\ NInside' = 0
    <3>1. \A r \in Rank : at[r] \notin Inside /\ at'[r] \notin Inside
      BY <1>1 DEF Over, Inside
    <3> QED BY <3>1, CountsAre, CountBounds
  <2>2. ~Holder("counted") /\ ~Holder("recount") /\ ~Holder("unlink")
    BY <1>1 DEF Holder, Over
  <2>3. ~dead => counter = -1 /\ ~flag
    BY <2>1, <2>2 DEF IInv, Counted
  <2> QED BY <1>1, <1>2, <1>7, <2>1, <2>3 DEF Counted
<1>9. CountBounded'
  <2>1. Most' >= Most /\ Most \in Int /\ Most' \in Int
    <3>1. Cardinality(Rank) \in Nat /\ run \in Nat /\ NYetToCount \in Nat
          /\ NYetToCount' \in Nat /\ NYetToCount' <= Cardinality(Rank)
      BY CountBounds, CountsAre DEF IInv, RankTypes
    <3>2. Cardinality(Rank) * run \in Nat
          /\ Cardinality(Rank) * (run + 1) = Cardinality(Rank) * run + Cardinality(Rank)
      BY <3>1
    <3> QED BY <1>1, <3>1, <3>2 DEF Most
  <2> QED BY <1>2, <1>7, <2>1 DEF IInv, CountBounded
<1>10. RankTypes'
  <2>1. run' \in 1..MaxRuns
    BY <1>1, PreparationAssumption DEF IInv, RankTypes
  <2>2. at' \in [Rank -> Places]
    BY <1>1 DEF Places
  <2> QED BY <1>1, <1>2, <2>1, <2>2 DEF IInv, RankTypes
<1> QED BY <1>4, <1>5, <1>6, <1>8, <1>9, <1>10, Whole

\* A step of the queue, of its caller or of its pool.
LEMMA QueueSteps ==
    ASSUME IInv, Tokenizing, QInv', CallOn, UNCHANGED <<rows, dropped>>,
           UNCHANGED <<at, data, lock, first, count, files, run, dead>>,
           hurt' \in BOOLEAN, hurt => hurt'
    PROVE  IInv'
<1>1. Others'
  BY QueueQuiet
<1>2. Tokenizing'
  BY DEF Tokenizing
<1>3. Caller'
  BY <1>2 DEF IInv, Caller, CallOn
<1> QED BY <1>1, <1>3, Whole DEF Others

LEMMA QueueStepKeeps == ASSUME IInv, QueueStep PROVE IInv'
<1>1. /\ Tokenizing /\ (QueueCaller \/ Pool)
      /\ UNCHANGED <<at, data, lock, first, count, files, run, dead>>
      /\ hurt' = (hurt \/ faults' # faults)
  BY DEF QueueStep
<1>2. hurt \in BOOLEAN /\ hurt' \in BOOLEAN /\ (hurt => hurt') /\ QInv
  BY <1>1 DEF IInv, RankTypes, QInv
<1>3. UNCHANGED <<rows, dropped>>
  BY <1>1 DEF QueueCaller, Fill, Result, ResultRaises, WriteBatch, Finalize, Replace, Fail,
              Pool, PoolTake, PoolDone
<1>4. CASE QueueCaller
  <2>1. faults' = faults
    BY <1>4 DEF QueueCaller, Fill, Result, ResultRaises, WriteBatch, Finalize, Replace, Fail
  <2>2. hurt' = hurt
    BY <1>1, <1>2, <2>1
  <2>3. QInv' /\ CallOn
    <3>1. CASE Fill BY <1>2, <2>2, <3>1, FillStep
    <3>2. CASE Result BY <1>2, <2>2, <3>2, ResultStep
    <3>3. CASE ResultRaises BY <1>2, <2>2, <3>3, ResultRaisesStep
    <3>4. CASE WriteBatch BY <1>2, <2>2, <3>4, WriteBatchStep
    <3>5. CASE Finalize BY <1>2, <2>2, <3>5, FinalizeStep
    <3>6. CASE Replace BY <1>2, <2>2, <3>6, ReplaceStep
    <3>7. CASE Fail BY <1>2, <2>2, <3>7, FailStep
    <3> QED BY <1>4, <3>1, <3>2, <3>3, <3>4, <3>5, <3>6, <3>7 DEF QueueCaller
  <2> QED BY <1>1, <1>2, <1>3, <2>3, QueueSteps
<1>5. CASE Pool
  <2>1. QInv' /\ CallOn
    BY <1>1, <1>2, <1>5, PoolRuns
  <2> QED BY <1>1, <1>2, <1>3, <2>1, QueueSteps
<1> QED BY <1>1, <1>4, <1>5

LEMMA ProcessDiesKeeps == ASSUME IInv, ProcessDies PROVE IInv'
<1>1. /\ Tokenizing /\ PoolDies /\ hurt' = TRUE
      /\ UNCHANGED <<at, data, lock, first, count, files, run, dead>>
  BY DEF ProcessDies
<1>2. QInv' /\ CallOn
  BY <1>1, PoolDiesStep DEF IInv, QInv
<1>3. UNCHANGED <<rows, dropped>>
  BY <1>1 DEF PoolDies
<1> QED BY <1>1, <1>2, <1>3, QueueSteps

LEMMA Stays == ASSUME IInv, UNCHANGED vars PROVE IInv'
<1>1. /\ UNCHANGED <<queueVars, faults, at, data, lock, first, count, run, dead, hurt>>
      /\ UNCHANGED <<rows, dropped, flag, counter, prepared, content>> /\ Mapped' = Mapped
      /\ faults \in Nat
  BY SameData DEF vars, files, queueVars, IInv, QueueTypes
<1>2. QInv'
  BY <1>1, QueueKept DEF IInv, QInv
<1>3. RankTypes' /\ LockShape' /\ Data' /\ Causes'
  BY <1>1 DEF IInv, RankTypes, LockShape, Data, Causes
<1>4. Caller'
  BY <1>1 DEF IInv, Caller, Tokenizing, queueVars
<1>5. NInside' = NInside /\ Most' = Most /\ \A p : Holder(p)' = Holder(p)
  BY <1>1 DEF NInside, Most, NYetToCount, Holder
<1>6. Counted' /\ CountBounded'
  BY <1>1, <1>5 DEF IInv, Counted, CountBounded
<1> QED BY <1>2, <1>3, <1>4, <1>6, Whole

-----------------------------------------------------------------------------
(* The theorems.                                                           *)

LEMMA Begins == ASSUME Init PROVE IInv
<1>1. /\ rows \in Sizes /\ dropped \in SUBSET (1..rows) /\ stage = "off" /\ cut = 0
      /\ pending = <<>> /\ future = [c \in 1..MaxRows |-> "none"] /\ broken = FALSE
      /\ buffered = <<>> /\ tmp = NoFile /\ cache = NoFile /\ orphans = 0 /\ faults = 0
      /\ at = [r \in Rank |-> "start"] /\ data = [r \in Rank |-> NoFile]
      /\ lock = NoRank /\ first = FALSE /\ count = 0 /\ flag = FALSE /\ counter = -1
      /\ prepared = "none" /\ content = NoFile /\ run = 1 /\ dead = FALSE /\ hurt = FALSE
  BY DEF Init, QueueInit
<1>2. Len(<<>>) = 0 /\ <<>> \in Seq(1..rows) /\ <<>> \in Seq(Nat)
  BY NothingListed, EmptySeq
<1>3. QueueTypes
  <2>1. rows \in Nat
    BY <1>1, QueueAssumption
  <2>2. ChunkSize \in Nat \ {0}
    BY <2>1, ChunkSizeFacts
  <2>3. Chunks \in Nat
    BY <2>1, <2>2, CeilFacts DEF Chunks
  <2>4. future \in [1..MaxRows -> States]
    BY <1>1 DEF States
  <2>5. cut \in Nat /\ cut <= Chunks
    BY <1>1, <2>3
  <2>6. pending \in Seq(Nat) /\ buffered \in Seq(1..rows)
    BY <1>1, <1>2
  <2>7. rows \in Sizes /\ dropped \subseteq 1..rows /\ stage \in Stages /\ broken \in BOOLEAN
        /\ orphans \in Nat /\ faults \in Nat
    BY <1>1 DEF Stages
  <2> QED BY <2>4, <2>5, <2>6, <2>7 DEF QueueTypes
<1>4. MaxInFlight \in Nat \ {0} /\ WriterBatch \in Nat \ {0}
  BY <1>3, Sizing
<1>5. Len(pending) = 0 /\ Len(buffered) = 0
  BY <1>1, NothingListed
<1>6. InOrder
  <2>1. \A i \in 1..Len(pending) : pending[i] = Taken + i
    BY <1>5
  <2>2. \A c \in 1..MaxRows : c > cut => future[c] = "none"
    BY <1>1
  <2> QED BY <1>1, <1>4, <1>5, <2>1, <2>2 DEF InOrder
<1>7. Written
  BY <1>1, <1>4, <1>5 DEF Written
<1>8. Faulty
  BY <1>1 DEF Faulty
<1>9. \A r \in Rank : at[r] = "start" /\ data[r] = NoFile
  BY <1>1
<1>10. RankTypes
  <2>1. run \in 1..MaxRuns
    BY <1>1, PreparationAssumption
  <2>2. at \in [Rank -> Places]
    BY <1>1 DEF Places
  <2>3. /\ lock \in Rank \cup {NoRank} /\ count \in Int
        /\ prepared \in {"none", "partial", "whole"}
    BY <1>1
  <2>4. first \in BOOLEAN /\ flag \in BOOLEAN /\ dead \in BOOLEAN /\ hurt \in BOOLEAN
    BY <1>1
  <2> QED BY <2>1, <2>2, <2>3, <2>4 DEF RankTypes
<1>11. LockShape
  BY <1>1, <1>9, PreparationAssumption DEF LockShape, Holding
<1>12. Caller
  BY <1>1, <1>9 DEF Caller, Tokenizing
<1>13. Data /\ Causes
  <2>1. data \in [Rank -> {NoFile, Mapped}]
    BY <1>1
  <2> QED BY <1>1, <1>9, <2>1 DEF Data, Causes, Failed
<1>14. \A q : Holder(q) => q = "start"
  BY <1>9 DEF Holder
<1>15. Counted
  <2>1. NInside = 0
    <3>1. \A r \in Rank : at[r] \notin Inside
      BY <1>9 DEF Inside
    <3> QED BY <3>1, CountsAre, CountBounds
  <2> QED BY <1>1, <1>14, <2>1 DEF Counted
<1>16. CountBounded
  <2>1. Cardinality(Rank) \in Nat /\ NYetToCount \in Nat /\ NYetToCount <= Cardinality(Rank)
    BY CountBounds, CountsAre
  <2>2. Most \in Nat
    BY <1>1, <2>1 DEF Most
  <2> QED BY <1>1, <1>14, <2>2 DEF CountBounded
<1> QED BY <1>3, <1>6, <1>7, <1>8, <1>10, <1>11, <1>12, <1>13, <1>15, <1>16 DEF IInv

\* The inductive invariant holds throughout: the queue, the lock and its
\* counter, the directory and what each rank has read of it.
THEOREM PreparationInvariant == Spec => []IInv
<1>1. Init => IInv
  BY Begins
<1>2. IInv /\ [Next]_vars => IInv'
  <2> SUFFICES ASSUME IInv, [Next]_vars PROVE IInv'
    OBVIOUS
  <2>1. ASSUME NEW r \in Rank, RankStep(r) \/ Die(r) PROVE IInv'
    BY <2>1, RankSteps, DieStep
  <2>2. CASE QueueStep
    BY <2>2, QueueStepKeeps
  <2>3. CASE ProcessDies
    BY <2>3, ProcessDiesKeeps
  <2>4. CASE Restart
    BY <2>4, RestartStep
  <2>5. CASE UNCHANGED vars
    BY <2>5, Stays
  <2> QED BY <2>1, <2>2, <2>3, <2>4, <2>5 DEF Next
<1> QED BY <1>1, <1>2, PTL DEF Spec

\* Nobody ever holds, and no committed file ever contains, less than the
\* whole dataset in its order, whatever the pool's order, whatever died and
\* wherever (prepare_datasets, tokenize_with_work_queue).
THEOREM WholeDataOnlyHolds == Spec => []WholeDataOnly
<1>1. IInv => WholeDataOnly
  BY DEF IInv, Data, Written, WholeDataOnly
<1> QED BY <1>1, PreparationInvariant, PTL

\* As long as no rank has died, the counter of FileLockLoader is the number
\* of ranks between load and cleanup, and the last one leaves neither counter
\* nor flag.
THEOREM CleansUpHolds == Spec => []CleansUp
<1>1. IInv => CleansUp
  <2> SUFFICES ASSUME IInv, ~dead PROVE CleansUp
    BY DEF CleansUp
  <2>1. NInside \in Nat /\ NInside = Cardinality({r \in Rank : at[r] \in Inside})
    BY CountsAre, CountBounds DEF NInside
  <2>2. ASSUME lock = NoRank
        PROVE  (IF counter = -1 THEN 0 ELSE counter) = Cardinality({r \in Rank : at[r] \in Inside})
    <3>1. ~Holder("counted") /\ ~Holder("recount") /\ ~Holder("unlink")
      BY <2>2, NoneInside DEF Holder, Holding
    <3>2. counter = IF NInside = 0 THEN -1 ELSE NInside
      BY <3>1 DEF IInv, Counted
    <3> QED BY <2>1, <3>2
  <2>3. ASSUME \A r \in Rank : at[r] \in Over PROVE ~flag /\ counter = -1
    <3>1. ~Holder("counted") /\ ~Holder("recount") /\ ~Holder("unlink")
      BY <2>3 DEF Holder, Over
    <3>2. NInside = 0
      <4>1. \A r \in Rank : at[r] \notin Inside
        BY <2>3 DEF Over, Inside
      <4> QED BY <4>1, CountsAre, CountBounds
    <3> QED BY <3>1, <3>2 DEF IInv, Counted
  <2> QED BY <2>2, <2>3 DEF CleansUp
<1> QED BY <1>1, PreparationInvariant, PTL

\* A rank raises only for a fault of this run, a dataset of which nothing is
\* kept, or a directory somebody left half-written, whatever flag, counter
\* and temporary files earlier runs have left.
THEOREM RaisesOnlyForCauseHolds == Spec => []RaisesOnlyForCause
<1>1. IInv => RaisesOnlyForCause
  BY DEF IInv, Data, Causes, Failed, RaisesOnlyForCause
<1> QED BY <1>1, PreparationInvariant, PTL

\* Types and bounds: the queue holds at most MaxInFlight chunks and less than
\* two batches of rows, one rank at a time builds, the counter stays below
\* the ranks of all runs, and only a death leaves a temporary file.
THEOREM PreparationInvHolds == Spec => []Inv
<1>1. IInv => TypeOK
  <2> SUFFICES ASSUME IInv PROVE TypeOK
    OBVIOUS
  <2>1. stage \in {"off", "fill", "results", "write", "replace", "failing", "raised"}
    BY DEF IInv, QueueTypes, Stages
  <2>2. cut \in 0..Chunks /\ Chunks \in Nat
    BY Sizing DEF IInv, QueueTypes
  <2>3. Range(pending) \subseteq Chunk
    <3>1. pending \in Seq(Nat) /\ Len(pending) \in Nat /\ DOMAIN pending = 1..Len(pending)
      BY LenProperties DEF IInv, QueueTypes
    <3>2. cut \in Nat /\ Taken = cut - Len(pending) /\ Len(pending) <= cut
          /\ \A i \in 1..Len(pending) : pending[i] = Taken + i
      BY DEF IInv, QueueTypes, InOrder, Taken
    <3>3. ASSUME NEW i \in 1..Len(pending) PROVE pending[i] \in 1..Chunks
      <4>1. pending[i] = Taken + i
        BY <3>2
      <4> QED BY <2>2, <3>1, <3>2, <4>1
    <3> QED BY <3>1, <3>3 DEF Range, Chunk
  <2>4. future \in [1..MaxRows -> {"none", "queued", "running", "done", "raised", "broken"}]
    BY DEF IInv, QueueTypes, States
  <2>5. at \in [Rank -> Inside \cup Over \cup
                  {"start", "count", "counted", "recount", "unlink", "unlock"}]
    BY DEF IInv, RankTypes, Places
  <2>6. /\ lock \in Rank \cup {NoRank} /\ {first, flag, broken, dead, hurt} \subseteq BOOLEAN
        /\ prepared \in {"none", "partial", "whole"}
    BY DEF IInv, QueueTypes, RankTypes
  <2>7. counter \in -1..Cardinality(Rank) * MaxRuns
    <3>1. Cardinality(Rank) \in Nat /\ NYetToCount \in Nat
      BY CountBounds, CountsAre
    <3>2. MaxRuns \in Nat /\ run \in Nat /\ run <= MaxRuns
      BY PreparationAssumption DEF IInv, RankTypes
    <3>3. run * Cardinality(Rank) <= MaxRuns * Cardinality(Rank)
      BY <3>1, <3>2, TimesMonotone
    <3>4. /\ Cardinality(Rank) * run = run * Cardinality(Rank)
          /\ Cardinality(Rank) * MaxRuns = MaxRuns * Cardinality(Rank)
          /\ run * Cardinality(Rank) \in Nat /\ MaxRuns * Cardinality(Rank) \in Nat
      BY <3>1, <3>2
    <3>5. Most <= Cardinality(Rank) * MaxRuns /\ Most \in Int
      BY <3>1, <3>3, <3>4 DEF Most
    <3>6. counter \in Int /\ -1 <= counter /\ counter <= Most
      BY DEF IInv, CountBounded
    <3> DEFINE top == Cardinality(Rank) * MaxRuns
    <3>7. top \in Int /\ Most <= top
      BY <3>4, <3>5
    <3> HIDE DEF top
    <3>8. counter \in -1..top
      BY <3>5, <3>6, <3>7
    <3> QED BY <3>8 DEF top
  <2> QED BY <2>1, <2>2, <2>3, <2>4, <2>5, <2>6, <2>7 DEF TypeOK
<1>2. IInv => Bounded
  <2> SUFFICES ASSUME IInv PROVE Bounded
    OBVIOUS
  <2>1. Len(pending) <= MaxInFlight /\ Len(buffered) < 2 * WriterBatch
    BY DEF IInv, InOrder, Written
  <2>2. Cardinality({c \in Chunk : future[c] \in {"queued", "running", "done"}}
                      \ 1..(cut - Len(pending))) <= MaxInFlight
    <3> DEFINE S == {c \in Chunk : future[c] \in {"queued", "running", "done"}}
                      \ 1..(cut - Len(pending))
               T == (cut - Len(pending) + 1)..cut
    <3>1. /\ cut \in Nat /\ Len(pending) \in Nat /\ Len(pending) <= cut
          /\ Chunks \in Nat /\ MaxRows \in Nat /\ Chunks <= MaxRows /\ MaxInFlight \in Nat
      BY Sizing, LenProperties DEF IInv, QueueTypes, InOrder
    <3>2. S \subseteq T
      <4>1. \A c \in 1..Chunks : c > cut => future[c] = "none"
        BY <3>1 DEF IInv, InOrder
      <4> QED BY <3>1, <4>1 DEF Chunk
    <3>3. IsFiniteSet(T) /\ Cardinality(T) = Len(pending)
      <4>1. cut - Len(pending) + 1 \in Int /\ cut \in Int
        BY <3>1
      <4>2. IsFiniteSet(T) /\ Cardinality(T) = IF cut - Len(pending) + 1 > cut THEN 0
                                               ELSE cut - (cut - Len(pending) + 1) + 1
        BY <4>1, FS_Interval
      <4> HIDE DEF T
      <4> QED BY <3>1, <4>2
    <3> HIDE DEF S, T
    <3>4. IsFiniteSet(S) /\ Cardinality(S) <= Cardinality(T)
      BY <3>2, <3>3, FS_Subset
    <3>5. Cardinality(S) \in Nat
      BY <3>4, FS_CardinalityType
    <3>6. Cardinality(S) <= MaxInFlight
      BY <2>1, <3>1, <3>3, <3>4, <3>5
    <3> QED BY <3>6 DEF S
  <2>3. Cardinality({r \in Rank : at[r] \in Building}) <= 1
    <3> DEFINE S == {r \in Rank : at[r] \in Building}
    <3>1. CASE S = {}
      <4>1. Cardinality(S) = 0
        BY <3>1, FS_EmptySet
      <4> QED BY <4>1
    <3>2. CASE S # {}
      <4>1. PICK r \in S : TRUE
        BY <3>2
      <4>2. \A s \in Rank : at[s] \in Building => s = r
        <5>1. at[r] \in Building /\ Building \subseteq Holding
          BY <4>1 DEF Building, Holding
        <5> QED BY <5>1, Alone
      <4>3. S = {r}
        BY <4>1, <4>2
      <4>4. Cardinality(S) = 1
        BY <4>3, FS_Singleton
      <4> QED BY <4>4
    <3> QED BY <3>1, <3>2
  <2>4. prepared = "whole" => \A r \in Rank : at[r] \notin Building
    BY DEF IInv, Data, Building
  <2>5. (tmp # NoFile => Tokenizing) /\ (orphans > 0 => dead)
    BY DEF IInv, Written, Caller
  <2> QED BY <2>1, <2>2, <2>3, <2>4, <2>5 DEF Bounded
<1> QED BY <1>1, <1>2, PreparationInvariant, PTL DEF Inv
=============================================================================
