---------------------------- MODULE LayoutProofs ----------------------------
(***************************************************************************)
(* Proofs about the layout and the partition search (Layout), for every    *)
(* model, chunk size and list of candidates: blocks stay together, the     *)
(* search wastes least, the modes are as asked, and the layout suits the   *)
(* runtime that walks over it (RuntimeOnLayout).                           *)
(*                                                                         *)
(* The functions of the code are folds: a fact about one is an invariant   *)
(* of its steps.                                                           *)
(***************************************************************************)
EXTENDS RuntimeOnLayout, SequenceLemmas, TLAPS

-----------------------------------------------------------------------------
(* Bytes.                                                                  *)

LEMMA ModelHas ==
    ASSUME NEW m, IsModel(m)
    PROVE  /\ Params(m) \subseteq Nat \ {0} /\ \A p \in Params(m) : m.size[p] \in Nat
           /\ Len(m.size) \in Nat
<1>1. m.size \in Seq(Nat)
  BY DEF IsModel
<1>2. Len(m.size) \in Nat /\ \A p \in 1..Len(m.size) : m.size[p] \in Nat
  BY <1>1, LenProperties, ElementOfSeq
<1> QED BY <1>2 DEF Params

AddBytes(m) == [a \in Nat \X Params(m) |-> a[1] + m.size[a[2]]]

LEMMA BytesFold ==
    ASSUME NEW m, IsModel(m), NEW q \in Seq(Params(m))
    PROVE  /\ Foldable(Nat, Params(m), AddBytes(m), 0, q)
           /\ Bytes(m, q) = Fold(AddBytes(m), 0, q)
<1> DEFINE n == Len(q)
           Solves(f) == f = [s \in SUBSET (1..n) |->
                               IF s = {} THEN 0 ELSE f[s \ {Max(s)}] + m.size[q[Max(s)]]]
           H == CHOOSE f : Solves(f)
<1>1. \A a \in Nat, x \in Params(m) : a + m.size[x] \in Nat /\ AddBytes(m)[<<a, x>>] = a + m.size[x]
  BY ModelHas DEF AddBytes
<1>2. Foldable(Nat, Params(m), AddBytes(m), 0, q)
  BY ModelHas DEF AddBytes, Foldable
<1>3. n \in Nat /\ DOMAIN q = 1..n /\ \A i \in 1..n : q[i] \in Params(m) /\ i \in Nat \ {0}
  BY LenProperties, ElementOfSeq
<1>4. Bytes(m, q) = H[1..n]
  <2> HIDE DEF n
  <2> QED BY <1>3 DEF Bytes, FoldLeft, MapThenFoldSet
<1>5. \E f : Solves(f)
  <2>1. PICK f \in [SUBSET (1..n) -> Nat] : Unfolds(AddBytes(m), 0, q, n, f)
    BY <1>2, UnfoldExists DEF Foldable
  <2> HIDE DEF n
  <2>2. ASSUME NEW s \in SUBSET (1..n), s # {}
        PROVE  AddBytes(m)[<<f[s \ {Max(s)}], q[Max(s)]>>] = f[s \ {Max(s)}] + m.size[q[Max(s)]]
    <3>1. f[s \ {Max(s)}] \in Nat /\ q[Max(s)] \in Params(m)
      BY <1>3, <2>1, <2>2, MaxOfPart
    <3> QED BY <1>1, <3>1
  <2>3. Solves(f)
    BY <2>1, <2>2 DEF Unfolds
  <2> HIDE DEF Solves
  <2> QED BY <2>3
<1>6. Solves(H)
  <2> HIDE DEF Solves
  <2> QED BY <1>5
<1> HIDE DEF H
<1>7. H[{}] = 0
  BY <1>6
<1>8. ASSUME NEW i \in 1..n, H[1..(i - 1)] \in Nat
      PROVE  H[1..i] = AddBytes(m)[<<H[1..(i - 1)], q[i]>>]
  <2> HIDE DEF n
  <2>1. 1..i \in SUBSET (1..n) /\ i \in Nat \ {0}
    BY <1>3
  <2>2. H[1..i] = H[1..(i - 1)] + m.size[q[i]]
    BY <1>6, <2>1, MaxOfInterval
  <2> QED BY <1>1, <1>3, <1>8, <2>2
<1>9. H[1..n] = Fold(AddBytes(m), 0, q)
  <2>1. Climbs(Nat, AddBytes(m), 0, q, H)
    BY <1>7, <1>8 DEF Climbs
  <2> QED BY <1>2, <2>1, FoldIs
<1> QED BY <1>2, <1>4, <1>9

LEMMA BytesIs ==
    ASSUME NEW m, IsModel(m), NEW q \in Seq(Params(m))
    PROVE  /\ Bytes(m, <<>>) = 0 /\ Bytes(m, q) \in Nat
           /\ \A p \in Params(m) : Bytes(m, Append(q, p)) = Bytes(m, q) + m.size[p]
<1>1. Foldable(Nat, Params(m), AddBytes(m), 0, q) /\ Bytes(m, q) = Fold(AddBytes(m), 0, q)
  BY BytesFold
<1>2. <<>> \in Seq(Params(m))
  BY EmptySeq
<1>3. Bytes(m, <<>>) = 0
  <2>1. Fold(AddBytes(m), 0, <<>>) = 0
    BY <1>1, FoldEmpty
  <2> QED BY <1>2, <2>1, BytesFold
<1>4. Bytes(m, q) \in Nat
  BY <1>1, FoldAlong
<1>5. ASSUME NEW p \in Params(m) PROVE Bytes(m, Append(q, p)) = Bytes(m, q) + m.size[p]
  <2>1. Append(q, p) \in Seq(Params(m))
    BY AppendProperties
  <2>2. Fold(AddBytes(m), 0, Append(q, p)) = AddBytes(m)[<<Fold(AddBytes(m), 0, q), p>>]
    BY <1>1, FoldAppend
  <2>3. Bytes(m, Append(q, p)) = AddBytes(m)[<<Bytes(m, q), p>>]
    BY <1>1, <2>1, <2>2, BytesFold
  <2> QED BY <1>4, <2>3 DEF AddBytes
<1> QED BY <1>3, <1>4, <1>5

-----------------------------------------------------------------------------
(* The steps: what they visit is parameters.                               *)

StepType(m) == [block : Nat, params : Seq(Params(m))]
Chunks(m) == Seq(Seq(Params(m))) \ {<<>>}
Useds == Seq(Nat) \ {<<>>}

\* The last of a sequence, and it without the last.
LEMMA LastAndFront ==
    ASSUME NEW S, NEW q \in Seq(S), q # <<>>
    PROVE  /\ Len(q) \in Nat \ {0} /\ Last(q) \in S /\ Last(q) = q[Len(q)]
           /\ Front(q) \in Seq(S) /\ Len(Front(q)) = Len(q) - 1
           /\ \A i \in 1..(Len(q) - 1) : Front(q)[i] = q[i]
           /\ q = Append(Front(q), Last(q))
<1> DEFINE n == Len(q)
           f == Front(q)
<1>1. n \in Nat \ {0} /\ \A i \in 1..n : q[i] \in S
  <2>1. n \in Nat /\ n # 0
    BY LenProperties, EmptySeq
  <2> QED BY <2>1, ElementOfSeq
<1>2. f = SubSeq(q, 1, n - 1)
  BY DEF Front
<1>3. f \in Seq(S) /\ Len(f) = n - 1 /\ \A i \in 1..(n - 1) : f[i] = q[i]
  <2>1. f = [i \in 1..(n - 1) |-> q[i]]
    BY <1>2
  <2> HIDE DEF n, f
  <2>2. \A i \in 1..(n - 1) : q[i] \in S /\ i \in 1..n
    BY <1>1
  <2>3. n - 1 \in Nat
    BY <1>1
  <2> QED BY <2>1, <2>2, <2>3
<1>4. Last(q) = q[n] /\ q[n] \in S
  <2> HIDE DEF n
  <2>1. n \in 1..n
    BY <1>1
  <2> QED BY <1>1, <2>1 DEF Last, n
<1>5. q = Append(f, Last(q))
  <2> DEFINE r == Append(f, Last(q))
  <2>1. /\ r \in Seq(S) /\ Len(r) = (n - 1) + 1 /\ \A i \in 1..(n - 1) : r[i] = f[i]
        /\ r[(n - 1) + 1] = Last(q)
    BY <1>3, <1>4, AppendProperties
  <2> HIDE DEF r, f
  <2>2. Len(r) = n /\ \A i \in 1..n : r[i] = q[i]
    <3> HIDE DEF n
    <3>1. (n - 1) + 1 = n /\ \A i \in 1..n : i \in 1..(n - 1) \/ i = n
      BY <1>1
    <3> QED BY <1>3, <1>4, <2>1, <3>1
  <2>3. r = q
    BY <2>1, <2>2, SeqEqual
  <2> QED BY <2>3 DEF r
<1> QED BY <1>1, <1>3, <1>4, <1>5

\* A sequence with another last element.
LEMMA LastReplaced ==
    ASSUME NEW S, NEW q \in Seq(S), q # <<>>, NEW x \in S
    PROVE  /\ [q EXCEPT ![Len(q)] = x] \in Seq(S) /\ [q EXCEPT ![Len(q)] = x] # <<>>
           /\ Len([q EXCEPT ![Len(q)] = x]) = Len(q)
           /\ [q EXCEPT ![Len(q)] = x][Len(q)] = x
           /\ \A i \in 1..Len(q) : i # Len(q) => [q EXCEPT ![Len(q)] = x][i] = q[i]
<1> DEFINE n == Len(q)
           r == [q EXCEPT ![n] = x]
<1>1. n \in Nat \ {0} /\ q \in [1..n -> S]
  BY LastAndFront, LenProperties
<1> HIDE DEF n
<1>2. n \in 1..n
  BY <1>1
<1>3. r \in [1..n -> S] /\ r[n] = x /\ \A i \in 1..n : i # n => r[i] = q[i]
  BY <1>1, <1>2
<1>4. r \in Seq(S) /\ Len(r) = n
  <2> HIDE DEF r
  <2> QED BY <1>1, <1>3
<1>5. r # <<>>
  <2> HIDE DEF r
  <2> QED BY <1>1, <1>4, EmptySeq
<1> QED BY <1>3, <1>4, <1>5 DEF n

\* The bytes in each chunk, which is all the search packs.
UsedBy(m, chunks) == [c \in 1..Len(chunks) |-> Bytes(m, chunks[c])]

LEMMA UsedIs ==
    ASSUME NEW m, IsModel(m), NEW chunks \in Chunks(m)
    PROVE  /\ UsedBy(m, chunks) \in Useds /\ Len(UsedBy(m, chunks)) = Len(chunks)
           /\ Len(chunks) \in Nat \ {0} /\ chunks[Len(chunks)] \in Seq(Params(m))
           /\ chunks \in Seq(Seq(Params(m))) /\ chunks # <<>>
           /\ Last(chunks) = chunks[Len(chunks)]
           /\ Last(UsedBy(m, chunks)) = Bytes(m, Last(chunks))
           /\ \A c \in 1..Len(chunks) : UsedBy(m, chunks)[c] = Bytes(m, chunks[c])
<1> DEFINE n == Len(chunks)
           u == UsedBy(m, chunks)
<1>1. chunks \in Seq(Seq(Params(m))) /\ chunks # <<>>
  BY DEF Chunks
<1>2. n \in Nat \ {0} /\ \A c \in 1..n : chunks[c] \in Seq(Params(m))
  BY <1>1, LastAndFront, ElementOfSeq
<1> HIDE DEF n
<1>3. u = [c \in 1..n |-> Bytes(m, chunks[c])] /\ \A c \in 1..n : Bytes(m, chunks[c]) \in Nat
  BY <1>2, BytesIs DEF UsedBy, n
<1> HIDE DEF u
<1>4. u \in Seq(Nat) /\ Len(u) = n
  BY <1>2, <1>3
<1>5. u # <<>> /\ n \in 1..n
  BY <1>2, <1>4, EmptySeq
<1>6. Last(u) = Bytes(m, chunks[n]) /\ Last(chunks) = chunks[n]
  <2>1. Last(u) = u[n] /\ Last(chunks) = chunks[n]
    BY <1>4 DEF Last, n
  <2> QED BY <1>3, <1>5, <2>1
<1> QED BY <1>1, <1>2, <1>3, <1>4, <1>5, <1>6 DEF Useds, u, n

\* Chunks with the same bytes.
LEMMA UsedEqual ==
    ASSUME NEW m, IsModel(m), NEW chunks \in Chunks(m), NEW u \in Seq(Nat),
           Len(u) = Len(chunks), \A c \in 1..Len(chunks) : u[c] = Bytes(m, chunks[c])
    PROVE  u = UsedBy(m, chunks)
<1>1. /\ UsedBy(m, chunks) \in Seq(Nat) /\ Len(UsedBy(m, chunks)) = Len(u)
      /\ \A c \in 1..Len(u) : UsedBy(m, chunks)[c] = u[c]
  BY UsedIs DEF Useds
<1> QED BY <1>1, SeqEqual

LEMMA NewChunk ==
    ASSUME NEW m, IsModel(m), NEW chunks \in Chunks(m), NEW q \in Seq(Params(m))
    PROVE  /\ Append(chunks, q) \in Chunks(m)
           /\ Append(UsedBy(m, chunks), Bytes(m, q)) = UsedBy(m, Append(chunks, q))
<1> DEFINE r == Append(chunks, q)
           n == Len(chunks)
           u == UsedBy(m, chunks)
           v == Append(u, Bytes(m, q))
<1>1. /\ chunks \in Seq(Seq(Params(m))) /\ n \in Nat \ {0}
      /\ u \in Seq(Nat) /\ Len(u) = n /\ \A c \in 1..n : u[c] = Bytes(m, chunks[c])
  BY UsedIs DEF Useds
<1>2. /\ r \in Seq(Seq(Params(m))) /\ Len(r) = n + 1 /\ r[n + 1] = q
      /\ \A c \in 1..n : r[c] = chunks[c]
  BY <1>1, AppendProperties
<1>3. Bytes(m, q) \in Nat
  BY BytesIs
<1>4. /\ v \in Seq(Nat) /\ Len(v) = n + 1 /\ v[n + 1] = Bytes(m, q)
      /\ \A c \in 1..n : v[c] = u[c]
  <2> HIDE DEF u
  <2> QED BY <1>1, <1>3, AppendProperties
<1> HIDE DEF r, n, u, v
<1>5. r \in Chunks(m)
  BY <1>1, <1>2, EmptySeq DEF Chunks
<1>6. \A c \in 1..(n + 1) : v[c] = Bytes(m, r[c])
  <2>1. \A c \in 1..(n + 1) : c \in 1..n \/ c = n + 1
    BY <1>1
  <2> QED BY <1>1, <1>2, <1>4, <2>1
<1>7. v = UsedBy(m, r)
  <2>1. Len(v) = Len(r) /\ \A c \in 1..Len(r) : v[c] = Bytes(m, r[c])
    BY <1>2, <1>4, <1>6
  <2>2. v \in Seq(Nat)
    BY <1>4
  <2> QED BY <1>5, <2>1, <2>2, UsedEqual
<1> QED BY <1>5, <1>7 DEF r, u, v

\* A parameter in the last chunk, or in a new one, takes the bytes it takes.
LEMMA PlaceIs ==
    ASSUME NEW m, IsModel(m), NEW S \in Nat, NEW chunks \in Chunks(m), NEW p \in Params(m)
    PROVE  /\ Place(m, S, chunks, p) \in Chunks(m)
           /\ PackPlace(S, UsedBy(m, chunks), m.size[p]) = UsedBy(m, Place(m, S, chunks, p))
<1> DEFINE n == Len(chunks)
           u == UsedBy(m, chunks)
           k == m.size[p]
<1>1. /\ chunks \in Seq(Seq(Params(m))) /\ chunks # <<>> /\ n \in Nat \ {0}
      /\ chunks[n] \in Seq(Params(m)) /\ Last(chunks) = chunks[n]
      /\ u \in Seq(Nat) /\ u # <<>> /\ Len(u) = n /\ Last(u) = Bytes(m, Last(chunks))
      /\ \A c \in 1..n : u[c] = Bytes(m, chunks[c])
  BY UsedIs DEF Useds
<1>2. k \in Nat
  BY ModelHas
<1>3. CASE Last(u) > 0 /\ Last(u) + k > S
  <2>1. Place(m, S, chunks, p) = Append(chunks, <<p>>) /\ PackPlace(S, u, k) = Append(u, k)
    BY <1>1, <1>3 DEF Place, PackPlace
  <2>2. <<p>> \in Seq(Params(m)) /\ Bytes(m, <<p>>) = k
    <3>1. <<>> \in Seq(Params(m)) /\ Append(<<>>, p) = <<p>>
      BY EmptySeq
    <3>2. Bytes(m, <<>>) = 0 /\ Bytes(m, Append(<<>>, p)) = Bytes(m, <<>>) + k
      BY <3>1, BytesIs
    <3>3. Append(<<>>, p) \in Seq(Params(m))
      BY <3>1, AppendProperties
    <3> HIDE DEF k
    <3> QED BY <1>2, <3>1, <3>2, <3>3
  <2> QED BY <2>1, <2>2, NewChunk
<1>4. CASE ~(Last(u) > 0 /\ Last(u) + k > S)
  <2> DEFINE c == Append(chunks[n], p)
             r == [chunks EXCEPT ![n] = c]
             v == [u EXCEPT ![n] = u[n] + k]
  <2>1. Place(m, S, chunks, p) = r /\ PackPlace(S, u, k) = v
    BY <1>1, <1>4 DEF Place, PackPlace
  <2>2. c \in Seq(Params(m)) /\ Bytes(m, c) = Bytes(m, chunks[n]) + k
    BY <1>1, BytesIs, AppendProperties
  <2> HIDE DEF c
  <2>3. /\ r \in Seq(Seq(Params(m))) /\ r # <<>> /\ Len(r) = n /\ r[n] = c
        /\ \A i \in 1..n : i # n => r[i] = chunks[i]
    BY <1>1, <2>2, LastReplaced
  <2> HIDE DEF k, u
  <2>4. n \in 1..n /\ u[n] = Bytes(m, chunks[n]) /\ u[n] + k \in Nat
    <3> HIDE DEF n
    <3>1. n \in 1..n
      BY <1>1
    <3>2. u[n] \in Nat
      BY <1>1, <3>1, ElementOfSeq
    <3> QED BY <1>1, <1>2, <3>1, <3>2
  <2>5. /\ v \in Seq(Nat) /\ Len(v) = n /\ v[n] = u[n] + k
        /\ \A i \in 1..n : i # n => v[i] = u[i]
    BY <1>1, <2>4, LastReplaced
  <2> HIDE DEF r, v
  <2>6. r \in Chunks(m) /\ \A i \in 1..Len(r) : v[i] = Bytes(m, r[i])
    BY <1>1, <2>2, <2>3, <2>4, <2>5 DEF Chunks
  <2>7. v = UsedBy(m, r)
    BY <2>3, <2>5, <2>6, UsedEqual
  <2> QED BY <2>1, <2>6, <2>7 DEF u, k
<1> QED BY <1>3, <1>4

\* The step functions of the folds of the layout and of the search.
PlaceOne(m, S) == [a \in Chunks(m) \X Params(m) |-> Place(m, S, a[1], a[2])]
PackOne(S) == [a \in Useds \X Nat |-> PackPlace(S, a[1], a[2])]
AddNat == [a \in Nat \X Nat |-> a[1] + a[2]]

LEMMA PackPlaceIs ==
    ASSUME NEW S \in Nat
    PROVE  \A u \in Useds, k \in Nat : PackPlace(S, u, k) \in Useds
<1> SUFFICES ASSUME NEW u \in Useds, NEW k \in Nat PROVE PackPlace(S, u, k) \in Useds
  OBVIOUS
<1>1. u \in Seq(Nat) /\ u # <<>>
  BY DEF Useds
<1>2. Len(u) \in Nat \ {0} /\ Last(u) \in Nat /\ Last(u) = u[Len(u)]
  BY <1>1, LastAndFront
<1>3. Append(u, k) \in Useds
  <2>1. Append(u, k) \in Seq(Nat) /\ Len(Append(u, k)) = Len(u) + 1
    BY <1>1, AppendProperties
  <2>2. Len(Append(u, k)) # 0
    BY <1>2, <2>1
  <2> QED BY <2>1, <2>2, EmptySeq DEF Useds
<1>4. [u EXCEPT ![Len(u)] = u[Len(u)] + k] \in Useds
  <2>1. u[Len(u)] + k \in Nat
    BY <1>2
  <2> QED BY <1>1, <2>1, LastReplaced DEF Useds
<1> QED BY <1>3, <1>4 DEF PackPlace

LEMMA PlaceFold ==
    ASSUME NEW m, IsModel(m), NEW S \in Nat, NEW c \in Chunks(m), NEW q \in Seq(Params(m))
    PROVE  /\ Foldable(Chunks(m), Params(m), PlaceOne(m, S), c, q)
           /\ FoldLeft(LAMBDA cs, p : Place(m, S, cs, p), c, q) = Fold(PlaceOne(m, S), c, q)
<1> DEFINE n == Len(q)
           Solves(f) == f = [s \in SUBSET (1..n) |->
                               IF s = {} THEN c ELSE Place(m, S, f[s \ {Max(s)}], q[Max(s)])]
           H == CHOOSE f : Solves(f)
<1>1. \A a \in Chunks(m), x \in Params(m) :
        /\ Place(m, S, a, x) \in Chunks(m)
        /\ PlaceOne(m, S)[<<a, x>>] = Place(m, S, a, x)
  BY PlaceIs DEF PlaceOne
<1>2. Foldable(Chunks(m), Params(m), PlaceOne(m, S), c, q)
  BY PlaceIs DEF PlaceOne, Foldable
<1>3. n \in Nat /\ DOMAIN q = 1..n /\ \A i \in 1..n : q[i] \in Params(m) /\ i \in Nat \ {0}
  BY LenProperties, ElementOfSeq
<1>4. FoldLeft(LAMBDA cs, p : Place(m, S, cs, p), c, q) = H[1..n]
  <2> HIDE DEF n
  <2> QED BY <1>3 DEF FoldLeft, MapThenFoldSet
<1>5. \E f : Solves(f)
  <2>1. PICK f \in [SUBSET (1..n) -> Chunks(m)] : Unfolds(PlaceOne(m, S), c, q, n, f)
    BY <1>2, UnfoldExists DEF Foldable
  <2> HIDE DEF n
  <2>2. ASSUME NEW s \in SUBSET (1..n), s # {}
        PROVE  PlaceOne(m, S)[<<f[s \ {Max(s)}], q[Max(s)]>>] = Place(m, S, f[s \ {Max(s)}], q[Max(s)])
    <3>1. f[s \ {Max(s)}] \in Chunks(m) /\ q[Max(s)] \in Params(m)
      BY <1>3, <2>1, <2>2, MaxOfPart
    <3> QED BY <1>1, <3>1
  <2>3. Solves(f)
    BY <2>1, <2>2 DEF Unfolds
  <2> HIDE DEF Solves
  <2> QED BY <2>3
<1>6. Solves(H)
  <2> HIDE DEF Solves
  <2> QED BY <1>5
<1> HIDE DEF H
<1>7. H[{}] = c
  BY <1>6
<1>8. ASSUME NEW i \in 1..n, H[1..(i - 1)] \in Chunks(m)
      PROVE  H[1..i] = PlaceOne(m, S)[<<H[1..(i - 1)], q[i]>>]
  <2> HIDE DEF n
  <2>1. 1..i \in SUBSET (1..n) /\ i \in Nat \ {0}
    BY <1>3
  <2>2. H[1..i] = Place(m, S, H[1..(i - 1)], q[i])
    BY <1>6, <2>1, MaxOfInterval
  <2> QED BY <1>1, <1>3, <1>8, <2>2
<1>9. H[1..n] = Fold(PlaceOne(m, S), c, q)
  <2>1. Climbs(Chunks(m), PlaceOne(m, S), c, q, H)
    BY <1>7, <1>8 DEF Climbs
  <2> QED BY <1>2, <2>1, FoldIs
<1> QED BY <1>2, <1>4, <1>9

LEMMA PackFold ==
    ASSUME NEW S \in Nat, NEW v \in Useds, NEW q \in Seq(Nat)
    PROVE  /\ Foldable(Useds, Nat, PackOne(S), v, q)
           /\ FoldLeft(LAMBDA u, k : PackPlace(S, u, k), v, q) = Fold(PackOne(S), v, q)
<1> DEFINE n == Len(q)
           Solves(f) == f = [s \in SUBSET (1..n) |->
                               IF s = {} THEN v ELSE PackPlace(S, f[s \ {Max(s)}], q[Max(s)])]
           H == CHOOSE f : Solves(f)
<1>1. \A a \in Useds, x \in Nat :
        /\ PackPlace(S, a, x) \in Useds
        /\ PackOne(S)[<<a, x>>] = PackPlace(S, a, x)
  BY PackPlaceIs DEF PackOne
<1>2. Foldable(Useds, Nat, PackOne(S), v, q)
  BY PackPlaceIs DEF PackOne, Foldable
<1>3. n \in Nat /\ DOMAIN q = 1..n /\ \A i \in 1..n : q[i] \in Nat /\ i \in Nat \ {0}
  BY LenProperties, ElementOfSeq
<1>4. FoldLeft(LAMBDA u, k : PackPlace(S, u, k), v, q) = H[1..n]
  <2> HIDE DEF n
  <2> QED BY <1>3 DEF FoldLeft, MapThenFoldSet
<1>5. \E f : Solves(f)
  <2>1. PICK f \in [SUBSET (1..n) -> Useds] : Unfolds(PackOne(S), v, q, n, f)
    BY <1>2, UnfoldExists DEF Foldable
  <2> HIDE DEF n
  <2>2. ASSUME NEW s \in SUBSET (1..n), s # {}
        PROVE  PackOne(S)[<<f[s \ {Max(s)}], q[Max(s)]>>] = PackPlace(S, f[s \ {Max(s)}], q[Max(s)])
    <3>1. f[s \ {Max(s)}] \in Useds /\ q[Max(s)] \in Nat
      BY <1>3, <2>1, <2>2, MaxOfPart
    <3> QED BY <1>1, <3>1
  <2>3. Solves(f)
    BY <2>1, <2>2 DEF Unfolds
  <2> HIDE DEF Solves
  <2> QED BY <2>3
<1>6. Solves(H)
  <2> HIDE DEF Solves
  <2> QED BY <1>5
<1> HIDE DEF H
<1>7. H[{}] = v
  BY <1>6
<1>8. ASSUME NEW i \in 1..n, H[1..(i - 1)] \in Useds
      PROVE  H[1..i] = PackOne(S)[<<H[1..(i - 1)], q[i]>>]
  <2> HIDE DEF n
  <2>1. 1..i \in SUBSET (1..n) /\ i \in Nat \ {0}
    BY <1>3
  <2>2. H[1..i] = PackPlace(S, H[1..(i - 1)], q[i])
    BY <1>6, <2>1, MaxOfInterval
  <2> QED BY <1>1, <1>3, <1>8, <2>2
<1>9. H[1..n] = Fold(PackOne(S), v, q)
  <2>1. Climbs(Useds, PackOne(S), v, q, H)
    BY <1>7, <1>8 DEF Climbs
  <2> QED BY <1>2, <2>1, FoldIs
<1> QED BY <1>2, <1>4, <1>9

LEMMA SumFold ==
    ASSUME NEW z \in Nat, NEW q \in Seq(Nat)
    PROVE  /\ Foldable(Nat, Nat, AddNat, z, q)
           /\ FoldLeft(+, z, q) = Fold(AddNat, z, q)
<1> DEFINE n == Len(q)
           Solves(f) == f = [s \in SUBSET (1..n) |->
                               IF s = {} THEN z ELSE f[s \ {Max(s)}] + q[Max(s)]]
           H == CHOOSE f : Solves(f)
<1>1. \A a \in Nat, x \in Nat : a + x \in Nat /\ AddNat[<<a, x>>] = a + x
  BY DEF AddNat
<1>2. Foldable(Nat, Nat, AddNat, z, q)
  BY DEF AddNat, Foldable
<1>3. n \in Nat /\ DOMAIN q = 1..n /\ \A i \in 1..n : q[i] \in Nat /\ i \in Nat \ {0}
  BY LenProperties, ElementOfSeq
<1>4. FoldLeft(+, z, q) = H[1..n]
  <2> HIDE DEF n
  <2> QED BY <1>3 DEF FoldLeft, MapThenFoldSet
<1>5. \E f : Solves(f)
  <2>1. PICK f \in [SUBSET (1..n) -> Nat] : Unfolds(AddNat, z, q, n, f)
    BY <1>2, UnfoldExists DEF Foldable
  <2> HIDE DEF n
  <2>2. ASSUME NEW s \in SUBSET (1..n), s # {}
        PROVE  AddNat[<<f[s \ {Max(s)}], q[Max(s)]>>] = f[s \ {Max(s)}] + q[Max(s)]
    <3>1. f[s \ {Max(s)}] \in Nat /\ q[Max(s)] \in Nat
      BY <1>3, <2>1, <2>2, MaxOfPart
    <3> QED BY <1>1, <3>1
  <2>3. Solves(f)
    BY <2>1, <2>2 DEF Unfolds
  <2> HIDE DEF Solves
  <2> QED BY <2>3
<1>6. Solves(H)
  <2> HIDE DEF Solves
  <2> QED BY <1>5
<1> HIDE DEF H
<1>7. H[{}] = z
  BY <1>6
<1>8. ASSUME NEW i \in 1..n, H[1..(i - 1)] \in Nat
      PROVE  H[1..i] = AddNat[<<H[1..(i - 1)], q[i]>>]
  <2> HIDE DEF n
  <2>1. 1..i \in SUBSET (1..n) /\ i \in Nat \ {0}
    BY <1>3
  <2>2. H[1..i] = H[1..(i - 1)] + q[i]
    BY <1>6, <2>1, MaxOfInterval
  <2> QED BY <1>1, <1>3, <1>8, <2>2
<1>9. H[1..n] = Fold(AddNat, z, q)
  <2>1. Climbs(Nat, AddNat, z, q, H)
    BY <1>7, <1>8 DEF Climbs
  <2> QED BY <1>2, <2>1, FoldIs
<1> QED BY <1>2, <1>4, <1>9

Sizes(m, q) == [j \in DOMAIN q |-> m.size[q[j]]]

LEMMA SizesAre ==
    ASSUME NEW m, IsModel(m), NEW q \in Seq(Params(m))
    PROVE  /\ Sizes(m, q) \in Seq(Nat) /\ Len(Sizes(m, q)) = Len(q)
           /\ \A j \in 1..Len(q) : Sizes(m, q)[j] = m.size[q[j]] /\ q[j] \in Params(m)
<1> DEFINE n == Len(q)
           r == Sizes(m, q)
<1>1. n \in Nat /\ DOMAIN q = 1..n /\ \A j \in 1..n : q[j] \in Params(m)
  BY LenProperties, ElementOfSeq
<1> HIDE DEF n
<1>2. r = [j \in 1..n |-> m.size[q[j]]] /\ \A j \in 1..n : m.size[q[j]] \in Nat
  BY <1>1, ModelHas DEF Sizes
<1> HIDE DEF r
<1>3. r \in Seq(Nat) /\ Len(r) = n /\ \A j \in 1..n : r[j] = m.size[q[j]]
  BY <1>1, <1>2
<1> QED BY <1>1, <1>3 DEF n, r

\* The sizes of parameters add up to their bytes.
LEMMA SumOfSizes ==
    ASSUME NEW m, IsModel(m), NEW q \in Seq(Params(m))
    PROVE  FoldLeft(+, 0, Sizes(m, q)) = Bytes(m, q)
<1> DEFINE r == Sizes(m, q)
           R == {<<i, i>> : i \in Nat}
<1>1. /\ r \in Seq(Nat) /\ Len(r) = Len(q)
      /\ \A j \in 1..Len(q) : r[j] = m.size[q[j]] /\ q[j] \in Params(m) /\ m.size[q[j]] \in Nat
  BY SizesAre, ModelHas
<1> HIDE DEF r
<1>2. /\ Foldable(Nat, Params(m), AddBytes(m), 0, q) /\ Bytes(m, q) = Fold(AddBytes(m), 0, q)
  BY BytesFold
<1>3. /\ Foldable(Nat, Nat, AddNat, 0, r) /\ FoldLeft(+, 0, r) = Fold(AddNat, 0, r)
  BY <1>1, SumFold
<1>4. ASSUME NEW j \in 1..Len(q), NEW c \in Nat, NEW d \in Nat, <<c, d>> \in R
      PROVE  <<AddBytes(m)[<<c, q[j]>>], AddNat[<<d, r[j]>>]>> \in R
  <2>1. c = d
    BY <1>4
  <2>2. /\ AddBytes(m)[<<c, q[j]>>] = c + m.size[q[j]] /\ AddNat[<<c, r[j]>>] = c + m.size[q[j]]
        /\ c + m.size[q[j]] \in Nat
    BY <1>1 DEF AddBytes, AddNat
  <2> QED BY <2>1, <2>2
<1>5. <<0, 0>> \in R
  OBVIOUS
<1> HIDE DEF R
<1>6. <<Fold(AddBytes(m), 0, q), Fold(AddNat, 0, r)>> \in R
  <2>1. Agree(Nat, AddBytes(m), q, Nat, AddNat, r, R)
    BY <1>1, <1>4 DEF Agree
  <2> QED BY <1>2, <1>3, <1>5, <2>1, FoldsAgree
<1>7. Fold(AddBytes(m), 0, q) = Fold(AddNat, 0, r)
  BY <1>6 DEF R
<1> QED BY <1>2, <1>3, <1>7 DEF r

-----------------------------------------------------------------------------
(* The search packs the same bytes as the layout places parameters.        *)

\* What is placed, packed.
Same(m) == {<<c, UsedBy(m, c)>> : c \in Chunks(m)}

LEMMA SameIs ==
    ASSUME NEW m, NEW c, NEW u
    PROVE  <<c, u>> \in Same(m) <=> c \in Chunks(m) /\ u = UsedBy(m, c)
BY DEF Same

LEMMA PlacedAndPacked ==
    ASSUME NEW m, IsModel(m), NEW S \in Nat, NEW c \in Chunks(m), NEW q \in Seq(Params(m))
    PROVE  <<FoldLeft(LAMBDA cs, p : Place(m, S, cs, p), c, q),
             FoldLeft(LAMBDA u, k : PackPlace(S, u, k), UsedBy(m, c), Sizes(m, q))>> \in Same(m)
<1> DEFINE r == Sizes(m, q)
           v == UsedBy(m, c)
<1>1. /\ r \in Seq(Nat) /\ Len(r) = Len(q)
      /\ \A j \in 1..Len(q) : r[j] = m.size[q[j]] /\ q[j] \in Params(m) /\ m.size[q[j]] \in Nat
  BY SizesAre, ModelHas
<1>2. v \in Useds /\ <<c, v>> \in Same(m)
  BY UsedIs, SameIs
<1> HIDE DEF r, v
<1>3. /\ Foldable(Chunks(m), Params(m), PlaceOne(m, S), c, q)
      /\ FoldLeft(LAMBDA cs, p : Place(m, S, cs, p), c, q) = Fold(PlaceOne(m, S), c, q)
  BY PlaceFold
<1>4. /\ Foldable(Useds, Nat, PackOne(S), v, r)
      /\ FoldLeft(LAMBDA u, k : PackPlace(S, u, k), v, r) = Fold(PackOne(S), v, r)
  BY <1>1, <1>2, PackFold
<1>5. ASSUME NEW j \in 1..Len(q), NEW a \in Chunks(m), NEW b \in Useds, <<a, b>> \in Same(m)
      PROVE  <<PlaceOne(m, S)[<<a, q[j]>>], PackOne(S)[<<b, r[j]>>]>> \in Same(m)
  <2>1. b = UsedBy(m, a)
    BY <1>5, SameIs
  <2>2. /\ PlaceOne(m, S)[<<a, q[j]>>] = Place(m, S, a, q[j])
        /\ PackOne(S)[<<b, r[j]>>] = PackPlace(S, b, r[j])
    BY <1>1 DEF PlaceOne, PackOne
  <2>3. /\ Place(m, S, a, q[j]) \in Chunks(m)
        /\ PackPlace(S, b, r[j]) = UsedBy(m, Place(m, S, a, q[j]))
    <3>1. PICK p \in Params(m) : p = q[j]
      BY <1>1
    <3>2. /\ Place(m, S, a, p) \in Chunks(m)
          /\ PackPlace(S, UsedBy(m, a), m.size[p]) = UsedBy(m, Place(m, S, a, p))
      BY PlaceIs
    <3> QED BY <1>1, <2>1, <3>1, <3>2
  <2> QED BY <2>2, <2>3, SameIs
<1>6. <<Fold(PlaceOne(m, S), c, q), Fold(PackOne(S), v, r)>> \in Same(m)
  <2>1. Agree(Chunks(m), PlaceOne(m, S), q, Useds, PackOne(S), r, Same(m))
    BY <1>1, <1>5 DEF Agree
  <2> QED BY <1>2, <1>3, <1>4, <2>1, FoldsAgree
<1> QED BY <1>3, <1>4, <1>6 DEF r, v

\* A step of the layout, as the search packs it.
LEMMA PlaceStepIs ==
    ASSUME NEW m, IsModel(m), NEW S \in Nat, NEW chunks \in Chunks(m), NEW step \in StepType(m)
    PROVE  /\ PlaceStep(m, S, chunks, step) \in Chunks(m)
           /\ PackStep(S, UsedBy(m, chunks), Sized(m, step))
                 = UsedBy(m, PlaceStep(m, S, chunks, step))
<1> DEFINE q == step.params
           u == UsedBy(m, chunks)
           opens == step.block # NoBlock /\ Last(u) > 0 /\ Bytes(m, q) > S - Last(u)
           c == IF opens THEN Append(chunks, <<>>) ELSE chunks
           v == IF opens THEN Append(u, 0) ELSE u
<1>1. q \in Seq(Params(m)) /\ <<>> \in Seq(Params(m)) /\ Last(u) = Bytes(m, Last(chunks))
  BY EmptySeq, UsedIs DEF StepType
<1>2. c \in Chunks(m) /\ v = UsedBy(m, c)
  <2>1. Append(chunks, <<>>) \in Chunks(m) /\ Append(u, 0) = UsedBy(m, Append(chunks, <<>>))
    <3>1. Bytes(m, <<>>) = 0
      BY <1>1, BytesIs
    <3> QED BY <1>1, <3>1, NewChunk
  <2> QED BY <2>1
<1>3. PlaceStep(m, S, chunks, step) = FoldLeft(LAMBDA cs, p : Place(m, S, cs, p), c, q)
  <2>1. c = IF step.block = NoBlock THEN chunks ELSE SealedBefore(m, S, chunks, step.params)
    BY <1>1 DEF SealedBefore
  <2> HIDE DEF c
  <2> QED BY <2>1 DEF PlaceStep
<1>4. PackStep(S, u, Sized(m, step))
        = FoldLeft(LAMBDA w, k : PackPlace(S, w, k), v, Sizes(m, q))
  <2>1. Sized(m, step).block = step.block /\ Sized(m, step).sizes = Sizes(m, q)
    BY DEF Sized, Sizes
  <2>2. FoldLeft(+, 0, Sizes(m, q)) = Bytes(m, q)
    BY <1>1, SumOfSizes
  <2>3. v = IF Sized(m, step).block # NoBlock /\ Last(u) > 0
                /\ FoldLeft(+, 0, Sized(m, step).sizes) > S - Last(u) THEN Append(u, 0) ELSE u
    BY <2>1, <2>2
  <2> HIDE DEF v
  <2> QED BY <2>1, <2>3 DEF PackStep
<1> HIDE DEF c, v, q
<1>5. <<FoldLeft(LAMBDA cs, p : Place(m, S, cs, p), c, q),
        FoldLeft(LAMBDA w, k : PackPlace(S, w, k), UsedBy(m, c), Sizes(m, q))>> \in Same(m)
  BY <1>1, <1>2, PlacedAndPacked
<1> QED BY <1>2, <1>3, <1>4, <1>5, SameIs

\* The members of a block still to come, and the walk over all parameters.
Joins(m, b, placed, ps, p) ==
    IF p \in ToSet(m.spans[b]) \ (placed \cup ToSet(ps)) THEN Append(ps, p) ELSE ps
JoinOne(m, b, placed) == [a \in Seq(Params(m)) \X Params(m) |-> Joins(m, b, placed, a[1], a[2])]
VisitOne(m) == [a \in Seq(StepType(m)) \X DOMAIN Visits(m) |-> Visit(m, a[1], a[2])]

LEMMA JoinsTyped ==
    ASSUME NEW m, IsModel(m), NEW b, NEW placed
    PROVE  \A ps \in Seq(Params(m)), p \in Params(m) :
              Joins(m, b, placed, ps, p) \in Seq(Params(m))
BY AppendProperties DEF Joins

LEMMA OwnerIs ==
    ASSUME NEW m, IsModel(m), NEW p
    PROVE  /\ Owner(m, p) \in Nat
           /\ Owner(m, p) # NoBlock =>
                 /\ Owner(m, p) \in DOMAIN m.spans /\ p \in ToSet(m.spans[Owner(m, p)])
                 /\ m.spans[Owner(m, p)] \in Seq(Params(m))
           /\ Owner(m, p) = NoBlock => \A b \in DOMAIN m.spans : p \notin ToSet(m.spans[b])
<1> DEFINE n == Len(m.spans)
           O == {b \in DOMAIN m.spans : p \in ToSet(m.spans[b])}
<1>1. n \in Nat /\ DOMAIN m.spans = 1..n /\ \A b \in 1..n : m.spans[b] \in Seq(Params(m))
  <2>1. m.spans \in Seq(Seq(Params(m)))
    BY DEF IsModel
  <2> QED BY <2>1, LenProperties, ElementOfSeq
<1> HIDE DEF n
<1>2. O \subseteq 1..n
  BY <1>1
<1>3. /\ {NoBlock} \cup O \in SUBSET Nat /\ {NoBlock} \cup O # {}
      /\ \A x \in {NoBlock} \cup O : x <= n
  BY <1>1, <1>2 DEF NoBlock
<1> DEFINE o == Max({NoBlock} \cup O)
<1>4. o \in {NoBlock} \cup O /\ \A x \in {NoBlock} \cup O : o >= x
  BY <1>1, <1>3, MaxIsMax
<1>5. Owner(m, p) = o
  BY DEF Owner
<1> HIDE DEF o
<1>6. o = NoBlock => O = {}
  BY <1>2, <1>4 DEF NoBlock
<1> QED BY <1>1, <1>2, <1>3, <1>4, <1>5, <1>6

LEMMA MembersFold ==
    ASSUME NEW m, IsModel(m), NEW b, NEW placed, NEW q \in Seq(Params(m))
    PROVE  /\ Foldable(Seq(Params(m)), Params(m), JoinOne(m, b, placed), <<>>, q)
           /\ FoldLeft(LAMBDA ps, p : Joins(m, b, placed, ps, p), <<>>, q) = Fold(JoinOne(m, b, placed), <<>>, q)
<1> DEFINE n == Len(q)
           Solves(f) == f = [s \in SUBSET (1..n) |->
                               IF s = {} THEN <<>> ELSE Joins(m, b, placed, f[s \ {Max(s)}], q[Max(s)])]
           H == CHOOSE f : Solves(f)
<1>1. \A a \in Seq(Params(m)), x \in Params(m) :
        /\ Joins(m, b, placed, a, x) \in Seq(Params(m))
        /\ JoinOne(m, b, placed)[<<a, x>>] = Joins(m, b, placed, a, x)
  BY JoinsTyped, EmptySeq DEF JoinOne
<1>2. Foldable(Seq(Params(m)), Params(m), JoinOne(m, b, placed), <<>>, q)
  BY JoinsTyped, EmptySeq DEF JoinOne, Foldable
<1>3. n \in Nat /\ DOMAIN q = 1..n /\ \A i \in 1..n : q[i] \in Params(m) /\ i \in Nat \ {0}
  BY LenProperties, ElementOfSeq
<1>4. FoldLeft(LAMBDA ps, p : Joins(m, b, placed, ps, p), <<>>, q) = H[1..n]
  <2> HIDE DEF n
  <2> QED BY <1>3 DEF FoldLeft, MapThenFoldSet
<1>5. \E f : Solves(f)
  <2>1. PICK f \in [SUBSET (1..n) -> Seq(Params(m))] : Unfolds(JoinOne(m, b, placed), <<>>, q, n, f)
    BY <1>2, UnfoldExists DEF Foldable
  <2> HIDE DEF n
  <2>2. ASSUME NEW s \in SUBSET (1..n), s # {}
        PROVE  JoinOne(m, b, placed)[<<f[s \ {Max(s)}], q[Max(s)]>>] = Joins(m, b, placed, f[s \ {Max(s)}], q[Max(s)])
    <3>1. f[s \ {Max(s)}] \in Seq(Params(m)) /\ q[Max(s)] \in Params(m)
      BY <1>3, <2>1, <2>2, MaxOfPart
    <3> QED BY <1>1, <3>1
  <2>3. Solves(f)
    BY <2>1, <2>2 DEF Unfolds
  <2> HIDE DEF Solves
  <2> QED BY <2>3
<1>6. Solves(H)
  <2> HIDE DEF Solves
  <2> QED BY <1>5
<1> HIDE DEF H
<1>7. H[{}] = <<>>
  BY <1>6
<1>8. ASSUME NEW i \in 1..n, H[1..(i - 1)] \in Seq(Params(m))
      PROVE  H[1..i] = JoinOne(m, b, placed)[<<H[1..(i - 1)], q[i]>>]
  <2> HIDE DEF n
  <2>1. 1..i \in SUBSET (1..n) /\ i \in Nat \ {0}
    BY <1>3
  <2>2. H[1..i] = Joins(m, b, placed, H[1..(i - 1)], q[i])
    BY <1>6, <2>1, MaxOfInterval
  <2> QED BY <1>1, <1>3, <1>8, <2>2
<1>9. H[1..n] = Fold(JoinOne(m, b, placed), <<>>, q)
  <2>1. Climbs(Seq(Params(m)), JoinOne(m, b, placed), <<>>, q, H)
    BY <1>7, <1>8 DEF Climbs
  <2> QED BY <1>2, <2>1, FoldIs
<1> QED BY <1>2, <1>4, <1>9

LEMMA VisitsAre ==
    ASSUME NEW m, IsModel(m)
    PROVE  /\ Visits(m) \in Seq(Params(m)) /\ Len(Visits(m)) = Len(m.order) + Len(m.size)
           /\ m.order \in Seq(Params(m)) /\ Len(m.order) \in Nat
           /\ DOMAIN Visits(m) = 1..Len(Visits(m)) /\ Len(Visits(m)) \in Nat
           /\ \A p \in Params(m) : Visits(m)[Len(m.order) + p] = p
<1> DEFINE n == Len(m.size)
           all == [p \in 1..n |-> p]
           k == Len(m.order)
<1>1. n \in Nat /\ Params(m) = 1..n /\ m.order \in Seq(Params(m))
  BY ModelHas DEF Params, IsModel
<1>2. all \in Seq(Params(m)) /\ Len(all) = n /\ \A p \in Params(m) : all[p] = p
  <2> HIDE DEF n
  <2> QED BY <1>1
<1>3. k \in Nat
  BY <1>1, LenProperties
<1> HIDE DEF all
<1>4. /\ m.order \o all \in Seq(Params(m)) /\ Len(m.order \o all) = k + n
      /\ \A i \in 1..(k + n) : (m.order \o all)[i] = IF i <= k THEN m.order[i] ELSE all[i - k]
  <2> DEFINE o == m.order
  <2>1. o \in Seq(Params(m)) /\ all \in Seq(Params(m)) /\ Len(all) = n
    BY <1>1, <1>2
  <2> HIDE DEF o, n
  <2>2. /\ o \o all \in Seq(Params(m)) /\ Len(o \o all) = Len(o) + Len(all)
        /\ \A i \in 1..(Len(o) + Len(all)) :
              (o \o all)[i] = IF i <= Len(o) THEN o[i] ELSE all[i - Len(o)]
    BY <2>1, ConcatProperties
  <2> QED BY <2>1, <2>2 DEF o
<1>5. Visits(m) = m.order \o all
  BY <1>1 DEF Visits, all
<1> HIDE DEF n, k
<1>6. ASSUME NEW p \in Params(m) PROVE Visits(m)[k + p] = p
  <2>1. k + p \in 1..(k + n) /\ ~(k + p <= k) /\ (k + p) - k = p
    BY <1>1, <1>3
  <2> QED BY <1>2, <1>4, <1>5, <2>1
<1> QED BY <1>1, <1>3, <1>4, <1>5, <1>6, LenProperties DEF n, k

LEMMA MembersTyped ==
    ASSUME NEW m, IsModel(m), NEW b \in DOMAIN m.spans, NEW i \in Nat \ {0}, NEW placed
    PROVE  LET q == SubSeq(m.order, i, Len(m.order)) \o m.spans[b]
           IN  /\ q \in Seq(Params(m)) /\ m.spans[b] \in Seq(Params(m))
               /\ ToSet(m.spans[b]) \subseteq ToSet(q)
               /\ Members(m, b, i, placed) = Fold(JoinOne(m, b, placed), <<>>, q)
               /\ Foldable(Seq(Params(m)), Params(m), JoinOne(m, b, placed), <<>>, q)
               /\ Members(m, b, i, placed) \in Seq(Params(m))
<1> DEFINE r == SubSeq(m.order, i, Len(m.order))
           q == r \o m.spans[b]
<1>1. m.spans[b] \in Seq(Params(m))
  <2>1. m.spans \in Seq(Seq(Params(m)))
    BY DEF IsModel
  <2> QED BY <2>1, LenProperties, ElementOfSeq
<1>2. r \in Seq(Params(m))
  <2>1. m.order \in Seq(Params(m)) /\ Len(m.order) \in Int /\ i \in Int
    <3>1. m.order \in Seq(Params(m)) /\ Len(m.order) \in Nat
      BY VisitsAre
    <3> QED BY <3>1
  <2>2. \A j \in i..Len(m.order) : m.order[j] \in Params(m)
    <3>1. \A j \in i..Len(m.order) : j \in 1..Len(m.order)
      BY <2>1
    <3> QED BY <2>1, <3>1, ElementOfSeq
  <2> QED BY <2>1, <2>2, SubSeqProperties
<1> HIDE DEF r
<1>3. q \in Seq(Params(m)) /\ ToSet(q) = ToSet(r) \cup ToSet(m.spans[b])
  BY <1>1, <1>2, ConcatSet
<1>4. Members(m, b, i, placed) = FoldLeft(LAMBDA ps, p : Joins(m, b, placed, ps, p), <<>>, q)
  BY DEF Members, Joins, r
<1> HIDE DEF q
<1>5. /\ Foldable(Seq(Params(m)), Params(m), JoinOne(m, b, placed), <<>>, q)
      /\ FoldLeft(LAMBDA ps, p : Joins(m, b, placed, ps, p), <<>>, q)
            = Fold(JoinOne(m, b, placed), <<>>, q)
  BY <1>3, MembersFold
<1>6. Members(m, b, i, placed) \in Seq(Params(m))
  <2>1. Fold(JoinOne(m, b, placed), <<>>, q) \in Seq(Params(m))
    BY <1>5, FoldAlong
  <2> QED BY <1>4, <1>5, <2>1
<1> QED BY <1>1, <1>3, <1>4, <1>5, <1>6 DEF q, r

LEMMA VisitTyped ==
    ASSUME NEW m, IsModel(m)
    PROVE  \A s \in Seq(StepType(m)), i \in DOMAIN Visits(m) : Visit(m, s, i) \in Seq(StepType(m))
<1> SUFFICES ASSUME NEW s \in Seq(StepType(m)), NEW i \in DOMAIN Visits(m)
             PROVE  Visit(m, s, i) \in Seq(StepType(m))
  OBVIOUS
<1> DEFINE p == Visits(m)[i]
           b == Owner(m, p)
           ps == IF b = NoBlock THEN <<p>> ELSE Members(m, b, i, Placed(s))
<1>1. p \in Params(m) /\ i \in Nat \ {0}
  <2>1. Visits(m) \in Seq(Params(m)) /\ i \in 1..Len(Visits(m)) /\ Len(Visits(m)) \in Nat
    BY VisitsAre
  <2> QED BY <2>1, ElementOfSeq
<1>2. ps \in Seq(Params(m))
  <2>1. CASE b = NoBlock
    BY <1>1, <2>1
  <2>2. CASE b # NoBlock
    <3>1. b \in DOMAIN m.spans
      BY <2>2, OwnerIs
    <3> HIDE DEF b
    <3>2. Members(m, b, i, Placed(s)) \in Seq(Params(m))
      BY <1>1, <3>1, MembersTyped
    <3> QED BY <2>2, <3>2
  <2> QED BY <2>1, <2>2
<1>3. Visit(m, s, i) = IF p \in Placed(s) THEN s ELSE Append(s, [block |-> b, params |-> ps])
  BY DEF Visit
<1>4. [block |-> b, params |-> ps] \in StepType(m)
  <2>1. b \in Nat
    BY OwnerIs
  <2> HIDE DEF b, ps
  <2> QED BY <1>2, <2>1 DEF StepType
<1> HIDE DEF b, ps, p
<1> QED BY <1>3, <1>4, AppendProperties

LEMMA StepsFold ==
    ASSUME NEW m, IsModel(m), NEW q \in Seq(DOMAIN Visits(m))
    PROVE  /\ Foldable(Seq(StepType(m)), DOMAIN Visits(m), VisitOne(m), <<>>, q)
           /\ FoldLeft(LAMBDA s, i : Visit(m, s, i), <<>>, q) = Fold(VisitOne(m), <<>>, q)
<1> DEFINE n == Len(q)
           Solves(f) == f = [s \in SUBSET (1..n) |->
                               IF s = {} THEN <<>> ELSE Visit(m, f[s \ {Max(s)}], q[Max(s)])]
           H == CHOOSE f : Solves(f)
<1>1. \A a \in Seq(StepType(m)), x \in DOMAIN Visits(m) :
        /\ Visit(m, a, x) \in Seq(StepType(m))
        /\ VisitOne(m)[<<a, x>>] = Visit(m, a, x)
  BY VisitTyped, EmptySeq DEF VisitOne
<1>2. Foldable(Seq(StepType(m)), DOMAIN Visits(m), VisitOne(m), <<>>, q)
  BY VisitTyped, EmptySeq DEF VisitOne, Foldable
<1>3. n \in Nat /\ DOMAIN q = 1..n /\ \A i \in 1..n : q[i] \in DOMAIN Visits(m) /\ i \in Nat \ {0}
  BY LenProperties, ElementOfSeq
<1>4. FoldLeft(LAMBDA s, i : Visit(m, s, i), <<>>, q) = H[1..n]
  <2> HIDE DEF n
  <2> QED BY <1>3 DEF FoldLeft, MapThenFoldSet
<1>5. \E f : Solves(f)
  <2>1. PICK f \in [SUBSET (1..n) -> Seq(StepType(m))] : Unfolds(VisitOne(m), <<>>, q, n, f)
    BY <1>2, UnfoldExists DEF Foldable
  <2> HIDE DEF n
  <2>2. ASSUME NEW s \in SUBSET (1..n), s # {}
        PROVE  VisitOne(m)[<<f[s \ {Max(s)}], q[Max(s)]>>] = Visit(m, f[s \ {Max(s)}], q[Max(s)])
    <3>1. f[s \ {Max(s)}] \in Seq(StepType(m)) /\ q[Max(s)] \in DOMAIN Visits(m)
      BY <1>3, <2>1, <2>2, MaxOfPart
    <3> QED BY <1>1, <3>1
  <2>3. Solves(f)
    BY <2>1, <2>2 DEF Unfolds
  <2> HIDE DEF Solves
  <2> QED BY <2>3
<1>6. Solves(H)
  <2> HIDE DEF Solves
  <2> QED BY <1>5
<1> HIDE DEF H
<1>7. H[{}] = <<>>
  BY <1>6
<1>8. ASSUME NEW i \in 1..n, H[1..(i - 1)] \in Seq(StepType(m))
      PROVE  H[1..i] = VisitOne(m)[<<H[1..(i - 1)], q[i]>>]
  <2> HIDE DEF n
  <2>1. 1..i \in SUBSET (1..n) /\ i \in Nat \ {0}
    BY <1>3
  <2>2. H[1..i] = Visit(m, H[1..(i - 1)], q[i])
    BY <1>6, <2>1, MaxOfInterval
  <2> QED BY <1>1, <1>3, <1>8, <2>2
<1>9. H[1..n] = Fold(VisitOne(m), <<>>, q)
  <2>1. Climbs(Seq(StepType(m)), VisitOne(m), <<>>, q, H)
    BY <1>7, <1>8 DEF Climbs
  <2> QED BY <1>2, <2>1, FoldIs
<1> QED BY <1>2, <1>4, <1>9

LEMMA StepsAre ==
    ASSUME NEW m, IsModel(m)
    PROVE  LET q == [i \in DOMAIN Visits(m) |-> i]
           IN  /\ Steps(m) \in Seq(StepType(m)) /\ Steps(m) = Fold(VisitOne(m), <<>>, q)
               /\ Foldable(Seq(StepType(m)), DOMAIN Visits(m), VisitOne(m), <<>>, q)
               /\ Len(q) = Len(Visits(m)) /\ \A i \in 1..Len(q) : q[i] = i
<1> DEFINE V == DOMAIN Visits(m)
           n == Len(Visits(m))
           q == [i \in V |-> i]
<1>1. V = 1..n /\ n \in Nat
  BY VisitsAre
<1>2. q \in Seq(V) /\ Len(q) = n /\ \A i \in 1..n : q[i] = i
  <2> HIDE DEF V, n
  <2> QED BY <1>1
<1>3. Steps(m) = FoldLeft(LAMBDA s, i : Visit(m, s, i), <<>>, q)
  BY DEF Steps
<1> HIDE DEF q
<1>4. /\ Foldable(Seq(StepType(m)), V, VisitOne(m), <<>>, q)
      /\ FoldLeft(LAMBDA s, i : Visit(m, s, i), <<>>, q) = Fold(VisitOne(m), <<>>, q)
  BY <1>2, StepsFold
<1>5. Steps(m) \in Seq(StepType(m))
  <2>1. Fold(VisitOne(m), <<>>, q) \in Seq(StepType(m))
    BY <1>4, FoldAlong
  <2> QED BY <1>3, <1>4, <2>1
<1> QED BY <1>2, <1>3, <1>4, <1>5 DEF q

\* The steps of the layout, those of the search, and the two wastes.
LayoutOne(m, S) == [a \in Chunks(m) \X StepType(m) |-> PlaceStep(m, S, a[1], a[2])]
PackStepOne(m, S) == [a \in Useds \X StepType(m) |-> PackStep(S, a[1], Sized(m, a[2]))]
SlackOne(S) == [a \in Nat \X Nat |-> a[1] + Slack(S, a[2])]
RoomLeft(m, S, c) == Max({0, S - Bytes(m, c)})
RoomOne(m, S) == [a \in Nat \X Seq(Params(m)) |-> a[1] + RoomLeft(m, S, a[2])]

LEMMA SizedIs ==
    ASSUME NEW m, IsModel(m), NEW step \in StepType(m)
    PROVE  /\ Sized(m, step).block = step.block /\ Sized(m, step).sizes = Sizes(m, step.params)
           /\ Sizes(m, step.params) \in Seq(Nat)
           /\ step.params \in Seq(Params(m))
           /\ FoldLeft(+, 0, Sized(m, step).sizes) = Bytes(m, step.params)
<1>1. step.params \in Seq(Params(m))
  BY DEF StepType
<1>2. Sized(m, step).block = step.block /\ Sized(m, step).sizes = Sizes(m, step.params)
  BY DEF Sized, Sizes
<1>3. FoldLeft(+, 0, Sizes(m, step.params)) = Bytes(m, step.params)
  BY <1>1, SumOfSizes
<1> QED BY <1>1, <1>2, <1>3, SizesAre

\* Where a step of the search starts.
Opened(S, u, block, total) ==
    IF block # NoBlock /\ Last(u) > 0 /\ total > S - Last(u) THEN Append(u, 0) ELSE u

LEMMA PackStepIs ==
    ASSUME NEW m, IsModel(m), NEW S \in Nat, NEW u \in Useds, NEW step \in StepType(m)
    PROVE  LET v == Opened(S, u, step.block, Bytes(m, step.params))
               q == Sizes(m, step.params)
           IN  /\ v \in Useds /\ q \in Seq(Nat)
               /\ Foldable(Useds, Nat, PackOne(S), v, q)
               /\ PackStep(S, u, Sized(m, step)) = Fold(PackOne(S), v, q)
               /\ PackStep(S, u, Sized(m, step)) \in Useds
<1> DEFINE t == Sized(m, step)
           q == Sizes(m, step.params)
           v == Opened(S, u, step.block, Bytes(m, step.params))
<1>1. /\ t.block = step.block /\ t.sizes = q /\ q \in Seq(Nat)
      /\ FoldLeft(+, 0, t.sizes) = Bytes(m, step.params)
  BY SizedIs
<1>2. v \in Useds
  <2>1. u \in Seq(Nat)
    BY DEF Useds
  <2>2. Append(u, 0) \in Seq(Nat) /\ Len(Append(u, 0)) = Len(u) + 1 /\ Len(u) \in Nat
    BY <2>1, AppendProperties, LenProperties
  <2>3. Append(u, 0) \in Useds
    BY <2>2, EmptySeq DEF Useds
  <2> QED BY <2>3 DEF Opened
<1>3. PackStep(S, u, t) = FoldLeft(LAMBDA w, n : PackPlace(S, w, n), v, q)
  <2>1. v = IF t.block # NoBlock /\ Last(u) > 0 /\ FoldLeft(+, 0, t.sizes) > S - Last(u)
            THEN Append(u, 0) ELSE u
    BY <1>1 DEF Opened
  <2> HIDE DEF v, q, t
  <2> QED BY <1>1, <2>1 DEF PackStep
<1> HIDE DEF v, q, t
<1>4. /\ Foldable(Useds, Nat, PackOne(S), v, q)
      /\ FoldLeft(LAMBDA w, n : PackPlace(S, w, n), v, q) = Fold(PackOne(S), v, q)
  BY <1>1, <1>2, PackFold
<1>5. Fold(PackOne(S), v, q) \in Useds
  BY <1>4, FoldAlong
<1> QED BY <1>1, <1>2, <1>3, <1>4, <1>5 DEF v, q, t

LEMMA PlaceStepTyped ==
    ASSUME NEW m, IsModel(m), NEW S \in Nat
    PROVE  \A c \in Chunks(m), step \in StepType(m) : PlaceStep(m, S, c, step) \in Chunks(m)
BY PlaceStepIs

LEMMA PackStepTyped ==
    ASSUME NEW m, IsModel(m), NEW S \in Nat
    PROVE  \A u \in Useds, step \in StepType(m) : PackStep(S, u, Sized(m, step)) \in Useds
BY PackStepIs

LEMMA SlackIs ==
    ASSUME NEW S \in Nat
    PROVE  \A w \in Nat, n \in Nat : Slack(S, n) \in Nat /\ w + Slack(S, n) \in Nat
BY DEF Slack

LEMMA RoomIs ==
    ASSUME NEW m, IsModel(m), NEW S \in Nat
    PROVE  \A c \in Seq(Params(m)) :
              RoomLeft(m, S, c) \in Nat /\ RoomLeft(m, S, c) = Slack(S, Bytes(m, c))
<1> SUFFICES ASSUME NEW c \in Seq(Params(m))
             PROVE  RoomLeft(m, S, c) \in Nat /\ RoomLeft(m, S, c) = Slack(S, Bytes(m, c))
  OBVIOUS
<1> DEFINE k == Bytes(m, c)
           x == Max({0, S - k})
<1>1. k \in Nat
  BY BytesIs
<1>2. RoomLeft(m, S, c) = x
  BY DEF RoomLeft
<1> HIDE DEF k
<1>3. x \in {0, S - k} /\ x >= 0 /\ x >= S - k
  <2> DEFINE T == {0, S - k}
  <2>1. \E y \in T : \A z \in T : y >= z
    BY <1>1
  <2>2. x \in T /\ \A z \in T : x >= z
    <3>1. x = Max(T)
      OBVIOUS
    <3> HIDE DEF T, x
    <3> QED BY <2>1, <3>1 DEF Max
  <2> QED BY <2>2
<1> HIDE DEF x
<1>4. x = Slack(S, k) /\ x \in Nat
  BY <1>1, <1>3 DEF Slack
<1> QED BY <1>2, <1>4 DEF k

LEMMA RoomTyped ==
    ASSUME NEW m, IsModel(m), NEW S \in Nat
    PROVE  \A w \in Nat, c \in Seq(Params(m)) : w + RoomLeft(m, S, c) \in Nat
<1> SUFFICES ASSUME NEW w \in Nat, NEW c \in Seq(Params(m)) PROVE w + RoomLeft(m, S, c) \in Nat
  OBVIOUS
<1>1. RoomLeft(m, S, c) \in Nat
  BY RoomIs
<1> QED BY <1>1

LEMMA LayoutFold ==
    ASSUME NEW m, IsModel(m), NEW S \in Nat, NEW c \in Chunks(m), NEW q \in Seq(StepType(m))
    PROVE  /\ Foldable(Chunks(m), StepType(m), LayoutOne(m, S), c, q)
           /\ FoldLeft(LAMBDA cs, step : PlaceStep(m, S, cs, step), c, q) = Fold(LayoutOne(m, S), c, q)
<1> DEFINE n == Len(q)
           Solves(f) == f = [s \in SUBSET (1..n) |->
                               IF s = {} THEN c ELSE PlaceStep(m, S, f[s \ {Max(s)}], q[Max(s)])]
           H == CHOOSE f : Solves(f)
<1>1. \A a \in Chunks(m), x \in StepType(m) :
        /\ PlaceStep(m, S, a, x) \in Chunks(m)
        /\ LayoutOne(m, S)[<<a, x>>] = PlaceStep(m, S, a, x)
  BY PlaceStepTyped DEF LayoutOne
<1>2. Foldable(Chunks(m), StepType(m), LayoutOne(m, S), c, q)
  BY PlaceStepTyped DEF LayoutOne, Foldable
<1>3. n \in Nat /\ DOMAIN q = 1..n /\ \A i \in 1..n : q[i] \in StepType(m) /\ i \in Nat \ {0}
  BY LenProperties, ElementOfSeq
<1>4. FoldLeft(LAMBDA cs, step : PlaceStep(m, S, cs, step), c, q) = H[1..n]
  <2> HIDE DEF n
  <2> QED BY <1>3 DEF FoldLeft, MapThenFoldSet
<1>5. \E f : Solves(f)
  <2>1. PICK f \in [SUBSET (1..n) -> Chunks(m)] : Unfolds(LayoutOne(m, S), c, q, n, f)
    BY <1>2, UnfoldExists DEF Foldable
  <2> HIDE DEF n
  <2>2. ASSUME NEW s \in SUBSET (1..n), s # {}
        PROVE  LayoutOne(m, S)[<<f[s \ {Max(s)}], q[Max(s)]>>] = PlaceStep(m, S, f[s \ {Max(s)}], q[Max(s)])
    <3>1. f[s \ {Max(s)}] \in Chunks(m) /\ q[Max(s)] \in StepType(m)
      BY <1>3, <2>1, <2>2, MaxOfPart
    <3> QED BY <1>1, <3>1
  <2>3. Solves(f)
    BY <2>1, <2>2 DEF Unfolds
  <2> HIDE DEF Solves
  <2> QED BY <2>3
<1>6. Solves(H)
  <2> HIDE DEF Solves
  <2> QED BY <1>5
<1> HIDE DEF H
<1>7. H[{}] = c
  BY <1>6
<1>8. ASSUME NEW i \in 1..n, H[1..(i - 1)] \in Chunks(m)
      PROVE  H[1..i] = LayoutOne(m, S)[<<H[1..(i - 1)], q[i]>>]
  <2> HIDE DEF n
  <2>1. 1..i \in SUBSET (1..n) /\ i \in Nat \ {0}
    BY <1>3
  <2>2. H[1..i] = PlaceStep(m, S, H[1..(i - 1)], q[i])
    BY <1>6, <2>1, MaxOfInterval
  <2> QED BY <1>1, <1>3, <1>8, <2>2
<1>9. H[1..n] = Fold(LayoutOne(m, S), c, q)
  <2>1. Climbs(Chunks(m), LayoutOne(m, S), c, q, H)
    BY <1>7, <1>8 DEF Climbs
  <2> QED BY <1>2, <2>1, FoldIs
<1> QED BY <1>2, <1>4, <1>9

LEMMA PackStepFold ==
    ASSUME NEW m, IsModel(m), NEW S \in Nat, NEW v \in Useds, NEW q \in Seq(StepType(m))
    PROVE  /\ Foldable(Useds, StepType(m), PackStepOne(m, S), v, q)
           /\ FoldLeft(LAMBDA u, step : PackStep(S, u, Sized(m, step)), v, q) = Fold(PackStepOne(m, S), v, q)
<1> DEFINE n == Len(q)
           Solves(f) == f = [s \in SUBSET (1..n) |->
                               IF s = {} THEN v ELSE PackStep(S, f[s \ {Max(s)}], Sized(m, q[Max(s)]))]
           H == CHOOSE f : Solves(f)
<1>1. \A a \in Useds, x \in StepType(m) :
        /\ PackStep(S, a, Sized(m, x)) \in Useds
        /\ PackStepOne(m, S)[<<a, x>>] = PackStep(S, a, Sized(m, x))
  BY PackStepTyped DEF PackStepOne
<1>2. Foldable(Useds, StepType(m), PackStepOne(m, S), v, q)
  BY PackStepTyped DEF PackStepOne, Foldable
<1>3. n \in Nat /\ DOMAIN q = 1..n /\ \A i \in 1..n : q[i] \in StepType(m) /\ i \in Nat \ {0}
  BY LenProperties, ElementOfSeq
<1>4. FoldLeft(LAMBDA u, step : PackStep(S, u, Sized(m, step)), v, q) = H[1..n]
  <2> HIDE DEF n
  <2> QED BY <1>3 DEF FoldLeft, MapThenFoldSet
<1>5. \E f : Solves(f)
  <2>1. PICK f \in [SUBSET (1..n) -> Useds] : Unfolds(PackStepOne(m, S), v, q, n, f)
    BY <1>2, UnfoldExists DEF Foldable
  <2> HIDE DEF n
  <2>2. ASSUME NEW s \in SUBSET (1..n), s # {}
        PROVE  PackStepOne(m, S)[<<f[s \ {Max(s)}], q[Max(s)]>>] = PackStep(S, f[s \ {Max(s)}], Sized(m, q[Max(s)]))
    <3>1. f[s \ {Max(s)}] \in Useds /\ q[Max(s)] \in StepType(m)
      BY <1>3, <2>1, <2>2, MaxOfPart
    <3> QED BY <1>1, <3>1
  <2>3. Solves(f)
    BY <2>1, <2>2 DEF Unfolds
  <2> HIDE DEF Solves
  <2> QED BY <2>3
<1>6. Solves(H)
  <2> HIDE DEF Solves
  <2> QED BY <1>5
<1> HIDE DEF H
<1>7. H[{}] = v
  BY <1>6
<1>8. ASSUME NEW i \in 1..n, H[1..(i - 1)] \in Useds
      PROVE  H[1..i] = PackStepOne(m, S)[<<H[1..(i - 1)], q[i]>>]
  <2> HIDE DEF n
  <2>1. 1..i \in SUBSET (1..n) /\ i \in Nat \ {0}
    BY <1>3
  <2>2. H[1..i] = PackStep(S, H[1..(i - 1)], Sized(m, q[i]))
    BY <1>6, <2>1, MaxOfInterval
  <2> QED BY <1>1, <1>3, <1>8, <2>2
<1>9. H[1..n] = Fold(PackStepOne(m, S), v, q)
  <2>1. Climbs(Useds, PackStepOne(m, S), v, q, H)
    BY <1>7, <1>8 DEF Climbs
  <2> QED BY <1>2, <2>1, FoldIs
<1> QED BY <1>2, <1>4, <1>9

LEMMA SlackFold ==
    ASSUME NEW S \in Nat, NEW q \in Seq(Nat)
    PROVE  /\ Foldable(Nat, Nat, SlackOne(S), 0, q)
           /\ FoldLeft(LAMBDA w, k : w + Slack(S, k), 0, q) = Fold(SlackOne(S), 0, q)
<1> DEFINE n == Len(q)
           Solves(f) == f = [s \in SUBSET (1..n) |->
                               IF s = {} THEN 0 ELSE f[s \ {Max(s)}] + Slack(S, q[Max(s)])]
           H == CHOOSE f : Solves(f)
<1>1. \A a \in Nat, x \in Nat : a + Slack(S, x) \in Nat /\ SlackOne(S)[<<a, x>>] = a + Slack(S, x)
  BY SlackIs DEF SlackOne
<1>2. Foldable(Nat, Nat, SlackOne(S), 0, q)
  BY SlackIs DEF SlackOne, Foldable
<1>3. n \in Nat /\ DOMAIN q = 1..n /\ \A i \in 1..n : q[i] \in Nat /\ i \in Nat \ {0}
  BY LenProperties, ElementOfSeq
<1>4. FoldLeft(LAMBDA w, k : w + Slack(S, k), 0, q) = H[1..n]
  <2> HIDE DEF n
  <2> QED BY <1>3 DEF FoldLeft, MapThenFoldSet
<1>5. \E f : Solves(f)
  <2>1. PICK f \in [SUBSET (1..n) -> Nat] : Unfolds(SlackOne(S), 0, q, n, f)
    BY <1>2, UnfoldExists DEF Foldable
  <2> HIDE DEF n
  <2>2. ASSUME NEW s \in SUBSET (1..n), s # {}
        PROVE  SlackOne(S)[<<f[s \ {Max(s)}], q[Max(s)]>>] = f[s \ {Max(s)}] + Slack(S, q[Max(s)])
    <3>1. f[s \ {Max(s)}] \in Nat /\ q[Max(s)] \in Nat
      BY <1>3, <2>1, <2>2, MaxOfPart
    <3> QED BY <1>1, <3>1
  <2>3. Solves(f)
    BY <2>1, <2>2 DEF Unfolds
  <2> HIDE DEF Solves
  <2> QED BY <2>3
<1>6. Solves(H)
  <2> HIDE DEF Solves
  <2> QED BY <1>5
<1> HIDE DEF H
<1>7. H[{}] = 0
  BY <1>6
<1>8. ASSUME NEW i \in 1..n, H[1..(i - 1)] \in Nat
      PROVE  H[1..i] = SlackOne(S)[<<H[1..(i - 1)], q[i]>>]
  <2> HIDE DEF n
  <2>1. 1..i \in SUBSET (1..n) /\ i \in Nat \ {0}
    BY <1>3
  <2>2. H[1..i] = H[1..(i - 1)] + Slack(S, q[i])
    BY <1>6, <2>1, MaxOfInterval
  <2> QED BY <1>1, <1>3, <1>8, <2>2
<1>9. H[1..n] = Fold(SlackOne(S), 0, q)
  <2>1. Climbs(Nat, SlackOne(S), 0, q, H)
    BY <1>7, <1>8 DEF Climbs
  <2> QED BY <1>2, <2>1, FoldIs
<1> QED BY <1>2, <1>4, <1>9

LEMMA RoomFold ==
    ASSUME NEW m, IsModel(m), NEW S \in Nat, NEW q \in Seq(Seq(Params(m)))
    PROVE  /\ Foldable(Nat, Seq(Params(m)), RoomOne(m, S), 0, q)
           /\ FoldLeft(LAMBDA w, c : w + RoomLeft(m, S, c), 0, q) = Fold(RoomOne(m, S), 0, q)
<1> DEFINE n == Len(q)
           Solves(f) == f = [s \in SUBSET (1..n) |->
                               IF s = {} THEN 0 ELSE f[s \ {Max(s)}] + RoomLeft(m, S, q[Max(s)])]
           H == CHOOSE f : Solves(f)
<1>1. \A a \in Nat, x \in Seq(Params(m)) :
        /\ a + RoomLeft(m, S, x) \in Nat
        /\ RoomOne(m, S)[<<a, x>>] = a + RoomLeft(m, S, x)
  BY RoomTyped DEF RoomOne
<1>2. Foldable(Nat, Seq(Params(m)), RoomOne(m, S), 0, q)
  BY RoomTyped DEF RoomOne, Foldable
<1>3. n \in Nat /\ DOMAIN q = 1..n /\ \A i \in 1..n : q[i] \in Seq(Params(m)) /\ i \in Nat \ {0}
  BY LenProperties, ElementOfSeq
<1>4. FoldLeft(LAMBDA w, c : w + RoomLeft(m, S, c), 0, q) = H[1..n]
  <2> HIDE DEF n
  <2> QED BY <1>3 DEF FoldLeft, MapThenFoldSet
<1>5. \E f : Solves(f)
  <2>1. PICK f \in [SUBSET (1..n) -> Nat] : Unfolds(RoomOne(m, S), 0, q, n, f)
    BY <1>2, UnfoldExists DEF Foldable
  <2> HIDE DEF n
  <2>2. ASSUME NEW s \in SUBSET (1..n), s # {}
        PROVE  RoomOne(m, S)[<<f[s \ {Max(s)}], q[Max(s)]>>] = f[s \ {Max(s)}] + RoomLeft(m, S, q[Max(s)])
    <3>1. f[s \ {Max(s)}] \in Nat /\ q[Max(s)] \in Seq(Params(m))
      BY <1>3, <2>1, <2>2, MaxOfPart
    <3> QED BY <1>1, <3>1
  <2>3. Solves(f)
    BY <2>1, <2>2 DEF Unfolds
  <2> HIDE DEF Solves
  <2> QED BY <2>3
<1>6. Solves(H)
  <2> HIDE DEF Solves
  <2> QED BY <1>5
<1> HIDE DEF H
<1>7. H[{}] = 0
  BY <1>6
<1>8. ASSUME NEW i \in 1..n, H[1..(i - 1)] \in Nat
      PROVE  H[1..i] = RoomOne(m, S)[<<H[1..(i - 1)], q[i]>>]
  <2> HIDE DEF n
  <2>1. 1..i \in SUBSET (1..n) /\ i \in Nat \ {0}
    BY <1>3
  <2>2. H[1..i] = H[1..(i - 1)] + RoomLeft(m, S, q[i])
    BY <1>6, <2>1, MaxOfInterval
  <2> QED BY <1>1, <1>3, <1>8, <2>2
<1>9. H[1..n] = Fold(RoomOne(m, S), 0, q)
  <2>1. Climbs(Nat, RoomOne(m, S), 0, q, H)
    BY <1>7, <1>8 DEF Climbs
  <2> QED BY <1>2, <2>1, FoldIs
<1> QED BY <1>2, <1>4, <1>9

\* A chunk without bytes is only made after an oversize one.
Full(S, u) == Len(u) = 1 \/ u[Len(u)] > 0 \/ u[Len(u) - 1] > S

LEMMA UsedsAre ==
    ASSUME NEW u \in Useds
    PROVE  /\ u \in Seq(Nat) /\ u # <<>> /\ Len(u) \in Nat \ {0} /\ Last(u) = u[Len(u)]
           /\ \A i \in 1..Len(u) : u[i] \in Nat
<1>1. u \in Seq(Nat) /\ u # <<>>
  BY DEF Useds
<1> QED BY <1>1, LastAndFront, ElementOfSeq

LEMMA FullAppend ==
    ASSUME NEW S \in Nat, NEW u \in Useds, NEW k \in Nat, k > 0 \/ Last(u) > S
    PROVE  Full(S, Append(u, k))
<1> DEFINE n == Len(u)
           v == Append(u, k)
<1>1. u \in Seq(Nat) /\ n \in Nat \ {0} /\ Last(u) = u[n]
  BY UsedsAre
<1>2. Len(v) = n + 1 /\ v[n + 1] = k /\ \A i \in 1..n : v[i] = u[i]
  BY <1>1, AppendProperties
<1> HIDE DEF n, v
<1>3. n \in 1..n /\ Len(v) - 1 = n
  BY <1>1, <1>2
<1>4. v[Len(v)] = k /\ v[Len(v) - 1] = Last(u)
  BY <1>1, <1>2, <1>3
<1> QED BY <1>4 DEF Full, v

LEMMA FullPlace ==
    ASSUME NEW S \in Nat, NEW u \in Useds, NEW k \in Nat, Full(S, u) \/ k > 0
    PROVE  Full(S, PackPlace(S, u, k))
<1> DEFINE n == Len(u)
           v == [u EXCEPT ![n] = u[n] + k]
<1>1. /\ u \in Seq(Nat) /\ u # <<>> /\ n \in Nat \ {0} /\ Last(u) = u[n]
      /\ \A i \in 1..n : u[i] \in Nat
  BY UsedsAre
<1>2. CASE Last(u) > 0 /\ Last(u) + k > S
  <2>1. k > 0 \/ Last(u) > S
    <3>1. Last(u) \in Nat
      <4> HIDE DEF n
      <4>1. n \in 1..n
        BY <1>1
      <4> QED BY <1>1, <4>1
    <3> HIDE DEF n
    <3> QED BY <1>2, <3>1
  <2>2. PackPlace(S, u, k) = Append(u, k)
    BY <1>2 DEF PackPlace
  <2> QED BY <2>1, <2>2, FullAppend
<1>3. CASE ~(Last(u) > 0 /\ Last(u) + k > S)
  <2>1. PackPlace(S, u, k) = v
    BY <1>3 DEF PackPlace
  <2>2. n \in 1..n /\ u[n] \in Nat /\ u[n] + k \in Nat
    <3> HIDE DEF n
    <3>1. n \in 1..n
      BY <1>1
    <3>2. u[n] \in Nat
      BY <1>1, <3>1
    <3> QED BY <3>1, <3>2
  <2>3. Len(v) = n /\ v[n] = u[n] + k /\ \A i \in 1..n : i # n => v[i] = u[i]
    BY <1>1, <2>2, LastReplaced
  <2>4. n = 1 \/ u[n] > 0 \/ u[n - 1] > S \/ k > 0
    BY DEF Full
  <2> HIDE DEF v, n
  <2>5. CASE n = 1 \/ v[n] > 0
    BY <2>1, <2>3, <2>5 DEF Full
  <2>6. CASE n # 1 /\ ~(v[n] > 0)
    <3>1. n - 1 \in 1..n /\ n - 1 # n
      BY <1>1, <2>6
    <3>2. ~(u[n] > 0) /\ ~(k > 0)
      BY <2>2, <2>3, <2>6
    <3>3. v[n - 1] = u[n - 1]
      BY <2>3, <3>1
    <3> QED BY <2>1, <2>3, <2>4, <2>6, <3>2, <3>3 DEF Full
  <2> QED BY <2>5, <2>6
<1> QED BY <1>2, <1>3

\* A step that is not empty, or starts well, ends well.
LEMMA FullStep ==
    ASSUME NEW m, IsModel(m), NEW S \in Nat, NEW u \in Useds, NEW step \in StepType(m),
           Full(S, u)
    PROVE  Full(S, PackStep(S, u, Sized(m, step)))
<1> DEFINE v == Opened(S, u, step.block, Bytes(m, step.params))
           q == Sizes(m, step.params)
           total == Bytes(m, step.params)
           R == {r \in Useds \X Nat : Full(S, v) \/ r[2] > 0 => Full(S, r[1])}
<1>1. /\ v \in Useds /\ q \in Seq(Nat) /\ Foldable(Useds, Nat, PackOne(S), v, q)
      /\ PackStep(S, u, Sized(m, step)) = Fold(PackOne(S), v, q)
  BY PackStepIs
<1>2. Foldable(Nat, Nat, AddNat, 0, q) /\ total = Fold(AddNat, 0, q)
  <2>1. q \in Seq(Nat) /\ step.params \in Seq(Params(m))
    BY SizedIs
  <2>2. FoldLeft(+, 0, q) = total
    BY <2>1, SumOfSizes
  <2>3. Foldable(Nat, Nat, AddNat, 0, q) /\ FoldLeft(+, 0, q) = Fold(AddNat, 0, q)
    BY <2>1, SumFold
  <2> QED BY <2>2, <2>3
<1>3. total \in Nat
  <2>1. step.params \in Seq(Params(m))
    BY SizedIs
  <2> QED BY <2>1, BytesIs
<1>4. Full(S, v) \/ total > 0
  <2>1. CASE v = u
    BY <2>1
  <2>2. CASE v # u
    <3>1. v = Append(u, 0) /\ total > S - Last(u)
      BY <2>2 DEF Opened
    <3>2. Last(u) \in Nat
      <4>1. Last(u) = u[Len(u)] /\ Len(u) \in 1..Len(u) /\ \A i \in 1..Len(u) : u[i] \in Nat
        BY UsedsAre
      <4> QED BY <4>1
    <3> HIDE DEF total, v
    <3>3. CASE total > 0
      BY <3>3
    <3>4. CASE total = 0
      <4>1. Last(u) > S
        BY <3>1, <3>2, <3>4
      <4> QED BY <3>1, <4>1, FullAppend
    <3> QED BY <1>3, <3>3, <3>4
  <2> QED BY <2>1, <2>2
<1> HIDE DEF v, q, total
<1>5. ASSUME NEW j \in 1..Len(q), NEW a \in Useds, NEW t \in Nat, <<a, t>> \in R
      PROVE  <<PackOne(S)[<<a, q[j]>>], AddNat[<<t, q[j]>>]>> \in R
  <2>1. PICK k \in Nat : k = q[j]
    BY <1>1, LenProperties, ElementOfSeq
  <2>2. PackOne(S)[<<a, k>>] = PackPlace(S, a, k) /\ AddNat[<<t, k>>] = t + k
    BY DEF PackOne, AddNat
  <2>3. PackPlace(S, a, k) \in Useds /\ t + k \in Nat
    BY PackPlaceIs
  <2>4. Full(S, v) \/ t + k > 0 => Full(S, a) \/ k > 0
    BY <1>5
  <2>5. Full(S, a) \/ k > 0 => Full(S, PackPlace(S, a, k))
    BY FullPlace
  <2> QED BY <2>1, <2>2, <2>3, <2>4, <2>5
<1>6. <<v, 0>> \in R
  BY <1>1
<1>7. R \subseteq {r \in Useds \X Nat : Full(S, v) \/ r[2] > 0 => Full(S, r[1])}
  OBVIOUS
<1> HIDE DEF R
<1>8. <<Fold(PackOne(S), v, q), Fold(AddNat, 0, q)>> \in R
  <2>1. Agree(Useds, PackOne(S), q, Nat, AddNat, q, R)
    BY <1>5 DEF Agree
  <2> QED BY <1>1, <1>2, <1>6, <2>1, FoldsAgree
<1> QED BY <1>1, <1>2, <1>4, <1>7, <1>8

\* The layout and the search make the same chunks, full but for the last.
SameAndFull(m, S) == {<<c, UsedBy(m, c)>> : c \in {d \in Chunks(m) : Full(S, UsedBy(m, d))}}

LEMMA SameAndFullIs ==
    ASSUME NEW m, NEW S, NEW c, NEW u
    PROVE  <<c, u>> \in SameAndFull(m, S) <=>
               c \in Chunks(m) /\ u = UsedBy(m, c) /\ Full(S, u)
BY DEF SameAndFull

LEMMA LayoutIsPacked ==
    ASSUME NEW m, IsModel(m), NEW S \in Nat
    PROVE  /\ LayoutChunks(m, S) \in Chunks(m)
           /\ PackChunks(m, S) = Trimmed(UsedBy(m, LayoutChunks(m, S)))
           /\ Full(S, UsedBy(m, LayoutChunks(m, S)))
<1> DEFINE q == Steps(m)
           c == <<<<>>>>
           u == <<0>>
           R == SameAndFull(m, S)
<1>1. q \in Seq(StepType(m)) /\ \A j \in 1..Len(q) : q[j] \in StepType(m)
  <2>1. q \in Seq(StepType(m))
    BY StepsAre
  <2> HIDE DEF q
  <2> QED BY <2>1, LenProperties, ElementOfSeq
<1>2. c \in Chunks(m) /\ u = UsedBy(m, c) /\ u \in Useds /\ Full(S, u)
  <2>1. <<>> \in Seq(Params(m)) /\ Bytes(m, <<>>) = 0
    BY EmptySeq, BytesIs
  <2>2. c \in Chunks(m) /\ Len(c) = 1 /\ c[1] = <<>>
    BY <2>1 DEF Chunks
  <2>3. u \in Seq(Nat) /\ Len(u) = 1 /\ u[1] = 0
    OBVIOUS
  <2> HIDE DEF c, u
  <2>4. \A i \in 1..Len(c) : u[i] = Bytes(m, c[i])
    BY <2>1, <2>2, <2>3
  <2>5. u = UsedBy(m, c)
    BY <2>2, <2>3, <2>4, UsedEqual
  <2> QED BY <2>2, <2>3, <2>5, UsedIs DEF Full
<1>3. LayoutChunks(m, S) = FoldLeft(LAMBDA cs, step : PlaceStep(m, S, cs, step), c, q)
  BY DEF LayoutChunks
<1>4. PackChunks(m, S) = Trimmed(FoldLeft(LAMBDA w, step : PackStep(S, w, Sized(m, step)), u, q))
  BY DEF PackChunks
<1> HIDE DEF q, c, u
<1>5. /\ Foldable(Chunks(m), StepType(m), LayoutOne(m, S), c, q)
      /\ FoldLeft(LAMBDA cs, step : PlaceStep(m, S, cs, step), c, q) = Fold(LayoutOne(m, S), c, q)
  BY <1>1, <1>2, LayoutFold
<1>6. /\ Foldable(Useds, StepType(m), PackStepOne(m, S), u, q)
      /\ FoldLeft(LAMBDA w, step : PackStep(S, w, Sized(m, step)), u, q)
            = Fold(PackStepOne(m, S), u, q)
  BY <1>1, <1>2, PackStepFold
<1>7. ASSUME NEW j \in 1..Len(q), NEW a \in Chunks(m), NEW b \in Useds, <<a, b>> \in R
      PROVE  <<LayoutOne(m, S)[<<a, q[j]>>], PackStepOne(m, S)[<<b, q[j]>>]>> \in R
  <2>1. PICK step \in StepType(m) : step = q[j]
    BY <1>1
  <2>2. /\ LayoutOne(m, S)[<<a, step>>] = PlaceStep(m, S, a, step)
        /\ PackStepOne(m, S)[<<b, step>>] = PackStep(S, b, Sized(m, step))
    BY DEF LayoutOne, PackStepOne
  <2>3. b = UsedBy(m, a) /\ Full(S, b)
    BY <1>7, SameAndFullIs
  <2>4. /\ PlaceStep(m, S, a, step) \in Chunks(m)
        /\ PackStep(S, UsedBy(m, a), Sized(m, step)) = UsedBy(m, PlaceStep(m, S, a, step))
    BY PlaceStepIs
  <2>5. Full(S, PackStep(S, b, Sized(m, step)))
    BY <2>3, FullStep
  <2> QED BY <2>1, <2>2, <2>3, <2>4, <2>5, SameAndFullIs
<1>8. <<c, u>> \in R
  BY <1>2, SameAndFullIs
<1>9. <<Fold(LayoutOne(m, S), c, q), Fold(PackStepOne(m, S), u, q)>> \in R
  <2> HIDE DEF R
  <2>1. Agree(Chunks(m), LayoutOne(m, S), q, Useds, PackStepOne(m, S), q, R)
    BY <1>7 DEF Agree
  <2> QED BY <1>5, <1>6, <1>8, <2>1, FoldsAgree
<1> QED BY <1>3, <1>4, <1>5, <1>6, <1>9, SameAndFullIs

\* What is cut off is the empty chunk after an oversize one.
LEMMA TrimmedIs ==
    ASSUME NEW S \in Nat, NEW u \in Useds, Full(S, u)
    PROVE  \/ Trimmed(u) = u
           \/ Trimmed(u) = Front(u) /\ Len(u) > 1 /\ u[Len(u) - 1] > S
<1> DEFINE n == Len(u)
           T == {1} \cup {i \in DOMAIN u : u[i] > 0}
           x == Max(T)
<1>1. u \in Seq(Nat) /\ n \in Nat \ {0} /\ DOMAIN u = 1..n /\ \A i \in 1..n : u[i] \in Nat
  BY UsedsAre, LenProperties
<1>2. Trimmed(u) = SubSeq(u, 1, x)
  BY DEF Trimmed
<1> HIDE DEF n
<1>3. T \in SUBSET (1..n) /\ T # {} /\ T \in SUBSET Nat /\ \A i \in T : i <= n
  BY <1>1
<1>4. x \in T /\ \A i \in T : i <= x
  BY <1>1, <1>3, MaxIsMax
<1>5. \A i \in 1..n : i \in T <=> i = 1 \/ u[i] > 0
  BY <1>1
<1> HIDE DEF T, x
<1>6. n \in 1..n
  BY <1>1
<1>7. CASE n \in T
  <2>1. x = n
    BY <1>1, <1>3, <1>4, <1>7
  <2>2. SubSeq(u, 1, n) = u
    BY <1>1 DEF n
  <2> QED BY <1>2, <2>1, <2>2
<1>8. CASE n \notin T
  <2>1. n # 1 /\ ~(u[n] > 0)
    BY <1>5, <1>6, <1>8
  <2>2. u[n - 1] > S
    BY <2>1 DEF Full, n
  <2>3. n - 1 \in 1..n
    BY <1>1, <2>1
  <2>4. n - 1 \in T
    <3>1. u[n - 1] \in Nat
      BY <1>1, <2>3
    <3> QED BY <1>5, <2>2, <2>3, <3>1
  <2>5. x = n - 1
    BY <1>1, <1>3, <1>4, <1>8, <2>4
  <2>6. Trimmed(u) = Front(u)
    BY <1>2, <2>5 DEF Front, n
  <2> QED BY <1>1, <2>1, <2>2, <2>6 DEF n
<1> QED BY <1>7, <1>8

\* The room left in the chunks is the slack of their bytes.
LEMMA RoomIsSlack ==
    ASSUME NEW m, IsModel(m), NEW S \in Nat, NEW q \in Seq(Seq(Params(m))), NEW r \in Seq(Nat),
           Len(q) = Len(r), \A i \in 1..Len(q) : r[i] = Bytes(m, q[i])
    PROVE  FoldLeft(LAMBDA w, c : w + RoomLeft(m, S, c), 0, q)
              = FoldLeft(LAMBDA w, k : w + Slack(S, k), 0, r)
<1> DEFINE R == {<<i, i>> : i \in Nat}
<1>1. /\ Foldable(Nat, Seq(Params(m)), RoomOne(m, S), 0, q)
      /\ FoldLeft(LAMBDA w, c : w + RoomLeft(m, S, c), 0, q) = Fold(RoomOne(m, S), 0, q)
  BY RoomFold
<1>2. /\ Foldable(Nat, Nat, SlackOne(S), 0, r)
      /\ FoldLeft(LAMBDA w, k : w + Slack(S, k), 0, r) = Fold(SlackOne(S), 0, r)
  BY SlackFold
<1>3. ASSUME NEW j \in 1..Len(q), NEW a \in Nat, NEW b \in Nat, <<a, b>> \in R
      PROVE  <<RoomOne(m, S)[<<a, q[j]>>], SlackOne(S)[<<b, r[j]>>]>> \in R
  <2>1. PICK c \in Seq(Params(m)) : c = q[j]
    BY LenProperties, ElementOfSeq
  <2>2. a = b
    BY <1>3
  <2>3. RoomLeft(m, S, c) \in Nat /\ RoomLeft(m, S, c) = Slack(S, Bytes(m, c)) /\ Bytes(m, c) \in Nat
    BY RoomIs, BytesIs
  <2>4. /\ RoomOne(m, S)[<<a, c>>] = a + RoomLeft(m, S, c)
        /\ SlackOne(S)[<<b, Bytes(m, c)>>] = b + Slack(S, Bytes(m, c))
    BY <2>3 DEF RoomOne, SlackOne
  <2>5. a + RoomLeft(m, S, c) \in Nat
    BY <2>3
  <2>6. r[j] = Bytes(m, c)
    BY <2>1
  <2> QED BY <2>1, <2>2, <2>3, <2>4, <2>5, <2>6
<1>4. <<0, 0>> \in R
  OBVIOUS
<1>5. \A a, b : <<a, b>> \in R => a = b
  OBVIOUS
<1> HIDE DEF R
<1>6. <<Fold(RoomOne(m, S), 0, q), Fold(SlackOne(S), 0, r)>> \in R
  <2>1. Agree(Nat, RoomOne(m, S), q, Nat, SlackOne(S), r, R)
    BY <1>3 DEF Agree
  <2> QED BY <1>1, <1>2, <1>4, <2>1, FoldsAgree
<1> QED BY <1>1, <1>2, <1>5, <1>6

\* The waste the search foresees is the waste of the layout.
LEMMA WasteForeseen ==
    ASSUME NEW m, IsModel(m), NEW S \in Nat
    PROVE  SimulateWaste(m, S) = LayoutWaste(m, S) /\ LayoutWaste(m, S) \in Nat
<1> DEFINE c == LayoutChunks(m, S)
           u == UsedBy(m, c)
           Waste(q) == FoldLeft(LAMBDA w, k : w + Slack(S, k), 0, q)
<1>1. c \in Chunks(m) /\ PackChunks(m, S) = Trimmed(u) /\ Full(S, u)
  BY LayoutIsPacked
<1> HIDE DEF c
<1>2. /\ c \in Seq(Seq(Params(m))) /\ c # <<>> /\ Len(u) = Len(c) /\ u \in Useds
      /\ \A i \in 1..Len(c) : u[i] = Bytes(m, c[i])
  BY <1>1, UsedIs
<1>3. u \in Seq(Nat) /\ u # <<>>
  BY <1>2, UsedsAre
<1> HIDE DEF u
<1>4. /\ Front(c) \in Seq(Seq(Params(m))) /\ Front(u) \in Seq(Nat)
      /\ Len(Front(c)) = Len(Front(u)) /\ Len(Front(u)) = Len(u) - 1
      /\ \A i \in 1..Len(Front(c)) : Front(u)[i] = Bytes(m, Front(c)[i])
      /\ Len(u) \in Nat \ {0} /\ \A i \in 1..(Len(u) - 1) : Front(u)[i] = u[i]
  <2>1. /\ Len(c) \in Nat \ {0} /\ Front(c) \in Seq(Seq(Params(m)))
        /\ Len(Front(c)) = Len(c) - 1 /\ \A i \in 1..(Len(c) - 1) : Front(c)[i] = c[i]
    BY <1>2, LastAndFront
  <2>2. /\ Front(u) \in Seq(Nat) /\ Len(u) \in Nat \ {0}
        /\ Len(Front(u)) = Len(u) - 1 /\ \A i \in 1..(Len(u) - 1) : Front(u)[i] = u[i]
    BY <1>3, LastAndFront
  <2>3. \A i \in 1..(Len(c) - 1) : i \in 1..Len(c)
    BY <2>1
  <2> QED BY <1>2, <2>1, <2>2, <2>3
<1>5. LayoutWaste(m, S) = FoldLeft(LAMBDA w, d : w + RoomLeft(m, S, d), 0, Front(c))
  BY DEF LayoutWaste, RoomLeft, c
<1>6. LayoutWaste(m, S) = Waste(Front(u))
  <2> DEFINE fc == Front(c)
             fu == Front(u)
  <2>1. /\ fc \in Seq(Seq(Params(m))) /\ fu \in Seq(Nat) /\ Len(fc) = Len(fu)
        /\ \A i \in 1..Len(fc) : fu[i] = Bytes(m, fc[i])
    BY <1>4
  <2> HIDE DEF fc, fu
  <2>2. FoldLeft(LAMBDA w, d : w + RoomLeft(m, S, d), 0, fc) = Waste(fu)
    BY <2>1, RoomIsSlack
  <2> QED BY <1>5, <2>2 DEF fc, fu
<1>7. \A q \in Seq(Nat) : Waste(q) \in Nat
  <2> SUFFICES ASSUME NEW q \in Seq(Nat) PROVE Waste(q) \in Nat
    OBVIOUS
  <2>1. Foldable(Nat, Nat, SlackOne(S), 0, q) /\ Waste(q) = Fold(SlackOne(S), 0, q)
    BY SlackFold
  <2>2. Fold(SlackOne(S), 0, q) \in Nat
    BY <2>1, FoldAlong
  <2> HIDE DEF Waste
  <2> QED BY <2>1, <2>2
<1>8. SimulateWaste(m, S) = Waste(Front(Trimmed(u)))
  BY <1>1 DEF SimulateWaste
<1>9. Waste(Front(Trimmed(u))) = Waste(Front(u))
  <2>1. CASE Trimmed(u) = u
    BY <2>1
  <2>2. CASE Trimmed(u) # u
    <3> DEFINE q == Front(u)
    <3>1. Trimmed(u) = q /\ Len(u) > 1 /\ u[Len(u) - 1] > S
      BY <1>1, <1>2, <2>2, TrimmedIs
    <3>2. q \in Seq(Nat) /\ Len(q) > 0 /\ q[Len(q)] > S
      <4> DEFINE k == Len(u)
      <4>1. /\ q \in Seq(Nat) /\ Len(q) = k - 1 /\ k \in Nat \ {0} /\ k > 1 /\ u[k - 1] > S
            /\ \A i \in 1..(k - 1) : q[i] = u[i]
        BY <1>4, <3>1
      <4> HIDE DEF q, k
      <4>2. k - 1 \in 1..(k - 1)
        BY <4>1
      <4>3. q[k - 1] = u[k - 1]
        BY <4>1, <4>2
      <4> QED BY <4>1, <4>3
    <3> HIDE DEF q
    <3>3. q # <<>>
      BY <3>2, EmptySeq
    <3>4. Front(q) \in Seq(Nat) /\ Last(q) \in Nat /\ q = Append(Front(q), Last(q)) /\ Last(q) > S
      BY <3>2, <3>3, LastAndFront
    <3>5. Foldable(Nat, Nat, SlackOne(S), 0, Front(q)) /\ Waste(Front(q)) = Fold(SlackOne(S), 0, Front(q))
      BY <3>4, SlackFold
    <3>6. Waste(q) = Fold(SlackOne(S), 0, q)
      BY <3>2, SlackFold
    <3>7. Fold(SlackOne(S), 0, Append(Front(q), Last(q)))
             = SlackOne(S)[<<Fold(SlackOne(S), 0, Front(q)), Last(q)>>]
      <4> DEFINE f == Front(q)
                 x == Last(q)
      <4>1. x \in Nat /\ Foldable(Nat, Nat, SlackOne(S), 0, f)
        BY <3>4, <3>5
      <4> HIDE DEF f, x
      <4>2. Fold(SlackOne(S), 0, Append(f, x)) = SlackOne(S)[<<Fold(SlackOne(S), 0, f), x>>]
        BY <4>1, FoldAppend
      <4> QED BY <4>2 DEF f, x
    <3>8. Fold(SlackOne(S), 0, Front(q)) \in Nat
      BY <3>5, FoldAlong
    <3> HIDE DEF Waste
    <3>9. Slack(S, Last(q)) = 0
      BY <3>4 DEF Slack
    <3>10. SlackOne(S)[<<Fold(SlackOne(S), 0, Front(q)), Last(q)>>] = Fold(SlackOne(S), 0, Front(q)) + 0
      BY <3>4, <3>8, <3>9 DEF SlackOne
    <3>11. Waste(q) = Waste(Front(q))
      <4>1. Fold(SlackOne(S), 0, q) = Fold(SlackOne(S), 0, Append(Front(q), Last(q)))
        BY <3>4
      <4>2. Fold(SlackOne(S), 0, Front(q)) + 0 = Fold(SlackOne(S), 0, Front(q))
        BY <3>8
      <4> QED BY <3>5, <3>6, <3>7, <3>10, <4>1, <4>2
    <3> QED BY <3>1, <3>11 DEF q
  <2> QED BY <2>1, <2>2
<1> HIDE DEF Waste
<1> QED BY <1>4, <1>6, <1>7, <1>8, <1>9

-----------------------------------------------------------------------------
(* The choice among candidates.                                            *)

Preferred(waste, best, S) ==
    IF waste[S] < waste[best] \/ (waste[S] = waste[best] /\ S < best) THEN S ELSE best
PreferOne(C, waste) == [a \in C \X C |-> Preferred(waste, a[1], a[2])]

LEMMA PreferredTyped ==
    ASSUME NEW C, NEW waste
    PROVE  \A best \in C, S \in C : Preferred(waste, best, S) \in C
BY DEF Preferred

LEMMA PreferFold ==
    ASSUME NEW C, NEW waste, NEW z \in C, NEW q \in Seq(C)
    PROVE  /\ Foldable(C, C, PreferOne(C, waste), z, q)
           /\ FoldLeft(LAMBDA best, S : Preferred(waste, best, S), z, q) = Fold(PreferOne(C, waste), z, q)
<1> DEFINE n == Len(q)
           Solves(f) == f = [s \in SUBSET (1..n) |->
                               IF s = {} THEN z ELSE Preferred(waste, f[s \ {Max(s)}], q[Max(s)])]
           H == CHOOSE f : Solves(f)
<1>1. \A a \in C, x \in C :
        /\ Preferred(waste, a, x) \in C
        /\ PreferOne(C, waste)[<<a, x>>] = Preferred(waste, a, x)
  BY PreferredTyped DEF PreferOne
<1>2. Foldable(C, C, PreferOne(C, waste), z, q)
  BY PreferredTyped DEF PreferOne, Foldable
<1>3. n \in Nat /\ DOMAIN q = 1..n /\ \A i \in 1..n : q[i] \in C /\ i \in Nat \ {0}
  BY LenProperties, ElementOfSeq
<1>4. FoldLeft(LAMBDA best, S : Preferred(waste, best, S), z, q) = H[1..n]
  <2> HIDE DEF n
  <2> QED BY <1>3 DEF FoldLeft, MapThenFoldSet
<1>5. \E f : Solves(f)
  <2>1. PICK f \in [SUBSET (1..n) -> C] : Unfolds(PreferOne(C, waste), z, q, n, f)
    BY <1>2, UnfoldExists DEF Foldable
  <2> HIDE DEF n
  <2>2. ASSUME NEW s \in SUBSET (1..n), s # {}
        PROVE  PreferOne(C, waste)[<<f[s \ {Max(s)}], q[Max(s)]>>] = Preferred(waste, f[s \ {Max(s)}], q[Max(s)])
    <3>1. f[s \ {Max(s)}] \in C /\ q[Max(s)] \in C
      BY <1>3, <2>1, <2>2, MaxOfPart
    <3> QED BY <1>1, <3>1
  <2>3. Solves(f)
    BY <2>1, <2>2 DEF Unfolds
  <2> HIDE DEF Solves
  <2> QED BY <2>3
<1>6. Solves(H)
  <2> HIDE DEF Solves
  <2> QED BY <1>5
<1> HIDE DEF H
<1>7. H[{}] = z
  BY <1>6
<1>8. ASSUME NEW i \in 1..n, H[1..(i - 1)] \in C
      PROVE  H[1..i] = PreferOne(C, waste)[<<H[1..(i - 1)], q[i]>>]
  <2> HIDE DEF n
  <2>1. 1..i \in SUBSET (1..n) /\ i \in Nat \ {0}
    BY <1>3
  <2>2. H[1..i] = Preferred(waste, H[1..(i - 1)], q[i])
    BY <1>6, <2>1, MaxOfInterval
  <2> QED BY <1>1, <1>3, <1>8, <2>2
<1>9. H[1..n] = Fold(PreferOne(C, waste), z, q)
  <2>1. Climbs(C, PreferOne(C, waste), z, q, H)
    BY <1>7, <1>8 DEF Climbs
  <2> QED BY <1>2, <2>1, FoldIs
<1> QED BY <1>2, <1>4, <1>9

\* Better than another candidate, and no larger when as good.
NoWorse(waste, S, T) == waste[S] <= waste[T] /\ (waste[S] = waste[T] => S <= T)

LEMMA PreferredIs ==
    ASSUME NEW C, C \subseteq Nat, NEW waste \in [C -> Nat], NEW best \in C, NEW S \in C
    PROVE  /\ NoWorse(waste, Preferred(waste, best, S), best)
           /\ NoWorse(waste, Preferred(waste, best, S), S)
           /\ \A T \in C : NoWorse(waste, best, T)
                              => NoWorse(waste, Preferred(waste, best, S), T)
<1>1. best \in Nat /\ S \in Nat /\ waste[best] \in Nat /\ waste[S] \in Nat
  OBVIOUS
<1>2. \A T \in C : T \in Nat /\ waste[T] \in Nat
  OBVIOUS
<1> QED BY <1>1, <1>2 DEF NoWorse, Preferred

Chosen(waste, z, q) == FoldLeft(LAMBDA best, S : Preferred(waste, best, S), z, q)

\* The choice is no worse than any of the candidates.
LEMMA ChosenIsBest ==
    ASSUME NEW C, C \subseteq Nat, NEW waste \in [C -> Nat], NEW z \in C, NEW q \in Seq(C)
    PROVE  /\ Chosen(waste, z, q) \in C /\ NoWorse(waste, Chosen(waste, z, q), z)
           /\ \A i \in 1..Len(q) : NoWorse(waste, Chosen(waste, z, q), q[i])
<1> DEFINE n == Len(q)
           F == PreferOne(C, waste)
           S == Chosen(waste, z, q)
           h == [i \in 0..n |-> <<i, Upto(F, z, q, i)>>]
           A == {a \in Nat \X C : /\ NoWorse(waste, a[2], z)
                                  /\ \A j \in 1..n : j <= a[1] => NoWorse(waste, a[2], q[j])}
<1>1. Foldable(C, C, F, z, q) /\ S = Fold(F, z, q)
  BY PreferFold DEF Chosen
<1>2. n \in Nat /\ 0 \in 0..n /\ n \in 0..n /\ \A i \in 1..n : q[i] \in C /\ i - 1 \in 0..n /\ i \in 0..n
  <2>1. n \in Nat /\ \A i \in 1..n : q[i] \in C
    BY LenProperties, ElementOfSeq
  <2> HIDE DEF n
  <2> QED BY <2>1
<1>3. /\ S \in C /\ S = Upto(F, z, q, n) /\ Upto(F, z, q, 0) = z
      /\ \A i \in 0..n : Upto(F, z, q, i) \in C
      /\ \A i \in 1..n : Upto(F, z, q, i) = F[<<Upto(F, z, q, i - 1), q[i]>>]
  <2> HIDE DEF F, S
  <2>1. /\ Fold(F, z, q) \in C /\ Fold(F, z, q) = Upto(F, z, q, Len(q))
        /\ Upto(F, z, q, 0) = z
        /\ \A i \in 0..Len(q) : Upto(F, z, q, i) \in C
        /\ \A i \in 1..Len(q) : Upto(F, z, q, i) = F[<<Upto(F, z, q, i - 1), q[i]>>]
    BY <1>1, FoldAlong
  <2> QED BY <1>1, <2>1
<1> HIDE DEF n, S
<1>4. ASSUME NEW b \in C, NEW T \in C PROVE F[<<b, T>>] = Preferred(waste, b, T)
  BY DEF PreferOne
<1> HIDE DEF F
<1>5. h[0] \in A
  <2>1. h[0] = <<0, z>>
    BY <1>2, <1>3
  <2>2. NoWorse(waste, z, z)
    BY DEF NoWorse
  <2>3. \A j \in 1..n : ~(j <= 0)
    BY <1>2
  <2> HIDE DEF h
  <2> QED BY <2>1, <2>2, <2>3
<1>6. ASSUME NEW i \in 1..n, h[i - 1] \in A PROVE h[i] \in A
  <2> DEFINE b == Upto(F, z, q, i - 1)
             d == Upto(F, z, q, i)
  <2>1. h[i - 1] = <<i - 1, b>> /\ h[i] = <<i, d>> /\ b \in C /\ d \in C /\ q[i] \in C
    BY <1>2, <1>3
  <2>2. d = Preferred(waste, b, q[i])
    BY <1>3, <1>4, <2>1
  <2> HIDE DEF h, b, d
  <2>3. NoWorse(waste, b, z) /\ \A j \in 1..n : j <= i - 1 => NoWorse(waste, b, q[j])
    BY <1>6, <2>1
  <2>4. /\ NoWorse(waste, d, q[i])
        /\ \A T \in C : NoWorse(waste, b, T) => NoWorse(waste, d, T)
    BY <2>1, <2>2, PreferredIs
  <2>5. \A j \in 1..n : j <= i => j <= i - 1 \/ j = i
    BY <1>2
  <2>6. NoWorse(waste, d, z) /\ \A j \in 1..n : j <= i => NoWorse(waste, d, q[j])
    BY <1>2, <2>3, <2>4, <2>5
  <2>7. i \in Nat
    BY <1>2
  <2> QED BY <2>1, <2>6, <2>7
<1>7. h[n] = <<n, S>>
  BY <1>2, <1>3
<1>8. h[n] \in A
  <2> HIDE DEF A, h
  <2> QED BY <1>2, <1>5, <1>6, KeptAlong
<1>9. NoWorse(waste, S, z) /\ \A j \in 1..n : j <= n => NoWorse(waste, S, q[j])
  <2> HIDE DEF h
  <2> QED BY <1>7, <1>8
<1>10. \A j \in 1..n : j <= n
  BY <1>2
<1> QED BY <1>3, <1>9, <1>10 DEF n, S

\* The search's chunk size is the one the layout wastes least with.
THEOREM SearchWastesLeast ==
    ASSUME NEW m, IsModel(m), NEW candidates \in Seq(Nat), candidates # <<>>
    PROVE  WastesLeast(m, candidates)
<1> DEFINE C == ToSet(candidates)
           waste == [T \in C |-> SimulateWaste(m, T)]
           S == PickS(m, candidates)
<1>1. C \subseteq Nat /\ Len(candidates) \in Nat \ {0} /\ C = {candidates[i] : i \in 1..Len(candidates)}
  <2>1. Len(candidates) \in Nat \ {0}
    BY LastAndFront
  <2>2. C = {candidates[i] : i \in 1..Len(candidates)}
    BY ToSetDef, LenProperties
  <2> QED BY <2>1, <2>2, ElementOfSeq
<1>2. candidates \in Seq(C) /\ Head(candidates) \in C /\ Tail(candidates) \in Seq(C)
  <2>1. candidates \in Seq(C)
    BY <1>1
  <2> HIDE DEF C
  <2> QED BY <2>1, HeadTailProperties
<1>3. waste = [T \in C |-> LayoutWaste(m, T)] /\ waste \in [C -> Nat]
  <2>1. \A T \in C : SimulateWaste(m, T) = LayoutWaste(m, T) /\ LayoutWaste(m, T) \in Nat
    BY <1>1, WasteForeseen
  <2> HIDE DEF C
  <2> QED BY <2>1
<1>4. S = Chosen(waste, Head(candidates), Tail(candidates))
  BY DEF PickS, Preferred, Chosen
<1> HIDE DEF C, waste, S
<1>5. /\ S \in C /\ NoWorse(waste, S, Head(candidates))
      /\ \A i \in 1..Len(Tail(candidates)) : NoWorse(waste, S, Tail(candidates)[i])
  <2> DEFINE z == Head(candidates)
             q == Tail(candidates)
             T == Chosen(waste, z, q)
  <2>1. z \in C /\ q \in Seq(C) /\ C \subseteq Nat /\ waste \in [C -> Nat]
    BY <1>1, <1>2, <1>3
  <2>2. S = T
    BY <1>4
  <2> HIDE DEF z, q
  <2>3. T \in C /\ NoWorse(waste, T, z) /\ \A i \in 1..Len(q) : NoWorse(waste, T, q[i])
    BY <2>1, ChosenIsBest
  <2> HIDE DEF T
  <2> QED BY <2>2, <2>3 DEF z, q
<1>6. ASSUME NEW T \in C PROVE NoWorse(waste, S, T)
  <2>1. PICK i \in 1..Len(candidates) : T = candidates[i]
    BY <1>1
  <2>2. CASE i = 1
    BY <1>5, <2>1, <2>2
  <2>3. CASE i # 1
    <3>1. i - 1 \in 1..Len(Tail(candidates)) /\ Tail(candidates)[i - 1] = candidates[(i - 1) + 1]
      <4> DEFINE q == Tail(candidates)
                 n == Len(candidates)
      <4>1. n \in Nat \ {0} /\ Len(q) = n - 1 /\ \A j \in 1..Len(q) : q[j] = candidates[j + 1]
        BY <1>1, HeadTailProperties
      <4> HIDE DEF q, n
      <4>2. i \in 1..n /\ i - 1 \in 1..Len(q)
        BY <2>3, <4>1 DEF n
      <4> QED BY <4>1, <4>2 DEF q
    <3>2. (i - 1) + 1 = i
      BY <1>1
    <3> QED BY <1>5, <2>1, <3>1, <3>2
  <2> QED BY <2>2, <2>3
<1> QED BY <1>3, <1>6 DEF WastesLeast, NoWorse, C, S

-----------------------------------------------------------------------------
(* The steps place every parameter once.                                   *)

LEMMA JoinsIs ==
    ASSUME NEW m, IsModel(m), NEW b, NEW placed,
           NEW ps \in Seq(Params(m)), NEW p \in Params(m), NoRepeat(ps)
    PROVE  /\ NoRepeat(Joins(m, b, placed, ps, p))
           /\ ToSet(Joins(m, b, placed, ps, p))
                 = ToSet(ps) \cup ({p} \cap (ToSet(m.spans[b]) \ placed))
<1>1. CASE p \in ToSet(m.spans[b]) \ (placed \cup ToSet(ps))
  <2>1. Joins(m, b, placed, ps, p) = Append(ps, p)
    BY <1>1 DEF Joins
  <2>2. NoRepeat(Append(ps, p)) /\ ToSet(Append(ps, p)) = ToSet(ps) \cup {p}
    BY <1>1, AppendOnce, AppendSet
  <2> QED BY <1>1, <2>1, <2>2
<1>2. CASE p \notin ToSet(m.spans[b]) \ (placed \cup ToSet(ps))
  <2>1. Joins(m, b, placed, ps, p) = ps
    BY <1>2 DEF Joins
  <2> QED BY <1>2, <2>1
<1> QED BY <1>1, <1>2

\* The members of a block are those not placed before, each once.
LEMMA MembersAre ==
    ASSUME NEW m, IsModel(m), NEW b \in DOMAIN m.spans, NEW i \in Nat \ {0}, NEW placed
    PROVE  /\ Members(m, b, i, placed) \in Seq(Params(m))
           /\ NoRepeat(Members(m, b, i, placed))
           /\ ToSet(Members(m, b, i, placed)) = ToSet(m.spans[b]) \ placed
<1> DEFINE q == SubSeq(m.order, i, Len(m.order)) \o m.spans[b]
           F == JoinOne(m, b, placed)
           Span == ToSet(m.spans[b]) \ placed
           M == Members(m, b, i, placed)
           R == {a \in Nat \X Seq(Params(m)) :
                    /\ NoRepeat(a[2])
                    /\ \A p : p \in ToSet(a[2]) <=>
                                 p \in Span /\ \E j \in 1..Len(q) : j <= a[1] /\ q[j] = p}
<1>1. /\ q \in Seq(Params(m)) /\ ToSet(m.spans[b]) \subseteq ToSet(q)
      /\ M = Fold(F, <<>>, q) /\ Foldable(Seq(Params(m)), Params(m), F, <<>>, q)
      /\ M \in Seq(Params(m))
  BY MembersTyped
<1> HIDE DEF q, M
<1>2. Len(q) \in Nat /\ \A j \in 1..Len(q) : q[j] \in Params(m)
  BY <1>1, LenProperties, ElementOfSeq
<1>3. <<0, <<>>>> \in R
  <2>1. ToSet(<<>>) = {} /\ Len(<<>>) = 0 /\ <<>> \in Seq(Params(m))
    BY NothingListed, EmptySeq
  <2>2. NoRepeat(<<>>)
    BY <2>1 DEF NoRepeat
  <2>3. \A j \in 1..Len(q) : ~(j <= 0)
    BY <1>2
  <2> DEFINE e == <<>>
  <2>4. e \in Seq(Params(m)) /\ NoRepeat(e) /\ \A p : p \notin ToSet(e)
    BY <2>1, <2>2
  <2> HIDE DEF Span, e
  <2>5. <<0, e>> \in R
    BY <2>3, <2>4
  <2> QED BY <2>5 DEF e
<1>4. ASSUME NEW j \in 1..Len(q), NEW ps \in Seq(Params(m)), <<j - 1, ps>> \in R
      PROVE  <<j, F[<<ps, q[j]>>]>> \in R
  <2>1. PICK p \in Params(m) : p = q[j]
    BY <1>2
  <2> DEFINE qs == Joins(m, b, placed, ps, p)
  <2>2. F[<<ps, q[j]>>] = qs
    BY <2>1 DEF JoinOne
  <2>3. NoRepeat(ps)
    BY <1>4
  <2>4. NoRepeat(qs) /\ ToSet(qs) = ToSet(ps) \cup ({p} \cap Span) /\ qs \in Seq(Params(m))
    BY <2>3, JoinsIs, JoinsTyped
  <2>5. \A x : x \in ToSet(ps) <=> x \in Span /\ \E k \in 1..Len(q) : k <= j - 1 /\ q[k] = x
    BY <1>4
  <2> HIDE DEF qs, Span, F
  <2>6. \A k \in 1..Len(q) : k <= j <=> k <= j - 1 \/ k = j
    BY <1>2
  <2>7. \A x : x \in ToSet(qs) <=> x \in Span /\ \E k \in 1..Len(q) : k <= j /\ q[k] = x
    BY <2>1, <2>4, <2>5, <2>6
  <2>8. j \in Nat
    BY <1>2
  <2> QED BY <2>2, <2>4, <2>7, <2>8
<1>5. <<Len(q), M>> \in R
  <2> HIDE DEF R, F
  <2>1. KeepsIn(Seq(Params(m)), F, q, R)
    BY <1>4 DEF KeepsIn
  <2> QED BY <1>1, <1>3, <2>1, FoldKeeps
<1>6. NoRepeat(M) /\ \A p : p \in ToSet(M) <=>
          p \in Span /\ \E j \in 1..Len(q) : j <= Len(q) /\ q[j] = p
  BY <1>5
<1>7. \A p : p \in ToSet(q) <=> \E j \in 1..Len(q) : q[j] = p
  BY <1>1, ToSetDef
<1>8. \A j \in 1..Len(q) : j <= Len(q)
  BY <1>2
<1>9. ToSet(M) = Span
  <2>1. \A p \in Span : \E j \in 1..Len(q) : j <= Len(q) /\ q[j] = p
    BY <1>1, <1>7, <1>8
  <2> HIDE DEF Span
  <2> QED BY <1>6, <2>1
<1> QED BY <1>1, <1>6, <1>9 DEF M

\* Steps that place parameters, none of them twice.
PlaceOnce(s) ==
    /\ \A i \in 1..Len(s) : s[i].params # <<>> /\ NoRepeat(s[i].params)
    /\ \A i, j \in 1..Len(s) : i # j => ToSet(s[i].params) \cap ToSet(s[j].params) = {}

LEMMA PlacedIs ==
    ASSUME NEW m, NEW s \in Seq(StepType(m))
    PROVE  /\ \A p : p \in Placed(s) <=> \E i \in 1..Len(s) : p \in ToSet(s[i].params)
           /\ \A i \in 1..Len(s) : s[i] \in StepType(m)
           /\ Len(s) \in Nat
<1>1. DOMAIN s = 1..Len(s) /\ Len(s) \in Nat /\ \A i \in 1..Len(s) : s[i] \in StepType(m)
  BY LenProperties, ElementOfSeq
<1> QED BY <1>1 DEF Placed

LEMMA StepAdded ==
    ASSUME NEW m, NEW s \in Seq(StepType(m)), NEW t \in StepType(m), PlaceOnce(s),
           t.params # <<>>, NoRepeat(t.params), ToSet(t.params) \cap Placed(s) = {}
    PROVE  PlaceOnce(Append(s, t)) /\ Placed(Append(s, t)) = Placed(s) \cup ToSet(t.params)
<1> DEFINE r == Append(s, t)
           n == Len(s)
<1>1. /\ r \in Seq(StepType(m)) /\ Len(r) = n + 1 /\ n \in Nat
      /\ r[n + 1] = t /\ \A i \in 1..n : r[i] = s[i]
  BY AppendProperties, LenProperties
<1>2. /\ \A p : p \in Placed(s) <=> \E i \in 1..n : p \in ToSet(s[i].params)
  BY PlacedIs
<1> HIDE DEF r
<1>3. \A p : p \in Placed(r) <=> \E i \in 1..Len(r) : p \in ToSet(r[i].params)
  BY <1>1, PlacedIs
<1> HIDE DEF n
<1>4. \A i : i \in 1..(n + 1) <=> i \in 1..n \/ i = n + 1
  BY <1>1
<1>5. n + 1 \notin 1..n
  BY <1>1
<1>6. Placed(r) = Placed(s) \cup ToSet(t.params)
  <2>1. \A p : p \in Placed(r) <=> p \in Placed(s) \/ p \in ToSet(t.params)
    BY <1>1, <1>2, <1>3, <1>4
  <2> QED BY <2>1
<1>7. PlaceOnce(r)
  <2>1. \A i \in 1..n : ToSet(s[i].params) \cap ToSet(t.params) = {}
    BY <1>2
  <2>2. ASSUME NEW i \in 1..(n + 1), NEW j \in 1..(n + 1), i # j
        PROVE  ToSet(r[i].params) \cap ToSet(r[j].params) = {}
    <3>1. CASE i \in 1..n /\ j \in 1..n
      <4>1. ToSet(s[i].params) \cap ToSet(s[j].params) = {}
        BY <2>2, <3>1 DEF PlaceOnce, n
      <4> QED BY <1>1, <3>1, <4>1
    <3>2. CASE i \in 1..n /\ j = n + 1
      BY <1>1, <2>1, <3>2
    <3>3. CASE i = n + 1 /\ j \in 1..n
      BY <1>1, <2>1, <3>3
    <3> QED BY <1>4, <2>2, <3>1, <3>2, <3>3
  <2>3. \A i \in 1..(n + 1) : r[i].params # <<>> /\ NoRepeat(r[i].params)
    BY <1>1, <1>4 DEF PlaceOnce, n
  <2> QED BY <1>1, <2>2, <2>3 DEF PlaceOnce
<1> QED BY <1>6, <1>7 DEF r

LEMMA VisitPlaces ==
    ASSUME NEW m, IsModel(m), NEW s \in Seq(StepType(m)), NEW i \in DOMAIN Visits(m),
           PlaceOnce(s)
    PROVE  /\ PlaceOnce(Visit(m, s, i)) /\ Visits(m)[i] \in Placed(Visit(m, s, i))
           /\ Placed(s) \subseteq Placed(Visit(m, s, i))
<1> DEFINE p == Visits(m)[i]
           b == Owner(m, p)
           ps == IF b = NoBlock THEN <<p>> ELSE Members(m, b, i, Placed(s))
           t == [block |-> b, params |-> ps]
<1>1. p \in Params(m) /\ i \in Nat \ {0}
  <2>1. Visits(m) \in Seq(Params(m)) /\ i \in 1..Len(Visits(m)) /\ Len(Visits(m)) \in Nat
    BY VisitsAre
  <2> QED BY <2>1, ElementOfSeq
<1>2. Visit(m, s, i) = IF p \in Placed(s) THEN s ELSE Append(s, t)
  BY DEF Visit
<1>3. ASSUME p \notin Placed(s)
      PROVE  /\ t \in StepType(m) /\ t.params # <<>> /\ NoRepeat(t.params)
             /\ p \in ToSet(t.params) /\ ToSet(t.params) \cap Placed(s) = {}
  <2>1. /\ ps \in Seq(Params(m)) /\ NoRepeat(ps) /\ p \in ToSet(ps)
        /\ ToSet(ps) \cap Placed(s) = {}
    <3>1. CASE b = NoBlock
      <4>1. <<>> \in Seq(Params(m)) /\ NoRepeat(<<>>) /\ ToSet(<<>>) = {} /\ Append(<<>>, p) = <<p>>
        BY NothingListed, EmptySeq DEF NoRepeat
      <4>2. NoRepeat(Append(<<>>, p)) /\ ToSet(Append(<<>>, p)) = ToSet(<<>>) \cup {p}
            /\ Append(<<>>, p) \in Seq(Params(m))
        <5> DEFINE e == <<>>
        <5>1. e \in Seq(Params(m)) /\ NoRepeat(e) /\ p \notin ToSet(e) /\ p \in Params(m)
          BY <1>1, <4>1
        <5> HIDE DEF e, p
        <5>2. NoRepeat(Append(e, p)) /\ ToSet(Append(e, p)) = ToSet(e) \cup {p}
              /\ Append(e, p) \in Seq(Params(m))
          BY <5>1, AppendOnce, AppendSet, AppendProperties
        <5> QED BY <5>2 DEF e
      <4>3. ps = Append(<<>>, p)
        BY <3>1, <4>1
      <4> HIDE DEF ps, p
      <4> QED BY <1>3, <4>1, <4>2, <4>3
    <3>2. CASE b # NoBlock
      <4>1. b \in DOMAIN m.spans /\ p \in ToSet(m.spans[b])
        BY <3>2, OwnerIs
      <4> HIDE DEF b, p
      <4>2. /\ Members(m, b, i, Placed(s)) \in Seq(Params(m))
            /\ NoRepeat(Members(m, b, i, Placed(s)))
            /\ ToSet(Members(m, b, i, Placed(s))) = ToSet(m.spans[b]) \ Placed(s)
        BY <1>1, <4>1, MembersAre
      <4> QED BY <1>3, <3>2, <4>1, <4>2
    <3> QED BY <3>1, <3>2
  <2>2. b \in Nat
    BY OwnerIs
  <2>3. ps # <<>>
    <3> HIDE DEF ps, p
    <3> QED BY <2>1, NothingListed
  <2> HIDE DEF b, ps, p
  <2> QED BY <2>1, <2>2, <2>3 DEF StepType
<1> HIDE DEF t, p
<1>4. CASE p \in Placed(s)
  BY <1>2, <1>4 DEF p
<1>5. CASE p \notin Placed(s)
  <2>1. PlaceOnce(Append(s, t)) /\ Placed(Append(s, t)) = Placed(s) \cup ToSet(t.params)
    BY <1>3, <1>5, StepAdded
  <2> QED BY <1>2, <1>3, <1>5, <2>1 DEF p
<1> QED BY <1>4, <1>5

\* All the steps place every parameter once.
LEMMA StepsPlaceAll ==
    ASSUME NEW m, IsModel(m)
    PROVE  /\ Steps(m) \in Seq(StepType(m)) /\ PlaceOnce(Steps(m))
           /\ Placed(Steps(m)) = Params(m)
<1> DEFINE q == [i \in DOMAIN Visits(m) |-> i]
           F == VisitOne(m)
           V == Visits(m)
           R == {a \in Nat \X Seq(StepType(m)) :
                    /\ PlaceOnce(a[2])
                    /\ \A j \in 1..Len(V) : j <= a[1] => V[j] \in Placed(a[2])}
<1>1. /\ Steps(m) \in Seq(StepType(m)) /\ Steps(m) = Fold(F, <<>>, q)
      /\ Foldable(Seq(StepType(m)), DOMAIN V, F, <<>>, q)
      /\ Len(q) = Len(V) /\ \A i \in 1..Len(q) : q[i] = i
  BY StepsAre
<1>2. /\ V \in Seq(Params(m)) /\ DOMAIN V = 1..Len(V) /\ Len(V) \in Nat
      /\ Len(V) = Len(m.order) + Len(m.size) /\ Len(m.order) \in Nat
      /\ \A p \in Params(m) : V[Len(m.order) + p] = p
  BY VisitsAre
<1> HIDE DEF q, V
<1>3. <<0, <<>>>> \in R
  <2>1. Len(<<>>) = 0 /\ <<>> \in Seq(StepType(m))
    BY NothingListed, EmptySeq
  <2>2. PlaceOnce(<<>>)
    BY <2>1 DEF PlaceOnce
  <2>3. \A j \in 1..Len(V) : ~(j <= 0)
    BY <1>2
  <2> DEFINE e == <<>>
  <2>4. e \in Seq(StepType(m)) /\ PlaceOnce(e)
    BY <2>1, <2>2
  <2> HIDE DEF e
  <2>5. <<0, e>> \in R
    BY <2>3, <2>4
  <2> QED BY <2>5 DEF e
<1>4. ASSUME NEW i \in 1..Len(q), NEW s \in Seq(StepType(m)), <<i - 1, s>> \in R
      PROVE  <<i, F[<<s, q[i]>>]>> \in R
  <2> DEFINE r == Visit(m, s, i)
  <2>1. i \in DOMAIN Visits(m) /\ q[i] = i /\ i \in 1..Len(V)
    BY <1>1, <1>2 DEF V
  <2>2. F[<<s, q[i]>>] = r
    BY <2>1 DEF VisitOne
  <2>3. PlaceOnce(s) /\ \A j \in 1..Len(V) : j <= i - 1 => V[j] \in Placed(s)
    BY <1>4
  <2>4. PlaceOnce(r) /\ V[i] \in Placed(r) /\ Placed(s) \subseteq Placed(r) /\ r \in Seq(StepType(m))
    BY <2>1, <2>3, VisitPlaces, VisitTyped DEF V
  <2> HIDE DEF r, F
  <2>5. \A j \in 1..Len(V) : j <= i => j <= i - 1 \/ j = i
    BY <1>2
  <2>6. \A j \in 1..Len(V) : j <= i => V[j] \in Placed(r)
    BY <2>3, <2>4, <2>5
  <2>7. i \in Nat
    BY <1>2, <2>1
  <2> QED BY <2>2, <2>4, <2>6, <2>7
<1>5. <<Len(q), Steps(m)>> \in R
  <2> HIDE DEF R, F
  <2>1. KeepsIn(Seq(StepType(m)), F, q, R)
    BY <1>4 DEF KeepsIn
  <2> QED BY <1>1, <1>3, <2>1, FoldKeeps
<1>6. PlaceOnce(Steps(m)) /\ \A j \in 1..Len(V) : V[j] \in Placed(Steps(m))
  <2> DEFINE s == Steps(m)
             n == Len(q)
  <2>1. <<n, s>> \in R
    BY <1>5
  <2> HIDE DEF s, n
  <2>2. PlaceOnce(s) /\ \A j \in 1..Len(V) : j <= n => V[j] \in Placed(s)
    BY <2>1
  <2>3. \A j \in 1..Len(V) : j <= n
    <3>1. n = Len(V) /\ Len(V) \in Nat
      BY <1>1, <1>2 DEF n
    <3> QED BY <3>1
  <2> QED BY <2>2, <2>3 DEF s
<1>7. Params(m) \subseteq Placed(Steps(m))
  <2> SUFFICES ASSUME NEW p \in Params(m) PROVE p \in Placed(Steps(m))
    OBVIOUS
  <2>1. Len(m.order) + p \in 1..Len(V)
    <3> DEFINE o == Len(m.order)
               n == Len(m.size)
    <3>1. o \in Nat /\ n \in Nat /\ p \in 1..n /\ Len(V) = o + n
      BY <1>2, ModelHas DEF Params
    <3> HIDE DEF o, n
    <3> QED BY <3>1 DEF o
  <2> QED BY <1>2, <1>6, <2>1
<1>8. Placed(Steps(m)) \subseteq Params(m)
  <2> SUFFICES ASSUME NEW p \in Placed(Steps(m)) PROVE p \in Params(m)
    OBVIOUS
  <2>1. PICK i \in 1..Len(Steps(m)) : p \in ToSet(Steps(m)[i].params) /\ Steps(m)[i] \in StepType(m)
    BY <1>1, PlacedIs
  <2>2. Steps(m)[i].params \in Seq(Params(m))
    BY <2>1 DEF StepType
  <2> QED BY <2>1, <2>2, ToSetDef
<1> QED BY <1>1, <1>6, <1>7, <1>8

-----------------------------------------------------------------------------
(* Bytes grow along a sequence.                                            *)

BytesUpto(m, q, i) == Upto(AddBytes(m), 0, q, i)

LEMMA BytesGrow ==
    ASSUME NEW m, IsModel(m), NEW q \in Seq(Params(m))
    PROVE  /\ BytesUpto(m, q, 0) = 0 /\ BytesUpto(m, q, Len(q)) = Bytes(m, q)
           /\ \A i \in 0..Len(q) : BytesUpto(m, q, i) \in Nat /\ BytesUpto(m, q, i) <= Bytes(m, q)
           /\ \A i \in 1..Len(q) :
                 q[i] \in Params(m) /\ BytesUpto(m, q, i) = BytesUpto(m, q, i - 1) + m.size[q[i]]
<1> DEFINE n == Len(q)
           h == [i \in 0..n |-> BytesUpto(m, q, i)]
<1>1. Foldable(Nat, Params(m), AddBytes(m), 0, q) /\ Bytes(m, q) = Fold(AddBytes(m), 0, q)
  BY BytesFold
<1>2. n \in Nat /\ \A i \in 1..n : q[i] \in Params(m) /\ m.size[q[i]] \in Nat
  BY LenProperties, ElementOfSeq, ModelHas
<1>3. /\ Bytes(m, q) = BytesUpto(m, q, n) /\ BytesUpto(m, q, 0) = 0
      /\ \A i \in 0..n : BytesUpto(m, q, i) \in Nat
      /\ \A i \in 1..n : BytesUpto(m, q, i) = AddBytes(m)[<<BytesUpto(m, q, i - 1), q[i]>>]
  BY <1>1, FoldAlong DEF BytesUpto
<1> HIDE DEF n
<1>4. \A i \in 1..n : i \in 0..n /\ i - 1 \in 0..n
  BY <1>2
<1>5. \A i \in 1..n : BytesUpto(m, q, i) = BytesUpto(m, q, i - 1) + m.size[q[i]]
  BY <1>2, <1>3, <1>4 DEF AddBytes
<1>6. ASSUME NEW i \in 0..n PROVE BytesUpto(m, q, i) <= BytesUpto(m, q, n)
  <2> DEFINE T == {k \in Nat : k <= n => (i <= k => h[i] <= h[k])}
  <2>1. /\ \A k \in 0..n : h[k] \in Nat
        /\ \A k \in 1..n : h[k] >= h[k - 1]
    <3>1. \A k \in 0..n : h[k] = BytesUpto(m, q, k) /\ h[k] \in Nat
      BY <1>3
    <3> HIDE DEF h
    <3>2. ASSUME NEW k \in 1..n PROVE h[k] >= h[k - 1]
      <4>1. h[k] = h[k - 1] + m.size[q[k]] /\ h[k - 1] \in Nat /\ m.size[q[k]] \in Nat
        BY <1>2, <1>4, <1>5, <3>1
      <4> QED BY <4>1
    <3> QED BY <3>1, <3>2
  <2> HIDE DEF h
  <2>2. 0 \in T
    BY <1>2, <2>1
  <2>3. ASSUME NEW k \in T PROVE k + 1 \in T
    <3> SUFFICES ASSUME k + 1 <= n, i <= k + 1, i # k + 1 PROVE h[i] <= h[k + 1]
      BY <1>2, <2>1
    <3>1. h[i] <= h[k]
      BY <1>2
    <3>2. k \in 0..n /\ k + 1 \in 1..n /\ k + 1 \in 0..n /\ (k + 1) - 1 = k
      BY <1>2
    <3>3. h[k + 1] >= h[k]
      BY <2>1, <3>2
    <3> QED BY <2>1, <3>1, <3>2, <3>3
  <2>4. T = Nat
    <3> HIDE DEF T
    <3>1. T \subseteq Nat
      BY DEF T
    <3> QED BY <2>2, <2>3, <3>1, NaturalInduction
  <2>5. h[i] <= h[n]
    BY <1>2, <2>4
  <2> QED BY <1>2, <2>5 DEF h
<1> QED BY <1>2, <1>3, <1>5, <1>6 DEF n

LEMMA NoBytes ==
    ASSUME NEW m, IsModel(m), NEW q \in Seq(Params(m)), Bytes(m, q) = 0
    PROVE  \A p \in ToSet(q) : m.size[p] = 0
<1> SUFFICES ASSUME NEW p \in ToSet(q) PROVE m.size[p] = 0
  OBVIOUS
<1>1. PICK i \in 1..Len(q) : q[i] = p
  BY ToSetDef
<1>2. i \in 0..Len(q) /\ i - 1 \in 0..Len(q)
  BY LenProperties
<1>3. /\ BytesUpto(m, q, i) \in Nat /\ BytesUpto(m, q, i) <= 0 /\ BytesUpto(m, q, i - 1) \in Nat
      /\ q[i] \in Params(m) /\ BytesUpto(m, q, i) = BytesUpto(m, q, i - 1) + m.size[q[i]]
  BY <1>2, BytesGrow
<1>4. m.size[p] \in Nat
  BY <1>1, <1>3, ModelHas
<1> QED BY <1>1, <1>3, <1>4

-----------------------------------------------------------------------------
(* The number of parameters in chunks.                                     *)

LenOne(P) == [a \in Nat \X Seq(P) |-> a[1] + Len(a[2])]
LenSum(chunks) == FoldLeft(LAMBDA n, c : n + Len(c), 0, chunks)

LEMMA LenTyped ==
    ASSUME NEW P
    PROVE  \A k \in Nat, c \in Seq(P) : k + Len(c) \in Nat
<1> SUFFICES ASSUME NEW k \in Nat, NEW c \in Seq(P) PROVE k + Len(c) \in Nat
  OBVIOUS
<1>1. Len(c) \in Nat
  BY LenProperties
<1> QED BY <1>1

LEMMA LenFold ==
    ASSUME NEW P, NEW q \in Seq(Seq(P))
    PROVE  /\ Foldable(Nat, Seq(P), LenOne(P), 0, q)
           /\ FoldLeft(LAMBDA k, c : k + Len(c), 0, q) = Fold(LenOne(P), 0, q)
<1> DEFINE n == Len(q)
           Solves(f) == f = [s \in SUBSET (1..n) |->
                               IF s = {} THEN 0 ELSE f[s \ {Max(s)}] + Len(q[Max(s)])]
           H == CHOOSE f : Solves(f)
<1>1. \A a \in Nat, x \in Seq(P) : a + Len(x) \in Nat /\ LenOne(P)[<<a, x>>] = a + Len(x)
  BY LenTyped DEF LenOne
<1>2. Foldable(Nat, Seq(P), LenOne(P), 0, q)
  BY LenTyped DEF LenOne, Foldable
<1>3. n \in Nat /\ DOMAIN q = 1..n /\ \A i \in 1..n : q[i] \in Seq(P) /\ i \in Nat \ {0}
  BY LenProperties, ElementOfSeq
<1>4. FoldLeft(LAMBDA k, c : k + Len(c), 0, q) = H[1..n]
  <2> HIDE DEF n
  <2> QED BY <1>3 DEF FoldLeft, MapThenFoldSet
<1>5. \E f : Solves(f)
  <2>1. PICK f \in [SUBSET (1..n) -> Nat] : Unfolds(LenOne(P), 0, q, n, f)
    BY <1>2, UnfoldExists DEF Foldable
  <2> HIDE DEF n
  <2>2. ASSUME NEW s \in SUBSET (1..n), s # {}
        PROVE  LenOne(P)[<<f[s \ {Max(s)}], q[Max(s)]>>] = f[s \ {Max(s)}] + Len(q[Max(s)])
    <3>1. f[s \ {Max(s)}] \in Nat /\ q[Max(s)] \in Seq(P)
      BY <1>3, <2>1, <2>2, MaxOfPart
    <3> QED BY <1>1, <3>1
  <2>3. Solves(f)
    BY <2>1, <2>2 DEF Unfolds
  <2> HIDE DEF Solves
  <2> QED BY <2>3
<1>6. Solves(H)
  <2> HIDE DEF Solves
  <2> QED BY <1>5
<1> HIDE DEF H
<1>7. H[{}] = 0
  BY <1>6
<1>8. ASSUME NEW i \in 1..n, H[1..(i - 1)] \in Nat
      PROVE  H[1..i] = LenOne(P)[<<H[1..(i - 1)], q[i]>>]
  <2> HIDE DEF n
  <2>1. 1..i \in SUBSET (1..n) /\ i \in Nat \ {0}
    BY <1>3
  <2>2. H[1..i] = H[1..(i - 1)] + Len(q[i])
    BY <1>6, <2>1, MaxOfInterval
  <2> QED BY <1>1, <1>3, <1>8, <2>2
<1>9. H[1..n] = Fold(LenOne(P), 0, q)
  <2>1. Climbs(Nat, LenOne(P), 0, q, H)
    BY <1>7, <1>8 DEF Climbs
  <2> QED BY <1>2, <2>1, FoldIs
<1> QED BY <1>2, <1>4, <1>9

LEMMA LenSumIs ==
    ASSUME NEW P, NEW q \in Seq(Seq(P)), NEW c \in Seq(P)
    PROVE  /\ LenSum(q) \in Nat /\ LenSum(Append(q, c)) = LenSum(q) + Len(c)
           /\ LenSum(<<>>) = 0
<1>1. Foldable(Nat, Seq(P), LenOne(P), 0, q) /\ LenSum(q) = Fold(LenOne(P), 0, q)
  BY LenFold DEF LenSum
<1>2. LenSum(q) \in Nat
  BY <1>1, FoldAlong
<1>3. LenSum(Append(q, c)) = LenSum(q) + Len(c)
  <2>1. Append(q, c) \in Seq(Seq(P))
    BY AppendProperties
  <2>2. LenSum(Append(q, c)) = Fold(LenOne(P), 0, Append(q, c))
    BY <2>1, LenFold DEF LenSum
  <2>3. Fold(LenOne(P), 0, Append(q, c)) = LenOne(P)[<<Fold(LenOne(P), 0, q), c>>]
    BY <1>1, FoldAppend
  <2>4. LenOne(P)[<<LenSum(q), c>>] = LenSum(q) + Len(c)
    BY <1>2 DEF LenOne
  <2> QED BY <1>1, <2>2, <2>3, <2>4
<1>4. LenSum(<<>>) = 0
  <2> DEFINE e == <<>>
  <2>1. e \in Seq(Seq(P))
    BY EmptySeq
  <2>2. LenSum(e) = Fold(LenOne(P), 0, e)
    BY <2>1, LenFold DEF LenSum
  <2>3. Fold(LenOne(P), 0, e) = 0
    BY <1>1, FoldEmpty
  <2> QED BY <2>2, <2>3
<1> QED BY <1>2, <1>3, <1>4

-----------------------------------------------------------------------------
(* What chunks hold, and which hold some of a set.                         *)

In(chunks) == UNION {ToSet(chunks[c]) : c \in 1..Len(chunks)}
Hits(chunks, ps) == {c \in 1..Len(chunks) : ToSet(chunks[c]) \cap ps # {}}

LEMMA ChunksAre ==
    ASSUME NEW m, IsModel(m), NEW chunks \in Chunks(m)
    PROVE  /\ chunks \in Seq(Seq(Params(m))) /\ chunks # <<>> /\ Len(chunks) \in Nat \ {0}
           /\ Len(chunks) \in 1..Len(chunks) /\ DOMAIN chunks = 1..Len(chunks)
           /\ Last(chunks) = chunks[Len(chunks)]
           /\ \A c \in 1..Len(chunks) :
                 chunks[c] \in Seq(Params(m)) /\ ToSet(chunks[c]) \subseteq Params(m)
           /\ In(chunks) \subseteq Params(m)
           /\ \A p : p \in In(chunks) <=> \E c \in 1..Len(chunks) : p \in ToSet(chunks[c])
<1>1. /\ chunks \in Seq(Seq(Params(m))) /\ chunks # <<>> /\ Len(chunks) \in Nat \ {0}
      /\ Last(chunks) = chunks[Len(chunks)]
  BY UsedIs
<1>2. DOMAIN chunks = 1..Len(chunks) /\ \A c \in 1..Len(chunks) : chunks[c] \in Seq(Params(m))
  BY <1>1, LenProperties, ElementOfSeq
<1>3. \A c \in 1..Len(chunks) : ToSet(chunks[c]) \subseteq Params(m)
  <2> SUFFICES ASSUME NEW c \in 1..Len(chunks) PROVE ToSet(chunks[c]) \subseteq Params(m)
    OBVIOUS
  <2>1. chunks[c] \in Seq(Params(m))
    BY <1>2
  <2> QED BY <2>1, ToSetDef
<1>4. \A p : p \in In(chunks) <=> \E c \in 1..Len(chunks) : p \in ToSet(chunks[c])
  BY DEF In
<1> QED BY <1>1, <1>2, <1>3, <1>4

LEMMA ParamsFinite ==
    ASSUME NEW m, IsModel(m)
    PROVE  /\ IsFiniteSet(Params(m)) /\ Cardinality(Params(m)) = Len(m.size)
           /\ \A s \in SUBSET Params(m) : IsFiniteSet(s) /\ Cardinality(s) \in Nat
<1> DEFINE n == Len(m.size)
<1>1. n \in Nat /\ Params(m) = 1..n
  BY ModelHas DEF Params
<1> HIDE DEF n
<1>2. IsFiniteSet(1..n) /\ Cardinality(1..n) = IF 1 > n THEN 0 ELSE n - 1 + 1
  <2>1. 1 \in Int /\ n \in Int
    BY <1>1
  <2> QED BY <2>1, FS_Interval
<1>3. Cardinality(1..n) = n
  BY <1>1, <1>2
<1>4. \A s \in SUBSET Params(m) : IsFiniteSet(s) /\ Cardinality(s) \in Nat
  BY <1>1, <1>2, FS_Subset, FS_CardinalityType
<1> QED BY <1>1, <1>2, <1>3, <1>4 DEF n

\* Chunks that share nothing, hold what was placed, and are oversize for one
\* parameter only.
Sound(m, S, chunks) ==
    /\ \A c, d \in 1..Len(chunks) : c # d => ToSet(chunks[c]) \cap ToSet(chunks[d]) = {}
    /\ LenSum(chunks) = Cardinality(In(chunks))
    /\ \A c \in 1..Len(chunks) :
          ~Fits(m, S, chunks[c]) => Cardinality({p \in ToSet(chunks[c]) : m.size[p] > 0}) = 1

-----------------------------------------------------------------------------
(* One parameter more.                                                     *)

LEMMA OpenChunk ==
    ASSUME NEW m, IsModel(m), NEW chunks \in Chunks(m), NEW q \in Seq(Params(m))
    PROVE  /\ Append(chunks, q) \in Chunks(m) /\ Len(Append(chunks, q)) = Len(chunks) + 1
           /\ Append(chunks, q)[Len(chunks) + 1] = q
           /\ \A c \in 1..Len(chunks) : Append(chunks, q)[c] = chunks[c]
           /\ LenSum(Append(chunks, q)) = LenSum(chunks) + Len(q)
<1>1. chunks \in Seq(Seq(Params(m)))
  BY ChunksAre
<1>2. /\ Len(Append(chunks, q)) = Len(chunks) + 1 /\ Append(chunks, q)[Len(chunks) + 1] = q
      /\ \A c \in 1..Len(chunks) : Append(chunks, q)[c] = chunks[c]
  BY <1>1, AppendProperties
<1>3. Append(chunks, q) \in Chunks(m)
  BY NewChunk
<1>4. LenSum(Append(chunks, q)) = LenSum(chunks) + Len(q)
  BY <1>1, LenSumIs
<1> QED BY <1>2, <1>3, <1>4

LEMMA ExtendLast ==
    ASSUME NEW m, IsModel(m), NEW chunks \in Chunks(m), NEW p \in Params(m)
    PROVE  LET d == [chunks EXCEPT ![Len(chunks)] = Append(chunks[Len(chunks)], p)]
           IN  /\ d \in Chunks(m) /\ Len(d) = Len(chunks)
               /\ d[Len(chunks)] = Append(chunks[Len(chunks)], p)
               /\ \A c \in 1..Len(chunks) : c # Len(chunks) => d[c] = chunks[c]
               /\ LenSum(d) = LenSum(chunks) + 1
<1> DEFINE n == Len(chunks)
           l == chunks[n]
           x == Append(l, p)
           d == [chunks EXCEPT ![n] = x]
           f == Front(chunks)
           P == Params(m)
<1>1. /\ chunks \in Seq(Seq(P)) /\ chunks # <<>> /\ n \in Nat \ {0} /\ l \in Seq(P)
      /\ Last(chunks) = l
  BY ChunksAre
<1>2. x \in Seq(P) /\ Len(x) = Len(l) + 1 /\ Len(l) \in Nat
  BY <1>1, AppendProperties, LenProperties
<1> HIDE DEF x, l
<1>3. /\ d \in Seq(Seq(P)) /\ d # <<>> /\ Len(d) = n /\ d[n] = x
      /\ \A c \in 1..n : c # n => d[c] = chunks[c]
  BY <1>1, <1>2, LastReplaced
<1>4. /\ f \in Seq(Seq(P)) /\ Len(f) = n - 1 /\ \A c \in 1..(n - 1) : f[c] = chunks[c]
      /\ chunks = Append(f, l)
  BY <1>1, LastAndFront
<1> HIDE DEF d, f, n
<1>5. d = Append(f, x)
  <2> DEFINE r == Append(f, x)
  <2>1. /\ r \in Seq(Seq(P)) /\ Len(r) = (n - 1) + 1 /\ r[(n - 1) + 1] = x
        /\ \A c \in 1..(n - 1) : r[c] = f[c]
    BY <1>2, <1>4, AppendProperties
  <2> HIDE DEF r
  <2>2. (n - 1) + 1 = n /\ \A c \in 1..n : c = n \/ (c \in 1..(n - 1) /\ c # n)
    BY <1>1
  <2>3. Len(d) = Len(r) /\ \A c \in 1..Len(d) : d[c] = r[c]
    BY <1>3, <1>4, <2>1, <2>2
  <2>4. d = r
    BY <1>3, <2>1, <2>3, SeqEqual
  <2> QED BY <2>4 DEF r
<1>6. LenSum(d) = LenSum(f) + Len(x) /\ LenSum(chunks) = LenSum(f) + Len(l) /\ LenSum(f) \in Nat
  <2>1. LenSum(Append(f, x)) = LenSum(f) + Len(x)
    BY <1>2, <1>4, LenSumIs
  <2>2. LenSum(Append(f, l)) = LenSum(f) + Len(l) /\ LenSum(f) \in Nat
    BY <1>1, <1>4, LenSumIs
  <2> QED BY <1>4, <1>5, <2>1, <2>2
<1>7. LenSum(d) = LenSum(chunks) + 1
  BY <1>2, <1>6
<1>8. d \in Chunks(m)
  BY <1>3 DEF Chunks
<1> QED BY <1>3, <1>7, <1>8 DEF d, x, l, n

\* A parameter is added to the last of the chunks, or to a new one.
Adds(chunks, d, p) ==
    /\ Len(d) \in {Len(chunks), Len(chunks) + 1}
    /\ \A c \in 1..Len(d) :
          ToSet(d[c]) = (IF c <= Len(chunks) THEN ToSet(chunks[c]) ELSE {})
                           \cup (IF c = Len(d) THEN {p} ELSE {})

LEMMA AddsOne ==
    ASSUME NEW m, IsModel(m), NEW chunks \in Chunks(m), NEW d \in Chunks(m), NEW p,
           Adds(chunks, d, p)
    PROVE  /\ In(d) = In(chunks) \cup {p} /\ p \in ToSet(d[Len(d)])
           /\ Len(chunks) <= Len(d)
           /\ \A x \in In(chunks) \ {p} : \A c \in 1..Len(d) :
                 x \in ToSet(d[c]) <=> c \in 1..Len(chunks) /\ x \in ToSet(chunks[c])
           /\ \A c \in 1..Len(d) : p \in ToSet(d[c]) /\ p \notin In(chunks) => c = Len(d)
<1> DEFINE n == Len(chunks)
           k == Len(d)
<1>1. n \in Nat \ {0} /\ k \in Nat \ {0} /\ (k = n \/ k = n + 1)
  BY ChunksAre DEF Adds
<1>2. \A c \in 1..k : ToSet(d[c]) = (IF c <= n THEN ToSet(chunks[c]) ELSE {})
                                       \cup (IF c = k THEN {p} ELSE {})
  BY DEF Adds
<1>3. \A x : x \in In(chunks) <=> \E c \in 1..n : x \in ToSet(chunks[c])
  BY ChunksAre
<1>4. \A x : x \in In(d) <=> \E c \in 1..k : x \in ToSet(d[c])
  BY ChunksAre
<1> HIDE DEF n, k
<1>5. /\ k \in 1..k /\ n <= k
      /\ \A c \in 1..n : c \in 1..k /\ c <= n
      /\ \A c \in 1..k : c <= n => c \in 1..n
  BY <1>1
<1>6. In(d) = In(chunks) \cup {p}
  <2>1. \A x : x \in In(d) <=> x \in In(chunks) \/ x = p
    BY <1>2, <1>3, <1>4, <1>5
  <2> QED BY <2>1
<1>7. p \in ToSet(d[k])
  BY <1>2, <1>5
<1>8. \A x \in In(chunks) \ {p} : \A c \in 1..k :
          x \in ToSet(d[c]) <=> c \in 1..n /\ x \in ToSet(chunks[c])
  BY <1>2, <1>5
<1>9. \A c \in 1..k : p \in ToSet(d[c]) /\ p \notin In(chunks) => c = k
  BY <1>2, <1>3, <1>5
<1> QED BY <1>5, <1>6, <1>7, <1>8, <1>9 DEF n, k

\* Whether a parameter opens a chunk.
Opens(m, S, chunks, p) ==
    Bytes(m, Last(chunks)) > 0 /\ Bytes(m, Last(chunks)) + m.size[p] > S

LEMMA PlaceAdds ==
    ASSUME NEW m, IsModel(m), NEW S \in Nat, NEW chunks \in Chunks(m), NEW p \in Params(m)
    PROVE  /\ Place(m, S, chunks, p) \in Chunks(m) /\ Adds(chunks, Place(m, S, chunks, p), p)
           /\ LenSum(Place(m, S, chunks, p)) = LenSum(chunks) + 1
           /\ \A c \in 1..Len(Place(m, S, chunks, p)) :
                 c # Len(Place(m, S, chunks, p)) => Place(m, S, chunks, p)[c] = chunks[c]
           /\ Opens(m, S, chunks, p) =>
                 /\ Len(Place(m, S, chunks, p)) = Len(chunks) + 1
                 /\ ToSet(Last(Place(m, S, chunks, p))) = {p}
                 /\ Bytes(m, Last(Place(m, S, chunks, p))) = m.size[p]
           /\ ~Opens(m, S, chunks, p) =>
                 /\ Len(Place(m, S, chunks, p)) = Len(chunks)
                 /\ ToSet(Last(Place(m, S, chunks, p))) = ToSet(Last(chunks)) \cup {p}
                 /\ Bytes(m, Last(Place(m, S, chunks, p))) = Bytes(m, Last(chunks)) + m.size[p]
<1> DEFINE n == Len(chunks)
           d == Place(m, S, chunks, p)
           l == Last(chunks)
           P == Params(m)
           opens == Opens(m, S, chunks, p)
           X == [chunks EXCEPT ![n] = Append(chunks[n], p)]
<1>1. d \in Chunks(m)
  BY PlaceIs
<1>2. d = IF opens THEN Append(chunks, <<p>>) ELSE X
  BY DEF Place, Opens
<1>3. n \in Nat \ {0} /\ n \in 1..n /\ l = chunks[n] /\ l \in Seq(P)
  BY ChunksAre
<1>4. <<p>> \in Seq(P) /\ Len(<<p>>) = 1 /\ ToSet(<<p>>) = {p} /\ Bytes(m, <<p>>) = m.size[p]
  <2> DEFINE e == <<>>
  <2>1. e \in Seq(P) /\ ToSet(e) = {} /\ Append(e, p) = <<p>>
    BY EmptySeq, NothingListed
  <2> HIDE DEF e, X, d, opens, l, n
  <2>2. ToSet(Append(e, p)) = ToSet(e) \cup {p}
    <3>1. e \in Seq(P)
      BY <2>1
    <3> QED BY <3>1, AppendSet
  <2>3. Bytes(m, Append(e, p)) = Bytes(m, e) + m.size[p]
    <3>1. e \in Seq(P)
      BY <2>1
    <3> QED BY <3>1, BytesIs
  <2>4. Bytes(m, e) = 0 /\ m.size[p] \in Nat
    BY BytesIs, EmptySeq, ModelHas DEF e
  <2>5. Bytes(m, Append(e, p)) = m.size[p]
    BY <2>3, <2>4
  <2> QED BY <2>1, <2>2, <2>5
<1>5. Last(d) = d[Len(d)]
  BY <1>1, ChunksAre
<1> DEFINE o == <<p>>
<1> HIDE DEF d, o
<1>6. CASE opens
  <2>0. d = Append(chunks, o) /\ o \in Seq(P) /\ Len(o) = 1 /\ ToSet(o) = {p}
        /\ Bytes(m, o) = m.size[p]
    BY <1>2, <1>4, <1>6 DEF o
  <2>1. /\ Len(d) = n + 1 /\ d[n + 1] = o /\ \A c \in 1..n : d[c] = chunks[c]
        /\ LenSum(d) = LenSum(chunks) + Len(o)
    <3> HIDE DEF X, opens, l
    <3>0. o \in Seq(P)
      BY <2>0
    <3>1. /\ Len(Append(chunks, o)) = n + 1 /\ Append(chunks, o)[n + 1] = o
          /\ \A c \in 1..n : Append(chunks, o)[c] = chunks[c]
          /\ LenSum(Append(chunks, o)) = LenSum(chunks) + Len(o)
      BY <3>0, OpenChunk
    <3> QED BY <2>0, <3>1
  <2> HIDE DEF n, opens
  <2>2. n + 1 # n /\ \A c \in 1..(n + 1) : (c \in 1..n /\ c <= n /\ c # n + 1) \/ (c = n + 1 /\ ~(c <= n))
    BY <1>3
  <2>3. Adds(chunks, d, p)
    <3>1. \A c \in 1..Len(d) :
            ToSet(d[c]) = (IF c <= n THEN ToSet(chunks[c]) ELSE {})
                             \cup (IF c = Len(d) THEN {p} ELSE {})
      BY <2>0, <2>1, <2>2
    <3> QED BY <2>1, <3>1 DEF Adds, n
  <2>4. \A c \in 1..Len(d) : c # Len(d) => d[c] = chunks[c]
    BY <2>1, <2>2
  <2> QED BY <1>1, <1>5, <1>6, <2>0, <2>1, <2>3, <2>4 DEF d, n, opens
<1>7. CASE ~opens
  <2>1. /\ Len(X) = n /\ X[n] = Append(chunks[n], p) /\ LenSum(X) = LenSum(chunks) + 1
        /\ \A c \in 1..n : c # n => X[c] = chunks[c]
    BY ExtendLast
  <2>2. d = X
    BY <1>2, <1>7
  <2> HIDE DEF X, n, l, opens
  <2>3. /\ ToSet(Append(l, p)) = ToSet(l) \cup {p}
        /\ Bytes(m, Append(l, p)) = Bytes(m, l) + m.size[p]
    BY <1>3, AppendSet, BytesIs
  <2>4. \A c \in 1..n : c <= n
    BY <1>3
  <2>5. Adds(chunks, d, p)
    <3>1. \A c \in 1..Len(d) :
            ToSet(d[c]) = (IF c <= n THEN ToSet(chunks[c]) ELSE {})
                             \cup (IF c = Len(d) THEN {p} ELSE {})
      BY <1>3, <2>1, <2>2, <2>3, <2>4
    <3> QED BY <2>1, <2>2, <3>1 DEF Adds, n
  <2>6. Last(d) = Append(l, p)
    BY <1>3, <1>5, <2>1, <2>2
  <2> QED BY <1>1, <1>7, <2>1, <2>2, <2>3, <2>5, <2>6 DEF d, n, l, opens
<1> QED BY <1>6, <1>7

LEMMA PlaceSound ==
    ASSUME NEW m, IsModel(m), NEW S \in Nat, NEW chunks \in Chunks(m), Sound(m, S, chunks),
           NEW p \in Params(m), p \notin In(chunks)
    PROVE  Sound(m, S, Place(m, S, chunks, p))
<1> DEFINE n == Len(chunks)
           d == Place(m, S, chunks, p)
           k == Len(d)
           b == Bytes(m, Last(chunks))
           x == m.size[p]
           opens == Opens(m, S, chunks, p)
<1>1. /\ d \in Chunks(m) /\ Adds(chunks, d, p) /\ LenSum(d) = LenSum(chunks) + 1
      /\ \A c \in 1..k : c # k => d[c] = chunks[c]
      /\ opens => k = n + 1 /\ ToSet(Last(d)) = {p} /\ Bytes(m, Last(d)) = x
      /\ ~opens => k = n /\ ToSet(Last(d)) = ToSet(Last(chunks)) \cup {p} /\ Bytes(m, Last(d)) = b + x
  BY PlaceAdds
<1>a. opens <=> b > 0 /\ b + x > S
  BY DEF Opens
<1>2. /\ Last(chunks) \in Seq(Params(m)) /\ n \in Nat \ {0}
      /\ \A q : q \in In(chunks) <=> \E c \in 1..n : q \in ToSet(chunks[c])
  BY ChunksAre
<1> HIDE DEF d, opens
<1>3. Last(d) = d[k] /\ k \in Nat \ {0}
  BY <1>1, ChunksAre
<1>4. x \in Nat /\ b \in Nat
  BY <1>2, BytesIs, ModelHas
<1>5. /\ k = n \/ k = n + 1
      /\ \A c \in 1..k : ToSet(d[c]) = (IF c <= n THEN ToSet(chunks[c]) ELSE {})
                                           \cup (IF c = k THEN {p} ELSE {})
  BY <1>1 DEF Adds
<1>6. /\ \A c, e \in 1..n : c # e => ToSet(chunks[c]) \cap ToSet(chunks[e]) = {}
      /\ LenSum(chunks) = Cardinality(In(chunks))
      /\ \A c \in 1..n : ~Fits(m, S, chunks[c])
                           => Cardinality({q \in ToSet(chunks[c]) : m.size[q] > 0}) = 1
  BY DEF Sound
<1>7. In(d) = In(chunks) \cup {p}
  BY <1>1, AddsOne
<1> HIDE DEF n, k
<1>8. \A c \in 1..k : c <= n <=> c \in 1..n
  BY <1>2, <1>3
<1>9. \A c \in 1..n : p \notin ToSet(chunks[c])
  BY <1>2
<1>10. \A c, e \in 1..k : c # e => ToSet(d[c]) \cap ToSet(d[e]) = {}
  <2> SUFFICES ASSUME NEW c \in 1..k, NEW e \in 1..k, c # e
               PROVE  ToSet(d[c]) \cap ToSet(d[e]) = {}
    OBVIOUS
  <2>1. ~(c = k /\ e = k)
    OBVIOUS
  <2>2. c \in 1..n /\ e \in 1..n => ToSet(chunks[c]) \cap ToSet(chunks[e]) = {}
    BY <1>6
  <2> QED BY <1>5, <1>8, <1>9, <2>1, <2>2
<1>11. LenSum(d) = Cardinality(In(d))
  <2>1. IsFiniteSet(In(chunks))
    BY ChunksAre, ParamsFinite
  <2>2. Cardinality(In(chunks) \cup {p}) = Cardinality(In(chunks)) + 1
    BY <2>1, FS_AddElement
  <2> QED BY <1>1, <1>6, <1>7, <2>2
<1>12. ASSUME NEW c \in 1..k, ~Fits(m, S, d[c])
       PROVE  Cardinality({q \in ToSet(d[c]) : m.size[q] > 0}) = 1
  <2>1. CASE c # k
    <3>1. c \in 1..n /\ d[c] = chunks[c]
      BY <1>1, <1>2, <1>3, <1>5, <2>1
    <3> QED BY <1>6, <1>12, <3>1
  <2>2. CASE c = k
    <3> DEFINE l == ToSet(Last(chunks))
    <3>1. Bytes(m, d[k]) > S \/ ~(Bytes(m, d[k]) <= S)
      BY <1>12, <2>2 DEF Fits
    <3>2. x > 0 /\ ToSet(d[k]) = (IF opens THEN {p} ELSE l \cup {p}) /\ (opens \/ b = 0)
      <4> HIDE DEF x, b
      <4> QED BY <1>1, <1>a, <1>3, <1>4, <3>1
    <3>3. ~opens => \A q \in l : m.size[q] = 0
      <4>1. ~opens => b = 0
        BY <3>2
      <4> QED BY <1>2, <4>1, NoBytes
    <3> HIDE DEF l
    <3>4. {q \in ToSet(d[k]) : m.size[q] > 0} = {p}
      BY <3>2, <3>3
    <3> QED BY <2>2, <3>4, FS_Singleton
  <2> QED BY <2>1, <2>2
<1> QED BY <1>10, <1>11, <1>12 DEF Sound, d, k

\* An empty chunk more.
LEMMA SealSound ==
    ASSUME NEW m, IsModel(m), NEW S \in Nat, NEW chunks \in Chunks(m), Sound(m, S, chunks)
    PROVE  LET d == Append(chunks, <<>>)
           IN  /\ d \in Chunks(m) /\ Sound(m, S, d) /\ In(d) = In(chunks)
               /\ Len(d) = Len(chunks) + 1 /\ Bytes(m, Last(d)) = 0
               /\ ToSet(d[Len(chunks) + 1]) = {}
               /\ \A c \in 1..Len(chunks) : d[c] = chunks[c]
<1> DEFINE n == Len(chunks)
           e == <<>>
           d == Append(chunks, e)
<1>1. e \in Seq(Params(m)) /\ ToSet(e) = {} /\ Len(e) = 0 /\ Bytes(m, e) = 0
  BY EmptySeq, NothingListed, BytesIs
<1>2. n \in Nat \ {0} /\ \A q : q \in In(chunks) <=> \E c \in 1..n : q \in ToSet(chunks[c])
  BY ChunksAre
<1> HIDE DEF e
<1>3. /\ d \in Chunks(m) /\ Len(d) = n + 1 /\ d[n + 1] = e
      /\ \A c \in 1..n : d[c] = chunks[c]
      /\ LenSum(d) = LenSum(chunks) + Len(e)
  <2>1. e \in Seq(Params(m))
    BY <1>1
  <2> QED BY <2>1, OpenChunk
<1> HIDE DEF d
<1>4. Last(d) = d[n + 1] /\ \A q : q \in In(d) <=> \E c \in 1..(n + 1) : q \in ToSet(d[c])
  BY <1>3, ChunksAre
<1>5. /\ \A c, x \in 1..n : c # x => ToSet(chunks[c]) \cap ToSet(chunks[x]) = {}
      /\ LenSum(chunks) = Cardinality(In(chunks))
      /\ \A c \in 1..n : ~Fits(m, S, chunks[c])
                           => Cardinality({q \in ToSet(chunks[c]) : m.size[q] > 0}) = 1
  BY DEF Sound
<1> HIDE DEF n
<1>6. \A c : c \in 1..(n + 1) <=> c \in 1..n \/ c = n + 1
  BY <1>2
<1>7. In(d) = In(chunks)
  <2>1. \A q : q \in In(d) <=> q \in In(chunks)
    BY <1>1, <1>2, <1>3, <1>4, <1>6
  <2> QED BY <2>1
<1>8. \A c, x \in 1..(n + 1) : c # x => ToSet(d[c]) \cap ToSet(d[x]) = {}
  BY <1>1, <1>3, <1>5, <1>6
<1>9. LenSum(d) = Cardinality(In(d))
  <2>1. Cardinality(In(chunks)) \in Nat
    BY ChunksAre, ParamsFinite
  <2> QED BY <1>1, <1>3, <1>5, <1>7, <2>1
<1>10. ASSUME NEW c \in 1..(n + 1), ~Fits(m, S, d[c])
       PROVE  Cardinality({q \in ToSet(d[c]) : m.size[q] > 0}) = 1
  <2>1. CASE c = n + 1
    BY <1>1, <1>3, <1>10, <2>1 DEF Fits
  <2>2. CASE c \in 1..n
    BY <1>3, <1>5, <1>10, <2>2
  <2> QED BY <1>6, <2>1, <2>2
<1>11. Sound(m, S, d)
  BY <1>3, <1>8, <1>9, <1>10 DEF Sound
<1> QED BY <1>1, <1>3, <1>4, <1>7, <1>11 DEF d, e, n

-----------------------------------------------------------------------------
(* A run of parameters: it goes to the last chunk and to new ones.         *)

\* What chunks v held is where it was.
Stays(v, d) ==
    /\ Len(v) <= Len(d)
    /\ \A x \in In(v) : \A c \in 1..Len(d) :
          x \in ToSet(d[c]) <=> c \in 1..Len(v) /\ x \in ToSet(v[c])

\* The first chunk of the run q.
FirstOf(m, S, v, q) ==
    IF Bytes(m, Last(v)) > 0 /\ Bytes(m, Last(v)) + m.size[q[1]] > S THEN Len(v) + 1 ELSE Len(v)

Among(q, j, s) == \E i \in 1..Len(q) : i <= j /\ q[i] \in s

\* The run is placed up to its jth.
Holds(v, q, j, d) ==
    /\ Stays(v, d)
    /\ \A x : x \in In(d) <=> x \in In(v) \/ Among(q, j, {x})
    /\ j = 0 => d = v
Spread(m, S, v, q, j, d) ==
    j > 0 => /\ FirstOf(m, S, v, q) <= Len(d)
             /\ \A c \in 1..Len(d) : c >= FirstOf(m, S, v, q) <=> Among(q, j, ToSet(d[c]))
FitsIn(m, S, v, q, j, d) ==
    Bytes(m, Last(v)) + Bytes(m, q) <= S =>
        Len(d) = Len(v) /\ Bytes(m, Last(d)) = Bytes(m, Last(v)) + BytesUpto(m, q, j)

LEMMA PlaceOpens ==
    ASSUME NEW m, IsModel(m), NEW S \in Nat, NEW chunks \in Chunks(m), NEW p \in Params(m)
    PROVE  /\ Place(m, S, chunks, p) \in Chunks(m) /\ Adds(chunks, Place(m, S, chunks, p), p)
           /\ Len(Place(m, S, chunks, p)) =
                 IF Bytes(m, Last(chunks)) > 0 /\ Bytes(m, Last(chunks)) + m.size[p] > S
                 THEN Len(chunks) + 1 ELSE Len(chunks)
<1> DEFINE d == Place(m, S, chunks, p)
<1>1. d \in Chunks(m) /\ Adds(chunks, d, p)
  BY PlaceAdds
<1>2. Opens(m, S, chunks, p) => Len(d) = Len(chunks) + 1
  BY PlaceAdds
<1>3. ~Opens(m, S, chunks, p) => Len(d) = Len(chunks)
  BY PlaceAdds
<1> HIDE DEF d
<1> QED BY <1>1, <1>2, <1>3 DEF d, Opens

LEMMA AmongNext ==
    ASSUME NEW X, NEW q \in Seq(X), NEW j \in 1..Len(q), NEW s
    PROVE  Among(q, j, s) <=> Among(q, j - 1, s) \/ q[j] \in s
<1>1. Len(q) \in Nat /\ \A i \in 1..Len(q) : i <= j <=> i <= j - 1 \/ i = j
  BY LenProperties
<1> QED BY <1>1 DEF Among

LEMMA NextIsNew ==
    ASSUME NEW X, NEW q \in Seq(X), NEW j \in 1..Len(q), NoRepeat(q)
    PROVE  ~Among(q, j - 1, {q[j]})
<1>1. Len(q) \in Nat /\ \A i \in 1..Len(q) : i <= j - 1 => i # j
  BY LenProperties
<1> QED BY <1>1 DEF Among, NoRepeat

LEMMA HoldsNext ==
    ASSUME NEW m, IsModel(m), NEW v \in Chunks(m), NEW q \in Seq(Params(m)), NoRepeat(q),
           ToSet(q) \cap In(v) = {}, NEW j \in 1..Len(q),
           NEW cs \in Chunks(m), NEW d \in Chunks(m), Adds(cs, d, q[j]), Holds(v, q, j - 1, cs)
    PROVE  Holds(v, q, j, d) /\ q[j] \notin In(cs)
<1> DEFINE p == q[j]
           n == Len(v)
           k == Len(cs)
           l == Len(d)
<1>1. /\ In(d) = In(cs) \cup {p} /\ k <= l
      /\ \A x \in In(cs) \ {p} : \A c \in 1..l : x \in ToSet(d[c]) <=> c \in 1..k /\ x \in ToSet(cs[c])
  BY AddsOne
<1>2. /\ n <= k
      /\ \A x \in In(v) : \A c \in 1..k : x \in ToSet(cs[c]) <=> c \in 1..n /\ x \in ToSet(v[c])
      /\ \A x : x \in In(cs) <=> x \in In(v) \/ Among(q, j - 1, {x})
  BY DEF Holds, Stays
<1>3. n \in Nat /\ k \in Nat /\ l \in Nat
  BY ChunksAre
<1>4. p \in ToSet(q)
  BY ToSetDef
<1>5. ~Among(q, j - 1, {p}) /\ \A x : Among(q, j, {x}) <=> Among(q, j - 1, {x}) \/ p = x
  <2>1. ~Among(q, j - 1, {p})
    BY NextIsNew
  <2>2. \A x : Among(q, j, {x}) <=> Among(q, j - 1, {x}) \/ p \in {x}
    BY AmongNext
  <2> QED BY <2>1, <2>2
<1>6. j # 0
  BY LenProperties
<1> HIDE DEF p, n, k, l
<1>7. p \notin In(cs) /\ p \notin In(v)
  BY <1>2, <1>4, <1>5
<1>8. \A x : x \in In(d) <=> x \in In(v) \/ Among(q, j, {x})
  BY <1>1, <1>2, <1>5
<1>9. \A x \in In(v) : \A c \in 1..l : x \in ToSet(d[c]) <=> c \in 1..n /\ x \in ToSet(v[c])
  <2>1. \A c \in 1..n : c \in 1..k
    BY <1>2, <1>3
  <2>2. \A x \in In(v) : x \in In(cs) \ {p}
    BY <1>2, <1>7
  <2> QED BY <1>1, <1>2, <2>1, <2>2
<1>10. n <= l
  BY <1>1, <1>2, <1>3
<1> QED BY <1>6, <1>7, <1>8, <1>9, <1>10 DEF Holds, Stays, p, n, l

LEMMA SpreadNext ==
    ASSUME NEW m, IsModel(m), NEW S \in Nat, NEW v \in Chunks(m), NEW q \in Seq(Params(m)),
           NEW j \in 1..Len(q), NEW cs \in Chunks(m), q[j] \notin In(cs),
           Holds(v, q, j - 1, cs), Spread(m, S, v, q, j - 1, cs)
    PROVE  Spread(m, S, v, q, j, Place(m, S, cs, q[j]))
<1> DEFINE p == q[j]
           d == Place(m, S, cs, p)
           k == Len(cs)
           l == Len(d)
           f == FirstOf(m, S, v, q)
<1>0. p \in Params(m) /\ Len(q) \in Nat
  BY LenProperties, ElementOfSeq
<1>1. /\ d \in Chunks(m) /\ Adds(cs, d, p)
      /\ Bytes(m, Last(cs)) > 0 /\ Bytes(m, Last(cs)) + m.size[p] > S => l = k + 1
      /\ ~(Bytes(m, Last(cs)) > 0 /\ Bytes(m, Last(cs)) + m.size[p] > S) => l = k
  <2> HIDE DEF p, k, l, f
  <2>1. d \in Chunks(m) /\ Adds(cs, d, p)
        /\ Len(d) = IF Bytes(m, Last(cs)) > 0 /\ Bytes(m, Last(cs)) + m.size[p] > S
                    THEN Len(cs) + 1 ELSE Len(cs)
    BY <1>0, PlaceOpens
  <2> QED BY <2>1 DEF k, l
<1> HIDE DEF d
<1>2. /\ p \in ToSet(d[l]) /\ k <= l
      /\ \A x \in In(cs) \ {p} : \A c \in 1..l : x \in ToSet(d[c]) <=> c \in 1..k /\ x \in ToSet(cs[c])
      /\ \A c \in 1..l : p \in ToSet(d[c]) => c = l
  BY <1>1, AddsOne
<1>3. k \in Nat /\ l \in Nat /\ (l = k \/ l = k + 1) /\ f \in Nat
  <2>1. k \in Nat /\ l \in Nat /\ Len(v) \in Nat
    BY <1>1, ChunksAre
  <2> QED BY <1>1, <2>1 DEF FirstOf
<1>4. \A c \in 1..l : Among(q, j, ToSet(d[c])) <=> Among(q, j - 1, ToSet(d[c])) \/ p \in ToSet(d[c])
  BY AmongNext
<1>5. CASE j = 1
  <2>1. cs = v
    BY <1>5 DEF Holds
  <2>2. f = l
    BY <1>1, <1>5, <2>1 DEF FirstOf
  <2>3. \A c \in 1..l : ~Among(q, j - 1, ToSet(d[c]))
    BY <1>0, <1>5 DEF Among
  <2> HIDE DEF f, l
  <2>4. \A c \in 1..l : c >= f <=> c = l
    BY <1>3, <2>2
  <2> QED BY <1>2, <1>3, <1>4, <2>2, <2>3, <2>4 DEF Spread, f, l, d
<1>6. CASE j # 1
  <2>1. j - 1 > 0
    BY <1>0, <1>6
  <2>2. f <= k /\ \A c \in 1..k : c >= f <=> Among(q, j - 1, ToSet(cs[c]))
    BY <2>1 DEF Spread
  <2>3. \A x : Among(q, j - 1, {x}) => x \in In(cs) \ {p}
    BY DEF Holds
  <2>4. \A c \in 1..l : Among(q, j - 1, ToSet(d[c])) <=> c \in 1..k /\ Among(q, j - 1, ToSet(cs[c]))
    <3>1. \A i \in 1..Len(q) : i <= j - 1 => q[i] \in In(cs) \ {p}
      BY <2>3 DEF Among
    <3> HIDE DEF k, l, p, f
    <3> QED BY <1>2, <3>1 DEF Among
  <2> HIDE DEF f, k, l, p
  <2>5. f <= l /\ \A c \in 1..l : c >= f <=> Among(q, j, ToSet(d[c]))
    <3>1. \A c \in 1..l : c \in 1..k \/ c = l
      BY <1>3
    <3>2. f <= l /\ l >= f
      BY <1>3, <2>2
    <3> QED BY <1>2, <1>4, <2>2, <2>4, <3>1, <3>2
  <2> QED BY <2>5 DEF Spread, f, l, p, d
<1> QED BY <1>5, <1>6

LEMMA FitsNext ==
    ASSUME NEW m, IsModel(m), NEW S \in Nat, NEW v \in Chunks(m), NEW q \in Seq(Params(m)),
           NEW j \in 1..Len(q), NEW cs \in Chunks(m), FitsIn(m, S, v, q, j - 1, cs)
    PROVE  FitsIn(m, S, v, q, j, Place(m, S, cs, q[j]))
<1> SUFFICES ASSUME Bytes(m, Last(v)) + Bytes(m, q) <= S
             PROVE  /\ Len(Place(m, S, cs, q[j])) = Len(v)
                    /\ Bytes(m, Last(Place(m, S, cs, q[j])))
                          = Bytes(m, Last(v)) + BytesUpto(m, q, j)
  BY DEF FitsIn
<1> DEFINE p == q[j]
           d == Place(m, S, cs, p)
           b == Bytes(m, Last(cs))
           w == Bytes(m, Last(v))
           x == m.size[p]
           t == BytesUpto(m, q, j)
           u == BytesUpto(m, q, j - 1)
           total == Bytes(m, q)
<1>1. p \in Params(m) /\ Len(q) \in Nat
  BY LenProperties, ElementOfSeq
<1>2. j \in 0..Len(q) /\ j - 1 \in 0..Len(q)
  BY <1>1
<1>3. t \in Nat /\ u \in Nat /\ t <= total /\ t = u + x /\ total \in Nat
  BY <1>2, BytesGrow, BytesIs
<1>4. w \in Nat /\ x \in Nat
  <2>1. Last(v) \in Seq(Params(m))
    BY ChunksAre
  <2> QED BY <1>1, <2>1, BytesIs, ModelHas
<1>5. Len(cs) = Len(v) /\ b = w + u
  BY DEF FitsIn
<1>6. ~(b > 0 /\ b + x > S) => Len(d) = Len(cs) /\ Bytes(m, Last(d)) = b + x
  <2> HIDE DEF p
  <2>1. ~Opens(m, S, cs, p) => Len(d) = Len(cs) /\ Bytes(m, Last(d)) = b + x
    BY <1>1, PlaceAdds
  <2> QED BY <2>1 DEF Opens
<1>7. w + total <= S
  OBVIOUS
<1> HIDE DEF b, w, x, t, u, total, d
<1>8. ~(b > 0 /\ b + x > S) /\ b + x = w + t
  BY <1>3, <1>4, <1>5, <1>7
<1>9. Len(d) = Len(v) /\ Bytes(m, Last(d)) = w + t
  BY <1>5, <1>6, <1>8
<1> QED BY <1>9 DEF d, w, t

Run(m, S, v, q) == FoldLeft(LAMBDA cs, p : Place(m, S, cs, p), v, q)

LEMMA RunPlaced ==
    ASSUME NEW m, IsModel(m), NEW S \in Nat, NEW v \in Chunks(m), Sound(m, S, v),
           NEW q \in Seq(Params(m)), NoRepeat(q), ToSet(q) \cap In(v) = {}
    PROVE  LET d == Run(m, S, v, q)
           IN  /\ d \in Chunks(m) /\ Sound(m, S, d) /\ Holds(v, q, Len(q), d)
               /\ Spread(m, S, v, q, Len(q), d) /\ FitsIn(m, S, v, q, Len(q), d)
<1> DEFINE F == PlaceOne(m, S)
           R == {a \in Nat \X Chunks(m) :
                    /\ Sound(m, S, a[2]) /\ Holds(v, q, a[1], a[2])
                    /\ Spread(m, S, v, q, a[1], a[2]) /\ FitsIn(m, S, v, q, a[1], a[2])}
           d == Run(m, S, v, q)
<1>1. Foldable(Chunks(m), Params(m), F, v, q) /\ d = Fold(F, v, q)
  BY PlaceFold DEF Run
<1>2. d \in Chunks(m)
  <2>1. Fold(F, v, q) \in Chunks(m)
    BY <1>1, FoldAlong
  <2> QED BY <1>1, <2>1
<1>3. Len(q) \in Nat /\ \A j \in 1..Len(q) : q[j] \in Params(m)
  BY LenProperties, ElementOfSeq
<1>4. <<0, v>> \in R
  <2>1. Holds(v, q, 0, v)
    <3>1. \A x : ~Among(q, 0, {x})
      BY <1>3 DEF Among
    <3>2. Len(v) <= Len(v)
      BY ChunksAre
    <3> QED BY <3>1, <3>2 DEF Holds, Stays
  <2>2. FitsIn(m, S, v, q, 0, v)
    <3>1. BytesUpto(m, q, 0) = 0
      BY BytesGrow
    <3>2. Bytes(m, Last(v)) \in Nat
      BY ChunksAre, BytesIs
    <3> QED BY <3>1, <3>2 DEF FitsIn
  <2>3. Spread(m, S, v, q, 0, v)
    BY DEF Spread
  <2> QED BY <2>1, <2>2, <2>3
<1>5. ASSUME NEW j \in 1..Len(q), NEW cs \in Chunks(m), <<j - 1, cs>> \in R
      PROVE  <<j, F[<<cs, q[j]>>]>> \in R
  <2> DEFINE e == Place(m, S, cs, q[j])
  <2>1. /\ Sound(m, S, cs) /\ Holds(v, q, j - 1, cs) /\ Spread(m, S, v, q, j - 1, cs)
        /\ FitsIn(m, S, v, q, j - 1, cs)
    BY <1>5
  <2>2. q[j] \in Params(m) /\ j \in Nat
    BY <1>3
  <2>3. F[<<cs, q[j]>>] = e
    BY <2>2 DEF PlaceOne
  <2> HIDE DEF R, F, d
  <2>4. e \in Chunks(m) /\ Adds(cs, e, q[j])
    <3>1. PICK p \in Params(m) : p = q[j]
      BY <2>2
    <3>2. Place(m, S, cs, p) \in Chunks(m) /\ Adds(cs, Place(m, S, cs, p), p)
      BY PlaceOpens
    <3> QED BY <3>1, <3>2
  <2>5. Holds(v, q, j, e) /\ q[j] \notin In(cs)
    <3> HIDE DEF e
    <3> QED BY <2>1, <2>4, HoldsNext
  <2>6. Spread(m, S, v, q, j, e)
    BY <2>1, <2>5, SpreadNext
  <2>7. FitsIn(m, S, v, q, j, e)
    BY <2>1, FitsNext
  <2>8. Sound(m, S, e)
    <3>1. PICK p \in Params(m) : p = q[j]
      BY <2>2
    <3>2. p \notin In(cs)
      BY <2>5, <3>1
    <3>3. Sound(m, S, Place(m, S, cs, p))
      BY <2>1, <3>2, PlaceSound
    <3> QED BY <3>1, <3>3
  <2> HIDE DEF e
  <2> QED BY <2>2, <2>3, <2>4, <2>5, <2>6, <2>7, <2>8 DEF R
<1>6. <<Len(q), d>> \in R
  <2> HIDE DEF R, F, d
  <2>1. KeepsIn(Chunks(m), F, q, R)
    BY <1>5 DEF KeepsIn
  <2> QED BY <1>1, <1>4, <2>1, FoldKeeps
<1>7. /\ Sound(m, S, d) /\ Holds(v, q, Len(q), d) /\ Spread(m, S, v, q, Len(q), d)
      /\ FitsIn(m, S, v, q, Len(q), d)
  <2> HIDE DEF d
  <2> QED BY <1>6
<1> QED BY <1>2, <1>7

\* Where a step went: from the last chunk there was, or the next, to the last
\* there is, and into one chunk if it is a block's and fits one.
Went(m, S, chunks, step, d) ==
    \E f \in Len(chunks)..Len(d) :
       /\ Hits(d, ToSet(step.params)) = f..Len(d)
       /\ step.block # NoBlock /\ Fits(m, S, step.params) => f = Len(d)

LEMMA AllAmong ==
    ASSUME NEW X, NEW q \in Seq(X), NEW s
    PROVE  Among(q, Len(q), s) <=> s \cap ToSet(q) # {}
<1>1. Len(q) \in Nat /\ \A i \in 1..Len(q) : i <= Len(q)
  BY LenProperties
<1>2. \A x : x \in ToSet(q) <=> \E i \in 1..Len(q) : q[i] = x
  BY ToSetDef
<1> QED BY <1>1, <1>2 DEF Among

LEMMA StepPlaced ==
    ASSUME NEW m, IsModel(m), NEW S \in Nat, NEW chunks \in Chunks(m), Sound(m, S, chunks),
           NEW step \in StepType(m), step.params # <<>>, NoRepeat(step.params),
           ToSet(step.params) \cap In(chunks) = {}
    PROVE  LET d == PlaceStep(m, S, chunks, step)
           IN  /\ d \in Chunks(m) /\ Sound(m, S, d) /\ Stays(chunks, d)
               /\ In(d) = In(chunks) \cup ToSet(step.params) /\ Went(m, S, chunks, step, d)
<1> DEFINE q == step.params
           n == Len(chunks)
           v == IF step.block = NoBlock THEN chunks ELSE SealedBefore(m, S, chunks, q)
           d == PlaceStep(m, S, chunks, step)
           k == Len(v)
           l == Len(d)
           b == Bytes(m, Last(v))
           f == FirstOf(m, S, v, q)
           total == Bytes(m, q)
           e == Append(chunks, <<>>)
           w == Bytes(m, Last(chunks))
           seals == step.block # NoBlock /\ w > 0 /\ total > S - w
<1>1. q \in Seq(Params(m)) /\ q # <<>> /\ NoRepeat(q) /\ ToSet(q) \cap In(chunks) = {}
  BY DEF StepType
<1>2. /\ e \in Chunks(m) /\ Sound(m, S, e) /\ In(e) = In(chunks)
      /\ Len(e) = n + 1 /\ Bytes(m, Last(e)) = 0 /\ ToSet(e[n + 1]) = {}
      /\ \A c \in 1..n : e[c] = chunks[c]
  BY SealSound
<1> HIDE DEF e
<1>3. v = IF seals THEN e ELSE chunks
  BY DEF SealedBefore, e
<1>4. n \in Nat \ {0} /\ w \in Nat /\ total \in Nat
  BY <1>1, ChunksAre, BytesIs
<1>5. d = Run(m, S, v, q)
  BY DEF PlaceStep, Run
<1> HIDE DEF v, d, q
<1>6. v \in Chunks(m) /\ Sound(m, S, v) /\ In(v) = In(chunks)
  BY <1>2, <1>3
<1>7. /\ d \in Chunks(m) /\ Sound(m, S, d) /\ Holds(v, q, Len(q), d)
      /\ Spread(m, S, v, q, Len(q), d) /\ FitsIn(m, S, v, q, Len(q), d)
  <2> DEFINE x == Run(m, S, v, q)
  <2> HIDE DEF k, l, b, f, n, w, total, seals
  <2>0. ToSet(q) \cap In(v) = {}
    BY <1>1, <1>6
  <2>1. /\ x \in Chunks(m) /\ Sound(m, S, x) /\ Holds(v, q, Len(q), x)
        /\ Spread(m, S, v, q, Len(q), x) /\ FitsIn(m, S, v, q, Len(q), x)
    BY <1>1, <1>6, <2>0, RunPlaced
  <2> QED BY <1>5, <2>1
<1>8. k \in Nat /\ l \in Nat /\ b \in Nat
  BY <1>6, <1>7, ChunksAre, BytesIs
<1>9. Len(q) \in Nat /\ Len(q) > 0
  BY <1>1, EmptySeq, LenProperties
<1> HIDE DEF n, w, total
<1>10. In(d) = In(chunks) \cup ToSet(q)
  <2>1. \A x : x \in In(d) <=> x \in In(v) \/ {x} \cap ToSet(q) # {}
    BY <1>1, <1>7, AllAmong DEF Holds
  <2>2. \A x : x \in In(d) <=> x \in In(v) \/ x \in ToSet(q)
    BY <2>1
  <2> QED BY <1>6, <2>2
<1>11. k <= l /\ \A x \in In(v) : \A c \in 1..l : x \in ToSet(d[c]) <=> c \in 1..k /\ x \in ToSet(v[c])
  BY <1>7 DEF Holds, Stays
<1>12. n <= k /\ (k = n \/ (k = n + 1 /\ seals)) /\ (seals => k = n + 1 /\ b = 0)
       /\ (~seals => k = n /\ b = w)
  <2> HIDE DEF seals
  <2> QED BY <1>2, <1>3, <1>4 DEF n, w
<1>13. Stays(chunks, d)
  <2>1. \A c \in 1..n : v[c] = chunks[c]
    BY <1>2, <1>3
  <2>2. k = n + 1 => ToSet(v[n + 1]) = {}
    <3>1. seals => ToSet(v[n + 1]) = {}
      BY <1>2, <1>3
    <3>2. k = n + 1 => seals
      BY <1>4, <1>12
    <3> QED BY <3>1, <3>2
  <2> HIDE DEF k, l
  <2>3. \A c : c \in 1..k <=> c \in 1..n \/ (c = n + 1 /\ k = n + 1)
    BY <1>4, <1>8, <1>12
  <2>4. n <= l
    BY <1>4, <1>8, <1>11, <1>12
  <2>5. \A x \in In(chunks) : \A c \in 1..l : x \in ToSet(d[c]) <=> c \in 1..n /\ x \in ToSet(chunks[c])
    BY <1>6, <1>11, <2>1, <2>2, <2>3
  <2> QED BY <2>4, <2>5 DEF Stays, n, l
<1>14. f \in n..l
  <2>1. f <= l
    BY <1>7, <1>9 DEF Spread
  <2>2. f \in {k, k + 1}
    BY DEF FirstOf
  <2> HIDE DEF f, k, l
  <2> QED BY <1>4, <1>8, <1>12, <2>1, <2>2
<1>15. Hits(d, ToSet(q)) = f..l
  <2>1. \A c \in 1..l : c >= f <=> ToSet(d[c]) \cap ToSet(q) # {}
    BY <1>1, <1>7, <1>9, AllAmong DEF Spread
  <2>2. Hits(d, ToSet(q)) = {c \in 1..l : ToSet(d[c]) \cap ToSet(q) # {}}
    BY DEF Hits
  <2> HIDE DEF f, l
  <2>3. \A c : c \in f..l <=> c \in 1..l /\ c >= f
    BY <1>4, <1>8, <1>14
  <2> QED BY <2>1, <2>2, <2>3
<1>16. ASSUME step.block # NoBlock, Fits(m, S, q) PROVE f = l
  <2>1. total <= S
    BY <1>16 DEF Fits, total
  <2>2. b + total <= S
    <3>1. seals <=> w > 0 /\ total > S - w
      BY <1>16
    <3> HIDE DEF seals, k, b
    <3> QED BY <1>4, <1>12, <2>1, <3>1
  <2>3. l = k
    BY <1>7, <2>2 DEF FitsIn, total
  <2>4. f \in {k, k + 1} /\ f <= l
    <3>1. f \in {k, k + 1}
      BY DEF FirstOf
    <3> HIDE DEF f, k, l
    <3> QED BY <1>4, <1>8, <1>14, <3>1
  <2> HIDE DEF f, k, l
  <2> QED BY <1>8, <2>3, <2>4
<1>17. Went(m, S, chunks, step, d)
  <2> HIDE DEF f
  <2> QED BY <1>14, <1>15, <1>16 DEF Went, q, n
<1> QED BY <1>7, <1>10, <1>13, <1>17 DEF d, q

-----------------------------------------------------------------------------
(* All the steps.                                                          *)

Interval(m, S, d, t) ==
    \E f, l \in 1..Len(d) :
       /\ f <= l /\ Hits(d, ToSet(t.params)) = f..l
       /\ t.block # NoBlock /\ Fits(m, S, t.params) => f = l

\* The steps up to the ith are placed, one after the other.
Laid(m, S, s, i, d) ==
    /\ Sound(m, S, d)
    /\ \A p : p \in In(d) <=> \E j \in 1..Len(s) : j <= i /\ p \in ToSet(s[j].params)
    /\ \A j \in 1..Len(s) : j <= i => Interval(m, S, d, s[j])
    /\ \A j, k \in 1..Len(s) : j < k /\ k <= i =>
          \A a \in Hits(d, ToSet(s[j].params)), b \in Hits(d, ToSet(s[k].params)) : a <= b

LEMMA HitsStay ==
    ASSUME NEW m, IsModel(m), NEW c \in Chunks(m), NEW d \in Chunks(m), Stays(c, d),
           NEW ps, ps \subseteq In(c)
    PROVE  Hits(d, ps) = Hits(c, ps)
<1> DEFINE n == Len(c)
           k == Len(d)
<1>1. n \in Nat /\ k \in Nat
  BY ChunksAre
<1>2. n <= k /\ \A x \in In(c) : \A i \in 1..k : x \in ToSet(d[i]) <=> i \in 1..n /\ x \in ToSet(c[i])
  BY DEF Stays
<1>3. Hits(d, ps) = {i \in 1..k : ToSet(d[i]) \cap ps # {}} /\ Hits(c, ps) = {i \in 1..n : ToSet(c[i]) \cap ps # {}}
  BY DEF Hits
<1> HIDE DEF n, k
<1>4. \A i \in 1..n : i \in 1..k
  BY <1>1, <1>2
<1>5. \A i : i \in Hits(d, ps) <=> i \in Hits(c, ps)
  BY <1>2, <1>3, <1>4
<1> QED BY <1>5

LEMMA LaidNext ==
    ASSUME NEW m, IsModel(m), NEW S \in Nat, NEW s \in Seq(StepType(m)), PlaceOnce(s),
           NEW i \in 1..Len(s), NEW c \in Chunks(m), Laid(m, S, s, i - 1, c)
    PROVE  Laid(m, S, s, i, PlaceStep(m, S, c, s[i]))
<1> DEFINE n == Len(s)
           t == s[i]
           d == PlaceStep(m, S, c, t)
           P(j) == ToSet(s[j].params)
<1>1. n \in Nat /\ t \in StepType(m) /\ \A j \in 1..n : s[j] \in StepType(m)
  BY PlacedIs
<1>2. /\ Sound(m, S, c)
      /\ \A p : p \in In(c) <=> \E j \in 1..n : j <= i - 1 /\ p \in P(j)
      /\ \A j \in 1..n : j <= i - 1 => Interval(m, S, c, s[j])
      /\ \A j, k \in 1..n : j < k /\ k <= i - 1 => \A a \in Hits(c, P(j)), b \in Hits(c, P(k)) : a <= b
  BY DEF Laid
<1>3. /\ t.params # <<>> /\ NoRepeat(t.params)
      /\ \A j \in 1..n : j # i => P(j) \cap P(i) = {}
  BY DEF PlaceOnce
<1> HIDE DEF n, P
<1>4. \A j \in 1..n : (j <= i <=> j <= i - 1 \/ j = i) /\ (j <= i - 1 => j # i)
  BY <1>1 DEF n
<1>5. P(i) \cap In(c) = {} /\ P(i) = ToSet(t.params)
  BY <1>2, <1>3, <1>4 DEF P
<1> HIDE DEF t
<1>6. /\ d \in Chunks(m) /\ Sound(m, S, d) /\ Stays(c, d)
      /\ In(d) = In(c) \cup P(i) /\ Went(m, S, c, t, d)
  <2>1. ToSet(t.params) \cap In(c) = {}
    BY <1>5
  <2>2. /\ d \in Chunks(m) /\ Sound(m, S, d) /\ Stays(c, d)
        /\ In(d) = In(c) \cup ToSet(t.params) /\ Went(m, S, c, t, d)
    BY <1>1, <1>2, <1>3, <2>1, StepPlaced
  <2> QED BY <1>5, <2>2
<1> HIDE DEF d
<1>7. Len(c) \in Nat \ {0} /\ Len(d) \in Nat /\ Len(c) <= Len(d)
  BY <1>6, ChunksAre DEF Stays
<1>8. \A j \in 1..n : j <= i - 1 => Hits(d, P(j)) = Hits(c, P(j))
  <2> SUFFICES ASSUME NEW j \in 1..n, j <= i - 1 PROVE Hits(d, P(j)) = Hits(c, P(j))
    OBVIOUS
  <2>1. P(j) \subseteq In(c)
    BY <1>2
  <2> QED BY <1>6, <2>1, HitsStay
<1>9. i \in 1..n
  BY DEF n
<1>10. \A p : p \in In(d) <=> \E j \in 1..n : j <= i /\ p \in P(j)
  BY <1>2, <1>4, <1>6, <1>9
<1>11. PICK f \in Len(c)..Len(d) :
          /\ Hits(d, P(i)) = f..Len(d)
          /\ t.block # NoBlock /\ Fits(m, S, t.params) => f = Len(d)
  BY <1>5, <1>6 DEF Went
<1>12. \A j \in 1..n : j <= i => Interval(m, S, d, s[j])
  <2> SUFFICES ASSUME NEW j \in 1..n, j <= i PROVE Interval(m, S, d, s[j])
    OBVIOUS
  <2>1. CASE j = i
    <3>1. f \in 1..Len(d) /\ Len(d) \in 1..Len(d) /\ f <= Len(d)
      BY <1>7
    <3>2. Interval(m, S, d, t)
      BY <1>5, <1>11, <3>1 DEF Interval
    <3> QED BY <2>1, <3>2 DEF t
  <2>2. CASE j <= i - 1
    <3>1. Hits(d, ToSet(s[j].params)) = Hits(c, ToSet(s[j].params))
      BY <1>8, <2>2 DEF P
    <3>2. Interval(m, S, c, s[j])
      BY <1>2, <2>2
    <3>3. \A a \in 1..Len(c) : a \in 1..Len(d)
      BY <1>7
    <3> QED BY <3>1, <3>2, <3>3 DEF Interval
  <2> QED BY <1>4, <2>1, <2>2
<1>13. ASSUME NEW j \in 1..n, NEW k \in 1..n, j < k, k <= i,
              NEW a \in Hits(d, P(j)), NEW b \in Hits(d, P(k))
       PROVE  a <= b
  <2>0. j <= i - 1 /\ i \in Nat
    <3>1. i \in Nat /\ j \in Nat /\ k \in Nat
      BY <1>1, <1>9
    <3> QED BY <1>13, <3>1
  <2>1. a \in Hits(c, P(j))
    BY <1>8, <2>0
  <2>2. CASE k <= i - 1
    <3>1. b \in Hits(c, P(k))
      BY <1>8, <2>2
    <3> QED BY <1>2, <1>13, <2>1, <2>2, <3>1
  <2>3. CASE k = i
    <3>1. a \in 1..Len(c)
      BY <2>1 DEF Hits
    <3>2. b \in f..Len(d) /\ f \in Len(c)..Len(d)
      BY <1>11, <2>3
    <3> QED BY <1>7, <3>1, <3>2
  <2> QED BY <1>4, <1>13, <2>2, <2>3
<1> QED BY <1>6, <1>10, <1>12, <1>13 DEF Laid, d, t, n, P

LEMMA LayoutIsLaid ==
    ASSUME NEW m, IsModel(m), NEW S \in Nat
    PROVE  /\ LayoutChunks(m, S) \in Chunks(m)
           /\ Laid(m, S, Steps(m), Len(Steps(m)), LayoutChunks(m, S))
<1> DEFINE q == Steps(m)
           e == <<<<>>>>
           F == LayoutOne(m, S)
           R == {a \in Nat \X Chunks(m) : Laid(m, S, q, a[1], a[2])}
           d == LayoutChunks(m, S)
<1>1. q \in Seq(StepType(m)) /\ PlaceOnce(q)
  BY StepsPlaceAll
<1> HIDE DEF q
<1>2. Len(q) \in Nat /\ \A j \in 1..Len(q) : q[j] \in StepType(m) /\ j \in Nat /\ ~(j <= 0)
  BY <1>1, PlacedIs
<1>3. e \in Chunks(m) /\ Len(e) = 1 /\ e[1] = <<>>
  <2>1. <<>> \in Seq(Params(m))
    BY EmptySeq
  <2> QED BY <2>1 DEF Chunks
<1>4. d = FoldLeft(LAMBDA cs, step : PlaceStep(m, S, cs, step), e, q)
  BY DEF LayoutChunks, q
<1> DEFINE z == <<>>
<1>5. LenSum(e) = 0
  <2> DEFINE o == <<>>
             P == Params(m)
  <2>1. o \in Seq(Seq(P)) /\ z \in Seq(P) /\ Len(z) = 0 /\ e = Append(o, z)
    BY EmptySeq, NothingListed
  <2>2. LenSum(o) = 0
    BY <2>1, LenSumIs
  <2> HIDE DEF o, z, e
  <2>3. LenSum(Append(o, z)) = LenSum(o) + Len(z)
    <3>1. o \in Seq(Seq(P)) /\ z \in Seq(P)
      BY <2>1
    <3> QED BY <3>1, LenSumIs
  <2> QED BY <2>1, <2>2, <2>3
<1>6. ToSet(z) = {} /\ Bytes(m, z) = 0 /\ e[1] = z
  BY <1>3, NothingListed, BytesIs, EmptySeq
<1> HIDE DEF e, d, z
<1>7. Foldable(Chunks(m), StepType(m), F, e, q) /\ d = Fold(F, e, q)
  BY <1>1, <1>3, <1>4, LayoutFold
<1>8. d \in Chunks(m)
  <2>1. Fold(F, e, q) \in Chunks(m)
    BY <1>7, FoldAlong
  <2> QED BY <1>7, <2>1
<1>9. <<0, e>> \in R
  <2>1. In(e) = {}
    BY <1>3, <1>6 DEF In
  <2>2. Sound(m, S, e)
    <3>1. LenSum(e) = Cardinality(In(e))
      BY <1>5, <2>1, FS_EmptySet
    <3>2. \A c \in 1..Len(e) : c = 1
      BY <1>3
    <3>3. \A c \in 1..Len(e) : Fits(m, S, e[c])
      BY <1>6, <3>2 DEF Fits
    <3> QED BY <3>1, <3>2, <3>3 DEF Sound
  <2>3. Laid(m, S, q, 0, e)
    <3>1. \A j, k \in 1..Len(q) : ~(j < k /\ k <= 0)
      BY <1>2
    <3> QED BY <1>2, <2>1, <2>2, <3>1 DEF Laid
  <2> QED BY <1>3, <2>3
<1>10. ASSUME NEW i \in 1..Len(q), NEW c \in Chunks(m), <<i - 1, c>> \in R
       PROVE  <<i, F[<<c, q[i]>>]>> \in R
  <2> DEFINE x == PlaceStep(m, S, c, q[i])
  <2>1. Laid(m, S, q, i - 1, c)
    BY <1>10
  <2>2. F[<<c, q[i]>>] = x /\ i \in Nat
    BY <1>2 DEF LayoutOne
  <2>3. Laid(m, S, q, i, x)
    BY <1>1, <2>1, LaidNext
  <2>4. x \in Chunks(m)
    <3>1. PICK t \in StepType(m) : t = q[i]
      BY <1>2
    <3> QED BY <3>1, PlaceStepTyped
  <2> HIDE DEF x, F
  <2> QED BY <2>2, <2>3, <2>4
<1>11. <<Len(q), d>> \in R
  <2> HIDE DEF R, F
  <2>1. KeepsIn(Chunks(m), F, q, R)
    BY <1>10 DEF KeepsIn
  <2> QED BY <1>7, <1>9, <2>1, FoldKeeps
<1>12. Laid(m, S, q, Len(q), d)
  BY <1>11
<1> QED BY <1>8, <1>12 DEF d, q

-----------------------------------------------------------------------------
(* What the layout promises.                                               *)

\* An interval of positions, as chunk ids.
LEMMA IdsOfInterval ==
    ASSUME NEW s, NEW f \in Nat \ {0}, NEW l \in Nat, f <= l,
           s = {i - 1 : i \in f..l}
    PROVE  s = Min(s)..Max(s) /\ (f = l => Cardinality(s) = 1)
<1>1. \A x : x \in s <=> x \in (f - 1)..(l - 1)
  <2>1. \A x \in s : x \in (f - 1)..(l - 1)
    OBVIOUS
  <2>2. \A x \in (f - 1)..(l - 1) : x + 1 \in f..l /\ x = (x + 1) - 1
    OBVIOUS
  <2> QED BY <2>1, <2>2
<1>2. s = (f - 1)..(l - 1) /\ f - 1 \in s /\ l - 1 \in s
  <2>1. f - 1 \in (f - 1)..(l - 1) /\ l - 1 \in (f - 1)..(l - 1)
    OBVIOUS
  <2> QED BY <1>1, <2>1
<1>3. Min(s) = f - 1
  <2> DEFINE x == Min(s)
  <2>1. \A y \in s : f - 1 <= y
    BY <1>2
  <2>2. x \in s /\ \A y \in s : x <= y
    BY <1>2, <2>1 DEF Min
  <2> HIDE DEF x
  <2>3. x \in (f - 1)..(l - 1) /\ x <= f - 1
    BY <1>2, <2>2
  <2>4. x = f - 1
    BY <2>3
  <2> QED BY <2>4 DEF x
<1>4. Max(s) = l - 1
  <2> DEFINE x == Max(s)
  <2>1. \A y \in s : l - 1 >= y
    BY <1>2
  <2>2. x \in s /\ \A y \in s : x >= y
    BY <1>2, <2>1 DEF Max
  <2> HIDE DEF x
  <2>3. x \in (f - 1)..(l - 1) /\ x >= l - 1
    BY <1>2, <2>2
  <2>4. x = l - 1
    BY <2>3
  <2> QED BY <2>4 DEF x
<1>5. f = l => Cardinality(s) = 1
  <2> SUFFICES ASSUME f = l PROVE Cardinality(s) = 1
    OBVIOUS
  <2>1. s = {f - 1}
    BY <1>2
  <2> QED BY <2>1, FS_Singleton
<1> QED BY <1>2, <1>3, <1>4, <1>5

\* Whatever the model and the chunk size, the layout keeps blocks together.
THEOREM LayoutKeeps ==
    ASSUME NEW m, IsModel(m), NEW S \in Nat
    PROVE  KeepsBlocks(m, S)
<1> DEFINE chunks == LayoutChunks(m, S)
           walk == Steps(m)
           n == Len(walk)
           P(i) == ToSet(walk[i].params)
           H(i) == Hits(chunks, P(i))
           O(i) == ChunksWith(chunks, P(i))
           of == [i \in DOMAIN walk |-> ChunksWith(chunks, ToSet(walk[i].params))]
           blocks == {i \in DOMAIN walk : walk[i].block # NoBlock}
<1>1. /\ walk \in Seq(StepType(m)) /\ Placed(walk) = Params(m)
      /\ n \in Nat /\ DOMAIN walk = 1..n
  BY StepsPlaceAll, LenProperties
<1>2. /\ chunks \in Chunks(m) /\ Sound(m, S, chunks)
      /\ \A p : p \in In(chunks) <=> \E j \in 1..n : j <= n /\ p \in P(j)
      /\ \A j \in 1..n : j <= n => Interval(m, S, chunks, walk[j])
      /\ \A j, k \in 1..n : j < k /\ k <= n => \A a \in H(j), b \in H(k) : a <= b
  BY LayoutIsLaid DEF Laid
<1>3. /\ Len(chunks) \in Nat /\ DOMAIN chunks = 1..Len(chunks)
      /\ \A p : p \in In(chunks) <=> \E c \in 1..Len(chunks) : p \in ToSet(chunks[c])
  BY <1>2, ChunksAre
<1>4. \A p : p \in Placed(walk) <=> \E i \in 1..n : p \in P(i)
  BY <1>1, PlacedIs
<1>5. \A i \in 1..n : O(i) = {c - 1 : c \in H(i)} /\ H(i) \subseteq 1..Len(chunks)
  BY <1>3 DEF ChunksWith, Hits
<1>6. \A i \in DOMAIN walk : of[i] = O(i)
  OBVIOUS
<1>7. KeepsBlocks(m, S) <=>
         /\ \A p \in Params(m) : Cardinality({c \in DOMAIN chunks : p \in ToSet(chunks[c])}) = 1
         /\ LenSum(chunks) = Len(m.size)
         /\ \A c \in DOMAIN chunks :
               ~Fits(m, S, chunks[c]) => Cardinality({p \in ToSet(chunks[c]) : m.size[p] > 0}) = 1
         /\ \A i \in blocks :
               /\ Fits(m, S, walk[i].params) => Cardinality(of[i]) = 1
               /\ of[i] = Min(of[i])..Max(of[i])
         /\ \A i, j, k \in blocks : i < j /\ j < k /\ of[i] \cap of[k] # {} => of[j] = of[i] \cap of[k]
  BY DEF KeepsBlocks, LenSum
<1> HIDE DEF chunks, walk, n, of
<1>8. In(chunks) = Params(m)
  <2>1. \A j \in 1..n : j <= n
    BY <1>1
  <2>2. \A p : p \in In(chunks) <=> p \in Placed(walk)
    BY <1>2, <1>4, <2>1
  <2> QED BY <1>1, <2>2
<1>9. ASSUME NEW p \in Params(m)
      PROVE  Cardinality({c \in DOMAIN chunks : p \in ToSet(chunks[c])}) = 1
  <2>1. PICK c \in 1..Len(chunks) : p \in ToSet(chunks[c])
    BY <1>3, <1>8
  <2>2. \A d \in 1..Len(chunks) : p \in ToSet(chunks[d]) => d = c
    BY <1>2, <2>1 DEF Sound
  <2>3. {d \in DOMAIN chunks : p \in ToSet(chunks[d])} = {c}
    BY <1>3, <2>1, <2>2
  <2> QED BY <2>3, FS_Singleton
<1>10. LenSum(chunks) = Len(m.size)
  BY <1>2, <1>8, ParamsFinite DEF Sound
<1>11. \A c \in DOMAIN chunks :
          ~Fits(m, S, chunks[c]) => Cardinality({p \in ToSet(chunks[c]) : m.size[p] > 0}) = 1
  BY <1>2, <1>3 DEF Sound
<1>12. ASSUME NEW i \in blocks
       PROVE  /\ Fits(m, S, walk[i].params) => Cardinality(of[i]) = 1
              /\ of[i] = Min(of[i])..Max(of[i])
  <2>1. i \in 1..n /\ walk[i].block # NoBlock /\ of[i] = O(i) /\ i <= n
    BY <1>1, <1>6
  <2>2. PICK f, l \in 1..Len(chunks) :
           /\ f <= l /\ H(i) = f..l
           /\ walk[i].block # NoBlock /\ Fits(m, S, walk[i].params) => f = l
    BY <1>2, <2>1 DEF Interval
  <2>a. O(i) = {c - 1 : c \in H(i)}
    BY <1>5, <2>1
  <2> HIDE DEF O, H
  <2>3. f \in Nat \ {0} /\ l \in Nat /\ O(i) = {c - 1 : c \in f..l}
    <3>1. f \in Nat \ {0} /\ l \in Nat
      BY <1>3
    <3> QED BY <2>2, <2>a, <3>1
  <2>4. O(i) = Min(O(i))..Max(O(i)) /\ (f = l => Cardinality(O(i)) = 1)
    BY <2>2, <2>3, IdsOfInterval
  <2> QED BY <2>1, <2>2, <2>4
<1>13. ASSUME NEW i \in blocks, NEW j \in blocks, NEW k \in blocks,
              i < j, j < k, of[i] \cap of[k] # {}
       PROVE  of[j] = of[i] \cap of[k]
  <2>1. /\ i \in 1..n /\ j \in 1..n /\ k \in 1..n /\ i < k
        /\ i <= n /\ j <= n /\ k <= n
        /\ of[i] = O(i) /\ of[j] = O(j) /\ of[k] = O(k)
    BY <1>1, <1>6, <1>13
  <2>2. /\ H(i) \subseteq 1..Len(chunks) /\ H(j) \subseteq 1..Len(chunks) /\ H(k) \subseteq 1..Len(chunks)
        /\ O(i) = {c - 1 : c \in H(i)} /\ O(j) = {c - 1 : c \in H(j)} /\ O(k) = {c - 1 : c \in H(k)}
    BY <1>5, <2>1
  <2>3. /\ \A a \in H(i), b \in H(j) : a <= b
        /\ \A a \in H(j), b \in H(k) : a <= b
        /\ \A a \in H(i), b \in H(k) : a <= b
    BY <1>2, <1>13, <2>1
  <2>4. PICK b \in 1..Len(chunks) : b \in H(j)
    <3>1. PICK f, l \in 1..Len(chunks) : f <= l /\ H(j) = f..l
      BY <1>2, <2>1 DEF Interval
    <3> QED BY <3>1
  <2> HIDE DEF O, H
  <2>5. \A x \in O(i) \cap O(k) : O(j) = {x} /\ x + 1 \in H(i) /\ x + 1 \in H(k)
    <3> SUFFICES ASSUME NEW x, x \in O(i), x \in O(k)
                 PROVE  O(j) = {x} /\ x + 1 \in H(i) /\ x + 1 \in H(k)
      OBVIOUS
    <3>1. PICK a \in H(i) : x = a - 1
      BY <2>2
    <3>2. PICK c \in H(k) : x = c - 1
      BY <2>2
    <3>3. a \in Nat /\ c \in Nat /\ a = c /\ x + 1 = a
      BY <2>2, <3>1, <3>2
    <3>4. \A d \in H(j) : d = a
      BY <2>2, <2>3, <3>1, <3>2, <3>3
    <3>5. H(j) = {a}
      BY <2>4, <3>4
    <3>6. O(j) = {x}
      BY <2>2, <3>1, <3>5
    <3> QED BY <3>1, <3>2, <3>3, <3>6
  <2>6. PICK x : x \in O(i) \cap O(k)
    BY <1>13, <2>1
  <2>7. \A y \in O(i) \cap O(k) : y = x
    BY <2>5, <2>6
  <2> QED BY <2>1, <2>5, <2>6, <2>7
<1> QED BY <1>7, <1>9, <1>10, <1>11, <1>12, <1>13

-----------------------------------------------------------------------------
(* What the runtime assumes of its layout.                                 *)

\* The step of a block has all its parameters, and comes after those of the
\* blocks before it.
InTurn(m, s) ==
    /\ \A j \in 1..Len(s) : s[j].block # NoBlock =>
          s[j].block \in DOMAIN m.spans /\ ToSet(s[j].params) = ToSet(m.spans[s[j].block])
    /\ \A j \in 1..Len(s) : s[j].block = NoBlock =>
          \A p \in ToSet(s[j].params) : Owner(m, p) = NoBlock
    /\ \A j \in 1..Len(s) : \A b \in DOMAIN m.spans :
          b < s[j].block => \E k \in 1..Len(s) : k < j /\ s[k].block = b

LEMMA BlockOf ==
    ASSUME NEW m, IsModel(m), SpansApart(m), NEW s, InTurn(m, s),
           NEW j \in 1..Len(s), NEW p \in ToSet(s[j].params),
           NEW b \in DOMAIN m.spans, p \in ToSet(m.spans[b])
    PROVE  s[j].block = b
<1>1. Owner(m, p) # NoBlock
  BY OwnerIs
<1>2. s[j].block # NoBlock
  BY <1>1 DEF InTurn
<1>3. s[j].block \in DOMAIN m.spans /\ p \in ToSet(m.spans[s[j].block])
  BY <1>2 DEF InTurn
<1> QED BY <1>3 DEF SpansApart

LEMMA VisitInTurn ==
    ASSUME NEW m, IsModel(m), SpansApart(m), InOrder(m),
           NEW s \in Seq(StepType(m)), InTurn(m, s),
           NEW i \in DOMAIN Visits(m),
           \A j \in DOMAIN Visits(m) : j < i => Visits(m)[j] \in Placed(s)
    PROVE  InTurn(m, Visit(m, s, i))
<1> DEFINE p == Visits(m)[i]
           b == Owner(m, p)
           ps == IF b = NoBlock THEN <<p>> ELSE Members(m, b, i, Placed(s))
           t == [block |-> b, params |-> ps]
           n == Len(s)
           r == Append(s, t)
<1>1. p \in Params(m) /\ i \in Nat \ {0}
  <2>1. Visits(m) \in Seq(Params(m)) /\ i \in 1..Len(Visits(m)) /\ Len(Visits(m)) \in Nat
    BY VisitsAre
  <2> QED BY <2>1, ElementOfSeq
<1>2. Visit(m, s, i) = IF p \in Placed(s) THEN s ELSE Append(s, t)
  BY DEF Visit
<1>3. n \in Nat /\ \A x : x \in Placed(s) <=> \E k \in 1..n : x \in ToSet(s[k].params)
  BY PlacedIs
<1>4. b \in Nat /\ t.block = b /\ t.params = ps
  BY OwnerIs
<1>5. ASSUME p \notin Placed(s) PROVE InTurn(m, r)
  <2>1. Len(r) = n + 1 /\ r[n + 1] = t /\ \A k \in 1..n : r[k] = s[k]
    <3> HIDE DEF t
    <3> QED BY AppendProperties
  <2>2. b # NoBlock => /\ b \in DOMAIN m.spans /\ p \in ToSet(m.spans[b])
                       /\ ToSet(ps) = ToSet(m.spans[b])
    <3> SUFFICES ASSUME b # NoBlock
                 PROVE  /\ b \in DOMAIN m.spans /\ p \in ToSet(m.spans[b])
                        /\ ToSet(ps) = ToSet(m.spans[b])
      OBVIOUS
    <3>1. b \in DOMAIN m.spans /\ p \in ToSet(m.spans[b])
      BY OwnerIs
    <3>2. ps = Members(m, b, i, Placed(s))
      OBVIOUS
    <3> HIDE DEF b, p, ps
    <3>3. ToSet(Members(m, b, i, Placed(s))) = ToSet(m.spans[b]) \ Placed(s)
      BY <1>1, <3>1, MembersAre
    <3>4. ASSUME NEW x \in ToSet(m.spans[b]), x \in Placed(s) PROVE FALSE
      <4>1. PICK k \in 1..n : x \in ToSet(s[k].params)
        BY <1>3, <3>4
      <4>2. s[k].block = b
        BY <3>1, <4>1, BlockOf
      <4>3. b \in Nat /\ b # 0
        BY <1>4 DEF NoBlock
      <4>4. ToSet(s[k].params) = ToSet(m.spans[b])
        BY <4>2 DEF InTurn
      <4> QED BY <1>3, <1>5, <3>1, <4>4
    <3> QED BY <3>1, <3>2, <3>3, <3>4
  <2>3. b = NoBlock => \A x \in ToSet(ps) : Owner(m, x) = NoBlock
    <3> SUFFICES ASSUME b = NoBlock PROVE \A x \in ToSet(ps) : Owner(m, x) = NoBlock
      OBVIOUS
    <3>1. ToSet(<<p>>) = {p}
      <4> DEFINE e == <<>>
      <4>1. e \in Seq(Params(m)) /\ ToSet(e) = {} /\ <<p>> = Append(e, p)
        BY EmptySeq, NothingListed
      <4> HIDE DEF e, p
      <4>2. ToSet(Append(e, p)) = ToSet(e) \cup {p}
        <5>1. e \in Seq(Params(m)) /\ p \in Params(m)
          BY <1>1, <4>1
        <5> QED BY <5>1, AppendSet
      <4> QED BY <4>1, <4>2
    <3>2. ps = <<p>>
      OBVIOUS
    <3> QED BY <3>1, <3>2
  <2>4. ASSUME NEW c \in DOMAIN m.spans, c < b
        PROVE  \E k \in 1..n : s[k].block = c
    <3>1. PICK j \in DOMAIN Visits(m) : j < i /\ Visits(m)[j] \in ToSet(m.spans[c])
      BY <2>4 DEF InOrder
    <3>2. PICK k \in 1..n : Visits(m)[j] \in ToSet(s[k].params)
      BY <1>3, <3>1
    <3> QED BY <3>1, <3>2, BlockOf
  <2> HIDE DEF t, b, p, ps, r
  <2>5. \A k \in 1..Len(r) : (k \in 1..n /\ r[k] = s[k]) \/ (k = n + 1 /\ r[k] = t)
    BY <1>3, <2>1
  <2>6. \A k \in 1..n : k \in 1..Len(r) /\ r[k] = s[k] /\ k < n + 1
    BY <1>3, <2>1
  <2>7. \A j \in 1..Len(r) : r[j].block # NoBlock =>
           r[j].block \in DOMAIN m.spans /\ ToSet(r[j].params) = ToSet(m.spans[r[j].block])
    <3> SUFFICES ASSUME NEW j \in 1..Len(r), r[j].block # NoBlock
                 PROVE  r[j].block \in DOMAIN m.spans /\ ToSet(r[j].params) = ToSet(m.spans[r[j].block])
      OBVIOUS
    <3>1. CASE j \in 1..n /\ r[j] = s[j]
      BY <3>1 DEF InTurn
    <3>2. CASE r[j] = t
      BY <1>4, <2>2, <3>2
    <3> QED BY <2>5, <3>1, <3>2
  <2>8. \A j \in 1..Len(r) : r[j].block = NoBlock =>
           \A x \in ToSet(r[j].params) : Owner(m, x) = NoBlock
    <3> SUFFICES ASSUME NEW j \in 1..Len(r), r[j].block = NoBlock
                 PROVE  \A x \in ToSet(r[j].params) : Owner(m, x) = NoBlock
      OBVIOUS
    <3>1. CASE j \in 1..n /\ r[j] = s[j]
      BY <3>1 DEF InTurn
    <3>2. CASE r[j] = t
      BY <1>4, <2>3, <3>2
    <3> QED BY <2>5, <3>1, <3>2
  <2>9. ASSUME NEW j \in 1..Len(r), NEW c \in DOMAIN m.spans, c < r[j].block
        PROVE  \E k \in 1..Len(r) : k < j /\ r[k].block = c
    <3>1. CASE j \in 1..n /\ r[j] = s[j]
      <4>1. PICK k \in 1..n : k < j /\ s[k].block = c
        BY <2>9, <3>1 DEF InTurn
      <4> QED BY <2>6, <4>1
    <3>2. CASE j = n + 1 /\ r[j] = t
      <4>1. PICK k \in 1..n : s[k].block = c
        BY <1>4, <2>4, <2>9, <3>2
      <4> QED BY <2>6, <3>2, <4>1
    <3> QED BY <2>5, <3>1, <3>2
  <2> QED BY <2>7, <2>8, <2>9 DEF InTurn
<1> QED BY <1>2, <1>5

LEMMA StepsInTurn ==
    ASSUME NEW m, IsModel(m), SpansApart(m), InOrder(m)
    PROVE  InTurn(m, Steps(m))
<1> DEFINE q == [i \in DOMAIN Visits(m) |-> i]
           F == VisitOne(m)
           V == Visits(m)
           R == {a \in Nat \X Seq(StepType(m)) :
                    /\ PlaceOnce(a[2]) /\ InTurn(m, a[2])
                    /\ \A j \in 1..Len(V) : j <= a[1] => V[j] \in Placed(a[2])}
<1>1. /\ Steps(m) \in Seq(StepType(m)) /\ Steps(m) = Fold(F, <<>>, q)
      /\ Foldable(Seq(StepType(m)), DOMAIN V, F, <<>>, q)
      /\ Len(q) = Len(V) /\ \A i \in 1..Len(q) : q[i] = i
  BY StepsAre
<1>2. DOMAIN V = 1..Len(V) /\ Len(V) \in Nat
  BY VisitsAre
<1> HIDE DEF q, V
<1>3. <<0, <<>>>> \in R
  <2>1. Len(<<>>) = 0 /\ <<>> \in Seq(StepType(m))
    BY NothingListed, EmptySeq
  <2>2. PlaceOnce(<<>>) /\ InTurn(m, <<>>)
    BY <2>1 DEF PlaceOnce, InTurn
  <2>3. \A j \in 1..Len(V) : ~(j <= 0)
    BY <1>2
  <2> DEFINE e == <<>>
  <2>4. e \in Seq(StepType(m)) /\ PlaceOnce(e) /\ InTurn(m, e)
    BY <2>1, <2>2
  <2> HIDE DEF e
  <2>5. <<0, e>> \in R
    BY <2>3, <2>4
  <2> QED BY <2>5 DEF e
<1>4. ASSUME NEW i \in 1..Len(q), NEW s \in Seq(StepType(m)), <<i - 1, s>> \in R
      PROVE  <<i, F[<<s, q[i]>>]>> \in R
  <2> DEFINE r == Visit(m, s, i)
  <2>1. i \in DOMAIN Visits(m) /\ q[i] = i /\ i \in 1..Len(V)
    BY <1>1, <1>2 DEF V
  <2>2. F[<<s, q[i]>>] = r
    BY <2>1 DEF VisitOne
  <2>3. PlaceOnce(s) /\ InTurn(m, s) /\ \A j \in 1..Len(V) : j <= i - 1 => V[j] \in Placed(s)
    BY <1>4
  <2>4. PlaceOnce(r) /\ V[i] \in Placed(r) /\ Placed(s) \subseteq Placed(r) /\ r \in Seq(StepType(m))
    BY <2>1, <2>3, VisitPlaces, VisitTyped DEF V
  <2>5. InTurn(m, r)
    <3>1. \A j \in 1..Len(V) : j < i => j <= i - 1
      BY <1>2, <2>1
    <3>2. \A j \in DOMAIN Visits(m) : j < i => Visits(m)[j] \in Placed(s)
      BY <1>2, <2>3, <3>1 DEF V
    <3> QED BY <2>1, <2>3, <3>2, VisitInTurn
  <2> HIDE DEF r, F
  <2>6. \A j \in 1..Len(V) : j <= i => j <= i - 1 \/ j = i
    BY <1>2
  <2>7. \A j \in 1..Len(V) : j <= i => V[j] \in Placed(r)
    BY <2>3, <2>4, <2>6
  <2>8. i \in Nat
    BY <1>2, <2>1
  <2> QED BY <2>2, <2>4, <2>5, <2>7, <2>8
<1>5. <<Len(q), Steps(m)>> \in R
  <2> HIDE DEF R, F
  <2>1. KeepsIn(Seq(StepType(m)), F, q, R)
    BY <1>4 DEF KeepsIn
  <2> QED BY <1>1, <1>3, <2>1, FoldKeeps
<1> QED BY <1>5

LEMMA BlockChunks ==
    ASSUME NEW m, IsModel(m), NEW S \in Nat, NEW b
    PROVE  ToSet(BlockToChunks(m, S, b)) = ChunksWith(LayoutChunks(m, S), ToSet(m.spans[b]))
<1> DEFINE d == LayoutChunks(m, S)
           T == ChunksWith(d, ToSet(m.spans[b]))
<1>1. Len(d) \in Nat /\ DOMAIN d = 1..Len(d)
  BY LayoutIsLaid, ChunksAre
<1> HIDE DEF d
<1>2. T \in SUBSET Nat /\ T \in SUBSET (0..Len(d))
  <2>1. \A i \in 1..Len(d) : i - 1 \in Nat /\ i - 1 \in 0..Len(d)
    BY <1>1
  <2> QED BY <1>1, <2>1 DEF ChunksWith
<1>3. IsFiniteSet(T)
  <2>1. 0 \in Int /\ Len(d) \in Int
    BY <1>1
  <2> HIDE DEF T
  <2>2. IsFiniteSet(0..Len(d))
    BY <2>1, FS_Interval
  <2> QED BY <1>2, <2>2, FS_Subset
<1> HIDE DEF T
<1>4. ToSet(Sorted(T)) = T
  BY <1>2, <1>3, SortedLists
<1>5. BlockToChunks(m, S, b) = Sorted(T)
  BY DEF BlockToChunks, T, d
<1> QED BY <1>4, <1>5 DEF T, d

\* The layout meets what the runtime assumes of it: blocks that share a chunk
\* share it with those between, and a chunk of no block is pinned.
THEOREM LayoutSuitsRuntime ==
    ASSUME NEW m, IsModel(m), NEW S \in Nat
    PROVE  SuitsRuntime(m, S)
<1> DEFINE Held(b) == ToSet(BlockToChunks(m, S, b))
<1> SUFFICES ASSUME SpansApart(m), InOrder(m)
             PROVE  /\ \A a, b, d \in DOMAIN m.spans : a < b /\ b < d =>
                          Held(a) \cap Held(d) \subseteq Held(b)
                    /\ \A c \in ChunksWith(LayoutChunks(m, S), Params(m))
                                 \ MandatoryPersistent(m, S) :
                          \E b \in DOMAIN m.spans : c \in Held(b)
  BY DEF SuitsRuntime
<1> DEFINE chunks == LayoutChunks(m, S)
           walk == Steps(m)
           n == Len(walk)
           O(b) == ChunksWith(chunks, ToSet(m.spans[b]))
           of == [i \in DOMAIN walk |-> ChunksWith(chunks, ToSet(walk[i].params))]
           blocks == {i \in DOMAIN walk : walk[i].block # NoBlock}
<1>1. /\ n \in Nat /\ DOMAIN walk = 1..n /\ InTurn(m, walk)
      /\ \A p \in Params(m) : \E k \in 1..n : p \in ToSet(walk[k].params)
  <2>1. walk \in Seq(StepType(m)) /\ Placed(walk) = Params(m)
    BY StepsPlaceAll
  <2> HIDE DEF walk
  <2> QED BY <2>1, PlacedIs, LenProperties, StepsInTurn DEF walk
<1>2. \A i, j, k \in blocks : i < j /\ j < k /\ of[i] \cap of[k] # {} => of[j] = of[i] \cap of[k]
  BY LayoutKeeps DEF KeepsBlocks
<1>3. \A b \in DOMAIN m.spans : b \in Nat \ {0} /\ ToSet(m.spans[b]) \subseteq Params(m)
  <2>1. m.spans \in Seq(Seq(Params(m)))
    BY DEF IsModel
  <2>2. \A b \in DOMAIN m.spans : b \in Nat \ {0} /\ m.spans[b] \in Seq(Params(m))
    BY <2>1, LenProperties, ElementOfSeq
  <2> QED BY <2>2, ToSetDef
<1>4. chunks \in Chunks(m) /\ DOMAIN chunks = 1..Len(chunks) /\ Len(chunks) \in Nat
  BY LayoutIsLaid, ChunksAre
<1>5. \A c, ps : c \in ChunksWith(chunks, ps) <=>
         \E l \in 1..Len(chunks) : c = l - 1 /\ ToSet(chunks[l]) \cap ps # {}
  BY <1>4 DEF ChunksWith
<1>6. \A i \in 1..n : of[i] = ChunksWith(chunks, ToSet(walk[i].params))
  BY <1>1
<1> HIDE DEF chunks, walk, n, of
<1>7. \A i \in blocks : /\ i \in 1..n /\ walk[i].block \in DOMAIN m.spans
                        /\ of[i] = O(walk[i].block)
  BY <1>1, <1>6 DEF InTurn
<1>8. ASSUME NEW a \in DOMAIN m.spans, NEW b \in DOMAIN m.spans, NEW d \in DOMAIN m.spans,
             a < b, b < d, NEW x \in O(a) \cap O(d)
      PROVE  x \in O(b)
  <2>1. PICK l \in 1..Len(chunks) : ToSet(chunks[l]) \cap ToSet(m.spans[d]) # {}
    BY <1>5
  <2>2. PICK p \in Params(m) : p \in ToSet(m.spans[d])
    BY <1>3, <2>1
  <2>3. PICK k \in 1..n : p \in ToSet(walk[k].params)
    BY <1>1
  <2>4. walk[k].block = d
    BY <1>1, <2>2, <2>3, BlockOf DEF n
  <2>5. PICK j \in 1..n : j < k /\ walk[j].block = b
    BY <1>1, <1>8, <2>4 DEF InTurn, n
  <2>6. PICK i \in 1..n : i < j /\ walk[i].block = a
    BY <1>1, <1>8, <2>5 DEF InTurn, n
  <2>7. i \in blocks /\ j \in blocks /\ k \in blocks
    BY <1>1, <1>3, <2>4, <2>5, <2>6 DEF NoBlock
  <2>8. of[i] = O(a) /\ of[j] = O(b) /\ of[k] = O(d)
    BY <1>7, <2>4, <2>5, <2>6, <2>7
  <2> HIDE DEF O, blocks
  <2> QED BY <1>2, <1>8, <2>5, <2>6, <2>7, <2>8
<1>9. ASSUME NEW c \in ChunksWith(chunks, Params(m)), c \notin MandatoryPersistent(m, S)
      PROVE  \E b \in DOMAIN m.spans : c \in O(b)
  <2>1. PICK l \in 1..Len(chunks) : c = l - 1 /\ ToSet(chunks[l]) \cap Params(m) # {}
    BY <1>5
  <2>2. PICK p \in Params(m) : p \in ToSet(chunks[l])
    BY <2>1
  <2>3. Owner(m, p) # NoBlock
    <3> SUFFICES ASSUME Owner(m, p) = NoBlock PROVE FALSE
      OBVIOUS
    <3>1. c \in ChunksWith(chunks, {x \in Params(m) : Owner(m, x) = NoBlock})
      BY <1>5, <2>1, <2>2
    <3> QED BY <1>9, <3>1 DEF MandatoryPersistent, chunks
  <2>4. Owner(m, p) \in DOMAIN m.spans /\ p \in ToSet(m.spans[Owner(m, p)])
    BY <2>3, OwnerIs
  <2>5. c \in O(Owner(m, p))
    BY <1>5, <2>1, <2>2, <2>4
  <2> QED BY <2>4, <2>5
<1>10. \A b : ToSet(BlockToChunks(m, S, b)) = O(b)
  BY BlockChunks DEF chunks
<1> HIDE DEF O
<1> QED BY <1>8, <1>9, <1>10 DEF chunks

-----------------------------------------------------------------------------
(* The modes of the blocks.                                                *)

\* The kth checkpointed block, counted from those that are swapped.
At(c, w, k) == ((2 * k + 1) * w) \div (2 * c)

LEMMA AtIs ==
    ASSUME NEW c \in Nat \ {0}, NEW w \in Nat, NEW k \in Nat
    PROVE  /\ At(c, w, k) \in Nat
           /\ (2 * c) * At(c, w, k) <= (2 * k + 1) * w
           /\ (2 * k + 1) * w < (2 * c) * At(c, w, k) + 2 * c
<1> DEFINE x == (2 * k + 1) * w
           n == 2 * c
           d == x \div n
<1>1. x \in Nat /\ n \in Nat \ {0}
  OBVIOUS
<1>2. At(c, w, k) = d
  BY DEF At
<1> HIDE DEF x, n
<1>3. d \in Int /\ x % n \in 0..(n - 1) /\ x = n * d + (x % n)
  BY <1>1, Divide
<1>4. d >= 0
  BY <1>1
<1> HIDE DEF d
<1>5. n * d \in Int
  BY <1>1, <1>3
<1>6. d \in Nat /\ n * d <= x /\ x < n * d + n
  BY <1>1, <1>3, <1>4, <1>5
<1> QED BY <1>2, <1>6 DEF x, n

\* Consecutive ones are as far apart as any others, give or take one.
LEMMA AtNext ==
    ASSUME NEW c \in Nat \ {0}, NEW w \in Nat, c <= w, NEW k \in Nat
    PROVE  /\ At(c, w, k) + 1 <= At(c, w, k + 1)
           /\ (2 * c) * (At(c, w, k + 1) - At(c, w, k) - 1) < 2 * w
           /\ 2 * w < (2 * c) * (At(c, w, k + 1) - At(c, w, k) + 1)
<1> DEFINE a == At(c, w, k)
           b == At(c, w, k + 1)
           x == (2 * k + 1) * w
           y == (2 * (k + 1) + 1) * w
           n == 2 * c
<1>1. a \in Nat /\ n * a <= x /\ x < n * a + n
  BY AtIs
<1>2. b \in Nat /\ n * b <= y /\ y < n * b + n
  <2>1. k + 1 \in Nat
    OBVIOUS
  <2> QED BY <2>1, AtIs
<1>3. y = x + 2 * w
  <2>1. 2 * (k + 1) + 1 = (2 * k + 1) + 2
    OBVIOUS
  <2> DEFINE h == 2 * k + 1
  <2>2. h \in Nat /\ 2 * (k + 1) + 1 = h + 2
    BY <2>1
  <2> HIDE DEF h
  <2>3. (h + 2) * w = h * w + 2 * w
    BY <2>2
  <2> QED BY <2>2, <2>3 DEF h
<1>4. x \in Nat /\ y \in Nat /\ n \in Nat \ {0} /\ n <= 2 * w
  OBVIOUS
<1>5. /\ n * (b - a - 1) = n * b - n * a - n
      /\ n * (b - a + 1) = n * b - n * a + n
      /\ n * a \in Nat /\ n * b \in Nat
  <2> HIDE DEF a, b, n
  <2> QED BY <1>1, <1>2, <1>4
<1> HIDE DEF a, b, n, x, y
<1>6. n * (b - a - 1) < 2 * w /\ 2 * w < n * (b - a + 1)
  BY <1>1, <1>2, <1>3, <1>4, <1>5
<1>7. a + 1 <= b
  <2>1. 0 < n * (b - a + 1) - n
    BY <1>4, <1>6, <1>5
  <2>2. 0 < n * (b - a)
    <3>1. n * (b - a) = n * (b - a + 1) - n
      BY <1>1, <1>2, <1>4
    <3> QED BY <2>1, <3>1
  <2>3. b - a <= 0 => n * (b - a) <= 0
    BY <1>1, <1>2, <1>4
  <2> QED BY <1>1, <1>2, <1>4, <2>2, <2>3
<1> QED BY <1>6, <1>7 DEF a, b, n

LEMMA AtOrder ==
    ASSUME NEW c \in Nat \ {0}, NEW w \in Nat, c <= w
    PROVE  /\ \A k, l \in Nat : k < l => At(c, w, k) < At(c, w, l)
           /\ \A k \in 0..(c - 1) : At(c, w, k) < w
<1>1. ASSUME NEW k \in Nat, NEW l \in Nat, k < l PROVE At(c, w, k) < At(c, w, l)
  <2> DEFINE a == At(c, w, k + 1)
             b == At(c, w, l)
             x == (2 * (k + 1) + 1) * w
             y == (2 * l + 1) * w
             n == 2 * c
  <2>1. At(c, w, k) + 1 <= a /\ At(c, w, k) \in Nat
    BY AtNext, AtIs
  <2>2. a \in Nat /\ n * a <= x
    <3>1. k + 1 \in Nat
      OBVIOUS
    <3> QED BY <3>1, AtIs
  <2>3. b \in Nat /\ y < n * b + n
    BY AtIs
  <2>4. x <= y /\ x \in Nat /\ y \in Nat /\ n \in Nat \ {0}
    <3>1. /\ 2 * (k + 1) + 1 <= 2 * l + 1 /\ 2 * (k + 1) + 1 \in Nat /\ 2 * l + 1 \in Nat
          /\ n \in Nat \ {0}
      BY <1>1
    <3> HIDE DEF n
    <3> QED BY <3>1
  <2> HIDE DEF a, b, x, y, n
  <2>5. n * a < n * b + n /\ n * b + n = n * (b + 1)
    BY <2>2, <2>3, <2>4
  <2>6. a < b + 1
    <3>1. b + 1 <= a => n * (b + 1) <= n * a
      BY <2>2, <2>3, <2>4
    <3> QED BY <2>2, <2>3, <2>4, <2>5, <3>1
  <2> QED BY <2>1, <2>2, <2>3, <2>6 DEF b
<1>2. ASSUME NEW k \in 0..(c - 1) PROVE At(c, w, k) < w
  <2> DEFINE a == At(c, w, k)
             x == (2 * k + 1) * w
             n == 2 * c
  <2>1. a \in Nat /\ n * a <= x
    BY AtIs
  <2>2. x < n * w
    <3>1. 2 * k + 1 < n /\ 2 * k + 1 \in Nat /\ n \in Nat /\ w > 0
      OBVIOUS
    <3> HIDE DEF n
    <3> DEFINE h == 2 * k + 1
    <3>2. h + 1 <= n /\ h \in Nat
      BY <3>1
    <3> HIDE DEF h
    <3>3. (h + 1) * w <= n * w /\ (h + 1) * w = h * w + w
      BY <3>1, <3>2
    <3> QED BY <3>1, <3>2, <3>3 DEF h
  <2>3. n \in Nat \ {0} /\ x \in Nat
    OBVIOUS
  <2> HIDE DEF a, x, n
  <2>4. w <= a => n * w <= n * a
    BY <2>1, <2>3
  <2> QED BY <2>1, <2>2, <2>3, <2>4 DEF a
<1> QED BY <1>1, <1>2

LEMMA PositionsAre ==
    ASSUME NEW s \in Nat, NEW c \in Nat, NEW N \in Nat, s + c <= N
    PROVE  LET C == CheckpointPositions(s, c, N) IN
           /\ C = {s + At(c, N - s, k) : k \in 0..(c - 1)}
           /\ C \subseteq s..(N - 1) /\ IsFiniteSet(C) /\ Cardinality(C) = c
           /\ \A k, l \in 0..(c - 1) : k < l <=> s + At(c, N - s, k) < s + At(c, N - s, l)
<1> DEFINE w == N - s
           D == 0..(c - 1)
           Pos(k) == s + At(c, w, k)
           C == CheckpointPositions(s, c, N)
           f == [k \in D |-> Pos(k)]
<1>1. C = {Pos(k) : k \in D}
  BY DEF CheckpointPositions, At
<1>2. w \in Nat /\ c <= w /\ \A k \in D : k \in Nat /\ c \in Nat \ {0}
  OBVIOUS
<1>3. \A k \in D : At(c, w, k) \in Nat /\ At(c, w, k) < w
  <2> HIDE DEF w
  <2> SUFFICES ASSUME NEW k \in D PROVE At(c, w, k) \in Nat /\ At(c, w, k) < w
    OBVIOUS
  <2>1. k \in Nat /\ c \in Nat \ {0}
    BY <1>2
  <2> QED BY <1>2, <2>1, AtIs, AtOrder
<1>4. \A k, l \in D : k < l => At(c, w, k) < At(c, w, l)
  <2> HIDE DEF w
  <2> SUFFICES ASSUME NEW k \in D, NEW l \in D, k < l PROVE At(c, w, k) < At(c, w, l)
    OBVIOUS
  <2>1. k \in Nat /\ l \in Nat /\ c \in Nat \ {0}
    BY <1>2
  <2> QED BY <1>2, <2>1, AtOrder
<1>5. \A k, l \in D : k < l <=> Pos(k) < Pos(l)
  <2> SUFFICES ASSUME NEW k \in D, NEW l \in D PROVE k < l <=> Pos(k) < Pos(l)
    OBVIOUS
  <2> DEFINE a == At(c, w, k)
             b == At(c, w, l)
  <2>1. a \in Nat /\ b \in Nat /\ (k < l => a < b) /\ (l < k => b < a) /\ (k = l => a = b)
    BY <1>3, <1>4
  <2> HIDE DEF a, b
  <2>2. k < l <=> s + a < s + b
    BY <2>1
  <2> QED BY <2>2 DEF a, b
<1>6. \A k \in D : Pos(k) \in s..(N - 1)
  <2> SUFFICES ASSUME NEW k \in D PROVE Pos(k) \in s..(N - 1)
    OBVIOUS
  <2> DEFINE a == At(c, w, k)
  <2>1. a \in Nat /\ a < N - s
    BY <1>3
  <2> HIDE DEF a
  <2>2. s + a \in s..(N - 1)
    BY <2>1
  <2> QED BY <2>2 DEF a
<1>7. C \subseteq s..(N - 1)
  <2> HIDE DEF Pos
  <2> QED BY <1>1, <1>6
<1>8. \A k, l \in D : Pos(k) = Pos(l) => k = l
  <2> SUFFICES ASSUME NEW k \in D, NEW l \in D, k # l PROVE Pos(k) # Pos(l)
    OBVIOUS
  <2>1. Pos(k) < Pos(l) \/ Pos(l) < Pos(k)
    <3>1. k < l \/ l < k
      OBVIOUS
    <3> QED BY <1>5, <3>1
  <2>2. Pos(k) \in Int /\ Pos(l) \in Int
    BY <1>6
  <2> HIDE DEF Pos
  <2> QED BY <2>1, <2>2
<1> HIDE DEF Pos, C
<1>9. f \in Surjection(D, C) /\ f \in Injection(D, C)
  <2>1. f \in [D -> C] /\ \A x \in C : \E k \in D : f[k] = x
    BY <1>1
  <2>2. \A k, l \in D : f[k] = f[l] => k = l
    BY <1>8
  <2> QED BY <2>1, <2>2 DEF Surjection, Injection, IsInjective
<1>10. IsFiniteSet(C) /\ Cardinality(C) = c
  <2>1. IsFiniteSet(D) /\ Cardinality(D) = c
    BY BelowCount
  <2> HIDE DEF D, f
  <2> QED BY <1>9, <2>1, FS_Surjection
<1> QED BY <1>1, <1>5, <1>7, <1>10 DEF C, Pos

Of(modes, mode) == {i \in DOMAIN modes : modes[i] = mode}
NextIn(C, i) == Min({j \in C : j > i})

LEMMA ModesAre ==
    ASSUME NEW s \in Nat, NEW c \in Nat, NEW o \in Nat, NEW N \in Nat, s + c + o <= N
    PROVE  /\ DOMAIN AssignModes(s, c, o, N) = 0..(N - 1)
           /\ Of(AssignModes(s, c, o, N), "CKPT") = CheckpointPositions(s, c, N)
           /\ Of(AssignModes(s, c, o, N), "SWAP") = 0..(s - 1)
           /\ Cardinality(Of(AssignModes(s, c, o, N), "OFFLOAD")) = o
<1> DEFINE C == CheckpointPositions(s, c, N)
           W == 0..(s - 1)
           B == 0..(N - 1)
           rest == B \ (W \cup C)
           First(i) == Cardinality({j \in rest : j < i}) < o
           modes == AssignModes(s, c, o, N)
<1>1. s + c <= N
  OBVIOUS
<1>2. C \subseteq s..(N - 1) /\ IsFiniteSet(C) /\ Cardinality(C) = c
  BY <1>1, PositionsAre
<1>3. modes = [i \in B \cup C |->
                 IF i \in C THEN "CKPT" ELSE IF i \in W THEN "SWAP"
                 ELSE IF First(i) THEN "OFFLOAD" ELSE "NONE"]
  BY DEF AssignModes
<1> HIDE DEF C, modes
<1>4. C \subseteq B /\ W \subseteq B /\ W \cap C = {} /\ B \cup C = B
  <2>1. \A x \in s..(N - 1) : x \in B /\ x \notin W
    OBVIOUS
  <2>2. \A x \in W : x \in B
    BY <1>1
  <2> QED BY <1>2, <2>1, <2>2
<1>5. IsFiniteSet(rest) /\ Cardinality(rest) = N - s - c /\ rest \in SUBSET Nat
  <2>1. IsFiniteSet(B) /\ Cardinality(B) = N /\ IsFiniteSet(W) /\ Cardinality(W) = s
    BY BelowCount
  <2>2. B \in SUBSET Nat
    OBVIOUS
  <2> HIDE DEF B, W
  <2>3. IsFiniteSet(W \cup C) /\ Cardinality(W \cup C) = s + c
    <3>1. IsFiniteSet(W \cup C) /\ Cardinality(W \cup C) = Cardinality(W) + Cardinality(C) - Cardinality(W \cap C)
      BY <1>2, <2>1, FS_Union
    <3>2. Cardinality(W \cap C) = 0
      BY <1>4, FS_EmptySet
    <3> QED BY <1>2, <2>1, <3>1, <3>2
  <2>4. B \cap (W \cup C) = W \cup C
    BY <1>4
  <2>5. IsFiniteSet(B \ (W \cup C)) /\ Cardinality(B \ (W \cup C)) = N - (s + c)
    <3>1. /\ IsFiniteSet(B \ (W \cup C))
          /\ Cardinality(B \ (W \cup C)) = Cardinality(B) - Cardinality(B \cap (W \cup C))
      BY <2>1, FS_Difference
    <3> QED BY <2>1, <2>3, <2>4, <3>1
  <2>6. N - (s + c) = N - s - c
    OBVIOUS
  <2>7. IsFiniteSet(rest) /\ Cardinality(rest) = N - s - c
    BY <2>5, <2>6
  <2>8. rest \in SUBSET Nat
    BY <2>2
  <2> QED BY <2>7, <2>8
<1> HIDE DEF B, W
<1>6. Cardinality({i \in rest : First(i)}) = o
  <2>1. o <= Cardinality(rest)
    <3>1. o <= N - s - c
      OBVIOUS
    <3> QED BY <1>5, <3>1
  <2> HIDE DEF rest
  <2> QED BY <1>5, <2>1, FirstOnes
<1> HIDE DEF First
<1>7. /\ DOMAIN modes = B /\ \A i \in B : i \in C => modes[i] = "CKPT"
      /\ \A i \in B : i \in W => modes[i] = "SWAP"
      /\ \A i \in rest : First(i) => modes[i] = "OFFLOAD"
      /\ \A i \in rest : ~First(i) => modes[i] = "NONE"
  BY <1>3, <1>4
<1>8. {i \in DOMAIN modes : modes[i] = "CKPT"} = C
  BY <1>4, <1>7
<1>9. {i \in DOMAIN modes : modes[i] = "SWAP"} = W
  BY <1>4, <1>7
<1>10. {i \in DOMAIN modes : modes[i] = "OFFLOAD"} = {i \in rest : First(i)}
  BY <1>4, <1>7
<1>11. /\ Of(modes, "CKPT") = C /\ Of(modes, "SWAP") = W
       /\ Cardinality(Of(modes, "OFFLOAD")) = o
  BY <1>6, <1>8, <1>9, <1>10 DEF Of
<1> QED BY <1>7, <1>11 DEF C, modes, W, B

\* The gap after a checkpointed block is that to the next.
LEMMA GapIs ==
    ASSUME NEW s \in Nat, NEW c \in Nat, NEW N \in Nat, s + c <= N,
           NEW i \in CheckpointPositions(s, c, N),
           i # Max(CheckpointPositions(s, c, N))
    PROVE  \E k \in Nat :
              /\ c # 0
              /\ NextIn(CheckpointPositions(s, c, N), i) - i
                    = At(c, N - s, k + 1) - At(c, N - s, k)
<1> DEFINE C == CheckpointPositions(s, c, N)
           w == N - s
           D == 0..(c - 1)
           Pos(k) == s + At(c, w, k)
           J == {j \in C : j > i}
<1>1. /\ C = {Pos(k) : k \in D} /\ C \subseteq s..(N - 1)
      /\ \A k, l \in D : k < l <=> Pos(k) < Pos(l)
  BY PositionsAre
<1>2. w \in Nat
  OBVIOUS
<1> HIDE DEF C, w
<1>3. PICK k \in D : i = Pos(k)
  BY <1>1 DEF C
<1>4. k \in Nat /\ c \in Nat \ {0} /\ k + 1 \in Nat
  OBVIOUS
<1>5. At(c, w, k) \in Nat /\ At(c, w, k + 1) \in Nat
  BY <1>2, <1>4, AtIs
<1>6. \A k1 \in D : Pos(k1) \in Int
  <2> SUFFICES ASSUME NEW k1 \in D PROVE Pos(k1) \in Int
    OBVIOUS
  <2>1. Pos(k1) \in C
    BY <1>1
  <2>2. \A x \in C : x \in Int
    BY <1>1
  <2> HIDE DEF Pos
  <2> QED BY <2>1, <2>2
<1> HIDE DEF Pos
<1>7. k + 1 \in D
  <2> SUFFICES ASSUME k + 1 \notin D PROVE FALSE
    OBVIOUS
  <2>1. \A l \in D : l < k \/ l = k
    OBVIOUS
  <2>2. \A y \in C : i >= y
    <3> SUFFICES ASSUME NEW l \in D PROVE i >= Pos(l)
      BY <1>1
    <3>1. Pos(l) < Pos(k) \/ Pos(l) = Pos(k)
      BY <1>1, <2>1
    <3> QED BY <1>3, <1>6, <3>1
  <2>3. i \in C
    BY DEF C
  <2>4. \A x \in C : (\A y \in C : x >= y) => x = i
    <3>1. \A x \in C : x \in Int
      BY <1>1
    <3> QED BY <2>2, <2>3, <3>1
  <2>5. Max(C) = i
    <3> DEFINE x == Max(C)
    <3>1. x \in C /\ \A y \in C : x >= y
      BY <2>2, <2>3 DEF Max
    <3> HIDE DEF x
    <3>2. x = i
      BY <2>4, <3>1
    <3> QED BY <3>2 DEF x
  <2> QED BY <2>5 DEF C
<1>8. Pos(k + 1) \in J /\ \A y \in J : Pos(k + 1) <= y
  <2>1. i < Pos(k + 1)
    <3>1. k < k + 1
      OBVIOUS
    <3> QED BY <1>1, <1>3, <1>7, <3>1
  <2>2. Pos(k + 1) \in J
    BY <1>1, <1>3, <1>6, <1>7, <2>1
  <2>3. ASSUME NEW l \in D, Pos(l) > i PROVE Pos(k + 1) <= Pos(l)
    <3>1. Pos(k) < Pos(l)
      BY <1>3, <1>6, <2>3
    <3>2. k < l
      BY <1>1, <3>1
    <3>3. k + 1 < l \/ k + 1 = l
      BY <3>2
    <3>4. Pos(k + 1) < Pos(l) \/ Pos(k + 1) = Pos(l)
      BY <1>1, <1>7, <3>3
    <3> QED BY <1>6, <1>7, <3>4
  <2> QED BY <1>1, <2>2, <2>3
<1>9. Min(J) = Pos(k + 1)
  <2> DEFINE x == Min(J)
  <2>1. x \in J /\ \A y \in J : x <= y
    BY <1>8 DEF Min
  <2>2. \A y \in J : y \in Int
    BY <1>1
  <2> HIDE DEF x, J
  <2>3. x = Pos(k + 1)
    BY <1>8, <2>1, <2>2
  <2> QED BY <2>3 DEF x
<1>10. Pos(k + 1) - i = At(c, w, k + 1) - At(c, w, k)
  BY <1>3, <1>5 DEF Pos
<1>11. NextIn(C, i) - i = At(c, w, k + 1) - At(c, w, k)
  BY <1>9, <1>10 DEF NextIn
<1> QED BY <1>4, <1>11 DEF C, w

\* Every request for modes is met to the number, the checkpointed blocks
\* evenly spread.
THEOREM ModesMet ==
    ASSUME NEW s \in Nat, NEW c \in Nat, NEW o \in Nat, NEW N \in Nat, s + c + o <= N
    PROVE  ModesAsAsked(s, c, o, N)
<1> DEFINE C == CheckpointPositions(s, c, N)
           w == N - s
           modes == AssignModes(s, c, o, N)
           ckpt == Of(modes, "CKPT")
           gaps == {NextIn(ckpt, i) - i : i \in ckpt \ {Max(ckpt)}}
<1>1. s + c <= N /\ w \in Nat /\ c <= w
  OBVIOUS
<1>2. /\ DOMAIN modes = 0..(N - 1) /\ ckpt = C /\ Of(modes, "SWAP") = 0..(s - 1)
      /\ Cardinality(Of(modes, "OFFLOAD")) = o
  BY ModesAre
<1>3. Cardinality(C) = c /\ Cardinality(0..(s - 1)) = s
  BY <1>1, PositionsAre, BelowCount
<1>4. ASSUME NEW g \in gaps
      PROVE  \E k \in Nat : c # 0 /\ g = At(c, w, k + 1) - At(c, w, k)
  <2>1. PICK i \in C : i # Max(C) /\ g = NextIn(C, i) - i
    BY <1>2
  <2>2. \E k \in Nat : c # 0 /\ NextIn(C, i) - i = At(c, w, k + 1) - At(c, w, k)
    BY <1>1, <2>1, GapIs
  <2> QED BY <2>1, <2>2
<1>5. ASSUME NEW g \in gaps, NEW h \in gaps PROVE g - h <= 1
  <2>1. PICK k \in Nat : c # 0 /\ g = At(c, w, k + 1) - At(c, w, k)
    BY <1>4
  <2>2. PICK l \in Nat : h = At(c, w, l + 1) - At(c, w, l)
    BY <1>4
  <2>3. k + 1 \in Nat /\ l + 1 \in Nat /\ c \in Nat \ {0}
    BY <2>1
  <2> HIDE DEF w, gaps
  <2>4. /\ At(c, w, k) \in Nat /\ At(c, w, k + 1) \in Nat
        /\ At(c, w, l) \in Nat /\ At(c, w, l + 1) \in Nat
    BY <1>1, <2>3, AtIs
  <2>5. g \in Int /\ h \in Int
    BY <2>1, <2>2, <2>4
  <2>6. (2 * c) * (g - 1) < 2 * w /\ 2 * w < (2 * c) * (h + 1)
    BY <1>1, <2>1, <2>2, <2>3, AtNext
  <2> DEFINE n == 2 * c
  <2>7. n \in Nat \ {0} /\ 2 * w \in Nat
    BY <1>1, <2>3
  <2> HIDE DEF n
  <2>8. n * (g - 1) < n * (h + 1)
    <3> DEFINE a == n * (g - 1)
               b == n * (h + 1)
    <3>1. a \in Int /\ b \in Int /\ a < 2 * w /\ 2 * w < b
      BY <2>5, <2>6, <2>7 DEF n
    <3> HIDE DEF a, b
    <3>2. a < b
      BY <2>7, <3>1
    <3> QED BY <3>2 DEF a, b
  <2>9. g - 1 < h + 1
    BY <2>5, <2>7, <2>8, ProductOrder
  <2> QED BY <2>5, <2>9
<1>6. ModesAsAsked(s, c, o, N) <=>
         /\ DOMAIN modes = 0..(N - 1)
         /\ Cardinality(Of(modes, "SWAP")) = s
         /\ Cardinality(ckpt) = c
         /\ Cardinality(Of(modes, "OFFLOAD")) = o
         /\ c > 0 => \A g, h \in gaps : g - h <= 1
  BY DEF ModesAsAsked, Of, NextIn
<1> HIDE DEF gaps, modes, ckpt
<1> QED BY <1>2, <1>3, <1>5, <1>6

-----------------------------------------------------------------------------
(* The runtime on its layout.                                              *)

\* The layout a run starts from keeps the parameters of each block in one
\* chunk or in consecutive ones, gives the blocks between two that share a
\* chunk that chunk, and gives as many blocks each mode as were asked for: for
\* all models, sizes and requests, if the runtime runs on a layout at all.
THEOREM LayoutKeepsBlocksHolds ==
    ASSUME RunsOnLayout
    PROVE  Spec => []LayoutKeepsBlocks
<1>1. \A m \in Models \cup {Model} : KeepsBlocks(m, SChunk) /\ SuitsRuntime(m, SChunk)
  BY LayoutAssumption, LayoutKeeps, LayoutSuitsRuntime
<1>2. ModesMeetRequest
  <2> SUFFICES ASSUME NEW N \in BlockCounts, NEW swap \in 0..N, NEW ckpt \in 0..(N - swap),
                      NEW offload \in 0..(N - swap - ckpt)
               PROVE  ModesAsAsked(swap, ckpt, offload, N)
    BY DEF ModesMeetRequest
  <2>1. /\ N \in Nat /\ swap \in Nat /\ ckpt \in Nat /\ offload \in Nat
        /\ swap + ckpt + offload <= N
    BY LayoutAssumption
  <2> QED BY <2>1, ModesMet
<1>3. LayoutKeepsBlocks
  BY <1>1, <1>2 DEF LayoutKeepsBlocks
<1> QED BY <1>3, PTL

\* The chunk size that pick_S_chunk chooses wastes least of all candidates in
\* the layout that build_layout makes with it, and is the smallest that does.
THEOREM LeastWasteHolds == Spec => []LeastWaste
<1>1. \A m \in Models : WastesLeast(m, Candidates)
  BY LayoutAssumption, SearchWastesLeast
<1>2. LeastWaste
  BY <1>1 DEF LeastWaste
<1> QED BY <1>2, PTL
=============================================================================
