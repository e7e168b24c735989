-------------------------- MODULE ChunkRuntimeProofs --------------------------
(***************************************************************************)
(* Proofs about the chunk runtime, for every layout that keeps chunks in   *)
(* neighbouring blocks, every pool at the floor or above it, and any       *)
(* number of micro-batches, steps, saved-tensor views and failed updates:  *)
(* the runtime uses the pool as a client of BufferPool, a block computes   *)
(* on its own chunks, the floor suffices, and every chunk is stepped once. *)
(***************************************************************************)
EXTENDS ChunkRuntime, SequenceLemmas, TLAPS

-----------------------------------------------------------------------------
(* The inductive invariant: who is leased, pinned and pending.             *)

Ahead  == IF blk < NBlocks THEN OwnedBy(blk + 1) ELSE {}
Behind == IF blk > 1 THEN OwnedBy(blk - 1) ELSE {}

\* The chunks of the calls that are still to come.
Ops == {"gather", "offload", "reduce", "launch"}
Call == [op : Ops, c : Chunk]
ChunksIn(calls) == {calls[i].c : i \in 1..Len(calls)}
Pending == ChunksIn(todo)
OpAt(a) ==
    IF a \in {"ahead", "run"} THEN "gather"
    ELSE IF a = "launch" THEN "reduce"
    ELSE IF a = "wait" THEN "launch" ELSE "offload"

Types ==
    /\ slotData \in [Slot -> [chunk : Chunk \cup {NoChunk}, ver : Nat]]
    /\ largeData \in [Large -> Nat] /\ master \in [Chunk -> Nat]
    /\ active \subseteq Chunk \ Persistent /\ deferred \subseteq Chunk
    /\ bound \in [Chunk -> Slot \cup {InLarge, Placeholder, OnCpu}]
    /\ refcount \in [Chunk -> 0..MaxHandles]
    /\ queue \in Seq(Chunk) /\ working \in Chunk \cup {NoChunk} /\ failed \subseteq Chunk
    /\ ready \subseteq Chunk
    /\ sharded \in BOOLEAN /\ blk \in Block
    /\ micro \in 1..MicroBatches /\ steps \in 0..MaxSteps
    /\ todo \in Seq(Call)

\* Where the training thread is, and what it may still call there.
Position ==
    /\ \/ phase = "forward" /\ at \in {"pre", "run", "post"}
       \/ phase = "backward" /\ at \in {"pre", "ahead", "run", "post"}
       \/ phase = "step" /\ at \in {"sweep", "launch", "wait", "done"}
    /\ \A i \in 1..Len(todo) : todo[i].op = OpAt(at)
    /\ at \in {"pre", "sweep"} => todo = <<>>
    /\ err \in {"none", "adam"}
    /\ err = "adam" => at = "wait"

\* The chunks leased: those of the block and of its neighbour, before those
\* that are only waiting to be offloaded or unpinned.
ForwardLeases ==
    phase = "forward" =>
        /\ at = "pre" => active \subseteq IF blk = 1 THEN {} ELSE OwnedBy(blk)
        /\ at = "run" => /\ active \cup (Pending \ Persistent) \subseteq OwnedBy(blk) \cup Ahead
                         /\ OwnedBy(blk) \subseteq active \cup Pending
        /\ at = "post" => active \subseteq Ahead \cup Pending

BackwardLeases ==
    phase = "backward" =>
        /\ at = "pre" => active \subseteq OwnedBy(blk)
        /\ at = "ahead" => /\ active \cup (Pending \ Persistent) \subseteq OwnedBy(blk)
                           /\ OwnedBy(blk) \subseteq active \cup Pending
        /\ at = "run" => /\ active \cup (Pending \ Persistent) \subseteq OwnedBy(blk) \cup Behind
                         /\ OwnedBy(blk) \subseteq active
        /\ at = "post" => active \subseteq Behind \cup Pending \cup deferred

StepLeases == phase = "step" => active = {}

\* A pinned chunk is one of the block's, and only a pinned one is deferred.
Pins ==
    /\ \A c \in Chunk : refcount[c] > 0 =>
          c \in active /\ c \in OwnedBy(blk) /\ phase = "backward" /\ at \in {"run", "post"}
    /\ \A c \in deferred : refcount[c] > 0 /\ at = "post"

\* The worker has something to do only while the step waits for it, and only
\* what it has to do has its parameters on the CPU.
Worker ==
    /\ at # "wait" => queue = <<>> /\ working = NoChunk /\ failed = {}
    /\ \A c \in Chunk : bound[c] = OnCpu => c \in ToSet(queue) \cup {working} \cup failed

\* The parameters of a leased chunk are in its buffer, and every slot holds
\* the chunk it is tagged with.
Contents ==
    /\ \A c \in active : bound[c] = BufferOf(c)
    /\ \A c \in Chunk \ Large : tagSlot[c] # NoSlot => slotData[tagSlot[c]].chunk = c

LInv ==
    /\ Types /\ Position /\ ForwardLeases /\ BackwardLeases /\ StepLeases
    /\ Pins /\ Worker /\ Contents

-----------------------------------------------------------------------------
(* The inductive invariant: gradients and steps.                           *)

Own(c) == {b \in Block : c \in OwnedBy(b)}
Stepped == Trainable \ Persistent

\* The blocks this backward pass has been through, and those whose parameter
\* in c has its gradient.
Passed == {b \in Block : phase = "backward" /\ (b > blk \/ (b = blk /\ at = "post"))}
Fired(c) == {b \in Own(c) \cap Passed : <<b, c>> \notin due}

Owed ==
    /\ due \subseteq Block \X Chunk
    /\ \A b \in Block, c \in Chunk :
          <<b, c>> \in due => b \in Passed /\ c \in OwnedBy(b) /\ c \in Trainable

\* A replicated chunk's counter is what it still waits for, and it is ready
\* from its last gradient to the launch.
Replicated ==
    ~sharded =>
        /\ \A c \in Stepped : remaining[c] =
              IF Fired(c) = Own(c) THEN GradInitial(c) ELSE GradInitial(c) - Cardinality(Fired(c))
        /\ gpuGrads = {}
        /\ ready = IF at \in {"wait", "done"} THEN {}
                   ELSE {c \in Stepped : micro > 1 \/ phase = "step" \/ Fired(c) = Own(c)}

\* A sharded chunk holds gradients on the GPU from its first one to the sweep,
\* which makes it ready and re-arms its counter.
Sharded ==
    sharded =>
        /\ \A c \in Stepped \ gpuGrads : remaining[c] = GradInitial(c)
        /\ \A c \in Stepped : remaining[c] <= GradInitial(c)
        /\ gpuGrads \subseteq Stepped
        /\ phase # "step" => gpuGrads = {c \in Stepped : micro > 1 \/ Fired(c) # {}}
        /\ at = "sweep" => gpuGrads = Stepped
        /\ at = "launch" => gpuGrads \subseteq Pending
        /\ at \in {"wait", "done"} => gpuGrads = {}
        /\ ready = IF at = "launch" THEN Stepped \ gpuGrads ELSE {}

Counters ==
    /\ remaining \in [Chunk -> Nat]
    /\ \A c \in Chunk \ Stepped : remaining[c] = 0
    /\ phase = "step" => micro = 1

\* The chunks the current step has yet to update, or will never.
Unstepped == IF at = "wait" THEN Pending \cup ToSet(queue) \cup ({working} \cap Chunk) \cup failed
             ELSE IF at = "done" THEN {} ELSE Stepped

Versions ==
    /\ \A c \in Chunk \ Stepped : master[c] = 0
    /\ Unstepped \subseteq Stepped
    /\ \A c \in Stepped : master[c] = IF c \in Unstepped THEN steps ELSE steps + 1

\* A chunk is in one place at a time between its launch and its update.
OneAtATime ==
    at = "wait" => /\ NoRepeat(todo) /\ NoRepeat(queue)
                   /\ Pending \cap (ToSet(queue) \cup {working} \cup failed) = {}
                   /\ ToSet(queue) \cap ({working} \cup failed) = {}
                   /\ working \notin failed

\* The copies on the GPU are never ahead of the last step.
Copies ==
    /\ \A s \in Slot : slotData[s].ver <= MaxSteps + 1
    /\ \A c \in Large : largeData[c] <= MaxSteps + 1

GInv == Owed /\ Replicated /\ Sharded /\ Counters /\ Versions /\ OneAtATime /\ Copies

-----------------------------------------------------------------------------
(* The calls of a hook.                                                    *)

\* A list of calls of op, for the chunks of S.
CallsFor(q, op, S) ==
    /\ q \in Seq(Call)
    /\ ChunksIn(q) = S
    /\ \A i \in 1..Len(q) : q[i].op = op

LEMMA CallsFacts ==
    ASSUME NEW op \in Ops, NEW cs \in Seq(Chunk)
    PROVE  /\ CallsFor(Calls(op, cs), op, ToSet(cs))
           /\ Len(Calls(op, cs)) = Len(cs)
           /\ \A i \in 1..Len(cs) : Calls(op, cs)[i].c = cs[i]
<1> DEFINE q == Calls(op, cs)
           D == 1..Len(cs)
<1>1. Len(cs) \in Nat /\ \A i \in D : cs[i] \in Chunk
  BY LenProperties, ElementOfSeq
<1>2. q = [i \in D |-> [op |-> op, c |-> cs[i]]]
  BY DEF Calls
<1>3. \A i \in D : [op |-> op, c |-> cs[i]] \in Call
  BY <1>1 DEF Call
<1>4. q \in [D -> Call] /\ DOMAIN q = D
  <2> HIDE DEF q
  <2> QED BY <1>2, <1>3
<1>5. q \in Seq(Call)
  <2> HIDE DEF q
  <2> QED BY <1>1, <1>4, SeqDef
<1> HIDE DEF q
<1>6. Len(q) = Len(cs)
  BY <1>1, <1>4, <1>5, LenProperties
<1>7. \A i \in D : q[i].op = op /\ q[i].c = cs[i]
  BY <1>2 DEF q
<1>8. \A x : x \in ToSet(cs) <=> \E i \in 1..Len(cs) : cs[i] = x
  BY ToSetDef
<1>9. ChunksIn(q) = {q[i].c : i \in D}
  BY <1>6 DEF ChunksIn
<1>10. \A x : x \in ToSet(cs) <=> \E i \in D : cs[i] = x
  BY <1>8
<1> HIDE DEF D
<1>11. ChunksIn(q) = ToSet(cs)
  BY <1>7, <1>9, <1>10
<1>12. CallsFor(q, op, ToSet(cs))
  BY <1>5, <1>6, <1>7, <1>11 DEF CallsFor, D
<1> QED BY <1>6, <1>7, <1>12 DEF q, D

LEMMA ConcatCalls ==
    ASSUME NEW op, NEW A, NEW B, NEW s, NEW t, CallsFor(s, op, A), CallsFor(t, op, B)
    PROVE  CallsFor(s \o t, op, A \cup B)
<1>0. /\ s \in Seq(Call) /\ \A i \in 1..Len(s) : s[i].op = op
      /\ t \in Seq(Call) /\ \A i \in 1..Len(t) : t[i].op = op
      /\ ChunksIn(s) = A /\ ChunksIn(t) = B
  BY DEF CallsFor
<1> DEFINE r == s \o t
<1>1. /\ r \in Seq(Call) /\ Len(r) = Len(s) + Len(t) /\ Len(s) \in Nat /\ Len(t) \in Nat
      /\ \A i \in 1..(Len(s) + Len(t)) : r[i] = IF i <= Len(s) THEN s[i] ELSE t[i - Len(s)]
  BY <1>0, ConcatProperties, LenProperties
<1> HIDE DEF r
<1>2. \A i \in 1..Len(r) : \/ i \in 1..Len(s) /\ r[i] = s[i]
                           \/ i - Len(s) \in 1..Len(t) /\ r[i] = t[i - Len(s)]
  BY <1>1
<1>3. \A i \in 1..Len(s) : i \in 1..Len(r) /\ r[i] = s[i]
  BY <1>1
<1>4. \A i \in 1..Len(t) : i + Len(s) \in 1..Len(r) /\ r[i + Len(s)] = t[i]
  <2> SUFFICES ASSUME NEW i \in 1..Len(t)
               PROVE  i + Len(s) \in 1..Len(r) /\ r[i + Len(s)] = t[i]
    OBVIOUS
  <2>1. i + Len(s) \in 1..Len(r) /\ ~ (i + Len(s) <= Len(s)) /\ (i + Len(s)) - Len(s) = i
    BY <1>1
  <2> QED BY <2>1, <1>1
<1>5. ASSUME NEW x PROVE x \in ChunksIn(r) <=> x \in ChunksIn(s) \cup ChunksIn(t)
  <2>1. x \in ChunksIn(r) <=> \E i \in 1..Len(r) : r[i].c = x
    BY DEF ChunksIn
  <2>2. x \in ChunksIn(s) <=> \E i \in 1..Len(s) : s[i].c = x
    BY DEF ChunksIn
  <2>3. x \in ChunksIn(t) <=> \E i \in 1..Len(t) : t[i].c = x
    BY DEF ChunksIn
  <2>4. ASSUME NEW i \in 1..Len(r), r[i].c = x PROVE x \in ChunksIn(s) \cup ChunksIn(t)
    BY <2>4, <2>2, <2>3, <1>2
  <2>5. ASSUME NEW i \in 1..Len(s), s[i].c = x PROVE x \in ChunksIn(r)
    BY <2>5, <2>1, <1>3
  <2>6. ASSUME NEW i \in 1..Len(t), t[i].c = x PROVE x \in ChunksIn(r)
    BY <2>6, <2>1, <1>4
  <2> QED BY <2>1, <2>2, <2>3, <2>4, <2>5, <2>6
<1>6. \A i \in 1..Len(r) : r[i].op = op
  BY <1>0, <1>2
<1>7. ChunksIn(r) = A \cup B
  BY <1>0, <1>5
<1> QED BY <1>1, <1>6, <1>7 DEF r, CallsFor

LEMMA NoCalls == ChunksIn(<<>>) = {} /\ \A op : CallsFor(<<>>, op, {})
<1>1. <<>> \in Seq(Call) /\ Len(<<>>) = 0
  BY EmptySeq
<1>2. ChunksIn(<<>>) = {}
  BY <1>1 DEF ChunksIn
<1> QED BY <1>1, <1>2 DEF CallsFor

\* One call made: its chunk was pending, and the others are still.
LEMMA CallMade ==
    ASSUME NEW q \in Seq(Call), q # <<>>
    PROVE  /\ Tail(q) \in Seq(Call)
           /\ Len(q) \in Nat /\ Len(Tail(q)) = Len(q) - 1
           /\ 1 \in 1..Len(q) /\ Head(q) = q[1]
           /\ \A i \in 1..Len(Tail(q)) : i + 1 \in 1..Len(q) /\ Tail(q)[i] = q[i + 1]
           /\ ChunksIn(q) = {q[1].c} \cup ChunksIn(Tail(q))
<1>1. /\ Tail(q) \in Seq(Call) /\ Len(Tail(q)) = Len(q) - 1
      /\ \A i \in 1..Len(Tail(q)) : Tail(q)[i] = q[i + 1]
  BY HeadTailProperties
<1>2. Len(q) \in Nat \ {0}
  BY EmptySeq
<1>3. Head(q) = q[1]
  OBVIOUS
<1> DEFINE r == Tail(q)
<1> HIDE DEF r
<1>4. /\ Len(r) = Len(q) - 1
      /\ \A i \in 1..Len(r) : i + 1 \in 1..Len(q) /\ r[i] = q[i + 1]
  BY <1>1, <1>2 DEF r
<1>5. \A i \in 1..Len(q) : i = 1 \/ (i - 1 \in 1..Len(r) /\ r[i - 1] = q[i])
  <2> SUFFICES ASSUME NEW i \in 1..Len(q), i # 1
               PROVE  i - 1 \in 1..Len(r) /\ r[i - 1] = q[i]
    OBVIOUS
  <2>1. i - 1 \in 1..Len(r) /\ (i - 1) + 1 = i
    BY <1>2, <1>4
  <2> QED BY <2>1, <1>4
<1>6. 1 \in 1..Len(q)
  BY <1>2
<1>7. ChunksIn(q) = {q[1].c} \cup ChunksIn(r)
  BY <1>4, <1>5, <1>6 DEF ChunksIn
<1> QED BY <1>1, <1>2, <1>3, <1>4, <1>6, <1>7 DEF r

-----------------------------------------------------------------------------
(* The floor: a block and its successor fit in the pool together.          *)

Window(b) == OwnedBy(b) \cup IF b < NBlocks THEN OwnedBy(b + 1) ELSE {}

LEMMA OwnedByType == \A b \in Block : OwnedBy(b) \subseteq Chunk \ Persistent
<1> SUFFICES ASSUME NEW b \in Block PROVE OwnedBy(b) \subseteq Chunk \ Persistent
  OBVIOUS
<1>1. ChunksOf[b] \in Seq(Chunk)
  BY RuntimeAssumption
<1>2. ToSet(ChunksOf[b]) \subseteq Chunk
  BY <1>1, ToSetDef
<1> QED BY <1>2 DEF OwnedBy

LEMMA WindowFits ==
    /\ NBuffer \in Nat \ {0}
    /\ \A b \in Block : IsFiniteSet(Window(b)) /\ Cardinality(Window(b)) <= NBuffer
<1> DEFINE S == {1} \cup {Cardinality(Window(b)) : b \in Block}
<1>1. MinBuffer = Max(S)
  BY DEF MinBuffer, Window
<1>2. \A b \in Block : Window(b) \subseteq Chunk
  <2> SUFFICES ASSUME NEW b \in Block PROVE Window(b) \subseteq Chunk
    OBVIOUS
  <2>1. b < NBlocks => b + 1 \in Block
    BY RuntimeAssumption DEF Block
  <2> QED BY <2>1, OwnedByType DEF Window
<1>3. IsFiniteSet(Chunk) /\ Cardinality(Chunk) \in Nat
  BY RuntimeAssumption, FS_CardinalityType
<1>4. \A b \in Block : /\ IsFiniteSet(Window(b)) /\ Cardinality(Window(b)) \in Nat
                       /\ Cardinality(Window(b)) <= Cardinality(Chunk)
  BY <1>2, <1>3, FS_Subset, FS_CardinalityType
<1>5. S \in SUBSET Nat /\ 1 \in S
  BY <1>4
<1>6. \A x \in S : x <= Cardinality(Chunk) + 1
  BY <1>3, <1>4
<1>7. /\ \A b \in Block : Cardinality(Window(b)) \in S
      /\ Cardinality(Chunk) + 1 \in Nat
  BY <1>3
<1> HIDE DEF S
<1>8. Max(S) \in S /\ \A x \in S : Max(S) >= x
  BY <1>5, <1>6, <1>7, MaxIsMax
<1>9. NBuffer \in Nat /\ NBuffer >= Max(S)
  BY <1>1, RuntimeAssumption
<1>10. \A x \in S : x <= NBuffer
  <2> SUFFICES ASSUME NEW x \in S PROVE x <= NBuffer
    OBVIOUS
  <2>1. Max(S) \in Nat /\ x \in Nat /\ Max(S) >= x
    BY <1>5, <1>8
  <2> QED BY <2>1, <1>9
<1>11. 1 <= NBuffer
  BY <1>5, <1>10
<1> QED BY <1>4, <1>7, <1>9, <1>10, <1>11

-----------------------------------------------------------------------------
(* The pool, with the active chunks as its one client's leases.            *)

P == INSTANCE BufferPoolProofs WITH Client <- {"manager"}, holders <- Holders

LEMMA Parameters == P!PoolAssumption
<1>1. NBuffer \in Nat \ {0}
  BY WindowFits
<1>2. P!IsFiniteSet({"manager"})
  <2>1. IsFiniteSet({"manager"})
    BY FS_Singleton
  <2> QED BY <2>1 DEF IsFiniteSet, P!IsFiniteSet
<1> QED BY <1>1, <1>2, RuntimeAssumption DEF P!PoolAssumption

LEMMA PoolStep == P!IInv /\ [P!Next]_(P!vars) => P!IInv'
BY Parameters, P!StepIInv

LEMMA PoolInit == P!Init => P!IInv
BY Parameters, P!InitIInv

\* The two copies of the pool, of this module and of its proofs, are one.
LEMMA SamePool ==
    /\ P!Init <=> Pool!Init
    /\ [P!Next]_(P!vars) <=> [Pool!Next]_(Pool!vars)
    /\ P!TypeOK <=> Pool!TypeOK
    /\ \A c : P!Acquire(c) <=> Pool!Acquire(c)
    /\ \A c : P!AcquireIfResident(c) <=> Pool!AcquireIfResident(c)
    /\ \A c : P!AcquireRefused(c) <=> Pool!AcquireRefused(c)
    /\ \A c : P!Release(c) <=> Pool!Release(c)
    /\ \A c : P!Resident(c) <=> Pool!Resident(c)
    /\ \A c : P!Leased(c) <=> Pool!Leased(c)
<1>1. P!Init <=> Pool!Init
  BY DEF P!Init, Pool!Init, P!Slot, Pool!Slot
<1>2. \A c : P!LeaseLarge(c) <=> Pool!LeaseLarge(c)
  BY DEF P!LeaseLarge, Pool!LeaseLarge
<1>3. \A s : P!TakeOffFree(s) <=> Pool!TakeOffFree(s)
  BY DEF P!TakeOffFree, Pool!TakeOffFree, P!RemoveAt, Pool!RemoveAt,
         P!FreeSlots, Pool!FreeSlots, P!ToSet, Pool!ToSet
<1>4. \A c : P!LeaseHit(c) <=> Pool!LeaseHit(c)
  BY <1>3 DEF P!LeaseHit, Pool!LeaseHit
<1>5. \A c : P!LeaseMiss(c) <=> Pool!LeaseMiss(c)
  BY DEF P!LeaseMiss, Pool!LeaseMiss
<1>6. \A c : P!Acquire(c) <=> Pool!Acquire(c)
  BY <1>2, <1>4, <1>5 DEF P!Acquire, Pool!Acquire
<1>7. \A c : P!Resident(c) <=> Pool!Resident(c)
  BY DEF P!Resident, Pool!Resident
<1>8. \A c : P!AcquireIfResident(c) <=> Pool!AcquireIfResident(c)
  BY <1>2, <1>4, <1>7 DEF P!AcquireIfResident, Pool!AcquireIfResident
<1>9. \A c : P!Leased(c) <=> Pool!Leased(c)
  BY DEF P!Leased, Pool!Leased
<1>10. \A c : P!Release(c) <=> Pool!Release(c)
  BY <1>9 DEF P!Release, Pool!Release, P!ReleaseLarge, Pool!ReleaseLarge,
              P!ReleaseSlot, Pool!ReleaseSlot
<1>11. \A c : P!AcquireRefused(c) <=> Pool!AcquireRefused(c)
  BY DEF P!AcquireRefused, Pool!AcquireRefused
<1>12. \A k, c : /\ P!ClientAcquire(k, c) <=> Pool!ClientAcquire(k, c)
                 /\ P!ClientProbe(k, c) <=> Pool!ClientProbe(k, c)
                 /\ P!ClientRelease(k, c) <=> Pool!ClientRelease(k, c)
  BY <1>6, <1>8, <1>10
     DEF P!ClientAcquire, Pool!ClientAcquire, P!ClientProbe, Pool!ClientProbe,
         P!ClientRelease, Pool!ClientRelease
<1>13. \A c : P!Invalidate(c) <=> Pool!Invalidate(c)
  BY DEF P!Invalidate, Pool!Invalidate, P!InvalidateTag, Pool!InvalidateTag
<1>14. P!ClosePool <=> Pool!ClosePool
  BY DEF P!ClosePool, Pool!ClosePool, P!Close, Pool!Close, P!Slot, Pool!Slot
<1>15. P!Next <=> Pool!Next
  BY <1>12, <1>13, <1>14 DEF P!Next, Pool!Next
<1>16. P!vars = Pool!vars
  BY DEF P!vars, Pool!vars, P!pool, Pool!pool
<1>17. P!vars' = Pool!vars'
  BY DEF P!vars, Pool!vars, P!pool, Pool!pool
<1>18. P!TypeOK <=> Pool!TypeOK
  BY DEF P!TypeOK, Pool!TypeOK, P!Slot, Pool!Slot
<1> QED BY <1>1, <1>6, <1>7, <1>8, <1>9, <1>10, <1>11, <1>15, <1>16, <1>17, <1>18

\* What the pool's invariant says of the manager's leases.
LEMMA PoolFacts ==
    ASSUME P!IInv, active \subseteq Chunk
    PROVE  /\ \A c \in Chunk : tagSlot[c] \in Slot \cup {NoSlot}
           /\ \A c \in active \ Large :
                  tagSlot[c] \in Slot /\ tagSlot[c] # NoSlot /\ leases[tagSlot[c]] = 1
           /\ \A c \in (Chunk \ Large) \ active :
                  tagSlot[c] # NoSlot => leases[tagSlot[c]] = 0
           /\ \A c \in active \cap Large : largeLeases[c] = 1
           /\ \A c \in Large \ active : largeLeases[c] = 0
           /\ \A c \in Chunk : tagSlot[c] # NoSlot => tags[tagSlot[c]] = c
           /\ \A c \in Chunk \ active : ~P!Leased(c)
<1>1. /\ \A c \in Chunk : tagSlot[c] \in Slot \cup {NoSlot}
      /\ \A c \in Chunk : tagSlot[c] # NoSlot => tags[tagSlot[c]] = c
      /\ leases \in [Slot -> Nat] /\ largeLeases \in [Large -> Nat]
  BY DEF P!IInv, P!TypeOK, P!TagIndex, P!Slot, Slot
<1>2. /\ \A c \in active : P!Cardinality(Holders[c]) = 1
      /\ \A c \in Chunk \ active : P!Cardinality(Holders[c]) = 0
  <2>1. Cardinality({"manager"}) = 1 /\ Cardinality({}) = 0
    BY FS_Singleton, FS_EmptySet
  <2>2. \A S : P!Cardinality(S) = Cardinality(S)
    BY DEF P!Cardinality, Cardinality
  <2>3. \A c \in Chunk : Holders[c] = IF c \in active THEN {"manager"} ELSE {}
    BY DEF Holders
  <2> QED BY <2>1, <2>2, <2>3
<1>3. \A c \in Chunk :
        P!Cardinality(Holders[c]) =
            IF c \in Large THEN largeLeases[c]
            ELSE IF tagSlot[c] = NoSlot THEN 0 ELSE leases[tagSlot[c]]
  BY DEF P!IInv, P!LeasesConserved
<1>4. NoSlot \notin Slot
  BY RuntimeAssumption DEF Slot
<1>5. Large \subseteq Chunk
  BY RuntimeAssumption
<1> QED BY <1>1, <1>2, <1>3, <1>4, <1>5 DEF P!Leased

\* A miss finds a free slot whenever the chunks leased, and the one to come,
\* are chunks of a block and its successor.
LEMMA NotRefused ==
    ASSUME P!IInv, active \subseteq Chunk, closed = FALSE, NEW b \in Block,
           active \subseteq Window(b), NEW c \in Window(b), c \notin active, c \in Chunk
    PROVE  ~Pool!AcquireRefused(c)
<1> SUFFICES ASSUME c \notin Large, free = <<>> PROVE FALSE
  BY SamePool DEF P!AcquireRefused
<1>1. \A s \in Slot : leases[s] # 0
  <2>1. P!FreeSlots = {}
    BY DEF P!FreeSlots, P!ToSet
  <2> QED BY <2>1 DEF P!IInv, P!FreeIffUnleased, P!Slot, Slot
<1>2. \A s \in Slot : tags[s] \in Chunk \ Large /\ tagSlot[tags[s]] = s
  <2>1. leases \in [Slot -> Nat] /\ NoChunk \notin Chunk
    BY RuntimeAssumption DEF P!IInv, P!TypeOK, P!Slot, Slot
  <2>2. \A s \in Slot : leases[s] > 0
    BY <1>1, <2>1
  <2>3. \A s \in Slot : tags[s] \in Chunk \ Large
    BY <2>2 DEF P!IInv, P!LeasedIsTagged, P!Slot, Slot
  <2> QED BY <2>1, <2>3 DEF P!IInv, P!TagIndex, P!Slot, Slot
<1>3. \A s \in Slot : tags[s] \in active
  <2>1. NoSlot \notin Slot
    BY RuntimeAssumption DEF Slot
  <2> QED BY <1>1, <1>2, <2>1, PoolFacts
<1> DEFINE W == Window(b) \ {c}
           f == [s \in Slot |-> tags[s]]
<1>4. IsFiniteSet(W) /\ Cardinality(W) = Cardinality(Window(b)) - 1
  BY WindowFits, FS_RemoveElement
<1>5. f \in Injection(Slot, W)
  BY <1>2, <1>3 DEF Injection, IsInjective
<1> HIDE DEF f, W
<1>6. Cardinality(Slot) <= Cardinality(W)
  BY <1>4, <1>5, FS_Injection
<1>7. Cardinality(Slot) = NBuffer
  <2>1. NBuffer \in Nat \ {0}
    BY WindowFits
  <2> QED BY <2>1, FS_Interval DEF Slot
<1>8. Cardinality(Window(b)) <= NBuffer /\ Cardinality(Window(b)) \in Nat /\ NBuffer \in Nat
  BY WindowFits, FS_CardinalityType
<1> QED BY <1>4, <1>6, <1>7, <1>8

-----------------------------------------------------------------------------
(* The manager's two calls of the pool.                                    *)

Ready == Types /\ Contents /\ P!IInv /\ closed = FALSE

\* Steps that leave the pool, the data and the active set alone.
LEMMA Untouched ==
    ASSUME Ready, UNCHANGED <<poolVars, dataVars, active>>
    PROVE  P!IInv' /\ closed' = FALSE /\ Contents' /\ [P!Next]_(P!vars)
<1>1. UNCHANGED P!vars
  BY DEF poolVars, P!vars, P!pool, Holders
<1>2. Contents'
  BY DEF Ready, Contents, BufferOf, poolVars, dataVars
<1> QED BY <1>1, <1>2, PoolStep DEF Ready, poolVars

\* A lease added for the manager is an acquire or a probe of the pool.
LEMMA ManagerAcquires ==
    ASSUME Ready, NEW c \in Chunk, c \notin active, active' = active \cup {c},
           Pool!Acquire(c) \/ Pool!AcquireIfResident(c)
    PROVE  /\ P!Next /\ P!IInv' /\ closed' = FALSE
           /\ P!LeaseLarge(c) \/ P!LeaseHit(c) \/ P!LeaseMiss(c)
<1>1. P!Acquire(c) \/ P!AcquireIfResident(c)
  BY SamePool
<1>2. "manager" \notin Holders[c]
  BY DEF Holders
<1>3. Holders' = [Holders EXCEPT ![c] = @ \cup {"manager"}]
  BY DEF Holders
<1>4. P!ClientAcquire("manager", c) \/ P!ClientProbe("manager", c)
  BY <1>1, <1>2, <1>3 DEF P!ClientAcquire, P!ClientProbe
<1>5. P!Next
  BY <1>4 DEF P!Next
<1>6. closed' = closed
  BY <1>1 DEF P!Acquire, P!AcquireIfResident
<1> QED BY <1>1, <1>5, <1>6, PoolStep DEF P!Acquire, P!AcquireIfResident, Ready

\* Where the slots are after an acquire: everybody else's stay put.
LEMMA SlotsAfterAcquire ==
    ASSUME Ready, NEW c \in Chunk,
           P!LeaseLarge(c) \/ P!LeaseHit(c) \/ P!LeaseMiss(c)
    PROVE  /\ c \in Large \/ tagSlot'[c] \in Slot
           /\ \A d \in (active \ Large) \ {c} : tagSlot'[d] = tagSlot[d]
           /\ \A d \in (Chunk \ Large) \ {c} :
                 tagSlot'[d] # NoSlot => /\ tagSlot'[d] = tagSlot[d]
                                         /\ c \notin Large => tagSlot'[d] # tagSlot'[c]
           /\ ~Pool!Resident(c) \/ tagSlot' = tagSlot
<1>0. active \subseteq Chunk /\ NoSlot \notin Slot
  BY RuntimeAssumption DEF Ready, Types, Slot
<1>1. CASE P!LeaseLarge(c)
  BY <1>1 DEF P!LeaseLarge
<1>2. CASE P!LeaseHit(c)
  <2>1. tagSlot' = tagSlot /\ tagSlot[c] \in Slot /\ tagSlot[c] # NoSlot /\ c \notin Large
    BY <1>2, <1>0, PoolFacts DEF P!LeaseHit, Ready
  <2>2. ASSUME NEW d \in (Chunk \ Large) \ {c}, tagSlot'[d] # NoSlot
        PROVE  tagSlot[d] # tagSlot[c]
    BY <1>0, <2>1, <2>2, PoolFacts DEF Ready
  <2> QED BY <2>1, <2>2
<1>3. CASE P!LeaseMiss(c)
  <2> DEFINE s == Head(free)
  <2>1. free \in Seq(Slot) /\ free # <<>> /\ c \notin Large /\ tagSlot[c] = NoSlot
    BY <1>3 DEF P!LeaseMiss, Ready, P!IInv, P!TypeOK, P!Slot, Slot
  <2>2. s \in Slot /\ Len(free) >= 1 /\ free[1] = s
    <3>1. Len(free) \in Nat \ {0}
      BY <2>1, EmptySeq
    <3> QED BY <2>1, <3>1, HeadTailProperties
  <2>3. leases[s] = 0
    <3>1. s \in P!FreeSlots
      <4>1. DOMAIN free = 1..Len(free) /\ 1 \in 1..Len(free)
        <5>1. Len(free) \in Nat /\ DOMAIN free = 1..Len(free)
          BY <2>1, LenProperties
        <5> QED BY <5>1, <2>2
      <4> QED BY <4>1, <2>2 DEF P!FreeSlots, P!ToSet
    <3> QED BY <3>1 DEF Ready, P!IInv, P!FreeIffUnleased
  <2>4. \A d \in Chunk : tagSlot'[d] = IF d = c THEN s
                              ELSE IF d = tags[s] THEN NoSlot ELSE tagSlot[d]
    BY <1>3 DEF P!LeaseMiss
  <2> HIDE DEF s
  <2>5. ASSUME NEW d \in (active \ Large) \ {c} PROVE d # tags[s]
    <3>1. /\ tagSlot[d] \in Slot /\ leases[tagSlot[d]] = 1 /\ d \in Chunk
          /\ tags[tagSlot[d]] = d /\ tagSlot[d] # NoSlot
      BY <1>0, PoolFacts DEF Ready
    <3>2. NoChunk \notin Chunk
      BY RuntimeAssumption
    <3>3. tags[s] = d => tagSlot[d] = s
      BY <2>2, <3>1, <3>2 DEF Ready, P!IInv, P!TagIndex, P!Slot, Slot
    <3> QED BY <2>3, <3>1, <3>3
  <2>6. ASSUME NEW d \in (Chunk \ Large) \ {c}, tagSlot'[d] # NoSlot
        PROVE  tagSlot'[d] = tagSlot[d] /\ tagSlot'[d] # tagSlot'[c]
    <3>1. d # tags[s] /\ tagSlot'[d] = tagSlot[d] /\ tagSlot'[c] = s
      BY <2>4, <2>6
    <3>2. tags[tagSlot[d]] = d
      BY <1>0, <2>6, <3>1, PoolFacts DEF Ready
    <3> QED BY <3>1, <3>2
  <2>7. ~Pool!Resident(c)
    BY <2>1 DEF Pool!Resident
  <2> QED BY <1>0, <2>1, <2>2, <2>4, <2>5, <2>6, <2>7
<1> QED BY <1>1, <1>2, <1>3

\* gather, whichever way it goes: the chunk is active, its parameters point
\* into its buffer, and nobody else's buffer is touched.
LEMMA Fetched ==
    ASSUME Ready, NEW c \in Chunk, Fetch(c), NEW b \in Block,
           active \subseteq Window(b), c \in Window(b)
    PROVE  /\ err' = err /\ active' = active \cup {c}
           /\ [P!Next]_(P!vars) /\ P!IInv' /\ closed' = FALSE
           /\ slotData' \in [Slot -> [chunk : Chunk \cup {NoChunk}, ver : Nat]]
           /\ largeData' \in [Large -> Nat]
           /\ bound' = [bound EXCEPT ![c] = BufferOf(c)']
           /\ BufferOf(c)' \in Slot \cup {InLarge}
           /\ Contents'
<1>0. /\ active \subseteq Chunk /\ NoSlot \notin Slot
      /\ bound \in [Chunk -> Slot \cup {InLarge, Placeholder, OnCpu}]
      /\ slotData \in [Slot -> [chunk : Chunk \cup {NoChunk}, ver : Nat]]
      /\ largeData \in [Large -> Nat]
      /\ \A d \in active : bound[d] = BufferOf(d)
      /\ \A d \in Chunk \ Large : tagSlot[d] # NoSlot => slotData[tagSlot[d]].chunk = d
  <2>1. NoSlot \notin Slot
    BY RuntimeAssumption DEF Slot
  <2> QED BY <2>1 DEF Ready, Types, Contents
<1>1. CASE c \in active
  <2>1. /\ UNCHANGED <<poolVars, slotData, largeData, active, err>>
        /\ bound' = [bound EXCEPT ![c] = BufferOf(c)]
    BY <1>1 DEF Fetch, IsActive
  <2>2. BufferOf(c)' = BufferOf(c)
    BY <2>1 DEF BufferOf, poolVars
  <2>3. bound' = bound
    BY <1>0, <1>1, <2>1
  <2>4. UNCHANGED <<poolVars, dataVars, active>>
    BY <2>1, <2>3 DEF dataVars
  <2>5. c \in Large \/ tagSlot[c] \in Slot
    BY <1>0, <1>1, PoolFacts DEF Ready
  <2>6. BufferOf(c)' \in Slot \cup {InLarge}
    BY <2>1, <2>5 DEF BufferOf, poolVars
  <2> QED BY <1>0, <1>1, <2>1, <2>2, <2>4, <2>6, Untouched
<1>2. CASE c \notin active
  <2>0. ~Pool!AcquireRefused(c) \/ Pool!Resident(c)
    BY <1>0, <1>2, NotRefused DEF Ready
  <2>1. /\ Pool!Acquire(c) \/ Pool!AcquireIfResident(c)
        /\ active' = active \cup {c} /\ err' = err
        /\ bound' = [bound EXCEPT ![c] = IF c \in Large THEN InLarge ELSE tagSlot'[c]]
        /\ \/ Pool!Resident(c) /\ UNCHANGED <<slotData, largeData>>
           \/ CopyIn(c, tagSlot'[c])
    <3>1. CASE Pool!AcquireIfResident(c) /\ bound' = [bound EXCEPT ![c] = BufferOf(c)]
               /\ active' = active \cup {c} /\ UNCHANGED <<slotData, largeData, err>>
      <4>1. Pool!Resident(c)
        BY <3>1 DEF Pool!AcquireIfResident
      <4>2. P!LeaseLarge(c) \/ P!LeaseHit(c)
        BY <3>1, SamePool DEF P!AcquireIfResident
      <4>3. tagSlot' = tagSlot
        BY <4>2 DEF P!LeaseLarge, P!LeaseHit
      <4> QED BY <3>1, <4>1, <4>3 DEF BufferOf
    <3>2. CASE Pool!Acquire(c) /\ active' = active \cup {c} /\ CopyIn(c, tagSlot'[c])
               /\ bound' = [bound EXCEPT ![c] = IF c \in Large THEN InLarge ELSE tagSlot'[c]]
               /\ err' = err
      BY <3>2
    <3> QED BY <1>2, <2>0, <3>1, <3>2 DEF Fetch, IsActive
  <2>2. /\ P!Next /\ P!IInv' /\ closed' = FALSE
        /\ P!LeaseLarge(c) \/ P!LeaseHit(c) \/ P!LeaseMiss(c)
    BY <1>2, <2>1, ManagerAcquires
  <2>3. /\ c \in Large \/ tagSlot'[c] \in Slot
        /\ \A d \in (active \ Large) \ {c} : tagSlot'[d] = tagSlot[d]
        /\ \A d \in (Chunk \ Large) \ {c} :
              tagSlot'[d] # NoSlot => /\ tagSlot'[d] = tagSlot[d]
                                      /\ c \notin Large => tagSlot'[d] # tagSlot'[c]
        /\ ~Pool!Resident(c) \/ tagSlot' = tagSlot
    BY <2>2, SlotsAfterAcquire
  <2>4. MasterBytes(c) \in Nat
    <3>1. AdamDone(c) /\ master \in [Chunk -> Nat]
      BY DEF Fetch, Ready, Types
    <3> QED BY <3>1 DEF AdamDone, MasterBytes
  <2>5. BufferOf(c)' \in Slot \cup {InLarge} /\ bound' = [bound EXCEPT ![c] = BufferOf(c)']
    BY <2>1, <2>3 DEF BufferOf
  <2>6. /\ slotData' \in [Slot -> [chunk : Chunk \cup {NoChunk}, ver : Nat]]
        /\ largeData' \in [Large -> Nat]
    <3>1. CASE UNCHANGED <<slotData, largeData>>
      BY <1>0, <3>1
    <3>2. CASE CopyIn(c, tagSlot'[c])
      BY <1>0, <2>3, <2>4, <3>2 DEF CopyIn
    <3> QED BY <2>1, <3>1, <3>2
  <2>7. ASSUME NEW d \in active' PROVE bound'[d] = BufferOf(d)'
    <3>1. CASE d = c
      BY <1>0, <2>5, <3>1
    <3>2. CASE d # c
      <4>1. d \in active /\ bound'[d] = BufferOf(d)
        BY <1>0, <2>1, <3>2
      <4> QED BY <2>3, <3>2, <4>1 DEF BufferOf
    <3> QED BY <3>1, <3>2
  <2>8. ASSUME NEW d \in Chunk \ Large, tagSlot'[d] # NoSlot
        PROVE  slotData'[tagSlot'[d]].chunk = d
    <3>1. CASE CopyIn(c, tagSlot'[c]) /\ c \notin Large
      <4>1. slotData' = [slotData EXCEPT ![tagSlot'[c]] = [chunk |-> c, ver |-> MasterBytes(c)]]
        BY <3>1 DEF CopyIn
      <4>2. CASE d = c
        BY <1>0, <2>3, <3>1, <4>1, <4>2
      <4>3. CASE d # c
        <5>1. tagSlot'[d] = tagSlot[d] /\ tagSlot'[d] # tagSlot'[c]
          BY <2>3, <2>8, <3>1, <4>3
        <5>2. tagSlot[d] \in Slot
          BY <1>0, <2>8, <5>1, PoolFacts DEF Ready
        <5>3. slotData[tagSlot[d]].chunk = d
          BY <1>0, <2>8, <5>1
        <5> QED BY <1>0, <4>1, <5>1, <5>2, <5>3
      <4> QED BY <4>2, <4>3
    <3>2. CASE slotData' = slotData /\ tagSlot'[d] = tagSlot[d]
      BY <1>0, <2>8, <3>2
    <3>3. CASE CopyIn(c, tagSlot'[c]) /\ c \in Large
      <4>1. slotData' = slotData /\ d # c
        BY <3>3 DEF CopyIn
      <4> QED BY <2>3, <2>8, <3>2, <4>1
    <3>4. CASE Pool!Resident(c) /\ UNCHANGED slotData
      <4>1. tagSlot' = tagSlot
        BY <2>3, <3>4
      <4> QED BY <3>2, <3>4, <4>1
    <3> QED BY <2>1, <3>1, <3>3, <3>4
  <2> QED BY <2>1, <2>2, <2>5, <2>6, <2>7, <2>8 DEF Contents
<1> QED BY <1>1, <1>2

\* offload past its guard: the manager drops its lease, and no slot moves.
LEMMA Unbound ==
    ASSUME Ready, NEW c \in Chunk, Unbind(c)
    PROVE  /\ active' = active \ {c}
           /\ [P!Next]_(P!vars) /\ P!IInv' /\ closed' = FALSE
           /\ bound' \in [Chunk -> Slot \cup {InLarge, Placeholder, OnCpu}]
           /\ \A d \in Chunk : bound'[d] = OnCpu => bound[d] = OnCpu
           /\ Contents'
<1>1. P!Release(c) /\ active' = active \ {c} /\ UNCHANGED <<slotData, largeData>>
  BY SamePool DEF Unbind
<1>2. Holders[c] = {} \/ "manager" \in Holders[c]
  BY DEF Holders
<1>3. Holders' = [Holders EXCEPT ![c] = @ \ {"manager"}]
  BY <1>1 DEF Holders
<1>4. P!ClientRelease("manager", c)
  BY <1>1, <1>2, <1>3 DEF P!ClientRelease
<1>5. P!Next
  BY <1>4 DEF P!Next
<1>6. closed' = closed /\ tagSlot' = tagSlot
  BY <1>1 DEF P!Release, P!ReleaseLarge, P!ReleaseSlot
<1>7. /\ bound' = [bound EXCEPT ![c] = IF @ = OnCpu THEN OnCpu ELSE Placeholder]
      /\ bound \in [Chunk -> Slot \cup {InLarge, Placeholder, OnCpu}]
      /\ active \subseteq Chunk
  BY DEF Unbind, Ready, Types
<1>8. OnCpu # Placeholder
  BY RuntimeAssumption
<1>9. /\ bound' \in [Chunk -> Slot \cup {InLarge, Placeholder, OnCpu}]
      /\ \A d \in Chunk : bound'[d] = OnCpu => bound[d] = OnCpu
      /\ \A d \in Chunk \ {c} : bound'[d] = bound[d]
  BY <1>7, <1>8
<1>10. Contents'
  BY <1>1, <1>6, <1>7, <1>9 DEF Ready, Contents, BufferOf
<1> QED BY <1>1, <1>5, <1>6, <1>9, <1>10, PoolStep DEF Ready

-----------------------------------------------------------------------------
(* The steps of the walk that call nothing yet.                            *)

LIInv == LInv /\ P!IInv /\ closed = FALSE
Preserved == LIInv' /\ [P!Next]_(P!vars)

Typed == /\ blk' \in Block /\ micro' \in 1..MicroBatches /\ steps' \in 0..MaxSteps
         /\ ready' \subseteq Chunk /\ todo' \in Seq(Call)

LEMMA Walked ==
    ASSUME LIInv, UNCHANGED <<poolVars, dataVars, active, refcount, deferred, adamVars, sharded>>,
           Typed, Position', ForwardLeases', BackwardLeases', StepLeases', Pins', Worker'
    PROVE  Preserved
<1>1. Types'
  BY DEF LIInv, LInv, Types, Typed, dataVars, adamVars
<1>2. P!IInv' /\ closed' = FALSE /\ Contents' /\ [P!Next]_(P!vars)
  BY Untouched DEF LIInv, LInv, Ready
<1> QED BY <1>1, <1>2 DEF LIInv, LInv, Preserved

LEMMA ChunksOfType ==
    \A b \in Block : ChunksOf[b] \in Seq(Chunk) /\ OwnedBy(b) = ToSet(ChunksOf[b]) \ Persistent
BY RuntimeAssumption DEF OwnedBy

LEMMA BlockFacts ==
    /\ NBlocks \in Nat \ {0} /\ 1 \in Block
    /\ \A b \in Block : b \in Nat /\ b >= 1 /\ b <= NBlocks
    /\ \A b \in Block : b < NBlocks => b + 1 \in Block
    /\ \A b \in Block : b > 1 => b - 1 \in Block
BY RuntimeAssumption DEF Block

\* The calls a hook leaves to be made.
LEMMA Planned ==
    ASSUME NEW op, NEW S, CallsFor(todo', op, S)
    PROVE  /\ todo' \in Seq(Call) /\ Pending' = S
           /\ \A i \in 1..Len(todo') : todo'[i].op = op
<1>1. Pending' = ChunksIn(todo')
  BY DEF Pending, ChunksIn
<1> QED BY <1>1 DEF CallsFor

\* Nothing is pinned or deferred outside a block's backward.
LEMMA NothingPinned ==
    ASSUME LIInv, phase # "backward" \/ at \in {"pre", "ahead"}
    PROVE  deferred = {} /\ \A c \in Chunk : ~(refcount[c] > 0)
BY DEF LIInv, LInv, Pins, Types

LEMMA ForwardPreStep == ASSUME LIInv, ForwardPre PROVE Preserved
<1>1. /\ phase = "forward" /\ at = "pre" /\ todo = <<>> /\ err = "none"
      /\ at' = "run" /\ UNCHANGED <<phase, blk, micro, steps, err, ready>>
      /\ UNCHANGED <<poolVars, dataVars, active, refcount, deferred, adamVars, sharded>>
  BY DEF ForwardPre, Arrive, gradVars
<1>2. blk \in Block
  BY DEF LIInv, LInv, Types
<1> DEFINE s == Calls("gather", ChunksOf[blk])
           t == IF blk < NBlocks THEN Calls("gather", ChunksOf[blk + 1]) ELSE <<>>
<1>3. CallsFor(s, "gather", ToSet(ChunksOf[blk]))
  BY <1>2, ChunksOfType, CallsFacts DEF Ops
<1>4. CallsFor(t, "gather", IF blk < NBlocks THEN ToSet(ChunksOf[blk + 1]) ELSE {})
  <2>1. CASE blk < NBlocks
    BY <1>2, <2>1, BlockFacts, ChunksOfType, CallsFacts DEF Ops
  <2>2. CASE ~(blk < NBlocks)
    BY <2>2, NoCalls
  <2> QED BY <2>1, <2>2
<1>5. todo' = s \o t
  BY DEF ForwardPre
<1> HIDE DEF s, t
<1>6. /\ todo' \in Seq(Call)
      /\ Pending' = ToSet(ChunksOf[blk]) \cup IF blk < NBlocks THEN ToSet(ChunksOf[blk + 1]) ELSE {}
      /\ \A i \in 1..Len(todo') : todo'[i].op = "gather"
  <2> DEFINE B == IF blk < NBlocks THEN ToSet(ChunksOf[blk + 1]) ELSE {}
  <2>1. CallsFor(t, "gather", B)
    BY <1>4
  <2> HIDE DEF B
  <2>2. CallsFor(todo', "gather", ToSet(ChunksOf[blk]) \cup B)
    BY <1>3, <1>5, <2>1, ConcatCalls
  <2>3. /\ todo' \in Seq(Call) /\ Pending' = ToSet(ChunksOf[blk]) \cup B
        /\ \A i \in 1..Len(todo') : todo'[i].op = "gather"
    BY <2>2, Planned
  <2> QED BY <2>3 DEF B
<1>7. Pending' \ Persistent = OwnedBy(blk) \cup Ahead
  BY <1>2, <1>6, BlockFacts, ChunksOfType DEF Ahead
<1>8. active \subseteq OwnedBy(blk)
  BY <1>1 DEF LIInv, LInv, ForwardLeases
<1>9. ForwardLeases'
  BY <1>1, <1>7, <1>8 DEF ForwardLeases, Ahead
<1>10. BackwardLeases' /\ StepLeases'
  BY <1>1 DEF BackwardLeases, StepLeases
<1>11. Position'
  BY <1>1, <1>6 DEF Position, OpAt
<1>12. Pins'
  BY <1>1, NothingPinned DEF Pins
<1>13. Worker'
  BY <1>1 DEF LIInv, LInv, Worker, adamVars, dataVars
<1>14. Typed
  BY <1>1, <1>6 DEF LIInv, LInv, Types, Typed
<1> QED BY <1>1, <1>9, <1>10, <1>11, <1>12, <1>13, <1>14, Walked

LEMMA ForwardPostStep == ASSUME LIInv, ForwardPost PROVE Preserved
<1>1. /\ phase = "forward" /\ at = "run" /\ todo = <<>> /\ err = "none"
      /\ at' = "post" /\ UNCHANGED <<phase, blk, micro, steps, err, ready>>
      /\ UNCHANGED <<poolVars, dataVars, active, refcount, deferred, adamVars, sharded>>
  BY DEF ForwardPost, Arrive, gradVars
<1>2. blk \in Block
  BY DEF LIInv, LInv, Types
<1> DEFINE cs == Only(ChunksOf[blk], {c \in Chunk : ~KeptForNext(c)})
<1>3. cs \in Seq(Chunk) /\ ToSet(cs) = ToSet(ChunksOf[blk]) \cap {c \in Chunk : ~KeptForNext(c)}
  BY <1>2, ChunksOfType, OnlyKeeps
<1>4. todo' = Calls("offload", cs)
  BY DEF ForwardPost
<1> HIDE DEF cs
<1>5. /\ todo' \in Seq(Call) /\ Pending' = ToSet(cs)
      /\ \A i \in 1..Len(todo') : todo'[i].op = "offload"
  <2>1. CallsFor(Calls("offload", cs), "offload", ToSet(cs))
    BY <1>3, CallsFacts DEF Ops
  <2> QED BY <1>4, <2>1, Planned
<1>6. active \subseteq OwnedBy(blk) \cup Ahead
  BY <1>1 DEF LIInv, LInv, ForwardLeases
<1>7. \A c \in OwnedBy(blk) : c \in Ahead \/ c \in Pending'
  <2> SUFFICES ASSUME NEW c \in OwnedBy(blk), c \notin Pending' PROVE c \in Ahead
    OBVIOUS
  <2>1. KeptForNext(c) /\ c \notin Persistent
    BY <1>2, <1>3, <1>5, OwnedByType, ChunksOfType
  <2> QED BY <1>2, <2>1, BlockFacts, ChunksOfType DEF KeptForNext, Ahead
<1>8. ForwardLeases'
  BY <1>1, <1>6, <1>7 DEF ForwardLeases, Ahead
<1>9. BackwardLeases' /\ StepLeases'
  BY <1>1 DEF BackwardLeases, StepLeases
<1>10. Position'
  BY <1>1, <1>5 DEF Position, OpAt
<1>11. Pins'
  BY <1>1, NothingPinned DEF Pins
<1>12. Worker'
  BY <1>1 DEF LIInv, LInv, Worker, adamVars, dataVars
<1>13. Typed
  BY <1>1, <1>5 DEF LIInv, LInv, Types, Typed
<1> QED BY <1>1, <1>8, <1>9, <1>10, <1>11, <1>12, <1>13, Walked

LEMMA ForwardNextStep == ASSUME LIInv, ForwardNext PROVE Preserved
<1>1. /\ phase = "forward" /\ at = "post" /\ todo = <<>> /\ err = "none"
      /\ at' = "pre" /\ UNCHANGED <<micro, steps, err, ready, todo>>
      /\ UNCHANGED <<poolVars, dataVars, active, refcount, deferred, adamVars, sharded>>
      /\ IF blk < NBlocks THEN blk' = blk + 1 /\ phase' = phase
                          ELSE phase' = "backward" /\ blk' = blk
  BY DEF ForwardNext, Arrive, gradVars
<1>2. blk \in Block /\ blk' \in Block
  BY <1>1, BlockFacts DEF LIInv, LInv, Types
<1>3. active \subseteq Ahead
  <2>1. Pending = {}
    BY <1>1, NoCalls DEF Pending
  <2> QED BY <1>1, <2>1 DEF LIInv, LInv, ForwardLeases
<1>4. ForwardLeases'
  <2>1. CASE blk < NBlocks
    <3>1. blk' # 1 /\ active \subseteq OwnedBy(blk')
      BY <1>1, <1>2, <1>3, <2>1, BlockFacts DEF Ahead
    <3> QED BY <1>1, <3>1 DEF ForwardLeases
  <2>2. CASE ~(blk < NBlocks)
    BY <1>1, <2>2 DEF ForwardLeases
  <2> QED BY <2>1, <2>2
<1>5. BackwardLeases' /\ StepLeases'
  <2>1. CASE blk < NBlocks
    BY <1>1, <2>1 DEF BackwardLeases, StepLeases
  <2>2. CASE ~(blk < NBlocks)
    BY <1>1, <1>3, <2>2 DEF BackwardLeases, StepLeases, Ahead
  <2> QED BY <2>1, <2>2
<1>6. Position'
  BY <1>1, NoCalls DEF Position
<1>7. Pins'
  BY <1>1, NothingPinned DEF Pins
<1>8. Worker'
  BY <1>1 DEF LIInv, LInv, Worker, adamVars, dataVars
<1>9. Typed
  BY <1>1, <1>2 DEF LIInv, LInv, Types, Typed
<1> QED BY <1>1, <1>4, <1>5, <1>6, <1>7, <1>8, <1>9, Walked

LEMMA BackwardPreStep == ASSUME LIInv, BackwardPre PROVE Preserved
<1>1. /\ phase = "backward" /\ at = "pre" /\ todo = <<>> /\ err = "none"
      /\ at' = "ahead" /\ UNCHANGED <<phase, blk, micro, steps, err, ready>>
      /\ UNCHANGED <<poolVars, dataVars, active, refcount, deferred, adamVars, sharded>>
  BY DEF BackwardPre, Arrive, gradVars
<1>2. blk \in Block
  BY DEF LIInv, LInv, Types
<1> DEFINE r == Only(ChunksOf[blk], ResidentChunks)
           m == Only(ChunksOf[blk], Chunk \ ResidentChunks)
<1>3. /\ r \in Seq(Chunk) /\ ToSet(r) = ToSet(ChunksOf[blk]) \cap ResidentChunks
      /\ m \in Seq(Chunk) /\ ToSet(m) = ToSet(ChunksOf[blk]) \cap (Chunk \ ResidentChunks)
  BY <1>2, ChunksOfType, OnlyKeeps
<1>4. todo' = Calls("gather", r \o m)
  BY DEF BackwardPre, ResidentFirst, MissingOnly
<1> HIDE DEF r, m
<1>5. r \o m \in Seq(Chunk) /\ ToSet(r \o m) = ToSet(r) \cup ToSet(m)
  BY <1>3, ConcatSet
<1>6. ToSet(r \o m) = ToSet(ChunksOf[blk])
  BY <1>2, <1>3, <1>5, ChunksOfType, ToSetDef
<1>7. /\ todo' \in Seq(Call) /\ Pending' = ToSet(ChunksOf[blk])
      /\ \A i \in 1..Len(todo') : todo'[i].op = "gather"
  <2>1. CallsFor(Calls("gather", r \o m), "gather", ToSet(r \o m))
    BY <1>5, CallsFacts DEF Ops
  <2> QED BY <1>4, <1>6, <2>1, Planned
<1>8. active \subseteq OwnedBy(blk) /\ Pending' \ Persistent = OwnedBy(blk)
  BY <1>1, <1>2, <1>7, ChunksOfType DEF LIInv, LInv, BackwardLeases
<1>9. ForwardLeases' /\ StepLeases'
  BY <1>1 DEF ForwardLeases, StepLeases
<1>10. BackwardLeases'
  BY <1>1, <1>8 DEF BackwardLeases
<1>11. Position'
  BY <1>1, <1>7 DEF Position, OpAt
<1>12. Pins'
  BY <1>1, NothingPinned DEF Pins
<1>13. Worker'
  BY <1>1 DEF LIInv, LInv, Worker, adamVars, dataVars
<1>14. Typed
  BY <1>1, <1>7 DEF LIInv, LInv, Types, Typed
<1> QED BY <1>1, <1>9, <1>10, <1>11, <1>12, <1>13, <1>14, Walked

LEMMA BackwardAheadStep == ASSUME LIInv, BackwardAhead PROVE Preserved
<1>1. /\ phase = "backward" /\ at = "ahead" /\ todo = <<>> /\ err = "none"
      /\ at' = "run" /\ UNCHANGED <<phase, blk, micro, steps, err, ready>>
      /\ UNCHANGED <<poolVars, dataVars, active, refcount, deferred, adamVars, sharded>>
  BY DEF BackwardAhead, Arrive, gradVars
<1>2. blk \in Block
  BY DEF LIInv, LInv, Types
<1> DEFINE s == IF blk > 1 /\ ChunksOf[blk] # <<>>
                THEN Calls("gather", MissingOnly(blk - 1)) ELSE <<>>
           t == IF blk \in OffloadBlocks THEN <<>> ELSE Calls("gather", ChunksOf[blk])
<1>3. PICK A : CallsFor(s, "gather", A) /\ A \ Persistent \subseteq Behind
  <2>1. CASE blk > 1 /\ ChunksOf[blk] # <<>>
    <3>1. /\ blk - 1 \in Block /\ MissingOnly(blk - 1) \in Seq(Chunk)
          /\ ToSet(MissingOnly(blk - 1)) \subseteq ToSet(ChunksOf[blk - 1])
      BY <1>2, <2>1, BlockFacts, ChunksOfType, OnlyKeeps DEF MissingOnly
    <3>2. ToSet(MissingOnly(blk - 1)) \ Persistent \subseteq Behind
      BY <2>1, <3>1, ChunksOfType DEF Behind
    <3>3. CallsFor(s, "gather", ToSet(MissingOnly(blk - 1)))
      BY <2>1, <3>1, CallsFacts DEF Ops
    <3> QED BY <3>2, <3>3
  <2>2. CASE ~(blk > 1 /\ ChunksOf[blk] # <<>>)
    <3>1. CallsFor(s, "gather", {})
      BY <2>2, NoCalls
    <3> QED BY <3>1
  <2> QED BY <2>1, <2>2
<1>4. PICK B : CallsFor(t, "gather", B) /\ B \ Persistent \subseteq OwnedBy(blk)
  <2>1. CASE blk \in OffloadBlocks
    <3>1. CallsFor(t, "gather", {})
      BY <2>1, NoCalls
    <3> QED BY <3>1
  <2>2. CASE blk \notin OffloadBlocks
    <3>1. CallsFor(t, "gather", ToSet(ChunksOf[blk]))
      BY <1>2, <2>2, CallsFacts, ChunksOfType DEF Ops
    <3> QED BY <1>2, <3>1, ChunksOfType
  <2> QED BY <2>1, <2>2
<1>5. todo' = s \o t
  BY DEF BackwardAhead
<1> HIDE DEF s, t
<1>6. /\ todo' \in Seq(Call) /\ Pending' = A \cup B
      /\ \A i \in 1..Len(todo') : todo'[i].op = "gather"
  BY <1>3, <1>4, <1>5, ConcatCalls, Planned
<1>7. Pending = {}
  BY <1>1, NoCalls DEF Pending
<1>8. active \subseteq OwnedBy(blk) /\ OwnedBy(blk) \subseteq active
  BY <1>1, <1>7 DEF LIInv, LInv, BackwardLeases
<1>9. ForwardLeases' /\ StepLeases'
  BY <1>1 DEF ForwardLeases, StepLeases
<1>10. BackwardLeases'
  BY <1>1, <1>3, <1>4, <1>6, <1>8 DEF BackwardLeases, Behind
<1>11. Position'
  BY <1>1, <1>6 DEF Position, OpAt
<1>12. Pins'
  BY <1>1, NothingPinned DEF Pins
<1>13. Worker'
  BY <1>1 DEF LIInv, LInv, Worker, adamVars, dataVars
<1>14. Typed
  BY <1>1, <1>6 DEF LIInv, LInv, Types, Typed
<1> QED BY <1>1, <1>9, <1>10, <1>11, <1>12, <1>13, <1>14, Walked

\* A chunk of the block that no earlier block owns is finalized; one that an
\* earlier block owns is the previous block's too.
LEMMA BackwardPostStep == ASSUME LIInv, BackwardPost PROVE Preserved
<1>1. /\ phase = "backward" /\ at = "run" /\ todo = <<>> /\ err = "none"
      /\ at' = "post" /\ UNCHANGED <<phase, blk, micro, steps, err, ready>>
      /\ UNCHANGED <<poolVars, dataVars, active, refcount, deferred, adamVars, sharded>>
  BY DEF BackwardPost, Arrive, gradVars
<1>2. blk \in Block
  BY DEF LIInv, LInv, Types
<1> DEFINE L == {c \in Chunk : \A b \in 1..(blk - 1) : c \notin ToSet(ChunksOf[b])}
           cs == Only(ChunksOf[blk], L)
<1>3. cs \in Seq(Chunk) /\ ToSet(cs) = ToSet(ChunksOf[blk]) \cap L
  BY <1>2, ChunksOfType, OnlyKeeps
<1>4. todo' = Calls("offload", cs)
  BY DEF BackwardPost
<1> HIDE DEF cs
<1>5. /\ todo' \in Seq(Call) /\ Pending' = ToSet(cs)
      /\ \A i \in 1..Len(todo') : todo'[i].op = "offload"
  <2>1. CallsFor(Calls("offload", cs), "offload", ToSet(cs))
    BY <1>3, CallsFacts DEF Ops
  <2> QED BY <1>4, <2>1, Planned
<1>6. active \subseteq OwnedBy(blk) \cup Behind
  BY <1>1 DEF LIInv, LInv, BackwardLeases
<1>7. \A c \in OwnedBy(blk) : c \in Behind \/ c \in Pending'
  <2> SUFFICES ASSUME NEW c \in OwnedBy(blk), c \notin Pending' PROVE c \in Behind
    OBVIOUS
  <2>1. c \in ToSet(ChunksOf[blk]) /\ c \in Chunk \ Persistent /\ c \notin L
    BY <1>2, <1>3, <1>5, OwnedByType, ChunksOfType
  <2>2. PICK b \in 1..(blk - 1) : c \in ToSet(ChunksOf[b])
    BY <2>1
  <2>3. b \in Block /\ blk - 1 \in Block /\ blk > 1 /\ (b = blk - 1 \/ b < blk - 1) /\ blk - 1 < blk
    BY <1>2, BlockFacts DEF Block
  <2>4. c \in ToSet(ChunksOf[blk - 1])
    BY <1>2, <2>1, <2>2, <2>3, RuntimeAssumption
  <2> QED BY <2>1, <2>3, <2>4, ChunksOfType DEF Behind
<1>8. BackwardLeases'
  BY <1>1, <1>6, <1>7 DEF BackwardLeases, Behind
<1>9. ForwardLeases' /\ StepLeases'
  BY <1>1 DEF ForwardLeases, StepLeases
<1>10. Position'
  BY <1>1, <1>5 DEF Position, OpAt
<1>11. Pins'
  BY <1>1 DEF LIInv, LInv, Pins
<1>12. Worker'
  BY <1>1 DEF LIInv, LInv, Worker, adamVars, dataVars
<1>13. Typed
  BY <1>1, <1>5 DEF LIInv, LInv, Types, Typed
<1> QED BY <1>1, <1>8, <1>9, <1>10, <1>11, <1>12, <1>13, Walked

LEMMA BackwardNextStep == ASSUME LIInv, BackwardNext PROVE Preserved
<1>1. /\ phase = "backward" /\ at = "post" /\ todo = <<>> /\ err = "none"
      /\ UNCHANGED <<steps, err, ready, todo>>
      /\ UNCHANGED <<poolVars, dataVars, active, refcount, deferred, adamVars, sharded>>
      /\ \A c \in OwnedBy(blk) : refcount[c] = 0
      /\ \/ blk > 1 /\ blk' = blk - 1 /\ at' = "pre" /\ UNCHANGED <<phase, micro>>
         \/ /\ ~(blk > 1) /\ blk' = blk
            /\ \/ micro < MicroBatches /\ phase' = "forward" /\ at' = "pre" /\ micro' = micro + 1
               \/ phase' = "step" /\ at' = "sweep" /\ micro' = 1
  BY DEF BackwardNext, Arrive, gradVars
<1>2. blk \in Block /\ micro \in 1..MicroBatches /\ MicroBatches \in Nat \ {0}
  BY RuntimeAssumption DEF LIInv, LInv, Types
<1>3. blk' \in Block /\ micro' \in 1..MicroBatches
  BY <1>1, <1>2, BlockFacts
<1>4. deferred = {} /\ \A c \in Chunk : ~(refcount[c] > 0)
  <2>1. \A c \in Chunk : ~(refcount[c] > 0)
    BY <1>1 DEF LIInv, LInv, Pins
  <2> QED BY <2>1 DEF LIInv, LInv, Pins, Types
<1>5. active \subseteq Behind
  <2>1. Pending = {}
    BY <1>1, NoCalls DEF Pending
  <2> QED BY <1>1, <1>4, <2>1 DEF LIInv, LInv, BackwardLeases
<1>6. CASE blk > 1
  <2>1. BackwardLeases' /\ ForwardLeases' /\ StepLeases'
    BY <1>1, <1>5, <1>6 DEF BackwardLeases, ForwardLeases, StepLeases, Behind
  <2>2. Position'
    BY <1>1, <1>6, NoCalls DEF Position
  <2> QED BY <1>1, <1>3, <1>4, <2>1, <2>2, Walked
          DEF LIInv, LInv, Types, Typed, Pins, Worker, adamVars, dataVars
<1>7. CASE ~(blk > 1)
  <2>0. active = {} /\ blk' = 1
    BY <1>1, <1>2, <1>5, <1>7, BlockFacts DEF Behind
  <2>1. BackwardLeases' /\ ForwardLeases' /\ StepLeases'
    BY <1>1, <1>7, <2>0 DEF BackwardLeases, ForwardLeases, StepLeases
  <2>2. Position'
    BY <1>1, <1>7, NoCalls DEF Position
  <2> QED BY <1>1, <1>3, <1>4, <2>1, <2>2, Walked
          DEF LIInv, LInv, Types, Typed, Pins, Worker, adamVars, dataVars
<1> QED BY <1>6, <1>7

-----------------------------------------------------------------------------
(* The calls.                                                              *)

\* The head of todo is called: it belongs to this place of the walk.
LEMMA Called ==
    ASSUME LIInv, NEW op, NEW c \in Chunk, Calling(op, c), UNCHANGED <<phase, at>>,
           err' = err
    PROVE  /\ op = OpAt(at) /\ at \notin {"pre", "sweep"} /\ err = "none"
           /\ Pending = {c} \cup Pending'
           /\ todo' \in Seq(Call) /\ Position'
<1>1. todo \in Seq(Call) /\ todo # <<>> /\ todo' = Tail(todo) /\ err = "none"
  BY DEF LIInv, LInv, Types, Calling
<1>2. /\ Tail(todo) \in Seq(Call)
      /\ 1 \in 1..Len(todo) /\ Head(todo) = todo[1]
      /\ \A i \in 1..Len(Tail(todo)) : i + 1 \in 1..Len(todo) /\ Tail(todo)[i] = todo[i + 1]
      /\ ChunksIn(todo) = {todo[1].c} \cup ChunksIn(Tail(todo))
  BY <1>1, CallMade
<1>3. todo[1].op = op /\ todo[1].c = c
  BY <1>2 DEF Calling
<1>4. Pending = {c} \cup Pending'
  <2>1. Pending' = ChunksIn(todo')
    BY DEF Pending, ChunksIn
  <2> QED BY <1>1, <1>2, <1>3, <2>1 DEF Pending
<1>5. /\ \A i \in 1..Len(todo) : todo[i].op = OpAt(at)
      /\ at \in {"pre", "sweep"} => todo = <<>>
  BY DEF LIInv, LInv, Position
<1>6. at \notin {"pre", "sweep"} /\ op = OpAt(at)
  BY <1>1, <1>2, <1>3, <1>5
<1>7. \A i \in 1..Len(todo') : todo'[i].op = OpAt(at)
  BY <1>1, <1>2, <1>5
<1>8. OpAt(at') = OpAt(at)
  BY DEF OpAt
<1>9. Position'
  BY <1>1, <1>6, <1>7, <1>8 DEF LIInv, LInv, Position, OpAt
<1> QED BY <1>1, <1>2, <1>4, <1>6, <1>9

\* While gathers run, what is leased is the block's and its neighbour's.
LEMMA LeasesFit ==
    ASSUME LIInv, at \in {"ahead", "run"}
    PROVE  \E b \in Block : active \cup (Pending \ Persistent) \cup OwnedBy(blk) \subseteq Window(b)
<1>1. blk \in Block
  BY DEF LIInv, LInv, Types
<1>2. phase \in {"forward", "backward"}
  BY DEF LIInv, LInv, Position
<1>3. CASE phase = "forward"
  <2>1. active \cup (Pending \ Persistent) \subseteq OwnedBy(blk) \cup Ahead
    BY <1>3 DEF LIInv, LInv, Position, ForwardLeases
  <2>2. OwnedBy(blk) \cup Ahead = Window(blk)
    BY DEF Ahead, Window
  <2> QED BY <1>1, <2>1, <2>2
<1>4. CASE phase = "backward" /\ blk > 1
  <2>1. active \cup (Pending \ Persistent) \subseteq OwnedBy(blk) \cup OwnedBy(blk - 1)
    BY <1>4 DEF LIInv, LInv, BackwardLeases, Behind
  <2>2. blk - 1 \in Block /\ blk - 1 < NBlocks /\ (blk - 1) + 1 = blk
    BY <1>1, <1>4, BlockFacts
  <2>3. Window(blk - 1) = OwnedBy(blk - 1) \cup OwnedBy(blk)
    BY <2>2 DEF Window
  <2> QED BY <2>1, <2>2, <2>3
<1>5. CASE phase = "backward" /\ ~(blk > 1)
  <2>1. active \cup (Pending \ Persistent) \subseteq OwnedBy(blk)
    BY <1>5 DEF LIInv, LInv, BackwardLeases, Behind
  <2>2. OwnedBy(blk) \subseteq Window(blk)
    BY DEF Window
  <2> QED BY <1>1, <2>1, <2>2
<1> QED BY <1>2, <1>3, <1>4, <1>5

LEMMA GatherStep == ASSUME LIInv, NEW c \in Chunk, Gather(c) PROVE Preserved /\ err' = "none"
<1>1. /\ Calling("gather", c)
      /\ UNCHANGED <<refcount, deferred, adamVars, sharded, phase, blk, at, micro, steps, ready>>
      /\ \/ c \in Persistent /\ UNCHANGED <<poolVars, dataVars, active, err>>
         \/ c \notin Persistent /\ Fetch(c)
  BY DEF Gather, walkVars, gradVars
<1>2. at \in {"ahead", "run"}
  <2>1. todo \in Seq(Call) /\ todo # <<>>
    BY <1>1 DEF LIInv, LInv, Types, Calling
  <2>2. 1 \in 1..Len(todo) /\ todo[1].op = "gather"
    BY <1>1, <2>1, CallMade DEF Calling
  <2> QED BY <2>1, <2>2 DEF LIInv, LInv, Position, OpAt
<1>3. /\ \A d : d \in Pending' => d \in Pending
      /\ c \in Pending
      /\ \A d \in Pending : d = c \/ d \in Pending'
      /\ (err' = err) => todo' \in Seq(Call) /\ Position' /\ err = "none"
  <2>1. todo \in Seq(Call) /\ todo # <<>> /\ todo' = Tail(todo) /\ Head(todo).c = c
    BY <1>1 DEF LIInv, LInv, Types, Calling
  <2>2. Pending = {c} \cup ChunksIn(Tail(todo))
    BY <2>1, CallMade DEF Pending
  <2>3. Pending' = ChunksIn(Tail(todo))
    BY <2>1 DEF Pending, ChunksIn
  <2> QED BY <1>1, <2>2, <2>3, Called
<1>4. /\ active' = IF c \in Persistent THEN active ELSE active \cup {c}
      /\ err' = err /\ [P!Next]_(P!vars) /\ P!IInv' /\ closed' = FALSE
      /\ slotData' \in [Slot -> [chunk : Chunk \cup {NoChunk}, ver : Nat]]
      /\ largeData' \in [Large -> Nat]
      /\ bound' \in [Chunk -> Slot \cup {InLarge, Placeholder, OnCpu}]
      /\ \A d \in Chunk : bound'[d] = OnCpu => bound[d] = OnCpu
      /\ Contents'
  <2>0. Ready
    BY DEF Ready, LIInv, LInv
  <2>1. CASE c \in Persistent /\ UNCHANGED <<poolVars, dataVars, active, err>>
    BY <2>0, <2>1, Untouched DEF Ready, Types, dataVars
  <2>2. CASE c \notin Persistent /\ Fetch(c)
    <3>1. PICK b \in Block : active \cup (Pending \ Persistent) \subseteq Window(b)
      BY <1>2, LeasesFit
    <3>2. active \subseteq Window(b) /\ c \in Window(b)
      BY <1>3, <2>2, <3>1
    <3>3. /\ err' = err /\ active' = active \cup {c}
          /\ [P!Next]_(P!vars) /\ P!IInv' /\ closed' = FALSE
          /\ slotData' \in [Slot -> [chunk : Chunk \cup {NoChunk}, ver : Nat]]
          /\ largeData' \in [Large -> Nat]
          /\ bound' = [bound EXCEPT ![c] = BufferOf(c)']
          /\ BufferOf(c)' \in Slot \cup {InLarge}
          /\ Contents'
      BY <2>0, <2>2, <3>2, Fetched
    <3>4. OnCpu \notin Slot \cup {InLarge}
      BY RuntimeAssumption DEF Slot
    <3>5. bound \in [Chunk -> Slot \cup {InLarge, Placeholder, OnCpu}]
      BY <2>0 DEF Ready, Types
    <3> DEFINE buf == BufferOf(c)'
    <3>6. bound' = [bound EXCEPT ![c] = buf] /\ buf \in Slot \cup {InLarge}
      BY <3>3
    <3> HIDE DEF buf
    <3>7. /\ bound' \in [Chunk -> Slot \cup {InLarge, Placeholder, OnCpu}]
          /\ \A d \in Chunk : bound'[d] = OnCpu => bound[d] = OnCpu
      BY <3>4, <3>5, <3>6
    <3> QED BY <2>2, <3>3, <3>7
  <2> QED BY <1>1, <2>1, <2>2
<1>5. Types'
  BY <1>1, <1>3, <1>4 DEF LIInv, LInv, Types, adamVars
<1>6. ForwardLeases'
  <2>1. CASE phase = "forward"
    <3>1. /\ at = "run" /\ OwnedBy(blk) \subseteq active \cup Pending
          /\ active \cup (Pending \ Persistent) \subseteq OwnedBy(blk) \cup Ahead
      BY <1>2, <2>1 DEF LIInv, LInv, Position, ForwardLeases
    <3>2. \A d \in OwnedBy(blk) : d \notin Persistent
      BY OwnedByType DEF LIInv, LInv, Types
    <3>3. Ahead' = Ahead /\ OwnedBy(blk)' = OwnedBy(blk)
      BY <1>1 DEF Ahead, OwnedBy
    <3> QED BY <1>1, <1>3, <1>4, <2>1, <3>1, <3>2, <3>3 DEF ForwardLeases
  <2> QED BY <1>1, <2>1 DEF ForwardLeases
<1>7. BackwardLeases'
  <2>1. \A d \in OwnedBy(blk) : d \notin Persistent
    BY OwnedByType DEF LIInv, LInv, Types
  <2>2. Behind' = Behind /\ OwnedBy(blk)' = OwnedBy(blk)
    BY <1>1 DEF Behind, OwnedBy
  <2>3. CASE phase = "backward" /\ at = "ahead"
    <3>1. /\ active \cup (Pending \ Persistent) \subseteq OwnedBy(blk)
          /\ OwnedBy(blk) \subseteq active \cup Pending
      BY <2>3 DEF LIInv, LInv, BackwardLeases
    <3> QED BY <1>1, <1>3, <1>4, <2>1, <2>2, <2>3, <3>1 DEF BackwardLeases
  <2>4. CASE phase = "backward" /\ at = "run"
    <3>1. /\ active \cup (Pending \ Persistent) \subseteq OwnedBy(blk) \cup Behind
          /\ OwnedBy(blk) \subseteq active
      BY <2>4 DEF LIInv, LInv, BackwardLeases
    <3> QED BY <1>1, <1>3, <1>4, <2>1, <2>2, <2>4, <3>1 DEF BackwardLeases
  <2> QED BY <1>1, <1>2, <2>3, <2>4 DEF BackwardLeases
<1>8. StepLeases'
  BY <1>1, <1>2 DEF LIInv, LInv, Position, StepLeases
<1>9. Pins'
  BY <1>1, <1>4 DEF LIInv, LInv, Pins
<1>10. Worker'
  BY <1>1, <1>4 DEF LIInv, LInv, Worker, adamVars
<1> QED BY <1>1, <1>3, <1>4, <1>5, <1>6, <1>7, <1>8, <1>9, <1>10 DEF LIInv, LInv, Preserved

\* The unpack of a saved view: the block's chunks are all active, so it is a
\* gather of an active chunk.
LEMMA UnpackStep == ASSUME LIInv, NEW c \in Chunk, Unpack(c) PROVE Preserved /\ err' = "none"
<1>1. /\ phase = "backward" /\ at = "run" /\ todo = <<>> /\ err = "none"
      /\ c \in OwnedBy(blk) /\ refcount[c] < MaxHandles /\ Fetch(c)
      /\ refcount' = IF err' = "none" THEN [refcount EXCEPT ![c] = @ + 1] ELSE refcount
      /\ UNCHANGED <<deferred, adamVars, sharded, phase, blk, at, micro, steps, ready, todo>>
  BY DEF Unpack, Arrive, walkVars, gradVars
<1>2. c \in active
  BY <1>1 DEF LIInv, LInv, BackwardLeases
<1>3. /\ UNCHANGED <<poolVars, slotData, largeData, active, err>>
      /\ bound' = [bound EXCEPT ![c] = BufferOf(c)]
  BY <1>1, <1>2 DEF Fetch, IsActive
<1>4. bound' = bound
  BY <1>2, <1>3 DEF LIInv, LInv, Types, Contents
<1>5. Ready /\ UNCHANGED <<poolVars, dataVars, active>>
  BY <1>3, <1>4 DEF LIInv, LInv, Ready, dataVars
<1>6. P!IInv' /\ closed' = FALSE /\ Contents' /\ [P!Next]_(P!vars)
  BY <1>5, Untouched
<1>7. refcount' = [refcount EXCEPT ![c] = @ + 1] /\ refcount \in [Chunk -> 0..MaxHandles]
  BY <1>1, <1>3 DEF LIInv, LInv, Types
<1>8. refcount' \in [Chunk -> 0..MaxHandles]
  <2>1. MaxHandles \in Nat
    BY RuntimeAssumption
  <2>2. refcount[c] \in 0..MaxHandles /\ refcount[c] + 1 \in 0..MaxHandles
    BY <1>1, <1>7, <2>1
  <2> QED BY <1>7, <2>2
<1>9. Types'
  BY <1>1, <1>3, <1>4, <1>8 DEF LIInv, LInv, Types, adamVars
<1>10. Pending' = Pending /\ Behind' = Behind
  BY <1>1 DEF Pending, ChunksIn, Behind
<1>11. Position' /\ ForwardLeases' /\ StepLeases'
  BY <1>1, <1>3 DEF LIInv, LInv, Position, ForwardLeases, StepLeases
<1>12. BackwardLeases'
  BY <1>1, <1>3, <1>10 DEF LIInv, LInv, BackwardLeases
<1>13. Pins'
  <2>1. \A d \in Chunk : d # c => refcount'[d] = refcount[d]
    BY <1>7
  <2> QED BY <1>1, <1>2, <1>3, <2>1 DEF LIInv, LInv, Pins
<1>14. Worker'
  BY <1>1, <1>4 DEF LIInv, LInv, Worker, adamVars
<1> QED BY <1>1, <1>3, <1>6, <1>9, <1>11, <1>12, <1>13, <1>14 DEF LIInv, LInv, Preserved

LEMMA OffloadedOrDeferred ==
    ASSUME LIInv, NEW c \in Chunk, OffloadOrDefer(c)
    PROVE  /\ P!IInv' /\ closed' = FALSE /\ Contents' /\ [P!Next]_(P!vars)
           /\ UNCHANGED <<slotData, largeData>>
           /\ bound' \in [Chunk -> Slot \cup {InLarge, Placeholder, OnCpu}]
           /\ \A d \in Chunk : bound'[d] = OnCpu => bound[d] = OnCpu
           /\ \/ c \in Persistent /\ active' = active /\ deferred' = deferred
              \/ refcount[c] > 0 /\ active' = active /\ deferred' = deferred \cup {c}
              \/ ~(refcount[c] > 0) /\ active' = active \ {c} /\ deferred' = deferred
<1>0. Ready
  BY DEF Ready, LIInv, LInv
<1>1. ASSUME UNCHANGED <<poolVars, dataVars, active>>
      PROVE  /\ P!IInv' /\ closed' = FALSE /\ Contents' /\ [P!Next]_(P!vars)
             /\ UNCHANGED <<slotData, largeData>>
             /\ bound' \in [Chunk -> Slot \cup {InLarge, Placeholder, OnCpu}]
             /\ \A d \in Chunk : bound'[d] = OnCpu => bound[d] = OnCpu
  BY <1>0, <1>1, Untouched DEF Ready, Types, dataVars
<1>2. CASE c \in Persistent /\ UNCHANGED <<poolVars, dataVars, active, deferred>>
  BY <1>1, <1>2
<1>3. CASE Pinned(c) /\ deferred' = deferred \cup {c} /\ UNCHANGED <<poolVars, dataVars, active>>
  BY <1>1, <1>3 DEF Pinned
<1>4. CASE ~Pinned(c) /\ Unbind(c) /\ UNCHANGED deferred
  <2>1. UNCHANGED <<slotData, largeData>>
    BY <1>4 DEF Unbind
  <2> QED BY <1>0, <1>4, <2>1, Unbound DEF Pinned
<1> QED BY <1>2, <1>3, <1>4 DEF OffloadOrDefer

LEMMA OffloadStep == ASSUME LIInv, NEW c \in Chunk, Offload(c) PROVE Preserved
<1>1. /\ Calling("offload", c) /\ OffloadOrDefer(c)
      /\ UNCHANGED <<refcount, adamVars, sharded, phase, blk, at, micro, steps, err, ready>>
  BY DEF Offload, walkVars, gradVars
<1>2. /\ "offload" = OpAt(at) /\ at \notin {"pre", "sweep"} /\ err = "none"
      /\ Pending = {c} \cup Pending' /\ todo' \in Seq(Call) /\ Position'
  BY <1>1, Called
<1>3. /\ P!IInv' /\ closed' = FALSE /\ Contents' /\ [P!Next]_(P!vars)
      /\ UNCHANGED <<slotData, largeData>>
      /\ bound' \in [Chunk -> Slot \cup {InLarge, Placeholder, OnCpu}]
      /\ \A d \in Chunk : bound'[d] = OnCpu => bound[d] = OnCpu
      /\ \/ c \in Persistent /\ active' = active /\ deferred' = deferred
         \/ refcount[c] > 0 /\ active' = active /\ deferred' = deferred \cup {c}
         \/ ~(refcount[c] > 0) /\ active' = active \ {c} /\ deferred' = deferred
  BY <1>1, OffloadedOrDeferred
<1>4. /\ at \in {"post", "done"} /\ (at = "done" => phase = "step")
      /\ phase \in {"forward", "backward", "step"} /\ (at = "post" => phase # "step")
  BY <1>2 DEF OpAt, LIInv, LInv, Position
<1>5. active \subseteq Chunk \ Persistent
  BY DEF LIInv, LInv, Types
<1>6. Types'
  BY <1>1, <1>2, <1>3 DEF LIInv, LInv, Types, adamVars
<1>7. ForwardLeases'
  <2>1. CASE phase = "forward"
    <3>1. active \subseteq Ahead \cup Pending /\ ~(refcount[c] > 0) /\ at = "post"
      BY <1>4, <2>1 DEF LIInv, LInv, ForwardLeases, Pins
    <3>2. Ahead' = Ahead
      BY <1>1 DEF Ahead
    <3> QED BY <1>1, <1>2, <1>3, <1>5, <2>1, <3>1, <3>2 DEF ForwardLeases
  <2> QED BY <1>1, <2>1 DEF ForwardLeases
<1>8. BackwardLeases'
  <2>1. CASE phase = "backward"
    <3>1. active \subseteq Behind \cup Pending \cup deferred /\ at = "post"
      BY <1>4, <2>1 DEF LIInv, LInv, BackwardLeases
    <3>2. Behind' = Behind
      BY <1>1 DEF Behind
    <3>3. active' \subseteq Behind' \cup Pending' \cup deferred'
      BY <1>2, <1>3, <1>5, <3>1, <3>2
    <3> QED BY <1>1, <2>1, <3>1, <3>3 DEF BackwardLeases
  <2> QED BY <1>1, <2>1 DEF BackwardLeases
<1>9. StepLeases'
  BY <1>1, <1>3 DEF LIInv, LInv, StepLeases
<1>10. Pins'
  <2>1. \A d \in Chunk : refcount[d] > 0 =>
           d \in active /\ d \in OwnedBy(blk) /\ phase = "backward" /\ at \in {"run", "post"}
    BY DEF LIInv, LInv, Pins
  <2>2. \A d \in deferred : refcount[d] > 0 /\ at = "post"
    BY DEF LIInv, LInv, Pins
  <2>3. refcount[c] > 0 => at = "post"
    BY <1>4, <2>1
  <2> QED BY <1>1, <1>3, <2>1, <2>2, <2>3 DEF Pins
<1>11. Worker'
  BY <1>1, <1>3 DEF LIInv, LInv, Worker, adamVars
<1> QED BY <1>2, <1>3, <1>6, <1>7, <1>8, <1>9, <1>10, <1>11 DEF LIInv, LInv, Preserved

LEMMA ReduceStep == ASSUME LIInv, NEW c \in Chunk, Reduce(c) PROVE Preserved
<1>1. /\ Calling("reduce", c) /\ OffloadOrDefer(c)
      /\ ready' = ready \/ ready' = ready \cup {c}
      /\ UNCHANGED <<refcount, adamVars, sharded, phase, blk, at, micro, steps, err>>
  BY DEF Reduce, walkVars
<1>2. /\ "reduce" = OpAt(at) /\ err = "none"
      /\ todo' \in Seq(Call) /\ Position'
  BY <1>1, Called
<1>3. at = "launch" /\ phase = "step"
  BY <1>2 DEF OpAt, LIInv, LInv, Position
<1>4. active = {} /\ deferred = {} /\ ~(refcount[c] > 0)
  BY <1>3, NothingPinned DEF LIInv, LInv, StepLeases
<1>5. /\ P!IInv' /\ closed' = FALSE /\ Contents' /\ [P!Next]_(P!vars)
      /\ UNCHANGED <<slotData, largeData>>
      /\ bound' \in [Chunk -> Slot \cup {InLarge, Placeholder, OnCpu}]
      /\ \A d \in Chunk : bound'[d] = OnCpu => bound[d] = OnCpu
      /\ active' = {} /\ deferred' = {}
  BY <1>1, <1>4, OffloadedOrDeferred
<1>6. Types'
  BY <1>1, <1>2, <1>5 DEF LIInv, LInv, Types, adamVars
<1>7. ForwardLeases' /\ BackwardLeases' /\ StepLeases'
  BY <1>1, <1>3, <1>5 DEF ForwardLeases, BackwardLeases, StepLeases
<1>8. Pins'
  BY <1>1, <1>3, <1>5, NothingPinned DEF Pins
<1>9. Worker'
  BY <1>1, <1>5 DEF LIInv, LInv, Worker, adamVars
<1> QED BY <1>2, <1>5, <1>6, <1>7, <1>8, <1>9 DEF LIInv, LInv, Preserved

\* A saved view dies; with the last one of a deferred chunk, its lease.
LEMMA DropHandleStep == ASSUME LIInv, NEW c \in Chunk, DropHandle(c) PROVE Preserved
<1>1. /\ err = "none" /\ refcount[c] > 0
      /\ refcount' = [refcount EXCEPT ![c] = @ - 1]
      /\ IF LastHandle(c)
         THEN deferred' = deferred \ {c} /\ Unbind(c)
         ELSE UNCHANGED <<poolVars, dataVars, active, deferred>>
      /\ UNCHANGED <<adamVars, sharded, phase, blk, at, micro, steps, err, ready, todo>>
  BY DEF DropHandle, walkVars, gradVars
<1>2. /\ phase = "backward" /\ at \in {"run", "post"} /\ c \in active /\ c \in OwnedBy(blk)
      /\ \A d \in Chunk : refcount[d] > 0 => d \in active /\ d \in OwnedBy(blk)
      /\ \A d \in deferred : refcount[d] > 0 /\ at = "post"
  BY <1>1 DEF LIInv, LInv, Pins
<1>3. /\ refcount \in [Chunk -> 0..MaxHandles] /\ MaxHandles \in Nat /\ deferred \subseteq Chunk
      /\ refcount[c] \in Nat
  BY RuntimeAssumption DEF LIInv, LInv, Types
<1>4. refcount' \in [Chunk -> 0..MaxHandles] /\ refcount'[c] = refcount[c] - 1
      /\ \A d \in Chunk : d # c => refcount'[d] = refcount[d]
  <2>1. refcount[c] \in 0..MaxHandles /\ refcount[c] - 1 \in 0..MaxHandles
    BY <1>1, <1>3
  <2> QED BY <1>1, <1>3, <2>1
<1>5. /\ P!IInv' /\ closed' = FALSE /\ Contents' /\ [P!Next]_(P!vars)
      /\ UNCHANGED <<slotData, largeData>>
      /\ bound' \in [Chunk -> Slot \cup {InLarge, Placeholder, OnCpu}]
      /\ \A d \in Chunk : bound'[d] = OnCpu => bound[d] = OnCpu
      /\ \/ LastHandle(c) /\ active' = active \ {c} /\ deferred' = deferred \ {c}
         \/ ~LastHandle(c) /\ active' = active /\ deferred' = deferred
  <2>0. Ready
    BY DEF Ready, LIInv, LInv
  <2>1. CASE LastHandle(c)
    <3>1. Unbind(c) /\ UNCHANGED <<slotData, largeData>> /\ deferred' = deferred \ {c}
      BY <1>1, <2>1 DEF Unbind
    <3> QED BY <2>0, <2>1, <3>1, Unbound
  <2>2. CASE ~LastHandle(c)
    BY <1>1, <2>0, <2>2, Untouched DEF Ready, Types, dataVars
  <2> QED BY <2>1, <2>2
<1>6. Types'
  BY <1>1, <1>4, <1>5 DEF LIInv, LInv, Types, adamVars
<1>7. Position' /\ ForwardLeases' /\ StepLeases'
  BY <1>1, <1>2 DEF LIInv, LInv, Position, ForwardLeases, StepLeases
<1>8. Pending' = Pending /\ Behind' = Behind
  BY <1>1 DEF Pending, ChunksIn, Behind
<1>9. BackwardLeases'
  <2>1. CASE at = "run"
    <3>1. ~LastHandle(c)
      BY <1>2, <2>1 DEF LastHandle
    <3> QED BY <1>1, <1>5, <1>8, <2>1, <3>1 DEF LIInv, LInv, BackwardLeases
  <2>2. CASE at = "post"
    <3>1. active \subseteq Behind \cup Pending \cup deferred
      BY <1>2, <2>2 DEF LIInv, LInv, BackwardLeases
    <3>2. active' \subseteq Behind' \cup Pending' \cup deferred'
      BY <1>5, <1>8, <3>1
    <3> QED BY <1>1, <2>2, <3>2 DEF BackwardLeases
  <2> QED BY <1>2, <2>1, <2>2
<1>10. Pins'
  <2>1. ASSUME NEW d \in Chunk, refcount'[d] > 0
        PROVE  d \in active' /\ d \in OwnedBy(blk)
    <3>1. CASE d = c
      <4>1. ~LastHandle(c)
        BY <1>3, <1>4, <2>1, <3>1 DEF LastHandle
      <4> QED BY <1>2, <1>5, <3>1, <4>1
    <3>2. CASE d # c
      BY <1>2, <1>4, <1>5, <2>1, <3>2
    <3> QED BY <3>1, <3>2
  <2>2. ASSUME NEW d \in deferred' PROVE refcount'[d] > 0 /\ at = "post"
    <3>1. CASE d = c
      <4>1. ~LastHandle(c) /\ c \in deferred
        BY <1>5, <2>2, <3>1
      <4> QED BY <1>1, <1>2, <1>3, <1>4, <3>1, <4>1 DEF LastHandle
    <3>2. CASE d # c
      BY <1>2, <1>3, <1>4, <1>5, <2>2, <3>2
    <3> QED BY <3>1, <3>2
  <2> QED BY <1>1, <1>2, <2>1, <2>2 DEF Pins, OwnedBy
<1>11. Worker'
  BY <1>1, <1>5 DEF LIInv, LInv, Worker, adamVars
<1> QED BY <1>5, <1>6, <1>7, <1>9, <1>10, <1>11 DEF LIInv, LInv, Preserved

-----------------------------------------------------------------------------
(* The optimizer step, the gradient hooks and the worker.                  *)

LEMMA GradHookStep ==
    ASSUME LIInv, NEW b \in Block, NEW c \in Chunk, GradHook(b, c) PROVE Preserved
<1>1. /\ UNCHANGED <<poolVars, dataVars, active, refcount, deferred, adamVars, sharded>>
      /\ UNCHANGED <<phase, blk, at, micro, steps, todo, err>>
      /\ ready' = ready \/ ready' = ready \cup {c}
  BY DEF GradHook, walkVars
<1>2. Typed
  BY <1>1 DEF LIInv, LInv, Types, Typed
<1>3. Position' /\ ForwardLeases' /\ BackwardLeases' /\ StepLeases' /\ Pins' /\ Worker'
  <2>1. Pending' = Pending /\ Ahead' = Ahead /\ Behind' = Behind /\ OwnedBy(blk)' = OwnedBy(blk)
    BY <1>1 DEF Pending, ChunksIn, Ahead, Behind, OwnedBy
  <2>2. Position' /\ StepLeases'
    BY <1>1 DEF LIInv, LInv, Position, StepLeases
  <2>3. ForwardLeases' /\ BackwardLeases'
    BY <1>1, <2>1 DEF LIInv, LInv, ForwardLeases, BackwardLeases
  <2>4. Pins' /\ Worker'
    BY <1>1, <2>1 DEF LIInv, LInv, Pins, Worker, dataVars, adamVars
  <2> QED BY <2>2, <2>3, <2>4
<1> QED BY <1>1, <1>2, <1>3, Walked

\* A hook of the optimizer step that plans calls: nothing is leased there.
LEMMA SteppedOn ==
    ASSUME LIInv, phase = "step", phase' = "step", todo = <<>>, err = "none", err' = err,
           UNCHANGED <<poolVars, dataVars, active, refcount, adamVars, sharded>>,
           UNCHANGED <<blk, micro, steps>>, ready' \subseteq Chunk, deferred' \subseteq deferred,
           NEW S, CallsFor(todo', OpAt(at'), S),
           at' \in {"launch", "wait", "done"},
           at' # "wait" => queue = <<>> /\ working = NoChunk /\ failed = {}
    PROVE  Preserved
<1>1. active = {} /\ deferred = {} /\ \A c \in Chunk : ~(refcount[c] > 0)
  BY NothingPinned DEF LIInv, LInv, StepLeases
<1>2. todo' \in Seq(Call) /\ \A i \in 1..Len(todo') : todo'[i].op = OpAt(at')
  BY Planned
<1>3. deferred' = deferred
  BY <1>1
<1>4. Typed
  BY <1>2 DEF LIInv, LInv, Types, Typed
<1>5. Position'
  BY <1>2 DEF Position, OpAt
<1>6. ForwardLeases' /\ BackwardLeases' /\ StepLeases'
  BY <1>1 DEF ForwardLeases, BackwardLeases, StepLeases
<1>7. Pins'
  BY <1>1, <1>3 DEF Pins
<1>8. Worker'
  BY DEF LIInv, LInv, Worker, dataVars, adamVars
<1> QED BY <1>3, <1>4, <1>5, <1>6, <1>7, <1>8, Walked

LEMMA ChunksFinite == \A S \in SUBSET Chunk : IsFiniteSet(S) /\ S \in SUBSET Nat
BY RuntimeAssumption, FS_Subset

LEMMA SweepStep == ASSUME LIInv, Sweep PROVE Preserved
<1>1. /\ phase = "step" /\ at = "sweep" /\ todo = <<>> /\ err = "none"
      /\ at' = "launch" /\ UNCHANGED <<phase, blk, micro, steps, err, ready>>
      /\ UNCHANGED <<poolVars, dataVars, active, refcount, deferred, adamVars, sharded>>
      /\ todo' = IF sharded THEN Calls("reduce", SetToSeq(Chunk \ Persistent)) ELSE <<>>
  BY DEF Sweep, Arrive, gradVars
<1>2. \E S : CallsFor(todo', "reduce", S)
  <2>1. SetToSeq(Chunk \ Persistent) \in Seq(Chunk)
    <3>1. SetToSeq(Chunk \ Persistent) \in Seq(Chunk \ Persistent)
      BY ChunksFinite, SetToSeqLists
    <3> QED BY <3>1, SeqMonotonic
  <2>2. CASE sharded
    BY <1>1, <2>1, <2>2, CallsFacts DEF Ops
  <2>3. CASE ~sharded
    BY <1>1, <2>3, NoCalls
  <2> QED BY <2>2, <2>3
<1>3. ready \subseteq Chunk /\ queue = <<>> /\ working = NoChunk /\ failed = {}
  BY <1>1 DEF LIInv, LInv, Types, Worker
<1>4. OpAt(at') = "reduce"
  BY <1>1 DEF OpAt
<1> QED BY <1>1, <1>2, <1>3, <1>4, SteppedOn

LEMMA LaunchAllStep == ASSUME LIInv, LaunchAll PROVE Preserved
<1>1. /\ phase = "step" /\ at = "launch" /\ todo = <<>> /\ err = "none"
      /\ at' = "wait" /\ UNCHANGED <<phase, blk, micro, steps, err>> /\ ready' = {}
      /\ UNCHANGED <<poolVars, dataVars, active, refcount, deferred, adamVars, sharded>>
      /\ todo' = Calls("launch", Sorted(ready))
  BY DEF LaunchAll, Arrive
<1>2. CallsFor(todo', "launch", ready)
  <2>1. ready \subseteq Chunk
    BY DEF LIInv, LInv, Types
  <2>2. Sorted(ready) \in Seq(Chunk) /\ ToSet(Sorted(ready)) = ready
    BY <2>1, ChunksFinite, SortedLists, SeqMonotonic
  <2> QED BY <1>1, <2>2, CallsFacts DEF Ops
<1>3. OpAt(at') = "launch"
  BY <1>1 DEF OpAt
<1> QED BY <1>1, <1>2, <1>3, SteppedOn

LEMMA DrainStep == ASSUME LIInv, Drain PROVE Preserved
<1> DEFINE flush == {c \in deferred : refcount[c] = 0}
<1>1. /\ phase = "step" /\ at = "wait" /\ todo = <<>> /\ err = "none"
      /\ at' = "done" /\ UNCHANGED <<phase, blk, micro, steps, err, ready>>
      /\ UNCHANGED <<poolVars, dataVars, active, refcount, adamVars, sharded>>
      /\ todo' = Calls("offload", SetToSeq(flush))
      /\ deferred' = deferred \ flush
      /\ queue = <<>> /\ working = NoChunk /\ failed = {}
  BY DEF Drain, Arrive, AllOver, gradVars
<1>2. CallsFor(todo', "offload", flush)
  <2>1. flush \subseteq Chunk
    BY DEF LIInv, LInv, Types
  <2>2. SetToSeq(flush) \in Seq(Chunk) /\ ToSet(SetToSeq(flush)) = flush
    BY <2>1, ChunksFinite, SetToSeqLists, SeqMonotonic
  <2> QED BY <1>1, <2>2, CallsFacts DEF Ops
<1>3. OpAt(at') = "offload"
  BY <1>1 DEF OpAt
<1>4. ready \subseteq Chunk
  BY DEF LIInv, LInv, Types
<1> QED BY <1>1, <1>2, <1>3, <1>4, SteppedOn

LEMMA LaunchStep == ASSUME LIInv, NEW c \in Chunk, Launch(c) PROVE Preserved
<1>1. /\ Calling("launch", c) /\ queue' = Append(queue, c)
      /\ bound' = bound \/ bound' = [bound EXCEPT ![c] = OnCpu]
      /\ UNCHANGED <<poolVars, slotData, largeData, active, refcount, deferred>>
      /\ UNCHANGED <<master, working, failed, sharded, phase, blk, at, micro, steps, err, ready>>
  BY DEF Launch, walkVars, gradVars
<1>2. "launch" = OpAt(at) /\ err = "none" /\ todo' \in Seq(Call) /\ Position'
  BY <1>1, Called
<1>3. at = "wait" /\ phase = "step"
  BY <1>2 DEF OpAt, LIInv, LInv, Position
<1>4. active = {}
  BY <1>3 DEF LIInv, LInv, StepLeases
<1>5. /\ queue \in Seq(Chunk) /\ queue' \in Seq(Chunk) /\ ToSet(queue') = ToSet(queue) \cup {c}
  <2>1. queue \in Seq(Chunk)
    BY DEF LIInv, LInv, Types
  <2> QED BY <1>1, <2>1, AppendSet, AppendProperties
<1>6. /\ bound' \in [Chunk -> Slot \cup {InLarge, Placeholder, OnCpu}]
      /\ \A d \in Chunk : bound'[d] = OnCpu => bound[d] = OnCpu \/ d = c
  BY <1>1 DEF LIInv, LInv, Types
<1>7. P!IInv' /\ closed' = FALSE /\ [P!Next]_(P!vars)
  <2>1. UNCHANGED P!vars
    BY <1>1 DEF poolVars, P!vars, P!pool, Holders
  <2> QED BY <1>1, <2>1, PoolStep DEF LIInv, poolVars
<1>8. Contents'
  BY <1>1, <1>4 DEF LIInv, LInv, Contents, poolVars
<1>9. Types'
  BY <1>1, <1>2, <1>5, <1>6 DEF LIInv, LInv, Types
<1>10. ForwardLeases' /\ BackwardLeases' /\ StepLeases'
  BY <1>1, <1>3, <1>4 DEF ForwardLeases, BackwardLeases, StepLeases
<1>11. Pins'
  BY <1>1, <1>3, NothingPinned DEF Pins
<1>12. Worker'
  BY <1>1, <1>3, <1>5, <1>6 DEF LIInv, LInv, Worker
<1> QED BY <1>2, <1>7, <1>8, <1>9, <1>10, <1>11, <1>12 DEF LIInv, LInv, Preserved

\* What the worker does: it moves chunks from its queue, and frees their
\* parameters from the CPU.
LEMMA WorkerStep ==
    ASSUME LIInv, AdamBegin \/ AdamEnd \/ AdamFails PROVE Preserved
<1>1. /\ UNCHANGED <<poolVars, slotData, largeData, active, refcount, deferred>>
      /\ UNCHANGED <<sharded, phase, blk, at, micro, steps, err, ready, todo>>
  BY DEF AdamBegin, AdamEnd, AdamFails, walkVars, gradVars, dataVars
<1>2. /\ queue \in Seq(Chunk) /\ working \in Chunk \cup {NoChunk} /\ failed \subseteq Chunk
      /\ master \in [Chunk -> Nat] /\ NoChunk \notin Chunk /\ OnCpu # Placeholder
      /\ bound \in [Chunk -> Slot \cup {InLarge, Placeholder, OnCpu}]
  BY RuntimeAssumption DEF LIInv, LInv, Types
<1>3. at = "wait" /\ phase = "step"
  <2>1. queue # <<>> \/ working # NoChunk
    BY DEF AdamBegin, AdamEnd, AdamFails
  <2> QED BY <2>1 DEF LIInv, LInv, Worker, Position
<1>4. active = {}
  BY <1>3 DEF LIInv, LInv, StepLeases
<1>5. /\ queue' \in Seq(Chunk) /\ working' \in Chunk \cup {NoChunk} /\ failed' \subseteq Chunk
      /\ master' \in [Chunk -> Nat]
      /\ bound' \in [Chunk -> Slot \cup {InLarge, Placeholder, OnCpu}]
      /\ \A d \in Chunk : bound'[d] = OnCpu => d \in ToSet(queue') \cup {working'} \cup failed'
  <2>0. \A d \in Chunk : bound[d] = OnCpu => d \in ToSet(queue) \cup {working} \cup failed
    BY DEF LIInv, LInv, Worker
  <2>1. CASE AdamBegin
    <3>1. /\ working = NoChunk /\ queue # <<>> /\ working' = Head(queue) /\ queue' = Tail(queue)
          /\ UNCHANGED <<failed, master, bound>>
      BY <2>1 DEF AdamBegin, dataVars
    <3>2. /\ Head(queue) \in Chunk /\ Tail(queue) \in Seq(Chunk)
          /\ ToSet(queue) = {Head(queue)} \cup ToSet(Tail(queue))
      BY <1>2, <3>1, TailSet
    <3> QED BY <1>2, <2>0, <3>1, <3>2
  <2>2. CASE AdamEnd
    <3>1. /\ working \in Chunk /\ working' = NoChunk /\ UNCHANGED <<queue, failed>>
          /\ master' = [master EXCEPT ![working] = @ + 1]
          /\ bound' = [bound EXCEPT ![working] = IF @ = OnCpu THEN Placeholder ELSE @]
      BY <1>2, <2>2 DEF AdamEnd
    <3>2. /\ master' \in [Chunk -> Nat]
          /\ bound' \in [Chunk -> Slot \cup {InLarge, Placeholder, OnCpu}]
      BY <1>2, <3>1
    <3>3. \A d \in Chunk : bound'[d] = OnCpu => d # working /\ bound[d] = OnCpu
      BY <1>2, <3>1
    <3> QED BY <1>2, <2>0, <3>1, <3>2, <3>3
  <2>3. CASE AdamFails
    <3>1. /\ working \in Chunk /\ working' = NoChunk /\ failed' = failed \cup {working}
          /\ UNCHANGED <<queue, master, bound>>
      BY <1>2, <2>3 DEF AdamFails, dataVars
    <3> QED BY <1>2, <2>0, <3>1
  <2> QED BY <2>1, <2>2, <2>3
<1>6. P!IInv' /\ closed' = FALSE /\ [P!Next]_(P!vars)
  <2>1. UNCHANGED P!vars
    BY <1>1 DEF poolVars, P!vars, P!pool, Holders
  <2> QED BY <1>1, <2>1, PoolStep DEF LIInv, poolVars
<1>7. Contents'
  BY <1>1, <1>4 DEF LIInv, LInv, Contents, poolVars
<1>8. Types'
  BY <1>1, <1>5 DEF LIInv, LInv, Types
<1>9. ForwardLeases' /\ BackwardLeases' /\ StepLeases'
  BY <1>1, <1>3, <1>4 DEF ForwardLeases, BackwardLeases, StepLeases
<1>10. Pins' /\ Position'
  BY <1>1, <1>3, NothingPinned DEF Pins, LIInv, LInv, Position
<1>11. Worker'
  BY <1>1, <1>3, <1>5 DEF Worker
<1> QED BY <1>6, <1>7, <1>8, <1>9, <1>10, <1>11 DEF LIInv, LInv, Preserved

LEMMA WaitRaisesStep == ASSUME LIInv, WaitRaises PROVE Preserved
<1>1. /\ phase = "step" /\ at = "wait" /\ todo = <<>> /\ err' = "adam"
      /\ UNCHANGED <<phase, at, blk, micro, steps, todo, ready>>
      /\ UNCHANGED <<poolVars, dataVars, active, refcount, deferred, adamVars, sharded>>
  BY DEF WaitRaises, Arrive, walkVars, gradVars
<1>2. active = {}
  BY <1>1 DEF LIInv, LInv, StepLeases
<1>3. Typed
  BY <1>1 DEF LIInv, LInv, Types, Typed
<1>4. Position'
  BY <1>1, NoCalls DEF Position, LIInv, LInv
<1>5. ForwardLeases' /\ BackwardLeases' /\ StepLeases' /\ Pins'
  BY <1>1, <1>2, NothingPinned DEF ForwardLeases, BackwardLeases, StepLeases, Pins
<1>6. Worker'
  BY <1>1 DEF LIInv, LInv, Worker, dataVars, adamVars
<1> QED BY <1>1, <1>3, <1>4, <1>5, <1>6, Walked

LEMMA NextStepStep == ASSUME LIInv, NextStep PROVE Preserved
<1>1. /\ phase = "step" /\ at = "done" /\ todo = <<>> /\ err = "none"
      /\ steps < MaxSteps /\ steps' = steps + 1
      /\ phase' = "forward" /\ blk' = 1 /\ at' = "pre"
      /\ UNCHANGED <<micro, err, todo, ready>>
      /\ UNCHANGED <<poolVars, dataVars, active, refcount, deferred, adamVars, sharded>>
  BY DEF NextStep, Arrive, gradVars
<1>2. active = {}
  BY <1>1 DEF LIInv, LInv, StepLeases
<1>3. steps' \in 0..MaxSteps /\ 1 \in Block
  <2>1. MaxSteps \in Nat /\ steps \in 0..MaxSteps
    BY RuntimeAssumption DEF LIInv, LInv, Types
  <2> QED BY <1>1, <2>1, BlockFacts
<1>4. Typed
  BY <1>1, <1>3 DEF LIInv, LInv, Types, Typed
<1>5. Position'
  BY <1>1, NoCalls DEF Position
<1>6. ForwardLeases' /\ BackwardLeases' /\ StepLeases' /\ Pins'
  BY <1>1, <1>2, NothingPinned DEF ForwardLeases, BackwardLeases, StepLeases, Pins
<1>7. Worker'
  BY <1>1 DEF LIInv, LInv, Worker, dataVars, adamVars
<1> QED BY <1>1, <1>4, <1>5, <1>6, <1>7, Walked

LEMMA StutterStep == ASSUME LIInv, UNCHANGED vars PROVE Preserved
<1>1. /\ UNCHANGED <<poolVars, dataVars, active, refcount, deferred, adamVars, sharded>>
      /\ UNCHANGED <<phase, blk, at, micro, steps, todo, err, ready>>
  BY DEF vars, walkVars, gradVars
<1>2. Typed
  BY <1>1 DEF LIInv, LInv, Types, Typed
<1>3. Pending' = Pending /\ Ahead' = Ahead /\ Behind' = Behind /\ OwnedBy(blk)' = OwnedBy(blk)
  BY <1>1 DEF Pending, ChunksIn, Ahead, Behind, OwnedBy
<1>4. Position' /\ StepLeases'
  BY <1>1 DEF LIInv, LInv, Position, StepLeases
<1>5. ForwardLeases' /\ BackwardLeases'
  BY <1>1, <1>3 DEF LIInv, LInv, ForwardLeases, BackwardLeases
<1>6. Pins' /\ Worker'
  BY <1>1, <1>3 DEF LIInv, LInv, Pins, Worker, dataVars, adamVars
<1> QED BY <1>1, <1>2, <1>4, <1>5, <1>6, Walked

\* Whatever the runtime does, the leases stay as they should, and for the
\* pool it is a step of a well-behaved client.
LEMMA StepPreserves == LIInv /\ [Next]_vars => Preserved
<1> SUFFICES ASSUME LIInv, [Next]_vars PROVE Preserved
  OBVIOUS
<1>1. ASSUME NEW c \in Chunk, Gather(c) \/ Offload(c) \/ Reduce(c) \/ Launch(c) PROVE Preserved
  BY <1>1, GatherStep, OffloadStep, ReduceStep, LaunchStep
<1>2. ASSUME NEW c \in Chunk, Unpack(c) \/ DropHandle(c) PROVE Preserved
  BY <1>2, UnpackStep, DropHandleStep
<1>3. ASSUME NEW b \in Block, NEW c \in Chunk, GradHook(b, c) PROVE Preserved
  BY <1>3, GradHookStep
<1>4. ASSUME ForwardPre \/ ForwardPost \/ ForwardNext PROVE Preserved
  BY <1>4, ForwardPreStep, ForwardPostStep, ForwardNextStep
<1>5. ASSUME BackwardPre \/ BackwardAhead \/ BackwardPost \/ BackwardNext PROVE Preserved
  BY <1>5, BackwardPreStep, BackwardAheadStep, BackwardPostStep, BackwardNextStep
<1>6. ASSUME Sweep \/ LaunchAll \/ WaitRaises \/ Drain \/ NextStep PROVE Preserved
  BY <1>6, SweepStep, LaunchAllStep, WaitRaisesStep, DrainStep, NextStepStep
<1>7. ASSUME Finished \/ Raised \/ UNCHANGED vars PROVE Preserved
  BY <1>7, StutterStep DEF Finished, Raised
<1>8. ASSUME AdamBegin \/ AdamEnd \/ AdamFails PROVE Preserved
  BY <1>8, WorkerStep
<1> QED BY <1>1, <1>2, <1>3, <1>4, <1>5, <1>6, <1>7, <1>8 DEF Next

LEMMA InitLIInv == Init => LIInv
<1> SUFFICES ASSUME Init PROVE LIInv
  OBVIOUS
<1>1. Pool!Init /\ active = {}
  BY DEF Init
<1>2. P!IInv
  BY <1>1, SamePool, PoolInit
<1>3. closed = FALSE /\ tagSlot = [c \in Chunk |-> NoSlot]
  BY <1>1 DEF Pool!Init
<1>4. todo \in Seq(Call) /\ queue \in Seq(Chunk) /\ todo = <<>> /\ queue = <<>>
  BY EmptySeq DEF Init
<1>5. Types
  <2>1. MaxHandles \in Nat /\ MaxSteps \in Nat /\ MicroBatches \in Nat \ {0} /\ Sharding \subseteq BOOLEAN
    BY RuntimeAssumption
  <2>2. slotData \in [Slot -> [chunk : Chunk \cup {NoChunk}, ver : Nat]]
    BY DEF Init, NoData
  <2> QED BY <1>1, <1>4, <2>1, <2>2, BlockFacts DEF Init, Types
<1>6. Position
  BY <1>4, NoCalls DEF Init, Position
<1>7. ForwardLeases /\ BackwardLeases /\ StepLeases
  BY DEF Init, ForwardLeases, BackwardLeases, StepLeases
<1>8. Pins
  BY DEF Init, Pins
<1>9. Worker
  <2>1. \A c \in Chunk : bound[c] # OnCpu
    BY RuntimeAssumption DEF Init
  <2> QED BY <2>1 DEF Init, Worker
<1>10. Contents
  BY <1>1, <1>3 DEF Contents
<1> QED BY <1>2, <1>3, <1>5, <1>6, <1>7, <1>8, <1>9, <1>10 DEF LIInv, LInv

-----------------------------------------------------------------------------
(* What follows for every run.                                             *)

\* The inductive invariant: what is leased, pinned and pending at each place
\* of the walk, together with the pool's own invariant.
THEOREM LeaseInvariant == Spec => []LIInv
<1>1. LIInv /\ [Next]_vars => LIInv'
  BY StepPreserves DEF Preserved
<1> QED BY <1>1, InitLIInv, PTL DEF Spec

\* The manager is a well-behaved caller of the pool: every step of the runtime
\* is a step of BufferPool with the active chunks as its leases, or none.
THEOREM UsesPoolWellHolds == Spec => UsesPoolWell
<1>1. Init => Pool!Init
  BY DEF Init
<1>2. LIInv /\ [Next]_vars => [Pool!Next]_(Pool!vars)
  BY StepPreserves, SamePool DEF Preserved
<1> QED BY <1>1, <1>2, LeaseInvariant, PTL DEF Spec, UsesPoolWell, Pool!Spec

\* While a block computes, each of its chunks is leased and its parameters
\* point into its own buffer, whole; a live view keeps its chunk in place.
THEOREM ComputeReadsOwnBufferHolds == Spec => []ComputeReadsOwnBuffer
<1>1. LIInv => ComputeReadsOwnBuffer
  <2> SUFFICES ASSUME LIInv PROVE ComputeReadsOwnBuffer
    OBVIOUS
  <2>0. active \subseteq Chunk /\ P!IInv
    BY DEF LIInv, LInv, Types
  <2>1. ASSUME NEW c \in active
        PROVE  BytesOf(c).chunk = c /\ bound[c] = BufferOf(c) /\ BytesOf(c).ver # Torn
    <3>1. bound[c] = BufferOf(c)
      BY DEF LIInv, LInv, Contents
    <3>2. CASE c \in Large
      <4>1. largeData[c] \in Nat /\ BytesOf(c) = [chunk |-> c, ver |-> largeData[c]]
        BY <3>2 DEF LIInv, LInv, Types, BytesOf
      <4> QED BY <3>1, <4>1 DEF Torn
    <3>3. CASE c \notin Large
      <4>1. tagSlot[c] \in Slot /\ tagSlot[c] # NoSlot /\ c \in Chunk \ Large
        BY <2>0, <3>3, PoolFacts
      <4>2. BytesOf(c) = slotData[tagSlot[c]] /\ slotData[tagSlot[c]].chunk = c
        BY <3>3, <4>1 DEF LIInv, LInv, Contents, BytesOf
      <4>3. slotData[tagSlot[c]].ver \in Nat
        BY <4>1 DEF LIInv, LInv, Types
      <4> QED BY <3>1, <4>2, <4>3 DEF Torn
    <3> QED BY <3>2, <3>3
  <2>2. ASSUME Computing PROVE OwnedBy(blk) \subseteq active
    <3>1. at = "run" /\ Pending = {}
      BY <2>2, NoCalls DEF Computing, Pending
    <3>2. phase \in {"forward", "backward"}
      BY <3>1 DEF LIInv, LInv, Position
    <3> QED BY <3>1, <3>2 DEF LIInv, LInv, ForwardLeases, BackwardLeases
  <2>3. \A c \in Chunk : refcount[c] > 0 => c \in active
    BY DEF LIInv, LInv, Pins
  <2> QED BY <2>1, <2>2, <2>3 DEF ComputeReadsOwnBuffer
<1> QED BY <1>1, LeaseInvariant, PTL

\* At the floor of min_n_buffer_for, or above it, the walk never finds the
\* pool exhausted.
THEOREM FloorSufficesHolds == Spec => []FloorSuffices
<1>1. LIInv => FloorSuffices
  BY DEF LIInv, LInv, Position, FloorSuffices
<1> QED BY <1>1, LeaseInvariant, PTL

-----------------------------------------------------------------------------
(* Gradients and steps, on top of the leases.                              *)

GIInv == LIInv /\ GInv

LEMMA OwnFacts ==
    ASSUME NEW c \in Stepped
    PROVE  /\ c \in Chunk /\ c \in Trainable /\ c \notin Persistent
           /\ IsFiniteSet(Own(c)) /\ Own(c) # {} /\ Own(c) \subseteq Block
           /\ GradInitial(c) = Cardinality(Own(c))
           /\ GradInitial(c) \in Nat \ {0} /\ GradInitial(c) <= NBlocks
<1>1. c \in Chunk /\ c \in Trainable /\ c \notin Persistent
  BY RuntimeAssumption DEF Stepped
<1>2. PICK b \in Block : c \in ToSet(ChunksOf[b])
  BY RuntimeAssumption DEF Stepped
<1>3. b \in Own(c)
  BY <1>1, <1>2 DEF Own, OwnedBy
<1>4. IsFiniteSet(Block) /\ Cardinality(Block) = NBlocks
  <2>1. 1 \in Int /\ NBlocks \in Int /\ NBlocks \in Nat \ {0}
    BY BlockFacts
  <2> QED BY <2>1, FS_Interval DEF Block
<1>5. Own(c) \subseteq Block
  BY DEF Own
<1>6. IsFiniteSet(Own(c)) /\ Cardinality(Own(c)) <= NBlocks
  BY <1>4, <1>5, FS_Subset
<1>7. Cardinality(Own(c)) \in Nat /\ Cardinality(Own(c)) # 0
  BY <1>3, <1>6, FS_CardinalityType, FS_EmptySet
<1>8. GradInitial(c) = Cardinality(Own(c))
  BY <1>1 DEF GradInitial, Own
<1> QED BY <1>1, <1>3, <1>5, <1>6, <1>7, <1>8

LEMMA NeverStepped == \A c \in Chunk \ Stepped : GradInitial(c) = 0
BY DEF Stepped, GradInitial

LEMMA FiredFacts ==
    ASSUME NEW c \in Stepped
    PROVE  /\ Fired(c) \subseteq Own(c) /\ IsFiniteSet(Fired(c))
           /\ Cardinality(Fired(c)) \in Nat /\ Cardinality(Fired(c)) <= GradInitial(c)
           /\ Cardinality(Fired(c)) = GradInitial(c) <=> Fired(c) = Own(c)
<1>1. Fired(c) \subseteq Own(c)
  BY DEF Fired
<1>2. IsFiniteSet(Own(c)) /\ GradInitial(c) = Cardinality(Own(c))
  BY OwnFacts
<1> QED BY <1>1, <1>2, FS_Subset, FS_CardinalityType

\* Steps that neither fire a gradient nor touch the optimizer.
LEMMA Quiet ==
    ASSUME GInv, UNCHANGED <<gpuGrads, remaining, ready, due>>,
           UNCHANGED <<master, queue, working, failed, sharded, micro, steps>>,
           {at, at'} \cap {"sweep", "launch", "wait"} = {},
           at' = "done" <=> at = "done", phase' = "step" <=> phase = "step",
           Passed' = Passed, Copies'
    PROVE  GInv'
<1>1. \A c : Fired(c)' = Fired(c)
  BY DEF Fired, Own, OwnedBy
<1>2. Unstepped' = Unstepped
  BY DEF Unstepped, Stepped
<1>3. Owed'
  BY DEF GInv, Owed, OwnedBy
<1>4. Replicated'
  BY <1>1 DEF GInv, Replicated, Own, OwnedBy, GradInitial, Stepped
<1>5. Sharded'
  BY <1>1 DEF GInv, Sharded, GradInitial, Stepped
<1>6. Counters' /\ Versions' /\ OneAtATime'
  BY <1>2 DEF GInv, Counters, Versions, OneAtATime, Stepped
<1> QED BY <1>3, <1>4, <1>5, <1>6 DEF GInv

\* Steps that change nothing the invariant is about.
LEMMA QuietStep ==
    ASSUME GInv, UNCHANGED <<gpuGrads, remaining, ready, due, todo, phase, blk, at>>,
           UNCHANGED <<master, queue, working, failed, sharded, micro, steps>>,
           UNCHANGED <<slotData, largeData>>
    PROVE  GInv'
<1>0. Passed' = Passed /\ Pending' = Pending
  BY DEF Passed, Pending, ChunksIn
<1>1. \A c : Fired(c)' = Fired(c)
  BY <1>0 DEF Fired, Own, OwnedBy
<1>2. Unstepped' = Unstepped
  BY <1>0 DEF Unstepped, Stepped
<1>3. Owed'
  BY <1>0 DEF GInv, Owed, OwnedBy
<1>4. Replicated'
  BY <1>1 DEF GInv, Replicated, Own, OwnedBy, GradInitial, Stepped
<1>5. Sharded'
  BY <1>0, <1>1 DEF GInv, Sharded, GradInitial, Stepped
<1>6. Counters' /\ Versions' /\ OneAtATime' /\ Copies'
  BY <1>0, <1>2 DEF GInv, Counters, Versions, OneAtATime, Copies, Stepped
<1> QED BY <1>3, <1>4, <1>5, <1>6 DEF GInv

LEMMA CopiesStill == Copies /\ UNCHANGED <<slotData, largeData>> => Copies'
BY DEF Copies

\* No master copy is ahead of the last step, so no fetched copy is.
LEMMA FetchCopies ==
    ASSUME GIInv, NEW c \in Chunk, Fetch(c)
    PROVE  Copies'
<1>1. MasterBytes(c) = master[c]
  BY DEF Fetch, AdamDone, MasterBytes
<1>2. master[c] \in Nat /\ master[c] <= MaxSteps + 1
  <2>1. steps \in 0..MaxSteps /\ MaxSteps \in Nat /\ master[c] \in Nat
    BY RuntimeAssumption DEF GIInv, LIInv, LInv, Types
  <2>2. master[c] \in {0, steps, steps + 1}
    BY DEF GIInv, GInv, Versions
  <2> QED BY <2>1, <2>2
<1>3. \/ UNCHANGED <<slotData, largeData>>
      \/ CopyIn(c, tagSlot'[c])
  <2>1. CASE UNCHANGED dataVars
    BY <2>1 DEF dataVars
  <2>2. CASE ~UNCHANGED dataVars
    BY <2>2 DEF Fetch
  <2> QED BY <2>1, <2>2
<1>4. CASE CopyIn(c, tagSlot'[c])
  <2>1. /\ slotData \in [Slot -> [chunk : Chunk \cup {NoChunk}, ver : Nat]]
        /\ largeData \in [Large -> Nat]
    BY DEF GIInv, LIInv, LInv, Types
  <2>2. \A s \in Slot : slotData'[s] = slotData[s] \/ slotData'[s].ver = master[c]
    BY <1>1, <1>4, <2>1 DEF CopyIn
  <2>3. \A d \in Large : largeData'[d] = largeData[d] \/ largeData'[d] = master[c]
    BY <1>1, <1>4, <2>1 DEF CopyIn
  <2> QED BY <1>2, <2>2, <2>3 DEF Copies, GIInv, GInv
<1> QED BY <1>3, <1>4, CopiesStill DEF GIInv, GInv

LEMMA GatherGrads ==
    ASSUME GIInv, NEW c \in Chunk, Gather(c) \/ Unpack(c) PROVE GInv'
<1>1. LIInv'
  BY GatherStep, UnpackStep DEF GIInv, Preserved
<1>2. /\ UNCHANGED <<gpuGrads, remaining, ready, due, master, queue, working, failed>>
      /\ UNCHANGED <<sharded, micro, steps, phase, blk, at>>
  BY DEF Gather, Unpack, gradVars, adamVars, walkVars
<1>3. at \in {"ahead", "run"}
  <2>1. CASE Gather(c)
    <3>1. Calling("gather", c) /\ err' = "none" /\ err = "none"
      BY <2>1, GatherStep DEF GIInv, Gather, Calling
    <3>2. "gather" = OpAt(at) /\ at \notin {"pre", "sweep"}
      BY <1>2, <3>1, Called DEF GIInv
    <3> QED BY <3>2 DEF GIInv, LIInv, LInv, Position, OpAt
  <2>2. CASE Unpack(c)
    BY <2>2 DEF Unpack, Arrive
  <2> QED BY <2>1, <2>2
<1>4. Copies'
  <2>1. CASE Fetch(c)
    BY <2>1, FetchCopies
  <2>2. CASE UNCHANGED dataVars
    BY <2>2, CopiesStill DEF dataVars, GIInv, GInv
  <2> QED BY <2>1, <2>2 DEF Gather, Unpack
<1>5. Passed' = Passed
  BY <1>2 DEF Passed
<1> QED BY <1>2, <1>3, <1>4, <1>5, Quiet DEF GIInv

LEMMA OffloadGrads ==
    ASSUME GIInv, NEW c \in Chunk, Offload(c) \/ DropHandle(c) PROVE GInv'
<1>1. /\ UNCHANGED <<gpuGrads, remaining, ready, due, master, queue, working, failed>>
      /\ UNCHANGED <<sharded, micro, steps, phase, blk, at, err>>
  BY DEF Offload, DropHandle, gradVars, adamVars, walkVars
<1>2. UNCHANGED <<slotData, largeData>>
  BY DEF Offload, DropHandle, OffloadOrDefer, Unbind, dataVars
<1>3. at \notin {"sweep", "launch", "wait"}
  <2>1. CASE Offload(c)
    <3>1. "offload" = OpAt(at) /\ at \notin {"pre", "sweep"}
      BY <1>1, <2>1, Called DEF GIInv, Offload
    <3> QED BY <3>1 DEF OpAt
  <2>2. CASE DropHandle(c)
    BY <2>2 DEF DropHandle, GIInv, LIInv, LInv, Pins
  <2> QED BY <2>1, <2>2
<1>4. Copies'
  BY <1>2, CopiesStill DEF GIInv, GInv
<1>5. Passed' = Passed
  BY <1>1 DEF Passed
<1> QED BY <1>1, <1>3, <1>4, <1>5, Quiet DEF GIInv

LEMMA ForwardGrads ==
    ASSUME GIInv, ForwardPre \/ ForwardPost \/ ForwardNext \/ BackwardPre \/ BackwardAhead
    PROVE  GInv'
<1>1. /\ UNCHANGED <<gpuGrads, remaining, ready, due, master, queue, working, failed>>
      /\ UNCHANGED <<sharded, micro, steps, slotData, largeData>>
      /\ phase # "step" /\ phase' # "step"
      /\ at \in {"pre", "ahead", "run", "post"} /\ at' \in {"pre", "ahead", "run", "post"}
  BY DEF ForwardPre, ForwardPost, ForwardNext, BackwardPre, BackwardAhead, Arrive,
         gradVars, adamVars, dataVars
<1>2. Passed' = Passed
  <2>1. blk \in Block
    BY DEF GIInv, LIInv, LInv, Types
  <2>2. CASE ForwardPre \/ ForwardPost
    BY <2>2 DEF ForwardPre, ForwardPost, Arrive, Passed
  <2>3. CASE ForwardNext
    <3>1. CASE blk < NBlocks
      BY <2>3, <3>1 DEF ForwardNext, Arrive, Passed
    <3>2. CASE ~(blk < NBlocks)
      <4>1. blk = NBlocks
        BY <2>1, <3>2, BlockFacts
      <4>2. at' = "pre" /\ blk' = NBlocks /\ phase = "forward"
        BY <2>3, <3>2, <4>1 DEF ForwardNext, Arrive
      <4>3. \A b \in Block : ~(b > NBlocks)
        BY BlockFacts
      <4> QED BY <4>2, <4>3 DEF Passed
    <3> QED BY <3>1, <3>2
  <2>4. CASE BackwardPre \/ BackwardAhead
    BY <2>4 DEF BackwardPre, BackwardAhead, Arrive, Passed
  <2> QED BY <2>2, <2>3, <2>4
<1>3. Copies'
  BY <1>1, CopiesStill DEF GIInv, GInv
<1>4. at' = "done" <=> at = "done"
  BY <1>1
<1>5. {at, at'} \cap {"sweep", "launch", "wait"} = {}
  BY <1>1
<1>6. phase' = "step" <=> phase = "step"
  BY <1>1
<1> QED BY <1>1, <1>2, <1>3, <1>4, <1>5, <1>6, Quiet DEF GIInv


\* post_block_backward: the block's leaves owe their gradients.
LEMMA BackwardPostGrads == ASSUME GIInv, BackwardPost PROVE GInv'
<1>1. /\ UNCHANGED <<gpuGrads, remaining, ready, master, queue, working, failed>>
      /\ UNCHANGED <<sharded, micro, steps, slotData, largeData, blk>>
      /\ phase = "backward" /\ phase' = "backward" /\ at = "run" /\ at' = "post"
      /\ due' = due \cup {<<blk, c>> : c \in OwnedBy(blk) \cap Trainable}
  BY DEF BackwardPost, Arrive, adamVars, dataVars
<1>2. blk \in Block /\ blk \in Nat
  BY BlockFacts DEF GIInv, LIInv, LInv, Types
<1>3. \A b \in Block : b \in Nat
  BY BlockFacts
<1>4. Passed' = Passed \cup {blk} /\ blk \notin Passed
  BY <1>1, <1>2, <1>3 DEF Passed
<1>5. \A c \in Stepped : Fired(c)' = Fired(c)
  <2> SUFFICES ASSUME NEW c \in Stepped PROVE Fired(c)' = Fired(c)
    OBVIOUS
  <2>1. Own(c)' = Own(c)
    BY DEF Own, OwnedBy
  <2>2. \A b \in Block \ {blk} : <<b, c>> \in due' <=> <<b, c>> \in due
    BY <1>1
  <2>3. blk \in Own(c) => <<blk, c>> \in due'
    BY <1>1, OwnFacts DEF Own
  <2>4. blk \notin Fired(c) /\ blk \notin Fired(c)'
    BY <1>4, <2>1, <2>3 DEF Fired
  <2>5. Own(c) \subseteq Block
    BY DEF Own
  <2> QED BY <1>4, <2>1, <2>2, <2>4, <2>5 DEF Fired
<1>6. Owed'
  <2>1. due' \subseteq Block \X Chunk
    BY <1>1, <1>2, OwnedByType DEF GIInv, GInv, Owed
  <2>2. ASSUME NEW b \in Block, NEW c \in Chunk, <<b, c>> \in due'
        PROVE  b \in Passed' /\ c \in OwnedBy(b) /\ c \in Trainable
    <3>1. CASE <<b, c>> \in due
      BY <1>4, <3>1 DEF GIInv, GInv, Owed
    <3>2. CASE <<b, c>> \notin due
      BY <1>1, <1>4, <2>2, <3>2
    <3> QED BY <3>1, <3>2
  <2> QED BY <2>1, <2>2 DEF Owed, OwnedBy
<1>7. Replicated'
  BY <1>1, <1>5 DEF GIInv, GInv, Replicated, Own, OwnedBy, GradInitial, Stepped
<1>8. Sharded'
  BY <1>1, <1>5 DEF GIInv, GInv, Sharded, GradInitial, Stepped
<1>9. Counters' /\ Versions' /\ OneAtATime' /\ Copies'
  <2>1. Unstepped' = Unstepped
    BY <1>1 DEF Unstepped, Stepped
  <2>2. Copies'
    BY <1>1, CopiesStill DEF GIInv, GInv
  <2> QED BY <1>1, <2>1, <2>2 DEF GIInv, GInv, Counters, Versions, OneAtATime, Stepped
<1> QED BY <1>6, <1>7, <1>8, <1>9 DEF GInv

\* Autograd moves on.
LEMMA BackwardNextGrads == ASSUME GIInv, BackwardNext PROVE GInv'
<1>1. /\ UNCHANGED <<gpuGrads, remaining, ready, due, master, queue, working, failed>>
      /\ UNCHANGED <<sharded, steps, slotData, largeData>>
      /\ phase = "backward" /\ at = "post" /\ at' \in {"pre", "sweep"}
  BY DEF BackwardNext, Arrive, gradVars, adamVars, dataVars
<1>2. blk \in Block /\ blk \in Nat /\ blk >= 1 /\ \A b \in Block : b \in Nat /\ b >= 1
  BY BlockFacts DEF GIInv, LIInv, LInv, Types
<1>3. Copies'
  BY <1>1, CopiesStill DEF GIInv, GInv
<1>4. CASE blk > 1
  <2>1. blk' = blk - 1 /\ at' = "pre" /\ UNCHANGED <<phase, micro>>
    BY <1>4 DEF BackwardNext
  <2>2. Passed' = Passed
    <3>1. \A b \in Block : b > blk - 1 <=> b > blk \/ b = blk
      BY <1>2
    <3>2. Passed' = {b \in Block : b > blk - 1}
      BY <1>1, <1>2, <2>1 DEF Passed, Block
    <3>3. Passed = {b \in Block : b > blk \/ b = blk}
      BY <1>1, <1>2 DEF Passed
    <3> QED BY <3>1, <3>2, <3>3
  <2> QED BY <1>1, <1>3, <2>1, <2>2, Quiet DEF GIInv
<1>5. CASE ~(blk > 1)
  <2>1. due = {} /\ blk = 1 /\ blk' = 1
    BY <1>2, <1>5 DEF BackwardNext
  <2>2. Passed = Block /\ due' = {}
    <3>1. \A b \in Block : b > blk \/ b = blk
      BY <1>2, <2>1
    <3>2. Passed = {b \in Block : b > blk \/ b = blk}
      BY <1>1 DEF Passed
    <3> QED BY <1>1, <2>1, <3>1, <3>2
  <2>3. \A c \in Stepped : Fired(c) = Own(c) /\ Own(c) # {}
    BY <2>1, <2>2, OwnFacts DEF Fired
  <2>4. phase' # "backward" /\ Passed' = {}
    BY <1>5 DEF BackwardNext, Passed
  <2>5. \A c \in Stepped : Fired(c)' = {} /\ GradInitial(c)' = GradInitial(c) /\ Own(c)' = Own(c)
    BY <2>4 DEF Fired, Own, GradInitial, OwnedBy
  <2>6. \A c \in Stepped : /\ Own(c) # {} /\ Cardinality({}) = 0
                           /\ GradInitial(c) \in Nat
    BY OwnFacts, FS_EmptySet
  <2>7. micro \in Nat /\ micro >= 1 /\ MicroBatches \in Nat
    BY RuntimeAssumption DEF GIInv, LIInv, LInv, Types
  <2>8. Owed'
    BY <2>2 DEF Owed
  <2>9. Unstepped' = Unstepped
    BY <1>1 DEF Unstepped, Stepped
  <2>10. \/ phase' = "forward" /\ at' = "pre" /\ micro' = micro + 1
         \/ phase' = "step" /\ at' = "sweep" /\ micro' = 1
    BY <1>5 DEF BackwardNext
  <2>11. \A c \in Stepped : ~sharded => remaining[c] = GradInitial(c)
    BY <2>3 DEF GIInv, GInv, Replicated
  <2>12. ~sharded => ready = Stepped /\ gpuGrads = {}
    BY <1>1, <2>3 DEF GIInv, GInv, Replicated
  <2>13. sharded => gpuGrads = Stepped /\ ready = {}
    BY <1>1, <2>3 DEF GIInv, GInv, Sharded
  <2>14. Replicated'
    <3>1. ASSUME ~sharded, NEW c \in Stepped
          PROVE  remaining'[c] = IF Fired(c)' = Own(c)' THEN GradInitial(c)'
                                 ELSE GradInitial(c)' - Cardinality(Fired(c)')
      <4>1. remaining'[c] = GradInitial(c)
        BY <1>1, <2>11, <3>1
      <4>2. GradInitial(c)' = GradInitial(c) /\ Fired(c)' = {}
        BY <2>5
      <4>3. Cardinality(Fired(c)') = 0 /\ GradInitial(c) - 0 = GradInitial(c)
        BY <2>6, <4>2
      <4> QED BY <4>1, <4>2, <4>3
    <3>2. ASSUME ~sharded
          PROVE  gpuGrads' = {} /\ ready' = {c \in Stepped : micro' > 1 \/ phase' = "step" \/ Fired(c)' = Own(c)'}
      BY <1>1, <2>7, <2>10, <2>12, <3>2
    <3> QED BY <1>1, <3>1, <3>2 DEF Replicated, Stepped
  <2>15. Sharded'
    <3>1. ASSUME sharded
          PROVE  /\ gpuGrads' = Stepped /\ ready' = {}
                 /\ phase' # "step" => gpuGrads' = {c \in Stepped : micro' > 1 \/ Fired(c)' # {}}
                 /\ \A c \in Stepped : remaining'[c] <= GradInitial(c)'
      BY <1>1, <2>5, <2>7, <2>10, <2>13, <3>1 DEF GIInv, GInv, Sharded
    <3> QED BY <1>1, <3>1 DEF Sharded, Stepped
  <2>16. Counters' /\ Versions' /\ OneAtATime'
    BY <1>1, <2>9, <2>10 DEF GIInv, GInv, Counters, Versions, OneAtATime, Stepped
  <2> QED BY <1>3, <2>8, <2>14, <2>15, <2>16 DEF GInv
<1> QED BY <1>4, <1>5

LEMMA Counted == ASSUME NEW n \in Nat PROVE CountDown(n) = IF n = 0 THEN 0 ELSE n - 1
<1>1. {n - 1, 0} \in SUBSET Int /\ n \in Nat
  OBVIOUS
<1>2. CASE n = 0
  <2>1. {n - 1, 0} = {-1, 0}
    BY <1>2
  <2>2. Max({-1, 0}) = 0
    BY DEF Max
  <2> QED BY <1>2, <2>1, <2>2 DEF CountDown
<1>3. CASE n # 0
  <2>1. {n - 1, 0} \in SUBSET Nat /\ n - 1 \in Nat /\ \A x \in {n - 1, 0} : x <= n - 1
    BY <1>3
  <2>2. Max({n - 1, 0}) \in {n - 1, 0} /\ \A x \in {n - 1, 0} : Max({n - 1, 0}) >= x
    BY <2>1, MaxIsMax
  <2>3. Max({n - 1, 0}) = n - 1
    BY <2>1, <2>2
  <2> QED BY <1>3, <2>3 DEF CountDown
<1> QED BY <1>2, <1>3

\* A gradient fires.
LEMMA GradHookGrads ==
    ASSUME GIInv, NEW b \in Block, NEW c \in Chunk, GradHook(b, c) PROVE GInv'
<1>1. /\ UNCHANGED <<master, queue, working, failed, sharded, micro, steps>>
      /\ UNCHANGED <<phase, blk, at, todo, slotData, largeData>>
      /\ <<b, c>> \in due /\ due' = due \ {<<b, c>>}
  BY DEF GradHook, adamVars, dataVars, walkVars
<1>2. b \in Passed /\ c \in OwnedBy(b) /\ c \in Trainable
  BY <1>1 DEF GIInv, GInv, Owed
<1>3. c \in Stepped /\ phase = "backward"
  BY <1>2 DEF Stepped, OwnedBy, Passed
<1>4. Passed' = Passed /\ \A d : Own(d)' = Own(d) /\ GradInitial(d)' = GradInitial(d)
  BY <1>1 DEF Passed, Own, OwnedBy, GradInitial
<1>5. b \in Own(c) /\ b \notin Fired(c)
  BY <1>1, <1>2 DEF Own, Fired
<1>6. Fired(c)' = Fired(c) \cup {b}
  <2>1. \A a \in Block : <<a, c>> \in due' <=> <<a, c>> \in due /\ a # b
    BY <1>1
  <2>2. Own(c) \subseteq Block /\ b \in Own(c) \cap Passed
    BY <1>2, <1>5 DEF Own
  <2> QED BY <1>4, <2>1, <2>2 DEF Fired
<1>7. \A d \in Chunk \ {c} : Fired(d)' = Fired(d)
  <2>1. \A a \in Block, d \in Chunk \ {c} : <<a, d>> \in due' <=> <<a, d>> \in due
    BY <1>1
  <2>2. \A d : Own(d) \subseteq Block
    BY DEF Own
  <2> QED BY <1>4, <2>1, <2>2 DEF Fired
<1>8. /\ Cardinality(Fired(c)') = Cardinality(Fired(c)) + 1
      /\ Cardinality(Fired(c)) \in Nat /\ Cardinality(Fired(c)) < GradInitial(c)
      /\ GradInitial(c) \in Nat
      /\ Cardinality(Fired(c)') = GradInitial(c) <=> Fired(c)' = Own(c)
      /\ Fired(c) # Own(c)
  <2>1. /\ IsFiniteSet(Fired(c)) /\ Cardinality(Fired(c)) \in Nat
        /\ Cardinality(Fired(c)) <= GradInitial(c)
        /\ Cardinality(Fired(c)) = GradInitial(c) <=> Fired(c) = Own(c)
        /\ Fired(c) \subseteq Own(c)
    BY <1>3, FiredFacts
  <2>2. IsFiniteSet(Own(c)) /\ GradInitial(c) = Cardinality(Own(c)) /\ GradInitial(c) \in Nat
    BY <1>3, OwnFacts
  <2>3. Cardinality(Fired(c) \cup {b}) = Cardinality(Fired(c)) + 1
    BY <1>5, <2>1, FS_AddElement
  <2>4. Fired(c) \cup {b} \subseteq Own(c)
    BY <1>5, <2>1
  <2>5. Cardinality(Fired(c) \cup {b}) = GradInitial(c) <=> Fired(c) \cup {b} = Own(c)
    BY <2>2, <2>4, FS_Subset
  <2>6. Fired(c) # Own(c)
    BY <1>5
  <2> QED BY <1>6, <2>1, <2>2, <2>3, <2>5, <2>6
<1>9. remaining \in [Chunk -> Nat]
  BY DEF GIInv, GInv, Counters
<1>10. Owed'
  BY <1>1, <1>4 DEF GIInv, GInv, Owed, OwnedBy
<1>11. /\ micro \in Nat /\ at \notin {"sweep", "launch", "wait", "done"} /\ phase # "step"
  <2>1. MicroBatches \in Nat
    BY RuntimeAssumption
  <2>2. micro \in Nat
    BY <2>1 DEF GIInv, LIInv, LInv, Types
  <2> QED BY <1>3, <2>2 DEF GIInv, LIInv, LInv, Position
<1>12. Versions' /\ OneAtATime' /\ Copies'
  <2>1. Unstepped' = Unstepped
    BY <1>1, <1>11 DEF Unstepped, Stepped
  <2>2. Copies'
    BY <1>1, CopiesStill DEF GIInv, GInv
  <2> QED BY <1>1, <1>11, <2>1, <2>2 DEF GIInv, GInv, Versions, OneAtATime, Stepped
<1>13. CASE sharded
  <2>1. /\ remaining' = [remaining EXCEPT ![c] = CountDown(remaining[c])]
        /\ gpuGrads' = gpuGrads \cup {c} /\ ready' = ready
    BY <1>13 DEF GradHook
  <2>2. CountDown(remaining[c]) \in Nat /\ CountDown(remaining[c]) <= remaining[c]
    <3>1. remaining[c] \in Nat
      BY <1>9
    <3> QED BY <3>1, Counted
  <2>3. /\ \A d \in Stepped \ gpuGrads : remaining[d] = GradInitial(d)
        /\ \A d \in Stepped : remaining[d] <= GradInitial(d)
        /\ gpuGrads = {d \in Stepped : micro > 1 \/ Fired(d) # {}}
        /\ ready = {}
    BY <1>11, <1>13 DEF GIInv, GInv, Sharded
  <2>4. \A d \in Chunk \ {c} : remaining'[d] = remaining[d]
    BY <1>9, <2>1
  <2>5. remaining'[c] = CountDown(remaining[c]) /\ remaining' \in [Chunk -> Nat]
    BY <1>9, <2>1, <2>2
  <2>6. Counters'
    BY <1>1, <1>3, <1>11, <2>4, <2>5 DEF GIInv, GInv, Counters, Stepped
  <2>7. remaining'[c] <= GradInitial(c)
    <3>1. remaining[c] \in Nat /\ GradInitial(c) \in Nat /\ remaining[c] <= GradInitial(c)
      BY <1>3, <1>8, <1>9, <2>3
    <3> QED BY <2>2, <2>5, <3>1
  <2>8. \A d \in Stepped : d \in Chunk
    BY OwnFacts
  <2>9. \A d \in Stepped : remaining'[d] <= GradInitial(d)'
    BY <1>4, <2>3, <2>4, <2>7, <2>8
  <2>10. \A d \in Stepped \ gpuGrads' : remaining'[d] = GradInitial(d)'
    BY <1>4, <2>1, <2>3, <2>4, <2>8
  <2>11. gpuGrads' = {d \in Stepped : micro > 1 \/ Fired(d)' # {}}
    BY <1>3, <1>6, <1>7, <2>1, <2>3, <2>8
  <2>12. Sharded'
    BY <1>1, <1>11, <2>1, <2>3, <2>9, <2>10, <2>11 DEF Sharded, Stepped
  <2>13. Replicated'
    BY <1>1, <1>13 DEF Replicated
  <2> QED BY <1>10, <1>12, <2>6, <2>12, <2>13 DEF GInv
<1>14. CASE ~sharded
  <2>1. /\ remaining' = [remaining EXCEPT ![c] = IF remaining[c] = 1 THEN GradInitial(c)
                                                 ELSE remaining[c] - 1]
        /\ ready' = IF remaining[c] = 1 THEN ready \cup {c} ELSE ready
        /\ gpuGrads' = gpuGrads
    BY <1>14 DEF GradHook
  <2>2. /\ \A d \in Stepped : remaining[d] = IF Fired(d) = Own(d) THEN GradInitial(d)
                                ELSE GradInitial(d) - Cardinality(Fired(d))
        /\ gpuGrads = {}
        /\ ready = {d \in Stepped : micro > 1 \/ phase = "step" \/ Fired(d) = Own(d)}
    BY <1>11, <1>14 DEF GIInv, GInv, Replicated
  <2>3. remaining[c] = GradInitial(c) - Cardinality(Fired(c))
    BY <1>3, <1>8, <2>2
  <2>4. remaining[c] = 1 <=> Fired(c)' = Own(c)
    BY <1>8, <2>3
  <2>5. \A d \in Chunk \ {c} : remaining'[d] = remaining[d]
    BY <1>9, <2>1
  <2>6. remaining'[c] = IF Fired(c)' = Own(c) THEN GradInitial(c)
                        ELSE GradInitial(c) - Cardinality(Fired(c)')
    <3>1. remaining'[c] = IF remaining[c] = 1 THEN GradInitial(c) ELSE remaining[c] - 1
      BY <1>9, <2>1
    <3>2. remaining[c] - 1 = GradInitial(c) - Cardinality(Fired(c)')
      BY <1>8, <2>3
    <3> QED BY <2>4, <3>1, <3>2
  <2>7. \A d \in Stepped : d \in Chunk
    BY OwnFacts
  <2>8. \A d \in Stepped : remaining'[d] = IF Fired(d)' = Own(d)' THEN GradInitial(d)'
                              ELSE GradInitial(d)' - Cardinality(Fired(d)')
    BY <1>4, <1>7, <2>2, <2>5, <2>6, <2>7
  <2>9. ready' = {d \in Stepped : micro > 1 \/ phase = "step" \/ Fired(d)' = Own(d)}
    BY <1>3, <1>7, <1>8, <2>1, <2>2, <2>4, <2>7
  <2>10. remaining' \in [Chunk -> Nat]
    <3>1. (IF remaining[c] = 1 THEN GradInitial(c) ELSE remaining[c] - 1) \in Nat
      BY <1>8, <2>3
    <3> QED BY <1>9, <2>1, <3>1
  <2>11. Counters'
    BY <1>1, <1>3, <1>11, <2>5, <2>10 DEF GIInv, GInv, Counters, Stepped
  <2>12. Replicated'
    <3>1. ready' = {d \in Stepped : micro' > 1 \/ phase' = "step" \/ Fired(d)' = Own(d)'}
      BY <1>1, <1>4, <2>9
    <3> QED BY <1>1, <1>11, <2>1, <2>2, <2>8, <3>1 DEF Replicated, Stepped
  <2>13. Sharded'
    BY <1>1, <1>14 DEF Sharded
  <2> QED BY <1>10, <1>12, <2>11, <2>12, <2>13 DEF GInv
<1> QED BY <1>13, <1>14

-----------------------------------------------------------------------------
(* Gradients and steps: the optimizer step.                                *)

\* What Replicated says while no backward pass runs.
Settled ==
    ~sharded =>
        /\ \A c \in Stepped : remaining[c] = GradInitial(c)
        /\ gpuGrads = {}
        /\ ready = IF at \in {"wait", "done"} THEN {} ELSE Stepped

LEMMA InStep ==
    ASSUME GIInv, phase = "step", phase' = "step", due' = due
    PROVE  /\ Owed' /\ Settled /\ micro = 1 /\ Passed' = {}
           /\ \A c \in Stepped : Fired(c)' # Own(c)'
           /\ Settled' => Replicated'
<1>1. Passed = {} /\ Passed' = {}
  BY DEF Passed
<1>2. \A c : Fired(c) = {} /\ Fired(c)' = {}
  BY <1>1 DEF Fired
<1>3. \A c \in Stepped : Own(c) # {} /\ Own(c)' = Own(c) /\ GradInitial(c)' = GradInitial(c)
  BY OwnFacts DEF Own, OwnedBy, GradInitial
<1>4. \A c \in Stepped : GradInitial(c) - Cardinality({}) = GradInitial(c)
  BY OwnFacts, FS_EmptySet
<1>5. due' = {}
  BY <1>1 DEF GIInv, GInv, Owed
<1>6. Owed'
  BY <1>5 DEF Owed
<1>7. Settled
  <2>1. \A c \in Stepped : Fired(c) # Own(c) /\ Cardinality(Fired(c)) = Cardinality({})
    BY <1>2, <1>3
  <2>2. ASSUME ~sharded, NEW c \in Stepped PROVE remaining[c] = GradInitial(c)
    BY <1>4, <2>1, <2>2 DEF GIInv, GInv, Replicated
  <2>3. ASSUME ~sharded
        PROVE  gpuGrads = {} /\ ready = IF at \in {"wait", "done"} THEN {} ELSE Stepped
    BY <2>3 DEF GIInv, GInv, Replicated
  <2> QED BY <2>2, <2>3 DEF Settled
<1>8. ASSUME Settled' PROVE Replicated'
  <2>1. \A c \in Stepped : Fired(c)' # Own(c)' /\ Cardinality(Fired(c)') = Cardinality({})
    BY <1>2, <1>3
  <2>2. ASSUME ~sharded', NEW c \in Stepped
        PROVE remaining'[c] = GradInitial(c)' - Cardinality(Fired(c)')
    BY <1>3, <1>4, <1>8, <2>1, <2>2 DEF Settled, Stepped
  <2>3. ASSUME ~sharded'
        PROVE  gpuGrads' = {} /\ ready' = IF at' \in {"wait", "done"} THEN {} ELSE Stepped
    BY <1>8, <2>3 DEF Settled, Stepped
  <2> QED BY <2>1, <2>2, <2>3 DEF Replicated, Stepped
<1>9. micro = 1
  BY DEF GIInv, GInv, Counters
<1> QED BY <1>1, <1>2, <1>3, <1>6, <1>7, <1>8, <1>9

LEMMA SweepGrads == ASSUME GIInv, Sweep PROVE GInv'
<1>1. /\ phase = "step" /\ phase' = "step" /\ at = "sweep" /\ at' = "launch"
      /\ UNCHANGED <<remaining, gpuGrads, ready, due, master, queue, working, failed>>
      /\ UNCHANGED <<sharded, micro, steps, slotData, largeData>>
      /\ todo' = IF sharded THEN Calls("reduce", SetToSeq(Chunk \ Persistent)) ELSE <<>>
  BY DEF Sweep, Arrive, gradVars, adamVars, dataVars
<1>2. Owed' /\ Settled /\ (Settled' => Replicated')
  BY <1>1, InStep
<1>3. Settled'
  BY <1>1, <1>2 DEF Settled, Stepped, GradInitial, OwnedBy
<1>4. sharded => Pending' = Chunk \ Persistent
  <2>1. SetToSeq(Chunk \ Persistent) \in Seq(Chunk \ Persistent)
        /\ ToSet(SetToSeq(Chunk \ Persistent)) = Chunk \ Persistent
    BY ChunksFinite, SetToSeqLists
  <2>2. SetToSeq(Chunk \ Persistent) \in Seq(Chunk)
    BY <2>1, SeqMonotonic
  <2>3. ASSUME sharded PROVE CallsFor(todo', "reduce", Chunk \ Persistent)
    BY <1>1, <2>1, <2>2, <2>3, CallsFacts DEF Ops
  <2> QED BY <2>3, Planned
<1>5. Stepped \subseteq Chunk \ Persistent
  BY OwnFacts
<1>6. Sharded'
  <2>1. ASSUME sharded
        PROVE  /\ \A c \in Stepped \ gpuGrads : remaining[c] = GradInitial(c)
               /\ \A c \in Stepped : remaining[c] <= GradInitial(c)
               /\ gpuGrads = Stepped /\ ready = {}
    BY <1>1, <2>1 DEF GIInv, GInv, Sharded
  <2> QED BY <1>1, <1>4, <1>5, <2>1 DEF Sharded, Stepped, GradInitial, OwnedBy
<1>7. Unstepped' = Unstepped
  BY <1>1 DEF Unstepped, Stepped
<1>8. Counters' /\ Versions' /\ OneAtATime' /\ Copies'
  <2>1. Copies'
    BY <1>1, CopiesStill DEF GIInv, GInv
  <2> QED BY <1>1, <1>7, <2>1 DEF GIInv, GInv, Counters, Versions, OneAtATime, Stepped
<1> QED BY <1>2, <1>3, <1>6, <1>8 DEF GInv

LEMMA ReduceGrads == ASSUME GIInv, NEW c \in Chunk, Reduce(c) PROVE GInv'
<1>1. /\ Calling("reduce", c) /\ OffloadOrDefer(c)
      /\ UNCHANGED <<due, master, queue, working, failed>>
      /\ UNCHANGED <<sharded, micro, steps, phase, blk, at, err>>
  BY DEF Reduce, adamVars, walkVars
<1>2. /\ "reduce" = OpAt(at) /\ Pending = {c} \cup Pending'
  BY <1>1, Called DEF GIInv
<1>3. at = "launch" /\ phase = "step"
  BY <1>2 DEF OpAt, GIInv, LIInv, LInv, Position
<1>4. UNCHANGED <<slotData, largeData>>
  BY <1>1, OffloadedOrDeferred DEF GIInv
<1>5. Owed' /\ Settled /\ (Settled' => Replicated')
  BY <1>1, <1>3, InStep
<1>6. Versions' /\ OneAtATime' /\ Copies'
  <2>1. Unstepped' = Unstepped
    BY <1>1, <1>3 DEF Unstepped, Stepped
  <2>2. Copies'
    BY <1>4, CopiesStill DEF GIInv, GInv
  <2> QED BY <1>1, <1>3, <2>1, <2>2 DEF GIInv, GInv, Versions, OneAtATime, Stepped
<1>7. \A d : GradInitial(d)' = GradInitial(d)
  BY DEF GradInitial, OwnedBy
<1>8. sharded => /\ \A d \in Stepped \ gpuGrads : remaining[d] = GradInitial(d)
                 /\ \A d \in Stepped : remaining[d] <= GradInitial(d)
                 /\ gpuGrads \subseteq Stepped /\ gpuGrads \subseteq Pending
                 /\ ready = Stepped \ gpuGrads
  BY <1>3 DEF GIInv, GInv, Sharded
<1>9. CASE c \in gpuGrads
  <2>1. /\ gpuGrads' = gpuGrads \ {c} /\ ready' = ready \cup {c}
        /\ remaining' = [remaining EXCEPT ![c] = GradInitial(c)]
    BY <1>9 DEF Reduce, Rearmed
  <2>2. sharded
    BY <1>5, <1>9 DEF Settled
  <2>3. /\ c \in Stepped /\ remaining \in [Chunk -> Nat] /\ GradInitial(c) \in Nat
        /\ \A d \in Stepped : d \in Chunk
    BY <1>8, <1>9, <2>2, OwnFacts DEF GIInv, GInv, Counters
  <2>4. /\ remaining' \in [Chunk -> Nat] /\ remaining'[c] = GradInitial(c)
        /\ \A d \in Chunk \ {c} : remaining'[d] = remaining[d]
    BY <2>1, <2>3
  <2>5. Counters'
    BY <1>1, <1>3, <2>3, <2>4 DEF GIInv, GInv, Counters, Stepped
  <2>6. gpuGrads' \subseteq Stepped /\ gpuGrads' \subseteq Pending' /\ ready' = Stepped \ gpuGrads'
    BY <1>2, <1>8, <2>1, <2>2, <2>3
  <2>7. \A d \in Stepped : remaining'[d] <= GradInitial(d)'
    <3>1. GradInitial(c) <= GradInitial(c)
      BY <2>3
    <3> QED BY <1>7, <1>8, <2>2, <2>3, <2>4, <3>1
  <2>8. \A d \in Stepped \ gpuGrads' : remaining'[d] = GradInitial(d)'
    BY <1>7, <1>8, <2>1, <2>2, <2>3, <2>4
  <2>9. Sharded'
    BY <1>1, <1>3, <2>6, <2>7, <2>8 DEF Sharded, Stepped
  <2>10. Replicated'
    BY <1>1, <2>2 DEF Replicated
  <2> QED BY <1>5, <1>6, <2>5, <2>9, <2>10 DEF GInv
<1>10. CASE c \notin gpuGrads
  <2>1. UNCHANGED <<gpuGrads, remaining, ready>>
    BY <1>10 DEF Reduce
  <2>2. Settled'
    BY <1>1, <1>5, <1>7, <2>1 DEF Settled, Stepped
  <2>3. Counters'
    BY <1>1, <2>1 DEF GIInv, GInv, Counters, Stepped
  <2>4. Sharded'
    <3>1. sharded => gpuGrads' \subseteq Pending'
      BY <1>2, <1>8, <1>10, <2>1
    <3> QED BY <1>1, <1>3, <1>7, <1>8, <2>1, <3>1 DEF Sharded, Stepped
  <2> QED BY <1>5, <1>6, <2>2, <2>3, <2>4 DEF GInv
<1> QED BY <1>9, <1>10

\* Every chunk is ready when the launches are planned, and each is planned once.
LEMMA LaunchAllGrads == ASSUME GIInv, LaunchAll PROVE GInv'
<1>1. /\ phase = "step" /\ phase' = "step" /\ at = "launch" /\ at' = "wait" /\ todo = <<>>
      /\ UNCHANGED <<remaining, gpuGrads, due, master, queue, working, failed>>
      /\ UNCHANGED <<sharded, micro, steps, slotData, largeData>>
      /\ todo' = Calls("launch", Sorted(ready)) /\ ready' = {}
  BY DEF LaunchAll, Arrive, adamVars, dataVars
<1>2. Owed' /\ Settled /\ (Settled' => Replicated')
  BY <1>1, InStep
<1>3. Pending = {}
  BY <1>1, NoCalls DEF Pending
<1>4. ready = Stepped /\ gpuGrads = {}
  <2>1. CASE sharded
    BY <1>1, <1>3, <2>1 DEF GIInv, GInv, Sharded
  <2>2. CASE ~sharded
    BY <1>1, <1>2, <2>2 DEF Settled
  <2> QED BY <2>1, <2>2
<1>5. Settled'
  BY <1>1, <1>2 DEF Settled, Stepped, GradInitial, OwnedBy
<1>6. Sharded'
  <2>1. sharded => \A c \in Stepped \ gpuGrads : remaining[c] = GradInitial(c)
    BY DEF GIInv, GInv, Sharded
  <2>2. sharded => \A c \in Stepped : remaining[c] <= GradInitial(c)
    BY DEF GIInv, GInv, Sharded
  <2> QED BY <1>1, <1>4, <2>1, <2>2 DEF Sharded, Stepped, GradInitial, OwnedBy
<1>7. /\ Sorted(ready) \in Seq(Chunk) /\ ToSet(Sorted(ready)) = ready /\ NoRepeat(Sorted(ready))
  <2>1. ready \subseteq Chunk
    BY DEF GIInv, LIInv, LInv, Types
  <2> QED BY <2>1, ChunksFinite, SortedLists, SeqMonotonic
<1>8. Pending' = Stepped
  <2>1. CallsFor(todo', "launch", ready)
    BY <1>1, <1>7, CallsFacts DEF Ops
  <2> QED BY <1>4, <2>1, Planned
<1>9. NoRepeat(todo')
  <2>1. /\ Len(todo') = Len(Sorted(ready))
        /\ \A i \in 1..Len(Sorted(ready)) : todo'[i].c = Sorted(ready)[i]
    BY <1>1, <1>7, CallsFacts DEF Ops
  <2> QED BY <1>7, <2>1 DEF NoRepeat
<1>10. queue' = <<>> /\ working' = NoChunk /\ failed' = {} /\ working = NoChunk
  BY <1>1 DEF GIInv, LIInv, LInv, Worker
<1>11. NoChunk \notin Chunk /\ ToSet(<<>>) = {} /\ Len(<<>>) = 0
  BY RuntimeAssumption, NothingListed
<1>12. Unstepped' = Stepped /\ Unstepped = Stepped
  BY <1>1, <1>8, <1>10, <1>11 DEF Unstepped, Stepped
<1>13. OneAtATime'
  <2>1. Stepped \subseteq Chunk
    BY OwnFacts
  <2>2. NoRepeat(queue')
    BY <1>10, <1>11 DEF NoRepeat
  <2> QED BY <1>8, <1>9, <1>10, <1>11, <2>1, <2>2 DEF OneAtATime
<1>14. Counters' /\ Versions' /\ Copies'
  <2>1. Copies'
    BY <1>1, CopiesStill DEF GIInv, GInv
  <2> QED BY <1>1, <1>12, <2>1 DEF GIInv, GInv, Counters, Versions, Stepped
<1> QED BY <1>2, <1>5, <1>6, <1>13, <1>14 DEF GInv

\* A launched chunk is not among the calls that are left.
LEMMA LaunchedOnce ==
    ASSUME GIInv, NEW c \in Chunk, Calling("launch", c), NoRepeat(todo),
           \A i \in 1..Len(todo) : todo[i].op = "launch"
    PROVE  c \notin Pending' /\ NoRepeat(todo')
<1>1. todo \in Seq(Call) /\ todo # <<>> /\ todo' = Tail(todo) /\ Head(todo) = [op |-> "launch", c |-> c]
  BY DEF GIInv, LIInv, LInv, Types, Calling
<1>2. NoRepeat(Tail(todo)) /\ Head(todo) \notin ToSet(Tail(todo))
  BY <1>1, HeadOnce
<1>3. /\ Tail(todo) \in Seq(Call)
      /\ \A i \in 1..Len(Tail(todo)) : i + 1 \in 1..Len(todo) /\ Tail(todo)[i] = todo[i + 1]
  BY <1>1, CallMade
<1>4. ASSUME NEW i \in 1..Len(Tail(todo)), Tail(todo)[i].c = c PROVE FALSE
  <2>1. Tail(todo)[i] \in Call
    BY <1>3, ElementOfSeq
  <2>2. Tail(todo)[i].op = "launch"
    BY <1>3
  <2>3. Tail(todo)[i] = [op |-> "launch", c |-> c]
    BY <1>4, <2>1, <2>2 DEF Call
  <2>4. Head(todo) \in ToSet(Tail(todo))
    BY <1>1, <1>3, <2>3, ToSetDef
  <2> QED BY <1>2, <2>4
<1> QED BY <1>1, <1>2, <1>4 DEF Pending, ChunksIn

LEMMA LaunchGrads == ASSUME GIInv, NEW c \in Chunk, Launch(c) PROVE GInv'
<1>1. /\ Calling("launch", c) /\ queue' = Append(queue, c)
      /\ UNCHANGED <<remaining, gpuGrads, ready, due, slotData, largeData>>
      /\ UNCHANGED <<master, working, failed, sharded, phase, blk, at, micro, steps, err>>
  BY DEF Launch, walkVars, gradVars
<1>2. "launch" = OpAt(at) /\ Pending = {c} \cup Pending'
  BY <1>1, Called DEF GIInv
<1>3. at = "wait" /\ phase = "step"
  BY <1>2 DEF OpAt, GIInv, LIInv, LInv, Position
<1>4. Owed' /\ Settled /\ (Settled' => Replicated')
  BY <1>1, <1>3, InStep
<1>5. Settled'
  BY <1>1, <1>4 DEF Settled, Stepped, GradInitial, OwnedBy
<1>6. Sharded'
  BY <1>1, <1>3 DEF GIInv, GInv, Sharded, Stepped, GradInitial, OwnedBy
<1>7. queue \in Seq(Chunk) /\ ToSet(queue') = ToSet(queue) \cup {c}
  <2>1. queue \in Seq(Chunk)
    BY DEF GIInv, LIInv, LInv, Types
  <2> QED BY <1>1, <2>1, AppendSet
<1>8. /\ NoRepeat(todo) /\ NoRepeat(queue)
      /\ Pending \cap (ToSet(queue) \cup {working} \cup failed) = {}
      /\ ToSet(queue) \cap ({working} \cup failed) = {}
      /\ working \notin failed
  BY <1>3 DEF GIInv, GInv, OneAtATime
<1>9. c \notin Pending' /\ NoRepeat(todo')
  <2>1. \A i \in 1..Len(todo) : todo[i].op = "launch"
    BY <1>2 DEF GIInv, LIInv, LInv, Position
  <2> QED BY <1>1, <1>8, <2>1, LaunchedOnce
<1>10. Unstepped' = Unstepped
  BY <1>1, <1>2, <1>3, <1>7 DEF Unstepped
<1>11. OneAtATime'
  <2>1. NoRepeat(queue')
    BY <1>1, <1>2, <1>7, <1>8, AppendOnce
  <2>2. Pending' \cap (ToSet(queue') \cup {working} \cup failed) = {}
    BY <1>2, <1>7, <1>8, <1>9
  <2>3. ToSet(queue') \cap ({working} \cup failed) = {}
    BY <1>2, <1>7, <1>8
  <2> QED BY <1>1, <1>8, <1>9, <2>1, <2>2, <2>3 DEF OneAtATime
<1>12. Counters' /\ Versions' /\ Copies'
  <2>1. Copies'
    BY <1>1, CopiesStill DEF GIInv, GInv
  <2> QED BY <1>1, <1>10, <2>1 DEF GIInv, GInv, Counters, Versions, Stepped
<1> QED BY <1>4, <1>5, <1>6, <1>11, <1>12 DEF GInv

\* The worker takes a chunk up, updates it, or fails to.
LEMMA WorkerGrads == ASSUME GIInv, AdamBegin \/ AdamEnd \/ AdamFails PROVE GInv'
<1>1. /\ UNCHANGED <<remaining, gpuGrads, ready, due, slotData, largeData, todo>>
      /\ UNCHANGED <<sharded, phase, blk, at, micro, steps, err>>
  BY DEF AdamBegin, AdamEnd, AdamFails, walkVars, gradVars, dataVars
<1>2. at = "wait" /\ phase = "step"
  <2>1. queue # <<>> \/ working # NoChunk
    BY DEF AdamBegin, AdamEnd, AdamFails
  <2> QED BY <2>1 DEF GIInv, LIInv, LInv, Worker, Position
<1>3. Owed' /\ Settled /\ (Settled' => Replicated')
  BY <1>1, <1>2, InStep
<1>4. Settled'
  BY <1>1, <1>3 DEF Settled, Stepped, GradInitial, OwnedBy
<1>5. Sharded' /\ Counters'
  BY <1>1, <1>2 DEF GIInv, GInv, Sharded, Counters, Stepped, GradInitial, OwnedBy
<1>6. Copies'
  BY <1>1, CopiesStill DEF GIInv, GInv
<1>7. Pending' = Pending
  BY <1>1 DEF Pending, ChunksIn
<1>8. /\ NoRepeat(todo) /\ NoRepeat(queue)
      /\ Pending \cap (ToSet(queue) \cup {working} \cup failed) = {}
      /\ ToSet(queue) \cap ({working} \cup failed) = {}
      /\ working \notin failed
  BY <1>2 DEF GIInv, GInv, OneAtATime
<1>9. /\ \A c \in Chunk \ Stepped : master[c] = 0
      /\ Unstepped \subseteq Stepped
      /\ \A c \in Stepped : master[c] = IF c \in Unstepped THEN steps ELSE steps + 1
      /\ Unstepped = Pending \cup ToSet(queue) \cup ({working} \cap Chunk) \cup failed
      /\ Unstepped' = Pending' \cup ToSet(queue') \cup ({working'} \cap Chunk) \cup failed'
  BY <1>1, <1>2 DEF GIInv, GInv, Versions, Unstepped
<1>10. /\ queue \in Seq(Chunk) /\ working \in Chunk \cup {NoChunk} /\ failed \subseteq Chunk
       /\ master \in [Chunk -> Nat] /\ steps \in Nat /\ NoChunk \notin Chunk
       /\ ToSet(queue) \subseteq Chunk /\ Pending \subseteq Chunk
  <2>1. queue \in Seq(Chunk) /\ Stepped \subseteq Chunk
    BY OwnFacts DEF GIInv, LIInv, LInv, Types
  <2>2. MaxSteps \in Nat
    BY RuntimeAssumption
  <2>3. ToSet(queue) \subseteq Chunk
    BY <2>1, ToSetDef
  <2>4. Pending \subseteq Chunk
    BY <1>9, <2>1
  <2>5. NoChunk \notin Chunk
    BY RuntimeAssumption
  <2>6. working \in Chunk \cup {NoChunk} /\ failed \subseteq Chunk /\ master \in [Chunk -> Nat]
    BY DEF GIInv, LIInv, LInv, Types
  <2>7. steps \in Nat
    BY <2>2 DEF GIInv, LIInv, LInv, Types
  <2> QED BY <2>1, <2>3, <2>4, <2>5, <2>6, <2>7
<1>11. CASE AdamBegin
  <2>1. /\ working = NoChunk /\ queue # <<>> /\ working' = Head(queue) /\ queue' = Tail(queue)
        /\ UNCHANGED <<master, failed>>
    BY <1>11 DEF AdamBegin
  <2>2. /\ Head(queue) \in Chunk /\ ToSet(queue) = {Head(queue)} \cup ToSet(Tail(queue))
        /\ NoRepeat(Tail(queue)) /\ Head(queue) \notin ToSet(Tail(queue))
    BY <1>8, <1>10, <2>1, TailSet, HeadOnce
  <2>3. Unstepped' = Unstepped
    BY <1>7, <1>9, <1>10, <2>1, <2>2
  <2>4. OneAtATime'
    BY <1>1, <1>7, <1>8, <1>10, <2>1, <2>2 DEF OneAtATime
  <2>5. Versions'
    BY <1>1, <1>9, <2>1, <2>3 DEF Versions, Stepped
  <2> QED BY <1>3, <1>4, <1>5, <1>6, <2>4, <2>5 DEF GInv
<1>12. CASE AdamEnd
  <2>1. /\ working # NoChunk /\ working' = NoChunk /\ UNCHANGED <<queue, failed>>
        /\ master' = [master EXCEPT ![working] = @ + 1]
    BY <1>12 DEF AdamEnd
  <2>2. working \in Chunk /\ working \in Unstepped /\ working \in Stepped
    BY <1>9, <1>10, <2>1
  <2>3. Unstepped' = Unstepped \ {working}
    BY <1>7, <1>8, <1>9, <1>10, <2>1, <2>2
  <2>4. /\ \A c \in Chunk \ {working} : master'[c] = master[c]
        /\ master'[working] = steps + 1
    BY <1>9, <1>10, <2>1, <2>2
  <2>5. OneAtATime'
    BY <1>1, <1>7, <1>8, <1>10, <2>1 DEF OneAtATime
  <2>6. Versions'
    <3>1. Unstepped' \subseteq Stepped
      BY <1>9, <2>3
    <3>2. \A c \in Chunk \ Stepped : master'[c] = 0
      BY <1>9, <2>2, <2>4
    <3>3. \A c \in Stepped : master'[c] = IF c \in Unstepped' THEN steps ELSE steps + 1
      BY <1>9, <2>3, <2>4, OwnFacts
    <3> QED BY <1>1, <3>1, <3>2, <3>3 DEF Versions, Stepped
  <2> QED BY <1>3, <1>4, <1>5, <1>6, <2>5, <2>6 DEF GInv
<1>13. CASE AdamFails
  <2>1. /\ working # NoChunk /\ working' = NoChunk /\ failed' = failed \cup {working}
        /\ UNCHANGED <<master, queue>>
    BY <1>13 DEF AdamFails
  <2>2. Unstepped' = Unstepped
    BY <1>7, <1>9, <1>10, <2>1
  <2>3. OneAtATime'
    BY <1>1, <1>7, <1>8, <1>10, <2>1 DEF OneAtATime
  <2>4. Versions'
    BY <1>1, <1>9, <2>1, <2>2 DEF Versions, Stepped
  <2> QED BY <1>3, <1>4, <1>5, <1>6, <2>3, <2>4 DEF GInv
<1> QED BY <1>11, <1>12, <1>13

\* The step ends with every chunk updated.
LEMMA DrainGrads == ASSUME GIInv, Drain PROVE GInv'
<1>1. /\ phase = "step" /\ phase' = "step" /\ at = "wait" /\ at' = "done" /\ todo = <<>>
      /\ UNCHANGED <<remaining, gpuGrads, ready, due, master, queue, working, failed>>
      /\ UNCHANGED <<sharded, micro, steps, slotData, largeData>>
      /\ queue = <<>> /\ working = NoChunk /\ failed = {}
  BY DEF Drain, Arrive, AllOver, gradVars, adamVars, dataVars
<1>2. Owed' /\ Settled /\ (Settled' => Replicated')
  BY <1>1, InStep
<1>3. Settled'
  BY <1>1, <1>2 DEF Settled, Stepped, GradInitial, OwnedBy
<1>4. Sharded' /\ Counters'
  BY <1>1 DEF GIInv, GInv, Sharded, Counters, Stepped, GradInitial, OwnedBy
<1>5. Unstepped = {} /\ Unstepped' = {}
  <2>1. Pending = {} /\ ToSet(queue) = {} /\ {working} \cap Chunk = {}
    BY <1>1, NoCalls, NothingListed, RuntimeAssumption DEF Pending
  <2> QED BY <1>1, <2>1 DEF Unstepped
<1>6. Versions' /\ OneAtATime' /\ Copies'
  <2>1. Copies'
    BY <1>1, CopiesStill DEF GIInv, GInv
  <2> QED BY <1>1, <1>5, <2>1 DEF GIInv, GInv, Versions, OneAtATime, Stepped
<1> QED BY <1>2, <1>3, <1>4, <1>6 DEF GInv

LEMMA NextStepGrads == ASSUME GIInv, NextStep PROVE GInv'
<1>1. /\ phase = "step" /\ phase' = "forward" /\ at = "done" /\ at' = "pre"
      /\ UNCHANGED <<remaining, gpuGrads, ready, due, master, queue, working, failed>>
      /\ UNCHANGED <<sharded, micro, slotData, largeData>> /\ steps' = steps + 1
  BY DEF NextStep, Arrive, gradVars, adamVars, dataVars
<1>2. Passed = {} /\ Passed' = {} /\ \A c : Fired(c) = {} /\ Fired(c)' = {}
  BY <1>1 DEF Passed, Fired
<1>3. \A c \in Stepped : Own(c) # {} /\ Own(c)' = Own(c) /\ GradInitial(c)' = GradInitial(c)
  BY OwnFacts DEF Own, OwnedBy, GradInitial
<1>4. Owed'
  BY <1>1, <1>2 DEF GIInv, GInv, Owed
<1>5. micro = 1
  BY <1>1 DEF GIInv, GInv, Counters
<1>6. Replicated'
  <2>1. ASSUME ~sharded, NEW c \in Stepped
        PROVE  remaining[c] = GradInitial(c) - Cardinality(Fired(c))
    BY <1>2, <1>3, <2>1 DEF GIInv, GInv, Replicated
  <2>2. ASSUME ~sharded, NEW c \in Stepped
        PROVE  remaining'[c] = GradInitial(c)' - Cardinality(Fired(c)')
    BY <1>1, <1>2, <1>3, <2>1, <2>2
  <2>3. ASSUME ~sharded PROVE gpuGrads' = {} /\ ready' = {}
    BY <1>1, <2>3 DEF GIInv, GInv, Replicated
  <2>4. \A c \in Stepped : ~(micro' > 1 \/ phase' = "step" \/ Fired(c)' = Own(c)')
    BY <1>1, <1>2, <1>3, <1>5
  <2>5. \A c \in Stepped : Fired(c)' # Own(c)'
    BY <2>4
  <2> QED BY <1>1, <2>2, <2>3, <2>4, <2>5 DEF Replicated, Stepped
<1>7. Sharded'
  <2>1. sharded => /\ \A c \in Stepped : remaining[c] = GradInitial(c)
                   /\ \A c \in Stepped : remaining[c] <= GradInitial(c)
                   /\ gpuGrads = {} /\ ready = {}
    BY <1>1 DEF GIInv, GInv, Sharded
  <2>2. \A c \in Stepped : ~(micro' > 1 \/ Fired(c)' # {})
    BY <1>1, <1>2, <1>5
  <2> QED BY <1>1, <1>3, <2>1, <2>2 DEF Sharded, Stepped
<1>8. Counters' /\ OneAtATime' /\ Copies'
  <2>1. Copies'
    BY <1>1, CopiesStill DEF GIInv, GInv
  <2> QED BY <1>1, <2>1 DEF GIInv, GInv, Counters, OneAtATime, Stepped
<1>9. Versions'
  <2>1. Unstepped = {} /\ Unstepped' = Stepped
    BY <1>1 DEF Unstepped, Stepped
  <2> QED BY <1>1, <2>1 DEF GIInv, GInv, Versions, Stepped
<1> QED BY <1>4, <1>6, <1>7, <1>8, <1>9 DEF GInv

LEMMA GradStepPreserves == GIInv /\ [Next]_vars => GIInv'
<1> SUFFICES ASSUME GIInv, [Next]_vars PROVE GIInv'
  OBVIOUS
<1>1. LIInv'
  BY StepPreserves DEF GIInv, Preserved
<1>2. CASE UNCHANGED vars \/ WaitRaises
  <2>1. /\ UNCHANGED <<gpuGrads, remaining, ready, due, todo, phase, blk, at>>
        /\ UNCHANGED <<master, queue, working, failed, sharded, micro, steps>>
        /\ UNCHANGED <<slotData, largeData>>
    BY <1>2 DEF vars, WaitRaises, dataVars, gradVars, adamVars, walkVars
  <2>2. GInv'
    BY <2>1, QuietStep DEF GIInv
  <2> QED BY <1>1, <2>2 DEF GIInv
<1>3. ASSUME NEW c \in Chunk,
             \/ Gather(c) \/ Offload(c) \/ Reduce(c) \/ Launch(c)
             \/ Unpack(c) \/ DropHandle(c)
      PROVE  GIInv'
  BY <1>1, <1>3, GatherGrads, OffloadGrads, ReduceGrads, LaunchGrads DEF GIInv
<1>4. CASE ForwardPre \/ ForwardPost \/ ForwardNext \/ BackwardPre \/ BackwardAhead
           \/ BackwardPost \/ BackwardNext
  BY <1>1, <1>4, ForwardGrads, BackwardPostGrads, BackwardNextGrads DEF GIInv
<1>5. ASSUME NEW b \in Block, NEW c \in Chunk, GradHook(b, c) PROVE GIInv'
  BY <1>1, <1>5, GradHookGrads DEF GIInv
<1>6. CASE Sweep \/ LaunchAll \/ Drain \/ NextStep
  BY <1>1, <1>6, SweepGrads, LaunchAllGrads, DrainGrads, NextStepGrads DEF GIInv
<1>7. CASE AdamBegin \/ AdamEnd \/ AdamFails
  BY <1>1, <1>7, WorkerGrads DEF GIInv
<1>8. CASE Finished \/ Raised
  <2>1. UNCHANGED vars
    BY <1>8 DEF Finished, Raised
  <2> QED BY <1>2, <2>1
<1> QED BY <1>2, <1>3, <1>4, <1>5, <1>6, <1>7, <1>8 DEF Next

LEMMA InitGInv == Init => GInv
<1> SUFFICES ASSUME Init PROVE GInv
  OBVIOUS
<1>1. /\ phase = "forward" /\ at = "pre" /\ due = {} /\ ready = {} /\ gpuGrads = {}
      /\ micro = 1 /\ steps = 0
      /\ remaining = [c \in Chunk |-> GradInitial(c)]
      /\ master = [c \in Chunk |-> 0]
      /\ slotData = [s \in Slot |-> NoData] /\ largeData = [c \in Large |-> 0]
  BY DEF Init
<1>2. Passed = {} /\ \A c : Fired(c) = {}
  BY <1>1 DEF Passed, Fired
<1>3. \A c \in Stepped : /\ c \in Chunk /\ Own(c) # {}
                         /\ GradInitial(c) \in Nat /\ GradInitial(c) - Cardinality({}) = GradInitial(c)
                         /\ GradInitial(c) <= GradInitial(c)
  <2>1. \A c \in Stepped : c \in Chunk /\ Own(c) # {} /\ GradInitial(c) \in Nat
    BY OwnFacts
  <2> QED BY <2>1, FS_EmptySet
<1>4. \A c \in Stepped : remaining[c] = GradInitial(c)
  BY <1>1, <1>3
<1>5. Owed
  BY <1>1 DEF Owed
<1>6. Replicated
  BY <1>1, <1>2, <1>3, <1>4 DEF Replicated
<1>7. Sharded
  BY <1>1, <1>2, <1>3, <1>4 DEF Sharded
<1>8. Counters
  <2>1. \A c \in Chunk : GradInitial(c) \in Nat
    BY <1>3, NeverStepped
  <2>2. \A c \in Chunk \ Stepped : remaining[c] = 0
    BY <1>1, NeverStepped
  <2> QED BY <1>1, <2>1, <2>2 DEF Counters
<1>9. Versions
  <2>1. Unstepped = Stepped
    BY <1>1 DEF Unstepped
  <2> QED BY <1>1, <1>3, <2>1 DEF Versions
<1>10. OneAtATime /\ Copies
  <2>1. MaxSteps \in Nat
    BY RuntimeAssumption
  <2> QED BY <1>1, <2>1 DEF OneAtATime, Copies, NoData
<1> QED BY <1>5, <1>6, <1>7, <1>8, <1>9, <1>10 DEF GInv

\* The inductive invariant of the gradients and the steps, beside that of the
\* leases: what each counter still waits for, which chunks the running step has
\* yet to update, and that a chunk is in one place at a time.
THEOREM GradInvariant == Spec => []GIInv
<1>1. Init => GIInv
  BY InitLIInv, InitGInv DEF GIInv
<1> QED BY <1>1, GradStepPreserves, PTL DEF Spec

\* An optimizer step updates every offloaded trainable chunk exactly once and
\* re-arms its counter, whatever the micro-batches, the order of the gradient
\* hooks and the interleaving of the worker (step_ready_cpu_chunks,
\* reduce_grads_and_offload); a failed update ends the step that launched it.
THEOREM SteppedOncePerStepHolds == Spec => []SteppedOncePerStep
<1>1. GIInv => SteppedOncePerStep
  <2> SUFFICES ASSUME GIInv PROVE SteppedOncePerStep
    OBVIOUS
  <2>1. ASSUME phase = "step", at = "done", NEW c \in Chunk
        PROVE  /\ master[c] = IF c \in Trainable \ Persistent THEN steps + 1 ELSE 0
               /\ remaining[c] = GradInitial(c)
    <3>1. Unstepped = {}
      BY <2>1 DEF Unstepped
    <3>2. master[c] = IF c \in Stepped THEN steps + 1 ELSE 0
      BY <3>1 DEF GIInv, GInv, Versions
    <3>3. remaining[c] = GradInitial(c)
      <4>1. CASE c \notin Stepped
        <5>1. GradInitial(c) = 0
          BY <4>1, NeverStepped
        <5>2. remaining[c] = 0
          BY <4>1 DEF GIInv, GInv, Counters
        <5> QED BY <5>1, <5>2
      <4>2. CASE c \in Stepped /\ sharded
        BY <2>1, <4>2 DEF GIInv, GInv, Sharded
      <4>3. CASE c \in Stepped /\ ~sharded
        <5>1. Fired(c) = {}
          BY <2>1 DEF Passed, Fired
        <5>2. /\ Own(c) # {} /\ GradInitial(c) \in Nat
              /\ GradInitial(c) - Cardinality({}) = GradInitial(c)
          BY <4>3, OwnFacts, FS_EmptySet
        <5>3. remaining[c] = GradInitial(c) - Cardinality(Fired(c))
          BY <4>3, <5>1, <5>2 DEF GIInv, GInv, Replicated
        <5> QED BY <5>1, <5>2, <5>3
      <4> QED BY <4>1, <4>2, <4>3
    <3> QED BY <3>2, <3>3 DEF Stepped
  <2>2. failed # {} => phase = "step" /\ at = "wait"
    BY DEF GIInv, LIInv, LInv, Worker, Position
  <2> QED BY <2>1, <2>2 DEF SteppedOncePerStep
<1> QED BY <1>1, GradInvariant, PTL

\* Types with the bounds of the run, and CleanStart: when a micro-batch starts
\* nothing of the previous one is left, neither a lease nor a pinned or deferred
\* chunk, a parameter on the CPU or a gradient owed.
THEOREM InvHolds == Spec => []Inv
<1>1. GIInv => TypeOK
  <2> SUFFICES ASSUME GIInv PROVE TypeOK
    OBVIOUS
  <2>1. Pool!TypeOK
    BY SamePool DEF GIInv, LIInv, P!IInv
  <2>2. MaxSteps \in Nat /\ steps \in 0..MaxSteps /\ NBlocks \in Nat
    BY RuntimeAssumption DEF GIInv, LIInv, LInv, Types
  <2>3. \A n \in Nat : n <= MaxSteps + 1 => n \in Torn..(MaxSteps + 1) /\ n \in 0..(MaxSteps + 1)
    BY <2>2 DEF Torn
  <2>4. slotData \in [Slot -> [chunk : Chunk \cup {NoChunk}, ver : Torn..(MaxSteps + 1)]]
    <3>1. slotData \in [Slot -> [chunk : Chunk \cup {NoChunk}, ver : Nat]]
      BY DEF GIInv, LIInv, LInv, Types
    <3>2. ASSUME NEW s \in Slot
          PROVE  slotData[s] \in [chunk : Chunk \cup {NoChunk}, ver : Torn..(MaxSteps + 1)]
      <4>1. slotData[s] \in [chunk : Chunk \cup {NoChunk}, ver : Nat]
        BY <3>1
      <4>2. slotData[s].ver \in Torn..(MaxSteps + 1)
        BY <2>3, <4>1 DEF GIInv, GInv, Copies
      <4> QED BY <4>1, <4>2
    <3> QED BY <3>1, <3>2
  <2>5. largeData \in [Large -> Torn..(MaxSteps + 1)]
    <3>1. largeData \in [Large -> Nat]
      BY DEF GIInv, LIInv, LInv, Types
    <3> QED BY <2>3, <3>1 DEF GIInv, GInv, Copies
  <2>6. master \in [Chunk -> 0..(MaxSteps + 1)]
    <3>1. master \in [Chunk -> Nat]
      BY DEF GIInv, LIInv, LInv, Types
    <3>2. \A c \in Chunk : master[c] \in {0, steps, steps + 1}
      BY DEF GIInv, GInv, Versions
    <3>3. {0, steps, steps + 1} \subseteq 0..(MaxSteps + 1)
      BY <2>2
    <3> QED BY <3>1, <3>2, <3>3
  <2>7. remaining \in [Chunk -> 0..NBlocks]
    <3>1. remaining \in [Chunk -> Nat]
      BY DEF GIInv, GInv, Counters
    <3>2. ASSUME NEW c \in Chunk PROVE remaining[c] <= NBlocks
      <4>1. CASE c \notin Stepped
        BY <2>2, <4>1 DEF GIInv, GInv, Counters
      <4>2. CASE c \in Stepped
        <5>1. /\ GradInitial(c) \in Nat /\ GradInitial(c) <= NBlocks
              /\ Cardinality(Fired(c)) \in Nat /\ remaining[c] \in Nat
          BY <3>1, <4>2, OwnFacts, FiredFacts
        <5>2. remaining[c] <= GradInitial(c)
          <6>1. CASE sharded
            BY <4>2, <6>1 DEF GIInv, GInv, Sharded
          <6>2. CASE ~sharded
            <7>1. remaining[c] \in {GradInitial(c), GradInitial(c) - Cardinality(Fired(c))}
              BY <4>2, <6>2 DEF GIInv, GInv, Replicated
            <7> QED BY <5>1, <7>1
          <6> QED BY <6>1, <6>2
        <5> QED BY <2>2, <5>1, <5>2
      <4> QED BY <4>1, <4>2
    <3> QED BY <2>2, <3>1, <3>2
  <2>8. gpuGrads \subseteq Chunk
    <3>1. Stepped \subseteq Chunk
      BY OwnFacts
    <3> QED BY <3>1 DEF GIInv, GInv, Sharded, Replicated
  <2>9. due \subseteq Block \X Chunk
    BY DEF GIInv, GInv, Owed
  <2>10. /\ phase \in {"forward", "backward", "step"} /\ err \in {"none", "exhausted", "adam"}
    BY DEF GIInv, LIInv, LInv, Position
  <2>11. Types
    BY DEF GIInv, LIInv, LInv
  <2>12. /\ active \subseteq Chunk /\ deferred \subseteq Chunk
         /\ bound \in [Chunk -> Slot \cup {InLarge, Placeholder, OnCpu}]
         /\ refcount \in [Chunk -> 0..MaxHandles] /\ ready \subseteq Chunk
         /\ queue \in Seq(Chunk) /\ working \in Chunk \cup {NoChunk} /\ failed \subseteq Chunk
         /\ sharded \in BOOLEAN /\ blk \in Block
         /\ micro \in 1..MicroBatches /\ steps \in 0..MaxSteps
    BY <2>11 DEF Types
  <2> QED BY <2>1, <2>4, <2>5, <2>6, <2>7, <2>8, <2>9, <2>10, <2>12 DEF TypeOK
<1>2. GIInv => CleanStart
  <2> SUFFICES ASSUME GIInv, phase = "forward", blk = 1, at = "pre"
               PROVE  /\ active = {} /\ deferred = {} /\ due = {}
                      /\ \A c \in Chunk : refcount[c] = 0 /\ bound[c] # OnCpu
                      /\ \A c \in Chunk : ~Pool!Leased(c)
    BY DEF CleanStart
  <2>1. active = {}
    BY DEF GIInv, LIInv, LInv, ForwardLeases
  <2>2. deferred = {} /\ \A c \in Chunk : ~(refcount[c] > 0)
    BY NothingPinned DEF GIInv
  <2>3. due = {}
    <3>1. Passed = {}
      BY DEF Passed
    <3> QED BY <3>1 DEF GIInv, GInv, Owed
  <2>4. \A c \in Chunk : refcount[c] = 0
    <3>1. refcount \in [Chunk -> 0..MaxHandles] /\ MaxHandles \in Nat
      BY RuntimeAssumption DEF GIInv, LIInv, LInv, Types
    <3> QED BY <2>2, <3>1
  <2>5. \A c \in Chunk : bound[c] # OnCpu
    <3>1. queue = <<>> /\ working = NoChunk /\ failed = {}
      BY DEF GIInv, LIInv, LInv, Worker
    <3>2. \A c \in Chunk : bound[c] = OnCpu => c \in ToSet(queue) \cup {working} \cup failed
      BY DEF GIInv, LIInv, LInv, Worker
    <3>3. NoChunk \notin Chunk
      BY RuntimeAssumption
    <3> QED BY <3>1, <3>2, <3>3, NothingListed
  <2>6. \A c \in Chunk : ~Pool!Leased(c)
    BY <2>1, PoolFacts, SamePool DEF GIInv, LIInv
  <2> QED BY <2>1, <2>2, <2>3, <2>4, <2>5, <2>6
<1> QED BY <1>1, <1>2, GradInvariant, PTL DEF Inv
=============================================================================
