------------------------------- MODULE SwapPool -------------------------------
(***************************************************************************)
(* ActivationSwapPool (block/swap_pool.py), a pinned host region carved by *)
(* first fit, and the pack and unpack hooks that move saved activations    *)
(* through it (block/swap.py).  Forward and autograd threads pack and      *)
(* unpack while other threads close the pool; the copies are queued on one *)
(* CUDA stream and happen later, in order.                                 *)
(*                                                                         *)
(* A tensor is packed once and slot ids are never reused, so a slot is     *)
(* named by its tensor.  The pool's methods are lock sections, one step    *)
(* each, except close, which gives the lock up while it drains.            *)
(***************************************************************************)
EXTENDS Integers, Sequences, FiniteSets, SequencesExt, FiniteSetsExt, Selections

CONSTANTS
    Tensor,     \* saved tensors
    Size,       \* their bytes
    Capacity,   \* capacity_bytes
    Align,      \* alignment
    Closer,     \* threads that may call close
    NoExtent

ASSUME SwapAssumption ==
    /\ Size \in [Tensor -> 1..Capacity]    \* others pass through
    /\ {Capacity, Align} \subseteq Nat \ {0}
    /\ IsFiniteSet(Tensor) /\ NoExtent \notin (0..(Capacity - 1)) \X (1..Capacity)

VARIABLES
    free,       \* _free: extents <<offset, size>>
    alloc,      \* _alloc
    inflight,   \* _inflight
    closing, closed,
    region,     \* is the pinned region allocated?
    closer,     \* where each closing thread is
    stage,      \* how far each tensor is
    stream,     \* the copies queued on the swap stream
    bytes       \* whose data each byte of the region holds

poolVars == <<free, alloc, inflight>>
closeVars == <<closing, closed, region, closer>>
copyVars == <<stream, bytes>>
vars == <<poolVars, closeVars, stage, copyVars>>

Byte == 0..(Capacity - 1)
Nobody == "nobody"

Init ==
    /\ free = <<<<0, Capacity>>>>
    /\ alloc = [t \in Tensor |-> NoExtent]
    /\ inflight = 0
    /\ closing = FALSE /\ closed = FALSE /\ region = TRUE
    /\ closer = [k \in Closer |-> "idle"]
    /\ stage = [t \in Tensor |-> "fresh"]
    /\ stream = <<>>
    /\ bytes = [b \in Byte |-> Nobody]

-----------------------------------------------------------------------------
(* The allocator.                                                          *)

RoundUp(n) == ((n + Align - 1) \div Align) * Align

Span(e) == e[1]..(e[1] + e[2] - 1)

\* One step of the merge: e joins the last extent if it starts where that ends.
Merge(merged, e) ==
    IF merged # <<>> /\ Last(merged)[1] + Last(merged)[2] = e[1]
    THEN Append(Front(merged), <<Last(merged)[1], Last(merged)[2] + e[2]>>)
    ELSE Append(merged, e)

MergeAll(exts) ==
    LET merged[i \in 0..Len(exts)] ==
          IF i = 0 THEN <<>> ELSE Merge(merged[i - 1], exts[i])
    IN merged[Len(exts)]

\* Mutant of Coalesce: the list is not sorted first.
MergeUnsorted(exts) == MergeAll(exts)

\* No two extents begin at the same offset.
ByOffset(S) ==
    LET offsets == Sorted({e[1] : e \in S})
    IN [i \in 1..Len(offsets) |-> CHOOSE e \in S : e[1] = offsets[i]]

\* _coalesce_locked: sort by offset, merge neighbours.
Coalesce(exts) == MergeAll(ByOffset(ToSet(exts)))

Fits(n) == {i \in 1..Len(free) : free[i][2] >= n}

\* Mutant of Remainder: the taken bytes stay in the extent.
RemainderKept(e, n) == <<<<e[1], e[2] - n>>>>

\* What is left of extent e once n bytes are taken from its front.
Remainder(e, n) == IF e[2] = n THEN <<>> ELSE <<<<e[1] + n, e[2] - n>>>>

\* acquire, when it does not raise: first fit.
Acquire(t) ==
    LET n == RoundUp(Size[t])
        i == Min(Fits(n)) IN
    /\ free' = SubSeq(free, 1, i - 1) \o Remainder(free[i], n)
                 \o SubSeq(free, i + 1, Len(free))
    /\ alloc' = [alloc EXCEPT ![t] = <<free[i][1], n>>]
    /\ inflight' = inflight + 1

\* release: nothing happens once closed, or for an unknown slot.
Release(t) ==
    IF closed \/ alloc[t] = NoExtent
    THEN UNCHANGED poolVars
    ELSE /\ free' = Coalesce(Append(free, alloc[t]))
         /\ alloc' = [alloc EXCEPT ![t] = NoExtent]
         /\ inflight' = inflight - 1

-----------------------------------------------------------------------------
(* pack_to_pool.                                                           *)

\* acquire raises because of a close.
Shut == closed \/ closing

\* A slot, or the tensor stays on the GPU (closed, or no extent fits).
PackAcquire(t) ==
    /\ stage[t] = "fresh"
    /\ IF Shut \/ Fits(RoundUp(Size[t])) = {}
       THEN stage' = [stage EXCEPT ![t] = "passed"] /\ UNCHANGED poolVars
       ELSE stage' = [stage EXCEPT ![t] = "acquired"] /\ Acquire(t)
    /\ UNCHANGED <<closeVars, copyVars>>

Queue(op, t) == stream' = Append(stream, [op |-> op, tensor |-> t])

\* The D2H copy is queued and the handle returned; or something raises before
\* or after the copy is queued.
PackCopy(t) ==
    /\ stage[t] = "acquired"
    /\ \/ Queue("d2h", t) /\ stage' = [stage EXCEPT ![t] = "packed"]
       \/ Queue("d2h", t) /\ stage' = [stage EXCEPT ![t] = "failed"]
       \/ UNCHANGED stream /\ stage' = [stage EXCEPT ![t] = "failed"]
    /\ UNCHANGED <<poolVars, closeVars, bytes>>

\* The copies t queued are over: swap_stream.synchronize(), h2d_done, or the
\* device synchronisation that comes before an out-of-memory error.
Fenced(t) == \A i \in 1..Len(stream) : stream[i].tensor # t

\* The failed pack waits for its copy and gives the slot back.
PackAbort(t) ==
    /\ stage[t] = "failed"
    /\ Fenced(t)
    /\ Release(t)
    /\ stage' = [stage EXCEPT ![t] = "gone"]
    /\ UNCHANGED <<closeVars, copyVars>>

\* The graph is freed without a backward pass: nothing releases the slot.
DropHandle(t) ==
    /\ stage[t] = "packed"
    /\ stage' = [stage EXCEPT ![t] = "dropped"]
    /\ UNCHANGED <<poolVars, closeVars, copyVars>>

(* unpack_from_pool.                                                       *)

\* pool.view(slot_id) and the H2D copy; or the headroom gate, or the
\* allocation of the GPU buffer, raises.
Unpack(t) ==
    /\ stage[t] = "packed"
    /\ \/ /\ alloc[t] # NoExtent /\ ~closed
          /\ Queue("h2d", t)
       \/ Fenced(t) /\ UNCHANGED stream
    /\ stage' = [stage EXCEPT ![t] = "unpacking"]
    /\ UNCHANGED <<poolVars, closeVars, bytes>>

\* Mutant of UnpackFence: the slot is released without a fence.
NoFence(t) == TRUE

\* h2d_done.synchronize()
UnpackFence(t) == Fenced(t)

\* finally: the fence, then the release.
UnpackEnd(t) ==
    /\ stage[t] = "unpacking"
    /\ UnpackFence(t)
    /\ Release(t)
    /\ stage' = [stage EXCEPT ![t] = "gone"]
    /\ UNCHANGED <<closeVars, copyVars>>

\* The stream executes its oldest copy.
Copy ==
    /\ stream # <<>>
    /\ stream' = Tail(stream)
    /\ LET c == Head(stream) IN
        bytes' = IF c.op = "d2h" /\ alloc[c.tensor] # NoExtent
                 THEN [b \in Byte |-> IF b \in Span(<<alloc[c.tensor][1], Size[c.tensor]>>)
                                      THEN c.tensor ELSE bytes[b]]
                 ELSE bytes
    /\ UNCHANGED <<poolVars, closeVars, stage>>

-----------------------------------------------------------------------------
(* close: set the flag, drain, free the region, mark closed.               *)

\* A second thread that closes at the same time is refused.
CloseBegin(k) ==
    /\ closer[k] = "idle" /\ ~closed /\ ~closing
    /\ closing' = TRUE
    /\ closer' = [closer EXCEPT ![k] = "draining"]
    /\ UNCHANGED <<poolVars, closed, region, stage, copyVars>>

CloseDrained(k) ==
    /\ closer[k] = "draining" /\ inflight = 0
    /\ closer' = [closer EXCEPT ![k] = "freeing"]
    /\ UNCHANGED <<poolVars, closing, closed, region, stage, copyVars>>

\* The drain times out: close raises and the pool is open again.
CloseTimeout(k) ==
    /\ closer[k] = "draining" /\ inflight # 0
    /\ closing' = FALSE
    /\ closer' = [closer EXCEPT ![k] = "idle"]
    /\ UNCHANGED <<poolVars, closed, region, stage, copyVars>>

CloseFree(k) ==
    /\ closer[k] = "freeing"
    /\ region' = FALSE
    /\ closer' = [closer EXCEPT ![k] = "freed"]
    /\ UNCHANGED <<poolVars, closing, closed, stage, copyVars>>

\* _closing stays set.
CloseEnd(k) ==
    /\ closer[k] = "freed"
    /\ closed' = TRUE
    /\ free' = <<>> /\ alloc' = [t \in Tensor |-> NoExtent] /\ inflight' = 0
    /\ closer' = [closer EXCEPT ![k] = "idle"]
    /\ UNCHANGED <<closing, region, stage, copyVars>>

Idle == closed /\ stream = <<>> /\ UNCHANGED vars

Next ==
    \/ \E t \in Tensor :
          \/ PackAcquire(t) \/ PackCopy(t) \/ PackAbort(t) \/ DropHandle(t)
          \/ Unpack(t) \/ UnpackEnd(t)
    \/ Copy
    \/ \E k \in Closer :
          \/ CloseBegin(k) \/ CloseDrained(k) \/ CloseTimeout(k)
          \/ CloseFree(k) \/ CloseEnd(k)
    \/ Idle

Spec == Init /\ [][Next]_vars

-----------------------------------------------------------------------------
(* Properties.                                                             *)

TypeOK ==
    /\ free \in Seq(Byte \X (1..Capacity))
    /\ alloc \in [Tensor -> (Byte \X (1..Capacity)) \cup {NoExtent}]
    /\ inflight \in 0..Cardinality(Tensor)
    /\ {closing, closed, region} \subseteq BOOLEAN
    /\ closer \in [Closer -> {"idle", "draining", "freeing", "freed"}]
    /\ stage \in [Tensor -> {"fresh", "passed", "acquired", "packed", "failed",
                             "unpacking", "dropped", "gone"}]
    /\ stream \in Seq([op : {"d2h", "h2d"}, tensor : Tensor])
    /\ bytes \in [Byte -> Tensor \cup {Nobody}]

Allocated == {t \in Tensor : alloc[t] # NoExtent}

\* The free and the allocated extents tile the region: no byte is lost, no
\* byte has two owners, and the free list is sorted with no two extents
\* touching, so a pool that everything was returned to is one extent again.
Tiled ==
    /\ TypeOK
    /\ ~closed =>
          /\ \A b \in Byte :
                Cardinality({t \in Allocated : b \in Span(alloc[t])})
                  + Cardinality({i \in 1..Len(free) : b \in Span(free[i])}) = 1
          /\ \A i \in 1..(Len(free) - 1) : free[i][1] + free[i][2] < free[i + 1][1]
          /\ inflight = Cardinality(Allocated)

\* A saved tensor comes back as it was packed: when its H2D copy runs, its
\* slot holds its own bytes, whoever packed, released or failed in between.
UnpacksOwnBytes ==
    (stream # <<>> /\ Head(stream).op = "h2d") =>
        LET t == Head(stream).tensor IN
        /\ alloc[t] # NoExtent
        /\ \A b \in Span(<<alloc[t][1], Size[t]>>) : bytes[b] = t

\* The pinned region is freed only when no copy is queued on it and no
\* tensor is between pack and unpack ("otherwise close() could free pinned
\* mid-DMA").
RegionOutlivesCopies ==
    ~region => /\ stream = <<>>
               /\ \A t \in Tensor : stage[t] \notin {"acquired", "packed", "failed", "unpacking"}
=============================================================================
