----------------------------- MODULE BufferPool -----------------------------
(***************************************************************************)
(* The GPU buffer pool of ProTrain (chunk/buffer_pool.py): NBuffer flat    *)
(* slots handed out under per-slot lease counts.  A released slot keeps    *)
(* its tag, so that the backward pass finds the bytes the forward pass     *)
(* left behind; a miss takes the slot that has been free longest.  Chunks  *)
(* larger than a slot live in a side table of their own buffers.           *)
(*                                                                         *)
(* Every method runs to completion on the caller's thread: one action per  *)
(* method and per way it returns.  A call that raises changes nothing, so  *)
(* it is the negation of the guard (PoolRefuses) and not an action.        *)
(***************************************************************************)
EXTENDS Integers, Sequences, FiniteSets, SequencesExt

CONSTANTS
    Chunk,      \* chunk ids
    Large,      \* the chunks with chunk_bytes > S_chunk
    NBuffer,    \* number of slots
    Client,     \* callers that pair an acquire with a release
    NoChunk,    \* _tags[slot] is None
    NoSlot      \* the chunk is missing from _tag_to_slot

ASSUME PoolAssumption ==
    /\ NBuffer \in Nat \ {0}
    /\ Large \subseteq Chunk
    /\ IsFiniteSet(Client)
    /\ NoChunk \notin Chunk
    /\ NoSlot \notin Nat

Slot == 0..(NBuffer - 1)

VARIABLES
    tags,         \* _tags: the chunk last bound to each slot
    tagSlot,      \* _tag_to_slot
    free,         \* _free: unleased slots, the longest free at the head
    leases,       \* _leases
    largeLeases,  \* _large_leases; a chunk has an entry of _large_buffers iff > 0
    closed,       \* _closed
    holders       \* the clients that hold a lease on each chunk

pool == <<tags, tagSlot, free, leases, largeLeases, closed>>
vars == <<pool, holders>>

FreeSlots == ToSet(free)    \* _free_set

Init ==
    /\ tags = [s \in Slot |-> NoChunk]
    /\ tagSlot = [c \in Chunk |-> NoSlot]
    /\ free = [i \in 1..NBuffer |-> i - 1]
    /\ leases = [s \in Slot |-> 0]
    /\ largeLeases = [c \in Large |-> 0]
    /\ closed = FALSE
    /\ holders = [c \in Chunk |-> {}]

-----------------------------------------------------------------------------
(* The methods.  They leave holders to the caller.                         *)

\* lookup_resident(c) is not None (close() empties both tables).
Resident(c) ==
    IF c \in Large THEN largeLeases[c] > 0 ELSE tagSlot[c] # NoSlot

\* Mutant of TakeOffFree: the eager removal from the deque is forgotten.
KeepOnFree(s) == UNCHANGED free

\* _free_set.discard(slot) and _free.remove(slot); a slot that is not in the
\* deque stays out of it.
TakeOffFree(s) ==
    \/ \E i \in 1..Len(free) : free[i] = s /\ free' = RemoveAt(free, i)
    \/ s \notin FreeSlots /\ UNCHANGED free

\* acquire of an oversize chunk, first or converging: one more lease on its
\* own buffer.
LeaseLarge(c) ==
    /\ c \in Large
    /\ largeLeases' = [largeLeases EXCEPT ![c] = @ + 1]
    /\ UNCHANGED <<tags, tagSlot, free, leases>>

\* Cache hit: the tagged slot comes off the free list if it was on it.
LeaseHit(c) ==
    /\ c \notin Large
    /\ tagSlot[c] # NoSlot
    /\ TakeOffFree(tagSlot[c])
    /\ leases' = [leases EXCEPT ![tagSlot[c]] = @ + 1]
    /\ UNCHANGED <<tags, tagSlot, largeLeases>>

\* Cache miss: evict the longest-free slot, retag it, and SET its lease to 1.
LeaseMiss(c) ==
    /\ c \notin Large
    /\ tagSlot[c] = NoSlot
    /\ free # <<>>
    /\ LET s == Head(free) IN
        /\ free' = Tail(free)
        /\ tags' = [tags EXCEPT ![s] = c]
        /\ tagSlot' = [k \in Chunk |->
                          IF k = c THEN s
                          ELSE IF k = tags[s] THEN NoSlot ELSE tagSlot[k]]
        /\ leases' = [leases EXCEPT ![s] = 1]
    /\ UNCHANGED largeLeases

Acquire(c) ==
    /\ ~closed
    /\ LeaseLarge(c) \/ LeaseHit(c) \/ LeaseMiss(c)
    /\ UNCHANGED closed

\* acquire(c) raises: the pool is closed, or every slot is leased to others.
AcquireRefused(c) ==
    closed \/ (c \notin Large /\ tagSlot[c] = NoSlot /\ free = <<>>)

AcquireIfResident(c) ==
    /\ ~closed
    /\ Resident(c)
    /\ LeaseLarge(c) \/ LeaseHit(c)
    /\ UNCHANGED closed

\* Oversize: the buffer is dropped with its last lease (max(count - 1, 0)).
ReleaseLarge(c) ==
    /\ largeLeases[c] > 0
    /\ largeLeases' = [largeLeases EXCEPT ![c] = @ - 1]
    /\ UNCHANGED <<tags, tagSlot, free, leases>>

\* Mutant of ReleaseSlot: the slot does not return to the free list.
ReleaseLeaks(c) ==
    /\ tagSlot[c] # NoSlot
    /\ leases[tagSlot[c]] > 0
    /\ leases' = [leases EXCEPT ![tagSlot[c]] = @ - 1]
    /\ UNCHANGED <<tags, tagSlot, free, largeLeases>>

\* Mutant of ReleaseSlot: the slot returns at the end it is taken from.
ReleaseToHead(c) ==
    /\ tagSlot[c] # NoSlot
    /\ leases[tagSlot[c]] > 0
    /\ LET s == tagSlot[c] IN
        /\ leases' = [leases EXCEPT ![s] = @ - 1]
        /\ free' = IF leases[s] = 1 THEN <<s>> \o free ELSE free
    /\ UNCHANGED <<tags, tagSlot, largeLeases>>

\* The tag survives; the slot returns to the free list with its last lease.
ReleaseSlot(c) ==
    /\ tagSlot[c] # NoSlot
    /\ leases[tagSlot[c]] > 0
    /\ LET s == tagSlot[c] IN
        /\ leases' = [leases EXCEPT ![s] = @ - 1]
        /\ free' = IF leases[s] = 1 THEN Append(free, s) ELSE free
    /\ UNCHANGED <<tags, tagSlot, largeLeases>>

\* Does release(c) find a lease to drop?  Otherwise it returns early.
Leased(c) ==
    IF c \in Large THEN largeLeases[c] > 0
    ELSE tagSlot[c] # NoSlot /\ leases[tagSlot[c]] > 0

Release(c) ==
    /\ \/ ~closed /\ c \in Large /\ ReleaseLarge(c)
       \/ ~closed /\ c \notin Large /\ ReleaseSlot(c)
       \/ (closed \/ ~Leased(c)) /\ UNCHANGED <<tags, tagSlot, free, leases, largeLeases>>
    /\ UNCHANGED closed

\* Mutant of InvalidateTag: the lease is not looked at.
InvalidateAny(c) ==
    /\ tagSlot[c] # NoSlot
    /\ tags' = [tags EXCEPT ![tagSlot[c]] = NoChunk]
    /\ tagSlot' = [tagSlot EXCEPT ![c] = NoSlot]
    /\ UNCHANGED <<free, leases, largeLeases, closed>>

\* invalidate_tag: raises while the slot is leased, returns when there is no
\* tag.  The slot keeps its place in the free list.
InvalidateTag(c) ==
    /\ tagSlot[c] # NoSlot
    /\ leases[tagSlot[c]] = 0
    /\ tags' = [tags EXCEPT ![tagSlot[c]] = NoChunk]
    /\ tagSlot' = [tagSlot EXCEPT ![c] = NoSlot]
    /\ UNCHANGED <<free, leases, largeLeases, closed>>

\* close raises while any lease is outstanding.
Close ==
    /\ ~closed
    /\ \A s \in Slot : leases[s] = 0
    /\ \A c \in Large : largeLeases[c] = 0
    /\ closed' = TRUE
    /\ tags' = [s \in Slot |-> NoChunk]
    /\ tagSlot' = [c \in Chunk |-> NoSlot]
    /\ free' = <<>>
    /\ leases' = [s \in Slot |-> 0]
    /\ UNCHANGED largeLeases

-----------------------------------------------------------------------------
(* The callers: each holds at most one lease on a chunk and drops only a   *)
(* lease it holds, except that anyone may release a chunk nobody holds.    *)

ClientAcquire(k, c) ==
    /\ k \notin holders[c]
    /\ Acquire(c)
    /\ holders' = [holders EXCEPT ![c] = @ \cup {k}]

ClientProbe(k, c) ==
    /\ k \notin holders[c]
    /\ AcquireIfResident(c)
    /\ holders' = [holders EXCEPT ![c] = @ \cup {k}]

ClientRelease(k, c) ==
    /\ k \in holders[c] \/ holders[c] = {}
    /\ Release(c)
    /\ holders' = [holders EXCEPT ![c] = @ \ {k}]

Invalidate(c) == InvalidateTag(c) /\ UNCHANGED holders

ClosePool == Close /\ UNCHANGED holders

Next ==
    \/ \E k \in Client, c \in Chunk :
          ClientAcquire(k, c) \/ ClientProbe(k, c) \/ ClientRelease(k, c)
    \/ \E c \in Chunk : Invalidate(c)
    \/ ClosePool

Spec == Init /\ [][Next]_vars

-----------------------------------------------------------------------------
(* Properties.                                                             *)

TypeOK ==
    /\ tags \in [Slot -> Chunk \cup {NoChunk}]
    /\ tagSlot \in [Chunk -> Slot \cup {NoSlot}]
    /\ free \in Seq(Slot)
    /\ leases \in [Slot -> Nat]
    /\ largeLeases \in [Large -> Nat]
    /\ closed \in BOOLEAN
    /\ holders \in [Chunk -> SUBSET Client]

\* _tags and _tag_to_slot are inverse of one another: no chunk is found in a
\* slot that was retagged, and no tagged slot is lost to lookups (acquire,
\* invalidate_tag and close each update both).
TagIndex ==
    /\ \A c \in Chunk : tagSlot[c] # NoSlot => tags[tagSlot[c]] = c
    /\ \A s \in Slot : tags[s] # NoChunk => tagSlot[tags[s]] = s

\* While the pool is open a slot is on the free list, once, exactly when no
\* lease is on it: a leased slot cannot be evicted and an unleased one is
\* never lost to the pool (acquire, release and the eager deque removal).
FreeIffUnleased ==
    /\ \A i, j \in 1..Len(free) : free[i] = free[j] => i = j
    /\ \A s \in FreeSlots : leases[s] = 0
    /\ ~closed => \A s \in Slot : leases[s] = 0 => s \in FreeSlots

\* Leases are neither lost nor invented: the lease count of a chunk's buffer
\* is the number of clients that hold it, across hits, converging
\* prefetches, stray releases, evictions and invalidations.
LeasesConserved ==
    \A c \in Chunk :
        Cardinality(holders[c]) =
            IF c \in Large THEN largeLeases[c]
            ELSE IF tagSlot[c] = NoSlot THEN 0 ELSE leases[tagSlot[c]]

\* What else the invariants rest on: a leased slot is tagged with a chunk that
\* fits a slot, and a closed pool has no lease.
LeasedIsTagged ==
    /\ \A s \in Slot : leases[s] > 0 => tags[s] \in Chunk \ Large
    /\ closed => /\ \A s \in Slot : leases[s] = 0
                 /\ \A c \in Large : largeLeases[c] = 0

\* The inductive invariant of the pool: each of its conjuncts is preserved by
\* a call only because of the others.
IInv == TypeOK /\ TagIndex /\ FreeIffUnleased /\ LeasesConserved /\ LeasedIsTagged

\* "BufferPool exhausted" is raised only when every slot is under a chunk
\* some client still holds.
ExhaustedOnlyWhenHeld ==
    \A c \in Chunk : (AcquireRefused(c) /\ ~closed) =>
        \A s \in Slot : tags[s] # NoChunk /\ holders[tags[s]] # {}

\* A chunk that stays held stays in the same slot: nobody's buffer is retagged
\* or moved between its acquire and its release.
HeldStaysPut ==
    [][\A c \in Chunk \ Large :
          (holders[c] # {} /\ holders'[c] # {}) => tagSlot'[c] = tagSlot[c]]_vars

\* What the pool promises at the level of chunks: a cache of NBuffer chunks
\* from which only an unleased one is dropped, the least recently released
\* ("standard LRU"), whatever hits, stray releases and invalidations came
\* between.
CachedChunk == {c \in Chunk \ Large : tagSlot[c] # NoSlot}
Before(q, s, t) == \E i, j \in 1..Len(q) : i < j /\ q[i] = s /\ q[j] = t

Promise == INSTANCE ResidentCache WITH
    Small  <- Chunk \ Large,
    cached <- CachedChunk,
    lease  <- [c \in Chunk |-> Cardinality(holders[c])],
    older  <- {p \in CachedChunk \X CachedChunk : Before(free, tagSlot[p[1]], tagSlot[p[2]])},
    open   <- ~closed

ImplementsResidentCache == Promise!Spec
=============================================================================
