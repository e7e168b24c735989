---------------------------- MODULE ChunkRuntime ----------------------------
(***************************************************************************)
(* One rank of ProTrain's chunk-offload runtime: the scheduler's walk over *)
(* the transformer blocks (runtime/scheduler.py), the chunk manager's      *)
(* gather, offload and gradient bookkeeping (chunk/manager.py), the buffer *)
(* pool it leases from (BufferPool), the single CPU-Adam worker thread     *)
(* (chunk/optim.py) and the optimizer step (api/optim_wrapper.py).         *)
(*                                                                         *)
(* A training step is MicroBatches forward/backward walks and an optimizer *)
(* step.  A hook expands to a list of manager calls (todo); each call is   *)
(* one step, so the worker, the gradient hooks of autograd's leaf nodes    *)
(* and the garbage collection of saved-tensor views interleave with them.  *)
(* A weight is its version: the number of optimizer steps applied to it.   *)
(***************************************************************************)
EXTENDS Integers, Sequences, FiniteSets, SequencesExt, FiniteSetsExt, Selections

CONSTANTS
    Chunk,          \* chunk ids, 0..N_chunk-1
    Large,          \* chunks larger than a pool slot
    Persistent,     \* chunks that never leave the GPU
    Trainable,      \* chunks with a trainable parameter
    NBlocks,        \* blocks in forward order 1..NBlocks
    ChunksOf,       \* layout.block_to_chunks: block -> sequence of chunks
    OffloadBlocks,  \* blocks in mode OFFLOAD; the others are in mode CKPT
    NBuffer,        \* slots of the pool
    Sharding,       \* the values of zero3_shard to explore
    MicroBatches,   \* backward passes per optimizer step
    MaxSteps,       \* bound: optimizer steps
    MaxHandles,     \* bound: live saved-tensor views of one chunk
    MaxFailures,    \* bound: Adam steps that raise
    NoChunk, NoSlot,
    InLarge, Placeholder, OnCpu  \* where param.data is, besides a pool slot: an
                                 \* oversize buffer, the empty placeholder, the
                                 \* pinned CPU tensor

Block == 1..NBlocks
Slot == 0..(NBuffer - 1)
OwnedBy(b) == ToSet(ChunksOf[b]) \ Persistent

\* min_n_buffer_for: a block and its successor must fit together.
MinBuffer ==
    Max({1} \cup {Cardinality(OwnedBy(b) \cup IF b < NBlocks THEN OwnedBy(b + 1) ELSE {})
                    : b \in Block})

ASSUME RuntimeAssumption ==
    /\ NBlocks \in Nat \ {0}
    /\ Chunk \subseteq Nat /\ IsFiniteSet(Chunk)
    /\ Large \subseteq Chunk /\ Persistent \subseteq Chunk /\ Trainable \subseteq Chunk
    /\ ChunksOf \in [Block -> Seq(Chunk)]
    \* The layout packs parameters in execution order: a chunk is shared by
    \* neighbouring blocks only.
    /\ \A a, b, d \in Block : a < b /\ b < d =>
          ToSet(ChunksOf[a]) \cap ToSet(ChunksOf[d]) \subseteq ToSet(ChunksOf[b])
    \* A chunk with a parameter of no block is pinned (mandatory_persistent).
    /\ \A c \in Trainable \ Persistent : \E b \in Block : c \in ToSet(ChunksOf[b])
    /\ NBuffer \in Nat /\ NBuffer >= MinBuffer
    /\ NoChunk \notin Chunk /\ NoSlot \notin Nat
    /\ {InLarge, Placeholder, OnCpu} \cap (Nat \cup {NoSlot}) = {}
    /\ OnCpu \notin {InLarge, Placeholder}
    /\ Sharding \subseteq BOOLEAN
    /\ {MicroBatches, MaxSteps, MaxHandles} \subseteq Nat \ {0}
    /\ MaxFailures \in Nat

VARIABLES
    tags, tagSlot, free, leases, largeLeases, closed,   \* the pool
    slotData,     \* the bytes of each slot: [chunk, ver]
    largeData,    \* the version in each oversize buffer
    master,       \* the version of each chunk's CPU master copy
    active,       \* _active_chunks
    bound,        \* where the chunk's param.data points
    refcount,     \* _backward_refcount
    deferred,     \* _deferred_offloads
    remaining,    \* _grad_remaining
    gpuGrads,     \* chunks whose params hold a .grad on the GPU (sharded path)
    ready,        \* _cpu_step_ready_chunks
    queue,        \* chunk steps submitted to the Adam worker, not yet begun
    working,      \* the chunk the worker is stepping
    failed,       \* chunks whose future in _pending holds an exception
    sharded,      \* zero3_shard
    phase, blk, at, todo,   \* where the training thread is
    due,          \* gradient hooks autograd still has to fire: <<block, chunk>>
    micro, steps, \* micro-batch of this step; optimizer steps done
    err           \* the exception that ended training, or "none"

poolVars == <<tags, tagSlot, free, leases, largeLeases, closed>>
dataVars == <<slotData, largeData, bound>>
gradVars == <<remaining, gpuGrads, ready, due>>
adamVars == <<master, queue, working, failed>>
walkVars == <<phase, blk, at, micro, steps>>
vars == <<poolVars, dataVars, active, refcount, deferred, gradVars, adamVars,
          walkVars, sharded, todo, err>>

Holders == [c \in Chunk |-> IF c \in active THEN {"manager"} ELSE {}]
Pool == INSTANCE BufferPool WITH Client <- {"manager"}, holders <- Holders

Torn == -1

\* What a copy from the CPU master reads: torn while Adam is writing it.
MasterBytes(c) == IF working = c THEN Torn ELSE master[c]

NoData == [chunk |-> NoChunk, ver |-> 0]

\* Parameters of c, one per block that owns it: _grad_initial.
GradInitial(c) ==
    IF c \in Trainable \ Persistent THEN Cardinality({b \in Block : c \in OwnedBy(b)}) ELSE 0

Init ==
    /\ active = {}
    /\ Pool!Init
    /\ slotData = [s \in Slot |-> NoData]
    /\ largeData = [c \in Large |-> 0]
    /\ master = [c \in Chunk |-> 0]
    /\ bound = [c \in Chunk |-> Placeholder]
    /\ refcount = [c \in Chunk |-> 0]
    /\ deferred = {}
    /\ remaining = [c \in Chunk |-> GradInitial(c)]
    /\ gpuGrads = {} /\ ready = {} /\ due = {}
    /\ queue = <<>> /\ working = NoChunk /\ failed = {}
    /\ sharded \in Sharding
    /\ phase = "forward" /\ blk = 1 /\ at = "pre" /\ todo = <<>>
    /\ micro = 1 /\ steps = 0
    /\ err = "none"

-----------------------------------------------------------------------------
(* Manager calls: the head of todo.                                        *)

Calls(op, cs) == [i \in 1..Len(cs) |-> [op |-> op, c |-> cs[i]]]

Calling(op, c) ==
    /\ err = "none"
    /\ todo # <<>>
    /\ Head(todo) = [op |-> op, c |-> c]
    /\ todo' = Tail(todo)

BufferOf(c) == IF c \in Large THEN InLarge ELSE tagSlot[c]

\* _rebind_params_to_buffer with needs_copy: the CPU master's bytes go to buf.
CopyIn(c, buf) ==
    IF c \in Large
    THEN /\ largeData' = [largeData EXCEPT ![c] = MasterBytes(c)]
         /\ UNCHANGED slotData
    ELSE /\ slotData' = [slotData EXCEPT ![buf] = [chunk |-> c, ver |-> MasterBytes(c)]]
         /\ UNCHANGED largeData

\* cpu_optim.wait(c) returns; as its mutant, it waits for the next step too.
AdamDoneOrDue(c) == c \notin ToSet(queue) /\ c # working /\ c \notin ready
AdamDone(c) == c \notin ToSet(queue) /\ c # working

\* The fast path of gather; as its mutant, there is none.
NeverActive(c) == FALSE
IsActive(c) == c \in active

\* gather: cpu_optim.wait(c), then the active fast path, the resident hit
\* (no copy), the miss (copy), or the pool's refusal.  (The wait raises when
\* the chunk's step has; SteppedOncePerStep says that it never has here.)
Fetch(c) ==
    /\ AdamDone(c)
    /\ \/ /\ IsActive(c)
          /\ bound' = [bound EXCEPT ![c] = BufferOf(c)]
          /\ UNCHANGED <<poolVars, slotData, largeData, active, err>>
       \/ /\ ~IsActive(c)
          /\ Pool!AcquireIfResident(c)
          /\ active' = active \cup {c}
          /\ bound' = [bound EXCEPT ![c] = BufferOf(c)]
          /\ UNCHANGED <<slotData, largeData, err>>
       \/ /\ ~IsActive(c) /\ ~Pool!Resident(c)
          /\ Pool!Acquire(c)
          /\ active' = active \cup {c}
          /\ bound' = [bound EXCEPT ![c] = IF c \in Large THEN InLarge ELSE tagSlot'[c]]
          /\ CopyIn(c, tagSlot'[c])
          /\ UNCHANGED err
       \/ /\ ~IsActive(c) /\ ~Pool!Resident(c)
          /\ Pool!AcquireRefused(c)
          /\ err' = "exhausted"
          /\ UNCHANGED <<poolVars, dataVars, active>>

Gather(c) ==
    /\ Calling("gather", c)
    /\ \/ c \in Persistent /\ UNCHANGED <<poolVars, dataVars, active, err>>
       \/ c \notin Persistent /\ Fetch(c)
    /\ UNCHANGED <<refcount, deferred, gradVars, adamVars, walkVars, sharded>>

\* offload past its deferral guard.  A param on the CPU is left for the
\* worker's post_step to repoint.
Unbind(c) ==
    /\ Pool!Release(c)
    /\ active' = active \ {c}
    /\ bound' = [bound EXCEPT ![c] = IF @ = OnCpu THEN OnCpu ELSE Placeholder]
    /\ UNCHANGED <<slotData, largeData>>

\* A live backward handle pins the chunk.
Pinned(c) == refcount[c] > 0

OffloadOrDefer(c) ==
    \/ /\ c \in Persistent
       /\ UNCHANGED <<poolVars, dataVars, active, deferred>>
    \/ /\ c \notin Persistent /\ Pinned(c)
       /\ deferred' = deferred \cup {c}
       /\ UNCHANGED <<poolVars, dataVars, active>>
    \/ /\ c \notin Persistent /\ ~Pinned(c)
       /\ Unbind(c)
       /\ UNCHANGED deferred

Offload(c) ==
    /\ Calling("offload", c)
    /\ OffloadOrDefer(c)
    /\ UNCHANGED <<refcount, gradVars, adamVars, walkVars, sharded, err>>

-----------------------------------------------------------------------------
(* The scheduler's walk.  A hook runs when the previous one's calls are    *)
(* done.                                                                   *)

Arrive(p, a) == err = "none" /\ todo = <<>> /\ phase = p /\ at = a

\* pre_block_forward: the block's chunks, then the next block's.
ForwardPre ==
    /\ Arrive("forward", "pre")
    /\ todo' = Calls("gather", ChunksOf[blk])
                 \o (IF blk < NBlocks THEN Calls("gather", ChunksOf[blk + 1]) ELSE <<>>)
    /\ at' = "run"
    /\ UNCHANGED <<poolVars, dataVars, active, refcount, deferred, gradVars,
                   adamVars, sharded, phase, blk, micro, steps, err>>

\* The next block needs the chunk again; as its mutant, nothing is released.
KeptAlways(c) == TRUE
KeptForNext(c) == blk < NBlocks /\ c \in ToSet(ChunksOf[blk + 1])

\* post_block_forward: release what the next block does not use.
ForwardPost ==
    /\ Arrive("forward", "run")
    /\ todo' = Calls("offload", Only(ChunksOf[blk], {c \in Chunk : ~KeptForNext(c)}))
    /\ at' = "post"
    /\ UNCHANGED <<poolVars, dataVars, active, refcount, deferred, gradVars,
                   adamVars, sharded, phase, blk, micro, steps, err>>

ForwardNext ==
    /\ Arrive("forward", "post")
    /\ at' = "pre"
    /\ IF blk < NBlocks THEN blk' = blk + 1 /\ UNCHANGED phase
                        ELSE phase' = "backward" /\ UNCHANGED blk
    /\ UNCHANGED <<poolVars, dataVars, active, refcount, deferred, gradVars,
                   adamVars, sharded, todo, micro, steps, err>>

\* The chunks of b pre_block_backward gathers: the resident ones, to re-claim
\* them, then the others; as its mutant, the others only.
ResidentChunks == {c \in Chunk : Pool!Resident(c)}
MissingOnly(b) == Only(ChunksOf[b], Chunk \ ResidentChunks)
ResidentFirst(b) == Only(ChunksOf[b], ResidentChunks) \o MissingOnly(b)

BackwardPre ==
    /\ Arrive("backward", "pre")
    /\ todo' = Calls("gather", ResidentFirst(blk))
    /\ at' = "ahead"
    /\ UNCHANGED <<poolVars, dataVars, active, refcount, deferred, gradVars,
                   adamVars, sharded, phase, blk, micro, steps, err>>

\* The look-ahead of pre_block_backward: the previous block's chunks that are
\* not resident (skipped when this block owns no chunk).  A CKPT block's
\* recompute then calls ensure_block_resident before it replays the forward.
BackwardAhead ==
    /\ Arrive("backward", "ahead")
    /\ todo' = (IF blk > 1 /\ ChunksOf[blk] # <<>>
                THEN Calls("gather", MissingOnly(blk - 1))
                ELSE <<>>)
            \o (IF blk \in OffloadBlocks THEN <<>> ELSE Calls("gather", ChunksOf[blk]))
    /\ at' = "run"
    /\ UNCHANGED <<poolVars, dataVars, active, refcount, deferred, gradVars,
                   adamVars, sharded, phase, blk, micro, steps, err>>

\* OffloadedBlock._unpack: gather_for_backward pins the chunk for the life of
\* the saved view.
Unpack(c) ==
    /\ Arrive("backward", "run")
    /\ blk \in OffloadBlocks /\ c \in OwnedBy(blk)
    /\ refcount[c] < MaxHandles
    /\ Fetch(c)
    /\ refcount' = IF err' = "none" THEN [refcount EXCEPT ![c] = @ + 1] ELSE refcount
    /\ UNCHANGED <<deferred, gradVars, adamVars, walkVars, sharded, todo>>

\* The last handle of a deferred chunk dies; as its mutant, it goes unnoticed.
NeverLast(c) == FALSE
LastHandle(c) == refcount[c] = 1 /\ c \in deferred

\* The view dies: _release_backward_handle, and with the last handle of a
\* chunk its deferred offload.
DropHandle(c) ==
    /\ err = "none"
    /\ refcount[c] > 0
    /\ refcount' = [refcount EXCEPT ![c] = @ - 1]
    /\ IF LastHandle(c)
       THEN deferred' = deferred \ {c} /\ Unbind(c)
       ELSE UNCHANGED <<poolVars, dataVars, active, deferred>>
    /\ UNCHANGED <<gradVars, adamVars, walkVars, sharded, todo, err>>

\* post_block_backward: finalize the chunks no earlier block owns.  The
\* leaves' gradient hooks may fire before or after it.
BackwardPost ==
    /\ Arrive("backward", "run")
    /\ todo' = Calls("offload", Only(ChunksOf[blk],
                  {c \in Chunk : \A b \in 1..(blk - 1) : c \notin ToSet(ChunksOf[b])}))
    /\ due' = due \cup {<<blk, c>> : c \in OwnedBy(blk) \cap Trainable}
    /\ at' = "post"
    /\ UNCHANGED <<poolVars, dataVars, active, refcount, deferred, remaining, gpuGrads,
                   ready, adamVars, sharded, phase, blk, micro, steps, err>>

\* The sharded counter stops at zero.
CountDown(n) == Max({n - 1, 0})

\* The post-accumulate hook of block b's parameter in chunk c.
GradHook(b, c) ==
    /\ err = "none"
    /\ <<b, c>> \in due
    /\ due' = due \ {<<b, c>>}
    /\ IF sharded
       THEN /\ remaining' = [remaining EXCEPT ![c] = CountDown(@)]
            /\ gpuGrads' = gpuGrads \cup {c}
            /\ UNCHANGED ready
       ELSE /\ remaining' = [remaining EXCEPT ![c] = IF @ = 1 THEN GradInitial(c) ELSE @ - 1]
            /\ ready' = IF remaining[c] = 1 THEN ready \cup {c} ELSE ready
            /\ UNCHANGED gpuGrads
    /\ UNCHANGED <<poolVars, dataVars, active, refcount, deferred, adamVars,
                   walkVars, sharded, todo, err>>

\* Autograd moves on: to the previous block, the next micro-batch or the
\* optimizer.  The views a block's backward unpacked are gone by then, and
\* when backward() returns every leaf has its gradient.
BackwardNext ==
    /\ Arrive("backward", "post")
    /\ \A c \in OwnedBy(blk) : refcount[c] = 0
    /\ IF blk > 1
       THEN blk' = blk - 1 /\ at' = "pre" /\ UNCHANGED <<phase, micro>>
       ELSE /\ due = {}
            /\ UNCHANGED blk
            /\ IF micro < MicroBatches
               THEN phase' = "forward" /\ at' = "pre" /\ micro' = micro + 1
               ELSE phase' = "step" /\ at' = "sweep" /\ micro' = 1
    /\ UNCHANGED <<poolVars, dataVars, active, refcount, deferred, gradVars,
                   adamVars, sharded, todo, steps, err>>

-----------------------------------------------------------------------------
(* The optimizer step: sweep, launch, wait, drain.                         *)

\* _grad_remaining after a chunk was reduced; as its mutant, it is not re-armed.
NotRearmed(c) == remaining[c]
Rearmed(c) == GradInitial(c)

\* Sharded: reduce_grads_and_offload(force=True) over every non-persistent chunk.
Sweep ==
    /\ Arrive("step", "sweep")
    /\ todo' = IF sharded THEN Calls("reduce", SetToSeq(Chunk \ Persistent)) ELSE <<>>
    /\ at' = "launch"
    /\ UNCHANGED <<poolVars, dataVars, active, refcount, deferred, gradVars,
                   adamVars, sharded, phase, blk, micro, steps, err>>

\* _reduce_scatter_and_offload_shard with force, then offload: a chunk without
\* gradients is only offloaded.
Reduce(c) ==
    /\ Calling("reduce", c)
    /\ IF c \in gpuGrads
       THEN /\ gpuGrads' = gpuGrads \ {c}
            /\ remaining' = [remaining EXCEPT ![c] = Rearmed(c)]
            /\ ready' = ready \cup {c}
       ELSE UNCHANGED <<gpuGrads, remaining, ready>>
    /\ OffloadOrDefer(c)
    /\ UNCHANGED <<refcount, due, adamVars, walkVars, sharded, err>>

\* step_ready_cpu_chunks clears the set, then launches in chunk order.
LaunchAll ==
    /\ Arrive("step", "launch")
    /\ todo' = Calls("launch", Sorted(ready))
    /\ ready' = {}
    /\ at' = "wait"
    /\ UNCHANGED <<poolVars, dataVars, active, refcount, deferred, remaining, gpuGrads,
                   due, adamVars, sharded, phase, blk, micro, steps, err>>

\* _ensure_cpu_grads_attached (replicated chunks) and step_async.
Launch(c) ==
    /\ Calling("launch", c)
    /\ bound' = IF sharded THEN bound ELSE [bound EXCEPT ![c] = OnCpu]
    /\ queue' = Append(queue, c)
    /\ UNCHANGED <<poolVars, slotData, largeData, active, refcount, deferred, gradVars,
                   master, working, failed, walkVars, sharded, err>>

AdamBegin ==
    /\ working = NoChunk /\ queue # <<>>
    /\ working' = Head(queue)
    /\ queue' = Tail(queue)
    /\ UNCHANGED <<poolVars, dataVars, active, refcount, deferred, gradVars, master,
                   failed, walkVars, sharded, todo, err>>

\* optim.step(), then post_step: a param still on the CPU goes back to the
\* placeholder.
AdamEnd ==
    /\ working # NoChunk
    /\ master' = [master EXCEPT ![working] = @ + 1]
    /\ bound' = [bound EXCEPT ![working] = IF @ = OnCpu THEN Placeholder ELSE @]
    /\ working' = NoChunk
    /\ UNCHANGED <<poolVars, slotData, largeData, active, refcount, deferred, gradVars,
                   queue, failed, walkVars, sharded, todo, err>>

\* optim.step() raises: post_step is not run, and the worker goes on.
AdamFails ==
    /\ working # NoChunk
    /\ Cardinality(failed) < MaxFailures
    /\ failed' = failed \cup {working}
    /\ working' = NoChunk
    /\ UNCHANGED <<poolVars, dataVars, active, refcount, deferred, gradVars, master,
                   queue, walkVars, sharded, todo, err>>

\* Every future in _pending is over.
AllOver == queue = <<>> /\ working = NoChunk

\* wait_cpu_optim_all: every future is awaited, then the first exception
\* raised again.
WaitRaises ==
    /\ Arrive("step", "wait")
    /\ AllOver /\ failed # {}
    /\ err' = "adam"
    /\ UNCHANGED <<poolVars, dataVars, active, refcount, deferred, gradVars, adamVars,
                   walkVars, sharded, todo>>

\* Otherwise scheduler.drain() flushes the deferred offloads nothing pins
\* any more.
Drain ==
    /\ Arrive("step", "wait")
    /\ AllOver /\ failed = {}
    /\ LET flush == {c \in deferred : refcount[c] = 0} IN
        /\ todo' = Calls("offload", SetToSeq(flush))
        /\ deferred' = deferred \ flush
    /\ at' = "done"
    /\ UNCHANGED <<poolVars, dataVars, active, refcount, gradVars, adamVars, sharded,
                   phase, blk, micro, steps, err>>

\* The next iteration's forward begins.
NextStep ==
    /\ Arrive("step", "done")
    /\ steps < MaxSteps
    /\ steps' = steps + 1
    /\ phase' = "forward" /\ blk' = 1 /\ at' = "pre"
    /\ UNCHANGED <<poolVars, dataVars, active, refcount, deferred, gradVars, adamVars,
                   sharded, todo, micro, err>>

\* Training is over (the bound MaxSteps is reached).
Finished ==
    /\ Arrive("step", "done")
    /\ steps = MaxSteps
    /\ UNCHANGED vars

\* Training has ended with the exception of an optimizer step.
Raised == err = "adam" /\ UNCHANGED vars

Next ==
    \/ \E c \in Chunk : Gather(c) \/ Offload(c) \/ Reduce(c) \/ Launch(c)
    \/ ForwardPre \/ ForwardPost \/ ForwardNext
    \/ BackwardPre \/ BackwardAhead \/ BackwardPost \/ BackwardNext
    \/ \E c \in Chunk : Unpack(c) \/ DropHandle(c)
    \/ \E b \in Block, c \in Chunk : GradHook(b, c)
    \/ Sweep \/ LaunchAll \/ WaitRaises \/ Drain \/ NextStep \/ Finished \/ Raised
    \/ AdamBegin \/ AdamEnd \/ AdamFails

Spec == Init /\ [][Next]_vars

\* The training thread keeps going, without staying in a block's backward for
\* ever (Unpack is left out); autograd fires the hooks it owes and frees the
\* views of a finished block; the executor's worker runs what it is handed.
Walk ==
    \/ \E c \in Chunk : Gather(c) \/ Offload(c) \/ Reduce(c) \/ Launch(c)
    \/ ForwardPre \/ ForwardPost \/ ForwardNext
    \/ BackwardPre \/ BackwardAhead \/ BackwardPost \/ BackwardNext
    \/ Sweep \/ LaunchAll \/ WaitRaises \/ Drain \/ NextStep

Fairness ==
    /\ WF_vars(Walk)
    /\ WF_vars(AdamBegin \/ AdamEnd \/ AdamFails)
    /\ WF_vars(\E b \in Block, c \in Chunk : GradHook(b, c))
    /\ \A c \in Chunk : WF_vars(at = "post" /\ DropHandle(c))

FairSpec == Spec /\ Fairness

-----------------------------------------------------------------------------
(* Properties.                                                             *)

TypeOK ==
    /\ Pool!TypeOK
    /\ slotData \in [Slot -> [chunk : Chunk \cup {NoChunk}, ver : Torn..(MaxSteps + 1)]]
    /\ largeData \in [Large -> Torn..(MaxSteps + 1)]
    /\ master \in [Chunk -> 0..(MaxSteps + 1)]
    /\ active \subseteq Chunk /\ deferred \subseteq Chunk
    /\ bound \in [Chunk -> Slot \cup {InLarge, Placeholder, OnCpu}]
    /\ refcount \in [Chunk -> 0..MaxHandles]
    /\ remaining \in [Chunk -> 0..NBlocks]
    /\ gpuGrads \subseteq Chunk /\ ready \subseteq Chunk
    /\ due \subseteq Block \X Chunk
    /\ queue \in Seq(Chunk) /\ working \in Chunk \cup {NoChunk} /\ failed \subseteq Chunk
    /\ sharded \in BOOLEAN
    /\ phase \in {"forward", "backward", "step"} /\ blk \in Block
    /\ micro \in 1..MicroBatches /\ steps \in 0..MaxSteps
    /\ err \in {"none", "exhausted", "adam"}

Computing == at = "run" /\ todo = <<>> /\ err = "none"

BytesOf(c) ==
    IF c \in Large THEN [chunk |-> c, ver |-> largeData[c]] ELSE slotData[tagSlot[c]]

\* While a block computes, forward or backward, each of its offloaded chunks
\* is leased, its parameters point into its own buffer, and that buffer holds
\* that chunk, whole: look-ahead gathers, late handle drops and deferred
\* offloads of other blocks never took it away.  A live saved-tensor view
\* keeps its chunk leased and in place until backward reads through it.
ComputeReadsOwnBuffer ==
    /\ Computing => \A c \in OwnedBy(blk) :
          /\ c \in active
          /\ bound[c] = BufferOf(c)
          /\ BytesOf(c).chunk = c
          /\ BytesOf(c).ver # Torn
    /\ \A c \in Chunk : refcount[c] > 0 => c \in active /\ BytesOf(c).chunk = c

\* At the floor of min_n_buffer_for the look-ahead walk never finds the pool
\* exhausted, in either direction and whichever views are alive.
FloorSuffices == err # "exhausted"

\* When a micro-batch starts nothing of the previous one is left: no lease,
\* no pinned or deferred chunk, no parameter on the CPU, no gradient owed.
CleanStart ==
    (phase = "forward" /\ blk = 1 /\ at = "pre") =>
        /\ active = {} /\ deferred = {} /\ due = {}
        /\ \A c \in Chunk : refcount[c] = 0 /\ bound[c] # OnCpu
        /\ \A c \in Chunk : ~Pool!Leased(c)

\* Types, and CleanStart.
Inv == TypeOK /\ CleanStart

\* An optimizer step updates every offloaded trainable chunk exactly once,
\* however many micro-batches and blocks contributed gradients to it, and
\* re-arms its gradient counter; a frozen chunk is never stepped.  An update
\* that raised is not passed over: no gather and no later step ever sees its
\* future, and the step that launched it does not return.
SteppedOncePerStep ==
    /\ (phase = "step" /\ at = "done") => \A c \in Chunk :
          /\ master[c] = IF c \in Trainable \ Persistent THEN steps + 1 ELSE 0
          /\ remaining[c] = GradInitial(c)
    /\ failed # {} => phase = "step" /\ at = "wait"

\* The manager is a well-behaved caller of the pool: whatever the runtime
\* does is a behaviour of the pool with the active chunks as its leases.
UsesPoolWell == Pool!Spec

\* Training finishes, or raises for a failed update: nothing waits for ever on
\* the worker, on a gradient hook or on a pinned chunk.
Finishes == <>(phase = "step" /\ ((at = "done" /\ steps = MaxSteps) \/ err = "adam"))

\* The weights a block computes with are those of the last optimizer step:
\* DESIGN.md says that the next gather propagates the update to the GPU copy.
ComputeReadsLatest ==
    Computing => \A c \in OwnedBy(blk) : BytesOf(c).ver = master[c]
=============================================================================
