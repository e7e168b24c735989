# A TLA+ model of axolotl's training runtime

This directory holds TLA+ specifications of the concurrent and stateful parts
of the repository under `src/`, the TLC configurations that check them on small
instances, and TLAPS proofs for ten of the components.

`src/` is axolotl, a fine-tuning framework, with the **ProTrain** integration
(`src/src/axolotl/integrations/protrain`), a runtime that trains a model larger
than GPU memory by moving chunks of parameters between the GPU and pinned host
memory. Most of axolotl is configuration, text processing and numerics. What a
specification can say something about is the machinery that shares state between
threads, hooks and queued copies; that is what is modelled. Paths below are
relative to `src/src/axolotl/` unless they start with `src/`.

## 1. Inventory

Status: **M** modelled, **P** partly, **-** not yet or not at all. `PROJECT.json`
lists the same parts with their files.

### ProTrain

| Part | State it keeps | Operations | | 
|---|---|---|---|
| Buffer pool, `chunk/buffer_pool.py` | tags both ways, free deque, lease counts, oversize side table, closed flag | `acquire`, `acquire_if_resident`, `lookup_resident`, `release`, `invalidate_tag`, `close` | M |
| Chunk manager, `chunk/manager.py` | active chunks, pin counts, deferred offloads, gradient counters, ready chunks, where `param.data` points | `gather`, `offload`, `gather_for_backward`, gradient hooks, `reduce_grads_and_offload`, `step_ready_cpu_chunks`; also materialise, restore, state dictionaries, `close` | P |
| Scheduler and hooks, `runtime/scheduler.py`, `runtime/hooks.py` | the walk's position, look-ahead, CUDA streams | the pre/post block hooks in both directions, `ensure_block_resident`, `drain` | P |
| Optimizers, `chunk/optim.py`, `api/optim_wrapper.py` | one executor thread, futures by chunk | `step_async`, `wait`, `wait_all`, `step`, `zero_grad`, state dictionaries | P |
| Offloaded block, `block/offload.py` | saved-tensor handles, attach epochs | pack, unpack, attach, detach | P |
| Activation swap, `block/swap_pool.py`, `block/swap.py` | extents, allocations, in-flight count, closing flags | `acquire`, `release`, `close`, pack and unpack hooks | P |
| Search and cost model | none | `min_n_buffer_for` and a numeric search | P |
| Layout, `chunk/layout.py`, `chunk/sizing.py`, `block/layout_rules.py` | none | `build_layout`, the byte-only packer, `pick_S_chunk`, `assign_modes` | M |
| Checkpoint, reshard | files | save, load, offline reshard | - |
| Wrapper, plugin, profiler | configuration, measurements | wiring | - |

*How they interact.* The scheduler is called by the hooks of each transformer
block and calls the manager's `gather` and `offload`. The manager leases slots
from the pool, so that a chunk found again in the backward pass needs no copy.
Autograd calls the unpack hook of an offloaded block, which pins a chunk
for the life of a tensor view, and the post-accumulate hooks of the parameters,
which count gradients down. The optimizer step sweeps the chunks, hands them to
one Adam worker thread, waits, and drains. The worker's completion callback
writes `param.data` as the training thread does.

*What is hard.* The order of look-ahead gathers, releases, pins and deferred
releases at the smallest legal pool; the worker thread writing masters that a
gather reads; tags that outlive the bytes they promise; counters that have to be
re-armed exactly once; a close that races packers and queued copies.

*What makes it correct.* A block computes from its own parameters, whole and up
to date; a pinned or leased buffer is never reused; the pool never runs dry at
the floor the search computed; every chunk is stepped once per optimizer step, or
the step raises; memory freed has no copy on it; blocks stay together in the
layout, which the walk relies on.

### The rest of axolotl

| Part | State and operations | What is hard, what must hold | |
|---|---|---|---|
| Background checkpoint publisher, `core/checkpoint_publisher.py` | a queue of futures, one executor thread, private directories; `check`, `submit`, `close` | cancellation against a running worker, chained futures; in order, no gaps, nothing left on disk | M |
| Disk activation offload, `monkeypatch/gradient_checkpointing/offload_disk.py` | file status table, cache, queues, a semaphore, four kinds of threads; save, prefetch, wait, load, clean up | status read and written in several sections; no premature load, no leak, the passes end | P |
| Asynchronous GRPO, `core/trainers/grpo/async_trainer.py` | an executor thread, a queue of futures, a generate lock, step counters that say what was synced, adapter versions on the inference server; `_prepare_inputs`, `produce`, weight sync, evaluation | rollouts generated on old weights, a sync during a generation, an adapter unloaded under a request; bounded age, order, no dead wait | P |
| Reward workers, `core/trainers/grpo/fast_async_trainer.py` | processes with a pipe each; send a batch, collect or drain, start again | a worker that fails or dies; rewards of this batch only | (same) |
| Dataset preparation lock, `utils/data/lock.py`, `shared.py`, `sft.py` | file lock, counter file, ready flag, prepared directory; `load`, `cleanup` | a process that dies between two steps; one builds, the others load, the last cleans up | M |
| Tokenization work queue, `utils/data/work_queue.py` | a deque of futures, buffered rows, a temporary file | order restored, bounded memory, a worker that dies, an atomic commit | M |
| Exact data replay, `core/trainers/base.py` | the sampler's cached plan, `balanced_sampler.json`, the trainer state; `_init_training_state`, `_run_epoch`, `_save_checkpoint` | three positions that must agree after a crash anywhere in epochs of different lengths | P |
| Multipack sampler, `utils/samplers` | the plan of an epoch | four rewriting stages, with totals kept up incrementally; no sample lost, no stage undoing another | P |
| Callbacks and logging | trigger file of the dynamic checkpoint, otherwise I/O | a trigger seen once by all ranks | - |
| CPU activation offload | a stateless autograd function | nothing shared | - |
| Other trainer code, CLI, prompt strategies, schemas, model loading, kernels, patches, other integrations, telemetry | sequential configuration, text, numerics, external services | nothing concurrent of their own | - |

`PROJECT.json` lists under `hazards` each place where this code is exposed to
something a test would hardly reach, with the properties that look at it, or
the reason none does.

## 2. Modules

| Module | Models | |
|---|---|---|
| `ResidentCache` | what the pool promises, without slots or tags: what is cached, leases, and that the least recently released goes first | abstract |
| `BufferPool` | `chunk/buffer_pool.py`, every method that changes state | |
| `BufferPoolProofs` | theorems about `BufferPool` | proofs |
| `ChunkRuntime` | one rank: scheduler, manager, offload unpack, Adam worker, optimizer step; `INSTANCE`s `BufferPool` and uses its methods | composition |
| `ChunkRuntimeProofs` | theorems about `ChunkRuntime` | proofs |
| `RuntimeOnLayout` | `ChunkRuntime` on the chunks that `Layout` gives it, with what is promised of layouts | composition |
| `LayoutProofs` | theorems about `Layout` and `RuntimeOnLayout` | proofs |
| `Selections` | what a comprehension over a list selects, and `sorted`; used by `ChunkRuntime`, `Layout`, `DiskOffload` and `SwapPool` | functions |
| `OrderedPublication` | what the publisher promises | abstract |
| `CheckpointPublisher` | `core/checkpoint_publisher.py` | |
| `DiskOffload` | the manager and threads of `offload_disk.py` | |
| `SwapPool` | `swap_pool.py` with the hooks of `swap.py` and the copy stream | |
| `Layout` | placement of parameters in chunks, the choice of the chunk size, block modes | functions |
| `AsyncRollouts` | the main thread and the executor thread of `async_trainer.py`, with the inference server | |
| `RewardWorkers` | the reward subprocess pool of `fast_async_trainer.py` | |
| `TokenizationQueue` | `work_queue.py`; extended by the next | |
| `DatasetPreparation` | `lock.py` with what is loaded, built and saved under the lock; drives `TokenizationQueue` | composition |
| `LabelBalance` | packing and the four balancing stages of `utils/samplers` | functions |
| `DataReplay` | training, crashing and resuming in `core/trainers/base.py` | |
| `DatasetPreparationProofs` | theorems about the module of that name | proofs |
| `AsyncRolloutsProofs` | theorems about `AsyncRollouts` and `RewardWorkers` | proofs |
| `CheckpointPublisherProofs` | theorems about `CheckpointPublisher` and `DataReplay` | proofs |
| `SwapPoolProofs` | theorems about `SwapPool` and `DiskOffload` | proofs |
| `SequenceLemmas` | lemmas the proofs share: sets of sequences, induction, folds, enumerations of finite sets, counting, multiples | lemmas |
| `MC*` | constants for TLC; `MCDataReplay` adds `LabelBalance`'s promises and takes the lengths of its epochs from it | |

A comment that begins *Mutant of*, or *as its mutant*, marks a definition that
is part of no specification. It is the definition below it with a plausible bug,
for checking that a property notices: every property of every passing run has
one that breaks it (`mutants` in `PROJECT.json`).

### BufferPool

Variables carry the names of the attributes: `tags` is `_tags`, `tagSlot`
`_tag_to_slot`, `free` `_free`, `leases` `_leases`, `largeLeases` `_large_leases`,
`closed` `_closed`. `_free_set` is `ToSet(free)`: the code updates both together.
`_large_buffers` has an entry exactly when the count is positive. `holders` is
not in the code: it is the set of clients that called `acquire` and have not
called `release`, what "lease" means to the callers. A method runs to its end on
the caller's thread, so each is one action: `Acquire` with its three outcomes
(`LeaseLarge`, `LeaseHit`, `LeaseMiss`), `AcquireIfResident`, `Release`,
`InvalidateTag`, `Close`. Calls that raise change nothing. `AcquireRefused` says
when that is. A client may release a chunk nobody holds, which the code allows
and ignores; it does not release somebody else's lease, which the code cannot
detect.

### ChunkRuntime

A hook of the scheduler is a list of manager calls (`todo`); each call is one
step, and between any two the worker, a gradient hook or a dying view may come.
`phase`, `blk`, `at` are where the training thread is: `ForwardPre`,
`ForwardPost`, `BackwardPre`, `BackwardAhead`, `BackwardPost` are the hooks,
`Sweep`, `LaunchAll`, `Drain` the parts of `step`. `Fetch` is `gather`
past the persistence test: wait for the chunk's step, then the active fast path,
the resident hit without a copy, the miss with one, or the refusal (`err`).
`OffloadOrDefer` is `offload`. `Unpack` and `DropHandle` are
`gather_for_backward` and the end of its handle. `GradHook` is the
post-accumulate hook in its sharded and its replicated form; `Sharding` explores
both. `AdamBegin` and `AdamEnd` are the worker: between them the chunk's master
is being written, and a copy that reads it is `Torn`.

A weight is its version, the number of optimizer steps applied to it. Whether a
buffer holds the right weights is whether it holds the right chunk, at the
master's version. A chunk's parameters are one per block that owns it. The CUDA
streams are left out: `gather` is complete when it returns to the compute
stream. The rank is alone: a collective is a local step. A gradient hook fires
after its block's backward ran and before the next optimizer step, otherwise in
any order. A step on the worker may raise: the future then stays in
`_pending` and raises again for whoever waits (`err` is `"adam"`).

### Layout

Parameters are visited in execution order and the first of a block brings the
whole block (`Steps`). `PlaceStep` folds `_place` over a step, after
`SealedBefore` has decided whether the block opens a chunk. The search packs the
same steps by byte counts (`PackChunks`) and so does not look at parameters;
`LeastWaste` compares its choice with the layout that is then built.

`RuntimeOnLayout` puts the two together. `RunsOnLayout` says that the chunks, blocks,
persistent and oversize chunks of the runtime are what `LayoutChunks` and the
rules of the search give for `Model`. The model that is trained, the models to
lay out, the candidates and the numbers of blocks are its constants. `IsModel` is what
`build_layout` accepts: it raises when the execution order or a block names an unknown
parameter (`LayoutAssumption`). `SuitsRuntime` says what the walk needs of a
layout, which `RuntimeAssumption` assumes.

### CheckpointPublisher

The producer's calls are `Call`/`Check*`/`Retain`/`Enqueue` and
`Close`/`CancelPending`/`Joined`; the executor thread is
`Take`/`AwaitPrevious`/`Publish`/`RemoveDirectory`/`SetResult`. `retain` and
`publish` are parameters of the class and may raise. The executor is Python's:
one worker thread, a FIFO queue, and `shutdown(cancel_futures=True)` that drains
the queue item by item while the worker takes from it too. `previous` is the
tail of `futures` at the time of the submission, as in the code, not the job
before in the numbering: a job that was popped is not awaited.

### DiskOffload

One step per `manager_lock` section, and one per file operation between two
sections. The autograd thread (`at`, `cur`) goes forward over the tensors and
then back, and for each does `trigger_prefetch`, `wait_for_save`, `load_tensor`,
`cleanup_tensor` with `_safe_delete_file`. The save path is `SubmitSave`,
`RegisterFuture` (the worker thread), `StartSave` to `ReleasePermit` (the pool
thread). A prefetch worker is `PrefetchGet` to `PrefetchFinish`; `TaskDone`
counts `unfinished_tasks` and kills the thread when it goes below zero, as
`queue.Queue` does. In `PrefetchCheck` a branch for a path that is still being
saved is left out: a path is queued only once it is saved. `wait_for_save`
polls without a time-out, since no caller gives it one. The second `wait_for_save`, inside `load_tensor`,
returns at once.

### SwapPool

The allocator's methods are lock sections, one step each: `Acquire` is first fit
at the rounded size, `Release` appends and coalesces. `Coalesce` sorts by offset
(`ByOffset`, which may take any extent with an offset, since no two begin at the
same byte) and runs the merging loop (`MergeAll`, a recursive function).
`close` gives the lock up while it drains and is five actions. The copies go
into one FIFO `stream` and happen later (`Copy`); `UnpackFence` is the event
wait in `finally`. `bytes` says whose data each byte of the region holds. A
slot is named by its tensor, since slot ids are not reused and a tensor is packed
once. A pack may fail before or after the copy is queued; an unpack may fail in
the headroom gate or in the allocation, which synchronises the device first.

### AsyncRollouts

`main` is where the main thread is and `bg` where the executor thread is. Weights
are named by the optimizer step they belong to, so the age of a rollout is a
difference. A setting chooses the path (`AsyncDataProducer` or the legacy queue
of futures), how weights are sent (`sync_weights`, merged copies, adapter files)
and whether rank 0 generates alone. `SkipSync`/`BeginSync` are
`_maybe_sync_vllm_weights`, `Pause` to `UnloadAdapter` the three ways to sync,
`FirstProduce`/`Produce` the producer's `produce`, `Evaluate` the stock path. The
executor thread is `Take`, `Lock`, `Begin` (it remembers `_last_loaded_step` and
overwrites it), `Check` (TRL's own sync check, on that thread), `Request` (the
adapter's name is read), `Arrive` (the server starts, unless paused), `End`. TRL,
the vLLM client and the server are external, and modelled from their use.

### RewardWorkers

`Launch` is `_get_reward_workers`, `Send` to `Assemble` the trainer's code, in
which `turn` is the worker it talks to. A worker computes, answers `None`, or dies;
what it has sent can still be received. `FlattenSeq(collected)` is the assembly
of the rewards: their order is checked, their values are names.

### TokenizationQueue and DatasetPreparation

A row is its number; which rows the strategy drops is chosen at the start. The
caller is `Tokenize` to `Fail`, the pool `PoolTake`, `PoolDone`, `PoolDies`. The
ranks go through `FileLockLoader.load` and `cleanup` file operation by file
operation: `Truncate` and `Count` are one `write_text`, `SaveBegin` and `SaveEnd`
one `save_to_disk`. A rank may die anywhere (`Die`): the system releases its lock,
its pool goes with it, the files stay. `Restart` begins a new run when all ranks
are over. The wait for the flag in `load` is left out: the flag was there when the
lock's holder looked, and nobody removes it without the lock.

### LabelBalance and DataReplay

`Stages` is `generate_batches`: `Packed`, `BalanceLabels`, `BalanceAccumulation`
and `BalanceMicrobatches` twice. A row is a sequence of samples and a batch one of
rows, so that "no sample lost" is a statement about sequences. Tie-breaking
follows Python's: stable sorts, first minimum, tuples compared at their first
difference. The shuffle of a window is one permutation, the reverse. Candidate
lists longer than 32 are cut off in the code and are no longer than that here.
`RanksAgree` is about every valid layout of a step's batches over the ranks,
among which the code's beam search picks one.

`DataReplay` names a batch by its plan and its number. `Start` is
`_init_training_state`, `BeginEpoch` `_run_epoch`, `Save` `_save_checkpoint`;
`Train`, `EndEpoch`, `NextEpoch` stand for the Trainer's loop, which is
external. `trained` is a history: the batches each optimizer step was first made
of.

## 3. Runs

| Run | Instance | Distinct states | Shows |
|---|---|---|---|
| `pool` | 3 slots, 4 chunks and an oversize one, 2 clients | 11,977 | The inductive invariant, exhaustion only when all slots are held, no held chunk moves, and the refinement of `ResidentCache`: a miss drops the least recently released chunk or none |
| `runtime` | 5 blocks, 7 chunks, 3 slots, 2 micro-batches, 2 steps, 1 failing Adam step, sharded and not; 3,888 small models for the layout, every request to `assign_modes` up to 9 blocks | 7,431 | At the buffer floor every block reads its own buffers and live views theirs; the pool never refuses; nothing leaks over to the next micro-batch; each chunk is stepped once per step or the step raises; the manager uses the pool as `BufferPool` says; training ends. Blocks stay together in the layout, the chunk size wastes least, modes are as asked |
| `publisher` | 4 checkpoints | 6,272 | Ordered publication without gaps, directories owned and removed, no check passes over a failure and nothing is accepted after one, everything settled |
| `disk_offload` | 3 tensors, 1 save thread, 2 prefetchers, 1 fault | 780,068 | A backward pass raises only for a failed save; permits are accounted for; the passes end |
| `swap_pool` | 3 tensors, 7 bytes in pairs, 2 closers | 20,057 | Extents tile the region; tensors come back intact; no copy on freed memory |
| `rollouts` | both paths, three ways to sync; depth 1 and 2, rollouts of 1 and 2 steps, intervals 1 to 3, up to 15 steps, a resumed run, 1 failure | 178,723 | Rollouts are no older than depth and sync period allow; no stock sync overlaps a generation; a requested adapter is loaded; rollouts are used once, in order, with `depth` ahead; training ends |
| `rewards` | 3 workers, up to 4 groups, 3 batches, 2 faults | 3,797 | Rewards are those of this batch, pipes are clean between batches; a batch comes back unless a worker other than the first fails |
| `preparation` | 3 ranks, 2 runs, 1 fault; 1 and 5 rows, chunks of up to 2, 2 processes | 303,341 | Everyone gets the whole dataset in order; one rank builds, memory is bounded; the last rank cleans up; errors have a cause; every rank gets through |
| `replay` | accumulation of 2 and 5, epochs of 6, 5, 4 and 5 batches, 3 starts; 1,000 inputs of nine samples for the plan, cut to 2, 3 or 4 batches or not | 38,385 | Steps made again after a crash are made of the same batches; a resume is refused for a reason only. No stage loses a sample or a label, and none undoes what one before it won |
| `stale_weights` | as `runtime` | - | violation, see section 6 |
| `disk_left_behind` | as `disk_offload`, no fault | - | violation |
| `disk_prefetcher_dies` | as `disk_offload`, no fault | - | violation |

Bounds, and why they are enough:

- `pool` has no bound but the sets. Four chunks over three slots make hits,
  evictions, exhaustion and convergence of two clients on a slot happen; the
  theorems of section 5 cover every other size.
- `MicroBatches`, `MaxSteps` = 2: two of each is what it takes for
  something to be left from the one before. `MaxHandles` = 2: two views
  of a chunk make the first drop not the last. The layout has a chunk shared by
  two blocks, two persistent, a frozen and an oversize one, blocks of both modes,
  and four chunks for three slots, which is `MinBuffer` exactly. `MaxFailures`
  = 1: the first failing step ends training, so a second cannot happen.
- Layout inputs have five parameters of size 0, 2 or 5 for chunks of 4: empty,
  fitting with another, and oversize, in four orders and four sets of blocks.
  `RuntimeAssumption` states what the search guarantees (`NBuffer >= MinBuffer`)
  and what the layout does (a chunk belongs to neighbouring blocks).
- `MaxJobs` = 4: two published ahead of a failure and one cancelled behind
  it. The futures chain looks one back only.
- `NTensors` = 3 with `MaxPrefetch` = 1: the prefetched path may be the one being
  loaded, one cleaned up already, or one further on. `SaveWorkers` = 1
  gives two permits for three tensors, so the forward pass waits for a permit.
  `MaxFaults` = 1 stays below the permits (see `Settles`).
- `rollouts`: depth 2 has two generations queued behind the one in use, and the
  longest setting (15 steps of rollouts of 2 with an interval of 3) is long
  enough for the oldest rollout the bound allows to be trained on: lowering
  the bound by one is violated. One failure ends training.
- `rewards`: three workers make a middle one; four groups leave the last
  worker without any; two faults are one that fails and one that dies at once;
  three batches let what the first leaves reach a third.
- `preparation`: three ranks have a first, a middle and a last; two runs let the
  second find what a crash in the first has left; five rows in chunks of two
  make a short last chunk, three chunks for a bound of two in flight, and more
  than a writer's batch. `MaxFaults` = 1: a second crash finds files only in states
  that one crash leaves.
- `replay`: the plans come from eight samples in four orders and are longer,
  equal and shorter than what the accumulation divides; with 5 some epoch
  has no optimizer step at all. Three starts are two crashes, the second
  in a resumed run. The plan's inputs vary all of the sampler's parameters;
  the number of batches common to all ranks (`_len_across_ranks`) cuts the plan in
  about four inputs of ten.
- Seven bytes in pairs: with 4, 2 and 2 bytes wanted not all fit, the free list
  fragments and merges on both sides, and the last byte is never handed out.

The runs check for deadlock. Where the program may really stop a step stutters
(`Finished`, `Idle`, `Stopped`, or the last disjunct of `Next`). Only `rewards` is
run without the check, as its trainer can really wait for ever (section 6).

## 4. Fairness

- `ChunkRuntime`: the training thread continues, except that it need not
  unpack more views; the Adam worker runs what it is handed; autograd fires
  the hooks it owes; the views of a block whose backward is over are collected,
  which reference counting does. Each of these is a thread of the process or a
  promise of autograd.
- `CheckpointPublisher`: the worker thread runs, and a call once begun goes on.
  The producer need not call again.
- `DiskOffload`: each thread is scheduled. Nothing is assumed of faults.
- `AsyncRollouts`: both threads are scheduled, and the server answers every
  request it has begun. A generation that fails is an answer.
- `RewardWorkers`: every worker is scheduled and its reward functions return or
  raise; the trainer carries on a batch it has begun. Workers need not die, and
  no batch need be started.
- `DatasetPreparation`: a rank that has not died runs on, and its pool with it.
  The lock is polled, so a rank may in principle find it taken every time, but
  every rank takes it twice and no more, and weak fairness is enough.
- `DataReplay`: safety only.
- `BufferPool`, `SwapPool`: safety only, no fairness. `close` of the swap pool
  may time out for ever, when a dropped handle never releases its slot.

Only weak fairness is used: each of these threads is either waiting for a
condition that, once true, stays true until it acts, or acts on every wake-up.

## 5. Proofs

Three of the modules of proofs extend two specifications, which is why
`RewardWorkers`, `DataReplay` and `DiskOffload` prefix the names that others have too
(`RewardInit`, `ReplaySpec`, `DiskNext`). The two specifications of such a module share
no variable, and no theorem speaks of both.

### The buffer pool

`BufferPoolProofs` proves, for every number of slots, every set of chunks, of
oversize chunks and every finite set of clients (`PoolAssumption`):

| Theorem | Says |
|---|---|
| `PoolInvariant` | `IInv` always holds |
| `TagIndexHolds`, `FreeIffUnleasedHolds`, `LeasesConservedHolds` | its parts |
| `ExhaustedOnlyWhenHeldHolds` | a refusal means that every slot is held |
| `HeldStaysPutHolds` | no step moves or evicts a held chunk |
| `PoolImplementsCache` | `BufferPool` implements `ResidentCache`, its order of eviction included |

The inductive invariant is
`IInv == TypeOK /\ TagIndex /\ FreeIffUnleased /\ LeasesConserved /\ LeasedIsTagged`.
No part is inductive alone. A miss *sets* the lease of the slot it takes to one,
so leases are conserved only because the slot came from the free list and slots
there have no lease (`FreeIffUnleased`). The evicted chunk loses its
table entry, and only `TagIndex` says that the entry was the one of that slot.
A release looks the slot up by chunk and puts it back into the deque, once, only
because a leased slot is not there already. `close` may empty the tables because
`LeasesConserved` turns "no slot has a lease" into "no client holds a chunk", and
for that a leased slot has to be tagged (`LeasedIsTagged`).

The argument: lemmas about the sequence operators of the free list (`RemoveAtFacts`,
`TailFacts`, `AppendFacts`), about the clients' count (`HoldersCount`, `SlotsApart`,
`HeldIsLeased`), then one lemma for each outcome of each method (`LargeLeased`,
`HitLeased`, `MissLeased`, `LargeReleased`, `SlotReleased`, `TagInvalidated`,
`PoolClosed`), combined in `StepIInv`. For the refinement, `AcquireImplements` and
`StepImplements` map a hit to `Hit`, a miss to `Miss` with the evicted chunk as
`gone`, a release to `Drop` or a stutter, `invalidate_tag` to `Forget`, `close`
to `Shut`. `CacheFits` bounds the number of cached chunks by an injection into the
slots, which `TagIndex` provides.

The cache knows of each pair of unleased chunks which was released first (`older`);
in the pool that is the order of their slots in the deque. `RemovedOrder`, `TailOrder`
and `AppendedOrder` say what removing, taking and appending do to such an order, and
`OrderAfterHit`, `OrderAfterMiss`, `OrderAfterRelease` and `OrderAfterForget` that
this is what the cache does. A slot whose tag was invalidated keeps its place and
says nothing about the others.

### Asynchronous rollouts

`AsyncRolloutsProofs` proves, for every setting of `SettingType`, hence for
every depth, rollout length, interval and resumed step (`RolloutAssumption`):

| Theorem | Says |
|---|---|
| `RolloutInvariant` | `IInv` always holds |
| `RolloutTypes` | types |
| `SyncHoldsOffGenerationHolds` | during a stock sync for training the executor is idle or waits for the lock; a server updated while paused is not generating |
| `OnlyEvaluationInterferes` | the weights change during the executor's generation only by a stock sync before an evaluation |
| `AdapterStillLoadedHolds` | at depth 1 the adapter a request names is loaded until the answer |
| `PrefetchedAheadHolds` | rollouts are used in order, once, `depth` of them ahead |
| `BoundedStalenessHolds` | no rollout is older than `depth * rollout + Period - rollout` steps |

`IInv == TypeOK /\ QueueShape /\ LockShape /\ PauseShape /\ AdapterShape`.
`QueueShape` describes `jobs` from the front: taken, then over, then at most one
running, which is the executor thread's, then queued; and it counts those ahead.
The first property needs `LockShape`, which says in which phases of the two
threads the lock is whose, and `QueueShape` for the legacy path, which has no
lock and instead waits for all futures: when all are over, the thread has no job.
`PauseShape` says when the server is paused and that it then generates nothing.
`AdapterShape` bounds how far the name in a request can be behind the one
published last; with depth 1 there is one request between two syncs, so the
version it names is the last or the one before, and only older ones are unloaded.

The bound on staleness has an invariant of its own on top of `IInv`,
`SInv == ClockShape /\ WeightShape /\ FreshShape`, which TLC was given first, with
the constants of `rollouts`. `SyncDue(c, s)` is the last multiple of the
period up to step `s`. `ClockShape` says at which step each job is taken
(`TakenAt`), so that a job is `depth` rollouts old when it is; `WeightShape`, that
the server's weights and every adapter only get newer and are never older than
`lastSynced`; `FreshShape`, that where a rollout begins the weights in force are
of `SyncDue` or later, and that every job has, or will get, weights of `SyncDue`
of the step it was submitted at, or later. The last holds through a request that
waits while a sync goes on, because the adapter it names was as new when it was
built. The one arithmetic argument is `SyncDueNext`: where no sync is due, the
last one is that of the rollout before, since both the period and the beginnings
of rollouts are multiples of the rollout length. The bound needs the period to be
a common multiple of rollout length and interval; that it is the least one only
makes it tight.

### The reward workers

`AsyncRolloutsProofs` also proves, for any number of workers, groups, batches and
faults (`WorkerAssumption`):

| Theorem | Says |
|---|---|
| `RewardInvariant` | `RewardIInv` always holds |
| `RewardsOfThisBatchHolds` | the rewards of a batch are those of its groups in order, and between batches the pipes are empty |

The property speaks of the pipes between batches; what keeps them clean is who owes
what during one. `PipesClean` says of every worker that its pipes are empty or that
it owes the trainer an answer to this batch (`Owes`) and they hold its one shard, or what
it answered (`OneShard`). `SentToUsed` keeps the trainer from waiting for a worker it
sent nothing, and `AnswersInOrder` says that the shards collected are those of
the first workers, in order. `GroupBounds` is the arithmetic: the shares of the workers
that get one follow one another up to the last group, so `FlattenSeq` of the shards is the
groups in order. A worker that died has nothing to work on (`DeadHaveNone`), so none
answers after the pool was started again.

### The checkpoint publisher

`CheckpointPublisherProofs` proves, for any number of checkpoints
(`PublisherAssumption`):

| Theorem | Says |
|---|---|
| `PublisherInvariant` | `IInv` always holds |
| `DirectoriesAreOwned` | `Inv`: types, and every retained directory has an owner until it is removed |
| `FailuresStick` | no check passes over a failed or cancelled future; after one has raised nothing is accepted and no check returns |
| `PublicationIsOrdered` | the publisher implements `OrderedPublication`, and the i-th job published is job i |

`IInv == TypeOK /\ QueueShape /\ WorkerShape /\ DirectoryShape /\ FailureShape /\ SettledInOrder`.
A job waits for the future that was last in `futures` when it was submitted, and for
none when the list was empty. Order follows only because `QueueShape` says that
`futures` is a suffix of the jobs before which every job succeeded: a job that
waits for nobody comes after successes only. `WorkerShape` carries this on: a job
in `publish` has only successes before it, so it is the next one. A directory
without a future is the producer's (`DirectoryShape`), which `Joined` needs to
know that none is left. `FailureShape` keeps the failed future at the head and the
producer out of `submit`. `check` looks at the futures from the head and stops at the
first that is not done; it passes over no failure because jobs are settled in order
(`SettledInOrder`), but for the shutdown, which joins the worker before the next
check. For the refinement, `OrderStep` maps `Enqueue` to
`Accept`, a publication to `PublishNext`, a job given up to `Stop` when it is the
next one (`GivesUp`) and everything else to a stutter.

### Exact data replay

`CheckpointPublisherProofs` also proves, for any setups, epochs and number of
starts (`ReplayAssumption`):

| Theorem | Says |
|---|---|
| `ReplayInvariant` | `ReplayIInv` always holds |
| `ReplayInvHolds` | `ReplayInv`: types, and a resume is refused for a cause only |
| `ReplaysSameHolds` | a step made again after a crash is made of the batches it was first made of |

`ReplaysSame` compares a step with one that another process made before, so
the invariant has to tie both to something that neither of them changes. That is the
order in which a setup goes through batches (`NextBatch`), and where it makes a step
(`Syncs`): what comes after a batch up to the next step is determined (`MadeOnce`).
`ExactRun` says that, while nobody has given exactness up, the steps recorded are those of
one setup in this order, that the last checkpoint lies between two of
them (`CheckpointsReplay`), and that a process goes on with the batch that follows
the last one it or its predecessor trained on (`RunsOnTrack`, `EpochOnTrack`). At the
boundary of an epoch two positions name the same batch, the end of one epoch and the
beginning of the next; hence `NextBatch` of the positions is compared and not the positions.
The lengths of epochs are those of the instance, any positive numbers.

`ReplayAssumption` has two setups with the same recorded settings be the same.
`_balanced_sampler_settings` (`base.py:306`) does not record `packing_strategy`, so the
assumption excludes a resume for which that alone was changed, with the lengths,
the labels and everything else as before. A crash and resume of one configuration
does not need it.

### The chunk runtime

`ChunkRuntimeProofs` proves, for every layout, pool size, sharding, and number of
micro-batches, steps, views and failed updates that `RuntimeAssumption` admits:

| Theorem | Says |
|---|---|
| `LeaseInvariant` | `LIInv` always holds: leases, pins and pending calls, with `BufferPool`'s own `IInv` |
| `UsesPoolWellHolds` | `Spec => UsesPoolWell`: every step of the runtime is a step of `BufferPool` with the active chunks as its leases, or none |
| `ComputeReadsOwnBufferHolds` | a block that computes has its chunks leased, bound and whole |
| `FloorSufficesHolds` | at `min_n_buffer_for` slots the walk never exhausts the pool |
| `GradInvariant` | `GIInv` always holds: gradients owed, counters, versions |
| `SteppedOncePerStepHolds` | an optimizer step updates each offloaded trainable chunk once |
| `InvHolds` | `Inv`: types, and a micro-batch starts clean |

`LIInv == LInv /\ P!IInv /\ closed = FALSE`. `ComputeReadsOwnBuffer` speaks of one
moment, the computation of a block, but what makes it true was done several hooks
before, so `LInv` says for each place of the walk (`phase`, `at`) what is leased:
`ForwardLeases` and `BackwardLeases` bound `active` by the chunks of the block, of
its neighbour and of the calls that are still in `todo`. The floor follows from the
same bound: the leased chunks and the one to be fetched are among two neighbouring
blocks, so the free list is not empty (`MinBuffer`). `Pins` ties views to the
block that is running back, and with it a deferred offload to its post hook.
`Worker` says that parameters are on the CPU only for chunks the worker has.
`Contents` is what compute then reads: the parameters of a leased chunk point into
its slot, and the slot's data is that of the chunk in its tag; the pool's
invariant provides that two chunks never share a slot.

`GIInv == LIInv /\ GInv`. A counter is re-armed long before it is used, so `GInv`
says what it holds in between: in the replicated form `remaining[c]` is
`GradInitial(c)` less the blocks whose hook has fired (`Replicated`), in the sharded
form the gradients of `c` are on the GPU from its first hook to the sweep
(`Sharded`). `Versions` says that a chunk's master is one step ahead of `steps`
exactly if the step has been through it, and `OneAtATime` that on this way a chunk
is in one place, in `todo`, in the queue, with the worker or failed.

Two assumptions go beyond sizes, and `LayoutSuitsRuntime` proves both of the layout.
A chunk is shared by neighbouring blocks only, which is how `build_layout` packs in
execution order. And an offloaded trainable chunk belongs to a block: a chunk with a parameter of no block is put into
`mandatory_persistent` (`integrations/protrain/types.py:213-232`,
`integrations/protrain/api/model_wrapper.py:1108-1118`). Without it a chunk could
wait for a gradient no hook ever delivers. The rest says that markers such as `NoSlot`
are not numbers of slots.

### The layout

`LayoutProofs` proves, for every model, chunk size, list of candidates and request:

| Theorem | Says |
|---|---|
| `LayoutKeeps` | every parameter is placed once; a chunk too large has one parameter that takes room; a block that fits a chunk is in one, any other in consecutive ones; a chunk of two blocks is the only one of each block between |
| `LayoutSuitsRuntime` | what `RuntimeAssumption` says of layouts, if no parameter is in two blocks and blocks are numbered as they are executed |
| `SearchWastesLeast` | the chunk size chosen wastes least in the layout then built, and is the smallest that does |
| `ModesMet` | every request `assign_modes` accepts is met to the number, the checkpointed blocks evenly spread |
| `LayoutKeepsBlocksHolds`, `LeastWasteHolds` | the two properties of the run `runtime`, from these |

All of these functions are loops over a list, written as folds. The library's fold
chooses its result by an operator, which no theorem can be about in general.
So each fold is first shown to be `Fold`, which takes a function (`PlaceFold`,
`StepsFold`, ...), and two lemmas then do what loop invariants do: `FoldKeeps` for a
relation between the number of elements seen and the result, `FoldsAgree` for two
folds side by side.

`Laid` is the invariant of the layout: the steps up to the i-th are placed, each in an
interval of chunks, and no step is in a chunk before one of the steps before it.
Within a step the invariant is about a run of parameters that goes to the last
chunk and to new ones (`Spread`), and `FitsIn` says that a run that fits opens no chunk on
the way. Its last clause gives everything about shared chunks: intervals in order
can meet only at their ends. `PlaceOnce` is the invariant of the walk before it.
For `SearchWastesLeast` the packer's byte counts are the bytes of the layout's chunks
after every step (`SameAndFull`); the part that is easily wrong is the last chunk, which the
packer drops when it is empty and the layout keeps: a chunk without bytes is made only
after an oversize one (`Full`), where the slack is nothing in both.
For `ModesMet`, the blocks to checkpoint are at multiples of a fraction, rounded
down: distinct because there are at least as many blocks (`AtNext`), and as many to offload are
left as are asked for, since their ranks count them (`FirstOnes`).

`LayoutSuitsRuntime` needs the numbering: a block that is executed later than
its number says, or one that has no parameters, between two blocks that share
a chunk, does not hold that chunk. `LayoutKeepsBlocksHolds` has `RunsOnLayout` as its
hypothesis, which is a statement about constants: TLC evaluates it on those of the run.

### Dataset preparation

`DatasetPreparationProofs` proves, for any number of ranks, runs, rows, worker
processes and faults, and any chunk and batch sizes (`PreparationAssumption`,
`QueueAssumption`):

| Theorem | Says |
|---|---|
| `PreparationInvariant` | `IInv` always holds |
| `WholeDataOnlyHolds` | no rank and no committed file has less than the whole dataset in its order |
| `CleansUpHolds` | without a death the counter is the number of ranks inside, and the last one removes it and the flag |
| `RaisesOnlyForCauseHolds` | a rank raises only for a fault, an empty result or a half-written directory |
| `PreparationInvHolds` | `Inv`: types, and the bounds on memory, builders, counter and files |

For the queue, `InOrder` says that the pending chunks are the last ones submitted,
in order, so the rows taken are those of a prefix, `ChunkEnd(Taken)`, and `Written`
that the temporary file and the buffer together are the kept rows of that prefix.
The last chunk ends at the last row (`ChunkEnds`), so the file that replaces the
cache is `Mapped`. The pool may finish in any order: nothing in `IInv` depends on it.
For the ranks, `LockShape` gives the lock to the rank at one of its places, `Data`
says which place finds the directory in which state, and `Causes` which ranks have
a reason to leave without data. `Counted` relates the counter file to the ranks
between `load` and `cleanup`, with the two moments (`counted`, `recount`) at which
the file and the variable read from it differ; it holds while no rank has died.
`CountBounded` holds in any case. A dataset's rows are a recursive function
(`Keep`), whose equations (`KeepEquations`) are proved by induction.

### The activation swap pool

`SwapPoolProofs` proves, for any finite set of tensors of any sizes up to the
capacity, any capacity and alignment above zero and any closing threads
(`SwapAssumption`):

| Theorem | Says |
|---|---|
| `SwapInvariant` | `IInv` always holds |
| `TiledHolds` | until the pool is closed each byte is in one free extent or in one slot, no two free extents touch, and the in-flight count is the number of slots |
| `UnpacksOwnBytesHolds` | a copy back reads the bytes its tensor was packed with |
| `RegionOutlivesCopiesHolds` | the region is freed only when no copy is queued and no tensor is between pack and unpack |

The allocator comes first, as lemmas about lists of extents. `MergedAll` is an
induction along the merging loop: what is merged so far has gaps, ends before the
next extent begins, and covers the bytes of the extents seen. For that the list has
to be sorted without overlaps (`ByOffsetLists`), which is where disjoint slots are needed
(`DisjointApart`). `TakenFacts` says that first fit takes exactly its bytes off the
list. With them `AcquireFacts` and `ReleaseFacts` keep `Tiles`.

The rest is about time. `StageShape` says that a tensor has a slot exactly on its
way from the pack to the release or for ever once its handle was dropped. `CopyShape`
says that a queued copy belongs to such a tensor, so the fence before a release
leaves none behind, and that a copy out stands before the copy back. `Carried` says
that a packed tensor is in its slot or its copy out is still queued. A copy of another
tensor cannot undo the first, since it writes inside its own slot and slots are
disjoint; and when the copy back is at the head, the copy out has run. For `close`,
`CloseShape` says that one thread closes at a time, that nothing is in flight
between the drain and the end, since `acquire` refuses meanwhile, and that a closed
pool stays empty.

### Disk offloading

`SwapPoolProofs` also proves, for any number of tensors, pool threads, prefetch
workers and faults (`DiskAssumption`):

| Theorem | Says |
|---|---|
| `DiskInvariant` | `DiskIInv` always holds |
| `DiskInvHolds` | `Inv`: types, and a permit is out exactly for a save on its way and for one that raised |
| `FailsOnlyWithItsSaveHolds` | the backward pass raises for a tensor only if its save failed |

That a load finds its file needs the whole path of the tensor. The wait returns for a
status as well as for a future, so `StatusFollows` says that a status other than
"saving" means a save that is over; a prefetch worker sets the status too, and
`PrefetchedWasSaved` says that whatever is listed, queued, cached or held by a
worker was saved, so it never sets one early. `WholeUntilDeleted` says that what was
written stays until the backward pass has come to it, which relies on files being
deleted only by the thread that loads them. `Passes` says that tensors not yet
saved have no save, which is what the permit count needs when one is queued.
The two runs that show a disagreement (section 6) are about what this invariant does
not say: a worker may put a tensor back into the cache after its clean-up, and may die.

### What stays with TLC

Liveness under fairness and `ENABLED` are out of the prover's reach, and so is
what a `RECURSIVE` operator, `SortSeq` or `SelectSeq` computes. Induction
is not: `SequenceLemmas` states it for sets of numbers (`NaturalInduction`), and a
recursive function is then unfolded like any other (`OnlyKeeps`, `MergedAll`). This is why the models
of the proved components select with `Only` and `Keep`, merge with `MergeAll` and sort with
a `CHOOSE` (`Sorted`). Every safety property of a component with a state is
proved. Still only model-checked:

- `Finishes`, the three `Settles`, `TrainingEnds` and `CollectsUnlessLateFailure`,
  which are liveness properties.
- `PlanKeepsSamples` and `PlanImproves`, about `LabelBalance`, whose stages sort with
  `SortSeq`.
- The violations of section 6, which are single behaviours.

## 6. Disagreements found

1. **Stale weights** (`stale_weights`, `ComputeReadsLatest`).
   `DESIGN.md` says that the next gather propagates an optimizer step to the GPU
   copy. A gather that finds its chunk still tagged copies nothing, and no
   optimizer step invalidates a tag. A chunk that the last blocks of the backward
   pass did not overwrite is used with the weights of the step before. The
   counterexample releases a chunk, steps it, and finds it resident.
2. **A prefetched tensor is left behind** (`disk_left_behind`,
   `NothingLeftBehind`). The worker stores what it loaded without looking whether
   the tensor was cleaned up meanwhile; nobody takes it from the cache again, and
   its file may stay too.
3. **A prefetch worker dies** (`disk_prefetcher_dies`, `PrefetchersSurvive`).
   For a deleted path the worker calls `task_done` and goes on, to call it again
   for the same `get`.

That the passing run `disk_offload` finds no other way for the backward pass to
fail, and that the passes end even with dead prefetchers, bounds the damage of
2 and 3 to memory, files and lost look-ahead.

Limits that properties state, or that came up while modelling, where no text of the
repository says otherwise or the text hedges:

- `Settles` of `DiskOffload` excepts the case that every permit was lost to a save
  that raised an exception the pool thread does not catch. The forward pass then
  waits for ever.
- `CollectsUnlessLateFailure`: when a worker other than the first answers `None`,
  the trainer drains every other worker, also those whose answer it already has
  (`fast_async_trainer.py:442`), and waits for ever on a pipe nothing comes from.
- `AdapterStillLoaded` holds at depth 1. With two rollouts ahead a second sync can
  unload the version a waiting request names, which then fails.
- `BoundedStaleness`: syncs are considered only where a rollout begins, so they
  are as many steps apart as the first common multiple of rollout length and
  `vllm_sync_interval`, and a run resumed at another step never syncs. The rollouts
  the legacy path submits before it loads a checkpoint are the base model's.
- `SyncHoldsOffGeneration` is about syncs for training. An evaluation syncs
  without the lock, so it may change the weights during a generation: the only
  sync that can (`OnlyEvaluationInterferes`). TRL's check on the executor thread may
  sync too, before its own request.
- `RaisesOnlyForCause`: a run that died or failed while saving leaves a partial
  directory, which every later run tries to load (`shared.py:534`). After a crash
  the counter stays too high and the flag is never removed; neither does harm.
- A failed Adam step ends training: its future raises in every later wait, and
  chunks after it were cleared from the ready set without being launched.
- `ReplaysSame` excepts checkpoints saved at the end of an epoch without an
  optimizer step that follows an epoch cut short (`Misplaced`):
  `_save_checkpoint` (`base.py:1281`) records the earlier epoch, and a resume
  repeats its batches.
- Parameters of size zero behind the last full chunk are a chunk to
  `build_layout` and none to the packer. A sampler length of 0 across
  ranks is falsy and cuts nothing off; without label counts a later epoch can
  have fewer batches than `len` says.

## 7. Not modelled

- Sizes, costs and the search over them: numerics.
- CUDA streams in `ChunkRuntime`, the ranks' collectives, the GPU optimizer of
  the persistent chunks (their weights never move).
- Materialisation and restore of parameters, state dictionaries, inert mode,
  `close` of the manager and of the scheduler; `discover_blocks`.
- Gradient clipping, `optim.py`'s shutdown.
- `OffloadedBlock`'s packing rules and attach epochs; `cleanup` of the disk
  manager at interpreter exit.
- GRPO: warm-up rollouts, the broadcast to the other ranks, scoring, the replay
  buffer. `AsyncDataProducer.shutdown` and `_pre_produce_hook` have no caller.
- Preparation: the hub, several splits, the rebuilds that
  `is_preprocess` and `skip_prepare_dataset` ask for.
- Samplers: `label_balanced.py`, sequential allocation, efficiency statistics,
  length estimates, the order in which the beam search looks at layouts.
- The parts marked `-` in section 1; those that are sequential
  configuration, text or numerics will stay out. They are by far the most lines
  of the repository (kernels, model patches, schemas, the CLI, prompt strategies,
  examples): no two things happen in them at once, and a model of
  them would be a transcription.

## 8. Plan

1. Done: the modules of section 2, their runs and the proofs of section 5.
2. The manager's life cycle: attach, detach, restore, close, with the attach
   epochs of `OffloadedBlock`; a restore that raises half way.
3. `cleanup` of the disk manager while its threads still run; the trigger
   file of the dynamic checkpoint; the commit order of a sharded save.
4. Proofs: no sample is lost by the stages of `LabelBalance`, once its sorts
   are recursive functions or a `CHOOSE`.
