-------------------------- MODULE TokenizationQueue --------------------------
(***************************************************************************)
(* tokenize_with_work_queue (utils/data/work_queue.py): a dataset is cut   *)
(* into chunks, a pool of processes tokenizes them in any order, and the   *)
(* results are written in the dataset's order to a temporary file that     *)
(* replaces the cache file when it is complete.                            *)
(*                                                                         *)
(* A row is its number; a prompt strategy drops some of them.  The caller  *)
(* is one process, whose crash takes the pool with it.                     *)
(***************************************************************************)
EXTENDS Integers, Sequences, FiniteSets, SequencesExt, FiniteSetsExt

CONSTANTS
    Sizes,            \* bound: the lengths a dataset may have
    NumProc,          \* num_proc: processes of the pool
    ChunksPerWorker,  \* CHUNKS_PER_WORKER
    MinChunk,         \* MIN_CHUNK_SIZE
    MaxChunk,         \* max_chunk_size: at most the writer's batch
    InFlight,         \* MAX_IN_FLIGHT_PER_WORKER
    WriterBatch,      \* writer_batch_size
    MaxFaults         \* bound: rows that raise, processes that die, crashes

ASSUME QueueAssumption ==
    /\ IsFiniteSet(Sizes) /\ Sizes # {} /\ Sizes \subseteq Nat \ {0}
    /\ {NumProc, ChunksPerWorker, MinChunk, MaxChunk, InFlight, WriterBatch}
         \subseteq Nat \ {0}
    /\ MaxChunk <= WriterBatch
    /\ MaxFaults \in Nat

MaxRows == Max(Sizes)

VARIABLES
    rows,      \* len(dataset)
    dropped,   \* the rows tokenize_prompt drops
    stage,     \* where the call of tokenize_with_work_queue is
    cut,       \* chunks submitted so far
    pending,   \* the deque of futures
    future,    \* what became of each chunk's future
    broken,    \* a process died: the executor takes no more work
    buffered,  \* rows to be written
    tmp,       \* the temporary file: rows written, or NoFile
    cache,     \* the cache file
    orphans,   \* temporary files a crash has left
    faults

NoFile == <<-1>>

queueVars == <<rows, dropped, stage, cut, pending, future, broken, buffered, tmp, cache, orphans>>

Smaller(a, b) == IF a < b THEN a ELSE b
Larger(a, b) == IF a > b THEN a ELSE b
CeilDiv(a, b) == (a + b - 1) \div b

\* _chunk_bounds; as its mutant, only the chunks that are full.
ChunkSize ==
    Larger(Smaller(MinChunk, MaxChunk),
           Smaller(MaxChunk, CeilDiv(rows, NumProc * ChunksPerWorker)))
FullChunks == rows \div ChunkSize
Chunks == CeilDiv(rows, ChunkSize)
Chunk == 1..Chunks

\* The rows after a, up to b, that are not among the dropped ones, in order.
Keep(a, b, drop) ==
    LET kept[i \in a..b] ==
          IF i = a THEN <<>>
          ELSE IF i \in drop THEN kept[i - 1] ELSE Append(kept[i - 1], i)
    IN kept[b]

\* The rows of a chunk that the strategy keeps (_tokenize_chunk).
ChunkEnd(c) == Smaller(c * ChunkSize, rows)
Tokenized(c) == Keep((c - 1) * ChunkSize, ChunkEnd(c), dropped)

\* What dataset.map would give.
Mapped == Keep(0, rows, dropped)

MaxInFlight == Larger(1, NumProc * InFlight)

QueueInit ==
    /\ rows \in Sizes
    /\ dropped \in SUBSET (1..rows)
    /\ stage = "off" /\ cut = 0 /\ pending = <<>>
    /\ future = [c \in 1..MaxRows |-> "none"] /\ broken = FALSE
    /\ buffered = <<>> /\ tmp = NoFile /\ cache = NoFile /\ orphans = 0
    /\ faults = 0

-----------------------------------------------------------------------------
(* The caller.                                                             *)

\* No cache file: the temporary file is made and the pool started.
Tokenize ==
    /\ stage = "off" /\ cache = NoFile
    /\ stage' = "fill" /\ tmp' = <<>>
    /\ cut' = 0 /\ pending' = <<>> /\ buffered' = <<>>
    /\ future' = [c \in 1..MaxRows |-> "none"] /\ broken' = FALSE
    /\ UNCHANGED <<rows, dropped, cache, orphans, faults>>

More == cut < Chunks

\* executor.submit of the next chunk.
Submit ==
    /\ cut' = cut + 1
    /\ future' = [future EXCEPT ![cut + 1] = "queued"]

\* The first chunks, up to the bound.  A broken executor refuses them.
Fill ==
    /\ stage = "fill"
    /\ IF More /\ Len(pending) < MaxInFlight
         THEN IF broken THEN stage' = "failing" /\ UNCHANGED <<cut, future, pending>>
                        ELSE Submit /\ pending' = Append(pending, cut + 1) /\ UNCHANGED stage
         ELSE stage' = "results" /\ UNCHANGED <<cut, future, pending>>
    /\ UNCHANGED <<rows, dropped, broken, buffered, tmp, cache, orphans, faults>>

\* The future whose result is taken: the oldest; as its mutant, any finished.
AnyDone(i) == i \in 1..Len(pending) /\ future[pending[i]] = "done"
OldestFirst(i) == i = 1 /\ pending # <<>> /\ future[Head(pending)] = "done"

\* popleft().result(), the next chunk is submitted, the rows are buffered.
Result ==
    /\ stage = "results"
    /\ \E i \in 1..Len(pending) :
        /\ OldestFirst(i)
        /\ IF More /\ broken
             THEN stage' = "failing" /\ UNCHANGED <<cut, future, pending, buffered>>
             ELSE /\ buffered' = buffered \o Tokenized(pending[i])
                  /\ IF More THEN Submit ELSE UNCHANGED <<cut, future>>
                  /\ pending' = IF More THEN Append(RemoveAt(pending, i), cut + 1)
                                        ELSE RemoveAt(pending, i)
                  /\ stage' = "write"
    /\ UNCHANGED <<rows, dropped, broken, tmp, cache, orphans, faults>>

\* result() raises: the row's exception, or RuntimeError for a dead process.
ResultRaises ==
    /\ stage = "results"
    /\ pending # <<>> /\ future[Head(pending)] \in {"raised", "broken"}
    /\ stage' = "failing"
    /\ UNCHANGED <<rows, dropped, cut, pending, future, broken, buffered, tmp, cache, orphans, faults>>

\* writer.write_batch while a full batch is buffered.
WriteBatch ==
    /\ stage = "write"
    /\ IF Len(buffered) >= WriterBatch
         THEN /\ tmp' = tmp \o SubSeq(buffered, 1, WriterBatch)
              /\ buffered' = SubSeq(buffered, WriterBatch + 1, Len(buffered))
              /\ UNCHANGED stage
         ELSE stage' = "results" /\ UNCHANGED <<tmp, buffered>>
    /\ UNCHANGED <<rows, dropped, cut, pending, future, broken, cache, orphans, faults>>

\* The rest is written; as its mutant, only what fills a batch.
NoRest == tmp
Rest == tmp \o buffered

\* After the last result.  No rows at all is an error.
Finalize ==
    /\ stage = "results" /\ pending = <<>>
    /\ tmp' = Rest /\ buffered' = <<>>
    /\ stage' = IF tmp' = <<>> THEN "failing" ELSE "replace"
    /\ UNCHANGED <<rows, dropped, cut, pending, future, broken, cache, orphans, faults>>

\* os.replace(tmp_path, cache_file).
Replace ==
    /\ stage = "replace"
    /\ cache' = tmp /\ tmp' = NoFile /\ stage' = "off"
    /\ UNCHANGED <<rows, dropped, cut, pending, future, broken, buffered, orphans, faults>>

\* The pool is joined (every chunk submitted is run), the file removed.
Fail ==
    /\ stage = "failing"
    /\ \A c \in Chunk : future[c] \notin {"queued", "running"}
    /\ stage' = "raised" /\ tmp' = NoFile
    /\ UNCHANGED <<rows, dropped, cut, pending, future, broken, buffered, cache, orphans, faults>>

-----------------------------------------------------------------------------
(* The pool.                                                               *)

Running == {c \in Chunk : future[c] = "running"}

\* A free process takes the chunk submitted first.
PoolTake ==
    /\ Cardinality(Running) < NumProc
    /\ \E c \in Chunk :
        /\ future[c] = "queued" /\ \A d \in Chunk : d < c => future[d] # "queued"
        /\ future' = [future EXCEPT ![c] = "running"]
    /\ UNCHANGED <<rows, dropped, stage, cut, pending, broken, buffered, tmp, cache, orphans, faults>>

\* The rows of a chunk, or the exception of one of them.
PoolDone ==
    /\ \E c \in Running :
        \/ future' = [future EXCEPT ![c] = "done"] /\ UNCHANGED faults
        \/ /\ faults < MaxFaults /\ faults' = faults + 1
           /\ future' = [future EXCEPT ![c] = "raised"]
    /\ UNCHANGED <<rows, dropped, stage, cut, pending, broken, buffered, tmp, cache, orphans>>

\* A process dies: the executor breaks every future that is not done.
PoolDies ==
    /\ stage \in {"fill", "results", "write"} /\ faults < MaxFaults
    /\ broken' = TRUE
    /\ future' = [c \in DOMAIN future |->
                    IF future[c] \in {"queued", "running"} THEN "broken" ELSE future[c]]
    /\ faults' = faults + 1
    /\ UNCHANGED <<rows, dropped, stage, cut, pending, buffered, tmp, cache, orphans>>

QueueCaller ==
    Fill \/ Result \/ ResultRaises \/ WriteBatch \/ Finalize \/ Replace \/ Fail
Pool == PoolTake \/ PoolDone
=============================================================================
