-------------------------- MODULE DatasetPreparation -------------------------
(***************************************************************************)
(* The ranks of a job prepare one dataset (utils/data/lock.py, sft.py,     *)
(* shared.py): under a file lock, each loads the prepared directory, or    *)
(* tokenizes the raw dataset (TokenizationQueue) and saves the directory.  *)
(* A counter and a flag beside the lock say who is there.                  *)
(*                                                                         *)
(* A rank may die at any step; the lock goes with it, the files stay.  The *)
(* job is started again when all its ranks are over.                       *)
(***************************************************************************)
EXTENDS TokenizationQueue

CONSTANTS
    Rank,     \* the processes of the job
    NoRank,
    MaxRuns   \* bound: times the job is started

ASSUME PreparationAssumption ==
    /\ Rank # {} /\ IsFiniteSet(Rank) /\ NoRank \notin Rank /\ MaxRuns \in Nat \ {0}

VARIABLES
    at,        \* where each rank is
    data,      \* the dataset it has, or NoFile
    lock,      \* who holds datasets_prep.lock
    first,     \* the holder found no flag
    count,     \* the count it read, changed by one
    flag,      \* datasets_ready.flag exists
    counter,   \* process_counter.txt: -1 when absent, 0 when empty
    prepared,  \* the prepared directory: "none", "partial" or "whole"
    content,   \* what its files hold
    run,       \* the number of this run
    dead,      \* a rank has died, in this run or an earlier one
    hurt       \* something went wrong in this run

files == <<flag, counter, prepared, content>>
vars == <<queueVars, faults, at, data, lock, first, count, files, run, dead, hurt>>

Over == {"done", "raised", "dead"}

Init ==
    /\ QueueInit
    /\ at = [r \in Rank |-> "start"] /\ data = [r \in Rank |-> NoFile]
    /\ lock = NoRank /\ first = FALSE /\ count = 0
    /\ flag = FALSE /\ counter = -1
    /\ prepared = "none" /\ content = NoFile
    /\ run = 1 /\ dead = FALSE /\ hurt = FALSE

Go(r, from, to) == at[r] = from /\ at' = [at EXCEPT ![r] = to]

-----------------------------------------------------------------------------
(* FileLockLoader.load.                                                    *)

\* The lock of load; as its mutant, there is none.
Unlocked(r) == UNCHANGED lock
Locked(r) == lock = NoRank /\ lock' = r

LoadLock(r) ==
    /\ Go(r, "start", "count")
    /\ Locked(r)
    /\ UNCHANGED <<queueVars, faults, data, first, count, files, run, dead, hurt>>

Value == IF counter = -1 THEN 0 ELSE counter

\* _increment_counter: write_text empties the file, then writes it.
Truncate(r) ==
    /\ Go(r, "count", "counted")
    /\ counter' = 0
    /\ count' = Value + 1
    /\ UNCHANGED <<queueVars, faults, data, lock, first, flag, prepared, content, run, dead, hurt>>

Count(r) ==
    /\ Go(r, "counted", "load")
    /\ counter' = count
    /\ first' = ~flag
    /\ UNCHANGED <<queueVars, faults, data, lock, count, flag, prepared, content, run, dead, hurt>>

\* load_preprocessed_dataset: a directory with anything in it is loaded;
\* load_from_disk raises when its index files are not there.
LoadPrepared(r) ==
    /\ at[r] = "load" /\ prepared # "none"
    /\ IF prepared = "whole"
         THEN Go(r, "load", "loaded") /\ data' = [data EXCEPT ![r] = content]
         ELSE Go(r, "load", "leave") /\ UNCHANGED data
    /\ UNCHANGED <<queueVars, faults, lock, first, count, files, run, dead, hurt>>

\* The raw dataset: its cache file, or the work queue.
UseCache(r) ==
    /\ Go(r, "load", "save") /\ prepared = "none" /\ cache # NoFile
    /\ data' = [data EXCEPT ![r] = cache]
    /\ UNCHANGED <<queueVars, faults, lock, first, count, files, run, dead, hurt>>

BeginTokenizing(r) ==
    /\ Go(r, "load", "tokenize") /\ prepared = "none"
    /\ Tokenize
    /\ UNCHANGED <<data, lock, first, count, files, run, dead, hurt>>

Tokenizing == \E r \in Rank : at[r] = "tokenize"

QueueStep ==
    /\ Tokenizing
    /\ QueueCaller \/ Pool
    /\ UNCHANGED <<at, data, lock, first, count, files, run, dead>>
    /\ hurt' = (hurt \/ faults' # faults)

ProcessDies ==
    /\ Tokenizing /\ PoolDies
    /\ hurt' = TRUE
    /\ UNCHANGED <<at, data, lock, first, count, files, run, dead>>

\* tokenize_with_work_queue returns, or raises through load.
EndTokenizing(r) ==
    /\ at[r] = "tokenize" /\ stage \in {"off", "raised"}
    /\ IF stage = "off"
         THEN Go(r, "tokenize", "save") /\ data' = [data EXCEPT ![r] = cache]
         ELSE Go(r, "tokenize", "leave") /\ UNCHANGED data
    /\ stage' = "off"
    /\ UNCHANGED <<rows, dropped, cut, pending, future, broken, buffered, tmp, cache, orphans,
                   faults, lock, first, count, files, run, dead, hurt>>

\* save_preprocessed_dataset makes the directory and writes the shards, then
\* the index files; a disk that is full raises.
SaveBegin(r) ==
    /\ Go(r, "save", "saving")
    /\ prepared' = "partial"
    /\ UNCHANGED <<queueVars, faults, data, lock, first, count, flag, counter, content, run, dead, hurt>>

SaveEnd(r) ==
    /\ at[r] = "saving"
    /\ \/ /\ prepared' = "whole" /\ content' = data[r]
          /\ Go(r, "saving", "loaded") /\ UNCHANGED <<data, faults, hurt>>
       \/ /\ faults < MaxFaults /\ faults' = faults + 1 /\ hurt' = TRUE
          /\ Go(r, "saving", "leave") /\ data' = [data EXCEPT ![r] = NoFile]
          /\ UNCHANGED <<prepared, content>>
    /\ UNCHANGED <<queueVars, lock, first, count, flag, counter, run, dead>>

\* The first one touches the flag, and the lock is released.
Loaded(r) ==
    /\ Go(r, "loaded", "cleanup")
    /\ flag' = (flag \/ first)
    /\ lock' = NoRank
    /\ UNCHANGED <<queueVars, faults, data, first, count, counter, prepared, content, run, dead, hurt>>

\* An exception leaves the lock's block, which frees the lock, without
\* touching the flag; as its mutant, the lock stays taken.
Held == UNCHANGED lock
Freed == lock' = NoRank
LeaveLoad(r) ==
    /\ Go(r, "leave", "cleanup")
    /\ Freed
    /\ UNCHANGED <<queueVars, faults, data, first, count, files, run, dead, hurt>>

-----------------------------------------------------------------------------
(* FileLockLoader.cleanup, which runs however load ended.                  *)

CleanupLock(r) ==
    /\ Go(r, "cleanup", "discount")
    /\ lock = NoRank /\ lock' = r
    /\ UNCHANGED <<queueVars, faults, data, first, count, files, run, dead, hurt>>

\* The last process; as its mutant, one too few.
LastTooLate == Value - 1 < 0
LastProcess == Value - 1 <= 0

Outcome(r) == IF data[r] = NoFile THEN "raised" ELSE "done"

\* The flag goes first, then the counter; a counter that is not there is
\* FileNotFoundError, and ignored.
Discount(r) ==
    /\ at[r] = "discount"
    /\ \/ counter = -1 /\ Go(r, "discount", "unlock") /\ UNCHANGED <<flag, counter, count>>
       \/ counter # -1 /\ LastProcess /\ Go(r, "discount", "unlink") /\ flag' = FALSE
          /\ UNCHANGED <<counter, count>>
       \/ counter # -1 /\ ~LastProcess /\ Go(r, "discount", "recount")
          /\ count' = counter - 1 /\ counter' = 0 /\ UNCHANGED flag
    /\ UNCHANGED <<queueVars, faults, data, lock, first, prepared, content, run, dead, hurt>>

Recount(r) ==
    /\ Go(r, "recount", "unlock")
    /\ counter' = count
    /\ UNCHANGED <<queueVars, faults, data, lock, first, count, flag, prepared, content, run, dead, hurt>>

Unlink(r) ==
    /\ Go(r, "unlink", "unlock")
    /\ counter' = -1
    /\ UNCHANGED <<queueVars, faults, data, lock, first, count, flag, prepared, content, run, dead, hurt>>

CleanupUnlock(r) ==
    /\ at[r] = "unlock"
    /\ at' = [at EXCEPT ![r] = Outcome(r)]
    /\ lock' = NoRank
    /\ UNCHANGED <<queueVars, faults, data, first, count, files, run, dead, hurt>>

-----------------------------------------------------------------------------
(* Faults and restarts.                                                    *)

\* The rank dies: its lock is released by the operating system, the pool it
\* runs goes with it, the files stay as they are.
Die(r) ==
    /\ at[r] \notin Over /\ faults < MaxFaults
    /\ faults' = faults + 1 /\ dead' = TRUE /\ hurt' = TRUE
    /\ at' = [at EXCEPT ![r] = "dead"]
    /\ lock' = IF lock = r THEN NoRank ELSE lock
    /\ data' = [data EXCEPT ![r] = NoFile]
    /\ IF at[r] = "tokenize"
         THEN /\ orphans' = IF tmp = NoFile THEN orphans ELSE orphans + 1
              /\ stage' = "off" /\ tmp' = NoFile
         ELSE UNCHANGED <<orphans, stage, tmp>>
    /\ UNCHANGED <<rows, dropped, cut, pending, future, broken, buffered, cache, first, count, files, run>>

Restart ==
    /\ run < MaxRuns /\ \A r \in Rank : at[r] \in Over
    /\ run' = run + 1 /\ hurt' = FALSE
    /\ at' = [r \in Rank |-> "start"] /\ data' = [r \in Rank |-> NoFile]
    /\ UNCHANGED <<queueVars, faults, lock, first, count, files, dead>>

-----------------------------------------------------------------------------
RankStep(r) ==
    \/ LoadLock(r) \/ Truncate(r) \/ Count(r)
    \/ LoadPrepared(r) \/ UseCache(r) \/ BeginTokenizing(r) \/ EndTokenizing(r)
    \/ SaveBegin(r) \/ SaveEnd(r) \/ Loaded(r) \/ LeaveLoad(r)
    \/ CleanupLock(r) \/ Discount(r) \/ Recount(r) \/ Unlink(r) \/ CleanupUnlock(r)

Next ==
    \/ \E r \in Rank : RankStep(r) \/ Die(r)
    \/ QueueStep \/ ProcessDies \/ Restart
    \/ run = MaxRuns /\ (\A r \in Rank : at[r] \in Over) /\ UNCHANGED vars

Spec == Init /\ [][Next]_vars

\* A rank that has not died runs on, and the pool with it.  The job need not
\* be restarted.  The lock is polled: a rank may find it taken every time,
\* but each rank takes it twice and no more.
FairSpec ==
    Spec /\ WF_vars(QueueStep) /\ \A r \in Rank : WF_vars(RankStep(r))

-----------------------------------------------------------------------------
(* Properties.                                                             *)

Inside == {"load", "tokenize", "save", "saving", "loaded", "leave", "cleanup", "discount"}
Building == {"tokenize", "save", "saving"}

TypeOK ==
    /\ stage \in {"off", "fill", "results", "write", "replace", "failing", "raised"}
    /\ cut \in 0..Chunks /\ Range(pending) \subseteq Chunk
    /\ future \in [1..MaxRows -> {"none", "queued", "running", "done", "raised", "broken"}]
    /\ at \in [Rank -> Inside \cup Over \cup
                     {"start", "count", "counted", "recount", "unlink", "unlock"}]
    /\ lock \in Rank \cup {NoRank}
    /\ {first, flag, broken, dead, hurt} \subseteq BOOLEAN
    /\ counter \in -1..Cardinality(Rank) * MaxRuns
    /\ prepared \in {"none", "partial", "whole"}

\* What the queue holds in memory is bounded however slow the writer and
\* however fast the pool ("so workers cannot outrun the writer"; "no single
\* worker result can exceed the flush limit"), one rank at a time builds
\* and none once the directory is there ("the remaining procesees simply load
\* the preprocessed dataset"), and only a rank that died leaves a temporary
\* file behind.
Bounded ==
    /\ Len(pending) <= MaxInFlight
    /\ Cardinality({c \in Chunk : future[c] \in {"queued", "running", "done"}} \
                   1..(cut - Len(pending))) <= MaxInFlight
    /\ Len(buffered) < 2 * WriterBatch
    /\ Cardinality({r \in Rank : at[r] \in Building}) <= 1
    /\ prepared = "whole" => \A r \in Rank : at[r] \notin Building
    /\ tmp # NoFile => Tokenizing
    /\ orphans > 0 => dead

Inv == TypeOK /\ Bounded

\* Nobody ever holds, and no committed file ever contains, less than the
\* whole dataset in its order ("Equivalent to dataset.map"), whatever the
\* pool's order, whatever died and wherever.
WholeDataOnly ==
    /\ \A r \in Rank : data[r] \in {NoFile, Mapped}
    /\ cache \in {NoFile, Mapped}
    /\ prepared = "whole" => content = Mapped

\* As long as no rank has died, the counter is the number of ranks between
\* load and cleanup, and the last one leaves neither counter nor flag ("Clean
\* up ready flag when last process is done").
CleansUp ==
    ~dead =>
        /\ lock = NoRank =>
              (IF counter = -1 THEN 0 ELSE counter) = Cardinality({r \in Rank : at[r] \in Inside})
        /\ (\A r \in Rank : at[r] \in Over) => ~flag /\ counter = -1

\* A run in which nothing goes wrong gives every rank its dataset, whatever
\* flag, counter and temporary files earlier runs have left, unless one of
\* them died or failed in the middle of saving the directory.
RaisesOnlyForCause ==
    \A r \in Rank :
        at[r] = "raised" => hurt \/ prepared = "partial" \/ Mapped = <<>>

\* Every rank gets through, whoever dies holding the lock.
Settles == \A r \in Rank : (at[r] = "start") ~> (at[r] \in Over)
=============================================================================
