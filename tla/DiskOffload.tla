----------------------------- MODULE DiskOffload -----------------------------
(***************************************************************************)
(* Disk-based activation offloading (monkeypatch/gradient_checkpointing/   *)
(* offload_disk.py).  The forward pass saves one tensor per layer, the     *)
(* backward pass loads them back last first.  The autograd thread shares   *)
(* the manager's tables with a save worker, the threads of the save pool   *)
(* and two prefetch workers.                                               *)
(*                                                                         *)
(* Each manager_lock section is one step, and so is each file operation    *)
(* between two sections.  Tensors are numbered in the order they are       *)
(* saved; their paths are unique, so no entry is ever reused.              *)
(***************************************************************************)
EXTENDS Integers, Sequences, FiniteSets, SequencesExt, FiniteSetsExt, Selections

CONSTANTS
    NTensors,      \* tensors saved by one forward pass
    SaveWorkers,   \* threads of the save pool (save_workers)
    MaxPrefetch,   \* prefetch_size
    Prefetcher,    \* the prefetch worker threads
    MaxFaults,     \* bound: I/O and out-of-memory errors
    NoTensor

ASSUME DiskAssumption ==
    /\ {NTensors, SaveWorkers, MaxPrefetch} \subseteq Nat \ {0}
    /\ MaxFaults \in Nat
    /\ NoTensor \notin 1..NTensors

SavedTensor == 1..NTensors
Permits == 2 * SaveWorkers

VARIABLES
    status,      \* file_status; "none" before the tensor is saved
    file,        \* what is on disk: "none", "partial", "whole"
    cached,      \* prefetch_cache
    paths,       \* tensor_paths
    save,        \* how far the save of each tensor is, or how it ended
    saver,       \* the save worker submitted this one and has yet to register it
    registered,  \* save_futures
    permits,     \* save_semaphore
    prefetches,  \* prefetch_queue
    unfinished,  \* its unfinished_tasks
    worker,      \* each prefetch worker: [at, path]
    at, cur,     \* the autograd thread: where it is, for which tensor
    putting,     \* prefetch_paths it has yet to queue
    failing,     \* it is handling an exception
    faults       \* errors so far

saveVars == <<save, saver, permits>>
prefetchVars == <<unfinished, worker>>
mainVars == <<at, cur, putting, failing>>
diskVars == <<status, file, cached, paths, saveVars, registered, prefetches, prefetchVars,
          mainVars, faults>>

SaveOver == {"ok", "notfound", "raised"}
Writing == {"writing", "written", "unwritten", "saved", "failed"}   \* on a pool thread

DiskInit ==
    /\ status = [t \in SavedTensor |-> "none"] /\ file = [t \in SavedTensor |-> "none"]
    /\ cached = {} /\ paths = <<>> /\ registered = {}
    /\ save = [t \in SavedTensor |-> "none"] /\ saver = NoTensor
    /\ permits = Permits
    /\ prefetches = <<>> /\ unfinished = 0
    /\ worker = [w \in Prefetcher |-> [at |-> "idle", path |-> NoTensor]]
    /\ at = "save" /\ cur = 1 /\ putting = <<>>
    /\ failing = FALSE /\ faults = 0

-----------------------------------------------------------------------------
(* The autograd thread, forward: save_tensor.                              *)

SaveTensor ==
    /\ at = "save"
    /\ status' = [status EXCEPT ![cur] = "saving"]
    /\ paths' = Append(paths, cur)
    /\ at' = "acquire"
    /\ UNCHANGED <<file, cached, saveVars, registered, prefetches, prefetchVars, cur,
                   putting, failing, faults>>

\* save_semaphore.acquire(), then save_queue.put; after the last tensor
\* autograd turns round.
AcquirePermit ==
    /\ at = "acquire"
    /\ permits > 0
    /\ permits' = permits - 1
    /\ save' = [save EXCEPT ![cur] = "queued"]
    /\ IF cur < NTensors THEN at' = "save" /\ cur' = cur + 1
                         ELSE at' = "trigger" /\ UNCHANGED cur
    /\ UNCHANGED <<status, file, cached, paths, saver, registered, prefetches,
                   prefetchVars, putting, failing, faults>>

(* Backward: trigger_prefetch, wait_for_save, load_tensor, cleanup_tensor. *)

Prefetchable == Only(Reverse(paths), {t \in SavedTensor : t \notin cached /\ status[t] = "ready"})

TriggerPrefetch ==
    /\ at = "trigger"
    /\ putting' = SubSeq(Prefetchable, 1, Min({MaxPrefetch, Len(Prefetchable)}))
    /\ at' = "put"
    /\ UNCHANGED <<status, file, cached, paths, saveVars, registered, prefetches,
                   prefetchVars, cur, failing, faults>>

PutPrefetch ==
    /\ at = "put"
    /\ IF putting = <<>>
       THEN at' = "wait" /\ UNCHANGED <<putting, prefetches, unfinished>>
       ELSE /\ prefetches' = Append(prefetches, Head(putting))
            /\ unfinished' = unfinished + 1
            /\ putting' = Tail(putting)
            /\ UNCHANGED at
    /\ UNCHANGED <<status, file, cached, paths, saveVars, registered, worker, cur,
                   failing, faults>>

\* wait_for_save returns.  Its mutants: the status alone is looked at; a tensor
\* without a future counts as saved.
StatusSettled(t) == status[t] \in {"ready", "error", "missing", "deleted"}
FutureSettled(t) == StatusSettled(t) \/ t \notin registered \/ save[t] \in SaveOver
SaveSettled(t) == StatusSettled(t) \/ (t \in registered /\ save[t] \in SaveOver)

\* Both wait_for_save calls (of backward and of load_tensor): nothing happens
\* between them.
WaitForSave ==
    /\ at = "wait"
    /\ SaveSettled(cur)
    /\ at' = "take"
    /\ UNCHANGED <<status, file, cached, paths, saveVars, registered, prefetches,
                   prefetchVars, cur, putting, failing, faults>>

TakeCached ==
    /\ at = "take"
    /\ IF cur \in cached
       THEN /\ cached' = cached \ {cur}
            /\ status' = [status EXCEPT ![cur] = "loaded"]
            /\ at' = "cleanup"
       ELSE at' = "load" /\ UNCHANGED <<cached, status>>
    /\ UNCHANGED <<file, paths, saveVars, registered, prefetches, prefetchVars, cur,
                   putting, failing, faults>>

\* os.path.exists and torch.load: only this thread deletes files, so nothing
\* comes between them.  No file, or part of one: backward raises.
LoadFromDisk ==
    /\ at = "load"
    /\ IF file[cur] = "whole"
       THEN at' = "mark" /\ UNCHANGED failing
       ELSE at' = "cleanup" /\ failing' = TRUE
    /\ UNCHANGED <<status, file, cached, paths, saveVars, registered, prefetches,
                   prefetchVars, cur, putting, faults>>

MarkLoaded ==
    /\ at = "mark"
    /\ status' = [status EXCEPT ![cur] = "loaded"]
    /\ at' = "cleanup"
    /\ UNCHANGED <<file, cached, paths, saveVars, registered, prefetches, prefetchVars,
                   cur, putting, failing, faults>>

\* cleanup_tensor's own section.  A save that is being written cannot be
\* cancelled, and none is still waiting for a thread: the wait saw it over.
CleanupTensor ==
    /\ at = "cleanup"
    /\ paths' = Only(paths, SavedTensor \ {cur})
    /\ cached' = cached \ {cur}
    /\ registered' = registered \ {cur}
    /\ at' = "delete"
    /\ UNCHANGED <<status, file, saveVars, prefetches, prefetchVars, cur, putting,
                   failing, faults>>

\* _safe_delete_file; then the previous layer's backward, or the end.
SafeDeleteFile ==
    /\ at = "delete"
    /\ registered' = registered \ {cur}
    /\ IF status[cur] \in {"ready", "loaded", "error", "missing"}
       THEN /\ file' = [file EXCEPT ![cur] = "none"]
            /\ status' = [status EXCEPT ![cur] = "deleted"]
       ELSE UNCHANGED <<file, status>>
    /\ IF failing \/ cur = 1
       THEN at' = "done" /\ UNCHANGED cur
       ELSE at' = "trigger" /\ cur' = cur - 1
    /\ UNCHANGED <<cached, paths, saveVars, prefetches, prefetchVars, putting, failing,
                   faults>>

-----------------------------------------------------------------------------
(* The save worker and the save pool.                                      *)

\* save_queue.get and save_pool.submit.
SubmitSave ==
    /\ saver = NoTensor
    /\ \E t \in SavedTensor :
          /\ save[t] = "queued" /\ \A s \in 1..(t - 1) : save[s] # "queued"
          /\ save' = [save EXCEPT ![t] = "pending"]
          /\ saver' = t
    /\ UNCHANGED <<status, file, cached, paths, registered, permits, prefetches,
                   prefetchVars, mainVars, faults>>

RegisterFuture ==
    /\ saver # NoTensor
    /\ registered' = registered \cup {saver}
    /\ saver' = NoTensor
    /\ UNCHANGED <<status, file, cached, paths, save, permits, prefetches, prefetchVars,
                   mainVars, faults>>

StartSave ==
    /\ Cardinality({t \in SavedTensor : save[t] \in Writing}) < SaveWorkers
    /\ \E t \in SavedTensor :
          /\ save[t] = "pending" /\ \A s \in 1..(t - 1) : save[s] # "pending"
          /\ save' = [save EXCEPT ![t] = "writing"]
          /\ file' = [file EXCEPT ![t] = "partial"]
    /\ UNCHANGED <<status, cached, paths, saver, registered, permits, prefetches,
                   prefetchVars, mainVars, faults>>

\* torch.save returns, raises FileNotFoundError, or raises something else: the
\* last is not caught, and the permit is not released.
EndWrite(t) ==
    /\ save[t] = "writing"
    /\ \/ /\ save' = [save EXCEPT ![t] = "written"]
          /\ file' = [file EXCEPT ![t] = "whole"]
          /\ UNCHANGED faults
       \/ /\ faults < MaxFaults /\ faults' = faults + 1
          /\ save' = [save EXCEPT ![t] = "unwritten"]
          /\ file' = [file EXCEPT ![t] = "none"]
       \/ /\ faults < MaxFaults /\ faults' = faults + 1
          /\ save' = [save EXCEPT ![t] = "raised"]
          /\ UNCHANGED file
    /\ UNCHANGED <<status, cached, paths, saver, registered, permits, prefetches,
                   prefetchVars, mainVars>>

MarkSaved(t) ==
    /\ save[t] \in {"written", "unwritten"}
    /\ status' = [status EXCEPT ![t] = IF save[t] = "written" THEN "ready" ELSE "error"]
    /\ save' = [save EXCEPT ![t] = IF @ = "written" THEN "saved" ELSE "failed"]
    /\ UNCHANGED <<file, cached, paths, saver, registered, permits, prefetches,
                   prefetchVars, mainVars, faults>>

\* The permits after a release; as its mutant, the error path forgets it.
PermitOnSuccess(t) == IF save[t] = "saved" THEN permits + 1 ELSE permits
PermitBack(t) == permits + 1

\* save_semaphore.release(); the future is done.
ReleasePermit(t) ==
    /\ save[t] \in {"saved", "failed"}
    /\ permits' = PermitBack(t)
    /\ save' = [save EXCEPT ![t] = IF @ = "saved" THEN "ok" ELSE "notfound"]
    /\ UNCHANGED <<status, file, cached, paths, saver, registered, prefetches,
                   prefetchVars, mainVars, faults>>

-----------------------------------------------------------------------------
(* A prefetch worker.                                                      *)

Goto(w, to) == worker' = [worker EXCEPT ![w].at = to]

PrefetchGet(w) ==
    /\ worker[w].at = "idle"
    /\ prefetches # <<>>
    /\ worker' = [worker EXCEPT ![w] = [at |-> "check", path |-> Head(prefetches)]]
    /\ prefetches' = Tail(prefetches)
    /\ UNCHANGED <<status, file, cached, paths, saveVars, registered, unfinished,
                   mainVars, faults>>

\* n calls of task_done, then on to the next step: one call too many raises
\* ValueError, which nothing catches, and the thread ends.
TaskDone(w, n, to) ==
    /\ unfinished' = Max({unfinished - n, 0})
    /\ Goto(w, IF n > unfinished THEN "dead" ELSE to)

\* The check under the lock.  A deleted path is marked done and NOT skipped; a
\* cached one is marked done and skipped.  A path is queued only once it is
\* saved and keeps its entry in file_status, so the other two tests of the
\* section are never true.
PrefetchCheck(w) ==
    /\ worker[w].at = "check"
    /\ LET p == worker[w].path
           calls == (IF status[p] = "deleted" THEN 1 ELSE 0)
                      + (IF p \in cached THEN 1 ELSE 0) IN
        /\ TaskDone(w, calls, IF p \in cached THEN "idle" ELSE "exists")
        /\ status' = IF p \in cached \/ calls > unfinished THEN status
                     ELSE [status EXCEPT ![p] = "prefetching"]
    /\ UNCHANGED <<file, cached, paths, saveVars, registered, prefetches, mainVars, faults>>

PrefetchExists(w) ==
    /\ worker[w].at = "exists"
    /\ Goto(w, IF file[worker[w].path] = "none" THEN "missing" ELSE "load")
    /\ UNCHANGED <<status, file, cached, paths, saveVars, registered, prefetches,
                   unfinished, mainVars, faults>>

\* torch.load: the file may be gone by now, and any other error ends the thread.
PrefetchLoad(w) ==
    /\ worker[w].at = "load"
    /\ \/ Goto(w, IF file[worker[w].path] = "none" THEN "error" ELSE "store") /\ UNCHANGED faults
       \/ faults < MaxFaults /\ faults' = faults + 1 /\ Goto(w, "dead")
    /\ UNCHANGED <<status, file, cached, paths, saveVars, registered, prefetches,
                   unfinished, mainVars>>

PrefetchStore(w) ==
    /\ worker[w].at = "store"
    /\ cached' = cached \cup {worker[w].path}
    /\ status' = [status EXCEPT ![worker[w].path] = "ready"]
    /\ Goto(w, "finish")
    /\ UNCHANGED <<file, paths, saveVars, registered, prefetches, unfinished, mainVars,
                   faults>>

\* The file was not there, or disappeared: noted unless it was deleted.
PrefetchMiss(w) ==
    /\ worker[w].at \in {"missing", "error"}
    /\ status' = [status EXCEPT ![worker[w].path] = IF @ = "deleted" THEN @ ELSE worker[w].at]
    /\ Goto(w, "finish")
    /\ UNCHANGED <<file, cached, paths, saveVars, registered, prefetches, unfinished,
                   mainVars, faults>>

PrefetchFinish(w) ==
    /\ worker[w].at = "finish"
    /\ TaskDone(w, 1, "idle")
    /\ UNCHANGED <<status, file, cached, paths, saveVars, registered, prefetches,
                   mainVars, faults>>

-----------------------------------------------------------------------------
Autograd ==
    \/ SaveTensor \/ AcquirePermit \/ TriggerPrefetch \/ PutPrefetch \/ WaitForSave
    \/ TakeCached \/ LoadFromDisk \/ MarkLoaded \/ CleanupTensor \/ SafeDeleteFile

Save(t) == EndWrite(t) \/ MarkSaved(t) \/ ReleasePermit(t)

Prefetch(w) ==
    \/ PrefetchGet(w) \/ PrefetchCheck(w) \/ PrefetchExists(w) \/ PrefetchLoad(w)
    \/ PrefetchStore(w) \/ PrefetchMiss(w) \/ PrefetchFinish(w)

\* The backward pass is over, normally or by an exception.
Finished == at = "done" /\ UNCHANGED diskVars

DiskNext ==
    \/ Autograd \/ SubmitSave \/ RegisterFuture \/ StartSave
    \/ \E t \in SavedTensor : Save(t)
    \/ \E w \in Prefetcher : Prefetch(w)
    \/ Finished

DiskSpec == DiskInit /\ [][DiskNext]_diskVars

\* Every thread is scheduled.
DiskFairSpec ==
    /\ DiskSpec
    /\ WF_diskVars(Autograd)
    /\ WF_diskVars(SubmitSave \/ RegisterFuture)
    /\ WF_diskVars(StartSave) /\ \A t \in SavedTensor : WF_diskVars(Save(t))
    /\ \A w \in Prefetcher : WF_diskVars(Prefetch(w))

-----------------------------------------------------------------------------
(* Properties.                                                             *)

DiskTypeOK ==
    /\ status \in [SavedTensor -> {"none", "saving", "ready", "prefetching", "loaded",
                              "deleted", "error", "missing"}]
    /\ file \in [SavedTensor -> {"none", "partial", "whole"}]
    /\ cached \subseteq SavedTensor /\ registered \subseteq SavedTensor
    /\ paths \in Seq(SavedTensor) /\ prefetches \in Seq(SavedTensor) /\ putting \in Seq(SavedTensor)
    /\ save \in [SavedTensor -> {"none", "queued", "pending"} \cup Writing \cup SaveOver]
    /\ saver \in SavedTensor \cup {NoTensor}
    /\ permits \in 0..Permits /\ unfinished \in Nat
    /\ worker \in [Prefetcher ->
          [at : {"idle", "check", "exists", "load", "store", "missing", "error", "finish",
                 "dead"}, path : SavedTensor \cup {NoTensor}]]
    /\ at \in {"save", "acquire", "trigger", "put", "wait", "take", "load", "mark",
               "cleanup", "delete", "done"}
    /\ cur \in SavedTensor /\ failing \in BOOLEAN /\ faults \in 0..MaxFaults

\* The backward pass raises for a tensor only if its save failed: no
\* interleaving of prefetches, status changes and clean-ups makes it look for
\* a file that is not written yet or already gone.
FailsOnlyWithItsSave == failing => save[cur] \in {"failed", "notfound", "raised"}

\* A permit is out exactly for a save that is queued or under way, and for
\* one that raised an exception the pool's thread does not catch.
PermitsAccounted ==
    permits + Cardinality({t \in SavedTensor : save[t] \in {"queued", "pending", "raised"} \cup Writing})
        = Permits

Inv == DiskTypeOK /\ PermitsAccounted

\* The forward and backward passes come to an end, unless every permit was
\* lost to a save that raised: nothing else waits for ever, not even for a
\* tensor whose prefetch worker died on it.
Settles == <>(at = "done" \/ Cardinality({t \in SavedTensor : save[t] = "raised"}) = Permits)

PrefetchersQuiet == prefetches = <<>> /\ \A w \in Prefetcher : worker[w].at \in {"idle", "dead"}

\* After the clean-up of a tensor nothing of it is left, neither in the cache
\* nor on disk ("Clean up a specific tensor file after it's been used").
NothingLeftBehind ==
    (at = "done" /\ PrefetchersQuiet) =>
        \A t \in SavedTensor : t >= cur => t \notin cached /\ file[t] = "none"

\* The prefetch workers live as long as the manager ("Background thread that
\* loads tensors from disk ahead of time").
PrefetchersSurvive == \A w \in Prefetcher : worker[w].at # "dead"
=============================================================================
