---------------------------- MODULE AsyncRollouts ----------------------------
(***************************************************************************)
(* Asynchronous GRPO (core/trainers/grpo/async_trainer.py): the main       *)
(* thread trains on one rollout while one executor thread generates the    *)
(* next ones on the inference server, and the main thread pushes its       *)
(* weights to that server between rollouts.                                *)
(*                                                                         *)
(* Weights are named by the optimizer step they belong to, 0 for the base  *)
(* model.  Adapters (LoRA sync) are numbered as they are published.        *)
(*                                                                         *)
(* A setting is one configuration of the trainer; Init picks one.          *)
(***************************************************************************)
EXTENDS Integers, Sequences

CONSTANTS
    Setting,      \* the configurations (see SettingType)
    MaxFailures   \* bound: generations and publications that fail

\* path:  data producer (AsyncDataProducer) or the legacy queue of futures
\* sync:  how weights reach the server: stock sync_weights, merged copies
\*        (_sync_peft_weights_no_merge) or adapter files (_sync_lora_adapter)
\* ranks: with several processes, rank 0 generates with the server's client
\*        alone (_generate_rank0_only) and the others take its broadcast
\* rollout: optimizer steps per rollout; interval: vllm_sync_interval
\* start, steps: the step training resumes at, and the one it ends at (a bound)
SettingType ==
    [path : {"producer", "legacy"}, sync : {"stock", "nomerge", "lora"},
     ranks : {"one", "many"}, depth : Nat \ {0}, rollout : Nat \ {0},
     interval : Nat \ {0}, start : Nat, steps : Nat]

ASSUME RolloutAssumption ==
    /\ Setting \subseteq SettingType
    /\ MaxFailures \in Nat

VARIABLES
    cfg,          \* the setting
    step,         \* state.global_step
    main,         \* where the main thread is
    for,          \* what it syncs for: a rollout or an evaluation
    left,         \* optimizer steps left in _buffered_inputs
    lastSynced,   \* _last_synced_step
    lastLoaded,   \* _last_loaded_step
    jobs,         \* the generations submitted: [submitted, at, name, version]
    next,         \* the first of them not taken by the main thread
    bg,           \* the executor thread: [job, at, saved]
    lock,         \* who holds _generate_lock
    server,       \* the step whose weights the server has (merged modes)
    adapters,     \* the step each published adapter was saved at
    loaded,       \* adapters the server has loaded; 0 is the base model
    name,         \* vllm_client.model
    paused,       \* generation is paused
    used,         \* the rollout being trained on: [submitted, version, step]
    failures

syncVars == <<lastSynced, server, adapters, loaded, name>>
vars == <<cfg, step, main, for, left, lastSynced, lastLoaded, jobs, next, bg, lock,
          server, adapters, loaded, name, paused, used, failures>>

Idle == [job |-> 0, at |-> "idle", saved |-> -1]
Job(s) == [submitted |-> s, at |-> "queued", name |-> 0, version |-> 0]
Taken == [Job(0) EXCEPT !.at = "taken"]

\* What the server generates with when asked for adapter n.
Served(n) ==
    IF cfg.sync = "lora" THEN (IF n = 0 THEN 0 ELSE adapters[n]) ELSE server

Pending == next..Len(jobs)

\* The legacy trainer submits its first rollouts when it is constructed, on
\* the base weights, before a checkpoint is loaded.
Init ==
    /\ cfg \in Setting
    /\ step = 0
    /\ main = "load" /\ for = "rollout" /\ left = 0
    /\ lastSynced = -1 /\ lastLoaded = -1
    /\ jobs = IF cfg.path = "legacy" THEN [i \in 1..cfg.depth |-> Job(0)] ELSE <<>>
    /\ next = 1 /\ bg = Idle /\ lock = "free"
    /\ server = 0 /\ adapters = <<>> /\ loaded = {0} /\ name = 0 /\ paused = FALSE
    /\ used = [submitted |-> 0, version |-> cfg.start, step |-> cfg.start]
    /\ failures = 0

-----------------------------------------------------------------------------
(* The main thread: one optimizer step after another.                      *)

\* A resumed run starts at its checkpoint's step.
LoadCheckpoint ==
    /\ main = "load"
    /\ step' = cfg.start /\ main' = "prepare"
    /\ UNCHANGED <<cfg, for, left, syncVars, lastLoaded, jobs, next, bg, lock, paused, used, failures>>

\* _prepare_inputs: the buffered batches first.
PrepareBuffered ==
    /\ main = "prepare" /\ left > 0
    /\ left' = left - 1 /\ main' = "train"
    /\ UNCHANGED <<cfg, step, for, syncVars, lastLoaded, jobs, next, bg, lock, paused, used, failures>>

\* The interval has elapsed; as its mutant, once is enough.
DueOnce == lastSynced = -1 /\ step % cfg.interval = 0
Due == step # lastSynced /\ step % cfg.interval = 0

\* _maybe_sync_vllm_weights with nothing to do, or nothing trained yet.
SkipSync ==
    /\ main = "prepare" /\ left = 0
    /\ ~Due \/ step = 0
    /\ lastSynced' = IF Due THEN step ELSE lastSynced
    /\ main' = "produce"
    /\ UNCHANGED <<cfg, step, for, left, server, adapters, loaded, name, lastLoaded, jobs,
                   next, bg, lock, paused, used, failures>>

\* with data_producer._generate_lock; as its mutant, without it.
NoLock == UNCHANGED lock
TakeLock == lock = "free" /\ lock' = "main"

\* f.result() for every queued future; as its mutant, for the first one.
FirstPendingOver == Pending # {} => jobs[next].at \in {"ok", "failed"}
PendingOver == \A j \in Pending : jobs[j].at \in {"ok", "failed"}

BeginSync ==
    /\ main = "prepare" /\ left = 0
    /\ Due /\ step # 0
    /\ for' = "rollout"
    /\ IF cfg.sync = "stock" /\ cfg.path = "producer" THEN TakeLock ELSE UNCHANGED lock
    /\ IF cfg.sync = "stock" /\ cfg.path = "legacy"
         THEN /\ PendingOver
              /\ main' = IF \E j \in Pending : jobs[j].at = "failed" THEN "failed" ELSE "sync"
         ELSE main' = "sync"
    /\ UNCHANGED <<cfg, step, left, syncVars, lastLoaded, jobs, next, bg, paused, used, failures>>

\* POST /pause?mode=wait returns when no request is being generated (merged
\* copies and adapters); a server without the route leaves it running.
Pause ==
    /\ main = "sync" /\ cfg.sync # "stock"
    /\ \/ bg.at # "generating" /\ paused' = TRUE
       \/ cfg.sync = "lora" /\ failures < MaxFailures /\ UNCHANGED paused
    /\ failures' = IF paused' THEN failures ELSE failures + 1
    /\ main' = "update"
    /\ UNCHANGED <<cfg, step, for, left, syncVars, lastLoaded, jobs, next, bg, lock, used>>

\* The weights arrive (stock and merged modes), generation resumes, the lock
\* is released.
UpdateWeights ==
    /\ \/ cfg.sync = "stock" /\ main = "sync"
       \/ cfg.sync = "nomerge" /\ main = "update"
    /\ server' = step
    /\ paused' = FALSE
    /\ lock' = IF lock = "main" THEN "free" ELSE lock
    /\ \/ for = "rollout" /\ lastSynced' = step /\ main' = "produce" /\ UNCHANGED lastLoaded
       \/ for = "eval" /\ lastLoaded' = step /\ main' = "evaluate" /\ UNCHANGED lastSynced
    /\ UNCHANGED <<cfg, step, for, left, adapters, loaded, name, jobs, next, bg, used, failures>>

\* The version published next; as its mutant, one is skipped.
VersionSkipped == Len(adapters) + 2
Version == Len(adapters) + 1

\* publish_lora_adapter loads the new version and points the client at it,
\* or raises; either way generation resumes.
PublishAdapter ==
    /\ main = "update" /\ cfg.sync = "lora"
    /\ adapters' = Append(adapters, step)
    /\ \/ /\ loaded' = loaded \cup {Version}
          /\ name' = Version
          /\ main' = "unload" /\ UNCHANGED failures
       \/ /\ failures < MaxFailures /\ failures' = failures + 1
          /\ main' = "failed" /\ UNCHANGED <<loaded, name>>
    /\ paused' = FALSE
    /\ UNCHANGED <<cfg, step, for, left, lastSynced, server, lastLoaded, jobs, next, bg, lock, used>>

\* The version unloaded when v is published; as its mutant, the previous one.
PreviousVersion(v) == v - 1
StaleVersion(v) == v - 2

UnloadAdapter ==
    /\ main = "unload"
    /\ loaded' = IF StaleVersion(name) > 0 THEN loaded \ {StaleVersion(name)} ELSE loaded
    /\ lastSynced' = step
    /\ main' = "produce"
    /\ UNCHANGED <<cfg, step, for, left, server, adapters, name, lastLoaded, jobs, next, bg,
                   lock, paused, used, failures>>

\* The first rollout of the data producer is generated here, on weights that
\* TRL's own check has synced (an empty hook when adapters are used), and
\* the executor gets depth jobs.
FirstProduce ==
    /\ main = "produce" /\ cfg.path = "producer" /\ jobs = <<>>
    /\ server' = IF cfg.sync # "lora" /\ lastLoaded # step THEN step ELSE server
    /\ lastLoaded' = step
    /\ used' = [submitted |-> step, step |-> step,
                version |-> IF cfg.sync = "lora" THEN Served(name) ELSE server']
    /\ jobs' = [i \in 1..cfg.depth |-> Job(step)]
    /\ left' = cfg.rollout - 1 /\ main' = "train"
    /\ UNCHANGED <<cfg, step, for, lastSynced, adapters, loaded, name, next, bg, lock, paused, failures>>

\* The oldest generation; as its mutant, the newest that is over.
NewestOver(j) ==
    /\ j \in Pending /\ jobs[j].at \in {"ok", "failed"}
    /\ \A k \in Pending : k > j => jobs[k].at \notin {"ok", "failed"}
Oldest(j) == j = next

\* popleft().result() (or queue.get().result()), and the next job goes to the
\* executor.  A failed generation raises here.
Produce ==
    /\ main = "produce" /\ jobs # <<>>
    /\ \E j \in Pending :
        /\ Oldest(j) /\ jobs[j].at \in {"ok", "failed"}
        /\ next' = next + 1
        /\ IF jobs[j].at = "ok"
             THEN /\ jobs' = Append([jobs EXCEPT ![j] = Taken], Job(step))
                  /\ used' = [submitted |-> jobs[j].submitted, version |-> jobs[j].version,
                              step |-> step]
                  /\ left' = cfg.rollout - 1 /\ main' = "train"
             ELSE main' = "failed" /\ UNCHANGED <<jobs, used, left>>
    /\ UNCHANGED <<cfg, step, for, syncVars, lastLoaded, bg, lock, paused, failures>>

\* Forward, backward and the optimizer's step; then perhaps an evaluation.
Train ==
    /\ main = "train"
    /\ step' = step + 1
    /\ main' \in IF step' = cfg.steps THEN {"done"} ELSE {"prepare", "eval"}
    /\ UNCHANGED <<cfg, for, left, syncVars, lastLoaded, jobs, next, bg, lock, paused, used, failures>>

\* Evaluation takes the stock path: it generates on this thread, and syncs
\* first unless _last_loaded_step says that was done.  No lock is taken.
Evaluate ==
    /\ main = "eval"
    /\ IF lastLoaded # step /\ cfg.sync # "lora"
         THEN main' = "sync" /\ for' = "eval" /\ UNCHANGED lastLoaded
         ELSE main' = "evaluate" /\ lastLoaded' = step /\ UNCHANGED for
    /\ UNCHANGED <<cfg, step, left, syncVars, jobs, next, bg, lock, paused, used, failures>>

EvaluateDone ==
    /\ main = "evaluate"
    /\ main' = "prepare"
    /\ UNCHANGED <<cfg, step, for, left, syncVars, lastLoaded, jobs, next, bg, lock, paused, used, failures>>

-----------------------------------------------------------------------------
(* The executor thread: _locked_produce or _generate_only.                 *)

\* The executor takes its jobs in the order they were submitted.
Take ==
    /\ bg.at = "idle"
    /\ \E j \in 1..Len(jobs) :
        /\ jobs[j].at = "queued" /\ \A k \in 1..(j - 1) : jobs[k].at # "queued"
        /\ jobs' = [jobs EXCEPT ![j].at = "running"]
        /\ bg' = [Idle EXCEPT !.job = j, !.at = IF cfg.path = "producer" THEN "lock" ELSE "begin"]
    /\ UNCHANGED <<cfg, step, main, for, left, syncVars, lastLoaded, next, lock, paused, used, failures>>

Lock ==
    /\ bg.at = "lock" /\ lock = "free"
    /\ lock' = "bg"
    /\ bg' = [bg EXCEPT !.at = "begin"]
    /\ UNCHANGED <<cfg, step, main, for, left, syncVars, lastLoaded, jobs, next, paused, used, failures>>

\* _generate_single_turn remembers _last_loaded_step and overwrites it, so
\* that TRL's check finds nothing to sync; rank 0 of many bypasses both.
Begin ==
    /\ bg.at = "begin"
    /\ IF cfg.ranks = "one"
         THEN /\ lastLoaded' = step
              /\ bg' = [bg EXCEPT !.at = "check", !.saved = lastLoaded]
         ELSE bg' = [bg EXCEPT !.at = "request"] /\ UNCHANGED lastLoaded
    /\ UNCHANGED <<cfg, step, main, for, left, syncVars, jobs, next, lock, paused, used, failures>>

\* TRL's check, on this thread: the main thread may have stepped meanwhile.
Check ==
    /\ bg.at = "check"
    /\ server' = IF cfg.sync # "lora" /\ lastLoaded # step THEN step ELSE server
    /\ lastLoaded' = step
    /\ bg' = [bg EXCEPT !.at = "request"]
    /\ UNCHANGED <<cfg, step, main, for, left, lastSynced, adapters, loaded, name, jobs, next,
                   lock, paused, used, failures>>

\* The client builds the request with the adapter's name of that moment.
Request ==
    /\ bg.at = "request"
    /\ jobs' = [jobs EXCEPT ![bg.job].name = name]
    /\ bg' = [bg EXCEPT !.at = "sent"]
    /\ UNCHANGED <<cfg, step, main, for, left, syncVars, lastLoaded, next, lock, paused, used, failures>>

\* The server starts on it unless generation is paused.
Arrive ==
    /\ bg.at = "sent" /\ ~paused
    /\ jobs' = [jobs EXCEPT ![bg.job].version = Served(jobs[bg.job].name)]
    /\ bg' = [bg EXCEPT !.at = "generating"]
    /\ UNCHANGED <<cfg, step, main, for, left, syncVars, lastLoaded, next, lock, paused, used, failures>>

\* The lock is released however produce ends; as its mutant, when it returns.
ReleasedOnSuccess(ok) == IF lock = "bg" /\ ok THEN "free" ELSE lock
Released(ok) == IF lock = "bg" THEN "free" ELSE lock

\* The rollout, or an exception (always one when the adapter is not loaded):
\* the finally blocks restore _last_loaded_step and release the lock.
End ==
    /\ bg.at = "generating"
    /\ \E ok \in BOOLEAN :
        /\ ok => jobs[bg.job].name \in loaded
        /\ ~ok => failures < MaxFailures \/ jobs[bg.job].name \notin loaded
        /\ jobs' = [jobs EXCEPT ![bg.job].at = IF ok THEN "ok" ELSE "failed"]
        /\ failures' = IF ok \/ failures = MaxFailures THEN failures ELSE failures + 1
        /\ lock' = Released(ok)
    /\ lastLoaded' = IF cfg.ranks = "one" THEN bg.saved ELSE lastLoaded
    /\ bg' = Idle
    /\ UNCHANGED <<cfg, step, main, for, left, syncVars, next, paused, used>>

-----------------------------------------------------------------------------
Main ==
    \/ LoadCheckpoint \/ PrepareBuffered \/ SkipSync \/ BeginSync \/ Pause \/ UpdateWeights
    \/ PublishAdapter \/ UnloadAdapter \/ FirstProduce \/ Produce
    \/ Train \/ Evaluate \/ EvaluateDone

Background == Take \/ Lock \/ Begin \/ Check \/ Request \/ Arrive \/ End

Over == main \in {"done", "failed"}

Next ==
    \/ LoadCheckpoint \/ PrepareBuffered \/ SkipSync \/ BeginSync \/ Pause \/ UpdateWeights
    \/ PublishAdapter \/ UnloadAdapter \/ FirstProduce \/ Produce
    \/ Train \/ Evaluate \/ EvaluateDone
    \/ Take \/ Lock \/ Begin \/ Check \/ Request \/ Arrive \/ End
    \/ Over /\ UNCHANGED vars

Spec == Init /\ [][Next]_vars

\* Both threads are scheduled, and the server answers.
FairSpec == Spec /\ WF_vars(Main) /\ WF_vars(Background)

-----------------------------------------------------------------------------
(* Properties.                                                             *)

TypeOK ==
    /\ cfg \in Setting
    /\ step \in Nat /\ left \in Nat /\ failures \in 0..MaxFailures
    /\ main \in {"load", "prepare", "sync", "update", "unload", "produce", "train",
                 "eval", "evaluate", "done", "failed"}
    /\ for \in {"rollout", "eval"}
    /\ lastSynced \in Nat \cup {-1} /\ lastLoaded \in Nat \cup {-1}
    /\ jobs \in Seq([submitted : Nat, at : {"queued", "running", "ok", "failed", "taken"},
                     name : Nat, version : Nat])
    /\ next \in 1..(Len(jobs) + 1)
    /\ bg \in [job : 0..Len(jobs), saved : Nat \cup {-1},
               at : {"idle", "lock", "begin", "check", "request", "sent", "generating"}]
    /\ lock \in {"free", "main", "bg"}
    /\ server \in Nat /\ adapters \in Seq(Nat)
    /\ loaded \subseteq 0..Len(adapters) /\ name \in 0..Len(adapters)
    /\ paused \in BOOLEAN
    /\ used \in [submitted : Nat, version : Nat, step : Nat]

\* Syncs are only considered where a rollout begins, so they are as many
\* steps apart as the first common multiple of rollout and interval.
Common(c) == {p \in 1..(c.rollout * c.interval) : p % c.rollout = 0 /\ p % c.interval = 0}
Period(c) == CHOOSE p \in Common(c) : \A q \in Common(c) : p <= q

\* A rollout is never older than the prefetch depth and the sync period
\* allow, however the threads interleave.  (A resumed run must resume where a
\* sync is due, and the rollouts the legacy trainer submits before it loads
\* the checkpoint are the base model's.)
BoundedStaleness ==
    (cfg.start % Period(cfg) = 0 /\ used.submitted >= cfg.start) =>
        used.step - used.version <= cfg.depth * cfg.rollout + Period(cfg) - cfg.rollout

\* "The main thread acquires this lock for weight sync to ensure
\* merge_adapter/unmerge_adapter don't overlap with generation": while a
\* stock sync for training runs nothing is generated or about to be, and a
\* merged update never lands while the server generates.
SyncHoldsOffGeneration ==
    /\ (main = "sync" /\ for = "rollout" /\ cfg.sync = "stock") =>
          bg.at \in {"idle", "lock"}
    /\ (main = "update" /\ paused) => bg.at # "generating"

\* "At most the previous version can still be referenced once generation
\* resumes": the adapter a request names stays loaded until the request has
\* been answered, also when it was built before a sync and reaches the server
\* after it.  With more rollouts ahead a second sync can come first.
AdapterStillLoaded ==
    (bg.at \in {"sent", "generating"} /\ cfg.depth = 1) => jobs[bg.job].name \in loaded

\* Rollouts are trained on once each, in the order they were submitted, and
\* depth of them are always ahead: the one in use was submitted depth rollouts
\* ago.
PrefetchedAhead ==
    [][(Len(jobs') > Len(jobs) /\ jobs # <<>>) =>
          /\ Len(jobs') - next' + 1 = cfg.depth
          /\ used'.submitted = jobs[next].submitted /\ jobs[next].at = "ok"]_vars

\* Neither thread waits for ever on the other: training ends or fails.
TrainingEnds == <>Over
=============================================================================
