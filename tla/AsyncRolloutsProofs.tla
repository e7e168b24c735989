------------------------- MODULE AsyncRolloutsProofs -------------------------
(***************************************************************************)
(* Proofs about asynchronous rollouts, for every set of settings: every    *)
(* prefetch depth, rollout length, sync interval and number of steps.      *)
(* At the end, proofs about the reward workers.                            *)
(***************************************************************************)
EXTENDS AsyncRollouts, RewardWorkers, SequenceLemmas

Generating == bg.at \in {"begin", "check", "request", "sent", "generating"}
StockSync == main = "sync" /\ for = "rollout" /\ cfg.sync = "stock"

\* The queue: taken jobs before next, depth jobs from there on, and the
\* executor runs one of these.
QueueShape ==
    /\ \A j \in 1..Len(jobs) : j < next => jobs[j].at \in {"taken", "failed"}
    /\ jobs = <<>> => next = 1
    /\ (jobs # <<>> /\ main # "failed") => Len(jobs) - next + 1 = cfg.depth
    /\ bg.at # "idle" => bg.job \in 1..Len(jobs) /\ jobs[bg.job].at = "running"

\* Who holds the generate lock; on the legacy path nobody does, and a stock
\* sync has waited for every job instead.
LockShape ==
    /\ lock = "bg" <=> cfg.path = "producer" /\ Generating
    /\ lock = "main" <=> cfg.path = "producer" /\ StockSync
    /\ cfg.path = "legacy" => bg.at # "lock"
    /\ cfg.path = "legacy" /\ StockSync => PendingOver

\* A paused server generates nothing while weights are replaced.
PauseShape == paused => main = "update" /\ bg.at # "generating"

\* The current adapter and the one before it are loaded, and with one rollout
\* ahead the request in flight names one of them: the current one, until the
\* sync that follows it.
AdapterShape ==
    /\ \A j \in 1..Len(jobs) : jobs[j].name \in 0..Len(adapters)
    /\ main # "failed" => name = Len(adapters)
    /\ 0 \in loaded /\ name \in loaded /\ (name > 0 => name - 1 \in loaded)
    /\ (cfg.depth = 1 /\ bg.at \in {"sent", "generating"}) =>
          /\ jobs[bg.job].name \in {name, name - 1}
          /\ main \notin {"unload", "produce", "failed"} => jobs[bg.job].name = name

IInv == TypeOK /\ QueueShape /\ LockShape /\ PauseShape /\ AdapterShape

-----------------------------------------------------------------------------
(* The queue as a sequence.                                                *)

JobType == [submitted : Nat, at : {"queued", "running", "ok", "failed", "taken"},
            name : Nat, version : Nat]

LEMMA JobsAreJobs ==
    ASSUME TypeOK
    PROVE  /\ jobs \in Seq(JobType) /\ Len(jobs) \in Nat /\ DOMAIN jobs = 1..Len(jobs)
           /\ \A j \in 1..Len(jobs) : jobs[j] \in JobType
           /\ jobs = <<>> <=> Len(jobs) = 0
           /\ next \in 1..(Len(jobs) + 1)
<1>1. jobs \in Seq(JobType)
  BY DEF TypeOK, JobType
<1>2. Len(jobs) \in Nat /\ DOMAIN jobs = 1..Len(jobs)
  BY <1>1, LenProperties
<1>3. \A j \in 1..Len(jobs) : jobs[j] \in JobType
  BY <1>1, ElementOfSeq
<1>4. jobs = <<>> <=> Len(jobs) = 0
  BY <1>1, EmptySeq
<1> QED BY <1>1, <1>2, <1>3, <1>4 DEF TypeOK

\* A change of one job.
OthersKept(j) == Len(jobs') = Len(jobs) /\ \A i \in 1..Len(jobs) : i # j => jobs'[i] = jobs[i]

LEMMA JobChanged ==
    ASSUME TypeOK, NEW j \in 1..Len(jobs), NEW r \in JobType,
           jobs' = [jobs EXCEPT ![j] = r]
    PROVE  jobs' \in Seq(JobType) /\ OthersKept(j) /\ jobs'[j] = r
<1>1. /\ jobs' \in Seq(JobType) /\ Len(jobs') = Len(jobs)
      /\ \A i \in 1..Len(jobs) : jobs'[i] = IF i = j THEN r ELSE jobs[i]
  BY JobsAreJobs, ExceptSeq
<1> QED BY <1>1 DEF OthersKept

\* A job at the end.
LEMMA JobAppended ==
    ASSUME NEW q \in Seq(JobType), NEW s \in Nat
    PROVE  /\ Job(s) \in JobType
           /\ Append(q, Job(s)) \in Seq(JobType)
           /\ Append(q, Job(s)) # <<>>
           /\ Len(Append(q, Job(s))) = Len(q) + 1 /\ Len(q) \in Nat
           /\ \A i \in 1..(Len(q) + 1) :
                  Append(q, Job(s))[i] = IF i <= Len(q) THEN q[i] ELSE Job(s)
<1>1. Job(s) \in JobType
  BY DEF Job, JobType
<1>2. Len(q) \in Nat
  BY LenProperties
<1> QED BY <1>1, <1>2, AppendProperties

\* The executor's first jobs.
LEMMA FirstJobs ==
    ASSUME NEW n \in Nat, NEW s \in Nat
    PROVE  /\ [i \in 1..n |-> Job(s)] \in Seq(JobType)
           /\ Len([i \in 1..n |-> Job(s)]) = n
           /\ \A i \in 1..n : [k \in 1..n |-> Job(s)][i] = Job(s)
<1>1. Job(s) \in JobType
  BY DEF Job, JobType
<1>2. [i \in 1..n |-> Job(s)] \in Seq(JobType)
  BY <1>1
<1> QED BY <1>2, LenProperties

\* What a setting consists of.
LEMMA SettingFields ==
    ASSUME TypeOK
    PROVE  /\ cfg.path \in {"producer", "legacy"} /\ cfg.sync \in {"stock", "nomerge", "lora"}
           /\ cfg.ranks \in {"one", "many"} /\ cfg.depth \in Nat \ {0}
           /\ cfg.rollout \in Nat \ {0} /\ cfg.start \in Nat
BY RolloutAssumption DEF TypeOK, SettingType

-----------------------------------------------------------------------------
(* What each step does to the queue and the executor thread: one job is    *)
(* taken and one submitted, the first are submitted, one job changes, or   *)
(* none.                                                                   *)

LEMMA ProduceJobs ==
    ASSUME TypeOK, Produce
    PROVE  /\ next \in 1..Len(jobs) /\ jobs[next].at \in {"ok", "failed"} /\ next' = next + 1
           /\ jobs' \in Seq(JobType)
           /\ \/ /\ jobs[next].at = "ok" /\ main' = "train"
                 /\ Len(jobs') = Len(jobs) + 1 /\ jobs' # <<>>
                 /\ \A i \in 1..Len(jobs) : jobs'[i] = IF i = next THEN Taken ELSE jobs[i]
                 /\ jobs'[Len(jobs')] = Job(step)
                 /\ used'.submitted = jobs[next].submitted
                 /\ used' \in [submitted : Nat, version : Nat, step : Nat]
                 /\ left' = cfg.rollout - 1
              \/ /\ jobs[next].at = "failed" /\ main' = "failed"
                 /\ UNCHANGED <<jobs, used, left>>
<1>0. next \in 1..Len(jobs) /\ next \in Pending /\ jobs[next].at \in {"ok", "failed"}
      /\ next' = next + 1
  BY JobsAreJobs DEF Produce, Oldest, Pending
<1>1. CASE jobs[next].at = "ok"
  <2>1. /\ jobs' = Append([jobs EXCEPT ![next] = Taken], Job(step))
        /\ used' = [submitted |-> jobs[next].submitted, version |-> jobs[next].version,
                    step |-> step]
        /\ left' = cfg.rollout - 1 /\ main' = "train"
    BY <1>0, <1>1 DEF Produce, Oldest
  <2> DEFINE q == [jobs EXCEPT ![next] = Taken]
  <2>2. Taken \in JobType
    BY DEF Taken, Job, JobType
  <2>3. /\ q \in Seq(JobType) /\ Len(q) = Len(jobs)
        /\ \A i \in 1..Len(jobs) : q[i] = IF i = next THEN Taken ELSE jobs[i]
    BY <1>0, <2>2, JobsAreJobs, ExceptSeq
  <2> HIDE DEF q
  <2>4. step \in Nat
    BY DEF TypeOK
  <2>5. jobs' = Append(q, Job(step))
    BY <2>1 DEF q
  <2>6. /\ jobs' \in Seq(JobType) /\ jobs' # <<>> /\ Len(jobs') = Len(jobs) + 1
        /\ \A i \in 1..Len(jobs) : jobs'[i] = IF i = next THEN Taken ELSE jobs[i]
        /\ jobs'[Len(jobs')] = Job(step)
    BY <2>3, <2>4, <2>5, JobAppended
  <2>7. used' \in [submitted : Nat, version : Nat, step : Nat]
        /\ used'.submitted = jobs[next].submitted
    BY <1>0, <2>1, <2>4, JobsAreJobs DEF JobType
  <2> QED BY <1>0, <1>1, <2>1, <2>6, <2>7
<1>2. CASE jobs[next].at = "failed"
  BY <1>0, <1>2, JobsAreJobs DEF Produce, Oldest
<1> QED BY <1>0, <1>1, <1>2

LEMMA FirstProduceJobs ==
    ASSUME TypeOK, QueueShape, FirstProduce
    PROVE  /\ jobs = <<>> /\ next = 1 /\ next' = 1 /\ bg.at = "idle" /\ bg' = bg
           /\ jobs' \in Seq(JobType) /\ jobs' # <<>> /\ Len(jobs') = cfg.depth
           /\ \A i \in 1..Len(jobs') : jobs'[i] = Job(step)
<1>1. jobs = <<>> /\ next = 1 /\ next' = next /\ bg' = bg /\ jobs' = [i \in 1..cfg.depth |-> Job(step)]
  BY DEF FirstProduce, QueueShape
<1>2. step \in Nat /\ cfg.depth \in Nat \ {0}
  BY SettingFields DEF TypeOK
<1>3. /\ jobs' \in Seq(JobType) /\ Len(jobs') = cfg.depth
      /\ \A i \in 1..cfg.depth : jobs'[i] = Job(step)
  BY <1>1, <1>2, FirstJobs
<1>4. jobs' # <<>>
  BY <1>2, <1>3, EmptySeq
<1>5. bg.at = "idle"
  BY <1>1, JobsAreJobs DEF QueueShape
<1> QED BY <1>1, <1>3, <1>4, <1>5

LEMMA TakeJobs ==
    ASSUME TypeOK, Take
    PROVE  /\ bg.at = "idle" /\ next' = next
           /\ \E j \in 1..Len(jobs) :
                 /\ jobs[j].at = "queued" /\ bg'.job = j
                 /\ bg'.at = IF cfg.path = "producer" THEN "lock" ELSE "begin"
                 /\ bg'.saved = -1
                 /\ jobs' \in Seq(JobType) /\ OthersKept(j)
                 /\ jobs'[j] = [jobs[j] EXCEPT !.at = "running"]
<1>1. PICK j \in 1..Len(jobs) :
        /\ jobs[j].at = "queued"
        /\ jobs' = [jobs EXCEPT ![j].at = "running"]
        /\ bg' = [Idle EXCEPT !.job = j, !.at = IF cfg.path = "producer" THEN "lock" ELSE "begin"]
  BY DEF Take
<1> DEFINE r == [jobs[j] EXCEPT !.at = "running"]
<1>2. r \in JobType
  BY JobsAreJobs DEF JobType
<1>3. jobs' = [jobs EXCEPT ![j] = r]
  BY <1>1, JobsAreJobs
<1> HIDE DEF r
<1>4. jobs' \in Seq(JobType) /\ OthersKept(j) /\ jobs'[j] = r
  BY <1>2, <1>3, JobChanged
<1>5. bg'.job = j /\ bg'.at = (IF cfg.path = "producer" THEN "lock" ELSE "begin") /\ bg'.saved = -1
  BY <1>1 DEF Idle
<1>6. bg.at = "idle" /\ next' = next
  BY DEF Take
<1> QED BY <1>1, <1>4, <1>5, <1>6 DEF r

LEMMA RequestJobs ==
    ASSUME TypeOK, QueueShape, Request
    PROVE  /\ bg.at = "request" /\ bg' = [bg EXCEPT !.at = "sent"] /\ next' = next
           /\ bg.job \in 1..Len(jobs) /\ jobs' \in Seq(JobType) /\ OthersKept(bg.job)
           /\ jobs'[bg.job] = [jobs[bg.job] EXCEPT !.name = name]
<1> DEFINE r == [jobs[bg.job] EXCEPT !.name = name]
<1>1. bg.job \in 1..Len(jobs) /\ name \in Nat
  BY SMT DEF Request, QueueShape, TypeOK
<1>2. r \in JobType
  BY <1>1, JobsAreJobs DEF JobType
<1>3. jobs' = [jobs EXCEPT ![bg.job] = r]
  BY <1>1, JobsAreJobs DEF Request
<1> HIDE DEF r
<1>4. jobs' \in Seq(JobType) /\ OthersKept(bg.job) /\ jobs'[bg.job] = r
  BY <1>1, <1>2, <1>3, JobChanged
<1> QED BY <1>1, <1>4 DEF Request, r

LEMMA ServedIsStep ==
    ASSUME TypeOK, NEW n \in 0..Len(adapters)
    PROVE  Served(n) \in Nat
<1>1. adapters \in Seq(Nat) /\ server \in Nat
  BY DEF TypeOK
<1>2. \A i \in 1..Len(adapters) : adapters[i] \in Nat
  BY <1>1, ElementOfSeq
<1>3. Len(adapters) \in Nat
  BY <1>1, LenProperties
<1> QED BY <1>1, <1>2, <1>3 DEF Served

LEMMA ArriveJobs ==
    ASSUME TypeOK, QueueShape, AdapterShape, Arrive
    PROVE  /\ bg.at = "sent" /\ bg' = [bg EXCEPT !.at = "generating"] /\ next' = next
           /\ bg.job \in 1..Len(jobs) /\ jobs' \in Seq(JobType) /\ OthersKept(bg.job)
           /\ \E v \in Nat : jobs'[bg.job] = [jobs[bg.job] EXCEPT !.version = v]
<1> DEFINE v == Served(jobs[bg.job].name)
           r == [jobs[bg.job] EXCEPT !.version = v]
<1>1. bg.job \in 1..Len(jobs)
  BY DEF Arrive, QueueShape
<1>2. v \in Nat
  BY <1>1, ServedIsStep DEF AdapterShape
<1> HIDE DEF v
<1>3. r \in JobType
  BY <1>1, <1>2, JobsAreJobs DEF JobType
<1>4. jobs' = [jobs EXCEPT ![bg.job] = r]
  BY <1>1, JobsAreJobs DEF Arrive, v
<1>5. jobs' \in Seq(JobType) /\ OthersKept(bg.job) /\ jobs'[bg.job] = r
  BY <1>1, <1>3, <1>4, JobChanged
<1> QED BY <1>1, <1>2, <1>5 DEF Arrive

LEMMA EndJobs ==
    ASSUME TypeOK, QueueShape, End
    PROVE  /\ bg.at = "generating" /\ bg' = Idle /\ next' = next
           /\ bg.job \in 1..Len(jobs) /\ jobs' \in Seq(JobType) /\ OthersKept(bg.job)
           /\ \E a \in {"ok", "failed"} : jobs'[bg.job] = [jobs[bg.job] EXCEPT !.at = a]
           /\ failures' \in 0..MaxFailures /\ lock' = IF lock = "bg" THEN "free" ELSE lock
<1>1. bg.job \in 1..Len(jobs)
  BY DEF End, QueueShape
<1>2. PICK ok \in BOOLEAN :
        /\ jobs' = [jobs EXCEPT ![bg.job].at = IF ok THEN "ok" ELSE "failed"]
        /\ failures' = IF ok \/ failures = MaxFailures THEN failures ELSE failures + 1
        /\ lock' = Released(ok)
        /\ ~ok => failures < MaxFailures \/ jobs[bg.job].name \notin loaded
  BY DEF End
<1> DEFINE a == IF ok THEN "ok" ELSE "failed"
           r == [jobs[bg.job] EXCEPT !.at = a]
<1>3. r \in JobType
  BY <1>1, JobsAreJobs DEF JobType
<1>4. jobs' = [jobs EXCEPT ![bg.job] = r]
  BY <1>1, <1>2, JobsAreJobs
<1>5. a \in {"ok", "failed"}
  OBVIOUS
<1> HIDE DEF a
<1>6. jobs' \in Seq(JobType) /\ OthersKept(bg.job) /\ jobs'[bg.job] = r
  BY <1>1, <1>3, <1>4, JobChanged
<1>7. failures' \in 0..MaxFailures
  <2>1. failures' = failures \/ (failures' = failures + 1 /\ failures # MaxFailures)
    BY <1>2, Zenon
  <2>2. failures \in 0..MaxFailures /\ MaxFailures \in Nat
    BY RolloutAssumption DEF TypeOK
  <2> QED BY <2>1, <2>2
<1>8. lock' = IF lock = "bg" THEN "free" ELSE lock
  BY <1>2 DEF Released
<1> QED BY <1>1, <1>5, <1>6, <1>7, <1>8 DEF End

-----------------------------------------------------------------------------
(* The invariant is inductive: types.                                      *)

LEMMA TypeInit == Init => TypeOK
<1> SUFFICES ASSUME Init PROVE TypeOK
  OBVIOUS
<1>1. cfg \in SettingType /\ cfg.depth \in Nat \ {0} /\ cfg.start \in Nat
  BY RolloutAssumption DEF Init, SettingType
<1>2. jobs \in Seq(JobType) /\ (jobs = <<>> \/ Len(jobs) = cfg.depth)
  <2>1. CASE cfg.path = "legacy"
    BY <1>1, <2>1, FirstJobs DEF Init
  <2>2. CASE cfg.path # "legacy"
    BY <2>2 DEF Init
  <2> QED BY <2>1, <2>2
<1>3. Len(jobs) \in Nat
  BY <1>2, LenProperties
<1>4. next \in 1..(Len(jobs) + 1)
      /\ bg \in [job : 0..Len(jobs), saved : Nat \cup {-1},
                at : {"idle", "lock", "begin", "check", "request", "sent", "generating"}]
  <2>1. next = 1 /\ bg = [job |-> 0, at |-> "idle", saved |-> -1]
    BY Zenon DEF Init, Idle
  <2> QED BY <1>3, <2>1
<1>5. adapters = <<>> /\ Len(adapters) = 0 /\ adapters \in Seq(Nat)
  BY EmptySeq DEF Init
<1>6. /\ cfg \in Setting /\ step = 0 /\ left = 0 /\ failures = 0 /\ main = "load"
      /\ for = "rollout" /\ lastSynced = -1 /\ lastLoaded = -1 /\ lock = "free"
      /\ server = 0 /\ loaded = {0} /\ name = 0 /\ paused = FALSE
      /\ used = [submitted |-> 0, version |-> cfg.start, step |-> cfg.start]
  BY Zenon DEF Init
<1>7. loaded \subseteq 0..Len(adapters) /\ name \in 0..Len(adapters) /\ failures \in 0..MaxFailures
  BY <1>5, <1>6, RolloutAssumption
<1>8. used \in [submitted : Nat, version : Nat, step : Nat]
  BY <1>1, <1>6
<1> QED BY <1>2, <1>4, <1>5, <1>6, <1>7, <1>8 DEF TypeOK, JobType

LEMMA TypeStep == IInv /\ [Next]_vars => TypeOK'
<1> SUFFICES ASSUME IInv, [Next]_vars PROVE TypeOK'
  OBVIOUS
<1> USE DEF IInv, syncVars
<1>0. /\ cfg.depth \in Nat \ {0} /\ cfg.rollout \in Nat \ {0} /\ cfg.start \in Nat
      /\ MaxFailures \in Nat /\ Len(adapters) \in Nat /\ Len(jobs) \in Nat
  BY SettingFields, JobsAreJobs, RolloutAssumption, LenProperties DEF TypeOK
<1>1. CASE UNCHANGED vars
  BY <1>1 DEF TypeOK, vars
<1>2. CASE LoadCheckpoint
  BY <1>0, <1>2 DEF TypeOK, LoadCheckpoint
<1>3. CASE PrepareBuffered
  BY <1>0, <1>3 DEF TypeOK, PrepareBuffered
<1>4. CASE SkipSync
  BY <1>0, <1>4 DEF TypeOK, SkipSync
<1>5. CASE BeginSync
  BY <1>0, <1>5 DEF TypeOK, BeginSync, TakeLock
<1>6. CASE Pause
  <2>1. paused' \in BOOLEAN /\ main' = "update"
    BY <1>6 DEF TypeOK, Pause
  <2>2. failures' \in 0..MaxFailures
    <3>1. CASE paused' = TRUE
      BY <1>6, <3>1 DEF TypeOK, Pause
    <3>2. CASE paused' # TRUE
      <4>1. failures < MaxFailures /\ failures' = failures + 1
        BY <1>6, <2>1, <3>2 DEF Pause
      <4> QED BY <4>1, <1>0 DEF TypeOK
    <3> QED BY <3>1, <3>2
  <2>3. /\ UNCHANGED <<cfg, step, for, left, lastSynced, server, adapters, loaded, name>>
        /\ UNCHANGED <<lastLoaded, jobs, next, bg, lock, used>>
    BY <1>6 DEF Pause
  <2> QED BY <2>1, <2>2, <2>3 DEF TypeOK
<1>7. CASE UpdateWeights
  BY <1>0, <1>7 DEF TypeOK, UpdateWeights
<1>8. CASE PublishAdapter
  <2>1. /\ adapters' \in Seq(Nat) /\ Len(adapters') = Len(adapters) + 1
    <3>1. adapters \in Seq(Nat) /\ step \in Nat /\ adapters' = Append(adapters, step)
      BY <1>8 DEF TypeOK, PublishAdapter
    <3> QED BY <3>1, AppendProperties
  <2>2. /\ loaded' \subseteq 0..Len(adapters') /\ name' \in 0..Len(adapters')
        /\ failures' \in 0..MaxFailures /\ main' \in {"unload", "failed"} /\ paused' = FALSE
    <3>1. \/ /\ loaded' = loaded \cup {Len(adapters) + 1} /\ name' = Len(adapters) + 1
             /\ main' = "unload" /\ failures' = failures
          \/ /\ failures < MaxFailures /\ failures' = failures + 1
             /\ main' = "failed" /\ loaded' = loaded /\ name' = name
      BY <1>8 DEF PublishAdapter, Version
    <3>2. loaded \subseteq 0..Len(adapters) /\ name \in 0..Len(adapters) /\ failures \in 0..MaxFailures
      BY DEF TypeOK
    <3>3. paused' = FALSE
      BY <1>8 DEF PublishAdapter
    <3>4. failures' \in 0..MaxFailures
      BY <1>0, <3>1, <3>2
    <3>5. 0..Len(adapters) \subseteq 0..Len(adapters') /\ Len(adapters) + 1 \in 0..Len(adapters')
      BY <1>0, <2>1
    <3>6. loaded' \subseteq 0..Len(adapters') /\ name' \in 0..Len(adapters')
      BY <3>1, <3>2, <3>5
    <3> QED BY <3>1, <3>3, <3>4, <3>6
  <2>3. UNCHANGED <<cfg, step, for, left, lastSynced, server, lastLoaded, jobs, next, bg, lock, used>>
    BY <1>8 DEF PublishAdapter
  <2> QED BY <2>1, <2>2, <2>3 DEF TypeOK
<1>9. CASE UnloadAdapter
  BY <1>0, <1>9 DEF TypeOK, UnloadAdapter
<1>10. CASE FirstProduce
  <2>1. /\ jobs' \in Seq(JobType) /\ next' = 1 /\ bg' = bg /\ Len(jobs') = cfg.depth
        /\ jobs = <<>> /\ bg.job = 0
    BY <1>10, FirstProduceJobs, JobsAreJobs DEF TypeOK
  <2>2. server' \in Nat /\ lastLoaded' \in Nat /\ step \in Nat
    BY <1>10 DEF TypeOK, FirstProduce
  <2>3. used' \in [submitted : Nat, version : Nat, step : Nat]
    <3>1. Served(name) \in Nat
      BY <1>0, ServedIsStep DEF TypeOK
    <3> QED BY <1>10, <2>2, <3>1 DEF FirstProduce
  <2>4. left' \in Nat /\ main' = "train"
    BY <1>0, <1>10 DEF FirstProduce
  <2>5. UNCHANGED <<cfg, step, for, lastSynced, adapters, loaded, name, lock, paused, failures>>
    BY <1>10 DEF FirstProduce
  <2>6. next' \in 1..(Len(jobs') + 1) /\ bg'.job \in 0..Len(jobs')
    BY <1>0, <2>1
  <2>7. bg' \in [job : 0..Len(jobs'), saved : Nat \cup {-1},
                at : {"idle", "lock", "begin", "check", "request", "sent", "generating"}]
    BY <2>1, <2>6 DEF TypeOK
  <2> QED BY <2>1, <2>2, <2>3, <2>4, <2>5, <2>6, <2>7 DEF TypeOK, JobType
<1>11. CASE Produce
  <2>1. /\ jobs' \in Seq(JobType) /\ Len(jobs') >= Len(jobs) /\ Len(jobs') \in Nat
        /\ next' \in 1..(Len(jobs') + 1)
    BY <1>0, <1>11, ProduceJobs
  <2>2. /\ left' \in Nat /\ main' \in {"train", "failed"}
        /\ used' \in [submitted : Nat, version : Nat, step : Nat]
    <3>1. left \in Nat /\ used \in [submitted : Nat, version : Nat, step : Nat]
      BY DEF TypeOK
    <3>2. CASE main' = "train"
      <4>1. /\ used' \in [submitted : Nat, version : Nat, step : Nat]
            /\ left' = cfg.rollout - 1
        BY <1>11, <3>2, ProduceJobs
      <4> QED BY <1>0, <3>2, <4>1
    <3>3. CASE main' = "failed"
      <4>1. UNCHANGED <<used, left>>
        BY <1>11, <3>3, ProduceJobs
      <4> QED BY <3>1, <3>3, <4>1
    <3> QED BY <1>11, <3>2, <3>3, ProduceJobs
  <2>3. UNCHANGED <<cfg, step, for, syncVars, lastLoaded, bg, lock, paused, failures>>
    BY <1>11 DEF Produce
  <2>4. bg' \in [job : 0..Len(jobs'), saved : Nat \cup {-1},
                at : {"idle", "lock", "begin", "check", "request", "sent", "generating"}]
    BY <1>0, <2>1, <2>3 DEF TypeOK
  <2> QED BY <2>1, <2>2, <2>3, <2>4 DEF TypeOK, JobType
<1>12. CASE Train
  BY <1>0, <1>12 DEF TypeOK, Train
<1>13. CASE Evaluate
  BY <1>0, <1>13 DEF TypeOK, Evaluate
<1>14. CASE EvaluateDone
  BY <1>0, <1>14 DEF TypeOK, EvaluateDone
<1>15. CASE Take
  <2>1. /\ jobs' \in Seq(JobType) /\ Len(jobs') = Len(jobs) /\ next' = next
        /\ bg'.job \in 1..Len(jobs) /\ bg'.at \in {"lock", "begin"} /\ bg'.saved = -1
    BY <1>15, TakeJobs DEF OthersKept
  <2>2. bg' \in [job : 0..Len(jobs), saved : Nat \cup {-1},
                at : {"idle", "lock", "begin", "check", "request", "sent", "generating"}]
    <3>1. \E j \in 1..Len(jobs) : bg' = [job |-> j, saved |-> -1,
                at |-> IF cfg.path = "producer" THEN "lock" ELSE "begin"]
      BY <1>15 DEF Take, Idle
    <3> QED BY <1>0, <3>1
  <2>3. UNCHANGED <<cfg, step, main, for, left, syncVars, lastLoaded, lock, paused, used, failures>>
    BY <1>15 DEF Take
  <2> QED BY <2>1, <2>2, <2>3 DEF TypeOK, JobType
<1>16. CASE Lock
  BY <1>0, <1>16 DEF TypeOK, Lock
<1>17. CASE Begin
  BY <1>0, <1>17 DEF TypeOK, Begin
<1>18. CASE Check
  BY <1>0, <1>18 DEF TypeOK, Check
<1>19. CASE Request
  BY <1>0, <1>19, RequestJobs DEF TypeOK, Request, JobType, OthersKept
<1>20. CASE Arrive
  BY <1>0, <1>20, ArriveJobs DEF TypeOK, Arrive, JobType, OthersKept
<1>21. CASE End
  <2>1. /\ jobs' \in Seq(JobType) /\ Len(jobs') = Len(jobs) /\ next' = next
        /\ failures' \in 0..MaxFailures /\ lock' \in {lock, "free"}
        /\ bg' = [job |-> 0, at |-> "idle", saved |-> -1]
    BY <1>21, EndJobs DEF OthersKept, Idle
  <2>2. lastLoaded' \in Nat \cup {-1}
    BY <1>21 DEF TypeOK, End
  <2>3. UNCHANGED <<cfg, step, main, for, left, syncVars, paused, used>>
    BY <1>21 DEF End
  <2> QED BY <1>0, <2>1, <2>2, <2>3 DEF TypeOK, JobType
<1> QED BY <1>1, <1>2, <1>3, <1>4, <1>5, <1>6, <1>7, <1>8, <1>9, <1>10, <1>11, <1>12,
           <1>13, <1>14, <1>15, <1>16, <1>17, <1>18, <1>19, <1>20, <1>21 DEF Next

-----------------------------------------------------------------------------
(* The other parts.                                                        *)

LEMMA ShapeInit == Init => QueueShape /\ LockShape /\ PauseShape /\ AdapterShape
<1> SUFFICES ASSUME Init PROVE QueueShape /\ LockShape /\ PauseShape /\ AdapterShape
  OBVIOUS
<1>1. TypeOK
  BY TypeInit
<1>2. /\ next = 1 /\ bg.at = "idle" /\ main = "load" /\ lock = "free" /\ adapters = <<>>
      /\ loaded = {0} /\ name = 0
  BY DEF Init, Idle
<1>3. cfg.depth \in Nat \ {0} /\ cfg.path \in {"producer", "legacy"}
  BY <1>1, SettingFields
<1>4. /\ jobs = <<>> \/ Len(jobs) = cfg.depth
      /\ \A j \in 1..Len(jobs) : jobs[j].name = 0
  <2>1. CASE cfg.path = "legacy"
    <3>1. /\ Len(jobs) = cfg.depth /\ \A j \in 1..cfg.depth : jobs[j] = Job(0)
      BY <1>3, <2>1, FirstJobs DEF Init
    <3> QED BY <3>1 DEF Job
  <2>2. CASE cfg.path # "legacy"
    <3>1. jobs = <<>>
      BY <2>2 DEF Init
    <3> QED BY <1>1, <3>1, JobsAreJobs
  <2> QED BY <2>1, <2>2
<1>5. QueueShape
  BY <1>1, <1>2, <1>3, <1>4, JobsAreJobs DEF QueueShape
<1>6. LockShape /\ PauseShape
  <2>1. ~paused
    BY Zenon DEF Init
  <2> QED BY <1>2, <2>1 DEF LockShape, PauseShape, Generating, StockSync
<1>7. AdapterShape
  BY <1>2, <1>4, EmptySeq DEF AdapterShape
<1> QED BY <1>5, <1>6, <1>7

LEMMA QueueStep == IInv /\ [Next]_vars => QueueShape'
<1> SUFFICES ASSUME IInv, [Next]_vars PROVE QueueShape'
  OBVIOUS
<1> USE DEF IInv
<1>0. /\ cfg.depth \in Nat \ {0} /\ Len(jobs) \in Nat /\ next \in 1..(Len(jobs) + 1)
      /\ jobs = <<>> <=> Len(jobs) = 0
      /\ cfg' = cfg
  <2>1. cfg' = cfg
    BY DEF Next, vars, LoadCheckpoint, PrepareBuffered, SkipSync, BeginSync, Pause,
           UpdateWeights, PublishAdapter, UnloadAdapter, FirstProduce, Produce, Train,
           Evaluate, EvaluateDone, Take, Lock, Begin, Check, Request, Arrive, End
  <2> QED BY <2>1, SettingFields, JobsAreJobs
<1>1. ASSUME UNCHANGED <<jobs, next>>, bg'.at # "idle" => bg.at # "idle" /\ bg'.job = bg.job,
             main = "failed" => main' = "failed"
      PROVE  QueueShape'
  BY <1>0, <1>1 DEF QueueShape
<1>2. CASE \/ LoadCheckpoint \/ PrepareBuffered \/ SkipSync \/ BeginSync \/ Pause
           \/ UpdateWeights \/ PublishAdapter \/ UnloadAdapter \/ Train \/ Evaluate
           \/ EvaluateDone \/ UNCHANGED vars
  <2>1. UNCHANGED <<jobs, next, bg>> /\ (main = "failed" => main' = "failed")
    BY <1>2 DEF vars, LoadCheckpoint, PrepareBuffered, SkipSync, BeginSync, Pause,
           UpdateWeights, PublishAdapter, UnloadAdapter, Train, Evaluate, EvaluateDone
  <2> QED BY <1>1, <2>1
<1>3. CASE Lock \/ Begin \/ Check
  <2>1. /\ UNCHANGED <<jobs, next, main>> /\ bg'.job = bg.job /\ bg.at # "idle"
    BY <1>3 DEF Lock, Begin, Check, TypeOK
  <2> QED BY <1>1, <2>1
<1>4. CASE FirstProduce
  <2>1. /\ jobs' # <<>> /\ Len(jobs') = cfg.depth /\ next' = 1 /\ bg' = bg /\ bg.at = "idle"
    BY <1>4, FirstProduceJobs
  <2> QED BY <1>0, <2>1 DEF QueueShape
<1>5. CASE Produce
  <2>0. bg' = bg /\ main # "failed" /\ next' = next + 1
    BY <1>5 DEF Produce
  <2>1. CASE jobs[next].at = "ok"
    <3>1. /\ next \in 1..Len(jobs) /\ main' = "train" /\ jobs' # <<>>
          /\ Len(jobs') = Len(jobs) + 1
          /\ \A i \in 1..Len(jobs) : jobs'[i] = IF i = next THEN Taken ELSE jobs[i]
      BY <1>5, <2>1, ProduceJobs
    <3>2. Taken.at = "taken"
      BY DEF Taken, Job
    <3>3. \A j \in 1..Len(jobs') : j < next' => jobs'[j].at \in {"taken", "failed"}
      BY <1>0, <2>0, <3>1, <3>2 DEF QueueShape
    <3>4. Len(jobs') - next' + 1 = cfg.depth
      BY <1>0, <2>0, <3>1 DEF QueueShape
    <3>5. bg'.at # "idle" => bg'.job \in 1..Len(jobs') /\ jobs'[bg'.job].at = "running"
      BY <1>0, <2>0, <2>1, <3>1 DEF QueueShape
    <3> QED BY <1>0, <3>1, <3>3, <3>4, <3>5 DEF QueueShape
  <2>2. CASE jobs[next].at # "ok"
    <3>1. /\ next \in 1..Len(jobs) /\ main' = "failed" /\ jobs[next].at = "failed"
          /\ jobs' = jobs
      BY <1>5, <2>2, ProduceJobs
    <3> QED BY <1>0, <2>0, <3>1 DEF QueueShape
  <2> QED BY <2>1, <2>2
<1>6. CASE Take
  <2>0. main' = main
    BY <1>6 DEF Take
  <2>1. PICK j \in 1..Len(jobs) :
          /\ jobs[j].at = "queued" /\ bg'.job = j /\ OthersKept(j) /\ next' = next
          /\ jobs'[j] = [jobs[j] EXCEPT !.at = "running"]
    BY <1>6, TakeJobs
  <2>2. Len(jobs') = Len(jobs) /\ jobs'[j].at = "running"
    BY <2>1, JobsAreJobs DEF OthersKept, JobType
  <2>3. jobs' # <<>> /\ jobs # <<>>
    BY <1>0, <2>2, JobsAreJobs, TakeJobs, <1>6, EmptySeq
  <2> QED BY <1>0, <2>0, <2>1, <2>2, <2>3 DEF QueueShape, OthersKept
<1>7. CASE Request \/ Arrive \/ End
  <2>0. main' = main /\ next' = next /\ bg.job \in 1..Len(jobs) /\ bg.at # "idle"
    BY <1>7 DEF Request, Arrive, End, QueueShape
  <2>1. /\ jobs' \in Seq(JobType) /\ OthersKept(bg.job)
        /\ \/ jobs'[bg.job].at = jobs[bg.job].at /\ bg'.job = bg.job
           \/ jobs'[bg.job].at \in {"ok", "failed"} /\ bg'.at = "idle"
    <3>1. CASE Request
      BY <2>0, <3>1, RequestJobs, JobsAreJobs DEF JobType, TypeOK
    <3>2. CASE Arrive
      BY <2>0, <3>2, ArriveJobs, JobsAreJobs DEF JobType, TypeOK
    <3>3. CASE End
      <4>1. PICK a \in {"ok", "failed"} : jobs'[bg.job] = [jobs[bg.job] EXCEPT !.at = a]
        BY <3>3, EndJobs
      <4>2. jobs'[bg.job].at = a
        BY <2>0, <4>1, JobsAreJobs DEF JobType
      <4>3. jobs' \in Seq(JobType) /\ OthersKept(bg.job) /\ bg'.at = "idle"
        BY <3>3, EndJobs DEF Idle
      <4> QED BY <4>2, <4>3
    <3> QED BY <1>7, <3>1, <3>2, <3>3
  <2>2. jobs' # <<>> /\ jobs # <<>> /\ Len(jobs') = Len(jobs)
    BY <1>0, <2>0, <2>1, EmptySeq DEF OthersKept
  <2>3. bg.job >= next
    BY <1>0, <2>0 DEF QueueShape
  <2> QED BY <1>0, <2>0, <2>1, <2>2, <2>3 DEF QueueShape, OthersKept
<1> QED BY <1>2, <1>3, <1>4, <1>5, <1>6, <1>7 DEF Next

\* A legacy stock sync finds the executor thread idle and nothing queued.
LEMMA SyncFindsIdle ==
    ASSUME IInv, cfg.path = "legacy", StockSync
    PROVE  bg.at = "idle" /\ ~Take
<1>1. PendingOver /\ Len(jobs) \in Nat /\ next \in 1..(Len(jobs) + 1)
  BY JobsAreJobs DEF IInv, LockShape
<1>2. \A j \in 1..Len(jobs) : jobs[j].at \in {"ok", "failed", "taken"}
  BY <1>1 DEF IInv, QueueShape, PendingOver, Pending
<1> QED BY <1>2 DEF IInv, QueueShape, Take

LEMMA LockStep == IInv /\ [Next]_vars => LockShape' /\ PauseShape'
<1> SUFFICES ASSUME IInv, [Next]_vars PROVE LockShape' /\ PauseShape'
  OBVIOUS
<1> USE DEF IInv
<1>0. cfg.path \in {"producer", "legacy"} /\ cfg.sync \in {"stock", "nomerge", "lora"}
  BY SettingFields
<1> USE DEF StockSync, Generating
<1>1. CASE UNCHANGED vars
  BY <1>1 DEF vars, LockShape, PauseShape, PendingOver, Pending
<1>2. CASE LoadCheckpoint \/ PrepareBuffered \/ SkipSync \/ UnloadAdapter \/ Train \/ EvaluateDone
  BY <1>2 DEF LoadCheckpoint, PrepareBuffered, SkipSync, UnloadAdapter, Train, EvaluateDone,
              LockShape, PauseShape
<1>3. CASE BeginSync
  <2>1. /\ UNCHANGED <<cfg, jobs, next, bg, paused>> /\ main = "prepare" /\ for' = "rollout"
        /\ main' \in {"sync", "failed"}
    BY <1>3 DEF BeginSync
  <2>2. CASE cfg.sync = "stock" /\ cfg.path = "producer"
    <3>1. lock = "free" /\ lock' = "main" /\ main' = "sync"
      BY <1>3, <2>2 DEF BeginSync, TakeLock
    <3> QED BY <2>1, <2>2, <3>1 DEF LockShape, PauseShape
  <2>3. CASE cfg.sync = "stock" /\ cfg.path = "legacy"
    <3>1. lock' = lock /\ PendingOver
      BY <1>3, <2>3 DEF BeginSync
    <3>2. PendingOver'
      BY <2>1, <3>1 DEF PendingOver, Pending
    <3> QED BY <2>1, <2>3, <3>1, <3>2 DEF LockShape, PauseShape
  <2>4. CASE cfg.sync # "stock"
    <3>1. lock' = lock
      BY <1>3, <2>4 DEF BeginSync
    <3> QED BY <2>1, <2>4, <3>1 DEF LockShape, PauseShape
  <2> QED BY <1>0, <2>2, <2>3, <2>4
<1>4. CASE Pause
  <2>1. /\ UNCHANGED <<cfg, lock, bg>> /\ main' = "update" /\ cfg.sync # "stock" /\ main = "sync"
    BY <1>4 DEF Pause
  <2>2. paused' => bg.at # "generating" \/ paused
    BY <1>4 DEF Pause
  <2> QED BY <2>1, <2>2 DEF LockShape, PauseShape
<1>5. CASE UpdateWeights
  BY <1>5 DEF UpdateWeights, LockShape, PauseShape
<1>6. CASE PublishAdapter
  BY <1>6 DEF PublishAdapter, LockShape, PauseShape
<1>7. CASE FirstProduce
  BY <1>7 DEF FirstProduce, LockShape, PauseShape
<1>8. CASE Produce
  BY <1>8 DEF Produce, LockShape, PauseShape
<1>9. CASE Evaluate
  BY <1>9 DEF Evaluate, LockShape, PauseShape
<1>10. CASE Take \/ Lock \/ Begin \/ Check \/ Request \/ Arrive \/ End
  <2>1. UNCHANGED <<cfg, main, for, paused>>
    BY <1>10 DEF Take, Lock, Begin, Check, Request, Arrive, End
  <2>2. ~(cfg.path = "legacy" /\ StockSync)
    BY <1>10, SyncFindsIdle DEF Take, Lock, Begin, Check, Request, Arrive, End
  <2>3. CASE Take
    <3>1. /\ bg.at = "idle" /\ bg'.at = (IF cfg.path = "producer" THEN "lock" ELSE "begin")
          /\ lock' = lock
      BY <2>3, TakeJobs DEF Take
    <3> QED BY <1>0, <2>1, <2>2, <3>1 DEF LockShape, PauseShape
  <2>4. CASE Lock
    <3>1. /\ bg.at = "lock" /\ bg'.at = "begin" /\ lock = "free" /\ lock' = "bg"
      BY <2>4 DEF Lock, TypeOK
    <3> QED BY <1>0, <2>1, <2>2, <3>1 DEF LockShape, PauseShape
  <2>5. CASE Begin \/ Check \/ Request \/ Arrive
    <3>1. /\ bg.at \in {"begin", "check", "request", "sent"} /\ lock' = lock
          /\ bg'.at \in {"check", "request", "sent", "generating"}
          /\ bg'.at = "generating" => ~paused
      BY <2>5 DEF Begin, Check, Request, Arrive, TypeOK
    <3> QED BY <2>1, <2>2, <3>1 DEF LockShape, PauseShape
  <2>6. CASE End
    <3>1. bg.at = "generating" /\ bg'.at = "idle" /\ lock' = IF lock = "bg" THEN "free" ELSE lock
      BY <2>6, EndJobs DEF Idle
    <3> QED BY <2>1, <2>2, <3>1 DEF LockShape, PauseShape
  <2> QED BY <1>10, <2>3, <2>4, <2>5, <2>6
<1> QED BY <1>1, <1>2, <1>3, <1>4, <1>5, <1>6, <1>7, <1>8, <1>9, <1>10 DEF Next

\* With one rollout ahead, a rollout is taken when nothing is in flight.
LEMMA TakenWhenIdle ==
    ASSUME IInv, cfg.depth = 1, Produce
    PROVE  bg.at = "idle"
<1>1. next \in 1..Len(jobs) /\ jobs[next].at \in {"ok", "failed"} /\ main # "failed"
  BY ProduceJobs DEF IInv, Produce
<1>2. jobs # <<>> /\ Len(jobs) \in Nat
  BY <1>1, JobsAreJobs DEF IInv
<1>3. Len(jobs) = next
  BY <1>1, <1>2 DEF IInv, QueueShape
<1> QED BY <1>1, <1>2, <1>3 DEF IInv, QueueShape

LEMMA AdapterStep == IInv /\ [Next]_vars => AdapterShape'
<1> SUFFICES ASSUME IInv, [Next]_vars PROVE AdapterShape'
  OBVIOUS
<1> USE DEF IInv
<1>0. /\ Len(adapters) \in Nat /\ name \in 0..Len(adapters) /\ Len(jobs) \in Nat
      /\ cfg.depth \in Nat \ {0}
  BY LenProperties, JobsAreJobs, SettingFields DEF TypeOK
<1>1. CASE \/ LoadCheckpoint \/ PrepareBuffered \/ SkipSync \/ BeginSync \/ Pause
           \/ UpdateWeights \/ Train \/ Evaluate \/ EvaluateDone \/ UNCHANGED vars
  <2>1. /\ UNCHANGED <<cfg, jobs, adapters, name, loaded, bg>>
        /\ (main' # "failed" => main # "failed")
        /\ (main' \notin {"unload", "produce", "failed"} => main \notin {"unload", "produce", "failed"})
    BY <1>1 DEF vars, syncVars, LoadCheckpoint, PrepareBuffered, SkipSync, BeginSync, Pause,
           UpdateWeights, Train, Evaluate, EvaluateDone
  <2> QED BY <2>1 DEF AdapterShape
<1>2. CASE Lock \/ Begin \/ Check
  <2>1. /\ UNCHANGED <<cfg, jobs, adapters, name, loaded, main>>
        /\ bg'.at \notin {"sent", "generating"}
    BY <1>2 DEF Lock, Begin, Check, syncVars, TypeOK
  <2> QED BY <2>1 DEF AdapterShape
<1>3. CASE UnloadAdapter
  <2>1. /\ UNCHANGED <<cfg, jobs, adapters, name, bg>> /\ main = "unload" /\ main' = "produce"
        /\ loaded' = loaded \/ (loaded' = loaded \ {name - 2} /\ name - 2 > 0)
    BY <1>3 DEF UnloadAdapter, StaleVersion
  <2>2. 0 \in loaded' /\ name \in loaded' /\ (name > 0 => name - 1 \in loaded')
    BY <1>0, <2>1 DEF AdapterShape
  <2> QED BY <2>1, <2>2 DEF AdapterShape
<1>4. CASE PublishAdapter
  <2>1. /\ UNCHANGED <<cfg, jobs, bg>> /\ main = "update" /\ Len(adapters') = Len(adapters) + 1
        /\ name = Len(adapters)
    <3>1. adapters \in Seq(Nat) /\ step \in Nat /\ adapters' = Append(adapters, step)
      BY <1>4 DEF TypeOK, PublishAdapter
    <3> QED BY <1>4, <3>1, AppendProperties DEF PublishAdapter, AdapterShape
  <2>2. \A j \in 1..Len(jobs) : jobs[j].name \in 0..Len(adapters')
    BY <1>0, <2>1 DEF AdapterShape
  <2>3. (cfg.depth = 1 /\ bg.at \in {"sent", "generating"}) => jobs[bg.job].name = name
    BY <2>1 DEF AdapterShape
  <2>4. CASE main' = "failed"
    <3>1. loaded' = loaded /\ name' = name
      BY <1>4, <2>4 DEF PublishAdapter
    <3> QED BY <2>1, <2>2, <2>3, <2>4, <3>1 DEF AdapterShape
  <2>5. CASE main' # "failed"
    <3>1. loaded' = loaded \cup {name + 1} /\ name' = name + 1 /\ main' = "unload"
      BY <1>4, <2>1, <2>5 DEF PublishAdapter, Version
    <3> QED BY <1>0, <2>1, <2>2, <2>3, <3>1 DEF AdapterShape
  <2> QED BY <2>4, <2>5
<1>5. CASE FirstProduce
  <2>1. /\ UNCHANGED <<cfg, adapters, name, loaded, bg>> /\ bg.at = "idle" /\ main # "failed"
        /\ \A i \in 1..Len(jobs') : jobs'[i] = Job(step)
    BY <1>5, FirstProduceJobs DEF FirstProduce
  <2>2. Job(step).name = 0
    BY DEF Job
  <2> QED BY <1>0, <2>1, <2>2 DEF AdapterShape
<1>6. CASE Produce
  <2>1. UNCHANGED <<cfg, adapters, name, loaded, bg>> /\ main = "produce"
    BY <1>6 DEF Produce, syncVars
  <2>2. \A j \in 1..Len(jobs') : jobs'[j].name \in 0..Len(adapters)
    <3>1. Taken.name = 0 /\ Job(step).name = 0
      BY DEF Taken, Job
    <3>2. \A j \in 1..Len(jobs) : jobs[j].name \in 0..Len(adapters)
      BY DEF AdapterShape
    <3>3. CASE jobs[next].at = "ok"
      <4>1. /\ Len(jobs') = Len(jobs) + 1 /\ jobs'[Len(jobs')] = Job(step)
            /\ \A i \in 1..Len(jobs) : jobs'[i] = IF i = next THEN Taken ELSE jobs[i]
        BY <1>6, <3>3, ProduceJobs
      <4> QED BY <1>0, <3>1, <3>2, <4>1
    <3>4. CASE jobs[next].at # "ok"
      <4>1. jobs' = jobs
        BY <1>6, <3>4, ProduceJobs
      <4> QED BY <3>2, <4>1
    <3> QED BY <3>3, <3>4
  <2>3. cfg.depth = 1 => bg.at = "idle"
    BY <1>6, TakenWhenIdle
  <2> QED BY <2>1, <2>2, <2>3 DEF AdapterShape
<1>7. CASE Take
  <2>1. UNCHANGED <<cfg, adapters, name, loaded, main>>
    BY <1>7 DEF Take, syncVars
  <2>2. PICK j \in 1..Len(jobs) :
          /\ OthersKept(j) /\ jobs'[j] = [jobs[j] EXCEPT !.at = "running"]
          /\ bg'.at = IF cfg.path = "producer" THEN "lock" ELSE "begin"
    BY <1>7, TakeJobs
  <2>3. jobs'[j].name = jobs[j].name
    BY <2>2, JobsAreJobs DEF JobType
  <2> QED BY <2>1, <2>2, <2>3 DEF AdapterShape, OthersKept
<1>8. CASE Request
  <2>1. UNCHANGED <<cfg, adapters, name, loaded, main>>
    BY <1>8 DEF Request, syncVars
  <2>2. /\ bg'.job = bg.job /\ bg.job \in 1..Len(jobs) /\ OthersKept(bg.job)
        /\ jobs'[bg.job].name = name
    BY <1>8, RequestJobs, JobsAreJobs DEF TypeOK, JobType
  <2> QED BY <1>0, <2>1, <2>2 DEF AdapterShape, OthersKept
<1>9. CASE Arrive
  <2>1. UNCHANGED <<cfg, adapters, name, loaded, main>>
    BY <1>9 DEF Arrive, syncVars
  <2>2. /\ bg'.job = bg.job /\ bg.job \in 1..Len(jobs) /\ OthersKept(bg.job) /\ bg.at = "sent"
        /\ jobs'[bg.job].name = jobs[bg.job].name
    <3>1. PICK v \in Nat : jobs'[bg.job] = [jobs[bg.job] EXCEPT !.version = v]
      BY <1>9, ArriveJobs
    <3> QED BY <1>9, <3>1, ArriveJobs, JobsAreJobs DEF TypeOK, JobType
  <2> QED BY <2>1, <2>2 DEF AdapterShape, OthersKept
<1>10. CASE End
  <2>1. UNCHANGED <<cfg, adapters, name, loaded, main>>
    BY <1>10 DEF End, syncVars
  <2>2. /\ bg'.at = "idle" /\ bg.job \in 1..Len(jobs) /\ OthersKept(bg.job)
        /\ jobs'[bg.job].name = jobs[bg.job].name
    <3>1. PICK a \in {"ok", "failed"} : jobs'[bg.job] = [jobs[bg.job] EXCEPT !.at = a]
      BY <1>10, EndJobs
    <3>2. jobs'[bg.job].name = jobs[bg.job].name
      BY <1>10, <3>1, EndJobs, JobsAreJobs DEF JobType
    <3> QED BY <1>10, <3>2, EndJobs DEF Idle
  <2> QED BY <2>1, <2>2 DEF AdapterShape, OthersKept
<1> QED BY <1>1, <1>2, <1>3, <1>4, <1>5, <1>6, <1>7, <1>8, <1>9, <1>10 DEF Next

-----------------------------------------------------------------------------
(* How old the weights of a rollout can be.                                *)

\* What a setting is made of.
LEMMA SettingHas ==
    ASSUME NEW c \in Setting
    PROVE  /\ c.path \in {"producer", "legacy"} /\ c.depth \in Nat \ {0}
           /\ c.rollout \in Nat \ {0} /\ c.interval \in Nat \ {0} /\ c.start \in Nat
BY RolloutAssumption DEF SettingType

\* Rollouts are synced at every multiple of the period.
LEMMA PeriodIsCommon ==
    ASSUME NEW c \in Setting
    PROVE  /\ Period(c) \in Nat \ {0}
           /\ Period(c) % c.rollout = 0 /\ Period(c) % c.interval = 0
<1> DEFINE r == c.rollout
           i == c.interval
<1>1. r \in Nat \ {0} /\ i \in Nat \ {0}
  BY SettingHas
<1>2. Common(c) \subseteq Nat \ {0}
  BY <1>1 DEF Common
<1>3. Common(c) # {}
  <2>1. r * i \in Nat \ {0}
    BY <1>1
  <2>2. (r * i) % r = 0 /\ (r * i) % i = 0
    BY <1>1, <2>1, Multiple
  <2>3. r * i \in 1..(r * i)
    BY <2>1
  <2> QED BY <2>2, <2>3 DEF Common
<1>4. \E p \in Common(c) : \A q \in Common(c) : p <= q
  BY <1>2, <1>3, LeastNatural
<1>5. Period(c) \in Common(c)
  BY <1>4 DEF Period
<1> QED BY <1>2, <1>5 DEF Common

\* The last step before s at which the weights had to be synced, and the
\* step at which job j is taken.
SyncDue(c, s) == s - (s % Period(c))
TakenAt(c, j) ==
    c.start + (j - 1) * c.rollout + (IF c.path = "producer" THEN c.rollout ELSE 0)

\* The last sync due is a multiple of the period, less than one period ago.
LEMMA SyncDueIs ==
    ASSUME NEW c \in Setting, NEW s \in Int
    PROVE  /\ SyncDue(c, s) \in Int /\ SyncDue(c, s) % Period(c) = 0
           /\ SyncDue(c, s) <= s /\ s < SyncDue(c, s) + Period(c)
<1> DEFINE p == Period(c)
<1>1. p \in Nat \ {0}
  BY PeriodIsCommon
<1> HIDE DEF p
<1>2. PICK q \in Int : s = p * q + (s % p) /\ s % p \in 0..(p - 1)
  BY <1>1, Divide
<1>3. p * q \in Int /\ (p * q) % p = 0
  BY <1>1, Exact
<1>4. SyncDue(c, s) = p * q
  BY <1>1, <1>2, <1>3 DEF SyncDue, p
<1> QED BY <1>1, <1>2, <1>3, <1>4 DEF p

\* The sync after the one due at the beginning of a rollout is due at the
\* beginning of a later one, at the earliest of the next.
LEMMA SyncDueBounds ==
    ASSUME NEW c \in Setting, NEW s \in Int, s % c.rollout = 0
    PROVE  /\ s + c.rollout <= SyncDue(c, s) + Period(c)
           /\ (SyncDue(c, s) + Period(c)) % Period(c) = 0
<1> DEFINE p == Period(c)
           r == c.rollout
           d == SyncDue(c, s)
<1>1. p \in Nat \ {0} /\ r \in Nat \ {0} /\ p % r = 0
  BY PeriodIsCommon, SettingHas
<1>2. d \in Int /\ d % p = 0 /\ s < d + p
  BY SyncDueIs
<1>3. s % r = 0
  OBVIOUS
<1> HIDE DEF p, r, d
<1>4. d % r = 0
  BY <1>1, <1>2, MultipleOfMultiple
<1>5. p \in Int /\ d + p \in Int
  BY <1>1, <1>2
<1>6. s + r <= d + p
  <2>1. (d + p) % r = 0
    BY <1>1, <1>2, <1>4, <1>5, MultiplesAdd
  <2> QED BY <1>1, <1>2, <1>3, <1>5, <2>1, MultiplesApart
<1>7. p % p = 0
  <2>1. p = p * 1
    BY <1>1
  <2> QED BY <1>1, <2>1, Multiple
<1>8. (d + p) % p = 0
  BY <1>1, <1>2, <1>5, <1>7, MultiplesAdd
<1> QED BY <1>6, <1>8 DEF p, r, d

\* Where no sync is due, the last one is that of the rollout before.
LEMMA SyncDueNext ==
    ASSUME NEW c \in Setting, NEW s \in Int, s % c.rollout = 0, (s + c.rollout) % Period(c) # 0
    PROVE  SyncDue(c, s + c.rollout) = SyncDue(c, s)
<1> DEFINE p == Period(c)
           r == c.rollout
           d == SyncDue(c, s)
           t == s + r - d
<1>1. p \in Nat \ {0} /\ r \in Nat \ {0} /\ (s + r) % p # 0
  BY PeriodIsCommon, SettingHas
<1>2. d \in Int /\ d % p = 0 /\ d <= s /\ s + r <= d + p /\ (d + p) % p = 0
  BY SyncDueIs, SyncDueBounds
<1>3. SyncDue(c, s + r) = (s + r) - ((s + r) % p)
  BY Zenon DEF SyncDue
<1> HIDE DEF p, r, d
<1>4. t \in 0..(p - 1) /\ s + r = d + t
  BY <1>1, <1>2
<1>5. (d + t) % p = t
  BY <1>1, <1>2, <1>4, MultiplePlus
<1> QED BY <1>1, <1>2, <1>3, <1>4, <1>5 DEF r, d

\* The steps at which jobs are taken.
LEMMA TakenAtMoves ==
    ASSUME NEW c \in Setting, NEW j \in Int
    PROVE  /\ TakenAt(c, j) \in Int
           /\ TakenAt(c, j + 1) = TakenAt(c, j) + c.rollout
           /\ \A k \in Int : TakenAt(c, j + k) = TakenAt(c, j) + k * c.rollout
<1> DEFINE r == c.rollout
           e == IF c.path = "producer" THEN r ELSE 0
<1>1. r \in Nat \ {0} /\ e \in Nat /\ c.start \in Nat
  BY SettingHas
<1>2. \A i : TakenAt(c, i) = c.start + (i - 1) * r + e
  BY Zenon DEF TakenAt
<1> HIDE DEF r, e
<1>3. /\ (j - 1) * r \in Int /\ ((j - 1) + 1) * r = (j - 1) * r + r
      /\ (j + 1) - 1 = (j - 1) + 1
  BY <1>1
<1>4. TakenAt(c, j) \in Int /\ TakenAt(c, j + 1) = TakenAt(c, j) + r
  BY <1>1, <1>2, <1>3
<1>5. ASSUME NEW k \in Int PROVE TakenAt(c, j + k) = TakenAt(c, j) + k * r
  <2>1. /\ k * r \in Int /\ ((j - 1) + k) * r = (j - 1) * r + k * r
        /\ (j + k) - 1 = (j - 1) + k
    BY <1>1
  <2> QED BY <1>1, <1>2, <1>3, <2>1
<1> QED BY <1>4, <1>5 DEF r

\* More rollouts ahead take at least as many steps.
LEMMA RolloutsAhead ==
    ASSUME NEW c \in Setting, NEW i \in Int, NEW k \in Int, i <= k
    PROVE  i * c.rollout \in Int /\ k * c.rollout \in Int /\ i * c.rollout <= k * c.rollout
<1> DEFINE r == c.rollout
<1>1. r \in Nat \ {0}
  BY SettingHas
<1> HIDE DEF r
<1>2. ~(k < i)
  OBVIOUS
<1>3. ~(r * k < r * i)
  BY <1>1, <1>2, ProductOrder
<1>4. r * k = k * r /\ r * i = i * r /\ r * k \in Int /\ r * i \in Int
  BY <1>1
<1> QED BY <1>3, <1>4 DEF r

\* Every rollout begins at a multiple of their length, no earlier than the first.
LEMMA TakenAtMultiple ==
    ASSUME NEW c \in Setting, c.start % Period(c) = 0
    PROVE  /\ c.start % c.rollout = 0
           /\ \A j \in Nat \ {0} : TakenAt(c, j) % c.rollout = 0 /\ c.start <= TakenAt(c, j)
<1> DEFINE r == c.rollout
<1>1. r \in Nat \ {0} /\ c.start \in Nat /\ Period(c) \in Nat \ {0} /\ Period(c) % r = 0
  BY PeriodIsCommon, SettingHas
<1> HIDE DEF r
<1>2. c.start % r = 0
  BY <1>1, MultipleOfMultiple
<1>3. ASSUME NEW j \in Nat \ {0}
      PROVE  TakenAt(c, j) % r = 0 /\ c.start <= TakenAt(c, j)
  <2> DEFINE m == r * (j - 1)
             e == IF c.path = "producer" THEN r ELSE 0
  <2>1. m \in Nat /\ (j - 1) * r = m /\ m % r = 0
    BY <1>1, Exact
  <2>2. e \in Nat /\ e % r = 0
    <3>1. r = r * 1 /\ 0 = r * 0
      BY <1>1
    <3> QED BY <1>1, <3>1, Multiple
  <2>3. TakenAt(c, j) = c.start + m + e
    BY <2>1 DEF TakenAt, r
  <2> HIDE DEF m, e
  <2>4. c.start \in Int /\ m \in Int /\ e \in Int /\ c.start + m \in Int
    BY <1>1, <2>1, <2>2
  <2>5. (c.start + m) % r = 0
    BY <1>1, <1>2, <2>1, <2>4, MultiplesAdd
  <2>6. ((c.start + m) + e) % r = 0
    BY <1>1, <2>2, <2>4, <2>5, MultiplesAdd
  <2> QED BY <1>1, <2>1, <2>2, <2>3, <2>6
<1> QED BY <1>2, <1>3 DEF r

\* What the server generates with now, and when the next rollout begins.
InForce == Served(name)
NextRollout == step + left + (IF main = "train" THEN 1 ELSE 0)
Begun == main \notin {"load", "failed"}

\* Rollouts begin where the steps of the one before are done.
ClockShape ==
    /\ main = "load" => step = 0 /\ left = 0 /\ next = 1 /\ (jobs # <<>> => cfg.path = "legacy")
    /\ Begun => NextRollout = IF jobs = <<>> THEN cfg.start ELSE TakenAt(cfg, next)
    /\ (main \in {"unload", "produce"} \/ (main \in {"sync", "update"} /\ for = "rollout")) =>
          left = 0

\* Weights are never of a step to come, and those of the last sync or newer.
WeightShape ==
    /\ server <= step /\ \A i \in 1..Len(adapters) : adapters[i] <= step
    /\ lastSynced <= InForce
    /\ main = "unload" => cfg.sync = "lora" /\ InForce = step
    /\ (main \in {"sync", "update"} /\ for = "eval") => cfg.sync # "lora"

\* The weights in force are those of some step.
LEMMA InForceIsStep == (TypeOK => InForce \in Nat) /\ (TypeOK => InForce \in Nat)'
<1>1. TypeOK => InForce \in Nat
  BY ServedIsStep DEF InForce, TypeOK
<1> QED BY <1>1, PTL

\* No adapter the server can be asked for has weights of a step to come.
LEMMA WeightsAreOld ==
    ASSUME TypeOK, WeightShape, NEW n \in 0..Len(adapters)
    PROVE  Served(n) \in Nat /\ Served(n) <= step
<1>1. step \in Nat /\ Len(adapters) \in Nat
  BY LenProperties DEF TypeOK
<1> QED BY <1>1, ServedIsStep DEF WeightShape, Served

\* A step leaves what the server has for each adapter, or makes it newer.
LEMMA WeightsGrow ==
    ASSUME IInv, ClockShape, WeightShape, [Next]_vars
    PROVE  /\ cfg' = cfg /\ step <= step' /\ Len(adapters) <= Len(adapters')
           /\ server' <= step' /\ \A i \in 1..Len(adapters') : adapters'[i] <= step'
           /\ \A n \in 0..Len(adapters) : Served(n) <= Served(n)'
           /\ InForce <= InForce'
<1>0. /\ TypeOK /\ TypeOK' /\ step \in Nat /\ step' \in Nat /\ server \in Nat /\ Len(adapters) \in Nat
      /\ name \in 0..Len(adapters) /\ adapters \in Seq(Nat) /\ cfg.start \in Nat
      /\ \A i \in 1..Len(adapters) : adapters[i] \in Nat
  BY TypeStep, LenProperties, ElementOfSeq, SettingFields DEF IInv, TypeOK
<1>1. cfg' = cfg
  BY DEF Next, vars, LoadCheckpoint, PrepareBuffered, SkipSync, BeginSync, Pause,
         UpdateWeights, PublishAdapter, UnloadAdapter, FirstProduce, Produce, Train,
         Evaluate, EvaluateDone, Take, Lock, Begin, Check, Request, Arrive, End
<1>2. step <= step'
  <2>1. CASE LoadCheckpoint
    BY <1>0, <2>1 DEF LoadCheckpoint, ClockShape
  <2>2. CASE Train
    BY <1>0, <2>2 DEF Train
  <2>3. CASE ~LoadCheckpoint /\ ~Train
    <3>1. step' = step
      BY <2>3 DEF Next, vars, PrepareBuffered, SkipSync, BeginSync, Pause,
         UpdateWeights, PublishAdapter, UnloadAdapter, FirstProduce, Produce,
         Evaluate, EvaluateDone, Take, Lock, Begin, Check, Request, Arrive, End
    <3> QED BY <1>0, <3>1
  <2> QED BY <2>1, <2>2, <2>3
<1>3. CASE PublishAdapter
  <2>1. /\ cfg.sync = "lora" /\ adapters' = Append(adapters, step) /\ step' = step
        /\ server' = server /\ (name' = name \/ name' = Len(adapters) + 1)
    BY <1>3 DEF PublishAdapter, Version
  <2>2. /\ Len(adapters') = Len(adapters) + 1 /\ adapters'[Len(adapters) + 1] = step
        /\ \A i \in 1..Len(adapters) : adapters'[i] = adapters[i]
    BY <1>0, <2>1, AppendProperties
  <2>3. \A i \in 1..Len(adapters') : adapters'[i] <= step'
    BY <1>0, <2>1, <2>2 DEF WeightShape
  <2>4. \A n \in 0..Len(adapters) : Served(n) = Served(n)'
    BY <1>0, <1>1, <2>1, <2>2 DEF Served
  <2>5. InForce <= InForce'
    <3>1. CASE name' = name
      <4>1. InForce' = InForce
        BY <1>0, <1>1, <2>1, <2>2, <3>1 DEF InForce, Served
      <4> QED BY <1>0, <4>1, ServedIsStep DEF InForce
    <3>2. CASE name' = Len(adapters) + 1
      <4>1. InForce' = step
        BY <1>0, <1>1, <2>1, <2>2, <3>2 DEF InForce, Served
      <4> QED BY <1>0, <4>1, WeightsAreOld DEF InForce
    <3> QED BY <2>1, <3>1, <3>2
  <2> QED BY <1>0, <1>1, <2>1, <2>2, <2>3, <2>4, <2>5, ServedIsStep DEF WeightShape
<1>4. CASE ~PublishAdapter
  <2>1. /\ adapters' = adapters /\ name' = name
        /\ \/ server' = server
           \/ server' = step /\ cfg.sync # "lora"
    BY <1>4 DEF Next, vars, syncVars, LoadCheckpoint, PrepareBuffered, SkipSync, BeginSync, Pause,
         UpdateWeights, UnloadAdapter, FirstProduce, Produce, Train,
         Evaluate, EvaluateDone, Take, Lock, Begin, Check, Request, Arrive, End
  <2>2. \A i \in 1..Len(adapters') : adapters'[i] <= step'
    BY <1>0, <1>2, <2>1 DEF WeightShape
  <2>3. server' <= step' /\ server <= server'
    BY <1>0, <1>2, <2>1 DEF WeightShape
  <2>4. ASSUME NEW n \in 0..Len(adapters) PROVE Served(n) <= Served(n)'
    <3>1. CASE cfg.sync = "lora"
      <4>1. Served(n)' = Served(n)
        BY <1>1, <2>1, <3>1 DEF Served
      <4> QED BY <1>0, <4>1, ServedIsStep
    <3>2. CASE cfg.sync # "lora"
      BY <1>1, <2>3, <3>2 DEF Served
    <3> QED BY <3>1, <3>2
  <2>5. InForce <= InForce'
    <3>1. CASE cfg.sync = "lora"
      <4>1. InForce' = InForce
        BY <1>1, <2>1, <3>1 DEF InForce, Served
      <4> QED BY <1>0, <4>1, ServedIsStep DEF InForce
    <3>2. CASE cfg.sync # "lora"
      BY <1>1, <2>3, <3>2 DEF InForce, Served
    <3> QED BY <3>1, <3>2
  <2> QED BY <1>0, <1>1, <1>2, <2>1, <2>2, <2>3, <2>4, <2>5
<1> QED BY <1>3, <1>4

\* Weights of the last sync or newer stay in force.
LEMMA WeightStep ==
    ASSUME IInv, ClockShape, WeightShape, [Next]_vars
    PROVE  WeightShape'
<1>0. /\ TypeOK /\ TypeOK' /\ step \in Nat /\ lastSynced \in Nat \cup {-1}
      /\ name \in 0..Len(adapters) /\ name' \in 0..Len(adapters') /\ cfg' = cfg
      /\ adapters \in Seq(Nat)
  BY TypeStep, WeightsGrow DEF IInv, TypeOK
<1>1. InForce \in Nat /\ InForce' \in Nat /\ InForce <= InForce' /\ InForce <= step
  <2>1. \A n \in 0..Len(adapters) : Served(n) \in Nat /\ Served(n) <= step
    BY <1>0, WeightsAreOld
  <2>2. TypeOK' => InForce' \in Nat
    BY InForceIsStep
  <2> QED BY <1>0, <2>1, <2>2, WeightsGrow DEF InForce
<1>2. lastSynced' <= InForce'
  <2>1. CASE UpdateWeights
    <3>1. cfg.sync # "lora" /\ server' = step /\ lastSynced' \in {step, lastSynced}
      BY <2>1 DEF UpdateWeights
    <3>2. InForce' = step
      BY <1>0, <3>1 DEF InForce, Served
    <3> QED BY <1>0, <1>1, <3>1, <3>2 DEF WeightShape
  <2>2. CASE UnloadAdapter
    <3>1. lastSynced' = step /\ InForce = step
      BY <2>2 DEF UnloadAdapter, WeightShape
    <3> QED BY <1>1, <3>1
  <2>3. CASE SkipSync
    <3>1. lastSynced' = lastSynced \/ lastSynced' = 0
      BY <2>3 DEF SkipSync
    <3> QED BY <1>0, <1>1, <3>1 DEF WeightShape
  <2>4. CASE ~UpdateWeights /\ ~UnloadAdapter /\ ~SkipSync
    <3>1. lastSynced' = lastSynced
      BY <2>4 DEF Next, vars, syncVars, LoadCheckpoint, PrepareBuffered, BeginSync, Pause,
         PublishAdapter, FirstProduce, Produce, Train,
         Evaluate, EvaluateDone, Take, Lock, Begin, Check, Request, Arrive, End
    <3> QED BY <1>0, <1>1, <3>1 DEF WeightShape
  <2> QED BY <2>1, <2>2, <2>3, <2>4
<1>3. main' = "unload" => cfg'.sync = "lora" /\ InForce' = step'
  <2>1. CASE PublishAdapter
    <3>1. ASSUME main' = "unload" PROVE InForce' = step' /\ cfg.sync = "lora"
      <4>1. /\ cfg.sync = "lora" /\ adapters' = Append(adapters, step) /\ step' = step
            /\ name' = Len(adapters) + 1
        BY <2>1, <3>1 DEF PublishAdapter, Version
      <4>2. adapters'[Len(adapters) + 1] = step /\ Len(adapters) \in Nat
        BY <1>0, <4>1, AppendProperties, LenProperties
      <4> QED BY <1>0, <4>1, <4>2 DEF InForce, Served
    <3> QED BY <1>0, <3>1
  <2>2. CASE ~PublishAdapter
    <3>1. ASSUME main' = "unload" PROVE main = "unload" /\ step' = step
      BY <2>2, <3>1 DEF Next, vars, LoadCheckpoint, PrepareBuffered, SkipSync, BeginSync, Pause,
         UpdateWeights, UnloadAdapter, FirstProduce, Produce, Train,
         Evaluate, EvaluateDone, Take, Lock, Begin, Check, Request, Arrive, End
    <3>2. ASSUME main = "unload" PROVE InForce' = InForce \/ ~(main' = "unload")
      <4>1. UNCHANGED <<adapters, name>> /\ (cfg.sync = "lora" => server' = server)
        BY <2>2 DEF Next, vars, syncVars, LoadCheckpoint, PrepareBuffered, SkipSync, BeginSync, Pause,
         UpdateWeights, UnloadAdapter, FirstProduce, Produce, Train,
         Evaluate, EvaluateDone, Take, Lock, Begin, Check, Request, Arrive, End
      <4> QED BY <1>0, <3>2, <4>1 DEF WeightShape, InForce, Served
    <3> QED BY <1>0, <3>1, <3>2 DEF WeightShape
  <2> QED BY <2>1, <2>2
<1>4. (main' \in {"sync", "update"} /\ for' = "eval") => cfg'.sync # "lora"
  BY <1>0 DEF WeightShape, Next, vars, LoadCheckpoint, PrepareBuffered, SkipSync, BeginSync, Pause,
         UpdateWeights, PublishAdapter, UnloadAdapter, FirstProduce, Produce, Train,
         Evaluate, EvaluateDone, Take, Lock, Begin, Check, Request, Arrive, End
<1> QED BY <1>2, <1>3, <1>4, WeightsGrow DEF WeightShape

\* The executor thread and the server never change what the main thread counts.
LEMMA BackgroundKeeps ==
    ASSUME IInv, Take \/ Lock \/ Begin \/ Check \/ Request \/ Arrive \/ End
    PROVE  /\ UNCHANGED <<cfg, step, main, for, left, next, name, adapters>>
           /\ Len(jobs') = Len(jobs) /\ (jobs' = <<>> <=> jobs = <<>>)
<1>0. /\ jobs \in Seq(JobType) /\ (jobs = <<>> <=> Len(jobs) = 0) /\ Len(jobs) \in Nat
      /\ TypeOK /\ QueueShape /\ AdapterShape
  BY JobsAreJobs DEF IInv
<1>1. UNCHANGED <<cfg, step, main, for, left, next, name, adapters>>
  BY DEF Take, Lock, Begin, Check, Request, Arrive, End, syncVars
<1>2. CASE Lock \/ Begin \/ Check
  <2>1. jobs' = jobs
    BY <1>2 DEF Lock, Begin, Check
  <2> QED BY <1>1, <2>1
<1>3. CASE Take \/ Request \/ Arrive \/ End
  <2>1. jobs' \in Seq(JobType) /\ Len(jobs') = Len(jobs)
    BY <1>0, <1>3, TakeJobs, RequestJobs, ArriveJobs, EndJobs DEF OthersKept
  <2>2. jobs' = <<>> <=> Len(jobs') = 0
    BY <2>1, EmptySeq
  <2> QED BY <1>0, <1>1, <2>1, <2>2
<1> QED BY <1>2, <1>3

\* Every rollout is trained on for its steps before the next one is taken.
LEMMA ClockStep ==
    ASSUME IInv, ClockShape, WeightShape, [Next]_vars
    PROVE  ClockShape'
<1>0. /\ TypeOK /\ cfg \in Setting /\ cfg.start \in Nat /\ cfg.rollout \in Nat \ {0}
      /\ cfg.path \in {"producer", "legacy"} /\ step \in Nat /\ left \in Nat /\ next \in Nat
  BY SettingFields, JobsAreJobs DEF IInv, TypeOK
<1>1. /\ TakenAt(cfg, next) \in Int /\ TakenAt(cfg, next + 1) = TakenAt(cfg, next) + cfg.rollout
  <2>1. next \in Int
    BY <1>0
  <2> QED BY <1>0, <2>1, TakenAtMoves
<1>2. CASE UNCHANGED vars
  BY <1>2 DEF vars, ClockShape, Begun, NextRollout
<1>3. CASE LoadCheckpoint
  <2>1. /\ main = "load" /\ step' = cfg.start /\ main' = "prepare"
        /\ UNCHANGED <<cfg, left, jobs, next>>
    BY <1>3 DEF LoadCheckpoint
  <2>2. left = 0 /\ next = 1 /\ (jobs # <<>> => cfg.path = "legacy")
    BY <2>1 DEF ClockShape
  <2>3. cfg.path = "legacy" => TakenAt(cfg, 1) = cfg.start
    BY <1>0 DEF TakenAt
  <2> QED BY <1>0, <2>1, <2>2, <2>3 DEF ClockShape, Begun, NextRollout
<1>4. CASE PrepareBuffered
  <2>1. /\ main = "prepare" /\ left > 0 /\ left' = left - 1 /\ main' = "train"
        /\ UNCHANGED <<cfg, step, jobs, next>>
    BY <1>4 DEF PrepareBuffered
  <2>2. NextRollout' = NextRollout
    BY <1>0, <2>1 DEF NextRollout
  <2> QED BY <2>1, <2>2 DEF ClockShape, Begun
<1>5. CASE \/ SkipSync \/ BeginSync \/ Pause \/ UpdateWeights \/ PublishAdapter
           \/ UnloadAdapter \/ Evaluate \/ EvaluateDone
  <2>1. /\ UNCHANGED <<cfg, step, left, jobs, next>>
        /\ main \notin {"load", "failed", "train"} /\ main' \notin {"load", "train"}
    BY <1>5 DEF SkipSync, BeginSync, Pause, UpdateWeights, PublishAdapter, UnloadAdapter,
                Evaluate, EvaluateDone
  <2>2. (main' \in {"unload", "produce"} \/ (main' \in {"sync", "update"} /\ for' = "rollout"))
           => left = 0
    <3>1. CASE SkipSync \/ BeginSync
      BY <3>1 DEF SkipSync, BeginSync
    <3>2. CASE UpdateWeights
      BY <3>2 DEF UpdateWeights, ClockShape
    <3>3. CASE PublishAdapter \/ UnloadAdapter
      <4>1. main = "unload" => left = 0
        BY DEF ClockShape
      <4>2. CASE UnloadAdapter
        BY <4>1, <4>2 DEF UnloadAdapter
      <4>3. CASE PublishAdapter
        <5>1. main = "update" /\ for' = for /\ main' \in {"unload", "failed"} /\ cfg.sync = "lora"
          BY <4>3 DEF PublishAdapter
        <5>2. for = "rollout"
          BY <1>0, <5>1 DEF WeightShape, TypeOK
        <5> QED BY <5>1, <5>2 DEF ClockShape
      <4> QED BY <3>3, <4>2, <4>3
    <3>4. CASE Pause
      BY <3>4 DEF Pause, ClockShape
    <3>5. CASE Evaluate \/ EvaluateDone
      BY <3>5 DEF Evaluate, EvaluateDone
    <3> QED BY <1>5, <3>1, <3>2, <3>3, <3>4, <3>5
  <2>3. NextRollout' = NextRollout
    BY <2>1 DEF NextRollout
  <2> QED BY <2>1, <2>2, <2>3 DEF ClockShape, Begun
<1>6. CASE FirstProduce
  <2>1. /\ main = "produce" /\ main' = "train" /\ cfg.path = "producer" /\ jobs = <<>>
        /\ UNCHANGED <<cfg, step>> /\ left' = cfg.rollout - 1
    BY <1>6 DEF FirstProduce
  <2>2. jobs' # <<>> /\ next' = 1
    BY <1>6, FirstProduceJobs DEF IInv
  <2>3. step = cfg.start
    BY <1>0, <2>1 DEF ClockShape, Begun, NextRollout
  <2>4. TakenAt(cfg, 1) = cfg.start + cfg.rollout
    BY <1>0, <2>1 DEF TakenAt
  <2>5. NextRollout' = cfg.start + cfg.rollout
    BY <1>0, <2>1, <2>3 DEF NextRollout
  <2> QED BY <2>1, <2>2, <2>4, <2>5 DEF ClockShape
<1>7. CASE Produce
  <2>1. main = "produce" /\ UNCHANGED <<cfg, step>> /\ jobs # <<>> /\ next' = next + 1
    BY <1>7 DEF Produce
  <2>2. CASE main' = "failed"
    BY <2>2 DEF ClockShape, Begun
  <2>3. CASE main' = "train"
    <3>1. left' = cfg.rollout - 1 /\ jobs' # <<>>
      BY <1>7, <2>3, ProduceJobs DEF IInv
    <3>2. step = TakenAt(cfg, next)
      BY <1>0, <2>1 DEF ClockShape, Begun, NextRollout
    <3>3. NextRollout' = step + cfg.rollout
      BY <1>0, <2>1, <2>3, <3>1 DEF NextRollout
    <3> QED BY <1>1, <2>1, <2>3, <3>1, <3>2, <3>3 DEF ClockShape
  <2> QED BY <1>7, <2>2, <2>3, ProduceJobs DEF IInv
<1>8. CASE Train
  <2>1. /\ main = "train" /\ main' \in {"done", "prepare", "eval"} /\ step' = step + 1
        /\ UNCHANGED <<cfg, left, jobs, next>>
    BY <1>8 DEF Train
  <2>2. NextRollout' = NextRollout
    BY <1>0, <2>1 DEF NextRollout
  <2> QED BY <2>1, <2>2 DEF ClockShape, Begun
<1>9. CASE Take \/ Lock \/ Begin \/ Check \/ Request \/ Arrive \/ End
  <2>1. /\ UNCHANGED <<cfg, step, main, for, left, next>> /\ (jobs' = <<>> <=> jobs = <<>>)
    BY <1>9, BackgroundKeeps
  <2> QED BY <2>1 DEF ClockShape, Begun, NextRollout
<1> QED BY <1>2, <1>3, <1>4, <1>5, <1>6, <1>7, <1>8, <1>9 DEF Next

\* The weights a job was or will be generated with, if nothing is synced.
VersionOf(j) ==
    IF jobs[j].at = "ok" \/ (bg.job = j /\ bg.at = "generating") THEN jobs[j].version
    ELSE IF bg.job = j /\ bg.at = "sent" THEN Served(jobs[j].name) ELSE InForce

JobFresh(j) ==
    (jobs[j].submitted >= cfg.start /\ jobs[j].at \notin {"taken", "failed"}) =>
        /\ jobs[j].submitted % cfg.rollout = 0
        /\ TakenAt(cfg, j) - cfg.depth * cfg.rollout <= jobs[j].submitted
        /\ SyncDue(cfg, jobs[j].submitted) <= VersionOf(j)

\* Where the last rollout began and where the next begins, the weights in force
\* are those of the last sync due; a job has at least those of the last sync due
\* when it was submitted, depth rollouts before it is taken.
OnSchedule == cfg.start % Period(cfg) = 0
MainFresh ==
    /\ (Begun /\ NextRollout > cfg.start) => SyncDue(cfg, NextRollout - cfg.rollout) <= InForce
    /\ main = "produce" => SyncDue(cfg, step) <= InForce
FreshShape == OnSchedule => MainFresh /\ \A j \in 1..Len(jobs) : JobFresh(j)

SInv == ClockShape /\ WeightShape /\ FreshShape

\* What every step of the proof needs to know of the numbers.
LEMMA ClockNumbers ==
    ASSUME IInv, ClockShape
    PROVE  /\ cfg \in Setting /\ cfg.start \in Nat /\ cfg.rollout \in Nat \ {0}
           /\ cfg.interval \in Nat \ {0} /\ cfg.depth \in Nat \ {0}
           /\ step \in Nat /\ left \in Nat /\ next \in Nat \ {0} /\ NextRollout \in Nat
           /\ (OnSchedule /\ Begun) => NextRollout % cfg.rollout = 0 /\ cfg.start <= NextRollout
<1>1. /\ cfg \in Setting /\ step \in Nat /\ left \in Nat /\ next \in Nat \ {0} /\ NextRollout \in Nat
  BY JobsAreJobs DEF IInv, TypeOK, NextRollout
<1>2. ASSUME OnSchedule, Begun PROVE NextRollout % cfg.rollout = 0 /\ cfg.start <= NextRollout
  <2>1. /\ cfg.start % cfg.rollout = 0
        /\ TakenAt(cfg, next) % cfg.rollout = 0 /\ cfg.start <= TakenAt(cfg, next)
    BY <1>1, <1>2, TakenAtMultiple DEF OnSchedule
  <2>2. NextRollout = cfg.start \/ NextRollout = TakenAt(cfg, next)
    BY <1>2 DEF ClockShape
  <2>3. cfg.start <= cfg.start
    BY <1>1, SettingHas
  <2> QED BY <2>1, <2>2, <2>3
<1> QED BY <1>1, <1>2, SettingHas

\* A rollout begins with the weights of the last sync due: it is done where it
\* is due, and the rollout before began with them where it is not.
LEMMA SkippedSyncFresh ==
    ASSUME IInv, ClockShape, WeightShape, OnSchedule, MainFresh, SkipSync
    PROVE  SyncDue(cfg, step) <= InForce
<1> DEFINE r == cfg.rollout
<1>0. /\ cfg \in Setting /\ cfg.start \in Nat /\ r \in Nat \ {0} /\ cfg.interval \in Nat \ {0}
      /\ step \in Nat /\ InForce \in Nat
  BY ClockNumbers, InForceIsStep DEF IInv
<1>1. /\ main = "prepare" /\ left = 0 /\ Begun /\ NextRollout = step
  BY <1>0 DEF SkipSync, Begun, NextRollout
<1>2. step % r = 0 /\ cfg.start <= step
  BY <1>1, ClockNumbers
<1>3. SyncDue(cfg, step) <= step /\ SyncDue(cfg, step) \in Int
  BY <1>0, SyncDueIs
<1>4. CASE step = 0
  BY <1>0, <1>3, <1>4
<1>5. CASE step = lastSynced
  BY <1>0, <1>3, <1>5 DEF WeightShape
<1>6. CASE step # 0 /\ step # lastSynced
  <2>1. step % cfg.interval # 0
    BY <1>6 DEF SkipSync, Due
  <2>2. step % Period(cfg) # 0
    <3>1. Period(cfg) \in Nat \ {0} /\ Period(cfg) % cfg.interval = 0
      BY <1>0, PeriodIsCommon
    <3> QED BY <1>0, <2>1, <3>1, MultipleOfMultiple
  <2>3. step > cfg.start
    BY <1>0, <1>2, <2>2 DEF OnSchedule
  <2>4. SyncDue(cfg, step - r) <= InForce
    BY <1>1, <2>3 DEF MainFresh
  <2>5. SyncDue(cfg, step) = SyncDue(cfg, step - r)
    <3>1. step - r \in Int /\ step = (step - r) + r /\ -r \in Int /\ step \in Int
      BY <1>0
    <3>2. (step - r) % r = 0
      <4>1. -r = r * (-1)
        BY <1>0
      <4>2. (-r) % r = 0
        <5>1. -1 \in Int
          OBVIOUS
        <5>2. (r * (-1)) % r = 0
          BY <1>0, <5>1, Exact
        <5> QED BY <4>1, <5>2
      <4>3. (step + (-r)) % r = 0
        BY <1>0, <1>2, <3>1, <4>2, MultiplesAdd
      <4>4. step + (-r) = step - r
        BY <1>0
      <4> QED BY <4>3, <4>4
    <3>3. ((step - r) + r) % Period(cfg) # 0
      BY <2>2, <3>1
    <3>4. SyncDue(cfg, (step - r) + r) = SyncDue(cfg, step - r)
      BY <1>0, <3>1, <3>2, <3>3, SyncDueNext
    <3> QED BY <3>1, <3>4
  <2> QED BY <2>4, <2>5
<1> QED BY <1>4, <1>5, <1>6

\* Weights in force where a rollout begins are those of the last sync due.
LEMMA MainFreshStep ==
    ASSUME IInv, SInv, OnSchedule, [Next]_vars
    PROVE  MainFresh'
<1>0. /\ cfg \in Setting /\ cfg.start \in Nat /\ cfg.rollout \in Nat \ {0} /\ step \in Nat
      /\ left \in Nat /\ NextRollout \in Nat /\ InForce \in Nat /\ InForce' \in Nat
      /\ InForce <= InForce' /\ cfg' = cfg /\ ClockShape /\ WeightShape /\ MainFresh
  BY ClockNumbers, InForceIsStep, TypeStep, WeightsGrow DEF IInv, SInv, FreshShape
<1>1. \A s \in Int : SyncDue(cfg, s) \in Int /\ SyncDue(cfg, s) <= s
  BY <1>0, SyncDueIs
<1>2. ASSUME NEW s \in Int, SyncDue(cfg, s) <= InForce PROVE SyncDue(cfg', s) <= InForce'
  BY <1>0, <1>1, <1>2
<1>3. NextRollout - cfg.rollout \in Int /\ step \in Int
  BY <1>0
<1>4. ASSUME NextRollout' = NextRollout, Begun' => Begun
      PROVE  (Begun' /\ NextRollout' > cfg'.start) =>
                 SyncDue(cfg', NextRollout' - cfg'.rollout) <= InForce'
  BY <1>0, <1>2, <1>3, <1>4 DEF MainFresh
<1>5. ASSUME step' = step, main' = "produce" => main = "produce"
      PROVE  main' = "produce" => SyncDue(cfg', step') <= InForce'
  BY <1>0, <1>2, <1>3, <1>5 DEF MainFresh
<1>6. CASE LoadCheckpoint
  <2>1. step' = cfg.start /\ main' = "prepare" /\ left' = 0
    BY <1>6 DEF LoadCheckpoint, SInv, ClockShape
  <2>2. NextRollout' = cfg'.start
    BY <1>0, <2>1 DEF NextRollout
  <2> QED BY <1>0, <2>1, <2>2 DEF MainFresh
<1>7. CASE FirstProduce \/ Produce
  <2>1. step' = step /\ main = "produce" /\ main' \in {"train", "failed"}
    BY <1>7 DEF FirstProduce, Produce
  <2>2. SyncDue(cfg', step) <= InForce'
    BY <1>0, <1>2, <1>3, <2>1 DEF MainFresh
  <2>3. ASSUME main' = "train" PROVE NextRollout' - cfg'.rollout = step
    <3>1. left' = cfg.rollout - 1
      BY <1>7, <2>1, <2>3, ProduceJobs DEF FirstProduce, IInv
    <3> QED BY <1>0, <2>1, <2>3, <3>1 DEF NextRollout
  <2> QED BY <2>1, <2>2, <2>3 DEF MainFresh, Begun
<1>8. CASE Train \/ PrepareBuffered
  <2>1. NextRollout' = NextRollout /\ Begun /\ main' # "produce"
    BY <1>0, <1>8 DEF Train, PrepareBuffered, NextRollout, Begun
  <2> QED BY <1>4, <2>1 DEF MainFresh
<1>9. CASE SkipSync \/ UpdateWeights \/ UnloadAdapter
  <2>1. /\ UNCHANGED <<step, left>> /\ main \notin {"train", "load", "failed"} /\ main' # "train"
    BY <1>9 DEF SkipSync, UpdateWeights, UnloadAdapter
  <2>2. NextRollout' = NextRollout /\ (Begun' => Begun)
    BY <2>1 DEF NextRollout, Begun
  <2>3. SyncDue(cfg', step') <= InForce' \/ main' # "produce"
    <3>1. CASE SkipSync
      BY <1>0, <1>2, <1>3, <2>1, <3>1, SkippedSyncFresh
    <3>2. CASE UpdateWeights
      <4>1. cfg.sync # "lora" /\ server' = step
        BY <3>2 DEF UpdateWeights
      <4>2. InForce' = step
        BY <1>0, <4>1 DEF InForce, Served
      <4> QED BY <1>0, <1>1, <1>3, <2>1, <4>2
    <3>3. CASE UnloadAdapter
      <4>1. InForce = step
        BY <3>3 DEF UnloadAdapter, SInv, WeightShape
      <4> QED BY <1>0, <1>1, <1>2, <1>3, <2>1, <4>1
    <3> QED BY <1>9, <3>1, <3>2, <3>3
  <2> QED BY <1>4, <2>2, <2>3 DEF MainFresh
<1>10. CASE BeginSync \/ Pause \/ PublishAdapter \/ Evaluate \/ EvaluateDone \/ UNCHANGED vars
  <2>1. /\ UNCHANGED <<step, left>>
        /\ \/ main' = main
           \/ main \notin {"train", "load", "failed"} /\ main' \notin {"train", "produce"}
    BY <1>10 DEF BeginSync, Pause, PublishAdapter, Evaluate, EvaluateDone, vars
  <2>2. NextRollout' = NextRollout /\ (Begun' => Begun) /\ (main' = "produce" => main = "produce")
    BY <2>1 DEF NextRollout, Begun
  <2> QED BY <1>4, <1>5, <2>1, <2>2 DEF MainFresh
<1>11. CASE Take \/ Lock \/ Begin \/ Check \/ Request \/ Arrive \/ End
  <2>1. UNCHANGED <<step, left, main>>
    BY <1>11, BackgroundKeeps
  <2>2. NextRollout' = NextRollout /\ (Begun' => Begun)
    BY <2>1 DEF NextRollout, Begun
  <2> QED BY <1>4, <1>5, <2>1, <2>2 DEF MainFresh
<1> QED BY <1>6, <1>7, <1>8, <1>9, <1>10, <1>11 DEF Next

VersionsAreSteps == \A j \in 1..Len(jobs) : VersionOf(j) \in Nat

\* The weights of a job are those of some step.
LEMMA VersionTypes ==
    /\ TypeOK /\ AdapterShape => VersionsAreSteps
    /\ TypeOK' /\ AdapterShape' => VersionsAreSteps'
<1>1. ASSUME TypeOK, AdapterShape, NEW j \in 1..Len(jobs) PROVE VersionOf(j) \in Nat
  <2>1. jobs[j] \in JobType /\ jobs[j].name \in 0..Len(adapters)
    BY <1>1, JobsAreJobs DEF AdapterShape
  <2>2. Served(jobs[j].name) \in Nat /\ InForce \in Nat /\ jobs[j].version \in Nat
    BY <1>1, <2>1, ServedIsStep, InForceIsStep DEF JobType
  <2> QED BY <2>2 DEF VersionOf
<1>2. TypeOK /\ AdapterShape => VersionsAreSteps
  BY <1>1 DEF VersionsAreSteps
<1> QED BY <1>2, PTL

\* A job that is not taken, and whose weights are the same or newer, stays fresh.
LEMMA JobStaysFresh ==
    ASSUME IInv, SInv, OnSchedule, [Next]_vars, NEW j \in 1..Len(jobs), j \in 1..Len(jobs'),
           jobs'[j].submitted = jobs[j].submitted,
           jobs'[j].at \notin {"taken", "failed"} =>
               jobs[j].at \notin {"taken", "failed"} /\ VersionOf(j) <= VersionOf(j)'
    PROVE  JobFresh(j)'
<1>1. /\ cfg \in Setting /\ cfg' = cfg /\ jobs[j].submitted \in Int /\ JobFresh(j)
  BY ClockNumbers, WeightsGrow, JobsAreJobs DEF IInv, SInv, FreshShape, JobType
<1>2. VersionOf(j) \in Nat /\ VersionOf(j)' \in Nat
  BY VersionTypes, TypeStep, AdapterStep DEF IInv, VersionsAreSteps
<1>3. SyncDue(cfg, jobs[j].submitted) \in Int
  BY <1>1, SyncDueIs
<1> HIDE DEF IInv, SInv
<1> QED BY <1>1, <1>2, <1>3 DEF JobFresh

\* The executor thread changes the job it runs, and nobody else's weights.
LEMMA BackgroundFresh ==
    ASSUME IInv, SInv, OnSchedule, [Next]_vars,
           Take \/ Lock \/ Begin \/ Check \/ Request \/ Arrive \/ End
    PROVE  \A j \in 1..Len(jobs') : JobFresh(j)'
<1> SUFFICES ASSUME NEW j \in 1..Len(jobs) PROVE JobFresh(j)'
  BY BackgroundKeeps
<1>0. /\ TypeOK /\ QueueShape /\ AdapterShape /\ InForce \in Nat /\ InForce' \in Nat
      /\ cfg' = cfg /\ name' = name
      /\ InForce <= InForce' /\ \A n \in 0..Len(adapters) : Served(n) <= Served(n)'
      /\ j \in 1..Len(jobs') /\ jobs[j] \in JobType /\ jobs[j].name \in 0..Len(adapters)
      /\ VersionOf(j) \in Nat
  BY InForceIsStep, TypeStep, WeightsGrow, BackgroundKeeps, JobsAreJobs, VersionTypes
     DEF IInv, SInv, AdapterShape, VersionsAreSteps
<1>1. ASSUME jobs'[j] = jobs[j],
             bg'.job = j /\ bg'.at = "generating" <=> bg.job = j /\ bg.at = "generating",
             bg'.job = j /\ bg'.at = "sent" <=> bg.job = j /\ bg.at = "sent"
      PROVE  JobFresh(j)'
  <2>0. PICK n \in 0..Len(adapters) : n = jobs[j].name
    BY <1>0
  <2>1. \/ VersionOf(j) = jobs[j].version /\ VersionOf(j)' = jobs[j].version
        \/ VersionOf(j) = Served(n) /\ VersionOf(j)' = Served(n)'
        \/ VersionOf(j) = InForce /\ VersionOf(j)' = InForce'
    BY <1>1, <2>0 DEF VersionOf, Served
  <2>2. VersionOf(j) <= VersionOf(j)'
    BY <1>0, <2>1
  <2> QED BY <1>0, <1>1, <2>2, JobStaysFresh
<1>2. CASE Take
  <2>1. PICK i \in 1..Len(jobs) :
          /\ jobs[i].at = "queued" /\ bg'.job = i /\ OthersKept(i)
          /\ jobs'[i] = [jobs[i] EXCEPT !.at = "running"]
          /\ bg'.at = IF cfg.path = "producer" THEN "lock" ELSE "begin"
    BY <1>0, <1>2, TakeJobs
  <2>2. bg.at = "idle" /\ bg'.at \in {"lock", "begin"}
    BY <1>0, <1>2, <2>1, TakeJobs
  <2>3. CASE j # i
    BY <1>1, <2>1, <2>2, <2>3 DEF OthersKept
  <2>4. CASE j = i
    <3>1. jobs'[j].at = "running" /\ jobs'[j].submitted = jobs[j].submitted
      BY <1>0, <2>1, <2>4 DEF JobType
    <3>2. VersionOf(j) = InForce /\ VersionOf(j)' = InForce'
      BY <2>1, <2>2, <2>4, <3>1 DEF VersionOf
    <3> QED BY <1>0, <2>1, <2>4, <3>1, <3>2, JobStaysFresh
  <2> QED BY <2>3, <2>4
<1>3. CASE Lock \/ Begin \/ Check
  <2>1. /\ jobs' = jobs /\ bg'.job = bg.job
        /\ bg.at \notin {"sent", "generating"} /\ bg'.at \notin {"sent", "generating"}
    BY <1>0, <1>3 DEF Lock, Begin, Check, TypeOK
  <2> QED BY <1>1, <2>1
<1>4. CASE Request \/ Arrive \/ End
  <2>0. /\ bg.at \in {"request", "sent", "generating"} /\ bg.job \in 1..Len(jobs)
        /\ jobs[bg.job].at = "running"
    BY <1>0, <1>4 DEF Request, Arrive, End, QueueShape
  <2>1. OthersKept(bg.job) /\ (bg'.job = bg.job \/ bg'.job = 0)
    <3>1. CASE Request
      BY <1>0, <3>1, RequestJobs DEF TypeOK
    <3>2. CASE Arrive
      BY <1>0, <3>2, ArriveJobs DEF TypeOK
    <3>3. CASE End
      BY <1>0, <3>3, EndJobs DEF Idle
    <3> QED BY <1>4, <3>1, <3>2, <3>3
  <2>2. CASE j # bg.job
    <3>1. jobs'[j] = jobs[j] /\ bg'.job # j
      BY <1>0, <2>1, <2>2 DEF OthersKept
    <3> QED BY <1>1, <2>2, <3>1
  <2>3. CASE j = bg.job /\ Request
    <3>1. /\ bg'.at = "sent" /\ bg'.job = j /\ bg.at = "request"
          /\ jobs'[j] = [jobs[j] EXCEPT !.name = name]
      BY <1>0, <2>3, RequestJobs DEF TypeOK
    <3>2. jobs'[j].at = "running" /\ jobs'[j].name = name /\ jobs'[j].submitted = jobs[j].submitted
      BY <1>0, <2>0, <2>3, <3>1 DEF JobType
    <3>3. VersionOf(j) = InForce
      BY <2>0, <2>3, <3>1 DEF VersionOf
    <3>4. VersionOf(j)' = InForce'
      BY <1>0, <3>1, <3>2 DEF VersionOf, InForce
    <3> QED BY <1>0, <2>0, <2>3, <3>2, <3>3, <3>4, JobStaysFresh
  <2>4. CASE j = bg.job /\ Arrive
    <3>1. /\ bg'.at = "generating" /\ bg'.job = j /\ bg.at = "sent"
          /\ jobs' = [jobs EXCEPT ![j].version = Served(jobs[j].name)]
      BY <1>0, <2>4 DEF TypeOK, Arrive
    <3>2. /\ jobs'[j].at = "running" /\ jobs'[j].version = Served(jobs[j].name)
          /\ jobs'[j].submitted = jobs[j].submitted
      BY <1>0, <2>0, <2>4, <3>1, JobsAreJobs DEF JobType
    <3>3. VersionOf(j) = Served(jobs[j].name)
      BY <2>0, <2>4, <3>1 DEF VersionOf
    <3>4. VersionOf(j)' = Served(jobs[j].name)
      BY <3>1, <3>2 DEF VersionOf
    <3> QED BY <1>0, <2>0, <2>4, <3>2, <3>3, <3>4, JobStaysFresh
  <2>5. CASE j = bg.job /\ End
    <3>1. PICK a \in {"ok", "failed"} : jobs'[j] = [jobs[j] EXCEPT !.at = a]
      BY <1>0, <2>5, EndJobs
    <3>2. /\ jobs'[j].at = a /\ jobs'[j].version = jobs[j].version
          /\ jobs'[j].submitted = jobs[j].submitted
      BY <1>0, <3>1 DEF JobType
    <3>3. VersionOf(j) = jobs[j].version
      BY <2>5 DEF VersionOf, End
    <3>4. a = "ok" => VersionOf(j)' = jobs[j].version
      BY <3>2 DEF VersionOf
    <3> QED BY <1>0, <2>0, <2>5, <3>2, <3>3, <3>4, JobStaysFresh
  <2> QED BY <1>4, <2>2, <2>3, <2>4, <2>5
<1> QED BY <1>2, <1>3, <1>4

\* The jobs submitted where a rollout begins are fresh.
LEMMA FirstJobsFresh ==
    ASSUME IInv, SInv, OnSchedule, FirstProduce
    PROVE  \A j \in 1..Len(jobs') : JobFresh(j)'
<1>0. /\ cfg \in Setting /\ cfg.start \in Nat /\ cfg.rollout \in Nat \ {0} /\ cfg.depth \in Nat \ {0}
      /\ step \in Nat /\ InForce \in Nat /\ InForce' \in Nat /\ InForce <= InForce' /\ cfg' = cfg
      /\ ClockShape /\ MainFresh
  <2>1. [Next]_vars
    BY DEF Next
  <2> QED BY <2>1, ClockNumbers, InForceIsStep, TypeStep, WeightsGrow DEF IInv, SInv, FreshShape
<1>1. /\ main = "produce" /\ jobs = <<>> /\ cfg.path = "producer"
  BY DEF FirstProduce
<1>2. step = cfg.start
  <2>1. left = 0 /\ Begun
    BY <1>0, <1>1 DEF ClockShape, Begun
  <2> QED BY <1>0, <1>1, <2>1 DEF ClockShape, NextRollout
<1>3. step % cfg.rollout = 0
  BY <1>0, <1>2, TakenAtMultiple DEF OnSchedule
<1>4. SyncDue(cfg, step) \in Int /\ SyncDue(cfg, step) <= InForce'
  <2>1. SyncDue(cfg, step) \in Int
    BY <1>0, SyncDueIs
  <2> QED BY <1>0, <1>1, <2>1 DEF MainFresh
<1> SUFFICES ASSUME NEW j \in 1..Len(jobs') PROVE JobFresh(j)'
  OBVIOUS
<1>5. /\ j \in 1..cfg.depth /\ jobs'[j] = Job(step) /\ bg' = bg /\ bg.at = "idle"
  BY FirstProduceJobs DEF IInv
<1>6. VersionOf(j)' = InForce'
  BY <1>5 DEF VersionOf, Job
<1>7. TakenAt(cfg, j) - cfg.depth * cfg.rollout <= step
  <2>1. j \in Int /\ 0 \in Int /\ cfg.depth \in Int /\ 0 + j = j /\ j <= cfg.depth
    BY <1>0, <1>5
  <2>2. TakenAt(cfg, 0) = cfg.start
    BY <1>0, <1>1 DEF TakenAt
  <2>3. TakenAt(cfg, j) = cfg.start + j * cfg.rollout
    <3>1. TakenAt(cfg, 0 + j) = TakenAt(cfg, 0) + j * cfg.rollout
      BY <1>0, <2>1, TakenAtMoves
    <3> QED BY <2>1, <2>2, <3>1
  <2>4. /\ j * cfg.rollout \in Int /\ cfg.depth * cfg.rollout \in Int
        /\ j * cfg.rollout <= cfg.depth * cfg.rollout
    BY <1>0, <2>1, RolloutsAhead
  <2> QED BY <1>0, <1>2, <2>3, <2>4
<1> QED BY <1>0, <1>3, <1>4, <1>5, <1>6, <1>7 DEF JobFresh, Job

\* The job submitted when a rollout is taken is depth rollouts ahead of it.
LEMMA NextJobFresh ==
    ASSUME IInv, SInv, OnSchedule, Produce
    PROVE  \A j \in 1..Len(jobs') : JobFresh(j)'
<1>0. /\ cfg \in Setting /\ cfg.start \in Nat /\ cfg.rollout \in Nat \ {0} /\ cfg.depth \in Nat \ {0}
      /\ step \in Nat /\ left \in Nat /\ next \in Nat \ {0} /\ Len(jobs) \in Nat
      /\ InForce \in Nat /\ InForce' = InForce /\ cfg' = cfg
      /\ ClockShape /\ MainFresh /\ QueueShape /\ TypeOK /\ [Next]_vars
  <2>1. [Next]_vars
    BY DEF Next
  <2>2. cfg' = cfg /\ InForce' = InForce
    BY DEF Produce, syncVars, InForce, Served
  <2> QED BY <2>1, <2>2, ClockNumbers, InForceIsStep, JobsAreJobs DEF IInv, SInv, FreshShape
<1>1. /\ main = "produce" /\ jobs # <<>> /\ bg' = bg
  BY DEF Produce
<1>2. step = TakenAt(cfg, next) /\ step % cfg.rollout = 0
  <2>1. left = 0 /\ Begun
    BY <1>0, <1>1 DEF ClockShape, Begun
  <2>2. step = NextRollout
    BY <1>0, <1>1, <2>1 DEF NextRollout
  <2> QED BY <1>0, <1>1, <2>1, <2>2, ClockNumbers DEF ClockShape
<1>3. /\ next \in 1..Len(jobs)
      /\ \/ /\ jobs[next].at = "ok" /\ Len(jobs') = Len(jobs) + 1
            /\ \A i \in 1..Len(jobs) : jobs'[i] = IF i = next THEN Taken ELSE jobs[i]
            /\ jobs'[Len(jobs')] = Job(step)
         \/ jobs' = jobs
  BY <1>0, ProduceJobs
<1> SUFFICES ASSUME NEW j \in 1..Len(jobs') PROVE JobFresh(j)'
  OBVIOUS
<1>4. CASE j \in 1..Len(jobs) /\ jobs'[j] = jobs[j]
  <2>1. VersionOf(j)' = VersionOf(j)
    BY <1>0, <1>1, <1>4 DEF VersionOf, Produce, syncVars, Served
  <2>2. VersionOf(j) \in Nat
    BY <1>4, VersionTypes DEF IInv, VersionsAreSteps
  <2> QED BY <1>0, <1>4, <2>1, <2>2, JobStaysFresh
<1>5. CASE j = next /\ jobs'[j] = Taken
  BY <1>5 DEF JobFresh, Taken, Job
<1>6. CASE j = Len(jobs) + 1 /\ jobs'[j] = Job(step)
  <2>1. bg.at # "idle" => bg.job # j
    BY <1>0, <1>6 DEF QueueShape
  <2>2. VersionOf(j)' = InForce'
    BY <1>1, <1>6, <2>1 DEF VersionOf, Job
  <2>3. SyncDue(cfg, step) <= InForce'
    BY <1>0, <1>1 DEF MainFresh
  <2>4. TakenAt(cfg, j) - cfg.depth * cfg.rollout <= step
    <3>1. j = next + cfg.depth
      BY <1>0, <1>1, <1>6 DEF QueueShape
    <3>2. next \in Int /\ cfg.depth \in Int
      BY <1>0
    <3>3. TakenAt(cfg, j) = step + cfg.depth * cfg.rollout
      BY <1>0, <1>2, <3>1, <3>2, TakenAtMoves
    <3>4. cfg.depth * cfg.rollout \in Int
      BY <1>0
    <3> QED BY <1>0, <3>3, <3>4
  <2> QED BY <1>0, <1>2, <1>6, <2>2, <2>3, <2>4 DEF JobFresh, Job
<1> QED
  <2>1. j \in 1..Len(jobs) \/ j = Len(jobs) + 1
    BY <1>0, <1>3
  <2> QED BY <1>0, <1>3, <1>4, <1>5, <1>6, <2>1

\* No step lets the weights of a job grow too old.
LEMMA FreshStep ==
    ASSUME IInv, SInv, [Next]_vars
    PROVE  FreshShape'
<1> SUFFICES ASSUME OnSchedule PROVE MainFresh' /\ \A j \in 1..Len(jobs') : JobFresh(j)'
  <2>1. OnSchedule' => OnSchedule
    BY WeightsGrow DEF OnSchedule, SInv
  <2> QED BY <2>1 DEF FreshShape
<1>1. MainFresh'
  BY MainFreshStep
<1>2. \A j \in 1..Len(jobs') : JobFresh(j)'
  <2>1. CASE FirstProduce
    BY <2>1, FirstJobsFresh
  <2>2. CASE Produce
    BY <2>2, NextJobFresh
  <2>3. CASE Take \/ Lock \/ Begin \/ Check \/ Request \/ Arrive \/ End
    BY <2>3, BackgroundFresh
  <2>4. CASE \/ LoadCheckpoint \/ PrepareBuffered \/ SkipSync \/ BeginSync \/ Pause
             \/ UpdateWeights \/ PublishAdapter \/ UnloadAdapter \/ Train \/ Evaluate
             \/ EvaluateDone \/ UNCHANGED vars
    <3>1. UNCHANGED <<jobs, bg>>
      BY <2>4 DEF vars, LoadCheckpoint, PrepareBuffered, SkipSync, BeginSync, Pause,
           UpdateWeights, PublishAdapter, UnloadAdapter, Train, Evaluate, EvaluateDone
    <3> SUFFICES ASSUME NEW j \in 1..Len(jobs) PROVE JobFresh(j)'
      BY <3>1
    <3>2. PICK n \in 0..Len(adapters) : n = jobs[j].name
      BY DEF IInv, AdapterShape
    <3>3. \/ VersionOf(j) = jobs[j].version /\ VersionOf(j)' = jobs[j].version
          \/ VersionOf(j) = Served(n) /\ VersionOf(j)' = Served(n)'
          \/ VersionOf(j) = InForce /\ VersionOf(j)' = InForce'
      BY <3>1, <3>2 DEF VersionOf, Served
    <3>4. VersionOf(j) \in Nat
      BY VersionTypes DEF IInv, VersionsAreSteps
    <3>5. VersionOf(j) <= VersionOf(j)'
      BY <3>3, <3>4, WeightsGrow DEF SInv
    <3> QED BY <3>1, <3>5, JobStaysFresh
  <2> QED BY <2>1, <2>2, <2>3, <2>4 DEF Next
<1> QED BY <1>1, <1>2

\* The base weights are fresh where training begins.
LEMMA StalenessInit == Init => SInv
<1> SUFFICES ASSUME Init PROVE SInv
  OBVIOUS
<1>1. /\ TypeOK /\ cfg \in Setting /\ cfg.start \in Nat /\ cfg.rollout \in Nat \ {0}
      /\ cfg.depth \in Nat \ {0} /\ InForce \in Nat
  BY TypeInit, SettingFields, InForceIsStep DEF TypeOK
<1>2. /\ main = "load" /\ step = 0 /\ left = 0 /\ next = 1 /\ bg.at = "idle" /\ lastSynced = -1
      /\ server = 0 /\ adapters = <<>> /\ name = 0
  BY DEF Init, Idle
<1>3. ClockShape
  <2>1. jobs # <<>> => cfg.path = "legacy"
    BY DEF Init
  <2> QED BY <1>2, <2>1 DEF ClockShape, Begun
<1>4. WeightShape
  <2>1. Len(adapters) = 0
    BY <1>2, EmptySeq
  <2> QED BY <1>1, <1>2, <2>1 DEF WeightShape
<1>5. ASSUME NEW j \in 1..Len(jobs), OnSchedule PROVE JobFresh(j)
  <2>1. j \in 1..cfg.depth /\ jobs[j] = Job(0) /\ cfg.path = "legacy"
    <3>1. CASE cfg.path = "legacy"
      <4>1. jobs = [i \in 1..cfg.depth |-> Job(0)]
        BY <3>1 DEF Init
      <4>2. Len(jobs) = cfg.depth /\ \A i \in 1..cfg.depth : jobs[i] = Job(0)
        BY <1>1, <4>1, FirstJobs
      <4> QED BY <3>1, <4>2
    <3>2. CASE cfg.path # "legacy"
      <4>1. jobs = <<>>
        BY <3>2 DEF Init
      <4> QED BY <1>1, <1>5, <4>1, JobsAreJobs
    <3> QED BY <3>1, <3>2
  <2>2. VersionOf(j) = InForce
    BY <1>2, <2>1 DEF VersionOf, Job
  <2> SUFFICES ASSUME cfg.start = 0
               PROVE  /\ 0 % cfg.rollout = 0 /\ SyncDue(cfg, 0) <= InForce
                      /\ TakenAt(cfg, j) - cfg.depth * cfg.rollout <= 0
    BY <1>1, <2>1, <2>2 DEF JobFresh, Job
  <2>3. 0 % cfg.rollout = 0
    BY <1>1, <1>5, TakenAtMultiple DEF OnSchedule
  <2>4. SyncDue(cfg, 0) <= InForce
    <3>1. 0 \in Int
      OBVIOUS
    <3>2. SyncDue(cfg, 0) \in Int /\ SyncDue(cfg, 0) <= 0
      BY <1>1, <3>1, SyncDueIs
    <3> QED BY <1>1, <3>2
  <2>5. TakenAt(cfg, j) - cfg.depth * cfg.rollout <= 0
    <3>1. j - 1 \in Int /\ cfg.depth \in Int /\ j - 1 <= cfg.depth
      BY <1>1, <2>1
    <3>2. /\ (j - 1) * cfg.rollout \in Int /\ cfg.depth * cfg.rollout \in Int
          /\ (j - 1) * cfg.rollout <= cfg.depth * cfg.rollout
      BY <1>1, <3>1, RolloutsAhead
    <3>3. TakenAt(cfg, j) = (j - 1) * cfg.rollout
      BY <2>1, <3>2 DEF TakenAt
    <3> QED BY <3>2, <3>3
  <2> QED BY <2>3, <2>4, <2>5
<1> QED BY <1>2, <1>3, <1>4, <1>5 DEF SInv, FreshShape, MainFresh, Begun

\* The rollout taken is depth rollouts old, and its weights are those of the last
\* sync due when it was submitted.
LEMMA StalenessStep ==
    ASSUME IInv, SInv, BoundedStaleness, [Next]_vars
    PROVE  BoundedStaleness'
<1> DEFINE r == cfg.rollout
           p == Period(cfg)
           a == cfg.depth * r
           Bound == a + p - r
<1>0. /\ cfg \in Setting /\ cfg.start \in Nat /\ r \in Nat \ {0} /\ p \in Nat \ {0} /\ a \in Nat
      /\ step \in Nat /\ next \in Nat \ {0} /\ ClockShape /\ cfg' = cfg /\ TypeOK
  BY ClockNumbers, PeriodIsCommon, WeightsGrow DEF IInv, SInv
<1> SUFFICES ASSUME OnSchedule, used'.submitted >= cfg.start
             PROVE  used'.step - used'.version <= Bound
  BY <1>0 DEF BoundedStaleness, OnSchedule
<1>1. CASE FirstProduce
  <2>1. /\ main = "produce" /\ main' = "train" /\ used'.step = step /\ left' = r - 1
        /\ used'.version = InForce'
    BY <1>0, <1>1 DEF FirstProduce, InForce, Served
  <2>2. step % r = 0 /\ SyncDue(cfg, step) <= InForce
    <3>1. left = 0 /\ Begun
      BY <1>0, <2>1 DEF ClockShape, Begun
    <3>2. NextRollout = step
      BY <1>0, <2>1, <3>1 DEF NextRollout
    <3> QED BY <1>0, <2>1, <3>1, <3>2, ClockNumbers DEF SInv, FreshShape, MainFresh
  <2>3. SyncDue(cfg, step) \in Int /\ step + r <= SyncDue(cfg, step) + p
    BY <1>0, <2>2, SyncDueIs, SyncDueBounds
  <2>4. InForce \in Nat /\ InForce' \in Nat /\ InForce <= InForce'
    BY InForceIsStep, TypeStep, WeightsGrow DEF IInv, SInv
  <2> HIDE DEF r, p, a
  <2>5. ASSUME NEW v \in Nat, InForce <= v PROVE step - v <= Bound
    BY <1>0, <2>2, <2>3, <2>4, <2>5
  <2>6. step - InForce' <= Bound
    BY <2>4, <2>5
  <2> QED BY <2>1, <2>6
<1>2. CASE Produce /\ jobs[next].at = "ok"
  <2> DEFINE s == jobs[next].submitted
             v == jobs[next].version
  <2>1. /\ used'.step = step /\ used'.submitted = s /\ used'.version = v
        /\ next \in 1..Len(jobs) /\ main = "produce" /\ jobs # <<>>
    <3>1. PICK j \in Pending :
            /\ j = next /\ used' = [submitted |-> jobs[j].submitted, version |-> jobs[j].version,
                                    step |-> step]
      BY <1>2 DEF Produce, Oldest
    <3> QED BY <1>0, <1>2, <3>1, ProduceJobs DEF Produce
  <2>2. s \in Nat /\ v \in Nat
    BY <1>0, <2>1, JobsAreJobs DEF JobType
  <2>3. step = TakenAt(cfg, next)
    <3>1. left = 0 /\ Begun
      BY <1>0, <2>1 DEF ClockShape, Begun
    <3> QED BY <1>0, <2>1, <3>1 DEF ClockShape, NextRollout
  <2>4. s % r = 0 /\ step - a <= s /\ SyncDue(cfg, s) <= v
    <3>1. JobFresh(next) /\ VersionOf(next) = v /\ s >= cfg.start
      BY <1>2, <2>1 DEF SInv, FreshShape, VersionOf
    <3> QED BY <1>2, <2>3, <3>1 DEF JobFresh
  <2>5. SyncDue(cfg, s) \in Int /\ s + r <= SyncDue(cfg, s) + p
    <3> HIDE DEF s
    <3> QED BY <1>0, <2>2, <2>4, SyncDueIs, SyncDueBounds
  <2> HIDE DEF s, v, r, p, a
  <2> QED BY <1>0, <2>1, <2>2, <2>4, <2>5
<1>3. CASE ~FirstProduce /\ ~(Produce /\ jobs[next].at = "ok")
  <2>1. used' = used
    <3>1. CASE Produce
      BY <1>0, <1>3, <3>1, ProduceJobs
    <3>2. CASE ~Produce
      BY <1>3, <3>2 DEF Next, vars, LoadCheckpoint, PrepareBuffered, SkipSync, BeginSync, Pause,
         UpdateWeights, PublishAdapter, UnloadAdapter, Train,
         Evaluate, EvaluateDone, Take, Lock, Begin, Check, Request, Arrive, End
    <3> QED BY <3>1, <3>2
  <2> QED BY <2>1 DEF BoundedStaleness, OnSchedule
<1> QED BY <1>1, <1>2, <1>3

-----------------------------------------------------------------------------
(* The theorems.                                                           *)

\* The inductive invariant holds for every set of settings.
THEOREM RolloutInvariant == Spec => []IInv
<1>1. Init => IInv
  BY TypeInit, ShapeInit DEF IInv
<1>2. IInv /\ [Next]_vars => IInv'
  BY TypeStep, QueueStep, LockStep, AdapterStep DEF IInv
<1> QED BY <1>1, <1>2, PTL DEF Spec

\* The state of the trainer, the queue and the server is always well typed.
THEOREM RolloutTypes == Spec => []TypeOK
<1>1. IInv => TypeOK
  BY DEF IInv
<1> QED BY <1>1, RolloutInvariant, PTL

\* While a stock sync for training runs, the executor is idle or waits for the
\* generate lock: by that lock, or because the legacy path has waited for the
\* whole queue.  A paused server that is being updated generates nothing.  It
\* says nothing of evaluation syncs, nor of the executor's own check.
THEOREM SyncHoldsOffGenerationHolds == Spec => []SyncHoldsOffGeneration
<1>1. IInv => SyncHoldsOffGeneration
  <2> SUFFICES ASSUME IInv PROVE SyncHoldsOffGeneration
    OBVIOUS
  <2>1. cfg.path \in {"producer", "legacy"}
    BY SettingFields DEF IInv
  <2>2. ASSUME StockSync PROVE bg.at \in {"idle", "lock"}
    <3>1. CASE cfg.path = "producer"
      <4>1. lock = "main"
        BY <2>2, <3>1 DEF IInv, LockShape
      <4>2. lock # "bg"
        BY <4>1
      <4>3. ~Generating
        BY <3>1, <4>2 DEF IInv, LockShape
      <4> QED BY <4>3 DEF IInv, TypeOK, Generating
    <3>2. CASE cfg.path = "legacy"
      BY <2>2, <3>2, SyncFindsIdle
    <3> QED BY <2>1, <3>1, <3>2
  <2> QED BY <2>2 DEF SyncHoldsOffGeneration, StockSync, IInv, PauseShape
<1> QED BY <1>1, RolloutInvariant, PTL

\* The weights of the server change while it generates for the executor in one
\* way only: a stock sync before an evaluation, which takes no lock.  No sync for
\* training, no merged update, no first rollout and no check of TRL's does it.
THEOREM OnlyEvaluationInterferes ==
    Spec => [][(bg.at = "generating" /\ server' # server) =>
                   main = "sync" /\ for = "eval" /\ cfg.sync = "stock"]_vars
<1> DEFINE Held == main = "update" /\ cfg.sync = "nomerge" => paused
           Quiet == (bg.at = "generating" /\ server' # server) =>
                        main = "sync" /\ for = "eval" /\ cfg.sync = "stock"
<1>1. Init => Held
  BY DEF Init
<1>2. Held /\ [Next]_vars => Held'
  <2> SUFFICES ASSUME Held, [Next]_vars, main' = "update", cfg'.sync = "nomerge"
               PROVE  paused'
    OBVIOUS
  <2>1. CASE Pause
    BY <2>1 DEF Pause
  <2>2. CASE main' = main /\ cfg' = cfg /\ paused' = paused
    BY <2>2
  <2>3. CASE UNCHANGED vars
    BY <2>2, <2>3 DEF vars
  <2>4. CASE Take \/ Lock \/ Begin \/ Check \/ Request \/ Arrive \/ End
    BY <2>2, <2>4 DEF Take, Lock, Begin, Check, Request, Arrive, End
  <2>5. ~(UpdateWeights \/ PublishAdapter \/ UnloadAdapter)
    BY DEF UpdateWeights, PublishAdapter, UnloadAdapter
  <2>6. ~(LoadCheckpoint \/ PrepareBuffered \/ SkipSync \/ BeginSync)
    BY DEF LoadCheckpoint, PrepareBuffered, SkipSync, BeginSync
  <2>7. ~(Train \/ Evaluate \/ EvaluateDone \/ FirstProduce)
    BY DEF Train, Evaluate, EvaluateDone, FirstProduce
  <2>8. ~Produce
    BY DEF Produce
  <2> QED BY <2>1, <2>3, <2>4, <2>5, <2>6, <2>7, <2>8 DEF Next
<1>3. IInv /\ SyncHoldsOffGeneration /\ Held /\ [Next]_vars => [Quiet]_vars
  <2> SUFFICES ASSUME IInv, SyncHoldsOffGeneration, Held, Next,
                      bg.at = "generating", server' # server
               PROVE  main = "sync" /\ for = "eval" /\ cfg.sync = "stock"
    OBVIOUS
  <2>1. UpdateWeights \/ FirstProduce
    BY DEF Next, vars, syncVars, LoadCheckpoint, PrepareBuffered, SkipSync, BeginSync, Pause,
           PublishAdapter, UnloadAdapter, Produce, Train, Evaluate, EvaluateDone,
           Take, Lock, Begin, Check, Request, Arrive, End
  <2>2. ~FirstProduce
    <3>1. bg.job \in 1..Len(jobs)
      BY DEF IInv, QueueShape
    <3>2. Len(jobs) \in Nat /\ (jobs = <<>> <=> Len(jobs) = 0)
      BY JobsAreJobs DEF IInv
    <3> QED BY <3>1, <3>2 DEF FirstProduce
  <2>3. CASE cfg.sync = "stock" /\ main = "sync"
    BY <2>3 DEF SyncHoldsOffGeneration, IInv, TypeOK
  <2>4. ~(cfg.sync = "nomerge" /\ main = "update")
    BY DEF SyncHoldsOffGeneration
  <2> QED BY <2>1, <2>2, <2>3, <2>4 DEF UpdateWeights
<1>4. Spec => []Held
  BY <1>1, <1>2, PTL DEF Spec
<1> HIDE DEF Held, Quiet
<1>5. Spec => [][Quiet]_vars
  BY <1>3, <1>4, RolloutInvariant, SyncHoldsOffGenerationHolds, PTL DEF Spec
<1> QED BY <1>5 DEF Quiet

\* With one rollout ahead, the adapter a request names is loaded until the
\* request is answered, though a sync may come between.
THEOREM AdapterStillLoadedHolds == Spec => []AdapterStillLoaded
<1>1. IInv => AdapterStillLoaded
  <2> SUFFICES ASSUME IInv, bg.at \in {"sent", "generating"}, cfg.depth = 1
               PROVE  jobs[bg.job].name \in loaded
    BY DEF AdapterStillLoaded
  <2>1. jobs[bg.job].name \in {name, name - 1}
    BY DEF IInv, AdapterShape
  <2>2. jobs[bg.job].name \in 0..Len(adapters) /\ name \in 0..Len(adapters)
    BY DEF IInv, AdapterShape, QueueShape, TypeOK
  <2>3. Len(adapters) \in Nat
    BY LenProperties DEF IInv, TypeOK
  <2> QED BY <2>1, <2>2, <2>3 DEF IInv, AdapterShape
<1> QED BY <1>1, RolloutInvariant, PTL

\* Rollouts are used once each and in order, with depth of them always ahead.
THEOREM PrefetchedAheadHolds == Spec => PrefetchedAhead
<1> DEFINE A == (Len(jobs') > Len(jobs) /\ jobs # <<>>) =>
          /\ Len(jobs') - next' + 1 = cfg.depth
          /\ used'.submitted = jobs[next].submitted /\ jobs[next].at = "ok"
<1>1. IInv /\ [Next]_vars => [A]_vars
  <2> SUFFICES ASSUME IInv, [Next]_vars, Len(jobs') > Len(jobs), jobs # <<>>
               PROVE  /\ Len(jobs') - next' + 1 = cfg.depth
                      /\ used'.submitted = jobs[next].submitted /\ jobs[next].at = "ok"
    OBVIOUS
  <2>0. /\ Len(jobs) \in Nat /\ next \in 1..(Len(jobs) + 1) /\ cfg.depth \in Nat
    BY JobsAreJobs, SettingFields DEF IInv
  <2>1. Produce
    <3>1. CASE Take
      <4>1. PICK j \in 1..Len(jobs) : OthersKept(j)
        BY <3>1, TakeJobs DEF IInv
      <4> QED BY <2>0, <4>1 DEF OthersKept
    <3>2. CASE Request
      BY <2>0, <3>2, RequestJobs DEF OthersKept, IInv
    <3>3. CASE Arrive
      BY <2>0, <3>3, ArriveJobs DEF OthersKept, IInv
    <3>4. CASE End
      BY <2>0, <3>4, EndJobs DEF OthersKept, IInv
    <3>5. CASE FirstProduce
      BY <3>5 DEF FirstProduce
    <3>6. CASE \/ LoadCheckpoint \/ PrepareBuffered \/ SkipSync \/ BeginSync \/ Pause
               \/ UpdateWeights \/ PublishAdapter \/ UnloadAdapter \/ Train \/ Evaluate
               \/ EvaluateDone \/ Lock \/ Begin \/ Check \/ UNCHANGED vars
      <4>1. jobs' = jobs
        BY <3>6 DEF vars, LoadCheckpoint, PrepareBuffered, SkipSync, BeginSync, Pause,
             UpdateWeights, PublishAdapter, UnloadAdapter, Train, Evaluate, EvaluateDone,
             Lock, Begin, Check
      <4> QED BY <2>0, <4>1
    <3> QED BY <3>1, <3>2, <3>3, <3>4, <3>5, <3>6 DEF Next
  <2>2. CASE jobs[next].at = "ok"
    <3>1. Len(jobs') = Len(jobs) + 1 /\ next' = next + 1 /\ used'.submitted = jobs[next].submitted
      BY <2>1, <2>2, ProduceJobs DEF IInv
    <3>2. Len(jobs) - next + 1 = cfg.depth
      BY <2>1 DEF IInv, QueueShape, Produce
    <3> QED BY <2>0, <2>2, <3>1, <3>2
  <2>3. CASE jobs[next].at # "ok"
    BY <2>0, <2>1, <2>3, ProduceJobs DEF IInv
  <2> QED BY <2>2, <2>3
<1> QED BY <1>1, RolloutInvariant, PTL DEF Spec, PrefetchedAhead

\* A rollout is never older than the prefetch depth and the sync period allow,
\* for every depth, rollout length, sync interval and step to resume at where a
\* sync is due.
THEOREM BoundedStalenessHolds == Spec => []BoundedStaleness
<1>1. Init => SInv /\ BoundedStaleness
  <2> SUFFICES ASSUME Init PROVE BoundedStaleness
    BY StalenessInit
  <2>1. /\ used.step = cfg.start /\ used.version = cfg.start /\ cfg \in Setting
    BY DEF Init
  <2>2. cfg.start \in Nat /\ cfg.rollout \in Nat \ {0} /\ cfg.depth \in Nat \ {0}
    BY <2>1, SettingHas
  <2>3. Period(cfg) \in Nat
    BY <2>1, PeriodIsCommon
  <2>4. cfg.rollout * 1 <= cfg.depth * cfg.rollout /\ cfg.depth * cfg.rollout \in Int
    <3>1. 1 \in Int /\ cfg.depth \in Int /\ 1 <= cfg.depth
      BY <2>2
    <3> QED BY <2>1, <2>2, <3>1, RolloutsAhead
  <2> QED BY <2>1, <2>2, <2>3, <2>4 DEF BoundedStaleness
<1>2. (SInv /\ BoundedStaleness) /\ IInv /\ [Next]_vars => (SInv /\ BoundedStaleness)'
  BY ClockStep, WeightStep, FreshStep, StalenessStep DEF SInv
<1> QED BY <1>1, <1>2, RolloutInvariant, PTL DEF Spec

-----------------------------------------------------------------------------
(* The reward workers of these trainers (RewardWorkers), for any number of *)
(* workers, groups, batches and faults.                                    *)

\* The workers' shares cover the batch.
LEMMA ShareCovers ==
    ASSUME NEW g \in Nat \ {0}
    PROVE  /\ Share(g) \in Nat \ {0} /\ NWorkers \in Nat \ {0}
           /\ NWorkers * Share(g) \in Nat /\ NWorkers * Share(g) >= g
<1> DEFINE s == Share(g)
           x == g + NWorkers - 1
<1>0. NWorkers \in Nat \ {0} /\ x \in Int
  BY WorkerAssumption
<1>1. s = x \div NWorkers
  BY DEF Share
<1>2. s \in Int /\ x % NWorkers \in 0..(NWorkers - 1) /\ x = NWorkers * s + (x % NWorkers)
  BY <1>0, <1>1, Divide
<1>3. NWorkers * s \in Int /\ NWorkers * 0 = 0
  BY <1>0, <1>2, Distributes
<1>4. NWorkers * s >= g
  BY <1>0, <1>2, <1>3
<1>5. 0 < s
  <2>1. NWorkers * 0 < NWorkers * s /\ 0 \in Int
    BY <1>3, <1>4
  <2> QED BY <1>0, <1>2, <2>1, ProductOrder
<1> QED BY <1>0, <1>2, <1>3, <1>4, <1>5

\* The groups of a worker: they follow those of the worker before it, and the
\* last worker used has the last group.
LEMMA GroupBounds ==
    ASSUME groups \in Nat \ {0}, NEW w \in Nat \ {0}
    PROVE  /\ FirstGroup(1) = 1 /\ Used(1)
           /\ FirstGroup(w) \in Nat \ {0} /\ LastGroup(w) \in Nat
           /\ Used(w) => FirstGroup(w) <= LastGroup(w)
           /\ Used(w + 1) => Used(w) /\ LastGroup(w) = FirstGroup(w + 1) - 1
           /\ ~Used(w + 1) => LastGroup(w) = groups
           /\ w = NWorkers => LastGroup(w) = groups
<1> DEFINE s == Share(groups)
<1>0. s \in Nat \ {0} /\ NWorkers * s >= groups
  BY ShareCovers
<1>1. /\ FirstGroup(w) = (w - 1) * s + 1 /\ FirstGroup(1) = (1 - 1) * s + 1
      /\ FirstGroup(w + 1) = ((w + 1) - 1) * s + 1
  BY DEF FirstGroup
<1>2. LastGroup(w) = IF w * s < groups THEN w * s ELSE groups
  BY DEF LastGroup
<1>3. (1 - 1) * s = 0 /\ ((w + 1) - 1) * s = w * s
  BY <1>0
<1>4. /\ s * w \in Int /\ s * (w - 1) = s * w - s * 1 /\ s * 1 = s
      /\ s * w = w * s /\ s * (w - 1) = (w - 1) * s /\ (w - 1) * s \in Int
  <2>1. s \in Int /\ w \in Int /\ 1 \in Int /\ w - 1 \in Int
    BY <1>0
  <2>2. s * w \in Int /\ s * 1 \in Int /\ s * (w - 1) = s * w - s * 1 /\ s * w = w * s
    BY <2>1, Distributes
  <2>3. s * (w - 1) = (w - 1) * s /\ s * (w - 1) \in Int
    BY <2>1, Distributes
  <2>4. s * 1 = s
    BY <1>0
  <2> QED BY <2>2, <2>3, <2>4
<1>5. (w - 1) * s >= 0
  <2>1. w - 1 \in Nat
    OBVIOUS
  <2> HIDE DEF s
  <2> QED BY <1>0, <2>1
<1>6. /\ Used(w) <=> FirstGroup(w) <= groups
      /\ Used(1) <=> FirstGroup(1) <= groups
      /\ Used(w + 1) <=> FirstGroup(w + 1) <= groups
  BY DEF Used
<1> DEFINE a == (w - 1) * s
           b == w * s
           c == NWorkers * s
<1>7. a \in Int /\ b \in Int /\ a = b - s /\ a >= 0
  BY <1>4, <1>5
<1>8. w = NWorkers => b = c
  OBVIOUS
<1>9. c >= groups
  BY <1>0
<1>10. /\ FirstGroup(w) = a + 1 /\ FirstGroup(1) = 1 /\ FirstGroup(w + 1) = b + 1
       /\ LastGroup(w) = IF b < groups THEN b ELSE groups
  BY <1>1, <1>2, <1>3
<1> HIDE DEF a, b, c, s
<1> QED BY <1>0, <1>6, <1>7, <1>8, <1>9, <1>10

\* Workers used are the first ones.
LEMMA UsedPrefix ==
    ASSUME groups \in Nat \ {0},
           NEW w \in Nat \ {0}, NEW v \in Nat \ {0}, w <= v, Used(v)
    PROVE  Used(w)
<1> DEFINE T == {n \in Nat : Used(w + n) => Used(w)}
<1>1. 0 \in T
  OBVIOUS
<1>2. ASSUME NEW n \in T PROVE n + 1 \in T
  <2>1. /\ w + n \in Nat \ {0} /\ w + (n + 1) = (w + n) + 1
        /\ Used(w + n) => Used(w)
    OBVIOUS
  <2>2. Used((w + n) + 1) => Used(w + n)
    BY <2>1, GroupBounds
  <2> QED BY <2>1, <2>2
<1>3. T = Nat
  <2> HIDE DEF T
  <2>1. T \subseteq Nat
    BY DEF T
  <2> QED BY <1>1, <1>2, <2>1, NaturalInduction
<1>4. v - w \in T /\ w + (v - w) = v
  <2> HIDE DEF T
  <2>1. v - w \in Nat /\ w + (v - w) = v
    OBVIOUS
  <2> QED BY <1>3, <2>1
<1> QED BY <1>4

-----------------------------------------------------------------------------
(* What the trainer assembles.                                             *)

\* The rewards of this batch's first n groups.
FirstRewards(n) == [g \in 1..n |-> <<batch, g>>]
Reward == {<<batch, g>> : g \in Nat}

LEMMA RewardsAre ==
    ASSUME NEW n \in Nat
    PROVE  /\ FirstRewards(n) \in Seq(Reward) /\ Len(FirstRewards(n)) = n
           /\ \A g \in 1..n : FirstRewards(n)[g] = <<batch, g>>
<1>1. \A g \in 1..n : <<batch, g>> \in Reward
  BY DEF Reward
<1> QED BY <1>1 DEF FirstRewards

LEMMA ShardIs ==
    ASSUME groups \in Nat \ {0}, NEW w \in Nat \ {0}, Used(w)
    PROVE  /\ Shard(w) \in Seq(Reward)
           /\ Len(Shard(w)) = LastGroup(w) - FirstGroup(w) + 1
           /\ \A i \in 1..Len(Shard(w)) : Shard(w)[i] = <<batch, FirstGroup(w) + i - 1>>
<1> DEFINE a == FirstGroup(w)
           n == LastGroup(w) - a + 1
<1>1. a \in Nat \ {0} /\ n \in Nat
  BY GroupBounds
<1>2. Shard(w) = [i \in 1..n |-> <<batch, a + i - 1>>]
  BY DEF Shard
<1> HIDE DEF a, n
<1>3. \A i \in 1..n : a + i - 1 \in Nat
  BY <1>1
<1>4. \A i \in 1..n : <<batch, a + i - 1>> \in Reward
  BY <1>3 DEF Reward
<1>5. [i \in 1..n |-> <<batch, a + i - 1>>] \in Seq(Reward)
  <2>1. [i \in 1..n |-> <<batch, a + i - 1>>] \in [1..n -> Reward]
    BY <1>4
  <2> QED BY <1>1, <2>1
<1>6. Len([i \in 1..n |-> <<batch, a + i - 1>>]) = n
  BY <1>1
<1> QED BY <1>2, <1>5, <1>6 DEF n, a

\* One shard more.
LEMMA NextShard ==
    ASSUME groups \in Nat \ {0}, NEW w \in Nat \ {0}, Used(w + 1)
    PROVE  FirstRewards(LastGroup(w)) \o Shard(w + 1) = FirstRewards(LastGroup(w + 1))
<1> DEFINE m == LastGroup(w)
           n == LastGroup(w + 1)
           s == FirstRewards(m)
           t == Shard(w + 1)
           r == FirstRewards(n)
<1>0. w + 1 \in Nat \ {0}
  OBVIOUS
<1>1. m \in Nat /\ n \in Nat /\ FirstGroup(w + 1) = m + 1
  <2>1. m \in Nat /\ FirstGroup(w + 1) \in Nat \ {0} /\ m = FirstGroup(w + 1) - 1
    BY <1>0, GroupBounds
  <2>2. n \in Nat
    BY <1>0, GroupBounds
  <2> QED BY <2>1, <2>2
<1>2. /\ s \in Seq(Reward) /\ Len(s) = m
      /\ \A g \in 1..m : s[g] = <<batch, g>>
  BY <1>1, RewardsAre
<1>3. /\ r \in Seq(Reward) /\ Len(r) = n
      /\ \A g \in 1..n : r[g] = <<batch, g>>
  BY <1>1, RewardsAre
<1>4. /\ t \in Seq(Reward) /\ Len(t) = n - (m + 1) + 1
      /\ \A i \in 1..Len(t) : t[i] = <<batch, (m + 1) + i - 1>>
  BY <1>0, <1>1, ShardIs
<1> HIDE DEF m, n, s, t, r
<1>5. /\ s \o t \in Seq(Reward) /\ Len(s \o t) = Len(s) + Len(t)
      /\ \A i \in 1..Len(s) + Len(t) : (s \o t)[i] = IF i <= Len(s) THEN s[i] ELSE t[i - Len(s)]
  BY <1>2, <1>4, ConcatProperties
<1>6. Len(s) + Len(t) = n /\ Len(t) \in Nat
  <2>1. Len(t) \in Nat
    BY <1>4, LenProperties
  <2> QED BY <1>1, <1>2, <1>4, <2>1
<1>7. ASSUME NEW i \in 1..n PROVE (s \o t)[i] = r[i]
  <2>1. CASE i <= m
    <3>1. i \in 1..m /\ i \in 1..Len(s) + Len(t) /\ i <= Len(s)
      BY <1>1, <1>2, <1>6, <2>1
    <3> QED BY <1>2, <1>3, <1>5, <3>1
  <2>2. CASE ~(i <= m)
    <3>1. i - m \in 1..Len(t) /\ (m + 1) + (i - m) - 1 = i
      BY <1>1, <1>2, <1>6, <2>2
    <3>2. t[i - m] = <<batch, i>>
      BY <1>4, <3>1
    <3> QED BY <1>2, <1>3, <1>5, <1>6, <2>2, <3>2
  <2> QED BY <2>1, <2>2
<1>8. s \o t = r
  BY <1>3, <1>5, <1>6, <1>7, SeqEqual
<1> QED BY <1>8 DEF m, n, s, t, r

\* The shards of the first workers, flattened: FlattenSeq's recursion has the
\* rewards of the first groups as its one solution.
LEMMA FlattenedShards ==
    ASSUME groups \in Nat \ {0}, NEW q, NEW n \in Nat \ {0},
           Len(q) = n, \A w \in 1..n : Used(w) /\ q[w] = Shard(w)
    PROVE  FlattenSeq(q) = FirstRewards(LastGroup(n))
<1> DEFINE G == [i \in 1..n |-> FirstRewards(LastGroup(i))]
           Solves(f) == f = [i \in 1..n |-> IF i = 1 THEN q[i] ELSE f[i - 1] \o q[i]]
<1>1. q[1] = FirstRewards(LastGroup(1))
  <2> DEFINE m == LastGroup(1)
  <2>1. /\ 1 \in Nat \ {0} /\ Used(1) /\ FirstGroup(1) = 1 /\ m \in Nat
        /\ q[1] = Shard(1)
    BY GroupBounds
  <2>2. /\ Shard(1) \in Seq(Reward) /\ Len(Shard(1)) = m - 1 + 1
        /\ \A i \in 1..Len(Shard(1)) : Shard(1)[i] = <<batch, 1 + i - 1>>
    BY <2>1, ShardIs
  <2>3. /\ FirstRewards(m) \in Seq(Reward) /\ Len(FirstRewards(m)) = m
        /\ \A g \in 1..m : FirstRewards(m)[g] = <<batch, g>>
    BY <2>1, RewardsAre
  <2> HIDE DEF m
  <2>4. Len(Shard(1)) = m
    BY <2>1, <2>2
  <2>5. \A i \in 1..m : Shard(1)[i] = FirstRewards(m)[i]
    <3> TAKE i \in 1..m
    <3>1. 1 + i - 1 = i
      BY <2>1
    <3> QED BY <2>2, <2>3, <2>4, <3>1
  <2>6. Shard(1) = FirstRewards(m)
    BY <2>2, <2>3, <2>4, <2>5, SeqEqual
  <2> QED BY <2>1, <2>6 DEF m
<1>2. \A i \in 1..n : i # 1 =>
          /\ i - 1 \in 1..n
          /\ FirstRewards(LastGroup(i - 1)) \o q[i] = FirstRewards(LastGroup(i))
  <2> SUFFICES ASSUME NEW i \in 1..n, i # 1
               PROVE  /\ i - 1 \in 1..n
                      /\ FirstRewards(LastGroup(i - 1)) \o q[i] = FirstRewards(LastGroup(i))
    OBVIOUS
  <2>1. i - 1 \in Nat \ {0} /\ i - 1 \in 1..n /\ (i - 1) + 1 = i /\ Used(i) /\ q[i] = Shard(i)
    OBVIOUS
  <2>2. Used((i - 1) + 1)
    BY <2>1
  <2>3. FirstRewards(LastGroup(i - 1)) \o Shard((i - 1) + 1)
            = FirstRewards(LastGroup((i - 1) + 1))
    BY <2>1, <2>2, NextShard
  <2> QED BY <2>1, <2>3
<1>3. Solves(G)
  BY <1>1, <1>2
<1>4. ASSUME NEW f, Solves(f) PROVE f[n] = FirstRewards(LastGroup(n))
  <2> DEFINE T == {i \in Nat : i + 1 \in 1..n => f[i + 1] = G[i + 1]}
  <2>1. \A i \in 1..n : f[i] = IF i = 1 THEN q[i] ELSE f[i - 1] \o q[i]
    BY <1>4
  <2>2. \A i \in 1..n : G[i] = FirstRewards(LastGroup(i))
    OBVIOUS
  <2> HIDE DEF G, Solves
  <2>3. 0 \in T
    BY <1>1, <2>1, <2>2
  <2>4. ASSUME NEW i \in T PROVE i + 1 \in T
    <3> SUFFICES ASSUME (i + 1) + 1 \in 1..n PROVE f[(i + 1) + 1] = G[(i + 1) + 1]
      OBVIOUS
    <3>1. i + 1 \in 1..n /\ ((i + 1) + 1) - 1 = i + 1 /\ (i + 1) + 1 # 1
      OBVIOUS
    <3>2. f[i + 1] = FirstRewards(LastGroup(i + 1))
      BY <2>2, <3>1
    <3>3. f[(i + 1) + 1] = f[i + 1] \o q[(i + 1) + 1]
      BY <2>1, <3>1
    <3> QED BY <1>2, <2>2, <3>1, <3>2, <3>3
  <2>5. T = Nat
    <3> HIDE DEF T
    <3>1. T \subseteq Nat
      BY DEF T
    <3> QED BY <2>3, <2>4, <3>1, NaturalInduction
  <2>6. n - 1 \in T /\ (n - 1) + 1 = n /\ n \in 1..n
    <3> HIDE DEF T
    <3>1. n - 1 \in Nat /\ (n - 1) + 1 = n /\ n \in 1..n
      OBVIOUS
    <3> QED BY <2>5, <3>1
  <2> QED BY <2>2, <2>6
<1>5. Solves(CHOOSE f : Solves(f))
  <2> HIDE DEF Solves, G
  <2> QED BY <1>3
<1>6. FlattenSeq(q) = (CHOOSE f : Solves(f))[n]
  BY DEF FlattenSeq
<1> QED BY <1>4, <1>5, <1>6

\* The pipes of a worker: nothing in them, or the one shard it was sent,
\* unanswered or answered.
Quiet(w) == inbox[w] = <<>> /\ outbox[w] = <<>>
OneShard(w) ==
    \/ inbox[w] = <<Shard(w)>> /\ outbox[w] = <<>>
    \/ inbox[w] = <<>> /\ outbox[w] \in {<<Shard(w)>>, <<NoAnswer>>}

\* The workers whose answer to this batch the trainer has not received.
Owes(w) ==
    \/ place = "send" /\ w < turn
    \/ place = "collect" /\ w >= turn /\ Used(w)
    \/ place = "drain" /\ w >= turn /\ Used(w) /\ w # Failed
    \/ place = "raised"

Answer == Seq(Nat \X Nat)

RewardTypes ==
    /\ groups \in Nat \ {0} /\ batch \in Nat /\ turn \in Nat \ {0}
    /\ place \in {"idle", "send", "collect", "drain", "compute", "raised"}
    /\ inbox = [w \in Worker |-> inbox[w]] /\ outbox = [w \in Worker |-> outbox[w]]
    /\ collected \in Seq(Answer)

PipesClean == \A w \in Worker : Quiet(w) \/ (Owes(w) /\ OneShard(w))
SentToUsed == place = "send" => \A w \in Worker : w < turn => Used(w)
AnswersInOrder ==
    /\ place = "send" => collected = <<>>
    /\ place = "collect" =>
          /\ Len(collected) = turn - 1
          /\ \A w \in 1..(turn - 1) : w \in Worker /\ Used(w) /\ collected[w] = Shard(w)
\* A worker that has died has left nothing to work on.
DeadHaveNone ==
    /\ alive = [w \in Worker |-> alive[w]]
    /\ \A w \in Worker : ~alive[w] => inbox[w] = <<>>
RewardsInOrder ==
    rewards # <<>> => place = "idle" /\ rewards = FirstRewards(groups)

\* What ties the pipes, the trainer's place in the batch and the rewards.
RewardIInv ==
    /\ RewardTypes /\ PipesClean /\ DeadHaveNone
    /\ SentToUsed /\ AnswersInOrder /\ RewardsInOrder

LEMMA Workers ==
    /\ NWorkers \in Nat \ {0} /\ Worker \subseteq Nat \ {0}
    /\ \A w \in Nat \ {0} : w \in Worker <=> w <= NWorkers
BY WorkerAssumption DEF Worker

LEMMA OneElement ==
    ASSUME NEW x
    PROVE  /\ Append(<<>>, x) = <<x>> /\ Head(<<x>>) = x /\ Tail(<<x>>) = <<>>
           /\ <<x>> # <<>> /\ Len(<<x>>) = 1 /\ Len(<<>>) = 0
OBVIOUS

\* The groups and shards of a batch stay while it does.
LEMMA SameBatch ==
    ASSUME batch' = batch, groups' = groups, NEW w
    PROVE  /\ Used(w)' <=> Used(w)
           /\ Shard(w)' = Shard(w)
BY DEF Used, Shard, FirstGroup, LastGroup, Share

LEMMA SameRewards ==
    ASSUME batch' = batch, groups' = groups
    PROVE  FirstRewards(groups)' = FirstRewards(groups)
BY DEF FirstRewards

LEMMA ShardIsAnswer ==
    ASSUME RewardTypes, NEW w \in Worker, Used(w)
    PROVE  Shard(w) \in Answer
<1>1. Shard(w) \in Seq(Reward)
  BY Workers, ShardIs DEF RewardTypes
<1>2. Reward \subseteq Nat \X Nat
  BY DEF Reward, RewardTypes
<1> HIDE DEF Reward
<1> QED BY <1>1, <1>2 DEF Answer

\* Once no worker is left to receive from, none owes an answer.
LEMMA NobodyLeft ==
    ASSUME RewardTypes, turn > NWorkers \/ ~Used(turn)
    PROVE  \A w \in Worker : ~(w >= turn /\ Used(w))
<1> SUFFICES ASSUME NEW w \in Worker, w >= turn, Used(w) PROVE FALSE
  OBVIOUS
<1>1. w \in Nat \ {0} /\ w <= NWorkers /\ turn \in Nat \ {0} /\ NWorkers \in Nat
  BY Workers DEF RewardTypes
<1>2. Used(turn)
  BY <1>1, UsedPrefix DEF RewardTypes
<1> QED BY <1>1, <1>2

LEMMA Emptied ==
    ASSUME NEW w \in Worker
    PROVE  Empty[w] = <<>>
BY DEF Empty

LEMMA RewardStarts ==
    ASSUME RewardInit
    PROVE  RewardIInv
<1>1. RewardTypes
  <2>1. inbox = [w \in Worker |-> inbox[w]] /\ outbox = [w \in Worker |-> outbox[w]]
    BY DEF RewardInit, Empty
  <2>2. <<>> \in Seq(Answer)
    BY EmptySeq
  <2> QED BY <2>1, <2>2 DEF RewardInit, RewardTypes
<1>2. PipesClean
  BY Emptied DEF RewardInit, PipesClean, Quiet
<1>3. DeadHaveNone
  BY Emptied DEF RewardInit, DeadHaveNone
<1> QED BY <1>1, <1>2, <1>3 DEF RewardIInv, SentToUsed, AnswersInOrder, RewardsInOrder, RewardInit

LEMMA LaunchStep ==
    ASSUME RewardIInv, Launch
    PROVE  RewardIInv'
<1>1. groups' \in Nat \ {0} /\ batch' \in Nat
  BY WorkerAssumption DEF Launch, RewardIInv, RewardTypes
<1>2. /\ inbox' = [w \in Worker |-> inbox'[w]] /\ outbox' = [w \in Worker |-> outbox'[w]]
      /\ \A w \in Worker : inbox'[w] = <<>> /\ outbox'[w] = <<>>
  <2>1. CASE UNCHANGED <<inbox, outbox>>
    <3>1. \A w \in Worker : Quiet(w)
      BY DEF RewardIInv, PipesClean, Owes, Launch
    <3> QED BY <2>1, <3>1 DEF Quiet, RewardIInv, RewardTypes
  <2>2. CASE inbox' = Empty /\ outbox' = Empty
    BY <2>2 DEF Empty
  <2> QED BY <2>1, <2>2 DEF Launch, pipes
<1>3. RewardTypes'
  <2>1. <<>> \in Seq(Answer)
    BY EmptySeq
  <2> QED BY <1>1, <1>2, <2>1 DEF RewardTypes, Launch
<1>4. PipesClean'
  BY <1>2 DEF PipesClean, Quiet
<1>5. SentToUsed'
  BY Workers DEF SentToUsed, Launch
<1>6. DeadHaveNone'
  <2>1. alive' = alive \/ alive' = [w \in Worker |-> TRUE]
    BY DEF Launch
  <2>2. alive' = [w \in Worker |-> alive'[w]]
    BY <2>1 DEF DeadHaveNone, RewardIInv
  <2>3. Worker' = Worker
    BY DEF Worker
  <2> QED BY <1>2, <2>2, <2>3 DEF DeadHaveNone
<1> QED BY <1>3, <1>4, <1>5, <1>6 DEF RewardIInv, AnswersInOrder, RewardsInOrder, Launch

\* The pipes of one worker change, or nobody's.
LEMMA PipesAfter ==
    ASSUME RewardIInv, batch' = batch, groups' = groups,
           NEW v \in Worker,
           \A w \in Worker : w # v => inbox'[w] = inbox[w] /\ outbox'[w] = outbox[w],
           \A w \in Worker : w # v /\ Owes(w) => Owes(w)',
           Quiet(v)' \/ (Owes(v)' /\ OneShard(v)')
    PROVE  PipesClean'
<1> SUFFICES ASSUME NEW w \in Worker, w # v
             PROVE  Quiet(w)' \/ (Owes(w)' /\ OneShard(w)')
  BY DEF PipesClean
<1>1. Quiet(w) \/ (Owes(w) /\ OneShard(w))
  BY DEF RewardIInv, PipesClean
<1>2. Shard(w)' = Shard(w) /\ inbox'[w] = inbox[w] /\ outbox'[w] = outbox[w]
  BY SameBatch
<1>3. Quiet(w)' <=> Quiet(w)
  BY <1>2 DEF Quiet
<1>4. NoAnswer' = NoAnswer
  BY DEF NoAnswer
<1>5. OneShard(w)' <=> OneShard(w)
  BY <1>2, <1>4 DEF OneShard
<1> QED BY <1>1, <1>3, <1>5

LEMMA PipesSame ==
    ASSUME RewardIInv, batch' = batch, groups' = groups,
           inbox' = inbox, outbox' = outbox,
           \A w \in Worker : Owes(w) => Owes(w)'
    PROVE  PipesClean'
<1> SUFFICES ASSUME NEW w \in Worker
             PROVE  Quiet(w)' \/ (Owes(w)' /\ OneShard(w)')
  BY DEF PipesClean
<1>1. Quiet(w) \/ (Owes(w) /\ OneShard(w))
  BY DEF RewardIInv, PipesClean
<1>2. Shard(w)' = Shard(w)
  BY SameBatch
<1>3. (Quiet(w)' <=> Quiet(w)) /\ (OneShard(w)' <=> OneShard(w))
  BY <1>2 DEF Quiet, OneShard, NoAnswer
<1> QED BY <1>1, <1>3

\* Nobody dies and nobody dead is sent a shard.
LEMMA DeadSame ==
    ASSUME RewardIInv, alive' = alive,
           \A w \in Worker : inbox'[w] = inbox[w] \/ inbox'[w] = <<>> \/ alive[w]
    PROVE  DeadHaveNone'
<1>1. Worker' = Worker
  BY DEF Worker
<1>2. /\ alive' = [w \in Worker |-> alive'[w]]
      /\ \A w \in Worker : ~alive'[w] => inbox'[w] = <<>>
  BY DEF DeadHaveNone, RewardIInv
<1> QED BY <1>1, <1>2 DEF DeadHaveNone

LEMMA SendStep ==
    ASSUME RewardIInv, Send
    PROVE  RewardIInv'
<1> USE DEF Send
<1>0. /\ batch' = batch /\ groups' = groups /\ collected' = collected /\ rewards' = rewards
      /\ turn \in Worker /\ Used(turn) /\ outbox' = outbox /\ place = "send"
      /\ turn \in Nat \ {0}
  BY Workers DEF RewardIInv, RewardTypes
<1>1. CASE alive[turn]
  <2>1. /\ inbox' = [inbox EXCEPT ![turn] = Append(@, Shard(turn))]
        /\ turn' = turn + 1 /\ place' = place
    BY <1>1
  <2>2. RewardTypes'
    <3>1. inbox' = [w \in Worker |-> inbox'[w]] /\ outbox' = [w \in Worker |-> outbox'[w]]
      BY <1>0, <2>1 DEF RewardIInv, RewardTypes
    <3>2. turn' \in Nat \ {0}
      BY <1>0, <2>1
    <3> QED BY <1>0, <2>1, <3>1, <3>2 DEF RewardIInv, RewardTypes
  <2>3. Quiet(turn)
    BY <1>0 DEF RewardIInv, PipesClean, Owes
  <2>4. inbox'[turn] = <<Shard(turn)>> /\ outbox'[turn] = <<>>
    BY <1>0, <2>1, <2>3, OneElement DEF Quiet, RewardIInv, RewardTypes
  <2>5. PipesClean'
    <3>1. \A w \in Worker : w # turn => inbox'[w] = inbox[w] /\ outbox'[w] = outbox[w]
      BY <1>0, <2>1 DEF RewardIInv, RewardTypes
    <3>2. \A w \in Worker : Owes(w) => Owes(w)'
      BY <1>0, <2>1, Workers DEF Owes
    <3>3. PICK v \in Worker : v = turn
      BY <1>0
    <3>4. Shard(v)' = Shard(v)
      BY <1>0, SameBatch
    <3>5. Owes(v)' /\ OneShard(v)'
      BY <1>0, <2>1, <2>4, <3>3, <3>4 DEF Owes, OneShard
    <3> QED BY <1>0, <3>1, <3>2, <3>3, <3>5, PipesAfter
  <2>6. SentToUsed'
    <3> SUFFICES ASSUME NEW w \in Worker, w < turn'
                 PROVE  Used(w)'
      BY DEF SentToUsed
    <3>1. Used(w)
      BY <1>0, <2>1, Workers DEF RewardIInv, SentToUsed
    <3> QED BY <1>0, <3>1, SameBatch
  <2>7. DeadHaveNone'
    <3>1. \A w \in Worker : inbox'[w] = inbox[w] \/ alive[w]
      BY <1>0, <1>1, <2>1 DEF RewardIInv, RewardTypes
    <3> QED BY <3>1, DeadSame
  <2> QED BY <1>0, <2>1, <2>2, <2>5, <2>6, <2>7 DEF RewardIInv, AnswersInOrder, RewardsInOrder
<1>2. CASE ~alive[turn]
  <2>1. inbox' = inbox /\ turn' = turn /\ place' = "raised"
    BY <1>2
  <2>2. RewardTypes'
    BY <1>0, <2>1 DEF RewardIInv, RewardTypes
  <2>3. PipesClean'
    BY <1>0, <2>1, PipesSame DEF Owes
  <2>4. DeadHaveNone'
    BY <2>1, DeadSame
  <2> QED BY <2>1, <2>2, <2>3, <2>4 DEF RewardIInv, AnswersInOrder, RewardsInOrder, SentToUsed
<1> QED BY <1>1, <1>2

LEMMA SentStep ==
    ASSUME RewardIInv, Sent
    PROVE  RewardIInv'
<1> USE DEF Sent, pipes
<1>0. /\ batch' = batch /\ groups' = groups /\ collected' = collected /\ rewards' = rewards
      /\ inbox' = inbox /\ outbox' = outbox /\ place = "send" /\ place' = "collect" /\ turn' = 1
  OBVIOUS
<1>1. RewardTypes'
  BY <1>0 DEF RewardIInv, RewardTypes
<1>2. PipesClean'
  <2>1. ASSUME NEW w \in Worker, Owes(w) PROVE Owes(w)'
    <3>1. Used(w) /\ w >= 1
      BY <1>0, <2>1, Workers DEF Owes, RewardIInv, SentToUsed
    <3> QED BY <1>0, <3>1, SameBatch DEF Owes
  <2> QED BY <1>0, <2>1, PipesSame
<1>3. Len(collected') = turn' - 1 /\ 1..(turn' - 1) = {}
  BY <1>0, OneElement DEF RewardIInv, AnswersInOrder
<1>4. DeadHaveNone'
  BY <1>0, DeadSame
<1> QED BY <1>0, <1>1, <1>2, <1>3, <1>4
        DEF RewardIInv, AnswersInOrder, RewardsInOrder, SentToUsed

\* What the trainer receives from the worker whose turn it is.
LEMMA Receives ==
    ASSUME RewardIInv, NEW v \in Worker, outbox[v] # <<>>,
           Received(v), inbox' = inbox
    PROVE  /\ Owes(v) /\ outbox[v] \in {<<Shard(v)>>, <<NoAnswer>>}
           /\ Quiet(v)'
           /\ \A w \in Worker : w # v => inbox'[w] = inbox[w] /\ outbox'[w] = outbox[w]
           /\ outbox' = [w \in Worker |-> outbox'[w]]
<1>1. Owes(v) /\ OneShard(v)
  BY DEF RewardIInv, PipesClean, Quiet
<1>2. inbox[v] = <<>> /\ outbox[v] \in {<<Shard(v)>>, <<NoAnswer>>}
  BY <1>1 DEF OneShard
<1>3. Tail(outbox[v]) = <<>>
  BY <1>2, OneElement
<1>4. outbox = [w \in Worker |-> outbox[w]]
  BY DEF RewardIInv, RewardTypes
<1>5. /\ outbox'[v] = <<>> /\ outbox' = [w \in Worker |-> outbox'[w]]
      /\ \A w \in Worker : w # v => outbox'[w] = outbox[w]
  BY <1>3, <1>4 DEF Received
<1> QED BY <1>1, <1>2, <1>5 DEF Quiet

LEMMA CollectStep ==
    ASSUME RewardIInv, Collect
    PROVE  RewardIInv'
<1> USE DEF Collect, Collecting
<1>0. /\ batch' = batch /\ groups' = groups /\ rewards' = rewards /\ inbox' = inbox
      /\ place = "collect" /\ place' = place /\ turn' = turn + 1 /\ turn \in Nat \ {0}
      /\ turn \in Worker /\ Used(turn) /\ outbox[turn] # <<>>
  BY Workers DEF RewardIInv, RewardTypes
<1>1. PICK v \in Worker : v = turn /\ v \in Nat \ {0}
  BY <1>0
<1>2. /\ outbox[v] \in {<<Shard(v)>>, <<NoAnswer>>} /\ Quiet(v)'
      /\ \A w \in Worker : w # v => inbox'[w] = inbox[w] /\ outbox'[w] = outbox[w]
      /\ outbox' = [w \in Worker |-> outbox'[w]]
  BY <1>0, <1>1, Receives
<1>3. Head(outbox[v]) = Shard(v)
  <2>1. Head(outbox[v]) # NoAnswer
    BY <1>1
  <2> QED BY <1>2, <2>1, OneElement
<1>4. collected' = Append(collected, Shard(v))
  BY <1>1, <1>3
<1>5. Shard(v) \in Answer /\ collected \in Seq(Answer)
  BY <1>0, <1>1, ShardIsAnswer DEF RewardIInv, RewardTypes
<1>6. /\ collected' \in Seq(Answer) /\ Len(collected') = Len(collected) + 1
      /\ \A w \in 1..Len(collected) : collected'[w] = collected[w]
      /\ collected'[Len(collected) + 1] = Shard(v)
  BY <1>4, <1>5, AppendProperties
<1>7. RewardTypes'
  <2>1. turn' \in Nat \ {0}
    BY <1>0
  <2> QED BY <1>0, <1>2, <1>6, <2>1 DEF RewardIInv, RewardTypes
<1>8. PipesClean'
  <2>1. ASSUME NEW w \in Worker, w # v, Owes(w) PROVE Owes(w)'
    <3>1. w >= turn /\ Used(w) /\ w \in Nat
      BY <1>0, <2>1, Workers DEF Owes
    <3>2. w >= turn' /\ Used(w)'
      BY <1>0, <1>1, <2>1, <3>1, SameBatch
    <3> QED BY <1>0, <3>2 DEF Owes
  <2> QED BY <1>0, <1>2, <2>1, PipesAfter
<1>9. AnswersInOrder'
  <2>1. /\ Len(collected) = v - 1
        /\ \A w \in 1..(v - 1) : w \in Worker /\ Used(w) /\ collected[w] = Shard(w)
    BY <1>0, <1>1 DEF RewardIInv, AnswersInOrder
  <2>2. Len(collected') = turn' - 1 /\ turn' - 1 = v
    BY <1>0, <1>1, <1>6, <2>1
  <2>3. ASSUME NEW w \in 1..v PROVE w \in Worker /\ Used(w) /\ collected'[w] = Shard(w)
    <3>1. CASE w = v
      BY <1>0, <1>1, <1>6, <2>1, <3>1
    <3>2. CASE w # v
      <4>1. w \in 1..(v - 1)
        BY <1>1, <3>2
      <4> QED BY <1>6, <2>1, <4>1
    <3> QED BY <3>1, <3>2
  <2>4. ASSUME NEW w \in 1..v PROVE w \in Worker /\ Used(w)' /\ collected'[w] = Shard(w)'
    BY <1>0, <2>3, SameBatch
  <2>5. Worker' = Worker
    BY DEF Worker
  <2> QED BY <1>0, <2>2, <2>4, <2>5 DEF AnswersInOrder
<1>10. DeadHaveNone'
  BY <1>0, DeadSame
<1> QED BY <1>0, <1>7, <1>8, <1>9, <1>10 DEF RewardIInv, SentToUsed, RewardsInOrder

LEMMA CollectFailureStep ==
    ASSUME RewardIInv, CollectFailure
    PROVE  RewardIInv'
<1> USE DEF CollectFailure, Collecting, DrainFrom
<1>0. /\ batch' = batch /\ groups' = groups /\ rewards' = rewards /\ inbox' = inbox
      /\ place = "collect" /\ place' = "drain" /\ turn' = (IF turn = 1 THEN 2 ELSE 1)
      /\ turn \in Nat \ {0} /\ collected' = Append(collected, NoAnswer)
      /\ turn \in Worker /\ Used(turn) /\ outbox[turn] # <<>>
  BY Workers DEF RewardIInv, RewardTypes
<1>1. PICK v \in Worker : v = turn /\ v \in Nat \ {0}
  BY <1>0
<1>2. /\ Quiet(v)'
      /\ \A w \in Worker : w # v => inbox'[w] = inbox[w] /\ outbox'[w] = outbox[w]
      /\ outbox' = [w \in Worker |-> outbox'[w]]
  BY <1>0, <1>1, Receives
<1>3. NoAnswer \in Answer /\ collected \in Seq(Answer)
  BY EmptySeq DEF NoAnswer, Answer, RewardIInv, RewardTypes
<1>4. collected' \in Seq(Answer) /\ Len(collected') = Len(collected) + 1
  BY <1>0, <1>3, AppendProperties
<1>5. Failed' = v
  <2>1. Len(collected) = v - 1
    BY <1>0, <1>1 DEF RewardIInv, AnswersInOrder
  <2> QED BY <1>1, <1>4, <2>1 DEF Failed
<1>6. RewardTypes'
  <2>1. turn' \in Nat \ {0}
    BY <1>0
  <2> QED BY <1>0, <1>2, <1>4, <2>1 DEF RewardIInv, RewardTypes
<1>7. PipesClean'
  <2>1. ASSUME NEW w \in Worker, w # v, Owes(w) PROVE Owes(w)'
    <3>1. w >= turn /\ Used(w) /\ w \in Nat
      BY <1>0, <2>1, Workers DEF Owes
    <3>2. w >= turn' /\ Used(w)'
      BY <1>0, <1>1, <2>1, <3>1, SameBatch
    <3> QED BY <1>0, <1>5, <2>1, <3>2 DEF Owes
  <2> QED BY <1>0, <1>2, <2>1, PipesAfter
<1>8. DeadHaveNone'
  BY <1>0, DeadSame
<1> QED BY <1>0, <1>6, <1>7, <1>8 DEF RewardIInv, SentToUsed, RewardsInOrder, AnswersInOrder

LEMMA DrainStep ==
    ASSUME RewardIInv, Drain
    PROVE  RewardIInv'
<1> USE DEF Drain, Draining
<1>0. /\ batch' = batch /\ groups' = groups /\ rewards' = rewards /\ inbox' = inbox
      /\ place = "drain" /\ place' = place /\ collected' = collected
      /\ turn \in Nat \ {0} /\ turn \in Worker /\ Used(turn)
      /\ turn' = (IF turn + 1 = Failed THEN turn + 2 ELSE turn + 1)
  BY Workers DEF RewardIInv, RewardTypes
<1>1. PICK v \in Worker : v = turn /\ v \in Nat \ {0}
  BY <1>0
<1>2. Failed' = Failed
  BY <1>0 DEF Failed
<1>3. turn' \in Nat \ {0}
  BY <1>0
<1>4. ASSUME NEW w \in Worker, w # v, Owes(w) PROVE Owes(w)'
  <2>1. w >= turn /\ Used(w) /\ w \in Nat /\ w # Failed
    BY <1>0, <1>4, Workers DEF Owes
  <2>2. w >= turn'
    <3>1. w >= turn + 1
      BY <1>1, <1>4, <2>1
    <3>2. CASE turn + 1 = Failed
      BY <1>0, <2>1, <3>1, <3>2
    <3> QED BY <1>0, <3>1, <3>2
  <2> QED BY <1>0, <1>2, <2>1, <2>2, SameBatch DEF Owes
<1>5. /\ Quiet(v)'
      /\ \A w \in Worker : w # v => inbox'[w] = inbox[w] /\ outbox'[w] = outbox[w]
      /\ outbox' = [w \in Worker |-> outbox'[w]]
  <2>1. CASE outbox[turn] # <<>> /\ Received(turn)
    BY <1>0, <1>1, <2>1, Receives
  <2>2. CASE Closed(turn) /\ outbox' = outbox
    <3>1. outbox[v] = <<>>
      BY <1>1, <2>2 DEF Closed
    <3>2. inbox[v] = <<>>
      BY <1>1, <2>2 DEF Closed, DeadHaveNone, RewardIInv
    <3> QED BY <1>0, <2>2, <3>1, <3>2 DEF Quiet, RewardIInv, RewardTypes
  <2> QED BY <2>1, <2>2
<1>6. PipesClean'
  BY <1>0, <1>4, <1>5, PipesAfter
<1>7. RewardTypes'
  BY <1>0, <1>3, <1>5 DEF RewardIInv, RewardTypes
<1>8. DeadHaveNone'
  BY <1>0, DeadSame
<1> QED BY <1>0, <1>6, <1>7, <1>8 DEF RewardIInv, SentToUsed, RewardsInOrder, AnswersInOrder

\* Steps of the trainer that leave the pipes alone, and do not begin to collect.
LEMMA TrainerStep ==
    ASSUME RewardIInv,
           CollectClosed \/ Drained \/ Compute \/ UNCHANGED rewardVars
    PROVE  RewardIInv'
<1>0. /\ batch' = batch /\ groups' = groups /\ inbox' = inbox /\ outbox' = outbox
      /\ alive' = alive /\ rewards' = rewards /\ collected' = collected /\ turn' = turn
  BY DEF CollectClosed, Drained, Compute, rewardVars, pipes
<1>1. DeadHaveNone'
  BY <1>0, DeadSame
<1>2. CASE CollectClosed
  <2>1. place = "collect" /\ place' = "raised"
    BY <1>2 DEF CollectClosed, Collecting
  <2>2. PipesClean'
    BY <1>0, <2>1, PipesSame DEF Owes
  <2>3. RewardTypes'
    BY <1>0, <2>1 DEF RewardIInv, RewardTypes
  <2> QED BY <1>0, <1>1, <2>1, <2>2, <2>3 DEF RewardIInv, SentToUsed, AnswersInOrder, RewardsInOrder
<1>3. CASE Drained
  <2>1. place = "drain" /\ place' = "compute" /\ (~(turn <= NWorkers) \/ ~Used(turn))
    BY <1>3 DEF Drained, Draining
  <2>2. turn > NWorkers \/ ~Used(turn)
    BY <2>1, Workers DEF RewardIInv, RewardTypes
  <2>3. \A w \in Worker : ~Owes(w)
    BY <2>1, <2>2, NobodyLeft DEF Owes, RewardIInv
  <2>4. PipesClean'
    BY <1>0, <2>3, PipesSame
  <2>5. RewardTypes'
    BY <1>0, <2>1 DEF RewardIInv, RewardTypes
  <2> QED BY <1>0, <1>1, <2>1, <2>4, <2>5 DEF RewardIInv, SentToUsed, AnswersInOrder, RewardsInOrder
<1>4. CASE Compute
  <2>1. place = "compute" /\ place' \in {"idle", "raised"}
    BY <1>4 DEF Compute
  <2>2. PipesClean'
    BY <1>0, <2>1, PipesSame DEF Owes
  <2>3. RewardTypes'
    BY <1>0, <2>1 DEF RewardIInv, RewardTypes
  <2>4. RewardsInOrder'
    BY <1>0, <2>1, SameRewards DEF RewardIInv, RewardsInOrder
  <2> QED BY <1>1, <2>1, <2>2, <2>3, <2>4 DEF RewardIInv, SentToUsed, AnswersInOrder
<1>5. CASE UNCHANGED rewardVars
  <2>1. place' = place
    BY <1>5 DEF rewardVars
  <2>2. \A w \in Worker : Owes(w) => Owes(w)'
    <3> TAKE w \in Worker
    <3>1. (Used(w)' <=> Used(w)) /\ Failed' = Failed
      BY <1>0, SameBatch DEF Failed
    <3> QED BY <1>0, <2>1, <3>1 DEF Owes
  <2>3. PipesClean'
    BY <1>0, <2>2, PipesSame
  <2>4. RewardTypes'
    BY <1>0, <2>1 DEF RewardIInv, RewardTypes
  <2>5. RewardsInOrder'
    BY <1>0, <2>1, SameRewards DEF RewardIInv, RewardsInOrder
  <2>6. SentToUsed'
    BY <1>0, <2>1, SameBatch DEF RewardIInv, SentToUsed, Worker
  <2>7. AnswersInOrder'
    BY <1>0, <2>1, SameBatch DEF RewardIInv, AnswersInOrder, Worker
  <2> QED BY <1>1, <2>3, <2>4, <2>5, <2>6, <2>7 DEF RewardIInv
<1> QED BY <1>2, <1>3, <1>4, <1>5

\* A worker computes, fails or dies.
LEMMA WorkerStep ==
    ASSUME RewardIInv, NEW v \in Worker, Work(v) \/ Die(v)
    PROVE  RewardIInv'
<1>0. /\ batch' = batch /\ groups' = groups /\ place' = place /\ turn' = turn
      /\ rewards' = rewards /\ collected' = collected
  BY DEF Work, Die
<1>1. ASSUME NEW w \in Worker PROVE (Owes(w)' <=> Owes(w)) /\ Shard(w)' = Shard(w)
  <2>1. (Used(w)' <=> Used(w)) /\ Failed' = Failed /\ Shard(w)' = Shard(w)
    BY <1>0, SameBatch DEF Failed
  <2> QED BY <1>0, <2>1 DEF Owes
<1>2. RewardsInOrder'
  BY <1>0, SameRewards DEF RewardIInv, RewardsInOrder
<1>3. SentToUsed'
  BY <1>0, SameBatch DEF RewardIInv, SentToUsed, Worker
<1>4. AnswersInOrder'
  BY <1>0, SameBatch DEF RewardIInv, AnswersInOrder, Worker
<1>5. /\ inbox = [w \in Worker |-> inbox[w]] /\ outbox = [w \in Worker |-> outbox[w]]
      /\ alive = [w \in Worker |-> alive[w]]
  BY DEF RewardIInv, RewardTypes, DeadHaveNone
<1>6. CASE Work(v)
  <2>1. /\ inbox[v] # <<>> /\ alive' = alive /\ alive[v]
        /\ inbox' = [inbox EXCEPT ![v] = Tail(inbox[v])]
        /\ \/ outbox' = [outbox EXCEPT ![v] = Append(outbox[v], Head(inbox[v]))]
           \/ outbox' = [outbox EXCEPT ![v] = Append(outbox[v], NoAnswer)]
    BY <1>6 DEF Work, AnswerNone
  <2>2. Owes(v) /\ inbox[v] = <<Shard(v)>> /\ outbox[v] = <<>>
    BY <2>1 DEF RewardIInv, PipesClean, Quiet, OneShard
  <2>3. Tail(inbox[v]) = <<>> /\ Head(inbox[v]) = Shard(v)
    BY <2>2, OneElement
  <2>4. inbox'[v] = <<>> /\ outbox'[v] \in {<<Shard(v)>>, <<NoAnswer>>}
    BY <1>5, <2>1, <2>2, <2>3, OneElement
  <2>5. \A w \in Worker : w # v => inbox'[w] = inbox[w] /\ outbox'[w] = outbox[w]
    BY <1>5, <2>1
  <2>6. inbox' = [w \in Worker |-> inbox'[w]] /\ outbox' = [w \in Worker |-> outbox'[w]]
    BY <1>5, <2>1
  <2>7. Owes(v)' /\ OneShard(v)'
    BY <1>1, <2>2, <2>4 DEF OneShard, NoAnswer
  <2>8. PipesClean'
    BY <1>0, <1>1, <2>5, <2>7, PipesAfter
  <2>9. RewardTypes'
    BY <1>0, <2>6 DEF RewardIInv, RewardTypes
  <2>10. DeadHaveNone'
    BY <2>1, <2>5, DeadSame
  <2> QED BY <1>2, <1>3, <1>4, <2>8, <2>9, <2>10 DEF RewardIInv
<1>7. CASE Die(v)
  <2>1. /\ inbox' = [inbox EXCEPT ![v] = <<>>] /\ outbox' = outbox
        /\ alive' = [alive EXCEPT ![v] = FALSE]
    BY <1>7 DEF Die
  <2>2. inbox'[v] = <<>> /\ \A w \in Worker : w # v => inbox'[w] = inbox[w]
    BY <1>5, <2>1
  <2>3. inbox' = [w \in Worker |-> inbox'[w]] /\ outbox' = [w \in Worker |-> outbox'[w]]
    BY <1>5, <2>1
  <2>4. Quiet(v)' \/ (Owes(v)' /\ OneShard(v)')
    BY <1>1, <2>1, <2>2 DEF Quiet, OneShard, RewardIInv, PipesClean, NoAnswer
  <2>5. PipesClean'
    BY <1>0, <1>1, <2>1, <2>2, <2>4, PipesAfter
  <2>6. RewardTypes'
    BY <1>0, <2>3 DEF RewardIInv, RewardTypes
  <2>7. DeadHaveNone'
    <3>1. Worker' = Worker
      BY DEF Worker
    <3>2. alive' = [w \in Worker |-> alive'[w]]
      BY <1>5, <2>1
    <3>3. \A w \in Worker : ~alive'[w] => inbox'[w] = <<>>
      BY <1>5, <2>1, <2>2 DEF DeadHaveNone, RewardIInv
    <3> QED BY <3>1, <3>2, <3>3 DEF DeadHaveNone
  <2> QED BY <1>2, <1>3, <1>4, <2>5, <2>6, <2>7 DEF RewardIInv
<1> QED BY <1>6, <1>7

\* The answers of all workers used are the rewards of the whole batch.
LEMMA AssembleStep ==
    ASSUME RewardIInv, Assemble
    PROVE  RewardIInv'
<1>0. /\ batch' = batch /\ groups' = groups /\ inbox' = inbox /\ outbox' = outbox
      /\ alive' = alive /\ rewards' = FlattenSeq(collected) /\ collected' = collected
      /\ turn' = turn /\ place = "collect" /\ place' = "idle"
      /\ ~(turn <= NWorkers) \/ ~Used(turn)
  BY DEF Assemble, pipes, Collecting
<1>1. turn > NWorkers \/ ~Used(turn)
  BY <1>0, Workers DEF RewardIInv, RewardTypes
<1>2. PipesClean'
  <2>1. \A w \in Worker : ~Owes(w)
    BY <1>0, <1>1, NobodyLeft DEF Owes, RewardIInv
  <2> QED BY <1>0, <2>1, PipesSame
<1>3. RewardTypes'
  BY <1>0 DEF RewardIInv, RewardTypes
<1>4. DeadHaveNone'
  BY <1>0, DeadSame
<1>5. FlattenSeq(collected) = FirstRewards(groups)
  <2> DEFINE n == turn - 1
  <2>0. groups \in Nat \ {0} /\ turn \in Nat \ {0} /\ NWorkers \in Nat \ {0}
    BY Workers DEF RewardIInv, RewardTypes
  <2>1. /\ Len(collected) = n
        /\ \A w \in 1..n : w \in Worker /\ Used(w) /\ collected[w] = Shard(w)
    BY <1>0 DEF RewardIInv, AnswersInOrder
  <2>2. n \in Nat \ {0}
    <3>1. Used(1)
      BY <2>0, GroupBounds
    <3> QED BY <1>1, <2>0, <3>1
  <2>3. FlattenSeq(collected) = FirstRewards(LastGroup(n))
    <3> HIDE DEF n
    <3> QED BY <2>0, <2>1, <2>2, FlattenedShards
  <2>4. LastGroup(n) = groups
    <3>1. n \in Worker /\ n <= NWorkers /\ n + 1 = turn
      <4>1. n \in 1..n
        <5> HIDE DEF n
        <5> QED BY <2>2
      <4> QED BY <2>0, <2>1, <2>2, <4>1, Workers
    <3>2. CASE ~Used(turn)
      BY <2>0, <2>2, <3>1, <3>2, GroupBounds
    <3>3. CASE turn > NWorkers
      <4>1. n = NWorkers
        BY <2>0, <3>1, <3>3
      <4> QED BY <2>0, <2>2, <4>1, GroupBounds
    <3> QED BY <1>1, <3>2, <3>3
  <2> QED BY <2>3, <2>4
<1>6. RewardsInOrder'
  BY <1>0, <1>5, SameRewards DEF RewardsInOrder
<1> QED BY <1>0, <1>2, <1>3, <1>4, <1>6 DEF RewardIInv, SentToUsed, AnswersInOrder

\* The invariant of the reward workers: the pipes of a worker are empty, unless
\* it owes the trainer its answer to this batch and its pipes hold the one shard
\* it was sent, or what it answered; what has been collected is the shards of
\* the first workers, and the rewards are those of the groups in order.
THEOREM RewardInvariant ==
    RewardSpec => []RewardIInv
<1>1. RewardInit => RewardIInv
  BY RewardStarts
<1>2. RewardIInv /\ [RewardNext]_rewardVars => RewardIInv'
  <2> SUFFICES ASSUME RewardIInv, [RewardNext]_rewardVars PROVE RewardIInv'
    OBVIOUS
  <2> QED BY LaunchStep, SendStep, SentStep, CollectStep, CollectFailureStep, DrainStep,
             TrainerStep, WorkerStep, AssembleStep DEF RewardNext
<1> QED BY <1>1, <1>2, PTL DEF RewardSpec

\* Rewards belong to the batch and the pipes are empty between batches.
THEOREM RewardsOfThisBatchHolds ==
    RewardSpec => []RewardsOfThisBatch
<1>1. RewardIInv => RewardsOfThisBatch
  <2> SUFFICES ASSUME RewardIInv PROVE RewardsOfThisBatch
    OBVIOUS
  <2>1. (place = "idle" /\ rewards # <<>>) => rewards = [g \in 1..groups |-> <<batch, g>>]
    BY DEF RewardIInv, RewardsInOrder, FirstRewards
  <2>2. ASSUME NEW w \in Worker PROVE Len(inbox[w]) + Len(outbox[w]) <= 1
    <3>1. Quiet(w) \/ OneShard(w)
      BY DEF RewardIInv, PipesClean
    <3>2. /\ inbox[w] = <<>> \/ inbox[w] = <<Shard(w)>>
          /\ outbox[w] = <<>> \/ outbox[w] = <<Shard(w)>> \/ outbox[w] = <<NoAnswer>>
          /\ inbox[w] = <<>> \/ outbox[w] = <<>>
      BY <3>1 DEF Quiet, OneShard
    <3> DEFINE i == Len(inbox[w])
               o == Len(outbox[w])
    <3>3. (i = 0 \/ i = 1) /\ (inbox[w] = <<>> => i = 0)
      BY <3>2, OneElement
    <3>4. (o = 0 \/ o = 1) /\ (outbox[w] = <<>> => o = 0)
      BY <3>2, OneElement
    <3>5. i = 0 \/ o = 0
      BY <3>2, <3>3, <3>4
    <3> HIDE DEF i, o
    <3>6. i + o <= 1
      BY <3>3, <3>4, <3>5
    <3> QED BY <3>6 DEF i, o
  <2>3. ASSUME place = "idle" PROVE inbox = Empty /\ outbox = Empty
    <3>1. \A w \in Worker : Quiet(w)
      BY <2>3 DEF RewardIInv, PipesClean, Owes
    <3> QED BY <3>1 DEF Quiet, Empty, RewardIInv, RewardTypes
  <2> QED BY <2>1, <2>2, <2>3 DEF RewardsOfThisBatch
<1> QED BY <1>1, RewardInvariant, PTL
=============================================================================
