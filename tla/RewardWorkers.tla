---------------------------- MODULE RewardWorkers ----------------------------
(***************************************************************************)
(* The reward subprocess pool of FastAsyncGRPOTrainer                      *)
(* (core/trainers/grpo/fast_async_trainer.py).  For every batch the        *)
(* trainer sends each worker a run of prompt groups, goes on with its own  *)
(* work, and collects the answers in the workers' order.  A worker that    *)
(* cannot compute its rewards answers None, and the trainer computes the   *)
(* whole batch itself.                                                     *)
(*                                                                         *)
(* Workers are processes with a duplex pipe each: they compute, fail or    *)
(* die on their own.  A reward is the batch and the group it belongs to.   *)
(***************************************************************************)
EXTENDS Integers, Sequences, SequencesExt

CONSTANTS
    NWorkers,    \* reward_num_workers
    MaxGroups,   \* bound: prompt groups in a batch
    MaxBatches,  \* bound: batches
    MaxFaults    \* bound: reward functions that raise, workers that die

ASSUME WorkerAssumption ==
    /\ NWorkers \in Nat /\ NWorkers > 1
    /\ {MaxGroups, MaxBatches} \subseteq Nat \ {0}
    /\ MaxFaults \in Nat

Worker == 1..NWorkers
NoAnswer == <<>>        \* the None a worker sends when it fails

VARIABLES
    pool,       \* _reward_workers: do the processes exist?
    alive,      \* is_alive() of each
    inbox,      \* shards sent to each worker and not received by it
    outbox,     \* answers it sent that the trainer has not received
    batch,      \* the number of this batch, and its groups
    groups,
    place,      \* where the trainer is
    turn,       \* the worker it sends to or receives from
    collected,  \* all_worker_results
    rewards,    \* the rewards of the last batch, <<>> when there are none
    faults

pipes == <<inbox, outbox>>
rewardVars == <<pool, alive, pipes, batch, groups, place, turn, collected, rewards, faults>>

\* The groups of worker w.
Share(g) == (g + NWorkers - 1) \div NWorkers
FirstGroup(w) == (w - 1) * Share(groups) + 1
LastGroup(w) == IF w * Share(groups) < groups THEN w * Share(groups) ELSE groups
Used(w) == FirstGroup(w) <= groups

\* The shard of worker w, and the answer to it.
Shard(w) == [i \in 1..(LastGroup(w) - FirstGroup(w) + 1) |-> <<batch, FirstGroup(w) + i - 1>>]

Empty == [w \in Worker |-> <<>>]

RewardInit ==
    /\ pool = FALSE /\ alive = [w \in Worker |-> FALSE]
    /\ inbox = Empty /\ outbox = Empty
    /\ batch = 0 /\ groups = 1
    /\ place = "idle" /\ turn = 1 /\ collected = <<>> /\ rewards = <<>>
    /\ faults = 0

-----------------------------------------------------------------------------
(* The trainer.                                                            *)

\* _get_reward_workers: the pool is reused when every process is alive, and
\* replaced as a whole, pipes included, when one is not.
Launch ==
    /\ place = "idle" /\ batch < MaxBatches
    /\ batch' = batch + 1 /\ groups' \in 1..MaxGroups
    /\ pool' = TRUE
    /\ IF pool /\ \A w \in Worker : alive[w]
         THEN UNCHANGED <<alive, pipes>>
         ELSE alive' = [w \in Worker |-> TRUE] /\ inbox' = Empty /\ outbox' = Empty
    /\ place' = "send" /\ turn' = 1 /\ collected' = <<>> /\ rewards' = <<>>
    /\ UNCHANGED faults

\* conn.send of one shard; it raises when the process has died.
Send ==
    /\ place = "send" /\ turn <= NWorkers /\ Used(turn)
    /\ IF alive[turn]
         THEN /\ inbox' = [inbox EXCEPT ![turn] = Append(@, Shard(turn))]
              /\ turn' = turn + 1 /\ UNCHANGED place
         ELSE place' = "raised" /\ UNCHANGED <<inbox, turn>>
    /\ UNCHANGED <<pool, alive, outbox, batch, groups, collected, rewards, faults>>

Sent ==
    /\ place = "send" /\ (turn > NWorkers \/ ~Used(turn))
    /\ place' = "collect" /\ turn' = 1
    /\ UNCHANGED <<pool, alive, pipes, batch, groups, collected, rewards, faults>>

Collecting(w) == place = "collect" /\ w <= NWorkers /\ Used(w)
Received(w) == outbox' = [outbox EXCEPT ![w] = Tail(@)]
Closed(w) == outbox[w] = <<>> /\ ~alive[w]

\* conn.recv returns the rewards of one shard.
Collect ==
    /\ Collecting(turn) /\ outbox[turn] # <<>> /\ Head(outbox[turn]) # NoAnswer
    /\ collected' = Append(collected, Head(outbox[turn]))
    /\ Received(turn) /\ turn' = turn + 1
    /\ UNCHANGED <<pool, alive, inbox, batch, groups, place, rewards, faults>>

\* EOFError: the worker died without an answer.
CollectClosed ==
    /\ Collecting(turn) /\ Closed(turn)
    /\ place' = "raised"
    /\ UNCHANGED <<pool, alive, pipes, batch, groups, turn, collected, rewards, faults>>

\* Where draining starts, and ends without having started as its mutant.
DrainNone(w) == "compute"
DrainFrom(w) == "drain"

\* None: any_failed, and the other workers are drained, the first one first.
CollectFailure ==
    /\ Collecting(turn) /\ outbox[turn] # <<>> /\ Head(outbox[turn]) = NoAnswer
    /\ Received(turn)
    /\ place' = DrainFrom(turn) /\ turn' = IF turn = 1 THEN 2 ELSE 1
    /\ collected' = Append(collected, NoAnswer)
    /\ UNCHANGED <<pool, alive, inbox, batch, groups, rewards, faults>>

\* The worker that failed: the answers before its own were rewards.
Failed == Len(collected)
Draining(w) == place = "drain" /\ w <= NWorkers /\ Used(w)

\* remaining_conn.recv() of every worker used but the one that failed, whether
\* its answer has been collected or not; an exception is swallowed.
Drain ==
    /\ Draining(turn)
    /\ \/ outbox[turn] # <<>> /\ Received(turn)
       \/ Closed(turn) /\ UNCHANGED outbox
    /\ turn' = IF turn + 1 = Failed THEN turn + 2 ELSE turn + 1
    /\ UNCHANGED <<pool, alive, inbox, batch, groups, place, collected, rewards, faults>>

Drained ==
    /\ place = "drain" /\ ~Draining(turn)
    /\ place' = "compute"
    /\ UNCHANGED <<pool, alive, pipes, batch, groups, turn, collected, rewards, faults>>

\* _calculate_rewards on this thread returns or raises.
Compute ==
    /\ place = "compute"
    /\ place' \in {"idle", "raised"}
    /\ UNCHANGED <<pool, alive, pipes, batch, groups, turn, collected, rewards, faults>>

\* Every worker has answered: the rewards, in the workers' order.
Assemble ==
    /\ place = "collect" /\ ~Collecting(turn)
    /\ rewards' = FlattenSeq(collected)
    /\ place' = "idle"
    /\ UNCHANGED <<pool, alive, pipes, batch, groups, turn, collected, faults>>

-----------------------------------------------------------------------------
(* The workers: _persistent_reward_worker.                                 *)

\* A failed worker answers None; as its mutant, it goes on to the next shard.
Silent(w) == UNCHANGED outbox
AnswerNone(w) == outbox' = [outbox EXCEPT ![w] = Append(@, NoAnswer)]

Work(w) ==
    /\ alive[w] /\ inbox[w] # <<>>
    /\ inbox' = [inbox EXCEPT ![w] = Tail(@)]
    /\ \/ outbox' = [outbox EXCEPT ![w] = Append(@, Head(inbox[w]))] /\ UNCHANGED faults
       \/ faults < MaxFaults /\ faults' = faults + 1 /\ AnswerNone(w)
    /\ UNCHANGED <<pool, alive, batch, groups, place, turn, collected, rewards>>

\* The process dies, with the shard it works on or between two; what it has
\* sent can still be received.
Die(w) ==
    /\ alive[w] /\ faults < MaxFaults
    /\ alive' = [alive EXCEPT ![w] = FALSE] /\ faults' = faults + 1
    /\ inbox' = [inbox EXCEPT ![w] = <<>>]
    /\ UNCHANGED <<pool, outbox, batch, groups, place, turn, collected, rewards>>

-----------------------------------------------------------------------------
Trainer ==
    \/ Send \/ Sent \/ Collect \/ CollectClosed \/ CollectFailure
    \/ Drain \/ Drained \/ Compute \/ Assemble

RewardNext ==
    \/ Launch
    \/ Send \/ Sent \/ Collect \/ CollectClosed \/ CollectFailure
    \/ Drain \/ Drained \/ Compute \/ Assemble
    \/ \E w \in Worker : Work(w) \/ Die(w)
    \/ place = "raised" /\ UNCHANGED rewardVars
    \/ place = "idle" /\ batch = MaxBatches /\ UNCHANGED rewardVars

RewardSpec == RewardInit /\ [][RewardNext]_rewardVars

\* Every worker is scheduled and every reward function returns or raises; the
\* trainer carries on a batch it has begun.
RewardFairSpec == RewardSpec /\ WF_rewardVars(Trainer) /\ \A w \in Worker : WF_rewardVars(Work(w))

-----------------------------------------------------------------------------
(* Properties.                                                             *)

\* Rewards are those of this batch's groups, each once and in order: no
\* answer of an earlier batch that failed is left in a pipe for a later one.
\* Between batches the pipes are empty, and a worker has one shard at a time.
RewardsOfThisBatch ==
    /\ (place = "idle" /\ rewards # <<>>) => rewards = [g \in 1..groups |-> <<batch, g>>]
    /\ \A w \in Worker : Len(inbox[w]) + Len(outbox[w]) <= 1
    /\ place = "idle" => inbox = Empty /\ outbox = Empty

\* A batch that was sent out comes back, unless the trainer drains the pool
\* after a worker other than the first has failed.
CollectsUnlessLateFailure ==
    (place = "collect") ~> (place \in {"idle", "raised"} \/ (place = "drain" /\ Failed > 1))
=============================================================================
