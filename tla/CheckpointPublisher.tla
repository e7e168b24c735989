------------------------- MODULE CheckpointPublisher -------------------------
(***************************************************************************)
(* BackgroundCheckpointPublisher (core/checkpoint_publisher.py): the       *)
(* training thread retains each finished checkpoint in a private directory *)
(* and queues it; one executor thread publishes the directories in order   *)
(* and removes them.  Jobs are numbered in submission order.               *)
(*                                                                         *)
(* The producer's calls (check, submit, close) are several steps each, and *)
(* the executor's shutdown cancels queued jobs one at a time while the     *)
(* worker goes on taking jobs from the same queue.                         *)
(***************************************************************************)
EXTENDS Integers, Sequences

CONSTANT MaxJobs    \* bound: checkpoints submitted

ASSUME PublisherAssumption == MaxJobs \in Nat \ {0}

Job == 1..MaxJobs
NoJob == 0

VARIABLES
    accepted,   \* jobs handed to the executor
    future,     \* the Future of each job
    previous,   \* the future _publish waits for first, NoJob if None
    dir,        \* the retained directory of each job
    futures,    \* self.futures
    closed,     \* self.closed
    pc,         \* where the producer is in the call it makes
    call,       \* the call: "check", "submit", "drain" or "cancel" (close)
    stage,      \* where the executor thread is in _publish
    published,  \* the jobs publish() has returned for, in order
    raised      \* has a check raised a publication failure?

producer == <<pc, call>>
vars == <<accepted, future, previous, dir, futures, closed, producer, stage,
          published, raised>>

Final == {"ok", "failed", "cancelled"}

Init ==
    /\ accepted = 0
    /\ future = [j \in Job |-> "none"]
    /\ previous = [j \in Job |-> NoJob]
    /\ dir = [j \in Job |-> "none"]
    /\ futures = <<>> /\ closed = FALSE
    /\ pc = "idle" /\ call = "check"
    /\ stage = [job |-> NoJob, at |-> "idle"]
    /\ published = <<>> /\ raised = FALSE

-----------------------------------------------------------------------------
(* The producer.                                                           *)

\* A call of check, or of submit while the publisher is open (a closed one
\* raises).
Call(c) ==
    /\ pc = "idle"
    /\ c = "check" \/ ~closed
    /\ pc' = "checking" /\ call' = c
    /\ UNCHANGED <<accepted, future, previous, dir, futures, closed, stage, published, raised>>

\* Mutant of CheckPop: whatever is done leaves the head, its result unread.
CheckPopDone ==
    /\ pc = "checking"
    /\ futures # <<>> /\ future[Head(futures)] \in Final
    /\ futures' = Tail(futures)
    /\ UNCHANGED <<accepted, future, previous, dir, closed, producer, stage, published, raised>>

\* check: futures that succeeded leave the head.
CheckPop ==
    /\ pc = "checking"
    /\ futures # <<>> /\ future[Head(futures)] = "ok"
    /\ futures' = Tail(futures)
    /\ UNCHANGED <<accepted, future, previous, dir, closed, producer, stage, published, raised>>

\* future.result() raises: the failed future stays at the head.
CheckRaise ==
    /\ pc = "checking"
    /\ futures # <<>> /\ future[Head(futures)] \in {"failed", "cancelled"}
    /\ raised' = TRUE
    /\ pc' = "idle"
    /\ UNCHANGED <<accepted, future, previous, dir, futures, closed, call, stage, published>>

CheckDone ==
    /\ pc = "checking"
    /\ futures # <<>> => future[Head(futures)] \notin Final
    /\ pc' = IF call = "submit" /\ accepted < MaxJobs THEN "retaining" ELSE "idle"
    /\ UNCHANGED <<accepted, future, previous, dir, futures, closed, call, stage, published, raised>>

\* retain(source, queue_root): the directory exists, or the call raised and
\* left none.
Retain ==
    /\ pc = "retaining"
    /\ \/ dir' = [dir EXCEPT ![accepted + 1] = "retained"] /\ pc' = "retained"
       \/ pc' = "idle" /\ UNCHANGED dir
    /\ UNCHANGED <<accepted, future, previous, futures, closed, call, stage, published, raised>>

\* executor.submit(_publish, retained, step, previous) and futures.append.
Enqueue ==
    /\ pc = "retained"
    /\ accepted' = accepted + 1
    /\ future' = [future EXCEPT ![accepted + 1] = "pending"]
    /\ previous' = [previous EXCEPT ![accepted + 1] =
                      IF futures = <<>> THEN NoJob ELSE futures[Len(futures)]]
    /\ futures' = Append(futures, accepted + 1)
    /\ pc' = "idle"
    /\ UNCHANGED <<dir, closed, call, stage, published, raised>>

\* close(cancel_pending): no more submissions; the executor shuts down.
Close(c) ==
    /\ pc = "idle"
    /\ closed' = TRUE
    /\ call' = c
    /\ pc' = IF c = "cancel" THEN "cancelling" ELSE "joining"
    /\ UNCHANGED <<accepted, future, previous, dir, futures, stage, published, raised>>

Pending == {j \in Job : future[j] = "pending"}
FirstPending(j) == j \in Pending /\ \A i \in Pending : j <= i

\* The done callback of a cancelled job; as its mutant, there is none.
KeptOnCancel(j) == dir
RemovedOnCancel(j) == [dir EXCEPT ![j] = "removed"]

\* shutdown(cancel_futures=True) takes one job off the executor's queue and
\* cancels it; the done callback removes its directory.
CancelPending ==
    /\ pc = "cancelling"
    /\ \E j \in Job :
          /\ FirstPending(j)
          /\ future' = [future EXCEPT ![j] = "cancelled"]
          /\ dir' = RemovedOnCancel(j)
    /\ UNCHANGED <<accepted, previous, futures, closed, producer, stage, published, raised>>

CancelDone ==
    /\ pc = "cancelling" /\ Pending = {}
    /\ pc' = "joining"
    /\ UNCHANGED <<accepted, future, previous, dir, futures, closed, call, stage, published, raised>>

\* shutdown(wait=True): the worker exits when its queue is empty.
Joined ==
    /\ pc = "joining"
    /\ Pending = {} /\ stage.job = NoJob
    /\ pc' = IF call = "cancel" THEN "idle" ELSE "checking"
    /\ UNCHANGED <<accepted, future, previous, dir, futures, closed, call, stage, published, raised>>

-----------------------------------------------------------------------------
(* The executor's one thread.                                              *)

Take ==
    /\ stage.job = NoJob
    /\ \E j \in Job :
          /\ FirstPending(j)
          /\ future' = [future EXCEPT ![j] = "running"]
          /\ stage' = [job |-> j, at |-> "await"]
    /\ UNCHANGED <<accepted, previous, dir, futures, closed, producer, published, raised>>

\* previous.result() comes back; as its mutant, only when it succeeded.
PreviousPublished(p) == p # NoJob => future[p] = "ok"
PreviousOver(p) == p # NoJob => future[p] \in Final

\* It came back without raising; as its mutant, its outcome is ignored.
PreviousIgnored(p) == TRUE
PreviousOk(p) == p # NoJob => future[p] = "ok"

\* previous.result(): returns, raises what the previous job raised, or waits.
AwaitPrevious ==
    /\ stage.at = "await"
    /\ LET p == previous[stage.job] IN
        /\ PreviousOver(p)
        /\ stage' = [stage EXCEPT !.at = IF PreviousOk(p) THEN "publish" ELSE "failing"]
    /\ UNCHANGED <<accepted, future, previous, dir, futures, closed, producer, published, raised>>

\* publish(directory, step) returns or raises.
Publish ==
    /\ stage.at = "publish"
    /\ \/ published' = Append(published, stage.job) /\ stage' = [stage EXCEPT !.at = "ok"]
       \/ stage' = [stage EXCEPT !.at = "failing"] /\ UNCHANGED published
    /\ UNCHANGED <<accepted, future, previous, dir, futures, closed, producer, raised>>

\* finally: rmtree(directory); then the executor sets the future's result.
RemoveDirectory ==
    /\ stage.at \in {"ok", "failing"} /\ dir[stage.job] = "retained"
    /\ dir' = [dir EXCEPT ![stage.job] = "removed"]
    /\ UNCHANGED <<accepted, future, previous, futures, closed, producer, stage, published, raised>>

SetResult ==
    /\ stage.at \in {"ok", "failing"} /\ dir[stage.job] = "removed"
    /\ future' = [future EXCEPT ![stage.job] = IF stage.at = "ok" THEN "ok" ELSE "failed"]
    /\ stage' = [job |-> NoJob, at |-> "idle"]
    /\ UNCHANGED <<accepted, previous, dir, futures, closed, producer, published, raised>>

Worker == Take \/ AwaitPrevious \/ Publish \/ RemoveDirectory \/ SetResult

\* A call the producer has begun.
Producing ==
    \/ CheckPop \/ CheckRaise \/ CheckDone \/ Retain \/ Enqueue
    \/ CancelPending \/ CancelDone \/ Joined

Next ==
    \/ \E c \in {"check", "submit"} : Call(c)
    \/ \E c \in {"drain", "cancel"} : Close(c)
    \/ CheckPop \/ CheckRaise \/ CheckDone \/ Retain \/ Enqueue
    \/ CancelPending \/ CancelDone \/ Joined
    \/ Take \/ AwaitPrevious \/ Publish \/ RemoveDirectory \/ SetResult

Spec == Init /\ [][Next]_vars

\* The executor's thread runs, and a call that has begun is carried on.  The
\* producer need not make another one.
FairSpec == Spec /\ WF_vars(Worker) /\ WF_vars(Producing)

-----------------------------------------------------------------------------
(* Properties.                                                             *)

TypeOK ==
    /\ accepted \in 0..MaxJobs
    /\ future \in [Job -> {"none", "pending", "running"} \cup Final]
    /\ previous \in [Job -> Job \cup {NoJob}]
    /\ dir \in [Job -> {"none", "retained", "removed"}]
    /\ futures \in Seq(Job) /\ published \in Seq(Job)
    /\ closed \in BOOLEAN /\ raised \in BOOLEAN
    /\ pc \in {"idle", "checking", "retaining", "retained", "cancelling", "joining"}
    /\ call \in {"check", "submit", "drain", "cancel"}
    /\ stage \in [job : Job \cup {NoJob}, at : {"idle", "await", "publish", "ok", "failing"}]

\* Publication is in submission order and without gaps: whatever fails or is
\* cancelled, and however the shutdown's cancellations interleave with the
\* worker, the published jobs are the first accepted ones ("Publish retained
\* directories in order").
GivenUp(j) == future[j] \in {"failed", "cancelled"} \/ stage = [job |-> j, at |-> "failing"]
Stopped == \E j \in Job : j = Len(published) + 1 /\ GivenUp(j)
Ordered == INSTANCE OrderedPublication WITH published <- Len(published), stopped <- Stopped

PublishesInOrder == Ordered!Spec /\ [](\A i \in 1..Len(published) : published[i] = i)

\* A directory is there until its publication is over, and gone by the time
\* its future is done, whether it was published, failed or cancelled; when
\* close has returned none is left.
DirectoriesOwned ==
    /\ \A j \in Job :
          /\ future[j] = "pending" => dir[j] = "retained"
          /\ future[j] \in Final => dir[j] = "removed"
          /\ stage.job = j /\ stage.at \in {"await", "publish"} => dir[j] = "retained"
    /\ (closed /\ pc = "idle" /\ call \in {"drain", "cancel"}) =>
          \A j \in Job : dir[j] # "retained"

Inv == TypeOK /\ DirectoriesOwned

\* No failure is lost: check, submit and the draining close return normally
\* only when no checkpoint so far has failed or been cancelled, however many
\* were settled since the last call; a failure that has been raised keeps
\* being raised, and nothing more is accepted ("Keep a failed future at the
\* head so every subsequent check fails").
FailureSticks ==
    [][ /\ CheckDone => \A j \in Job : future[j] \notin {"failed", "cancelled"}
        /\ raised => accepted' = accepted ]_vars

\* close returns, and every accepted job is settled: neither waits for ever
\* on the other, on a previous future or on a cancelled job.
Settles ==
    /\ \A j \in Job : (future[j] = "pending") ~> (future[j] \in Final)
    /\ (pc = "joining") ~> (pc = "idle")
=============================================================================
