---------------------- MODULE CheckpointPublisherProofs ----------------------
(***************************************************************************)
(* Proofs about the background checkpoint publisher, for any number of     *)
(* checkpoints: directories, ordered publication as a refinement of        *)
(* OrderedPublication, and failures that stick.  At the end, proofs about  *)
(* the data replay of a run that resumes.                                  *)
(***************************************************************************)
EXTENDS CheckpointPublisher, DataReplay, SequenceLemmas

\* futures holds the last jobs accepted, and every job before them succeeded;
\* a job without a previous one to wait for comes after such jobs only.
QueueShape ==
    /\ \A j \in Job : future[j] = "none" <=> j > accepted
    /\ Len(futures) <= accepted
    /\ \A i \in 1..Len(futures) : futures[i] = accepted - Len(futures) + i
    /\ \A j \in 1..(accepted - Len(futures)) : future[j] = "ok"
    /\ \A j \in 1..accepted :
          \/ previous[j] = j - 1
          \/ previous[j] = NoJob /\ \A i \in 1..(j - 1) : future[i] = "ok"

\* The worker has the one running job; what is published is a prefix, and
\* only a job all of whose predecessors succeeded gets as far as publish.
WorkerShape ==
    /\ \A j \in Job : future[j] = "running" <=> stage.job = j
    /\ stage.job = NoJob <=> stage.at = "idle"
    /\ stage.at = "publish" => \A i \in 1..(stage.job - 1) : future[i] = "ok"
    /\ \A i, j \in Job : i < j /\ future[j] = "ok" => future[i] = "ok"
    /\ Len(published) <= accepted
    /\ \A i \in 1..Len(published) : published[i] = i
    /\ \A j \in Job : j <= Len(published) <=>
                         future[j] = "ok" \/ (stage.job = j /\ stage.at = "ok")

\* A retained directory that belongs to no future yet is the producer's.
DirectoryShape ==
    /\ DirectoriesOwned
    /\ \A j \in Job : future[j] = "none" /\ dir[j] = "retained" =>
                         pc = "retained" /\ j = accepted + 1
    /\ pc = "retained" => dir[accepted + 1] = "retained"
    /\ (closed /\ pc = "checking" /\ call \in {"drain", "cancel"}) =>
          \A j \in Job : dir[j] # "retained"
    /\ pc \in {"retaining", "retained"} => call = "submit" /\ accepted < MaxJobs

\* Once a check has raised, the failed future is at the head for good.
FailureShape ==
    raised => /\ futures # <<>> /\ future[Head(futures)] \in {"failed", "cancelled"}
              /\ pc \notin {"retaining", "retained"}

\* Jobs are settled in order; the shutdown alone cancels jobs while one before
\* them runs, and joins the worker before the next check.
SettledInOrder ==
    /\ \A i, j \in Job : i < j /\ future[j] = "running" => future[i] \in Final
    /\ pc \notin {"cancelling", "joining"} =>
          \A i, j \in Job : i < j /\ future[j] \in Final => future[i] \in Final

IInv == TypeOK /\ QueueShape /\ WorkerShape /\ DirectoryShape /\ FailureShape /\ SettledInOrder

-----------------------------------------------------------------------------
(* The queues as sequences.                                                *)

\* What TypeOK says of the numbers and of futures.
LEMMA Sequences ==
    ASSUME TypeOK
    PROVE  /\ accepted \in Nat /\ MaxJobs \in Nat /\ Job \subseteq Nat \ {0} /\ NoJob \notin Job
           /\ Len(futures) \in Nat /\ Len(published) \in Nat
           /\ futures = <<>> <=> Len(futures) = 0
           /\ \A i \in 1..Len(futures) : futures[i] \in Job
           /\ futures # <<>> => Head(futures) = futures[1]
<1>1. Len(futures) \in Nat /\ Len(published) \in Nat
  BY LenProperties DEF TypeOK
<1>2. \A i \in 1..Len(futures) : futures[i] \in Job
  BY ElementOfSeq DEF TypeOK
<1>3. futures = <<>> <=> Len(futures) = 0
  BY EmptySeq DEF TypeOK
<1>4. futures # <<>> => Head(futures) = futures[1]
  OBVIOUS
<1> QED BY <1>1, <1>2, <1>3, <1>4, PublisherAssumption DEF TypeOK, Job, NoJob

\* A future leaves at the head.
LEMMA Popped ==
    ASSUME NEW q \in Seq(Job), q # <<>>
    PROVE  /\ Tail(q) \in Seq(Job) /\ Len(Tail(q)) = Len(q) - 1
           /\ \A i \in 1..(Len(q) - 1) : Tail(q)[i] = q[i + 1]
  BY HeadTailProperties

\* A future, or a publication, enters at the end.
LEMMA Queued ==
    ASSUME NEW q \in Seq(Job), NEW j \in Job
    PROVE  /\ Append(q, j) \in Seq(Job) /\ Len(Append(q, j)) = Len(q) + 1
           /\ Append(q, j)[Len(q) + 1] = j /\ Append(q, j) # <<>>
           /\ \A i \in 1..Len(q) : Append(q, j)[i] = q[i]
           /\ q # <<>> => Head(Append(q, j)) = Head(q)
<1>1. /\ Append(q, j) \in Seq(Job) /\ Len(Append(q, j)) = Len(q) + 1
      /\ Append(q, j)[Len(q) + 1] = j
      /\ \A i \in 1..Len(q) : Append(q, j)[i] = q[i]
  BY AppendProperties
<1>2. Append(q, j) # <<>> /\ Len(q) \in Nat
  BY <1>1, LenProperties, EmptySeq
<1>3. q # <<>> => Head(Append(q, j)) = Head(q)
  BY <1>1, <1>2, EmptySeq
<1> QED BY <1>1, <1>2, <1>3

-----------------------------------------------------------------------------
(* Every step preserves each part of the invariant.                        *)

\* Types: the queue keeps jobs, and there is room for the one being retained.
LEMMA TypeStep ==
    ASSUME IInv, [Next]_vars
    PROVE  TypeOK'
<1>1. CASE UNCHANGED vars
  BY <1>1 DEF vars, producer, IInv, TypeOK
<1>2. ASSUME NEW c \in {"check", "submit"}, Call(c) PROVE TypeOK'
  BY <1>2 DEF Call, IInv, TypeOK
<1>3. ASSUME NEW c \in {"drain", "cancel"}, Close(c) PROVE TypeOK'
  BY <1>3 DEF Close, IInv, TypeOK
<1>4. CASE CheckPop
  BY <1>4 DEF CheckPop, producer, IInv, TypeOK
<1>5. CASE CheckRaise
  BY <1>5 DEF CheckRaise, IInv, TypeOK
<1>6. CASE CheckDone
  BY <1>6 DEF CheckDone, IInv, TypeOK
<1>7. CASE Retain
  <2>1. dir' \in [Job -> {"none", "retained", "removed"}]
    BY <1>7 DEF Retain, IInv, TypeOK
  <2>2. pc' \in {"idle", "retained"}
    BY <1>7 DEF Retain
  <2> QED BY <1>7, <2>1, <2>2 DEF Retain, IInv, TypeOK
<1>8. CASE Enqueue
  <2>1. accepted + 1 \in Job /\ accepted + 1 \in 0..MaxJobs
    BY <1>8, PublisherAssumption DEF Enqueue, IInv, TypeOK, DirectoryShape, Job
  <2>2. futures' \in Seq(Job)
    BY <1>8, <2>1, Queued DEF Enqueue, IInv, TypeOK
  <2>3. futures # <<>> => futures[Len(futures)] \in Job
    BY Sequences DEF IInv
  <2>4. previous' \in [Job -> Job \cup {NoJob}]
    BY <1>8, <2>3 DEF Enqueue, IInv, TypeOK
  <2>5. future' \in [Job -> {"none", "pending", "running"} \cup Final]
    BY <1>8 DEF Enqueue, IInv, TypeOK
  <2> QED BY <1>8, <2>1, <2>2, <2>4, <2>5 DEF Enqueue, IInv, TypeOK
<1>9. CASE CancelPending
  BY <1>9 DEF CancelPending, RemovedOnCancel, producer, IInv, TypeOK, Final
<1>10. CASE CancelDone
  BY <1>10 DEF CancelDone, IInv, TypeOK
<1>11. CASE Joined
  BY <1>11 DEF Joined, IInv, TypeOK
<1>12. CASE Take
  BY <1>12 DEF Take, producer, IInv, TypeOK
<1>13. CASE AwaitPrevious
  BY <1>13 DEF AwaitPrevious, producer, IInv, TypeOK
<1>14. CASE Publish
  <2>1. stage.job \in Job
    BY <1>14 DEF Publish, IInv, TypeOK, WorkerShape
  <2>2. published' \in Seq(Job)
    <3>1. published \in Seq(Job) /\ published' \in {published, Append(published, stage.job)}
      BY <1>14 DEF Publish, IInv, TypeOK
    <3>2. Append(published, stage.job) \in Seq(Job)
      BY <2>1, <3>1, Queued
    <3> QED BY <3>1, <3>2
  <2>3. stage' \in [job : Job \cup {NoJob}, at : {"idle", "await", "publish", "ok", "failing"}]
    BY <1>14 DEF Publish, IInv, TypeOK
  <2> QED BY <1>14, <2>2, <2>3 DEF Publish, producer, IInv, TypeOK
<1>15. CASE RemoveDirectory
  BY <1>15 DEF RemoveDirectory, producer, IInv, TypeOK
<1>16. CASE SetResult
  BY <1>16 DEF SetResult, producer, IInv, TypeOK, Final
<1> QED
  BY <1>1, <1>2, <1>3, <1>4, <1>5, <1>6, <1>7, <1>8, <1>9, <1>10, <1>11, <1>12, <1>13,
     <1>14, <1>15, <1>16 DEF Next

\* The queue: futures leave at the head, once they succeeded, and enter at
\* the end.
LEMMA QueueStep ==
    ASSUME IInv, [Next]_vars
    PROVE  QueueShape'
<1>1. CASE UNCHANGED vars
  BY <1>1 DEF vars, IInv, QueueShape
<1>2. ASSUME NEW c \in {"check", "submit"}, Call(c) PROVE QueueShape'
  BY <1>2 DEF Call, IInv, QueueShape
<1>3. ASSUME NEW c \in {"drain", "cancel"}, Close(c) PROVE QueueShape'
  BY <1>3 DEF Close, IInv, QueueShape
<1>4. CASE CheckPop
  <2>1. /\ futures' = Tail(futures) /\ futures # <<>> /\ future[Head(futures)] = "ok"
        /\ UNCHANGED <<accepted, future, previous>>
    BY <1>4 DEF CheckPop
  <2>2. /\ Len(futures') = Len(futures) - 1
        /\ \A i \in 1..(Len(futures) - 1) : futures'[i] = futures[i + 1]
    BY <2>1, Popped DEF IInv, TypeOK
  <2>3. Len(futures) \in Nat \ {0} /\ accepted \in Nat /\ Head(futures) = futures[1]
    BY <2>1, Sequences DEF IInv
  <2>4. futures[1] = accepted - Len(futures) + 1
    BY <2>3 DEF IInv, QueueShape
  <2>5. \A i \in 1..Len(futures') : futures'[i] = accepted - Len(futures') + i
    BY <2>2, <2>3 DEF IInv, QueueShape
  <2>6. \A j \in 1..(accepted - Len(futures')) : future[j] = "ok"
    BY <2>1, <2>2, <2>3, <2>4 DEF IInv, QueueShape
  <2> QED BY <2>1, <2>2, <2>3, <2>5, <2>6 DEF IInv, QueueShape
<1>5. CASE CheckRaise
  BY <1>5 DEF CheckRaise, IInv, QueueShape
<1>6. CASE CheckDone
  BY <1>6 DEF CheckDone, IInv, QueueShape
<1>7. CASE Retain
  BY <1>7 DEF Retain, IInv, QueueShape
<1>8. CASE Enqueue
  <2>1. /\ accepted' = accepted + 1 /\ futures' = Append(futures, accepted + 1)
        /\ future' = [future EXCEPT ![accepted + 1] = "pending"]
        /\ previous' = [previous EXCEPT ![accepted + 1] =
                           IF futures = <<>> THEN NoJob ELSE futures[Len(futures)]]
    BY <1>8 DEF Enqueue
  <2>2. accepted + 1 \in Job /\ accepted \in Nat /\ MaxJobs \in Nat
    BY <1>8, PublisherAssumption DEF Enqueue, IInv, TypeOK, DirectoryShape, Job
  <2>3. /\ Len(futures') = Len(futures) + 1 /\ futures'[Len(futures) + 1] = accepted + 1
        /\ \A i \in 1..Len(futures) : futures'[i] = futures[i]
    BY <2>1, <2>2, Queued DEF IInv, TypeOK
  <2>4. Len(futures) \in Nat /\ (futures = <<>> <=> Len(futures) = 0)
    BY Sequences DEF IInv
  <2>5. \A j \in Job : future'[j] = IF j = accepted + 1 THEN "pending" ELSE future[j]
    BY <2>1, <2>2 DEF IInv, TypeOK
  <2>6. \A j \in Job : future'[j] = "none" <=> j > accepted'
    BY <2>1, <2>2, <2>5 DEF IInv, QueueShape, Job
  <2>7. \A i \in 1..Len(futures') : futures'[i] = accepted' - Len(futures') + i
    <3> SUFFICES ASSUME NEW i \in 1..Len(futures')
                 PROVE  futures'[i] = accepted' - Len(futures') + i
      OBVIOUS
    <3>1. CASE i = Len(futures) + 1
      BY <3>1, <2>1, <2>2, <2>3, <2>4
    <3>2. CASE i \in 1..Len(futures)
      <4>1. futures[i] = accepted - Len(futures) + i
        BY <3>2 DEF IInv, QueueShape
      <4> QED BY <3>2, <4>1, <2>1, <2>2, <2>3, <2>4
    <3> QED BY <3>1, <3>2, <2>3, <2>4
  <2>8. \A j \in 1..(accepted' - Len(futures')) : future'[j] = "ok"
    BY <2>1, <2>2, <2>3, <2>4, <2>5 DEF IInv, QueueShape, Job
  <2>9. ASSUME NEW j \in 1..accepted'
        PROVE  \/ previous'[j] = j - 1
               \/ previous'[j] = NoJob /\ \A i \in 1..(j - 1) : future'[i] = "ok"
    <3>1. CASE j = accepted + 1 /\ futures = <<>>
      BY <3>1, <2>1, <2>2, <2>4, <2>5 DEF IInv, TypeOK, QueueShape
    <3>2. CASE j = accepted + 1 /\ futures # <<>>
      BY <3>2, <2>1, <2>2, <2>4 DEF IInv, TypeOK, QueueShape
    <3>3. CASE j # accepted + 1
      <4>1. j \in 1..accepted /\ j \in Job /\ \A i \in 1..(j - 1) : i \in Job /\ i # accepted + 1
        BY <3>3, <2>1, <2>2 DEF Job
      <4>2. previous'[j] = previous[j]
        BY <4>1, <3>3, <2>1 DEF IInv, TypeOK
      <4>3. \A i \in 1..(j - 1) : future'[i] = future[i]
        BY <4>1, <2>5
      <4> QED BY <4>1, <4>2, <4>3 DEF IInv, QueueShape
    <3> QED BY <3>1, <3>2, <3>3
  <2> QED BY <2>1, <2>2, <2>3, <2>4, <2>6, <2>7, <2>8, <2>9 DEF IInv, QueueShape
<1>9. CASE CancelPending
  BY <1>9 DEF CancelPending, FirstPending, Pending, IInv, QueueShape
<1>10. CASE CancelDone
  BY <1>10 DEF CancelDone, IInv, QueueShape
<1>11. CASE Joined
  BY <1>11 DEF Joined, IInv, QueueShape
<1>12. CASE Take
  BY <1>12 DEF Take, FirstPending, Pending, IInv, QueueShape
<1>13. CASE AwaitPrevious
  BY <1>13 DEF AwaitPrevious, IInv, QueueShape
<1>14. CASE Publish
  BY <1>14 DEF Publish, IInv, QueueShape
<1>15. CASE RemoveDirectory
  BY <1>15 DEF RemoveDirectory, IInv, QueueShape
<1>16. CASE SetResult
  BY <1>16 DEF SetResult, IInv, QueueShape, WorkerShape, TypeOK
<1> QED
  BY <1>1, <1>2, <1>3, <1>4, <1>5, <1>6, <1>7, <1>8, <1>9, <1>10, <1>11, <1>12, <1>13,
     <1>14, <1>15, <1>16 DEF Next

\* The worker: it takes one job at a time, and gets as far as publish only
\* when the jobs before it are published.
LEMMA WorkerStep ==
    ASSUME IInv, [Next]_vars
    PROVE  WorkerShape'
<1>1. CASE UNCHANGED vars
  BY <1>1 DEF vars, IInv, WorkerShape
<1>2. ASSUME NEW c \in {"check", "submit"}, Call(c) PROVE WorkerShape'
  BY <1>2 DEF Call, IInv, WorkerShape
<1>3. ASSUME NEW c \in {"drain", "cancel"}, Close(c) PROVE WorkerShape'
  BY <1>3 DEF Close, IInv, WorkerShape
<1>4. CASE CheckPop
  BY <1>4 DEF CheckPop, IInv, WorkerShape
<1>5. CASE CheckRaise
  BY <1>5 DEF CheckRaise, IInv, WorkerShape
<1>6. CASE CheckDone
  BY <1>6 DEF CheckDone, IInv, WorkerShape
<1>7. CASE Retain
  BY <1>7 DEF Retain, IInv, WorkerShape
<1>8. CASE Enqueue
  <2>1. /\ accepted' = accepted + 1 /\ UNCHANGED <<stage, published>>
        /\ future' = [future EXCEPT ![accepted + 1] = "pending"]
    BY <1>8 DEF Enqueue
  <2>2. accepted + 1 \in Job /\ accepted \in Nat /\ Len(published) \in Nat
    BY <1>8, PublisherAssumption DEF Enqueue, IInv, TypeOK, DirectoryShape, Job
  <2>3. /\ \A j \in Job : future'[j] = IF j = accepted + 1 THEN "pending" ELSE future[j]
        /\ future[accepted + 1] = "none"
    BY <2>1, <2>2 DEF IInv, TypeOK, QueueShape
  <2>4. stage.job # accepted + 1
    BY <2>2, <2>3 DEF IInv, WorkerShape
  <2>5. stage.at = "publish" => \A i \in 1..(stage.job - 1) : future'[i] = "ok"
    <3> SUFFICES ASSUME stage.at = "publish", NEW i \in 1..(stage.job - 1)
                 PROVE  future'[i] = "ok"
      OBVIOUS
    <3>1. stage.job \in Job /\ future[i] = "ok"
      BY DEF IInv, TypeOK, WorkerShape
    <3>2. i \in Job
      BY <3>1, PublisherAssumption DEF Job
    <3> QED BY <3>1, <3>2, <2>3
  <2>6. \A i, j \in Job : i < j /\ future'[j] = "ok" => future'[i] = "ok"
    BY <2>2, <2>3 DEF IInv, WorkerShape, QueueShape
  <2> QED BY <2>1, <2>2, <2>3, <2>4, <2>5, <2>6 DEF IInv, WorkerShape
<1>9. CASE CancelPending
  BY <1>9 DEF CancelPending, FirstPending, Pending, IInv, WorkerShape
<1>10. CASE CancelDone
  BY <1>10 DEF CancelDone, IInv, WorkerShape
<1>11. CASE Joined
  BY <1>11 DEF Joined, IInv, WorkerShape
<1>12. CASE Take
  BY <1>12 DEF Take, FirstPending, Pending, IInv, WorkerShape, TypeOK, NoJob
<1>13. CASE AwaitPrevious
  <2> DEFINE p == previous[stage.job]
  <2>1. /\ stage.at = "await" /\ UNCHANGED <<accepted, future, published>>
        /\ stage' = [stage EXCEPT !.at = IF PreviousOk(p) THEN "publish" ELSE "failing"]
    BY <1>13 DEF AwaitPrevious
  <2>2. stage.job \in Job /\ future[stage.job] = "running" /\ stage.job \in 1..accepted
    BY <2>1 DEF IInv, TypeOK, WorkerShape, QueueShape, Job
  <2>3. stage'.job = stage.job /\ stage'.at \in {"publish", "failing"}
    BY <2>1 DEF IInv, TypeOK
  <2>4. stage'.at = "publish" => PreviousOk(p)
    BY <2>1 DEF IInv, TypeOK
  <2>5. PreviousOk(p) => \A i \in 1..(stage.job - 1) : future[i] = "ok"
    <3>1. CASE p = NoJob /\ \A i \in 1..(stage.job - 1) : future[i] = "ok"
      BY <3>1
    <3>2. CASE p = stage.job - 1
      BY <3>2, <2>2, PublisherAssumption DEF IInv, TypeOK, WorkerShape, PreviousOk, NoJob
    <3> QED BY <3>1, <3>2, <2>2 DEF IInv, QueueShape
  <2> QED BY <2>1, <2>2, <2>3, <2>4, <2>5 DEF IInv, WorkerShape, TypeOK
<1>14. CASE Publish
  <2> DEFINE k == stage.job
  <2>1. /\ stage.at = "publish" /\ UNCHANGED <<accepted, future>>
        /\ \/ published' = Append(published, k) /\ stage' = [stage EXCEPT !.at = "ok"]
           \/ stage' = [stage EXCEPT !.at = "failing"] /\ UNCHANGED published
    BY <1>14 DEF Publish
  <2>2. k \in Job /\ future[k] = "running" /\ k \in 1..accepted /\ k \in Nat
    BY <2>1 DEF IInv, TypeOK, WorkerShape, QueueShape, Job
  <2>3. stage'.job = k /\ stage'.at \in {"ok", "failing"}
    BY <2>1 DEF IInv, TypeOK
  <2>4. Len(published) \in Nat /\ accepted \in Nat /\ MaxJobs \in Nat
    BY Sequences DEF IInv
  <2>5. Len(published) = k - 1
    <3>1. \A i \in 1..(k - 1) : future[i] = "ok"
      BY <2>1 DEF IInv, WorkerShape
    <3>2. ~(k <= Len(published))
      BY <2>1, <2>2 DEF IInv, WorkerShape
    <3>3. k - 1 <= Len(published)
      BY <3>1, <2>2, <2>4 DEF IInv, WorkerShape, Job
    <3> QED BY <3>2, <3>3, <2>2, <2>4
  <2>6. CASE stage'.at = "failing"
    <3>1. published' = published
      BY <2>6, <2>1 DEF IInv, TypeOK
    <3> QED BY <3>1, <2>1, <2>2, <2>3, <2>6 DEF IInv, WorkerShape
  <2>7. CASE stage'.at = "ok"
    <3>1. published' = Append(published, k)
      BY <2>7, <2>1 DEF IInv, TypeOK
    <3>2. /\ Len(published') = k /\ published'[k] = k
          /\ \A i \in 1..(k - 1) : published'[i] = published[i]
      BY <3>1, <2>2, <2>5, Queued DEF IInv, TypeOK
    <3>3. \A i \in 1..Len(published') : published'[i] = i
      <4> SUFFICES ASSUME NEW i \in 1..k, i # k PROVE published'[i] = i
        BY <3>2
      <4>1. i \in 1..(k - 1)
        BY <2>2
      <4>2. published[i] = i
        BY <4>1, <2>5 DEF IInv, WorkerShape
      <4> QED BY <4>1, <4>2, <3>2
    <3>4. \A j \in Job : j <= Len(published') <=>
                             future'[j] = "ok" \/ (stage'.job = j /\ stage'.at = "ok")
      BY <3>2, <2>1, <2>2, <2>3, <2>4, <2>5, <2>7 DEF IInv, WorkerShape, Job
    <3> QED BY <3>2, <3>3, <3>4, <2>1, <2>2, <2>3, <2>7 DEF IInv, WorkerShape
  <2> QED BY <2>3, <2>6, <2>7
<1>15. CASE RemoveDirectory
  BY <1>15 DEF RemoveDirectory, IInv, WorkerShape
<1>16. CASE SetResult
  BY <1>16 DEF SetResult, IInv, WorkerShape, TypeOK, Job, NoJob
<1> QED
  BY <1>1, <1>2, <1>3, <1>4, <1>5, <1>6, <1>7, <1>8, <1>9, <1>10, <1>11, <1>12, <1>13,
     <1>14, <1>15, <1>16 DEF Next

\* The directories: from retain to the end of the publication there is one.
LEMMA DirectoryStep ==
    ASSUME IInv, [Next]_vars
    PROVE  DirectoryShape'
<1>1. CASE UNCHANGED vars
  BY <1>1 DEF vars, producer, IInv, DirectoryShape, DirectoriesOwned
<1>2. ASSUME NEW c \in {"check", "submit"}, Call(c) PROVE DirectoryShape'
  BY <1>2 DEF Call, IInv, DirectoryShape, DirectoriesOwned
<1>3. ASSUME NEW c \in {"drain", "cancel"}, Close(c) PROVE DirectoryShape'
  BY <1>3 DEF Close, IInv, DirectoryShape, DirectoriesOwned
<1>4. CASE CheckPop
  BY <1>4 DEF CheckPop, producer, IInv, DirectoryShape, DirectoriesOwned
<1>5. CASE CheckRaise
  BY <1>5 DEF CheckRaise, IInv, DirectoryShape, DirectoriesOwned
<1>6. CASE CheckDone
  BY <1>6 DEF CheckDone, IInv, DirectoryShape, DirectoriesOwned
<1>7. CASE Retain
  BY <1>7, PublisherAssumption DEF Retain, IInv, DirectoryShape, DirectoriesOwned,
         QueueShape, TypeOK, Final, Job
<1>8. CASE Enqueue
  <2>1. /\ accepted' = accepted + 1 /\ UNCHANGED <<dir, closed, call, stage>>
        /\ future' = [future EXCEPT ![accepted + 1] = "pending"]
        /\ pc = "retained" /\ pc' = "idle"
    BY <1>8 DEF Enqueue
  <2>2. accepted + 1 \in Job /\ dir[accepted + 1] = "retained" /\ call = "submit"
    BY <2>1, PublisherAssumption DEF IInv, TypeOK, DirectoryShape, Job
  <2>3. \A j \in Job : future'[j] = IF j = accepted + 1 THEN "pending" ELSE future[j]
    BY <2>1, <2>2 DEF IInv, TypeOK
  <2>4. DirectoriesOwned'
    BY <2>1, <2>2, <2>3 DEF IInv, DirectoryShape, DirectoriesOwned, Final
  <2> QED BY <2>1, <2>2, <2>3, <2>4 DEF IInv, DirectoryShape
<1>9. CASE CancelPending
  BY <1>9 DEF CancelPending, FirstPending, Pending, RemovedOnCancel, producer, IInv,
         DirectoryShape, DirectoriesOwned, WorkerShape, TypeOK
<1>10. CASE CancelDone
  BY <1>10 DEF CancelDone, IInv, DirectoryShape, DirectoriesOwned
<1>11. CASE Joined
  <2>1. /\ UNCHANGED <<accepted, future, dir, closed, stage>>
        /\ pc = "joining" /\ pc' \in {"idle", "checking"}
        /\ stage.job = NoJob /\ \A j \in Job : future[j] # "pending"
    BY <1>11 DEF Joined, Pending
  <2>2. ASSUME NEW j \in Job PROVE dir[j] # "retained"
    <3>1. future[j] # "running"
      BY <2>1 DEF IInv, WorkerShape, NoJob
    <3>2. CASE future[j] = "none"
      BY <3>2, <2>1 DEF IInv, DirectoryShape
    <3>3. CASE future[j] \in Final
      BY <3>3 DEF IInv, DirectoryShape, DirectoriesOwned
    <3> QED BY <3>1, <3>2, <3>3, <2>1 DEF IInv, TypeOK
  <2>3. DirectoriesOwned'
    BY <2>1, <2>2 DEF IInv, DirectoryShape, DirectoriesOwned
  <2> QED BY <2>1, <2>2, <2>3 DEF IInv, DirectoryShape
<1>12. CASE Take
  BY <1>12 DEF Take, FirstPending, Pending, producer, IInv, DirectoryShape,
         DirectoriesOwned, Final
<1>13. CASE AwaitPrevious
  BY <1>13 DEF AwaitPrevious, producer, IInv, DirectoryShape, DirectoriesOwned
<1>14. CASE Publish
  BY <1>14 DEF Publish, producer, IInv, DirectoryShape, DirectoriesOwned, TypeOK
<1>15. CASE RemoveDirectory
  BY <1>15 DEF RemoveDirectory, producer, IInv, DirectoryShape, DirectoriesOwned,
         WorkerShape, QueueShape, TypeOK
<1>16. CASE SetResult
  BY <1>16 DEF SetResult, producer, IInv, DirectoryShape, DirectoriesOwned
<1> QED
  BY <1>1, <1>2, <1>3, <1>4, <1>5, <1>6, <1>7, <1>8, <1>9, <1>10, <1>11, <1>12, <1>13,
     <1>14, <1>15, <1>16 DEF Next

\* Failures: the head of futures stays, and with it the producer's calls raise.
LEMMA FailureStep ==
    ASSUME IInv, [Next]_vars
    PROVE  FailureShape'
<1>1. CASE UNCHANGED vars
  BY <1>1 DEF vars, producer, IInv, FailureShape
<1>2. ASSUME NEW c \in {"check", "submit"}, Call(c) PROVE FailureShape'
  BY <1>2 DEF Call, IInv, FailureShape
<1>3. ASSUME NEW c \in {"drain", "cancel"}, Close(c) PROVE FailureShape'
  BY <1>3 DEF Close, IInv, FailureShape
<1>4. CASE CheckPop
  BY <1>4 DEF CheckPop, IInv, FailureShape
<1>5. CASE CheckRaise
  BY <1>5 DEF CheckRaise, FailureShape
<1>6. CASE CheckDone
  BY <1>6 DEF CheckDone, IInv, FailureShape, TypeOK
<1>7. CASE Retain
  BY <1>7 DEF Retain, IInv, FailureShape
<1>8. CASE Enqueue
  BY <1>8 DEF Enqueue, IInv, FailureShape
<1>9. CASE CancelPending
  BY <1>9 DEF CancelPending, producer, IInv, FailureShape
<1>10. CASE CancelDone
  BY <1>10 DEF CancelDone, IInv, FailureShape
<1>11. CASE Joined
  BY <1>11 DEF Joined, IInv, FailureShape
<1>12. CASE Take
  BY <1>12 DEF Take, FirstPending, Pending, producer, IInv, FailureShape
<1>13. CASE AwaitPrevious
  BY <1>13 DEF AwaitPrevious, producer, IInv, FailureShape
<1>14. CASE Publish
  BY <1>14 DEF Publish, producer, IInv, FailureShape
<1>15. CASE RemoveDirectory
  BY <1>15 DEF RemoveDirectory, producer, IInv, FailureShape
<1>16. CASE SetResult
  BY <1>16 DEF SetResult, producer, IInv, FailureShape, WorkerShape, TypeOK
<1> QED
  BY <1>1, <1>2, <1>3, <1>4, <1>5, <1>6, <1>7, <1>8, <1>9, <1>10, <1>11, <1>12, <1>13,
     <1>14, <1>15, <1>16 DEF Next

\* Settling goes in order: the worker takes the first pending job when none
\* runs, and after a shutdown every job is settled.
LEMMA SettledStep ==
    ASSUME IInv, [Next]_vars
    PROVE  SettledInOrder'
<1>1. CASE UNCHANGED vars
  BY <1>1 DEF vars, producer, IInv, SettledInOrder
<1>2. ASSUME NEW c \in {"check", "submit"}, Call(c) PROVE SettledInOrder'
  BY <1>2 DEF Call, IInv, SettledInOrder
<1>3. ASSUME NEW c \in {"drain", "cancel"}, Close(c) PROVE SettledInOrder'
  BY <1>3 DEF Close, IInv, SettledInOrder
<1>4. CASE CheckPop
  BY <1>4 DEF CheckPop, producer, IInv, SettledInOrder
<1>5. CASE CheckRaise
  BY <1>5 DEF CheckRaise, IInv, SettledInOrder
<1>6. CASE CheckDone
  BY <1>6 DEF CheckDone, IInv, SettledInOrder
<1>7. CASE Retain
  BY <1>7 DEF Retain, IInv, SettledInOrder
<1>8. CASE Enqueue
  <2>1. /\ accepted' = accepted + 1 /\ pc' = "idle" /\ pc = "retained"
        /\ future' = [future EXCEPT ![accepted + 1] = "pending"]
    BY <1>8 DEF Enqueue
  <2>2. accepted \in Nat /\ Job \subseteq Nat
    BY Sequences DEF IInv
  <2>3. \A j \in Job : /\ j = accepted + 1 => future'[j] = "pending"
                       /\ j # accepted + 1 => future'[j] = future[j]
                       /\ j > accepted => future[j] = "none"
    BY <2>1 DEF IInv, TypeOK, QueueShape
  <2>4. ASSUME NEW i \in Job, NEW j \in Job, i < j,
               future'[j] # "pending", future'[j] # "none"
        PROVE  future'[i] = future[i] /\ future'[j] = future[j]
    <3>1. j # accepted + 1 /\ future'[j] = future[j]
      BY <2>2, <2>3, <2>4
    <3>2. ~(j > accepted)
      BY <2>3, <2>4, <3>1
    <3>3. i # accepted + 1
      BY <2>2, <2>4, <3>2
    <3> QED BY <2>2, <2>3, <3>1, <3>3
  <2>5. \A i, j \in Job : i < j /\ future'[j] = "running" => future'[i] \in Final
    BY <2>4 DEF IInv, SettledInOrder
  <2>6. \A i, j \in Job : i < j /\ future'[j] \in Final => future'[i] \in Final
    BY <2>1, <2>4 DEF IInv, SettledInOrder, Final
  <2> QED BY <2>5, <2>6 DEF SettledInOrder, Final
<1>9. CASE CancelPending
  <2>1. pc' = "cancelling" /\ \A i \in Job : future[i] \in Final => future'[i] \in Final
    BY <1>9 DEF CancelPending, producer, IInv, TypeOK, Final
  <2>2. \A j \in Job : future'[j] = "running" => future[j] = "running"
    BY <1>9 DEF CancelPending, IInv, TypeOK
  <2> QED BY <2>1, <2>2 DEF IInv, SettledInOrder, Final
<1>10. CASE CancelDone
  BY <1>10 DEF CancelDone, IInv, SettledInOrder
<1>11. CASE Joined
  <2>1. UNCHANGED <<future, accepted>> /\ Pending = {} /\ stage.job = NoJob
    BY <1>11 DEF Joined
  <2>2. \A j \in Job : future[j] \notin {"pending", "running"}
    BY <2>1, Sequences DEF Pending, IInv, WorkerShape
  <2>3. \A i, j \in Job : i < j /\ future[j] \in Final => future[i] \in Final
    <3> SUFFICES ASSUME NEW i \in Job, NEW j \in Job, i < j, future[j] \in Final
                 PROVE  future[i] \in Final
      OBVIOUS
    <3>1. accepted \in Nat /\ i \in Nat /\ j \in Nat
      BY Sequences DEF IInv
    <3>2. future[j] # "none"
      BY DEF Final
    <3>3. future[i] # "none"
      BY <3>1, <3>2 DEF IInv, QueueShape
    <3>4. future[i] \in {"none", "pending", "running"} \cup Final
      BY DEF IInv, TypeOK
    <3> QED BY <2>2, <3>3, <3>4
  <2> QED BY <2>1, <2>2, <2>3 DEF SettledInOrder, Final
<1>12. CASE Take
  <2>1. PICK j \in Job : /\ FirstPending(j) /\ future' = [future EXCEPT ![j] = "running"]
                          /\ stage.job = NoJob /\ UNCHANGED <<accepted, pc>>
    BY <1>12 DEF Take, producer
  <2>2. \A i \in Job : i < j => future[i] \in Final
    <3> SUFFICES ASSUME NEW i \in Job, i < j PROVE future[i] \in Final
      OBVIOUS
    <3>1. accepted \in Nat /\ i \in Nat /\ j \in Nat /\ NoJob \notin Job
      BY Sequences DEF IInv
    <3>2. future[j] = "pending" /\ future[i] # "pending"
      BY <2>1, <3>1 DEF FirstPending, Pending
    <3>3. future[i] # "none"
      BY <3>1, <3>2 DEF IInv, QueueShape
    <3>4. future[i] # "running"
      BY <2>1, <3>1 DEF IInv, WorkerShape
    <3>5. future[i] \in {"none", "pending", "running"} \cup Final
      BY DEF IInv, TypeOK
    <3> QED BY <3>2, <3>3, <3>4, <3>5
  <2>3. \A i \in Job : future'[i] = IF i = j THEN "running" ELSE future[i]
    BY <2>1 DEF IInv, TypeOK
  <2>4. future[j] \notin Final
    BY <2>1 DEF FirstPending, Pending, Final
  <2>5. \A i \in Job : future[i] \in Final => future'[i] \in Final
    BY <2>3, <2>4
  <2>6. \A i, k \in Job : i < k /\ future'[k] = "running" => future'[i] \in Final
    BY <2>2, <2>3, <2>5 DEF IInv, SettledInOrder
  <2>7. \A k \in Job : future'[k] \in Final => future[k] \in Final
    BY <2>3 DEF Final
  <2> QED BY <2>1, <2>5, <2>6, <2>7 DEF IInv, SettledInOrder, Final
<1>13. CASE AwaitPrevious
  BY <1>13 DEF AwaitPrevious, producer, IInv, SettledInOrder
<1>14. CASE Publish
  BY <1>14 DEF Publish, producer, IInv, SettledInOrder
<1>15. CASE RemoveDirectory
  BY <1>15 DEF RemoveDirectory, producer, IInv, SettledInOrder
<1>16. CASE SetResult
  <2>1. stage.job \in Job /\ future[stage.job] = "running" /\ pc' = pc
    BY <1>16, Sequences DEF SetResult, producer, IInv, TypeOK, WorkerShape
  <2>2. \A i \in Job : IF i = stage.job THEN future'[i] \in Final ELSE future'[i] = future[i]
    BY <1>16, <2>1 DEF SetResult, IInv, TypeOK, Final
  <2>3. \A i \in Job : i < stage.job => future[i] \in Final
    BY <2>1 DEF IInv, SettledInOrder
  <2>4. \A i \in Job : future[i] \in Final => future'[i] \in Final
    BY <2>2
  <2>5. \A i, j \in Job : i < j /\ future'[j] = "running" => future'[i] \in Final
    BY <2>2, <2>4 DEF IInv, SettledInOrder, Final
  <2>6. \A j \in Job : future'[j] \in Final => j = stage.job \/ future[j] \in Final
    BY <2>2
  <2> QED BY <2>1, <2>3, <2>4, <2>5, <2>6 DEF IInv, SettledInOrder, Final
<1> QED
  BY <1>1, <1>2, <1>3, <1>4, <1>5, <1>6, <1>7, <1>8, <1>9, <1>10, <1>11, <1>12, <1>13,
     <1>14, <1>15, <1>16 DEF Next

-----------------------------------------------------------------------------
(* The invariant.                                                          *)

\* It holds at first.
LEMMA InitStep == Init => IInv
<1> SUFFICES ASSUME Init PROVE IInv
  OBVIOUS
<1>1. TypeOK
  <2>1. <<>> \in Seq(Job)
    BY EmptySeq
  <2>2. /\ accepted \in 0..MaxJobs
        /\ future \in [Job -> {"none", "pending", "running"} \cup Final]
        /\ previous \in [Job -> Job \cup {NoJob}]
        /\ dir \in [Job -> {"none", "retained", "removed"}]
    BY PublisherAssumption DEF Init
  <2>3. stage \in [job : Job \cup {NoJob}, at : {"idle", "await", "publish", "ok", "failing"}]
    BY DEF Init
  <2> QED BY <2>1, <2>2, <2>3 DEF Init, TypeOK
<1>2. futures = <<>> /\ Len(futures) = 0 /\ published = <<>> /\ Len(published) = 0
  BY EmptySeq DEF Init
<1>3. QueueShape
  BY <1>2 DEF Init, QueueShape, Job
<1>4. WorkerShape
  BY <1>2 DEF Init, WorkerShape, Job, NoJob
<1>5. DirectoryShape
  BY DEF Init, DirectoryShape, DirectoriesOwned, Final
<1>6. FailureShape
  BY DEF Init, FailureShape
<1>7. SettledInOrder
  BY DEF Init, SettledInOrder, Final
<1> QED BY <1>1, <1>3, <1>4, <1>5, <1>6, <1>7 DEF IInv

\* The invariant holds throughout: directories, queue and worker agree.
THEOREM PublisherInvariant == Spec => []IInv
<1>1. IInv /\ [Next]_vars => IInv'
  BY TypeStep, QueueStep, WorkerStep, DirectoryStep, FailureStep, SettledStep DEF IInv
<1> QED BY InitStep, <1>1, PTL DEF Spec

\* Retained directories: every accepted job has its directory until its
\* publication is over and none afterwards, and none is left when close has
\* returned, however cancellations and the worker interleave.
THEOREM DirectoriesAreOwned == Spec => []Inv
<1>1. IInv => Inv
  BY DEF IInv, DirectoryShape, Inv
<1> QED BY PublisherInvariant, <1>1, PTL

\* No failure is lost: a call returns normally only when no checkpoint so far
\* has failed or been cancelled, and after a check has raised no job is accepted.
THEOREM FailuresStick == Spec => FailureSticks
<1> DEFINE Clean == \A j \in Job : future[j] \notin {"failed", "cancelled"}
<1>1. IInv /\ CheckDone => Clean
  <2> SUFFICES ASSUME IInv, CheckDone, NEW j \in Job, future[j] \in {"failed", "cancelled"}
               PROVE  FALSE
    OBVIOUS
  <2>1. accepted \in Nat /\ Len(futures) \in Nat /\ j \in Nat \ {0} /\ Len(futures) <= accepted
    BY Sequences DEF IInv, QueueShape
  <2>2. j > accepted - Len(futures) /\ j <= accepted
    BY <2>1 DEF IInv, QueueShape
  <2>3. futures # <<>> /\ Head(futures) = futures[1] /\ 1 \in 1..Len(futures)
    BY <2>1, <2>2, Sequences DEF IInv
  <2>4. Head(futures) \in Job /\ Head(futures) = accepted - Len(futures) + 1
    BY <2>3, Sequences DEF IInv, QueueShape
  <2>5. Head(futures) = j \/ Head(futures) < j
    BY <2>1, <2>2, <2>4
  <2>6. future[j] \in Final /\ pc = "checking"
    BY DEF CheckDone, Final
  <2>7. future[Head(futures)] \in Final
    BY <2>4, <2>5, <2>6 DEF IInv, SettledInOrder
  <2> QED BY <2>3, <2>7 DEF CheckDone
<1>2. IInv /\ Next /\ raised => accepted' = accepted
  <2> SUFFICES ASSUME IInv, Next, raised PROVE accepted' = accepted
    OBVIOUS
  <2>1. ~Enqueue
    BY DEF IInv, FailureShape, Enqueue
  <2>2. Next /\ ~Enqueue => accepted' = accepted
    BY DEF Next, Call, Close, CheckPop, CheckRaise, CheckDone, Retain, CancelPending,
           CancelDone, Joined, Take, AwaitPrevious, Publish, RemoveDirectory, SetResult
  <2> QED BY <2>1, <2>2
<1>3. IInv /\ [Next]_vars =>
         [(CheckDone => Clean) /\ (raised => accepted' = accepted)]_vars
  <2> HIDE DEF Clean
  <2> QED BY <1>1, <1>2
<1> QED BY PublisherInvariant, <1>3, PTL DEF Spec, FailureSticks

-----------------------------------------------------------------------------
(* The refinement of OrderedPublication.                                   *)

\* Nothing is accepted, published or given up at first.
LEMMA FirstPublished == Init => Ordered!Init
<1> SUFFICES ASSUME Init PROVE Ordered!Init
  OBVIOUS
<1>1. Len(published) = 0
  BY EmptySeq DEF Init
<1>2. ~Stopped
  BY DEF Init, Stopped, GivenUp, Job, NoJob
<1> QED BY <1>1, <1>2 DEF Init, Ordered!Init

\* Steps that give no job up and publish none.
LEMMA Stutters ==
    ASSUME UNCHANGED <<accepted, published>>, Stopped' = Stopped
    PROVE  UNCHANGED Ordered!vars
  BY DEF Ordered!vars

\* A step may give up one job; which is stopping if it was the next.
LEMMA GivesUp ==
    ASSUME IInv, IInv', UNCHANGED <<accepted, published>>, NEW k \in Job, k <= accepted,
           GivenUp(k)', \A j \in Job : j # k => (GivenUp(j)' <=> GivenUp(j))
    PROVE  Ordered!Stop \/ UNCHANGED Ordered!vars
<1>1. CASE k = Len(published) + 1
  <2>1. Stopped'
    BY <1>1 DEF Stopped
  <2>2. Len(published) < accepted
    BY <1>1, Sequences DEF IInv
  <2>3. Stopped' = TRUE
    BY <2>1 DEF Stopped
  <2> QED BY <2>2, <2>3 DEF Ordered!Stop
<1>2. CASE k # Len(published) + 1
  <2>1. Stopped' <=> Stopped
    BY <1>2 DEF Stopped
  <2> QED BY <2>1, Stutters DEF Stopped
<1> QED BY <1>1, <1>2

\* Every step is one of OrderedPublication's, or changes none of its variables.
LEMMA OrderStep ==
    ASSUME IInv, IInv', [Next]_vars
    PROVE  [Ordered!Next]_(Ordered!vars)
<1>a. /\ accepted \in Nat /\ Len(published) \in Nat /\ Job \subseteq Nat \ {0} /\ NoJob \notin Job
  BY Sequences DEF IInv
<1>b. ASSUME UNCHANGED <<accepted, published, future, stage>>
      PROVE  UNCHANGED Ordered!vars
  BY <1>b DEF Ordered!vars, Stopped, GivenUp
<1>c. stage = [job |-> stage.job, at |-> stage.at]
  BY DEF IInv, TypeOK
<1>d. ASSUME NEW j \in Job, future[j] # "none"
      PROVE  j <= accepted
  BY <1>a, <1>d DEF IInv, QueueShape
<1>1. ASSUME UNCHANGED vars PROVE UNCHANGED Ordered!vars
  BY <1>1, <1>b DEF vars
<1> SUFFICES ASSUME Next PROVE Ordered!Next \/ UNCHANGED Ordered!vars
  BY <1>1
<1>2. ASSUME NEW c \in {"check", "submit"}, Call(c)
      PROVE  UNCHANGED Ordered!vars
  BY <1>2, <1>b DEF Call
<1>3. ASSUME NEW c \in {"drain", "cancel"}, Close(c)
      PROVE  UNCHANGED Ordered!vars
  BY <1>3, <1>b DEF Close
<1>4. CASE CheckPop \/ CheckRaise \/ CheckDone \/ Retain \/ CancelDone \/ Joined \/ RemoveDirectory
  BY <1>4, <1>b DEF CheckPop, CheckRaise, CheckDone, Retain, CancelDone, Joined,
         RemoveDirectory
<1>5. CASE Enqueue
  <2>1. accepted' = accepted + 1 /\ UNCHANGED <<published, stage>>
    BY <1>5 DEF Enqueue
  <2>2. /\ accepted + 1 \in Job /\ future[accepted + 1] = "none"
        /\ future' = [future EXCEPT ![accepted + 1] = "pending"]
    BY <1>5, <1>a DEF Enqueue, IInv, TypeOK, QueueShape
  <2>3. \A j \in Job : GivenUp(j)' <=> GivenUp(j)
    BY <2>1, <2>2 DEF GivenUp, IInv, TypeOK
  <2>4. Stopped' = Stopped
    BY <2>1, <2>3 DEF Stopped
  <2> QED BY <2>1, <2>4 DEF Ordered!Next, Ordered!Accept
<1>6. CASE CancelPending
  <2>1. PICK k \in Job : future[k] = "pending" /\ future' = [future EXCEPT ![k] = "cancelled"]
    BY <1>6 DEF CancelPending, FirstPending, Pending
  <2>2. UNCHANGED <<accepted, published, stage>>
    BY <1>6 DEF CancelPending
  <2>3. GivenUp(k)' /\ \A j \in Job : j # k => (GivenUp(j)' <=> GivenUp(j))
    BY <2>1, <2>2 DEF GivenUp, IInv, TypeOK
  <2> QED BY <2>1, <2>2, <2>3, <1>d, GivesUp DEF Ordered!Next
<1>7. CASE Take
  <2>1. PICK k \in Job : /\ future[k] = "pending" /\ future' = [future EXCEPT ![k] = "running"]
                         /\ stage' = [job |-> k, at |-> "await"] /\ stage.job = NoJob
    BY <1>7 DEF Take, FirstPending, Pending
  <2>2. \A j \in Job : GivenUp(j)' <=> GivenUp(j)
    BY <2>1, <1>a DEF GivenUp, IInv, TypeOK
  <2>3. UNCHANGED <<accepted, published>> /\ Stopped' = Stopped
    BY <1>7, <2>2 DEF Take, Stopped
  <2> QED BY <2>3, Stutters
<1>8. CASE AwaitPrevious \/ (Publish /\ published' = published)
  <2>1. /\ stage.at \in {"await", "publish"} /\ UNCHANGED <<accepted, published, future>>
        /\ stage'.job = stage.job /\ stage'.at \in {"publish", "failing"}
        /\ stage' = [job |-> stage'.job, at |-> stage'.at]
    <3>1. CASE AwaitPrevious
      BY <3>1 DEF AwaitPrevious, IInv, TypeOK
    <3>2. CASE Publish /\ published' = published
      <4>1. published # Append(published, stage.job)
        <5>1. stage.job \in Job /\ published \in Seq(Job)
          BY <3>2 DEF Publish, IInv, TypeOK, WorkerShape
        <5> QED BY <5>1, <1>a, Queued
      <4>2. stage' = [stage EXCEPT !.at = "failing"]
        BY <3>2, <4>1 DEF Publish
      <4> QED BY <3>2, <4>2 DEF Publish, IInv, TypeOK
    <3> QED BY <1>8, <3>1, <3>2
  <2>2. stage.job \in Job /\ future[stage.job] = "running"
    BY <2>1 DEF IInv, TypeOK, WorkerShape
  <2>3. \A j \in Job : j # stage.job => (GivenUp(j)' <=> GivenUp(j))
    BY <2>1, <1>c DEF GivenUp
  <2>4. CASE stage'.at = "failing"
    BY <2>1, <2>2, <2>3, <2>4, <1>d, GivesUp DEF GivenUp, Ordered!Next
  <2>5. CASE stage'.at = "publish"
    <3>1. GivenUp(stage.job)' <=> GivenUp(stage.job)
      BY <2>1, <2>5, <1>c DEF GivenUp
    <3>2. Stopped' = Stopped
      BY <3>1, <2>1, <2>3 DEF Stopped
    <3> QED BY <3>2, <2>1, Stutters
  <2> QED BY <2>1, <2>4, <2>5
<1>9. CASE Publish /\ published' # published
  <2> DEFINE k == stage.job
  <2>1. /\ stage.at = "publish" /\ UNCHANGED <<accepted, future>>
        /\ published' = Append(published, k) /\ stage' = [stage EXCEPT !.at = "ok"]
    BY <1>9 DEF Publish
  <2>2. k \in Job /\ future[k] = "running"
    BY <2>1 DEF IInv, TypeOK, WorkerShape
  <2>3. Len(published') = Len(published) + 1
    BY <2>1, <2>2, Queued DEF IInv, TypeOK
  <2>4. stage'.job = k /\ stage'.at = "ok"
    BY <2>1 DEF IInv, TypeOK
  <2>5. k = Len(published) + 1 /\ k <= accepted
    <3>1. k <= Len(published')
      BY <2>2, <2>4 DEF IInv, WorkerShape
    <3>2. ~(k <= Len(published))
      BY <2>1, <2>2 DEF IInv, WorkerShape
    <3>3. k \in Nat /\ k <= accepted
      BY <2>2, <1>a, <1>d
    <3> QED BY <3>1, <3>2, <3>3, <2>3, <1>a
  <2>6. ~Stopped
    BY <2>1, <2>2, <2>5 DEF Stopped, GivenUp
  <2>7. Stopped' => Len(published') < accepted
    <3> SUFFICES ASSUME NEW j \in Job, j = Len(published') + 1, GivenUp(j)'
                 PROVE  Len(published') < accepted
      BY DEF Stopped
    <3>1. future[j] # "none"
      BY <2>1, <2>4 DEF GivenUp
    <3> QED BY <3>1, <1>a, <1>d, <2>3
  <2>8. Stopped' \in {FALSE, Len(published') < accepted}
    BY <2>7 DEF Stopped
  <2>9. Len(published) < accepted
    BY <2>5, <1>a
  <2> QED BY <2>1, <2>3, <2>6, <2>8, <2>9 DEF Ordered!Next, Ordered!PublishNext
<1>10. CASE SetResult
  <2>0. PICK k \in Job : k = stage.job /\ future[k] = "running"
    BY <1>10 DEF SetResult, IInv, TypeOK, WorkerShape
  <2>1. /\ stage.at \in {"ok", "failing"} /\ UNCHANGED <<accepted, published>>
        /\ future' = [future EXCEPT ![k] = IF stage.at = "ok" THEN "ok" ELSE "failed"]
        /\ stage' = [job |-> NoJob, at |-> "idle"]
    BY <1>10, <2>0 DEF SetResult
  <2>3. \A j \in Job : j # k => (GivenUp(j)' <=> GivenUp(j))
    BY <2>1, <2>0, <1>c DEF GivenUp, IInv, TypeOK
  <2>4. GivenUp(k)' <=> GivenUp(k)
    <3>1. GivenUp(k) <=> stage.at = "failing"
      BY <2>0, <1>c DEF GivenUp
    <3>2. future'[k] = IF stage.at = "ok" THEN "ok" ELSE "failed"
      BY <2>1, <2>0 DEF IInv, TypeOK
    <3>3. GivenUp(k)' <=> future'[k] \in {"failed", "cancelled"}
      BY <2>1, <2>0, <1>a DEF GivenUp
    <3> QED BY <3>1, <3>2, <3>3, <2>1
  <2>5. Stopped' = Stopped
    <3>1. \A j \in Job : GivenUp(j)' <=> GivenUp(j)
      BY <2>3, <2>4
    <3> QED BY <2>1, <3>1 DEF Stopped
  <2> QED BY <2>1, <2>5, Stutters
<1>11. CASE Publish
  BY <1>8, <1>9, <1>11
<1>12. CASE AwaitPrevious
  BY <1>8, <1>12
<1>13. CASE \/ \E c \in {"check", "submit"} : Call(c)
            \/ \E c \in {"drain", "cancel"} : Close(c)
  BY <1>2, <1>3, <1>13
<1> QED BY <1>4, <1>5, <1>6, <1>7, <1>10, <1>11, <1>12, <1>13 DEF Next

\* Publication is in the order of submission and without gaps: the publisher
\* implements OrderedPublication, and the i-th job published is job i.
THEOREM PublicationIsOrdered == Spec => PublishesInOrder
<1>1. IInv => \A i \in 1..Len(published) : published[i] = i
  BY DEF IInv, WorkerShape
<1>2. Spec => [][Ordered!Next]_(Ordered!vars)
  BY PublisherInvariant, OrderStep, PTL DEF Spec
<1>3. Spec => Ordered!Init
  BY FirstPublished DEF Spec
<1> QED BY PublisherInvariant, <1>1, <1>2, <1>3, PTL DEF PublishesInOrder, Ordered!Spec

-----------------------------------------------------------------------------
(* The data a run resumed from such a checkpoint trains on (DataReplay),   *)
(* for all setups, numbers of epochs and numbers of starts.                *)

\* The order in which a setup goes through batches, and where it steps.
Batch == (0..Epochs) \X Nat
Syncs(s, b) == b[2] % s.gas = 0 \/ b[2] = StepsInEpoch(s)
NextBatch(s, b) ==
    IF b[2] = 0 \/ b[2] < BatchesOf(s, b[1]) THEN <<b[1], b[2] + 1>> ELSE <<b[1] + 1, 1>>

\* Batches q that follow b and wait for a step, or make one.
InOrder(s, b, q) == \A i \in 1..Len(q) : q[i] = NextBatch(s, IF i = 1 THEN b ELSE q[i - 1])
Waits(s, b, q) == InOrder(s, b, q) /\ \A i \in 1..Len(q) : ~Syncs(s, q[i])
Makes(s, b, q) ==
    /\ InOrder(s, b, q) /\ Len(q) > 0 /\ Syncs(s, q[Len(q)])
    /\ \A i \in 1..(Len(q) - 1) : ~Syncs(s, q[i])

\* What comes after a batch up to the next step is determined.
LEMMA MadeOnce ==
    ASSUME NEW s, NEW b, NEW q \in Seq(Batch), NEW r \in Seq(Batch),
           Makes(s, b, q), Makes(s, b, r)
    PROVE  q = r
<1> DEFINE m == Len(q)
           n == Len(r)
           T == {i \in Nat : i + 1 <= m /\ i + 1 <= n => q[i + 1] = r[i + 1]}
<1>0. /\ m \in Nat /\ n \in Nat /\ m > 0 /\ n > 0
      /\ \A i \in 1..m : q[i] = NextBatch(s, IF i = 1 THEN b ELSE q[i - 1])
      /\ \A i \in 1..n : r[i] = NextBatch(s, IF i = 1 THEN b ELSE r[i - 1])
      /\ Syncs(s, q[m]) /\ \A i \in 1..(m - 1) : ~Syncs(s, q[i])
      /\ Syncs(s, r[n]) /\ \A i \in 1..(n - 1) : ~Syncs(s, r[i])
  BY LenProperties DEF Makes, InOrder
<1> HIDE DEF m, n
<1>1. 0 \in T
  <2>1. 1 \in 1..m /\ 1 \in 1..n
    BY <1>0
  <2>2. q[1] = NextBatch(s, b) /\ r[1] = NextBatch(s, b)
    BY <1>0, <2>1
  <2> QED BY <2>2
<1>2. ASSUME NEW i \in T PROVE i + 1 \in T
  <2> SUFFICES ASSUME (i + 1) + 1 <= m, (i + 1) + 1 <= n
               PROVE  q[(i + 1) + 1] = r[(i + 1) + 1]
    OBVIOUS
  <2> DEFINE j == i + 1
  <2>1. j \in Nat /\ j + 1 \in 1..m /\ j + 1 \in 1..n /\ j + 1 # 1 /\ (j + 1) - 1 = j
    BY <1>0
  <2>2. q[j] = r[j]
    BY <1>0
  <2> HIDE DEF j
  <2>3. q[j + 1] = NextBatch(s, q[j]) /\ r[j + 1] = NextBatch(s, r[j])
    BY <1>0, <2>1
  <2> QED BY <2>2, <2>3 DEF j
<1>3. T = Nat
  <2> HIDE DEF T
  <2>1. T \subseteq Nat
    BY DEF T
  <2> QED BY <1>1, <1>2, <2>1, NaturalInduction
<1>4. \A i \in Nat \ {0} : i <= m /\ i <= n => q[i] = r[i]
  <2> SUFFICES ASSUME NEW i \in Nat \ {0}, i <= m, i <= n PROVE q[i] = r[i]
    OBVIOUS
  <2> HIDE DEF T
  <2>1. i - 1 \in T /\ (i - 1) + 1 = i
    BY <1>3
  <2> QED BY <1>0, <2>1 DEF T
<1>5. ~(m < n)
  <2> SUFFICES ASSUME m < n PROVE FALSE
    OBVIOUS
  <2>1. q[m] = r[m] /\ m \in 1..(n - 1)
    BY <1>0, <1>4
  <2> QED BY <1>0, <2>1
<1>6. ~(n < m)
  <2> SUFFICES ASSUME n < m PROVE FALSE
    OBVIOUS
  <2>1. q[n] = r[n] /\ n \in 1..(m - 1)
    BY <1>0, <1>4
  <2> QED BY <1>0, <2>1
<1>7. m = n /\ \A i \in 1..m : q[i] = r[i]
  BY <1>0, <1>4, <1>5, <1>6
<1> QED BY <1>7, SeqEqual DEF m, n

\* One batch more.
LEMMA OneMoreBatch ==
    ASSUME NEW s, NEW b, NEW q \in Seq(Batch), Waits(s, b, q), NEW x \in Batch,
           x = NextBatch(s, IF Len(q) = 0 THEN b ELSE q[Len(q)])
    PROVE  /\ Append(q, x) \in Seq(Batch) /\ Append(q, x) # <<>>
           /\ Len(Append(q, x)) = Len(q) + 1 /\ Append(q, x)[Len(Append(q, x))] = x
           /\ Syncs(s, x) => Makes(s, b, Append(q, x))
           /\ ~Syncs(s, x) => Waits(s, b, Append(q, x))
<1> DEFINE r == Append(q, x)
           n == Len(q)
<1>1. /\ r \in Seq(Batch) /\ r # <<>> /\ Len(r) = n + 1 /\ n \in Nat
      /\ \A i \in 1..n : r[i] = q[i]
      /\ r[n + 1] = x
  BY AppendProperties, LenProperties
<1>2. /\ \A i \in 1..n : q[i] = NextBatch(s, IF i = 1 THEN b ELSE q[i - 1])
      /\ \A i \in 1..n : ~Syncs(s, q[i])
      /\ x = NextBatch(s, IF n = 0 THEN b ELSE q[n])
  BY DEF Waits, InOrder
<1> HIDE DEF r, n
<1>3. ASSUME NEW i \in 1..(n + 1) PROVE r[i] = NextBatch(s, IF i = 1 THEN b ELSE r[i - 1])
  <2>1. CASE i = n + 1 /\ n = 0
    BY <1>1, <1>2, <2>1
  <2>2. CASE i = n + 1 /\ n # 0
    <3>1. n \in 1..n /\ i - 1 = n /\ i # 1
      BY <1>1, <2>2
    <3> QED BY <1>1, <1>2, <2>2, <3>1
  <2>3. CASE i = 1 /\ n # 0
    <3>1. 1 \in 1..n
      BY <1>1, <2>3
    <3> QED BY <1>1, <1>2, <2>3, <3>1
  <2>4. CASE i # n + 1 /\ i # 1
    <3>1. i \in 1..n /\ i - 1 \in 1..n
      BY <1>1, <2>4
    <3> QED BY <1>1, <1>2, <2>4, <3>1
  <2> QED BY <2>1, <2>2, <2>3, <2>4
<1>4. InOrder(s, b, r)
  BY <1>1, <1>3 DEF InOrder
<1>5. \A i \in 1..n : ~Syncs(s, r[i])
  BY <1>1, <1>2
<1>6. ~Syncs(s, x) => \A i \in 1..(n + 1) : ~Syncs(s, r[i])
  <2>1. \A i \in 1..(n + 1) : i \in 1..n \/ i = n + 1
    BY <1>1
  <2> QED BY <1>1, <1>5, <2>1
<1>7. Len(r) > 0 /\ Len(r) - 1 = n
  BY <1>1
<1> QED BY <1>1, <1>4, <1>5, <1>6, <1>7 DEF Makes, Waits, r, n

\* The last batch of the first g optimizer steps, the batch behind a process,
\* and what state.epoch says after the g-th step.
After(tr, g) == IF g = 0 THEN <<0, 0>> ELSE tr[g][Len(tr[g])]
Behind(tr, g, h) == IF Len(h) = 0 THEN After(tr, g) ELSE h[Len(h)]
PlaceAfter(s, tr, g) ==
    IF g = 0 THEN [epoch |-> 0, step |-> 0, of |-> 1]
    ELSE Position(After(tr, g)[1], After(tr, g)[2], StepsInEpoch(s))

\* The optimizer steps recorded are those a setup makes, one after the other.
History(s, tr) == \A g \in 1..Len(tr) : Makes(s, After(tr, g - 1), tr[g])

\* A process of setup s that has made g steps, with h waiting, in epoch e.
OnTrack(s, tr, g, a, e, h) ==
    /\ History(s, tr) /\ g \in 0..Len(tr) /\ a = PlaceAfter(s, tr, g)
    /\ After(tr, g)[1] <= e /\ Waits(s, After(tr, g), h)

\* A checkpoint of such a process; the batches it counts are those of the
\* epoch it tells, unless it is Misplaced.
Saved(s, tr, c) ==
    /\ c.sampler.settings = s.settings /\ c.sampler.steps = StepsInEpoch(s)
    /\ c.globalStep \in 0..Len(tr) /\ c.at = PlaceAfter(s, tr, c.globalStep)
    /\ ~c.error /\ c.resumeEpoch = c.at.epoch
    /\ ~Misplaced(c) => c.consumed = c.at.step

LEMMA SetupHas ==
    ASSUME NEW s \in Setup
    PROVE  /\ s.gas \in Nat \ {0} /\ StepsInEpoch(s) \in Nat \ {0} /\ Epochs \in Nat \ {0}
           /\ \A e \in 0..(Epochs - 1) :
                 BatchesOf(s, e) \in Nat \ {0} /\ BatchesOf(s, e) <= StepsInEpoch(s)
           /\ \A t \in Setup : s.settings = t.settings => s = t
<1> DEFINE l == s.length
<1>1. s.gas \in Nat \ {0} /\ l \in [0..(Epochs - 1) -> Nat \ {0}] /\ Epochs \in Nat \ {0}
  BY ReplayAssumption
<1>2. \A t \in Setup : s.settings = t.settings => s = t
  BY ReplayAssumption
<1>3. StepsInEpoch(s) = l[0] /\ \A e : BatchesOf(s, e) = IF l[e] < l[0] THEN l[e] ELSE l[0]
  BY DEF StepsInEpoch, BatchesOf
<1> HIDE DEF l
<1>4. 0 \in 0..(Epochs - 1)
  BY <1>1
<1>5. l[0] \in Nat \ {0} /\ \A e \in 0..(Epochs - 1) : l[e] \in Nat \ {0}
  BY <1>1, <1>4
<1>6. ASSUME NEW e \in 0..(Epochs - 1)
      PROVE  BatchesOf(s, e) \in Nat \ {0} /\ BatchesOf(s, e) <= StepsInEpoch(s)
  <2>1. BatchesOf(s, e) = IF l[e] < l[0] THEN l[e] ELSE l[0]
    BY <1>3
  <2> QED BY <1>3, <1>5, <2>1
<1> QED BY <1>1, <1>2, <1>3, <1>5, <1>6

LEMMA AfterIsBatch ==
    ASSUME NEW s \in Setup, NEW tr \in Seq(Seq(Batch)),
           History(s, tr), NEW g \in 0..Len(tr)
    PROVE  /\ After(tr, g) \in Batch
           /\ g # 0 => Syncs(s, After(tr, g))
<1>0. Epochs \in Nat \ {0}
  BY SetupHas
<1>1. CASE g = 0
  BY <1>0, <1>1 DEF After, Batch
<1>2. CASE g # 0
  <2>1. g \in 1..Len(tr) /\ tr[g] \in Seq(Batch)
    <3>1. Len(tr) \in Nat /\ g \in 1..Len(tr)
      BY <1>2, LenProperties
    <3> QED BY <3>1, ElementOfSeq
  <2>2. Makes(s, After(tr, g - 1), tr[g])
    BY <2>1 DEF History
  <2> DEFINE q == tr[g]
             n == Len(q)
  <2>3. n \in Nat /\ n > 0 /\ n \in 1..n
    <3>1. n \in Nat
      BY <2>1, LenProperties
    <3>2. n > 0
      BY <2>2 DEF Makes
    <3> HIDE DEF n
    <3> QED BY <3>1, <3>2
  <2>4. q[n] \in Batch
    BY <2>1, <2>3, ElementOfSeq
  <2>5. Syncs(s, q[n]) /\ q[n] = NextBatch(s, IF n = 1 THEN After(tr, g - 1) ELSE q[n - 1])
    BY <2>2, <2>3 DEF Makes, InOrder
  <2>6. After(tr, g) = q[n]
    BY <1>2 DEF After
  <2> QED BY <2>4, <2>5, <2>6
<1> QED BY <1>1, <1>2

\* state.epoch tells of the beginning of an epoch, or of batch b at the end of
\* an accumulation.
Tells(s, a, b) ==
    \/ a.step = 0 /\ a.of = 1
    \/ /\ a.epoch = b[1] /\ a.step \in Nat /\ a.step % s.gas = 0
       /\ a.of = StepsInEpoch(s)

\* Going on from where state.epoch tells is going on from the last batch.
LEMMA ResumePlace ==
    ASSUME NEW s \in Setup, NEW tr \in Seq(Seq(Batch)),
           History(s, tr), NEW g \in 0..Len(tr), NEW a, a = PlaceAfter(s, tr, g),
           a.epoch \in 0..Epochs
    PROVE  /\ NextBatch(s, <<a.epoch, a.step>>) = NextBatch(s, After(tr, g))
           /\ After(tr, g)[1] <= a.epoch
           /\ Tells(s, a, After(tr, g))
<1> DEFINE b == After(tr, g)
           l == StepsInEpoch(s)
<1>0. /\ b \in Batch /\ (g # 0 => Syncs(s, b)) /\ l \in Nat \ {0} /\ Epochs \in Nat \ {0}
      /\ s.gas \in Nat \ {0}
  BY AfterIsBatch, SetupHas
<1>1. CASE g = 0
  BY <1>1 DEF PlaceAfter, After, Tells
<1>2. CASE g # 0 /\ b[2] = l
  <2>1. a = [epoch |-> b[1] + 1, step |-> 0, of |-> 1]
    BY <1>2 DEF PlaceAfter, Position
  <2> HIDE DEF b, l
  <2>2. b = <<b[1], b[2]>> /\ b[1] \in 0..Epochs
    BY <1>0 DEF Batch
  <2>3. b[1] \in 0..(Epochs - 1) /\ a.epoch = b[1] + 1 /\ a.step = 0 /\ a.of = 1
    BY <1>0, <2>1, <2>2
  <2>4. BatchesOf(s, b[1]) \in Nat \ {0} /\ BatchesOf(s, b[1]) <= l
    BY <2>3, SetupHas DEF l
  <2>5. NextBatch(s, b) = <<b[1] + 1, 1>>
    BY <1>0, <1>2, <2>4 DEF NextBatch
  <2>6. NextBatch(s, <<a.epoch, a.step>>) = <<b[1] + 1, 1>>
    BY <2>3 DEF NextBatch
  <2> QED BY <2>2, <2>3, <2>5, <2>6 DEF b, Tells
<1>3. CASE g # 0 /\ b[2] # l
  <2>1. a = [epoch |-> b[1], step |-> b[2], of |-> l]
    BY <1>3 DEF PlaceAfter, Position
  <2>2. b[2] % s.gas = 0
    BY <1>0, <1>3 DEF Syncs
  <2> HIDE DEF b, l
  <2>3. b = <<b[1], b[2]>> /\ b[1] \in 0..Epochs /\ b[2] \in Nat
    BY <1>0 DEF Batch
  <2>4. a.epoch = b[1] /\ a.step = b[2] /\ a.of = l
    BY <2>1
  <2>5. NextBatch(s, <<a.epoch, a.step>>) = NextBatch(s, b) /\ b[1] <= a.epoch
    <3>1. <<a.epoch, a.step>> = b
      BY <2>3, <2>4
    <3>2. b[1] <= a.epoch
      BY <2>3, <2>4
    <3> HIDE DEF NextBatch
    <3> QED BY <3>1, <3>2
  <2> QED BY <2>2, <2>3, <2>4, <2>5 DEF b, l, Tells
<1> QED BY <1>1, <1>2, <1>3

\* A history grows by the batches of the step that is made now, or has them.
LEMMA HistoryGrows ==
    ASSUME NEW s \in Setup, NEW tr \in Seq(Seq(Batch)), History(s, tr),
           NEW q \in Seq(Batch), Makes(s, After(tr, Len(tr)), q)
    PROVE  /\ Append(tr, q) \in Seq(Seq(Batch)) /\ History(s, Append(tr, q))
           /\ Len(Append(tr, q)) = Len(tr) + 1
           /\ \A g \in 0..Len(tr) : After(Append(tr, q), g) = After(tr, g)
           /\ After(Append(tr, q), Len(tr) + 1) = q[Len(q)]
<1> DEFINE r == Append(tr, q)
           n == Len(tr)
<1>1. /\ r \in Seq(Seq(Batch)) /\ Len(r) = n + 1 /\ n \in Nat
      /\ \A i \in 1..n : r[i] = tr[i]
      /\ r[n + 1] = q
  BY AppendProperties, LenProperties
<1>2. \A g \in 1..n : Makes(s, After(tr, g - 1), tr[g])
  BY DEF History
<1>3. Makes(s, After(tr, n), q)
  OBVIOUS
<1> HIDE DEF r, n
<1>4. ASSUME NEW g \in 0..n PROVE After(r, g) = After(tr, g)
  <2>1. CASE g = 0
    BY <2>1 DEF After
  <2>2. CASE g # 0
    <3>1. g \in 1..n
      BY <1>1, <2>2
    <3> QED BY <1>1, <3>1 DEF After
  <2> QED BY <2>1, <2>2
<1>5. ASSUME NEW g \in 1..Len(r) PROVE Makes(s, After(r, g - 1), r[g])
  <2>1. CASE g = n + 1
    <3>1. g - 1 = n /\ n \in 0..n
      BY <1>1, <2>1
    <3> QED BY <1>1, <1>3, <1>4, <2>1, <3>1
  <2>2. CASE g # n + 1
    <3>1. g \in 1..n /\ g - 1 \in 0..n
      BY <1>1, <2>2
    <3> QED BY <1>1, <1>2, <1>4, <3>1
  <2> QED BY <2>1, <2>2
<1>6. After(r, n + 1) = q[Len(q)]
  <2>1. n + 1 # 0
    BY <1>1
  <2> QED BY <1>1, <2>1 DEF After
<1> QED BY <1>1, <1>4, <1>5, <1>6 DEF History, r, n

\* What is saved stays true of a longer history.
LEMMA SavedStays ==
    ASSUME NEW s, NEW tr, NEW tr2, NEW c, Saved(s, tr, c), Len(tr) \in Nat,
           Len(tr2) \in Nat, Len(tr) <= Len(tr2),
           \A g \in 0..Len(tr) : After(tr2, g) = After(tr, g)
    PROVE  Saved(s, tr2, c)
<1>1. c.globalStep \in 0..Len(tr) /\ c.globalStep \in 0..Len(tr2)
  BY DEF Saved
<1>2. PlaceAfter(s, tr2, c.globalStep) = PlaceAfter(s, tr, c.globalStep)
  BY <1>1 DEF PlaceAfter
<1> QED BY <1>1, <1>2 DEF Saved

Running == run \in {"batches", "synced", "ended", "next"}
AtMostOne(S) == S = {} \/ \E c : S = {c}

ReplayTypes ==
    /\ ReplayTypeOK /\ trained \in Seq(Seq(Batch))
    /\ AtMostOne(checkpoint) /\ AtMostOne(resumed)
    /\ Running =>
          /\ epoch \in 0..(Epochs - 1) /\ plan = epoch
          /\ sampler = [settings |-> setup.settings, steps |-> StepsInEpoch(setup),
                        epoch |-> epoch]

\* A process that has just started resumes where a checkpoint says.
Fresh ==
    /\ resumed # {} /\ resumed = checkpoint /\ held = <<>>
    /\ \A c \in resumed : /\ epoch = c.at.epoch /\ globalStep = c.globalStep /\ at = c.at
                          /\ ~Misplaced(c)

CheckpointsReplay ==
    \A c \in checkpoint : \E s \in Setup : History(s, trained) /\ Saved(s, trained, c)
Continues ==
    /\ \A c \in checkpoint : c.sampler.settings = setup.settings
    /\ OnTrack(setup, trained, globalStep, at, epoch, held)
RunsOnTrack ==
    Running =>
        /\ Continues
        /\ NextBatch(setup, <<epoch, step>>)
              = NextBatch(setup, Behind(trained, globalStep, held))
        /\ \A c \in resumed : c.at.epoch <= epoch
        /\ run \in {"ended", "next"} => Enough \/ step = BatchesOf(setup, epoch)
EpochOnTrack ==
    run = "epoch" =>
        \/ Fresh
        \/ /\ Continues
           /\ \A c \in resumed : c.at.epoch < epoch
           /\ NextBatch(setup, Behind(trained, globalStep, held)) = <<epoch, 1>>
RefusedForCause ==
    run = "refused" => \E c \in resumed : c.sampler.settings # setup.settings

ExactRun ==
    exact => /\ ~ignore /\ CheckpointsReplay
             /\ RunsOnTrack /\ EpochOnTrack /\ RefusedForCause

\* While exactness has not been given up, the last checkpoint has a place in the
\* history of one setup, and a process goes on in the history of its own.
ReplayIInv == ReplayTypes /\ ExactRun

LEMMA SmallSet ==
    ASSUME NEW S, AtMostOne(S)
    PROVE  Cardinality(S) <= 1
<1>1. CASE S = {}
  BY <1>1, FS_EmptySet
<1>2. ASSUME NEW c, S = {c} PROVE Cardinality(S) <= 1
  <2>1. Cardinality({c}) = 1
    BY FS_Singleton
  <2> QED BY <1>2, <2>1
<1> QED BY <1>1, <1>2 DEF AtMostOne

\* The types in parts.
LEMMA Typed ==
    ASSUME ReplayTypes
    PROVE  /\ run \in {"off", "epoch", "batches", "synced", "ended", "next", "done", "refused"}
           /\ setup \in Setup /\ ignore \in BOOLEAN /\ exact \in BOOLEAN
           /\ epoch \in 0..Epochs /\ plan \in 0..Epochs /\ step \in Nat /\ globalStep \in Nat
           /\ held \in Seq(Batch) /\ at \in Position_ /\ sampler \in Sampler_
           /\ checkpoint \subseteq Checkpoint_ /\ resumed \subseteq Checkpoint_
           /\ starts \in 0..MaxStarts /\ trained \in Seq(Seq(Batch))
           /\ AtMostOne(checkpoint) /\ AtMostOne(resumed)
BY DEF ReplayTypes, ReplayTypeOK, Batch

\* And put together again.
LEMMA TypesNext ==
    ASSUME run' \in {"off", "epoch", "batches", "synced", "ended", "next", "done", "refused"},
           setup' \in Setup, ignore' \in BOOLEAN, exact' \in BOOLEAN,
           epoch' \in 0..Epochs, plan' \in 0..Epochs, step' \in Nat, globalStep' \in Nat,
           held' \in Seq(Batch), at' \in Position_, sampler' \in Sampler_,
           checkpoint' \subseteq Checkpoint_, resumed' \subseteq Checkpoint_,
           starts' \in 0..MaxStarts, trained' \in Seq(Seq(Batch)),
           AtMostOne(checkpoint'), AtMostOne(resumed'),
           run' \in {"batches", "synced", "ended", "next"} =>
              /\ epoch' \in 0..(Epochs - 1) /\ plan' = epoch'
              /\ sampler' = [settings |-> setup'.settings, steps |-> StepsInEpoch(setup'),
                             epoch |-> epoch']
    PROVE  ReplayTypes'
<1>1. Cardinality(checkpoint') <= 1 /\ Cardinality(resumed') <= 1
  BY SmallSet
<1>2. AtMostOne(checkpoint)' /\ AtMostOne(resumed)'
  BY DEF AtMostOne
<1>3. (StepsInEpoch(setup))' = StepsInEpoch(setup')
  BY DEF StepsInEpoch
<1>4. /\ Checkpoint_' = Checkpoint_ /\ Position_' = Position_
      /\ Sampler_' = Sampler_ /\ Batch' = Batch
  BY DEF Checkpoint_, Position_, Sampler_, Batch
<1>5. ReplayTypeOK'
  <2>1. \A S \in {checkpoint', resumed'} : Cardinality(S) <= 1 /\ S \subseteq Checkpoint_
    BY <1>1
  <2>2. held' \in Seq((0..Epochs) \X Nat)
    BY DEF Batch
  <2>3. (\A S \in {checkpoint, resumed} : Cardinality(S) <= 1 /\ S \subseteq Checkpoint_)'
    BY <1>4, <2>1
  <2> QED BY <1>4, <2>2, <2>3 DEF ReplayTypeOK
<1> QED BY <1>2, <1>3, <1>5 DEF ReplayTypes, Running

\* Where state.epoch can be.
LEMMA PositionTyped ==
    ASSUME NEW e \in 0..(Epochs - 1), NEW n \in Nat, NEW l \in Nat \ {0}
    PROVE  Position(e, n, l) \in Position_
<1>1. Epochs \in Nat \ {0}
  BY ReplayAssumption
<1>2. e + 1 \in 0..Epochs /\ e \in 0..Epochs
  BY <1>1
<1> QED BY <1>2 DEF Position, Position_

LEMMA FirstPosition ==
    /\ [epoch |-> 0, step |-> 0, of |-> 1] \in Position_
    /\ 0 \in 0..Epochs /\ 0 \in 0..(Epochs - 1) /\ <<>> \in Seq(Batch)
    /\ <<>> \in Seq(Seq(Batch)) /\ {} \subseteq Checkpoint_ /\ AtMostOne({})
<1>1. 0 \in 0..Epochs /\ 0 \in 0..(Epochs - 1)
  BY ReplayAssumption
<1> QED BY <1>1, EmptySeq DEF Position_, AtMostOne

LEMMA ReplayStarts ==
    ASSUME ReplayInit
    PROVE  ReplayIInv
<1>1. ReplayTypeOK
  <2>1. Cardinality({}) <= 1
    BY FirstPosition, SmallSet
  <2>2. [settings |-> <<>>, steps |-> 0, epoch |-> 0] \in Sampler_
    BY FirstPosition DEF Sampler_
  <2>3. 0 \in 0..MaxStarts
    BY ReplayAssumption
  <2>4. <<>> \in Seq((0..Epochs) \X Nat)
    BY FirstPosition DEF Batch
  <2>5. \A S \in {checkpoint, resumed} : Cardinality(S) <= 1 /\ S \subseteq Checkpoint_
    BY <2>1 DEF ReplayInit
  <2> QED BY <2>2, <2>3, <2>4, <2>5, FirstPosition DEF ReplayInit, ReplayTypeOK
<1> QED BY <1>1, FirstPosition DEF ReplayInit, ReplayIInv, ReplayTypes, Running, ExactRun,
           CheckpointsReplay, RunsOnTrack, EpochOnTrack, RefusedForCause

-----------------------------------------------------------------------------
(* Every step keeps the types.                                             *)

LEMMA StartTypes ==
    ASSUME ReplayTypes, Start
    PROVE  ReplayTypes'
<1> USE DEF Start
<1>a. starts' \in 0..MaxStarts
  BY Typed, ReplayAssumption
<1>b. ignore' \in BOOLEAN
  OBVIOUS
<1>0. /\ starts' \in 0..MaxStarts /\ setup' \in Setup /\ ignore' \in BOOLEAN
      /\ plan' \in 0..Epochs /\ step' \in Nat /\ held' \in Seq(Batch)
      /\ resumed' = checkpoint /\ checkpoint' = checkpoint /\ sampler' = sampler
  BY <1>a, <1>b, FirstPosition
<1>1. CASE checkpoint = {} /\ epoch' = 0 /\ globalStep' = 0
           /\ at' = [epoch |-> 0, step |-> 0, of |-> 1] /\ trained' = <<>> /\ exact' = TRUE
           /\ run' = "epoch"
  BY <1>0, <1>1, Typed, FirstPosition, TypesNext
<1>2. ASSUME NEW c \in checkpoint,
             epoch' = EpochTrained(setup', c), globalStep' = c.globalStep, at' = c.at,
             exact' = (exact /\ ~ignore' /\ ~Misplaced(c)),
             run' = (IF epoch' < Epochs THEN "epoch" ELSE "done"),
             trained' = (IF exact' THEN trained ELSE <<>>)
      PROVE  ReplayTypes'
  <2>1. c \in Checkpoint_
    BY <1>2, Typed
  <2>2. c.globalStep \in Nat /\ c.at \in Position_ /\ c.at.epoch \in 0..Epochs
    BY <2>1 DEF Checkpoint_, Position_
  <2>3. epoch' \in 0..Epochs
    BY <1>2, <2>2 DEF EpochTrained
  <2>4. exact' \in BOOLEAN
    BY <1>2
  <2>5. trained' \in Seq(Seq(Batch)) /\ run' \in {"epoch", "done"}
    BY <1>2, Typed, FirstPosition
  <2> QED BY <1>0, <1>2, <2>2, <2>3, <2>4, <2>5, Typed, TypesNext
<1> QED BY <1>1, <1>2

LEMMA BeginEpochTypes ==
    ASSUME ReplayTypes, BeginEpoch
    PROVE  ReplayTypes'
<1> USE DEF BeginEpoch
<1>1. /\ plan' = epoch /\ epoch \in 0..(Epochs - 1) /\ epoch' = epoch
      /\ sampler' = [settings |-> setup.settings, steps |-> StepsInEpoch(setup), epoch |-> epoch]
      /\ setup' = setup /\ ignore' = ignore /\ resumed' = resumed /\ held' = held
      /\ globalStep' = globalStep /\ at' = at /\ checkpoint' = checkpoint /\ starts' = starts
      /\ trained' = trained /\ exact' = exact
  <2>1. epoch < Epochs /\ epoch \in 0..Epochs
    BY Typed
  <2>2. epoch \in 0..(Epochs - 1)
    BY <2>1, ReplayAssumption
  <2> QED BY <2>2 DEF SetEpoch, process, history
<1>2. sampler' \in Sampler_
  <2>1. setup \in Setup /\ StepsInEpoch(setup) \in Nat /\ epoch \in 0..Epochs
    BY Typed, SetupHas
  <2> QED BY <1>1, <2>1 DEF Sampler_
<1>3. step' \in Nat /\ run' \in {"batches", "refused"}
  <2>1. \A c \in resumed : c.consumed \in Nat
    BY Typed DEF Checkpoint_
  <2> QED BY <2>1, Typed
<1> QED BY <1>1, <1>2, <1>3, Typed, TypesNext

LEMMA TrainTypes ==
    ASSUME ReplayTypes, Train
    PROVE  ReplayTypes'
<1> DEFINE now == Append(held, <<plan, step'>>)
<1>1. /\ run = "batches" /\ step' = step + 1 /\ plan' = plan /\ epoch' = epoch
      /\ sampler' = sampler /\ setup' = setup /\ ignore' = ignore /\ resumed' = resumed
      /\ checkpoint' = checkpoint /\ starts' = starts /\ exact' = exact
  BY DEF Train, process
<1>2. /\ epoch \in 0..(Epochs - 1) /\ plan = epoch
      /\ sampler = [settings |-> setup.settings, steps |-> StepsInEpoch(setup), epoch |-> epoch]
  BY <1>1 DEF ReplayTypes, Running
<1>3. step' \in Nat /\ now \in Seq(Batch)
  <2>1. step' \in Nat
    BY <1>1, Typed
  <2>2. <<plan, step'>> \in Batch
    BY <2>1, Typed DEF Batch
  <2> QED BY <2>1, <2>2, Typed, AppendProperties
<1>4. /\ run' \in {"batches", "synced"} /\ globalStep' \in Nat /\ at' \in Position_
      /\ held' \in Seq(Batch) /\ trained' \in Seq(Seq(Batch))
  <2>1. CASE step' % setup.gas = 0 \/ step' = StepsInEpoch(setup)
    <3>1. /\ globalStep' = globalStep + 1
          /\ at' = Position(epoch, step', StepsInEpoch(setup))
          /\ held' = <<>> /\ run' = "synced"
          /\ trained' = trained \/ trained' = Append(trained, now)
      BY <2>1 DEF Train
    <3>2. at' \in Position_
      BY <1>2, <1>3, <3>1, Typed, SetupHas, PositionTyped
    <3>3. trained' \in Seq(Seq(Batch))
      <4> HIDE DEF now
      <4>1. trained \in Seq(Seq(Batch))
        BY Typed
      <4>2. Append(trained, now) \in Seq(Seq(Batch))
        BY <1>3, <4>1, AppendProperties
      <4> QED BY <3>1, <4>1, <4>2
    <3>4. globalStep' \in Nat
      BY <3>1, Typed
    <3> QED BY <3>1, <3>2, <3>3, <3>4, FirstPosition
  <2>2. CASE ~(step' % setup.gas = 0 \/ step' = StepsInEpoch(setup))
    <3>1. held' = now /\ UNCHANGED <<globalStep, at, trained, run>>
      BY <2>2 DEF Train
    <3> QED BY <1>1, <1>3, <3>1, Typed
  <2> QED BY <2>1, <2>2
<1> HIDE DEF now
<1> QED BY <1>1, <1>2, <1>3, <1>4, Typed, TypesNext

LEMMA SaveTypes ==
    ASSUME ReplayTypes, Save
    PROVE  ReplayTypes'
<1> DEFINE c == [globalStep |-> globalStep, at |-> at, sampler |-> sampler,
                 resumeEpoch |-> at.epoch, consumed |-> Offset \div at.of,
                 error |-> ~OnBoundary(Offset)]
<1>1. /\ checkpoint' = {c} /\ run \in {"synced", "ended"} /\ run' \in {"batches", "ended", "next"}
      /\ setup' = setup /\ ignore' = ignore /\ resumed' = resumed /\ epoch' = epoch
      /\ step' = step /\ held' = held /\ globalStep' = globalStep /\ at' = at
      /\ plan' = plan /\ sampler' = sampler /\ starts' = starts /\ trained' = trained
      /\ exact' = exact
  BY DEF Save, GoOn, process, progress, history
<1>2. c \in Checkpoint_
  <2>1. at.epoch \in 0..Epochs /\ at.step \in Nat /\ at.of \in Nat \ {0} /\ sampler.steps \in Nat
    BY Typed DEF Position_, Sampler_
  <2>2. Offset \in Nat
    <3>1. at.step * sampler.steps \in Nat
      BY <2>1
    <3> QED BY <3>1 DEF Offset
  <2>3. Offset \div at.of \in Nat
    <3> DEFINE o == Offset
               d == at.of
    <3>1. o \in Nat /\ d \in Nat \ {0}
      BY <2>1, <2>2
    <3> HIDE DEF o, d
    <3>2. o \div d \in Nat
      BY <3>1
    <3> QED BY <3>2 DEF o, d
  <2>4. (~OnBoundary(Offset)) \in BOOLEAN
    OBVIOUS
  <2> QED BY <2>1, <2>3, <2>4, Typed DEF Checkpoint_
<1>3. checkpoint' \subseteq Checkpoint_ /\ AtMostOne(checkpoint')
  BY <1>1, <1>2 DEF AtMostOne
<1>4. /\ epoch \in 0..(Epochs - 1) /\ plan = epoch
      /\ sampler = [settings |-> setup.settings, steps |-> StepsInEpoch(setup), epoch |-> epoch]
  BY <1>1 DEF ReplayTypes, Running
<1> HIDE DEF c
<1> QED BY <1>1, <1>3, <1>4, Typed, TypesNext

LEMMA QuietTypes ==
    ASSUME ReplayTypes,
           Crash \/ SkipSave \/ EndEpoch \/ NextEpoch \/ UNCHANGED replayVars
    PROVE  ReplayTypes'
<1>1. /\ setup' = setup /\ ignore' = ignore /\ resumed' = resumed
      /\ step' = step /\ held' = held /\ globalStep' = globalStep /\ at' = at
      /\ plan' = plan /\ sampler' = sampler /\ starts' = starts /\ trained' = trained
      /\ exact' = exact /\ checkpoint' = checkpoint
  BY DEF Crash, SkipSave, EndEpoch, NextEpoch, replayVars, process, progress, history
<1>2. CASE Crash
  <2>1. run' = "off" /\ epoch' = epoch
    BY <1>2 DEF Crash
  <2> QED BY <1>1, <2>1, Typed, TypesNext
<1>3. CASE SkipSave \/ EndEpoch
  <2>1. run \in {"batches", "synced", "ended"} /\ run' \in {"batches", "ended", "next"} /\ epoch' = epoch
    BY <1>3 DEF SkipSave, EndEpoch, GoOn
  <2>2. /\ epoch \in 0..(Epochs - 1) /\ plan = epoch
        /\ sampler = [settings |-> setup.settings, steps |-> StepsInEpoch(setup), epoch |-> epoch]
    BY <2>1 DEF ReplayTypes, Running
  <2> QED BY <1>1, <2>1, <2>2, Typed, TypesNext
<1>4. CASE NextEpoch
  <2>1. run = "next" /\ epoch' = epoch + 1 /\ run' \in {"done", "epoch"}
    BY <1>4 DEF NextEpoch
  <2>2. epoch' \in 0..Epochs
    BY <2>1, SetupHas, Typed DEF ReplayTypes, Running
  <2> QED BY <1>1, <2>1, <2>2, Typed, TypesNext
<1>5. CASE UNCHANGED replayVars
  <2>1. run' = run /\ epoch' = epoch
    BY <1>5 DEF replayVars
  <2>2. run \in {"batches", "synced", "ended", "next"} =>
        /\ epoch \in 0..(Epochs - 1) /\ plan = epoch
        /\ sampler = [settings |-> setup.settings, steps |-> StepsInEpoch(setup), epoch |-> epoch]
    BY DEF ReplayTypes, Running
  <2> QED BY <1>1, <2>1, <2>2, Typed, TypesNext
<1> QED BY <1>1, <1>2, <1>3, <1>4, <1>5

\* What the steps are about is the same after a step that does not touch it.
LEMMA CheckpointsStay ==
    ASSUME CheckpointsReplay, checkpoint' = checkpoint, trained' = trained
    PROVE  CheckpointsReplay'
<1>1. \A c \in checkpoint : \E s \in Setup : History(s, trained) /\ Saved(s, trained, c)
  BY DEF CheckpointsReplay
<1>2. \A c \in checkpoint' : \E s \in Setup : History(s, trained') /\ Saved(s, trained', c)
  BY <1>1
<1>3. \A c, s : Saved(s, trained, c)' <=> Saved(s, trained', c)
  BY DEF Saved, PlaceAfter, After, Misplaced, Position, StepsInEpoch
<1>4. \A s : History(s, trained)' <=> History(s, trained')
  BY DEF History, Makes, InOrder, Syncs, NextBatch, After
<1> QED BY <1>2, <1>3, <1>4 DEF CheckpointsReplay

LEMMA ContinuesNext ==
    ASSUME \A c \in checkpoint' : c.sampler.settings = setup'.settings,
           OnTrack(setup', trained', globalStep', at', epoch', held')
    PROVE  Continues'
BY DEF Continues

\* A process starts anew, or fresh from a checkpoint.
LEMMA StartExact ==
    ASSUME ReplayIInv, Start
    PROVE  ExactRun'
<1> SUFFICES ASSUME exact'
             PROVE  (/\ ~ignore /\ CheckpointsReplay
                     /\ RunsOnTrack /\ EpochOnTrack /\ RefusedForCause)'
  BY DEF ExactRun
<1> USE DEF Start
<1>1. CASE checkpoint = {} /\ epoch' = 0 /\ globalStep' = 0
           /\ at' = [epoch |-> 0, step |-> 0, of |-> 1] /\ trained' = <<>> /\ exact' = TRUE
           /\ run' = "epoch"
  <2>1. ~ignore' /\ checkpoint' = {} /\ resumed' = {} /\ held' = <<>> /\ setup' \in Setup
    BY <1>1
  <2>2. OnTrack(setup', <<>>, 0, [epoch |-> 0, step |-> 0, of |-> 1], 0, <<>>)
    <3>1. Len(<<>>) = 0 /\ 1..0 = {} /\ 0 \in 0..0
      OBVIOUS
    <3>2. History(setup', <<>>)
      BY <3>1 DEF History
    <3>3. After(<<>>, 0) = <<0, 0>> /\ <<0, 0>>[1] <= 0
      BY DEF After
    <3>4. Waits(setup', After(<<>>, 0), <<>>)
      BY <3>1 DEF Waits, InOrder
    <3> QED BY <3>1, <3>2, <3>3, <3>4 DEF OnTrack, PlaceAfter
  <2>3. Continues'
    BY <1>1, <2>1, <2>2, ContinuesNext
  <2>4. NextBatch(setup', Behind(trained', globalStep', held')) = <<epoch', 1>>
    <3>1. Behind(<<>>, 0, <<>>) = <<0, 0>>
      BY DEF Behind, After
    <3>2. NextBatch(setup', <<0, 0>>) = <<0, 1>>
      BY DEF NextBatch
    <3> QED BY <1>1, <2>1, <3>1, <3>2
  <2>5. EpochOnTrack'
    BY <2>1, <2>3, <2>4 DEF EpochOnTrack
  <2> QED BY <1>1, <2>1, <2>5 DEF CheckpointsReplay, RunsOnTrack, Running, RefusedForCause
<1>2. ASSUME NEW c \in checkpoint,
             epoch' = EpochTrained(setup', c), globalStep' = c.globalStep, at' = c.at,
             exact' = (exact /\ ~ignore' /\ ~Misplaced(c)),
             run' = (IF epoch' < Epochs THEN "epoch" ELSE "done"),
             trained' = (IF exact' THEN trained ELSE <<>>)
      PROVE  (/\ ~ignore /\ CheckpointsReplay
              /\ RunsOnTrack /\ EpochOnTrack /\ RefusedForCause)'
  <2>1. exact /\ ~ignore' /\ ~Misplaced(c) /\ trained' = trained /\ run' \in {"epoch", "done"}
    BY <1>2
  <2>2. /\ checkpoint' = checkpoint /\ resumed' = checkpoint /\ held' = <<>>
        /\ epoch' = c.at.epoch
    BY <1>2 DEF EpochTrained
  <2>3. CheckpointsReplay'
    BY <2>1, <2>2, CheckpointsStay DEF ReplayIInv, ExactRun
  <2>4. checkpoint = {c}
    BY Typed DEF ReplayIInv, AtMostOne
  <2>5. Misplaced(c)' = Misplaced(c)
    BY DEF Misplaced
  <2>6. Fresh'
    BY <1>2, <2>1, <2>2, <2>4, <2>5 DEF Fresh
  <2> QED BY <2>1, <2>3, <2>6 DEF RunsOnTrack, Running, EpochOnTrack, RefusedForCause
<1> QED BY <1>1, <1>2

\* The epoch a checkpoint was saved in begins where it says, unless it is of
\* another setup.
LEMMA BeginEpochExact ==
    ASSUME ReplayIInv, BeginEpoch
    PROVE  ExactRun'
<1> SUFFICES ASSUME exact'
             PROVE  (/\ ~ignore /\ CheckpointsReplay
                     /\ RunsOnTrack /\ EpochOnTrack /\ RefusedForCause)'
  BY DEF ExactRun
<1> DEFINE resumes == {c \in resumed : epoch = EpochTrained(setup, c) /\ ~ignore}
<1>1. /\ run = "epoch" /\ setup' = setup /\ ignore' = ignore /\ resumed' = resumed
      /\ epoch' = epoch /\ held' = held /\ globalStep' = globalStep /\ at' = at
      /\ checkpoint' = checkpoint /\ trained' = trained /\ exact' = exact
      /\ \/ resumes = {} /\ run' = "batches" /\ step' = 0
         \/ \E c \in resumes :
               IF Replays(c) THEN run' = "batches" /\ step' = c.consumed
               ELSE run' = "refused" /\ UNCHANGED step
  BY DEF BeginEpoch, process, history
<1>2. exact /\ ~ignore /\ CheckpointsReplay /\ EpochOnTrack
  BY <1>1 DEF ReplayIInv, ExactRun
<1>3. CheckpointsReplay'
  BY <1>1, <1>2, CheckpointsStay
<1>4. /\ setup \in Setup /\ trained \in Seq(Seq(Batch)) /\ Len(trained) \in Nat
      /\ checkpoint \subseteq Checkpoint_ /\ resumed \subseteq Checkpoint_ /\ epoch \in Nat
  <2>1. Epochs \in Nat
    BY ReplayAssumption
  <2>2. trained \in Seq(Seq(Batch))
    BY Typed DEF ReplayIInv
  <2> QED BY <2>1, <2>2, Typed, LenProperties DEF ReplayIInv
<1>5. \A c \in resumed : c \in resumes <=> c.at.epoch = epoch
  BY <1>2 DEF EpochTrained
<1>6. Fresh \/ /\ Continues
               /\ \A c \in resumed : c.at.epoch < epoch
               /\ NextBatch(setup, Behind(trained, globalStep, held)) = <<epoch, 1>>
  BY <1>1, <1>2 DEF EpochOnTrack
<1>7. CASE resumes = {} /\ run' = "batches" /\ step' = 0
  <2>1. ~Fresh
    <3> SUFFICES ASSUME Fresh PROVE FALSE
      OBVIOUS
    <3>1. PICK c \in resumed : epoch = c.at.epoch
      BY DEF Fresh
    <3> QED BY <1>5, <1>7, <3>1
  <2>2. /\ Continues /\ \A c \in resumed : c.at.epoch < epoch
        /\ NextBatch(setup, Behind(trained, globalStep, held)) = <<epoch, 1>>
    BY <1>6, <2>1
  <2>3. Continues'
    BY <1>1, <2>2, ContinuesNext DEF Continues
  <2>4. NextBatch(setup, <<epoch, 0>>) = <<epoch, 1>>
    BY DEF NextBatch
  <2>5. \A c \in resumed : c.at.epoch <= epoch
    <3> TAKE c \in resumed
    <3>1. c.at.epoch < epoch /\ c.at.epoch \in Nat
      BY <1>4, <2>2 DEF Checkpoint_, Position_
    <3> QED BY <1>4, <3>1
  <2>6. RunsOnTrack'
    BY <1>1, <1>7, <2>2, <2>3, <2>4, <2>5 DEF RunsOnTrack
  <2> QED BY <1>1, <1>2, <1>3, <1>7, <2>6 DEF EpochOnTrack, RefusedForCause
<1>8. ASSUME NEW c \in resumes,
             IF Replays(c) THEN run' = "batches" /\ step' = c.consumed
             ELSE run' = "refused" /\ UNCHANGED step
      PROVE  (/\ ~ignore /\ CheckpointsReplay
              /\ RunsOnTrack /\ EpochOnTrack /\ RefusedForCause)'
  <2>1. c \in resumed /\ c.at.epoch = epoch /\ c.at.epoch \in 0..Epochs
    BY <1>4, <1>5, <1>8 DEF Checkpoint_, Position_
  <2>2. Fresh
    <3>1. ~(c.at.epoch < epoch)
      BY <2>1
    <3> QED BY <1>6, <2>1, <3>1
  <2>3. /\ c \in checkpoint /\ held = <<>> /\ globalStep = c.globalStep /\ at = c.at
        /\ ~Misplaced(c)
    BY <2>1, <2>2 DEF Fresh
  <2>4. PICK s \in Setup : History(s, trained) /\ Saved(s, trained, c)
    BY <1>2, <2>3 DEF CheckpointsReplay
  <2>5. /\ c.sampler.settings = s.settings /\ c.sampler.steps = StepsInEpoch(s)
        /\ globalStep \in 0..Len(trained) /\ at = PlaceAfter(s, trained, globalStep)
        /\ ~c.error /\ c.resumeEpoch = epoch /\ c.consumed = c.at.step
    BY <2>1, <2>3, <2>4 DEF Saved
  <2>6. c.sampler.settings = setup.settings => s = setup
    BY <1>4, <2>5, SetupHas
  <2>7. CASE Replays(c)
    <3>1. s = setup /\ run' = "batches" /\ step' = at.step
      BY <1>8, <2>3, <2>5, <2>6, <2>7 DEF Replays
    <3>2. /\ NextBatch(setup, <<epoch, step'>>) = NextBatch(setup, After(trained, globalStep))
          /\ After(trained, globalStep)[1] <= epoch
      <4>1. at.epoch = epoch /\ at.epoch \in 0..Epochs
        BY <2>1, <2>3
      <4>2. /\ NextBatch(setup, <<at.epoch, at.step>>) = NextBatch(setup, After(trained, globalStep))
            /\ After(trained, globalStep)[1] <= at.epoch
        BY <1>4, <2>4, <2>5, <3>1, <4>1, ResumePlace
      <4> QED BY <3>1, <4>1, <4>2
    <3>3. Waits(setup, After(trained, globalStep), <<>>)
      BY DEF Waits, InOrder
    <3>4. OnTrack(setup, trained, globalStep, at, epoch, <<>>)
      BY <2>4, <2>5, <3>1, <3>2, <3>3 DEF OnTrack
    <3>5. checkpoint = {c} /\ resumed = {c}
      BY <2>1, <2>3, Typed DEF ReplayIInv, AtMostOne
    <3>6. Continues'
      <4>1. c.sampler.settings = setup.settings
        BY <2>7 DEF Replays
      <4> QED BY <1>1, <2>3, <3>4, <3>5, <4>1, ContinuesNext
    <3>7. Behind(trained, globalStep, held) = After(trained, globalStep)
      BY <2>3 DEF Behind
    <3>8. c.at.epoch <= epoch
      BY <1>4, <2>1
    <3>9. RunsOnTrack'
      BY <1>1, <3>1, <3>2, <3>5, <3>6, <3>7, <3>8 DEF RunsOnTrack
    <3> QED BY <1>1, <1>2, <1>3, <3>1, <3>9 DEF EpochOnTrack, RefusedForCause
  <2>8. CASE ~Replays(c)
    <3>1. run' = "refused"
      BY <1>8, <2>8
    <3>2. c.sampler.settings # setup.settings
      BY <2>5, <2>6, <2>8 DEF Replays
    <3>3. RefusedForCause'
      BY <1>1, <2>1, <3>2 DEF RefusedForCause
    <3> QED BY <1>1, <1>2, <1>3, <3>1, <3>3 DEF EpochOnTrack, RunsOnTrack, Running
  <2> QED BY <2>7, <2>8
<1> HIDE DEF resumes
<1> QED BY <1>1, <1>7, <1>8

\* An optimizer step: its batches are the next ones, recorded before or now.
LEMMA TrainMakes ==
    ASSUME ReplayIInv, Train, exact
    PROVE  LET now == Append(held, <<plan, step'>>)
               x == <<epoch, step'>>
               b == After(trained, globalStep)
           IN  /\ plan = epoch /\ x \in Batch /\ now \in Seq(Batch) /\ now # <<>>
               /\ Len(now) > 0 /\ now[Len(now)] = x
               /\ Syncs(setup, x) => Makes(setup, b, now)
               /\ ~Syncs(setup, x) => Waits(setup, b, now)
<1> DEFINE now == Append(held, <<plan, step'>>)
           x == <<epoch, step'>>
           b == After(trained, globalStep)
<1>1. /\ run = "batches" /\ step' = step + 1 /\ step < BatchesOf(setup, epoch)
  BY DEF Train
<1>2. /\ Continues /\ plan = epoch /\ RunsOnTrack
      /\ NextBatch(setup, <<epoch, step>>) = NextBatch(setup, Behind(trained, globalStep, held))
  BY <1>1 DEF ReplayIInv, ReplayTypes, ExactRun, RunsOnTrack, Running
<1>3. held \in Seq(Batch) /\ step \in Nat /\ epoch \in 0..Epochs /\ Len(held) \in Nat
  <2>1. held \in Seq(Batch)
    BY Typed DEF ReplayIInv
  <2> QED BY <2>1, Typed, LenProperties DEF ReplayIInv
<1>4. x \in Batch
  <2>1. step' \in Nat
    BY <1>1, <1>3
  <2> QED BY <1>3, <2>1 DEF Batch
<1>5. x = NextBatch(setup, IF Len(held) = 0 THEN b ELSE held[Len(held)])
  <2>1. NextBatch(setup, <<epoch, step>>) = x
    BY <1>1 DEF NextBatch
  <2> QED BY <1>2, <2>1 DEF Behind
<1>6. Waits(setup, b, held)
  BY <1>2 DEF Continues, OnTrack
<1>7. now = Append(held, x)
  BY <1>2
<1> HIDE DEF x, b
<1>8. /\ Append(held, x) \in Seq(Batch) /\ Append(held, x) # <<>>
      /\ Len(Append(held, x)) = Len(held) + 1 /\ Append(held, x)[Len(Append(held, x))] = x
      /\ Syncs(setup, x) => Makes(setup, b, Append(held, x))
      /\ ~Syncs(setup, x) => Waits(setup, b, Append(held, x))
  BY <1>3, <1>4, <1>5, <1>6, OneMoreBatch
<1>9. Len(Append(held, x)) > 0
  BY <1>3, <1>8
<1> HIDE DEF now
<1> QED BY <1>2, <1>4, <1>7, <1>8, <1>9 DEF now, x, b

\* One that was made before is made of the same batches.
LEMMA MadeOfTheSame ==
    ASSUME ReplayIInv, Train, exact, run' = "synced",
           globalStep' \in DOMAIN trained
    PROVE  Append(held, <<plan, step'>>) = trained[globalStep']
<1> DEFINE now == Append(held, <<plan, step'>>)
           x == <<epoch, step'>>
           b == After(trained, globalStep)
<1>1. step' % setup.gas = 0 \/ step' = StepsInEpoch(setup)
  BY DEF Train
<1>2. Syncs(setup, x)
  BY <1>1 DEF Syncs
<1>3. Makes(setup, b, now) /\ now \in Seq(Batch)
  BY <1>2, TrainMakes
<1>4. globalStep' = globalStep + 1 /\ globalStep \in Nat
  BY <1>1, Typed DEF Train, ReplayIInv
<1>5. /\ trained \in Seq(Seq(Batch)) /\ Len(trained) \in Nat /\ DOMAIN trained = 1..Len(trained)
  <2>1. trained \in Seq(Seq(Batch))
    BY Typed DEF ReplayIInv
  <2> QED BY <2>1, LenProperties
<1>6. History(setup, trained)
  BY DEF Train, ReplayIInv, ExactRun, RunsOnTrack, Running, Continues, OnTrack
<1>7. globalStep + 1 \in 1..Len(trained) /\ (globalStep + 1) - 1 = globalStep
  BY <1>4, <1>5
<1>8. Makes(setup, b, trained[globalStep + 1]) /\ trained[globalStep + 1] \in Seq(Batch)
  BY <1>5, <1>6, <1>7, ElementOfSeq DEF History
<1> HIDE DEF b, now
<1>9. now = trained[globalStep + 1]
  BY <1>3, <1>8, MadeOnce
<1> QED BY <1>4, <1>9 DEF now

\* The last checkpoint, and what was trained, afterwards.
LEMMA CheckpointsNext ==
    ASSUME \A c \in checkpoint' : \E s \in Setup : History(s, trained') /\ Saved(s, trained', c)
    PROVE  CheckpointsReplay'
<1>1. \A c, s : Saved(s, trained, c)' <=> Saved(s, trained', c)
  BY DEF Saved, PlaceAfter, After, Misplaced, Position, StepsInEpoch
<1>2. \A s : History(s, trained)' <=> History(s, trained')
  BY DEF History, Makes, InOrder, Syncs, NextBatch, After
<1> QED BY <1>1, <1>2 DEF CheckpointsReplay

\* A batch waits for a step, or makes one: the one recorded, or a new one that
\* leaves what is saved as it is.
LEMMA TrainExact ==
    ASSUME ReplayIInv, Train
    PROVE  ExactRun'
<1> SUFFICES ASSUME exact'
             PROVE  (/\ ~ignore /\ CheckpointsReplay
                     /\ RunsOnTrack /\ EpochOnTrack /\ RefusedForCause)'
  BY DEF ExactRun
<1> DEFINE now == Append(held, <<plan, step'>>)
           x == <<epoch, step'>>
           g == globalStep
<1>1. /\ run = "batches" /\ step' = step + 1 /\ epoch' = epoch
      /\ setup' = setup /\ ignore' = ignore /\ resumed' = resumed
      /\ checkpoint' = checkpoint /\ exact' = exact
  BY DEF Train, process
<1>2. /\ exact /\ ~ignore /\ CheckpointsReplay /\ Continues
      /\ \A c \in resumed : c.at.epoch <= epoch
  BY <1>1 DEF ReplayIInv, ExactRun, RunsOnTrack, Running
<1>3. /\ \A c \in checkpoint : c.sampler.settings = setup.settings
      /\ History(setup, trained) /\ g \in 0..Len(trained) /\ at = PlaceAfter(setup, trained, g)
      /\ After(trained, g)[1] <= epoch
  BY <1>2 DEF Continues, OnTrack
<1>4. /\ setup \in Setup /\ trained \in Seq(Seq(Batch)) /\ Len(trained) \in Nat
      /\ DOMAIN trained = 1..Len(trained) /\ epoch \in Nat /\ g \in Nat
  <2>1. trained \in Seq(Seq(Batch))
    BY Typed DEF ReplayIInv
  <2>2. Epochs \in Nat
    BY ReplayAssumption
  <2> QED BY <2>1, <2>2, Typed, LenProperties DEF ReplayIInv
<1>5. /\ now \in Seq(Batch) /\ Len(now) > 0 /\ now[Len(now)] = x
      /\ Syncs(setup, x) => Makes(setup, After(trained, g), now)
      /\ ~Syncs(setup, x) => Waits(setup, After(trained, g), now)
  BY <1>2, TrainMakes
<1>6. Syncs(setup, x) <=> (step' % setup.gas = 0 \/ step' = StepsInEpoch(setup))
  BY DEF Syncs
<1>7. CASE ~Syncs(setup, x)
  <2>1. held' = now /\ globalStep' = globalStep /\ at' = at /\ trained' = trained /\ run' = run
    BY <1>6, <1>7 DEF Train
  <2> HIDE DEF now, x
  <2>2. CheckpointsReplay'
    BY <1>1, <1>2, <2>1, CheckpointsStay
  <2>3. OnTrack(setup, trained, g, at, epoch, now)
    BY <1>3, <1>5, <1>7 DEF OnTrack
  <2>4. Continues'
    BY <1>1, <1>3, <2>1, <2>3, ContinuesNext
  <2>5. Behind(trained, g, now) = x
    BY <1>5 DEF Behind
  <2>6. RunsOnTrack'
    BY <1>1, <1>2, <2>1, <2>4, <2>5 DEF RunsOnTrack, x
  <2> QED BY <1>1, <1>2, <2>1, <2>2, <2>6 DEF EpochOnTrack, RefusedForCause
<1>8. CASE Syncs(setup, x)
  <2>1. /\ globalStep' = g + 1 /\ at' = Position(epoch, step', StepsInEpoch(setup))
        /\ held' = <<>> /\ run' = "synced"
        /\ trained' = IF g + 1 \in DOMAIN trained THEN trained ELSE Append(trained, now)
    BY <1>2, <1>6, <1>8 DEF Train
  <2>2. Makes(setup, After(trained, g), now)
    BY <1>5, <1>8
  <2>3. /\ History(setup, trained') /\ Len(trained') \in Nat /\ Len(trained) <= Len(trained')
        /\ \A h \in 0..Len(trained) : After(trained', h) = After(trained, h)
        /\ g + 1 \in 0..Len(trained') /\ After(trained', g + 1) = x
    <3>1. CASE g + 1 \in DOMAIN trained
      <4>1. trained' = trained /\ trained[g + 1] = now
        BY <1>2, <2>1, <3>1, MadeOfTheSame
      <4>2. g + 1 \in 0..Len(trained) /\ g + 1 # 0
        BY <1>4, <3>1
      <4> QED BY <1>3, <1>4, <1>5, <4>1, <4>2 DEF After
    <3>2. CASE g + 1 \notin DOMAIN trained
      <4>1. trained' = Append(trained, now) /\ g = Len(trained)
        <5> HIDE DEF now, g
        <5>1. trained' = Append(trained, now)
          BY <2>1, <3>2
        <5>2. ~(g + 1 \in 1..Len(trained)) /\ g \in 0..Len(trained)
          BY <1>3, <1>4, <3>2
        <5>3. \A n \in Nat : \A h \in 0..n : ~(h + 1 \in 1..n) => h = n
          OBVIOUS
        <5>4. g = Len(trained)
          BY <1>4, <5>2, <5>3
        <5> QED BY <5>1, <5>4
      <4> HIDE DEF now, g
      <4>2. /\ History(setup, Append(trained, now))
            /\ Len(Append(trained, now)) = Len(trained) + 1
            /\ \A h \in 0..Len(trained) : After(Append(trained, now), h) = After(trained, h)
            /\ After(Append(trained, now), Len(trained) + 1) = now[Len(now)]
        BY <1>3, <1>4, <1>5, <2>2, <4>1, HistoryGrows
      <4>3. Len(trained') = Len(trained) + 1
        BY <4>1, <4>2
      <4>4. Len(trained') \in Nat /\ Len(trained) <= Len(trained') /\ g + 1 \in 0..Len(trained')
        BY <1>4, <4>1, <4>3
      <4>5. After(trained', g + 1) = x
        BY <1>5, <4>1, <4>2
      <4>6. History(setup, trained') /\ \A h \in 0..Len(trained) : After(trained', h) = After(trained, h)
        BY <4>1, <4>2
      <4> QED BY <4>4, <4>5, <4>6
    <3> QED BY <3>1, <3>2
  <2> HIDE DEF now, g
  <2>4. CheckpointsReplay'
    <3>1. ASSUME NEW c \in checkpoint'
          PROVE  \E s \in Setup : History(s, trained') /\ Saved(s, trained', c)
      <4>1. c \in checkpoint
        BY <1>1, <3>1
      <4>2. PICK s \in Setup : History(s, trained) /\ Saved(s, trained, c)
        BY <1>2, <4>1 DEF CheckpointsReplay
      <4>3. s = setup
        BY <1>3, <1>4, <4>1, <4>2, SetupHas DEF Saved
      <4>4. Saved(s, trained', c)
        BY <1>4, <2>3, <4>2, SavedStays
      <4> QED BY <2>3, <4>3, <4>4
    <3> QED BY <3>1, CheckpointsNext
  <2>5. OnTrack(setup, trained', g + 1, at', epoch, <<>>)
    <3>1. at' = PlaceAfter(setup, trained', g + 1)
      <4>1. g + 1 # 0
        BY <1>4
      <4> QED BY <2>1, <2>3, <4>1 DEF PlaceAfter
    <3>2. After(trained', g + 1)[1] <= epoch
      BY <1>4, <2>3
    <3>3. Waits(setup, After(trained', g + 1), <<>>)
      BY DEF Waits, InOrder
    <3> HIDE DEF x
    <3> QED BY <2>3, <3>1, <3>2, <3>3 DEF OnTrack
  <2>6. Continues'
    BY <1>1, <1>3, <2>1, <2>5, ContinuesNext
  <2>7. Behind(trained', g + 1, <<>>) = x
    BY <2>3 DEF Behind
  <2>8. RunsOnTrack'
    <3>1. (NextBatch(setup, <<epoch, step>>)
              = NextBatch(setup, Behind(trained, globalStep, held)))'
      <4>1. Behind(trained', globalStep', held') = <<epoch', step'>>
        BY <1>1, <2>1, <2>7 DEF x, g
      <4> QED BY <4>1
    <3>2. (\A c \in resumed : c.at.epoch <= epoch)'
      BY <1>1, <1>2
    <3> QED BY <2>1, <2>6, <3>1, <3>2 DEF RunsOnTrack
  <2> QED BY <1>1, <1>2, <2>1, <2>4, <2>8 DEF EpochOnTrack, RefusedForCause
<1> QED BY <1>7, <1>8

\* Multiples of the batches of an epoch, and none.
LEMMA WholeBatches ==
    ASSUME NEW n \in Nat, NEW l \in Nat \ {0}
    PROVE  (n * l) \div l = n /\ (n * l) % l = 0 /\ 0 \div l = 0 /\ 0 % l = 0
BY Z3

\* What a running process saves can be replayed.
LEMMA SavesReplay ==
    ASSUME ReplayIInv, exact, Running
    PROVE  Saved(setup, trained,
                 [globalStep |-> globalStep, at |-> at, sampler |-> sampler,
                  resumeEpoch |-> at.epoch, consumed |-> Offset \div at.of,
                  error |-> ~OnBoundary(Offset)])
<1> DEFINE c == [globalStep |-> globalStep, at |-> at, sampler |-> sampler,
                 resumeEpoch |-> at.epoch, consumed |-> Offset \div at.of,
                 error |-> ~OnBoundary(Offset)]
           l == StepsInEpoch(setup)
<1>1. /\ sampler = [settings |-> setup.settings, steps |-> l, epoch |-> epoch]
      /\ epoch \in 0..(Epochs - 1)
  BY DEF ReplayIInv, ReplayTypes
<1>2. /\ setup \in Setup /\ trained \in Seq(Seq(Batch)) /\ at.epoch \in 0..Epochs
      /\ at.step \in Nat
  BY Typed DEF ReplayIInv, Position_
<1>3. /\ History(setup, trained) /\ globalStep \in 0..Len(trained)
      /\ at = PlaceAfter(setup, trained, globalStep)
      /\ After(trained, globalStep)[1] <= epoch
  BY DEF ReplayIInv, ExactRun, RunsOnTrack, Continues, OnTrack
<1>4. setup.gas \in Nat \ {0} /\ l \in Nat \ {0}
  BY <1>2, SetupHas
<1> DEFINE b == After(trained, globalStep)
<1> HIDE DEF l, b
<1>5. \/ at.step = 0 /\ at.of = 1
      \/ at.epoch = b[1] /\ at.step % setup.gas = 0 /\ at.of = l
  <2>1. Tells(setup, at, b)
    BY <1>2, <1>3, ResumePlace DEF b
  <2> QED BY <2>1 DEF l, Tells
<1>6. Offset = IF at.epoch = epoch THEN at.step * l ELSE 0
  BY <1>1 DEF Offset
<1>7. OnBoundary(Offset) /\ (~(at.epoch < epoch /\ at.step > 0) => Offset \div at.of = at.step)
  <2>1. CASE at.step = 0 /\ at.of = 1
    <3>1. Offset = 0
      BY <1>4, <1>6, <2>1
    <3>2. 0 % 1 = 0 /\ 0 \div 1 = 0 /\ 0 % setup.gas = 0
      BY <1>4, WholeBatches
    <3> QED BY <2>1, <3>1, <3>2 DEF OnBoundary
  <2>2. CASE at.epoch = b[1] /\ at.step % setup.gas = 0 /\ at.of = l
    <3>1. CASE at.epoch = epoch
      <4>1. Offset = at.step * l
        BY <1>6, <3>1
      <4>2. (at.step * l) % l = 0 /\ (at.step * l) \div l = at.step
        BY <1>2, <1>4, WholeBatches
      <4> QED BY <2>2, <4>1, <4>2 DEF OnBoundary
    <3>2. CASE at.epoch # epoch
      <4>1. Offset = 0 /\ 0 % l = 0 /\ 0 \div l = 0 /\ 0 % setup.gas = 0
        BY <1>4, <1>6, <3>2, WholeBatches
      <4>2. OnBoundary(Offset) /\ Offset \div at.of = 0
        BY <2>2, <4>1 DEF OnBoundary
      <4>3. at.epoch < epoch
        BY <1>1, <1>2, <1>3, <2>2, <3>2 DEF b
      <4> QED BY <1>2, <4>2, <4>3
    <3> QED BY <3>1, <3>2
  <2> QED BY <1>5, <2>1, <2>2
<1>8. Misplaced(c) <=> at.epoch < epoch /\ at.step > 0
  BY <1>1 DEF Misplaced
<1>9. /\ c.sampler.settings = setup.settings /\ c.sampler.steps = l
      /\ c.globalStep = globalStep /\ c.at = at /\ ~c.error /\ c.resumeEpoch = c.at.epoch
      /\ c.consumed = Offset \div at.of
  BY <1>1, <1>7
<1> HIDE DEF c
<1> SUFFICES Saved(setup, trained, c)
  BY DEF c
<1> QED BY <1>3, <1>7, <1>8, <1>9 DEF Saved, l

\* After a step, or at the end of an epoch.
LEMMA GoesOn ==
    ASSUME ReplayIInv, exact, run \in {"synced", "ended"}, GoOn,
           UNCHANGED <<setup, ignore, resumed, epoch, step, held, globalStep, at, trained>>,
           CheckpointsReplay', \A c \in checkpoint' : c.sampler.settings = setup.settings
    PROVE  (/\ ~ignore /\ CheckpointsReplay
            /\ RunsOnTrack /\ EpochOnTrack /\ RefusedForCause)'
<1>1. ~ignore /\ RunsOnTrack /\ Running
  BY DEF ReplayIInv, ExactRun, Running
<1>2. Continues'
  <2>1. OnTrack(setup', trained', globalStep', at', epoch', held')
    BY <1>1 DEF RunsOnTrack, Continues
  <2> QED BY <2>1, ContinuesNext
<1>3. Enough' <=> Enough
  BY DEF Enough, UpdatesPerEpoch, StepsInEpoch
<1>4. run' \in {"ended", "next"} => Enough \/ step = BatchesOf(setup, epoch)
  BY <1>1 DEF RunsOnTrack, GoOn
<1>5. RunsOnTrack'
  <2>1. (run \in {"ended", "next"} => Enough \/ step = BatchesOf(setup, epoch))'
    BY <1>3, <1>4 DEF BatchesOf
  <2>2. (/\ NextBatch(setup, <<epoch, step>>)
               = NextBatch(setup, Behind(trained, globalStep, held))
         /\ \A c \in resumed : c.at.epoch <= epoch)'
    BY <1>1 DEF RunsOnTrack, NextBatch, BatchesOf, Behind, After
  <2> QED BY <1>2, <2>1, <2>2 DEF RunsOnTrack
<1>6. run' \in {"batches", "ended", "next"}
  BY DEF GoOn
<1> QED BY <1>1, <1>5, <1>6 DEF EpochOnTrack, RefusedForCause

\* A checkpoint is saved, or not.
LEMMA SaveExact ==
    ASSUME ReplayIInv, Save \/ SkipSave
    PROVE  ExactRun'
<1> SUFFICES ASSUME exact'
             PROVE  (/\ ~ignore /\ CheckpointsReplay
                     /\ RunsOnTrack /\ EpochOnTrack /\ RefusedForCause)'
  BY DEF ExactRun
<1>1. /\ run \in {"synced", "ended"} /\ GoOn
      /\ UNCHANGED <<setup, ignore, resumed, epoch, step, held, globalStep, at, trained, exact>>
  BY DEF Save, SkipSave, process, progress, history
<1>2. /\ exact /\ CheckpointsReplay /\ Running
      /\ \A c \in checkpoint : c.sampler.settings = setup.settings
      /\ History(setup, trained)
  BY <1>1 DEF ReplayIInv, ExactRun, Running, RunsOnTrack, Continues, OnTrack
<1>3. CASE SkipSave
  <2>1. checkpoint' = checkpoint
    BY <1>3 DEF SkipSave
  <2>2. CheckpointsReplay'
    BY <1>1, <1>2, <2>1, CheckpointsStay
  <2> QED BY <1>1, <1>2, <2>1, <2>2, GoesOn
<1>4. CASE Save
  <2> DEFINE c == [globalStep |-> globalStep, at |-> at, sampler |-> sampler,
                   resumeEpoch |-> at.epoch, consumed |-> Offset \div at.of,
                   error |-> ~OnBoundary(Offset)]
  <2>1. checkpoint' = {c}
    BY <1>4 DEF Save
  <2>2. Saved(setup, trained, c)
    BY <1>2, SavesReplay
  <2> HIDE DEF c
  <2>3. setup \in Setup /\ c.sampler.settings = setup.settings
    BY <2>2, Typed DEF ReplayIInv, Saved
  <2>4. CheckpointsReplay'
    BY <1>1, <1>2, <2>1, <2>2, <2>3, CheckpointsNext
  <2> QED BY <1>1, <1>2, <2>1, <2>3, <2>4, GoesOn
<1> QED BY <1>3, <1>4

\* A crash, the end of an epoch, and the next one.
LEMMA QuietExact ==
    ASSUME ReplayIInv,
           Crash \/ EndEpoch \/ NextEpoch \/ UNCHANGED replayVars
    PROVE  ExactRun'
<1> SUFFICES ASSUME exact'
             PROVE  (/\ ~ignore /\ CheckpointsReplay
                     /\ RunsOnTrack /\ EpochOnTrack /\ RefusedForCause)'
  BY DEF ExactRun
<1>1. UNCHANGED <<setup, ignore, resumed, step, held, globalStep, at, checkpoint, trained, exact>>
  BY DEF Crash, EndEpoch, NextEpoch, replayVars, process, progress, history
<1>2. exact /\ ~ignore /\ CheckpointsReplay /\ RunsOnTrack /\ EpochOnTrack /\ RefusedForCause
  BY <1>1 DEF ReplayIInv, ExactRun
<1>3. CheckpointsReplay'
  BY <1>1, <1>2, CheckpointsStay
<1>4. ASSUME Continues, epoch' = epoch PROVE Continues'
  <2>1. OnTrack(setup', trained', globalStep', at', epoch', held')
    BY <1>1, <1>4 DEF Continues
  <2> QED BY <1>1, <1>4, <2>1, ContinuesNext DEF Continues
<1>5. CASE Crash
  <2>1. run' = "off"
    BY <1>5 DEF Crash
  <2> QED BY <1>1, <1>2, <1>3, <2>1 DEF RunsOnTrack, Running, EpochOnTrack, RefusedForCause
<1>6. CASE EndEpoch
  <2>1. run = "batches" /\ run' = "ended" /\ epoch' = epoch /\ step = BatchesOf(setup, epoch)
    BY <1>6 DEF EndEpoch
  <2>2. Continues'
    BY <1>2, <1>4, <2>1 DEF RunsOnTrack, Running
  <2>3. (step = BatchesOf(setup, epoch))'
    BY <1>1, <2>1 DEF BatchesOf
  <2>4. (/\ NextBatch(setup, <<epoch, step>>)
               = NextBatch(setup, Behind(trained, globalStep, held))
         /\ \A c \in resumed : c.at.epoch <= epoch)'
    BY <1>1, <1>2, <2>1 DEF RunsOnTrack, Running, NextBatch, BatchesOf, Behind, After
  <2>5. RunsOnTrack'
    BY <2>2, <2>3, <2>4 DEF RunsOnTrack
  <2> QED BY <1>1, <1>2, <1>3, <2>1, <2>5 DEF EpochOnTrack, RefusedForCause
<1>7. CASE NextEpoch
  <2>1. /\ run = "next" /\ epoch' = epoch + 1
        /\ run' = IF epoch' = Epochs \/ Enough THEN "done" ELSE "epoch"
    BY <1>7 DEF NextEpoch
  <2>2. CASE run' = "done"
    BY <1>1, <1>2, <1>3, <2>2 DEF RunsOnTrack, Running, EpochOnTrack, RefusedForCause
  <2>3. CASE run' = "epoch"
    <3>1. /\ Continues /\ step = BatchesOf(setup, epoch) /\ \A c \in resumed : c.at.epoch <= epoch
          /\ NextBatch(setup, <<epoch, step>>)
                = NextBatch(setup, Behind(trained, globalStep, held))
      BY <1>2, <2>1, <2>3 DEF RunsOnTrack, Running
    <3>2. /\ epoch \in 0..(Epochs - 1) /\ setup \in Setup /\ Epochs \in Nat
          /\ resumed \subseteq Checkpoint_ /\ trained \in Seq(Seq(Batch))
      BY <2>1, SetupHas, Typed DEF ReplayIInv, ReplayTypes, Running
    <3>3. step \in Nat \ {0}
      BY <3>1, <3>2, SetupHas
    <3>4. NextBatch(setup, <<epoch, step>>) = <<epoch + 1, 1>>
      BY <3>1, <3>3 DEF NextBatch
    <3>5. \A c \in resumed : c.at.epoch < epoch + 1
      <4> TAKE c \in resumed
      <4>1. c.at.epoch \in Nat /\ c.at.epoch <= epoch /\ epoch \in Nat
        BY <3>1, <3>2 DEF Checkpoint_, Position_
      <4> QED BY <4>1
    <3>6. OnTrack(setup, trained, globalStep, at, epoch + 1, held)
      <4>1. /\ History(setup, trained) /\ globalStep \in 0..Len(trained)
            /\ at = PlaceAfter(setup, trained, globalStep)
            /\ After(trained, globalStep)[1] <= epoch
            /\ Waits(setup, After(trained, globalStep), held)
        BY <3>1 DEF Continues, OnTrack
      <4> DEFINE e == After(trained, globalStep)[1]
      <4>2. e \in Nat /\ e <= epoch /\ epoch \in Nat
        <5>1. After(trained, globalStep) \in Batch
          BY <3>2, <4>1, AfterIsBatch
        <5> QED BY <3>2, <4>1, <5>1 DEF Batch
      <4> HIDE DEF e
      <4>3. e <= epoch + 1
        BY <4>2
      <4> QED BY <4>1, <4>3 DEF OnTrack, e
    <3>7. Continues'
      BY <1>1, <2>1, <3>1, <3>6, ContinuesNext DEF Continues
    <3>8. (NextBatch(setup, Behind(trained, globalStep, held)) = <<epoch, 1>>)'
      BY <1>1, <2>1, <3>1, <3>4 DEF NextBatch, BatchesOf, Behind, After
    <3>9. EpochOnTrack'
      BY <1>1, <2>1, <3>5, <3>7, <3>8 DEF EpochOnTrack
    <3> QED BY <1>1, <1>2, <1>3, <2>3, <3>9 DEF RunsOnTrack, Running, RefusedForCause
  <2> QED BY <2>1, <2>2, <2>3
<1>8. CASE UNCHANGED replayVars
  <2>1. run' = run /\ epoch' = epoch
    BY <1>8 DEF replayVars
  <2>2. Continues => Continues'
    BY <1>4, <2>1
  <2>3. Enough' <=> Enough
    BY <1>1 DEF Enough, UpdatesPerEpoch, StepsInEpoch
  <2>4. RunsOnTrack'
    BY <1>1, <1>2, <2>1, <2>2, <2>3 DEF RunsOnTrack, Running, NextBatch, BatchesOf, Behind, After
  <2>5. EpochOnTrack'
    <3>1. Fresh => Fresh'
      BY <1>1, <2>1 DEF Fresh, Misplaced
    <3> QED BY <1>1, <1>2, <2>1, <2>2, <3>1 DEF EpochOnTrack, NextBatch, BatchesOf, Behind, After
  <2> QED BY <1>1, <1>2, <1>3, <2>1, <2>4, <2>5 DEF RefusedForCause
<1> QED BY <1>5, <1>6, <1>7, <1>8

\* The invariant of a training run that crashes and resumes: while exactness
\* has not been given up, the optimizer steps recorded are those one setup
\* makes, in order; the last checkpoint has a place among them; and a process
\* of that setup goes on with the batch that follows the last one.
THEOREM ReplayInvariant ==
    ReplaySpec => []ReplayIInv
<1>1. ReplayInit => ReplayIInv
  BY ReplayStarts
<1>2. ReplayIInv /\ [ReplayNext]_replayVars => ReplayIInv'
  <2> SUFFICES ASSUME ReplayIInv, [ReplayNext]_replayVars PROVE ReplayIInv'
    OBVIOUS
  <2>0. ReplayTypes
    BY DEF ReplayIInv
  <2>1. CASE Start
    BY <2>0, <2>1, StartTypes, StartExact DEF ReplayIInv
  <2>2. CASE BeginEpoch
    BY <2>0, <2>2, BeginEpochTypes, BeginEpochExact DEF ReplayIInv
  <2>3. CASE Train
    BY <2>0, <2>3, TrainTypes, TrainExact DEF ReplayIInv
  <2>4. CASE Save
    BY <2>0, <2>4, SaveTypes, SaveExact DEF ReplayIInv
  <2>5. CASE SkipSave
    BY <2>0, <2>5, QuietTypes, SaveExact DEF ReplayIInv
  <2>6. CASE Crash \/ EndEpoch \/ NextEpoch \/ UNCHANGED replayVars
    BY <2>0, <2>6, QuietTypes, QuietExact DEF ReplayIInv
  <2>7. ReplayStopped => UNCHANGED replayVars
    BY DEF ReplayStopped
  <2> QED BY <2>1, <2>2, <2>3, <2>4, <2>5, <2>6, <2>7 DEF ReplayNext
<1> QED BY <1>1, <1>2, PTL DEF ReplaySpec

\* Exact replay is refused only for cause: a crash alone never makes a
\* checkpoint that cannot be replayed (_validated_balanced_offset, the checks
\* of _run_epoch).
THEOREM ReplayInvHolds ==
    ReplaySpec => []ReplayInv
<1>1. ReplayIInv => ReplayInv
  BY DEF ReplayIInv, ReplayTypes, ExactRun, RefusedForCause, ReplayInv, RefusesOnlyForCause
<1> QED BY <1>1, ReplayInvariant, PTL

\* An optimizer step made again after a crash is made of the batches it was
\* first made of, however often training crashes and resumes.
THEOREM ReplaysSameHolds ==
    ReplaySpec => ReplaysSame
<1>1. ReplayIInv /\ [ReplayNext]_replayVars =>
        [(Train /\ run' = "synced" /\ exact /\ globalStep' \in DOMAIN trained)
            => Append(held, <<plan, step'>>) = trained[globalStep']]_replayVars
  BY MadeOfTheSame
<1> QED BY <1>1, ReplayInvariant, PTL DEF ReplaySpec, ReplaysSame
=============================================================================
