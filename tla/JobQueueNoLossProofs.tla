----------------------- MODULE JobQueueNoLossProofs -----------------------
(***************************************************************************)
(* No job of JobQueue is lost when RabbitMQ keeps what it accepts, the     *)
(* clocks agree and a publisher commits before the job it sent can fail:   *)
(* for every set of jobs, workers and publishers, every max_attempts, every *)
(* list of backoffs and any number of faults.                              *)
(***************************************************************************)
EXTENDS JobQueueProofs

Reliable == ~LossyBroker /\ ClockSkew = 0 /\ PromptCommit

-----------------------------------------------------------------------------
\* The invariant.  NoJobIsLost looks at the tables and the broker; what makes
\* it inductive is what the open transactions hold.

\* SKIP LOCKED: a row is in one publisher's transaction at a time.
OneHolder ==
    \A p, q \in Publishers, j \in Jobs :
        tx[p][j] # "none" /\ tx[q][j] # "none" => p = q

\* The row a publisher holds is still pending, for a job that was due.
HeldRows ==
    \A p \in Publishers, j \in Jobs :
        tx[p][j] # "none" => outbox[j] = "pending" /\ job[j].wait = 0

\* The outbox status a retrying transaction read is still the current one.
ReadsAreCurrent ==
    \A j \in Jobs :
        /\ \A w \in Workers : On(w, "failing", j) =>
              ~RowLocked(j) /\ worker[w].seen = outbox[j]
        /\ reaper[j] # "none" => ~RowLocked(j) /\ reaper[j] = outbox[j]

\* A message for j is ready, or delivered, not yet used to claim, and due to
\* be requeued if its worker dies.
Kept(j) == queue[j] > 0 \/ \E w \in Workers : On(w, "claim", j) /\ worker[w].held

Sent(j) == outbox[j] = "published" \/ \E p \in Publishers : tx[p][j] = "sent"

\* What was sent for a job that still waits to run is due and kept.
SentIsKept ==
    \A j \in Jobs : job[j].status = "pending" /\ Sent(j) => job[j].wait = 0 /\ Kept(j)

LossInv == SafetyInv /\ OneHolder /\ HeldRows /\ ReadsAreCurrent /\ SentIsKept

LEMMA LossInit == Init => LossInv
  <1> SUFFICES ASSUME Init PROVE LossInv
    OBVIOUS
  <1>1. SafetyInv
    BY SafetyInit
  <1>2. \A w \in Workers : worker[w].pc = "idle"
    BY DEF Init, IdleWorker, Delivery
  <1>3. OneHolder /\ HeldRows
    BY DEF Init, OneHolder, HeldRows, NoRows
  <1>4. ReadsAreCurrent
    BY <1>2 DEF Init, ReadsAreCurrent, On, NoRows
  <1>5. SentIsKept
    BY DEF Init, SentIsKept, Sent, NoRows
  <1> QED
    BY <1>1, <1>3, <1>4, <1>5 DEF LossInv

LEMMA LossImplies == LossInv => NoJobIsLost
  <1> SUFFICES ASSUME LossInv, NEW j \in Jobs, job[j].status = "pending",
                      outbox[j] # "pending"
               PROVE  job[j].wait = 0 /\ Carried(j)
    BY DEF NoJobIsLost
  <1>1. outbox[j] = "published"
    BY DEF LossInv, SafetyInv, TypeOK, OutboxStatus
  <1>2. job[j].wait = 0 /\ Kept(j)
    BY <1>1 DEF LossInv, SentIsKept, Sent
  <1> QED
    BY <1>2 DEF Kept, Carried

-----------------------------------------------------------------------------
\* The steps of the publishers.

LEMMA PublisherLossStep ==
  ASSUME Reliable, LossInv, NEW p \in Publishers, PublisherStep(p)
  PROVE  OneHolder' /\ HeldRows' /\ ReadsAreCurrent' /\ SentIsKept'
  <1> USE DEF LossInv, SafetyInv, TypeOK
  <1>1. UNCHANGED <<job, dlq, worker, reaper>>
    BY PublisherFrame
  <1>2. CASE SelectRows(p)
    <2>1. PICK S \in SUBSET {j \in Jobs : Eligible(j)} :
            tx' = [tx EXCEPT ![p] = [j \in Jobs |-> IF j \in S THEN "selected" ELSE "none"]]
      BY <1>2 DEF SelectRows
    <2>2. UNCHANGED <<outbox, queue>>
      BY <1>2 DEF SelectRows
    <2>3. \A j \in S : /\ j \in Jobs /\ outbox[j] = "pending"
                       /\ job[j].status = "pending" /\ job[j].wait = 0
                       /\ \A q \in Publishers : tx[q][j] = "none"
      <3> SUFFICES ASSUME NEW j \in S PROVE job[j].wait = 0 /\ Eligible(j)
        BY DEF Eligible, RowLocked
      <3>1. Eligible(j) /\ j \in Jobs
        OBVIOUS
      <3>2. job[j].wait \in Nat /\ job[j].wait <= 0
        BY <3>1 DEF Eligible, Reliable, JobRecord
      <3> QED
        BY <3>1, <3>2
    <2>4. tx'[p] = [j \in Jobs |-> IF j \in S THEN "selected" ELSE "none"]
      BY <2>1
    <2>5. \A q \in Publishers : q # p => tx'[q] = tx[q]
      BY <2>1
    <2>6. OneHolder'
      BY <2>3, <2>4, <2>5 DEF OneHolder
    <2>7. HeldRows'
      BY <1>1, <2>2, <2>3, <2>4, <2>5 DEF HeldRows
    <2>9. \A j \in Jobs : job[j].status = "running" => (RowLocked(j)' => RowLocked(j))
      BY <2>3, <2>4, <2>5 DEF RowLocked
    <2>10. ReadsAreCurrent'
      BY <1>1, <2>2, <2>9 DEF ReadsAreCurrent, LocksProtect, On, Owns
    <2>11. \A j \in Jobs : Sent(j)' => Sent(j)
      BY <2>2, <2>4, <2>5 DEF Sent
    <2>12. \A j \in Jobs : Kept(j)' = Kept(j)
      BY <1>1, <2>2 DEF Kept, On
    <2> QED
      BY <1>1, <2>6, <2>7, <2>10, <2>11, <2>12 DEF SentIsKept
  <1>3. ASSUME NEW j \in Jobs, Publish(p, j) \/ PublishFails(p, j)
        PROVE  OneHolder' /\ HeldRows' /\ ReadsAreCurrent' /\ SentIsKept'
    <2>1. tx[p][j] = "selected" /\ outbox' = outbox
      BY <1>3 DEF Publish, PublishFails
    <2>2. \A q \in Publishers, i \in Jobs : tx'[q][i] # "none" => tx[q][i] # "none"
      BY <1>3, <2>1 DEF Publish, PublishFails
    <2>3. OneHolder' /\ HeldRows'
      BY <1>1, <2>1, <2>2 DEF OneHolder, HeldRows
    <2>4. ReadsAreCurrent'
      BY <1>1, <2>1, <2>2 DEF ReadsAreCurrent, RowLocked, On
    <2>5. CASE Publish(p, j)
      <3>1. queue'[j] > 0 /\ job[j].wait = 0
        BY <2>1, <2>5 DEF Publish, HeldRows
      <3>2. \A i \in Jobs : i # j => (Sent(i)' => Sent(i)) /\ Kept(i)' = Kept(i)
        BY <1>1, <2>1, <2>5 DEF Publish, Sent, Kept, On
      <3> QED
        BY <1>1, <2>3, <2>4, <3>1, <3>2 DEF SentIsKept, Kept
    <2>6. CASE PublishFails(p, j)
      <3>1. \A i \in Jobs : (Sent(i)' => Sent(i)) /\ Kept(i)' = Kept(i)
        BY <1>1, <2>1, <2>6 DEF PublishFails, Sent, Kept, On
      <3> QED
        BY <1>1, <2>3, <2>4, <3>1 DEF SentIsKept
    <2> QED
      BY <1>3, <2>5, <2>6
  <1>4. ASSUME NEW j \in Jobs PROVE ~PublishLost(p, j)
    BY DEF PublishLost, Reliable
  <1>5. CASE CommitPublish(p)
    <2>1. /\ tx' = [tx EXCEPT ![p] = NoRows] /\ queue' = queue
          /\ outbox' = [j \in Jobs |-> IF tx[p][j] = "sent" THEN "published" ELSE outbox[j]]
      BY <1>5 DEF CommitPublish
    <2>2. \A q \in Publishers, i \in Jobs :
            tx'[q][i] # "none" => q # p /\ tx'[q][i] = tx[q][i]
      BY <2>1 DEF NoRows
    <2>3. \A q \in Publishers, i \in Jobs : tx'[q][i] # "none" => outbox'[i] = outbox[i]
      BY <2>1, <2>2 DEF OneHolder
    <2>4. OneHolder' /\ HeldRows'
      BY <1>1, <2>2, <2>3 DEF OneHolder, HeldRows
    <2>5. \A i \in Jobs : ~RowLocked(i) => ~RowLocked(i)' /\ outbox'[i] = outbox[i]
      BY <2>1, <2>2 DEF RowLocked
    <2>6. ReadsAreCurrent'
      BY <1>1, <2>5 DEF ReadsAreCurrent, On
    <2>7. \A i \in Jobs : (Sent(i)' => Sent(i)) /\ Kept(i)' = Kept(i)
      BY <1>1, <2>1, <2>2 DEF Sent, Kept, On
    <2> QED
      BY <1>1, <2>4, <2>6, <2>7 DEF SentIsKept
  <1>6. CASE PublisherCrash(p)
    <2>1. tx' = [tx EXCEPT ![p] = NoRows] /\ UNCHANGED <<outbox, queue>>
      BY <1>6 DEF PublisherCrash
    <2>2. \A q \in Publishers, i \in Jobs :
            tx'[q][i] # "none" => tx'[q][i] = tx[q][i]
      BY <2>1 DEF NoRows
    <2>3. OneHolder' /\ HeldRows'
      BY <1>1, <2>1, <2>2 DEF OneHolder, HeldRows
    <2>4. ReadsAreCurrent'
      BY <1>1, <2>1, <2>2 DEF ReadsAreCurrent, RowLocked, On
    <2>5. \A i \in Jobs : (Sent(i)' => Sent(i)) /\ Kept(i)' = Kept(i)
      BY <1>1, <2>1, <2>2 DEF Sent, Kept, On
    <2> QED
      BY <1>1, <2>3, <2>4, <2>5 DEF SentIsKept
  <1> QED
    BY <1>2, <1>3, <1>4, <1>5, <1>6 DEF PublisherStep

-----------------------------------------------------------------------------
\* The steps of the workers.

\* Only FailCommit makes a job wait or writes its outbox row, and a worker
\* that starts to fail a job reads the outbox row that no publisher holds.
WorkerFrame(i) ==
    /\ UNCHANGED <<outbox, tx, reaper>>
    /\ job'[i].status = "pending" => job'[i] = job[i]
    /\ job'[i].wait \in {0, job[i].wait}
    /\ \A v \in Workers : On(v, "failing", i)' =>
          \/ On(v, "failing", i) /\ worker'[v].seen = worker[v].seen
          \/ ~RowLocked(i) /\ worker'[v].seen = outbox[i]

LEMMA ExitFrame ==
  ASSUME TypeOK, RowShape, NEW w \in Workers, Exit(w), NEW i \in Jobs
  PROVE  /\ job'[i].status = "pending" => job'[i] = job[i]
         /\ job'[i].wait = job[i].wait
         /\ \A v \in Workers : worker'[v] \in {worker[v], IdleWorker}
  <1>1. job[i].owner = w => job[i].status = "running"
    BY QueueAssumption DEF RowShape
  <1>2. job'[i] = IF job[i].owner = w THEN [job[i] EXCEPT !.owner = Gone] ELSE job[i]
    BY DEF Exit
  <1>3. job[i] \in JobRecord
    BY DEF TypeOK
  <1>4. job'[i].status = "pending" => job'[i] = job[i]
    BY <1>1, <1>2, <1>3 DEF JobRecord
  <1>5. job'[i].wait = job[i].wait
    BY <1>2, <1>3 DEF JobRecord
  <1>6. \A v \in Workers : worker'[v] \in {worker[v], IdleWorker}
    BY DEF Exit, TypeOK
  <1> QED
    BY <1>4, <1>5, <1>6

LEMMA WorkerFrames ==
  ASSUME Reliable, TypeOK, RowShape, NEW w \in Workers, NEW j \in Jobs,
         WorkerStep(w, j), ~FailCommit(w, j), NEW i \in Jobs
  PROVE  WorkerFrame(i)
  <1> USE DEF TypeOK, WorkerFrame, On
  <1>0. job[i] \in JobRecord /\ job[j] \in JobRecord
    OBVIOUS
  <1>1. CASE Receive(w, j)
    BY <1>1 DEF Receive, Delivery
  <1>2. CASE ClaimRefused(w, j) \/ HeartbeatLost(w, j) \/ Abandon(w, j) \/ ResultRefused(w, j)
    <2>1. UNCHANGED <<job, outbox, tx, reaper>>
      BY <1>2 DEF ClaimRefused, HeartbeatLost, Abandon, ResultRefused
    <2>2. \E pc \in {"ack", "lost"} : worker' = [worker EXCEPT ![w].pc = pc]
      BY <1>2 DEF ClaimRefused, HeartbeatLost, Abandon, ResultRefused
    <2> QED
      BY <2>1, <2>2
  <1>3. CASE ClaimExhausted(w, j)
    BY <1>0, <1>3 DEF ClaimExhausted, GivenUp, Released, JobRecord
  <1>4. CASE ClaimGranted(w, j)
    BY <1>0, <1>4 DEF ClaimGranted, JobRecord
  <1>5. CASE HeartbeatOwned(w, j)
    BY <1>0, <1>5 DEF HeartbeatOwned, Owns, JobRecord
  <1>6. CASE Finish(w, j)
    BY <1>0, <1>6 DEF Finish, Released, JobRecord
  <1>7. CASE FailForGood(w, j)
    BY <1>0, <1>7 DEF FailForGood, GivenUp, Released, JobRecord
  <1>8. CASE FailRead(w, j)
    BY <1>8 DEF FailRead, OutboxSettled, Reliable
  <1>9. CASE Ack(w, j) \/ Reject(w, j) \/ Raise(w, j)
    BY <1>9 DEF Ack, Reject, Raise, Answered, IdleWorker, Delivery
  <1>10. CASE Disconnect(w, j)
    BY <1>10 DEF Disconnect
  <1>11. CASE AnswerFails(w, j) \/ Crash(w, j)
    <2>1. Exit(w) /\ UNCHANGED <<outbox, tx, reaper>>
      BY <1>11 DEF AnswerFails, Crash
    <2>2. \A v \in Workers : worker'[v] \in {worker[v], IdleWorker}
      BY <2>1, ExitFrame
    <2>3. \A v \in Workers : On(v, "failing", i)' => worker'[v] = worker[v]
      BY <2>2 DEF IdleWorker, Delivery
    <2> QED
      BY <2>1, <2>3, ExitFrame
  <1> QED
    BY <1>1, <1>2, <1>3, <1>4, <1>5, <1>6, <1>7, <1>8, <1>9, <1>10, <1>11
       DEF WorkerStep, Claim, Settle, Answer, WorkerFault

\* A message for a job that can be claimed is used up only by the claim.
LEMMA KeptStep ==
  ASSUME TypeOK, LocksProtect, NEW w \in Workers, NEW j \in Jobs,
         WorkerStep(w, j), NEW i \in Jobs, Claimable(i), Kept(i),
         job'[i].status = "pending"
  PROVE  Kept(i)'
  <1> USE DEF TypeOK, Kept, On, Claimable
  <1>1. CASE Receive(w, j)
    <2>1. CASE i = j
      BY <1>1, <2>1 DEF Receive, Delivery
    <2>2. CASE i # j
      BY <1>1, <2>2 DEF Receive, Delivery
    <2> QED
      BY <2>1, <2>2
  <1>2. CASE ClaimRefused(w, j)
    BY <1>2 DEF ClaimRefused
  <1>3. CASE ClaimExhausted(w, j)
    BY <1>3 DEF ClaimExhausted, GivenUp, Released
  <1>4. CASE ClaimGranted(w, j)
    BY <1>4 DEF ClaimGranted
  <1>5. CASE HeartbeatOwned(w, j) \/ HeartbeatLost(w, j)
    BY <1>5 DEF HeartbeatOwned, HeartbeatLost
  <1>6. CASE Settle(w, j)
    BY <1>6 DEF Settle, Abandon, Finish, ResultRefused, FailForGood, FailRead
  <1>7. CASE FailCommit(w, j)
    BY <1>7 DEF FailCommit
  <1>8. CASE Ack(w, j) \/ Reject(w, j)
    BY <1>8 DEF Ack, Reject, Answered
  <1>9. CASE AnswerFails(w, j)
    BY <1>9 DEF AnswerFails, Exit
  <1>10. CASE Raise(w, j)
    <2>1. queue' = [queue EXCEPT ![j] = @ + 1] /\ worker' = [worker EXCEPT ![w] = IdleWorker]
      BY <1>10 DEF Raise, Answered
    <2>2. worker[w].job = j
      BY <1>10 DEF Raise
    <2> QED
      BY <2>1, <2>2
  <1>11. CASE Disconnect(w, j)
    <2>1. /\ queue' = [queue EXCEPT ![j] = @ + 1]
          /\ worker' = [worker EXCEPT ![w].held = FALSE] /\ worker[w].job = j
      BY <1>11 DEF Disconnect, Busy
    <2> QED
      BY <2>1
  <1>12. CASE Crash(w, j)
    <2>1. /\ queue' = IF worker[w].held THEN [queue EXCEPT ![j] = @ + 1] ELSE queue
          /\ worker' = [worker EXCEPT ![w] = IdleWorker] /\ worker[w].job = j
      BY <1>12 DEF Crash, Busy, Exit
    <2> QED
      BY <2>1
  <1> QED
    BY <1>1, <1>2, <1>3, <1>4, <1>5, <1>6, <1>7, <1>8, <1>9, <1>10, <1>11, <1>12
       DEF WorkerStep, Claim, Answer, WorkerFault

\* A retry is queued for publishing: nobody holds its row, and what the
\* transaction read of the outbox is still there.
LEMMA RetryIsQueued ==
  ASSUME TypeOK, NEW j \in Jobs
  PROVE  Requeued(j, outbox[j]) = "pending"
  BY DEF TypeOK, OutboxStatus, Requeued

LEMMA WorkerLossStep ==
  ASSUME Reliable, LossInv, NEW w \in Workers, NEW j \in Jobs, WorkerStep(w, j)
  PROVE  OneHolder' /\ HeldRows' /\ ReadsAreCurrent' /\ SentIsKept'
  <1> USE DEF LossInv, SafetyInv
  <1>1. CASE ~FailCommit(w, j)
    <2>1. \A i \in Jobs : WorkerFrame(i)
      BY <1>1, WorkerFrames
    <2>2. UNCHANGED <<outbox, tx, reaper>>
      BY <2>1 DEF WorkerFrame
    <2>3. OneHolder' /\ HeldRows'
      BY <2>1, <2>2 DEF OneHolder, HeldRows, WorkerFrame
    <2>4. ReadsAreCurrent'
      BY <2>1, <2>2 DEF ReadsAreCurrent, RowLocked, WorkerFrame
    <2>5. ASSUME NEW i \in Jobs, job'[i].status = "pending", Sent(i)'
          PROVE  job'[i].wait = 0 /\ Kept(i)'
      <3>1. job'[i] = job[i] /\ Sent(i)
        BY <2>1, <2>2, <2>5 DEF WorkerFrame, Sent
      <3>2. Claimable(i) /\ Kept(i)
        BY <2>5, <3>1 DEF SentIsKept, Claimable
      <3> QED
        BY <2>5, <3>1, <3>2, KeptStep DEF Claimable
    <2> QED
      BY <2>3, <2>4, <2>5 DEF SentIsKept
  <1>2. CASE FailCommit(w, j)
    <2>1. /\ On(w, "failing", j)
          /\ job' = [job EXCEPT ![j] = Retried(j)]
          /\ outbox' = [outbox EXCEPT ![j] = Requeued(j, worker[w].seen)]
          /\ worker' = [worker EXCEPT ![w].pc = "ack"]
          /\ UNCHANGED <<queue, dlq, tx, reaper>>
      BY <1>2 DEF FailCommit
    <2>2. ~RowLocked(j) /\ worker[w].seen = outbox[j]
      BY <2>1 DEF ReadsAreCurrent
    <2>3. outbox'[j] = "pending" /\ \A i \in Jobs : i # j => outbox'[i] = outbox[i]
      BY <2>1, <2>2, RetryIsQueued DEF TypeOK
    <2>4. \A i \in Jobs : i # j => job'[i] = job[i]
      BY <2>1 DEF TypeOK
    <2>5. OneHolder' /\ HeldRows'
      BY <2>1, <2>2, <2>3, <2>4 DEF OneHolder, HeldRows, RowLocked
    <2>6. ReadsAreCurrent'
      <3>1. reaper[j] = "none" /\ \A v \in Workers : On(v, "failing", j) => v = w
        BY <2>1 DEF LocksProtect, Owns
      <3>2. \A v \in Workers, i \in Jobs : On(v, "failing", i)' =>
              v # w /\ On(v, "failing", i) /\ worker'[v] = worker[v]
        BY <2>1 DEF TypeOK, On
      <3>3. \A i \in Jobs : RowLocked(i)' = RowLocked(i)
        BY <2>1 DEF RowLocked
      <3> QED
        BY <2>1, <2>3, <3>1, <3>2, <3>3 DEF ReadsAreCurrent
    <2>7. \A i \in Jobs : Sent(i)' => i # j /\ Sent(i)
      BY <2>1, <2>2, <2>3 DEF Sent, RowLocked
    <2>8. \A i \in Jobs : Kept(i) => Kept(i)'
      BY <2>1 DEF TypeOK, Kept, On
    <2> QED
      BY <2>4, <2>5, <2>6, <2>7, <2>8 DEF SentIsKept
  <1> QED
    BY <1>1, <1>2

-----------------------------------------------------------------------------
\* The steps of the reaper and of time.

LEMMA ReaperLossStep ==
  ASSUME Reliable, LossInv, ReaperStep
  PROVE  OneHolder' /\ HeldRows' /\ ReadsAreCurrent' /\ SentIsKept'
  <1> USE DEF LossInv, SafetyInv
  <1>1. UNCHANGED <<queue, dlq, tx, worker>>
    BY DEF ReaperStep, ReapRead, ReapCommit, ReapCrash
  <1>2. \A i \in Jobs : RowLocked(i)' = RowLocked(i) /\ Kept(i)' = Kept(i)
    BY <1>1 DEF RowLocked, Kept, On
  <1>3. CASE ReapRead \/ ReapCrash
    <2>1. UNCHANGED <<job, outbox>>
      BY <1>3 DEF ReapRead, ReapCrash
    <2>2. \A i \in Jobs : reaper'[i] # "none" => ~RowLocked(i) /\ reaper'[i] = outbox[i]
      BY <1>3 DEF ReapRead, ReapCrash, NoRows, OutboxSettled, Reliable
    <2>3. ReadsAreCurrent'
      BY <1>1, <1>2, <2>1, <2>2 DEF ReadsAreCurrent, On
    <2> QED
      BY <1>1, <1>2, <2>1, <2>3 DEF OneHolder, HeldRows, SentIsKept, Sent
  <1>4. CASE ReapCommit
    <2>1. \A i \in Jobs : reaper[i] = "none" => job'[i] = job[i] /\ outbox'[i] = outbox[i]
      BY <1>4 DEF ReapCommit
    <2>2. ASSUME NEW i \in Jobs, reaper[i] # "none"
          PROVE  /\ ~RowLocked(i)
                 /\ job'[i].status = "pending" => outbox'[i] = "pending"
      <3>1. ~RowLocked(i) /\ reaper[i] = outbox[i]
        BY <2>2 DEF ReadsAreCurrent
      <3>2. CASE Exhausted(i)
        <4>1. job'[i] = GivenUp(i)
          BY <1>4, <2>2, <3>2 DEF ReapCommit
        <4>2. job'[i].status = "failed"
          BY <4>1 DEF GivenUp, Released, TypeOK, JobRecord
        <4> QED
          BY <3>1, <4>2
      <3>3. CASE ~Exhausted(i)
        BY <1>4, <2>2, <3>1, <3>3, RetryIsQueued DEF ReapCommit
      <3> QED
        BY <3>2, <3>3
    <2>3. OneHolder' /\ HeldRows'
      BY <1>1, <2>1, <2>2 DEF OneHolder, HeldRows, RowLocked
    <2>4. ReadsAreCurrent'
      <3>1. \A i \in Jobs : reaper'[i] = "none"
        BY <1>4 DEF ReapCommit, NoRows
      <3>2. \A i \in Jobs, v \in Workers : On(v, "failing", i) => reaper[i] = "none"
        BY DEF LocksProtect
      <3> QED
        BY <1>1, <1>2, <2>1, <3>1, <3>2 DEF ReadsAreCurrent, On
    <2>5. SentIsKept'
      BY <1>1, <1>2, <2>1, <2>2 DEF SentIsKept, Sent, RowLocked
    <2> QED
      BY <2>3, <2>4, <2>5
  <1> QED
    BY <1>3, <1>4 DEF ReaperStep

LEMMA TimeLossStep ==
  ASSUME LossInv, NEW j \in Jobs, TimeStep(j)
  PROVE  OneHolder' /\ HeldRows' /\ ReadsAreCurrent' /\ SentIsKept'
  <1> USE DEF LossInv, SafetyInv
  <1>1. UNCHANGED <<outbox, queue, dlq, tx, worker, reaper>>
    BY DEF TimeStep, Tick, Lapse
  <1>2. \A i \in Jobs : /\ job'[i].status = job[i].status
                        /\ job[i].wait = 0 => job'[i].wait = 0
    <2>1. CASE Tick(j)
      BY <2>1 DEF Tick, TypeOK, JobRecord
    <2>2. CASE Lapse(j)
      BY <2>2 DEF Lapse, TypeOK, JobRecord
    <2> QED
      BY <2>1, <2>2 DEF TimeStep
  <1>4. OneHolder' /\ HeldRows' /\ ReadsAreCurrent'
    BY <1>1, <1>2 DEF OneHolder, HeldRows, ReadsAreCurrent, RowLocked, On
  <1>5. SentIsKept'
    BY <1>1, <1>2 DEF SentIsKept, Sent, Kept, On
  <1> QED
    BY <1>4, <1>5

-----------------------------------------------------------------------------
LEMMA LossStep == Reliable /\ LossInv /\ [Next]_vars => LossInv'
  <1> SUFFICES ASSUME Reliable, LossInv, [Next]_vars PROVE LossInv'
    OBVIOUS
  <1>1. SafetyInv'
    BY SafetyStep DEF LossInv
  <1>2. OneHolder' /\ HeldRows' /\ ReadsAreCurrent' /\ SentIsKept'
    <2>1. ASSUME NEW j \in Jobs, TimeStep(j)
          PROVE  OneHolder' /\ HeldRows' /\ ReadsAreCurrent' /\ SentIsKept'
      BY <2>1, TimeLossStep
    <2>2. ASSUME NEW p \in Publishers, PublisherStep(p)
          PROVE  OneHolder' /\ HeldRows' /\ ReadsAreCurrent' /\ SentIsKept'
      BY <2>2, PublisherLossStep
    <2>3. ASSUME NEW w \in Workers, NEW j \in Jobs, WorkerStep(w, j)
          PROVE  OneHolder' /\ HeldRows' /\ ReadsAreCurrent' /\ SentIsKept'
      BY <2>3, WorkerLossStep
    <2>4. CASE ReaperStep
      BY <2>4, ReaperLossStep
    <2>5. CASE UNCHANGED vars
      BY <2>5 DEF vars, LossInv, OneHolder, HeldRows, ReadsAreCurrent, SentIsKept,
                  Sent, Kept, RowLocked, On
    <2> QED
      BY <2>1, <2>2, <2>3, <2>4, <2>5 DEF Next
  <1> QED
    BY <1>1, <1>2 DEF LossInv

\* No job is lost: one that waits to run will be published, or a message that
\* will make a worker claim it is on its way, whatever crashes, loses its
\* connection or raises, in any order and any number of times.
THEOREM NoLoss == Reliable => (Spec => []NoJobIsLost)
  <1> SUFFICES ASSUME Reliable PROVE Spec => []NoJobIsLost
    OBVIOUS
  <1>1. LossInv /\ [Next]_vars => LossInv'
    BY LossStep
  <1> QED
    BY LossInit, <1>1, LossImplies, PTL DEF Spec

=============================================================================
