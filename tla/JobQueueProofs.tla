-------------------------- MODULE JobQueueProofs --------------------------
(***************************************************************************)
(* Proofs about JobQueue for every set of jobs, workers and publishers,    *)
(* every max_attempts and every list of backoffs.                          *)
(***************************************************************************)
EXTENDS JobQueue, TLAPS

-----------------------------------------------------------------------------
\* Type correctness.

\* The delay before a retry is always one of the configured ones.
LEMMA BackoffIsNat == \A n \in Nat : RetryBackoff(n) \in Nat
  BY QueueAssumption DEF RetryBackoff

\* What the transactions write to a job is a job.
LEMMA JobUpdates ==
  ASSUME TypeOK, NEW j \in Jobs
  PROVE  /\ job[j] \in JobRecord
         /\ \A n \in Nat : [job[j] EXCEPT !.wait = n] \in JobRecord
         /\ \A b \in BOOLEAN : [job[j] EXCEPT !.stale = b] \in JobRecord
         /\ [job[j] EXCEPT !.owner = Gone] \in JobRecord
         /\ Released(j, "done", 0) \in JobRecord
         /\ GivenUp(j) \in JobRecord
         /\ Retried(j) \in JobRecord
         /\ \A w \in Workers :
              [status |-> "running", owner |-> w, attempts |-> job[j].attempts + 1,
               wait |-> 0, stale |-> FALSE] \in JobRecord
  <1>1. job[j] \in JobRecord
    BY DEF TypeOK
  <1>2. \A s \in JobStatus, n \in Nat : Released(j, s, n) \in JobRecord
    BY <1>1 DEF JobRecord, Released
  <1>3. RetryBackoff(job[j].attempts) \in Nat
    BY <1>1, BackoffIsNat DEF JobRecord
  <1>4. GivenUp(j) \in JobRecord /\ Retried(j) \in JobRecord
    BY <1>2, <1>3 DEF GivenUp, Retried, JobStatus
  <1>5. Released(j, "done", 0) \in JobRecord
    BY <1>2 DEF JobStatus
  <1> QED
    BY <1>1, <1>4, <1>5 DEF JobRecord, JobStatus

\* What the worker's steps write to its record is such a record.
LEMMA WorkerUpdates ==
  ASSUME TypeOK, NEW w \in Workers
  PROVE  /\ worker[w] \in WorkerRecord
         /\ \A pc \in WorkerPC : [worker[w] EXCEPT !.pc = pc] \in WorkerRecord
         /\ \A n \in Nat : [worker[w] EXCEPT !.pc = "processing", !.attempt = n]
                              \in WorkerRecord
         /\ \A s \in OutboxStatus : [worker[w] EXCEPT !.pc = "failing", !.seen = s]
                              \in WorkerRecord
         /\ [worker[w] EXCEPT !.held = FALSE] \in WorkerRecord
         /\ IdleWorker \in WorkerRecord
         /\ \A j \in Jobs : Delivery("claim", j) \in WorkerRecord
  <1>1. worker[w] \in WorkerRecord
    BY DEF TypeOK
  <1>2. \A pc \in WorkerPC : [worker[w] EXCEPT !.pc = pc] \in WorkerRecord
    BY <1>1 DEF WorkerRecord
  <1>3. \A n \in Nat : [worker[w] EXCEPT !.pc = "processing", !.attempt = n]
                         \in WorkerRecord
    BY <1>1 DEF WorkerRecord, WorkerPC
  <1>4. \A s \in OutboxStatus : [worker[w] EXCEPT !.pc = "failing", !.seen = s]
                         \in WorkerRecord
    BY <1>1 DEF WorkerRecord, WorkerPC
  <1>5. [worker[w] EXCEPT !.held = FALSE] \in WorkerRecord
    BY <1>1 DEF WorkerRecord
  <1>6. /\ IdleWorker \in WorkerRecord
        /\ \A j \in Jobs : Delivery("claim", j) \in WorkerRecord
    BY DEF WorkerRecord, WorkerPC, IdleWorker, Delivery
  <1> QED
    BY <1>1, <1>2, <1>3, <1>4, <1>5, <1>6

\* A fault is counted, a dead process leaves jobs and an idle worker.
LEMMA FaultType == ASSUME TypeOK, Fault PROVE faults' \in 0..MaxFaults
  BY QueueAssumption DEF TypeOK, Fault

LEMMA ExitType ==
  ASSUME TypeOK, NEW w \in Workers, Exit(w)
  PROVE  job' \in [Jobs -> JobRecord] /\ worker' \in [Workers -> WorkerRecord]
  BY JobUpdates, WorkerUpdates DEF TypeOK, Exit

LEMMA TypeInit == Init => TypeOK
  BY QueueAssumption
     DEF Init, TypeOK, JobRecord, JobStatus, OutboxStatus, WorkerRecord, WorkerPC,
         NoRows, IdleWorker, Delivery

LEMMA TypeStep == TypeOK /\ [Next]_vars => TypeOK'
  <1> SUFFICES ASSUME TypeOK, [Next]_vars PROVE TypeOK'
    OBVIOUS
  <1>1. ASSUME NEW j \in Jobs, Tick(j)
         PROVE  TypeOK'
    <2>1. job[j].wait \in Nat /\ job[j].wait > 0
      BY <1>1, JobUpdates DEF Tick, JobRecord
    <2>2. job[j].wait - 1 \in Nat
      BY <2>1
    <2>3. [job[j] EXCEPT !.wait = job[j].wait - 1] \in JobRecord
      BY <2>2, JobUpdates
    <2> QED
      BY <1>1, <2>3 DEF Tick, TypeOK
  <1>2. ASSUME NEW j \in Jobs, Lapse(j)
         PROVE  TypeOK'
    BY <1>2, JobUpdates DEF Lapse, TypeOK
  <1>3. ASSUME NEW p \in Publishers, SelectRows(p)
         PROVE  TypeOK'
    BY <1>3 DEF SelectRows, TypeOK, NoRows
  <1>4. ASSUME NEW p \in Publishers, CommitPublish(p)
         PROVE  TypeOK'
    BY <1>4 DEF CommitPublish, TypeOK, NoRows, OutboxStatus
  <1>5. ASSUME NEW p \in Publishers, PublisherCrash(p)
         PROVE  TypeOK'
    BY <1>5, FaultType DEF PublisherCrash, TypeOK, NoRows
  <1>6. ASSUME NEW p \in Publishers, NEW j \in Jobs, Publish(p, j)
         PROVE  TypeOK'
    BY <1>6 DEF Publish, TypeOK
  <1>7. ASSUME NEW p \in Publishers, NEW j \in Jobs, PublishLost(p, j)
         PROVE  TypeOK'
    BY <1>7, FaultType DEF PublishLost, TypeOK
  <1>8. ASSUME NEW p \in Publishers, NEW j \in Jobs, PublishFails(p, j)
         PROVE  TypeOK'
    BY <1>8, FaultType DEF PublishFails, TypeOK
  <1>9. ASSUME NEW w \in Workers, NEW j \in Jobs, Receive(w, j)
         PROVE  TypeOK'
    <2>1. queue' \in [Jobs -> Nat]
      BY <1>9 DEF Receive, TypeOK
    <2>2. worker' \in [Workers -> WorkerRecord]
      BY <1>9, WorkerUpdates DEF Receive, TypeOK
    <2> QED
      BY <1>9, <2>1, <2>2 DEF Receive, TypeOK
  <1>10. ASSUME NEW w \in Workers, NEW j \in Jobs, ClaimRefused(w, j)
         PROVE  TypeOK'
    BY <1>10, WorkerUpdates DEF ClaimRefused, TypeOK, WorkerPC
  <1>11. ASSUME NEW w \in Workers, NEW j \in Jobs, ClaimExhausted(w, j)
         PROVE  TypeOK'
    BY <1>11, JobUpdates, WorkerUpdates
       DEF ClaimExhausted, TypeOK, WorkerPC
  <1>12. ASSUME NEW w \in Workers, NEW j \in Jobs, ClaimGranted(w, j)
         PROVE  TypeOK'
    <2>1. job' \in [Jobs -> JobRecord]
      BY <1>12, JobUpdates DEF ClaimGranted, TypeOK
    <2>2. job[j].attempts + 1 \in Nat
      BY JobUpdates DEF JobRecord
    <2>3. worker' \in [Workers -> WorkerRecord]
      BY <1>12, <2>2, WorkerUpdates DEF ClaimGranted, TypeOK
    <2> QED
      BY <1>12, <2>1, <2>3 DEF ClaimGranted, TypeOK
  <1>13. ASSUME NEW w \in Workers, NEW j \in Jobs, HeartbeatOwned(w, j)
         PROVE  TypeOK'
    BY <1>13, JobUpdates DEF HeartbeatOwned, TypeOK
  <1>14. ASSUME NEW w \in Workers, NEW j \in Jobs, HeartbeatLost(w, j)
         PROVE  TypeOK'
    BY <1>14, WorkerUpdates DEF HeartbeatLost, TypeOK, WorkerPC
  <1>15. ASSUME NEW w \in Workers, NEW j \in Jobs, Abandon(w, j)
         PROVE  TypeOK'
    BY <1>15, WorkerUpdates DEF Abandon, TypeOK, WorkerPC
  <1>16. ASSUME NEW w \in Workers, NEW j \in Jobs, Finish(w, j)
         PROVE  TypeOK'
    BY <1>16, JobUpdates, WorkerUpdates DEF Finish, TypeOK, WorkerPC
  <1>17. ASSUME NEW w \in Workers, NEW j \in Jobs, ResultRefused(w, j)
         PROVE  TypeOK'
    BY <1>17, WorkerUpdates DEF ResultRefused, TypeOK, WorkerPC
  <1>18. ASSUME NEW w \in Workers, NEW j \in Jobs, FailForGood(w, j)
         PROVE  TypeOK'
    BY <1>18, JobUpdates, WorkerUpdates DEF FailForGood, TypeOK, WorkerPC
  <1>19. ASSUME NEW w \in Workers, NEW j \in Jobs, FailRead(w, j)
         PROVE  TypeOK'
    BY <1>19, WorkerUpdates DEF FailRead, TypeOK, OutboxStatus
  <1>20. ASSUME NEW w \in Workers, NEW j \in Jobs, FailCommit(w, j)
         PROVE  TypeOK'
    BY <1>20, JobUpdates, WorkerUpdates
       DEF FailCommit, TypeOK, WorkerPC, Requeued, OutboxStatus
  <1>21. ASSUME NEW w \in Workers, NEW j \in Jobs, Ack(w, j)
         PROVE  TypeOK'
    BY <1>21, WorkerUpdates DEF Ack, TypeOK, Answered
  <1>22. ASSUME NEW w \in Workers, NEW j \in Jobs, Reject(w, j)
         PROVE  TypeOK'
    BY <1>22, WorkerUpdates DEF Reject, TypeOK, Answered
  <1>23. ASSUME NEW w \in Workers, NEW j \in Jobs, AnswerFails(w, j)
         PROVE  TypeOK'
    BY <1>23, ExitType DEF AnswerFails, TypeOK
  <1>24. ASSUME NEW w \in Workers, NEW j \in Jobs, Raise(w, j)
         PROVE  TypeOK'
    <2>1. queue' \in [Jobs -> Nat]
      BY <1>24 DEF Raise, TypeOK
    <2>2. worker' \in [Workers -> WorkerRecord]
      BY <1>24, WorkerUpdates DEF Raise, TypeOK, Answered
    <2>3. faults' \in 0..MaxFaults
      BY <1>24, FaultType DEF Raise
    <2> QED
      BY <1>24, <2>1, <2>2, <2>3 DEF Raise, TypeOK
  <1>25. ASSUME NEW w \in Workers, NEW j \in Jobs, Disconnect(w, j)
         PROVE  TypeOK'
    <2>1. queue' \in [Jobs -> Nat]
      BY <1>25 DEF Disconnect, TypeOK
    <2>2. worker' \in [Workers -> WorkerRecord]
      BY <1>25, WorkerUpdates DEF Disconnect, TypeOK
    <2>3. faults' \in 0..MaxFaults
      BY <1>25, FaultType DEF Disconnect
    <2> QED
      BY <1>25, <2>1, <2>2, <2>3 DEF Disconnect, TypeOK
  <1>26. ASSUME NEW w \in Workers, NEW j \in Jobs, Crash(w, j)
         PROVE  TypeOK'
    BY <1>26, FaultType, ExitType DEF Crash, TypeOK
  <1>27. ASSUME ReapRead
         PROVE  TypeOK'
    BY <1>27 DEF ReapRead, TypeOK, NoRows, OutboxStatus
  <1>28. ASSUME ReapCommit
         PROVE  TypeOK'
    BY <1>28, JobUpdates
       DEF ReapCommit, TypeOK, NoRows, Requeued, OutboxStatus
  <1>29. ASSUME ReapCrash
         PROVE  TypeOK'
    BY <1>29, FaultType DEF ReapCrash, TypeOK, NoRows
  <1>30. CASE UNCHANGED vars
    BY <1>30 DEF vars, TypeOK
  <1> QED
    BY <1>1, <1>2, <1>3, <1>4, <1>5, <1>6, <1>7, <1>8, <1>9,
       <1>10, <1>11, <1>12, <1>13, <1>14, <1>15, <1>16, <1>17, <1>18,
       <1>19, <1>20, <1>21, <1>22, <1>23, <1>24, <1>25, <1>26, <1>27,
       <1>28, <1>29, <1>30
       DEF Next, TimeStep, PublisherStep, WorkerStep, Claim, Settle, Answer,
           WorkerFault, ReaperStep

\* Every reachable state is a state of the tables, queues and processes.
THEOREM TypeCorrect == Spec => []TypeOK
  BY TypeInit, TypeStep, PTL DEF Spec

-----------------------------------------------------------------------------
\* The safety invariant.  Besides the properties it needs the shape of a jobs
\* row: worker_id and heartbeat_at are set only while it runs, next_run_at
\* only while it is pending.

RowShape ==
    \A j \in Jobs :
        /\ job[j].status # "running" => job[j].owner = None /\ ~job[j].stale
        /\ job[j].status # "pending" => job[j].wait = 0

SafetyInv == /\ TypeOK /\ RowShape /\ LocksProtect /\ AttemptIsFenced
             /\ LostIsLost /\ AttemptsAreBounded /\ DeadLettersAreFailed

\* Everything a step of the system can do to the row of job j.
Started(j, w) == [status |-> "running", owner |-> w, wait |-> 0, stale |-> FALSE,
                  attempts |-> job[j].attempts + 1]

RowMove(j) ==
    \/ job'[j] = job[j]
    \/ /\ job[j].wait > 0
       /\ job'[j] = [job[j] EXCEPT !.wait = @ - 1]
    \/ /\ job[j].status = "running"
       /\ \/ \E b \in BOOLEAN : job'[j] = [job[j] EXCEPT !.stale = b]
          \/ job'[j] = [job[j] EXCEPT !.owner = Gone]
          \/ job'[j] = Released(j, "done", 0)
          \/ ~Exhausted(j) /\ job'[j] = Retried(j)
    \/ /\ job[j].status = "pending" /\ ~Exhausted(j)
       /\ \E w \in Workers : job'[j] = Started(j, w)
    \/ /\ job[j].status \in {"pending", "running"} /\ Exhausted(j)
       /\ job'[j] = GivenUp(j)

\* What the steps of the publishers leave alone.
LEMMA PublisherFrame ==
  ASSUME NEW p \in Publishers, PublisherStep(p)
  PROVE  UNCHANGED <<job, dlq, worker, reaper>>
  BY DEF PublisherStep, SelectRows, CommitPublish, PublisherCrash, Publish,
         PublishLost, PublishFails

\* Only a running job has a worker as its owner.
LEMMA ExitMove ==
  ASSUME TypeOK, RowShape, NEW w \in Workers, Exit(w), NEW j \in Jobs
  PROVE  RowMove(j)
  <1>1. job[j].owner = w => job[j].status = "running"
    BY QueueAssumption DEF RowShape
  <1>2. job'[j] = IF job[j].owner = w THEN [job[j] EXCEPT !.owner = Gone] ELSE job[j]
    BY DEF Exit
  <1> QED
    BY <1>1, <1>2 DEF RowMove

LEMMA RowMoves ==
  ASSUME TypeOK, RowShape, LocksProtect, [Next]_vars, NEW i \in Jobs
  PROVE  RowMove(i)
  <1> USE DEF TypeOK, RowMove
  <1>1. ASSUME NEW j \in Jobs, TimeStep(j) PROVE RowMove(i)
    BY <1>1 DEF TimeStep, Tick, Lapse
  <1>2. ASSUME NEW p \in Publishers, PublisherStep(p) PROVE RowMove(i)
    BY <1>2, PublisherFrame
  <1>3. ASSUME NEW w \in Workers, NEW j \in Jobs, WorkerStep(w, j) PROVE RowMove(i)
    <2>1. CASE Claim(w, j)
      <3>1. CASE ClaimRefused(w, j)
        BY <3>1 DEF ClaimRefused
      <3>2. CASE ClaimExhausted(w, j)
        BY <3>2 DEF ClaimExhausted, Claimable
      <3>3. CASE ClaimGranted(w, j)
        <4>1. job' = [job EXCEPT ![j] = Started(j, w)]
          BY <3>3 DEF ClaimGranted, Started
        <4> QED
          BY <3>3, <4>1 DEF ClaimGranted, Claimable
      <3> QED
        BY <2>1, <3>1, <3>2, <3>3 DEF Claim
    <2>2. CASE HeartbeatOwned(w, j) \/ HeartbeatLost(w, j)
      BY <2>2 DEF HeartbeatOwned, HeartbeatLost, Owns
    <2>3. CASE Settle(w, j)
      BY <2>3 DEF Settle, Abandon, Finish, ResultRefused, FailForGood, FailRead, Owns
    <2>4. CASE FailCommit(w, j)
      BY <2>4 DEF FailCommit, LocksProtect, Owns
    <2>5. CASE Receive(w, j) \/ Ack(w, j) \/ Reject(w, j)
      BY <2>5 DEF Receive, Ack, Reject
    <2>6. CASE AnswerFails(w, j) \/ Crash(w, j)
      BY <2>6, ExitMove DEF AnswerFails, Crash
    <2>7. CASE Raise(w, j) \/ Disconnect(w, j)
      BY <2>7 DEF Raise, Disconnect
    <2> QED
      BY <1>3, <2>1, <2>2, <2>3, <2>4, <2>5, <2>6, <2>7
         DEF WorkerStep, Answer, WorkerFault
  <1>4. ASSUME ReaperStep PROVE RowMove(i)
    <2>1. CASE ReapCommit
      BY <2>1 DEF ReapCommit, LocksProtect
    <2>2. CASE ReapRead \/ ReapCrash
      BY <2>2 DEF ReapRead, ReapCrash
    <2> QED
      BY <1>4, <2>1, <2>2 DEF ReaperStep
  <1>5. CASE UNCHANGED vars
    BY <1>5 DEF vars
  <1> QED
    BY <1>1, <1>2, <1>3, <1>4, <1>5 DEF Next

\* The three invariants that only look at the rows follow from RowMove.
LEMMA RowStep ==
  ASSUME TypeOK, RowShape, AttemptsAreBounded, \A j \in Jobs : RowMove(j)
  PROVE  RowShape' /\ AttemptsAreBounded'
  <1> SUFFICES ASSUME NEW j \in Jobs
               PROVE  /\ job'[j].status # "running" =>
                            job'[j].owner = None /\ ~job'[j].stale
                      /\ job'[j].status # "pending" => job'[j].wait = 0
                      /\ job'[j].attempts <= MaxAttempts[j]
                      /\ job'[j].status = "failed" =>
                            job'[j].attempts >= MaxAttempts[j]
    BY DEF RowShape, AttemptsAreBounded, Exhausted
  <1> DEFINE Moved(row) == /\ row.status # "running" => row.owner = None /\ ~row.stale
                           /\ row.status # "pending" => row.wait = 0
                           /\ row.attempts <= MaxAttempts[j]
                           /\ row.status = "failed" => row.attempts >= MaxAttempts[j]
  <1>1. job[j] \in JobRecord /\ MaxAttempts[j] \in Nat
    BY QueueAssumption DEF TypeOK
  <1>2. Moved(job[j])
    BY DEF RowShape, AttemptsAreBounded, Exhausted
  <1>3. CASE job'[j] = job[j]
    BY <1>2, <1>3
  <1>4. CASE job[j].wait > 0 /\ job'[j] = [job[j] EXCEPT !.wait = @ - 1]
    BY <1>1, <1>2, <1>4 DEF JobRecord
  <1>5. CASE job[j].status = "running" /\ \E b \in BOOLEAN : job'[j] = [job[j] EXCEPT !.stale = b]
    BY <1>1, <1>2, <1>5 DEF JobRecord
  <1>6. CASE job[j].status = "running" /\ job'[j] = [job[j] EXCEPT !.owner = Gone]
    BY <1>1, <1>2, <1>6 DEF JobRecord
  <1>7. CASE job'[j] = Released(j, "done", 0)
    BY <1>1, <1>2, <1>7 DEF JobRecord, Released
  <1>8. CASE ~Exhausted(j) /\ job'[j] = Retried(j)
    BY <1>1, <1>2, <1>8 DEF JobRecord, Released, Retried
  <1>9. CASE ~Exhausted(j) /\ \E w \in Workers : job'[j] = Started(j, w)
    BY <1>1, <1>2, <1>9 DEF JobRecord, Started, Exhausted
  <1>10. CASE Exhausted(j) /\ job'[j] = GivenUp(j)
    BY <1>1, <1>2, <1>10 DEF JobRecord, Released, GivenUp, Exhausted
  <1> QED
    BY <1>3, <1>4, <1>5, <1>6, <1>7, <1>8, <1>9, <1>10 DEF RowMove

\* The row of a terminal job is left alone.
LEMMA TerminalStays ==
  ASSUME TypeOK, RowShape, NEW j \in Jobs, RowMove(j),
         job[j].status \in {"done", "failed"}
  PROVE  job'[j] = job[j]
  BY DEF RowMove, RowShape

\* A job that the reaper takes back does not run any more.
LEMMA ReapedRow ==
  ASSUME TypeOK, ReapCommit, NEW i \in Jobs, reaper[i] # "none"
  PROVE  job'[i].status # "running"
  <1>1. job[i] \in JobRecord
    BY DEF TypeOK
  <1>2. job'[i] = IF Exhausted(i) THEN GivenUp(i) ELSE Retried(i)
    BY DEF ReapCommit
  <1> QED
    BY <1>1, <1>2 DEF GivenUp, Retried, Released, JobRecord

\* Nobody writes a row that somebody else has locked.
LEMMA LocksStep ==
  ASSUME TypeOK, LocksProtect, [Next]_vars
  PROVE  LocksProtect'
  <1> USE DEF TypeOK, LocksProtect, On, Owns, Exhausted
  <1>1. ASSUME NEW j \in Jobs, TimeStep(j) PROVE LocksProtect'
    <2>1. CASE Tick(j)
      BY <2>1 DEF Tick
    <2>2. CASE Lapse(j)
      BY <2>2 DEF Lapse
    <2> QED
      BY <1>1, <2>1, <2>2 DEF TimeStep
  <1>2. ASSUME NEW p \in Publishers, PublisherStep(p) PROVE LocksProtect'
    BY <1>2, PublisherFrame
  <1>3. ASSUME NEW w \in Workers, NEW j \in Jobs, WorkerStep(w, j) PROVE LocksProtect'
    <2>1. CASE Receive(w, j)
      BY <2>1 DEF Receive, Delivery
    <2>2. CASE ClaimRefused(w, j)
      BY <2>2 DEF ClaimRefused
    <2>3. CASE ClaimExhausted(w, j)
      BY <2>3 DEF ClaimExhausted, Claimable, GivenUp, Released
    <2>4. CASE ClaimGranted(w, j)
      BY <2>4 DEF ClaimGranted, Claimable, Locked
    <2>5. CASE HeartbeatOwned(w, j)
      BY <2>5 DEF HeartbeatOwned
    <2>6. CASE HeartbeatLost(w, j)
      BY <2>6 DEF HeartbeatLost
    <2>7. CASE Abandon(w, j)
      BY <2>7 DEF Abandon
    <2>8. CASE Finish(w, j)
      BY <2>8 DEF Finish, Released, Locked
    <2>9. CASE ResultRefused(w, j)
      BY <2>9 DEF ResultRefused
    <2>10. CASE FailForGood(w, j)
      BY <2>10 DEF FailForGood, GivenUp, Released, Locked
    <2>11. CASE FailRead(w, j)
      BY <2>11 DEF FailRead, Locked
    <2>12. CASE FailCommit(w, j)
      BY <2>12 DEF FailCommit, Retried, Released
    <2>13. CASE Ack(w, j)
      BY <2>13 DEF Ack, Answered, IdleWorker, Delivery
    <2>14. CASE Reject(w, j)
      BY <2>14 DEF Reject, Answered, IdleWorker, Delivery
    <2>15. CASE AnswerFails(w, j)
      BY <2>15, QueueAssumption DEF AnswerFails, Exit, IdleWorker, Delivery
    <2>16. CASE Raise(w, j)
      BY <2>16 DEF Raise, Answered, IdleWorker, Delivery
    <2>17. CASE Disconnect(w, j)
      BY <2>17 DEF Disconnect
    <2>18. CASE Crash(w, j)
      BY <2>18, QueueAssumption DEF Crash, Exit, IdleWorker, Delivery
    <2> QED
      BY <1>3, <2>1, <2>2, <2>3, <2>4, <2>5, <2>6, <2>7, <2>8, <2>9, <2>10, <2>11, <2>12, <2>13, <2>14, <2>15, <2>16, <2>17, <2>18
         DEF WorkerStep, Claim, Settle, Answer, WorkerFault
  <1>4. ASSUME ReaperStep PROVE LocksProtect'
    <2>1. CASE ReapRead
      BY <2>1 DEF ReapRead, Stale, Locked
    <2>2. CASE ReapCommit
      BY <2>2 DEF ReapCommit, NoRows, Retried, GivenUp, Released
    <2>3. CASE ReapCrash
      BY <2>3 DEF ReapCrash, NoRows
    <2> QED
      BY <1>4, <2>1, <2>2, <2>3 DEF ReaperStep
  <1>5. CASE UNCHANGED vars
    BY <1>5 DEF vars
  <1> QED
    BY <1>1, <1>2, <1>3, <1>4, <1>5 DEF Next

\* Only the claim that makes a worker the owner changes attempt_count.
LEMMA FenceStep ==
  ASSUME TypeOK, LocksProtect, AttemptIsFenced, [Next]_vars
  PROVE  AttemptIsFenced'
  <1> USE DEF TypeOK, AttemptIsFenced, On, Owns
  <1>1. ASSUME NEW j \in Jobs, TimeStep(j) PROVE AttemptIsFenced'
    <2>1. CASE Tick(j)
      BY <2>1 DEF Tick
    <2>2. CASE Lapse(j)
      BY <2>2 DEF Lapse
    <2> QED
      BY <1>1, <2>1, <2>2 DEF TimeStep
  <1>2. ASSUME NEW p \in Publishers, PublisherStep(p) PROVE AttemptIsFenced'
    BY <1>2, PublisherFrame
  <1>3. ASSUME NEW w \in Workers, NEW j \in Jobs, WorkerStep(w, j) PROVE AttemptIsFenced'
    <2>1. CASE Receive(w, j)
      BY <2>1 DEF Receive, Delivery
    <2>2. CASE ClaimRefused(w, j)
      BY <2>2 DEF ClaimRefused
    <2>3. CASE ClaimExhausted(w, j)
      BY <2>3 DEF ClaimExhausted, Claimable, GivenUp, Released
    <2>4. CASE ClaimGranted(w, j)
      BY <2>4 DEF ClaimGranted, Claimable, Locked
    <2>5. CASE HeartbeatOwned(w, j)
      BY <2>5 DEF HeartbeatOwned
    <2>6. CASE HeartbeatLost(w, j)
      BY <2>6 DEF HeartbeatLost
    <2>7. CASE Abandon(w, j)
      BY <2>7 DEF Abandon
    <2>8. CASE Finish(w, j)
      BY <2>8 DEF Finish, Released, Locked
    <2>9. CASE ResultRefused(w, j)
      BY <2>9 DEF ResultRefused
    <2>10. CASE FailForGood(w, j)
      BY <2>10 DEF FailForGood, GivenUp, Released, Locked
    <2>11. CASE FailRead(w, j)
      BY <2>11 DEF FailRead, Locked
    <2>12. CASE FailCommit(w, j)
      BY <2>12 DEF FailCommit, Retried, Released
    <2>13. CASE Ack(w, j)
      BY <2>13 DEF Ack, Answered, IdleWorker, Delivery
    <2>14. CASE Reject(w, j)
      BY <2>14 DEF Reject, Answered, IdleWorker, Delivery
    <2>15. CASE AnswerFails(w, j)
      BY <2>15, QueueAssumption DEF AnswerFails, Exit, IdleWorker, Delivery
    <2>16. CASE Raise(w, j)
      BY <2>16 DEF Raise, Answered, IdleWorker, Delivery
    <2>17. CASE Disconnect(w, j)
      BY <2>17 DEF Disconnect
    <2>18. CASE Crash(w, j)
      BY <2>18, QueueAssumption DEF Crash, Exit, IdleWorker, Delivery
    <2> QED
      BY <1>3, <2>1, <2>2, <2>3, <2>4, <2>5, <2>6, <2>7, <2>8, <2>9, <2>10, <2>11, <2>12, <2>13, <2>14, <2>15, <2>16, <2>17, <2>18
         DEF WorkerStep, Claim, Settle, Answer, WorkerFault
  <1>4. ASSUME ReaperStep PROVE AttemptIsFenced'
    <2>1. CASE ReapRead
      BY <2>1 DEF ReapRead, Stale, Locked
    <2>2. CASE ReapCommit
      <3>1. \A i \in Jobs : reaper[i] # "none" => job'[i].status # "running"
        BY <2>2, ReapedRow
      <3>2. \A i \in Jobs : reaper[i] = "none" => job'[i] = job[i]
        BY <2>2 DEF ReapCommit
      <3> QED
        BY <2>2, <3>1, <3>2 DEF ReapCommit
    <2>3. CASE ReapCrash
      BY <2>3 DEF ReapCrash, NoRows
    <2> QED
      BY <1>4, <2>1, <2>2, <2>3 DEF ReaperStep
  <1>5. CASE UNCHANGED vars
    BY <1>5 DEF vars
  <1> QED
    BY <1>1, <1>2, <1>3, <1>4, <1>5 DEF Next

\* A worker becomes an owner only by claiming, which a busy one does not do.
LEMMA LostStep ==
  ASSUME TypeOK, LostIsLost, [Next]_vars
  PROVE  LostIsLost'
  <1> USE DEF TypeOK, LostIsLost, On, Owns
  <1>1. ASSUME NEW j \in Jobs, TimeStep(j) PROVE LostIsLost'
    <2>1. CASE Tick(j)
      BY <2>1 DEF Tick
    <2>2. CASE Lapse(j)
      BY <2>2 DEF Lapse
    <2> QED
      BY <1>1, <2>1, <2>2 DEF TimeStep
  <1>2. ASSUME NEW p \in Publishers, PublisherStep(p) PROVE LostIsLost'
    BY <1>2, PublisherFrame
  <1>3. ASSUME NEW w \in Workers, NEW j \in Jobs, WorkerStep(w, j) PROVE LostIsLost'
    <2>1. CASE Receive(w, j)
      BY <2>1 DEF Receive, Delivery
    <2>2. CASE ClaimRefused(w, j)
      BY <2>2 DEF ClaimRefused
    <2>3. CASE ClaimExhausted(w, j)
      BY <2>3 DEF ClaimExhausted, Claimable, GivenUp, Released
    <2>4. CASE ClaimGranted(w, j)
      BY <2>4 DEF ClaimGranted, Claimable, Locked
    <2>5. CASE HeartbeatOwned(w, j)
      BY <2>5 DEF HeartbeatOwned
    <2>6. CASE HeartbeatLost(w, j)
      BY <2>6 DEF HeartbeatLost
    <2>7. CASE Abandon(w, j)
      BY <2>7 DEF Abandon
    <2>8. CASE Finish(w, j)
      BY <2>8 DEF Finish, Released, Locked
    <2>9. CASE ResultRefused(w, j)
      BY <2>9 DEF ResultRefused
    <2>10. CASE FailForGood(w, j)
      BY <2>10 DEF FailForGood, GivenUp, Released, Locked
    <2>11. CASE FailRead(w, j)
      BY <2>11 DEF FailRead, Locked
    <2>12. CASE FailCommit(w, j)
      BY <2>12 DEF FailCommit, Retried, Released
    <2>13. CASE Ack(w, j)
      BY <2>13 DEF Ack, Answered, IdleWorker, Delivery
    <2>14. CASE Reject(w, j)
      BY <2>14 DEF Reject, Answered, IdleWorker, Delivery
    <2>15. CASE AnswerFails(w, j)
      <3>1. \A v \in Workers, i \in Jobs : Owns(v, i)' => Owns(v, i)
        BY <2>15, QueueAssumption DEF AnswerFails, Exit
      <3>2. \A v \in Workers, i \in Jobs : On(v, "lost", i)' => On(v, "lost", i)
        BY <2>15 DEF AnswerFails, Exit, IdleWorker, Delivery
      <3> QED
        BY <3>1, <3>2
    <2>16. CASE Raise(w, j)
      BY <2>16 DEF Raise, Answered, IdleWorker, Delivery
    <2>17. CASE Disconnect(w, j)
      BY <2>17 DEF Disconnect
    <2>18. CASE Crash(w, j)
      <3>1. \A v \in Workers, i \in Jobs : Owns(v, i)' => Owns(v, i)
        BY <2>18, QueueAssumption DEF Crash, Exit
      <3>2. \A v \in Workers, i \in Jobs : On(v, "lost", i)' => On(v, "lost", i)
        BY <2>18 DEF Crash, Exit, IdleWorker, Delivery
      <3> QED
        BY <3>1, <3>2
    <2> QED
      BY <1>3, <2>1, <2>2, <2>3, <2>4, <2>5, <2>6, <2>7, <2>8, <2>9, <2>10, <2>11, <2>12, <2>13, <2>14, <2>15, <2>16, <2>17, <2>18
         DEF WorkerStep, Claim, Settle, Answer, WorkerFault
  <1>4. ASSUME ReaperStep PROVE LostIsLost'
    <2>1. CASE ReapRead
      BY <2>1 DEF ReapRead, Stale, Locked
    <2>2. CASE ReapCommit
      <3>1. \A i \in Jobs : reaper[i] # "none" => job'[i].status # "running"
        BY <2>2, ReapedRow
      <3>2. \A i \in Jobs : reaper[i] = "none" => job'[i] = job[i]
        BY <2>2 DEF ReapCommit
      <3> QED
        BY <2>2, <3>1, <3>2 DEF ReapCommit
    <2>3. CASE ReapCrash
      BY <2>3 DEF ReapCrash, NoRows
    <2> QED
      BY <1>4, <2>1, <2>2, <2>3 DEF ReaperStep
  <1>5. CASE UNCHANGED vars
    BY <1>5 DEF vars
  <1> QED
    BY <1>1, <1>2, <1>3, <1>4, <1>5 DEF Next

\* A job that failed is never moved, so what is dead-lettered stays failed.
LEMMA DeadLetterStep ==
  ASSUME TypeOK, RowShape, LocksProtect, DeadLettersAreFailed, [Next]_vars
  PROVE  DeadLettersAreFailed'
  <1> USE DEF TypeOK, DeadLettersAreFailed, RowShape, LocksProtect, On, Owns
  <1>1. ASSUME NEW j \in Jobs, TimeStep(j) PROVE DeadLettersAreFailed'
    <2>1. CASE Tick(j)
      BY <2>1 DEF Tick
    <2>2. CASE Lapse(j)
      BY <2>2 DEF Lapse
    <2> QED
      BY <1>1, <2>1, <2>2 DEF TimeStep
  <1>2. ASSUME NEW p \in Publishers, PublisherStep(p) PROVE DeadLettersAreFailed'
    BY <1>2, PublisherFrame
  <1>3. ASSUME NEW w \in Workers, NEW j \in Jobs, WorkerStep(w, j) PROVE DeadLettersAreFailed'
    <2>1. CASE Receive(w, j)
      BY <2>1 DEF Receive, Delivery
    <2>2. CASE ClaimRefused(w, j)
      BY <2>2 DEF ClaimRefused
    <2>3. CASE ClaimExhausted(w, j)
      BY <2>3 DEF ClaimExhausted, Claimable, GivenUp, Released
    <2>4. CASE ClaimGranted(w, j)
      <3>1. \A i \in Jobs : job[i].status = "failed" => job'[i] = job[i]
        BY <2>4 DEF ClaimGranted, Claimable
      <3>2. \A v \in Workers, i \in Jobs : On(v, "reject", i)' => On(v, "reject", i)
        BY <2>4 DEF ClaimGranted
      <3> QED
        BY <2>4, <3>1, <3>2 DEF ClaimGranted
    <2>5. CASE HeartbeatOwned(w, j)
      BY <2>5 DEF HeartbeatOwned
    <2>6. CASE HeartbeatLost(w, j)
      BY <2>6 DEF HeartbeatLost
    <2>7. CASE Abandon(w, j)
      BY <2>7 DEF Abandon
    <2>8. CASE Finish(w, j)
      BY <2>8 DEF Finish, Released, Locked
    <2>9. CASE ResultRefused(w, j)
      BY <2>9 DEF ResultRefused
    <2>10. CASE FailForGood(w, j)
      BY <2>10 DEF FailForGood, GivenUp, Released, Locked
    <2>11. CASE FailRead(w, j)
      BY <2>11 DEF FailRead, Locked
    <2>12. CASE FailCommit(w, j)
      BY <2>12 DEF FailCommit, Retried, Released
    <2>13. CASE Ack(w, j)
      BY <2>13 DEF Ack, Answered, IdleWorker, Delivery
    <2>14. CASE Reject(w, j)
      BY <2>14 DEF Reject, Answered, IdleWorker, Delivery
    <2>15. CASE AnswerFails(w, j)
      BY <2>15, QueueAssumption DEF AnswerFails, Exit, IdleWorker, Delivery
    <2>16. CASE Raise(w, j)
      BY <2>16 DEF Raise, Answered, IdleWorker, Delivery
    <2>17. CASE Disconnect(w, j)
      BY <2>17 DEF Disconnect
    <2>18. CASE Crash(w, j)
      BY <2>18, QueueAssumption DEF Crash, Exit, IdleWorker, Delivery
    <2> QED
      BY <1>3, <2>1, <2>2, <2>3, <2>4, <2>5, <2>6, <2>7, <2>8, <2>9, <2>10, <2>11, <2>12, <2>13, <2>14, <2>15, <2>16, <2>17, <2>18
         DEF WorkerStep, Claim, Settle, Answer, WorkerFault
  <1>4. ASSUME ReaperStep PROVE DeadLettersAreFailed'
    <2>1. CASE ReapRead
      BY <2>1 DEF ReapRead, Stale, Locked
    <2>2. CASE ReapCommit
      BY <2>2 DEF ReapCommit, NoRows, Retried, GivenUp, Released
    <2>3. CASE ReapCrash
      BY <2>3 DEF ReapCrash, NoRows
    <2> QED
      BY <1>4, <2>1, <2>2, <2>3 DEF ReaperStep
  <1>5. CASE UNCHANGED vars
    BY <1>5 DEF vars
  <1> QED
    BY <1>1, <1>2, <1>3, <1>4, <1>5 DEF Next

LEMMA SafetyInit == Init => SafetyInv
  <1> SUFFICES ASSUME Init PROVE SafetyInv
    OBVIOUS
  <1>1. TypeOK
    BY TypeInit
  <1>2. \A w \in Workers : worker[w].pc = "idle"
    BY DEF Init, IdleWorker, Delivery
  <1>3. AttemptsAreBounded /\ RowShape
    BY QueueAssumption DEF Init, AttemptsAreBounded, RowShape, Exhausted
  <1>4. LocksProtect /\ DeadLettersAreFailed
    BY <1>2 DEF Init, LocksProtect, DeadLettersAreFailed, On, NoRows
  <1>5. AttemptIsFenced /\ LostIsLost
    BY <1>2 DEF AttemptIsFenced, LostIsLost, On
  <1> QED
    BY <1>1, <1>3, <1>4, <1>5 DEF SafetyInv

LEMMA SafetyStep == SafetyInv /\ [Next]_vars => SafetyInv'
  <1> SUFFICES ASSUME SafetyInv, [Next]_vars PROVE SafetyInv'
    OBVIOUS
  <1>1. TypeOK'
    BY TypeStep DEF SafetyInv
  <1>2. RowShape' /\ AttemptsAreBounded'
    BY RowMoves, RowStep DEF SafetyInv
  <1>3. LocksProtect' /\ AttemptIsFenced' /\ LostIsLost' /\ DeadLettersAreFailed'
    BY LocksStep, FenceStep, LostStep, DeadLetterStep DEF SafetyInv
  <1> QED
    BY <1>1, <1>2, <1>3 DEF SafetyInv

\* The safety invariant holds in every reachable state, with a lossy broker,
\* skewed clocks and a publisher that commits late.
THEOREM Safety == Spec => []SafetyInv
  BY SafetyInit, SafetyStep, PTL DEF Spec

\* No worker ever commits a result for an attempt that is not its own.
THEOREM AttemptsAreFenced == Spec => []AttemptIsFenced
  <1>1. SafetyInv => AttemptIsFenced
    BY DEF SafetyInv
  <1> QED
    BY <1>1, Safety, PTL

\* A worker that was told it lost its job does not own it again.
THEOREM LostStaysLost == Spec => []LostIsLost
  <1>1. SafetyInv => LostIsLost
    BY DEF SafetyInv
  <1> QED
    BY <1>1, Safety, PTL

\* No job is tried more often than allowed, or given up earlier.
THEOREM AttemptBound == Spec => []AttemptsAreBounded
  <1>1. SafetyInv => AttemptsAreBounded
    BY DEF SafetyInv
  <1> QED
    BY <1>1, Safety, PTL

\* Only failed jobs are dead-lettered.
THEOREM DeadLetters == Spec => []DeadLettersAreFailed
  <1>1. SafetyInv => DeadLettersAreFailed
    BY DEF SafetyInv
  <1> QED
    BY <1>1, Safety, PTL

\* Until something fails, every worker keeps the delivery it works on.
Connected == faults = 0 => \A w \in Workers : worker[w].held

\* A delivery is only lost by a fault.
LEMMA ConnectedStep == TypeOK /\ Connected /\ [Next]_vars => Connected'
  <1> SUFFICES ASSUME TypeOK, Connected, [Next]_vars PROVE Connected'
    OBVIOUS
  <1> USE DEF TypeOK, Connected
  <1>1. ASSUME NEW j \in Jobs, TimeStep(j) PROVE Connected'
    BY <1>1 DEF TimeStep, Tick, Lapse
  <1>2. ASSUME NEW p \in Publishers, PublisherStep(p) PROVE Connected'
    <2>1. worker' = worker
      BY <1>2, PublisherFrame
    <2>2. faults' = 0 => faults = 0
      BY <1>2, QueueAssumption
         DEF PublisherStep, SelectRows, Publish, PublishLost, PublishFails,
             CommitPublish, PublisherCrash, Fault
    <2> QED
      BY <2>1, <2>2
  <1>3. ASSUME NEW w \in Workers, NEW j \in Jobs, WorkerStep(w, j) PROVE Connected'
    <2>1. CASE Raise(w, j) \/ Disconnect(w, j) \/ Crash(w, j)
      BY <2>1, QueueAssumption DEF Raise, Disconnect, Crash, Fault
    <2>2. CASE Receive(w, j)
      BY <2>2 DEF Receive, Delivery
    <2>3. CASE Claim(w, j)
      <3>1. \A v \in Workers : worker'[v].held = worker[v].held
        <4>1. CASE ClaimRefused(w, j) \/ ClaimExhausted(w, j)
          BY <4>1 DEF ClaimRefused, ClaimExhausted, WorkerRecord
        <4>2. CASE ClaimGranted(w, j)
          BY <4>2 DEF ClaimGranted, WorkerRecord
        <4> QED
          BY <2>3, <4>1, <4>2 DEF Claim
      <3>2. faults' = faults
        BY <2>3 DEF Claim, ClaimRefused, ClaimExhausted, ClaimGranted
      <3> QED
        BY <3>1, <3>2
    <2>4. CASE HeartbeatOwned(w, j) \/ HeartbeatLost(w, j)
      BY <2>4 DEF HeartbeatOwned, HeartbeatLost, WorkerRecord
    <2>5. CASE Settle(w, j) \/ FailCommit(w, j)
      BY <2>5 DEF Settle, Abandon, Finish, ResultRefused, FailForGood, FailRead,
                  FailCommit, WorkerRecord
    <2>6. CASE Answer(w, j)
      BY <2>6 DEF Answer, Ack, Reject, AnswerFails, Exit, Answered, IdleWorker, Delivery
    <2> QED
      BY <1>3, <2>1, <2>2, <2>3, <2>4, <2>5, <2>6 DEF WorkerStep, WorkerFault
  <1>4. ASSUME ReaperStep PROVE Connected'
    BY <1>4, QueueAssumption DEF ReaperStep, ReapRead, ReapCommit, ReapCrash, Fault
  <1>5. CASE UNCHANGED vars
    BY <1>5 DEF vars
  <1> QED
    BY <1>1, <1>2, <1>3, <1>4, <1>5 DEF Next

\* What a worker has failed for good it rejects: only a fault keeps the message
\* from the dead letter queue.
LEMMA RejectedStep ==
  ASSUME SafetyInv, Connected, NEW v \in Workers, NEW i \in Jobs, WorkerStep(v, i),
         NEW w \in Workers, NEW j \in Jobs
  PROVE  /\ Owns(w, j) /\ job'[j].status = "failed" /\ worker' # worker
              => On(w, "reject", j)'
         /\ On(w, "reject", j)
              => On(w, "reject", j)' \/ j \in dlq' \/ faults' > 0
  <1> USE DEF SafetyInv, TypeOK, Connected, On, Owns
  <1>1. CASE Raise(v, i) \/ Disconnect(v, i) \/ Crash(v, i)
    <2>1. faults' > 0
      BY <1>1, QueueAssumption DEF Raise, Disconnect, Crash, Fault
    <2>2. job'[j].status = job[j].status
      BY <1>1 DEF Raise, Disconnect, Crash, Exit, JobRecord
    <2> QED
      BY <2>1, <2>2
  <1>2. CASE Receive(v, i)
    BY <1>2 DEF Receive, Delivery
  <1>3. CASE ClaimRefused(v, i)
    BY <1>3 DEF ClaimRefused
  <1>4. CASE ClaimExhausted(v, i)
    BY <1>4 DEF ClaimExhausted, Claimable, GivenUp, Released
  <1>5. CASE ClaimGranted(v, i)
    BY <1>5 DEF ClaimGranted, Claimable
  <1>6. CASE HeartbeatOwned(v, i) \/ HeartbeatLost(v, i)
    BY <1>6 DEF HeartbeatOwned, HeartbeatLost
  <1>7. CASE Abandon(v, i) \/ ResultRefused(v, i)
    BY <1>7 DEF Abandon, ResultRefused
  <1>8. CASE Finish(v, i)
    BY <1>8 DEF Finish, Released
  <1>9. CASE FailForGood(v, i)
    BY <1>9 DEF FailForGood, GivenUp, Released, WorkerRecord
  <1>10. CASE FailRead(v, i)
    BY <1>10 DEF FailRead
  <1>11. CASE FailCommit(v, i)
    BY <1>11 DEF FailCommit, Retried, Released
  <1>12. CASE Ack(v, i)
    BY <1>12 DEF Ack, Answered
  <1>13. CASE Reject(v, i)
    BY <1>13 DEF Reject, Answered
  <1>14. CASE AnswerFails(v, i)
    <2>1. faults' > 0
      BY <1>14, QueueAssumption DEF AnswerFails
    <2>2. job'[j].status = job[j].status
      BY <1>14 DEF AnswerFails, Exit, JobRecord
    <2> QED
      BY <2>1, <2>2
  <1> QED
    BY <1>1, <1>2, <1>3, <1>4, <1>5, <1>6, <1>7, <1>8, <1>9, <1>10, <1>11, <1>12,
       <1>13, <1>14 DEF WorkerStep, Claim, Settle, Answer, WorkerFault

\* A job that a worker fails for good is dead-lettered unless something fails.
THEOREM TerminalFailures == Spec => TerminalFailuresAreDeadLettered
  <1>1. Init => Connected
    BY DEF Init, Connected, IdleWorker, Delivery
  <1>2. SafetyInv => TypeOK
    BY DEF SafetyInv
  <1>3. ASSUME SafetyInv, Connected, [Next]_vars, NEW w \in Workers, NEW j \in Jobs
        PROVE  /\ Owns(w, j) /\ job'[j].status = "failed" /\ worker' # worker
                    => On(w, "reject", j)'
               /\ On(w, "reject", j)
                    => On(w, "reject", j)' \/ j \in dlq' \/ faults' > 0
    <2>1. CASE \E v \in Workers, i \in Jobs : WorkerStep(v, i)
      BY <1>3, <2>1, RejectedStep
    <2>2. CASE worker' = worker
      BY <2>2 DEF On
    <2>3. ASSUME NEW i \in Jobs, TimeStep(i) PROVE worker' = worker
      BY <2>3 DEF TimeStep, Tick, Lapse
    <2>4. ASSUME NEW p \in Publishers, PublisherStep(p) PROVE worker' = worker
      BY <2>4, PublisherFrame
    <2>5. ReaperStep \/ UNCHANGED vars => worker' = worker
      BY DEF ReaperStep, ReapRead, ReapCommit, ReapCrash, vars
    <2> QED
      BY <1>3, <2>1, <2>2, <2>3, <2>4, <2>5 DEF Next
  <1>4. SafetyInv /\ Connected /\ [Next]_vars =>
          [\A w \in Workers, j \in Jobs :
             /\ Owns(w, j) /\ job'[j].status = "failed" /\ worker' # worker
                   => On(w, "reject", j)'
             /\ On(w, "reject", j)
                   => On(w, "reject", j)' \/ j \in dlq' \/ faults' > 0]_vars
    BY <1>3
  <1> QED
    BY <1>1, <1>2, <1>4, ConnectedStep, Safety, PTL
       DEF Spec, TerminalFailuresAreDeadLettered

\* Row locks keep the reaper and a failing worker off each other's job.
THEOREM LocksAreKept == Spec => []LocksProtect
  <1>1. SafetyInv => LocksProtect
    BY DEF SafetyInv
  <1> QED
    BY <1>1, Safety, PTL

\* Done and failed jobs are never touched again.
THEOREM TerminalJobsAreStable == Spec => TerminalIsStable
  <1>1. ASSUME SafetyInv, [Next]_vars, NEW j \in Jobs,
               job[j].status \in {"done", "failed"}
        PROVE  job'[j] = job[j]
    BY <1>1, RowMoves, TerminalStays DEF SafetyInv
  <1>2. SafetyInv /\ [Next]_vars =>
          [\A j \in Jobs : job[j].status \in {"done", "failed"} => job'[j] = job[j]]_vars
    BY <1>1
  <1> QED
    BY <1>2, Safety, PTL DEF Spec, TerminalIsStable

-----------------------------------------------------------------------------
\* The queue implements the ledger.

Account == [j \in Jobs |-> [status |-> job[j].status, attempts |-> job[j].attempts]]

\* What a move of the row is in the ledger.
LEMMA MoveInLedger ==
  ASSUME TypeOK, NEW j \in Jobs, RowMove(j)
  PROVE  LET old == [status |-> job[j].status, attempts |-> job[j].attempts]
             new == [status |-> job'[j].status, attempts |-> job'[j].attempts]
         IN  \/ new = old
             \/ /\ old.status = "pending" /\ old.attempts < MaxAttempts[j]
                /\ new = [status |-> "running", attempts |-> old.attempts + 1]
             \/ /\ old.status = "running"
                /\ new = [status |-> "done", attempts |-> old.attempts]
             \/ /\ old.status = "running" /\ old.attempts < MaxAttempts[j]
                /\ new = [status |-> "pending", attempts |-> old.attempts]
             \/ /\ old.status \in {"pending", "running"}
                /\ old.attempts >= MaxAttempts[j]
                /\ new = [status |-> "failed", attempts |-> old.attempts]
  <1>1. job[j] \in JobRecord /\ MaxAttempts[j] \in Nat
    BY QueueAssumption DEF TypeOK
  <1> USE <1>1 DEF JobRecord
  <1>3. CASE job'[j] = job[j]
    BY <1>3
  <1>4. CASE job'[j] = [job[j] EXCEPT !.wait = @ - 1]
    BY <1>4
  <1>5. CASE \E b \in BOOLEAN : job'[j] = [job[j] EXCEPT !.stale = b]
    BY <1>5
  <1>6. CASE job'[j] = [job[j] EXCEPT !.owner = Gone]
    BY <1>6
  <1>7. CASE job[j].status = "running" /\ job'[j] = Released(j, "done", 0)
    BY <1>7 DEF Released
  <1>8. CASE job[j].status = "running" /\ ~Exhausted(j) /\ job'[j] = Retried(j)
    BY <1>8 DEF Released, Retried, Exhausted
  <1>9. CASE /\ job[j].status = "pending" /\ ~Exhausted(j)
             /\ \E w \in Workers : job'[j] = Started(j, w)
    BY <1>9 DEF Started, Exhausted
  <1>10. CASE /\ job[j].status \in {"pending", "running"} /\ Exhausted(j)
              /\ job'[j] = GivenUp(j)
    BY <1>10 DEF Released, GivenUp, Exhausted
  <1> QED
    BY <1>3, <1>4, <1>5, <1>6, <1>7, <1>8, <1>9, <1>10 DEF RowMove

\* Every behaviour of the queue, seen through status and attempt_count, is a
\* behaviour of the ledger.
THEOREM QueueImplementsLedger == Spec => ImplementsLedger
  <1>1. Init => Ledger!LedgerInit
    BY DEF Init, Ledger!LedgerInit, Ledger!Entry
  <1>2. SafetyInv /\ [Next]_vars => [Ledger!LedgerNext]_Account
    <2> SUFFICES ASSUME SafetyInv, [Next]_vars PROVE Ledger!LedgerNext
      OBVIOUS
    <2>1. \A j \in Jobs : RowMove(j)
      BY RowMoves DEF SafetyInv
    <2> QED
      BY <2>1, MoveInLedger
         DEF SafetyInv, Account, Ledger!LedgerNext, Ledger!JobStep, Ledger!Start,
             Ledger!Complete, Ledger!Retry, Ledger!GiveUp, Ledger!Entry
  <1> QED
    BY <1>1, <1>2, Safety, PTL DEF Spec, ImplementsLedger, Ledger!LedgerSpec, Account

-----------------------------------------------------------------------------
\* The queue implements the lease that the encoders rely on, for every job.

\* A worker that is at work has an attempt to work for.
HandsFull ==
    \A w \in Workers, j \in Jobs :
        (\E pc \in {"processing", "lost", "failing"} : On(w, pc, j))
            => worker[w].attempt # 0

Hands(j) == [w \in Workers |-> At(w, j)]

LEMMA HandsFullStep ==
  ASSUME TypeOK, HandsFull, [Next]_vars
  PROVE  HandsFull'
  <1> USE DEF TypeOK, HandsFull, On
  <1>1. ASSUME NEW j \in Jobs, TimeStep(j) PROVE HandsFull'
    BY <1>1 DEF TimeStep, Tick, Lapse
  <1>2. ASSUME NEW p \in Publishers, PublisherStep(p) PROVE HandsFull'
    BY <1>2, PublisherFrame
  <1>3. ASSUME NEW w \in Workers, NEW j \in Jobs, WorkerStep(w, j) PROVE HandsFull'
    <2>1. CASE Receive(w, j)
      BY <2>1 DEF Receive, Delivery
    <2>2. CASE ClaimRefused(w, j)
      BY <2>2 DEF ClaimRefused
    <2>3. CASE ClaimExhausted(w, j)
      BY <2>3 DEF ClaimExhausted
    <2>4. CASE ClaimGranted(w, j)
      <3>1. job[j].attempts \in Nat
        BY DEF JobRecord
      <3>2. job[j].attempts + 1 # 0
        BY <3>1
      <3> QED
        BY <2>4, <3>2 DEF ClaimGranted
    <2>5. CASE HeartbeatOwned(w, j)
      BY <2>5 DEF HeartbeatOwned
    <2>6. CASE HeartbeatLost(w, j)
      BY <2>6 DEF HeartbeatLost
    <2>7. CASE Abandon(w, j)
      BY <2>7 DEF Abandon
    <2>8. CASE ResultRefused(w, j)
      BY <2>8 DEF ResultRefused
    <2>9. CASE Finish(w, j)
      BY <2>9 DEF Finish
    <2>10. CASE FailForGood(w, j)
      BY <2>10 DEF FailForGood
    <2>11. CASE FailRead(w, j)
      BY <2>11 DEF FailRead
    <2>12. CASE FailCommit(w, j)
      BY <2>12 DEF FailCommit
    <2>13. CASE Ack(w, j) \/ Reject(w, j) \/ Raise(w, j)
      BY <2>13 DEF Ack, Reject, Raise, Answered, IdleWorker, Delivery
    <2>14. CASE AnswerFails(w, j) \/ Crash(w, j)
      BY <2>14 DEF AnswerFails, Crash, Exit, IdleWorker, Delivery
    <2>15. CASE Disconnect(w, j)
      BY <2>15 DEF Disconnect
    <2> QED
      BY <1>3, <2>1, <2>2, <2>3, <2>4, <2>5, <2>6, <2>7, <2>8,
         <2>9, <2>10, <2>11, <2>12, <2>13, <2>14, <2>15
         DEF WorkerStep, Claim, Settle, Answer, WorkerFault
  <1>4. ASSUME ReaperStep PROVE HandsFull'
    BY <1>4 DEF ReaperStep, ReapRead, ReapCommit, ReapCrash
  <1>5. CASE UNCHANGED vars
    BY <1>5 DEF vars
  <1> QED
    BY <1>1, <1>2, <1>3, <1>4, <1>5 DEF Next

\* What a step of one worker does to who is at work on a job.
LEMMA HandsMove ==
  ASSUME TypeOK, NEW w \in Workers, NEW j \in Jobs,
         \A v \in Workers : v # w => worker'[v] = worker[v]
  PROVE  Hands(j)' = [Hands(j) EXCEPT ![w] = At(w, j)']
  <1>1. \A v \in Workers : v # w => At(v, j)' = At(v, j)
    BY DEF At, On
  <1> QED
    BY <1>1 DEF Hands

LEMMA AtWork ==
  ASSUME NEW w \in Workers, NEW j \in Jobs
  PROVE  /\ worker[w].job # j => At(w, j) = 0
         /\ worker[w].pc \notin {"processing", "lost", "failing"} => At(w, j) = 0
         /\ /\ worker[w].job = j
            /\ worker[w].pc \in {"processing", "lost", "failing"}
            => At(w, j) = worker[w].attempt
  BY DEF At, On

\* A job's view of a step: its row and its hands.
Aside(j) == /\ job'[j].status = job[j].status
            /\ job'[j].owner = job[j].owner
            /\ job'[j].attempts = job[j].attempts

LEMMA LeaseStutters ==
  ASSUME NEW j \in Jobs, Aside(j), Hands(j)' = Hands(j)
  PROVE  UNCHANGED Lease(j)!leaseVars
  BY DEF Aside, Hands, Lease!leaseVars

LEMMA LeaseLeaves ==
  ASSUME TypeOK, NEW w \in Workers, NEW j \in Jobs, Aside(j),
         \A v \in Workers : v # w => worker'[v] = worker[v],
         \/ worker'[w].job # j
         \/ worker'[w].pc \notin {"processing", "lost", "failing"}
  PROVE  Lease(j)!LeaseNext
  <1>1. At(w, j)' = 0
    BY DEF At, On
  <1>2. Hands(j)' = [Hands(j) EXCEPT ![w] = 0]
    BY <1>1, HandsMove
  <1>3. Lease(j)!Leave(w)
    BY <1>2 DEF Aside, Hands, Lease!Leave, Lease!Ends
  <1> QED
    BY <1>3 DEF Lease!LeaseNext

\* The release of a job by its last owner or by the reaper.
LEMMA Releases ==
  ASSUME TypeOK, NEW j \in Jobs,
         job'[j] = IF Exhausted(j) THEN GivenUp(j) ELSE Retried(j)
  PROVE  Lease(j)!Release
  <1>1. job[j] \in JobRecord /\ job[j].attempts \in Nat /\ MaxAttempts[j] \in Nat
    BY QueueAssumption DEF TypeOK, JobRecord
  <1>2. job'[j].owner = None /\ job'[j].attempts = job[j].attempts
    BY <1>1 DEF GivenUp, Retried, Released, JobRecord
  <1>3. job'[j].status = IF Exhausted(j) THEN "failed" ELSE "pending"
    BY <1>1 DEF GivenUp, Retried, Released, JobRecord
  <1>4. Exhausted(j) <=> ~(job[j].attempts < MaxAttempts[j])
    BY <1>1 DEF Exhausted
  <1> QED
    BY <1>2, <1>3, <1>4 DEF Lease!Release

\* A worker at work on a job it owns, whose attempt ends.
LEMMA OwnerEnds ==
  ASSUME TypeOK, HandsFull, NEW w \in Workers, NEW j \in Jobs,
         On(w, "processing", j) \/ On(w, "failing", j), Owns(w, j),
         \A v \in Workers : v # w => worker'[v] = worker[v],
         worker'[w].pc \in {"ack", "reject"}
  PROVE  Hands(j)[w] # 0 /\ Lease(j)!Owns(w) /\ Lease(j)!Ends(w)
  <1>1. At(w, j) # 0
    BY AtWork DEF On, HandsFull
  <1>2. At(w, j)' = 0
    BY DEF At, On
  <1>3. Hands(j)' = [Hands(j) EXCEPT ![w] = 0]
    BY <1>2, HandsMove
  <1>4. Lease(j)!Ends(w)
    BY <1>3 DEF Hands, Lease!Ends
  <1>5. Lease(j)!Owns(w)
    BY DEF Owns, Lease!Owns
  <1> QED
    BY <1>1, <1>4, <1>5 DEF Hands

\* The steps of a worker, seen by one job.
LEMMA WorkerLease ==
  ASSUME TypeOK, LocksProtect, HandsFull, NEW w \in Workers, NEW j \in Jobs,
         WorkerStep(w, j), NEW i \in Jobs
  PROVE  [Lease(i)!LeaseNext]_(Lease(i)!leaseVars)
  <1> DEFINE Goal == [Lease(i)!LeaseNext]_(Lease(i)!leaseVars)
             Others == \A v \in Workers : v # w => worker'[v] = worker[v]
  <1>0. job[i] \in JobRecord /\ worker[w] \in WorkerRecord
    BY DEF TypeOK
  <1>1. CASE \/ Receive(w, j) \/ ClaimRefused(w, j) \/ Abandon(w, j) \/ ResultRefused(w, j)
             \/ Ack(w, j) \/ Reject(w, j) \/ Raise(w, j)
    <2>1. job' = job /\ Others
      BY <1>1 DEF Receive, ClaimRefused, Abandon, ResultRefused, Ack, Reject, Raise,
                  Answered, TypeOK
    <2>2. worker'[w].pc \in {"claim", "ack", "idle"}
      BY <1>1 DEF Receive, ClaimRefused, Abandon, ResultRefused, Ack, Reject, Raise,
                  Answered, TypeOK, IdleWorker, Delivery, WorkerRecord
    <2> QED
      BY <2>1, <2>2, LeaseLeaves DEF Aside
  <1>2. CASE HeartbeatOwned(w, j) \/ HeartbeatLost(w, j) \/ FailRead(w, j) \/ Disconnect(w, j)
    <2>1. Aside(i)
      BY <1>0, <1>2 DEF HeartbeatOwned, HeartbeatLost, FailRead, Disconnect, TypeOK,
                        JobRecord, Aside
    <2>2. At(w, i)' = At(w, i)
      BY <1>0, <1>2 DEF HeartbeatOwned, HeartbeatLost, FailRead, Disconnect, TypeOK,
                        WorkerRecord, At, On
    <2>3. Others
      BY <1>2 DEF HeartbeatOwned, HeartbeatLost, FailRead, Disconnect, TypeOK
    <2>4. Hands(i)' = Hands(i)
      BY <2>2, <2>3, HandsMove DEF Hands
    <2> QED
      BY <2>1, <2>4, LeaseStutters
  <1>3. CASE i # j /\ \/ ClaimExhausted(w, j) \/ ClaimGranted(w, j) \/ Finish(w, j)
                      \/ FailForGood(w, j) \/ FailCommit(w, j)
    <2>1. Aside(i) /\ Others
      BY <1>3 DEF ClaimExhausted, ClaimGranted, Finish, FailForGood, FailCommit, TypeOK,
                  Aside
    <2>2. worker'[w].job # i
      BY <1>0, <1>3 DEF ClaimExhausted, ClaimGranted, Finish, FailForGood, FailCommit,
                        TypeOK, On, WorkerRecord
    <2> QED
      BY <2>1, <2>2, LeaseLeaves
  <1>4. CASE i = j /\ ClaimExhausted(w, j)
    <2>1. job'[i] = GivenUp(i) /\ Exhausted(i) /\ job[i].status = "pending"
      BY <1>4 DEF ClaimExhausted, Claimable, TypeOK
    <2>2. Lease(i)!Release
      BY <2>1, Releases
    <2>3. At(w, i)' = At(w, i) /\ Others
      BY <1>0, <1>4 DEF ClaimExhausted, TypeOK, WorkerRecord, At, On
    <2>4. Hands(i)' = Hands(i)
      BY <2>3, HandsMove DEF Hands
    <2>5. Lease(i)!Withdraw
      BY <2>1, <2>2, <2>4 DEF Lease!Withdraw, Hands, Exhausted
    <2> QED
      BY <2>5 DEF Lease!LeaseNext
  <1>5. CASE i = j /\ ClaimGranted(w, j)
    <2>1. /\ job[i].status = "pending" /\ ~Exhausted(i)
          /\ job'[i].status = "running" /\ job'[i].owner = w
          /\ job'[i].attempts = job[i].attempts + 1
      BY <1>5 DEF ClaimGranted, Claimable, TypeOK
    <2>2. job[i].attempts < MaxAttempts[i]
      BY <1>0, <2>1, QueueAssumption DEF Exhausted, JobRecord
    <2>3. At(w, i) = 0 /\ At(w, i)' = job[i].attempts + 1 /\ Others
      BY <1>0, <1>5 DEF ClaimGranted, TypeOK, WorkerRecord, At, On
    <2>4. Hands(i)' = [Hands(i) EXCEPT ![w] = job[i].attempts + 1]
      BY <2>3, HandsMove
    <2>5. Lease(i)!Take(w)
      BY <2>1, <2>2, <2>3, <2>4 DEF Lease!Take, Hands
    <2> QED
      BY <2>5 DEF Lease!LeaseNext
  <1>6. CASE i = j /\ Finish(w, j)
    <2>1. /\ job'[i].status = "done" /\ job'[i].owner = None
          /\ job'[i].attempts = job[i].attempts
      BY <1>0, <1>6 DEF Finish, Released, TypeOK, JobRecord
    <2>2. Hands(i)[w] # 0 /\ Lease(i)!Owns(w) /\ Lease(i)!Ends(w)
      BY <1>0, <1>6, OwnerEnds DEF Finish, TypeOK, WorkerRecord
    <2>3. Lease(i)!Settle(w, "done")
      BY <2>1, <2>2 DEF Lease!Settle, Hands
    <2> QED
      BY <2>3 DEF Lease!LeaseNext
  <1>7. CASE i = j /\ (FailForGood(w, j) \/ FailCommit(w, j))
    <2>1. Owns(w, i) /\ (On(w, "processing", i) \/ On(w, "failing", i))
      BY <1>7 DEF FailForGood, FailCommit, LocksProtect
    <2>2. job'[i] = IF Exhausted(i) THEN GivenUp(i) ELSE Retried(i)
      BY <1>7 DEF FailForGood, FailCommit, LocksProtect, TypeOK
    <2>3. worker'[w].pc \in {"ack", "reject"} /\ Others
      BY <1>0, <1>7 DEF FailForGood, FailCommit, TypeOK, WorkerRecord
    <2>4. Hands(i)[w] # 0 /\ Lease(i)!Owns(w) /\ Lease(i)!Ends(w)
      BY <2>1, <2>3, OwnerEnds
    <2>5. Lease(i)!Release
      BY <2>2, Releases
    <2>6. Lease(i)!Fail(w)
      BY <2>4, <2>5 DEF Lease!Fail, Hands
    <2> QED
      BY <2>6 DEF Lease!LeaseNext
  <1>8. CASE AnswerFails(w, j) \/ Crash(w, j)
    <2>1. Exit(w)
      BY <1>8 DEF AnswerFails, Crash
    <2>2. /\ job'[i].owner = IF job[i].owner = w THEN Gone ELSE job[i].owner
          /\ job'[i].status = job[i].status /\ job'[i].attempts = job[i].attempts
      BY <1>0, <2>1 DEF Exit, JobRecord
    <2>3. Others /\ At(w, i)' = 0
      BY <2>1 DEF Exit, TypeOK, At, On, IdleWorker, Delivery
    <2>4. Hands(i)' = [Hands(i) EXCEPT ![w] = 0]
      BY <2>3, HandsMove
    <2>5. Lease(i)!Die(w)
      BY <2>2, <2>4 DEF Lease!Die, Lease!Ends, Hands
    <2> QED
      BY <2>5 DEF Lease!LeaseNext
  <1> QED
    BY <1>1, <1>2, <1>3, <1>4, <1>5, <1>6, <1>7, <1>8
       DEF WorkerStep, Claim, Settle, Answer, WorkerFault

\* The reaper withdraws the jobs it locked, which are running.
LEMMA ReaperLease ==
  ASSUME TypeOK, LocksProtect, ReaperStep, NEW i \in Jobs
  PROVE  [Lease(i)!LeaseNext]_(Lease(i)!leaseVars)
  <1>1. Hands(i)' = Hands(i)
    BY DEF ReaperStep, ReapRead, ReapCommit, ReapCrash, Hands, At, On
  <1>2. CASE ReapRead \/ ReapCrash \/ reaper[i] = "none"
    <2>1. Aside(i)
      BY <1>2 DEF ReaperStep, ReapRead, ReapCommit, ReapCrash, Aside
    <2> QED
      BY <1>1, <2>1, LeaseStutters
  <1>3. CASE ReapCommit /\ reaper[i] # "none"
    <2>1. job'[i] = IF Exhausted(i) THEN GivenUp(i) ELSE Retried(i)
      BY <1>3 DEF ReapCommit
    <2>2. job[i].status = "running"
      BY <1>3 DEF LocksProtect
    <2>3. Lease(i)!Release
      BY <2>1, Releases
    <2>4. Lease(i)!Withdraw
      BY <1>1, <2>2, <2>3 DEF Lease!Withdraw, Hands
    <2> QED
      BY <2>4 DEF Lease!LeaseNext
  <1> QED
    BY <1>2, <1>3 DEF ReaperStep

LEMMA LeaseStep ==
  ASSUME TypeOK, LocksProtect, HandsFull, [Next]_vars, NEW i \in Jobs
  PROVE  [Lease(i)!LeaseNext]_(Lease(i)!leaseVars)
  <1>1. ASSUME NEW j \in Jobs, TimeStep(j)
         PROVE  [Lease(i)!LeaseNext]_(Lease(i)!leaseVars)
    <2>1. job[i] \in JobRecord
      BY DEF TypeOK
    <2>2. \/ job' = [job EXCEPT ![j].wait = @ - 1]
          \/ job' = [job EXCEPT ![j].stale = TRUE]
      BY <1>1 DEF TimeStep, Tick, Lapse
    <2>3. Aside(i)
      <3>1. CASE i # j
        BY <2>2, <3>1 DEF Aside, TypeOK
      <3>2. CASE i = j
        <4>1. \/ job'[i] = [job[i] EXCEPT !.wait = @ - 1]
              \/ job'[i] = [job[i] EXCEPT !.stale = TRUE]
          BY <2>2, <3>2 DEF TypeOK
        <4> QED
          BY <2>1, <4>1 DEF JobRecord, Aside
      <3> QED
        BY <3>1, <3>2
    <2>4. Hands(i)' = Hands(i)
      BY <1>1 DEF TimeStep, Tick, Lapse, Hands, At, On
    <2> QED
      BY <2>3, <2>4, LeaseStutters
  <1>2. ASSUME NEW p \in Publishers, PublisherStep(p)
         PROVE  [Lease(i)!LeaseNext]_(Lease(i)!leaseVars)
    <2>1. Aside(i) /\ Hands(i)' = Hands(i)
      BY <1>2, PublisherFrame DEF Aside, Hands, At, On
    <2> QED
      BY <2>1, LeaseStutters
  <1>3. CASE UNCHANGED vars
    <2>1. Aside(i) /\ Hands(i)' = Hands(i)
      BY <1>3 DEF vars, Aside, Hands, At, On
    <2> QED
      BY <2>1, LeaseStutters
  <1> QED
    BY <1>1, <1>2, <1>3, WorkerLease, ReaperLease DEF Next

\* Every behaviour of the queue is, for each of its jobs, a behaviour of the
\* lease: what HlsOutput assumes of the queue is what the queue does.
THEOREM QueueImplementsLease == Spec => ImplementsLease
  <1>1. Init => HandsFull
    BY DEF Init, HandsFull, On, IdleWorker, Delivery
  <1>2. SafetyInv /\ HandsFull /\ [Next]_vars => HandsFull'
    BY HandsFullStep DEF SafetyInv
  <1>3. Init => \A j \in Jobs : Lease(j)!LeaseInit
    <2> SUFFICES ASSUME Init, NEW j \in Jobs PROVE Lease(j)!LeaseInit
      OBVIOUS
    <2>1. \A w \in Workers : At(w, j) = 0
      BY DEF Init, At, On, IdleWorker, Delivery
    <2> QED
      BY <2>1 DEF Init, Lease!LeaseInit
  <1>4. SafetyInv /\ HandsFull /\ [Next]_vars =>
          [\A j \in Jobs : [Lease(j)!LeaseNext]_(Lease(j)!leaseVars)]_vars
    BY LeaseStep DEF SafetyInv
  <1> QED
    BY <1>1, <1>2, <1>3, <1>4, Safety, PTL DEF Spec, ImplementsLease

=============================================================================
