----------------------------- MODULE JobQueue -----------------------------
(***************************************************************************)
(* The encoding job queue of rendition: the jobs and outbox tables of      *)
(* PostgreSQL, the outbox publishers, RabbitMQ, the encoding workers and   *)
(* the reaper of stale jobs.                                               *)
(*                                                                         *)
(* Transactions are READ COMMITTED.  A transaction that takes the row lock *)
(* of a job, decides and commits touching nothing else is one action.  One *)
(* that also reads a row it has not locked (the outbox row of a job that   *)
(* is to be retried) is two, because the publisher can commit in between.  *)
(* The ORM writes a column at commit only if its value differs from the    *)
(* value it read: that is what `seen' and `reaper' remember.               *)
(***************************************************************************)
EXTENDS Naturals, Sequences, FiniteSets

CONSTANTS
    Jobs, Workers, Publishers,
    MaxAttempts,   \* job -> its max_attempts column
    Backoffs,      \* JOB_RETRY_BACKOFF_SECONDS, in ticks
    None,          \* NULL
    Gone,          \* any worker_id of a process that no longer exists
    MaxFaults,     \* bound on crashes, lost connections and failed calls
    ClockSkew,     \* ticks by which a publisher's clock may run ahead
    LossyBroker,   \* may RabbitMQ lose a message that was not confirmed?
    PromptCommit   \* does a publisher commit before the job can fail?

ASSUME QueueAssumption ==
    /\ MaxAttempts \in [Jobs -> Nat]
    /\ Backoffs \in Seq(Nat) /\ Len(Backoffs) > 0
    /\ None \notin Workers /\ Gone \notin Workers /\ None # Gone /\ None \notin Jobs
    /\ MaxFaults \in Nat /\ ClockSkew \in Nat
    /\ LossyBroker \in BOOLEAN /\ PromptCommit \in BOOLEAN

VARIABLES
    job,      \* jobs table: status, worker_id, attempt_count, next_run_at as
              \* the ticks until it is due, and whether heartbeat_at is stale
    outbox,   \* outbox_messages table: the status of each job's message
    queue,    \* how many messages for each job RabbitMQ holds ready
    dlq,      \* the jobs with a message in the dead letter queue
    tx,       \* each publisher's open transaction: what it did to each row
    worker,   \* each worker process
    reaper,   \* the reaper's open transaction: the outbox status it read
    faults    \* faults so far (bounded by MaxFaults)

vars == <<job, outbox, queue, dlq, tx, worker, reaper, faults>>

NoRows == [j \in Jobs |-> "none"]
\* A process that holds a delivery: held says the broker still counts it as
\* unacknowledged here, attempt belongs to the claim it made, seen is the
\* outbox status its failing transaction read.
Delivery(pc, j) == [pc |-> pc, job |-> j, held |-> TRUE,
                    attempt |-> 0, seen |-> "none"]

IdleWorker == Delivery("idle", None)

JobStatus    == {"pending", "running", "done", "failed"}
OutboxStatus == {"pending", "published"}
WorkerPC     == {"idle", "claim", "processing", "lost", "failing", "ack", "reject"}

JobRecord == [status: JobStatus, owner: Workers \cup {None, Gone},
              attempts: Nat, wait: Nat, stale: BOOLEAN]

WorkerRecord == [pc: WorkerPC, job: Jobs \cup {None}, held: BOOLEAN,
                 attempt: Nat, seen: OutboxStatus \cup {"none"}]

TypeOK ==
    /\ job \in [Jobs -> JobRecord]
    /\ outbox \in [Jobs -> OutboxStatus]
    /\ queue \in [Jobs -> Nat]
    /\ dlq \subseteq Jobs
    /\ tx \in [Publishers -> [Jobs -> {"none", "selected", "sent", "failed"}]]
    /\ worker \in [Workers -> WorkerRecord]
    /\ reaper \in [Jobs -> OutboxStatus \cup {"none"}]
    /\ faults \in 0..MaxFaults

Init ==
    /\ job = [j \in Jobs |-> [status |-> "pending", owner |-> None,
                              attempts |-> 0, wait |-> 0, stale |-> FALSE]]
    /\ outbox = [j \in Jobs |-> "pending"]
    /\ queue = [j \in Jobs |-> 0]
    /\ dlq = {}
    /\ tx = [p \in Publishers |-> NoRows]
    /\ worker = [w \in Workers |-> IdleWorker]
    /\ reaper = NoRows
    /\ faults = 0

-----------------------------------------------------------------------------
\* Helpers.

On(w, pc, j) == worker[w].pc = pc /\ worker[w].job = j
Busy(w, j)   == worker[w].pc # "idle" /\ worker[w].job = j

\* Row locks: a failing worker and the reaper hold jobs rows, an open
\* publisher transaction holds the outbox rows it selected.
Locked(j)    == reaper[j] # "none" \/ \E w \in Workers : On(w, "failing", j)
RowLocked(j) == \E p \in Publishers : tx[p][j] # "none"

\* PromptCommit is the only use of this guard; the code has no such lock.
OutboxSettled(j) == PromptCommit => ~RowLocked(j)

\* Mutant of Owns: worker_id is not compared.
OwnsAnyRun(w, j) == job[j].status = "running"

Owns(w, j) == job[j].status = "running" /\ job[j].owner = w

Claimable(j) == job[j].status = "pending" /\ job[j].wait = 0

Exhausted(j) == job[j].attempts >= MaxAttempts[j]

RetryBackoff(n) ==
    LET i == IF n = 0 THEN 1 ELSE n
    IN  Backoffs[IF i > Len(Backoffs) THEN Len(Backoffs) ELSE i]

\* A row that nobody owns: worker_id and heartbeat_at are cleared.
Released(j, s, wait) ==
    [job[j] EXCEPT !.status = s, !.owner = None, !.wait = wait, !.stale = FALSE]

Retried(j) == Released(j, "pending", RetryBackoff(job[j].attempts))
GivenUp(j) == Released(j, "failed", 0)

\* Mutant of Requeued: the outbox row of a retried job is not reset.
RequeuedNever(j, s) == outbox[j]

\* _queue_job_for_publish, given the outbox status s the transaction read: a
\* row read as pending is assigned pending, which writes nothing.
Requeued(j, s) == IF s = "published" THEN "pending" ELSE outbox[j]

Fault == faults < MaxFaults /\ faults' = faults + 1

-----------------------------------------------------------------------------
\* Time.

\* Mutant of Tick: the delay goes on counting below zero.
TickOver(j) ==
    /\ job[j].status = "pending"
    /\ job' = [job EXCEPT ![j].wait = @ - 1]
    /\ UNCHANGED <<outbox, queue, dlq, tx, worker, reaper, faults>>

\* next_run_at comes one tick nearer.
Tick(j) ==
    /\ job[j].wait > 0
    /\ job' = [job EXCEPT ![j].wait = @ - 1]
    /\ UNCHANGED <<outbox, queue, dlq, tx, worker, reaper, faults>>

\* heartbeat_at falls behind JOB_STALE_TIMEOUT_SECONDS, whatever the reason:
\* the process is gone, or its heartbeats are late or fail.
Lapse(j) ==
    /\ job[j].status = "running"
    /\ ~job[j].stale
    /\ job' = [job EXCEPT ![j].stale = TRUE]
    /\ UNCHANGED <<outbox, queue, dlq, tx, worker, reaper, faults>>

-----------------------------------------------------------------------------
\* publish_pending_outbox_messages, run by the outbox process and by the API
\* right after an upload completes.  A batch is some of the eligible rows: the
\* limit, the ids the API names and SKIP LOCKED leave others out.

Eligible(j) ==
    /\ outbox[j] = "pending"
    /\ job[j].status = "pending"
    /\ job[j].wait <= ClockSkew
    /\ ~RowLocked(j)

SelectRows(p) ==
    /\ tx[p] = NoRows
    /\ \E S \in SUBSET {j \in Jobs : Eligible(j)} :
          /\ S # {}
          /\ tx' = [tx EXCEPT ![p] =
                      [j \in Jobs |-> IF j \in S THEN "selected" ELSE "none"]]
    /\ UNCHANGED <<job, outbox, queue, dlq, worker, reaper, faults>>

\* basic_publish returns; the row is marked in memory only.
Publish(p, j) ==
    /\ tx[p][j] = "selected"
    /\ tx' = [tx EXCEPT ![p][j] = "sent"]
    /\ queue' = [queue EXCEPT ![j] = @ + 1]
    /\ UNCHANGED <<job, outbox, dlq, worker, reaper, faults>>

\* basic_publish returns, and the broker, which was never asked for a
\* confirm, loses the message.
PublishLost(p, j) ==
    /\ LossyBroker
    /\ tx[p][j] = "selected"
    /\ Fault
    /\ tx' = [tx EXCEPT ![p][j] = "sent"]
    /\ UNCHANGED <<job, outbox, queue, dlq, worker, reaper>>

\* The connection or basic_publish raises: the row stays pending.
PublishFails(p, j) ==
    /\ tx[p][j] = "selected"
    /\ Fault
    /\ tx' = [tx EXCEPT ![p][j] = "failed"]
    /\ UNCHANGED <<job, outbox, queue, dlq, worker, reaper>>

CommitPublish(p) ==
    /\ tx[p] # NoRows
    /\ \A j \in Jobs : tx[p][j] # "selected"
    /\ outbox' = [j \in Jobs |->
                    IF tx[p][j] = "sent" THEN "published" ELSE outbox[j]]
    /\ tx' = [tx EXCEPT ![p] = NoRows]
    /\ UNCHANGED <<job, queue, dlq, worker, reaper, faults>>

\* The process dies with its transaction: what it sent stays sent.
PublisherCrash(p) ==
    /\ tx[p] # NoRows
    /\ Fault
    /\ tx' = [tx EXCEPT ![p] = NoRows]
    /\ UNCHANGED <<job, outbox, queue, dlq, worker, reaper>>

-----------------------------------------------------------------------------
\* A worker: one delivery at a time (handle_delivery blocks the consumer).

Receive(w, j) ==
    /\ worker[w].pc = "idle"
    /\ queue[j] > 0
    /\ queue' = [queue EXCEPT ![j] = @ - 1]
    /\ worker' = [worker EXCEPT ![w] = Delivery("claim", j)]
    /\ UNCHANGED <<job, outbox, dlq, tx, reaper, faults>>

\* claim_encoding_job: a job that is not pending or not due is acknowledged.
ClaimRefused(w, j) ==
    /\ On(w, "claim", j)
    /\ ~Locked(j)
    /\ ~Claimable(j)
    /\ worker' = [worker EXCEPT ![w].pc = "ack"]
    /\ UNCHANGED <<job, outbox, queue, dlq, tx, reaper, faults>>

ClaimExhausted(w, j) ==
    /\ On(w, "claim", j)
    /\ ~Locked(j)
    /\ Claimable(j) /\ Exhausted(j)
    /\ job' = [job EXCEPT ![j] = GivenUp(j)]
    /\ worker' = [worker EXCEPT ![w].pc = "ack"]
    /\ UNCHANGED <<outbox, queue, dlq, tx, reaper, faults>>

ClaimGranted(w, j) ==
    /\ On(w, "claim", j)
    /\ ~Locked(j)
    /\ Claimable(j) /\ ~Exhausted(j)
    /\ job' = [job EXCEPT ![j] =
                [status |-> "running", owner |-> w, attempts |-> @.attempts + 1,
                 wait |-> 0, stale |-> FALSE]]
    /\ worker' = [worker EXCEPT ![w].pc = "processing",
                                ![w].attempt = job[j].attempts + 1]
    /\ UNCHANGED <<outbox, queue, dlq, tx, reaper, faults>>

\* heartbeat_encoding_job, from the heartbeat thread or from the ownership
\* check before an upload: refreshed if owned, otherwise ownership is lost.
HeartbeatOwned(w, j) ==
    /\ On(w, "processing", j)
    /\ ~Locked(j)
    /\ Owns(w, j)
    /\ job' = [job EXCEPT ![j].stale = FALSE]
    /\ UNCHANGED <<outbox, queue, dlq, tx, worker, reaper, faults>>

\* Mutant of HeartbeatLost: a heartbeat that fails counts as lost ownership.
HeartbeatGivesUp(w, j) ==
    /\ On(w, "processing", j)
    /\ ~Locked(j)
    /\ worker' = [worker EXCEPT ![w].pc = "lost"]
    /\ UNCHANGED <<job, outbox, queue, dlq, tx, reaper, faults>>

HeartbeatLost(w, j) ==
    /\ On(w, "processing", j)
    /\ ~Locked(j)
    /\ ~Owns(w, j)
    /\ worker' = [worker EXCEPT ![w].pc = "lost"]
    /\ UNCHANGED <<job, outbox, queue, dlq, tx, reaper, faults>>

\* EncodingJobOwnershipLost, a result dropped because of lost_ownership, or
\* a failure whose transaction finds another owner: all end in an ack.
Abandon(w, j) ==
    /\ On(w, "lost", j)
    /\ worker' = [worker EXCEPT ![w].pc = "ack"]
    /\ UNCHANGED <<job, outbox, queue, dlq, tx, reaper, faults>>

\* Mutant of Finish: the ownership test is forgotten.
FinishUnowned(w, j) ==
    /\ On(w, "processing", j)
    /\ ~Locked(j)
    /\ job' = [job EXCEPT ![j] = Released(j, "done", 0)]
    /\ worker' = [worker EXCEPT ![w].pc = "ack"]
    /\ UNCHANGED <<outbox, queue, dlq, tx, reaper, faults>>

\* mark_encoding_job_succeeded and mark_encoding_job_skipped.
Finish(w, j) ==
    /\ On(w, "processing", j)
    /\ ~Locked(j)
    /\ Owns(w, j)
    /\ job' = [job EXCEPT ![j] = Released(j, "done", 0)]
    /\ worker' = [worker EXCEPT ![w].pc = "ack"]
    /\ UNCHANGED <<outbox, queue, dlq, tx, reaper, faults>>

\* Any of the three mark_ transactions of a worker that no longer owns the job.
ResultRefused(w, j) ==
    /\ On(w, "processing", j)
    /\ ~Locked(j)
    /\ ~Owns(w, j)
    /\ worker' = [worker EXCEPT ![w].pc = "ack"]
    /\ UNCHANGED <<job, outbox, queue, dlq, tx, reaper, faults>>

\* mark_encoding_job_failed without attempts left: one transaction.
FailForGood(w, j) ==
    /\ On(w, "processing", j)
    /\ ~Locked(j)
    /\ Owns(w, j) /\ Exhausted(j)
    /\ job' = [job EXCEPT ![j] = GivenUp(j)]
    /\ worker' = [worker EXCEPT ![w].pc = "reject"]
    /\ UNCHANGED <<outbox, queue, dlq, tx, reaper, faults>>

\* mark_encoding_job_failed with attempts left: it locks the job, reads the
\* outbox row without a lock ...
FailRead(w, j) ==
    /\ On(w, "processing", j)
    /\ ~Locked(j)
    /\ Owns(w, j) /\ ~Exhausted(j)
    /\ OutboxSettled(j)
    /\ worker' = [worker EXCEPT ![w].pc = "failing", ![w].seen = outbox[j]]
    /\ UNCHANGED <<job, outbox, queue, dlq, tx, reaper, faults>>

\* Mutant of FailCommit: every failure is rejected, not only the last.
FailCommitRejects(w, j) ==
    /\ On(w, "failing", j)
    /\ job' = [job EXCEPT ![j] = Retried(j)]
    /\ outbox' = [outbox EXCEPT ![j] = Requeued(j, worker[w].seen)]
    /\ worker' = [worker EXCEPT ![w].pc = "reject"]
    /\ UNCHANGED <<queue, dlq, tx, reaper, faults>>

\* ... and commits what it changed.
FailCommit(w, j) ==
    /\ On(w, "failing", j)
    /\ job' = [job EXCEPT ![j] = Retried(j)]
    /\ outbox' = [outbox EXCEPT ![j] = Requeued(j, worker[w].seen)]
    /\ worker' = [worker EXCEPT ![w].pc = "ack"]
    /\ UNCHANGED <<queue, dlq, tx, reaper, faults>>

\* The death of w's process: its worker_id is never used again, its locks go
\* and the broker requeues what it had not acknowledged.
Exit(w) ==
    /\ job' = [j \in Jobs |-> IF job[j].owner = w
                              THEN [job[j] EXCEPT !.owner = Gone] ELSE job[j]]
    /\ worker' = [worker EXCEPT ![w] = IdleWorker]

Answered(w) == worker' = [worker EXCEPT ![w] = IdleWorker]

Ack(w, j) ==
    /\ On(w, "ack", j) /\ worker[w].held
    /\ Answered(w)
    /\ UNCHANGED <<job, outbox, queue, dlq, tx, reaper, faults>>

\* Mutant of Reject: whatever ends, its message is acknowledged.
RejectAcks(w, j) ==
    /\ On(w, "reject", j) /\ worker[w].held
    /\ Answered(w)
    /\ UNCHANGED <<job, outbox, queue, dlq, tx, reaper, faults>>

\* basic_reject without requeue: the message is dead-lettered.
Reject(w, j) ==
    /\ On(w, "reject", j) /\ worker[w].held
    /\ Answered(w)
    /\ dlq' = dlq \cup {j}
    /\ UNCHANGED <<job, outbox, queue, tx, reaper, faults>>

\* A transaction raises (the database, or the playlist upload inside it): it
\* is rolled back and the message is nacked with requeue.  The job stays as
\* it was, and w is still its owner.
Raise(w, j) ==
    /\ \E pc \in {"claim", "processing", "lost", "failing"} : On(w, pc, j)
    /\ worker[w].held
    /\ Fault
    /\ Answered(w)
    /\ queue' = [queue EXCEPT ![j] = @ + 1]
    /\ UNCHANGED <<job, outbox, dlq, tx, reaper>>

\* Answering on a channel that is gone raises out of the consumer loop.
AnswerFails(w, j) ==
    /\ On(w, "ack", j) \/ On(w, "reject", j)
    /\ ~worker[w].held
    /\ Exit(w)
    /\ UNCHANGED <<outbox, queue, dlq, tx, reaper, faults>>

\* The broker drops the connection of a worker too busy to answer it.
Disconnect(w, j) ==
    /\ Busy(w, j)
    /\ worker[w].held
    /\ Fault
    /\ queue' = [queue EXCEPT ![j] = @ + 1]
    /\ worker' = [worker EXCEPT ![w].held = FALSE]
    /\ UNCHANGED <<job, outbox, dlq, tx, reaper>>

Crash(w, j) ==
    /\ Busy(w, j)
    /\ Fault
    /\ queue' = IF worker[w].held THEN [queue EXCEPT ![j] = @ + 1] ELSE queue
    /\ Exit(w)
    /\ UNCHANGED <<outbox, dlq, tx, reaper>>

-----------------------------------------------------------------------------
\* Mutants of Stale: without SKIP LOCKED; and leaving out exhausted jobs.
StaleOrLocked(j)   == job[j].status = "running" /\ job[j].stale
StaleWithRetry(j)  == job[j].status = "running" /\ job[j].stale /\ ~Locked(j) /\ ~Exhausted(j)

\* reap_stale_encoding_jobs.  SKIP LOCKED leaves out the rows others hold.

Stale(j) == job[j].status = "running" /\ job[j].stale /\ ~Locked(j)

ReapRead ==
    /\ reaper = NoRows
    /\ \E j \in Jobs : Stale(j)
    /\ \A j \in Jobs : Stale(j) => OutboxSettled(j)
    /\ reaper' = [j \in Jobs |-> IF Stale(j) THEN outbox[j] ELSE "none"]
    /\ UNCHANGED <<job, outbox, queue, dlq, tx, worker, faults>>

\* Mutant of ReapCommit: a stale job is retried whatever it has spent.
ReapRetriesAll ==
    /\ reaper # NoRows
    /\ job' = [j \in Jobs |-> IF reaper[j] = "none" THEN job[j] ELSE Retried(j)]
    /\ outbox' = [j \in Jobs |-> IF reaper[j] = "none" THEN outbox[j]
                                 ELSE Requeued(j, reaper[j])]
    /\ reaper' = NoRows
    /\ UNCHANGED <<queue, dlq, tx, worker, faults>>

ReapCommit ==
    /\ reaper # NoRows
    /\ job' = [j \in Jobs |->
                 IF reaper[j] = "none" THEN job[j]
                 ELSE IF Exhausted(j) THEN GivenUp(j) ELSE Retried(j)]
    /\ outbox' = [j \in Jobs |->
                    IF reaper[j] = "none" \/ Exhausted(j)
                    THEN outbox[j] ELSE Requeued(j, reaper[j])]
    /\ reaper' = NoRows
    /\ UNCHANGED <<queue, dlq, tx, worker, faults>>

ReapCrash ==
    /\ reaper # NoRows
    /\ Fault
    /\ reaper' = NoRows
    /\ UNCHANGED <<job, outbox, queue, dlq, tx, worker>>

-----------------------------------------------------------------------------
TimeStep(j) == Tick(j) \/ Lapse(j)

PublisherStep(p) ==
    \/ SelectRows(p) \/ CommitPublish(p) \/ PublisherCrash(p)
    \/ \E j \in Jobs : Publish(p, j) \/ PublishLost(p, j) \/ PublishFails(p, j)

Claim(w, j) == ClaimRefused(w, j) \/ ClaimExhausted(w, j) \/ ClaimGranted(w, j)

\* The ways processing can end.
Settle(w, j) == \/ Abandon(w, j) \/ Finish(w, j) \/ ResultRefused(w, j)
                \/ FailForGood(w, j) \/ FailRead(w, j)

Answer(w, j) == Ack(w, j) \/ Reject(w, j) \/ AnswerFails(w, j)

WorkerFault(w, j) == Raise(w, j) \/ Disconnect(w, j) \/ Crash(w, j)

WorkerStep(w, j) ==
    \/ Receive(w, j) \/ Claim(w, j)
    \/ HeartbeatOwned(w, j) \/ HeartbeatLost(w, j)
    \/ Settle(w, j) \/ FailCommit(w, j)
    \/ Answer(w, j) \/ WorkerFault(w, j)

ReaperStep == ReapRead \/ ReapCommit \/ ReapCrash

Next == \/ \E j \in Jobs : TimeStep(j)
        \/ \E p \in Publishers : PublisherStep(p)
        \/ \E w \in Workers, j \in Jobs : WorkerStep(w, j)
        \/ ReaperStep

Spec == Init /\ [][Next]_vars

-----------------------------------------------------------------------------
\* Fairness: every process keeps working.  Faults, heartbeats and lapses of a
\* job that a live worker attends to are never promised to happen.

Attended(j) == \E w \in Workers : Owns(w, j) /\ On(w, "processing", j)

Fairness ==
    /\ \A j \in Jobs : WF_vars(Tick(j)) /\ WF_vars(~Attended(j) /\ Lapse(j))
    /\ \A p \in Publishers :
          /\ WF_vars(SelectRows(p))
          /\ WF_vars(\E j \in Jobs : Publish(p, j))
          /\ WF_vars(CommitPublish(p))
    /\ \A w \in Workers :
          /\ WF_vars(\E j \in Jobs : Receive(w, j))
          /\ WF_vars(\E j \in Jobs : Claim(w, j))
          /\ WF_vars(\E j \in Jobs : Settle(w, j))
          /\ WF_vars(\E j \in Jobs : FailCommit(w, j))
          /\ WF_vars(\E j \in Jobs : Answer(w, j))
    /\ WF_vars(ReapRead) /\ WF_vars(ReapCommit)

FairSpec == Spec /\ Fairness

-----------------------------------------------------------------------------
\* Properties that hold whatever the broker, the clocks and the timing do.

\* A worker that still owns the job it works on works on the job's current
\* attempt: no worker can commit a result for an attempt that is not its own
\* (the worker_id test of _owns_running_job acts as a fencing token).
AttemptIsFenced ==
    \A w \in Workers, j \in Jobs :
        (On(w, "processing", j) \/ On(w, "failing", j)) /\ Owns(w, j)
            => worker[w].attempt = job[j].attempts

\* Once told that it lost a job, a worker never owns that job again while it
\* is busy with it (JobHeartbeat.lost_ownership is never wrong).
LostIsLost ==
    \A w \in Workers, j \in Jobs :
        On(w, "lost", j) => ~Owns(w, j)

\* A job is given up only when every attempt it was allowed has been spent,
\* and it never gets more than it was allowed.
AttemptsAreBounded ==
    \A j \in Jobs : /\ job[j].attempts <= MaxAttempts[j]
                    /\ job[j].status = "failed" => Exhausted(j)

\* Only jobs that a worker failed for good are dead-lettered, and a rejected
\* delivery is never for a job that can still succeed.
DeadLettersAreFailed ==
    /\ \A j \in dlq : job[j].status = "failed"
    /\ \A w \in Workers, j \in Jobs :
          On(w, "reject", j) => job[j].status = "failed"

\* README, lines 24-25: "RabbitMQ dead-letter routing for terminal worker failures".
\* A worker that fails its job for good goes on to reject the message, and does
\* reject it, unless something has failed: a worker that dies in between leaves a
\* message that the next one acknowledges (handle_delivery).
TerminalFailuresAreDeadLettered ==
    [][\A w \in Workers, j \in Jobs :
          /\ Owns(w, j) /\ job'[j].status = "failed" /\ worker' # worker
                => On(w, "reject", j)'
          /\ On(w, "reject", j)
                => On(w, "reject", j)' \/ j \in dlq' \/ faults' > 0]_vars

\* The transaction that will write a job has it to itself: a failing worker
\* owns the job it locked, and so does not share it with the reaper.
LocksProtect ==
    \A j \in Jobs :
        /\ \A w \in Workers : On(w, "failing", j) => Owns(w, j) /\ ~Exhausted(j)
        /\ reaper[j] # "none" => /\ job[j].status = "running"
                                /\ \A w \in Workers : ~On(w, "failing", j)

\* A finished job is never touched again, by a duplicate, a late worker or
\* the reaper.
TerminalIsStable ==
    [][\A j \in Jobs : job[j].status \in {"done", "failed"} => job'[j] = job[j]]_vars

\* The queue implements the ledger.
Ledger == INSTANCE JobLedger WITH
            ledger <- [j \in Jobs |-> [status |-> job[j].status,
                                      attempts |-> job[j].attempts]]

ImplementsLedger == Ledger!LedgerSpec

\* The attempt that w is at with job j, from its claim to its last word.
At(w, j) ==
    IF \E pc \in {"processing", "lost", "failing"} : On(w, pc, j)
    THEN worker[w].attempt ELSE 0

\* However redelivered messages, crashes, late workers and the reaper interleave,
\* each job changes hands as its encoders rely on: one attempt at a time owns it,
\* only that one settles it, and nobody gets it back without a new attempt
\* (claim_encoding_job, _owns_running_job, reap_stale_encoding_jobs).
Lease(j) == INSTANCE JobLease WITH
              status <- job[j].status, owner <- job[j].owner,
              attempts <- job[j].attempts, MaxAttempts <- MaxAttempts[j],
              working <- [w \in Workers |-> At(w, j)]

ImplementsLease ==
    /\ \A j \in Jobs : Lease(j)!LeaseInit
    /\ [][\A j \in Jobs : [Lease(j)!LeaseNext]_(Lease(j)!leaseVars)]_vars

-----------------------------------------------------------------------------
\* Properties that need a broker that keeps what it accepts, clocks that
\* agree, and publishers that commit before the job they sent can fail.

\* A message for j is ready, or delivered and not yet used to claim.
Carried(j) == queue[j] > 0 \/ \E w \in Workers : On(w, "claim", j)

\* No job is lost: a job that waits to run will be published, or a message
\* that will make a worker claim it is on its way.  README, lines 18-19: "jobs are
\* not lost if RabbitMQ is temporarily unavailable".
NoJobIsLost ==
    \A j \in Jobs :
        job[j].status = "pending" =>
            outbox[j] = "pending" \/ (job[j].wait = 0 /\ Carried(j))

\* Every job ends: done, or failed after its attempts (README, step 14).
EveryJobSettles ==
    \A j \in Jobs : <>(job[j].status \in {"done", "failed"})
=============================================================================
