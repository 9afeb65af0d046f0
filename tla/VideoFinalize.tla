--------------------------- MODULE VideoFinalize ---------------------------
(***************************************************************************)
(* How the encoding transactions of one video maintain what its renditions *)
(* share: the video's status, its playback_path and the master playlist in *)
(* object storage.                                                         *)
(*                                                                         *)
(* Every transaction locks the jobs row of the rendition it moves, reads   *)
(* the video row (joined, unlocked), later reads the sibling renditions    *)
(* (lazily, unlocked), derives the new video columns, may upload the       *)
(* master playlist, and commits only the columns that differ from what it  *)
(* read.  Two transactions of one video never wait for each other.         *)
(*                                                                         *)
(* A rendition and its job are one status here: each transaction writes    *)
(* both, and a job is done when its rendition is done or skipped.  Who may *)
(* open which transaction is the business of module JobQueue.              *)
(***************************************************************************)
EXTENDS Naturals, EncodingStatus

CONSTANTS
    Renditions,
    MaxAttempts,   \* max_attempts of every job of the video
    Reaper,        \* the reaper's transaction; a worker's is its rendition
    Overlap        \* may two transactions of the video be open at once?

ASSUME FinalizeAssumption ==
    /\ Renditions # {}
    /\ MaxAttempts \in Nat
    /\ Reaper \notin Renditions
    /\ Overlap \in BOOLEAN

VARIABLES
    rendition,   \* the status of each rendition, as committed
    attempts,    \* the attempt_count of its job
    video,       \* the videos row: status, and whether playback_path is set
    master,      \* the renditions listed by master.m3u8 in object storage
    tx           \* the open transactions

vars == <<rendition, attempts, video, master, tx>>

Transactions == Renditions \cup {Reaper}

VideoRow == [status: VideoStatus, playback: BOOLEAN]

\* rows: the locked jobs and the statuses the transaction gives them; seen:
\* the video row it read; new: the video row it wants; publishes: whether it
\* calls publish_master_playlist_if_ready.
TxRecord ==
    [phase: {"closed", "begun", "derived"},
     rows: UNION {[S -> RenditionStatus] : S \in SUBSET Renditions},
     publishes: BOOLEAN, seen: VideoRow, new: VideoRow]

TypeOK ==
    /\ rendition \in [Renditions -> RenditionStatus]
    /\ attempts \in [Renditions -> 0..MaxAttempts]
    /\ video \in VideoRow
    /\ master \subseteq Renditions
    /\ tx \in [Transactions -> TxRecord]

Fresh  == [status |-> "pending", playback |-> FALSE]
NoRows == [r \in {} |-> "pending"]
Closed == [phase |-> "closed", rows |-> NoRows, publishes |-> FALSE,
           seen |-> Fresh, new |-> Fresh]

\* complete_video_upload has just committed the renditions and their jobs.
Init ==
    /\ rendition = [r \in Renditions |-> "pending"]
    /\ attempts = [r \in Renditions |-> 0]
    /\ video = Fresh
    /\ master = {}
    /\ tx = [t \in Transactions |-> Closed]

-----------------------------------------------------------------------------
Open(t) == tx[t].phase # "closed"

\* Mutant of Locked: the jobs rows are read without FOR UPDATE.
LockedNever(r) == FALSE

Locked(r) == \E t \in Transactions : Open(t) /\ r \in DOMAIN tx[t].rows

\* Mutant of MayRetry: one attempt too many.
MayRetryOnceMore(r) == attempts[r] <= MaxAttempts

MayRetry(r) == attempts[r] < MaxAttempts

\* The renditions as transaction t sees them once it has changed its own.
View(t) == [r \in Renditions |->
              IF r \in DOMAIN tx[t].rows THEN tx[t].rows[r] ELSE rendition[r]]

\* SELECT ... FOR UPDATE OF jobs, with the video row joined.
Begin(t, rows, publishes) ==
    /\ ~Open(t)
    /\ Overlap \/ \A u \in Transactions : ~Open(u)
    /\ tx' = [tx EXCEPT ![t] = [phase |-> "begun", rows |-> rows,
                                publishes |-> publishes,
                                seen |-> video, new |-> video]]
    /\ UNCHANGED <<rendition, attempts, video, master>>

\* claim_encoding_job: a job without an attempt left is given up.
BeginClaim(r) ==
    /\ rendition[r] = "pending" /\ ~Locked(r)
    /\ Begin(r, [q \in {r} |-> IF MayRetry(r) THEN "running" ELSE "failed"], FALSE)

\* Mutant of BeginFinish: the job need not be running any more.
BeginFinishAgain(r, status) ==
    /\ rendition[r] # "pending" /\ ~Locked(r)
    /\ Begin(r, [q \in {r} |-> status], TRUE)

\* mark_encoding_job_succeeded, _skipped and _failed, by the owner.
BeginFinish(r, status) ==
    /\ rendition[r] = "running" /\ ~Locked(r)
    /\ Begin(r, [q \in {r} |-> status], TRUE)

BeginRetry(r) ==
    /\ rendition[r] = "running" /\ ~Locked(r)
    /\ MayRetry(r)
    /\ Begin(r, [q \in {r} |-> "pending"], FALSE)

BeginFail(r) == ~MayRetry(r) /\ BeginFinish(r, "failed")

\* reap_stale_encoding_jobs on the stale jobs of the video among its batch.
BeginReap(S) ==
    /\ S # {}
    /\ \A r \in S : rendition[r] = "running" /\ ~Locked(r)
    /\ Begin(Reaper,
             [r \in S |-> IF MayRetry(r) THEN "pending" ELSE "failed"], FALSE)

\* Mutants of PlaybackAfter: any finished rendition will do; and all must be.
PlaybackAtFirst(st, playback) == CompletedRenditions(st) # {} \/ playback
PlaybackIfAllDone(st, playback) ==
    IF HasActiveRenditions(st) THEN playback
    ELSE CompletedRenditions(st) = DOMAIN st

\* publish_master_playlist_if_ready: the playback_path it leaves, given the
\* one it found.
PlaybackAfter(st, playback) ==
    IF HasActiveRenditions(st) THEN playback ELSE CompletedRenditions(st) # {}

Ready(st) == ~HasActiveRenditions(st) /\ CompletedRenditions(st) # {}

\* Read the siblings, derive the video's status and, from a finishing
\* transaction, upload the master playlist once nothing is active.
Derive(t) ==
    /\ tx[t].phase = "begun"
    /\ tx' = [tx EXCEPT
                ![t].phase = "derived",
                ![t].new = [status   |-> DeriveVideoStatus(View(t)),
                            playback |-> IF tx[t].publishes
                                         THEN PlaybackAfter(View(t), tx[t].seen.playback)
                                         ELSE tx[t].seen.playback]]
    /\ master' = IF tx[t].publishes /\ Ready(View(t))
                 THEN CompletedRenditions(View(t)) ELSE master
    /\ UNCHANGED <<rendition, attempts, video>>

\* The value committed for a column: written only if it was changed.
Written(read, wanted, current) == IF wanted = read THEN current ELSE wanted

Commit(t) ==
    /\ tx[t].phase = "derived"
    /\ rendition' = View(t)
    /\ attempts' = [r \in Renditions |->
                      IF r \in DOMAIN tx[t].rows /\ tx[t].rows[r] = "running"
                      THEN attempts[r] + 1 ELSE attempts[r]]
    /\ video' = [status   |-> Written(tx[t].seen.status, tx[t].new.status, video.status),
                 playback |-> Written(tx[t].seen.playback, tx[t].new.playback, video.playback)]
    /\ tx' = [tx EXCEPT ![t] = Closed]
    /\ UNCHANGED master

\* The upload or the database raises, or the process dies: the transaction is
\* undone, the uploaded playlist is not.
Rollback(t) ==
    /\ Open(t)
    /\ tx' = [tx EXCEPT ![t] = Closed]
    /\ UNCHANGED <<rendition, attempts, video, master>>

Next ==
    \/ \E r \in Renditions :
          \/ BeginClaim(r) \/ BeginRetry(r) \/ BeginFail(r)
          \/ BeginFinish(r, "done") \/ BeginFinish(r, "skipped")
    \/ \E S \in SUBSET Renditions : BeginReap(S)
    \/ \E t \in Transactions : Derive(t) \/ Commit(t) \/ Rollback(t)

Spec == Init /\ [][Next]_vars

-----------------------------------------------------------------------------
\* Properties that hold however the transactions overlap.

\* playback_path is set only when no rendition is active any more, and the
\* master playlist it points at lists exactly the finished renditions
\* (README, steps 16 and 17).
PlaybackIsComplete ==
    video.playback => /\ ~HasActiveRenditions(rendition)
                      /\ master = CompletedRenditions(rendition)
                      /\ master # {}

\* A video that says done has every rendition done or skipped and can be
\* played: get_video_playback never finds it done without a playlist.
DoneIsPlayable ==
    video.status = "done" =>
        /\ \A r \in Renditions : rendition[r] \in {"done", "skipped"}
        /\ video.playback

\* done is final: no transaction that read an older video row overwrites it.
DoneIsFinal == [][video.status = "done" => video' = video]_<<video>>

\* However the transactions of a video overlap and roll back, each of its
\* renditions keeps the ledger of its job: what a commit writes is still due
\* when it is written, because the jobs row was locked when it was decided
\* (_get_job_for_update, reap_stale_encoding_jobs).
Ledger == INSTANCE JobLedger WITH
            Jobs <- Renditions, MaxAttempts <- [r \in Renditions |-> MaxAttempts],
            ledger <- [r \in Renditions |->
                         [status |-> IF rendition[r] = "skipped" THEN "done" ELSE rendition[r],
                          attempts |-> attempts[r]]]

ImplementsLedger == Ledger!LedgerSpec

-----------------------------------------------------------------------------
\* Properties that overlapping transactions or the reaper can break.

Quiet == \A t \in Transactions : ~Open(t)

\* Between transactions the video's status is the one its renditions imply
\* (job_service.py, every call of derive_video_status).  It takes transactions
\* that do not overlap: VideoProofs, SerialStatus.
StatusIsCurrent == Quiet => video.status = DeriveVideoStatus(rendition)

\* Once all rendition work is terminal, the master playlist is generated and
\* uploaded, and playback_path points at it (README, steps 16 and 17).
MasterWhenTerminal ==
    Quiet /\ Ready(rendition) =>
        video.playback /\ master = CompletedRenditions(rendition)
============================================================================
