-------------------------- MODULE MultipartUpload --------------------------
(***************************************************************************)
(* The browser's upload controller (multipart-upload.ts) for one file, on  *)
(* top of the API and the storage of module UploadSession.                 *)
(*                                                                         *)
(* The controller is single threaded: between two awaits it runs without   *)
(* interruption, so each step below goes from the answer of one request to *)
(* the sending of the next.  Requests to the API cannot be aborted; only   *)
(* the PUTs of parts listen to the abort signal.                           *)
(***************************************************************************)
EXTENDS UploadSession

CONSTANTS
    CreateReq, CompleteReq, RefreshReq, AbortReq,  \* the requests of the controller
    MaxConcurrent                       \* MAX_CONCURRENT_PART_UPLOADS

ASSUME ControllerAssumption ==
    /\ CreateReq \in Creates /\ CompleteReq \in Completes
    /\ RefreshReq \in Refreshes /\ AbortReq \in Aborts
    /\ IsFiniteSet(Parts) /\ Parts = 1..Cardinality(Parts)
    /\ MaxConcurrent \in Nat \ {0}

VARIABLES
    pc,          \* what start or retryFailedParts awaits
    status,      \* the status of the row last emitted
    known,       \* is videoId set?
    completed,   \* the keys of completedParts
    failed,      \* failedPartNumbers
    queue,       \* the parts no worker has taken yet
    inflight,    \* the parts being PUT, one by each live worker
    cancelled,   \* abortController.signal.aborted
    cancelledAt  \* where cancel found the controller (history)

pool == <<completed, failed, queue, inflight>>
ctlVars == <<pc, status, known, pool, cancelled, cancelledAt>>
vars == <<sessionVars, ctlVars>>

Places == {"idle", "creating", "refreshing", "pool", "completing", "rest"}

TypeOK ==
    /\ SessionTypeOK
    /\ pc \in Places
    /\ status \in {"uploading", "upload_failed", "pending"}
    /\ known \in BOOLEAN
    /\ completed \in SUBSET Parts /\ failed \in SUBSET Parts
    /\ queue \in SUBSET Parts /\ inflight \in SUBSET Parts
    /\ cancelled \in BOOLEAN
    /\ cancelledAt \in Places \cup {"never"}

Init ==
    /\ SessionInit
    /\ pc = "idle" /\ status = "uploading" /\ known = FALSE
    /\ completed = {} /\ failed = {} /\ queue = {} /\ inflight = {}
    /\ cancelled = FALSE /\ cancelledAt = "never"

-----------------------------------------------------------------------------
\* The signal of an attempt that is over is of no use: retryFailedParts makes
\* a new one, and the dashboard offers no retry of a cancelled upload.

\* The catch of start and retryFailedParts.
GiveUp ==
    /\ pc' = "rest"
    /\ status' = IF cancelled THEN status ELSE "upload_failed"

Start ==
    /\ pc = "idle"
    /\ SendCreate(CreateReq)
    /\ pc' = "creating"
    /\ UNCHANGED <<status, known, pool, cancelled, cancelledAt>>

\* Mutant of Taken: every part is sent at once.
TakeAll(q) == q

\* uploadMissingParts: the parts its first workers take.
Taken(q) == {p \in q : Cardinality({s \in q : s < p}) < MaxConcurrent}

\* Mutant of StartPool: the queue is no longer than its workers.
StartPoolFirstOnly(parts) ==
    /\ failed' = {}
    /\ queue' = {}
    /\ inflight' = Taken(parts)
    /\ pc' = "pool"
    /\ UNCHANGED completed

StartPool(parts) ==
    /\ failed' = {}
    /\ queue' = parts \ Taken(parts)
    /\ inflight' = Taken(parts)
    /\ pc' = "pool"
    /\ UNCHANGED completed

\* createVideoUpload returns.  Nothing looks at the signal here.
Created ==
    /\ pc = "creating" /\ reply[CreateReq] = "ok"
    /\ known' = TRUE
    /\ StartPool(Parts)
    /\ UNCHANGED <<sessionVars, status, cancelled, cancelledAt>>

CreateFailed ==
    /\ pc = "creating" /\ reply[CreateReq] = "error"
    /\ GiveUp
    /\ UNCHANGED <<sessionVars, known, pool, cancelled, cancelledAt>>

\* retryFailedParts, from a row that offers it.
Retry ==
    /\ pc = "rest" /\ status = "upload_failed" /\ ~cancelled
    /\ known /\ failed # {}
    /\ SendOther(RefreshReq)
    /\ pc' = "refreshing" /\ status' = "uploading"
    /\ UNCHANGED <<known, pool, cancelled, cancelledAt>>

Refreshed ==
    /\ pc = "refreshing" /\ reply[RefreshReq] = "ok"
    /\ StartPool(failed)
    /\ UNCHANGED <<sessionVars, status, known, cancelled, cancelledAt>>

RefreshFailed ==
    /\ pc = "refreshing" /\ reply[RefreshReq] = "error"
    /\ GiveUp
    /\ UNCHANGED <<sessionVars, known, pool, cancelled, cancelledAt>>

-----------------------------------------------------------------------------
\* The workers of uploadMissingParts.

PartStored(p) ==
    /\ p \in inflight /\ p \notin stored
    /\ StorePart(p)
    /\ UNCHANGED ctlVars

\* Mutant of NextPart: nextIndex is not advanced.
NextPartAgain(p) ==
    LET first == {q \in queue : \A s \in queue : q <= s}
    IN  /\ inflight' = (inflight \ {p}) \cup first
        /\ UNCHANGED queue

\* The worker of p takes the next part of the queue, if there is one.
NextPart(p) ==
    LET first == {q \in queue : \A s \in queue : q <= s}
    IN  /\ inflight' = (inflight \ {p}) \cup first
        /\ queue' = queue \ first

\* Once the last worker is done: complete the upload, or give up.
Settle ==
    IF pc = "pool" /\ inflight' = {}
    THEN IF failed' # {} \/ completed' # Parts
         THEN GiveUp /\ UNCHANGED sessionVars
         ELSE /\ SendComplete(CompleteReq, completed')
              /\ pc' = "completing" /\ UNCHANGED status
    ELSE UNCHANGED <<sessionVars, pc, status>>

\* Storage answers the PUT with the ETag of the part.
PartUploaded(p) ==
    /\ p \in inflight \cap stored
    /\ completed' = completed \cup {p}
    /\ NextPart(p)
    /\ UNCHANGED <<failed, known, cancelled, cancelledAt>>
    /\ Settle

\* Mutant of PartLost: the failure is not remembered.
PartLostForgotten(p) ==
    /\ p \in inflight
    /\ NextPart(p)
    /\ UNCHANGED <<failed, completed, known, cancelled, cancelledAt>>
    /\ IF pc = "pool" /\ inflight' = {} THEN GiveUp ELSE UNCHANGED <<pc, status>>

\* A worker whose PUT fails notes the part and goes on, unless the signal is
\* aborted: then it stops, and the attempt with it, but not its fellows.
PartLost(p) ==
    /\ p \in inflight
    /\ IF cancelled
       THEN /\ inflight' = inflight \ {p}
            /\ UNCHANGED <<failed, queue>>
            /\ IF pc = "pool" THEN GiveUp ELSE UNCHANGED <<pc, status>>
       ELSE /\ failed' = failed \cup {p}
            /\ NextPart(p)
            /\ IF inflight' = {} THEN GiveUp ELSE UNCHANGED <<pc, status>>
    /\ UNCHANGED <<completed, known, cancelled, cancelledAt>>

\* Storage refuses a part of an upload that is gone.
PartRefused(p) == multipart # "open" /\ PartLost(p) /\ UNCHANGED sessionVars

\* The PUT fails, before or after storage has taken the part.
PartFails(p) == LosePart /\ PartLost(p)

-----------------------------------------------------------------------------
\* completeUpload and cancel.

\* Mutant of Completed: the status of the API is shown as it is.
CompletedUnmapped ==
    /\ pc = "completing" /\ reply[CompleteReq] = "ok"
    /\ pc' = "rest" /\ status' = "running"
    /\ UNCHANGED <<sessionVars, known, pool, cancelled, cancelledAt>>

\* completeVideoUpload returns; mapVideoStatus makes the row a pending video.
Completed ==
    /\ pc = "completing" /\ reply[CompleteReq] = "ok"
    /\ pc' = "rest" /\ status' = "pending"
    /\ UNCHANGED <<sessionVars, known, pool, cancelled, cancelledAt>>

\* Mutant of CompleteFailed: a cancelled upload reports its failure.
CompleteFailedLoudly ==
    /\ pc = "completing" /\ reply[CompleteReq] = "error"
    /\ pc' = "rest" /\ status' = "upload_failed"
    /\ UNCHANGED <<sessionVars, known, pool, cancelled, cancelledAt>>

CompleteFailed ==
    /\ pc = "completing" /\ reply[CompleteReq] = "error"
    /\ GiveUp
    /\ UNCHANGED <<sessionVars, known, pool, cancelled, cancelledAt>>

\* Mutant of Cancel: the PUTs under way are not aborted.
CancelLeavesParts ==
    /\ pc # "idle" /\ status # "pending" /\ ~cancelled
    /\ cancelled' = TRUE /\ cancelledAt' = pc
    /\ IF known THEN SendOther(AbortReq) ELSE UNCHANGED sessionVars
    /\ UNCHANGED <<pc, status, known, pool>>

\* From any row that still has its cancel button.  Every PUT that listens is
\* aborted, its worker throws, and start or retryFailedParts returns.
Cancel ==
    /\ pc # "idle" /\ status # "pending" /\ ~cancelled
    /\ cancelled' = TRUE /\ cancelledAt' = pc
    /\ IF known THEN SendOther(AbortReq) ELSE UNCHANGED sessionVars
    /\ IF pc = "pool"
       THEN inflight' = {} /\ pc' = "rest"
       ELSE UNCHANGED <<inflight, pc>>
    /\ UNCHANGED <<status, known, completed, failed, queue>>

\* Another client of the API completes or aborts the same upload.
Other == (Completes \cup Aborts) \ {CompleteReq, AbortReq}

OtherSends(r) ==
    /\ SendComplete(r, stored) \/ (r \in Aborts /\ SendOther(r))
    /\ UNCHANGED ctlVars

ServeRequest(r) == Serve(r) /\ UNCHANGED ctlVars

Upset(r) == (Crash(r) \/ Disconnect(r)) /\ UNCHANGED ctlVars

Answered ==
    \/ Created \/ CreateFailed \/ Refreshed \/ RefreshFailed
    \/ Completed \/ CompleteFailed
    \/ \E p \in Parts : PartUploaded(p) \/ PartRefused(p)

Next ==
    \/ Start \/ Retry \/ Cancel \/ Answered
    \/ \E p \in Parts : PartStored(p) \/ PartFails(p)
    \/ \E r \in Requests : ServeRequest(r) \/ Upset(r)
    \/ \E r \in Other : OtherSends(r)

\* Every request and every PUT is answered or fails in the end, and the
\* browser handles the answer; nobody has to cancel or to retry.
Fairness ==
    /\ WF_vars(Start) /\ WF_vars(Answered)
    /\ \A p \in Parts : WF_vars(PartStored(p))
    /\ \A r \in Requests : WF_vars(ServeRequest(r))

Spec == Init /\ [][Next]_vars /\ Fairness

-----------------------------------------------------------------------------
\* A failed upload that storage knows of remembers exactly the parts that are
\* missing, over any number of retries: a retry sends them and no other, and
\* can end in a completion (retryFailedParts, uploadMissingParts).
NoPartForgotten ==
    pc = "rest" /\ status = "upload_failed" /\ known =>
        failed = Parts \ completed /\ completed \subseteq stored

\* The pool never has more PUTs under way than it should, nor one part twice
\* or a part it has (MAX_CONCURRENT_PART_UPLOADS).
PoolIsBounded ==
    /\ Cardinality(inflight) <= MaxConcurrent
    /\ pc = "pool" => inflight \cap (queue \cup completed \cup failed) = {}

OtherActed == \E r \in Other : at[r] # "none"

\* Cancelling while parts are being sent is in time: the video is not queued
\* afterwards, and without a fault its upload is aborted (cancel).
CancelledInTime ==
    cancelledAt = "pool" /\ ~OtherActed =>
        /\ video # "pending"
        /\ Quiet /\ faults = 0 => video = "failed"

\* As the cancel dialog says, "The multipart upload will be aborted and
\* removed from the table": an upload cancelled before its completion was
\* requested is not queued (uploads-table.tsx).  The code breaks it.
CancelledIsNotQueued ==
    cancelledAt \in {"creating", "refreshing", "pool"} => video # "pending"

\* The rows the controller reports are those the dashboard relies on.
Row == INSTANCE UploadRow WITH
    Uploads <- {"this"},
    row <- [u \in {"this"} |->
              IF pc = "idle" THEN "none"
              ELSE IF status = "uploading" THEN "uploading"
              ELSE IF status = "pending" THEN "finished"
              ELSE IF failed = {} THEN "failed" ELSE "retryable"],
    cancelled <- [u \in {"this"} |-> cancelled]

\* The controller implements UploadRow: once cancelled it reports no failure,
\* and it starts again only from a row that offers a retry.
ImplementsRow == Row!RowSpec

\* No attempt hangs: every start and every retry comes to rest, with a result
\* or silently after a cancel.
EveryAttemptEnds == pc \notin {"idle", "rest"} ~> pc = "rest"

\* An upload nobody cancels, disturbs or fails ends as a queued video.
UploadIsQueued ==
    <>(status = "pending" \/ cancelled \/ faults > 0 \/ OtherActed)
=============================================================================
