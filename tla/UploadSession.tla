--------------------------- MODULE UploadSession ---------------------------
(***************************************************************************)
(* One multipart upload as the API keeps it: the videos row, the           *)
(* upload_sessions row, and the multipart upload and the object in storage.*)
(*                                                                         *)
(* A request is a thread of the API working through the steps between      *)
(* which another request may run: a storage call, a commit, the answer.    *)
(* complete_video_upload holds the locks of both rows from its SELECT ...  *)
(* FOR UPDATE to its commit; abort_video_upload reads both without a lock  *)
(* and waits for the locks only when it writes.                            *)
(***************************************************************************)
EXTENDS Naturals, FiniteSets

CONSTANTS
    Parts,                                  \* the parts 1..part_count
    Creates, Completes, Refreshes, Aborts,  \* the requests, by endpoint
    MaxFaults                               \* bound on storage errors, crashes
                                            \* and dropped connections

Requests == Creates \cup Completes \cup Refreshes \cup Aborts

ASSUME SessionAssumption ==
    /\ MaxFaults \in Nat
    /\ Parts # {}
    /\ Creates \cap (Completes \cup Refreshes \cup Aborts) = {}
    /\ Completes \cap (Refreshes \cup Aborts) = {}
    /\ Refreshes \cap Aborts = {}

VARIABLES
    video,      \* videos.status; "none": no such row
    session,    \* upload_sessions.status
    multipart,  \* the multipart upload in storage
    stored,     \* the parts storage holds for it
    object,     \* the object at the session's key
    jobs,       \* how often its renditions, jobs and outbox rows were created
    at,         \* how far the API is with each request
    reply,      \* what the client has heard of it
    listed,     \* the parts a completion request names
    faults

sessionVars ==
    <<video, session, multipart, stored, object, jobs, at, reply, listed, faults>>

Stages == {"none", "sent", "storage", "locked", "assembled", "validated",
           "rejected", "committed", "read", "aborted", "unaborted", "done"}

SessionTypeOK ==
    /\ video \in {"none", "uploading", "pending", "failed"}
    /\ session \in {"none", "active", "completed", "failed", "aborted"}
    /\ multipart \in {"none", "open", "completed", "aborted"}
    /\ stored \in SUBSET Parts
    /\ object \in {"none", "valid", "invalid"}
    /\ jobs \in 0..1
    /\ at \in [Requests -> Stages]
    /\ reply \in [Requests -> {"none", "awaited", "ok", "error"}]
    /\ listed \in [Completes -> SUBSET Parts]
    /\ faults \in 0..MaxFaults

SessionInit ==
    /\ video = "none" /\ session = "none"
    /\ multipart = "none" /\ stored = {} /\ object = "none"
    /\ jobs = 0
    /\ at = [r \in Requests |-> "none"]
    /\ reply = [r \in Requests |-> "none"]
    /\ listed = [r \in Completes |-> {}]
    /\ faults = 0

-----------------------------------------------------------------------------
\* The steps of a request.

rows    == <<video, session, jobs>>
storage == <<multipart, stored, object>>

Fault == faults < MaxFaults /\ faults' = faults + 1

Idle(r) == at[r] \in {"none", "done"} /\ reply[r] # "awaited"

Advance(r, from, to) ==
    /\ at[r] = from
    /\ at' = [at EXCEPT ![r] = to]
    /\ UNCHANGED <<reply, listed>>

\* The API is done with r; the client hears the answer if it still listens.
Answer(r, from, answer) ==
    /\ at[r] = from
    /\ at' = [at EXCEPT ![r] = "done"]
    /\ reply' = [reply EXCEPT ![r] = IF @ = "awaited" THEN answer ELSE @]
    /\ UNCHANGED listed

Post(r) ==
    /\ Idle(r)
    /\ at' = [at EXCEPT ![r] = "sent"]
    /\ reply' = [reply EXCEPT ![r] = "awaited"]

SendCreate(r) ==
    /\ r \in Creates /\ video = "none" /\ multipart = "none"
    /\ \A c \in Creates : Idle(c)
    /\ Post(r)
    /\ UNCHANGED <<rows, storage, listed, faults>>

\* A client can list a part only once storage has returned its ETag.
SendComplete(r, parts) ==
    /\ r \in Completes /\ video # "none" /\ parts \subseteq stored
    /\ Post(r)
    /\ listed' = [listed EXCEPT ![r] = parts]
    /\ UNCHANGED <<rows, storage, faults>>

SendOther(r) ==
    /\ r \in Refreshes \cup Aborts /\ video # "none"
    /\ Post(r)
    /\ UNCHANGED <<rows, storage, listed, faults>>

\* PUT of one part to its presigned URL.
StorePart(p) ==
    /\ multipart = "open"
    /\ stored' = stored \cup {p}
    /\ UNCHANGED <<rows, multipart, object, at, reply, listed, faults>>

\* A PUT fails without effect, or its answer is lost.
LosePart ==
    /\ Fault
    /\ UNCHANGED <<rows, storage, at, reply, listed>>

\* The connection drops; the API goes on with the request.
Disconnect(r) ==
    /\ reply[r] = "awaited"
    /\ Fault
    /\ reply' = [reply EXCEPT ![r] = "error"]
    /\ UNCHANGED <<rows, storage, at, listed>>

\* The API process or its database connection dies: the open transaction is
\* rolled back, what storage has done stays.
Crash(r) ==
    /\ at[r] \notin {"none", "done"}
    /\ Fault
    /\ Answer(r, at[r], "error")
    /\ UNCHANGED <<rows, storage>>

-----------------------------------------------------------------------------
\* POST /videos: create_video_upload.

CreateInStorage(r) ==
    /\ r \in Creates
    /\ UNCHANGED <<rows, stored, object>>
    /\ \/ multipart' = "open" /\ Advance(r, "sent", "storage") /\ UNCHANGED faults
       \/ multipart' \in {"none", "open"} /\ Answer(r, "sent", "error") /\ Fault

CommitCreate(r) ==
    /\ r \in Creates
    /\ Answer(r, "storage", "ok")
    /\ video' = "uploading" /\ session' = "active"
    /\ UNCHANGED <<jobs, storage, faults>>

-----------------------------------------------------------------------------
\* POST /videos/{id}/upload/complete: complete_video_upload.

Uploading == video = "uploading" /\ session = "active"

\* Mutant of Locked: the SELECTs of a completion lock nothing.
NeverLocked == FALSE

Locked == \E r \in Completes :
              at[r] \in {"locked", "assembled", "validated", "rejected"}

BeginComplete(r) ==
    /\ r \in Completes /\ ~Locked
    /\ IF Uploading /\ listed[r] = Parts
       THEN Advance(r, "sent", "locked")
       ELSE Answer(r, "sent", "error")
    /\ UNCHANGED <<rows, storage, faults>>

Assemble ==
    /\ multipart = "open" /\ Parts \subseteq stored
    /\ multipart' = "completed"
    /\ object' = "valid"

\* storage.complete_multipart_upload.  Storage may accept or refuse a second
\* completion.  As a fault it errs, with or without effect, or what it
\* assembles is not of the declared size and type.
StorageCompletes(r) ==
    /\ r \in Completes
    /\ UNCHANGED <<rows, stored>>
    /\ \/ Assemble /\ Advance(r, "locked", "assembled") /\ UNCHANGED faults
       \/ /\ multipart = "completed"
          /\ Advance(r, "locked", "assembled")
          /\ UNCHANGED <<multipart, object, faults>>
       \/ /\ ~(multipart = "open" /\ Parts \subseteq stored)
          /\ Advance(r, "locked", "rejected")
          /\ UNCHANGED <<multipart, object, faults>>
       \/ /\ Assemble \/ UNCHANGED <<multipart, object>>
          /\ Advance(r, "locked", "rejected") /\ Fault
       \/ /\ multipart = "open" /\ multipart' = "completed" /\ object' = "invalid"
          /\ Advance(r, "locked", "assembled") /\ Fault

\* _validate_completed_upload_metadata and _delete_invalid_completed_upload.
Validate(r) ==
    /\ r \in Completes
    /\ UNCHANGED <<rows, multipart, stored>>
    /\ \/ /\ object = "valid"
          /\ Advance(r, "assembled", "validated")
          /\ UNCHANGED <<object, faults>>
       \/ /\ object # "valid" /\ object' = "none"
          /\ Advance(r, "assembled", "rejected")
          /\ UNCHANGED faults
       \/ Advance(r, "assembled", "rejected") /\ Fault /\ UNCHANGED object

CommitCompleted(r) ==
    /\ r \in Completes
    /\ Advance(r, "validated", "committed")
    /\ video' = "pending" /\ session' = "completed" /\ jobs' = jobs + 1
    /\ UNCHANGED <<storage, faults>>

\* Every failure of storage ends in this commit: the video stays uploading.
CommitRejected(r) ==
    /\ r \in Completes
    /\ Answer(r, "rejected", "error")
    /\ session' = "failed"
    /\ UNCHANGED <<video, jobs, storage, faults>>

\* Publish the outbox messages and answer; if that raises, the client hears
\* an error for an upload that is queued.
AnswerComplete(r) ==
    /\ r \in Completes
    /\ \/ Answer(r, "committed", "ok") /\ UNCHANGED faults
       \/ Answer(r, "committed", "error") /\ Fault
    /\ UNCHANGED <<rows, storage>>

-----------------------------------------------------------------------------
\* POST /videos/{id}/upload/refresh: refresh_video_upload writes nothing.

Refresh(r) ==
    /\ r \in Refreshes
    /\ \/ Answer(r, "sent", IF Uploading THEN "ok" ELSE "error") /\ UNCHANGED faults
       \/ Answer(r, "sent", "error") /\ Fault
    /\ UNCHANGED <<rows, storage>>

-----------------------------------------------------------------------------
\* DELETE /videos/{id}/upload: abort_video_upload.

ReadForAbort(r) ==
    /\ r \in Aborts
    /\ IF Uploading THEN Advance(r, "sent", "read") ELSE Answer(r, "sent", "error")
    /\ UNCHANGED <<rows, storage, faults>>

\* Mutant of StorageAborts: an upload that is gone counts as aborted.
StorageAbortsAnything(r) ==
    /\ r \in Aborts
    /\ multipart' = IF multipart = "open" THEN "aborted" ELSE multipart
    /\ Advance(r, "read", "aborted")
    /\ UNCHANGED <<rows, stored, object, faults>>

\* Storage refuses to abort an upload that is completed or aborted.
StorageAborts(r) ==
    /\ r \in Aborts
    /\ UNCHANGED <<rows, stored, object>>
    /\ \/ /\ multipart = "open" /\ multipart' = "aborted"
          /\ Advance(r, "read", "aborted") /\ UNCHANGED faults
       \/ /\ multipart # "open"
          /\ Advance(r, "read", "unaborted") /\ UNCHANGED <<multipart, faults>>
       \/ /\ multipart = "open" /\ multipart' \in {"open", "aborted"}
          /\ Advance(r, "read", "unaborted") /\ Fault

\* Mutant of CommitAbort: the video is left as it was.
CommitAbortSessionOnly(r) ==
    /\ r \in Aborts /\ ~Locked
    /\ Answer(r, "aborted", "ok")
    /\ session' = "aborted"
    /\ UNCHANGED <<video, jobs, storage, faults>>

CommitAbort(r) ==
    /\ r \in Aborts /\ ~Locked
    /\ Answer(r, "aborted", "ok")
    /\ video' = "failed" /\ session' = "aborted"
    /\ UNCHANGED <<jobs, storage, faults>>

CommitAbortRejected(r) ==
    /\ r \in Aborts /\ ~Locked
    /\ Answer(r, "unaborted", "error")
    /\ session' = "failed"
    /\ UNCHANGED <<video, jobs, storage, faults>>

-----------------------------------------------------------------------------
\* What the API does of itself, and everything that may happen.

Serve(r) ==
    \/ CreateInStorage(r) \/ CommitCreate(r)
    \/ BeginComplete(r) \/ StorageCompletes(r) \/ Validate(r)
    \/ CommitCompleted(r) \/ CommitRejected(r) \/ AnswerComplete(r)
    \/ Refresh(r)
    \/ ReadForAbort(r) \/ StorageAborts(r) \/ CommitAbort(r) \/ CommitAbortRejected(r)

SessionNext ==
    \/ \E r \in Requests : Serve(r) \/ SendCreate(r) \/ SendOther(r) \/ Crash(r) \/ Disconnect(r)
    \/ \E r \in Completes, parts \in SUBSET stored : SendComplete(r, parts)
    \/ LosePart \/ \E p \in Parts : StorePart(p)

SessionSpec == SessionInit /\ [][SessionNext]_sessionVars

-----------------------------------------------------------------------------
\* A queued video has its file: the object is there and checked, and the jobs
\* that will read it were created with it and only once, whatever aborts,
\* second completions and crashes went on beside (complete_video_upload).
QueuedIsStored ==
    video = "pending" => object = "valid" /\ multipart = "completed" /\ jobs = 1

\* An aborted upload leaves neither an object nor an open multipart upload
\* that storage would keep for ever (abort_video_upload).
FailedLeavesNothing ==
    video = "failed" => object = "none" /\ multipart = "aborted" /\ jobs = 0

\* Completion and abort are final for the video: the one that loses the race
\* does not overwrite the one that won, although abort decides on rows it
\* read unlocked, before its call to storage.
OutcomeIsFinal == [][(video \in {"pending", "failed"}) => video' = video]_<<video>>

Quiet == \A r \in Requests : at[r] \in {"none", "done"}

\* While nothing has failed no race leaves a video that can neither be
\* completed nor aborted any more: between requests an uploading video has
\* its active session and its open multipart upload.
NothingStranded ==
    Quiet /\ faults = 0 /\ video = "uploading" =>
        session = "active" /\ multipart = "open"
=============================================================================
