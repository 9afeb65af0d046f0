---------------------------- MODULE UploadProofs ----------------------------
(***************************************************************************)
(* Proofs about UploadSession and MultipartUpload for any number of parts, *)
(* of clients of the API and of their requests, and of faults.             *)
(*                                                                         *)
(* The argument: a completion holds the locks from its decision to its     *)
(* commit, so what it found of the rows still holds there.  An abort has   *)
(* no lock while it calls storage, but storage aborts an upload only if it *)
(* is open and completes it only if it is open, and that decides the race. *)
(***************************************************************************)
EXTENDS MultipartUpload, FiniteSetTheorems, WellFoundedInduction, TLAPS

Busy(r) == at[r] \notin {"none", "done"}
Holds(r) == at[r] \in {"locked", "assembled", "validated", "rejected"}

\* One creation at a time, and nothing else before there is a video.
CreateInv ==
    /\ \A c \in Creates :
          /\ at[c] = "sent" => video = "none" /\ multipart = "none"
          /\ at[c] = "storage" => video = "none" /\ multipart = "open"
    /\ \A c, d \in Creates : Busy(c) /\ Busy(d) => c = d
    /\ video = "none" => \A r \in Requests \ Creates : ~Busy(r)

\* One completion holds the locks, and what it has seen stays so.
LockInv ==
    /\ \A r, s \in Completes : Holds(r) /\ Holds(s) => r = s
    /\ \A r \in Completes : Holds(r) => Uploading
    /\ \A r \in Completes :
          /\ at[r] \in {"assembled", "validated"} => multipart = "completed"
          /\ at[r] = "validated" => object = "valid"

\* Storage decides between completion and abort.
StorageInv ==
    /\ \A r \in Aborts : at[r] = "aborted" => multipart = "aborted"
    /\ object # "none" => multipart = "completed"
    /\ video = "failed" => multipart = "aborted"
    /\ video # "pending" => jobs = 0

SInv ==
    /\ at \in [Requests -> Stages]
    /\ jobs \in Nat
    /\ CreateInv /\ LockInv /\ StorageInv /\ QueuedIsStored

USE SessionAssumption

\* Where a request goes, and that the others stay.
Goes(r, from, to) ==
    /\ at[r] = from /\ at'[r] = to
    /\ at' \in [Requests -> Stages]
    /\ \A s \in Requests \ {r} : at'[s] = at[s]

LEMMA AdvanceGoes ==
  ASSUME SInv, NEW r \in Requests, NEW from, NEW to \in Stages, Advance(r, from, to)
  PROVE  Goes(r, from, to)
  BY DEF SInv, Advance, Goes

LEMMA AnswerGoes ==
  ASSUME SInv, NEW r \in Requests, NEW from, NEW answer, Answer(r, from, answer)
  PROVE  Goes(r, from, "done")
  BY DEF SInv, Answer, Goes, Stages

LEMMA PostGoes ==
  ASSUME SInv, NEW r \in Requests, Post(r)
  PROVE  Goes(r, at[r], "sent") /\ ~Busy(r)
  BY DEF SInv, Post, Idle, Goes, Stages, Busy

LEMMA InitIsSound == SessionInit => SInv
  BY DEF SessionInit, SInv, CreateInv, LockInv, StorageInv, QueuedIsStored, Busy, Holds,
         Stages, Requests

LEMMA CreateStep ==
  ASSUME SInv, NEW r \in Requests, CreateInStorage(r) \/ CommitCreate(r)
  PROVE  SInv'
  <1>1. CASE CreateInStorage(r)
    <2>1. r \in Creates /\ UNCHANGED <<video, session, jobs, object>>
      BY <1>1 DEF CreateInStorage, rows
    <2>2. \/ Goes(r, "sent", "storage") /\ multipart' = "open"
          \/ Goes(r, "sent", "done")
      BY <1>1, AdvanceGoes, AnswerGoes DEF CreateInStorage, Stages
    <2>3. video = "none" /\ multipart = "none" /\ at[r] = "sent"
      BY <2>1, <2>2 DEF Goes, SInv, CreateInv
    <2>4. \A s \in Requests \ {r} : ~Busy(s) /\ ~Busy(s)'
      BY <2>1, <2>2, <2>3 DEF Goes, SInv, CreateInv, Busy
    <2> QED
      BY <2>1, <2>2, <2>3, <2>4
         DEF Goes, SInv, CreateInv, LockInv, StorageInv, QueuedIsStored, Busy, Holds, Requests
  <1>2. CASE CommitCreate(r)
    <2>1. /\ r \in Creates /\ UNCHANGED <<jobs, object, multipart>>
          /\ video' = "uploading" /\ session' = "active" /\ Goes(r, "storage", "done")
      BY <1>2, AnswerGoes DEF CommitCreate, storage
    <2>2. video = "none" /\ multipart = "open" /\ at[r] = "storage"
      BY <2>1 DEF Goes, SInv, CreateInv
    <2>3. \A s \in Requests \ {r} : ~Busy(s) /\ ~Busy(s)'
      BY <2>1, <2>2 DEF Goes, SInv, CreateInv, Busy
    <2> QED
      BY <2>1, <2>2, <2>3
         DEF Goes, SInv, CreateInv, LockInv, StorageInv, QueuedIsStored, Busy, Holds, Requests
  <1> QED
    BY <1>1, <1>2

\* A request that takes no lock and writes nothing, or only waits.
LEMMA QuietStep ==
  ASSUME SInv, NEW r \in Requests, NEW from, NEW to, Goes(r, from, to),
         UNCHANGED <<video, session, jobs, multipart, object>>,
         to \in {"sent", "done", "read", "unaborted", "rejected"},
         to # "done" => r \notin Creates /\ video # "none",
         to = "rejected" => Holds(r)
  PROVE  SInv'
  <1>1. CreateInv'
    BY DEF Goes, SInv, CreateInv, Busy, Requests
  <1>2. LockInv'
    BY DEF Goes, SInv, LockInv, Holds, Requests, Uploading
  <1>3. StorageInv'
    BY DEF Goes, SInv, StorageInv, Requests
  <1> QED
    BY <1>1, <1>2, <1>3 DEF Goes, SInv, QueuedIsStored

\* A step of a completion that holds the locks, up to its commit.
LEMMA CompleteStep ==
  ASSUME SInv, NEW r \in Requests, BeginComplete(r) \/ StorageCompletes(r) \/ Validate(r)
  PROVE  SInv'
  <1>0. r \in Completes /\ r \notin Creates /\ r \notin Aborts
    BY DEF BeginComplete, StorageCompletes, Validate
  <1>1. CASE BeginComplete(r)
    <2>1. UNCHANGED <<video, session, jobs, multipart, object>> /\ ~Locked
      BY <1>1 DEF BeginComplete, rows, storage
    <2>2. Goes(r, "sent", "done") \/ (Goes(r, "sent", "locked") /\ Uploading)
      BY <1>1, AdvanceGoes, AnswerGoes DEF BeginComplete, Stages
    <2>3. CASE Goes(r, "sent", "done")
      BY <2>1, <2>3, QuietStep
    <2>4. CASE Goes(r, "sent", "locked") /\ Uploading
      <3>1. \A s \in Completes : ~Holds(s)
        BY <2>1 DEF Locked, Holds
      <3>2. CreateInv'
        BY <1>0, <2>1, <2>4 DEF Goes, SInv, CreateInv, Busy, Requests, Uploading
      <3>3. LockInv'
        BY <1>0, <2>1, <2>4, <3>1 DEF Goes, SInv, LockInv, Holds, Requests, Uploading
      <3>4. StorageInv'
        BY <1>0, <2>1, <2>4 DEF Goes, SInv, StorageInv, Requests
      <3> QED
        BY <2>1, <2>4, <3>2, <3>3, <3>4 DEF Goes, SInv, QueuedIsStored
    <2> QED
      BY <2>2, <2>3, <2>4
  <1>2. CASE StorageCompletes(r) \/ Validate(r)
    <2>1. UNCHANGED <<video, session, jobs>>
      BY <1>2 DEF StorageCompletes, Validate, rows
    <2>2. \E from \in {"locked", "assembled"}, to \in {"assembled", "validated", "rejected"} :
             Goes(r, from, to)
      BY <1>2, AdvanceGoes DEF StorageCompletes, Validate, Stages
    <2>3. Holds(r) /\ Holds(r)' /\ video = "uploading" /\ Uploading
      BY <1>0, <2>2 DEF Goes, Holds, SInv, LockInv, Uploading
    <2>4. /\ multipart = "open" /\ multipart' = "completed" /\ at[r] = "locked"
          \/ UNCHANGED multipart
      BY <1>2, <2>2 DEF StorageCompletes, Validate, Assemble, Goes, Advance
    <2>5. /\ at'[r] \in {"assembled", "validated"} => multipart' = "completed"
          /\ at'[r] = "validated" => object' = "valid"
          /\ object' # "none" => multipart' = "completed"
      BY <1>0, <1>2, <2>2, <2>3 DEF StorageCompletes, Validate, Assemble, Goes, Advance,
                                   SInv, LockInv, StorageInv
    <2>6. CreateInv'
      <3>1. \A c \in Creates : at'[c] = at[c]
        BY <1>0, <2>2 DEF Goes, Requests
      <3> QED
        BY <1>0, <2>1, <2>2, <2>3, <3>1 DEF Goes, SInv, CreateInv, Busy, Requests
    <2>7. LockInv'
      <3>1. \A s \in Completes \ {r} : ~Holds(s) /\ ~Holds(s)'
        BY <1>0, <2>2, <2>3 DEF Goes, Holds, SInv, LockInv, Requests
      <3> QED
        BY <2>1, <2>3, <2>5, <3>1 DEF LockInv, Holds, Uploading
    <2>8. StorageInv'
      <3>1. \A s \in Aborts : at'[s] = at[s]
        BY <1>0, <2>2 DEF Goes, Requests
      <3> QED
        BY <2>1, <2>3, <2>4, <2>5, <3>1 DEF SInv, StorageInv
    <2> QED
      BY <2>1, <2>2, <2>3, <2>6, <2>7, <2>8 DEF Goes, SInv, QueuedIsStored
  <1> QED
    BY <1>1, <1>2

LEMMA CommitStep ==
  ASSUME SInv, NEW r \in Requests, CommitCompleted(r) \/ CommitRejected(r)
  PROVE  SInv'
  <1>1. r \in Completes /\ r \notin Creates /\ r \notin Aborts /\ UNCHANGED <<multipart, object>>
    BY DEF CommitCompleted, CommitRejected, storage
  <1>2. \/ /\ Goes(r, "validated", "committed")
           /\ video' = "pending" /\ jobs' = jobs + 1
        \/ Goes(r, "rejected", "done") /\ UNCHANGED <<video, jobs>>
    BY AdvanceGoes, AnswerGoes DEF CommitCompleted, CommitRejected, Stages
  <1>3. Holds(r) /\ Uploading /\ jobs = 0
    BY <1>1, <1>2 DEF Goes, Holds, SInv, LockInv, StorageInv, Uploading
  <1>4. \A s \in Completes : ~Holds(s)'
    BY <1>1, <1>2, <1>3 DEF Goes, Holds, SInv, LockInv, Requests
  <1>5. at[r] = "validated" => multipart = "completed" /\ object = "valid"
    BY <1>1 DEF SInv, LockInv
  <1>6. CreateInv'
    <2>1. \A c \in Creates : at'[c] = at[c]
      BY <1>1, <1>2 DEF Goes, Requests
    <2> QED
      BY <1>1, <1>2, <1>3, <2>1 DEF SInv, CreateInv, Busy, Requests, Uploading
  <1>7. LockInv'
    BY <1>4 DEF LockInv, Holds
  <1>8. StorageInv'
    <2>1. \A s \in Aborts : at'[s] = at[s]
      BY <1>1, <1>2 DEF Goes, Requests
    <2> QED
      BY <1>1, <1>2, <1>3, <2>1 DEF SInv, StorageInv, Uploading
  <1> QED
    BY <1>1, <1>2, <1>3, <1>5, <1>6, <1>7, <1>8 DEF Goes, SInv, QueuedIsStored, Uploading

LEMMA AbortStep ==
  ASSUME SInv, NEW r \in Requests,
         StorageAborts(r) \/ CommitAbort(r) \/ CommitAbortRejected(r)
  PROVE  SInv' /\ (video \in {"pending", "failed"} => video' = video)
  <1>1. r \in Aborts /\ r \notin Creates /\ r \notin Completes /\ UNCHANGED <<jobs, object>>
    BY DEF StorageAborts, CommitAbort, CommitAbortRejected, rows, storage
  <1>2. video # "none"
    <2>1. Busy(r)
      BY DEF StorageAborts, CommitAbort, CommitAbortRejected, Advance, Answer, Busy
    <2> QED
      BY <1>1, <2>1 DEF SInv, CreateInv
  <1>3. CASE StorageAborts(r)
    <2>1. /\ UNCHANGED <<video, session>>
          /\ \/ Goes(r, "read", "aborted") /\ multipart = "open" /\ multipart' = "aborted"
             \/ /\ Goes(r, "read", "unaborted")
                /\ UNCHANGED multipart \/ (multipart = "open" /\ multipart' = "aborted")
      BY <1>3, AdvanceGoes DEF StorageAborts, Stages, rows
    <2>2. CreateInv'
      BY <1>1, <1>2, <2>1 DEF Goes, SInv, CreateInv, Busy, Requests
    <2>3. LockInv'
      BY <1>1, <2>1 DEF Goes, SInv, LockInv, Holds, Requests, Uploading
    <2>4. StorageInv'
      BY <1>1, <2>1 DEF Goes, SInv, StorageInv, Requests
    <2> QED
      BY <1>1, <2>1, <2>2, <2>3, <2>4 DEF Goes, SInv, QueuedIsStored
  <1>4. CASE CommitAbort(r)
    <2>1. /\ ~Locked /\ Goes(r, "aborted", "done") /\ UNCHANGED multipart
          /\ video' = "failed"
      BY <1>4, AnswerGoes DEF CommitAbort, storage
    <2>2. multipart = "aborted" /\ video # "pending"
      BY <1>1, <2>1 DEF Goes, SInv, StorageInv, QueuedIsStored
    <2>3. CreateInv'
      BY <1>1, <1>2, <2>1 DEF Goes, SInv, CreateInv, Busy, Requests
    <2>4. LockInv'
      BY <1>1, <2>1 DEF Goes, LockInv, Locked, Holds, Requests
    <2>5. StorageInv'
      BY <1>1, <2>1, <2>2 DEF Goes, SInv, StorageInv, Requests
    <2> QED
      BY <1>1, <2>1, <2>2, <2>3, <2>4, <2>5 DEF Goes, SInv, QueuedIsStored
  <1>5. CASE CommitAbortRejected(r)
    <2>1. /\ ~Locked /\ Goes(r, "unaborted", "done") /\ UNCHANGED <<video, multipart>>
      BY <1>5, AnswerGoes DEF CommitAbortRejected, storage
    <2>3. CreateInv'
      BY <1>1, <1>2, <2>1 DEF Goes, SInv, CreateInv, Busy, Requests
    <2>4. LockInv'
      BY <1>1, <2>1 DEF Goes, LockInv, Locked, Holds, Requests
    <2>5. StorageInv'
      BY <1>1, <2>1 DEF Goes, SInv, StorageInv, Requests
    <2> QED
      BY <1>1, <2>1, <2>3, <2>4, <2>5 DEF Goes, SInv, QueuedIsStored
  <1> QED
    BY <1>3, <1>4, <1>5

\* Requests that are answered at once, sent, dropped or lost.
LEMMA OtherStep ==
  ASSUME SInv, NEW r \in Requests,
         \/ AnswerComplete(r) \/ Refresh(r) \/ ReadForAbort(r) \/ Crash(r)
         \/ SendOther(r) \/ \E parts : SendComplete(r, parts)
  PROVE  SInv' /\ UNCHANGED video
  <1>1. UNCHANGED <<video, session, jobs, multipart, object>>
    BY DEF AnswerComplete, Refresh, ReadForAbort, Crash, SendOther, SendComplete, rows, storage
  <1>2. CASE AnswerComplete(r) \/ Refresh(r) \/ Crash(r)
    <2>1. \E from : Goes(r, from, "done")
      BY <1>2, AnswerGoes DEF AnswerComplete, Refresh, Crash
    <2> QED
      BY <1>1, <2>1, QuietStep
  <1>3. CASE ReadForAbort(r)
    <2>1. /\ r \in Aborts /\ r \notin Creates /\ video # "none" /\ Goes(r, "sent", "read")
          \/ Goes(r, "sent", "done")
      BY <1>3, AdvanceGoes, AnswerGoes DEF ReadForAbort, Uploading, Stages
    <2> QED
      BY <1>1, <2>1, QuietStep
  <1>4. CASE SendOther(r) \/ \E parts : SendComplete(r, parts)
    <2>1. Goes(r, at[r], "sent") /\ r \notin Creates /\ video # "none"
      BY <1>4, PostGoes DEF SendOther, SendComplete
    <2> QED
      BY <1>1, <2>1, QuietStep
  <1> QED
    BY <1>1, <1>2, <1>3, <1>4

LEMMA SendCreateStep ==
  ASSUME SInv, NEW r \in Requests, SendCreate(r)
  PROVE  SInv' /\ UNCHANGED video
  <1>1. /\ r \in Creates /\ video = "none" /\ multipart = "none"
        /\ UNCHANGED <<video, session, jobs, multipart, object>>
        /\ Goes(r, at[r], "sent") /\ \A c \in Creates : ~Busy(c)
    BY PostGoes DEF SendCreate, rows, storage, Idle, Busy
  <1>2. CreateInv'
    BY <1>1 DEF Goes, SInv, CreateInv, Busy, Requests
  <1>3. LockInv'
    BY <1>1 DEF Goes, SInv, LockInv, Holds, Requests, Uploading
  <1>4. StorageInv'
    BY <1>1 DEF Goes, SInv, StorageInv, Requests
  <1> QED
    BY <1>1, <1>2, <1>3, <1>4 DEF Goes, SInv, QueuedIsStored

\* A step that concerns neither the rows nor what storage and the API decide by.
LEMMA StoreStep ==
  ASSUME SInv, UNCHANGED <<video, session, jobs, multipart, object, at>>
  PROVE  SInv'
  BY DEF SInv, CreateInv, LockInv, StorageInv, QueuedIsStored, Busy, Holds, Uploading

LEMMA SessionStep ==
  SInv /\ [SessionNext]_sessionVars =>
      SInv' /\ (video \in {"pending", "failed"} => video' = video)
  <1> SUFFICES ASSUME SInv, [SessionNext]_sessionVars
               PROVE  SInv' /\ (video \in {"pending", "failed"} => video' = video)
    OBVIOUS
  <1>1. CASE UNCHANGED sessionVars
    BY <1>1, StoreStep DEF sessionVars
  <1>2. ASSUME NEW p \in Parts, StorePart(p)
        PROVE  SInv' /\ UNCHANGED video
    BY <1>2, StoreStep DEF StorePart, rows
  <1>3. ASSUME LosePart \/ \E r \in Requests : Disconnect(r)
        PROVE  SInv' /\ UNCHANGED video
    BY <1>3, StoreStep DEF LosePart, Disconnect, rows, storage
  <1>4. ASSUME NEW r \in Requests, Serve(r)
        PROVE  SInv' /\ (video \in {"pending", "failed"} => video' = video)
    <2>1. CASE CreateInStorage(r) \/ CommitCreate(r)
      <3>1. video \in {"pending", "failed"} => video' = video
        <4>1. CASE CreateInStorage(r)
          BY <4>1 DEF CreateInStorage, rows
        <4>2. CASE CommitCreate(r)
          BY <4>2 DEF CommitCreate, Answer, SInv, CreateInv
        <4> QED
          BY <2>1, <4>1, <4>2
      <3> QED
        BY <2>1, <3>1, CreateStep
    <2>2. CASE BeginComplete(r) \/ StorageCompletes(r) \/ Validate(r)
      BY <2>2, CompleteStep DEF BeginComplete, StorageCompletes, Validate, rows
    <2>3. CASE CommitCompleted(r) \/ CommitRejected(r)
      <3>1. Uploading
        BY <2>3 DEF CommitCompleted, CommitRejected, Advance, Answer, SInv, LockInv, Holds
      <3> QED
        BY <2>3, <3>1, CommitStep DEF Uploading
    <2>4. CASE AnswerComplete(r) \/ Refresh(r) \/ ReadForAbort(r)
      BY <2>4, OtherStep
    <2>5. CASE StorageAborts(r) \/ CommitAbort(r) \/ CommitAbortRejected(r)
      BY <2>5, AbortStep
    <2> QED
      BY <1>4, <2>1, <2>2, <2>3, <2>4, <2>5 DEF Serve
  <1>5. ASSUME NEW r \in Completes, NEW parts, SendComplete(r, parts)
        PROVE  SInv' /\ UNCHANGED video
    BY <1>5, OtherStep DEF Requests
  <1> QED
    BY <1>1, <1>2, <1>3, <1>4, <1>5, OtherStep, SendCreateStep DEF SessionNext

-----------------------------------------------------------------------------
\* The controller is a client like any other.

USE ControllerAssumption

LEMMA ControllerStep == [Next]_vars => [SessionNext]_sessionVars
  <1> SUFFICES ASSUME [Next]_vars PROVE [SessionNext]_sessionVars
    OBVIOUS
  <1>1. /\ CreateReq \in Requests /\ CompleteReq \in Requests
        /\ RefreshReq \in Requests /\ AbortReq \in Requests
    BY DEF Requests
  <1>2. CASE UNCHANGED vars
    BY <1>2 DEF vars
  <1>3. CASE Start \/ Retry \/ Cancel
    BY <1>1, <1>3 DEF Start, Retry, Cancel, SessionNext
  <1>4. CASE Created \/ CreateFailed \/ Refreshed \/ RefreshFailed \/ Completed \/ CompleteFailed
    BY <1>4 DEF Created, CreateFailed, Refreshed, RefreshFailed, Completed, CompleteFailed
  <1>5. ASSUME NEW p \in Parts, PartUploaded(p)
        PROVE  [SessionNext]_sessionVars
    <2>1. UNCHANGED sessionVars \/ SendComplete(CompleteReq, completed')
      BY <1>5 DEF PartUploaded, Settle
    <2>2. SendComplete(CompleteReq, completed') => completed' \in SUBSET stored
      BY DEF SendComplete
    <2> QED
      BY <2>1, <2>2 DEF SessionNext
  <1>6. ASSUME NEW p \in Parts, PartRefused(p) \/ PartStored(p) \/ PartFails(p)
        PROVE  [SessionNext]_sessionVars
    BY <1>6 DEF PartRefused, PartStored, PartFails, SessionNext
  <1>7. ASSUME NEW r \in Requests, ServeRequest(r) \/ Upset(r)
        PROVE  [SessionNext]_sessionVars
    BY <1>7 DEF ServeRequest, Upset, SessionNext
  <1>8. ASSUME NEW r \in Other, OtherSends(r)
        PROVE  [SessionNext]_sessionVars
    <2>1. r \in Requests
      BY DEF Other, Requests
    <2>2. SendComplete(r, stored) => r \in Completes /\ stored \in SUBSET stored
      BY DEF SendComplete
    <2> QED
      BY <1>8, <2>1, <2>2 DEF OtherSends, SessionNext
  <1> QED
    BY <1>2, <1>3, <1>4, <1>5, <1>6, <1>7, <1>8 DEF Next, Answered

\* The browser's controller, its failing PUTs and the other clients of the API
\* only take steps that module UploadSession allows.
THEOREM SessionTheorem == Spec => SessionSpec
  <1>1. Init => SessionInit
    BY DEF Init
  <1> QED
    BY <1>1, ControllerStep, PTL DEF Spec, SessionSpec

LEMMA SessionIsSound == Spec => []SInv
  <1>1. SInv /\ [Next]_vars => SInv'
    BY ControllerStep, SessionStep
  <1>2. Init => SInv
    BY InitIsSound DEF Init
  <1> QED
    BY <1>1, <1>2, PTL DEF Spec

\* A queued video has its file, for any number of concurrent requests, crashes
\* and storage faults (complete_video_upload).
THEOREM QueuedTheorem == Spec => []QueuedIsStored
  <1>1. SInv => QueuedIsStored
    BY DEF SInv
  <1> QED
    BY <1>1, SessionIsSound, PTL

\* An aborted upload leaves nothing in storage (abort_video_upload).
THEOREM AbortedTheorem == Spec => []FailedLeavesNothing
  <1>1. SInv => FailedLeavesNothing
    BY DEF SInv, StorageInv, FailedLeavesNothing
  <1> QED
    BY <1>1, SessionIsSound, PTL

\* The loser of a race between completions and aborts does not overwrite the
\* winner (complete_video_upload, abort_video_upload).
THEOREM OutcomeTheorem == Spec => OutcomeIsFinal
  <1>1. SInv /\ [Next]_vars => [(video \in {"pending", "failed"}) => video' = video]_<<video>>
    BY ControllerStep, SessionStep
  <1> QED
    BY <1>1, SessionIsSound, PTL DEF Spec, OutcomeIsFinal

-----------------------------------------------------------------------------
\* Sets of parts.

LEMMA LeastExists ==
  ASSUME NEW S \in SUBSET Nat, S # {}
  PROVE  \E m \in S : \A n \in S : m <= n
  <1>1. PICK m \in S : \A n \in S : ~(<<n, m>> \in OpToRel(<, Nat))
    BY NatLessThanWellFounded, WFMin
  <1>2. \A n \in S : ~(n < m)
    BY <1>1 DEF OpToRel
  <1> QED
    BY <1>2

LEMMA GreatestExists ==
  ASSUME NEW S \in SUBSET Parts, S # {}
  PROVE  \E m \in S : \A n \in S : n <= m
  <1>1. PICK n \in Nat : Parts = 1..n
    BY FS_CardinalityType
  <1> DEFINE Bounds == {m \in Nat : \A k \in S : k <= m}
  <1>2. n \in Bounds
    BY <1>1
  <1>3. PICK m \in Bounds : \A k \in Bounds : m <= k
    BY <1>2, LeastExists
  <1>4. m \in S
    <2>1. SUFFICES ASSUME m \notin S PROVE FALSE
      OBVIOUS
    <2>2. ASSUME NEW k \in S PROVE k \in Nat /\ 1 <= k /\ k <= m - 1
      <3>1. k \in 1..n /\ k <= m /\ k # m /\ m \in Nat
        BY <1>1, <1>3, <2>1
      <3> QED
        BY <3>1
    <2>3. PICK k \in S : TRUE
      OBVIOUS
    <2>4. m - 1 \in Nat
      BY <1>3, <2>2, <2>3
    <2>5. m - 1 \in Bounds
      BY <2>2, <2>4
    <2> QED
      BY <1>3, <2>4, <2>5
  <1> QED
    BY <1>3, <1>4

LEMMA PartsAreFinite ==
  ASSUME NEW S \in SUBSET Parts
  PROVE  IsFiniteSet(S) /\ S \in SUBSET Nat /\ Cardinality(S) \in Nat
  <1>1. PICK n \in Nat : Parts = 1..n
    BY FS_CardinalityType
  <1>2. IsFiniteSet(Parts)
    BY <1>1, FS_Interval
  <1>3. IsFiniteSet(S)
    BY <1>2, FS_Subset
  <1>4. S \in SUBSET Nat
    BY <1>1
  <1> QED
    BY <1>3, <1>4, FS_CardinalityType

\* The workers of the pool take no more parts than there are workers, and one
\* at least.
LEMMA TakenIsBounded ==
  ASSUME NEW q \in SUBSET Parts
  PROVE  Taken(q) \subseteq q /\ Cardinality(Taken(q)) <= MaxConcurrent
  <1>1. Taken(q) \subseteq q
    BY DEF Taken
  <1>2. CASE Taken(q) = {}
    BY <1>1, <1>2, FS_EmptySet
  <1>3. CASE Taken(q) # {}
    <2>1. PICK m \in Taken(q) : \A p \in Taken(q) : p <= m
      BY <1>1, <1>3, GreatestExists
    <2> DEFINE Before == {s \in q : s < m}
    <2>2. Cardinality(Before) < MaxConcurrent /\ Cardinality(Before) \in Nat
      BY <2>1, PartsAreFinite DEF Taken
    <2>3. Taken(q) \subseteq Before \cup {m}
      <3>1. Taken(q) \in SUBSET Nat /\ m \in Nat
        BY <1>1, PartsAreFinite
      <3> QED
        BY <1>1, <2>1, <3>1
    <2>4. IsFiniteSet(Before \cup {m}) /\ Cardinality(Before \cup {m}) <= Cardinality(Before) + 1
      <3>1. IsFiniteSet(Before)
        BY PartsAreFinite
      <3>2. \/ Cardinality(Before \cup {m}) = Cardinality(Before)
            \/ Cardinality(Before \cup {m}) = Cardinality(Before) + 1
        BY <3>1, FS_AddElement
      <3>3. IsFiniteSet(Before \cup {m})
        BY <3>1, FS_AddElement
      <3> QED
        BY <2>2, <3>2, <3>3
    <2>5. Cardinality(Taken(q)) <= Cardinality(Before \cup {m})
      BY <2>3, <2>4, FS_Subset
    <2>6. Cardinality(Taken(q)) \in Nat /\ Cardinality(Before \cup {m}) \in Nat
      BY <1>1, <2>4, PartsAreFinite, FS_CardinalityType
    <2> QED
      BY <1>1, <2>2, <2>4, <2>5, <2>6
  <1> QED
    BY <1>2, <1>3

\* What NextPart takes of the queue: its first part, if there is one.
First(q) == {p \in q : \A s \in q : p <= s}

LEMMA FirstIs ==
  ASSUME NEW q \in SUBSET Parts
  PROVE  /\ First(q) \subseteq q
         /\ q # {} => \E p \in q : First(q) = {p}
         /\ q = {} => First(q) = {}
  <1>1. q \in SUBSET Nat
    BY PartsAreFinite
  <1>2. ASSUME q # {} PROVE \E p \in q : First(q) = {p}
    <2>1. PICK p \in q : \A s \in q : p <= s
      BY <1>1, <1>2, LeastExists
    <2>2. ASSUME NEW s \in First(q) PROVE s = p
      BY <1>1, <2>1, <2>2 DEF First
    <2> QED
      BY <2>1, <2>2 DEF First
  <1> QED
    BY <1>2 DEF First

-----------------------------------------------------------------------------
\* The pool.

\* Every part is completed, failed, waiting or under way, and only one of these.
Split ==
    /\ inflight \cup queue \cup failed = Parts \ completed
    /\ inflight \cap queue = {} /\ inflight \cap failed = {} /\ queue \cap failed = {}

Missing == failed = Parts \ completed /\ inflight = {}

PoolInv ==
    /\ completed \subseteq stored /\ completed \subseteq Parts
    /\ inflight \subseteq Parts /\ queue \subseteq Parts /\ failed \subseteq Parts
    /\ Cardinality(inflight) <= MaxConcurrent

\* Where the controller is, and what it has then.
PlaceInv ==
    /\ pc \in {"idle", "creating"} =>
          /\ ~known /\ completed = {} /\ failed = {} /\ inflight = {}
    /\ pc = "pool" => Split /\ known
    /\ pc = "refreshing" => Missing /\ known
    /\ pc = "completing" => completed = Parts /\ failed = {} /\ inflight = {}
    /\ pc = "rest" /\ ~cancelled => inflight = {}
    /\ status # "uploading" => pc = "rest" /\ inflight = {}
    /\ status = "upload_failed" /\ known => Missing
    /\ pc = "rest" /\ status = "uploading" => cancelled
    /\ status \in {"uploading", "upload_failed", "pending"} /\ pc \in Places
    /\ ~known => failed = {}

CInv == PoolInv /\ PlaceInv

LEMMA InitIsInPlace == Init => CInv
  BY FS_EmptySet DEF Init, CInv, PoolInv, PlaceInv, Places

\* A step of storage or of the API changes nothing here, and parts are never
\* taken from storage.
LEMMA StoredGrows ==
  ASSUME CInv, stored \subseteq stored', UNCHANGED ctlVars
  PROVE  CInv'
  BY DEF CInv, PoolInv, PlaceInv, Split, Missing, ctlVars, pool

LEMMA PoolStarts ==
  ASSUME CInv, NEW parts \in SUBSET Parts, StartPool(parts), parts = Parts \ completed,
         known', status = "uploading", UNCHANGED <<stored, status, cancelled>>
  PROVE  CInv'
  <1>1. Taken(parts) \subseteq parts /\ Cardinality(Taken(parts)) <= MaxConcurrent
    BY TakenIsBounded
  <1>2. PoolInv'
    BY <1>1 DEF CInv, PoolInv, StartPool
  <1>3. Split' /\ pc' = "pool"
    BY <1>1 DEF StartPool, Split
  <1>4. PlaceInv'
    BY <1>3 DEF PlaceInv, Places
  <1> QED
    BY <1>2, <1>4 DEF CInv

\* The worker of p is done with it.
LEMMA NextPartIs ==
  ASSUME CInv, NEW p \in inflight, NextPart(p)
  PROVE  /\ inflight' \subseteq (inflight \ {p}) \cup queue /\ queue' \subseteq queue
         /\ inflight' \cup queue' = (inflight \ {p}) \cup queue
         /\ inflight \cap queue = {} => inflight' \cap queue' = {}
         /\ inflight' = {} => queue' = {}
         /\ Cardinality(inflight') <= MaxConcurrent
  <1>1. inflight' = (inflight \ {p}) \cup First(queue) /\ queue' = queue \ First(queue)
    BY DEF NextPart, First
  <1>2. /\ First(queue) \subseteq queue
        /\ queue # {} => \E q \in queue : First(queue) = {q}
        /\ queue = {} => First(queue) = {}
    BY FirstIs DEF CInv, PoolInv
  <1>3. Cardinality(inflight') <= MaxConcurrent
    <2>1. /\ IsFiniteSet(inflight) /\ Cardinality(inflight) \in Nat
          /\ Cardinality(inflight) <= MaxConcurrent
      BY PartsAreFinite DEF CInv, PoolInv
    <2>2. IsFiniteSet(inflight \ {p}) /\ Cardinality(inflight \ {p}) = Cardinality(inflight) - 1
      BY <2>1, FS_RemoveElement
    <2>3. CASE First(queue) = {}
      <3>1. inflight' = inflight \ {p}
        BY <1>1, <2>3
      <3> QED
        BY <2>1, <2>2, <3>1
    <2>4. ASSUME NEW q \in queue, First(queue) = {q}
          PROVE  Cardinality(inflight') <= MaxConcurrent
      <3>1. inflight' = (inflight \ {p}) \cup {q}
        BY <1>1, <2>4
      <3>2. \/ Cardinality(inflight') = Cardinality(inflight \ {p})
            \/ Cardinality(inflight') = Cardinality(inflight \ {p}) + 1
        BY <2>2, <3>1, FS_AddElement
      <3> QED
        BY <2>1, <2>2, <3>2
    <2> QED
      BY <1>2, <2>3, <2>4
  <1> QED
    BY <1>1, <1>2, <1>3

\* Requests of the session leave the controller alone; they only add to stored.
LEMMA SessionGrows ==
  ASSUME [SessionNext]_sessionVars
  PROVE  stored \subseteq stored'
  <1>1. CASE UNCHANGED sessionVars
    BY <1>1 DEF sessionVars
  <1>2. ASSUME NEW p \in Parts, StorePart(p) PROVE stored \subseteq stored'
    BY <1>2 DEF StorePart
  <1>3. ASSUME NEW r \in Requests, Serve(r) PROVE stored \subseteq stored'
    BY <1>3 DEF Serve, CreateInStorage, CommitCreate, BeginComplete, StorageCompletes, Validate,
                CommitCompleted, CommitRejected, AnswerComplete, Refresh, ReadForAbort,
                StorageAborts, CommitAbort, CommitAbortRejected, storage
  <1>4. ASSUME NEW r \in Requests, SendCreate(r) \/ SendOther(r) \/ Crash(r) \/ Disconnect(r)
        PROVE  stored \subseteq stored'
    BY <1>4 DEF SendCreate, SendOther, Crash, Disconnect, storage
  <1>5. ASSUME LosePart \/ \E r \in Completes, parts \in SUBSET stored : SendComplete(r, parts)
        PROVE  stored \subseteq stored'
    BY <1>5 DEF LosePart, SendComplete, storage
  <1> QED
    BY <1>1, <1>2, <1>3, <1>4, <1>5 DEF SessionNext

\* A part is done with, and the pool goes on.
LEMMA UploadedKeeps ==
  ASSUME CInv, NEW p \in Parts, PartUploaded(p), stored \subseteq stored'
  PROVE  CInv'
  <1>1. /\ p \in inflight /\ p \in stored /\ completed' = completed \cup {p}
        /\ NextPart(p) /\ Settle /\ UNCHANGED <<failed, known, cancelled>>
    BY DEF PartUploaded
  <1>2. PoolInv'
    BY <1>1, NextPartIs DEF CInv, PoolInv
  <1>3. status = "uploading" /\ (pc = "pool" \/ pc = "rest") /\ (pc = "rest" => cancelled)
    BY <1>1 DEF CInv, PlaceInv, Places, Missing
  <1>4. Split => Split'
    <2> SUFFICES ASSUME Split PROVE Split'
      OBVIOUS
    <2>1. inflight' \cup queue' \cup failed' = Parts \ completed'
      BY <1>1, NextPartIs DEF Split, CInv, PoolInv
    <2> QED
      BY <1>1, <2>1, NextPartIs DEF Split
  <1>5. PlaceInv'
    <2>1. CASE pc = "pool" /\ inflight' = {}
      <3>1. Split' /\ queue' = {}
        BY <1>1, <1>4, <2>1, NextPartIs DEF CInv, PlaceInv
      <3>2. failed' = Parts \ completed' /\ completed' \subseteq Parts
        BY <1>2, <2>1, <3>1 DEF Split, PoolInv
      <3>3. \/ pc' = "rest" /\ status' = IF cancelled THEN status ELSE "upload_failed"
            \/ /\ pc' = "completing" /\ status' = status
               /\ failed' = {} /\ completed' = Parts
        BY <1>1, <2>1 DEF Settle, GiveUp
      <3>4. known \/ failed' = {}
        BY <1>1 DEF CInv, PlaceInv
      <3> QED
        BY <1>1, <1>3, <2>1, <3>2, <3>3, <3>4 DEF PlaceInv, Missing, Places
    <2>2. CASE ~(pc = "pool" /\ inflight' = {})
      <3>1. UNCHANGED <<pc, status>>
        BY <1>1, <2>2 DEF Settle
      <3> QED
        BY <1>1, <1>3, <1>4, <3>1 DEF CInv, PlaceInv, Places
    <2> QED
      BY <2>1, <2>2
  <1> QED
    BY <1>2, <1>5 DEF CInv

LEMMA LostKeeps ==
  ASSUME CInv, NEW p \in Parts, PartLost(p), stored \subseteq stored'
  PROVE  CInv'
  <1>1. p \in inflight /\ UNCHANGED <<completed, known, cancelled>>
    BY DEF PartLost
  <1>2. status = "uploading" /\ (pc = "pool" \/ pc = "rest") /\ (pc = "rest" => cancelled)
    BY <1>1 DEF CInv, PlaceInv, Places, Missing
  <1>3. CASE cancelled
    <2>1. inflight' = inflight \ {p} /\ UNCHANGED <<failed, queue>>
          /\ IF pc = "pool" THEN GiveUp ELSE UNCHANGED <<pc, status>>
      BY <1>3 DEF PartLost
    <2>2. pc' = "rest" /\ status' = "uploading"
      BY <1>2, <1>3, <2>1 DEF GiveUp
    <2>3. PoolInv'
      <3>1. IsFiniteSet(inflight) /\ Cardinality(inflight') <= Cardinality(inflight)
        BY <2>1, PartsAreFinite, FS_Subset DEF CInv, PoolInv
      <3>2. Cardinality(inflight) \in Nat /\ Cardinality(inflight') \in Nat
        BY <2>1, PartsAreFinite DEF CInv, PoolInv
      <3> QED
        BY <1>1, <2>1, <3>1, <3>2 DEF CInv, PoolInv
    <2>4. PlaceInv'
      BY <1>1, <1>3, <2>1, <2>2 DEF CInv, PlaceInv, Places
    <2> QED
      BY <2>3, <2>4 DEF CInv
  <1>4. CASE ~cancelled
    <2>1. failed' = failed \cup {p} /\ NextPart(p)
          /\ IF inflight' = {} THEN GiveUp ELSE UNCHANGED <<pc, status>>
      BY <1>4 DEF PartLost
    <2>2. pc = "pool" /\ Split /\ known
      BY <1>1, <1>2, <1>4 DEF CInv, PlaceInv
    <2>3. PoolInv'
      BY <1>1, <2>1, NextPartIs DEF CInv, PoolInv
    <2>4. Split'
      BY <1>1, <2>1, <2>2, NextPartIs DEF Split, CInv, PoolInv
    <2>5. CASE inflight' = {}
      <3>1. pc' = "rest" /\ status' = "upload_failed" /\ queue' = {}
        BY <1>1, <1>4, <2>1, <2>5, NextPartIs DEF GiveUp
      <3>2. Missing'
        BY <2>4, <2>5, <3>1 DEF Split, Missing
      <3> QED
        BY <1>1, <2>2, <2>3, <2>5, <3>1, <3>2 DEF CInv, PlaceInv, Places
    <2>6. CASE inflight' # {}
      <3>1. pc' = "pool" /\ status' = "uploading"
        BY <1>2, <2>1, <2>2, <2>6
      <3> QED
        BY <1>1, <2>2, <2>3, <2>4, <3>1 DEF CInv, PlaceInv, Places
    <2> QED
      BY <2>5, <2>6
  <1> QED
    BY <1>3, <1>4

LEMMA ControllerKeeps == CInv /\ [Next]_vars => CInv'
  <1> SUFFICES ASSUME CInv, [Next]_vars PROVE CInv'
    OBVIOUS
  <1>0. stored \subseteq stored'
    BY ControllerStep, SessionGrows
  <1>1. CASE UNCHANGED ctlVars
    BY <1>0, <1>1, StoredGrows
  <1>2. CASE Start
    BY <1>0, <1>2 DEF Start, CInv, PoolInv, PlaceInv, Missing, Split, Places, pool
  <1>3. CASE Retry
    BY <1>0, <1>3 DEF Retry, CInv, PoolInv, PlaceInv, Missing, Split, Places, pool
  <1>4. CASE Cancel
    <2>1. UNCHANGED <<status, known, completed, failed, queue>> /\ cancelled'
          /\ \/ pc = "pool" /\ inflight' = {} /\ pc' = "rest"
             \/ pc # "pool" /\ UNCHANGED <<inflight, pc>>
      BY <1>4 DEF Cancel
    <2>2. Cardinality(inflight') <= MaxConcurrent
      <3>1. CASE inflight' = {}
        BY <3>1, FS_EmptySet
      <3>2. CASE inflight' = inflight
        BY <3>2 DEF CInv, PoolInv
      <3> QED
        BY <2>1, <3>1, <3>2
    <2>3. PoolInv'
      BY <1>0, <2>1, <2>2 DEF CInv, PoolInv
    <2>4. PlaceInv'
      BY <2>1 DEF CInv, PlaceInv, Missing, Split, Places
    <2> QED
      BY <2>3, <2>4 DEF CInv
  <1>5. CASE Created \/ Refreshed
    <2>1. UNCHANGED <<stored, status, cancelled>>
      BY <1>5 DEF Created, Refreshed, sessionVars
    <2>2. known' /\ status = "uploading"
          /\ \E parts \in SUBSET Parts : StartPool(parts) /\ parts = Parts \ completed
      BY <1>5 DEF Created, Refreshed, CInv, PlaceInv, Missing
    <2> QED
      BY <2>1, <2>2, PoolStarts
  <1>6. CASE CreateFailed \/ RefreshFailed \/ CompleteFailed
    <2>1. /\ pc \in {"creating", "refreshing", "completing"} /\ pc' = "rest"
          /\ status' = (IF cancelled THEN status ELSE "upload_failed")
          /\ UNCHANGED <<known, completed, failed, queue, inflight, cancelled>>
      BY <1>6 DEF CreateFailed, RefreshFailed, CompleteFailed, GiveUp, pool
    <2>2. PoolInv'
      BY <1>0, <2>1 DEF CInv, PoolInv
    <2>3. status = "uploading" /\ inflight = {} /\ (known => Missing)
      BY <2>1 DEF CInv, PlaceInv, Missing
    <2>4. PlaceInv'
      BY <2>1, <2>3 DEF CInv, PlaceInv, Missing, Places
    <2> QED
      BY <2>2, <2>4 DEF CInv
  <1>7. CASE Completed
    BY <1>0, <1>7 DEF Completed, CInv, PoolInv, PlaceInv, Missing, Split, Places, pool
  <1>8. ASSUME NEW p \in Parts, PartUploaded(p) \/ PartRefused(p) \/ PartFails(p)
        PROVE  CInv'
    BY <1>0, <1>8, UploadedKeeps, LostKeeps DEF PartRefused, PartFails
  <1>9. ASSUME \/ \E p \in Parts : PartStored(p)
               \/ \E r \in Requests : ServeRequest(r) \/ Upset(r)
               \/ \E r \in Other : OtherSends(r)
        PROVE  UNCHANGED ctlVars
    BY <1>9 DEF PartStored, ServeRequest, Upset, OtherSends
  <1>10. CASE UNCHANGED vars
    BY <1>1, <1>10 DEF vars
  <1> QED
    BY <1>1, <1>2, <1>3, <1>4, <1>5, <1>6, <1>7, <1>8, <1>9, <1>10 DEF Next, Answered

LEMMA ControllerIsInPlace == Spec => []CInv
  BY InitIsInPlace, ControllerKeeps, PTL DEF Spec

\* Over any number of retries of any number of parts, a failed upload
\* remembers exactly the parts that are missing (retryFailedParts).
THEOREM PartsTheorem == Spec => []NoPartForgotten
  <1>1. CInv => NoPartForgotten
    BY DEF CInv, PoolInv, PlaceInv, Missing, NoPartForgotten
  <1> QED
    BY <1>1, ControllerIsInPlace, PTL

\* The pool never exceeds its size and never has a part twice, for any number
\* of parts and workers (uploadMissingParts).
THEOREM PoolTheorem == Spec => []PoolIsBounded
  <1>1. CInv => PoolIsBounded
    BY DEF CInv, PoolInv, PlaceInv, Split, PoolIsBounded
  <1> QED
    BY <1>1, ControllerIsInPlace, PTL

-----------------------------------------------------------------------------
\* The controller implements UploadRow.

RowOf ==
    IF pc = "idle" THEN "none"
    ELSE IF status = "uploading" THEN "uploading"
    ELSE IF status = "pending" THEN "finished"
    ELSE IF failed = {} THEN "failed" ELSE "retryable"

\* A step of the row, in terms of RowOf.
LEMMA ReportIs ==
  ASSUME NEW from, NEW to, RowOf = from, RowOf' = to, UNCHANGED cancelled
  PROVE  Row!Report("this", from, to)
  BY DEF Row!Report, RowOf

LEMMA QuietIs ==
  ASSUME RowOf' = RowOf, UNCHANGED cancelled
  PROVE  [Row!RowNext]_(Row!rowVars)
  BY DEF Row!rowVars, RowOf

\* The catch of start and retryFailedParts reports a failure, or nothing.
LEMMA GiveUpIs ==
  ASSUME GiveUp, status = "uploading", pc # "idle", UNCHANGED cancelled
  PROVE  [Row!RowNext]_(Row!rowVars)
  <1>1. CASE cancelled
    <2>1. RowOf' = RowOf
      BY <1>1 DEF GiveUp, RowOf
    <2> QED
      BY <2>1, QuietIs
  <1>2. CASE ~cancelled
    <2>1. RowOf = "uploading" /\ RowOf' \in {"failed", "retryable"}
      BY <1>2 DEF GiveUp, RowOf
    <2>2. Row!Report("this", "uploading", RowOf')
      BY <2>1, ReportIs
    <2>3. Row!RowFail("this", RowOf')
      BY <1>2, <2>1, <2>2 DEF Row!RowFail
    <2> QED
      BY <2>1, <2>3 DEF Row!RowNext
  <1> QED
    BY <1>1, <1>2

LEMMA CancelIs ==
  ASSUME CInv, Cancel
  PROVE  [Row!RowNext]_(Row!rowVars)
  <1>1. /\ pc # "idle" /\ pc' # "idle" /\ status # "pending" /\ ~cancelled
        /\ cancelled' = TRUE /\ UNCHANGED <<status, failed>>
    BY DEF Cancel
  <1>2. RowOf \in {"uploading", "retryable", "failed"} /\ RowOf' = RowOf
    BY <1>1 DEF RowOf
  <1>3. Row!CanCancel("this")
    BY <1>2 DEF Row!CanCancel, RowOf
  <1>4. Row!RowCancel({"this"})
    <2>1. \A u \in {"this"} : Row!CanCancel(u) /\ ~[v \in {"this"} |-> cancelled][u]
      BY <1>1, <1>3
    <2>2. [u \in {"this"} |-> cancelled'] =
             [u \in {"this"} |-> [v \in {"this"} |-> cancelled][u] \/ u \in {"this"}]
      BY <1>1
    <2>3. [u \in {"this"} |-> RowOf'] = [u \in {"this"} |-> RowOf]
      BY <1>2
    <2> QED
      BY <2>1, <2>2, <2>3 DEF Row!RowCancel, RowOf
  <1> QED
    BY <1>4 DEF Row!RowNext

LEMMA RowStep == CInv /\ [Next]_vars => [Row!RowNext]_(Row!rowVars)
  <1> SUFFICES ASSUME CInv, [Next]_vars PROVE [Row!RowNext]_(Row!rowVars)
    OBVIOUS
  <1>1. CASE UNCHANGED ctlVars
    <2>1. RowOf' = RowOf /\ UNCHANGED cancelled
      BY <1>1 DEF ctlVars, pool, RowOf
    <2> QED
      BY <2>1, QuietIs
  <1>2. CASE Start
    <2>1. RowOf = "none" /\ RowOf' = "uploading" /\ UNCHANGED cancelled
      BY <1>2 DEF Start, CInv, PlaceInv, RowOf
    <2> QED
      BY <2>1, ReportIs DEF Row!RowBegin, Row!RowNext
  <1>3. CASE Retry
    <2>1. RowOf = "retryable" /\ RowOf' = "uploading" /\ UNCHANGED cancelled /\ ~cancelled
      BY <1>3 DEF Retry, RowOf
    <2>2. Row!Report("this", "retryable", "uploading")
      BY <2>1, ReportIs
    <2>3. Row!RowRetry("this")
      BY <2>1, <2>2 DEF Row!RowRetry
    <2> QED
      BY <2>3 DEF Row!RowNext
  <1>4. CASE Cancel
    BY <1>4, CancelIs
  <1>5. CASE Created \/ Refreshed
    <2>1. status = "uploading" /\ pc # "idle" /\ pc' # "idle" /\ UNCHANGED <<status, cancelled>>
      BY <1>5 DEF Created, Refreshed, StartPool, CInv, PlaceInv
    <2>2. RowOf' = RowOf
      BY <2>1 DEF RowOf
    <2> QED
      BY <2>1, <2>2, QuietIs
  <1>6. CASE CreateFailed \/ RefreshFailed \/ CompleteFailed
    <2>1. GiveUp /\ pc \in {"creating", "refreshing", "completing"} /\ UNCHANGED cancelled
      BY <1>6 DEF CreateFailed, RefreshFailed, CompleteFailed
    <2>2. status = "uploading"
      BY <2>1 DEF CInv, PlaceInv
    <2> QED
      BY <2>1, <2>2, GiveUpIs
  <1>7. CASE Completed
    <2>1. RowOf = "uploading" /\ RowOf' = "finished" /\ UNCHANGED cancelled
      BY <1>7 DEF Completed, CInv, PlaceInv, RowOf
    <2> QED
      BY <2>1, ReportIs DEF Row!RowFinish, Row!RowNext
  <1>8. ASSUME NEW p \in Parts, PartUploaded(p) \/ PartLost(p)
        PROVE  [Row!RowNext]_(Row!rowVars)
    <2>1. p \in inflight /\ UNCHANGED cancelled
      BY <1>8 DEF PartUploaded, PartLost
    <2>2. status = "uploading" /\ pc \in {"pool", "rest"}
      BY <2>1 DEF CInv, PlaceInv, Places, Missing
    <2>3. GiveUp \/ UNCHANGED <<pc, status>> \/ (pc' = "completing" /\ UNCHANGED status)
      <3>1. CASE PartUploaded(p)
        BY <3>1 DEF PartUploaded, Settle
      <3>2. CASE PartLost(p)
        BY <3>2 DEF PartLost
      <3> QED
        BY <1>8, <3>1, <3>2
    <2>4. CASE GiveUp
      BY <2>1, <2>2, <2>4, GiveUpIs
    <2>5. CASE UNCHANGED <<pc, status>> \/ (pc' = "completing" /\ UNCHANGED status)
      <3>1. RowOf' = RowOf
        BY <2>2, <2>5 DEF RowOf
      <3> QED
        BY <2>1, <3>1, QuietIs
    <2> QED
      BY <2>3, <2>4, <2>5
  <1>9. ASSUME NEW p \in Parts, PartRefused(p) \/ PartFails(p)
        PROVE  [Row!RowNext]_(Row!rowVars)
    BY <1>8, <1>9 DEF PartRefused, PartFails
  <1>10. ASSUME \/ \E p \in Parts : PartStored(p)
                \/ \E r \in Requests : ServeRequest(r) \/ Upset(r)
                \/ \E r \in Other : OtherSends(r)
         PROVE  UNCHANGED ctlVars
    BY <1>10 DEF PartStored, ServeRequest, Upset, OtherSends
  <1>11. CASE UNCHANGED vars
    BY <1>1, <1>11 DEF vars
  <1> QED
    BY <1>1, <1>2, <1>3, <1>4, <1>5, <1>6, <1>7, <1>8, <1>9, <1>10, <1>11 DEF Next, Answered

\* The controller is what the dashboard takes it for: its rows change only as
\* module UploadRow says, whatever the network does (MultipartUploadController).
THEOREM RowTheorem == Spec => ImplementsRow
  <1>1. Init => Row!RowInit
    BY DEF Init, Row!RowInit
  <1> QED
    BY <1>1, RowStep, ControllerIsInPlace, PTL DEF Spec, ImplementsRow, Row!RowSpec

-----------------------------------------------------------------------------
\* Type correctness.

Answers == {"none", "awaited", "ok", "error"}

\* SessionTypeOK without what SInv says already.
SType ==
    /\ video \in {"none", "uploading", "pending", "failed"}
    /\ session \in {"none", "active", "completed", "failed", "aborted"}
    /\ multipart \in {"none", "open", "completed", "aborted"}
    /\ stored \in SUBSET Parts
    /\ object \in {"none", "valid", "invalid"}
    /\ reply \in [Requests -> Answers]
    /\ listed \in [Completes -> SUBSET Parts]
    /\ faults \in 0..MaxFaults

LEMMA FaultIsTyped == ASSUME faults \in 0..MaxFaults, Fault PROVE faults' \in 0..MaxFaults
  BY DEF Fault

LEMMA ServeIsTyped ==
  ASSUME SType, NEW r \in Requests, Serve(r)
  PROVE  SType'
  <1>1. reply' \in [Requests -> Answers] /\ UNCHANGED listed
    <2>1. \/ \E from, to : Advance(r, from, to)
          \/ \E from : \E answer \in {"ok", "error"} : Answer(r, from, answer)
      BY DEF Serve, CreateInStorage, CommitCreate, BeginComplete, StorageCompletes, Validate,
             CommitCompleted, CommitRejected, AnswerComplete, Refresh, ReadForAbort,
             StorageAborts, CommitAbort, CommitAbortRejected
    <2>2. CASE \E from, to : Advance(r, from, to)
      BY <2>2 DEF Advance, SType
    <2>3. ASSUME NEW from, NEW answer \in {"ok", "error"}, Answer(r, from, answer)
          PROVE  reply' \in [Requests -> Answers] /\ UNCHANGED listed
      BY <2>3 DEF Answer, SType, Answers
    <2> QED
      BY <2>1, <2>2, <2>3
  <1>2. faults' \in 0..MaxFaults
    <2>1. UNCHANGED faults \/ Fault
      BY DEF Serve, CreateInStorage, CommitCreate, BeginComplete, StorageCompletes, Validate,
             CommitCompleted, CommitRejected, AnswerComplete, Refresh, ReadForAbort,
             StorageAborts, CommitAbort, CommitAbortRejected
    <2> QED
      BY <2>1, FaultIsTyped DEF SType
  <1>3. /\ video' \in {video, "uploading", "pending", "failed"}
        /\ session' \in {session, "active", "completed", "failed", "aborted"}
        /\ multipart' \in {multipart, "none", "open", "completed", "aborted"}
        /\ object' \in {object, "none", "valid", "invalid"}
        /\ UNCHANGED stored
    BY DEF Serve, CreateInStorage, CommitCreate, BeginComplete, StorageCompletes, Validate, Assemble,
           CommitCompleted, CommitRejected, AnswerComplete, Refresh, ReadForAbort,
           StorageAborts, CommitAbort, CommitAbortRejected, rows, storage
  <1> QED
    BY <1>1, <1>2, <1>3 DEF SType

LEMMA SessionIsTyped == SType /\ [SessionNext]_sessionVars => SType'
  <1> SUFFICES ASSUME SType, [SessionNext]_sessionVars PROVE SType'
    OBVIOUS
  <1>1. CASE UNCHANGED sessionVars
    BY <1>1 DEF sessionVars, SType
  <1>2. ASSUME NEW r \in Requests, SendCreate(r) \/ SendOther(r)
        PROVE  SType'
    <2>1. Post(r) /\ UNCHANGED <<rows, storage, listed, faults>>
      BY <1>2 DEF SendCreate, SendOther
    <2> QED
      BY <2>1 DEF Post, rows, storage, SType, Answers
  <1>3. ASSUME NEW r \in Requests, Crash(r) \/ Disconnect(r)
        PROVE  SType'
    <2>1. reply' \in [Requests -> Answers] /\ Fault /\ UNCHANGED <<rows, storage, listed>>
      BY <1>3 DEF Crash, Disconnect, Answer, SType, Answers
    <2> QED
      BY <2>1, FaultIsTyped DEF rows, storage, SType
  <1>4. ASSUME NEW r \in Completes, NEW parts \in SUBSET stored, SendComplete(r, parts)
        PROVE  SType'
    <2>1. Post(r) /\ listed' = [listed EXCEPT ![r] = parts] /\ UNCHANGED <<rows, storage, faults>>
      BY <1>4 DEF SendComplete
    <2>2. reply' \in [Requests -> Answers]
      BY <2>1 DEF Post, SType, Answers
    <2>3. listed' \in [Completes -> SUBSET Parts]
      BY <2>1 DEF SType
    <2> QED
      BY <2>1, <2>2, <2>3 DEF rows, storage, SType
  <1>5. CASE LosePart
    BY <1>5, FaultIsTyped DEF LosePart, rows, storage, SType
  <1>6. ASSUME NEW p \in Parts, StorePart(p) PROVE SType'
    BY <1>6 DEF StorePart, rows, SType
  <1> QED
    BY <1>1, <1>2, <1>3, <1>4, <1>5, <1>6, ServeIsTyped DEF SessionNext

\* What the controller's invariant leaves open.
CType ==
    /\ known \in BOOLEAN /\ cancelled \in BOOLEAN
    /\ cancelledAt \in Places \cup {"never"}
    /\ jobs \in 0..1

LEMMA JobsAreTyped ==
  ASSUME SInv, SInv'
  PROVE  jobs' \in 0..1
  BY DEF SInv, QueuedIsStored, StorageInv

LEMMA ControllerIsTyped == CInv /\ CType /\ SInv /\ SInv' /\ [Next]_vars => CType'
  <1> SUFFICES ASSUME CInv, CType, SInv, SInv', [Next]_vars PROVE CType'
    OBVIOUS
  <1>1. cancelled' \in BOOLEAN /\ cancelledAt' \in Places \cup {"never"}
    <2>1. \/ UNCHANGED <<cancelled, cancelledAt>>
          \/ cancelled' = TRUE /\ cancelledAt' = pc
      BY DEF Next, Answered, Start, Retry, Cancel, Created, CreateFailed, Refreshed, RefreshFailed,
             Completed, CompleteFailed, PartUploaded, PartRefused, PartLost, PartStored, PartFails,
             ServeRequest, Upset, OtherSends, vars, ctlVars
    <2> QED
      BY <2>1 DEF CType, CInv, PlaceInv
  <1>2. known' \in BOOLEAN
    <2>1. UNCHANGED known \/ known' = TRUE
      BY DEF Next, Answered, Start, Retry, Cancel, Created, CreateFailed, Refreshed, RefreshFailed,
             Completed, CompleteFailed, PartUploaded, PartRefused, PartLost, PartStored, PartFails,
             ServeRequest, Upset, OtherSends, vars, ctlVars
    <2> QED
      BY <2>1 DEF CType
  <1> QED
    BY <1>1, <1>2, JobsAreTyped DEF CType

\* Type correctness of the session and of the controller.
THEOREM TypeTheorem == Spec => []TypeOK
  <1>1. Init => SType /\ CType
    <2> SUFFICES ASSUME Init PROVE SType /\ CType
      OBVIOUS
    <2>1. SType
      <3>1. faults \in 0..MaxFaults
        BY DEF Init, SessionInit
      <3>2. reply \in [Requests -> Answers] /\ listed \in [Completes -> SUBSET Parts]
        BY DEF Init, SessionInit, Answers
      <3> QED
        BY <3>1, <3>2 DEF Init, SessionInit, SType
    <2>2. known \in BOOLEAN /\ cancelled \in BOOLEAN
      BY DEF Init
    <2>3. cancelledAt = "never" /\ jobs \in 0..1
      BY DEF Init, SessionInit
    <2>4. CType
      BY <2>2, <2>3 DEF CType
    <2> QED
      BY <2>1, <2>4
  <1>2. SType /\ [Next]_vars => SType'
    BY ControllerStep, SessionIsTyped
  <1>3. SType /\ CType /\ SInv /\ CInv => TypeOK
    BY DEF SType, CType, SInv, CInv, PoolInv, PlaceInv, TypeOK, SessionTypeOK, Answers
  <1> QED
    BY <1>1, <1>2, <1>3, SessionIsSound, ControllerIsInPlace, ControllerIsTyped, PTL DEF Spec
=============================================================================
