------------------------- MODULE UploadRaceProofs -------------------------
(***************************************************************************)
(* What the races of an upload leave behind when nothing fails: proofs of  *)
(* NothingStranded and CancelledInTime for any number of parts and of      *)
(* other clients.                                                          *)
(***************************************************************************)
EXTENDS UploadProofs

USE SessionAssumption, ControllerAssumption

-----------------------------------------------------------------------------
\* Without a fault.

\* What is assembled is valid, and whoever ended the multipart upload has
\* ended the video with it or is about to.
Clean ==
    /\ multipart = "completed" => object = "valid"
    /\ multipart = "completed" =>
          video = "pending" \/ \E c \in Completes : at[c] \in {"assembled", "validated"}
    /\ multipart = "aborted" =>
          video = "failed" \/ \E a \in Aborts : at[a] = "aborted"
    /\ video # "none" => multipart # "none"
    /\ video = "uploading" => session = "active" \/ multipart = "aborted"
    /\ \A c \in Completes : /\ at[c] = "locked" => Parts \subseteq stored
                            /\ at[c] = "rejected" => multipart = "aborted"
    /\ \A a \in Aborts : at[a] = "unaborted" => multipart # "open"

\* A client lists only what storage has.
Listed == \A c \in Completes : listed[c] \subseteq stored

RaceInv == SInv /\ SType /\ Listed /\ (faults = 0 => Clean)

LEMMA NoFault == ASSUME faults = 0, Fault PROVE faults' # 0
  BY DEF Fault

\* Until the video is there, only its creation is under way.
LEMMA CleanCreate ==
  ASSUME SInv, Clean, faults = 0, faults' = 0,
         NEW r \in Requests, CreateInStorage(r) \/ CommitCreate(r)
  PROVE  Clean'
  <1>1. CASE CreateInStorage(r)
    <2>1. /\ r \in Creates /\ UNCHANGED <<video, session, jobs, stored, object>>
          /\ multipart' = "open" /\ Goes(r, "sent", "storage")
      BY <1>1, NoFault, AdvanceGoes DEF CreateInStorage, rows, Stages
    <2>2. \A s \in Requests \ {r} : at'[s] = at[s] /\ ~Busy(s)
      BY <2>1 DEF Goes, SInv, CreateInv, Busy
    <2>3. video = "none"
      BY <2>1 DEF Goes, SInv, CreateInv
    <2> QED
      BY <2>1, <2>2, <2>3 DEF Clean, Busy, Requests
  <1>2. CASE CommitCreate(r)
    <2>1. /\ r \in Creates /\ UNCHANGED <<multipart, stored, object>>
          /\ video' = "uploading" /\ session' = "active" /\ Goes(r, "storage", "done")
      BY <1>2, AnswerGoes DEF CommitCreate, storage
    <2>2. multipart = "open"
      BY <2>1 DEF Goes, SInv, CreateInv
    <2>3. \A s \in Requests \ {r} : at'[s] = at[s] /\ ~Busy(s)
      BY <2>1 DEF Goes, SInv, CreateInv, Busy
    <2> QED
      BY <2>1, <2>2, <2>3 DEF Clean, Busy, Requests
  <1> QED
    BY <1>1, <1>2

\* A completion up to its commit.
LEMMA CleanComplete ==
  ASSUME SInv, SType, Listed, Clean, faults = 0, faults' = 0,
         NEW r \in Requests, BeginComplete(r) \/ StorageCompletes(r) \/ Validate(r)
  PROVE  Clean'
  <1>0. /\ r \in Completes /\ r \notin Creates /\ r \notin Aborts
        /\ UNCHANGED <<video, session, jobs, stored>>
    BY DEF BeginComplete, StorageCompletes, Validate, rows, storage
  <1>1. CASE BeginComplete(r)
    <2>1. UNCHANGED <<multipart, object>>
      BY <1>1 DEF BeginComplete, storage
    <2>2. \/ Goes(r, "sent", "done")
          \/ Goes(r, "sent", "locked") /\ listed[r] = Parts
      BY <1>1, AdvanceGoes, AnswerGoes DEF BeginComplete, Stages
    <2>3. at'[r] = "locked" => Parts \subseteq stored
      BY <1>0, <2>2 DEF Goes, Listed
    <2>4. at[r] = "sent" /\ at'[r] \in {"done", "locked"}
      BY <2>2 DEF Goes
    <2>5. \A s \in Requests \ {r} : at'[s] = at[s]
      BY <2>2 DEF Goes
    <2> QED
      BY <1>0, <2>1, <2>3, <2>4, <2>5 DEF Clean, Requests
  <1>2. CASE StorageCompletes(r)
    <2>1. \E to \in {"assembled", "rejected"} : Goes(r, "locked", to)
      BY <1>2, AdvanceGoes DEF StorageCompletes, Stages
    <2>2. at[r] = "locked" /\ \A s \in Requests \ {r} : at'[s] = at[s]
      BY <2>1 DEF Goes
    <2>3. Uploading /\ \A c \in Completes : at[c] \notin {"assembled", "validated"}
      BY <1>0, <2>2 DEF SInv, LockInv, Holds
    <2>5. multipart \in {"open", "aborted"} /\ Parts \subseteq stored
      BY <1>0, <2>2, <2>3 DEF Clean, Uploading, SType
    <2>6. \/ /\ multipart = "open" /\ multipart' = "completed" /\ object' = "valid"
             /\ at'[r] = "assembled"
          \/ multipart # "open" /\ at'[r] = "rejected" /\ UNCHANGED <<multipart, object>>
      BY <1>2, <2>1, <2>5, NoFault DEF StorageCompletes, Assemble, Advance, SInv
    <2> QED
      BY <1>0, <2>2, <2>3, <2>5, <2>6 DEF Clean, Requests, Uploading
  <1>3. CASE Validate(r)
    <2>1. UNCHANGED multipart /\ \E to \in {"validated", "rejected"} : Goes(r, "assembled", to)
      BY <1>3, AdvanceGoes DEF Validate, Stages
    <2>2. at[r] = "assembled" /\ \A s \in Requests \ {r} : at'[s] = at[s]
      BY <2>1 DEF Goes
    <2>3. multipart = "completed" /\ object = "valid"
      BY <1>0, <2>2 DEF SInv, LockInv, Clean
    <2>4. at'[r] = "validated" /\ UNCHANGED object
      BY <1>3, <2>3, NoFault DEF Validate, Advance, SInv
    <2> QED
      BY <1>0, <2>1, <2>2, <2>3, <2>4 DEF Clean, Requests
  <1> QED
    BY <1>1, <1>2, <1>3

\* A completion decides for the video, or finds that an abort was first.
LEMMA CleanCommit ==
  ASSUME SInv, Clean, NEW r \in Requests, CommitCompleted(r) \/ CommitRejected(r)
  PROVE  Clean'
  <1>1. /\ r \in Completes /\ r \notin Creates /\ r \notin Aborts
        /\ UNCHANGED <<multipart, stored, object>>
    BY DEF CommitCompleted, CommitRejected, storage
  <1>2. \/ Goes(r, "validated", "committed") /\ video' = "pending"
        \/ Goes(r, "rejected", "done") /\ UNCHANGED video
    BY AdvanceGoes, AnswerGoes DEF CommitCompleted, CommitRejected, Stages
  <1>3. \A s \in Requests \ {r} : at'[s] = at[s]
    BY <1>2 DEF Goes
  <1>4. CASE Goes(r, "validated", "committed") /\ video' = "pending"
    <2>1. multipart = "completed" /\ at'[r] = "committed"
      BY <1>1, <1>4 DEF Goes, SInv, LockInv
    <2> QED
      BY <1>1, <1>3, <1>4, <2>1 DEF Clean, Requests
  <1>5. CASE Goes(r, "rejected", "done") /\ UNCHANGED video
    <2>1. multipart = "aborted" /\ at'[r] = "done"
      BY <1>1, <1>5 DEF Goes, Clean
    <2> QED
      BY <1>1, <1>3, <1>5, <2>1 DEF Clean, Requests
  <1> QED
    BY <1>2, <1>4, <1>5

\* An abort.  One that storage refused writes its failed session only when no
\* completion holds the locks, so the upload it was refused is aborted or queued.
LEMMA CleanAbort ==
  ASSUME SInv, SType, Clean, faults = 0, faults' = 0, NEW r \in Requests,
         StorageAborts(r) \/ CommitAbort(r) \/ CommitAbortRejected(r)
  PROVE  Clean'
  <1>1. r \in Aborts /\ r \notin Creates /\ r \notin Completes /\ UNCHANGED <<object, stored>>
    BY DEF StorageAborts, CommitAbort, CommitAbortRejected, rows, storage
  <1>2. CASE StorageAborts(r)
    <2>1. UNCHANGED <<video, session>> /\ \E to \in {"aborted", "unaborted"} : Goes(r, "read", to)
      BY <1>2, AdvanceGoes DEF StorageAborts, Stages, rows
    <2>2. at[r] = "read" /\ \A s \in Requests \ {r} : at'[s] = at[s]
      BY <2>1 DEF Goes
    <2>3. \/ multipart = "open" /\ multipart' = "aborted" /\ at'[r] = "aborted"
          \/ multipart # "open" /\ UNCHANGED multipart /\ at'[r] = "unaborted"
      BY <1>2, NoFault DEF StorageAborts, Advance, SInv
    <2> QED
      BY <1>1, <2>1, <2>2, <2>3 DEF Clean, Requests
  <1>3. CASE CommitAbort(r)
    <2>1. /\ Goes(r, "aborted", "done") /\ UNCHANGED multipart
          /\ video' = "failed"
      BY <1>3, AnswerGoes DEF CommitAbort, storage
    <2>2. multipart = "aborted" /\ at'[r] = "done" /\ \A s \in Requests \ {r} : at'[s] = at[s]
      BY <1>1, <2>1 DEF Goes, SInv, StorageInv
    <2> QED
      BY <1>1, <2>1, <2>2 DEF Clean, Requests
  <1>4. CASE CommitAbortRejected(r)
    <2>1. ~Locked /\ Goes(r, "unaborted", "done") /\ UNCHANGED <<video, multipart>>
      BY <1>4, AnswerGoes DEF CommitAbortRejected, storage
    <2>2. /\ at[r] = "unaborted" /\ at'[r] = "done"
          /\ \A s \in Requests \ {r} : at'[s] = at[s]
      BY <2>1 DEF Goes
    <2>3. multipart # "open" /\ (multipart = "completed" => video = "pending")
      BY <1>1, <2>1, <2>2 DEF Clean, Locked
    <2>4. video = "uploading" => multipart = "aborted"
      BY <2>3 DEF Clean, SType
    <2> QED
      BY <1>1, <2>1, <2>2, <2>3, <2>4 DEF Clean, Requests
  <1> QED
    BY <1>2, <1>3, <1>4

\* Requests that are sent, or answered at once.
LEMMA CleanOther ==
  ASSUME SInv, Clean, NEW r \in Requests, NEW from, NEW to, Goes(r, from, to),
         UNCHANGED <<video, session, multipart, stored, object>>,
         from \in {"none", "done", "sent", "committed"}, to \in {"sent", "done", "read"}
  PROVE  Clean'
  <1>1. /\ at[r] = from /\ at'[r] = to
        /\ \A s \in Requests \ {r} : at'[s] = at[s]
    BY DEF Goes
  <1> QED
    BY <1>1 DEF Clean, Requests

LEMMA ListedStep ==
  ASSUME SType, Listed, [SessionNext]_sessionVars
  PROVE  Listed'
  <1>1. stored \subseteq stored'
    BY SessionGrows
  <1>2. \/ UNCHANGED listed
        \/ \E r \in Completes, parts \in SUBSET stored : listed' = [listed EXCEPT ![r] = parts]
    <2>1. ASSUME NEW r \in Requests, Serve(r) PROVE UNCHANGED listed
      BY <2>1 DEF Serve, CreateInStorage, CommitCreate, BeginComplete,
             StorageCompletes, Validate, CommitCompleted, CommitRejected, AnswerComplete,
             Refresh, ReadForAbort, StorageAborts, CommitAbort, CommitAbortRejected,
             Advance, Answer
    <2>2. ASSUME NEW r \in Requests,
                 SendCreate(r) \/ SendOther(r) \/ Crash(r) \/ Disconnect(r)
          PROVE  UNCHANGED listed
      BY <2>2 DEF SendCreate, SendOther, Crash, Disconnect, Answer
    <2>3. ASSUME LosePart \/ \E p \in Parts : StorePart(p) PROVE UNCHANGED listed
      BY <2>3 DEF LosePart, StorePart
    <2>4. CASE UNCHANGED sessionVars
      BY <2>4 DEF sessionVars
    <2> QED
      BY <2>1, <2>2, <2>3, <2>4 DEF SessionNext, SendComplete
  <1> QED
    BY <1>1, <1>2 DEF Listed, SType

\* A step that nothing failed in is a step from a state nothing failed in.
LEMMA FaultsGrow ==
  ASSUME SType, [SessionNext]_sessionVars, faults' = 0
  PROVE  faults = 0 /\ ~Fault
  <1>1. faults \in Nat
    BY DEF SType
  <1>2. UNCHANGED faults \/ Fault
    <2>1. ASSUME NEW r \in Requests, Serve(r) PROVE UNCHANGED faults \/ Fault
      BY <2>1 DEF Serve, CreateInStorage, CommitCreate, BeginComplete, StorageCompletes, Validate,
             CommitCompleted, CommitRejected, AnswerComplete, Refresh, ReadForAbort,
             StorageAborts, CommitAbort, CommitAbortRejected
    <2>2. ASSUME NEW r \in Requests,
                 SendCreate(r) \/ SendOther(r) \/ Crash(r) \/ Disconnect(r)
          PROVE  UNCHANGED faults \/ Fault
      BY <2>2 DEF SendCreate, SendOther, Crash, Disconnect
    <2> QED
      BY <2>1, <2>2 DEF SessionNext, LosePart, StorePart, SendComplete, sessionVars
  <1>3. Fault => faults' = faults + 1
    BY DEF Fault
  <1> QED
    BY <1>1, <1>2, <1>3

LEMMA CleanStep ==
  ASSUME SInv, SType, Listed, Clean, [SessionNext]_sessionVars, faults' = 0
  PROVE  Clean'
  <1>0. faults = 0 /\ ~Fault
    BY FaultsGrow
  <1>1. CASE UNCHANGED sessionVars
    BY <1>1 DEF sessionVars, Clean
  <1>2. ASSUME NEW p \in Parts, StorePart(p) PROVE Clean'
    BY <1>2 DEF StorePart, rows, Clean
  <1>3. ASSUME NEW r \in Requests, Serve(r) PROVE Clean'
    <2>1. CASE AnswerComplete(r) \/ Refresh(r)
      <3>1. /\ UNCHANGED <<video, session, multipart, stored, object>>
            /\ \E from \in {"sent", "committed"} : Goes(r, from, "done")
        BY <2>1, AnswerGoes DEF AnswerComplete, Refresh, rows, storage
      <3> QED
        BY <3>1, CleanOther
    <2>2. CASE ReadForAbort(r)
      <3>1. /\ UNCHANGED <<video, session, multipart, stored, object>>
            /\ \E to \in {"read", "done"} : Goes(r, "sent", to)
        BY <2>2, AdvanceGoes, AnswerGoes DEF ReadForAbort, rows, storage, Stages
      <3> QED
        BY <3>1, CleanOther
    <2> QED
      BY <1>0, <1>3, <2>1, <2>2, CleanCreate, CleanComplete, CleanCommit, CleanAbort DEF Serve
  <1>4. ASSUME NEW r \in Requests,
               SendCreate(r) \/ SendOther(r) \/ \E parts : SendComplete(r, parts)
        PROVE  Clean'
    <2>1. UNCHANGED <<video, session, multipart, stored, object>> /\ Post(r)
      BY <1>4 DEF SendCreate, SendOther, SendComplete, rows, storage
    <2>2. Goes(r, at[r], "sent") /\ at[r] \in {"none", "done"}
      BY <2>1, PostGoes DEF Post, Idle
    <2> QED
      BY <2>1, <2>2, CleanOther
  <1>5. ASSUME NEW r \in Completes, NEW parts, SendComplete(r, parts) PROVE Clean'
    BY <1>4, <1>5 DEF Requests
  <1>6. ~LosePart /\ \A r \in Requests : ~Crash(r) /\ ~Disconnect(r)
    BY <1>0 DEF LosePart, Crash, Disconnect
  <1> QED
    BY <1>1, <1>2, <1>3, <1>4, <1>5, <1>6 DEF SessionNext

LEMMA SessionIsTypedFirst == SessionInit => SType
  <1> SUFFICES ASSUME SessionInit PROVE SType
    OBVIOUS
  <1>1. faults \in 0..MaxFaults
    BY DEF SessionInit
  <1>2. reply \in [Requests -> Answers] /\ listed \in [Completes -> SUBSET Parts]
    BY DEF SessionInit, Answers
  <1> QED
    BY <1>1, <1>2 DEF SessionInit, SType

LEMMA RaceIsSound == Spec => []RaceInv
  <1>1. Init => RaceInv
    <2> SUFFICES ASSUME SessionInit PROVE RaceInv
      BY DEF Init
    <2>1. Listed /\ Clean
      BY DEF SessionInit, Listed, Clean, Requests
    <2> QED
      BY <2>1, InitIsSound, SessionIsTypedFirst DEF RaceInv
  <1>2. RaceInv /\ [Next]_vars => RaceInv'
    <2> SUFFICES ASSUME RaceInv, [Next]_vars PROVE RaceInv'
      OBVIOUS
    <2>1. [SessionNext]_sessionVars
      BY ControllerStep
    <2>2. SInv' /\ SType' /\ Listed'
      BY <2>1, SessionStep, SessionIsTyped, ListedStep DEF RaceInv
    <2>3. faults' = 0 => Clean'
      BY <2>1, FaultsGrow, CleanStep DEF RaceInv
    <2> QED
      BY <2>2, <2>3 DEF RaceInv
  <1> QED
    BY <1>1, <1>2, PTL DEF Spec

\* While nothing has failed no race of completions, aborts and refreshes
\* leaves a video that can neither be completed nor aborted any more, however
\* many clients there are (complete_video_upload, abort_video_upload).
THEOREM StrandedTheorem == Spec => []NothingStranded
  <1>1. RaceInv => NothingStranded
    <2> SUFFICES ASSUME RaceInv, Quiet, faults = 0, video = "uploading"
                 PROVE  session = "active" /\ multipart = "open"
      BY DEF NothingStranded
    <2>1. Clean /\ \A r \in Requests : at[r] \in {"none", "done"}
      BY DEF RaceInv, Quiet
    <2>2. multipart # "completed" /\ multipart # "aborted" /\ multipart # "none"
      BY <2>1 DEF Clean, Requests
    <2> QED
      BY <2>1, <2>2 DEF Clean, RaceInv, SType
  <1> QED
    BY <1>1, RaceIsSound, PTL

-----------------------------------------------------------------------------
\* Cancelling the pool.

\* A request that was sent stays sent, a video that exists goes on existing,
\* a creation that succeeded made one, and only a completion queues it.
LEMMA SessionFacts ==
  ASSUME SInv, SType, [SessionNext]_sessionVars
  PROVE  /\ \A r \in Requests : at[r] # "none" => at'[r] # "none"
         /\ video # "none" => video' # "none"
         /\ \A c \in Creates : reply'[c] = "ok" => reply[c] = "ok" \/ video' # "none"
         /\ video' = "pending" => video = "pending" \/ \E c \in Completes : at'[c] # "none"
  <1> DEFINE Facts == /\ \A r \in Requests : at[r] # "none" => at'[r] # "none"
                      /\ video # "none" => video' # "none"
                      /\ \A c \in Creates : reply'[c] = "ok" => reply[c] = "ok" \/ video' # "none"
                      /\ video' = "pending" =>
                            video = "pending" \/ \E c \in Completes : at'[c] # "none"
  <1>1. CASE UNCHANGED sessionVars
    BY <1>1 DEF sessionVars
  <1>2. ASSUME LosePart \/ \E p \in Parts : StorePart(p) PROVE Facts
    BY <1>2 DEF LosePart, StorePart, rows, storage
  <1>3. ASSUME NEW r \in Requests, Disconnect(r) PROVE Facts
    BY <1>3 DEF Disconnect, rows, SType
  <1>4. ASSUME NEW r \in Requests, Post(r), UNCHANGED video PROVE Facts
    <2>1. Goes(r, at[r], "sent")
      BY <1>4, PostGoes
    <2>2. \A c \in Requests : reply'[c] = "ok" => reply[c] = "ok"
      BY <1>4 DEF Post, SType
    <2> QED
      BY <1>4, <2>1, <2>2 DEF Goes, Requests
  <1>5. ASSUME NEW r \in Requests, NEW from, NEW answer,
               Answer(r, from, answer), r \in Creates /\ answer = "ok" => video' # "none",
               video # "none" => video' # "none", video' = "pending" => video = "pending"
        PROVE  Facts
    <2>1. Goes(r, from, "done")
      BY <1>5, AnswerGoes
    <2>2. \A c \in Requests : reply'[c] = "ok" => reply[c] = "ok" \/ (c = r /\ answer = "ok")
      BY <1>5 DEF Answer, SType
    <2> QED
      BY <1>5, <2>1, <2>2 DEF Goes, Requests
  <1>6. ASSUME NEW r \in Requests, NEW from, NEW to \in Stages \ {"none"}, Advance(r, from, to),
               UNCHANGED video \/ (r \in Completes /\ video' = "pending")
        PROVE  Facts
    <2>1. Goes(r, from, to) /\ UNCHANGED reply
      BY <1>6, AdvanceGoes DEF Advance
    <2> QED
      BY <1>6, <2>1 DEF Goes, Requests
  <1>7. ASSUME NEW r \in Requests, Serve(r) PROVE Facts
    <2>1. CASE CreateInStorage(r)
      BY <2>1, <1>5, <1>6 DEF CreateInStorage, rows, Stages
    <2>2. CASE CommitCreate(r)
      BY <2>2, <1>5 DEF CommitCreate
    <2>3. CASE BeginComplete(r)
      <3>1. r \notin Creates /\ UNCHANGED video
        BY <2>3 DEF BeginComplete, rows
      <3> QED
        BY <2>3, <3>1, <1>5, <1>6 DEF BeginComplete, Stages
    <2>4. CASE StorageCompletes(r)
      BY <2>4, <1>6 DEF StorageCompletes, rows, Stages
    <2>5. CASE Validate(r)
      BY <2>5, <1>6 DEF Validate, rows, Stages
    <2>6. CASE CommitCompleted(r)
      BY <2>6, <1>6 DEF CommitCompleted, Stages
    <2>7. CASE CommitRejected(r) \/ AnswerComplete(r) \/ Refresh(r) \/ CommitAbortRejected(r)
      <3>1. r \notin Creates /\ UNCHANGED video /\ \E from, answer : Answer(r, from, answer)
        BY <2>7 DEF CommitRejected, AnswerComplete, Refresh, CommitAbortRejected, rows
      <3> QED
        BY <3>1, <1>5
    <2>8. CASE CommitAbort(r)
      BY <2>8, <1>5 DEF CommitAbort
    <2>9. CASE ReadForAbort(r)
      <3>1. r \notin Creates /\ UNCHANGED video
        BY <2>9 DEF ReadForAbort, rows
      <3> QED
        BY <2>9, <3>1, <1>5, <1>6 DEF ReadForAbort, Stages
    <2>10. CASE StorageAborts(r)
      BY <2>10, <1>6 DEF StorageAborts, rows, Stages
    <2> QED
      BY <1>7, <2>1, <2>2, <2>3, <2>4, <2>5, <2>6, <2>7, <2>8, <2>9, <2>10 DEF Serve
  <1>8. ASSUME NEW r \in Requests, Crash(r) PROVE Facts
    BY <1>8, <1>5 DEF Crash, rows
  <1>9. ASSUME NEW r \in Requests,
               SendCreate(r) \/ SendOther(r) \/ \E parts : SendComplete(r, parts)
        PROVE  Facts
    BY <1>9, <1>4 DEF SendCreate, SendOther, SendComplete, rows
  <1>10. ASSUME NEW r \in Completes, NEW parts, SendComplete(r, parts) PROVE Facts
    BY <1>9, <1>10 DEF Requests
  <1> QED
    BY <1>1, <1>2, <1>3, <1>7, <1>8, <1>9, <1>10 DEF SessionNext

\* The API never moves a request that is not under way.
LEMMA ServeIsBusy ==
  ASSUME SInv, NEW s \in Requests, Serve(s) \/ Crash(s), NEW r \in Requests, ~Busy(r)
  PROVE  at'[r] = at[r]
  <1>1. \E from, to : Goes(s, from, to)
    <2>1. \/ \E from, answer : Answer(s, from, answer)
          \/ \E from : \E to \in Stages : Advance(s, from, to)
      BY DEF Serve, CreateInStorage, CommitCreate, BeginComplete, StorageCompletes, Validate,
             CommitCompleted, CommitRejected, AnswerComplete, Refresh, ReadForAbort,
             StorageAborts, CommitAbort, CommitAbortRejected, Crash, Stages
    <2> QED
      BY <2>1, AnswerGoes, AdvanceGoes
  <1>2. Busy(s)
    BY DEF Serve, CreateInStorage, CommitCreate, BeginComplete, StorageCompletes, Validate,
           CommitCompleted, CommitRejected, AnswerComplete, Refresh, ReadForAbort,
           StorageAborts, CommitAbort, CommitAbortRejected, Crash, Advance, Answer, Busy
  <1> QED
    BY <1>1, <1>2 DEF Goes

\* Only the controller sends its completion, from a pool that is done and has
\* every part, and its abort, when it is cancelled.
LEMMA OnlyTheController ==
  ASSUME SInv, CInv, [Next]_vars
  PROVE  /\ ~Busy(CompleteReq) /\ at'[CompleteReq] # at[CompleteReq] =>
               pc = "pool" /\ pc' = "completing" /\ failed' = {}
         /\ ~Busy(AbortReq) /\ at'[AbortReq] # at[AbortReq] => Cancel
  <1> DEFINE Sent(r) == \A s \in Requests \ {r} : at'[s] = at[s]
  <1>0. /\ CreateReq \in Requests /\ CompleteReq \in Requests /\ AbortReq \in Requests
        /\ RefreshReq \in Requests /\ CompleteReq # AbortReq
        /\ CreateReq \notin {CompleteReq, AbortReq} /\ RefreshReq \notin {CompleteReq, AbortReq}
    BY DEF Requests
  <1>1. ASSUME NEW r \in Requests, Post(r) PROVE Sent(r)
    BY <1>1, PostGoes DEF Goes
  <1>2. CASE Start
    BY <1>0, <1>1, <1>2 DEF Start, SendCreate
  <1>3. CASE Retry
    BY <1>0, <1>1, <1>3 DEF Retry, SendOther
  <1>4. CASE Cancel
    <2>1. Sent(AbortReq) \/ UNCHANGED at
      BY <1>0, <1>1, <1>4 DEF Cancel, SendOther, sessionVars
    <2> QED
      BY <1>0, <1>4, <2>1
  <1>5. CASE \/ Created \/ CreateFailed \/ Refreshed \/ RefreshFailed
             \/ Completed \/ CompleteFailed \/ UNCHANGED vars
    <2>1. UNCHANGED at
      BY <1>5 DEF Created, CreateFailed, Refreshed, RefreshFailed, Completed, CompleteFailed,
                  vars, sessionVars
    <2> QED
      BY <2>1
  <1>6. ASSUME NEW p \in Parts, PartUploaded(p)
        PROVE  \/ UNCHANGED at
               \/ Sent(CompleteReq) /\ pc = "pool" /\ pc' = "completing" /\ failed' = {}
    BY <1>0, <1>1, <1>6 DEF PartUploaded, Settle, SendComplete, sessionVars
  <1>7. ASSUME NEW p \in Parts, PartRefused(p) \/ PartFails(p) \/ PartStored(p)
        PROVE  UNCHANGED at
    BY <1>7 DEF PartRefused, PartFails, PartStored, LosePart, StorePart, sessionVars
  <1>8. ASSUME NEW r \in Requests, ServeRequest(r) \/ Upset(r), NEW s \in Requests, ~Busy(s)
        PROVE  at'[s] = at[s]
    BY <1>8, ServeIsBusy DEF ServeRequest, Upset, Disconnect
  <1>9. ASSUME NEW r \in Other, OtherSends(r)
        PROVE  Sent(r) /\ r \notin {CompleteReq, AbortReq}
    BY <1>1, <1>9 DEF OtherSends, SendComplete, SendOther, Other, Requests
  <1> QED
    BY <1>0, <1>2, <1>3, <1>4, <1>5, <1>6, <1>7, <1>8, <1>9 DEF Next, Answered

\* Where the requests of the controller are.
Placed ==
    /\ cancelledAt = "pool" =>
          cancelled /\ pc = "rest" /\ at[CompleteReq] = "none" /\ at[AbortReq] # "none"
    /\ ~cancelled => at[AbortReq] = "none"
    /\ at[CompleteReq] # "none" => pc \in {"completing", "rest"} /\ failed = {}
    /\ known => video # "none"
    /\ \A c \in Creates : reply[c] = "ok" => video # "none"
    /\ (\A c \in Completes : at[c] = "none") => video # "pending"

LEMMA PlacedStep ==
  ASSUME SInv, SType, CInv, CType, Placed, [Next]_vars
  PROVE  Placed'
  <1>0. CompleteReq \in Requests /\ AbortReq \in Requests /\ AbortReq \in Aborts
        /\ CompleteReq # AbortReq
    BY DEF Requests
  <1>1. /\ \A r \in Requests : at[r] # "none" => at'[r] # "none"
        /\ video # "none" => video' # "none"
        /\ \A c \in Creates : reply'[c] = "ok" => reply[c] = "ok" \/ video' # "none"
        /\ video' = "pending" => video = "pending" \/ \E c \in Completes : at'[c] # "none"
    BY ControllerStep, SessionFacts
  <1>2. /\ at[CompleteReq] = "none" /\ at'[CompleteReq] # "none" =>
               pc = "pool" /\ pc' = "completing" /\ failed' = {}
        /\ at[AbortReq] = "none" /\ at'[AbortReq] # "none" => Cancel
    BY OnlyTheController DEF Busy
  <1>3. /\ \A c \in Creates : reply'[c] = "ok" => video' # "none"
        /\ (\A c \in Completes : at'[c] = "none") => video' # "pending"
    BY <1>1 DEF Placed, Requests
  <1>4. known' => video' # "none"
    <2>1. known' => known \/ Created
      BY DEF Next, Answered, Start, Retry, Cancel, Created, CreateFailed, Refreshed, RefreshFailed,
             Completed, CompleteFailed, PartUploaded, PartRefused, PartLost, PartStored, PartFails,
             ServeRequest, Upset, OtherSends, vars, ctlVars
    <2>2. Created => video # "none"
      BY DEF Created, Placed
    <2> QED
      BY <1>1, <2>1, <2>2 DEF Placed
  <1> DEFINE Asked == /\ cancelledAt' = "pool" =>
                            /\ cancelled' /\ pc' = "rest"
                            /\ at'[CompleteReq] = "none" /\ at'[AbortReq] # "none"
                      /\ ~cancelled' => at'[AbortReq] = "none"
                      /\ at'[CompleteReq] # "none" =>
                            pc' \in {"completing", "rest"} /\ failed' = {}
  <1>5. CASE UNCHANGED ctlVars
    <2>1. ~Cancel
      BY <1>5 DEF Cancel, ctlVars
    <2> QED
      BY <1>0, <1>1, <1>2, <1>3, <1>4, <1>5, <2>1 DEF Placed, ctlVars, pool
  <1>6. CASE Cancel
    <2>1. /\ ~cancelled /\ cancelled' = TRUE /\ cancelledAt' = pc /\ UNCHANGED failed
          /\ pc = "pool" => pc' = "rest"
          /\ pc # "pool" => UNCHANGED pc
      BY <1>6 DEF Cancel
    <2>2. pc = "pool" => at'[AbortReq] # "none"
      <3>1. pc = "pool" => SendOther(AbortReq)
        BY <1>6 DEF Cancel, CInv, PlaceInv
      <3>2. SendOther(AbortReq) => Goes(AbortReq, at[AbortReq], "sent")
        BY <1>0, PostGoes DEF SendOther
      <3> QED
        BY <3>1, <3>2 DEF Goes
    <2>3. at[CompleteReq] = "none" => at'[CompleteReq] = "none"
      BY <1>2, <2>1
    <2>4. Asked
      BY <2>1, <2>2, <2>3 DEF Placed
    <2> QED
      BY <1>3, <1>4, <2>4 DEF Placed
  <1>7. ASSUME ~Cancel, UNCHANGED <<cancelled, cancelledAt>>, cancelledAt # "pool",
               at[CompleteReq] = "none" \/ (pc' \in {"completing", "rest"} /\ failed' = {})
        PROVE  Placed'
    <2>1. Asked
      BY <1>0, <1>2, <1>7 DEF Placed
    <2> QED
      BY <1>3, <1>4, <2>1 DEF Placed
  <1>8. CASE \/ Start \/ Retry \/ Created \/ Refreshed \/ CreateFailed \/ RefreshFailed
             \/ CompleteFailed \/ Completed
    <2>1. UNCHANGED <<cancelled, cancelledAt>>
      BY <1>8 DEF Start, Retry, Created, Refreshed, CreateFailed, RefreshFailed, CompleteFailed,
                  Completed
    <2>2. pc # "rest" \/ (~cancelled /\ failed # {})
      BY <1>8 DEF Start, Retry, Created, Refreshed, CreateFailed, RefreshFailed, CompleteFailed,
                  Completed
    <2>3. pc = "completing" => pc' = "rest" /\ UNCHANGED failed
      BY <1>8 DEF Start, Retry, Created, Refreshed, CreateFailed, RefreshFailed, CompleteFailed,
                  Completed, GiveUp, pool
    <2>4. cancelledAt # "pool"
      BY <2>2 DEF Placed
    <2>5. at[CompleteReq] # "none" => pc = "completing" /\ failed = {}
      BY <2>2 DEF Placed
    <2>6. ~Cancel
      BY <2>1 DEF Cancel
    <2> QED
      BY <1>7, <2>1, <2>3, <2>4, <2>5, <2>6
  <1>9. ASSUME NEW p \in Parts, PartUploaded(p) \/ PartLost(p)
        PROVE  Placed'
    <2>1. p \in inflight /\ UNCHANGED <<cancelled, cancelledAt>>
      BY <1>9 DEF PartUploaded, PartLost
    <2>2. pc = "pool" \/ (pc = "rest" /\ cancelled)
      BY <2>1 DEF CInv, PlaceInv, Places, Missing
    <2>3. ~Cancel
      BY <2>1, <2>2 DEF Cancel
    <2>4. CASE pc = "pool"
      BY <1>7, <2>1, <2>3, <2>4 DEF Placed
    <2>5. CASE pc = "rest" /\ cancelled
      <3>1. UNCHANGED <<pc, failed>>
        BY <1>9, <2>5 DEF PartUploaded, PartLost, Settle
      <3>2. Asked
        BY <1>0, <1>1, <1>2, <2>1, <2>3, <2>5, <3>1 DEF Placed
      <3> QED
        BY <1>3, <1>4, <3>2 DEF Placed
    <2> QED
      BY <2>2, <2>4, <2>5
  <1>10. ASSUME \/ \E p \in Parts : PartStored(p)
                \/ \E r \in Requests : ServeRequest(r) \/ Upset(r)
                \/ \E r \in Other : OtherSends(r)
                \/ UNCHANGED vars
         PROVE  UNCHANGED ctlVars
    BY <1>10 DEF PartStored, ServeRequest, Upset, OtherSends, vars
  <1> QED
    BY <1>5, <1>6, <1>8, <1>9, <1>10 DEF Next, Answered, PartRefused, PartFails

\* Nobody else acts, nothing fails and no completion is requested.
Alone == ~OtherActed /\ faults = 0 /\ at[CompleteReq] = "none"

\* Then the upload is open until its abort reaches storage, and the abort is
\* never refused.
OnlyAbort ==
    \/ /\ at[AbortReq] \in {"none", "sent", "read"}
       /\ video = "none" \/ (Uploading /\ multipart = "open")
       /\ at[AbortReq] # "none" => video # "none"
    \/ at[AbortReq] = "aborted"
    \/ at[AbortReq] = "done" /\ video = "failed"

\* The others are at rest, for good.
LEMMA AloneIs ==
  ASSUME SInv, SType, Alone, NEW r \in Requests
  PROVE  /\ r \in Completes => at[r] = "none"
         /\ r \in Aborts /\ r # AbortReq => at[r] = "none"
  BY DEF Alone, OtherActed, Other

LEMMA AloneBefore ==
  ASSUME SInv, SType, [SessionNext]_sessionVars, Alone'
  PROVE  Alone /\ ~Fault
  <1>1. \A r \in Requests : at[r] # "none" => at'[r] # "none"
    BY SessionFacts
  <1>2. Other \subseteq Requests /\ CompleteReq \in Requests
    BY DEF Other, Requests
  <1>3. faults = 0 /\ ~Fault
    BY FaultsGrow DEF Alone
  <1> QED
    BY <1>1, <1>2, <1>3 DEF Alone, OtherActed

LEMMA OnlyAbortServed ==
  ASSUME SInv, SType, Alone, OnlyAbort, ~Fault, NEW r \in Requests, Serve(r)
  PROVE  OnlyAbort'
  <1>0. AbortReq \in Requests /\ AbortReq \in Aborts
    BY DEF Requests
  <1>1. CASE r \in Creates
    <2>1. CreateInStorage(r) \/ CommitCreate(r)
      BY <1>1 DEF Serve, BeginComplete, StorageCompletes, Validate, CommitCompleted,
             CommitRejected, AnswerComplete, Refresh, ReadForAbort, StorageAborts, CommitAbort,
             CommitAbortRejected
    <2>2. at[r] \in {"sent", "storage"} /\ \E to : Goes(r, at[r], to)
      BY <2>1, AdvanceGoes, AnswerGoes DEF CreateInStorage, CommitCreate, Advance, Answer, Stages
    <2>3. video = "none" /\ (at[r] = "storage" => multipart = "open")
      BY <1>1, <2>2 DEF SInv, CreateInv
    <2>4. at[AbortReq] = "none" /\ at'[AbortReq] = "none"
      <3>1. ~Busy(AbortReq)
        BY <1>0, <2>3 DEF SInv, CreateInv
      <3> QED
        BY <1>0, <1>1, <2>2, <2>3, <3>1 DEF OnlyAbort, Busy, Goes
    <2>5. CASE CreateInStorage(r)
      BY <2>3, <2>4, <2>5 DEF CreateInStorage, rows, OnlyAbort
    <2>6. CASE CommitCreate(r)
      BY <2>3, <2>4, <2>6 DEF CommitCreate, Answer, storage, OnlyAbort, Uploading
    <2> QED
      BY <2>1, <2>5, <2>6
  <1>2. CASE r \in Completes
    <2>1. Busy(r)
      BY <1>2 DEF Serve, CreateInStorage, CommitCreate, BeginComplete, StorageCompletes, Validate,
             CommitCompleted, CommitRejected, AnswerComplete, Refresh, ReadForAbort,
             StorageAborts, CommitAbort, CommitAbortRejected, Advance, Answer, Busy
    <2> QED
      BY <1>2, <2>1, AloneIs DEF Busy
  <1>3. CASE r \in Refreshes
    <2>1. Refresh(r)
      BY <1>3 DEF Serve, CreateInStorage, CommitCreate, BeginComplete, StorageCompletes, Validate,
             CommitCompleted, CommitRejected, AnswerComplete, ReadForAbort, StorageAborts,
             CommitAbort, CommitAbortRejected
    <2>2. UNCHANGED <<video, session, multipart>> /\ Goes(r, "sent", "done")
      BY <2>1, AnswerGoes DEF Refresh, rows, storage
    <2>3. at'[AbortReq] = at[AbortReq]
      BY <1>0, <1>3, <2>2 DEF Goes
    <2> QED
      BY <2>2, <2>3 DEF OnlyAbort, Uploading
  <1>4. CASE r \in Aborts
    <2>1. ReadForAbort(r) \/ StorageAborts(r) \/ CommitAbort(r) \/ CommitAbortRejected(r)
      BY <1>4 DEF Serve, CreateInStorage, CommitCreate, BeginComplete, StorageCompletes, Validate,
             CommitCompleted, CommitRejected, AnswerComplete, Refresh
    <2>2. at[r] \in {"sent", "read", "aborted", "unaborted"}
      BY <2>1 DEF ReadForAbort, StorageAborts, CommitAbort, CommitAbortRejected, Advance, Answer
    <2>3. r = AbortReq
      BY <1>4, <2>2, AloneIs
    <2>4. CASE ReadForAbort(r)
      <3>1. at[r] = "sent"
        BY <2>4 DEF ReadForAbort, Advance, Answer
      <3>2. Uploading /\ multipart = "open"
        BY <2>3, <3>1 DEF OnlyAbort
      <3>3. Goes(r, "sent", "read") /\ UNCHANGED <<video, session, multipart>>
        BY <2>4, <3>2, AdvanceGoes DEF ReadForAbort, rows, storage, Stages
      <3> QED
        BY <2>3, <3>2, <3>3 DEF OnlyAbort, Goes, Uploading
    <2>5. CASE StorageAborts(r)
      <3>1. at[r] = "read"
        BY <2>5 DEF StorageAborts, Advance
      <3>2. multipart = "open"
        BY <2>3, <3>1 DEF OnlyAbort
      <3>3. Goes(r, "read", "aborted")
        BY <2>5, <3>2, AdvanceGoes DEF StorageAborts, Stages
      <3> QED
        BY <2>3, <3>3 DEF OnlyAbort, Goes
    <2>6. CASE CommitAbort(r)
      <3>1. Goes(r, "aborted", "done") /\ video' = "failed"
        BY <2>6, AnswerGoes DEF CommitAbort
      <3> QED
        BY <2>3, <3>1 DEF OnlyAbort, Goes
    <2>7. CASE CommitAbortRejected(r)
      BY <2>3, <2>7 DEF CommitAbortRejected, Answer, OnlyAbort
    <2> QED
      BY <2>1, <2>4, <2>5, <2>6, <2>7
  <1> QED
    BY <1>1, <1>2, <1>3, <1>4 DEF Requests

LEMMA OnlyAbortStep ==
  ASSUME SInv, SType, Alone => OnlyAbort, [SessionNext]_sessionVars, Alone',
         at[AbortReq] = "done" => at'[AbortReq] = "done"
  PROVE  OnlyAbort'
  <1>0. Alone /\ ~Fault /\ OnlyAbort /\ AbortReq \in Requests /\ AbortReq \in Aborts
    BY AloneBefore DEF Requests
  <1>1. ASSUME UNCHANGED <<video, session, multipart>>, at'[AbortReq] = at[AbortReq]
        PROVE  OnlyAbort'
    BY <1>0, <1>1 DEF OnlyAbort, Uploading
  <1>2. CASE UNCHANGED sessionVars
    BY <1>1, <1>2 DEF sessionVars
  <1>3. ASSUME NEW p \in Parts, StorePart(p) PROVE OnlyAbort'
    BY <1>1, <1>3 DEF StorePart, rows
  <1>4. ASSUME NEW r \in Requests, SendCreate(r) \/ SendOther(r) PROVE OnlyAbort'
    <2>1. Goes(r, at[r], "sent") /\ ~Busy(r) /\ UNCHANGED <<video, session, multipart>>
      BY <1>4, PostGoes DEF SendCreate, SendOther, rows, storage
    <2>2. CASE r = AbortReq
      <3>1. SendOther(r) /\ video # "none"
        BY <1>0, <1>4, <2>2 DEF SendCreate, SendOther
      <3>2. at[r] = "none" /\ at'[r] = "sent"
        BY <2>1, <2>2 DEF Goes, Busy
      <3> QED
        BY <1>0, <2>1, <2>2, <3>1, <3>2 DEF OnlyAbort, Uploading
    <2>3. CASE r # AbortReq
      <3>1. at'[AbortReq] = at[AbortReq]
        BY <1>0, <2>1, <2>3 DEF Goes
      <3> QED
        BY <1>1, <2>1, <3>1
    <2> QED
      BY <2>2, <2>3
  <1>5. ASSUME NEW r \in Completes, NEW parts, SendComplete(r, parts) PROVE FALSE
    <2>1. r \in Requests
      BY DEF Requests
    <2>2. at'[r] = "sent"
      BY <1>5, <2>1, PostGoes DEF SendComplete, Goes
    <2>3. r = CompleteReq \/ r \in Other
      BY DEF Other, Requests
    <2> QED
      BY <2>2, <2>3 DEF Alone, OtherActed
  <1>6. ~LosePart /\ \A r \in Requests : ~Crash(r) /\ ~Disconnect(r)
    BY <1>0 DEF LosePart, Crash, Disconnect
  <1> QED
    BY <1>0, <1>2, <1>3, <1>4, <1>5, <1>6, OnlyAbortServed DEF SessionNext

-----------------------------------------------------------------------------
CancelInv == SInv /\ SType /\ CInv /\ CType /\ Placed /\ (Alone => OnlyAbort)

LEMMA CancelIsSound == Spec => []CancelInv
  <1>1. Init => CancelInv
    <2> SUFFICES ASSUME Init PROVE CancelInv
      OBVIOUS
    <2>1. SInv /\ SType /\ CInv
      BY InitIsSound, SessionIsTypedFirst, InitIsInPlace DEF Init
    <2>2. CType
      <3>1. known \in BOOLEAN /\ cancelled \in BOOLEAN
        BY DEF Init
      <3>2. cancelledAt = "never" /\ jobs \in 0..1
        BY DEF Init, SessionInit
      <3> QED
        BY <3>1, <3>2 DEF CType
    <2>3. Placed /\ OnlyAbort
      BY DEF Init, SessionInit, Placed, OnlyAbort, Requests
    <2> QED
      BY <2>1, <2>2, <2>3 DEF CancelInv
  <1>2. CancelInv /\ [Next]_vars => CancelInv'
    <2> SUFFICES ASSUME CancelInv, [Next]_vars PROVE CancelInv'
      OBVIOUS
    <2>0. [SessionNext]_sessionVars
      BY ControllerStep
    <2>1. SInv' /\ SType' /\ CInv'
      BY <2>0, SessionStep, SessionIsTyped, ControllerKeeps DEF CancelInv
    <2>2. CType' /\ Placed'
      BY <2>1, ControllerIsTyped, PlacedStep DEF CancelInv
    <2>3. at[AbortReq] = "done" => at'[AbortReq] = "done"
      <3>1. at[AbortReq] = "done" => ~Cancel
        BY DEF CancelInv, Placed, Cancel
      <3> QED
        BY <3>1, OnlyTheController DEF CancelInv, Busy
    <2>4. Alone' => OnlyAbort'
      BY <2>0, <2>3, OnlyAbortStep DEF CancelInv
    <2> QED
      BY <2>1, <2>2, <2>4 DEF CancelInv
  <1> QED
    BY <1>1, <1>2, PTL DEF Spec

\* Cancelling while parts are being sent is in time, for any number of parts,
\* retries and failures: the video is not queued, and unless something failed
\* its upload is aborted (cancel, abort_video_upload).
THEOREM CancelTheorem == Spec => []CancelledInTime
  <1>1. CancelInv => CancelledInTime
    <2> SUFFICES ASSUME CancelInv, cancelledAt = "pool", ~OtherActed
                 PROVE  /\ video # "pending"
                        /\ Quiet /\ faults = 0 => video = "failed"
      BY DEF CancelledInTime
    <2>1. at[CompleteReq] = "none" /\ at[AbortReq] # "none"
      BY DEF CancelInv, Placed
    <2>2. video # "pending"
      BY <2>1 DEF CancelInv, Placed, OtherActed, Other
    <2>3. ASSUME Quiet, faults = 0 PROVE video = "failed"
      <3>1. at[AbortReq] = "done"
        BY <2>1, <2>3 DEF Quiet, Requests
      <3> QED
        BY <2>1, <2>3, <3>1 DEF CancelInv, Alone, OnlyAbort
    <2> QED
      BY <2>2, <2>3
  <1> QED
    BY <1>1, CancelIsSound, PTL
=============================================================================
