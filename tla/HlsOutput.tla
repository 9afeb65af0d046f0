----------------------------- MODULE HlsOutput -----------------------------
(***************************************************************************)
(* The files of one rendition in object storage, and the encoding attempts *)
(* that write them (processor.py).  Every attempt writes under the same    *)
(* keys: segments first, one by one, then the playlist that names them.    *)
(*                                                                         *)
(* What happens to the job is taken from JobLease, which JobQueue          *)
(* implements: a silent worker, for one, may lose the job at any time.     *)
(* A worker asks whether it still owns the job before it downloads,        *)
(* probes, encodes and uploads each file; two questions in a row are one.  *)
(***************************************************************************)
EXTENDS HlsPresets

CONSTANTS
    Workers,
    None, Gone,    \* no worker, and a worker that is no more
    Sources,       \* what the probe may find
    Resolutions,   \* the rendition may be any of these
    MaxSegments,   \* bound on the segments of an encoding
    MaxAttempts,   \* max_attempts of the job
    MaxFaults      \* bound on failures and crashes

ASSUME OutputAssumption ==
    /\ None \notin Workers /\ Gone \notin Workers /\ None # Gone
    /\ Sources \subseteq Source /\ Resolutions \subseteq Resolution
    /\ MaxSegments \in Nat /\ MaxAttempts \in Nat /\ MaxFaults \in Nat

VARIABLES
    rendition,  \* its resolution and the source it is made from
    status,     \* of the job, as JobLease has it
    owner,      \* worker_id
    attempts,   \* attempt_count
    segment,    \* the attempt that wrote each segment, 0 for no file
    playlist,   \* the attempt that wrote it, 0 for no file, and its length
    worker,     \* each worker's attempt
    stray,      \* the files last written by a worker that had lost the job (history)
    faults

vars == <<rendition, status, owner, attempts, segment, playlist, worker, stray, faults>>

PC == {"idle", "download", "probe", "encode", "segments", "playlist", "result"}

\* cleared: the last question was answered yes, and the next step is due;
\* recent: it was asked less than five seconds ago; noticed: the heartbeat
\* has found the job lost, and late: the files written since then.
Attempt(pc, n) ==
    [pc |-> pc, attempt |-> n, length |-> 0, sent |-> 0,
     cleared |-> FALSE, recent |-> FALSE, noticed |-> FALSE, late |-> 0]

Idle == Attempt("idle", 0)

\* The files of the rendition: the segments by their numbers, and the playlist.
Playlist == 0
File == {Playlist} \cup 1..MaxSegments

WorkerRecord ==
    [pc : PC, attempt : Nat, length : Nat, sent : Nat,
     cleared : BOOLEAN, recent : BOOLEAN, noticed : BOOLEAN, late : Nat]

TypeOK ==
    /\ rendition \in [resolution : Resolutions, source : Sources]
    /\ status \in {"pending", "running", "done", "skipped", "failed"}
    /\ owner \in Workers \cup {None, Gone}
    /\ attempts \in Nat
    /\ segment \in [1..MaxSegments -> Nat]
    /\ playlist \in [by : Nat, length : Nat]
    /\ worker \in [Workers -> WorkerRecord]
    /\ stray \subseteq File /\ faults \in Nat

Init ==
    /\ rendition \in [resolution : Resolutions, source : Sources]
    /\ status = "pending" /\ owner = None /\ attempts = 0
    /\ segment = [i \in 1..MaxSegments |-> 0]
    /\ playlist = [by |-> 0, length |-> 0]
    /\ worker = [w \in Workers |-> Idle]
    /\ stray = {} /\ faults = 0

files == <<segment, playlist>>
job   == <<status, owner, attempts>>

Lease == INSTANCE JobLease WITH working <- [w \in Workers |-> worker[w].attempt]

Owns(w) == Lease!Owns(w)

Fault == faults < MaxFaults /\ faults' = faults + 1

-----------------------------------------------------------------------------
\* The job: claims, and the reaper.

Claim(w) ==
    /\ worker[w].pc = "idle"
    /\ worker' = [worker EXCEPT ![w] = Attempt("download", attempts + 1)]
    /\ Lease!Take(w)
    /\ UNCHANGED <<rendition, files, stray, faults>>

\* Heartbeats are late, fail or have ended, and the reaper takes the job.
Reap ==
    /\ UNCHANGED <<rendition, files, worker, stray, faults>>
    /\ Lease!Withdraw

-----------------------------------------------------------------------------
\* Does the worker still own the job?

\* The heartbeat thread finds it does not.
HeartbeatLost(w) ==
    /\ worker[w].pc # "idle" /\ ~worker[w].noticed /\ ~Owns(w)
    /\ worker' = [worker EXCEPT ![w].noticed = TRUE]
    /\ UNCHANGED <<rendition, job, files, stray, faults>>

\* Five seconds have passed since the worker asked.
IntervalElapses(w) ==
    /\ worker[w].recent
    /\ worker' = [worker EXCEPT ![w].recent = FALSE]
    /\ UNCHANGED <<rendition, job, files, stray, faults>>

Asks(w) == worker[w].pc \notin {"idle", "result"} /\ ~worker[w].cleared

\* is_lost says no: the worker owns the job, or asked a moment ago, or the
\* database does not answer.
Cleared(w) ==
    /\ Asks(w) /\ ~worker[w].noticed
    /\ \/ (worker[w].recent \/ Owns(w)) /\ UNCHANGED faults
       \/ ~worker[w].recent /\ Fault
    /\ worker' = [worker EXCEPT ![w].cleared = TRUE, ![w].recent = TRUE]
    /\ UNCHANGED <<rendition, job, files, stray>>

\* is_lost says yes: the attempt ends, its message is acknowledged.
Stopped(w) ==
    /\ Asks(w)
    /\ worker[w].noticed \/ (~worker[w].recent /\ ~Owns(w))
    /\ worker' = [worker EXCEPT ![w] = Idle]
    /\ Lease!Leave(w)
    /\ UNCHANGED <<rendition, files, stray, faults>>

-----------------------------------------------------------------------------
\* process and _upload_hls_outputs.

Ready(w, pc) == worker[w].pc = pc /\ worker[w].cleared

Download(w) ==
    /\ Ready(w, "download")
    /\ worker' = [worker EXCEPT ![w].pc = "probe", ![w].cleared = FALSE]
    /\ UNCHANGED <<rendition, job, files, stray, faults>>

\* A rendition the source is too small for is skipped.
Probe(w) ==
    /\ Ready(w, "probe")
    /\ worker' = [worker EXCEPT
                    ![w].pc = IF Applicable(rendition.resolution, rendition.source)
                              THEN "encode" ELSE "result",
                    ![w].cleared = FALSE]
    /\ UNCHANGED <<rendition, job, files, stray, faults>>

Encode(w) ==
    /\ Ready(w, "encode")
    /\ \E n \in 1..MaxSegments :
          worker' = [worker EXCEPT ![w].pc = "segments", ![w].length = n,
                                   ![w].cleared = FALSE]
    /\ UNCHANGED <<rendition, job, files, stray, faults>>

\* The file has been written by w, whose attempt goes on at pc.
Written(w, file, pc, sent) ==
    /\ worker' = [worker EXCEPT ![w].pc = pc, ![w].sent = sent, ![w].cleared = FALSE,
                                ![w].late = IF worker[w].noticed THEN @ + 1 ELSE @]
    /\ stray' = IF Owns(w) THEN stray \ {file} ELSE stray \cup {file}
    /\ UNCHANGED <<rendition, job, faults>>

\* Mutant of AfterSegment: the playlist follows the last segment but one.
AfterSegmentEarly(w) ==
    IF worker[w].sent + 2 >= worker[w].length THEN "playlist" ELSE "segments"

AfterSegment(w) ==
    IF worker[w].sent + 1 = worker[w].length THEN "playlist" ELSE "segments"

\* Mutant of UploadSegment: segments that are there already are kept.
UploadSegmentIfAbsent(w) ==
    /\ Ready(w, "segments")
    /\ LET i == worker[w].sent + 1
       IN  /\ segment' = [segment EXCEPT ![i] = IF @ = 0 THEN worker[w].attempt ELSE @]
           /\ Written(w, i, AfterSegment(w), i)
    /\ UNCHANGED playlist

\* Mutant of UploadSegment: only the first asks.
UploadSegmentUnasked(w) ==
    /\ worker[w].pc = "segments" /\ (worker[w].cleared \/ worker[w].sent > 0)
    /\ LET i == worker[w].sent + 1
       IN  /\ segment' = [segment EXCEPT ![i] = worker[w].attempt]
           /\ Written(w, i, AfterSegment(w), i)
    /\ UNCHANGED playlist

UploadSegment(w) ==
    /\ Ready(w, "segments")
    /\ LET i == worker[w].sent + 1
       IN  /\ segment' = [segment EXCEPT ![i] = worker[w].attempt]
           /\ Written(w, i, AfterSegment(w), i)
    /\ UNCHANGED playlist

UploadPlaylist(w) ==
    /\ Ready(w, "playlist")
    /\ playlist' = [by |-> worker[w].attempt, length |-> worker[w].length]
    /\ Written(w, Playlist, "result", worker[w].sent)
    /\ UNCHANGED segment

\* mark_encoding_job_succeeded or _skipped, which refuse a worker that does
\* not own the job; a loss the heartbeat has noticed is not even reported.
Result(w) ==
    /\ worker[w].pc = "result"
    /\ worker' = [worker EXCEPT ![w] = Idle]
    /\ IF Owns(w) /\ ~worker[w].noticed
       THEN Lease!Settle(w, IF worker[w].length = 0 THEN "skipped" ELSE "done")
       ELSE Lease!Leave(w)
    /\ UNCHANGED <<rendition, files, stray, faults>>

\* A step raises: mark_encoding_job_failed, in one transaction.
Fails(w) ==
    /\ worker[w].pc \notin {"idle", "result"} /\ worker[w].cleared
    /\ Fault
    /\ worker' = [worker EXCEPT ![w] = Idle]
    /\ IF Owns(w) THEN Lease!Fail(w) ELSE Lease!Leave(w)
    /\ UNCHANGED <<rendition, files, stray>>

\* The transaction that should report the result or the failure raises itself:
\* the attempt is over, but the job still has w for its owner.
Raises(w) ==
    /\ \/ worker[w].pc = "result" /\ ~worker[w].noticed
       \/ worker[w].pc # "idle" /\ worker[w].cleared
    /\ Fault
    /\ worker' = [worker EXCEPT ![w] = Idle]
    /\ Lease!Leave(w)
    /\ UNCHANGED <<rendition, files, stray>>

\* The process dies; another takes its place under another worker_id.
Crash(w) ==
    /\ worker[w].pc # "idle" \/ owner = w
    /\ Fault
    /\ worker' = [worker EXCEPT ![w] = Idle]
    /\ Lease!Die(w)
    /\ UNCHANGED <<rendition, files, stray>>

WorkerStep(w) ==
    \/ Claim(w) \/ HeartbeatLost(w) \/ IntervalElapses(w) \/ Cleared(w) \/ Stopped(w)
    \/ Download(w) \/ Probe(w) \/ Encode(w) \/ UploadSegment(w) \/ UploadPlaylist(w)
    \/ Result(w) \/ Fails(w) \/ Raises(w) \/ Crash(w)

Next == Reap \/ \E w \in Workers : WorkerStep(w)

Spec == Init /\ [][Next]_vars

-----------------------------------------------------------------------------
\* Whichever attempts fail, die or write over each other, at any moment every
\* segment named by the playlist in storage is there (_upload_hls_outputs).
PlaylistNeverDangles ==
    playlist.by # 0 => \A i \in 1..playlist.length : segment[i] # 0

\* A rendition that is done is the encoding of its last attempt, playlist and
\* segments, whatever earlier attempts have left behind: only a file that was
\* written over by a worker the job had been taken from may be of another.
\* (_upload_hls_outputs, _build_ownership_lost_checker)
DoneIsOneEncoding ==
    status = "done" /\ Playlist \notin stray =>
        /\ playlist.by = attempts
        /\ \A i \in 1..playlist.length : segment[i] = attempts \/ i \in stray

\* A worker whose heartbeat has noticed the loss writes one more file at most:
\* the one it had asked about before (_raise_if_cancelled).  It is the part of
\* the next property that the code keeps.
NoticedStops == \A w \in Workers : worker[w].late <= 1

\* README, step 12: the worker verifies that it still owns the job "so a stale
\* worker cannot overwrite files after another worker reclaimed the job".  No
\* file of a later attempt is ever replaced by one of an earlier attempt.
StaleWorkersDoNotOverwrite ==
    [][ /\ \A i \in 1..MaxSegments : segment'[i] >= segment[i]
        /\ playlist'.by >= playlist.by ]_<<segment, playlist>>
=============================================================================
