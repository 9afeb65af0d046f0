-------------------------- MODULE HlsOutputProofs --------------------------
(***************************************************************************)
(* Proofs about module HlsOutput, for every number of workers, attempts,   *)
(* segments and faults, and about the presets of HlsPresets.               *)
(*                                                                         *)
(* The argument: files are never removed, and a worker that has sent n     *)
(* segments has put each of the first n there, itself or over another's.   *)
(* It writes the playlist when it has sent as many as it names.            *)
(***************************************************************************)
EXTENDS HlsOutput, TLAPS

\* The part of the type invariant that the argument uses.
Shape ==
    /\ attempts \in Nat
    /\ segment \in [1..MaxSegments -> Nat]
    /\ playlist \in [by : Nat, length : Nat]
    /\ worker \in [Workers -> WorkerRecord]

\* What a worker has sent is there, and it sends no more than it has encoded.
Sent(w) ==
    /\ worker[w].pc # "idle" => worker[w].attempt # 0
    /\ worker[w].length <= MaxSegments /\ worker[w].sent <= worker[w].length
    /\ worker[w].pc = "segments" => worker[w].sent < worker[w].length
    /\ worker[w].pc = "playlist" => worker[w].sent = worker[w].length
    /\ worker[w].pc \in {"idle", "download", "probe", "encode"} => worker[w].length = 0
    /\ \A i \in 1..worker[w].sent : segment[i] # 0

Named ==
    /\ playlist.length <= MaxSegments
    /\ PlaylistNeverDangles

IInv == Shape /\ (\A w \in Workers : Sent(w)) /\ Named

USE OutputAssumption

-----------------------------------------------------------------------------
\* What becomes of the job.

LEMMA OwnerIs == \A w : Owns(w) <=> status = "running" /\ owner = w
  BY DEF Owns, Lease!Owns

LEMMA ReapMoves ==
  ASSUME Reap
  PROVE  status' \in {"pending", "failed"} /\ owner' = None /\ UNCHANGED attempts
  BY DEF Reap, Lease!Withdraw, Lease!Release

LEMMA LeaseMoves ==
  ASSUME NEW w \in Workers
  PROVE  /\ Claim(w) => /\ status = "pending" /\ attempts < MaxAttempts
                        /\ status' = "running" /\ owner' = w /\ attempts' = attempts + 1
         /\ Stopped(w) \/ Raises(w) => UNCHANGED <<status, owner, attempts>>
         /\ Result(w) =>
               \/ UNCHANGED <<status, owner, attempts>>
               \/ /\ status' = IF worker[w].length = 0 THEN "skipped" ELSE "done"
                  /\ Owns(w) /\ owner' = None /\ UNCHANGED attempts
         /\ Fails(w) =>
               \/ UNCHANGED <<status, owner, attempts>>
               \/ status' \in {"pending", "failed"} /\ owner' = None /\ UNCHANGED attempts
         /\ Crash(w) => /\ owner' = IF owner = w THEN Gone ELSE owner
                        /\ UNCHANGED <<status, attempts>>
  BY DEF Owns, Claim, Stopped, Raises, Result, Fails, Crash, Lease!Owns, Lease!Take,
         Lease!Release, Lease!Leave, Lease!Settle, Lease!Fail, Lease!Die

-----------------------------------------------------------------------------
\* Records, field by field.

\* A worker's next record, with the fields that the argument follows.
Becomes(w, pc, n, length, sent) ==
    /\ worker'[w] \in WorkerRecord
    /\ worker'[w].pc = pc /\ worker'[w].attempt = n
    /\ worker'[w].length = length /\ worker'[w].sent = sent
    /\ worker' \in [Workers -> WorkerRecord]
    /\ \A v \in Workers \ {w} : worker'[v] = worker[v]

\* A worker that goes on with its attempt.
Continues(w, pc, length, sent) == Becomes(w, pc, worker[w].attempt, length, sent)

LEMMA FieldsOf ==
  ASSUME Shape, NEW w \in Workers
  PROVE  /\ worker[w].pc \in PC /\ worker[w].attempt \in Nat
         /\ worker[w].length \in Nat /\ worker[w].sent \in Nat
  BY DEF Shape, WorkerRecord

\* A fresh attempt, and none.
LEMMA AttemptIs ==
  ASSUME NEW pc \in PC, NEW n \in Nat
  PROVE  /\ Attempt(pc, n) \in WorkerRecord
         /\ Attempt(pc, n).pc = pc /\ Attempt(pc, n).attempt = n
         /\ Attempt(pc, n).length = 0 /\ Attempt(pc, n).sent = 0
  BY DEF Attempt, WorkerRecord

LEMMA Replaced ==
  ASSUME Shape, NEW w \in Workers, NEW pc \in PC, NEW n \in Nat,
         worker' = [worker EXCEPT ![w] = Attempt(pc, n)]
  PROVE  Becomes(w, pc, n, 0, 0)
  BY AttemptIs DEF Shape, Becomes

LEMMA IdleStep ==
  ASSUME Shape, NEW w \in Workers, worker' = [worker EXCEPT ![w] = Idle]
  PROVE  Becomes(w, "idle", 0, 0, 0)
  BY Replaced DEF Idle, PC

LEMMA InitIsShaped == Init => IInv
  BY DEF Init, IInv, Shape, Sent, Named, PlaylistNeverDangles, Idle, Attempt, WorkerRecord, PC

-----------------------------------------------------------------------------
\* What each kind of step makes of the worker.

LEMMA NoticeStep ==
  ASSUME Shape, NEW w \in Workers,
         HeartbeatLost(w) \/ IntervalElapses(w) \/ Cleared(w)
  PROVE  /\ Continues(w, worker[w].pc, worker[w].length, worker[w].sent)
         /\ UNCHANGED <<attempts, segment, playlist>>
  <1>1. CASE HeartbeatLost(w)
    <2>1. worker' = [worker EXCEPT ![w].noticed = TRUE]
      BY <1>1 DEF HeartbeatLost
    <2>2. Continues(w, worker[w].pc, worker[w].length, worker[w].sent)
      BY <2>1 DEF Shape, WorkerRecord, Continues, Becomes
    <2> QED
      BY <1>1, <2>2 DEF HeartbeatLost, job, files
  <1>2. CASE IntervalElapses(w)
    <2>1. worker' = [worker EXCEPT ![w].recent = FALSE]
      BY <1>2 DEF IntervalElapses
    <2>2. Continues(w, worker[w].pc, worker[w].length, worker[w].sent)
      BY <2>1 DEF Shape, WorkerRecord, Continues, Becomes
    <2> QED
      BY <1>2, <2>2 DEF IntervalElapses, job, files
  <1>3. CASE Cleared(w)
    <2>1. worker' = [worker EXCEPT ![w].cleared = TRUE, ![w].recent = TRUE]
      BY <1>3 DEF Cleared
    <2>2. Continues(w, worker[w].pc, worker[w].length, worker[w].sent)
      BY <2>1 DEF Shape, WorkerRecord, Continues, Becomes
    <2> QED
      BY <1>3, <2>2 DEF Cleared, job, files
  <1> QED
    BY <1>1, <1>2, <1>3

LEMMA PrepareStep ==
  ASSUME Shape, NEW w \in Workers, Download(w) \/ Probe(w)
  PROVE  /\ \E pc \in {"probe", "encode", "result"} :
              Continues(w, pc, worker[w].length, worker[w].sent)
         /\ worker[w].pc \in {"download", "probe"}
         /\ UNCHANGED <<attempts, segment, playlist>>
  <1>1. PICK pc \in {"probe", "encode", "result"} :
          worker' = [worker EXCEPT ![w].pc = pc, ![w].cleared = FALSE]
    BY DEF Download, Probe
  <1>2. Continues(w, pc, worker[w].length, worker[w].sent)
    <2>1. worker[w] \in WorkerRecord /\ pc \in PC
      BY DEF Shape, PC
    <2>2. worker'[w] = [worker[w] EXCEPT !.pc = pc, !.cleared = FALSE]
      BY <1>1 DEF Shape
    <2>3. /\ worker'[w] \in WorkerRecord
          /\ worker'[w].pc = pc /\ worker'[w].attempt = worker[w].attempt
          /\ worker'[w].length = worker[w].length /\ worker'[w].sent = worker[w].sent
      BY <2>1, <2>2 DEF WorkerRecord
    <2> QED
      BY <1>1, <2>3 DEF Shape, Continues, Becomes
  <1> QED
    BY <1>2 DEF Download, Probe, Ready, job, files

LEMMA EncodeStep ==
  ASSUME Shape, NEW w \in Workers, Encode(w)
  PROVE  /\ \E n \in 1..MaxSegments : Continues(w, "segments", n, worker[w].sent)
         /\ worker[w].pc = "encode"
         /\ UNCHANGED <<attempts, segment, playlist>>
  <1>1. PICK n \in 1..MaxSegments :
          worker' = [worker EXCEPT ![w].pc = "segments", ![w].length = n, ![w].cleared = FALSE]
    BY DEF Encode
  <1>2. n \in Nat
    OBVIOUS
  <1>3. worker'[w] \in WorkerRecord /\ worker' \in [Workers -> WorkerRecord]
    <2>1. worker[w] \in WorkerRecord /\ "segments" \in PC
      BY DEF Shape, PC
    <2>2. [worker[w] EXCEPT !.pc = "segments", !.length = n, !.cleared = FALSE] \in WorkerRecord
      BY <1>2, <2>1 DEF WorkerRecord
    <2> QED
      BY <1>1, <2>2 DEF Shape
  <1>4. /\ worker'[w].pc = "segments" /\ worker'[w].attempt = worker[w].attempt
        /\ worker'[w].length = n /\ worker'[w].sent = worker[w].sent
    BY <1>1 DEF Shape, WorkerRecord
  <1>5. \A v \in Workers \ {w} : worker'[v] = worker[v]
    BY <1>1 DEF Shape
  <1> QED
    BY <1>3, <1>4, <1>5 DEF Encode, Ready, job, files, Continues, Becomes

LEMMA WrittenStep ==
  ASSUME Shape, NEW w \in Workers, NEW file, NEW pc \in PC, NEW n \in Nat,
         Written(w, file, pc, n)
  PROVE  Continues(w, pc, worker[w].length, n) /\ UNCHANGED attempts
  <1>1. PICK late \in Nat :
          worker' = [worker EXCEPT ![w].pc = pc, ![w].sent = n, ![w].cleared = FALSE,
                                   ![w].late = late]
    <2>1. worker[w].late \in Nat /\ worker[w].late + 1 \in Nat
      BY DEF Shape, WorkerRecord
    <2>2. CASE worker[w].noticed
      BY <2>1, <2>2 DEF Written
    <2>3. CASE ~worker[w].noticed
      BY <2>1, <2>3 DEF Written
    <2> QED
      BY <2>2, <2>3
  <1>2. worker'[w] \in WorkerRecord /\ worker' \in [Workers -> WorkerRecord]
    <2>1. worker[w] \in WorkerRecord
      BY DEF Shape
    <2>2. [worker[w] EXCEPT !.pc = pc, !.sent = n, !.cleared = FALSE, !.late = late]
            \in WorkerRecord
      BY <2>1 DEF WorkerRecord
    <2> QED
      BY <1>1, <2>2 DEF Shape
  <1>3. /\ worker'[w].pc = pc /\ worker'[w].attempt = worker[w].attempt
        /\ worker'[w].length = worker[w].length /\ worker'[w].sent = n
    BY <1>1 DEF Shape, WorkerRecord
  <1>4. \A v \in Workers \ {w} : worker'[v] = worker[v]
    BY <1>1 DEF Shape
  <1> QED
    BY <1>2, <1>3, <1>4 DEF Written, job, Continues, Becomes

-----------------------------------------------------------------------------
\* Every segment that the playlist names is in storage.

\* Files are written, never removed.
Grows ==
    /\ segment' \in [1..MaxSegments -> Nat]
    /\ \A i \in 1..MaxSegments : segment[i] # 0 => segment'[i] # 0

\* A step of one worker that leaves the playlist alone.
LEMMA WorkerKeeps ==
  ASSUME IInv, NEW w \in Workers, NEW pc, NEW n, NEW length, NEW sent,
         Becomes(w, pc, n, length, sent), attempts' \in Nat, Grows, UNCHANGED playlist,
         Sent(w)'
  PROVE  IInv'
  <1>1. Shape'
    BY DEF IInv, Shape, Becomes, Grows
  <1>2. ASSUME NEW v \in Workers, v # w
        PROVE  Sent(v)'
    <2>1. worker'[v] = worker[v] /\ Sent(v)
      BY <1>2 DEF Becomes, IInv
    <2>2. worker[v].length \in Nat /\ worker[v].sent \in Nat
      BY FieldsOf DEF IInv
    <2> QED
      BY <2>1, <2>2 DEF Sent, Grows
  <1>3. Named'
    BY DEF IInv, Shape, Named, PlaylistNeverDangles, Grows
  <1> QED
    BY <1>1, <1>2, <1>3 DEF IInv

LEMMA UnchangedGrows == ASSUME IInv, UNCHANGED segment PROVE Grows
  BY DEF IInv, Shape, Grows

\* A worker that stops, or starts another attempt.
LEMMA FreshKeeps ==
  ASSUME IInv, NEW w \in Workers, NEW pc \in {"idle", "download"}, NEW n \in Nat,
         Becomes(w, pc, n, 0, 0), pc # "idle" => n # 0,
         attempts' \in Nat, UNCHANGED <<segment, playlist>>
  PROVE  IInv'
  <1>1. Sent(w)'
    BY DEF Becomes, Sent
  <1> QED
    BY <1>1, UnchangedGrows, WorkerKeeps

\* A worker that goes on without writing.
LEMMA QuietKeeps ==
  ASSUME IInv, NEW w \in Workers, NEW pc, NEW length \in Nat,
         Continues(w, pc, length, worker[w].sent), worker[w].pc # "idle",
         UNCHANGED <<attempts, segment, playlist>>,
         \/ pc = worker[w].pc /\ length = worker[w].length
         \/ /\ worker[w].pc \in {"download", "probe"}
            /\ pc \in {"probe", "encode", "result"} /\ length = worker[w].length
         \/ worker[w].pc = "encode" /\ pc = "segments" /\ length \in 1..MaxSegments
  PROVE  IInv'
  <1>1. Sent(w) /\ worker[w].length \in Nat /\ worker[w].sent \in Nat
    BY FieldsOf DEF IInv
  <1>2. Sent(w)'
    BY <1>1 DEF Continues, Becomes, Sent
  <1>3. attempts' \in Nat
    BY DEF IInv, Shape
  <1> QED
    BY <1>2, <1>3, UnchangedGrows, WorkerKeeps DEF Continues

LEMMA SegmentKeeps ==
  ASSUME IInv, NEW w \in Workers, UploadSegment(w)
  PROVE  IInv'
  <1> DEFINE i == worker[w].sent + 1
  <1>1. /\ Sent(w) /\ worker[w].length \in Nat /\ worker[w].sent \in Nat
        /\ worker[w].attempt \in Nat /\ worker[w].pc = "segments"
    BY FieldsOf DEF IInv, UploadSegment, Ready
  <1>2. i \in 1..MaxSegments /\ i <= worker[w].length /\ worker[w].attempt # 0
    BY <1>1 DEF Sent
  <1>3. segment' = [segment EXCEPT ![i] = worker[w].attempt]
    BY DEF UploadSegment
  <1>4. Grows /\ segment'[i] # 0
    BY <1>1, <1>2, <1>3 DEF IInv, Shape, Grows
  <1>5. AfterSegment(w) \in PC /\ Written(w, i, AfterSegment(w), i) /\ UNCHANGED playlist
    BY DEF UploadSegment, AfterSegment, PC
  <1>6. Continues(w, AfterSegment(w), worker[w].length, i) /\ attempts' \in Nat
    BY <1>1, <1>5, WrittenStep DEF IInv, Shape
  <1>7. Sent(w)'
    <2>1. \A k \in 1..i : segment'[k] # 0
      BY <1>1, <1>2, <1>4 DEF Sent, Grows
    <2>2. AfterSegment(w) \in {"playlist", "segments"}
          /\ (AfterSegment(w) = "playlist" <=> i = worker[w].length)
      BY DEF AfterSegment
    <2> QED
      BY <1>1, <1>2, <1>6, <2>1, <2>2 DEF Sent, Continues, Becomes
  <1> QED
    BY <1>4, <1>5, <1>6, <1>7, WorkerKeeps DEF Continues

\* The playlist names as many segments as its writer has sent.
LEMMA PlaylistKeeps ==
  ASSUME IInv, NEW w \in Workers, UploadPlaylist(w)
  PROVE  IInv'
  <1>1. /\ Sent(w) /\ worker[w].length \in Nat /\ worker[w].sent \in Nat
        /\ worker[w].attempt \in Nat /\ worker[w].pc = "playlist"
    BY FieldsOf DEF IInv, UploadPlaylist, Ready
  <1>2. playlist' = [by |-> worker[w].attempt, length |-> worker[w].length]
        /\ UNCHANGED segment /\ Written(w, Playlist, "result", worker[w].sent)
    BY DEF UploadPlaylist
  <1>3. Continues(w, "result", worker[w].length, worker[w].sent) /\ UNCHANGED attempts
    BY <1>1, <1>2, WrittenStep DEF IInv, PC
  <1>4. Shape'
    BY <1>1, <1>2, <1>3 DEF IInv, Shape, Continues, Becomes
  <1>5. ASSUME NEW v \in Workers PROVE Sent(v)'
    <2>1. CASE v = w
      BY <1>1, <1>2, <1>3, <2>1 DEF Sent, Continues, Becomes
    <2>2. CASE v # w
      <3>1. worker'[v] = worker[v] /\ Sent(v)
        BY <1>3, <2>2 DEF Continues, Becomes, IInv
      <3> QED
        BY <1>2, <3>1 DEF Sent
    <2> QED
      BY <2>1, <2>2
  <1>6. playlist'.length = worker[w].length /\ worker[w].sent = worker[w].length
    BY <1>1, <1>2 DEF Sent
  <1>7. Named'
    BY <1>1, <1>2, <1>6 DEF Named, PlaylistNeverDangles, Sent
  <1> QED
    BY <1>4, <1>5, <1>7 DEF IInv

LEMMA StepKeeps == IInv /\ [Next]_vars => IInv'
  <1> SUFFICES ASSUME IInv, [Next]_vars PROVE IInv'
    OBVIOUS
  <1>1. Shape
    BY DEF IInv
  <1>2. CASE UNCHANGED vars
    BY <1>2 DEF vars, IInv, Shape, Sent, Named, PlaylistNeverDangles
  <1>3. CASE Reap
    BY <1>3, ReapMoves DEF Reap, files, IInv, Shape, Sent, Named, PlaylistNeverDangles
  <1>4. ASSUME NEW w \in Workers, WorkerStep(w)
        PROVE  IInv'
    <2>0. /\ worker[w].pc \in PC /\ worker[w].length \in Nat
          /\ attempts \in Nat /\ attempts + 1 \in Nat /\ attempts + 1 # 0
      BY <1>1, FieldsOf DEF Shape
    <2>1. CASE Claim(w)
      <3>1. worker' = [worker EXCEPT ![w] = Attempt("download", attempts + 1)]
            /\ attempts' = attempts + 1 /\ UNCHANGED <<segment, playlist>>
        BY <2>1, LeaseMoves DEF Claim, files
      <3>2. Becomes(w, "download", attempts + 1, 0, 0)
        BY <1>1, <2>0, <3>1, Replaced DEF PC
      <3> QED
        BY <2>0, <3>1, <3>2, FreshKeeps
    <2>2. CASE HeartbeatLost(w) \/ IntervalElapses(w) \/ Cleared(w)
      <3>1. Continues(w, worker[w].pc, worker[w].length, worker[w].sent)
            /\ UNCHANGED <<attempts, segment, playlist>>
        BY <1>1, <2>2, NoticeStep
      <3>2. CASE worker[w].pc = "idle"
        <4>1. Sent(w)'
          BY <3>1, <3>2 DEF IInv, Sent, Continues, Becomes
        <4>2. attempts' \in Nat
          BY <2>0, <3>1
        <4> QED
          BY <3>1, <4>1, <4>2, UnchangedGrows, WorkerKeeps DEF Continues
      <3> QED
        BY <2>0, <3>1, <3>2, QuietKeeps
    <2>3. CASE Download(w) \/ Probe(w)
      BY <1>1, <2>0, <2>3, PrepareStep, QuietKeeps
    <2>4. CASE Encode(w)
      <3>1. PICK n \in 1..MaxSegments : Continues(w, "segments", n, worker[w].sent)
        BY <1>1, <2>4, EncodeStep
      <3>2. worker[w].pc = "encode" /\ UNCHANGED <<attempts, segment, playlist>>
        BY <1>1, <2>4, EncodeStep
      <3>3. n \in Nat
        OBVIOUS
      <3> QED
        BY <3>1, <3>2, <3>3, QuietKeeps
    <2>5. CASE UploadSegment(w)
      BY <2>5, SegmentKeeps
    <2>6. CASE UploadPlaylist(w)
      BY <2>6, PlaylistKeeps
    <2>7. CASE Stopped(w) \/ Result(w) \/ Fails(w) \/ Raises(w) \/ Crash(w)
      <3>1. worker' = [worker EXCEPT ![w] = Idle] /\ attempts' \in Nat
            /\ UNCHANGED <<segment, playlist>>
        BY <2>0, <2>7, LeaseMoves DEF Stopped, Result, Fails, Raises, Crash, files
      <3>2. Becomes(w, "idle", 0, 0, 0)
        BY <1>1, <3>1, IdleStep
      <3> QED
        BY <3>1, <3>2, FreshKeeps
    <2> QED
      BY <1>4, <2>1, <2>2, <2>3, <2>4, <2>5, <2>6, <2>7 DEF WorkerStep
  <1> QED
    BY <1>2, <1>3, <1>4 DEF Next

\* Whatever fails, dies or overlaps, and however many workers and segments
\* there are: the playlist of a rendition names no segment that is not there.
THEOREM PlaylistTheorem == Spec => []PlaylistNeverDangles
  <1>1. IInv => PlaylistNeverDangles
    BY DEF IInv, Named
  <1> QED
    BY <1>1, InitIsShaped, StepKeeps, PTL DEF Spec

-----------------------------------------------------------------------------
\* Type correctness.

\* What Shape does not say.
Rest ==
    /\ rendition \in [resolution : Resolutions, source : Sources]
    /\ status \in {"pending", "running", "done", "skipped", "failed"}
    /\ owner \in Workers \cup {None, Gone}
    /\ stray \subseteq File /\ faults \in Nat

LEMMA WriteIsOfOneFile ==
  ASSUME IInv, NEW w \in Workers, UploadSegment(w) \/ UploadPlaylist(w)
  PROVE  \E file \in File : \E pc, n : Written(w, file, pc, n)
  <1>1. CASE UploadSegment(w)
    <2>1. /\ Sent(w) /\ worker[w].length \in Nat /\ worker[w].sent \in Nat
          /\ worker[w].pc = "segments"
      BY <1>1, FieldsOf DEF IInv, UploadSegment, Ready
    <2>2. worker[w].sent + 1 \in File
      BY <2>1 DEF Sent, File
    <2> QED
      BY <1>1, <2>2 DEF UploadSegment
  <1>2. CASE UploadPlaylist(w)
    BY <1>2 DEF UploadPlaylist, File
  <1> QED
    BY <1>1, <1>2

LEMMA StepIsTyped == IInv /\ Rest /\ [Next]_vars => Rest'
  <1> SUFFICES ASSUME IInv, Rest, [Next]_vars PROVE Rest'
    OBVIOUS
  <1>1. faults + 1 \in Nat
    BY DEF Rest
  <1>2. CASE UNCHANGED vars
    BY <1>2 DEF vars, Rest
  <1>3. CASE Reap
    BY <1>3, ReapMoves DEF Reap, Rest
  <1>4. ASSUME NEW w \in Workers, WorkerStep(w)
        PROVE  Rest'
    <2>1. CASE Claim(w)
      BY <2>1, LeaseMoves DEF Claim, Rest
    <2>2. CASE HeartbeatLost(w) \/ IntervalElapses(w) \/ Cleared(w)
      BY <1>1, <2>2 DEF HeartbeatLost, IntervalElapses, Cleared, Fault, Rest, job
    <2>3. CASE Stopped(w) \/ Download(w) \/ Probe(w) \/ Encode(w)
      BY <2>3, LeaseMoves DEF Stopped, Download, Probe, Encode, Rest, job
    <2>4. CASE UploadSegment(w) \/ UploadPlaylist(w)
      <3>1. PICK file \in File : \E pc, n : Written(w, file, pc, n)
        BY <2>4, WriteIsOfOneFile
      <3> QED
        BY <3>1 DEF Written, Rest, job
    <2>5. CASE Result(w)
      BY <2>5, LeaseMoves DEF Result, Rest
    <2>6. CASE Fails(w) \/ Raises(w) \/ Crash(w)
      BY <1>1, <2>6, LeaseMoves DEF Fails, Raises, Crash, Fault, Rest
    <2> QED
      BY <1>4, <2>1, <2>2, <2>3, <2>4, <2>5, <2>6 DEF WorkerStep
  <1> QED
    BY <1>2, <1>3, <1>4 DEF Next

\* The job, the files and the workers always have their types (worker/processor.py).
THEOREM TypeTheorem == Spec => []TypeOK
  <1>1. Init => Rest
    <2> SUFFICES ASSUME Init PROVE Rest
      OBVIOUS
    <2>1. stray \subseteq File /\ faults \in Nat
      BY DEF Init
    <2> QED
      BY <2>1 DEF Init, Rest
  <1>2. IInv /\ Rest => TypeOK
    BY DEF IInv, Shape, Rest, TypeOK
  <1> QED
    BY <1>1, <1>2, InitIsShaped, StepKeeps, StepIsTyped, PTL DEF Spec

-----------------------------------------------------------------------------
\* A rendition that is done is one encoding.

\* The files of w's attempt, as far as it has come, are its own, but for those
\* that a worker without the job has written over.
Own(w) ==
    /\ worker[w].pc # "idle" => worker[w].attempt = attempts
    /\ \A i \in 1..worker[w].sent : segment[i] = worker[w].attempt \/ i \in stray
    /\ worker[w].pc = "result" /\ worker[w].length # 0 =>
          /\ worker[w].sent = worker[w].length
          /\ Playlist \notin stray => /\ playlist.by = worker[w].attempt
                                      /\ playlist.length = worker[w].length

Whole ==
    Playlist \notin stray =>
        /\ playlist.by = attempts
        /\ \A i \in 1..playlist.length : segment[i] = attempts \/ i \in stray

Undisturbed ==
    /\ \A w \in Workers : Owns(w) => Own(w)
    /\ status = "done" => Whole

\* A step that writes no file and finishes no job, and after which a worker
\* that owns the job did before, and goes on, or starts, or is idle.
LEMMA QuietIsUndisturbed ==
  ASSUME IInv, Undisturbed, UNCHANGED <<segment, playlist, stray>>,
         status' = "done" => status = "done" /\ UNCHANGED attempts,
         \A v \in Workers : Owns(v)' =>
            \/ worker'[v].sent = 0 /\ worker'[v].pc = "idle"
            \/ /\ worker'[v].sent = 0 /\ worker'[v].pc # "result"
               /\ worker'[v].attempt = attempts'
            \/ /\ Owns(v) /\ UNCHANGED attempts /\ worker'[v].sent = worker[v].sent
               /\ worker'[v].attempt = worker[v].attempt
               /\ worker'[v].pc # "idle" => worker[v].pc # "idle"
               /\ worker'[v].pc = "result" /\ worker'[v].length # 0 =>
                     worker[v].pc = "result" /\ worker'[v].length = worker[v].length
  PROVE  Undisturbed'
  <1>1. ASSUME NEW v \in Workers, Owns(v)' PROVE Own(v)'
    BY <1>1 DEF Undisturbed, Own
  <1>2. status' = "done" => Whole'
    BY DEF Undisturbed, Whole
  <1> QED
    BY <1>1, <1>2 DEF Undisturbed

\* A write leaves the other files and the job alone.
LEMMA WriteIs ==
  ASSUME IInv, NEW w \in Workers, UploadSegment(w) \/ UploadPlaylist(w)
  PROVE  \E file \in File :
            /\ \A v \in Workers \ {w} : worker'[v] = worker[v]
            /\ UNCHANGED <<status, owner, attempts>>
            /\ stray' = IF Owns(w) THEN stray \ {file} ELSE stray \cup {file}
            /\ \A i \in 1..MaxSegments : i # file => segment'[i] = segment[i]
            /\ file # Playlist => UNCHANGED playlist
  <1>1. PICK file \in File :
          /\ \E pc, n : Written(w, file, pc, n)
          /\ \A i \in 1..MaxSegments : i # file => segment'[i] = segment[i]
          /\ file # Playlist => UNCHANGED playlist
    <2>1. CASE UploadSegment(w)
      <3> DEFINE i == worker[w].sent + 1
      <3>1. /\ Sent(w) /\ worker[w].length \in Nat /\ worker[w].sent \in Nat
            /\ worker[w].pc = "segments"
        BY <2>1, FieldsOf DEF IInv, UploadSegment, Ready
      <3>2. i \in File
        BY <3>1 DEF Sent, File
      <3>3. /\ segment' = [segment EXCEPT ![i] = worker[w].attempt] /\ UNCHANGED playlist
            /\ Written(w, i, AfterSegment(w), i)
        BY <2>1 DEF UploadSegment
      <3>4. \A k \in 1..MaxSegments : k # i => segment'[k] = segment[k]
        BY <3>3 DEF IInv, Shape
      <3> QED
        BY <3>2, <3>3, <3>4
    <2>2. CASE UploadPlaylist(w)
      BY <2>2 DEF UploadPlaylist, File
    <2> QED
      BY <2>1, <2>2
  <1>2. \A v \in Workers \ {w} : worker'[v] = worker[v]
    BY <1>1 DEF Written, IInv, Shape
  <1> QED
    BY <1>1, <1>2 DEF Written, job

\* A file written by a worker without the job is stray from then on.
LEMMA StrayWrite ==
  ASSUME IInv, Undisturbed, NEW w \in Workers, UploadSegment(w) \/ UploadPlaylist(w),
         ~Owns(w)
  PROVE  Undisturbed'
  <1>1. PICK file \in File :
          /\ \A v \in Workers \ {w} : worker'[v] = worker[v]
          /\ UNCHANGED <<status, owner, attempts>>
          /\ stray' = stray \cup {file}
          /\ \A i \in 1..MaxSegments : i # file => segment'[i] = segment[i]
          /\ file # Playlist => UNCHANGED playlist
    BY WriteIs
  <1>2. Playlist \notin stray' => Playlist \notin stray /\ UNCHANGED playlist
    BY <1>1
  <1>3. \A i \in 1..MaxSegments : i \in stray' \/ (i \notin stray /\ segment'[i] = segment[i])
    BY <1>1
  <1>4. ASSUME NEW v \in Workers, Owns(v)'
        PROVE  Own(v)'
    <2>1. Owns(v) /\ v # w /\ worker'[v] = worker[v]
      BY <1>1, <1>4 DEF Owns, Lease!Owns
    <2>2. Own(v) /\ Sent(v) /\ worker[v].sent \in Nat /\ worker[v].length \in Nat
      BY <2>1, FieldsOf DEF Undisturbed, IInv
    <2>3. \A i \in 1..worker[v].sent : i \in 1..MaxSegments
      BY <2>2 DEF Sent
    <2>4. \A i \in 1..worker[v].sent : segment'[i] = worker[v].attempt \/ i \in stray'
      BY <1>3, <2>2, <2>3 DEF Own
    <2> QED
      BY <1>1, <1>2, <2>1, <2>2, <2>4 DEF Own
  <1>5. ASSUME status' = "done"
        PROVE  Whole'
    <2>1. Whole /\ playlist.length \in Nat /\ playlist.length <= MaxSegments
      BY <1>1, <1>5 DEF Undisturbed, IInv, Shape, Named
    <2>2. \A i \in 1..playlist.length : i \in 1..MaxSegments
      BY <2>1
    <2> QED
      BY <1>1, <1>2, <1>3, <2>1, <2>2 DEF Whole
  <1> QED
    BY <1>4, <1>5 DEF Undisturbed

\* A file written by the owner is its own, whatever was there.
LEMMA OwnWrite ==
  ASSUME IInv, Undisturbed, NEW w \in Workers, UploadSegment(w) \/ UploadPlaylist(w),
         Owns(w)
  PROVE  Undisturbed'
  <1>1. /\ Own(w) /\ Sent(w) /\ worker[w].length \in Nat /\ worker[w].sent \in Nat
        /\ worker[w].attempt \in Nat
    BY FieldsOf DEF Undisturbed, IInv
  <1>2. UNCHANGED <<status, owner, attempts>>
    BY WriteIs
  <1>3. Own(w)'
    <2>1. CASE UploadSegment(w)
      <3> DEFINE i == worker[w].sent + 1
      <3>1. AfterSegment(w) \in {"segments", "playlist"} /\ AfterSegment(w) \in PC
            /\ Written(w, i, AfterSegment(w), i) /\ worker[w].pc = "segments"
            /\ segment' = [segment EXCEPT ![i] = worker[w].attempt]
        BY <2>1 DEF UploadSegment, AfterSegment, PC, Ready
      <3>2. Continues(w, AfterSegment(w), worker[w].length, i)
        BY <1>1, <3>1, WrittenStep DEF IInv
      <3>3. i \in 1..MaxSegments /\ stray' = stray \ {i}
        BY <1>1, <3>1 DEF Sent, Written
      <3>4. \A k \in 1..i : segment'[k] = worker[w].attempt \/ k \in stray'
        BY <1>1, <3>1, <3>3 DEF Own, IInv, Shape
      <3>5. worker[w].attempt = attempts
        BY <1>1, <3>1 DEF Own
      <3> QED
        BY <1>2, <3>1, <3>2, <3>4, <3>5 DEF Own, Continues, Becomes
    <2>2. CASE UploadPlaylist(w)
      <3>1. /\ playlist' = [by |-> worker[w].attempt, length |-> worker[w].length]
            /\ UNCHANGED segment /\ Written(w, Playlist, "result", worker[w].sent)
            /\ worker[w].pc = "playlist"
        BY <2>2 DEF UploadPlaylist, Ready
      <3>2. Continues(w, "result", worker[w].length, worker[w].sent)
        BY <1>1, <3>1, WrittenStep DEF IInv, PC
      <3>3. stray' = stray \ {Playlist} /\ \A i \in 1..worker[w].sent : i # Playlist
        BY <1>1, <3>1 DEF Written, Playlist
      <3>4. \A i \in 1..worker[w].sent : segment'[i] = worker[w].attempt \/ i \in stray'
        BY <1>1, <3>1, <3>3 DEF Own
      <3>5. worker[w].attempt = attempts /\ worker[w].sent = worker[w].length
        BY <1>1, <3>1 DEF Own, Sent
      <3>6. playlist'.by = worker[w].attempt /\ playlist'.length = worker[w].length
        BY <3>1
      <3> QED
        BY <1>2, <3>2, <3>4, <3>5, <3>6 DEF Own, Continues, Becomes
    <2> QED
      BY <2>1, <2>2
  <1>4. \A v \in Workers : Owns(v)' => v = w
    BY <1>2 DEF Owns, Lease!Owns
  <1>5. status' # "done"
    BY <1>2 DEF Owns, Lease!Owns
  <1> QED
    BY <1>3, <1>4, <1>5 DEF Undisturbed

LEMMA StepIsUndisturbed == IInv /\ Undisturbed /\ [Next]_vars => Undisturbed'
  <1> SUFFICES ASSUME IInv, Undisturbed, [Next]_vars PROVE Undisturbed'
    OBVIOUS
  <1>1. Shape
    BY DEF IInv
  <1>2. CASE UNCHANGED vars
    BY <1>2 DEF vars, Undisturbed, Owns, Lease!Owns, Own, Whole
  <1>3. CASE Reap
    BY <1>3, ReapMoves DEF Reap, files, Undisturbed, Owns, Lease!Owns, Own, Whole
  <1>4. ASSUME NEW w \in Workers, WorkerStep(w)
        PROVE  Undisturbed'
    <2>1. CASE Claim(w)
      <3>0. attempts + 1 \in Nat
        BY <1>1 DEF Shape
      <3>1. worker' = [worker EXCEPT ![w] = Attempt("download", attempts + 1)]
            /\ UNCHANGED <<segment, playlist, stray>>
            /\ status' = "running" /\ owner' = w
        BY <2>1, LeaseMoves DEF Claim, files
      <3>2. Becomes(w, "download", attempts + 1, 0, 0)
        BY <1>1, <3>0, <3>1, Replaced DEF PC
      <3>3. \A v \in Workers : Owns(v)' => v = w
        BY <3>1 DEF Owns, Lease!Owns
      <3>4. /\ worker'[w].sent = 0 /\ worker'[w].pc # "result"
            /\ worker'[w].attempt = attempts'
        BY <2>1, <3>2, LeaseMoves DEF Becomes
      <3> QED
        BY <3>1, <3>3, <3>4, QuietIsUndisturbed
    <2>2. CASE HeartbeatLost(w) \/ IntervalElapses(w) \/ Cleared(w)
      <3>1. Continues(w, worker[w].pc, worker[w].length, worker[w].sent)
        BY <1>1, <2>2, NoticeStep
      <3>2. UNCHANGED <<segment, playlist, stray, status, owner, attempts>>
        BY <2>2 DEF HeartbeatLost, IntervalElapses, Cleared, files, job
      <3> QED
        BY <3>1, <3>2, QuietIsUndisturbed DEF Continues, Becomes, Owns, Lease!Owns
    <2>3. CASE Download(w) \/ Probe(w)
      <3>1. PICK pc \in {"probe", "encode", "result"} :
              Continues(w, pc, worker[w].length, worker[w].sent)
        BY <1>1, <2>3, PrepareStep
      <3>2. UNCHANGED <<segment, playlist, stray, status, owner, attempts>>
        BY <2>3 DEF Download, Probe, files, job
      <3>3. worker[w].length = 0 /\ worker[w].pc # "idle"
        BY <1>1, <2>3, PrepareStep, FieldsOf DEF IInv, Sent
      <3> QED
        BY <3>1, <3>2, <3>3, QuietIsUndisturbed DEF Continues, Becomes, Owns, Lease!Owns
    <2>4. CASE Encode(w)
      <3>1. PICK n \in 1..MaxSegments : Continues(w, "segments", n, worker[w].sent)
        BY <1>1, <2>4, EncodeStep
      <3>2. worker[w].pc = "encode"
        BY <1>1, <2>4, EncodeStep
      <3>3. UNCHANGED <<segment, playlist, stray, status, owner, attempts>>
        BY <2>4 DEF Encode, files, job
      <3> QED
        BY <3>1, <3>2, <3>3, QuietIsUndisturbed DEF Continues, Becomes, Owns, Lease!Owns
    <2>5. CASE UploadSegment(w) \/ UploadPlaylist(w)
      BY <2>5, StrayWrite, OwnWrite
    <2>6. CASE Result(w) /\ Owns(w) /\ status' = "done"
      <3>1. /\ worker[w].pc = "result" /\ worker[w].length # 0 /\ owner' = None
            /\ UNCHANGED <<segment, playlist, stray, attempts>>
        BY <2>6, LeaseMoves DEF Result, files, Owns, Lease!Owns
      <3>2. \A v \in Workers : ~Owns(v)'
        BY <3>1 DEF Owns, Lease!Owns
      <3>3. Own(w)
        BY <2>6 DEF Undisturbed
      <3>4. Whole'
        BY <3>1, <3>3 DEF Own, Whole
      <3> QED
        BY <3>2, <3>4 DEF Undisturbed
    <2>7. CASE Stopped(w) \/ Result(w) \/ Fails(w) \/ Raises(w) \/ Crash(w)
      <3> SUFFICES ASSUME ~(Result(w) /\ Owns(w) /\ status' = "done") PROVE Undisturbed'
        BY <2>6
      <3>1. worker' = [worker EXCEPT ![w] = Idle]
            /\ UNCHANGED <<segment, playlist, stray>>
        BY <2>7 DEF Stopped, Result, Fails, Raises, Crash, files
      <3>2. Becomes(w, "idle", 0, 0, 0)
        BY <1>1, <3>1, IdleStep
      <3>3. /\ status' = "done" => status = "done" /\ UNCHANGED attempts
            /\ \A v \in Workers : Owns(v)' => Owns(v) /\ UNCHANGED attempts
        BY <2>7, LeaseMoves, OwnerIs DEF Result, Owns, Lease!Owns
      <3> QED
        BY <3>1, <3>2, <3>3, QuietIsUndisturbed DEF Becomes
    <2> QED
      BY <1>4, <2>1, <2>2, <2>3, <2>4, <2>5, <2>7 DEF WorkerStep
  <1> QED
    BY <1>2, <1>3, <1>4 DEF Next

\* A rendition that is done is the encoding of its last attempt, but for the
\* files that a worker without the job has written over.
THEOREM OneEncodingTheorem == Spec => []DoneIsOneEncoding
  <1>1. Init => Undisturbed
    BY DEF Init, Undisturbed, Owns, Lease!Owns
  <1>2. Undisturbed => DoneIsOneEncoding
    BY DEF Undisturbed, DoneIsOneEncoding, Whole
  <1> QED
    BY <1>1, <1>2, InitIsShaped, StepKeeps, StepIsUndisturbed, PTL DEF Spec

-----------------------------------------------------------------------------
\* A worker that has noticed its loss writes one more file at most.

\* The fields that this argument follows.
Noticing(w) ==
    /\ worker[w].late \in Nat
    /\ ~worker[w].noticed => worker[w].late = 0
    /\ worker[w].noticed /\ worker[w].cleared => worker[w].late = 0
    /\ worker[w].late <= 1

LEMMA WriteIsNoticed ==
  ASSUME Shape, NEW w \in Workers, NEW file, NEW pc, NEW n, worker[w].cleared,
         Noticing(w), Written(w, file, pc, n)
  PROVE  \A v \in Workers : (v # w => worker'[v] = worker[v]) /\ (v = w => Noticing(w)')
  <1>1. CASE worker[w].noticed
    <2>1. worker' = [worker EXCEPT ![w].pc = pc, ![w].sent = n, ![w].cleared = FALSE,
                                   ![w].late = worker[w].late + 1]
      BY <1>1 DEF Written
    <2>2. ~worker'[w].cleared /\ worker'[w].late = 1 /\ worker'[w].noticed
      BY <1>1, <2>1 DEF Shape, WorkerRecord, Noticing
    <2> QED
      BY <2>1, <2>2 DEF Shape, Noticing
  <1>2. CASE ~worker[w].noticed
    <2>1. worker' = [worker EXCEPT ![w].pc = pc, ![w].sent = n, ![w].cleared = FALSE,
                                   ![w].late = worker[w].late]
      BY <1>2 DEF Written
    <2>2. ~worker'[w].cleared /\ worker'[w].late = 0 /\ ~worker'[w].noticed
      BY <1>2, <2>1 DEF Shape, WorkerRecord, Noticing
    <2> QED
      BY <2>1, <2>2 DEF Shape, Noticing
  <1> QED
    BY <1>1, <1>2

LEMMA FreshIsNoticed ==
  ASSUME Shape, NEW w \in Workers, NEW pc, NEW n,
         worker' = [worker EXCEPT ![w] = Attempt(pc, n)]
  PROVE  Noticing(w)' /\ \A v \in Workers \ {w} : worker'[v] = worker[v]
  BY DEF Shape, Attempt, Noticing

LEMMA StepIsNoticed ==
  IInv /\ (\A w \in Workers : Noticing(w)) /\ [Next]_vars => (\A w \in Workers : Noticing(w))'
  <1> SUFFICES ASSUME Shape, \A w \in Workers : Noticing(w), [Next]_vars
               PROVE  \A w \in Workers : Noticing(w)'
    BY DEF IInv
  <1>1. CASE UNCHANGED vars
    BY <1>1 DEF vars, Noticing
  <1>2. CASE Reap
    BY <1>2 DEF Reap, Noticing
  <1>3. ASSUME NEW w \in Workers, WorkerStep(w)
        PROVE  Noticing(w)' /\ \A v \in Workers \ {w} : worker'[v] = worker[v]
    <2>0. worker[w] \in WorkerRecord
      BY DEF Shape
    <2>1. CASE Claim(w)
      BY <2>1, FreshIsNoticed DEF Claim
    <2>2. CASE HeartbeatLost(w)
      <3>1. worker' = [worker EXCEPT ![w].noticed = TRUE] /\ ~worker[w].noticed
        BY <2>2 DEF HeartbeatLost
      <3>2. worker'[w].late = worker[w].late
        BY <3>1 DEF Shape, WorkerRecord
      <3> QED
        BY <3>1, <3>2 DEF Shape, Noticing
    <2>3. CASE IntervalElapses(w)
      <3>1. worker' = [worker EXCEPT ![w].recent = FALSE]
        BY <2>3 DEF IntervalElapses
      <3>2. /\ worker'[w].late = worker[w].late
            /\ worker'[w].noticed = worker[w].noticed
            /\ worker'[w].cleared = worker[w].cleared
        BY <3>1 DEF Shape, WorkerRecord
      <3> QED
        BY <3>1, <3>2 DEF Shape, Noticing
    <2>4. CASE Cleared(w)
      <3>1. worker' = [worker EXCEPT ![w].cleared = TRUE, ![w].recent = TRUE]
            /\ ~worker[w].noticed
        BY <2>4 DEF Cleared
      <3>2. worker'[w].late = worker[w].late /\ worker'[w].noticed = worker[w].noticed
        BY <3>1 DEF Shape, WorkerRecord
      <3> QED
        BY <3>1, <3>2 DEF Shape, Noticing
    <2>5. CASE Download(w) \/ Probe(w)
      <3>1. PICK pc : worker' = [worker EXCEPT ![w].pc = pc, ![w].cleared = FALSE]
        BY <2>5 DEF Download, Probe
      <3>2. /\ worker'[w].late = worker[w].late
            /\ worker'[w].noticed = worker[w].noticed /\ ~worker'[w].cleared
        BY <3>1 DEF Shape, WorkerRecord
      <3> QED
        BY <3>1, <3>2 DEF Shape, Noticing
    <2>6. CASE Encode(w)
      <3>1. PICK n \in 1..MaxSegments :
              worker' = [worker EXCEPT ![w].pc = "segments", ![w].length = n,
                                       ![w].cleared = FALSE]
        BY <2>6 DEF Encode
      <3>2. /\ worker'[w].late = worker[w].late
            /\ worker'[w].noticed = worker[w].noticed /\ ~worker'[w].cleared
        BY <3>1 DEF Shape, WorkerRecord
      <3> QED
        BY <3>1, <3>2 DEF Shape, Noticing
    <2>7. CASE UploadSegment(w) \/ UploadPlaylist(w)
      <3>1. worker[w].cleared /\ \E file, pc, n : Written(w, file, pc, n)
        BY <2>7 DEF UploadSegment, UploadPlaylist, Ready
      <3> QED
        BY <3>1, WriteIsNoticed
    <2>8. CASE Stopped(w) \/ Result(w) \/ Fails(w) \/ Raises(w) \/ Crash(w)
      BY <2>8, FreshIsNoticed DEF Stopped, Result, Fails, Raises, Crash, Idle
    <2> QED
      BY <1>3, <2>1, <2>2, <2>3, <2>4, <2>5, <2>6, <2>7, <2>8 DEF WorkerStep
  <1>4. ASSUME NEW w \in Workers, WorkerStep(w)
        PROVE  \A v \in Workers : Noticing(v)'
    BY <1>3, <1>4 DEF Noticing
  <1> QED
    BY <1>1, <1>2, <1>4 DEF Next

\* However many files there are to write, a worker whose heartbeat has noticed
\* the loss of its job writes at most one more.
THEOREM NoticedTheorem == Spec => []NoticedStops
  <1>1. Init => \A w \in Workers : Noticing(w)
    BY DEF Init, Idle, Attempt, Noticing
  <1>2. (\A w \in Workers : Noticing(w)) => NoticedStops
    BY DEF Noticing, NoticedStops
  <1> QED
    BY <1>1, <1>2, InitIsShaped, StepKeeps, StepIsNoticed, PTL DEF Spec

-----------------------------------------------------------------------------
\* The presets.

\* Every preset is at least as small as the higher ones in everything that
\* is_hls_preset_applicable compares, so what is skipped of a source is the
\* top of the ladder, and 144p is never skipped.
THEOREM LadderTheorem ==
  ASSUME NEW source \in Source, NEW r \in Resolution, NEW s \in Resolution,
         HlsPreset[r].height <= HlsPreset[s].height, Applicable(s, source)
  PROVE  Applicable(r, source)
  <1>1. \A q \in Resolution :
           /\ HlsPreset[q].width \in Int /\ HlsPreset[q].height \in Int
           /\ HlsPreset[q].bitrate \in Int
    BY DEF HlsPreset, Resolution, Preset
  <1>2. /\ HlsPreset[r].width <= HlsPreset[s].width
        /\ HlsPreset[r].bitrate <= HlsPreset[s].bitrate
        /\ s = Fallback => r = Fallback
    BY DEF HlsPreset, Resolution, Preset, Fallback
  <1>3. CASE r = Fallback \/ s = Fallback
    BY <1>2, <1>3 DEF Applicable
  <1>4. CASE r # Fallback /\ s # Fallback
    <2>1. source.width \in Int /\ source.height \in Int
          /\ (source.bitrate # Unknown => source.bitrate \in Int)
      BY DEF Source
    <2>2. HlsPreset[s].width <= source.width /\ HlsPreset[s].height <= source.height
      BY <1>4 DEF Applicable
    <2>3. ASSUME source.bitrate # Unknown
          PROVE  4 * HlsPreset[r].bitrate <= 5 * source.bitrate
      <3>1. 4 * HlsPreset[s].bitrate <= 5 * source.bitrate
        BY <1>4, <2>3 DEF Applicable
      <3> QED
        BY <1>1, <1>2, <2>1, <2>3, <3>1
    <2>4. HlsPreset[r].width <= source.width /\ HlsPreset[r].height <= source.height
      BY <1>1, <1>2, <2>1, <2>2
    <2> QED
      BY <2>3, <2>4 DEF Applicable
  <1> QED
    BY <1>3, <1>4
=============================================================================
