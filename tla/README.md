# TLA+ models of Rendition

Specifications, model-checking runs and machine-checked proofs for Rendition,
along the way a video takes: its multipart upload from the browser through the
API into storage, the encoding jobs that travel from PostgreSQL through RabbitMQ
to the workers and back, the files the workers write, the status and the master
playlist made of their results, and the pages that upload, list and play it.
Source lines below are relative to the repository (`core/...`, `worker/...`, and
the frontend's `components/...`).

## The system

| Component | State it keeps | Operations | Talks to |
|---|---|---|---|
| Upload sessions (`core/services/upload_service.py`) | `videos.status`, `upload_sessions.status`, the S3 multipart upload | create, refresh, complete, abort | S3 (calls), database (row locks), the job queue (creates jobs and outbox rows) |
| Browser upload controller (`components/uploads/multipart-upload.ts`) | part pool, failed parts, status, abort signal | start, retry, cancel | upload API, S3 |
| Uploads page (`components/uploads/upload-dashboard.tsx`, `uploads-table.tsx`) | rows of uploads, list of videos, table page, dialogs | select a file, list, poll, retry, cancel, leave | the controllers (callbacks), the API |
| Encoding job queue (`core/services/job_service.py`, `outbox_service.py`, `worker/*.py`, `core/queue/*`) | `jobs`, `outbox_messages`, the RabbitMQ queue and its dead letter queue, each worker's claim | publish, claim, heartbeat, succeed, skip, fail, reap, ack, reject, nack | database, RabbitMQ |
| HLS output (`worker/processor.py`) | segments and rendition playlists in S3 | download, probe, encode, upload | S3, ownership checks against the job queue |
| Preset selection (`core/encoding/presets.py`) | none | pure functions | called by the worker |
| Video status and master playlist (`derive_video_status`, `publish_master_playlist_if_ready`) | `renditions.status`, `videos.status`, `videos.playback_path`, `hls/{id}/master.m3u8` | part of every encoding transaction | database (unlocked reads), S3 |
| Playback (`core/services/playback_service.py`, `components/video`) | page of a video: state, playback, player, chosen quality | load, poll, reload, choose | API, hls.js |
| Feed and widgets (`components/feed`, `components/animate-ui`) | page of the feed; a menu's highlight; a dialog | page, refresh, open; focus, render | API, router, Radix |
| S3 client, API plumbing, schema | - | - | not modelled, see below |

What is hard about them, by component (each item is a `hazard` in
`PROJECT.json`, with its line):

* **Upload sessions**: storage and database change in separate steps, and abort
  takes no lock. Correct means: a video is queued exactly if its object is
  complete, an aborted one leaves nothing, and the outcome is final.
* **Upload controller**: promises that resolve after a cancel, retries of partial
  failures. Correct means: no part is forgotten or sent twice at once, every
  attempt ends, and what is cancelled in time is not uploaded.
* **Uploads page**: lists, polls, effects and reports that arrive in any order,
  and dialogs that outlive what they are about. Correct means: the rows are those
  of the live uploads, and what is shown out of date is asked about again.
* **Job queue**: at-least-once delivery with duplicates; publishers that send
  before they commit; workers that are presumed dead and are not; a reaper that
  races with heartbeats and results; clocks of several processes; acknowledging
  over a connection that is gone. Correct means: one current attempt at a time,
  fenced from older ones; attempts bounded; terminal jobs final; no waiting job
  without somebody who will start it.
* **HLS output**: a throttled, fail-open ownership check, and files under the same
  keys for every attempt. Correct means: a playlist in storage names segments that
  are there, and a worker that knows it lost the job stops.
* **Video status**: every transaction locks one job, reads the siblings without
  a lock, and writes the shared video row. Correct means: `done` and
  `playback_path` are never claimed too early, never withdrawn, and the playlist
  they point at is complete; and once everything is terminal it exists.
* **Watching**: answers that overtake each other, a page that remounts, a menu whose
  highlight is handed on through observers, renders and effects.

## Modules

| Module | What it is |
|---|---|
| `UploadSession` | One upload as the API keeps it: rows, storage, concurrent requests |
| `MultipartUpload` | The browser's controller of that upload, composed with `UploadSession` |
| `UploadRow` | Abstract specification: the rows a controller reports; `MultipartUpload` implements it, `UploadDashboard` builds on it |
| `UploadDashboard`, `DashboardProofs` | The uploads page, and the proofs |
| `UploadProofs`, `UploadRaceProofs` | Proofs about `UploadSession` and `MultipartUpload`; what their races leave behind |
| `EncodingStatus` | The status vocabulary and the pure functions `derive_video_status`, `_has_active_renditions`, `_completed_renditions` |
| `JobLedger` | Abstract specification: a job waits, is started, is done, waits again or is given up |
| `JobLease` | Abstract specification: who holds one job, and for which of its attempts each worker works; `JobQueue` implements it, `HlsOutput` builds on it |
| `JobQueue`, `JobQueueProofs`, `JobQueueNoLossProofs` | The job queue, which implements `JobLedger` and `JobLease`, its proofs, and the proof that no job is lost |
| `HlsPresets` | The presets and which of them suit a source: pure |
| `HlsOutput`, `HlsOutputProofs` | The files of one rendition under overlapping attempts, and the proofs |
| `VideoFinalize` | The overlapping encoding transactions of one video, which implement `JobLedger` too |
| `VideoProgress` | The API's answers about that video and the labels made of them |
| `VideoProofs` | Proofs about both |
| `VideoFeed`, `VideoDetail`, `HlsPlayer`, `MenuHighlight` | The feed, the page of a video, its player, and the dropdown menu with its highlight |
| `Viewer`, `ViewerProofs` | These four composed: a viewer who goes from page to page, and the proofs |
| `MC...` | Small instances for TLC |

Operators whose comment begins with "Mutant of" are plausible bugs: a variant of
the definition that follows them. They are used by nothing; replacing the
definition with one of them must break the property `PROJECT.json` pairs it with,
which shows that the property depends on the code.

### UploadSession and MultipartUpload

A request is a thread of the API that goes through stages (`at`), one action for
each storage call and each commit, because other requests run between them.
`Locked` is the pair of row locks (`SELECT ... FOR UPDATE`) that a completion holds
from its decision to its commit; an abort decides on rows it has read unlocked,
calls storage, and waits for the locks only when it writes. `multipart`, `stored`
and `object` are the state of storage, and `Assemble` and `StorageAborts` what its
calls do to it. The one assumption about storage is that it neither completes an
upload that was aborted nor aborts one that was completed; a repeated completion
may be accepted or refused. `MaxFaults` bounds storage errors (with or without
effect), crashes of the API and dropped connections, after which the API goes on
with the request.

`MultipartUpload` adds the controller: `pc` is the await at which `start` or
`retryFailedParts` stands, `queue`, `inflight`, `completed` and `failed` the worker
pool. What runs between two awaits is one action. Only PUTs of parts listen to the
abort signal, and only if they were sent before it. Other clients of the API may
complete the upload (`OtherSends`).

### UploadDashboard

It knows of each controller the row (`UploadRow`) and whether it was cancelled. A
request is sent, answered with the statuses of that moment, and applied later;
`videosRef` follows `videos` in an effect of its own (`SyncRef`); a poll fails or
is applied as a whole. `Rerender` takes the dialog of a row that is no longer
rendered away with it. The page can be left within the app (`Leave`, which runs the
cleanup) or by loading another document (`OpenListed`, which runs none). The server's
statuses move as `derive_video_status` lets them; the API's "partial" is two of them here,
because it means that the others wait, or, beside a failure (`mixed`), that it is for good.

### JobQueue

Actors: publishers (the `outbox` process, and the API right after an upload is
completed), workers, the reaper; plus time and RabbitMQ.

| Variable | Code |
|---|---|
| `job` | the `jobs` row: `status`, `worker_id` (`owner`), `attempt_count`, `next_run_at` (`wait`, ticks until due), and whether `heartbeat_at` is older than the reaper's limit (`stale`) |
| `outbox` | `outbox_messages.status` |
| `queue`, `dlq` | ready messages per job in RabbitMQ; jobs in the dead letter queue |
| `tx` | each publisher's open transaction: which rows it selected (and so locked), sent, or failed to send |
| `worker` | each worker process: where it is in `process_encoding_message`, the job of its delivery, whether the broker still counts the delivery as its own (`held`), the attempt it claimed, the outbox status its failing transaction read |
| `reaper` | the reaper's open transaction: the outbox status it read for each job it locked |

One action is one database transaction, one call to the broker, or one failure.
Where a transaction reads a row it has not locked and writes it later, it is two
actions: `FailRead`/`FailCommit` (`mark_encoding_job_failed` with attempts left)
and `ReapRead`/`ReapCommit`, because a publisher may commit in between. The ORM
writes a column only if its value changed since it was read; `Requeued` models
that: assigning `pending` to a row that was read as pending writes nothing.
A publisher's batch is `SelectRows`, one `Publish`/`PublishLost`/`PublishFails`
per row, and `CommitPublish`. Messages are counted per job, not ordered:
redelivery and several consumers reorder them anyway.

Faults (`MaxFaults` bounds them): a process dies (`Crash`, `PublisherCrash`,
`ReapCrash`), the broker drops a worker's connection while it encodes
(`Disconnect`; the worker goes on, its message is redelivered, its answer then
fails and its process ends), publishing raises, a worker's transaction raises and
the message is requeued (`Raise`), or the broker loses an unconfirmed message
(`PublishLost`). A restarted worker has a new `worker_id`: `Gone` stands for all
the old ones. Heartbeats may be late for any reason: `Lapse` needs no fault.

Left out: messages for unknown jobs (jobs are never deleted), malformed messages,
`WORKER_PREFETCH_COUNT` above its default of 1, the error texts and timestamps.
`Abandon` stands for every way in which a worker that knows it lost the job ends.
A heartbeat that arrives after its job was settled changes nothing and is left out.

### HlsOutput and HlsPresets

All attempts write under the same keys: segments one by one, then the playlist.
`segment[i]` and `playlist.by` say which attempt wrote the file that is there, and
`stray` is the set of files whose last writer had lost the job: a history variable, out
of which a file comes again when the owner writes it.
`Cleared` and `Stopped` are `is_lost`: within five seconds of the last question
(`recent`) it says no without asking, if the database fails too (`Fault`), and it
says yes once the heartbeat thread has noticed the loss (`noticed`). Nothing relates the
five seconds to the reaper: `JOB_STALE_TIMEOUT_SECONDS` may be as little as 1, a worker
may stall between its question and its upload for longer than any timeout, and the two are
steps of their own; so `Reap` may come at any time. The job itself is
that of `JobLease`: every action takes one of its steps or leaves the job alone, and
`JobQueue` is proved to take no others. So what is proved here needs no more of the
queue than it does: a claim is a `Take`, a reaper `Withdraw`s at any time, only the
owner may `Settle` or `Fail`, and a worker whose transaction raises (`Raises`) leaves a
job in its own name. Two ownership questions in a row are one.

### VideoFinalize

One action begins a transaction (locks the job, reads the video row), one derives
(reads the siblings, computes the new video columns, uploads the master playlist
if nothing is active), one commits (only changed columns), one rolls back (what
was uploaded stays). Any number of transactions of the video may be open, on
different jobs. A rendition and its job are one status, because every transaction
writes both; a job is done where its rendition is done or skipped. `Overlap = FALSE` allows one open transaction at a time, to separate
what goes wrong because of overlap from what goes wrong anyway.

### VideoProgress

A reader beside `VideoFinalize`: `get_video_state` reads the video by one statement
and, through `selectinload`, its renditions by a second, at read committed. What the
two read becomes a badge or a count on the table of uploads and on the page of the
video.

### Viewer

`VideoFeed` is the list requests of the feed and the 0 ms timer that starts one after
a page change. `VideoDetail` is the page of a video: `loadVideo` runs overlap, each
asks for the state and, if it says done, for the playback. `HlsPlayer` is the choice
of an engine, the menu made of the manifest, the chosen quality and the loss of the
stream. `MenuHighlight` is the menu of the player: Radix moves the focus, an observer
renders the item, its effect tells the menu, the menu's render tells the highlight. A
render and its effects are one step. Pages mount with fresh state and unmount with
all of it; answers that come after that change nothing.

## Runs

| Run | Instance | Shows |
|---|---|---|
| `upload` | 3 parts, 2 workers, a second client that completes, 2 faults | `TypeOK`, `QueuedIsStored`, `FailedLeavesNothing`, `NothingStranded`, `NoPartForgotten`, `CancelledInTime`, `OutcomeIsFinal`, `ImplementsRow`, and under fairness `EveryAttemptEnds`, `UploadIsQueued` |
| `upload_cancelled` | 2 parts, no fault, no other client | violation of `CancelledIsNotQueued`, finding 4 |
| `dashboard` | 2 uploads, files on both sides of every limit, table pages of 3, 1 poll under way | `RowsAreTheLiveUploads`, `LeavingCancels`, `FinishedIsListed`, `StaleIsPolled`, `UsesRows` |
| `queue_safety` | 2 jobs (2 and 1 attempts), 2 workers, 1 publisher, 2 faults, publisher's clock 1 tick ahead, lossy broker | `TypeOK`, `AttemptIsFenced`, `LostIsLost`, `DeadLettersAreFailed`, `LocksProtect`, `TerminalIsStable`, `TerminalFailuresAreDeadLettered`, `ImplementsLease` hold without any assumption on the environment |
| `queue_no_loss` | 2 jobs (3 and 0 attempts), 2 workers, 2 publishers, 1 fault, a backoff list of one entry, broker keeps messages, clocks agree, publishers commit promptly | `NoJobIsLost`, and under fairness `EveryJobSettles` |
| `queue_lost_retry` | 2 jobs (2 and 0 attempts), 1 publisher, no faults, otherwise as above but for prompt commits | violation of `EveryJobSettles`, finding 1 |
| `hls_output` | 2 workers, 3 attempts, 2 segments, 2 faults, a source too small for one of two renditions | `PlaylistNeverDangles`, `DoneIsOneEncoding`, `NoticedStops` |
| `hls_stale_writer` | 2 workers, 2 attempts, 1 segment, no fault | violation of `StaleWorkersDoNotOverwrite`, finding 5 |
| `video_overlap` | 3 renditions, 2 attempts, overlap, a reader | `TypeOK`, `PlaybackIsComplete`, `DoneIsPlayable`, `DoneIsFinal`, `DoneIsCounted`, `ImplementsLedger` |
| `video_lost_master` | 2 renditions, 2 attempts, overlap | violation of `MasterWhenTerminal`, finding 2 |
| `video_reaped_last` | 2 renditions, 1 attempt, no overlap | violation of `MasterWhenTerminal`, finding 3 |
| `viewer` | feed pages of 1, up to 2 finished videos, 2 overlapping loads, 1 failure of each kind, a manifest of 2 levels, a menu of 2 rows mounted up to twice | `FeedShowsItsPage`, `QualityIsPlayed`, `HighlightIsNew`, `QualityIsKept`, and under fairness `PlayerAppears`, `HighlightCatchesUp` |

**Bounds.** *Uploads*: three parts for two workers leave one in the queue, so that a
worker goes on to a next part while another fails; two faults allow a fault in the
retry after a fault, or a crash that hides a success. `MaxConcurrent` is 3 in the code;
what matters is that it is less than the number of parts. Every part is sent again in
any number of retries: only faults are bounded. *Dashboard*: two uploads, each of
which may be on the table twice, give two table pages of 3 and lists that overtake each other; `PollSlots` bounds the polls under
way to one, which still overlaps with both lists; `ApiStatus` leaves out `running`,
`done` and a partial without a failure: the page polls the first and the last as it does
`pending`, and takes `done` as it does an outcome that is never corrected. The proofs
leave out none. *Queue*: two workers
are enough for one to be replaced by the other, two jobs for a batch and for a reaper
that takes both; a job with two attempts is retried once and can have an old and a new
attempt alive together, one with three is retried past the end of a backoff list of one
entry, one with one attempt fails at once, one with none is exhausted before it starts. Two faults allow a fault during the recovery from another. Queues
need no bound: every message spends a publication, and publications are bounded by
attempts and faults. *HLS*: `MaxSegments` 2 gives encodings of different length and a
playlist that follows another's segments; the third attempt meets what two others left.
*Video*: three renditions are the least in which two finish while a third is neither.
*Viewer*: pages of one video make the second page both full and, with one video, empty;
`MaxMounts` 2 lets a menu be opened anew after it has been used. Deadlock is not checked
because the systems rest when every job has ended, every upload is over or a page is
left. Workers, the renditions of a video and the uploads of a page are interchangeable
in safety runs (symmetry); no liveness run uses symmetry.

**Fairness** (weak everywhere). *Queue*: time passes. Publishers
run in a loop (`worker/outbox.py`), so they select, send and commit. Workers are
restarted by docker compose (`restart: unless-stopped`) and block on each
delivery, so they receive, claim, settle and answer what they got; encoding ends
(it may end either way: no fairness chooses success). The reaper loops
(`worker/reaper.py`). Heartbeats of a job nobody attends to do become stale; that
the heartbeats of a live worker ever lapse, and every fault, are possible but
never promised. *Upload*: the API goes on with each request, a PUT is answered or
fails, and the event loop handles the answer; nobody has to cancel or to retry. An XHR
has no timeout in the code: a connection that neither answers nor breaks would hold its
worker for ever, and the fairness of `PartStored` assumes it away. *Viewer*: requests
are answered, the interval of the page fires, observers and effects run; no click is
fair. `PromptTimers` says that a 0 ms timer fires before the next click can follow a
render; without it Refresh may start a load of the page before.

## Findings

1. **A retry can be lost without any failure of the infrastructure**
   (`job_service.py:253`). The publisher sends a batch and commits afterwards
   (`outbox_service.py:71-100`). A worker that fails the job in between reads the
   outbox row as `pending`, so its reset to `pending` writes nothing; the
   publisher's commit makes it `published`. The job stays pending for ever.
2. **Nobody publishes the master playlist** when the last two renditions finish in
   overlapping transactions (`job_service.py:288`); the video's status is stale too.
3. **The reaper never publishes it** (`job_service.py:401-407`) when it gives up the
   last active rendition, while a worker's own failure does.
4. **A cancelled upload is queued** (`multipart-upload.ts:215`) if it is cancelled
   while it is being created: the abort finds no listener and no `videoId`, `start`
   goes on, sends every part and completes the upload. The dialog says it will be
   aborted. `CancelledInTime` is the half that holds: a cancel while parts are sent.
5. **A stale worker overwrites the files of its successor** (`processor.py:238`). The
   README of the repository says that the ownership check before an upload (step 12) is
   there so that it cannot. The check is one question in five seconds, says owned if the
   question fails, and is over before the upload begins. `hls_stale_writer` needs no
   fault: a worker that was cleared, lost its job and goes on replaces segment 1 of the
   attempt after its own. So a rendition that is done can be a mix of two attempts.
   `DoneIsOneEncoding` says what holds: the playlist and every segment is of the last
   attempt unless such a worker wrote it over. `NoticedStops` is the part of
   step 12 that holds, and it is weaker than step 12: it bounds what a worker writes once
   its heartbeat has noticed the loss, and says nothing of one that has not noticed.

`MasterWhenTerminal` and `EveryJobSettles` are stated as the README of the repository
states them (steps 14 and 16). Step 17 has a safe half that
does hold, `PlaybackIsComplete`: `playback_path` is never set without a complete
playlist.

Three premises of the queue's properties exclude what documents do not:

* *The broker keeps what it is sent* (`LossyBroker = FALSE` in `queue_no_loss`). "Jobs are
  not lost if RabbitMQ is temporarily unavailable" (`README.md:18-19`), but the publisher's
  channel is not in confirm mode (`publisher.py:77`): a message handed to a connection whose
  broker goes down before it has stored it is gone, and its outbox row is marked published.
  With `LossyBroker = TRUE`, `NoJobIsLost` fails after `SelectRows`, `PublishLost`,
  `CommitPublish`. A broker that is unavailable before that loses nothing (`PublishFails`
  leaves the row pending), and `queue_safety` shows what remains true with a lossy one.
* *Nothing has failed yet* (`faults = 0` in `TerminalFailuresAreDeadLettered`). "RabbitMQ dead-letter
  routing for terminal worker failures" (`README.md:24-25`), but the failure is committed
  before the message is rejected (`worker/main.py:97`): if the worker dies in between, the
  message comes again, finds a job that is over, and is acknowledged. Without the premise
  the property fails on this crash. `DeadLettersAreFailed`, the converse, needs no premise.
* *The clocks agree* (`ClockSkew = 0` in `queue_no_loss`). A publisher whose clock is ahead
  sends a retry that is refused as not due, acknowledged and not sent again, against "failed
  jobs are retried with backoff until attempts are exhausted" (`README.md:91`). The
  containers of the documented docker compose share the clock of one host.

Weaknesses the models show and no document denies, each a hazard in `PROJECT.json`: a
storage error leaves a video uploading whose session takes no request any more; a
failed completion leaves an upload that can only be cancelled; a row
shown failed is not polled although the video may become partial; a list that comes in late may take a video away until the
next load; a full last page of the feed leads to an empty page without a pager; a player
that met a fatal network error is never restarted.

## Proofs

All theorems hold for every set of parts, requests, jobs, workers, publishers,
renditions and sources and for every bound. They assume only the named assumptions of
the modules: the constants are of the right kind, the special values differ, there is a
part and there is a rendition (a job may have no attempt); `ProgressAssumption` and
`ControllerAssumption` add that renditions and parts are finite. Three have a
premise: `NoLoss` (`Reliable`), `SerialStatus` (`~Overlap`) and `FeedTheorem`
(`PromptTimers`). The theorems about the uploads page need no assumption at all.

**`UploadProofs`.** `SessionTheorem`: every step of the composed system is a step of
`UploadSession` or leaves it alone, so what is proved of the API holds beneath the
browser. `SInv` is the inductive invariant of the API: `CreateInv` (one creation at a
time, nothing else before it), `LockInv` (one completion holds the locks, and what it
found of rows and object still holds there), `StorageInv` (storage decides between
completion and abort). A completion and an abort may be anywhere in their steps
together; what keeps `QueuedTheorem`, `AbortedTheorem` and `OutcomeTheorem` is that an
abort past its storage call implies an aborted multipart upload, and a completion past
its own a completed one. `CInv` says where the controller can be: in the pool, each part
is queued, sent, stored or failed, and only one of these (`Split`); at rest after a
failure, exactly the missing parts are in `failed` (`Missing`). From it follow
`PartsTheorem`, `PoolTheorem` and, with one lemma per kind of step, `RowTheorem`.
`FirstIs` and `TakenIsBounded` are about the least of a finite set of parts and the
first `MaxConcurrent` of them.

**`UploadRaceProofs`.** `StrandedTheorem`: while `faults` is 0 (`Clean`), whoever ended the
multipart upload has ended the video with it or is about to, and a session is only failed
by a request that found the multipart upload aborted: a refused abort writes its failed
session when no completion holds the locks, so what it was refused is aborted or queued.
`CancelTheorem`: `Placed` says which of its requests the controller has sent (a completion
only from a pool that is done and has every part, after which nothing is left to retry; an
abort only when cancelled), and `OnlyAbort` follows a lone abort: the upload is open until
that abort reaches storage, so it is never refused.

**`JobQueueProofs`.** `TypeOK` is inductive (`TypeCorrect`). The safety properties
are not inductive one by one; `SafetyInv` conjoins them with `RowShape`: a row
that is not running has no owner, and one that is not pending has no delay.
`AttemptIsFenced` needs it because a claim is only granted on an unowned row;
`LocksProtect` is needed by the steps that write a row under a lock taken earlier.
`RowMove` lists the eight things any step can do to one row; `RowMoves` proves the
list complete, one step per action. From it follow `AttemptBound`,
`TerminalJobsAreStable` and, since each move is a ledger step or a stutter,
`QueueImplementsLedger`. `AttemptsAreFenced`, `LostStaysLost`, `DeadLetters` and
`LocksAreKept` are the remaining conjuncts. `TerminalFailures` adds that a delivery is only
lost by a fault (`Connected`).

`QueueImplementsLease` is the refinement `HlsOutput` rests on, one instance of `JobLease`
for each job, with the attempt of a worker mapped to 0 as soon as it has only its
acknowledgement left (`At`). `HandsFull` adds that a worker at work has an attempt. Most
of the worker's steps end its attempt without a word (`LeaseLeaves`); the ones that write
the job need what `SafetyInv` says: `FailCommit` and `ReapCommit` write under a lock taken
earlier, so `LocksProtect` says who owns the job by then. A death is one `Die` for every
job at once. TLC checks this refinement; `AttemptsAreBounded` and `ImplementsLedger`, which
say less of the same steps, are proved only.

**`JobQueueNoLossProofs`.** `NoLoss` assumes `Reliable`, the three constants of the
`queue_no_loss` run: the broker keeps what it accepts, the clocks agree, publishers commit
before the job can fail. `NoJobIsLost` speaks of committed rows; `LossInv` adds what the
open transactions hold: a row is in one publisher's transaction at a time (`OneHolder`), it
is still pending and its job due (`HeldRows`), what a retrying transaction read of the
outbox is still there (`ReadsAreCurrent`), and what was sent for a waiting job, committed or
not, is ready or with a worker whose death requeues it (`SentIsKept`). `Carried` is not
enough for that: a worker that lost its connection before its claim carries nothing. Each
of the three assumptions is used, in `PublishLost`, in `SelectRows` (only due jobs are
sent) and in `FailRead` and `ReapRead`.

**`HlsOutputProofs`.** What happens to the job is read off `JobLease` (`LeaseMoves`).
`PlaylistTheorem`: every worker past its n-th segment has left
files at 1..n (`Sent`), files are never removed, and a playlist names no more than its
writer had sent (`Named`). `OneEncodingTheorem`: every file the owner has sent is of its
own attempt or `stray` (`Undisturbed`), because an owner's write makes a file its own and
anybody else's makes it stray; and only an owner that has sent all of it settles the job. `NoticedTheorem`: a question answered
before the heartbeat noticed is the only one that can still be used. `LadderTheorem`:
what is skipped of a source is the top of the ladder, and 144p is never skipped.

**`VideoProofs`**, the transactions. The steps are first reduced to four (`Steps`): a
transaction opens, derives, commits or rolls back. `LocksInv` says that an open
transaction holds active renditions nobody else holds, and that what it gives them is what
their jobs may get next (`Due`): decided when the jobs were locked, still so at the
commit, hence `VideoImplementsLedger`. The central lemma is
`LastOne`: a transaction that sees nothing active is the only one open, and
nothing is left for another to lock. Hence what it promised when it derived
(`Promise`) is still true when it commits, although nothing but its own job row is
locked. `PlaybackComplete`, `DonePlayable`, `DoneFinal` follow. `SerialStatus`
proves under `~Overlap` that the video status is always current (`StatusIsCurrent`, which no
run checks): the stale status of finding 2 is due to overlap alone.

**`VideoProofs`**, the reader. Reading is no step of the transactions, so what is proved of
them holds beside the reader. Once every rendition is done or skipped nothing changes
them (`FinishedStays`), nor a video that is done (`DoneStays`); so a status read as done,
or a full count, is still true at the second statement and afterwards (`DoneCounted`).

**`DashboardProofs`.** The table is a sequence, so it begins with what putting an upload in
front (`InFront`) and taking one out (`Removed`) do to the uploads in it. `RowMoves`
reduces every step to what it does to rows and controllers: an upload is dropped, reports,
is retried, ends or is cancelled, or the page is left or unloaded. `RowsInv` adds to
`RowsAreTheLiveUploads` that a page that is gone has no rows and that nothing was
cancelled that was never there: without that a dropped file could take the row of a
cancelled one. `RowsTheorem`, `LeavingTheorem` and `DashboardUsesRows` follow; the last
joins `RowTheorem` of `UploadProofs`: the page asks of a controller only what `UploadRow`
allows, and the controller keeps `UploadRow`. For the lists, `ListsInv` says of every
answer, shown, on its way, or told to a poll, that it fits the status its video has by now
(`Fits`), and `FitsForGood` that it goes on fitting however the status moves: so it does
not matter in which order answers are applied (`StaleTheorem`). `FinishedTheorem` needs
the other half, that nothing gets lost on the way: until the list that follows a finished
row is shown, it is under way and will have the upload (`Coming`), because the upload was
queued before the list was asked for, and a poll never takes a video off the list.

**`ViewerProofs`.** Each page has few variables, so every step is first seen from one part
(`FeedMoves`, `PlayerMoves`, `MenuMoves`). `FeedInv`: until a request fails there is at most
one list under way, about the page that is chosen; with slow timers a refresh could run
beside the load of a page change, which is what `PromptTimers` excludes. `PlayerInv`: a
player is set up only by the first playback of a page, hence nothing resets a choice
(`KeptTheorem`); `ChoiceInv` with `ShownIsLabel`: a level found by its value is found with
its own label (`PlayedTheorem`). `MenuInv`: until an item has been focused, neither the
menu nor the highlight knows an id given out by the present opening (`HighlightTheorem`).
`ViewerTypeTheorem` says that all variables keep their types.

**Only model-checked**: liveness (`EveryJobSettles`, `EveryAttemptEnds`,
`UploadIsQueued`, `PlayerAppears`, `HighlightCatchesUp`), which is outside the prover's
reach. Every other property that a passing run checks is stated by a theorem.

## Not modelled

* The S3 client (`core/storage/s3.py`) has no state; what its multipart calls do in
  storage is in `UploadSession`. API error mapping, schemas, settings, migrations:
  stateless or offline. The playback endpoint signs URLs and writes nothing: it is an
  answer in `VideoDetail`.
* Of an upload: an abort by another client is left out of the `upload` run's instance
  (the module has it, and the proofs cover it); closing the browser; an XHR that hangs;
  the progress of a part and of a row.
* Of the uploads page: the list endpoint returns the newest 20 videos, which the two of
  the instance never exceed; the tabs All, Active and Failed filter nothing in the code;
  the items of the row menu besides Open change no state; a click on Previous on a page
  beyond the last one, which only lowers the hidden number, is in `TurnPage`.
* Of the feed: the view of a selected video, since nothing ever selects one.
* Of the player: the level hls.js switches to by itself and the recovery of a media
  error, which change only what is shown; reloads that overlap count as one.
* Of the widgets: hover and click modes of the highlight, its measured bounds and
  animations, checkbox items and submenus, sheets, tabs, tooltips, progress bars: none
  is used with state that reaches a page's behaviour.

## Plan

Done, in the order of importance: job queue, video status, upload sessions with their
controller, HLS output and presets, the uploads page, progress labels, watching. Every
safety property, every step property and every refinement a passing run checks is proved,
and the encoders are tied to the queue through `JobLease`. Left:

1. The same for the videos: `VideoFinalize` and `JobQueue` implement the same ledger, but
   nothing says yet that a transaction of the one is a transaction of the other.
2. `NoJobIsLost` is the safe half of `EveryJobSettles`; the steps that lead from it to the
   end of a job could be proved one by one, up to the fairness that takes them.
