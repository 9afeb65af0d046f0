-------------------------- MODULE UploadDashboard --------------------------
(***************************************************************************)
(* The uploads page (upload-dashboard.tsx, uploads-table.tsx): the rows of *)
(* the uploads under way, the list of videos and its polling, the pages of *)
(* the table and the cancel dialogs.                                       *)
(*                                                                         *)
(* Of the upload controllers it knows the rows they report (UploadRow).    *)
(* Requests are answered and their answers applied in any order; a render  *)
(* and its effects come some time after the state they show was set.       *)
(***************************************************************************)
EXTENDS UploadRow, Naturals, FiniteSets, SequencesExt

CONSTANTS
    ApiStatus,   \* the statuses of the API the instance lets a video take
    Files,       \* the files a user may drop
    Limits,      \* the answer of GET /videos/upload/config
    PageSize,    \* pageSize of the table
    PollSlots    \* bound on the polls under way

VARIABLES
    server,     \* videos.status of each upload, or "none"
    rows,       \* uploadRows, newest first; the keys of uploadControllersRef
    videos,     \* the status shown for each listed video, or "absent"
    videosRef,  \* videosRef.current: videos as of the last effect
    isLoading,  \* isLoadingVideos
    load,       \* the list requests: the first, and one for each finished row
    poll,       \* the polls: what each has been told of each video
    config,     \* uploadConfig
    page,       \* page of the table
    dialog,     \* the cancel dialog of each row
    place,      \* the page is "open", "left" or "unloaded"
    lost        \* has a list not come, or taken a shown video away? (history)

vars == <<rowVars, server, rows, videos, videosRef, isLoading, load, poll,
          config, page, dialog, place, lost>>

Loads == {"mount"} \cup Uploads

mounted == place = "open"

-----------------------------------------------------------------------------
\* A video's status, as its renditions move it (derive_video_status): one
\* failure makes it "failed" while others are encoded, and one success beside
\* it "partial", for good: that is "mixed" here.  Without a failure "partial"
\* means that the others wait.  "aborted" is the status "failed" of an aborted
\* upload.

MayBecome(s) ==
    CASE s = "none" -> {"uploading"}
      [] s = "uploading" -> {"pending", "aborted"}
      [] s \in {"pending", "running"} ->
            {"pending", "running", "partial", "done", "failed", "mixed"}
      [] s = "partial" -> {"running", "done", "mixed"}
      [] s = "failed" -> {"mixed"}
      [] OTHER -> {}

Queued(s) == s \notin {"none", "uploading", "aborted"}

-----------------------------------------------------------------------------
\* What the page shows of a status (mapVideoStatus, isPollableStatus).

\* Mutant of MapVideoStatus: a video that is not queued yet is not expected
\* to change.
MapUploadingToFailed(s) ==
    CASE s = "none" -> "absent"
      [] s = "running" -> "processing"
      [] s \in {"partial", "mixed"} -> "partial"
      [] s \in {"done", "pending"} -> s
      [] OTHER -> "failed"

MapVideoStatus(s) ==
    CASE s = "none" -> "absent"
      [] s = "running" -> "processing"
      [] s \in {"failed", "aborted"} -> "failed"
      [] s \in {"partial", "mixed"} -> "partial"
      [] s = "done" -> s
      [] OTHER -> "pending"

Pollable(shown) == shown \in {"pending", "processing", "partial"}

\* What the page shows of each video just then (toUploadedVideo).
Shown == [u \in Uploads |-> MapVideoStatus(server[u])]

Listed == {u \in Uploads : videos[u] # "absent"}

-----------------------------------------------------------------------------
\* The table.  An upload that the API lists already has two rows: the rows
\* of uploadRows carry no videoId to recognise it by.

Total      == Len(rows) + Cardinality(Listed)
TotalPages == IF Total = 0 THEN 1 ELSE (Total + PageSize - 1) \div PageSize

CurrentPage == IF page < TotalPages THEN page ELSE TotalPages

\* While a cancel dialog is open nothing else on the page can be used.
Modal == \E u \in Uploads : dialog[u] = "open"

Visible(u) ==
    /\ mounted /\ ~isLoading
    /\ \E i \in DOMAIN rows :
          rows[i] = u /\ (i - 1) \div PageSize = CurrentPage - 1

\* A row that is no longer rendered takes its dialog with it.
Rerender(d) == dialog' = [u \in Uploads |-> IF Visible(u)' THEN d[u] ELSE "closed"]

NoVideos == [u \in Uploads |-> "absent"]
NoPoll == [u \in Uploads |-> "unasked"]

\* The effects of the first render have asked for the limits and the videos.
Init ==
    /\ RowInit
    /\ server = [u \in Uploads |-> "none"]
    /\ rows = <<>>
    /\ videos = NoVideos
    /\ videosRef = NoVideos
    /\ isLoading = TRUE
    /\ load = [l \in Loads |-> [state |-> IF l = "mount" THEN "sent" ELSE "idle",
                                list |-> NoVideos]]
    /\ poll = [p \in PollSlots |-> NoPoll]
    /\ config = "loading" /\ page = 1 /\ place = "open"
    /\ dialog = [u \in Uploads |-> "closed"]
    /\ lost = FALSE

-----------------------------------------------------------------------------
\* The API: a video exists once its upload has begun, and its status moves on.

ServerMoves(u) ==
    /\ mounted /\ row[u] # "none"
    /\ \E s \in (ApiStatus \cap MayBecome(server[u])) \ {server[u]} :
          server' = [server EXCEPT ![u] = s]
    /\ UNCHANGED <<rowVars, rows, videos, videosRef, isLoading, load, poll,
                   config, page, dialog, place, lost>>

-----------------------------------------------------------------------------
\* loadUploadConfig and handleFile.

ConfigLoads ==
    /\ mounted /\ config = "loading"
    /\ config' \in {"loaded", "unavailable"}
    /\ UNCHANGED <<rowVars, server, rows, videos, videosRef, isLoading, load,
                   poll, page, dialog, place, lost>>

\* A file the browser gives no type is judged by its extension, in whatever
\* case (normalizeContentType).
ContentType(file) ==
    CASE file.type # "" -> file.type
      [] file.type = "" /\ file.extension = "mp4" -> "video/mp4"
      [] file.type = "" /\ file.extension = "mov" -> "video/quicktime"
      [] file.type = "" /\ file.extension = "mkv" -> "video/x-matroska"
      [] OTHER -> "application/octet-stream"

PartCount(file) == (file.size + Limits.partSize - 1) \div Limits.partSize

Accepted(file) ==
    /\ config = "loaded"
    /\ ContentType(file) \in Limits.types
    /\ file.size <= Limits.maxSize
    /\ PartCount(file) <= Limits.maxParts

\* The dropzone hands over one file, and only once the limits are known.
DropzoneEnabled == mounted /\ config = "loaded"

SelectFile(u, file) ==
    /\ DropzoneEnabled /\ ~Modal /\ row[u] = "none" /\ Accepted(file)
    /\ row' = [row EXCEPT ![u] = "uploading"]
    /\ rows' = <<u>> \o rows
    /\ UNCHANGED <<cancelled, server, videos, videosRef, isLoading, load, poll,
                   config, page, place, lost>>
    /\ Rerender(dialog)

-----------------------------------------------------------------------------
\* updateUploadRow: a controller reports.

Registered(u) == u \in Range(rows)

\* The table without the row of u, of which there is never more than one.
WithoutRow(u) == RemoveFirst(rows, u)

RowFails(u, to) ==
    /\ mounted /\ RowFail(u, to)
    /\ UNCHANGED <<server, rows, videos, videosRef, isLoading, load, poll,
                   config, page, dialog, place, lost>>

\* Mutant of RowFinishes: the list is not loaded again.
RowFinishesQuietly(u) ==
    /\ mounted /\ Queued(server[u]) /\ RowFinish(u)
    /\ rows' = WithoutRow(u)
    /\ UNCHANGED <<server, videos, videosRef, isLoading, load, poll, config,
                   page, place, lost>>
    /\ Rerender(dialog)

\* Mutant of RowFinishes: the row and its controller stay.
RowFinishesKeepRow(u) ==
    /\ mounted /\ Queued(server[u]) /\ RowFinish(u)
    /\ load' = [load EXCEPT ![u].state = "sent"]
    /\ isLoading' = TRUE
    /\ UNCHANGED <<server, rows, videos, videosRef, poll, config, page, place,
                   lost>>
    /\ Rerender(dialog)

\* The upload is queued: its row goes, and the list is loaded.
RowFinishes(u) ==
    /\ mounted /\ Queued(server[u]) /\ RowFinish(u)
    /\ rows' = WithoutRow(u)
    /\ load' = [load EXCEPT ![u].state = "sent"]
    /\ isLoading' = TRUE
    /\ UNCHANGED <<server, videos, videosRef, poll, config, page, place, lost>>
    /\ Rerender(dialog)

-----------------------------------------------------------------------------
\* loadVideos and pollVideoStates.

\* A request is answered with what the page makes of each status just then.
ListVideos(l) ==
    /\ load[l].state = "sent"
    /\ load' = [load EXCEPT ![l] = [state |-> "answered", list |-> Shown]]
    /\ UNCHANGED <<rowVars, server, rows, videos, videosRef, isLoading, poll,
                   config, page, dialog, place, lost>>

\* pollVideoStates asks for every pollable video of the last effect's list,
\* while the bound on polls allows it.
StartPoll ==
    LET pollable == {u \in Uploads : Pollable(videosRef[u])}
        free == {p \in PollSlots : poll[p] = NoPoll}
    IN  IF pollable = {} \/ free = {} THEN UNCHANGED poll
        ELSE \E p \in free :
                poll' = [poll EXCEPT ![p] =
                           [u \in Uploads |-> IF u \in pollable THEN "awaited" ELSE "unasked"]]

\* The end of loadVideos, and the poll that follows the load of a finished
\* row: it runs before the list just set has been rendered.
EndLoad(l) ==
    /\ load' = [load EXCEPT ![l] = [state |-> "done", list |-> NoVideos]]
    /\ isLoading' = FALSE
    /\ IF l = "mount" THEN UNCHANGED poll ELSE StartPoll
    /\ UNCHANGED <<rowVars, server, rows, videosRef, config, page, place>>

ApplyLoad(l) ==
    /\ mounted /\ load[l].state = "answered"
    /\ videos' = load[l].list
    /\ lost' = (lost \/ \E u \in Listed : load[l].list[u] = "absent")
    /\ EndLoad(l)
    /\ Rerender(dialog)

LoadFails(l) ==
    /\ mounted /\ load[l].state = "sent"
    /\ lost' = TRUE
    /\ EndLoad(l)
    /\ UNCHANGED videos
    /\ Rerender(dialog)

\* The effect that copies videos to videosRef.
SyncRef ==
    /\ mounted /\ videosRef # videos
    /\ videosRef' = videos
    /\ UNCHANGED <<rowVars, server, rows, videos, isLoading, load, poll, config,
                   page, dialog, place, lost>>

\* The interval.
Tick ==
    /\ mounted /\ StartPoll /\ poll' # poll
    /\ UNCHANGED <<rowVars, server, rows, videos, videosRef, isLoading, load,
                   config, page, dialog, place, lost>>

GetVideoState(p, u) ==
    /\ poll[p][u] = "awaited"
    /\ poll' = [poll EXCEPT ![p][u] = MapVideoStatus(server[u])]
    /\ UNCHANGED <<rowVars, server, rows, videos, videosRef, isLoading, load,
                   config, page, dialog, place, lost>>

\* All answers are there: those about listed videos are shown.
ApplyPoll(p) ==
    /\ mounted /\ poll[p] # NoPoll
    /\ \A u \in Uploads : poll[p][u] # "awaited"
    /\ videos' = [u \in Uploads |->
                    IF poll[p][u] = "unasked" \/ u \notin Listed THEN videos[u]
                    ELSE poll[p][u]]
    /\ poll' = [poll EXCEPT ![p] = NoPoll]
    /\ UNCHANGED <<rowVars, server, rows, videosRef, isLoading, load, config,
                   page, dialog, place, lost>>

\* One request of a poll fails: its other answers are lost.
PollFails(p) ==
    /\ \E u \in Uploads : poll[p][u] = "awaited"
    /\ poll' = [poll EXCEPT ![p] = NoPoll]
    /\ UNCHANGED <<rowVars, server, rows, videos, videosRef, isLoading, load,
                   config, page, dialog, place, lost>>

-----------------------------------------------------------------------------
\* The user: the buttons of a row, the dialog, the pages, leaving.

RetryButton(u)  == CanRetry(u) /\ Visible(u)
CancelButton(u) == CanCancel(u) /\ Visible(u)

\* handleRetryUpload, and the guard of retryFailedParts behind it.
ClickRetry(u) ==
    /\ ~Modal /\ RetryButton(u) /\ Registered(u)
    /\ row' = [row EXCEPT ![u] = "uploading"]
    /\ UNCHANGED <<cancelled, server, rows, videos, videosRef, isLoading, load,
                   poll, config, page, dialog, place, lost>>

Dialog(u, from, to) ==
    /\ dialog[u] \in from
    /\ dialog' = [dialog EXCEPT ![u] = to]
    /\ UNCHANGED <<rowVars, server, rows, videos, videosRef, isLoading, load,
                   poll, config, page, place, lost>>

ClickCancel(u) ==
    /\ ~Modal /\ CancelButton(u)
    /\ Dialog(u, {"closed", "closing"}, "open")

ClickKeep(u)   == Dialog(u, {"open"}, "closing")

\* The dialog stays on screen until its exit animation has ended.
DialogGone(u)  == Dialog(u, {"closing"}, "closed")

\* The content of a dialog, and its buttons, are rendered while it fades out.
OnScreen(u) == dialog[u] # "closed"

\* Mutant of ConfirmCancel: the row goes before its upload is cancelled.
ConfirmRemoveOnly(u) ==
    /\ OnScreen(u) /\ Registered(u)
    /\ rows' = WithoutRow(u)
    /\ UNCHANGED <<rowVars, server, videos, videosRef, isLoading, load,
                   poll, config, page, place, lost>>
    /\ Rerender(dialog)

\* handleCancelUpload, from a dialog that is open or still closing.
ConfirmCancel(u) ==
    /\ OnScreen(u) /\ Registered(u)
    /\ cancelled' = [cancelled EXCEPT ![u] = TRUE]
    /\ rows' = WithoutRow(u)
    /\ UNCHANGED <<row, server, videos, videosRef, isLoading, load, poll,
                   config, page, place, lost>>
    /\ Rerender([dialog EXCEPT ![u] = "closed"])

TurnPage ==
    /\ mounted /\ ~Modal
    /\ \/ CurrentPage # 1 /\ page' = page - 1
       \/ CurrentPage # TotalPages /\ page' = page + 1
    /\ UNCHANGED <<rowVars, server, rows, videos, videosRef, isLoading, load,
                   poll, config, place, lost>>
    /\ Rerender(dialog)

\* What is left of the page when its state is dropped.
Gone(to) ==
    /\ mounted /\ place' = to
    /\ rows' = <<>> /\ page' = 1 /\ isLoading' = FALSE /\ lost' = FALSE
    /\ videos' = NoVideos
    /\ videosRef' = videos'
    /\ load' = [l \in Loads |-> [state |-> "done", list |-> NoVideos]]
    /\ poll' = [p \in PollSlots |-> NoPoll]
    /\ dialog' = [u \in Uploads |-> "closed"]
    /\ UNCHANGED <<row, server, config>>

\* Mutant of Leave: the controllers are left alone.
LeaveUploading == Gone("left") /\ UNCHANGED cancelled

\* The page is left: the cleanup cancels every controller it still holds.
Leave ==
    /\ Gone("left")
    /\ cancelled' = [u \in Uploads |-> cancelled[u] \/ Registered(u)]

\* The row menu of a listed video: Open loads another document, without any
\* cleanup, and the requests of this one die.  Its other items change nothing.
OpenListed ==
    /\ ~isLoading /\ ~Modal
    /\ Listed # {} /\ CurrentPage * PageSize > Len(rows)
    /\ Gone("unloaded")
    /\ UNCHANGED cancelled

-----------------------------------------------------------------------------
\* The page wires the dropzone and the table to its handlers.
UserStep ==
    \/ TurnPage \/ Leave \/ OpenListed
    \/ \E u \in Uploads :
          \/ ClickRetry(u) \/ ClickCancel(u) \/ ClickKeep(u) \/ ConfirmCancel(u)
          \/ \E file \in Files : SelectFile(u, file)

Next ==
    \/ UserStep
    \/ ConfigLoads \/ SyncRef \/ Tick
    \/ \E u \in Uploads :
          \/ ServerMoves(u) \/ RowFinishes(u) \/ DialogGone(u)
          \/ \E to \in {"retryable", "failed"} : RowFails(u, to)
          \/ \E p \in PollSlots : GetVideoState(p, u)
    \/ \E l \in Loads : ListVideos(l) \/ ApplyLoad(l) \/ LoadFails(l)
    \/ \E p \in PollSlots : ApplyPoll(p) \/ PollFails(p)

Spec == Init /\ [][Next]_vars

-----------------------------------------------------------------------------
\* Whatever is clicked, twice or while a dialog closes, and however an upload
\* ends meanwhile, only an upload that can be cancelled or retried is
\* (handleCancelUpload, handleRetryUpload, the cleanup).
UsesRows == RowSpec

\* Cancelling is what takes a live upload off the table, and what is left of
\* it stays away: an upload without a row has been cancelled or has finished,
\* one that was cancelled has no row while the page is open, and none has two.
RowsAreTheLiveUploads ==
    mounted =>
        /\ IsInjective(rows)
        /\ \A u \in Uploads :
              Registered(u) <=> ~cancelled[u] /\ row[u] \notin {"none", "finished"}

\* When the page is left within the app nothing goes on uploading in the
\* background (the cleanup): each upload was cancelled or is queued.
LeavingCancels ==
    place = "left" => \A u \in Uploads : cancelled[u] \/ row[u] \in {"none", "finished"}

LoadsDone == \A l \in Loads : load[l].state \in {"idle", "done"}

\* An upload that leaves its row because it is queued is in the list once the
\* lists are in, unless a request failed or an older list came in last.
FinishedIsListed ==
    mounted /\ LoadsDone /\ ~lost =>
        /\ ~isLoading
        /\ \A u \in Uploads : row[u] = "finished" => u \in Listed

\* A status that is out of date is one the next poll asks about: no order of
\* lists, polls and effects leaves a listed video showing an outcome that is
\* not, or never will be, its own (mapVideoStatus, isPollableStatus).  The
\* exception is "failed": the page takes it to be final, the API does not.
StaleIsPolled ==
    mounted => \A u \in Listed :
                  \/ videos[u] = MapVideoStatus(server[u])
                  \/ Pollable(videos[u])
                  \/ videos[u] = "failed" /\ server[u] = "mixed"
=============================================================================
