-------------------------- MODULE DashboardProofs --------------------------
(***************************************************************************)
(* Proofs about UploadDashboard: any number of uploads, of polls and of    *)
(* table pages, any files, limits and statuses.  First what the table does *)
(* to its rows (RowsInv, and the refinement of UploadRow), then what the   *)
(* lists and polls may show (ListsInv).                                    *)
(***************************************************************************)
EXTENDS UploadDashboard, SequenceTheorems, TLAPS

-----------------------------------------------------------------------------
\* Sequences without repetition.

\* A new element in front.
LEMMA InFront ==
  ASSUME NEW S, NEW s \in Seq(S), NEW e \in S, e \notin Range(s), IsInjective(s)
  PROVE  /\ <<e>> \o s \in Seq(S)
         /\ Range(<<e>> \o s) = {e} \cup Range(s)
         /\ IsInjective(<<e>> \o s)
  <1> DEFINE t == <<e>> \o s
  <1>1. <<e>> \in Seq(S) /\ Len(<<e>>) = 1 /\ <<e>>[1] = e
    OBVIOUS
  <1>2. /\ t \in Seq(S) /\ Len(t) = 1 + Len(s)
        /\ \A i \in 1 .. 1 + Len(s) : t[i] = IF i <= 1 THEN <<e>>[i] ELSE s[i - 1]
    BY <1>1, ConcatProperties, Zenon
  <1>3. Range(t) = {e} \cup Range(s)
    <2>1. Range(<<e>>) = {e}
      BY <1>1 DEF Range
    <2> QED
      <3>1. \A r, q \in Seq(S) : Range(r \o q) = Range(r) \cup Range(q)
        BY RangeConcatenation
      <3> QED
        BY <1>1, <2>1, <3>1, Zenon
  <1>4. DOMAIN t = 1 .. 1 + Len(s) /\ Len(s) \in Nat /\ DOMAIN s = 1 .. Len(s)
    BY <1>2, LenProperties
  <1>5. t[1] = e /\ \A i \in 2 .. 1 + Len(s) : i - 1 \in DOMAIN s /\ t[i] = s[i - 1]
    BY <1>1, <1>2, <1>4
  <1> HIDE DEF t
  <1>6. \A i \in 2 .. 1 + Len(s) : t[i] # t[1]
    BY <1>5 DEF Range
  <1>7. \A i, j \in 2 .. 1 + Len(s) : t[i] = t[j] => i = j
    BY <1>4, <1>5 DEF IsInjective
  <1>8. IsInjective(t)
    BY <1>4, <1>6, <1>7 DEF IsInjective
  <1> QED
    BY <1>2, <1>3, <1>8 DEF t

\* What RemoveFirst makes of a sequence without repetition.
LEMMA RemovedAt ==
  ASSUME NEW S, NEW s \in Seq(S), NEW i \in 1 .. Len(s)
  PROVE  /\ RemoveAt(s, i) \in Seq(S)
         /\ Len(RemoveAt(s, i)) = Len(s) - 1
         /\ \A j \in 1 .. Len(s) - 1 : RemoveAt(s, i)[j] = IF j < i THEN s[j] ELSE s[j + 1]
  <1> DEFINE a == SubSeq(s, 1, i - 1)
             b == SubSeq(s, i + 1, Len(s))
  <1>1. Len(s) \in Nat /\ DOMAIN s = 1 .. Len(s) /\ \A j \in 1 .. Len(s) : s[j] \in S
    BY LenProperties, ElementOfSeq
  <1>2. /\ a \in Seq(S) /\ Len(a) = i - 1
        /\ \A j \in 1 .. i - 1 : a[j] = s[j]
    <2>1. \A j \in 1 .. i - 1 : s[j] \in S
      BY <1>1
    <2>2. /\ a \in Seq(S)
          /\ Len(a) = IF 1 <= i - 1 THEN (i - 1) - 1 + 1 ELSE 0
          /\ \A j \in 1 .. (i - 1) - 1 + 1 : a[j] = s[1 + j - 1]
      BY <2>1, SubSeqProperties
    <2> QED
      BY <1>1, <2>2
  <1>3. /\ b \in Seq(S) /\ Len(b) = Len(s) - i
        /\ \A j \in 1 .. Len(s) - i : b[j] = s[i + j]
    <2> DEFINE n == Len(s)
               m == i + 1
    <2>1. \A j \in m .. n : s[j] \in S
      BY <1>1
    <2>2. m \in Int /\ n \in Int /\ m = i + 1 /\ i <= n /\ b = SubSeq(s, m, n)
      BY <1>1
    <2> HIDE DEF n, m, b
    <2>3. /\ SubSeq(s, m, n) \in Seq(S)
          /\ Len(SubSeq(s, m, n)) = IF m <= n THEN n - m + 1 ELSE 0
          /\ \A j \in 1 .. n - m + 1 : SubSeq(s, m, n)[j] = s[m + j - 1]
      BY <2>1, <2>2, SubSeqProperties
    <2>4. b \in Seq(S) /\ Len(b) = n - i /\ \A j \in 1 .. n - i : b[j] = s[i + j]
      <3>1. n - m + 1 = n - i /\ \A j \in 1 .. n - i : m + j - 1 = i + j
        BY <2>2
      <3>2. Len(b) = n - i
        BY <2>2, <2>3
      <3> QED
        BY <2>2, <2>3, <3>1, <3>2
    <2> QED
      BY <2>4 DEF n
  <1>4. RemoveAt(s, i) = a \o b
    BY DEF RemoveAt
  <1> HIDE DEF a, b
  <1>5. /\ a \o b \in Seq(S) /\ Len(a \o b) = Len(a) + Len(b)
        /\ \A j \in 1 .. Len(a) + Len(b) : (a \o b)[j] = IF j <= Len(a) THEN a[j] ELSE b[j - Len(a)]
    BY <1>2, <1>3, ConcatProperties, Zenon
  <1> QED
    BY <1>1, <1>2, <1>3, <1>4, <1>5

LEMMA Removed ==
  ASSUME NEW S, NEW s \in Seq(S), NEW e, IsInjective(s)
  PROVE  /\ RemoveFirst(s, e) \in Seq(S)
         /\ Range(RemoveFirst(s, e)) = Range(s) \ {e}
         /\ IsInjective(RemoveFirst(s, e))
  <1>1. Len(s) \in Nat /\ DOMAIN s = 1 .. Len(s)
    BY LenProperties
  <1>2. CASE e \notin Range(s)
    <2>1. RemoveFirst(s, e) = s
      BY <1>1, <1>2 DEF RemoveFirst, Range
    <2> QED
      BY <1>2, <2>1
  <1>3. CASE e \in Range(s)
    <2>1. PICK i \in 1 .. Len(s) : s[i] = e
      BY <1>1, <1>3 DEF Range
    <2>2. {k \in 1 .. Len(s) : s[k] = e} = {i}
      BY <1>1, <2>1 DEF IsInjective
    <2>3. Min({i}) = i
      BY DEF Min
    <2>4. SelectInSeq(s, LAMBDA v : v = e) = i
      BY <2>2, <2>3 DEF SelectInSeq
    <2>5. RemoveFirst(s, e) = RemoveAt(s, i)
      BY <2>1, <2>4 DEF RemoveFirst
    <2> DEFINE t == RemoveAt(s, i)
    <2>6. /\ t \in Seq(S) /\ Len(t) = Len(s) - 1
          /\ \A j \in 1 .. Len(s) - 1 : t[j] = IF j < i THEN s[j] ELSE s[j + 1]
      BY RemovedAt
    <2>7. DOMAIN t = 1 .. Len(s) - 1
      BY <2>6, LenProperties
    <2> HIDE DEF t
    <2>8. IsInjective(t)
      BY <1>1, <2>6, <2>7 DEF IsInjective
    <2>9. ASSUME NEW x \in Range(s) \ {e} PROVE x \in Range(t)
      <3>1. PICK k \in 1 .. Len(s) : s[k] = x
        BY <1>1, <2>9 DEF Range
      <3>2. CASE k < i
        BY <1>1, <2>6, <2>7, <3>1, <3>2 DEF Range
      <3>3. CASE k > i
        <4>1. k - 1 \in 1 .. Len(s) - 1 /\ t[k - 1] = s[k]
          BY <1>1, <2>6, <3>1, <3>3
        <4> QED
          BY <2>7, <3>1, <4>1 DEF Range
      <3> QED
        BY <2>1, <2>9, <3>1, <3>2, <3>3
    <2>10. ASSUME NEW j \in 1 .. Len(s) - 1 PROVE t[j] \in Range(s) \ {e}
      <3>1. CASE j < i
        BY <1>1, <2>1, <2>6, <3>1 DEF Range, IsInjective
      <3>2. CASE j >= i
        BY <1>1, <2>1, <2>6, <3>2 DEF Range, IsInjective
      <3> QED
        BY <3>1, <3>2
    <2>11. Range(t) = Range(s) \ {e}
      BY <2>7, <2>9, <2>10 DEF Range
    <2> QED
      BY <2>5, <2>6, <2>8, <2>11 DEF t
  <1> QED
    BY <1>2, <1>3

-----------------------------------------------------------------------------
\* The rows.

RowTypes ==
    /\ row \in [Uploads -> RowKind]
    /\ cancelled \in [Uploads -> BOOLEAN]
    /\ rows \in Seq(Uploads)

\* The two ways an upload may be over for the table.
Over(u) == cancelled[u] \/ row[u] = "finished"

RowsInv ==
    /\ IsInjective(rows)
    /\ ~mounted => rows = <<>>
    /\ \A u \in Uploads : cancelled[u] => row[u] # "none"
    /\ mounted => \A u \in Uploads : Registered(u) <=> ~Over(u) /\ row[u] # "none"
    /\ place = "left" => \A u \in Uploads : Over(u) \/ row[u] = "none"

\* What a step may do to the rows and to the controllers behind them.

Dropped(u) ==
    /\ mounted /\ place' = place /\ row[u] = "none"
    /\ row' = [row EXCEPT ![u] = "uploading"]
    /\ rows' = <<u>> \o rows
    /\ UNCHANGED cancelled

Reported(u) ==
    /\ mounted /\ UNCHANGED <<place, rows>>
    /\ \E to \in {"retryable", "failed"} : RowFail(u, to)

Retried(u) ==
    /\ UNCHANGED <<place, rows, cancelled>>
    /\ Registered(u) /\ row[u] = "retryable"
    /\ row' = [row EXCEPT ![u] = "uploading"]

Ended(u) ==
    /\ mounted /\ place' = place
    /\ RowFinish(u)
    /\ rows' = WithoutRow(u)

Cancelled(u) ==
    /\ UNCHANGED <<place, row>>
    /\ Registered(u)
    /\ cancelled' = [cancelled EXCEPT ![u] = TRUE]
    /\ rows' = WithoutRow(u)

LeftPage ==
    /\ mounted /\ place' = "left" /\ rows' = <<>> /\ UNCHANGED row
    /\ cancelled' = [u \in Uploads |-> cancelled[u] \/ Registered(u)]

Unloaded ==
    /\ mounted /\ place' = "unloaded" /\ rows' = <<>> /\ UNCHANGED <<row, cancelled>>

LEMMA RowMoves ==
  ASSUME [Next]_vars
  PROVE  \/ UNCHANGED <<row, cancelled, rows, place>>
         \/ LeftPage \/ Unloaded
         \/ \E u \in Uploads : Dropped(u) \/ Reported(u) \/ Retried(u) \/ Ended(u) \/ Cancelled(u)
  <1>1. CASE UNCHANGED vars
    BY <1>1 DEF vars, rowVars
  <1>2. CASE TurnPage \/ ConfigLoads \/ SyncRef \/ Tick
    BY <1>2 DEF TurnPage, ConfigLoads, SyncRef, Tick, rowVars
  <1>3. CASE Leave
    BY <1>3 DEF Leave, Gone, LeftPage
  <1>4. CASE OpenListed
    BY <1>4 DEF OpenListed, Gone, Unloaded
  <1>5. CASE \E u \in Uploads : ClickRetry(u)
    BY <1>5 DEF ClickRetry, RetryButton, CanRetry, Retried
  <1>6. CASE \E u \in Uploads : ClickCancel(u) \/ ClickKeep(u) \/ DialogGone(u)
    BY <1>6 DEF ClickCancel, ClickKeep, DialogGone, Dialog, rowVars
  <1>7. CASE \E u \in Uploads : ConfirmCancel(u)
    BY <1>7 DEF ConfirmCancel, Cancelled
  <1>8. CASE \E u \in Uploads, file \in Files : SelectFile(u, file)
    BY <1>8 DEF SelectFile, DropzoneEnabled, Dropped
  <1>9. CASE \E u \in Uploads : ServerMoves(u) \/ \E p \in PollSlots : GetVideoState(p, u)
    BY <1>9 DEF ServerMoves, GetVideoState, rowVars
  <1>10. CASE \E u \in Uploads : RowFinishes(u)
    BY <1>10 DEF RowFinishes, Ended
  <1>11. CASE \E u \in Uploads : \E to \in {"retryable", "failed"} : RowFails(u, to)
    BY <1>11 DEF RowFails, Reported
  <1>12. CASE \E l \in Loads : ListVideos(l) \/ ApplyLoad(l) \/ LoadFails(l)
    BY <1>12 DEF ListVideos, ApplyLoad, LoadFails, EndLoad, rowVars
  <1>13. CASE \E p \in PollSlots : ApplyPoll(p) \/ PollFails(p)
    BY <1>13 DEF ApplyPoll, PollFails, rowVars
  <1> QED
    BY <1>1, <1>2, <1>3, <1>4, <1>5, <1>6, <1>7, <1>8, <1>9, <1>10, <1>11, <1>12, <1>13 DEF Next, UserStep

LEMMA RowTypesInit == Init => RowTypes /\ RowsInv
  <1> SUFFICES ASSUME Init PROVE RowTypes /\ RowsInv
    OBVIOUS
  <1>1. /\ row = [u \in Uploads |-> "none"] /\ cancelled = [u \in Uploads |-> FALSE]
        /\ rows = <<>> /\ place = "open"
    BY DEF Init, RowInit
  <1>2. rows \in Seq(Uploads) /\ DOMAIN rows = {}
    BY <1>1
  <1>3. RowTypes
    BY <1>1, <1>2 DEF RowTypes, RowKind
  <1>4. \A u \in Uploads : ~Registered(u)
    BY <1>2 DEF Registered, Range
  <1> QED
    BY <1>1, <1>2, <1>3, <1>4 DEF RowsInv, IsInjective, mounted

LEMMA RowTypesStep ==
  ASSUME RowTypes, RowsInv, [Next]_vars
  PROVE  RowTypes'
  <1> USE DEF RowTypes, RowKind
  <1>1. ASSUME NEW u \in Uploads, Dropped(u) PROVE RowTypes'
    <2>1. rows' \in Seq(Uploads)
      BY <1>1 DEF Dropped
    <2> QED
      BY <1>1, <2>1 DEF Dropped
  <1>2. ASSUME NEW u \in Uploads, Reported(u) PROVE RowTypes'
    BY <1>2 DEF Reported, RowFail, Report
  <1>3. ASSUME NEW u \in Uploads, Retried(u) PROVE RowTypes'
    BY <1>3 DEF Retried
  <1>4. ASSUME NEW u \in Uploads, Ended(u) PROVE RowTypes'
    BY <1>4, Removed DEF Ended, RowFinish, Report, WithoutRow, RowsInv
  <1>5. ASSUME NEW u \in Uploads, Cancelled(u) PROVE RowTypes'
    BY <1>5, Removed DEF Cancelled, WithoutRow, RowsInv
  <1>6. CASE LeftPage
    <2>1. cancelled' \in [Uploads -> BOOLEAN]
      BY <1>6 DEF LeftPage
    <2> QED
      BY <1>6, <2>1 DEF LeftPage
  <1>7. CASE Unloaded
    BY <1>7 DEF Unloaded
  <1> QED
    BY <1>1, <1>2, <1>3, <1>4, <1>5, <1>6, <1>7, RowMoves

LEMMA RowsInvStep ==
  ASSUME RowTypes, RowsInv, [Next]_vars
  PROVE  RowsInv'
  <1> USE DEF RowTypes, Over, mounted
  <1>1. CASE UNCHANGED <<row, cancelled, rows, place>>
    BY <1>1 DEF RowsInv, Registered
  <1>2. ASSUME NEW u \in Uploads, Dropped(u) PROVE RowsInv'
    <2>1. u \notin Range(rows) /\ ~cancelled[u]
      BY <1>2 DEF Dropped, RowsInv, Registered
    <2>2. IsInjective(rows') /\ Range(rows') = {u} \cup Range(rows)
      BY <1>2, <2>1, InFront DEF Dropped, RowsInv
    <2> QED
      BY <1>2, <2>1, <2>2 DEF Dropped, RowsInv, Registered
  <1>3. ASSUME NEW u \in Uploads, Reported(u) PROVE RowsInv'
    BY <1>3 DEF Reported, RowFail, Report, RowsInv, Registered
  <1>4. ASSUME NEW u \in Uploads, Retried(u) PROVE RowsInv'
    <2>1. mounted
      BY <1>4 DEF Retried, RowsInv, Registered, Range
    <2> QED
      BY <1>4, <2>1 DEF Retried, RowsInv, Registered
  <1>5. ASSUME NEW u \in Uploads, Ended(u) PROVE RowsInv'
    <2>1. IsInjective(rows') /\ Range(rows') = Range(rows) \ {u}
      BY <1>5, Removed DEF Ended, WithoutRow, RowsInv
    <2> QED
      BY <1>5, <2>1 DEF Ended, RowFinish, Report, RowsInv, Registered
  <1>6. ASSUME NEW u \in Uploads, Cancelled(u) PROVE RowsInv'
    <2>1. IsInjective(rows') /\ Range(rows') = Range(rows) \ {u}
      BY <1>6, Removed DEF Cancelled, WithoutRow, RowsInv
    <2>2. mounted
      BY <1>6 DEF Cancelled, RowsInv, Registered, Range
    <2> QED
      BY <1>6, <2>1, <2>2 DEF Cancelled, RowsInv, Registered
  <1>7. CASE LeftPage \/ Unloaded
    <2>1. DOMAIN rows' = {} /\ rows' = <<>>
      BY <1>7 DEF LeftPage, Unloaded
    <2> QED
      BY <1>7, <2>1 DEF LeftPage, Unloaded, RowsInv, IsInjective
  <1> QED
    BY <1>1, <1>2, <1>3, <1>4, <1>5, <1>6, <1>7, RowMoves

LEMMA RowsKept == Spec => [](RowTypes /\ RowsInv)
  <1>1. RowTypes /\ RowsInv /\ [Next]_vars => (RowTypes /\ RowsInv)'
    BY RowTypesStep, RowsInvStep
  <1> QED
    BY <1>1, RowTypesInit, PTL DEF Spec

\* While the page is open its rows are those of the live uploads, each once:
\* whatever dialogs outlive, and however an upload ends meanwhile.
THEOREM RowsTheorem == Spec => []RowsAreTheLiveUploads
  <1>1. RowTypes /\ RowsInv => RowsAreTheLiveUploads
    BY DEF RowsInv, RowsAreTheLiveUploads, Over
  <1> QED
    BY <1>1, RowsKept, PTL

\* Whoever leaves the page within the app has cancelled every upload that is
\* not queued, and none starts afterwards.
THEOREM LeavingTheorem == Spec => []LeavingCancels
  <1>1. RowTypes /\ RowsInv => LeavingCancels
    BY DEF RowsInv, LeavingCancels, Over
  <1> QED
    BY <1>1, RowsKept, PTL

\* The page uses its controllers as UploadRow allows: it cancels and retries
\* only what can be, whatever is clicked, so that what MultipartUpload is
\* proved to implement is all that the page needs.
THEOREM DashboardUsesRows == Spec => UsesRows
  <1>1. Init => RowInit
    BY DEF Init
  <1>2. RowTypes /\ RowsInv /\ [Next]_vars => [RowNext]_rowVars
    <2> SUFFICES ASSUME RowTypes, RowsInv, [Next]_vars PROVE [RowNext]_rowVars
      OBVIOUS
    <2>1. ASSUME NEW u \in Uploads, Dropped(u) PROVE RowBegin(u)
      BY <2>1 DEF Dropped, RowBegin, Report
    <2>2. ASSUME NEW u \in Uploads, Registered(u)
          PROVE  CanCancel(u) /\ ~cancelled[u]
      <3>1. mounted
        BY <2>2 DEF RowsInv, Registered, Range
      <3> QED
        BY <2>2, <3>1 DEF RowsInv, RowTypes, RowKind, Over, CanCancel
    <2>3. ASSUME NEW u \in Uploads, Retried(u) PROVE RowRetry(u)
      BY <2>2, <2>3 DEF Retried, RowRetry, Report
    <2>4. ASSUME NEW u \in Uploads, Cancelled(u) PROVE RowCancel({u})
      <3>1. cancelled' = [v \in Uploads |-> cancelled[v] \/ v \in {u}]
        BY <2>4 DEF Cancelled, RowTypes
      <3> QED
        BY <2>2, <2>4, <3>1 DEF Cancelled, RowCancel
    <2>5. CASE LeftPage
      <3> DEFINE S == {u \in Uploads : Registered(u)}
      <3>1. RowCancel(S)
        BY <2>2, <2>5 DEF LeftPage, RowCancel
      <3> QED
        BY <3>1 DEF RowNext
    <2> QED
      BY <2>1, <2>3, <2>4, <2>5, RowMoves DEF RowNext, rowVars, Reported, Ended, Unloaded
  <1> QED
    BY <1>1, <1>2, RowsKept, PTL DEF Spec, UsesRows, RowSpec

-----------------------------------------------------------------------------
\* What lists and polls may show.

ServerStatus == {"none", "uploading", "aborted", "pending", "running",
                 "partial", "mixed", "failed", "done"}

Shows == {"absent", "pending", "processing", "partial", "done", "failed"}

LoadState == [state : {"idle", "sent", "answered", "done"}, list : [Uploads -> Shows]]

PollState == [Uploads -> Shows \cup {"unasked", "awaited"}]

ListTypes ==
    /\ server \in [Uploads -> ServerStatus]
    /\ videos \in [Uploads -> Shows] /\ videosRef \in [Uploads -> Shows]
    /\ load \in [Loads -> LoadState]
    /\ poll \in [PollSlots -> PollState]

\* What was shown of a video once is right, will be asked about again, or is
\* a failure that the success of another rendition has made partial.
Fits(shown, s) ==
    \/ shown = "absent"
    \/ /\ s # "none"
       /\ \/ shown = MapVideoStatus(s)
          \/ Pollable(shown)
          \/ shown = "failed" /\ s = "mixed"

\* What a poll has been told of a video, if it asks about it at all.
PollFits(told, s) ==
    \/ told = "unasked"
    \/ s # "none" /\ told # "absent" /\ (told = "awaited" \/ Fits(told, s))

\* Every answer, applied or not, fits the status its video has by now.
ListsInv ==
    \A u \in Uploads :
        /\ Fits(videos[u], server[u])
        /\ videosRef[u] # "absent" => server[u] # "none"
        /\ \A l \in Loads : Fits(load[l].list[u], server[u])
        /\ \A p \in PollSlots : PollFits(poll[p][u], server[u])

LEMMA StatusIsShown ==
  ASSUME NEW s \in ServerStatus
  PROVE  /\ MapVideoStatus(s) \in Shows
         /\ MapVideoStatus(s) = "absent" <=> s = "none"
         /\ Fits(MapVideoStatus(s), s)
  BY DEF ServerStatus, Shows, MapVideoStatus, Fits

\* However the status of a video moves on, what was shown of it still fits.
LEMMA FitsForGood ==
  ASSUME NEW s \in ServerStatus, NEW t \in MayBecome(s)
  PROVE  /\ t \in ServerStatus \ {"none"}
         /\ \A shown \in Shows : Fits(shown, s) => Fits(shown, t)
         /\ \A told \in Shows \cup {"unasked", "awaited"} : PollFits(told, s) => PollFits(told, t)
  <1>1. t \in ServerStatus \ {"none"}
    BY DEF ServerStatus, MayBecome
  <1>2. ASSUME NEW shown \in Shows, Fits(shown, s) PROVE Fits(shown, t)
    BY <1>2 DEF Fits, Shows, ServerStatus, MayBecome, MapVideoStatus, Pollable
  <1> QED
    BY <1>1, <1>2 DEF PollFits

-----------------------------------------------------------------------------
\* What a step may do to the lists.

\* A status moves on.
ServerStep ==
    \/ UNCHANGED server
    \/ \E u \in Uploads : \E s \in MayBecome(server[u]) : server' = [server EXCEPT ![u] = s]

\* A list or a poll is applied, or the page is gone.
VideoStep ==
    \/ UNCHANGED videos \/ videos' = NoVideos
    \/ \E l \in Loads : videos' = load[l].list
    \/ \E p \in PollSlots :
          /\ \A u \in Uploads : poll[p][u] # "awaited"
          /\ videos' = [u \in Uploads |->
                          IF poll[p][u] = "unasked" \/ u \notin Listed THEN videos[u]
                          ELSE poll[p][u]]

\* The effect runs, or the page is gone.
RefStep == UNCHANGED videosRef \/ videosRef' = videos \/ videosRef' = NoVideos

\* A list is asked for, answered, applied or lost.
LoadStep ==
    \/ UNCHANGED load
    \/ load' = [l \in Loads |-> [state |-> "done", list |-> NoVideos]]
    \/ \E u \in Uploads : load' = [load EXCEPT ![u].state = "sent"]
    \/ \E l \in Loads : load' = [load EXCEPT ![l] = [state |-> "answered", list |-> Shown]]
    \/ \E l \in Loads : load' = [load EXCEPT ![l] = [state |-> "done", list |-> NoVideos]]

\* A poll begins, is told the status of one video, is applied or fails.
PollStep ==
    \/ UNCHANGED poll
    \/ StartPoll
    \/ poll' = [p \in PollSlots |-> NoPoll]
    \/ \E p \in PollSlots : poll' = [poll EXCEPT ![p] = NoPoll]
    \/ \E p \in PollSlots, u \in Uploads :
          /\ poll[p][u] = "awaited"
          /\ poll' = [poll EXCEPT ![p][u] = MapVideoStatus(server[u])]

LEMMA ListSteps ==
  ASSUME [Next]_vars
  PROVE  ServerStep /\ VideoStep /\ RefStep /\ LoadStep /\ PollStep
  <1> USE DEF Next, UserStep, vars, TurnPage, ConfigLoads, SyncRef, Tick, Leave, OpenListed, Gone,
              ClickRetry, ClickCancel, ClickKeep, DialogGone, Dialog, ConfirmCancel, SelectFile,
              ServerMoves, GetVideoState, RowFinishes, RowFails, ListVideos, ApplyLoad, LoadFails,
              EndLoad, ApplyPoll, PollFails
  <1>1. ServerStep
    BY DEF ServerStep
  <1>2. VideoStep
    BY DEF VideoStep
  <1>3. RefStep
    BY DEF RefStep
  <1>4. LoadStep
    BY DEF LoadStep
  <1>5. PollStep
    BY DEF PollStep
  <1> QED
    BY <1>1, <1>2, <1>3, <1>4, <1>5

LEMMA NothingListed ==
  /\ NoVideos \in [Uploads -> Shows] /\ \A u \in Uploads : NoVideos[u] = "absent"
  /\ NoPoll \in PollState /\ \A u \in Uploads : NoPoll[u] = "unasked"
  BY DEF NoVideos, NoPoll, PollState, Shows

\* A poll that begins asks for videos that are listed.
LEMMA PollBegins ==
  ASSUME ListTypes, StartPoll
  PROVE  /\ poll' \in [PollSlots -> PollState]
         /\ \A p \in PollSlots, u \in Uploads :
               \/ poll'[p][u] = poll[p][u]
               \/ poll'[p][u] = "unasked"
               \/ poll'[p][u] = "awaited" /\ videosRef[u] # "absent"
  <1> DEFINE pollable == {u \in Uploads : Pollable(videosRef[u])}
             asked == [u \in Uploads |-> IF u \in pollable THEN "awaited" ELSE "unasked"]
  <1>1. poll' = poll \/ \E p \in PollSlots : poll' = [poll EXCEPT ![p] = asked]
    BY DEF StartPoll
  <1>2. asked \in PollState
    BY DEF PollState
  <1>3. \A u \in Uploads : asked[u] = "unasked" \/ (asked[u] = "awaited" /\ videosRef[u] # "absent")
    BY DEF Pollable
  <1> HIDE DEF asked
  <1> QED
    BY <1>1, <1>2, <1>3 DEF ListTypes

LEMMA ListTypesStep ==
  ASSUME ListTypes, [Next]_vars
  PROVE  ListTypes'
  <1>1. server' \in [Uploads -> ServerStatus]
    BY ListSteps, FitsForGood DEF ServerStep, ListTypes
  <1>2. Shown \in [Uploads -> Shows]
    BY StatusIsShown DEF Shown, ListTypes
  <1>3. videos' \in [Uploads -> Shows]
    <2>1. ASSUME NEW p \in PollSlots, \A u \in Uploads : poll[p][u] # "awaited"
          PROVE  \A u \in Uploads : poll[p][u] = "unasked" \/ poll[p][u] \in Shows
      BY <2>1 DEF ListTypes, PollState
    <2>2. \A l \in Loads : load[l].list \in [Uploads -> Shows]
      BY DEF ListTypes, LoadState
    <2> QED
      BY <2>1, <2>2, ListSteps, NothingListed DEF VideoStep, ListTypes
  <1>4. videosRef' \in [Uploads -> Shows]
    BY ListSteps, NothingListed DEF RefStep, ListTypes
  <1>5. load' \in [Loads -> LoadState]
    <2>1. [state |-> "done", list |-> NoVideos] \in LoadState
      BY NothingListed DEF LoadState
    <2>2. [state |-> "answered", list |-> Shown] \in LoadState
      BY <1>2 DEF LoadState
    <2>3. \A u \in Uploads : [load[u] EXCEPT !.state = "sent"] \in LoadState
      BY DEF ListTypes, LoadState, Loads
    <2> QED
      BY <2>1, <2>2, <2>3, ListSteps DEF LoadStep, ListTypes
  <1>6. poll' \in [PollSlots -> PollState]
    <2>1. ASSUME NEW p \in PollSlots, NEW u \in Uploads
          PROVE  [poll[p] EXCEPT ![u] = MapVideoStatus(server[u])] \in PollState
      BY StatusIsShown DEF ListTypes, PollState
    <2> QED
      BY <2>1, ListSteps, NothingListed, PollBegins DEF PollStep, ListTypes
  <1> QED
    BY <1>1, <1>3, <1>4, <1>5, <1>6 DEF ListTypes

LEMMA ListsInvStep ==
  ASSUME ListTypes, ListsInv, [Next]_vars
  PROVE  ListsInv'
  <1>1. ASSUME NEW u \in Uploads
        PROVE  /\ server[u] # "none" => server'[u] # "none"
               /\ \A shown \in Shows : Fits(shown, server[u]) => Fits(shown, server'[u])
               /\ \A told \in Shows \cup {"unasked", "awaited"} :
                     PollFits(told, server[u]) => PollFits(told, server'[u])
    <2>1. server'[u] = server[u] \/ server'[u] \in MayBecome(server[u])
      BY ListSteps DEF ServerStep, ListTypes
    <2> QED
      BY <2>1, FitsForGood DEF ListTypes
  <1>2. ASSUME NEW u \in Uploads PROVE Fits(videos'[u], server'[u])
    <2>1. Fits(videos'[u], server[u]) /\ videos'[u] \in Shows
      <3>1. CASE UNCHANGED videos \/ videos' = NoVideos
        BY <3>1, NothingListed DEF ListsInv, ListTypes, Fits, Shows
      <3>2. ASSUME NEW l \in Loads, videos' = load[l].list
            PROVE  Fits(videos'[u], server[u]) /\ videos'[u] \in Shows
        BY <3>2 DEF ListsInv, ListTypes, LoadState
      <3>3. ASSUME NEW p \in PollSlots, poll[p][u] # "awaited",
                   videos'[u] = IF poll[p][u] = "unasked" \/ u \notin Listed THEN videos[u]
                                ELSE poll[p][u]
            PROVE  Fits(videos'[u], server[u]) /\ videos'[u] \in Shows
        <4>1. PollFits(poll[p][u], server[u]) /\ Fits(videos[u], server[u])
          BY DEF ListsInv
        <4> QED
          BY <3>3, <4>1 DEF PollFits, ListTypes, PollState
      <3> QED
        BY <3>1, <3>2, <3>3, ListSteps DEF VideoStep
    <2> QED
      BY <1>1, <2>1
  <1>3. ASSUME NEW u \in Uploads, videosRef'[u] # "absent" PROVE server'[u] # "none"
    BY <1>1, <1>3, ListSteps, NothingListed DEF RefStep, ListsInv, Fits
  <1>4. ASSUME NEW u \in Uploads, NEW l \in Loads PROVE Fits(load'[l].list[u], server'[u])
    <2>1. Fits(Shown[u], server[u]) /\ Shown[u] \in Shows
      BY StatusIsShown DEF Shown, ListTypes
    <2>2. Fits("absent", server[u]) /\ "absent" \in Shows
      BY DEF Fits, Shows
    <2>3. load'[l].list = load[l].list \/ load'[l].list = Shown \/ load'[l].list = NoVideos
      <3>1. load \in [Loads -> LoadState] /\ Uploads \subseteq Loads
        BY DEF ListTypes, Loads
      <3>2. ASSUME NEW v \in Uploads, load' = [load EXCEPT ![v].state = "sent"]
            PROVE  load'[l].list = load[l].list
        <4>1. CASE l = v
          BY <3>1, <3>2, <4>1 DEF LoadState
        <4>2. CASE l # v
          BY <3>1, <3>2, <4>2
        <4> QED
          BY <4>1, <4>2
      <3>3. ASSUME NEW k \in Loads, NEW r, load' = [load EXCEPT ![k] = r]
            PROVE  load'[l].list = load[l].list \/ load'[l] = r
        BY <3>1, <3>3
      <3> QED
        BY <3>2, <3>3, ListSteps DEF LoadStep
    <2>4. Fits(load'[l].list[u], server[u]) /\ load'[l].list[u] \in Shows
      BY <2>1, <2>2, <2>3, NothingListed DEF ListsInv, ListTypes, LoadState
    <2> QED
      BY <1>1, <2>4
  <1>5. ASSUME NEW u \in Uploads, NEW p \in PollSlots PROVE PollFits(poll'[p][u], server'[u])
    <2>1. PollFits(poll'[p][u], server[u]) /\ poll'[p][u] \in Shows \cup {"unasked", "awaited"}
      <3>1. PollFits(poll[p][u], server[u]) /\ poll[p][u] \in Shows \cup {"unasked", "awaited"}
        BY DEF ListsInv, ListTypes, PollState
      <3>2. PollFits("unasked", server[u])
        BY DEF PollFits
      <3>3. CASE StartPoll
        BY <3>1, <3>2, <3>3, PollBegins DEF PollFits, ListsInv
      <3>4. ASSUME NEW q \in PollSlots, NEW v \in Uploads, poll[q][v] = "awaited",
                   poll' = [poll EXCEPT ![q][v] = MapVideoStatus(server[v])]
            PROVE  PollFits(poll'[p][u], server[u]) /\ poll'[p][u] \in Shows \cup {"unasked", "awaited"}
        <4>1. CASE p = q /\ u = v
          <5>1. poll'[p][u] = MapVideoStatus(server[u])
            BY <3>4, <4>1 DEF ListTypes, PollState
          <5>2. server[u] # "none"
            BY <3>1, <3>4, <4>1 DEF PollFits
          <5> QED
            BY <5>1, <5>2, StatusIsShown DEF PollFits, ListTypes
        <4>2. CASE ~(p = q /\ u = v)
          BY <3>1, <3>4, <4>2 DEF ListTypes, PollState
        <4> QED
          BY <4>1, <4>2
      <3> QED
        BY <3>1, <3>2, <3>3, <3>4, ListSteps, NothingListed DEF PollStep, ListTypes
    <2> QED
      BY <1>1, <2>1
  <1> QED
    BY <1>2, <1>3, <1>4, <1>5 DEF ListsInv

LEMMA ListsInit == Init => ListTypes /\ ListsInv
  <1> SUFFICES ASSUME Init PROVE ListTypes /\ ListsInv
    OBVIOUS
  <1>1. /\ server = [u \in Uploads |-> "none"] /\ videos = NoVideos /\ videosRef = NoVideos
        /\ poll = [p \in PollSlots |-> NoPoll]
        /\ load = [l \in Loads |-> [state |-> IF l = "mount" THEN "sent" ELSE "idle",
                                    list |-> NoVideos]]
    BY DEF Init
  <1>2. load \in [Loads -> LoadState]
    BY <1>1, NothingListed DEF LoadState
  <1>3. server \in [Uploads -> ServerStatus]
    BY <1>1 DEF ServerStatus
  <1>4. ListTypes
    BY <1>1, <1>2, <1>3, NothingListed DEF ListTypes
  <1>5. ListsInv
    BY <1>1, NothingListed DEF ListsInv, Fits, PollFits
  <1> QED
    BY <1>4, <1>5

LEMMA ListsKept == Spec => [](ListTypes /\ ListsInv)
  <1>1. ListTypes /\ ListsInv /\ [Next]_vars => (ListTypes /\ ListsInv)'
    BY ListTypesStep, ListsInvStep
  <1> QED
    BY <1>1, ListsInit, PTL DEF Spec

\* No order of lists, polls, renders and statuses leaves a video showing an
\* outcome that is not its own and that no poll will ask about again, but for
\* the failure that becomes partial.
THEOREM StaleTheorem == Spec => []StaleIsPolled
  <1>1. ListTypes /\ ListsInv => StaleIsPolled
    BY DEF ListsInv, Fits, StaleIsPolled, Listed
  <1> QED
    BY <1>1, ListsKept, PTL

-----------------------------------------------------------------------------
\* What becomes of a finished upload.

Open(l) == load[l].state \in {"sent", "answered"}

\* A list that is to come will have the upload in it.
Coming(u) ==
    \/ load[u].state = "sent"
    \/ load[u].state = "answered" /\ load[u].list[u] # "absent"

FinishInv ==
    /\ \A u \in Uploads : row[u] = "finished" => server[u] # "none"
    /\ mounted /\ isLoading => \E l \in Loads : Open(l)
    /\ mounted /\ ~lost =>
          \A u \in Uploads : row[u] = "finished" => u \in Listed \/ Coming(u)

\* What a step may do to a finished upload and to the lists.

FinishedNow(u) ==
    /\ server[u] # "none"
    /\ row' = [row EXCEPT ![u] = "finished"]
    /\ load' = [load EXCEPT ![u].state = "sent"]
    /\ UNCHANGED <<videos, lost>>

Answered(l) ==
    /\ load[l].state = "sent"
    /\ load' = [load EXCEPT ![l] = [state |-> "answered", list |-> Shown]]
    /\ UNCHANGED <<row, videos, isLoading, lost>>

Applied(l) ==
    /\ load[l].state = "answered"
    /\ videos' = load[l].list
    /\ lost' = (lost \/ \E u \in Listed : load[l].list[u] = "absent")
    /\ load' = [load EXCEPT ![l] = [state |-> "done", list |-> NoVideos]]
    /\ isLoading' = FALSE
    /\ UNCHANGED row

Failed == isLoading' = FALSE /\ lost' = TRUE /\ UNCHANGED row

Polled(p) ==
    /\ \A u \in Uploads : poll[p][u] # "awaited"
    /\ videos' = [u \in Uploads |->
                    IF poll[p][u] = "unasked" \/ u \notin Listed THEN videos[u]
                    ELSE poll[p][u]]
    /\ UNCHANGED <<row, load, isLoading, lost>>

\* A row changes without being finished.
OtherRow(u) ==
    /\ \E to \in {"uploading", "retryable", "failed"} : row' = [row EXCEPT ![u] = to]
    /\ UNCHANGED <<videos, load, isLoading, lost>>

LEMMA FinishMoves ==
  ASSUME [Next]_vars
  PROVE  \/ UNCHANGED <<row, videos, load, isLoading, lost>>
         \/ ~mounted' /\ UNCHANGED row
         \/ Failed
         \/ \E u \in Uploads : FinishedNow(u) \/ OtherRow(u)
         \/ \E l \in Loads : Answered(l) \/ Applied(l)
         \/ \E p \in PollSlots : Polled(p)
  <1>1. CASE UNCHANGED vars
    BY <1>1 DEF vars, rowVars
  <1>2. CASE TurnPage \/ ConfigLoads \/ SyncRef \/ Tick
    BY <1>2 DEF TurnPage, ConfigLoads, SyncRef, Tick, rowVars
  <1>3. CASE Leave \/ OpenListed
    BY <1>3 DEF Leave, OpenListed, Gone, mounted
  <1>4. CASE \E u \in Uploads : ClickRetry(u)
    BY <1>4 DEF ClickRetry, OtherRow
  <1>5. CASE \E u \in Uploads : ClickCancel(u) \/ ClickKeep(u) \/ DialogGone(u) \/ ConfirmCancel(u)
    BY <1>5 DEF ClickCancel, ClickKeep, DialogGone, ConfirmCancel, Dialog, rowVars
  <1>6. CASE \E u \in Uploads, file \in Files : SelectFile(u, file)
    BY <1>6 DEF SelectFile, OtherRow
  <1>7. CASE \E u \in Uploads : ServerMoves(u) \/ \E p \in PollSlots : GetVideoState(p, u)
    BY <1>7 DEF ServerMoves, GetVideoState, rowVars
  <1>8. CASE \E u \in Uploads : RowFinishes(u)
    BY <1>8 DEF RowFinishes, RowFinish, Report, Queued, FinishedNow
  <1>9. CASE \E u \in Uploads : \E to \in {"retryable", "failed"} : RowFails(u, to)
    BY <1>9 DEF RowFails, RowFail, Report, OtherRow
  <1>10. CASE \E l \in Loads : ListVideos(l)
    BY <1>10 DEF ListVideos, Answered, rowVars
  <1>11. CASE \E l \in Loads : ApplyLoad(l)
    BY <1>11 DEF ApplyLoad, EndLoad, Applied, rowVars
  <1>12. CASE \E l \in Loads : LoadFails(l)
    BY <1>12 DEF LoadFails, EndLoad, Failed, rowVars
  <1>13. CASE \E p \in PollSlots : ApplyPoll(p)
    BY <1>13 DEF ApplyPoll, Polled, rowVars
  <1>14. CASE \E p \in PollSlots : PollFails(p)
    BY <1>14 DEF PollFails, rowVars
  <1> QED
    BY <1>1, <1>2, <1>3, <1>4, <1>5, <1>6, <1>7, <1>8, <1>9, <1>10, <1>11, <1>12, <1>13, <1>14
       DEF Next, UserStep

\* The page is opened once.
LEMMA OpenBefore ==
  ASSUME [Next]_vars, mounted'
  PROVE  mounted
  BY RowMoves DEF mounted, LeftPage, Unloaded, Dropped, Reported, Retried, Ended, Cancelled


\* An upload that has finished is queued, for good.
LEMMA FinishedExists ==
  ASSUME RowTypes, ListTypes, FinishInv, [Next]_vars, NEW u \in Uploads, row'[u] = "finished"
  PROVE  server'[u] # "none"
  <1>1. server[u] # "none" => server'[u] # "none"
    BY ListSteps, FitsForGood DEF ServerStep, ListTypes
  <1>2. row[u] = "finished" \/ server[u] # "none"
    <2>1. ASSUME NEW v \in Uploads, FinishedNow(v) \/ OtherRow(v)
          PROVE  row[u] = "finished" \/ server[u] # "none"
      BY <2>1 DEF FinishedNow, OtherRow, RowTypes
    <2>2. CASE UNCHANGED row
      BY <2>2
    <2> QED
      BY <2>1, <2>2, FinishMoves DEF Failed, Answered, Applied, Polled
  <1> QED
    BY <1>1, <1>2 DEF FinishInv

\* While the page says that it is loading, a list is under way.
LEMMA LoadingIsOpen ==
  ASSUME ListTypes, FinishInv, [Next]_vars, mounted', isLoading'
  PROVE  \E l \in Loads : Open(l)'
  <1>1. load \in [Loads -> LoadState] /\ Uploads \subseteq Loads
    BY DEF ListTypes, Loads
  <1>2. ASSUME NEW u \in Uploads, FinishedNow(u) PROVE Open(u)'
    BY <1>1, <1>2 DEF FinishedNow, Open, LoadState
  <1>3. ASSUME NEW l \in Loads, Answered(l) PROVE Open(l)'
    BY <1>1, <1>3 DEF Answered, Open
  <1>4. CASE UNCHANGED <<load, isLoading>>
    BY <1>4, OpenBefore DEF FinishInv, Open
  <1> QED
    BY <1>1, <1>2, <1>3, <1>4, FinishMoves DEF Failed, Applied, Polled, OtherRow

\* A finished upload is listed, or a list with it is to come.
LEMMA FinishedComes ==
  ASSUME RowTypes, ListTypes, ListsInv, FinishInv, [Next]_vars, mounted', ~lost',
         NEW u \in Uploads, row'[u] = "finished"
  PROVE  videos'[u] # "absent" \/ Coming(u)'
  <1>1. load \in [Loads -> LoadState] /\ Uploads \subseteq Loads /\ row \in [Uploads -> RowKind]
    BY DEF ListTypes, RowTypes, Loads
  <1>2. mounted
    BY OpenBefore
  <1>3. ASSUME row[u] = "finished", ~lost PROVE videos[u] # "absent" \/ Coming(u)
    BY <1>2, <1>3 DEF FinishInv, Listed
  <1>4. CASE UNCHANGED <<row, videos, load, lost>>
    BY <1>3, <1>4 DEF Coming
  <1>5. ASSUME NEW v \in Uploads, FinishedNow(v) PROVE videos'[u] # "absent" \/ Coming(u)'
    <2>1. CASE u = v
      BY <1>1, <1>5, <2>1 DEF FinishedNow, Coming, LoadState
    <2>2. CASE u # v
      <3>1. row'[u] = row[u] /\ load'[u] = load[u]
        BY <1>1, <1>5, <2>2 DEF FinishedNow
      <3> QED
        BY <1>3, <1>5, <3>1 DEF FinishedNow, Coming
    <2> QED
      BY <2>1, <2>2
  <1>6. ASSUME NEW v \in Uploads, OtherRow(v) PROVE videos'[u] # "absent" \/ Coming(u)'
    <2>1. row[u] = "finished"
      BY <1>1, <1>6 DEF OtherRow
    <2> QED
      BY <1>3, <1>6, <2>1 DEF OtherRow, Coming
  <1>7. ASSUME NEW l \in Loads, Answered(l) PROVE videos'[u] # "absent" \/ Coming(u)'
    <2>1. CASE u = l
      <3>1. server[u] # "none"
        BY <1>7 DEF Answered, FinishInv
      <3>2. Shown[u] # "absent"
        BY <3>1, StatusIsShown DEF Shown, ListTypes
      <3> QED
        BY <1>1, <1>7, <2>1, <3>2 DEF Answered, Coming
    <2>2. CASE u # l
      BY <1>1, <1>3, <1>7, <2>2 DEF Answered, Coming
    <2> QED
      BY <2>1, <2>2
  <1>8. ASSUME NEW l \in Loads, Applied(l) PROVE videos'[u] # "absent" \/ Coming(u)'
    <2>1. ~lost /\ (videos[u] # "absent" => load[l].list[u] # "absent")
      BY <1>8 DEF Applied, Listed
    <2>2. videos[u] # "absent" \/ Coming(u)
      BY <1>3, <1>8, <2>1 DEF Applied
    <2>3. CASE videos[u] # "absent"
      BY <1>8, <2>1, <2>3 DEF Applied
    <2>4. CASE Coming(u) /\ u = l
      BY <1>8, <2>4 DEF Applied, Coming
    <2>5. CASE Coming(u) /\ u # l
      BY <1>1, <1>8, <2>5 DEF Applied, Coming
    <2> QED
      BY <2>2, <2>3, <2>4, <2>5
  <1>9. ASSUME NEW p \in PollSlots, Polled(p) PROVE videos'[u] # "absent" \/ Coming(u)'
    <2>1. videos[u] # "absent" => videos'[u] # "absent"
      <3>1. poll[p][u] = "unasked" \/ poll[p][u] # "absent"
        BY DEF ListsInv, PollFits
      <3> QED
        BY <1>9, <3>1 DEF Polled
    <2> QED
      BY <1>3, <1>9, <2>1 DEF Polled, Coming
  <1> QED
    BY <1>4, <1>5, <1>6, <1>7, <1>8, <1>9, FinishMoves DEF Failed

LEMMA FinishInvStep ==
  ASSUME RowTypes, ListTypes, ListsInv, FinishInv, [Next]_vars
  PROVE  FinishInv'
  BY FinishedExists, LoadingIsOpen, FinishedComes DEF FinishInv, Listed

LEMMA FinishInvInit == Init => FinishInv
  <1> SUFFICES ASSUME Init PROVE FinishInv
    OBVIOUS
  <1>1. "mount" \in Loads /\ load["mount"].state = "sent"
    BY DEF Init, Loads
  <1>2. \A u \in Uploads : row[u] = "none"
    BY DEF Init, RowInit
  <1> QED
    BY <1>1, <1>2 DEF FinishInv, Open

\* No order of finished uploads and lists loses one: when no list is under
\* way and none was lost or came in out of turn, each is listed.
THEOREM FinishedTheorem == Spec => []FinishedIsListed
  <1>1. ListTypes /\ FinishInv => FinishedIsListed
    <2> SUFFICES ASSUME ListTypes, FinishInv, mounted, LoadsDone, ~lost
                 PROVE  ~isLoading /\ \A u \in Uploads : row[u] = "finished" => u \in Listed
      BY DEF FinishedIsListed
    <2>1. \A l \in Loads : ~Open(l)
      BY DEF LoadsDone, Open
    <2>2. \A u \in Uploads : ~Coming(u)
      BY DEF LoadsDone, Coming, Loads
    <2> QED
      BY <2>1, <2>2 DEF FinishInv
  <1>2. RowTypes /\ ListTypes /\ ListsInv /\ FinishInv /\ [Next]_vars => FinishInv'
    BY FinishInvStep
  <1> QED
    BY <1>1, <1>2, FinishInvInit, RowsKept, ListsKept, PTL DEF Spec

=============================================================================
