----------------------------- MODULE UploadRow -----------------------------
(***************************************************************************)
(* What the upload dashboard may rely on about the controllers it creates: *)
(* the row each of them last reported, and when that row may change.  The  *)
(* dashboard is built on these steps; MultipartUpload implements them.     *)
(***************************************************************************)
CONSTANT Uploads

VARIABLES
    row,       \* the kind of row last passed to onChange
    cancelled  \* has cancel been called?

rowVars == <<row, cancelled>>

RowKind == {"none", "uploading", "retryable", "failed", "finished"}

CanCancel(u) == row[u] \in {"uploading", "retryable", "failed"}
CanRetry(u)  == row[u] = "retryable"

RowInit ==
    /\ row = [u \in Uploads |-> "none"]
    /\ cancelled = [u \in Uploads |-> FALSE]

Report(u, from, to) ==
    /\ row[u] = from
    /\ row' = [row EXCEPT ![u] = to]
    /\ UNCHANGED cancelled

RowBegin(u)  == Report(u, "none", "uploading")
RowFinish(u) == Report(u, "uploading", "finished")

\* A controller that has been cancelled no longer reports a failure, though
\* it may still report that the upload went through.
RowFail(u, to) == to \in {"retryable", "failed"} /\ ~cancelled[u] /\ Report(u, "uploading", to)
RowRetry(u)    == ~cancelled[u] /\ Report(u, "retryable", "uploading")

\* Cancel one upload, or all there are when the page is left.
RowCancel(S) ==
    /\ \A u \in S : CanCancel(u) /\ ~cancelled[u]
    /\ cancelled' = [u \in Uploads |-> cancelled[u] \/ u \in S]
    /\ UNCHANGED row

RowNext ==
    \/ \E u \in Uploads :
          \/ RowBegin(u) \/ RowFinish(u) \/ RowRetry(u)
          \/ \E to \in {"retryable", "failed"} : RowFail(u, to)
    \/ \E S \in SUBSET Uploads : RowCancel(S)

\* From the first report on, a controller's row never falls back to nothing,
\* a finished row stays finished, and only a row that offers a retry starts
\* to upload again.
RowSpec == RowInit /\ [][RowNext]_rowVars
=============================================================================
