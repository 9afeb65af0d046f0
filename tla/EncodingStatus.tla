------------------------- MODULE EncodingStatus -------------------------
(***************************************************************************)
(* The status vocabulary of renditions and videos, and the pure functions  *)
(* that summarise the statuses of a video's renditions.  The renditions of *)
(* one video are a function st from rendition to status.                   *)
(***************************************************************************)

\* The values of ProcessingStatus that the services give to a rendition ...
RenditionStatus == {"pending", "running", "done", "skipped", "failed"}

\* ... and to a video once its renditions exist.
VideoStatus == {"pending", "running", "partial", "done", "failed"}

Active   == {"pending", "running"}
Terminal == {"done", "skipped", "failed"}

StatusesOf(st) == {st[r] : r \in DOMAIN st}

\* The statuses that count: a skipped rendition does not.
Available(st) == StatusesOf(st) \ {"skipped"}

\* derive_video_status, its early returns as disjoint cases.
DeriveVideoStatus(st) ==
    CASE StatusesOf(st) = {}          -> "pending"
      [] StatusesOf(st) = {"skipped"} -> "failed"
      [] Available(st) = {"done"}     -> "done"
      [] {"failed", "done"} \subseteq Available(st)             -> "partial"
      [] "failed" \in Available(st) /\ "done" \notin Available(st)    -> "failed"
      [] "running" \in Available(st) /\ "failed" \notin Available(st) -> "running"
      [] Available(st) = {"pending", "done"} -> "partial"
      [] OTHER -> "pending"

\* _has_active_renditions: some encoding work is still to come.
HasActiveRenditions(st) == \E r \in DOMAIN st : st[r] \in Active

\* _completed_renditions: what the master playlist lists.  A done rendition
\* has an output path: the step that sets the one sets the other.
CompletedRenditions(st) == {r \in DOMAIN st : st[r] = "done"}
==========================================================================
