--------------------------- MODULE VideoProgress ---------------------------
(***************************************************************************)
(* What the pages show of a video while it is encoded.  The API answers    *)
(* with the video's status and its renditions, which it reads by two       *)
(* statements of a READ COMMITTED transaction: transactions may commit     *)
(* between the two.  The table of uploads and the page of the video show   *)
(* either a badge or how many renditions are done, until the next answer.  *)
(***************************************************************************)
EXTENDS VideoFinalize, FiniteSets

ASSUME ProgressAssumption == IsFiniteSet(Renditions)

VARIABLES
    asked,    \* the status read by the first statement, or "nothing"
    answer    \* the answer on show, with no renditions while there is none

progressVars == <<vars, asked, answer>>

NoAnswer == [status |-> "pending", renditions |-> NoRows]

ProgressInit == Init /\ asked = "nothing" /\ answer = NoAnswer

\* SELECT the video ...
ReadVideo ==
    /\ asked = "nothing" /\ asked' = video.status
    /\ UNCHANGED <<vars, answer>>

\* ... and, by the loader of the relationship, its renditions.
ReadRenditions ==
    /\ asked # "nothing" /\ asked' = "nothing"
    /\ answer' = [status |-> asked, renditions |-> rendition]
    /\ UNCHANGED vars

ProgressNext == \/ Next /\ UNCHANGED <<asked, answer>>
                \/ ReadVideo
                \/ ReadRenditions

ProgressSpec == ProgressInit /\ [][ProgressNext]_progressVars

-----------------------------------------------------------------------------
\* renditionProgressFromRenditions.

\* Mutant of Relevant: a rendition that was skipped counts.
RelevantAll(st) == DOMAIN st

Relevant(st)  == {r \in DOMAIN st : st[r] # "skipped"}
Total(st)     == Cardinality(Relevant(st))
Completed(st) == Cardinality({r \in Relevant(st) : st[r] = "done"})

\* The label of a badge (statusLabels), and what the page of the video takes
\* a status for.
Badge == [done |-> "Done", failed |-> "Failed", processing |-> "Processing"]

MapStatus(status) ==
    IF status \in {"done", "failed"} THEN status ELSE "processing"

\* What the table and the page of the video write: a badge, or "Count", the
\* number of the renditions that are done.
TableLabel(status) ==
    IF status \in {"pending", "running", "partial"} THEN "Count" ELSE Badge[status]

DetailLabel(status) ==
    IF status \in {"pending", "running", "partial"} THEN "Count"
    ELSE Badge[MapStatus(status)]

SaysDone == "Done" \in {TableLabel(answer.status), DetailLabel(answer.status)}

CountIsFull ==
    Total(answer.renditions) > 0 /\ Completed(answer.renditions) = Total(answer.renditions)

-----------------------------------------------------------------------------
\* A page that says a video is done, by its badge or by counting n of n, never
\* says so too early, and a badge never contradicts the count beside it,
\* although transactions overlap and commit between the two statements of an
\* answer (get_video_state, list_videos; StatusCell, RenditionProgressLabel).
DoneIsCounted ==
    /\ SaysDone => CountIsFull
    /\ CountIsFull => \A r \in Renditions : rendition[r] \in {"done", "skipped"}
=============================================================================
