---------------------------- MODULE MCJobQueue ----------------------------
(***************************************************************************)
(* Small instances of JobQueue for TLC.                                    *)
(***************************************************************************)
EXTENDS JobQueue, TLC

CONSTANTS j1, j2

\* max_attempts: one job with a retry, one without.
TwoAndOne == (j1 :> 2) @@ (j2 :> 1)

\* WORKER_JOB_RETRY_COUNT may be 0 (settings.py: ge=0).
TwoAndZero == (j1 :> 2) @@ (j2 :> 0)

\* Two retries, for which OneTick has one entry: the second is past its end.
ThreeAndZero == (j1 :> 3) @@ (j2 :> 0)

\* JOB_RETRY_BACKOFF_SECONDS in ticks.
OneTick == <<1>>

\* Workers are interchangeable in every safety property.
Symmetry == Permutations(Workers)
===========================================================================
