------------------------------ MODULE JobLease ------------------------------
(***************************************************************************)
(* What the workers may rely on about one job: who holds it, and for which *)
(* of its attempts each worker works.  HlsOutput is built on these steps;  *)
(* JobQueue implements them for every job.                                 *)
(***************************************************************************)
EXTENDS Naturals

CONSTANTS
    Workers,
    None, Gone,    \* no worker, and a worker that is no more
    MaxAttempts    \* max_attempts of the job

VARIABLES
    status,    \* of the job; where it is done, "skipped" if it wrote nothing
    owner,     \* worker_id
    attempts,  \* attempt_count
    working    \* the attempt each worker is at, 0 for none

leaseVars == <<status, owner, attempts, working>>

Owns(w) == status = "running" /\ owner = w

\* The attempt of w is over for w, whatever becomes of the job.
Ends(w) == working' = [working EXCEPT ![w] = 0]

LeaseInit ==
    /\ status = "pending" /\ owner = None /\ attempts = 0
    /\ working = [w \in Workers |-> 0]

Take(w) ==
    /\ working[w] = 0 /\ status = "pending" /\ attempts < MaxAttempts
    /\ status' = "running" /\ owner' = w /\ attempts' = attempts + 1
    /\ working' = [working EXCEPT ![w] = attempts + 1]

\* The job goes back to the queue, or is given up.
Release ==
    /\ status' = IF attempts < MaxAttempts THEN "pending" ELSE "failed"
    /\ owner' = None
    /\ UNCHANGED attempts

\* Only the owner, at work on the job, says how its attempt went.
Settle(w, to) ==
    /\ working[w] # 0 /\ Owns(w) /\ Ends(w)
    /\ to \in {"done", "skipped"}
    /\ status' = to /\ owner' = None /\ UNCHANGED attempts

Fail(w) == working[w] # 0 /\ Owns(w) /\ Ends(w) /\ Release

\* The reaper takes the job from its owner, at any time; a job that was never
\* allowed an attempt is given up when it would be claimed.
Withdraw ==
    /\ status \in {"pending", "running"}
    /\ status = "pending" => attempts >= MaxAttempts
    /\ Release /\ UNCHANGED working

\* A worker ends its attempt without a word.  It may still be the owner.
Leave(w) == Ends(w) /\ UNCHANGED <<status, owner, attempts>>

\* The process dies, at work or not; its worker_id is never used again.
Die(w) ==
    /\ owner' = IF owner = w THEN Gone ELSE owner
    /\ Ends(w) /\ UNCHANGED <<status, attempts>>

LeaseNext ==
    \/ Withdraw
    \/ \E w \in Workers :
          \/ Take(w) \/ Fail(w) \/ Leave(w) \/ Die(w)
          \/ \E to \in {"done", "skipped"} : Settle(w, to)

LeaseSpec == LeaseInit /\ [][LeaseNext]_leaseVars
=============================================================================
