----------------------------- MODULE JobLedger -----------------------------
(***************************************************************************)
(* What the job queue promises, with the queue left out.  A job waits, is  *)
(* started (which spends an attempt), and each start ends in one of three  *)
(* ways: the job is done, it waits again because attempts are left, or it  *)
(* is given up because none are.  Nothing leaves done or failed.           *)
(***************************************************************************)
EXTENDS Naturals

CONSTANTS Jobs, MaxAttempts   \* job -> the attempts it is allowed

VARIABLE ledger   \* job -> its status and the attempts it has spent

Entry(s, n) == [status |-> s, attempts |-> n]

LedgerInit == ledger = [j \in Jobs |-> Entry("pending", 0)]

Start(j)  == /\ ledger[j].status = "pending"
             /\ ledger[j].attempts < MaxAttempts[j]
             /\ ledger'[j] = Entry("running", ledger[j].attempts + 1)

Complete(j) == /\ ledger[j].status = "running"
               /\ ledger'[j] = Entry("done", ledger[j].attempts)

Retry(j)  == /\ ledger[j].status = "running"
             /\ ledger[j].attempts < MaxAttempts[j]
             /\ ledger'[j] = Entry("pending", ledger[j].attempts)

\* A pending job is given up only if it was never allowed an attempt.
GiveUp(j) == /\ ledger[j].status \in {"pending", "running"}
             /\ ledger[j].attempts >= MaxAttempts[j]
             /\ ledger'[j] = Entry("failed", ledger[j].attempts)

JobStep(j) == Start(j) \/ Complete(j) \/ Retry(j) \/ GiveUp(j)

\* One transaction may move several jobs: the reaper works in batches.
LedgerNext ==
    /\ DOMAIN ledger' = Jobs
    /\ \A j \in Jobs : ledger'[j] = ledger[j] \/ JobStep(j)

LedgerSpec == LedgerInit /\ [][LedgerNext]_ledger
============================================================================
