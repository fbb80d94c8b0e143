---------------------------- MODULE JobLifecycle ----------------------------
(***************************************************************************)
(* What a client polling GET /analyze/{job_id} may observe of one job: its *)
(* status and whether the answer carries a sidebar payload.  This is the   *)
(* abstract specification that VibecheckJob implements: attempts, slots,   *)
(* deliveries, workers and retries in progress are hidden.                 *)
(***************************************************************************)
EXTENDS Naturals

VARIABLES
    status,     \* vibecheck_jobs.status
    answered    \* is sidebar_payload set?

lifecycle == <<status, answered>>

Working == {"extracting", "analyzing"}
Ended   == {"done", "partial", "failed"}

Init == status = "pending" /\ answered = FALSE

\* A worker takes the job.
Take == status = "pending" /\ status' = "extracting" /\ UNCHANGED answered

\* Extraction succeeded.
Analyze == status = "extracting" /\ status' = "analyzing" /\ UNCHANGED answered

\* A transient failure hands the job back, and only from a working status.
GiveBack == status \in Working /\ status' = "pending" /\ UNCHANGED answered

\* The only step that produces an answer; it ends an unfinished job.
Complete == /\ status \notin Ended /\ status' \in {"done", "partial"}
            /\ answered' = TRUE

\* An error, or the sweeper.  An ended job may still be failed by a late worker,
\* and then keeps the answer it had.
Fail == status' = "failed" /\ UNCHANGED answered

\* The only step out of an ended status: a user retries a section.  The gate of a
\* retry is a snapshot, so by its claim the job may already be open again.
Reopen == status' = "analyzing" /\ answered' = FALSE

Next == Take \/ Analyze \/ GiveBack \/ Complete \/ Fail \/ Reopen

Spec == Init /\ [][Next]_lifecycle
=============================================================================
