------------------------------- MODULE JobRow -------------------------------
(***************************************************************************)
(* One row of vibecheck_jobs and the UPDATE statements that change it.     *)
(* A statement is a pair of operators: `XHits` is its WHERE clause and `X` *)
(* the row its SET clause produces.  A statement whose row breaks the      *)
(* table's CHECK (finished_at is set exactly on terminal rows) raises in   *)
(* the caller and changes nothing: `Commits` says which new rows survive.  *)
(*                                                                         *)
(* Attempt ids (uuid4 in the code) are numbers: only their equality is     *)
(* used, and 0 is the attempt the submit wrote into the row and into the   *)
(* Cloud Tasks envelope.  Section payloads are abstracted to where they    *)
(* came from: "result" (the analysis of the inputs) or "default" (the      *)
(* empty placeholder of _empty_section_data).                              *)
(***************************************************************************)
EXTENDS Naturals

CONSTANTS
    Slugs,        \* the sections of a job (SectionSlug)
    Dedup,        \* the section the dependent ones read (facts_claims__dedup)
    Dependents,   \* sections that run after Dedup in the fan-out
    Waiters,      \* dependents whose retry re-enqueues while Dedup is running
    InMemory,     \* sections whose handler reads only the payload of its caller,
                  \* never vibecheck_job_utterances (the safety sections)
    Polled        \* of these, the one that may answer "polling" (video moderation
                  \* under VIDEO_MODERATION_PROVIDER = video_intelligence)

ASSUME SlugsAssumption ==
    /\ Dedup \in Slugs
    /\ Dependents \subseteq Slugs \ {Dedup}
    /\ Waiters \subseteq Dependents
    /\ InMemory \subseteq Slugs \ (Dependents \union {Dedup})
    /\ Polled \subseteq InMemory

NonTerminal == {"pending", "extracting", "analyzing"}
Finalized   == {"done", "partial"}
Terminal    == Finalized \union {"failed"}
Independent == Slugs \ Dependents
Envelope    == 0

Slot   == [state : {"none", "running", "done", "failed"},
           id : Nat, data : {"none", "result", "default"}]
NoSlot == [state |-> "none", id |-> 0, data |-> "none"]

\* sidebar_payload is the snapshot of the sections it was assembled from; NULL
\* is the snapshot of a row without sections, which finalize never assembles.
NoPayload == [s \in Slugs |-> NoSlot]

Codes == {"none", "timeout", "section_failure", "internal", "upstream_error", "extraction_failed"}

Row == [status : NonTerminal \union Terminal, attempt : Nat, finished : BOOLEAN,
        code : Codes, slots : [Slugs -> Slot], payload : [Slugs -> Slot],
        transients : Nat, utterances : BOOLEAN]

\* The row as handle_locked_submit inserts it.
NewRow == [status |-> "pending", attempt |-> Envelope, finished |-> FALSE,
           code |-> "none", slots |-> NoPayload, payload |-> NoPayload,
           transients |-> 0, utterances |-> FALSE]

\* CHECK vibecheck_jobs_terminal_finished_at.
Commits(r) == r.finished <=> r.status \in Terminal

Settled(slot) == slot.state \in {"done", "failed"}

-----------------------------------------------------------------------------
(* Job-level statements of the orchestrator.  An operator marked `fault:` is
   not part of the specification: it is a slip the properties must notice. *)

ClaimHitsActive(r, expected) == r.status \in NonTerminal     \* fault: a lax WHERE
ClaimHits(r, expected) == r.attempt = expected /\ r.status = "pending"
Claim(r, fresh) == [r EXCEPT !.status = "extracting", !.attempt = fresh]

\* The job-level CAS every later statement of an attempt carries.
OwnedBy(r, attempt) == r.attempt = attempt

\* fault: also clears finished_at, so that the CHECK accepts a terminal row
ResetClearingFinish(r, expected) ==
    [r EXCEPT !.status = "pending", !.attempt = expected, !.finished = FALSE]
\* fault: leaves the attempt of the worker that gave up
ResetKeepingAttempt(r, expected) == [r EXCEPT !.status = "pending"]
ResetForRetry(r, expected) == [r EXCEPT !.status = "pending", !.attempt = expected]

MarkFailed(r, code) == [r EXCEPT !.status = "failed", !.code = code, !.finished = TRUE]

SetAnalyzing(r) == [r EXCEPT !.status = "analyzing"]

IncrementTransients(r) == [r EXCEPT !.transients = @ + 1]

PersistUtterances(r) == [r EXCEPT !.utterances = TRUE]

-----------------------------------------------------------------------------
(* Section-level statements (slots.py). *)

\* write_slot: guarded by the job attempt only.
WriteSlotHitsAnyAttempt(r, attempt) == TRUE                  \* fault: no CAS
WriteSlotHits(r, attempt) == OwnedBy(r, attempt)
WriteSlot(r, s, slot) == [r EXCEPT !.slots[s] = slot]

\* fault: without the state guard
FinalizeSlotHitsAnyState(r, attempt, s, id) ==
    OwnedBy(r, attempt) /\ r.status \in NonTerminal /\ r.slots[s].id = id
\* mark_slot_done and mark_slot_failed: the full write contract.
FinalizeSlotHits(r, attempt, s, id) ==
    /\ OwnedBy(r, attempt)
    /\ r.status \in NonTerminal
    /\ r.slots[s].id = id
    /\ r.slots[s].state = "running"

\* retry_claim_slot: re-opens the row for one failed section.
RetryClaimHitsBlind(r, s, prior) == TRUE                     \* fault: no CAS
RetryClaimHits(r, s, prior) == r.slots[s].state = "failed" /\ r.slots[s].id = prior
\* fault: the payload of the earlier run survives
RetryClaimKeepingPayload(r, s, fresh) ==
    [r EXCEPT !.slots[s] = [state |-> "running", id |-> fresh, data |-> "none"],
              !.status = "analyzing", !.code = "none", !.finished = FALSE]
RetryClaim(r, s, fresh) ==
    [r EXCEPT !.slots[s] = [state |-> "running", id |-> fresh, data |-> "none"],
              !.status = "analyzing", !.code = "none", !.finished = FALSE,
              !.payload = NoPayload]

\* _revert_slot_after_enqueue_failure: the prior failed snapshot, and no more.
RevertSlotHits(r, s, claimed) == r.slots[s].id = claimed /\ r.status \in NonTerminal
RevertSlot(r, s, prior) ==
    [r EXCEPT !.slots[s] = [state |-> "failed", id |-> prior, data |-> "none"]]

-----------------------------------------------------------------------------
(* Finalization, the sweeper and the submit's own error path. *)

AllSettled(r) == \A s \in Slugs : Settled(r.slots[s])
NoneRunning(r) == \A s \in Slugs : r.slots[s].state # "running"
FailedSlugs(r) == {s \in Slugs : r.slots[s].state = "failed"}

\* maybe_finalize_job under SELECT ... FOR UPDATE: a settled row it assembles.
FinalizeHitsMissing(r, attempt) ==                           \* fault: a missing slot
    OwnedBy(r, attempt) /\ r.status \in NonTerminal /\ NoneRunning(r)
FinalizeHits(r, attempt) ==
    OwnedBy(r, attempt) /\ r.status \in NonTerminal /\ AllSettled(r)
Finalize(r) ==
    [r EXCEPT !.status = IF FailedSlugs(r) = {} THEN "done" ELSE "partial",
              !.code = IF FailedSlugs(r) = {} THEN "none" ELSE "section_failure",
              !.payload = r.slots, !.finished = TRUE]

SweepOrphan(r) == [r EXCEPT !.status = "failed", !.code = "timeout", !.finished = TRUE]

MarkFailedEnqueue(r) == [r EXCEPT !.status = "failed", !.code = "internal", !.finished = TRUE]
=============================================================================
