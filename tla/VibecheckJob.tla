---------------------------- MODULE VibecheckJob ----------------------------
(***************************************************************************)
(* The asynchronous analysis of one submitted URL: the job row, the Cloud  *)
(* Tasks deliveries that drive it, the workers executing them, the retry   *)
(* endpoint, the video-moderation poll and the orphan sweeper.             *)
(*                                                                         *)
(* A worker action is one database round trip of the handler it executes,  *)
(* together with the computation up to it: between two actions of a worker *)
(* every other actor may move the row.  Handler results, upstream errors   *)
(* and database errors are nondeterministic.                               *)
(***************************************************************************)
EXTENDS JobRow, FiniteSets

CONSTANTS
    Workers,        \* concurrent request handlers of the internal endpoints
    Clickers,       \* concurrent requests on POST /analyze/{job}/retry/{slug}
    MaxDeliveries,  \* max_attempts of the Cloud Tasks queue
    MaxTransients,  \* EXTRACT_TRANSIENT_MAX_ATTEMPTS
    MaxRetries,     \* bound: retry requests past their gate
    MaxFaults,      \* bound: database errors and lost acknowledgements explored
    MaxStalls       \* bound: sweeps of a job whose worker is alive but silent

ASSUME BoundsAssumption ==
    /\ MaxDeliveries \in Nat \ {0} /\ MaxTransients \in Nat \ {0}
    /\ MaxRetries \in Nat /\ MaxFaults \in Nat /\ MaxStalls \in Nat

VARIABLES
    row,       \* the vibecheck_jobs row
    cache,     \* sidebar_payload of the URL's vibecheck_analyses row
    queue,     \* Cloud Tasks: [task, left], left = deliveries still allowed
    worker,    \* what each request handler is doing
    orphans,   \* section coroutines whose request has already been answered
    click,     \* what each retry request is doing
    submit,    \* the submitting request: "enqueue", "raised" or "done"
    attempts,  \* job attempt ids minted so far (uuid4)
    minted,    \* slot attempt ids minted so far, per section (uuid4)
    retries, faults, stalls   \* how much of each bound is used

vars == <<row, cache, queue, worker, orphans, click, submit, attempts, minted,
          retries, faults, stalls>>

-----------------------------------------------------------------------------
(* Cloud Tasks. *)

RunTask == [kind |-> "run", slug |-> Dedup, id |-> 0, attempt |-> Envelope]
SectionTask(s, id) == [kind |-> "section", slug |-> s, id |-> id, attempt |-> Envelope]
PollTask(s, id, attempt) == [kind |-> "poll", slug |-> s, id |-> id, attempt |-> attempt]

Task == [kind : {"run", "section", "poll"}, slug : Slugs, id : Nat, attempt : Nat]

\* create_task.  A task re-created under a new name replaces the delivery at hand.
Without(q, t) == {e \in q : e.task # t}
Push(q, t) == Without(q, t) \union {[task |-> t, left |-> MaxDeliveries]}

\* One delivery of e: the queue allows MaxDeliveries of them, of which two may
\* overlap (at-least-once).  Only an acknowledgement removes the task earlier.
Delivered(q, e) == (q \ {e}) \union
    (IF e.left > 1 THEN {[e EXCEPT !.left = @ - 1]} ELSE {})

-----------------------------------------------------------------------------
(* Workers. *)

Stages == {"extract", "persist", "setAnalyzing", "sections", "synthesize", "finalize",
           "reset", "markFailed", "handler", "rerun", "slotFail", "poll"}

Idle == [pc |-> "idle", task |-> RunTask, attempt |-> Envelope,
         todo |-> {}, dedup |-> "none", broken |-> FALSE]

WorkerState == [pc : Stages \union {"idle"}, task : Task, attempt : Nat, todo : SUBSET Slugs,
                dedup : {"none", "done", "failed"}, broken : BOOLEAN]

Started(t, pc, attempt) == [Idle EXCEPT !.pc = pc, !.task = t, !.attempt = attempt]

\* Handlers that run the heartbeat loop: run_job and run_section_retry.
Beating == \E w \in Workers :
    /\ worker[w].pc # "idle"
    /\ worker[w].task.kind \in {"run", "section"}
    /\ worker[w].attempt = row.attempt

Goto(w, pc) == worker' = [worker EXCEPT ![w].pc = pc]
Answer(w)   == worker' = [worker EXCEPT ![w] = Idle]

\* 200: Cloud Tasks deletes the task.  503 and 500 leave it to be redelivered.
Ack(w)  == Answer(w) /\ queue' = Without(queue, worker[w].task)
Nack(w) == Answer(w) /\ UNCHANGED queue

\* A database error, or an acknowledgement lost after the call took effect.
Fault == faults < MaxFaults /\ faults' = faults + 1

Init ==
    /\ row = NewRow
    /\ cache = NoPayload
    /\ queue = {}
    /\ worker = [w \in Workers |-> Idle]
    /\ orphans = {}
    /\ click = [c \in Clickers |-> [pc |-> "idle", slug |-> Dedup, prior |-> 0, claimed |-> 0]]
    /\ submit = "enqueue"
    /\ attempts = 0
    /\ minted = [s \in Slugs |-> 0]
    /\ retries = 0 /\ faults = 0 /\ stalls = 0

-----------------------------------------------------------------------------
(* POST /analyze after its insert committed: enqueue, or flip the row to   *)
(* failed.  create_task may fail after the task exists.                    *)

EnqueueJob ==
    /\ submit = "enqueue"
    /\ submit' = "done"
    /\ queue' = Push(queue, RunTask)
    /\ UNCHANGED <<row, cache, worker, orphans, click, attempts, minted, retries, faults, stalls>>

EnqueueJobRaises ==
    /\ submit = "enqueue"
    /\ submit' = "raised"
    /\ \/ UNCHANGED <<queue, faults>>
       \/ Fault /\ queue' = Push(queue, RunTask)
    /\ UNCHANGED <<row, cache, worker, orphans, click, attempts, minted, retries, stalls>>

MarkEnqueueFailed ==
    /\ submit = "raised"
    /\ submit' = "done"
    /\ row' = MarkFailedEnqueue(row)
    /\ UNCHANGED <<cache, queue, worker, orphans, click, attempts, minted, retries, faults, stalls>>

-----------------------------------------------------------------------------
(* run_job: claim, pipeline and exits. *)

\* _claim_job, the first statement of a run delivery.
ClaimJob(w, e) ==
    /\ worker[w].pc = "idle" /\ e.task.kind = "run"
    /\ ClaimHits(row, Envelope)
    /\ attempts' = attempts + 1
    /\ row' = Claim(row, attempts')
    /\ worker' = [worker EXCEPT ![w] = Started(e.task, "extract", attempts')]
    /\ queue' = Delivered(queue, e)
    /\ UNCHANGED <<cache, orphans, click, submit, minted, retries, faults, stalls>>

\* A claim that misses is answered 200.
StaleRun(e) ==
    /\ e.task.kind = "run"
    /\ ~ClaimHits(row, Envelope)
    /\ queue' = Without(queue, e.task)
    /\ UNCHANGED <<row, cache, worker, orphans, click, submit, attempts, minted,
                   retries, faults, stalls>>

\* Scrape and extraction: success, an error classified as transient or terminal.
Extracted(w) ==
    /\ worker[w].pc = "extract"
    /\ \E pc \in {"persist", "reset", "markFailed"} : Goto(w, pc)
    /\ UNCHANGED <<row, cache, queue, orphans, click, submit, attempts, minted,
                   retries, faults, stalls>>

\* TransientExtractionError: the in-row counter decides between the two exits.
ExhaustedLate(n) == n > MaxTransients                        \* fault: off by one
Exhausted(n) == n >= MaxTransients
ExtractTransient(w) ==
    /\ worker[w].pc = "extract"
    /\ IF OwnedBy(row, worker[w].attempt)
       THEN /\ row' = IncrementTransients(row)
            /\ Goto(w, IF Exhausted(row'.transients) THEN "markFailed" ELSE "reset")
       ELSE Goto(w, "reset") /\ UNCHANGED row
    /\ UNCHANGED <<cache, queue, orphans, click, submit, attempts, minted, retries, faults, stalls>>

\* persist_utterances; on attempt drift HandlerSuperseded, answered 200.
Persist(w) ==
    /\ worker[w].pc = "persist"
    /\ IF OwnedBy(row, worker[w].attempt)
       THEN row' = PersistUtterances(row) /\ Goto(w, "setAnalyzing") /\ UNCHANGED queue
       ELSE Ack(w) /\ UNCHANGED row
    /\ UNCHANGED <<cache, orphans, click, submit, attempts, minted, retries, faults, stalls>>

\* _set_analyzing ignores its row count; on a swept row the CHECK raises.
FanOut(w) ==
    worker' = [worker EXCEPT ![w].pc = "sections", ![w].todo = Slugs]
SetAnalyzingStep(w) ==
    /\ worker[w].pc = "setAnalyzing"
    /\ IF ~OwnedBy(row, worker[w].attempt)
       THEN FanOut(w) /\ UNCHANGED row
       ELSE IF Commits(SetAnalyzing(row))
            THEN row' = SetAnalyzing(row) /\ FanOut(w)
            ELSE Goto(w, "reset") /\ UNCHANGED row
    /\ UNCHANGED <<cache, queue, orphans, click, submit, attempts, minted, retries, faults, stalls>>

\* Sections whose coroutine exists: dependents start when dedup came back done.
Running(w) == {s \in worker[w].todo : s \in Independent \/ worker[w].dedup = "done"}

\* The outcomes of one section and the slot they leave.
SectionResults(s) ==
    {[state |-> "done", data |-> "result"], [state |-> "failed", data |-> "none"]}
    \union (IF s \in Polled THEN {[state |-> "running", data |-> "none"]} ELSE {})
SlotOf(result, id) == [state |-> result.state, id |-> id, data |-> result.data]

\* _run_section up to its write_slot, and the poll it enqueues for "polling".
RunSection(w, s) ==
    /\ worker[w].pc = "sections" /\ s \in Running(w)
    /\ WriteSlotHits(row, worker[w].attempt)
    /\ minted' = [minted EXCEPT ![s] = @ + 1]
    /\ \E result \in SectionResults(s) :
         /\ row' = WriteSlot(row, s, SlotOf(result, minted'[s]))
         /\ worker' = [worker EXCEPT ![w].todo = @ \ {s},
                                     ![w].dedup = IF s = Dedup THEN result.state ELSE @]
         /\ queue' = IF result.state = "running"
                     THEN Push(queue, PollTask(s, minted'[s], worker[w].attempt))
                     ELSE queue
    /\ UNCHANGED <<cache, orphans, click, submit, attempts, retries, faults, stalls>>

\* The write misses its CAS, or the statement raises.
SectionRaises(w, s) ==
    /\ worker[w].pc = "sections" /\ s \in Running(w)
    /\ IF WriteSlotHits(row, worker[w].attempt) THEN Fault ELSE UNCHANGED faults
    /\ worker' = [worker EXCEPT ![w].todo = @ \ {s}, ![w].broken = TRUE]
    /\ UNCHANGED <<row, cache, queue, orphans, click, submit, attempts, minted, retries, stalls>>

\* The poll's create_task raises once the running slot is committed.
PollEnqueueRaises(w, s) ==
    /\ worker[w].pc = "sections" /\ s \in Running(w) \intersect Polled
    /\ WriteSlotHits(row, worker[w].attempt) /\ Fault
    /\ minted' = [minted EXCEPT ![s] = @ + 1]
    /\ row' = WriteSlot(row, s, [state |-> "running", id |-> minted'[s], data |-> "none"])
    /\ worker' = [worker EXCEPT ![w].todo = @ \ {s}, ![w].broken = TRUE]
    /\ \/ UNCHANGED queue
       \/ queue' = Push(queue, PollTask(s, minted'[s], worker[w].attempt))
    /\ UNCHANGED <<cache, orphans, click, submit, attempts, retries, stalls>>

\* gather re-raises once dedup was awaited; the siblings are not cancelled.
AbortFanOut(w) ==
    /\ worker[w].pc = "sections" /\ worker[w].broken /\ Dedup \notin worker[w].todo
    /\ orphans' = orphans \union {[attempt |-> worker[w].attempt, slug |-> s] : s \in Running(w)}
    /\ worker' = [worker EXCEPT ![w].pc = "reset", ![w].todo = {}]
    /\ UNCHANGED <<row, cache, queue, click, submit, attempts, minted, retries, faults, stalls>>

\* Dedup failed: dependents get their empty defaults, one write each, best effort.
WriteDefault(w, s) ==
    /\ worker[w].pc = "sections" /\ ~worker[w].broken
    /\ worker[w].dedup = "failed" /\ worker[w].todo \subseteq Dependents /\ s \in worker[w].todo
    /\ minted' = [minted EXCEPT ![s] = @ + 1]
    /\ worker' = [worker EXCEPT ![w].todo = @ \ {s}]
    /\ \/ /\ WriteSlotHits(row, worker[w].attempt)
          /\ row' = WriteSlot(row, s, [state |-> "done", id |-> minted'[s], data |-> "default"])
          /\ UNCHANGED faults
       \/ ~WriteSlotHits(row, worker[w].attempt) /\ UNCHANGED <<row, faults>>
       \/ Fault /\ UNCHANGED row
    /\ UNCHANGED <<cache, queue, orphans, click, submit, attempts, retries, stalls>>

FanOutDone(w) ==
    /\ worker[w].pc = "sections" /\ ~worker[w].broken /\ worker[w].todo = {}
    /\ Goto(w, "synthesize")
    /\ UNCHANGED <<row, cache, queue, orphans, click, submit, attempts, minted,
                   retries, faults, stalls>>

\* A sibling that outlived its request writes its slot.
OrphanSection(o) ==
    /\ orphans' = orphans \ {o}
    /\ minted' = [minted EXCEPT ![o.slug] = @ + 1]
    /\ IF WriteSlotHits(row, o.attempt)
       THEN \E result \in SectionResults(o.slug) :
              /\ row' = WriteSlot(row, o.slug, SlotOf(result, minted'[o.slug]))
              /\ queue' = IF result.state = "running"
                          THEN Push(queue, PollTask(o.slug, minted'[o.slug], o.attempt))
                          ELSE queue
       ELSE UNCHANGED <<row, queue>>
    /\ UNCHANGED <<cache, worker, click, submit, attempts, retries, faults, stalls>>

\* Safety recommendation, headline, weather, overall: best effort.
Synthesize(w) ==
    /\ worker[w].pc = "synthesize"
    /\ Goto(w, "finalize")
    /\ UNCHANGED <<row, cache, queue, orphans, click, submit, attempts, minted,
                   retries, faults, stalls>>

\* maybe_finalize_job: one transaction; whatever it answers, the handler says 200.
FinalizeStep(w) ==
    /\ worker[w].pc = "finalize"
    /\ IF FinalizeHits(row, worker[w].attempt)
       THEN row' = Finalize(row) /\ cache' = row'.payload
       ELSE UNCHANGED <<row, cache>>
    /\ Ack(w)
    /\ UNCHANGED <<orphans, click, submit, attempts, minted, retries, faults, stalls>>

\* A database error in a step that does not handle it: run_job resets, a
\* section retry marks its slot failed, a poll answers 500.
StepRaises(w) ==
    /\ worker[w].pc \in {"persist", "setAnalyzing", "synthesize", "finalize"}
    /\ Fault
    /\ IF worker[w].task.kind = "poll" THEN Nack(w)
       ELSE /\ Goto(w, IF worker[w].task.kind = "run" THEN "reset" ELSE "slotFail")
            /\ UNCHANGED queue
    /\ UNCHANGED <<row, cache, orphans, click, submit, attempts, minted, retries, stalls>>

\* _reset_for_retry, then 503; refused by the CHECK on a terminal row, then 500.
ResetStep(w) ==
    /\ worker[w].pc = "reset"
    /\ row' = IF OwnedBy(row, worker[w].attempt) /\ Commits(ResetForRetry(row, Envelope))
              THEN ResetForRetry(row, Envelope) ELSE row
    /\ Nack(w)
    /\ UNCHANGED <<cache, orphans, click, submit, attempts, minted, retries, faults, stalls>>

\* _mark_failed for a TerminalError, then 200.
MarkFailedStep(w) ==
    /\ worker[w].pc = "markFailed"
    /\ row' = IF ~OwnedBy(row, worker[w].attempt) THEN row
              ELSE MarkFailed(row, IF Exhausted(row.transients)
                                   THEN "upstream_error" ELSE "extraction_failed")
    /\ Ack(w)
    /\ UNCHANGED <<cache, orphans, click, submit, attempts, minted, retries, faults, stalls>>

-----------------------------------------------------------------------------
(* run_section_retry. *)

CurrentSlot(t) == row.slots[t.slug].state = "running" /\ row.slots[t.slug].id = t.id

\* TrendsDependenciesNotReadyError is raised before any work is done.
NotReady(t) == t.slug \in Waiters /\ row.slots[Dedup].state = "running"

StartSection(w, e) ==
    /\ worker[w].pc = "idle" /\ e.task.kind = "section"
    /\ CurrentSlot(e.task) /\ ~NotReady(e.task)
    /\ worker' = [worker EXCEPT ![w] = Started(e.task, "handler", row.attempt)]
    /\ queue' = Delivered(queue, e)
    /\ UNCHANGED <<row, cache, orphans, click, submit, attempts, minted, retries, faults, stalls>>

StaleSection(e) ==
    /\ e.task.kind \in {"section", "poll"}
    /\ ~CurrentSlot(e.task)
    /\ queue' = Without(queue, e.task)
    /\ UNCHANGED <<row, cache, worker, orphans, click, submit, attempts, minted,
                   retries, faults, stalls>>

\* Recorded in the slot and re-enqueued under the next wait name.
WaitForDedup(e) ==
    /\ e.task.kind = "section"
    /\ CurrentSlot(e.task) /\ NotReady(e.task)
    /\ queue' = Push(queue, e.task)
    /\ UNCHANGED <<row, cache, worker, orphans, click, submit, attempts, minted,
                   retries, faults, stalls>>

\* The handler gets payload = None: one that reads only that analyses nothing.
RetryData(s) == IF s \in InMemory THEN "default" ELSE "result"

\* mark_slot_done; a miss is answered 200.
SectionDone(w) ==
    LET t == worker[w].task
        slot == [state |-> "done", id |-> t.id, data |-> RetryData(t.slug)] IN
    /\ worker[w].pc = "handler"
    /\ IF FinalizeSlotHits(row, worker[w].attempt, t.slug, t.id)
       THEN /\ row' = WriteSlot(row, t.slug, slot)
            /\ worker' = [worker EXCEPT
                 ![w].pc = IF t.slug = Dedup THEN "rerun" ELSE "synthesize",
                 ![w].todo = IF t.slug = Dedup THEN Dependents ELSE {}]
            /\ UNCHANGED queue
       ELSE Ack(w) /\ UNCHANGED row
    /\ UNCHANGED <<cache, orphans, click, submit, attempts, minted, retries, faults, stalls>>

HandlerRaises(w) ==
    /\ worker[w].pc = "handler"
    /\ Goto(w, "slotFail")
    /\ UNCHANGED <<row, cache, queue, orphans, click, submit, attempts, minted,
                   retries, faults, stalls>>

\* A retried dedup re-runs its dependents through _run_section.
RerunDependent(w, s) ==
    /\ worker[w].pc = "rerun" /\ s \in worker[w].todo
    /\ IF WriteSlotHits(row, worker[w].attempt)
       THEN /\ minted' = [minted EXCEPT ![s] = @ + 1]
            /\ \E result \in SectionResults(s) :
                 row' = WriteSlot(row, s, SlotOf(result, minted'[s]))
            /\ worker' = [worker EXCEPT ![w].todo = @ \ {s}]
       ELSE Goto(w, "slotFail") /\ UNCHANGED <<row, minted>>
    /\ UNCHANGED <<cache, queue, orphans, click, submit, attempts, retries, faults, stalls>>

RerunDone(w) ==
    /\ worker[w].pc = "rerun" /\ worker[w].todo = {}
    /\ Goto(w, "synthesize")
    /\ UNCHANGED <<row, cache, queue, orphans, click, submit, attempts, minted,
                   retries, faults, stalls>>

\* mark_slot_failed, then 503; the job is not finalized.
SlotFailStep(w) ==
    LET t == worker[w].task
        slot == [state |-> "failed", id |-> t.id, data |-> "none"] IN
    /\ worker[w].pc = "slotFail"
    /\ row' = IF FinalizeSlotHits(row, worker[w].attempt, t.slug, t.id)
              THEN WriteSlot(row, t.slug, slot) ELSE row
    /\ Nack(w)
    /\ UNCHANGED <<cache, orphans, click, submit, attempts, minted, retries, faults, stalls>>

-----------------------------------------------------------------------------
(* video_moderation_poll. *)

StartPoll(w, e) ==
    /\ worker[w].pc = "idle" /\ e.task.kind = "poll"
    /\ CurrentSlot(e.task)
    /\ worker' = [worker EXCEPT ![w] = Started(e.task, "poll", e.task.attempt)]
    /\ queue' = Delivered(queue, e)
    /\ UNCHANGED <<row, cache, orphans, click, submit, attempts, minted, retries, faults, stalls>>

\* Operations pending: poll again under a new task.
PollPending(w) ==
    /\ worker[w].pc = "poll"
    /\ Answer(w) /\ queue' = Push(queue, worker[w].task)
    /\ UNCHANGED <<row, cache, orphans, click, submit, attempts, minted, retries, faults, stalls>>

PollRaises(w) ==
    /\ worker[w].pc = "poll"
    /\ Nack(w)
    /\ UNCHANGED <<row, cache, orphans, click, submit, attempts, minted, retries, faults, stalls>>

\* All operations answered, or the wait is over: write the slot, then finalize.
PollWrites(w) ==
    LET t == worker[w].task IN
    /\ worker[w].pc = "poll"
    /\ \E result \in SectionResults(t.slug) :
         /\ result.state # "running"
         /\ row' = IF FinalizeSlotHits(row, worker[w].attempt, t.slug, t.id)
                   THEN WriteSlot(row, t.slug, SlotOf(result, t.id)) ELSE row
    /\ Goto(w, "finalize")
    /\ UNCHANGED <<cache, queue, orphans, click, submit, attempts, minted, retries, faults, stalls>>

-----------------------------------------------------------------------------
(* POST /analyze/{job_id}/retry/{slug}. *)

\* The gate: one SELECT, then no lock until the claim.
RetryGate(c, s) ==
    /\ click[c].pc = "idle" /\ retries < MaxRetries /\ retries' = retries + 1
    /\ row.utterances /\ row.status \in Terminal /\ row.slots[s].state = "failed"
    /\ click' = [click EXCEPT ![c] = [pc |-> "claim", slug |-> s,
                                      prior |-> row.slots[s].id, claimed |-> 0]]
    /\ UNCHANGED <<row, cache, queue, worker, orphans, submit, attempts, minted,
                   faults, stalls>>

ClickIdle(c) == click' = [click EXCEPT ![c] = [pc |-> "idle", slug |-> Dedup,
                                               prior |-> 0, claimed |-> 0]]

RetryClaimStep(c) ==
    LET s == click[c].slug IN
    /\ click[c].pc = "claim"
    /\ IF RetryClaimHits(row, s, click[c].prior)
       THEN /\ minted' = [minted EXCEPT ![s] = @ + 1]
            /\ row' = RetryClaim(row, s, minted'[s])
            /\ click' = [click EXCEPT ![c].pc = "enqueue", ![c].claimed = minted'[s]]
       ELSE ClickIdle(c) /\ UNCHANGED <<row, minted>>
    /\ UNCHANGED <<cache, queue, worker, orphans, submit, attempts, retries, faults, stalls>>

RetryEnqueue(c) ==
    /\ click[c].pc = "enqueue"
    /\ queue' = Push(queue, SectionTask(click[c].slug, click[c].claimed))
    /\ ClickIdle(c)
    /\ UNCHANGED <<row, cache, worker, orphans, submit, attempts, minted, retries, faults, stalls>>

\* create_task raises, perhaps after creating the task.
RetryEnqueueRaises(c) ==
    /\ click[c].pc = "enqueue"
    /\ click' = [click EXCEPT ![c].pc = "revert"]
    /\ \/ UNCHANGED <<queue, faults>>
       \/ Fault /\ queue' = Push(queue, SectionTask(click[c].slug, click[c].claimed))
    /\ UNCHANGED <<row, cache, worker, orphans, submit, attempts, minted, retries, stalls>>

RetryRevert(c) ==
    /\ click[c].pc = "revert"
    /\ row' = IF RevertSlotHits(row, click[c].slug, click[c].claimed)
              THEN RevertSlot(row, click[c].slug, click[c].prior) ELSE row
    /\ ClickIdle(c)
    /\ UNCHANGED <<cache, queue, worker, orphans, submit, attempts, minted, retries, faults, stalls>>

-----------------------------------------------------------------------------
(* The environment. *)

\* vibecheck_sweep_orphan_jobs: a pending job past its age, an active one whose
\* heartbeat is stale.  No heartbeat is fresh for long unless a worker beats.
SweepablePending == row.status = "pending"                   \* fault: one tier only
Sweepable == row.status \in NonTerminal /\ (row.status = "pending" \/ ~Beating)
Sweep ==
    /\ Sweepable
    /\ row' = SweepOrphan(row)
    /\ UNCHANGED <<cache, queue, worker, orphans, click, submit, attempts, minted,
                   retries, faults, stalls>>

\* The heartbeat loop is alive but its updates do not land for 30 s.
SweepStalled ==
    /\ row.status \in NonTerminal \ {"pending"} /\ Beating
    /\ stalls < MaxStalls /\ stalls' = stalls + 1
    /\ row' = SweepOrphan(row)
    /\ UNCHANGED <<cache, queue, worker, orphans, click, submit, attempts, minted, retries, faults>>

\* The process dies, or the dispatch deadline passes before any answer.
Crash(w) ==
    /\ worker[w].pc # "idle"
    /\ Nack(w)
    /\ UNCHANGED <<row, cache, orphans, click, submit, attempts, minted, retries, faults, stalls>>

\* A delivery that reaches no handler still counts against max_attempts.
LoseDelivery(e) ==
    /\ queue' = Delivered(queue, e)
    /\ UNCHANGED <<row, cache, worker, orphans, click, submit, attempts, minted,
                   retries, faults, stalls>>

-----------------------------------------------------------------------------
Deliver(w) == \E e \in queue : ClaimJob(w, e) \/ StartSection(w, e) \/ StartPoll(w, e)
DropStale  == \E e \in queue : StaleRun(e) \/ StaleSection(e)

WorkerStep(w) ==
    \/ Extracted(w) \/ ExtractTransient(w) \/ Persist(w) \/ SetAnalyzingStep(w)
    \/ \E s \in Slugs : RunSection(w, s) \/ SectionRaises(w, s) \/ PollEnqueueRaises(w, s)
                        \/ WriteDefault(w, s) \/ RerunDependent(w, s)
    \/ AbortFanOut(w) \/ FanOutDone(w) \/ Synthesize(w) \/ FinalizeStep(w)
    \/ StepRaises(w) \/ ResetStep(w) \/ MarkFailedStep(w)
    \/ SectionDone(w) \/ HandlerRaises(w) \/ RerunDone(w) \/ SlotFailStep(w)
    \/ PollPending(w) \/ PollRaises(w) \/ PollWrites(w)

ClickStep(c) == \/ \E s \in Slugs : RetryGate(c, s)
                \/ RetryClaimStep(c) \/ RetryEnqueue(c) \/ RetryEnqueueRaises(c) \/ RetryRevert(c)

SubmitStep == EnqueueJob \/ EnqueueJobRaises \/ MarkEnqueueFailed

Next ==
    \/ SubmitStep
    \/ \E w \in Workers : Deliver(w) \/ WorkerStep(w) \/ Crash(w)
    \/ DropStale
    \/ \E e \in queue : WaitForDedup(e) \/ LoseDelivery(e)
    \/ \E o \in orphans : OrphanSection(o)
    \/ \E c \in Clickers : ClickStep(c)
    \/ Sweep \/ SweepStalled

Spec == Init /\ [][Next]_vars

\* A request handler keeps running, the submitting request answers, and pg_cron
\* keeps sweeping.  Nothing forces a delivery, a click or an orphan to happen.
FairSpec == /\ Spec
            /\ WF_vars(SubmitStep)
            /\ \A w \in Workers : WF_vars(WorkerStep(w))
            /\ WF_vars(Sweep)

-----------------------------------------------------------------------------
(* Types. *)

QueueEntry == [task : Task, left : 1..MaxDeliveries]
Orphan     == [attempt : Nat, slug : Slugs]
Click      == [pc : {"idle", "claim", "enqueue", "revert"}, slug : Slugs, prior : Nat, claimed : Nat]

\* Every variable has its type; in particular the columns keep to the values
\* their CHECK constraints list.
TypeOK ==
    /\ row \in Row
    /\ cache \in [Slugs -> Slot]
    /\ queue \in SUBSET QueueEntry
    /\ worker \in [Workers -> WorkerState]
    /\ orphans \in SUBSET Orphan
    /\ click \in [Clickers -> Click]
    /\ submit \in {"enqueue", "raised", "done"}
    /\ attempts \in Nat
    /\ minted \in [Slugs -> Nat]
    /\ retries \in Nat /\ faults \in Nat /\ stalls \in Nat

-----------------------------------------------------------------------------
(* What must hold. *)

RunsJob(w) == worker[w].pc # "idle" /\ worker[w].task.kind = "run"
Claims(c)  == click[c].pc = "claim" /\ click'[c].pc = "enqueue"

\* No delivery takes the job from a worker that still owns it: the attempt id
\* only rotates away from a run_job handler in the step in which it answers.
ClaimNeverSteals ==
    [][\A w \in Workers :
         RunsJob(w) /\ OwnedBy(row, worker[w].attempt) /\ row'.attempt # row.attempt
           => worker'[w].pc = "idle"]_vars

\* Whoever works for an attempt the row has left behind changes nothing in it,
\* however late: handlers, polls, and sections that outlived their request.
StaleAttemptsAreFenced ==
    [][/\ \A w \in Workers :
            worker[w].pc # "idle" /\ ~OwnedBy(row, worker[w].attempt) /\ worker'[w] # worker[w]
              => row' = row
       /\ \A o \in orphans : ~OwnedBy(row, o.attempt) /\ o \notin orphans' => row' = row]_vars

\* A finalized row carries a payload of settled sections only, is `partial`
\* exactly when that payload shows a failed one, and the URL's cache serves the
\* same analysis to the next submit.
FinalizedIsComplete ==
    row.status \in Finalized =>
        /\ \A s \in Slugs : Settled(row.payload[s])
        /\ cache = row.payload
        /\ row.status = "partial" <=> \E s \in Slugs : row.payload[s].state = "failed"

\* Retries clear the payload and the sweeper never finds one, so no reader of an
\* unfinished or swept job is handed the analysis of an earlier run.  Only the two
\* statements that fail a job without looking at its status leave one behind:
\* _MARK_FAILED_SQL of a late worker and the submit's enqueue error path.
PayloadOnlyOnFinalized ==
    row.payload # NoPayload =>
        \/ row.status \in Finalized
        \/ row.status = "failed" /\ row.code \in {"internal", "upstream_error", "extraction_failed"}

\* A pending job is claimable by the envelope its submit enqueued.
PendingIsUnclaimed == row.status = "pending" => row.attempt = Envelope

\* A run_job handler past its claim has an attempt of its own.
RunStages == {"extract", "persist", "setAnalyzing", "sections", "reset", "markFailed"}
RunOwners ==
    /\ \A w \in Workers : worker[w].pc \in RunStages => worker[w].task.kind = "run"
    /\ \A w \in Workers : RunsJob(w) => worker[w].attempt \in 1..attempts
    /\ \A v, w \in Workers :
         v # w /\ RunsJob(v) /\ RunsJob(w) => worker[v].attempt # worker[w].attempt

\* The transient-extraction backstop acts before the queue gives up: a row that
\* used up its attempts is never handed back to a queue that has none left.
ExhaustedNeverPends == row.status = "pending" => row.transients < MaxTransients

\* Concurrent retry requests for the same failed slot: one of them claims it.
OneClaimPerFailure ==
    \A a, b \in Clickers :
        /\ a # b
        /\ click[a].pc \in {"enqueue", "revert"} /\ click[b].pc \in {"enqueue", "revert"}
        => <<click[a].slug, click[a].prior>> # <<click[b].slug, click[b].prior>>

\* Slot attempt ids are fresh: a retry claims a newer one than it read, and the
\* failed attempt it read is the slot's no more.
RetryIds ==
    /\ \A s \in Slugs : row.slots[s].id <= minted[s]
    /\ \A c \in Clickers :
         LET k == click[c] IN
         /\ k.pc = "claim" => k.prior <= minted[k.slug]
         /\ k.pc \in {"enqueue", "revert"} =>
              /\ k.prior < k.claimed /\ k.claimed <= minted[k.slug]
              /\ row.slots[k.slug].id # k.prior

\* While a run_job handler owns the row, the transient attempts are used up only
\* if it is about to fail the job.
Backstop ==
    \A w \in Workers :
        RunsJob(w) /\ OwnedBy(row, worker[w].attempt) /\ worker[w].pc # "markFailed"
            => row.transients < MaxTransients

\* The inductive invariant: the CHECK holds of the row although some statements
\* rely on it to refuse them, every attempt has one owner, a payload is on the row
\* exactly where finalize put it, a row out of transient attempts is being failed,
\* and no two retries have claimed the same failure.
JobInv ==
    /\ TypeOK
    /\ Commits(row)
    /\ PendingIsUnclaimed
    /\ RunOwners
    /\ PayloadOnlyOnFinalized
    /\ FinalizedIsComplete
    /\ ExhaustedNeverPends
    /\ Backstop
    /\ RetryIds
    /\ OneClaimPerFailure

\* Within one slot attempt a settled slot never changes: the second of two
\* overlapping deliveries cannot turn done into failed, nor failed into done.
SettledSlotIsFinal ==
    [][\A s \in Slugs :
         Settled(row.slots[s]) /\ row'.slots[s].id = row.slots[s].id
           => row'.slots[s] = row.slots[s]]_vars

\* What a polling client sees is JobLifecycle: only a claim starts a job, only
\* finalize answers it, only a retry re-opens it and takes the answer back, and
\* nothing hands an ended job back to the queue.
Lifecycle == INSTANCE JobLifecycle WITH
    status <- row.status, answered <- (row.payload # NoPayload)
ImplementsLifecycle == Lifecycle!Spec

\* Every submitted job reaches a terminal status, however often it is retried,
\* whatever is lost: at the latest the sweeper ends it.
JobSettles == row.status \in NonTerminal ~> row.status \in Terminal

-----------------------------------------------------------------------------
(* What the repository's own text says, and the code does not keep. *)

\* analyze.py, _revert_slot_after_enqueue_failure: "a concurrent worker that
\* already advanced the slot is left alone".
RevertLeavesAdvancedSlot ==
    [][\A c \in Clickers :
         /\ click[c].pc = "revert" /\ click'[c].pc = "idle"
         /\ row.slots[click[c].slug].state = "done"
         => row'.slots[click[c].slug] = row.slots[click[c].slug]]_vars

\* orchestrator.py, run_section_retry: "return 503 so Cloud Tasks retries".  What
\* Cloud Tasks still holds for the current slot attempt can still run it.
QueuedRetryIsRunnable ==
    \A e \in queue : e.task.kind = "section" /\ row.slots[e.task.slug].id = e.task.id
        => row.slots[e.task.slug].state # "failed"

\* orchestrator.py, run_section_retry: handlers reload their persisted inputs.
RetriedSectionIsAnalysed ==
    \A s \in Slugs \ Dependents : row.slots[s].state = "done" => row.slots[s].data = "result"

\* analyze.py, retry_section: "Job status must be terminal", a running phase is
\* not retried.  No claim takes a job that is waiting for, or with, a run_job.
RunningJobIsNotRetried ==
    [][\A c \in Clickers : Claims(c) => row.status \notin {"pending", "extracting"}]_vars
=============================================================================
