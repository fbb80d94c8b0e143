------------------------------ MODULE BatchJob ------------------------------
(* The batch jobs of the opennotes server: rows of batch_jobs that a request
   creates, a DBOS workflow works off, a user may cancel and a weekly clean-up
   fails when they have not been updated for two hours.

   Two kinds of job start differently.  A rechunk job is created and started
   under an advisory lock of its type, one active job per type; an import job is
   committed as pending, without a lock, and its workflow starts it.

   Every status change is validated against VALID_STATUS_TRANSITIONS on a row
   that SELECT FOR UPDATE has locked.  The session keeps the object it has
   loaded before, though: whoever has already read the job in the same session
   validates the status of that first read, and the UPDATE then overwrites
   whatever the row holds.  The session is modelled by the status it has read. *)
EXTENDS Naturals, Sequences, FiniteSets

CONSTANTS
    Jobs,           \* the requests, one job each
    Workloads,      \* bound: what the requests ask for: the kind of each job
                    \* and the number of its items
    MaxMishaps,     \* bound: crashes, failures and cancellations
    NoCall

ASSUME BatchConstants ==
    /\ Workloads \subseteq [Jobs -> [kind : {"rechunk", "import"}, items : Nat]]
    /\ MaxMishaps \in Nat /\ NoCall \notin Jobs

VARIABLES
    work,       \* what each request asks for
    rows,       \* the batch_jobs rows; "none" before the insert is committed
    typeLock,   \* the request that holds the advisory lock of the rechunk type
    calls,      \* where the request of each job stands
    workflows,  \* the DBOS workflows
    cancels,    \* the status a cancelling session has read, "none" or "ended"
    sweep,      \* the stale rows a clean-up has read, with their status
    mishaps

batchVars == <<work, rows, typeLock, calls, workflows, cancels, sweep, mishaps>>

Active == {"pending", "in_progress"}
Finished == {"completed", "failed", "cancelled"}
Statuses == Active \cup Finished

\* _validate_transition and VALID_STATUS_TRANSITIONS.
ValidTransition(current, target) ==
    \/ current = target
    \/ current = "pending" /\ target \in {"in_progress", "cancelled", "failed"}
    \/ current = "in_progress" /\ target \in Finished

NoRow == [status |-> "none", done |-> 0, failed |-> 0, stale |-> FALSE]

\* outcome: what the steps have returned, item by item; at: the items this
\* execution of the workflow has passed; read: the status its session has loaded.
NoWorkflow == [pc |-> "none", at |-> 0, outcome |-> <<>>,
               success |-> FALSE, read |-> "none"]

BatchInit ==
    /\ work \in Workloads
    /\ rows = [j \in Jobs |-> NoRow]
    /\ typeLock = NoCall
    /\ calls = [j \in Jobs |-> "idle"]
    /\ workflows = [j \in Jobs |-> NoWorkflow]
    /\ cancels = [j \in Jobs |-> "none"]
    /\ sweep = [j \in Jobs |-> "none"]
    /\ mishaps = 0

\* An UPDATE of the row, which touches updated_at.
Write(j, row) == rows' = [rows EXCEPT ![j] = [row EXCEPT !.stale = FALSE]]
SetStatus(j, status) == Write(j, [rows[j] EXCEPT !.status = status])
Call(j, pc) == calls' = [calls EXCEPT ![j] = pc]
CallAt(j, pc) == calls[j] = pc
FreeLock(j) == typeLock' = IF typeLock = j THEN NoCall ELSE typeLock
ActiveRechunks == {j \in Jobs : work[j].kind = "rechunk" /\ rows[j].status \in Active}
Mishap == mishaps < MaxMishaps /\ mishaps' = mishaps + 1
NoMishap == mishaps' = mishaps
Elsewhere == UNCHANGED <<work, cancels, sweep>>

-----------------------------------------------------------------------------
(* The requests.                                                            *)

\* pg_advisory_xact_lock waits for its holder.
TakeTypeLock(j) ==
    /\ CallAt(j, "idle") /\ work[j].kind = "rechunk"
    /\ typeLock = NoCall /\ typeLock' = j
    /\ Call(j, "check")
    /\ NoMishap /\ Elsewhere /\ UNCHANGED <<rows, workflows>>

\* Mutant: the look is a transaction of its own.
CheckInOwnTransaction(j) ==
    /\ CallAt(j, "check")
    /\ Call(j, IF ActiveRechunks = {} THEN "start" ELSE "ended")
    /\ FreeLock(j)
    /\ NoMishap /\ Elsewhere /\ UNCHANGED <<rows, workflows>>

CheckNoActiveJob(j) ==
    /\ CallAt(j, "check")
    /\ \/ /\ ActiveRechunks # {}
          /\ Call(j, "ended") /\ FreeLock(j)
       \/ /\ ActiveRechunks = {}
          /\ Call(j, "start") /\ UNCHANGED typeLock
    /\ NoMishap /\ Elsewhere /\ UNCHANGED <<rows, workflows>>

\* create_job and start_job, whose commit ends the transaction and its lock; a
\* community without messages has nothing to enqueue.
StartRechunk(j) ==
    /\ CallAt(j, "start")
    /\ Write(j, [NoRow EXCEPT !.status = "in_progress"])
    /\ FreeLock(j)
    /\ Call(j, IF work[j].items = 0 THEN "empty" ELSE "enqueue")
    /\ NoMishap /\ Elsewhere /\ UNCHANGED workflows

\* complete_job in the session that started the job.
CompleteEmpty(j) ==
    /\ CallAt(j, "empty")
    /\ SetStatus(j, "completed")
    /\ Call(j, "ended")
    /\ NoMishap /\ Elsewhere /\ UNCHANGED <<typeLock, workflows>>

CreatePending(j) ==
    /\ CallAt(j, "idle") /\ work[j].kind = "import"
    /\ Write(j, [NoRow EXCEPT !.status = "pending"])
    /\ Call(j, "enqueue")
    /\ NoMishap /\ Elsewhere /\ UNCHANGED <<typeLock, workflows>>

\* safe_enqueue returns, or raises whether or not the workflow was created.
EnqueueWorkflow(j) ==
    /\ CallAt(j, "enqueue")
    /\ \/ /\ NoMishap /\ Call(j, "ended")
          /\ workflows' = [workflows EXCEPT ![j].pc = "queued"]
       \/ /\ Mishap /\ Call(j, "failDispatch")
          /\ \E pc \in {"none", "queued"} :
                 workflows' = [workflows EXCEPT ![j].pc = pc]
    /\ Elsewhere /\ UNCHANGED <<rows, typeLock>>

\* fail_job in the session that created the job, which still sees it active.
FailDispatch(j) ==
    /\ CallAt(j, "failDispatch")
    /\ SetStatus(j, "failed")
    /\ Call(j, "ended")
    /\ NoMishap /\ Elsewhere /\ UNCHANGED <<typeLock, workflows>>

\* The request fails or its process dies: what was not committed is undone.
AbandonCall(j) ==
    /\ calls[j] \notin {"idle", "ended"}
    /\ Call(j, "ended") /\ FreeLock(j)
    /\ Mishap /\ Elsewhere /\ UNCHANGED <<rows, workflows>>

-----------------------------------------------------------------------------
(* The workflows.                                                           *)

WorkflowAt(j, pc) == workflows[j].pc = pc
WorkflowTo(j, w) == workflows' = [workflows EXCEPT ![j] = w]
WorkflowPc(j, pc) == WorkflowTo(j, [workflows[j] EXCEPT !.pc = pc])
Outside == Elsewhere /\ UNCHANGED <<typeLock, calls>>

\* The counters of a workflow that has passed n items, and those it has now.
CountTo(j, n, result) ==
    Cardinality({i \in 1 .. n : workflows[j].outcome[i] = result})

\* Mutant: the item that comes next is counted as well.
CountNext(j, result) == CountTo(j, workflows[j].at, result) + 1

Count(j, result) == CountTo(j, workflows[j].at, result)

\* The gate lets the workflow in, or raises after its timeout: the job stays.
EnterGate(j) ==
    /\ WorkflowAt(j, "queued")
    /\ \/ NoMishap /\ WorkflowPc(j, IF work[j].kind = "import" THEN "readStart" ELSE "run")
       \/ Mishap /\ WorkflowPc(j, "ended")
    /\ Outside /\ UNCHANGED rows

\* start_batch_job_sync: get_job, then start_job in the same session.
ReadStart(j) ==
    /\ WorkflowAt(j, "readStart")
    /\ WorkflowTo(j, [workflows[j] EXCEPT !.pc = "writeStart",
                                          !.read = rows[j].status])
    /\ NoMishap /\ Outside /\ UNCHANGED rows

\* A job that cannot be started is finalized as failed.
WriteStart(j) ==
    /\ WorkflowAt(j, "writeStart")
    /\ IF ValidTransition(workflows[j].read, "in_progress")
       THEN SetStatus(j, "in_progress") /\ WorkflowPc(j, "run")
       ELSE UNCHANGED rows /\ WorkflowPc(j, "finalRead")
    /\ NoMishap /\ Outside

\* The step of the next item.  One that has returned before a crash returns the
\* same again.  A failure may open the circuit breaker, and an import may raise:
\* the rest is not worked off.
ProcessItem(j) ==
    LET w == workflows[j]
        known == w.at < Len(w.outcome)
    IN  /\ WorkflowAt(j, "run") /\ w.at < work[j].items
        /\ \E result \in {"ok", "bad", "abort"} :
               /\ known => result = w.outcome[w.at + 1]
               /\ result = "abort" =>
                      work[j].kind = "import" \/ Count(j, "bad") > 0
               /\ WorkflowTo(j, [w EXCEPT
                      !.outcome = IF known THEN @ ELSE Append(@, result),
                      !.at = IF result = "abort" THEN @ ELSE @ + 1,
                      !.pc = IF result = "abort" THEN "finalRead" ELSE "report"])
        /\ NoMishap /\ Outside /\ UNCHANGED rows

\* A report is due after every batch_size items and after the last one.
\* update_progress takes no lock and does not look at the status; an exception is
\* logged and the workflow goes on.  It is not a step, so that it is repeated,
\* with its old counts, when the workflow is executed again.
ReportProgress(j) ==
    /\ WorkflowAt(j, "report")
    /\ \/ /\ NoMishap
          /\ Write(j, [rows[j] EXCEPT !.done = Count(j, "ok"),
                                      !.failed = Count(j, "bad")])
       \/ NoMishap /\ workflows[j].at < work[j].items /\ UNCHANGED rows
       \/ Mishap /\ UNCHANGED rows
    /\ WorkflowPc(j, "run")
    /\ Outside

\* Mutant: half of the items is enough.
HalfDone(done, failed) == done + failed > 0 /\ 2 * failed <= done + failed

\* _compute_batch_success.
MostlyDone(done, failed) == done + failed > 0 /\ 2 * failed < done + failed

AllProcessed(j) ==
    /\ WorkflowAt(j, "run") /\ workflows[j].at = work[j].items
    /\ WorkflowTo(j, [workflows[j] EXCEPT !.pc = "finalRead",
                        !.success = MostlyDone(Count(j, "ok"), Count(j, "bad"))])
    /\ NoMishap /\ Outside /\ UNCHANGED rows

\* finalize_batch_job_sync: get_job, then complete_job or fail_job in the same
\* session.
ReadFinal(j) ==
    /\ WorkflowAt(j, "finalRead")
    /\ WorkflowTo(j, [workflows[j] EXCEPT !.pc = "finalWrite",
                                          !.read = rows[j].status])
    /\ NoMishap /\ Outside /\ UNCHANGED rows

Verdict(j) == IF workflows[j].success THEN "completed" ELSE "failed"

\* An import that raised knows no counts.  A refusal and an error are logged.
WriteFinal(j) ==
    LET raised == work[j].kind = "import" /\ ~workflows[j].success
                  /\ workflows[j].at < work[j].items
        row == [rows[j] EXCEPT !.status = Verdict(j),
                               !.done = IF raised THEN 0 ELSE Count(j, "ok"),
                               !.failed = IF raised THEN 0 ELSE Count(j, "bad")]
    IN  /\ WorkflowAt(j, "finalWrite")
        /\ \/ /\ NoMishap
              /\ IF ValidTransition(workflows[j].read, Verdict(j))
                 THEN Write(j, row) ELSE UNCHANGED rows
           \/ Mishap /\ UNCHANGED rows
        /\ WorkflowPc(j, "written")
        /\ Outside

WorkflowReturns(j) ==
    /\ WorkflowAt(j, "written")
    /\ WorkflowPc(j, "ended")
    /\ NoMishap /\ Outside /\ UNCHANGED rows

Finalizing(j) == workflows[j].pc \in {"finalRead", "finalWrite", "written", "ended"}

\* DBOS executes the workflow again: what no step has recorded is repeated.  The
\* start and the whole import are one step each, an item of a rechunk is one.
CrashWorkflow(j) ==
    LET w == workflows[j]
        again == [w EXCEPT !.success = FALSE, !.read = "none"]
    IN  /\ w.pc \notin {"none", "queued", "ended"}
        /\ Mishap
        /\ \/ /\ work[j].kind = "rechunk"
              /\ WorkflowTo(j, [again EXCEPT !.pc = "run", !.at = 0])
           \/ /\ work[j].kind = "import" /\ w.pc \in {"readStart", "writeStart"}
              /\ WorkflowTo(j, [again EXCEPT !.pc = "readStart"])
           \/ /\ work[j].kind = "import" /\ w.pc \in {"run", "report"}
              /\ WorkflowTo(j, [again EXCEPT !.pc = "run", !.at = 0, !.outcome = <<>>])
           \/ /\ work[j].kind = "import" /\ Finalizing(j)
              /\ WorkflowTo(j, [w EXCEPT !.pc = "finalRead"])
        /\ Outside /\ UNCHANGED rows

WorkflowStep(j) ==
    \/ EnterGate(j) \/ ReadStart(j) \/ WriteStart(j) \/ ProcessItem(j)
    \/ ReportProgress(j) \/ AllProcessed(j) \/ ReadFinal(j) \/ WriteFinal(j)
    \/ WorkflowReturns(j)

-----------------------------------------------------------------------------
(* Cancellation and clean-up.                                               *)

\* DELETE /batch-jobs/{id}: the first read of the session is the locked one.
Cancel(j) ==
    /\ cancels[j] = "none" /\ rows[j].status # "none" /\ Mishap
    /\ cancels' = [cancels EXCEPT ![j] = "ended"]
    /\ IF ValidTransition(rows[j].status, "cancelled")
       THEN SetStatus(j, "cancelled") ELSE UNCHANGED rows
    /\ UNCHANGED <<work, typeLock, calls, workflows, sweep>>

\* DELETE /chunks/jobs/{id} reads the job, checks who is asking, and cancels.
ReadForCancel(j) ==
    /\ cancels[j] = "none" /\ rows[j].status # "none" /\ work[j].kind = "rechunk"
    /\ Mishap
    /\ cancels' = [cancels EXCEPT ![j] = rows[j].status]
    /\ UNCHANGED <<work, rows, typeLock, calls, workflows, sweep>>

CancelRechunk(j) ==
    /\ cancels[j] \in Statuses
    /\ cancels' = [cancels EXCEPT ![j] = "ended"]
    /\ IF ValidTransition(cancels[j], "cancelled")
       THEN SetStatus(j, "cancelled") ELSE UNCHANGED rows
    /\ UNCHANGED <<work, typeLock, calls, workflows, sweep, mishaps>>

\* Two hours pass without an update of any row.
Age ==
    /\ \E j \in Jobs : rows[j].status \in Active /\ ~rows[j].stale
    /\ rows' = [j \in Jobs |-> [rows[j] EXCEPT !.stale = rows[j].status \in Active]]
    /\ UNCHANGED <<work, typeLock, calls, workflows, cancels, sweep, mishaps>>

\* Mutant: only jobs in progress are looked for.
StaleStartedJobs == {j \in Jobs : rows[j].status = "in_progress" /\ rows[j].stale}

\* cleanup_stale_jobs: one SELECT, then fail_job for each in the same session.
StaleJobs == {j \in Jobs : rows[j].status \in Active /\ rows[j].stale}

SelectStale ==
    /\ \A j \in Jobs : sweep[j] = "none"
    /\ StaleJobs # {}
    /\ sweep' = [j \in Jobs |-> IF j \in StaleJobs THEN rows[j].status ELSE "none"]
    /\ UNCHANGED <<work, rows, typeLock, calls, workflows, cancels, mishaps>>

FailStale(j) ==
    /\ sweep[j] \in Active
    /\ SetStatus(j, "failed")
    /\ sweep' = [sweep EXCEPT ![j] = "none"]
    /\ UNCHANGED <<work, typeLock, calls, workflows, cancels, mishaps>>

SweepDies ==
    /\ \E j \in Jobs : sweep[j] # "none"
    /\ Mishap
    /\ sweep' = [j \in Jobs |-> "none"]
    /\ UNCHANGED <<work, rows, typeLock, calls, workflows, cancels>>

Sweep == SelectStale \/ \E j \in Jobs : FailStale(j)

CallStep(j) ==
    \/ TakeTypeLock(j) \/ CheckNoActiveJob(j) \/ StartRechunk(j)
    \/ CompleteEmpty(j) \/ CreatePending(j) \/ EnqueueWorkflow(j)
    \/ FailDispatch(j) \/ AbandonCall(j)

BatchNext ==
    \/ \E j \in Jobs : \/ CallStep(j) \/ WorkflowStep(j) \/ CrashWorkflow(j)
                       \/ Cancel(j) \/ ReadForCancel(j) \/ CancelRechunk(j)
    \/ Age \/ Sweep \/ SweepDies

\* Time passes, and the scheduler runs the clean-up every week.
BatchFairness == WF_batchVars(Age) /\ WF_batchVars(Sweep)

BatchSpec == BatchInit /\ [][BatchNext]_batchVars /\ BatchFairness

-----------------------------------------------------------------------------
(* Properties.                                                              *)

BatchRow == [status : Statuses \cup {"none"}, done : Nat, failed : Nat, stale : BOOLEAN]
WorkflowState ==
    [pc : {"none", "queued", "readStart", "writeStart", "run", "report", "finalRead",
           "finalWrite", "written", "ended"},
     at : Nat, outcome : Seq({"ok", "bad", "abort"}), success : BOOLEAN,
     read : Statuses \cup {"none"}]

\* The rows, the lock, the calls and the sessions are of their types, and no row
\* counts more items than its job has.
BatchTypeOK ==
    /\ work \in Workloads
    /\ rows \in [Jobs -> BatchRow]
    /\ \A j \in Jobs : rows[j].done + rows[j].failed <= work[j].items
    /\ typeLock \in Jobs \cup {NoCall}
    /\ calls \in [Jobs -> {"idle", "check", "start", "empty", "enqueue",
                           "failDispatch", "ended"}]
    /\ workflows \in [Jobs -> WorkflowState]
    /\ cancels \in [Jobs -> Statuses \cup {"none", "ended"}]
    /\ sweep \in [Jobs -> Active \cup {"none"}]
    /\ mishaps \in 0 .. MaxMishaps

\* At most one rechunk job is pending or in progress, although the look for one
\* and the insert are separate statements, a dispatch may fail, and sessions
\* overwrite the status of a row with one that follows what they read earlier
\* (_check_no_active_job under its advisory lock; no unique index).
OneActivePerType == \A i, j \in ActiveRechunks : i = j

\* All items of the job have an outcome, and less than half of them went wrong.
Succeeded(j) ==
    LET n == work[j].items
    IN  /\ n > 0 /\ n <= Len(workflows[j].outcome)
        /\ \A i \in 1 .. n : workflows[j].outcome[i] # "abort"
        /\ 2 * CountTo(j, n, "bad") < n

\* The row has the counts of a workflow that has passed n items of the job.
Tallied(j, n) ==
    rows[j].done = CountTo(j, n, "ok") /\ rows[j].failed = CountTo(j, n, "bad")

\* A job that shows as completed had nothing to do, or all of its items were
\* worked off, less than half of them in vain, and the row counts the first n of
\* them: n is less than all while the workflow is executed again, and after that
\* when its last reports were swallowed.  No crash, cancellation, clean-up or lost write
\* in between leaves a verdict of some of the items, or counts that no execution
\* had (finalize_batch_job_sync, update_batch_job_progress_sync).
CompletedIsMostlyDone ==
    \A j \in Jobs :
        rows[j].status = "completed" =>
            \/ work[j].items = 0
            \/ Succeeded(j) /\ \E n \in 0 .. work[j].items : Tallied(j, n)

-----------------------------------------------------------------------------
(* The inductive invariant.                                                 *)

\* A workflow has passed items with an outcome, none before it is created, and
\* claims success only with all of them.
WorkflowFits(j) ==
    LET w == workflows[j]
    IN  /\ w.at <= work[j].items /\ w.at <= Len(w.outcome)
        /\ \A i \in 1 .. w.at : w.outcome[i] # "abort"
        /\ w.pc \in {"none", "queued", "readStart", "writeStart"} => w.outcome = <<>>
        /\ w.success => w.at = work[j].items /\ Succeeded(j) /\ Finalizing(j)
        /\ calls[j] \in {"idle", "check", "start", "empty", "enqueue"} => w.pc = "none"
        /\ calls[j] = "empty" => work[j].items = 0

\* A completed job had nothing to do, or succeeded: a rechunk that a crash
\* executes again repeats outcomes that are recorded, and comes to their end
\* before it is finalized again.
CompletionFits(j) ==
    rows[j].status = "completed" =>
        \/ workflows[j].pc = "none" /\ calls[j] = "ended" /\ work[j].items = 0
        \/ /\ Succeeded(j)
           /\ \E n \in 0 .. work[j].items : Tallied(j, n)
           /\ work[j].kind = "import" => Finalizing(j)
           /\ Finalizing(j) => workflows[j].at = work[j].items

BatchInv ==
    /\ BatchTypeOK
    /\ \A j \in Jobs : WorkflowFits(j) /\ CompletionFits(j)

\* No job stays active for ever, though its workflow was never created, did not
\* get in or died for good: once it is stale the clean-up fails it.
JobsSettle == \A j \in Jobs : rows[j].status \in Active ~> rows[j].status \notin Active
=============================================================================
