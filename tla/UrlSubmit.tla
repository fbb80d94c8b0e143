----------------------------- MODULE UrlSubmit -----------------------------
(* The submission of one URL, identified by its canonical cache key, to the
   vibecheck server: POST /api/analyze decides between a cached answer, a job
   that already runs and a new job, under a PostgreSQL transaction-scoped
   advisory lock, against the jobs table, the utterances and the 72-hour
   vibecheck_analyses row of that URL.  Every step of a request is one SQL
   statement under READ COMMITTED: rows inserted by an open transaction are
   invisible to the others, and what it deletes or copies takes effect when it
   commits.

   The rest of the system is the environment: jobs finish or fail, a section
   retry re-opens a finished job, the browser extension inserts jobs through
   POST /api/scrape without the lock, rows are purged after seven days and the
   analysis expires.  A job row that the program has not inserted yet is
   "absent".                                                                *)
EXTENDS Naturals, FiniteSets, Sequences

CONSTANTS
    Requests,        \* the calls of POST /api/analyze for the URL
    MaxJobs,         \* bound: rows of vibecheck_jobs for this URL
    MaxHistory,      \* bound: jobs that have finished before
    MaxOthers,       \* bound: calls of POST /api/scrape and section retries,
                     \* on a URL without earlier jobs
    NoRequest

ASSUME SubmitConstants ==
    /\ MaxJobs \in Nat /\ MaxHistory \in 0 .. MaxJobs
    /\ MaxOthers \in Nat
    /\ NoRequest \notin Requests

VARIABLES
    jobs,       \* the vibecheck_jobs rows of this URL and their utterances
    finished,   \* the places of the terminal rows by finished_at, 0 for others
    analysis,   \* the vibecheck_analyses row: the job that wrote it, or 0
    holder,     \* the transaction that holds the advisory lock
    subs,       \* the request handlers
    others      \* calls of other routes that may still come

submitVars == <<jobs, finished, analysis, holder, subs, others>>

JobIds == 1 .. MaxJobs
NoJob == 0

\* txn is the open transaction that inserted the row, NoRequest once committed;
\* payload the job whose analysis the row carries; copies how many times the
\* utterances of an analysis were inserted for the row.
Job == [state : {"absent", "inflight", "done", "partial", "failed", "unsafe"},
        scraped : BOOLEAN, cached : BOOLEAN, retried : BOOLEAN,
        comments : BOOLEAN, payload : JobIds \cup {NoJob}, copies : Nat,
        expired : BOOLEAN, txn : Requests \cup {NoRequest}]

Absent == [state |-> "absent", scraped |-> FALSE, cached |-> FALSE,
           retried |-> FALSE, comments |-> FALSE, payload |-> NoJob,
           copies |-> 0, expired |-> FALSE, txn |-> NoRequest]

\* found and refs: the cached payload the request read, and whether it refers
\* to comment utterances; copying and evicting: the effects its transaction
\* still has to commit.
Sub == [pc : {"idle", "lock", "unsafe", "cache", "source", "insertCached",
              "copy", "inflight", "insertPending", "commit", "enqueue",
              "markFailed", "ended"},
        tries : 0 .. 2, risky : BOOLEAN,
        found : JobIds \cup {NoJob}, refs : BOOLEAN,
        source : JobIds \cup {NoJob}, target : JobIds \cup {NoJob},
        copying : BOOLEAN, evicting : BOOLEAN,
        answer : {"none", "cached", "running", "new", "unsafe", "busy"}]

Idle == [pc |-> "idle", tries |-> 0, risky |-> FALSE, found |-> NoJob,
         refs |-> FALSE, source |-> NoJob, target |-> NoJob,
         copying |-> FALSE, evicting |-> FALSE, answer |-> "none"]

Ended == [Idle EXCEPT !.pc = "ended"]

\* The row of a job that has finished with an analysis of its page.
Analysed(j, status, comments) ==
    [Absent EXCEPT !.state = status, !.payload = j, !.comments = comments,
                   !.copies = 1]

\* A URL nobody has submitted, or the rows that earlier calls have left: the jobs
\* 1 .. Len(history), the last of which wrote the analysis.  Web Risk, which
\* caches its finding, sees a threat on the page or not.
Histories == {<<>>} \cup (UNION {[1 .. n -> {"done", "partial"}] : n \in 1 .. MaxHistory})

SubmitInit ==
    \E history \in Histories, comments \in BOOLEAN, risky \in BOOLEAN :
        LET n == Len(history)
        IN  /\ jobs = [j \in JobIds |->
                         IF j <= n THEN Analysed(j, history[j], comments)
                         ELSE Absent]
            /\ finished = [j \in JobIds |-> IF j <= n THEN j ELSE 0]
            /\ analysis = n
            /\ holder = NoRequest
            /\ others = IF history = <<>> THEN MaxOthers ELSE 0
            /\ subs = [r \in Requests |-> [Idle EXCEPT !.risky = risky]]

-----------------------------------------------------------------------------
(* What a statement of request r sees.                                      *)

Visible(r, j) == jobs[j].state # "absent" /\ jobs[j].txn \in {NoRequest, r}
Inflight(r) == {j \in JobIds : Visible(r, j) /\ jobs[j].state = "inflight"}
Unsafe(r) == {j \in JobIds : /\ Visible(r, j) /\ jobs[j].state = "unsafe"
                             /\ ~jobs[j].expired}
CachedDone(r) == {j \in JobIds : Visible(r, j) /\ jobs[j].cached}

\* Finished jobs, not cache hits themselves, that still have comments.
Sources(r) == {j \in JobIds : /\ Visible(r, j) /\ jobs[j].state = "done"
                              /\ ~jobs[j].cached
                              /\ jobs[j].comments /\ jobs[j].copies > 0}

Newest(S) == CHOOSE j \in S : \A k \in S : finished[k] <= finished[j]

Unused == {j \in JobIds : jobs[j].state = "absent"}
NextId == CHOOSE j \in Unused : \A k \in Unused : j <= k
Goto(r, s) == subs' = [subs EXCEPT ![r] = s]
At(r, pc) == subs[r].pc = pc

\* Rows leave the order, or one is put at its end.
Ordered == {j \in JobIds : finished[j] > 0}
Places(S) == [j \in JobIds |->
                 IF j \in S THEN Cardinality({k \in S : finished[k] <= finished[j]})
                 ELSE 0]
Finish(j) == LET rest == Ordered \ {j}
             IN  finished' = [Places(rest) EXCEPT ![j] = Cardinality(rest) + 1]

-----------------------------------------------------------------------------
(* analyze: the Web Risk gate and the lock.                                 *)

\* The call has passed the gate; a transient failure of the gate answers 503 and
\* touches nothing.
Arrive(r) ==
    /\ At(r, "idle")
    /\ Goto(r, [subs[r] EXCEPT !.pc = "lock", !.tries = 1])
    /\ UNCHANGED <<jobs, finished, analysis, holder, others>>

\* The winner of pg_try_advisory_xact_lock serves an unsafe page from the
\* unsafe rows alone; everybody else reads the cache first.
TryLock(r) ==
    /\ At(r, "lock")
    /\ \/ /\ holder = NoRequest
          /\ holder' = r
          /\ Goto(r, [subs[r] EXCEPT !.pc =
                         IF subs[r].risky THEN "unsafe" ELSE "cache"])
       \/ /\ holder # NoRequest
          /\ holder' = holder
          /\ Goto(r, [subs[r] EXCEPT !.pc = "cache"])
    /\ UNCHANGED <<jobs, finished, analysis, others>>

\* The answer of a transaction that is about to commit.
Answer(r, kind, j) ==
    Goto(r, [subs[r] EXCEPT !.pc = "commit", !.answer = kind, !.target = j])

InsertRow(r, row) ==
    /\ Unused # {}
    /\ jobs' = [jobs EXCEPT ![NextId] = [row EXCEPT !.txn = r]]

\* Under the lock an unsafe page without an unsafe row gets one.
FindUnsafe(r) ==
    /\ At(r, "unsafe")
    /\ \/ /\ \E j \in Unsafe(r) : Answer(r, "unsafe", j)
          /\ UNCHANGED <<jobs, finished>>
       \/ /\ Unsafe(r) = {} /\ holder = r
          /\ InsertRow(r, [Absent EXCEPT !.state = "unsafe"])
          /\ Finish(NextId)
          /\ Answer(r, "unsafe", NextId)
       \/ /\ Unsafe(r) = {} /\ holder # r
          /\ Answer(r, "busy", NoJob)
          /\ UNCHANGED <<jobs, finished>>
    /\ UNCHANGED <<analysis, holder, others>>

-----------------------------------------------------------------------------
(* _lookup_cache and _materialize_cache_hit.                                *)

LookupCache(r) ==
    /\ At(r, "cache")
    /\ IF analysis = NoJob
       THEN Goto(r, [subs[r] EXCEPT !.pc = "inflight"])
       ELSE Goto(r, [subs[r] EXCEPT !.found = analysis,
                       !.refs = jobs[analysis].comments,
                       !.pc = IF jobs[analysis].comments
                              THEN "source" ELSE "insertCached"])
    /\ UNCHANGED <<jobs, finished, analysis, holder, others>>

\* Mutant: a request that has evicted the analysis still answers with it.
EvictAndAnswer(r) ==
    /\ \A q \in Requests : ~subs[q].evicting
    /\ Goto(r, [subs[r] EXCEPT !.evicting = TRUE, !.source = subs[r].found,
                    !.pc = IF @ = "source" THEN "insertCached" ELSE "inflight"])

\* The DELETE of the analysis: another transaction's DELETE of it is waited for.
Evict(r) == /\ \A q \in Requests : ~subs[q].evicting
            /\ Goto(r, [subs[r] EXCEPT !.pc = "inflight", !.found = NoJob,
                                       !.source = NoJob, !.target = NoJob,
                                       !.answer = "none", !.evicting = TRUE])

FindSource(r) ==
    /\ At(r, "source")
    /\ \/ /\ Sources(r) # {}
          /\ Goto(r, [subs[r] EXCEPT !.pc = "insertCached",
                                     !.source = Newest(Sources(r))])
       \/ /\ Sources(r) = {}
          /\ Evict(r)
    /\ UNCHANGED <<jobs, finished, analysis, holder, others>>

\* One cached row per URL by the partial unique index: the insert waits for an
\* open transaction that inserted one, and answers with a committed one.
InsertCached(r) ==
    LET after == IF subs[r].refs THEN "copy" ELSE "commit"
        Hit(j) == Goto(r, [subs[r] EXCEPT !.pc = after, !.target = j,
                                          !.answer = "cached"])
    IN  /\ At(r, "insertCached")
        /\ \A j \in JobIds : jobs[j].cached => Visible(r, j)
        /\ \/ /\ CachedDone(r) = {}
              /\ InsertRow(r, [Absent EXCEPT !.state = "done", !.cached = TRUE,
                                             !.payload = subs[r].found,
                                             !.comments = subs[r].refs])
              /\ Finish(NextId)
              /\ Hit(NextId)
           \/ /\ \E j \in CachedDone(r) : Hit(j)
              /\ UNCHANGED <<jobs, finished>>
        /\ UNCHANGED <<analysis, holder, others>>

\* Mutant: whether anything was copied is not looked at.
CopyUtterancesUnchecked(r) ==
    /\ At(r, "copy")
    /\ Goto(r, [subs[r] EXCEPT !.pc = "commit",
                  !.copying = /\ jobs[subs[r].target].copies = 0
                                   /\ jobs[subs[r].source].copies > 0])
    /\ UNCHANGED <<jobs, finished, analysis, holder, others>>

\* _copy_utterances_to_job: nothing is copied to a row that has utterances, or
\* from a source that lost them; a row left without any evicts the analysis.
CopyUtterances(r) ==
    LET had == jobs[subs[r].target].copies > 0
        copied == ~had /\ jobs[subs[r].source].copies > 0
    IN  /\ At(r, "copy")
        /\ \/ /\ had \/ copied
              /\ Goto(r, [subs[r] EXCEPT !.pc = "commit", !.copying = copied])
           \/ /\ ~had /\ ~copied
              /\ Evict(r)
        /\ UNCHANGED <<jobs, finished, analysis, holder, others>>

-----------------------------------------------------------------------------
(* _find_inflight_job, the new job, and the end of the transaction.         *)

\* Mutant: a request that did not get the lock goes on as if it had.
FindInflightUnlocked(r) ==
    /\ At(r, "inflight")
    /\ \/ \E j \in Inflight(r) : Answer(r, "running", j)
       \/ /\ Inflight(r) = {}
          /\ Goto(r, [subs[r] EXCEPT !.pc = "insertPending"])
    /\ UNCHANGED <<jobs, finished, analysis, holder, others>>

FindInflight(r) ==
    /\ At(r, "inflight")
    /\ \/ \E j \in Inflight(r) : Answer(r, "running", j)
       \/ /\ Inflight(r) = {} /\ holder = r
          /\ Goto(r, [subs[r] EXCEPT !.pc = "insertPending"])
       \/ /\ Inflight(r) = {} /\ holder # r /\ subs[r].risky
          /\ Goto(r, [subs[r] EXCEPT !.pc = "unsafe"])
       \/ /\ Inflight(r) = {} /\ holder # r /\ ~subs[r].risky
          /\ Answer(r, "busy", NoJob)
    /\ UNCHANGED <<jobs, finished, analysis, holder, others>>

InsertPending(r) ==
    /\ At(r, "insertPending")
    /\ InsertRow(r, [Absent EXCEPT !.state = "inflight"])
    /\ Answer(r, "new", NextId)
    /\ UNCHANGED <<finished, analysis, holder, others>>

\* Mutant: it tries as long as it is told to come back.
AfterCommitForever(s) ==
    CASE s.answer = "new" -> [Idle EXCEPT !.pc = "enqueue", !.target = s.target]
      [] s.answer = "busy" ->
             [Idle EXCEPT !.pc = "lock", !.tries = s.tries + 1, !.risky = s.risky]
      [] OTHER -> Ended

\* A request that found nothing while contended sleeps and tries once more.
AfterCommit(s) ==
    CASE s.answer = "new" -> [Idle EXCEPT !.pc = "enqueue", !.target = s.target]
      [] s.answer = "busy" /\ s.tries < 2 ->
             [Idle EXCEPT !.pc = "lock", !.tries = 2, !.risky = s.risky]
      [] OTHER -> Ended

Release(r) == holder' = IF holder = r THEN NoRequest ELSE holder

Commit(r) ==
    /\ At(r, "commit")
    /\ jobs' = [j \in JobIds |->
                  [jobs[j] EXCEPT
                     !.txn = IF @ = r THEN NoRequest ELSE @,
                     !.copies = IF subs[r].copying /\ subs[r].target = j
                                THEN @ + 1 ELSE @]]
    /\ analysis' = IF subs[r].evicting THEN NoJob ELSE analysis
    /\ Release(r)
    /\ Goto(r, AfterCommit(subs[r]))
    /\ UNCHANGED <<finished, others>>

\* The connection or the process is lost inside the transaction.
Rollback(r) ==
    /\ subs[r].pc \notin {"idle", "lock", "enqueue", "markFailed", "ended"}
    /\ jobs' = [j \in JobIds |-> IF jobs[j].txn = r THEN Absent ELSE jobs[j]]
    /\ finished' = Places({j \in Ordered : jobs[j].txn # r})
    /\ Release(r)
    /\ Goto(r, Ended)
    /\ UNCHANGED <<analysis, others>>

\* enqueue_job returns, or the process dies with the row committed; or it
\* raises, whether or not the task was created.
Enqueue(r) ==
    /\ At(r, "enqueue")
    /\ \/ Goto(r, Ended)
       \/ Goto(r, [subs[r] EXCEPT !.pc = "markFailed"])
    /\ UNCHANGED <<jobs, finished, analysis, holder, others>>

\* The UPDATE has no guard: a task that was created despite the error may have
\* finished the job already.
MarkEnqueueFailed(r) ==
    /\ At(r, "markFailed")
    /\ jobs' = [jobs EXCEPT ![subs[r].target].state = "failed"]
    /\ Finish(subs[r].target)
    /\ Goto(r, Ended)
    /\ UNCHANGED <<analysis, holder, others>>

RequestStep(r) ==
    \/ TryLock(r) \/ FindUnsafe(r) \/ LookupCache(r) \/ FindSource(r)
    \/ InsertCached(r) \/ CopyUtterances(r) \/ FindInflight(r)
    \/ InsertPending(r) \/ Commit(r) \/ Enqueue(r) \/ MarkEnqueueFailed(r)

-----------------------------------------------------------------------------
(* The environment.                                                         *)

Committed(j) == jobs[j].state # "absent" /\ jobs[j].txn = NoRequest
LastId == CHOOSE j \in Unused : \A k \in Unused : k <= j
\* The environment moves while a call is open: nothing reads its rows later.
Open == \E r \in Requests : subs[r].pc # "ended"
\* A DELETE of the analysis by an open transaction is waited for.
RowFree == \A r \in Requests : ~subs[r].evicting

\* The row that a cache hit has updated with the metadata of its source.
Locked(r) == IF At(r, "commit") /\ subs[r].answer = "cached" /\ subs[r].refs
             THEN subs[r].target ELSE NoJob

\* maybe_finalize_job writes the analysis, unless the page came from a browser,
\* and the terminal status together.
Finalize(j) ==
    /\ Open /\ Committed(j) /\ jobs[j].state = "inflight"
    /\ jobs[j].scraped \/ RowFree
    /\ \E status \in {"done", "partial"}, comments \in BOOLEAN :
           /\ jobs[j].payload # NoJob => comments = jobs[j].comments
           /\ jobs' = [jobs EXCEPT ![j].state = status, ![j].payload = j,
                                   ![j].comments = comments, ![j].copies = 1]
    /\ analysis' = IF jobs[j].scraped THEN analysis ELSE j
    /\ Finish(j)
    /\ UNCHANGED <<holder, subs, others>>

\* The worker or a sweeper fails the job.
FailJob(j) ==
    /\ Open /\ Committed(j) /\ jobs[j].state = "inflight"
    /\ jobs' = [jobs EXCEPT ![j].state = "failed"]
    /\ Finish(j)
    /\ UNCHANGED <<analysis, holder, subs, others>>

\* A retry of a failed section, which needs utterances and a terminal row that
\* has a failed section: a row that is done has none.
Reopen(j) ==
    /\ Open /\ others > 0 /\ others' = others - 1
    /\ Committed(j) /\ jobs[j].state \in {"partial", "failed"}
    /\ jobs[j].copies > 0
    /\ jobs' = [jobs EXCEPT ![j].state = "inflight", ![j].retried = TRUE]
    /\ finished' = Places(Ordered \ {j})
    /\ UNCHANGED <<analysis, holder, subs>>

\* POST /api/scrape: a row of the same URL, without lock or look-up; an unsafe
\* page leaves an unsafe row.
ScrapeSubmit ==
    /\ Open /\ others > 0 /\ others' = others - 1
    /\ Unused # {}
    /\ \/ /\ jobs' = [jobs EXCEPT ![LastId] =
                        [Absent EXCEPT !.state = "inflight", !.scraped = TRUE]]
          /\ finished' = finished
       \/ /\ jobs' = [jobs EXCEPT ![LastId] =
                        [Absent EXCEPT !.state = "unsafe", !.scraped = TRUE]]
          /\ Finish(LastId)
    /\ UNCHANGED <<analysis, holder, subs>>

\* vibecheck_purge_terminal_jobs: the k oldest terminal rows are seven days
\* old.  An analysis lives 72 hours, so one that is fresh was written after
\* the last of them finished; one whose writer is no longer as it was then has
\* lost its date here, and holds the purge up.
Purge ==
    /\ Open
    /\ \E k \in 1 .. Cardinality(Ordered) :
           LET old == {j \in Ordered : finished[j] <= k}
           IN  /\ \A j \in old : Committed(j)
               /\ analysis # NoJob =>
                      /\ jobs[analysis].state \in {"done", "partial"}
                      /\ ~jobs[analysis].retried /\ analysis \notin old
               /\ \E j \in old : ~jobs[j].expired
               /\ \A r \in Requests : Locked(r) \notin old
               /\ jobs' = [j \in JobIds |->
                             IF j \in old
                             THEN [jobs[j] EXCEPT !.expired = TRUE, !.copies = 0,
                                                  !.payload = NoJob]
                             ELSE jobs[j]]
    /\ UNCHANGED <<finished, analysis, holder, subs, others>>

CacheExpires ==
    /\ Open /\ analysis # NoJob /\ RowFree
    /\ analysis' = NoJob
    /\ UNCHANGED <<jobs, finished, holder, subs, others>>

SubmitNext ==
    \/ \E r \in Requests : Arrive(r) \/ RequestStep(r) \/ Rollback(r)
    \/ \E j \in JobIds : Finalize(j) \/ FailJob(j) \/ Reopen(j)
    \/ ScrapeSubmit \/ Purge \/ CacheExpires

\* A handler's coroutine and its connection are scheduled again and again.
SubmitFairness == \A r \in Requests : WF_submitVars(RequestStep(r))

SubmitSpec == SubmitInit /\ [][SubmitNext]_submitVars /\ SubmitFairness

-----------------------------------------------------------------------------
(* Properties.                                                              *)

\* The rows, the analysis, the lock and the requests are of their types.
SubmitTypeOK ==
    /\ jobs \in [JobIds -> Job]
    /\ finished \in [JobIds -> 0 .. MaxJobs]
    /\ analysis \in JobIds \cup {NoJob}
    /\ holder \in Requests \cup {NoRequest}
    /\ subs \in [Requests -> Sub]
    /\ others \in Nat

\* The rows that have ended have places of their own, and no others do: what the
\* newest source is, and which rows are purged first, is decided.
FinishedIsAnOrder ==
    /\ \A j \in JobIds :
           finished[j] > 0 <=> jobs[j].state \in {"done", "partial", "failed", "unsafe"}
    /\ \A i, j \in Ordered : finished[i] = finished[j] => i = j

SubmitInv == SubmitTypeOK /\ FinishedIsAnOrder

\* A job that a submission inserted and that has not ended since.
Submitted(j) == jobs[j].state = "inflight" /\ ~jobs[j].scraped /\ ~jobs[j].retried

\* However the requests for a URL interleave, time out and retry, at most one
\* job that POST /api/analyze inserted is in flight, committed or not: the work
\* of the advisory lock and of _find_inflight_job, for there is no unique index.
\* Jobs of POST /api/scrape and re-opened ones take no lock and are not counted.
SingleFlight == \A i, j \in JobIds : Submitted(i) /\ Submitted(j) => i = j

\* A request about to answer with a cached analysis that refers to comment
\* utterances leaves a job that has them, although they may be purged or
\* copied by another request after the look-up: else _materialize_cache_hit
\* evicts the analysis.
CachedAnswerHasUtterances ==
    \A r \in Requests :
        At(r, "commit") /\ subs[r].answer = "cached" /\ subs[r].refs =>
            jobs[subs[r].target].copies > 0 \/ subs[r].copying

\* Every call that is past the Web Risk gate is answered: the waits for the
\* rows of other transactions never form a cycle, and a contended request gives
\* up after its second look.
EveryCallIsAnswered == \A r \in Requests : At(r, "lock") ~> At(r, "ended")
=============================================================================
