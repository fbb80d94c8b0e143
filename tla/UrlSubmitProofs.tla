--------------------------- MODULE UrlSubmitProofs ---------------------------
(* The advisory lock and the in-flight look-up let at most one submitted job
   of a URL run, for any number of requests, jobs and calls of other routes. *)
EXTENDS UrlSubmit, FiniteSetTheorems, WellFoundedInduction, TLAPS

\* What the argument needs of the types: requests have a pc, rows have the
\* fields that say whether a submitted job is in flight and whose it is.
Shape ==
    /\ subs = [r \in Requests |-> subs[r]]
    /\ \A r \in Requests : "pc" \in DOMAIN subs[r]
    /\ jobs = [j \in JobIds |-> jobs[j]]
    /\ \A j \in JobIds :
           {"state", "scraped", "retried", "txn"} \subseteq DOMAIN jobs[j]

\* A request about to insert holds the lock and has seen every submitted job,
\* committed or not: an uncommitted one belongs to the holder of the lock.
Uncommitted(j) == jobs[j].state = "inflight" /\ jobs[j].txn # NoRequest
InserterHolds ==
    \A r \in Requests : At(r, "insertPending") =>
        holder = r /\ \A j \in JobIds : ~Submitted(j)
HolderInserts == \A j \in JobIds : Uncommitted(j) => jobs[j].txn = holder

LockInv == Shape /\ SingleFlight /\ InserterHolds /\ HolderInserts

-----------------------------------------------------------------------------
(* The initial states, and the steps that insert no submitted job.          *)

\* Initially no job is in flight and no request has come.
LEMMA LockInvInit == SubmitInit => LockInv
<1> SUFFICES ASSUME SubmitInit PROVE LockInv
  OBVIOUS
<1>1. PICK history \in Histories, comments \in BOOLEAN, risky \in BOOLEAN :
        /\ jobs = [j \in JobIds |->
                     IF j <= Len(history) THEN Analysed(j, history[j], comments)
                     ELSE Absent]
        /\ subs = [r \in Requests |-> [Idle EXCEPT !.risky = risky]]
  BY DEF SubmitInit
<1>2. \A j \in JobIds : j <= Len(history) => history[j] \in {"done", "partial"}
  BY DEF Histories, JobIds
<1>3. \A j \in JobIds : jobs[j].state # "inflight"
  BY <1>1, <1>2 DEF Analysed, Absent
<1>4. \A r \in Requests : subs[r].pc = "idle" /\ "pc" \in DOMAIN subs[r]
  BY <1>1 DEF Idle
<1>5. Shape
  BY <1>1, <1>4 DEF Shape, Analysed, Absent
<1> QED
  BY <1>3, <1>4, <1>5 DEF LockInv, SingleFlight, Submitted, InserterHolds,
                          HolderInserts, Uncommitted, At

\* A step that moves neither the lock nor a request to its insert, and puts no
\* row in flight that a submission inserted, keeps the invariant.
LEMMA QuietStep ==
    ASSUME LockInv, Shape', holder' = holder,
           \A r \in Requests : At(r, "insertPending")' => At(r, "insertPending"),
           \A j \in JobIds : Submitted(j)' => Submitted(j),
           \A j \in JobIds : Uncommitted(j)' => Uncommitted(j) /\ jobs'[j].txn = jobs[j].txn
    PROVE  LockInv'
<1>1. SingleFlight'
  BY DEF LockInv, SingleFlight
<1>2. InserterHolds'
  BY DEF LockInv, InserterHolds
<1>3. HolderInserts'
  BY DEF LockInv, HolderInserts
<1> QED BY <1>1, <1>2, <1>3 DEF LockInv

\* A request that goes anywhere but to its insert.
LEMMA MovesOn ==
    ASSUME Shape, NEW r \in Requests, NEW s, "pc" \in DOMAIN s,
           s.pc # "insertPending", Goto(r, s)
    PROVE  /\ subs' = [q \in Requests |-> subs'[q]]
           /\ \A q \in Requests : "pc" \in DOMAIN subs'[q]
           /\ \A q \in Requests : At(q, "insertPending")' => At(q, "insertPending")
           /\ \A q \in Requests : At(q, "insertPending")' => q # r
  BY DEF Shape, Goto, At

\* A row that is inserted with another status than in flight.
LEMMA InsertsOther ==
    ASSUME Shape, NEW r \in Requests, NEW row,
           {"state", "scraped", "retried", "txn"} \subseteq DOMAIN row,
           row.state # "inflight", InsertRow(r, row)
    PROVE  /\ jobs' = [j \in JobIds |-> jobs'[j]]
           /\ \A j \in JobIds :
                  {"state", "scraped", "retried", "txn"} \subseteq DOMAIN jobs'[j]
           /\ \A j \in JobIds : Submitted(j)' => Submitted(j)
           /\ \A j \in JobIds : Uncommitted(j)' =>
                  Uncommitted(j) /\ jobs'[j].txn = jobs[j].txn
  BY DEF Shape, InsertRow, Submitted, Uncommitted

\* Hence a step of a request that moves on, with the rows as they were.
LEMMA QuietRequest ==
    ASSUME LockInv, NEW r \in Requests, NEW s, "pc" \in DOMAIN s,
           s.pc # "insertPending", Goto(r, s), jobs' = jobs, holder' = holder
    PROVE  LockInv'
<1>1. Shape /\ Shape'
  BY MovesOn DEF LockInv, Shape
<1>2. \A j \in JobIds : Submitted(j)' => Submitted(j)
  BY DEF Submitted
<1>3. \A j \in JobIds : Uncommitted(j)' => Uncommitted(j) /\ jobs'[j].txn = jobs[j].txn
  BY DEF Uncommitted
<1> QED
  BY <1>1, <1>2, <1>3, MovesOn, QuietStep

\* The same, with a row inserted that is not in flight.
LEMMA QuietInsert ==
    ASSUME LockInv, NEW r \in Requests, NEW s, "pc" \in DOMAIN s,
           s.pc # "insertPending", Goto(r, s), holder' = holder,
           NEW row, {"state", "scraped", "retried", "txn"} \subseteq DOMAIN row,
           row.state # "inflight", InsertRow(r, row)
    PROVE  LockInv'
<1>1. Shape
  BY DEF LockInv
<1>2. Shape'
  BY <1>1, MovesOn, InsertsOther DEF Shape
<1> QED
  BY <1>1, <1>2, MovesOn, InsertsOther, QuietStep

\* The same, for the answer of a transaction.
LEMMA QuietAnswer ==
    ASSUME LockInv, NEW r \in Requests, NEW kind, NEW j, Answer(r, kind, j),
           jobs' = jobs, holder' = holder
    PROVE  LockInv'
<1> DEFINE s == [subs[r] EXCEPT !.pc = "commit", !.answer = kind, !.target = j]
<1>1. "pc" \in DOMAIN s /\ s.pc = "commit"
  BY DEF LockInv, Shape
<1>2. Goto(r, s)
  BY DEF Answer
<1> QED BY <1>1, <1>2, QuietRequest

-----------------------------------------------------------------------------
(* The steps of a request.                                                  *)

\* The steps before the look for a job in flight.
LEMMA EarlySteps ==
    ASSUME LockInv, NEW r \in Requests,
           \/ Arrive(r) \/ FindUnsafe(r) \/ LookupCache(r) \/ FindSource(r)
           \/ InsertCached(r) \/ CopyUtterances(r)
    PROVE  LockInv'
<1>0. "pc" \in DOMAIN subs[r]
  BY DEF LockInv, Shape
<1>1. CASE Arrive(r)
  <2> DEFINE s == [subs[r] EXCEPT !.pc = "lock", !.tries = 1]
  <2>1. "pc" \in DOMAIN s /\ s.pc = "lock"
    BY <1>0
  <2> QED BY <1>1, <2>1, QuietRequest DEF Arrive
<1>2. CASE FindUnsafe(r)
  <2>1. CASE \E j \in Unsafe(r) : Answer(r, "unsafe", j) /\ jobs' = jobs
    BY <1>2, <2>1, QuietAnswer DEF FindUnsafe
  <2>2. CASE /\ InsertRow(r, [Absent EXCEPT !.state = "unsafe"])
             /\ Answer(r, "unsafe", NextId)
    <3> DEFINE s == [subs[r] EXCEPT !.pc = "commit", !.answer = "unsafe", !.target = NextId]
               row == [Absent EXCEPT !.state = "unsafe"]
    <3>1. "pc" \in DOMAIN s /\ s.pc = "commit" /\ Goto(r, s)
      BY <1>0, <2>2 DEF Answer
    <3>2. {"state", "scraped", "retried", "txn"} \subseteq DOMAIN row /\ row.state = "unsafe"
      BY DEF Absent
    <3> QED BY <1>2, <2>2, <3>1, <3>2, QuietInsert DEF FindUnsafe
  <2>3. CASE Answer(r, "busy", NoJob) /\ jobs' = jobs
    BY <1>2, <2>3, QuietAnswer DEF FindUnsafe
  <2> QED BY <1>2, <2>1, <2>2, <2>3 DEF FindUnsafe
<1>3. CASE LookupCache(r)
  <2>1. PICK s : "pc" \in DOMAIN s /\ s.pc # "insertPending" /\ Goto(r, s)
    BY <1>0, <1>3 DEF LookupCache
  <2> QED BY <1>3, <2>1, QuietRequest DEF LookupCache
<1>4. ASSUME Evict(r), jobs' = jobs, holder' = holder PROVE LockInv'
  <2>1. PICK s : "pc" \in DOMAIN s /\ s.pc # "insertPending" /\ Goto(r, s)
    BY <1>0, <1>4 DEF Evict
  <2> QED BY <1>4, <2>1, QuietRequest
<1>5. CASE FindSource(r)
  <2>1. CASE Goto(r, [subs[r] EXCEPT !.pc = "insertCached",
                                     !.source = Newest(Sources(r))])
    <3>1. PICK s : "pc" \in DOMAIN s /\ s.pc # "insertPending" /\ Goto(r, s)
      BY <1>0, <2>1
    <3> QED BY <1>5, <3>1, QuietRequest DEF FindSource
  <2>2. CASE Evict(r)
    BY <1>4, <1>5, <2>2 DEF FindSource
  <2> QED BY <1>5, <2>1, <2>2 DEF FindSource
<1>6. CASE InsertCached(r)
  <2> DEFINE after == IF subs[r].refs THEN "copy" ELSE "commit"
             Hit(j) == Goto(r, [subs[r] EXCEPT !.pc = after, !.target = j,
                                               !.answer = "cached"])
             row == [Absent EXCEPT !.state = "done", !.cached = TRUE,
                                   !.payload = subs[r].found,
                                   !.comments = subs[r].refs]
  <2>1. ASSUME NEW j, Hit(j)
        PROVE  \E s : "pc" \in DOMAIN s /\ s.pc # "insertPending" /\ Goto(r, s)
    BY <1>0, <2>1
  <2>2. CASE InsertRow(r, row) /\ Hit(NextId)
    <3>1. {"state", "scraped", "retried", "txn"} \subseteq DOMAIN row /\ row.state = "done"
      BY DEF Absent
    <3>2. PICK s : "pc" \in DOMAIN s /\ s.pc # "insertPending" /\ Goto(r, s)
      BY <2>1, <2>2
    <3> QED BY <1>6, <2>2, <3>1, <3>2, QuietInsert DEF InsertCached
  <2>3. CASE jobs' = jobs /\ \E j \in CachedDone(r) : Hit(j)
    <3>1. PICK s : "pc" \in DOMAIN s /\ s.pc # "insertPending" /\ Goto(r, s)
      BY <2>1, <2>3
    <3> QED BY <1>6, <2>3, <3>1, QuietRequest DEF InsertCached
  <2> QED BY <1>6, <2>2, <2>3 DEF InsertCached
<1>7. CASE CopyUtterances(r)
  <2>1. CASE Evict(r)
    BY <1>4, <1>7, <2>1 DEF CopyUtterances
  <2>2. CASE ~Evict(r)
    <3>1. PICK s : "pc" \in DOMAIN s /\ s.pc # "insertPending" /\ Goto(r, s)
      BY <1>0, <1>7, <2>2 DEF CopyUtterances
    <3> QED BY <1>7, <3>1, QuietRequest DEF CopyUtterances
  <2> QED BY <2>1, <2>2
<1> QED
  BY <1>1, <1>2, <1>3, <1>5, <1>6, <1>7

\* The lock is taken when nobody holds it: then no row is uncommitted in flight.
LEMMA TryLockStep ==
    ASSUME LockInv, NEW r \in Requests, TryLock(r)
    PROVE  LockInv'
<1>0. "pc" \in DOMAIN subs[r] /\ Shape
  BY DEF LockInv, Shape
<1>1. PICK s : "pc" \in DOMAIN s /\ s.pc # "insertPending" /\ Goto(r, s)
  BY <1>0 DEF TryLock
<1>2. CASE holder # NoRequest
  BY <1>1, <1>2, QuietRequest DEF TryLock
<1>3. CASE holder = NoRequest
  <2>1. Shape'
    BY <1>0, <1>1, MovesOn DEF TryLock, Shape
  <2>2. \A q \in Requests : ~At(q, "insertPending")
    BY <1>3, SubmitConstants DEF LockInv, InserterHolds
  <2>3. \A q \in Requests : ~At(q, "insertPending")'
    BY <1>0, <1>1, <2>2, MovesOn
  <2>4. \A j \in JobIds : ~Uncommitted(j)
    BY <1>3 DEF LockInv, HolderInserts, Uncommitted
  <2>5. \A j \in JobIds : ~Uncommitted(j)'
    BY <2>4 DEF TryLock, Uncommitted
  <2>6. SingleFlight'
    BY DEF LockInv, SingleFlight, Submitted, TryLock
  <2> QED BY <2>1, <2>3, <2>5, <2>6 DEF LockInv, InserterHolds, HolderInserts
<1> QED BY <1>2, <1>3

\* The look sees every row in flight but those of other transactions, and those
\* belong to the holder, who is looking.
LEMMA FindInflightStep ==
    ASSUME LockInv, NEW r \in Requests, FindInflight(r)
    PROVE  LockInv'
<1>0. "pc" \in DOMAIN subs[r] /\ Shape
  BY DEF LockInv, Shape
<1>1. CASE \E j \in Inflight(r) : Answer(r, "running", j)
  BY <1>1, QuietAnswer DEF FindInflight
<1>2. CASE /\ Inflight(r) = {} /\ holder = r
           /\ Goto(r, [subs[r] EXCEPT !.pc = "insertPending"])
  <2>1. \A j \in JobIds : jobs[j].state # "inflight"
    BY <1>2 DEF LockInv, HolderInserts, Uncommitted, Inflight, Visible
  <2>2. \A j \in JobIds : ~Submitted(j)'
    BY <2>1 DEF Submitted, FindInflight
  <2>3. Shape'
    BY <1>0, <1>2 DEF Shape, Goto, FindInflight
  <2>4. \A q \in Requests \ {r} : ~At(q, "insertPending")'
    BY <1>2, <1>0 DEF LockInv, InserterHolds, At, Goto, Shape
  <2>5. InserterHolds'
    BY <1>2, <2>2, <2>4 DEF InserterHolds, FindInflight
  <2>6. HolderInserts'
    BY DEF LockInv, HolderInserts, Uncommitted, FindInflight
  <2> QED BY <2>2, <2>3, <2>5, <2>6 DEF LockInv, SingleFlight
<1>3. CASE Goto(r, [subs[r] EXCEPT !.pc = "unsafe"])
  <2>1. PICK s : "pc" \in DOMAIN s /\ s.pc # "insertPending" /\ Goto(r, s)
    BY <1>0, <1>3
  <2> QED BY <2>1, QuietRequest DEF FindInflight
<1>4. CASE Answer(r, "busy", NoJob)
  BY <1>4, QuietAnswer DEF FindInflight
<1> QED BY <1>1, <1>2, <1>3, <1>4 DEF FindInflight

\* The inserted job is the only one that a submission put in flight.
LEMMA InsertPendingStep ==
    ASSUME LockInv, NEW r \in Requests, InsertPending(r)
    PROVE  LockInv'
<1> DEFINE s == [subs[r] EXCEPT !.pc = "commit", !.answer = "new", !.target = NextId]
<1>0. Shape /\ At(r, "insertPending") /\ holder = r /\ \A j \in JobIds : ~Submitted(j)
  BY DEF LockInv, InserterHolds, InsertPending
<1>1. "pc" \in DOMAIN s /\ s.pc = "commit" /\ Goto(r, s)
  BY <1>0 DEF InsertPending, Answer, Shape
<1>2. \A j \in JobIds : j # NextId => jobs'[j] = jobs[j]
  BY <1>0 DEF InsertPending, InsertRow, Shape
<1>3. \A j \in JobIds : j = NextId => jobs'[j].txn = r
  BY <1>0 DEF InsertPending, InsertRow, Shape, Absent
<1>4. Shape'
  BY <1>0, <1>1, MovesOn DEF Shape, InsertPending, InsertRow, Absent
<1>5. SingleFlight'
  BY <1>0, <1>2 DEF SingleFlight, Submitted
<1>6. InserterHolds'
  <2>1. \A q \in Requests : At(q, "insertPending") => q = r
    BY <1>0 DEF LockInv, InserterHolds
  <2> QED BY <1>0, <1>1, <2>1, MovesOn DEF InserterHolds
<1>7. HolderInserts'
  BY <1>0, <1>2, <1>3 DEF LockInv, HolderInserts, Uncommitted, InsertPending
<1> QED BY <1>4, <1>5, <1>6, <1>7 DEF LockInv

\* What the transaction inserted stays, as nobody's, and the lock goes with it.
LEMMA CommitStep ==
    ASSUME LockInv, NEW r \in Requests, Commit(r)
    PROVE  LockInv'
<1>0. Shape /\ At(r, "commit")
  BY DEF LockInv, Commit
<1>1. "pc" \in DOMAIN AfterCommit(subs[r]) /\ AfterCommit(subs[r]).pc # "insertPending"
  BY DEF AfterCommit, Idle, Ended
<1>2. Goto(r, AfterCommit(subs[r]))
  BY DEF Commit
<1>3. \A j \in JobIds :
        /\ {"state", "scraped", "retried", "txn"} \subseteq DOMAIN jobs'[j]
        /\ jobs'[j].state = jobs[j].state
        /\ jobs'[j].scraped = jobs[j].scraped
        /\ jobs'[j].retried = jobs[j].retried
        /\ jobs'[j].txn = IF jobs[j].txn = r THEN NoRequest ELSE jobs[j].txn
  BY <1>0 DEF Commit, Shape
<1>4. Shape'
  BY <1>0, <1>1, <1>2, <1>3, MovesOn DEF Shape, Commit
<1>5. \A j \in JobIds : Submitted(j)' <=> Submitted(j)
  BY <1>3 DEF Submitted
<1>6. SingleFlight'
  BY <1>5 DEF LockInv, SingleFlight
<1>7. \A q \in Requests : q # r /\ holder = q => holder' = q
  BY DEF Commit, Release
<1>8. InserterHolds'
  BY <1>0, <1>1, <1>2, <1>5, <1>7, MovesOn DEF LockInv, InserterHolds
<1>9. HolderInserts'
  BY <1>3 DEF LockInv, HolderInserts, Uncommitted, Commit, Release
<1> QED BY <1>4, <1>6, <1>8, <1>9 DEF LockInv

\* What the transaction inserted is gone, and the lock with it.
LEMMA RollbackStep ==
    ASSUME LockInv, NEW r \in Requests, Rollback(r)
    PROVE  LockInv'
<1>0. Shape
  BY DEF LockInv
<1>1. "pc" \in DOMAIN Ended /\ Ended.pc = "ended" /\ Goto(r, Ended)
  BY DEF Ended, Idle, Rollback
<1>2. \A j \in JobIds : jobs'[j] = IF jobs[j].txn = r THEN Absent ELSE jobs[j]
  BY DEF Rollback
<1>3. Shape'
  BY <1>0, <1>1, <1>2, MovesOn DEF Shape, Rollback, Absent
<1>4. \A j \in JobIds : Submitted(j)' => Submitted(j)
  BY <1>2 DEF Submitted, Absent
<1>5. SingleFlight'
  BY <1>4 DEF LockInv, SingleFlight
<1>6. InserterHolds'
  <2>1. \A q \in Requests : q # r /\ holder = q => holder' = q
    BY DEF Rollback, Release
  <2> QED BY <1>0, <1>1, <1>4, <2>1, MovesOn DEF LockInv, InserterHolds
<1>7. HolderInserts'
  BY <1>2 DEF LockInv, HolderInserts, Uncommitted, Rollback, Release, Absent
<1> QED BY <1>3, <1>5, <1>6, <1>7 DEF LockInv

\* The request after its transaction.
LEMMA LateSteps ==
    ASSUME LockInv, NEW r \in Requests, Enqueue(r) \/ MarkEnqueueFailed(r)
    PROVE  LockInv'
<1>0. Shape /\ "pc" \in DOMAIN subs[r] /\ "pc" \in DOMAIN Ended /\ Ended.pc = "ended"
  BY DEF LockInv, Shape, Ended, Idle
<1>1. CASE Enqueue(r)
  <2>1. PICK s : "pc" \in DOMAIN s /\ s.pc # "insertPending" /\ Goto(r, s)
    BY <1>0, <1>1 DEF Enqueue
  <2> QED BY <1>1, <2>1, QuietRequest DEF Enqueue
<1>2. CASE MarkEnqueueFailed(r)
  <2>1. \A j \in JobIds :
          /\ {"state", "scraped", "retried", "txn"} \subseteq DOMAIN jobs'[j]
          /\ jobs'[j].state \in {jobs[j].state, "failed"}
          /\ jobs'[j].scraped = jobs[j].scraped
          /\ jobs'[j].retried = jobs[j].retried
          /\ jobs'[j].txn = jobs[j].txn
    BY <1>0, <1>2 DEF MarkEnqueueFailed, Shape
  <2>2. Shape'
    BY <1>0, <1>2, <2>1, MovesOn DEF Shape, MarkEnqueueFailed
  <2> QED
    BY <1>0, <1>2, <2>1, <2>2, MovesOn, QuietStep
    DEF MarkEnqueueFailed, Submitted, Uncommitted
<1> QED BY <1>1, <1>2

-----------------------------------------------------------------------------
(* The environment.                                                         *)

\* No step of the rest of the system puts a submitted job in flight: a job that
\* is re-opened counts as retried, one of POST /api/scrape as scraped.
LEMMA EnvironmentSteps ==
    ASSUME LockInv,
           \/ \E j \in JobIds : Finalize(j) \/ FailJob(j) \/ Reopen(j)
           \/ ScrapeSubmit \/ Purge \/ CacheExpires
    PROVE  LockInv'
<1>0. Shape /\ subs' = subs /\ holder' = holder
  BY DEF LockInv, Finalize, FailJob, Reopen, ScrapeSubmit, Purge, CacheExpires
<1>1. \A q \in Requests : At(q, "insertPending")' => At(q, "insertPending")
  BY <1>0 DEF At
<1>2. ASSUME jobs' = [j \in JobIds |-> jobs'[j]],
             \A j \in JobIds :
               {"state", "scraped", "retried", "txn"} \subseteq DOMAIN jobs'[j],
             \A j \in JobIds :
               \/ jobs'[j].state # "inflight"
               \/ jobs'[j].scraped /\ jobs'[j].txn = NoRequest
               \/ jobs'[j].retried /\ jobs'[j].txn = NoRequest
               \/ /\ jobs'[j].state = jobs[j].state
                  /\ jobs'[j].scraped = jobs[j].scraped
                  /\ jobs'[j].retried = jobs[j].retried
                  /\ jobs'[j].txn = jobs[j].txn
      PROVE  LockInv'
  <2>1. Shape'
    BY <1>0, <1>2 DEF Shape
  <2>2. \A j \in JobIds : Submitted(j)' => Submitted(j)
    BY <1>2 DEF Submitted
  <2>3. \A j \in JobIds : Uncommitted(j)' => Uncommitted(j) /\ jobs'[j].txn = jobs[j].txn
    BY <1>2 DEF Uncommitted
  <2> QED BY <1>0, <1>1, <2>1, <2>2, <2>3, QuietStep
<1>3. ASSUME NEW j \in JobIds, Finalize(j) PROVE LockInv'
  <2>1. PICK status \in {"done", "partial"}, comments \in BOOLEAN :
          jobs' = [jobs EXCEPT ![j].state = status, ![j].payload = j,
                               ![j].comments = comments, ![j].copies = 1]
    BY <1>3 DEF Finalize
  <2>2. \A k \in JobIds :
          {"state", "scraped", "retried", "txn"} \subseteq DOMAIN jobs'[k]
    BY <1>0, <2>1 DEF Shape
  <2>3. \A k \in JobIds : jobs'[k].state # "inflight" \/ jobs'[k] = jobs[k]
    BY <1>0, <2>1 DEF Shape
  <2>4. jobs' = [k \in JobIds |-> jobs'[k]]
    BY <1>0, <2>1 DEF Shape
  <2> QED BY <1>2, <2>2, <2>3, <2>4
<1>4. ASSUME NEW j \in JobIds, FailJob(j) PROVE LockInv'
  BY <1>0, <1>2, <1>4 DEF FailJob, Shape
<1>5. ASSUME NEW j \in JobIds, Reopen(j) PROVE LockInv'
  BY <1>0, <1>2, <1>5 DEF Reopen, Shape, Committed
<1>6. CASE ScrapeSubmit
  <2>1. PICK state : jobs' = [jobs EXCEPT ![LastId] =
                                [Absent EXCEPT !.state = state, !.scraped = TRUE]]
    BY <1>6 DEF ScrapeSubmit
  <2> DEFINE row == [Absent EXCEPT !.state = state, !.scraped = TRUE]
  <2>2. /\ {"state", "scraped", "retried", "txn"} \subseteq DOMAIN row
        /\ row.scraped /\ row.txn = NoRequest
    BY DEF Absent
  <2> HIDE DEF row
  <2>3. \A k \in JobIds : jobs'[k] = jobs[k] \/ jobs'[k] = row
    BY <1>0, <2>1 DEF Shape, row
  <2>4. jobs' = [k \in JobIds |-> jobs'[k]]
    BY <1>0, <2>1 DEF Shape
  <2> QED BY <1>0, <1>2, <2>2, <2>3, <2>4 DEF Shape
<1>7. CASE Purge
  <2>1. PICK old : jobs' = [j \in JobIds |->
                              IF j \in old
                              THEN [jobs[j] EXCEPT !.expired = TRUE, !.copies = 0,
                                                   !.payload = NoJob]
                              ELSE jobs[j]]
    BY <1>7 DEF Purge
  <2>2. \A k \in JobIds :
          {"state", "scraped", "retried", "txn"} \subseteq DOMAIN jobs'[k]
    BY <1>0, <2>1 DEF Shape
  <2>3. \A k \in JobIds : /\ jobs'[k].state = jobs[k].state
                          /\ jobs'[k].scraped = jobs[k].scraped
                          /\ jobs'[k].retried = jobs[k].retried
                          /\ jobs'[k].txn = jobs[k].txn
    BY <1>0, <2>1 DEF Shape
  <2>4. jobs' = [k \in JobIds |-> jobs'[k]]
    BY <2>1
  <2> QED BY <1>2, <2>2, <2>3, <2>4
<1>8. CASE CacheExpires
  BY <1>0, <1>2, <1>8 DEF CacheExpires, Shape
<1> QED BY <1>3, <1>4, <1>5, <1>6, <1>7, <1>8

-----------------------------------------------------------------------------
(* The theorem.                                                             *)

\* However many requests and jobs there are, at most one submitted job of the
\* URL is in flight: what _try_advisory_lock and _find_inflight_job are for.
THEOREM SubmitSingleFlight == SubmitSpec => []SingleFlight
<1>1. SubmitInit => LockInv
  BY LockInvInit
<1>2. LockInv /\ [SubmitNext]_submitVars => LockInv'
  <2> SUFFICES ASSUME LockInv, [SubmitNext]_submitVars PROVE LockInv'
    OBVIOUS
  <2>1. ASSUME NEW r \in Requests, RequestStep(r) PROVE LockInv'
    BY <2>1, EarlySteps, TryLockStep, FindInflightStep, InsertPendingStep,
       CommitStep, LateSteps DEF RequestStep
  <2>2. ASSUME NEW r \in Requests, Arrive(r) \/ Rollback(r) PROVE LockInv'
    BY <2>2, EarlySteps, RollbackStep
  <2>3. CASE \/ \E j \in JobIds : Finalize(j) \/ FailJob(j) \/ Reopen(j)
             \/ ScrapeSubmit \/ Purge \/ CacheExpires
    BY <2>3, EnvironmentSteps
  <2>4. CASE UNCHANGED submitVars
    <3>1. UNCHANGED <<jobs, holder, subs>>
      BY <2>4 DEF submitVars
    <3> QED
      BY <3>1 DEF LockInv, Shape, SingleFlight, Submitted, InserterHolds,
                  HolderInserts, Uncommitted, At
  <2> QED BY <2>1, <2>2, <2>3, <2>4 DEF SubmitNext
<1>3. LockInv => SingleFlight
  BY DEF LockInv
<1> QED BY <1>1, <1>2, <1>3, PTL DEF SubmitSpec

-----------------------------------------------------------------------------
(* A cached answer has utterances.                                          *)

\* The fields of the types that this argument needs.
HitShape ==
    /\ subs = [r \in Requests |-> subs[r]]
    /\ \A r \in Requests :
           {"pc", "answer", "refs", "target", "copying"} \subseteq DOMAIN subs[r]
    /\ jobs = [j \in JobIds |-> jobs[j]]
    /\ \A j \in JobIds : /\ {"state", "txn", "copies"} \subseteq DOMAIN jobs[j]
                         /\ jobs[j].copies \in Nat

\* A request that answers from the cache has a row that its transaction sees,
\* and at its commit one with utterances.
HitRow(r) == subs[r].target \in JobIds /\ Visible(r, subs[r].target)
Hit(r) == At(r, "commit") /\ subs[r].answer = "cached" /\ subs[r].refs
HitOK(r) ==
    /\ At(r, "copy") => HitRow(r)
    /\ Hit(r) => HitRow(r) /\ (jobs[subs[r].target].copies > 0 \/ subs[r].copying)

HitInv == HitShape /\ \A r \in Requests : HitOK(r)

\* There is a lowest and a highest unused row if there is an unused row.
LEMMA NextIdUnused == ASSUME Unused # {} PROVE NextId \in Unused
<1>1. Unused \subseteq Nat
  BY DEF Unused, JobIds
<1>2. PICK j \in Unused : \A k \in Unused : <<k, j>> \notin OpToRel(<, Nat)
  BY <1>1, WFMin, NatLessThanWellFounded, Zenon
<1>3. \A k \in Unused : <<k, j>> \in OpToRel(<, Nat) <=> k < j
  BY <1>1, Zenon DEF OpToRel
<1>4. \A k \in Unused : ~(k < j)
  BY <1>2, <1>3, Zenon
<1>5. \A k \in Unused : j <= k
  BY <1>1, <1>4
<1> QED BY <1>5 DEF NextId

LEMMA LastIdUnused == ASSUME Unused # {} PROVE LastId \in Unused
<1> DEFINE T == {MaxJobs - k : k \in Unused}
<1>1. T \subseteq Nat /\ T # {} /\ Unused \subseteq Nat
  BY SubmitConstants DEF Unused, JobIds
<1>2. PICK m \in T : \A k \in T : <<k, m>> \notin OpToRel(<, Nat)
  BY <1>1, WFMin, NatLessThanWellFounded, Zenon
<1>3. \A k \in T : <<k, m>> \in OpToRel(<, Nat) <=> k < m
  BY <1>1, Zenon DEF OpToRel
<1>4. \A k \in T : ~(k < m)
  BY <1>2, <1>3, Zenon
<1>5. PICK j \in Unused : m = MaxJobs - j
  OBVIOUS
<1>6. ASSUME NEW k \in Unused PROVE k <= j
  <2>1. MaxJobs - k \in T
    OBVIOUS
  <2>2. ~(MaxJobs - k < MaxJobs - j)
    BY <1>4, <1>5, <2>1
  <2> HIDE DEF T
  <2> QED BY <1>1, <2>2, SubmitConstants
<1> QED BY <1>6 DEF LastId

\* Initially no request has come.
LEMMA HitInvInit == SubmitInit => HitInv
<1> SUFFICES ASSUME SubmitInit PROVE HitInv
  OBVIOUS
<1>1. PICK history \in Histories, comments \in BOOLEAN, risky \in BOOLEAN :
        /\ jobs = [j \in JobIds |->
                     IF j <= Len(history) THEN Analysed(j, history[j], comments)
                     ELSE Absent]
        /\ subs = [r \in Requests |-> [Idle EXCEPT !.risky = risky]]
  BY DEF SubmitInit
<1>2. \A r \in Requests : subs[r].pc = "idle"
  BY <1>1 DEF Idle
<1>3. HitShape
  BY <1>1 DEF HitShape, Idle, Analysed, Absent
<1> QED BY <1>2, <1>3 DEF HitInv, HitOK, Hit, At

\* Rows that are there stay visible to those who see them and keep utterances.
RowsKept ==
    \A j \in JobIds : jobs[j].state # "absent" =>
        /\ jobs'[j].state # "absent"
        /\ jobs'[j].txn \in {jobs[j].txn, NoRequest}
        /\ jobs[j].copies > 0 => jobs'[j].copies > 0

\* Then a request that does not move keeps its promise.
LEMMA Waits ==
    ASSUME HitInv, RowsKept, NEW q \in Requests, subs'[q] = subs[q]
    PROVE  HitOK(q)'
  BY DEF HitInv, HitOK, Hit, HitRow, At, Visible, RowsKept

\* The others do not move when r does.
LEMMA Moves ==
    ASSUME HitShape, NEW r \in Requests, NEW s, Goto(r, s),
           {"pc", "answer", "refs", "target", "copying"} \subseteq DOMAIN s
    PROVE  /\ subs' = [q \in Requests |-> subs'[q]] /\ subs'[r] = s
           /\ \A q \in Requests :
                  {"pc", "answer", "refs", "target", "copying"} \subseteq DOMAIN subs'[q]
           /\ \A q \in Requests : q # r => subs'[q] = subs[q]
  BY DEF HitShape, Goto

\* An inserted row takes the place of none and is visible to its transaction.
LEMMA Inserts ==
    ASSUME HitShape, NEW r \in Requests, NEW row,
           {"state", "txn", "copies"} \subseteq DOMAIN row,
           row.copies \in Nat, row.state # "absent", InsertRow(r, row)
    PROVE  /\ jobs' = [j \in JobIds |-> jobs'[j]]
           /\ \A j \in JobIds : /\ {"state", "txn", "copies"} \subseteq DOMAIN jobs'[j]
                                /\ jobs'[j].copies \in Nat
           /\ RowsKept /\ NextId \in JobIds
           /\ jobs'[NextId].state # "absent" /\ jobs'[NextId].txn = r
<1>1. NextId \in JobIds /\ jobs[NextId].state = "absent"
  BY NextIdUnused DEF InsertRow, Unused
<1>2. jobs'[NextId] = [row EXCEPT !.txn = r]
  BY <1>1 DEF HitShape, InsertRow
<1>3. \A j \in JobIds : j # NextId => jobs'[j] = jobs[j]
  BY <1>1 DEF HitShape, InsertRow
<1>4. jobs' = [j \in JobIds |-> jobs'[j]]
  BY DEF HitShape, InsertRow
<1>5. /\ {"state", "txn", "copies"} \subseteq DOMAIN jobs'[NextId]
      /\ jobs'[NextId].state = row.state /\ jobs'[NextId].txn = r
      /\ jobs'[NextId].copies = row.copies
  BY <1>2
<1>6. RowsKept
  BY <1>1, <1>3 DEF RowsKept
<1> QED BY <1>1, <1>3, <1>4, <1>5, <1>6 DEF HitShape

\* A step of r that keeps the rows and ends without a promise.
LEMMA NoPromise ==
    ASSUME HitInv, RowsKept, NEW r \in Requests, NEW s, Goto(r, s),
           {"pc", "answer", "refs", "target", "copying"} \subseteq DOMAIN s,
           s.pc # "copy", s.pc = "commit" => s.answer # "cached" \/ ~s.refs,
           jobs' = [j \in JobIds |-> jobs'[j]],
           \A j \in JobIds : /\ {"state", "txn", "copies"} \subseteq DOMAIN jobs'[j]
                             /\ jobs'[j].copies \in Nat
    PROVE  HitInv'
<1>1. HitShape /\ HitShape'
  BY Moves DEF HitInv, HitShape
<1>2. HitOK(r)'
  BY <1>1, Moves DEF HitOK, Hit, At
<1>3. \A q \in Requests : q # r => HitOK(q)'
  BY <1>1, Moves, Waits
<1> QED BY <1>1, <1>2, <1>3 DEF HitInv

\* The same, when the rows do not change.
LEMMA NoPromiseQuiet ==
    ASSUME HitInv, NEW r \in Requests, NEW s, Goto(r, s), jobs' = jobs,
           {"pc", "answer", "refs", "target", "copying"} \subseteq DOMAIN s,
           s.pc # "copy", s.pc = "commit" => s.answer # "cached" \/ ~s.refs
    PROVE  HitInv'
<1>1. RowsKept
  BY DEF RowsKept
<1>2. /\ jobs' = [j \in JobIds |-> jobs'[j]]
      /\ \A j \in JobIds : /\ {"state", "txn", "copies"} \subseteq DOMAIN jobs'[j]
                           /\ jobs'[j].copies \in Nat
  BY DEF HitInv, HitShape
<1> QED BY <1>1, <1>2, NoPromise

\* The steps of a request that promise nothing: every one but the look-up's hit,
\* the copy and those that end the transaction.
LEMMA StepsWithoutPromise ==
    ASSUME HitInv, NEW r \in Requests,
           \/ Arrive(r) \/ TryLock(r) \/ FindUnsafe(r) \/ LookupCache(r)
           \/ FindSource(r) \/ FindInflight(r) \/ InsertPending(r) \/ Enqueue(r)
    PROVE  HitInv'
<1> DEFINE Fields == {"pc", "answer", "refs", "target", "copying"}
           Goes(s) == Goto(r, s) /\ Fields \subseteq DOMAIN s /\ s.pc # "copy"
                      /\ (s.pc = "commit" => s.answer # "cached" \/ ~s.refs)
<1>0. Fields \subseteq DOMAIN subs[r] /\ HitShape
  BY DEF HitInv, HitShape
<1>1. ASSUME NEW s, Goes(s), jobs' = jobs PROVE HitInv'
  BY <1>1, NoPromiseQuiet
<1>2. ASSUME NEW s, Goes(s), NEW row, {"state", "txn", "copies"} \subseteq DOMAIN row,
             row.copies \in Nat, row.state # "absent", InsertRow(r, row)
      PROVE  HitInv'
  BY <1>0, <1>2, Inserts, NoPromise
<1>3. ASSUME NEW kind \in {"running", "new", "unsafe", "busy"}, NEW j, Answer(r, kind, j)
      PROVE  Goes([subs[r] EXCEPT !.pc = "commit", !.answer = kind, !.target = j])
  BY <1>0, <1>3 DEF Answer
<1>4. CASE Arrive(r)
  <2>1. Goes([subs[r] EXCEPT !.pc = "lock", !.tries = 1])
    BY <1>0, <1>4 DEF Arrive
  <2> QED BY <1>1, <1>4, <2>1 DEF Arrive
<1>5. CASE TryLock(r)
  <2>1. \E s : Goes(s)
    BY <1>0, <1>5 DEF TryLock
  <2> QED BY <1>1, <1>5, <2>1 DEF TryLock
<1>6. CASE FindUnsafe(r)
  <2>1. CASE InsertRow(r, [Absent EXCEPT !.state = "unsafe"])
             /\ Answer(r, "unsafe", NextId)
    <3> DEFINE row == [Absent EXCEPT !.state = "unsafe"]
    <3>1. /\ {"state", "txn", "copies"} \subseteq DOMAIN row
          /\ row.state = "unsafe" /\ row.copies = 0
      BY DEF Absent
    <3>2. \E s : Goes(s)
      BY <1>3, <2>1
    <3> QED BY <1>2, <2>1, <3>1, <3>2
  <2>2. CASE jobs' = jobs /\ \E kind \in {"unsafe", "busy"}, j \in JobIds \cup {NoJob} :
                                 Answer(r, kind, j)
    <3>1. \E s : Goes(s)
      BY <1>3, <2>2
    <3> QED BY <1>1, <2>2, <3>1
  <2> QED BY <1>6, <2>1, <2>2 DEF FindUnsafe, Unsafe
<1>7. CASE LookupCache(r)
  <2> DEFINE s == [subs[r] EXCEPT !.found = analysis,
                     !.refs = jobs[analysis].comments,
                     !.pc = IF jobs[analysis].comments
                            THEN "source" ELSE "insertCached"]
  <2>1. CASE analysis = NoJob
    BY <1>0, <1>1, <1>7, <2>1 DEF LookupCache
  <2>2. CASE analysis # NoJob
    <3>1. Fields \subseteq DOMAIN s /\ s.pc \in {"source", "insertCached"}
      BY <1>0
    <3>2. Goto(r, s) /\ jobs' = jobs
      BY <1>7, <2>2 DEF LookupCache
    <3> HIDE DEF s
    <3>3. Goes(s)
      BY <3>1, <3>2
    <3> QED BY <1>1, <3>2, <3>3
  <2> QED BY <2>1, <2>2
<1>8. CASE FindSource(r)
  <2>1. \E s : Goes(s)
    <3>1. CASE Evict(r)
      <4>1. Goes([subs[r] EXCEPT !.pc = "inflight", !.found = NoJob,
                    !.source = NoJob, !.target = NoJob, !.answer = "none",
                    !.evicting = TRUE])
        BY <1>0, <3>1 DEF Evict
      <4> QED BY <4>1
    <3>2. CASE Goto(r, [subs[r] EXCEPT !.pc = "insertCached",
                                       !.source = Newest(Sources(r))])
      <4>1. Goes([subs[r] EXCEPT !.pc = "insertCached", !.source = Newest(Sources(r))])
        BY <1>0, <3>2
      <4> QED BY <4>1
    <3> QED BY <1>8, <3>1, <3>2 DEF FindSource
  <2> QED BY <1>1, <1>8, <2>1 DEF FindSource
<1>9. CASE FindInflight(r)
  <2>1. \E s : Goes(s)
    <3>1. CASE \E kind \in {"running", "busy"}, j \in JobIds \cup {NoJob} : Answer(r, kind, j)
      BY <1>3, <3>1
    <3>2. CASE \E pc \in {"insertPending", "unsafe"} :
                   Goto(r, [subs[r] EXCEPT !.pc = pc])
      BY <1>0, <3>2
    <3> QED BY <1>9, <3>1, <3>2 DEF FindInflight, Inflight
  <2> QED BY <1>1, <1>9, <2>1 DEF FindInflight
<1>10. CASE InsertPending(r)
  <2> DEFINE row == [Absent EXCEPT !.state = "inflight"]
  <2>1. /\ {"state", "txn", "copies"} \subseteq DOMAIN row
        /\ row.state = "inflight" /\ row.copies = 0
    BY DEF Absent
  <2>2. \E s : Goes(s)
    BY <1>3, <1>10 DEF InsertPending
  <2> QED BY <1>2, <1>10, <2>1, <2>2 DEF InsertPending
<1>11. CASE Enqueue(r)
  <2>1. \E s : Goes(s)
    BY <1>0, <1>11 DEF Enqueue, Ended, Idle
  <2> QED BY <1>1, <1>11, <2>1 DEF Enqueue
<1> QED
  BY <1>4, <1>5, <1>6, <1>7, <1>8, <1>9, <1>10, <1>11

\* The cached row that the hit inserts or finds is visible to its transaction.
LEMMA InsertCachedStep ==
    ASSUME HitInv, NEW r \in Requests, InsertCached(r)
    PROVE  HitInv'
<1> DEFINE Fields == {"pc", "answer", "refs", "target", "copying"}
           after == IF subs[r].refs THEN "copy" ELSE "commit"
           s(j) == [subs[r] EXCEPT !.pc = after, !.target = j, !.answer = "cached"]
           row == [Absent EXCEPT !.state = "done", !.cached = TRUE,
                                 !.payload = subs[r].found,
                                 !.comments = subs[r].refs]
<1>0. Fields \subseteq DOMAIN subs[r] /\ HitShape
  BY DEF HitInv, HitShape
<1>1. PICK j \in JobIds :
        /\ Goto(r, s(j)) /\ RowsKept
        /\ jobs' = [k \in JobIds |-> jobs'[k]]
        /\ \A k \in JobIds : /\ {"state", "txn", "copies"} \subseteq DOMAIN jobs'[k]
                             /\ jobs'[k].copies \in Nat
        /\ jobs'[j].state # "absent" /\ jobs'[j].txn \in {NoRequest, r}
  <2>1. CASE InsertRow(r, row) /\ Goto(r, s(NextId))
    <3>1. /\ {"state", "txn", "copies"} \subseteq DOMAIN row
          /\ row.state = "done" /\ row.copies = 0
      BY DEF Absent
    <3> HIDE DEF row, s
    <3> QED BY <1>0, <2>1, <3>1, Inserts
  <2>2. CASE jobs' = jobs /\ \E j \in CachedDone(r) : Goto(r, s(j))
    BY <1>0, <2>2 DEF CachedDone, Visible, HitShape, RowsKept
  <2> QED BY <2>1, <2>2 DEF InsertCached
<1>2. /\ Fields \subseteq DOMAIN s(j) /\ s(j).target = j
      /\ s(j).refs = subs[r].refs /\ s(j).pc = after
  BY <1>0
<1> HIDE DEF s
<1>3. HitShape'
  BY <1>0, <1>1, <1>2, Moves DEF HitShape
<1>4. HitRow(r)' /\ ~Hit(r)'
  BY <1>0, <1>1, <1>2, Moves DEF HitRow, Hit, At, Visible
<1>5. \A q \in Requests : q # r => HitOK(q)'
  BY <1>0, <1>1, <1>2, Moves, Waits
<1> QED BY <1>3, <1>4, <1>5 DEF HitInv, HitOK

\* A copy that leaves the row without utterances evicts the analysis.
LEMMA CopyStep ==
    ASSUME HitInv, NEW r \in Requests, CopyUtterances(r)
    PROVE  HitInv'
<1> DEFINE Fields == {"pc", "answer", "refs", "target", "copying"}
           had == jobs[subs[r].target].copies > 0
           copied == ~had /\ jobs[subs[r].source].copies > 0
           s == [subs[r] EXCEPT !.pc = "commit", !.copying = copied]
<1>0. /\ Fields \subseteq DOMAIN subs[r] /\ HitShape /\ jobs' = jobs
      /\ HitRow(r)
  BY DEF HitInv, HitShape, HitOK, CopyUtterances
<1>1. CASE Evict(r)
  <2> DEFINE e == [subs[r] EXCEPT !.pc = "inflight", !.found = NoJob,
                     !.source = NoJob, !.target = NoJob, !.answer = "none",
                     !.evicting = TRUE]
  <2>1. Fields \subseteq DOMAIN e /\ e.pc = "inflight" /\ Goto(r, e)
    BY <1>0, <1>1 DEF Evict
  <2> HIDE DEF e
  <2> QED BY <1>0, <2>1, NoPromiseQuiet
<1>2. CASE (had \/ copied) /\ Goto(r, s)
  <2>1. Fields \subseteq DOMAIN s /\ s.target = subs[r].target /\ s.pc = "commit"
        /\ s.copying = copied
    BY <1>0
  <2> HIDE DEF s
  <2>2. RowsKept /\ HitShape'
    BY <1>0, <1>2, <2>1, Moves DEF RowsKept, HitShape
  <2>3. subs'[r] = s /\ \A q \in Requests : q # r => HitOK(q)'
    BY <1>0, <1>2, <2>1, <2>2, Moves, Waits
  <2>4. HitOK(r)'
    BY <1>0, <1>2, <2>1, <2>3 DEF HitOK, Hit, HitRow, At, Visible
  <2> QED BY <2>2, <2>3, <2>4 DEF HitInv
<1> QED BY <1>1, <1>2 DEF CopyUtterances

\* The commit publishes rows and utterances, and the request has answered.
LEMMA CommitKeepsHits ==
    ASSUME HitInv, NEW r \in Requests, Commit(r)
    PROVE  HitInv'
<1> DEFINE s == AfterCommit(subs[r])
<1>0. HitShape
  BY DEF HitInv
<1>1. /\ {"pc", "answer", "refs", "target", "copying"} \subseteq DOMAIN s
      /\ s.pc \in {"enqueue", "lock", "ended"} /\ Goto(r, s)
  BY DEF AfterCommit, Idle, Ended, Commit
<1>2. /\ jobs' = [j \in JobIds |-> jobs'[j]]
      /\ \A j \in JobIds : /\ {"state", "txn", "copies"} \subseteq DOMAIN jobs'[j]
                           /\ jobs'[j].copies \in Nat
                           /\ jobs'[j].state = jobs[j].state
                           /\ jobs'[j].txn \in {jobs[j].txn, NoRequest}
                           /\ jobs'[j].copies >= jobs[j].copies
  <2>1. jobs' = [j \in JobIds |->
                  [jobs[j] EXCEPT
                     !.txn = IF @ = r THEN NoRequest ELSE @,
                     !.copies = IF subs[r].copying /\ subs[r].target = j
                                THEN @ + 1 ELSE @]]
    BY DEF Commit
  <2>2. ASSUME NEW j \in JobIds
        PROVE /\ {"state", "txn", "copies"} \subseteq DOMAIN jobs'[j]
              /\ jobs'[j].state = jobs[j].state
              /\ jobs'[j].txn \in {jobs[j].txn, NoRequest}
              /\ jobs'[j].copies \in {jobs[j].copies, jobs[j].copies + 1}
    BY <1>0, <2>1 DEF HitShape
  <2>3. \A j \in JobIds : jobs[j].copies \in Nat
    BY <1>0 DEF HitShape
  <2>4. jobs' = [j \in JobIds |-> jobs'[j]]
    BY <2>1
  <2> QED BY <2>2, <2>3, <2>4
<1>3. RowsKept
  BY <1>0, <1>2 DEF RowsKept, HitShape
<1> HIDE DEF s
<1> QED BY <1>1, <1>2, <1>3, NoPromise

\* A rollback removes rows that no other transaction has seen.
LEMMA RollbackKeepsHits ==
    ASSUME HitInv, NEW r \in Requests, Rollback(r)
    PROVE  HitInv'
<1>0. HitShape
  BY DEF HitInv
<1>1. /\ {"pc", "answer", "refs", "target", "copying"} \subseteq DOMAIN Ended
      /\ Ended.pc = "ended" /\ Goto(r, Ended)
  BY DEF Ended, Idle, Rollback
<1>2. \A j \in JobIds : jobs'[j] = IF jobs[j].txn = r THEN Absent ELSE jobs[j]
  BY DEF Rollback
<1>3. HitShape'
  BY <1>0, <1>1, <1>2, Moves DEF HitShape, Rollback, Absent
<1>4. HitOK(r)'
  BY <1>0, <1>1, Moves DEF HitOK, Hit, At
<1>5. ASSUME NEW q \in Requests, q # r PROVE HitOK(q)'
  <2>1. subs'[q] = subs[q] /\ HitOK(q)
    BY <1>0, <1>1, <1>5, Moves DEF HitInv
  <2>2. \A j \in JobIds : Visible(q, j) => jobs'[j] = jobs[j]
    BY <1>2, <1>5, SubmitConstants DEF Visible
  <2> QED BY <2>1, <2>2 DEF HitOK, Hit, HitRow, At, Visible
<1> QED BY <1>3, <1>4, <1>5 DEF HitInv

\* The status of a job whose task could not be created.
LEMMA MarkKeepsHits ==
    ASSUME HitInv, NEW r \in Requests, MarkEnqueueFailed(r)
    PROVE  HitInv'
<1>0. HitShape
  BY DEF HitInv
<1>1. /\ {"pc", "answer", "refs", "target", "copying"} \subseteq DOMAIN Ended
      /\ Ended.pc = "ended" /\ Goto(r, Ended)
  BY DEF Ended, Idle, MarkEnqueueFailed
<1>2. \A j \in JobIds :
        /\ {"state", "txn", "copies"} \subseteq DOMAIN jobs'[j]
        /\ jobs'[j].state \in {jobs[j].state, "failed"}
        /\ jobs'[j].txn = jobs[j].txn /\ jobs'[j].copies = jobs[j].copies
  BY <1>0 DEF MarkEnqueueFailed, HitShape
<1>3. jobs' = [j \in JobIds |-> jobs'[j]]
  BY <1>0 DEF MarkEnqueueFailed, HitShape
<1>4. RowsKept /\ \A j \in JobIds : jobs'[j].copies \in Nat
  BY <1>0, <1>2 DEF RowsKept, HitShape
<1> QED BY <1>1, <1>2, <1>3, <1>4, NoPromise

\* No step of the rest of the system takes a row or its utterances from a
\* request that is about to answer with it: the purge skips a locked row.
LEMMA EnvironmentKeepsHits ==
    ASSUME HitInv,
           \/ \E j \in JobIds : Finalize(j) \/ FailJob(j) \/ Reopen(j)
           \/ ScrapeSubmit \/ Purge \/ CacheExpires
    PROVE  HitInv'
<1>0. HitShape /\ subs' = subs
  BY DEF HitInv, Finalize, FailJob, Reopen, ScrapeSubmit, Purge, CacheExpires
<1> DEFINE Rows == /\ jobs' = [j \in JobIds |-> jobs'[j]]
                   /\ \A j \in JobIds : /\ {"state", "txn", "copies"} \subseteq DOMAIN jobs'[j]
                                        /\ jobs'[j].copies \in Nat
<1>1. ASSUME Rows, RowsKept PROVE HitInv'
  <2>1. HitShape'
    BY <1>0, <1>1 DEF HitShape
  <2>2. \A q \in Requests : HitOK(q)'
    BY <1>0, <1>1, Waits
  <2> QED BY <2>1, <2>2 DEF HitInv
<1>2. ASSUME NEW j \in JobIds, Finalize(j) PROVE HitInv'
  <2>1. PICK status \in {"done", "partial"}, comments \in BOOLEAN :
          jobs' = [jobs EXCEPT ![j].state = status, ![j].payload = j,
                               ![j].comments = comments, ![j].copies = 1]
    BY <1>2 DEF Finalize
  <2>2. \A k \in JobIds :
          /\ {"state", "txn", "copies"} \subseteq DOMAIN jobs'[k]
          /\ k # j => jobs'[k] = jobs[k]
    BY <1>0, <2>1 DEF HitShape
  <2>3. jobs'[j].state = status /\ jobs'[j].txn = jobs[j].txn /\ jobs'[j].copies = 1
    BY <1>0, <2>1 DEF HitShape
  <2>4. jobs' = [k \in JobIds |-> jobs'[k]]
    BY <1>0, <2>1 DEF HitShape
  <2>5. RowsKept
    BY <2>2, <2>3 DEF RowsKept
  <2>6. \A k \in JobIds : jobs'[k].copies \in Nat
    BY <1>0, <2>2, <2>3 DEF HitShape
  <2> QED BY <1>1, <2>2, <2>4, <2>5, <2>6
<1>3. ASSUME NEW j \in JobIds, NEW state \in {"failed", "inflight"}, NEW retried,
             jobs' = [jobs EXCEPT ![j].state = state, ![j].retried = retried]
      PROVE  HitInv'
  <2>1. \A k \in JobIds :
          /\ {"state", "txn", "copies"} \subseteq DOMAIN jobs'[k]
          /\ jobs'[k].state \in {jobs[k].state, state}
          /\ jobs'[k].txn = jobs[k].txn /\ jobs'[k].copies = jobs[k].copies
    BY <1>0, <1>3 DEF HitShape
  <2>2. jobs' = [k \in JobIds |-> jobs'[k]]
    BY <1>0, <1>3 DEF HitShape
  <2>3. RowsKept /\ \A k \in JobIds : jobs'[k].copies \in Nat
    BY <1>0, <2>1 DEF RowsKept, HitShape
  <2> QED BY <1>1, <2>1, <2>2, <2>3
<1>4. ASSUME NEW j \in JobIds, FailJob(j) PROVE HitInv'
  <2>1. \A k \in JobIds :
          /\ {"state", "txn", "copies"} \subseteq DOMAIN jobs'[k]
          /\ jobs'[k].state \in {jobs[k].state, "failed"}
          /\ jobs'[k].txn = jobs[k].txn /\ jobs'[k].copies = jobs[k].copies
    BY <1>0, <1>4 DEF FailJob, HitShape
  <2>2. jobs' = [k \in JobIds |-> jobs'[k]]
    BY <1>0, <1>4 DEF FailJob, HitShape
  <2>3. RowsKept /\ \A k \in JobIds : jobs'[k].copies \in Nat
    BY <1>0, <2>1 DEF RowsKept, HitShape
  <2> QED BY <1>1, <2>1, <2>2, <2>3
<1>5. ASSUME NEW j \in JobIds, Reopen(j) PROVE HitInv'
  BY <1>3, <1>5 DEF Reopen
<1>6. CASE ScrapeSubmit
  <2>1. PICK state \in {"inflight", "unsafe"} :
          jobs' = [jobs EXCEPT ![LastId] =
                      [Absent EXCEPT !.state = state, !.scraped = TRUE]]
    BY <1>6 DEF ScrapeSubmit
  <2> DEFINE row == [Absent EXCEPT !.state = state, !.scraped = TRUE]
  <2>2. {"state", "txn", "copies"} \subseteq DOMAIN row /\ row.copies = 0
    BY DEF Absent
  <2> HIDE DEF row
  <2>3. LastId \in JobIds /\ jobs[LastId].state = "absent"
    BY <1>6, LastIdUnused DEF ScrapeSubmit, Unused
  <2>4. /\ \A k \in JobIds : k # LastId => jobs'[k] = jobs[k]
        /\ jobs'[LastId] = row /\ jobs' = [k \in JobIds |-> jobs'[k]]
    BY <1>0, <2>1, <2>3 DEF HitShape, row
  <2>5. RowsKept
    BY <2>3, <2>4 DEF RowsKept
  <2>6. Rows
    BY <1>0, <2>2, <2>4 DEF HitShape
  <2> QED BY <1>1, <2>5, <2>6
<1>7. CASE Purge
  <2>1. PICK old :
          /\ jobs' = [j \in JobIds |->
                        IF j \in old
                        THEN [jobs[j] EXCEPT !.expired = TRUE, !.copies = 0,
                                             !.payload = NoJob]
                        ELSE jobs[j]]
          /\ \A r \in Requests : Locked(r) \notin old
          /\ \A j \in old : Committed(j)
    BY <1>7 DEF Purge
  <2>2. \A j \in JobIds :
          /\ {"state", "txn", "copies"} \subseteq DOMAIN jobs'[j]
          /\ jobs'[j].state = jobs[j].state /\ jobs'[j].txn = jobs[j].txn
          /\ jobs'[j].copies = IF j \in old THEN 0 ELSE jobs[j].copies
    BY <1>0, <2>1 DEF HitShape
  <2>3. jobs' = [j \in JobIds |-> jobs'[j]]
    BY <2>1
  <2>4. HitShape'
    BY <1>0, <2>2, <2>3 DEF HitShape
  <2>5. \A r \in Requests : Hit(r) => subs[r].target \notin old
    BY <2>1 DEF Locked, Hit
  <2>6. \A r \in Requests : HitOK(r)'
    BY <1>0, <2>2, <2>5 DEF HitInv, HitOK, Hit, HitRow, At, Visible
  <2> QED BY <2>4, <2>6 DEF HitInv
<1>8. CASE CacheExpires
  BY <1>0, <1>1, <1>8 DEF CacheExpires, HitShape, RowsKept
<1> QED BY <1>2, <1>4, <1>5, <1>6, <1>7, <1>8

\* A cached answer that refers to comments has the utterances it refers to,
\* whatever is purged, copied, evicted or rolled back at the same time.
THEOREM SubmitCachedAnswers == SubmitSpec => []CachedAnswerHasUtterances
<1>1. SubmitInit => HitInv
  BY HitInvInit
<1>2. HitInv /\ [SubmitNext]_submitVars => HitInv'
  <2> SUFFICES ASSUME HitInv, [SubmitNext]_submitVars PROVE HitInv'
    OBVIOUS
  <2>1. ASSUME NEW r \in Requests, RequestStep(r) PROVE HitInv'
    BY <2>1, StepsWithoutPromise, InsertCachedStep, CopyStep, CommitKeepsHits,
       MarkKeepsHits DEF RequestStep
  <2>2. ASSUME NEW r \in Requests, Arrive(r) \/ Rollback(r) PROVE HitInv'
    BY <2>2, StepsWithoutPromise, RollbackKeepsHits
  <2>3. CASE \/ \E j \in JobIds : Finalize(j) \/ FailJob(j) \/ Reopen(j)
             \/ ScrapeSubmit \/ Purge \/ CacheExpires
    BY <2>3, EnvironmentKeepsHits
  <2>4. CASE UNCHANGED submitVars
    <3>1. UNCHANGED <<jobs, subs>>
      BY <2>4 DEF submitVars
    <3> QED BY <3>1 DEF HitInv, HitShape, HitOK, Hit, HitRow, At, Visible
  <2> QED BY <2>1, <2>2, <2>3, <2>4 DEF SubmitNext
<1>3. HitInv => CachedAnswerHasUtterances
  BY DEF HitInv, HitOK, Hit, CachedAnswerHasUtterances
<1> QED BY <1>1, <1>2, <1>3, PTL DEF SubmitSpec

-----------------------------------------------------------------------------
(* The rows, the order of those that have ended, and the requests.          *)

OrderFits(f) ==
    /\ f \in [JobIds -> 0 .. MaxJobs]
    /\ \A i, j \in JobIds : f[i] > 0 /\ f[i] = f[j] => i = j

EndedStates == {"done", "partial", "failed", "unsafe"}

LEMMA Parts ==
    ASSUME SubmitInv
    PROVE  /\ jobs \in [JobIds -> Job] /\ subs \in [Requests -> Sub]
           /\ analysis \in JobIds \cup {NoJob} /\ holder \in Requests \cup {NoRequest}
           /\ others \in Nat /\ OrderFits(finished)
           /\ \A j \in JobIds : finished[j] > 0 <=> jobs[j].state \in EndedStates
  BY DEF SubmitInv, SubmitTypeOK, FinishedIsAnOrder, OrderFits, Ordered, EndedStates

LEMMA Whole ==
    ASSUME jobs' \in [JobIds -> Job], subs' \in [Requests -> Sub],
           analysis' \in JobIds \cup {NoJob}, holder' \in Requests \cup {NoRequest},
           others' \in Nat, OrderFits(finished'),
           \A j \in JobIds : finished'[j] > 0 <=> jobs'[j].state \in EndedStates
    PROVE  SubmitInv'
<1>1. SubmitTypeOK'
  BY DEF SubmitTypeOK, OrderFits
<1>2. FinishedIsAnOrder'
  BY DEF FinishedIsAnOrder, OrderFits, Ordered, EndedStates
<1> QED BY <1>1, <1>2 DEF SubmitInv

LEMMA JobIdsAreFinite ==
    /\ IsFiniteSet(JobIds) /\ Cardinality(JobIds) = MaxJobs
    /\ \A S \in SUBSET JobIds : /\ IsFiniteSet(S) /\ Cardinality(S) \in 0 .. MaxJobs
<1>1. IsFiniteSet(JobIds) /\ Cardinality(JobIds) = MaxJobs
  BY SubmitConstants, FS_Interval DEF JobIds
<1>2. ASSUME NEW S \in SUBSET JobIds
      PROVE  IsFiniteSet(S) /\ Cardinality(S) \in 0 .. MaxJobs
  BY <1>1, FS_Subset, FS_CardinalityType, SubmitConstants
<1> QED BY <1>1, <1>2

\* Rows that stay keep places of their own, counted among themselves.
LEMMA PlacesFit ==
    ASSUME OrderFits(finished), NEW S \in SUBSET Ordered
    PROVE  /\ OrderFits(Places(S))
           /\ \A j \in JobIds : /\ Places(S)[j] > 0 <=> j \in S
                                /\ Places(S)[j] <= Cardinality(S)
<1> DEFINE B(j) == {k \in S : finished[k] <= finished[j]}
<1>1. S \in SUBSET JobIds /\ \A j \in JobIds : finished[j] \in 0 .. MaxJobs
  BY DEF Ordered, OrderFits
<1>2. IsFiniteSet(S) /\ Cardinality(S) \in 0 .. MaxJobs
  BY <1>1, JobIdsAreFinite
<1>3. ASSUME NEW j \in S
      PROVE  /\ IsFiniteSet(B(j)) /\ Cardinality(B(j)) \in Nat \ {0}
             /\ Cardinality(B(j)) <= Cardinality(S) /\ j \in B(j)
  <2>1. B(j) \in SUBSET S /\ j \in B(j)
    BY <1>1
  <2> HIDE DEF B
  <2>2. IsFiniteSet(B(j)) /\ Cardinality(B(j)) <= Cardinality(S)
    BY <1>2, <2>1, FS_Subset
  <2>3. Cardinality(B(j)) \in Nat /\ Cardinality(B(j)) # 0
    BY <2>1, <2>2, FS_CardinalityType, FS_EmptySet
  <2> QED BY <2>1, <2>2, <2>3
<1>4. ASSUME NEW i \in S, NEW j \in S, finished[i] < finished[j]
      PROVE  Cardinality(B(i)) # Cardinality(B(j))
  <2>1. B(i) \in SUBSET B(j) /\ j \in B(j) /\ j \notin B(i)
    BY <1>1, <1>4
  <2>2. IsFiniteSet(B(j))
    BY <1>3
  <2> HIDE DEF B
  <2> QED BY <2>1, <2>2, FS_Subset
<1>5. ASSUME NEW i \in S, NEW j \in S, Cardinality(B(i)) = Cardinality(B(j)) PROVE i = j
  <2>1. ~(finished[i] < finished[j]) /\ ~(finished[j] < finished[i])
    BY <1>4, <1>5
  <2>2. finished[i] = finished[j] /\ finished[i] > 0
    BY <1>1, <2>1 DEF Ordered
  <2> QED BY <1>1, <2>2 DEF OrderFits
<1>6. \A j \in JobIds : Places(S)[j] = IF j \in S THEN Cardinality(B(j)) ELSE 0
  BY DEF Places
<1>7. Places(S) = [j \in JobIds |-> Places(S)[j]]
  BY DEF Places
<1> HIDE DEF B
<1>8. \A j \in JobIds : /\ Places(S)[j] \in 0 .. MaxJobs
                        /\ Places(S)[j] > 0 <=> j \in S
                        /\ Places(S)[j] <= Cardinality(S)
  BY <1>2, <1>3, <1>6, SubmitConstants
<1>9. \A i, j \in JobIds : Places(S)[i] > 0 /\ Places(S)[i] = Places(S)[j] => i = j
  BY <1>5, <1>6, <1>8
<1> QED BY <1>7, <1>8, <1>9 DEF OrderFits

\* A row that finishes comes last.
LEMMA FinishFits ==
    ASSUME OrderFits(finished), NEW j \in JobIds, Finish(j)
    PROVE  /\ OrderFits(finished')
           /\ \A k \in JobIds : finished'[k] > 0 <=> k = j \/ finished[k] > 0
<1> DEFINE rest == Ordered \ {j}  p == Places(rest)  n == Cardinality(rest)
<1>1. rest \in SUBSET Ordered /\ rest \in SUBSET JobIds /\ j \notin rest
      /\ \A k \in JobIds : k \in rest <=> k # j /\ finished[k] > 0
  BY DEF Ordered
<1>2. n \in 0 .. MaxJobs /\ n # MaxJobs
  <2>1. n \in 0 .. MaxJobs
    BY <1>1, JobIdsAreFinite
  <2>2. n # Cardinality(JobIds)
    BY <1>1, JobIdsAreFinite, FS_Subset
  <2> QED BY <2>1, <2>2, JobIdsAreFinite
<1>3. finished' = [p EXCEPT ![j] = n + 1]
  BY DEF Finish
<1> HIDE DEF rest
<1>4. /\ OrderFits(p)
      /\ \A k \in JobIds : (p[k] > 0 <=> k \in rest) /\ p[k] <= n
  BY <1>1, PlacesFit
<1> HIDE DEF p, n
<1>5. \A k \in JobIds : finished'[k] = IF k = j THEN n + 1 ELSE p[k]
  BY <1>3, <1>4 DEF OrderFits
<1>6. finished' \in [JobIds -> 0 .. MaxJobs]
  BY <1>2, <1>3, <1>4, SubmitConstants DEF OrderFits
<1>7. \A k \in JobIds : finished'[k] > 0 <=> k = j \/ finished[k] > 0
  BY <1>1, <1>2, <1>4, <1>5
<1>8. \A i, k \in JobIds : finished'[i] > 0 /\ finished'[i] = finished'[k] => i = k
  BY <1>2, <1>4, <1>5 DEF OrderFits
<1> QED BY <1>6, <1>7, <1>8 DEF OrderFits

\* Of jobs there is a newest.
LEMMA NewestIsOne ==
    ASSUME OrderFits(finished), NEW S \in SUBSET JobIds, S # {}
    PROVE  Newest(S) \in S
<1> DEFINE T == {MaxJobs - finished[k] : k \in S}
<1>1. T \subseteq Nat /\ T # {} /\ \A k \in S : finished[k] \in 0 .. MaxJobs
  BY SubmitConstants DEF OrderFits
<1>2. PICK m \in T : \A k \in T : <<k, m>> \notin OpToRel(<, Nat)
  BY <1>1, WFMin, NatLessThanWellFounded, Zenon
<1>3. \A k \in T : <<k, m>> \in OpToRel(<, Nat) <=> k < m
  BY <1>1, Zenon DEF OpToRel
<1>4. \A k \in T : ~(k < m)
  BY <1>2, <1>3, Zenon
<1>5. PICK j \in S : m = MaxJobs - finished[j]
  OBVIOUS
<1>6. ASSUME NEW k \in S PROVE finished[k] <= finished[j]
  <2>1. MaxJobs - finished[k] \in T
    OBVIOUS
  <2>2. ~(MaxJobs - finished[k] < MaxJobs - finished[j])
    BY <1>4, <1>5, <2>1
  <2>3. finished[k] \in 0 .. MaxJobs /\ finished[j] \in 0 .. MaxJobs
    BY <1>1
  <2> HIDE DEF T
  <2> QED BY <2>2, <2>3, SubmitConstants
<1> QED BY <1>6 DEF Newest

-----------------------------------------------------------------------------
(* The rows and the requests a step leaves.                                 *)

LEMMA InsertFits ==
    ASSUME SubmitInv, NEW r \in Requests, NEW row \in Job, InsertRow(r, row)
    PROVE  /\ NextId \in JobIds /\ jobs[NextId].state = "absent"
           /\ jobs' \in [JobIds -> Job] /\ jobs'[NextId].state = row.state
           /\ \A j \in JobIds : j # NextId => jobs'[j] = jobs[j]
<1>1. NextId \in JobIds /\ jobs[NextId].state = "absent"
  BY NextIdUnused DEF InsertRow, Unused
<1> DEFINE new == [row EXCEPT !.txn = r]
<1>2. new \in Job
  BY Zenon DEF Job
<1>3. new.state = row.state
  BY DEF Job
<1>4. jobs' = [jobs EXCEPT ![NextId] = new]
  BY DEF InsertRow
<1> HIDE DEF new
<1> QED BY <1>1, <1>2, <1>3, <1>4, Parts

LEMMA AbsentFits == Absent \in Job
  BY DEF Absent, Job

\* A step of a request that writes no row.
LEMMA RequestMoves ==
    ASSUME SubmitInv, NEW r \in Requests, NEW s \in Sub, Goto(r, s),
           holder' \in Requests \cup {NoRequest},
           UNCHANGED <<jobs, finished, analysis, others>>
    PROVE  SubmitInv'
<1>1. subs' \in [Requests -> Sub]
  BY Parts DEF Goto
<1> QED BY <1>1, Parts, Whole

\* A step of a request that inserts a row, which has ended or not.
LEMMA RequestInserts ==
    ASSUME SubmitInv, NEW r \in Requests, NEW s \in Sub, Goto(r, s),
           NEW row \in Job, InsertRow(r, row),
           \/ row.state = "inflight" /\ finished' = finished
           \/ row.state \in EndedStates /\ Finish(NextId),
           UNCHANGED <<analysis, holder, others>>
    PROVE  SubmitInv'
<1>1. subs' \in [Requests -> Sub]
  BY Parts DEF Goto
<1>2. /\ NextId \in JobIds /\ jobs[NextId].state = "absent"
      /\ jobs' \in [JobIds -> Job] /\ jobs'[NextId].state = row.state
      /\ \A j \in JobIds : j # NextId => jobs'[j] = jobs[j]
  BY InsertFits
<1>3. /\ OrderFits(finished')
      /\ \A j \in JobIds : finished'[j] > 0 <=> jobs'[j].state \in EndedStates
  <2>1. CASE row.state = "inflight" /\ finished' = finished
    BY <1>2, <2>1, Parts DEF EndedStates
  <2>2. CASE row.state \in EndedStates /\ Finish(NextId)
    BY <1>2, <2>2, Parts, FinishFits
  <2> QED BY <2>1, <2>2
<1> QED BY <1>1, <1>2, <1>3, Parts, Whole

LEMMA SubFits ==
    ASSUME SubmitInv, NEW r \in Requests
    PROVE  /\ subs[r] \in Sub
           /\ subs[r].found \in JobIds \cup {NoJob} /\ subs[r].source \in JobIds \cup {NoJob}
           /\ subs[r].refs \in BOOLEAN /\ subs[r].risky \in BOOLEAN
           /\ subs[r].tries \in 0 .. 2 /\ subs[r].target \in JobIds \cup {NoJob}
<1>1. subs[r] \in Sub
  BY Parts
<1>2. \A s \in Sub : /\ s.found \in JobIds \cup {NoJob} /\ s.source \in JobIds \cup {NoJob}
                     /\ s.refs \in BOOLEAN /\ s.risky \in BOOLEAN
                     /\ s.tries \in 0 .. 2 /\ s.target \in JobIds \cup {NoJob}
  BY Zenon DEF Sub
<1> QED BY <1>1, <1>2

SubPcs == {"idle", "lock", "unsafe", "cache", "source", "insertCached", "copy",
           "inflight", "insertPending", "commit", "enqueue", "markFailed", "ended"}
Answers == {"none", "cached", "running", "new", "unsafe", "busy"}

\* A request that goes on, in the ways there are.
LEMMA SubMoves ==
    ASSUME NEW s \in Sub, NEW pc \in SubPcs
    PROVE  [s EXCEPT !.pc = pc] \in Sub
  BY Zenon DEF Sub, SubPcs

LEMMA SubAnswers ==
    ASSUME NEW s \in Sub, NEW pc \in SubPcs, NEW kind \in Answers,
           NEW j \in JobIds \cup {NoJob}
    PROVE  /\ [s EXCEPT !.pc = pc, !.answer = kind, !.target = j] \in Sub
           /\ [s EXCEPT !.pc = pc, !.target = j, !.answer = kind] \in Sub
<1>1. [s EXCEPT !.pc = pc, !.answer = kind, !.target = j] \in Sub
  BY Zenon DEF Sub, SubPcs, Answers
<1>2. [s EXCEPT !.pc = pc, !.target = j, !.answer = kind] \in Sub
  BY Zenon DEF Sub, SubPcs, Answers
<1> QED BY <1>1, <1>2

LEMMA SubLooks ==
    ASSUME NEW s \in Sub, NEW pc \in SubPcs, NEW j \in JobIds \cup {NoJob},
           NEW refs \in BOOLEAN, NEW copying \in BOOLEAN
    PROVE  /\ [s EXCEPT !.found = j, !.refs = refs, !.pc = pc] \in Sub
           /\ [s EXCEPT !.pc = pc, !.source = j] \in Sub
           /\ [s EXCEPT !.pc = pc, !.copying = copying] \in Sub
<1>1. [s EXCEPT !.found = j, !.refs = refs, !.pc = pc] \in Sub
  BY Zenon DEF Sub, SubPcs
<1>2. [s EXCEPT !.pc = pc, !.source = j] \in Sub
  BY Zenon DEF Sub, SubPcs
<1>3. [s EXCEPT !.pc = pc, !.copying = copying] \in Sub
  BY Zenon DEF Sub, SubPcs
<1> QED BY <1>1, <1>2, <1>3

LEMMA SubBegins ==
    ASSUME NEW s \in Sub, NEW pc \in SubPcs, NEW tries \in 0 .. 2,
           NEW j \in JobIds \cup {NoJob}, NEW risky \in BOOLEAN
    PROVE  /\ [s EXCEPT !.pc = pc, !.tries = tries] \in Sub
           /\ [s EXCEPT !.pc = pc, !.target = j] \in Sub
           /\ [s EXCEPT !.pc = pc, !.tries = tries, !.risky = risky] \in Sub
           /\ [s EXCEPT !.risky = risky] \in Sub
<1>1. [s EXCEPT !.pc = pc, !.tries = tries] \in Sub
  BY Zenon DEF Sub, SubPcs
<1>2. [s EXCEPT !.pc = pc, !.target = j] \in Sub
  BY Zenon DEF Sub, SubPcs
<1>3. [s EXCEPT !.pc = pc, !.tries = tries, !.risky = risky] \in Sub
  BY Zenon DEF Sub, SubPcs
<1>4. [s EXCEPT !.risky = risky] \in Sub
  BY Zenon DEF Sub
<1> QED BY <1>1, <1>2, <1>3, <1>4

LEMMA IdleFits == Idle \in Sub /\ Ended \in Sub
<1>1. Idle \in Sub
  BY DEF Idle, Sub
<1>2. Ended \in Sub
  BY <1>1, SubMoves DEF Ended, SubPcs
<1> QED BY <1>1, <1>2

\* The answer of a transaction that writes no row.
LEMMA AnswerFits ==
    ASSUME SubmitInv, NEW r \in Requests, NEW kind \in Answers,
           NEW j \in JobIds \cup {NoJob}, Answer(r, kind, j),
           UNCHANGED <<jobs, finished, analysis, holder, others>>
    PROVE  SubmitInv'
<1> DEFINE s == [subs[r] EXCEPT !.pc = "commit", !.answer = kind, !.target = j]
<1>1. s \in Sub
  BY SubFits, SubAnswers DEF SubPcs
<1>2. Goto(r, s)
  BY DEF Answer
<1> HIDE DEF s
<1>3. holder' \in Requests \cup {NoRequest}
  BY Parts
<1> QED BY <1>1, <1>2, <1>3, RequestMoves

-----------------------------------------------------------------------------
(* The steps of a request, and of the others.                               *)

LEMMA PlainSteps ==
    ASSUME SubmitInv, NEW r \in Requests, Arrive(r) \/ TryLock(r) \/ LookupCache(r) \/ Enqueue(r)
    PROVE  SubmitInv'
<1>1. /\ UNCHANGED <<jobs, finished, analysis, others>>
      /\ holder' \in Requests \cup {NoRequest}
  BY Parts DEF Arrive, TryLock, LookupCache, Enqueue
<1>2. \E s \in Sub : Goto(r, s)
  <2>1. \A pc \in SubPcs : [subs[r] EXCEPT !.pc = pc] \in Sub
    BY SubFits, SubMoves
  <2>2. CASE Arrive(r)
    <3>1. "lock" \in SubPcs /\ 1 \in 0 .. 2
      BY DEF SubPcs
    <3>2. [subs[r] EXCEPT !.pc = "lock", !.tries = 1] \in Sub
      BY <3>1, SubFits, SubBegins
    <3> QED BY <2>2, <3>2 DEF Arrive
  <2>3. CASE TryLock(r)
    <3>1. /\ [subs[r] EXCEPT !.pc = IF subs[r].risky THEN "unsafe" ELSE "cache"] \in Sub
          /\ [subs[r] EXCEPT !.pc = "cache"] \in Sub
      BY <2>1 DEF SubPcs
    <3> QED BY <2>3, <3>1 DEF TryLock
  <2>4. CASE LookupCache(r)
    <3>1. [subs[r] EXCEPT !.pc = "inflight"] \in Sub
      BY <2>1 DEF SubPcs
    <3>2. CASE analysis = NoJob
      BY <2>4, <3>1, <3>2 DEF LookupCache
    <3>3. CASE analysis # NoJob
      <4>1. analysis \in JobIds /\ jobs[analysis] \in Job
        BY <3>3, Parts
      <4>2. jobs[analysis].comments \in BOOLEAN
        BY <4>1, Zenon DEF Job
      <4> DEFINE pc == IF jobs[analysis].comments THEN "source" ELSE "insertCached"
                 s == [subs[r] EXCEPT !.found = analysis, !.refs = jobs[analysis].comments,
                                      !.pc = pc]
      <4>3. pc \in SubPcs
        BY DEF SubPcs
      <4>4. Goto(r, s)
        BY <2>4, <3>3 DEF LookupCache
      <4> HIDE DEF pc
      <4>5. s \in Sub
        BY <4>1, <4>2, <4>3, SubFits, SubLooks
      <4> QED BY <4>4, <4>5
    <3> QED BY <3>2, <3>3
  <2>5. CASE Enqueue(r)
    <3>1. [subs[r] EXCEPT !.pc = "markFailed"] \in Sub
      BY <2>1 DEF SubPcs
    <3> QED BY <2>5, <3>1, IdleFits DEF Enqueue
  <2> QED BY <2>2, <2>3, <2>4, <2>5
<1> QED BY <1>1, <1>2, RequestMoves

LEMMA UnsafeFits ==
    ASSUME SubmitInv, NEW r \in Requests, FindUnsafe(r) PROVE SubmitInv'
<1>1. UNCHANGED <<analysis, holder, others>>
  BY DEF FindUnsafe
<1>2. CASE \E j \in JobIds \cup {NoJob} : \E kind \in Answers :
              Answer(r, kind, j) /\ UNCHANGED <<jobs, finished>>
  BY <1>1, <1>2, AnswerFits
<1>3. CASE /\ InsertRow(r, [Absent EXCEPT !.state = "unsafe"])
           /\ Finish(NextId) /\ Answer(r, "unsafe", NextId)
  <2> DEFINE row == [Absent EXCEPT !.state = "unsafe"]
             s == [subs[r] EXCEPT !.pc = "commit", !.answer = "unsafe", !.target = NextId]
  <2>1. row \in Job /\ row.state = "unsafe"
    BY DEF Absent, Job
  <2>2. NextId \in JobIds
    BY <1>3, NextIdUnused DEF InsertRow, Unused
  <2>3. s \in Sub
    BY <2>2, SubFits, SubAnswers DEF SubPcs, Answers
  <2>4. Goto(r, s)
    BY <1>3 DEF Answer
  <2> HIDE DEF row, s
  <2>5. InsertRow(r, row)
    BY <1>3 DEF row
  <2> QED BY <1>1, <1>3, <2>1, <2>3, <2>4, <2>5, RequestInserts DEF EndedStates
<1>4. Unsafe(r) \subseteq JobIds /\ "unsafe" \in Answers /\ "busy" \in Answers
  BY DEF Unsafe, Answers
<1> QED BY <1>2, <1>3, <1>4 DEF FindUnsafe

LEMMA EvictFits ==
    ASSUME SubmitInv, NEW r \in Requests, Evict(r),
           UNCHANGED <<jobs, finished, analysis, holder, others>>
    PROVE  SubmitInv'
<1> DEFINE s == [subs[r] EXCEPT !.pc = "inflight", !.found = NoJob,
                                !.source = NoJob, !.target = NoJob,
                                !.answer = "none", !.evicting = TRUE]
<1>1. s \in Sub
  BY SubFits, Zenon DEF Sub
<1>2. Goto(r, s)
  BY DEF Evict
<1> HIDE DEF s
<1> QED BY <1>1, <1>2, Parts, RequestMoves

LEMMA SourceFits ==
    ASSUME SubmitInv, NEW r \in Requests, FindSource(r) \/ CopyUtterances(r)
    PROVE  SubmitInv'
<1>1. UNCHANGED <<jobs, finished, analysis, holder, others>>
  BY DEF FindSource, CopyUtterances
<1>2. CASE Evict(r)
  BY <1>1, <1>2, EvictFits
<1>3. CASE FindSource(r) /\ Sources(r) # {}
  <2>1. Newest(Sources(r)) \in JobIds
    BY <1>3, Parts, NewestIsOne DEF Sources
  <2>2. [subs[r] EXCEPT !.pc = "insertCached", !.source = Newest(Sources(r))] \in Sub
    BY <2>1, SubFits, SubLooks DEF SubPcs
  <2> QED BY <1>1, <1>3, <2>2, Parts, RequestMoves DEF FindSource
<1>4. CASE CopyUtterances(r) /\ ~Evict(r)
  <2> DEFINE copied == /\ ~(jobs[subs[r].target].copies > 0)
                       /\ jobs[subs[r].source].copies > 0
             s == [subs[r] EXCEPT !.pc = "commit", !.copying = copied]
  <2>1. Goto(r, s)
    BY <1>4 DEF CopyUtterances
  <2>2. copied \in BOOLEAN
    OBVIOUS
  <2> HIDE DEF copied
  <2>3. s \in Sub
    BY <2>2, SubFits, SubLooks DEF SubPcs
  <2> QED BY <1>1, <2>1, <2>3, Parts, RequestMoves
<1> QED BY <1>2, <1>3, <1>4 DEF FindSource

LEMMA CachedFits ==
    ASSUME SubmitInv, NEW r \in Requests, InsertCached(r) PROVE SubmitInv'
<1> DEFINE after == IF subs[r].refs THEN "copy" ELSE "commit"
           HitAt(j) == Goto(r, [subs[r] EXCEPT !.pc = after, !.target = j,
                                              !.answer = "cached"])
           row == [Absent EXCEPT !.state = "done", !.cached = TRUE,
                                 !.payload = subs[r].found, !.comments = subs[r].refs]
<1>1. UNCHANGED <<analysis, holder, others>>
  BY DEF InsertCached
<1>2. after \in SubPcs /\ "cached" \in Answers
  BY DEF SubPcs, Answers
<1>3. \/ InsertRow(r, row) /\ Finish(NextId) /\ HitAt(NextId)
      \/ (\E j \in CachedDone(r) : HitAt(j)) /\ UNCHANGED <<jobs, finished>>
  BY DEF InsertCached
<1> HIDE DEF after
<1>4. \A j \in JobIds : [subs[r] EXCEPT !.pc = after, !.target = j, !.answer = "cached"] \in Sub
  BY <1>2, SubFits, SubAnswers
<1>5. CASE InsertRow(r, row) /\ Finish(NextId) /\ HitAt(NextId)
  <2>1. row \in Job
    BY SubFits, AbsentFits, Zenon DEF Job
  <2>2. row.state = "done"
    BY DEF Absent
  <2>3. NextId \in JobIds
    BY <1>5, NextIdUnused DEF InsertRow, Unused
  <2> HIDE DEF row
  <2> QED BY <1>1, <1>4, <1>5, <2>1, <2>2, <2>3, RequestInserts DEF EndedStates
<1>6. CASE (\E j \in CachedDone(r) : HitAt(j)) /\ UNCHANGED <<jobs, finished>>
  BY <1>1, <1>4, <1>6, Parts, RequestMoves DEF CachedDone
<1> QED BY <1>3, <1>5, <1>6

LEMMA FindInflightFits ==
    ASSUME SubmitInv, NEW r \in Requests, FindInflight(r) \/ InsertPending(r)
    PROVE  SubmitInv'
<1>1. UNCHANGED <<analysis, holder, others>>
  BY DEF FindInflight, InsertPending
<1>2. CASE FindInflight(r)
  <2>1. UNCHANGED <<jobs, finished>>
    BY <1>2 DEF FindInflight
  <2>2. Inflight(r) \subseteq JobIds /\ "running" \in Answers /\ "busy" \in Answers
    BY DEF Inflight, Answers
  <2>3. /\ [subs[r] EXCEPT !.pc = "insertPending"] \in Sub
        /\ [subs[r] EXCEPT !.pc = "unsafe"] \in Sub
    BY SubFits, SubMoves DEF SubPcs
  <2>4. \/ \E j \in JobIds \cup {NoJob} : \E kind \in Answers : Answer(r, kind, j)
        \/ \E s \in Sub : Goto(r, s)
    BY <1>2, <2>2, <2>3 DEF FindInflight
  <2> QED BY <1>1, <2>1, <2>4, Parts, AnswerFits, RequestMoves
<1>3. CASE InsertPending(r)
  <2> DEFINE row == [Absent EXCEPT !.state = "inflight"]
             s == [subs[r] EXCEPT !.pc = "commit", !.answer = "new", !.target = NextId]
  <2>1. row \in Job /\ row.state = "inflight"
    BY DEF Absent, Job
  <2>2. NextId \in JobIds
    BY <1>3, NextIdUnused DEF InsertPending, InsertRow, Unused
  <2>3. s \in Sub
    BY <2>2, SubFits, SubAnswers DEF SubPcs, Answers
  <2>4. Goto(r, s) /\ InsertRow(r, row) /\ finished' = finished
    BY <1>3 DEF InsertPending, Answer
  <2> HIDE DEF row, s
  <2> QED BY <1>1, <2>1, <2>3, <2>4, RequestInserts
<1> QED BY <1>2, <1>3

\* A commit publishes the rows of its transaction and gives the utterances.
LEMMA CommitFits ==
    ASSUME SubmitInv, NEW r \in Requests, Commit(r) PROVE SubmitInv'
<1> DEFINE txn(j) == IF jobs[j].txn = r THEN NoRequest ELSE jobs[j].txn
           copies(j) == IF subs[r].copying /\ subs[r].target = j
                        THEN jobs[j].copies + 1 ELSE jobs[j].copies
           row(j) == [jobs[j] EXCEPT !.txn = txn(j), !.copies = copies(j)]
<1>1. jobs' = [j \in JobIds |-> row(j)]
  BY DEF Commit
<1>2. ASSUME NEW j \in JobIds PROVE row(j) \in Job /\ row(j).state = jobs[j].state
  <2>1. jobs[j] \in Job
    BY Parts
  <2>2. jobs[j].copies \in Nat /\ jobs[j].txn \in Requests \cup {NoRequest}
    BY <2>1, Zenon DEF Job
  <2>3. txn(j) \in Requests \cup {NoRequest} /\ copies(j) \in Nat
    BY <2>2
  <2>4. row(j).state = jobs[j].state
    BY <2>1 DEF Job
  <2> HIDE DEF txn, copies
  <2>5. row(j) \in Job
    BY <2>1, <2>3, Zenon DEF Job
  <2> QED BY <2>4, <2>5
<1> HIDE DEF row
<1>3. jobs' \in [JobIds -> Job] /\ \A j \in JobIds : jobs'[j].state = jobs[j].state
  BY <1>1, <1>2
<1>4. AfterCommit(subs[r]) \in Sub
  <2> DEFINE new == [Idle EXCEPT !.pc = "enqueue", !.target = subs[r].target]
             again == [Idle EXCEPT !.pc = "lock", !.tries = 2, !.risky = subs[r].risky]
  <2>1. "enqueue" \in SubPcs /\ "lock" \in SubPcs /\ 2 \in 0 .. 2
    BY DEF SubPcs
  <2>2. new \in Sub
    BY <2>1, IdleFits, SubFits, SubBegins
  <2>3. again \in Sub
    BY <2>1, IdleFits, SubFits, SubBegins
  <2>4. AfterCommit(subs[r]) \in {new, again, Ended}
    BY DEF AfterCommit
  <2> QED BY <2>2, <2>3, <2>4, IdleFits
<1>5. subs' \in [Requests -> Sub]
  BY <1>4, Parts DEF Commit, Goto
<1>6. /\ finished' = finished /\ others' = others
      /\ analysis' \in JobIds \cup {NoJob} /\ holder' \in Requests \cup {NoRequest}
  BY Parts DEF Commit, Release
<1> QED BY <1>3, <1>5, <1>6, Parts, Whole

\* What a rollback takes away was nobody else's.
LEMMA RollbackFits ==
    ASSUME SubmitInv, NEW r \in Requests, Rollback(r) PROVE SubmitInv'
<1> DEFINE S == {j \in Ordered : jobs[j].txn # r}
<1>1. /\ jobs' = [j \in JobIds |-> IF jobs[j].txn = r THEN Absent ELSE jobs[j]]
      /\ finished' = Places(S)
  BY DEF Rollback
<1>2. jobs' \in [JobIds -> Job]
  BY <1>1, Parts, AbsentFits
<1>3. OrderFits(finished') /\ \A j \in JobIds : finished'[j] > 0 <=> j \in S
  BY <1>1, Parts, PlacesFit
<1>4. \A j \in JobIds : j \in S <=> finished[j] > 0 /\ jobs[j].txn # r
  BY DEF Ordered
<1>5. \A j \in JobIds : finished'[j] > 0 <=> jobs'[j].state \in EndedStates
  <2>1. Absent.state \notin EndedStates
    BY DEF Absent, EndedStates
  <2> QED BY <1>1, <1>3, <1>4, <2>1, Parts
<1>6. /\ analysis' = analysis /\ others' = others
      /\ holder' \in Requests \cup {NoRequest} /\ subs' \in [Requests -> Sub]
  BY Parts, IdleFits DEF Rollback, Release, Goto
<1> QED BY <1>2, <1>3, <1>5, <1>6, Parts, Whole

\* A row that ends.
LEMMA EndsFit ==
    ASSUME SubmitInv, NEW j \in JobIds, Finish(j), jobs' \in [JobIds -> Job],
           jobs'[j].state \in EndedStates, \A k \in JobIds : k # j => jobs'[k] = jobs[k],
           analysis' \in JobIds \cup {NoJob}, holder' \in Requests \cup {NoRequest},
           others' \in Nat, subs' \in [Requests -> Sub]
    PROVE  SubmitInv'
<1>1. /\ OrderFits(finished')
      /\ \A k \in JobIds : finished'[k] > 0 <=> k = j \/ finished[k] > 0
  BY Parts, FinishFits
<1>2. \A k \in JobIds : finished'[k] > 0 <=> jobs'[k].state \in EndedStates
  BY <1>1, Parts
<1> QED BY <1>1, <1>2, Whole

LEMMA FailedFits ==
    ASSUME SubmitInv, NEW j \in JobIds, NEW state \in {"inflight", "failed"},
           NEW retried \in BOOLEAN
    PROVE  /\ [jobs EXCEPT ![j].state = state] \in [JobIds -> Job]
           /\ [jobs EXCEPT ![j].state = state][j].state = state
           /\ [jobs EXCEPT ![j].state = state, ![j].retried = retried] \in [JobIds -> Job]
           /\ [jobs EXCEPT ![j].state = state, ![j].retried = retried][j].state = state
<1>1. jobs \in [JobIds -> Job] /\ jobs[j] \in Job
  BY Parts
<1> DEFINE a == [jobs[j] EXCEPT !.state = state]
           b == [jobs[j] EXCEPT !.state = state, !.retried = retried]
<1>2. a \in Job
  BY <1>1, Zenon DEF Job
<1>3. b \in Job
  BY <1>1, Zenon DEF Job
<1>4. a.state = state /\ b.state = state
  BY <1>1 DEF Job
<1>5. [jobs EXCEPT ![j].state = state] = [jobs EXCEPT ![j] = a]
  BY <1>1
<1>6. [jobs EXCEPT ![j].state = state, ![j].retried = retried] = [jobs EXCEPT ![j] = b]
  BY <1>1
<1> HIDE DEF a, b
<1> QED BY <1>1, <1>2, <1>3, <1>4, <1>5, <1>6

LEMMA MarkFits ==
    ASSUME SubmitInv, NEW r \in Requests, MarkEnqueueFailed(r) PROVE SubmitInv'
<1> DEFINE j == subs[r].target
<1>1. /\ jobs' = [jobs EXCEPT ![j].state = "failed"] /\ Finish(j)
      /\ analysis' = analysis /\ holder' = holder /\ others' = others
      /\ subs' \in [Requests -> Sub]
  BY Parts, IdleFits DEF MarkEnqueueFailed, Goto
<1>2. j \in JobIds \cup {NoJob} /\ NoJob \notin JobIds
  BY SubFits DEF NoJob, JobIds
<1> HIDE DEF j
<1>3. CASE j \in JobIds
  <2>1. /\ jobs' \in [JobIds -> Job] /\ jobs'[j].state = "failed"
        /\ \A k \in JobIds : k # j => jobs'[k] = jobs[k]
    BY <1>1, <1>3, FailedFits, Parts
  <2> QED BY <1>1, <1>3, <2>1, Parts, EndsFit DEF EndedStates
<1>4. CASE j \notin JobIds
  <2>1. jobs' = jobs
    BY <1>1, <1>4, Parts
  <2>2. finished' = Places(Ordered)
    BY <1>1, <1>4 DEF Finish, Ordered, Places
  <2>3. OrderFits(finished') /\ \A k \in JobIds : finished'[k] > 0 <=> k \in Ordered
    BY <2>2, Parts, PlacesFit
  <2>4. \A k \in JobIds : finished'[k] > 0 <=> jobs'[k].state \in EndedStates
    BY <2>1, <2>3, Parts DEF Ordered
  <2> QED BY <1>1, <2>1, <2>3, <2>4, Parts, Whole
<1> QED BY <1>3, <1>4

LEMMA FinalizeFits ==
    ASSUME SubmitInv, NEW j \in JobIds, Finalize(j) PROVE SubmitInv'
<1>1. PICK status \in {"done", "partial"}, comments \in BOOLEAN :
        jobs' = [jobs EXCEPT ![j].state = status, ![j].payload = j,
                             ![j].comments = comments, ![j].copies = 1]
  BY DEF Finalize
<1> DEFINE row == [jobs[j] EXCEPT !.state = status, !.payload = j,
                                  !.comments = comments, !.copies = 1]
<1>2. jobs \in [JobIds -> Job] /\ jobs[j] \in Job
  BY Parts
<1>3. row \in Job
  BY <1>2, Zenon DEF Job
<1>4. row.state = status
  BY <1>2 DEF Job
<1>5. jobs' = [jobs EXCEPT ![j] = row]
  BY <1>1, <1>2
<1> HIDE DEF row
<1>6. /\ jobs' \in [JobIds -> Job] /\ jobs'[j].state \in EndedStates
      /\ \A k \in JobIds : k # j => jobs'[k] = jobs[k]
  BY <1>2, <1>3, <1>4, <1>5 DEF EndedStates
<1>7. /\ analysis' \in JobIds \cup {NoJob} /\ holder' = holder /\ others' = others
      /\ subs' = subs /\ Finish(j)
  BY Parts DEF Finalize
<1> QED BY <1>6, <1>7, Parts, EndsFit

LEMMA FailJobFits ==
    ASSUME SubmitInv, NEW j \in JobIds, FailJob(j) PROVE SubmitInv'
<1>1. /\ jobs' = [jobs EXCEPT ![j].state = "failed"] /\ Finish(j)
      /\ UNCHANGED <<analysis, holder, subs, others>>
  BY DEF FailJob
<1>2. /\ jobs' \in [JobIds -> Job] /\ jobs'[j].state = "failed"
      /\ \A k \in JobIds : k # j => jobs'[k] = jobs[k]
  BY <1>1, FailedFits, Parts
<1> QED BY <1>1, <1>2, Parts, EndsFit DEF EndedStates

LEMMA ReopenFits ==
    ASSUME SubmitInv, NEW j \in JobIds, Reopen(j) PROVE SubmitInv'
<1>1. /\ jobs' = [jobs EXCEPT ![j].state = "inflight", ![j].retried = TRUE]
      /\ finished' = Places(Ordered \ {j})
      /\ UNCHANGED <<analysis, holder, subs>> /\ others' \in Nat
  BY Parts DEF Reopen
<1>2. /\ jobs' \in [JobIds -> Job] /\ jobs'[j].state = "inflight"
      /\ \A k \in JobIds : k # j => jobs'[k] = jobs[k]
  BY <1>1, FailedFits, Parts
<1>3. OrderFits(finished') /\ \A k \in JobIds : finished'[k] > 0 <=> k \in Ordered \ {j}
  BY <1>1, Parts, PlacesFit
<1>4. \A k \in JobIds : finished'[k] > 0 <=> jobs'[k].state \in EndedStates
  BY <1>2, <1>3, Parts DEF Ordered, EndedStates
<1> QED BY <1>1, <1>2, <1>3, <1>4, Parts, Whole

LEMMA ScrapeFits ==
    ASSUME SubmitInv, ScrapeSubmit PROVE SubmitInv'
<1>1. LastId \in JobIds /\ jobs[LastId].state = "absent"
  BY LastIdUnused DEF ScrapeSubmit, Unused
<1>2. UNCHANGED <<analysis, holder, subs>> /\ others' \in Nat
  BY Parts DEF ScrapeSubmit
<1>3. PICK state \in {"inflight", "unsafe"} :
        /\ jobs' = [jobs EXCEPT ![LastId] =
                       [Absent EXCEPT !.state = state, !.scraped = TRUE]]
        /\ state = "inflight" => finished' = finished
        /\ state = "unsafe" => Finish(LastId)
  BY DEF ScrapeSubmit
<1> DEFINE row == [Absent EXCEPT !.state = state, !.scraped = TRUE]
<1>4. row \in Job /\ row.state = state
  BY DEF Absent, Job
<1> HIDE DEF row
<1>5. /\ jobs' \in [JobIds -> Job] /\ jobs'[LastId].state = state
      /\ \A k \in JobIds : k # LastId => jobs'[k] = jobs[k]
  BY <1>1, <1>3, <1>4, Parts DEF row
<1>6. CASE state = "inflight"
  BY <1>1, <1>2, <1>3, <1>5, <1>6, Parts, Whole DEF EndedStates
<1>7. CASE state = "unsafe"
  BY <1>1, <1>2, <1>3, <1>5, <1>7, Parts, EndsFit DEF EndedStates
<1> QED BY <1>6, <1>7

LEMMA PurgeFits ==
    ASSUME SubmitInv, Purge PROVE SubmitInv'
<1>1. PICK old :
        jobs' = [j \in JobIds |->
                   IF j \in old
                   THEN [jobs[j] EXCEPT !.expired = TRUE, !.copies = 0,
                                        !.payload = NoJob]
                   ELSE jobs[j]]
  BY DEF Purge
<1>2. ASSUME NEW j \in JobIds
      PROVE  /\ [jobs[j] EXCEPT !.expired = TRUE, !.copies = 0, !.payload = NoJob] \in Job
             /\ [jobs[j] EXCEPT !.expired = TRUE, !.copies = 0, !.payload = NoJob].state
                  = jobs[j].state
  <2>1. jobs[j] \in Job
    BY Parts
  <2>2. [jobs[j] EXCEPT !.expired = TRUE, !.copies = 0, !.payload = NoJob] \in Job
    BY <2>1, Zenon DEF Job
  <2>3. [jobs[j] EXCEPT !.expired = TRUE, !.copies = 0, !.payload = NoJob].state
          = jobs[j].state
    BY <2>1 DEF Job
  <2> QED BY <2>2, <2>3
<1>3. jobs' \in [JobIds -> Job] /\ \A j \in JobIds : jobs'[j].state = jobs[j].state
  BY <1>1, <1>2, Parts
<1>4. UNCHANGED <<finished, analysis, holder, subs, others>>
  BY DEF Purge
<1> QED BY <1>3, <1>4, Parts, Whole

LEMMA SubmitStart == SubmitInit => SubmitInv
<1> SUFFICES ASSUME SubmitInit PROVE SubmitInv
  OBVIOUS
<1>1. PICK history \in Histories, comments \in BOOLEAN, risky \in BOOLEAN :
        LET n == Len(history)
        IN  /\ jobs = [j \in JobIds |->
                         IF j <= n THEN Analysed(j, history[j], comments)
                         ELSE Absent]
            /\ finished = [j \in JobIds |-> IF j <= n THEN j ELSE 0]
            /\ analysis = n
            /\ holder = NoRequest
            /\ others = IF history = <<>> THEN MaxOthers ELSE 0
            /\ subs = [r \in Requests |-> [Idle EXCEPT !.risky = risky]]
  BY DEF SubmitInit
<1> DEFINE n == Len(history)
<1>2. n \in 0 .. MaxJobs /\ \A j \in 1 .. n : history[j] \in {"done", "partial"}
  BY <1>1, SubmitConstants DEF Histories
<1> HIDE DEF n
<1>3. /\ jobs = [j \in JobIds |-> IF j <= n THEN Analysed(j, history[j], comments)
                                  ELSE Absent]
      /\ finished = [j \in JobIds |-> IF j <= n THEN j ELSE 0]
      /\ analysis = n /\ holder = NoRequest
      /\ others = IF history = <<>> THEN MaxOthers ELSE 0
      /\ subs = [r \in Requests |-> [Idle EXCEPT !.risky = risky]]
  BY <1>1 DEF n
<1>4. ASSUME NEW j \in JobIds
      PROVE  /\ jobs[j] \in Job
             /\ jobs[j].state \in (IF j <= n THEN {"done", "partial"} ELSE {"absent"})
  <2>1. CASE j <= n
    <3>1. j \in 1 .. n /\ jobs[j] = Analysed(j, history[j], comments)
      BY <1>2, <1>3, <2>1, SubmitConstants DEF JobIds
    <3>2. history[j] \in {"done", "partial"}
      BY <1>2, <3>1
    <3>3. Analysed(j, history[j], comments) \in Job
      <4> DEFINE state == history[j]
      <4>1. state \in {"done", "partial"} /\ 1 \in Nat
        BY <3>2
      <4> HIDE DEF state
      <4>2. [Absent EXCEPT !.state = state, !.payload = j, !.comments = comments,
                           !.copies = 1] \in Job
        BY <4>1, AbsentFits, Zenon DEF Job
      <4> QED BY <4>2 DEF Analysed, state
    <3>4. Analysed(j, history[j], comments).state = history[j]
      BY DEF Analysed, Absent
    <3> QED BY <2>1, <3>1, <3>2, <3>3, <3>4
  <2>2. CASE ~(j <= n)
    BY <1>3, <2>2, AbsentFits DEF Absent
  <2> QED BY <2>1, <2>2
<1>5. jobs \in [JobIds -> Job]
  BY <1>3, <1>4
<1>6. /\ finished \in [JobIds -> 0 .. MaxJobs] /\ analysis \in JobIds \cup {NoJob}
      /\ holder \in Requests \cup {NoRequest} /\ others \in Nat
  BY <1>2, <1>3, SubmitConstants DEF JobIds, NoJob
<1>7. subs \in [Requests -> Sub]
  <2>1. "idle" \in SubPcs /\ 0 \in 0 .. 2 /\ NoJob \in JobIds \cup {NoJob}
    BY DEF SubPcs
  <2>2. [Idle EXCEPT !.risky = risky] \in Sub
    BY <2>1, IdleFits, SubBegins
  <2> QED BY <1>3, <2>2
<1>8. SubmitTypeOK
  BY <1>5, <1>6, <1>7 DEF SubmitTypeOK
<1>9. FinishedIsAnOrder
  <2>1. \A j \in JobIds : finished[j] > 0 <=> j <= n
    BY <1>2, <1>3, SubmitConstants DEF JobIds
  <2>2. \A j \in JobIds : finished[j] > 0 <=>
                              jobs[j].state \in {"done", "partial", "failed", "unsafe"}
    BY <1>4, <2>1
  <2>3. \A i, j \in Ordered : finished[i] = finished[j] => i = j
    BY <1>3, <2>1 DEF Ordered
  <2> QED BY <2>2, <2>3 DEF FinishedIsAnOrder
<1> QED BY <1>8, <1>9 DEF SubmitInv

\* The rows, the order in which they ended, the analysis, the lock and the
\* requests are what they should be, whatever is committed, rolled back, re-opened
\* or purged: the newest source and the oldest rows are always decided.
THEOREM SubmitInvariant == SubmitSpec => []SubmitInv
<1>1. SubmitInv /\ [SubmitNext]_submitVars => SubmitInv'
  <2> SUFFICES ASSUME SubmitInv, [SubmitNext]_submitVars PROVE SubmitInv'
    OBVIOUS
  <2>1. ASSUME NEW r \in Requests, RequestStep(r) \/ Arrive(r) \/ Rollback(r)
        PROVE  SubmitInv'
    BY <2>1, PlainSteps, UnsafeFits, SourceFits, CachedFits, FindInflightFits,
       CommitFits, MarkFits, RollbackFits DEF RequestStep
  <2>2. ASSUME NEW j \in JobIds, Finalize(j) \/ FailJob(j) \/ Reopen(j)
        PROVE  SubmitInv'
    BY <2>2, FinalizeFits, FailJobFits, ReopenFits
  <2>3. CASE CacheExpires
    <3>1. analysis' \in JobIds \cup {NoJob} /\ UNCHANGED <<jobs, finished, holder, subs, others>>
      BY <2>3 DEF CacheExpires
    <3> QED BY <3>1, Parts, Whole
  <2>4. CASE UNCHANGED submitVars
    BY <2>4, Parts, Whole DEF submitVars
  <2> QED BY <2>1, <2>2, <2>3, <2>4, ScrapeFits, PurgeFits DEF SubmitNext
<1> QED BY <1>1, SubmitStart, PTL DEF SubmitSpec
=============================================================================
