----------------------- MODULE VibecheckJobInvProofs -----------------------
(* The inductive invariant of VibecheckJob, and what follows from it: the    *)
(* row's CHECK and payload, claims that never steal, fenced attempts, slots  *)
(* that stay settled, retries that claim once, and the lifecycle it refines. *)
EXTENDS VibecheckJobProofs

-----------------------------------------------------------------------------
(* Most steps leave alone what these theorems are about: the row's status,   *)
(* attempt, code and payload, and the cache.                                 *)

Header(r) == <<r.status, r.attempt, r.finished, r.code, r.payload>>

HeaderKept == Header(row') = Header(row) /\ cache' = cache

\* The steps that do change them.
HeaderStep ==
    \/ MarkEnqueueFailed \/ Sweep \/ SweepStalled
    \/ \E w \in Workers : \/ \E e \in queue : ClaimJob(w, e)
                          \/ SetAnalyzingStep(w) \/ FinalizeStep(w)
                          \/ ResetStep(w) \/ MarkFailedStep(w)
    \/ \E c \in Clickers : RetryClaimStep(c)

\* A slot write, a counter and the utterances flag keep the header.
LEMMA HeaderOfStatements ==
  ASSUME NEW r \in Row, NEW s \in Slugs, NEW slot, NEW n
  PROVE  /\ Header(WriteSlot(r, s, slot)) = Header(r)
         /\ Header(RevertSlot(r, s, n)) = Header(r)
         /\ Header(IncrementTransients(r)) = Header(r)
         /\ Header(PersistUtterances(r)) = Header(r)
  BY DEF Row, Header, WriteSlot, RevertSlot, IncrementTransients, PersistUtterances

\* Worker steps other than the four above keep the header.
LEMMA WorkerHeader ==
  ASSUME TypeOK, NEW w \in Workers, WorkerStep(w)
  PROVE  \/ HeaderKept
         \/ SetAnalyzingStep(w) \/ FinalizeStep(w) \/ ResetStep(w) \/ MarkFailedStep(w)
<1>1. row \in Row /\ worker[w].task.slug \in Slugs
  BY HandlerTypes DEF TypeOK
<1>2. ASSUME row' = row, cache' = cache PROVE HeaderKept
  BY <1>2 DEF HeaderKept
<1>3. CASE ExtractTransient(w)
  BY <1>1, <1>3, HeaderOfStatements, SlugsAssumption DEF ExtractTransient, HeaderKept
<1>4. CASE Persist(w)
  BY <1>1, <1>4, HeaderOfStatements, SlugsAssumption DEF Persist, HeaderKept
<1>5. ASSUME NEW s \in Slugs, RunSection(w, s) \/ RerunDependent(w, s) PROVE HeaderKept
  <2>1. cache' = cache /\ (row' = row \/ \E slot : row' = WriteSlot(row, s, slot))
    BY <1>5 DEF RunSection, RerunDependent
  <2> QED
    BY <1>1, <2>1, HeaderOfStatements DEF HeaderKept
<1>6. ASSUME NEW s \in Slugs, PollEnqueueRaises(w, s) \/ WriteDefault(w, s) PROVE HeaderKept
  <2>1. cache' = cache /\ (row' = row \/ \E slot : row' = WriteSlot(row, s, slot))
    BY <1>6 DEF PollEnqueueRaises, WriteDefault
  <2> QED
    BY <1>1, <2>1, HeaderOfStatements DEF HeaderKept
<1>7. CASE SectionDone(w) \/ SlotFailStep(w) \/ PollWrites(w)
  <2>1. /\ cache' = cache
        /\ row' = row \/ \E slot : row' = WriteSlot(row, worker[w].task.slug, slot)
    BY <1>7 DEF SectionDone, SlotFailStep, PollWrites
  <2> QED
    BY <1>1, <2>1, HeaderOfStatements DEF HeaderKept
<1>8. ASSUME NEW s \in Slugs, SectionRaises(w, s) PROVE HeaderKept
  BY <1>2, <1>8 DEF SectionRaises
<1>9. CASE \/ Extracted(w) \/ AbortFanOut(w) \/ FanOutDone(w) \/ Synthesize(w) \/ StepRaises(w)
           \/ HandlerRaises(w) \/ RerunDone(w) \/ PollPending(w) \/ PollRaises(w)
  BY <1>2, <1>9 DEF Extracted, AbortFanOut, FanOutDone, Synthesize, StepRaises,
                    HandlerRaises, RerunDone, PollPending, PollRaises
<1> QED
  BY <1>2, <1>3, <1>4, <1>5, <1>6, <1>7, <1>8, <1>9 DEF WorkerStep

\* Every step keeps the header or is one of those that change it.
LEMMA HeaderCases == ASSUME TypeOK, [Next]_vars PROVE HeaderKept \/ HeaderStep
<1>1. row \in Row
  BY DEF TypeOK
<1>2. ASSUME row' = row, cache' = cache PROVE HeaderKept
  BY <1>2 DEF HeaderKept
<1>3. CASE SubmitStep
  <2>1. CASE EnqueueJob \/ EnqueueJobRaises
    BY <1>2, <2>1 DEF EnqueueJob, EnqueueJobRaises
  <2>2. CASE MarkEnqueueFailed
    BY <2>2 DEF HeaderStep
  <2> QED
    BY <1>3, <2>1, <2>2 DEF SubmitStep
<1>4. ASSUME NEW w \in Workers, Deliver(w) PROVE HeaderKept \/ HeaderStep
  <2>1. PICK e \in queue : ClaimJob(w, e) \/ StartSection(w, e) \/ StartPoll(w, e)
    BY <1>4 DEF Deliver
  <2>2. CASE ClaimJob(w, e)
    BY <2>2 DEF HeaderStep
  <2>3. CASE StartSection(w, e) \/ StartPoll(w, e)
    BY <1>2, <2>3 DEF StartSection, StartPoll
  <2> QED
    BY <2>1, <2>2, <2>3
<1>5. ASSUME NEW w \in Workers, WorkerStep(w) PROVE HeaderKept \/ HeaderStep
  BY <1>5, WorkerHeader DEF HeaderStep
<1>6. ASSUME NEW w \in Workers, Crash(w) PROVE HeaderKept
  BY <1>2, <1>6 DEF Crash
<1>7. CASE DropStale
  BY <1>2, <1>7 DEF DropStale, StaleRun, StaleSection
<1>8. ASSUME NEW e \in queue, WaitForDedup(e) \/ LoseDelivery(e) PROVE HeaderKept
  BY <1>2, <1>8 DEF WaitForDedup, LoseDelivery
<1>9. ASSUME NEW o \in orphans, OrphanSection(o) PROVE HeaderKept
  <2>1. o.slug \in Slugs
    BY DEF TypeOK, Orphan
  <2>2. cache' = cache /\ (row' = row \/ \E slot : row' = WriteSlot(row, o.slug, slot))
    BY <1>9 DEF OrphanSection
  <2> QED
    BY <1>1, <2>1, <2>2, HeaderOfStatements DEF HeaderKept
<1>10. ASSUME NEW c \in Clickers, ClickStep(c) PROVE HeaderKept \/ HeaderStep
  <2>1. click[c].slug \in Slugs
    BY DEF TypeOK, Click
  <2>2. CASE RetryRevert(c)
    BY <1>1, <2>1, <2>2, HeaderOfStatements DEF RetryRevert, HeaderKept
  <2>3. CASE RetryEnqueue(c) \/ RetryEnqueueRaises(c) \/ \E s \in Slugs : RetryGate(c, s)
    BY <1>2, <2>3 DEF RetryEnqueue, RetryEnqueueRaises, RetryGate
  <2> QED
    BY <1>10, <2>2, <2>3 DEF ClickStep, HeaderStep
<1>11. CASE Sweep \/ SweepStalled
  BY <1>11 DEF HeaderStep
<1>12. CASE UNCHANGED vars
  BY <1>2, <1>12 DEF vars
<1> QED
  BY <1>3, <1>4, <1>5, <1>6, <1>7, <1>8, <1>9, <1>10, <1>11, <1>12 DEF Next

-----------------------------------------------------------------------------
(* Who owns an attempt. *)

\* A handler goes on: its request keeps its task and its attempt.
GoesOn(w) ==
    /\ worker[w].pc # "idle"
    /\ \E u \in WorkerState :
         /\ worker' = [worker EXCEPT ![w] = u]
         /\ u.task = worker[w].task /\ u.attempt = worker[w].attempt
         /\ u.pc \in RunStages => u.task.kind = "run"

\* Going on and answering leave every attempt with its one owner.
LEMMA OwnersKept ==
  ASSUME TypeOK, RunOwners, attempts' = attempts, NEW w \in Workers, GoesOn(w) \/ Answer(w)
  PROVE  RunOwners'
<1> USE DEF TypeOK
<1>1. CASE GoesOn(w)
  <2>1. PICK u \in WorkerState :
          /\ worker' = [worker EXCEPT ![w] = u]
          /\ u.task = worker[w].task /\ u.attempt = worker[w].attempt
          /\ u.pc \in RunStages => u.task.kind = "run"
    BY <1>1 DEF GoesOn
  <2>2. worker[w].pc # "idle"
    BY <1>1 DEF GoesOn
  <2>3. \A v \in Workers : /\ worker'[v] = IF v = w THEN u ELSE worker[v]
                           /\ worker'[v].attempt = worker[v].attempt
                           /\ RunsJob(v)' => RunsJob(v)
    BY <2>1, <2>2 DEF RunsJob
  <2>4. \A v \in Workers : worker'[v].pc \in RunStages => worker'[v].task.kind = "run"
    BY <2>1, <2>3 DEF RunOwners
  <2> QED
    BY <2>3, <2>4 DEF RunOwners
<1>2. CASE Answer(w)
  <2>1. \A v \in Workers : worker'[v] = IF v = w THEN Idle ELSE worker[v]
    BY <1>2 DEF Answer
  <2>2. Idle.pc = "idle" /\ "idle" \notin RunStages
    BY DEF Idle, RunStages
  <2>3. \A v \in Workers : RunsJob(v)' => RunsJob(v) /\ worker'[v] = worker[v]
    BY <2>1, <2>2 DEF RunsJob
  <2>4. \A v \in Workers : worker'[v].pc \in RunStages => worker'[v].task.kind = "run"
    BY <2>1, <2>2 DEF RunOwners
  <2> QED
    BY <2>3, <2>4 DEF RunOwners
<1> QED
  BY <1>1, <1>2

\* A handler that only moves to its next stage goes on.
LEMMA GoesOnTo ==
  ASSUME TypeOK, NEW w \in Workers, worker[w].pc # "idle", NEW pc \in Stages, Goto(w, pc),
         pc \in RunStages => worker[w].task.kind = "run"
  PROVE  GoesOn(w)
<1> DEFINE u == [worker[w] EXCEPT !.pc = pc]
<1>1. worker[w] \in WorkerState /\ u \in WorkerState
  BY HandlerTypes, WorkerTypes
<1>2. u.task = worker[w].task /\ u.attempt = worker[w].attempt /\ u.pc = pc
  BY <1>1 DEF WorkerState
<1>3. worker' = [worker EXCEPT ![w] = u]
  BY DEF Goto
<1> QED
  BY <1>1, <1>2, <1>3 DEF GoesOn

\* So does one that also updates its sections.
LEMMA GoesOnWith ==
  ASSUME TypeOK, RunOwners, NEW w \in Workers, worker[w].pc # "idle",
         NEW u \in WorkerState, worker' = [worker EXCEPT ![w] = u],
         u.task = worker[w].task, u.attempt = worker[w].attempt, u.pc = worker[w].pc
  PROVE  GoesOn(w)
<1>1. u.pc \in RunStages => u.task.kind = "run"
  BY DEF RunOwners
<1> QED
  BY <1>1 DEF GoesOn

\* A worker step lets its handler go on or answers, and mints no attempt.
LEMMA WorkerGoesOn ==
  ASSUME TypeOK, RunOwners, NEW w \in Workers, WorkerStep(w)
  PROVE  attempts' = attempts /\ (GoesOn(w) \/ Answer(w))
<1> USE DEF Stages, RunStages
<1> DEFINE me == worker[w]
<1>1. me \in WorkerState /\ \A s \in Slugs : me.todo \ {s} \in SUBSET Slugs
  BY HandlerTypes
<1>2. me.pc \in RunStages => me.task.kind = "run"
  BY DEF RunOwners
<1>3. CASE Extracted(w)
  BY <1>2, <1>3, GoesOnTo DEF Extracted
<1>4. CASE ExtractTransient(w)
  BY <1>2, <1>4, GoesOnTo DEF ExtractTransient
<1>5. CASE Persist(w)
  BY <1>2, <1>5, GoesOnTo DEF Persist, Ack
<1>6. CASE SetAnalyzingStep(w)
  <2>1. CASE FanOut(w)
    <3> DEFINE u == [me EXCEPT !.pc = "sections", !.todo = Slugs]
    <3>1. u \in WorkerState
      BY <1>1, WorkerTypes
    <3>2. u.task = me.task /\ u.attempt = me.attempt
      BY <1>1 DEF WorkerState
    <3>3. worker' = [worker EXCEPT ![w] = u] /\ me.pc \in RunStages \ {"idle"}
      BY <1>6, <2>1 DEF SetAnalyzingStep, FanOut
    <3>4. attempts' = attempts
      BY <1>6 DEF SetAnalyzingStep
    <3> HIDE DEF u
    <3> QED
      BY <1>2, <3>1, <3>2, <3>3, <3>4 DEF GoesOn
  <2>2. CASE Goto(w, "reset")
    BY <1>2, <1>6, <2>2, GoesOnTo DEF SetAnalyzingStep
  <2> QED
    BY <1>6, <2>1, <2>2 DEF SetAnalyzingStep
<1>7. ASSUME NEW s \in Slugs, RunSection(w, s) PROVE attempts' = attempts /\ GoesOn(w)
  <2>1. PICK result \in SectionResults(s) :
          worker' = [worker EXCEPT ![w].todo = @ \ {s},
                                   ![w].dedup = IF s = Dedup THEN result.state ELSE @]
    BY <1>7 DEF RunSection
  <2> DEFINE d == IF s = Dedup THEN result.state ELSE me.dedup
             u == [me EXCEPT !.todo = @ \ {s}, !.dedup = d]
  <2>2. d \in {"none", "done", "failed"}
    BY <1>1, SlugsAssumption DEF SectionResults, WorkerState
  <2>3. u \in WorkerState
    BY <1>1, <2>2, WorkerTypes
  <2>4. u.task = me.task /\ u.attempt = me.attempt /\ u.pc = me.pc
    BY <1>1 DEF WorkerState
  <2>5. worker' = [worker EXCEPT ![w] = u]
    BY <2>1
  <2> QED
    BY <1>7, <2>3, <2>4, <2>5, GoesOnWith DEF RunSection
<1>8. ASSUME NEW s \in Slugs, SectionRaises(w, s) \/ PollEnqueueRaises(w, s)
      PROVE  attempts' = attempts /\ GoesOn(w)
  <2> DEFINE u == [me EXCEPT !.todo = @ \ {s}, !.broken = TRUE]
  <2>1. u \in WorkerState
    BY <1>1, WorkerTypes
  <2>2. u.task = me.task /\ u.attempt = me.attempt /\ u.pc = me.pc
    BY <1>1 DEF WorkerState
  <2>3. worker' = [worker EXCEPT ![w] = u] /\ me.pc # "idle" /\ attempts' = attempts
    BY <1>8 DEF SectionRaises, PollEnqueueRaises
  <2> QED
    BY <2>1, <2>2, <2>3, GoesOnWith
<1>9. ASSUME NEW s \in Slugs,
             WriteDefault(w, s) \/ (RerunDependent(w, s) /\ WriteSlotHits(row, me.attempt))
      PROVE  attempts' = attempts /\ GoesOn(w)
  <2> DEFINE u == [me EXCEPT !.todo = @ \ {s}]
  <2>1. u \in WorkerState
    BY <1>1, WorkerTypes
  <2>2. u.task = me.task /\ u.attempt = me.attempt /\ u.pc = me.pc
    BY <1>1 DEF WorkerState
  <2>3. worker' = [worker EXCEPT ![w] = u] /\ me.pc # "idle" /\ attempts' = attempts
    BY <1>9 DEF WriteDefault, RerunDependent
  <2> QED
    BY <2>1, <2>2, <2>3, GoesOnWith
<1>10. ASSUME NEW s \in Slugs, RerunDependent(w, s), ~WriteSlotHits(row, me.attempt)
       PROVE  attempts' = attempts /\ GoesOn(w)
  BY <1>10, GoesOnTo DEF RerunDependent
<1>11. CASE AbortFanOut(w)
  <2> DEFINE u == [me EXCEPT !.pc = "reset", !.todo = {}]
  <2>1. u \in WorkerState
    BY <1>1, WorkerTypes
  <2>2. u.task = me.task /\ u.attempt = me.attempt
    BY <1>1 DEF WorkerState
  <2>3. worker' = [worker EXCEPT ![w] = u] /\ me.pc \in RunStages \ {"idle"}
    BY <1>11 DEF AbortFanOut
  <2>4. attempts' = attempts
    BY <1>11 DEF AbortFanOut
  <2> HIDE DEF u
  <2> QED
    BY <1>2, <2>1, <2>2, <2>3, <2>4 DEF GoesOn
<1>12. CASE FanOutDone(w) \/ Synthesize(w) \/ HandlerRaises(w) \/ RerunDone(w) \/ PollWrites(w)
  BY <1>12, GoesOnTo DEF FanOutDone, Synthesize, HandlerRaises, RerunDone, PollWrites
<1>13. CASE \/ FinalizeStep(w) \/ ResetStep(w) \/ MarkFailedStep(w) \/ SlotFailStep(w)
            \/ PollPending(w) \/ PollRaises(w)
  BY <1>13 DEF FinalizeStep, ResetStep, MarkFailedStep, SlotFailStep, PollPending,
               PollRaises, Ack, Nack
<1>14. CASE StepRaises(w)
  BY <1>14, GoesOnTo DEF StepRaises, Nack
<1>15. CASE SectionDone(w)
  <2>1. CASE FinalizeSlotHits(row, me.attempt, me.task.slug, me.task.id)
    <3> DEFINE pc == IF me.task.slug = Dedup THEN "rerun" ELSE "synthesize"
               todo == IF me.task.slug = Dedup THEN Dependents ELSE {}
               u == [me EXCEPT !.pc = pc, !.todo = todo]
    <3>1. todo \in SUBSET Slugs /\ pc \in Stages /\ pc \notin RunStages
      BY SlugsAssumption
    <3>2. u \in WorkerState
      BY <1>1, <3>1, WorkerTypes
    <3>3. u.task = me.task /\ u.attempt = me.attempt /\ u.pc = pc
      BY <1>1 DEF WorkerState
    <3>4. worker' = [worker EXCEPT ![w] = u]
      BY <1>15, <2>1 DEF SectionDone
    <3> HIDE DEF u
    <3> QED
      BY <1>15, <3>1, <3>2, <3>3, <3>4 DEF SectionDone, GoesOn
  <2>2. CASE ~FinalizeSlotHits(row, me.attempt, me.task.slug, me.task.id)
    BY <1>15, <2>2 DEF SectionDone, Ack
  <2> QED
    BY <2>1, <2>2
<1> QED
  BY <1>3, <1>4, <1>5, <1>6, <1>7, <1>8, <1>9, <1>10, <1>11, <1>12, <1>13, <1>14, <1>15
     DEF WorkerStep

\* A delivery starts an idle worker: a claim with an attempt nobody has.
LEMMA DeliverOwners ==
  ASSUME TypeOK, RunOwners, NEW w \in Workers, Deliver(w)
  PROVE  RunOwners'
<1> USE DEF TypeOK, RunStages
<1>1. PICK e \in queue : ClaimJob(w, e) \/ StartSection(w, e) \/ StartPoll(w, e)
  BY DEF Deliver
<1>2. \A pc, a : LET u == Started(e.task, pc, a) IN u.pc = pc /\ u.task = e.task /\ u.attempt = a
  BY DEF Started, Idle
<1>3. CASE ClaimJob(w, e)
  <2>1. e.task.kind = "run" /\ attempts' = attempts + 1
    BY <1>3 DEF ClaimJob
  <2>2. \A v \in Workers : v # w => worker'[v] = worker[v]
    BY <1>3 DEF ClaimJob
  <2>3. worker'[w].pc = "extract" /\ worker'[w].task = e.task /\ worker'[w].attempt = attempts + 1
    BY <1>2, <1>3, <2>1 DEF ClaimJob
  <2>4. \A v \in Workers : worker'[v].pc \in RunStages => worker'[v].task.kind = "run"
    BY <2>1, <2>2, <2>3 DEF RunOwners
  <2>5. \A v \in Workers : v # w /\ RunsJob(v)' => RunsJob(v) /\ worker[v].attempt \in 1..attempts
    BY <2>2 DEF RunsJob, RunOwners
  <2>6. \A v \in Workers : RunsJob(v)' => worker'[v].attempt \in 1..attempts'
    BY <2>1, <2>2, <2>3, <2>5
  <2>7. \A u, v \in Workers :
           u # v /\ RunsJob(u)' /\ RunsJob(v)' => worker'[u].attempt # worker'[v].attempt
    BY <2>2, <2>3, <2>5 DEF RunOwners
  <2> QED
    BY <2>4, <2>6, <2>7 DEF RunOwners
<1>4. CASE StartSection(w, e) \/ StartPoll(w, e)
  <2>1. e.task.kind # "run" /\ attempts' = attempts
    BY <1>4 DEF StartSection, StartPoll
  <2>2. \A v \in Workers : v # w => worker'[v] = worker[v]
    BY <1>4 DEF StartSection, StartPoll
  <2>3. worker'[w].pc \in {"handler", "poll"} /\ worker'[w].task = e.task
    BY <1>2, <1>4 DEF StartSection, StartPoll
  <2>4. \A v \in Workers : worker'[v].pc \in RunStages => worker'[v].task.kind = "run"
    BY <2>2, <2>3 DEF RunOwners
  <2>5. \A v \in Workers : RunsJob(v)' => v # w /\ RunsJob(v)
    BY <2>1, <2>2, <2>3 DEF RunsJob
  <2> QED
    BY <2>1, <2>2, <2>4, <2>5 DEF RunOwners
<1> QED
  BY <1>1, <1>3, <1>4

\* Each attempt keeps its one owner.
LEMMA OwnersInductive == ASSUME TypeOK, RunOwners, [Next]_vars PROVE RunOwners'
<1>1. CASE UNCHANGED <<worker, attempts>>
  BY <1>1 DEF RunOwners, RunsJob
<1>2. CASE SubmitStep
  BY <1>1, <1>2 DEF SubmitStep, EnqueueJob, EnqueueJobRaises, MarkEnqueueFailed
<1>3. ASSUME NEW w \in Workers, Deliver(w) PROVE RunOwners'
  BY <1>3, DeliverOwners
<1>4. ASSUME NEW w \in Workers, WorkerStep(w) PROVE RunOwners'
  BY <1>4, WorkerGoesOn, OwnersKept
<1>5. ASSUME NEW w \in Workers, Crash(w) PROVE RunOwners'
  BY <1>5, OwnersKept DEF Crash, Nack
<1>6. CASE DropStale
  BY <1>1, <1>6 DEF DropStale, StaleRun, StaleSection
<1>7. ASSUME NEW e \in queue, WaitForDedup(e) \/ LoseDelivery(e) PROVE RunOwners'
  BY <1>1, <1>7 DEF WaitForDedup, LoseDelivery
<1>8. ASSUME NEW o \in orphans, OrphanSection(o) PROVE RunOwners'
  BY <1>1, <1>8 DEF OrphanSection
<1>9. ASSUME NEW c \in Clickers, ClickStep(c) PROVE RunOwners'
  BY <1>1, <1>9 DEF ClickStep, RetryGate, RetryClaimStep, RetryEnqueue, RetryEnqueueRaises,
                    RetryRevert
<1>10. CASE Sweep \/ SweepStalled
  BY <1>1, <1>10 DEF Sweep, SweepStalled
<1>11. CASE UNCHANGED vars
  BY <1>1, <1>11 DEF vars
<1> QED
  BY <1>2, <1>3, <1>4, <1>5, <1>6, <1>7, <1>8, <1>9, <1>10, <1>11 DEF Next

-----------------------------------------------------------------------------
(* The row: its CHECK, its payload, its attempt while pending. *)

RowInv ==
    Commits(row) /\ PendingIsUnclaimed /\ PayloadOnlyOnFinalized /\ FinalizedIsComplete

\* An unfinished job shows no payload.
LEMMA NoEarlyPayload ==
  ASSUME TypeOK, PayloadOnlyOnFinalized, row.status \in NonTerminal
  PROVE  row.payload = NoPayload
  BY DEF PayloadOnlyOnFinalized, NonTerminal, Finalized

\* The steps that change the header preserve what is said of the row.
LEMMA RowInductive ==
  ASSUME TypeOK, RunOwners, RowInv, HeaderKept \/ HeaderStep
  PROVE  RowInv'
<1> USE DEF NonTerminal, Finalized, Terminal
<1>1. row \in Row
  BY DEF TypeOK
<1>2. CASE HeaderKept
  BY <1>2 DEF HeaderKept, Header, RowInv, Commits, PendingIsUnclaimed, PayloadOnlyOnFinalized,
              FinalizedIsComplete
<1>3. CASE MarkEnqueueFailed
  <2>1. /\ row'.status = "failed" /\ row'.code = "internal" /\ row'.finished
        /\ row'.payload = row.payload
    BY <1>1, <1>3 DEF MarkEnqueueFailed, MarkFailedEnqueue, Row
  <2> QED
    BY <2>1 DEF RowInv, Commits, PendingIsUnclaimed, PayloadOnlyOnFinalized, FinalizedIsComplete
<1>4. CASE Sweep \/ SweepStalled
  <2>1. row.status \in NonTerminal
    BY <1>4 DEF Sweep, SweepStalled, Sweepable
  <2>2. row'.status = "failed" /\ row'.finished /\ row'.payload = row.payload
    BY <1>1, <1>4 DEF Sweep, SweepStalled, SweepOrphan, Row
  <2>3. row.payload = NoPayload
    BY <2>1, NoEarlyPayload DEF RowInv
  <2> QED
    BY <2>2, <2>3 DEF RowInv, Commits, PendingIsUnclaimed, PayloadOnlyOnFinalized,
                      FinalizedIsComplete
<1>5. ASSUME NEW w \in Workers, NEW e \in queue, ClaimJob(w, e) PROVE RowInv'
  <2>1. row.status = "pending"
    BY <1>5 DEF ClaimJob, ClaimHits
  <2>2. row'.status = "extracting" /\ row'.finished = row.finished /\ row'.payload = row.payload
    BY <1>1, <1>5 DEF ClaimJob, Claim, Row
  <2>3. row.payload = NoPayload
    BY <2>1, NoEarlyPayload DEF RowInv
  <2> QED
    BY <2>1, <2>2, <2>3 DEF RowInv, Commits, PendingIsUnclaimed, PayloadOnlyOnFinalized,
                            FinalizedIsComplete
<1>6. ASSUME NEW w \in Workers, SetAnalyzingStep(w) PROVE RowInv'
  <2>1. cache' = cache
    BY <1>6 DEF SetAnalyzingStep
  <2>2. CASE row' = row
    BY <1>2, <2>1, <2>2 DEF HeaderKept
  <2>3. CASE row' = SetAnalyzing(row) /\ Commits(SetAnalyzing(row))
    <3>1. row'.status = "analyzing" /\ row'.finished = row.finished /\ row'.payload = row.payload
      BY <1>1, <2>3 DEF SetAnalyzing, Row
    <3>2. row.payload = NoPayload
      <4>1. row.status \in NonTerminal
        BY <1>1, <2>3, <3>1 DEF RowInv, Commits, Row
      <4> QED
        BY <4>1, NoEarlyPayload DEF RowInv
    <3> QED
      BY <2>3, <3>1, <3>2 DEF RowInv, Commits, PendingIsUnclaimed, PayloadOnlyOnFinalized,
                              FinalizedIsComplete
  <2> QED
    BY <1>6, <2>2, <2>3 DEF SetAnalyzingStep
<1>7. ASSUME NEW w \in Workers, FinalizeStep(w) PROVE RowInv'
  <2>1. CASE FinalizeHits(row, worker[w].attempt)
    <3>1. row' = Finalize(row) /\ cache' = row'.payload
      BY <1>7, <2>1 DEF FinalizeStep
    <3>2. row'.finished
      BY <1>1, <3>1 DEF Finalize, Row
    <3>3. /\ row'.status \in Finalized
          /\ \A s \in Slugs : Settled(row'.payload[s])
          /\ row'.status = "partial" <=> \E s \in Slugs : row'.payload[s].state = "failed"
      BY <1>1, <2>1, <3>1, FinalizeResult
    <3> QED
      BY <3>1, <3>2, <3>3 DEF RowInv, Commits, PendingIsUnclaimed, PayloadOnlyOnFinalized,
                              FinalizedIsComplete
  <2>2. CASE ~FinalizeHits(row, worker[w].attempt)
    BY <1>2, <1>7, <2>2 DEF FinalizeStep, HeaderKept
  <2> QED
    BY <2>1, <2>2
<1>8. ASSUME NEW w \in Workers, ResetStep(w) PROVE RowInv'
  <2> DEFINE reset == ResetForRetry(row, Envelope)
  <2>1. cache' = cache
    BY <1>8 DEF ResetStep
  <2>2. CASE ~(OwnedBy(row, worker[w].attempt) /\ Commits(reset))
    <3>1. row' = row
      BY <1>8, <2>2 DEF ResetStep
    <3> QED
      BY <1>2, <2>1, <3>1 DEF HeaderKept
  <2>3. CASE OwnedBy(row, worker[w].attempt) /\ Commits(reset)
    <3>1. row' = reset
      BY <1>8, <2>3 DEF ResetStep
    <3>2. /\ row'.status = "pending" /\ row'.attempt = Envelope
          /\ row'.finished = row.finished /\ row'.payload = row.payload
      BY <1>1, <3>1 DEF ResetForRetry, Row
    <3>3. Commits(row')
      BY <2>3, <3>1
    <3>4. row.payload = NoPayload
      <4>1. row.status \in NonTerminal
        BY <1>1, <3>2, <3>3 DEF RowInv, Commits, Row
      <4> QED
        BY <4>1, NoEarlyPayload DEF RowInv
    <3> QED
      BY <3>2, <3>3, <3>4 DEF RowInv, Commits, PendingIsUnclaimed, PayloadOnlyOnFinalized,
                              FinalizedIsComplete
  <2> QED
    BY <2>2, <2>3
<1>9. ASSUME NEW w \in Workers, MarkFailedStep(w) PROVE RowInv'
  <2>1. CASE OwnedBy(row, worker[w].attempt)
    <3>1. /\ row'.status = "failed" /\ row'.finished /\ row'.payload = row.payload
          /\ row'.code \in {"upstream_error", "extraction_failed"}
      BY <1>1, <1>9, <2>1 DEF MarkFailedStep, MarkFailed, Row
    <3> QED
      BY <3>1 DEF RowInv, Commits, PendingIsUnclaimed, PayloadOnlyOnFinalized, FinalizedIsComplete
  <2>2. CASE ~OwnedBy(row, worker[w].attempt)
    BY <1>2, <1>9, <2>2 DEF MarkFailedStep, HeaderKept
  <2> QED
    BY <2>1, <2>2
<1>10. ASSUME NEW c \in Clickers, RetryClaimStep(c) PROVE RowInv'
  <2> DEFINE s == click[c].slug
  <2>1. CASE RetryClaimHits(row, s, click[c].prior)
    <3>1. row' = RetryClaim(row, s, minted'[s])
      BY <1>10, <2>1 DEF RetryClaimStep
    <3>2. row'.status = "analyzing" /\ row'.finished = FALSE /\ row'.payload = NoPayload
      BY <1>1, <3>1 DEF RetryClaim, Row
    <3> QED
      BY <3>2 DEF RowInv, Commits, PendingIsUnclaimed, PayloadOnlyOnFinalized, FinalizedIsComplete
  <2>2. CASE ~RetryClaimHits(row, s, click[c].prior)
    BY <1>2, <1>10, <2>2 DEF RetryClaimStep, HeaderKept
  <2> QED
    BY <2>1, <2>2
<1> QED
  BY <1>2, <1>3, <1>4, <1>5, <1>6, <1>7, <1>8, <1>9, <1>10 DEF HeaderStep

-----------------------------------------------------------------------------
(* What a step does to a slot. *)

SlotKept(s)  == row'.slots[s] = row.slots[s]
\* A new attempt of the section, minted in this step.
SlotFresh(s) == row'.slots[s].id = minted[s] + 1 /\ minted'[s] = minted[s] + 1
\* The running attempt ends.
SlotEnds(s)  == row.slots[s].state = "running" /\ row'.slots[s].id = row.slots[s].id
\* The enqueue of a retry failed: its slot goes back to what it was.
SlotBack(s)  == \E c \in Clickers :
    /\ RetryRevert(c) /\ click[c].slug = s
    /\ row.slots[s].id = click[c].claimed /\ row'.slots[s].id = click[c].prior

SlotMoves(s) == SlotKept(s) \/ SlotFresh(s) \/ SlotEnds(s) \/ SlotBack(s)
SlotsMove == \A s \in Slugs : SlotMoves(s) /\ minted'[s] >= minted[s]

\* The slots after a section-level statement.
LEMMA SlotWrites ==
  ASSUME NEW r \in Row, NEW s \in Slugs
  PROVE  /\ \A slot : WriteSlot(r, s, slot).slots = [r.slots EXCEPT ![s] = slot]
         /\ \A n : RetryClaim(r, s, n).slots =
              [r.slots EXCEPT ![s] = [state |-> "running", id |-> n, data |-> "none"]]
         /\ \A n : RevertSlot(r, s, n).slots =
              [r.slots EXCEPT ![s] = [state |-> "failed", id |-> n, data |-> "none"]]
  BY DEF Row, WriteSlot, RetryClaim, RevertSlot

\* Job-level statements leave the slots alone.
LEMMA SlotsUntouched ==
  ASSUME NEW r \in Row
  PROVE  /\ \A n : Claim(r, n).slots = r.slots /\ ResetForRetry(r, n).slots = r.slots
         /\ \A code : MarkFailed(r, code).slots = r.slots
         /\ SetAnalyzing(r).slots = r.slots /\ IncrementTransients(r).slots = r.slots
         /\ PersistUtterances(r).slots = r.slots /\ Finalize(r).slots = r.slots
         /\ SweepOrphan(r).slots = r.slots /\ MarkFailedEnqueue(r).slots = r.slots
  BY DEF Row, Claim, ResetForRetry, MarkFailed, SetAnalyzing, IncrementTransients,
         PersistUtterances, Finalize, SweepOrphan, MarkFailedEnqueue

\* Steps that leave every slot alone, whatever ids they burn.
LEMMA SlotsStand ==
  ASSUME TypeOK, row'.slots = row.slots, \A s \in Slugs : minted'[s] >= minted[s]
  PROVE  SlotsMove
  BY DEF SlotsMove, SlotMoves, SlotKept

\* A write of a freshly minted slot.
LEMMA SlotMinted ==
  ASSUME TypeOK, NEW s \in Slugs, NEW slot, slot.id = minted'[s],
         minted' = [minted EXCEPT ![s] = @ + 1],
         row' = WriteSlot(row, s, slot) \/ row' = RetryClaim(row, s, slot.id)
  PROVE  SlotsMove
<1>1. row \in Row /\ minted \in [Slugs -> Nat] /\ DOMAIN row.slots = Slugs
  BY DEF TypeOK, Row
<1> DEFINE new == row'.slots[s]
<1>2. row'.slots = [row.slots EXCEPT ![s] = new] /\ new.id = minted'[s]
  <2>1. CASE row' = WriteSlot(row, s, slot)
    <3>1. row'.slots = [row.slots EXCEPT ![s] = slot]
      BY <1>1, <2>1, SlotWrites
    <3> QED
      BY <1>1, <3>1
  <2>2. CASE row' = RetryClaim(row, s, slot.id)
    <3>1. row'.slots = [row.slots EXCEPT ![s] =
                          [state |-> "running", id |-> slot.id, data |-> "none"]]
      BY <1>1, <2>2, SlotWrites
    <3> QED
      BY <1>1, <3>1
  <2> QED
    BY <2>1, <2>2
<1>3. SlotFresh(s)
  BY <1>1, <1>2 DEF SlotFresh
<1>4. \A t \in Slugs \ {s} : SlotKept(t)
  BY <1>1, <1>2 DEF SlotKept
<1> QED
  BY <1>1, <1>3, <1>4 DEF SlotsMove, SlotMoves

\* A write that ends the running attempt of a section.
LEMMA SlotEnded ==
  ASSUME TypeOK, NEW s \in Slugs, NEW slot, row.slots[s].state = "running",
         slot.id = row.slots[s].id, minted' = minted, row' = WriteSlot(row, s, slot)
  PROVE  SlotsMove
<1>1. row \in Row /\ minted \in [Slugs -> Nat] /\ DOMAIN row.slots = Slugs
  BY DEF TypeOK, Row
<1>2. row'.slots = [row.slots EXCEPT ![s] = slot]
  BY <1>1, SlotWrites
<1>3. SlotEnds(s)
  BY <1>1, <1>2 DEF SlotEnds
<1>4. \A t \in Slugs \ {s} : SlotKept(t)
  BY <1>1, <1>2 DEF SlotKept
<1> QED
  BY <1>1, <1>3, <1>4 DEF SlotsMove, SlotMoves

\* Worker steps.
LEMMA WorkerSlots == ASSUME TypeOK, NEW w \in Workers, WorkerStep(w) PROVE SlotsMove
<1> DEFINE t == worker[w].task
<1>1. /\ row \in Row /\ minted \in [Slugs -> Nat] /\ t.slug \in Slugs
  BY HandlerTypes DEF TypeOK
<1>2. ASSUME row' = row, minted' = minted PROVE SlotsMove
  BY <1>1, <1>2, SlotsStand
<1>3. ASSUME minted' = minted, row'.slots = row.slots PROVE SlotsMove
  BY <1>1, <1>3, SlotsStand
<1>4. \A r, n : SlotOf(r, n).id = n
  BY DEF SlotOf
<1>5. CASE ExtractTransient(w) \/ Persist(w)
  BY <1>1, <1>3, <1>5, SlotsUntouched DEF ExtractTransient, Persist
<1>6. CASE SetAnalyzingStep(w) \/ FinalizeStep(w)
  BY <1>1, <1>3, <1>6, SlotsUntouched DEF SetAnalyzingStep, FinalizeStep
<1>7. CASE ResetStep(w) \/ MarkFailedStep(w)
  BY <1>1, <1>3, <1>7, SlotsUntouched DEF ResetStep, MarkFailedStep
<1>8. ASSUME NEW s \in Slugs, RunSection(w, s) \/ PollEnqueueRaises(w, s) PROVE SlotsMove
  <2>1. \E slot : /\ slot.id = minted'[s] /\ row' = WriteSlot(row, s, slot)
                  /\ minted' = [minted EXCEPT ![s] = @ + 1]
    BY <1>4, <1>8 DEF RunSection, PollEnqueueRaises
  <2> QED
    BY <1>1, <2>1, SlotMinted
<1>9. ASSUME NEW s \in Slugs, RerunDependent(w, s) PROVE SlotsMove
  <2>1. \/ row' = row /\ minted' = minted
        \/ \E slot : /\ slot.id = minted'[s] /\ row' = WriteSlot(row, s, slot)
                     /\ minted' = [minted EXCEPT ![s] = @ + 1]
    BY <1>4, <1>9 DEF RerunDependent
  <2> QED
    BY <1>1, <1>2, <2>1, SlotMinted
<1>10. ASSUME NEW s \in Slugs, WriteDefault(w, s) PROVE SlotsMove
  <2>1. /\ minted' = [minted EXCEPT ![s] = @ + 1]
        /\ \/ row' = row
           \/ \E slot : slot.id = minted'[s] /\ row' = WriteSlot(row, s, slot)
    BY <1>10 DEF WriteDefault
  <2>2. CASE row' = row
    BY <1>1, <2>1, <2>2, SlotsStand
  <2>3. CASE \E slot : slot.id = minted'[s] /\ row' = WriteSlot(row, s, slot)
    BY <1>1, <2>1, <2>3, SlotMinted
  <2> QED
    BY <2>1, <2>2, <2>3
<1>11. CASE SectionDone(w) \/ SlotFailStep(w) \/ PollWrites(w)
  <2>1. /\ minted' = minted
        /\ \/ row' = row
           \/ /\ FinalizeSlotHits(row, worker[w].attempt, t.slug, t.id)
              /\ \E slot : slot.id = t.id /\ row' = WriteSlot(row, t.slug, slot)
    BY <1>4, <1>1, <1>11 DEF SectionDone, SlotFailStep, PollWrites
  <2> QED
    BY <1>1, <1>2, <2>1, SlotEnded DEF FinalizeSlotHits
<1>12. ASSUME NEW s \in Slugs, SectionRaises(w, s) PROVE SlotsMove
  BY <1>2, <1>12 DEF SectionRaises
<1>13. CASE \/ Extracted(w) \/ AbortFanOut(w) \/ FanOutDone(w) \/ Synthesize(w) \/ StepRaises(w)
            \/ HandlerRaises(w) \/ RerunDone(w) \/ PollPending(w) \/ PollRaises(w)
  BY <1>2, <1>13 DEF Extracted, AbortFanOut, FanOutDone, Synthesize, StepRaises,
                     HandlerRaises, RerunDone, PollPending, PollRaises
<1> QED
  BY <1>5, <1>6, <1>7, <1>8, <1>9, <1>10, <1>11, <1>12, <1>13 DEF WorkerStep

\* A slot changes only to a fresh attempt, at the end of its attempt, or back.
LEMMA SlotCases == ASSUME TypeOK, [Next]_vars PROVE SlotsMove
<1>1. row \in Row /\ minted \in [Slugs -> Nat] /\ DOMAIN row.slots = Slugs
  BY DEF TypeOK, Row
<1>2. ASSUME row' = row, minted' = minted PROVE SlotsMove
  BY <1>1, <1>2, SlotsStand
<1>3. ASSUME minted' = minted, row'.slots = row.slots PROVE SlotsMove
  BY <1>1, <1>3, SlotsStand
<1>4. CASE SubmitStep \/ Sweep \/ SweepStalled
  BY <1>1, <1>3, <1>4, SlotsUntouched
     DEF SubmitStep, EnqueueJob, EnqueueJobRaises, MarkEnqueueFailed, Sweep, SweepStalled
<1>5. ASSUME NEW w \in Workers, Deliver(w) PROVE SlotsMove
  BY <1>1, <1>3, <1>5, SlotsUntouched
     DEF Deliver, ClaimJob, StartSection, StartPoll
<1>6. ASSUME NEW w \in Workers, WorkerStep(w) PROVE SlotsMove
  BY <1>6, WorkerSlots
<1>7. CASE DropStale \/ (\E w \in Workers : Crash(w))
           \/ \E e \in queue : WaitForDedup(e) \/ LoseDelivery(e)
  BY <1>2, <1>7 DEF DropStale, StaleRun, StaleSection, Crash, WaitForDedup, LoseDelivery
<1>8. ASSUME NEW o \in orphans, OrphanSection(o) PROVE SlotsMove
  <2>1. o.slug \in Slugs
    BY DEF TypeOK, Orphan
  <2>2. /\ minted' = [minted EXCEPT ![o.slug] = @ + 1]
        /\ \/ row' = row
           \/ \E slot : slot.id = minted'[o.slug] /\ row' = WriteSlot(row, o.slug, slot)
    BY <1>8 DEF OrphanSection, SlotOf
  <2>3. CASE row' = row
    BY <1>1, <2>1, <2>2, <2>3, SlotsStand
  <2>4. CASE \E slot : slot.id = minted'[o.slug] /\ row' = WriteSlot(row, o.slug, slot)
    BY <1>1, <2>1, <2>2, <2>4, SlotMinted
  <2> QED
    BY <2>2, <2>3, <2>4
<1>9. ASSUME NEW c \in Clickers, ClickStep(c) PROVE SlotsMove
  <2> DEFINE s == click[c].slug
  <2>1. s \in Slugs
    BY DEF TypeOK, Click
  <2>2. CASE RetryRevert(c)
    <3>1. CASE RevertSlotHits(row, s, click[c].claimed)
      <4>1. row'.slots = [row.slots EXCEPT ![s] =
                            [state |-> "failed", id |-> click[c].prior, data |-> "none"]]
        BY <1>1, <2>1, <2>2, <3>1, SlotWrites DEF RetryRevert
      <4>2. SlotBack(s)
        BY <1>1, <2>1, <2>2, <3>1, <4>1 DEF SlotBack, RevertSlotHits
      <4>3. \A u \in Slugs \ {s} : SlotKept(u)
        BY <1>1, <4>1 DEF SlotKept
      <4> QED
        BY <1>1, <2>2, <4>2, <4>3 DEF SlotsMove, SlotMoves, RetryRevert
    <3>2. CASE ~RevertSlotHits(row, s, click[c].claimed)
      BY <1>2, <2>2, <3>2 DEF RetryRevert
    <3> QED
      BY <3>1, <3>2
  <2>3. CASE RetryClaimStep(c)
    <3>1. \/ row' = row /\ minted' = minted
          \/ \E slot : /\ slot.id = minted'[s] /\ row' = RetryClaim(row, s, slot.id)
                       /\ minted' = [minted EXCEPT ![s] = @ + 1]
      <4> DEFINE slot == [id |-> minted'[s]]
      <4>1. slot.id = minted'[s]
        OBVIOUS
      <4> HIDE DEF slot
      <4> QED
        BY <2>3, <4>1 DEF RetryClaimStep
    <3> QED
      BY <1>1, <1>2, <2>1, <3>1, SlotMinted
  <2>4. CASE RetryEnqueue(c) \/ RetryEnqueueRaises(c) \/ \E u \in Slugs : RetryGate(c, u)
    BY <1>2, <2>4 DEF RetryEnqueue, RetryEnqueueRaises, RetryGate
  <2> QED
    BY <1>9, <2>2, <2>3, <2>4 DEF ClickStep
<1>10. CASE UNCHANGED vars
  BY <1>2, <1>10 DEF vars
<1> QED
  BY <1>4, <1>5, <1>6, <1>7, <1>8, <1>9, <1>10 DEF Next

-----------------------------------------------------------------------------
(* Retry requests and slot attempts. *)

\* The steps of the retry requests themselves; no other step touches them.
LEMMA ClickCases ==
  ASSUME TypeOK, [Next]_vars
  PROVE  click' = click \/ \E c \in Clickers : ClickStep(c)
<1>1. ASSUME NEW w \in Workers, WorkerStep(w) PROVE click' = click
  BY <1>1 DEF WorkerStep, Extracted, ExtractTransient, Persist, SetAnalyzingStep, RunSection,
       SectionRaises, PollEnqueueRaises, WriteDefault, RerunDependent, AbortFanOut, FanOutDone,
       Synthesize, FinalizeStep, StepRaises, ResetStep, MarkFailedStep, SectionDone,
       HandlerRaises, RerunDone, SlotFailStep, PollPending, PollRaises, PollWrites
<1>2. ASSUME NEW w \in Workers, Deliver(w) \/ Crash(w) PROVE click' = click
  BY <1>2 DEF Deliver, ClaimJob, StartSection, StartPoll, Crash
<1>3. CASE SubmitStep \/ DropStale \/ Sweep \/ SweepStalled
  BY <1>3 DEF SubmitStep, EnqueueJob, EnqueueJobRaises, MarkEnqueueFailed, DropStale, StaleRun,
       StaleSection, Sweep, SweepStalled
<1>4. CASE \/ \E e \in queue : WaitForDedup(e) \/ LoseDelivery(e)
           \/ \E o \in orphans : OrphanSection(o)
  BY <1>4 DEF WaitForDedup, LoseDelivery, OrphanSection
<1>5. CASE UNCHANGED vars
  BY <1>5 DEF vars
<1> QED
  BY <1>1, <1>2, <1>3, <1>4, <1>5 DEF Next

\* What a claim finds, and what it leaves.
LEMMA RetryClaimed ==
  ASSUME TypeOK, NEW c \in Clickers, RetryClaimStep(c), RetryClaimHits(row, click[c].slug, click[c].prior)
  PROVE  LET s == click[c].slug IN
         /\ s \in Slugs /\ row.slots[s].id = click[c].prior
         /\ minted' = [minted EXCEPT ![s] = @ + 1]
         /\ row'.slots[s].id = minted[s] + 1
         /\ click' = [click EXCEPT ![c].pc = "enqueue", ![c].claimed = minted[s] + 1]
<1> DEFINE s == click[c].slug
<1>1. s \in Slugs /\ row \in Row /\ minted \in [Slugs -> Nat]
  BY DEF TypeOK, Click
<1>2. /\ minted' = [minted EXCEPT ![s] = @ + 1]
      /\ row' = RetryClaim(row, s, minted'[s])
      /\ click' = [click EXCEPT ![c].pc = "enqueue", ![c].claimed = minted'[s]]
  BY DEF RetryClaimStep
<1>3. minted'[s] = minted[s] + 1
  BY <1>1, <1>2
<1>4. row'.slots = [row.slots EXCEPT ![s] = [state |-> "running", id |-> minted'[s], data |-> "none"]]
  BY <1>1, <1>2, SlotWrites
<1>5. row'.slots[s].id = minted'[s]
  BY <1>1, <1>4 DEF Row
<1> QED
  BY <1>1, <1>2, <1>3, <1>5 DEF RetryClaimHits

\* The requests past their claim, and what each of them has claimed.
Past(k) == k.pc \in {"enqueue", "revert"}

\* What a step does to a retry request: nothing, a claim, or a move that leaves
\* what it claimed.
ClickKept(c)  == click'[c] = click[c]
ClickGone(c)  == click'[c].pc = "idle"
ClickReads(c) == /\ click'[c].pc = "claim" /\ row' = row
                 /\ click'[c].slug \in Slugs /\ click'[c].prior = row.slots[click'[c].slug].id
ClickGoes(c)  == /\ click[c].pc = "enqueue" /\ click'[c].pc = "revert"
                 /\ click'[c].slug = click[c].slug /\ click'[c].prior = click[c].prior
                 /\ click'[c].claimed = click[c].claimed
ClickTakes(c) == /\ click[c].pc = "claim" /\ click'[c].pc = "enqueue"
                 /\ click'[c].slug = click[c].slug /\ click'[c].prior = click[c].prior
                 /\ click'[c].claimed = minted[click[c].slug] + 1
                 /\ minted'[click[c].slug] = minted[click[c].slug] + 1
                 /\ row.slots[click[c].slug].id = click[c].prior
                 /\ row'.slots[click[c].slug].id = click'[c].claimed

\* At most one request moves in a step, and it moves in one of these ways.
LEMMA ClickMoves ==
  ASSUME TypeOK, [Next]_vars
  PROVE  \/ \A c \in Clickers : ClickKept(c)
         \/ \E c \in Clickers :
              /\ \A d \in Clickers \ {c} : ClickKept(d)
              /\ ClickGone(c) \/ ClickReads(c) \/ ClickGoes(c) \/ ClickTakes(c)
<1>1. CASE click' = click
  BY <1>1 DEF ClickKept
<1>2. ASSUME NEW c \in Clickers, ClickStep(c)
      PROVE  /\ \A d \in Clickers \ {c} : ClickKept(d)
             /\ ClickGone(c) \/ ClickReads(c) \/ ClickGoes(c) \/ ClickTakes(c)
  <2>1. click \in [Clickers -> Click] /\ click[c] \in Click
    BY DEF TypeOK
  <2>2. ASSUME ClickIdle(c) PROVE ClickGone(c) /\ \A d \in Clickers \ {c} : ClickKept(d)
    BY <2>1, <2>2 DEF ClickIdle, ClickGone, ClickKept
  <2>3. ASSUME NEW s \in Slugs, RetryGate(c, s)
        PROVE  ClickReads(c) /\ \A d \in Clickers \ {c} : ClickKept(d)
    BY <2>1, <2>3 DEF RetryGate, ClickReads, ClickKept
  <2>4. CASE RetryClaimStep(c)
    <3>1. CASE RetryClaimHits(row, click[c].slug, click[c].prior)
      <4>1. /\ click[c].slug \in Slugs /\ row.slots[click[c].slug].id = click[c].prior
            /\ minted' = [minted EXCEPT ![click[c].slug] = @ + 1]
            /\ row'.slots[click[c].slug].id = minted[click[c].slug] + 1
            /\ click' = [click EXCEPT ![c].pc = "enqueue",
                                      ![c].claimed = minted[click[c].slug] + 1]
        BY <2>4, <3>1, RetryClaimed
      <4>2. minted \in [Slugs -> Nat] /\ click[c].pc = "claim"
        BY <2>4 DEF TypeOK, RetryClaimStep
      <4>3. ClickTakes(c)
        BY <2>1, <4>1, <4>2 DEF ClickTakes, Click
      <4>4. \A d \in Clickers \ {c} : ClickKept(d)
        BY <2>1, <4>1 DEF ClickKept
      <4> QED
        BY <4>3, <4>4
    <3>2. CASE ~RetryClaimHits(row, click[c].slug, click[c].prior)
      BY <2>2, <2>4, <3>2 DEF RetryClaimStep
    <3> QED
      BY <3>1, <3>2
  <2>5. CASE RetryEnqueue(c) \/ RetryRevert(c)
    BY <2>2, <2>5 DEF RetryEnqueue, RetryRevert
  <2>6. CASE RetryEnqueueRaises(c)
    BY <2>1, <2>6 DEF RetryEnqueueRaises, ClickGoes, ClickKept, Click
  <2> QED
    BY <1>2, <2>3, <2>4, <2>5, <2>6 DEF ClickStep
<1> QED
  BY <1>1, <1>2, ClickCases

\* A request past its claim claims in this step, alone, or keeps its claim.
LEMMA PastClaims ==
  ASSUME TypeOK, [Next]_vars
  PROVE  \A c \in Clickers : Past(click'[c]) =>
           \/ /\ Past(click[c])
              /\ click'[c].slug = click[c].slug /\ click'[c].prior = click[c].prior
              /\ click'[c].claimed = click[c].claimed
              /\ ~RetryRevert(c)
           \/ /\ ClickTakes(c)
              /\ \A d \in Clickers \ {c} : ClickKept(d)
<1> SUFFICES ASSUME NEW c \in Clickers, Past(click'[c])
             PROVE  \/ /\ Past(click[c])
                       /\ click'[c].slug = click[c].slug /\ click'[c].prior = click[c].prior
                       /\ click'[c].claimed = click[c].claimed
                       /\ ~RetryRevert(c)
                    \/ ClickTakes(c) /\ \A d \in Clickers \ {c} : ClickKept(d)
  OBVIOUS
<1>1. ~RetryRevert(c)
  <2>1. ASSUME RetryRevert(c) PROVE click'[c].pc = "idle"
    BY <2>1 DEF RetryRevert, ClickIdle, TypeOK
  <2> QED
    BY <2>1 DEF Past
<1>2. CASE ClickKept(c)
  BY <1>1, <1>2 DEF ClickKept
<1>3. CASE /\ \A d \in Clickers \ {c} : ClickKept(d)
           /\ ClickGone(c) \/ ClickReads(c) \/ ClickGoes(c) \/ ClickTakes(c)
  BY <1>1, <1>3 DEF ClickGone, ClickReads, ClickGoes, Past
<1> QED
  BY <1>2, <1>3, ClickMoves

\* Slot attempt ids stay fresh, and no two requests claim the same failure.
LEMMA RetryInductive ==
  ASSUME TypeOK, RetryIds, OneClaimPerFailure, [Next]_vars
  PROVE  RetryIds' /\ OneClaimPerFailure'
<1>1. /\ minted \in [Slugs -> Nat] /\ \A s \in Slugs : minted'[s] >= minted[s]
      /\ \A s \in Slugs : SlotMoves(s) /\ row.slots[s].id <= minted[s]
      /\ \A s \in Slugs : row.slots[s].id \in Nat /\ minted'[s] \in Nat /\ row'.slots[s].id \in Nat
  <2>1. TypeOK'
    BY TypeInductive
  <2> QED
    BY <2>1, SlotCases DEF TypeOK, SlotsMove, RetryIds, Row, Slot
<1>2. \A c \in Clickers : /\ click[c].slug \in Slugs /\ click[c].prior \in Nat /\ click[c].claimed \in Nat
                          /\ Past(click[c]) => /\ click[c].prior < click[c].claimed
                                               /\ click[c].claimed <= minted[click[c].slug]
                                               /\ row.slots[click[c].slug].id # click[c].prior
  BY DEF TypeOK, Click, RetryIds, Past
<1>3. ASSUME NEW c \in Clickers, RetryRevert(c) PROVE Past(click[c])
  BY <1>3 DEF RetryRevert, Past
<1>4. ASSUME NEW s \in Slugs PROVE row'.slots[s].id <= minted'[s]
  BY <1>1, <1>2, <1>3 DEF SlotMoves, SlotKept, SlotFresh, SlotEnds, SlotBack
<1>5. ASSUME NEW c \in Clickers, click'[c].pc = "claim"
      PROVE  click'[c].prior <= minted'[click'[c].slug]
  <2>1. CASE ClickKept(c)
    <3>1. click[c].pc = "claim" /\ click'[c].prior <= minted[click'[c].slug]
      BY <1>5, <2>1 DEF ClickKept, RetryIds
    <3> QED
      BY <1>1, <1>2, <2>1, <3>1 DEF ClickKept
  <2>2. CASE ClickGone(c) \/ ClickReads(c) \/ ClickGoes(c) \/ ClickTakes(c)
    <3>1. ClickReads(c)
      BY <1>5, <2>2 DEF ClickGone, ClickGoes, ClickTakes
    <3> QED
      BY <1>1, <3>1 DEF ClickReads
  <2> QED
    BY <2>1, <2>2, ClickMoves
<1>6. ASSUME NEW c \in Clickers, Past(click'[c])
      PROVE  LET k == click'[c] IN
             /\ k.prior < k.claimed /\ k.claimed <= minted'[k.slug]
             /\ row'.slots[k.slug].id # k.prior
  <2> DEFINE k == click[c]
  <2>1. CASE /\ Past(k) /\ click'[c].slug = k.slug /\ click'[c].prior = k.prior
             /\ click'[c].claimed = k.claimed /\ ~RetryRevert(c)
    <3>1. k.slug \in Slugs /\ k.prior < k.claimed /\ k.claimed <= minted[k.slug]
      BY <1>2, <2>1
    <3>2. k.claimed <= minted'[k.slug]
      BY <1>1, <1>2, <3>1
    <3>3. row'.slots[k.slug].id # k.prior
      <4>1. CASE SlotKept(k.slug) \/ SlotEnds(k.slug)
        BY <1>2, <2>1, <4>1 DEF SlotKept, SlotEnds
      <4>2. CASE SlotFresh(k.slug)
        BY <1>1, <1>2, <3>1, <4>2 DEF SlotFresh
      <4>3. CASE SlotBack(k.slug)
        <5>1. PICK d \in Clickers : /\ RetryRevert(d) /\ click[d].slug = k.slug
                                    /\ row'.slots[k.slug].id = click[d].prior
          BY <4>3 DEF SlotBack
        <5>2. d # c /\ Past(click[d])
          BY <1>3, <2>1, <5>1
        <5>3. click[d].prior # k.prior
          BY <2>1, <5>1, <5>2 DEF OneClaimPerFailure, Past
        <5> QED
          BY <5>1, <5>3
      <4> QED
        BY <1>1, <3>1, <4>1, <4>2, <4>3 DEF SlotMoves
    <3> QED
      BY <2>1, <3>1, <3>2, <3>3
  <2>2. CASE ClickTakes(c)
    BY <1>1, <1>2, <2>2 DEF ClickTakes
  <2> QED
    BY <1>6, <2>1, <2>2, PastClaims
<1>7. ASSUME NEW a \in Clickers, NEW b \in Clickers, a # b, Past(click'[a]), Past(click'[b]),
             ClickTakes(a)
      PROVE  <<click'[a].slug, click'[a].prior>> # <<click'[b].slug, click'[b].prior>>
  <2>1. ClickKept(b)
    <3>1. ~Past(click[a])
      BY <1>7 DEF ClickTakes, Past
    <3> QED
      BY <1>7, <3>1, PastClaims
  <2>2. row.slots[click[b].slug].id # click[b].prior
    BY <1>2, <1>7, <2>1 DEF ClickKept
  <2> QED
    BY <1>7, <2>1, <2>2 DEF ClickTakes, ClickKept
<1>8. ASSUME NEW a \in Clickers, NEW b \in Clickers, a # b, Past(click'[a]), Past(click'[b])
      PROVE  <<click'[a].slug, click'[a].prior>> # <<click'[b].slug, click'[b].prior>>
  <2>1. CASE ClickTakes(a)
    BY <1>7, <1>8, <2>1
  <2>2. CASE ClickTakes(b)
    BY <1>7, <1>8, <2>2
  <2>3. CASE ~ClickTakes(a) /\ ~ClickTakes(b)
    BY <1>8, <2>3, PastClaims DEF OneClaimPerFailure, Past
  <2> QED
    BY <2>1, <2>2, <2>3
<1>9. RetryIds'
  BY <1>4, <1>5, <1>6 DEF RetryIds, Past
<1>10. OneClaimPerFailure'
  BY <1>8 DEF OneClaimPerFailure, Past
<1> QED
  BY <1>9, <1>10

-----------------------------------------------------------------------------
(* The transient-extraction backstop. *)

\* The counter moves only in a transient failure seen by the owner of the row.
LEMMA TransientCases ==
  ASSUME TypeOK, [Next]_vars
  PROVE  \/ row'.transients = row.transients
         \/ \E w \in Workers : /\ ExtractTransient(w) /\ OwnedBy(row, worker[w].attempt)
                               /\ row' = IncrementTransients(row)
<1>1. row \in Row
  BY DEF TypeOK
<1>2. \A s \in Slugs : \A n :
        /\ \A slot : WriteSlot(row, s, slot).transients = row.transients
        /\ RetryClaim(row, s, n).transients = row.transients
        /\ RevertSlot(row, s, n).transients = row.transients
  BY <1>1 DEF Row, WriteSlot, RetryClaim, RevertSlot
<1>3. /\ \A n : /\ Claim(row, n).transients = row.transients
                /\ ResetForRetry(row, n).transients = row.transients
                /\ MarkFailed(row, n).transients = row.transients
      /\ SetAnalyzing(row).transients = row.transients
      /\ PersistUtterances(row).transients = row.transients
      /\ Finalize(row).transients = row.transients
      /\ SweepOrphan(row).transients = row.transients
      /\ MarkFailedEnqueue(row).transients = row.transients
  BY <1>1 DEF Row, Claim, ResetForRetry, MarkFailed, SetAnalyzing, PersistUtterances, Finalize,
              SweepOrphan, MarkFailedEnqueue
<1>4. ASSUME NEW w \in Workers, ExtractTransient(w)
      PROVE  \/ row' = row
             \/ OwnedBy(row, worker[w].attempt) /\ row' = IncrementTransients(row)
  BY <1>4 DEF ExtractTransient
<1>5. ASSUME NEW w \in Workers, WorkerStep(w), ~ExtractTransient(w)
      PROVE  row'.transients = row.transients
  <2>1. worker[w].task.slug \in Slugs
    BY HandlerTypes
  <2>2. CASE Persist(w) \/ SetAnalyzingStep(w) \/ FinalizeStep(w) \/ ResetStep(w) \/ MarkFailedStep(w)
    BY <1>3, <2>2 DEF Persist, SetAnalyzingStep, FinalizeStep, ResetStep, MarkFailedStep
  <2>3. ASSUME NEW s \in Slugs,
               \/ RunSection(w, s) \/ PollEnqueueRaises(w, s) \/ WriteDefault(w, s)
               \/ RerunDependent(w, s) \/ SectionRaises(w, s)
        PROVE  row'.transients = row.transients
    <3>1. row' = row \/ \E slot : row' = WriteSlot(row, s, slot)
      BY <2>3 DEF RunSection, PollEnqueueRaises, WriteDefault, RerunDependent, SectionRaises
    <3> QED
      BY <1>2, <3>1
  <2>4. CASE SectionDone(w) \/ SlotFailStep(w) \/ PollWrites(w)
    <3>1. row' = row \/ \E slot : row' = WriteSlot(row, worker[w].task.slug, slot)
      BY <2>4 DEF SectionDone, SlotFailStep, PollWrites
    <3> QED
      BY <1>2, <2>1, <3>1
  <2>5. CASE \/ Extracted(w) \/ AbortFanOut(w) \/ FanOutDone(w) \/ Synthesize(w) \/ StepRaises(w)
             \/ HandlerRaises(w) \/ RerunDone(w) \/ PollPending(w) \/ PollRaises(w)
    BY <2>5 DEF Extracted, AbortFanOut, FanOutDone, Synthesize, StepRaises, HandlerRaises,
                RerunDone, PollPending, PollRaises
  <2> QED
    BY <1>5, <2>2, <2>3, <2>4, <2>5 DEF WorkerStep
<1>6. CASE SubmitStep \/ Sweep \/ SweepStalled
  BY <1>3, <1>6 DEF SubmitStep, EnqueueJob, EnqueueJobRaises, MarkEnqueueFailed, Sweep,
                    SweepStalled
<1>7. ASSUME NEW w \in Workers, Deliver(w) \/ Crash(w) PROVE row'.transients = row.transients
  BY <1>3, <1>7 DEF Deliver, ClaimJob, StartSection, StartPoll, Crash
<1>8. CASE DropStale \/ \E e \in queue : WaitForDedup(e) \/ LoseDelivery(e)
  BY <1>8 DEF DropStale, StaleRun, StaleSection, WaitForDedup, LoseDelivery
<1>9. ASSUME NEW o \in orphans, OrphanSection(o) PROVE row'.transients = row.transients
  <2>1. o.slug \in Slugs
    BY DEF TypeOK, Orphan
  <2>2. row' = row \/ \E slot : row' = WriteSlot(row, o.slug, slot)
    BY <1>9 DEF OrphanSection
  <2> QED
    BY <1>2, <2>1, <2>2
<1>10. ASSUME NEW c \in Clickers, ClickStep(c) PROVE row'.transients = row.transients
  <2>1. click[c].slug \in Slugs
    BY DEF TypeOK, Click
  <2> QED
    BY <1>2, <1>10, <2>1 DEF ClickStep, RetryGate, RetryClaimStep, RetryEnqueue,
       RetryEnqueueRaises, RetryRevert
<1>11. CASE UNCHANGED vars
  BY <1>11 DEF vars
<1> QED
  BY <1>4, <1>5, <1>6, <1>7, <1>8, <1>9, <1>10, <1>11 DEF Next

\* A worker moves only in its own steps.
LEMMA WorkerMoves ==
  ASSUME TypeOK, RunOwners, [Next]_vars, NEW v \in Workers
  PROVE  worker'[v] = worker[v] \/ Deliver(v) \/ WorkerStep(v) \/ Crash(v)
<1>1. worker \in [Workers -> WorkerState]
  BY DEF TypeOK
<1>2. CASE worker' = worker
  BY <1>2
<1>3. ASSUME NEW w \in Workers, w # v, Deliver(w) PROVE worker'[v] = worker[v]
  BY <1>1, <1>3 DEF Deliver, ClaimJob, StartSection, StartPoll
<1>4. ASSUME NEW w \in Workers, w # v, WorkerStep(w) \/ Crash(w) PROVE worker'[v] = worker[v]
  <2>1. GoesOn(w) \/ Answer(w)
    BY <1>4, WorkerGoesOn DEF Crash, Nack
  <2> QED
    BY <1>1, <1>4, <2>1 DEF GoesOn, Answer
<1>5. CASE SubmitStep \/ DropStale \/ Sweep \/ SweepStalled
  BY <1>2, <1>5 DEF SubmitStep, EnqueueJob, EnqueueJobRaises, MarkEnqueueFailed, DropStale,
       StaleRun, StaleSection, Sweep, SweepStalled
<1>6. CASE \/ \E e \in queue : WaitForDedup(e) \/ LoseDelivery(e)
           \/ \E o \in orphans : OrphanSection(o)
  BY <1>2, <1>6 DEF WaitForDedup, LoseDelivery, OrphanSection
<1>7. ASSUME NEW c \in Clickers, ClickStep(c) PROVE worker' = worker
  BY <1>7 DEF ClickStep, RetryGate, RetryClaimStep, RetryEnqueue, RetryEnqueueRaises, RetryRevert
<1>8. CASE UNCHANGED vars
  BY <1>2, <1>8 DEF vars
<1> QED
  BY <1>2, <1>3, <1>4, <1>5, <1>6, <1>7, <1>8 DEF Next

\* A run_job handler is new, or has the attempt it had; from markFailed it only ends.
LEMMA RunnerMoves ==
  ASSUME TypeOK, RunOwners, [Next]_vars, NEW v \in Workers, RunsJob(v)'
  PROVE  \/ \E e \in queue : ClaimJob(v, e)
         \/ /\ RunsJob(v) /\ worker'[v].attempt = worker[v].attempt
            /\ worker[v].pc = "markFailed" => worker'[v].pc = "markFailed"
<1>1. worker \in [Workers -> WorkerState] /\ worker'[v].pc # "idle" /\ worker'[v].task.kind = "run"
  BY DEF TypeOK, RunsJob
<1>2. CASE worker'[v] = worker[v]
  BY <1>2 DEF RunsJob
<1>3. CASE Deliver(v)
  <2>1. PICK e \in queue : ClaimJob(v, e) \/ StartSection(v, e) \/ StartPoll(v, e)
    BY <1>3 DEF Deliver
  <2>2. ASSUME StartSection(v, e) \/ StartPoll(v, e) PROVE worker'[v].task.kind # "run"
    BY <1>1, <2>2 DEF StartSection, StartPoll, Started, Idle
  <2> QED
    BY <1>1, <2>1, <2>2
<1>4. CASE WorkerStep(v) \/ Crash(v)
  <2>1. ~Answer(v)
    BY <1>1 DEF Answer, Idle
  <2>2. GoesOn(v) /\ WorkerStep(v)
    BY <1>4, <2>1, WorkerGoesOn DEF Crash, Nack
  <2>3. worker[v].pc # "markFailed"
    BY <2>1, <2>2 DEF WorkerStep, Extracted, ExtractTransient, Persist, SetAnalyzingStep,
       RunSection, SectionRaises, PollEnqueueRaises, WriteDefault, RerunDependent, AbortFanOut,
       FanOutDone, Synthesize, FinalizeStep, StepRaises, ResetStep, MarkFailedStep, SectionDone,
       HandlerRaises, RerunDone, SlotFailStep, PollPending, PollRaises, PollWrites, Ack
  <2> QED
    BY <1>1, <2>2, <2>3 DEF GoesOn, RunsJob
<1> QED
  BY <1>2, <1>3, <1>4, WorkerMoves

\* A step that rotates the attempt is a claim of an unowned row or the owner's reset.
LEMMA RotationCases ==
  ASSUME TypeOK, [Next]_vars, row'.attempt # row.attempt
  PROVE  \/ \E w \in Workers, e \in queue : ClaimJob(w, e)
         \/ \E w \in Workers : ResetStep(w) /\ OwnedBy(row, worker[w].attempt)
<1>1. row \in Row
  BY DEF TypeOK
<1>2. HeaderStep
  BY HeaderCases DEF HeaderKept, Header
<1>3. ~MarkEnqueueFailed /\ ~Sweep /\ ~SweepStalled
  BY <1>1 DEF MarkEnqueueFailed, MarkFailedEnqueue, Sweep, SweepStalled, SweepOrphan, Row
<1>4. ASSUME NEW w \in Workers PROVE ~SetAnalyzingStep(w) /\ ~FinalizeStep(w) /\ ~MarkFailedStep(w)
  <2>1. ~SetAnalyzingStep(w)
    BY <1>1 DEF SetAnalyzingStep, SetAnalyzing, Row
  <2>2. ~FinalizeStep(w)
    BY <1>1 DEF FinalizeStep, Finalize, Row
  <2>3. ~MarkFailedStep(w)
    BY <1>1 DEF MarkFailedStep, MarkFailed, Row
  <2> QED
    BY <2>1, <2>2, <2>3
<1>5. ASSUME NEW c \in Clickers PROVE ~RetryClaimStep(c)
  BY <1>1 DEF RetryClaimStep, RetryClaim, Row
<1>6. ASSUME NEW w \in Workers, ResetStep(w) PROVE OwnedBy(row, worker[w].attempt)
  BY <1>6 DEF ResetStep
<1> QED
  BY <1>2, <1>3, <1>4, <1>5, <1>6 DEF HeaderStep

\* A row becomes pending only when its owner resets it.
LEMMA PendingCases ==
  ASSUME TypeOK, [Next]_vars, row'.status = "pending"
  PROVE  \/ row.status = "pending"
         \/ \E w \in Workers : ResetStep(w) /\ OwnedBy(row, worker[w].attempt)
<1>1. row \in Row
  BY DEF TypeOK
<1>2. CASE HeaderKept
  BY <1>2 DEF HeaderKept, Header
<1>3. CASE MarkEnqueueFailed \/ Sweep \/ SweepStalled
  BY <1>1, <1>3 DEF MarkEnqueueFailed, MarkFailedEnqueue, Sweep, SweepStalled, SweepOrphan, Row
<1>4. ASSUME NEW w \in Workers, NEW e \in queue, ClaimJob(w, e) PROVE row.status = "pending"
  BY <1>4 DEF ClaimJob, ClaimHits
<1>5. ASSUME NEW w \in Workers, SetAnalyzingStep(w) \/ FinalizeStep(w) \/ MarkFailedStep(w)
      PROVE  row' = row
  <2>1. /\ SetAnalyzing(row).status # "pending" /\ Finalize(row).status # "pending"
        /\ \A code : MarkFailed(row, code).status # "pending"
    BY <1>1 DEF Row, SetAnalyzing, Finalize, MarkFailed
  <2> QED
    BY <1>5, <2>1 DEF SetAnalyzingStep, FinalizeStep, MarkFailedStep
<1>6. ASSUME NEW w \in Workers, ResetStep(w), ~OwnedBy(row, worker[w].attempt) PROVE row' = row
  BY <1>6 DEF ResetStep
<1>7. ASSUME NEW c \in Clickers, RetryClaimStep(c) PROVE row' = row
  <2>1. \A s, n : RetryClaim(row, s, n).status # "pending"
    BY <1>1 DEF Row, RetryClaim
  <2> QED
    BY <1>7, <2>1 DEF RetryClaimStep
<1> QED
  BY <1>2, <1>3, <1>4, <1>5, <1>6, <1>7, HeaderCases DEF HeaderStep

\* The backstop acts before the row is handed back.
LEMMA BackstopInductive ==
  ASSUME TypeOK, RunOwners, PendingIsUnclaimed, ExhaustedNeverPends, Backstop, [Next]_vars
  PROVE  ExhaustedNeverPends' /\ Backstop'
<1>1. /\ row \in Row /\ row.transients \in Nat /\ MaxTransients \in Nat /\ attempts \in Nat
      /\ worker \in [Workers -> WorkerState]
  BY BoundsAssumption DEF TypeOK, Row
<1>2. \A w \in Workers : RunsJob(w) /\ OwnedBy(row, worker[w].attempt) => row.status # "pending"
  BY <1>1 DEF RunOwners, PendingIsUnclaimed, OwnedBy, Envelope
<1>3. CASE row'.transients = row.transients
  <2>1. ExhaustedNeverPends'
    <3>1. ASSUME NEW w \in Workers, ResetStep(w), OwnedBy(row, worker[w].attempt)
          PROVE  row.transients < MaxTransients
      <4>1. RunsJob(w) /\ worker[w].pc # "markFailed"
        BY <3>1 DEF ResetStep, RunOwners, RunStages, RunsJob
      <4> QED
        BY <3>1, <4>1 DEF Backstop
    <3> QED
      BY <1>3, <3>1, PendingCases DEF ExhaustedNeverPends
  <2>2. ASSUME NEW v \in Workers, RunsJob(v)', OwnedBy(row', worker'[v].attempt),
               worker'[v].pc # "markFailed"
        PROVE  row.transients < MaxTransients
    <3>1. CASE \E e \in queue : ClaimJob(v, e)
      BY <3>1 DEF ClaimJob, ClaimHits, ExhaustedNeverPends
    <3>2. CASE /\ RunsJob(v) /\ worker'[v].attempt = worker[v].attempt
               /\ worker[v].pc = "markFailed" => worker'[v].pc = "markFailed"
      <4>1. worker[v].attempt \in 1..attempts
        BY <3>2 DEF RunOwners
      <4>2. CASE row'.attempt = row.attempt
        BY <2>2, <3>2, <4>2 DEF Backstop, OwnedBy
      <4>3. CASE \E w \in Workers, e \in queue : ClaimJob(w, e)
        <5>1. row'.attempt = attempts + 1
          BY <1>1, <4>3 DEF ClaimJob, Claim, Row
        <5> QED
          BY <1>1, <2>2, <3>2, <4>1, <5>1 DEF OwnedBy
      <4>4. CASE (\E w \in Workers : ResetStep(w)) /\ row'.attempt # row.attempt
        <5>1. row'.attempt = 0
          BY <1>1, <4>4 DEF ResetStep, ResetForRetry, Row, Envelope
        <5> QED
          BY <1>1, <2>2, <3>2, <4>1, <5>1 DEF OwnedBy
      <4> QED
        BY <4>2, <4>3, <4>4, RotationCases
    <3> QED
      BY <2>2, <3>1, <3>2, RunnerMoves
  <2> QED
    BY <1>3, <2>1, <2>2 DEF Backstop
<1>4. ASSUME NEW w \in Workers, ExtractTransient(w), OwnedBy(row, worker[w].attempt),
             row' = IncrementTransients(row)
      PROVE  ExhaustedNeverPends' /\ Backstop'
  <2>1. /\ row'.status = row.status /\ row'.attempt = row.attempt
        /\ row'.transients = row.transients + 1
    BY <1>1, <1>4 DEF IncrementTransients, Row
  <2>2. RunsJob(w)
    BY <1>4 DEF ExtractTransient, RunOwners, RunStages, RunsJob
  <2>3. ExhaustedNeverPends'
    BY <1>2, <1>4, <2>1, <2>2 DEF ExhaustedNeverPends
  <2>4. /\ worker'[w].pc = IF Exhausted(row'.transients) THEN "markFailed" ELSE "reset"
        /\ worker'[w].attempt = worker[w].attempt
        /\ \A v \in Workers \ {w} : worker'[v] = worker[v]
    BY <1>1, <1>4 DEF ExtractTransient, Goto, WorkerState
  <2>5. ASSUME NEW v \in Workers, RunsJob(v)', OwnedBy(row', worker'[v].attempt),
               worker'[v].pc # "markFailed"
        PROVE  row'.transients < MaxTransients
    <3>1. v = w
      <4>1. ASSUME v # w PROVE RunsJob(v) /\ worker[v].attempt = worker[w].attempt
        BY <1>4, <2>1, <2>4, <2>5, <4>1 DEF RunsJob, OwnedBy
      <4> QED
        BY <2>2, <4>1 DEF RunOwners
    <3> QED
      BY <1>1, <2>1, <2>4, <2>5, <3>1 DEF Exhausted
  <2> QED
    BY <2>3, <2>5 DEF Backstop
<1> QED
  BY <1>3, <1>4, TransientCases

-----------------------------------------------------------------------------
(* The theorems. *)

\* The submitted job satisfies the invariant.
LEMMA InitInv == Init => JobInv
<1> SUFFICES ASSUME Init PROVE JobInv
  OBVIOUS
<1>1. \A w \in Workers : worker[w].pc = "idle"
  BY DEF Init, Idle
<1>2. RunOwners
  BY <1>1 DEF RunOwners, RunsJob, RunStages
<1>3. row = NewRow /\ row.status = "pending" /\ row.attempt = Envelope /\ row.payload = NoPayload
  BY DEF Init, NewRow
<1>4. PendingIsUnclaimed /\ PayloadOnlyOnFinalized /\ FinalizedIsComplete
  BY <1>3 DEF PendingIsUnclaimed, PayloadOnlyOnFinalized, FinalizedIsComplete, Finalized
<1>5. ExhaustedNeverPends /\ Backstop
  <2>1. row.transients < MaxTransients
    BY <1>3, BoundsAssumption DEF NewRow
  <2> QED
    BY <1>1, <2>1 DEF ExhaustedNeverPends, Backstop, RunsJob
<1>6. RetryIds /\ OneClaimPerFailure
  <2>1. \A s \in Slugs : row.slots[s].id = 0 /\ minted[s] = 0
    <3>1. row.slots = NoPayload /\ \A s \in Slugs : minted[s] = 0
      BY <1>3 DEF Init, NewRow
    <3>2. \A s \in Slugs : row.slots[s] = NoSlot
      BY <3>1 DEF NoPayload
    <3>3. NoSlot.id = 0
      BY DEF NoSlot
    <3> QED
      BY <3>1, <3>2, <3>3
  <2>2. \A c \in Clickers : click[c].pc = "idle"
    BY DEF Init
  <2> QED
    BY <2>1, <2>2 DEF RetryIds, OneClaimPerFailure
<1> QED
  BY <1>2, <1>3, <1>4, <1>5, <1>6, InitTypes, NewRowType DEF JobInv

\* Every step preserves it.
LEMMA NextInv == JobInv /\ [Next]_vars => JobInv'
<1> SUFFICES ASSUME JobInv, [Next]_vars PROVE JobInv'
  OBVIOUS
<1>1. TypeOK /\ RunOwners /\ RowInv
  BY DEF JobInv, RowInv
<1>2. TypeOK'
  BY <1>1, TypeInductive
<1>3. RunOwners'
  BY <1>1, OwnersInductive
<1>4. RowInv'
  BY <1>1, HeaderCases, RowInductive
<1>5. ExhaustedNeverPends' /\ Backstop'
  BY <1>1, BackstopInductive DEF JobInv
<1>6. RetryIds' /\ OneClaimPerFailure'
  BY <1>1, RetryInductive DEF JobInv
<1> QED
  BY <1>2, <1>3, <1>4, <1>5, <1>6 DEF JobInv, RowInv

\* In every reachable state the row passes the table's CHECK, a pending row is
\* claimable by its envelope and has transient attempts left, every attempt has one
\* owner, the row shows a payload only where finalize put it, and no two retries
\* have claimed the same failure.
THEOREM JobInvariant == Spec => []JobInv
  BY InitInv, NextInv, PTL DEF Spec

\* maybe_finalize_job leaves a complete analysis behind, on the row and in the cache.
THEOREM FinalizedComplete == Spec => []FinalizedIsComplete
<1>1. JobInv => FinalizedIsComplete
  BY DEF JobInv
<1> QED
  BY <1>1, JobInvariant, PTL

\* Nobody reads an analysis from an unfinished or swept job.
THEOREM PayloadOnFinalized == Spec => []PayloadOnlyOnFinalized
<1>1. JobInv => PayloadOnlyOnFinalized
  BY DEF JobInv
<1> QED
  BY <1>1, JobInvariant, PTL

\* No delivery takes the job from a worker that owns it.
THEOREM NoClaimSteals == Spec => ClaimNeverSteals
<1>1. ASSUME JobInv, [Next]_vars, NEW w \in Workers, RunsJob(w), OwnedBy(row, worker[w].attempt),
             row'.attempt # row.attempt
      PROVE  worker'[w].pc = "idle"
  <2>1. TypeOK /\ RunOwners /\ worker[w].attempt \in 1..attempts
    BY <1>1 DEF JobInv, RunOwners
  <2>2. ASSUME NEW v \in Workers, NEW e \in queue, ClaimJob(v, e) PROVE FALSE
    <3>1. row.attempt = 0
      BY <2>2 DEF ClaimJob, ClaimHits, Envelope
    <3> QED
      BY <1>1, <2>1, <3>1 DEF OwnedBy, TypeOK
  <2>3. ASSUME NEW v \in Workers, ResetStep(v), OwnedBy(row, worker[v].attempt)
        PROVE  worker'[w].pc = "idle"
    <3>1. worker[v].pc = "reset"
      BY <2>3 DEF ResetStep
    <3>2. RunsJob(v)
      BY <2>1, <3>1 DEF RunOwners, RunStages, RunsJob
    <3>3. v = w
      BY <1>1, <2>1, <2>3, <3>2 DEF RunOwners, OwnedBy
    <3>4. worker' = [worker EXCEPT ![v] = Idle]
      BY <2>3 DEF ResetStep, Nack, Answer
    <3> QED
      BY <2>1, <3>3, <3>4 DEF TypeOK, Idle
  <2> QED
    BY <1>1, <2>1, <2>2, <2>3, RotationCases
<1>2. JobInv /\ [Next]_vars
        => [\A w \in Workers :
              RunsJob(w) /\ OwnedBy(row, worker[w].attempt) /\ row'.attempt # row.attempt
                => worker'[w].pc = "idle"]_vars
  BY <1>1
<1> QED
  BY <1>2, JobInvariant, PTL DEF Spec, ClaimNeverSteals

\* handle_extract_transient's backstop acts first: no row that used up its transient
\* attempts is handed back to the queue.
THEOREM BackstopFirst == Spec => []ExhaustedNeverPends
<1>1. JobInv => ExhaustedNeverPends
  BY DEF JobInv
<1> QED
  BY <1>1, JobInvariant, PTL

\* retry_claim_slot's CAS: of concurrent requests for one failed slot, one claims it.
THEOREM OneRetryClaims == Spec => []OneClaimPerFailure
<1>1. JobInv => OneClaimPerFailure
  BY DEF JobInv
<1> QED
  BY <1>1, JobInvariant, PTL

\* The write contract of mark_slot_done and mark_slot_failed, and ids that are
\* minted afresh wherever a slot is written without it: within one slot attempt a
\* settled slot never changes.
THEOREM SettledStays == Spec => SettledSlotIsFinal
<1>1. ASSUME JobInv, [Next]_vars, NEW s \in Slugs, Settled(row.slots[s]),
             row'.slots[s].id = row.slots[s].id
      PROVE  row'.slots[s] = row.slots[s]
  <2>1. SlotMoves(s)
    BY <1>1, SlotCases DEF JobInv, SlotsMove
  <2>2. row.slots[s].id \in Nat /\ minted[s] \in Nat /\ row.slots[s].id <= minted[s]
    BY <1>1 DEF JobInv, TypeOK, Row, Slot, RetryIds
  <2>3. ~SlotEnds(s) /\ ~SlotFresh(s)
    BY <1>1, <2>2 DEF SlotEnds, SlotFresh, Settled
  <2>4. ASSUME SlotBack(s) PROVE FALSE
    <3>1. PICK c \in Clickers : /\ RetryRevert(c)
                                /\ click[c].claimed = click[c].prior
      BY <1>1, <2>4 DEF SlotBack
    <3>2. /\ click[c].prior < click[c].claimed
          /\ click[c].prior \in Nat
      BY <1>1, <3>1 DEF RetryRevert, JobInv, RetryIds, TypeOK, Click
    <3> QED
      BY <3>1, <3>2
  <2> QED
    BY <2>1, <2>3, <2>4 DEF SlotMoves, SlotKept
<1>2. JobInv /\ [Next]_vars
        => [\A s \in Slugs : Settled(row.slots[s]) /\ row'.slots[s].id = row.slots[s].id
              => row'.slots[s] = row.slots[s]]_vars
  BY <1>1
<1> QED
  BY <1>2, JobInvariant, PTL DEF Spec, SettledSlotIsFinal

\* A handler whose attempt the row has left behind writes nothing.
LEMMA StaleWorkerWrites ==
  ASSUME NEW w \in Workers, WorkerStep(w), ~OwnedBy(row, worker[w].attempt)
  PROVE  row' = row
<1>1. /\ ~WriteSlotHits(row, worker[w].attempt) /\ ~FinalizeHits(row, worker[w].attempt)
      /\ \A s, n : ~FinalizeSlotHits(row, worker[w].attempt, s, n)
  BY DEF WriteSlotHits, FinalizeHits, FinalizeSlotHits
<1>2. CASE \/ ExtractTransient(w) \/ Persist(w) \/ SetAnalyzingStep(w) \/ FinalizeStep(w)
           \/ ResetStep(w) \/ MarkFailedStep(w)
  BY <1>1, <1>2 DEF ExtractTransient, Persist, SetAnalyzingStep, FinalizeStep, ResetStep,
                    MarkFailedStep
<1>3. ASSUME NEW s \in Slugs,
             \/ RunSection(w, s) \/ PollEnqueueRaises(w, s) \/ WriteDefault(w, s)
             \/ RerunDependent(w, s) \/ SectionRaises(w, s)
      PROVE  row' = row
  BY <1>1, <1>3 DEF RunSection, PollEnqueueRaises, WriteDefault, RerunDependent, SectionRaises
<1>4. CASE SectionDone(w) \/ SlotFailStep(w) \/ PollWrites(w)
  BY <1>1, <1>4 DEF SectionDone, SlotFailStep, PollWrites
<1>5. CASE \/ Extracted(w) \/ AbortFanOut(w) \/ FanOutDone(w) \/ Synthesize(w) \/ StepRaises(w)
           \/ HandlerRaises(w) \/ RerunDone(w) \/ PollPending(w) \/ PollRaises(w)
  BY <1>5 DEF Extracted, AbortFanOut, FanOutDone, Synthesize, StepRaises, HandlerRaises,
              RerunDone, PollPending, PollRaises
<1> QED
  BY <1>2, <1>3, <1>4, <1>5 DEF WorkerStep

\* A section that outlived its request leaves only by running.
LEMMA OrphanLeaves ==
  ASSUME TypeOK, [Next]_vars, NEW o \in orphans, o \notin orphans'
  PROVE  OrphanSection(o)
<1>1. ASSUME NEW w \in Workers, WorkerStep(w) PROVE orphans \subseteq orphans'
  BY <1>1 DEF WorkerStep, Extracted, ExtractTransient, Persist, SetAnalyzingStep, RunSection,
       SectionRaises, PollEnqueueRaises, WriteDefault, RerunDependent, AbortFanOut, FanOutDone,
       Synthesize, FinalizeStep, StepRaises, ResetStep, MarkFailedStep, SectionDone,
       HandlerRaises, RerunDone, SlotFailStep, PollPending, PollRaises, PollWrites
<1>2. ASSUME NEW w \in Workers, Deliver(w) \/ Crash(w) PROVE orphans' = orphans
  BY <1>2 DEF Deliver, ClaimJob, StartSection, StartPoll, Crash
<1>3. CASE \/ SubmitStep \/ DropStale \/ Sweep \/ SweepStalled
           \/ \E e \in queue : WaitForDedup(e) \/ LoseDelivery(e)
  BY <1>3 DEF SubmitStep, EnqueueJob, EnqueueJobRaises, MarkEnqueueFailed, DropStale, StaleRun,
       StaleSection, Sweep, SweepStalled, WaitForDedup, LoseDelivery
<1>4. ASSUME NEW c \in Clickers, ClickStep(c) PROVE orphans' = orphans
  BY <1>4 DEF ClickStep, RetryGate, RetryClaimStep, RetryEnqueue, RetryEnqueueRaises, RetryRevert
<1>5. ASSUME NEW p \in orphans, OrphanSection(p) PROVE p = o
  BY <1>5 DEF OrphanSection
<1>6. CASE UNCHANGED vars
  BY <1>6 DEF vars
<1> QED
  BY <1>1, <1>2, <1>3, <1>4, <1>5, <1>6 DEF Next

\* The CAS on the job attempt: whoever works for an attempt the row has left behind
\* changes nothing in it.
THEOREM StaleAreFenced == Spec => StaleAttemptsAreFenced
<1>1. ASSUME JobInv, [Next]_vars, NEW w \in Workers, worker[w].pc # "idle",
             ~OwnedBy(row, worker[w].attempt), worker'[w] # worker[w]
      PROVE  row' = row
  <2>1. ~Deliver(w)
    BY <1>1 DEF Deliver, ClaimJob, StartSection, StartPoll
  <2>2. CASE WorkerStep(w)
    BY <1>1, <2>2, StaleWorkerWrites
  <2>3. CASE Crash(w)
    BY <2>3 DEF Crash
  <2> QED
    BY <1>1, <2>1, <2>2, <2>3, WorkerMoves DEF JobInv
<1>2. ASSUME JobInv, [Next]_vars, NEW o \in orphans, ~OwnedBy(row, o.attempt), o \notin orphans'
      PROVE  row' = row
  <2>1. OrphanSection(o)
    BY <1>2, OrphanLeaves DEF JobInv
  <2> QED
    BY <1>2, <2>1 DEF OrphanSection, WriteSlotHits
<1>3. JobInv /\ [Next]_vars
        => [/\ \A w \in Workers :
                 worker[w].pc # "idle" /\ ~OwnedBy(row, worker[w].attempt)
                   /\ worker'[w] # worker[w] => row' = row
            /\ \A o \in orphans : ~OwnedBy(row, o.attempt) /\ o \notin orphans' => row' = row]_vars
  BY <1>1, <1>2
<1> QED
  BY <1>3, JobInvariant, PTL DEF Spec, StaleAttemptsAreFenced

-----------------------------------------------------------------------------
(* VibecheckJob implements JobLifecycle. *)

\* What a poll of the job sees before and after a step.
SeenBy(r) == <<r.status, r.payload # NoPayload>>

\* A step that keeps status and payload is a stutter of the lifecycle.
LEMMA LifecycleStutters ==
  ASSUME SeenBy(row') = SeenBy(row)
  PROVE  [Lifecycle!Next]_(Lifecycle!lifecycle)
  BY DEF SeenBy, Lifecycle!lifecycle

\* The worker that resets the job, or moves it on to its sections, took it from
\* pending: the row it owns is not pending any more.
LEMMA OwnedIsTaken ==
  ASSUME JobInv, NEW w \in Workers, worker[w].pc \in RunStages, OwnedBy(row, worker[w].attempt)
  PROVE  row.status # "pending"
<1>1. worker[w].task.kind = "run"
  BY DEF JobInv, RunOwners
<1>2. RunsJob(w)
  BY <1>1 DEF RunsJob, RunStages
<1>3. worker[w].attempt \in 1..attempts /\ attempts \in Nat
  BY <1>2 DEF JobInv, RunOwners, TypeOK
<1> QED
  BY <1>3 DEF JobInv, PendingIsUnclaimed, OwnedBy, Envelope

\* The invariant's row is unfinished exactly when finished_at is not set.
LEMMA UnfinishedRow ==
  ASSUME JobInv
  PROVE  /\ row \in Row
         /\ ~row.finished <=> row.status \in NonTerminal
         /\ row.status \in NonTerminal => row.payload = NoPayload
<1>1. TypeOK /\ Commits(row) /\ PayloadOnlyOnFinalized
  BY DEF JobInv
<1>2. row \in Row
  BY <1>1 DEF TypeOK
<1>3. ~row.finished <=> row.status \in NonTerminal
  BY <1>1, <1>2 DEF Commits, Row, Terminal, Finalized, NonTerminal
<1> QED
  BY <1>1, <1>2, <1>3, NoEarlyPayload

\* Every step of the job is a step of its lifecycle, or invisible to a poll.
LEMMA LifecycleStep ==
  ASSUME JobInv, [Next]_vars
  PROVE  [Lifecycle!Next]_(Lifecycle!lifecycle)
<1> USE DEF NonTerminal
<1>1. /\ row \in Row
      /\ ~row.finished <=> row.status \in NonTerminal
      /\ row.status \in NonTerminal => row.payload = NoPayload
  BY UnfinishedRow
<1>2. CASE HeaderKept
  BY <1>2, LifecycleStutters DEF HeaderKept, Header, SeenBy
<1>3. CASE MarkEnqueueFailed \/ Sweep \/ SweepStalled
  <2>1. row'.status = "failed" /\ row'.payload = row.payload
    BY <1>1, <1>3 DEF MarkEnqueueFailed, MarkFailedEnqueue, Sweep, SweepStalled, SweepOrphan, Row
  <2> QED
    BY <2>1 DEF Lifecycle!Next, Lifecycle!Fail
<1>4. ASSUME NEW w \in Workers, NEW e \in queue, ClaimJob(w, e)
      PROVE  [Lifecycle!Next]_(Lifecycle!lifecycle)
  <2>1. /\ row.status = "pending" /\ row'.status = "extracting"
        /\ row'.payload = row.payload
    BY <1>1, <1>4 DEF ClaimJob, ClaimHits, Claim, Row
  <2> QED
    BY <2>1 DEF Lifecycle!Next, Lifecycle!Take
<1>5. ASSUME NEW w \in Workers, SetAnalyzingStep(w)
      PROVE  [Lifecycle!Next]_(Lifecycle!lifecycle)
  <2>1. CASE row' = row
    BY <2>1, LifecycleStutters DEF SeenBy
  <2>2. CASE OwnedBy(row, worker[w].attempt) /\ row' = SetAnalyzing(row) /\ Commits(row')
    <3>1. row'.status = "analyzing" /\ row'.payload = row.payload /\ row'.finished = row.finished
      BY <1>1, <2>2 DEF SetAnalyzing, Row
    <3>2. row.status \in NonTerminal
      BY <1>1, <2>2, <3>1 DEF Commits, Terminal, Finalized, Row
    <3>3. row.status # "pending"
      BY <1>5, <2>2, OwnedIsTaken DEF SetAnalyzingStep, RunStages
    <3>4. CASE row.status = "extracting"
      BY <3>1, <3>4 DEF Lifecycle!Next, Lifecycle!Analyze
    <3>5. CASE row.status = "analyzing"
      BY <3>1, <3>5, LifecycleStutters DEF SeenBy
    <3> QED
      BY <3>2, <3>3, <3>4, <3>5
  <2> QED
    BY <1>5, <2>1, <2>2 DEF SetAnalyzingStep
<1>6. ASSUME NEW w \in Workers, FinalizeStep(w)
      PROVE  [Lifecycle!Next]_(Lifecycle!lifecycle)
  <2>1. CASE FinalizeHits(row, worker[w].attempt)
    <3>1. row' = Finalize(row) /\ row.status \in NonTerminal
      BY <1>6, <2>1 DEF FinalizeStep, FinalizeHits
    <3>2. row'.status \in {"done", "partial"} /\ \A s \in Slugs : Settled(row'.payload[s])
      BY <1>1, <2>1, <3>1, FinalizeResult DEF Finalized
    <3>3. row'.payload # NoPayload
      <4>1. Dedup \in Slugs
        BY SlugsAssumption
      <4>2. ~Settled(NoPayload[Dedup])
        BY <4>1 DEF Settled, NoPayload, NoSlot
      <4> QED
        BY <3>2, <4>1, <4>2
    <3> QED
      BY <3>1, <3>2, <3>3 DEF Lifecycle!Next, Lifecycle!Complete, Lifecycle!Ended
  <2>2. CASE ~FinalizeHits(row, worker[w].attempt)
    BY <1>6, <2>2, LifecycleStutters DEF FinalizeStep, SeenBy
  <2> QED
    BY <2>1, <2>2
<1>7. ASSUME NEW w \in Workers, ResetStep(w)
      PROVE  [Lifecycle!Next]_(Lifecycle!lifecycle)
  <2>1. CASE row' = row
    BY <2>1, LifecycleStutters DEF SeenBy
  <2>2. CASE OwnedBy(row, worker[w].attempt) /\ row' = ResetForRetry(row, Envelope) /\ Commits(row')
    <3>1. row'.status = "pending" /\ row'.payload = row.payload /\ row'.finished = row.finished
      BY <1>1, <2>2 DEF ResetForRetry, Row
    <3>2. row.status \in NonTerminal
      BY <1>1, <2>2, <3>1 DEF Commits, Terminal, Finalized, Row
    <3>3. row.status # "pending"
      BY <1>7, <2>2, OwnedIsTaken DEF ResetStep, RunStages
    <3> QED
      BY <3>1, <3>2, <3>3 DEF Lifecycle!Next, Lifecycle!GiveBack, Lifecycle!Working
  <2> QED
    BY <1>7, <2>1, <2>2 DEF ResetStep
<1>8. ASSUME NEW w \in Workers, MarkFailedStep(w)
      PROVE  [Lifecycle!Next]_(Lifecycle!lifecycle)
  <2>1. CASE row' = row
    BY <2>1, LifecycleStutters DEF SeenBy
  <2>2. CASE row' # row
    <3>1. row'.status = "failed" /\ row'.payload = row.payload
      BY <1>1, <1>8, <2>2 DEF MarkFailedStep, MarkFailed, Row
    <3> QED
      BY <3>1 DEF Lifecycle!Next, Lifecycle!Fail
  <2> QED
    BY <2>1, <2>2
<1>9. ASSUME NEW c \in Clickers, RetryClaimStep(c)
      PROVE  [Lifecycle!Next]_(Lifecycle!lifecycle)
  <2>1. CASE row' = row
    BY <2>1, LifecycleStutters DEF SeenBy
  <2>2. CASE row' # row
    <3>1. row'.status = "analyzing" /\ row'.payload = NoPayload
      BY <1>1, <1>9, <2>2 DEF RetryClaimStep, RetryClaim, Row
    <3> QED
      BY <3>1 DEF Lifecycle!Next, Lifecycle!Reopen
  <2> QED
    BY <2>1, <2>2
<1>10. HeaderKept \/ HeaderStep
  BY HeaderCases DEF JobInv
<1> QED
  BY <1>2, <1>3, <1>4, <1>5, <1>6, <1>7, <1>8, <1>9, <1>10 DEF HeaderStep

\* What a polling client sees of the job, with its workers, deliveries, retries and
\* crashes, is a behaviour of JobLifecycle.
THEOREM LifecycleRefinement == Spec => ImplementsLifecycle
<1>1. Init => Lifecycle!Init
  BY DEF Init, Lifecycle!Init, NewRow
<1>2. JobInv /\ [Next]_vars => [Lifecycle!Next]_(Lifecycle!lifecycle)
  BY LifecycleStep
<1> QED
  BY <1>1, <1>2, JobInvariant, PTL DEF Spec, ImplementsLifecycle, Lifecycle!Spec
=============================================================================
