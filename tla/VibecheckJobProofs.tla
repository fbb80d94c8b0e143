------------------------- MODULE VibecheckJobProofs -------------------------
(* Types of JobRow and VibecheckJob, for any number of workers, clickers,    *)
(* slugs, deliveries and retries.                                            *)
EXTENDS VibecheckJob, TLAPS

-----------------------------------------------------------------------------
(* The statements of JobRow: the rows they produce have the row's type, and  *)
(* which of them keep the table's CHECK.                                     *)

\* The empty row of slots is a row of slots.
LEMMA NoSlotType == NoSlot \in Slot /\ NoPayload \in [Slugs -> Slot]
  BY DEF NoSlot, NoPayload, Slot

\* The row the submit inserts has the row's type and passes the CHECK.
LEMMA NewRowType == NewRow \in Row /\ Commits(NewRow)
  BY NoSlotType DEF NewRow, Row, Commits, NonTerminal, Terminal, Finalized, Codes, Envelope

\* Job-level statements preserve the row's type.
LEMMA JobStatementTypes ==
  ASSUME NEW r \in Row, NEW n \in Nat, NEW code \in Codes
  PROVE  /\ Claim(r, n) \in Row
         /\ ResetForRetry(r, n) \in Row
         /\ MarkFailed(r, code) \in Row
         /\ SetAnalyzing(r) \in Row
         /\ IncrementTransients(r) \in Row
         /\ PersistUtterances(r) \in Row
         /\ SweepOrphan(r) \in Row
         /\ MarkFailedEnqueue(r) \in Row
<1>1. Claim(r, n) \in Row
  BY DEF Row, Claim, NonTerminal
<1>2. ResetForRetry(r, n) \in Row
  BY DEF Row, ResetForRetry, NonTerminal
<1>3. MarkFailed(r, code) \in Row
  BY DEF Row, MarkFailed, Terminal
<1>4. SetAnalyzing(r) \in Row
  BY DEF Row, SetAnalyzing, NonTerminal
<1>5. IncrementTransients(r) \in Row
  BY DEF Row, IncrementTransients
<1>6. PersistUtterances(r) \in Row
  BY DEF Row, PersistUtterances
<1>7. SweepOrphan(r) \in Row
  BY DEF Row, SweepOrphan, Terminal, Codes
<1>8. MarkFailedEnqueue(r) \in Row
  BY DEF Row, MarkFailedEnqueue, Terminal, Codes
<1> QED
  BY <1>1, <1>2, <1>3, <1>4, <1>5, <1>6, <1>7, <1>8

\* Section-level statements and finalize preserve the row's type.
LEMMA SlotStatementTypes ==
  ASSUME NEW r \in Row, NEW s \in Slugs, NEW n \in Nat, NEW slot \in Slot
  PROVE  /\ WriteSlot(r, s, slot) \in Row
         /\ RetryClaim(r, s, n) \in Row
         /\ RevertSlot(r, s, n) \in Row
         /\ Finalize(r) \in Row
<1>1. WriteSlot(r, s, slot) \in Row
  BY DEF Row, WriteSlot
<1>2. RetryClaim(r, s, n) \in Row
  <2>1. [state |-> "running", id |-> n, data |-> "none"] \in Slot
    BY DEF Slot
  <2> QED
    BY <2>1, NoSlotType DEF Row, RetryClaim, NonTerminal, Codes
<1>3. RevertSlot(r, s, n) \in Row
  <2>1. [state |-> "failed", id |-> n, data |-> "none"] \in Slot
    BY DEF Slot
  <2> QED
    BY <2>1 DEF Row, RevertSlot
<1>4. Finalize(r) \in Row
  BY DEF Row, Finalize, Terminal, Finalized, Codes
<1> QED
  BY <1>1, <1>2, <1>3, <1>4

\* Finalize ends the job with the slots it found, all settled, and the status
\* says whether one of them failed.
LEMMA FinalizeResult ==
  ASSUME NEW r \in Row, NEW a, FinalizeHits(r, a)
  PROVE  /\ Finalize(r).status \in Finalized
         /\ Finalize(r).payload = r.slots
         /\ r.slots # NoPayload
         /\ \A s \in Slugs : Settled(Finalize(r).payload[s])
         /\ Finalize(r).status = "partial"
              <=> \E s \in Slugs : Finalize(r).payload[s].state = "failed"
<1>1. Finalize(r).status \in Finalized /\ Finalize(r).payload = r.slots
  BY DEF Row, Finalize, Finalized
<1>2. \A s \in Slugs : Settled(r.slots[s])
  BY DEF FinalizeHits, AllSettled
<1>3. r.slots # NoPayload
  <2>1. Settled(r.slots[Dedup]) /\ Dedup \in Slugs
    BY <1>2, SlugsAssumption
  <2>2. ~Settled(NoPayload[Dedup])
    BY <2>1 DEF NoPayload, NoSlot, Settled
  <2> QED
    BY <2>1, <2>2
<1>4. Finalize(r).status = "partial" <=> FailedSlugs(r) # {}
  BY DEF Row, Finalize
<1>5. FailedSlugs(r) # {} <=> \E s \in Slugs : r.slots[s].state = "failed"
  BY DEF FailedSlugs
<1> QED
  BY <1>1, <1>2, <1>3, <1>4, <1>5

-----------------------------------------------------------------------------
(* The helpers' types. *)

\* The three kinds of task the job enqueues are tasks.
LEMMA TaskTypes ==
  ASSUME NEW s \in Slugs, NEW id \in Nat, NEW a \in Nat
  PROVE  RunTask \in Task /\ SectionTask(s, id) \in Task /\ PollTask(s, id, a) \in Task
  BY SlugsAssumption DEF RunTask, SectionTask, PollTask, Task, Envelope

\* Creating, delivering and deleting tasks keeps the queue's type.
LEMMA QueueTypes ==
  ASSUME NEW q \in SUBSET QueueEntry, NEW t \in Task
  PROVE  /\ Push(q, t) \in SUBSET QueueEntry
         /\ Without(q, t) \in SUBSET QueueEntry
         /\ \A e \in q : Delivered(q, e) \in SUBSET QueueEntry
<1>1. Without(q, t) \in SUBSET QueueEntry
  BY DEF Without
<1>2. Push(q, t) \in SUBSET QueueEntry
  <2>1. [task |-> t, left |-> MaxDeliveries] \in QueueEntry
    BY BoundsAssumption DEF QueueEntry
  <2> QED
    BY <1>1, <2>1 DEF Push
<1>3. ASSUME NEW e \in q PROVE Delivered(q, e) \in SUBSET QueueEntry
  <2>1. CASE e.left > 1
    <3>1. [e EXCEPT !.left = @ - 1] \in QueueEntry
      BY <2>1, BoundsAssumption DEF QueueEntry
    <3> QED
      BY <2>1, <3>1 DEF Delivered
  <2>2. CASE ~(e.left > 1)
    BY <2>2 DEF Delivered
  <2> QED
    BY <2>1, <2>2
<1> QED
  BY <1>1, <1>2, <1>3

\* A worker that starts or ends a request, or moves on, keeps a worker's type.
LEMMA WorkerTypes ==
  /\ Idle \in WorkerState
  /\ \A t \in Task, pc \in Stages, a \in Nat : Started(t, pc, a) \in WorkerState
  /\ \A u \in WorkerState, pc \in Stages : [u EXCEPT !.pc = pc] \in WorkerState
  /\ \A u \in WorkerState, pc \in Stages, todo \in SUBSET Slugs :
        [u EXCEPT !.pc = pc, !.todo = todo] \in WorkerState
  /\ \A u \in WorkerState, todo \in SUBSET Slugs : [u EXCEPT !.todo = todo] \in WorkerState
  /\ \A u \in WorkerState, todo \in SUBSET Slugs, d \in {"none", "done", "failed"} :
        [u EXCEPT !.todo = todo, !.dedup = d] \in WorkerState
  /\ \A u \in WorkerState, todo \in SUBSET Slugs, b \in BOOLEAN :
        [u EXCEPT !.todo = todo, !.broken = b] \in WorkerState
<1>1. RunTask \in Task
  BY SlugsAssumption DEF RunTask, Task, Envelope
<1>2. Idle \in WorkerState
  BY <1>1 DEF Idle, WorkerState, Envelope
<1>3. ASSUME NEW t \in Task, NEW pc \in Stages, NEW a \in Nat
      PROVE  Started(t, pc, a) \in WorkerState
  BY DEF Started, Idle, WorkerState
<1>4. ASSUME NEW u \in WorkerState, NEW pc \in Stages
      PROVE  [u EXCEPT !.pc = pc] \in WorkerState
  BY DEF WorkerState
<1>5. ASSUME NEW u \in WorkerState, NEW pc \in Stages, NEW todo \in SUBSET Slugs
      PROVE  [u EXCEPT !.pc = pc, !.todo = todo] \in WorkerState
  BY DEF WorkerState
<1>6. ASSUME NEW u \in WorkerState, NEW todo \in SUBSET Slugs
      PROVE  [u EXCEPT !.todo = todo] \in WorkerState
  BY DEF WorkerState
<1>7. ASSUME NEW u \in WorkerState, NEW todo \in SUBSET Slugs,
             NEW d \in {"none", "done", "failed"}
      PROVE  [u EXCEPT !.todo = todo, !.dedup = d] \in WorkerState
  BY DEF WorkerState
<1>8. ASSUME NEW u \in WorkerState, NEW todo \in SUBSET Slugs, NEW b \in BOOLEAN
      PROVE  [u EXCEPT !.todo = todo, !.broken = b] \in WorkerState
  BY DEF WorkerState
<1> QED
  BY <1>2, <1>3, <1>4, <1>5, <1>6, <1>7, <1>8

\* The slots a section can leave behind.
LEMMA SlotTypes ==
  ASSUME NEW s \in Slugs, NEW id \in Nat
  PROVE  /\ \A result \in SectionResults(s) :
              /\ SlotOf(result, id) \in Slot
              /\ result.state \in {"done", "failed", "running"}
         /\ [state |-> "done", id |-> id, data |-> RetryData(s)] \in Slot
         /\ [state |-> "done", id |-> id, data |-> "default"] \in Slot
         /\ [state |-> "failed", id |-> id, data |-> "none"] \in Slot
         /\ [state |-> "running", id |-> id, data |-> "none"] \in Slot
<1>1. ASSUME NEW result \in SectionResults(s)
      PROVE  SlotOf(result, id) \in Slot /\ result.state \in {"done", "failed", "running"}
  BY DEF SectionResults, SlotOf, Slot
<1>2. RetryData(s) \in {"none", "result", "default"}
  BY DEF RetryData
<1> QED
  BY <1>1, <1>2 DEF Slot

-----------------------------------------------------------------------------
(* Type correctness, one lemma per part of the model. *)

\* The initial state is well typed.
LEMMA InitTypes == Init => TypeOK
<1> SUFFICES ASSUME Init PROVE TypeOK
  OBVIOUS
<1>1. row \in Row /\ cache \in [Slugs -> Slot]
  BY NewRowType, NoSlotType DEF Init
<1>2. worker \in [Workers -> WorkerState]
  BY WorkerTypes DEF Init
<1>3. click \in [Clickers -> Click]
  BY SlugsAssumption DEF Init, Click
<1> QED
  BY <1>1, <1>2, <1>3 DEF Init, TypeOK

\* The submitting request.
LEMMA SubmitTypes == ASSUME TypeOK, SubmitStep PROVE TypeOK'
<1> USE DEF TypeOK
<1>1. Push(queue, RunTask) \in SUBSET QueueEntry
  <2>1. RunTask \in Task
    BY SlugsAssumption DEF RunTask, Task, Envelope
  <2> QED
    BY <2>1, QueueTypes
<1>2. CASE EnqueueJob
  BY <1>1, <1>2 DEF EnqueueJob
<1>3. CASE EnqueueJobRaises
  <2>1. queue' \in SUBSET QueueEntry /\ faults' \in Nat
    BY <1>1, <1>3 DEF EnqueueJobRaises, Fault
  <2> QED
    BY <1>3, <2>1 DEF EnqueueJobRaises
<1>4. CASE MarkEnqueueFailed
  BY <1>4, JobStatementTypes DEF MarkEnqueueFailed, Codes
<1> QED
  BY <1>2, <1>3, <1>4 DEF SubmitStep

\* Deliveries: a task starts a handler, is acknowledged as stale, waits or is lost.
LEMMA DeliveryTypes ==
  ASSUME TypeOK, NEW e \in queue
  PROVE  /\ \A w \in Workers : ClaimJob(w, e) \/ StartSection(w, e) \/ StartPoll(w, e) => TypeOK'
         /\ StaleRun(e) \/ StaleSection(e) \/ WaitForDedup(e) \/ LoseDelivery(e) => TypeOK'
<1> USE DEF TypeOK
<1>1. /\ e.task \in Task /\ e.task.attempt \in Nat
      /\ Delivered(queue, e) \in SUBSET QueueEntry
      /\ Without(queue, e.task) \in SUBSET QueueEntry
      /\ Push(queue, e.task) \in SUBSET QueueEntry
  <2>1. e.task \in Task /\ e.task.attempt \in Nat
    BY DEF QueueEntry, Task
  <2> QED
    BY <2>1, QueueTypes
<1>2. \A pc \in Stages, a \in Nat : Started(e.task, pc, a) \in WorkerState
  BY <1>1, WorkerTypes
<1>3. row.attempt \in Nat
  BY DEF Row
<1>4. ASSUME NEW w \in Workers, ClaimJob(w, e) PROVE TypeOK'
  <2>1. row' \in Row
    BY <1>4, JobStatementTypes DEF ClaimJob, Codes
  <2>2. worker' \in [Workers -> WorkerState]
    BY <1>4, <1>2 DEF ClaimJob, Stages
  <2> QED
    BY <1>4, <1>1, <2>1, <2>2 DEF ClaimJob
<1>5. ASSUME NEW w \in Workers, StartSection(w, e) PROVE TypeOK'
  <2>1. worker' \in [Workers -> WorkerState]
    BY <1>5, <1>2, <1>3 DEF StartSection, Stages
  <2> QED
    BY <1>5, <1>1, <2>1 DEF StartSection
<1>6. ASSUME NEW w \in Workers, StartPoll(w, e) PROVE TypeOK'
  <2>1. worker' \in [Workers -> WorkerState]
    BY <1>6, <1>1, <1>2 DEF StartPoll, Stages
  <2> QED
    BY <1>6, <1>1, <2>1 DEF StartPoll
<1>7. ASSUME StaleRun(e) PROVE TypeOK'
  BY <1>7, <1>1 DEF StaleRun
<1>8. ASSUME StaleSection(e) PROVE TypeOK'
  BY <1>8, <1>1 DEF StaleSection
<1>9. ASSUME WaitForDedup(e) PROVE TypeOK'
  BY <1>9, <1>1 DEF WaitForDedup
<1>10. ASSUME LoseDelivery(e) PROVE TypeOK'
  BY <1>10, <1>1 DEF LoseDelivery
<1> QED
  BY <1>4, <1>5, <1>6, <1>7, <1>8, <1>9, <1>10

\* What a handler does next: goes on, or answers with or without deleting its task.
LEMMA HandlerTypes ==
  ASSUME TypeOK, NEW w \in Workers
  PROVE  /\ worker[w] \in WorkerState
         /\ worker[w].task \in Task /\ worker[w].attempt \in Nat
         /\ worker[w].task.slug \in Slugs /\ worker[w].task.id \in Nat
         /\ worker[w].todo \in SUBSET Slugs
         /\ \A pc \in Stages : Goto(w, pc) => worker' \in [Workers -> WorkerState]
         /\ Answer(w) => worker' \in [Workers -> WorkerState]
         /\ Ack(w) \/ Nack(w) => /\ worker' \in [Workers -> WorkerState]
                                /\ queue' \in SUBSET QueueEntry
         /\ Push(queue, worker[w].task) \in SUBSET QueueEntry
<1> USE DEF TypeOK
<1>1. worker[w] \in WorkerState
  OBVIOUS
<1>2. /\ worker[w].task \in Task /\ worker[w].attempt \in Nat
      /\ worker[w].todo \in SUBSET Slugs
  BY <1>1 DEF WorkerState
<1>3. worker[w].task.slug \in Slugs /\ worker[w].task.id \in Nat
  BY <1>2 DEF Task
<1>4. ASSUME NEW pc \in Stages, Goto(w, pc) PROVE worker' \in [Workers -> WorkerState]
  <2>1. [worker[w] EXCEPT !.pc = pc] \in WorkerState
    BY <1>1, WorkerTypes
  <2>2. worker' = [worker EXCEPT ![w] = [worker[w] EXCEPT !.pc = pc]]
    BY <1>4 DEF Goto
  <2> QED
    BY <2>1, <2>2
<1>5. ASSUME Answer(w) PROVE worker' \in [Workers -> WorkerState]
  BY <1>5, WorkerTypes DEF Answer
<1>6. /\ Without(queue, worker[w].task) \in SUBSET QueueEntry
      /\ Push(queue, worker[w].task) \in SUBSET QueueEntry
  BY <1>2, QueueTypes
<1>7. ASSUME Ack(w) \/ Nack(w)
      PROVE  worker' \in [Workers -> WorkerState] /\ queue' \in SUBSET QueueEntry
  BY <1>5, <1>6, <1>7 DEF Ack, Nack
<1> QED
  BY <1>1, <1>2, <1>3, <1>4, <1>5, <1>6, <1>7

\* run_job outside its fan-out.
RunStep(w) ==
    \/ Extracted(w) \/ ExtractTransient(w) \/ Persist(w) \/ SetAnalyzingStep(w)
    \/ FanOutDone(w) \/ Synthesize(w) \/ FinalizeStep(w) \/ StepRaises(w)
    \/ ResetStep(w) \/ MarkFailedStep(w)

\* These steps keep the types.
LEMMA RunTypes == ASSUME TypeOK, NEW w \in Workers, RunStep(w) PROVE TypeOK'
<1> USE DEF TypeOK
<1>1. CASE Extracted(w)
  BY <1>1, HandlerTypes DEF Extracted, Stages
<1>2. CASE ExtractTransient(w)
  <2>1. row' \in Row
    BY <1>2, JobStatementTypes DEF ExtractTransient, Codes
  <2>2. worker' \in [Workers -> WorkerState]
    BY <1>2, HandlerTypes DEF ExtractTransient, Stages
  <2> QED
    BY <1>2, <2>1, <2>2 DEF ExtractTransient
<1>3. CASE Persist(w)
  <2>1. row' \in Row
    BY <1>3, JobStatementTypes DEF Persist, Codes
  <2>2. worker' \in [Workers -> WorkerState] /\ queue' \in SUBSET QueueEntry
    BY <1>3, HandlerTypes DEF Persist, Stages
  <2> QED
    BY <1>3, <2>1, <2>2 DEF Persist
<1>4. CASE SetAnalyzingStep(w)
  <2>1. row' \in Row
    BY <1>4, JobStatementTypes DEF SetAnalyzingStep, Codes
  <2>2. FanOut(w) => worker' \in [Workers -> WorkerState]
    <3>1. [worker[w] EXCEPT !.pc = "sections", !.todo = Slugs] \in WorkerState
      BY HandlerTypes DEF WorkerState, Stages
    <3> QED
      BY <3>1 DEF FanOut
  <2>3. worker' \in [Workers -> WorkerState]
    BY <1>4, <2>2, HandlerTypes DEF SetAnalyzingStep, Stages
  <2> QED
    BY <1>4, <2>1, <2>3 DEF SetAnalyzingStep
<1>5. CASE FanOutDone(w)
  BY <1>5, HandlerTypes DEF FanOutDone, Stages
<1>6. CASE Synthesize(w)
  BY <1>6, HandlerTypes DEF Synthesize, Stages
<1>7. CASE FinalizeStep(w)
  <2>1. Finalize(row) \in Row
    BY SlotStatementTypes, SlugsAssumption, NoSlotType
  <2>2. row' \in Row /\ cache' \in [Slugs -> Slot]
    BY <1>7, <2>1 DEF FinalizeStep, Row
  <2>3. worker' \in [Workers -> WorkerState] /\ queue' \in SUBSET QueueEntry
    BY <1>7, HandlerTypes DEF FinalizeStep
  <2> QED
    BY <1>7, <2>2, <2>3 DEF FinalizeStep
<1>8. CASE StepRaises(w)
  <2>1. worker' \in [Workers -> WorkerState] /\ queue' \in SUBSET QueueEntry
    BY <1>8, HandlerTypes DEF StepRaises, Stages
  <2>2. faults' \in Nat
    BY <1>8 DEF StepRaises, Fault
  <2> QED
    BY <1>8, <2>1, <2>2 DEF StepRaises
<1>9. CASE ResetStep(w)
  <2>1. row' \in Row
    BY <1>9, JobStatementTypes DEF ResetStep, Codes, Envelope
  <2>2. worker' \in [Workers -> WorkerState] /\ queue' \in SUBSET QueueEntry
    BY <1>9, HandlerTypes DEF ResetStep
  <2> QED
    BY <1>9, <2>1, <2>2 DEF ResetStep
<1>10. CASE MarkFailedStep(w)
  <2>1. row' \in Row
    BY <1>10, JobStatementTypes DEF MarkFailedStep, Codes
  <2>2. worker' \in [Workers -> WorkerState] /\ queue' \in SUBSET QueueEntry
    BY <1>10, HandlerTypes DEF MarkFailedStep
  <2> QED
    BY <1>10, <2>1, <2>2 DEF MarkFailedStep
<1> QED
  BY <1>1, <1>2, <1>3, <1>4, <1>5, <1>6, <1>7, <1>8, <1>9, <1>10 DEF RunStep

\* The fan-out of a run and the sections that outlive it.
FanOutStep(w) ==
    \/ \E s \in Slugs : RunSection(w, s) \/ SectionRaises(w, s) \/ PollEnqueueRaises(w, s)
                        \/ WriteDefault(w, s)
    \/ AbortFanOut(w)

\* The fan-out keeps the types.
LEMMA FanOutTypes == ASSUME TypeOK, NEW w \in Workers, FanOutStep(w) PROVE TypeOK'
<1> USE DEF TypeOK
<1>1. /\ worker[w] \in WorkerState
      /\ \A s \in Slugs : worker[w].todo \ {s} \in SUBSET Slugs
  BY HandlerTypes
<1>2. ASSUME NEW s \in Slugs, RunSection(w, s) PROVE TypeOK'
  <2>1. PICK result \in SectionResults(s) :
          /\ row' = WriteSlot(row, s, SlotOf(result, minted'[s]))
          /\ worker' = [worker EXCEPT ![w].todo = @ \ {s},
                                      ![w].dedup = IF s = Dedup THEN result.state ELSE @]
          /\ queue' = IF result.state = "running"
                      THEN Push(queue, PollTask(s, minted'[s], worker[w].attempt))
                      ELSE queue
    BY <1>2 DEF RunSection
  <2>2. minted' \in [Slugs -> Nat] /\ minted'[s] \in Nat
    BY <1>2 DEF RunSection
  <2>3. row' \in Row
    <3>1. SlotOf(result, minted'[s]) \in Slot
      BY <2>2, SlotTypes
    <3> QED
      BY <2>1, <3>1, SlotStatementTypes
  <2>4. queue' \in SUBSET QueueEntry
    BY <2>1, <2>2, HandlerTypes, TaskTypes, QueueTypes
  <2>5. worker' \in [Workers -> WorkerState]
    <3>1. s = Dedup => result.state \in {"done", "failed"}
      BY SlugsAssumption DEF SectionResults
    <3>2. worker[w].dedup \in {"none", "done", "failed"}
      BY HandlerTypes DEF WorkerState
    <3>3. (IF s = Dedup THEN result.state ELSE worker[w].dedup) \in {"none", "done", "failed"}
      BY <3>1, <3>2
    <3>4. worker' = [worker EXCEPT ![w] = [worker[w] EXCEPT !.todo = @ \ {s},
                       !.dedup = IF s = Dedup THEN result.state ELSE worker[w].dedup]]
      BY <2>1
    <3>5. [worker[w] EXCEPT !.todo = @ \ {s},
             !.dedup = IF s = Dedup THEN result.state ELSE worker[w].dedup] \in WorkerState
      BY <1>1, <3>3, WorkerTypes
    <3> QED
      BY <3>4, <3>5
  <2> QED
    BY <1>2, <2>2, <2>3, <2>4, <2>5 DEF RunSection
<1>3. ASSUME NEW s \in Slugs, SectionRaises(w, s) PROVE TypeOK'
  <2>1. worker' \in [Workers -> WorkerState]
    <3>1. worker' = [worker EXCEPT ![w] = [worker[w] EXCEPT !.todo = @ \ {s}, !.broken = TRUE]]
      BY <1>3 DEF SectionRaises
    <3>2. [worker[w] EXCEPT !.todo = @ \ {s}, !.broken = TRUE] \in WorkerState
      BY <1>1, WorkerTypes
    <3> QED
      BY <3>1, <3>2
  <2>2. faults' \in Nat
    BY <1>3 DEF SectionRaises, Fault
  <2> QED
    BY <1>3, <2>1, <2>2 DEF SectionRaises
<1>4. ASSUME NEW s \in Slugs, PollEnqueueRaises(w, s) PROVE TypeOK'
  <2>1. worker' \in [Workers -> WorkerState]
    <3>1. worker' = [worker EXCEPT ![w] = [worker[w] EXCEPT !.todo = @ \ {s}, !.broken = TRUE]]
      BY <1>4 DEF PollEnqueueRaises
    <3>2. [worker[w] EXCEPT !.todo = @ \ {s}, !.broken = TRUE] \in WorkerState
      BY <1>1, WorkerTypes
    <3> QED
      BY <3>1, <3>2
  <2>2. minted' \in [Slugs -> Nat] /\ minted'[s] \in Nat /\ faults' \in Nat
    BY <1>4 DEF PollEnqueueRaises, Fault
  <2>3. row' \in Row
    BY <1>4, <2>2, SlotTypes, SlotStatementTypes DEF PollEnqueueRaises
  <2>4. queue' \in SUBSET QueueEntry
    <3>1. Push(queue, PollTask(s, minted'[s], worker[w].attempt)) \in SUBSET QueueEntry
      BY <2>2, HandlerTypes, TaskTypes, QueueTypes
    <3> QED
      BY <1>4, <3>1 DEF PollEnqueueRaises
  <2> QED
    BY <1>4, <2>1, <2>2, <2>3, <2>4 DEF PollEnqueueRaises
<1>5. ASSUME NEW s \in Slugs, WriteDefault(w, s) PROVE TypeOK'
  <2>1. worker' \in [Workers -> WorkerState]
    <3>1. worker' = [worker EXCEPT ![w] = [worker[w] EXCEPT !.todo = @ \ {s}]]
      BY <1>5 DEF WriteDefault
    <3>2. [worker[w] EXCEPT !.todo = @ \ {s}] \in WorkerState
      BY <1>1, WorkerTypes
    <3> QED
      BY <3>1, <3>2
  <2>2. minted' \in [Slugs -> Nat] /\ minted'[s] \in Nat /\ faults' \in Nat
    BY <1>5 DEF WriteDefault, Fault
  <2>3. row' \in Row
    <3>1. [state |-> "done", id |-> minted'[s], data |-> "default"] \in Slot
      BY <2>2, SlotTypes
    <3>2. WriteSlot(row, s, [state |-> "done", id |-> minted'[s], data |-> "default"]) \in Row
      BY <3>1, SlotStatementTypes
    <3> QED
      BY <1>5, <3>2 DEF WriteDefault
  <2> QED
    BY <1>5, <2>1, <2>2, <2>3 DEF WriteDefault
<1>6. ASSUME AbortFanOut(w) PROVE TypeOK'
  <2>1. worker' \in [Workers -> WorkerState]
    <3>1. worker' = [worker EXCEPT ![w] = [worker[w] EXCEPT !.pc = "reset", !.todo = {}]]
      BY <1>6 DEF AbortFanOut
    <3>2. [worker[w] EXCEPT !.pc = "reset", !.todo = {}] \in WorkerState
      BY <1>1, WorkerTypes DEF Stages
    <3> QED
      BY <3>1, <3>2
  <2>2. orphans' \in SUBSET Orphan
    BY <1>6, HandlerTypes DEF AbortFanOut, Running, Orphan
  <2> QED
    BY <1>6, <2>1, <2>2 DEF AbortFanOut
<1> QED
  BY <1>2, <1>3, <1>4, <1>5, <1>6 DEF FanOutStep

\* A section that outlived its request keeps the types.
LEMMA OrphanTypes == ASSUME TypeOK, NEW o \in orphans, OrphanSection(o) PROVE TypeOK'
<1> USE DEF TypeOK
<1>1. o.slug \in Slugs /\ o.attempt \in Nat
  BY DEF Orphan
<1>2. minted' \in [Slugs -> Nat] /\ minted'[o.slug] \in Nat
  BY <1>1 DEF OrphanSection
<1>3. CASE WriteSlotHits(row, o.attempt)
  <2>1. PICK result \in SectionResults(o.slug) :
          /\ row' = WriteSlot(row, o.slug, SlotOf(result, minted'[o.slug]))
          /\ queue' = IF result.state = "running"
                      THEN Push(queue, PollTask(o.slug, minted'[o.slug], o.attempt))
                      ELSE queue
    BY <1>3 DEF OrphanSection
  <2>2. row' \in Row
    BY <1>1, <1>2, <2>1, SlotTypes, SlotStatementTypes
  <2>3. queue' \in SUBSET QueueEntry
    BY <1>1, <1>2, <2>1, TaskTypes, QueueTypes
  <2> QED
    BY <1>2, <2>2, <2>3 DEF OrphanSection
<1>4. CASE ~WriteSlotHits(row, o.attempt)
  BY <1>2, <1>4 DEF OrphanSection
<1> QED
  BY <1>3, <1>4

\* run_section_retry after its gate, and the poll.
RetryStep(w) ==
    \/ SectionDone(w) \/ HandlerRaises(w) \/ RerunDone(w) \/ SlotFailStep(w)
    \/ \E s \in Slugs : RerunDependent(w, s)
    \/ PollPending(w) \/ PollRaises(w) \/ PollWrites(w)

\* Section retries and polls keep the types.
LEMMA RetryTypes == ASSUME TypeOK, NEW w \in Workers, RetryStep(w) PROVE TypeOK'
<1> USE DEF TypeOK
<1> DEFINE t == worker[w].task
<1>1. /\ worker[w] \in WorkerState /\ t.slug \in Slugs /\ t.id \in Nat
      /\ \A s \in Slugs : worker[w].todo \ {s} \in SUBSET Slugs
  BY HandlerTypes
<1>2. CASE SectionDone(w)
  <2>1. row' \in Row
    <3>1. [state |-> "done", id |-> t.id, data |-> RetryData(t.slug)] \in Slot
      BY <1>1, SlotTypes
    <3>2. WriteSlot(row, t.slug, [state |-> "done", id |-> t.id, data |-> RetryData(t.slug)])
            \in Row
      BY <1>1, <3>1, SlotStatementTypes
    <3> QED
      BY <1>2, <3>2 DEF SectionDone
  <2>2. CASE FinalizeSlotHits(row, worker[w].attempt, t.slug, t.id)
    <3> DEFINE pc == IF t.slug = Dedup THEN "rerun" ELSE "synthesize"
               todo == IF t.slug = Dedup THEN Dependents ELSE {}
    <3>1. worker' = [worker EXCEPT ![w] = [worker[w] EXCEPT !.pc = pc, !.todo = todo]]
      BY <1>2, <2>2 DEF SectionDone
    <3>2. pc \in Stages /\ todo \in SUBSET Slugs
      BY SlugsAssumption DEF Stages
    <3>3. [worker[w] EXCEPT !.pc = pc, !.todo = todo] \in WorkerState
      BY <1>1, <3>2, WorkerTypes
    <3>4. worker' \in [Workers -> WorkerState]
      BY <3>1, <3>3
    <3> QED
      BY <1>2, <2>1, <2>2, <3>4 DEF SectionDone
  <2>3. CASE ~FinalizeSlotHits(row, worker[w].attempt, t.slug, t.id)
    <3>1. worker' \in [Workers -> WorkerState] /\ queue' \in SUBSET QueueEntry
      BY <1>2, <2>3, HandlerTypes DEF SectionDone
    <3> QED
      BY <1>2, <2>1, <3>1 DEF SectionDone
  <2> QED
    BY <2>2, <2>3
<1>3. CASE HandlerRaises(w)
  BY <1>3, HandlerTypes DEF HandlerRaises, Stages
<1>4. CASE RerunDone(w)
  BY <1>4, HandlerTypes DEF RerunDone, Stages
<1>5. CASE SlotFailStep(w)
  <2>1. row' \in Row
    <3>1. [state |-> "failed", id |-> t.id, data |-> "none"] \in Slot
      BY <1>1, SlotTypes
    <3>2. WriteSlot(row, t.slug, [state |-> "failed", id |-> t.id, data |-> "none"]) \in Row
      BY <1>1, <3>1, SlotStatementTypes
    <3> QED
      BY <1>5, <3>2 DEF SlotFailStep
  <2>2. worker' \in [Workers -> WorkerState] /\ queue' \in SUBSET QueueEntry
    BY <1>5, HandlerTypes DEF SlotFailStep
  <2> QED
    BY <1>5, <2>1, <2>2 DEF SlotFailStep
<1>6. ASSUME NEW s \in Slugs, RerunDependent(w, s) PROVE TypeOK'
  <2>1. CASE WriteSlotHits(row, worker[w].attempt)
    <3>1. minted' \in [Slugs -> Nat] /\ minted'[s] \in Nat
      BY <1>6, <2>1 DEF RerunDependent
    <3>2. PICK result \in SectionResults(s) : row' = WriteSlot(row, s, SlotOf(result, minted'[s]))
      BY <1>6, <2>1 DEF RerunDependent
    <3>3. row' \in Row
      <4>1. SlotOf(result, minted'[s]) \in Slot
        BY <3>1, SlotTypes
      <4> QED
        BY <3>2, <4>1, SlotStatementTypes
    <3>4. worker' \in [Workers -> WorkerState]
      <4>1. worker' = [worker EXCEPT ![w] = [worker[w] EXCEPT !.todo = @ \ {s}]]
        BY <1>6, <2>1 DEF RerunDependent
      <4>2. [worker[w] EXCEPT !.todo = @ \ {s}] \in WorkerState
        BY <1>1, WorkerTypes
      <4> QED
        BY <4>1, <4>2
    <3> QED
      BY <1>6, <3>1, <3>3, <3>4 DEF RerunDependent
  <2>2. CASE ~WriteSlotHits(row, worker[w].attempt)
    BY <1>6, <2>2, HandlerTypes DEF RerunDependent, Stages
  <2> QED
    BY <2>1, <2>2
<1>7. CASE PollPending(w)
  BY <1>7, HandlerTypes DEF PollPending
<1>8. CASE PollRaises(w)
  BY <1>8, HandlerTypes DEF PollRaises
<1>9. CASE PollWrites(w)
  <2>1. PICK result \in SectionResults(t.slug) :
          row' = IF FinalizeSlotHits(row, worker[w].attempt, t.slug, t.id)
                 THEN WriteSlot(row, t.slug, SlotOf(result, t.id)) ELSE row
    BY <1>9 DEF PollWrites
  <2>2. SlotOf(result, t.id) \in Slot
    BY <1>1, SlotTypes
  <2>3. row' \in Row
    BY <1>1, <2>1, <2>2, SlotStatementTypes
  <2>4. worker' \in [Workers -> WorkerState]
    BY <1>9, HandlerTypes DEF PollWrites, Stages
  <2> QED
    BY <1>9, <2>3, <2>4 DEF PollWrites
<1> QED
  BY <1>2, <1>3, <1>4, <1>5, <1>6, <1>7, <1>8, <1>9 DEF RetryStep

\* The retry endpoint.
LEMMA ClickTypes == ASSUME TypeOK, NEW c \in Clickers, ClickStep(c) PROVE TypeOK'
<1> USE DEF TypeOK
<1>1. /\ click[c] \in Click /\ click[c].slug \in Slugs
      /\ click[c].prior \in Nat /\ click[c].claimed \in Nat
  BY DEF Click
<1>2. ClickIdle(c) => click' \in [Clickers -> Click]
  BY SlugsAssumption DEF ClickIdle, Click
<1>3. Push(queue, SectionTask(click[c].slug, click[c].claimed)) \in SUBSET QueueEntry
  <2>1. SectionTask(click[c].slug, click[c].claimed) \in Task
    BY <1>1 DEF SectionTask, Task, Envelope
  <2> QED
    BY <2>1, QueueTypes
<1>4. ASSUME NEW s \in Slugs, RetryGate(c, s) PROVE TypeOK'
  <2>1. row.slots[s].id \in Nat
    BY DEF Row, Slot
  <2>2. click' \in [Clickers -> Click] /\ retries' \in Nat
    BY <1>4, <2>1 DEF RetryGate, Click
  <2> QED
    BY <1>4, <2>2 DEF RetryGate
<1>5. CASE RetryClaimStep(c)
  <2> DEFINE s == click[c].slug
  <2>1. CASE RetryClaimHits(row, s, click[c].prior)
    <3>1. minted' \in [Slugs -> Nat] /\ minted'[s] \in Nat
      BY <1>1, <1>5, <2>1 DEF RetryClaimStep
    <3>2. row' \in Row
      <4>1. row' = RetryClaim(row, s, minted'[s])
        BY <1>5, <2>1 DEF RetryClaimStep
      <4> QED
        BY <1>1, <3>1, <4>1, NoSlotType, SlotStatementTypes
    <3>3. click' \in [Clickers -> Click]
      <4>1. click' = [click EXCEPT ![c] = [click[c] EXCEPT !.pc = "enqueue",
                                                           !.claimed = minted'[s]]]
        BY <1>5, <2>1 DEF RetryClaimStep
      <4>2. [click[c] EXCEPT !.pc = "enqueue", !.claimed = minted'[s]] \in Click
        BY <1>1, <3>1 DEF Click
      <4> QED
        BY <4>1, <4>2
    <3> QED
      BY <1>5, <2>1, <3>1, <3>2, <3>3 DEF RetryClaimStep
  <2>2. CASE ~RetryClaimHits(row, s, click[c].prior)
    BY <1>2, <1>5, <2>2 DEF RetryClaimStep
  <2> QED
    BY <2>1, <2>2
<1>6. CASE RetryEnqueue(c)
  BY <1>2, <1>3, <1>6 DEF RetryEnqueue
<1>7. CASE RetryEnqueueRaises(c)
  <2>1. click' \in [Clickers -> Click]
    <3>1. click' = [click EXCEPT ![c] = [click[c] EXCEPT !.pc = "revert"]]
      BY <1>7 DEF RetryEnqueueRaises
    <3>2. [click[c] EXCEPT !.pc = "revert"] \in Click
      BY <1>1 DEF Click
    <3> QED
      BY <3>1, <3>2
  <2>2. queue' \in SUBSET QueueEntry /\ faults' \in Nat
    BY <1>3, <1>7 DEF RetryEnqueueRaises, Fault
  <2> QED
    BY <1>7, <2>1, <2>2 DEF RetryEnqueueRaises
<1>8. CASE RetryRevert(c)
  <2>1. row' \in Row
    <3>1. RevertSlot(row, click[c].slug, click[c].prior) \in Row
      BY <1>1, NoSlotType, SlotStatementTypes
    <3> QED
      BY <1>8, <3>1 DEF RetryRevert
  <2> QED
    BY <1>2, <1>8, <2>1 DEF RetryRevert
<1> QED
  BY <1>4, <1>5, <1>6, <1>7, <1>8 DEF ClickStep

\* The sweeper and the crashes.
LEMMA EnvironmentTypes ==
  ASSUME TypeOK
  PROVE  /\ Sweep \/ SweepStalled => TypeOK'
         /\ \A w \in Workers : Crash(w) => TypeOK'
<1> USE DEF TypeOK
<1>1. SweepOrphan(row) \in Row
  BY DEF Row, SweepOrphan, Terminal, Codes
<1>2. ASSUME Sweep PROVE TypeOK'
  BY <1>1, <1>2 DEF Sweep
<1>3. ASSUME SweepStalled PROVE TypeOK'
  BY <1>1, <1>3 DEF SweepStalled
<1>4. ASSUME NEW w \in Workers, Crash(w) PROVE TypeOK'
  <2>1. worker' \in [Workers -> WorkerState] /\ queue' \in SUBSET QueueEntry
    BY <1>4, HandlerTypes DEF Crash
  <2> QED
    BY <1>4, <2>1 DEF Crash
<1> QED
  BY <1>2, <1>3, <1>4

\* Every step of a worker belongs to one of the groups above.
LEMMA WorkerStepCases ==
  ASSUME NEW w \in Workers, WorkerStep(w)
  PROVE  RunStep(w) \/ FanOutStep(w) \/ RetryStep(w)
  BY DEF WorkerStep, RunStep, FanOutStep, RetryStep

\* Type correctness is inductive.
LEMMA TypeInductive == TypeOK /\ [Next]_vars => TypeOK'
<1> SUFFICES ASSUME TypeOK, [Next]_vars PROVE TypeOK'
  OBVIOUS
<1>1. CASE SubmitStep
  BY <1>1, SubmitTypes
<1>2. ASSUME NEW w \in Workers, Deliver(w) PROVE TypeOK'
  BY <1>2, DeliveryTypes DEF Deliver
<1>3. ASSUME NEW w \in Workers, WorkerStep(w) PROVE TypeOK'
  BY <1>3, WorkerStepCases, RunTypes, FanOutTypes, RetryTypes
<1>4. ASSUME NEW w \in Workers, Crash(w) PROVE TypeOK'
  BY <1>4, EnvironmentTypes
<1>5. CASE DropStale
  BY <1>5, DeliveryTypes DEF DropStale
<1>6. ASSUME NEW e \in queue, WaitForDedup(e) \/ LoseDelivery(e) PROVE TypeOK'
  BY <1>6, DeliveryTypes
<1>7. ASSUME NEW o \in orphans, OrphanSection(o) PROVE TypeOK'
  BY <1>7, OrphanTypes
<1>8. ASSUME NEW c \in Clickers, ClickStep(c) PROVE TypeOK'
  BY <1>8, ClickTypes
<1>9. CASE Sweep \/ SweepStalled
  BY <1>9, EnvironmentTypes
<1>10. CASE UNCHANGED vars
  BY <1>10 DEF TypeOK, vars
<1> QED
  BY <1>1, <1>2, <1>3, <1>4, <1>5, <1>6, <1>7, <1>8, <1>9, <1>10 DEF Next

\* Every reachable state is well typed; in particular the row never leaves the
\* values its CHECK constraints list.
THEOREM TypeCorrect == Spec => []TypeOK
<1>1. Init => TypeOK
  BY InitTypes
<1>2. TypeOK /\ [Next]_vars => TypeOK'
  BY TypeInductive
<1> QED
  BY <1>1, <1>2, PTL DEF Spec
=============================================================================
