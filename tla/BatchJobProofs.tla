--------------------------- MODULE BatchJobProofs ---------------------------
(* Theorems about BatchJob, for any number of requests, workloads, cancellations,
   clean-ups and crashes: at most one rechunk job is active, and a completed job
   has done most of its items. *)
EXTENDS BatchJob, FiniteSetTheorems, TLAPS

\* What the argument needs of the types.
Shape ==
    /\ rows = [j \in Jobs |-> rows[j]]
    /\ \A j \in Jobs : "status" \in DOMAIN rows[j]
    /\ calls = [j \in Jobs |-> calls[j]]
    /\ workflows = [j \in Jobs |-> workflows[j]]
    /\ \A j \in Jobs : "pc" \in DOMAIN workflows[j]

\* Between the lock and the commit a request holds the lock of its type, and
\* after its look no job of the type is active until it inserts its own.
Locking(j) == calls[j] \in {"check", "start"}
LockHeld == \A j \in Jobs : Locking(j) => typeLock = j /\ work[j].kind = "rechunk"
StarterAlone == \A j \in Jobs : calls[j] = "start" => ActiveRechunks = {}

\* Only the workflow of an import starts its job.
Starting(j) == workflows[j].pc \in {"readStart", "writeStart"}
ImportsStart == \A j \in Jobs : Starting(j) => work[j].kind = "import"

TypeLockInv ==
    Shape /\ OneActivePerType /\ LockHeld /\ StarterAlone /\ ImportsStart

-----------------------------------------------------------------------------
(* What a step leaves alone.                                                *)

\* Initially there is no row, no call and no workflow.
LEMMA TypeLockInvInit == BatchInit => TypeLockInv
  BY DEF BatchInit, TypeLockInv, Shape, OneActivePerType, LockHeld, Locking,
         StarterAlone, ImportsStart, Starting, ActiveRechunks, NoRow, NoWorkflow,
         Active

\* A step after which no other job is active, no other call locks and no other
\* workflow starts keeps the invariant.
LEMMA QuietStep ==
    ASSUME TypeLockInv, Shape', work' = work,
           ActiveRechunks' \subseteq ActiveRechunks,
           \A j \in Jobs : Locking(j)' => calls'[j] = calls[j] /\ typeLock' = typeLock,
           \A j \in Jobs : Starting(j)' => Starting(j) \/ work[j].kind = "import"
    PROVE  TypeLockInv'
<1>1. OneActivePerType'
  BY DEF TypeLockInv, OneActivePerType
<1>2. LockHeld'
  BY DEF TypeLockInv, LockHeld, Locking
<1>3. StarterAlone'
  <2> SUFFICES ASSUME NEW j \in Jobs, calls'[j] = "start"
               PROVE  ActiveRechunks' = {}
    BY DEF StarterAlone
  <2>1. Locking(j)'
    BY DEF Locking
  <2> QED BY <2>1 DEF TypeLockInv, StarterAlone
<1>4. ImportsStart'
  BY DEF TypeLockInv, ImportsStart
<1> QED BY <1>1, <1>2, <1>3, <1>4 DEF TypeLockInv

\* A call that leaves the locked section, or was never in it.
LEMMA CallLeaves ==
    ASSUME TypeLockInv, NEW j \in Jobs, NEW pc, pc \notin {"check", "start"},
           Call(j, pc), FreeLock(j) \/ typeLock' = typeLock
    PROVE  /\ calls' = [k \in Jobs |-> calls'[k]]
           /\ \A k \in Jobs :
                  Locking(k)' => calls'[k] = calls[k] /\ typeLock' = typeLock
<1>1. calls' = [k \in Jobs |-> calls'[k]]
  BY DEF TypeLockInv, Shape, Call
<1>2. ASSUME NEW k \in Jobs, Locking(k)'
      PROVE  calls'[k] = calls[k] /\ typeLock' = typeLock
  <2>1. k # j /\ calls'[k] = calls[k]
    BY <1>2 DEF TypeLockInv, Shape, Call, Locking
  <2>2. typeLock = k
    BY <1>2, <2>1 DEF TypeLockInv, LockHeld, Locking
  <2> QED BY <2>1, <2>2 DEF FreeLock
<1> QED BY <1>1, <1>2

\* A row is written with a status that does not make its job active.
LEMMA WriteSettles ==
    ASSUME Shape, work' = work, NEW j \in Jobs, NEW row, Write(j, row),
           "status" \in DOMAIN row,
           \/ row.status \notin Active
           \/ row.status = rows[j].status
           \/ work[j].kind = "import"
    PROVE  /\ rows' = [k \in Jobs |-> rows'[k]]
           /\ \A k \in Jobs : "status" \in DOMAIN rows'[k]
           /\ ActiveRechunks' \subseteq ActiveRechunks
<1>1. rows' = [k \in Jobs |-> rows'[k]]
  BY DEF Shape, Write
<1>2. \A k \in Jobs : rows'[k] = IF k = j THEN [row EXCEPT !.stale = FALSE] ELSE rows[k]
  BY DEF Shape, Write
<1>3. rows'[j].status = row.status /\ "status" \in DOMAIN rows'[j]
  BY <1>2
<1>4. ActiveRechunks' \subseteq ActiveRechunks
  BY <1>2, <1>3 DEF ActiveRechunks
<1> QED BY <1>1, <1>2, <1>3, <1>4 DEF Shape

\* The same for an update of the status alone.
LEMMA StatusSettles ==
    ASSUME Shape, work' = work, NEW j \in Jobs, NEW status, SetStatus(j, status),
           status \notin Active \/ work[j].kind = "import"
    PROVE  /\ rows' = [k \in Jobs |-> rows'[k]]
           /\ \A k \in Jobs : "status" \in DOMAIN rows'[k]
           /\ ActiveRechunks' \subseteq ActiveRechunks
<1> DEFINE row == [rows[j] EXCEPT !.status = status]
<1>1. "status" \in DOMAIN row /\ row.status = status
  BY DEF Shape
<1> QED BY <1>1, WriteSettles DEF SetStatus

\* A workflow that goes on, and not to the start of its job.
LEMMA WorkflowGoesOn ==
    ASSUME Shape, NEW j \in Jobs, NEW w, "pc" \in DOMAIN w, WorkflowTo(j, w),
           w.pc \notin {"readStart", "writeStart"} \/ Starting(j)
                                                   \/ work[j].kind = "import"
    PROVE  /\ workflows' = [k \in Jobs |-> workflows'[k]]
           /\ \A k \in Jobs : "pc" \in DOMAIN workflows'[k]
           /\ \A k \in Jobs : Starting(k)' => Starting(k) \/ work[k].kind = "import"
  BY DEF Shape, WorkflowTo, Starting

\* A step of a workflow that writes nothing that makes its job active.
LEMMA QuietWorkflow ==
    ASSUME TypeLockInv, NEW j \in Jobs, NEW w, "pc" \in DOMAIN w, WorkflowTo(j, w),
           w.pc \notin {"readStart", "writeStart"} \/ Starting(j)
                                                   \/ work[j].kind = "import",
           Outside,
           rows' = rows \/ \E row : /\ Write(j, row)
                                    /\ "status" \in DOMAIN row
                                    /\ \/ row.status \notin Active
                                       \/ row.status = rows[j].status
                                       \/ work[j].kind = "import"
    PROVE  TypeLockInv'
<1>1. Shape /\ work' = work /\ calls' = calls /\ typeLock' = typeLock
  BY DEF TypeLockInv, Outside, Elsewhere
<1>2. /\ rows' = [k \in Jobs |-> rows'[k]]
      /\ \A k \in Jobs : "status" \in DOMAIN rows'[k]
      /\ ActiveRechunks' \subseteq ActiveRechunks
  <2>1. CASE rows' = rows
    BY <1>1, <2>1 DEF Shape, ActiveRechunks
  <2>2. CASE rows' # rows
    <3>1. PICK row : /\ Write(j, row)
                     /\ "status" \in DOMAIN row
                     /\ \/ row.status \notin Active
                        \/ row.status = rows[j].status
                        \/ work[j].kind = "import"
      BY <2>2
    <3> QED BY <1>1, <3>1, WriteSettles
  <2> QED BY <2>1, <2>2
<1>3. Shape'
  BY <1>1, <1>2, WorkflowGoesOn DEF Shape
<1>4. \A k \in Jobs : Starting(k)' => Starting(k) \/ work[k].kind = "import"
  BY <1>1, WorkflowGoesOn
<1>5. \A k \in Jobs : Locking(k)' => calls'[k] = calls[k] /\ typeLock' = typeLock
  BY <1>1 DEF Locking
<1> QED BY <1>1, <1>2, <1>3, <1>4, <1>5, QuietStep

\* A step of a call that leaves the locked section and makes no job active.
LEMMA QuietCall ==
    ASSUME TypeLockInv, NEW j \in Jobs, NEW pc, pc \notin {"check", "start"},
           Call(j, pc), FreeLock(j) \/ typeLock' = typeLock, Elsewhere,
           rows' = rows \/ \E status : /\ SetStatus(j, status)
                                       /\ status \notin Active,
           workflows' = workflows \/ \E w : /\ WorkflowTo(j, w)
                                            /\ "pc" \in DOMAIN w
                                            /\ w.pc \in {"none", "queued"}
    PROVE  TypeLockInv'
<1>1. Shape /\ work' = work
  BY DEF TypeLockInv, Elsewhere
<1>2. /\ calls' = [k \in Jobs |-> calls'[k]]
      /\ \A k \in Jobs :
             Locking(k)' => calls'[k] = calls[k] /\ typeLock' = typeLock
  BY CallLeaves
<1>3. /\ rows' = [k \in Jobs |-> rows'[k]]
      /\ \A k \in Jobs : "status" \in DOMAIN rows'[k]
      /\ ActiveRechunks' \subseteq ActiveRechunks
  <2>1. CASE rows' = rows
    BY <1>1, <2>1 DEF Shape, ActiveRechunks
  <2>2. CASE rows' # rows
    BY <1>1, <2>2, StatusSettles
  <2> QED BY <2>1, <2>2
<1>4. /\ workflows' = [k \in Jobs |-> workflows'[k]]
      /\ \A k \in Jobs : "pc" \in DOMAIN workflows'[k]
      /\ \A k \in Jobs : Starting(k)' => Starting(k) \/ work[k].kind = "import"
  <2>1. CASE workflows' = workflows
    BY <1>1, <2>1 DEF Shape, Starting
  <2>2. CASE workflows' # workflows
    BY <1>1, <2>2, WorkflowGoesOn
  <2> QED BY <2>1, <2>2
<1>5. Shape'
  BY <1>2, <1>3, <1>4 DEF Shape
<1> QED BY <1>1, <1>2, <1>3, <1>4, <1>5, QuietStep

-----------------------------------------------------------------------------
(* The steps of a request.                                                  *)

\* Waiting for the lock and looking for an active job.
LEMMA LockSteps ==
    ASSUME TypeLockInv, BatchConstants, NEW j \in Jobs,
           TakeTypeLock(j) \/ CheckNoActiveJob(j)
    PROVE  TypeLockInv'
<1>0. Shape /\ work' = work /\ rows' = rows /\ workflows' = workflows
  BY DEF TypeLockInv, TakeTypeLock, CheckNoActiveJob, Elsewhere
<1>1. OneActivePerType' /\ ImportsStart' /\ ActiveRechunks' = ActiveRechunks
  BY <1>0 DEF TypeLockInv, OneActivePerType, ImportsStart, Starting, ActiveRechunks
<1>2. CASE TakeTypeLock(j)
  <2>1. typeLock = NoCall /\ typeLock' = j /\ work[j].kind = "rechunk" /\ Call(j, "check")
    BY <1>2 DEF TakeTypeLock
  <2>2. Shape'
    BY <1>0, <2>1 DEF Shape, Call
  <2>3. \A k \in Jobs : k # j => ~Locking(k) /\ calls'[k] = calls[k]
    BY <1>0, <2>1 DEF TypeLockInv, LockHeld, BatchConstants, Shape, Call
  <2>4. calls'[j] = "check"
    BY <1>0, <2>1 DEF Shape, Call
  <2>5. LockHeld' /\ StarterAlone'
    BY <1>0, <2>1, <2>3, <2>4 DEF LockHeld, StarterAlone, Locking
  <2> QED BY <1>1, <2>2, <2>5 DEF TypeLockInv
<1>3. CASE CheckNoActiveJob(j)
  <2>1. CASE ActiveRechunks # {}
    BY <1>0, <1>3, <2>1, QuietCall DEF CheckNoActiveJob
  <2>2. CASE ActiveRechunks = {}
    <3>1. CallAt(j, "check") /\ Call(j, "start") /\ typeLock' = typeLock
      BY <1>3, <2>2 DEF CheckNoActiveJob
    <3>2. Shape'
      BY <1>0, <3>1 DEF Shape, Call
    <3>3. LockHeld'
      BY <1>0, <3>1 DEF TypeLockInv, Shape, LockHeld, Locking, Call, CallAt
    <3>4. StarterAlone'
      BY <1>1, <2>2 DEF StarterAlone
    <3> QED BY <1>1, <3>2, <3>3, <3>4 DEF TypeLockInv
  <2> QED BY <2>1, <2>2
<1> QED BY <1>2, <1>3

\* The insert: no job of the type was active, and no other call is as far.
LEMMA StartStep ==
    ASSUME TypeLockInv, NEW j \in Jobs, StartRechunk(j)
    PROVE  TypeLockInv'
<1> DEFINE next == IF work[j].items = 0 THEN "empty" ELSE "enqueue"
<1>0. Shape /\ work' = work /\ workflows' = workflows
  BY DEF TypeLockInv, StartRechunk, Elsewhere
<1>1. Call(j, next) /\ next \notin {"check", "start"} /\ FreeLock(j)
  BY DEF StartRechunk
<1>2. calls[j] = "start" /\ ActiveRechunks = {} /\ typeLock = j
  BY DEF StartRechunk, CallAt, TypeLockInv, StarterAlone, LockHeld, Locking
<1>3. /\ rows' = [k \in Jobs |-> rows'[k]]
      /\ \A k \in Jobs : "status" \in DOMAIN rows'[k]
      /\ \A k \in Jobs : k # j => rows'[k] = rows[k]
  BY <1>0 DEF Shape, StartRechunk, Write, NoRow
<1>4. ActiveRechunks' \subseteq {j}
  BY <1>0, <1>2, <1>3 DEF ActiveRechunks
<1>5. calls' = [k \in Jobs |-> calls'[k]]
  BY <1>1, CallLeaves
<1>6. \A k \in Jobs : ~Locking(k)'
  <2> SUFFICES ASSUME NEW k \in Jobs, Locking(k)' PROVE FALSE
    OBVIOUS
  <2>1. k # j /\ calls'[k] = calls[k]
    BY <1>0, <1>1 DEF Shape, Call, Locking
  <2> QED BY <1>2, <2>1 DEF TypeLockInv, LockHeld, Locking
<1>7. Shape'
  BY <1>0, <1>3, <1>5 DEF Shape
<1>8. LockHeld' /\ StarterAlone' /\ ImportsStart'
  BY <1>0, <1>6 DEF LockHeld, StarterAlone, Locking, ImportsStart, Starting, TypeLockInv
<1> QED BY <1>4, <1>7, <1>8 DEF TypeLockInv, OneActivePerType

\* The rest of a request.
LEMMA LaterSteps ==
    ASSUME TypeLockInv, NEW j \in Jobs,
           \/ CompleteEmpty(j) \/ CreatePending(j) \/ EnqueueWorkflow(j)
           \/ FailDispatch(j) \/ AbandonCall(j)
    PROVE  TypeLockInv'
<1>0. Shape
  BY DEF TypeLockInv
<1>1. CASE CompleteEmpty(j)
  <2>1. SetStatus(j, "completed") /\ "completed" \notin Active
    BY <1>1 DEF CompleteEmpty, Active
  <2> QED BY <1>1, <2>1, QuietCall DEF CompleteEmpty
<1>2. CASE CreatePending(j)
  <2> DEFINE row == [NoRow EXCEPT !.status = "pending"]
  <2>1. work[j].kind = "import" /\ work' = work /\ Write(j, row) /\ "status" \in DOMAIN row
    BY <1>2 DEF CreatePending, NoRow, Elsewhere
  <2>2. /\ rows' = [k \in Jobs |-> rows'[k]]
        /\ \A k \in Jobs : "status" \in DOMAIN rows'[k]
        /\ ActiveRechunks' \subseteq ActiveRechunks
    BY <1>0, <2>1, WriteSettles
  <2>3. Call(j, "enqueue") /\ typeLock' = typeLock /\ workflows' = workflows
    BY <1>2 DEF CreatePending
  <2>4. /\ calls' = [k \in Jobs |-> calls'[k]]
        /\ \A k \in Jobs :
               Locking(k)' => calls'[k] = calls[k] /\ typeLock' = typeLock
    BY <2>3, CallLeaves
  <2>5. Shape' /\ \A k \in Jobs : Starting(k)' => Starting(k)
    BY <1>0, <2>2, <2>3, <2>4 DEF Shape, Starting
  <2> QED BY <2>1, <2>2, <2>4, <2>5, QuietStep
<1>3. CASE EnqueueWorkflow(j)
  <2>1. PICK next \in {"ended", "failDispatch"}, pc \in {"none", "queued"} :
          Call(j, next) /\ workflows' = [workflows EXCEPT ![j].pc = pc]
    BY <1>3 DEF EnqueueWorkflow
  <2> DEFINE w == [workflows[j] EXCEPT !.pc = pc]
  <2>2. "pc" \in DOMAIN w /\ w.pc \in {"none", "queued"} /\ WorkflowTo(j, w)
    BY <1>0, <2>1 DEF Shape, WorkflowTo
  <2>3. next \notin {"check", "start"}
    OBVIOUS
  <2>4. Elsewhere /\ rows' = rows /\ typeLock' = typeLock
    BY <1>3 DEF EnqueueWorkflow
  <2> QED BY <2>1, <2>2, <2>3, <2>4, QuietCall
<1>4. CASE FailDispatch(j)
  <2>1. SetStatus(j, "failed") /\ "failed" \notin Active
    BY <1>4 DEF FailDispatch, Active
  <2> QED BY <1>4, <2>1, QuietCall DEF FailDispatch
<1>5. CASE AbandonCall(j)
  BY <1>5, QuietCall DEF AbandonCall
<1> QED BY <1>1, <1>2, <1>3, <1>4, <1>5

-----------------------------------------------------------------------------
(* The steps of a workflow.                                                 *)

\* A workflow that only goes to another place.
LEMMA PcSteps ==
    ASSUME TypeLockInv, NEW j \in Jobs, NEW pc, WorkflowPc(j, pc), Outside,
           pc \notin {"readStart", "writeStart"} \/ Starting(j)
                                                 \/ work[j].kind = "import",
           rows' = rows \/ \E row : /\ Write(j, row)
                                    /\ "status" \in DOMAIN row
                                    /\ \/ row.status \notin Active
                                       \/ row.status = rows[j].status
                                       \/ work[j].kind = "import"
    PROVE  TypeLockInv'
<1> DEFINE w == [workflows[j] EXCEPT !.pc = pc]
<1>1. "pc" \in DOMAIN w /\ w.pc = pc /\ WorkflowTo(j, w)
  BY DEF TypeLockInv, Shape, WorkflowPc
<1> QED BY <1>1, QuietWorkflow

\* The gate and the start: only an import goes to the start of its job.
LEMMA StartSteps ==
    ASSUME TypeLockInv, NEW j \in Jobs,
           EnterGate(j) \/ ReadStart(j) \/ WriteStart(j)
    PROVE  TypeLockInv'
<1>0. Shape
  BY DEF TypeLockInv
<1>1. CASE EnterGate(j)
  <2>1. PICK pc \in {"readStart", "run", "ended"} :
          /\ WorkflowPc(j, pc)
          /\ pc = "readStart" => work[j].kind = "import"
    BY <1>1 DEF EnterGate
  <2> QED BY <1>1, <2>1, PcSteps DEF EnterGate
<1>2. CASE ReadStart(j)
  <2> DEFINE w == [workflows[j] EXCEPT !.pc = "writeStart", !.read = rows[j].status]
  <2>1. "pc" \in DOMAIN w /\ w.pc = "writeStart" /\ WorkflowTo(j, w) /\ Starting(j)
    BY <1>0, <1>2 DEF Shape, ReadStart, WorkflowAt, Starting
  <2> QED BY <1>2, <2>1, QuietWorkflow DEF ReadStart
<1>3. CASE WriteStart(j)
  <2>1. work[j].kind = "import" /\ Outside
    BY <1>3 DEF WriteStart, WorkflowAt, TypeLockInv, ImportsStart, Starting
  <2>2. CASE ValidTransition(workflows[j].read, "in_progress")
    <3> DEFINE row == [rows[j] EXCEPT !.status = "in_progress"]
    <3>1. Write(j, row) /\ "status" \in DOMAIN row /\ WorkflowPc(j, "run")
      BY <1>0, <1>3, <2>2 DEF Shape, WriteStart, SetStatus
    <3> HIDE DEF row
    <3> QED BY <2>1, <3>1, PcSteps
  <2>3. CASE ~ValidTransition(workflows[j].read, "in_progress")
    BY <1>3, <2>1, <2>3, PcSteps DEF WriteStart
  <2> QED BY <2>2, <2>3
<1> QED BY <1>1, <1>2, <1>3

\* The items and the reports of progress, which leave the status alone.
LEMMA ItemSteps ==
    ASSUME TypeLockInv, NEW j \in Jobs,
           ProcessItem(j) \/ ReportProgress(j) \/ AllProcessed(j)
    PROVE  TypeLockInv'
<1>0. Shape
  BY DEF TypeLockInv
<1>1. CASE ProcessItem(j)
  <2> DEFINE known == workflows[j].at < Len(workflows[j].outcome)
             w(result) ==
               [workflows[j] EXCEPT
                  !.outcome = IF known THEN @ ELSE Append(@, result),
                  !.at = IF result = "abort" THEN @ ELSE @ + 1,
                  !.pc = IF result = "abort" THEN "finalRead" ELSE "report"]
  <2>1. PICK result \in {"ok", "bad", "abort"} : WorkflowTo(j, w(result))
    BY <1>1 DEF ProcessItem
  <2>2. "pc" \in DOMAIN w(result) /\ w(result).pc \in {"finalRead", "report"}
    BY <1>0 DEF Shape
  <2>3. Outside /\ rows' = rows
    BY <1>1 DEF ProcessItem
  <2> HIDE DEF w
  <2> QED BY <2>1, <2>2, <2>3, QuietWorkflow
<1>2. CASE ReportProgress(j)
  <2> DEFINE row == [rows[j] EXCEPT !.done = Count(j, "ok"), !.failed = Count(j, "bad")]
  <2>1. rows' = rows \/ Write(j, row)
    BY <1>2 DEF ReportProgress
  <2>2. "status" \in DOMAIN row /\ row.status = rows[j].status
    BY <1>0 DEF Shape
  <2>3. Outside /\ WorkflowPc(j, "run")
    BY <1>2 DEF ReportProgress
  <2> HIDE DEF row
  <2> QED BY <2>1, <2>2, <2>3, PcSteps
<1>3. CASE AllProcessed(j)
  <2> DEFINE w == [workflows[j] EXCEPT !.pc = "finalRead",
                      !.success = MostlyDone(Count(j, "ok"), Count(j, "bad"))]
  <2>1. WorkflowTo(j, w) /\ "pc" \in DOMAIN w /\ w.pc = "finalRead"
    BY <1>0, <1>3 DEF Shape, AllProcessed
  <2>2. Outside /\ rows' = rows
    BY <1>3 DEF AllProcessed
  <2> HIDE DEF w
  <2> QED BY <2>1, <2>2, QuietWorkflow
<1> QED BY <1>1, <1>2, <1>3

\* The verdict is a final status; a crash leads to the start of an import only.
LEMMA FinalSteps ==
    ASSUME TypeLockInv, NEW j \in Jobs,
           ReadFinal(j) \/ WriteFinal(j) \/ WorkflowReturns(j) \/ CrashWorkflow(j)
    PROVE  TypeLockInv'
<1>0. Shape
  BY DEF TypeLockInv
<1>1. CASE ReadFinal(j)
  <2> DEFINE w == [workflows[j] EXCEPT !.pc = "finalWrite", !.read = rows[j].status]
  <2>1. WorkflowTo(j, w) /\ "pc" \in DOMAIN w /\ w.pc = "finalWrite"
    BY <1>0, <1>1 DEF Shape, ReadFinal
  <2>2. Outside /\ rows' = rows
    BY <1>1 DEF ReadFinal
  <2> HIDE DEF w
  <2> QED BY <2>1, <2>2, QuietWorkflow
<1>2. CASE WriteFinal(j)
  <2>1. rows' = rows \/ \E row : /\ Write(j, row)
                                 /\ "status" \in DOMAIN row
                                 /\ row.status \notin Active
    <3>1. SUFFICES ASSUME rows' # rows
                   PROVE  \E row : /\ Write(j, row)
                                   /\ "status" \in DOMAIN row
                                   /\ row.status \notin Active
      OBVIOUS
    <3> DEFINE raised == work[j].kind = "import" /\ ~workflows[j].success
                          /\ workflows[j].at < work[j].items
               row == [rows[j] EXCEPT
                         !.status = Verdict(j),
                         !.done = IF raised THEN 0 ELSE Count(j, "ok"),
                         !.failed = IF raised THEN 0 ELSE Count(j, "bad")]
    <3>2. Write(j, row)
      BY <1>2, <3>1 DEF WriteFinal
    <3>3. "status" \in DOMAIN row /\ row.status \notin Active
      BY <1>0 DEF Shape, Verdict, Active
    <3> QED BY <3>2, <3>3
  <2>2. WorkflowPc(j, "written") /\ Outside
    BY <1>2 DEF WriteFinal
  <2> QED BY <2>1, <2>2, PcSteps
<1>3. CASE WorkflowReturns(j)
  BY <1>3, PcSteps DEF WorkflowReturns
<1>4. CASE CrashWorkflow(j)
  <2> DEFINE old == workflows[j]
             again == [old EXCEPT !.success = FALSE, !.read = "none"]
             rerun == [again EXCEPT !.pc = "run", !.at = 0]
             restart == [again EXCEPT !.pc = "readStart"]
             redo == [again EXCEPT !.pc = "run", !.at = 0, !.outcome = <<>>]
             resume == [old EXCEPT !.pc = "finalRead"]
  <2>1. /\ "pc" \in DOMAIN rerun /\ rerun.pc = "run"
        /\ "pc" \in DOMAIN restart /\ restart.pc = "readStart"
        /\ "pc" \in DOMAIN redo /\ redo.pc = "run"
        /\ "pc" \in DOMAIN resume /\ resume.pc = "finalRead"
    BY <1>0 DEF Shape
  <2>2. \/ WorkflowTo(j, rerun)
        \/ WorkflowTo(j, restart) /\ Starting(j)
        \/ WorkflowTo(j, redo)
        \/ WorkflowTo(j, resume)
    BY <1>4 DEF CrashWorkflow, Starting
  <2>3. Outside /\ rows' = rows
    BY <1>4 DEF CrashWorkflow
  <2> HIDE DEF rerun, restart, redo, resume
  <2> QED BY <2>1, <2>2, <2>3, QuietWorkflow
<1> QED BY <1>1, <1>2, <1>3, <1>4

-----------------------------------------------------------------------------
(* Cancellation, clean-up and the theorem.                                  *)

\* Cancellations and clean-ups only end jobs.
LEMMA OutsideSteps ==
    ASSUME TypeLockInv,
           \/ \E j \in Jobs : Cancel(j) \/ ReadForCancel(j) \/ CancelRechunk(j)
           \/ Age \/ Sweep \/ SweepDies
    PROVE  TypeLockInv'
<1>0. Shape
  BY DEF TypeLockInv
<1>1. work' = work /\ typeLock' = typeLock /\ calls' = calls /\ workflows' = workflows
  BY DEF Cancel, ReadForCancel, CancelRechunk, Age, Sweep, SelectStale, FailStale, SweepDies
<1>2. /\ rows' = [k \in Jobs |-> rows'[k]]
      /\ \A k \in Jobs : "status" \in DOMAIN rows'[k]
      /\ ActiveRechunks' \subseteq ActiveRechunks
  <2>1. CASE rows' = rows
    BY <1>0, <1>1, <2>1 DEF Shape, ActiveRechunks
  <2>2. CASE \E j \in Jobs : SetStatus(j, "cancelled") \/ SetStatus(j, "failed")
    <3>1. PICK j \in Jobs, status \in {"cancelled", "failed"} : SetStatus(j, status)
      BY <2>2
    <3>2. status \notin Active
      BY DEF Active
    <3> QED BY <1>0, <1>1, <3>1, <3>2, StatusSettles
  <2>3. CASE Age
    <3>1. rows' = [j \in Jobs |-> [rows[j] EXCEPT !.stale = rows[j].status \in Active]]
      BY <2>3 DEF Age
    <3>2. \A j \in Jobs : /\ rows'[j] = [rows[j] EXCEPT !.stale = rows[j].status \in Active]
                          /\ rows'[j].status = rows[j].status
                          /\ "status" \in DOMAIN rows'[j]
      BY <1>0, <3>1 DEF Shape
    <3>3. rows' = [j \in Jobs |-> rows'[j]]
      BY <3>1
    <3> QED BY <1>1, <3>2, <3>3 DEF ActiveRechunks
  <2> QED BY <2>1, <2>2, <2>3 DEF Cancel, ReadForCancel, CancelRechunk, Sweep,
                                  SelectStale, FailStale, SweepDies
<1>3. Shape'
  BY <1>0, <1>1, <1>2 DEF Shape
<1> QED BY <1>1, <1>2, <1>3, QuietStep DEF Locking, Starting

\* At most one rechunk job is pending or in progress, for every number of jobs:
\* the lock of the type is held from the look for an active job to the commit of
\* the insert, and nothing else makes a rechunk job active.
THEOREM BatchOneActivePerType == BatchSpec => []OneActivePerType
<1>1. BatchInit => TypeLockInv
  BY TypeLockInvInit
<1>2. TypeLockInv /\ [BatchNext]_batchVars => TypeLockInv'
  <2> SUFFICES ASSUME TypeLockInv, [BatchNext]_batchVars PROVE TypeLockInv'
    OBVIOUS
  <2>1. CASE UNCHANGED batchVars
    BY <2>1 DEF batchVars, TypeLockInv, Shape, OneActivePerType, LockHeld, Locking,
                StarterAlone, ImportsStart, Starting, ActiveRechunks
  <2>2. ASSUME NEW j \in Jobs, CallStep(j) PROVE TypeLockInv'
    BY <2>2, LockSteps, StartStep, LaterSteps, BatchConstants DEF CallStep
  <2>3. ASSUME NEW j \in Jobs, WorkflowStep(j) \/ CrashWorkflow(j) PROVE TypeLockInv'
    BY <2>3, StartSteps, ItemSteps, FinalSteps DEF WorkflowStep
  <2> QED BY <2>1, <2>2, <2>3, OutsideSteps DEF BatchNext
<1>3. TypeLockInv => OneActivePerType
  BY DEF TypeLockInv
<1> QED BY <1>1, <1>2, <1>3, PTL DEF BatchSpec

-----------------------------------------------------------------------------
(* Counting outcomes.                                                       *)

\* Outcomes of which none is an abort are good or bad.
LEMMA OutcomesAdd ==
    ASSUME NEW n \in Nat, NEW out \in Seq({"ok", "bad", "abort"}), n <= Len(out),
           \A i \in 1 .. n : out[i] # "abort"
    PROVE  /\ Cardinality({i \in 1 .. n : out[i] = "ok"}) \in Nat
           /\ Cardinality({i \in 1 .. n : out[i] = "bad"}) \in Nat
           /\ Cardinality({i \in 1 .. n : out[i] = "ok"})
                + Cardinality({i \in 1 .. n : out[i] = "bad"}) = n
<1> DEFINE S == {i \in 1 .. n : out[i] = "ok"}
           T == {i \in 1 .. n : out[i] = "bad"}
<1>1. IsFiniteSet(1 .. n) /\ Cardinality(1 .. n) = n
  BY FS_Interval
<1>2. IsFiniteSet(S) /\ IsFiniteSet(T)
  BY <1>1, FS_Subset
<1>3. S \cup T = 1 .. n /\ S \cap T = {}
  <2>1. \A i \in 1 .. n : out[i] \in {"ok", "bad", "abort"}
    OBVIOUS
  <2> QED BY <2>1
<1>4. Cardinality(S \cup T) = Cardinality(S) + Cardinality(T) - Cardinality({})
  BY <1>2, <1>3, FS_Union
<1> HIDE DEF S, T
<1>5. Cardinality(S) \in Nat /\ Cardinality(T) \in Nat /\ Cardinality({}) = 0
  BY <1>2, FS_CardinalityType, FS_EmptySet
<1>6. Cardinality(S) + Cardinality(T) = n
  <2>1. Cardinality(S \cup T) = n
    BY <1>1, <1>3
  <2> QED BY <1>4, <1>5, <2>1
<1> QED BY <1>5, <1>6 DEF S, T

\* What a workflow has passed adds up, and success needs an item.
LEMMA CountsFit ==
    ASSUME BatchTypeOK, BatchConstants, NEW j \in Jobs, WorkflowFits(j)
    PROVE  /\ work[j].items \in Nat /\ workflows[j].at \in Nat
           /\ Count(j, "ok") \in Nat /\ Count(j, "bad") \in Nat
           /\ Count(j, "ok") + Count(j, "bad") = workflows[j].at
           /\ Succeeded(j) => work[j].items > 0
<1>1. /\ work[j].items \in Nat /\ workflows[j].at \in Nat
      /\ workflows[j].outcome \in Seq({"ok", "bad", "abort"})
  <2>1. work \in [Jobs -> [kind : {"rechunk", "import"}, items : Nat]]
    BY DEF BatchTypeOK, BatchConstants
  <2>2. workflows[j] \in WorkflowState
    BY DEF BatchTypeOK
  <2> QED BY <2>1, <2>2 DEF WorkflowState
<1>2. /\ workflows[j].at <= Len(workflows[j].outcome)
      /\ \A i \in 1 .. workflows[j].at : workflows[j].outcome[i] # "abort"
  BY DEF WorkflowFits
<1>3. /\ Count(j, "ok") \in Nat /\ Count(j, "bad") \in Nat
      /\ Count(j, "ok") + Count(j, "bad") = workflows[j].at
  BY <1>1, <1>2, OutcomesAdd DEF Count, CountTo
<1>4. Succeeded(j) => work[j].items > 0
  BY DEF Succeeded
<1> QED BY <1>1, <1>3, <1>4

\* A job that succeeded has outcomes, so that its workflow has started.
LEMMA SuccessStarted ==
    ASSUME BatchTypeOK, BatchConstants, NEW j \in Jobs, WorkflowFits(j), Succeeded(j)
    PROVE  /\ workflows[j].pc \notin {"none", "queued", "readStart", "writeStart"}
           /\ calls[j] \notin {"idle", "check", "start", "empty", "enqueue"}
<1>1. work[j].items > 0 /\ work[j].items \in Nat
  BY CountsFit
<1>2. work[j].items <= Len(workflows[j].outcome)
  BY DEF Succeeded
<1>3. workflows[j].outcome # <<>>
  BY <1>1, <1>2
<1> QED BY <1>3 DEF WorkflowFits

-----------------------------------------------------------------------------
(* Types.                                                                   *)

\* Rows that are written.
LEMMA RowWritten ==
    ASSUME BatchTypeOK, NEW j \in Jobs, NEW row \in BatchRow, Write(j, row)
    PROVE  /\ rows' \in [Jobs -> BatchRow]
           /\ rows'[j].status = row.status /\ rows'[j].done = row.done
           /\ rows'[j].failed = row.failed
           /\ \A k \in Jobs \ {j} : rows'[k] = rows[k]
<1>1. rows \in [Jobs -> BatchRow]
  BY DEF BatchTypeOK
<1>2. /\ [row EXCEPT !.stale = FALSE] \in BatchRow
  BY Zenon DEF BatchRow
<1>3. /\ [row EXCEPT !.stale = FALSE].status = row.status
      /\ [row EXCEPT !.stale = FALSE].done = row.done
      /\ [row EXCEPT !.stale = FALSE].failed = row.failed
  BY DEF BatchRow
<1>4. rows' = [rows EXCEPT ![j] = [row EXCEPT !.stale = FALSE]]
  BY DEF Write
<1> QED BY <1>1, <1>2, <1>3, <1>4

LEMMA StatusWritten ==
    ASSUME BatchTypeOK, NEW j \in Jobs, NEW status \in Statuses, SetStatus(j, status)
    PROVE  /\ rows' \in [Jobs -> BatchRow]
           /\ rows'[j].status = status /\ rows'[j].done = rows[j].done
           /\ rows'[j].failed = rows[j].failed
           /\ \A k \in Jobs \ {j} : rows'[k] = rows[k]
<1> DEFINE row == [rows[j] EXCEPT !.status = status]
<1>1. rows[j] \in BatchRow
  BY DEF BatchTypeOK
<1>2. row \in BatchRow /\ row.status = status /\ row.done = rows[j].done
      /\ row.failed = rows[j].failed
  BY <1>1 DEF BatchRow
<1>3. Write(j, row)
  BY DEF SetStatus
<1> HIDE DEF row
<1> QED BY <1>2, <1>3, RowWritten

\* Workflows that move.
LEMMA WorkflowMoves ==
    ASSUME BatchTypeOK, NEW j \in Jobs, NEW w \in WorkflowState, WorkflowTo(j, w)
    PROVE  /\ workflows' \in [Jobs -> WorkflowState] /\ workflows'[j] = w
           /\ \A k \in Jobs \ {j} : workflows'[k] = workflows[k]
  BY DEF BatchTypeOK, WorkflowTo

\* What a workflow's state becomes.
LEMMA WorkflowTypes ==
    ASSUME NEW w \in WorkflowState,
           NEW pc \in {"none", "queued", "readStart", "writeStart", "run", "report",
                       "finalRead", "finalWrite", "written", "ended"}
    PROVE  /\ [w EXCEPT !.pc = pc] \in WorkflowState
           /\ \A r \in Statuses \cup {"none"} : [w EXCEPT !.pc = pc, !.read = r] \in WorkflowState
           /\ \A b \in BOOLEAN : [w EXCEPT !.pc = pc, !.success = b] \in WorkflowState
           /\ \A n \in Nat, out \in Seq({"ok", "bad", "abort"}) :
                  [w EXCEPT !.outcome = out, !.at = n, !.pc = pc] \in WorkflowState
<1>1. [w EXCEPT !.pc = pc] \in WorkflowState
  BY Zenon DEF WorkflowState
<1>2. \A r \in Statuses \cup {"none"} : [w EXCEPT !.pc = pc, !.read = r] \in WorkflowState
  BY Zenon DEF WorkflowState
<1>3. ASSUME NEW b \in BOOLEAN PROVE [w EXCEPT !.pc = pc, !.success = b] \in WorkflowState
  BY Zenon DEF WorkflowState
<1>4. ASSUME NEW n \in Nat, NEW out \in Seq({"ok", "bad", "abort"})
      PROVE  [w EXCEPT !.outcome = out, !.at = n, !.pc = pc] \in WorkflowState
  BY Zenon DEF WorkflowState
<1> QED BY <1>1, <1>2, <1>3, <1>4

\* A move keeps the rest.
LEMMA WorkflowFields ==
    ASSUME NEW w \in WorkflowState, NEW pc, NEW r
    PROVE  /\ [w EXCEPT !.pc = pc].pc = pc /\ [w EXCEPT !.pc = pc].at = w.at
           /\ [w EXCEPT !.pc = pc].outcome = w.outcome
           /\ [w EXCEPT !.pc = pc].success = w.success
           /\ [w EXCEPT !.pc = pc, !.read = r].pc = pc
           /\ [w EXCEPT !.pc = pc, !.read = r].at = w.at
           /\ [w EXCEPT !.pc = pc, !.read = r].outcome = w.outcome
           /\ [w EXCEPT !.pc = pc, !.read = r].success = w.success
  BY DEF WorkflowState

\* Statuses that sessions write, and mishaps.
LEMMA BatchWords ==
    /\ {"pending", "in_progress", "completed", "failed", "cancelled"} = Statuses
    /\ "none" \notin Statuses
    /\ \A s : ValidTransition(s, "completed") => s \in {"completed", "in_progress"}
  BY DEF Statuses, Active, Finished, ValidTransition

LEMMA MishapTypes ==
    ASSUME BatchTypeOK, BatchConstants, Mishap \/ NoMishap \/ UNCHANGED mishaps
    PROVE  mishaps' \in 0 .. MaxMishaps
  BY DEF BatchTypeOK, BatchConstants, Mishap, NoMishap

-----------------------------------------------------------------------------
(* Completion.                                                              *)

\* What is known of a job's success lies in the outcomes alone.
LEMMA SameOutcome ==
    ASSUME NEW k \in Jobs, work' = work, workflows'[k].outcome = workflows[k].outcome
    PROVE  /\ Succeeded(k)' <=> Succeeded(k)
           /\ rows'[k].done = rows[k].done /\ rows'[k].failed = rows[k].failed
                => \A n : Tallied(k, n) => Tallied(k, n)'
<1>1. \A n, r : CountTo(k, n, r)' = CountTo(k, n, r)
  BY DEF CountTo
<1> QED BY <1>1 DEF Succeeded, Tallied

\* A job whose row keeps its counts while it is completed, and whose workflow
\* and place in the request stay as they are.
LEMMA FitsKept ==
    ASSUME BatchTypeOK, BatchConstants, NEW k \in Jobs, WorkflowFits(k), CompletionFits(k),
           work' = work, workflows'[k] = workflows[k],
           calls'[k] \in {"idle", "check", "start", "empty", "enqueue"}
               => calls[k] \in {"idle", "check", "start", "empty", "enqueue"},
           calls[k] = "ended" => calls'[k] = "ended",
           calls'[k] = "empty" => calls[k] = "empty" \/ work[k].items = 0,
           rows'[k].status = "completed" => /\ rows[k].status = "completed"
                                            /\ rows'[k].done = rows[k].done
                                            /\ rows'[k].failed = rows[k].failed
    PROVE  WorkflowFits(k)' /\ CompletionFits(k)'
<1>1. /\ Succeeded(k)' <=> Succeeded(k)
      /\ rows'[k].done = rows[k].done /\ rows'[k].failed = rows[k].failed
           => \A n : Tallied(k, n) => Tallied(k, n)'
  BY SameOutcome
<1>2. Finalizing(k)' <=> Finalizing(k)
  BY DEF Finalizing
<1>3. WorkflowFits(k)'
  BY <1>1, <1>2 DEF WorkflowFits
<1>4. CompletionFits(k)'
  BY <1>1, <1>2 DEF CompletionFits
<1> QED BY <1>3, <1>4

\* The other jobs of a step see nothing of it.
LEMMA OthersKept ==
    ASSUME BatchInv, BatchConstants, NEW j \in Jobs, work' = work,
           \A k \in Jobs \ {j} : /\ workflows'[k] = workflows[k] /\ calls'[k] = calls[k]
                                 /\ rows'[k] = rows[k]
    PROVE  \A k \in Jobs \ {j} : WorkflowFits(k)' /\ CompletionFits(k)'
<1> SUFFICES ASSUME NEW k \in Jobs \ {j} PROVE WorkflowFits(k)' /\ CompletionFits(k)'
  OBVIOUS
<1>1. BatchTypeOK /\ WorkflowFits(k) /\ CompletionFits(k)
  BY DEF BatchInv
<1> QED BY <1>1, FitsKept

-----------------------------------------------------------------------------
(* The steps of a request keep the invariant.                               *)

\* A request that goes on, its workflow not being concerned.
LEMMA CallFits ==
    ASSUME BatchInv, BatchConstants, NEW j \in Jobs, Elsewhere, workflows' = workflows,
           NEW pc \in {"idle", "check", "start", "empty", "enqueue", "failDispatch", "ended"},
           Call(j, pc), typeLock' \in Jobs \cup {NoCall}, mishaps' \in 0 .. MaxMishaps,
           calls[j] \in {"idle", "check", "start", "empty", "enqueue"}
               \/ pc \in {"failDispatch", "ended"},
           calls[j] # "ended", pc = "empty" => work[j].items = 0,
           rows' \in [Jobs -> BatchRow],
           \A k \in Jobs \ {j} : rows'[k] = rows[k],
           rows'[j].done + rows'[j].failed <= work[j].items,
           rows'[j].status = "completed" =>
               \/ /\ rows[j].status = "completed"
                  /\ rows'[j].done = rows[j].done /\ rows'[j].failed = rows[j].failed
               \/ pc = "ended" /\ workflows[j].pc = "none" /\ work[j].items = 0
    PROVE  BatchInv'
<1>1. /\ BatchTypeOK /\ WorkflowFits(j) /\ CompletionFits(j)
      /\ work' = work /\ cancels' = cancels /\ sweep' = sweep
  BY DEF BatchInv, Elsewhere
<1>2. /\ calls' \in [Jobs -> {"idle", "check", "start", "empty", "enqueue",
                              "failDispatch", "ended"}]
      /\ calls'[j] = pc /\ \A k \in Jobs \ {j} : calls'[k] = calls[k]
  BY <1>1 DEF BatchTypeOK, Call
<1>3. BatchTypeOK'
  BY <1>1, <1>2 DEF BatchTypeOK
<1>4. \A k \in Jobs \ {j} : WorkflowFits(k)' /\ CompletionFits(k)'
  BY <1>1, <1>2, OthersKept
<1>5. WorkflowFits(j)' /\ CompletionFits(j)'
  <2>1. CASE rows'[j].status = "completed" =>
               /\ rows[j].status = "completed"
               /\ rows'[j].done = rows[j].done /\ rows'[j].failed = rows[j].failed
    BY <1>1, <1>2, <2>1, FitsKept
  <2>2. CASE pc = "ended" /\ workflows[j].pc = "none" /\ work[j].items = 0
    <3>1. CompletionFits(j)'
      BY <1>1, <1>2, <2>2 DEF CompletionFits
    <3>2. Succeeded(j)' <=> Succeeded(j)
      BY <1>1, SameOutcome
    <3>3. WorkflowFits(j)'
      BY <1>1, <1>2, <2>2, <3>2 DEF WorkflowFits, Finalizing
    <3> QED BY <3>1, <3>3
  <2> QED BY <2>1, <2>2
<1> QED BY <1>3, <1>4, <1>5 DEF BatchInv

LEMMA CallStepFits ==
    ASSUME BatchInv, BatchConstants, NEW j \in Jobs, CallStep(j)
    PROVE  BatchInv'
<1>1. /\ BatchTypeOK /\ WorkflowFits(j) /\ CompletionFits(j)
      /\ rows \in [Jobs -> BatchRow] /\ rows[j] \in BatchRow
      /\ typeLock \in Jobs \cup {NoCall}
      /\ rows[j].done + rows[j].failed <= work[j].items
      /\ work[j].items \in Nat
  BY CountsFit DEF BatchInv, BatchTypeOK
<1>2. FreeLock(j) \/ typeLock' = typeLock \/ typeLock' = j => typeLock' \in Jobs \cup {NoCall}
  BY <1>1 DEF FreeLock
<1>3. Mishap \/ NoMishap => mishaps' \in 0 .. MaxMishaps
  BY <1>1, MishapTypes
<1>4. CASE TakeTypeLock(j)
  BY <1>1, <1>2, <1>3, <1>4, CallFits DEF TakeTypeLock, CallAt
<1>5. CASE CheckNoActiveJob(j)
  BY <1>1, <1>2, <1>3, <1>5, CallFits DEF CheckNoActiveJob, CallAt
<1>6. CASE StartRechunk(j) \/ CreatePending(j)
  <2>1. PICK status \in {"in_progress", "pending"} : Write(j, [NoRow EXCEPT !.status = status])
    BY <1>6 DEF StartRechunk, CreatePending
  <2> DEFINE row == [NoRow EXCEPT !.status = status]
  <2>2. /\ row \in BatchRow /\ row.status = status /\ row.done = 0 /\ row.failed = 0
    BY BatchWords DEF NoRow, BatchRow
  <2> HIDE DEF row
  <2>3. /\ rows' \in [Jobs -> BatchRow] /\ rows'[j].status # "completed"
        /\ rows'[j].done = 0 /\ rows'[j].failed = 0
        /\ \A k \in Jobs \ {j} : rows'[k] = rows[k]
    BY <1>1, <2>1, <2>2, RowWritten DEF row
  <2>4. PICK pc \in {"empty", "enqueue"} : Call(j, pc) /\ (pc = "empty" => work[j].items = 0)
    BY <1>6 DEF StartRechunk, CreatePending
  <2>5. /\ Elsewhere /\ workflows' = workflows /\ NoMishap
        /\ FreeLock(j) \/ typeLock' = typeLock
        /\ calls[j] \in {"idle", "start"}
    BY <1>6 DEF StartRechunk, CreatePending, CallAt
  <2>6. rows'[j].done + rows'[j].failed <= work[j].items
    BY <1>1, <2>3
  <2> QED BY <1>2, <1>3, <2>3, <2>4, <2>5, <2>6, CallFits
<1>7. CASE CompleteEmpty(j) \/ FailDispatch(j)
  <2>1. PICK status \in {"completed", "failed"} :
          /\ SetStatus(j, status)
          /\ status = "completed" => calls[j] = "empty"
    BY <1>7 DEF CompleteEmpty, FailDispatch, CallAt
  <2>2. /\ Elsewhere /\ workflows' = workflows /\ NoMishap /\ typeLock' = typeLock
        /\ calls[j] \in {"empty", "failDispatch"} /\ Call(j, "ended")
    BY <1>7 DEF CompleteEmpty, FailDispatch, CallAt
  <2>3. status \in Statuses
    BY BatchWords
  <2>4. /\ rows' \in [Jobs -> BatchRow]
        /\ rows'[j].status = status /\ rows'[j].done = rows[j].done
        /\ rows'[j].failed = rows[j].failed
        /\ \A k \in Jobs \ {j} : rows'[k] = rows[k]
    BY <1>1, <2>1, <2>3, StatusWritten
  <2>5. status = "completed" => workflows[j].pc = "none" /\ work[j].items = 0
    BY <1>1, <2>1 DEF WorkflowFits
  <2>6. rows'[j].done + rows'[j].failed <= work[j].items
    BY <1>1, <2>4
  <2> QED BY <1>2, <1>3, <2>2, <2>4, <2>5, <2>6, CallFits
<1>8. CASE EnqueueWorkflow(j)
  <2>1. PICK pc \in {"none", "queued"}, next \in {"ended", "failDispatch"} :
          workflows' = [workflows EXCEPT ![j].pc = pc] /\ Call(j, next)
    BY <1>8 DEF EnqueueWorkflow
  <2>2. /\ rows' = rows /\ typeLock' = typeLock /\ work' = work /\ cancels' = cancels
        /\ sweep' = sweep /\ calls[j] = "enqueue" /\ mishaps' \in 0 .. MaxMishaps
    BY <1>3, <1>8 DEF EnqueueWorkflow, Elsewhere, CallAt
  <2>3. workflows[j].pc = "none" /\ workflows[j] \in WorkflowState
    BY <1>1, <2>2 DEF WorkflowFits, BatchTypeOK
  <2> DEFINE w == [workflows[j] EXCEPT !.pc = pc]
  <2>4. /\ w \in WorkflowState /\ WorkflowTo(j, w)
    BY <2>1, <2>3, WorkflowTypes DEF WorkflowTo
  <2>5. /\ w.pc = pc /\ w.at = workflows[j].at /\ w.outcome = workflows[j].outcome
        /\ w.success = workflows[j].success
    BY <2>3 DEF WorkflowState
  <2> HIDE DEF w
  <2>6. /\ workflows' \in [Jobs -> WorkflowState] /\ workflows'[j] = w
        /\ \A k \in Jobs \ {j} : workflows'[k] = workflows[k]
    BY <1>1, <2>4, WorkflowMoves
  <2>7. /\ calls' \in [Jobs -> {"idle", "check", "start", "empty", "enqueue",
                                "failDispatch", "ended"}]
        /\ calls'[j] = next /\ \A k \in Jobs \ {j} : calls'[k] = calls[k]
    BY <1>1, <2>1 DEF BatchTypeOK, Call
  <2>8. BatchTypeOK'
    BY <1>1, <2>2, <2>6, <2>7 DEF BatchTypeOK
  <2>9. \A k \in Jobs \ {j} : WorkflowFits(k)' /\ CompletionFits(k)'
    BY <1>1, <2>2, <2>6, <2>7, OthersKept
  <2>10. ~workflows[j].success
    BY <1>1, <2>3 DEF WorkflowFits, Finalizing
  <2>11. rows[j].status # "completed"
    BY <1>1, <2>2, <2>3, SuccessStarted DEF CompletionFits
  <2>12. WorkflowFits(j)' /\ CompletionFits(j)'
    BY <1>1, <2>2, <2>3, <2>5, <2>6, <2>7, <2>10, <2>11 DEF WorkflowFits, CompletionFits
  <2> QED BY <2>8, <2>9, <2>12 DEF BatchInv
<1>9. CASE AbandonCall(j)
  BY <1>1, <1>2, <1>3, <1>9, CallFits DEF AbandonCall
<1> QED BY <1>4, <1>5, <1>6, <1>7, <1>8, <1>9 DEF CallStep

-----------------------------------------------------------------------------
(* The steps of a workflow keep the invariant.                              *)

\* A workflow's step, once its types and its own job are seen to.
LEMMA WorkflowFitsStep ==
    ASSUME BatchInv, BatchConstants, NEW j \in Jobs, Outside, mishaps' \in 0 .. MaxMishaps,
           NEW w \in WorkflowState, WorkflowTo(j, w),
           rows' \in [Jobs -> BatchRow], \A k \in Jobs \ {j} : rows'[k] = rows[k],
           rows'[j].done + rows'[j].failed <= work[j].items,
           WorkflowFits(j)', CompletionFits(j)'
    PROVE  BatchInv'
<1>1. /\ BatchTypeOK /\ work' = work /\ cancels' = cancels /\ sweep' = sweep
      /\ typeLock' = typeLock /\ calls' = calls
  BY DEF BatchInv, Outside, Elsewhere
<1>2. /\ workflows' \in [Jobs -> WorkflowState] /\ workflows'[j] = w
      /\ \A k \in Jobs \ {j} : workflows'[k] = workflows[k]
  BY <1>1, WorkflowMoves
<1>3. BatchTypeOK'
  BY <1>1, <1>2 DEF BatchTypeOK
<1>4. \A k \in Jobs \ {j} : WorkflowFits(k)' /\ CompletionFits(k)'
  BY <1>1, <1>2, OthersKept
<1> QED BY <1>3, <1>4 DEF BatchInv

\* What every workflow step knows of its job.
LEMMA WorkflowKnows ==
    ASSUME BatchInv, BatchConstants, NEW j \in Jobs
    PROVE  /\ BatchTypeOK /\ WorkflowFits(j) /\ CompletionFits(j)
           /\ rows \in [Jobs -> BatchRow] /\ rows[j] \in BatchRow
           /\ rows[j].done + rows[j].failed <= work[j].items
           /\ work[j].items \in Nat /\ workflows[j].at \in Nat
           /\ workflows[j] \in WorkflowState /\ workflows \in [Jobs -> WorkflowState]
           /\ workflows[j].outcome \in Seq({"ok", "bad", "abort"})
           /\ Mishap \/ NoMishap => mishaps' \in 0 .. MaxMishaps
           /\ Outside => work' = work /\ calls' = calls
<1>1. BatchTypeOK /\ WorkflowFits(j) /\ CompletionFits(j)
  BY DEF BatchInv
<1>2. Mishap \/ NoMishap => mishaps' \in 0 .. MaxMishaps
  BY <1>1, MishapTypes
<1>3. work[j].items \in Nat /\ workflows[j].at \in Nat
  BY <1>1, CountsFit
<1> QED BY <1>1, <1>2, <1>3 DEF BatchTypeOK, WorkflowState, Outside, Elsewhere

\* A workflow that only moves, before or after the items, its row not being
\* written or being written with another status.
LEMMA MoveFits ==
    ASSUME BatchInv, BatchConstants, NEW j \in Jobs, Outside, mishaps' \in 0 .. MaxMishaps,
           NEW w \in WorkflowState, WorkflowTo(j, w),
           w.at = workflows[j].at, w.outcome = workflows[j].outcome,
           w.success => workflows[j].success /\ w.pc \in {"finalRead", "finalWrite", "written", "ended"},
           w.pc # "none",
           w.pc \in {"queued", "readStart", "writeStart"} => w.outcome = <<>>,
           workflows[j].pc # "none",
           rows' \in [Jobs -> BatchRow], \A k \in Jobs \ {j} : rows'[k] = rows[k],
           rows'[j].done + rows'[j].failed <= work[j].items,
           rows'[j].status = "completed" =>
               /\ rows[j].status = "completed"
               /\ rows'[j].done = rows[j].done /\ rows'[j].failed = rows[j].failed
               /\ \/ workflows[j].outcome = <<>>
                  \/ Finalizing(j) /\ w.pc \in {"finalRead", "finalWrite", "written", "ended"}
    PROVE  BatchInv'
<1>1. /\ BatchTypeOK /\ WorkflowFits(j) /\ CompletionFits(j) /\ work' = work /\ calls' = calls
  BY WorkflowKnows
<1>2. workflows'[j] = w
  BY <1>1, WorkflowMoves
<1>3. /\ Succeeded(j)' <=> Succeeded(j)
      /\ rows'[j].done = rows[j].done /\ rows'[j].failed = rows[j].failed
           => \A n : Tallied(j, n) => Tallied(j, n)'
  BY <1>1, <1>2, SameOutcome
<1>4. WorkflowFits(j)'
  BY <1>1, <1>2, <1>3 DEF WorkflowFits, Finalizing
<1>5. CompletionFits(j)'
  <2> SUFFICES ASSUME rows'[j].status = "completed" PROVE CompletionFits(j)'
    BY DEF CompletionFits
  <2>1. Succeeded(j)
    BY <1>1 DEF CompletionFits
  <2>2. Finalizing(j) /\ w.pc \in {"finalRead", "finalWrite", "written", "ended"}
    <3>1. work[j].items > 0 /\ work[j].items \in Nat /\ work[j].items <= Len(workflows[j].outcome)
      BY <1>1, <2>1, CountsFit DEF Succeeded
    <3> QED BY <3>1
  <2>3. /\ workflows[j].at = work[j].items
        /\ \E n \in 0 .. work[j].items : Tallied(j, n)
    BY <1>1, <2>1, <2>2 DEF CompletionFits, Finalizing
  <2>4. Finalizing(j)'
    BY <1>2, <2>2 DEF Finalizing
  <2> QED BY <1>1, <1>2, <1>3, <2>1, <2>3, <2>4 DEF CompletionFits
<1> QED BY <1>4, <1>5, WorkflowFitsStep

\* The gate and the start.
LEMMA StartFits ==
    ASSUME BatchInv, BatchConstants, NEW j \in Jobs,
           EnterGate(j) \/ ReadStart(j) \/ WriteStart(j)
    PROVE  BatchInv'
<1> DEFINE w == workflows[j]
<1>1. /\ w \in WorkflowState /\ rows \in [Jobs -> BatchRow] /\ rows[j] \in BatchRow
      /\ rows[j].done + rows[j].failed <= work[j].items
      /\ w.pc \in {"queued", "readStart", "writeStart"}
      /\ w.outcome = <<>> /\ ~w.success
      /\ Outside /\ mishaps' \in 0 .. MaxMishaps /\ BatchTypeOK
  BY WorkflowKnows DEF EnterGate, ReadStart, WriteStart, WorkflowAt, WorkflowFits, Finalizing
<1> HIDE DEF w
<1>2. CASE EnterGate(j) \/ (WriteStart(j) /\ rows' = rows)
  <2>1. PICK pc \in {"readStart", "run", "finalRead", "ended"} : WorkflowPc(j, pc) /\ rows' = rows
    BY <1>2 DEF EnterGate, WriteStart
  <2> DEFINE v == [w EXCEPT !.pc = pc]
  <2>2. /\ v \in WorkflowState /\ v.pc = pc /\ v.at = w.at /\ v.outcome = w.outcome
        /\ v.success = w.success
    BY Zenon, <1>1, WorkflowTypes, WorkflowFields
  <2>3. WorkflowTo(j, v)
    BY <2>1 DEF WorkflowPc, w
  <2> HIDE DEF v
  <2> QED BY <1>1, <2>1, <2>2, <2>3, MoveFits DEF w
<1>3. CASE ReadStart(j)
  <2> DEFINE v == [w EXCEPT !.pc = "writeStart", !.read = rows[j].status]
  <2>1. rows[j].status \in Statuses \cup {"none"}
    BY <1>1 DEF BatchRow
  <2>2. /\ v \in WorkflowState /\ v.pc = "writeStart" /\ v.at = w.at /\ v.outcome = w.outcome
        /\ v.success = w.success
    <3>1. v \in WorkflowState
      BY <1>1, <2>1, WorkflowTypes
    <3>2. /\ v.pc = "writeStart" /\ v.at = w.at /\ v.outcome = w.outcome /\ v.success = w.success
      BY <1>1, WorkflowFields
    <3> QED BY <3>1, <3>2
  <2>3. WorkflowTo(j, v) /\ rows' = rows
    BY <1>3 DEF ReadStart, w
  <2> HIDE DEF v
  <2> QED BY <1>1, <2>2, <2>3, MoveFits DEF w
<1>4. CASE WriteStart(j) /\ rows' # rows
  <2>1. SetStatus(j, "in_progress") /\ WorkflowPc(j, "run")
    BY <1>4 DEF WriteStart
  <2> DEFINE v == [w EXCEPT !.pc = "run"]
  <2>2. /\ v \in WorkflowState /\ v.pc = "run" /\ v.at = w.at /\ v.outcome = w.outcome
        /\ v.success = w.success
    BY Zenon, <1>1, WorkflowTypes, WorkflowFields
  <2>3. WorkflowTo(j, v)
    BY <2>1 DEF WorkflowPc, w
  <2> HIDE DEF v
  <2>4. /\ rows' \in [Jobs -> BatchRow]
        /\ rows'[j].status = "in_progress" /\ rows'[j].done = rows[j].done
        /\ rows'[j].failed = rows[j].failed
        /\ \A k \in Jobs \ {j} : rows'[k] = rows[k]
    BY <1>1, <2>1, BatchWords, StatusWritten
  <2> QED BY <1>1, <2>2, <2>3, <2>4, MoveFits DEF w
<1> QED BY <1>2, <1>3, <1>4

\* The last read, a write that is refused or fails, and the return.
LEMMA FinalMovesFit ==
    ASSUME BatchInv, BatchConstants, NEW j \in Jobs,
           ReadFinal(j) \/ (WriteFinal(j) /\ rows' = rows) \/ WorkflowReturns(j)
    PROVE  BatchInv'
<1> DEFINE w == workflows[j]
<1>1. /\ w \in WorkflowState /\ rows \in [Jobs -> BatchRow] /\ rows[j] \in BatchRow
      /\ rows[j].done + rows[j].failed <= work[j].items
      /\ w.pc \in {"finalRead", "finalWrite", "written"} /\ Finalizing(j)
      /\ Outside /\ mishaps' \in 0 .. MaxMishaps /\ rows' = rows
  BY WorkflowKnows DEF ReadFinal, WriteFinal, WorkflowReturns, WorkflowAt, Finalizing
<1> HIDE DEF w
<1>2. CASE ReadFinal(j)
  <2> DEFINE v == [w EXCEPT !.pc = "finalWrite", !.read = rows[j].status]
  <2>1. rows[j].status \in Statuses \cup {"none"}
    BY <1>1 DEF BatchRow
  <2>2. /\ v \in WorkflowState /\ v.pc = "finalWrite" /\ v.at = w.at /\ v.outcome = w.outcome
        /\ v.success = w.success
    <3>1. v \in WorkflowState
      BY <1>1, <2>1, WorkflowTypes
    <3>2. /\ v.pc = "finalWrite" /\ v.at = w.at /\ v.outcome = w.outcome /\ v.success = w.success
      BY <1>1, WorkflowFields
    <3> QED BY <3>1, <3>2
  <2>3. WorkflowTo(j, v)
    BY <1>2 DEF ReadFinal, w
  <2> HIDE DEF v
  <2> QED BY <1>1, <2>2, <2>3, MoveFits DEF w
<1>3. CASE WriteFinal(j) \/ WorkflowReturns(j)
  <2>1. PICK pc \in {"written", "ended"} : WorkflowPc(j, pc)
    BY <1>3 DEF WriteFinal, WorkflowReturns
  <2> DEFINE v == [w EXCEPT !.pc = pc]
  <2>2. /\ v \in WorkflowState /\ v.pc = pc /\ v.at = w.at /\ v.outcome = w.outcome
        /\ v.success = w.success
    BY Zenon, <1>1, WorkflowTypes, WorkflowFields
  <2>3. WorkflowTo(j, v)
    BY <2>1 DEF WorkflowPc, w
  <2> HIDE DEF v
  <2> QED BY <1>1, <2>2, <2>3, MoveFits DEF w
<1> QED BY <1>2, <1>3

\* The verdict: a job is completed with the counts of all items, less than half
\* of which went wrong.
LEMMA VerdictFits ==
    ASSUME BatchInv, BatchConstants, NEW j \in Jobs, WriteFinal(j), rows' # rows
    PROVE  BatchInv'
<1> DEFINE w == workflows[j]
           raised == work[j].kind = "import" /\ ~workflows[j].success
                     /\ workflows[j].at < work[j].items
           row == [rows[j] EXCEPT !.status = Verdict(j),
                                  !.done = IF raised THEN 0 ELSE Count(j, "ok"),
                                  !.failed = IF raised THEN 0 ELSE Count(j, "bad")]
           v == [w EXCEPT !.pc = "written"]
<1>1. /\ BatchTypeOK /\ WorkflowFits(j) /\ CompletionFits(j)
      /\ w \in WorkflowState /\ rows[j] \in BatchRow /\ w.pc = "finalWrite"
      /\ Outside /\ work' = work /\ calls' = calls /\ mishaps' \in 0 .. MaxMishaps
      /\ work[j].items \in Nat /\ w.at \in Nat
  BY WorkflowKnows DEF WriteFinal, WorkflowAt
<1>2. Write(j, row) /\ WorkflowPc(j, "written")
  BY DEF WriteFinal
<1>3. /\ Count(j, "ok") \in Nat /\ Count(j, "bad") \in Nat
      /\ Count(j, "ok") + Count(j, "bad") = w.at
  BY <1>1, CountsFit
<1>4. Verdict(j) \in Statuses
  BY BatchWords DEF Verdict
<1>5. /\ row \in BatchRow /\ row.status = Verdict(j)
      /\ row.done = IF raised THEN 0 ELSE Count(j, "ok")
      /\ row.failed = IF raised THEN 0 ELSE Count(j, "bad")
  BY <1>1, <1>3, <1>4 DEF BatchRow
<1>6. /\ v \in WorkflowState /\ v.pc = "written" /\ v.at = w.at /\ v.outcome = w.outcome
      /\ v.success = w.success
  BY Zenon, <1>1, WorkflowTypes, WorkflowFields
<1>7. WorkflowTo(j, v)
  BY <1>2 DEF WorkflowPc
<1>8. raised => ~w.success
  OBVIOUS
<1> HIDE DEF row, v, raised, w
<1>9. /\ rows' \in [Jobs -> BatchRow]
      /\ rows'[j].status = Verdict(j) /\ rows'[j].done = row.done /\ rows'[j].failed = row.failed
      /\ \A k \in Jobs \ {j} : rows'[k] = rows[k]
  BY <1>1, <1>2, <1>5, RowWritten
<1>10. rows'[j].done + rows'[j].failed <= work[j].items
  <2>1. w.at <= work[j].items
    BY <1>1 DEF WorkflowFits, w
  <2> QED BY <1>1, <1>3, <1>5, <1>9, <2>1
<1>11. workflows'[j] = v
  BY <1>1, <1>6, <1>7, WorkflowMoves
<1>12. Succeeded(j)' <=> Succeeded(j)
  BY <1>1, <1>6, <1>11, SameOutcome DEF w
<1>13. WorkflowFits(j)'
  BY <1>1, <1>6, <1>11, <1>12 DEF WorkflowFits, Finalizing, w
<1>14. CompletionFits(j)'
  <2> SUFFICES ASSUME rows'[j].status = "completed" PROVE CompletionFits(j)'
    BY DEF CompletionFits
  <2>1. w.success /\ ~raised
    BY <1>8, <1>9 DEF Verdict, w
  <2>2. w.at = work[j].items /\ Succeeded(j)
    BY <1>1, <2>1 DEF WorkflowFits, w
  <2>3. \A n, r : n = w.at => CountTo(j, n, r)' = Count(j, r)
    BY <1>6, <1>11 DEF Count, CountTo, w
  <2>4. \E n \in 0 .. work[j].items : Tallied(j, n)'
    <3>1. w.at \in 0 .. work[j].items
      BY <1>1, <2>2
    <3>2. ASSUME NEW n \in 0 .. work[j].items, n = w.at PROVE Tallied(j, n)'
      BY <1>5, <1>9, <2>1, <2>3, <3>2 DEF Tallied
    <3> QED BY <3>1, <3>2
  <2>5. Finalizing(j)'
    BY <1>6, <1>11 DEF Finalizing
  <2> QED BY <1>1, <1>6, <1>11, <1>12, <2>2, <2>4, <2>5 DEF CompletionFits
<1> QED BY <1>1, <1>6, <1>7, <1>9, <1>10, <1>13, <1>14, WorkflowFitsStep

\* A report of progress brings the counts up to what the workflow has passed, or
\* leaves them as they are.
LEMMA ReportFits ==
    ASSUME BatchInv, BatchConstants, NEW j \in Jobs, ReportProgress(j)
    PROVE  BatchInv'
<1> DEFINE w == workflows[j]
           row == [rows[j] EXCEPT !.done = Count(j, "ok"), !.failed = Count(j, "bad")]
           v == [w EXCEPT !.pc = "run"]
<1>1. /\ BatchTypeOK /\ WorkflowFits(j) /\ CompletionFits(j)
      /\ w \in WorkflowState /\ rows[j] \in BatchRow /\ w.pc = "report" /\ ~w.success
      /\ rows \in [Jobs -> BatchRow] /\ rows[j].done + rows[j].failed <= work[j].items
      /\ Outside /\ work' = work /\ calls' = calls /\ mishaps' \in 0 .. MaxMishaps
      /\ work[j].items \in Nat /\ w.at \in Nat
  BY WorkflowKnows DEF ReportProgress, WorkflowAt, WorkflowFits, Finalizing
<1>2. (rows' = rows \/ Write(j, row)) /\ WorkflowPc(j, "run")
  BY DEF ReportProgress
<1>3. /\ Count(j, "ok") \in Nat /\ Count(j, "bad") \in Nat
      /\ Count(j, "ok") + Count(j, "bad") = w.at
  BY <1>1, CountsFit
<1>4. /\ row \in BatchRow /\ row.status = rows[j].status
      /\ row.done = Count(j, "ok") /\ row.failed = Count(j, "bad")
  BY <1>1, <1>3 DEF BatchRow
<1>5. /\ v \in WorkflowState /\ v.pc = "run" /\ v.at = w.at /\ v.outcome = w.outcome
      /\ v.success = w.success
  BY Zenon, <1>1, WorkflowTypes, WorkflowFields
<1>6. WorkflowTo(j, v)
  BY <1>2 DEF WorkflowPc
<1> HIDE DEF row, v, w
<1>7. /\ rows' \in [Jobs -> BatchRow]
      /\ rows'[j].status = rows[j].status
      /\ \/ rows'[j].done = rows[j].done /\ rows'[j].failed = rows[j].failed
         \/ rows'[j].done = Count(j, "ok") /\ rows'[j].failed = Count(j, "bad")
      /\ \A k \in Jobs \ {j} : rows'[k] = rows[k]
  <2>1. CASE Write(j, row)
    BY <1>1, <1>4, <2>1, RowWritten
  <2> QED BY <1>1, <1>2, <2>1
<1>0. w.at \in 0 .. work[j].items
  BY <1>1 DEF WorkflowFits, w
<1>8. rows'[j].done + rows'[j].failed <= work[j].items
  BY <1>0, <1>1, <1>3, <1>7
<1>9. workflows'[j] = v
  BY <1>1, <1>5, <1>6, WorkflowMoves
<1>10. /\ Succeeded(j)' <=> Succeeded(j)
       /\ rows'[j].done = rows[j].done /\ rows'[j].failed = rows[j].failed
            => \A n : Tallied(j, n) => Tallied(j, n)'
  BY <1>1, <1>5, <1>9, SameOutcome DEF w
<1>11. WorkflowFits(j)'
  BY <1>1, <1>5, <1>9, <1>10 DEF WorkflowFits, Finalizing, w
<1>12. CompletionFits(j)'
  <2> SUFFICES ASSUME rows'[j].status = "completed" PROVE CompletionFits(j)'
    BY DEF CompletionFits
  <2>1. /\ Succeeded(j) /\ work[j].kind # "import"
        /\ \E n \in 0 .. work[j].items : Tallied(j, n)
    BY <1>1, <1>7 DEF CompletionFits, Finalizing, w
  <2>2. \A n, r : n = w.at => CountTo(j, n, r)' = Count(j, r)
    BY <1>5, <1>9 DEF Count, CountTo, w
  <2>3. \E n \in 0 .. work[j].items : Tallied(j, n)'
    <3>1. CASE rows'[j].done = rows[j].done /\ rows'[j].failed = rows[j].failed
      BY <1>10, <2>1, <3>1
    <3>2. CASE rows'[j].done = Count(j, "ok") /\ rows'[j].failed = Count(j, "bad")
      <4>1. ASSUME NEW n \in 0 .. work[j].items, n = w.at PROVE Tallied(j, n)'
        BY <2>2, <3>2, <4>1 DEF Tallied
      <4> QED BY <1>0, <4>1
    <3> QED BY <1>7, <3>1, <3>2
  <2>4. ~Finalizing(j)'
    BY <1>5, <1>9 DEF Finalizing
  <2> QED BY <1>1, <1>10, <2>1, <2>3, <2>4 DEF CompletionFits
<1> QED BY <1>1, <1>5, <1>6, <1>7, <1>8, <1>11, <1>12, WorkflowFitsStep

\* All items passed: the verdict is that of all items.
LEMMA AllProcessedFits ==
    ASSUME BatchInv, BatchConstants, NEW j \in Jobs, AllProcessed(j)
    PROVE  BatchInv'
<1> DEFINE w == workflows[j]
           well == MostlyDone(Count(j, "ok"), Count(j, "bad"))
           v == [w EXCEPT !.pc = "finalRead", !.success = well]
<1>1. /\ BatchTypeOK /\ WorkflowFits(j) /\ CompletionFits(j)
      /\ w \in WorkflowState /\ w.pc = "run" /\ w.at = work[j].items
      /\ rows \in [Jobs -> BatchRow] /\ rows[j].done + rows[j].failed <= work[j].items
      /\ Outside /\ work' = work /\ calls' = calls /\ mishaps' \in 0 .. MaxMishaps
      /\ rows' = rows
  BY WorkflowKnows DEF AllProcessed, WorkflowAt
<1>2. well \in BOOLEAN
  BY DEF MostlyDone
<1>0. /\ work[j].items \in Nat /\ Count(j, "ok") \in Nat /\ Count(j, "bad") \in Nat
      /\ Count(j, "ok") + Count(j, "bad") = work[j].items
      /\ Count(j, "bad") = CountTo(j, work[j].items, "bad")
  BY <1>1, CountsFit DEF Count
<1>s. well => work[j].items > 0 /\ 2 * CountTo(j, work[j].items, "bad") < work[j].items
  <2>1. ASSUME NEW a \in Nat, NEW b \in Nat, NEW n \in Nat, a + b = n, MostlyDone(a, b)
        PROVE  n > 0 /\ 2 * b < n
    BY <2>1 DEF MostlyDone
  <2> QED BY <1>0, <2>1
<1>3. well => Succeeded(j)
  BY <1>1, <1>s DEF Succeeded, WorkflowFits
<1>4. WorkflowTo(j, v)
  BY DEF AllProcessed
<1> HIDE DEF well
<1>5. /\ v \in WorkflowState /\ v.pc = "finalRead" /\ v.at = w.at /\ v.outcome = w.outcome
      /\ v.success = well
  <2>1. v \in WorkflowState
    BY Zenon, <1>1, <1>2, WorkflowTypes
  <2> QED BY <1>1, <2>1 DEF WorkflowState
<1> HIDE DEF v, w
<1>6. workflows'[j] = v
  BY <1>1, <1>4, <1>5, WorkflowMoves
<1>7. /\ Succeeded(j)' <=> Succeeded(j)
      /\ \A n : Tallied(j, n) => Tallied(j, n)'
  BY <1>1, <1>5, <1>6, SameOutcome DEF w
<1>8. Finalizing(j)'
  BY <1>5, <1>6 DEF Finalizing
<1>9. WorkflowFits(j)'
  BY <1>1, <1>3, <1>5, <1>6, <1>7, <1>8 DEF WorkflowFits, w
<1>10. CompletionFits(j)'
  <2> SUFFICES ASSUME rows[j].status = "completed" PROVE CompletionFits(j)'
    BY <1>1 DEF CompletionFits
  <2>1. Succeeded(j) /\ \E n \in 0 .. work[j].items : Tallied(j, n)
    BY <1>1 DEF CompletionFits, w
  <2> QED BY <1>1, <1>5, <1>6, <1>7, <1>8, <2>1 DEF CompletionFits, w
<1> QED BY <1>1, <1>4, <1>5, <1>9, <1>10, WorkflowFitsStep

\* The next item: a workflow that is executed again meets the outcomes it knows,
\* so that one that succeeded does not abort.
LEMMA ItemFits ==
    ASSUME BatchInv, BatchConstants, NEW j \in Jobs, ProcessItem(j)
    PROVE  BatchInv'
<1> DEFINE w == workflows[j]
           known == w.at < Len(w.outcome)
           out(result) == IF known THEN w.outcome ELSE Append(w.outcome, result)
           at(result) == IF result = "abort" THEN w.at ELSE w.at + 1
           pc(result) == IF result = "abort" THEN "finalRead" ELSE "report"
           v(result) == [w EXCEPT !.outcome = out(result), !.at = at(result), !.pc = pc(result)]
<1>1. /\ BatchTypeOK /\ WorkflowFits(j) /\ CompletionFits(j)
      /\ w \in WorkflowState /\ w.pc = "run" /\ w.at < work[j].items
      /\ rows \in [Jobs -> BatchRow] /\ rows[j].done + rows[j].failed <= work[j].items
      /\ Outside /\ work' = work /\ calls' = calls /\ mishaps' \in 0 .. MaxMishaps
      /\ rows' = rows /\ work[j].items \in Nat /\ w.at \in Nat
      /\ w.outcome \in Seq({"ok", "bad", "abort"}) /\ w.at <= Len(w.outcome)
      /\ \A i \in 1 .. w.at : w.outcome[i] # "abort"
      /\ ~w.success
  BY WorkflowKnows DEF ProcessItem, WorkflowAt, WorkflowFits, Finalizing
<1>2. PICK result \in {"ok", "bad", "abort"} :
        /\ known => result = w.outcome[w.at + 1]
        /\ WorkflowTo(j, v(result))
  BY DEF ProcessItem
<1>3. /\ out(result) \in Seq({"ok", "bad", "abort"}) /\ at(result) \in Nat
      /\ at(result) <= work[j].items /\ at(result) <= Len(out(result))
      /\ \A i \in 1 .. at(result) : out(result)[i] # "abort"
      /\ pc(result) \in {"finalRead", "report"}
      /\ known => out(result) = w.outcome
      /\ pc(result) = "finalRead" => result = "abort"
  <2>1. CASE known
    BY <1>1, <1>2, <2>1
  <2>2. CASE ~known
    <3>1. w.at = Len(w.outcome)
      BY <1>1, <2>2
    <3> QED BY <1>1, <1>2, <2>2, <3>1
  <2> QED BY <2>1, <2>2
<1> HIDE DEF out, at, pc
<1>4. v(result) \in WorkflowState
  BY <1>1, <1>3, WorkflowTypes
<1>5. /\ v(result).pc = pc(result) /\ v(result).at = at(result)
      /\ v(result).outcome = out(result) /\ v(result).success = w.success
  BY <1>1 DEF WorkflowState
<1> HIDE DEF v
<1>6. workflows'[j] = v(result)
  BY <1>1, <1>2, <1>4, WorkflowMoves
<1>7. WorkflowFits(j)'
  <2>1. calls'[j] \notin {"idle", "check", "start", "empty", "enqueue"}
    BY <1>1 DEF WorkflowFits
  <2>2. ~workflows'[j].success /\ workflows'[j].pc \in {"finalRead", "report"}
    BY <1>1, <1>3, <1>5, <1>6
  <2>3. /\ workflows'[j].at <= work'[j].items /\ workflows'[j].at <= Len(workflows'[j].outcome)
        /\ \A i \in 1 .. workflows'[j].at : workflows'[j].outcome[i] # "abort"
    BY <1>1, <1>3, <1>5, <1>6
  <2> QED BY <2>1, <2>2, <2>3 DEF WorkflowFits
<1>8. CompletionFits(j)'
  <2> SUFFICES ASSUME rows[j].status = "completed" PROVE CompletionFits(j)'
    BY <1>1 DEF CompletionFits
  <2>1. /\ Succeeded(j) /\ work[j].kind # "import"
        /\ \E n \in 0 .. work[j].items : Tallied(j, n)
    BY <1>1 DEF CompletionFits, Finalizing
  <2>2. known /\ w.at + 1 \in 1 .. work[j].items
    BY <1>1, <2>1 DEF Succeeded
  <2>3. result # "abort"
    BY <1>2, <2>1, <2>2 DEF Succeeded
  <2>4. workflows'[j].outcome = w.outcome /\ workflows'[j].pc = "report"
    BY <1>3, <1>5, <1>6, <2>2, <2>3
  <2>5. Succeeded(j)' /\ \A n : Tallied(j, n) => Tallied(j, n)'
    BY <1>1, <2>1, <2>4, SameOutcome
  <2> QED BY <1>1, <2>1, <2>4, <2>5 DEF CompletionFits, Finalizing, WorkflowAt
<1> QED BY <1>1, <1>2, <1>4, <1>7, <1>8, WorkflowFitsStep

\* A crash: what is recorded stays.
LEMMA CrashFits ==
    ASSUME BatchInv, BatchConstants, NEW j \in Jobs, CrashWorkflow(j)
    PROVE  BatchInv'
<1> DEFINE w == workflows[j]
           again == [w EXCEPT !.success = FALSE, !.read = "none"]
           rerun == [again EXCEPT !.pc = "run", !.at = 0]
           restart == [again EXCEPT !.pc = "readStart"]
           redo == [again EXCEPT !.pc = "run", !.at = 0, !.outcome = <<>>]
           resume == [w EXCEPT !.pc = "finalRead"]
<1>1. /\ BatchTypeOK /\ WorkflowFits(j) /\ CompletionFits(j)
      /\ w \in WorkflowState /\ w.pc \notin {"none", "queued", "ended"}
      /\ rows \in [Jobs -> BatchRow] /\ rows[j].done + rows[j].failed <= work[j].items
      /\ Outside /\ work' = work /\ calls' = calls /\ mishaps' \in 0 .. MaxMishaps
      /\ rows' = rows /\ work[j].items \in Nat /\ w.at \in Nat
      /\ w.outcome \in Seq({"ok", "bad", "abort"})
  BY WorkflowKnows DEF CrashWorkflow
<1>2. \/ work[j].kind = "rechunk" /\ WorkflowTo(j, rerun)
      \/ w.pc \in {"readStart", "writeStart"} /\ WorkflowTo(j, restart)
      \/ work[j].kind = "import" /\ w.pc \in {"run", "report"} /\ WorkflowTo(j, redo)
      \/ Finalizing(j) /\ WorkflowTo(j, resume)
  BY DEF CrashWorkflow
<1>3. /\ again \in WorkflowState /\ again.at = w.at /\ again.outcome = w.outcome
      /\ again.success = FALSE /\ again.pc = w.pc
  <2>1. again \in WorkflowState
    BY Zenon, <1>1 DEF WorkflowState
  <2> QED BY <1>1, <2>1 DEF WorkflowState
<1>4. calls[j] \notin {"idle", "check", "start", "empty", "enqueue"}
  BY <1>1 DEF WorkflowFits
<1> HIDE DEF again, w
<1>6. CASE work[j].kind = "rechunk" /\ WorkflowTo(j, rerun)
  <2>1. rerun \in WorkflowState
    <3>1. again.outcome = w.outcome /\ again.outcome \in Seq({"ok", "bad", "abort"})
      BY <1>1, <1>3
    <3>2. [again EXCEPT !.outcome = again.outcome, !.at = 0, !.pc = "run"] = rerun
      BY <1>3 DEF WorkflowState
    <3>3. [again EXCEPT !.outcome = again.outcome, !.at = 0, !.pc = "run"] \in WorkflowState
      BY <1>3, <3>1, WorkflowTypes
    <3> QED BY <3>2, <3>3
  <2>2. /\ rerun.pc = "run" /\ rerun.at = 0 /\ rerun.outcome = w.outcome /\ ~rerun.success
    BY <1>3 DEF WorkflowState
  <2> HIDE DEF rerun
  <2>3. workflows'[j] = rerun
    BY <1>1, <1>6, <2>1, WorkflowMoves
  <2>4. WorkflowFits(j)'
    BY <1>1, <1>4, <2>2, <2>3 DEF WorkflowFits
  <2>5. CompletionFits(j)'
    <3> SUFFICES ASSUME rows[j].status = "completed" PROVE CompletionFits(j)'
      BY <1>1 DEF CompletionFits
    <3>1. Succeeded(j) /\ \E n \in 0 .. work[j].items : Tallied(j, n)
      BY <1>1 DEF CompletionFits, w
    <3>2. Succeeded(j)' /\ \A n : Tallied(j, n) => Tallied(j, n)'
      BY <1>1, <2>2, <2>3, <3>1, SameOutcome DEF w
    <3> QED BY <1>1, <1>6, <2>2, <2>3, <3>1, <3>2 DEF CompletionFits, Finalizing, WorkflowAt
  <2> QED BY <1>1, <1>6, <2>1, <2>4, <2>5, WorkflowFitsStep
<1>7. CASE w.pc \in {"readStart", "writeStart"} /\ WorkflowTo(j, restart)
  <2>1. restart \in WorkflowState
    BY <1>3, WorkflowTypes
  <2>2. /\ restart.pc = "readStart" /\ restart.at = w.at /\ restart.outcome = w.outcome
        /\ ~restart.success
    BY <1>3 DEF WorkflowState
  <2>3. w.outcome = <<>>
    BY <1>1, <1>7 DEF WorkflowFits, w
  <2> HIDE DEF restart
  <2> QED BY <1>1, <1>7, <2>1, <2>2, <2>3, MoveFits DEF w
<1>8. CASE work[j].kind = "import" /\ w.pc \in {"run", "report"} /\ WorkflowTo(j, redo)
  <2>1. redo \in WorkflowState
    <3>1. <<>> \in Seq({"ok", "bad", "abort"}) /\ 0 \in Nat
      OBVIOUS
    <3>2. [again EXCEPT !.outcome = <<>>, !.at = 0, !.pc = "run"] = redo
      BY <1>3 DEF WorkflowState
    <3>3. [again EXCEPT !.outcome = <<>>, !.at = 0, !.pc = "run"] \in WorkflowState
      BY Zenon, <1>3, <3>1, WorkflowTypes
    <3> QED BY <3>2, <3>3
  <2>2. /\ redo.pc = "run" /\ redo.at = 0 /\ redo.outcome = <<>> /\ ~redo.success
    BY <1>3 DEF WorkflowState
  <2> HIDE DEF redo
  <2>3. workflows'[j] = redo
    BY <1>1, <1>8, <2>1, WorkflowMoves
  <2>4. WorkflowFits(j)'
    BY <1>1, <1>4, <2>2, <2>3 DEF WorkflowFits
  <2>5. rows[j].status # "completed"
    BY <1>1, <1>8 DEF CompletionFits, Finalizing, w
  <2>6. CompletionFits(j)'
    BY <1>1, <2>5 DEF CompletionFits
  <2> QED BY <1>1, <1>8, <2>1, <2>4, <2>6, WorkflowFitsStep
<1>9. CASE Finalizing(j) /\ WorkflowTo(j, resume)
  <2>1. resume \in WorkflowState
    BY <1>1, WorkflowTypes
  <2>2. /\ resume.pc = "finalRead" /\ resume.at = w.at /\ resume.outcome = w.outcome
        /\ resume.success = w.success
    BY <1>1 DEF WorkflowState
  <2> HIDE DEF resume
  <2> QED BY <1>1, <1>9, <2>1, <2>2, MoveFits DEF w
<1> QED BY <1>2, <1>6, <1>7, <1>8, <1>9

-----------------------------------------------------------------------------
(* Cancellation and clean-up keep the invariant; the theorems.              *)

LEMMA OutsideFits ==
    ASSUME BatchInv, BatchConstants,
           \/ \E j \in Jobs : Cancel(j) \/ ReadForCancel(j) \/ CancelRechunk(j)
           \/ Age \/ Sweep \/ SweepDies
    PROVE  BatchInv'
<1>1. /\ BatchTypeOK /\ rows \in [Jobs -> BatchRow]
      /\ \A j \in Jobs : /\ WorkflowFits(j) /\ CompletionFits(j) /\ work[j].items \in Nat
                         /\ rows[j].done + rows[j].failed <= work[j].items
  BY WorkflowKnows DEF BatchInv, BatchTypeOK
<1>2. work' = work /\ typeLock' = typeLock /\ calls' = calls /\ workflows' = workflows
  BY DEF Cancel, ReadForCancel, CancelRechunk, Age, Sweep, SelectStale, FailStale, SweepDies
<1>3. mishaps' \in 0 .. MaxMishaps
  BY <1>1, MishapTypes DEF Cancel, ReadForCancel, CancelRechunk, Age, Sweep, SelectStale,
                           FailStale, SweepDies
<1>4. cancels' \in [Jobs -> Statuses \cup {"none", "ended"}]
  <2>1. cancels \in [Jobs -> Statuses \cup {"none", "ended"}]
    BY <1>1 DEF BatchTypeOK
  <2>2. CASE cancels' = cancels
    BY <2>1, <2>2
  <2>3. ASSUME NEW j \in Jobs, cancels' = [cancels EXCEPT ![j] = "ended"]
        PROVE  <1>4
    BY <2>1, <2>3
  <2>4. ASSUME NEW j \in Jobs, ReadForCancel(j)
        PROVE  <1>4
    <3>1. cancels' = [cancels EXCEPT ![j] = rows[j].status] /\ rows[j].status # "none"
      BY <2>4 DEF ReadForCancel
    <3>2. rows[j].status \in Statuses \cup {"none"}
      BY <1>1 DEF BatchRow
    <3> QED
      BY <2>1, <3>1, <3>2
  <2> QED
    BY <2>2, <2>3, <2>4 DEF Cancel, CancelRechunk, Age, Sweep, SelectStale, FailStale,
                            SweepDies
<1>5. sweep' \in [Jobs -> Active \cup {"none"}]
  <2>1. sweep \in [Jobs -> Active \cup {"none"}]
    BY <1>1 DEF BatchTypeOK
  <2>2. CASE sweep' = sweep
    BY <2>1, <2>2
  <2>3. ASSUME NEW j \in Jobs, sweep' = [sweep EXCEPT ![j] = "none"]
        PROVE  <1>5
    BY <2>1, <2>3
  <2>4. CASE SweepDies
    BY <2>4 DEF SweepDies
  <2>5. CASE SelectStale
    BY <2>5 DEF SelectStale, StaleJobs
  <2> QED
    BY <2>2, <2>3, <2>4, <2>5 DEF Cancel, ReadForCancel, CancelRechunk, Age, Sweep, FailStale
<1>6. /\ rows' \in [Jobs -> BatchRow]
      /\ \A k \in Jobs : /\ rows'[k].done = rows[k].done /\ rows'[k].failed = rows[k].failed
                         /\ rows'[k].status = "completed" => rows[k].status = "completed"
  <2>1. CASE rows' = rows
    BY <1>1, <2>1
  <2>2. CASE \E j \in Jobs : SetStatus(j, "cancelled") \/ SetStatus(j, "failed")
    <3>1. PICK j \in Jobs, status \in {"cancelled", "failed"} : SetStatus(j, status)
      BY <2>2
    <3>2. status \in Statuses /\ status # "completed"
      BY BatchWords
    <3> QED BY <1>1, <3>1, <3>2, StatusWritten
  <2>3. CASE Age
    <3>1. rows' = [j \in Jobs |-> [rows[j] EXCEPT !.stale = rows[j].status \in Active]]
      BY <2>3 DEF Age
    <3>2. ASSUME NEW j \in Jobs, NEW stale \in BOOLEAN
          PROVE  [rows[j] EXCEPT !.stale = stale] \in BatchRow
      BY Zenon, <1>1 DEF BatchRow
    <3>3. \A j \in Jobs : /\ (rows[j].status \in Active) \in BOOLEAN
                         /\ rows[j] \in BatchRow
      BY <1>1
    <3> QED BY <3>1, <3>2, <3>3 DEF BatchRow
  <2> QED BY <2>1, <2>2, <2>3 DEF Cancel, ReadForCancel, CancelRechunk, Sweep,
                                  SelectStale, FailStale, SweepDies
<1>7. BatchTypeOK'
  BY <1>1, <1>2, <1>3, <1>4, <1>5, <1>6 DEF BatchTypeOK
<1>8. ASSUME NEW k \in Jobs PROVE WorkflowFits(k)' /\ CompletionFits(k)'
  BY <1>1, <1>2, <1>6, FitsKept
<1> QED BY <1>7, <1>8 DEF BatchInv

LEMMA BatchStart == BatchConstants /\ BatchInit => BatchInv
<1> SUFFICES ASSUME BatchConstants, BatchInit PROVE BatchInv
  OBVIOUS
<1> USE DEF BatchInit
<1>1. work \in Workloads /\ \A j \in Jobs : work[j].items \in Nat
  BY DEF BatchConstants
<1>2. NoRow \in BatchRow /\ NoRow.done = 0 /\ NoRow.failed = 0 /\ NoRow.status = "none"
  BY DEF NoRow, BatchRow
<1>3. NoWorkflow \in WorkflowState
  BY DEF NoWorkflow, WorkflowState
<1>4. /\ rows \in [Jobs -> BatchRow] /\ workflows \in [Jobs -> WorkflowState]
      /\ \A j \in Jobs : rows[j] = NoRow /\ workflows[j] = NoWorkflow
  BY <1>2, <1>3
<1>5. BatchTypeOK
  <2>1. \A j \in Jobs : rows[j].done + rows[j].failed <= work[j].items
    BY <1>1, <1>2, <1>4
  <2>2. mishaps \in 0 .. MaxMishaps
    BY DEF BatchConstants
  <2> QED BY <1>1, <1>4, <2>1, <2>2 DEF BatchTypeOK
<1>6. ASSUME NEW j \in Jobs PROVE WorkflowFits(j) /\ CompletionFits(j)
  BY <1>1, <1>2, <1>4 DEF WorkflowFits, CompletionFits, NoWorkflow
<1> QED BY <1>5, <1>6 DEF BatchInv

LEMMA BatchStep == BatchConstants /\ BatchInv /\ [BatchNext]_batchVars => BatchInv'
<1> SUFFICES ASSUME BatchConstants, BatchInv, [BatchNext]_batchVars PROVE BatchInv'
  OBVIOUS
<1>1. CASE UNCHANGED batchVars
  <2>1. BatchTypeOK'
    BY <1>1 DEF batchVars, BatchInv, BatchTypeOK
  <2>2. ASSUME NEW k \in Jobs PROVE WorkflowFits(k)' /\ CompletionFits(k)'
    <3>1. BatchTypeOK /\ WorkflowFits(k) /\ CompletionFits(k)
      BY DEF BatchInv
    <3>2. work' = work /\ workflows' = workflows /\ calls' = calls /\ rows' = rows
      BY <1>1 DEF batchVars
    <3> QED BY <3>1, <3>2, FitsKept
  <2> QED BY <2>1, <2>2 DEF BatchInv
<1>2. ASSUME NEW j \in Jobs, WorkflowStep(j) \/ CrashWorkflow(j) PROVE BatchInv'
  BY <1>2, StartFits, FinalMovesFit, VerdictFits, ReportFits, AllProcessedFits, ItemFits,
     CrashFits DEF WorkflowStep
<1> QED BY <1>1, <1>2, CallStepFits, OutsideFits DEF BatchNext

\* Rows and workflows fit together, for every number of jobs and items and any
\* number of mishaps: no row counts more items than its job has, and a completed
\* job had nothing to do or has outcomes of all its items, less than half of them
\* bad, and counts that its workflow has had.
THEOREM BatchInvariant == BatchSpec => []BatchInv
  BY BatchStart, BatchStep, BatchConstants, PTL DEF BatchSpec

\* A job that shows as completed had nothing to do or was worked off to its last
\* item, less than half of the items in vain, and its row counts the first items
\* of them, whichever reports, verdicts and workflow executions were lost.
THEOREM CompletedWasWorkedOff == BatchSpec => []CompletedIsMostlyDone
<1>1. BatchInv => CompletedIsMostlyDone
  <2> SUFFICES ASSUME BatchInv, NEW j \in Jobs, rows[j].status = "completed"
               PROVE  \/ work[j].items = 0
                      \/ Succeeded(j) /\ \E n \in 0 .. work[j].items : Tallied(j, n)
    BY DEF CompletedIsMostlyDone
  <2>1. CompletionFits(j)
    BY DEF BatchInv
  <2> QED BY <2>1 DEF CompletionFits
<1> QED BY <1>1, BatchInvariant, PTL
=============================================================================
