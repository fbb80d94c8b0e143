------------------------- MODULE ContentScanProofs -------------------------
(* Theorems about ContentScan, for any finite set of batches and any bounds. *)
EXTENDS ContentScan, FiniteSetTheorems, TLAPS

-----------------------------------------------------------------------------
(* Types. *)

\* What the orchestrator's state becomes.
LEMMA OrchTypes ==
  ASSUME NEW o \in OrchState
  PROVE  /\ \A pc \in {"none", "queued", "firstTx", "loop", "waitTx", "waitBatch", "finalize",
                       "publish", "clear", "abort", "ended", "error"} :
              [o EXCEPT !.pc = pc] \in OrchState
         /\ \A n \in Totals : [o EXCEPT !.tx = TRUE, !.expected = n] \in OrchState
         /\ \A f \in BOOLEAN : \A pc \in {"waitTx", "waitBatch"} :
              [o EXCEPT !.first = f, !.pc = pc] \in OrchState
         /\ o.polls < MaxPolls => [o EXCEPT !.pc = "loop", !.polls = @ + 1] \in OrchState
         /\ \A r \in Result :
              [o EXCEPT !.pc = "loop", !.batches = TRUE, !.processed = @ + r.processed,
                        !.skipped = @ + r.skipped, !.errors = @ + r.errors] \in OrchState
<1>1. \A pc \in {"none", "queued", "firstTx", "loop", "waitTx", "waitBatch", "finalize",
                 "publish", "clear", "abort", "ended", "error"} :
        [o EXCEPT !.pc = pc] \in OrchState
  BY Zenon DEF OrchState
<1>2. \A n \in Totals : [o EXCEPT !.tx = TRUE, !.expected = n] \in OrchState
  BY Zenon DEF OrchState
<1>3. ASSUME NEW f \in BOOLEAN, NEW pc \in {"waitTx", "waitBatch"}
      PROVE  [o EXCEPT !.first = f, !.pc = pc] \in OrchState
  BY Zenon DEF OrchState
<1>4. ASSUME NEW n \in 0 .. MaxPolls PROVE [o EXCEPT !.pc = "loop", !.polls = n] \in OrchState
  BY Zenon DEF OrchState
<1>5. o.polls < MaxPolls => o.polls + 1 \in 0 .. MaxPolls
  BY ScanConstants DEF OrchState
<1>6. ASSUME NEW i \in Nat, NEW j \in Nat, NEW k \in Nat
      PROVE  [o EXCEPT !.pc = "loop", !.batches = TRUE, !.processed = i, !.skipped = j,
                       !.errors = k] \in OrchState
  BY Zenon DEF OrchState
<1>7. \A r \in Result : /\ o.processed + r.processed \in Nat
                        /\ o.skipped + r.skipped \in Nat /\ o.errors + r.errors \in Nat
  BY DEF OrchState, Result
<1> QED
  BY <1>1, <1>2, <1>3, <1>4, <1>5, <1>6, <1>7

\* What the bot's state becomes.
LEMMA BotTypes ==
  ASSUME NEW b \in Bot
  PROVE  /\ \A pc \in {"waiting", "sending", "done"} : [b EXCEPT !.pc = pc] \in Bot
         /\ \A u \in SUBSET Batches : [b EXCEPT !.unsent = u] \in Bot
         /\ b.unsent \subseteq Batches /\ b.total \in Totals
  BY DEF Bot

\* What a run becomes.
LEMMA RunTypes ==
  ASSUME runs \in [RunIds -> Run], \A x \in RunIds : runs[x].count + runs[x].skipped <= 1,
         NEW x \in RunIds, NEW r \in Run, r.count + r.skipped <= 1, RunTo(x, r)
  PROVE  /\ runs' \in [RunIds -> Run] /\ runs'[x] = r
         /\ \A y \in RunIds \ {x} : runs'[y] = runs[y]
         /\ \A y \in RunIds : runs'[y].count + runs'[y].skipped <= 1
<1>1. /\ runs' \in [RunIds -> Run] /\ runs'[x] = r
      /\ \A y \in RunIds \ {x} : runs'[y] = runs[y]
  BY DEF RunTo
<1> QED
  BY <1>1

\* Totals are numbers, and a positive one is that of all batches.
LEMMA TotalTypes ==
  /\ Cardinality(Batches) \in Nat
  /\ Totals \subseteq Nat
  /\ \A n \in Totals : n > 0 => n = Cardinality(Batches)
  /\ \A found \in {{}, Batches} : Cardinality(found) \in Totals
  /\ \A n : <<"total", n>> \in Event => n \in Totals
<1>1. Cardinality(Batches) \in Nat /\ Cardinality({}) = 0
  BY ScanConstants, FS_CardinalityType, FS_EmptySet
<1>2. \A n : <<"total", n>> \in Event => n \in Totals
  BY DEF Event
<1> QED
  BY <1>1, <1>2 DEF Totals

\* The mail of a topic, received and sent.
LEMMA MailTypes ==
  ASSUME NEW S, NEW mail \in Seq(S)
  PROVE  /\ mail # <<>> => Head(mail) \in S /\ Tail(mail) \in Seq(S)
         /\ \A m \in S : Append(mail, m) \in Seq(S)
  OBVIOUS

\* A run that only moves on, possibly after a failure.
LEMMA RunMoves ==
  ASSUME runs \in [RunIds -> Run], \A x \in RunIds : runs[x].count + runs[x].skipped <= 1,
         NEW x \in RunIds,
         NEW pc \in {"none", "start", "review", "persist", "append", "finish",
                     "send", "ended"},
         NEW e \in {0, 1},
         runs' = [runs EXCEPT ![x] = [runs[x] EXCEPT !.pc = pc, !.errors = e]]
  PROVE  /\ runs' \in [RunIds -> Run]
         /\ runs'[x].pc = pc /\ runs'[x].errors = e
         /\ runs'[x].count = runs[x].count /\ runs'[x].skipped = runs[x].skipped
         /\ runs'[x].passed = runs[x].passed
         /\ \A y \in RunIds \ {x} : runs'[y] = runs[y]
         /\ \A y \in RunIds : runs'[y].count + runs'[y].skipped <= 1
<1> DEFINE r == [runs[x] EXCEPT !.pc = pc, !.errors = e]
<1>1. runs[x] \in Run /\ runs[x].count + runs[x].skipped <= 1
  OBVIOUS
<1>0. r \in Run
  BY Zenon, <1>1 DEF Run
<1>2. /\ r \in Run /\ r.pc = pc /\ r.errors = e
      /\ r.count = runs[x].count /\ r.skipped = runs[x].skipped
      /\ r.passed = runs[x].passed
  BY <1>0, <1>1 DEF Run
<1>3. RunTo(x, r)
  BY DEF RunTo
<1> HIDE DEF r
<1>4. r.count + r.skipped <= 1
  BY <1>1, <1>2
<1> QED
  BY <1>2, <1>3, <1>4, RunTypes

LEMMA RunPcMoves ==
  ASSUME runs \in [RunIds -> Run], \A x \in RunIds : runs[x].count + runs[x].skipped <= 1,
         NEW x \in RunIds,
         NEW pc \in {"none", "start", "review", "persist", "append", "finish",
                     "send", "ended"},
         RunPc(x, pc)
  PROVE  /\ runs' \in [RunIds -> Run]
         /\ runs'[x].pc = pc /\ runs'[x].errors = runs[x].errors
         /\ runs'[x].count = runs[x].count /\ runs'[x].skipped = runs[x].skipped
         /\ runs'[x].passed = runs[x].passed
         /\ \A y \in RunIds \ {x} : runs'[y] = runs[y]
         /\ \A y \in RunIds : runs'[y].count + runs'[y].skipped <= 1
<1>1. runs[x] \in Run
  OBVIOUS
<1>2. /\ [runs[x] EXCEPT !.pc = pc] = [runs[x] EXCEPT !.pc = pc, !.errors = runs[x].errors]
      /\ runs[x].errors \in {0, 1}
  BY <1>1 DEF Run
<1>3. runs' = [runs EXCEPT ![x] = [runs[x] EXCEPT !.pc = pc, !.errors = runs[x].errors]]
  BY <1>2 DEF RunPc, RunTo
<1> QED
  BY <1>2, <1>3, RunMoves

\* A run whose review passed the message, or is executed again.
LEMMA RunPasses ==
  ASSUME runs \in [RunIds -> Run], \A x \in RunIds : runs[x].count + runs[x].skipped <= 1,
         NEW x \in RunIds, NEW pc \in {"review", "persist"}, NEW passed \in BOOLEAN,
         RunTo(x, [runs[x] EXCEPT !.pc = pc, !.passed = passed])
  PROVE  /\ runs' \in [RunIds -> Run]
         /\ runs'[x].pc = pc /\ runs'[x].passed = passed /\ runs'[x].errors = runs[x].errors
         /\ runs'[x].count = runs[x].count /\ runs'[x].skipped = runs[x].skipped
         /\ \A y \in RunIds \ {x} : runs'[y] = runs[y]
         /\ \A y \in RunIds : runs'[y].count + runs'[y].skipped <= 1
<1> DEFINE r == [runs[x] EXCEPT !.pc = pc, !.passed = passed]
<1>1. runs[x] \in Run /\ runs[x].count + runs[x].skipped <= 1
  OBVIOUS
<1>2. r \in Run
  BY Zenon, <1>1 DEF Run
<1>3. /\ r.pc = pc /\ r.passed = passed /\ r.errors = runs[x].errors
      /\ r.count = runs[x].count /\ r.skipped = runs[x].skipped
  BY <1>1 DEF Run
<1>4. RunTo(x, r)
  OBVIOUS
<1> HIDE DEF r
<1>5. r.count + r.skipped <= 1
  BY <1>1, <1>3
<1> QED
  BY <1>2, <1>3, <1>4, <1>5, RunTypes

\* The redelivered run of an event is the second one.
LEMMA UnusedRun ==
  ASSUME NEW b \in Batches,
         NEW unused, unused = {x \in RunIds : x[1] = b /\ runs[x].pc = "none"}, unused # {}
  PROVE  (CHOOSE x \in unused : \A y \in unused : x[2] <= y[2]) \in unused
<1>1. \E x \in unused : \A y \in unused : x[2] <= y[2]
  <2>1. \A x \in unused : x = <<b, 1>> \/ x = <<b, 2>>
    BY DEF RunIds
  <2> QED
    BY <2>1
<1> QED
  BY <1>1

-----------------------------------------------------------------------------
(* What a batch workflow does to its run. *)

\* Runs move forward: one that is used stays used, one that has ended or has
\* skipped its message keeps what it counted.
RunsKept ==
  \A x \in RunIds :
    /\ runs[x].pc # "none" => runs'[x].pc # "none"
    /\ runs[x].pc = "ended" => runs'[x] = runs[x]
    /\ runs[x].skipped = 1 => runs'[x].skipped = 1

\* A step of the run x, and of nothing else that a run keeps.
RunMoved(x) ==
  /\ runs' \in [RunIds -> Run]
  /\ \A y \in RunIds : runs'[y].count + runs'[y].skipped <= 1
  /\ \A y \in RunIds \ {x} : runs'[y] = runs[y]
  /\ runs[x].pc \notin {"none", "ended"} /\ runs'[x].pc # "none"
  /\ runs[x].skipped = 1 => runs'[x].skipped = 1

\* The flagged list grows by what has an action, and the actions only grow.
ListsGrow ==
  /\ flagged \subseteq flagged' /\ flagged' \subseteq flagged \cup actions
  /\ actions \subseteq actions' /\ actions' \subseteq Batches
  /\ recorded' \in BOOLEAN

\* What a run has found inactive stays so while it moves.
LEMMA InactiveStays ==
  ASSUME latch => Closed, Inactive, SameScan
  PROVE  scan'.status \in Terminal \/ Closed'
  BY DEF Inactive, SameScan, Closed

\* What a run becomes in one step, and what the step adds.
LEMMA BatchStepRuns ==
  ASSUME ScanTypeOK, latch => Closed, NEW x \in RunIds, RunProgress(x),
         BatchStep(x) \/ CrashInReview(x)
  PROVE  /\ RunMoved(x) /\ ListsGrow /\ RunProgress(x)'
         /\ ~SendBatchComplete(x) => batchMail' = batchMail
<1> USE DEF ScanTypeOK
<1>1. /\ runs \in [RunIds -> Run] /\ runs[x] \in Run /\ x[1] \in Batches
      /\ \A y \in RunIds : runs[y].count + runs[y].skipped <= 1
      /\ runs[x].errors \in {0, 1} /\ runs[x].skipped \in {0, 1} /\ runs[x].count \in {0, 1}
      /\ runs[x].pc \in {"none", "start", "review", "persist", "append", "finish",
                     "send", "ended"}
  BY DEF Run, RunIds
<1>0. MayAppend(x) => flagged \subseteq flagged' /\ flagged' \subseteq flagged \cup actions
  BY DEF MayAppend, RunAt, RunProgress
<1>2. CASE Preprocess(x)
  <2>1. SameScan /\ UNCHANGED <<flagged, recorded, actions, batchMail>>
        /\ runs[x].pc = "start"
    BY <1>2 DEF Preprocess, RunAt
  <2>2. ListsGrow
    BY <2>1 DEF ListsGrow
  <2>3. CASE RunPc(x, "ended")
    BY <1>1, <2>1, <2>2, <2>3, RunPcMoves DEF RunMoved, RunProgress
  <2>4. ASSUME NEW skipped \in {0, 1}, NEW r,
               r = [pc |-> IF skipped = 1 THEN "finish" ELSE "review",
                    count |-> 1 - skipped, skipped |-> skipped, errors |-> 0,
                    passed |-> FALSE], RunTo(x, r)
        PROVE  RunMoved(x) /\ RunProgress(x)'
    <3>1. r \in Run /\ r.count + r.skipped <= 1
      BY <2>4 DEF Run
    <3>2. /\ runs' \in [RunIds -> Run] /\ runs'[x] = r
          /\ \A y \in RunIds \ {x} : runs'[y] = runs[y]
          /\ \A y \in RunIds : runs'[y].count + runs'[y].skipped <= 1
      BY <1>1, <2>4, <3>1, RunTypes
    <3> QED
      BY <2>1, <2>4, <3>2 DEF RunMoved, RunProgress, Reviewed
  <2>5. CASE RunTo(x, [runs[x] EXCEPT !.pc = "finish", !.errors = 1])
    <3>1. runs' = [runs EXCEPT ![x] = [runs[x] EXCEPT !.pc = "finish", !.errors = 1]]
      BY <2>5 DEF RunTo
    <3>2. RunMoved(x) /\ runs'[x].pc = "finish" /\ runs'[x].errors = 1
      BY <1>1, <2>1, <3>1, RunMoves DEF RunMoved
    <3> QED
      BY <2>1, <2>2, <3>2 DEF RunProgress, Reviewed
  <2> QED
    BY <1>2, <2>1, <2>2, <2>3, <2>4, <2>5 DEF Preprocess, BatchStep
<1>3. CASE Review(x)
  <2>1. SameScan /\ UNCHANGED <<flagged, recorded, batchMail>>
        /\ runs[x].pc = "review" /\ (actions' = actions \/ actions' = actions \cup {x[1]})
    BY <1>3 DEF Review, RunAt
  <2>2. ListsGrow
    BY <1>1, <2>1 DEF ListsGrow
  <2>3. CASE Inactive /\ RunPc(x, "finish")
    <3>1. RunMoved(x) /\ runs'[x].pc = "finish"
      BY <1>1, <2>1, <2>3, RunPcMoves DEF RunMoved
    <3> QED
      BY <2>1, <2>2, <2>3, <3>1, InactiveStays DEF RunProgress
  <2>4. CASE RunPc(x, "persist") /\ actions' = actions \cup {x[1]}
    <3>1. /\ RunMoved(x) /\ runs'[x].pc = "persist"
          /\ runs'[x].errors = runs[x].errors /\ runs'[x].skipped = runs[x].skipped
      BY <1>1, <2>1, <2>4, RunPcMoves DEF RunMoved
    <3>2. runs[x].errors = 0 /\ runs[x].skipped = 0
      BY <2>1 DEF RunProgress
    <3> QED
      BY <2>1, <2>2, <2>4, <3>1, <3>2 DEF RunProgress
  <2>5. CASE RunTo(x, [runs[x] EXCEPT !.pc = "finish", !.errors = 1])
    <3>1. runs' = [runs EXCEPT ![x] = [runs[x] EXCEPT !.pc = "finish", !.errors = 1]]
      BY <2>5 DEF RunTo
    <3>2. RunMoved(x) /\ runs'[x].pc = "finish" /\ runs'[x].errors = 1
      BY <1>1, <2>1, <3>1, RunMoves DEF RunMoved
    <3> QED
      BY <2>1, <2>2, <3>2 DEF RunProgress, Reviewed
  <2>6. CASE RunTo(x, [runs[x] EXCEPT !.pc = "persist", !.passed = TRUE])
    <3>1. /\ RunMoved(x) /\ runs'[x].pc = "persist" /\ runs'[x].passed = TRUE
          /\ runs'[x].errors = runs[x].errors /\ runs'[x].skipped = runs[x].skipped
      BY <1>1, <2>1, <2>6, RunPasses DEF RunMoved
    <3>2. runs[x].errors = 0 /\ runs[x].skipped = 0
      BY <2>1 DEF RunProgress
    <3> QED
      BY <2>1, <2>2, <3>1, <3>2 DEF RunProgress
  <2> QED
    BY <1>3, <2>1, <2>2, <2>3, <2>4, <2>5, <2>6 DEF Review
<1>5. CASE CheckPersist(x)
  <2> DEFINE pc == IF Inactive \/ runs[x].passed THEN "finish" ELSE "append"
  <2>1. /\ pc \in {"finish", "append"} /\ RunPc(x, pc)
        /\ pc = "finish" => Inactive \/ runs[x].passed
        /\ pc = "append" => ~runs[x].passed
    BY <1>5 DEF CheckPersist
  <2> HIDE DEF pc
  <2>2. /\ RunMoved(x) /\ runs'[x].pc = pc /\ runs'[x].passed = runs[x].passed
        /\ runs'[x].errors = runs[x].errors /\ runs'[x].skipped = runs[x].skipped
    BY <1>1, <1>5, <2>1, RunPcMoves DEF CheckPersist, RunAt, RunMoved
  <2>3. SameScan /\ UNCHANGED <<flagged, recorded, actions, batchMail>>
        /\ runs[x].pc = "persist"
    BY <1>5 DEF CheckPersist, RunAt
  <2>4. ListsGrow
    BY <2>3 DEF ListsGrow
  <2>5. CASE pc = "finish"
    <3>1. Reviewed(x)' \/ scan'.status \in Terminal \/ Closed'
      BY <2>1, <2>2, <2>3, <2>5, InactiveStays DEF Reviewed
    <3> QED
      BY <2>2, <2>3, <2>4, <2>5, <3>1 DEF RunProgress
  <2>6. CASE pc = "append"
    BY <2>1, <2>2, <2>3, <2>4, <2>6 DEF RunProgress
  <2> QED
    BY <2>1, <2>2, <2>3, <2>4, <2>5, <2>6
<1>6. CASE AppendFlagged(x)
  <2>1. RunMoved(x)
    BY <1>1, <1>6, RunPcMoves DEF AppendFlagged, RunAt, RunMoved
  <2>2. ListsGrow
    BY <1>1, <1>6 DEF AppendFlagged, ListsGrow, SameScan, RunAt, RunProgress
  <2>3. RunProgress(x)'
    BY <1>1, <1>6, RunPcMoves DEF AppendFlagged, RunAt, RunProgress, Reviewed
  <2> QED
    BY <1>6, <2>1, <2>2, <2>3 DEF AppendFlagged
<1>7. CASE ReviewFails(x)
  <2>1. SameScan /\ UNCHANGED <<actions, batchMail>> /\ MayAppend(x)
        /\ runs[x].pc \in {"review", "persist", "append"} /\ (recorded' = recorded \/ recorded' = TRUE)
    BY <1>7 DEF ReviewFails
  <2>2. ListsGrow
    BY <1>1, <2>1, <1>0 DEF ListsGrow
  <2>3. CASE Inactive /\ RunPc(x, "finish")
    <3>1. RunMoved(x) /\ runs'[x].pc = "finish"
      BY <1>1, <2>1, <2>3, RunPcMoves DEF RunMoved
    <3> QED
      BY <2>1, <2>2, <2>3, <3>1, InactiveStays DEF RunProgress
  <2>4. CASE RunTo(x, [runs[x] EXCEPT !.pc = "finish", !.errors = @ + 1])
    <3>1. runs[x].errors = 0
      BY <2>1 DEF RunProgress
    <3>2. runs' = [runs EXCEPT ![x] = [runs[x] EXCEPT !.pc = "finish", !.errors = 1]]
      BY <2>4, <3>1 DEF RunTo
    <3>3. RunMoved(x) /\ runs'[x].pc = "finish" /\ runs'[x].errors = 1
      BY <1>1, <2>1, <3>2, RunMoves DEF RunMoved
    <3> QED
      BY <2>1, <2>2, <3>3 DEF RunProgress, Reviewed
  <2> QED
    BY <1>7, <2>1, <2>2, <2>3, <2>4 DEF ReviewFails
<1>8. CASE CheckFinish(x)
  <2> DEFINE pc == IF Inactive THEN "ended" ELSE "send"
  <2>1. pc \in {"ended", "send"} /\ RunPc(x, pc) /\ (pc = "send" => ~Inactive)
    BY <1>8 DEF CheckFinish
  <2> HIDE DEF pc
  <2>2. /\ RunMoved(x) /\ runs'[x].pc = pc /\ runs'[x].passed = runs[x].passed
        /\ runs'[x].errors = runs[x].errors /\ runs'[x].skipped = runs[x].skipped
    BY <1>1, <1>8, <2>1, RunPcMoves DEF CheckFinish, RunAt, RunMoved
  <2>3. SameScan /\ UNCHANGED <<flagged, recorded, actions, batchMail>>
        /\ runs[x].pc = "finish"
    BY <1>8 DEF CheckFinish, RunAt
  <2>4. RunProgress(x)'
    BY <2>1, <2>2, <2>3 DEF RunProgress, Inactive, SameScan, Closed, Reviewed
  <2>5. ListsGrow
    BY <2>3 DEF ListsGrow
  <2> QED
    BY <2>2, <2>3, <2>4, <2>5
<1>9. CASE SendBatchComplete(x)
  <2>1. RunMoved(x)
    BY <1>1, <1>9, RunPcMoves DEF SendBatchComplete, RunAt, RunMoved
  <2>2. ListsGrow
    BY <1>1, <1>9 DEF SendBatchComplete, ListsGrow, SameScan
  <2>3. RunProgress(x)'
    BY <1>1, <1>9, RunPcMoves DEF SendBatchComplete, RunAt, RunProgress
  <2> QED
    BY <1>9, <2>1, <2>2, <2>3
<1>10. CASE CrashInReview(x)
  <2>1. /\ runs[x].pc \in {"persist", "append"} /\ MayAppend(x)
        /\ RunTo(x, [runs[x] EXCEPT !.pc = "review", !.passed = FALSE])
        /\ SameScan /\ UNCHANGED <<recorded, actions, batchMail>>
    BY <1>10 DEF CrashInReview
  <2>2. /\ RunMoved(x) /\ runs'[x].pc = "review"
        /\ runs'[x].errors = runs[x].errors /\ runs'[x].skipped = runs[x].skipped
    BY <1>1, <2>1, RunPasses DEF RunMoved
  <2>3. ListsGrow
    BY <1>0, <1>1, <2>1 DEF ListsGrow
  <2>4. RunProgress(x)'
    BY <2>1, <2>2 DEF RunProgress
  <2> QED
    BY <2>1, <2>2, <2>3, <2>4
<1> QED
  BY <1>2, <1>3, <1>5, <1>6, <1>7, <1>8, <1>9, <1>10 DEF BatchStep

\* Handling an event gives a run that was not used a first place to be.
LEMMA HandleBatchRuns ==
  ASSUME ScanTypeOK, \A x \in RunIds : RunProgress(x), NEW b \in Batches, HandleBatch(b)
  PROVE  /\ UNCHANGED <<scan, latch, flagged, recorded, actions, bot, orch,
                        txMail, batchMail>>
         /\ events' \subseteq events
         /\ runs' \in [RunIds -> Run]
         /\ \A y \in RunIds : runs'[y].count + runs'[y].skipped <= 1
         /\ RunsKept
         /\ \A y \in RunIds : RunProgress(y)'
<1> USE DEF ScanTypeOK
<1>1. /\ UNCHANGED <<scan, latch, flagged, recorded, actions, bot, orch,
                     txMail, batchMail>>
      /\ events' \subseteq events
  BY DEF HandleBatch, Acknowledge, NotAcknowledged
<1>2. PICK z \in RunIds : /\ runs[z].pc = "none"
                          /\ runs' = runs \/ runs' = [runs EXCEPT ![z].pc = "start"]
  <2> DEFINE unused == {x \in RunIds : x[1] = b /\ runs[x].pc = "none"}
             y == CHOOSE x \in unused : \A u \in unused : x[2] <= u[2]
  <2>1. unused # {} /\ (runs' = runs \/ runs' = [runs EXCEPT ![y].pc = "start"])
    BY DEF HandleBatch
  <2>2. y \in unused
    BY <2>1, UnusedRun
  <2> QED
    BY <2>1, <2>2
<1>3. z \in RunIds /\ runs[z].pc = "none" /\ RunProgress(z)
  BY <1>2
<1>4. CASE runs' = runs
  BY <1>1, <1>4 DEF RunsKept, RunProgress, Reviewed, Closed
<1>5. CASE runs' = [runs EXCEPT ![z].pc = "start"]
  <2>1. RunPc(z, "start")
    BY <1>3, <1>5 DEF RunPc, RunTo
  <2>2. /\ runs' \in [RunIds -> Run]
        /\ runs'[z].pc = "start" /\ runs'[z].errors = runs[z].errors
        /\ runs'[z].count = runs[z].count /\ runs'[z].skipped = runs[z].skipped
        /\ \A y \in RunIds \ {z} : runs'[y] = runs[y]
        /\ \A y \in RunIds : runs'[y].count + runs'[y].skipped <= 1
    BY <1>3, <2>1, RunPcMoves
  <2>3. RunsKept
    BY <1>3, <2>2 DEF RunsKept
  <2>4. RunProgress(z)'
    BY <1>3, <2>2 DEF RunProgress
  <2>5. ASSUME NEW y \in RunIds \ {z} PROVE RunProgress(y)'
    BY <1>1, <2>2, <2>5 DEF RunProgress, Reviewed, Closed
  <2> QED
    BY <1>1, <2>2, <2>3, <2>4, <2>5
<1> QED
  BY <1>1, <1>2, <1>4, <1>5

-----------------------------------------------------------------------------
(* What the other steps do to the record, the latch and the orchestrator. *)

Reported == orch.pc \in {"publish", "clear", "ended"}

\* The steps of all but the batch workflows and their handler.
OtherStep ==
  \/ Dispatch \/ PublishTotal \/ (\E b \in Batches : PublishBatch(b))
  \/ HandleZeroTotal \/ (\E n \in 1 .. Cardinality(Batches) : HandleTotal(n))
  \/ (\E e \in events : LoseEvent(e)) \/ AcquireGate \/ Orchestrator

\* The batch workflows see nothing of them.
LEMMA OtherKeeps ==
  ASSUME OtherStep
  PROVE  UNCHANGED <<flagged, recorded, actions, runs>>
<1> USE DEF SameOutside, SameBatches
<1>1. CASE Dispatch \/ PublishTotal \/ (\E b \in Batches : PublishBatch(b))
  BY <1>1 DEF Dispatch, PublishTotal, PublishBatch
<1>2. CASE HandleZeroTotal \/ (\E n \in 1 .. Cardinality(Batches) : HandleTotal(n))
  BY <1>2 DEF HandleZeroTotal, HandleTotal
<1>3. CASE (\E e \in events : LoseEvent(e)) \/ AcquireGate
  BY <1>3 DEF LoseEvent, AcquireGate
<1>4. CASE Orchestrator
  BY <1>4 DEF Orchestrator, ReceiveFirstTx, ReceiveLateTx, ReceiveTx, WallClockExceeded, LoopHead,
              ReceiveBatch, PollAgain, StopWaiting, CompleteScan, PublishResults, ClearFinalizing
<1> QED
  BY <1>1, <1>2, <1>3, <1>4 DEF OtherStep

\* The orchestrator's own move: what it holds when it stops counting, it keeps.
Counts(o) == <<o.processed, o.skipped, o.errors>>

\* The record and the orchestrator keep together.
ScanKept ==
  /\ scan \in Record /\ bot \in Bot /\ orch \in OrchState /\ latch \in BOOLEAN
  /\ events \subseteq Event
  /\ txMail \in Seq({Cardinality(Batches)}) /\ batchMail \in Seq(Result)
  /\ latch => Closed
  /\ orch.tx => orch.expected = Cardinality(Batches)
  /\ bot.pc = "waiting" => orch.pc = "none" /\ scan.status = "pending" /\ events = {}
  /\ Reported => scan.status \in Terminal

\* What a step other than a receipt of a batch may do to the counts.
Quiet ==
  /\ Closed => Closed'
  /\ Closed => orch'.tx = orch.tx
  /\ scan.status \in Terminal =>
       scan'.status \in Terminal /\ (scan' = scan \/ OrchAt("finalize"))
  /\ ~ReceiveBatch => Counts(orch') = Counts(orch) /\ batchMail' = batchMail
  /\ Reported' => CompleteScan \/ (Reported /\ scan' = scan)

LEMMA BotSteps ==
  ASSUME ScanKept, Dispatch \/ PublishTotal \/ (\E b \in Batches : PublishBatch(b))
  PROVE  ScanKept' /\ Quiet
<1> USE DEF ScanKept
<1>1. CASE Dispatch
  <2>0. bot.pc = "waiting" /\ orch \in OrchState /\ bot \in Bot
    BY <1>1 DEF Dispatch
  <2>o. PICK pc \in {"none", "queued"} : orch' = [orch EXCEPT !.pc = pc]
    BY <1>1 DEF Dispatch
  <2>b. PICK q \in {"sending", "done"} : bot' = [bot EXCEPT !.pc = q]
    BY <1>1 DEF Dispatch
  <2>1. /\ orch' \in OrchState /\ orch'.pc \in {"none", "queued"}
        /\ orch'.tx = orch.tx /\ orch'.expected = orch.expected /\ Counts(orch') = Counts(orch)
        /\ orch.pc = "none"
    <3>1. orch' \in OrchState
      BY <2>0, <2>o, OrchTypes
    <3>2. orch'.pc = pc /\ orch'.tx = orch.tx /\ orch'.expected = orch.expected
          /\ Counts(orch') = Counts(orch)
      BY <2>0, <2>o DEF OrchState, Counts
    <3> QED
      BY <2>0, <3>1, <3>2
  <2>2. bot' \in Bot /\ bot'.pc # "waiting"
    <3>1. bot' \in Bot
      BY <2>0, <2>b, BotTypes
    <3>2. bot'.pc = q
      BY <2>0, <2>b DEF Bot
    <3> QED
      BY <3>1, <3>2
  <2>3. scan' \in Record /\ (scan' = scan \/ scan'.status = "failed")
    BY <1>1 DEF Dispatch, Record, Terminal
  <2>4. UNCHANGED <<latch, events, txMail, batchMail>>
    BY <1>1 DEF Dispatch
  <2>5. ScanKept'
    BY <2>1, <2>2, <2>3, <2>4 DEF Closed, Reported
  <2>6. Quiet
    BY <2>0, <2>1, <2>3, <2>4 DEF Quiet, Closed, Reported, Terminal
  <2> QED
    BY <2>5, <2>6
<1>2. CASE PublishTotal \/ (\E b \in Batches : PublishBatch(b))
  <2>1. UNCHANGED <<scan, latch, orch, txMail, batchMail>>
    BY <1>2 DEF PublishTotal, PublishBatch
  <2>2. bot' \in Bot /\ bot'.pc # "waiting"
    <3>1. CASE PublishTotal
      <4>1. bot' = [bot EXCEPT !.pc = "done"]
        BY <3>1 DEF PublishTotal
      <4>2. bot' \in Bot
        BY <4>1, BotTypes
      <4>3. bot'.pc = "done"
        BY <4>1 DEF Bot
      <4> QED
        BY <4>2, <4>3
    <3>2. ASSUME NEW b \in Batches, PublishBatch(b)
          PROVE  bot' \in Bot /\ bot'.pc # "waiting"
      <4>1. bot' = [bot EXCEPT !.unsent = @ \ {b}] /\ bot.pc = "sending"
        BY <3>2 DEF PublishBatch
      <4>2. bot.unsent \ {b} \in SUBSET Batches
        BY BotTypes
      <4>3. bot' \in Bot
        BY <4>1, <4>2, BotTypes
      <4>4. bot'.pc = "sending"
        BY <4>1 DEF Bot
      <4> QED
        BY <4>3, <4>4
    <3> QED
      BY <1>2, <3>1, <3>2
  <2>3. events' \subseteq Event
    <3>1. bot.total \in Totals /\ bot.unsent \subseteq Batches
      BY BotTypes
    <3>2. <<"total", bot.total>> \in Event /\ \A b \in Batches : <<"batch", b>> \in Event
      BY <3>1 DEF Event
    <3> QED
      BY <1>2, <3>1, <3>2 DEF PublishTotal, PublishBatch
  <2>4. ScanKept'
    BY <2>1, <2>2, <2>3 DEF Closed, Reported
  <2>5. Quiet
    BY <2>1 DEF Quiet, Closed, Reported
  <2> QED
    BY <2>4, <2>5
<1> QED
  BY <1>1, <1>2

LEMMA HandlerSteps ==
  ASSUME ScanKept,
         \/ HandleZeroTotal \/ (\E n \in 1 .. Cardinality(Batches) : HandleTotal(n))
         \/ \E e \in events : LoseEvent(e)
  PROVE  ScanKept' /\ Quiet
<1> USE DEF ScanKept
<1>1. /\ UNCHANGED <<latch, bot, orch, batchMail>>
      /\ events' \subseteq events
  BY DEF HandleZeroTotal, HandleTotal, LoseEvent, Acknowledge, NotAcknowledged
<1>2. scan' \in Record /\ (scan.status \in Terminal => scan' = scan)
  <2>1. CASE HandleZeroTotal
    BY <2>1 DEF HandleZeroTotal, Record, Terminal, Totals
  <2>2. ASSUME NEW n \in 1 .. Cardinality(Batches), HandleTotal(n) PROVE <1>2
    <3>1. n \in Totals
      BY <2>2, TotalTypes DEF HandleTotal
    <3> QED
      BY <2>2, <3>1 DEF HandleTotal, HandOff, Record, Terminal
  <2>3. CASE \E e \in events : LoseEvent(e)
    BY <2>3 DEF LoseEvent
  <2> QED
    BY <2>1, <2>2, <2>3
<1>b. bot.pc # "waiting"
  BY DEF HandleZeroTotal, HandleTotal
<1>3. txMail' \in Seq({Cardinality(Batches)})
  <2>1. ASSUME NEW n \in 1 .. Cardinality(Batches), HandleTotal(n) PROVE <1>3
    <3>1. n = Cardinality(Batches)
      BY <2>1, TotalTypes DEF HandleTotal
    <3> QED
      BY <2>1, <3>1, MailTypes DEF HandleTotal
  <2> QED
    BY <2>1 DEF HandleZeroTotal, LoseEvent
<1>4. ScanKept'
  BY <1>1, <1>2, <1>3, <1>b DEF Closed, Reported
<1>5. Quiet
  BY <1>1, <1>2 DEF Quiet, Closed, Reported
<1> QED
  BY <1>4, <1>5

LEMMA GateSteps ==
  ASSUME ScanKept, AcquireGate
  PROVE  ScanKept' /\ Quiet
<1> USE DEF ScanKept
<1>1. /\ UNCHANGED <<latch, bot, events, txMail, batchMail>> /\ orch.pc = "queued"
      /\ \E pc \in {"firstTx", "error"} : orch' = [orch EXCEPT !.pc = pc]
  BY DEF AcquireGate, OrchAt, Orch, SameOutside
<1>2. orch' \in OrchState
  BY <1>1, OrchTypes
<1>3. /\ orch'.pc \in {"firstTx", "error"} /\ orch'.tx = orch.tx
      /\ orch'.expected = orch.expected /\ Counts(orch') = Counts(orch)
  BY <1>1 DEF OrchState, Counts
<1>4. scan' \in Record /\ (scan.status \in Terminal => scan' = scan)
  BY DEF AcquireGate, Record, Terminal
<1>5. ScanKept'
  BY <1>1, <1>2, <1>3, <1>4 DEF Closed, Reported
<1>6. Quiet
  BY <1>1, <1>3, <1>4 DEF Quiet, Closed, Reported
<1> QED
  BY <1>5, <1>6

\* The orchestrator waits: it moves on, learns the total, or ends its loop.
LEMMA WaitSteps ==
  ASSUME ScanKept,
         orch'.pc \in {"loop", "waitTx", "waitBatch", "finalize"},
         orch.pc \in {"firstTx", "loop", "waitTx", "waitBatch"},
         UNCHANGED <<scan, bot, events>>,
         orch' \in OrchState,
         latch' = latch \/ (orch'.pc = "finalize" /\ latch' = TRUE),
         \/ txMail' = txMail /\ orch'.tx = orch.tx /\ orch'.expected = orch.expected
         \/ /\ txMail # <<>> /\ txMail' = Tail(txMail)
            /\ orch'.tx = TRUE /\ orch'.expected = Head(txMail),
         ReceiveBatch \/ (Counts(orch') = Counts(orch) /\ batchMail' = batchMail),
         batchMail' \in Seq(Result)
  PROVE  ScanKept' /\ Quiet
<1> USE DEF ScanKept
<1>1. /\ txMail' \in Seq({Cardinality(Batches)})
      /\ orch'.tx => orch'.expected = Cardinality(Batches)
  <2>1. txMail # <<>> => /\ Head(txMail) = Cardinality(Batches)
                         /\ Tail(txMail) \in Seq({Cardinality(Batches)})
    OBVIOUS
  <2> QED
    BY <2>1
<1>2. ~Closed /\ ~latch /\ ~Reported /\ ~Reported' /\ bot.pc # "waiting"
  BY DEF Closed, Reported
<1>3. latch' \in BOOLEAN /\ (latch' => Closed')
  <2>1. CASE latch' = latch
    BY <1>2, <2>1
  <2>2. CASE orch'.pc = "finalize" /\ latch' = TRUE
    BY <2>2 DEF Closed
  <2> QED
    BY <2>1, <2>2
<1>4. ScanKept'
  BY <1>1, <1>2, <1>3
<1>5. Quiet
  BY <1>2 DEF Quiet
<1> QED
  BY <1>4, <1>5

\* Learning the total, then moving on.
LEMMA LearnsTotal ==
  ASSUME orch \in OrchState, txMail \in Seq({Cardinality(Batches)}), txMail # <<>>
  PROVE  /\ WithTx \in OrchState /\ WithTx.pc = orch.pc
         /\ WithTx.tx = TRUE /\ WithTx.expected = Head(txMail) /\ Counts(WithTx) = Counts(orch)
<1>1. Head(txMail) \in Totals
  BY MailTypes DEF Totals
<1>2. WithTx \in OrchState
  BY <1>1, OrchTypes DEF WithTx
<1> QED
  BY <1>2 DEF WithTx, OrchState, Counts

LEMMA ReceiveTxSteps ==
  ASSUME ScanKept, ReceiveFirstTx \/ ReceiveLateTx
  PROVE  ScanKept' /\ Quiet
<1> USE DEF ScanKept
<1>1. /\ UNCHANGED <<scan, latch, bot, events, batchMail>>
      /\ orch.pc \in {"firstTx", "waitTx"}
  BY DEF ReceiveFirstTx, ReceiveLateTx, ReceiveTx, OrchAt, SameOutside
<1>2. CASE txMail # <<>> /\ txMail' = Tail(txMail) /\ orch' = [WithTx EXCEPT !.pc = "loop"]
  <2>1. orch' \in OrchState
    BY <1>2, LearnsTotal, OrchTypes
  <2>2. /\ orch'.pc = "loop" /\ orch'.tx = TRUE /\ orch'.expected = Head(txMail)
        /\ Counts(orch') = Counts(orch)
    BY <1>2, LearnsTotal DEF OrchState, Counts
  <2> QED
    BY <1>1, <1>2, <2>1, <2>2, WaitSteps
<1>3. CASE txMail' = txMail /\ \E pc \in {"loop", "waitBatch"} : orch' = [orch EXCEPT !.pc = pc]
  <2>1. orch' \in OrchState
    BY <1>3, OrchTypes
  <2>2. /\ orch'.pc \in {"loop", "waitBatch"} /\ orch'.tx = orch.tx
        /\ orch'.expected = orch.expected /\ Counts(orch') = Counts(orch)
    BY <1>3 DEF OrchState, Counts
  <2> QED
    BY <1>1, <1>3, <2>1, <2>2, WaitSteps
<1> QED
  BY <1>2, <1>3 DEF ReceiveFirstTx, ReceiveLateTx, ReceiveTx, Orch

LEMMA LoopSteps ==
  ASSUME ScanKept, LoopHead
  PROVE  ScanKept' /\ Quiet
<1> USE DEF ScanKept
<1> DEFINE look == ~orch.tx /\ orch.batches /\ txMail # <<>>
           o == IF look THEN WithTx ELSE orch
           first == ~o.tx /\ ~o.batches
<1>1. /\ UNCHANGED <<scan, bot, events, batchMail>> /\ orch.pc = "loop"
      /\ txMail' = IF look THEN Tail(txMail) ELSE txMail
      /\ \/ orch' = [o EXCEPT !.pc = "finalize"] /\ latch' = TRUE
         \/ /\ orch' = [o EXCEPT !.first = first,
                                 !.pc = IF first THEN "waitTx" ELSE "waitBatch"]
            /\ latch' = latch
  BY DEF LoopHead, OrchAt, SameOutside, EndLoop, Orch
<1>2. /\ o \in OrchState /\ Counts(o) = Counts(orch)
      /\ \/ txMail' = txMail /\ o.tx = orch.tx /\ o.expected = orch.expected
         \/ /\ txMail # <<>> /\ txMail' = Tail(txMail)
            /\ o.tx = TRUE /\ o.expected = Head(txMail)
  BY <1>1, LearnsTotal
<1>3. first \in BOOLEAN
  OBVIOUS
<1> HIDE DEF look, o, first
<1>4. orch' \in OrchState
  BY <1>1, <1>2, <1>3, OrchTypes
<1>5. /\ \/ orch'.pc = "finalize" /\ latch' = TRUE
         \/ orch'.pc \in {"waitTx", "waitBatch"} /\ latch' = latch
      /\ orch'.tx = o.tx /\ orch'.expected = o.expected /\ Counts(orch') = Counts(o)
  BY <1>1, <1>2 DEF OrchState, Counts
<1> QED
  BY <1>1, <1>2, <1>4, <1>5, WaitSteps

LEMMA BatchReceipt ==
  ASSUME ScanKept, ReceiveBatch
  PROVE  /\ ScanKept' /\ Quiet
         /\ ~Closed /\ batchMail # <<>> /\ batchMail' = Tail(batchMail)
         /\ orch'.processed = orch.processed + Head(batchMail).processed
         /\ orch'.skipped = orch.skipped + Head(batchMail).skipped
         /\ orch'.errors = orch.errors + Head(batchMail).errors
<1> USE DEF ScanKept
<1>1. /\ UNCHANGED <<scan, latch, bot, events, txMail>> /\ orch.pc = "waitBatch"
      /\ batchMail # <<>> /\ batchMail' = Tail(batchMail)
      /\ orch' = [orch EXCEPT !.pc = "loop", !.batches = TRUE,
                              !.processed = @ + Head(batchMail).processed,
                              !.skipped = @ + Head(batchMail).skipped,
                              !.errors = @ + Head(batchMail).errors]
  BY DEF ReceiveBatch, OrchAt, SameOutside, Orch
<1>2. Head(batchMail) \in Result /\ batchMail' \in Seq(Result)
  BY <1>1, MailTypes
<1>3. orch' \in OrchState
  BY <1>1, <1>2, OrchTypes
<1>4. /\ orch'.pc = "loop" /\ orch'.tx = orch.tx /\ orch'.expected = orch.expected
      /\ orch'.processed = orch.processed + Head(batchMail).processed
      /\ orch'.skipped = orch.skipped + Head(batchMail).skipped
      /\ orch'.errors = orch.errors + Head(batchMail).errors
  BY <1>1 DEF OrchState
<1>5. ~Closed
  BY <1>1 DEF Closed
<1>6. ScanKept' /\ Quiet
  BY <1>1, <1>2, <1>3, <1>4, WaitSteps
<1> QED
  BY <1>1, <1>4, <1>5, <1>6

LEMMA PollSteps ==
  ASSUME ScanKept, WallClockExceeded \/ PollAgain \/ StopWaiting
  PROVE  ScanKept' /\ Quiet
<1> USE DEF ScanKept
<1>1. /\ UNCHANGED <<scan, bot, events, txMail, batchMail>>
      /\ orch.pc \in {"loop", "waitBatch"}
  BY DEF WallClockExceeded, PollAgain, StopWaiting, OrchAt, SameOutside
<1>2. CASE latch' = latch /\ orch.polls < MaxPolls
           /\ orch' = [orch EXCEPT !.pc = "loop", !.polls = @ + 1]
  <2>1. orch' \in OrchState
    BY <1>2, OrchTypes
  <2>2. /\ orch'.pc = "loop" /\ orch'.tx = orch.tx
        /\ orch'.expected = orch.expected /\ Counts(orch') = Counts(orch)
    BY <1>2 DEF OrchState, Counts
  <2> QED
    BY <1>1, <1>2, <2>1, <2>2, WaitSteps
<1>3. CASE latch' = TRUE /\ orch' = [orch EXCEPT !.pc = "finalize"]
  <2>1. orch' \in OrchState
    BY <1>3, OrchTypes
  <2>2. /\ orch'.pc = "finalize" /\ orch'.tx = orch.tx
        /\ orch'.expected = orch.expected /\ Counts(orch') = Counts(orch)
    BY <1>3 DEF OrchState, Counts
  <2> QED
    BY <1>1, <1>3, <2>1, <2>2, WaitSteps
<1> QED
  BY <1>2, <1>3 DEF WallClockExceeded, PollAgain, StopWaiting, EndLoop, Orch

\* The orchestrator finalizes; only CompleteScan writes the record.
LEMMA FinalSteps ==
  ASSUME ScanKept, flagged \subseteq Batches, CompleteScan \/ PublishResults \/ ClearFinalizing
  PROVE  ScanKept' /\ Quiet /\ orch'.errors = orch.errors
<1> USE DEF ScanKept
<1>1. /\ UNCHANGED <<bot, events, txMail, batchMail>> /\ Closed
      /\ \E pc \in {"publish", "abort", "clear", "finalize", "ended", "error"} :
           orch' = [orch EXCEPT !.pc = pc]
  BY DEF CompleteScan, PublishResults, ClearFinalizing, OrchAt, Orch, SameOutside, Closed
<1>2. orch' \in OrchState
  BY <1>1, OrchTypes
<1>3. /\ orch'.pc \in {"publish", "abort", "clear", "finalize", "ended", "error"}
      /\ orch'.tx = orch.tx /\ orch'.expected = orch.expected
      /\ Counts(orch') = Counts(orch) /\ orch'.errors = orch.errors
  BY <1>1 DEF OrchState, Counts
<1>4. scan' \in Record /\ latch' \in BOOLEAN
  <2>1. CASE CompleteScan
    <3>1. ScanStatus \in Terminal /\ orch.expected \in Totals
      BY DEF ScanStatus, Terminal, OrchState
    <3> QED
      BY <2>1, <3>1 DEF CompleteScan, Record
  <2>2. CASE PublishResults \/ ClearFinalizing
    BY <2>2 DEF PublishResults, ClearFinalizing
  <2> QED
    BY <2>1, <2>2
<1>5. /\ scan.status \in Terminal =>
           scan'.status \in Terminal /\ (scan' = scan \/ OrchAt("finalize"))
      /\ Reported' => scan'.status \in Terminal /\ (CompleteScan \/ (Reported /\ scan' = scan))
  <2>1. CASE CompleteScan
    <3>1. ScanStatus \in Terminal
      BY DEF ScanStatus, Terminal
    <3>2. CASE scan' = scan /\ orch' = [orch EXCEPT !.pc = "abort"]
      BY <3>2 DEF Reported, OrchState
    <3>3. CASE scan' = [status |-> ScanStatus, scanned |-> orch.expected, report |-> flagged]
      BY <2>1, <3>1, <3>3 DEF CompleteScan
    <3> QED
      BY <2>1, <3>2, <3>3 DEF CompleteScan, Orch
  <2>2. CASE PublishResults
    <3>1. scan' = scan /\ Reported
      BY <2>2 DEF PublishResults, OrchAt, Reported
    <3> QED
      BY <3>1
  <2>3. CASE ClearFinalizing
    <3>1. CASE orch.pc = "clear"
      BY <2>3, <3>1 DEF ClearFinalizing, Reported
    <3>2. CASE orch.pc = "abort"
      BY <2>3, <3>2 DEF ClearFinalizing, Reported, Orch, OrchState
    <3> QED
      BY <2>3, <3>1, <3>2 DEF ClearFinalizing
  <2> QED
    BY <2>1, <2>2, <2>3
<1>6. Closed'
  BY <1>3 DEF Closed
<1>7. bot'.pc # "waiting"
  BY <1>1 DEF Closed
<1>8. ScanKept'
  BY <1>1, <1>2, <1>3, <1>4, <1>5, <1>6, <1>7
<1>9. Quiet
  BY <1>1, <1>3, <1>5, <1>6 DEF Quiet
<1> QED
  BY <1>3, <1>8, <1>9

LEMMA OtherSteps ==
  ASSUME ScanKept, flagged \subseteq Batches, OtherStep
  PROVE  ScanKept' /\ Quiet
  BY BotSteps, HandlerSteps, GateSteps, ReceiveTxSteps, LoopSteps, BatchReceipt, PollSteps,
     FinalSteps DEF OtherStep, Orchestrator

-----------------------------------------------------------------------------
(* The tally. *)

\* Runs that have ended, as the lists grow.
LEMMA EndedKept ==
  ASSUME RunsKept, flagged \subseteq flagged', NEW b \in Batches,
         runs[<<b, 1>>].pc = "ended"
  PROVE  /\ runs'[<<b, 1>>] = runs[<<b, 1>>]
         /\ Reviewed(<<b, 1>>) => Reviewed(<<b, 1>>)'
<1>1. <<b, 1>> \in RunIds
  BY DEF RunIds
<1>2. \A x \in RunIds : runs[x].pc = "ended" => runs'[x] = runs[x]
  BY DEF RunsKept
<1>3. runs'[<<b, 1>>] = runs[<<b, 1>>]
  BY Zenon, <1>1, <1>2
<1> QED
  BY <1>3 DEF Reviewed

\* The tally outlasts every step that neither sends nor receives.
LEMMA TallyKept ==
  ASSUME RunsKept, flagged \subseteq flagged', Closed => Closed',
         Counts(orch') = Counts(orch), batchMail' = batchMail,
         Counted
  PROVE  Counted'
<1>1. PICK received \in SUBSET Batches, source \in [1 .. Len(batchMail) -> Batches] :
        Tally(received, source)
  BY DEF Counted
<1>2. /\ orch'.processed = orch.processed /\ orch'.skipped = orch.skipped
      /\ orch'.errors = orch.errors
  BY DEF Counts
<1>3. (orch'.processed + orch'.skipped) <= Cardinality(received)
  BY <1>1, <1>2 DEF Tally
<1>4. ASSUME NEW b \in received
      PROVE  /\ runs'[<<b, 1>>].pc = "ended" /\ Reviewed(<<b, 1>>)'
             /\ orch'.errors = 0 => runs'[<<b, 1>>].errors = 0
  BY <1>1, <1>2, EndedKept DEF Tally
<1>5. ASSUME NEW i \in 1 .. Len(batchMail)
      PROVE  /\ source[i] \notin received
             /\ \A j \in 1 .. Len(batchMail) : j # i => source[j] # source[i]
             /\ runs'[<<source[i], 1>>].pc = "ended"
             /\ Reviewed(<<source[i], 1>>)' \/ Closed'
             /\ batchMail[i] = [processed |-> runs'[<<source[i], 1>>].count,
                                skipped |-> runs'[<<source[i], 1>>].skipped,
                                errors |-> runs'[<<source[i], 1>>].errors]
  <2>1. source[i] \in Batches /\ runs[<<source[i], 1>>].pc = "ended"
    BY <1>1 DEF Tally
  <2>2. /\ runs'[<<source[i], 1>>] = runs[<<source[i], 1>>]
        /\ Reviewed(<<source[i], 1>>) => Reviewed(<<source[i], 1>>)'
    BY <2>1, EndedKept
  <2> QED
    BY <1>1, <2>2 DEF Tally
<1>6. Tally(received, source)'
  BY <1>3, <1>4, <1>5 DEF Tally
<1> QED
  BY <1>1, <1>6 DEF Counted

\* A result that a run sends comes from a run not yet in the tally.
LEMMA TallySends ==
  ASSUME ScanTypeOK, ~Redelivered, Counted, NEW x \in RunIds, RunProgress(x),
         SendBatchComplete(x)
  PROVE  Counted'
<1> USE DEF ScanTypeOK
<1>1. PICK received \in SUBSET Batches, source \in [1 .. Len(batchMail) -> Batches] :
        Tally(received, source)
  BY DEF Counted
<1>2. /\ SameScan /\ UNCHANGED flagged /\ runs[x].pc = "send"
      /\ runs' = [runs EXCEPT ![x] = [runs[x] EXCEPT !.pc = "ended"]]
      /\ batchMail' = Append(batchMail, [processed |-> runs[x].count,
                          skipped |-> runs[x].skipped, errors |-> runs[x].errors])
  BY DEF SendBatchComplete, RunAt, RunPc, RunTo
<1>3. PICK b \in Batches : x = <<b, 1>>
  <2>1. PICK b \in Batches, k \in {1, 2} : x = <<b, k>>
    BY DEF RunIds
  <2>2. k # 2
    BY <1>2, <2>1 DEF Redelivered
  <2> QED
    BY <2>1, <2>2
<1>4. /\ runs'[x].pc = "ended" /\ runs'[x].count = runs[x].count
      /\ runs'[x].skipped = runs[x].skipped /\ runs'[x].errors = runs[x].errors
      /\ \A y \in RunIds \ {x} : runs'[y] = runs[y]
  BY <1>2, RunPcMoves DEF RunPc, RunTo
<1>5. Reviewed(x)' \/ Closed'
  BY <1>2, <1>4 DEF RunProgress, SameScan, Closed, Reviewed
<1>6. ASSUME NEW d \in Batches, runs[<<d, 1>>].pc = "ended"
      PROVE  d # b /\ runs'[<<d, 1>>] = runs[<<d, 1>>]
  <2>1. d # b
    BY <1>2, <1>3, <1>6
  <2>2. <<d, 1>> \in RunIds \ {x}
    BY <1>3, <2>1 DEF RunIds
  <2> QED
    BY <1>4, <2>1, <2>2
<1> DEFINE n == Len(batchMail)
<1>7. /\ n \in Nat /\ Len(batchMail') = n + 1
      /\ \A i \in 1 .. n : batchMail'[i] = batchMail[i]
      /\ batchMail'[n + 1] = [processed |-> runs[x].count,
                              skipped |-> runs[x].skipped, errors |-> runs[x].errors]
  BY <1>2
<1>8. PICK sender \in [1 .. n + 1 -> Batches] :
         /\ sender[n + 1] = b
         /\ \A i \in 1 .. n : sender[i] = source[i] /\ i \in 1 .. n + 1 /\ i # n + 1
         /\ \A i \in 1 .. n + 1 : i \in 1 .. n \/ i = n + 1
  <2> DEFINE s == [i \in 1 .. n + 1 |-> IF i = n + 1 THEN b ELSE source[i]]
  <2>1. /\ s \in [1 .. n + 1 -> Batches] /\ s[n + 1] = b
        /\ \A i \in 1 .. n : s[i] = source[i] /\ i \in 1 .. n + 1 /\ i # n + 1
        /\ \A i \in 1 .. n + 1 : i \in 1 .. n \/ i = n + 1
    BY <1>7
  <2> QED
    BY <2>1
<1> HIDE DEF n
<1>9. ASSUME NEW d \in received
      PROVE  /\ d # b /\ runs'[<<d, 1>>].pc = "ended" /\ Reviewed(<<d, 1>>)'
             /\ orch'.errors = 0 => runs'[<<d, 1>>].errors = 0
  <2>1. /\ runs[<<d, 1>>].pc = "ended" /\ Reviewed(<<d, 1>>)
        /\ orch.errors = 0 => runs[<<d, 1>>].errors = 0
    BY <1>1 DEF Tally
  <2> QED
    BY <1>2, <1>6, <2>1 DEF Reviewed, SameScan
<1>10. ASSUME NEW i \in 1 .. n
       PROVE  /\ source[i] # b /\ source[i] \notin received
              /\ \A j \in 1 .. n : j # i => source[j] # source[i]
              /\ runs'[<<source[i], 1>>].pc = "ended"
              /\ Reviewed(<<source[i], 1>>)' \/ Closed'
              /\ batchMail'[i] = [processed |-> runs'[<<source[i], 1>>].count,
                                  skipped |-> runs'[<<source[i], 1>>].skipped,
                                  errors |-> runs'[<<source[i], 1>>].errors]
  <2>1. /\ source[i] \in Batches /\ runs[<<source[i], 1>>].pc = "ended"
        /\ source[i] \notin received
        /\ \A j \in 1 .. n : j # i => source[j] # source[i]
        /\ Reviewed(<<source[i], 1>>) \/ Closed
        /\ batchMail[i] = [processed |-> runs[<<source[i], 1>>].count,
                           skipped |-> runs[<<source[i], 1>>].skipped,
                           errors |-> runs[<<source[i], 1>>].errors]
    BY <1>1 DEF Tally, n
  <2>2. source[i] # b /\ runs'[<<source[i], 1>>] = runs[<<source[i], 1>>]
    BY <1>6, <2>1
  <2> QED
    BY <1>2, <1>7, <2>1, <2>2 DEF Reviewed, SameScan, Closed
<1>11. ASSUME NEW i \in 1 .. n + 1
       PROVE  /\ sender[i] \notin received
              /\ runs'[<<sender[i], 1>>].pc = "ended"
              /\ Reviewed(<<sender[i], 1>>)' \/ Closed'
              /\ batchMail'[i] = [processed |-> runs'[<<sender[i], 1>>].count,
                                  skipped |-> runs'[<<sender[i], 1>>].skipped,
                                  errors |-> runs'[<<sender[i], 1>>].errors]
  <2>1. CASE i \in 1 .. n
    <3>1. sender[i] = source[i]
      BY <1>8, <2>1
    <3> QED
      BY <1>10, <2>1, <3>1
  <2>2. CASE i = n + 1
    <3>1. b \notin received /\ sender[i] = b /\ <<sender[i], 1>> = x
      BY <1>3, <1>8, <1>9, <2>2
    <3> QED
      BY <1>4, <1>5, <1>7, <2>2, <3>1
  <2> QED
    BY <1>8, <2>1, <2>2
<1>14. ASSUME NEW i \in 1 .. n + 1, NEW j \in 1 .. n + 1, j # i PROVE sender[j] # sender[i]
  <2>1. CASE i \in 1 .. n /\ j \in 1 .. n
    BY <1>8, <1>10, <1>14, <2>1
  <2>2. CASE i \in 1 .. n /\ j = n + 1
    BY <1>8, <1>10, <2>2
  <2>3. CASE i = n + 1 /\ j \in 1 .. n
    BY <1>8, <1>10, <2>3
  <2> QED
    BY <1>8, <1>14, <2>1, <2>2, <2>3
<1>12. (orch'.processed + orch'.skipped) <= Cardinality(received)
  BY <1>1, <1>2 DEF Tally, SameScan
<1>13. Tally(received, sender)'
  BY <1>7, <1>9, <1>11, <1>12, <1>14 DEF Tally
<1> QED
  BY <1>7, <1>8, <1>13 DEF Counted

\* The orchestrator takes the first result from its topic into the tally.
LEMMA TallyReceives ==
  ASSUME ScanTypeOK, Counted, ReceiveBatch, UNCHANGED <<runs, flagged>>,
         ~Closed, batchMail # <<>>, batchMail' = Tail(batchMail),
         orch'.processed = orch.processed + Head(batchMail).processed,
         orch'.skipped = orch.skipped + Head(batchMail).skipped,
         orch'.errors = orch.errors + Head(batchMail).errors
  PROVE  Counted'
<1> USE DEF ScanTypeOK
<1>1. PICK received \in SUBSET Batches, source \in [1 .. Len(batchMail) -> Batches] :
        Tally(received, source)
  BY DEF Counted
<1> DEFINE n == Len(batchMail)
           counted == received \cup {source[1]}
           rest == [i \in 1 .. n - 1 |-> source[i + 1]]
           r == runs[<<source[1], 1>>]
<1>2. /\ n \in Nat \ {0} /\ 1 \in 1 .. n /\ source[1] \in Batches
      /\ Len(batchMail') = n - 1 /\ Head(batchMail) = batchMail[1]
      /\ \A i \in 1 .. n - 1 : batchMail'[i] = batchMail[i + 1] /\ i + 1 \in 1 .. n /\ i + 1 # 1
  OBVIOUS
<1>3. /\ rest \in [1 .. n - 1 -> Batches]
      /\ \A i \in 1 .. n - 1 : rest[i] = source[i + 1]
  BY <1>2
<1>4. /\ source[1] \notin received /\ r.pc = "ended" /\ Reviewed(<<source[1], 1>>)
      /\ Head(batchMail) = [processed |-> r.count, skipped |-> r.skipped, errors |-> r.errors]
  BY <1>1, <1>2 DEF Tally
<1>5. /\ orch'.processed = orch.processed + r.count
      /\ orch'.skipped = orch.skipped + r.skipped
      /\ orch'.errors = orch.errors + r.errors
  BY <1>4
<1>6. <<source[1], 1>> \in RunIds
  BY <1>2 DEF RunIds
<1>7. /\ r.count \in Nat /\ r.skipped \in Nat /\ r.errors \in Nat /\ r.count + r.skipped <= 1
  BY <1>6 DEF Run
<1>8. /\ orch.processed \in Nat /\ orch.skipped \in Nat /\ orch.errors \in Nat
  BY DEF OrchState
<1> HIDE DEF n, rest, r
<1>9. /\ IsFiniteSet(received) /\ counted \subseteq Batches
      /\ Cardinality(counted) = Cardinality(received) + 1
      /\ Cardinality(received) \in Nat
  <2>1. IsFiniteSet(received)
    BY ScanConstants, FS_Subset
  <2>2. Cardinality(counted) = Cardinality(received) + 1
    BY <1>4, <2>1, FS_AddElement
  <2> QED
    BY <1>2, <2>1, <2>2, FS_CardinalityType
<1>10. (orch'.processed + orch'.skipped) <= Cardinality(counted)
  <2>1. orch.processed + orch.skipped <= Cardinality(received)
    BY <1>1 DEF Tally
  <2> HIDE DEF counted
  <2> QED
    BY <1>5, <1>7, <1>8, <1>9, <2>1
<1>11. ASSUME NEW d \in counted
       PROVE  /\ runs[<<d, 1>>].pc = "ended" /\ Reviewed(<<d, 1>>)
              /\ orch'.errors = 0 => runs[<<d, 1>>].errors = 0
  <2>1. CASE d \in received
    <3>1. /\ runs[<<d, 1>>].pc = "ended" /\ Reviewed(<<d, 1>>)
          /\ orch.errors = 0 => runs[<<d, 1>>].errors = 0
      BY <1>1, <2>1 DEF Tally
    <3>2. orch'.errors = 0 => orch.errors = 0
      BY <1>5, <1>7, <1>8
    <3> QED
      BY <3>1, <3>2
  <2>2. CASE d = source[1]
    <3>1. orch'.errors = 0 => r.errors = 0
      BY <1>5, <1>7, <1>8
    <3> QED
      BY <1>4, <2>2, <3>1 DEF r
  <2> QED
    BY <2>1, <2>2
<1>12. ASSUME NEW i \in 1 .. n - 1
       PROVE  /\ rest[i] \notin counted
              /\ \A j \in 1 .. n - 1 : j # i => rest[j] # rest[i]
              /\ runs[<<rest[i], 1>>].pc = "ended" /\ Reviewed(<<rest[i], 1>>)
              /\ batchMail'[i] = [processed |-> runs[<<rest[i], 1>>].count,
                                  skipped |-> runs[<<rest[i], 1>>].skipped,
                                  errors |-> runs[<<rest[i], 1>>].errors]
  <2>1. /\ i + 1 \in 1 .. n /\ i + 1 # 1 /\ rest[i] = source[i + 1]
        /\ \A j \in 1 .. n - 1 : /\ j + 1 \in 1 .. n /\ rest[j] = source[j + 1]
                                 /\ j # i => j + 1 # i + 1
    BY <1>2, <1>3
  <2>2. /\ source[i + 1] \notin received
        /\ \A j \in 1 .. n : j # i + 1 => source[j] # source[i + 1]
        /\ runs[<<source[i + 1], 1>>].pc = "ended" /\ Reviewed(<<source[i + 1], 1>>)
        /\ batchMail[i + 1] = [processed |-> runs[<<source[i + 1], 1>>].count,
                               skipped |-> runs[<<source[i + 1], 1>>].skipped,
                               errors |-> runs[<<source[i + 1], 1>>].errors]
    BY <1>1, <2>1 DEF Tally, n
  <2>3. rest[i] # source[1]
    BY <1>2, <1>4, <2>1, <2>2
  <2>4. \A j \in 1 .. n - 1 : j # i => rest[j] # rest[i]
    BY <2>1, <2>2
  <2>5. batchMail'[i] = batchMail[i + 1]
    BY <1>2
  <2> QED
    BY <2>1, <2>2, <2>3, <2>4, <2>5
<1>13. \A d : Reviewed(<<d, 1>>)' <=> Reviewed(<<d, 1>>)
  BY DEF Reviewed
<1>14. ASSUME NEW X \in SUBSET Batches, NEW S \in [1 .. n - 1 -> Batches], X = counted, S = rest
       PROVE  Tally(X, S)'
  BY <1>2, <1>10, <1>11, <1>12, <1>13, <1>14 DEF Tally
<1> QED
  BY <1>2, <1>3, <1>9, <1>14 DEF Counted

-----------------------------------------------------------------------------
(* The report. *)

\* A scan whose orchestrator completes it with a known total and no error has
\* every batch in its tally: each one has ended, and flagged, passed or skipped
\* its message.
LEMMA CompleteReport ==
  ASSUME ScanTypeOK, orch.tx => orch.expected = Cardinality(Batches), Counted,
         ScanStatus = "completed", orch.tx, orch.errors = 0
  PROVE  /\ flagged \cup Skipped \cup Passed = Batches
         /\ \A b \in Batches : runs[<<b, 1>>].pc = "ended"
<1> USE DEF ScanTypeOK
<1>1. PICK received \in SUBSET Batches, source \in [1 .. Len(batchMail) -> Batches] :
        Tally(received, source)
  BY DEF Counted
<1>2. /\ orch.processed \in Nat /\ orch.skipped \in Nat /\ orch.errors = 0
      /\ orch.expected = Cardinality(Batches)
      /\ orch.processed + orch.skipped <= Cardinality(received)
  BY <1>1 DEF OrchState, Tally
<1>3. /\ Cardinality(Batches) \in Nat /\ Cardinality(received) \in Nat
      /\ Cardinality(received) <= Cardinality(Batches)
      /\ Cardinality(received) = Cardinality(Batches) => received = Batches
  <2>1. /\ IsFiniteSet(received) /\ Cardinality(received) <= Cardinality(Batches)
        /\ Cardinality(received) = Cardinality(Batches) => received = Batches
    BY ScanConstants, FS_Subset
  <2> QED
    BY <2>1, ScanConstants, FS_CardinalityType
<1>4. ~Incomplete
  BY DEF ScanStatus
<1>5. Cardinality(received) = Cardinality(Batches)
  BY <1>2, <1>3, <1>4 DEF Incomplete, Accounted
<1>6. ASSUME NEW b \in Batches PROVE  b \in flagged \cup Skipped \cup Passed /\ runs[<<b, 1>>].pc = "ended"
  <2>1. /\ Reviewed(<<b, 1>>) /\ runs[<<b, 1>>].errors = 0
        /\ runs[<<b, 1>>].pc = "ended"
    BY <1>1, <1>2, <1>3, <1>5 DEF Tally
  <2> QED
    BY <2>1 DEF Reviewed, Skipped, Passed
<1> QED
  BY <1>6 DEF Skipped, Passed

\* The report stays whole in every step that leaves the record as it is.
LEMMA ReportKept ==
  ASSUME ScanTypeOK, ScanTypeOK', CleanReport, RunsKept, flagged \subseteq flagged', Reported, scan' = scan,
         Closed => orch'.tx = orch.tx, orch'.errors = orch.errors
  PROVE  CleanReport'
<1> USE DEF ScanTypeOK
<1>1. orch'.tx = orch.tx
  BY DEF Closed, Reported
<1>2. ASSUME NEW b \in Batches PROVE <<b, 1>> \in RunIds /\ <<b, 2>> \in RunIds
  BY DEF RunIds
<1>3. ~Redelivered' => ~Redelivered
  BY <1>2 DEF Redelivered, RunsKept
<1>4. CleanlyCompleted' => CleanlyCompleted
  BY <1>1, <1>3 DEF CleanlyCompleted, Reported
<1>5. ASSUME CleanlyCompleted, NEW b \in Batches
      PROVE  runs'[<<b, 1>>] = runs[<<b, 1>>] /\ runs[<<b, 1>>].pc = "ended"
  <2>1. runs[<<b, 1>>].pc = "ended"
    BY <1>5 DEF CleanReport
  <2> QED
    BY <1>2, <2>1, EndedKept
<1>6. CleanlyCompleted => Skipped' = Skipped /\ Passed' = Passed
  BY <1>5 DEF Skipped, Passed
<1> QED
  BY <1>4, <1>5, <1>6 DEF CleanReport

-----------------------------------------------------------------------------
(* The invariant. *)

LEMMA ScanStart == ScanInit => ScanInv
<1> SUFFICES ASSUME ScanInit PROVE ScanInv
  OBVIOUS
<1> USE DEF ScanInit
<1>1. PICK found \in {{}, Batches} :
        bot = [pc |-> "waiting", unsent |-> found, total |-> Cardinality(found)]
  OBVIOUS
<1>2. bot \in Bot /\ 0 \in Totals
  BY <1>1, TotalTypes DEF Bot, Totals
<1>3. scan \in Record /\ orch \in OrchState
  BY <1>2, ScanConstants DEF Record, OrchState
<1>4. NoRun \in Run /\ NoRun.count + NoRun.skipped <= 1
  BY DEF NoRun, Run
<1>5. \A x \in RunIds : runs[x] = NoRun
  OBVIOUS
<1>6. ScanTypeOK
  <2>1. runs \in [RunIds -> Run] /\ \A x \in RunIds : runs[x].count + runs[x].skipped <= 1
    BY <1>4, <1>5
  <2>2. txMail \in Seq({Cardinality(Batches)}) /\ batchMail \in Seq(Result)
    OBVIOUS
  <2> QED
    BY <1>2, <1>3, <2>1, <2>2 DEF ScanTypeOK
<1>7. \A x \in RunIds : RunProgress(x)
  BY <1>5 DEF RunProgress, NoRun
<1>8. Counted
  <2>1. Cardinality({}) = 0
    BY FS_EmptySet
  <2>2. orch.processed = 0 /\ orch.skipped = 0 /\ Len(batchMail) = 0
    OBVIOUS
  <2>3. [i \in 1 .. 0 |-> i] \in [1 .. 0 -> Batches]
    OBVIOUS
  <2>4. ASSUME NEW source \in [1 .. 0 -> Batches] PROVE Tally({}, source)
    BY <2>1, <2>2 DEF Tally
  <2> QED
    BY <2>2, <2>3, <2>4 DEF Counted
<1>9. CleanReport
  BY DEF CleanReport, CleanlyCompleted
<1> QED
  BY <1>6, <1>7, <1>8, <1>9 DEF ScanInv

LEMMA ScanStep == ScanInv /\ [ScanNext]_scanVars => ScanInv'
<1> SUFFICES ASSUME ScanInv, [ScanNext]_scanVars PROVE ScanInv'
  OBVIOUS
<1>1. ScanTypeOK /\ ScanKept /\ flagged \subseteq Batches
  BY DEF ScanInv, ScanTypeOK, ScanKept, Reported
<1>2. /\ flagged \subseteq actions /\ CleanReport /\ \A x \in RunIds : RunProgress(x)
      /\ latch => Closed
      /\ ~Redelivered => Counted
      /\ Reported => scan.status \in Terminal
      /\ orch.tx => orch.expected = Cardinality(Batches)
  BY DEF ScanInv, Reported
<1>3. ASSUME NEW b \in Batches, HandleBatch(b) PROVE ScanInv'
  <2>1. /\ UNCHANGED <<scan, latch, flagged, recorded, actions, bot, orch,
                       txMail, batchMail>>
        /\ events' \subseteq events /\ runs' \in [RunIds -> Run]
        /\ \A y \in RunIds : runs'[y].count + runs'[y].skipped <= 1
        /\ RunsKept /\ \A y \in RunIds : RunProgress(y)'
    BY <1>1, <1>2, <1>3, HandleBatchRuns
  <2>2. ScanTypeOK'
    BY <1>1, <2>1 DEF ScanTypeOK
  <2>3. ~Redelivered' => Counted'
    <3>1. ~Redelivered' => ~Redelivered
      BY <2>1 DEF Redelivered, RunsKept, RunIds
    <3>2. Counted => Counted'
      BY <2>1, TallyKept DEF Closed, Counts
    <3> QED
      BY <1>2, <3>1, <3>2
  <2>4. CleanReport'
    <3>1. CASE Reported
      BY <1>1, <1>2, <2>1, <2>2, <3>1, ReportKept
    <3>2. CASE ~Reported
      BY <2>1, <3>2 DEF CleanReport, CleanlyCompleted, Reported
    <3> QED
      BY <3>1, <3>2
  <2>5. flagged' \subseteq actions'
    BY <1>2, <2>1
  <2>6. ScanKept'
    BY <1>1, <2>1 DEF ScanKept, Closed, Reported
  <2> QED
    BY <2>1, <2>2, <2>3, <2>4, <2>5, <2>6 DEF ScanInv, ScanKept, Reported
<1>4. ASSUME NEW x \in RunIds, BatchStep(x) \/ CrashInReview(x) PROVE ScanInv'
  <2>1. /\ RunMoved(x) /\ ListsGrow /\ RunProgress(x)'
        /\ ~SendBatchComplete(x) => batchMail' = batchMail
    BY <1>1, <1>2, <1>4, BatchStepRuns
  <2>2. SameScan
    BY <1>4 DEF BatchStep, Preprocess, Review, CheckPersist, AppendFlagged, ReviewFails,
              CrashInReview, CheckFinish, SendBatchComplete
  <2>3. batchMail' \in Seq(Result)
    <3>1. CASE SendBatchComplete(x)
      <4>1. [processed |-> runs[x].count, skipped |-> runs[x].skipped,
             errors |-> runs[x].errors] \in Result
        BY <1>1 DEF ScanTypeOK, Run, Result
      <4> QED
        BY <1>1, <3>1, <4>1, MailTypes DEF ScanTypeOK, SendBatchComplete
    <3> QED
      BY <1>1, <2>1, <3>1 DEF ScanTypeOK
  <2>4. ScanTypeOK'
    BY <1>1, <2>1, <2>2, <2>3 DEF ScanTypeOK, RunMoved, ListsGrow, SameScan
  <2>5. RunsKept
    BY <2>1 DEF RunMoved, RunsKept
  <2>6. \A y \in RunIds : RunProgress(y)'
    <3>1. ASSUME NEW y \in RunIds \ {x} PROVE RunProgress(y)'
      <4>1. RunProgress(y) /\ runs'[y] = runs[y]
        BY <1>2, <2>1 DEF RunMoved
      <4> QED
        BY <2>1, <2>2, <4>1 DEF RunProgress, Reviewed, Closed, SameScan, ListsGrow
    <3> QED
      BY <2>1, <3>1
  <2>7. ~Redelivered' => Counted'
    <3>1. ~Redelivered' => ~Redelivered
      BY <2>5 DEF Redelivered, RunsKept, RunIds
    <3>2. CASE SendBatchComplete(x)
      BY <1>1, <1>2, <3>1, <3>2, TallySends
    <3>3. CASE ~SendBatchComplete(x)
      <4>1. /\ batchMail' = batchMail /\ flagged \subseteq flagged'
            /\ (Closed => Closed') /\ Counts(orch') = Counts(orch)
        BY <2>1, <2>2, <3>3 DEF ListsGrow, SameScan, Closed
      <4>2. Counted => Counted'
        BY <2>5, <4>1, TallyKept
      <4> QED
        BY <1>2, <3>1, <4>2
    <3> QED
      BY <3>2, <3>3
  <2>8. CleanReport'
    <3>1. CASE Reported
      BY <1>1, <1>2, <2>1, <2>2, <2>4, <2>5, <3>1, ReportKept DEF SameScan, ListsGrow
    <3>2. CASE ~Reported
      BY <2>2, <3>2 DEF CleanReport, CleanlyCompleted, Reported, SameScan
    <3> QED
      BY <3>1, <3>2
  <2>9. flagged' \subseteq actions'
    BY <1>2, <2>1 DEF ListsGrow
  <2>10. ScanKept'
    BY <1>1, <2>2, <2>3 DEF ScanKept, Closed, Reported, SameScan
  <2> QED
    BY <2>4, <2>6, <2>7, <2>8, <2>9, <2>10 DEF ScanInv, ScanKept, Reported
<1>5. CASE OtherStep
  <2>1. UNCHANGED <<flagged, recorded, actions, runs>>
    BY <1>5, OtherKeeps
  <2>2. ScanKept' /\ Quiet
    BY <1>1, <1>5, OtherSteps
  <2>3. ScanTypeOK'
    BY <1>1, <2>1, <2>2 DEF ScanTypeOK, ScanKept
  <2>4. RunsKept
    BY <2>1 DEF RunsKept
  <2>5. \A y \in RunIds : RunProgress(y)'
    <3>1. ASSUME NEW y \in RunIds PROVE RunProgress(y)'
      <4>1. RunProgress(y)
        BY <1>2
      <4>2. /\ Closed => Closed'
            /\ scan.status \in Terminal => scan'.status \in Terminal
        BY <2>2 DEF Quiet
      <4> QED
        BY <2>1, <4>1, <4>2 DEF RunProgress, Reviewed
    <3> QED
      BY <3>1
  <2>6. ~Redelivered' => Counted'
    <3>1. ~Redelivered' => ~Redelivered
      BY <2>1 DEF Redelivered
    <3>2. CASE ReceiveBatch
      <4>1. /\ ~Closed /\ batchMail # <<>> /\ batchMail' = Tail(batchMail)
            /\ orch'.processed = orch.processed + Head(batchMail).processed
            /\ orch'.skipped = orch.skipped + Head(batchMail).skipped
            /\ orch'.errors = orch.errors + Head(batchMail).errors
        BY <1>1, <3>2, BatchReceipt
      <4>2. UNCHANGED <<runs, flagged>>
        BY <2>1
      <4> QED
        BY <1>1, <1>2, <3>1, <3>2, <4>1, <4>2, TallyReceives
    <3>3. CASE ~ReceiveBatch
      <4>1. /\ Counts(orch') = Counts(orch) /\ batchMail' = batchMail /\ (Closed => Closed')
            /\ flagged \subseteq flagged'
        BY <2>1, <2>2, <3>3 DEF Quiet
      <4> QED
        BY <1>2, <2>4, <3>1, <4>1, TallyKept
    <3> QED
      BY <3>2, <3>3
  <2>7. CleanReport'
    <3>1. CASE ~Reported'
      BY <3>1 DEF CleanReport, CleanlyCompleted, Reported
    <3>2. CASE CompleteScan /\ Reported'
      <4>1. /\ scan' = [status |-> ScanStatus, scanned |-> orch.expected, report |-> flagged]
        BY <1>1, <3>2 DEF CompleteScan, Reported, Orch, ScanKept, OrchState
      <4>2. orch'.tx = orch.tx /\ orch'.errors = orch.errors
        BY <1>1, <3>2, <2>2, FinalSteps DEF Quiet, CompleteScan, OrchAt, Closed
      <4>3. Redelivered' = Redelivered /\ Skipped' = Skipped /\ Passed' = Passed
        BY <2>1 DEF Redelivered, Skipped, Passed
      <4>4. ASSUME ScanStatus = "completed", orch.tx, orch.errors = 0, ~Redelivered
            PROVE  /\ flagged \cup Skipped \cup Passed = Batches
                   /\ \A b \in Batches : runs[<<b, 1>>].pc = "ended"
        BY <1>1, <1>2, <4>4, CompleteReport
      <4> QED
        BY <2>1, <4>1, <4>2, <4>3, <4>4 DEF CleanReport, CleanlyCompleted
    <3>3. CASE Reported /\ scan' = scan
      <4>1. /\ Closed => orch'.tx = orch.tx
            /\ ~ReceiveBatch
        BY <2>2, <3>3 DEF Quiet, ReceiveBatch, OrchAt, Reported
      <4>2. orch'.errors = orch.errors
        BY <2>2, <4>1 DEF Quiet, Counts
      <4> QED
        BY <1>1, <1>2, <2>1, <2>3, <2>4, <3>3, <4>1, <4>2, ReportKept
    <3> QED
      BY <2>2, <3>1, <3>2, <3>3 DEF Quiet
  <2>8. flagged' \subseteq actions'
    BY <1>2, <2>1
  <2> QED
    BY <2>2, <2>3, <2>5, <2>6, <2>7, <2>8 DEF ScanInv, ScanKept, Reported
<1>6. CASE UNCHANGED scanVars
  <2> USE <1>6 DEF scanVars
  <2>1. ScanKept' /\ ScanTypeOK'
    BY <1>1 DEF ScanKept, ScanTypeOK, Closed, Reported
  <2>2. \A x \in RunIds : RunProgress(x)'
    BY <1>2 DEF RunProgress, Reviewed, Closed
  <2>3. ~Redelivered' => Counted'
    BY <1>2, TallyKept DEF Redelivered, RunsKept, Counts, Closed
  <2>4. CleanReport' /\ flagged' \subseteq actions'
    BY <1>2 DEF CleanReport, CleanlyCompleted, Redelivered, Skipped, Passed
  <2> QED
    BY <2>1, <2>2, <2>3, <2>4 DEF ScanInv, ScanKept, Reported
<1> QED
  BY <1>3, <1>4, <1>5, <1>6 DEF ScanNext, Nats, OtherStep

-----------------------------------------------------------------------------
(* The theorems. *)

\* The record, the latch, the topics and the runs of the batch workflows always
\* fit together: what the orchestrator counted are results of different batch
\* workflows that have ended, each of which flagged, passed or skipped its message
\* or reported an error.
THEOREM ScanInvariant == ScanSpec => []ScanInv
  BY ScanStart, ScanStep, PTL DEF ScanSpec

\* A record that was closed stays closed, and is written over only by the
\* finalize of its orchestrator, whatever comes late or twice.
THEOREM EndedStaysEnded == ScanSpec => EndedScanStaysEnded
<1>1. ASSUME ScanInv, [ScanNext]_scanVars
      PROVE  [scan.status \in Terminal =>
                scan'.status \in Terminal /\ (scan' = scan \/ OrchAt("finalize"))]_scanVars
  <2>1. ScanKept /\ flagged \subseteq Batches
    BY <1>1 DEF ScanInv, ScanTypeOK, ScanKept, Reported
  <2>2. CASE OtherStep
    BY <2>1, <2>2, OtherSteps DEF Quiet
  <2>3. ASSUME NEW b \in Batches, HandleBatch(b) PROVE scan' = scan
    BY <2>3 DEF HandleBatch
  <2>4. ASSUME NEW x \in RunIds, BatchStep(x) \/ CrashInReview(x) PROVE scan' = scan
    BY <2>4 DEF SameScan, BatchStep, Preprocess, Review, CheckPersist, AppendFlagged,
              ReviewFails, CrashInReview, CheckFinish, SendBatchComplete
  <2> QED
    BY <1>1, <2>2, <2>3, <2>4 DEF ScanNext, Nats, OtherStep
<1> QED
  BY <1>1, ScanInvariant, PTL DEF ScanSpec, EndedScanStaysEnded

\* A scan completed with a known total, no error and no redelivered batch reports
\* every message that was neither skipped nor passed, whenever the batches append
\* and report and however often a crash has a review executed again.
THEOREM CompletedReportsAll == ScanSpec => []CleanReport
<1>1. ScanInv => CleanReport
  BY DEF ScanInv
<1> QED
  BY <1>1, ScanInvariant, PTL
=============================================================================
