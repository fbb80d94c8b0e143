---------------------------- MODULE ContentScan ----------------------------
(* One bulk content scan of the opennotes server: the Discord bot publishes the
   batches of messages and then their total over NATS, a handler turns each
   event into a queued DBOS batch workflow or a signal, and the orchestrator
   workflow of the scan counts what the batches report until everything is
   accounted for or a timeout ends the wait, and finalizes the scan record.

   Every batch is one message, for which a note may have been requested already.
   DBOS records a step's result once the step has returned and re-executes a
   step that a crash interrupted; signals of one topic arrive in order and once.
   Time is not modelled: a receive may time out whenever nothing has arrived, a
   deadline may pass at any check.

   The reviewer step always evaluates with the default ModerationPolicyConfig,
   which has no label to act on at once: a decision is Tier 2, a proposed action
   of which no platform plugin is told, or a pass.                             *)
EXTENDS Naturals, Sequences, FiniteSets

CONSTANTS
    Batches,        \* the batches of messages the bot collects
    MaxPolls,       \* bound: 60 s waits that fit in the adaptive cap
    MaxFaults       \* bound: losses, redeliveries, failures and crashes

ASSUME ScanConstants ==
    /\ IsFiniteSet(Batches) /\ MaxPolls \in Nat \ {0} /\ MaxFaults \in Nat

VARIABLES
    scan,       \* the BulkContentScanLog row and the flagged list it reports
    latch,      \* the finalizing key in Redis
    flagged,    \* batches whose flagged message is in the Redis list
    recorded,   \* record_error has written to Redis
    actions,    \* batches whose message has a proposed moderation action
    bot,        \* the bot: what it has not published yet
    events,     \* NATS events not acknowledged
    orch,       \* the orchestrator workflow
    txMail, batchMail,   \* its two topics
    runs,       \* the batch workflows: the first and the redelivered ones
    faults

scanVars == <<scan, latch, flagged, recorded, actions, bot, events,
              orch, txMail, batchMail, runs, faults>>

Terminal == {"completed", "failed"}
RunIds == Batches \X {1, 2}

\* passed: the review proposed nothing.
NoRun == [pc |-> "none", count |-> 0, skipped |-> 0, errors |-> 0, passed |-> FALSE]

ScanInit ==
    /\ scan = [status |-> "pending", scanned |-> 0, report |-> {}]
    /\ latch = FALSE /\ flagged = {} /\ recorded = FALSE
    /\ actions = {}
    /\ \E found \in {{}, Batches} :
           bot = [pc |-> "waiting", unsent |-> found, total |-> Cardinality(found)]
    /\ events = {}
    /\ orch = [pc |-> "none", tx |-> FALSE, expected |-> 0, processed |-> 0,
               skipped |-> 0, errors |-> 0, batches |-> FALSE,
               first |-> FALSE, polls |-> 0]
    /\ txMail = <<>> /\ batchMail = <<>>
    /\ runs = [x \in RunIds |-> NoRun]
    /\ faults = 0

Fault == faults < MaxFaults /\ faults' = faults + 1
NoFault == faults' = faults
Inactive == scan.status \in Terminal \/ latch

-----------------------------------------------------------------------------
(* The scan is initiated; the bot publishes.                                *)

\* initiate_scan and dispatch_content_scan_workflow: a dispatch that fails
\* fails the scan, whether or not the workflow was created.
Dispatch ==
    /\ bot.pc = "waiting"
    /\ \/ /\ NoFault
          /\ orch' = [orch EXCEPT !.pc = "queued"]
          /\ bot' = [bot EXCEPT !.pc = "sending"]
          /\ scan' = scan
       \/ /\ Fault
          /\ \E created \in BOOLEAN :
                 orch' = [orch EXCEPT !.pc = IF created THEN "queued" ELSE "none"]
          /\ bot' = [bot EXCEPT !.pc = "done"]
          /\ scan' = [scan EXCEPT !.status = "failed"]
    /\ UNCHANGED <<latch, flagged, recorded, actions, events, txMail,
                   batchMail, runs>>

\* A batch whose publication fails still counts in the total.
PublishBatch(b) ==
    /\ bot.pc = "sending" /\ b \in bot.unsent
    /\ bot' = [bot EXCEPT !.unsent = @ \ {b}]
    /\ \/ NoFault /\ events' = events \cup {<<"batch", b>>}
       \/ Fault /\ events' = events
    /\ UNCHANGED <<scan, latch, flagged, recorded, actions, orch,
                   txMail, batchMail, runs>>

PublishTotal ==
    /\ bot.pc = "sending" /\ bot.unsent = {}
    /\ bot' = [bot EXCEPT !.pc = "done"]
    /\ \/ NoFault /\ events' = events \cup {<<"total", bot.total>>}
       \/ Fault /\ events' = events
    /\ UNCHANGED <<scan, latch, flagged, recorded, actions, orch,
                   txMail, batchMail, runs>>

-----------------------------------------------------------------------------
(* The NATS handlers.  A handler that times out is not acknowledged although
   it has done its work, and its event comes again.                         *)

Acknowledge(e) == events' = events \ {e} /\ NoFault
NotAcknowledged == Fault /\ UNCHANGED events

\* The batch gets a workflow, one more when the event is redelivered; a failed
\* enqueue is answered with None, which the handler ignores.
HandleBatch(b) ==
    LET unused == {x \in RunIds : x[1] = b /\ runs[x].pc = "none"}
        x == CHOOSE x \in unused : \A y \in unused : x[2] <= y[2]
    IN  /\ <<"batch", b>> \in events
        /\ unused # {}
        /\ \/ /\ Acknowledge(<<"batch", b>>) \/ NotAcknowledged
              /\ runs' = [runs EXCEPT ![x].pc = "start"]
           \/ /\ Fault /\ events' = events \ {<<"batch", b>>}
              /\ UNCHANGED runs
        /\ UNCHANGED <<scan, latch, flagged, recorded, actions, bot,
                       orch, txMail, batchMail>>

\* _finalize_zero_message_scan closes the scan itself and signals nobody.
HandleZeroTotal ==
    /\ <<"total", 0>> \in events
    /\ Acknowledge(<<"total", 0>>) \/ NotAcknowledged
    /\ scan' = IF scan.status \in Terminal THEN scan
               ELSE [scan EXCEPT !.status = "completed", !.scanned = 0,
                                 !.report = {}]
    /\ UNCHANGED <<latch, flagged, recorded, actions, bot, orch,
                   txMail, batchMail, runs>>

\* Mutant: every total that comes is added.
HandOffAdding(n) ==
    scan' = IF scan.status \in Terminal THEN scan
            ELSE [scan EXCEPT !.scanned = @ + n, !.status = "in_progress"]

\* Mutant: the status of the record is not looked at.
HandOffReopening(n) ==
    scan' = [scan EXCEPT !.scanned = IF @ < n THEN n ELSE @,
                         !.status = "in_progress"]

\* persist_transmitted_scan_handoff.
HandOff(n) ==
    scan' = IF scan.status \in Terminal THEN scan
            ELSE [scan EXCEPT !.scanned = IF @ < n THEN n ELSE @,
                              !.status = "in_progress"]

\* The signal is sent, or fails, which the handler ignores as well.
HandleTotal(n) ==
    /\ n > 0 /\ <<"total", n>> \in events
    /\ HandOff(n)
    /\ \/ /\ Acknowledge(<<"total", n>>) \/ NotAcknowledged
          /\ txMail' = Append(txMail, n)
       \/ /\ Fault /\ events' = events \ {<<"total", n>>}
          /\ UNCHANGED txMail
    /\ UNCHANGED <<latch, flagged, recorded, actions, bot, orch,
                   batchMail, runs>>

\* The deliveries of an event are used up before its handler did anything.
LoseEvent(e) ==
    /\ Fault /\ events' = events \ {e}
    /\ UNCHANGED <<scan, latch, flagged, recorded, actions, bot, orch,
                   txMail, batchMail, runs>>

Nats == \/ \E b \in Batches : HandleBatch(b)
        \/ HandleZeroTotal
        \/ \E n \in 1 .. Cardinality(Batches) : HandleTotal(n)

-----------------------------------------------------------------------------
(* The orchestrator waits.                                                  *)

Orch(o) == orch' = o
OrchAt(pc) == orch.pc = pc
SameBatches == UNCHANGED <<flagged, recorded, actions, runs>>
SameOutside == SameBatches /\ UNCHANGED <<bot, events>>

\* The tokens come and create_scan_record_step runs, or the gate times out and
\* the workflow ends.
AcquireGate ==
    /\ OrchAt("queued")
    /\ \/ /\ Orch([orch EXCEPT !.pc = "firstTx"])
          /\ scan' = IF scan.status = "pending"
                     THEN [scan EXCEPT !.status = "in_progress"] ELSE scan
       \/ Orch([orch EXCEPT !.pc = "error"]) /\ scan' = scan
    /\ NoFault /\ SameOutside /\ UNCHANGED <<latch, txMail, batchMail>>

Accounted == orch.processed + orch.skipped + orch.errors
WithTx == [orch EXCEPT !.tx = TRUE, !.expected = Head(txMail)]

\* A wait for the total: what follows when it comes, and when it does not.
ReceiveTx(pc, next, otherwise) ==
    /\ OrchAt(pc)
    /\ \/ /\ txMail # <<>>
          /\ Orch([WithTx EXCEPT !.pc = next]) /\ txMail' = Tail(txMail)
       \/ /\ txMail = <<>>
          /\ Orch([orch EXCEPT !.pc = otherwise]) /\ txMail' = txMail
    /\ NoFault /\ SameOutside /\ UNCHANGED <<scan, latch, batchMail>>

ReceiveFirstTx == ReceiveTx("firstTx", "loop", "loop")
ReceiveLateTx == ReceiveTx("waitTx", "loop", "waitBatch")

\* The loop ends and mark_scan_finalizing_step sets the latch.
EndLoop(o) == Orch([o EXCEPT !.pc = "finalize"]) /\ latch' = TRUE

\* The waits of few batches stay below the limit of the wall clock: it passes
\* here once a wait has timed out.
WallClockExceeded ==
    /\ OrchAt("loop") /\ orch.polls > 0
    /\ EndLoop(orch)
    /\ NoFault /\ SameOutside /\ UNCHANGED <<scan, txMail, batchMail>>

\* The head of the loop, after a look for the total once a batch has reported.
LoopHead ==
    LET look == ~orch.tx /\ orch.batches /\ txMail # <<>>
        o == IF look THEN WithTx ELSE orch
        first == ~o.tx /\ ~o.batches
    IN  /\ OrchAt("loop")
        /\ txMail' = IF look THEN Tail(txMail) ELSE txMail
        /\ IF o.tx /\ Accounted >= o.expected THEN EndLoop(o)
           ELSE /\ Orch([o EXCEPT !.first = first,
                             !.pc = IF first THEN "waitTx" ELSE "waitBatch"])
                /\ latch' = latch
        /\ NoFault /\ SameOutside /\ UNCHANGED <<scan, batchMail>>

ReceiveBatch ==
    /\ OrchAt("waitBatch") /\ batchMail # <<>>
    /\ LET result == Head(batchMail)
       IN  Orch([orch EXCEPT !.pc = "loop", !.batches = TRUE,
                             !.processed = @ + result.processed,
                             !.skipped = @ + result.skipped,
                             !.errors = @ + result.errors])
    /\ batchMail' = Tail(batchMail)
    /\ NoFault /\ SameOutside /\ UNCHANGED <<scan, latch, txMail>>

\* Mutant: the adaptive cap is not looked at.
PollAgainForever ==
    /\ OrchAt("waitBatch") /\ batchMail = <<>>
    /\ orch.tx /\ ~orch.first
    /\ Orch([orch EXCEPT !.pc = "loop"])
    /\ NoFault /\ SameOutside /\ UNCHANGED <<scan, latch, txMail, batchMail>>

\* Nothing came: the wait ends, unless the total is known and the adaptive cap
\* leaves time for one more poll.
PollAgain ==
    /\ OrchAt("waitBatch") /\ batchMail = <<>>
    /\ orch.tx /\ ~orch.first /\ orch.polls < MaxPolls
    /\ Orch([orch EXCEPT !.pc = "loop", !.polls = @ + 1])
    /\ NoFault /\ SameOutside /\ UNCHANGED <<scan, latch, txMail, batchMail>>

StopWaiting ==
    /\ OrchAt("waitBatch") /\ batchMail = <<>>
    /\ EndLoop(orch)
    /\ NoFault /\ SameOutside /\ UNCHANGED <<scan, txMail, batchMail>>

-----------------------------------------------------------------------------
(* The orchestrator finalizes.                                              *)

\* _determine_scan_status: every reason the code knows to fail a scan.
NeverTransmitted == /\ ~orch.tx /\ orch.expected = 0 /\ orch.processed = 0
                    /\ orch.errors = 0 /\ ~recorded
Incomplete == orch.expected > 0 /\ orch.tx /\ Accounted < orch.expected
NothingProcessed == /\ orch.expected > 0 /\ orch.processed = 0
                    /\ orch.skipped = orch.expected => (orch.errors > 0 \/ recorded)
\* Mutant: batches that never reported are forgotten.
ScanStatusOfReported == IF NeverTransmitted \/ NothingProcessed
                        THEN "failed" ELSE "completed"

ScanStatus == IF NeverTransmitted \/ Incomplete \/ NothingProcessed
              THEN "failed" ELSE "completed"

\* finalize_scan_step reads the flagged list and overwrites the record.
CompleteScan ==
    /\ OrchAt("finalize")
    /\ \/ /\ NoFault
          /\ scan' = [status |-> ScanStatus, scanned |-> orch.expected,
                      report |-> flagged]
          /\ Orch([orch EXCEPT !.pc = "publish"])
       \/ /\ Fault /\ scan' = scan
          /\ Orch([orch EXCEPT !.pc = "abort"])
    /\ SameOutside /\ UNCHANGED <<latch, txMail, batchMail>>

\* The events of the result; a crash before they are all published executes
\* the step again.
PublishResults ==
    /\ OrchAt("publish")
    /\ \/ NoFault /\ Orch([orch EXCEPT !.pc = "clear"])
       \/ Fault /\ \E pc \in {"abort", "finalize"} : Orch([orch EXCEPT !.pc = pc])
    /\ SameOutside /\ UNCHANGED <<scan, latch, txMail, batchMail>>

\* A latch that cannot be removed stays.
ClearFinalizing ==
    /\ orch.pc \in {"clear", "abort"}
    /\ \/ NoFault /\ latch' = FALSE
       \/ Fault /\ latch' = latch
    /\ Orch([orch EXCEPT !.pc = IF @ = "clear" THEN "ended" ELSE "error"])
    /\ SameOutside /\ UNCHANGED <<scan, txMail, batchMail>>

Orchestrator ==
    \/ ReceiveFirstTx \/ ReceiveLateTx \/ WallClockExceeded \/ LoopHead
    \/ ReceiveBatch \/ PollAgain \/ StopWaiting \/ CompleteScan \/ PublishResults \/ ClearFinalizing

-----------------------------------------------------------------------------
(* A batch workflow.                                                        *)

RunAt(x, pc) == runs[x].pc = pc
RunTo(x, r) == runs' = [runs EXCEPT ![x] = r]
RunPc(x, pc) == RunTo(x, [runs[x] EXCEPT !.pc = pc])
SameScan == UNCHANGED <<scan, latch, bot, events, orch, txMail>>

\* The first looks at the scan and preprocess_batch_step: the workflow of an
\* inactive scan ends silently; a failure counts as one error; a message for
\* which a note was requested is skipped.
Preprocess(x) ==
    /\ RunAt(x, "start")
    /\ \/ NoFault /\ Inactive /\ RunPc(x, "ended")
       \/ /\ NoFault /\ ~Inactive
          /\ \E skipped \in {0, 1} :
                 RunTo(x, [pc |-> IF skipped = 1 THEN "finish" ELSE "review",
                           count |-> 1 - skipped, skipped |-> skipped,
                           errors |-> 0, passed |-> FALSE])
       \/ /\ Fault /\ ~Inactive
          /\ RunTo(x, [runs[x] EXCEPT !.pc = "finish", !.errors = 1])
    /\ SameScan /\ UNCHANGED <<flagged, recorded, actions, batchMail>>

\* similarity_scan_step, whose failure leaves no candidate and one error, and
\* content_reviewer_step.  The policy flags the message, whose action is unique,
\* or passes it; a message without a candidate and a classification that failed
\* (fail-open) are passes as well, and no errors.
Review(x) ==
    /\ RunAt(x, "review")
    /\ \/ NoFault /\ Inactive /\ RunPc(x, "finish") /\ UNCHANGED actions
       \/ /\ NoFault /\ ~Inactive
          /\ RunPc(x, "persist") /\ actions' = actions \cup {x[1]}
       \/ /\ NoFault /\ ~Inactive /\ UNCHANGED actions
          /\ RunTo(x, [runs[x] EXCEPT !.pc = "persist", !.passed = TRUE])
       \/ /\ Fault /\ UNCHANGED actions
          /\ RunTo(x, [runs[x] EXCEPT !.pc = "finish", !.errors = 1])
    /\ SameScan /\ UNCHANGED <<flagged, recorded, batchMail>>

\* One more look at the scan, and the append, which is not part of the look.
CheckPersist(x) ==
    /\ RunAt(x, "persist")
    /\ RunPc(x, IF Inactive \/ runs[x].passed THEN "finish" ELSE "append")
    /\ NoFault /\ SameScan
    /\ UNCHANGED <<flagged, recorded, actions, batchMail>>

AppendFlagged(x) ==
    /\ RunAt(x, "append")
    /\ flagged' = flagged \cup {x[1]}
    /\ RunPc(x, "finish")
    /\ NoFault /\ SameScan /\ UNCHANGED <<recorded, actions, batchMail>>

\* The append that an exception or a crash interrupts has reached Redis or not.
MayAppend(x) ==
    \/ flagged' = flagged
    \/ RunAt(x, "append") /\ flagged' = flagged \cup {x[1]}

\* An exception anywhere in the review is recorded and counts every candidate.
ReviewFails(x) ==
    /\ runs[x].pc \in {"review", "persist", "append"}
    /\ Fault /\ MayAppend(x)
    /\ IF Inactive THEN recorded' = recorded /\ RunPc(x, "finish")
       ELSE recorded' = TRUE /\ RunTo(x, [runs[x] EXCEPT !.pc = "finish",
                                                         !.errors = @ + 1])
    /\ SameScan /\ UNCHANGED <<actions, batchMail>>

\* A crash: the interrupted step is executed again from its beginning.
CrashInReview(x) ==
    /\ runs[x].pc \in {"persist", "append"}
    /\ Fault /\ MayAppend(x)
    /\ RunTo(x, [runs[x] EXCEPT !.pc = "review", !.passed = FALSE])
    /\ SameScan /\ UNCHANGED <<recorded, actions, batchMail>>

\* A scan that has become inactive is not signalled any more.
CheckFinish(x) ==
    /\ RunAt(x, "finish")
    /\ RunPc(x, IF Inactive THEN "ended" ELSE "send")
    /\ NoFault /\ SameScan
    /\ UNCHANGED <<flagged, recorded, actions, batchMail>>

SendBatchComplete(x) ==
    /\ RunAt(x, "send")
    /\ batchMail' = Append(batchMail, [processed |-> runs[x].count,
                                       skipped |-> runs[x].skipped,
                                       errors |-> runs[x].errors])
    /\ RunPc(x, "ended")
    /\ NoFault /\ SameScan /\ UNCHANGED <<flagged, recorded, actions>>

BatchStep(x) ==
    \/ Preprocess(x) \/ Review(x) \/ CheckPersist(x) \/ AppendFlagged(x)
    \/ ReviewFails(x) \/ CheckFinish(x) \/ SendBatchComplete(x)

ScanNext ==
    \/ Dispatch \/ PublishTotal \/ (\E b \in Batches : PublishBatch(b))
    \/ Nats \/ (\E e \in events : LoseEvent(e))
    \/ AcquireGate \/ Orchestrator
    \/ \E x \in RunIds : BatchStep(x) \/ CrashInReview(x)

\* DBOS executes and recovers the orchestrator, whose receives time out.
ScanFairness == WF_scanVars(Orchestrator)

ScanSpec == ScanInit /\ [][ScanNext]_scanVars /\ ScanFairness

-----------------------------------------------------------------------------
(* Properties.                                                              *)

Totals == {0, Cardinality(Batches)}
Event  == ({"batch"} \X Batches) \cup ({"total"} \X Totals)
Record == [status : {"pending", "in_progress"} \cup Terminal, scanned : Totals,
           report : SUBSET Batches]
Bot    == [pc : {"waiting", "sending", "done"}, unsent : SUBSET Batches, total : Totals]
OrchState ==
    [pc : {"none", "queued", "firstTx", "loop", "waitTx", "waitBatch", "finalize",
           "publish", "clear", "abort", "ended", "error"},
     tx : BOOLEAN, expected : Totals, processed : Nat, skipped : Nat, errors : Nat,
     batches : BOOLEAN, first : BOOLEAN, polls : 0 .. MaxPolls]
Run    == [pc : {"none", "start", "review", "persist", "append", "finish", "send",
                 "ended"},
           count : {0, 1}, skipped : {0, 1}, errors : {0, 1}, passed : BOOLEAN]
Result == [processed : {0, 1}, skipped : {0, 1}, errors : {0, 1}]

\* The record, the Redis keys, the events and the workflows are of their types.
ScanTypeOK ==
    /\ scan \in Record /\ bot \in Bot /\ orch \in OrchState
    /\ latch \in BOOLEAN /\ recorded \in BOOLEAN
    /\ flagged \subseteq Batches /\ actions \subseteq Batches
    /\ events \subseteq Event
    /\ txMail \in Seq({Cardinality(Batches)}) /\ batchMail \in Seq(Result)
    /\ runs \in [RunIds -> Run]
    /\ \A x \in RunIds : runs[x].count + runs[x].skipped <= 1

\* A record that is closed stays closed: no total that comes late or again, no
\* gate that opens late and no failed dispatch changes it or puts it back to in
\* progress.  Only the orchestrator's own finalize writes over it, and closes it
\* again (persist_transmitted_scan_handoff, create_scan_record_step).
EndedScanStaysEnded ==
    [][scan.status \in Terminal =>
           scan'.status \in Terminal /\ (scan' = scan \/ OrchAt("finalize"))]_scanVars

Redelivered == \E b \in Batches : runs[<<b, 2>>].pc # "none"
Skipped == {b \in Batches : runs[<<b, 1>>].skipped = 1}
Passed == {b \in Batches : runs[<<b, 1>>].passed}

\* The record was closed as completed with a known total and no error counted,
\* and no batch was redelivered.
CleanlyCompleted ==
    /\ orch.pc \in {"publish", "clear", "ended"} /\ scan.status = "completed"
    /\ orch.tx /\ orch.errors = 0 /\ ~Redelivered

\* The report of such a scan misses no message but those that were skipped and
\* those that the last execution of their review passed, be it because the
\* classification failed: no batch was still on its way when finalize_scan_step
\* read the flagged list, although batches append to it and report on different
\* channels and a crash executes the reviewer step again, with another outcome.
CleanReport ==
    CleanlyCompleted =>
        /\ scan.report \cup Skipped \cup Passed = Batches
        /\ \A b \in Batches : runs[<<b, 1>>].pc = "ended"

-----------------------------------------------------------------------------
(* The inductive invariant.                                                 *)

\* The orchestrator receives nothing any more.
Closed == orch.pc \in {"finalize", "publish", "clear", "abort", "ended", "error"}

\* A run without an error skipped its message, passed it or has it in the
\* flagged list.
Reviewed(x) ==
    runs[x].errors = 0 => runs[x].skipped = 1 \/ runs[x].passed \/ x[1] \in flagged

\* What a run has done when it has come to a step, and the review it may still
\* owe once nobody listens.
RunProgress(x) ==
    LET r == runs[x]
    IN  /\ r.pc \in {"none", "start"} => r.count = 0 /\ r.skipped = 0 /\ r.errors = 0
        /\ r.pc \in {"review", "persist", "append"} => r.skipped = 0 /\ r.errors = 0
        /\ r.pc = "append" \/ (r.pc = "persist" /\ ~r.passed) => x[1] \in actions
        /\ r.pc = "finish" => Reviewed(x) \/ scan.status \in Terminal \/ Closed
        /\ r.pc = "send" => Reviewed(x) \/ Closed

\* The orchestrator counted the results of the runs of `received`, and those in
\* its topic are the results of other ones, source[i] being the i-th sender.
Tally(received, source) ==
    /\ orch.processed + orch.skipped <= Cardinality(received)
    /\ \A b \in received :
          /\ runs[<<b, 1>>].pc = "ended" /\ Reviewed(<<b, 1>>)
          /\ orch.errors = 0 => runs[<<b, 1>>].errors = 0
    /\ \A i \in 1 .. Len(batchMail) :
          LET r == runs[<<source[i], 1>>]
          IN  /\ source[i] \notin received
              /\ \A j \in 1 .. Len(batchMail) : j # i => source[j] # source[i]
              /\ r.pc = "ended" /\ (Reviewed(<<source[i], 1>>) \/ Closed)
              /\ batchMail[i] = [processed |-> r.count, skipped |-> r.skipped,
                                 errors |-> r.errors]

Counted == \E received \in SUBSET Batches :
             \E source \in [1 .. Len(batchMail) -> Batches] : Tally(received, source)

ScanInv ==
    /\ ScanTypeOK
    /\ flagged \subseteq actions
    /\ \A x \in RunIds : RunProgress(x)
    /\ latch => Closed
    /\ orch.tx => orch.expected = Cardinality(Batches)
    /\ bot.pc = "waiting" => orch.pc = "none" /\ scan.status = "pending" /\ events = {}
    /\ orch.pc \in {"publish", "clear", "ended"} => scan.status \in Terminal
    /\ ~Redelivered => Counted
    /\ CleanReport

\* A scan whose orchestrator passed the gate gets a terminal status, or its
\* orchestrator ends with an error, whatever events and signals were lost: the
\* receives time out and the polls are bounded.
ScanCloses == OrchAt("firstTx") ~> (scan.status \in Terminal \/ OrchAt("error"))
=============================================================================
