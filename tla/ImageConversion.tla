-------------------------- MODULE ImageConversion --------------------------
(* The images of one page that a user uploads to the vibecheck server: a job row
   and a batch row are inserted together, the browser uploads to the bucket, a
   call of POST /api/analyze-images queues a conversion task, whose deliveries
   convert the images to a PDF and queue the run task of the job.

   Each step is a transaction, a call of the bucket or of Cloud Tasks.  A task is
   delivered again until a delivery answers 200, MaxDeliveries times at most;
   deliveries may overlap.  Time is abstracted to two facts: the row is old, 240 s
   after its insert, and a claim is stale, five minutes after it was made, when
   the row has long been old.                                               *)
EXTENDS Naturals, FiniteSets

CONSTANTS
    Clicks,          \* the calls of POST /api/analyze-images
    Deliveries,      \* bound: the deliveries of the conversion task
    MaxTroubles      \* bound: failures and crashes

ASSUME ConversionConstants ==
    IsFiniteSet(Deliveries) /\ MaxTroubles \in Nat

VARIABLES
    imageJob,    \* the vibecheck_jobs row
    conversion,  \* the vibecheck_image_upload_batches row
    stored,      \* what is in the bucket
    tasks,       \* the two Cloud Tasks of the job
    clicks,      \* the handlers of analyze-images
    converters,  \* the handlers of the conversion's deliveries
    reclaimed,   \* a stale claim has been taken over
    troubles

conversionVars == <<imageJob, conversion, stored, tasks, clicks, converters,
                    reclaimed, troubles>>

JobEnded == {"done", "failed"}

ConversionInit ==
    /\ imageJob = [status |-> "pending", url |-> "placeholder", old |-> FALSE,
                   beating |-> TRUE]
    /\ conversion = [status |-> "awaiting_upload", stale |-> FALSE]
    /\ stored = [images |-> FALSE, pdf |-> FALSE]
    /\ tasks = [convert |-> "none", run |-> "none"]
    /\ clicks = [k \in Clicks |-> "idle"]
    /\ converters = [d \in Deliveries |-> "idle"]
    /\ reclaimed = FALSE
    /\ troubles = 0

Trouble == troubles < MaxTroubles /\ troubles' = troubles + 1
NoTrouble == troubles' = troubles
Click(k, from, to) == clicks[k] = from /\ clicks' = [clicks EXCEPT ![k] = to]
FailRow == imageJob' = [imageJob EXCEPT !.status = "failed"]

-----------------------------------------------------------------------------
(* The browser and analyze_images.                                          *)

Upload ==
    /\ ~stored.images /\ stored' = [stored EXCEPT !.images = TRUE]
    /\ NoTrouble
    /\ UNCHANGED <<imageJob, conversion, tasks, clicks, converters, reclaimed>>

\* The rows are read without a lock: an ended job is refused, a batch that was
\* submitted before is answered as it is.
ReadBatch(k) ==
    /\ Click(k, "idle", IF imageJob.status \notin JobEnded
                           /\ conversion.status = "awaiting_upload"
                        THEN "verify" ELSE "ended")
    /\ NoTrouble
    /\ UNCHANGED <<imageJob, conversion, stored, tasks, converters, reclaimed>>

VerifyUploads(k) ==
    /\ Click(k, "verify", IF stored.images THEN "submit" ELSE "ended")
    /\ NoTrouble
    /\ UNCHANGED <<imageJob, conversion, stored, tasks, converters, reclaimed>>

\* One call wins the batch; the heartbeat it writes is not looked at while the
\* job is pending.
SubmitBatch(k) ==
    LET won == conversion.status = "awaiting_upload"
    IN  /\ Click(k, "submit", IF won THEN "enqueue" ELSE "ended")
        /\ conversion' = IF won THEN [conversion EXCEPT !.status = "submitted"]
                         ELSE conversion
        /\ NoTrouble /\ UNCHANGED <<imageJob, stored, tasks, converters, reclaimed>>

\* create_task returns, or raises whether or not it created the task.
EnqueueConversion(k) ==
    /\ \/ /\ NoTrouble /\ Click(k, "enqueue", "ended")
          /\ tasks' = [tasks EXCEPT !.convert = "queued"]
       \/ /\ Trouble /\ Click(k, "enqueue", "markFailed")
          /\ \E t \in {"none", "queued"} : tasks' = [tasks EXCEPT !.convert = t]
    /\ UNCHANGED <<imageJob, conversion, stored, converters, reclaimed>>

\* _mark_job_failed_enqueue, which has no guard.
FailEnqueue(k) ==
    /\ Click(k, "markFailed", "ended")
    /\ FailRow
    /\ NoTrouble
    /\ UNCHANGED <<conversion, stored, tasks, converters, reclaimed>>

CrashClick(k) ==
    /\ clicks[k] \notin {"idle", "ended"}
    /\ clicks' = [clicks EXCEPT ![k] = "ended"]
    /\ Trouble
    /\ UNCHANGED <<imageJob, conversion, stored, tasks, converters, reclaimed>>

-----------------------------------------------------------------------------
(* run_image_conversion, once per delivery.                                 *)

ConverterAt(d, pc) == converters[d] = pc
Converter(d, pc) == converters' = [converters EXCEPT ![d] = pc]

\* 200 ends the task; after 503, as after a crash, it is delivered again.
Answered(d) == /\ Converter(d, "ended")
               /\ tasks' = [tasks EXCEPT !.convert = "done"]
AskedAgain(d) == Converter(d, "ended") /\ UNCHANGED tasks

\* Mutant: a batch that is being converted is claimed again at once.
ClaimableWhileConverting == conversion.status \in {"submitted", "converting"}

Claimable == \/ conversion.status = "submitted"
             \/ conversion.status = "converting" /\ conversion.stale

\* Mutant: a batch that is being converted is taken for converted.
ConvertedOrConverting == conversion.status \in {"converting", "converted"}

AlreadyConverted == conversion.status = "converted"

\* _claim_conversion: one transaction on both rows.
ClaimConversion(d) ==
    /\ ConverterAt(d, "idle") /\ tasks.convert = "queued"
    /\ \/ /\ imageJob.status = "pending" /\ Claimable
          /\ conversion' = [status |-> "converting", stale |-> FALSE]
          /\ reclaimed' = (reclaimed \/ conversion.stale)
          /\ Converter(d, "read") /\ UNCHANGED tasks
       \/ /\ imageJob.status = "pending" /\ ~Claimable /\ AlreadyConverted
          /\ Converter(d, "enqueue") /\ UNCHANGED <<conversion, reclaimed, tasks>>
       \/ /\ imageJob.status # "pending" \/ ~(Claimable \/ AlreadyConverted)
          /\ Answered(d) /\ UNCHANGED <<conversion, reclaimed>>
    /\ NoTrouble /\ UNCHANGED <<imageJob, stored, clicks>>

\* The images are read and converted, or one of them cannot be.
ReadImages(d) ==
    /\ ConverterAt(d, "read")
    /\ \/ NoTrouble /\ Converter(d, "write")
       \/ Trouble /\ Converter(d, "fail")
    /\ UNCHANGED <<imageJob, conversion, stored, tasks, clicks, reclaimed>>

\* _mark_failed writes both rows without a guard.
FailConversion(d) ==
    /\ ConverterAt(d, "fail")
    /\ FailRow
    /\ conversion' = [conversion EXCEPT !.status = "failed"]
    /\ Answered(d)
    /\ NoTrouble /\ UNCHANGED <<stored, clicks, reclaimed>>

WritePdf(d) ==
    /\ ConverterAt(d, "write")
    /\ \/ /\ NoTrouble /\ Converter(d, "commit")
          /\ stored' = [stored EXCEPT !.pdf = TRUE]
       \/ Trouble /\ Converter(d, "reset") /\ UNCHANGED stored
    /\ UNCHANGED <<imageJob, conversion, tasks, clicks, reclaimed>>

\* Whoever has claimed the batch meanwhile loses its claim as well.
ResetConversion(d) ==
    /\ ConverterAt(d, "reset")
    /\ conversion' = IF conversion.status = "converting"
                     THEN [status |-> "submitted", stale |-> FALSE]
                     ELSE conversion
    /\ AskedAgain(d)
    /\ NoTrouble /\ UNCHANGED <<imageJob, stored, clicks, reclaimed>>

\* The batch is converted whatever became of it; the job gets the PDF for its
\* URL if it is still pending.
Converted ==
    /\ conversion' = [status |-> "converted", stale |-> FALSE]
    /\ imageJob' = IF imageJob.status = "pending"
                   THEN [imageJob EXCEPT !.url = "pdf"] ELSE imageJob

\* _mark_converted commits, or raises whether or not it has committed.
MarkConverted(d) ==
    /\ ConverterAt(d, "commit")
    /\ \/ NoTrouble /\ Converted /\ Converter(d, "enqueue") /\ UNCHANGED tasks
       \/ Trouble /\ Converted /\ AskedAgain(d)
       \/ Trouble /\ AskedAgain(d) /\ UNCHANGED <<imageJob, conversion>>
    /\ UNCHANGED <<stored, clicks, reclaimed>>

\* The name of the run task is that of the job and its attempt: a second one is
\* refused.
EnqueuePipeline(d) ==
    /\ ConverterAt(d, "enqueue") /\ Converter(d, "ended")
    /\ \/ /\ NoTrouble /\ tasks.run = "none"
          /\ tasks' = [convert |-> "done", run |-> "queued"]
       \/ NoTrouble /\ tasks.run # "none" /\ UNCHANGED tasks
       \/ /\ Trouble /\ tasks.run = "none"
          /\ \E t \in {"none", "queued"} : tasks' = [tasks EXCEPT !.run = t]
    /\ UNCHANGED <<imageJob, conversion, stored, clicks, reclaimed>>

CrashConversion(d) ==
    /\ converters[d] \notin {"idle", "ended"}
    /\ AskedAgain(d)
    /\ Trouble
    /\ UNCHANGED <<imageJob, conversion, stored, clicks, reclaimed>>

ConverterStep(d) ==
    \/ ClaimConversion(d) \/ ReadImages(d) \/ FailConversion(d) \/ WritePdf(d)
    \/ ResetConversion(d) \/ MarkConverted(d) \/ EnqueuePipeline(d)

-----------------------------------------------------------------------------
(* The run of the job, the sweeper and the clock.                           *)

\* run_job claims the pending row, and ends it or gives it back to its task.
RunClaims ==
    /\ tasks.run = "queued" /\ imageJob.status = "pending"
    /\ imageJob' = [imageJob EXCEPT !.status = "running", !.beating = TRUE]
    /\ NoTrouble
    /\ UNCHANGED <<conversion, stored, tasks, clicks, converters, reclaimed>>

RunEnds ==
    /\ imageJob.status = "running" /\ imageJob.beating
    /\ \/ /\ NoTrouble
          /\ \E status \in JobEnded : imageJob' = [imageJob EXCEPT !.status = status]
       \/ Trouble /\ imageJob' = [imageJob EXCEPT !.status = "pending"]
       \/ Trouble /\ imageJob' = [imageJob EXCEPT !.beating = FALSE]
    /\ UNCHANGED <<conversion, stored, tasks, clicks, converters, reclaimed>>

\* Mutant: the sweeper looks for workers that have stopped only.
SweepableRunning == imageJob.status = "running" /\ ~imageJob.beating

SweepableImages == \/ imageJob.status = "pending" /\ imageJob.old
                   \/ imageJob.status = "running" /\ ~imageJob.beating

SweepImages ==
    /\ SweepableImages /\ FailRow
    /\ NoTrouble
    /\ UNCHANGED <<conversion, stored, tasks, clicks, converters, reclaimed>>

RowGetsOld ==
    /\ ~imageJob.old /\ imageJob' = [imageJob EXCEPT !.old = TRUE]
    /\ NoTrouble
    /\ UNCHANGED <<conversion, stored, tasks, clicks, converters, reclaimed>>

ClaimGetsStale ==
    /\ imageJob.old /\ conversion.status = "converting" /\ ~conversion.stale
    /\ conversion' = [conversion EXCEPT !.stale = TRUE]
    /\ NoTrouble
    /\ UNCHANGED <<imageJob, stored, tasks, clicks, converters, reclaimed>>

ClickStep(k) ==
    \/ ReadBatch(k) \/ VerifyUploads(k) \/ SubmitBatch(k) \/ EnqueueConversion(k)
    \/ FailEnqueue(k) \/ CrashClick(k)

ConversionNext ==
    \/ Upload \/ (\E k \in Clicks : ClickStep(k))
    \/ \E d \in Deliveries : ConverterStep(d) \/ CrashConversion(d)
    \/ RunClaims \/ RunEnds \/ SweepImages \/ RowGetsOld \/ ClaimGetsStale

\* Time passes, pg_cron runs the sweeper every minute, and a run ends.
ConversionFairness == /\ WF_conversionVars(RowGetsOld)
                      /\ WF_conversionVars(SweepImages)
                      /\ WF_conversionVars(RunEnds)

ConversionSpec ==
    ConversionInit /\ [][ConversionNext]_conversionVars /\ ConversionFairness

-----------------------------------------------------------------------------
(* Properties.                                                              *)

\* A job that runs finds its PDF in the bucket and under its URL, whichever of
\* the overlapping, repeated and interrupted deliveries has queued the run
\* (run_image_conversion writes, commits and enqueues in this order, and a later
\* delivery resumes behind the last of these steps).
RunHasPdf ==
    imageJob.status = "running" => /\ stored.images /\ stored.pdf
                                   /\ imageJob.url = "pdf"

\* Deliveries that hold a claim on the batch.
Converting == {d \in Deliveries :
                  converters[d] \in {"read", "write", "reset", "commit", "fail"}}

\* Overlapping deliveries do not convert the batch at the same time, unless one
\* has taken a stale claim over (_claim_conversion).
OneConverter == ~reclaimed => Cardinality(Converting) <= 1

\* Every image job ends, though the images never come, the conversion's task is
\* answered 200 while another delivery still converts and then dies, or the run
\* task is never created: the sweeper's first tier.
ImageJobSettles == <>(imageJob.status \in JobEnded)
=============================================================================
