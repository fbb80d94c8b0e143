----------------------------- MODULE MCServices -----------------------------
(* Instances for TLC of five services that share no state: the submission of a
   URL, the limiter of Vertex calls and the conversion of uploaded images, of
   the vibecheck server, and the bulk content scan and the batch jobs, of the
   opennotes server.  A behaviour is one of any of them, the other four being at
   rest, with no action enabled: TLC checks the disjoint union of five state
   graphs, never their product.                                             *)
EXTENDS UrlSubmit, VertexLimiter, ImageConversion, ContentScan, BatchJob, TLC

CONSTANTS r1, r2, c1, c2, c3, c4, i1, i2, k1, k2, d1, d2, d3, b1, b2, j1, j2

VARIABLE service   \* the one that moves

\* One call of the second instance, the others of the first.
MCHome == [c \in Calls |-> IF c = c4 THEN i2 ELSE i1]

Request(k, n) == [kind |-> k, items |-> n]

\* Two rechunk jobs of one item; a job of two items, of either kind, beside a
\* rechunk job of a community without messages.
Pair(first, second) == [j \in Jobs |-> IF j = j1 THEN first ELSE second]
MCWorkloads ==
    {Pair(Request("rechunk", 1), Request("rechunk", 1))}
    \cup {Pair(Request(k, 2), Request("rechunk", 0)) : k \in {"rechunk", "import"}}

\* One job of either kind.
OneJobEach == {[j \in Jobs |-> Request(k, 1)] : k \in {"rechunk", "import"}}

\* Requests, and batches, are interchangeable; sound for safety only.
Symmetry == Permutations(Requests) \union Permutations(Batches)

NothingSubmitted ==
    /\ jobs = [j \in JobIds |-> Absent] /\ finished = [j \in JobIds |-> 0] /\ analysis = NoJob
    /\ holder = NoRequest /\ others = 0
    /\ subs = [r \in Requests |-> Ended]

NothingLimited ==
    /\ slots = {} /\ up = TRUE /\ scripts = TRUE
    /\ loaded = [i \in Instances |-> TRUE]
    /\ backend = [i \in Instances |-> Healthy]
    /\ vcalls = [c \in Calls |-> [pc |-> "ended", attempt |-> 0]]
    /\ outages = MaxOutages

NothingConverted ==
    /\ imageJob = [status |-> "done", url |-> "placeholder", old |-> TRUE,
                   beating |-> TRUE]
    /\ conversion = [status |-> "awaiting_upload", stale |-> FALSE]
    /\ stored = [images |-> TRUE, pdf |-> FALSE]
    /\ tasks = [convert |-> "none", run |-> "none"]
    /\ clicks = [k \in Clicks |-> "ended"]
    /\ converters = [d \in Deliveries |-> "ended"]
    /\ reclaimed = FALSE /\ troubles = 0

NothingScanned ==
    /\ scan = [status |-> "completed", scanned |-> 0, report |-> {}]
    /\ latch = FALSE /\ flagged = {} /\ recorded = FALSE
    /\ actions = {} /\ events = {}
    /\ bot = [pc |-> "done", unsent |-> {}, total |-> 0]
    /\ orch = [pc |-> "ended", tx |-> FALSE, expected |-> 0, processed |-> 0,
               skipped |-> 0, errors |-> 0, batches |-> FALSE,
               first |-> FALSE, polls |-> 0]
    /\ txMail = <<>> /\ batchMail = <<>>
    /\ runs = [x \in RunIds |-> NoRun]
    /\ faults = 0

NothingRequested ==
    /\ work = CHOOSE w \in Workloads : TRUE
    /\ rows = [j \in Jobs |-> NoRow] /\ typeLock = NoCall
    /\ calls = [j \in Jobs |-> "ended"]
    /\ workflows = [j \in Jobs |-> NoWorkflow]
    /\ cancels = [j \in Jobs |-> "none"] /\ sweep = [j \in Jobs |-> "none"]
    /\ mishaps = 0

ServicesInit ==
    \/ /\ service = "submit" /\ SubmitInit
       /\ NothingLimited /\ NothingConverted /\ NothingScanned /\ NothingRequested
    \/ /\ service = "limiter" /\ LimiterInit
       /\ NothingSubmitted /\ NothingConverted /\ NothingScanned /\ NothingRequested
    \/ /\ service = "image" /\ ConversionInit
       /\ NothingSubmitted /\ NothingLimited /\ NothingScanned /\ NothingRequested
    \/ /\ service = "scan" /\ ScanInit
       /\ NothingSubmitted /\ NothingLimited /\ NothingConverted /\ NothingRequested
    \/ /\ service = "batch" /\ BatchInit
       /\ NothingSubmitted /\ NothingLimited /\ NothingConverted /\ NothingScanned

ServicesNext ==
    \/ /\ service = "submit" /\ SubmitNext
       /\ UNCHANGED <<service, limiterVars, conversionVars, scanVars, batchVars>>
    \/ /\ service = "limiter" /\ LimiterNext
       /\ UNCHANGED <<service, submitVars, conversionVars, scanVars, batchVars>>
    \/ /\ service = "image" /\ ConversionNext
       /\ UNCHANGED <<service, submitVars, limiterVars, scanVars, batchVars>>
    \/ /\ service = "scan" /\ ScanNext
       /\ UNCHANGED <<service, submitVars, limiterVars, conversionVars, batchVars>>
    \/ /\ service = "batch" /\ BatchNext
       /\ UNCHANGED <<service, submitVars, limiterVars, conversionVars, scanVars>>

ServicesSpec ==
    /\ ServicesInit
    /\ [][ServicesNext]_<<service, submitVars, limiterVars, conversionVars, scanVars,
                          batchVars>>

FairServicesSpec ==
    /\ ServicesSpec
    /\ SubmitFairness /\ LimiterFairness /\ ConversionFairness
    /\ ScanFairness /\ BatchFairness
=============================================================================
