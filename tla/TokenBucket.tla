---------------------------- MODULE TokenBucket ----------------------------
(***************************************************************************)
(* The token bucket of the server: durable workflows share one pool of     *)
(* capacity, the sum of what the live workers contribute.  A workflow      *)
(* holds Weight tokens while it works (TokenGate around the body), taken   *)
(* by try_acquire_tokens and given back by release_tokens, both of them    *)
(* DBOS steps: their results are recorded, and an execution that is        *)
(* recovered replays the recorded steps without running them.  Executions  *)
(* of one workflow may overlap: recovery starts one while the execution it *)
(* takes for dead still runs.  Holds that leak are taken back by the       *)
(* scavenger of a failed acquisition and by a scheduled clean-up.          *)
(*                                                                         *)
(* One action is one database transaction, or one statement where others   *)
(* may come in between (READ COMMITTED).                                   *)
(***************************************************************************)
EXTENDS Integers, FiniteSets

CONSTANTS
  Workflows,          \* workflow ids
  Executions,         \* threads of the worker processes, one workflow each
  Weight,             \* tokens a workflow takes (WorkflowWeight)
  Workers,            \* rows token_pool_workers may have
  Contribution,       \* capacity_contribution of a worker
  StaticCapacity,     \* token_pools.capacity
  Attempts,           \* what max_wait_seconds allows, one per poll_interval
  Cancellable,        \* workflows of simulations, which their API cancels
  ScavengeBatch,      \* MAX_SCAVENGE_BATCH
  MaxHolds,           \* bound: rows of token_holds a workflow gets
  None                \* no execution, or no workflow

ASSUME TokenBucketAssumption ==
  /\ IsFiniteSet(Workers)
  /\ Weight \in [Workflows -> Nat \ {0}]
  /\ Contribution \in [Workers -> Nat \ {0}]
  /\ StaticCapacity \in Nat
  /\ Attempts \in [Workflows -> Nat \ {0}]
  /\ ScavengeBatch \in Nat
  /\ MaxHolds \in [Workflows -> Nat]
  /\ None \notin Executions

VARIABLES
  pool,        \* the row of token_pools exists
  lock,        \* the execution whose transaction has it FOR UPDATE
  registered,  \* rows of token_pool_workers
  live,        \* those whose last_heartbeat is within the TTL
  rows,        \* rows of token_holds: <<workflow, serial>>, the key of the row
  released,    \* those with released_at set
  old,         \* those acquired more than MAX_HOLD_DURATION_SECONDS ago
  ended,       \* workflows with a terminal DBOS status
  log,         \* the steps DBOS has recorded for a workflow
  pc, local,   \* an execution: its next step, its workflow, what it has read
  found        \* the holds the running clean-up workflow found

tables == <<pool, registered, live, rows, released, old>>
control == <<ended, log, pc, local>>
vars == <<tables, lock, control, found>>

Active == rows \ released
HoldsOf(w) == {r \in Active : r[1] = w}

\* A set of holds as tokens, one element each, so that their sum is a cardinality.
TokensOf(holds) == UNION {{r} \X (1..Weight[r[1]]) : r \in holds}
Held == Cardinality(TokensOf(Active))
Contributed(workers) ==
  Cardinality(UNION {{p} \X (1..Contribution[p]) : p \in workers})

EffectiveCapacity ==
  IF live # {} THEN Contributed(live) ELSE StaticCapacity

\* The most the pool can ever be worth.
PeakCapacity ==
  IF Contributed(Workers) > StaticCapacity THEN Contributed(Workers) ELSE StaticCapacity

Stages == {"waiting", "working", "releasing", "done"}

Idle == [workflow |-> None, attempt |-> 0, 
         capacity |-> 0, batch |-> {}, acquired |-> FALSE]

Init ==
  /\ pool = FALSE
  /\ lock = None
  /\ registered = {} /\ live = {}
  /\ rows = {} /\ released = {} /\ old = {}
  /\ ended = {}
  /\ log = [w \in Workflows |-> [misses |-> 0, stage |-> "waiting"]]
  /\ pc = [e \in Executions |-> "off"]
  /\ local = [e \in Executions |-> Idle]
  /\ found = {}

-----------------------------------------------------------------------------
(* Executions and what DBOS does for them.                                 *)

\* Where the replay of the recorded steps leaves an execution.
Resume(w) ==
  CASE log[w].stage = "waiting"   -> "check"
    [] log[w].stage = "working"   -> "work"
    [] log[w].stage = "releasing" -> "release"
    [] log[w].stage = "done"      -> "finish"

\* DBOS runs no step of a workflow that has ended.
MayStep(e) == local[e].workflow \notin ended

Goto(e, label) == pc' = [pc EXCEPT ![e] = label]

Leave(e) ==
  /\ Goto(e, "off")
  /\ local' = [local EXCEPT ![e] = Idle]

\* A queue hands out the workflow, or recovery does, perhaps while the
\* execution that it takes for dead still runs.
Start(e, w) ==
  /\ pc[e] = "off" /\ w \notin ended
  /\ Goto(e, Resume(w))
  /\ local' = [local EXCEPT ![e].workflow = w]
  /\ UNCHANGED <<tables, lock, ended, log, found>>

\* Another execution has recorded more: replay that, too.
CatchUp(e) ==
  /\ pc[e] \in {"check", "work", "release"} /\ MayStep(e)
  /\ Resume(local[e].workflow) # pc[e]
  /\ Goto(e, Resume(local[e].workflow))
  /\ UNCHANGED <<tables, lock, ended, log, local, found>>

\* An execution whose workflow was cancelled, or was ended by another one.
Abandon(e) ==
  /\ pc[e] \in {"check", "work", "release", "finish"} /\ ~MayStep(e)
  /\ Leave(e)
  /\ UNCHANGED <<tables, lock, ended, log, found>>

\* The process dies; its connection, and the lock with it, goes.
Crash(e) ==
  /\ pc[e] # "off"
  /\ Leave(e)
  /\ lock' = IF lock = e THEN None ELSE lock
  /\ UNCHANGED <<tables, ended, log, found>>

\* DBOS.cancel_workflow, at any step of the workflow.
Cancel(w) ==
  /\ w \in Cancellable \ ended
  /\ ended' = ended \union {w}
  /\ UNCHANGED <<tables, lock, log, pc, local, found>>

-----------------------------------------------------------------------------
(* TokenGate.acquire: a loop of try_acquire_tokens steps.                  *)

Answer(e, acquired) ==
  /\ Goto(e, "answer")
  /\ local' = [local EXCEPT ![e] = [@ EXCEPT !.capacity = 0, !.batch = {},
                                            !.acquired = acquired]]

\* The look for a hold of this workflow takes no lock.
Check(e) ==
  LET w == local[e].workflow IN
  /\ pc[e] = "check" /\ MayStep(e)
  /\ log[w].stage = "waiting" /\ log[w].misses < Attempts[w]
  /\ IF HoldsOf(w) # {}
       THEN /\ Goto(e, "answer")
            /\ local' = [local EXCEPT ![e] = [@ EXCEPT !.attempt = log[w].misses, !.acquired = TRUE]]
       ELSE /\ Goto(e, "lock")
            /\ local' = [local EXCEPT ![e].attempt = log[w].misses]
  /\ UNCHANGED <<tables, lock, ended, log, found>>

\* fault: the pool row is read without FOR UPDATE.
LockPoolPlain(e) ==
  /\ pc[e] = "lock"
  /\ IF pool
       THEN /\ UNCHANGED lock
            /\ Goto(e, "count")
            /\ local' = [local EXCEPT ![e].capacity = EffectiveCapacity]
       ELSE Answer(e, FALSE) /\ UNCHANGED lock
  /\ UNCHANGED <<tables, ended, log, found>>

\* SELECT ... FOR UPDATE, then the capacity of the workers alive now.
LockPool(e) ==
  /\ pc[e] = "lock" /\ lock = None
  /\ IF pool
       THEN /\ lock' = e
            /\ Goto(e, "count")
            /\ local' = [local EXCEPT ![e].capacity = EffectiveCapacity]
       ELSE Answer(e, FALSE) /\ UNCHANGED lock
  /\ UNCHANGED <<tables, ended, log, found>>

Fits(e) == local[e].capacity - Held >= Weight[local[e].workflow]

\* The sum of the active holds; without room the session, and the lock, goes.
CountHolds(e) ==
  /\ pc[e] = "count"
  /\ IF Fits(e)
       THEN Goto(e, "insert") /\ UNCHANGED lock
       ELSE Goto(e, "scavenge") /\ lock' = None
  /\ local' = [local EXCEPT ![e].capacity = 0]
  /\ UNCHANGED <<tables, ended, log, found>>

\* fault: there is no such index.
IndexRejectsNone(w) == FALSE

\* The partial unique index on (pool_name, workflow_id) WHERE released_at IS NULL.
IndexRejects(w) == HoldsOf(w) # {}

RowsOf(w) == {r \in rows : r[1] = w}
NewRow(w) == <<w, Cardinality(RowsOf(w)) + 1>>

\* The commit; an IntegrityError of the index counts as acquired.  The
\* connection may break after the commit, and the step then answers FALSE.
InsertHold(e) ==
  LET w == local[e].workflow IN
  /\ pc[e] = "insert"
  /\ IndexRejects(w) \/ Cardinality(RowsOf(w)) < MaxHolds[w]
  /\ rows' = IF IndexRejects(w) THEN rows ELSE rows \union {NewRow(w)}
  /\ lock' = None
  /\ \E acknowledged \in BOOLEAN : Answer(e, acknowledged)
  /\ UNCHANGED <<pool, registered, live, released, old, ended, log, found>>

\* A statement raises: rollback, and the gate takes it for a miss.
CheckRaises(e) ==
  LET w == local[e].workflow IN
  /\ pc[e] = "check" /\ MayStep(e)
  /\ log[w].stage = "waiting" /\ log[w].misses < Attempts[w]
  /\ Goto(e, "answer")
  /\ local' = [local EXCEPT ![e] = [@ EXCEPT !.attempt = log[w].misses, !.acquired = FALSE]]
  /\ UNCHANGED <<tables, lock, ended, log, found>>

AttemptRaises(e) ==
  /\ pc[e] \in {"lock", "count", "insert"}
  /\ Answer(e, FALSE)
  /\ lock' = IF lock = e THEN None ELSE lock
  /\ UNCHANGED <<tables, ended, log, found>>

\* A session of its own reads a batch of the active holds, in no given order.
ScavengeRead(e) ==
  /\ pc[e] = "scavenge"
  /\ \E batch \in SUBSET Active :
       /\ Cardinality(batch) <= ScavengeBatch
       /\ Cardinality(batch) < ScavengeBatch => batch = Active
       /\ local' = [local EXCEPT ![e].batch = batch]
  /\ Goto(e, "scavenging")
  /\ UNCHANGED <<tables, lock, ended, log, found>>

\* fault: the status of the workflow is not looked at.
ScavengeableAny(batch) == batch

\* Holds of ended workflows go by their row id, less those whose status
\* could not be read; none if the session fails.
Scavengeable(batch) == {r \in batch : r[1] \in ended}

ScavengeCommit(e) ==
  /\ pc[e] = "scavenging"
  /\ \E zombies \in SUBSET Scavengeable(local[e].batch) :
       released' = released \union zombies
  /\ Answer(e, FALSE)
  /\ UNCHANGED <<pool, registered, live, rows, old, lock, ended, log, found>>

\* DBOS records the answer, unless another execution recorded this step first:
\* then this one stops, until it may have to recover the workflow.
RecordAnswer(e) ==
  LET w == local[e].workflow IN
  /\ pc[e] = "answer"
  /\ IF log[w].stage = "waiting" /\ log[w].misses = local[e].attempt
       THEN /\ IF local[e].acquired
                 THEN log' = [log EXCEPT ![w].stage = "working"] /\ Goto(e, "work")
                 ELSE log' = [log EXCEPT ![w].misses = @ + 1] /\ Goto(e, "check")
            /\ local' = [local EXCEPT ![e] = [Idle EXCEPT !.workflow = w]]
       ELSE UNCHANGED log /\ Leave(e)
  /\ UNCHANGED <<tables, lock, ended, found>>

\* TimeoutError out of acquire: before the try, so nothing is released.
TimeOut(e) ==
  LET w == local[e].workflow IN
  /\ pc[e] = "check" /\ MayStep(e)
  /\ log[w].stage = "waiting" /\ log[w].misses = Attempts[w]
  /\ ended' = ended \union {w}
  /\ Leave(e)
  /\ UNCHANGED <<tables, lock, log, found>>

-----------------------------------------------------------------------------
(* The body of the workflow, and gate.release() in its finally.            *)

WorkDone(e) ==
  LET w == local[e].workflow IN
  /\ pc[e] = "work" /\ MayStep(e) /\ log[w].stage = "working"
  /\ log' = [log EXCEPT ![w].stage = "releasing"]
  /\ Goto(e, "release")
  /\ UNCHANGED <<tables, lock, ended, local, found>>

ReleaseTokens(e) ==
  /\ pc[e] = "release" /\ MayStep(e) /\ log[local[e].workflow].stage = "releasing"
  /\ released' = released \union HoldsOf(local[e].workflow)
  /\ Goto(e, "freed")
  /\ UNCHANGED <<pool, registered, live, rows, old, lock, ended, log, local, found>>

RecordRelease(e) ==
  LET w == local[e].workflow IN
  /\ pc[e] = "freed"
  /\ IF log[w].stage = "releasing"
       THEN /\ log' = [log EXCEPT ![w].stage = "done"]
            /\ Goto(e, "finish") /\ UNCHANGED local
       ELSE UNCHANGED log /\ Leave(e)
  /\ UNCHANGED <<tables, lock, ended, found>>

\* SUCCESS, or ERROR when the body raised.
Finish(e) ==
  /\ pc[e] = "finish" /\ MayStep(e)
  /\ ended' = ended \union {local[e].workflow}
  /\ Leave(e)
  /\ UNCHANGED <<tables, lock, log, found>>

-----------------------------------------------------------------------------
(* Workers of the pool.                                                    *)

EnsurePool ==
  /\ ~pool
  /\ pool' = TRUE
  /\ UNCHANGED <<registered, live, rows, released, old, lock, control, found>>

RegisterWorker(p) ==
  /\ pool
  /\ registered' = registered \union {p}
  /\ live' = live \union {p}
  /\ UNCHANGED <<pool, rows, released, old, lock, control, found>>

\* An UPDATE: it hits nothing once the clean-up has deleted the row.
Heartbeat(p) ==
  /\ p \in registered
  /\ live' = live \union {p}
  /\ UNCHANGED <<pool, registered, rows, released, old, lock, control, found>>

HeartbeatLapses(p) ==
  /\ p \in live
  /\ live' = live \ {p}
  /\ UNCHANGED <<pool, registered, rows, released, old, lock, control, found>>

DeregisterWorker(p) ==
  /\ p \in registered
  /\ registered' = registered \ {p}
  /\ live' = live \ {p}
  /\ UNCHANGED <<pool, rows, released, old, lock, control, found>>

-----------------------------------------------------------------------------
(* cleanup_stale_token_holds, scheduled every five minutes.                *)

HoldAges(r) ==
  /\ r \in Active \ old
  /\ old' = old \union {r}
  /\ UNCHANGED <<pool, registered, live, rows, released, lock, control, found>>

\* fault: the cut-off is compared the wrong way round.
FindYoungHolds ==
  /\ found = {} /\ Active \ old # {}
  /\ found' = Active \ old
  /\ UNCHANGED <<tables, lock, control>>

\* A schedule that finds none goes on to the workers.
FindStaleHolds ==
  /\ found = {} /\ Active \intersect old # {}
  /\ found' = Active \intersect old
  /\ UNCHANGED <<tables, lock, control>>

\* By pool and workflow id, not by the id of the row that was found.
ReleaseStaleHold(r) ==
  /\ r \in found
  /\ released' = released \union HoldsOf(r[1])
  /\ found' = found \ {r}
  /\ UNCHANGED <<pool, registered, live, rows, old, lock, control>>

\* A step raises and the workflow ends; the next schedule starts over.
CleanupRaises ==
  /\ found # {}
  /\ found' = {}
  /\ UNCHANGED <<tables, lock, control>>

\* fault: it deletes the rows whose heartbeat is fresh.
CleanupLiveWorkers ==
  /\ found = {}
  /\ registered' = registered \ live
  /\ UNCHANGED <<pool, live, rows, released, old, lock, control, found>>

CleanupStaleWorkers ==
  /\ found = {}
  /\ registered' = live
  /\ UNCHANGED <<pool, live, rows, released, old, lock, control, found>>

-----------------------------------------------------------------------------
Acquire(e) ==
  \/ Check(e) \/ LockPool(e) \/ CountHolds(e) \/ InsertHold(e)
  \/ ScavengeRead(e) \/ ScavengeCommit(e) \/ RecordAnswer(e) \/ TimeOut(e)

Body(e) == WorkDone(e) \/ ReleaseTokens(e) \/ RecordRelease(e) \/ Finish(e)

Recovery(e) == CatchUp(e) \/ Abandon(e) \/ Crash(e) \/ CheckRaises(e) \/ AttemptRaises(e)

WorkerStep(p) ==
  RegisterWorker(p) \/ Heartbeat(p) \/ HeartbeatLapses(p) \/ DeregisterWorker(p)

Cleanup == 
  \/ FindStaleHolds \/ CleanupRaises \/ CleanupStaleWorkers
  \/ \E r \in rows : ReleaseStaleHold(r) \/ HoldAges(r)

Next ==
  \/ \E e \in Executions : \/ Acquire(e) \/ Body(e) \/ Recovery(e)
                          \/ \E w \in Workflows : Start(e, w)
  \/ \E w \in Workflows : Cancel(w)
  \/ EnsurePool
  \/ \E p \in Workers : WorkerStep(p)
  \/ Cleanup

Spec == Init /\ [][Next]_vars

ReleaseStaleOf(w) == \E r \in rows : r[1] = w /\ ReleaseStaleHold(r)

\* Time passes, the schedule fires, and the clean-up's steps do not fail for
\* ever.  Nothing is assumed of the executions.
Fairness ==
  /\ WF_vars(FindStaleHolds)
  /\ \A w \in Workflows : /\ WF_vars(\E r \in rows : r[1] = w /\ HoldAges(r))
                          /\ SF_vars(ReleaseStaleOf(w))

FairSpec == Spec /\ Fairness

-----------------------------------------------------------------------------
Locals(known) == [workflow : Workflows \union {None}, attempt : Nat, capacity : Nat,
                  batch : SUBSET known, acquired : BOOLEAN]

Labels == {"off", "check", "lock", "count", "insert", "scavenge", "scavenging",
           "answer", "work", "release", "freed", "finish"}

TypeOK ==
  /\ pool \in BOOLEAN
  /\ lock \in Executions \union {None}
  /\ registered \subseteq Workers /\ live \subseteq registered
  /\ rows \subseteq Workflows \X (Nat \ {0}) /\ IsFiniteSet(rows)
  /\ released \subseteq rows /\ old \subseteq rows
  /\ ended \subseteq Workflows
  /\ log \in [Workflows -> [misses : Nat, stage : Stages]]
  /\ pc \in [Executions -> Labels]
  /\ local \in [Executions -> Locals(rows)]
  /\ \A e \in Executions : pc[e] # "off" => local[e].workflow \in Workflows
  /\ found \subseteq rows

\* However acquisitions interleave with each other, with releases and with
\* workers coming and going, the tokens held never exceed what the pool is
\* worth at its best: each sum is read and acted on under the row lock.
CapacityRespected == Held <= PeakCapacity

\* A workflow is charged once, whatever overlapping executions of it do
\* between the unlocked look for a hold and the insert.
OneActiveHold == \A r, s \in Active : r[1] = s[1] => r = s

\* A workflow recorded as working has its tokens, or lost them to the
\* clean-up after an hour; neither the scavenger nor another execution's
\* release takes them while it works.
WorkIsBacked ==
  \A w \in Workflows \ ended : log[w].stage = "working" =>
    \E r \in rows : r[1] = w /\ (r \notin released \/ r \in old)

\* A hold a workflow leaves behind (lost answer, time-out, cancel, late insert
\* of an overlapping execution) is taken back.
LeakedHoldsAreFreed ==
  \A w \in Workflows : w \in ended ~> (w \in ended /\ HoldsOf(w) = {})
=============================================================================
