----------------------------- MODULE Simulation -----------------------------
(* A simulation run of the opennotes server: its row, its agents, the
   orchestrator workflows that spawn agents and schedule their turns, the turn
   workflows, and the calls that create, pause, resume and cancel the run.

   Workflows are DBOS's: one is started once under its name, goes on after a
   crash, and executes a step again that was not recorded.  An orchestrator is
   named after the generation it was dispatched for, a turn after its agent,
   generation, number and retry.  The status of a cancelled workflow changes at
   once, its code stops before its next step.  Iterations, empty iterations and
   failed dispatches are not counted: that a limit is reached is a choice.  *)
EXTENDS Naturals, FiniteSets

CONSTANTS
    MaxAgents,       \* bound: the agent instances
    SpawnBatch,      \* SPAWN_BATCH_SIZE
    MaxTurns,        \* max_turns_per_agent
    MaxRetries,      \* MAX_TURN_RETRIES
    MaxGeneration,   \* bound: the generations of the run
    Setups           \* what is played, as records of
                     \*   content: whether the community has requests to turn to
                     \*   active, spawns: max_active_agents, max_total_spawns
                     \*   generations, commands, setbacks: bounds on the run's
                     \*     generations, on the calls, and on the failures,
                     \*     crashes and limits that are reached

ASSUME SimulationConstants ==
    /\ MaxAgents \in Nat /\ SpawnBatch \in Nat /\ MaxTurns \in Nat
    /\ MaxRetries \in Nat /\ MaxGeneration \in Nat \ {0}
    /\ Setups \subseteq [content : BOOLEAN, active : Nat, spawns : Nat,
                         generations : 1 .. MaxGeneration,
                         commands : Nat, setbacks : Nat]

VARIABLES
    setup,        \* one of the Setups
    sim,          \* the simulation_runs row
    agents,       \* the sim_agent_instances rows
    orchs,        \* the orchestrator workflows, by the generation in their name
    turns,        \* the turn workflows
    failures,     \* the turns that have shown as failed or cancelled
    api,          \* the create or resume call in progress: one at a time
    cancelPasses, \* the calls that have yet to cancel the turn workflows
    collided,     \* two orchestrators have inserted agents at once
    commands,
    setbacks

simulationVars == <<setup, sim, agents, orchs, turns, failures, api, cancelPasses,
                    collided, commands, setbacks>>

butOrchs == <<setup, sim, agents, turns, failures, api, cancelPasses, collided, commands>>

\* Agents are numbered in the order of their creation.
Agents == 1 .. MaxAgents
Generations == 1 .. MaxGeneration
TurnIds == [agent : Agents, gen : Generations, number : 1 .. MaxTurns,
            retry : 0 .. MaxRetries - 1]

SimEnded == {"completed", "cancelled", "failed"}
Halted == sim.status \in SimEnded \cup {"paused"}

OrchestratorAt(pc) == [pc |-> pc, gen |-> 0, paused |-> FALSE, active |-> 0,
                     total |-> 0, found |-> {}, final |-> "completed"]
ApiIdle == [call |-> "none", pc |-> "idle", reset |-> FALSE, renew |-> FALSE]

SimulationInit ==
    /\ setup \in Setups
    /\ sim = [status |-> "pending", generation |-> 1]
    /\ agents = [a \in Agents |-> [state |-> "absent", turns |-> 0, retries |-> 0]]
    /\ orchs = [w \in Generations |-> OrchestratorAt("none")]
    /\ turns = [t \in TurnIds |-> [status |-> "none", acting |-> FALSE]]
    /\ failures = {}
    /\ api = [ApiIdle EXCEPT !.call = "create", !.pc = "dispatch"]
    /\ cancelPasses = 0 /\ collided = FALSE /\ commands = 0 /\ setbacks = 0

Setback == setbacks < setup.setbacks /\ setbacks' = setbacks + 1
NoSetback == setbacks' = setbacks
Command == commands < setup.commands /\ commands' = commands + 1 /\ NoSetback

\* A resume holds the row (SELECT ... FOR UPDATE) while it asks DBOS.
RowLocked == api.pc = "write"

InState(state) == {a \in Agents : agents[a].state = state}
Spawned == Agents \ InState("absent")
Lesser(m, n) == IF m < n THEN m ELSE n

-----------------------------------------------------------------------------
(* run_orchestrator.                                                        *)

OrchAt(w, pc) == orchs[w].pc = pc
\* The step is recorded; or the process dies before, and the step is repeated.
Recorded(w, next) == \/ NoSetback /\ orchs' = [orchs EXCEPT ![w] = next]
                     \/ Setback /\ UNCHANGED orchs
Goes(w, next) == NoSetback /\ orchs' = [orchs EXCEPT ![w] = next]
Fails(w, next) == Setback /\ orchs' = [orchs EXCEPT ![w] = next]
To(w, pc) == [orchs[w] EXCEPT !.pc = pc]
EndsAs(w, status) == [To(w, "finalize") EXCEPT !.final = status]

\* The workflow reads its generation here, whatever generation is in its name.
InitializeRun(w) ==
    /\ OrchAt(w, "queued") /\ ~RowLocked
    /\ IF sim.status \in {"pending", "running"}
       THEN /\ sim' = [sim EXCEPT !.status = "running"]
            /\ Recorded(w, [To(w, "check") EXCEPT !.gen = sim.generation])
       ELSE UNCHANGED sim /\ Goes(w, OrchestratorAt("closing"))
    /\ UNCHANGED <<setup, agents, turns, failures, api, cancelPasses, collided, commands>>

GateTimesOut(w) ==
    /\ OrchAt(w, "queued") /\ Fails(w, OrchestratorAt("closing"))
    /\ UNCHANGED butOrchs

\* Mutant: a paused run is not told from a running one.
NeverPaused == FALSE

SeenPaused == sim.status = "paused"

\* Where an iteration goes on when it has counted the active agents.
Populated(w, active) == [orchs[w] EXCEPT !.pc = IF active > 1 THEN "remove" ELSE "detect",
                                         !.paused = FALSE, !.active = active]

\* spawn_agents_step counts all agents itself, but not the active ones.
Spawning(w, active) ==
    LET total == Cardinality(Spawned)
    IN  IF active < setup.active /\ total < setup.spawns
        THEN [orchs[w] EXCEPT !.pc = "insert", !.paused = FALSE,
                              !.active = active, !.total = total]
        ELSE Populated(w, active)

\* Without content, or after an error, the iteration ends, and the tenth such
\* iteration pauses the run.
Iterations(w) ==
    {[orchs[w] EXCEPT !.paused = FALSE]}
    \cup IF setup.content THEN {Spawning(w, Cardinality(InState("active")))} ELSE {}

Iterate(w) == \/ \E next \in Iterations(w) : Goes(w, next)
              \/ Fails(w, [To(w, "pause") EXCEPT !.paused = FALSE])

\* After a pause: superseded by a later generation, unless neither the
\* configuration nor the generation can be read.
Superseded(w) == orchs[w].paused /\ sim.generation # orchs[w].gen

\* What an iteration reads before it writes: the status, the generation, the
\* content, the agents.  A status that cannot be read counts as running, ten
\* times in a row as failed.
CheckRun(w) ==
    /\ OrchAt(w, "check")
    /\ \/ sim.status \in SimEnded /\ Goes(w, EndsAs(w, sim.status))
       \/ SeenPaused /\ Goes(w, [orchs[w] EXCEPT !.paused = TRUE])
       \/ /\ sim.status \notin SimEnded /\ ~SeenPaused
          /\ IF Superseded(w) THEN Goes(w, OrchestratorAt("closing")) ELSE Iterate(w)
       \/ Fails(w, EndsAs(w, "failed"))
    /\ UNCHANGED butOrchs

\* The status of a stopped run cannot be read, or its new generation cannot.
IterateBlindly(w) ==
    /\ OrchAt(w, "check")
    /\ \E next \in Iterations(w) :
          \/ Halted /\ Fails(w, IF Superseded(w) THEN OrchestratorAt("closing") ELSE next)
          \/ ~Halted /\ Superseded(w) /\ Fails(w, next)
    /\ UNCHANGED butOrchs

\* MAX_ITERATIONS.
OutOfIterations(w) ==
    /\ OrchAt(w, "check") /\ Fails(w, EndsAs(w, "completed"))
    /\ UNCHANGED butOrchs

\* Mutant: set_run_status_step without the expected status.
PauseAnyway == [sim EXCEPT !.status = "paused"]

PauseIfRunning == IF sim.status = "running" THEN [sim EXCEPT !.status = "paused"]
                  ELSE sim

AutoPause(w) ==
    /\ OrchAt(w, "pause") /\ ~RowLocked
    /\ \/ sim' = PauseIfRunning /\ Recorded(w, To(w, "check"))
       \/ UNCHANGED sim /\ Fails(w, To(w, "check"))
    /\ UNCHANGED <<setup, agents, turns, failures, api, cancelPasses, collided, commands>>

\* Mutant: the total is forgotten.
RoomForActive(w) == Lesser(SpawnBatch, setup.active - orchs[w].active)

Room(w) == Lesser(Lesser(SpawnBatch, setup.active - orchs[w].active),
                  setup.spawns - orchs[w].total)

\* The transaction locks nothing; executed again, it counts again.
InsertAgents(w) ==
    LET last == Cardinality(Spawned) + Room(w)
        new == {a \in InState("absent") : a <= last}
    IN  /\ OrchAt(w, "insert")
        /\ agents' = [a \in Agents |->
                         IF a \in new
                         THEN [state |-> "active", turns |-> 0, retries |-> 0]
                         ELSE agents[a]]
        /\ \/ Goes(w, [Populated(w, orchs[w].active + Cardinality(new))
                          EXCEPT !.total = 0])
           \/ Fails(w, To(w, "spawn"))
        /\ collided' = (collided \/ \E v \in Generations \ {w} : OrchAt(v, "insert"))
        /\ UNCHANGED <<setup, sim, turns, failures, api, cancelPasses, commands>>

SpawnAgain(w) ==
    /\ OrchAt(w, "spawn")
    /\ Goes(w, [Spawning(w, orchs[w].active) EXCEPT !.paused = FALSE])
    /\ UNCHANGED butOrchs

SpawnFails(w) ==
    /\ OrchAt(w, "insert") /\ Fails(w, [Populated(w, orchs[w].active) EXCEPT !.total = 0])
    /\ UNCHANGED butOrchs

\* Chance decides whether an agent goes: the oldest one whose row no other
\* transaction has locked.
RemoveAgent(w) ==
    /\ OrchAt(w, "remove")
    /\ \/ UNCHANGED agents /\ Goes(w, To(w, "detect"))
       \/ /\ \E a \in InState("active") :
                agents' = [agents EXCEPT ![a].state = "removed"]
          /\ Recorded(w, To(w, "detect"))
    /\ UNCHANGED <<setup, sim, turns, failures, api, cancelPasses, collided, commands>>

\* What one query reads of the active agents with turns left.
Due == {[agent |-> a, number |-> agents[a].turns + 1, retry |-> agents[a].retries] :
           a \in {b \in InState("active") : agents[b].turns < MaxTurns}}

\* Mutant: a turn is not told from its retries.
FirstTry(w, d) == [agent |-> d.agent, gen |-> orchs[w].gen, number |-> d.number,
                   retry |-> 0]

TurnOf(w, d) == [agent |-> d.agent, gen |-> orchs[w].gen, number |-> d.number,
                 retry |-> d.retry]

\* Mutant: a turn that had nothing to do counts as stuck, too.
NoLongerRuns(t) == t \in TurnIds /\ turns[t].status \in {"failed", "success"}

Failed(t) == t \in TurnIds /\ turns[t].status = "failed"

\* Where no turn is stuck, the schedule reads the same agents.
DetectStuck(w) ==
    LET stuck == {d \in Due : Failed(TurnOf(w, d))}
        next == [orchs[w] EXCEPT !.active = 0]
    IN  /\ OrchAt(w, "detect")
        /\ Goes(w, IF stuck = {} THEN [next EXCEPT !.pc = "dispatch", !.found = Due]
                   ELSE [next EXCEPT !.pc = "retry", !.found = stuck])
        /\ UNCHANGED butOrchs

CountRetries(w) ==
    /\ OrchAt(w, "retry")
    /\ agents' = [a \in Agents |->
                     IF \E d \in orchs[w].found : d.agent = a
                     THEN [agents[a] EXCEPT !.retries =
                             (CHOOSE d \in orchs[w].found : d.agent = a).retry + 1]
                     ELSE agents[a]]
    /\ \/ Goes(w, [To(w, "dispatch") EXCEPT !.found = Due'])
       \/ Fails(w, [To(w, "detect") EXCEPT !.found = {}])
    /\ UNCHANGED <<setup, sim, turns, failures, api, cancelPasses, collided, commands>>

\* The circuit breaker is open.
SkipSchedule(w) ==
    /\ OrchAt(w, "dispatch") /\ Fails(w, [To(w, "check") EXCEPT !.found = {}])
    /\ UNCHANGED butOrchs

EnqueueTurns(ids) == turns' = [t \in TurnIds |->
                             IF t \in ids /\ turns[t].status = "none"
                             THEN [status |-> "enqueued", acting |-> FALSE]
                             ELSE turns[t]]

\* schedule_turns_step is no step, and after a crash it is called again.  After the pause
\* between iterations the skipped turns are counted.
ScheduleTurns(w) ==
    LET exhausted == {d \in orchs[w].found : d.retry >= MaxRetries}
        due == {TurnOf(w, d) : d \in orchs[w].found \ exhausted}
        next == [orchs[w] EXCEPT !.found = {}]
    IN  /\ OrchAt(w, "dispatch")
        /\ \/ /\ EnqueueTurns(due)
              /\ agents' = [a \in Agents |->
                               IF /\ agents[a].state = "active"
                                  /\ \E d \in exhausted : d.agent = a
                               THEN [agents[a] EXCEPT !.state = "exhausted"]
                               ELSE agents[a]]
              /\ \/ Goes(w, [next EXCEPT !.pc = "check"])
                 \/ Fails(w, [next EXCEPT !.pc = "pause"])
           \/ /\ \E some \in SUBSET due : EnqueueTurns(some)
              /\ UNCHANGED agents
              /\ \E pc \in {"check", "schedule"} : Fails(w, [next EXCEPT !.pc = pc])
        /\ UNCHANGED <<setup, sim, failures, api, cancelPasses, collided, commands>>

ScheduleAgain(w) ==
    /\ OrchAt(w, "schedule") /\ Goes(w, [To(w, "dispatch") EXCEPT !.found = Due])
    /\ UNCHANGED butOrchs

\* finalize_run_step looks at neither the status nor the generation of the row.
FinalizeAs(status) ==
    /\ sim' = [sim EXCEPT !.status = status]
    /\ agents' = [a \in Agents |->
                     IF agents[a].state = "active"
                     THEN [agents[a] EXCEPT
                             !.state = IF status = "completed" THEN "completed"
                                       ELSE "removed"]
                     ELSE agents[a]]

FinalizeRun(w) ==
    /\ OrchAt(w, "finalize") /\ ~RowLocked
    /\ \/ FinalizeAs(orchs[w].final) /\ Recorded(w, OrchestratorAt("closing"))
       \/ FinalizeAs("failed") /\ Fails(w, OrchestratorAt("closing"))
       \/ UNCHANGED <<sim, agents>> /\ Fails(w, OrchestratorAt("closing"))
    /\ UNCHANGED <<setup, turns, failures, api, cancelPasses, collided, commands>>

CloseWorkflow(w) ==
    /\ OrchAt(w, "closing") /\ Goes(w, OrchestratorAt("ended"))
    /\ UNCHANGED butOrchs

OrchestratorStep(w) ==
    \/ InitializeRun(w) \/ CheckRun(w) \/ AutoPause(w) \/ InsertAgents(w)
    \/ SpawnAgain(w) \/ RemoveAgent(w) \/ DetectStuck(w) \/ CountRetries(w)
    \/ ScheduleTurns(w) \/ ScheduleAgain(w) \/ FinalizeRun(w) \/ CloseWorkflow(w)

OrchestratorTrouble(w) ==
    GateTimesOut(w) \/ IterateBlindly(w) \/ OutOfIterations(w) \/ SpawnFails(w)
    \/ SkipSchedule(w)

-----------------------------------------------------------------------------
(* run_agent_turn.  A turn that waits for the token gate counts as enqueued.  *)

Turn(t, status, acting) ==
    /\ turns' = [turns EXCEPT ![t] = [status |-> status, acting |-> acting]]
    /\ failures' = IF status = "failed" THEN failures \cup {t} ELSE failures

\* The run is looked at before and behind the gate; there may be nothing to
\* write about.
StartTurn(t) ==
    /\ turns[t].status = "enqueued"
    /\ \/ Turn(t, "success", FALSE)
       \/ ~Halted /\ Turn(t, "pending", TRUE)
    /\ NoSetback
    /\ UNCHANGED <<setup, sim, agents, orchs, api, cancelPasses, collided, commands>>

\* The gate times out, or the model call fails, which is not tried again.
FailTurn(t) ==
    /\ turns[t].status \in {"enqueued", "pending"}
    /\ Turn(t, "failed", FALSE)
    /\ NoSetback
    /\ UNCHANGED <<setup, sim, agents, orchs, api, cancelPasses, collided, commands>>

\* The workflow returns; DBOS may or may not let the answer of a cancelled one
\* stand.
Returns(t) == \/ Turn(t, "success", FALSE)
              \/ turns[t].status = "failed" /\ Turn(t, "failed", FALSE)

\* A step that has begun is carried out though its workflow is cancelled.  Turns
\* above the limit are not counted.
PersistState(t) ==
    /\ turns[t].acting
    /\ agents' = [agents EXCEPT ![t.agent].turns = Lesser(@ + 1, MaxTurns),
                                ![t.agent].retries = 0]
    /\ \/ NoSetback /\ Returns(t)
       \/ Setback /\ turns[t].status = "pending" /\ UNCHANGED <<turns, failures>>
    /\ UNCHANGED <<setup, sim, orchs, api, cancelPasses, collided, commands>>

\* A cancellation that is noticed before the step is caught.
NoticeCancel(t) ==
    /\ turns[t].status = "failed" /\ turns[t].acting
    /\ Returns(t)
    /\ NoSetback
    /\ UNCHANGED <<setup, sim, agents, orchs, api, cancelPasses, collided, commands>>

TurnStep(t) == StartTurn(t) \/ PersistState(t) \/ NoticeCancel(t)

-----------------------------------------------------------------------------
(* The calls of the API.                                                    *)

\* create_simulation and resume_simulation; create_task may fail though the
\* workflow is there, and the process may die.
DispatchOrchestrator ==
    LET queued == [orchs EXCEPT ![sim.generation].pc = "queued"]
    IN  /\ api.pc = "dispatch"
        /\ \/ NoSetback /\ orchs' = queued /\ api' = ApiIdle
           \/ Setback /\ orchs' \in {orchs, queued}
              /\ api' = [api EXCEPT !.pc = "failing"]
           \/ Setback /\ UNCHANGED orchs /\ api' = ApiIdle
        /\ UNCHANGED <<setup, sim, agents, turns, failures, cancelPasses, collided, commands>>

\* Only the resume looks whether the run still runs.
MarkDispatchFailed ==
    /\ api.pc = "failing" /\ api' = ApiIdle
    /\ sim' = IF api.call = "create" \/ sim.status = "running"
              THEN [sim EXCEPT !.status = "failed"] ELSE sim
    /\ NoSetback
    /\ UNCHANGED <<setup, agents, orchs, turns, failures, cancelPasses, collided, commands>>

PauseSimulation ==
    /\ Command /\ ~RowLocked /\ sim.status = "running"
    /\ sim' = [sim EXCEPT !.status = "paused"]
    /\ cancelPasses' = cancelPasses + 1
    /\ UNCHANGED <<setup, agents, orchs, turns, failures, api, collided>>

CancelSimulation ==
    /\ Command /\ ~RowLocked /\ sim.status \in {"pending", "running", "paused"}
    /\ sim' = [sim EXCEPT !.status = "cancelled"]
    /\ cancelPasses' = cancelPasses + 1
    /\ UNCHANGED <<setup, agents, orchs, turns, failures, api, collided>>

CancelWorkflows ==
    /\ Command /\ cancelPasses' = cancelPasses + 1
    /\ UNCHANGED <<setup, sim, agents, orchs, turns, failures, api, collided>>

\* A failure to list or to cancel is logged; a call may name one generation.
CancelTurns ==
    LET live == {t \in TurnIds : turns[t].status \in {"enqueued", "pending"}}
    IN  /\ cancelPasses > 0 /\ cancelPasses' = cancelPasses - 1
        /\ \E some \in SUBSET live :
              /\ turns' = [t \in TurnIds |->
                              IF t \in some
                              THEN [turns[t] EXCEPT !.status = "failed"]
                              ELSE turns[t]]
              /\ failures' = failures \cup some
              /\ IF some = live THEN NoSetback ELSE Setback
        /\ UNCHANGED <<setup, sim, agents, orchs, api, collided, commands>>

\* Resume first asks DBOS for orchestrators that are queued or running.
ResumeSimulation(reset) ==
    LET from == {"pending", "paused", "failed"}
                \cup IF reset THEN {"cancelled", "completed"} ELSE {}
        renew == \A w \in Generations : orchs[w].pc \in {"none", "ended"}
    IN  /\ Command /\ api.pc = "idle" /\ sim.status \in from
        /\ reset \/ renew => sim.generation < setup.generations
        /\ api' = [call |-> "resume", pc |-> "write", reset |-> reset,
                   renew |-> reset \/ renew]
        /\ UNCHANGED <<setup, sim, agents, orchs, turns, failures, cancelPasses, collided>>

ResumeWrites ==
    /\ api.pc = "write"
    /\ api' = IF api.renew THEN [ApiIdle EXCEPT !.call = "resume", !.pc = "dispatch"]
              ELSE ApiIdle
    /\ sim' = [status |-> "running",
               generation |-> IF api.renew THEN sim.generation + 1 ELSE sim.generation]
    /\ agents' = IF api.reset
                 THEN [a \in Agents |->
                         IF a \in Spawned
                         THEN [state |-> "active", turns |-> 0, retries |-> 0]
                         ELSE agents[a]]
                 ELSE agents
    /\ NoSetback
    /\ UNCHANGED <<setup, orchs, turns, failures, cancelPasses, collided, commands>>

SimulationNext ==
    \/ \E w \in Generations : OrchestratorStep(w) \/ OrchestratorTrouble(w)
    \/ \E t \in TurnIds : TurnStep(t) \/ FailTurn(t)
    \/ DispatchOrchestrator \/ MarkDispatchFailed
    \/ PauseSimulation \/ CancelSimulation \/ CancelWorkflows \/ CancelTurns
    \/ (\E reset \in BOOLEAN : ResumeSimulation(reset)) \/ ResumeWrites

\* DBOS recovers workflows, and a transaction ends.
SimulationFairness ==
    /\ \A w \in Generations : WF_simulationVars(OrchestratorStep(w))
    /\ \A t \in TurnIds : WF_simulationVars(TurnStep(t))
    /\ WF_simulationVars(ResumeWrites)

SimulationSpec ==
    SimulationInit /\ [][SimulationNext]_simulationVars /\ SimulationFairness

-----------------------------------------------------------------------------
(* Properties.                                                              *)

\* An agent that is removed for its failures has failed MaxRetries turns of its
\* own: stale counters, a resume and overlapping orchestrators that write over
\* each other (detect_stuck_agents_step, schedule_turns_step) never count one
\* turn twice.
RemovedForCauseFailed ==
    \A a \in InState("exhausted") :
        Cardinality({t \in failures : t.agent = a}) >= MaxRetries

\* No more agents are spawned than the configuration allows, though the step
\* that spawns them is executed again (spawn_agents_step), unless two
\* orchestrators insert at the same moment.
SpawnCap == ~collided => Cardinality(Spawned) <= setup.spawns

\* A cancelled or completed run goes on only by a resume with reset, which
\* starts a generation: no late pause, start or dispatch failure of the old one
\* brings it back.
EndedRunStaysEnded ==
    [][/\ sim.status \in {"cancelled", "completed"}
       /\ sim'.status \in {"pending", "running", "paused"}
       => sim'.generation > sim.generation]_simulationVars

-----------------------------------------------------------------------------
(* The inductive invariant.                                                 *)

AgentRow == [state : {"absent", "active", "completed", "removed", "exhausted"},
             turns : Nat, retries : Nat]

OrchestratorState ==
    [pc : {"none", "queued", "check", "pause", "insert", "spawn", "remove", "detect",
           "retry", "dispatch", "schedule", "finalize", "closing", "ended"},
     gen : Nat, paused : BOOLEAN, active : Nat, total : Nat,
     found : SUBSET [agent : Agents, number : Nat, retry : Nat], final : SimEnded]

SimRow == [status : {"pending", "running", "paused"} \cup SimEnded,
           generation : Generations]
TurnRow == [status : {"none", "enqueued", "pending", "success", "failed"},
            acting : BOOLEAN]
ApiState == [call : {"none", "create", "resume"},
             pc : {"idle", "dispatch", "failing", "write"},
             reset : BOOLEAN, renew : BOOLEAN]

\* The rows, the workflows, the call and the counters are of their types.
SimulationTypeOK ==
    /\ setup \in Setups
    /\ sim \in SimRow
    /\ agents \in [Agents -> AgentRow]
    /\ orchs \in [Generations -> OrchestratorState]
    /\ turns \in [TurnIds -> TurnRow]
    /\ failures \subseteq TurnIds
    /\ api \in ApiState
    /\ cancelPasses \in Nat /\ commands \in Nat /\ setbacks \in Nat
    /\ collided \in BOOLEAN

\* The agent has failed the first try, and every retry, below k, each in some
\* turn and generation.
HasFailed(a, k) == \A i \in 0 .. k - 1 : \E t \in failures : t.agent = a /\ t.retry = i

\* A counter of an agent, stored or read, counts tries that failed; a stuck turn
\* that a retry is about to be counted for has failed.
FailuresCounted ==
    /\ \A t \in TurnIds : turns[t].status = "failed" => t \in failures
    /\ \A a \in Agents : HasFailed(a, agents[a].retries)
    /\ \A a \in InState("exhausted") : HasFailed(a, MaxRetries)
    /\ \A w \in Generations : \A d \in orchs[w].found :
           /\ HasFailed(d.agent, d.retry)
           /\ OrchAt(w, "retry") => TurnOf(w, d) \in failures

\* Agents are numbered without gaps; an orchestrator about to insert has the
\* right total, while no other inserts.
SpawnsCounted ==
    /\ \E n \in 0 .. MaxAgents : Spawned = 1 .. n
    /\ ~collided => Cardinality(Spawned) <= setup.spawns
    /\ ~collided => \A w \in Generations :
           OrchAt(w, "insert") => orchs[w].total = Cardinality(Spawned)

\* A resume that holds the row starts a generation, or the run has not ended.
ResumeFits ==
    api.pc = "write" => /\ api.reset => api.renew
                        /\ api.renew => sim.generation < setup.generations
                        /\ api.renew \/ sim.status \notin {"cancelled", "completed"}

SimulationInv ==
    SimulationTypeOK /\ FailuresCounted /\ SpawnsCounted /\ ResumeFits

Quiet == /\ \A t \in TurnIds : /\ turns[t].status \notin {"enqueued", "pending"}
                               /\ ~turns[t].acting
         /\ \A w \in Generations : orchs[w].pc \in {"none", "check", "ended"}

\* A run that stays paused, cancelled, failed or completed comes to rest: the
\* turns enqueued by an iteration in progress end, and orchestrators only poll.
StoppedRunGoesQuiet == <>[]Halted => <>[]Quiet
=============================================================================
