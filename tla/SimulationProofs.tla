-------------------------- MODULE SimulationProofs --------------------------
(* Theorems about Simulation: agents that are removed for their failures have
   failed, the cap on agents holds, and a run that has ended stays ended, for any
   number of agents, turns, retries, generations, calls and setbacks.       *)
EXTENDS Simulation, FiniteSetTheorems, TLAPS

-----------------------------------------------------------------------------
(* The invariant, divided into the rows and the orchestrators.              *)

RowTypes ==
    /\ setup \in Setups
    /\ sim \in SimRow
    /\ agents \in [Agents -> AgentRow]
    /\ turns \in [TurnIds -> TurnRow]
    /\ failures \subseteq TurnIds
    /\ api \in ApiState
    /\ cancelPasses \in Nat /\ commands \in Nat /\ setbacks \in Nat
    /\ collided \in BOOLEAN

RowsFit ==
    /\ RowTypes
    /\ \A t \in TurnIds : turns[t].status = "failed" => t \in failures
    /\ \A a \in Agents : HasFailed(a, agents[a].retries)
    /\ \A a \in InState("exhausted") : HasFailed(a, MaxRetries)
    /\ \E n \in 0 .. MaxAgents : Spawned = 1 .. n
    /\ ~collided => Cardinality(Spawned) <= setup.spawns
    /\ ResumeFits

Tried(o, d) == [agent |-> d.agent, gen |-> o.gen, number |-> d.number, retry |-> d.retry]

\* What the orchestrator has read fits the rows.
OrchFits(o) ==
    /\ o \in OrchestratorState
    /\ \A d \in o.found : /\ HasFailed(d.agent, d.retry)
                          /\ o.pc = "retry" => Tried(o, d) \in failures
    /\ ~collided /\ o.pc = "insert" => o.total = Cardinality(Spawned)

LEMMA Divided ==
    SimulationInv <=> /\ RowsFit /\ orchs = [w \in Generations |-> orchs[w]]
                      /\ \A w \in Generations : OrchFits(orchs[w])
<1> USE DEF SimulationInv, SimulationTypeOK, RowTypes, FailuresCounted, SpawnsCounted,
            RowsFit, OrchFits, OrchAt, TurnOf, Tried
<1>1. ASSUME SimulationInv
      PROVE  RowsFit /\ orchs = [w \in Generations |-> orchs[w]]
    BY <1>1
<1>2. ASSUME SimulationInv, NEW w \in Generations PROVE OrchFits(orchs[w])
  <2>1. orchs[w] \in OrchestratorState
    BY <1>2
  <2> QED BY <1>2, <2>1
<1>3. ASSUME RowsFit, orchs = [w \in Generations |-> orchs[w]],
             \A w \in Generations : OrchFits(orchs[w])
      PROVE  SimulationInv
  <2>1. orchs \in [Generations -> OrchestratorState]
    BY <1>3
  <2>2. SimulationTypeOK
    BY <1>3, <2>1
  <2>3. FailuresCounted
    BY <1>3
  <2>4. SpawnsCounted
    BY <1>3
  <2> QED BY <1>3, <2>2, <2>3, <2>4
<1> QED BY <1>1, <1>2, <1>3

LEMMA DividedNext ==
    (/\ RowsFit /\ orchs = [w \in Generations |-> orchs[w]]
     /\ \A w \in Generations : OrchFits(orchs[w]))' => SimulationInv'
  BY Divided, PTL

\* Nothing has to have failed for a counter that is zero.
LEMMA NoneFailed == ASSUME NEW a PROVE HasFailed(a, 0)
  BY DEF HasFailed

LEMMA AgentsAreFinite ==
    /\ IsFiniteSet(Agents)
    /\ \A S \in SUBSET Agents : IsFiniteSet(S) /\ Cardinality(S) \in Nat
    /\ Cardinality(Spawned) \in Nat
    /\ \A state : Cardinality(InState(state)) \in Nat
<1>1. IsFiniteSet(Agents)
  BY SimulationConstants, FS_Interval DEF Agents
<1>2. ASSUME NEW S \in SUBSET Agents PROVE IsFiniteSet(S) /\ Cardinality(S) \in Nat
  BY <1>1, FS_Subset, FS_CardinalityType
<1>3. Spawned \in SUBSET Agents /\ \A state : InState(state) \in SUBSET Agents
  BY DEF Spawned, InState
<1> QED BY <1>1, <1>2, <1>3

\* A step of the rows that forgets no failure, spawns no agent, and counts
\* failures that there are.
LEMMA RowsStep ==
    ASSUME RowsFit, RowTypes', ResumeFits', failures \subseteq failures',
           \A t \in TurnIds : turns'[t].status = "failed" => t \in failures',
           \A a \in Agents : \/ agents'[a].retries = agents[a].retries
                             \/ HasFailed(a, agents'[a].retries),
           \A a \in Agents : agents'[a].state = "exhausted" =>
               agents[a].state = "exhausted" \/ HasFailed(a, MaxRetries),
           \A a \in Agents : agents'[a].state = "absent" <=> agents[a].state = "absent",
           setup' = setup, collided' = collided
    PROVE  RowsFit' /\ Spawned' = Spawned
<1>1. Spawned' = Spawned
  BY DEF Spawned, InState
<1>2. \A a \in Agents : HasFailed(a, agents'[a].retries)
  BY DEF RowsFit
<1>3. \A a \in Agents : HasFailed(a, agents[a].retries)'
  BY <1>2 DEF HasFailed
<1>4. \A a \in InState("exhausted")' : HasFailed(a, MaxRetries)
  BY DEF RowsFit, InState
<1>5. \A a \in InState("exhausted")' : HasFailed(a, MaxRetries)'
  BY <1>4 DEF HasFailed
<1>6. /\ (\E n \in 0 .. MaxAgents : Spawned = 1 .. n)'
      /\ (~collided => Cardinality(Spawned) <= setup.spawns)'
  BY <1>1 DEF RowsFit
<1> QED BY <1>1, <1>3, <1>5, <1>6 DEF RowsFit

\* What an orchestrator has read goes on fitting.
LEMMA OrchKept ==
    ASSUME NEW o, OrchFits(o), failures \subseteq failures', Spawned' = Spawned,
           collided' = collided
    PROVE  OrchFits(o)'
<1>1. \A d \in o.found : HasFailed(d.agent, d.retry)'
  BY DEF OrchFits, HasFailed
<1> QED BY <1>1 DEF OrchFits

\* One orchestrator goes on with what it has read, while the rows fit.
LEMMA OrchestratorMoves ==
    ASSUME SimulationInv, RowsFit', failures \subseteq failures', Spawned' = Spawned,
           collided' = collided, NEW w \in Generations, NEW o, OrchFits(o),
           orchs' = orchs \/ orchs' = [orchs EXCEPT ![w] = o]
    PROVE  SimulationInv'
<1>1. orchs = [v \in Generations |-> orchs[v]] /\ \A v \in Generations : OrchFits(orchs[v])
  BY Divided
<1>2. orchs' = [v \in Generations |-> orchs'[v]]
  BY <1>1
<1>3. ASSUME NEW v \in Generations PROVE OrchFits(orchs[v])'
  <2>1. PICK p : p = orchs'[v] /\ OrchFits(p)
    BY <1>1
  <2>2. OrchFits(p)'
    BY <2>1, OrchKept
  <2> QED BY <2>1, <2>2 DEF OrchFits
<1>4. RowsFit' /\ (orchs = [v \in Generations |-> orchs[v]])'
              /\ (\A v \in Generations : OrchFits(orchs[v]))'
  BY <1>2, <1>3
<1> QED BY <1>4, DividedNext

\* The same, when none of them does.
LEMMA RowsMove ==
    ASSUME SimulationInv, RowsFit', failures \subseteq failures', Spawned' = Spawned,
           collided' = collided, orchs' = orchs
    PROVE  SimulationInv'
<1>1. PICK w \in Generations : TRUE
  BY SimulationConstants DEF Generations
<1>2. OrchFits(orchs[w])
  BY Divided
<1> QED BY <1>2, OrchestratorMoves

-----------------------------------------------------------------------------
(* What an orchestrator goes on with.                                       *)

OrchPcs == {"none", "queued", "check", "pause", "insert", "spawn", "remove", "detect",
            "retry", "dispatch", "schedule", "finalize", "closing", "ended"}
Reads == SUBSET [agent : Agents, number : Nat, retry : Nat]

\* A step of a workflow is recorded, or it is not.
LEMMA Progress ==
    ASSUME SimulationInv, NEW w \in Generations, NEW o,
           Goes(w, o) \/ Fails(w, o) \/ Recorded(w, o)
    PROVE  /\ setbacks' \in Nat
           /\ orchs' = orchs \/ orchs' = [orchs EXCEPT ![w] = o]
<1>1. setbacks \in Nat
  BY DEF SimulationInv, SimulationTypeOK
<1> QED BY <1>1 DEF Goes, Fails, Recorded, Setback, NoSetback

LEMMA OrchestratorFits ==
    ASSUME SimulationInv, NEW w \in Generations
    PROVE  OrchFits(orchs[w]) /\ orchs[w] \in OrchestratorState
  BY Divided DEF OrchFits

LEMMA Placed == OrchFits(OrchestratorAt("closing")) /\ OrchFits(OrchestratorAt("ended"))
<1>1. ASSUME NEW pc \in OrchPcs PROVE OrchestratorAt(pc) \in OrchestratorState
  BY DEF OrchestratorAt, OrchestratorState, OrchPcs, SimEnded
<1>2. \A pc : OrchestratorAt(pc).found = {} /\ OrchestratorAt(pc).pc = pc
  BY DEF OrchestratorAt
<1>3. "closing" \in OrchPcs /\ "ended" \in OrchPcs
  BY DEF OrchPcs
<1>4. /\ OrchestratorAt("closing") \in OrchestratorState
      /\ OrchestratorAt("ended") \in OrchestratorState
  BY <1>1, <1>3
<1> QED BY <1>2, <1>4 DEF OrchFits

\* Somewhere but at an insert or a retry, with agents whose tries have failed.
LEMMA Elsewhere ==
    ASSUME NEW o \in OrchestratorState, o.pc \notin {"insert", "retry"},
           \A d \in o.found : HasFailed(d.agent, d.retry)
    PROVE  OrchFits(o)
  BY DEF OrchFits

LEMMA GoesTo ==
    ASSUME NEW o \in OrchestratorState, NEW pc \in OrchPcs
    PROVE  LET p == [o EXCEPT !.pc = pc]
           IN  p \in OrchestratorState /\ p.pc = pc /\ p.found = o.found /\ p.gen = o.gen
<1> DEFINE p == [o EXCEPT !.pc = pc]
<1>1. p \in OrchestratorState
  BY Zenon DEF OrchestratorState, OrchPcs
<1>2. p.pc = pc /\ p.found = o.found /\ p.gen = o.gen
  BY DEF OrchestratorState
<1> QED BY <1>1, <1>2

LEMMA Pauses ==
    ASSUME NEW o \in OrchestratorState, NEW paused \in BOOLEAN
    PROVE  LET p == [o EXCEPT !.paused = paused]
           IN  /\ p \in OrchestratorState
               /\ p.pc = o.pc /\ p.found = o.found /\ p.gen = o.gen /\ p.total = o.total
<1> DEFINE p == [o EXCEPT !.paused = paused]
<1>1. p \in OrchestratorState
  BY Zenon DEF OrchestratorState
<1>2. p.pc = o.pc /\ p.found = o.found /\ p.gen = o.gen /\ p.total = o.total
  BY DEF OrchestratorState
<1> QED BY <1>1, <1>2

LEMMA Finds ==
    ASSUME NEW o \in OrchestratorState, NEW found \in Reads
    PROVE  LET p == [o EXCEPT !.found = found]
           IN  p \in OrchestratorState /\ p.pc = o.pc /\ p.found = found /\ p.gen = o.gen
<1> DEFINE p == [o EXCEPT !.found = found]
<1>1. p \in OrchestratorState
  BY Zenon DEF OrchestratorState, Reads
<1>2. p.pc = o.pc /\ p.found = found /\ p.gen = o.gen
  BY DEF OrchestratorState
<1> QED BY <1>1, <1>2

LEMMA Totals ==
    ASSUME NEW o \in OrchestratorState, NEW total \in Nat
    PROVE  LET p == [o EXCEPT !.total = total]
           IN  p \in OrchestratorState /\ p.pc = o.pc /\ p.found = o.found
<1> DEFINE p == [o EXCEPT !.total = total]
<1>1. p \in OrchestratorState
  BY Zenon DEF OrchestratorState
<1>2. p.pc = o.pc /\ p.found = o.found
  BY DEF OrchestratorState
<1> QED BY <1>1, <1>2

LEMMA Begins ==
    ASSUME NEW o \in OrchestratorState, NEW gen \in Nat
    PROVE  LET p == [o EXCEPT !.gen = gen]
           IN  p \in OrchestratorState /\ p.pc = o.pc /\ p.found = o.found
<1> DEFINE p == [o EXCEPT !.gen = gen]
<1>1. p \in OrchestratorState
  BY Zenon DEF OrchestratorState
<1>2. p.pc = o.pc /\ p.found = o.found
  BY DEF OrchestratorState
<1> QED BY <1>1, <1>2

LEMMA Finals ==
    ASSUME NEW o \in OrchestratorState, NEW final \in SimEnded
    PROVE  LET p == [o EXCEPT !.final = final]
           IN  p \in OrchestratorState /\ p.pc = o.pc /\ p.found = o.found
<1> DEFINE p == [o EXCEPT !.final = final]
<1>1. p \in OrchestratorState
  BY Zenon DEF OrchestratorState
<1>2. p.pc = o.pc /\ p.found = o.found
  BY DEF OrchestratorState
<1> QED BY <1>1, <1>2

\* Behind the spawning, with as many active agents as were counted.
LEMMA PopulatedFits ==
    ASSUME SimulationInv, NEW w \in Generations, NEW active \in Nat
    PROVE  LET p == Populated(w, active)
           IN  OrchFits(p) /\ p \in OrchestratorState /\ p.pc \in {"remove", "detect"}
               /\ p.found = orchs[w].found
<1> DEFINE o == orchs[w]  p == Populated(w, active)
<1>1. OrchFits(o) /\ o \in OrchestratorState
  BY OrchestratorFits
<1>2. p \in OrchestratorState
  BY <1>1, Zenon DEF OrchestratorState, Populated
<1>3. p.pc \in {"remove", "detect"} /\ p.found = o.found
  BY <1>1 DEF OrchestratorState, Populated
<1>4. OrchFits(p)
  BY <1>1, <1>2, <1>3 DEF OrchFits
<1> QED BY <1>2, <1>3, <1>4

\* An orchestrator about to insert has counted the agents.
LEMMA SpawningFits ==
    ASSUME SimulationInv, NEW w \in Generations, orchs[w].pc # "retry", NEW active \in Nat
    PROVE  OrchFits(Spawning(w, active)) /\ Spawning(w, active) \in OrchestratorState
<1> DEFINE o == orchs[w]  total == Cardinality(Spawned)
           p == [o EXCEPT !.pc = "insert", !.paused = FALSE, !.active = active,
                          !.total = total]
<1>1. OrchFits(o) /\ o \in OrchestratorState
  BY OrchestratorFits
<1>2. total \in Nat
  BY AgentsAreFinite
<1>3. p \in OrchestratorState
  BY <1>1, <1>2, Zenon DEF OrchestratorState
<1>4. p.pc = "insert" /\ p.found = o.found /\ p.total = total
  BY <1>1 DEF OrchestratorState
<1>5. OrchFits(p)
  BY <1>1, <1>3, <1>4 DEF OrchFits
<1>6. Spawning(w, active) \in {p, Populated(w, active)}
  BY DEF Spawning
<1> QED BY <1>3, <1>5, <1>6, PopulatedFits

-----------------------------------------------------------------------------
(* The steps of an orchestrator that only read.                             *)

LEMMA RowsKept ==
    ASSUME SimulationInv, UNCHANGED butOrchs, setbacks' \in Nat
    PROVE  RowsFit' /\ Spawned' = Spawned /\ failures' = failures /\ collided' = collided
<1>1. RowsFit
  BY Divided
<1>2. /\ setup' = setup /\ sim' = sim /\ agents' = agents /\ turns' = turns
      /\ failures' = failures /\ api' = api /\ cancelPasses' = cancelPasses
      /\ collided' = collided /\ commands' = commands
  BY DEF butOrchs
<1>3. RowTypes'
  BY <1>1, <1>2 DEF RowsFit, RowTypes
<1>4. ResumeFits'
  BY <1>1, <1>2 DEF RowsFit, ResumeFits
<1>5. \A t \in TurnIds : turns'[t].status = "failed" => t \in failures'
  BY <1>1, <1>2 DEF RowsFit
<1> QED BY <1>1, <1>2, <1>3, <1>4, <1>5, RowsStep

LEMMA OrchReads ==
    ASSUME SimulationInv, NEW w \in Generations, NEW o, OrchFits(o),
           Goes(w, o) \/ Fails(w, o) \/ Recorded(w, o), UNCHANGED butOrchs
    PROVE  SimulationInv'
<1>1. setbacks' \in Nat /\ (orchs' = orchs \/ orchs' = [orchs EXCEPT ![w] = o])
  BY Progress
<1>2. RowsFit' /\ Spawned' = Spawned /\ failures' = failures /\ collided' = collided
  BY <1>1, RowsKept
<1> QED BY <1>1, <1>2, OrchestratorMoves

LEMMA ToFits ==
    ASSUME SimulationInv, NEW w \in Generations, NEW pc \in OrchPcs \ {"insert", "retry"}
    PROVE  /\ OrchFits(To(w, pc)) /\ To(w, pc) \in OrchestratorState
           /\ To(w, pc).pc = pc /\ To(w, pc).found = orchs[w].found
           /\ To(w, pc).gen = orchs[w].gen
<1>1. OrchFits(orchs[w]) /\ orchs[w] \in OrchestratorState
  BY OrchestratorFits
<1>2. /\ To(w, pc) \in OrchestratorState /\ To(w, pc).pc = pc
      /\ To(w, pc).found = orchs[w].found /\ To(w, pc).gen = orchs[w].gen
  BY <1>1, GoesTo DEF To
<1> QED BY <1>1, <1>2 DEF OrchFits

LEMMA EndsFit ==
    ASSUME SimulationInv, NEW w \in Generations, NEW status \in SimEnded
    PROVE  OrchFits(EndsAs(w, status))
<1> DEFINE o == To(w, "finalize")
<1>1. OrchFits(o) /\ o \in OrchestratorState /\ o.pc = "finalize"
  BY ToFits DEF OrchPcs
<1> HIDE DEF o
<1> DEFINE p == [o EXCEPT !.final = status]
<1>2. p \in OrchestratorState /\ p.pc = "finalize" /\ p.found = o.found
  BY <1>1, Finals
<1>3. OrchFits(p)
  BY <1>1, <1>2, Elsewhere DEF OrchFits
<1> QED BY <1>3 DEF EndsAs, o

LEMMA PausedFits ==
    ASSUME SimulationInv, NEW w \in Generations, NEW paused \in BOOLEAN,
           OrchAt(w, "check")
    PROVE  OrchFits([orchs[w] EXCEPT !.paused = paused])
<1>1. OrchFits(orchs[w]) /\ orchs[w] \in OrchestratorState /\ orchs[w].pc = "check"
  BY OrchestratorFits DEF OrchAt
<1> DEFINE p == [orchs[w] EXCEPT !.paused = paused]
<1>2. p \in OrchestratorState /\ p.pc = "check" /\ p.found = orchs[w].found
  BY <1>1, Pauses
<1> QED BY <1>1, <1>2, Elsewhere DEF OrchFits

LEMMA IterationsFit ==
    ASSUME SimulationInv, NEW w \in Generations, OrchAt(w, "check")
    PROVE  /\ \A o \in Iterations(w) : OrchFits(o)
           /\ OrchFits([To(w, "pause") EXCEPT !.paused = FALSE])
<1>1. OrchFits([orchs[w] EXCEPT !.paused = FALSE])
  BY PausedFits
<1>2. OrchFits(Spawning(w, Cardinality(InState("active"))))
  BY SpawningFits, AgentsAreFinite DEF OrchAt
<1>3. OrchFits([To(w, "pause") EXCEPT !.paused = FALSE])
  <2> DEFINE o == To(w, "pause")
  <2>1. OrchFits(o) /\ o \in OrchestratorState /\ o.pc = "pause"
    BY ToFits DEF OrchPcs
  <2> HIDE DEF o
  <2> DEFINE p == [o EXCEPT !.paused = FALSE]
  <2>2. p \in OrchestratorState /\ p.pc = "pause" /\ p.found = o.found
    BY <2>1, Pauses
  <2>3. OrchFits(p)
    BY <2>1, <2>2, Elsewhere DEF OrchFits
  <2> QED BY <2>3 DEF o
<1> QED BY <1>1, <1>2, <1>3 DEF Iterations

\* The look at the run, in or out of trouble, and the skipped steps.
LEMMA ReadingSteps ==
    ASSUME SimulationInv, NEW w \in Generations,
           \/ CheckRun(w) \/ GateTimesOut(w) \/ IterateBlindly(w) \/ OutOfIterations(w)
           \/ CloseWorkflow(w)
    PROVE  SimulationInv'
<1>1. OrchFits(OrchestratorAt("closing")) /\ OrchFits(OrchestratorAt("ended"))
  BY Placed
<1>2. \A status \in SimEnded : OrchFits(EndsAs(w, status))
  BY EndsFit
<1>3. CASE CheckRun(w)
  <2>1. OrchAt(w, "check") /\ UNCHANGED butOrchs
    BY <1>3 DEF CheckRun
  <2>2. /\ OrchFits([orchs[w] EXCEPT !.paused = TRUE])
        /\ \A o \in Iterations(w) : OrchFits(o)
        /\ OrchFits([To(w, "pause") EXCEPT !.paused = FALSE])
    BY <2>1, PausedFits, IterationsFit
  <2>3. \E o : OrchFits(o) /\ (Goes(w, o) \/ Fails(w, o))
    <3>1. CASE sim.status \in SimEnded /\ Goes(w, EndsAs(w, sim.status))
      BY <1>2, <3>1
    <3>2. CASE Goes(w, [orchs[w] EXCEPT !.paused = TRUE])
      BY <2>2, <3>2
    <3>3. CASE Goes(w, OrchestratorAt("closing")) \/ Iterate(w)
      BY <1>1, <2>2, <3>3 DEF Iterate
    <3>4. CASE Fails(w, EndsAs(w, "failed"))
      BY <1>2, <3>4 DEF SimEnded
    <3> QED BY <1>3, <3>1, <3>2, <3>3, <3>4 DEF CheckRun
  <2> QED BY <2>1, <2>3, OrchReads
<1>4. CASE IterateBlindly(w)
  <2>1. OrchAt(w, "check") /\ UNCHANGED butOrchs
    BY <1>4 DEF IterateBlindly
  <2>2. \A o \in Iterations(w) : OrchFits(o)
    BY <2>1, IterationsFit
  <2>3. \E o : OrchFits(o) /\ Fails(w, o)
    BY <1>1, <1>4, <2>2 DEF IterateBlindly
  <2> QED BY <2>1, <2>3, OrchReads
<1>5. CASE GateTimesOut(w) \/ CloseWorkflow(w)
  <2>1. \E o : OrchFits(o) /\ (Goes(w, o) \/ Fails(w, o))
    BY <1>1, <1>5 DEF GateTimesOut, CloseWorkflow
  <2> QED BY <1>5, <2>1, OrchReads DEF GateTimesOut, CloseWorkflow
<1>6. CASE OutOfIterations(w)
  <2>1. OrchFits(EndsAs(w, "completed"))
    BY <1>2 DEF SimEnded
  <2> QED BY <1>6, <2>1, OrchReads DEF OutOfIterations
<1> QED BY <1>3, <1>4, <1>5, <1>6

LEMMA SpawnSteps ==
    ASSUME SimulationInv, NEW w \in Generations, SpawnAgain(w) \/ SpawnFails(w)
    PROVE  SimulationInv'
<1>1. orchs[w] \in OrchestratorState /\ orchs[w].active \in Nat
  BY OrchestratorFits DEF OrchestratorState
<1>2. CASE SpawnAgain(w)
  <2> DEFINE o == Spawning(w, orchs[w].active)
  <2>1. OrchFits(o) /\ o \in OrchestratorState
    BY <1>1, <1>2, SpawningFits DEF SpawnAgain, OrchAt
  <2> HIDE DEF o
  <2> DEFINE p == [o EXCEPT !.paused = FALSE]
  <2>2. /\ p \in OrchestratorState
        /\ p.pc = o.pc /\ p.found = o.found /\ p.gen = o.gen /\ p.total = o.total
    BY <2>1, Pauses
  <2>3. OrchFits(p)
    BY <2>1, <2>2 DEF OrchFits, Tried
  <2>4. Goes(w, p) /\ UNCHANGED butOrchs
    BY <1>2 DEF SpawnAgain, o
  <2> QED BY <2>3, <2>4, OrchReads
<1>3. CASE SpawnFails(w)
  <2> DEFINE o == Populated(w, orchs[w].active)
  <2>1. OrchFits(o) /\ o \in OrchestratorState /\ o.pc \in {"remove", "detect"}
    BY <1>1, PopulatedFits
  <2> HIDE DEF o
  <2> DEFINE p == [o EXCEPT !.total = 0]
  <2>2. p \in OrchestratorState /\ p.pc = o.pc /\ p.found = o.found
    BY <2>1, Totals
  <2>3. OrchFits(p)
    BY <2>1, <2>2, Elsewhere DEF OrchFits
  <2>4. Fails(w, p) /\ UNCHANGED butOrchs
    BY <1>3 DEF SpawnFails, o
  <2> QED BY <2>3, <2>4, OrchReads
<1> QED BY <1>2, <1>3

\* What a query reads of the active agents has failed as often as it says.
LEMMA DueFits ==
    ASSUME SimulationInv
    PROVE  Due \in Reads /\ \A d \in Due : HasFailed(d.agent, d.retry)
<1>1. \A a \in Agents : /\ agents[a].turns + 1 \in Nat /\ agents[a].retries \in Nat
                        /\ HasFailed(a, agents[a].retries)
  BY DEF SimulationInv, SimulationTypeOK, AgentRow, FailuresCounted
<1>2. InState("active") \subseteq Agents
  BY DEF InState
<1> QED BY <1>1, <1>2 DEF Due, Reads

LEMMA ScheduleReads ==
    ASSUME SimulationInv, NEW w \in Generations, SkipSchedule(w) \/ ScheduleAgain(w)
    PROVE  SimulationInv'
<1>1. CASE SkipSchedule(w)
  <2> DEFINE o == To(w, "check")  p == [o EXCEPT !.found = {}]
  <2>1. o \in OrchestratorState /\ o.pc = "check"
    BY ToFits DEF OrchPcs
  <2>2. Fails(w, p) /\ UNCHANGED butOrchs
    BY <1>1 DEF SkipSchedule
  <2> HIDE DEF o
  <2>3. p \in OrchestratorState /\ p.pc = "check" /\ p.found = {}
    BY <2>1, Finds DEF Reads
  <2>4. OrchFits(p)
    BY <2>3, Elsewhere
  <2> QED BY <2>2, <2>4, OrchReads
<1>2. CASE ScheduleAgain(w)
  <2> DEFINE o == To(w, "dispatch")  p == [o EXCEPT !.found = Due]
  <2>1. o \in OrchestratorState /\ o.pc = "dispatch"
    BY ToFits DEF OrchPcs
  <2>2. Goes(w, p) /\ UNCHANGED butOrchs
    BY <1>2 DEF ScheduleAgain
  <2> HIDE DEF o
  <2>3. p \in OrchestratorState /\ p.pc = "dispatch" /\ p.found = Due
    BY <2>1, DueFits, Finds
  <2>4. OrchFits(p)
    BY <2>3, DueFits, Elsewhere
  <2> QED BY <2>2, <2>4, OrchReads
<1> QED BY <1>1, <1>2

LEMMA DetectFits ==
    ASSUME SimulationInv, NEW w \in Generations, DetectStuck(w)
    PROVE  SimulationInv'
<1> DEFINE stuck == {d \in Due : Failed(TurnOf(w, d))}
           o == [orchs[w] EXCEPT !.active = 0]
           p == [o EXCEPT !.pc = "dispatch", !.found = Due]
           q == [o EXCEPT !.pc = "retry", !.found = stuck]
<1>1. orchs[w] \in OrchestratorState
  BY OrchestratorFits
<1>2. o \in OrchestratorState /\ o.gen = orchs[w].gen
  <2>1. o \in OrchestratorState
    BY <1>1, Zenon, 0 \in Nat DEF OrchestratorState
  <2>2. o.gen = orchs[w].gen
    BY <1>1 DEF OrchestratorState
  <2> QED BY <2>1, <2>2
<1>3. /\ Due \in Reads /\ \A d \in Due : HasFailed(d.agent, d.retry)
      /\ stuck \in Reads /\ stuck \subseteq Due
  BY DueFits DEF Reads
<1>4. \A d \in stuck : TurnOf(w, d) \in failures
  BY DEF Failed, SimulationInv, FailuresCounted
<1>5. Goes(w, IF stuck = {} THEN p ELSE q) /\ UNCHANGED butOrchs
  BY DEF DetectStuck
<1> HIDE DEF o, stuck
<1>6. OrchFits(p)
  <2>1. p \in OrchestratorState
    BY <1>2, <1>3, Zenon DEF OrchestratorState, Reads
  <2>2. p.pc = "dispatch" /\ p.found = Due
    BY <1>2 DEF OrchestratorState
  <2> QED BY <1>3, <2>1, <2>2, Elsewhere
<1>7. OrchFits(q)
  <2>1. q \in OrchestratorState
    BY <1>2, <1>3, Zenon DEF OrchestratorState, Reads
  <2>2. q.pc = "retry" /\ q.found = stuck /\ q.gen = orchs[w].gen
    BY <1>2 DEF OrchestratorState
  <2>3. \A d \in stuck : HasFailed(d.agent, d.retry) /\ Tried(q, d) \in failures
    BY <1>3, <1>4, <2>2 DEF TurnOf, Tried
  <2> QED BY <2>1, <2>2, <2>3 DEF OrchFits
<1> QED BY <1>5, <1>6, <1>7, OrchReads

-----------------------------------------------------------------------------
(* The steps of an orchestrator that write.                                 *)

LEMMA TypesHold ==
    ASSUME SimulationInv
    PROVE  RowsFit /\ RowTypes /\ ResumeFits /\ FailuresCounted
  BY Divided DEF RowsFit, SimulationInv

\* A step that writes only the run's status, while no resume holds the row.
LEMMA SimStep ==
    ASSUME SimulationInv, sim' \in SimRow, api' \in ApiState, api'.pc # "write",
           cancelPasses' \in Nat, commands' \in Nat, setbacks' \in Nat,
           UNCHANGED <<setup, agents, turns, failures, collided>>
    PROVE  RowsFit' /\ Spawned' = Spawned
<1>1. RowsFit /\ RowTypes
  BY TypesHold
<1>2. RowTypes'
  BY <1>1 DEF RowTypes
<1>3. ResumeFits'
  BY DEF ResumeFits
<1>4. \A t \in TurnIds : turns'[t].status = "failed" => t \in failures'
  BY <1>1 DEF RowsFit
<1> QED BY <1>1, <1>2, <1>3, <1>4, RowsStep

LEMMA StatusTypes ==
    ASSUME SimulationInv, NEW status \in {"pending", "running", "paused"} \cup SimEnded
    PROVE  [sim EXCEPT !.status = status] \in SimRow
  BY TypesHold DEF RowTypes, SimRow

LEMMA InitializeFits ==
    ASSUME SimulationInv, NEW w \in Generations, InitializeRun(w)
    PROVE  SimulationInv'
<1>1. /\ api.pc # "write"
      /\ UNCHANGED <<setup, agents, turns, failures, api, cancelPasses, collided, commands>>
  BY DEF InitializeRun, RowLocked
<1>2. RowTypes
  BY TypesHold
<1> DEFINE o == To(w, "check")  p == [o EXCEPT !.gen = sim.generation]
<1>3. OrchFits(p)
  <2>1. OrchFits(o) /\ o \in OrchestratorState /\ o.pc = "check"
    BY ToFits DEF OrchPcs
  <2>2. sim.generation \in Nat
    BY <1>2 DEF RowTypes, SimRow, Generations
  <2> HIDE DEF o
  <2>3. p \in OrchestratorState /\ p.pc = "check" /\ p.found = o.found
    BY <2>1, <2>2, Begins
  <2> QED BY <2>1, <2>3, Elsewhere DEF OrchFits
<1>4. \E q : OrchFits(q) /\ (Goes(w, q) \/ Recorded(w, q))
  BY <1>3, Placed DEF InitializeRun
<1>5. sim' \in SimRow
  BY <1>2, StatusTypes DEF InitializeRun, RowTypes
<1>6. setbacks' \in Nat
  BY <1>4, Progress
<1>7. RowsFit' /\ Spawned' = Spawned
  BY <1>1, <1>2, <1>5, <1>6, SimStep DEF RowTypes
<1> QED BY <1>1, <1>4, <1>7, Progress, OrchestratorMoves

LEMMA AutoPauseFits ==
    ASSUME SimulationInv, NEW w \in Generations, AutoPause(w)
    PROVE  SimulationInv'
<1>1. /\ api.pc # "write"
      /\ UNCHANGED <<setup, agents, turns, failures, api, cancelPasses, collided, commands>>
  BY DEF AutoPause, RowLocked
<1>2. RowTypes
  BY TypesHold
<1>3. OrchFits(To(w, "check"))
  BY ToFits DEF OrchPcs
<1>4. Recorded(w, To(w, "check")) \/ Fails(w, To(w, "check"))
  BY DEF AutoPause
<1>5. sim' \in SimRow
  BY <1>2, StatusTypes DEF AutoPause, PauseIfRunning, RowTypes
<1>6. /\ setbacks' \in Nat
      /\ orchs' = orchs \/ orchs' = [orchs EXCEPT ![w] = To(w, "check")]
  BY <1>4, Progress
<1>7. RowsFit' /\ Spawned' = Spawned
  BY <1>1, <1>2, <1>5, <1>6, SimStep DEF RowTypes
<1> QED BY <1>1, <1>3, <1>6, <1>7, OrchestratorMoves

\* A step that writes agents and turns, but no failure.
LEMMA AgentsStep ==
    ASSUME SimulationInv, agents' \in [Agents -> AgentRow], turns' \in [TurnIds -> TurnRow],
           \A t \in TurnIds : turns'[t].status = "failed" => turns[t].status = "failed",
           \A a \in Agents : \/ agents'[a].retries = agents[a].retries
                             \/ HasFailed(a, agents'[a].retries),
           \A a \in Agents : agents'[a].state = "exhausted" =>
               agents[a].state = "exhausted" \/ HasFailed(a, MaxRetries),
           \A a \in Agents : agents'[a].state = "absent" <=> agents[a].state = "absent",
           setbacks' \in Nat,
           UNCHANGED <<setup, sim, failures, api, cancelPasses, collided, commands>>
    PROVE  RowsFit' /\ Spawned' = Spawned
<1>1. RowsFit /\ RowTypes /\ ResumeFits /\ FailuresCounted
  BY TypesHold
<1>2. RowTypes'
  BY <1>1 DEF RowTypes
<1>3. ResumeFits'
  BY <1>1 DEF ResumeFits
<1>4. \A t \in TurnIds : turns'[t].status = "failed" => t \in failures'
  BY <1>1 DEF FailuresCounted
<1> QED BY <1>1, <1>2, <1>3, <1>4, RowsStep

LEMMA RemoveFits ==
    ASSUME SimulationInv, NEW w \in Generations, RemoveAgent(w)
    PROVE  SimulationInv'
<1>1. RowTypes
  BY TypesHold
<1>2. OrchFits(To(w, "detect"))
  BY ToFits DEF OrchPcs
<1>3. /\ setbacks' \in Nat
      /\ orchs' = orchs \/ orchs' = [orchs EXCEPT ![w] = To(w, "detect")]
  BY Progress DEF RemoveAgent
<1>4. /\ agents' \in [Agents -> AgentRow]
      /\ \A a \in Agents : /\ agents'[a].retries = agents[a].retries
                           /\ agents'[a].state \in {agents[a].state, "removed"}
                           /\ agents'[a].state # agents[a].state
                                  => agents[a].state = "active"
  BY <1>1 DEF RemoveAgent, RowTypes, AgentRow, InState
<1>5. UNCHANGED <<setup, sim, turns, failures, api, cancelPasses, collided, commands>>
  BY DEF RemoveAgent
<1>6. RowsFit' /\ Spawned' = Spawned
  BY <1>1, <1>3, <1>4, <1>5, AgentsStep DEF RowTypes
<1> QED BY <1>2, <1>3, <1>5, <1>6, OrchestratorMoves

\* A stuck turn has failed, and its agent one try more than those before.
LEMMA OneMore ==
    ASSUME NEW a, NEW k \in Nat, HasFailed(a, k),
           \E t \in failures : t.agent = a /\ t.retry = k
    PROVE  HasFailed(a, k + 1)
<1> SUFFICES ASSUME NEW i \in 0 .. (k + 1) - 1
             PROVE  \E t \in failures : t.agent = a /\ t.retry = i
  BY DEF HasFailed
<1>1. i = k \/ i \in 0 .. k - 1
  OBVIOUS
<1> QED BY <1>1 DEF HasFailed

LEMMA CountFits ==
    ASSUME SimulationInv, NEW w \in Generations, CountRetries(w)
    PROVE  SimulationInv'
<1> DEFINE found == orchs[w].found
           Stuck(a) == \E d \in found : d.agent = a
           first(a) == CHOOSE d \in found : d.agent = a
<1>1. RowTypes
  BY TypesHold
<1>2. /\ orchs[w].pc = "retry" /\ OrchFits(orchs[w])
      /\ found \in Reads
  BY OrchestratorFits DEF CountRetries, OrchAt, OrchestratorState, Reads
<1>3. ASSUME NEW d \in found PROVE HasFailed(d.agent, d.retry + 1) /\ d.retry + 1 \in Nat
  <2>1. HasFailed(d.agent, d.retry) /\ Tried(orchs[w], d) \in failures /\ d.retry \in Nat
    BY <1>2 DEF OrchFits, Reads
  <2>2. Tried(orchs[w], d).agent = d.agent /\ Tried(orchs[w], d).retry = d.retry
    BY DEF Tried
  <2> QED BY <2>1, <2>2, OneMore
<1>4. agents' = [a \in Agents |-> IF Stuck(a)
                                  THEN [agents[a] EXCEPT !.retries = first(a).retry + 1]
                                  ELSE agents[a]]
  BY DEF CountRetries
<1>5. ASSUME NEW a \in Agents
      PROVE  /\ agents'[a] \in AgentRow /\ agents'[a].state = agents[a].state
             /\ \/ agents'[a].retries = agents[a].retries
                \/ HasFailed(a, agents'[a].retries)
  <2>1. CASE Stuck(a)
    <3>1. first(a) \in found /\ first(a).agent = a
      BY <2>1
    <3>2. HasFailed(a, first(a).retry + 1) /\ first(a).retry + 1 \in Nat
      BY <1>3, <3>1
    <3> QED BY <1>1, <1>4, <2>1, <3>2 DEF RowTypes, AgentRow
  <2>2. CASE ~Stuck(a)
    BY <1>1, <1>4, <2>2 DEF RowTypes
  <2> QED BY <2>1, <2>2
<1>6. UNCHANGED <<setup, sim, turns, failures, api, cancelPasses, collided, commands>>
  BY DEF CountRetries
<1> DEFINE o == To(w, "dispatch")  p == [o EXCEPT !.found = Due']
           r == To(w, "detect")  q == [r EXCEPT !.found = {}]
<1>7. Goes(w, p) \/ Fails(w, q)
  BY DEF CountRetries
<1>8. /\ setbacks' \in Nat
      /\ orchs' = orchs \/ orchs' = [orchs EXCEPT ![w] = p]
                        \/ orchs' = [orchs EXCEPT ![w] = q]
  BY <1>7, Progress
<1>9. agents' \in [Agents -> AgentRow]
  BY <1>4, <1>5
<1>10. RowsFit' /\ Spawned' = Spawned
  BY <1>1, <1>5, <1>6, <1>8, <1>9, AgentsStep DEF RowTypes
<1>11. Due' \in Reads /\ \A d \in Due' : HasFailed(d.agent, d.retry)
  <2>1. \A a \in Agents : agents'[a].turns + 1 \in Nat /\ agents'[a].retries \in Nat
    BY <1>9 DEF AgentRow
  <2>2. \A a \in Agents : HasFailed(a, agents'[a].retries)
    BY <1>5, TypesHold DEF FailuresCounted
  <2>3. InState("active")' \subseteq Agents
    BY DEF InState
  <2> QED BY <2>1, <2>2, <2>3 DEF Due, Reads
<1>12. OrchFits(p)
  <2>1. o \in OrchestratorState /\ o.pc = "dispatch"
    BY ToFits DEF OrchPcs
  <2> HIDE DEF o
  <2>2. p \in OrchestratorState /\ p.pc = "dispatch" /\ p.found = Due'
    BY <1>11, <2>1, Finds
  <2> QED BY <1>11, <2>2, Elsewhere
<1>13. OrchFits(q)
  <2>1. r \in OrchestratorState /\ r.pc = "detect"
    BY ToFits DEF OrchPcs
  <2> HIDE DEF r
  <2>2. q \in OrchestratorState /\ q.pc = "detect" /\ q.found = {}
    BY <2>1, Finds DEF Reads
  <2> QED BY <2>2, Elsewhere
<1> HIDE DEF p, q
<1> QED BY <1>6, <1>8, <1>10, <1>12, <1>13, OrchestratorMoves

LEMMA ScheduleFits ==
    ASSUME SimulationInv, NEW w \in Generations, ScheduleTurns(w)
    PROVE  SimulationInv'
<1> DEFINE found == orchs[w].found
           exhausted == {d \in found : d.retry >= MaxRetries}
           next == [orchs[w] EXCEPT !.found = {}]
<1>1. RowTypes
  BY TypesHold
<1>2. /\ orchs[w] \in OrchestratorState /\ OrchFits(orchs[w]) /\ found \in Reads
  BY OrchestratorFits DEF OrchestratorState, Reads
<1>3. ASSUME NEW d \in exhausted PROVE HasFailed(d.agent, MaxRetries)
  BY <1>2, SimulationConstants DEF OrchFits, HasFailed, Reads
<1>4. PICK ids : EnqueueTurns(ids)
  BY DEF ScheduleTurns
<1>5. /\ turns' \in [TurnIds -> TurnRow]
      /\ \A t \in TurnIds : turns'[t].status = "failed" => turns[t].status = "failed"
  BY <1>1, <1>4 DEF RowTypes, EnqueueTurns, TurnRow
<1>6. \/ UNCHANGED agents
      \/ agents' = [a \in Agents |->
                       IF agents[a].state = "active" /\ \E d \in exhausted : d.agent = a
                       THEN [agents[a] EXCEPT !.state = "exhausted"]
                       ELSE agents[a]]
  BY DEF ScheduleTurns
<1>7. /\ agents' \in [Agents -> AgentRow]
      /\ \A a \in Agents :
            /\ agents'[a].retries = agents[a].retries
            /\ agents'[a].state = agents[a].state
               \/ /\ agents[a].state = "active" /\ agents'[a].state = "exhausted"
                  /\ HasFailed(a, MaxRetries)
  <2>1. CASE UNCHANGED agents
    BY <1>1, <2>1 DEF RowTypes
  <2>2. CASE agents' = [a \in Agents |->
                       IF agents[a].state = "active" /\ \E d \in exhausted : d.agent = a
                       THEN [agents[a] EXCEPT !.state = "exhausted"]
                       ELSE agents[a]]
    <3>1. ASSUME NEW a \in Agents
          PROVE  /\ agents'[a] \in AgentRow /\ agents'[a].retries = agents[a].retries
                 /\ agents'[a].state = agents[a].state
                    \/ /\ agents[a].state = "active" /\ agents'[a].state = "exhausted"
                       /\ \E d \in exhausted : d.agent = a
      BY <1>1, <2>2 DEF RowTypes, AgentRow
    <3> HIDE DEF exhausted
    <3>2. agents' \in [Agents -> AgentRow]
      BY <2>2, <3>1
    <3> QED BY <1>3, <3>1, <3>2
  <2> QED BY <1>6, <2>1, <2>2
<1>8. \E pc \in OrchPcs \ {"insert", "retry"} :
         LET p == [next EXCEPT !.pc = pc] IN Goes(w, p) \/ Fails(w, p)
  BY DEF ScheduleTurns, OrchPcs
<1>9. PICK pc \in OrchPcs \ {"insert", "retry"} :
         LET p == [next EXCEPT !.pc = pc] IN Goes(w, p) \/ Fails(w, p)
  BY <1>8
<1> DEFINE p == [next EXCEPT !.pc = pc]
<1>10. OrchFits(p)
  <2>1. next \in OrchestratorState /\ next.found = {}
    BY <1>2, Finds DEF Reads
  <2> HIDE DEF next
  <2>2. p \in OrchestratorState /\ p.pc = pc /\ p.found = {}
    BY <2>1, GoesTo
  <2> QED BY <2>2, Elsewhere
<1>11. setbacks' \in Nat /\ (orchs' = orchs \/ orchs' = [orchs EXCEPT ![w] = p])
  BY <1>9, Progress
<1>12. UNCHANGED <<setup, sim, failures, api, cancelPasses, collided, commands>>
  BY DEF ScheduleTurns
<1> HIDE DEF p
<1>13. RowsFit' /\ Spawned' = Spawned
  BY <1>5, <1>7, <1>11, <1>12, AgentsStep
<1> QED BY <1>10, <1>11, <1>12, <1>13, OrchestratorMoves

LEMMA FinalizeFits ==
    ASSUME SimulationInv, NEW w \in Generations, FinalizeRun(w)
    PROVE  SimulationInv'
<1>1. RowsFit /\ RowTypes /\ ResumeFits /\ FailuresCounted
  BY TypesHold
<1>2. orchs[w] \in OrchestratorState /\ orchs[w].final \in SimEnded
  BY OrchestratorFits DEF OrchestratorState
<1>3. OrchFits(OrchestratorAt("closing"))
  BY Placed
<1> DEFINE o == OrchestratorAt("closing")
<1>4. Recorded(w, o) \/ Fails(w, o)
  BY DEF FinalizeRun
<1>5. setbacks' \in Nat /\ (orchs' = orchs \/ orchs' = [orchs EXCEPT ![w] = o])
  BY <1>4, Progress
<1>6. /\ api.pc # "write"
      /\ UNCHANGED <<setup, turns, failures, api, cancelPasses, collided, commands>>
  BY DEF FinalizeRun, RowLocked
<1>7. \/ UNCHANGED <<sim, agents>>
      \/ \E status \in SimEnded : FinalizeAs(status)
  BY <1>2 DEF FinalizeRun, SimEnded
<1>8. /\ sim' \in SimRow /\ agents' \in [Agents -> AgentRow]
      /\ \A a \in Agents :
            /\ agents'[a].retries = agents[a].retries
            /\ \/ agents'[a].state = agents[a].state
               \/ agents[a].state = "active" /\ agents'[a].state \in {"completed", "removed"}
  <2>1. CASE UNCHANGED <<sim, agents>>
    BY <1>1, <2>1 DEF RowTypes
  <2>2. ASSUME NEW status \in SimEnded, FinalizeAs(status)
        PROVE  /\ sim' \in SimRow /\ agents' \in [Agents -> AgentRow]
               /\ \A a \in Agents :
                     /\ agents'[a].retries = agents[a].retries
                     /\ \/ agents'[a].state = agents[a].state
                        \/ /\ agents[a].state = "active"
                           /\ agents'[a].state \in {"completed", "removed"}
    <3>1. sim' \in SimRow
      BY <2>2, StatusTypes DEF FinalizeAs
    <3>2. agents' \in [Agents -> AgentRow]
      BY <1>1, <2>2 DEF FinalizeAs, RowTypes, AgentRow
    <3>3. ASSUME NEW a \in Agents
          PROVE  /\ agents'[a].retries = agents[a].retries
                 /\ \/ agents'[a].state = agents[a].state
                    \/ /\ agents[a].state = "active"
                       /\ agents'[a].state \in {"completed", "removed"}
      BY <1>1, <2>2 DEF FinalizeAs, RowTypes, AgentRow
    <3> QED BY <3>1, <3>2, <3>3
  <2> QED BY <1>7, <2>1, <2>2
<1>9. RowTypes'
  BY <1>1, <1>5, <1>6, <1>8 DEF RowTypes
<1>10. ResumeFits'
  BY <1>6 DEF ResumeFits
<1>11. \A t \in TurnIds : turns'[t].status = "failed" => t \in failures'
  BY <1>1, <1>6 DEF FailuresCounted
<1>12. /\ \A a \in Agents : agents'[a].state = "exhausted" => agents[a].state = "exhausted"
       /\ \A a \in Agents : agents'[a].state = "absent" <=> agents[a].state = "absent"
  BY <1>8
<1>13. RowsFit' /\ Spawned' = Spawned
  BY <1>1, <1>6, <1>8, <1>9, <1>10, <1>11, <1>12, RowsStep
<1> QED BY <1>3, <1>5, <1>6, <1>13, OrchestratorMoves

-----------------------------------------------------------------------------
(* The insert of agents.                                                    *)

\* As many agents as have been created make the numbers up to them.
LEMMA Numbered ==
    ASSUME NEW n \in 0 .. MaxAgents, Spawned = 1 .. n
    PROVE  /\ Cardinality(Spawned) = n
           /\ \A a \in Agents : agents[a].state = "absent" <=> a > n
<1>1. n \in Nat /\ MaxAgents \in Nat /\ n <= MaxAgents
  BY SimulationConstants
<1>2. Cardinality(1 .. n) = n
  BY <1>1, FS_Interval
<1>3. \A a \in Agents : a \in Spawned <=> agents[a].state # "absent"
  BY DEF Spawned, InState
<1> QED BY <1>1, <1>2, <1>3 DEF Agents

\* The agents that are inserted follow those there are, and their number is
\* within the cap when the total that was read is right.
LEMMA InsertNumbers ==
    ASSUME SimulationInv, NEW w \in Generations, InsertAgents(w)
    PROVE  /\ (\E n \in 0 .. MaxAgents : Spawned = 1 .. n)'
           /\ (~collided => Cardinality(Spawned) <= setup.spawns)'
<1>1. RowsFit /\ RowTypes
  BY TypesHold
<1>2. orchs[w].active \in Nat /\ orchs[w].total \in Nat
  BY OrchestratorFits DEF OrchestratorState
<1>3. setup.active \in Nat /\ setup.spawns \in Nat /\ setup' = setup
  BY <1>1, SimulationConstants DEF RowTypes, InsertAgents
<1>4. PICK n \in 0 .. MaxAgents : Spawned = 1 .. n
  BY <1>1 DEF RowsFit
<1>5. /\ Cardinality(Spawned) = n
      /\ \A a \in Agents : agents[a].state = "absent" <=> a > n
  BY <1>4, Numbered
<1>6. n \in Nat /\ MaxAgents \in Nat /\ n <= MaxAgents /\ SpawnBatch \in Nat
  BY SimulationConstants
<1> DEFINE last == n + Room(w)
<1>7. Room(w) \in Int /\ Room(w) <= setup.spawns - orchs[w].total
  BY <1>2, <1>3, <1>6 DEF Room, Lesser
<1>8. last \in Int
  BY <1>6, <1>7
<1>9. agents' = [a \in Agents |-> IF a > n /\ a <= last
                                  THEN [state |-> "active", turns |-> 0, retries |-> 0]
                                  ELSE agents[a]]
  BY <1>5 DEF InsertAgents, InState
<1> HIDE DEF last
<1> DEFINE m == IF last > n THEN IF last > MaxAgents THEN MaxAgents ELSE last ELSE n
<1>10. m \in 0 .. MaxAgents /\ (m <= n \/ m <= last)
  BY <1>6, <1>8
<1>11. Spawned' = 1 .. m
  <2>1. \A a \in Agents : agents'[a].state # "absent" <=> a <= m
    BY <1>5, <1>6, <1>8, <1>9 DEF Agents
  <2>2. Spawned' = {a \in Agents : agents'[a].state # "absent"}
    BY DEF Spawned, InState
  <2>3. {a \in Agents : a <= m} = 1 .. m
    BY <1>6, <1>10 DEF Agents
  <2> QED BY <2>1, <2>2, <2>3
<1> HIDE DEF m
<1>12. Cardinality(Spawned') = m
  BY <1>10, <1>11, FS_Interval
<1>13. ASSUME ~collided' PROVE m <= setup.spawns
  <2>1. ~collided /\ orchs[w].pc = "insert"
    BY <1>13 DEF InsertAgents, OrchAt
  <2>2. orchs[w].total = n /\ n <= setup.spawns
    BY <1>1, <1>5, <2>1, OrchestratorFits DEF OrchFits, RowsFit
  <2>3. last <= setup.spawns
    BY <1>3, <1>6, <1>7, <2>2 DEF last
  <2> QED BY <1>3, <1>6, <1>8, <1>10, <2>2, <2>3
<1>14. (\E k \in 0 .. MaxAgents : Spawned = 1 .. k)'
  BY <1>10, <1>11
<1> QED BY <1>3, <1>12, <1>13, <1>14

LEMMA InsertFits ==
    ASSUME SimulationInv, NEW w \in Generations, InsertAgents(w)
    PROVE  SimulationInv'
<1>1. RowsFit /\ RowTypes /\ ResumeFits
  BY TypesHold
<1>2. /\ orchs[w] \in OrchestratorState /\ orchs[w].active \in Nat
      /\ OrchFits(orchs[w]) /\ orchs[w].pc = "insert"
  BY OrchestratorFits DEF OrchestratorState, InsertAgents, OrchAt
<1>3. UNCHANGED <<setup, sim, turns, failures, api, cancelPasses, commands>>
  BY DEF InsertAgents
<1>4. /\ agents' \in [Agents -> AgentRow]
      /\ \A a \in Agents : \/ agents'[a] = agents[a]
                           \/ agents'[a].state = "active" /\ agents'[a].retries = 0
  BY <1>1 DEF InsertAgents, RowTypes, AgentRow
<1> DEFINE new == {a \in InState("absent") : a <= Cardinality(Spawned) + Room(w)}
           more == orchs[w].active + Cardinality(new)
           p == [Populated(w, more) EXCEPT !.total = 0]
           q == To(w, "spawn")
<1>5. more \in Nat
  <2>1. new \in SUBSET Agents
    BY DEF InState
  <2>2. Cardinality(new) \in Nat
    BY <2>1, AgentsAreFinite
  <2> HIDE DEF new
  <2> QED BY <1>2, <2>2
<1>6. Goes(w, p) \/ Fails(w, q)
  BY DEF InsertAgents
<1>7. /\ setbacks' \in Nat
      /\ orchs' = orchs \/ orchs' = [orchs EXCEPT ![w] = p]
                        \/ orchs' = [orchs EXCEPT ![w] = q]
  BY <1>6, Progress
<1>8. orchs' = [orchs EXCEPT ![w] = p] \/ orchs' = [orchs EXCEPT ![w] = q]
  BY <1>6 DEF Goes, Fails
<1> HIDE DEF more
<1>9. p \in OrchestratorState /\ p.pc \in {"remove", "detect"} /\ p.found = orchs[w].found
  BY <1>5, PopulatedFits, Totals
<1>10. q \in OrchestratorState /\ q.pc = "spawn" /\ q.found = orchs[w].found
  BY ToFits DEF OrchPcs
<1> HIDE DEF p, q
<1>11. PICK o : /\ orchs' = [orchs EXCEPT ![w] = o] /\ o \in OrchestratorState
                /\ o.pc \notin {"insert", "retry"} /\ o.found = orchs[w].found
  BY <1>8, <1>9, <1>10
<1>12. collided' \in BOOLEAN
  BY <1>1 DEF InsertAgents, RowTypes
<1>13. RowTypes'
  BY <1>1, <1>3, <1>4, <1>7, <1>12 DEF RowTypes
<1>14. RowsFit'
  <2>1. \A a \in Agents : HasFailed(a, agents[a].retries)'
    BY <1>1, <1>3, <1>4, NoneFailed DEF RowsFit, HasFailed
  <2>2. \A a \in InState("exhausted")' : HasFailed(a, MaxRetries)'
    BY <1>1, <1>3, <1>4 DEF RowsFit, HasFailed, InState
  <2>3. ResumeFits'
    BY <1>1, <1>3 DEF ResumeFits
  <2>4. (\A t \in TurnIds : turns[t].status = "failed" => t \in failures)'
    BY <1>1, <1>3 DEF RowsFit
  <2> QED BY <1>13, <2>1, <2>2, <2>3, <2>4, InsertNumbers DEF RowsFit
<1>15. ASSUME NEW v \in Generations PROVE OrchFits(orchs[v])'
  <2>1. orchs = [u \in Generations |-> orchs[u]] /\ OrchFits(orchs[v])
    BY Divided
  <2>2. PICK r : r = orchs'[v] /\ r \in OrchestratorState
    BY <1>11, <2>1 DEF OrchFits
  <2>3. \A d \in r.found : /\ HasFailed(d.agent, d.retry)
                           /\ r.pc = "retry" => Tried(r, d) \in failures
    BY <1>2, <1>11, <2>1, <2>2 DEF OrchFits
  <2>4. ~(~collided' /\ r.pc = "insert")
    BY <1>11, <2>1, <2>2 DEF InsertAgents, OrchAt
  <2>5. OrchFits(r)'
    BY <1>3, <2>2, <2>3, <2>4 DEF OrchFits, HasFailed
  <2> QED BY <2>2, <2>5 DEF OrchFits
<1>16. (orchs = [v \in Generations |-> orchs[v]])'
  BY <1>11, Divided
<1> QED BY <1>14, <1>15, <1>16, DividedNext

-----------------------------------------------------------------------------
(* The turns.                                                               *)

\* A turn that shows as failed is one of the failures.
LEMMA TurnShows ==
    ASSUME SimulationInv, NEW t \in TurnIds,
           NEW status \in {"none", "enqueued", "pending", "success", "failed"},
           NEW acting \in BOOLEAN, Turn(t, status, acting)
    PROVE  /\ turns' \in [TurnIds -> TurnRow] /\ failures \subseteq failures'
           /\ failures' \subseteq TurnIds
           /\ \A u \in TurnIds : turns'[u].status = "failed" => u \in failures'
<1>1. RowTypes /\ FailuresCounted
  BY TypesHold
<1> DEFINE row == [status |-> status, acting |-> acting]
<1>2. row \in TurnRow /\ row.status = status
  BY DEF TurnRow
<1>3. turns' = [turns EXCEPT ![t] = row]
  BY DEF Turn
<1>4. failures' = IF status = "failed" THEN failures \cup {t} ELSE failures
  BY DEF Turn
<1> HIDE DEF row
<1>5. turns' \in [TurnIds -> TurnRow]
  BY <1>1, <1>2, <1>3 DEF RowTypes
<1>6. failures \subseteq failures' /\ failures' \subseteq TurnIds
  BY <1>1, <1>4 DEF RowTypes
<1>7. \A u \in TurnIds : turns'[u].status = "failed" => u \in failures'
  BY <1>1, <1>2, <1>3, <1>4 DEF RowTypes, FailuresCounted
<1> QED BY <1>5, <1>6, <1>7

LEMMA TurnKept ==
    ASSUME SimulationInv, UNCHANGED <<turns, failures>>
    PROVE  /\ turns' \in [TurnIds -> TurnRow] /\ failures \subseteq failures'
           /\ failures' \subseteq TurnIds
           /\ \A u \in TurnIds : turns'[u].status = "failed" => u \in failures'
  BY TypesHold DEF RowTypes, FailuresCounted

\* A step that writes turns and at most the counters of agents.
LEMMA TurnMoves ==
    ASSUME SimulationInv, turns' \in [TurnIds -> TurnRow], failures \subseteq failures',
           failures' \subseteq TurnIds,
           \A u \in TurnIds : turns'[u].status = "failed" => u \in failures',
           agents' \in [Agents -> AgentRow],
           \A a \in Agents : /\ agents'[a].state = agents[a].state
                             /\ agents'[a].retries \in {agents[a].retries, 0},
           cancelPasses' \in Nat, setbacks' \in Nat,
           UNCHANGED <<setup, sim, orchs, api, collided, commands>>
    PROVE  SimulationInv'
<1>1. RowsFit /\ RowTypes /\ ResumeFits
  BY TypesHold
<1>2. RowTypes'
  BY <1>1 DEF RowTypes
<1>3. ResumeFits'
  BY <1>1 DEF ResumeFits
<1>4. \A a \in Agents : \/ agents'[a].retries = agents[a].retries
                        \/ HasFailed(a, agents'[a].retries)
  BY NoneFailed
<1>5. RowsFit' /\ Spawned' = Spawned
  BY <1>1, <1>2, <1>3, <1>4, RowsStep
<1> QED BY <1>5, RowsMove

LEMMA TurnSteps ==
    ASSUME SimulationInv, NEW t \in TurnIds, TurnStep(t) \/ FailTurn(t)
    PROVE  SimulationInv'
<1>1. RowTypes
  BY TypesHold
<1>2. setbacks' \in Nat
  <2>1. NoSetback \/ Setback
    BY DEF TurnStep, StartTurn, FailTurn, PersistState, NoticeCancel
  <2> QED BY <1>1, <2>1 DEF RowTypes, NoSetback, Setback
<1>3. UNCHANGED <<setup, sim, orchs, api, cancelPasses, collided, commands>>
  BY DEF TurnStep, StartTurn, FailTurn, PersistState, NoticeCancel
<1>4. /\ turns' \in [TurnIds -> TurnRow] /\ failures \subseteq failures'
      /\ failures' \subseteq TurnIds
      /\ \A u \in TurnIds : turns'[u].status = "failed" => u \in failures'
  <2>1. ASSUME NEW status \in {"none", "enqueued", "pending", "success", "failed"},
               NEW acting \in BOOLEAN, Turn(t, status, acting)
        PROVE  /\ turns' \in [TurnIds -> TurnRow] /\ failures \subseteq failures'
               /\ failures' \subseteq TurnIds
               /\ \A u \in TurnIds : turns'[u].status = "failed" => u \in failures'
    BY <2>1, TurnShows
  <2>2. \/ UNCHANGED <<turns, failures>> \/ Turn(t, "success", FALSE)
        \/ Turn(t, "pending", TRUE) \/ Turn(t, "failed", FALSE)
    BY DEF TurnStep, StartTurn, FailTurn, PersistState, NoticeCancel, Returns
  <2>3. CASE UNCHANGED <<turns, failures>>
    BY <2>3, TurnKept
  <2>4. CASE Turn(t, "success", FALSE)
    BY <2>1, <2>4
  <2>5. CASE Turn(t, "pending", TRUE)
    BY <2>1, <2>5
  <2>6. CASE Turn(t, "failed", FALSE)
    BY <2>1, <2>6
  <2> QED BY <2>2, <2>3, <2>4, <2>5, <2>6
<1>5. /\ agents' \in [Agents -> AgentRow]
      /\ \A a \in Agents : /\ agents'[a].state = agents[a].state
                           /\ agents'[a].retries \in {agents[a].retries, 0}
  <2>1. CASE UNCHANGED agents
    BY <1>1, <2>1 DEF RowTypes
  <2>2. CASE PersistState(t)
    <3> DEFINE a == t.agent  turned == Lesser(agents[a].turns + 1, MaxTurns)
               row == [agents[a] EXCEPT !.turns = turned, !.retries = 0]
    <3>1. a \in Agents /\ agents[a] \in AgentRow
      BY <1>1 DEF TurnIds, RowTypes
    <3>2. turned \in Nat
      BY <3>1, SimulationConstants DEF Lesser, AgentRow
    <3>3. agents' = [agents EXCEPT ![a] = row]
      BY <1>1, <2>2, <3>1 DEF PersistState, RowTypes
    <3> HIDE DEF turned
    <3>4. row \in AgentRow /\ row.state = agents[a].state /\ row.retries = 0
      BY <3>1, <3>2 DEF AgentRow
    <3> HIDE DEF row, a
    <3> QED BY <1>1, <3>1, <3>3, <3>4 DEF RowTypes
  <2>3. UNCHANGED agents \/ PersistState(t)
    BY DEF TurnStep, StartTurn, FailTurn, NoticeCancel
  <2> QED BY <2>1, <2>2, <2>3
<1> QED BY <1>1, <1>2, <1>3, <1>4, <1>5, TurnMoves DEF RowTypes

-----------------------------------------------------------------------------
(* The calls of the API.                                                    *)

LEMMA IdleFits == ApiIdle \in ApiState /\ ApiIdle.pc = "idle"
  BY DEF ApiIdle, ApiState

LEMMA DispatchFits ==
    ASSUME SimulationInv, DispatchOrchestrator PROVE SimulationInv'
<1>1. RowTypes
  BY TypesHold
<1> DEFINE g == sim.generation
<1>2. g \in Generations
  BY <1>1 DEF RowTypes, SimRow
<1>3. OrchFits(To(g, "queued"))
  BY <1>2, ToFits DEF OrchPcs
<1>4. orchs' = orchs \/ orchs' = [orchs EXCEPT ![g] = To(g, "queued")]
  BY DEF DispatchOrchestrator, To
<1>5. api' \in ApiState /\ api'.pc # "write" /\ setbacks' \in Nat
  <2>1. NoSetback \/ Setback
    BY DEF DispatchOrchestrator
  <2>2. api' = ApiIdle \/ api' = [api EXCEPT !.pc = "failing"]
    BY DEF DispatchOrchestrator
  <2>3. api \in ApiState
    BY <1>1 DEF RowTypes
  <2>4. [api EXCEPT !.pc = "failing"] \in ApiState
    BY <2>3, Zenon DEF ApiState
  <2>5. [api EXCEPT !.pc = "failing"].pc = "failing"
    BY <2>3 DEF ApiState
  <2>6. setbacks' \in Nat
    BY <1>1, <2>1 DEF RowTypes, NoSetback, Setback
  <2>7. api' \in ApiState
    BY <2>2, <2>4, IdleFits
  <2>8. api'.pc # "write"
    BY <2>2, <2>5, IdleFits
  <2> QED BY <2>6, <2>7, <2>8
<1>6. UNCHANGED <<setup, sim, agents, turns, failures, cancelPasses, collided, commands>>
  BY DEF DispatchOrchestrator
<1>7. RowsFit' /\ Spawned' = Spawned
  BY <1>1, <1>5, <1>6, SimStep DEF RowTypes
<1> QED BY <1>2, <1>3, <1>4, <1>6, <1>7, OrchestratorMoves

LEMMA StatusCalls ==
    ASSUME SimulationInv, MarkDispatchFailed \/ PauseSimulation \/ CancelSimulation
    PROVE  SimulationInv'
<1>1. RowTypes
  BY TypesHold
<1>2. sim' \in SimRow
  BY <1>1, StatusTypes DEF MarkDispatchFailed, PauseSimulation, CancelSimulation,
                           RowTypes, SimEnded
<1>3. api' \in ApiState /\ api'.pc # "write"
  <2>1. api' = ApiIdle \/ (api' = api /\ api.pc # "write")
    BY DEF MarkDispatchFailed, PauseSimulation, CancelSimulation, RowLocked
  <2> QED BY <1>1, <2>1, IdleFits DEF RowTypes
<1>4. cancelPasses' \in Nat /\ commands' \in Nat /\ setbacks' \in Nat
  BY <1>1 DEF MarkDispatchFailed, PauseSimulation, CancelSimulation, RowTypes,
              Command, NoSetback
<1>5. UNCHANGED <<setup, agents, orchs, turns, failures, collided>>
  BY DEF MarkDispatchFailed, PauseSimulation, CancelSimulation
<1>6. RowsFit' /\ Spawned' = Spawned
  BY <1>2, <1>3, <1>4, <1>5, SimStep
<1> QED BY <1>5, <1>6, RowsMove

LEMMA CancelFits ==
    ASSUME SimulationInv, CancelWorkflows \/ CancelTurns PROVE SimulationInv'
<1>1. RowsFit /\ RowTypes /\ ResumeFits /\ FailuresCounted
  BY TypesHold
<1>2. cancelPasses' \in Nat /\ commands' \in Nat /\ setbacks' \in Nat
  BY <1>1 DEF CancelWorkflows, CancelTurns, RowTypes, Command, NoSetback, Setback
<1>3. UNCHANGED <<setup, sim, agents, orchs, api, collided>>
  BY DEF CancelWorkflows, CancelTurns
<1>4. /\ turns' \in [TurnIds -> TurnRow] /\ failures \subseteq failures'
      /\ failures' \subseteq TurnIds
      /\ \A u \in TurnIds : turns'[u].status = "failed" => u \in failures'
  <2>1. CASE CancelWorkflows
    BY <2>1, TurnKept DEF CancelWorkflows
  <2>2. CASE CancelTurns
    <3>1. PICK some \in SUBSET TurnIds :
             /\ turns' = [t \in TurnIds |->
                             IF t \in some THEN [turns[t] EXCEPT !.status = "failed"]
                             ELSE turns[t]]
             /\ failures' = failures \cup some
      BY <2>2 DEF CancelTurns
    <3>2. turns' \in [TurnIds -> TurnRow]
      BY <1>1, <3>1 DEF RowTypes, TurnRow
    <3>3. failures \subseteq failures' /\ failures' \subseteq TurnIds
      BY <1>1, <3>1 DEF RowTypes
    <3>4. \A u \in TurnIds : turns'[u].status = "failed" => u \in failures'
      BY <1>1, <3>1 DEF FailuresCounted
    <3> QED BY <3>2, <3>3, <3>4
  <2> QED BY <2>1, <2>2
<1>5. RowTypes'
  BY <1>1, <1>2, <1>3, <1>4 DEF RowTypes
<1>6. ResumeFits'
  BY <1>1, <1>3 DEF ResumeFits
<1>7. RowsFit' /\ Spawned' = Spawned
  BY <1>1, <1>3, <1>4, <1>5, <1>6, RowsStep
<1> QED BY <1>3, <1>4, <1>7, RowsMove

LEMMA ResumeSteps ==
    ASSUME SimulationInv, (\E reset \in BOOLEAN : ResumeSimulation(reset)) \/ ResumeWrites
    PROVE  SimulationInv'
<1>1. RowsFit /\ RowTypes /\ ResumeFits /\ FailuresCounted
  BY TypesHold
<1>2. CASE \E reset \in BOOLEAN : ResumeSimulation(reset)
  <2>1. PICK reset \in BOOLEAN : ResumeSimulation(reset)
    BY <1>2
  <2> DEFINE renew == \A w \in Generations : orchs[w].pc \in {"none", "ended"}
  <2>2. /\ api' = [call |-> "resume", pc |-> "write", reset |-> reset,
                   renew |-> reset \/ renew]
        /\ reset \/ renew => sim.generation < setup.generations
        /\ ~reset => sim.status \in {"pending", "paused", "failed"}
    BY <2>1 DEF ResumeSimulation
  <2>3. UNCHANGED <<setup, sim, agents, orchs, turns, failures, cancelPasses, collided>>
    BY <2>1 DEF ResumeSimulation
  <2>4. commands' \in Nat /\ setbacks' \in Nat
    BY <1>1, <2>1 DEF ResumeSimulation, RowTypes, Command, NoSetback
  <2> HIDE DEF renew
  <2>5. api' \in ApiState
    <3>1. (reset \/ renew) \in BOOLEAN
      OBVIOUS
    <3> QED BY <2>2, <3>1, Zenon DEF ApiState
  <2>6. RowTypes'
    BY <1>1, <2>3, <2>4, <2>5 DEF RowTypes
  <2>7. api'.reset = reset /\ api'.renew = (reset \/ renew)
    BY <2>2
  <2>8. ResumeFits'
    BY <2>2, <2>3, <2>7 DEF ResumeFits
  <2>9. \A t \in TurnIds : turns'[t].status = "failed" => t \in failures'
    BY <1>1, <2>3 DEF FailuresCounted
  <2>10. RowsFit' /\ Spawned' = Spawned
    BY <1>1, <2>3, <2>6, <2>8, <2>9, RowsStep
  <2> QED BY <2>3, <2>10, RowsMove
<1>3. CASE ResumeWrites
  <2>1. UNCHANGED <<setup, orchs, turns, failures, cancelPasses, collided, commands>>
    BY <1>3 DEF ResumeWrites
  <2>2. /\ sim.generation \in Generations /\ setup.generations \in 1 .. MaxGeneration
        /\ api.renew => sim.generation < setup.generations
    BY <1>1, <1>3, SimulationConstants DEF RowTypes, SimRow, ResumeFits, ResumeWrites
  <2>3. sim' \in SimRow
    BY <1>3, <2>2, SimulationConstants DEF ResumeWrites, SimRow, Generations
  <2>4. api' \in ApiState /\ api'.pc # "write" /\ setbacks' \in Nat
    BY <1>1, <1>3 DEF ResumeWrites, ApiIdle, ApiState, RowTypes, NoSetback
  <2>5. /\ agents' \in [Agents -> AgentRow]
        /\ \A a \in Agents : \/ agents'[a] = agents[a]
                             \/ /\ agents[a].state # "absent"
                                /\ agents'[a].state = "active" /\ agents'[a].retries = 0
    BY <1>1, <1>3 DEF ResumeWrites, RowTypes, AgentRow, Spawned, InState
  <2>6. RowTypes'
    BY <1>1, <2>1, <2>3, <2>4, <2>5 DEF RowTypes
  <2>7. ResumeFits'
    BY <2>4 DEF ResumeFits
  <2>8. \A t \in TurnIds : turns'[t].status = "failed" => t \in failures'
    BY <1>1, <2>1 DEF FailuresCounted
  <2>9. /\ \A a \in Agents : \/ agents'[a].retries = agents[a].retries
                             \/ HasFailed(a, agents'[a].retries)
        /\ \A a \in Agents : agents'[a].state = "exhausted" => agents[a].state = "exhausted"
        /\ \A a \in Agents : agents'[a].state = "absent" <=> agents[a].state = "absent"
    BY <2>5, NoneFailed
  <2>10. RowsFit' /\ Spawned' = Spawned
    BY <1>1, <2>1, <2>6, <2>7, <2>8, <2>9, RowsStep
  <2> QED BY <2>1, <2>10, RowsMove
<1> QED BY <1>2, <1>3

-----------------------------------------------------------------------------
(* The theorems.                                                            *)

LEMMA SimulationStart == SimulationInit => SimulationInv
<1> SUFFICES ASSUME SimulationInit PROVE SimulationInv
  OBVIOUS
<1> USE DEF SimulationInit
<1>1. setup \in Setups /\ setup.spawns \in Nat
  BY SimulationConstants
<1>2. sim \in SimRow
  BY SimulationConstants DEF SimRow, Generations
<1>3. agents \in [Agents -> AgentRow] /\ \A a \in Agents : agents[a].state = "absent"
                                                         /\ agents[a].retries = 0
  BY DEF AgentRow
<1>4. turns \in [TurnIds -> TurnRow] /\ \A t \in TurnIds : turns[t].status = "none"
  BY DEF TurnRow
<1>5. api \in ApiState /\ api.pc = "dispatch"
  BY DEF ApiIdle, ApiState
<1>6. RowTypes
  BY <1>1, <1>2, <1>3, <1>4, <1>5 DEF RowTypes
<1>7. Spawned = {} /\ Spawned = 1 .. 0 /\ Cardinality(Spawned) = 0
  BY <1>3, FS_EmptySet DEF Spawned, InState
<1>8. RowsFit
  <2>1. \A a \in Agents : HasFailed(a, agents[a].retries)
    BY <1>3, NoneFailed
  <2>2. \E n \in 0 .. MaxAgents : Spawned = 1 .. n
    BY <1>7, SimulationConstants
  <2>3. ResumeFits
    BY <1>5 DEF ResumeFits
  <2>4. InState("exhausted") = {}
    BY <1>3 DEF InState
  <2> QED BY <1>1, <1>4, <1>6, <1>7, <2>1, <2>2, <2>3, <2>4 DEF RowsFit
<1>9. OrchFits(OrchestratorAt("none"))
  BY DEF OrchFits, OrchestratorAt, OrchestratorState, SimEnded
<1> QED BY <1>8, <1>9, Divided

LEMMA SimulationStep ==
    SimulationInv /\ [SimulationNext]_simulationVars => SimulationInv'
<1> SUFFICES ASSUME SimulationInv, [SimulationNext]_simulationVars PROVE SimulationInv'
  OBVIOUS
<1>1. CASE UNCHANGED simulationVars
  <2>1. UNCHANGED butOrchs /\ orchs' = orchs /\ setbacks' = setbacks
    BY <1>1 DEF simulationVars, butOrchs
  <2>2. setbacks' \in Nat
    BY <2>1, TypesHold DEF RowTypes
  <2> QED BY <2>1, <2>2, RowsKept, RowsMove
<1>2. ASSUME NEW w \in Generations, OrchestratorStep(w) \/ OrchestratorTrouble(w)
      PROVE  SimulationInv'
  BY <1>2, InitializeFits, ReadingSteps, AutoPauseFits, InsertFits, SpawnSteps, RemoveFits,
     DetectFits, CountFits, ScheduleFits, ScheduleReads, FinalizeFits
     DEF OrchestratorStep, OrchestratorTrouble
<1> QED BY <1>1, <1>2, TurnSteps, DispatchFits, StatusCalls, CancelFits, ResumeSteps
        DEF SimulationNext

\* Rows, orchestrators and calls fit together, for any setups.
THEOREM SimulationInvariant == SimulationSpec => []SimulationInv
  BY SimulationStart, SimulationStep, PTL DEF SimulationSpec

LEMMA TurnIdsAreFinite == IsFiniteSet(TurnIds)
<1> DEFINE T == (Agents \X Generations) \X ((1 .. MaxTurns) \X (0 .. MaxRetries - 1))
           f == [t \in TurnIds |-> <<<<t.agent, t.gen>>, <<t.number, t.retry>>>>]
<1>1. /\ IsFiniteSet(Agents) /\ IsFiniteSet(Generations)
      /\ IsFiniteSet(1 .. MaxTurns) /\ IsFiniteSet(0 .. MaxRetries - 1)
  BY SimulationConstants, FS_Interval DEF Agents, Generations
<1>2. IsFiniteSet(Agents \X Generations) /\ IsFiniteSet((1 .. MaxTurns) \X (0 .. MaxRetries - 1))
  BY <1>1, FS_Product
<1>3. IsFiniteSet(T)
  BY <1>2, FS_Product
<1>4. f \in [TurnIds -> T]
  BY DEF TurnIds
<1>5. \A t, u \in TurnIds : f[t] = f[u] => t = u
  BY DEF TurnIds
<1>6. f \in Injection(TurnIds, T)
  BY <1>4, <1>5 DEF Injection, IsInjective
<1> QED BY <1>3, <1>6, FS_Injection

\* Every try below MaxRetries has a failure of its own.
THEOREM RemovedHaveFailed == SimulationSpec => []RemovedForCauseFailed
<1>1. ASSUME SimulationInv PROVE RemovedForCauseFailed
  <2> SUFFICES ASSUME NEW a \in InState("exhausted")
               PROVE  Cardinality({t \in failures : t.agent = a}) >= MaxRetries
    BY DEF RemovedForCauseFailed
  <2> DEFINE F == {t \in failures : t.agent = a}  I == 0 .. MaxRetries - 1
             f == [i \in I |-> CHOOSE t \in F : t.retry = i]
  <2>1. HasFailed(a, MaxRetries) /\ failures \subseteq TurnIds
    BY <1>1, TypesHold DEF FailuresCounted, RowTypes
  <2>2. IsFiniteSet(F) /\ Cardinality(F) \in Nat
    <3>1. F \in SUBSET TurnIds
      BY <2>1
    <3> QED BY <3>1, TurnIdsAreFinite, FS_Subset, FS_CardinalityType
  <2>3. \A i \in I : f[i] \in F /\ f[i].retry = i
    BY <2>1 DEF HasFailed
  <2>4. f \in [I -> F] /\ \A i, k \in I : f[i] = f[k] => i = k
    BY <2>3
  <2>5. f \in Injection(I, F)
    BY <2>4 DEF Injection, IsInjective
  <2> HIDE DEF F, f
  <2>6. Cardinality(I) <= Cardinality(F)
    BY <2>2, <2>5, FS_Injection
  <2>7. Cardinality(I) = MaxRetries
    BY SimulationConstants, FS_Interval
  <2> QED BY <2>2, <2>6, <2>7, SimulationConstants DEF F
<1> QED BY <1>1, SimulationInvariant, PTL

\* The cap holds for any bound on agents and any batch.
THEOREM SpawnsCapped == SimulationSpec => []SpawnCap
<1>1. SimulationInv => SpawnCap
  BY DEF SimulationInv, SpawnsCounted, SpawnCap
<1> QED BY <1>1, SimulationInvariant, PTL

\* Only a resume that starts a generation writes to a row that has ended.
THEOREM EndedStays == SimulationSpec => EndedRunStaysEnded
<1> DEFINE Kept == /\ sim.status \in {"cancelled", "completed"}
                   /\ sim'.status \in {"pending", "running", "paused"}
                   => sim'.generation > sim.generation
<1>1. ASSUME SimulationInv, [SimulationNext]_simulationVars PROVE [Kept]_simulationVars
  <2> SUFFICES ASSUME SimulationNext, sim.status \in {"cancelled", "completed"},
                      sim'.status \in {"pending", "running", "paused"}
               PROVE  sim'.generation > sim.generation
    BY <1>1
  <2>1. RowTypes /\ ResumeFits
    BY <1>1, TypesHold
  <2>2. sim' # sim
    OBVIOUS
  <2>3. ResumeWrites
    <3>1. ASSUME NEW w \in Generations, OrchestratorStep(w) \/ OrchestratorTrouble(w)
          PROVE  FALSE
      <4>1. orchs[w].final \in SimEnded
        BY <1>1, OrchestratorFits DEF OrchestratorState
      <4>2. InitializeRun(w) \/ AutoPause(w) \/ FinalizeRun(w)
        BY <2>2, <3>1 DEF OrchestratorStep, OrchestratorTrouble, CheckRun, InsertAgents,
                          SpawnAgain, RemoveAgent, DetectStuck, CountRetries, ScheduleTurns,
                          ScheduleAgain, CloseWorkflow, GateTimesOut, IterateBlindly,
                          OutOfIterations, SpawnFails, SkipSchedule, butOrchs
      <4>3. \A status \in SimEnded : ~FinalizeAs(status)
        BY <2>1 DEF FinalizeAs, SimEnded, RowTypes, SimRow
      <4> QED BY <2>2, <4>1, <4>2, <4>3 DEF InitializeRun, AutoPause, PauseIfRunning,
                                            FinalizeRun, SimEnded
    <3>2. ASSUME NEW t \in TurnIds PROVE ~(TurnStep(t) \/ FailTurn(t))
      BY <2>2 DEF TurnStep, StartTurn, FailTurn, PersistState, NoticeCancel
    <3>3. ~(\/ DispatchOrchestrator \/ MarkDispatchFailed \/ PauseSimulation
            \/ CancelSimulation \/ CancelWorkflows \/ CancelTurns
            \/ \E reset \in BOOLEAN : ResumeSimulation(reset))
      BY <2>1, <2>2 DEF DispatchOrchestrator, MarkDispatchFailed, PauseSimulation,
                        CancelSimulation, CancelWorkflows, CancelTurns, ResumeSimulation,
                        RowTypes, SimRow
    <3> QED BY <3>1, <3>2, <3>3 DEF SimulationNext
  <2>4. api.renew
    BY <2>1, <2>3 DEF ResumeFits, ResumeWrites
  <2> QED BY <2>1, <2>3, <2>4 DEF ResumeWrites, RowTypes, SimRow, Generations
<1> QED BY <1>1, SimulationInvariant, PTL DEF SimulationSpec, EndedRunStaysEnded
=============================================================================
