----------------------------- MODULE MCSimulation -----------------------------
(* An instance for TLC of the token bucket under its clean-up and of the
   simulation, which share no state: a behaviour is one of either, the other
   being at rest.                                                           *)
EXTENDS MCTokenBucket, Simulation

VARIABLE service   \* the one that moves

Played(content, active, spawns, generations, most, setback) ==
    [content |-> content, active |-> active, spawns |-> spawns,
     generations |-> generations, commands |-> most, setbacks |-> setback]

\* Two orchestrators that overlap over one agent; the calls and setbacks of a
\* run without content, and of one that has one generation; two agents, one of
\* which is removed, where one may be spawned and where two may.
MCSetups == {Played(TRUE, 1, 1, 2, 1, 0), Played(FALSE, 1, 1, 2, 3, 2),
             Played(TRUE, 1, 1, 1, 2, 1), Played(TRUE, 2, 1, 1, 0, 2),
             Played(TRUE, 2, 2, 1, 0, 1)}

NothingSimulated ==
    /\ setup = CHOOSE s \in Setups : TRUE
    /\ sim = [status |-> "completed", generation |-> 1]
    /\ agents = [a \in Agents |-> [state |-> "absent", turns |-> 0, retries |-> 0]]
    /\ orchs = [w \in Generations |-> OrchestratorAt("none")]
    /\ turns = [t \in TurnIds |-> [status |-> "none", acting |-> FALSE]]
    /\ failures = {} /\ api = ApiIdle /\ cancelPasses = 0
    /\ collided = FALSE /\ commands = 0 /\ setbacks = 0

FairSimulationsSpec ==
    /\ Init
    /\ \/ service = "tokens" /\ NothingSimulated
       \/ service = "simulation" /\ SimulationInit
    /\ [][\/ /\ service = "tokens" /\ Next
             /\ UNCHANGED <<service, simulationVars>>
          \/ /\ service = "simulation" /\ SimulationNext
             /\ UNCHANGED <<service, vars>>]_<<service, vars, simulationVars>>
    /\ Fairness /\ SimulationFairness
=============================================================================
