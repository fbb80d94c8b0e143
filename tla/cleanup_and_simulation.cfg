SPECIFICATION FairSimulationsSpec
CONSTANTS
  w1 = w1  w2 = w2  e1 = e1  e2 = e2  p1 = p1
  None = None
  Workflows <- MCWorkflows
  Executions <- OneExecution
  Weight <- MCWeight
  Workers <- MCWorkers
  Contribution <- MCContribution
  StaticCapacity = 2
  Attempts <- MCAttempts
  Cancellable <- MCCancellable
  MaxHolds <- MCMaxHolds
  ScavengeBatch = 1
  MaxAgents = 2
  SpawnBatch = 2
  MaxTurns = 1
  MaxRetries = 2
  MaxGeneration = 2
  Setups <- MCSetups
INVARIANT RemovedForCauseFailed
INVARIANT SpawnCap
INVARIANT SimulationInv
PROPERTY EndedRunStaysEnded
PROPERTY StoppedRunGoesQuiet
PROPERTY LeakedHoldsAreFreed
CHECK_DEADLOCK FALSE
