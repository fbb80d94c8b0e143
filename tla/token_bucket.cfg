SPECIFICATION Spec
CONSTANTS
  w1 = w1  w2 = w2  e1 = e1  e2 = e2  p1 = p1
  None = None
  Workflows <- MCWorkflows
  Executions <- MCExecutions
  Weight <- MCWeight
  Workers <- MCWorkers
  Contribution <- MCContribution
  StaticCapacity = 2
  Attempts <- MCAttempts
  Cancellable <- MCCancellable
  MaxHolds <- MCMaxHolds
  ScavengeBatch = 1
INVARIANT TypeOK
INVARIANT CapacityRespected
INVARIANT OneActiveHold
INVARIANT WorkIsBacked
SYMMETRY Symmetry
CHECK_DEADLOCK FALSE
