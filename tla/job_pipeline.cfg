SPECIFICATION Spec
CONSTANTS
  dedup = dedup  trends = trends  video = video
  w1 = w1  w2 = w2  c1 = c1  c2 = c2
  Slugs <- AllSlugs
  Dedup = dedup
  Dependents <- DependentSlugs
  Waiters <- DependentSlugs
  InMemory <- PolledSlugs
  Polled <- PolledSlugs
  Workers <- TwoWorkers
  Clickers <- OneClicker
  MaxDeliveries = 3
  MaxTransients = 3
  MaxRetries = 0
  MaxFaults = 1
  MaxStalls = 1
SYMMETRY Symmetry
INVARIANT FinalizedIsComplete
INVARIANT ExhaustedNeverPends
PROPERTY ClaimNeverSteals
PROPERTY StaleAttemptsAreFenced
CHECK_DEADLOCK FALSE
