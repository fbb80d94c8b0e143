SPECIFICATION Spec
CONSTANTS
  dedup = dedup  trends = trends  video = video
  w1 = w1  w2 = w2  c1 = c1  c2 = c2
  Slugs <- AllSlugs
  Dedup = dedup
  Dependents <- DependentSlugs
  Waiters <- DependentSlugs
  InMemory <- PolledSlugs
  Polled <- PolledSlugs
  Workers <- TwoWorkers
  Clickers <- TwoClickers
  MaxDeliveries = 2
  MaxTransients = 2
  MaxRetries = 2
  MaxFaults = 0
  MaxStalls = 0
SYMMETRY Symmetry
INVARIANT OneClaimPerFailure
PROPERTY SettledSlotIsFinal
CHECK_DEADLOCK FALSE
