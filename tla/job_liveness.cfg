SPECIFICATION FairSpec
CONSTANTS
  dedup = dedup  trends = trends  video = video
  w1 = w1  w2 = w2  c1 = c1  c2 = c2
  Slugs <- AllSlugs
  Dedup = dedup
  Dependents <- DependentSlugs
  Waiters <- DependentSlugs
  InMemory <- PolledSlugs
  Polled <- PolledSlugs
  Workers <- TwoWorkers
  Clickers <- OneClicker
  MaxDeliveries = 2
  MaxTransients = 2
  MaxRetries = 1
  MaxFaults = 0
  MaxStalls = 1
INVARIANT PayloadOnlyOnFinalized
PROPERTY JobSettles
CHECK_DEADLOCK FALSE
