SPECIFICATION Spec
CONSTANTS
  dedup = dedup  trends = trends  video = video
  w1 = w1  w2 = w2  c1 = c1  c2 = c2
  Slugs <- AllSlugs
  Dedup = dedup
  Dependents <- DependentSlugs
  Waiters <- DependentSlugs
  InMemory <- PolledSlugs
  Polled <- PolledSlugs
  Workers <- OneWorker
  Clickers <- TwoClickers
  MaxDeliveries = 1
  MaxTransients = 1
  MaxRetries = 2
  MaxFaults = 1
  MaxStalls = 1
SYMMETRY Symmetry
PROPERTY RunningJobIsNotRetried
CHECK_DEADLOCK FALSE
