SPECIFICATION FairServicesSpec
CONSTANTS
  r1 = r1  r2 = r2  c1 = c1  c2 = c2  c3 = c3  c4 = c4  i1 = i1  i2 = i2
  k1 = k1  k2 = k2  d1 = d1  d2 = d2  d3 = d3
  b1 = b1  b2 = b2  j1 = j1  j2 = j2
  Requests = {r1, r2}
  NoRequest = NoRequest
  MaxJobs = 5
  MaxHistory = 1
  MaxOthers = 0
  Calls = {c1, c2, c3}
  Instances = {i1, i2}
  Home <- MCHome
  Limit = 1
  Attempts = 1
  MaxOutages = 2
  Clicks = {k1, k2}
  Deliveries = {d1, d2}
  MaxTroubles = 2
  Batches = {b1}
  MaxPolls = 2
  MaxFaults = 1
  Jobs = {j1}
  NoCall = NoCall
  Workloads <- OneJobEach
  MaxMishaps = 2
PROPERTY EveryCallIsAnswered
PROPERTY CallsEnd
PROPERTY ImageJobSettles
PROPERTY ScanCloses
PROPERTY JobsSettle
CHECK_DEADLOCK FALSE
