SPECIFICATION ServicesSpec
CONSTANTS
  r1 = r1  r2 = r2  c1 = c1  c2 = c2  c3 = c3  c4 = c4  i1 = i1  i2 = i2
  k1 = k1  k2 = k2  d1 = d1  d2 = d2  d3 = d3
  b1 = b1  b2 = b2  j1 = j1  j2 = j2
  Requests = {r1, r2}
  NoRequest = NoRequest
  MaxJobs = 5
  MaxHistory = 2
  MaxOthers = 1
  Calls = {c1, c2, c3, c4}
  Instances = {i1, i2}
  Home <- MCHome
  Limit = 2
  Attempts = 1
  MaxOutages = 1
  Clicks = {k1, k2}
  Deliveries = {d1, d2, d3}
  MaxTroubles = 1
  Batches = {b1, b2}
  MaxPolls = 1
  MaxFaults = 1
  Jobs = {j1, j2}
  NoCall = NoCall
  Workloads <- MCWorkloads
  MaxMishaps = 1
SYMMETRY Symmetry
INVARIANT SubmitInv
INVARIANT SingleFlight
INVARIANT CachedAnswerHasUtterances
INVARIANT LimiterInv
INVARIANT LeaseCap
INVARIANT SlotsAccounted
INVARIANT FairShare
INVARIANT RunHasPdf
INVARIANT OneConverter
INVARIANT ScanInv
INVARIANT CleanReport
INVARIANT BatchInv
INVARIANT OneActivePerType
INVARIANT CompletedIsMostlyDone
PROPERTY EndedScanStaysEnded
CHECK_DEADLOCK FALSE
