\* Three threads before each limiter; two processes of the registry.
CONSTANTS
  x1 = x1  x2 = x2  gpu = gpu  cpu = cpu  None = None
  Threads = {t1, t2, t3}
  Types = {ty1, ty2}  TypeMax = 1  OtherMax = 2
  Tenants = {x1, x2}  TenantMax <- JobsAtOnce  RateMax <- JobsAMinute  Weight <- Weights
  MaxCandidates = 2  Minute = 2  MaxTime = 3
  Resources = {gpu, cpu}  Total <- Totals  Needs <- Requirements  MaxResets = 1
  c1 = c1  c2 = c2  p1 = p1  p2 = p2
  Processes = {p1, p2}  Callers = {c1, c2}  Services = {svc}  Home <- ProcessEach
  Timeout = 2  MaxNow = 4  MaxRecords = 2
SYMMETRY ThreadSymmetry
CONSTRAINT StillMeaningful
SPECIFICATION BrokerSpec
INVARIANTS BrokerTypeOK CountersExact LimitsKept RateBound CapacityKept PickIsFair RecordStands SilentFade
CHECK_DEADLOCK FALSE
