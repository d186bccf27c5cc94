\* Every AdminService operation against two workers.
CONSTANTS
  a = a  b = b  c = c  w1 = w1  w2 = w2
  t1 = t1  t2 = t2  q1 = q1  q2 = q2  dlq = dlq
  gpu = gpu  None = None
  Pools = {gpu}  Types = {t1, t2}  Queues = {q1}  DeadLetterQueue = q1
  WorkerQueue <- AnyQueue
  Jobs = {a, b}  Workers = {w1, w2}  Backend = "memory"  Request <- PairRequest
  Limit <- TwoSlots  Handlers = {t1, t2}  Policy <- IgnoreFailures  RunTimeout = FALSE
  AdminOps = {"cancel", "retry", "update", "resubmit", "reassign"}
  SweepKinds = {}  Priorities = {1}
  ClaimTimeout = 0  Ttl = 0  Retention = 0  MaxAge = 0
  MaxNow = 0  MaxEpisode = 2
SYMMETRY WorkerSymmetry
VIEW WithoutAmiss
SPECIFICATION OpSpec
INVARIANT NeverOversubscribed
PROPERTY ImplementsClaimQueue
