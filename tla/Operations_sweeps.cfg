\* Sweeps, bulk operations and crashes against two workers, SQL backend, with
\* and without time zones.
CONSTANTS
  a = a  b = b  c = c  w1 = w1  w2 = w2
  t1 = t1  t2 = t2  q1 = q1  q2 = q2  dlq = dlq
  gpu = gpu  None = None
  Pools = {gpu}  Types = {t1, t2}  Queues = {q1, dlq}  DeadLetterQueue = dlq
  WorkerQueue <- AnyQueue
  Jobs = {a}  Workers = {w1, w2}  Backend = "sql"  Request <- SingleRequest
  Limit <- OneSlot  Handlers = {t1}  Policy <- IgnoreFailures  RunTimeout = FALSE
  AdminOps = {"submit"}
  SweepKinds = {"run_sweep", "clear_stuck", "fail_stuck", "clear_old", "bulk_cancel_queued", "bulk_retry_failed", "bulk_fail_running"}
  Priorities = {1}
  ClaimTimeout = 0  Ttl = 0  Retention = 0  MaxAge = 0
  MaxNow = 1  MaxEpisode = 2
SPECIFICATION FairOpSpec
INVARIANT OpTypeOK
PROPERTY StuckJobRecovered
