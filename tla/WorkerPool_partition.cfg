\* Two workers on a queue each, sharing a pool of one slot.
CONSTANTS
  a = a  b = b  c = c  d = d  w1 = w1  w2 = w2
  t1 = t1  t2 = t2  t3 = t3  q1 = q1  q2 = q2  dlq = dlq
  gpu = gpu  None = None
  Pools = {gpu}  Types = {t1, t2, t3}  Queues = {q1, q2, dlq}  DeadLetterQueue = dlq
  MaxNow = 0
  Jobs = {a, b, c}  Workers = {w1, w2}  Backend = "memory"  Request <- SharedPoolRequest
  Limit <- OneSlot  Handlers = {t1, t2}  Policy <- NotifyAndIgnore  RunTimeout = FALSE
  WorkerQueue <- QueueEach
SPECIFICATION FairWorkerSpec
PROPERTY EveryJobRuns
