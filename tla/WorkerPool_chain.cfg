\* Dependencies, a contended pool, two workers on one queue.
CONSTANTS
  a = a  b = b  c = c  d = d  w1 = w1  w2 = w2
  t1 = t1  t2 = t2  t3 = t3  q1 = q1  q2 = q2  dlq = dlq
  gpu = gpu  None = None
  Pools = {gpu}  Types = {t1, t2, t3}  Queues = {q1, q2, dlq}  DeadLetterQueue = dlq
  MaxNow = 0
  Jobs = {a, b, c, d}  Workers = {w1, w2}  Backend = "memory"  Request <- ChainRequest
  Limit <- TwoSlots  Handlers = {t1, t2}  Policy <- RetryAndDeadLetter  RunTimeout = TRUE
  WorkerQueue <- AnyQueue
SPECIFICATION WorkerSpec
INVARIANTS ExclusivePerEpisode DependenciesFirst RunningIsOwned SlotsReturned
PROPERTY TransitionsEnforced
