\* Two threads that submit with one key and fan out; a poller, a canceller,
\* workers, a restart.
CONSTANTS
  None = None  Threads = {t1, t2}  Workers = {w1, w2}  Keys = {k}
  MaxJobs = 3  Ttl = 2  MaxNow = 3  MaxRestarts = 1
  Fan = 2  MaxRewrites = 1  Thresholds <- AllHalfOrMore
SYMMETRY ActorSymmetry
CONSTRAINTS OneAspect VerdictsMatter
SPECIFICATION FanSpec
INVARIANTS FanTypeOK OneJobPerWindow AnswersNameJobs SucceededMeansAll
PROPERTY VerdictStands
CHECK_DEADLOCK FALSE
