\* Workers that die, a reaper, every caller operation.
CONSTANTS
  None = None
  Jobs = {a}  Priority <- SamePriority
  Workers = {w1, w2}  Callers = {c1}  Reapers = {r1}  Crashing = {w1, w2}
  CallerOps = {"enqueue", "cancel", "retry", "update"}  Outcomes = {"failed"}  MaxEpisode = 2
SPECIFICATION FairSpec
INVARIANT ExclusivePerEpisode
PROPERTIES CrashRecovered ImplementsClaimQueue
