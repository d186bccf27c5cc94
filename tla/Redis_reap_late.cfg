\* A lease runs out while the handler is finishing.
CONSTANTS
  None = None
  Jobs = {a}  Priority <- SamePriority
  Workers = {w1}  Callers = {c1}  Reapers = {r1}  Crashing = {}
  CallerOps = {"enqueue"}  Outcomes = {"succeeded"}  MaxEpisode = 2
SPECIFICATION Spec
INVARIANT NotLost
