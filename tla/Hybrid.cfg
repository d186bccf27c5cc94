\* Two workers and a caller, all of which may be cut off in the middle.
CONSTANTS
  None = None
  Jobs = {a}  Priority <- SamePriority
  Workers = {w1, w2}  Callers = {c1}  Reapers = {}  Crashing = {w1, w2, c1}
  CallerOps = {"enqueue", "cancel", "retry", "update"}  Outcomes = {"failed"}  MaxEpisode = 2
SYMMETRY WorkerSymmetry
SPECIFICATION HybridSpec
INVARIANTS HybridTypeOK DurableBeforeDispatch StoresAgree AttemptsKept LeaseHeld
