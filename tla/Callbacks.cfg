\* Two threads, two registrations, two deliveries, one restart.
CONSTANTS
  Threads = {t1, t2}  Policies = {0, 2}
  MaxRegs = 2  MaxCalls = 2  MaxRestarts = 1
SPECIFICATION FairSpec
INVARIANTS TypeOK Durable AttemptsCounted ResultsEarned
PROPERTY TriggerReturns
