\* One job with a retry, one worker, one scheduler; no symmetry under liveness.
SPECIFICATION FairSpec
CONSTANTS
  Job = {j1}
  Worker = {w1}
  Scheduler = {s1}
  None = None
  AttemptLimits = {2}
  BatchSize = 1
  MaxWakes = 1
  MaxDefers = 0
  MaxReplays = 0
INVARIANTS NoJobStranded BudgetIsKept
PROPERTY EveryJobSettles
