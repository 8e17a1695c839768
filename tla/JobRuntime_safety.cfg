\* One job and a replay: two workers and a scheduler, or a worker and two schedulers.
SPECIFICATION Spec
CONSTANTS
  Job = {j1}
  Worker = {w1, w2}
  Scheduler = {s1, s2}
  None = None
  AttemptLimits = {1}
  BatchSize = 1
  MaxWakes = 2
  ClaimWakes = 1
  MaxDefers = 1
  MaxReplays = 1
CONSTRAINT OneRests
SYMMETRY ProcessSymmetry
INVARIANTS
  TypeOK LockedRowIsOwned ClaimsAreUnique EveryBurialIsReported
PROPERTIES RunsEndByTheirOwner ImplementsLedger OutcomesAreFinal
