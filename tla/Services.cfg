\* Each component with two processes where processes race.
SPECIFICATION Spec
CONSTANTS
  Process = {p1, p2}
  Tenant = {t1, t2}
  User = {u1}
  None = None
  Questions = 2
  Value = {1, 2}
  MaxRevision = 8
  MaxAttempt = 2
  MaxBoundary = 2
  MaxRelease = 3
  Contract = {2, 3}
  Auth = {"a1", "a2"}
SYMMETRY Symmetry
INVARIANTS
  TypeOK SyncedDataIsCurrent ActionsAreTrue OneSummaryPerSlot ProfileIsKept HostIsConsistent
  ProfilesAreAsCommitted HostIsGuarded OneChallengeOneSession 
PROPERTIES
  PullIsWhole SentAsPreviewed SentAsWanted StepsInOrder 
CHECK_DEADLOCK FALSE
