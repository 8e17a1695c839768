\* Two web turns in one conversation and a sweep; the calls, the memories and the reports.
SPECIFICATION ConversationsSpec
CONSTANTS
  Turn = {t1, t2}
  Web = {t1, t2}
  Sweep = {s}
  Worker = {w1, w2}
  Conversation = {c}
  None = None
  Fact = {"a", "b"}
  MaxWrites = 3
  Format = {"csv"}
  MaxTime = 2
  MaxBegun = 2
  MaxFailures = 2
  MaxReplies = 3
  MaxOnsets = 4
SYMMETRY Symmetry
INVARIANTS
  ConversationsTypeOK PinnedByOpenRun CallsAreKept MemoryIsReviewed ReportsAreKept
PROPERTIES AnswersAreCurrent
CHECK_DEADLOCK FALSE
