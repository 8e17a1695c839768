\* A WhatsApp turn, its retries and a sweep.
SPECIFICATION TurnsSpec
CONSTANTS
  Turn = {t}
  Web = {}
  Sweep = {s}
  Worker = {w1, w2}
  Conversation = {c}
  None = None
  Fact = {"a", "b"}
  MaxWrites = 3
  Format = {"csv"}
  MaxTime = 2
  MaxBegun = 2
  MaxFailures = 2
  MaxReplies = 3
  MaxOnsets = 4
INVARIANTS AnsweredOnce
PROPERTIES PinIsReleased
CHECK_DEADLOCK FALSE
