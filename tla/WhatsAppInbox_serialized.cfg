\* A /new and the message behind it, on two workers.
SPECIFICATION Spec
CONSTANTS
  Worker = {w1, w2}
  Stream = {a}
  Length = 2
  Parts = 1
  Kinds = {"chat", "reset"}
  Limited = {}
  None = None
INVARIANT SerializedPerSender
CHECK_DEADLOCK FALSE
