\* STOP and START of one stream, on two workers.
SPECIFICATION Spec
CONSTANTS
  Worker = {w1, w2}
  Stream = {a}
  Length = 2
  Parts = 1
  Kinds = {"start", "stop"}
  Limited = {}
  None = None
PROPERTY OptOutFollowsReceipts
CHECK_DEADLOCK FALSE
