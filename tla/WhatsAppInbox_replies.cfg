\* Two workers; the bounds of each scene are in the module.
SPECIFICATION ScenesSpec
CONSTANTS
  Worker = {w1, w2}
  Stream = {a, b}
  Length = 2
  Parts = 2
  Kinds = {"chat", "reset", "start", "stop"}
  Limited = {1}
  None = None
SYMMETRY Symmetry
INVARIANT AtMostOneCopy
PROPERTIES  RepliesInOrder NoSendAfterOptOut
CHECK_DEADLOCK FALSE
