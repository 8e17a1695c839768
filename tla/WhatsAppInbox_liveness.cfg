\* One worker, two receipts of one stream; one message sent, one execution that processes
\* its callbacks.
SPECIFICATION MessagesSpec
CONSTANTS
  Worker = {w1}
  Stream = {a}
  Length = 2
  Parts = 1
  Kinds = {"chat", "reset", "stop"}
  Limited = {1}
  None = None
  Executor = {e1}
INVARIANT MessagesTypeOK
PROPERTIES EveryReceivedResolves FailureIsAlerted
CHECK_DEADLOCK FALSE
