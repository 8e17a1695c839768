\* Two executions process the callbacks of one message.
SPECIFICATION Spec
CONSTANTS
  Worker = {w1, w2}
PROPERTY StatusIsMonotonic
CHECK_DEADLOCK FALSE
