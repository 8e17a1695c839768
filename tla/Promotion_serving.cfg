\* The out-of-memory kill of a deployment whose writers are stopped.
SPECIFICATION Spec
CONSTANTS
  MaxRelease = 2
  Contract = {1, 2}
  Auth = {a1}
PROPERTY RestoredIsServing
CHECK_DEADLOCK FALSE
