\* Two sweeps select the same run.
SPECIFICATION Spec
CONSTANTS
  Turn = {t}
  Web = {t}
  Sweep = {s1, s2}
  Worker = {w1, w2}
  Conversation = {c}
  None = None
PROPERTIES NotResurrected
CHECK_DEADLOCK FALSE
