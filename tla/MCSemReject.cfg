SPECIFICATION Spec
CONSTANTS
  Callers = {g1, g2}
  MaxInflight = 1
  QueueMax = 1
  TimedWait = FALSE
PROPERTY RejectedForAdjudicationsAlone
