SPECIFICATION Spec
CONSTANTS
  Callers = {g1, g2}
  MaxInflight = 1
  QueueMax = 4
  TimedWait = FALSE
PROPERTY BorrowerYields
