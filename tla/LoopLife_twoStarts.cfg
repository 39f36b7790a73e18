CONSTANTS
  c1 = c1
  c2 = c2
  c3 = c3
  Caller = {c1, c2, c3}
  Starter = {c1, c2}
  Waiter = {c1, c2}
  MaxStart = 2
SPECIFICATION Spec
INVARIANT FinishedIsOver
CHECK_DEADLOCK FALSE
