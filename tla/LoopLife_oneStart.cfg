CONSTANTS
  c1 = c1
  c2 = c2
  c3 = c3
  Caller = {c1, c2, c3}
  Starter = {c1, c2}
  Waiter = {c1, c2}
  MaxStart = 1
SPECIFICATION FairSpec
INVARIANTS TypeOK FinishedIsOver FreedIdle JoinedIsFinished
PROPERTY StopEndsLoop
CHECK_DEADLOCK FALSE
