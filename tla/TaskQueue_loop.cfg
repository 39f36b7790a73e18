CONSTANTS
  s1 = s1
  s2 = s2
  Sender = {s1, s2}
  LoopThread = loop
  None = none
  MaxTask = 4
  EarlySend = TRUE
SPECIFICATION FairSpec
INVARIANTS TypeOK NoLostWakeup OneLateSend
PROPERTIES ImplementsMailbox AcceptedTaskRuns ExitStopsLoop
CHECK_DEADLOCK FALSE
