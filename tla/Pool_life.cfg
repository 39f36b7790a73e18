CONSTANTS
  b1 = b1
  p1 = p1
  p2 = p2
  N = 2
  IndexMod = 3
  Broadcaster = {b1}
  Picker = {p1, p2}
  Exit = exit
  MaxPick = 4
  MayFail = {2}
SPECIFICATION FairSpec
INVARIANTS TypeOK InitReady EarlyBroadcastRuns StoppedIsQuiet PicksRotate
PROPERTIES QueuesAreMailboxes InitReturns StopReturns
CHECK_DEADLOCK FALSE
