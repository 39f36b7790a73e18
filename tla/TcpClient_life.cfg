CONSTANTS
  c1 = c1
  c2 = c2
  Client = {c1, c2}
  OffLoop = {c2}
  NFd = 2
  MaxAtt = 2
  MaxOut = 1
SPECIFICATION FairSpec
INVARIANTS TypeOK NoDoubleClose SocketsAreHeld ConnectedIsReal
PROPERTIES EstablishedReported CloseFinishes
CHECK_DEADLOCK FALSE
