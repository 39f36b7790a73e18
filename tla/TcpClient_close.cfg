CONSTANTS
  c1 = c1
  Client = {c1}
  OffLoop = {}
  NFd = 1
  MaxAtt = 1
  MaxOut = 1
SPECIFICATION Spec
INVARIANT ClosedIsDown
CHECK_DEADLOCK FALSE
