CONSTANTS
  s1 = s1
  s2 = s2
  c1 = c1
  c2 = c2
  f1 = f1
  f2 = f2
  Session = {s1, s2}
  Conn = {c1, c2}
  Fd = {f1, f2}
  None = none
  IdMod = 3
  MaxCmd = 2
  Window = 1
  ReplyKinds = {"one"}
  Faults = {"conn", "client"}
SPECIFICATION Spec
SYMMETRY ProxySymmetry
INVARIANTS TypeOK NoCrossTalk NoEmptyPop
PROPERTIES NoNeedlessDrop ImplementsRequestReply
CONSTRAINT BeforeCut
CHECK_DEADLOCK FALSE
