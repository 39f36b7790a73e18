CONSTANTS
  s1 = s1
  s2 = s2
  c1 = c1
  f1 = f1
  f2 = f2
  Session = {s1, s2}
  Conn = {c1}
  Fd = {f1, f2}
  None = none
  IdMod = 2
  MaxCmd = 1
  Window = 1
  ReplyKinds = {"one", "arr"}
  Faults = {}
SPECIFICATION Spec
SYMMETRY ProxySymmetry
INVARIANT NoCrossTalk
CHECK_DEADLOCK FALSE
