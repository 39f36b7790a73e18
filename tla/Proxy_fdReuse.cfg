CONSTANTS
  s1 = s1
  s2 = s2
  c1 = c1
  f1 = f1
  Session = {s1, s2}
  Conn = {c1}
  Fd = {f1}
  None = none
  IdMod = 2
  MaxCmd = 2
  Window = 1
  ReplyKinds = {"one"}
  Faults = {"client"}
SPECIFICATION Spec
SYMMETRY ProxySymmetry
INVARIANT HealthyStaysOpen
CHECK_DEADLOCK FALSE
