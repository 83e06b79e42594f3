SPECIFICATION Spec
CONSTANTS
  m1 = m1
  m2 = m2
  d1 = d1
  d2 = d2
  p1 = p1
  p2 = p2
  Message = {m2}
  Dir = {d1}
  Home <- SharedHome
  File = {"message", "report"}
  Parts <- BothFull
  Refused = {}
  Pid = {p1}
  MaxScans <- Once
  MaxFaults = 0
INVARIANTS
  WholeOrNothing
CHECK_DEADLOCK FALSE
