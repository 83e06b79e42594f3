SPECIFICATION FairSpec
CONSTANTS
  m1 = m1
  m2 = m2
  d1 = d1
  d2 = d2
  p1 = p1
  p2 = p2
  Message = {m1, m2}
  Dir = {d1, d2}
  Home <- TwoHomes
  File = {"message"}
  Parts <- BothBare
  Refused = {d1}
  Pid = {p1, p2}
  MaxScans <- OnceAndAgain
  MaxFaults = 2
INVARIANTS
  TypeOK
  FirstIsWhole
  MarkerIsTrue
  NothingIsLost
PROPERTIES
  FirstIsKept
  ImplementsParcels
  EventuallyDelivered
CHECK_DEADLOCK FALSE
