SPECIFICATION Spec
CONSTANTS
  m1 = m1
  m2 = m2
  Message = {m1, m2}
  UID = {1, 2}
  MaxValidity = 2
  UidOf <- SwappedUids
  MaxAttempts = 1
  Concurrency = 2
  WebhookAttempts = 2
  Limit = 2
  Modes = {"forever"}
  MaxFaults = 1
INVARIANTS
  TypeOK
  DoneWasDisposed
  FlaggedWasDisposed
  DuplicatesNeedFaults
PROPERTIES
  DoneListOnlyGrows
  ImplementsIntake
