SPECIFICATION Spec
CONSTANTS
  m1 = m1
  m2 = m2
  Message = {m1, m2}
  UID = {1, 2}
  MaxValidity = 1
  UidOf <- SwappedUids
  MaxAttempts = 1
  Concurrency = 1
  WebhookAttempts = 2
  Limit = 2
  Modes = {"forever", "once"}
  MaxFaults = 1
INVARIANTS
  FlaggedIsRecorded
