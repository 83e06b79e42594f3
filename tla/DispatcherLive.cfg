SPECIFICATION FairSpec
CONSTANTS
  m1 = m1
  m2 = m2
  Message = {m1, m2}
  UID = {1, 2}
  MaxValidity = 1
  UidOf <- SwappedUids
  MaxAttempts = 2
  Concurrency = 2
  WebhookAttempts = 1
  Limit = 1
  Modes = {"forever", "once", "rescan", "rescan+webhooks"}
  MaxFaults = 1
PROPERTIES
  RescanWritesNothing
  NothingIsStranded
