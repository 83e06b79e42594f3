SPECIFICATION Spec
CONSTANTS
  c1 = c1
  c2 = c2
  c3 = c3
  c4 = c4
  Commit = {c1, c2, c3, c4}
  Root = c1
  Ancestor <- Tree
  Moves <- Onward
  Pack <- Packs
  Keep = 3
  EarlyRefresh = FALSE
  MaxFaults = 1
INVARIANTS
  ScanSeesWholePack
