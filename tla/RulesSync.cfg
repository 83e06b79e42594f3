SPECIFICATION FairSpec
CONSTANTS
  c1 = c1
  c2 = c2
  c3 = c3
  c4 = c4
  Commit = {c1, c2, c3, c4}
  Root = c1
  Ancestor <- Tree
  Moves <- Onward
  Pack <- Packs
  Keep = 1
  EarlyRefresh = FALSE
  MaxFaults = 2
INVARIANTS
  TypeOK
  OnlyValidated
  LiveIsWhole
PROPERTIES
  OnlyForward
  NoChangeIsTrue
  ImplementsRuleFeed
  NoSilentStall
