CONSTANTS
  Consumers = {e1, e2}
  Messages = {1}
  ClaimLeases = {2, 3}
  RenewLeases = {1, 3}
  Delays = {0, 1}
  MaxAge = 1
  MaxCalls = 1
  MaxFailures = 2
  Nil = Nil
SPECIFICATION FairSpec
INVARIANTS IInv SharedByOwnCallOnly
PROPERTIES HandedOverWhenDue SettledIsFinal EveryMessageSettles
