CONSTANTS
  k1 = k1  k2 = k2  w1 = w1  w2 = w2
  Workers = {k1, k2}
  Wallets = {w1}
  Limit = 2
  MaxEvents = 2
  MaxCrashes = 1
  Poison = {w1}
  Nil = Nil
SPECIFICATION FairSpec
INVARIANTS IInv NothingBehindQuarantine
PROPERTIES ConsumerSpec EveryEventDealtWith
