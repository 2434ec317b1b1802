SPECIFICATION FairSpec
CONSTANTS
  Wallets = {a, b, c}
  Threads = {t1, t2}
  Refused = {a, b}
  FirstDelay = 2
  Doublings = 1
  MaxDelay = 3
  MaxMishaps = 2
  Nil = Nil
INVARIANTS TypeOK IInv SentIsMailed RepeatedByMishapOnly
PROPERTIES OthersGetThrough
CHECK_DEADLOCK FALSE
