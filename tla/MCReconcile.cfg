CONSTANTS
  w1 = w1  w2 = w2  c1 = c1  c2 = c2  i1 = i1  i2 = i2  i3 = i3  r1 = r1  r2 = r2
  Wallets = {w1}
  Coins = {c1}
  EventIds = {i1}
  Deltas = {1}
  AuthSizes = {0, 1}
  Commands = {}
  Requests = {}
  Nil = Nil
  MaxLifecycle = 2
  MaxSize = 2
SPECIFICATION Spec
CONSTRAINT Bounded
PROPERTIES HealthyMeansReconciled
