SPECIFICATION Spec
CONSTANTS
  Wallets = {a, b}
  Coins = {x}
  Holder = a
  Deltas <- MCDeltas
  Swaps <- MCSwaps
  Opening <- MCOpening
  Projected <- MCProjected
  Settable <- MCSettable
  MaxFills = 1
  MaxFailures = 0
  Nil = Nil
INVARIANTS DrainedIsReconciled
CHECK_DEADLOCK FALSE
