SPECIFICATION FairSpec
CONSTANTS
  Wallets = {a, b}
  Coins = {x}
  Holder = a
  Deltas <- MCDeltas
  Swaps <- MCSwaps
  Opening <- MCOpening
  Projected <- MCProjected
  Settable <- MCSettable
  MaxFills = 2
  MaxFailures = 1
  Nil = Nil
INVARIANTS IInv ProjectionBalances GateIsHonest LegacyIsReal CompletionIsAnnounced
PROPERTIES ActiveAreOnboarded FailedStreamIsReplaced
CHECK_DEADLOCK FALSE
