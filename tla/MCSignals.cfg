SPECIFICATION Spec
CONSTANTS
  x = x
  k = k
  Coins = {x, k}
  Moves <- MCMoves
  Openings <- MCOpenings
  Mixed <- MCMixed
  Prices <- MCPrices
  JoinedAt = 1
  GapRequired = 3
  MaxLapses = 1
  Nil = Nil
INVARIANTS IInv FullIsWhole CapitalAgrees IntentIsJustified
CHECK_DEADLOCK FALSE
