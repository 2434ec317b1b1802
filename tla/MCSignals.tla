------------------------------ MODULE MCSignals ------------------------------
(* The instance of Signals that TLC checks: the leader builds a position in x *)
(* at varying pace, and moves about in k, of which it has one from before.    *)
EXTENDS Signals

CONSTANTS x, k

Move(c, d, t) == [coin |-> c, delta |-> d, wait |-> t]
MCMoves ==
  {Move(x, 1, 0), Move(x, 1, 1), Move(x, -2, 1), Move(k, 1, 1), Move(k, -2, 0)}
MCOpenings == {[c \in {x, k} |-> IF c = x THEN 0 ELSE 1]}
MCMixed    == {{}, {k}}
MCPrices   == <<1, 1, 1, 2, 3>>
=============================================================================
