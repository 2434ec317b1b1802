------------------------- MODULE MCCollectorService -------------------------
(* The instances of CollectorService that TLC checks. *)
EXTENDS CollectorService

CONSTANT Holder  \* a wallet that has a position from before

\* The others have nothing, but old rows in the database say they do.
Long(W, n)  == [w \in Wallets |-> [c \in Coins |-> IF w \in W THEN n ELSE 0]]
MCOpening   == {Long({Holder}, 2)}
MCProjected == {Long(Wallets \ {Holder}, 1)}
MCDeltas    == {-1}
MCSwaps     == {-3}
MCSettable  == {"PAUSED", "LIVE"}
=============================================================================
