--------------------------- MODULE MCMemoryEngine ---------------------------
(* Finite instances of MemoryEngine for TLC. *)
EXTENDS MemoryEngine, TLC

CONSTANTS w1, w2, c1, c2, i1, i2, i3, r1, r2

MCSymmetry == Permutations(Wallets) \cup Permutations(Coins) \cup Permutations(EventIds)
                \cup Permutations(Requests)

MCOpenClose == {1, -1}
MCReversals == {1, -2, 3}

\* Recovery without a snapshot replays the journal onto the rows it finds, so
\* repeating it grows them without end: stop at these rows.  Rows that go back
\* to an empty start are as finite as the journal, and never cut off.
CONSTANTS MaxLifecycle, MaxSize
Bounded == \A w \in Wallets, c \in Coins : ~sound[w] =>
  /\ proj[w][c].lifecycle <= MaxLifecycle
  /\ proj[w][c].size \in -MaxSize..MaxSize
=============================================================================
