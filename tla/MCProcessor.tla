----------------------------- MODULE MCProcessor -----------------------------
(* Finite instances of Processor for TLC. *)
EXTENDS Processor, TLC

CONSTANTS k1, k2, w1, w2

MCSymmetry == Permutations(Workers) \cup Permutations(Wallets)
=============================================================================
