----------------------------- MODULE Projection -----------------------------
(***************************************************************************)
(* The materialised position of one wallet in one coin, and how one fill   *)
(* changes it: MemoryEngine._project.                                      *)
(*                                                                         *)
(* A row keeps the columns that recovery, snapshots and the lifecycle      *)
(* index depend on: the lifecycle number, the signed size and the sequence *)
(* of the last fill applied.  Prices, capital, realised profit and times   *)
(* are left out: no column kept here is computed from them.                *)
(***************************************************************************)
EXTENDS Integers

\* One row of the projections table.
Row == [lifecycle : Nat, size : Int, last : Nat]

\* A missing row.  The code reads it as size 0 in lifecycle 0, and sequence
\* numbers start at 1, so no row written by a fill looks like it.
NoRow == [lifecycle |-> 0, size |-> 0, last |-> 0]

\* A bug the check must notice: a reversal stays in the old lifecycle.
OpensFromFlat(old, new) == old = 0

\* The fill takes the position from flat, or through flat to the other side.
Opens(old, new) == old = 0 \/ (((old > 0) # (new > 0)) /\ new # 0)

\* The row after the fill with sequence number seq moved the size by delta.
Project(row, delta, seq) ==
  [lifecycle |-> row.lifecycle + (IF Opens(row.size, row.size + delta) THEN 1 ELSE 0),
   size      |-> row.size + delta,
   last      |-> seq]
=============================================================================
