--------------------------- MODULE OrderedConsumer ---------------------------
(***************************************************************************)
(* What the processing worker promises to those who rely on it: it takes   *)
(* the events of the journal in order, each at most once and, unless an    *)
(* operator discards the backlog, none is passed over.                     *)
(***************************************************************************)
EXTENDS Naturals, Sequences

VARIABLES
  produced,   \* how many events the journal has
  cursor,     \* the events up to here are dealt with
  handled     \* history: the events taken, in the order they were taken

vars == <<produced, cursor, handled>>

Init == produced = 0 /\ cursor = 0 /\ handled = <<>>

Produce ==
  /\ produced' = produced + 1
  /\ UNCHANGED <<cursor, handled>>

Consume ==
  /\ cursor < produced
  /\ cursor' = cursor + 1
  /\ handled' = Append(handled, cursor')
  /\ UNCHANGED produced

Discard ==
  /\ cursor' = produced
  /\ UNCHANGED <<produced, handled>>

Next == Produce \/ Consume \/ Discard

Spec == Init /\ [][Next]_vars
=============================================================================
