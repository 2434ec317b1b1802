------------------------------- MODULE HrsCore -------------------------------
(***************************************************************************)
(* The pure core of the signal processing (src/tme/hrs_processing.py): what*)
(* a fill does to a position, the lifecycle that the fills of an open      *)
(* position form, and whether that lifecycle challenges what is held.      *)
(*                                                                         *)
(* A fill is a record with coin, start (the position before it), delta     *)
(* (signed size), price, time and id.  The fills of one wallet are         *)
(* journaled in the order of their times, which the stable sort by time    *)
(* keeps.  Sizes are integers, so the tolerance of 0.000001 is equality.   *)
(***************************************************************************)
EXTENDS Rational, Sequences, FiniteSetsExt, SequencesExt

Size(x) == IF x < 0 THEN -x ELSE x
Sign(x) == IF x > 0 THEN 1 ELSE IF x < 0 THEN -1 ELSE 0

\* A bug the checks must notice: the position after a fill does not build on the one before.
AfterAlone(f) == f.delta

After(f) == f.start + f.delta

\* Fill.kind.  A fill of size 0 would be UNKNOWN; there is none.
Kind(f) ==
  CASE f.start = 0                              -> "OPEN"
    [] After(f) = 0                             -> "FULL_CLOSE"
    [] f.start # 0 /\ f.start * After(f) < 0    -> "REVERSAL"
    [] f.start # 0 /\ f.start * f.delta > 0     -> "INCREASE"
    [] OTHER                                    -> "REDUCTION"

Entries == {"OPEN", "INCREASE", "REVERSAL"}

\* The capital that an entry puts into the position.
Added(f) == Q((IF Kind(f) = "REVERSAL" THEN Size(After(f)) ELSE Size(f.delta)) * f.price, 1)
-----------------------------------------------------------------------------
\* The longest suffix of fs in which each fill starts where the last one ended.
Suffix(fs) ==
  LET n == Len(fs)
      first == CHOOSE s \in 1..n :
        /\ \A k \in (s + 1)..n : After(fs[k - 1]) = fs[k].start
        /\ s > 1 => After(fs[s - 1]) # fs[s].start
  IN SubSeq(fs, first, n)

\* The fills of fs that take the position to the expected side.
Boundaries(fs, expected) ==
  {i \in DOMAIN fs : /\ Sign(After(fs[i])) = Sign(expected)
                     /\ Sign(fs[i].start) # Sign(expected)}

\* A bug the checks must notice: the first boundary instead of the last one.
BoundaryFirst(bs) == Min(bs)

\* The lifecycle begins at the last boundary.
Boundary(bs) == Max(bs)

\* Of no fills.
Nothing == [events |-> <<>>, capital |-> Zero]

\* One more fill of the lifecycle: acc has the capital events, in which the
\* entries of one millisecond are one event, and the capital so far.
Absorb(acc, f) ==
  LET kind == Kind(f)
      last == acc.events[Len(acc.events)]
      merges == acc.events # <<>> /\ last.time = f.time
      event == [id |-> f.id, time |-> f.time,
                added |-> IF merges THEN last.added ++ Added(f) ELSE Added(f)]
  IN CASE kind \in Entries ->
            [events  |-> IF merges THEN Append(Front(acc.events), event)
                                   ELSE Append(acc.events, event),
             capital |-> IF kind = "REVERSAL" THEN Added(f) ELSE acc.capital ++ Added(f)]
       [] kind = "REDUCTION" ->
            [acc EXCEPT !.capital = @ ** Q(Size(After(f)), Size(f.start))]
       [] kind = "FULL_CLOSE" -> [acc EXCEPT !.capital = Zero]

\* A bug the checks must notice: the capital of an event alone.
VelocityFlat(events, k) == events[k].added

\* Capital per unit of time since the event before; there is none for the first.
Velocity(events, k) == Over(events[k].added, Q(events[k].time - events[k - 1].time, 1))

\* The last event has an acceleration when the one before it has a velocity.
Accelerates(events) == Len(events) >= 3
Acceleration(events) ==
  LET n == Len(events)
  IN Over(Velocity(events, n) -- Velocity(events, n - 1),
          Q(events[n].time - events[n - 1].time, 1))

\* reconstruct_lifecycle of a position that is open, with the capital the
\* caller vouches for.  The early returns for a gap after the boundary, a
\* reduction from zero and a wrong final size cannot happen to a contiguous
\* suffix that ends in the expected size.
Reconstruct(fs, expected, vouched) ==
  LET none == [status |-> "INSUFFICIENT", fills |-> <<>>, events |-> <<>>,
               rebuilt |-> Zero, capital |-> vouched]
      suffix == Suffix(fs)
      bs == Boundaries(suffix, expected)
      part == IF bs = {} THEN suffix ELSE SubSeq(suffix, Boundary(bs), Len(suffix))
      all == FoldLeft(Absorb, Nothing, part)
      trusted == Zero \prec vouched
  IN IF fs = <<>> \/ After(fs[Len(fs)]) # expected THEN none
     ELSE [status  |-> IF bs # {} THEN "FULL"
                       ELSE IF trusted /\ Accelerates(all.events) THEN "PARTIAL"
                       ELSE "INSUFFICIENT",
           fills   |-> part,
           events  |-> all.events,
           rebuilt |-> all.capital,
           capital |-> IF trusted THEN vouched ELSE IF bs # {} THEN all.capital ELSE Zero]
-----------------------------------------------------------------------------
\* rebuild_wallet: the share of each lifecycle in the capital of all.
Total(lives) ==
  FoldLeft(LAMBDA t, c : t ++ lives[c].capital, Zero, SetToSeq(DOMAIN lives))
Share(lives, c) ==
  IF Zero \prec lives[c].capital THEN Over(lives[c].capital, Total(lives)) ELSE Zero

\* is_eligible.
Eligible(life, share, previous, trigger, isHeld) ==
  /\ ~isHeld
  /\ life.status \in {"FULL", "PARTIAL"}
  /\ Accelerates(life.events) /\ Zero \prec Acceleration(life.events)
  /\ previous \prec share
  /\ life.events[Len(life.events)].id = trigger.id
  /\ Kind(trigger) \in {"OPEN", "INCREASE"}

\* leaderboard: by acceleration, then by capital.
Outranks(l, m) ==
  \/ Acceleration(m.events) \prec Acceleration(l.events)
  \/ /\ Acceleration(m.events) \approx Acceleration(l.events)
     /\ m.capital \prec l.capital

\* evaluate.  held is the share of what is held, hasHeld whether anything is.
Decision(challenged, hasHeld, share, held, gapRequired) ==
  CASE ~hasHeld -> IF challenged THEN "INITIAL_ENTRY" ELSE "NO_ACTION"
    [] hasHeld  -> IF challenged /\ Q(gapRequired, 100) \preceq share -- held
                   THEN "ROTATE" ELSE "HOLD"
=============================================================================
