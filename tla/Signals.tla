------------------------------- MODULE Signals -------------------------------
(***************************************************************************)
(* The signal processing of one wallet that has been onboarded: the fills  *)
(* the exchange really made, the part of them that is journaled and        *)
(* processed, the rows of processor_assets, and what                       *)
(* ProcessingEngine._process_event (src/tme/processing.py) makes of a fill *)
(* with the operators of HrsCore.                                          *)
(*                                                                         *)
(* An event reads the journal only up to itself, so it is journaled and    *)
(* processed in one step.  The batches, the offset and the onboarding gate *)
(* are Processor's; here the gate is open.                                 *)
(***************************************************************************)
EXTENDS HrsCore

CONSTANTS
  Coins,
  Moves,       \* what the leader may do: coin, signed size and time that passes
  Openings,    \* the positions when the wallet is onboarded
  Mixed,       \* coins whose names have lower-case letters, like kPEPE
  Prices,      \* the price of the n-th fill
  JoinedAt,    \* wallet_onboarding.joined_at_ms
  GapRequired, \* allocation_gap_pct
  MaxLapses,   \* bound: fills that are missed or skipped
  Nil

ASSUME MovesAssumption ==
  Moves \subseteq [coin : Coins, delta : Int \ {0}, wait : Nat]
ASSUME OpeningsAssumption == Openings \subseteq [Coins -> Int]
ASSUME MixedAssumption    == Mixed \subseteq SUBSET Coins
ASSUME PricesAssumption   == Prices \in Seq(Nat \ {0})

Row == [size : Int, capital : Int \X Int]
ASSUME NilAssumption      == Nil \notin Coins /\ Nil \notin Row

VARIABLES
  mixed,    \* the coins whose names have lower-case letters
  fills,    \* the fills of the wallet on the exchange
  position, \* its positions there
  journal,  \* the fills that are in the event_journal
  handled,  \* the fills that _process_event has handled
  assets,   \* processor_assets: size and capital of a coin, or Nil
  share,    \* processor_assets.share, Zero without a row
  held,     \* processor_wallet_runtime.held_asset
  result    \* what the event that was just processed led to, else Nil

vars == <<mixed, fills, position, journal, handled, assets, share, held, result>>

Init ==
  /\ mixed \in Mixed
  /\ fills = <<>> /\ position \in Openings
  /\ journal = {} /\ handled = {}
  /\ assets = [c \in Coins |-> Nil] /\ share = [c \in Coins |-> Zero]
  /\ held = Nil /\ result = Nil

Now     == IF fills = <<>> THEN 0 ELSE fills[Len(fills)].time
Lapses  == Len(fills) - Cardinality(handled)
Next_(m) == [id |-> Len(fills) + 1, coin |-> m.coin, start |-> position[m.coin],
             delta |-> m.delta, price |-> Prices[Len(fills) + 1], time |-> Now + m.wait]
-----------------------------------------------------------------------------
\* The journal has the names of the coins in capital letters, the rows have
\* them as the exchange writes them: a coin in mixed is not found there.
PriorRow(c) == IF c \in mixed THEN Nil ELSE assets[c]

Nth(S, k) == CHOOSE i \in S : Cardinality({j \in S : j <= i}) = k

\* _all_fills: of the fills that were made those since the wallet was onboarded which
\* can be read back, in the order of the journal.
AllFills(c, made, read) ==
  LET ids == {i \in DOMAIN made \cap read : made[i].coin = c /\ made[i].time >= JoinedAt}
  IN IF c \in mixed THEN <<>> ELSE [k \in 1..Cardinality(ids) |-> made[Nth(ids, k)]]

\* A bug the checks must notice: a reduction takes no capital out.
CapitalKept(f, prior) ==
  CASE Kind(f) \in {"OPEN", "REVERSAL"} -> Added(f)
    [] Kind(f) = "INCREASE" /\ prior # Nil -> prior.capital ++ Added(f)
    [] Kind(f) = "REDUCTION" /\ prior # Nil -> prior.capital
    [] OTHER -> Zero

\* The capital in the position after the fill f.
Capital(f, prior) ==
  CASE Kind(f) \in {"OPEN", "REVERSAL"} -> Added(f)
    [] Kind(f) = "INCREASE" /\ prior # Nil -> prior.capital ++ Added(f)
    [] Kind(f) = "REDUCTION" /\ prior # Nil ->
         prior.capital ** Q(Size(After(f)), Size(f.start))
    [] OTHER -> Zero

\* rebuild_wallet and evaluate on the rows after the fill f.
Judged(rows, f) ==
  LET open  == {c \in Coins : rows[c] # Nil}
      lives == [c \in open |-> Reconstruct(AllFills(c, Append(fills, f), journal \cup {f.id}),
                                           rows[c].size, rows[c].capital)]
      shares == [c \in open |-> Share(lives, c)]
      eligible == {c \in open : Eligible(lives[c], shares[c], share[c], f, c = held)}
      best == CHOOSE c \in eligible :
                \A d \in eligible \ {c} : ~Outranks(lives[d], lives[c])
      none == eligible = {}
  IN [trigger |-> f.id, lives |-> lives, shares |-> shares, eligible |-> eligible,
      challenger |-> IF none THEN Nil ELSE best,
      decision |-> Decision(~none, held # Nil,
                            IF none THEN Zero ELSE shares[best],
                            IF held \in open THEN shares[held] ELSE Zero, GapRequired)]

\* _process_event.
Process(m) ==
  LET f == Next_(m)
      c == m.coin
      rows == [assets EXCEPT ![c] =
                 IF After(f) = 0 THEN Nil
                 ELSE [size |-> After(f), capital |-> Capital(f, PriorRow(c))]]
      judged == Judged(rows, f)
  IN /\ assets' = rows
     /\ share' = [d \in Coins |-> IF rows[d] = Nil THEN Zero ELSE judged.shares[d]]
     /\ result' = judged
     /\ journal' = journal \cup {f.id} /\ handled' = handled \cup {f.id}
     /\ UNCHANGED held

\* The wallet was not active when the batch was read: the event is passed over.
Skip(m) ==
  /\ Lapses < MaxLapses
  /\ journal' = journal \cup {Next_(m).id}
  /\ result' = Nil
  /\ UNCHANGED <<handled, assets, share, held>>

\* The collector does not hear of the fill.
Miss(m) ==
  /\ Lapses < MaxLapses
  /\ result' = Nil
  /\ UNCHANGED <<journal, handled, assets, share, held>>

Trade(m) ==
  /\ Len(fills) < Len(Prices)
  /\ fills' = Append(fills, Next_(m))
  /\ position' = [position EXCEPT ![m.coin] = @ + m.delta]
  /\ Process(m) \/ Skip(m) \/ Miss(m)
  /\ UNCHANGED mixed

SetHeld(a) ==
  /\ held # a /\ held' = a /\ result' = Nil
  /\ UNCHANGED <<mixed, fills, position, journal, handled, assets, share>>

Next ==
  \/ \E m \in Moves : Trade(m)
  \/ \E a \in Coins \cup {Nil} : SetHeld(a)

Spec == Init /\ [][Next]_vars
-----------------------------------------------------------------------------
(***************************************************************************)
(* Properties.                                                             *)
(***************************************************************************)

\* The fills that make up the position in c: those from the last one that took
\* it to its side.
Of(c) == {i \in DOMAIN fills : fills[i].coin = c}
Turns(c) == {i \in Of(c) : Sign(fills[i].start) # Sign(After(fills[i]))}
PositionOf(c) ==
  IF Turns(c) = {} THEN Of(c) ELSE {i \in Of(c) : i >= Max(Turns(c))}

\* All of them can be read back from the journal, the first one included.
Readable(c) == {i \in Of(c) \cap journal : fills[i].time >= JoinedAt}
KnownWhole(c) ==
  c \notin mixed /\ Turns(c) # {} /\ PositionOf(c) \subseteq Readable(c)

Ids(fs) == {fs[k].id : k \in DOMAIN fs}

\* FULL_HISTORY is what it says: the lifecycle of a position that is known from
\* its first fill is FULL and has exactly the fills of that position, whatever
\* is missing before it, once its last fill has been handled; and a lifecycle that
\* is FULL although that is not so has lost fills after its first
\* (hrs_processing.py:67-72, 94).
FullIsWhole ==
  result # Nil =>
    \A c \in DOMAIN result.lives :
      LET life == result.lives[c]
          ids  == Ids(life.fills)
      IN /\ KnownWhole(c) /\ Max(Of(c)) \in handled =>
              life.status = "FULL" /\ ids = PositionOf(c)
         /\ life.status = "FULL" /\ (\A i \in Of(c) : i > Min(ids) => i \in Readable(c)) =>
              KnownWhole(c) /\ ids = PositionOf(c)

\* The capital that is carried from event to event agrees with the capital that
\* the fills of the position add up to, when all of them were read and handled
\* (processing.py:49-53, hrs_processing.py:76-90).
CapitalAgrees ==
  result # Nil =>
    \A c \in DOMAIN result.lives :
      KnownWhole(c) /\ PositionOf(c) \subseteq handled =>
        assets[c].capital \approx result.lives[c].rebuilt

\* An intent follows from the leader's behaviour: it names the coin of the fill
\* that triggers it, which increased a position that is not held already, as
\* the third moment or later at which the leader put capital into it, and did
\* so faster than at the moment before (hrs_processing.py:76-86, 109-120).
IntentIsJustified ==
  result # Nil /\ result.decision \in {"INITIAL_ENTRY", "ROTATE"} =>
    LET c == result.challenger
        f == fills[result.trigger]
        entries == {i \in Ids(result.lives[c].fills) : Kind(fills[i]) \in Entries}
        times == {fills[i].time : i \in entries}
        Before(t) == Max({u \in times : u < t})
        In(t) == FoldLeft(LAMBDA q, i : q ++ Added(fills[i]), Zero,
                          SetToSeq({i \in entries : fills[i].time = t}))
        Speed(t) == Over(In(t), Q(t - Before(t), 1))
    IN /\ f.coin = c /\ c # held /\ Kind(f) = "INCREASE" /\ f.time = Max(times)
       /\ Cardinality(times) >= 3
       /\ Speed(Before(f.time)) \prec Speed(f.time)

\* The inductive invariant behind these properties: the fills come in the order of their
\* times, and those of a coin follow each other up to the position; there is a row of that
\* size for a coin whose last fill was handled; the capital in it, when all fills of the
\* position were handled, is what they add up to; the lifecycles were judged from the rows
\* and from the fills that can be read; and an intent is about one that may challenge.
Fill == [id : Nat, coin : Coins, start : Int, delta : Int \ {0}, price : Nat, time : Nat]
TypeOK ==
  /\ fills \in Seq(Fill) /\ position \in [Coins -> Int]
  /\ \A i \in DOMAIN fills : fills[i].id = i
  /\ handled \subseteq journal /\ journal \subseteq DOMAIN fills
  /\ assets \in [Coins -> Row \cup {Nil}]

Follows ==
  \A c \in Coins : \A i \in Of(c) :
    IF \A j \in Of(c) : j <= i THEN position[c] = After(fills[i])
    ELSE \E j \in Of(c) : /\ i < j /\ \A k \in Of(c) : i < k => j <= k
                          /\ fills[j].start = After(fills[i])

LastHandled(c) == \E i \in Of(c) \cap handled : \A j \in Of(c) : j <= i
RowsFollow ==
  \A c \in Coins : LastHandled(c) =>
    IF position[c] = 0 THEN assets[c] = Nil
    ELSE assets[c] # Nil /\ assets[c].size = position[c]

FillsAt(S) == [k \in 1..Cardinality(S) |-> fills[Nth(S, k)]]
CapitalFollows ==
  \A c \in Coins \ mixed :
    Turns(c) # {} /\ PositionOf(c) \subseteq handled /\ assets[c] # Nil =>
      LET acc == FoldLeft(Absorb, Nothing, FillsAt(PositionOf(c)))
      IN acc = [events |-> acc.events, capital |-> assets[c].capital]

LivesFollow ==
  result # Nil =>
    result.lives = [c \in {d \in Coins : assets[d] # Nil} |->
                      Reconstruct(AllFills(c, fills, journal), assets[c].size, assets[c].capital)]

Timely == \A i, j \in DOMAIN fills : i <= j => fills[i].time <= fills[j].time

IntentFollows ==
  result # Nil /\ result.decision \in {"INITIAL_ENTRY", "ROTATE"} =>
    LET c == result.challenger
        events == result.lives[c].events
        f == fills[result.trigger]
    IN /\ c \in DOMAIN result.lives /\ c # held
       /\ result.trigger = Len(fills) /\ Kind(f) \in {"OPEN", "INCREASE"}
       /\ Accelerates(events) /\ Zero \prec Acceleration(events)
       /\ events[Len(events)].id = f.id

IInv ==
  /\ TypeOK /\ Timely /\ Follows /\ RowsFollow
  /\ CapitalFollows /\ LivesFollow /\ IntentFollows
=============================================================================
