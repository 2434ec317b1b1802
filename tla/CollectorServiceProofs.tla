------------------------ MODULE CollectorServiceProofs ------------------------
(***************************************************************************)
(* What of CollectorService holds for every set of wallets and coins, any  *)
(* fills, commands and failures.  After the inductive invariant, its four  *)
(* safety properties, each with what a step needs to know beside it:       *)
(*   - a gate that opens is announced;                                     *)
(*   - a legacy position stays one no longer than it exists;               *)
(*   - behind an open gate every position is known from its opening fill   *)
(*     (FollowedIsTraced: so is that of any coin that is followed);        *)
(*   - the projection is off by the fills that are not journaled and those *)
(*     that are in twice (LoadedBalances: a state that was loaded is off   *)
(*     by the fills after it).                                             *)
(* Trades, the only steps that move positions, are taken wallet by wallet: *)
(* each has at most one new fill (TradeMoves).                             *)
(***************************************************************************)
EXTENDS CollectorService, SequenceTheorems, SumTheorems, TLAPS

Position == [Coins -> Int]
FillType == [wallet : Wallets, coin : Coins, start : Int, delta : Int, event : Nat]

-----------------------------------------------------------------------------
LEMMA OnboardedType ==
  ASSUME CoverageTypeOK, NEW w \in Wallets, NEW state \in Position, Onboarded(w, state)
  PROVE  CoverageTypeOK'
<1> DEFINE states == [c \in Coins |-> IF state[c] = 0 THEN "ARMED" ELSE "LEGACY"]
           ready  == state = Flat
<1>1. /\ coverage' = [coverage EXCEPT ![w] = states]
      /\ size' = [size EXCEPT ![w] = state]
      /\ gate' = [gate EXCEPT ![w] = GateOf(ready)]
      /\ status' = [status EXCEPT ![w] = StatusOf(ready)]
      /\ outbox' = IF ready THEN outbox \cup {w} ELSE outbox
  BY DEF Onboarded, Rebased
<1>2. states \in [Coins -> {"ARMED", "LEGACY", "OWNED"}]
  OBVIOUS
<1>3. GateOf(ready) \in {"CLOSED", "OPEN"} /\ StatusOf(ready) \in Active
  BY DEF GateOf, StatusOf, Active
<1> HIDE DEF states, ready
<1>4. coverage' \in [Wallets -> [Coins -> {"ARMED", "LEGACY", "OWNED"}]]
  BY <1>1, <1>2 DEF CoverageTypeOK
<1>5. size' \in [Wallets -> [Coins -> Int]]
  BY <1>1 DEF CoverageTypeOK, Position
<1>6. gate' \in [Wallets -> {"NONE", "CLOSED", "OPEN"}]
      /\ status' \in [Wallets -> Active \cup Inactive \cup {"NONE"}]
  BY <1>1, <1>3 DEF CoverageTypeOK
<1>7. outbox' \subseteq Wallets
  BY <1>1 DEF CoverageTypeOK
<1> QED BY <1>4, <1>5, <1>6, <1>7 DEF CoverageTypeOK

LEMMA NextStateType ==
  ASSUME NEW old \in {"ARMED", "LEGACY", "OWNED"}, NEW start \in Int, NEW after \in Int
  PROVE  /\ NextState(old, start, after) \in {"ARMED", "LEGACY", "OWNED"}
         /\ NextState(old, start, after) = "LEGACY" =>
              old = "LEGACY" /\ after # 0 /\ ~(start * after < 0)
BY DEF NextState

LEMMA ObservedType ==
  ASSUME CoverageTypeOK, NEW w \in Wallets, NEW c \in Coins, NEW start \in Int, NEW after \in Int,
         Observed(w, c, start, after)
  PROVE  CoverageTypeOK'
<1> DEFINE states == [coverage[w] EXCEPT ![c] = NextState(@, start, after)]
           ready  == Covered(states)
<1>1. /\ coverage' = [coverage EXCEPT ![w] = states]
      /\ gate' = [gate EXCEPT ![w] = GateOf(ready)]
      /\ status' = [status EXCEPT ![w] = StatusOf(ready)]
      /\ outbox' = IF Announces(ready, gate[w] = "OPEN") THEN outbox \cup {w} ELSE outbox
      /\ size' = size
  BY DEF Observed
<1>2. states \in [Coins -> {"ARMED", "LEGACY", "OWNED"}]
  BY NextStateType DEF CoverageTypeOK
<1>3. GateOf(ready) \in {"CLOSED", "OPEN"} /\ StatusOf(ready) \in Active
  BY DEF GateOf, StatusOf, Active
<1> HIDE DEF states, ready
<1>4. coverage' \in [Wallets -> [Coins -> {"ARMED", "LEGACY", "OWNED"}]]
  BY <1>1, <1>2 DEF CoverageTypeOK
<1>5. gate' \in [Wallets -> {"NONE", "CLOSED", "OPEN"}]
      /\ status' \in [Wallets -> Active \cup Inactive \cup {"NONE"}]
  BY <1>1, <1>3 DEF CoverageTypeOK
<1>6. outbox' \subseteq Wallets /\ size' \in [Wallets -> [Coins -> Int]]
  BY <1>1 DEF CoverageTypeOK
<1> QED BY <1>4, <1>5, <1>6 DEF CoverageTypeOK

-----------------------------------------------------------------------------
LEMMA InitIInv == Init => IInv
<1> SUFFICES ASSUME Init PROVE IInv
  OBVIOUS
<1>1. CoverageTypeOK
  BY ProjectedAssumption DEF Init, CoverageInit, CoverageTypeOK, Active, Inactive
<1>2. fills = <<>> /\ buffer = <<>> /\ fills \in Seq(FillType) /\ buffer \in Seq(DOMAIN fills)
  BY DEF Init
<1>3. TypeOK
  BY <1>1, <1>2, OpeningAssumption, BoundsAssumption DEF Init, TypeOK, FillType
<1>4. Structure
  BY DEF Init, Structure, Waiting
<1> QED BY <1>3, <1>4 DEF IInv
-----------------------------------------------------------------------------
(* The types, step by step.  None of the tables of WalletCoverage changes in most. *)
LEMMA CoverageSame == ASSUME CoverageTypeOK, UNCHANGED coverageVars PROVE CoverageTypeOK'
BY DEF CoverageTypeOK, coverageVars

LEMMA BufferType ==
  ASSUME TypeOK
  PROVE  /\ Waiting \subseteq DOMAIN fills
         /\ buffer # <<>> => /\ Head(buffer) \in Waiting /\ Head(buffer) \in DOMAIN fills
                            /\ Tail(buffer) \in Seq(DOMAIN fills)
                            /\ {Tail(buffer)[k] : k \in DOMAIN Tail(buffer)} \subseteq Waiting
         /\ \A n \in 0..Len(buffer) :
              /\ SubSeq(buffer, 1, n) \in Seq(DOMAIN fills)
              /\ {SubSeq(buffer, 1, n)[k] : k \in DOMAIN SubSeq(buffer, 1, n)} \subseteq Waiting
<1>1. buffer \in Seq(DOMAIN fills) /\ Len(buffer) \in Nat /\ DOMAIN buffer = 1..Len(buffer)
      /\ \A k \in 1..Len(buffer) : buffer[k] \in DOMAIN fills
  BY DEF TypeOK
<1>2. Waiting \subseteq DOMAIN fills
  BY <1>1 DEF Waiting
<1>3. ASSUME buffer # <<>>
      PROVE  /\ Head(buffer) \in Waiting /\ Head(buffer) \in DOMAIN fills
             /\ Tail(buffer) \in Seq(DOMAIN fills)
             /\ {Tail(buffer)[k] : k \in DOMAIN Tail(buffer)} \subseteq Waiting
  <2>1. /\ Head(buffer) = buffer[1] /\ Len(buffer) >= 1
        /\ Tail(buffer) \in Seq(DOMAIN fills) /\ Len(Tail(buffer)) = Len(buffer) - 1
        /\ \A k \in 1..Len(Tail(buffer)) : Tail(buffer)[k] = buffer[k + 1]
    BY <1>1, <1>3, HeadTailProperties
  <2>2. DOMAIN Tail(buffer) = 1..(Len(buffer) - 1)
    BY <2>1
  <2>3. \A k \in DOMAIN Tail(buffer) : k + 1 \in DOMAIN buffer /\ Tail(buffer)[k] = buffer[k + 1]
    BY <1>1, <2>1, <2>2
  <2>4. 1 \in DOMAIN buffer
    BY <1>1, <2>1
  <2> QED BY <1>1, <2>1, <2>3, <2>4 DEF Waiting
<1>4. ASSUME NEW n \in 0..Len(buffer)
      PROVE  /\ SubSeq(buffer, 1, n) \in Seq(DOMAIN fills)
             /\ {SubSeq(buffer, 1, n)[k] : k \in DOMAIN SubSeq(buffer, 1, n)} \subseteq Waiting
  <2>1. /\ SubSeq(buffer, 1, n) \in Seq(DOMAIN fills) /\ DOMAIN SubSeq(buffer, 1, n) = 1..n
        /\ \A k \in 1..n : SubSeq(buffer, 1, n)[k] = buffer[k]
    BY <1>1, <1>4
  <2> QED BY <1>1, <1>4, <2>1 DEF Waiting
<1> QED BY <1>2, <1>3, <1>4

\* A fill more of w.
LEMMA DeliveredType ==
  ASSUME NEW S, NEW b \in Seq(S), NEW w, NEW i \in S
  PROVE  /\ Delivered(b, w, i) \in Seq(S)
         /\ \A k \in DOMAIN Delivered(b, w, i) :
              \/ k \in DOMAIN b /\ Delivered(b, w, i)[k] = b[k]
              \/ Delivered(b, w, i)[k] = i /\ Heard(w)
BY DEF Delivered

\* A trade moves two positions.
LEMMA TwoMoves ==
  ASSUME NEW h \in [Wallets -> [Coins -> Int]], NEW w \in Wallets, NEW v \in Wallets \ {w},
         NEW c \in Coins, NEW d \in Int
  PROVE  [h EXCEPT ![v][c] = @ + d, ![w][c] = @ - d] \in [Wallets -> [Coins -> Int]]
<1> DEFINE g == [h EXCEPT ![v][c] = @ + d]
<1>1. g \in [Wallets -> [Coins -> Int]]
  OBVIOUS
<1>2. [h EXCEPT ![v][c] = @ + d, ![w][c] = @ - d] = [g EXCEPT ![w][c] = @ - d]
  OBVIOUS
<1> HIDE DEF g
<1>3. [g EXCEPT ![w][c] = @ - d] \in [Wallets -> [Coins -> Int]]
  BY <1>1
<1> QED BY <1>2, <1>3

LEMMA FillsGrow ==
  ASSUME TypeOK,
         \/ \E w \in Wallets, c \in Coins, d \in Deltas : Trade(w, c, d)
         \/ \E w \in Wallets : \E v \in Wallets \ {w}, c \in Coins, d \in Swaps : Match(v, w, c, d)
  PROVE  /\ fills' \in Seq(FillType) /\ Len(fills') >= Len(fills)
         /\ \A i \in DOMAIN fills : i \in DOMAIN fills' /\ fills'[i] = fills[i]
         /\ held' \in [Wallets -> Position] /\ gap' \in [Wallets -> BOOLEAN]
         /\ buffer' \in Seq(DOMAIN fills')
         /\ \A k \in DOMAIN buffer' :
              \/ k \in DOMAIN buffer /\ buffer'[k] = buffer[k]
              \/ stream = "UP" /\ fills'[buffer'[k]].wallet \in subs
         /\ UNCHANGED <<coverageVars, journal, failures, asOf, unseen, bootstrapped,
                        pc, current, fetched, subs, stream>>
<1>0. fills \in Seq(FillType) /\ held \in [Wallets -> Position] /\ gap \in [Wallets -> BOOLEAN]
      /\ buffer \in Seq(DOMAIN fills) /\ Len(fills) \in Nat
  BY DEF TypeOK, FillType, Position
<1>1. ASSUME NEW w \in Wallets, NEW c \in Coins, NEW d \in Deltas, Trade(w, c, d)
      PROVE  /\ fills' \in Seq(FillType) /\ Len(fills') = Len(fills) + 1
             /\ \A i \in DOMAIN fills : i \in DOMAIN fills' /\ fills'[i] = fills[i]
             /\ held' \in [Wallets -> Position] /\ gap' \in [Wallets -> BOOLEAN]
             /\ buffer' \in Seq(DOMAIN fills')
             /\ \A k \in DOMAIN buffer' :
                  \/ k \in DOMAIN buffer /\ buffer'[k] = buffer[k]
                  \/ stream = "UP" /\ fills'[buffer'[k]].wallet \in subs
  <2> DEFINE n == Len(fills)
             leg == Leg(w, c, d, n + 1)
  <2>1. /\ fills' = Append(fills, leg) /\ held' = [held EXCEPT ![w][c] = @ + d]
        /\ buffer' = Delivered(buffer, w, n + 1)
        /\ gap' = [gap EXCEPT ![w] = @ \/ Missed(w)]
    BY <1>1 DEF Trade
  <2>2. leg \in FillType /\ leg.wallet = w /\ d \in Int
    BY <1>0, DeltasAssumption DEF Leg, FillType, Position
  <2> HIDE DEF leg
  <2>3. fills' \in Seq(FillType) /\ Len(fills') = n + 1 /\ DOMAIN fills' = 1..(n + 1)
        /\ fills'[n + 1] = leg
        /\ \A i \in DOMAIN fills : i \in DOMAIN fills' /\ fills'[i] = fills[i]
    BY <1>0, <2>1, <2>2
  <2>4. buffer \in Seq(DOMAIN fills') /\ n + 1 \in DOMAIN fills'
    BY <1>0, <2>3
  <2>5. buffer' \in Seq(DOMAIN fills')
        /\ \A k \in DOMAIN buffer' :
              \/ k \in DOMAIN buffer /\ buffer'[k] = buffer[k]
              \/ buffer'[k] = n + 1 /\ Heard(w)
    BY <2>1, <2>4, DeliveredType
  <2>6. held' \in [Wallets -> Position] /\ gap' \in [Wallets -> BOOLEAN]
    BY <1>0, <2>1, <2>2 DEF Position, Missed, Heard, Known, Joined, Among
  <2> QED BY <2>2, <2>3, <2>5, <2>6 DEF Heard
<1>2. ASSUME NEW w \in Wallets, NEW v \in Wallets \ {w}, NEW c \in Coins, NEW d \in Swaps,
             Match(v, w, c, d)
      PROVE  /\ fills' \in Seq(FillType) /\ Len(fills') = Len(fills) + 2
             /\ \A i \in DOMAIN fills : i \in DOMAIN fills' /\ fills'[i] = fills[i]
             /\ held' \in [Wallets -> Position] /\ gap' \in [Wallets -> BOOLEAN]
             /\ buffer' \in Seq(DOMAIN fills')
             /\ \A k \in DOMAIN buffer' :
                  \/ k \in DOMAIN buffer /\ buffer'[k] = buffer[k]
                  \/ stream = "UP" /\ fills'[buffer'[k]].wallet \in subs
  <2> DEFINE n == Len(fills)
             leg1 == Leg(v, c, d, n + 1)
             leg2 == Leg(w, c, -d, n + 1)
             mid == Delivered(buffer, v, n + 1)
  <2>1. /\ fills' = fills \o <<leg1, leg2>>
        /\ held' = [held EXCEPT ![v][c] = @ + d, ![w][c] = @ - d]
        /\ buffer' = Delivered(mid, w, n + 2)
        /\ gap' = [gap EXCEPT ![v] = @ \/ Missed(v), ![w] = @ \/ Missed(w)]
    BY <1>2 DEF Match
  <2>2. d \in Int /\ leg1 \in FillType /\ leg1.wallet = v /\ leg2 \in FillType /\ leg2.wallet = w
    BY <1>0, DeltasAssumption DEF Leg, FillType, Position
  <2> HIDE DEF leg1, leg2
  <2>3. fills' \in Seq(FillType) /\ Len(fills') = n + 2 /\ DOMAIN fills' = 1..(n + 2)
        /\ fills'[n + 1] = leg1 /\ fills'[n + 2] = leg2
        /\ \A i \in DOMAIN fills : i \in DOMAIN fills' /\ fills'[i] = fills[i]
    BY <1>0, <2>1, <2>2
  <2>4. buffer \in Seq(DOMAIN fills') /\ n + 1 \in DOMAIN fills' /\ n + 2 \in DOMAIN fills'
    BY <1>0, <2>3
  <2>5. mid \in Seq(DOMAIN fills')
        /\ \A k \in DOMAIN mid :
              \/ k \in DOMAIN buffer /\ mid[k] = buffer[k]
              \/ mid[k] = n + 1 /\ Heard(v)
    BY <2>4, DeliveredType
  <2> HIDE DEF mid
  <2>6. buffer' \in Seq(DOMAIN fills')
        /\ \A k \in DOMAIN buffer' :
              \/ k \in DOMAIN mid /\ buffer'[k] = mid[k]
              \/ buffer'[k] = n + 2 /\ Heard(w)
    BY <2>1, <2>4, <2>5, DeliveredType
  <2>7. held' \in [Wallets -> Position] /\ gap' \in [Wallets -> BOOLEAN]
    <3>1. held \in [Wallets -> [Coins -> Int]] /\ v # w
      BY <1>0 DEF Position
    <3>2. held' \in [Wallets -> [Coins -> Int]]
      <4>1. [held EXCEPT ![v][c] = @ + d, ![w][c] = @ - d] \in [Wallets -> [Coins -> Int]]
        <5>1. held \in [Wallets -> [Coins -> Int]]
          BY <3>1
        <5>2. d \in Int
          BY <2>2
        <5>3. w \in Wallets /\ v \in Wallets \ {w} /\ c \in Coins
          OBVIOUS
        <5> QED BY ONLY <5>1, <5>2, <5>3, TwoMoves
      <4> QED BY <2>1, <4>1
    <3>3. Missed(v) \in BOOLEAN /\ Missed(w) \in BOOLEAN
      BY DEF Missed, Heard, Known, Joined, Among
    <3>4. gap' \in [Wallets -> BOOLEAN]
      BY <1>0, <2>1, <3>1, <3>3
    <3> QED BY <3>2, <3>4 DEF Position
  <2>8. ASSUME NEW k \in DOMAIN buffer'
        PROVE  \/ k \in DOMAIN buffer /\ buffer'[k] = buffer[k]
               \/ stream = "UP" /\ fills'[buffer'[k]].wallet \in subs
    BY <2>2, <2>3, <2>5, <2>6 DEF Heard
  <2> QED BY <2>3, <2>6, <2>7, <2>8
<1>3. UNCHANGED <<coverageVars, journal, failures, asOf, unseen, bootstrapped,
                  pc, current, fetched, subs, stream>>
  BY ZenonT(60) DEF Trade, Match
<1> QED BY <1>0, <1>1, <1>2, <1>3

\* A step that changes neither the fills nor the buffer keeps what is known of them.
LEMMA StructureTypes ==
  ASSUME TypeOK
  PROVE  /\ CoverageTypeOK
         /\ fills \in Seq(FillType) /\ held \in [Wallets -> Position]
         /\ journal \subseteq DOMAIN fills /\ unseen \subseteq journal
         /\ DOMAIN fills = 1..Len(fills) /\ Len(fills) \in Nat
         /\ buffer \in Seq(DOMAIN fills)
         /\ \A i \in DOMAIN fills : /\ fills[i].wallet \in Wallets /\ fills[i].coin \in Coins
                                    /\ fills[i].start \in Int /\ fills[i].delta \in Int
                                  /\ After(i) \in Int
<1>1. /\ fills \in Seq(FillType) /\ held \in [Wallets -> Position] /\ CoverageTypeOK
      /\ buffer \in Seq(DOMAIN fills) /\ journal \subseteq 1..Len(fills) /\ unseen \subseteq journal
  BY DEF TypeOK, FillType, Position
<1>2. DOMAIN fills = 1..Len(fills) /\ Len(fills) \in Nat /\ \A i \in DOMAIN fills : fills[i] \in FillType
  BY <1>1
<1>3. \A i \in DOMAIN fills : /\ fills[i].wallet \in Wallets /\ fills[i].coin \in Coins
                              /\ fills[i].start \in Int /\ fills[i].delta \in Int
                                  /\ After(i) \in Int
  BY <1>2 DEF FillType, After
<1> QED BY <1>1, <1>2, <1>3

-----------------------------------------------------------------------------
(* What each step does to the invariant. *)
LEMMA TradeIInv ==
  ASSUME IInv,
         \/ \E w \in Wallets, c \in Coins, d \in Deltas : Trade(w, c, d)
         \/ \E w \in Wallets : \E v \in Wallets \ {w}, c \in Coins, d \in Swaps : Match(v, w, c, d)
  PROVE  IInv'
<1>1. /\ fills' \in Seq(FillType) /\ Len(fills') >= Len(fills)
      /\ \A i \in DOMAIN fills : i \in DOMAIN fills' /\ fills'[i] = fills[i]
      /\ held' \in [Wallets -> Position] /\ gap' \in [Wallets -> BOOLEAN]
      /\ buffer' \in Seq(DOMAIN fills')
      /\ \A k \in DOMAIN buffer' :
           \/ k \in DOMAIN buffer /\ buffer'[k] = buffer[k]
           \/ stream = "UP" /\ fills'[buffer'[k]].wallet \in subs
      /\ UNCHANGED <<coverageVars, journal, failures, asOf, unseen, bootstrapped,
                     pc, current, fetched, subs, stream>>
  BY FillsGrow DEF IInv
<1>2. Len(fills) \in Nat /\ Len(fills') \in Nat /\ DOMAIN fills = 1..Len(fills)
      /\ DOMAIN fills' = 1..Len(fills')
  BY <1>1 DEF IInv, TypeOK
<1>3. CoverageTypeOK'
  BY <1>1, CoverageSame DEF IInv, TypeOK
<1>4. TypeOK'
  <2>1. journal' \subseteq 1..Len(fills') /\ asOf' \in [Wallets -> 0..Len(fills')]
    <3>1. 1..Len(fills) \subseteq 1..Len(fills') /\ 0..Len(fills) \subseteq 0..Len(fills')
      BY <1>1, <1>2
    <3>2. journal' = journal /\ asOf' = asOf
      BY <1>1
    <3>3. journal \subseteq 1..Len(fills) /\ asOf \in [Wallets -> 0..Len(fills)]
      BY DEF IInv, TypeOK
    <3> QED BY <3>1, <3>2, <3>3
  <2>2. current' \in Wallets \cup DOMAIN fills' \cup {Nil}
    BY <1>1 DEF IInv, TypeOK
  <2> QED BY <1>1, <1>3, <2>1, <2>2 DEF IInv, TypeOK, FillType, Position
<1>5. Structure'
  <2>1. gate' = gate
    BY <1>1 DEF coverageVars
  <2>2. \A i \in journal' : Joined(fills[i].wallet)' 
    <3>1. \A i \in journal : Joined(fills[i].wallet) /\ i \in DOMAIN fills
      BY StructureTypes DEF IInv, Structure
    <3> QED BY <1>1, <2>1, <3>1 DEF Joined
  <2>3. \A i \in Waiting' : fills'[i].wallet \in subs'
    <3>1. \A k \in DOMAIN buffer : buffer[k] \in Waiting /\ buffer[k] \in DOMAIN fills
      BY StructureTypes DEF IInv, Waiting
    <3>2. \A k \in DOMAIN buffer' : fills'[buffer'[k]].wallet \in subs
      BY <1>1, <3>1 DEF IInv, Structure
    <3> QED BY <1>1, <3>2 DEF Waiting
  <2>4. pc' = "OBSERVE" => current' \in DOMAIN fills' /\ fills'[current'].wallet \in subs'
    BY <1>1 DEF IInv, Structure
  <2> QED BY <1>1, <2>1, <2>2, <2>3, <2>4 DEF IInv, Structure, Joined
<1> QED BY <1>4, <1>5 DEF IInv

LEMMA EndIInv ==
  ASSUME IInv, End, bootstrapped' \subseteq bootstrapped,
         UNCHANGED <<coverageVars, exchangeVars, journal, asOf>>, failures' \in 0..MaxFailures,
         unseen' \subseteq journal
  PROVE  IInv'
<1>1. CoverageTypeOK' /\ gate' = gate
  BY CoverageSame DEF IInv, TypeOK, coverageVars
<1>2. TypeOK'
  <2>1. gap' \in [Wallets -> BOOLEAN]
    BY DEF End, Joined, Among, IInv, TypeOK
  <2>2. buffer' = <<>> /\ buffer' \in Seq(DOMAIN fills')
    BY DEF End
  <2> QED BY <1>1, <2>1, <2>2 DEF End, IInv, TypeOK, exchangeVars
<1>3. Structure'
  <2>1. Waiting' = {}
    BY DEF End, Waiting
  <2> QED BY <1>1, <2>1 DEF End, IInv, Structure, Joined, exchangeVars
<1> QED BY <1>2, <1>3 DEF IInv

\* The steps that leave fills, journal and buffer alone.
LEMMA QuietIInv ==
  ASSUME IInv, CoverageTypeOK', \A w \in Wallets : Joined(w) => Joined(w)',
         UNCHANGED <<exchangeVars, journal, failures, gap, unseen, buffer>>,
         asOf' \in [Wallets -> 0..Len(fills)],
         pc' \in {"RUN", "FETCH", "ONBOARD", "LOOP", "WAIT", "OBSERVE"},
         current' \in Wallets \cup DOMAIN fills \cup {Nil},
         fetched' \in [Coins -> Int] \cup {Nil},
         subs' \subseteq Wallets, subs \subseteq subs', bootstrapped' \subseteq Wallets,
         stream' \in {"OFF", "STARTING", "UP", "FAILED", "ENDED"},
         \A w \in bootstrapped' : Joined(w)',
         pc' \in {"WAIT", "OBSERVE"} => subs' \subseteq bootstrapped',
         pc' \in {"FETCH", "ONBOARD"} => current' \in subs' /\ ~Joined(current)',
         pc' = "ONBOARD" => fetched' # Nil,
         pc' = "OBSERVE" => current' \in DOMAIN fills /\ fills[current'].wallet \in subs',
         pc' = "RUN" <=> stream' = "OFF", pc' = "RUN" => subs' = {}
  PROVE  IInv'
<1>1. TypeOK'
  BY DEF IInv, TypeOK, exchangeVars
<1>2. Waiting' = Waiting /\ fills' = fills /\ journal' = journal
  BY DEF Waiting, exchangeVars
<1>3. \A i \in journal : fills[i].wallet \in Wallets
  BY StructureTypes DEF IInv
<1>4. Structure'
  BY <1>2, <1>3 DEF IInv, Structure, Joined
<1> QED BY <1>1, <1>4 DEF IInv

LEMMA ServeIInv == ASSUME IInv, Serve PROVE IInv'
<1> USE DEF IInv
<1>t. /\ CoverageTypeOK /\ DOMAIN fills = 1..Len(fills) /\ Len(fills) \in Nat
      /\ \A i \in DOMAIN fills : /\ fills[i].wallet \in Wallets /\ fills[i].coin \in Coins
                                 /\ fills[i].start \in Int /\ fills[i].delta \in Int
                                  /\ After(i) \in Int
  BY StructureTypes
<1>1. CASE Begin
  <2>1. CoverageTypeOK' /\ gate' = gate
    BY <1>1, CoverageSame, <1>t DEF Begin, coverageVars
  <2>2. pc = "RUN" /\ ActiveWallets \subseteq Wallets /\ bootstrapped' = bootstrapped \cap ActiveWallets
        /\ UNCHANGED <<coverageVars, exchangeVars, current, fetched, buffer,
                       journal, failures, asOf, gap, unseen>>
        /\ \/ UNCHANGED <<pc, subs, stream>>
           \/ pc' = "LOOP" /\ subs' = ActiveWallets /\ stream' = "STARTING"
    BY <1>1 DEF Begin, ActiveWallets
  <2>3. CASE UNCHANGED <<pc, subs, stream>>
    BY <2>1, <2>2, <2>3, QuietIInv DEF TypeOK, Structure, Joined
  <2>4. CASE pc' = "LOOP" /\ subs' = ActiveWallets /\ stream' = "STARTING"
    <3>1. subs \subseteq subs'
      BY <2>2 DEF Structure
    <3> QED BY <2>1, <2>2, <2>4, <3>1, QuietIInv DEF TypeOK, Structure, Joined
  <2> QED BY <2>2, <2>3, <2>4
<1>2. CASE FetchState
  <2>1. CoverageTypeOK' /\ gate' = gate
    BY <1>2, CoverageSame, <1>t DEF FetchState, coverageVars
  <2>2. current \in Wallets /\ held[current] \in [Coins -> Int] /\ Nil \notin [Coins -> Int]
    BY <1>2, NilAssumption DEF FetchState, TypeOK, Structure
  <2>3. asOf' \in [Wallets -> 0..Len(fills)]
    <3>1. asOf \in [Wallets -> 0..Len(fills)] /\ Len(fills) \in 0..Len(fills)
      BY <1>t DEF TypeOK
    <3>2. asOf' = [asOf EXCEPT ![current] = Len(fills)]
      BY <1>2 DEF FetchState
    <3> QED BY <2>2, <3>1, <3>2
  <2> QED BY <1>2, <2>1, <2>2, <2>3, QuietIInv DEF FetchState, TypeOK, Structure, Joined, exchangeVars
<1>3. CASE Onboard
  <2>1. current \in Wallets /\ fetched \in Position /\ Onboarded(current, fetched)
    BY <1>3 DEF Onboard, TypeOK, Structure, Position
  <2>2. CoverageTypeOK'
    BY <1>t, <2>1, OnboardedType
  <2>3. \A w \in Wallets : w = current \/ Joined(w) => Joined(w)'
    BY <2>1 DEF Onboarded, GateOf, Joined, TypeOK, CoverageTypeOK
  <2> QED BY <1>3, <2>1, <2>2, <2>3, QuietIInv DEF Onboard, TypeOK, Structure, exchangeVars
<1>4. CASE WalletsSame
  BY <1>4, QuietIInv, CoverageSame
     DEF WalletsSame, AllBootstrapped, TypeOK, Structure, Joined, coverageVars, exchangeVars
<1>5. CASE WalletsChanged
  BY <1>5, EndIInv DEF WalletsChanged, TypeOK
<1>6. CASE Ingest
  <2> DEFINE i == Head(buffer)
  <2>1. /\ i \in Waiting /\ i \in DOMAIN fills /\ Tail(buffer) \in Seq(DOMAIN fills)
        /\ {Tail(buffer)[k] : k \in DOMAIN Tail(buffer)} \subseteq Waiting
    BY <1>6, BufferType DEF Ingest
  <2> DEFINE w == fills[i].wallet
  <2>2. /\ w \in subs /\ w \in Wallets /\ fills[i].coin \in Coins /\ Joined(w)
    BY <1>6, <1>t, <2>1 DEF Ingest, Structure
  <2>3. fills[i].delta \in Int
    BY <2>1, <1>t
  <2>4. /\ buffer' = Tail(buffer) /\ pc = "WAIT" /\ pc' = "OBSERVE" /\ current' = i
        /\ UNCHANGED <<coverage, gate, outbox, exchangeVars, fetched, subs, bootstrapped, stream,
                       failures, asOf, gap, unseen>>
        /\ \/ UNCHANGED <<journal, size, status>>
           \/ /\ journal' = journal \cup {i}
              /\ size' = [size EXCEPT ![w][fills[i].coin] = @ + fills[i].delta]
              /\ status' = [status EXCEPT ![w] = "LIVE"]
    BY <1>6 DEF Ingest
  <2> HIDE DEF i, w
  <2>5. CoverageTypeOK'
    <3>1. size' \in [Wallets -> [Coins -> Int]]
      <4>1. size \in [Wallets -> [Coins -> Int]]
        BY <1>t DEF CoverageTypeOK
      <4>2. CASE size' = [size EXCEPT ![w][fills[i].coin] = @ + fills[i].delta]
        <5>1. [size EXCEPT ![w][fills[i].coin] = @ + fills[i].delta] \in [Wallets -> [Coins -> Int]]
          BY <2>2, <2>3, <4>1
        <5> QED BY <4>2, <5>1
      <4> QED BY <2>4, <4>1, <4>2
    <3>2. status' \in [Wallets -> Active \cup Inactive \cup {"NONE"}]
      BY <1>t, <2>2, <2>4 DEF CoverageTypeOK, Active
    <3> QED BY <1>t, <2>4, <3>1, <3>2 DEF CoverageTypeOK
  <2>6. journal \subseteq journal' /\ journal' \subseteq journal \cup {i}
    BY <2>4
  <2>7. TypeOK'
    BY <1>t, <2>1, <2>4, <2>5, <2>6 DEF TypeOK, exchangeVars
  <2>8. Waiting' \subseteq Waiting
    BY <2>1, <2>4 DEF Waiting
  <2>9. Structure'
    BY <2>1, <2>2, <2>4, <2>6, <2>8 DEF Structure, Joined, exchangeVars, w
  <2> QED BY <2>7, <2>9
<1>7. CASE IngestRefused
  BY <1>7, EndIInv DEF IngestRefused, Fails, TypeOK
<1>8. CASE Observe
  <2> DEFINE w == fills[current].wallet
  <2>1. /\ w \in Wallets /\ fills[current].coin \in Coins /\ fills[current].start \in Int
        /\ After(current) \in Int
        /\ Observed(w, fills[current].coin, fills[current].start, After(current))
    BY <1>8, <1>t DEF Observe, Structure
  <2> HIDE DEF w
  <2>2. CoverageTypeOK'
    BY <1>t, <2>1, ObservedType
  <2>3. \A v \in Wallets : Joined(v) => Joined(v)'
    BY <2>1 DEF Observed, GateOf, Joined, TypeOK, CoverageTypeOK
  <2> QED BY <1>8, <2>2, <2>3, QuietIInv DEF Observe, TypeOK, Structure, exchangeVars
<1>9. CASE Timeout
  BY <1>9, QuietIInv, CoverageSame DEF Timeout, TypeOK, Structure, Joined, coverageVars, exchangeVars
<1>10. CASE StreamLost
  BY <1>10, EndIInv DEF StreamLost, Fails, TypeOK
<1>11. ASSUME NEW w \in Wallets, BootstrapRestored(w) PROVE IInv'
  BY <1>11, QuietIInv, CoverageSame
     DEF BootstrapRestored, TypeOK, Structure, Joined, coverageVars, exchangeVars
<1>12. ASSUME NEW w \in Wallets, BootstrapBegin(w) PROVE IInv'
  <2>1. CoverageTypeOK' /\ gate' = gate
    BY <1>12, <1>t DEF BootstrapBegin, CoverageTypeOK, Active
  <2> QED BY <1>12, <2>1, QuietIInv DEF BootstrapBegin, TypeOK, Structure, Joined, exchangeVars
<1> QED BY <1>1, <1>2, <1>3, <1>4, <1>5, <1>6, <1>7, <1>8, <1>9, <1>10, <1>11, <1>12 DEF Serve

\* The exchange, the API, the stream and crashes.
LEMMA OtherIInv == ASSUME IInv, Next, ~Serve PROVE IInv'
<1> USE DEF IInv
<1>t. CoverageTypeOK /\ DOMAIN fills = 1..Len(fills) /\ Len(fills) \in Nat
  BY StructureTypes
<1>1. CASE FetchFails
  <2>1. failures' \in 0..MaxFailures
    BY <1>1, BoundsAssumption DEF FetchFails, TypeOK
  <2> QED BY <1>1, <2>1, EndIInv DEF FetchFails, Fails, TypeOK
<1>2. CASE StreamUp
  BY <1>2, QuietIInv, CoverageSame DEF StreamUp, TypeOK, Structure, Joined, coverageVars, exchangeVars
<1>3. CASE Crash
  <2>1. failures' \in 0..MaxFailures
    BY <1>3, BoundsAssumption DEF Crash, TypeOK
  <2>2. unseen' \subseteq journal /\ bootstrapped' \subseteq bootstrapped
    BY <1>3 DEF Crash, TypeOK
  <2> QED BY <1>3, <2>1, <2>2, EndIInv DEF Crash
<1>4. ASSUME NEW how \in {"FAILED", "ENDED"}, NEW n \in 0..Len(buffer), StreamStops(how, n)
      PROVE  IInv'
  <2>1. failures' \in 0..MaxFailures /\ pc # "RUN" /\ stream' = how
        /\ buffer' = SubSeq(buffer, 1, n) /\ gap' \in [Wallets -> BOOLEAN]
        /\ UNCHANGED <<coverageVars, exchangeVars, pc, current, fetched, subs, bootstrapped,
                       journal, asOf, unseen>>
    BY <1>4, BoundsAssumption DEF StreamStops, TypeOK, Among, Known, Joined
  <2>2. buffer' \in Seq(DOMAIN fills) /\ Waiting' \subseteq Waiting
    BY <2>1, BufferType DEF Waiting
  <2>3. CoverageTypeOK' /\ gate' = gate
    BY <1>t, <2>1, CoverageSame DEF coverageVars
  <2>4. TypeOK'
    BY <2>1, <2>2, <2>3 DEF TypeOK, exchangeVars
  <2>5. Structure'
    BY <2>1, <2>2, <2>3 DEF Structure, Joined, exchangeVars
  <2> QED BY <2>4, <2>5
<1>5. ASSUME NEW w \in Wallets, NEW s \in Settable \cup {"DISCOVERING"},
             AddWallet(w) \/ CommandWallet(w, s)
      PROVE  IInv'
  <2>1. CoverageTypeOK' /\ gate' = gate
    BY <1>5, <1>t, SettableAssumption DEF AddWallet, CommandWallet, CoverageTypeOK, Active, Inactive
  <2> QED BY <1>5, <2>1, QuietIInv
          DEF AddWallet, CommandWallet, TypeOK, Structure, Joined, serviceVars, exchangeVars
<1>6. CASE \/ \E w \in Wallets, c \in Coins, d \in Deltas : Trade(w, c, d)
           \/ \E w \in Wallets : \E v \in Wallets \ {w}, c \in Coins, d \in Swaps : Match(v, w, c, d)
  BY <1>6, TradeIInv
<1> QED BY <1>1, <1>2, <1>3, <1>4, <1>5, <1>6 DEF Next

LEMMA StepIInv == ASSUME IInv, [Next]_vars PROVE IInv'
<1>1. CASE Next
  BY <1>1, ServeIInv, OtherIInv
<1>2. CASE UNCHANGED vars
  BY <1>2, ZenonT(60) DEF vars, coverageVars, serviceVars, exchangeVars, IInv, TypeOK, CoverageTypeOK,
              Structure, Joined, Waiting
<1> QED BY <1>1, <1>2

\* The invariant of the service holds in every reachable state: only wallets that
\* are onboarded are journaled, the fills on their way are those of subscribed
\* wallets, and the state of an account is kept only until it is applied
\* (collector_service.py:19-73).
THEOREM ServiceInvariant == Spec => []IInv
BY InitIInv, StepIInv, PTL DEF Spec

-----------------------------------------------------------------------------
LEMMA StepAnnounced ==
  ASSUME IInv, [Next]_vars, CompletionIsAnnounced
  PROVE  CompletionIsAnnounced'
<1>t. CoverageTypeOK /\ \A i \in DOMAIN fills : fills[i].wallet \in Wallets
  BY StructureTypes DEF IInv
<1>1. CASE Onboard
  BY <1>1, <1>t DEF Onboard, Onboarded, GateOf, CompletionIsAnnounced, CoverageTypeOK
<1>2. CASE Observe
  <2> DEFINE w == fills[current].wallet
             ready == Covered([coverage[w] EXCEPT ![fills[current].coin] =
                                 NextState(@, fills[current].start, After(current))])
  <2>1. w \in Wallets
    BY <1>2, <1>t DEF Observe, IInv, Structure
  <2>2. /\ gate' = [gate EXCEPT ![w] = GateOf(ready)]
        /\ outbox' = IF Announces(ready, gate[w] = "OPEN") THEN outbox \cup {w} ELSE outbox
    BY <1>2 DEF Observe, Observed
  <2> HIDE DEF w, ready
  <2> QED BY <1>t, <2>1, <2>2 DEF GateOf, Announces, CompletionIsAnnounced, CoverageTypeOK
<1>3. CASE ~Onboard /\ ~Observe
  <2>1. gate' = gate /\ outbox' = outbox
    <3>1. CASE \/ \E w \in Wallets, c \in Coins, d \in Deltas : Trade(w, c, d)
               \/ \E w \in Wallets : \E v \in Wallets \ {w}, c \in Coins, d \in Swaps : Match(v, w, c, d)
      BY <3>1, FillsGrow DEF IInv, coverageVars
    <3>2. CASE Serve
      BY <1>3, <3>2 DEF Serve, Begin, FetchState, WalletsSame, WalletsChanged, Ingest, IngestRefused,
                  Timeout, StreamLost, BootstrapRestored, BootstrapBegin, coverageVars
    <3>3. CASE \/ FetchFails \/ StreamUp \/ Crash \/ UNCHANGED vars
               \/ \E how \in {"FAILED", "ENDED"} : \E n \in 0..Len(buffer) : StreamStops(how, n)
               \/ \E w \in Wallets : AddWallet(w) \/ \E s \in Settable : CommandWallet(w, s)
      BY <3>3 DEF FetchFails, StreamUp, Crash, StreamStops, AddWallet, CommandWallet, vars, coverageVars
    <3> QED BY <3>1, <3>2, <3>3 DEF Next
  <2> QED BY <2>1 DEF CompletionIsAnnounced
<1> QED BY <1>1, <1>2, <1>3

\* A wallet whose gate is open has its COVERAGE_COMPLETE notification in the outbox,
\* whatever the exchange, the stream, the API and the crashes do
\* (coverage.py:28-29, coverage.py:45-46).
THEOREM GateIsAnnounced == Spec => []CompletionIsAnnounced
<1>1. Init => CompletionIsAnnounced
  BY DEF Init, CoverageInit, CompletionIsAnnounced
<1> QED BY <1>1, ServiceInvariant, StepAnnounced, PTL DEF Spec

-----------------------------------------------------------------------------
LEMMA NonzeroProduct ==
  ASSUME NEW x \in Int, NEW y \in Int, x # 0, y # 0
  PROVE  x * y # 0
OBVIOUS

\* A fill that closed or reversed a position of the coin c of w.
Ends(i, w, c) ==
  /\ i \in journal \ unseen /\ fills[i].wallet = w /\ fills[i].coin = c
  /\ fills[i].start * After(i) <= 0 /\ fills[i].start # 0

LEMMA LegacyEnds ==
  LegacyIsReal <=>
    \A w \in Wallets, c \in Coins :
      coverage[w][c] = "LEGACY" => \A i : Ends(i, w, c) => pc = "OBSERVE" /\ current = i
BY DEF LegacyIsReal, Of, Ends

\* A step that leaves coverage, and what is journaled and seen, alone.
LEMMA QuietLegacy ==
  ASSUME IInv, LegacyIsReal, UNCHANGED <<coverage, journal, unseen>>,
         \A i \in DOMAIN fills : fills'[i] = fills[i],
         pc # "OBSERVE" \/ UNCHANGED <<pc, current>>
  PROVE  LegacyIsReal'
<1>1. journal \subseteq DOMAIN fills
  BY StructureTypes DEF IInv
<1>2. \A w \in Wallets, c \in Coins : \A i : Ends(i, w, c)' => Ends(i, w, c)
  BY <1>1 DEF Ends, After
<1> QED BY <1>2, LegacyEnds DEF LegacyIsReal, Of, Ends, After

LEMMA StepLegacy ==
  ASSUME IInv, [Next]_vars, LegacyIsReal
  PROVE  LegacyIsReal'
<1>t. /\ CoverageTypeOK /\ journal \subseteq DOMAIN fills
      /\ \A i \in DOMAIN fills : /\ fills[i].wallet \in Wallets /\ fills[i].coin \in Coins
                                 /\ fills[i].start \in Int /\ After(i) \in Int
  BY StructureTypes DEF IInv
<1>l. \A w \in Wallets, c \in Coins :
        coverage[w][c] = "LEGACY" => \A i : Ends(i, w, c) => pc = "OBSERVE" /\ current = i
  BY LegacyEnds
<1>1. CASE Onboard
  <2>1. /\ current \in Wallets /\ ~Joined(current) /\ UNCHANGED <<fills, journal, unseen>>
        /\ \A w \in Wallets \ {current} : coverage'[w] = coverage[w]
        /\ pc = "ONBOARD"
    BY <1>1, <1>t DEF Onboard, Onboarded, CoverageTypeOK, IInv, TypeOK, Structure, exchangeVars
  <2>2. ASSUME NEW w \in Wallets, NEW c \in Coins, coverage'[w][c] = "LEGACY",
               NEW i, Ends(i, w, c)'
        PROVE  FALSE
    <3>1. Ends(i, w, c) /\ i \in journal
      BY <2>1, <2>2 DEF Ends, After
    <3>2. w # current
      BY <2>1, <3>1 DEF Ends, IInv, Structure
    <3> QED BY <1>l, <2>1, <2>2, <3>1, <3>2
  <2> QED BY <2>2 DEF LegacyIsReal, Of, Ends, After
<1>2. CASE Observe
  <2> DEFINE v == fills[current].wallet
             x == fills[current].coin
             start == fills[current].start
             after == After(current)
  <2>1. /\ v \in Wallets /\ x \in Coins /\ start \in Int /\ after \in Int
        /\ coverage' = [coverage EXCEPT ![v] = [coverage[v] EXCEPT ![x] = NextState(@, start, after)]]
        /\ UNCHANGED <<fills, journal, unseen>> /\ pc = "OBSERVE"
    BY <1>2, <1>t DEF Observe, Observed, IInv, Structure, exchangeVars
  <2>2. ASSUME NEW w \in Wallets, NEW c \in Coins, coverage'[w][c] = "LEGACY",
               NEW i, Ends(i, w, c)'
        PROVE  FALSE
    <3>1. Ends(i, w, c)
      BY <2>1, <2>2 DEF Ends, After
    <3>2. CASE w = v /\ c = x
      <4>1. coverage[v][x] \in {"ARMED", "LEGACY", "OWNED"}
        BY <1>t, <2>1 DEF CoverageTypeOK
      <4>2. NextState(coverage[v][x], start, after) = "LEGACY"
        BY <1>t, <2>1, <2>2, <3>2 DEF CoverageTypeOK
      <4>3. coverage[v][x] = "LEGACY" /\ after # 0 /\ ~(start * after < 0)
        BY <2>1, <4>1, <4>2, NextStateType
      <4>4. current = i
        BY <1>l, <2>1, <3>1, <3>2, <4>3
      <4>5. start # 0 /\ start * after <= 0
        BY <3>1, <4>4 DEF Ends
      <4>6. start * after # 0 /\ start * after \in Int
        BY <2>1, <4>3, <4>5, NonzeroProduct
      <4> HIDE DEF start, after
      <4> QED BY <4>3, <4>5, <4>6
    <3>3. CASE ~(w = v /\ c = x)
      <4>1. coverage[w][c] = "LEGACY"
        BY <1>t, <2>1, <2>2, <3>3 DEF CoverageTypeOK
      <4>2. current = i
        BY <1>l, <3>1, <4>1
      <4> QED BY <3>1, <3>3, <4>2 DEF Ends
    <3> QED BY <3>2, <3>3
  <2> QED BY <2>2 DEF LegacyIsReal, Of, Ends, After
<1>3. CASE Ingest
  <2>1. /\ UNCHANGED <<coverage, fills, unseen>> /\ pc = "WAIT" /\ pc' = "OBSERVE"
        /\ journal' \subseteq journal \cup {current'}
    BY <1>3 DEF Ingest, exchangeVars
  <2>2. ASSUME NEW w \in Wallets, NEW c \in Coins, coverage'[w][c] = "LEGACY",
               NEW i, Ends(i, w, c)'
        PROVE  pc' = "OBSERVE" /\ current' = i
    <3>1. ~Ends(i, w, c)
      BY <1>l, <2>1, <2>2
    <3> QED BY <2>1, <2>2, <3>1 DEF Ends, After
  <2> QED BY <2>2 DEF LegacyIsReal, Of, Ends, After
<1>4. CASE Crash
  <2>1. /\ UNCHANGED <<coverage, fills, journal>> /\ unseen \subseteq unseen'
        /\ pc = "OBSERVE" /\ current \in journal => current \in unseen'
    BY <1>4 DEF Crash, coverageVars, exchangeVars
  <2>2. ASSUME NEW w \in Wallets, NEW c \in Coins, coverage'[w][c] = "LEGACY",
               NEW i, Ends(i, w, c)'
        PROVE  FALSE
    <3>1. Ends(i, w, c)
      BY <2>1, <2>2 DEF Ends, After
    <3> QED BY <1>l, <2>1, <2>2, <3>1 DEF Ends
  <2> QED BY <2>2 DEF LegacyIsReal, Of, Ends, After
<1>5. CASE \/ \E w \in Wallets, c \in Coins, d \in Deltas : Trade(w, c, d)
           \/ \E w \in Wallets : \E v \in Wallets \ {w}, c \in Coins, d \in Swaps : Match(v, w, c, d)
  <2>1. /\ UNCHANGED <<coverageVars, journal, unseen, pc, current>>
        /\ \A i \in DOMAIN fills : fills'[i] = fills[i]
    BY <1>5, FillsGrow DEF IInv
  <2> QED BY <2>1, QuietLegacy DEF coverageVars
<1>6. CASE UNCHANGED vars
  BY <1>6, QuietLegacy DEF vars, coverageVars, serviceVars, exchangeVars
<1>7. ASSUME Next, ~Onboard, ~Observe, ~Ingest, ~Crash,
             ~ \E w \in Wallets, c \in Coins, d \in Deltas : Trade(w, c, d),
             ~ \E w \in Wallets : \E v \in Wallets \ {w}, c \in Coins, d \in Swaps : Match(v, w, c, d)
      PROVE  LegacyIsReal'
  <2>1. /\ UNCHANGED <<coverage, journal, unseen, fills>>
        /\ pc # "OBSERVE" \/ UNCHANGED <<pc, current>>
    BY <1>7 DEF Next, Serve, Begin, FetchState, WalletsSame, WalletsChanged, IngestRefused,
                Timeout, StreamLost, BootstrapRestored, BootstrapBegin, FetchFails, StreamUp,
                StreamStops, AddWallet, CommandWallet, coverageVars, serviceVars, exchangeVars
  <2> QED BY <2>1, QuietLegacy
<1> QED BY <1>1, <1>2, <1>3, <1>4, <1>5, <1>6, <1>7

\* A coin stays LEGACY no longer than the position the wallet had when it was
\* onboarded: no journaled fill has closed or reversed it, but for one about to be
\* observed and those whose observation a crash cut off (coverage.py:37-39).
THEOREM LegacyPositionsAreReal == Spec => []LegacyIsReal
<1>1. Init => LegacyIsReal
  BY DEF Init, CoverageInit, LegacyIsReal
<1> QED BY <1>1, ServiceInvariant, StepLegacy, PTL DEF Spec
-----------------------------------------------------------------------------
(* What a trade does to one wallet. *)
Trades ==
  \/ \E w \in Wallets, c \in Coins, d \in Deltas : Trade(w, c, d)
  \/ \E w \in Wallets : \E v \in Wallets \ {w}, c \in Coins, d \in Swaps : Match(v, w, c, d)

Unmoved(u) ==
  /\ \A j \in DOMAIN fills' \ DOMAIN fills : fills'[j].wallet # u
  /\ held'[u] = held[u] /\ gap'[u] = gap[u]

Moved(u, i, x, d) ==
  /\ i \in DOMAIN fills' \ DOMAIN fills
  /\ i > Len(fills)
  /\ \E event \in Nat : fills'[i] = Leg(u, x, d, event)
  /\ \A j \in DOMAIN fills' \ DOMAIN fills : j # i => fills'[j].wallet # u
  /\ held'[u] = [held[u] EXCEPT ![x] = @ + d]
  /\ Heard(u) <=> i \in Waiting'
  /\ gap'[u] = (gap[u] \/ Missed(u))

LEMMA DeliveredWaits ==
  ASSUME NEW S, NEW b \in Seq(S), NEW w, NEW i \in S
  PROVE  /\ \A k \in DOMAIN b : \E l \in DOMAIN Delivered(b, w, i) : Delivered(b, w, i)[l] = b[k]
         /\ Heard(w) => \E l \in DOMAIN Delivered(b, w, i) : Delivered(b, w, i)[l] = i
<1>1. CASE Heard(w)
  <2>1. /\ Delivered(b, w, i) = Append(b, i) /\ DOMAIN Append(b, i) = 1..(Len(b) + 1)
        /\ DOMAIN b = 1..Len(b) /\ Len(b) \in Nat
        /\ Append(b, i)[Len(b) + 1] = i /\ \A k \in 1..Len(b) : Append(b, i)[k] = b[k]
    BY <1>1 DEF Delivered
  <2>2. Len(b) + 1 \in DOMAIN Append(b, i) /\ DOMAIN b \subseteq DOMAIN Append(b, i)
    BY <2>1
  <2> QED BY <2>1, <2>2
<1>2. CASE ~Heard(w)
  BY <1>2 DEF Delivered
<1> QED BY <1>1, <1>2

LEMMA TradeMoves ==
  ASSUME TypeOK, Trades
  PROVE  /\ \A i \in DOMAIN fills : i \in DOMAIN fills' /\ fills'[i] = fills[i]
         /\ Waiting \subseteq Waiting' /\ Waiting' \subseteq DOMAIN fills'
         /\ \A i \in Waiting' : i \in Waiting \/ i \notin DOMAIN fills
         /\ UNCHANGED <<coverageVars, journal, failures, asOf, unseen, bootstrapped,
                        pc, current, fetched, subs, stream>>
         /\ \A u \in Wallets : \/ Unmoved(u)
                               \/ \E i \in Nat, x \in Coins, d \in Int \ {0} : Moved(u, i, x, d)
<1>0. /\ fills \in Seq(FillType) /\ held \in [Wallets -> Position] /\ gap \in [Wallets -> BOOLEAN]
      /\ buffer \in Seq(DOMAIN fills) /\ Len(fills) \in Nat /\ DOMAIN fills = 1..Len(fills)
  BY DEF TypeOK, FillType, Position
<1>1. /\ fills' \in Seq(FillType) /\ buffer' \in Seq(DOMAIN fills')
      /\ \A i \in DOMAIN fills : i \in DOMAIN fills' /\ fills'[i] = fills[i]
      /\ UNCHANGED <<coverageVars, journal, failures, asOf, unseen, bootstrapped,
                     pc, current, fetched, subs, stream>>
  BY FillsGrow DEF Trades
<1> DEFINE Waits == /\ Waiting \subseteq Waiting'
                    /\ \A i \in Waiting' : i \in Waiting \/ i \notin DOMAIN fills
           Moves  == \A u \in Wallets :
                       \/ Unmoved(u)
                       \/ \E i \in Nat, x \in Coins, d \in Int \ {0} : Moved(u, i, x, d)
<1>2. ASSUME NEW w \in Wallets, NEW c \in Coins, NEW d \in Deltas, Trade(w, c, d)
      PROVE  Waits /\ Moves
  <2> PICK n : n = Len(fills)
    OBVIOUS
  <2> PICK leg : leg = Leg(w, c, d, n + 1)
    OBVIOUS
  <2>1. /\ fills' = Append(fills, leg) /\ held' = [held EXCEPT ![w][c] = @ + d]
        /\ buffer' = Delivered(buffer, w, n + 1)
        /\ gap' = [gap EXCEPT ![w] = @ \/ Missed(w)]
    BY <1>2 DEF Trade
  <2>2. n \in Nat /\ leg \in FillType /\ leg.wallet = w /\ d \in Int \ {0}
    BY <1>0, DeltasAssumption DEF Leg, FillType, Position
  <2>3. DOMAIN fills' = 1..(n + 1) /\ fills'[n + 1] = leg
    BY <1>0, <2>1, <2>2
  <2>4. buffer \in Seq(DOMAIN fills') /\ n + 1 \in DOMAIN fills' /\ n + 1 \notin DOMAIN fills
        /\ DOMAIN fills' \ DOMAIN fills = {n + 1}
    <3>1. n + 1 \in 1..(n + 1) /\ n + 1 \notin 1..n /\ 1..n \subseteq 1..(n + 1)
          /\ \A j \in 1..(n + 1) : j \notin 1..n => j = n + 1
      BY <2>2
    <3> QED BY <1>0, <1>1, <2>3, <3>1
  <2>5. Waits /\ (Heard(w) <=> n + 1 \in Waiting')
    <3>1. /\ \A k \in DOMAIN buffer' : \/ k \in DOMAIN buffer /\ buffer'[k] = buffer[k]
                                       \/ buffer'[k] = n + 1 /\ Heard(w)
          /\ \A k \in DOMAIN buffer : \E l \in DOMAIN buffer' : buffer'[l] = buffer[k]
          /\ Heard(w) => \E l \in DOMAIN buffer' : buffer'[l] = n + 1
      BY <2>1, <2>4, DeliveredWaits, DeliveredType
    <3>2. n + 1 \notin Waiting
      BY <2>4, BufferType
    <3> QED BY <2>4, <3>1, <3>2 DEF Waiting
  <2>6. Moved(w, n + 1, c, d)
    <3>1. held'[w] = [held[w] EXCEPT ![c] = @ + d] /\ gap'[w] = (gap[w] \/ Missed(w))
      BY <1>0, <2>1
    <3> QED BY <2>2, <2>3, <2>4, <2>5, <3>1 DEF Moved
  <2>7. ASSUME NEW u \in Wallets, u # w PROVE Unmoved(u)
    BY <1>0, <2>1, <2>2, <2>3, <2>4, <2>7 DEF Unmoved
  <2>8. n + 1 \in Nat
    BY <2>2
  <2>9. Moves
    BY <2>2, <2>6, <2>7, <2>8
  <2> HIDE DEF Waits, Moves
  <2> QED BY <2>5, <2>9
<1>3. ASSUME NEW w \in Wallets, NEW v \in Wallets \ {w}, NEW c \in Coins, NEW d \in Swaps,
             Match(v, w, c, d)
      PROVE  Waits /\ Moves
  <2> PICK n : n = Len(fills)
    OBVIOUS
  <2> PICK leg1, leg2 : leg1 = Leg(v, c, d, n + 1) /\ leg2 = Leg(w, c, -d, n + 1)
    OBVIOUS
  <2> DEFINE mid == Delivered(buffer, v, n + 1)
  <2>1. /\ fills' = fills \o <<leg1, leg2>>
        /\ held' = [held EXCEPT ![v][c] = @ + d, ![w][c] = @ - d]
        /\ buffer' = Delivered(mid, w, n + 2)
        /\ gap' = [gap EXCEPT ![v] = @ \/ Missed(v), ![w] = @ \/ Missed(w)]
    BY <1>3 DEF Match
  <2>2. /\ n \in Nat /\ d \in Int \ {0} /\ -d \in Int \ {0}
        /\ leg1 \in FillType /\ leg1.wallet = v /\ leg2 \in FillType /\ leg2.wallet = w
    BY <1>0, DeltasAssumption DEF Leg, FillType, Position
  <2>3. DOMAIN fills' = 1..(n + 2) /\ fills'[n + 1] = leg1 /\ fills'[n + 2] = leg2
    BY <1>0, <2>1, <2>2
  <2>4. /\ buffer \in Seq(DOMAIN fills') /\ n + 1 \in DOMAIN fills' /\ n + 1 \notin DOMAIN fills
        /\ n + 2 \in DOMAIN fills' /\ n + 2 \notin DOMAIN fills /\ n + 1 # n + 2
        /\ DOMAIN fills' \ DOMAIN fills = {n + 1, n + 2}
    <3>1. /\ n + 1 \in 1..(n + 2) /\ n + 1 \notin 1..n /\ 1..n \subseteq 1..(n + 2)
          /\ n + 2 \in 1..(n + 2) /\ n + 2 \notin 1..n /\ n + 1 # n + 2
          /\ \A j \in 1..(n + 2) : j \notin 1..n => j = n + 1 \/ j = n + 2
      BY <2>2
    <3> QED BY <1>0, <1>1, <2>3, <3>1
  <2>5. /\ mid \in Seq(DOMAIN fills')
        /\ \A k \in DOMAIN mid : mid[k] \in Waiting \/ (mid[k] = n + 1 /\ Heard(v))
        /\ \A i \in Waiting : \E k \in DOMAIN mid : mid[k] = i
        /\ Heard(v) => \E k \in DOMAIN mid : mid[k] = n + 1
    <3>1. /\ mid \in Seq(DOMAIN fills')
          /\ \A k \in DOMAIN mid : (k \in DOMAIN buffer /\ mid[k] = buffer[k])
                                \/ (mid[k] = n + 1 /\ Heard(v))
      BY <2>4, DeliveredType
    <3>2. /\ \A k \in DOMAIN buffer : \E l \in DOMAIN mid : mid[l] = buffer[k]
          /\ Heard(v) => \E k \in DOMAIN mid : mid[k] = n + 1
      <4>1. buffer \in Seq(DOMAIN fills') /\ n + 1 \in DOMAIN fills'
        BY <2>4
      <4> HIDE DEF mid
      <4>2. mid = Delivered(buffer, v, n + 1)
        BY DEF mid
      <4>3. \A k \in DOMAIN buffer : \E l \in DOMAIN mid : mid[l] = buffer[k]
        BY <4>1, <4>2, DeliveredWaits
      <4>4. Heard(v) => \E k \in DOMAIN mid : mid[k] = n + 1
        BY <4>1, <4>2, DeliveredWaits
      <4> QED BY <4>3, <4>4
    <3> HIDE DEF mid
    <3> QED BY <3>1, <3>2 DEF Waiting
  <2> HIDE DEF mid
  <2>6. Waits /\ (Heard(v) <=> n + 1 \in Waiting') /\ (Heard(w) <=> n + 2 \in Waiting')
    <3>1. \A k \in DOMAIN buffer' : \/ k \in DOMAIN mid /\ buffer'[k] = mid[k]
                                    \/ buffer'[k] = n + 2 /\ Heard(w)
      <4>1. mid \in Seq(DOMAIN fills') /\ n + 2 \in DOMAIN fills' /\ buffer' = Delivered(mid, w, n + 2)
        BY <2>1, <2>4, <2>5
      <4> QED BY <4>1, DeliveredType
    <3>2. /\ \A k \in DOMAIN mid : \E l \in DOMAIN buffer' : buffer'[l] = mid[k]
          /\ Heard(w) => \E l \in DOMAIN buffer' : buffer'[l] = n + 2
      <4>1. mid \in Seq(DOMAIN fills') /\ n + 2 \in DOMAIN fills' /\ buffer' = Delivered(mid, w, n + 2)
        BY <2>1, <2>4, <2>5
      <4> QED BY <4>1, DeliveredWaits
    <3>3. \A i \in Waiting' : i \in Waiting \/ (i = n + 1 /\ Heard(v)) \/ (i = n + 2 /\ Heard(w))
      BY <2>5, <3>1 DEF Waiting
    <3>4. Waiting \subseteq Waiting' /\ (Heard(v) => n + 1 \in Waiting')
          /\ (Heard(w) => n + 2 \in Waiting')
      <4>1. \A k \in DOMAIN mid : mid[k] \in Waiting'
        BY <3>2 DEF Waiting
      <4>2. Heard(w) => n + 2 \in Waiting'
        BY <3>2 DEF Waiting
      <4> QED BY <2>5, <4>1, <4>2
    <3>5. n + 1 \notin Waiting /\ n + 2 \notin Waiting
      BY <2>4, BufferType
    <3> QED BY <2>4, <3>3, <3>4, <3>5
  <2>7. /\ held'[v] = [held[v] EXCEPT ![c] = @ + d] /\ gap'[v] = (gap[v] \/ Missed(v))
        /\ held'[w] = [held[w] EXCEPT ![c] = @ + (-d)] /\ gap'[w] = (gap[w] \/ Missed(w))
        /\ \A u \in Wallets \ {v, w} : held'[u] = held[u] /\ gap'[u] = gap[u]
    <3>1. held[w][c] - d = held[w][c] + (-d)
      BY <1>0, <2>2 DEF Position
    <3>2. v # w
      OBVIOUS
    <3>3. /\ held'[v] = [held[v] EXCEPT ![c] = @ + d] /\ held'[w] = [held[w] EXCEPT ![c] = @ - d]
          /\ \A u \in Wallets \ {v, w} : held'[u] = held[u]
      BY <1>0, <2>1, <3>2
    <3>4. /\ gap'[v] = (gap[v] \/ Missed(v)) /\ gap'[w] = (gap[w] \/ Missed(w))
          /\ \A u \in Wallets \ {v, w} : gap'[u] = gap[u]
      BY <1>0, <2>1, <3>2
    <3> QED BY <1>0, <3>1, <3>3, <3>4 DEF Position
  <2>8. Moved(v, n + 1, c, d)
    BY <2>2, <2>3, <2>4, <2>6, <2>7 DEF Moved
  <2>9. Moved(w, n + 2, c, -d)
    BY <2>2, <2>3, <2>4, <2>6, <2>7 DEF Moved
  <2>10. ASSUME NEW u \in Wallets \ {v, w} PROVE Unmoved(u)
    BY <2>2, <2>3, <2>4, <2>7, <2>10 DEF Unmoved
  <2>11. n + 1 \in Nat /\ n + 2 \in Nat
    BY <2>2
  <2>12. Moves
    BY <2>2, <2>8, <2>9, <2>10, <2>11
  <2> HIDE DEF Waits, Moves
  <2> QED BY <2>6, <2>12
<1> HIDE DEF Waits, Moves
<1>4. Waits /\ Moves
  BY <1>2, <1>3 DEF Trades
<1>5. Waiting' \subseteq DOMAIN fills'
  BY <1>1 DEF Waiting
<1> QED BY <1>1, <1>4, <1>5 DEF Waits, Moves

-----------------------------------------------------------------------------
(* The gate. *)

\* The position of w in c, if any, is known from the fill that opened it.
Traced(w, c) ==
  \/ held[w][c] = 0
  \/ \E i \in DOMAIN fills : Opens_(w, c, i) /\ (i \in Waiting \/ Exists(i))

\* The fill i ended a position or began one.
Turns(i) == After(i) = 0 \/ Opens(fills[i].start, After(i))

\* The positions of w in c are followed: it is onboarded and the one it had then is
\* over, or it is being onboarded without one, or a fill that ends it is on its way.
Followed(w, c) ==
  \/ Joined(w) /\ coverage[w][c] # "LEGACY"
  \/ pc = "ONBOARD" /\ current = w /\ fetched[c] = 0
  \/ \E i \in Of(w, c, DOMAIN fills) :
       Turns(i) /\ (i \in Waiting \/ (pc = "OBSERVE" /\ current = i))

OpenIsCovered    == \A w \in Wallets : gate[w] = "OPEN" => Covered(coverage[w])
FollowedIsTraced == \A w \in Wallets, c \in Coins : Followed(w, c) /\ ~gap[w] => Traced(w, c)

\* A step that moves no position and forgets no fill of a wallet that is followed.
LEMMA KeepsTraced ==
  ASSUME IInv, FollowedIsTraced, UNCHANGED <<fills, held>>, journal \subseteq journal',
         \A w \in Wallets, c \in Coins :
           Followed(w, c)' /\ ~gap'[w] /\ held[w][c] # 0 =>
             /\ Followed(w, c) /\ ~gap[w]
             /\ \A i \in Waiting : fills[i].wallet = w => i \in Waiting' \/ Exists(i)'
  PROVE  FollowedIsTraced'
<1> SUFFICES ASSUME NEW w \in Wallets, NEW c \in Coins, Followed(w, c)', ~gap'[w], held[w][c] # 0
             PROVE  Traced(w, c)'
  BY DEF FollowedIsTraced, Traced
<1>1. /\ Traced(w, c)
      /\ \A i \in Waiting : fills[i].wallet = w => i \in Waiting' \/ Exists(i)'
  BY DEF FollowedIsTraced
<1>2. PICK i \in DOMAIN fills : Opens_(w, c, i) /\ (i \in Waiting \/ Exists(i))
  BY <1>1 DEF Traced
<1>3. Opens_(w, c, i)' /\ fills[i].wallet = w
  BY <1>2 DEF Opens_, Of, After
<1>4. Exists(i) => Exists(i)'
  BY DEF Exists
<1> QED BY <1>1, <1>2, <1>3, <1>4 DEF Traced

\* A fill of w: an unheard one leaves a gap, a heard one that turns the position is
\* where it is known from now, and another one changes nothing.
LEMMA TradeTraced ==
  ASSUME IInv, FollowedIsTraced, Trades
  PROVE  FollowedIsTraced'
<1>0. /\ held \in [Wallets -> Position] /\ DOMAIN fills = 1..Len(fills) /\ Len(fills) \in Nat
      /\ journal \subseteq DOMAIN fills
      /\ \A i \in DOMAIN fills : fills[i].start \in Int /\ After(i) \in Int
  BY StructureTypes DEF IInv
<1>1. /\ \A i \in DOMAIN fills : i \in DOMAIN fills' /\ fills'[i] = fills[i]
      /\ Waiting \subseteq Waiting' /\ Waiting' \subseteq DOMAIN fills'
      /\ \A i \in Waiting' : i \in Waiting \/ i \notin DOMAIN fills
      /\ UNCHANGED <<coverageVars, journal, bootstrapped, pc, current, fetched, subs, stream>>
      /\ \A u \in Wallets : \/ Unmoved(u)
                            \/ \E i \in Nat, x \in Coins, d \in Int \ {0} : Moved(u, i, x, d)
  BY TradeMoves DEF IInv
<1> SUFFICES ASSUME NEW w \in Wallets, NEW c \in Coins, Followed(w, c)', ~gap'[w]
             PROVE  Traced(w, c)'
  BY DEF FollowedIsTraced
<1>2. gate' = gate /\ coverage' = coverage
  BY <1>1 DEF coverageVars
<1>3. pc = "OBSERVE" => current \in DOMAIN fills /\ Joined(fills[current].wallet)
  BY DEF IInv, Structure
<1>4. \A i \in DOMAIN fills : After(i)' = After(i) /\ (Exists(i) => Exists(i)')
                              /\ (Turns(i)' <=> Turns(i))
  BY <1>0, <1>1 DEF After, Exists, Turns
<1>5. ASSUME NEW i \in DOMAIN fills, Opens_(w, c, i), i \in Waiting \/ Exists(i),
             \A j \in DOMAIN fills' \ DOMAIN fills :
               fills'[j].wallet = w /\ fills'[j].coin = c => ~Turns(j)'
      PROVE  Traced(w, c)'
  <2>1. Opens_(w, c, i)'
    BY <1>1, <1>4, <1>5 DEF Opens_, Of, Turns
  <2> QED BY <1>1, <1>4, <1>5, <2>1 DEF Traced
<1>6. CASE Unmoved(w)
  <2>1. /\ held'[w] = held[w] /\ ~gap[w]
        /\ \A j \in DOMAIN fills' \ DOMAIN fills : fills'[j].wallet # w
    BY <1>6 DEF Unmoved
  <2>2. Followed(w, c)
    BY <1>1, <1>2, <1>3, <1>4, <2>1 DEF Followed, Joined, Of
  <2>3. Traced(w, c)
    BY <2>1, <2>2 DEF FollowedIsTraced
  <2> QED BY <1>5, <2>1, <2>3 DEF Traced
<1>7. ASSUME NEW i \in Nat, NEW x \in Coins, NEW d \in Int \ {0}, Moved(w, i, x, d)
      PROVE  Traced(w, c)'
  <2>1. /\ i \in DOMAIN fills' \ DOMAIN fills /\ i > Len(fills)
        /\ fills'[i].wallet = w /\ fills'[i].coin = x /\ fills'[i].start = held[w][x]
        /\ fills'[i].delta = d
        /\ \A j \in DOMAIN fills' \ DOMAIN fills : j # i => fills'[j].wallet # w
        /\ held'[w] = [held[w] EXCEPT ![x] = @ + d]
        /\ Heard(w) <=> i \in Waiting'
    BY <1>7 DEF Moved, Leg
  <2>0. ~gap[w] /\ ~Missed(w)
    <3>1. gap'[w] = (gap[w] \/ Missed(w))
      BY <1>7 DEF Moved
    <3> QED BY <3>1
  <2>2. held[w][x] \in Int /\ After(i)' = held[w][x] + d
    BY <1>0, <2>1 DEF After, Position
  <2>3. ASSUME Followed(w, c), c # x \/ ~Turns(i)', held'[w][c] # 0
        PROVE  Traced(w, c)'
    <3>1. Traced(w, c)
      BY <2>0, <2>3 DEF FollowedIsTraced
    <3>2. held[w][c] # 0
      <4>1. CASE c # x
        BY <1>0, <2>1, <2>3, <4>1 DEF Position
      <4>2. CASE c = x
        BY <1>0, <2>1, <2>2, <2>3, <4>2 DEF Position, Turns, Opens
      <4> QED BY <4>1, <4>2
    <3>3. PICK k \in DOMAIN fills : Opens_(w, c, k) /\ (k \in Waiting \/ Exists(k))
      BY <3>1, <3>2 DEF Traced
    <3>4. \A j \in DOMAIN fills' \ DOMAIN fills :
            fills'[j].wallet = w /\ fills'[j].coin = c => ~Turns(j)'
      BY <2>1, <2>3
    <3> QED BY <1>5, <3>3, <3>4
  <2>4. CASE Heard(w)
    <3>1. CASE c = x /\ Turns(i)'
      <4>1. held'[w][c] = After(i)'
        BY <1>0, <2>1, <2>2, <3>1 DEF Position
      <4>2. ASSUME After(i)' # 0 PROVE Opens_(w, c, i)'
        <5>1. i \in Of(w, c, DOMAIN fills)'
          BY <2>1, <3>1 DEF Of
        <5>2. Opens(fills[i].start, After(i))'
          BY <3>1, <4>2 DEF Turns
        <5>3. \A j \in Of(w, c, DOMAIN fills)' : ~(j > i)
          <6>1. \A j \in DOMAIN fills : ~(j > i)
            BY <1>0, <2>1
          <6>2. ~(i > i)
            OBVIOUS
          <6> QED BY <2>1, <6>1, <6>2 DEF Of
        <5> QED BY <5>1, <5>2, <5>3 DEF Opens_
      <4>3. i \in Waiting' /\ i \in DOMAIN fills'
        BY <2>1, <2>4
      <4> QED BY <4>1, <4>2, <4>3 DEF Traced
    <3>2. CASE c # x \/ ~Turns(i)'
      <4>1. Followed(w, c)
        BY <1>1, <1>2, <1>3, <1>4, <2>1, <3>2 DEF Followed, Joined, Of
      <4> QED BY <2>3, <3>2, <4>1 DEF Traced
    <3> QED BY <3>1, <3>2
  <2>5. CASE ~Heard(w)
    <3>1. ~Known(w) /\ ~Among(w, Waiting)
      BY <2>0, <2>5 DEF Missed
    <3>2. \A k \in Waiting' : fills'[k].wallet # w
      <4>1. \A k \in Waiting : k \in DOMAIN fills /\ fills[k].wallet # w
        BY <3>1, BufferType DEF Among, IInv
      <4> QED BY <1>1, <2>1, <2>5, <4>1
    <3>3. pc = "OBSERVE" => fills'[current].wallet # w
      BY <1>1, <1>3, <3>1 DEF Known
    <3> QED BY <1>1, <1>2, <3>1, <3>2, <3>3 DEF Followed, Known, Joined, Of
  <2> QED BY <2>4, <2>5
<1> QED BY <1>1, <1>6, <1>7

\* End: what a wallet keeps without a gap is journaled.
LEMMA EndTraced ==
  ASSUME IInv, FollowedIsTraced, End, UNCHANGED <<coverageVars, exchangeVars, journal>>
  PROVE  FollowedIsTraced'
<1>1. /\ pc' = "RUN" /\ buffer' = <<>> /\ gate' = gate /\ coverage' = coverage
      /\ UNCHANGED <<fills, held, journal>>
      /\ gap' = [w \in Wallets |-> Joined(w) /\ (gap[w] \/ Among(w, Waiting))]
  BY DEF End, coverageVars, exchangeVars
<1>2. Waiting' = {}
  BY <1>1 DEF Waiting
<1>3. ASSUME NEW w \in Wallets, NEW c \in Coins, Followed(w, c)', ~gap'[w]
      PROVE  /\ Followed(w, c) /\ ~gap[w]
             /\ \A i \in Waiting : fills[i].wallet # w
  <2>1. Joined(w) /\ coverage[w][c] # "LEGACY"
    BY <1>1, <1>2, <1>3 DEF Followed, Joined
  <2>2. ~gap[w] /\ ~Among(w, Waiting)
    BY <1>1, <1>3, <2>1
  <2> QED BY <2>1, <2>2 DEF Followed, Among
<1> QED BY <1>1, <1>3, KeepsTraced

LEMMA StopTraced ==
  ASSUME IInv, FollowedIsTraced, NEW how, NEW n \in 0..Len(buffer), StreamStops(how, n)
  PROVE  FollowedIsTraced'
<1> PICK kept : kept = {buffer[k] : k \in 1..n}
  OBVIOUS
<1>1. /\ gate' = gate /\ coverage' = coverage /\ buffer' = SubSeq(buffer, 1, n)
      /\ UNCHANGED <<fills, held, journal, pc, current, fetched>>
      /\ gap' = [w \in Wallets |-> \/ gap[w]
                                   \/ /\ Among(w, Waiting \ kept)
                                      /\ Known(w) \/ Among(w, kept)]
  BY DEF StreamStops, coverageVars, exchangeVars
<1>2. Waiting' = kept /\ kept \subseteq Waiting
  <2>1. /\ DOMAIN SubSeq(buffer, 1, n) = 1..n /\ \A k \in 1..n : SubSeq(buffer, 1, n)[k] = buffer[k]
        /\ 1..n \subseteq DOMAIN buffer
    <3>1. buffer \in Seq(DOMAIN fills) /\ Len(buffer) \in Nat /\ DOMAIN buffer = 1..Len(buffer)
      BY DEF IInv, TypeOK
    <3> QED BY <3>1
  <2> QED BY <1>1, <2>1 DEF Waiting
<1>3. pc = "OBSERVE" => Joined(fills[current].wallet)
  BY DEF IInv, Structure
<1>4. ASSUME NEW w \in Wallets, NEW c \in Coins, Followed(w, c)', ~gap'[w]
      PROVE  /\ Followed(w, c) /\ ~gap[w]
             /\ \A i \in Waiting : fills[i].wallet = w => i \in Waiting'
  <2>1. ~gap[w] /\ (~Among(w, Waiting \ kept) \/ (~Known(w) /\ ~Among(w, kept)))
    BY <1>1, <1>4
  <2>2. Followed(w, c)
    BY <1>1, <1>2, <1>4 DEF Followed, Joined, Of, Turns, After
  <2>3. Known(w) \/ Among(w, kept)
    BY <1>1, <1>2, <1>3, <1>4 DEF Followed, Joined, Of, Turns, After, Known, Among
  <2> QED BY <1>2, <2>1, <2>2, <2>3 DEF Among
<1> QED BY <1>1, <1>4, KeepsTraced

LEMMA IngestTraced ==
  ASSUME IInv, FollowedIsTraced, Ingest
  PROVE  FollowedIsTraced'
<1> PICK h : h = Head(buffer)
  OBVIOUS
<1>1. /\ gate' = gate /\ coverage' = coverage /\ buffer' = Tail(buffer) /\ buffer # <<>>
      /\ UNCHANGED <<fills, held, gap>> /\ pc' = "OBSERVE" /\ current' = h
      /\ journal \subseteq journal'
      /\ Exists(h) \/ h \in journal'
  BY DEF Ingest, exchangeVars
<1>2. h \in Waiting /\ Waiting' \subseteq Waiting /\ \A i \in Waiting : i = h \/ i \in Waiting'
  <2>1. h \in Waiting /\ Waiting' \subseteq Waiting
    BY <1>1, BufferType DEF IInv, Waiting
  <2>2. ASSUME NEW k \in DOMAIN buffer, buffer[k] # h
        PROVE  \E l \in DOMAIN buffer' : buffer'[l] = buffer[k]
    <3>1. /\ buffer \in Seq(DOMAIN fills) /\ Len(buffer) \in Nat /\ DOMAIN buffer = 1..Len(buffer)
          /\ Head(buffer) = buffer[1] /\ Tail(buffer) \in Seq(DOMAIN fills)
          /\ Len(Tail(buffer)) = Len(buffer) - 1
          /\ \A j \in 1..Len(Tail(buffer)) : Tail(buffer)[j] = buffer[j + 1]
      BY <1>1, HeadTailProperties DEF IInv, TypeOK
    <3>2. k - 1 \in 1..Len(Tail(buffer)) /\ (k - 1) + 1 = k
      BY <2>2, <3>1
    <3>3. DOMAIN Tail(buffer) = 1..Len(Tail(buffer))
      BY <3>1
    <3> QED BY <1>1, <3>1, <3>2, <3>3
  <2> QED BY <2>1, <2>2 DEF Waiting
<1>3. Exists(h)'
  BY <1>1 DEF Exists
<1>4. ASSUME NEW w \in Wallets, NEW c \in Coins, Followed(w, c)', ~gap'[w]
      PROVE  /\ Followed(w, c) /\ ~gap[w]
             /\ \A i \in Waiting : fills[i].wallet = w => i \in Waiting' \/ Exists(i)'
  <2>1. Followed(w, c)
    BY <1>1, <1>2, <1>4 DEF Followed, Joined, Of, Turns, After
  <2> QED BY <1>1, <1>2, <1>3, <1>4, <2>1
<1> QED BY <1>1, <1>4, KeepsTraced

LEMMA ObserveTraced ==
  ASSUME IInv, FollowedIsTraced, Observe
  PROVE  FollowedIsTraced'
<1> DEFINE v == fills[current].wallet
           x == fills[current].coin
           start == fills[current].start
           after == After(current)
<1>1. /\ v \in Wallets /\ x \in Coins /\ start \in Int /\ after \in Int /\ current \in DOMAIN fills
      /\ coverage' = [coverage EXCEPT ![v] = [coverage[v] EXCEPT ![x] = NextState(@, start, after)]]
      /\ UNCHANGED <<fills, held, journal, buffer, gap>>
      /\ pc = "OBSERVE" /\ pc' = "LOOP" /\ CoverageTypeOK
  BY StructureTypes DEF Observe, Observed, IInv, Structure, exchangeVars
<1>2. \A w \in Wallets : Joined(w)' => Joined(w)
  BY <1>1 DEF Observe, Observed, IInv, Structure, Joined, CoverageTypeOK
<1>3. ASSUME NEW w \in Wallets, NEW c \in Coins, Followed(w, c)'
      PROVE  Followed(w, c)
  <2>1. CASE Joined(w)' /\ coverage'[w][c] # "LEGACY"
    <3>1. CASE coverage[w][c] # "LEGACY"
      BY <1>2, <2>1, <3>1 DEF Followed
    <3>2. CASE coverage[w][c] = "LEGACY"
      <4>1. w = v /\ c = x /\ NextState("LEGACY", start, after) # "LEGACY"
        BY <1>1, <2>1, <3>2 DEF CoverageTypeOK
      <4>2. Turns(current)
        BY <1>1, <4>1 DEF NextState, Turns, Opens
      <4> QED BY <1>1, <4>1, <4>2 DEF Followed, Of
    <3> QED BY <3>1, <3>2
  <2>2. CASE ~(Joined(w)' /\ coverage'[w][c] # "LEGACY")
    BY <1>1, <1>3, <2>2 DEF Followed, Of, Turns, After, Waiting
  <2> QED BY <2>1, <2>2
<1>4. Waiting' = Waiting
  BY <1>1 DEF Waiting
<1> QED BY <1>1, <1>3, <1>4, KeepsTraced

LEMMA OnboardTraced ==
  ASSUME IInv, FollowedIsTraced, Onboard
  PROVE  FollowedIsTraced'
<1>1. /\ current \in Wallets /\ fetched \in [Coins -> Int]
      /\ UNCHANGED <<fills, held, journal, buffer, gap>> /\ pc = "ONBOARD" /\ pc' = "LOOP"
      /\ coverage' = [coverage EXCEPT ![current] =
                        [c \in Coins |-> IF fetched[c] = 0 THEN "ARMED" ELSE "LEGACY"]]
      /\ \A w \in Wallets \ {current} : Joined(w)' => Joined(w)
  BY StructureTypes DEF Onboard, Onboarded, IInv, TypeOK, Structure, exchangeVars, Joined, CoverageTypeOK
<1>2. ASSUME NEW w \in Wallets, NEW c \in Coins, Followed(w, c)'
      PROVE  Followed(w, c)
  <2>1. CASE Joined(w)' /\ coverage'[w][c] # "LEGACY"
    BY <1>1, <2>1 DEF Followed, CoverageTypeOK, IInv, TypeOK
  <2>2. CASE ~(Joined(w)' /\ coverage'[w][c] # "LEGACY")
    BY <1>1, <1>2, <2>2 DEF Followed, Of, Turns, After, Waiting
  <2> QED BY <2>1, <2>2
<1>3. Waiting' = Waiting
  BY <1>1 DEF Waiting
<1> QED BY <1>1, <1>2, <1>3, KeepsTraced

LEMMA FetchTraced ==
  ASSUME IInv, FollowedIsTraced, FetchState
  PROVE  FollowedIsTraced'
<1>1. /\ UNCHANGED <<fills, held, journal, buffer, gap, current, coverage, gate>>
      /\ pc = "FETCH" /\ pc' = "ONBOARD" /\ fetched' = held[current]
  BY DEF FetchState, exchangeVars, coverageVars
<1>2. Waiting' = Waiting
  BY <1>1 DEF Waiting
<1>3. ASSUME NEW w \in Wallets, NEW c \in Coins, Followed(w, c)', held[w][c] # 0
      PROVE  Followed(w, c)
  BY <1>1, <1>2, <1>3 DEF Followed, Joined, Of, Turns, After
<1> QED BY <1>1, <1>2, <1>3, KeepsTraced

LEMMA StepTraced ==
  ASSUME IInv, [Next]_vars, FollowedIsTraced
  PROVE  FollowedIsTraced'
<1>1. ASSUME Next, ~Trades, ~Ingest, ~Observe, ~Onboard, ~FetchState,
             ~(FetchFails \/ WalletsChanged \/ IngestRefused \/ StreamLost \/ Crash),
             ~ \E how \in {"FAILED", "ENDED"} : \E n \in 0..Len(buffer) : StreamStops(how, n)
      PROVE  /\ UNCHANGED <<fills, held, journal, buffer, gap, coverage, gate>>
             /\ pc' \notin {"ONBOARD", "OBSERVE"} \/ UNCHANGED <<pc, current, fetched>>
  BY <1>1 DEF Next, Serve, Trades, Begin, BootstrapRestored, BootstrapBegin,
              WalletsSame, Timeout, StreamUp, AddWallet, CommandWallet, coverageVars, exchangeVars, serviceVars
<1>2. ASSUME UNCHANGED <<fills, held, journal, buffer, gap, coverage, gate>>,
             pc' \notin {"ONBOARD", "OBSERVE"} \/ UNCHANGED <<pc, current, fetched>>
      PROVE  FollowedIsTraced'
  <2>1. Waiting' = Waiting
    BY <1>2 DEF Waiting
  <2>2. ASSUME NEW w \in Wallets, NEW c \in Coins, Followed(w, c)'
        PROVE  Followed(w, c)
    BY <1>2, <2>1, <2>2 DEF Followed, Joined, Of, Turns, After
  <2> QED BY <1>2, <2>1, <2>2, KeepsTraced
<1>3. CASE FetchFails \/ WalletsChanged \/ IngestRefused \/ StreamLost \/ Crash
  BY <1>3, EndTraced DEF FetchFails, WalletsChanged, IngestRefused, StreamLost, Crash, Fails
<1>4. CASE UNCHANGED vars
  BY <1>2, <1>4 DEF vars, serviceVars, exchangeVars, coverageVars
<1> QED
  BY <1>1, <1>2, <1>3, <1>4, TradeTraced, IngestTraced, ObserveTraced, OnboardTraced, FetchTraced,
     StopTraced

LEMMA StepCovered ==
  ASSUME IInv, [Next]_vars, OpenIsCovered
  PROVE  OpenIsCovered'
<1>t. CoverageTypeOK /\ \A i \in DOMAIN fills : fills[i].wallet \in Wallets
  BY StructureTypes DEF IInv
<1>1. CASE Onboard
  <2>1. /\ current \in Wallets
        /\ coverage' = [coverage EXCEPT ![current] =
                          [c \in Coins |-> IF fetched[c] = 0 THEN "ARMED" ELSE "LEGACY"]]
        /\ gate' = [gate EXCEPT ![current] = GateOf(fetched = Flat)]
    BY <1>1, <1>t DEF Onboard, Onboarded, IInv, TypeOK, Structure, CoverageTypeOK
  <2>2. GateOf(fetched = Flat) = "OPEN" => \A c \in Coins : fetched[c] = 0
    BY DEF GateOf, Flat
  <2> QED BY <1>t, <2>1, <2>2 DEF OpenIsCovered, Covered, CoverageTypeOK
<1>2. CASE Observe
  <2> PICK w, states : /\ w = fills[current].wallet
                       /\ states = [coverage[w] EXCEPT ![fills[current].coin] =
                                      NextState(@, fills[current].start, After(current))]
    OBVIOUS
  <2>1. w \in Wallets
    BY <1>2, <1>t DEF Observe, IInv, Structure
  <2>2. /\ gate' = [gate EXCEPT ![w] = GateOf(Covered(states))]
        /\ coverage' = [coverage EXCEPT ![w] = states]
    BY <1>2 DEF Observe, Observed
  <2>3. coverage'[w] = states /\ (gate'[w] = "OPEN" => Covered(states))
    BY <1>t, <2>1, <2>2 DEF GateOf, CoverageTypeOK
  <2>4. \A u \in Wallets \ {w} : coverage'[u] = coverage[u] /\ gate'[u] = gate[u]
    BY <1>t, <2>1, <2>2 DEF CoverageTypeOK
  <2>5. ASSUME NEW u \in Wallets, gate'[u] = "OPEN" PROVE Covered(coverage'[u])
    <3>1. CASE u = w
      BY <2>3, <2>5, <3>1
    <3>2. CASE u # w
      BY <2>4, <2>5, <3>2 DEF OpenIsCovered
    <3> QED BY <3>1, <3>2
  <2> QED BY <2>5 DEF OpenIsCovered, Covered
<1>3. CASE ~Onboard /\ ~Observe
  <2>1. gate' = gate /\ coverage' = coverage
    <3>1. CASE Trades
      BY <3>1, TradeMoves DEF IInv, coverageVars
    <3>2. CASE Serve
      BY <1>3, <3>2 DEF Serve, Begin, FetchState, WalletsSame, WalletsChanged, Ingest, IngestRefused,
                  Timeout, StreamLost, BootstrapRestored, BootstrapBegin, coverageVars
    <3>3. CASE \/ FetchFails \/ StreamUp \/ Crash \/ UNCHANGED vars
               \/ \E how \in {"FAILED", "ENDED"} : \E n \in 0..Len(buffer) : StreamStops(how, n)
               \/ \E w \in Wallets : AddWallet(w) \/ \E s \in Settable : CommandWallet(w, s)
      BY <3>3 DEF FetchFails, StreamUp, Crash, StreamStops, AddWallet, CommandWallet, vars, coverageVars
    <3> QED BY <3>1, <3>2, <3>3 DEF Next, Trades
  <2> QED BY <2>1 DEF OpenIsCovered, Covered
<1> QED BY <1>1, <1>2, <1>3

\* Behind an open gate every position is known from its opening fill, journaled or
\* on its way, unless a fill went missing: for any wallets, any trades (between two
\* of the wallets as well), reconnects, lost fills, restarts and commands
\* (coverage.py:28, coverage.py:43).
THEOREM OpenGateIsHonest == Spec => []GateIsHonest
<1>1. Init => OpenIsCovered /\ FollowedIsTraced
  <2> SUFFICES ASSUME Init PROVE OpenIsCovered /\ FollowedIsTraced
    OBVIOUS
  <2>1. pc = "RUN" /\ Waiting = {} /\ \A w \in Wallets : gate[w] = "NONE"
    BY DEF Init, CoverageInit, Waiting
  <2> QED BY <2>1 DEF OpenIsCovered, FollowedIsTraced, Followed, Joined
<1>2. OpenIsCovered /\ FollowedIsTraced => GateIsHonest
  BY DEF OpenIsCovered, FollowedIsTraced, GateIsHonest, Followed, Joined, Covered, Traced
<1> QED BY <1>1, <1>2, ServiceInvariant, StepCovered, StepTraced, PTL DEF Spec

-----------------------------------------------------------------------------
(* The balance. *)
Sizes == [i \in DOMAIN fills |-> fills[i].delta]

\* The fills after the state that was loaded, those of them that are not journaled,
\* and those the state contained and that were journaled on top of it.
Newer(w, c)       == Of(w, c, {i \in DOMAIN fills : i > asOf[w]})
Unjournaled(w, c) == Of(w, c, {i \in DOMAIN fills \ journal : i > asOf[w]})
Doubled(w, c)     == Of(w, c, {i \in journal : i <= asOf[w]})

Balanced(w, c) ==
  held[w][c] = size[w][c] + Sum(Unjournaled(w, c)) - Sum(Doubled(w, c))

\* A state that is loaded and not yet stored is the exchange's, but for newer fills.
LoadedBalances ==
  pc = "ONBOARD" => \A c \in Coins : held[current][c] = fetched[c] + Sum(Newer(current, c))

LEMMA BalancesIs == ProjectionBalances <=> \A w \in Wallets, c \in Coins : Joined(w) => Balanced(w, c)
BY DEF ProjectionBalances, Balanced, Unjournaled, Doubled

LEMMA SumOfFills ==
  ASSUME TypeOK, NEW S \in SUBSET DOMAIN fills
  PROVE  /\ Sum(S) = SumFunctionOnSet(Sizes, S) /\ Sum(S) \in Int
         /\ IsFiniteSet(S) /\ Integral(Sizes, S)
<1>1. /\ Len(fills) \in Int /\ DOMAIN fills = 1..Len(fills)
      /\ \A i \in DOMAIN fills : fills[i].delta \in Int
  BY StructureTypes
<1>2. IsFiniteSet(S)
  <2>1. IsFiniteSet(1..Len(fills))
    <3>1. 1 \in Int
      OBVIOUS
    <3> QED BY <1>1, <3>1, FS_Interval
  <2> QED BY <1>1, <2>1, FS_Subset
<1>3. Integral(Sizes, S)
  BY <1>1 DEF Integral, Sizes
<1>4. Sum(S) = SumFunctionOnSet(Sizes, S)
  BY DEF Sum, Sizes
<1> QED BY <1>2, <1>3, <1>4, SumType

LEMMA BalanceSets ==
  ASSUME TypeOK, NEW w, NEW c
  PROVE  /\ Newer(w, c) \in SUBSET DOMAIN fills /\ Unjournaled(w, c) \in SUBSET DOMAIN fills
         /\ Doubled(w, c) \in SUBSET DOMAIN fills
<1>1. journal \subseteq DOMAIN fills
  BY StructureTypes
<1> QED BY <1>1 DEF Newer, Unjournaled, Doubled, Of

\* The sum of what there was does not change when the exchange has more fills.
LEMMA SumLasts ==
  ASSUME TypeOK, TypeOK', \A i \in DOMAIN fills : i \in DOMAIN fills' /\ fills'[i] = fills[i],
         NEW S \in SUBSET DOMAIN fills
  PROVE  SumFunctionOnSet(Sizes', S) = SumFunctionOnSet(Sizes, S)
<1>1. \A i \in S : Sizes'[i] = Sizes[i]
  BY DEF Sizes
<1> QED BY <1>1, SumOfFills, SumAgree

\* A step that moves no position and neither loads nor projects anything.
LEMMA QuietBalances ==
  ASSUME IInv, UNCHANGED <<fills, held, journal>>,
         ProjectionBalances, LoadedBalances,
         \A w \in Wallets : Joined(w)' => Joined(w) /\ asOf'[w] = asOf[w] /\ size'[w] = size[w],
         pc' # "ONBOARD" \/ UNCHANGED <<pc, current, fetched, asOf>>
  PROVE  ProjectionBalances' /\ LoadedBalances'
<1>1. \A S : Sum(S)' = Sum(S)
  BY DEF Sum
<1>2. \A w \in Wallets, c \in Coins : asOf'[w] = asOf[w] =>
        /\ Unjournaled(w, c)' = Unjournaled(w, c) /\ Doubled(w, c)' = Doubled(w, c)
        /\ Newer(w, c)' = Newer(w, c)
  BY DEF Unjournaled, Doubled, Newer, Of
<1>3. ASSUME NEW w \in Wallets, NEW c \in Coins, Joined(w)' PROVE Balanced(w, c)'
  <2>1. Balanced(w, c)
    BY <1>3, BalancesIs
  <2>2. Sum(Unjournaled(w, c))' = Sum(Unjournaled(w, c)) /\ Sum(Doubled(w, c))' = Sum(Doubled(w, c))
    BY <1>2, <1>3 DEF Sum
  <2> QED BY <1>3, <2>1, <2>2 DEF Balanced
<1>4. ASSUME pc' = "ONBOARD", NEW c \in Coins
      PROVE  held'[current'][c] = fetched'[c] + Sum(Newer(current, c))'
  <2>1. current \in Wallets
    BY <1>4 DEF IInv, TypeOK, Structure
  <2>2. Sum(Newer(current, c))' = Sum(Newer(current, c))
    BY <1>2, <1>4, <2>1 DEF Sum
  <2> QED BY <1>4, <2>2 DEF LoadedBalances
<1>5. (\A w \in Wallets, c \in Coins : Joined(w)' => Balanced(w, c)') => ProjectionBalances'
  BY BalancesIs DEF ProjectionBalances, Balanced, Unjournaled, Doubled
<1> QED BY <1>3, <1>4, <1>5 DEF LoadedBalances

\* A new fill of w in c adds its size to what is newer and not journaled.
LEMMA TradeBalances ==
  ASSUME IInv, IInv', Trades, ProjectionBalances, LoadedBalances
  PROVE  ProjectionBalances' /\ LoadedBalances'
<1>0. /\ TypeOK /\ TypeOK' /\ held \in [Wallets -> Position] /\ size \in [Wallets -> [Coins -> Int]]
      /\ DOMAIN fills = 1..Len(fills) /\ Len(fills) \in Nat
      /\ journal \subseteq DOMAIN fills /\ asOf \in [Wallets -> 0..Len(fills)]
  BY StructureTypes DEF IInv, TypeOK, CoverageTypeOK
<1>1. /\ \A i \in DOMAIN fills : i \in DOMAIN fills' /\ fills'[i] = fills[i]
      /\ journal' = journal /\ asOf' = asOf /\ size' = size /\ gate' = gate
      /\ pc' = pc /\ current' = current /\ fetched' = fetched
      /\ \A u \in Wallets : \/ Unmoved(u)
                            \/ \E i \in Nat, x \in Coins, d \in Int \ {0} : Moved(u, i, x, d)
  BY <1>0, TradeMoves DEF coverageVars
<1>2. ASSUME NEW w \in Wallets, NEW c \in Coins
      PROVE  \E d \in Int :
               /\ held'[w][c] = held[w][c] + d
               /\ Sum(Newer(w, c))' = Sum(Newer(w, c)) + d
               /\ Sum(Unjournaled(w, c))' = Sum(Unjournaled(w, c)) + d
               /\ Sum(Doubled(w, c))' = Sum(Doubled(w, c))
  <2>1. /\ Sum(Newer(w, c))' = SumFunctionOnSet(Sizes', Newer(w, c)')
        /\ Sum(Unjournaled(w, c))' = SumFunctionOnSet(Sizes', Unjournaled(w, c)')
        /\ Sum(Doubled(w, c))' = SumFunctionOnSet(Sizes', Doubled(w, c)')
    BY DEF Sum, Sizes
  <2>2. /\ SumFunctionOnSet(Sizes', Newer(w, c)) = Sum(Newer(w, c))
        /\ SumFunctionOnSet(Sizes', Unjournaled(w, c)) = Sum(Unjournaled(w, c))
        /\ SumFunctionOnSet(Sizes', Doubled(w, c)) = Sum(Doubled(w, c))
    <3>1. ASSUME NEW S \in SUBSET DOMAIN fills
          PROVE  SumFunctionOnSet(Sizes', S) = Sum(S)
      BY <1>0, <1>1, SumLasts, SumOfFills
    <3> QED BY <1>0, <3>1, BalanceSets
  <2>3. Doubled(w, c)' = Doubled(w, c)
    BY <1>0, <1>1 DEF Doubled, Of
  <2>4. Sum(Newer(w, c)) \in Int /\ Sum(Unjournaled(w, c)) \in Int
    BY <1>0, BalanceSets, SumOfFills
  <2>5. CASE /\ \A j \in DOMAIN fills' \ DOMAIN fills : ~(fills'[j].wallet = w /\ fills'[j].coin = c)
             /\ held'[w][c] = held[w][c]
    <3>1. Newer(w, c)' = Newer(w, c) /\ Unjournaled(w, c)' = Unjournaled(w, c)
      BY <1>0, <1>1, <2>5 DEF Newer, Unjournaled, Of
    <3>2. held[w][c] = held[w][c] + 0
      BY <1>0 DEF Position
    <3> QED BY <2>1, <2>2, <2>3, <2>4, <2>5, <3>1, <3>2
  <2>6. ASSUME NEW i \in Nat, NEW d \in Int \ {0}, Moved(w, i, c, d)
        PROVE  \E e \in Int :
                 /\ held'[w][c] = held[w][c] + e
                 /\ Sum(Newer(w, c))' = Sum(Newer(w, c)) + e
                 /\ Sum(Unjournaled(w, c))' = Sum(Unjournaled(w, c)) + e
                 /\ Sum(Doubled(w, c))' = Sum(Doubled(w, c))
    <3>1. /\ i \in DOMAIN fills' \ DOMAIN fills /\ i > Len(fills)
          /\ fills'[i].wallet = w /\ fills'[i].coin = c /\ fills'[i].delta = d
          /\ \A j \in DOMAIN fills' \ DOMAIN fills : j # i => fills'[j].wallet # w
          /\ held'[w] = [held[w] EXCEPT ![c] = @ + d]
      BY <2>6 DEF Moved, Leg
    <3>2. held'[w][c] = held[w][c] + d
      BY <1>0, <3>1 DEF Position
    <3>3. i > asOf[w] /\ i \notin journal
      BY <1>0, <3>1
    <3>4. /\ Newer(w, c)' = Newer(w, c) \cup {i}
          /\ Unjournaled(w, c)' = Unjournaled(w, c) \cup {i}
          /\ i \notin Newer(w, c) /\ i \notin Unjournaled(w, c)
      BY <1>0, <1>1, <3>1, <3>3 DEF Newer, Unjournaled, Of
    <3>5. Sizes'[i] = d
      BY <3>1 DEF Sizes
    <3>6. /\ Integral(Sizes', Newer(w, c) \cup {i}) /\ Integral(Sizes', Unjournaled(w, c) \cup {i})
          /\ IsFiniteSet(Newer(w, c)) /\ IsFiniteSet(Unjournaled(w, c))
      <4>1. /\ Newer(w, c)' \in SUBSET DOMAIN fills' /\ Unjournaled(w, c)' \in SUBSET DOMAIN fills'
            /\ Integral(Sizes', DOMAIN fills')
        <5>1. /\ Newer(w, c)' \in SUBSET DOMAIN fills' /\ Unjournaled(w, c)' \in SUBSET DOMAIN fills'
          BY DEF Newer, Unjournaled, Of
        <5>2. \A j \in DOMAIN fills' : fills'[j].delta \in Int
          <6>1. fills' \in Seq(FillType)
            BY <1>0 DEF TypeOK, FillType
          <6>2. \A j \in DOMAIN fills' : fills'[j] \in FillType
            BY <6>1
          <6> QED BY <6>2 DEF FillType
        <5> QED BY <5>1, <5>2 DEF Integral, Sizes
      <4>2. IsFiniteSet(Newer(w, c)) /\ IsFiniteSet(Unjournaled(w, c))
        BY <1>0, BalanceSets, SumOfFills
      <4> QED BY <3>4, <4>1, <4>2 DEF Integral
    <3>7. SumFunctionOnSet(Sizes', Newer(w, c) \cup {i}) = SumFunctionOnSet(Sizes', Newer(w, c)) + d
      BY <3>4, <3>5, <3>6, SumAdd
    <3>8. SumFunctionOnSet(Sizes', Unjournaled(w, c) \cup {i})
            = SumFunctionOnSet(Sizes', Unjournaled(w, c)) + d
      BY <3>4, <3>5, <3>6, SumAdd
    <3> QED BY <2>1, <2>2, <2>3, <3>2, <3>4, <3>7, <3>8
  <2>7. CASE Unmoved(w)
    BY <2>5, <2>7 DEF Unmoved
  <2>8. ASSUME NEW i \in Nat, NEW x \in Coins, NEW d \in Int \ {0}, Moved(w, i, x, d), x # c
        PROVE  /\ \A j \in DOMAIN fills' \ DOMAIN fills : ~(fills'[j].wallet = w /\ fills'[j].coin = c)
               /\ held'[w][c] = held[w][c]
    BY <1>0, <2>8 DEF Moved, Leg, Position
  <2> QED BY <1>1, <2>5, <2>6, <2>7, <2>8
<1>3. ASSUME NEW w \in Wallets, NEW c \in Coins, Joined(w)' PROVE Balanced(w, c)'
  <2>1. Balanced(w, c)
    BY <1>1, <1>3, BalancesIs DEF Joined
  <2>2. /\ Sum(Unjournaled(w, c)) \in Int /\ Sum(Doubled(w, c)) \in Int
        /\ held[w][c] \in Int /\ size[w][c] \in Int
    BY <1>0, BalanceSets, SumOfFills DEF Position
  <2> QED BY <1>1, <1>2, <2>1, <2>2 DEF Balanced
<1>4. ASSUME pc' = "ONBOARD", NEW c \in Coins
      PROVE  held'[current'][c] = fetched'[c] + Sum(Newer(current, c))'
  <2>1. current \in Wallets /\ fetched \in [Coins -> Int]
    BY <1>1, <1>4 DEF IInv, TypeOK, Structure
  <2>2. held[current][c] = fetched[c] + Sum(Newer(current, c))
    BY <1>1, <1>4 DEF LoadedBalances
  <2> PICK w : w = current
    OBVIOUS
  <2>3. /\ Sum(Newer(w, c)) \in Int /\ held[w][c] \in Int /\ fetched[c] \in Int
    BY <1>0, <2>1, BalanceSets, SumOfFills DEF Position
  <2>4. PICK d \in Int : held'[w][c] = held[w][c] + d /\ Sum(Newer(w, c))' = Sum(Newer(w, c)) + d
    BY <1>2, <2>1
  <2>5. Sum(Newer(current, c))' = Sum(Newer(w, c))'
    BY <1>1 DEF Sum, Newer, Of
  <2> QED BY <1>1, <2>2, <2>3, <2>4, <2>5
<1>5. (\A w \in Wallets, c \in Coins : Joined(w)' => Balanced(w, c)') => ProjectionBalances'
  BY BalancesIs DEF ProjectionBalances, Balanced, Unjournaled, Doubled
<1> QED BY <1>3, <1>4, <1>5 DEF LoadedBalances

\* What is projected was missing from the projection, or is there twice from now on.
LEMMA IngestBalances ==
  ASSUME IInv, Ingest, ProjectionBalances, LoadedBalances
  PROVE  ProjectionBalances' /\ LoadedBalances'
<1>0. /\ TypeOK /\ held \in [Wallets -> Position] /\ size \in [Wallets -> [Coins -> Int]]
      /\ DOMAIN fills = 1..Len(fills) /\ asOf \in [Wallets -> 0..Len(fills)]
      /\ journal \subseteq DOMAIN fills
      /\ \A i \in DOMAIN fills : /\ fills[i].wallet \in Wallets /\ fills[i].coin \in Coins
                                 /\ fills[i].delta \in Int
  BY StructureTypes DEF IInv, TypeOK, CoverageTypeOK
<1> PICK h, v, x : h = Head(buffer) /\ v = fills[h].wallet /\ x = fills[h].coin
  OBVIOUS
<1>1. /\ UNCHANGED <<fills, held, asOf, gate>> /\ pc' = "OBSERVE"
      /\ IF Exists(h) THEN UNCHANGED <<journal, size>>
         ELSE /\ journal' = journal \cup {h}
              /\ size' = [size EXCEPT ![v][x] = @ + fills[h].delta]
      /\ h \in DOMAIN fills
  BY <1>0, BufferType DEF Ingest, exchangeVars
<1>2. CASE Exists(h)
  BY <1>1, <1>2, QuietBalances DEF Joined
<1>3. CASE ~Exists(h)
  <2>1. /\ h \notin journal /\ journal' = journal \cup {h}
        /\ size' = [size EXCEPT ![v][x] = @ + fills[h].delta]
    BY <1>1, <1>3 DEF Exists
  <2>2. ASSUME NEW w \in Wallets, NEW c \in Coins, Joined(w)' PROVE Balanced(w, c)'
    <3>1. Balanced(w, c)
      BY <1>1, <2>2, BalancesIs DEF Joined
    <3>2. /\ Sum(Unjournaled(w, c)) \in Int /\ Sum(Doubled(w, c)) \in Int
          /\ held[w][c] \in Int /\ size[w][c] \in Int /\ fills[h].delta \in Int
      <4>1. Sum(Unjournaled(w, c)) \in Int /\ Sum(Doubled(w, c)) \in Int
        BY <1>0, BalanceSets, SumOfFills
      <4>2. held[w][c] \in Int /\ size[w][c] \in Int
        BY <1>0 DEF Position
      <4>3. fills[h].delta \in Int
        BY <1>0, <1>1
      <4> QED BY <4>1, <4>2, <4>3
    <3>3. /\ Sum(Unjournaled(w, c))' = SumFunctionOnSet(Sizes, Unjournaled(w, c)')
          /\ Sum(Doubled(w, c))' = SumFunctionOnSet(Sizes, Doubled(w, c)')
          /\ Sum(Unjournaled(w, c)) = SumFunctionOnSet(Sizes, Unjournaled(w, c))
          /\ Sum(Doubled(w, c)) = SumFunctionOnSet(Sizes, Doubled(w, c))
      BY <1>1 DEF Sum, Sizes
    <3>4. CASE ~(w = v /\ c = x)
      <4>1. Unjournaled(w, c)' = Unjournaled(w, c) /\ Doubled(w, c)' = Doubled(w, c)
        BY <1>1, <2>1, <3>4 DEF Unjournaled, Doubled, Of
      <4>2. size'[w][c] = size[w][c]
        BY <1>0, <2>1, <3>4
      <4> QED BY <1>1, <3>1, <3>3, <4>1, <4>2 DEF Balanced
    <3>5. CASE w = v /\ c = x
      <4>1. size'[w][c] = size[w][c] + Sizes[h] /\ Sizes[h] = fills[h].delta
        BY <1>0, <1>1, <2>1, <3>5 DEF Sizes
      <4>2. asOf[w] \in Int /\ h \in Int
        BY <1>0, <1>1
      <4>3. CASE h > asOf[w]
        <5>1. /\ Unjournaled(w, c)' = Unjournaled(w, c) \ {h} /\ h \in Unjournaled(w, c)
          BY <1>1, <2>1, <3>5, <4>3 DEF Unjournaled, Of
        <5>2. Doubled(w, c)' = Doubled(w, c)
          BY <1>1, <2>1, <4>2, <4>3 DEF Doubled, Of
        <5>3. SumFunctionOnSet(Sizes, Unjournaled(w, c) \ {h})
                = SumFunctionOnSet(Sizes, Unjournaled(w, c)) - Sizes[h]
          BY <1>0, <5>1, BalanceSets, SumOfFills, SumRemove
        <5> QED BY <1>1, <3>1, <3>2, <3>3, <4>1, <5>1, <5>2, <5>3 DEF Balanced
      <4>4. CASE ~(h > asOf[w])
        <5>1. Unjournaled(w, c)' = Unjournaled(w, c)
          BY <1>1, <2>1, <4>4 DEF Unjournaled, Of
        <5>2. Doubled(w, c)' = Doubled(w, c) \cup {h} /\ h \notin Doubled(w, c)
          BY <1>1, <2>1, <3>5, <4>2, <4>4 DEF Doubled, Of
        <5>3. IsFiniteSet(Doubled(w, c)) /\ Integral(Sizes, Doubled(w, c) \cup {h})
          BY <1>0, <1>1, BalanceSets, SumOfFills DEF Integral, Sizes
        <5>4. SumFunctionOnSet(Sizes, Doubled(w, c) \cup {h})
                = SumFunctionOnSet(Sizes, Doubled(w, c)) + Sizes[h]
          BY <5>2, <5>3, SumAdd
        <5> QED BY <1>1, <3>1, <3>2, <3>3, <4>1, <5>1, <5>2, <5>4 DEF Balanced
      <4> QED BY <4>3, <4>4
    <3> QED BY <3>4, <3>5
  <2>3. (\A w \in Wallets, c \in Coins : Joined(w)' => Balanced(w, c)') => ProjectionBalances'
    BY BalancesIs DEF ProjectionBalances, Balanced, Unjournaled, Doubled
  <2> QED BY <1>1, <2>2, <2>3 DEF LoadedBalances
<1> QED BY <1>2, <1>3

\* The state that was loaded becomes the projection; none of the wallet's fills is
\* journaled yet.
LEMMA OnboardBalances ==
  ASSUME IInv, Onboard, ProjectionBalances, LoadedBalances
  PROVE  ProjectionBalances' /\ LoadedBalances'
<1>0. /\ TypeOK /\ CoverageTypeOK /\ held \in [Wallets -> Position]
      /\ size \in [Wallets -> [Coins -> Int]]
  BY StructureTypes DEF IInv, TypeOK, CoverageTypeOK
<1> PICK v : v = current
  OBVIOUS
<1>1. /\ v \in Wallets /\ ~Joined(v) /\ UNCHANGED <<fills, held, journal, asOf>>
      /\ pc = "ONBOARD" /\ pc' = "LOOP" /\ fetched \in [Coins -> Int]
      /\ size' = [size EXCEPT ![v] = fetched]
      /\ \A w \in Wallets \ {v} : Joined(w)' => Joined(w)
  BY <1>0 DEF Onboard, Onboarded, Rebased, IInv, TypeOK, Structure, exchangeVars, Joined,
              CoverageTypeOK
<1>2. \A S : Sum(S)' = Sum(S)
  BY <1>1 DEF Sum
<1>3. \A w \in Wallets, c \in Coins : /\ Unjournaled(w, c)' = Unjournaled(w, c)
                                      /\ Doubled(w, c)' = Doubled(w, c)
  BY <1>1 DEF Unjournaled, Doubled, Of
<1>4. ASSUME NEW w \in Wallets, NEW c \in Coins, Joined(w)' PROVE Balanced(w, c)'
  <2>1. /\ Sum(Unjournaled(w, c))' = Sum(Unjournaled(w, c))
        /\ Sum(Doubled(w, c))' = Sum(Doubled(w, c))
    BY <1>1, <1>3 DEF Sum
  <2>2. CASE w # v
    <3>1. Balanced(w, c)
      BY <1>1, <1>4, <2>2, BalancesIs
    <3> QED BY <1>0, <1>1, <2>1, <2>2, <3>1 DEF Balanced
  <2>3. CASE w = v
    <3>1. held[w][c] = fetched[c] + Sum(Newer(w, c))
      BY <1>1, <2>3 DEF LoadedBalances
    <3>2. \A i \in journal : fills[i].wallet # v
      BY <1>1 DEF IInv, Structure
    <3>3. Unjournaled(w, c) = Newer(w, c) /\ Doubled(w, c) = {}
      BY <2>3, <3>2 DEF Unjournaled, Newer, Doubled, Of
    <3>4. Sum({}) = 0 /\ Sum(Newer(w, c)) \in Int
      BY <1>0, BalanceSets, SumOfFills, SumEmpty DEF Sum
    <3>5. size'[w][c] = fetched[c] /\ fetched[c] \in Int
      BY <1>0, <1>1, <2>3
    <3> QED BY <1>1, <2>1, <3>1, <3>3, <3>4, <3>5 DEF Balanced
  <2> QED BY <2>2, <2>3
<1>5. (\A w \in Wallets, c \in Coins : Joined(w)' => Balanced(w, c)') => ProjectionBalances'
  BY BalancesIs DEF ProjectionBalances, Balanced, Unjournaled, Doubled
<1> QED BY <1>1, <1>4, <1>5 DEF LoadedBalances

LEMMA FetchBalances ==
  ASSUME IInv, FetchState, ProjectionBalances, LoadedBalances
  PROVE  ProjectionBalances' /\ LoadedBalances'
<1>0. /\ TypeOK /\ held \in [Wallets -> Position] /\ DOMAIN fills = 1..Len(fills)
      /\ Len(fills) \in Nat /\ asOf \in [Wallets -> 0..Len(fills)]
  BY StructureTypes DEF IInv, TypeOK
<1> PICK v : v = current
  OBVIOUS
<1>1. /\ v \in Wallets /\ ~Joined(v) /\ UNCHANGED <<fills, held, journal, gate, size, current>>
      /\ pc' = "ONBOARD" /\ fetched' = held[v] /\ asOf' = [asOf EXCEPT ![v] = Len(fills)]
  BY DEF FetchState, IInv, TypeOK, Structure, exchangeVars, coverageVars
<1>2. ASSUME NEW w \in Wallets, NEW c \in Coins, Joined(w)' PROVE Balanced(w, c)'
  <2>1. w # v /\ Balanced(w, c)
    BY <1>1, <1>2, BalancesIs DEF Joined
  <2>2. asOf'[w] = asOf[w]
    BY <1>0, <1>1, <2>1
  <2>3. /\ Unjournaled(w, c)' = Unjournaled(w, c) /\ Doubled(w, c)' = Doubled(w, c)
    BY <1>1, <2>2 DEF Unjournaled, Doubled, Of
  <2>4. /\ Sum(Unjournaled(w, c))' = Sum(Unjournaled(w, c))
        /\ Sum(Doubled(w, c))' = Sum(Doubled(w, c))
    BY <1>1, <2>3 DEF Sum
  <2> QED BY <1>1, <2>1, <2>4 DEF Balanced
<1>3. ASSUME NEW c \in Coins
      PROVE  held'[current'][c] = fetched'[c] + Sum(Newer(current, c))'
  <2>1. Newer(current, c)' = {}
    <3>1. asOf'[current'] = Len(fills)
      BY <1>0, <1>1
    <3>2. \A i \in DOMAIN fills' : ~(i > Len(fills))
      BY <1>0, <1>1
    <3> QED BY <3>1, <3>2 DEF Newer, Of
  <2>2. Sum(Newer(current, c))' = 0
    BY <2>1, SumEmpty DEF Sum
  <2>3. held[v][c] \in Int
    BY <1>0, <1>1 DEF Position
  <2> QED BY <1>1, <2>2, <2>3
<1>4. (\A w \in Wallets, c \in Coins : Joined(w)' => Balanced(w, c)') => ProjectionBalances'
  BY BalancesIs DEF ProjectionBalances, Balanced, Unjournaled, Doubled
<1> QED BY <1>2, <1>3, <1>4 DEF LoadedBalances

LEMMA StepBalances ==
  ASSUME IInv, IInv', [Next]_vars, ProjectionBalances, LoadedBalances
  PROVE  ProjectionBalances' /\ LoadedBalances'
<1>1. ASSUME Next, ~Trades, ~Ingest, ~Onboard, ~FetchState
      PROVE  /\ UNCHANGED <<fills, held, journal, asOf, size>>
             /\ \A w \in Wallets : Joined(w)' => Joined(w)
             /\ pc' # "ONBOARD" \/ UNCHANGED <<pc, current, fetched>>
  <2>1. CASE Observe
    <3>1. fills[current].wallet \in Wallets /\ Joined(fills[current].wallet) /\ CoverageTypeOK
      BY <2>1, StructureTypes DEF Observe, IInv, Structure
    <3> QED BY <2>1, <3>1 DEF Observe, Observed, exchangeVars, Joined, CoverageTypeOK
  <2>2. CASE ~Observe
    BY <1>1, <2>2
    DEF Next, Serve, Trades, Begin, BootstrapRestored, BootstrapBegin, FetchFails, Fails, End,
        WalletsSame, WalletsChanged, IngestRefused, Timeout, StreamLost, StreamUp, StreamStops,
        Crash, AddWallet, CommandWallet, Joined, coverageVars, exchangeVars, serviceVars
  <2> QED BY <2>1, <2>2
<1>2. CASE UNCHANGED vars
  BY <1>2, QuietBalances DEF vars, serviceVars, exchangeVars, coverageVars, Joined
<1> QED
  BY <1>1, <1>2, QuietBalances, TradeBalances, IngestBalances, OnboardBalances, FetchBalances

\* The projection is off by exactly the fills that are not journaled and those that
\* the loaded state contained: for any wallets and coins, any number of fills of any
\* size, lost, repeated and crossed, and any failures (coverage.py:19-27,
\* collector_service.py:31-70).
THEOREM ProjectionIsBalanced == Spec => []ProjectionBalances
<1>1. Init => ProjectionBalances /\ LoadedBalances
  BY DEF Init, CoverageInit, ProjectionBalances, LoadedBalances, Joined
<1> QED BY <1>1, ServiceInvariant, StepBalances, PTL DEF Spec
=============================================================================
