---------------------------- MODULE WalletCoverage ----------------------------
(***************************************************************************)
(* The onboarding gate (src/tme/coverage.py): positions a wallet already   *)
(* holds when it is onboarded are LEGACY, and nothing of the wallet may be *)
(* executed before all of them are gone.                                   *)
(*                                                                         *)
(* The module has the tables that onboard and observe write, and the two   *)
(* transactions; CollectorService says when they run.  A missing coverage  *)
(* row reads as ARMED, a missing projection as size 0.  Of a projection    *)
(* only the size is kept; Projection has the other columns.                *)
(***************************************************************************)
EXTENDS Projection

CONSTANTS
  Wallets, Coins,
  Projected    \* the projections of fills posted before there was a collector

ASSUME ProjectedAssumption == Projected \subseteq [Wallets -> [Coins -> Int]]

VARIABLES
  status,    \* wallets.status, "NONE" for an address that is not registered
  coverage,  \* wallet_asset_coverage.state
  gate,      \* wallet_onboarding: "NONE" without a row, else ready_for_execution
  size,      \* projections.size
  outbox     \* the wallets with a COVERAGE_COMPLETE row in notification_outbox

coverageVars == <<status, coverage, gate, size, outbox>>

Active   == {"DISCOVERING", "SYNCING", "READY", "LIVE"}
Inactive == {"PAUSED", "ARCHIVED", "REMOVED", "PURGED"}

CoverageTypeOK ==
  /\ status \in [Wallets -> Active \cup Inactive \cup {"NONE"}]
  /\ coverage \in [Wallets -> [Coins -> {"ARMED", "LEGACY", "OWNED"}]]
  /\ gate \in [Wallets -> {"NONE", "CLOSED", "OPEN"}]
  /\ size \in [Wallets -> [Coins -> Int]]
  /\ outbox \subseteq Wallets

Flat == [c \in Coins |-> 0]

CoverageInit ==
  /\ status = [w \in Wallets |-> "NONE"]
  /\ coverage = [w \in Wallets |-> [c \in Coins |-> "ARMED"]]
  /\ gate = [w \in Wallets |-> "NONE"]
  /\ size \in Projected
  /\ outbox = {}
-----------------------------------------------------------------------------
\* A bug the checks must notice: a reduction ends the legacy position.
NextStateReduced(old, start, after) ==
  CASE old = "LEGACY" /\ start * after < start * start -> "ARMED"
    [] old = "ARMED" /\ start = 0 /\ after # 0 -> "OWNED"
    [] old = "OWNED" /\ after = 0 -> "ARMED"
    [] OTHER -> old

\* A bug the checks must notice: a reversal keeps the legacy position.
NextStateNoReversal(old, start, after) ==
  CASE old = "LEGACY" /\ after = 0 -> "ARMED"
    [] old = "ARMED" /\ start = 0 /\ after # 0 -> "OWNED"
    [] old = "OWNED" /\ after = 0 -> "ARMED"
    [] OTHER -> old

\* What a fill from position start to position after makes of a coin.
NextState(old, start, after) ==
  CASE old = "LEGACY" /\ after = 0 -> "ARMED"
    [] old = "LEGACY" /\ start * after < 0 -> "OWNED"
    [] old = "ARMED" /\ start = 0 /\ after # 0 -> "OWNED"
    [] old = "OWNED" /\ after = 0 -> "ARMED"
    [] OTHER -> old

\* A bug the checks must notice: DELETE FROM projections is missing.
RebasedRows(old, held) == [c \in Coins |-> IF held[c] = 0 THEN old[c] ELSE held[c]]

\* The rows after onboarding: those of before are deleted.
Rebased(old, held) == held

\* A bug the checks must notice: the row is inserted when the gate was open.
AnnouncesAgain(ready, wasReady) == ready /\ wasReady

\* observe inserts the notification when it opens the gate.
Announces(ready, wasReady) == ready /\ ~wasReady

Covered(states) == \A c \in Coins : states[c] # "LEGACY"
GateOf(ready)   == IF ready THEN "OPEN" ELSE "CLOSED"
StatusOf(ready) == IF ready THEN "LIVE" ELSE "SYNCING"

\* onboard: held is the state of the account that the exchange reported.
Onboarded(w, held) ==
  LET states == [c \in Coins |-> IF held[c] = 0 THEN "ARMED" ELSE "LEGACY"]
      ready  == held = Flat
  IN /\ coverage' = [coverage EXCEPT ![w] = states]
     /\ size' = [size EXCEPT ![w] = Rebased(@, held)]
     /\ gate' = [gate EXCEPT ![w] = GateOf(ready)]
     /\ status' = [status EXCEPT ![w] = StatusOf(ready)]
     /\ outbox' = IF ready THEN outbox \cup {w} ELSE outbox

\* observe.  The status is set whatever it was.
Observed(w, c, start, after) ==
  LET states == [coverage[w] EXCEPT ![c] = NextState(@, start, after)]
      ready  == Covered(states)
  IN /\ coverage' = [coverage EXCEPT ![w] = states]
     /\ gate' = [gate EXCEPT ![w] = GateOf(ready)]
     /\ status' = [status EXCEPT ![w] = StatusOf(ready)]
     /\ outbox' = IF Announces(ready, gate[w] = "OPEN") THEN outbox \cup {w} ELSE outbox
     /\ UNCHANGED size
=============================================================================
