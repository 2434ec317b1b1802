---------------------------- MODULE MemoryEngine ----------------------------
(***************************************************************************)
(* The event-sourced memory of the service (src/tme/engine.py): wallets, an*)
(* append-only journal of fills, one projection row per wallet and coin,   *)
(* the lifecycle index of the journal, snapshots, and recovery.            *)
(*                                                                         *)
(* SQLite allows one writer at a time (Database.transaction is BEGIN       *)
(* IMMEDIATE), so a handler that is a single transaction is one action.    *)
(* Two handlers are longer than that:                                      *)
(*   - snapshot reads the projection before its transaction begins, so     *)
(*     other requests run between SnapshotRead and SnapshotInsert;         *)
(*   - recover is one transaction of many statements, held in tx, so a     *)
(*     crash or an exception can come after any of them; the rows it       *)
(*     writes become visible at the commit only.                           *)
(*                                                                         *)
(* ref, after, sound, tagsSound and the sound fields are history: no guard *)
(* reads them.  after[n] is the row that the n-th fill leads to when the   *)
(* journal is replayed once, in order, from nothing, and ref the rows that *)
(* replay ends with.                                                       *)
(***************************************************************************)
EXTENDS Projection, Sequences, FiniteSetsExt

CONSTANTS
  Wallets, Coins,
  EventIds,    \* the ids a source may give its fills; bounds the journal
  Deltas,      \* signed sizes of fills
  AuthSizes,   \* sizes the exchange may report to a recovery
  Commands,    \* the wallet commands issued, beside REMOVE and PURGE
  Requests,    \* concurrent API requests that take a snapshot
  Nil

\* The wallet commands that only set a status, and the status they set.
Mapping == [PAUSE |-> "PAUSED", RESUME |-> "LIVE", ARCHIVE |-> "ARCHIVED",
            DISCOVER |-> "DISCOVERING", SYNC |-> "SYNCING", READY |-> "READY",
            LIVE |-> "LIVE"]

ASSUME CoinsAssumption    == Coins # {}
ASSUME DeltasAssumption   == Deltas \subseteq Int \ {0}
ASSUME AuthAssumption     == AuthSizes \subseteq Int
ASSUME CommandsAssumption == Commands \subseteq DOMAIN Mapping

VARIABLES
  status,     \* wallets.status, Nil for an address that is not registered
  recovery,   \* wallets.recovery_status
  journal,    \* event_journal, indexed by its sequence number
  proj,       \* projections
  tags,       \* lifecycle_fills: sequence number -> lifecycle number
  snap,       \* the latest row of snapshots for each wallet, or Nil
  request,    \* the snapshot each request has read and not yet stored, or Nil
  tx,         \* the open transaction of recover, or Nil
  ref, after, \* history: the replay of the journal from nothing
  sound,      \* history: the projection goes back to such a replay
  tagsSound   \* history: no fill was tagged from an unsound projection

vars == <<status, recovery, journal, proj, tags, snap, request, tx,
          ref, after, sound, tagsSound>>
-----------------------------------------------------------------------------
Inactive == {"PAUSED", "ARCHIVED", "REMOVED", "PURGED"}
Settling == {"DISCOVERING", "SYNCING", "READY"}
Statuses == Inactive \cup Settling \cup {"LIVE"}
Rows     == [Coins -> Row]
NoRows   == [c \in Coins |-> NoRow]
Fill     == [id : EventIds, wallet : Wallets, coin : Coins, delta : Deltas]
Snapshot == [rows : Rows, last : Nat, sound : BOOLEAN]

TypeOK ==
  /\ status \in [Wallets -> Statuses \cup {Nil}]
  /\ recovery \in [Wallets -> {"IDLE", "HEALTHY", "MISMATCH"}]
  /\ journal \in Seq(Fill)
  /\ proj \in [Wallets -> Rows]
  /\ tags \in [1..Len(journal) -> Nat]
  /\ snap \in [Wallets -> Snapshot \cup {Nil}]
  /\ request \in [Requests -> [wallet : Wallets, shot : Snapshot] \cup {Nil}]
  /\ tx \in [wallet : Wallets, rows : Rows, tags : [1..Len(journal) -> Nat],
             cursor : Nat, sound : BOOLEAN] \cup {Nil}
  /\ ref \in [Wallets -> Rows]
  /\ after \in Seq(Row)
  /\ sound \in [Wallets -> BOOLEAN]
  /\ tagsSound \in [Wallets -> BOOLEAN]

Init ==
  /\ status = [w \in Wallets |-> Nil]
  /\ recovery = [w \in Wallets |-> "IDLE"]
  /\ journal = <<>>
  /\ proj = [w \in Wallets |-> NoRows]
  /\ tags = <<>>
  /\ snap = [w \in Wallets |-> Nil]
  /\ request = [r \in Requests |-> Nil]
  /\ tx = Nil
  /\ ref = [w \in Wallets |-> NoRows]
  /\ after = <<>>
  /\ sound = [w \in Wallets |-> TRUE]
  /\ tagsSound = [w \in Wallets |-> TRUE]
-----------------------------------------------------------------------------
\* UPDATE wallets ... WHERE address = w: nothing when w is not registered.
Updated(column, w, value) == IF status[w] = Nil THEN column ELSE [column EXCEPT ![w] = value]

\* A bug the checks must notice: INSERT OR REPLACE.
TagReplaced(index, n, lifecycle) ==
  [k \in DOMAIN index \cup {n} |-> IF k = n THEN lifecycle ELSE index[k]]

\* INSERT OR IGNORE INTO lifecycle_fills: the first tag of a fill stays.
Tag(index, n, lifecycle) ==
  [k \in DOMAIN index \cup {n} |-> IF k \in DOMAIN index THEN index[k] ELSE lifecycle]

\* A bug the checks must notice: the last_sequence of any row, not the largest.
IsAnyLast(rows, n) == \E c \in Coins : rows[c].last = n

\* n is the largest last_sequence among the rows (0 when there is no row).
IsLast(rows, n) == /\ \E c \in Coins : rows[c].last = n
                   /\ \A c \in Coins : rows[c].last <= n

\* Bugs the checks must notice: the first event after the snapshot is missed, or
\* the events of other wallets are replayed as well.
PendingLater(w, n) == {k \in (n + 2)..Len(journal) : journal[k].wallet = w}
PendingOfAll(w, n) == (n + 1)..Len(journal)

\* The events of wallet w after sequence number n.
Pending(w, n) == {k \in (n + 1)..Len(journal) : journal[k].wallet = w}

AddWallet(w) ==
  /\ tx = Nil
  /\ status[w] = Nil
  /\ status' = [status EXCEPT ![w] = "DISCOVERING"]
  /\ UNCHANGED <<recovery, journal, proj, tags, snap, request, tx, ref, after, sound, tagsSound>>

CommandWallet(w, command) ==
  /\ tx = Nil
  /\ status' = Updated(status, w, Mapping[command])
  /\ UNCHANGED <<recovery, journal, proj, tags, snap, request, tx, ref, after, sound, tagsSound>>

RemoveWallet(w) ==
  /\ tx = Nil
  /\ status' = Updated(status, w, "REMOVED")
  /\ UNCHANGED <<recovery, journal, proj, tags, snap, request, tx, ref, after, sound, tagsSound>>

\* The journal and its lifecycle index are kept.
PurgeWallet(w) ==
  /\ tx = Nil
  /\ proj' = [proj EXCEPT ![w] = NoRows]
  /\ snap' = [snap EXCEPT ![w] = Nil]
  /\ status' = Updated(status, w, "PURGED")
  /\ sound' = [sound EXCEPT ![w] = FALSE]
  /\ UNCHANGED <<recovery, journal, tags, request, tx, ref, after, tagsSound>>

\* ingest_fill.  A fill whose id is in the journal changes nothing.
IngestFill(f) ==
  LET seq == Len(journal) + 1
      row == Project(proj[f.wallet][f.coin], f.delta, seq)
      pure == Project(ref[f.wallet][f.coin], f.delta, seq)
  IN /\ tx = Nil
     /\ status[f.wallet] # Nil /\ status[f.wallet] \notin Inactive
     /\ \A n \in 1..Len(journal) : journal[n].id # f.id
     /\ journal' = Append(journal, f)
     /\ proj' = [proj EXCEPT ![f.wallet][f.coin] = row]
     /\ tags' = Tag(tags, seq, row.lifecycle)
     /\ status' = [status EXCEPT ![f.wallet] = IF @ \in Settling THEN "LIVE" ELSE @]
     /\ ref' = [ref EXCEPT ![f.wallet][f.coin] = pure]
     /\ after' = Append(after, pure)
     /\ tagsSound' = [tagsSound EXCEPT ![f.wallet] = @ /\ sound[f.wallet]]
     /\ UNCHANGED <<recovery, snap, request, tx, sound>>
-----------------------------------------------------------------------------
(***************************************************************************)
(* snapshot: the read (engine.py:127-128) runs outside any transaction and *)
(* sees the last commit, even while a recovery holds the writer lock.      *)
(***************************************************************************)
SnapshotRead(r, w) ==
  /\ request[r] = Nil
  /\ \E n \in {proj[w][c].last : c \in Coins} :
       /\ IsLast(proj[w], n)
       /\ request' = [request EXCEPT ![r] =
            [wallet |-> w, shot |-> [rows |-> proj[w], last |-> n, sound |-> sound[w]]]]
  /\ UNCHANGED <<status, recovery, journal, proj, tags, snap, tx, ref, after, sound, tagsSound>>

SnapshotInsert(r) ==
  /\ tx = Nil
  /\ request[r] # Nil
  /\ snap' = [snap EXCEPT ![request[r].wallet] = request[r].shot]
  /\ request' = [request EXCEPT ![r] = Nil]
  /\ UNCHANGED <<status, recovery, journal, proj, tags, tx, ref, after, sound, tagsSound>>

(***************************************************************************)
(* recover.  With a snapshot, the rows are replaced by the snapshot's and  *)
(* the events after it are replayed; without one, the rows stay and every  *)
(* event of the wallet is replayed onto them.  The base is sound when the  *)
(* snapshot is, or when there are no rows to replay onto.                  *)
(***************************************************************************)
RecoverBegin(w) ==
  LET s == snap[w]
      base == IF s # Nil THEN s.rows ELSE proj[w]
  IN /\ tx = Nil
     /\ tx' = [wallet |-> w, rows |-> base, tags |-> tags,
               cursor |-> IF s # Nil THEN s.last ELSE 0,
               sound  |-> IF s # Nil THEN s.sound ELSE base = NoRows]
     /\ UNCHANGED <<status, recovery, journal, proj, tags, snap, request, ref, after, sound, tagsSound>>

RecoverReplay ==
  /\ tx # Nil
  /\ \E n \in Pending(tx.wallet, tx.cursor) :
       LET c == journal[n].coin
           row == Project(tx.rows[c], journal[n].delta, n)
       IN /\ \A k \in Pending(tx.wallet, tx.cursor) : n <= k
          /\ tx' = [wallet |-> tx.wallet, rows |-> [tx.rows EXCEPT ![c] = row],
                    tags |-> Tag(tx.tags, n, row.lifecycle), cursor |-> n, sound |-> tx.sound]
  /\ UNCHANGED <<status, recovery, journal, proj, tags, snap, request, ref, after, sound, tagsSound>>

\* _compare_authoritative: only the coins that were supplied are compared.
Mismatch(rows, supplied) == \E c \in DOMAIN supplied : rows[c].size # supplied[c]

RecoverCommit(supplied) ==
  /\ tx # Nil
  /\ Pending(tx.wallet, tx.cursor) = {}
  /\ LET w == tx.wallet
         bad == Mismatch(tx.rows, supplied)
     IN /\ proj' = [proj EXCEPT ![w] = tx.rows]
        /\ tags' = tx.tags
        /\ status' = Updated(status, w, IF bad THEN "SYNCING" ELSE "READY")
        /\ recovery' = Updated(recovery, w, IF bad THEN "MISMATCH" ELSE "HEALTHY")
        /\ sound' = [sound EXCEPT ![w] = tx.sound]
  /\ tx' = Nil
  /\ UNCHANGED <<journal, snap, request, ref, after, tagsSound>>

\* An exception inside the transaction: rollback (database.py:130-132).
RecoverRollback ==
  /\ tx # Nil
  /\ tx' = Nil
  /\ UNCHANGED <<status, recovery, journal, proj, tags, snap, request, ref, after, sound, tagsSound>>

\* The process stops; the next one opens the database at the last commit.
Crash ==
  /\ tx' = Nil
  /\ request' = [r \in Requests |-> Nil]
  /\ UNCHANGED <<status, recovery, journal, proj, tags, snap, ref, after, sound, tagsSound>>

Next ==
  \/ \E w \in Wallets : \/ AddWallet(w) \/ RemoveWallet(w) \/ PurgeWallet(w)
                        \/ \E command \in Commands : CommandWallet(w, command)
                        \/ \E r \in Requests : SnapshotRead(r, w)
                        \/ RecoverBegin(w)
  \/ \E f \in Fill : IngestFill(f)
  \/ \E r \in Requests : SnapshotInsert(r)
  \/ RecoverReplay
  \/ \E known \in SUBSET Coins : \E supplied \in [known -> AuthSizes] : RecoverCommit(supplied)
  \/ RecoverRollback
  \/ Crash

Spec == Init /\ [][Next]_vars
-----------------------------------------------------------------------------
(***************************************************************************)
(* Properties.                                                             *)
(***************************************************************************)

\* The projection of a wallet is what one replay of its journal gives, however
\* fills, snapshots (read early, stored late), recoveries, rollbacks and
\* crashes have interleaved, as long as it goes back to an empty start: no
\* fill is lost, applied twice or applied out of order (engine.py:69-155).
ProjectionIsReplay == \A w \in Wallets : sound[w] => proj[w] = ref[w]

\* The lifecycle index, written when a fill arrives and never rewritten, agrees
\* with the lifecycle a replay gives that fill (engine.py:99-100), so the fills
\* of one lifecycle are the fills of one position.
LifecycleIndexIsReplay ==
  \A n \in 1..Len(journal) :
    tagsSound[journal[n].wallet] => tags[n] = after[n].lifecycle

\* A fill never moves to another lifecycle, not even when a recovery projects
\* it a second time from a different base (INSERT OR IGNORE, engine.py:99).
TagsImmutable == [][\A n \in DOMAIN tags : n \in DOMAIN tags' /\ tags'[n] = tags[n]]_vars

\* The signed size of the position after the events up to n.
Fills(w, c)        == {k \in 1..Len(journal) : journal[k].wallet = w /\ journal[k].coin = c}
Sizes              == [k \in 1..Len(journal) |-> journal[k].delta]
SizeAfter(w, c, n) == SumFunctionOnSet(Sizes, {k \in Fills(w, c) : k <= n})

Side(x) == IF x > 0 THEN "LONG" ELSE IF x < 0 THEN "SHORT" ELSE "FLAT"

\* The fills that leave the wallet on a side it was not on before.
Openings(w, c) ==
  {n \in Fills(w, c) : Side(SizeAfter(w, c, n)) \notin {"FLAT", Side(SizeAfter(w, c, n - 1))}}

DefinedRow(w, c) == [lifecycle |-> Cardinality(Openings(w, c)),
                     size      |-> SizeAfter(w, c, Len(journal)),
                     last      |-> Max({0} \cup Fills(w, c))]

\* A row is the sum of the wallet's fills in the coin, whatever recoveries there
\* were, and its lifecycle is the number of times the wallet went from flat, or
\* from the other side, into a position: closing keeps the number, a reversal
\* takes a new one (engine.py:73-79, 134-155).
RowsMatchDefinition ==
  \A w \in Wallets, c \in Coins : sound[w] => proj[w][c] = DefinedRow(w, c)
-----------------------------------------------------------------------------
(***************************************************************************)
(* What the documentation says and the code does not do.                   *)
(***************************************************************************)

\* README.md:14-15: "Recovery loads the latest snapshot, replays only its tail,
\* then reconciles".  So a recovery leaves a right projection right.  Without a
\* snapshot the code replays everything onto the rows (engine.py:139-147).
RecoveryRebuilds ==
  [][\A w \in Wallets : proj[w] = ref[w] /\ tx # Nil /\ tx' = Nil => proj'[w] = ref[w]]_vars

\* The list the gRPC collector gives of what a wallet holds on the exchange
\* leaves out the coins it does not hold (adapter.py:23-25).
CurrentState(held) == [c \in {d \in Coins : held[d] # 0} |-> held[c]]

\* README.md:14-15: recovery "reconciles against authoritative current state
\* supplied by the gRPC collector".  So a wallet is HEALTHY only with the sizes
\* the exchange has.  Coins missing from the list are not compared.
HealthyMeansReconciled ==
  [][\A held \in [Coins -> AuthSizes] :
       /\ RecoverCommit(CurrentState(held))
       /\ recovery'[tx.wallet] = "HEALTHY"
       => \A c \in Coins : proj'[tx.wallet][c].size = held[c]]_vars
-----------------------------------------------------------------------------
(***************************************************************************)
(* The inductive invariant behind them.                                    *)
(***************************************************************************)
Moves(k, w, c) == journal[k].wallet = w /\ journal[k].coin = c

\* row is the outcome of replaying, from nothing, the fills of w in c up to n.
IsReplay(w, c, row, n) ==
  \/ row = NoRow /\ \A k \in 1..n : ~Moves(k, w, c)
  \/ /\ row.last \in 1..n
     /\ Moves(row.last, w, c)
     /\ row = after[row.last]
     /\ \A k \in (row.last + 1)..n : ~Moves(k, w, c)

AreReplay(w, rows, n) == \A c \in Coins : IsReplay(w, c, rows[c], n)

\* Every row of the history continues the one the fill before it left behind.
HistoryChain ==
  /\ Len(after) = Len(journal)
  /\ \A n \in 1..Len(journal) :
       /\ after[n].last = n
       /\ \E row \in {NoRow} \cup {after[m] : m \in 1..(n - 1)} :
                          /\ IsReplay(journal[n].wallet, journal[n].coin, row, n - 1)
                           /\ after[n] = Project(row, journal[n].delta, n)
RefReplays  == \A w \in Wallets : AreReplay(w, ref[w], Len(journal))
ProjReplays == \A w \in Wallets : sound[w] => AreReplay(w, proj[w], Len(journal))

\* A sound snapshot, stored or in flight, is a replay up to its last_sequence.
ShotReplays(w, shot) ==
  shot.sound => shot.last <= Len(journal) /\ AreReplay(w, shot.rows, shot.last)
SnapReplays ==
  /\ \A w \in Wallets : snap[w] # Nil => ShotReplays(w, snap[w])
  /\ \A r \in Requests : request[r] # Nil => ShotReplays(request[r].wallet, request[r].shot)

TxReplays ==
  tx # Nil => /\ tx.tags = tags
              /\ tx.sound => /\ tx.cursor <= Len(journal)
                             /\ AreReplay(tx.wallet, tx.rows, tx.cursor)

IInv == /\ TypeOK /\ HistoryChain /\ RefReplays /\ ProjReplays
        /\ SnapReplays /\ TxReplays /\ LifecycleIndexIsReplay
=============================================================================
