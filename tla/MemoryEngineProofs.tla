------------------------- MODULE MemoryEngineProofs -------------------------
(***************************************************************************)
(* Proofs about MemoryEngine, for every set of wallets, coins, event ids,  *)
(* fill sizes, concurrent requests and every length of the journal.        *)
(*                                                                         *)
(* What the projection is compared with is never recomputed: after[n] is   *)
(* the row the n-th fill leads to, and IsReplay(w, c, row, n) says that    *)
(* row is that of the last fill of w in c up to n.  A wallet has one such  *)
(* row (ReplayUnique), it survives a change of n that passes no fill of    *)
(* the wallet in that coin (ReplayUpTo), and projecting the next fill onto *)
(* it gives the next such row (ReplayStep).  Recovery then needs no        *)
(* induction over the journal: each statement of its loop is a step.       *)
(* The last section says which rows these are, by the same kind of step:   *)
(* the row of the history has the sum of the fills so far, and a new fill  *)
(* adds its own size to that sum (SumTheorems).                            *)
(***************************************************************************)
EXTENDS MemoryEngine, SumTheorems, TLAPS

-----------------------------------------------------------------------------
(* Types.                                                                  *)

\* A fill applied to a row gives a row.
LEMMA ProjectType ==
  ASSUME NEW row \in Row, NEW delta \in Int, NEW seq \in Nat
  PROVE  Project(row, delta, seq) \in Row
BY DEF Project, Row, Opens

\* Setting a column of a wallet keeps the type of the column.
LEMMA UpdatedType ==
  ASSUME NEW S, NEW column \in [Wallets -> S], NEW w \in Wallets, NEW value \in S
  PROVE  Updated(column, w, value) \in [Wallets -> S]
BY DEF Updated

LEMMA NoRowsType == NoRow \in Row /\ NoRows \in Rows
BY DEF NoRow, NoRows, Row, Rows

\* What a fill carries.
LEMMA FillType ==
  ASSUME NEW f \in Fill
  PROVE  f.wallet \in Wallets /\ f.coin \in Coins /\ f.delta \in Int
BY DeltasAssumption DEF Fill

\* The journal holds fills, at the sequence numbers 1..Len(journal).
LEMMA JournalType ==
  ASSUME TypeOK
  PROVE  /\ Len(journal) \in Nat /\ Len(after) \in Nat
         /\ \A n \in 1..Len(journal) : n \in Nat /\ journal[n] \in Fill
         /\ \A n \in 1..Len(after) : after[n] \in Row
BY DEF TypeOK

\* Every variable keeps its type: in particular no recovery, snapshot or
\* rollback leaves the tables of different requests mixed up (engine.py).
THEOREM TypeCorrect == Spec => []TypeOK
<1>1. Init => TypeOK
  BY NoRowsType DEF Init, TypeOK, Statuses, Settling, Inactive
<1>2. TypeOK /\ [Next]_vars => TypeOK'
  <2> SUFFICES ASSUME TypeOK, [Next]_vars PROVE TypeOK'
    OBVIOUS
  <2>1. ASSUME NEW w \in Wallets, AddWallet(w) PROVE TypeOK'
    BY <2>1 DEF AddWallet, TypeOK, Statuses, Settling
  <2>2. ASSUME NEW w \in Wallets, RemoveWallet(w) PROVE TypeOK'
    <3>1. status' \in [Wallets -> Statuses \cup {Nil}]
      BY <2>2, UpdatedType DEF RemoveWallet, TypeOK, Statuses, Inactive
    <3> QED BY <2>2, <3>1 DEF RemoveWallet, TypeOK
  <2>3. ASSUME NEW w \in Wallets, PurgeWallet(w) PROVE TypeOK'
    <3>1. status' \in [Wallets -> Statuses \cup {Nil}]
      BY <2>3, UpdatedType DEF PurgeWallet, TypeOK, Statuses, Inactive
    <3>2. proj' \in [Wallets -> Rows]
      BY <2>3, NoRowsType DEF PurgeWallet, TypeOK
    <3>3. snap' \in [Wallets -> Snapshot \cup {Nil}]
      BY <2>3 DEF PurgeWallet, TypeOK
    <3> QED BY <2>3, <3>1, <3>2, <3>3 DEF PurgeWallet, TypeOK
  <2>4. ASSUME NEW w \in Wallets, NEW command \in Commands, CommandWallet(w, command)
        PROVE TypeOK'
    <3>1. Mapping[command] \in Statuses \cup {Nil}
      BY CommandsAssumption DEF Mapping, Statuses, Settling, Inactive
    <3>2. status' \in [Wallets -> Statuses \cup {Nil}]
      BY <2>4, <3>1, UpdatedType DEF CommandWallet, TypeOK
    <3> QED BY <2>4, <3>2 DEF CommandWallet, TypeOK
  <2>5. ASSUME NEW w \in Wallets, NEW r \in Requests, SnapshotRead(r, w) PROVE TypeOK'
    <3>1. PICK n \in {proj[w][c].last : c \in Coins} :
            request' = [request EXCEPT ![r] =
              [wallet |-> w, shot |-> [rows |-> proj[w], last |-> n, sound |-> sound[w]]]]
      BY <2>5 DEF SnapshotRead
    <3>2. n \in Nat /\ proj[w] \in Rows /\ sound[w] \in BOOLEAN
      BY DEF TypeOK, Rows, Row
    <3>3. [wallet |-> w, shot |-> [rows |-> proj[w], last |-> n, sound |-> sound[w]]]
            \in [wallet : Wallets, shot : Snapshot]
      BY <3>2 DEF Snapshot
    <3>4. request' \in [Requests -> [wallet : Wallets, shot : Snapshot] \cup {Nil}]
      BY <3>1, <3>3 DEF TypeOK
    <3> QED BY <2>5, <3>4 DEF SnapshotRead, TypeOK
  <2>6. ASSUME NEW w \in Wallets, RecoverBegin(w) PROVE TypeOK'
    <3>1. CASE snap[w] # Nil
      BY <2>6, <3>1 DEF RecoverBegin, TypeOK, Snapshot
    <3>2. CASE snap[w] = Nil
      BY <2>6, <3>2 DEF RecoverBegin, TypeOK
    <3> QED BY <3>1, <3>2
  <2>7. ASSUME NEW f \in Fill, IngestFill(f) PROVE TypeOK'
    <3> DEFINE seq == Len(journal) + 1
               row == Project(proj[f.wallet][f.coin], f.delta, seq)
               pure == Project(ref[f.wallet][f.coin], f.delta, seq)
    <3>1. seq \in Nat /\ f.wallet \in Wallets /\ f.coin \in Coins /\ f.delta \in Int
      BY JournalType, FillType
    <3>2. row \in Row /\ pure \in Row
      BY <3>1, ProjectType DEF TypeOK, Rows
    <3>3. journal' \in Seq(Fill) /\ Len(journal') = seq
      BY <2>7 DEF IngestFill, TypeOK
    <3>4. proj' \in [Wallets -> Rows] /\ ref' \in [Wallets -> Rows] /\ after' \in Seq(Row)
      BY <2>7, <3>1, <3>2, SMTT(30) DEF IngestFill, TypeOK, Rows
    <3>5. tags' \in [1..Len(journal') -> Nat]
      <4>1. row.lifecycle \in Nat
        BY <3>2 DEF Row
      <4>2. 1..seq = 1..Len(journal) \cup {seq}
        BY JournalType
      <4>3. tags' = Tag(tags, seq, row.lifecycle)
        BY <2>7 DEF IngestFill
      <4> HIDE DEF seq, row
      <4> QED BY <3>3, <4>1, <4>2, <4>3 DEF Tag, TypeOK
    <3>6. status' \in [Wallets -> Statuses \cup {Nil}]
      BY <2>7, <3>1 DEF IngestFill, TypeOK, Statuses, Settling
    <3>7. tagsSound' \in [Wallets -> BOOLEAN]
      BY <2>7, <3>1 DEF IngestFill, TypeOK
    <3>8. tx' = Nil
      BY <2>7 DEF IngestFill
    <3> QED BY <2>7, <3>3, <3>4, <3>5, <3>6, <3>7, <3>8 DEF IngestFill, TypeOK
  <2>8. ASSUME NEW r \in Requests, SnapshotInsert(r) PROVE TypeOK'
    BY <2>8 DEF SnapshotInsert, TypeOK
  <2>9. ASSUME RecoverReplay PROVE TypeOK'
    <3>1. PICK n \in Pending(tx.wallet, tx.cursor) :
            LET c == journal[n].coin
                row == Project(tx.rows[c], journal[n].delta, n)
            IN tx' = [wallet |-> tx.wallet, rows |-> [tx.rows EXCEPT ![c] = row],
                      tags |-> Tag(tx.tags, n, row.lifecycle), cursor |-> n,
                      sound |-> tx.sound]
      BY <2>9 DEF RecoverReplay
    <3> DEFINE c == journal[n].coin
               row == Project(tx.rows[c], journal[n].delta, n)
    <3>2. tx \in [wallet : Wallets, rows : Rows, tags : [1..Len(journal) -> Nat],
                  cursor : Nat, sound : BOOLEAN]
      BY <2>9 DEF RecoverReplay, TypeOK
    <3>3. n \in 1..Len(journal) /\ n \in Nat
      BY <3>2 DEF Pending, TypeOK
    <3>4. c \in Coins /\ journal[n].delta \in Int
      BY <3>3, JournalType, FillType
    <3>5. row \in Row
      BY <3>2, <3>3, <3>4, ProjectType DEF Rows
    <3>6. Tag(tx.tags, n, row.lifecycle) \in [1..Len(journal) -> Nat]
      BY <3>2, <3>3 DEF Tag
    <3>7. tx' \in [wallet : Wallets, rows : Rows, tags : [1..Len(journal) -> Nat],
                   cursor : Nat, sound : BOOLEAN]
      <4> HIDE DEF c, row
      <4>1. tx' = [wallet |-> tx.wallet, rows |-> [tx.rows EXCEPT ![c] = row],
                   tags |-> Tag(tx.tags, n, row.lifecycle), cursor |-> n,
                   sound |-> tx.sound]
        BY <3>1 DEF c, row
      <4> QED BY <3>2, <3>3, <3>4, <3>5, <3>6, <4>1 DEF Rows
    <3> QED BY <2>9, <3>7 DEF RecoverReplay, TypeOK
  <2>10. ASSUME NEW supplied, RecoverCommit(supplied) PROVE TypeOK'
    <3>1. tx \in [wallet : Wallets, rows : Rows, tags : [1..Len(journal) -> Nat],
                  cursor : Nat, sound : BOOLEAN]
      BY <2>10 DEF RecoverCommit, TypeOK
    <3>2. status' \in [Wallets -> Statuses \cup {Nil}]
      BY <2>10, <3>1, UpdatedType DEF RecoverCommit, TypeOK, Statuses, Settling
    <3>3. recovery' \in [Wallets -> {"IDLE", "HEALTHY", "MISMATCH"}]
      BY <2>10, <3>1, UpdatedType DEF RecoverCommit, TypeOK
    <3> QED BY <2>10, <3>1, <3>2, <3>3 DEF RecoverCommit, TypeOK
  <2>11. ASSUME RecoverRollback PROVE TypeOK'
    BY <2>11 DEF RecoverRollback, TypeOK
  <2>12. ASSUME Crash PROVE TypeOK'
    BY <2>12 DEF Crash, TypeOK
  <2>13. ASSUME UNCHANGED vars PROVE TypeOK'
    BY <2>13 DEF vars, TypeOK
  <2> QED
    BY <2>1, <2>2, <2>3, <2>4, <2>5, <2>6, <2>7, <2>8, <2>9, <2>10, <2>11, <2>12, <2>13
    DEF Next
<1> QED
  BY <1>1, <1>2, PTL DEF Spec
-----------------------------------------------------------------------------
(* What it means to be the replay.                                         *)

\* A replay up to n determines the row.
LEMMA ReplayUnique ==
  ASSUME TypeOK, NEW w, NEW c, NEW r1 \in Row, NEW r2 \in Row, NEW n \in Nat,
         IsReplay(w, c, r1, n), IsReplay(w, c, r2, n)
  PROVE  r1 = r2
<1>1. CASE r1 = NoRow
  BY <1>1 DEF IsReplay, NoRow
<1>2. CASE r2 = NoRow
  BY <1>2 DEF IsReplay, NoRow
<1>3. CASE r1 # NoRow /\ r2 # NoRow
  <2>1. r1.last \in 1..n /\ r2.last \in 1..n
    BY <1>3 DEF IsReplay
  <2>2. ~(r1.last < r2.last) /\ ~(r2.last < r1.last)
    BY <1>3, <2>1 DEF IsReplay
  <2>3. r1.last = r2.last
    BY <2>1, <2>2
  <2> QED BY <1>3, <2>3 DEF IsReplay
<1> QED BY <1>1, <1>2, <1>3

\* It is the same row up to an earlier point that has passed its last fill.
LEMMA ReplayUpTo ==
  ASSUME NEW w, NEW c, NEW row \in Row, NEW n \in Nat, NEW m \in Nat,
         m <= n, row.last <= m, IsReplay(w, c, row, n)
  PROVE  IsReplay(w, c, row, m)
BY DEF IsReplay

\* It is the same row up to a later point when no fill of w in c comes between.
LEMMA ReplayOnTo ==
  ASSUME NEW w, NEW c, NEW row \in Row, NEW n \in Nat, NEW m \in Nat,
         m <= n, IsReplay(w, c, row, m), \A k \in (m + 1)..n : ~Moves(k, w, c)
  PROVE  IsReplay(w, c, row, n)
<1>1. CASE row = NoRow /\ \A k \in 1..m : ~Moves(k, w, c)
  <2>1. \A k \in 1..n : k \in 1..m \/ k \in (m + 1)..n
    OBVIOUS
  <2> QED BY <1>1, <2>1 DEF IsReplay
<1>2. CASE row.last \in 1..m
  <2>1. \A k \in (row.last + 1)..n : k \in (row.last + 1)..m \/ k \in (m + 1)..n
    BY <1>2
  <2>2. row.last \in 1..n /\ row # NoRow
    BY <1>2 DEF NoRow
  <2> QED BY <1>2, <2>1, <2>2 DEF IsReplay
<1> QED BY <1>1, <1>2 DEF IsReplay

\* Projecting the next fill onto it gives the row of that fill.
LEMMA ReplayStep ==
  ASSUME TypeOK, HistoryChain, NEW n \in 1..Len(journal), NEW row \in Row,
         IsReplay(journal[n].wallet, journal[n].coin, row, n - 1)
  PROVE  /\ Project(row, journal[n].delta, n) = after[n]
         /\ IsReplay(journal[n].wallet, journal[n].coin, after[n], n)
<1> DEFINE w == journal[n].wallet
           c == journal[n].coin
<1>1. n \in Nat /\ n - 1 \in Nat /\ Len(after) = Len(journal)
  BY JournalType DEF HistoryChain
<1>2. PICK prior \in {NoRow} \cup {after[m] : m \in 1..(n - 1)} :
        IsReplay(w, c, prior, n - 1) /\ after[n] = Project(prior, journal[n].delta, n)
  BY DEF HistoryChain
<1>3. prior \in Row
  BY <1>1, NoRowsType, JournalType
<1>4. prior = row
  BY <1>1, <1>2, <1>3, ReplayUnique
<1>5. after[n].last = n /\ n \in 1..n
  BY <1>1 DEF HistoryChain
<1>6. Moves(n, w, c)
  BY DEF Moves
<1>7. \A k \in (n + 1)..n : ~Moves(k, w, c)
  BY <1>1
<1> QED BY <1>2, <1>4, <1>5, <1>6, <1>7 DEF IsReplay

\* A step that leaves the journal alone leaves replays alone.
LEMMA ReplayKept ==
  ASSUME UNCHANGED <<journal, after>>, NEW w, NEW c, NEW row, NEW n
  PROVE  IsReplay(w, c, row, n)' <=> IsReplay(w, c, row, n)
BY DEF IsReplay, Moves

LEMMA AreReplayKept ==
  ASSUME UNCHANGED <<journal, after>>
  PROVE  /\ HistoryChain => HistoryChain'
         /\ \A w, rows, n : AreReplay(w, rows, n) => (\A c \in Coins : IsReplay(w, c, rows[c], n)')
         /\ \A w, shot : ShotReplays(w, shot) /\ shot.sound =>
                            /\ shot.last <= Len(journal')
                            /\ \A c \in Coins : IsReplay(w, c, shot.rows[c], shot.last)'
<1>1. HistoryChain => HistoryChain'
  BY DEF HistoryChain, IsReplay, Moves
<1> QED BY <1>1, ReplayKept DEF AreReplay, ShotReplays

\* A new fill leaves replays up to an earlier point alone.
LEMMA ReplayBelow ==
  ASSUME TypeOK, HistoryChain, NEW f, journal' = Append(journal, f),
         NEW r, after' = Append(after, r),
         NEW w, NEW c, NEW row, NEW n \in Nat, n <= Len(journal), IsReplay(w, c, row, n)
  PROVE  IsReplay(w, c, row, n)'
<1>1. \A k \in 1..n : journal'[k] = journal[k] /\ after'[k] = after[k]
  BY JournalType DEF TypeOK, HistoryChain
<1>2. CASE row = NoRow /\ \A k \in 1..n : ~Moves(k, w, c)
  BY <1>1, <1>2 DEF IsReplay, Moves
<1>3. CASE /\ row.last \in 1..n /\ Moves(row.last, w, c) /\ row = after[row.last]
           /\ \A k \in (row.last + 1)..n : ~Moves(k, w, c)
  <2>1. \A k \in (row.last + 1)..n : k \in 1..n
    BY <1>3
  <2> QED BY <1>1, <1>3, <2>1 DEF IsReplay, Moves
<1> QED BY <1>2, <1>3 DEF IsReplay
-----------------------------------------------------------------------------
(* The inductive invariant.                                                *)

LEMMA InitIInv == Init => IInv
<1> SUFFICES ASSUME Init PROVE IInv
  OBVIOUS
<1>1. TypeOK
  BY NoRowsType DEF Init, TypeOK, Statuses, Settling, Inactive
<1>2. Len(journal) = 0 /\ Len(after) = 0
  BY DEF Init
<1>3. HistoryChain /\ LifecycleIndexIsReplay
  BY <1>2 DEF HistoryChain, LifecycleIndexIsReplay
<1>4. \A w, c : IsReplay(w, c, NoRow, 0)
  BY DEF IsReplay
<1>5. RefReplays /\ ProjReplays
  BY <1>2, <1>4 DEF Init, RefReplays, ProjReplays, AreReplay, NoRows
<1>6. SnapReplays /\ TxReplays
  BY DEF Init, SnapReplays, TxReplays
<1> QED BY <1>1, <1>3, <1>5, <1>6 DEF IInv

\* A sound projection is the replay itself.
LEMMA SoundRow ==
  ASSUME IInv, NEW w \in Wallets, NEW c \in Coins, sound[w]
  PROVE  proj[w][c] = ref[w][c]
<1>1. proj[w][c] \in Row /\ ref[w][c] \in Row /\ Len(journal) \in Nat
  BY JournalType DEF IInv, TypeOK, Rows
<1>2. IsReplay(w, c, proj[w][c], Len(journal)) /\ IsReplay(w, c, ref[w][c], Len(journal))
  BY DEF IInv, ProjReplays, RefReplays, AreReplay
<1> QED BY <1>1, <1>2, ReplayUnique DEF IInv

\* A step that touches neither the journal nor the lifecycle index nor the
\* history keeps what they say of each other.
LEMMA IndexKept ==
  ASSUME IInv, UNCHANGED <<journal, after, tags, tagsSound, ref>>
  PROVE  HistoryChain' /\ RefReplays' /\ LifecycleIndexIsReplay'
<1>1. HistoryChain' /\ LifecycleIndexIsReplay'
  BY AreReplayKept DEF IInv, LifecycleIndexIsReplay
<1>2. RefReplays'
  BY AreReplayKept DEF IInv, RefReplays, AreReplay
<1> QED BY <1>1, <1>2

\* The journal handler: the fill extends the journal, the history and the row.
LEMMA IngestFillIInv ==
  ASSUME IInv, TypeOK', NEW f \in Fill, IngestFill(f)
  PROVE  IInv'
<1>0. PICK N \in Nat : N = Len(journal)
  BY JournalType DEF IInv
<1> DEFINE w == f.wallet
           c == f.coin
           seq == N + 1
           row == Project(proj[w][c], f.delta, seq)
<1> PICK pure : pure = Project(ref[w][c], f.delta, seq)
  OBVIOUS
<1>1. TypeOK /\ HistoryChain /\ Len(journal) = N /\ Len(after) = N
  BY <1>0, JournalType DEF IInv, HistoryChain
<1>2. w \in Wallets /\ c \in Coins /\ f.delta \in Int /\ pure \in Row
  BY <1>1, FillType, ProjectType DEF TypeOK, Rows
<1>3. journal' = Append(journal, f) /\ after' = Append(after, pure) /\ Len(journal') = seq
  <2>1. journal' = Append(journal, f) /\ after' = Append(after, pure)
    BY <1>1 DEF IngestFill
  <2>2. journal \in Seq(Fill)
    BY <1>1 DEF TypeOK
  <2> QED BY <1>1, <2>1, <2>2
<1>4. /\ \A n \in 1..N : journal'[n] = journal[n] /\ after'[n] = after[n]
      /\ journal'[seq] = f /\ after'[seq] = pure /\ Len(after') = seq
  BY <1>1, <1>2, <1>3 DEF TypeOK
<1>5. pure.last = seq
  BY DEF Project
<1>6. ref' = [ref EXCEPT ![w][c] = pure] /\ proj' = [proj EXCEPT ![w][c] = row]
  BY <1>0 DEF IngestFill
<1> HIDE DEF row
<1>7. \A v, d, r : \A n \in 0..N : IsReplay(v, d, r, n) => IsReplay(v, d, r, n)'
  BY <1>1, <1>3, ReplayBelow
<1>8. ASSUME NEW v, NEW d, NEW r, ~(v = w /\ d = c), IsReplay(v, d, r, N)
      PROVE  IsReplay(v, d, r, seq)'
  <2>1. ~Moves(seq, v, d)'
    BY <1>4, <1>8 DEF Moves
  <2>2. IsReplay(v, d, r, N)'
    BY <1>1, <1>7, <1>8
  <2>3. \A k \in 1..seq : k = seq \/ k \in 1..N
    BY <1>1
  <2>4. ASSUME r.last \in 1..N
        PROVE  \A k \in (r.last + 1)..seq : k = seq \/ k \in (r.last + 1)..N
    BY <1>1, <2>4
  <2>5. r.last \in 1..N => r.last \in 1..seq
    BY <1>1
  <2> QED BY <1>1, <2>1, <2>2, <2>3, <2>4, <2>5 DEF IsReplay
<1>9. IsReplay(w, c, pure, seq)'
  BY <1>1, <1>4, <1>5, SMTT(30) DEF IsReplay, Moves
<1>10. HistoryChain'
  <2>1. ASSUME NEW n \in 1..N
        PROVE  /\ after'[n].last = n
               /\ \E r \in {NoRow} \cup {after'[m] : m \in 1..(n - 1)} :
                    /\ IsReplay(journal[n].wallet, journal[n].coin, r, n - 1)'
                    /\ after'[n] = Project(r, journal'[n].delta, n)
    <3>1. PICK r \in {NoRow} \cup {after[m] : m \in 1..(n - 1)} :
            /\ IsReplay(journal[n].wallet, journal[n].coin, r, n - 1)
            /\ after[n] = Project(r, journal[n].delta, n)
      BY <1>1 DEF HistoryChain
    <3>2. r \in {NoRow} \cup {after'[m] : m \in 1..(n - 1)}
      BY <1>1, <1>4
    <3>3. n - 1 \in 0..Len(journal)
      BY <1>1
    <3>4. IsReplay(journal[n].wallet, journal[n].coin, r, n - 1)'
      BY <1>1, <1>4, <1>7, <3>1, <3>3
    <3> QED BY <1>1, <1>4, <3>1, <3>2, <3>4 DEF HistoryChain
  <2>2. /\ after'[seq].last = seq
        /\ \E r \in {NoRow} \cup {after'[m] : m \in 1..(seq - 1)} :
             /\ IsReplay(journal[seq].wallet, journal[seq].coin, r, seq - 1)'
             /\ after'[seq] = Project(r, journal'[seq].delta, seq)
    <3> PICK old : old = ref[w][c]
      OBVIOUS
    <3>1. seq - 1 = N /\ N \in 0..N
      BY <1>0
    <3>2. IsReplay(w, c, old, N)
      BY <1>1, <1>2 DEF IInv, RefReplays, AreReplay
    <3>3. old \in {NoRow} \cup {after'[m] : m \in 1..(seq - 1)}
      BY <1>1, <1>4, <3>1, <3>2, SMTT(30) DEF IsReplay
    <3>4. IsReplay(w, c, old, seq - 1)'
      BY <1>7, <3>1, <3>2
    <3> QED BY <1>4, <1>5, <3>3, <3>4
  <2>3. \A n \in 1..Len(journal') : n = seq \/ n \in 1..N
    BY <1>1, <1>3
  <2> QED BY <1>3, <1>4, <2>1, <2>2, <2>3 DEF HistoryChain
<1>11. RefReplays'
  <2>1. ASSUME NEW v \in Wallets, NEW d \in Coins
        PROVE  IsReplay(v, d, ref[v][d], seq)'
    <3>1. CASE v = w /\ d = c
      <4>1. ref'[v][d] = pure
        BY <1>1, <1>2, <1>6, <3>1 DEF TypeOK, Rows
      <4> QED BY <1>9, <3>1, <4>1
    <3>2. CASE ~(v = w /\ d = c)
      <4>1. ref'[v][d] = ref[v][d]
        BY <1>1, <1>2, <1>6, <3>2 DEF TypeOK, Rows
      <4>2. IsReplay(v, d, ref[v][d], N)
        BY <1>1 DEF IInv, RefReplays, AreReplay
      <4> QED BY <1>8, <3>2, <4>1, <4>2
    <3> QED BY <3>1, <3>2
  <2> QED BY <1>3, <2>1 DEF RefReplays, AreReplay
<1>12. ProjReplays'
  <2>1. ASSUME NEW v \in Wallets, NEW d \in Coins, sound'[v]
        PROVE  IsReplay(v, d, proj[v][d], seq)'
    <3>1. sound[v]
      BY <2>1 DEF IngestFill
    <3>2. CASE v = w /\ d = c
      <4>1. proj'[v][d] = row
        BY <1>1, <1>2, <1>6, <3>2 DEF TypeOK, Rows
      <4>2. row = pure
        BY <1>2, <3>1, <3>2, SoundRow DEF row
      <4> QED BY <1>9, <3>2, <4>1, <4>2
    <3>3. CASE ~(v = w /\ d = c)
      <4>1. proj'[v][d] = proj[v][d]
        BY <1>1, <1>2, <1>6, <3>3 DEF TypeOK, Rows
      <4>2. IsReplay(v, d, proj[v][d], N)
        BY <1>1, <3>1 DEF IInv, ProjReplays, AreReplay
      <4> QED BY <1>8, <3>3, <4>1, <4>2
    <3> QED BY <3>2, <3>3
  <2> QED BY <1>3, <2>1 DEF ProjReplays, AreReplay
<1>13. SnapReplays' /\ TxReplays'
  <2>1. ASSUME NEW v, NEW shot \in Snapshot, ShotReplays(v, shot)
        PROVE  ShotReplays(v, shot)'
    <3>1. shot.sound => shot.last \in 0..N /\ shot.last <= Len(journal')
      BY <1>1, <1>3, <2>1 DEF ShotReplays, Snapshot
    <3> QED BY <1>7, <2>1, <3>1 DEF ShotReplays, AreReplay
  <2>2. ASSUME NEW v \in Wallets, snap'[v] # Nil PROVE ShotReplays(v, snap[v])'
    BY <1>1, <2>1, <2>2 DEF IngestFill, IInv, SnapReplays, TypeOK
  <2>3. ASSUME NEW r \in Requests, request'[r] # Nil
        PROVE  ShotReplays(request[r].wallet, request[r].shot)'
    BY <1>1, <2>1, <2>3 DEF IngestFill, IInv, SnapReplays, TypeOK
  <2>4. snap' = snap /\ request' = request /\ tx' = Nil
    BY DEF IngestFill
  <2> QED BY <2>2, <2>3, <2>4 DEF SnapReplays, TxReplays
<1>14. LifecycleIndexIsReplay'
  <2>1. ASSUME NEW n \in 1..N, tagsSound'[journal'[n].wallet]
        PROVE  tags'[n] = after'[n].lifecycle
    <3>1. journal[n] \in Fill /\ n # seq
      BY <1>1, JournalType
    <3>2. tagsSound[journal[n].wallet]
      BY <1>1, <1>2, <1>4, <2>1, <3>1, FillType, ZenonT(60) DEF IngestFill, TypeOK
    <3>3. tags'[n] = tags[n]
      BY <1>1 DEF IngestFill, Tag, TypeOK
    <3> QED BY <1>1, <1>4, <3>2, <3>3 DEF IInv, LifecycleIndexIsReplay
  <2>2. ASSUME tagsSound'[w] PROVE tags'[seq] = pure.lifecycle
    <3>1. sound[w]
      BY <1>1, <1>2, <2>2 DEF IngestFill, TypeOK
    <3>2. row = pure
      BY <1>2, <3>1, SoundRow DEF row
    <3>3. tags' = Tag(tags, seq, row.lifecycle) /\ seq \notin DOMAIN tags
      <4>1. tags' = Tag(tags, seq, row.lifecycle)
        BY <1>1 DEF IngestFill, row
      <4>2. tags \in [1..N -> Nat]
        BY <1>1 DEF TypeOK
      <4> QED BY <4>1, <4>2
    <3> QED BY <3>2, <3>3 DEF Tag
  <2>3. \A n \in 1..Len(journal') : n = seq \/ n \in 1..N
    BY <1>1, <1>3
  <2> QED BY <1>4, <2>1, <2>2, <2>3 DEF LifecycleIndexIsReplay
<1> QED BY <1>10, <1>11, <1>12, <1>13, <1>14 DEF IInv

\* snapshot, its read: rows that replay the journal replay it up to the
\* largest last_sequence among them as well.
LEMMA SnapshotReadIInv ==
  ASSUME IInv, TypeOK', NEW r \in Requests, NEW w \in Wallets, SnapshotRead(r, w)
  PROVE  IInv'
<1>1. PICK n \in {proj[w][c].last : c \in Coins} :
        /\ IsLast(proj[w], n)
        /\ request' = [request EXCEPT ![r] =
             [wallet |-> w, shot |-> [rows |-> proj[w], last |-> n, sound |-> sound[w]]]]
  BY DEF SnapshotRead
<1>2. UNCHANGED <<journal, after, tags, tagsSound, ref, proj, sound, snap, tx>>
  BY DEF SnapshotRead
<1>3. HistoryChain' /\ RefReplays' /\ LifecycleIndexIsReplay'
  BY <1>2, IndexKept
<1>4. ProjReplays' /\ TxReplays'
  BY <1>2, AreReplayKept DEF IInv, ProjReplays, TxReplays, AreReplay
<1>5. n \in Nat /\ Len(journal) \in Nat
  BY JournalType, SMTT(30) DEF IInv, TypeOK, Rows, Row
<1>6. \A c \in Coins : proj[w][c] \in Row
  BY DEF IInv, TypeOK, Rows
<1>7. ASSUME sound[w]
      PROVE  n <= Len(journal) /\ AreReplay(w, proj[w], n)
  <2>1. \A c \in Coins : IsReplay(w, c, proj[w][c], Len(journal))
    BY <1>7 DEF IInv, ProjReplays, AreReplay
  <2>2. \A c \in Coins : proj[w][c].last <= Len(journal)
    BY <1>5, <2>1 DEF IsReplay, NoRow
  <2>3. n <= Len(journal)
    BY <1>1, <2>2
  <2>4. \A c \in Coins : proj[w][c].last <= n
    BY <1>1 DEF IsLast
  <2> QED BY <1>5, <1>6, <2>1, <2>3, <2>4, ReplayUpTo DEF AreReplay
<1>8. SnapReplays'
  <2>1. \A v \in Wallets : snap'[v] # Nil => ShotReplays(v, snap[v])'
    BY <1>2, AreReplayKept DEF IInv, SnapReplays, ShotReplays, AreReplay
  <2>2. ASSUME NEW q \in Requests, q # r, request'[q] # Nil
        PROVE  ShotReplays(request[q].wallet, request[q].shot)'
    <3>1. request'[q] = request[q]
      BY <1>1, <2>2
    <3> QED BY <1>2, <2>2, <3>1, AreReplayKept DEF IInv, SnapReplays, ShotReplays, AreReplay
  <2>3. ShotReplays(request[r].wallet, request[r].shot)'
    <3>1. request'[r] = [wallet |-> w, shot |-> [rows |-> proj[w], last |-> n, sound |-> sound[w]]]
      BY <1>1 DEF IInv, TypeOK
    <3>2. sound[w] => \A c \in Coins : IsReplay(w, c, proj[w][c], n)'
      BY <1>2, <1>7, AreReplayKept DEF AreReplay
    <3> QED BY <1>2, <1>7, <3>1, <3>2 DEF ShotReplays, AreReplay
  <2> QED BY <2>1, <2>2, <2>3 DEF SnapReplays
<1> QED BY <1>3, <1>4, <1>8 DEF IInv

\* snapshot, its insert: what was read is still a replay, however late.
LEMMA SnapshotInsertIInv ==
  ASSUME IInv, TypeOK', NEW r \in Requests, SnapshotInsert(r)
  PROVE  IInv'
<1>1. UNCHANGED <<journal, after, tags, tagsSound, ref, proj, sound, tx>>
  BY DEF SnapshotInsert
<1>2. HistoryChain' /\ RefReplays' /\ LifecycleIndexIsReplay'
  BY <1>1, IndexKept
<1>3. ProjReplays' /\ TxReplays'
  BY <1>1, AreReplayKept DEF IInv, ProjReplays, TxReplays, AreReplay
<1>4. \A v \in Wallets : snap'[v] # Nil => ShotReplays(v, snap[v])'
  <2> SUFFICES ASSUME NEW v \in Wallets, snap'[v] # Nil PROVE ShotReplays(v, snap[v])'
    OBVIOUS
  <2>1. CASE v = request[r].wallet /\ snap'[v] = request[r].shot
    BY <1>1, <2>1, AreReplayKept DEF SnapshotInsert, IInv, SnapReplays, ShotReplays, AreReplay
  <2>2. CASE snap'[v] = snap[v]
    BY <1>1, <2>2, AreReplayKept DEF IInv, SnapReplays, ShotReplays, AreReplay
  <2> QED BY <2>1, <2>2 DEF SnapshotInsert, IInv, TypeOK
<1>5. \A q \in Requests : request'[q] # Nil => ShotReplays(request[q].wallet, request[q].shot)'
  <2> SUFFICES ASSUME NEW q \in Requests, request'[q] # Nil
               PROVE  ShotReplays(request[q].wallet, request[q].shot)'
    OBVIOUS
  <2>1. request'[q] = request[q]
    BY DEF SnapshotInsert, IInv, TypeOK
  <2> QED BY <1>1, <2>1, AreReplayKept DEF IInv, SnapReplays, ShotReplays, AreReplay
<1> QED BY <1>2, <1>3, <1>4, <1>5 DEF IInv, SnapReplays

\* recover, its base: the snapshot's rows, or no rows, replay up to the cursor.
LEMMA RecoverBeginIInv ==
  ASSUME IInv, TypeOK', NEW w \in Wallets, RecoverBegin(w)
  PROVE  IInv'
<1>1. UNCHANGED <<journal, after, tags, tagsSound, ref, proj, sound, snap, request>>
  BY DEF RecoverBegin
<1>2. HistoryChain' /\ RefReplays' /\ LifecycleIndexIsReplay'
  BY <1>1, IndexKept
<1>3. ProjReplays' /\ SnapReplays'
  BY <1>1, AreReplayKept DEF IInv, ProjReplays, SnapReplays, ShotReplays, AreReplay
<1>4. TxReplays'
  <2>1. CASE snap[w] # Nil
    BY <1>1, <2>1, AreReplayKept
    DEF RecoverBegin, IInv, SnapReplays, ShotReplays, TxReplays, AreReplay
  <2>2. CASE snap[w] = Nil
    <3>1. /\ tx'.wallet = w /\ tx'.tags = tags' /\ tx'.cursor = 0
          /\ tx'.sound => tx'.rows = NoRows
      BY <1>1, <2>2 DEF RecoverBegin
    <3>2. \A c \in Coins : NoRows[c] = NoRow
      BY DEF NoRows
    <3>3. 0 <= Len(journal') /\ 1..0 = {}
      BY <1>1, JournalType DEF IInv
    <3> QED BY <3>1, <3>2, <3>3 DEF TxReplays, AreReplay, IsReplay
  <2> QED BY <2>1, <2>2
<1> QED BY <1>2, <1>3, <1>4 DEF IInv

\* recover, its loop: the next event of the wallet, projected onto a replay up
\* to the cursor, is a replay up to that event; its tag is there already.
LEMMA RecoverReplayIInv ==
  ASSUME IInv, TypeOK', RecoverReplay
  PROVE  IInv'
<1>1. UNCHANGED <<journal, after, tags, tagsSound, ref, proj, sound, snap, request>>
  BY DEF RecoverReplay
<1>2. HistoryChain' /\ RefReplays' /\ LifecycleIndexIsReplay'
  BY <1>1, IndexKept
<1>3. ProjReplays' /\ SnapReplays'
  BY <1>1, AreReplayKept DEF IInv, ProjReplays, SnapReplays, ShotReplays, AreReplay
<1>4. TxReplays'
  <2>1. PICK n \in Pending(tx.wallet, tx.cursor) :
          LET c == journal[n].coin
              row == Project(tx.rows[c], journal[n].delta, n)
          IN /\ \A k \in Pending(tx.wallet, tx.cursor) : n <= k
             /\ tx' = [wallet |-> tx.wallet, rows |-> [tx.rows EXCEPT ![c] = row],
                       tags |-> Tag(tx.tags, n, row.lifecycle), cursor |-> n,
                       sound |-> tx.sound]
    BY DEF RecoverReplay
  <2> PICK w, c : w = tx.wallet /\ c = journal[n].coin
    OBVIOUS
  <2> PICK row : row = Project(tx.rows[c], journal[n].delta, n)
    OBVIOUS
  <2>2. tx \in [wallet : Wallets, rows : Rows, tags : [1..Len(journal) -> Nat],
                cursor : Nat, sound : BOOLEAN] /\ TypeOK /\ HistoryChain
    BY DEF RecoverReplay, IInv, TypeOK
  <2>3. /\ n \in 1..Len(journal) /\ n \in Nat /\ n - 1 \in Nat /\ n > tx.cursor
        /\ journal[n].wallet = w /\ c \in Coins /\ Len(journal) \in Nat
    BY <2>2, JournalType, FillType DEF Pending
  <2>4. \A k \in (tx.cursor + 1)..(n - 1) : journal[k].wallet # w
    BY <2>1, <2>2, <2>3 DEF Pending
  <2>5. tx' = [wallet |-> w, rows |-> [tx.rows EXCEPT ![c] = row],
               tags |-> Tag(tx.tags, n, row.lifecycle), cursor |-> n, sound |-> tx.sound]
    BY <2>1
  <2>6. /\ tx'.wallet = w /\ tx'.cursor = n /\ (tx'.sound => tx.sound)
        /\ tx'.rows = [tx.rows EXCEPT ![c] = row] /\ tx'.tags = Tag(tx.tags, n, row.lifecycle)
    <3>1. tx'.sound = tx.sound
      BY <2>5, Zenon
    <3> QED BY <2>5, <3>1
  <2>7. tx'.tags = tags'
    <3>1. tx.tags = tags /\ tags \in [1..Len(journal) -> Nat]
      BY <2>2 DEF RecoverReplay, IInv, TxReplays, TypeOK
    <3>2. Tag(tags, n, row.lifecycle) = tags
      BY <2>3, <3>1 DEF Tag
    <3> QED BY <1>1, <2>6, <3>1, <3>2
  <2>8. ASSUME tx.sound, NEW d \in Coins
        PROVE  IsReplay(w, d, tx'.rows[d], n)
    <3>1. IsReplay(w, d, tx.rows[d], tx.cursor) /\ tx.rows[d] \in Row
      BY <2>2, <2>8 DEF RecoverReplay, IInv, TxReplays, AreReplay, Rows
    <3>2. \A k \in (tx.cursor + 1)..(n - 1) : ~Moves(k, w, d)
      BY <2>4 DEF Moves
    <3>3. IsReplay(w, d, tx.rows[d], n - 1)
      BY <2>2, <2>3, <3>1, <3>2, ReplayOnTo
    <3>4. CASE d = c
      <4>1. row = after[n] /\ IsReplay(w, c, after[n], n)
        BY <2>2, <2>3, <3>1, <3>3, <3>4, ReplayStep
      <4>2. tx'.rows[d] = row
        BY <2>2, <2>3, <2>6, <3>4 DEF Rows
      <4> QED BY <3>4, <4>1, <4>2
    <3>5. CASE d # c
      <4>1. tx'.rows[d] = tx.rows[d]
        BY <2>2, <2>6, <3>5 DEF Rows
      <4>2. \A k \in (n - 1 + 1)..n : ~Moves(k, w, d)
        BY <2>3, <3>5 DEF Moves
      <4>3. IsReplay(w, d, tx.rows[d], n)
        BY <2>3, <3>1, <3>3, <4>2, ReplayOnTo
      <4> QED BY <4>1, <4>3
    <3> QED BY <3>4, <3>5
  <2>9. tx'.sound => \A d \in Coins : IsReplay(w, d, tx.rows[d], n)'
    BY <1>1, <2>6, <2>8, ZenonT(60) DEF IsReplay, Moves
  <2>10. n <= Len(journal')
    BY <1>1, <2>3
  <2> QED BY <2>6, <2>7, <2>9, <2>10 DEF TxReplays, AreReplay
<1> QED BY <1>2, <1>3, <1>4 DEF IInv

\* recover, its commit: nothing of the wallet is left after the cursor.
LEMMA RecoverCommitIInv ==
  ASSUME IInv, TypeOK', NEW supplied, RecoverCommit(supplied)
  PROVE  IInv'
<1>1. /\ UNCHANGED <<journal, after, tagsSound, ref, snap, request>>
      /\ tx # Nil /\ tx' = Nil /\ tags' = tx.tags
      /\ proj' = [proj EXCEPT ![tx.wallet] = tx.rows]
      /\ sound' = [sound EXCEPT ![tx.wallet] = tx.sound]
      /\ Pending(tx.wallet, tx.cursor) = {}
  BY DEF RecoverCommit
<1>2. tags' = tags /\ TxReplays'
  BY <1>1 DEF IInv, TxReplays
<1>3. HistoryChain' /\ RefReplays' /\ LifecycleIndexIsReplay'
  BY <1>1, <1>2, IndexKept
<1>4. SnapReplays'
  BY <1>1, AreReplayKept DEF IInv, SnapReplays, ShotReplays, AreReplay
<1>5. ProjReplays'
  <2> SUFFICES ASSUME NEW w \in Wallets, sound'[w], NEW c \in Coins
               PROVE  IsReplay(w, c, proj[w][c], Len(journal))'
    BY DEF ProjReplays, AreReplay
  <2>1. CASE w = tx.wallet
    <3>1. /\ tx \in [wallet : Wallets, rows : Rows, tags : [1..Len(journal) -> Nat],
                     cursor : Nat, sound : BOOLEAN]
          /\ Len(journal) \in Nat
      BY <1>1, JournalType DEF IInv, TypeOK
    <3>2. tx.sound /\ proj'[w] = tx.rows
      BY <1>1, <2>1 DEF IInv, TypeOK
    <3>3. tx.cursor <= Len(journal) /\ IsReplay(w, c, tx.rows[c], tx.cursor)
      BY <1>1, <2>1, <3>2 DEF IInv, TxReplays, AreReplay
    <3>4. \A k \in (tx.cursor + 1)..Len(journal) : ~Moves(k, w, c)
      BY <1>1, <2>1 DEF Pending, Moves
    <3>5. IsReplay(w, c, tx.rows[c], Len(journal))
      BY <3>1, <3>3, <3>4, ReplayOnTo DEF Rows
    <3> QED BY <1>1, <3>2, <3>5 DEF IsReplay, Moves
  <2>2. CASE w # tx.wallet
    <3>1. proj'[w] = proj[w] /\ sound[w]
      BY <1>1, <2>2 DEF IInv, TypeOK
    <3>2. IsReplay(w, c, proj[w][c], Len(journal))
      BY <3>1 DEF IInv, ProjReplays, AreReplay
    <3> QED BY <1>1, <3>1, <3>2 DEF IsReplay, Moves
  <2> QED BY <2>1, <2>2
<1> QED BY <1>2, <1>3, <1>4, <1>5 DEF IInv

\* PURGE: an emptied projection is no longer called sound.
LEMMA PurgeIInv ==
  ASSUME IInv, TypeOK', NEW w \in Wallets, PurgeWallet(w)
  PROVE  IInv'
<1>1. UNCHANGED <<journal, after, tags, tagsSound, ref, request, tx>>
  BY DEF PurgeWallet
<1>2. HistoryChain' /\ RefReplays' /\ LifecycleIndexIsReplay' /\ TxReplays'
  BY <1>1, IndexKept, AreReplayKept DEF IInv, TxReplays, AreReplay
<1>3. ProjReplays'
  <2>1. ASSUME NEW v \in Wallets, sound'[v] PROVE sound[v] /\ proj'[v] = proj[v]
    BY <2>1 DEF PurgeWallet, IInv, TypeOK
  <2> QED BY <1>1, <2>1, AreReplayKept DEF IInv, ProjReplays, AreReplay
<1>4. SnapReplays'
  <2>1. ASSUME NEW v \in Wallets, snap'[v] # Nil PROVE snap'[v] = snap[v]
    BY <2>1 DEF PurgeWallet, IInv, TypeOK
  <2> QED BY <1>1, <2>1, AreReplayKept DEF IInv, SnapReplays, ShotReplays, AreReplay
<1> QED BY <1>2, <1>3, <1>4 DEF IInv

\* Steps that touch no table of this argument, or only drop what was in flight.
LEMMA OtherStepsIInv ==
  ASSUME IInv, TypeOK',
         UNCHANGED <<journal, after, tags, tagsSound, ref, proj, sound, snap>>,
         \A r \in Requests : request'[r] \in {Nil, request[r]},
         tx' \in {Nil, tx}
  PROVE  IInv'
<1>1. HistoryChain' /\ RefReplays' /\ LifecycleIndexIsReplay'
  BY IndexKept
<1>2. ProjReplays' /\ TxReplays'
  BY AreReplayKept DEF IInv, ProjReplays, TxReplays, AreReplay
<1>3. SnapReplays'
  BY AreReplayKept DEF IInv, SnapReplays, ShotReplays, AreReplay
<1> QED BY <1>1, <1>2, <1>3 DEF IInv

\* Every step keeps it: rows, snapshots and the open recovery are replays of the
\* journal up to a point that none of them has passed (engine.py:69-155).
THEOREM Inductive == Spec => []IInv
<1>1. IInv /\ TypeOK' /\ [Next]_vars => IInv'
  <2> SUFFICES ASSUME IInv, TypeOK', [Next]_vars PROVE IInv'
    OBVIOUS
  <2>1. ASSUME NEW w \in Wallets, AddWallet(w) \/ RemoveWallet(w) PROVE IInv'
    BY <2>1, OtherStepsIInv DEF AddWallet, RemoveWallet
  <2>2. ASSUME NEW w \in Wallets, NEW command \in Commands, CommandWallet(w, command)
        PROVE IInv'
    BY <2>2, OtherStepsIInv DEF CommandWallet
  <2>3. ASSUME NEW w \in Wallets, PurgeWallet(w) PROVE IInv'
    BY <2>3, PurgeIInv
  <2>4. ASSUME NEW w \in Wallets, NEW r \in Requests, SnapshotRead(r, w) PROVE IInv'
    BY <2>4, SnapshotReadIInv
  <2>5. ASSUME NEW w \in Wallets, RecoverBegin(w) PROVE IInv'
    BY <2>5, RecoverBeginIInv
  <2>6. ASSUME NEW f \in Fill, IngestFill(f) PROVE IInv'
    BY <2>6, IngestFillIInv
  <2>7. ASSUME NEW r \in Requests, SnapshotInsert(r) PROVE IInv'
    BY <2>7, SnapshotInsertIInv
  <2>8. ASSUME RecoverReplay PROVE IInv'
    BY <2>8, RecoverReplayIInv
  <2>9. ASSUME NEW supplied, RecoverCommit(supplied) PROVE IInv'
    BY <2>9, RecoverCommitIInv
  <2>10. ASSUME RecoverRollback PROVE IInv'
    BY <2>10, OtherStepsIInv DEF RecoverRollback
  <2>11. ASSUME Crash PROVE IInv'
    BY <2>11, OtherStepsIInv DEF Crash
  <2>12. ASSUME UNCHANGED vars PROVE IInv'
    BY <2>12, OtherStepsIInv DEF vars
  <2> QED
    BY <2>1, <2>2, <2>3, <2>4, <2>5, <2>6, <2>7, <2>8, <2>9, <2>10, <2>11, <2>12 DEF Next
<1> QED
  BY <1>1, InitIInv, TypeCorrect, PTL DEF Spec

-----------------------------------------------------------------------------
(* What follows from it.                                                   *)

LEMMA SoundRows == ASSUME IInv PROVE ProjectionIsReplay
<1> SUFFICES ASSUME NEW w \in Wallets, sound[w] PROVE proj[w] = ref[w]
  BY DEF ProjectionIsReplay
<1>1. \A c \in Coins : proj[w][c] = ref[w][c]
  BY SoundRow
<1>2. proj[w] \in [Coins -> Row] /\ ref[w] \in [Coins -> Row]
  BY DEF IInv, TypeOK, Rows
<1> QED BY <1>1, <1>2

\* Whatever the wallets, coins, fills and requests: a projection that goes
\* back to an empty start is the replay of its journal, after any
\* interleaving of ingestion, late snapshots, recoveries and crashes.
THEOREM ProjectionCorrect == Spec => []ProjectionIsReplay
  BY Inductive, SoundRows, PTL

\* Under the same conditions the lifecycle index agrees with the replay.
THEOREM LifecycleIndexCorrect == Spec => []LifecycleIndexIsReplay
<1>1. IInv => LifecycleIndexIsReplay
  BY DEF IInv
<1> QED BY <1>1, Inductive, PTL

\* No step of any handler gives a fill another lifecycle.
THEOREM TagsCorrect == Spec => TagsImmutable
<1> DEFINE Kept == \A n \in DOMAIN tags : n \in DOMAIN tags' /\ tags'[n] = tags[n]
<1>1. IInv /\ [Next]_vars => Kept
  <2> SUFFICES ASSUME IInv, [Next]_vars PROVE Kept
    OBVIOUS
  <2>1. ASSUME NEW f \in Fill, IngestFill(f) PROVE Kept
    BY <2>1 DEF IngestFill, Tag
  <2>2. ASSUME NEW supplied, RecoverCommit(supplied) PROVE Kept
    BY <2>2 DEF RecoverCommit, IInv, TxReplays
  <2> QED
    BY <2>1, <2>2
    DEF Next, vars, AddWallet, RemoveWallet, PurgeWallet, CommandWallet, SnapshotRead,
        SnapshotInsert, RecoverBegin, RecoverReplay, RecoverRollback, Crash
<1>2. IInv /\ [Next]_vars => [Kept]_vars
  BY <1>1
<1> QED BY <1>2, Inductive, PTL DEF Spec, TagsImmutable
-----------------------------------------------------------------------------
(* The rows as sums.                                                       *)

\* The fills of w in c up to n.
UpTo(w, c, n) == {k \in Fills(w, c) : k <= n}

LEMMA FillsFinite ==
  ASSUME TypeOK, NEW w, NEW c
  PROVE  /\ Fills(w, c) \subseteq 1..Len(journal) /\ IsFiniteSet(Fills(w, c))
         /\ \A n : IsFiniteSet(UpTo(w, c, n)) /\ Integral(Sizes, UpTo(w, c, n))
         /\ \A n : SizeAfter(w, c, n) \in Int
<1>1. Fills(w, c) \subseteq 1..Len(journal) /\ Len(journal) \in Nat
  BY JournalType DEF Fills
<1>2. IsFiniteSet(Fills(w, c))
  <2>1. IsFiniteSet(1..Len(journal))
    <3>1. 1 \in Int /\ Len(journal) \in Int
      BY <1>1
    <3> QED BY <3>1, FS_Interval
  <2> QED BY <1>1, <2>1, FS_Subset
<1>3. \A n : UpTo(w, c, n) \subseteq Fills(w, c)
  BY DEF UpTo
<1>4. \A k \in 1..Len(journal) : Sizes[k] \in Int
  BY JournalType, FillType DEF Sizes
<1>5. \A n : IsFiniteSet(UpTo(w, c, n)) /\ Integral(Sizes, UpTo(w, c, n))
  BY <1>1, <1>2, <1>3, <1>4, FS_Subset DEF Integral
<1>6. ASSUME NEW n PROVE SizeAfter(w, c, n) \in Int
  <2>1. SizeAfter(w, c, n) = SumFunctionOnSet(Sizes, UpTo(w, c, n))
    BY DEF SizeAfter, UpTo
  <2> QED BY <1>5, <2>1, SumType
<1> QED BY <1>1, <1>2, <1>5, <1>6

LEMMA OpeningsFinite ==
  ASSUME TypeOK, NEW w, NEW c
  PROVE  Openings(w, c) \subseteq Fills(w, c) /\ IsFiniteSet(Openings(w, c))
<1>1. Openings(w, c) \subseteq Fills(w, c)
  BY DEF Openings
<1> QED BY <1>1, FillsFinite, FS_Subset

\* A fill at the end of the journal changes no size before it, and adds its own.
LEMMA SizesGrow ==
  ASSUME TypeOK, TypeOK', NEW f \in Fill, journal' = Append(journal, f), NEW w, NEW c,
         NEW n, n = Len(journal)
  PROVE  /\ Len(journal') = n + 1
         /\ Fills(w, c)' = IF f.wallet = w /\ f.coin = c
                           THEN Fills(w, c) \cup {n + 1} ELSE Fills(w, c)
         /\ \A m \in 0..n : SizeAfter(w, c, m)' = SizeAfter(w, c, m)
         /\ SizeAfter(w, c, n + 1)' =
              SizeAfter(w, c, n) + (IF f.wallet = w /\ f.coin = c THEN f.delta ELSE 0)
<1>1. /\ n \in Nat /\ Len(journal') = n + 1 /\ journal'[n + 1] = f
      /\ \A k \in 1..n : journal'[k] = journal[k]
  BY JournalType DEF TypeOK
<1>2. Fills(w, c)' = IF f.wallet = w /\ f.coin = c THEN Fills(w, c) \cup {n + 1} ELSE Fills(w, c)
  BY <1>1 DEF Fills
<1>3. \A k \in 1..n : Sizes'[k] = Sizes[k]
  BY <1>1 DEF Sizes
<1>4. Sizes'[n + 1] = f.delta /\ f.delta \in Int
  BY <1>1, FillType DEF Sizes
<1>5. \A m \in 0..n : UpTo(w, c, m)' = UpTo(w, c, m) /\ UpTo(w, c, m) \subseteq 1..n
  <2>1. \A k \in Fills(w, c) : k \in 1..n
    BY FillsFinite
  <2> QED BY <1>1, <1>2, <2>1 DEF UpTo
<1>6. ASSUME NEW m \in 0..n
      PROVE  SumFunctionOnSet(Sizes', UpTo(w, c, m)) = SumFunctionOnSet(Sizes, UpTo(w, c, m))
  <2>1. \A k \in UpTo(w, c, m) : Sizes'[k] = Sizes[k]
    BY <1>3, <1>5
  <2> QED BY <2>1, FillsFinite, SumAgree
<1>7. \A m \in 0..n : SizeAfter(w, c, m)' = SizeAfter(w, c, m)
  BY <1>5, <1>6 DEF SizeAfter, UpTo
<1>8. SizeAfter(w, c, n + 1)' = SumFunctionOnSet(Sizes', UpTo(w, c, n + 1)')
  BY <1>1 DEF SizeAfter, UpTo
<1>10. \A k \in Fills(w, c) : k \in 1..n /\ k <= n /\ k <= n + 1
  <2>1. \A k \in Fills(w, c) : k \in 1..n
    BY FillsFinite
  <2>2. \A k \in 1..n : k <= n /\ k <= n + 1
    BY <1>1
  <2> QED BY <2>1, <2>2
<1>9. SizeAfter(w, c, n + 1)' =
        SizeAfter(w, c, n) + (IF f.wallet = w /\ f.coin = c THEN f.delta ELSE 0)
  <2>0. /\ n \in 0..n /\ SizeAfter(w, c, n) \in Int
        /\ SizeAfter(w, c, n) = SumFunctionOnSet(Sizes, UpTo(w, c, n))
    <3>1. n \in 0..n
      BY <1>1
    <3>2. SizeAfter(w, c, n) = SumFunctionOnSet(Sizes, UpTo(w, c, n))
      BY DEF SizeAfter, UpTo
    <3> QED BY <3>1, <3>2, FillsFinite
  <2>1. CASE f.wallet = w /\ f.coin = c
    <3>1. UpTo(w, c, n + 1)' = UpTo(w, c, n) \cup {n + 1} /\ n + 1 \notin UpTo(w, c, n)
      <4>1. Fills(w, c)' = Fills(w, c) \cup {n + 1}
        BY <1>2, <2>1
      <4>2. UpTo(w, c, n + 1)' = {k \in Fills(w, c) \cup {n + 1} : k <= n + 1}
        BY <1>1, <4>1 DEF UpTo
      <4>3. n + 1 \notin Fills(w, c)
        BY <1>1, <1>10
      <4>4. n + 1 <= n + 1
        BY <1>1
      <4> QED BY <1>10, <4>2, <4>3, <4>4 DEF UpTo
    <3>2. IsFiniteSet(UpTo(w, c, n)) /\ Integral(Sizes', UpTo(w, c, n) \cup {n + 1})
      BY <1>3, <1>4, <1>5, <2>0, FillsFinite DEF Integral
    <3>3. SumFunctionOnSet(Sizes', UpTo(w, c, n) \cup {n + 1}) =
            SumFunctionOnSet(Sizes', UpTo(w, c, n)) + Sizes'[n + 1]
      BY <3>1, <3>2, SumAdd
    <3> QED BY <1>4, <1>6, <1>8, <2>0, <2>1, <3>1, <3>3
  <2>2. CASE ~(f.wallet = w /\ f.coin = c)
    <3>1. UpTo(w, c, n + 1)' = UpTo(w, c, n)
      <4>1. Fills(w, c)' = Fills(w, c)
        BY <1>2, <2>2
      <4>2. UpTo(w, c, n + 1)' = {k \in Fills(w, c) : k <= n + 1}
        BY <1>1, <4>1 DEF UpTo
      <4> QED BY <1>10, <4>2 DEF UpTo
    <3> QED BY <1>6, <1>8, <2>0, <2>2, <3>1
  <2> QED BY <2>1, <2>2
<1> QED BY <1>1, <1>2, <1>7, <1>9

\* What _project takes for an opening is a fill that leaves the wallet on another side.
LEMMA OpensIsSide ==
  ASSUME NEW old \in Int, NEW new \in Int, old # new
  PROVE  Opens(old, new) <=> Side(new) \notin {"FLAT", Side(old)}
BY DEF Opens, Side

RefIsDefined == \A w \in Wallets, c \in Coins : ref[w][c] = DefinedRow(w, c)

LEMMA IngestDefined ==
  ASSUME TypeOK, TypeOK', RefIsDefined, NEW f \in Fill, IngestFill(f)
  PROVE  RefIsDefined'
<1> PICK n : n = Len(journal)
  OBVIOUS
<1>1. /\ journal' = Append(journal, f)
      /\ ref' = [ref EXCEPT ![f.wallet][f.coin] = Project(ref[f.wallet][f.coin], f.delta, n + 1)]
  BY DEF IngestFill
<1>2. n \in Nat /\ f.wallet \in Wallets /\ f.coin \in Coins /\ f.delta \in Int \ {0}
      /\ ref \in [Wallets -> [Coins -> Row]]
  BY JournalType, FillType, DeltasAssumption DEF TypeOK, Rows, Fill
<1> SUFFICES ASSUME NEW w \in Wallets, NEW c \in Coins PROVE ref'[w][c] = DefinedRow(w, c)'
  BY DEF RefIsDefined
<1>3. /\ Len(journal') = n + 1
      /\ Fills(w, c)' = IF f.wallet = w /\ f.coin = c THEN Fills(w, c) \cup {n + 1} ELSE Fills(w, c)
      /\ \A m \in 0..n : SizeAfter(w, c, m)' = SizeAfter(w, c, m)
      /\ SizeAfter(w, c, n + 1)' =
           SizeAfter(w, c, n) + (IF f.wallet = w /\ f.coin = c THEN f.delta ELSE 0)
  <2>1. journal' = Append(journal, f)
    BY <1>1
  <2>2. Len(journal') = n + 1
    BY <2>1, SizesGrow
  <2>3. Fills(w, c)' = IF f.wallet = w /\ f.coin = c THEN Fills(w, c) \cup {n + 1} ELSE Fills(w, c)
    BY <2>1, SizesGrow, ZenonT(60)
  <2>4. \A m \in 0..n : SizeAfter(w, c, m)' = SizeAfter(w, c, m)
    BY <2>1, SizesGrow, ZenonT(60)
  <2>5. SizeAfter(w, c, n + 1)' =
           SizeAfter(w, c, n) + (IF f.wallet = w /\ f.coin = c THEN f.delta ELSE 0)
    BY <2>1, SizesGrow
  <2> QED BY <2>2, <2>3, <2>4, <2>5
<1>4. ref[w][c] = DefinedRow(w, c) /\ SizeAfter(w, c, n) \in Int
  BY FillsFinite DEF RefIsDefined
<1>5. Fills(w, c) \subseteq 1..n
  BY FillsFinite
<1>6. \A m \in Fills(w, c) : SizeAfter(w, c, m)' = SizeAfter(w, c, m)
                             /\ SizeAfter(w, c, m - 1)' = SizeAfter(w, c, m - 1)
  BY <1>2, <1>3, <1>5
<1>7. CASE f.wallet = w /\ f.coin = c
  <2> DEFINE old == SizeAfter(w, c, n)
             opens == Opens(old, old + f.delta)
  <2>1. SizeAfter(w, c, n + 1)' = old + f.delta /\ SizeAfter(w, c, n)' = old /\ old \in Int
    <3>1. n \in 0..n
      BY <1>2
    <3> QED BY <1>3, <1>4, <1>7, <3>1
  <2>2. opens <=> Side(old + f.delta) \notin {"FLAT", Side(old)}
    BY <1>2, <2>1, OpensIsSide
  <2>3. Openings(w, c)' = IF opens THEN Openings(w, c) \cup {n + 1} ELSE Openings(w, c)
    <3>1. Openings(w, c)' =
            {m \in Fills(w, c) \cup {n + 1} :
               Side(SizeAfter(w, c, m)') \notin {"FLAT", Side(SizeAfter(w, c, m - 1)')}}
      BY <1>3, <1>7 DEF Openings, Side
    <3>2. (n + 1) - 1 = n
      BY <1>2
    <3>3. n + 1 \in Openings(w, c)' <=> opens
      <4>1. n + 1 \in Openings(w, c)' <=>
              Side(SizeAfter(w, c, n + 1)') \notin {"FLAT", Side(SizeAfter(w, c, (n + 1) - 1)')}
        BY <3>1
      <4> HIDE DEF opens
      <4> QED BY <2>1, <2>2, <3>2, <4>1
    <3>4. \A m \in Fills(w, c) : m \in Openings(w, c)' <=> m \in Openings(w, c)
      BY <1>6, <3>1 DEF Openings
    <3> HIDE DEF opens
    <3> QED BY <3>1, <3>3, <3>4 DEF Openings
  <2>4. Cardinality(Openings(w, c)') = Cardinality(Openings(w, c)) + (IF opens THEN 1 ELSE 0)
    <3>1. n + 1 \notin Openings(w, c) /\ IsFiniteSet(Openings(w, c))
          /\ Cardinality(Openings(w, c)) \in Nat
      BY <1>2, <1>5, OpeningsFinite, FS_CardinalityType
    <3>2. Cardinality(Openings(w, c) \cup {n + 1}) = Cardinality(Openings(w, c)) + 1
      BY <3>1, FS_AddElement
    <3> HIDE DEF opens
    <3>3. CASE opens
      BY <2>3, <3>2, <3>3
    <3>4. CASE ~opens
      BY <2>3, <3>1, <3>4
    <3> QED BY <3>3, <3>4
  <2>5. Max({0} \cup Fills(w, c)') = n + 1
    <3>1. {0} \cup Fills(w, c)' \in SUBSET Int /\ n + 1 \in {0} \cup Fills(w, c)'
          /\ \A m \in {0} \cup Fills(w, c)' : m <= n + 1
      BY <1>2, <1>3, <1>5, <1>7
    <3> QED BY <3>1, MaxIs
  <2>6. ref'[w][c] = Project(ref[w][c], f.delta, n + 1)
    BY <1>1, <1>2, <1>7
  <2>7. /\ ref[w][c].lifecycle = Cardinality(Openings(w, c)) /\ ref[w][c].size = old
    BY <1>4 DEF DefinedRow
  <2>8. ref'[w][c] = [lifecycle |-> ref[w][c].lifecycle + (IF opens THEN 1 ELSE 0),
                      size |-> old + f.delta, last |-> n + 1]
    BY <2>6, <2>7 DEF Project
  <2>9. DefinedRow(w, c)' = [lifecycle |-> Cardinality(Openings(w, c)'),
                             size |-> SizeAfter(w, c, n + 1)', last |-> Max({0} \cup Fills(w, c)')]
    BY <1>3 DEF DefinedRow
  <2> HIDE DEF opens
  <2> QED BY <2>1, <2>4, <2>5, <2>7, <2>8, <2>9
<1>8. CASE ~(f.wallet = w /\ f.coin = c)
  <2>1. ref'[w][c] = ref[w][c]
    BY <1>1, <1>2, <1>8
  <2>2. Openings(w, c)' = Openings(w, c)
    BY <1>3, <1>6, <1>8 DEF Openings, Side
  <2>3. SizeAfter(w, c, n + 1)' = SizeAfter(w, c, n)
    BY <1>3, <1>4, <1>8
  <2>4. Fills(w, c)' = Fills(w, c)
    BY <1>3, <1>8
  <2>5. DefinedRow(w, c)' = [lifecycle |-> Cardinality(Openings(w, c)'),
                             size |-> SizeAfter(w, c, n + 1)', last |-> Max({0} \cup Fills(w, c)')]
    BY <1>3 DEF DefinedRow
  <2> QED BY <1>4, <2>1, <2>2, <2>3, <2>4, <2>5 DEF DefinedRow
<1> QED BY <1>7, <1>8

\* A projection that goes back to an empty start is, for any wallets, coins and fills,
\* the sum of the fills that were journaled, its lifecycle the number of times the
\* wallet went into a position and its sequence number that of the last fill, after any
\* interleaving of ingestion, snapshots, recoveries and crashes (engine.py:69-155).
THEOREM RowsAreSums == Spec => []RowsMatchDefinition
<1>1. Init => RefIsDefined
  <2> SUFFICES ASSUME Init, NEW w \in Wallets, NEW c \in Coins PROVE ref[w][c] = DefinedRow(w, c)
    BY DEF RefIsDefined
  <2>1. Fills(w, c) = {} /\ Openings(w, c) = {} /\ ref[w][c] = NoRow
    BY DEF Init, Fills, Openings, NoRows
  <2>2. SizeAfter(w, c, Len(journal)) = 0
    BY <2>1, SumEmpty DEF SizeAfter
  <2>3. Max({0} \cup Fills(w, c)) = 0
    BY <2>1, MaxIs
  <2> QED BY <2>1, <2>2, <2>3, FS_EmptySet DEF DefinedRow, NoRow
<1>2. TypeOK /\ TypeOK' /\ RefIsDefined /\ [Next]_vars => RefIsDefined'
  <2> SUFFICES ASSUME TypeOK, TypeOK', RefIsDefined, [Next]_vars PROVE RefIsDefined'
    OBVIOUS
  <2>1. ASSUME NEW f \in Fill, IngestFill(f) PROVE RefIsDefined'
    BY <2>1, IngestDefined
  <2>2. ASSUME UNCHANGED <<ref, journal>> PROVE RefIsDefined'
    <3>1. \A w, c : Fills(w, c)' = Fills(w, c) /\ Sizes' = Sizes
      BY <2>2 DEF Fills, Sizes
    <3>2. \A w, c, n : SizeAfter(w, c, n)' = SizeAfter(w, c, n)
      BY <3>1 DEF SizeAfter
    <3>3. \A w, c : Openings(w, c)' = Openings(w, c)
      BY <3>1, <3>2 DEF Openings, Side
    <3> QED BY <2>2, <3>1, <3>2, <3>3 DEF RefIsDefined, DefinedRow
  <2> QED
    BY <2>1, <2>2
    DEF Next, vars, AddWallet, RemoveWallet, PurgeWallet, CommandWallet, SnapshotRead,
        SnapshotInsert, RecoverBegin, RecoverReplay, RecoverCommit, RecoverRollback, Crash
<1>3. TypeOK /\ ProjectionIsReplay /\ RefIsDefined => RowsMatchDefinition
  BY DEF TypeOK, Rows, ProjectionIsReplay, RefIsDefined, RowsMatchDefinition
<1> QED BY <1>1, <1>2, <1>3, TypeCorrect, ProjectionCorrect, PTL DEF Spec
=============================================================================
