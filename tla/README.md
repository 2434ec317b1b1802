# Verification of the Trading Memory Engine

TLA+ modules, TLC configurations and TLAPS proofs about the service in `src/tme`.
Every definition is translated from the code; `PROJECT.json` maps each one to
the lines it stands for. Where the documentation and the code disagree, the
model follows the code and a run shows the disagreement.

    tlc -config MCMemoryEngine.cfg MCMemoryEngine     # a run
    tlapm MemoryEngineProofs.tla                      # the proofs of a module

## 1. The system

One Python process (`tme serve`) over one SQLite file. It has an HTTP server with
a thread per request, a processing thread (`cli.processing_loop`) and a collector
thread that runs an asyncio loop. A redeploy can have two such processes on the
same file for a while. Executors are other programs: they ask for a lease, claim
execution intents over HTTP and acknowledge them.

Components share nothing but the tables. Every write is a
`Database.transaction()` (`database.py:115-132`): `BEGIN IMMEDIATE`, so there is one
writer at a time, a wait of 30 s for it and a rollback on any exception. Reads
outside a transaction see the last commit. All the concurrency of the system is
therefore at the boundaries of transactions: state that is read before one and
used in it, clocks read before the wait for the lock, and operations made of more
than one transaction.

| Component | State | Operations | What is hard | What makes it correct |
|---|---|---|---|---|
| Memory engine `engine.py` | `wallets`, `event_journal`, `projections`, `lifecycle_fills`, `snapshots` | add and command wallets, `ingest_fill`, `snapshot`, `recover` | a snapshot is read outside its transaction; a recovery replays on top of rows; crash in the middle | the projection is one replay of the journal; the lifecycle index agrees with it and never changes |
| Ready queue `ready_queue.py` | `ready_queue` | publish, claim, ack, nack, renew, quarantine | leases by wall clock; lost answers; late requests; crashed executors | one executor acts on a message; settled is final; every message is settled |
| Processing engine `processing.py`, loop in `cli.py` | `processor_offsets`, `processor_assets`, `processor_wallet_runtime`, publishes to the queue | `process_available`, `set_held` | batches read early, one transaction per event, overlapping workers, quarantine in between, events that raise | one ordered consumer: no event twice, out of order or lost |
| Executor lease `executor_lease.py` | one row of `executor_leases` | acquire, renew, release | as the queue's; restarts with another signer | one owner acts; the owner can renew; no owner that is gone keeps it |
| Wallet coverage `coverage.py` | `wallet_onboarding`, `wallet_asset_coverage`, and rows of three other components | `onboard`, `observe` | overwrites statuses set by others, rebuilds projections outside the journal, opens and closes the gate again | the gate is open only when no position from before the onboarding is left, and a wallet whose gate opens is announced |
| Collector service `collector_service.py`, `collector.py` | `bootstrapped`, the buffer of fills | bootstrap, drain, reconnect | two awaits between transactions; a stream that comes up some time later, breaks or ends; a buffer that is dropped | the projection is off by no more than the fills that the awaits lose or repeat; every active wallet is onboarded; a failed stream is replaced |
| Adapter `hyperliquid/adapter.py` | none | current state, history pager, stream | page boundary, ids | |
| Notifier `notifications.py`, loop in `collector_service.py` | `notification_outbox` | `drain_one`, report | sends before it marks; threads of cancelled loops go on; mails that are always refused | no mail skipped, none repeated without cause, none starved |
| HTTP API `api.py` | none | one route per operation | answers that do not say what happened | |
| HRS core `hrs_processing.py` | none (pure) | reconstruction, ranking, decision | boundaries by sign, contiguous suffix, merged moments | FULL lifecycles are whole; rebuilt and carried capital agree; an intent follows from an accelerating entry |

`PROJECT.json` lists the hazards of each with the line where they bite and the
properties that cover them.

## 2. The modules

**`Projection`** is `MemoryEngine._project` as a pure operator: lifecycle number,
signed size and last sequence of one row. Prices, capital, realised profit and
times are left out, because none of the columns kept depends on them.

**`MemoryEngine`** is all of `engine.py` that changes state. A handler that is one
transaction is one action. Two are longer. `snapshot` is `SnapshotRead` (lines
127-128, outside the transaction) and `SnapshotInsert`. `recover` is a transaction
of many statements: `RecoverBegin`, one `RecoverReplay` per event and
`RecoverCommit`, with the rows it has written so far in `tx`; `RecoverRollback`
is an exception in it, `Crash` the end of the process at any point. While `tx` is
open no other writer runs and readers see the old rows.

Four history variables that no guard reads say what is right. `after[n]` and
`ref` come from replaying the journal once from nothing. `sound[w]` says that the
rows of `w` go back to an empty start: PURGE throws them away under a journal
that goes on, and a recovery without a snapshot starts from the rows it finds.
Both are legal calls, and both make the rows something else than the journal's
replay; section 4 shows that. The properties are about everything else.

**`ReadyQueue`** is `ready_queue.py` with its executors. Each call is a record in
`calls` from the moment the server reads the clock until its transaction; `age`
is how long ago that was. Times are relative to now and a `Tick` lowers them, so
that TLC sees finitely many states however long the model runs. `holds[c][m]` is
for how long executor `c` thinks the message is its own, as the last answer it
received says. A call is `live` while its executor awaits it; after a `GiveUp` or a `Crash`
it is still on its way, and the executor may send others. `failures` counts these two, lost
requests and answers, messages given back and leases that lapse while their holder works or its acknowledgement is on its way.
A row has no claim number, so `nack` and `renew` act on whatever claim the same executor
has by then. `undone` (history) has the executors whose own call did this to a lease they
still believe in: a late `nack` ended it, or a renewal left it shorter than they believe.
Claims and renewals have lengths of their own (`ClaimLeases`, `RenewLeases`), as in the
API, whose defaults are 30 s and 90 s (`api.py:63`, 97).

**`OrderedConsumer`** is the abstract specification of event processing: a producer,
a cursor that moves by one, and a discard that moves it to the end. **`Processor`**
is `process_available` in the steps the code has (`ReadOffset`, `ReadEvents` with
the status of each wallet at that moment, then one transaction per event) for any
number of workers, with ingestion, wallet commands, the onboarding gate and
quarantine around them. What an event decides is left open: `ProcessEvent`
publishes or not, except that a closed gate and a recovered fill never publish.
`MustFail` and `MayFail` are the events for which `_process_event` raises.

**`ExecutorLease`** is `executor_lease.py` and the processes that use it, in the same
manner as `ReadyQueue`; `live` on a call is FALSE once the process that sent it
has stopped.

The row of the lease has no number for the process that took it, so a call that a
stopped process left waiting can delete or shorten the lease of its successor with
the same owner id. `overtaken` (history) has the owners to whom that happened since
their last grant.

**`WalletCoverage`** is `coverage.py`: the tables that `onboard` and `observe` write and
the two transactions (`Onboarded`, `Observed`), of the projections only the size.
**`CollectorService`** extends it with the asyncio task of `collector_service.py`, whose
place is `pc`, the exchange (`fills`, `held`), the stream and the commands that the
API commits meanwhile. `BootstrapBegin`, `FetchState` and `Onboard` are the three parts
of `bootstrap` around its await; `Ingest` and `Observe` are the two transactions a fill
goes through. `buffer` is what is on its way in the channel and the queue.
`asOf` (how many fills the loaded state contains), `gap` (a wallet whose known fills
have a hole) and `unseen` (fills a crash cut off from `observe`) are history.

**`Rational`** has fractions with exact comparison, since the code calculates with
`Decimal`. **`HrsCore`** is `hrs_processing.py` as pure operators: `Reconstruct` (suffix,
boundary, moments), `Share`, `Eligible`, `Outranks`, `Decision`. **`Signals`** runs them on
everything a wallet may do: `Process` is `_process_event` with `processor_assets` (`assets` has
size and capital of the rows, `share` the shares), `AllFills` what `_all_fills` reads of the
journal (`Nth` is its `ORDER BY`), `Skip` an event passed over because the wallet was not
active, `Miss` a fill that the collector never heard of, `SetHeld` what the executor reports.

**`Notifier`** is `drain_one`, with the threads that a cancelled `notifier_loop` leaves at
work. Time goes in units of 30 s, which a turn of the loop takes at most: 10 s for the mail,
15 s for the periodic report and 5 s of pause.

How they compose: `Processor` takes the gate and the wallet statuses as they may change
at any time (`SetGate`, `SetActive`); `CollectorService` says when they do;
`Signals` opens up the decision that `Processor` leaves open; what `Processor` publishes is
what `ReadyQueue` hands out.

`MCMemoryEngine`, `MCProcessor`, `MCCollectorService` and `MCSignals` give the instances
that need definitions; `ReadyQueue`, `ExecutorLease` and `Notifier` are checked
directly. `MemoryEngineProofs`, `ReadyQueueProofs`, `ProcessorProofs`,
`ExecutorLeaseProofs`, `CollectorServiceProofs`, `NotifierProofs` and `SignalsProofs` hold the
theorems, `SumTheorems` lemmas that several of them cite. An operator
introduced by "a bug the checks must notice" is not part of a model: put in the place
of the definition after it, it makes a property fail.

Where code and model differ in form:

- `PAUSE` and the other commands are one action with the status table of the code;
  `Mapping` is that table.
- The eight attempts of `Database.transaction` on a locked database are a longer wait,
  within `MaxAge`; the exception after the last of them is `Lost`, like a request
  that never arrives.
- Sequence numbers have no gaps (a rollback takes the number back), so a batch of
  the processor is an interval.
- `INSERT OR IGNORE` in `publish` is the guard that the message is new; a second
  publish would change nothing.
- An executor claims only while it holds nothing; that is how the documented loop
  of `GET /v1/ready/next` and `ack` works. The queue does not enforce it.
- `current_state` is one reading of the account. With several dexes it is one request
  for each, so that fills can also fall between two of them.
- The length of the backoff and the heartbeats are left out: nothing reads them but
  `/health`. PURGE of a followed wallet is in `MemoryEngine` only.
- `CollectorService` has one collector. During an overlap of two processes, both would
  bootstrap and ingest; the journal's unique `event_id` keeps the projection from counting
  a fill twice, the rest is not checked.
- Fills without `px` or `sz` are skipped by the collector; the stream of trades has both.
- Fractions are exact; `Decimal` rounds them to 28 digits. What the code carries and what it
  rebuilds multiply and divide in different orders (`processing.py:51`, `hrs_processing.py:90`),
  so that they agree up to such roundings.
- In `Signals` the fills of a wallet come in the order of their times, as the exchange
  sends them, and an event is processed when it is journaled: what `_process_event`
  reads of the journal ends with the event itself.

## 3. The runs that pass

| Run | Instance | Shows |
|---|---|---|
| `engine` | 1 wallet, 1 coin, 3 fills of +1, -2, +3, 1 snapshot request, RESUME, REMOVE, PURGE | `RowsMatchDefinition`: the row is the sum of the fills, its lifecycle the number of times a position was opened from flat or from the other side. `ProjectionIsReplay`, `LifecycleIndexIsReplay`, `TagsImmutable` |
| `engine_coins` | 2 wallets, 2 coins, 2 fills | the same rows where wallets share the journal and a snapshot's `last_sequence` is a maximum over coins; `IInv`, the invariant of the proofs |
| `queue` | 2 executors, 1 message, 1 awaited call each and any that were given up, claims for 2 or 3 ticks and renewals for 1 or 3, delays of 0 or 1, waits of 1 tick, 2 failures | `SharedByOwnCallOnly` and its inductive invariant `IInv`, `HandedOverWhenDue`, `SettledIsFinal`, `EveryMessageSettles` |
| `processor` | 2 workers, batches of 2, 2 events, 1 crash, events that fail | `ConsumerSpec` (the refinement of `OrderedConsumer`), `NothingBehindQuarantine`, `EveryEventDealtWith`, `IInv` |
| `lease` | 2 owners, 2 signers, 1 call for each process, a length of 5 that is cut to 3, waits of 2 ticks, 2 failures | `OneOwnerActs`, `HolderCanRenew` and their inductive invariant, `LeaseIsTaken` |
| `collector` | 2 wallets, one with a position from before and one with old rows, 1 coin, 2 fills (also one trade between the two), PAUSE and RESUME at any moment, 1 failure of the stream, a request or the process | `ProjectionBalances`, `GateIsHonest`, `LegacyIsReal`, `CompletionIsAnnounced`, `ActiveAreOnboarded`, `FailedStreamIsReplaced`, `IInv` |
| `signals` | 2 coins, one with a position from before and, in half of the cases, a name like `kPEPE`; every history of 5 fills, 1 of them missed or skipped | `FullIsWhole`, `CapitalAgrees`, `IntentIsJustified` and their inductive invariant `IInv` |
| `notifier` | 3 wallets, 2 of them always refused, 2 threads, 2 mishaps | `SentIsMailed`, `RepeatedByMishapOnly` and their inductive invariant `IInv`, `OthersGetThrough`, `TypeOK` |

**Why these bounds.** Three fills reach every case of `_project`: open, add, reduce,
close, and a reversal to each side. A snapshot needs two coins for its maximum and
two wallets for the filter on the address. In `queue` a claim is longer than a call waits, and a renewal may be
longer, as with the API's defaults, or shorter. Two failures are what a late `nack` needs to
open a message that was claimed again: the message is given back, and its executor stops
waiting. That and the short renewals lead to states in which two executors hold
the message. One message is enough since an executor holds one at a time and each call is about one
row; the theorems are for any number. An interference between two executors,
workers or owners needs two of them; a third is covered by the theorems. Two events are the smallest batch that can
be stale in its second half. In `collector` two fills of -1 reduce and
then close the position of 2 from before, or open and add to one of the other wallet,
around any await; the trade between the two is of -3, which reverses that position. An intent needs an opening and two
increases at three moments, and `signals` has two fills more, for a second coin, a
reversal or a lapse. In `notifier` two refused rows and a thread left over are the
least that can hold up a third; the delays are 2 and 3 units
(4, cut to `MaxDelay` as in the code 3840 s are to 3600 s), so that three wallets are as many
as `DelayAssumption` allows (in the code: 120 wallets). In `engine` and `engine_coins` the constraint
`Bounded` stops rows that no longer go back to an empty start, since repeating a
recovery without a snapshot grows them for ever; sound rows are never cut off.
Symmetry is used only in runs without liveness.

**Fairness.** `Processor`: each worker goes on (`WF` of its steps). `processing_loop`
calls `process_available` for ever and catches what it raises; the assumption also
needs that the handler at `cli.py:14`, which opens a transaction itself, does not
raise. `ReadyQueue` and `ExecutorLease`: the clock goes on and calls reach their
transaction (`WF`), since a waiting call gets the writer lock or is `Lost`;
executors poll while they hold nothing (`WF`), as the long poll of
`/v1/ready/next` is made for, and an executor that keeps renewing is done in the
end (`SF` of `SendAck`), without which a message could rightly stay in flight for
ever. A lease request of a stopped process is fair too: the server does not know.
`CollectorService`: the task goes on (`WF` of `Serve`; HTTP threads and the exchange do not
block it), and a stream that does not break comes up in the end (`SF` of `StreamUp`,
strong because the task passes through steps without an await). `Notifier`: the loop
polls, requests end (they have a timeout), time passes (`WF`); the loop runs only while
there is a wallet to follow, and its exception handler (`notifications.py:55`) opens a
transaction itself, which is assumed not to raise. Failures are finitely many;
crashes, losses and lapsed leases are never fair. Executors are not in the repository: these last assumptions are about
them, not about the code.

## 4. The runs that find a disagreement

- `recovery_without_snapshot`: README.md:14-15 promises a replay of the tail. Without
  a snapshot, `recover` deletes no row (`engine.py:139`) and replays the whole journal
  onto those it finds; every recovery counts each fill once more. It does not depend
  on any interleaving.
- `reconcile`: recovery compares only the coins it is given, and the collector gives
  only coins of non-zero size (`adapter.py:25`), so a position the exchange has
  closed is HEALTHY (README.md:14-15).
- `pause_lost`: `bootstrap` sets SYNCING and `onboard` and `observe` set LIVE or SYNCING
  without looking at the status, so a PAUSE that commits after the active wallets were
  read is overwritten (README.md:88).
- `drained`: README.md:85-87 says that the service subscribes before it bootstraps. It
  only creates the task that will; a fill between the reading of the account and
  the moment the stream is up is in neither.

Observations that are not runs:

- Two executors can hold one message after one of them sent a call while an earlier one of
  its own was on its way, or renewed for less than it had asked for before. `ready_queue` has no claim number, so a late `nack` or a
  `renew` with a shorter lease acts on the claim the same executor made since
  (`ready_queue.py:65`, 70-71). `SharedByOwnCallOnly` says that two executors never share a
  message in another way.
- After PURGE the lifecycle numbers restart at 1 while `lifecycle_fills` keeps the old
  ones, so that a lifecycle lists the fills of two positions (`engine.py:33`); and a
  snapshot request that read the rows before a PURGE stores them after it
  (`engine.py:127-131`), for the next recovery to load.
- An event of a batch is handled with the wallet status of the batch's read
  (`processing.py:18`, used at 28): a wallet paused since gets an intent published,
  and an event that was read while it was paused is passed over.
- A lease call that a stopped process left waiting acts on the lease of its successor.
- `bootstrap` returns at once for a wallet with an onboarding row, so nothing is loaded
  after a restart or a reconnect, though the log says it reconciles
  (`collector_service.py:27`, 88). Fills of that time are lost for good.
- A stream that the server ends without an error is never replaced: `task.done()` has
  nothing to raise, and the service reports LIVE until the set of wallets changes.
- Fills that the loaded state contains and that are still in the queue are counted
  again. `ProjectionBalances` says that the projection is off by exactly these and the
  lost ones.
- The fills of two followed wallets that traded with each other have one trade id and
  so one `event_id`; the second one is dropped.
- A crash between `ingest` and `observe` leaves a coin LEGACY whose position has been
  closed, until its next closing or reversing fill.
- Missed fills whose sizes cancel leave a FULL_HISTORY lifecycle that is not whole.
- The journal has coin names in capitals, `processor_assets` as the exchange writes
  them: for a coin like `kPEPE` no prior row and no fill is found.
- An intent needs three moments of entry, so that `OPEN` among the triggers of
  `is_eligible` never is one. This and the next are proved (`IntentWhileJudged`, `ProcessIntent`).
- `is_eligible` also wants the last moment of entry of a lifecycle to be the event that
  triggers the decision (`hrs_processing.py:112`), so at most one coin is ever eligible, the
  one of the trigger: the ranking of `leaderboard` never has two to decide between.
- An event for which `_process_event` raises (an unknown side in the raw fill,
  `hrs_processing.py:24`) is retried for ever, and the events of all wallets behind it
  wait. `EveryEventDealtWith` has exactly this exception.
- `quarantine_pending` moves the offset with an `UPDATE`; before the first event is
  processed there is no row, and the backlog is processed after the quarantine.
- `recover` makes a PAUSED, REMOVED or PURGED wallet READY or SYNCING.
- `ack`, `nack` and `renew` take effect and are then answered with 404 (`api.py:94-102`),
  so an executor learns of a renewed lease only if it ignores the status.

## 5. The proofs

Every theorem is for all values of the constants that satisfy the assumptions named
in the modules (non-empty coins, fills of non-zero integer size, sequence numbers
that are naturals, a `Nil` that is none of the values). Every safety invariant and action
property of the passing runs is a theorem.

**`SumTheorems`** makes induction over data possible with what the provers have: its
principles are about a set of numbers (`NatLeast`, `NatInduct`) or of finite sets
(`FiniteInduct`) instead of a predicate, and follow from the well-founded minimum of the
library. From them it proves that `SumFunctionOnSet`, which adds in an order left to
`CHOOSE`, is what one expects when an element is added, removed or left alone, and that a
finite set of numbers has the maximum `Max` says. The recursive functions behind the folds
are shown to exist first (`SumsExist`, `TakesExists` in `SignalsProofs`), since a recursive
function that does not exist has no properties.

**`MemoryEngineProofs`**: `TypeCorrect`, `ProjectionCorrect`, `LifecycleIndexCorrect`,
`TagsCorrect`, `RowsAreSums`. `ProjectionIsReplay` is not inductive: it
says nothing about the rows in a snapshot, in a request that has read them, or in an open
recovery, and each of those becomes the projection later. `IInv` (`Inductive`) says for all of
them that they are the replay of the journal up to some event. The replay is not a recursive
definition but told through the history: `IsReplay(w, c, row, n)` says that `row` is
either missing, with no event of `w` and `c` up to `n`, or it is `after[row.last]`, with
no such event after `row.last`. Two rows with that property for one `n` are equal
(`ReplayUnique`), which makes a recovery that has replayed everything end with
exactly `ref`. `TagsImmutable` is an action property from the same invariant. `RowsAreSums` says what the replay is: `ref`, which changes with `ingest_fill`
only, has at each row the sum of the fills and the number of openings, and a row that goes
back to an empty start equals `ref`.

**`ReadyQueueProofs`** has no condition on executors in its first half. `SharingIsOwnDoing`
(`SharedByOwnCallOnly`), `VerdictsAreFinal` (`SettledIsFinal`) and `HandOversAreDue`
(`HandedOverWhenDue`) hold for any number of executors, messages and calls under way, any
lengths of claims and renewals, any delays, any wait for the lock and any failures. `IInv`
(`Invariant`) is what makes it inductive: an executor that believes in its lease and has not
undone it is named by the row, whose lease is at least as long as the belief
(`BeliefCovered`), until the message is settled. So two that share a message without one of
them having undone its lease would both be named by the row. That the clock is read before
the wait for the lock does not break it: the lease granted is shorter by the wait, in the row and in
the answer alike.

The second half is about executors that undo nothing of their own. `OneHolder`
(`LeaseExclusive`: one executor holds a message at a time) needs two conditions. No renewal
may ask for less than any lease asked for (`RenewsLonger`): the API's default lengths are such (30 s and
90 s), and so are those of the repository's tests (`test_processing.py:34-36`: 1 s and 90 s, or
claims of the default length alone). And no executor may send a call while one of its own is
on its way (`[]OneCall`), also one from before a crash. Then no belief is
longer than a renewal asks for (`BeliefBounded`), a call under way cannot make the row fall
short of the belief (`CallsCovered`), and nothing is `undone`. Neither condition can
be dropped: `queue` reaches shared messages without the one as without the other. No run
checks `LeaseExclusive`, which is false of the code without them.

**`ProcessorProofs`**: `WorkersImplementConsumer`, the refinement of `OrderedConsumer`,
and `NothingComesBack`. The invariant (`Invariant`) is `WorkersBehind`: no worker, however
stale, starts beyond the event after the cursor, and the check of the offset inside each
transaction does the rest.

**`ExecutorLeaseProofs`**: `OneOwner` and `HolderRenews`, under `OneCallOneTtl`: one call under
way for each process and one length of lease (the API has one default for both, 45 s, `api.py:89-90`). `HolderCanRenew` implies `OneOwnerActs`
(the row names one owner) and is nearly inductive: `IInv` (`IInvHolds`) adds that a belief is no
longer than a lease (`BeliefBounded`), that a live call leaves no less than its process
believes in (`CallsFit`), that there is one (`OneLiveCall`), and that a process that is
down believes in nothing (`DownIsIdle`). Calls of stopped processes are in the row's way
at any time; `overtaken` takes them out of the claim, not out of the model.

**`CollectorServiceProofs`**: on top of `ServiceInvariant` (`IInv`), each property has what a
step needs to know beside it.

- `GateIsAnnounced` (`CompletionIsAnnounced`) is inductive.
- `LegacyPositionsAreReal` (`LegacyIsReal`) needs that the journal has no fill of a
  wallet that is not onboarded yet: `onboard` then makes no coin LEGACY of which a closing
  fill is journaled, and `observe` of one ends it.
- `OpenGateIsHonest` (`GateIsHonest`) needs it for single coins, before the gate opens:
  a coin of a wallet without a gap that is followed (not LEGACY any more, being onboarded
  without a position, or with a fill on its way that ends the one from before) is either flat or
  known from the fill that opened its position, which is journaled or on its way
  (`FollowedIsTraced`); and behind an open gate no coin is LEGACY (`OpenIsCovered`).
- `ProjectionIsBalanced` (`ProjectionBalances`) is about sums over the history of fills: each
  step moves at most one fill of a coin from one of them to another, and a trade between two
  of the wallets gives each at most one (`TradeMoves`). A state that was read and not applied
  yet must already be off by exactly the fills made since (`LoadedBalances`).

**`NotifierProofs`**: `NoMailSkipped` and `NoMailRepeated`, for any wallets, threads and mishaps.
`RepeatedByMishapOnly` is not inductive: a mail that is not sent yet may become one too
many. `MailsFit` in `IInv` (`Invariant`) counts the mails of a wallet together with the threads
about to send one, and allows one less while the row may still be selected again. `Typed`
(`TypeOK`) bounds every delay, rest and age of a thread by `MaxDelay`, for any number of attempts.

**`SignalsProofs`**: `FullHistory` (`FullIsWhole`), `CapitalCarried` (`CapitalAgrees`) and
`IntentsAreJustified` (`IntentIsJustified`), for any coins, fills, prices, times, lapses and
names. `IInv` (`Invariant`) has seven parts:

- `TypeOK`.
- `Timely`: the fills come in the order of their times.
- `Follows`: each fill of a coin starts where the one before it ended, and the last one ends
  at the position.
- `RowsFollow`: the row of a coin whose last fill was handled has the size of the position.
- `CapitalFollows`: when all fills of a position were handled, the capital in its row is that
  of the fold over them.
- `LivesFollow`: the lifecycles were judged from these rows and from the fills that can be read.
- `IntentFollows`: the coin of an intent was eligible: not held, its entries accelerate, and
  the last of them is the fill that triggered the decision, which is the newest fill.

The rest is about data. `Place` takes a place in the sequence that was read to the place of the
same fill in the history, in the same order (`NthRuns`, `NthUnique`: there is one way to run
through a set of numbers). What is contiguous in the one has nothing missing in the other,
but for fills that cancel (`NothingMissing`). The boundary that `Reconstruct` finds is then the
last fill that turned the position (`Rebuilt`, `NeverLeaves`, `StaysOnSide`). For the capital,
`FoldAppend` takes the last fill out of the fold and `AbsorbsLike` compares what it does there
with what `_process_event` does to the row: the one multiplies what it rebuilt, the other what
it carried, and by induction the two are the same fraction.

For an intent the events in the fold are what matters. They are the moments at which
capital was put in, in order, each with the sum of what the fills of that moment added
(`EventsAreMoments`): `During` are the entries of one moment, and
`AbsorbMoments` says that a fill either adds to the last moment or begins one. The property
states that sum over a set, in whatever order `SetToSeq` takes (`SumOfSet`), so the quotients
it compares are the velocities `Accelerates` compares (`AccelerationIs`). That the trigger is
an increase and not an opening is since a lifecycle that ends with its opening has one
moment (`OpensAlone`), and `Accelerates` needs three. `Timely` is what makes the last moment in
the fold the latest one.

**Only model-checked.** The liveness properties (`EveryMessageSettles`,
`EveryEventDealtWith`, `LeaseIsTaken`, `ActiveAreOnboarded`, `FailedStreamIsReplaced`,
`OthersGetThrough`), which are out of the prover's reach.

## 6. What is not modelled, and the plan

Not modelled: the history pager of the adapter (`historical_fills`; nothing in the service
calls it), the periodic coverage report by e-mail (no state but the time of the last
one), the answers of the HTTP API, `reference_decision` (a helper of the parity test),
gRPC itself and generated code, SQLite itself (its transactions are taken as
documented: atomic, one writer, durable at commit), the web page and the wording of
reports.

What is left:

1. Two collectors during a redeploy, with the two `bootstrapped` sets over one database.
2. The queue's HTTP layer as a question of refinement: what an executor may conclude
   from an answer, given that a renewal is answered with 404.
3. `HistoryPager`, should the service call it: a full page continues one millisecond
   after its newest fill.
