------------------------------ MODULE Processor ------------------------------
(***************************************************************************)
(* The processing workers (ProcessingEngine.process_available, run for ever*)
(* by cli.processing_loop) between the event journal and the queue of      *)
(* execution intents.                                                      *)
(*                                                                         *)
(* A call reads the offset, then the next events together with the status  *)
(* their wallets have at that moment, and then handles them one by one,    *)
(* each in a transaction of its own: other requests, other workers (two    *)
(* processes overlap in a redeploy) and crashes come in between.           *)
(*                                                                         *)
(* Every event of the journal is a fill of a registered wallet (ingest_fill*)
(* and the foreign key see to it) and sequence numbers have no gaps, since *)
(* a rollback takes its number back: a batch is an interval of them.  The  *)
(* decision whether to publish is left open, except for the gate.          *)
(***************************************************************************)
EXTENDS Naturals, Sequences

CONSTANTS
  Workers, Wallets,
  Limit,       \* events in one batch
  MaxEvents,   \* bounds the journal
  MaxCrashes,  \* bounds how often a worker stops between two transactions
  Poison,      \* wallets that may get a fill that cannot be evaluated
  Nil

ASSUME LimitAssumption  == Limit \in Nat \ {0}
ASSUME PoisonAssumption == Poison \subseteq Wallets
ASSUME NilAssumption    == Nil \notin Nat

VARIABLES
  journal,   \* event_journal, in the order of the sequence numbers
  active,    \* wallets.status is one of ACTIVE
  gate,      \* wallet_onboarding.ready_for_execution, TRUE when there is no row
  offset,    \* processor_offsets.last_sequence, Nil when there is no row
  after,     \* the offset a worker has read, or Nil
  batch,     \* the events a worker has read and not handled yet, or Nil
  queue,     \* the messages of ready_queue that are not settled
  handled,   \* history: the events taken, in order
  boundary,  \* history: the last event a quarantine passed over
  crashes

vars == <<journal, active, gate, offset, after, batch, queue, handled, boundary, crashes>>
-----------------------------------------------------------------------------
Event == [wallet : Wallets, bad : BOOLEAN, live : BOOLEAN]
Batch == [next : Nat, last : Nat, active : SUBSET Nat]

TypeOK ==
  /\ journal \in Seq(Event)
  /\ active \in [Wallets -> BOOLEAN]
  /\ gate \in [Wallets -> BOOLEAN]
  /\ offset \in Nat \cup {Nil}
  /\ after \in [Workers -> Nat \cup {Nil}]
  /\ batch \in [Workers -> Batch \cup {Nil}]
  /\ queue \subseteq Nat
  /\ handled \in Seq(Nat)
  /\ boundary \in Nat
  /\ crashes \in Nat

Init ==
  /\ journal = <<>>
  /\ active = [w \in Wallets |-> TRUE]
  /\ gate = [w \in Wallets |-> TRUE]
  /\ offset = Nil
  /\ after = [k \in Workers |-> Nil]
  /\ batch = [k \in Workers |-> Nil]
  /\ queue = {}
  /\ handled = <<>>
  /\ boundary = 0
  /\ crashes = 0

Cursor == IF offset = Nil THEN 0 ELSE offset

\* Bugs the checks must notice: the offset is not read again, or compared wrongly.
NeverPassed(n)  == FALSE
PassedBefore(n) == offset # Nil /\ offset > n

\* Another worker, or a quarantine, has been there since the batch was read.
Passed(n) == offset # Nil /\ offset >= n

\* _source_fill raises for the event, or for an earlier fill of its wallet that
\* is read again to rebuild the position it belongs to.
MustFail(n) == journal[n].bad
MayFail(n)  == \E k \in 1..n : journal[k].bad /\ journal[k].wallet = journal[n].wallet
-----------------------------------------------------------------------------
(* The rest of the service, as the worker sees it.                         *)

\* ingest_fill; live is FALSE for fills marked ingestion_mode RECOVERY.
Ingest(w, bad, live) ==
  /\ active[w] /\ Len(journal) < MaxEvents
  /\ bad => w \in Poison
  /\ journal' = Append(journal, [wallet |-> w, bad |-> bad, live |-> live])
  /\ UNCHANGED <<active, gate, offset, after, batch, queue, handled, boundary, crashes>>

\* PAUSE, REMOVE, ... and RESUME.
SetActive(w, value) ==
  /\ active' = [active EXCEPT ![w] = value]
  /\ UNCHANGED <<journal, gate, offset, after, batch, queue, handled, boundary, crashes>>

\* WalletCoverage.onboard and observe.
SetGate(w, value) ==
  /\ gate' = [gate EXCEPT ![w] = value]
  /\ UNCHANGED <<journal, active, offset, after, batch, queue, handled, boundary, crashes>>

\* An executor settles a message.
Settle(m) ==
  /\ m \in queue
  /\ queue' = queue \ {m}
  /\ UNCHANGED <<journal, active, gate, offset, after, batch, handled, boundary, crashes>>

\* quarantine_pending.  The UPDATE moves the offset only if there is a row.
Quarantine ==
  /\ queue' = {}
  /\ offset' = IF offset = Nil THEN Nil ELSE Len(journal)
  /\ boundary' = IF offset = Nil THEN boundary ELSE Len(journal)
  /\ UNCHANGED <<journal, active, gate, after, batch, handled, crashes>>
-----------------------------------------------------------------------------
(* The worker.                                                             *)
ReadOffset(k) ==
  /\ after[k] = Nil /\ batch[k] = Nil
  /\ after' = [after EXCEPT ![k] = Cursor]
  /\ UNCHANGED <<journal, active, gate, offset, batch, queue, handled, boundary, crashes>>

ReadEvents(k) ==
  /\ after[k] # Nil
  /\ \E last \in after[k]..Len(journal) :
       /\ last = after[k] + Limit \/ (last = Len(journal) /\ last < after[k] + Limit)
       /\ batch' = [batch EXCEPT ![k] =
            [next |-> after[k] + 1, last |-> last,
             active |-> {n \in (after[k] + 1)..last : active[journal[n].wallet]}]]
  /\ after' = [after EXCEPT ![k] = Nil]
  /\ UNCHANGED <<journal, active, gate, offset, queue, handled, boundary, crashes>>

\* A bug the check must notice: the last event of a batch is left out.
HasNextButLast(k) == batch[k] # Nil /\ batch[k].next < batch[k].last

HasNext(k) == batch[k] # Nil /\ batch[k].next <= batch[k].last
Advance(k) == batch' = [batch EXCEPT ![k].next = @ + 1]

\* The event has been dealt with: the transaction changes nothing.
PassEvent(k) ==
  /\ HasNext(k) /\ Passed(batch[k].next)
  /\ Advance(k)
  /\ UNCHANGED <<journal, active, gate, offset, after, queue, handled, boundary, crashes>>

\* The wallet was not active when the batch was read: only the offset moves.
SkipEvent(k) ==
  LET n == batch[k].next
  IN /\ HasNext(k) /\ ~Passed(n) /\ n \notin batch[k].active
     /\ offset' = n
     /\ handled' = Append(handled, n)
     /\ Advance(k)
     /\ UNCHANGED <<journal, active, gate, after, queue, boundary, crashes>>

\* _process_event, and the offset in the same transaction.
ProcessEvent(k) ==
  LET n == batch[k].next
      e == journal[n]
  IN /\ HasNext(k) /\ ~Passed(n) /\ n \in batch[k].active
     /\ ~MustFail(n)
     /\ \/ UNCHANGED queue
        \/ e.live /\ gate[e.wallet] /\ queue' = queue \cup {n}
     /\ offset' = n
     /\ handled' = Append(handled, n)
     /\ Advance(k)
     /\ UNCHANGED <<journal, active, gate, after, boundary, crashes>>

\* An exception: the transaction is rolled back and the call is over.
FailEvent(k) ==
  LET n == batch[k].next
  IN /\ HasNext(k) /\ ~Passed(n) /\ n \in batch[k].active
     /\ MayFail(n)
     /\ batch' = [batch EXCEPT ![k] = Nil]
     /\ UNCHANGED <<journal, active, gate, offset, after, queue, handled, boundary, crashes>>

EndBatch(k) ==
  /\ batch[k] # Nil /\ ~HasNext(k)
  /\ batch' = [batch EXCEPT ![k] = Nil]
  /\ UNCHANGED <<journal, active, gate, offset, after, queue, handled, boundary, crashes>>

\* The worker stops, between two transactions or in one that is rolled back.
Crash(k) ==
  /\ crashes < MaxCrashes
  /\ crashes' = crashes + 1
  /\ after' = [after EXCEPT ![k] = Nil]
  /\ batch' = [batch EXCEPT ![k] = Nil]
  /\ UNCHANGED <<journal, active, gate, offset, queue, handled, boundary>>

Work(k) == \/ ReadOffset(k) \/ ReadEvents(k) \/ PassEvent(k) \/ SkipEvent(k)
           \/ ProcessEvent(k) \/ FailEvent(k) \/ EndBatch(k)

Next ==
  \/ \E w \in Wallets : \/ \E bad, live \in BOOLEAN : Ingest(w, bad, live)
                        \/ \E value \in BOOLEAN : SetActive(w, value) \/ SetGate(w, value)
  \/ \E m \in queue : Settle(m)
  \/ Quarantine
  \/ \E k \in Workers : Work(k) \/ Crash(k)

Spec == Init /\ [][Next]_vars

\* The loop of a worker goes on: after an exception it starts over.
FairSpec == Spec /\ \A k \in Workers : WF_vars(Work(k))
-----------------------------------------------------------------------------
\* The workers together are one ordered consumer: no event is handled twice, out
\* of order, or passed over by anything but a quarantine, although workers
\* overlap, crash and hold stale batches (processing.py:15-30).
Consumer == INSTANCE OrderedConsumer WITH produced <- Len(journal), cursor <- Cursor
ConsumerSpec == Consumer!Spec

\* What a quarantine has passed over is never published afterwards, not even
\* from a batch that was read before it (ready_queue.py:77-81).
NothingBehindQuarantine == \A m \in queue : m > boundary

\* Every event of the journal is dealt with, although workers crash, unless a fill
\* that cannot be evaluated comes before it (cli.py:10-16).
EveryEventDealtWith ==
  \A n \in 1..MaxEvents :
    Len(journal) >= n ~> Cursor >= n \/ \E k \in 1..Len(journal) : k <= n /\ journal[k].bad
-----------------------------------------------------------------------------
(***************************************************************************)
(* The inductive invariant behind ConsumerSpec and NothingBehindQuarantine.*)
(***************************************************************************)

\* A worker never starts beyond the next event, nor ends beyond the journal.
WorkersBehind ==
  \A k \in Workers :
    /\ after[k] # Nil => after[k] <= Cursor
    /\ batch[k] # Nil => /\ batch[k].next \in 1..(Cursor + 1)
                         /\ batch[k].last <= Len(journal)

IInv == /\ TypeOK /\ WorkersBehind /\ NothingBehindQuarantine
        /\ boundary <= Cursor /\ Cursor <= Len(journal)
=============================================================================
