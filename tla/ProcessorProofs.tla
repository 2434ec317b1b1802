--------------------------- MODULE ProcessorProofs ---------------------------
(***************************************************************************)
(* The workers implement OrderedConsumer, for every number of workers and  *)
(* wallets, every batch size and every length of the journal.              *)
(*                                                                         *)
(* A worker's next event is at most one beyond the cursor, because it was  *)
(* the next one when the offset was read and the cursor only grows.  So an *)
(* event that is not passed when its transaction reads the offset again is *)
(* the one after the cursor.                                               *)
(***************************************************************************)
EXTENDS Processor, TLAPS

LEMMA CursorType == ASSUME TypeOK PROVE Cursor \in Nat
BY DEF TypeOK, Cursor

LEMMA InitIInv == Init => IInv
BY NilAssumption DEF Init, IInv, TypeOK, WorkersBehind, NothingBehindQuarantine, Cursor, Event

-----------------------------------------------------------------------------
\* The event of a worker that is not passed is the one after the cursor.
LEMMA NextEvent ==
  ASSUME IInv, NEW k \in Workers, HasNext(k), ~Passed(batch[k].next)
  PROVE  /\ batch[k] \in Batch /\ batch[k].next = Cursor + 1
         /\ Cursor < Len(journal) /\ Cursor \in Nat
<1>1. batch[k] \in Batch /\ Cursor \in Nat /\ Len(journal) \in Nat
  BY CursorType DEF IInv, TypeOK, HasNext
<1>2. batch[k].next \in 1..(Cursor + 1) /\ batch[k].last <= Len(journal)
      /\ batch[k].next <= batch[k].last
  BY DEF IInv, WorkersBehind, HasNext
<1>3. batch[k].next > Cursor
  BY <1>1, <1>2 DEF Passed, Cursor, IInv, TypeOK
<1> QED BY <1>1, <1>2, <1>3 DEF Batch

\* What dealing with that event does, and that it keeps the invariant.
LEMMA HandleIInv ==
  ASSUME IInv, NEW k \in Workers, SkipEvent(k) \/ ProcessEvent(k)
  PROVE  /\ IInv'
         /\ Cursor < Len(journal) /\ Cursor' = Cursor + 1
         /\ handled' = Append(handled, Cursor + 1) /\ journal' = journal
<1> DEFINE n == batch[k].next
<1>1. /\ HasNext(k) /\ ~Passed(n) /\ Advance(k)
      /\ offset' = n /\ handled' = Append(handled, n)
      /\ UNCHANGED <<journal, active, gate, after, boundary, crashes>>
      /\ queue' = queue \/ queue' = queue \cup {n}
  BY DEF SkipEvent, ProcessEvent
<1>2. batch[k] \in Batch /\ n = Cursor + 1 /\ Cursor < Len(journal) /\ Cursor \in Nat
  BY <1>1, NextEvent
<1>3. Cursor' = Cursor + 1
  BY <1>1, <1>2, NilAssumption DEF Cursor
<1>4. batch' = [batch EXCEPT ![k] = [@ EXCEPT !.next = n + 1]]
  BY <1>1 DEF Advance
<1>5. batch'[k] \in Batch /\ batch'[k].next = n + 1 /\ batch'[k].last = batch[k].last
      /\ \A l \in Workers \ {k} : batch'[l] = batch[l]
  <2>1. [batch[k] EXCEPT !.next = n + 1] \in Batch
    BY <1>2 DEF Batch
  <2>2. batch'[k] = [batch[k] EXCEPT !.next = n + 1]
    BY <1>4 DEF IInv, TypeOK
  <2>3. \A l \in Workers \ {k} : batch'[l] = batch[l]
    BY <1>4 DEF IInv, TypeOK
  <2> QED BY <1>2, <2>1, <2>2, <2>3 DEF Batch
<1>6. TypeOK'
  <2>0. n \in Nat
    BY <1>2
  <2> HIDE DEF n
  <2>1. handled' \in Seq(Nat) /\ offset' \in Nat \cup {Nil} /\ queue' \subseteq Nat
    <3>1. handled' \in Seq(Nat)
      BY <1>1, <2>0 DEF IInv, TypeOK
    <3>2. offset' \in Nat \cup {Nil}
      BY <1>1, <2>0
    <3>3. queue' \subseteq Nat
      BY <1>1, <2>0 DEF IInv, TypeOK
    <3> QED BY <3>1, <3>2, <3>3
  <2>2. batch' \in [Workers -> Batch \cup {Nil}]
    BY <1>4, <1>5 DEF IInv, TypeOK
  <2> QED BY <1>1, <2>1, <2>2 DEF IInv, TypeOK
<1>7. WorkersBehind'
  <2> SUFFICES ASSUME NEW l \in Workers
               PROVE  /\ after'[l] # Nil => after'[l] <= Cursor'
                      /\ batch'[l] # Nil => /\ batch'[l].next \in 1..(Cursor' + 1)
                                            /\ batch'[l].last <= Len(journal')
    BY DEF WorkersBehind
  <2>1. after'[l] # Nil => after'[l] <= Cursor'
    BY <1>1, <1>2, <1>3 DEF IInv, TypeOK, WorkersBehind
  <2>2. CASE l = k
    BY <2>1, <2>2, <1>1, <1>2, <1>3, <1>5 DEF IInv, WorkersBehind, HasNext
  <2>3. CASE l # k
    BY <2>1, <2>3, <1>1, <1>2, <1>3, <1>5 DEF IInv, WorkersBehind
  <2> QED BY <2>2, <2>3
<1>8. NothingBehindQuarantine' /\ boundary' <= Cursor' /\ Cursor' <= Len(journal')
  BY <1>1, <1>2, <1>3, SMTT(30) DEF IInv, TypeOK, NothingBehindQuarantine
<1> QED BY <1>1, <1>2, <1>3, <1>6, <1>7, <1>8 DEF IInv

\* Steps of the worker that only change what it has read.
LEMMA ReadIInv ==
  ASSUME IInv, NEW k \in Workers,
         ReadOffset(k) \/ ReadEvents(k) \/ PassEvent(k) \/ FailEvent(k) \/ EndBatch(k) \/ Crash(k)
  PROVE  IInv' /\ UNCHANGED <<journal, offset, handled>>
<1>1. UNCHANGED <<journal, active, gate, offset, queue, handled, boundary>>
      /\ crashes' \in Nat
  BY DEF ReadOffset, ReadEvents, PassEvent, FailEvent, EndBatch, Crash, IInv, TypeOK
<1> SUFFICES IInv'
  BY <1>1
<1>2. Cursor' = Cursor /\ Cursor \in Nat /\ Len(journal) \in Nat
  BY <1>1, CursorType DEF Cursor, IInv, TypeOK
<1>3. ASSUME \A l \in Workers : \/ after'[l] = after[l] \/ after'[l] = Nil
                               \/ after'[l] = Cursor,
             \A l \in Workers : \/ batch'[l] = batch[l] \/ batch'[l] = Nil
                                \/ /\ batch'[l] \in Batch
                                   /\ batch'[l].next \in 1..(Cursor + 1)
                                   /\ batch'[l].last <= Len(journal),
             after' = [l \in Workers |-> after'[l]], batch' = [l \in Workers |-> batch'[l]]
      PROVE  IInv'
  <2>1. after' \in [Workers -> Nat \cup {Nil}] /\ batch' \in [Workers -> Batch \cup {Nil}]
    BY <1>2, <1>3 DEF IInv, TypeOK
  <2>2. TypeOK'
    BY <1>1, <2>1 DEF IInv, TypeOK
  <2>3. WorkersBehind'
    BY <1>1, <1>2, <1>3 DEF IInv, WorkersBehind
  <2> QED BY <1>1, <1>2, <2>2, <2>3 DEF IInv, NothingBehindQuarantine
<1>4. CASE ReadOffset(k)
  BY <1>3, <1>4 DEF ReadOffset, IInv, TypeOK
<1>5. CASE ReadEvents(k)
  <2>1. after[k] \in Nat /\ after[k] <= Cursor
    BY <1>5 DEF ReadEvents, IInv, TypeOK, WorkersBehind
  <2>2. PICK last \in after[k]..Len(journal) :
          batch' = [batch EXCEPT ![k] =
            [next |-> after[k] + 1, last |-> last,
             active |-> {n \in (after[k] + 1)..last : active[journal[n].wallet]}]]
    BY <1>5 DEF ReadEvents
  <2>3. batch'[k] = [next |-> after[k] + 1, last |-> last,
             active |-> {n \in (after[k] + 1)..last : active[journal[n].wallet]}]
    BY <2>2 DEF IInv, TypeOK
  <2>4. last \in Nat /\ last <= Len(journal) /\ (after[k] + 1)..last \subseteq Nat
    BY <2>1, <1>2
  <2>5. batch'[k] \in Batch /\ batch'[k].next \in 1..(Cursor + 1) /\ batch'[k].last <= Len(journal)
    BY <2>1, <2>3, <2>4, <1>2 DEF Batch
  <2> QED BY <1>3, <1>5, <2>2, <2>5 DEF ReadEvents, IInv, TypeOK
<1>6. CASE PassEvent(k)
  <2>1. batch[k] \in Batch /\ batch[k].next <= Cursor /\ batch[k].next \in 1..(Cursor + 1)
        /\ batch[k].last <= Len(journal)
    BY <1>6 DEF PassEvent, HasNext, Passed, Cursor, IInv, TypeOK, WorkersBehind
  <2>2. batch' = [batch EXCEPT ![k] = [batch[k] EXCEPT !.next = batch[k].next + 1]]
    BY <1>6 DEF PassEvent, Advance
  <2>3. [batch[k] EXCEPT !.next = batch[k].next + 1] \in Batch
    BY <2>1 DEF Batch
  <2>4. batch'[k].next = batch[k].next + 1 /\ batch'[k].last = batch[k].last /\ batch'[k] \in Batch
    BY <2>1, <2>2, <2>3 DEF Batch, IInv, TypeOK
  <2>5. batch'[k].next \in 1..(Cursor + 1) /\ batch'[k].last <= Len(journal)
    BY <1>2, <2>1, <2>4
  <2>6. \A l \in Workers \ {k} : batch'[l] = batch[l]
    BY <2>2 DEF IInv, TypeOK
  <2>7. after' = after /\ batch' = [l \in Workers |-> batch'[l]]
    BY <1>6, <2>2 DEF PassEvent, IInv, TypeOK
  <2> QED BY <1>3, <2>4, <2>5, <2>6, <2>7 DEF IInv, TypeOK
<1>7. CASE FailEvent(k) \/ EndBatch(k)
  BY <1>3, <1>7 DEF FailEvent, EndBatch, IInv, TypeOK
<1>8. CASE Crash(k)
  BY <1>3, <1>8 DEF Crash, IInv, TypeOK
<1> QED BY <1>1, <1>4, <1>5, <1>6, <1>7, <1>8

\* The rest of the service never moves the cursor back.
LEMMA ServiceIInv ==
  ASSUME IInv,
         \/ \E w \in Wallets : \/ \E bad, live \in BOOLEAN : Ingest(w, bad, live)
                               \/ \E value \in BOOLEAN : SetActive(w, value) \/ SetGate(w, value)
         \/ \E m \in queue : Settle(m)
         \/ Quarantine
  PROVE  /\ IInv'
         /\ \/ UNCHANGED <<Len(journal), Cursor, handled>>
            \/ Consumer!Produce
            \/ Consumer!Discard
<1>1. Cursor \in Nat /\ Len(journal) \in Nat /\ Cursor <= Len(journal)
  BY CursorType DEF IInv, TypeOK
<1>2. ASSUME NEW w \in Wallets, NEW bad \in BOOLEAN, NEW live \in BOOLEAN, Ingest(w, bad, live)
      PROVE  IInv' /\ Consumer!Produce
  <2> DEFINE e == [wallet |-> w, bad |-> bad, live |-> live]
  <2>1. e \in Event
    BY DEF Event
  <2>2. journal' = Append(journal, e)
        /\ UNCHANGED <<active, gate, offset, after, batch, queue, handled, boundary, crashes>>
    BY <1>2 DEF Ingest
  <2> HIDE DEF e
  <2>3. journal' \in Seq(Event) /\ Len(journal') = Len(journal) + 1
    BY <2>1, <2>2 DEF IInv, TypeOK
  <2>4. Cursor' = Cursor
    BY <2>2 DEF Cursor
  <2>5. TypeOK'
    BY <2>2, <2>3 DEF IInv, TypeOK
  <2>6. WorkersBehind'
    <3> SUFFICES ASSUME NEW k \in Workers
                 PROVE  /\ after[k] # Nil => after[k] <= Cursor
                        /\ batch[k] # Nil => /\ batch[k].next \in 1..(Cursor + 1)
                                             /\ batch[k].last <= Len(journal')
      BY <2>2, <2>4 DEF WorkersBehind
    <3>1. batch[k] # Nil => batch[k].last \in Nat
      BY DEF IInv, TypeOK, Batch
    <3> QED BY <3>1, <1>1, <2>3 DEF IInv, WorkersBehind
  <2>7. NothingBehindQuarantine' /\ boundary' <= Cursor' /\ Cursor' <= Len(journal')
    BY <1>1, <2>2, <2>3, <2>4 DEF IInv, NothingBehindQuarantine
  <2> QED BY <2>2, <2>3, <2>4, <2>5, <2>6, <2>7 DEF IInv, Consumer!Produce
<1>3. ASSUME UNCHANGED <<journal, offset, after, batch, handled, boundary, crashes>>,
             active' \in [Wallets -> BOOLEAN], gate' \in [Wallets -> BOOLEAN],
             queue' \subseteq queue
      PROVE  IInv' /\ UNCHANGED <<Len(journal), Cursor, handled>>
  <2>1. Cursor' = Cursor
    BY <1>3 DEF Cursor
  <2>2. TypeOK'
    BY <1>3 DEF IInv, TypeOK
  <2>3. WorkersBehind' /\ NothingBehindQuarantine'
    BY <1>3, <2>1 DEF IInv, WorkersBehind, NothingBehindQuarantine
  <2> QED BY <1>3, <2>1, <2>2, <2>3 DEF IInv
<1>4. ASSUME NEW w \in Wallets, NEW value \in BOOLEAN, SetActive(w, value) \/ SetGate(w, value)
      PROVE  IInv' /\ UNCHANGED <<Len(journal), Cursor, handled>>
  BY <1>3, <1>4 DEF SetActive, SetGate, IInv, TypeOK
<1>5. ASSUME NEW m \in queue, Settle(m)
      PROVE  IInv' /\ UNCHANGED <<Len(journal), Cursor, handled>>
  BY <1>3, <1>5 DEF Settle, IInv, TypeOK
<1>6. ASSUME Quarantine, offset = Nil
      PROVE  IInv' /\ UNCHANGED <<Len(journal), Cursor, handled>>
  <2>1. UNCHANGED <<journal, active, gate, offset, after, batch, handled, boundary, crashes>>
        /\ queue' = {}
    BY <1>6 DEF Quarantine
  <2> QED BY <1>3, <2>1 DEF IInv, TypeOK
<1>7. ASSUME Quarantine, offset # Nil
      PROVE  IInv' /\ Consumer!Discard
  <2>1. /\ UNCHANGED <<journal, active, gate, after, batch, handled, crashes>>
        /\ queue' = {} /\ offset' = Len(journal) /\ boundary' = Len(journal)
    BY <1>7 DEF Quarantine
  <2>2. Cursor' = Len(journal)
    BY <1>1, <2>1, NilAssumption DEF Cursor
  <2>3. TypeOK'
    BY <1>1, <2>1 DEF IInv, TypeOK
  <2>4. WorkersBehind'
    <3> SUFFICES ASSUME NEW k \in Workers
                 PROVE  /\ after[k] # Nil => after[k] <= Len(journal)
                        /\ batch[k] # Nil => /\ batch[k].next \in 1..(Len(journal) + 1)
                                             /\ batch[k].last <= Len(journal)
      BY <2>1, <2>2 DEF WorkersBehind
    <3>1. after[k] # Nil => after[k] \in Nat
      BY DEF IInv, TypeOK
    <3> QED BY <3>1, <1>1 DEF IInv, WorkersBehind
  <2> QED BY <1>1, <2>1, <2>2, <2>3, <2>4 DEF IInv, NothingBehindQuarantine, Consumer!Discard
<1> QED BY <1>2, <1>4, <1>5, <1>6, <1>7

-----------------------------------------------------------------------------
LEMMA Inductive == IInv /\ [Next]_vars => IInv'
<1> SUFFICES ASSUME IInv, [Next]_vars PROVE IInv'
  OBVIOUS
<1>1. CASE UNCHANGED vars
  BY <1>1 DEF vars, IInv, TypeOK, WorkersBehind, NothingBehindQuarantine, Cursor
<1>2. CASE Next
  BY <1>2, ServiceIInv, HandleIInv, ReadIInv DEF Next, Work
<1> QED BY <1>1, <1>2

\* A worker never starts beyond the event after the offset, its batch never ends beyond
\* the journal, and the offset never falls behind a quarantine (process_available,
\* quarantine_pending).
THEOREM Invariant == Spec => []IInv
BY InitIInv, Inductive, PTL DEF Spec

\* What a quarantine has passed over is never published afterwards, not even
\* from a batch read before it (process_available, quarantine_pending).
THEOREM NothingComesBack == Spec => []NothingBehindQuarantine
<1>1. IInv => NothingBehindQuarantine
  BY DEF IInv
<1> QED BY <1>1, Invariant, PTL

\* Any number of workers, overlapping and crashing, handle the journal as one
\* ordered consumer would: in order, nothing twice, nothing passed over but by
\* a quarantine (process_available).
THEOREM WorkersImplementConsumer == Spec => ConsumerSpec
<1>1. Init => Consumer!Init
  BY DEF Init, Consumer!Init, Cursor
<1>2. IInv /\ [Next]_vars => [Consumer!Next]_(Consumer!vars)
  <2> SUFFICES ASSUME IInv, [Next]_vars PROVE [Consumer!Next]_(Consumer!vars)
    OBVIOUS
  <2>1. CASE UNCHANGED vars
    BY <2>1 DEF vars, Cursor, Consumer!vars
  <2>2. CASE \E k \in Workers : SkipEvent(k) \/ ProcessEvent(k)
    BY <2>2, HandleIInv DEF Consumer!Next, Consumer!Consume
  <2>3. CASE \E k \in Workers : \/ ReadOffset(k) \/ ReadEvents(k) \/ PassEvent(k)
                                \/ FailEvent(k) \/ EndBatch(k) \/ Crash(k)
    BY <2>3, ReadIInv DEF Cursor, Consumer!vars
  <2>4. CASE \/ \E w \in Wallets :
                  \/ \E bad, live \in BOOLEAN : Ingest(w, bad, live)
                  \/ \E value \in BOOLEAN : SetActive(w, value) \/ SetGate(w, value)
             \/ \E m \in queue : Settle(m)
             \/ Quarantine
    BY <2>4, ServiceIInv DEF Consumer!Next, Consumer!vars
  <2> QED BY <2>1, <2>2, <2>3, <2>4 DEF Next, Work
<1> QED BY <1>1, <1>2, InitIInv, Inductive, PTL DEF Spec, ConsumerSpec, Consumer!Spec
=============================================================================
