-------------------------- MODULE ReadyQueueProofs --------------------------
(***************************************************************************)
(* What of ReadyQueue holds for every set of executors and messages, all   *)
(* lengths of lease, all delays, every bound on how long a call waits for  *)
(* the writer lock and on how many calls of an executor are under way.     *)
(***************************************************************************)
EXTENDS ReadyQueue, FiniteSetTheorems, TLAPS

LEMMA LeaseTimeType ==
  ASSUME NEW time \in Leases
  PROVE  LeaseTime(time) \in Nat /\ LeaseTime(time) >= 1
BY TimesAssumption DEF LeaseTime, Leases

LEMMA CallType ==
  ASSUME TypeOK, NEW k \in calls
  PROVE  /\ k \in Call /\ k.consumer \in Consumers /\ k.age \in Nat
         /\ k.op \in {"claim", "ack", "nack", "renew"}
BY TimesAssumption DEF TypeOK, Call

-----------------------------------------------------------------------------
(***************************************************************************)
(* The types, and what a step does to a row.                               *)
(***************************************************************************)
Leased(r) == r # Nil /\ r.status = "INFLIGHT" => r.lease \in Int

Typed ==
  /\ TypeOK
  /\ \A k \in calls : WellFormed(k)
  /\ \A m \in Messages : Leased(rows[m])

HistoryTyped == undone \subseteq Consumers \X Messages

\* Only what was believed in, or what an executor called for, is undone.
LEMMA HistoryType ==
  ASSUME TypeOK, \A k \in calls : WellFormed(k), [Next]_vars PROVE HistoryTyped'
<1> DEFINE Pairs == Consumers \X Messages
<1>1. undone \subseteq Pairs
  BY DEF TypeOK
<1>2. \A S : Believed(S) \subseteq S
  BY DEF Believed
<1>3. ASSUME NEW k \in calls, NEW m \in Messages, NEW time, Answered(k, m, time)
      PROVE  HistoryTyped'
  <2> DEFINE c == k.consumer
  <2>0. c \in Consumers
    BY CallType
  <2>1. undone \cup {<<c, m>>} \subseteq Pairs /\ undone \ {<<c, m>>} \subseteq Pairs
    BY <1>1, <2>0
  <2> HIDE DEF Pairs
  <2>2. undone' \subseteq Pairs
    BY <1>2, <1>3, <2>1 DEF Answered
  <2> QED BY <2>2 DEF HistoryTyped, Pairs
<1>4. CASE undone' = undone \/ undone' = Believed(undone)
  BY <1>1, <1>2, <1>4 DEF HistoryTyped
<1>5. ASSUME NEW k \in calls, Nack(k) PROVE HistoryTyped'
  <2>1. k.consumer \in Consumers /\ k.message \in Messages
    BY <1>5, CallType DEF Nack, WellFormed
  <2>2. undone \cup {<<k.consumer, k.message>>} \subseteq Pairs
    BY <1>1, <2>1
  <2> HIDE DEF Pairs
  <2>3. undone' \subseteq Pairs
    BY <1>1, <1>2, <1>5, <2>2 DEF Nack
  <2> QED BY <2>3 DEF HistoryTyped, Pairs
<1>6. ASSUME NEW k \in calls, Claim(k) PROVE HistoryTyped'
  <2>1. \/ undone' = undone
        \/ \E m \in Messages : Answered(k, m, LeaseTime(k.time) - k.age)
    BY <1>6 DEF Claim, First
  <2> QED BY <1>3, <1>4, <2>1
<1>7. ASSUME NEW k \in calls, Renew(k) PROVE HistoryTyped'
  <2>1. k.message \in Messages
    BY <1>7, CallType DEF Renew, WellFormed
  <2>2. \/ undone' = undone
        \/ Answered(k, k.message, LeaseTime(k.time) - k.age)
    BY <1>7 DEF Renew
  <2> QED BY <1>3, <1>4, <2>1, <2>2
<1>8. ASSUME NEW k \in calls, Ack(k) \/ Lost(k) \/ GiveUp(k) PROVE HistoryTyped'
  BY <1>4, <1>8 DEF Ack, Lost, GiveUp
<1>9. CASE \/ \E m \in Messages : Publish(m)
           \/ \E c \in Consumers :
                \/ Crash(c)
                \/ \E time \in ClaimLeases : SendClaim(c, time)
                \/ \E m \in Messages : \/ SendAck(c, m)
                                       \/ \E time \in RenewLeases : SendRenew(c, m, time)
                                       \/ \E delay \in Delays : SendNack(c, m, delay)
           \/ Quarantine \/ Tick \/ UNCHANGED vars
  BY <1>4, <1>9 DEF Publish, Crash, SendClaim, SendAck, SendRenew, SendNack, Quarantine, Tick, vars
<1> QED BY <1>5, <1>6, <1>7, <1>8, <1>9 DEF Next

LEMMA SendTyped ==
  ASSUME Typed, NEW c \in Consumers, NEW op \in {"claim", "ack", "nack", "renew"},
         NEW m \in Messages \cup {Nil}, NEW time \in Leases \cup Delays \cup {Nil},
         op = "claim" => time \in ClaimLeases, op = "renew" => time \in RenewLeases,
         op = "nack" => time \in Delays, op # "claim" => m \in Messages,
         Send(c, op, m, time)
  PROVE  calls' \subseteq Call /\ (\A k \in calls' : WellFormed(k)) /\ rows' = rows
<1> DEFINE new == [consumer |-> c, op |-> op, message |-> m, time |-> time, age |-> 0,
                   live |-> TRUE]
<1>1. new \in Call /\ WellFormed(new)
  BY TimesAssumption DEF Call, WellFormed, Leases
<1>2. calls' = calls \cup {new} /\ rows' = rows
  BY DEF Send
<1> HIDE DEF new
<1> QED BY <1>1, <1>2 DEF Typed, TypeOK

LEMMA RequestsTyped ==
  ASSUME Typed, HistoryTyped', NEW c \in Consumers,
         \/ \E time \in ClaimLeases : SendClaim(c, time)
         \/ \E m \in Messages : \/ SendAck(c, m)
                                \/ \E time \in RenewLeases : SendRenew(c, m, time)
                                \/ \E delay \in Delays : SendNack(c, m, delay)
  PROVE  Typed' /\ rows' = rows
<1>0. holds \in [Consumers -> [Messages -> Nat]] /\ failures \in Nat
      /\ rows \in [Messages -> Row \cup {Nil}]
  BY DEF Typed, TypeOK
<1>1. ASSUME NEW time \in ClaimLeases, SendClaim(c, time) PROVE Typed' /\ rows' = rows
  <2>1. calls' \subseteq Call /\ (\A k \in calls' : WellFormed(k)) /\ rows' = rows
    BY <1>1, SendTyped DEF SendClaim, Leases
  <2> QED BY <1>0, <1>1, <2>1 DEF SendClaim, Typed, TypeOK, HistoryTyped, WellFormed, Leased
<1>2. ASSUME NEW m \in Messages, SendAck(c, m) PROVE Typed' /\ rows' = rows
  <2>1. calls' \subseteq Call /\ (\A k \in calls' : WellFormed(k)) /\ rows' = rows
    BY <1>2, SendTyped DEF SendAck
  <2> QED BY <1>0, <1>2, <2>1 DEF SendAck, Typed, TypeOK, HistoryTyped, WellFormed, Leased
<1>3. ASSUME NEW m \in Messages, NEW time \in RenewLeases, SendRenew(c, m, time)
      PROVE  Typed' /\ rows' = rows
  <2>1. calls' \subseteq Call /\ (\A k \in calls' : WellFormed(k)) /\ rows' = rows
    BY <1>3, SendTyped DEF SendRenew, Leases
  <2> QED BY <1>0, <1>3, <2>1 DEF SendRenew, Typed, TypeOK, HistoryTyped, WellFormed, Leased
<1>4. ASSUME NEW m \in Messages, NEW delay \in Delays, SendNack(c, m, delay)
      PROVE  Typed' /\ rows' = rows
  <2>1. calls' \subseteq Call /\ (\A k \in calls' : WellFormed(k)) /\ rows' = rows
    BY <1>4, SendTyped DEF SendNack
  <2> QED BY <1>0, <1>4, <2>1 DEF SendNack, Typed, TypeOK, HistoryTyped, WellFormed, Leased
<1> QED BY <1>1, <1>2, <1>3, <1>4

\* An answer that grants a lease leaves numbers.
LEMMA AnsweredTyped ==
  ASSUME Typed, NEW k, NEW m, NEW lease \in Int, Answered(k, m, lease)
  PROVE  holds' \in [Consumers -> [Messages -> Nat]] /\ failures' \in Nat
BY DEF Answered, Typed, TypeOK

\* A call that nobody awaits any more asks for the same.
LEMMA AbandonedCall ==
  ASSUME TypeOK, NEW k \in calls
  PROVE  /\ Abandoned(k) \in Call
         /\ Abandoned(k).consumer = k.consumer /\ Abandoned(k).op = k.op
         /\ Abandoned(k).message = k.message /\ Abandoned(k).time = k.time
         /\ Abandoned(k).age = k.age
BY CallType DEF Abandoned, Call

LEMMA AbandonedTyped ==
  ASSUME Typed, NEW k \in calls PROVE Abandoned(k) \in Call /\ WellFormed(Abandoned(k))
BY AbandonedCall DEF Typed, WellFormed

\* Every step keeps the types, leaves settled rows as they are, and hands out
\* only rows that are due.
Verdicts ==
  \A m \in Messages : Settled(m) => Settled(m)' /\ rows'[m].status = rows[m].status
HandOvers ==
  \A m \in Published :
    /\ rows[m].consumer # rows'[m].consumer
    /\ rows'[m].status = "INFLIGHT"
    => rows[m].available <= 0 /\ (rows[m].status = "INFLIGHT" => rows[m].lease <= 0)

LEMMA SameRows ==
  ASSUME Typed, rows' = rows PROVE Verdicts /\ HandOvers
BY DEF Verdicts, HandOvers, Settled, Published

LEMMA ClaimTyped ==
  ASSUME Typed, HistoryTyped', NEW k \in calls, Claim(k) PROVE Typed' /\ Verdicts /\ HandOvers
<1> DEFINE lease == LeaseTime(k.time) - k.age
<1>1. calls' = calls \ {k} /\ k.time \in Leases /\ k.age \in Nat /\ k.consumer \in Consumers
  BY CallType DEF Claim, Typed, WellFormed, Leases
<1>2. lease \in Int
  BY <1>1, LeaseTimeType
<1>3. CASE UNCHANGED <<rows, holds, failures>>
  <2>1. Typed'
    BY <1>1, <1>3 DEF Typed, TypeOK, HistoryTyped, WellFormed, Leased
  <2> QED BY <1>3, <2>1, SameRows
<1>4. ASSUME NEW m \in Messages, Available(m, k.age),
             rows' = [rows EXCEPT ![m] = [@ EXCEPT !.status = "INFLIGHT", !.lease = lease,
                                                   !.consumer = k.consumer]],
             Answered(k, m, lease)
      PROVE  Typed' /\ Verdicts /\ HandOvers
  <2>1. rows[m] \in Row /\ ~Settled(m)
    BY <1>4 DEF Typed, TypeOK, Available, Published, Settled
  <2>2. holds' \in [Consumers -> [Messages -> Nat]] /\ failures' \in Nat
    BY <1>2, <1>4, AnsweredTyped
  <2> HIDE DEF lease
  <2>3. rows'[m] \in Row /\ (\A i \in Messages \ {m} : rows'[i] = rows[i])
        /\ rows' \in [Messages -> Row \cup {Nil}] /\ Leased(rows'[m])
    BY <1>1, <1>2, <1>4, <2>1 DEF Typed, TypeOK, Row, Statuses, Leased
  <2>4. Typed'
    BY <1>1, <2>2, <2>3 DEF Typed, TypeOK, HistoryTyped, WellFormed, Leased
  <2>5. Verdicts
    BY <2>1, <2>3 DEF Verdicts, Settled, Published
  <2>6. rows[m].available <= 0 /\ (rows[m].status = "INFLIGHT" => rows[m].lease <= 0)
    <3>1. rows[m].available \in Int /\ rows[m].available <= -k.age
      BY <1>4, <2>1 DEF Available, Row
    <3>2. rows[m].status = "INFLIGHT" => rows[m].lease <= -k.age
      BY <1>4 DEF Available
    <3>3. rows[m].status = "INFLIGHT" => rows[m].lease \in Int
      BY <2>1, NilAssumption DEF Typed, Leased
    <3> QED BY <1>1, <3>1, <3>2, <3>3
  <2>7. HandOvers
    BY <2>3, <2>6 DEF HandOvers, Published
  <2> QED BY <2>4, <2>5, <2>7
<1> QED BY <1>3, <1>4 DEF Claim, First

LEMMA RenewTyped ==
  ASSUME Typed, HistoryTyped', NEW k \in calls, Renew(k) PROVE Typed' /\ Verdicts /\ HandOvers
<1> DEFINE m == k.message
           lease == LeaseTime(k.time) - k.age
<1>1. calls' = calls \ {k} /\ k.time \in Leases /\ k.age \in Nat
  BY CallType DEF Renew, Typed, WellFormed, Leases
<1>2. lease \in Int
  BY <1>1, LeaseTimeType
<1>3. CASE UNCHANGED <<rows, holds, failures>>
  <2>1. Typed'
    BY <1>1, <1>3 DEF Typed, TypeOK, HistoryTyped, WellFormed, Leased
  <2> QED BY <1>3, <2>1, SameRows
<1>4. CASE /\ InFlight(m, k.consumer)
           /\ rows' = [rows EXCEPT ![m] = [@ EXCEPT !.lease = lease]]
           /\ Answered(k, m, lease) \/ UNCHANGED <<holds, failures>>
  <2>1. m \in Messages /\ rows[m] \in Row /\ ~Settled(m)
    BY <1>4 DEF Typed, TypeOK, InFlight, Published, Settled
  <2>2. holds' \in [Consumers -> [Messages -> Nat]] /\ failures' \in Nat
    BY <1>2, <1>4, AnsweredTyped DEF Typed, TypeOK
  <2> HIDE DEF lease
  <2>3. rows'[m] \in Row /\ rows'[m].consumer = rows[m].consumer /\ Leased(rows'[m])
        /\ (\A i \in Messages \ {m} : rows'[i] = rows[i])
        /\ rows' \in [Messages -> Row \cup {Nil}]
    BY <1>2, <1>4, <2>1 DEF Typed, TypeOK, Row, Statuses, Leased
  <2>4. Typed'
    BY <1>1, <2>2, <2>3 DEF Typed, TypeOK, HistoryTyped, WellFormed, Leased
  <2>5. Verdicts
    BY <2>1, <2>3 DEF Verdicts, Settled, Published
  <2>6. HandOvers
    BY <2>3 DEF HandOvers, Published
  <2> QED BY <2>4, <2>5, <2>6
<1> QED BY <1>3, <1>4 DEF Renew

LEMMA AckNackTyped ==
  ASSUME Typed, HistoryTyped', NEW k \in calls, Ack(k) \/ Nack(k) PROVE Typed' /\ Verdicts /\ HandOvers
<1> DEFINE m == k.message
<1>1. calls' = calls \ {k} /\ holds' = holds /\ failures' = failures
  BY DEF Ack, Nack
<1>2. CASE rows' = rows
  <2>1. Typed'
    BY <1>1, <1>2 DEF Typed, TypeOK, HistoryTyped, WellFormed, Leased
  <2> QED BY <1>2, <2>1, SameRows
<1>3. CASE InFlight(m, k.consumer)
  <2>1. m \in Messages /\ rows[m] \in Row /\ ~Settled(m)
    BY <1>3 DEF Typed, TypeOK, InFlight, Published, Settled
  <2>2. /\ \A i \in Messages \ {m} : rows'[i] = rows[i]
        /\ rows'[m] \in Row /\ rows'[m].status # "INFLIGHT"
        /\ rows' \in [Messages -> Row \cup {Nil}]
    <3>1. CASE Ack(k)
      BY <1>3, <2>1, <3>1 DEF Ack, Typed, TypeOK, Row, Statuses
    <3>2. CASE Nack(k)
      <4>1. k.op = "nack" /\ WellFormed(k)
        BY <3>2 DEF Nack, Typed
      <4>2. k.time \in Delays
        BY <4>1 DEF WellFormed
      <4>3. \A time \in Delays : time \in Int
        BY TimesAssumption
      <4>4. k.time \in Int
        BY <4>2, <4>3
      <4> QED BY <1>3, <2>1, <3>2, <4>4 DEF Nack, Typed, TypeOK, Row, Statuses
    <3> QED BY <3>1, <3>2
  <2>3. Typed'
    BY <1>1, <2>2 DEF Typed, TypeOK, HistoryTyped, WellFormed, Leased
  <2>4. Verdicts
    BY <2>1, <2>2 DEF Verdicts, Settled, Published
  <2>5. HandOvers
    BY <2>2 DEF HandOvers, Published
  <2> QED BY <2>3, <2>4, <2>5
<1> QED BY <1>2, <1>3 DEF Ack, Nack

LEMMA TickTyped ==
  ASSUME Typed, HistoryTyped', Tick PROVE Typed' /\ Verdicts /\ HandOvers
<1>1. \A time \in Int \cup {Nil} : Later(time) \in Int \cup {Nil}
  BY TimesAssumption DEF Later
<1>2. \A time \in Int : Later(time) \in Int
  BY TimesAssumption, NilAssumption DEF Later
<1>3. ASSUME NEW m \in Messages
      PROVE  /\ rows'[m] \in Row \cup {Nil}
             /\ rows[m] = Nil => rows'[m] = Nil
             /\ rows[m] # Nil => /\ rows'[m] \in Row /\ rows'[m].status = rows[m].status
                                 /\ rows'[m].consumer = rows[m].consumer
             /\ Leased(rows'[m])
  <2>1. CASE rows[m] = Nil
    BY <2>1 DEF Tick, Leased
  <2>2. CASE rows[m] # Nil
    <3>1. rows[m] \in Row /\ Leased(rows[m])
      BY <2>2 DEF Typed, TypeOK
    <3>2. rows'[m] = [rows[m] EXCEPT !.available = Later(@), !.lease = Later(@)]
      BY <2>2 DEF Tick
    <3> QED BY <2>2, <3>1, <3>2, <1>1, <1>2 DEF Row, Leased
  <2> QED BY <2>1, <2>2
<1>4. rows' \in [Messages -> Row \cup {Nil}]
  BY <1>3 DEF Tick
<1>5. holds' \in [Consumers -> [Messages -> Nat]] /\ failures' \in Nat
  <2>1. \A c \in Consumers, m \in Messages :
          (IF holds[c][m] > 0 THEN holds[c][m] - 1 ELSE 0) \in Nat
    BY DEF Typed, TypeOK
  <2>2. failures \in Nat /\ failures' \in {failures, failures + 1}
    BY DEF Tick, Typed, TypeOK
  <2>3. holds' \in [Consumers -> [Messages -> Nat]]
    BY <2>1 DEF Tick
  <2> QED BY <2>2, <2>3
<1>6. calls' \subseteq Call /\ \A k \in calls' : WellFormed(k)
  <2>1. calls' = {[k EXCEPT !.age = @ + 1] : k \in calls}
    BY DEF Tick
  <2>2. ASSUME NEW k \in calls
        PROVE  [k EXCEPT !.age = @ + 1] \in Call /\ WellFormed([k EXCEPT !.age = @ + 1])
    <3>1. k \in Call /\ k.age \in Nat /\ k.age < MaxAge /\ WellFormed(k)
      BY CallType DEF Typed, Tick
    <3>2. k.age + 1 \in 0..MaxAge
      BY <3>1, TimesAssumption
    <3> QED BY <3>1, <3>2 DEF Call, WellFormed
  <2> QED BY <2>1, <2>2
<1>7. Typed'
  BY <1>3, <1>4, <1>5, <1>6 DEF Typed, TypeOK, HistoryTyped
<1>8. Verdicts
  BY <1>3, NilAssumption DEF Verdicts, Settled, Published
<1>9. HandOvers
  BY <1>3 DEF HandOvers, Published
<1> QED BY <1>7, <1>8, <1>9

LEMMA StepTyped ==
  ASSUME Typed, [Next]_vars PROVE Typed' /\ Verdicts /\ HandOvers
<1>0. HistoryTyped'
  BY HistoryType DEF Typed
<1>1. ASSUME NEW m \in Messages, Publish(m) PROVE Typed' /\ Verdicts /\ HandOvers
  <2>1. rows[m] = Nil /\ calls' = calls /\ holds' = holds /\ failures' = failures
    BY <1>0, <1>1 DEF Publish, Published
  <2>2. rows'[m] \in Row /\ rows'[m].status # "INFLIGHT" /\ (\A i \in Messages \ {m} : rows'[i] = rows[i])
        /\ rows' \in [Messages -> Row \cup {Nil}]
    BY <1>0, <1>1 DEF Publish, Typed, TypeOK, Row, Statuses
  <2>3. Typed'
    BY <1>0, <2>1, <2>2 DEF Typed, TypeOK, HistoryTyped, WellFormed, Leased
  <2>4. Verdicts /\ HandOvers
    BY <2>1, <2>2, NilAssumption DEF Verdicts, HandOvers, Settled, Published
  <2> QED BY <2>3, <2>4
<1>2. CASE \E c \in Consumers :
             \/ \E time \in ClaimLeases : SendClaim(c, time)
             \/ \E m \in Messages : \/ SendAck(c, m)
                                    \/ \E time \in RenewLeases : SendRenew(c, m, time)
                                    \/ \E delay \in Delays : SendNack(c, m, delay)
  BY <1>0, <1>2, RequestsTyped, SameRows
<1>3. ASSUME NEW c \in Consumers, Crash(c) PROVE Typed' /\ Verdicts /\ HandOvers
  <2>1. holds' \in [Consumers -> [Messages -> Nat]] /\ failures' \in Nat /\ rows' = rows
    BY <1>3 DEF Crash, Typed, TypeOK
  <2>2. calls' \subseteq Call /\ \A k \in calls' : WellFormed(k)
    <3>1. \A k \in calls : k \in Call /\ WellFormed(k)
      BY DEF Typed, TypeOK
    <3>2. \A k \in calls' : k \in calls \/ \E l \in calls : k = Abandoned(l)
      BY <1>3 DEF Crash
    <3> QED BY <3>1, <3>2, AbandonedTyped
  <2>3. Typed'
    BY <1>0, <2>1, <2>2 DEF Typed, TypeOK, HistoryTyped, Leased
  <2> QED BY <2>1, <2>3, SameRows
<1>4. ASSUME NEW k \in calls, Claim(k) \/ Ack(k) \/ Nack(k) \/ Renew(k)
      PROVE  Typed' /\ Verdicts /\ HandOvers
  BY <1>0, <1>4, ClaimTyped, AckNackTyped, RenewTyped
<1>5. ASSUME NEW k \in calls, Lost(k) PROVE Typed' /\ Verdicts /\ HandOvers
  <2>1. failures' \in Nat /\ rows' = rows /\ calls' = calls \ {k} /\ holds' = holds
    BY <1>0, <1>5 DEF Lost, Typed, TypeOK
  <2>2. Typed'
    BY <1>0, <2>1 DEF Typed, TypeOK, HistoryTyped, WellFormed, Leased
  <2> QED BY <2>1, <2>2, SameRows
<1>6. ASSUME NEW k \in calls, GiveUp(k) PROVE Typed' /\ Verdicts /\ HandOvers
  <2>1. failures' \in Nat /\ rows' = rows /\ holds' = holds
        /\ calls' = (calls \ {k}) \cup {Abandoned(k)}
    BY <1>6 DEF GiveUp, Typed, TypeOK
  <2>2. calls' \subseteq Call /\ \A l \in calls' : WellFormed(l)
    BY <2>1, AbandonedTyped DEF Typed, TypeOK
  <2>3. Typed'
    BY <1>0, <2>1, <2>2 DEF Typed, TypeOK, HistoryTyped, Leased
  <2> QED BY <2>1, <2>3, SameRows
<1>7. CASE Quarantine
  <2>1. calls' = calls /\ holds' = holds /\ failures' = failures
    BY <1>0, <1>7 DEF Quarantine
  <2>2. \A m \in Messages :
          \/ rows'[m] = rows[m]
          \/ ~Settled(m) /\ rows[m] \in Row /\ rows'[m] \in Row /\ rows'[m].status # "INFLIGHT"
    BY <1>0, <1>7 DEF Quarantine, Typed, TypeOK, Published, Row, Statuses
  <2>3. rows' \in [Messages -> Row \cup {Nil}]
    BY <1>0, <1>7, <2>2 DEF Quarantine, Typed, TypeOK
  <2>4. Typed'
    BY <1>0, <2>1, <2>2, <2>3 DEF Typed, TypeOK, HistoryTyped, WellFormed, Leased
  <2>5. Verdicts /\ HandOvers
    BY <2>2 DEF Verdicts, HandOvers, Settled, Published
  <2> QED BY <2>4, <2>5
<1>8. CASE Tick
  BY <1>0, <1>8, TickTyped
<1>9. CASE UNCHANGED vars
  <2>1. Typed' /\ rows' = rows
    BY <1>0, <1>9 DEF vars, Typed, TypeOK, HistoryTyped, WellFormed, Leased
  <2> QED BY <2>1, SameRows
<1> QED BY <1>1, <1>2, <1>3, <1>4, <1>5, <1>6, <1>7, <1>8, <1>9 DEF Next

LEMMA InitTyped == Init => Typed
BY DEF Init, Typed, TypeOK, Leased

\* A settled message keeps its verdict, whatever calls of executors that held it
\* before arrive late: any number of calls under way, any leases and delays, any
\* wait for the writer lock (ready_queue.py:58-72).
THEOREM VerdictsAreFinal == Spec => SettledIsFinal
<1>1. Typed /\ [Next]_vars => Typed' /\ [Verdicts]_vars
  BY StepTyped
<1> QED BY <1>1, InitTyped, PTL DEF Spec, SettledIsFinal, Verdicts

\* No message changes hands before its delay or its lease is over, in the same
\* generality (ready_queue.py:48-56).
THEOREM HandOversAreDue == Spec => HandedOverWhenDue
<1>1. Typed /\ [Next]_vars => Typed' /\ [HandOvers]_vars
  BY StepTyped
<1> QED BY <1>1, InitTyped, PTL DEF Spec, HandedOverWhenDue, HandOvers
-----------------------------------------------------------------------------
(***************************************************************************)
(* What the executors believe.  One that trusts its lease (it believes in  *)
(* it, and has not undone it) is named by the row, for at least as long.   *)
(***************************************************************************)
Trusts(c, m) == holds[c][m] > 0 /\ <<c, m>> \notin undone

\* What a step owes to each executor: one that trusts its lease afterwards is
\* covered, and nobody gets hold of a settled message.
Kept(c, m) == Trusts(c, m)' => Covered(c, m)' /\ (Settled(m)' => Trusts(c, m))

LEMMA CoveredTrust ==
  ASSUME BeliefCovered, NEW c \in Consumers, NEW m \in Messages, Trusts(c, m)
  PROVE  \/ Settled(m)
         \/ /\ m \in Published /\ rows[m].status = "INFLIGHT" /\ rows[m].consumer = c
            /\ rows[m].lease \in Int /\ rows[m].lease >= holds[c][m]
BY DEF BeliefCovered, Covered, Trusts

LEMMA BelievedPairs ==
  ASSUME NEW S, undone' = Believed(S), NEW c, NEW m, Trusts(c, m)' PROVE <<c, m>> \notin S
BY DEF Believed, Trusts

\* Two executors that trust their leases of one message are both named by its row.
LEMMA NoneShared ==
  ASSUME IInv, \A c \in Consumers, m \in Messages : Kept(c, m)
  PROVE  BeliefCovered' /\ SharedByOwnCallOnly'
<1>1. BeliefCovered'
  BY DEF Kept, Trusts, BeliefCovered, Covered
<1>2. ASSUME NEW m \in Messages, NEW c \in Consumers, NEW d \in Consumers, c # d,
             Trusts(c, m)', Trusts(d, m)'
      PROVE  FALSE
  <2>1. Covered(c, m)' /\ Covered(d, m)'
    BY <1>2 DEF Kept
  <2>2. Settled(m)'
    BY <1>2, <2>1 DEF Covered, Trusts
  <2>3. Trusts(c, m) /\ Trusts(d, m)
    BY <1>2, <2>2 DEF Kept
  <2>4. SharedByOwnCallOnly
    BY DEF IInv
  <2> QED BY <1>2, <2>3, <2>4 DEF SharedByOwnCallOnly, Trusts
<1>3. SharedByOwnCallOnly'
  BY <1>2 DEF SharedByOwnCallOnly, Trusts
<1> QED BY <1>1, <1>3

\* A step that leaves the row alone, or settles it, and adds no trust.
LEMMA KeptByRow ==
  ASSUME IInv, NEW c \in Consumers, NEW m \in Messages,
         Trusts(c, m)' => Trusts(c, m) /\ holds'[c][m] = holds[c][m],
         rows'[m] = rows[m] \/ Settled(m)'
  PROVE  Kept(c, m)
<1> SUFFICES ASSUME Trusts(c, m)' PROVE Covered(c, m)'
  BY DEF Kept
<1>1. CASE Settled(m)'
  BY <1>1 DEF Covered
<1>2. CASE rows'[m] = rows[m]
  <2>1. \/ Settled(m)
        \/ /\ m \in Published /\ rows[m].status = "INFLIGHT" /\ rows[m].consumer = c
           /\ rows[m].lease \in Int /\ rows[m].lease >= holds[c][m]
    BY CoveredTrust DEF IInv
  <2> QED BY <1>2, <2>1 DEF Covered, Settled, Published
<1> QED BY <1>1, <1>2

\* A request changes no row; what its executor stops believing, it does not trust.
LEMMA RequestKept ==
  ASSUME IInv, rows' = rows,
         \/ holds' = holds /\ undone' = undone
         \/ /\ \A c \in Consumers, m \in Messages :
                 holds'[c][m] > 0 => holds'[c][m] = holds[c][m]
            /\ undone' = Believed(undone),
         NEW c \in Consumers, NEW m \in Messages
  PROVE  Kept(c, m)
<1>1. Trusts(c, m)' => Trusts(c, m) /\ holds'[c][m] = holds[c][m]
  <2>1. CASE holds' = holds /\ undone' = undone
    BY <2>1 DEF Trusts
  <2>2. CASE undone' = Believed(undone)
             /\ (holds'[c][m] > 0 => holds'[c][m] = holds[c][m])
    BY <2>2, BelievedPairs DEF Trusts
  <2> QED BY <2>1, <2>2
<1> QED BY <1>1, KeptByRow

\* A call of g gives it a lease of message i that nobody else trusts one of.
Grants(k, g, i, lease) ==
  /\ k.consumer = g
  /\ \A j \in Messages \ {i} : rows'[j] = rows[j]
  /\ rows'[i] \in Row /\ rows'[i].status = "INFLIGHT"
  /\ rows'[i].consumer = g /\ rows'[i].lease = lease
  /\ \A d \in Consumers \ {g} : ~Trusts(d, i)
  /\ \/ Answered(k, i, lease)
     \/ holds[g][i] = 0 /\ UNCHANGED <<holds, undone>>

LEMMA GrantKept ==
  ASSUME IInv, NEW k, NEW g \in Consumers, NEW i \in Messages, NEW lease \in Int,
         Grants(k, g, i, lease), NEW c \in Consumers, NEW m \in Messages
  PROVE  Kept(c, m)
<1> USE DEF Grants
<1>0. holds \in [Consumers -> [Messages -> Nat]]
  BY DEF IInv, TypeOK
<1>1. c # g \/ m # i => holds'[c][m] = holds[c][m]
  BY <1>0 DEF Answered
<1>2. c # g \/ m # i => (Trusts(c, m)' => Trusts(c, m))
  <2>1. CASE UNCHANGED <<holds, undone>>
    BY <2>1 DEF Trusts
  <2>2. ASSUME Answered(k, i, lease), c # g \/ m # i, Trusts(c, m)'
        PROVE  Trusts(c, m)
    <3>1. \/ undone' = Believed(undone \cup {<<g, i>>})
          \/ undone' = Believed(undone \ {<<g, i>>})
      BY <2>2 DEF Answered
    <3>2. <<c, m>> \notin undone \cup {<<g, i>>} \/ <<c, m>> \notin undone \ {<<g, i>>}
      BY <2>2, <3>1, BelievedPairs
    <3>3. <<c, m>> \notin undone
      BY <2>2, <3>2
    <3> QED BY <1>1, <2>2, <3>3 DEF Trusts
  <2> QED BY <2>1, <2>2
<1>3. CASE m # i
  BY <1>1, <1>2, <1>3, KeptByRow DEF Trusts
<1>4. CASE m = i /\ c # g
  BY <1>2, <1>4 DEF Kept
<1>5. CASE m = i /\ c = g
  <2>1. ~Settled(m)' /\ m \in Published'
    BY <1>5, NilAssumption DEF Settled, Published
  <2>2. Trusts(c, m)' => holds'[c][m] <= lease
    <3>1. CASE UNCHANGED <<holds, undone>> /\ holds[g][i] = 0
      BY <1>5, <3>1 DEF Trusts
    <3>2. ASSUME Answered(k, i, lease), Trusts(c, m)' PROVE holds'[c][m] <= lease
      <4>1. ASSUME holds'[g][i] > lease PROVE FALSE
        <5>1. undone' = Believed(undone \cup {<<g, i>>})
          BY <3>2, <4>1 DEF Answered
        <5> QED BY <1>5, <3>2, <5>1, BelievedPairs
      <4>2. holds'[g][i] \in Int
        BY <1>0, <3>2 DEF Answered
      <4> QED BY <1>5, <4>1, <4>2
    <3> QED BY <3>1, <3>2
  <2> QED BY <1>5, <2>1, <2>2 DEF Kept, Covered
<1> QED BY <1>3, <1>4, <1>5

LEMMA PublishKept ==
  ASSUME IInv, NEW p \in Messages, Publish(p), NEW c \in Consumers, NEW m \in Messages
  PROVE  Kept(c, m)
<1>1. rows[p] = Nil /\ holds' = holds /\ undone' = undone
      /\ \A i \in Messages \ {p} : rows'[i] = rows[i]
  BY DEF Publish, Published, IInv, TypeOK
<1>2. CASE m = p
  BY <1>1, <1>2, CoveredTrust DEF Kept, Trusts, IInv, Settled, Published
<1>3. CASE m # p
  BY <1>1, <1>3, KeptByRow DEF Trusts
<1> QED BY <1>2, <1>3

\* The requests, the loss of one, an answer that is not awaited, and a crash.
LEMMA UnseenKept ==
  ASSUME IInv,
         \/ \E d \in Consumers :
              \/ Crash(d)
              \/ \E time \in ClaimLeases : SendClaim(d, time)
              \/ \E i \in Messages : \/ SendAck(d, i)
                                     \/ \E time \in RenewLeases : SendRenew(d, i, time)
                                     \/ \E delay \in Delays : SendNack(d, i, delay)
         \/ \E k \in calls : Lost(k) \/ GiveUp(k),
         NEW c \in Consumers, NEW m \in Messages
  PROVE  Kept(c, m)
<1>0. holds \in [Consumers -> [Messages -> Nat]]
  BY DEF IInv, TypeOK
<1>1. ASSUME NEW d \in Consumers, Crash(d) PROVE Kept(c, m)
  <2>1. \A e \in Consumers, i \in Messages : holds'[e][i] > 0 => holds'[e][i] = holds[e][i]
    BY <1>0, <1>1 DEF Crash
  <2> QED BY <1>1, <2>1, RequestKept DEF Crash
<1>2. ASSUME NEW d \in Consumers, NEW i \in Messages,
             SendAck(d, i) \/ \E delay \in Delays : SendNack(d, i, delay)
      PROVE  Kept(c, m)
  <2>1. rows' = rows /\ undone' = Believed(undone) /\ holds' = [holds EXCEPT ![d][i] = 0]
    BY <1>2 DEF SendAck, SendNack, Send
  <2>2. \A e \in Consumers, j \in Messages : holds'[e][j] > 0 => holds'[e][j] = holds[e][j]
    BY <1>0, <2>1
  <2> QED BY <2>1, <2>2, RequestKept
<1>3. CASE rows' = rows /\ holds' = holds /\ undone' = undone
  BY <1>3, RequestKept
<1> QED BY <1>1, <1>2, <1>3 DEF SendClaim, SendRenew, Send, Lost, GiveUp

LEMMA ClaimKept ==
  ASSUME IInv, Typed, NEW k \in calls, Claim(k), NEW c \in Consumers, NEW m \in Messages
  PROVE  Kept(c, m)
<1> DEFINE lease == LeaseTime(k.time) - k.age
<1>0. k.time \in Leases /\ k.age \in Nat /\ k.consumer \in Consumers
  BY CallType DEF Claim, Typed, WellFormed, Leases
<1>1. k.consumer \in Consumers /\ k.age \in Nat /\ lease \in Int
  BY <1>0, LeaseTimeType
<1>2. CASE UNCHANGED <<rows, holds, undone>>
  BY <1>2, RequestKept
<1>3. ASSUME NEW i \in Messages, Available(i, k.age),
             rows' = [rows EXCEPT ![i] = [@ EXCEPT !.status = "INFLIGHT", !.lease = lease,
                                                   !.consumer = k.consumer]],
             Answered(k, i, lease)
      PROVE  Kept(c, m)
  <2>1. rows[i] \in Row
    BY <1>3 DEF IInv, TypeOK, Available, Published
  <2>2. \A d \in Consumers : ~Trusts(d, i)
    <3> SUFFICES ASSUME NEW d \in Consumers, Trusts(d, i) PROVE FALSE
      OBVIOUS
    <3>1. \/ Settled(i)
          \/ /\ rows[i].status = "INFLIGHT" /\ rows[i].lease \in Int
             /\ rows[i].lease >= holds[d][i]
      BY CoveredTrust DEF IInv
    <3>2. rows[i].status = "INFLIGHT" /\ rows[i].lease <= -k.age
      BY <1>3, <3>1 DEF Available, Settled
    <3>3. holds[d][i] \in Nat /\ holds[d][i] > 0
      BY DEF IInv, TypeOK, Trusts
    <3>4. rows[i].lease \in Int /\ rows[i].lease >= holds[d][i]
      BY <3>1, <3>2 DEF Settled
    <3> QED BY <1>1, <3>2, <3>3, <3>4
  <2> HIDE DEF lease
  <2>3. rows'[i] \in Row /\ rows'[i].status = "INFLIGHT" /\ rows'[i].lease = lease
        /\ rows'[i].consumer = k.consumer
        /\ \A j \in Messages \ {i} : rows'[j] = rows[j]
    BY <1>1, <1>3, <2>1 DEF IInv, TypeOK, Row, Statuses
  <2>4. \A d \in Consumers \ {k.consumer} : ~Trusts(d, i)
    BY <2>2
  <2>5. \/ Answered(k, i, lease)
        \/ holds[k.consumer][i] = 0 /\ UNCHANGED <<holds, undone>>
    BY <1>3
  <2>6. Grants(k, k.consumer, i, lease)
    BY <2>3, <2>4, <2>5 DEF Grants
  <2> QED BY <1>1, <2>6, GrantKept
<1> QED BY <1>2, <1>3 DEF Claim, First

LEMMA RenewKept ==
  ASSUME IInv, Typed, NEW k \in calls, Renew(k), NEW c \in Consumers, NEW m \in Messages
  PROVE  Kept(c, m)
<1> DEFINE i == k.message
           lease == LeaseTime(k.time) - k.age
<1>0. k.time \in Leases /\ k.age \in Nat /\ k.consumer \in Consumers /\ i \in Messages
  BY CallType DEF Renew, Typed, WellFormed, Leases
<1>1. k.consumer \in Consumers /\ i \in Messages /\ lease \in Int
  BY <1>0, LeaseTimeType
<1>2. CASE UNCHANGED <<rows, holds, undone>>
  BY <1>2, RequestKept
<1>3. CASE /\ InFlight(i, k.consumer)
           /\ rows' = [rows EXCEPT ![i] = [@ EXCEPT !.lease = lease]]
           /\ \/ Answered(k, i, lease)
              \/ ~(holds[k.consumer][i] > 0) /\ UNCHANGED <<holds, undone>>
  <2>1. rows[i] \in Row /\ rows[i].status = "INFLIGHT" /\ rows[i].consumer = k.consumer
    BY <1>1, <1>3 DEF IInv, TypeOK, InFlight, Published
  <2>2. \A d \in Consumers \ {k.consumer} : ~Trusts(d, i)
    BY <1>1, <2>1, CoveredTrust DEF IInv, Settled
  <2>3. holds[k.consumer][i] \in Nat
    BY <1>1 DEF IInv, TypeOK
  <2> HIDE DEF lease
  <2>4. rows'[i] \in Row /\ rows'[i].status = "INFLIGHT" /\ rows'[i].lease = lease
        /\ rows'[i].consumer = k.consumer
        /\ \A j \in Messages \ {i} : rows'[j] = rows[j]
    BY <1>1, <1>3, <2>1 DEF IInv, TypeOK, Row, Statuses
  <2>5. \/ Answered(k, i, lease)
        \/ holds[k.consumer][i] = 0 /\ UNCHANGED <<holds, undone>>
    BY <1>3, <2>3
  <2>6. Grants(k, k.consumer, i, lease)
    BY <2>2, <2>4, <2>5 DEF Grants
  <2> HIDE DEF i
  <2> QED BY <1>1, <2>6, GrantKept
<1> QED BY <1>2, <1>3 DEF Renew

\* An acknowledgement settles the message; whoever gives one back undoes its lease.
LEMMA AckNackKept ==
  ASSUME IInv, Typed, NEW k \in calls, Ack(k) \/ Nack(k),
         NEW c \in Consumers, NEW m \in Messages
  PROVE  Kept(c, m)
<1> DEFINE i == k.message
<1>1. k.consumer \in Consumers /\ i \in Messages /\ holds' = holds
  BY CallType DEF Ack, Nack, Typed, WellFormed
<1>2. CASE rows' = rows /\ undone' = undone
  BY <1>1, <1>2, RequestKept
<1>3. CASE InFlight(i, k.consumer) /\ Ack(k)
  <2>1. rows[i] \in Row
    BY <1>1, <1>3 DEF IInv, TypeOK, InFlight, Published
  <2>2. rows' = [rows EXCEPT ![i] = [rows[i] EXCEPT !.status = "ACKED", !.lease = Nil]]
        /\ undone' = undone
    BY <1>3 DEF Ack
  <2>3. rows'[i] \in Row /\ rows'[i].status = "ACKED"
        /\ \A j \in Messages \ {i} : rows'[j] = rows[j]
    BY <1>1, <2>1, <2>2 DEF IInv, TypeOK, Row, Statuses
  <2>4. rows'[m] = rows[m] \/ Settled(m)'
    BY <1>1, <2>3, NilAssumption DEF Settled, Published
  <2> QED BY <1>1, <2>2, <2>4, KeptByRow DEF Trusts
<1>4. CASE InFlight(i, k.consumer) /\ Nack(k)
  <2>1. /\ undone' = Believed(undone \cup {<<k.consumer, i>>})
        /\ \A j \in Messages \ {i} : rows'[j] = rows[j]
    BY <1>1, <1>4 DEF Nack, IInv, TypeOK
  <2>2. Trusts(c, m)' => Trusts(c, m) /\ <<c, m>> # <<k.consumer, i>>
    BY <1>1, <2>1, BelievedPairs DEF Trusts
  <2>3. CASE m # i
    BY <1>1, <2>1, <2>2, <2>3, KeptByRow
  <2>4. CASE m = i
    <3>1. ~Trusts(c, m) \/ c = k.consumer
      BY <1>4, <2>4, CoveredTrust DEF IInv, InFlight, Settled
    <3> QED BY <2>2, <2>4, <3>1 DEF Kept
  <2> QED BY <2>3, <2>4
<1> QED BY <1>2, <1>3, <1>4 DEF Ack, Nack

LEMMA QuarantineKept ==
  ASSUME IInv, Quarantine, NEW c \in Consumers, NEW m \in Messages PROVE Kept(c, m)
<1>1. holds' = holds /\ undone' = undone
  BY DEF Quarantine
<1>2. rows'[m] = rows[m] \/ Settled(m)'
  <2>1. CASE m \in Published /\ ~Settled(m)
    <3>1. rows[m] \in Row
      BY <2>1 DEF IInv, TypeOK, Published
    <3>2. rows'[m] = [rows[m] EXCEPT !.status = "QUARANTINED", !.lease = Nil, !.consumer = Nil]
      BY <2>1 DEF Quarantine
    <3>3. rows'[m] \in Row /\ rows'[m].status = "QUARANTINED"
      BY <3>1, <3>2 DEF Row, Statuses
    <3> QED BY <3>3, NilAssumption DEF Settled, Published
  <2>2. CASE ~(m \in Published /\ ~Settled(m))
    BY <2>2 DEF Quarantine
  <2> QED BY <2>1, <2>2
<1> QED BY <1>1, <1>2, KeptByRow DEF Trusts

\* The row's lease and the belief in it run down together.
LEMMA TickKept ==
  ASSUME IInv, Typed, Typed', Tick, NEW c \in Consumers, NEW m \in Messages PROVE Kept(c, m)
<1> SUFFICES ASSUME Trusts(c, m)' PROVE Covered(c, m)' /\ Trusts(c, m)
  BY DEF Kept
<1>1. holds[c][m] \in Nat /\ holds'[c][m] = IF holds[c][m] > 0 THEN holds[c][m] - 1 ELSE 0
  BY DEF Tick, IInv, TypeOK
<1>2. Trusts(c, m) /\ holds'[c][m] = holds[c][m] - 1 /\ holds[c][m] > 1
  <2>1. <<c, m>> \notin undone
    BY BelievedPairs DEF Tick
  <2>2. holds'[c][m] > 0
    BY DEF Trusts
  <2> QED BY <1>1, <2>1, <2>2 DEF Trusts
<1>3. rows[m] # Nil =>
        /\ rows[m] \in Row
        /\ rows'[m] = [rows[m] EXCEPT !.available = Later(@), !.lease = Later(@)]
  BY DEF Tick, IInv, TypeOK
<1>4. CASE Settled(m)
  BY <1>2, <1>3, <1>4, TickTyped DEF Verdicts, Covered, Typed, IInv, TypeOK, HistoryTyped
<1>5. CASE /\ m \in Published /\ rows[m].status = "INFLIGHT" /\ rows[m].consumer = c
           /\ rows[m].lease \in Int /\ rows[m].lease >= holds[c][m]
  <2>1. Later(rows[m].lease) = rows[m].lease - 1
    BY <1>1, <1>2, <1>5, TimesAssumption, NilAssumption DEF Later
  <2>2. rows[m] # Nil /\ rows'[m] \in Row \cup {Nil}
    BY <1>5 DEF Published, Typed, TypeOK
  <2>3. rows'[m].status = "INFLIGHT" /\ rows'[m].consumer = c
        /\ rows'[m].lease = rows[m].lease - 1
    BY <1>3, <1>5, <2>1, <2>2 DEF Row
  <2>4. rows'[m] \in Row
    <3>1. rows[m].available \in Int /\ Later(rows[m].available) \in Int
      BY <1>3, <2>2, TimesAssumption, NilAssumption DEF Row, Later
    <3>2. rows[m].lease - 1 \in Int
      BY <1>5
    <3> QED BY <1>3, <2>1, <2>2, <3>1, <3>2 DEF Row
  <2> QED BY <1>1, <1>2, <1>5, <2>3, <2>4, NilAssumption DEF Covered, Published
<1> QED BY <1>2, <1>4, <1>5, CoveredTrust DEF IInv

LEMMA NextIInv == ASSUME IInv, Typed, [Next]_vars PROVE IInv' /\ Typed'
<1>1. Typed' /\ TypeOK' /\ CallsWellFormed'
  BY StepTyped DEF Typed, CallsWellFormed
<1>2. ASSUME NEW c \in Consumers, NEW m \in Messages PROVE Kept(c, m)
  <2>1. CASE \E p \in Messages : Publish(p)
    BY <2>1, PublishKept
  <2>2. CASE \/ \E d \in Consumers :
                  \/ Crash(d)
                  \/ \E time \in ClaimLeases : SendClaim(d, time)
                  \/ \E i \in Messages : \/ SendAck(d, i)
                                         \/ \E time \in RenewLeases : SendRenew(d, i, time)
                                         \/ \E delay \in Delays : SendNack(d, i, delay)
             \/ \E k \in calls : Lost(k) \/ GiveUp(k)
    BY <2>2, UnseenKept
  <2>3. CASE \E k \in calls : Claim(k) \/ Ack(k) \/ Nack(k) \/ Renew(k)
    BY <2>3, ClaimKept, AckNackKept, RenewKept
  <2>4. CASE Quarantine
    BY <2>4, QuarantineKept
  <2>5. CASE Tick
    BY <2>5, <1>1, TickKept
  <2>6. CASE UNCHANGED vars
    BY <2>6, RequestKept DEF vars
  <2> QED BY <2>1, <2>2, <2>3, <2>4, <2>5, <2>6 DEF Next
<1> QED BY <1>1, <1>2, NoneShared DEF IInv

LEMMA InitIInv == Init => IInv
BY DEF Init, IInv, TypeOK, CallsWellFormed, BeliefCovered, Covered, SharedByOwnCallOnly

\* Without any condition on the leases asked for, on the delays, on the wait for the
\* writer lock or on the number of calls under way: an executor that has not undone its
\* lease is named by the row of the message until it stops believing
\* (ready_queue.py:48-72).
THEOREM Invariant == Spec => []IInv
<1>1. IInv /\ Typed /\ [Next]_vars => IInv' /\ Typed'
  BY NextIInv
<1> QED BY <1>1, InitIInv, InitTyped, PTL DEF Spec

\* In the same generality: two executors act on one message only after a call of one of
\* the two itself ended its lease or left the row a shorter one.
THEOREM SharingIsOwnDoing == Spec => []SharedByOwnCallOnly
<1>1. IInv => SharedByOwnCallOnly
  BY DEF IInv
<1> QED BY Invariant, <1>1, PTL
-----------------------------------------------------------------------------
(***************************************************************************)
(* Executors that undo no lease of their own: each renews for no less than *)
(* any lease it asks for, and sends no call while one of its earlier calls *)
(* is on its way.  Without the first a renewal may shorten a lease;        *)
(* without the second a late nack opens a message that its executor has    *)
(* claimed again.  The defaults of the API meet the first: 30 s to claim,  *)
(* 90 s to renew (api.py:63, 97).                                          *)
(***************************************************************************)
RenewsLonger == \A s \in Leases, time \in RenewLeases : LeaseTime(s) <= LeaseTime(time)

OneCall == \A k, l \in calls : k.consumer = l.consumer => k = l

\* No two executors act on one message.
LeaseExclusive ==
  \A m \in Messages, c, d \in Consumers : holds[c][m] > 0 /\ holds[d][m] > 0 => c = d

\* No lease is longer than one that a renewal asks for.
BeliefBounded ==
  \A c \in Consumers, m \in Messages, time \in RenewLeases : holds[c][m] <= LeaseTime(time)

\* A request under way cannot make the row fall short of the belief.
CallCovered(k) ==
  /\ k.op = "claim" => \A m \in Messages : holds[k.consumer][m] = 0
  /\ k.op \in {"ack", "nack"} => holds[k.consumer][k.message] = 0
  /\ k.op = "renew" /\ holds[k.consumer][k.message] > 0
       => holds[k.consumer][k.message] + k.age <= LeaseTime(k.time)
CallsCovered == \A k \in calls : CallCovered(k)

\* What IInv and the types leave to prove about them.
Own == OneCall /\ BeliefBounded /\ CallsCovered /\ undone = {}
Known == IInv /\ Typed /\ Own

LEMMA NothingUndone ==
  ASSUME undone = {}, undone' = undone \/ undone' = Believed(undone) PROVE undone' = {}
BY DEF Believed

LEMMA LeaseOfRenewal ==
  ASSUME TypeOK, NEW time \in RenewLeases PROVE LeaseTime(time) \in Nat
BY LeaseTimeType DEF Leases

\* A request that only adds a call: what the new call must satisfy.
LEMMA SendOwn ==
  ASSUME Known, OneCall', NEW c \in Consumers,
         NEW op \in {"claim", "ack", "nack", "renew"}, NEW m \in Messages \cup {Nil},
         NEW time, Send(c, op, m, time),
         op = "renew" => time \in RenewLeases,
         op # "claim" => m \in Messages,
         op = "claim" => \A i \in Messages : holds[c][i] = 0,
         \/ UNCHANGED <<holds, undone>> /\ op \notin {"ack", "nack"}
         \/ /\ holds' = [holds EXCEPT ![c][m] = 0] /\ undone' = Believed(undone)
            /\ op \in {"ack", "nack"}
  PROVE  Own'
<1> DEFINE new == [consumer |-> c, op |-> op, message |-> m, time |-> time, age |-> 0,
                   live |-> TRUE]
<1>0. holds \in [Consumers -> [Messages -> Nat]] /\ TypeOK
  BY DEF Known, IInv, TypeOK
<1>1. calls' = calls \cup {new} /\ \A k \in calls : k = new \/ k.consumer # c
  <2>1. calls' = calls \cup {new}
    BY DEF Send
  <2>2. new.consumer = c
    OBVIOUS
  <2> HIDE DEF new
  <2> QED BY <2>1, <2>2 DEF OneCall
<1>3. \A d \in Consumers, i \in Messages : holds'[d][i] = holds[d][i] \/ holds'[d][i] = 0
  <2>1. CASE holds' = holds
    BY <2>1
  <2>2. CASE holds' = [holds EXCEPT ![c][m] = 0]
    BY <1>0, <2>2
  <2> QED BY <2>1, <2>2
<1>4. BeliefBounded'
  BY <1>0, <1>3, LeaseOfRenewal DEF Known, Own, BeliefBounded
<1>5. CallsCovered'
  <2> SUFFICES ASSUME NEW k \in calls' PROVE CallCovered(k)'
    BY DEF CallsCovered
  <2>1. CASE k \in calls /\ k # new
    <3>1. k.consumer # c /\ k.consumer \in Consumers
      BY <1>0, <1>1, <2>1, CallType
    <3>2. holds'[k.consumer] = holds[k.consumer]
      BY <1>0, <3>1
    <3> QED BY <2>1, <3>2 DEF Known, Own, CallsCovered, CallCovered
  <2>2. CASE k = new
    <3>1. op = "renew" => holds[c][m] + 0 <= LeaseTime(time)
      <4> SUFFICES ASSUME op = "renew" PROVE holds[c][m] + 0 <= LeaseTime(time)
        OBVIOUS
      <4>1. holds[c][m] \in Nat /\ time \in RenewLeases
        BY <1>0
      <4>2. holds[c][m] <= LeaseTime(time)
        BY <4>1 DEF Known, Own, BeliefBounded
      <4> QED BY <4>1, <4>2
    <3>2. op \in {"ack", "nack"} => holds'[c][m] = 0
      BY <1>0
    <3> QED BY <2>2, <3>1, <3>2 DEF CallCovered
  <2> QED BY <1>1, <2>1, <2>2
<1>6. undone' = {}
  BY NothingUndone DEF Known, Own
<1> QED BY <1>4, <1>5, <1>6 DEF Own

LEMMA RequestsOwn ==
  ASSUME Known, OneCall', NEW c \in Consumers,
         \/ \E time \in ClaimLeases : SendClaim(c, time)
         \/ \E m \in Messages : \/ SendAck(c, m)
                                \/ \E time \in RenewLeases : SendRenew(c, m, time)
                                \/ \E delay \in Delays : SendNack(c, m, delay)
  PROVE  Own'
<1>1. ASSUME NEW time \in ClaimLeases, SendClaim(c, time) PROVE Own'
  BY <1>1, SendOwn DEF SendClaim
<1>2. ASSUME NEW m \in Messages, SendAck(c, m) PROVE Own'
  BY <1>2, SendOwn DEF SendAck
<1>3. ASSUME NEW m \in Messages, NEW time \in RenewLeases, SendRenew(c, m, time) PROVE Own'
  BY <1>3, SendOwn DEF SendRenew
<1>4. ASSUME NEW m \in Messages, NEW delay \in Delays, SendNack(c, m, delay) PROVE Own'
  BY <1>4, SendOwn DEF SendNack
<1> QED BY <1>1, <1>2, <1>3, <1>4

\* A call that is done leaves its executor with none; the others stay covered.
LEMMA Done ==
  ASSUME Known, NEW k \in calls, calls' = calls \ {k},
         \A d \in Consumers : d # k.consumer => holds'[d] = holds[d]
  PROVE  OneCall' /\ CallsCovered'
<1>1. OneCall'
  BY DEF Known, Own, OneCall
<1>2. ASSUME NEW l \in calls' PROVE CallCovered(l)'
  <2>1. l \in calls /\ l.consumer # k.consumer
    BY DEF Known, Own, OneCall
  <2>2. CallCovered(l) /\ l.consumer \in Consumers
    BY <2>1, CallType DEF Known, Own, CallsCovered, IInv
  <2>3. holds'[l.consumer] = holds[l.consumer]
    BY <2>1, <2>2
  <2> QED BY <2>2, <2>3 DEF CallCovered
<1> QED BY <1>1, <1>2 DEF CallsCovered

\* A call whose answer changes no belief.
LEMMA QuietOwn ==
  ASSUME Known, NEW k \in calls, calls' = calls \ {k}, UNCHANGED <<holds, undone>> PROVE Own'
<1>1. OneCall' /\ CallsCovered'
  BY Done
<1>2. BeliefBounded' /\ undone' = {}
  BY DEF Known, Own, BeliefBounded
<1> QED BY <1>1, <1>2 DEF Own

\* An answer that grants no less than its executor believes in undoes nothing.
LEMMA AnsweredOwn ==
  ASSUME Known, RenewsLonger, NEW k \in calls, calls' = calls \ {k}, NEW m \in Messages,
         k.time \in Leases, NEW lease \in Int, lease = LeaseTime(k.time) - k.age,
         holds[k.consumer][m] > 0 => holds[k.consumer][m] <= lease,
         Answered(k, m, lease)
  PROVE  Own'
<1> DEFINE c == k.consumer
           new == IF lease > 0 THEN lease ELSE 0
<1>0. holds \in [Consumers -> [Messages -> Nat]] /\ c \in Consumers /\ k.age \in Nat
      /\ LeaseTime(k.time) \in Nat
  BY CallType, LeaseTimeType DEF Known, IInv, TypeOK
<1>1. holds' = holds \/ holds' = [holds EXCEPT ![c][m] = new]
  BY DEF Answered
<1>2. new \in Nat /\ new <= LeaseTime(k.time)
  BY <1>0
<1> HIDE DEF new
<1>3. \A d \in Consumers, i \in Messages :
        \/ holds'[d][i] = holds[d][i]
        \/ holds'[d][i] = new /\ d = c /\ i = m
  BY <1>0, <1>1
<1>4. OneCall' /\ CallsCovered'
  <2>1. \A d \in Consumers : d # c => holds'[d] = holds[d]
    BY <1>0, <1>1
  <2> QED BY <2>1, Done
<1>5. BeliefBounded'
  <2> SUFFICES ASSUME NEW d \in Consumers, NEW i \in Messages, NEW time \in RenewLeases
               PROVE  holds'[d][i] <= LeaseTime(time)
    BY DEF BeliefBounded
  <2>1. LeaseTime(k.time) <= LeaseTime(time) /\ LeaseTime(time) \in Nat
    BY LeaseOfRenewal DEF RenewsLonger, Known, IInv
  <2>2. holds[d][i] <= LeaseTime(time)
    BY DEF Known, Own, BeliefBounded
  <2> QED BY <1>0, <1>2, <1>3, <2>1, <2>2
<1>6. holds'[c][m] > 0 => holds'[c][m] <= lease
  <2>1. holds'[c][m] = holds[c][m] \/ holds'[c][m] = new
    BY <1>0, <1>3
  <2>2. new > 0 => new = lease
    BY DEF new
  <2> QED BY <2>1, <2>2
<1>7. undone' = {}
  <2>1. CASE holds'[c][m] > lease
    <3>1. ~(holds'[c][m] > 0)
      <4>1. holds'[c][m] \in Int
        BY <1>0, <1>2, <1>3
      <4> QED BY <1>6, <2>1, <4>1
    <3>2. undone' = Believed({<<c, m>>})
      BY <2>1 DEF Answered, Known, Own
    <3> QED BY <3>1, <3>2 DEF Believed
  <2>2. CASE ~(holds'[c][m] > lease)
    <3>1. undone' = Believed({})
      BY <2>2 DEF Answered, Known, Own
    <3> QED BY <3>1 DEF Believed
  <2> QED BY <2>1, <2>2
<1> QED BY <1>4, <1>5, <1>7 DEF Own

LEMMA ClaimOwn ==
  ASSUME Known, RenewsLonger, NEW k \in calls, Claim(k) PROVE Own'
<1>1. k.time \in Leases /\ calls' = calls \ {k} /\ k.age \in Nat
      /\ \A i \in Messages : holds[k.consumer][i] = 0
  BY CallType DEF Claim, Known, Typed, WellFormed, Leases, Own, CallsCovered, CallCovered
<1>2. LeaseTime(k.time) - k.age \in Int
  BY <1>1, LeaseTimeType
<1>3. CASE UNCHANGED <<holds, undone>>
  BY <1>1, <1>3, QuietOwn
<1>4. ASSUME NEW m \in Messages, Answered(k, m, LeaseTime(k.time) - k.age) PROVE Own'
  <2>1. ~(holds[k.consumer][m] > 0)
    BY <1>1
  <2> QED BY <1>1, <1>2, <1>4, <2>1, AnsweredOwn
<1> QED BY <1>3, <1>4 DEF Claim, First

LEMMA RenewOwn ==
  ASSUME Known, RenewsLonger, NEW k \in calls, Renew(k) PROVE Own'
<1> DEFINE m == k.message
<1>1. k.time \in Leases /\ calls' = calls \ {k} /\ k.age \in Nat /\ m \in Messages
      /\ k.consumer \in Consumers
      /\ (holds[k.consumer][m] > 0 => holds[k.consumer][m] + k.age <= LeaseTime(k.time))
  BY CallType DEF Renew, Known, Typed, WellFormed, Leases, Own, CallsCovered, CallCovered
<1>2. holds[k.consumer][m] \in Nat /\ LeaseTime(k.time) \in Nat
  BY <1>1, LeaseTimeType DEF Known, IInv, TypeOK
<1>3. CASE UNCHANGED <<holds, undone>>
  BY <1>1, <1>3, QuietOwn
<1>4. CASE Answered(k, m, LeaseTime(k.time) - k.age)
  <2>1. holds[k.consumer][m] > 0 => holds[k.consumer][m] <= LeaseTime(k.time) - k.age
    BY <1>1, <1>2
  <2>2. LeaseTime(k.time) - k.age \in Int
    BY <1>1, <1>2
  <2> QED BY <1>1, <1>4, <2>1, <2>2, AnsweredOwn
<1> QED BY <1>3, <1>4 DEF Renew

\* Whoever gives a message back has stopped believing in its lease.
LEMMA AckNackOwn ==
  ASSUME Known, NEW k \in calls, Ack(k) \/ Nack(k) PROVE Own'
<1>1. calls' = calls \ {k} /\ holds' = holds
  BY DEF Ack, Nack
<1>2. undone' = {}
  <2>1. CASE undone' = undone
    BY <2>1 DEF Known, Own
  <2>2. CASE Nack(k) /\ undone' = Believed(undone \cup {<<k.consumer, k.message>>})
    <3>1. holds[k.consumer][k.message] = 0
      BY <2>2 DEF Nack, Known, Own, CallsCovered, CallCovered
    <3> QED BY <1>1, <2>2, <3>1 DEF Believed, Known, Own
  <2> QED BY <2>1, <2>2 DEF Ack, Nack
<1>3. undone' = undone
  BY <1>2 DEF Known, Own
<1> QED BY <1>1, <1>3, QuietOwn

LEMMA CrashOwn == ASSUME Known, OneCall', NEW c \in Consumers, Crash(c) PROVE Own'
<1>0. holds \in [Consumers -> [Messages -> Nat]] /\ TypeOK
  BY DEF Known, IInv, TypeOK
<1>1. /\ \A d \in Consumers, m \in Messages : holds'[d][m] = holds[d][m] \/ holds'[d][m] = 0
      /\ \A k \in calls' : k \in calls \/ \E l \in calls : k = Abandoned(l)
  BY <1>0 DEF Crash
<1>2. undone' = {}
  BY NothingUndone DEF Crash, Known, Own
<1>3. BeliefBounded'
  BY <1>0, <1>1, LeaseOfRenewal DEF Known, Own, BeliefBounded
<1>4. ASSUME NEW k \in calls PROVE CallCovered(k)'
  <2>1. k.consumer \in Consumers /\ CallCovered(k)
        /\ (k.op # "claim" => k.message \in Messages)
    BY <1>0, CallType DEF Known, Typed, WellFormed, Own, CallsCovered
  <2> QED BY <1>1, <2>1 DEF CallCovered
<1>5. ASSUME NEW k \in calls PROVE CallCovered(Abandoned(k))'
  BY <1>0, <1>4, AbandonedCall DEF CallCovered
<1> QED BY <1>1, <1>2, <1>3, <1>4, <1>5 DEF Own, CallsCovered

LEMMA GiveUpOwn == ASSUME Known, OneCall', NEW k \in calls, GiveUp(k) PROVE Own'
<1>0. TypeOK /\ holds' = holds /\ undone' = undone
      /\ calls' = (calls \ {k}) \cup {Abandoned(k)}
  BY DEF GiveUp, Known, IInv
<1>1. \A l \in calls : CallCovered(l)'
  BY <1>0 DEF Known, Own, CallsCovered, CallCovered
<1>2. CallCovered(Abandoned(k))'
  BY <1>0, <1>1, AbandonedCall DEF CallCovered
<1>3. BeliefBounded' /\ undone' = {}
  BY <1>0 DEF Known, Own, BeliefBounded
<1> QED BY <1>0, <1>1, <1>2, <1>3 DEF Own, CallsCovered

\* A call under way grows older by as much as the belief it renews gets shorter.
LEMMA TickOwn == ASSUME Known, Tick PROVE Own'
<1> DEFINE Aged(k) == [k EXCEPT !.age = @ + 1]
<1>0. TypeOK /\ calls' = {Aged(k) : k \in calls}
  BY DEF Tick, Known, IInv
<1>1. ASSUME NEW k \in calls
      PROVE  /\ Aged(k).age = k.age + 1 /\ Aged(k).consumer = k.consumer /\ Aged(k).op = k.op
             /\ Aged(k).message = k.message /\ Aged(k).time = k.time
  BY <1>0, CallType DEF Call
<1>2. \A c \in Consumers, m \in Messages :
        /\ holds[c][m] \in Nat
        /\ holds'[c][m] = IF holds[c][m] > 0 THEN holds[c][m] - 1 ELSE 0
  BY <1>0 DEF Tick, TypeOK
<1>3. BeliefBounded'
  BY <1>0, <1>2, LeaseOfRenewal DEF Known, Own, BeliefBounded
<1>4. OneCall'
  <2> HIDE DEF Aged
  <2> SUFFICES ASSUME NEW k \in calls, NEW l \in calls, Aged(k).consumer = Aged(l).consumer
               PROVE  Aged(k) = Aged(l)
    BY <1>0 DEF OneCall
  <2>1. k = l
    BY <1>1 DEF Known, Own, OneCall
  <2> QED BY <2>1
<1>5. CallsCovered'
  <2> SUFFICES ASSUME NEW k \in calls PROVE CallCovered(Aged(k))'
    BY <1>0 DEF CallsCovered
  <2>1. CallCovered(k) /\ k.consumer \in Consumers /\ k.age \in Nat
        /\ (k.op # "claim" => k.message \in Messages)
        /\ (k.op = "renew" => LeaseTime(k.time) \in Nat)
    BY <1>0, CallType, LeaseOfRenewal DEF Known, Typed, WellFormed, Own, CallsCovered
  <2> HIDE DEF Aged
  <2>2. CASE k.op \in {"claim", "ack", "nack"}
    BY <1>1, <1>2, <2>1, <2>2 DEF CallCovered
  <2>3. CASE k.op = "renew"
    BY <1>1, <1>2, <2>1, <2>3 DEF CallCovered
  <2> QED BY <1>0, <2>2, <2>3, CallType
<1>6. undone' = {}
  BY NothingUndone DEF Tick, Known, Own
<1> QED BY <1>3, <1>4, <1>5, <1>6 DEF Own

LEMMA NextOwn == ASSUME Known, RenewsLonger, OneCall', [Next]_vars PROVE Own'
<1>1. CASE \E m \in Messages : Publish(m)
  BY <1>1 DEF Publish, Known, Own, OneCall, BeliefBounded, CallsCovered, CallCovered
<1>2. CASE \E c \in Consumers : Crash(c)
  BY <1>2, CrashOwn
<1>3. CASE \E c \in Consumers :
             \/ \E time \in ClaimLeases : SendClaim(c, time)
             \/ \E m \in Messages : \/ SendAck(c, m)
                                    \/ \E time \in RenewLeases : SendRenew(c, m, time)
                                    \/ \E delay \in Delays : SendNack(c, m, delay)
  BY <1>3, RequestsOwn
<1>4. CASE \E k \in calls : Claim(k) \/ Ack(k) \/ Nack(k) \/ Renew(k)
  BY <1>4, ClaimOwn, AckNackOwn, RenewOwn
<1>5. CASE \E k \in calls : Lost(k)
  BY <1>5, QuietOwn DEF Lost
<1>6. CASE \E k \in calls : GiveUp(k)
  BY <1>6, GiveUpOwn
<1>7. CASE Quarantine
  BY <1>7 DEF Quarantine, Known, Own, OneCall, BeliefBounded, CallsCovered, CallCovered
<1>8. CASE Tick
  BY <1>8, TickOwn
<1>9. CASE UNCHANGED vars
  BY <1>9 DEF vars, Known, Own, OneCall, BeliefBounded, CallsCovered, CallCovered
<1> QED BY <1>1, <1>2, <1>3, <1>4, <1>5, <1>6, <1>7, <1>8, <1>9 DEF Next

LEMMA InitOwn == Init => Own
<1> SUFFICES ASSUME Init PROVE Own
  OBVIOUS
<1>1. OneCall /\ CallsCovered /\ undone = {}
  BY DEF Init, OneCall, CallsCovered
<1>2. BeliefBounded
  BY LeaseTimeType DEF Init, BeliefBounded, Leases
<1> QED BY <1>1, <1>2 DEF Own

\* Executors of this kind never share a message, however many there are, however late
\* their requests are, however many answers are lost or given up, and however often they
\* crash: with a 30 s claim and a 90 s renewal as with any other lengths of which the
\* renewal's is the longest (ready_queue.py:48-72).
THEOREM OneHolder == ASSUME RenewsLonger PROVE Spec /\ []OneCall => []LeaseExclusive
<1>1. Init /\ OneCall => Known
  BY InitIInv, InitTyped, InitOwn DEF Known
<1>2. Known /\ OneCall' /\ [Next]_vars => Known'
  BY NextIInv, NextOwn DEF Known
<1>3. Known => LeaseExclusive
  BY DEF Known, Own, IInv, SharedByOwnCallOnly, LeaseExclusive
<1> QED BY <1>1, <1>2, <1>3, PTL DEF Spec
=============================================================================
