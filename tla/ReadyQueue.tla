----------------------------- MODULE ReadyQueue -----------------------------
(***************************************************************************)
(* The durable queue of execution intents (src/tme/ready_queue.py) and the *)
(* executors that claim, renew, acknowledge and give back its messages.    *)
(*                                                                         *)
(* Time is relative: a column that holds a time is the number of ticks     *)
(* until it, so the model runs for ever in finitely many states.  claim    *)
(* and renew read the clock before they wait for SQLite's writer lock      *)
(* (ready_queue.py:49-50, 69-70), so a call carries the age of its reading:*)
(* it takes as present a moment that is age ticks in the past.  A column   *)
(* stops at -MaxAge, where every call sees it as past.                     *)
(*                                                                         *)
(* The executors are not in the repository.  An executor acts on a message *)
(* while it believes its lease runs, as the answers it received say; it    *)
(* may crash, and its requests and their answers may be late or lost.      *)
(***************************************************************************)
EXTENDS Integers, FiniteSets

CONSTANTS
  Consumers,
  Messages,     \* source sequence numbers, in the order they are published
  ClaimLeases,  \* lease lengths that executors ask for with a claim, in ticks
  RenewLeases,  \* lease lengths that they ask for with a renewal
  Delays,       \* delays that executors give messages back with
  MaxAge,       \* bounds how long a call waits for the writer lock
  MaxCalls,     \* bounds the calls that one executor awaits
  MaxFailures,  \* bounds crashes, calls given up, messages given back, lost requests
                \* and answers, and leases that lapse
  Nil

ASSUME MessagesAssumption == Messages \subseteq Nat
ASSUME TimesAssumption ==
  ClaimLeases \subseteq Nat /\ RenewLeases \subseteq Nat /\ Delays \subseteq Nat /\ MaxAge \in Nat

VARIABLES
  rows,      \* ready_queue: message -> row, Nil before it is published
  calls,     \* calls that have not reached their transaction, live while they are awaited
  holds,     \* how long each executor believes to hold each message
  failures,  \* how many failures there have been
  undone     \* history: <<executor, message>> whose lease a call of the executor itself
             \* ended or shortened, behind its back

vars == <<rows, calls, holds, failures, undone>>
-----------------------------------------------------------------------------
Statuses == {"READY", "INFLIGHT", "ACKED", "QUARANTINED"}
Leases   == ClaimLeases \cup RenewLeases
Row      == [status : Statuses, available : Int, lease : Int \cup {Nil},
             consumer : Consumers \cup {Nil}]
Call     == [consumer : Consumers, op : {"claim", "ack", "nack", "renew"},
             message : Messages \cup {Nil}, time : Leases \cup Delays \cup {Nil}, age : 0..MaxAge,
             live : BOOLEAN]

ASSUME NilAssumption == Nil \notin Int /\ Nil \notin Row /\ Nil \notin Consumers

TypeOK ==
  /\ rows \in [Messages -> Row \cup {Nil}]
  /\ calls \subseteq Call
  /\ holds \in [Consumers -> [Messages -> Nat]]
  /\ failures \in Nat
  /\ undone \subseteq Consumers \X Messages

Init ==
  /\ rows = [m \in Messages |-> Nil]
  /\ calls = {}
  /\ holds = [c \in Consumers |-> [m \in Messages |-> 0]]
  /\ failures = 0
  /\ undone = {}

Published == {m \in Messages : rows[m] # Nil}

\* A bug the checks must notice: ack, nack and renew without a guard on the consumer.
InFlightAny(m, c) == m \in Published /\ rows[m].status = "INFLIGHT"

InFlight(m, c) == m \in Published /\ rows[m].status = "INFLIGHT" /\ rows[m].consumer = c
Settled(m) == m \in Published /\ rows[m].status \in {"ACKED", "QUARANTINED"}

\* Requests of less than a second are raised to one.
LeaseTime(time) == IF time < 1 THEN 1 ELSE time

\* Bugs the checks must notice: leases that never run out, or are ignored, and
\* settled messages that are handed out again.
AvailableAnyStatus(m, age) == m \in Published /\ rows[m].available <= -age
AvailableReadyOnly(m, age) ==
  m \in Published /\ rows[m].available <= -age /\ rows[m].status = "READY"
AvailableAnyLease(m, age) ==
  m \in Published /\ rows[m].available <= -age /\ rows[m].status \in {"READY", "INFLIGHT"}

\* What a call that read the clock age ticks ago may hand out.
Available(m, age) ==
  /\ m \in Published
  /\ rows[m].available <= -age
  /\ \/ rows[m].status = "READY"
     \/ rows[m].status = "INFLIGHT" /\ rows[m].lease <= -age

\* The lowest id, which is the order of publication.
First(S) == {m \in S : \A k \in S : m <= k}

\* Nothing is undone of a lease that its executor does not believe in.
Believed(S) == {p \in S : holds'[p[1]][p[2]] > 0}

\* The answer of a call reaches the executor, or is lost, unless nobody awaits it.  The
\* row has a lease of that time now, which may be shorter than the one believed in.
Answered(k, m, time) ==
  LET c == k.consumer
  IN /\ \/ /\ k.live /\ holds' = [holds EXCEPT ![c][m] = IF time > 0 THEN time ELSE 0]
           /\ UNCHANGED failures
        \/ /\ k.live /\ failures < MaxFailures
           /\ failures' = failures + 1
           /\ UNCHANGED holds
        \/ ~k.live /\ UNCHANGED <<holds, failures>>
     /\ undone' = Believed(IF holds'[c][m] > time THEN undone \cup {<<c, m>>}
                           ELSE undone \ {<<c, m>>})
-----------------------------------------------------------------------------
\* publish: INSERT OR IGNORE, so a message that is there already stays as it is.
Publish(m) ==
  /\ m \notin Published /\ \A k \in Published : k < m
  /\ rows' = [rows EXCEPT ![m] =
       [status |-> "READY", available |-> 0, lease |-> Nil, consumer |-> Nil]]
  /\ UNCHANGED <<calls, holds, failures, undone>>

\* An executor sends a request; the server reads the clock at once.
Send(c, op, m, time) ==
  /\ Cardinality({k \in calls : k.consumer = c /\ k.live}) < MaxCalls
  /\ calls' = calls \cup {[consumer |-> c, op |-> op, message |-> m, time |-> time, age |-> 0,
                           live |-> TRUE]}
  /\ UNCHANGED rows

SendClaim(c, time) ==
  /\ \A m \in Messages : holds[c][m] = 0
  /\ Send(c, "claim", Nil, time)
  /\ UNCHANGED <<holds, failures, undone>>

SendRenew(c, m, time) ==
  /\ holds[c][m] > 0
  /\ Send(c, "renew", m, time)
  /\ UNCHANGED <<holds, failures, undone>>

\* The executor is done with the message, whatever the answer will be.
SendAck(c, m) ==
  /\ holds[c][m] > 0
  /\ Send(c, "ack", m, Nil)
  /\ holds' = [holds EXCEPT ![c][m] = 0] /\ undone' = Believed(undone)
  /\ UNCHANGED failures

SendNack(c, m, delay) ==
  /\ holds[c][m] > 0 /\ failures < MaxFailures
  /\ Send(c, "nack", m, delay)
  /\ holds' = [holds EXCEPT ![c][m] = 0] /\ undone' = Believed(undone)
  /\ failures' = failures + 1
-----------------------------------------------------------------------------
(***************************************************************************)
(* The transactions.  A call whose condition does not hold changes nothing *)
(* and answers None or False.                                              *)
(***************************************************************************)
Claim(k) ==
  LET found == First({m \in Messages : Available(m, k.age)})
      lease == LeaseTime(k.time) - k.age
  IN /\ k \in calls /\ k.op = "claim"
     /\ calls' = calls \ {k}
     /\ IF found = {} THEN UNCHANGED <<rows, holds, failures, undone>>
        ELSE \E m \in found :
          /\ rows' = [rows EXCEPT ![m] = [@ EXCEPT !.status = "INFLIGHT", !.lease = lease,
                                                   !.consumer = k.consumer]]
          /\ Answered(k, m, lease)

Ack(k) ==
  /\ k \in calls /\ k.op = "ack"
  /\ calls' = calls \ {k}
  /\ rows' = IF InFlight(k.message, k.consumer)
             THEN [rows EXCEPT ![k.message] = [@ EXCEPT !.status = "ACKED", !.lease = Nil]]
             ELSE rows
  /\ UNCHANGED <<holds, failures, undone>>

Nack(k) ==
  /\ k \in calls /\ k.op = "nack"
  /\ calls' = calls \ {k}
  /\ rows' = IF InFlight(k.message, k.consumer)
             THEN [rows EXCEPT ![k.message] = [status |-> "READY", available |-> k.time,
                                               lease |-> Nil, consumer |-> Nil]]
             ELSE rows
  /\ UNCHANGED <<holds, failures>>
  /\ undone' = IF InFlight(k.message, k.consumer)
               THEN Believed(undone \cup {<<k.consumer, k.message>>})
               ELSE undone

Renew(k) ==
  LET m == k.message
      lease == LeaseTime(k.time) - k.age
  IN /\ k \in calls /\ k.op = "renew"
     /\ calls' = calls \ {k}
     /\ IF InFlight(m, k.consumer) /\ rows[m].lease > -k.age
        THEN /\ rows' = [rows EXCEPT ![m] = [@ EXCEPT !.lease = lease]]
             /\ IF holds[k.consumer][m] > 0 THEN Answered(k, m, lease)
                ELSE UNCHANGED <<holds, failures, undone>>
        ELSE UNCHANGED <<rows, holds, failures, undone>>

\* A request never gets to its transaction: it is lost, or the writer lock is
\* still taken at the eighth attempt.
Lost(k) ==
  /\ failures < MaxFailures
  /\ failures' = failures + 1
  /\ calls' = calls \ {k}
  /\ UNCHANGED <<rows, holds, undone>>

\* quarantine_pending, on the queue's side.
Quarantine ==
  /\ rows' = [m \in Messages |->
       IF m \in Published /\ ~Settled(m)
       THEN [rows[m] EXCEPT !.status = "QUARANTINED", !.lease = Nil, !.consumer = Nil]
       ELSE rows[m]]
  /\ UNCHANGED <<calls, holds, failures, undone>>

\* The executor no longer waits for an answer; the call is still on its way.  (Calls that
\* are alike in everything are one, as if the other were lost.)
Abandoned(k) == [k EXCEPT !.live = FALSE]

GiveUp(k) ==
  /\ k.live /\ failures < MaxFailures
  /\ failures' = failures + 1
  /\ calls' = (calls \ {k}) \cup {Abandoned(k)}
  /\ UNCHANGED <<rows, holds, undone>>

\* An executor stops and forgets; what it sent is still on its way when it is back.
Crash(c) ==
  /\ failures < MaxFailures
  /\ failures' = failures + 1
  /\ calls' = {IF k.consumer = c THEN Abandoned(k) ELSE k : k \in calls}
  /\ holds' = [holds EXCEPT ![c] = [m \in Messages |-> 0]] /\ undone' = Believed(undone)
  /\ UNCHANGED rows

\* A column that holds a time, one tick later.
Later(time) == IF time = Nil THEN Nil ELSE IF time > -MaxAge THEN time - 1 ELSE -MaxAge

\* The lease of c, or the lease its acknowledgement needs, ends with the next tick.
Lapses(c) ==
  \/ \E m \in Messages : holds[c][m] = 1
  \/ \E k \in calls : /\ k.consumer = c /\ k.op = "ack"
                      /\ InFlight(k.message, c) /\ rows[k.message].lease = 1

\* The clock.  It waits for a call that has the largest age, and at the bound on
\* failures for executors whose lease is about to lapse.
Tick ==
  /\ \A k \in calls : k.age < MaxAge
  /\ (\E c \in Consumers : Lapses(c)) => failures < MaxFailures
  /\ rows' = [m \in Messages |->
       IF rows[m] = Nil THEN Nil
       ELSE [rows[m] EXCEPT !.available = Later(@), !.lease = Later(@)]]
  /\ calls' = {[k EXCEPT !.age = @ + 1] : k \in calls}
  /\ holds' = [c \in Consumers |-> [m \in Messages |->
                 IF holds[c][m] > 0 THEN holds[c][m] - 1 ELSE 0]]
  /\ undone' = Believed(undone)
  /\ failures' = IF \E c \in Consumers : Lapses(c) THEN failures + 1 ELSE failures

Next ==
  \/ \E m \in Messages : Publish(m)
  \/ \E c \in Consumers : \/ Crash(c)
                          \/ \E time \in ClaimLeases : SendClaim(c, time)
                          \/ \E m \in Messages : \/ SendAck(c, m)
                                                 \/ \E time \in RenewLeases : SendRenew(c, m, time)
                                                 \/ \E delay \in Delays : SendNack(c, m, delay)
  \/ \E k \in calls : Claim(k) \/ Ack(k) \/ Nack(k) \/ Renew(k) \/ Lost(k) \/ GiveUp(k)
  \/ Quarantine
  \/ Tick

Spec == Init /\ [][Next]_vars

(***************************************************************************)
(* The clock goes on, every request under way that is not lost gets the    *)
(* writer lock (it waits 30 s, eight times), executors poll for messages   *)
(* whenever they hold none, and one that renews its lease is done in the   *)
(* end.                                                                    *)
(***************************************************************************)
Served(c, live) ==
  \E k \in calls : /\ k.consumer = c /\ k.live = live
                   /\ (Claim(k) \/ Ack(k) \/ Nack(k) \/ Renew(k))

Fairness ==
  /\ WF_vars(Tick)
  /\ \A c \in Consumers : /\ \A live \in BOOLEAN : WF_vars(Served(c, live))
                          /\ WF_vars(\E time \in ClaimLeases : SendClaim(c, time))
                          /\ SF_vars(\E m \in Messages : SendAck(c, m))

FairSpec == Spec /\ Fairness
-----------------------------------------------------------------------------
\* Two executors act on one message only if one of them undid its own lease: with a
\* nack that was so late that it had claimed the message again, or with a renewal that
\* left the row a shorter lease than the executor believes in.  No crash, no lost
\* answer, no clock read before the wait for the writer lock and no call of another
\* executor does it, whatever leases are asked for and however many calls are under
\* way (ready_queue.py:48-72).
SharedByOwnCallOnly ==
  \A m \in Messages, c, d \in Consumers :
    holds[c][m] > 0 /\ holds[d][m] > 0 /\ c # d => {<<c, m>>, <<d, m>>} \cap undone # {}

\* A message is not handed to another executor before its lease has run out,
\* or before the delay it was given back with, whatever requests were late,
\* whichever lease they asked for (ready_queue.py:51).
HandedOverWhenDue ==
  [][\A m \in Published :
       /\ rows[m].consumer # rows'[m].consumer
       /\ rows'[m].status = "INFLIGHT"
       => rows[m].available <= 0 /\ (rows[m].status = "INFLIGHT" => rows[m].lease <= 0)]_vars

\* Late requests of executors that held the message before do not bring a
\* settled message back, nor turn one verdict into the other (lines 58-72).
SettledIsFinal ==
  [][\A m \in Messages : Settled(m) => Settled(m)' /\ rows'[m].status = rows[m].status]_vars

\* Every published message is acknowledged or quarantined, although executors
\* crash, give messages back and let leases lapse, and requests and answers get
\* lost, all finitely often (lines 48-56).
EveryMessageSettles == \A m \in Messages : m \in Published ~> Settled(m)
-----------------------------------------------------------------------------
(***************************************************************************)
(* The inductive invariant behind SharedByOwnCallOnly.                     *)
(***************************************************************************)
\* What an executor believes is covered by the row, unless the executor undid it, or the
\* message is settled; then nobody else gets it.
Covered(c, m) ==
  holds[c][m] > 0 /\ <<c, m>> \notin undone =>
    \/ Settled(m)
    \/ /\ m \in Published /\ rows[m].status = "INFLIGHT" /\ rows[m].consumer = c
       /\ rows[m].lease \in Int /\ rows[m].lease >= holds[c][m]
BeliefCovered == \A c \in Consumers, m \in Messages : Covered(c, m)

\* The calls ask for what their kind may ask for.
WellFormed(k) ==
  /\ k.op = "claim" => k.time \in ClaimLeases
  /\ k.op = "renew" => k.time \in RenewLeases
  /\ k.op = "nack" => k.time \in Delays
  /\ k.op # "claim" => k.message \in Messages
CallsWellFormed == \A k \in calls : WellFormed(k)

IInv == /\ TypeOK /\ CallsWellFormed /\ BeliefCovered /\ SharedByOwnCallOnly
=============================================================================
