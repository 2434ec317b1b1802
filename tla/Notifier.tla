------------------------------- MODULE Notifier -------------------------------
(***************************************************************************)
(* The e-mail outbox (src/tme/notifications.py, drain_one, and the         *)
(* notifier_loop of src/tme/collector_service.py): a wallet whose gate     *)
(* opens is announced by a row, and the rows are mailed one by one.        *)
(*                                                                         *)
(* drain_one runs in a thread that the loop awaits.  A reconnect cancels   *)
(* the loop and starts another one, but the thread of the old one goes on. *)
(* Threads are the threads of the pool, loop the one that is awaited.      *)
(*                                                                         *)
(* Time passes in units that a turn of the loop takes at most: 10 s for    *)
(* the mail, 15 s for the periodic report, 5 s of pause.                   *)
(***************************************************************************)
EXTENDS Integers, Sequences, FiniteSetsExt

CONSTANTS
  Wallets, Threads,
  Refused,     \* the wallets whose mail the provider never takes
  FirstDelay,  \* the delay after the first failure, in units
  Doublings,   \* how often it doubles
  MaxDelay,    \* the longest delay, in units
  MaxMishaps,  \* bound: failures that have another cause
  Nil

ASSUME RefusedAssumption == Refused \subseteq Wallets
ASSUME BoundsAssumption  == /\ FirstDelay \in Nat \ {0} /\ MaxDelay \in Nat \ {0}
                            /\ Doublings \in Nat /\ MaxMishaps \in Nat
ASSUME NilAssumption     == Nil \notin Wallets
ASSUME ThreadsAssumption == IsFiniteSet(Threads)
\* The longest delay is 3600 s, 120 units: there are no more wallets than that.
ASSUME DelayAssumption   == Cardinality(Wallets) <= MaxDelay

VARIABLES
  row,      \* notification_outbox.status, "NONE" without a row
  ids,      \* the wallets in the order of their row ids
  rest,     \* units until next_attempt_ms
  attempts, \* as far as the delay depends on it
  loop,     \* the thread of the current notifier_loop
  thread,   \* what each thread does
  mails,    \* mails that were sent, by wallet
  excused,  \* history: mishaps that hit a thread at work on the wallet
  mishaps

vars == <<row, ids, rest, attempts, loop, thread, mails, excused, mishaps>>

Idle == [pc |-> "IDLE", wallet |-> Nil, attempts |-> 0, age |-> 0]

Tables ==
  /\ row \in [Wallets -> {"NONE", "PENDING", "SENT"}]
  /\ ids \in Seq(Wallets)
  /\ attempts \in [Wallets -> 0..(Doublings + 1)]
  /\ loop \in Threads
  /\ thread \in [Threads -> [pc : {"IDLE", "POST", "ACCEPTED", "FAILED"},
                             wallet : Wallets \cup {Nil},
                             attempts : 0..(Doublings + 1), age : Nat]]
  /\ mails \in [Wallets -> Nat] /\ excused \in [Wallets -> Nat]
  /\ mishaps \in 0..MaxMishaps

\* The times are bounded by the longest delay.
Times ==
  /\ rest \in [Wallets -> 0..MaxDelay]
  /\ \A t \in Threads : thread[t].age <= MaxDelay

TypeOK == Tables /\ Times

Init ==
  /\ row = [w \in Wallets |-> "NONE"] /\ ids = <<>>
  /\ rest = [w \in Wallets |-> 0] /\ attempts = [w \in Wallets |-> 0]
  /\ loop \in Threads /\ thread = [t \in Threads |-> Idle]
  /\ mails = [w \in Wallets |-> 0] /\ excused = [w \in Wallets |-> 0]
  /\ mishaps = 0
-----------------------------------------------------------------------------
AtWork(t, w) == thread[t].pc # "IDLE" /\ thread[t].wallet = w

\* A mishap that hits the threads in T.
Mishap(T) ==
  /\ mishaps < MaxMishaps /\ mishaps' = mishaps + 1
  /\ excused' = [w \in Wallets |-> excused[w] + Cardinality({t \in T : AtWork(t, w)})]

\* A bug the checks must notice: rows that were sent are selected again.
DueAgain == {i \in DOMAIN ids : rest[ids[i]] = 0}

\* The rows that drain_one selects from, by id.
Due == {i \in DOMAIN ids : row[ids[i]] = "PENDING" /\ rest[ids[i]] = 0}

\* A bug the checks must notice: the delay does not grow.
DelayFlat(n) == FirstDelay

\* A bug the checks must notice: the delay grows without a limit.
DelayUncapped(n) == FirstDelay * 2 ^ (n - 1)

\* The delay after the n-th failure.
Delay(n) == Min({MaxDelay, FirstDelay * 2 ^ Min({n - 1, Doublings})})

\* A bug the checks must notice: the status of the answer is not looked at.
AnyAnswer(answer) == answer # "LOST"

\* raise_for_status does not raise.
Passes(answer) == answer = "OK"
-----------------------------------------------------------------------------
\* The gate of w opens: onboard or observe inserts the row.
Announce(w) ==
  /\ row[w] = "NONE"
  /\ row' = [row EXCEPT ![w] = "PENDING"] /\ ids' = Append(ids, w)
  /\ UNCHANGED <<rest, attempts, loop, thread, mails, excused, mishaps>>

\* drain_one selects the first row that is due.
Poll ==
  /\ thread[loop].pc = "IDLE"
  /\ thread' = [thread EXCEPT ![loop] =
       IF Due = {} THEN Idle
       ELSE LET w == ids[CHOOSE i \in Due : \A j \in Due : i <= j]
            IN [pc |-> "POST", wallet |-> w, attempts |-> attempts[w], age |-> 0]]
  /\ UNCHANGED <<row, ids, rest, attempts, loop, mails, excused, mishaps>>

\* requests.post: the mail goes out and the answer says so, it is refused, or it
\* goes out and there is an exception all the same.
Post(t, answer) ==
  LET w == thread[t].wallet
  IN /\ thread[t].pc = "POST"
     /\ w \in Refused => answer = "REFUSED"
     /\ mails' = IF answer = "REFUSED" THEN mails ELSE [mails EXCEPT ![w] = @ + 1]
     /\ thread' = [thread EXCEPT ![t].pc = IF Passes(answer) THEN "ACCEPTED" ELSE "FAILED"]
     /\ IF answer = "OK" \/ w \in Refused THEN UNCHANGED <<excused, mishaps>> ELSE Mishap({t})
     /\ UNCHANGED <<row, ids, rest, attempts, loop>>

MarkSent(t) ==
  LET w == thread[t].wallet
  IN /\ thread[t].pc = "ACCEPTED"
     /\ row' = [row EXCEPT ![w] = "SENT"]
     /\ thread' = [thread EXCEPT ![t] = [Idle EXCEPT !.age = thread[t].age]]
     /\ UNCHANGED <<ids, rest, attempts, loop, mails, excused, mishaps>>

\* The delay counts from when the row was selected, and with the attempts it had.
MarkFailed(t) ==
  LET w == thread[t].wallet
      n == thread[t].attempts + 1
      left == Delay(n) - thread[t].age
  IN /\ thread[t].pc = "FAILED"
     /\ IF row[w] = "PENDING"
        THEN /\ attempts' = [attempts EXCEPT ![w] = IF n > Doublings THEN Doublings + 1 ELSE n]
             /\ rest' = [rest EXCEPT ![w] = IF left > 0 THEN left ELSE 0]
        ELSE UNCHANGED <<attempts, rest>>
     /\ thread' = [thread EXCEPT ![t] = [Idle EXCEPT !.age = thread[t].age]]
     /\ UNCHANGED <<row, ids, loop, mails, excused, mishaps>>

\* run_subscription ends while drain_one is at work, and begins again.
Reconnect(t) ==
  /\ thread[loop].pc # "IDLE" /\ thread[t].pc = "IDLE"
  /\ loop' = t /\ Mishap({loop})
  /\ thread' = [thread EXCEPT ![t] = Idle]
  /\ UNCHANGED <<row, ids, rest, attempts, mails>>

\* The process stops; the mails of D have left it.
Crash(D) ==
  /\ D \subseteq {t \in Threads : thread[t].pc = "POST" /\ thread[t].wallet \notin Refused}
  /\ thread' = [t \in Threads |-> Idle] /\ Mishap(Threads)
  /\ mails' = [w \in Wallets |-> mails[w] + Cardinality({t \in D : thread[t].wallet = w})]
  /\ UNCHANGED <<row, ids, rest, attempts, loop>>

\* One unit of time.  The poll of the loop does not last longer.
Tick ==
  /\ thread[loop].age < 1
  /\ thread' = [t \in Threads |->
       [thread[t] EXCEPT !.age = IF @ < MaxDelay /\ (t = loop \/ thread[t].pc # "IDLE")
                                 THEN @ + 1 ELSE @]]
  /\ rest' = [w \in Wallets |-> IF rest[w] > 0 THEN rest[w] - 1 ELSE 0]
  /\ UNCHANGED <<row, ids, attempts, loop, mails, excused, mishaps>>

Work(t) == (\E answer \in {"OK", "REFUSED"} : Post(t, answer)) \/ MarkSent(t) \/ MarkFailed(t)

Next ==
  \/ \E w \in Wallets : Announce(w)
  \/ Poll \/ Tick
  \/ \E t \in Threads : Work(t) \/ Post(t, "LOST") \/ Reconnect(t)
  \/ \E D \in SUBSET Threads : Crash(D)

Spec == Init /\ [][Next]_vars

\* The loop polls, requests end, and time passes.
FairSpec ==
  /\ Spec /\ WF_vars(Poll) /\ WF_vars(Tick)
  /\ \A t \in Threads : WF_vars(Work(t))
-----------------------------------------------------------------------------
(***************************************************************************)
(* Properties.                                                             *)
(***************************************************************************)

\* No mail is skipped: a row is SENT only when its mail went out, however
\* threads of old subscriptions and the current one overlap
\* (notifications.py:39-52).
SentIsMailed == \A w \in Wallets : row[w] = "SENT" => mails[w] > 0

\* A mail is repeated only if a mishap hit a thread that was at work on it: a
\* lost answer, a reconnect or a crash between the mail and the mark, and then
\* once for each (notifications.py:35-52).
RepeatedByMishapOnly == \A w \in Wallets : mails[w] <= 1 + excused[w]

\* The inductive invariant behind the two.  A thread at work is so on a wallet, and
\* what it found accepted went out; and the mails of a wallet, with those about to be
\* sent, are no more than the mishaps allow, one less as long as its row may be
\* selected again.
AtWorkOnWallet == \A t \in Threads : thread[t].pc # "IDLE" => thread[t].wallet \in Wallets
AcceptedIsMailed == \A t \in Threads : thread[t].pc = "ACCEPTED" => mails[thread[t].wallet] > 0

Posting(w) == {t \in Threads : thread[t].pc = "POST" /\ thread[t].wallet = w}
InHand(w)  == AtWork(loop, w) /\ thread[loop].pc # "FAILED"
MailsFit ==
  \A w \in Wallets :
    mails[w] + Cardinality(Posting(w)) <=
      excused[w] + (IF row[w] = "SENT" \/ InHand(w) THEN 1 ELSE 0)

IInv == Tables /\ AtWorkOnWallet /\ AcceptedIsMailed /\ SentIsMailed /\ MailsFit

\* Mails that are refused for ever do not keep the others back, although the
\* rows are taken in the order of their ids: each failure puts a row off for
\* longer, until there is a poll for every other row in between
\* (notifications.py:35, 53-56).
OthersGetThrough ==
  \A w \in Wallets \ Refused : row[w] = "PENDING" ~> row[w] = "SENT"
=============================================================================
