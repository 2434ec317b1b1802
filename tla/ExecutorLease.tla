---------------------------- MODULE ExecutorLease ----------------------------
(***************************************************************************)
(* The lease that lets one executor process at a time place orders         *)
(* (src/tme/executor_lease.py), and the processes that ask for it.         *)
(*                                                                         *)
(* Time is relative, as in ReadyQueue: expires and holds are ticks from    *)
(* now, and a call carries the age of the clock reading it made before it  *)
(* waited for the writer lock (lines 11 and 20).                           *)
(*                                                                         *)
(* The processes are not in the repository.  One acts while it believes to *)
(* hold the lease, as the answers it received say.  It may stop and be     *)
(* started again, with another signer; requests and answers may be lost.   *)
(***************************************************************************)
EXTENDS Integers, FiniteSets

CONSTANTS
  Owners, Signers,
  Ttls,           \* what processes ask for
  MinTtl, MaxTtl, \* 15 s and 120 s, in ticks
  MaxAge,         \* bounds how long a call waits for the writer lock
  MaxCalls,       \* bounds the calls of one process that are under way
  MaxFailures,    \* bounds stops, lost requests and lost answers
  Nil

ASSUME TimesAssumption ==
  /\ Ttls \subseteq Int /\ MaxAge \in Nat
  /\ MinTtl \in Nat \ {0} /\ MaxTtl \in Nat /\ MinTtl <= MaxTtl

VARIABLES
  row,       \* the row of executor_leases, Nil when there is none
  up,        \* the owners whose process runs
  signer,    \* the signer each process was started with
  calls,     \* calls that have not reached their transaction
  holds,     \* how long each process believes to hold the lease
  overtaken, \* history: owners whose lease a call of an earlier process has
             \* changed since they got it
  failures

vars == <<row, up, signer, calls, holds, overtaken, failures>>
-----------------------------------------------------------------------------
Row  == [owner : Owners, signer : Signers, expires : Int]
Call == [owner : Owners, op : {"acquire", "renew", "release"}, signer : Signers,
         ttl : Ttls \cup {Nil}, age : 0..MaxAge, live : BOOLEAN]

ASSUME NilAssumption == Nil \notin Row

TypeOK ==
  /\ row \in Row \cup {Nil}
  /\ up \subseteq Owners
  /\ signer \in [Owners -> Signers]
  /\ calls \subseteq Call
  /\ holds \in [Owners -> Nat]
  /\ overtaken \subseteq Owners
  /\ failures \in Nat

Init ==
  /\ row = Nil
  /\ up = {}
  /\ signer \in [Owners -> Signers]
  /\ calls = {}
  /\ holds = [o \in Owners |-> 0]
  /\ overtaken = {}
  /\ failures = 0

\* What is asked for is brought into the bounds.
Ttl(ttl) == IF ttl < MinTtl THEN MinTtl ELSE IF ttl > MaxTtl THEN MaxTtl ELSE ttl

\* A call that read the clock age ticks ago sees a lease that has not run out.
Runs(age) == row # Nil /\ row.expires > -age

\* Bugs the checks must notice: another owner's lease is not respected, or for
\* ever, or is renewed, and a new owner leaves the signer of the one before it.
NeverRefused(k)       == FALSE
RefusedForever(k)     == row # Nil /\ row.owner # k.owner
MayRenewOthers(k)     == Runs(k.age) /\ row.signer = k.signer
AcquiredOldSigner(k)  == [owner |-> k.owner, expires |-> Ttl(k.ttl) - k.age,
                          signer |-> IF row = Nil THEN k.signer ELSE row.signer]

Refused(k)   == Runs(k.age) /\ row.owner # k.owner
MayRenew(k)  == Runs(k.age) /\ row.owner = k.owner /\ row.signer = k.signer
Acquired(k)  == [owner |-> k.owner, signer |-> k.signer, expires |-> Ttl(k.ttl) - k.age]

\* A call of a process that has stopped changes the row of its successor.
Overtaken(k) ==
  IF ~k.live /\ row' # row /\ holds[k.owner] > 0 THEN overtaken \cup {k.owner} ELSE overtaken

\* The answer reaches the process that sent the call, unless it is lost or the
\* process has stopped.
Answered(k, time) ==
  \/ /\ k.live
     /\ holds' = [holds EXCEPT ![k.owner] = IF time > 0 THEN time ELSE 0]
     /\ overtaken' = overtaken \ {k.owner}
     /\ UNCHANGED failures
  \/ /\ k.live /\ failures < MaxFailures
     /\ failures' = failures + 1
     /\ UNCHANGED <<holds, overtaken>>
  \/ /\ ~k.live
     /\ overtaken' = Overtaken(k)
     /\ UNCHANGED <<holds, failures>>
-----------------------------------------------------------------------------
Start(o, s) ==
  /\ o \notin up
  /\ up' = up \cup {o}
  /\ signer' = [signer EXCEPT ![o] = s]
  /\ UNCHANGED <<row, calls, holds, overtaken, failures>>

\* A process stops; what it has sent is still on its way.
Stop(o) ==
  /\ o \in up /\ failures < MaxFailures
  /\ failures' = failures + 1
  /\ up' = up \ {o}
  /\ calls' = {[k EXCEPT !.live = @ /\ k.owner # o] : k \in calls}
  /\ holds' = [holds EXCEPT ![o] = 0]
  /\ UNCHANGED <<row, signer, overtaken>>

Send(o, op, ttl) ==
  /\ o \in up
  /\ Cardinality({k \in calls : k.owner = o /\ k.live}) < MaxCalls
  /\ calls' = calls \cup {[owner |-> o, op |-> op, signer |-> signer[o], ttl |-> ttl,
                           age |-> 0, live |-> TRUE]}
  /\ UNCHANGED <<row, up, signer, overtaken, failures>>

SendAcquire(o, ttl) ==
  /\ Send(o, "acquire", ttl)
  /\ UNCHANGED holds

SendRenew(o, ttl) ==
  /\ holds[o] > 0
  /\ Send(o, "renew", ttl)
  /\ UNCHANGED holds

\* The process is done, whatever the answer will be.
SendRelease(o) ==
  /\ holds[o] > 0
  /\ Send(o, "release", Nil)
  /\ holds' = [holds EXCEPT ![o] = 0]
-----------------------------------------------------------------------------
(* The transactions of executor_lease.py.                                  *)
Acquire(k) ==
  /\ k \in calls /\ k.op = "acquire"
  /\ calls' = calls \ {k}
  /\ IF Refused(k) THEN UNCHANGED <<row, holds, overtaken, failures>>
     ELSE row' = Acquired(k) /\ Answered(k, row'.expires)
  /\ UNCHANGED <<up, signer>>

Renew(k) ==
  /\ k \in calls /\ k.op = "renew"
  /\ calls' = calls \ {k}
  /\ IF MayRenew(k)
     THEN /\ row' = [row EXCEPT !.expires = Ttl(k.ttl) - k.age]
          /\ Answered(k, row'.expires)
     ELSE UNCHANGED row /\ Answered(k, 0)
  /\ UNCHANGED <<up, signer>>

Release(k) ==
  /\ k \in calls /\ k.op = "release"
  /\ calls' = calls \ {k}
  /\ row' = IF row # Nil /\ row.owner = k.owner THEN Nil ELSE row
  /\ overtaken' = Overtaken(k)
  /\ UNCHANGED <<up, signer, holds, failures>>

\* A request never gets to its transaction.
Lost(k) ==
  /\ failures < MaxFailures
  /\ failures' = failures + 1
  /\ calls' = calls \ {k}
  /\ UNCHANGED <<row, up, signer, holds, overtaken>>

\* One tick of the clock; a lease that has run out stops at -MaxAge, where
\* every call sees it so.  The bound on waiting holds the clock back.
Tick ==
  /\ \A k \in calls : k.age < MaxAge
  /\ row' = IF row = Nil THEN Nil
            ELSE [row EXCEPT !.expires = IF @ > -MaxAge THEN @ - 1 ELSE -MaxAge]
  /\ calls' = {[k EXCEPT !.age = @ + 1] : k \in calls}
  /\ holds' = [o \in Owners |-> IF holds[o] > 0 THEN holds[o] - 1 ELSE 0]
  /\ UNCHANGED <<up, signer, overtaken, failures>>

Served(o, live) ==
  \E k \in calls : k.owner = o /\ k.live = live /\ (Acquire(k) \/ Renew(k) \/ Release(k))

Next ==
  \/ \E o \in Owners : \/ Stop(o) \/ SendRelease(o)
                       \/ \E live \in BOOLEAN : Served(o, live)
                       \/ \E s \in Signers : Start(o, s)
                       \/ \E ttl \in Ttls : SendAcquire(o, ttl) \/ SendRenew(o, ttl)
  \/ \E k \in calls : Lost(k)
  \/ Tick

Spec == Init /\ [][Next]_vars

\* The clock goes on, calls that are not lost get the writer lock, and processes keep
\* asking for the lease.
FairSpec ==
  /\ Spec /\ WF_vars(Tick)
  /\ \A o \in Owners : /\ \A live \in BOOLEAN : WF_vars(Served(o, live))
                       /\ WF_vars(\E ttl \in Ttls : SendAcquire(o, ttl))
-----------------------------------------------------------------------------
\* Two owners never act at the same time, though every expiry is computed from a
\* clock that was read before the wait for the writer lock (executor_lease.py:8-26).
\* It needs processes with one call under way that ask for one length of lease,
\* and no call of a process that has stopped may come after the grant.
OneOwnerActs ==
  \A o, p \in Owners \ overtaken : holds[o] > 0 /\ holds[p] > 0 => o = p

\* The process that acts can renew: the row names it, with the signer it runs
\* with, and lasts as long as the process thinks, whatever earlier processes
\* left in the row and whatever other owners try.  Only a call that an earlier
\* process of the same owner sent can undo that, as the row has no number for the
\* process that took the lease (lines 14-29).
HolderCanRenew ==
  \A o \in Owners \ overtaken : holds[o] > 0 =>
    row # Nil /\ row.owner = o /\ row.signer = signer[o] /\ row.expires >= holds[o]

-----------------------------------------------------------------------------
(***************************************************************************)
(* The inductive invariant behind OneOwnerActs and HolderCanRenew.  Like   *)
(* them it holds when all ask for one length of lease.                     *)
(***************************************************************************)

\* A process has one call under way, and one that is down has none, nor a lease.
OneLiveCall == \A k, l \in calls : k.live /\ l.live /\ k.owner = l.owner => k = l
DownIsIdle  == \A o \in Owners \ up : holds[o] = 0 /\ \A k \in calls : k.owner = o => ~k.live

\* A process never believes in more than a whole lease.
BeliefBounded == \A o \in Owners, ttl \in Ttls : holds[o] <= Ttl(ttl)

\* A call under way leaves no less than its process believes in.
CallsFit ==
  \A k \in calls :
    /\ k.op # "release" => k.ttl \in Ttls
    /\ k.live => /\ k.signer = signer[k.owner]
                 /\ holds[k.owner] > 0 => k.op # "release" /\ holds[k.owner] + k.age <= Ttl(k.ttl)

IInv == TypeOK /\ OneLiveCall /\ DownIsIdle /\ BeliefBounded /\ CallsFit /\ HolderCanRenew
-----------------------------------------------------------------------------
\* As long as processes run, one of them gets the lease again and again: no stop
\* and no lost answer leaves it with an owner that is gone (lines 13-16).
LeaseIsTaken == []<>(up = {} \/ \E o \in Owners : holds[o] > 0)
=============================================================================
