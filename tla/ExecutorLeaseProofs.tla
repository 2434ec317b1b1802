------------------------- MODULE ExecutorLeaseProofs -------------------------
(***************************************************************************)
(* OneOwnerActs and HolderCanRenew, for every set of owners and signers,   *)
(* every length of lease, every wait for the writer lock and any number of *)
(* stops and losses, under the two conditions they need: a process has one *)
(* call under way, and all ask for the same length of lease.               *)
(***************************************************************************)
EXTENDS ExecutorLease, FiniteSetTheorems, TLAPS

\* Without the first condition a process may release what it has acquired since;
\* without the second a renewal may shorten a lease.
OneCallOneTtl == MaxCalls = 1 /\ \A s, t \in Ttls : Ttl(s) = Ttl(t)

-----------------------------------------------------------------------------
LEMMA TtlType == ASSUME NEW ttl \in Ttls PROVE Ttl(ttl) \in Nat /\ Ttl(ttl) >= 1
BY TimesAssumption DEF Ttl

LEMMA CallType ==
  ASSUME TypeOK, NEW k \in calls
  PROVE  /\ k \in Call /\ k.owner \in Owners /\ k.signer \in Signers /\ k.age \in Nat
         /\ k.live \in BOOLEAN /\ k.op \in {"acquire", "renew", "release"}
BY TimesAssumption DEF TypeOK, Call

\* A process that may send a call has none under way.
LEMMA NoCallYet ==
  ASSUME MaxCalls = 1, OneLiveCall, NEW o \in Owners,
         Cardinality({k \in calls : k.owner = o /\ k.live}) < MaxCalls
  PROVE  \A k \in calls : k.owner = o => ~k.live
<1>1. SUFFICES ASSUME NEW k \in calls, k.owner = o, k.live PROVE FALSE
  OBVIOUS
<1>2. {l \in calls : l.owner = o /\ l.live} = {k}
  BY <1>1 DEF OneLiveCall
<1>3. Cardinality({k}) = 1
  BY FS_Singleton
<1> QED BY <1>2, <1>3

\* What is left when a call is gone.
LEMMA Gone ==
  ASSUME IInv, NEW k \in calls, calls' = calls \ {k}, UNCHANGED <<up, signer>>
  PROVE  /\ OneLiveCall'
         /\ \A l \in calls' : l \in calls /\ (k.live /\ l.live => l.owner # k.owner)
BY DEF IInv, OneLiveCall

-----------------------------------------------------------------------------
LEMMA InitIInv == Init => IInv
<1> SUFFICES ASSUME Init PROVE IInv
  OBVIOUS
<1>1. TypeOK /\ OneLiveCall /\ DownIsIdle /\ CallsFit /\ HolderCanRenew
  BY DEF Init, TypeOK, OneLiveCall, DownIsIdle, CallsFit, HolderCanRenew
<1>2. BeliefBounded
  BY TtlType DEF Init, BeliefBounded
<1> QED BY <1>1, <1>2 DEF IInv

LEMMA StartIInv ==
  ASSUME IInv, NEW o \in Owners, NEW s \in Signers, Start(o, s) PROVE IInv'
<1>1. /\ o \notin up /\ up' = up \cup {o}
      /\ signer' \in [Owners -> Signers]
      /\ \A p \in Owners \ {o} : signer'[p] = signer[p]
      /\ UNCHANGED <<row, calls, holds, overtaken, failures>>
  BY DEF Start, IInv, TypeOK
<1>2. TypeOK'
  BY <1>1 DEF IInv, TypeOK
<1>3. holds[o] = 0 /\ \A k \in calls : k.owner = o => ~k.live
  BY <1>1 DEF IInv, DownIsIdle
<1>4. OneLiveCall' /\ DownIsIdle' /\ BeliefBounded'
  BY <1>1 DEF IInv, OneLiveCall, DownIsIdle, BeliefBounded
<1>5. CallsFit'
  <2>1. \A k \in calls : k.live => signer'[k.owner] = signer[k.owner]
    BY <1>1, <1>3, CallType DEF IInv
  <2> QED BY <1>1, <2>1 DEF IInv, CallsFit
<1>6. HolderCanRenew'
  BY <1>1, <1>3 DEF IInv, HolderCanRenew
<1> QED BY <1>2, <1>4, <1>5, <1>6 DEF IInv

LEMMA StopIInv == ASSUME IInv, NEW o \in Owners, Stop(o) PROVE IInv'
<1>1. /\ up' = up \ {o} /\ failures' = failures + 1
      /\ calls' = {[k EXCEPT !.live = @ /\ k.owner # o] : k \in calls}
      /\ holds' = [holds EXCEPT ![o] = 0]
      /\ UNCHANGED <<row, signer, overtaken>>
  BY DEF Stop
<1>2. holds' \in [Owners -> Nat] /\ holds'[o] = 0
      /\ \A p \in Owners \ {o} : holds'[p] = holds[p]
  BY <1>1 DEF IInv, TypeOK
<1>3. ASSUME NEW l \in calls'
      PROVE  /\ l \in Call
             /\ \E k \in calls : /\ l.owner = k.owner /\ l.op = k.op /\ l.ttl = k.ttl
                                 /\ l.signer = k.signer /\ l.age = k.age
                                 /\ l.live => l = k /\ k.live /\ k.owner # o
  <2>1. PICK k \in calls : l = [k EXCEPT !.live = @ /\ k.owner # o]
    BY <1>1, <1>3
  <2>2. k \in Call
    BY CallType DEF IInv
  <2>3. l \in Call /\ l.owner = k.owner /\ l.op = k.op /\ l.ttl = k.ttl
        /\ l.signer = k.signer /\ l.age = k.age /\ l.live = (k.live /\ k.owner # o)
    BY <2>1, <2>2 DEF Call
  <2>4. l.live => l = k
    BY <2>1, <2>2, <2>3 DEF Call
  <2> QED BY <2>3, <2>4
<1>4. TypeOK'
  BY <1>1, <1>2, <1>3 DEF IInv, TypeOK
<1>5. OneLiveCall'
  BY <1>3 DEF IInv, OneLiveCall
<1>6. DownIsIdle'
  BY <1>1, <1>2, <1>3 DEF IInv, DownIsIdle
<1>7. BeliefBounded'
  BY <1>2, TtlType DEF IInv, BeliefBounded
<1>8. CallsFit'
  <2> SUFFICES ASSUME NEW l \in calls'
               PROVE  /\ l.op # "release" => l.ttl \in Ttls
                      /\ l.live => /\ l.signer = signer[l.owner]
                                   /\ holds'[l.owner] > 0 =>
                                        l.op # "release" /\ holds'[l.owner] + l.age <= Ttl(l.ttl)
    BY <1>1 DEF CallsFit
  <2>1. CASE l.live
    <3>1. l \in calls /\ l.owner # o
      BY <1>3, <2>1
    <3>2. holds'[l.owner] = holds[l.owner]
      BY <1>2, <3>1, CallType DEF IInv
    <3> QED BY <3>1, <3>2 DEF IInv, CallsFit
  <2>2. CASE ~l.live
    BY <1>3, <2>2 DEF IInv, CallsFit
  <2> QED BY <2>1, <2>2
<1>9. HolderCanRenew'
  BY <1>1, <1>2 DEF IInv, HolderCanRenew
<1> QED BY <1>4, <1>5, <1>6, <1>7, <1>8, <1>9 DEF IInv

-----------------------------------------------------------------------------
\* A request: what the new call must satisfy.
LEMMA SendIInv ==
  ASSUME IInv, OneCallOneTtl, NEW o \in Owners, NEW op \in {"acquire", "renew", "release"},
         NEW ttl \in Ttls \cup {Nil}, Send(o, op, ttl),
         op # "release" => ttl \in Ttls,
         \/ holds' = holds /\ op # "release"
         \/ holds' = [holds EXCEPT ![o] = 0]
  PROVE  IInv'
<1> DEFINE new == [owner |-> o, op |-> op, signer |-> signer[o], ttl |-> ttl,
                   age |-> 0, live |-> TRUE]
<1>1. /\ o \in up /\ calls' = calls \cup {new}
      /\ UNCHANGED <<row, up, signer, overtaken, failures>>
      /\ \A k \in calls : k.owner = o => ~k.live
  BY NoCallYet DEF Send, IInv, OneCallOneTtl
<1>2. new \in Call
  BY TimesAssumption DEF Call, IInv, TypeOK
<1>3. /\ holds' \in [Owners -> Nat]
      /\ \A p \in Owners : holds'[p] = holds[p] \/ holds'[p] = 0
      /\ \A p \in Owners \ {o} : holds'[p] = holds[p]
  BY DEF IInv, TypeOK
<1>4. new.owner = o /\ new.live /\ new.signer = signer[o] /\ new.age = 0
      /\ new.op = op /\ new.ttl = ttl
  OBVIOUS
<1>5. op # "release" \/ holds'[o] = 0
  BY DEF IInv, TypeOK
<1> HIDE DEF new
<1>6. TypeOK'
  BY <1>1, <1>2, <1>3 DEF IInv, TypeOK
<1>7. OneLiveCall'
  BY <1>1, <1>4 DEF IInv, OneLiveCall
<1>8. DownIsIdle'
  BY <1>1, <1>3, <1>4 DEF IInv, DownIsIdle
<1>9. BeliefBounded'
  BY <1>3, TtlType DEF IInv, BeliefBounded
<1>10. CallsFit'
  <2> SUFFICES ASSUME NEW k \in calls'
               PROVE  /\ k.op # "release" => k.ttl \in Ttls
                      /\ k.live => /\ k.signer = signer[k.owner]
                                   /\ holds'[k.owner] > 0 =>
                                        k.op # "release" /\ holds'[k.owner] + k.age <= Ttl(k.ttl)
    BY <1>1 DEF CallsFit
  <2>1. CASE k \in calls /\ k.live
    <3>1. holds'[k.owner] = holds[k.owner]
      BY <2>1, <1>1, <1>3, CallType DEF IInv
    <3> QED BY <2>1, <3>1 DEF IInv, CallsFit
  <2>2. CASE k \in calls /\ ~k.live
    BY <2>2 DEF IInv, CallsFit
  <2>3. CASE k = new
    <3>1. op # "release" => holds'[o] <= Ttl(ttl)
      BY <1>9, <1>1 DEF BeliefBounded
    <3> QED BY <2>3, <3>1, <1>3, <1>4, <1>5
  <2> QED BY <1>1, <2>1, <2>2, <2>3
<1>11. HolderCanRenew'
  BY <1>1, <1>3 DEF IInv, HolderCanRenew
<1> QED BY <1>6, <1>7, <1>8, <1>9, <1>10, <1>11 DEF IInv

-----------------------------------------------------------------------------
\* A call is gone, and no process believes in more than before.
LEMMA FewerIInv ==
  ASSUME IInv, NEW k \in calls, calls' = calls \ {k}, UNCHANGED <<up, signer>>,
         row' \in Row \cup {Nil}, holds' \in [Owners -> Nat],
         \A p \in Owners : holds'[p] = holds[p] \/ holds'[p] = 0,
         overtaken' \subseteq Owners, failures' \in Nat, HolderCanRenew'
  PROVE  IInv'
<1>1. TypeOK'
  BY DEF IInv, TypeOK
<1>2. OneLiveCall'
  BY Gone
<1>3. DownIsIdle'
  BY DEF IInv, DownIsIdle
<1>4. BeliefBounded'
  BY TtlType DEF IInv, BeliefBounded
<1>5. CallsFit'
  <2> SUFFICES ASSUME NEW l \in calls'
               PROVE  /\ l.op # "release" => l.ttl \in Ttls
                      /\ l.live => /\ l.signer = signer[l.owner]
                                   /\ holds'[l.owner] > 0 =>
                                        l.op # "release" /\ holds'[l.owner] + l.age <= Ttl(l.ttl)
    BY DEF CallsFit
  <2>1. l \in calls /\ l.owner \in Owners
    BY CallType DEF IInv
  <2>2. holds'[l.owner] > 0 => holds'[l.owner] = holds[l.owner]
    BY <2>1
  <2> QED BY <2>1, <2>2 DEF IInv, CallsFit
<1> QED BY <1>1, <1>2, <1>3, <1>4, <1>5 DEF IInv

\* The lease is written for the owner of the call, and no other one holds it.
LEMMA GrantIInv ==
  ASSUME IInv, OneCallOneTtl, NEW k \in calls, k.op # "release",
         calls' = calls \ {k}, UNCHANGED <<up, signer>>,
         row' = [owner |-> k.owner, signer |-> k.signer, expires |-> Ttl(k.ttl) - k.age],
         \A p \in Owners \ overtaken : p # k.owner => holds[p] = 0,
         Answered(k, row'.expires)
  PROVE  IInv'
<1> DEFINE time == Ttl(k.ttl) - k.age
<1>1. /\ k.owner \in Owners /\ k.signer \in Signers /\ k.age \in Nat
      /\ k.ttl \in Ttls /\ Ttl(k.ttl) \in Nat
      /\ k.live => k.signer = signer[k.owner]
      /\ k.live /\ holds[k.owner] > 0 => holds[k.owner] + k.age <= Ttl(k.ttl)
  BY CallType, TtlType DEF IInv, CallsFit
<1>2. time \in Int /\ row' \in Row /\ row' # Nil
      /\ row'.owner = k.owner /\ row'.signer = k.signer /\ row'.expires = time
  BY <1>1, NilAssumption DEF Row
<1>3. holds \in [Owners -> Nat] /\ failures \in Nat /\ overtaken \subseteq Owners
  BY DEF IInv, TypeOK
<1> HIDE DEF time
<1>4. CASE k.live /\ UNCHANGED <<holds, overtaken>> /\ failures' = failures + 1
  <2>1. ASSUME NEW p \in Owners \ overtaken, holds[p] > 0
        PROVE  p = k.owner /\ row'.signer = signer[p] /\ row'.expires >= holds[p]
    <3>1. p = k.owner
      BY <1>3, <2>1
    <3> QED BY <1>1, <1>2, <1>3, <1>4, <2>1, <3>1 DEF time
  <2>2. HolderCanRenew'
    BY <1>2, <1>4, <2>1 DEF HolderCanRenew
  <2> QED BY <1>2, <1>3, <1>4, <2>2, FewerIInv
<1>5. CASE ~k.live /\ overtaken' = Overtaken(k) /\ UNCHANGED <<holds, failures>>
  <2>1. ASSUME NEW p \in Owners \ overtaken', holds[p] > 0 PROVE p \notin overtaken /\ row' = row
    <3>1. p \notin overtaken /\ p = k.owner
      BY <1>3, <1>5, <2>1 DEF Overtaken
    <3> QED BY <1>5, <2>1, <3>1 DEF Overtaken
  <2>2. HolderCanRenew'
    BY <1>5, <2>1 DEF IInv, HolderCanRenew
  <2>3. overtaken' \subseteq Owners
    BY <1>1, <1>3, <1>5 DEF Overtaken
  <2> QED BY <1>2, <1>3, <1>5, <2>2, <2>3, FewerIInv
<1>6. CASE /\ k.live /\ holds' = [holds EXCEPT ![k.owner] = IF time > 0 THEN time ELSE 0]
           /\ overtaken' = overtaken \ {k.owner} /\ failures' = failures
  <2>1. /\ holds' \in [Owners -> Nat]
        /\ holds'[k.owner] = (IF time > 0 THEN time ELSE 0)
        /\ \A p \in Owners \ {k.owner} : holds'[p] = holds[p]
    BY <1>1, <1>2, <1>3, <1>6
  <2>2. TypeOK'
    BY <1>2, <1>3, <1>6, <2>1 DEF IInv, TypeOK
  <2>3. OneLiveCall' /\ \A l \in calls' : l \in calls /\ (l.live => l.owner # k.owner)
    BY <1>6, Gone
  <2>4. k.owner \in up
    BY <1>1, <1>6 DEF IInv, DownIsIdle
  <2>5. DownIsIdle'
    BY <2>1, <2>3, <2>4 DEF IInv, DownIsIdle
  <2>6. BeliefBounded'
    <3>1. ASSUME NEW ttl \in Ttls PROVE holds'[k.owner] <= Ttl(ttl)
      <4>1. Ttl(ttl) = Ttl(k.ttl) /\ Ttl(ttl) \in Nat
        BY <1>1, TtlType DEF OneCallOneTtl
      <4> QED BY <1>1, <2>1, <4>1 DEF time
    <3> QED BY <2>1, <3>1 DEF IInv, BeliefBounded
  <2>7. CallsFit'
    <3>1. \A l \in calls' : l.live => holds'[l.owner] = holds[l.owner]
      BY <2>1, <2>3, CallType DEF IInv
    <3> QED BY <2>3, <3>1 DEF IInv, CallsFit
  <2>8. HolderCanRenew'
    <3> SUFFICES ASSUME NEW p \in Owners \ overtaken', holds'[p] > 0
                 PROVE  /\ p = k.owner /\ row'.signer = signer[p] /\ row'.expires >= holds'[p]
      BY <1>2 DEF HolderCanRenew
    <3>1. p = k.owner
      BY <1>6, <2>1
    <3> QED BY <1>1, <1>2, <1>6, <2>1, <3>1
  <2> QED BY <2>2, <2>3, <2>5, <2>6, <2>7, <2>8 DEF IInv
<1> QED BY <1>2, <1>3, <1>4, <1>5, <1>6 DEF Answered, time

LEMMA AcquireIInv ==
  ASSUME IInv, OneCallOneTtl, NEW k \in calls, Acquire(k) PROVE IInv'
<1>1. k.op = "acquire" /\ calls' = calls \ {k} /\ UNCHANGED <<up, signer>>
  BY DEF Acquire
<1>2. k.age \in Nat
  BY CallType DEF IInv
<1>3. CASE Refused(k)
  <2>1. UNCHANGED <<row, holds, overtaken, failures>>
    BY <1>3 DEF Acquire
  <2> QED BY <1>1, <2>1, FewerIInv DEF IInv, TypeOK, HolderCanRenew
<1>4. CASE ~Refused(k)
  <2>1. row' = Acquired(k) /\ Answered(k, row'.expires)
    BY <1>4 DEF Acquire
  <2>2. ASSUME NEW p \in Owners \ overtaken, p # k.owner, holds[p] # 0 PROVE FALSE
    <3>1. holds[p] > 0 /\ holds[p] \in Nat
      BY <2>2 DEF IInv, TypeOK
    <3>2. row # Nil /\ row.owner = p /\ row.expires >= holds[p]
      BY <3>1 DEF IInv, HolderCanRenew
    <3>3. row.expires \in Int
      BY <3>2 DEF IInv, TypeOK, Row
    <3> QED BY <1>2, <1>4, <2>2, <3>1, <3>2, <3>3 DEF Refused, Runs
  <2> QED BY <1>1, <2>1, <2>2, GrantIInv DEF Acquired
<1> QED BY <1>3, <1>4

LEMMA RenewIInv ==
  ASSUME IInv, OneCallOneTtl, NEW k \in calls, Renew(k) PROVE IInv'
<1>1. k.op = "renew" /\ calls' = calls \ {k} /\ UNCHANGED <<up, signer>>
  BY DEF Renew
<1>2. CASE MayRenew(k)
  <2>1. row # Nil /\ row.owner = k.owner /\ row.signer = k.signer
    BY <1>2 DEF MayRenew, Runs
  <2>2. row \in Row
    BY <2>1 DEF IInv, TypeOK
  <2>3. row' = [row EXCEPT !.expires = Ttl(k.ttl) - k.age] /\ Answered(k, row'.expires)
    BY <1>2 DEF Renew
  <2>4. row' = [owner |-> k.owner, signer |-> k.signer, expires |-> Ttl(k.ttl) - k.age]
    BY <2>1, <2>2, <2>3 DEF Row
  <2>5. \A p \in Owners \ overtaken : p # k.owner => holds[p] = 0
    BY <2>1 DEF IInv, TypeOK, HolderCanRenew
  <2> QED BY <1>1, <2>3, <2>4, <2>5, GrantIInv
<1>3. CASE ~MayRenew(k)
  <2>1. row' = row /\ Answered(k, 0)
    BY <1>3 DEF Renew
  <2>2. /\ holds' \in [Owners -> Nat] /\ failures' \in Nat
        /\ \A p \in Owners : holds'[p] = holds[p] \/ holds'[p] = 0
        /\ overtaken' \subseteq Owners
        /\ \A p \in Owners \ overtaken' : holds'[p] > 0 => p \notin overtaken
    BY <2>1, CallType DEF Answered, Overtaken, IInv, TypeOK
  <2>3. HolderCanRenew'
    BY <1>1, <2>1, <2>2 DEF IInv, HolderCanRenew
  <2> QED BY <1>1, <2>1, <2>2, <2>3, FewerIInv DEF IInv, TypeOK
<1> QED BY <1>2, <1>3

LEMMA ReleaseIInv ==
  ASSUME IInv, NEW k \in calls, Release(k) PROVE IInv'
<1>1. /\ k.op = "release" /\ calls' = calls \ {k} /\ UNCHANGED <<up, signer, holds, failures>>
      /\ row' = IF row # Nil /\ row.owner = k.owner THEN Nil ELSE row
      /\ overtaken' = Overtaken(k)
  BY DEF Release
<1>2. k.owner \in Owners
  BY CallType DEF IInv
<1>3. ASSUME NEW p \in Owners \ overtaken', holds[p] > 0 PROVE p \notin overtaken /\ row' = row
  <2>1. p \notin overtaken
    BY <1>1, <1>3 DEF Overtaken
  <2>2. CASE p = k.owner
    <3>1. ~k.live
      BY <1>1, <1>3, <2>2 DEF IInv, CallsFit
    <3> QED BY <1>1, <1>3, <2>1, <2>2, <3>1 DEF Overtaken
  <2>3. CASE p # k.owner
    BY <1>1, <1>3, <2>1, <2>3 DEF IInv, HolderCanRenew
  <2> QED BY <2>2, <2>3
<1>4. HolderCanRenew'
  BY <1>1, <1>3 DEF IInv, HolderCanRenew
<1>5. row' \in Row \cup {Nil} /\ overtaken' \subseteq Owners
  BY <1>1, <1>2 DEF Overtaken, IInv, TypeOK
<1> QED BY <1>1, <1>4, <1>5, FewerIInv DEF IInv, TypeOK

LEMMA LostIInv == ASSUME IInv, NEW k \in calls, Lost(k) PROVE IInv'
<1>1. calls' = calls \ {k} /\ UNCHANGED <<row, up, signer, holds, overtaken>>
      /\ failures' = failures + 1
  BY DEF Lost
<1> QED BY <1>1, FewerIInv DEF IInv, TypeOK, HolderCanRenew
-----------------------------------------------------------------------------
LEMMA TickIInv == ASSUME IInv, Tick PROVE IInv'
<1>1. /\ row' = IF row = Nil THEN Nil
                ELSE [row EXCEPT !.expires = IF @ > -MaxAge THEN @ - 1 ELSE -MaxAge]
      /\ calls' = {[k EXCEPT !.age = @ + 1] : k \in calls}
      /\ holds' = [o \in Owners |-> IF holds[o] > 0 THEN holds[o] - 1 ELSE 0]
      /\ UNCHANGED <<up, signer, overtaken, failures>>
      /\ \A k \in calls : k.age < MaxAge
  BY DEF Tick
<1>2. holds \in [Owners -> Nat] /\ row \in Row \cup {Nil} /\ MaxAge \in Nat
  BY TimesAssumption DEF IInv, TypeOK
<1>3. holds' \in [Owners -> Nat]
      /\ \A o \in Owners : holds'[o] > 0 => holds[o] > 0 /\ holds'[o] = holds[o] - 1
  BY <1>1, <1>2
<1>4. row = Nil => row' = Nil
  BY <1>1
<1>5. row # Nil =>
        /\ row' \in Row /\ row'.owner = row.owner /\ row'.signer = row.signer
        /\ row.expires \in Int /\ (row.expires > -MaxAge => row'.expires = row.expires - 1)
  BY <1>1, <1>2 DEF Row
<1>6. ASSUME NEW l \in calls'
      PROVE  /\ l \in Call
             /\ \E k \in calls : /\ l.owner = k.owner /\ l.op = k.op /\ l.ttl = k.ttl
                                 /\ l.signer = k.signer /\ l.live = k.live /\ l.age = k.age + 1
                                 /\ l = [k EXCEPT !.age = @ + 1] /\ k.owner \in Owners
                                 /\ k.age \in Nat
  <2>1. PICK k \in calls : l = [k EXCEPT !.age = @ + 1]
    BY <1>1, <1>6
  <2>2. k \in Call /\ k.age < MaxAge /\ k.age \in Nat /\ k.owner \in Owners
    BY <1>1, CallType DEF IInv
  <2>3. l \in Call /\ l.owner = k.owner /\ l.op = k.op /\ l.ttl = k.ttl
        /\ l.signer = k.signer /\ l.live = k.live /\ l.age = k.age + 1
    BY <1>2, <2>1, <2>2 DEF Call
  <2> QED BY <2>1, <2>2, <2>3
<1>7. TypeOK'
  BY <1>1, <1>3, <1>4, <1>5, <1>6 DEF IInv, TypeOK
<1>8. OneLiveCall'
  BY <1>6 DEF IInv, OneLiveCall
<1>9. DownIsIdle'
  BY <1>1, <1>3, <1>6 DEF IInv, DownIsIdle, TypeOK
<1>10. BeliefBounded'
  <2>1. \A o \in Owners : holds'[o] <= holds[o]
    BY <1>1, <1>2
  <2> QED BY <1>2, <1>3, <2>1, TtlType DEF IInv, BeliefBounded
<1>11. CallsFit'
  <2> SUFFICES ASSUME NEW l \in calls'
               PROVE  /\ l.op # "release" => l.ttl \in Ttls
                      /\ l.live => /\ l.signer = signer[l.owner]
                                   /\ holds'[l.owner] > 0 =>
                                        l.op # "release" /\ holds'[l.owner] + l.age <= Ttl(l.ttl)
    BY <1>1 DEF CallsFit
  <2>1. PICK k \in calls : /\ l.owner = k.owner /\ l.op = k.op /\ l.ttl = k.ttl
                           /\ l.signer = k.signer /\ l.live = k.live /\ l.age = k.age + 1
                           /\ k.owner \in Owners /\ k.age \in Nat
    BY <1>6
  <2>2. holds'[l.owner] > 0 => holds[k.owner] > 0 /\ holds'[l.owner] + l.age = holds[k.owner] + k.age
    BY <1>2, <1>3, <2>1
  <2> QED BY <2>1, <2>2 DEF IInv, CallsFit
<1>12. HolderCanRenew'
  <2> SUFFICES ASSUME NEW o \in Owners \ overtaken, holds'[o] > 0
               PROVE  row' # Nil /\ row'.owner = o /\ row'.signer = signer[o]
                      /\ row'.expires >= holds'[o]
    BY <1>1 DEF HolderCanRenew
  <2>1. holds[o] > 0 /\ holds[o] \in Nat /\ holds'[o] = holds[o] - 1
    BY <1>2, <1>3
  <2>2. row # Nil /\ row.owner = o /\ row.signer = signer[o] /\ row.expires >= holds[o]
    BY <2>1 DEF IInv, HolderCanRenew
  <2>3. row' # Nil
    BY <1>5, <2>2, NilAssumption
  <2> QED BY <1>2, <1>5, <2>1, <2>2, <2>3
<1> QED BY <1>7, <1>8, <1>9, <1>10, <1>11, <1>12 DEF IInv
-----------------------------------------------------------------------------
LEMMA NextIInv == ASSUME IInv, OneCallOneTtl, [Next]_vars PROVE IInv'
<1>1. ASSUME NEW o \in Owners, Stop(o) PROVE IInv'
  BY <1>1, StopIInv
<1>2. ASSUME NEW o \in Owners, SendRelease(o) PROVE IInv'
  BY <1>2, SendIInv DEF SendRelease
<1>3. ASSUME NEW o \in Owners, NEW live \in BOOLEAN, Served(o, live) PROVE IInv'
  BY <1>3, AcquireIInv, RenewIInv, ReleaseIInv DEF Served
<1>4. ASSUME NEW o \in Owners, NEW s \in Signers, Start(o, s) PROVE IInv'
  BY <1>4, StartIInv
<1>5. ASSUME NEW o \in Owners, NEW ttl \in Ttls, SendAcquire(o, ttl) PROVE IInv'
  BY <1>5, SendIInv DEF SendAcquire
<1>6. ASSUME NEW o \in Owners, NEW ttl \in Ttls, SendRenew(o, ttl) PROVE IInv'
  BY <1>6, SendIInv DEF SendRenew
<1>7. ASSUME NEW k \in calls, Lost(k) PROVE IInv'
  BY <1>7, LostIInv
<1>8. CASE Tick
  BY <1>8, TickIInv
<1>9. CASE UNCHANGED vars
  BY <1>9 DEF vars, IInv, TypeOK, OneLiveCall, DownIsIdle, BeliefBounded, CallsFit, HolderCanRenew
<1> QED BY <1>1, <1>2, <1>3, <1>4, <1>5, <1>6, <1>7, <1>8, <1>9 DEF Next

\* A process has one live call, which leaves it no less of the lease than it believes in;
\* one that is down believes in none; and whoever believes in it and was not overtaken is
\* in the row, with its signer (executor_lease.py:8-43).
THEOREM IInvHolds == ASSUME OneCallOneTtl PROVE Spec => []IInv
<1>1. IInv /\ [Next]_vars => IInv'
  BY NextIInv
<1> QED BY InitIInv, <1>1, PTL DEF Spec

\* One owner acts at a time: whoever acts and was not overtaken is the owner that
\* the row names (executor_lease.py:8-26).
THEOREM OneOwner == ASSUME OneCallOneTtl PROVE Spec => []OneOwnerActs
<1>1. IInv => OneOwnerActs
  BY DEF IInv, HolderCanRenew, OneOwnerActs
<1> QED BY IInvHolds, <1>1, PTL

\* The process that acts can renew its lease, with the signer it was started with
\* (executor_lease.py:19-26).
THEOREM HolderRenews == ASSUME OneCallOneTtl PROVE Spec => []HolderCanRenew
<1>1. IInv => HolderCanRenew
  BY DEF IInv
<1> QED BY IInvHolds, <1>1, PTL
=============================================================================
