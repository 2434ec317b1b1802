---------------------------- MODULE NotifierProofs ----------------------------
(***************************************************************************)
(* What of Notifier holds for any wallets, any number of threads and any   *)
(* number of mishaps: no delay gets longer than the longest one, however   *)
(* often a mail failed; a row is SENT only when its mail went out; and a   *)
(* mail is repeated at most once for each mishap that hit it.              *)
(***************************************************************************)
EXTENDS Notifier, SumTheorems, FiniteSetTheorems, TLAPS

LEMMA PostingFinite ==
  \A w : IsFiniteSet(Posting(w)) /\ Cardinality(Posting(w)) \in Nat
<1>1. \A w : Posting(w) \subseteq Threads
  BY DEF Posting
<1> QED BY <1>1, ThreadsAssumption, FS_Subset, FS_CardinalityType

\* Of the threads in T, those at work on w.
LEMMA HitFinite ==
  ASSUME NEW T \in SUBSET Threads, NEW w
  PROVE  Cardinality({t \in T : AtWork(t, w)}) \in Nat
<1>1. {t \in T : AtWork(t, w)} \subseteq Threads
  OBVIOUS
<1> QED BY <1>1, ThreadsAssumption, FS_Subset, FS_CardinalityType

\* A mishap that hits one thread excuses one more mail of its wallet, and no other.
LEMMA MishapOfOne ==
  ASSUME Tables, NEW t \in Threads, Mishap({t}), AtWork(t, thread[t].wallet)
  PROVE  /\ excused' \in [Wallets -> Nat] /\ mishaps' \in 0..MaxMishaps
         /\ \A w \in Wallets : excused'[w] = excused[w] + (IF w = thread[t].wallet THEN 1 ELSE 0)
<1>1. \A w \in Wallets : {s \in {t} : AtWork(s, w)} = IF w = thread[t].wallet THEN {t} ELSE {}
  BY DEF AtWork
<1>2. Cardinality({t}) = 1 /\ Cardinality({}) = 0
  BY FS_EmptySet, FS_Singleton
<1>3. \A w \in Wallets : Cardinality({s \in {t} : AtWork(s, w)})
                           = IF w = thread[t].wallet THEN 1 ELSE 0
  BY <1>1, <1>2
<1>4. /\ excused' = [w \in Wallets |-> excused[w] + Cardinality({s \in {t} : AtWork(s, w)})]
      /\ mishaps < MaxMishaps /\ mishaps' = mishaps + 1
  BY DEF Mishap
<1>5. mishaps' \in 0..MaxMishaps
  BY <1>4, BoundsAssumption DEF Tables
<1>6. \A w \in Wallets : excused[w] \in Nat
  BY DEF Tables
<1> QED BY <1>3, <1>4, <1>5, <1>6

-----------------------------------------------------------------------------
LEMMA InitIInv == Init => IInv
<1> SUFFICES ASSUME Init PROVE IInv
  OBVIOUS
<1>1. Tables
  BY BoundsAssumption DEF Init, Tables, Idle
<1>2. AtWorkOnWallet /\ AcceptedIsMailed /\ SentIsMailed
  BY DEF Init, AtWorkOnWallet, AcceptedIsMailed, SentIsMailed, Idle
<1>3. \A w : Posting(w) = {}
  BY DEF Init, Posting, Idle
<1>4. MailsFit
  <2>1. Cardinality({}) = 0
    BY FS_EmptySet
  <2>2. \A w \in Wallets : mails[w] = 0 /\ excused[w] = 0
    BY DEF Init
  <2>3. ASSUME NEW w \in Wallets
        PROVE  mails[w] + Cardinality(Posting(w))
                 <= excused[w] + (IF row[w] = "SENT" \/ InHand(w) THEN 1 ELSE 0)
    <3>1. mails[w] + Cardinality(Posting(w)) = 0 /\ excused[w] = 0
      BY <1>3, <2>1, <2>2
    <3>2. CASE row[w] = "SENT" \/ InHand(w)
      BY <3>1, <3>2
    <3>3. CASE ~(row[w] = "SENT" \/ InHand(w))
      BY <3>1, <3>3
    <3> QED BY <3>2, <3>3
  <2> QED BY <2>3 DEF MailsFit
<1> QED BY <1>1, <1>2, <1>4 DEF IInv

\* A step after which no more threads post than before, that sends no mail and leaves
\* the mails the room they had.
LEMMA NoMailIInv ==
  ASSUME IInv, Tables', AtWorkOnWallet', UNCHANGED mails,
         \A t \in Threads : thread'[t].pc = "ACCEPTED" =>
           thread[t].pc = "ACCEPTED" /\ thread'[t].wallet = thread[t].wallet,
         \A w \in Wallets : row'[w] = "SENT" =>
           row[w] = "SENT" \/ \E t \in Threads : thread[t].pc = "ACCEPTED" /\ thread[t].wallet = w,
         \A w \in Wallets : Posting(w)' \subseteq Posting(w),
         \A w \in Wallets : excused[w] <= excused'[w],
         \A w \in Wallets : row[w] = "SENT" \/ InHand(w) =>
           row'[w] = "SENT" \/ InHand(w)' \/ excused[w] < excused'[w]
  PROVE  IInv'
<1>1. AcceptedIsMailed' /\ SentIsMailed'
  BY DEF IInv, AcceptedIsMailed, SentIsMailed
<1>2. MailsFit'
  <2> SUFFICES ASSUME NEW w \in Wallets
               PROVE  mails'[w] + Cardinality(Posting(w)')
                        <= excused'[w] + (IF row'[w] = "SENT" \/ InHand(w)' THEN 1 ELSE 0)
    BY DEF MailsFit
  <2>1. Cardinality(Posting(w)') \in Nat /\ Cardinality(Posting(w)) \in Nat
        /\ Cardinality(Posting(w)') <= Cardinality(Posting(w))
    BY PostingFinite, FS_Subset, FS_CardinalityType
  <2>2. mails'[w] = mails[w] /\ mails[w] \in Nat /\ excused[w] \in Nat /\ excused'[w] \in Nat
    BY DEF IInv, Tables
  <2>3. mails[w] + Cardinality(Posting(w))
          <= excused[w] + (IF row[w] = "SENT" \/ InHand(w) THEN 1 ELSE 0)
    BY DEF IInv, MailsFit
  <2>4. CASE row'[w] = "SENT" \/ InHand(w)'
    BY <2>1, <2>2, <2>3, <2>4
  <2>5. CASE ~(row'[w] = "SENT" \/ InHand(w)')
    BY <2>1, <2>2, <2>3, <2>5
  <2> QED BY <2>4, <2>5
<1> QED BY <1>1, <1>2 DEF IInv

-----------------------------------------------------------------------------
LEMMA AnnounceIInv == ASSUME IInv, NEW w \in Wallets, Announce(w) PROVE IInv'
<1>1. Tables'
  BY DEF Announce, IInv, Tables
<1>2. UNCHANGED <<thread, loop, mails, excused>>
      /\ \A v \in Wallets : row'[v] = "SENT" <=> row[v] = "SENT"
  BY DEF Announce, IInv, Tables
<1>3. \A v : (Posting(v)' = Posting(v)) /\ (InHand(v)' <=> InHand(v))
  BY <1>2 DEF Posting, InHand, AtWork
<1>4. \A v \in Wallets : excused[v] <= excused'[v]
  BY <1>2 DEF IInv, Tables
<1>5. AtWorkOnWallet'
  BY <1>2 DEF IInv, AtWorkOnWallet
<1> QED BY <1>1, <1>2, <1>3, <1>4, <1>5, NoMailIInv

LEMMA PollIInv == ASSUME IInv, Poll PROVE IInv'
<1> USE DEF IInv
<1>1. /\ loop \in Threads /\ thread[loop].pc = "IDLE" /\ UNCHANGED <<row, ids, attempts, loop, mails, excused, mishaps>>
      /\ \A t \in Threads \ {loop} : thread'[t] = thread[t]
  BY DEF Poll, Tables
<1>2. CASE Due = {}
  <2>1. thread' = [thread EXCEPT ![loop] = Idle]
    BY <1>2 DEF Poll
  <2>2. Tables' /\ AtWorkOnWallet'
    BY <1>1, <2>1, BoundsAssumption DEF Tables, AtWorkOnWallet, Idle
  <2>3. \A w \in Wallets : ~InHand(w) /\ Posting(w)' \subseteq Posting(w) /\ excused[w] <= excused'[w]
    BY <1>1, <2>1 DEF Tables, InHand, AtWork, Posting, Idle
  <2>4. \A t \in Threads : thread'[t].pc = "ACCEPTED" =>
          thread[t].pc = "ACCEPTED" /\ thread'[t].wallet = thread[t].wallet
    BY <1>1, <2>1 DEF Tables, Idle
  <2> QED BY <1>1, <2>2, <2>3, <2>4, NoMailIInv
<1>3. CASE Due # {}
  <2> DEFINE first == CHOOSE i \in Due : \A j \in Due : i <= j
             w == ids[first]
  <2>1. \E i \in Due : \A j \in Due : i <= j
    <3>1. Due \subseteq Nat
      BY DEF Due, Tables
    <3> QED BY <1>3, <3>1, NatLeast
  <2>2. w \in Wallets /\ row[w] = "PENDING"
    <3>1. first \in Due
      BY <2>1
    <3> HIDE DEF first
    <3>2. first \in DOMAIN ids /\ row[w] = "PENDING"
      BY <3>1 DEF Due
    <3> QED BY <3>2 DEF Tables
  <2>3. thread' = [thread EXCEPT ![loop] =
                     [pc |-> "POST", wallet |-> w, attempts |-> attempts[w], age |-> 0]]
    BY <1>3 DEF Poll
  <2> HIDE DEF w
  <2>4. Tables' /\ AtWorkOnWallet'
    BY <1>1, <2>2, <2>3 DEF Tables, AtWorkOnWallet
  <2>5. AcceptedIsMailed' /\ SentIsMailed'
    BY <1>1, <2>3 DEF Tables, AcceptedIsMailed, SentIsMailed
  <2>6. MailsFit'
    <3> SUFFICES ASSUME NEW v \in Wallets
                 PROVE  mails'[v] + Cardinality(Posting(v)')
                          <= excused'[v] + (IF row'[v] = "SENT" \/ InHand(v)' THEN 1 ELSE 0)
      BY DEF MailsFit
    <3>1. mails[v] + Cardinality(Posting(v))
            <= excused[v] + (IF row[v] = "SENT" \/ InHand(v) THEN 1 ELSE 0)
      BY DEF MailsFit
    <3>2. mails[v] \in Nat /\ excused[v] \in Nat /\ Cardinality(Posting(v)) \in Nat
          /\ mails'[v] = mails[v] /\ excused'[v] = excused[v] /\ row'[v] = row[v]
      BY <1>1, PostingFinite DEF Tables
    <3>3. ~InHand(v)
      BY <1>1 DEF InHand, AtWork
    <3>4. CASE v = w
      <4>1. Posting(v)' = Posting(v) \cup {loop} /\ loop \notin Posting(v) /\ InHand(v)'
        BY <1>1, <2>3, <3>4 DEF Tables, Posting, InHand, AtWork
      <4>2. Cardinality(Posting(v)') = Cardinality(Posting(v)) + 1
        BY <4>1, PostingFinite, FS_AddElement
      <4>3. row[v] # "SENT"
        BY <2>2, <3>4
      <4> QED BY <3>1, <3>2, <3>3, <4>1, <4>2, <4>3
    <3>5. CASE v # w
      <4>1. Posting(v)' = Posting(v)
        BY <1>1, <2>3, <3>5 DEF Tables, Posting
      <4>2. CASE row[v] = "SENT"
        BY <3>1, <3>2, <4>1, <4>2
      <4>3. CASE row[v] # "SENT"
        BY <3>1, <3>2, <3>3, <4>1, <4>3
      <4> QED BY <4>2, <4>3
    <3> QED BY <3>4, <3>5
  <2> QED BY <2>4, <2>5, <2>6
<1> QED BY <1>2, <1>3

LEMMA PostIInv ==
  ASSUME IInv, NEW t \in Threads, NEW answer \in {"OK", "REFUSED", "LOST"}, Post(t, answer)
  PROVE  IInv'
<1> USE DEF IInv
<1> DEFINE w == thread[t].wallet
<1>1. /\ w \in Wallets /\ thread[t].pc = "POST" /\ AtWork(t, thread[t].wallet)
      /\ UNCHANGED <<row, ids, rest, attempts, loop>>
      /\ thread' = [thread EXCEPT ![t].pc = IF Passes(answer) THEN "ACCEPTED" ELSE "FAILED"]
      /\ mails' = IF answer = "REFUSED" THEN mails ELSE [mails EXCEPT ![w] = @ + 1]
      /\ w \in Refused => answer = "REFUSED"
      /\ IF answer = "OK" \/ w \in Refused THEN UNCHANGED <<excused, mishaps>> ELSE Mishap({t})
  BY DEF Post, AtWork, AtWorkOnWallet
<1>2. /\ excused' \in [Wallets -> Nat] /\ mishaps' \in 0..MaxMishaps
      /\ \A v \in Wallets :
           excused'[v] = excused[v] + (IF v = w /\ answer # "OK" /\ w \notin Refused THEN 1 ELSE 0)
  <2>1. CASE answer = "OK" \/ w \in Refused
    BY <1>1, <2>1 DEF Tables
  <2>2. CASE ~(answer = "OK" \/ w \in Refused)
    BY <1>1, <2>2, MishapOfOne
  <2> QED BY <2>1, <2>2
<1>3. /\ mails' \in [Wallets -> Nat]
      /\ \A v \in Wallets : mails'[v] = mails[v] + (IF v = w /\ answer # "REFUSED" THEN 1 ELSE 0)
  BY <1>1 DEF Tables
<1>4. /\ thread'[t].pc = (IF answer = "OK" THEN "ACCEPTED" ELSE "FAILED") /\ thread'[t].wallet = w
      /\ \A s \in Threads \ {t} : thread'[s] = thread[s]
      /\ \A s \in Threads : thread'[s].wallet = thread[s].wallet
  BY <1>1 DEF Tables, Passes
<1>5. Tables'
  <2>1. thread' \in [Threads -> [pc : {"IDLE", "POST", "ACCEPTED", "FAILED"},
                                wallet : Wallets \cup {Nil},
                                attempts : 0..(Doublings + 1), age : Nat]]
    BY <1>1, ZenonT(60) DEF Tables
  <2> QED BY <1>1, <1>2, <1>3, <2>1 DEF Tables
<1>6. AtWorkOnWallet'
  BY <1>1, <1>4 DEF AtWorkOnWallet
<1> HIDE DEF w
<1>7. AcceptedIsMailed'
  <2> SUFFICES ASSUME NEW s \in Threads, thread'[s].pc = "ACCEPTED" PROVE mails'[thread'[s].wallet] > 0
    BY DEF AcceptedIsMailed
  <2>1. CASE s = t
    <3>1. answer = "OK" /\ thread'[s].wallet = w
      BY <1>4, <2>1
    <3>2. mails[w] \in Nat
      BY <1>1 DEF Tables
    <3> QED BY <1>1, <1>3, <3>1, <3>2
  <2>2. CASE s # t
    <3>1. thread[s].pc = "ACCEPTED" /\ thread'[s].wallet = thread[s].wallet
      BY <1>4, <2>2
    <3>2. mails[thread[s].wallet] > 0 /\ thread[s].wallet \in Wallets
      BY <3>1 DEF AcceptedIsMailed, AtWorkOnWallet
    <3>3. mails[thread[s].wallet] \in Nat
      BY <3>2 DEF Tables
    <3> QED BY <1>3, <3>1, <3>2, <3>3
  <2> QED BY <2>1, <2>2
<1>8. SentIsMailed'
  BY <1>1, <1>3 DEF SentIsMailed, Tables
<1>9. MailsFit'
  <2> SUFFICES ASSUME NEW v \in Wallets
               PROVE  mails'[v] + Cardinality(Posting(v)')
                        <= excused'[v] + (IF row'[v] = "SENT" \/ InHand(v)' THEN 1 ELSE 0)
    BY DEF MailsFit
  <2>1. mails[v] + Cardinality(Posting(v))
          <= excused[v] + (IF row[v] = "SENT" \/ InHand(v) THEN 1 ELSE 0)
    BY DEF MailsFit
  <2>2. mails[v] \in Nat /\ excused[v] \in Nat /\ Cardinality(Posting(v)) \in Nat /\ row'[v] = row[v]
    BY <1>1, PostingFinite DEF Tables
  <2>3. CASE v # w
    <3>1. Posting(v)' = Posting(v) /\ (InHand(v)' <=> InHand(v))
      BY <1>1, <1>4, <2>3 DEF Posting, InHand, AtWork, w
    <3>2. mails'[v] = mails[v] /\ excused'[v] = excused[v]
      BY <1>2, <1>3, <2>3, <2>2
    <3> QED BY <2>1, <2>2, <3>1, <3>2
  <2>4. CASE v = w
    <3>1. t \in Posting(v) /\ Posting(v)' = Posting(v) \ {t}
      BY <1>1, <1>4, <2>4 DEF Posting, w
    <3>2. Cardinality(Posting(v)') = Cardinality(Posting(v)) - 1
      BY <3>1, PostingFinite, FS_RemoveElement
    <3>3. mails'[v] = mails[v] + (IF answer # "REFUSED" THEN 1 ELSE 0)
      BY <1>3, <2>4
    <3>4. excused'[v] = excused[v] + (IF answer # "OK" /\ w \notin Refused THEN 1 ELSE 0)
      BY <1>2, <2>4
    <3>5. CASE answer = "OK"
      <4>1. InHand(v)' <=> InHand(v)
        BY <1>1, <1>4, <2>4, <3>5 DEF InHand, AtWork, w
      <4>2. mails'[v] = mails[v] + 1 /\ excused'[v] = excused[v]
        BY <3>3, <3>4, <3>5, <2>2
      <4> QED BY <2>1, <2>2, <3>2, <4>1, <4>2
    <3>6. CASE answer = "LOST"
      <4>1. mails'[v] = mails[v] + 1 /\ excused'[v] = excused[v] + 1
        BY <1>1, <3>3, <3>4, <3>6
      <4>2. mails[v] + Cardinality(Posting(v)) <= excused[v] + 1
        BY <2>1, <2>2
      <4> QED BY <2>2, <3>2, <4>1, <4>2
    <3>7. CASE answer = "REFUSED"
      <4>1. mails'[v] = mails[v] /\ excused'[v] >= excused[v] /\ excused'[v] \in Nat
        BY <2>2, <3>3, <3>4, <3>7
      <4>2. mails[v] + Cardinality(Posting(v)) <= excused[v] + 1
        BY <2>1, <2>2
      <4> QED BY <2>2, <3>2, <4>1, <4>2
    <3> QED BY <3>5, <3>6, <3>7
  <2> QED BY <2>3, <2>4
<1> QED BY <1>5, <1>6, <1>7, <1>8, <1>9

LEMMA MarkSentIInv == ASSUME IInv, NEW t \in Threads, MarkSent(t) PROVE IInv'
<1> USE DEF IInv
<1> DEFINE w == thread[t].wallet
<1>1. /\ w \in Wallets /\ thread[t].pc = "ACCEPTED" /\ row' = [row EXCEPT ![w] = "SENT"]
      /\ UNCHANGED <<ids, rest, attempts, loop, mails, excused, mishaps>>
      /\ thread' = [thread EXCEPT ![t] = [Idle EXCEPT !.age = thread[t].age]]
  BY DEF MarkSent, AtWorkOnWallet
<1>2. /\ thread'[t].pc = "IDLE"
      /\ \A s \in Threads \ {t} : thread'[s] = thread[s]
  BY <1>1 DEF Tables, Idle
<1>3. Tables'
  <2>1. thread[t].age \in Nat
    BY DEF Tables
  <2>2. [Idle EXCEPT !.age = thread[t].age] \in
          [pc : {"IDLE", "POST", "ACCEPTED", "FAILED"}, wallet : Wallets \cup {Nil},
           attempts : 0..(Doublings + 1), age : Nat]
    BY <2>1, BoundsAssumption DEF Idle
  <2> QED BY <1>1, <2>2 DEF Tables
<1>4. AtWorkOnWallet'
  BY <1>2 DEF AtWorkOnWallet
<1>5. \A v \in Wallets : excused[v] <= excused'[v]
  BY <1>1 DEF Tables
<1>6. \A v \in Wallets : Posting(v)' \subseteq Posting(v)
  BY <1>1, <1>2 DEF Posting
<1>7. \A v \in Wallets : row[v] = "SENT" \/ InHand(v) => row'[v] = "SENT" \/ InHand(v)'
  BY <1>1, <1>2 DEF Tables, InHand, AtWork
<1>8. \A v \in Wallets : row'[v] = "SENT" =>
        row[v] = "SENT" \/ \E s \in Threads : thread[s].pc = "ACCEPTED" /\ thread[s].wallet = v
  BY <1>1 DEF Tables
<1>9. \A s \in Threads : thread'[s].pc = "ACCEPTED" =>
        thread[s].pc = "ACCEPTED" /\ thread'[s].wallet = thread[s].wallet
  BY <1>2
<1> QED BY <1>1, <1>3, <1>4, <1>5, <1>6, <1>7, <1>8, <1>9, NoMailIInv

LEMMA MarkFailedIInv == ASSUME IInv, NEW t \in Threads, MarkFailed(t) PROVE IInv'
<1> USE DEF IInv
<1>1. /\ thread[t].pc = "FAILED" /\ UNCHANGED <<row, ids, loop, mails, excused, mishaps>>
      /\ thread' = [thread EXCEPT ![t] = [Idle EXCEPT !.age = thread[t].age]]
  BY DEF MarkFailed
<1>2. /\ thread'[t].pc = "IDLE"
      /\ \A s \in Threads \ {t} : thread'[s] = thread[s]
  BY <1>1 DEF Tables, Idle
<1>3. Tables'
  <2>1. thread[t].age \in Nat /\ thread[t].attempts \in 0..(Doublings + 1)
    BY DEF Tables
  <2>2. [Idle EXCEPT !.age = thread[t].age] \in
          [pc : {"IDLE", "POST", "ACCEPTED", "FAILED"}, wallet : Wallets \cup {Nil},
           attempts : 0..(Doublings + 1), age : Nat]
    BY <2>1, BoundsAssumption DEF Idle
  <2>3. attempts' \in [Wallets -> 0..(Doublings + 1)]
    <3> DEFINE n == thread[t].attempts + 1
               next == IF n > Doublings THEN Doublings + 1 ELSE n
    <3>1. next \in 0..(Doublings + 1)
      BY <2>1, BoundsAssumption
    <3>2. attempts' = attempts \/ attempts' = [attempts EXCEPT ![thread[t].wallet] = next]
      BY DEF MarkFailed
    <3> HIDE DEF next
    <3> QED BY <3>1, <3>2 DEF Tables
  <2> QED BY <1>1, <2>2, <2>3 DEF Tables
<1>4. AtWorkOnWallet'
  BY <1>2 DEF AtWorkOnWallet
<1>5. \A v \in Wallets : excused[v] <= excused'[v]
  BY <1>1 DEF Tables
<1>6. \A v \in Wallets : Posting(v)' \subseteq Posting(v)
  BY <1>1, <1>2 DEF Posting
<1>7. \A v \in Wallets : row[v] = "SENT" \/ InHand(v) => row'[v] = "SENT" \/ InHand(v)'
  BY <1>1, <1>2 DEF Tables, InHand, AtWork
<1>8. \A s \in Threads : thread'[s].pc = "ACCEPTED" =>
        thread[s].pc = "ACCEPTED" /\ thread'[s].wallet = thread[s].wallet
  BY <1>2
<1> QED BY <1>1, <1>3, <1>4, <1>5, <1>6, <1>7, <1>8, NoMailIInv

LEMMA ReconnectIInv == ASSUME IInv, NEW t \in Threads, Reconnect(t) PROVE IInv'
<1> USE DEF IInv
<1>1. /\ thread[loop].pc # "IDLE" /\ thread[t].pc = "IDLE" /\ loop' = t /\ Mishap({loop})
      /\ thread' = [thread EXCEPT ![t] = Idle] /\ loop \in Threads
      /\ UNCHANGED <<row, ids, rest, attempts, mails>>
  BY DEF Reconnect, Tables
<1>2. /\ thread'[t].pc = "IDLE"
      /\ \A s \in Threads \ {t} : thread'[s] = thread[s]
  BY <1>1 DEF Tables, Idle
<1>3. /\ excused' \in [Wallets -> Nat] /\ mishaps' \in 0..MaxMishaps
      /\ \A v \in Wallets : excused'[v] = excused[v] + (IF v = thread[loop].wallet THEN 1 ELSE 0)
  BY <1>1, MishapOfOne DEF AtWork
<1>4. Tables'
  BY <1>1, <1>3, BoundsAssumption DEF Tables, Idle
<1>5. AtWorkOnWallet'
  BY <1>2 DEF AtWorkOnWallet
<1>6. \A v \in Wallets : excused[v] <= excused'[v]
  <2>1. \A v \in Wallets : excused[v] \in Nat
    BY DEF Tables
  <2> QED BY <1>3, <2>1
<1>7. \A v \in Wallets : Posting(v)' \subseteq Posting(v)
  BY <1>1, <1>2 DEF Posting
<1>8. \A v \in Wallets : InHand(v) => excused[v] < excused'[v]
  BY <1>3 DEF Tables, InHand, AtWork
<1>9. \A s \in Threads : thread'[s].pc = "ACCEPTED" =>
        thread[s].pc = "ACCEPTED" /\ thread'[s].wallet = thread[s].wallet
  BY <1>2
<1> QED BY <1>1, <1>4, <1>5, <1>6, <1>7, <1>8, <1>9, NoMailIInv

LEMMA TickIInv == ASSUME IInv, Tick PROVE IInv'
<1> USE DEF IInv
<1> DEFINE Older(t) == IF /\ thread[t].age < MaxDelay
                          /\ t = loop \/ thread[t].pc # "IDLE"
                       THEN thread[t].age + 1 ELSE thread[t].age
<1>1. /\ UNCHANGED <<row, ids, attempts, loop, mails, excused, mishaps>>
      /\ thread' = [t \in Threads |-> [thread[t] EXCEPT !.age = Older(t)]]
  BY DEF Tick
<1>2. \A t \in Threads : Older(t) \in Nat
  BY DEF Tables
<1> HIDE DEF Older
<1>3. thread' \in [Threads -> [pc : {"IDLE", "POST", "ACCEPTED", "FAILED"},
                              wallet : Wallets \cup {Nil},
                              attempts : 0..(Doublings + 1), age : Nat]]
      /\ \A t \in Threads : thread'[t].pc = thread[t].pc /\ thread'[t].wallet = thread[t].wallet
  BY <1>1, <1>2 DEF Tables
<1>4. Tables'
  BY <1>1, <1>3 DEF Tables
<1>5. AtWorkOnWallet' /\ \A v \in Wallets : excused[v] <= excused'[v]
  <2>1. AtWorkOnWallet'
    BY <1>3 DEF AtWorkOnWallet
  <2>2. \A v \in Wallets : excused[v] \in Nat
    BY DEF Tables
  <2> QED BY <1>1, <2>1, <2>2
<1>6. \A v \in Wallets : Posting(v)' = Posting(v) /\ (InHand(v) => InHand(v)')
  BY <1>1, <1>3 DEF Tables, Posting, InHand, AtWork
<1> QED BY <1>1, <1>3, <1>4, <1>5, <1>6, NoMailIInv

LEMMA CrashIInv == ASSUME IInv, NEW D \in SUBSET Threads, Crash(D) PROVE IInv'
<1> USE DEF IInv
<1> DEFINE Hit(v)  == {t \in Threads : AtWork(t, v)}
           Left(v) == {t \in D : thread[t].wallet = v}
<1>1. /\ D \subseteq {t \in Threads : thread[t].pc = "POST"}
      /\ thread' = [t \in Threads |-> Idle]
      /\ mails' = [v \in Wallets |-> mails[v] + Cardinality(Left(v))]
      /\ excused' = [v \in Wallets |-> excused[v] + Cardinality(Hit(v))]
      /\ mishaps < MaxMishaps /\ mishaps' = mishaps + 1
      /\ UNCHANGED <<row, ids, rest, attempts, loop>>
  BY DEF Crash, Mishap
<1>2. \A v : Cardinality(Hit(v)) \in Nat /\ (InHand(v) => Cardinality(Hit(v)) > 0)
  <2>1. \A v : IsFiniteSet(Hit(v)) /\ Cardinality(Hit(v)) \in Nat
    BY ThreadsAssumption, FS_Subset, FS_CardinalityType
  <2>2. \A v : InHand(v) => loop \in Hit(v)
    BY DEF InHand, Tables
  <2>3. \A v : InHand(v) => Cardinality(Hit(v)) # 0
    BY <2>1, <2>2, FS_EmptySet
  <2> QED BY <2>1, <2>3
<1>3. \A v : Cardinality(Left(v)) \in Nat /\ Cardinality(Left(v)) <= Cardinality(Posting(v))
  <2>1. \A v : Left(v) \subseteq Posting(v)
    BY <1>1 DEF Posting
  <2> QED BY <2>1, PostingFinite, FS_Subset, FS_CardinalityType
<1> HIDE DEF Hit, Left
<1>4. Tables'
  <2>1. mails' \in [Wallets -> Nat] /\ excused' \in [Wallets -> Nat]
    BY <1>1, <1>2, <1>3, SMTT(30) DEF Tables
  <2>2. thread' \in [Threads -> [pc : {"IDLE", "POST", "ACCEPTED", "FAILED"},
                                wallet : Wallets \cup {Nil},
                                attempts : 0..(Doublings + 1), age : Nat]]
    BY <1>1, BoundsAssumption DEF Idle
  <2>3. mishaps' \in 0..MaxMishaps
    BY <1>1, BoundsAssumption DEF Tables
  <2> QED BY <1>1, <2>1, <2>2, <2>3 DEF Tables
<1>5. \A t \in Threads : thread'[t].pc = "IDLE"
  BY <1>1 DEF Idle
<1>6. AtWorkOnWallet' /\ AcceptedIsMailed'
  BY <1>5 DEF AtWorkOnWallet, AcceptedIsMailed
<1>7. SentIsMailed'
  BY <1>1, <1>3 DEF SentIsMailed, Tables
<1>8. MailsFit'
  <2> SUFFICES ASSUME NEW v \in Wallets
               PROVE  mails'[v] + Cardinality(Posting(v)')
                        <= excused'[v] + (IF row'[v] = "SENT" \/ InHand(v)' THEN 1 ELSE 0)
    BY DEF MailsFit
  <2>1. mails[v] + Cardinality(Posting(v))
          <= excused[v] + (IF row[v] = "SENT" \/ InHand(v) THEN 1 ELSE 0)
    BY DEF MailsFit
  <2>2. mails[v] \in Nat /\ excused[v] \in Nat /\ Cardinality(Posting(v)) \in Nat
        /\ row'[v] = row[v] /\ Cardinality(Hit(v)) \in Nat /\ Cardinality(Left(v)) \in Nat
        /\ Cardinality(Left(v)) <= Cardinality(Posting(v))
    BY <1>1, <1>2, <1>3, PostingFinite DEF Tables
  <2>3. mails'[v] = mails[v] + Cardinality(Left(v)) /\ excused'[v] = excused[v] + Cardinality(Hit(v))
    BY <1>1
  <2>4. Posting(v)' = {} /\ Cardinality(Posting(v)') = 0
    BY <1>5, FS_EmptySet DEF Posting
  <2>5. CASE row[v] = "SENT"
    BY <2>1, <2>2, <2>3, <2>4, <2>5
  <2>6. CASE row[v] # "SENT" /\ InHand(v)
    <3>1. Cardinality(Hit(v)) > 0
      BY <1>2, <2>6
    <3>2. mails'[v] + Cardinality(Posting(v)') <= excused'[v]
      BY <2>1, <2>2, <2>3, <2>4, <3>1
    <3>3. mails'[v] \in Nat /\ excused'[v] \in Nat
      BY <2>2, <2>3
    <3> QED BY <2>4, <3>2, <3>3
  <2>7. CASE row[v] # "SENT" /\ ~InHand(v)
    <3>1. mails'[v] + Cardinality(Posting(v)') <= excused'[v]
      BY <2>1, <2>2, <2>3, <2>4, <2>7
    <3>2. mails'[v] \in Nat /\ excused'[v] \in Nat
      BY <2>2, <2>3
    <3> QED BY <2>4, <3>1, <3>2
  <2> QED BY <2>5, <2>6, <2>7
<1> QED BY <1>4, <1>6, <1>7, <1>8

LEMMA StepIInv == ASSUME IInv, [Next]_vars PROVE IInv'
<1>1. CASE UNCHANGED vars
  BY <1>1 DEF vars, IInv, Tables, AtWorkOnWallet, AcceptedIsMailed, SentIsMailed, MailsFit,
              Posting, InHand, AtWork
<1>2. CASE Next
  BY <1>2, AnnounceIInv, PollIInv, TickIInv, PostIInv, MarkSentIInv, MarkFailedIInv,
     ReconnectIInv, CrashIInv DEF Next, Work
<1> QED BY <1>1, <1>2

\* A thread at work is at work on a wallet, what it found accepted went out, and the
\* mails of a wallet, sent or about to be, fit what the mishaps excuse
\* (notifications.py:35-56).
THEOREM Invariant == Spec => []IInv
BY InitIInv, StepIInv, PTL DEF Spec

\* A row is SENT only when its mail went out, for any number of overlapping threads
\* and any mishaps (notifications.py:39-52).
THEOREM NoMailSkipped == Spec => []SentIsMailed
<1>1. IInv => SentIsMailed
  BY DEF IInv
<1> QED BY <1>1, Invariant, PTL

\* A mail is sent once, and once more at most for each mishap that hit a thread at work
\* on it (notifications.py:35-52).
THEOREM NoMailRepeated == Spec => []RepeatedByMishapOnly
<1>1. IInv => RepeatedByMishapOnly
  <2> SUFFICES ASSUME IInv, NEW w \in Wallets PROVE mails[w] <= 1 + excused[w]
    BY DEF RepeatedByMishapOnly
  <2>1. mails[w] + Cardinality(Posting(w))
          <= excused[w] + (IF row[w] = "SENT" \/ InHand(w) THEN 1 ELSE 0)
    BY DEF IInv, MailsFit
  <2>2. mails[w] \in Nat /\ excused[w] \in Nat /\ Cardinality(Posting(w)) \in Nat
    BY PostingFinite DEF IInv, Tables
  <2> QED BY <2>1, <2>2
<1> QED BY <1>1, Invariant, PTL

-----------------------------------------------------------------------------
\* A delay is a number of units that the longest one bounds, whatever number of
\* failures it stands for.
LEMMA DelayBounded == ASSUME NEW n \in 1..(Doublings + 2) PROVE Delay(n) \in Int /\ Delay(n) <= MaxDelay
<1> DEFINE d == Min({n - 1, Doublings})
           x == FirstDelay * 2 ^ d
<1>1. d \in Nat
  <2>1. n - 1 \in Nat /\ Doublings \in Nat
    BY BoundsAssumption
  <2>2. \E k \in {n - 1, Doublings} : \A l \in {n - 1, Doublings} : k <= l
    BY <2>1
  <2> QED BY <2>1, <2>2 DEF Min
<1> HIDE DEF d
<1>2. x \in Int
  BY <1>1, BoundsAssumption, SMT
<1> HIDE DEF x
<1>3. \E k \in {MaxDelay, x} : \A l \in {MaxDelay, x} : k <= l
  BY <1>2, BoundsAssumption
<1>4. /\ Min({MaxDelay, x}) \in {MaxDelay, x}
      /\ \A l \in {MaxDelay, x} : Min({MaxDelay, x}) <= l
  BY <1>3 DEF Min
<1>5. Delay(n) = Min({MaxDelay, x})
  BY DEF Delay, x, d
<1> QED BY <1>2, <1>4, <1>5, BoundsAssumption

\* A thread keeps its age, or begins a new one.
LEMMA AgesKept ==
  ASSUME IInv, Times, UNCHANGED rest,
         \A t \in Threads : thread'[t].age = 0 \/ thread'[t].age = thread[t].age
  PROVE  Times'
<1>1. \A t \in Threads : thread'[t].age <= MaxDelay
  BY BoundsAssumption DEF Times
<1> QED BY <1>1 DEF Times

LEMMA QuietTimes ==
  ASSUME IInv, Times,
         \/ \E w \in Wallets : Announce(w)
         \/ Poll
         \/ \E t \in Threads : \/ \E answer \in {"OK", "REFUSED", "LOST"} : Post(t, answer)
                               \/ MarkSent(t) \/ Reconnect(t)
         \/ \E D \in SUBSET Threads : Crash(D)
  PROVE  Times'
<1> USE DEF IInv, Tables
<1>1. ASSUME NEW w \in Wallets, Announce(w) PROVE Times'
  BY <1>1, AgesKept DEF Announce
<1>2. CASE Poll
  <2> DEFINE w == ids[CHOOSE i \in Due : \A j \in Due : i <= j]
             new == IF Due = {} THEN Idle
                    ELSE [pc |-> "POST", wallet |-> w, attempts |-> attempts[w], age |-> 0]
  <2>1. new.age = 0
    BY DEF Idle
  <2>2. thread' = [thread EXCEPT ![loop] = new] /\ UNCHANGED rest
    BY <1>2 DEF Poll
  <2> HIDE DEF new
  <2> QED BY <2>1, <2>2, AgesKept
<1>3. ASSUME NEW t \in Threads, NEW answer \in {"OK", "REFUSED", "LOST"}, Post(t, answer) PROVE Times'
  <2>1. /\ thread' = [thread EXCEPT ![t].pc = IF Passes(answer) THEN "ACCEPTED" ELSE "FAILED"]
        /\ UNCHANGED rest
    BY <1>3 DEF Post
  <2> QED BY <2>1, AgesKept
<1>4. ASSUME NEW t \in Threads, MarkSent(t) PROVE Times'
  <2>1. thread' = [thread EXCEPT ![t] = [Idle EXCEPT !.age = thread[t].age]] /\ UNCHANGED rest
    BY <1>4 DEF MarkSent
  <2> QED BY <2>1, AgesKept DEF Idle
<1>5. ASSUME NEW t \in Threads, Reconnect(t) PROVE Times'
  BY <1>5, AgesKept DEF Reconnect, Idle
<1>6. ASSUME NEW D \in SUBSET Threads, Crash(D) PROVE Times'
  BY <1>6, AgesKept DEF Crash, Idle
<1> QED BY <1>1, <1>2, <1>3, <1>4, <1>5, <1>6

LEMMA MarkFailedTimes == ASSUME IInv, Times, NEW t \in Threads, MarkFailed(t) PROVE Times'
<1> USE DEF IInv
<1> DEFINE w == thread[t].wallet
           n == thread[t].attempts + 1
           left == Delay(n) - thread[t].age
           wait == IF left > 0 THEN left ELSE 0
<1>1. thread' = [thread EXCEPT ![t] = [Idle EXCEPT !.age = thread[t].age]]
      /\ (UNCHANGED rest \/ rest' = [rest EXCEPT ![w] = wait])
  BY DEF MarkFailed
<1>2. \A s \in Threads : thread'[s].age <= MaxDelay
  BY <1>1 DEF Times, Tables, Idle
<1>3. wait \in 0..MaxDelay
  <2>1. n \in 1..(Doublings + 2) /\ thread[t].age \in Nat
    BY BoundsAssumption DEF Tables
  <2>2. Delay(n) \in Int /\ Delay(n) <= MaxDelay
    BY <2>1, DelayBounded
  <2> QED BY <2>1, <2>2, BoundsAssumption
<1> HIDE DEF wait
<1>4. rest' \in [Wallets -> 0..MaxDelay]
  BY <1>1, <1>3 DEF Times
<1> QED BY <1>2, <1>4 DEF Times

LEMMA TickTimes == ASSUME IInv, Times, Tick PROVE Times'
<1> USE DEF IInv
<1>1. \A t \in Threads : thread'[t].age <= MaxDelay
  <2> SUFFICES ASSUME NEW t \in Threads PROVE thread'[t].age <= MaxDelay
    OBVIOUS
  <2>1. thread'[t].age = IF thread[t].age < MaxDelay /\ (t = loop \/ thread[t].pc # "IDLE")
                         THEN thread[t].age + 1 ELSE thread[t].age
    BY DEF Tick, Tables
  <2>2. thread[t].age \in Nat /\ thread[t].age <= MaxDelay
    BY DEF Tables, Times
  <2> QED BY <2>1, <2>2, BoundsAssumption
<1>2. rest' \in [Wallets -> 0..MaxDelay]
  BY BoundsAssumption DEF Tick, Times
<1> QED BY <1>1, <1>2 DEF Times

\* A row never rests for longer than the longest delay, however often its mail failed,
\* and every table keeps its shape (notifications.py:39-56).
THEOREM Typed == Spec => []TypeOK
<1>1. Init => Times
  BY BoundsAssumption DEF Init, Times, Idle
<1>2. IInv /\ Times /\ [Next]_vars => Times'
  <2> SUFFICES ASSUME IInv, Times, [Next]_vars PROVE Times'
    OBVIOUS
  <2>1. CASE UNCHANGED vars
    BY <2>1 DEF vars, Times
  <2>2. CASE Next
    BY <2>2, QuietTimes, MarkFailedTimes, TickTimes DEF Next, Work
  <2> QED BY <2>1, <2>2
<1>3. IInv /\ Times => TypeOK
  BY DEF IInv, TypeOK
<1> QED BY <1>1, <1>2, <1>3, Invariant, PTL DEF Spec
=============================================================================
