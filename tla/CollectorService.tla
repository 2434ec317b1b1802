--------------------------- MODULE CollectorService ---------------------------
(***************************************************************************)
(* The collector (src/tme/collector_service.py): it follows the fills of   *)
(* the active wallets on a gRPC stream, onboards the wallets it has not    *)
(* seen (WalletCoverage), and journals and observes each fill.             *)
(*                                                                         *)
(* It is one asyncio task.  pc is where that task stands:                  *)
(*   RUN      run, about to read the active wallets                        *)
(*   FETCH    bootstrap, awaiting the state of the wallet current          *)
(*   ONBOARD  bootstrap, with that state in fetched                        *)
(*   LOOP     run_subscription, about to bootstrap the next wallet, or,    *)
(*            once all are, to read the active wallets again               *)
(*   WAIT     run_subscription, awaiting the next fill                     *)
(*   OBSERVE  the fill current is journaled and not yet observed           *)
(* The reader of the stream is a second task of the same event loop, so    *)
(* the stream can come up only while the first one awaits: in WAIT, and in *)
(* FETCH and ONBOARD, as the answer may be there and still be awaited.     *)
(* HTTP requests run in other threads and commit between any two steps.    *)
(*                                                                         *)
(* buffer holds the fills on their way: in the gRPC channel, then in the   *)
(* asyncio queue.  asOf, gap and unseen are history: no guard reads them.  *)
(***************************************************************************)
EXTENDS WalletCoverage, Sequences, FiniteSetsExt

CONSTANTS
  Deltas,      \* signed sizes of fills
  Opening,     \* positions on the exchange when the model starts
  Settable,    \* the statuses that wallet commands set
  Swaps,       \* signed sizes of trades between two of the wallets
  MaxFills,    \* bound: fills on the exchange
  MaxFailures, \* bound: failing streams and requests, crashes
  Nil

ASSUME DeltasAssumption   == Deltas \cup Swaps \subseteq Int \ {0}
ASSUME OpeningAssumption  == Opening \subseteq [Wallets -> [Coins -> Int]]
\* PURGE deletes rows as well: MemoryEngine has it.
ASSUME SettableAssumption == Settable \subseteq (Active \cup Inactive) \ {"PURGED"}
ASSUME BoundsAssumption   == MaxFills \in Nat /\ MaxFailures \in Nat
ASSUME NilAssumption      == Nil \notin Wallets \cup Nat \cup [Coins -> Int]

VARIABLES
  fills,        \* the fills of the exchange, in order
  held,         \* the positions on the exchange
  journal,      \* event_journal: the fills in it
  pc, current, fetched,
  subs,         \* the wallets subscribed to
  bootstrapped, \* self.bootstrapped
  stream,       \* OFF, STARTING, UP, FAILED, or ENDED without an error
  buffer,
  failures,
  asOf,         \* history: how many fills the state that onboarded a wallet contains
  gap,          \* history: a fill is missing amid those known of a wallet
  unseen        \* history: the fills journaled and never observed

serviceVars  == <<pc, current, fetched, subs, bootstrapped, stream, buffer>>
exchangeVars == <<fills, held>>
vars == <<coverageVars, serviceVars, exchangeVars, journal, failures, asOf, gap, unseen>>

TypeOK ==
  /\ CoverageTypeOK
  /\ fills \in Seq([wallet : Wallets, coin : Coins, start : Int, delta : Int, event : Nat])
  /\ held \in [Wallets -> [Coins -> Int]]
  /\ journal \subseteq 1..Len(fills) /\ unseen \subseteq journal
  /\ pc \in {"RUN", "FETCH", "ONBOARD", "LOOP", "WAIT", "OBSERVE"}
  /\ current \in Wallets \cup DOMAIN fills \cup {Nil}
  /\ fetched \in [Coins -> Int] \cup {Nil}
  /\ subs \subseteq Wallets /\ bootstrapped \subseteq Wallets
  /\ stream \in {"OFF", "STARTING", "UP", "FAILED", "ENDED"}
  /\ buffer \in Seq(DOMAIN fills)
  /\ failures \in 0..MaxFailures
  /\ asOf \in [Wallets -> 0..Len(fills)]
  /\ gap \in [Wallets -> BOOLEAN]

Init ==
  /\ CoverageInit
  /\ fills = <<>> /\ held \in Opening
  /\ journal = {} /\ unseen = {}
  /\ pc = "RUN" /\ current = Nil /\ fetched = Nil
  /\ subs = {} /\ bootstrapped = {} /\ stream = "OFF" /\ buffer = <<>>
  /\ failures = 0
  /\ asOf = [w \in Wallets |-> 0]
  /\ gap = [w \in Wallets |-> FALSE]
-----------------------------------------------------------------------------
\* A bug the checks must notice: new wallets are not active.
ActiveNotNew == {w \in Wallets : status[w] \in Active \ {"DISCOVERING"}}

\* wallets(): the addresses to follow.
ActiveWallets == {w \in Wallets : status[w] \in Active}

Joined(w)  == gate[w] # "NONE"
Known(w)   == Joined(w) \/ (pc = "ONBOARD" /\ current = w)
After(i)   == fills[i].start + fills[i].delta
Waiting    == {buffer[k] : k \in DOMAIN buffer}
Among(w, S) == \E i \in S : fills[i].wallet = w

\* A fill of a wallet that is subscribed to, while the stream is up, is heard.
Heard(w) == stream = "UP" /\ w \in subs

Delivered(b, w, i) == IF Heard(w) THEN Append(b, i) ELSE b

\* A fill that is not heard leaves a gap when fills around it are known.
Missed(w) == ~Heard(w) /\ (Known(w) \/ Among(w, Waiting))

\* What the exchange reports of a trade to an account in it.
Leg(w, c, d, event) ==
  [wallet |-> w, coin |-> c, start |-> held[w][c], delta |-> d, event |-> event]

Trade(w, c, d) ==
  LET n == Len(fills)
  IN /\ n + 1 <= MaxFills
     /\ fills' = Append(fills, Leg(w, c, d, n + 1))
     /\ held' = [held EXCEPT ![w][c] = @ + d]
     /\ buffer' = Delivered(buffer, w, n + 1)
     /\ gap' = [gap EXCEPT ![w] = @ \/ Missed(w)]
     /\ UNCHANGED <<coverageVars, journal, failures, asOf, unseen, bootstrapped,
                    pc, current, fetched, subs, stream>>

\* Two of the wallets trade with each other: one trade id.
Match(v, w, c, d) ==
  LET n == Len(fills)
  IN /\ n + 2 <= MaxFills
     /\ fills' = fills \o <<Leg(v, c, d, n + 1), Leg(w, c, -d, n + 1)>>
     /\ held' = [held EXCEPT ![v][c] = @ + d, ![w][c] = @ - d]
     /\ buffer' = Delivered(Delivered(buffer, v, n + 1), w, n + 2)
     /\ gap' = [gap EXCEPT ![v] = @ \/ Missed(v), ![w] = @ \/ Missed(w)]
     /\ UNCHANGED <<coverageVars, journal, failures, asOf, unseen, bootstrapped,
                    pc, current, fetched, subs, stream>>

\* add_wallet, and command_wallet: what the API does meanwhile.
AddWallet(w) ==
  /\ status[w] = "NONE"
  /\ status' = [status EXCEPT ![w] = "DISCOVERING"]
  /\ UNCHANGED <<coverage, gate, size, outbox, serviceVars, exchangeVars,
                 journal, failures, asOf, gap, unseen>>

CommandWallet(w, s) ==
  /\ status[w] # "NONE"
  /\ status' = [status EXCEPT ![w] = s]
  /\ UNCHANGED <<coverage, gate, size, outbox, serviceVars, exchangeVars,
                 journal, failures, asOf, gap, unseen>>
-----------------------------------------------------------------------------
\* run: a subscription begins with the wallets that are active now.
Begin ==
  /\ pc = "RUN"
  /\ bootstrapped' = bootstrapped \cap ActiveWallets
  /\ IF ActiveWallets = {}
     THEN UNCHANGED <<pc, subs, stream>>
     ELSE /\ pc' = "LOOP" /\ subs' = ActiveWallets /\ stream' = "STARTING"
  /\ UNCHANGED <<coverageVars, exchangeVars, current, fetched, buffer,
                 journal, failures, asOf, gap, unseen>>

\* The end of run_subscription: its reader, its queue and what is in it are gone.
End ==
  /\ pc' = "RUN" /\ current' = Nil /\ fetched' = Nil
  /\ subs' = {} /\ stream' = "OFF" /\ buffer' = <<>>
  /\ gap' = [w \in Wallets |-> Joined(w) /\ (gap[w] \/ Among(w, Waiting))]

\* An exception in it.
Fails == End /\ bootstrapped' = bootstrapped \ subs

\* bootstrap of a wallet that has an onboarding row: nothing is loaded.
BootstrapRestored(w) ==
  /\ pc = "LOOP" /\ w \in subs \ bootstrapped /\ Joined(w)
  /\ bootstrapped' = bootstrapped \cup {w}
  /\ UNCHANGED <<coverageVars, exchangeVars, pc, current, fetched, subs, stream, buffer,
                 journal, failures, asOf, gap, unseen>>

BootstrapBegin(w) ==
  /\ pc = "LOOP" /\ w \in subs \ bootstrapped /\ ~Joined(w)
  /\ status' = [status EXCEPT ![w] = "SYNCING"]
  /\ pc' = "FETCH" /\ current' = w
  /\ UNCHANGED <<coverage, gate, size, outbox, exchangeVars, fetched, subs, bootstrapped,
                 stream, buffer, journal, failures, asOf, gap, unseen>>

FetchState ==
  /\ pc = "FETCH"
  /\ pc' = "ONBOARD" /\ fetched' = held[current]
  /\ asOf' = [asOf EXCEPT ![current] = Len(fills)]
  /\ UNCHANGED <<coverageVars, exchangeVars, current, subs, bootstrapped, stream, buffer,
                 journal, failures, gap, unseen>>

FetchFails ==
  /\ pc = "FETCH" /\ failures < MaxFailures /\ failures' = failures + 1
  /\ Fails
  /\ UNCHANGED <<coverageVars, exchangeVars, journal, asOf, unseen>>

Onboard ==
  /\ pc = "ONBOARD"
  /\ Onboarded(current, fetched)
  /\ bootstrapped' = bootstrapped \cup {current}
  /\ pc' = "LOOP" /\ current' = Nil /\ fetched' = Nil
  /\ UNCHANGED <<exchangeVars, subs, stream, buffer, journal, failures, asOf, gap, unseen>>
-----------------------------------------------------------------------------
\* A bug the checks must notice: the buffer is drained before the bootstrap.
DrainsAtOnce == TRUE

\* The wallets of the subscription have been bootstrapped.
AllBootstrapped == subs \subseteq bootstrapped

WalletsSame ==
  /\ pc = "LOOP" /\ AllBootstrapped /\ ActiveWallets = subs
  /\ pc' = "WAIT"
  /\ UNCHANGED <<coverageVars, exchangeVars, current, fetched, subs, bootstrapped, stream,
                 buffer, journal, failures, asOf, gap, unseen>>

WalletsChanged ==
  /\ pc = "LOOP" /\ AllBootstrapped /\ ActiveWallets # subs
  /\ End
  /\ UNCHANGED <<coverageVars, exchangeVars, bootstrapped, journal, failures, asOf, unseen>>

\* The journal has the event id of the fill i already.
Exists(i) == \E j \in journal : fills[j].event = fills[i].event

\* accept_fill, for a wallet that is active now.  Its answer is ignored: a
\* duplicate is observed as well.
Ingest ==
  /\ pc = "WAIT" /\ buffer # <<>>
  /\ LET i == Head(buffer)
         w == fills[i].wallet
     IN /\ status[w] \in Active
        /\ IF Exists(i)
           THEN UNCHANGED <<journal, size, status>>
           ELSE /\ journal' = journal \cup {i}
                /\ size' = [size EXCEPT ![w][fills[i].coin] = @ + fills[i].delta]
                /\ status' = [status EXCEPT ![w] = "LIVE"]
        /\ current' = i
  /\ pc' = "OBSERVE" /\ buffer' = Tail(buffer)
  /\ UNCHANGED <<coverage, gate, outbox, exchangeVars, fetched, subs, bootstrapped, stream,
                 failures, asOf, gap, unseen>>

\* accept_fill raises: the wallet has been paused since it was found active.
IngestRefused ==
  /\ pc = "WAIT" /\ buffer # <<>>
  /\ status[fills[Head(buffer)].wallet] \in Inactive
  /\ Fails
  /\ UNCHANGED <<coverageVars, exchangeVars, journal, failures, asOf, unseen>>

Observe ==
  /\ pc = "OBSERVE"
  /\ Observed(fills[current].wallet, fills[current].coin, fills[current].start, After(current))
  /\ pc' = "LOOP" /\ current' = Nil
  /\ UNCHANGED <<exchangeVars, fetched, subs, bootstrapped, stream, buffer,
                 journal, failures, asOf, gap, unseen>>

\* A bug the checks must notice: the timeout does not look at the reader.
NeverBroken == FALSE

\* The reader has stopped with an error, which awaiting it raises.
Broken == stream = "FAILED"

\* No fill within refresh_seconds; what is buffered may still be on its way.
Timeout ==
  /\ pc = "WAIT" /\ ~Broken
  /\ stream \in {"FAILED", "ENDED"} => buffer = <<>>
  /\ pc' = "LOOP"
  /\ UNCHANGED <<coverageVars, exchangeVars, current, fetched, subs, bootstrapped, stream,
                 buffer, journal, failures, asOf, gap, unseen>>

StreamLost ==
  /\ pc = "WAIT" /\ Broken /\ buffer = <<>>
  /\ Fails
  /\ UNCHANGED <<coverageVars, exchangeVars, journal, failures, asOf, unseen>>
-----------------------------------------------------------------------------
StreamUp ==
  /\ stream = "STARTING" /\ pc \in {"FETCH", "ONBOARD", "WAIT"}
  /\ stream' = "UP"
  /\ UNCHANGED <<coverageVars, exchangeVars, pc, current, fetched, subs, bootstrapped, buffer,
                 journal, failures, asOf, gap, unseen>>

\* The stream breaks or ends.  The fills that have not left the channel are lost.
StreamStops(how, n) ==
  LET kept == {buffer[k] : k \in 1..n}
  IN /\ stream \in {"STARTING", "UP"} /\ pc # "RUN"
     /\ failures < MaxFailures /\ failures' = failures + 1
     /\ stream' = how
     /\ buffer' = SubSeq(buffer, 1, n)
     /\ gap' = [w \in Wallets |-> \/ gap[w]
                                  \/ /\ Among(w, Waiting \ kept)
                                     /\ Known(w) \/ Among(w, kept)]
     /\ UNCHANGED <<coverageVars, exchangeVars, pc, current, fetched, subs, bootstrapped,
                    journal, asOf, unseen>>

Crash ==
  /\ failures < MaxFailures /\ failures' = failures + 1
  /\ End
  /\ bootstrapped' = {}
  /\ unseen' = IF pc = "OBSERVE" THEN unseen \cup ({current} \cap journal) ELSE unseen
  /\ UNCHANGED <<coverageVars, exchangeVars, journal, asOf>>

\* The steps of the service's own task.
Serve ==
  \/ Begin \/ FetchState \/ Onboard \/ WalletsSame \/ WalletsChanged
  \/ Ingest \/ IngestRefused \/ Observe \/ Timeout \/ StreamLost
  \/ \E w \in Wallets : BootstrapRestored(w) \/ BootstrapBegin(w)

Next ==
  \/ Serve
  \/ FetchFails \/ StreamUp \/ Crash
  \/ \E how \in {"FAILED", "ENDED"} : \E n \in 0..Len(buffer) : StreamStops(how, n)
  \/ \E w \in Wallets :
       \/ AddWallet(w)
       \/ \E s \in Settable : CommandWallet(w, s)
       \/ \E c \in Coins, d \in Deltas : Trade(w, c, d)
       \/ \E v \in Wallets \ {w}, c \in Coins, d \in Swaps : Match(v, w, c, d)

Spec == Init /\ [][Next]_vars

\* The event loop runs its tasks, the exchange answers, and a stream that does
\* not fail is up in the end.
FairSpec == Spec /\ WF_vars(Serve) /\ SF_vars(StreamUp)
-----------------------------------------------------------------------------
\* What TypeOK leaves open about the service: only wallets that are onboarded are
\* journaled, and the buffer has fills of the subscribed ones only.
Structure ==
  /\ \A w \in bootstrapped : Joined(w)
  /\ \A i \in journal : Joined(fills[i].wallet)
  /\ \A i \in Waiting : fills[i].wallet \in subs
  /\ pc \in {"WAIT", "OBSERVE"} => subs \subseteq bootstrapped
  /\ pc \in {"FETCH", "ONBOARD"} => current \in subs /\ ~Joined(current)
  /\ pc = "ONBOARD" => fetched # Nil
  /\ pc = "OBSERVE" => current \in DOMAIN fills /\ fills[current].wallet \in subs
  /\ pc = "RUN" <=> stream = "OFF"
  /\ pc = "RUN" => subs = {}

\* The inductive invariant.
IInv == TypeOK /\ Structure
-----------------------------------------------------------------------------
(***************************************************************************)
(* Properties.                                                             *)
(***************************************************************************)

\* The fills of w in c that are in S.
Of(w, c, S) == {i \in S : fills[i].wallet = w /\ fills[i].coin = c}
Sum(S) == SumFunctionOnSet([i \in DOMAIN fills |-> fills[i].delta], S)

\* The projection differs from the exchange by exactly the fills that came after
\* the state that was loaded and are not journaled, and those that state already
\* contained and that were journaled on top of it: nothing else goes wrong in
\* bootstrap, ingestion, reconnects and crashes, and what was projected before
\* the onboarding is forgotten (coverage.py:19-27, collector_service.py:31-70).
ProjectionBalances ==
  \A w \in Wallets, c \in Coins :
    Joined(w) =>
      held[w][c] = size[w][c] + Sum(Of(w, c, {i \in DOMAIN fills \ journal : i > asOf[w]}))
                              - Sum(Of(w, c, {i \in journal : i <= asOf[w]}))

\* The fill that opened the position w holds in c is this one.
Opens_(w, c, i) ==
  /\ i \in Of(w, c, DOMAIN fills)
  /\ Opens(fills[i].start, After(i))
  /\ \A j \in Of(w, c, DOMAIN fills) : j > i => ~Opens(fills[j].start, After(j))

\* While the gate is open, every position of the wallet is known from its
\* opening fill, which is in the journal (under its own or its counterpart's
\* name) or on its way to it, unless fills have gone missing in between: no
\* position that the wallet had when it was onboarded is left
\* (coverage.py:28, coverage.py:43).
GateIsHonest ==
  \A w \in Wallets, c \in Coins :
    gate[w] = "OPEN" /\ ~gap[w] /\ held[w][c] # 0 =>
      \E i \in DOMAIN fills : /\ Opens_(w, c, i)
                              /\ i \in Waiting \/ Exists(i)

\* A coin stays LEGACY no longer than that: no fill that closed or reversed it
\* has been journaled, but for one that is about to be observed and those whose
\* observation a crash has cut off (coverage.py:37-39).
LegacyIsReal ==
  \A w \in Wallets, c \in Coins :
    coverage[w][c] = "LEGACY" =>
      \A i \in Of(w, c, journal \ unseen) :
        fills[i].start * After(i) <= 0 /\ fills[i].start # 0 => pc = "OBSERVE" /\ current = i

\* A wallet whose gate is open has its notification, whether it was onboarded
\* without positions or lost the last one later, and whatever happened in
\* between (coverage.py:28-29, coverage.py:45-46).
CompletionIsAnnounced == \A w \in Wallets : gate[w] = "OPEN" => w \in outbox

\* No active wallet is left out: again and again all of them are onboarded,
\* however often the service reconnects or restarts and whatever commands come
\* between (collector_service.py:56, collector_service.py:77-78).
ActiveAreOnboarded == []<>(\A w \in Wallets : status[w] \in Active => Joined(w))

\* A stream that fails is replaced by a new subscription, unless there is no
\* wallet left to follow: the fills that are still buffered do not keep the
\* service on the dead stream.  A stream that ends without an error is not
\* replaced (collector_service.py:61-64).
FailedStreamIsReplaced ==
  stream = "FAILED" ~> stream = "STARTING" \/ ActiveWallets = {}
-----------------------------------------------------------------------------
(***************************************************************************)
(* What the documentation says and the code does not do.                   *)
(***************************************************************************)

\* README.md:88: "ADD/PAUSE/RESUME/REMOVE is detected without restarting the
\* service."  So a wallet that was paused stays so until a command says
\* otherwise.  bootstrap, onboard and observe set its status without looking.
PauseIsKept ==
  [][\A w \in Wallets : status[w] \in Inactive /\ status'[w] \in Active =>
       \E s \in Settable : CommandWallet(w, s)]_vars

\* README.md:85-87: "It subscribes before bootstrapping, buffers live fills,
\* loads regular and TWAP history plus authoritative state, snapshots,
\* reconciles, and then drains the live buffer."  So once it is connected and
\* the buffer is drained, the projection is what the exchange has.
DrainedIsReconciled ==
  pc = "WAIT" /\ stream = "UP" /\ buffer = <<>> =>
    \A w \in subs : size[w] = held[w]
=============================================================================
