----------------------------- MODULE MarketFeed -----------------------------
(***************************************************************************)
(* The market feed of one replica, from the provider to the moment a quote *)
(* is handed to publication (modules/market_data: mock_provider.ts,        *)
(* quote_schema.ts, quote_stream.ts, freshness.ts, market_data_service.ts, *)
(* market_poller.ts; publication/pipeline.ts and pipeline_health.ts).      *)
(*                                                                         *)
(* The provider is the one the repository has, with every fault it can     *)
(* simulate.  A payload that came over two ways, pushed and pulled, is one *)
(* payload.  Prices, sequence numbers and instants are small integers; the *)
(* rest of a payload never decides anything and is left out.               *)
(*                                                                         *)
(* Node runs one callback at a time: an action is what happens between two *)
(* awaits.  The lease is LeaderLock's; here it moves at will.              *)
(***************************************************************************)
EXTENDS Integers, Sequences, FiniteSets, Functions

CONSTANTS
  Listed,        \* the symbols, in the order in which the provider lists them
  Prices,        \* mids that the market may quote
  StartMid,      \* mock_provider.ts: start_mid
  MaxMove,       \* quote_stream.ts: max_move_bps
  Drift,         \* mock_provider.ts: drift_bps
  Window,        \* quote_stream.ts: dedupe_window
  StaleAfter, ExpiredAfter,
  NoQuote,       \* no payload or quote yet
  MaxSeq,        \* bound: quotes that the provider builds per symbol
  MaxTime,       \* bound: the clock
  MaxFaults      \* bound: faults, unwanted moves of the lease, a shutdown

Symbols == Range(Listed)

\* `n' is the number, `late' tells a late copy from the payload it copies.
Quotes == [symbol : Symbols, n : Nat, late : Nat, at : Int, mid : Nat]

ASSUME FeedAssumption ==
  /\ Prices \subseteq Nat \ {0} /\ StartMid \in Prices
  /\ Listed \in Seq(Symbols)
  /\ \A i, j \in DOMAIN Listed : Listed[i] = Listed[j] => i = j
  /\ MaxMove \in Nat /\ Drift \in Nat /\ Window \in Nat \ {0}
  /\ StaleAfter \in Nat /\ ExpiredAfter \in Nat /\ StaleAfter < ExpiredAfter
  /\ NoQuote \notin Int \cup Quotes
  /\ MaxSeq \in Nat /\ MaxTime \in Nat /\ MaxFaults \in Nat

VARIABLES
  now,           \* the clock
  sequenced,     \* does the vendor number its quotes?
  timed,         \* pipeline.ts: the provider moves when it is polled
  status,        \* the provider's life cycle
  silent, halted,\* #silent, #stopped
  failing,       \* #pending_failures
  mid, seq,      \* per symbol: current price, number of the last payload
  last_payload,  \* per symbol: what a pull is answered
  serving,       \* MarketDataService: #started, and subscribed to the provider
  stream,        \* QuoteStream: per symbol the last quote and recent ids
  phase,         \* MarketPoller: new, running, stopping, stopped
  leader,        \* what the lock tells the poller
  ensured,       \* #service_started
  attached,      \* the poller's listener is registered
  queue,         \* #accepted
  poll,          \* the poll in progress
  handed,        \* per symbol: the quote handed to publish_for_quote last
  faults         \* faults so far

provider == <<status, silent, halted, failing, mid, seq, last_payload>>
service  == <<serving, stream>>
poller   == <<phase, leader, ensured, attached, queue, poll>>
world    == <<now, sequenced, timed>>
vars     == <<world, provider, service, poller, handed, faults>>

Freshness == {"fresh", "stale", "expired"}
Snapshots == [quote : Quotes, freshness : Freshness]
Statuses  == {"configured", "connecting", "healthy", "stale", "disconnected", "error"}
Unheard   == [last |-> NoQuote, recent |-> <<>>]
NoPoll    == [pc |-> "idle", answer |-> <<>>, batch |-> <<>>]

TypeOK ==
  /\ now \in Nat /\ sequenced \in BOOLEAN /\ timed \in BOOLEAN
  /\ status \in Statuses /\ silent \in BOOLEAN /\ halted \in BOOLEAN
  /\ failing \in Nat /\ faults \in Nat
  /\ mid \in [Symbols -> Nat] /\ seq \in [Symbols -> Nat]
  /\ last_payload \in [Symbols -> Quotes \cup {NoQuote}]
  /\ serving \in BOOLEAN
  /\ stream \in [Symbols -> [last : Quotes \cup {NoQuote}, recent : Seq(Int \X Nat)]]
  /\ \A s \in Symbols : Len(stream[s].recent) <= Window
  /\ phase \in {"new", "running", "stopping", "stopped"}
  /\ leader \in BOOLEAN /\ ensured \in BOOLEAN /\ attached \in BOOLEAN
  /\ queue \in Seq(Snapshots)
  /\ poll \in [pc : {"idle", "asking", "answered", "publishing"},
               answer : Seq(Quotes), batch : Seq(Snapshots)]
  /\ handed \in [Symbols -> Quotes \cup {NoQuote}]

Init ==
  /\ now = 0 /\ sequenced \in BOOLEAN /\ timed \in BOOLEAN
  /\ status = "configured" /\ silent = FALSE /\ halted = FALSE /\ failing = 0
  /\ mid = [s \in Symbols |-> StartMid]
  /\ seq = [s \in Symbols |-> 0]
  /\ last_payload = [s \in Symbols |-> NoQuote]
  /\ serving = FALSE
  /\ stream = [s \in Symbols |-> Unheard]
  /\ phase = "new" /\ leader = FALSE /\ ensured = FALSE /\ attached = FALSE
  /\ queue = <<>> /\ poll = NoPoll
  /\ handed = [s \in Symbols |-> NoQuote]
  /\ faults = 0

-----------------------------------------------------------------------------
(* The gate: what a payload must pass (parse_quote, QuoteStream.accept).   *)

\* A vendor without numbers is ordered by its clock, and parse_quote then
\* makes the quote_id from the symbol and the instant.
Place(q)   == IF sequenced THEN q.n ELSE q.at
QuoteId(q) == IF sequenced THEN <<q.n, q.late>> ELSE <<q.at, 0>>

CompareOrdering(q, last) ==
  CASE Place(q) > Place(last) -> "newer"
    [] Place(q) < Place(last) -> "older"
    [] OTHER -> "duplicate"

Distance(a, b) == IF a > b THEN a - b ELSE b - a
MoveInBps(previous, next) == (Distance(previous, next) * 10000) \div previous

\* parse_quote: of what it refuses, a price that is not positive stands for
\* all.
Valid(q) == q.mid > 0

\* An operator named X_... is a faulty variant of X, for the bugs that the
\* properties are known to exclude.
Passes_AnyOrder(q) ==
  LET known == stream[q.symbol] IN
  /\ Valid(q)
  /\ \/ known.last = NoQuote
     \/ /\ \A i \in DOMAIN known.recent : known.recent[i] # QuoteId(q)
        /\ MoveInBps(known.last.mid, q.mid) <= MaxMove

Passes_OnlyIds(q) ==
  LET known == stream[q.symbol] IN
  /\ Valid(q)
  /\ \/ known.last = NoQuote
     \/ /\ \A i \in DOMAIN known.recent : known.recent[i] # QuoteId(q)
        /\ CompareOrdering(q, known.last) # "older"
        /\ MoveInBps(known.last.mid, q.mid) <= MaxMove

\* The first quote of a symbol has nothing to be compared with.
Passes(q) ==
  LET known == stream[q.symbol] IN
  /\ Valid(q)
  /\ \/ known.last = NoQuote
     \/ /\ \A i \in DOMAIN known.recent : known.recent[i] # QuoteId(q)
        /\ CompareOrdering(q, known.last) = "newer"
        /\ MoveInBps(known.last.mid, q.mid) <= MaxMove

Remember(known, q) ==
  LET ids == Append(known.recent, QuoteId(q)) IN
  [last |-> q, recent |-> IF Len(ids) > Window THEN Tail(ids) ELSE ids]

\* Age counts from the vendor's instant; a clock ahead of ours is fresh.
ClassifyAge(age) ==
  CASE age <= StaleAfter -> "fresh"
    [] age > StaleAfter /\ age <= ExpiredAfter -> "stale"
    [] OTHER -> "expired"
Snapshot(q) == [quote |-> q, freshness |-> ClassifyAge(now - q.at)]

\* What a sequence has at the positions P, in its order.
Part(row, P) ==
  [k \in 1..Cardinality(P) |->
     row[CHOOSE i \in P : Cardinality({j \in P : j < i}) = k - 1]]

Accepted(payloads) ==
  Part(payloads, {i \in DOMAIN payloads : Passes(payloads[i])})

\* #ingest, for payloads of different symbols: the freshness that goes with a
\* quote into the poller's queue is the one of this moment.
StreamAfter(payloads) ==
  LET news == Accepted(payloads) IN
  [s \in Symbols |->
     IF \E i \in DOMAIN news : news[i].symbol = s
     THEN Remember(stream[s], CHOOSE q \in Range(news) : q.symbol = s)
     ELSE stream[s]]

QueueAfter(payloads) ==
  LET news == Accepted(payloads) IN
  IF attached THEN queue \o [i \in DOMAIN news |-> Snapshot(news[i])] ELSE queue

-----------------------------------------------------------------------------
(* The provider.                                                           *)

AllowedTransitions ==
  [configured   |-> {"connecting", "error"},
   connecting   |-> {"healthy", "disconnected", "error"},
   healthy      |-> {"stale", "disconnected", "error"},
   stale        |-> {"healthy", "disconnected", "error"},
   disconnected |-> {"connecting", "error"},
   error        |-> {"connecting", "disconnected"}]

\* #transition: an illegal one is noted and not made.
Moved(from, to) == IF to \in AllowedTransitions[from] THEN to ELSE from

\* start() and reconnect() alike; the attempt fails if it was told to.
Connect ==
  /\ status' = Moved(Moved(status, "connecting"),
                     IF failing > 0 THEN "error" ELSE "healthy")
  /\ failing' = IF failing > 0 THEN failing - 1 ELSE 0

ProviderStart ==
  IF status \in {"healthy", "stale"} THEN UNCHANGED <<status, failing, halted>>
  ELSE Connect /\ halted' = FALSE

ProviderStop ==
  IF halted THEN UNCHANGED <<status, silent, halted>>
  ELSE status' = Moved(status, "disconnected") /\ silent' = FALSE /\ halted' = TRUE

CanEmit == ~halted /\ ~silent /\ status \in {"healthy", "stale"}

Payload(s, n, at, m) ==
  [symbol |-> s, n |-> n, late |-> 0, at |-> at, mid |-> m]

\* #publish, of payloads of different symbols: the answer to a later pull,
\* and the service's listener if there is one.
Publish(payloads) ==
  /\ last_payload' = [s \in Symbols |->
       IF \E i \in DOMAIN payloads : payloads[i].symbol = s
       THEN CHOOSE q \in Range(payloads) : q.symbol = s
       ELSE last_payload[s]]
  /\ stream' = IF serving THEN StreamAfter(payloads) ELSE stream
  /\ queue' = IF serving THEN QueueAfter(payloads) ELSE queue

\* tick(): one payload per symbol, each price within the drift.
Walk ==
  /\ CanEmit
  /\ \A s \in Symbols : seq[s] < MaxSeq
  /\ seq' = [s \in Symbols |-> seq[s] + 1]
  /\ \E prices \in [Symbols -> Prices] :
       /\ \A s \in Symbols : MoveInBps(mid[s], prices[s]) <= Drift
       /\ mid' = prices
       /\ Publish([i \in DOMAIN Listed |->
                     LET s == Listed[i] IN Payload(s, seq[s] + 1, now, prices[s])])

\* A payload that the vendor pushes on its own.
Push(payload) ==
  /\ ~timed /\ CanEmit
  /\ Publish(<<payload>>)
  /\ UNCHANGED <<world, status, silent, halted, failing, serving, phase, leader,
                 ensured, attached, poll, handed>>

Tick ==
  /\ ~timed /\ Walk
  /\ UNCHANGED <<world, status, silent, halted, failing, serving, phase, leader,
                 ensured, attached, poll, handed, faults>>

\* The number that the next payload of s takes.
Numbered(s) == seq[s] < MaxSeq /\ seq' = [seq EXCEPT ![s] = @ + 1]

\* The price jumps.
TickSymbol(s) ==
  \E m \in Prices :
    /\ Numbered(s)
    /\ mid' = [mid EXCEPT ![s] = m]
    /\ Push(Payload(s, seq[s] + 1, now, m))
    /\ UNCHANGED faults

Fault == faults < MaxFaults /\ faults' = faults + 1

EmitDuplicate(s) ==
  /\ Fault /\ last_payload[s] # NoQuote
  /\ Push(last_payload[s])
  /\ UNCHANGED <<mid, seq>>

\* The copy takes the place of the original for a later pull.
EmitOutOfOrder(s) ==
  /\ Fault /\ last_payload[s] # NoQuote
  /\ LET q == last_payload[s] IN
     Push([q EXCEPT !.n = IF q.n = 0 THEN 0 ELSE q.n - 1,
                    !.late = @ + 1, !.at = @ - 1])
  /\ UNCHANGED <<mid, seq>>

\* A price that is no price.
EmitMalformed(s) ==
  /\ Fault
  /\ Push(Payload(s, seq[s], now, 0))
  /\ UNCHANGED <<mid, seq>>

EmitStale(s) ==
  /\ Fault /\ Numbered(s)
  /\ \E age \in {StaleAfter + 1, ExpiredAfter + 1} :
       Push(Payload(s, seq[s] + 1, now - age, mid[s]))
  /\ UNCHANGED mid

EmitImplausible(s) ==
  /\ Fault /\ Numbered(s)
  /\ Push(Payload(s, seq[s] + 1, now, mid[s] * 10))
  /\ UNCHANGED mid

\* The connection, apart from what it carries.
Connection ==
  /\ UNCHANGED <<world, mid, seq, last_payload, service, poller, handed>>

Disconnect ==
  /\ Fault /\ Connection
  /\ status' = IF status = "disconnected" THEN status ELSE Moved(status, "disconnected")
  /\ UNCHANGED <<silent, halted, failing>>

\* reconnect() also revives a provider that was stopped, unless it fails.
Reconnect ==
  /\ Connect
  /\ halted' = (halted /\ failing > 0)
  /\ Connection
  /\ UNCHANGED <<silent, faults>>

FailNext ==
  /\ Fault /\ Connection
  /\ failing' = 1
  /\ UNCHANGED <<status, silent, halted>>

GoSilent ==
  /\ Fault /\ Connection
  /\ silent' = TRUE
  /\ UNCHANGED <<status, halted, failing>>

Resume ==
  /\ silent /\ Connection
  /\ silent' = FALSE
  /\ UNCHANGED <<status, halted, failing, faults>>

MarkStale ==
  /\ Fault /\ status = "healthy" /\ Connection
  /\ status' = Moved(status, "stale")
  /\ UNCHANGED <<silent, halted, failing>>

MarkHealthy ==
  /\ status = "stale" /\ Connection
  /\ status' = Moved(status, "healthy")
  /\ UNCHANGED <<silent, halted, failing, faults>>

-----------------------------------------------------------------------------
(* The service, and the poller that drives it.                             *)

\* start(): the flag is set before the provider answers.
ServiceStart ==
  IF serving THEN UNCHANGED <<serving, status, failing, halted>>
  ELSE serving' = TRUE /\ ProviderStart

\* stop(): the provider first, then every listener.
ServiceStop ==
  IF serving THEN serving' = FALSE /\ attached' = FALSE /\ ProviderStop
  ELSE UNCHANGED <<serving, attached, status, silent, halted>>

\* #ensure_service_started: whether the provider came up is not looked at.
EnsureServiceStarted ==
  /\ ensured' = TRUE /\ attached' = (attached \/ ~ensured)
  /\ IF ensured THEN UNCHANGED <<serving, status, failing, halted>>
     ELSE ServiceStart

StartPoller ==
  /\ phase = "new" /\ phase' = "running"
  /\ UNCHANGED <<world, provider, service, leader, ensured, attached, queue,
                 poll, handed, faults>>

\* The lease may still come while the poller stops (LeaderLock).
LeaseGained ==
  /\ phase # "new" /\ ~leader
  /\ IF phase = "running" THEN UNCHANGED faults ELSE Fault
  /\ leader' = TRUE
  /\ EnsureServiceStarted
  /\ UNCHANGED <<world, silent, mid, seq, last_payload, stream, phase, queue,
                 poll, handed>>

LeaseLost ==
  /\ Fault /\ leader
  /\ leader' = FALSE
  /\ UNCHANGED <<world, provider, service, phase, ensured, attached, queue,
                 poll, handed>>

\* #tick: the lease is looked at here only.
BeginPoll ==
  /\ phase = "running" /\ leader /\ poll.pc = "idle"
  /\ EnsureServiceStarted
  /\ poll' = [poll EXCEPT !.pc = "asking"]
  /\ UNCHANGED <<world, silent, mid, seq, last_payload, stream, phase, leader,
                 queue, handed, faults>>

\* get_latest_quotes.
Latest(payloads) ==
  Part([i \in DOMAIN Listed |-> payloads[Listed[i]]],
       {i \in DOMAIN Listed : payloads[Listed[i]] # NoQuote})

\* provider_latest: polling_mock moves the provider first.  A provider that
\* is down throws, and the poll ends with the queue as it was.
Ask ==
  /\ poll.pc = "asking"
  /\ \/ timed /\ Walk
     \/ /\ timed => ~CanEmit \/ \E s \in Symbols : seq[s] = MaxSeq
        /\ UNCHANGED <<mid, seq, last_payload, stream, queue>>
  /\ poll' = IF status \in {"disconnected", "error"} THEN NoPoll
             ELSE [poll EXCEPT !.pc = "answered", !.answer = Latest(last_payload')]
  /\ UNCHANGED <<world, status, silent, halted, failing, serving, phase, leader,
                 ensured, attached, handed, faults>>

PollIngest_KeepsQueue ==
  /\ poll.pc = "answered"
  /\ stream' = StreamAfter(poll.answer)
  /\ queue' = QueueAfter(poll.answer)
  /\ poll' = [NoPoll EXCEPT !.pc = "publishing", !.batch = queue']
  /\ UNCHANGED <<world, provider, serving, phase, leader, ensured, attached,
                 handed, faults>>

\* The answer is ingested, pushed payloads or not, stopped service or not, and
\* all that is queued becomes this poll's batch.
PollIngest ==
  /\ poll.pc = "answered"
  /\ stream' = StreamAfter(poll.answer)
  /\ poll' = [NoPoll EXCEPT !.pc = "publishing", !.batch = QueueAfter(poll.answer)]
  /\ queue' = <<>>
  /\ UNCHANGED <<world, provider, serving, phase, leader, ensured, attached,
                 handed, faults>>

\* One publish_for_quote: nothing is published for a snapshot that is marked
\* expired.
PublishNext ==
  LET snapshot == Head(poll.batch) IN
  /\ poll.pc = "publishing" /\ poll.batch # <<>>
  /\ handed' = IF snapshot.freshness = "expired" THEN handed
               ELSE [handed EXCEPT ![snapshot.quote.symbol] = snapshot.quote]
  /\ poll' = [poll EXCEPT !.batch = Tail(@)]
  /\ UNCHANGED <<world, provider, service, phase, leader, ensured, attached,
                 queue, faults>>

\* It throws: the rest of the batch is gone.
PublishFails ==
  /\ Fault /\ poll.pc = "publishing" /\ poll.batch # <<>>
  /\ poll' = NoPoll
  /\ UNCHANGED <<world, provider, service, phase, leader, ensured, attached,
                 queue, handed>>

EndPoll ==
  /\ poll.pc = "publishing" /\ poll.batch = <<>>
  /\ poll' = NoPoll
  /\ UNCHANGED <<world, provider, service, phase, leader, ensured, attached,
                 queue, handed, faults>>

\* stop(), up to the release of the lease; a poll in progress goes on.
StopPoller ==
  /\ Fault /\ phase = "running"
  /\ phase' = "stopping" /\ attached' = FALSE
  /\ UNCHANGED <<world, provider, service, leader, ensured, queue, poll, handed>>

\* The rest of it, with MarketDataService.stop.
StopService ==
  /\ phase = "stopping"
  /\ phase' = "stopped" /\ leader' = FALSE /\ ensured' = FALSE
  /\ IF ensured THEN ServiceStop
     ELSE UNCHANGED <<serving, attached, status, silent, halted>>
  /\ UNCHANGED <<world, failing, mid, seq, last_payload, stream, queue, poll,
                 handed, faults>>

TimePasses ==
  /\ now < MaxTime
  /\ now' = now + 1
  /\ UNCHANGED <<sequenced, timed, provider, service, poller, handed, faults>>

-----------------------------------------------------------------------------
(* What the replica says of itself.                                        *)

Heard  == {s \in Symbols : stream[s].last # NoQuote}
Age(s) == now - stream[s].last.at

\* resolve_base_rate, and the resolver of a rule change.
Usable(s) == s \in Heard /\ ClassifyAge(Age(s)) # "expired"

\* MarketDataService.health: a connection that is fine with nothing but aged
\* quotes is stale.
ProviderHealth ==
  IF /\ status = "healthy" /\ Heard # {}
     /\ \A s \in Heard : ClassifyAge(Age(s)) # "fresh"
  THEN "stale" ELSE status

PipelineHealth_AnyQuote ==
  IF ProviderHealth \in {"error", "disconnected"} \/ Heard = {} THEN "unhealthy"
  ELSE IF \E s \in Heard : ClassifyAge(Age(s)) = "fresh" THEN "healthy"
  ELSE "degraded"

\* pipeline_health, the best symbol deciding.
PipelineHealth ==
  IF \/ ProviderHealth \in {"error", "disconnected"}
     \/ \A s \in Symbols : ~Usable(s)
  THEN "unhealthy"
  ELSE IF \E s \in Heard : ClassifyAge(Age(s)) = "fresh" THEN "healthy"
  ELSE "degraded"

-----------------------------------------------------------------------------
Emission ==
  \/ Tick
  \/ \E s \in Symbols :
       \/ TickSymbol(s) \/ EmitDuplicate(s) \/ EmitOutOfOrder(s)
       \/ EmitMalformed(s) \/ EmitStale(s) \/ EmitImplausible(s)

Link == \/ Disconnect \/ Reconnect \/ FailNext \/ GoSilent \/ Resume
        \/ MarkStale \/ MarkHealthy

Polling == BeginPoll \/ Ask \/ PollIngest \/ PublishNext \/ EndPoll

Next ==
  \/ TimePasses \/ Emission \/ Link
  \/ StartPoller \/ LeaseGained \/ LeaseLost
  \/ Polling \/ PublishFails
  \/ StopPoller \/ StopService

Spec == Init /\ [][Next]_vars

\* Timers fire and promises settle.
FairSpec == Spec /\ WF_vars(Polling) /\ WF_vars(StopService)

-----------------------------------------------------------------------------
(* Properties.                                                             *)

PlaceOf(q) == IF q = NoQuote THEN NoQuote ELSE Place(q)

Order == INSTANCE FeedOrder
  WITH Before <- NoQuote,
       accepted <- [s \in Symbols |-> PlaceOf(stream[s].last)],
       published <- [s \in Symbols |-> PlaceOf(handed[s])]

\* What reaches publication moves forward, per symbol: pushes, pulls, replays,
\* late copies, failures and changes of the lease never bring an older quote
\* back (quote_stream.ts:22-24, "publishing it would move the board backwards
\* in time").
ImplementsOrder == Order!Spec

\* Whichever of the two ways a quote came, it is waiting once: what waits for
\* publication is in the vendor's order, after what was handed over and not
\* beyond what was accepted (market_poller.ts:66-76).
Backlog == poll.batch \o queue
BacklogInOrder ==
  /\ \A i, j \in DOMAIN Backlog :
       i < j /\ Backlog[i].quote.symbol = Backlog[j].quote.symbol
       => Place(Backlog[i].quote) < Place(Backlog[j].quote)
  /\ \A i \in DOMAIN Backlog :
       LET s == Backlog[i].quote.symbol IN
       /\ stream[s].last # NoQuote
       /\ Place(Backlog[i].quote) <= Place(stream[s].last)
       /\ handed[s] # NoQuote => Place(handed[s]) < Place(Backlog[i].quote)
  /\ \A s \in Symbols : handed[s] # NoQuote =>
       stream[s].last # NoQuote /\ Place(handed[s]) <= Place(stream[s].last)

OnePerSymbol(quotes) ==
  \A i, j \in DOMAIN quotes : quotes[i].symbol = quotes[j].symbol => i = j

\* Each symbol's quotes are kept apart, an answer has one of each at most, and
\* a poll has a batch only while it publishes.
Apart ==
  /\ \A s \in Symbols : /\ last_payload[s] # NoQuote => last_payload[s].symbol = s
                        /\ handed[s] # NoQuote => handed[s].symbol = s
  /\ OnePerSymbol(poll.answer)
  /\ poll.pc # "publishing" => poll.batch = <<>>

BacklogInv == TypeOK /\ Apart /\ BacklogInOrder

\* A provider that never connected has not been heard; none is seen between an
\* attempt to connect and its outcome.
ConnectedFirst ==
  /\ status # "connecting"
  /\ status = "configured" =>
       /\ Heard = {} /\ poll.answer = <<>>
       /\ \A s \in Symbols : last_payload[s] = NoQuote

\* A replica that reports itself ready can price something: whatever the
\* provider went through, the report and the resolver agree
\* (pipeline_health.ts:26-30).
ReadyMeansPriceable ==
  PipelineHealth # "unhealthy" =>
    /\ status \in {"healthy", "stale"}
    /\ \E s \in Symbols : Usable(s)

\* What a leader has accepted does not wait for ever, unless the provider is
\* down: then the polls fail before they look at the queue.
BacklogDrains ==
  queue # <<>> ~> \/ queue = <<>> \/ ~leader \/ phase # "running"
                  \/ status \in {"disconnected", "error"}

\* docs/production-readiness.md:542 "Expired quote | Not published at all."
ExpiredNotPublished ==
  [][\A s \in Symbols : handed'[s] # handed[s]
       => ClassifyAge(now - handed'[s].at) # "expired"]_vars
=============================================================================
