# Gold rate platform: verification

TLA+ specifications of the API of a multi-tenant gold and silver rate platform
(`src/apps/api`, with the pages of `src/apps/web` that consume its stream and edit
its settings), TLC configurations that check them on small instances, and TLAPS proofs of the
properties that carry the design. Paths below are relative to
`src/apps/api/src/` unless they start with `docs/` or `apps/`.

What the platform does: replicas of one Node.js API share a PostgreSQL database
and a Redis. One replica, elected by a lease, polls a market-data provider.
Each accepted quote is priced for every shop with the shop's own rules, and the
resulting rates are committed together with an outbox row. A publisher sends
outbox rows to the Redis channel of the shop; every replica fans the channel
out to open browser pages by server-sent events. Shopkeepers change the rules
through an HTTP API with optimistic concurrency, idempotency keys and an audit
trail.

    provider ──push, poll──> quote stream ──> publish_for_quote ──┐ one transaction:
       (leader only, LeaderLock)  (MarketFeed ⇒ FeedOrder)        │ rate + event + outbox row
    PATCH /pricing-rules ──> update_rule ──> recompute ───────────┘ (RatePublication ⇒ RateLog)
       ^     │                               (what a rate is:     │ the committed log
       │     └─ versions, keys, audit         Pricing)            v
       │        (PricingRules ⇒ RuleHistory)          drain() ──> Redis channel ──> page
    dashboards: load, edit, save, reload              (OutboxDelivery, assumes RateLog)
       (Desk)                                                        │
                                                   hub of a replica ─┘ (RateHub)

## Inventory

Each entry: state; operations; who it talks to; what is hard; what makes it right.

| Component | State | Operations | Hard | Correct when |
|---|---|---|---|---|
| **Leader election** `platform/leader_lock.ts` | a Redis key with a TTL, a counter; `#running`, `#is_leader`, `#fencing_token`, a timer per replica | `start`, `#tick` (SET NX PX, INCR, renew script), `stop` (release script) | a leader that stalls past its lease; answers that are lost; `stop()` in the middle of a tick; death | one replica at a time believes it leads; nobody disturbs a successor; somebody leads in the end |
| **Market poller** `modules/market_data/market_poller.ts` | loop, `#accepted`, `#service_started`, counters | `poll_once`, `#tick`, `start`, `stop`, the lease's callbacks | quotes are pushed while a poll waits; the lease is looked at before the poll only; a publish that failed is not retried | accepted quotes are published in order, each once, and none waits for ever |
| **Quote stream, market data service, schema, freshness** `quote_stream.ts`, `market_data_service.ts`, `quote_schema.ts`, `freshness.ts` | last quote and a window of ids per symbol; health | `accept`, `ingest`, `#remember`, `evaluate_freshness` | out-of-order, duplicate and implausible quotes; mixed sequence numbers | a stream never goes back; old quotes are not published |
| **Rate publication** `modules/publication/publication_service.ts`, `modules/tenancy/tenant_context.ts` | `published_rates`, `rate_update_events`, `rate_publication_outbox` | `publish_for_quote`, `publish_for_tenant`, `publish_one`, `recompute_rule_in_transaction` | transactions of several replicas and clients on the same rows under READ COMMITTED; ids drawn before commit; deadlock; death | a rate, its event and its outbox row commit together; ids of a product follow commits; the board is the newest entry |
| **Outbox publisher** `modules/publication/outbox_publisher.ts` and its SQL functions | `delivered_at` of the rows; a loop per replica | `drain`, `#loop`, `stop` | a crash between PUBLISH and the mark; passes of several replicas and of a shutdown overlapping | at least once; no rate overtakes an older one; everything is delivered |
| **Realtime channel and fan-out** `modules/realtime/rate_channel.ts`, `rate_hub.ts`, `http/routes/public.ts` | channels with listeners and a pending subscription, a counter | `attach`, `detach`, `close`, the stream route | viewers come and go while a SUBSCRIBE is pending or fails | a viewer is a listener of its shop's live channel; the counter is right; nobody leaks |
| **Live rates in the browser** `apps/web/src/lib/useRateStream.ts`, `LiveRates.tsx` | the shown rates, the connection | load, connect, receive, drop, reconnect | events missed while away, repeated and late events | a page that follows the stream ends up right |
| **Pricing rules** `modules/pricing/pricing_rule_service.ts`, `modules/idempotency`, `modules/audit`, `http/routes/pricing_rules.ts` | `tenant_pricing_rules`, `idempotency_keys`, `audit_logs` | create, update, deactivate, replay | retries that overlap; races for a version, for the place of the active rule, for a key; a read made before the lock | a change happens once, at one instant, audited with the true old value |
| **Idempotency clean-up** `modules/maintenance/idempotency_cleanup.ts` | `idempotency_keys` by age | `purge_expired_keys` in batches | two runs at once; the exit test | never an active key; all expired ones |
| **Pricing arithmetic** `modules/pricing/*.ts`, `platform/money.ts` | none | purity, adjustment, rounding, breakdown | rounding of negatives, ties, breakdown that adds up | equals the exact rational, rounded once |
| **Tenant products, settings, links** `modules/tenant` | `tenant_products`, settings | enable, disable, change units, update settings | `update_product` decides on a read made without a lock | a unit change is recomputed |
| **Onboarding** `modules/onboarding` | `tenants`, `customer_links`, memberships | claim a slug, upsert the user | two claims of one slug or by one user | one shop per owner, one owner per slug |
| **Authentication** `modules/auth` | the key cache: keys, times, one fetch in flight | `key_resolver`, refresh with a cooldown | many callers at one miss, rotation, outage | one fetch at a time, stale keys served during an outage |
| **Tenancy and RLS** `tenant_context.ts`, migrations | the tenant a transaction is bound to | `with_*_context` | a query outside its tenant | rows of one tenant only |
| **Health and life cycle** `pipeline.ts`, `pipeline_health.ts`, `index.ts`, `platform/health.ts` | readiness verdicts; order of start and stop | `start`, `stop`, probes | stop while work is under way | readiness tells the truth |
| **Market provider** `modules/market_data/mock_provider.ts` | a status, a price and a number per symbol, the last payload | `start`, `stop`, `tick`, `get_latest_quotes`, ten simulated faults | payloads twice, late, without price, out of bounds; silence; a lost connection | whatever it does, the feed behind it stays in order |
| **Dashboard** `apps/web/src/app/dashboard/page.tsx`, its forms, `lib/api.ts`, `lib/auth.ts` | phase, loaded copies, tab; per form the boxes, `saving`, the error | load, switch tabs, edit, save, reload, sign in and out | three copies of the same data, of which each may be old; requests given up that the server executes; forms that are gone when the answer comes | nobody overwrites what he has not seen; a save changes what was changed |
| HTTP app, configuration, logging, errors | none | | | |

`PROJECT.json` lists the same parts with their files and status, and 40 hazards,
each at the line where it bites with the properties that would notice.

## The modules

| Module | Models | Abstract or detailed |
|---|---|---|
| `LeaderLock` | the election | detailed |
| `FeedOrder` | what the feed promises: per symbol, quotes only go forward | abstract; refined by `MarketFeed` |
| `MarketFeed` | provider, quote stream, service, poller queue, readiness of one replica | detailed |
| `RateLog` | what publication promises: a rate is replaced by appending to a log | abstract; refined by `RatePublication`, assumed by `OutboxDelivery` |
| `RatePublication` | poller, publication, rule changes with recompute, product switches | detailed |
| `Pricing` | money, rounding, the engine, the row on the board | detailed, against a reference definition of rounding |
| `OutboxDelivery` | drain, Redis channel, browser page | detailed; `INSTANCE RateLog` for its writers |
| `RateHub` | fan-out and stream route of one replica | detailed |
| `RuleHistory` | what the rules API promises: numbered, audited changes, once per key | abstract; refined by `PricingRules` |
| `PricingRules` | create, update, deactivate, replay, audit | detailed |
| `Desk` | dashboards on several devices and the routes they save through | detailed |
| `MC...` | symmetry sets and constant definitions for TLC | |
| `...Proofs` | theorems and their proofs | |

Operators called `X_Something` next to an operator `X` are faulty variants: the
bug that a property is known to exclude. TLC finds the property violated when
`X` is replaced by the variant, so each property can fail.

### LeaderLock

Time is relative: the lease carries the time it has left, each timer the time
until it is due. A call to Redis is three steps (sent, executed, settled), so
another replica, the clock, `stop()` or a crash can fall between any two.
`Execute` is Redis' side of SET, INCR and the renew script; `FailCall` is a call
that never arrived, `LoseAnswer` one that was executed and whose answer was
lost. `Acquired`, `NotAcquired`, `Elected`, `Renewed`, `LostLease` are the
continuations of `#tick`; `Reschedule` is its `finally`. `Stop`,
`ExecuteRelease`, `Stopped` are `stop()`, which does not wait for a tick.
`late` is a history variable: it becomes true when a due step has waited for
more than `MaxDelay`. Nothing bounds the waiting, so the unbounded stall is a
behaviour of the model; the lease promise is stated for the time before one.

### MarketFeed and FeedOrder

One replica. The provider is the simulator of the repository with all its faults:
`Walk` is its `tick`, called by itself or, when `timed`, by the poll that asks it
(`polling_mock` of `pipeline.ts`); `Emit...` are its faults, `Connect`,
`ProviderStart` and `ProviderStop` its life cycle with `AllowedTransitions`. A
payload that comes pushed and pulled is one payload. `Passes` is the gate of
`parse_quote` and `QuoteStream.accept`; `Place` orders by the vendor's number or,
without one, by its clock, and `QuoteId` follows suit. A poll is `BeginPoll`, `Ask`,
`PollIngest`, then one `PublishNext` per quote of the batch, with pushes, lost leases
and `stop()` (two halves, around the release of the lease) in between.
`PipelineHealth` and `Usable` are the two readings of the same state that readiness
and a rule change make. `FeedOrder` has, per symbol, the place of what was accepted
and of what was handed to publication; both only grow, the second never beyond the
first. It is what `RatePublication` assumes of its `Ingest`.

### RatePublication and RateLog

One shop, one metal: a transaction is bound to one tenant. A quote is its place
in the market's history, a rule its version, a rate the pair (quote, version).
`tx[w]` is what a replica or an HTTP request is in the middle of, one value of
`pc` per statement of `publish_for_tenant`, `publish_one` and `update_rule`. A
statement reads what is committed when it starts; an upsert or a conditional
update waits for, then holds, its row; `Insert` draws the outbox id, before
commit. `Commit` makes everything visible, `Abort` (a failing statement,
timeout), `DeadlockVictim` and `Restart` (process death) nothing. `Ingest` is a
poll with an answer that may be up to `Lag` quotes old and the stream's refusal
of what is not newer; `QuoteExpires` is freshness. `RateLog` has one step: a
product gets a new rate and the log a new entry above all entries of that
product, recording the rate replaced.

### Pricing

One product of one shop. The operators are the functions of `money.ts`,
`adjustment.ts`, `purity.ts` and `pricing_engine.ts`, down to the truncating division
of bigints and the texts that amounts travel as; the scales (`RATE_SCALE`,
`PAISE_PER_RUPEE`, `BPS_SCALE`, grams per unit) are constants, so that TLC meets each
tie and remainder with small numbers and the proofs hold for the real ones. The
actions are what changes the row on the board: a quote, a rule with a margin or a
percentage (`update_rule`), a unit. The last two recompute with the quote that the
resolver gives them, `Recompute`, which may find none that is usable: then the row
stays as it is and the history variable `behind` says so. `Outcome` is `publish_one` with the database's CHECK: published,
rejected (the old row stands) or failed (the transaction is undone). `IsRounding` is
the reference: which multiple of a step a mode means, said without division.

### OutboxDelivery

The writers are `RateLog!Publish` itself, which `PublicationImplementsLog` proves of
`RatePublication`: ids of different products may commit in any order, so a row may
appear below one that has been sent. A drainer is an activity that runs
`drain()`: `Select` reads the oldest undelivered rows, `Send` one PUBLISH,
`Mark` the UPDATE with what was sent, `SendFails`, `Fail` the two ways a pass
breaks or its process dies. Pages load, connect, receive, drop, reconnect and reload.
A page renders the products that had a row when it was loaded and no others
(`LiveRates.tsx:43-60`, `Followed`): an event for another product changes nothing on
it until it is loaded again.

### RateHub

JavaScript runs one callback at a time, so an action is what runs between two
awaits that wait for something. `Request` to `AttachFirst`, `AttachWaiting` or
`AttachOpen` is the stream route with `hub.attach`; `SubscribeAnswers` wakes
everybody who awaits the same promise; `Detach`, `SubscribeFails`, `Close` are
the hub's own. A channel object is known by its number, because a failed or torn
down channel of a shop may have a successor while somebody still holds it.

### PricingRules and RuleHistory

One product of one shop. An attempt (`tx[a]`) is one HTTP request, `at` the
statement it comes to next. `FindStored` is the replay lookup, `CheckNoActive`
and `LoadBefore` the reads that run without a lock, `Insert` and `UpdateWhere`
the writes, `Store` the insert of the response, `Commit` everything at once. An
attempt that has written something and not ended holds the row, its place in
the unique index of active rules, and its key: `RowBusy`, `IndexBusy` and
`KeyBusy` say who has to wait. `Ask` lets any client send anything with any key
at any time, so a retry may overlap the request it repeats. The If-Match of `Patch` and
`Delete` is any version, one that does not exist yet included; `guess` is a history
variable that marks such an attempt, and the audit entry it may leave, whose old value
was read before the version it quotes came to be. `RuleHistory` has
one step: a rule takes the next version, with an audit entry from what it was to
what it is, or, for a guessed version only, from what it was some versions ago.

### Desk

One shop, one product, any number of devices. A page (`desk[d]`) has a phase, a copy
of what it loaded, a tab, and the form that the tab has mounted, with a copy of its
own: React's `useState` takes its initial value at mount and never again, so `Loaded`
leaves a mounted form alone. A request (`call[c]`) is sent, executed by the server
and answered in three steps; `GiveUp` is the timeout of `api_request` at any of them,
after which the server may still execute it. `UpdateRule` is decided by If-Match,
`UpdateSettings` and `UpdateProduct` merge the fields that they carry, and
`UpdateProduct` answers from a second transaction. A transaction is one step here;
what happens inside one is in `PricingRules` and `RatePublication`. Typing is free: any
field of the form on the screen, at any time; only when `MaxSaves` requests have been
sent does nobody type any more. `seen` and `meant` are history
variables: what the device had of the rule, and what its user changed in the boxes.
`store.updated_by` is the column of that name: who saved the rule last.

## What the runs check

Twelve runs; `tlc -workers 2 -config <cfg> <module>` from this directory.

| Run | Bounds | Shows |
|---|---|---|
| `lock` | 2 replicas, 1 failed call, 3 fencing tokens, TTL:retry:renew = 8:4:1 | `LeaderHoldsLease`, its strengthening `LeaseInv`, `FencingTokensDiffer`, `SuccessorUndisturbed`; `SomeoneLeads` under fairness |
| `feed` | 1 symbol, 3 prices (a drift, a jump), 2 payloads, 2 ticks of the clock, 2 faults, window of 1 id | `ImplementsOrder`, `BacklogInv`, `ReadyMeansPriceable`; `BacklogDrains` under fairness |
| `pub_overlap` | 2 pollers, 2 products, 1 quote, 1 abort, 1 crash | `LogInv` (rows are written by who locks them, ids beyond those committed); `WorkEnds` under fairness, deadlocks included |
| `pub_changes` | 2 pollers, 2 clients, 1 product, 2 quotes, 3 rule versions, answers up to 1 quote late, 1 abort | `ImplementsLog`, `BoardIsNewestEntry`, `RatesOfCommittedRules`, `NobodyTakesBackKnowingly` |
| `board` | 2 products, 2 units, 4 amounts, 2 margins, 2 percentages, 5 display settings, scales 2, 4 and 4 | `BoardIsCurrent`, `RoundedOnce`, `MarginAsTyped`, `ResidualIsRounding`, `FollowsMarket` |
| `raw_tier` | same | *violated*: `RawTierBalances` |
| `outbox_drain` | 2 drainers, 2 products, 4 ids, batches of 2, 1 failure | `NoOvertaking`, `DrainInv`; `EveryRateDelivered` under fairness |
| `outbox_page` | 2 drainers, 1 page, 3 ids, 1 failure, 1 dropped connection | `QuietMeansCurrent`; `FollowersCatchUp` under fairness |
| `hub_sharing` | 3 viewers, 2 shops, 2 listeners allowed, 3 channel objects | `AttachedIsListening`, `ShopNotPoisoned`, `HubInv` |
| `rules_retries` | 3 attempts, 2 rules, 1 key, 2 contents, 3 versions, 2 audited changes | `ImplementsHistory`, `AuditExplainsRules`, `OncePerKey`, `AnswerIsTrue`, `RulesInv` |
| `desk` | 2 devices, 2 requests at a time, 2 saves, 1 field of the rule | `VersionNamesContents`, `WaitIsForOne`, `OnlyWhatWasMeant`, `TypeOK` |
| `blind_overwrite` | 2 devices, 1 request at a time, 2 saves, 1 field of the rule | *violated*: `NoBlindOverwrite` |

Why the bounds are enough. The races are between two actors and, where a third
can profit (three attempts: two that race for a key and one that changes the
rule under them; three viewers: two that share a channel and one that comes when
it is torn down), three. Ids, quotes and versions go one beyond the longest
overlap. One failure that may fall anywhere reaches every error path; a second
one repeats the first from a state that is already reachable. Where the order of two
faults matters (`feed`: a late copy and then a poll that is answered with it), there
are two. In `feed` one symbol is enough for the order of its quotes; the configuration
`MarketFeed_expired` has two. In `board` the scales are chosen so that each division
of the engine meets remainders below, at and above one half, with both signs. Where TLC bounds a
counter the proof does not: the safety theorems hold for every number of actors
and every bound.

`MaxChannels`, `MaxId`, the failure budgets and `MaxVersion` make the last
state of some instances a real end, as do `MaxFaults` and `MaxSaves`:
`CHECK_DEADLOCK FALSE` is in the runs of `OutboxDelivery`, `RateHub`, `MarketFeed`,
`PricingRules` and `Desk`, where all work may be done (every row delivered, every viewer
gone, the poller stopped, the last save answered; in `PricingRules` nobody has to ask,
and nobody does once there are `MaxChanges` audit entries). In the other runs deadlock is checked.

### Fairness

- `LeaderLock`: time passes, a due timer fires, Redis executes what it was sent,
  a settled promise continues. Nothing forces a start, a stop, a crash or a
  failure. `SomeoneLeads` leaves out runs that use up the fencing tokens of the
  bound.
- `RatePublication`: weak fairness on the next statement of each writer and on
  the poller's tick (`setTimeout` re-arms itself). Locks are granted because
  transactions end; PostgreSQL kills one of two that wait for each other
  (`DeadlockVictim`, part of the writer's own steps).
- `OutboxDelivery`: weak fairness on each `drain()` and on each page. A page
  whose connection broke reconnects (EventSource does); failures are finitely
  many, which is what "Redis is back" means for a loop that retries for ever.
- `MarketFeed`: weak fairness on the poll in progress (its timer re-arms, its promises
  settle) and on the second half of `stop()`. Nothing forces the provider to say
  anything, the lease to come or a connection to return. `BacklogDrains` leaves out a
  provider that is down: its polls throw before they look at the queue.
- `Pricing` and `Desk` have no liveness property: nothing there waits but a form for
  its request, and that has a timeout.
- `RateHub` and `PricingRules` have no liveness property: there every wait is for
  somebody who can always end (a transaction that commits or times out, a
  SUBSCRIBE that settles), and clients owe nothing.

### What the violations mean

`raw_tier`. The engine rounds the exact base, adjustment and total to milli-paise each
on its own (`pricing_engine.ts:192-194`), half to even. For an absolute margin the
adjustment is whole and the sum is exact; for a percentage the first two may miss the
third by one. The database demands equality (`chk_published_rates_raw_balances`, under
the comment "The raw tier must reconcile exactly, with no residual at all"), refuses
the row, and with it the transaction: the whole shop's publication of that quote, or
the PATCH that set the percentage, which is answered 500. The property test of the
engine (`tests/unit/pricing_properties.test.ts:158-166`) allows for the difference in
the last place; the database does not.

`blind_overwrite`. `apps/web/src/lib/api.ts:203` says that If-Match "carries the version
the shopkeeper was looking at". After a 409 the editor offers "Reload current values".
The page loads them, and with them the new version; the boxes, set at mount
(`PricingRuleEditor.tsx:59-63`), keep the old values. The next save quotes the new
version and replaces the other device's change with what was in the boxes, in fields
that nobody touched here. The notice beside the button (243-244) says: "Reload to see the
current values, then reapply your change if you still want it"; the current values are
not seen. What does hold is that a version names the contents
it was read with (`VersionNamesContents`): the fault is in the boxes, not in the version.

### Further counterexamples

Five more configurations each show a promise of the repository broken, and are meant to
be run by hand (`tlc -config <cfg> <module>`; TLC reports the violation):

1. `LeaderLock_stop_race` (`MCLeaderLock`): `StopReleasesLease`. `stop()` in the middle
   of the tick that acquires the lease sends no RELEASE (it is not leader yet), the
   tick then becomes leader of a stopped replica, and the lease stays until it runs
   out (`leader_lock.ts:161-173`).
2. `RatePublication_rule_reverts` (`MCRatePublication`): `RuleNeverRegresses`. A tick
   reads the rules (`publication_service.ts:156-181`), a rule change commits with its
   recompute, the tick upserts the price of the old rule over it. The page shows the
   old price until the next quote, against 450-452 ("There is no window ...") and
   `docs/production-readiness.md` ("the upsert converges").
3. `OutboxDelivery_two_publishers` (`OutboxDelivery`): `LastWordIsNewest`. Every replica
   runs a publisher (`pipeline.ts:211-213`) and no row is claimed. A slow pass sends an
   old rate after another pass has sent the newest; nothing corrects the page until the
   product's next rate. `outbox_publisher.ts:26-31` calls two publishers harmless and
   says they are bound to the lease, which they are not. `QuietMeansCurrent` shows that
   the claim is true of passes that do not overlap, through crashes and redeliveries.
4. `RateHub_leak` (`RateHub`): `NoListenerLeaked`. The stream route registers its close
   handler after two awaits; a client that leaves earlier is attached for ever, with a
   heartbeat timer (`http/routes/public.ts:168-211`).
5. `MarketFeed_expired` (`MCMarketFeed`): `ExpiredNotPublished`. A quote's freshness is
   stamped when it is ingested (`market_data_service.ts:239`) and looked at when it is
   published, which may be after it has expired. `docs/production-readiness.md:542`:
   "Expired quote | **Not published at all.**"

## What is proved

TLAPS proves the following for every number of replicas, clients, products,
drainers, viewers, shops and rules, and for every bound. The assumptions are the
named `ASSUME`s of the modules: sentinels are not members of the sets, bounds are
naturals; in `LeaderLock`, `RenewInterval + 6 * MaxDelay < Ttl` (what the comment
"comfortably below" has to mean); in `RateHub`, finitely many viewers; in `Pricing`,
positive scales, steps and finenesses, and percentages of at least -100 %.

- **`LeaderLockProofs`**: `TypeCorrect`; `NeverDisturbsSuccessor` (no assumption on
  time: the scripts compare the token); `LeaseBudget`, `LeaderIsHolder` and
  `OnePoller`. `LeaderHoldsLease` alone is not inductive: why a leader's lease has
  not run out depends on how long ago it was set. `LeaseInv` is a budget: at each
  stage of the cycle SET - INCR - timer - RENEW it bounds how much of the TTL can
  have been used, `MaxDelay` for each step and `RenewInterval` for the timer.
  `TokensDiffer` adds that no fencing token is beyond the counter and that none is
  held, or on its way to a contender, twice (`TokensInv`).
- **`RatePublicationProofs`**: `TypeCorrect`; `LogInvariant` (`LogInv`: who has written
  a row holds its lock, and its uncommitted ids are above every committed id of
  the product); from it `PublicationImplementsLog`, a refinement by the identity on
  the two log variables; and `BoardIsNewest`, which carries `NewestIsCurrent`, a theorem
  of the abstract log alone, over.
  `OnlyCommittedRules` needs `RevInv`: a writer has read committed versions, or its own
  next one, whose rule row it has locked since the comparison; a lock that others
  respect (`UpdateRule`, `SwitchRule`) is what makes the uncommitted version its own.
  `NoReplicaTakesBack`: the price of an older quote replaces that of a newer one only with
  a newer version of the rule, or by a replica that has accepted nothing newer since it
  started. It holds with any number of pollers, late answers and restarts, because what a
  poll carries is what its stream accepted (`AcceptedInv`, the inductive part), and it
  says exactly how far the protection goes: two replicas that know different quotes may
  still take turns, see the observations below.
- **`OutboxDeliveryProofs`**: `PassesKeepOrder`. `NoOvertaking` alone is not inductive:
  a pass acts on a batch it read earlier. `DrainInv` adds that what a pass still
  has to send is closed towards the past: each older row of the product has been
  published or is in the same batch. `SupersededFirst` and `AtLeastOnce` follow.
  The writers are those of `RateLog`, so what delivery assumes is what
  `PublicationImplementsLog` proves. `QuietIsCurrent` follows the newest rate to the page:
  while passes do not overlap, what a pass has sent or left behind is ordered, so when
  every row is marked the last word on the channel is the newest rate, and a connected page
  shows it for every product that it was loaded with and whose last event it has not
  missed. About a product that had no rate when the page was loaded nothing is claimed.
- **`RateHubProofs`**: `HubInvariant`, and from it `SharedChannelSurvives` and
  `CounterIsRight`. The invariant says which channel object a shop has, who awaits
  it, and that the counter is the number of attached viewers. `HubInv` ends with
  `closed`; `ShopNeverPoisoned` does not, so it has an invariant of its own, `Usable`:
  a pending channel of a shop has somebody of that shop waiting for it, who takes it
  away when it fails.
- **`PricingRulesProofs`**: `RulesInvariant`, `RulesImplementHistory`, `AuditExplains`,
  `OneActive`, `KeyExecutedOnce`, `AnswersAreTrue`. The rule is read before the row
  is locked, so the audit's old value could be out of date. `RulesInv` says when it is
  not: what was read is at least as new as the version the client quoted, unless the
  client guessed a version that did not exist when it asked, and rows with the same version
  are the same; so when the conditional update finds that version, the row is the one that
  was read, and from then on nobody else writes it. After a guess the row that was read is
  some earlier one. `AuditExplains` follows from the steps of
  `RuleHistory`: a rule has one entry per version, and each starts from what the entry of
  the version just before left, a guessed one from what some earlier entry left.
- **`PricingProofs`**: `NothingStaleOnTheBoard`: each of the three changes prices with the
  other two as they are at that moment, so the row is that of the last quote, the rule and
  the unit in force, unless it was refused or no quote could be used. The lemma
  `PriceInvariant` says what a row is the result of, and carries four results about the
  operators to the states. `CustomerRateRoundedOnce`: truncation with its correction is the
  rounding that `IsRounding` defines, for both signs and all four modes (`ResolveRounds`),
  and stays so when the denominator is scaled by a step (`StepRounds`).
  `MarginShownAsTyped`: a margin of whole paise has no remainder up to the display,
  because milli-paise per gram times grams is a multiple of the scale; the editor shows it
  as typed, and the page rounds it half-even to the precision of its lines, which changes
  nothing when that precision divides it. `ResidualBounded`: each of the three displayed amounts is near its exact value (`RoundingIsNear`) and the
  exact values add up (`Exact`). `RateFollowsMarket`: the exact total grows with the
  quote when the percentage is at least -100 % (`TotalGrows`), and every mode keeps
  order (`RoundsInOrder`). The products of variables are beyond the SMT solver at once,
  so the chain is cut into lemmas that each multiply one pair.
- **`DeskProofs`**: `VersionIsContents` is inductive with two more facts: each request
  and each page has the record shape, and a request for settings or products carries
  exactly the fields its author changed (`Sound`). That two holders of one version hold
  the same contents follows because only `UpdateRule` changes either and it always moves
  the version. `ChangesWhatIsMeant` is a step from that invariant. `NobodyWaitsInVain`: a
  mounted request is of the form on the screen, and that form waits (`Waits`), so nothing else is there to release it.
  `TypeCorrect` needs that too: an answer fills the form on the screen, and only
  because it is the form that asked does it have the answer's fields. So its invariant
  (`TypeInv`: a form is of its tab, a request carries fields of its own section, the
  editor of a rule a whole rule) is inductive beside `WaitInv`, not alone.
- **`MarketFeedProofs`**: `BacklogInvariant`. That nothing older is handed over is not
  inductive: a quote waits in the queue, then in a batch, while pushes, polls and
  failures go on. `BacklogInv` says what waits, batch and queue together: in order per
  symbol, after what was handed over, not beyond what the stream has accepted. A quote
  that is ingested is newer than the stream's last, hence than all that waits
  (`IngestKeepsOrder`); a publication, or a failure, takes from the front
  (`Shortened`). What is ingested is a selection from a sequence, which `Part` writes as
  a function, so that `PartOf` can be proved by counting positions and without an
  induction. `FeedImplementsOrder` maps each step to `Accept`, `Publish` or a stutter.
  `ReadyIsPriceable` needs `ConnectsFirst`: the status that `pipeline_health` does not
  refuse could be "configured" or "connecting", but a provider that never connected
  has not been heard.

Every safety property that a passing run checks is one of these theorems. Only
model-checked are the liveness properties (`SomeoneLeads`, `WorkEnds`, `BacklogDrains`,
`EveryRateDelivered`, `FollowersCatchUp`), which need fairness and ENABLED, and the
violations `RawTierBalances` and `NoBlindOverwrite`. The `FairSpec`s add
fairness to the `Spec`s that the theorems are about.

## Observations that no run is spent on

- **The older quote may win**, by a replica that knows no newer one, which is what
  `NobodyTakesBackKnowingly` leaves open. A poll publishes without looking at the lease again
  (`market_poller.ts:206-208`) and the upsert compares nothing
  (`publication_service.ts:308-312`). A poller that lost the lease can overwrite its
  successor's newer rate; `leader_lock.ts:24-26` says the cost is "not a wrong price".
- **Token order.** SET and INCR are separate calls (`leader_lock.ts:214-216`): a
  replica that stalls between them may draw the newer token of two.
- **One rejected renewal demotes** (`leader_lock.ts:222-226`), although 77 speaks of
  tolerating one; its own lease then stands in its way until it runs out.
- **A rule change that a non-polling replica serves publishes nothing** when that
  replica has no quote of its own (`pipeline.ts:243-249`); the next tick does.
- **Direction.** The rate to be replaced is read before the row is locked
  (`publication_service.ts:286-289`), so the logged direction can be wrong when a tick
  and a rule change, or two ticks, overlap. No property is about the direction.
- **Redelivery** takes a page back to an older rate until the later rows of the batch
  are sent again (`outbox_publisher.ts:194-199`).
- **A page that reconnects** fetches nothing (`http/routes/public.ts:182-184`),
  against `docs/testing-strategy.md:163`: what it missed it shows until the next event.
- **A product's first rate** reaches no page that was loaded before it: the page maps
  over what it was loaded with (`LiveRates.tsx:43-60`), so one that was loaded with no
  product at all keeps "No rates published yet" (62-72) until it is reloaded.
- **Capacity** is checked before the await and counted after it (`rate_hub.ts:95,136`);
  a refusal comes after the 200 has been sent (`http/routes/public.ts:170-188`).
- **Concurrent duplicates.** The loser of two overlapping updates is told "expected
  version 1, found 1": the message quotes the read made before the wait.
- **If-Match ahead of any version read.** A client that guesses the next version can
  have its update accepted with an audit `old_value` that is out of date, since the row
  is read (`pricing_rule_service.ts:314`) before it is locked. The model lets it (`guess`),
  and `AuditExplainsRules` exempts such an entry.
- **Clean-up** stops at an empty batch (`idempotency_cleanup.ts:154-157`); a batch is
  also empty when another run has deleted exactly the rows this one selected.
- **Feed.** A publish that throws loses the rest of the batch it was in
  (`market_poller.ts:205-216`). The first quote of a symbol has nothing to be compared
  with; after it, a true jump of more than 5 % is refused for ever, since what is
  refused does not become the last quote (`quote_stream.ts`). `reconnect()` revives a
  provider that was stopped. A vendor that numbers some quotes and not others is ordered
  by two scales that are not transitive together. One fresh symbol makes a replica ready.
- **Standby.** A replica that has never led has no quotes and answers 503
  (`pipeline_health.ts:98`), where `market_poller.ts:125-130` wants standbys warm.
- **Editor.** The rounding modes "up" and "down" (`contracts/src/public.ts:124`,
  `PricingRuleEditor.tsx:42-43`) are not the API's "ceil" and "floor": a save is 422.
- **Timed-out saves.** A save that the server executed after the browser gave up is
  refused when repeated, as "someone else changed this rate": each attempt has a new
  idempotency key (`lib/api.ts:222-224`), so the replay that the API offers is not used.
- **Refresh.** When it fails the whole dashboard is replaced by the error and what was
  typed is gone (`page.tsx:155-161`); what is typed into the settings form while it saves
  is overwritten by the answer (`ShopSettingsForm.tsx:166-168`).
- **Units and switches.** `update_product` decides about the recompute on a row it read
  without a lock (`tenant_products_service.ts:148`), and audits that row as the old
  value: two overlapping saves can leave the board in the former unit until the next
  tick. A product that is enabled again shows its old rate until then.
- **Onboarding.** Two overlapping submissions meet the unique index of the membership;
  the loser's error is not translated and answered 500 instead of 409. A create that
  timed out and was executed is answered 409 when repeated, and the form stays.
- **Key cache.** With an aged cache and a provider that fails, each request fetches
  again (`jwks_cache.ts:32-40`).
- **Comments.** `pricing_engine.ts:108-109` and ADR-0005 line 82 call the residual "zero
  whenever both precisions agree"; two halves that round the same way leave one.
  `pricing_engine.ts:101` calls the shown margin "Exact for `absolute`": with a component
  precision of 5, 10 or 100 paise it is rounded (2.50 at 100 paise is shown as 2.00).
- **Backlog.** Readiness fails "past 500" rows (`pipeline_health.ts:60`), a number that
  the snapshot, made of one batch of at most 200, cannot reach.

## What is not modelled, and why

- PostgreSQL, Redis and JavaScript are modelled by what the code relies on (row
  locks, unique indexes, READ COMMITTED, atomic scripts, ordered commands of one
  connection, one callback at a time), and marked external in `PROJECT.json`.
- A Redis that restarts and forgets its keys: outside the lease's contract.
- What node-redis does with an UNSUBSCRIBE that overlaps a SUBSCRIBE: library code.
- Row-level security as such: a transaction belongs to one tenant, so the models
  have one. The policies are predicates over single rows.
- Keys are not purged during a run of `PricingRules`; retries come within the
  retention time. In `RatePublication` prices are pairs (quote, rule version); what a
  rate is, is in `Pricing`.
- The random walk of the simulator is a choice among a few prices. A vendor that numbers
  only some of its quotes: no provider of the repository does.
- `Desk` starts from requests that succeed or fail as a whole: field messages of a 422,
  confirmations and previews are layout. Social links, the audit list, onboarding.
- Onboarding, the clean-up job and the key cache: short sequential procedures, each with
  one weakness, described above; verification of a token is a library's.
- Wiring, configuration, logging, rendering.

## Plan

Order: what customers see first. Done: 1 `LeaderLock`, 2 `RateLog` and
`RatePublication`, 3 `OutboxDelivery`, 4 `RateHub`, 5 `RuleHistory` and `PricingRules`,
6 `FeedOrder` and `MarketFeed` with the readiness verdict, 7 `Pricing`, 8 `Desk` with the
saves of products and settings.

Left, in this order: `Onboarding` (claims of slugs and memberships by concurrent
requests), `JwksCache` (single flight, cooldown, rotation, outage), `KeyCleanup` (purge
beside retries and beside another purge).

Theorems worth adding: that at rest nobody waits for a lock that nobody holds (the
safety half of `WorkEnds`), and that the rule of `Desk` is one of `RuleHistory`.
