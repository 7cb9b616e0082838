--------------------------- MODULE RatePublication ---------------------------
(***************************************************************************)
(* How a rate becomes the published rate of a shop                         *)
(* (modules/publication/publication_service.ts, with the market poller and *)
(* the pricing-rule mutations that call it).                               *)
(*                                                                         *)
(* One shop, one metal, one symbol: every transaction runs in the context  *)
(* of one tenant and touches its rows only.  A quote is its position in    *)
(* the market's history, a rule its version, and a rate the pair it was    *)
(* computed from.  PostgreSQL runs the transactions READ COMMITTED: each   *)
(* statement sees what is committed when it starts, a write locks its row  *)
(* until the transaction ends.                                             *)
(*                                                                         *)
(* LeaderLock shows when at most one replica believes to be the leader;    *)
(* here that is taken for granted and `leader' moves at will.  A poll that *)
(* was running when the lease moved goes on.                               *)
(***************************************************************************)
EXTENDS Integers, FiniteSets

CONSTANTS
  Replicas,       \* API processes
  Requests,       \* clients that update pricing rules
  Products,       \* products of the shop, all of one metal
  NoOne,          \* no leader, no lock holder
  NoProduct,      \* a transaction that is at no product
  Unpriceable,    \* rates that the pricing engine refuses (PricingError)
  MaxQuote,       \* bound: quotes of the market
  MaxRev,         \* bound: versions of a rule
  Lag,            \* how many quotes an answer of the provider may be behind
  MaxHandovers,   \* bound: moves of the lease
  MaxAborts,      \* bound: aborted transactions
  MaxRestarts     \* bound: crashed processes

Writers == Replicas \cup Requests
Rates   == [quote : Nat, rev : Nat]
NoRate  == [quote |-> 0, rev |-> 0]

ASSUME PublicationAssumption ==
  /\ Replicas \cap Requests = {}
  /\ NoOne \notin Writers
  /\ NoProduct \notin Products
  /\ MaxQuote \in Nat /\ MaxRev \in Nat
  /\ Lag \in Nat /\ MaxHandovers \in Nat
  /\ MaxAborts \in Nat /\ MaxRestarts \in Nat

VARIABLES
  rule,          \* tenant_pricing_rules: version and is_active per product
  enabled,       \* tenant_products.is_enabled
  board,         \* published_rates
  publications,  \* rate_publication_outbox and rate_update_events
  next_id,       \* the sequence of the outbox ids
  row_lock,      \* who has written the published_rates row and not committed
  rule_lock,     \* who has written the rule and not committed
  market,        \* newest quote of the market
  expired,       \* newest quote that is past expired_after_ms
  latest,        \* last quote that the MarketDataService of a replica accepted
  leader,        \* the replica that holds the lease
  tx,            \* what each writer is doing
  handovers,     \* moves of the lease so far
  aborts,        \* aborted transactions so far
  restarts       \* crashes so far

tables  == <<rule, enabled, board, publications>>
locks   == <<row_lock, rule_lock>>
feed    == <<market, expired>>
counts  == <<handovers, aborts, restarts>>
vars    == <<tables, next_id, locks, feed, latest, leader, tx, counts>>

Publications ==
  [id : Nat, product : Products, old : Rates, rate : Rates]

\* A writer between two pieces of work.  `seen' holds the versions of the
\* active rules it has read (0: none), `todo' the products left to price,
\* `old' the rate read before the upsert, `staged' and `rows' what it has
\* written to published_rates and to the log, and not committed.
Idle ==
  [pc |-> "idle", quote |-> 0, seen |-> [p \in Products |-> 0], todo |-> {},
   cur |-> NoProduct, old |-> NoRate, staged |-> [p \in Products |-> NoRate],
   rows |-> {}, host |-> NoOne, expected |-> 0]

Steps == {"idle", "asking", "rules", "update", "recompute", "enabled",
          "next", "upsert", "insert"}

TxType ==
  [pc : Steps, quote : Nat, seen : [Products -> Nat], todo : SUBSET Products,
   cur : Products \cup {NoProduct}, old : Rates, staged : [Products -> Rates],
   rows : SUBSET Publications, host : Replicas \cup {NoOne}, expected : Nat]

TxOK ==
  /\ tx \in [Writers -> TxType]
  /\ \A w \in Writers :
       tx[w].pc \in {"update", "recompute", "upsert", "insert"}
       => tx[w].cur \in Products
  /\ \A w \in Writers :
       tx[w].pc \in {"update", "recompute"} => tx[w].host \in Replicas

TypeOK ==
  /\ rule \in [Products -> [rev : Nat, active : BOOLEAN]]
  /\ enabled \in [Products -> BOOLEAN]
  /\ board \in [Products -> Rates]
  /\ publications \subseteq Publications
  /\ next_id \in Nat
  /\ row_lock \in [Products -> Writers \cup {NoOne}]
  /\ rule_lock \in [Products -> Writers \cup {NoOne}]
  /\ market \in Nat /\ expired \in Nat
  /\ latest \in [Replicas -> Nat]
  /\ leader \in Replicas \cup {NoOne}
  /\ TxOK
  /\ handovers \in Nat /\ aborts \in Nat /\ restarts \in Nat

Init ==
  /\ rule = [p \in Products |-> [rev |-> 1, active |-> TRUE]]
  /\ enabled = [p \in Products |-> TRUE]
  /\ board = [p \in Products |-> NoRate]
  /\ publications = {}
  /\ next_id = 1
  /\ row_lock = [p \in Products |-> NoOne]
  /\ rule_lock = [p \in Products |-> NoOne]
  /\ market = 1 /\ expired = 0
  /\ latest = [r \in Replicas |-> 0]
  /\ leader = NoOne
  /\ tx = [w \in Writers |-> Idle]
  /\ handovers = 0 /\ aborts = 0 /\ restarts = 0

\* The record of one writer changes.
Becomes(w, t) == tx' = [tx EXCEPT ![w] = t]

-----------------------------------------------------------------------------
(* The surroundings: the market, the lease, and the shopkeeper's other     *)
(* requests, whose transactions write one row and read nothing they write. *)
(* Operators named X_... are faulty variants of X: the bugs that the       *)
(* properties are known to exclude.                                        *)

MarketMoves ==
  /\ market < MaxQuote
  /\ market' = market + 1
  /\ UNCHANGED <<tables, next_id, locks, expired, latest, leader, tx, counts>>

QuoteExpires ==
  /\ expired < market
  /\ expired' = expired + 1
  /\ UNCHANGED <<tables, next_id, locks, market, latest, leader, tx, counts>>

Handover ==
  /\ handovers < MaxHandovers
  /\ handovers' = handovers + 1
  /\ leader' \in (Replicas \cup {NoOne}) \ {leader}
  /\ UNCHANGED <<tables, next_id, locks, feed, latest, tx, aborts, restarts>>

\* create_rule and deactivate_rule: neither recomputes.
SwitchRule(p) ==
  /\ rule_lock[p] = NoOne
  /\ rule[p].rev < MaxRev
  /\ rule' = [rule EXCEPT ![p] = [rev |-> @.rev + 1, active |-> ~@.active]]
  /\ UNCHANGED <<enabled, board, publications, next_id, locks, feed, latest,
                 leader, tx, counts>>

\* update_product with is_enabled only: requires_recompute is false.
SwitchProduct(p) ==
  /\ enabled' = [enabled EXCEPT ![p] = ~@]
  /\ UNCHANGED <<rule, board, publications, next_id, locks, feed, latest,
                 leader, tx, counts>>

-----------------------------------------------------------------------------
(* The market poller, up to the transaction that publishes a quote.        *)

\* #tick: the lease is looked at here and nowhere else.  The answer that the
\* provider will give is the newest quote or one of the Lag before it.
Tick(r) ==
  /\ tx[r].pc = "idle" /\ leader = r
  /\ \E q \in {x \in (market - Lag)..market : x > 0} :
        Becomes(r, [tx[r] EXCEPT !.pc = "asking", !.quote = q])
  /\ UNCHANGED <<tables, next_id, locks, feed, latest, leader, counts>>

Ingest_PublishesRefused(r) ==
  /\ tx[r].pc = "asking"
  /\ latest' = IF tx[r].quote > latest[r]
                THEN [latest EXCEPT ![r] = tx[r].quote] ELSE latest
  /\ Becomes(r, IF tx[r].quote > expired
                THEN [tx[r] EXCEPT !.pc = "rules"] ELSE Idle)
  /\ UNCHANGED <<tables, next_id, locks, feed, leader, counts>>

Ingest_KeepsPolling(r) ==
  /\ tx[r].pc = "asking"
  /\ LET accepted == tx[r].quote > latest[r] IN
     /\ latest' = IF accepted THEN [latest EXCEPT ![r] = tx[r].quote] ELSE latest
     /\ Becomes(r, IF ~accepted THEN tx[r]
                   ELSE IF tx[r].quote > expired
                        THEN [tx[r] EXCEPT !.pc = "rules"] ELSE Idle)
  /\ UNCHANGED <<tables, next_id, locks, feed, leader, counts>>

\* The provider has answered poll_once.  The stream refuses a quote it has
\* seen or that is older than the last; an accepted quote is published unless
\* it is expired already.
Ingest(r) ==
  /\ tx[r].pc = "asking"
  /\ LET accepted == tx[r].quote > latest[r] IN
     /\ latest' = IF accepted THEN [latest EXCEPT ![r] = tx[r].quote] ELSE latest
     /\ Becomes(r, IF accepted /\ tx[r].quote > expired
                   THEN [tx[r] EXCEPT !.pc = "rules"] ELSE Idle)
  /\ UNCHANGED <<tables, next_id, locks, feed, leader, counts>>

\* publish_for_tenant reads every active rule once, at the start.
ReadRules(r) ==
  /\ tx[r].pc = "rules"
  /\ Becomes(r, [tx[r] EXCEPT !.pc = "enabled",
                   !.seen = [p \in Products |->
                               IF rule[p].active THEN rule[p].rev ELSE 0]])
  /\ UNCHANGED <<tables, next_id, locks, feed, latest, leader, counts>>

-----------------------------------------------------------------------------
(* The pricing-rule update, up to the recompute inside its transaction.    *)

\* A client that has read the rule sends its change to some replica.
Submit(c, p, r) ==
  /\ tx[c].pc = "idle" /\ rule[p].rev < MaxRev
  /\ Becomes(c, [tx[c] EXCEPT !.pc = "update", !.cur = p, !.host = r,
                              !.expected = rule[p].rev])
  /\ UNCHANGED <<tables, next_id, locks, feed, latest, leader, counts>>

\* update_rule: the conditional updateMany waits for the row, then compares
\* the version.  A conflict rolls the transaction back.
UpdateRule(c) ==
  LET p == tx[c].cur IN
  /\ tx[c].pc = "update"
  /\ rule_lock[p] = NoOne
  /\ \/ /\ rule[p].rev = tx[c].expected
        /\ rule_lock' = [rule_lock EXCEPT ![p] = c]
        /\ Becomes(c, [tx[c] EXCEPT !.pc = "recompute",
                                    !.seen[p] = rule[p].rev + 1])
     \/ /\ rule[p].rev # tx[c].expected
        /\ Becomes(c, Idle)
        /\ UNCHANGED rule_lock
  /\ UNCHANGED <<tables, next_id, row_lock, feed, latest, leader, counts>>

\* recompute_rule_in_transaction: nothing is published for an inactive rule,
\* nor when the replica that serves the request has no quote of its own that
\* is still usable; the rule change commits all the same.
Recompute(c) ==
  LET q == latest[tx[c].host] IN
  /\ tx[c].pc = "recompute"
  /\ Becomes(c, IF rule[tx[c].cur].active /\ q # 0 /\ q > expired
                THEN [tx[c] EXCEPT !.pc = "enabled", !.quote = q]
                ELSE [tx[c] EXCEPT !.pc = "next", !.cur = NoProduct])
  /\ UNCHANGED <<tables, next_id, locks, feed, latest, leader, counts>>

-----------------------------------------------------------------------------
(* publish_one, in the transaction of a poller or of a request.            *)

\* Only products that are enabled at this moment are priced.
ReadEnabled(w) ==
  /\ tx[w].pc = "enabled"
  /\ Becomes(w, [tx[w] EXCEPT !.pc = "next", !.cur = NoProduct,
                   !.todo = {p \in Products : tx[w].seen[p] # 0 /\ enabled[p]}])
  /\ UNCHANGED <<tables, next_id, locks, feed, latest, leader, counts>>

Price(w, p) == [quote |-> tx[w].quote, rev |-> tx[w].seen[p]]

\* The rules come in no particular order.  A rule that cannot be priced is
\* skipped; otherwise the rate to be replaced is read, without a lock.
ReadPrevious(w, p) ==
  /\ tx[w].pc = "next" /\ p \in tx[w].todo
  /\ Becomes(w, IF Price(w, p) \in Unpriceable
                THEN [tx[w] EXCEPT !.todo = @ \ {p}]
                ELSE [tx[w] EXCEPT !.pc = "upsert", !.cur = p, !.old = board[p]])
  /\ UNCHANGED <<tables, next_id, locks, feed, latest, leader, counts>>

Upsert_NoWait(w) ==
  LET p == tx[w].cur IN
  /\ tx[w].pc = "upsert"
  /\ row_lock' = [row_lock EXCEPT ![p] = w]
  /\ Becomes(w, [tx[w] EXCEPT !.pc = "insert", !.staged[p] = Price(w, p)])
  /\ UNCHANGED <<tables, next_id, rule_lock, feed, latest, leader, counts>>

\* The upsert of published_rates waits for a concurrent writer of the row.
Upsert(w) ==
  LET p == tx[w].cur IN
  /\ tx[w].pc = "upsert"
  /\ row_lock[p] = NoOne
  /\ row_lock' = [row_lock EXCEPT ![p] = w]
  /\ Becomes(w, [tx[w] EXCEPT !.pc = "insert", !.staged[p] = Price(w, p)])
  /\ UNCHANGED <<tables, next_id, rule_lock, feed, latest, leader, counts>>

\* The rate_update_events row and the outbox row with its id.  A sequence is
\* not transactional: an id is never given back.
Insert(w) ==
  LET p == tx[w].cur IN
  /\ tx[w].pc = "insert"
  /\ next_id' = next_id + 1
  /\ LET row == [id |-> next_id, product |-> p, old |-> tx[w].old,
                rate |-> Price(w, p)] IN
     Becomes(w, [tx[w] EXCEPT !.pc = "next", !.cur = NoProduct, !.old = NoRate,
                      !.todo = @ \ {p}, !.rows = @ \cup {row}])
  /\ UNCHANGED <<tables, locks, feed, latest, leader, counts>>

-----------------------------------------------------------------------------
(* The end of a transaction.                                               *)

Unlocked(lock, ended) ==
  [p \in Products |-> IF lock[p] \in ended THEN NoOne ELSE lock[p]]

Ready(w) == tx[w].pc = "next" /\ tx[w].todo = {}

\* All that the transaction has written becomes visible at once.
Commit(w) ==
  /\ Ready(w)
  /\ board' = [p \in Products |-> IF row_lock[p] = w THEN tx[w].staged[p]
                                                     ELSE board[p]]
  /\ publications' = publications \cup tx[w].rows
  /\ rule' = [p \in Products |->
                IF rule_lock[p] = w THEN [rule[p] EXCEPT !.rev = tx[w].seen[p]]
                                    ELSE rule[p]]
  /\ row_lock' = Unlocked(row_lock, {w})
  /\ rule_lock' = Unlocked(rule_lock, {w})
  /\ Becomes(w, Idle)
  /\ UNCHANGED <<enabled, next_id, feed, latest, leader, counts>>

Rollback_KeepsRows(ended) ==
  /\ row_lock' = Unlocked(row_lock, ended)
  /\ rule_lock' = Unlocked(rule_lock, ended)
  /\ tx' = [w \in Writers |-> IF w \in ended THEN Idle ELSE tx[w]]
  /\ publications' = publications \cup UNION {tx[w].rows : w \in ended}
  /\ UNCHANGED <<rule, enabled, board, next_id, feed>>

\* Nothing that the ended transactions have written remains.
Rollback(ended) ==
  /\ row_lock' = Unlocked(row_lock, ended)
  /\ rule_lock' = Unlocked(rule_lock, ended)
  /\ tx' = [w \in Writers |-> IF w \in ended THEN Idle ELSE tx[w]]
  /\ UNCHANGED <<tables, next_id, feed>>

\* A statement fails or the transaction times out.  The poller's loop catches
\* it and goes on to the next tenant; a request answers 500.  The quote is
\* not published again: to the stream it is a duplicate from now on.
Abort(w) ==
  /\ tx[w].pc # "idle"
  /\ aborts < MaxAborts
  /\ aborts' = aborts + 1
  /\ Rollback({w})
  /\ UNCHANGED <<latest, leader, handovers, restarts>>

\* PostgreSQL aborts a transaction that is part of a cycle of waiters.
WaitsFor(w) == IF tx[w].pc = "upsert" THEN row_lock[tx[w].cur] ELSE NoOne
Deadlocked(w) ==
  \E cycle \in SUBSET Writers :
    w \in cycle /\ {WaitsFor(v) : v \in cycle} = cycle

DeadlockVictim(w) ==
  /\ Deadlocked(w)
  /\ Rollback({w})
  /\ UNCHANGED <<latest, leader, counts>>

\* A process dies, with the requests it serves, and starts again.
Restart(r) ==
  /\ restarts < MaxRestarts
  /\ restarts' = restarts + 1
  /\ Rollback({r} \cup {c \in Requests : tx[c].host = r})
  /\ latest' = [latest EXCEPT ![r] = 0]
  /\ leader' = IF leader = r THEN NoOne ELSE leader
  /\ UNCHANGED <<handovers, aborts>>

-----------------------------------------------------------------------------
Surroundings ==
  \/ MarketMoves \/ QuoteExpires \/ Handover
  \/ \E p \in Products : SwitchRule(p) \/ SwitchProduct(p)

Failure ==
  \/ \E w \in Writers : Abort(w)
  \/ \E r \in Replicas : Restart(r)

\* The steps that a writer takes by itself.
Own(w) ==
  \/ ReadEnabled(w) \/ Upsert(w) \/ Insert(w) \/ Commit(w) \/ DeadlockVictim(w)
  \/ \E p \in Products : ReadPrevious(w, p)
  \/ w \in Replicas /\ (Ingest(w) \/ ReadRules(w))
  \/ w \in Requests /\ (UpdateRule(w) \/ Recompute(w))

Next ==
  \/ Surroundings
  \/ Failure
  \/ \E r \in Replicas : Tick(r)
  \/ \E c \in Requests, p \in Products, r \in Replicas : Submit(c, p, r)
  \/ \E w \in Writers : Own(w)

Spec == Init /\ [][Next]_vars

\* Timers fire and PostgreSQL answers; nobody has to be elected.
FairSpec ==
  /\ Spec
  /\ \A w \in Writers : WF_vars(Own(w))
  /\ \A r \in Replicas : WF_vars(Tick(r))

-----------------------------------------------------------------------------
(* Properties.                                                             *)

Log == INSTANCE RateLog WITH current <- board, log <- publications

\* Every commit is one step of the log: entries of a product arrive in the
\* order of their ids, nothing rolled back ever appears, and the rate and its
\* entry appear together (publication_service.ts:239-245, and the migration's
\* "a later rate for the same product always carries a higher id than the one
\* it supersedes").
ImplementsLog == Log!Spec

\* The rate a shop shows is the one of its product's newest log entry,
\* whichever transactions interleaved, failed or were killed.
BoardIsNewestEntry == Log!CurrentIsNewest

\* What a writer holds.  It has the lock of every row it has written; its
\* entry for the row has the staged rate, an id of its own, and one beyond
\* every committed entry of the product, because the id was drawn under the
\* lock.  Before its first upsert it has written nothing.
Written(w) ==
  /\ \A x \in tx[w].rows :
       /\ row_lock[x.product] = w
       /\ tx[w].staged[x.product] = x.rate
       /\ x.product \notin tx[w].todo
       /\ \A y \in tx[w].rows : x.product = y.product \/ x.id = y.id => x = y
       /\ \A y \in publications :
            y.id # x.id /\ (y.product = x.product => y.id < x.id)
  /\ \A p \in Products :
       row_lock[p] = w => \/ \E x \in tx[w].rows : x.product = p
                          \/ tx[w].pc = "insert" /\ tx[w].cur = p
  /\ tx[w].pc \in {"upsert", "insert"} => tx[w].cur \in tx[w].todo
  /\ tx[w].pc = "insert" =>
       /\ row_lock[tx[w].cur] = w
       /\ tx[w].staged[tx[w].cur] = Price(w, tx[w].cur)
  /\ tx[w].pc \notin {"next", "upsert", "insert"} => tx[w].rows = {}

\* No id is drawn twice.
IdsDrawn ==
  /\ \A x \in publications : x.id < next_id
  /\ \A w \in Writers : \A x \in tx[w].rows : x.id < next_id
  /\ \A v \in Writers, w \in Writers : v # w =>
       \A x \in tx[v].rows, y \in tx[w].rows : x.id # y.id

\* The states from which every commit extends the log in order.
LogInv == TypeOK /\ IdsDrawn /\ \A w \in Writers : Written(w)

\* A published rate comes from a version of the rule that has committed: no
\* customer sees the price of a change that lost against another one, timed
\* out or died with its process (publication_service.ts:455-463).
RatesOfCommittedRules ==
  \A x \in publications : x.rate.rev \in 1..rule[x.product].rev

\* However polls of two replicas and rule changes overlap, restart and receive
\* late answers, the price of an older quote replaces that of a newer one in two
\* cases only: with the price of a newer version of the rule, or by the poll of
\* a replica that has accepted nothing as new since it started.  A replica never
\* takes back a quote that it knows (market_poller.ts:193-202: what is published
\* is what the stream accepted, not what the provider answered).
NobodyTakesBackKnowingly ==
  [][\A p \in Products : board'[p].quote < board[p].quote =>
       \/ board'[p].rev > board[p].rev
       \/ \E r \in Replicas : row_lock[p] = r /\ latest[r] < board[p].quote]_vars

\* What a poller publishes is the quote its stream accepted last; a request holds
\* the rule of which it knows a version; and what a writer has staged under its
\* lock is the price of its quote and version.
PricesAccepted(w) ==
  /\ w \in Replicas /\ tx[w].pc \notin {"idle", "asking"} => tx[w].quote = latest[w]
  /\ w \in Requests => \A p \in Products : tx[w].seen[p] # 0 => rule_lock[p] = w
  /\ \A p \in Products : row_lock[p] = w => tx[w].staged[p] = Price(w, p)

\* The states from which no replica takes back a quote that it knows.
AcceptedInv == \A w \in Writers : PricesAccepted(w)

\* Every transaction ends: nobody waits for a row for ever.
WorkEnds == \A w \in Writers : tx[w].pc # "idle" ~> tx[w].pc = "idle"

\* publication_service.ts:450-452: "There is no window in which the rule has
\* changed but the customer-facing rate still reflects the old one."  So a
\* price of a newer version of the rule is not replaced by one of an older.
RuleNeverRegresses ==
  [][\A p \in Products : board'[p].rev >= board[p].rev]_vars
=============================================================================
