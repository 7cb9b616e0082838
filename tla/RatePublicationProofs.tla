------------------------ MODULE RatePublicationProofs ------------------------
(***************************************************************************)
(* That the transactions of RatePublication, however they interleave and   *)
(* whenever they fail, implement the log of RateLog.  The argument is the  *)
(* invariant LogInv: an entry draws its id while its transaction holds the *)
(* lock of the product's row, and the lock is kept until the commit.       *)
(***************************************************************************)
EXTENDS RatePublication, TLAPS

\* A writer at rest has a record of the right type.
LEMMA IdleIsTx == Idle \in TxType
BY DEF Idle, TxType, Steps, Rates, NoRate, Publications

\* What publish_one computes is a rate.
LEMMA PriceIsRate ==
  ASSUME TypeOK, NEW w \in Writers, NEW p \in Products
  PROVE  Price(w, p) \in Rates
BY DEF TypeOK, TxOK, TxType, Price, Rates

\* A step that replaces the record of one writer.
LEMMA TxUpdate ==
  ASSUME TypeOK, NEW w \in Writers, NEW t \in TxType, Becomes(w, t),
         t.pc \in {"update", "recompute", "upsert", "insert"} => t.cur \in Products,
         t.pc \in {"update", "recompute"} => t.host \in Replicas
  PROVE  TxOK'
BY DEF TypeOK, TxOK, Becomes

\* A rollback leaves records of the right type.
LEMMA RollbackTypes ==
  ASSUME TypeOK, NEW ended \in SUBSET Writers, Rollback(ended)
  PROVE  /\ row_lock' \in [Products -> Writers \cup {NoOne}]
         /\ rule_lock' \in [Products -> Writers \cup {NoOne}]
         /\ TxOK'
<1>1. /\ row_lock' \in [Products -> Writers \cup {NoOne}]
      /\ rule_lock' \in [Products -> Writers \cup {NoOne}]
  BY DEF Rollback, TypeOK, Unlocked
<1>2. tx' \in [Writers -> TxType]
  BY IdleIsTx DEF Rollback, TypeOK, TxOK
<1>3. ASSUME NEW w \in Writers PROVE tx'[w] = Idle \/ tx'[w] = tx[w]
  BY DEF Rollback
<1>4. Idle.pc = "idle"
  BY DEF Idle
<1> QED BY <1>1, <1>2, <1>3, <1>4 DEF TypeOK, TxOK

\* Every step of a writer by itself keeps the types.
LEMMA OwnTypeStep ==
  ASSUME TypeOK, NEW w \in Writers, Own(w)
  PROVE  TypeOK'
<1>0. tx[w] \in TxType /\ Idle.pc = "idle"
  BY DEF TypeOK, TxOK, Idle
<1>1. CASE ReadEnabled(w)
  <2> DEFINE t == [tx[w] EXCEPT !.pc = "next", !.cur = NoProduct,
                !.todo = {p \in Products : tx[w].seen[p] # 0 /\ enabled[p]}]
  <2>1. t \in TxType
    BY <1>1, <1>0 DEF ReadEnabled, TypeOK, TxOK, TxType, Steps
  <2>2. Becomes(w, t)
    BY <1>1 DEF ReadEnabled
  <2>3. /\ t.pc \in {"update", "recompute", "upsert", "insert"} => t.cur \in Products
        /\ t.pc \notin {"update", "recompute"}
    BY <1>1, <1>0 DEF ReadEnabled, TypeOK, TxOK, TxType
  <2> HIDE DEF t
  <2>4. TxOK'
    BY <2>1, <2>2, <2>3, TxUpdate
  <2> QED BY <1>1, <2>4 DEF ReadEnabled, TypeOK, tables, locks, feed, counts
<1>2. CASE Upsert(w)
  <2> DEFINE t == [tx[w] EXCEPT !.pc = "insert", !.staged[tx[w].cur] =
                                  Price(w, tx[w].cur)]
  <2>1. t \in TxType
    BY <1>2, <1>0, PriceIsRate DEF Upsert, TypeOK, TxOK, TxType, Steps
  <2>2. Becomes(w, t)
    BY <1>2 DEF Upsert
  <2>3. /\ t.pc \in {"update", "recompute", "upsert", "insert"} => t.cur \in Products
        /\ t.pc \notin {"update", "recompute"}
    BY <1>2, <1>0 DEF Upsert, TypeOK, TxOK, TxType
  <2> HIDE DEF t
  <2>4. TxOK'
    BY <2>1, <2>2, <2>3, TxUpdate
  <2> QED BY <1>2, <2>4 DEF Upsert, TypeOK, tables, locks, feed, counts
<1>3. CASE Insert(w)
  <2> DEFINE row == [id |-> next_id, product |-> tx[w].cur, old |-> tx[w].old,
                     rate |-> Price(w, tx[w].cur)]
             t == [tx[w] EXCEPT !.pc = "next", !.cur = NoProduct, !.old = NoRate,
                     !.todo = @ \ {tx[w].cur}, !.rows = @ \cup {row}]
  <2>1. tx[w].cur \in Products
    BY <1>3 DEF Insert, TypeOK, TxOK
  <2>2. row \in Publications
    BY <2>1, <1>0, PriceIsRate DEF TypeOK, TxType, Publications
  <2>3. t \in TxType
    <3> HIDE DEF row
    <3> QED BY <1>0, <2>2 DEF TxType, Steps, Rates, NoRate
  <2>4. Becomes(w, t)
    BY <1>3 DEF Insert
  <2>5. t.pc = "next"
    BY <1>0 DEF TxType
  <2> HIDE DEF t
  <2>6. TxOK'
    BY <2>3, <2>4, <2>5, TxUpdate
  <2> QED BY <1>3, <2>6 DEF Insert, TypeOK, tables, locks, feed, counts
<1>4. CASE Commit(w)
  <2> DEFINE t == Idle
  <2>1. t \in TxType
    BY <1>4, <1>0, IdleIsTx DEF Commit, TypeOK, TxOK, TxType, Steps
  <2>2. Becomes(w, t)
    BY <1>4 DEF Commit
  <2>3. /\ t.pc \in {"update", "recompute", "upsert", "insert"} => t.cur \in Products
        /\ t.pc \notin {"update", "recompute"}
    BY <1>4, <1>0 DEF Commit, TypeOK, TxOK, TxType
  <2> HIDE DEF t
  <2>4. TxOK'
    BY <2>1, <2>2, <2>3, TxUpdate
  <2>5. UNCHANGED <<enabled, next_id, feed, latest, leader, counts>>
    BY <1>4 DEF Commit
  <2>6. board' \in [Products -> Rates] /\ publications' \subseteq Publications
    BY <1>4, <1>0 DEF Commit, TypeOK, TxType
  <2>7. rule' \in [Products -> [rev : Nat, active : BOOLEAN]]
    BY <1>4, <1>0 DEF Commit, TypeOK, TxType
  <2>8. /\ row_lock' \in [Products -> Writers \cup {NoOne}]
        /\ rule_lock' \in [Products -> Writers \cup {NoOne}]
    BY <1>4 DEF Commit, TypeOK, Unlocked
  <2> QED BY <2>4, <2>5, <2>6, <2>7, <2>8 DEF TypeOK, feed, counts
<1>5. CASE DeadlockVictim(w)
  <2>1. Rollback({w}) /\ {w} \in SUBSET Writers
    BY <1>5 DEF DeadlockVictim
  <2>2. UNCHANGED <<tables, next_id, feed, latest, leader, counts>>
    BY <1>5, <2>1 DEF DeadlockVictim, Rollback
  <2> QED BY <2>1, <2>2, RollbackTypes DEF TypeOK, tables, feed, counts
<1>6. ASSUME NEW p \in Products, ReadPrevious(w, p) PROVE TypeOK'
  <2> DEFINE t == IF Price(w, p) \in Unpriceable
             THEN [tx[w] EXCEPT !.todo = @ \ {p}]
             ELSE [tx[w] EXCEPT !.pc = "upsert", !.cur = p, !.old = board[p]]
  <2>1. t \in TxType
    BY <1>6, <1>0, PriceIsRate DEF ReadPrevious, TypeOK, TxOK, TxType, Steps
  <2>2. Becomes(w, t)
    BY <1>6 DEF ReadPrevious
  <2>3. /\ t.pc \in {"update", "recompute", "upsert", "insert"} => t.cur \in Products
        /\ t.pc \notin {"update", "recompute"}
    BY <1>6, <1>0 DEF ReadPrevious, TypeOK, TxOK, TxType
  <2> HIDE DEF t
  <2>4. TxOK'
    BY <2>1, <2>2, <2>3, TxUpdate
  <2> QED BY <1>6, <2>4 DEF ReadPrevious, TypeOK, tables, locks, feed, counts
<1>7. ASSUME w \in Replicas, Ingest(w) PROVE TypeOK'
  <2> DEFINE t == IF tx[w].quote > latest[w] /\ tx[w].quote > expired
             THEN [tx[w] EXCEPT !.pc = "rules"] ELSE Idle
  <2>1. t \in TxType
    BY <1>7, <1>0, IdleIsTx DEF Ingest, TypeOK, TxOK, TxType, Steps
  <2>2. Becomes(w, t)
    BY <1>7 DEF Ingest
  <2>3. /\ t.pc \in {"update", "recompute", "upsert", "insert"} => t.cur \in Products
        /\ t.pc \notin {"update", "recompute"}
    BY <1>7, <1>0 DEF Ingest, TypeOK, TxOK, TxType
  <2> HIDE DEF t
  <2>4. TxOK'
    BY <2>1, <2>2, <2>3, TxUpdate
  <2>5. latest' \in [Replicas -> Nat]
    BY <1>7, <1>0 DEF Ingest, TypeOK, TxType
  <2> QED BY <1>7, <2>4, <2>5 DEF Ingest, TypeOK, tables, locks, feed, counts
<1>8. ASSUME w \in Replicas, ReadRules(w) PROVE TypeOK'
  <2> DEFINE t == [tx[w] EXCEPT !.pc = "enabled", !.seen =
                [p \in Products |-> IF rule[p].active THEN rule[p].rev ELSE 0]]
  <2>1. t \in TxType
    BY <1>8, <1>0 DEF ReadRules, TypeOK, TxOK, TxType, Steps
  <2>2. Becomes(w, t)
    BY <1>8 DEF ReadRules
  <2>3. /\ t.pc \in {"update", "recompute", "upsert", "insert"} => t.cur \in Products
        /\ t.pc \notin {"update", "recompute"}
    BY <1>8, <1>0 DEF ReadRules, TypeOK, TxOK, TxType
  <2> HIDE DEF t
  <2>4. TxOK'
    BY <2>1, <2>2, <2>3, TxUpdate
  <2> QED BY <1>8, <2>4 DEF ReadRules, TypeOK, tables, locks, feed, counts
<1>9. ASSUME w \in Requests, Recompute(w) PROVE TypeOK'
  <2> DEFINE t == IF rule[tx[w].cur].active /\ latest[tx[w].host] # 0
                     /\ latest[tx[w].host] > expired
             THEN [tx[w] EXCEPT !.pc = "enabled", !.quote = latest[tx[w].host]]
             ELSE [tx[w] EXCEPT !.pc = "next", !.cur = NoProduct]
  <2>1. t \in TxType
    BY <1>9, <1>0 DEF Recompute, TypeOK, TxOK, TxType, Steps
  <2>2. Becomes(w, t)
    BY <1>9 DEF Recompute
  <2>3. /\ t.pc \in {"update", "recompute", "upsert", "insert"} => t.cur \in Products
        /\ t.pc \notin {"update", "recompute"}
    BY <1>9, <1>0 DEF Recompute, TypeOK, TxOK, TxType
  <2> HIDE DEF t
  <2>4. TxOK'
    BY <2>1, <2>2, <2>3, TxUpdate
  <2> QED BY <1>9, <2>4 DEF Recompute, TypeOK, tables, locks, feed, counts
<1>10. ASSUME w \in Requests, UpdateRule(w) PROVE TypeOK'
  <2> DEFINE p == tx[w].cur
             t == [tx[w] EXCEPT !.pc = "recompute",
                                !.seen[p] = rule[p].rev + 1]
  <2>1. p \in Products
    BY <1>10 DEF UpdateRule, TypeOK, TxOK
  <2> DEFINE seen == [tx[w].seen EXCEPT ![p] = rule[p].rev + 1]
  <2>2. t.cur = p /\ t.host = tx[w].host /\ tx[w].host \in Replicas
    BY <1>0, <1>10 DEF TxType, UpdateRule, TypeOK, TxOK
  <2>6. seen \in [Products -> Nat]
    BY <1>0, <2>1 DEF TypeOK, TxType
  <2>7. t = [tx[w] EXCEPT !.pc = "recompute", !.seen = seen]
    OBVIOUS
  <2> HIDE DEF seen
  <2>8. t \in TxType
    BY <1>0, <2>6, <2>7 DEF TxType, Steps
  <2>3. (Becomes(w, t) \/ Becomes(w, Idle))
    BY <1>10 DEF UpdateRule
  <2> HIDE DEF t
  <2>4. TxOK'
    BY <1>0, <2>1, <2>2, <2>3, <2>8, IdleIsTx, TxUpdate
  <2>5. rule_lock' \in [Products -> Writers \cup {NoOne}]
    BY <1>10 DEF UpdateRule, TypeOK
  <2> QED BY <1>10, <2>4, <2>5 DEF UpdateRule, TypeOK, tables, feed, counts
<1> QED
  BY <1>1, <1>2, <1>3, <1>4, <1>5, <1>6, <1>7, <1>8, <1>9, <1>10 DEF Own

\* Every step keeps the types.
LEMMA TypeStep ==
  ASSUME TypeOK, [Next]_vars
  PROVE  TypeOK'
<1>1. ASSUME Surroundings PROVE TypeOK'
  <2> USE PublicationAssumption DEF TypeOK, TxOK, tables, locks, feed, counts
  <2>1. CASE MarketMoves BY <2>1 DEF MarketMoves
  <2>2. CASE QuoteExpires BY <2>2 DEF QuoteExpires
  <2>3. CASE Handover BY <2>3 DEF Handover
  <2>4. ASSUME NEW p \in Products, SwitchRule(p) PROVE TypeOK'
    BY <2>4 DEF SwitchRule
  <2>5. ASSUME NEW p \in Products, SwitchProduct(p) PROVE TypeOK'
    BY <2>5 DEF SwitchProduct
  <2> QED BY <1>1, <2>1, <2>2, <2>3, <2>4, <2>5 DEF Surroundings
<1>2. ASSUME NEW w \in Writers, Abort(w) PROVE TypeOK'
  <2>1. Rollback({w}) /\ {w} \in SUBSET Writers
    BY <1>2 DEF Abort
  <2>2. UNCHANGED <<tables, next_id, feed, latest, leader, handovers, restarts>>
    BY <1>2 DEF Abort, Rollback
  <2>3. aborts' \in Nat
    BY <1>2 DEF Abort, TypeOK
  <2> QED BY <2>1, <2>2, <2>3, RollbackTypes DEF TypeOK, tables, feed
<1>3. ASSUME NEW r \in Replicas, Restart(r) PROVE TypeOK'
  <2> DEFINE ended == {r} \cup {c \in Requests : tx[c].host = r}
  <2>1. Rollback(ended) /\ ended \in SUBSET Writers
    BY <1>3 DEF Restart, Writers
  <2> HIDE DEF ended
  <2>2. UNCHANGED <<tables, next_id, feed>>
    BY <2>1 DEF Rollback
  <2>3. /\ restarts' \in Nat /\ leader' \in Replicas \cup {NoOne}
        /\ latest' \in [Replicas -> Nat] /\ UNCHANGED <<handovers, aborts>>
    BY <1>3 DEF Restart, TypeOK
  <2> QED BY <2>1, <2>2, <2>3, RollbackTypes DEF TypeOK, tables, feed
<1>4. ASSUME NEW r \in Replicas, Tick(r) PROVE TypeOK'
  <2>1. PICK q \in {x \in (market - Lag)..market : x > 0} :
             Becomes(r, [tx[r] EXCEPT !.pc = "asking", !.quote = q])
    BY <1>4 DEF Tick
  <2> q \in Nat
    BY PublicationAssumption DEF TypeOK
  <2> DEFINE t == [tx[r] EXCEPT !.pc = "asking", !.quote = q]
  <2>2. r \in Writers /\ tx[r] \in TxType
    BY DEF Writers, TypeOK, TxOK
  <2>3. t \in TxType /\ t.pc = "asking"
    BY <2>2 DEF TxType, Steps
  <2>4. TxOK'
    BY <2>1, <2>2, <2>3, TxUpdate
  <2> QED BY <1>4, <2>4 DEF Tick, TypeOK, tables, locks, feed, counts
<1>5. ASSUME NEW c \in Requests, NEW p \in Products, NEW r \in Replicas,
             Submit(c, p, r)
      PROVE TypeOK'
  <2> DEFINE t == [tx[c] EXCEPT !.pc = "update", !.cur = p, !.host = r,
                                !.expected = rule[p].rev]
  <2>1. c \in Writers /\ tx[c] \in TxType
    BY DEF Writers, TypeOK, TxOK
  <2>2. t \in TxType /\ t.cur \in Products /\ t.host \in Replicas
    BY <2>1 DEF TxType, Steps, TypeOK
  <2>3. TxOK'
    BY <1>5, <2>1, <2>2, TxUpdate DEF Submit
  <2> QED BY <1>5, <2>3 DEF Submit, TypeOK, tables, locks, feed, counts
<1>6. CASE UNCHANGED vars
  BY <1>6 DEF vars, TypeOK, TxOK, tables, locks, feed, counts
<1> QED
  BY <1>1, <1>2, <1>3, <1>4, <1>5, <1>6, OwnTypeStep DEF Next, Failure

\* The types of all variables.
THEOREM TypeCorrect == Spec => []TypeOK
<1>1. Init => TypeOK
  BY IdleIsTx, PublicationAssumption DEF Init, TypeOK, TxOK, Rates, NoRate, Idle
<1> QED BY <1>1, TypeStep, PTL DEF Spec

-----------------------------------------------------------------------------
(* The invariant LogInv.                                                   *)

Before == {"idle", "asking", "rules", "update", "recompute", "enabled"}

\* A writer is not affected by a step of another that commits nothing.
LEMMA Bystander ==
  ASSUME NEW v \in Writers, Written(v), tx'[v] = tx[v],
         \A p \in Products : row_lock'[p] = v <=> row_lock[p] = v,
         \A x \in tx[v].rows : x.product \in Products,
         tx[v].pc = "insert" => tx[v].cur \in Products,
         publications' = publications
  PROVE  Written(v)'
BY DEF Written, Price

\* What the types say of the rows of a writer.
LEMMA RowTypes ==
  ASSUME TypeOK, NEW v \in Writers
  PROVE  /\ tx[v] \in TxType
         /\ \A x \in tx[v].rows : x \in Publications
         /\ tx[v].pc = "insert" => tx[v].cur \in Products
BY DEF TypeOK, TxOK, TxType

\* A step that writes nothing, of a writer that has written nothing.
LEMMA WritesNothing ==
  ASSUME LogInv, NEW w \in Writers, NEW t, Becomes(w, t), TypeOK',
         tx[w].pc \in Before, t.rows = {}, t.pc \in Before \cup {"next"},
         UNCHANGED <<publications, next_id, row_lock>>
  PROVE  LogInv'
<1>1. tx'[w] = t /\ \A v \in Writers \ {w} : tx'[v] = tx[v]
  BY DEF LogInv, TypeOK, TxOK, Becomes
<1>2. tx[w].rows = {} /\ \A p \in Products : row_lock[p] # w
  BY DEF LogInv, Written, Before
<1>3. Written(w)'
  BY <1>1, <1>2 DEF Written, Before
<1>4. ASSUME NEW v \in Writers \ {w} PROVE Written(v)'
  BY <1>1, RowTypes, Bystander DEF LogInv, Publications
<1>5. IdsDrawn'
  BY <1>1 DEF LogInv, IdsDrawn
<1> QED BY <1>3, <1>4, <1>5 DEF LogInv

\* A rollback discards the rows and the locks of the same writers.
LEMMA RollbackKeepsInv ==
  ASSUME LogInv, NEW ended \in SUBSET Writers, Rollback(ended), TypeOK'
  PROVE  LogInv'
<1>1. \A v \in Writers : tx'[v] = IF v \in ended THEN Idle ELSE tx[v]
  BY DEF Rollback
<1>2. publications' = publications /\ next_id' = next_id
  BY DEF Rollback, tables
<1>3. \A p \in Products :
        row_lock'[p] = IF row_lock[p] \in ended THEN NoOne ELSE row_lock[p]
  BY DEF Rollback, Unlocked
<1>4. Idle.rows = {} /\ Idle.pc = "idle"
  BY DEF Idle
<1>5. ASSUME NEW v \in Writers PROVE Written(v)'
  <2>1. CASE v \in ended
    <3>1. \A p \in Products : row_lock'[p] # v
      BY <1>3, <2>1, PublicationAssumption
    <3> QED BY <1>1, <1>4, <2>1, <3>1 DEF Written
  <2>2. CASE v \notin ended
    <3>1. \A p \in Products : row_lock'[p] = v <=> row_lock[p] = v
      BY <1>3, <2>2, PublicationAssumption
    <3> QED BY <1>1, <1>2, <2>2, <3>1, RowTypes, Bystander DEF LogInv, Publications
  <2> QED BY <2>1, <2>2
<1>6. IdsDrawn'
  BY <1>1, <1>2, <1>4 DEF LogInv, IdsDrawn
<1> QED BY <1>5, <1>6 DEF LogInv

\* Each step of publish_one keeps the invariant.
LEMMA ReadPreviousKeepsInv ==
  ASSUME LogInv, TypeOK', NEW w \in Writers, NEW p \in Products,
         ReadPrevious(w, p)
  PROVE  LogInv'
<1>1. UNCHANGED <<publications, next_id, row_lock>>
  BY DEF ReadPrevious, tables, locks
<1>2. /\ tx'[w] = IF Price(w, p) \in Unpriceable
                 THEN [tx[w] EXCEPT !.todo = @ \ {p}]
                 ELSE [tx[w] EXCEPT !.pc = "upsert", !.cur = p, !.old = board[p]]
      /\ \A v \in Writers \ {w} : tx'[v] = tx[v]
      /\ tx[w].pc = "next" /\ p \in tx[w].todo
  BY DEF LogInv, TypeOK, TxOK, Becomes, ReadPrevious
<1>3. /\ tx'[w].rows = tx[w].rows /\ tx'[w].staged = tx[w].staged
      /\ tx'[w].todo \subseteq tx[w].todo
      /\ tx'[w].pc = "next" \/ (tx'[w].pc = "upsert" /\ tx'[w].cur \in tx'[w].todo)
  BY <1>2, RowTypes DEF LogInv, TxType
<1>4. Written(w)'
  BY <1>1, <1>2, <1>3 DEF LogInv, Written
<1>5. ASSUME NEW v \in Writers \ {w} PROVE Written(v)'
  BY <1>1, <1>2, RowTypes, Bystander DEF LogInv, Publications
<1>6. IdsDrawn'
  <2>1. \A v \in Writers : tx'[v].rows = tx[v].rows
    BY <1>2, <1>3
  <2> QED BY <1>1, <2>1 DEF LogInv, IdsDrawn
<1> QED BY <1>4, <1>5, <1>6 DEF LogInv

\* The upsert takes the lock of a row that the writer has not written yet.
LEMMA UpsertKeepsInv ==
  ASSUME LogInv, TypeOK', NEW w \in Writers, Upsert(w)
  PROVE  LogInv'
<1> DEFINE p == tx[w].cur
<1>1. p \in Products /\ p \in tx[w].todo
  BY DEF LogInv, TypeOK, TxOK, Written, Upsert
<1>2. /\ UNCHANGED <<publications, next_id>> /\ row_lock[p] = NoOne
      /\ row_lock' = [row_lock EXCEPT ![p] = w]
  BY DEF Upsert, tables
<1>3. /\ tx'[w] = [tx[w] EXCEPT !.pc = "insert", !.staged[p] = Price(w, p)]
      /\ \A v \in Writers \ {w} : tx'[v] = tx[v]
  BY DEF LogInv, TypeOK, TxOK, Becomes, Upsert
<1>4. /\ tx'[w].rows = tx[w].rows /\ tx'[w].todo = tx[w].todo
      /\ tx'[w].pc = "insert" /\ tx'[w].cur = p
      /\ tx'[w].quote = tx[w].quote /\ tx'[w].seen = tx[w].seen
      /\ tx'[w].staged[p] = Price(w, p)
      /\ \A q \in Products \ {p} : tx'[w].staged[q] = tx[w].staged[q]
  BY <1>1, <1>3, RowTypes DEF LogInv, TxType
<1>5. /\ row_lock'[p] = w
      /\ \A q \in Products \ {p} : row_lock'[q] = row_lock[q]
  BY <1>1, <1>2 DEF LogInv, TypeOK
<1>6. Written(w)'
  <2>1. \A x \in tx[w].rows : x.product \in Products \ {p}
    BY <1>1, RowTypes DEF LogInv, Written, Publications
  <2>2. \A x \in tx'[w].rows :
          /\ row_lock'[x.product] = w
          /\ tx'[w].staged[x.product] = x.rate
          /\ x.product \notin tx'[w].todo
          /\ \A y \in tx'[w].rows :
               x.product = y.product \/ x.id = y.id => x = y
          /\ \A y \in publications' :
               y.id # x.id /\ (y.product = x.product => y.id < x.id)
    BY <1>2, <1>4, <1>5, <2>1 DEF LogInv, Written
  <2>3. \A q \in Products :
          row_lock'[q] = w => \/ \E x \in tx'[w].rows : x.product = q
                              \/ tx'[w].pc = "insert" /\ tx'[w].cur = q
    BY <1>4, <1>5 DEF LogInv, Written, Upsert
  <2>4. /\ row_lock'[tx'[w].cur] = w /\ tx'[w].cur \in tx'[w].todo
        /\ tx'[w].staged[tx'[w].cur] =
             [quote |-> tx'[w].quote, rev |-> tx'[w].seen[tx'[w].cur]]
    BY <1>1, <1>4, <1>5 DEF Price
  <2>5. tx'[w].pc = "insert"
    BY <1>4
  <2> HIDE DEF p
  <2> QED BY <2>2, <2>3, <2>4, <2>5 DEF Written, Price
<1>7. ASSUME NEW v \in Writers \ {w} PROVE Written(v)'
  <2>1. \A q \in Products : row_lock'[q] = v <=> row_lock[q] = v
    BY <1>2, <1>5, PublicationAssumption
  <2> QED BY <1>2, <1>3, <2>1, RowTypes, Bystander DEF LogInv, Publications
<1>8. IdsDrawn'
  <2>1. \A v \in Writers : tx'[v].rows = tx[v].rows
    BY <1>3, <1>4
  <2> QED BY <1>2, <2>1 DEF LogInv, IdsDrawn
<1> QED BY <1>6, <1>7, <1>8 DEF LogInv

\* The id is drawn under the lock: it is beyond every committed id, and beyond
\* every id that some other transaction has drawn.
LEMMA InsertKeepsInv ==
  ASSUME LogInv, TypeOK', NEW w \in Writers, Insert(w)
  PROVE  LogInv'
<1> DEFINE p == tx[w].cur
           row == [id |-> next_id, product |-> p, old |-> tx[w].old,
                   rate |-> Price(w, p)]
<1>1. /\ p \in Products /\ p \in tx[w].todo /\ row_lock[p] = w
      /\ tx[w].staged[p] = Price(w, p) /\ next_id \in Nat
  BY DEF LogInv, TypeOK, TxOK, Written, Insert
<1>2. UNCHANGED <<publications, row_lock>> /\ next_id' = next_id + 1
  BY DEF Insert, tables, locks
<1>3. /\ tx'[w] = [tx[w] EXCEPT !.pc = "next", !.cur = NoProduct, !.old = NoRate,
                              !.todo = @ \ {p}, !.rows = @ \cup {row}]
      /\ \A v \in Writers \ {w} : tx'[v] = tx[v]
  BY DEF LogInv, TypeOK, TxOK, Becomes, Insert
<1>4. /\ tx'[w].rows = tx[w].rows \cup {row}
      /\ tx'[w].todo = tx[w].todo \ {p}
      /\ tx'[w].staged = tx[w].staged /\ tx'[w].pc = "next"
  BY <1>3, RowTypes DEF LogInv, TxType
<1>5. /\ \A x \in publications : x.id < next_id /\ x.id \in Nat
      /\ \A v \in Writers : \A x \in tx[v].rows : x.id < next_id /\ x.id \in Nat
  BY RowTypes DEF LogInv, IdsDrawn, TypeOK, Publications
<1>6. row.id = next_id /\ row.product = p /\ row.rate = Price(w, p)
  OBVIOUS
<1> HIDE DEF row
<1>7. Written(w)'
  <2>1. \A x \in tx[w].rows : x.product # p
    BY <1>1 DEF LogInv, Written
  <2>2. ASSUME NEW x \in tx'[w].rows
        PROVE  /\ row_lock'[x.product] = w
               /\ tx'[w].staged[x.product] = x.rate
               /\ x.product \notin tx'[w].todo
               /\ \A y \in tx'[w].rows :
                    x.product = y.product \/ x.id = y.id => x = y
               /\ \A y \in publications' :
                    y.id # x.id /\ (y.product = x.product => y.id < x.id)
    <3>1. CASE x = row
      BY <1>1, <1>2, <1>4, <1>5, <1>6, <2>1, <3>1
    <3>2. CASE x \in tx[w].rows
      BY <1>1, <1>2, <1>4, <1>5, <1>6, <2>1, <3>2 DEF LogInv, Written
    <3> QED BY <1>4, <3>1, <3>2
  <2>3. \A q \in Products :
          row_lock'[q] = w => \E x \in tx'[w].rows : x.product = q
    BY <1>2, <1>4, <1>6 DEF LogInv, Written
  <2> QED BY <1>4, <2>2, <2>3 DEF Written
<1>8. ASSUME NEW v \in Writers \ {w} PROVE Written(v)'
  BY <1>2, <1>3, RowTypes, Bystander DEF LogInv, Publications
<1>9. IdsDrawn'
  <2>1. \A v \in Writers : tx'[v].rows = IF v = w THEN tx[v].rows \cup {row}
                                          ELSE tx[v].rows
    BY <1>3, <1>4
  <2>2. \A x \in publications' : x.id < next_id'
    BY <1>1, <1>2, <1>5
  <2>3. ASSUME NEW v \in Writers, NEW x \in tx'[v].rows PROVE x.id < next_id'
    <3>1. x.id = next_id \/ (x.id \in Nat /\ x.id < next_id)
      BY <1>5, <1>6, <2>1
    <3> QED BY <1>1, <1>2, <3>1
  <2>4. ASSUME NEW u \in Writers, NEW v \in Writers, u # v,
               NEW x \in tx'[u].rows, NEW y \in tx'[v].rows
        PROVE  x.id # y.id
    <3>1. CASE u = w /\ x = row
      <4>1. y.id \in Nat /\ y.id < next_id
        BY <1>5, <2>1, <2>4, <3>1
      <4> QED BY <1>1, <1>6, <3>1, <4>1
    <3>2. CASE v = w /\ y = row
      <4>1. x.id \in Nat /\ x.id < next_id
        BY <1>5, <2>1, <2>4, <3>2
      <4> QED BY <1>1, <1>6, <3>2, <4>1
    <3>3. CASE x \in tx[u].rows /\ y \in tx[v].rows
      BY <2>4, <3>3 DEF LogInv, IdsDrawn
    <3> QED BY <2>1, <3>1, <3>2, <3>3
  <2> QED BY <2>2, <2>3, <2>4 DEF IdsDrawn
<1> QED BY <1>7, <1>8, <1>9 DEF LogInv

\* The rows of a commit are new entries, newer than all others of their
\* products, and their rates are the ones that reach the board.
LEMMA CommitExtendsLog ==
  ASSUME LogInv, NEW w \in Writers, Commit(w)
  PROVE  /\ Log!Publish
         /\ TypeOK' => LogInv'
<1>1. /\ tx[w].pc = "next" /\ tx'[w] = Idle
      /\ \A v \in Writers \ {w} : tx'[v] = tx[v]
  BY DEF LogInv, TypeOK, TxOK, Becomes, Commit, Ready
<1>2. /\ publications' = publications \cup tx[w].rows /\ next_id' = next_id
      /\ \A p \in Products :
           /\ row_lock'[p] = IF row_lock[p] = w THEN NoOne ELSE row_lock[p]
           /\ board'[p] = IF row_lock[p] = w THEN tx[w].staged[p] ELSE board[p]
  BY DEF Commit, Unlocked
<1>3. \A p \in Products : row_lock[p] = w => \E x \in tx[w].rows : x.product = p
  BY <1>1 DEF LogInv, Written
<1>4. \A x \in tx[w].rows :
        /\ x.product \in Products /\ row_lock[x.product] = w
        /\ tx[w].staged[x.product] = x.rate /\ x.id \in Nat
        /\ x \notin publications
  BY RowTypes DEF LogInv, Written, Publications
<1>5. Log!Publish
  <2>1. publications \subseteq publications'
    BY <1>2
  <2>2. ASSUME NEW x \in publications' \ publications, NEW y \in publications'
        PROVE  /\ x.id = y.id => x = y
               /\ x.product = y.product => y.id <= x.id
    <3>1. x \in tx[w].rows
      BY <1>2
    <3>2. CASE y \in tx[w].rows
      BY <1>4, <3>1, <3>2 DEF LogInv, Written
    <3>3. CASE y \in publications
      <4>1. y.id \in Nat /\ x.id \in Nat
        BY <1>4, <3>1, <3>3 DEF LogInv, TypeOK, Publications
      <4> QED BY <3>1, <3>3, <4>1 DEF LogInv, Written
    <3> QED BY <1>2, <3>2, <3>3
  <2>3. ASSUME NEW p \in Products
        PROVE  \/ \E x \in publications' \ publications :
                    x.product = p /\ board'[p] = x.rate
               \/ /\ \A x \in publications' \ publications : x.product # p
                  /\ board'[p] = board[p]
    <3>1. CASE row_lock[p] = w
      <4>1. PICK x \in tx[w].rows : x.product = p
        BY <1>3, <3>1
      <4>2. x \in publications' \ publications /\ board'[p] = x.rate
        BY <1>2, <1>4, <3>1, <4>1
      <4> QED BY <4>1, <4>2
    <3>2. CASE row_lock[p] # w
      BY <1>2, <1>4, <3>2
    <3> QED BY <3>1, <3>2
  <2> QED BY <2>1, <2>2, <2>3 DEF Log!Publish
<1>6. Idle.rows = {} /\ Idle.pc = "idle"
  BY DEF Idle
<1>7. Written(w)'
  <2>1. \A p \in Products : row_lock'[p] # w
    BY <1>2, PublicationAssumption
  <2> QED BY <1>1, <1>6, <2>1 DEF Written
<1>8. ASSUME NEW v \in Writers \ {w} PROVE Written(v)'
  <2>1. \A p \in Products : row_lock'[p] = v <=> row_lock[p] = v
    BY <1>2, PublicationAssumption
  <2>2. tx'[v] = tx[v] /\ tx[v].rows \subseteq Publications
    BY <1>1, RowTypes DEF LogInv
  <2>3. ASSUME NEW x \in tx[v].rows, NEW y \in publications'
        PROVE  y.id # x.id /\ (y.product = x.product => y.id < x.id)
    <3>1. CASE y \in publications
      BY <3>1 DEF LogInv, Written
    <3>2. CASE y \in tx[w].rows
      <4>1. y.id # x.id
        BY <3>2 DEF LogInv, IdsDrawn
      <4>2. y.product # x.product
        BY <1>4, <3>2 DEF LogInv, Written
      <4> QED BY <4>1, <4>2
    <3> QED BY <1>2, <3>1, <3>2
  <2>4. tx[v].pc = "insert" => tx[v].cur \in Products
    BY RowTypes DEF LogInv
  <2>5. Written(v)
    BY DEF LogInv
  <2>6. \A x \in tx[v].rows : x.product \in Products
    BY <2>2 DEF Publications
  <2> QED BY <2>1, <2>2, <2>3, <2>4, <2>5, <2>6 DEF Written, Price
<1>9. IdsDrawn'
  <2>1. \A v \in Writers : tx'[v].rows = IF v = w THEN {} ELSE tx[v].rows
    BY <1>1, <1>6
  <2>2. \A x \in publications' : x.id < next_id'
    BY <1>2 DEF LogInv, IdsDrawn
  <2> QED BY <1>2, <2>1, <2>2 DEF LogInv, IdsDrawn
<1> QED BY <1>5, <1>7, <1>8, <1>9 DEF LogInv

\* Every other step leaves board and log as they are, and keeps LogInv.
LEMMA StepImplementsLog ==
  ASSUME LogInv, [Next]_vars
  PROVE  LogInv' /\ [Log!Publish]_<<board, publications>>
<1>0. TypeOK'
  BY TypeStep DEF LogInv
<1> DEFINE Silent == UNCHANGED <<board, publications>>
<1>1. ASSUME UNCHANGED <<publications, next_id, row_lock, tx>> PROVE LogInv'
  <2>1. \A w \in Writers : Written(w)'
    BY <1>1 DEF LogInv, Written, Price
  <2> QED BY <1>0, <1>1, <2>1 DEF LogInv, IdsDrawn
<1>2. ASSUME Surroundings \/ UNCHANGED vars PROVE LogInv' /\ Silent
  BY <1>1, <1>2 DEF Surroundings, MarketMoves, QuoteExpires, Handover, SwitchRule,
                    SwitchProduct, vars, tables, locks
<1>3. ASSUME NEW w \in Writers, Abort(w) PROVE LogInv' /\ Silent
  <2>1. Rollback({w}) /\ {w} \in SUBSET Writers
    BY <1>3 DEF Abort
  <2> QED BY <1>0, <2>1, RollbackKeepsInv DEF Rollback, tables
<1>4. ASSUME NEW r \in Replicas, Restart(r) PROVE LogInv' /\ Silent
  <2> DEFINE ended == {r} \cup {c \in Requests : tx[c].host = r}
  <2>1. Rollback(ended) /\ ended \in SUBSET Writers
    BY <1>4 DEF Restart, Writers
  <2> HIDE DEF ended
  <2> QED BY <1>0, <2>1, RollbackKeepsInv DEF Rollback, tables
<1>5. ASSUME NEW w \in Writers, tx[w].pc \in Before, NEW t, Becomes(w, t),
             t.rows = {}, t.pc \in Before \cup {"next"},
             UNCHANGED <<tables, next_id, row_lock>>
      PROVE  LogInv' /\ Silent
  BY <1>0, <1>5, WritesNothing DEF tables
<1>6. ASSUME NEW w \in Writers, tx[w].pc \in Before
      PROVE  tx[w] \in TxType /\ tx[w].rows = {}
  BY <1>6, RowTypes DEF LogInv, Written, Before
<1>7. ASSUME NEW r \in Replicas, Tick(r) PROVE LogInv' /\ Silent
  <2>1. PICK q \in {x \in (market - Lag)..market : x > 0} :
             Becomes(r, [tx[r] EXCEPT !.pc = "asking", !.quote = q])
    BY <1>7 DEF Tick
  <2> DEFINE t == [tx[r] EXCEPT !.pc = "asking", !.quote = q]
  <2>2. /\ r \in Writers /\ tx[r].pc \in Before
        /\ UNCHANGED <<tables, next_id, row_lock>>
    BY <1>7 DEF Tick, Before, Writers, locks
  <2>3. t.rows = {} /\ t.pc \in Before
    BY <1>6, <2>2 DEF TxType, Before
  <2> HIDE DEF t
  <2> QED BY <1>5, <2>1, <2>2, <2>3 DEF t
<1>8. ASSUME NEW c \in Requests, NEW p \in Products, NEW r \in Replicas,
             Submit(c, p, r)
      PROVE  LogInv' /\ Silent
  <2> DEFINE t == [tx[c] EXCEPT !.pc = "update", !.cur = p, !.host = r,
                                !.expected = rule[p].rev]
  <2>1. /\ c \in Writers /\ tx[c].pc \in Before /\ Becomes(c, t)
        /\ UNCHANGED <<tables, next_id, row_lock>>
    BY <1>8 DEF Submit, Before, Writers, locks
  <2>2. t.rows = {} /\ t.pc \in Before
    BY <1>6, <2>1 DEF TxType, Before
  <2> HIDE DEF t
  <2> QED BY <1>5, <2>1, <2>2
<1>9. ASSUME NEW w \in Writers, Own(w)
      PROVE  LogInv' /\ [Log!Publish]_<<board, publications>>
  <2>1. CASE ReadEnabled(w)
    <3> DEFINE t == [tx[w] EXCEPT !.pc = "next", !.cur = NoProduct,
                !.todo = {p \in Products : tx[w].seen[p] # 0 /\ enabled[p]}]
    <3>1. /\ tx[w].pc \in Before /\ Becomes(w, t)
          /\ UNCHANGED <<tables, next_id, row_lock>>
      BY <2>1 DEF ReadEnabled, Before, locks
    <3>2. t.rows = {} /\ t.pc \in Before \cup {"next"}
      BY <1>6, <3>1 DEF TxType, Before, Idle
    <3> HIDE DEF t
    <3> QED BY <1>5, <3>1, <3>2
  <2>2. ASSUME w \in Replicas, Ingest(w) PROVE LogInv' /\ Silent
    <3> DEFINE t == IF tx[w].quote > latest[w] /\ tx[w].quote > expired
             THEN [tx[w] EXCEPT !.pc = "rules"] ELSE Idle
    <3>1. /\ tx[w].pc \in Before /\ Becomes(w, t)
          /\ UNCHANGED <<tables, next_id, row_lock>>
      BY <2>2 DEF Ingest, Before, locks
    <3>2. t.rows = {} /\ t.pc \in Before \cup {"next"}
      BY <1>6, <3>1 DEF TxType, Before, Idle
    <3> HIDE DEF t
    <3> QED BY <1>5, <3>1, <3>2
  <2>3. ASSUME w \in Replicas, ReadRules(w) PROVE LogInv' /\ Silent
    <3> DEFINE t == [tx[w] EXCEPT !.pc = "enabled", !.seen =
                [p \in Products |-> IF rule[p].active THEN rule[p].rev ELSE 0]]
    <3>1. /\ tx[w].pc \in Before /\ Becomes(w, t)
          /\ UNCHANGED <<tables, next_id, row_lock>>
      BY <2>3 DEF ReadRules, Before, locks
    <3>2. t.rows = {} /\ t.pc \in Before \cup {"next"}
      BY <1>6, <3>1 DEF TxType, Before, Idle
    <3> HIDE DEF t
    <3> QED BY <1>5, <3>1, <3>2
  <2>4. ASSUME w \in Requests, Recompute(w) PROVE LogInv' /\ Silent
    <3> DEFINE t == IF rule[tx[w].cur].active /\ latest[tx[w].host] # 0
                     /\ latest[tx[w].host] > expired
             THEN [tx[w] EXCEPT !.pc = "enabled", !.quote = latest[tx[w].host]]
             ELSE [tx[w] EXCEPT !.pc = "next", !.cur = NoProduct]
    <3>1. /\ tx[w].pc \in Before /\ Becomes(w, t)
          /\ UNCHANGED <<tables, next_id, row_lock>>
      BY <2>4 DEF Recompute, Before, locks
    <3>2. t.rows = {} /\ t.pc \in Before \cup {"next"}
      BY <1>6, <3>1 DEF TxType, Before, Idle
    <3> HIDE DEF t
    <3> QED BY <1>5, <3>1, <3>2
  <2>5. ASSUME w \in Requests, UpdateRule(w) PROVE LogInv' /\ Silent
    <3> DEFINE t == [tx[w] EXCEPT !.pc = "recompute",
                                  !.seen[tx[w].cur] = rule[tx[w].cur].rev + 1]
    <3>1. /\ tx[w].pc \in Before /\ (Becomes(w, t) \/ Becomes(w, Idle))
          /\ UNCHANGED <<tables, next_id, row_lock>>
      BY <2>5 DEF UpdateRule, Before
    <3>2. /\ t.rows = {} /\ t.pc \in Before
          /\ Idle.rows = {} /\ Idle.pc \in Before
      BY <1>6, <3>1 DEF TxType, Before, Idle
    <3> HIDE DEF t
    <3> QED BY <1>5, <3>1, <3>2
  <2>6. ASSUME NEW p \in Products, ReadPrevious(w, p) PROVE LogInv' /\ Silent
    BY <1>0, <2>6, ReadPreviousKeepsInv DEF ReadPrevious, tables
  <2>7. CASE Upsert(w)
    BY <1>0, <2>7, UpsertKeepsInv DEF Upsert, tables
  <2>8. CASE Insert(w)
    BY <1>0, <2>8, InsertKeepsInv DEF Insert, tables
  <2>9. CASE Commit(w)
    BY <1>0, <2>9, CommitExtendsLog
  <2>10. CASE DeadlockVictim(w)
    <3>1. Rollback({w}) /\ {w} \in SUBSET Writers
      BY <2>10 DEF DeadlockVictim
    <3> QED BY <1>0, <3>1, RollbackKeepsInv DEF Rollback, tables
  <2> QED
    BY <1>9, <2>1, <2>2, <2>3, <2>4, <2>5, <2>6, <2>7, <2>8, <2>9, <2>10 DEF Own
<1> QED
  BY <1>2, <1>3, <1>4, <1>7, <1>8, <1>9 DEF Next, Failure

\* The invariant holds in every reachable state.
THEOREM LogInvariant == Spec => []LogInv
<1>1. Init => LogInv
  <2>1. Init => TypeOK
    BY IdleIsTx, PublicationAssumption DEF Init, TypeOK, TxOK, Rates, NoRate, Idle
  <2>2. Init => IdsDrawn
    BY DEF Init, IdsDrawn, Idle
  <2>3. Init => \A w \in Writers : Written(w)
    BY PublicationAssumption DEF Init, Written, Idle
  <2> QED BY <2>1, <2>2, <2>3 DEF LogInv
<1> QED BY <1>1, StepImplementsLog, PTL DEF Spec

\* The transactions implement the log: every commit appends, in the order of
\* the ids of each product, exactly what becomes visible on the board.
THEOREM PublicationImplementsLog == Spec => ImplementsLog
<1>1. Init => Log!Init
  BY DEF Init, Log!Init, NoRate
<1> QED
  BY <1>1, LogInvariant, StepImplementsLog, PTL DEF Spec, ImplementsLog, Log!Spec

\* One step of the log keeps the current rate the newest one.
LEMMA PublishKeepsNewest ==
  ASSUME Log!CurrentIsNewest, [Log!Publish]_<<board, publications>>
  PROVE  Log!CurrentIsNewest'
<1> SUFFICES ASSUME Log!Publish, NEW p \in Products
             PROVE IF Log!Entries(p)' = {} THEN board'[p] = NoRate
                   ELSE \E x \in Log!Entries(p)' :
                          /\ \A y \in Log!Entries(p)' : y.id <= x.id
                          /\ board'[p] = x.rate
  BY DEF Log!CurrentIsNewest, Log!Entries
<1>1. CASE \E x \in publications' \ publications :
              x.product = p /\ board'[p] = x.rate
  <2>1. PICK x \in publications' \ publications :
               x.product = p /\ board'[p] = x.rate
    BY <1>1
  <2>2. x \in Log!Entries(p)'
    BY <2>1 DEF Log!Entries
  <2>3. \A y \in Log!Entries(p)' : y.id <= x.id
    BY <2>1 DEF Log!Entries, Log!Publish
  <2> QED
    BY <2>1, <2>2, <2>3
<1>2. CASE /\ \A x \in publications' \ publications : x.product # p
           /\ board'[p] = board[p]
  <2>1. Log!Entries(p)' = Log!Entries(p)
    BY <1>2 DEF Log!Entries, Log!Publish
  <2> QED
    BY <2>1, <1>2 DEF Log!CurrentIsNewest
<1> QED
  BY <1>1, <1>2 DEF Log!Publish

\* Of the abstract log alone: the current rate of every product is the one of
\* its newest entry.
THEOREM NewestIsCurrent == Log!Spec => []Log!CurrentIsNewest
<1>1. Log!Init => Log!CurrentIsNewest
  BY DEF Log!Init, Log!CurrentIsNewest, Log!Entries
<1> QED
  BY <1>1, PublishKeepsNewest, PTL DEF Log!Spec

\* The rate a shop shows is the one of its product's newest log entry.
THEOREM BoardIsNewest == Spec => []BoardIsNewestEntry
BY PublicationImplementsLog, NewestIsCurrent, PTL
DEF ImplementsLog, BoardIsNewestEntry

-----------------------------------------------------------------------------
(* The invariant RevInv: which versions of the rules a writer works with.  *)

\* A writer has read committed versions, or its own next one, whose row it has
\* locked; its entries were computed from them.
RulesSeen(w) ==
  /\ \A p \in Products :
       IF rule_lock[p] = w THEN tx[w].seen[p] = rule[p].rev + 1
                           ELSE tx[w].seen[p] <= rule[p].rev
  /\ \A p \in tx[w].todo : tx[w].seen[p] # 0
  /\ \A x \in tx[w].rows :
       x.rate.rev = tx[w].seen[x.product] /\ x.rate.rev # 0
  /\ tx[w].pc \in Before => tx[w].todo = {}
  /\ tx[w].pc \in {"idle", "asking", "rules", "update"} =>
       \A p \in Products : rule_lock[p] # w

RevInv == RatesOfCommittedRules /\ \A w \in Writers : RulesSeen(w)

\* A writer is not affected by the versions that others commit.
LEMMA NewVersions ==
  ASSUME TypeOK, NEW v \in Writers, RulesSeen(v), tx'[v] = tx[v],
         \A p \in Products :
           /\ rule_lock'[p] = v <=> rule_lock[p] = v
           /\ rule'[p].rev \in Nat /\ rule[p].rev <= rule'[p].rev
           /\ rule_lock[p] = v => rule'[p].rev = rule[p].rev
  PROVE  RulesSeen(v)'
<1>1. \A p \in Products : rule[p].rev \in Nat /\ tx[v].seen[p] \in Nat
  BY DEF TypeOK, TxOK, TxType
<1>2. \A p \in Products :
        IF rule_lock'[p] = v THEN tx[v].seen[p] = rule'[p].rev + 1
                             ELSE tx[v].seen[p] <= rule'[p].rev
  BY <1>1 DEF RulesSeen
<1> QED BY <1>2 DEF RulesSeen

\* A step that changes the record of one writer, and no rule.
LEMMA OneRecord ==
  ASSUME LogInv, RevInv, NEW w \in Writers,
         UNCHANGED <<rule, rule_lock, publications>>,
         \A v \in Writers \ {w} : tx'[v] = tx[v],
         RulesSeen(w)'
  PROVE  RevInv'
<1>1. ASSUME NEW v \in Writers \ {w} PROVE RulesSeen(v)'
  BY <1>1 DEF RevInv, RulesSeen
<1> QED BY <1>1 DEF RevInv, RatesOfCommittedRules

\* What the types say of a writer and the rules.
LEMMA RevTypes ==
  ASSUME TypeOK, NEW w \in Writers
  PROVE  /\ tx \in [Writers -> TxType] /\ tx[w] \in TxType /\ w # NoOne
         /\ \A p \in Products : rule[p].rev \in Nat /\ tx[w].seen[p] \in Nat
         /\ tx[w].pc \in {"update", "recompute", "upsert", "insert"}
              => tx[w].cur \in Products
BY PublicationAssumption DEF TypeOK, TxOK, TxType

\* A writer at rest has read nothing.
LEMMA RestKeepsRev ==
  ASSUME TypeOK', NEW w \in Writers, tx'[w] = Idle,
         \A p \in Products : rule_lock'[p] # w
  PROVE  RulesSeen(w)'
<1>1. \A p \in Products : rule'[p].rev \in Nat
  BY DEF TypeOK
<1> QED BY <1>1 DEF RulesSeen, Idle

\* Steps that keep the versions a writer has read.
LEMMA SameVersions ==
  ASSUME LogInv, RevInv, NEW w \in Writers, NEW t \in TxType, Becomes(w, t),
         UNCHANGED <<rule, rule_lock, publications>>,
         t.seen = tx[w].seen,
         \A x \in t.rows : x.rate.rev = t.seen[x.product] /\ x.rate.rev # 0,
         \A p \in t.todo : t.seen[p] # 0,
         t.pc \in Before => t.todo = {},
         t.pc \in {"idle", "asking", "rules", "update"} =>
           tx[w].pc \in {"idle", "asking", "rules", "update"}
  PROVE  RevInv'
<1>1. tx'[w] = t /\ \A v \in Writers \ {w} : tx'[v] = tx[v]
  BY RevTypes DEF Becomes, LogInv
<1>2. RulesSeen(w)'
  BY <1>1 DEF RevInv, RulesSeen
<1> QED BY <1>1, <1>2, OneRecord

LEMMA CommitKeepsRev ==
  ASSUME LogInv, RevInv, NEW w \in Writers, Commit(w), TypeOK'
  PROVE  RevInv'
<1>1. /\ tx'[w] = Idle /\ \A v \in Writers \ {w} : tx'[v] = tx[v]
      /\ publications' = publications \cup tx[w].rows
  BY RevTypes DEF Commit, Becomes, LogInv
<1>2. \A p \in Products :
        /\ rule'[p].rev = IF rule_lock[p] = w THEN tx[w].seen[p] ELSE rule[p].rev
        /\ rule_lock'[p] = IF rule_lock[p] = w THEN NoOne ELSE rule_lock[p]
  BY DEF Commit, Unlocked, LogInv, TypeOK
<1>3. \A p \in Products :
        /\ rule[p].rev \in Nat /\ rule'[p].rev \in Nat
        /\ rule[p].rev <= rule'[p].rev /\ tx[w].seen[p] <= rule'[p].rev
  BY <1>2, RevTypes DEF RevInv, RulesSeen, LogInv
<1>4. ASSUME NEW v \in Writers \ {w} PROVE RulesSeen(v)'
  BY <1>1, <1>2, <1>3, RevTypes, NewVersions DEF RevInv, LogInv
<1>5. RulesSeen(w)'
  BY <1>1, <1>2, RevTypes, RestKeepsRev DEF LogInv
<1>6. ASSUME NEW x \in publications' PROVE x.rate.rev \in 1..rule'[x.product].rev
  <2>1. CASE x \in publications
    <3>1. x.product \in Products /\ x.rate.rev \in 1..rule[x.product].rev
      BY <2>1 DEF RevInv, RatesOfCommittedRules, LogInv, TypeOK, Publications
    <3> QED BY <1>3, <3>1
  <2>2. CASE x \in tx[w].rows
    <3>1. x.product \in Products /\ x.rate.rev \in Nat
      BY <2>2, RowTypes DEF LogInv, Publications, Rates
    <3>2. x.rate.rev = tx[w].seen[x.product] /\ x.rate.rev # 0
      BY <2>2 DEF RevInv, RulesSeen
    <3> QED BY <1>3, <3>1, <3>2
  <2> QED BY <1>1, <1>6, <2>1, <2>2
<1> QED BY <1>4, <1>5, <1>6 DEF RevInv, RatesOfCommittedRules

\* The version is compared and its row locked in one statement.
LEMMA UpdateKeepsRev ==
  ASSUME LogInv, RevInv, NEW c \in Writers, UpdateRule(c), TypeOK'
  PROVE  RevInv'
<1> DEFINE p == tx[c].cur
<1>0. /\ tx[c] \in TxType /\ p \in Products /\ tx[c].pc = "update"
      /\ UNCHANGED <<rule, publications>>
  BY RevTypes DEF LogInv, UpdateRule, tables
<1>1. CASE /\ rule_lock' = [rule_lock EXCEPT ![p] = c]
           /\ Becomes(c, [tx[c] EXCEPT !.pc = "recompute",
                                       !.seen[p] = rule[p].rev + 1])
  <2>1. /\ rule_lock[p] = NoOne /\ rule_lock'[p] = c
        /\ \A q \in Products \ {p} : rule_lock'[q] = rule_lock[q]
    BY <1>0, <1>1 DEF UpdateRule, LogInv, TypeOK
  <2>2. /\ \A v \in Writers \ {c} : tx'[v] = tx[v]
        /\ tx'[c] = [tx[c] EXCEPT !.pc = "recompute",
                                  !.seen[p] = rule[p].rev + 1]
    BY <1>1, RevTypes DEF Becomes, LogInv
  <2>3. /\ tx'[c].pc = "recompute" /\ tx'[c].todo = tx[c].todo
        /\ tx'[c].rows = tx[c].rows /\ tx'[c].seen[p] = rule[p].rev + 1
        /\ \A q \in Products \ {p} : tx'[c].seen[q] = tx[c].seen[q]
    BY <1>0, <2>2 DEF TxType
  <2>4. tx[c].todo = {} /\ tx[c].rows = {}
    BY <1>0 DEF RevInv, RulesSeen, LogInv, Written, Before
  <2>5. RulesSeen(c)'
    BY <1>0, <2>1, <2>3, <2>4 DEF RevInv, RulesSeen
  <2>6. ASSUME NEW v \in Writers \ {c} PROVE RulesSeen(v)'
    BY <1>0, <2>1, <2>2, RevTypes, NewVersions DEF RevInv, LogInv
  <2> QED BY <1>0, <2>5, <2>6 DEF RevInv, RatesOfCommittedRules
<1>2. CASE Becomes(c, Idle) /\ UNCHANGED rule_lock
  <2>1. tx'[c] = Idle /\ \A v \in Writers \ {c} : tx'[v] = tx[v]
    BY <1>2, RevTypes DEF Becomes, LogInv
  <2>2. \A q \in Products : rule_lock'[q] # c
    BY <1>0, <1>2 DEF RevInv, RulesSeen
  <2> QED BY <1>0, <1>2, <2>1, <2>2, RestKeepsRev, OneRecord
<1> QED BY <1>1, <1>2 DEF UpdateRule

LEMMA RollbackKeepsRev ==
  ASSUME LogInv, RevInv, NEW ended \in SUBSET Writers, Rollback(ended), TypeOK'
  PROVE  RevInv'
<1>1. /\ \A v \in Writers : tx'[v] = IF v \in ended THEN Idle ELSE tx[v]
      /\ \A p \in Products :
           rule_lock'[p] = IF rule_lock[p] \in ended THEN NoOne ELSE rule_lock[p]
      /\ UNCHANGED <<rule, publications>>
  BY DEF Rollback, Unlocked, tables
<1>2. ASSUME NEW v \in Writers PROVE RulesSeen(v)'
  <2>1. CASE v \in ended
    BY <1>1, <2>1, RevTypes, RestKeepsRev DEF LogInv
  <2>2. CASE v \notin ended
    BY <1>1, <2>2, RevTypes, NewVersions DEF RevInv, LogInv
  <2> QED BY <2>1, <2>2
<1> QED BY <1>1, <1>2 DEF RevInv, RatesOfCommittedRules

\* create_rule and deactivate_rule wait for whoever has the row.
LEMMA SwitchKeepsRev ==
  ASSUME LogInv, RevInv, NEW p \in Products, SwitchRule(p), TypeOK'
  PROVE  RevInv'
<1>1. /\ rule'[p].rev = rule[p].rev + 1 /\ rule_lock[p] = NoOne
      /\ \A q \in Products \ {p} : rule'[q] = rule[q]
      /\ UNCHANGED <<publications, rule_lock, tx>>
  BY DEF SwitchRule, LogInv, TypeOK, locks
<1>2. \A q \in Products : rule[q].rev \in Nat /\ rule'[q].rev \in Nat
                          /\ rule[q].rev <= rule'[q].rev
  BY <1>1 DEF LogInv, TypeOK
<1>3. ASSUME NEW v \in Writers PROVE RulesSeen(v)'
  BY <1>1, <1>2, RevTypes, NewVersions DEF RevInv, LogInv
<1>4. ASSUME NEW x \in publications PROVE x.rate.rev \in 1..rule'[x.product].rev
  <2>1. x.product \in Products /\ x.rate.rev \in 1..rule[x.product].rev
    BY DEF RevInv, RatesOfCommittedRules, LogInv, TypeOK, Publications
  <2> QED BY <1>2, <2>1
<1> QED BY <1>1, <1>3, <1>4 DEF RevInv, RatesOfCommittedRules

\* The steps of publish_one and its callers.
LEMMA OwnKeepsRev ==
  ASSUME LogInv, RevInv, NEW w \in Writers, Own(w), TypeOK'
  PROVE  RevInv'
<1> USE DEF tables, locks
<1>0. /\ tx[w] \in TxType /\ TypeOK /\ RulesSeen(w) /\ Written(w)
      /\ Idle \in TxType
  BY RevTypes, IdleIsTx DEF LogInv, RevInv
<1>1. CASE ReadEnabled(w)
  <2> DEFINE t == [tx[w] EXCEPT !.pc = "next", !.cur = NoProduct,
                !.todo = {p \in Products : tx[w].seen[p] # 0 /\ enabled[p]}]
  <2>1. t \in TxType
    BY <1>0 DEF TxType, Steps
  <2>2. /\ t.seen = tx[w].seen /\ t.rows = tx[w].rows /\ t.pc = "next"
        /\ \A p \in t.todo : t.seen[p] # 0
    BY <1>0 DEF TxType
  <2>3. Becomes(w, t) /\ UNCHANGED <<rule, rule_lock, publications>>
    BY <1>1 DEF ReadEnabled
  <2> HIDE DEF t
  <2> QED BY <1>0, <2>1, <2>2, <2>3, SameVersions DEF RulesSeen, Before
<1>2. ASSUME NEW p \in Products, ReadPrevious(w, p) PROVE RevInv'
  <2> DEFINE t == IF Price(w, p) \in Unpriceable
             THEN [tx[w] EXCEPT !.todo = @ \ {p}]
             ELSE [tx[w] EXCEPT !.pc = "upsert", !.cur = p, !.old = board[p]]
  <2>1. t \in TxType /\ tx[w].pc = "next"
    BY <1>0, <1>2 DEF TypeOK, TxType, Steps, ReadPrevious
  <2>2. /\ t.seen = tx[w].seen /\ t.rows = tx[w].rows /\ t.pc \in {"next", "upsert"}
        /\ t.todo \subseteq tx[w].todo
    BY <1>0, <2>1 DEF TxType
  <2>3. Becomes(w, t) /\ UNCHANGED <<rule, rule_lock, publications>>
    BY <1>2 DEF ReadPrevious
  <2> HIDE DEF t
  <2> QED BY <1>0, <2>1, <2>2, <2>3, SameVersions DEF RulesSeen, Before
<1>3. CASE Upsert(w)
  <2> DEFINE t == [tx[w] EXCEPT !.pc = "insert", !.staged[tx[w].cur] =
                                  Price(w, tx[w].cur)]
  <2>1. t \in TxType
    BY <1>0, <1>3, PriceIsRate, RevTypes DEF TxType, Steps, Upsert
  <2>2. /\ t.seen = tx[w].seen /\ t.rows = tx[w].rows /\ t.pc = "insert"
        /\ t.todo = tx[w].todo
    BY <1>0 DEF TxType
  <2>3. Becomes(w, t) /\ UNCHANGED <<rule, rule_lock, publications>>
    BY <1>3 DEF Upsert
  <2> HIDE DEF t
  <2> QED BY <1>0, <2>1, <2>2, <2>3, SameVersions DEF RulesSeen, Before
<1>4. CASE Insert(w)
  <2> DEFINE row == [id |-> next_id, product |-> tx[w].cur, old |-> tx[w].old,
                     rate |-> Price(w, tx[w].cur)]
             t == [tx[w] EXCEPT !.pc = "next", !.cur = NoProduct, !.old = NoRate,
                     !.todo = @ \ {tx[w].cur}, !.rows = @ \cup {row}]
  <2>1. tx[w].cur \in Products /\ tx[w].cur \in tx[w].todo
    BY <1>0, <1>4, RevTypes DEF Insert, Written
  <2>2. row \in Publications
    BY <1>0, <2>1, PriceIsRate DEF TypeOK, TxType, Publications
  <2>3. /\ row.product = tx[w].cur /\ row.rate.rev = tx[w].seen[tx[w].cur]
        /\ row.rate.rev # 0
    BY <1>0, <2>1 DEF Price, RulesSeen
  <2>4. Becomes(w, t) /\ UNCHANGED <<rule, rule_lock, publications>>
    BY <1>4 DEF Insert
  <2> HIDE DEF row
  <2>5. t \in TxType
    BY <1>0, <2>2 DEF TxType, Steps, Rates, NoRate
  <2>6. /\ t.seen = tx[w].seen /\ t.pc = "next" /\ t.todo \subseteq tx[w].todo
        /\ t.rows = tx[w].rows \cup {row}
    BY <1>0 DEF TxType
  <2> HIDE DEF t
  <2> QED BY <1>0, <2>3, <2>4, <2>5, <2>6, SameVersions DEF RulesSeen, Before
<1>5. CASE Commit(w)
  BY <1>5, CommitKeepsRev
<1>6. CASE DeadlockVictim(w)
  BY <1>6, RollbackKeepsRev DEF DeadlockVictim
<1>7. ASSUME w \in Replicas, Ingest(w) PROVE RevInv'
  <2>1. /\ tx[w].pc = "asking" /\ UNCHANGED <<rule, rule_lock, publications>>
        /\ Becomes(w, [tx[w] EXCEPT !.pc = "rules"]) \/ Becomes(w, Idle)
    BY <1>7 DEF Ingest
  <2>2. CASE Becomes(w, Idle)
    <3>1. tx'[w] = Idle /\ \A v \in Writers \ {w} : tx'[v] = tx[v]
      BY <2>2, RevTypes, <1>0 DEF Becomes
    <3> QED BY <1>0, <2>1, <3>1, RestKeepsRev, OneRecord DEF RulesSeen
  <2>3. CASE Becomes(w, [tx[w] EXCEPT !.pc = "rules"])
    <3> DEFINE t == [tx[w] EXCEPT !.pc = "rules"]
    <3>1. /\ t \in TxType /\ t.pc = "rules" /\ t.seen = tx[w].seen
          /\ t.rows = tx[w].rows /\ t.todo = tx[w].todo
      BY <1>0 DEF TxType, Steps
    <3> HIDE DEF t
    <3> QED BY <1>0, <2>1, <2>3, <3>1, SameVersions DEF RulesSeen, Before, t
  <2> QED BY <2>1, <2>2, <2>3
<1>8. ASSUME w \in Replicas, ReadRules(w) PROVE RevInv'
  <2>1. /\ tx[w].pc = "rules" /\ UNCHANGED <<rule, rule_lock, publications>>
        /\ \A v \in Writers \ {w} : tx'[v] = tx[v]
        /\ tx'[w] = [tx[w] EXCEPT !.pc = "enabled", !.seen =
                [p \in Products |-> IF rule[p].active THEN rule[p].rev ELSE 0]]
    BY <1>8, RevTypes, <1>0 DEF ReadRules, Becomes
  <2>2. /\ tx'[w].rows = {} /\ tx'[w].todo = {} /\ tx'[w].pc = "enabled"
        /\ \A p \in Products : tx'[w].seen[p] \in {0, rule[p].rev}
    BY <1>0, <2>1 DEF RulesSeen, Written, Before, TxType
  <2>3. \A p \in Products : rule_lock'[p] # w /\ rule[p].rev \in Nat
    BY <1>0, <2>1, RevTypes DEF RulesSeen
  <2>4. RulesSeen(w)'
    BY <2>1, <2>2, <2>3 DEF RulesSeen
  <2> QED BY <2>1, <2>4, OneRecord
<1>9. ASSUME w \in Requests, UpdateRule(w) PROVE RevInv'
  BY <1>9, UpdateKeepsRev
<1>10. ASSUME w \in Requests, Recompute(w) PROVE RevInv'
  <2> DEFINE t == IF rule[tx[w].cur].active /\ latest[tx[w].host] # 0
                     /\ latest[tx[w].host] > expired
             THEN [tx[w] EXCEPT !.pc = "enabled", !.quote = latest[tx[w].host]]
             ELSE [tx[w] EXCEPT !.pc = "next", !.cur = NoProduct]
  <2>1. t \in TxType
    BY <1>0, <1>10 DEF Recompute, TypeOK, TxOK, TxType, Steps
  <2>2. /\ t.seen = tx[w].seen /\ t.rows = tx[w].rows /\ t.todo = tx[w].todo
        /\ t.pc \in {"enabled", "next"}
    BY <1>0 DEF TxType
  <2>3. /\ Becomes(w, t) /\ UNCHANGED <<rule, rule_lock, publications>>
        /\ tx[w].pc \in Before
    BY <1>10 DEF Recompute, Before
  <2> HIDE DEF t
  <2> QED BY <1>0, <2>1, <2>2, <2>3, SameVersions DEF RulesSeen
<1> QED
  BY <1>1, <1>2, <1>3, <1>4, <1>5, <1>6, <1>7, <1>8, <1>9, <1>10 DEF Own

LEMMA StepKeepsRev ==
  ASSUME LogInv, RevInv, [Next]_vars
  PROVE  RevInv'
<1> USE DEF tables, locks
<1>0. TypeOK'
  BY TypeStep DEF LogInv
<1>1. ASSUME UNCHANGED <<rule, rule_lock, publications, tx>> PROVE RevInv'
  <2>1. \A w \in Writers : RulesSeen(w)'
    BY <1>1 DEF RevInv, RulesSeen
  <2> QED BY <1>1, <2>1 DEF RevInv, RatesOfCommittedRules
<1>2. CASE Surroundings \/ UNCHANGED vars
  BY <1>0, <1>1, <1>2, SwitchKeepsRev
  DEF Surroundings, MarketMoves, QuoteExpires, Handover, SwitchProduct, vars
<1>3. ASSUME NEW w \in Writers, Abort(w) PROVE RevInv'
  BY <1>0, <1>3, RollbackKeepsRev DEF Abort
<1>4. ASSUME NEW r \in Replicas, Restart(r) PROVE RevInv'
  <2>1. {r} \cup {c \in Requests : tx[c].host = r} \in SUBSET Writers
    BY DEF Writers
  <2> QED BY <1>0, <1>4, <2>1, RollbackKeepsRev DEF Restart
<1>5. ASSUME NEW w \in Writers, tx[w].pc = "idle", NEW t, Becomes(w, t),
             tx[w] \in TxType => t \in TxType,
             t.pc \in {"asking", "update"}, t.seen = tx[w].seen,
             t.rows = tx[w].rows, t.todo = tx[w].todo,
             UNCHANGED <<rule, rule_lock, publications>>
      PROVE  RevInv'
  <2>1. tx[w] \in TxType /\ RulesSeen(w)
    BY RevTypes DEF LogInv, RevInv
  <2> QED BY <1>5, <2>1, SameVersions DEF RulesSeen, Before
<1>6. ASSUME NEW r \in Replicas, Tick(r) PROVE RevInv'
  <2>1. PICK q \in {x \in (market - Lag)..market : x > 0} :
             Becomes(r, [tx[r] EXCEPT !.pc = "asking", !.quote = q])
    BY <1>6 DEF Tick
  <2>2. q \in Nat /\ r \in Writers /\ tx[r] \in TxType
    BY PublicationAssumption, RevTypes DEF LogInv, TypeOK, Writers
  <2> DEFINE t == [tx[r] EXCEPT !.pc = "asking", !.quote = q]
  <2>3. /\ t \in TxType /\ t.pc = "asking" /\ t.seen = tx[r].seen
        /\ t.rows = tx[r].rows /\ t.todo = tx[r].todo
    BY <2>2 DEF TxType, Steps
  <2>4. Becomes(r, t)
    BY <2>1
  <2> HIDE DEF t
  <2> QED BY <1>5, <1>6, <2>2, <2>3, <2>4 DEF Tick
<1>7. ASSUME NEW c \in Requests, NEW p \in Products, NEW r \in Replicas,
             Submit(c, p, r)
      PROVE  RevInv'
  <2> DEFINE t == [tx[c] EXCEPT !.pc = "update", !.cur = p, !.host = r,
                                !.expected = rule[p].rev]
  <2>1. c \in Writers /\ tx[c] \in TxType /\ rule[p].rev \in Nat
    BY RevTypes DEF LogInv, TypeOK, Writers
  <2>2. /\ t \in TxType /\ t.pc = "update" /\ t.seen = tx[c].seen
        /\ t.rows = tx[c].rows /\ t.todo = tx[c].todo
    BY <2>1 DEF TxType, Steps
  <2>3. Becomes(c, t)
    BY <1>7 DEF Submit
  <2> HIDE DEF t
  <2> QED BY <1>5, <1>7, <2>1, <2>2, <2>3 DEF Submit
<1> QED
  BY <1>0, <1>2, <1>3, <1>4, <1>6, <1>7, OwnKeepsRev DEF Next, Failure

\* No customer ever sees a price of a rule version that did not commit: of a
\* change that lost against another one, timed out or died with its process.
THEOREM OnlyCommittedRules == Spec => []RatesOfCommittedRules
<1>1. Init => RevInv
  BY PublicationAssumption
  DEF Init, RevInv, RatesOfCommittedRules, RulesSeen, Idle
<1>2. LogInv /\ RevInv /\ [Next]_vars => RevInv'
  BY StepKeepsRev
<1>3. RevInv => RatesOfCommittedRules
  BY DEF RevInv
<1> QED BY <1>1, <1>2, <1>3, LogInvariant, PTL DEF Spec

-----------------------------------------------------------------------------
(* Which quote a writer prices with, and what it may replace.              *)

\* A writer is not affected by the steps of the others.
LEMMA OthersKeepAccepted ==
  ASSUME NEW v \in Writers, PricesAccepted(v), tx'[v] = tx[v],
         v \in Replicas => latest'[v] = latest[v],
         \A p \in Products : /\ row_lock'[p] = v => row_lock[p] = v
                             /\ rule_lock[p] = v => rule_lock'[p] = v
  PROVE  PricesAccepted(v)'
BY DEF PricesAccepted, Price

\* A writer at rest holds nothing.
LEMMA RestKeepsAccepted ==
  ASSUME NEW w \in Writers, tx'[w] = Idle, \A p \in Products : row_lock'[p] # w
  PROVE  PricesAccepted(w)'
BY DEF PricesAccepted, Idle

\* A writer that works on keeps its quote, the versions it has read and what it
\* has staged.
LEMMA WorkKeepsAccepted ==
  ASSUME LogInv, AcceptedInv, NEW w \in Writers, NEW t, Becomes(w, t),
         tx[w].pc \notin {"idle", "asking"},
         t.quote = tx[w].quote, t.seen = tx[w].seen, t.staged = tx[w].staged,
         UNCHANGED <<locks, latest>>
  PROVE  AcceptedInv'
<1>1. tx'[w] = t /\ \A v \in Writers \ {w} : tx'[v] = tx[v]
  BY RevTypes DEF Becomes, LogInv
<1>2. PricesAccepted(w)'
  BY <1>1 DEF AcceptedInv, PricesAccepted, Price, locks
<1>3. ASSUME NEW v \in Writers \ {w} PROVE PricesAccepted(v)'
  BY <1>1, OthersKeepAccepted DEF AcceptedInv, locks
<1> QED BY <1>2, <1>3 DEF AcceptedInv

LEMMA RollbackKeepsAccepted ==
  ASSUME LogInv, AcceptedInv, NEW ended \in SUBSET Writers, Rollback(ended),
         \A r \in Replicas \ ended : latest'[r] = latest[r]
  PROVE  AcceptedInv'
<1>1. /\ \A v \in Writers : tx'[v] = IF v \in ended THEN Idle ELSE tx[v]
      /\ \A p \in Products :
           /\ row_lock'[p] = IF row_lock[p] \in ended THEN NoOne ELSE row_lock[p]
           /\ rule_lock'[p] = IF rule_lock[p] \in ended THEN NoOne ELSE rule_lock[p]
  BY DEF Rollback, Unlocked
<1>2. ASSUME NEW v \in Writers PROVE PricesAccepted(v)'
  <2>1. CASE v \in ended
    BY <1>1, <2>1, RevTypes, RestKeepsAccepted DEF LogInv
  <2>2. CASE v \notin ended
    BY <1>1, <2>2, RevTypes, OthersKeepAccepted DEF AcceptedInv, LogInv
  <2> QED BY <2>1, <2>2
<1> QED BY <1>2 DEF AcceptedInv

\* A request has a row of a product only while it holds the product's rule.
LEMMA RowUnderRule ==
  ASSUME LogInv, RevInv, AcceptedInv, NEW c \in Requests, NEW p \in Products,
         row_lock[p] = c
  PROVE  rule_lock[p] = c
<1>1. c \in Writers /\ tx[c] \in TxType
  BY RevTypes DEF Writers, LogInv
<1>2. tx[c].seen[p] # 0
  <2>1. CASE \E x \in tx[c].rows : x.product = p
    BY <1>1, <2>1 DEF RevInv, RulesSeen
  <2>2. CASE tx[c].pc = "insert" /\ tx[c].cur = p
    BY <1>1, <2>2 DEF LogInv, Written, RevInv, RulesSeen
  <2> QED BY <1>1, <2>1, <2>2 DEF LogInv, Written
<1> QED BY <1>1, <1>2 DEF AcceptedInv, PricesAccepted

\* The rate on the board is of a committed version.
LEMMA BoardVersions ==
  ASSUME LogInv, RevInv, BoardIsNewestEntry, NEW p \in Products
  PROVE  /\ board[p] \in Rates /\ rule[p].rev \in Nat
         /\ board[p].rev <= rule[p].rev
<1>1. board[p] \in Rates /\ rule[p].rev \in Nat
  BY DEF LogInv, TypeOK
<1>2. CASE Log!Entries(p) = {}
  BY <1>1, <1>2 DEF BoardIsNewestEntry, Log!CurrentIsNewest, NoRate
<1>3. CASE Log!Entries(p) # {}
  <2>1. PICK x \in Log!Entries(p) : board[p] = x.rate
    BY <1>3 DEF BoardIsNewestEntry, Log!CurrentIsNewest
  <2>2. x \in publications /\ x.product = p
    BY DEF Log!Entries
  <2> QED BY <1>1, <2>1, <2>2 DEF RevInv, RatesOfCommittedRules
<1> QED BY <1>2, <1>3

\* What a commit may put in the place of the price of a newer quote.
LEMMA CommitTakesBack ==
  ASSUME LogInv, RevInv, AcceptedInv, BoardIsNewestEntry,
         NEW w \in Writers, Commit(w),
         NEW p \in Products, board'[p].quote < board[p].quote
  PROVE  \/ board'[p].rev > board[p].rev
         \/ \E r \in Replicas : row_lock[p] = r /\ latest[r] < board[p].quote
<1>1. tx[w].pc = "next" /\ tx[w] \in TxType
  BY RevTypes DEF Commit, Ready, LogInv
<1>2. board[p] \in Rates
  BY BoardVersions
<1>3. row_lock[p] = w /\ board'[p] = tx[w].staged[p]
  <2>1. board'[p] = IF row_lock[p] = w THEN tx[w].staged[p] ELSE board[p]
    BY DEF Commit
  <2>2. board[p].quote \in Nat
    BY <1>2 DEF Rates
  <2> QED BY <2>1, <2>2
<1>4. board'[p].quote = tx[w].quote /\ board'[p].rev = tx[w].seen[p]
  <2>1. tx[w].staged[p] = Price(w, p)
    BY <1>3 DEF AcceptedInv, PricesAccepted
  <2> QED BY <1>3, <2>1 DEF Price
<1>5. CASE w \in Replicas
  BY <1>1, <1>3, <1>4, <1>5 DEF AcceptedInv, PricesAccepted
<1>6. CASE w \in Requests
  <2>1. rule_lock[p] = w
    BY <1>3, <1>6, RowUnderRule
  <2>2. tx[w].seen[p] = rule[p].rev + 1
    BY <2>1 DEF RevInv, RulesSeen
  <2>3. board[p].rev \in Nat /\ rule[p].rev \in Nat /\ board[p].rev <= rule[p].rev
    BY BoardVersions DEF Rates
  <2> QED BY <1>4, <2>2, <2>3
<1> QED BY <1>5, <1>6 DEF Writers

\* The steps of a writer, and what they leave on the board.
LEMMA OwnKeepsAccepted ==
  ASSUME LogInv, RevInv, AcceptedInv, NEW w \in Writers, Own(w)
  PROVE  AcceptedInv' /\ (Commit(w) \/ UNCHANGED board)
<1> USE DEF tables, locks
<1>0. /\ tx[w] \in TxType /\ tx \in [Writers -> TxType] /\ w # NoOne
      /\ row_lock \in [Products -> Writers \cup {NoOne}]
      /\ rule_lock \in [Products -> Writers \cup {NoOne}]
      /\ RulesSeen(w) /\ Written(w)
  BY RevTypes DEF LogInv, RevInv, TypeOK
<1>1. CASE Commit(w)
  <2>1. /\ tx'[w] = Idle /\ \A v \in Writers \ {w} : tx'[v] = tx[v]
        /\ UNCHANGED latest
        /\ \A p \in Products :
             /\ row_lock'[p] = IF row_lock[p] = w THEN NoOne ELSE row_lock[p]
             /\ rule_lock'[p] = IF rule_lock[p] = w THEN NoOne ELSE rule_lock[p]
    BY <1>0, <1>1 DEF Commit, Becomes, Unlocked
  <2>2. PricesAccepted(w)'
    BY <1>0, <2>1, RestKeepsAccepted
  <2>3. ASSUME NEW v \in Writers \ {w} PROVE PricesAccepted(v)'
    BY <2>1, RevTypes, OthersKeepAccepted DEF AcceptedInv, LogInv
  <2> QED BY <1>1, <2>2, <2>3 DEF AcceptedInv
<1>2. CASE DeadlockVictim(w)
  BY <1>2, RollbackKeepsAccepted DEF DeadlockVictim, Rollback
<1>3. CASE Upsert(w)
  <2> DEFINE p == tx[w].cur
  <2>1. /\ UNCHANGED <<board, rule_lock, latest>> /\ tx[w].pc = "upsert"
        /\ p \in Products /\ row_lock' = [row_lock EXCEPT ![p] = w]
        /\ tx'[w] = [tx[w] EXCEPT !.pc = "insert", !.staged[p] = Price(w, p)]
        /\ \A v \in Writers \ {w} : tx'[v] = tx[v]
    BY <1>0, <1>3, RevTypes DEF Upsert, Becomes, LogInv
  <2>2. /\ tx'[w].quote = tx[w].quote /\ tx'[w].seen = tx[w].seen
        /\ tx'[w].pc = "insert"
        /\ tx'[w].staged = [tx[w].staged EXCEPT ![p] = Price(w, p)]
        /\ tx[w].staged \in [Products -> Rates]
    BY <1>0, <2>1 DEF TxType
  <2>3. PricesAccepted(w)'
    BY <1>0, <2>1, <2>2 DEF AcceptedInv, PricesAccepted, Price
  <2>4. ASSUME NEW v \in Writers \ {w} PROVE PricesAccepted(v)'
    BY <1>0, <2>1, OthersKeepAccepted DEF AcceptedInv
  <2> QED BY <2>1, <2>3, <2>4 DEF AcceptedInv
<1>4. CASE Insert(w)
  <2> DEFINE row == [id |-> next_id, product |-> tx[w].cur, old |-> tx[w].old,
                     rate |-> Price(w, tx[w].cur)]
             t == [tx[w] EXCEPT !.pc = "next", !.cur = NoProduct, !.old = NoRate,
                     !.todo = @ \ {tx[w].cur}, !.rows = @ \cup {row}]
  <2>1. /\ t.quote = tx[w].quote /\ t.staged = tx[w].staged
        /\ t.seen = tx[w].seen /\ Becomes(w, t)
    BY <1>0, <1>4 DEF TxType, Insert
  <2> HIDE DEF t
  <2> QED BY <1>4, <2>1, WorkKeepsAccepted DEF Insert
<1>5. ASSUME NEW p \in Products, ReadPrevious(w, p)
      PROVE  AcceptedInv' /\ UNCHANGED board
  <2> DEFINE t == IF Price(w, p) \in Unpriceable
                  THEN [tx[w] EXCEPT !.todo = @ \ {p}]
                  ELSE [tx[w] EXCEPT !.pc = "upsert", !.cur = p, !.old = board[p]]
  <2>1. /\ t.quote = tx[w].quote /\ t.staged = tx[w].staged
        /\ t.seen = tx[w].seen /\ Becomes(w, t)
    BY <1>0, <1>5 DEF TxType, ReadPrevious
  <2> HIDE DEF t
  <2> QED BY <1>5, <2>1, WorkKeepsAccepted DEF ReadPrevious
<1>6. CASE ReadEnabled(w)
  <2> DEFINE t == [tx[w] EXCEPT !.pc = "next", !.cur = NoProduct,
                !.todo = {p \in Products : tx[w].seen[p] # 0 /\ enabled[p]}]
  <2>1. /\ t.quote = tx[w].quote /\ t.staged = tx[w].staged
        /\ t.seen = tx[w].seen /\ Becomes(w, t)
    BY <1>0, <1>6 DEF TxType, ReadEnabled
  <2> HIDE DEF t
  <2> QED BY <1>6, <2>1, WorkKeepsAccepted DEF ReadEnabled
<1>7. ASSUME NEW t, Becomes(w, t), \A p \in Products : row_lock[p] # w,
             w \in Replicas /\ t.pc \notin {"idle", "asking"} => t.quote = latest'[w],
             w \in Requests => \A p \in Products :
                                 t.seen[p] # 0 => rule_lock'[p] = w,
             UNCHANGED <<board, row_lock>>,
             \A r \in Replicas \ {w} : latest'[r] = latest[r],
             \A v \in Writers \ {w}, p \in Products :
                rule_lock[p] = v => rule_lock'[p] = v
      PROVE  AcceptedInv' /\ UNCHANGED board
  <2>1. tx'[w] = t /\ \A v \in Writers \ {w} : tx'[v] = tx[v]
    BY <1>0, <1>7 DEF Becomes
  <2>2. PricesAccepted(w)'
    BY <1>7, <2>1 DEF PricesAccepted
  <2>3. ASSUME NEW v \in Writers \ {w} PROVE PricesAccepted(v)'
    BY <1>7, <2>1, OthersKeepAccepted DEF AcceptedInv
  <2> QED BY <1>7, <2>2, <2>3 DEF AcceptedInv
<1>8. tx[w].pc \in Before => \A p \in Products : row_lock[p] # w
  BY <1>0 DEF Written, Before
<1>9. CASE w \in Replicas /\ Ingest(w)
  <2>1. /\ tx[w].pc = "asking" /\ UNCHANGED <<board, locks>> /\ w \notin Requests
        /\ latest \in [Replicas -> Nat]
    BY <1>9, PublicationAssumption DEF Ingest, LogInv, TypeOK
  <2>2. CASE /\ tx[w].quote > latest[w]
             /\ latest' = [latest EXCEPT ![w] = tx[w].quote]
             /\ Becomes(w, [tx[w] EXCEPT !.pc = "rules"])
    <3> DEFINE t == [tx[w] EXCEPT !.pc = "rules"]
    <3>1. t.quote = latest'[w] /\ Becomes(w, t)
      BY <1>0, <1>9, <2>1, <2>2 DEF TxType
    <3> HIDE DEF t
    <3> QED BY <1>7, <1>8, <2>1, <2>2, <3>1 DEF Before
  <2>3. CASE Becomes(w, Idle)
    <3>1. Idle.pc = "idle" /\ \A r \in Replicas \ {w} : latest'[r] = latest[r]
      BY <1>9, <2>1 DEF Ingest, Idle
    <3> QED BY <1>7, <1>8, <2>1, <2>3, <3>1 DEF Before
  <2> QED BY <1>9, <2>2, <2>3 DEF Ingest
<1>10. CASE w \in Replicas /\ ReadRules(w)
  <2> DEFINE t == [tx[w] EXCEPT !.pc = "enabled", !.seen =
                [p \in Products |-> IF rule[p].active THEN rule[p].rev ELSE 0]]
  <2>1. t.quote = tx[w].quote /\ Becomes(w, t) /\ tx[w].pc = "rules"
    BY <1>0, <1>10 DEF TxType, ReadRules
  <2> HIDE DEF t
  <2>2. tx[w].quote = latest'[w] /\ w \notin Requests
        /\ UNCHANGED <<board, locks, latest>>
    BY <1>10, <2>1, PublicationAssumption DEF AcceptedInv, PricesAccepted, ReadRules
  <2> QED BY <1>7, <1>8, <2>1, <2>2 DEF Before
<1>11. CASE w \in Requests /\ UpdateRule(w)
  <2> DEFINE p == tx[w].cur
  <2>1. /\ tx[w].pc = "update" /\ UNCHANGED <<board, row_lock, latest>>
        /\ w \notin Replicas /\ p \in Products /\ rule_lock[p] = NoOne
    BY <1>11, RevTypes, PublicationAssumption DEF UpdateRule, LogInv
  <2>2. CASE /\ rule_lock' = [rule_lock EXCEPT ![p] = w]
             /\ Becomes(w, [tx[w] EXCEPT !.pc = "recompute",
                                         !.seen[p] = rule[p].rev + 1])
    <3> DEFINE t == [tx[w] EXCEPT !.pc = "recompute", !.seen[p] = rule[p].rev + 1]
    <3>1. /\ Becomes(w, t) /\ tx[w].seen \in [Products -> Nat]
          /\ t.seen = [tx[w].seen EXCEPT ![p] = rule[p].rev + 1]
      BY <1>0, <2>2 DEF TxType
    <3> HIDE DEF t
    <3>2. \A q \in Products : t.seen[q] # 0 => rule_lock'[q] = w
      BY <1>0, <1>11, <2>1, <2>2, <3>1 DEF AcceptedInv, PricesAccepted
    <3>3. \A v \in Writers \ {w}, q \in Products :
            rule_lock[q] = v => rule_lock'[q] = v
      BY <1>0, <2>1, <2>2, RevTypes DEF LogInv
    <3> QED BY <1>7, <1>8, <2>1, <3>1, <3>2, <3>3 DEF Before
  <2>3. CASE Becomes(w, Idle) /\ UNCHANGED rule_lock
    <3>1. Idle.pc = "idle" /\ \A q \in Products : Idle.seen[q] = 0
      BY DEF Idle
    <3> QED BY <1>7, <1>8, <2>1, <2>3, <3>1 DEF Before
  <2> QED BY <1>11, <2>2, <2>3 DEF UpdateRule
<1>12. CASE w \in Requests /\ Recompute(w)
  <2> DEFINE t == IF rule[tx[w].cur].active /\ latest[tx[w].host] # 0
                     /\ latest[tx[w].host] > expired
             THEN [tx[w] EXCEPT !.pc = "enabled", !.quote = latest[tx[w].host]]
             ELSE [tx[w] EXCEPT !.pc = "next", !.cur = NoProduct]
  <2>1. /\ t.seen = tx[w].seen /\ Becomes(w, t) /\ tx[w].pc = "recompute"
        /\ UNCHANGED <<board, locks, latest>> /\ w \notin Replicas
    BY <1>0, <1>12, PublicationAssumption DEF TxType, Recompute
  <2> HIDE DEF t
  <2> QED BY <1>7, <1>8, <1>12, <2>1 DEF Before, AcceptedInv, PricesAccepted
<1> QED BY <1>1, <1>2, <1>3, <1>4, <1>5, <1>6, <1>9, <1>10, <1>11, <1>12
        DEF Own, DeadlockVictim, Rollback, Upsert, Insert, ReadEnabled

LEMMA StepKeepsAccepted ==
  ASSUME LogInv, RevInv, AcceptedInv, [Next]_vars
  PROVE  /\ AcceptedInv'
         /\ UNCHANGED board \/ \E w \in Writers : Commit(w)
<1> USE DEF tables, locks, feed, counts
<1>1. CASE Surroundings \/ UNCHANGED vars
  <2>1. UNCHANGED <<board, locks, latest, tx>>
    BY <1>1 DEF Surroundings, MarketMoves, QuoteExpires, Handover,
       SwitchRule, SwitchProduct, vars
  <2> QED BY <2>1, OthersKeepAccepted DEF AcceptedInv
<1>2. ASSUME NEW w \in Writers, Abort(w) PROVE AcceptedInv' /\ UNCHANGED board
  BY <1>2, RollbackKeepsAccepted DEF Abort, Rollback
<1>3. ASSUME NEW r \in Replicas, Restart(r) PROVE AcceptedInv' /\ UNCHANGED board
  <2>1. /\ {r} \cup {c \in Requests : tx[c].host = r} \in SUBSET Writers
        /\ \A s \in Replicas \ {r} : latest'[s] = latest[s]
    BY <1>3 DEF Writers, Restart, LogInv, TypeOK
  <2> QED BY <1>3, <2>1, RollbackKeepsAccepted DEF Restart, Rollback
<1>4. ASSUME NEW w \in Writers, NEW t, Becomes(w, t), tx[w].pc = "idle",
             t.pc \in {"asking", "update"}, t.seen = tx[w].seen,
             UNCHANGED <<board, locks, latest>>,
             w \in Replicas => t.pc = "asking"
      PROVE  AcceptedInv' /\ UNCHANGED board
  <2>1. tx'[w] = t /\ \A v \in Writers \ {w} : tx'[v] = tx[v]
    BY <1>4, RevTypes DEF Becomes, LogInv
  <2>2. \A p \in Products : row_lock[p] # w
    BY <1>4 DEF LogInv, Written
  <2>3. PricesAccepted(w)'
    BY <1>4, <2>1, <2>2 DEF AcceptedInv, PricesAccepted
  <2>4. ASSUME NEW v \in Writers \ {w} PROVE PricesAccepted(v)'
    BY <1>4, <2>1, OthersKeepAccepted DEF AcceptedInv
  <2> QED BY <1>4, <2>3, <2>4 DEF AcceptedInv
<1>5. ASSUME NEW r \in Replicas, Tick(r) PROVE AcceptedInv' /\ UNCHANGED board
  <2>1. PICK q : Becomes(r, [tx[r] EXCEPT !.pc = "asking", !.quote = q])
    BY <1>5 DEF Tick
  <2> DEFINE t == [tx[r] EXCEPT !.pc = "asking", !.quote = q]
  <2>2. r \in Writers /\ t.pc = "asking" /\ t.seen = tx[r].seen /\ Becomes(r, t)
    BY <2>1, RevTypes DEF TxType, Writers, LogInv
  <2> HIDE DEF t
  <2> QED BY <1>4, <1>5, <2>2 DEF Tick
<1>6. ASSUME NEW c \in Requests, NEW p \in Products, NEW r \in Replicas,
             Submit(c, p, r)
      PROVE  AcceptedInv' /\ UNCHANGED board
  <2> DEFINE t == [tx[c] EXCEPT !.pc = "update", !.cur = p, !.host = r,
                                !.expected = rule[p].rev]
  <2>1. /\ c \in Writers /\ c \notin Replicas /\ t.pc = "update"
        /\ t.seen = tx[c].seen /\ Becomes(c, t)
    BY <1>6, RevTypes, PublicationAssumption DEF TxType, Writers, Submit, LogInv
  <2> HIDE DEF t
  <2> QED BY <1>4, <1>6, <2>1 DEF Submit
<1> QED BY <1>1, <1>2, <1>3, <1>5, <1>6, OwnKeepsAccepted DEF Next, Failure

\* However the polls of any number of replicas and any number of rule changes
\* overlap, the price of an older quote replaces that of a newer one only
\* together with a newer version of the rule, or by the poll of a replica whose
\* stream has accepted nothing as new.
THEOREM NoReplicaTakesBack == Spec => NobodyTakesBackKnowingly
<1>1. Init => RevInv /\ AcceptedInv
  BY PublicationAssumption
  DEF Init, RevInv, RatesOfCommittedRules, RulesSeen, AcceptedInv, PricesAccepted,
      Idle, Writers
<1>2. LogInv /\ RevInv /\ AcceptedInv /\ [Next]_vars => RevInv' /\ AcceptedInv'
  BY StepKeepsRev, StepKeepsAccepted
<1>3. LogInv /\ RevInv /\ AcceptedInv /\ BoardIsNewestEntry /\ [Next]_vars =>
        [\A p \in Products : board'[p].quote < board[p].quote =>
           \/ board'[p].rev > board[p].rev
           \/ \E r \in Replicas : row_lock[p] = r /\ latest[r] < board[p].quote]_vars
  <2> SUFFICES ASSUME LogInv, RevInv, AcceptedInv, BoardIsNewestEntry, [Next]_vars,
                      NEW p \in Products, board'[p].quote < board[p].quote
               PROVE  \/ board'[p].rev > board[p].rev
                      \/ \E r \in Replicas :
                           row_lock[p] = r /\ latest[r] < board[p].quote
    OBVIOUS
  <2>1. board[p].quote \in Nat
    BY DEF LogInv, TypeOK, Rates
  <2>2. PICK w \in Writers : Commit(w)
    BY <2>1, StepKeepsAccepted
  <2> QED BY <2>2, CommitTakesBack
<1> QED BY <1>1, <1>2, <1>3, LogInvariant, BoardIsNewest, PTL
    DEF Spec, NobodyTakesBackKnowingly
=============================================================================
