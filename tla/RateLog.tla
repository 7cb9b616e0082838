------------------------------- MODULE RateLog -------------------------------
(***************************************************************************)
(* What publication promises its readers: a current rate per product       *)
(* (published_rates) and a log of publications (rate_publication_outbox    *)
(* and rate_update_events).  The log only grows; for each product it is in *)
(* the order of its ids; and the current rate is the one of the product's  *)
(* newest entry.  Publisher and browser rely on nothing else.              *)
(***************************************************************************)
EXTENDS Integers

CONSTANTS Products, NoRate

VARIABLES current, log

Entries(p) == {x \in log : x.product = p}

Init ==
  /\ current = [p \in Products |-> NoRate]
  /\ log = {}

\* Some transaction commits: at most one new entry per product, each with an
\* id of its own, beyond every earlier id of its product.
Publish ==
  /\ log \subseteq log'
  /\ \A x \in log' \ log, y \in log' :
        /\ x.id = y.id => x = y
        /\ x.product = y.product => y.id <= x.id
  /\ \A p \in Products :
        \/ \E x \in log' \ log : x.product = p /\ current'[p] = x.rate
        \/ /\ \A x \in log' \ log : x.product # p
           /\ current'[p] = current[p]

Spec == Init /\ [][Publish]_<<current, log>>

\* The current rate is the one of the newest entry.
CurrentIsNewest ==
  \A p \in Products :
    IF Entries(p) = {} THEN current[p] = NoRate
    ELSE \E x \in Entries(p) : /\ \A y \in Entries(p) : y.id <= x.id
                               /\ current[p] = x.rate
=============================================================================
