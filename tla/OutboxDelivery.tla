--------------------------- MODULE OutboxDelivery ---------------------------
(***************************************************************************)
(* From the committed log to the customer's page: the outbox publisher     *)
(* (modules/publication/outbox_publisher.ts and its SQL functions), the    *)
(* shop's Redis channel (realtime/rate_channel.ts), and the browser        *)
(* (web useRateStream, LiveRates).                                         *)
(*                                                                         *)
(* One shop, hence one channel.  Its writers are any steps of RateLog,     *)
(* which RatePublication implements; a rate is named by its entry's id.    *)
(* A drainer is one activity that runs drain(): the loop of a replica, or  *)
(* the last drain of its shutdown, which does not wait for the loop.       *)
(***************************************************************************)
EXTENDS Integers, FiniteSets, Sequences

CONSTANTS
  Products,
  Drainers,       \* activities that run drain()
  Pages,          \* open browser tabs
  BatchSize,      \* batch_size
  MaxId,          \* bound: ids of the log
  MaxFailures,    \* bound: failed calls and crashes of drainers
  MaxDrops        \* bound: connections of pages that break

ASSUME DeliveryAssumption ==
  /\ BatchSize \in Nat \ {0}
  /\ MaxId \in Nat /\ MaxFailures \in Nat /\ MaxDrops \in Nat

VARIABLES
  current,     \* published_rates
  log,         \* the rows of rate_publication_outbox
  delivered,   \* ids of the rows with a delivered_at
  step,        \* where drain() stands
  batch,       \* the rows it has selected and not sent
  sent,        \* the ids it has sent
  published,   \* ids that have been on the channel
  last_event,  \* per product, the id of the newest event on the channel, or 0
  page,        \* the browser tabs
  failures, drops,
  overlapped   \* history: a pass of drain() has started while another one ran

database == <<current, log>>
drainers == <<step, batch, sent>>
channel  == <<published, last_event>>
counts   == <<failures, drops, overlapped>>
vars     == <<database, delivered, drainers, channel, page, counts>>

Entries == [id : Nat, product : Products, rate : Nat]

TypeOK ==
  /\ current \in [Products -> Nat]
  /\ log \subseteq Entries
  /\ delivered \subseteq Nat
  /\ step \in [Drainers -> {"waiting", "sending", "marking"}]
  /\ batch \in [Drainers -> SUBSET Entries]
  /\ sent \in [Drainers -> SUBSET Nat]
  /\ published \subseteq Nat
  /\ last_event \in [Products -> Nat]
  /\ page \in [Pages -> [at : {"away", "loaded", "open", "dropped"},
                         shown : [Products -> Nat], pipe : Seq(Entries),
                         missed : SUBSET Products]]
  /\ failures \in Nat /\ drops \in Nat
  /\ overlapped \in BOOLEAN

\* A tab shows the products it was loaded with (the others have 0), the events
\* on their way to it are in its pipe, and `missed' holds the products of which
\* the last event on the channel has not reached it and will not.
Away == [at |-> "away", shown |-> [p \in Products |-> 0], pipe |-> <<>>,
         missed |-> {}]

Init ==
  /\ current = [p \in Products |-> 0]
  /\ log = {}
  /\ delivered = {}
  /\ step = [d \in Drainers |-> "waiting"]
  /\ batch = [d \in Drainers |-> {}]
  /\ sent = [d \in Drainers |-> {}]
  /\ published = {}
  /\ last_event = [p \in Products |-> 0]
  /\ page = [b \in Pages |-> Away]
  /\ failures = 0 /\ drops = 0
  /\ overlapped = FALSE

-----------------------------------------------------------------------------
(* The writers: a transaction prices some products and commits, with ids   *)
(* of any size that the log allows, since those of other products that are *)
(* not yet committed, or never will be, are drawn in between.              *)
(* Operators named X_... are faulty variants of X.                         *)

Log == INSTANCE RateLog WITH NoRate <- 0

Writing ==
  \E priced \in SUBSET Products : \E id \in [priced -> 1..MaxId] :
    /\ log' = log \cup {[id |-> id[p], product |-> p, rate |-> id[p]] : p \in priced}
    /\ current' = [p \in Products |-> IF p \in priced THEN id[p] ELSE current[p]]
    /\ Log!Publish
    /\ UNCHANGED <<delivered, drainers, channel, page, counts>>

-----------------------------------------------------------------------------
(* drain().                                                                *)

Pending == {x \in log : x.id \notin delivered}

\* Oldest(S, n): the n entries of S with the lowest ids.
Oldest(S, n) == {x \in S : Cardinality({y \in S : y.id < x.id}) < n}

Starts(d) ==
  /\ step' = [step EXCEPT ![d] = "sending"]
  /\ overlapped' = (overlapped \/ \E e \in Drainers \ {d} : step[e] # "waiting")

Select_Newest(d) ==
  /\ step[d] = "waiting" /\ Pending # {}
  /\ batch' = [batch EXCEPT ![d] =
                 {x \in Pending : Cardinality({y \in Pending : y.id > x.id})
                                    < BatchSize}]
  /\ Starts(d)
  /\ UNCHANGED <<database, delivered, sent, channel, page, failures, drops>>

\* pending_rate_publications.  With nothing to do, drain() changes nothing.
Select(d) ==
  /\ step[d] = "waiting" /\ Pending # {}
  /\ batch' = [batch EXCEPT ![d] = Oldest(Pending, BatchSize)]
  /\ Starts(d)
  /\ UNCHANGED <<database, delivered, sent, channel, page, failures, drops>>

NextOf_Any(d) == batch[d]

\* The batch is sent one by one, in the order of the ids.
NextOf(d) == Oldest(batch[d], 1)

\* Redis hands an event to the pages that are connected, and to nobody else.  It
\* is no loss to a page that shows just this rate.
OnChannel(x) ==
  /\ published' = published \cup {x.id}
  /\ last_event' = [last_event EXCEPT ![x.product] = x.id]
  /\ page' = [b \in Pages |->
                IF page[b].at = "open"
                THEN [page[b] EXCEPT !.pipe = Append(@, x),
                                     !.missed = @ \ {x.product}]
                ELSE IF page[b].shown[x.product] \in {0, x.id}
                THEN [page[b] EXCEPT !.missed = @ \ {x.product}]
                ELSE [page[b] EXCEPT !.missed = @ \cup {x.product}]]

\* publish_rate_event succeeds.
Send(d) ==
  \E x \in NextOf(d) :
    /\ step[d] = "sending"
    /\ OnChannel(x)
    /\ batch' = [batch EXCEPT ![d] = @ \ {x}]
    /\ sent' = [sent EXCEPT ![d] = @ \cup {x.id}]
    /\ step' = [step EXCEPT ![d] = IF batch[d] = {x} THEN "marking" ELSE @]
    /\ UNCHANGED <<database, delivered, counts>>

\* It fails, with the event on the channel or not: the rest of the batch is
\* left for a later pass.  (The attempt that is recorded is only logged.)
SendFails(d) ==
  \E x \in NextOf(d) :
    /\ step[d] = "sending"
    /\ failures < MaxFailures
    /\ failures' = failures + 1
    /\ OnChannel(x) \/ UNCHANGED <<channel, page>>
    /\ batch' = [batch EXCEPT ![d] = {}]
    /\ step' = [step EXCEPT ![d] = "marking"]
    /\ UNCHANGED <<database, delivered, sent, drops, overlapped>>

Done(d) ==
  /\ step' = [step EXCEPT ![d] = "waiting"]
  /\ batch' = [batch EXCEPT ![d] = {}]
  /\ sent' = [sent EXCEPT ![d] = {}]

Mark_Nothing(d) ==
  /\ step[d] = "marking"
  /\ Done(d)
  /\ UNCHANGED <<database, delivered, channel, page, counts>>

\* mark_rate_publications_delivered.
Mark(d) ==
  /\ step[d] = "marking"
  /\ delivered' = delivered \cup sent[d]
  /\ Done(d)
  /\ UNCHANGED <<database, channel, page, counts>>

\* The process dies, or the database refuses a call and drain() rejects: the
\* next pass of the loop starts afresh.
Fail(d) ==
  /\ step[d] # "waiting"
  /\ failures < MaxFailures
  /\ failures' = failures + 1
  /\ Done(d)
  /\ UNCHANGED <<database, delivered, channel, page, drops, overlapped>>

-----------------------------------------------------------------------------
(* The page.                                                               *)

\* The server renders the rates of the products that are enabled at the moment
\* and have one; also when the customer loads the page again.
Load(b) ==
  \E enabled \in SUBSET Products :
    /\ page' = [page EXCEPT ![b] =
                  [Away EXCEPT !.at = "loaded",
                     !.shown = [p \in Products |->
                                  IF p \in enabled THEN current[p] ELSE 0]]]
    /\ UNCHANGED <<database, delivered, drainers, channel, counts>>

\* EventSource connects, or connects again: nothing is fetched, and the
\* stream starts with the next event.
Connect(b) ==
  /\ page[b].at \in {"loaded", "dropped"}
  /\ page' = [page EXCEPT ![b] = [page[b] EXCEPT !.at = "open"]]
  /\ UNCHANGED <<database, delivered, drainers, channel, counts>>

Receive_KeepsFirst(b) ==
  /\ page[b].at = "open" /\ page[b].pipe # <<>>
  /\ page' = [page EXCEPT ![b] = [page[b] EXCEPT !.pipe = Tail(@)]]
  /\ UNCHANGED <<database, delivered, drainers, channel, counts>>

\* The last event of a product wins, where the page was loaded with a rate of
\* the product: one that was not rendered then is not rendered now.
Receive(b) ==
  /\ page[b].at = "open" /\ page[b].pipe # <<>>
  /\ LET x == Head(page[b].pipe) IN
     page' = [page EXCEPT ![b] =
                [page[b] EXCEPT !.pipe = Tail(@),
                   !.shown[x.product] = IF @ = 0 THEN 0 ELSE x.rate]]
  /\ UNCHANGED <<database, delivered, drainers, channel, counts>>

\* The connection breaks, with what was on it.
Drop(b) ==
  /\ page[b].at = "open"
  /\ drops < MaxDrops
  /\ drops' = drops + 1
  /\ page' = [page EXCEPT ![b] =
                [page[b] EXCEPT !.at = "dropped", !.pipe = <<>>,
                   !.missed = @ \cup {page[b].pipe[i].product : i \in DOMAIN page[b].pipe}]]
  /\ UNCHANGED <<database, delivered, drainers, channel, failures, overlapped>>

-----------------------------------------------------------------------------
Drain(d) == Select(d) \/ Send(d) \/ Mark(d)

View(b) == Connect(b) \/ Receive(b)

Next ==
  \/ Writing
  \/ \E d \in Drainers : Drain(d) \/ SendFails(d) \/ Fail(d)
  \/ \E b \in Pages : View(b) \/ Load(b) \/ Drop(b)

Spec == Init /\ [][Next]_vars

\* The loop's timer fires again and again, Redis and the database answer, the
\* browser reconnects by itself.  Nobody has to publish or to open a page.
FairSpec ==
  /\ Spec
  /\ \A d \in Drainers : WF_vars(Drain(d))
  /\ \A b \in Pages : WF_vars(View(b))

-----------------------------------------------------------------------------
(* Properties.                                                             *)

\* outbox_publisher.ts:20-24, "a superseding rate is never published before the
\* rate it supersedes": whatever is published, everything older of the product
\* has been on the channel, with any number of drainers, failures and crashes.
NoOvertaking ==
  \A x \in log, y \in log :
    /\ x.product = y.product /\ x.id < y.id /\ y.id \in published
    => x.id \in published

\* No row is marked delivered that never reached the channel: delivery is at
\* least once, whichever call fails.
DeliveredWasPublished == delivered \subseteq published

\* The rows of the log have ids of their own.
UniqueIds ==
  /\ IsFiniteSet(log)
  /\ \A x \in log : x.id \in 1..MaxId
  /\ \A x \in log, y \in log : x.id = y.id => x = y

\* What a pass of drain() may still send: entries of the log, each with every
\* older one of its product published or in the same batch.
BatchesInOrder ==
  \A d \in Drainers :
    /\ batch[d] \subseteq log
    /\ sent[d] \subseteq published
    /\ \A y \in batch[d], x \in log :
         x.product = y.product /\ x.id < y.id => x.id \in published \/ x \in batch[d]

\* The states from which no pass lets a rate overtake another.
DrainInv ==
  /\ TypeOK /\ UniqueIds /\ BatchesInOrder
  /\ published \subseteq {x.id : x \in log}
  /\ DeliveredWasPublished /\ NoOvertaking

\* Every committed rate is put on the channel and marked, however the bounded
\* number of failures falls.
EveryRateDelivered ==
  \A i \in 1..MaxId : i \in {x.id : x \in log} ~> i \in delivered

\* The products that page b is connected for and renders, and of which the last
\* event on the channel has reached it or will.
Followed(b) ==
  {p \in Products : page[b].at = "open" /\ page[b].shown[p] # 0
                     /\ p \notin page[b].missed}

\* What the publisher owes the customer, end to end: when every row is marked
\* and no two passes have overlapped, the last word of the channel about each
\* product is its current rate, and so is what a page shows that has received
\* what was sent: of each product it was loaded with, unless the last event was
\* lost with the connection; through failures, crashes, reloads, reconnections
\* and redeliveries (outbox_publisher.ts:9-24).
QuietMeansCurrent ==
  Pending = {} /\ ~overlapped =>
    /\ last_event = current
    /\ \A b \in Pages : page[b].pipe = <<>> =>
         \A p \in Followed(b) : page[b].shown[p] = current[p]

\* Each part of the state from which that follows.  The board shows the newest
\* entry of each product, and an entry's rate is named by its id.
BoardInv ==
  /\ \A x \in log : x.rate = x.id /\ x.id <= current[x.product]
  /\ \A p \in Products :
       current[p] # 0 => \E x \in log : x.product = p /\ x.id = current[p]

\* One pass at a time takes the rows of a product in order, marks them in order,
\* sends none twice, and is done with nothing newer than the product's last event.
Settled(d) == delivered \cup sent[d]

InTurn ==
  \A x, y \in log : x.product = y.product /\ x.id < y.id =>
    /\ y.id \in delivered => x.id \in delivered
    /\ \A d \in Drainers :
         /\ y.id \in sent[d] => x.id \in Settled(d)
         /\ y \in batch[d] => x.id \in Settled(d) \/ x \in batch[d]

NotAhead ==
  \A x \in log : x.id > last_event[x.product] =>
    x.id \notin delivered /\ \A d \in Drainers : x.id \notin sent[d]

OnePassInv ==
  /\ \A d, e \in Drainers : step[d] # "waiting" /\ step[e] # "waiting" => d = e
  /\ \A d \in Drainers : \A x \in batch[d] : x.id \notin Settled(d)
  /\ InTurn /\ NotAhead

PassInv ==
  /\ \A p \in Products :
       last_event[p] # 0 => \E x \in log : x.product = p /\ x.id = last_event[p]
  /\ \A d \in Drainers : step[d] = "waiting" => batch[d] = {} /\ sent[d] = {}
  /\ ~overlapped => OnePassInv

\* The last event of p on its way to page b.
LastOnWay(b, p, i) ==
  /\ i \in DOMAIN page[b].pipe /\ page[b].pipe[i].product = p
  /\ \A j \in DOMAIN page[b].pipe : page[b].pipe[j].product = p => j <= i

\* A page that has not lost the channel's last word about a product is about to
\* hear it, has heard it, or has loaded what nothing on the channel supersedes.
Follows(b, p) ==
  /\ \A i \in DOMAIN page[b].pipe :
       LastOnWay(b, p, i) => page[b].pipe[i].id = last_event[p]
  /\ (\A i \in DOMAIN page[b].pipe : page[b].pipe[i].product # p) =>
       \/ page[b].shown[p] = last_event[p]
       \/ \A x \in log : x.product = p /\ x.id > page[b].shown[p]
                         => x.id \notin published

PageInv ==
  \A b \in Pages :
    /\ page[b].at # "open" => page[b].pipe = <<>>
    /\ \A i \in DOMAIN page[b].pipe : page[b].pipe[i] \in log
    /\ \A p \in Products :
         /\ page[b].shown[p] # 0 =>
              \E x \in log : x.product = p /\ x.id = page[b].shown[p]
         /\ page[b].shown[p] # 0 /\ p \notin page[b].missed => Follows(b, p)

QuietInv == DrainInv /\ BoardInv /\ PassInv /\ PageInv

\* outbox_publisher.ts:26-31 promises as much of overlapping passes: "Two
\* publishers would both deliver every row - harmless".
LastWordIsNewest == <>[](last_event = current)

\* A page ends up with the newest rate of every product that it follows, unless
\* the channel's own last word is an older one: so a page that has lost events
\* with its connection is right again, product by product, with the next event
\* (useRateStream.ts:153-159, LiveRates.tsx:43-60).
FollowersCatchUp ==
  <>[](\A b \in Pages : \A p \in Followed(b) :
         page[b].shown[p] \in {current[p], last_event[p]})
=============================================================================
