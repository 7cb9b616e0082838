------------------------- MODULE OutboxDeliveryProofs -------------------------
(***************************************************************************)
(* That no pass of drain() lets a rate overtake the one it supersedes, for *)
(* any number of drainers, products and pages, with failures and crashes   *)
(* at every step.  The argument is DrainInv: a batch is closed under the   *)
(* older pending entries of its products, and is sent oldest first.  And   *)
(* that a page is current in what it follows, once everything is marked    *)
(* and no two passes have overlapped.  The writers are any of RateLog.     *)
(***************************************************************************)
EXTENDS OutboxDelivery, FiniteSetTheorems, TLAPS

PageType == [at : {"away", "loaded", "open", "dropped"},
             shown : [Products -> Nat], pipe : Seq(Entries), missed : SUBSET Products]

\* Nothing in a set is older than its oldest entry.
LEMMA OldestIsFirst ==
  ASSUME NEW S, IsFiniteSet(S), NEW x \in Oldest(S, 1), NEW y \in S
  PROVE  ~(y.id < x.id)
<1> DEFINE B == {z \in S : z.id < x.id}
<1>1. IsFiniteSet(B)
  BY FS_Subset
<1>2. Cardinality(B) \in Nat /\ Cardinality(B) < 1
  BY <1>1, FS_CardinalityType DEF Oldest
<1>3. B = {}
  BY <1>1, <1>2, FS_EmptySet
<1> QED BY <1>3

\* The n oldest entries of a set are closed under older entries of the set.
LEMMA OldestIsClosed ==
  ASSUME NEW S \in SUBSET Entries, IsFiniteSet(S), NEW n \in Nat,
         NEW y \in Oldest(S, n), NEW x \in S, x.id < y.id
  PROVE  x \in Oldest(S, n)
<1> DEFINE A == {z \in S : z.id < x.id}
           B == {z \in S : z.id < y.id}
<1>1. IsFiniteSet(A) /\ IsFiniteSet(B)
  BY FS_Subset
<1>2. A \subseteq B
  BY DEF Oldest, Entries
<1>3. Cardinality(A) <= Cardinality(B)
  BY <1>1, <1>2, FS_Subset
<1>4. Cardinality(A) \in Nat /\ Cardinality(B) \in Nat /\ Cardinality(B) < n
  BY <1>1, FS_CardinalityType DEF Oldest
<1> QED BY <1>3, <1>4 DEF Oldest

\* An event on the channel leaves the state of channel and pages well typed.
LEMMA ChannelTypes ==
  ASSUME TypeOK, NEW x \in Entries, OnChannel(x)
  PROVE  /\ published' \subseteq Nat
         /\ last_event' \in [Products -> Nat]
         /\ page' \in [Pages -> PageType]
<1>1. published' \subseteq Nat /\ last_event' \in [Products -> Nat]
  BY DEF TypeOK, OnChannel, Entries
<1>2. ASSUME NEW b \in Pages PROVE page'[b] \in PageType
  <2>1. page[b] \in PageType
    BY DEF TypeOK, PageType
  <2>2. Append(page[b].pipe, x) \in Seq(Entries)
    BY <2>1 DEF PageType
  <2>3. CASE page[b].at = "open"
    <3>1. page'[b] = [page[b] EXCEPT !.pipe = Append(page[b].pipe, x),
                                     !.missed = page[b].missed \ {x.product}]
      BY <2>3 DEF OnChannel
    <3> QED BY <3>1, <2>1, <2>2 DEF PageType
  <2>4. CASE page[b].at # "open"
    <3>1. PICK m \in {page[b].missed \ {x.product}, page[b].missed \cup {x.product}} :
            page'[b] = [page[b] EXCEPT !.missed = m]
      BY <2>4 DEF OnChannel
    <3>2. m \in SUBSET Products
      BY <2>1 DEF PageType, Entries
    <3> QED BY <3>1, <3>2, <2>1 DEF PageType
  <2> QED BY <2>3, <2>4
<1>3. DOMAIN page' = Pages /\ page' = [b \in Pages |-> page'[b]]
  BY DEF OnChannel
<1> QED BY <1>1, <1>2, <1>3

LEMMA AwayType == Away \in PageType
<1>1. << >> \in Seq(Entries)
  OBVIOUS
<1> QED BY <1>1 DEF Away, PageType

\* A step of a page leaves its state well typed.
LEMMA PageTypes ==
  ASSUME TypeOK, NEW b \in Pages, View(b) \/ Load(b) \/ Drop(b)
  PROVE  page' \in [Pages -> PageType]
<1>0. page \in [Pages -> PageType] /\ page[b] \in PageType
  BY DEF TypeOK, PageType
<1>1. CASE Connect(b)
  BY <1>0, <1>1 DEF Connect, PageType
<1>2. CASE Load(b)
  <2>1. PICK enabled \in SUBSET Products :
          page' = [page EXCEPT ![b] =
                    [Away EXCEPT !.at = "loaded",
                       !.shown = [p \in Products |->
                                    IF p \in enabled THEN current[p] ELSE 0]]]
    BY <1>2 DEF Load
  <2>2. [p \in Products |-> IF p \in enabled THEN current[p] ELSE 0]
          \in [Products -> Nat]
    BY DEF TypeOK
  <2>3. Away \in PageType
    BY AwayType
  <2> QED BY <1>0, <2>1, <2>2, <2>3 DEF PageType
<1>3. CASE Drop(b)
  <2> DEFINE m == page[b].missed \cup
                    {page[b].pipe[i].product : i \in DOMAIN page[b].pipe}
             e == << >>
             t == [page[b] EXCEPT !.at = "dropped", !.pipe = e, !.missed = m]
  <2>1. m \in SUBSET Products
    <3>1. page[b].pipe \in Seq(Entries)
      BY <1>0 DEF PageType
    <3>2. \A i \in DOMAIN page[b].pipe : page[b].pipe[i] \in Entries
      BY <3>1
    <3> QED BY <1>0, <3>2 DEF PageType, Entries
  <2>2. page' = [page EXCEPT ![b] = t]
    BY <1>3 DEF Drop
  <2>0. e \in Seq(Entries)
    OBVIOUS
  <2> HIDE DEF m, e
  <2>3. t \in PageType
    BY <1>0, <2>0, <2>1 DEF PageType
  <2> HIDE DEF t
  <2> QED BY <1>0, <2>2, <2>3
<1>4. CASE Receive(b)
  <2> DEFINE x == Head(page[b].pipe)
             v == IF page[b].shown[x.product] = 0 THEN 0 ELSE x.rate
             s == [page[b].shown EXCEPT ![x.product] = v]
             t == [page[b] EXCEPT !.pipe = Tail(page[b].pipe), !.shown = s]
  <2>1. x \in Entries /\ Tail(page[b].pipe) \in Seq(Entries)
    BY <1>0, <1>4 DEF Receive, PageType
  <2>2. s \in [Products -> Nat]
    BY <1>0, <2>1 DEF PageType, Entries
  <2>4. page' = [page EXCEPT ![b] = t]
    BY <1>4 DEF Receive
  <2> HIDE DEF s
  <2>3. t \in PageType
    BY <1>0, <2>1, <2>2 DEF PageType
  <2> HIDE DEF t
  <2> QED BY <1>0, <2>3, <2>4
<1> QED BY <1>1, <1>2, <1>3, <1>4 DEF View

\* The invariant's parts but the types, for the lemmas of the steps.
OrderInv == /\ UniqueIds /\ BatchesInOrder
            /\ published \subseteq {x.id : x \in log}
            /\ DeliveredWasPublished /\ NoOvertaking

LEMMA InitInv == Init => DrainInv
<1> SUFFICES ASSUME Init PROVE DrainInv
  OBVIOUS
<1>1. Away \in PageType
  BY AwayType
<1>2. TypeOK
  <2>1. overlapped \in BOOLEAN
    BY Zenon DEF Init
  <2> QED BY <1>1, <2>1, SMT DEF Init, TypeOK, PageType
<1>3. IsFiniteSet(log)
  BY FS_EmptySet DEF Init
<1>4. UniqueIds
  BY <1>3 DEF Init, UniqueIds
<1>5. BatchesInOrder /\ DeliveredWasPublished /\ NoOvertaking
  BY DEF Init, BatchesInOrder, DeliveredWasPublished, NoOvertaking
<1> QED BY <1>2, <1>4, <1>5 DEF DrainInv, Init

-----------------------------------------------------------------------------
\* Types.

LEMMA TypeStep ==
  ASSUME TypeOK, [Next]_vars
  PROVE  TypeOK'
<1> USE DEF database, drainers, channel, counts
<1>0. page \in [Pages -> PageType]
  BY DEF TypeOK, PageType
<1>1. CASE UNCHANGED vars
  BY <1>1 DEF vars, TypeOK
<1>2. CASE Writing
  <2>0. PICK priced \in SUBSET Products : \E id \in [priced -> 1..MaxId] :
          /\ log' = log \cup
                {[id |-> id[p], product |-> p, rate |-> id[p]] : p \in priced}
          /\ current' = [p \in Products |-> IF p \in priced THEN id[p] ELSE current[p]]
    BY <1>2 DEF Writing
  <2>1. PICK id \in [priced -> 1..MaxId] :
          /\ log' = log \cup
                {[id |-> id[p], product |-> p, rate |-> id[p]] : p \in priced}
          /\ current' = [p \in Products |-> IF p \in priced THEN id[p] ELSE current[p]]
    BY <2>0
  <2>2. \A p \in priced : id[p] \in Nat
    BY DeliveryAssumption
  <2>3. log' \subseteq Entries
    BY <2>1, <2>2 DEF TypeOK, Entries
  <2>4. current' \in [Products -> Nat]
    BY <2>1, <2>2 DEF TypeOK
  <2> QED BY <1>2, <2>3, <2>4 DEF Writing, TypeOK
<1>3. ASSUME NEW d \in Drainers, Drain(d) \/ SendFails(d) \/ Fail(d)
      PROVE  TypeOK'
  <2>1. CASE Select(d)
    <3>1. Oldest(Pending, BatchSize) \subseteq Entries
      BY DEF Oldest, Pending, TypeOK
    <3>2. batch' \in [Drainers -> SUBSET Entries]
      BY <3>1, <2>1 DEF Select, TypeOK
    <3>3. step' \in [Drainers -> {"waiting", "sending", "marking"}]
      BY <2>1 DEF Select, Starts, TypeOK
    <3>4. overlapped' \in BOOLEAN
      BY <2>1, Zenon DEF Select, Starts
    <3> QED BY <3>2, <3>3, <3>4, <2>1 DEF Select, TypeOK
  <2>2. ASSUME NEW x \in NextOf(d), OnChannel(x)
        PROVE  /\ x \in Entries
               /\ published' \subseteq Nat
               /\ last_event' \in [Products -> Nat]
               /\ page' \in [Pages -> PageType]
    <3>1. x \in Entries
      BY DEF TypeOK, NextOf, Oldest
    <3> QED BY <3>1, <2>2, ChannelTypes
  <2>3. CASE Send(d)
    <3>1. PICK x \in NextOf(d) :
            /\ OnChannel(x)
            /\ batch' = [batch EXCEPT ![d] = @ \ {x}]
            /\ sent' = [sent EXCEPT ![d] = @ \cup {x.id}]
            /\ step' = [step EXCEPT ![d] = IF batch[d] = {x} THEN "marking" ELSE @]
            /\ UNCHANGED <<database, delivered, counts>>
      BY <2>3 DEF Send
    <3>2. /\ published' \subseteq Nat /\ last_event' \in [Products -> Nat]
          /\ page' \in [Pages -> PageType] /\ x.id \in Nat
      BY <3>1, <2>2 DEF Entries
    <3>3. batch' \in [Drainers -> SUBSET Entries] /\ sent' \in [Drainers -> SUBSET Nat]
      BY <3>1, <3>2 DEF TypeOK
    <3>4. step' \in [Drainers -> {"waiting", "sending", "marking"}]
      BY <3>1 DEF TypeOK
    <3> QED BY <3>1, <3>2, <3>3, <3>4 DEF TypeOK, PageType
  <2>4. CASE SendFails(d)
    <3>1. PICK x \in NextOf(d) : OnChannel(x) \/ UNCHANGED <<channel, page>>
      BY <2>4 DEF SendFails
    <3>2. /\ published' \subseteq Nat /\ last_event' \in [Products -> Nat]
          /\ page' \in [Pages -> PageType]
      BY <3>1, <2>2, <1>0 DEF TypeOK
    <3>3. /\ batch' \in [Drainers -> SUBSET Entries]
          /\ step' \in [Drainers -> {"waiting", "sending", "marking"}]
          /\ failures' \in Nat
          /\ UNCHANGED <<database, delivered, sent, drops, overlapped>>
      BY <2>4 DEF SendFails, TypeOK
    <3> QED BY <3>2, <3>3 DEF TypeOK, PageType
  <2>5. CASE Mark(d)
    BY <2>5 DEF Mark, Done, TypeOK
  <2>6. CASE Fail(d)
    BY <2>6 DEF Fail, Done, TypeOK
  <2> QED BY <1>3, <2>1, <2>3, <2>4, <2>5, <2>6 DEF Drain
<1>4. ASSUME NEW b \in Pages, View(b) \/ Load(b) \/ Drop(b)
      PROVE  TypeOK'
  <2>1. page' \in [Pages -> PageType]
    BY <1>4, PageTypes
  <2>2. CASE View(b) \/ Load(b)
    <3>1. UNCHANGED <<database, delivered, drainers, channel, counts>>
      BY <2>2 DEF View, Connect, Receive, Load
    <3> QED BY <2>1, <3>1 DEF TypeOK, PageType
  <2>3. CASE Drop(b)
    <3>1. /\ UNCHANGED <<database, delivered, drainers, channel, failures, overlapped>>
          /\ drops' = drops + 1
      BY <2>3 DEF Drop
    <3> QED BY <2>1, <3>1 DEF TypeOK, PageType
  <2> QED BY <1>4, <2>2, <2>3
<1> QED BY <1>1, <1>2, <1>3, <1>4 DEF Next

-----------------------------------------------------------------------------
\* Order, one lemma per kind of step.

\* What a transaction of the writers does to log and board.
LEMMA NewEntries ==
  ASSUME TypeOK, Writing
  PROVE  /\ log \subseteq log' /\ log' \subseteq Entries
         /\ UNCHANGED <<delivered, drainers, channel, page, counts>>
         /\ \A e \in log' \ log :
              /\ e.id \in 1..MaxId /\ e.rate = e.id /\ current'[e.product] = e.id
              /\ \A x \in log' : e.id = x.id => e = x
              /\ \A x \in log' : x.product = e.product => x.id <= e.id
         /\ \A p \in Products :
              (\A e \in log' \ log : e.product # p) => current'[p] = current[p]
<1>0. PICK priced \in SUBSET Products : \E id \in [priced -> 1..MaxId] :
        /\ log' = log \cup {[id |-> id[p], product |-> p, rate |-> id[p]] : p \in priced}
        /\ current' = [p \in Products |-> IF p \in priced THEN id[p] ELSE current[p]]
        /\ Log!Publish
        /\ UNCHANGED <<delivered, drainers, channel, page, counts>>
  BY DEF Writing
<1>1. PICK id \in [priced -> 1..MaxId] :
        /\ log' = log \cup {[id |-> id[p], product |-> p, rate |-> id[p]] : p \in priced}
        /\ current' = [p \in Products |-> IF p \in priced THEN id[p] ELSE current[p]]
        /\ Log!Publish
        /\ UNCHANGED <<delivered, drainers, channel, page, counts>>
  BY <1>0
<1>2. \A p \in priced : id[p] \in 1..MaxId /\ id[p] \in Nat
  BY DeliveryAssumption
<1>3. log' \subseteq Entries
  BY <1>1, <1>2 DEF TypeOK, Entries
<1>4. ASSUME NEW e \in log' \ log
      PROVE  e.id \in 1..MaxId /\ e.rate = e.id /\ current'[e.product] = e.id
  <2>1. PICK p \in priced : e = [id |-> id[p], product |-> p, rate |-> id[p]]
    BY <1>1, <1>4
  <2> QED BY <1>1, <1>2, <2>1
<1>5. ASSUME NEW e \in log' \ log, NEW x \in log'
      PROVE  /\ e.id = x.id => e = x
             /\ x.product = e.product => x.id <= e.id
  BY <1>1, <1>5 DEF Log!Publish
<1>6. ASSUME NEW p \in Products, \A e \in log' \ log : e.product # p
      PROVE  current'[p] = current[p]
  BY <1>1, <1>6 DEF Log!Publish
<1> QED BY <1>1, <1>3, <1>4, <1>5, <1>6

\* Rows with ids of their own from a finite range are finitely many.
LEMMA UniqueIsFinite ==
  ASSUME NEW S \in SUBSET Entries, \A x \in S : x.id \in 1..MaxId,
         \A x \in S, y \in S : x.id = y.id => x = y
  PROVE  IsFiniteSet(S)
<1> DEFINE I == {x.id : x \in S}
           f == [i \in I |-> CHOOSE x \in S : x.id = i]
<1>1. IsFiniteSet(1..MaxId)
  BY FS_Interval, DeliveryAssumption
<1>2. IsFiniteSet(I)
  <2>1. I \subseteq 1..MaxId
    OBVIOUS
  <2> QED BY <1>1, <2>1, FS_Subset
<1>3. ASSUME NEW x \in S PROVE x.id \in I /\ f[x.id] = x
  OBVIOUS
<1>4. f \in [I -> S]
  OBVIOUS
<1>5. \A x \in S : \E i \in I : f[i] = x
  BY <1>3
<1> HIDE DEF I, f
<1>6. f \in Surjection(I, S)
  BY <1>4, <1>5 DEF Surjection
<1> QED BY <1>2, <1>6, FS_Surjection

\* A transaction that commits: its entries are newer than all of their products.
LEMMA WritingKeepsOrder ==
  ASSUME DrainInv, Writing
  PROVE  OrderInv'
<1>0. TypeOK /\ UniqueIds /\ BatchesInOrder /\ DeliveredWasPublished
      /\ NoOvertaking /\ published \subseteq {x.id : x \in log}
  BY DEF DrainInv
<1>1. /\ log \subseteq log' /\ log' \subseteq Entries
      /\ UNCHANGED <<delivered, batch, sent, published>>
  BY <1>0, NewEntries DEF drainers, channel
<1>2. /\ \A e \in log' \ log, x \in log' :
           e.id = x.id => e = x
      /\ \A e \in log' \ log, x \in log' :
           e.product = x.product => ~(e.id < x.id)
    <2>1. \A x \in log' : x.id \in Nat
      BY <1>1 DEF Entries
    <2> QED BY <1>0, <2>1, NewEntries
<1>3. UniqueIds'
  <2>1. \A x \in log' : x.id \in 1..MaxId
    BY <1>0, NewEntries DEF UniqueIds
  <2>2. \A x \in log', y \in log' : x.id = y.id => x = y
    BY <1>0, <1>2 DEF UniqueIds
  <2> QED BY <1>1, <2>1, <2>2, UniqueIsFinite DEF UniqueIds
<1>4. ASSUME NEW e \in log' \ log
      PROVE  e.id \notin published /\ \A d \in Drainers : e \notin batch[d]
  BY <1>0, <1>1, <1>2, <1>4 DEF BatchesInOrder
<1>5. BatchesInOrder'
  BY <1>0, <1>1, <1>2 DEF BatchesInOrder
<1>6. NoOvertaking'
  BY <1>0, <1>1, <1>2, <1>4 DEF NoOvertaking
<1> QED BY <1>0, <1>1, <1>3, <1>5, <1>6 DEF OrderInv, DeliveredWasPublished

\* The selected batch: what is older and not in it is delivered already.
LEMMA SelectKeepsOrder ==
  ASSUME DrainInv, NEW d \in Drainers, Select(d)
  PROVE  OrderInv'
<1> USE DEF database, drainers, channel, counts
<1>0. TypeOK /\ UniqueIds /\ BatchesInOrder /\ DeliveredWasPublished
      /\ NoOvertaking /\ published \subseteq {x.id : x \in log}
  BY DEF DrainInv
<1> DEFINE S == Oldest(Pending, BatchSize)
<1>1. /\ batch' = [batch EXCEPT ![d] = S]
      /\ UNCHANGED <<log, delivered, sent, published>>
  BY DEF Select, Starts
<1>2. Pending \in SUBSET Entries /\ IsFiniteSet(Pending)
  BY <1>0, FS_Subset DEF Pending, TypeOK, UniqueIds
<1>3. ASSUME NEW y \in S, NEW x \in log, x.product = y.product, x.id < y.id
      PROVE  x.id \in published \/ x \in S
  <2>1. CASE x.id \in delivered
    BY <2>1, <1>0 DEF DeliveredWasPublished
  <2>2. CASE x.id \notin delivered
    <3>1. x \in Pending
      BY <2>2 DEF Pending
    <3> QED BY <3>1, <1>2, <1>3, OldestIsClosed, DeliveryAssumption
  <2> QED BY <2>1, <2>2
<1>4. S \subseteq log
  BY DEF Oldest, Pending
<1> HIDE DEF S
<1>5. BatchesInOrder'
  <2> SUFFICES ASSUME NEW c \in Drainers
               PROVE  /\ batch'[c] \subseteq log
                      /\ sent[c] \subseteq published
                      /\ \A y \in batch'[c], x \in log :
                           x.product = y.product /\ x.id < y.id
                           => x.id \in published \/ x \in batch'[c]
    BY <1>1 DEF BatchesInOrder
  <2>1. batch'[c] = IF c = d THEN S ELSE batch[c]
    BY <1>1, <1>0 DEF TypeOK
  <2> QED BY <2>1, <1>3, <1>4, <1>0 DEF BatchesInOrder
<1>6. UniqueIds'
  BY <1>1, <1>0 DEF UniqueIds
<1>7. NoOvertaking' /\ DeliveredWasPublished'
  BY <1>1, <1>0 DEF NoOvertaking, DeliveredWasPublished
<1> QED BY <1>1, <1>5, <1>6, <1>7, <1>0 DEF OrderInv

\* An event on the channel: all that is older has been there.
LEMMA ChannelKeepsOrder ==
  ASSUME DrainInv, NEW d \in Drainers, NEW x \in NextOf(d), OnChannel(x),
         log' = log
  PROVE  /\ x \in log /\ published' = published \cup {x.id}
         /\ published' \subseteq {z.id : z \in log'}
         /\ NoOvertaking'
<1>0. TypeOK /\ UniqueIds /\ BatchesInOrder
      /\ NoOvertaking /\ published \subseteq {z.id : z \in log}
  BY DEF DrainInv
<1>1. x \in batch[d] /\ x \in log
  BY <1>0 DEF NextOf, Oldest, BatchesInOrder
<1>2. published' = published \cup {x.id}
  BY DEF OnChannel
<1>3. IsFiniteSet(batch[d])
  BY <1>0, FS_Subset DEF BatchesInOrder, UniqueIds
<1>4. \A z \in batch[d] : ~(z.id < x.id)
  BY <1>3, OldestIsFirst DEF NextOf
<1>5. ASSUME NEW w \in log, NEW y \in log, w.product = y.product, w.id < y.id,
             y.id \in published'
      PROVE  w.id \in published'
  <2>1. CASE y.id \in published
    BY <2>1, <1>5, <1>2, <1>0 DEF NoOvertaking
  <2>2. CASE y.id = x.id
    <3>1. y = x
      BY <2>2, <1>1, <1>0 DEF UniqueIds
    <3> QED BY <3>1, <1>1, <1>2, <1>4, <1>5, <1>0 DEF BatchesInOrder
  <2> QED BY <2>1, <2>2, <1>2, <1>5
<1>6. NoOvertaking'
  BY <1>5 DEF NoOvertaking
<1> QED BY <1>0, <1>1, <1>2, <1>6

\* A batch may lose its entries, one that was sent or all, and what a pass has
\* sent may grow by what is on the channel.
LEMMA ShrinkKeepsBatches ==
  ASSUME DrainInv, NEW d \in Drainers, log' = log, published \subseteq published',
         \A c \in Drainers \ {d} : batch'[c] = batch[c] /\ sent'[c] = sent[c],
         sent'[d] \subseteq published',
         \/ batch'[d] = {}
         \/ \E x \in batch[d] : x.id \in published' /\ batch'[d] = batch[d] \ {x}
  PROVE  BatchesInOrder'
<1>0. BatchesInOrder
  BY DEF DrainInv
<1> SUFFICES ASSUME NEW c \in Drainers
             PROVE  /\ batch'[c] \subseteq log
                    /\ sent'[c] \subseteq published'
                    /\ \A y \in batch'[c], x \in log :
                         x.product = y.product /\ x.id < y.id
                         => x.id \in published' \/ x \in batch'[c]
  BY DEF BatchesInOrder
<1>1. CASE c # d
  BY <1>0, <1>1 DEF BatchesInOrder
<1>2. CASE c = d
  BY <1>0, <1>2 DEF BatchesInOrder
<1> QED BY <1>1, <1>2

\* The steps of drain() after the selection.
LEMMA DrainKeepsOrder ==
  ASSUME DrainInv, NEW d \in Drainers,
         Send(d) \/ SendFails(d) \/ Mark(d) \/ Fail(d)
  PROVE  OrderInv'
<1> USE DEF database, drainers, channel, counts
<1>0. TypeOK /\ UniqueIds /\ BatchesInOrder /\ DeliveredWasPublished
      /\ NoOvertaking /\ published \subseteq {x.id : x \in log}
  BY DEF DrainInv
<1>a. UNCHANGED log
  BY DEF Send, SendFails, Mark, Fail
<1>b. UniqueIds'
  BY <1>0, <1>a DEF UniqueIds
<1>1. CASE Send(d)
  <2>1. PICK x \in NextOf(d) :
          /\ OnChannel(x)
          /\ batch' = [batch EXCEPT ![d] = @ \ {x}]
          /\ sent' = [sent EXCEPT ![d] = @ \cup {x.id}]
          /\ UNCHANGED delivered
    BY <1>1 DEF Send
  <2>2. /\ published' = published \cup {x.id}
        /\ published' \subseteq {z.id : z \in log'}
        /\ NoOvertaking'
    BY <2>1, <1>a, ChannelKeepsOrder
  <2>3. /\ x \in batch[d] /\ batch'[d] = batch[d] \ {x}
        /\ sent'[d] = sent[d] \cup {x.id}
        /\ \A c \in Drainers \ {d} : batch'[c] = batch[c] /\ sent'[c] = sent[c]
    BY <2>1, <1>0 DEF TypeOK, NextOf, Oldest
  <2>4. sent'[d] \subseteq published'
    BY <2>2, <2>3, <1>0 DEF BatchesInOrder
  <2>5. BatchesInOrder'
    BY <2>2, <2>3, <2>4, <1>a, ShrinkKeepsBatches
  <2>6. DeliveredWasPublished'
    BY <2>1, <2>2, <1>0 DEF DeliveredWasPublished
  <2> QED BY <2>2, <2>5, <2>6, <1>b DEF OrderInv
<1>2. CASE SendFails(d)
  <2>1. PICK x \in NextOf(d) :
          /\ OnChannel(x) \/ UNCHANGED <<channel, page>>
          /\ batch' = [batch EXCEPT ![d] = {}]
          /\ UNCHANGED <<delivered, sent>>
    BY <1>2 DEF SendFails
  <2>2. /\ published \subseteq published'
        /\ published' \subseteq {z.id : z \in log'}
        /\ NoOvertaking'
    <3>1. CASE OnChannel(x)
      BY <3>1, <1>a, ChannelKeepsOrder
    <3>2. CASE UNCHANGED <<channel, page>>
      BY <3>2, <1>a, <1>0 DEF NoOvertaking
    <3> QED BY <2>1, <3>1, <3>2
  <2>3. /\ batch'[d] = {} /\ sent'[d] = sent[d]
        /\ \A c \in Drainers \ {d} : batch'[c] = batch[c] /\ sent'[c] = sent[c]
    BY <2>1, <1>0 DEF TypeOK
  <2>4. BatchesInOrder'
    <3>1. sent'[d] \subseteq published'
      BY <2>2, <2>3, <1>0 DEF BatchesInOrder
    <3> QED BY <3>1, <2>2, <2>3, <1>a, ShrinkKeepsBatches
  <2> QED BY <2>1, <2>2, <2>4, <1>b, <1>0 DEF OrderInv, DeliveredWasPublished
<1>3. CASE Mark(d) \/ Fail(d)
  <2>1. UNCHANGED published /\ Done(d)
    BY <1>3 DEF Mark, Fail
  <2>2. delivered' \subseteq delivered \cup sent[d]
    BY <1>3 DEF Mark, Fail
  <2>3. /\ batch'[d] = {} /\ sent'[d] = {}
        /\ \A c \in Drainers \ {d} : batch'[c] = batch[c] /\ sent'[c] = sent[c]
    BY <2>1, <1>0 DEF Done, TypeOK
  <2>4. BatchesInOrder'
    BY <2>1, <2>3, <1>a, ShrinkKeepsBatches
  <2>5. DeliveredWasPublished'
    BY <2>1, <2>2, <1>0 DEF DeliveredWasPublished, BatchesInOrder
  <2>6. NoOvertaking'
    BY <2>1, <1>a, <1>0 DEF NoOvertaking
  <2> QED BY <2>1, <2>4, <2>5, <2>6, <1>a, <1>b, <1>0 DEF OrderInv
<1> QED BY <1>1, <1>2, <1>3

\* A page does not change what the publisher reads.
LEMMA PageKeepsOrder ==
  ASSUME DrainInv, UNCHANGED <<log, delivered, batch, sent, published>>
  PROVE  OrderInv'
BY DEF DrainInv, OrderInv, UniqueIds, BatchesInOrder, DeliveredWasPublished,
       NoOvertaking

LEMMA StepInv == DrainInv /\ [Next]_vars => DrainInv'
<1> SUFFICES ASSUME DrainInv, [Next]_vars PROVE DrainInv'
  OBVIOUS
<1>1. TypeOK'
  BY TypeStep DEF DrainInv
<1>2. OrderInv'
  <2>1. CASE UNCHANGED vars
    BY <2>1, PageKeepsOrder DEF vars, database, drainers, channel
  <2>2. CASE Writing
    BY <2>2, WritingKeepsOrder
  <2>3. ASSUME NEW d \in Drainers, Drain(d) \/ SendFails(d) \/ Fail(d)
        PROVE  OrderInv'
    BY <2>3, SelectKeepsOrder, DrainKeepsOrder DEF Drain
  <2>4. ASSUME NEW b \in Pages, View(b) \/ Load(b) \/ Drop(b)
        PROVE  OrderInv'
    <3>1. UNCHANGED <<log, delivered, batch, sent, published>>
      BY <2>4 DEF View, Connect, Receive, Load, Drop, database, drainers, channel
    <3> QED BY <3>1, PageKeepsOrder
  <2> QED BY <2>1, <2>2, <2>3, <2>4 DEF Next
<1> QED BY <1>1, <1>2 DEF DrainInv, OrderInv

\* Whatever the drainers do and whatever fails, a batch is sent in an order in
\* which no rate overtakes an older one of its product.
THEOREM PassesKeepOrder == Spec => []DrainInv
BY InitInv, StepInv, PTL DEF Spec

\* A superseding rate is never published before the rate it supersedes
\* (outbox_publisher.ts:20-24).
THEOREM SupersededFirst == Spec => []NoOvertaking
<1>1. DrainInv => NoOvertaking
  BY DEF DrainInv
<1> QED BY <1>1, PassesKeepOrder, PTL

\* A row that is marked delivered has been on the channel: a failure between
\* the two re-delivers and never loses (outbox_publisher.ts:9-14).
THEOREM AtLeastOnce == Spec => []DeliveredWasPublished
<1>1. DrainInv => DeliveredWasPublished
  BY DEF DrainInv
<1> QED BY <1>1, PassesKeepOrder, PTL

-----------------------------------------------------------------------------
\* What is quiet is right.  First the board.

LEMMA BoardStep ==
  ASSUME DrainInv, BoardInv, [Next]_vars
  PROVE  BoardInv'
<1> USE DEF database, drainers, channel, counts
<1>0. TypeOK /\ UniqueIds
  BY DEF DrainInv
<1>1. CASE UNCHANGED <<current, log>>
  BY <1>1 DEF BoardInv
<1>2. CASE Writing
  <2>1. /\ log \subseteq log' /\ log' \subseteq Entries
        /\ \A e \in log' \ log :
             /\ e.id \in Nat /\ e.rate = e.id /\ current'[e.product] = e.id
             /\ \A x \in log' : x.product = e.product => x.id <= e.id
        /\ \A p \in Products :
             (\A e \in log' \ log : e.product # p) => current'[p] = current[p]
    BY <1>0, <1>2, NewEntries DEF Entries
  <2>2. ASSUME NEW x \in log' PROVE x.rate = x.id /\ x.id <= current'[x.product]
    <3>1. x.product \in Products
      BY <2>1 DEF Entries
    <3>2. CASE \E e \in log' \ log : e.product = x.product
      <4>1. PICK e \in log' \ log : e.product = x.product
        BY <3>2
      <4>2. x.id <= e.id /\ current'[x.product] = e.id
        BY <2>1, <4>1
      <4> QED BY <2>1, <4>2 DEF BoardInv
    <3>3. CASE \A e \in log' \ log : e.product # x.product
      <4>1. current'[x.product] = current[x.product] /\ x \in log
        BY <2>1, <3>1, <3>3
      <4> QED BY <4>1 DEF BoardInv
    <3> QED BY <3>2, <3>3
  <2>3. ASSUME NEW q \in Products, current'[q] # 0
        PROVE  \E x \in log' : x.product = q /\ x.id = current'[q]
    BY <2>1, <2>3 DEF BoardInv
  <2> QED BY <2>2, <2>3 DEF BoardInv
<1> QED
  <2>2. ASSUME NEW d \in Drainers, Drain(d) \/ SendFails(d) \/ Fail(d)
        PROVE  UNCHANGED <<current, log>>
    BY <2>2 DEF Drain, Select, Send, Mark, SendFails, Fail
  <2>3. ASSUME NEW b \in Pages, View(b) \/ Load(b) \/ Drop(b)
        PROVE  UNCHANGED <<current, log>>
    BY <2>3 DEF View, Connect, Receive, Load, Drop
  <2>4. UNCHANGED vars => UNCHANGED <<current, log>>
    BY DEF vars
  <2> QED BY <1>1, <1>2, <2>2, <2>3, <2>4 DEF Next

-----------------------------------------------------------------------------
\* Then the passes.  What every lemma of this part needs of DrainInv.

LEMMA RowFacts ==
  ASSUME DrainInv
  PROVE  /\ \A x \in log : x.id \in Nat /\ x.product \in Products
         /\ \A x, y \in log : x.id = y.id => x = y
         /\ \A d \in Drainers : batch[d] \subseteq log /\ sent[d] \subseteq published
         /\ delivered \subseteq published /\ published \subseteq {x.id : x \in log}
         /\ last_event \in [Products -> Nat]
BY DEF DrainInv, TypeOK, Entries, UniqueIds, BatchesInOrder, DeliveredWasPublished

\* The next event of a pass is the oldest of its batch.
LEMMA NextIsOldest ==
  ASSUME DrainInv, NEW d \in Drainers, NEW x \in NextOf(d)
  PROVE  x \in batch[d] /\ x \in log /\ \A z \in batch[d] : ~(z.id < x.id)
<1>1. x \in batch[d] /\ x \in log
  BY DEF NextOf, Oldest, BatchesInOrder, DrainInv
<1>2. IsFiniteSet(batch[d])
  BY FS_Subset DEF DrainInv, BatchesInOrder, UniqueIds
<1> QED BY <1>1, <1>2, OldestIsFirst DEF NextOf

\* While one pass runs, the others have nothing in hand.
LEMMA OthersIdle ==
  ASSUME PassInv, ~overlapped, NEW d \in Drainers, step[d] # "waiting",
         NEW c \in Drainers, c # d
  PROVE  step[c] = "waiting" /\ batch[c] = {} /\ sent[c] = {}
BY DEF PassInv, OnePassInv

\* A commit: its entries are newer than all of their products and not in hand.
LEMMA WritingKeepsPass ==
  ASSUME DrainInv, PassInv, Writing
  PROVE  PassInv'
<1>1. /\ log \subseteq log'
      /\ UNCHANGED <<delivered, step, batch, sent, last_event, overlapped>>
      /\ \A e \in log' \ log, x \in log' :
           /\ e.id = x.id => e = x
           /\ x.product = e.product => ~(e.id < x.id)
  <2>1. TypeOK
    BY DEF DrainInv
  <2>2. \A x \in log' : x.id \in Nat
    BY <2>1, NewEntries DEF Entries
  <2> QED BY <2>1, <2>2, NewEntries DEF drainers, channel, counts
<1>2. ASSUME NEW e \in log' \ log
      PROVE  /\ e.id \notin delivered
             /\ \A d \in Drainers : e.id \notin sent[d] /\ e \notin batch[d]
  BY <1>1, <1>2, RowFacts
<1>3. ASSUME OnePassInv PROVE OnePassInv'
  <2>1. InTurn'
    BY <1>1, <1>2, <1>3 DEF OnePassInv, InTurn, Settled
  <2>2. NotAhead'
    BY <1>1, <1>2, <1>3 DEF OnePassInv, NotAhead
  <2> QED BY <1>1, <1>3, <2>1, <2>2 DEF OnePassInv, Settled
<1> QED BY <1>1, <1>3 DEF PassInv

\* A selection: what is older and not in the batch is marked already.
LEMMA SelectKeepsPass ==
  ASSUME DrainInv, PassInv, NEW d \in Drainers, Select(d)
  PROVE  PassInv'
<1> USE DEF database, drainers, channel, counts
<1> DEFINE S == Oldest(Pending, BatchSize)
<1>1. /\ \A c \in Drainers : /\ batch'[c] = IF c = d THEN S ELSE batch[c]
                             /\ step'[c] = IF c = d THEN "sending" ELSE step[c]
      /\ step[d] = "waiting"
      /\ UNCHANGED <<log, delivered, sent, last_event>>
  BY DEF Select, Starts, DrainInv, TypeOK
<1>2. Pending \in SUBSET Entries /\ IsFiniteSet(Pending)
  BY FS_Subset DEF Pending, DrainInv, TypeOK, UniqueIds
<1>3. ASSUME NEW y \in S, NEW x \in log, x.product = y.product, x.id < y.id
      PROVE  x.id \in delivered \/ x \in S
  <2>1. x.id \notin delivered => x \in Pending
    BY DEF Pending
  <2> QED BY <2>1, <1>2, <1>3, OldestIsClosed, DeliveryAssumption
<1>4. \A x \in S : x.id \notin delivered
  BY DEF Oldest, Pending
<1> HIDE DEF S
<1>5. batch[d] = {} /\ sent[d] = {}
  BY <1>1 DEF PassInv
<1>6. ASSUME ~overlapped' PROVE OnePassInv'
  <2>1. ~overlapped /\ \A e \in Drainers \ {d} : step[e] = "waiting"
    BY <1>6 DEF Select, Starts
  <2>2. OnePassInv
    BY <2>1 DEF PassInv
  <2>3. InTurn'
    BY <1>1, <1>3, <1>5, <2>2 DEF OnePassInv, InTurn, Settled
  <2>4. NotAhead'
    BY <1>1, <2>2 DEF OnePassInv, NotAhead
  <2>5. \A c \in Drainers : \A x \in batch'[c] : x.id \notin Settled(c)'
    BY <1>1, <1>4, <1>5, <2>2 DEF OnePassInv, Settled
  <2> QED BY <1>1, <2>1, <2>3, <2>4, <2>5 DEF OnePassInv
<1> QED BY <1>1, <1>6 DEF PassInv

\* An event of the only pass: nothing newer of its product is settled.
LEMMA EventKeepsNotAhead ==
  ASSUME DrainInv, OnePassInv, NEW d \in Drainers, NEW x \in NextOf(d), OnChannel(x)
  PROVE  \A z \in log : z.id > last_event'[z.product] =>
           /\ z # x /\ z.id # x.id
           /\ z.id \notin delivered /\ \A c \in Drainers : c = d => z.id \notin sent[c]
<1>1. x \in batch[d] /\ x \in log /\ x.id \in Nat
  BY NextIsOldest, RowFacts
<1>2. \A p \in Products : last_event'[p] = IF p = x.product THEN x.id ELSE last_event[p]
  BY RowFacts DEF OnChannel
<1>3. x.id \notin delivered /\ x.id \notin sent[d]
  BY <1>1 DEF OnePassInv, Settled
<1> SUFFICES ASSUME NEW z \in log, z.id > last_event'[z.product]
             PROVE  z.id # x.id /\ z.id \notin delivered /\ z.id \notin sent[d]
  OBVIOUS
<1>4. z.id \in Nat /\ z.product \in Products
  BY RowFacts
<1>5. CASE z.product = x.product
  <2>1. x.id < z.id
    BY <1>1, <1>2, <1>4, <1>5
  <2> QED BY <1>1, <1>3, <1>4, <1>5, <2>1 DEF OnePassInv, InTurn, Settled
<1>6. CASE z.product # x.product
  BY <1>1, <1>2, <1>4, <1>6, RowFacts DEF OnePassInv, NotAhead
<1> QED BY <1>5, <1>6

\* The last event of each product stays an entry of the log.
LEMMA EventIsEntry ==
  ASSUME DrainInv, PassInv, NEW d \in Drainers, NEW x \in NextOf(d), log' = log,
         OnChannel(x) \/ UNCHANGED <<channel, page>>
  PROVE  \A p \in Products :
           last_event'[p] # 0 => \E z \in log' : z.product = p /\ z.id = last_event'[p]
<1>1. x \in log
  BY NextIsOldest
<1>2. CASE OnChannel(x)
  <2>1. \A p \in Products : last_event'[p] = IF p = x.product THEN x.id ELSE last_event[p]
    BY <1>2, RowFacts DEF OnChannel
  <2> QED BY <1>1, <2>1 DEF PassInv
<1>3. CASE UNCHANGED <<channel, page>>
  BY <1>3 DEF PassInv, channel
<1> QED BY <1>2, <1>3

\* The steps of the pass after its selection.
LEMMA SendKeepsPass ==
  ASSUME DrainInv, PassInv, NEW d \in Drainers, Send(d)
  PROVE  PassInv'
<1> USE DEF database, drainers, channel, counts
<1>1. PICK x \in NextOf(d) :
        /\ step[d] = "sending" /\ OnChannel(x)
        /\ batch' = [batch EXCEPT ![d] = @ \ {x}]
        /\ sent' = [sent EXCEPT ![d] = @ \cup {x.id}]
        /\ step' = [step EXCEPT ![d] = IF batch[d] = {x} THEN "marking" ELSE @]
        /\ UNCHANGED <<database, delivered, counts>>
  BY DEF Send
<1>2. /\ batch'[d] = batch[d] \ {x} /\ sent'[d] = sent[d] \cup {x.id}
      /\ step'[d] # "waiting"
      /\ \A c \in Drainers \ {d} :
           batch'[c] = batch[c] /\ sent'[c] = sent[c] /\ step'[c] = step[c]
      /\ UNCHANGED <<log, delivered, overlapped>>
  BY <1>1 DEF DrainInv, TypeOK
<1>3. x \in batch[d] /\ x \in log /\ \A z \in batch[d] : ~(z.id < x.id)
  BY NextIsOldest
<1>4. ASSUME ~overlapped PROVE OnePassInv'
  <2>1. OnePassInv
    BY <1>4 DEF PassInv
  <2>2. \A c \in Drainers \ {d} : step[c] = "waiting" /\ batch[c] = {} /\ sent[c] = {}
    BY <1>1, <1>4, OthersIdle
  <2>3. \A z \in log : z.id = x.id => z = x
    BY <1>3, RowFacts
  <2>4. \A c \in Drainers : \A z \in batch'[c] : z.id \notin Settled(c)'
    BY <1>2, <1>3, <2>1, <2>2, <2>3, RowFacts DEF OnePassInv, Settled
  <2>5. ASSUME NEW w \in log, NEW y \in log, w.product = y.product, w.id < y.id
        PROVE  /\ y.id \in delivered => w.id \in delivered
               /\ y.id \in sent'[d] => w.id \in delivered \cup sent'[d]
               /\ y \in batch'[d] => w.id \in delivered \cup sent'[d] \/ w \in batch'[d]
    BY <1>2, <1>3, <2>1, <2>3, <2>5 DEF OnePassInv, InTurn, Settled
  <2>6. InTurn'
    BY <1>2, <2>2, <2>5 DEF InTurn, Settled
  <2>7. NotAhead'
    BY <1>1, <1>2, <2>1, <2>2, EventKeepsNotAhead DEF NotAhead
  <2> QED BY <1>2, <2>2, <2>4, <2>6, <2>7 DEF OnePassInv
<1> QED BY <1>1, <1>2, <1>4, EventIsEntry DEF PassInv

LEMMA SendFailsKeepsPass ==
  ASSUME DrainInv, PassInv, NEW d \in Drainers, SendFails(d)
  PROVE  PassInv'
<1> USE DEF database, drainers, channel, counts
<1>1. PICK x \in NextOf(d) :
        /\ step[d] = "sending"
        /\ OnChannel(x) \/ UNCHANGED <<channel, page>>
        /\ batch' = [batch EXCEPT ![d] = {}]
        /\ step' = [step EXCEPT ![d] = "marking"]
        /\ UNCHANGED <<database, delivered, sent, drops, overlapped>>
  BY DEF SendFails
<1>2. /\ batch'[d] = {} /\ step'[d] # "waiting"
      /\ \A c \in Drainers \ {d} : batch'[c] = batch[c] /\ step'[c] = step[c]
      /\ UNCHANGED <<log, delivered, sent, overlapped>>
  BY <1>1 DEF DrainInv, TypeOK
<1>3. ASSUME ~overlapped PROVE OnePassInv'
  <2>1. OnePassInv
    BY <1>3 DEF PassInv
  <2>2. \A c \in Drainers \ {d} : step[c] = "waiting" /\ batch[c] = {} /\ sent[c] = {}
    BY <1>1, <1>3, OthersIdle
  <2>3. InTurn'
    BY <1>2, <2>1 DEF OnePassInv, InTurn, Settled
  <2>4. NotAhead'
    <3>1. CASE OnChannel(x)
      BY <3>1, <1>2, <2>1, <2>2, EventKeepsNotAhead DEF NotAhead
    <3>2. CASE UNCHANGED <<channel, page>>
      BY <3>2, <1>2, <2>1 DEF OnePassInv, NotAhead
    <3> QED BY <1>1, <3>1, <3>2
  <2> QED BY <1>2, <2>1, <2>2, <2>3, <2>4 DEF OnePassInv, Settled
<1> QED BY <1>1, <1>2, <1>3, EventIsEntry DEF PassInv

LEMMA EndKeepsPass ==
  ASSUME DrainInv, PassInv, NEW d \in Drainers, Mark(d) \/ Fail(d)
  PROVE  PassInv'
<1> USE DEF database, drainers, channel, counts
<1>1. /\ step[d] # "waiting"
      /\ batch'[d] = {} /\ sent'[d] = {} /\ step'[d] = "waiting"
      /\ \A c \in Drainers \ {d} :
           batch'[c] = batch[c] /\ sent'[c] = sent[c] /\ step'[c] = step[c]
      /\ delivered' = delivered \/ delivered' = Settled(d)
      /\ UNCHANGED <<log, last_event, overlapped>>
  BY DEF Mark, Fail, Done, Settled, DrainInv, TypeOK
<1>2. ASSUME ~overlapped PROVE OnePassInv'
  <2>1. OnePassInv
    BY <1>2 DEF PassInv
  <2>2. \A c \in Drainers \ {d} : step[c] = "waiting" /\ batch[c] = {} /\ sent[c] = {}
    BY <1>1, <1>2, OthersIdle
  <2>3. \A c \in Drainers : batch'[c] = {} /\ sent'[c] = {}
    BY <1>1, <2>2
  <2>4. InTurn'
    BY <1>1, <2>1, <2>3 DEF OnePassInv, InTurn, Settled
  <2>5. NotAhead'
    BY <1>1, <2>1, <2>3 DEF OnePassInv, NotAhead, Settled
  <2> QED BY <1>1, <2>2, <2>3, <2>4, <2>5 DEF OnePassInv
<1> QED BY <1>1, <1>2 DEF PassInv

LEMMA PassStep ==
  ASSUME DrainInv, PassInv, [Next]_vars
  PROVE  PassInv'
<1>1. CASE UNCHANGED <<log, delivered, drainers, channel, overlapped>>
  BY <1>1 DEF PassInv, OnePassInv, InTurn, NotAhead, Settled, drainers, channel
<1>2. CASE Writing
  BY <1>2, WritingKeepsPass
<1>3. ASSUME NEW d \in Drainers, Drain(d) \/ SendFails(d) \/ Fail(d)
      PROVE  PassInv'
  BY <1>3, SelectKeepsPass, SendKeepsPass, SendFailsKeepsPass, EndKeepsPass DEF Drain
<1>4. ASSUME NEW b \in Pages, View(b) \/ Load(b) \/ Drop(b)
      PROVE  PassInv'
  <2>1. UNCHANGED <<log, delivered, drainers, channel, overlapped>>
    BY <1>4 DEF View, Connect, Receive, Load, Drop, database, counts
  <2> QED BY <1>1, <2>1
<1>5. CASE UNCHANGED vars
  BY <1>1, <1>5 DEF vars, database, counts
<1> QED BY <1>2, <1>3, <1>4, <1>5 DEF Next

-----------------------------------------------------------------------------
\* Last the pages.

PageOK(b) ==
  /\ page[b].at # "open" => page[b].pipe = <<>>
  /\ \A i \in DOMAIN page[b].pipe : page[b].pipe[i] \in log
  /\ \A p \in Products :
       /\ page[b].shown[p] # 0 =>
            \E x \in log : x.product = p /\ x.id = page[b].shown[p]
       /\ page[b].shown[p] # 0 /\ p \notin page[b].missed => Follows(b, p)

LEMMA PageFacts ==
  ASSUME DrainInv, NEW b \in Pages
  PROVE  /\ page \in [Pages -> PageType] /\ page[b] \in PageType
         /\ page[b].pipe \in Seq(Entries) /\ page[b].shown \in [Products -> Nat]
         /\ DOMAIN page[b].pipe = 1..Len(page[b].pipe) /\ Len(page[b].pipe) \in Nat
<1>1. page \in [Pages -> PageType] /\ page[b] \in PageType
  BY DEF DrainInv, TypeOK, PageType
<1> QED BY <1>1 DEF PageType

\* A commit: what is new has not been on the channel.
LEMMA WritingKeepsPages ==
  ASSUME DrainInv, PageInv, Writing
  PROVE  PageInv'
<1>1. /\ log \subseteq log' /\ UNCHANGED <<page, published, last_event>>
      /\ \A e \in log' \ log, x \in log' : e.id = x.id => e = x
  BY NewEntries DEF DrainInv, channel
<1>2. ASSUME NEW e \in log' \ log PROVE e.id \notin published
  BY <1>1, <1>2, RowFacts
<1>3. ASSUME NEW b \in Pages, NEW q \in Products, Follows(b, q) PROVE Follows(b, q)'
  BY <1>1, <1>2, <1>3 DEF Follows, LastOnWay
<1> QED BY <1>1, <1>3 DEF PageInv

\* An event: every open page has it on its way, behind all others.
LEMMA EventKeepsPages ==
  ASSUME DrainInv, PageInv, NEW x \in log, OnChannel(x), log' = log
  PROVE  PageInv'
<1>0. x \in Entries /\ x.id \in Nat
  BY DEF DrainInv, TypeOK, Entries
<1>1. /\ published' = published \cup {x.id}
      /\ \A p \in Products : last_event'[p] = IF p = x.product THEN x.id ELSE last_event[p]
  BY RowFacts DEF OnChannel
<1> SUFFICES ASSUME NEW b \in Pages PROVE PageOK(b)'
  BY DEF PageInv, PageOK
<1>2. PageOK(b)
  BY DEF PageInv, PageOK
<1> DEFINE q == page[b].pipe
<1>3. /\ q \in Seq(Entries) /\ DOMAIN q = 1..Len(q) /\ Len(q) \in Nat
      /\ page[b] \in PageType
  BY PageFacts
<1>4. CASE page[b].at = "open"
  <2>1. page'[b] = [page[b] EXCEPT !.pipe = Append(q, x),
                                   !.missed = page[b].missed \ {x.product}]
    BY <1>4 DEF OnChannel
  <2>2. /\ page'[b].pipe = Append(q, x) /\ page'[b].at = page[b].at
        /\ page'[b].shown = page[b].shown
        /\ page'[b].missed = page[b].missed \ {x.product}
    BY <2>1, <1>3 DEF PageType
  <2> DEFINE r == page'[b].pipe
  <2>3. /\ DOMAIN r = 1..(Len(q) + 1) /\ r[Len(q) + 1] = x
        /\ \A i \in 1..Len(q) : r[i] = q[i]
    BY <1>0, <1>3, <2>2
  <2>4. \A i \in DOMAIN r : i \in DOMAIN q \/ i = Len(q) + 1
    BY <1>3, <2>3
  <2>5. \A i \in DOMAIN q : i \in DOMAIN r /\ i <= Len(q) /\ ~(Len(q) + 1 <= i)
    BY <1>3, <2>3
  <2> HIDE DEF q, r
  <2>6. ASSUME NEW p \in Products, p = x.product \/ Follows(b, p)
        PROVE  Follows(b, p)'
    <3>1. CASE p = x.product
      <4>1. ASSUME NEW i \in DOMAIN r, LastOnWay(b, p, i)' PROVE r[i].id = last_event'[p]
        <5>1. Len(q) + 1 <= i
          BY <2>3, <1>3, <3>1, <4>1 DEF LastOnWay, r
        <5> QED BY <5>1, <1>1, <2>3, <2>4, <2>5, <3>1
      <4>2. r[Len(q) + 1].product = p /\ Len(q) + 1 \in DOMAIN r
        BY <1>3, <2>3, <3>1
      <4> QED BY <4>1, <4>2 DEF Follows, r
    <3>2. CASE p # x.product
      <4>1. ASSUME NEW i \in DOMAIN r, LastOnWay(b, p, i)' PROVE r[i].id = last_event'[p]
        <5>1. i \in DOMAIN q /\ r[i] = q[i]
          BY <1>3, <2>3, <2>4, <3>2, <4>1 DEF LastOnWay, r
        <5>2. LastOnWay(b, p, i)
          BY <5>1, <1>3, <2>3, <2>5, <4>1 DEF LastOnWay, q, r
        <5> QED BY <5>1, <5>2, <1>1, <2>6, <3>2 DEF Follows, q
      <4>2. ASSUME \A i \in DOMAIN r : r[i].product # p
            PROVE  \A i \in DOMAIN q : q[i].product # p
        BY <4>2, <1>3, <2>3, <2>5
      <4>3. \A z \in log : z.product = p => z.id # x.id
        BY <3>2, RowFacts
      <4>4. ASSUME \A i \in DOMAIN q : q[i].product # p
            PROVE  \/ page[b].shown[p] = last_event[p]
                   \/ \A z \in log : z.product = p /\ z.id > page[b].shown[p]
                                     => z.id \notin published
        BY <3>2, <4>4, <2>6 DEF Follows, q
      <4>5. ASSUME \A i \in DOMAIN r : r[i].product # p
            PROVE  \/ page'[b].shown[p] = last_event'[p]
                   \/ \A z \in log' : z.product = p /\ z.id > page'[b].shown[p]
                                     => z.id \notin published'
        BY <4>2, <4>3, <4>4, <4>5, <1>1, <2>2, <3>2
      <4> QED BY <4>1, <4>5 DEF Follows, r
    <3> QED BY <3>1, <3>2
  <2>7. \A i \in DOMAIN r : r[i] \in log'
    BY <1>2, <1>3, <2>3, <2>4 DEF PageOK, q
  <2> QED BY <1>2, <2>2, <2>6, <2>7, <1>4 DEF PageOK, r
<1>5. CASE page[b].at # "open"
  <2>1. PICK m \in {page[b].missed \ {x.product}, page[b].missed \cup {x.product}} :
          /\ page'[b] = [page[b] EXCEPT !.missed = m]
          /\ x.product \notin m => page[b].shown[x.product] \in {0, x.id}
    BY <1>5 DEF OnChannel
  <2>2. /\ page'[b].pipe = q /\ page'[b].at = page[b].at
        /\ page'[b].shown = page[b].shown /\ page'[b].missed = m /\ q = <<>>
    BY <1>2, <1>3, <1>5, <2>1 DEF PageType, PageOK
  <2>3. ASSUME NEW p \in Products, page'[b].shown[p] # 0, p \notin page'[b].missed
        PROVE  Follows(b, p)'
    <3>1. CASE p = x.product
      <4>1. page'[b].shown[p] = last_event'[p] /\ DOMAIN page'[b].pipe = {}
        BY <1>1, <2>1, <2>2, <2>3, <3>1
      <4> QED BY <4>1 DEF Follows
    <3>2. CASE p # x.product
      <4>1. Follows(b, p)
        BY <1>2, <2>1, <2>2, <2>3, <3>2 DEF PageOK
      <4>2. \A z \in log : z.product = p => z.id # x.id
        BY <3>2, RowFacts
      <4> QED BY <1>1, <2>2, <3>2, <4>1, <4>2 DEF Follows, LastOnWay
    <3> QED BY <3>1, <3>2
  <2> QED BY <1>2, <1>5, <2>2, <2>3 DEF PageOK
<1> QED BY <1>4, <1>5

\* A page receives the oldest event on its way.
LEMMA ReceiveKeepsPage ==
  ASSUME DrainInv, BoardInv, PageInv, NEW b \in Pages, Receive(b)
  PROVE  PageOK(b)'
<1> USE DEF database, drainers, channel, counts
<1>0. PageOK(b)
  BY DEF PageInv, PageOK
<1> DEFINE q == page[b].pipe
           h == Head(q)
<1>1. /\ q \in Seq(Entries) /\ DOMAIN q = 1..Len(q) /\ Len(q) \in Nat
      /\ page \in [Pages -> PageType] /\ page[b] \in PageType
      /\ page[b].shown \in [Products -> Nat] /\ q # <<>>
  BY PageFacts DEF Receive
<1>2. /\ Len(q) > 0 /\ h = q[1] /\ h \in log
      /\ h.rate = h.id /\ h.id \in Nat /\ h.product \in Products
  <2>1. Len(q) > 0 /\ h = q[1] /\ 1 \in DOMAIN q
    BY <1>1
  <2>2. h \in log
    BY <1>0, <2>1 DEF PageOK
  <2> QED BY <2>1, <2>2, RowFacts DEF BoardInv
<1>3. /\ page'[b].pipe = Tail(q) /\ page'[b].at = page[b].at /\ page[b].at = "open"
      /\ page'[b].missed = page[b].missed
      /\ \A p \in Products :
           page'[b].shown[p] = IF p = h.product /\ page[b].shown[p] # 0
                               THEN h.id ELSE page[b].shown[p]
      /\ UNCHANGED <<log, published, last_event>>
  BY <1>1, <1>2 DEF Receive, PageType
<1> DEFINE r == page'[b].pipe
<1>4. /\ DOMAIN r = 1..(Len(q) - 1)
      /\ \A i \in 1..(Len(q) - 1) : r[i] = q[i + 1]
  BY <1>1, <1>2, <1>3
<1>5. /\ \A i \in DOMAIN r : i + 1 \in DOMAIN q /\ r[i] = q[i + 1]
      /\ \A j \in DOMAIN q : j = 1 \/ (j - 1 \in DOMAIN r /\ r[j - 1] = q[j])
      /\ \A i \in DOMAIN r : i \in Int
      /\ \A j \in DOMAIN q : j \in Int /\ 1 <= j
  BY <1>1, <1>2, <1>4
<1>a. 1 \in DOMAIN q /\ h = q[1]
  BY <1>1, <1>2
<1> HIDE DEF q, h, r
<1>6. ASSUME NEW p \in Products, page[b].shown[p] # 0, Follows(b, p)
      PROVE  Follows(b, p)'
  <2>1. ASSUME NEW i \in DOMAIN r, LastOnWay(b, p, i)' PROVE r[i].id = last_event'[p]
    <3>1. i + 1 \in DOMAIN q /\ q[i + 1].product = p
      BY <1>5, <2>1 DEF LastOnWay, r
    <3>2. \A j \in DOMAIN q : q[j].product = p => j <= i + 1
      BY <1>5, <2>1 DEF LastOnWay, r
    <3>3. LastOnWay(b, p, i + 1)
      BY <3>1, <3>2 DEF LastOnWay, q
    <3> QED BY <3>1, <3>3, <1>3, <1>5, <1>6 DEF Follows, q
  <2>2. ASSUME \A i \in DOMAIN r : r[i].product # p
        PROVE  \/ page'[b].shown[p] = last_event'[p]
               \/ \A z \in log' : z.product = p /\ z.id > page'[b].shown[p]
                                 => z.id \notin published'
    <3>1. CASE h.product = p
      <4>1. \A j \in DOMAIN q : q[j].product = p => j <= 1
        BY <1>5, <2>2
      <4>2. LastOnWay(b, p, 1)
        BY <1>a, <3>1, <4>1 DEF LastOnWay, q
      <4>3. h.id = last_event[p]
        BY <1>a, <1>6, <4>2 DEF Follows, q
      <4> QED BY <1>3, <1>6, <3>1, <4>3
    <3>2. CASE h.product # p
      <4>1. \A j \in DOMAIN q : q[j].product # p
        BY <1>5, <1>a, <2>2, <3>2
      <4> QED BY <1>3, <1>6, <3>2, <4>1 DEF Follows, q
    <3> QED BY <3>1, <3>2
  <2> QED BY <2>1, <2>2 DEF Follows, r
<1>7. \A i \in DOMAIN r : r[i] \in log'
  BY <1>0, <1>3, <1>5 DEF PageOK, q
<1>8. \A p \in Products : page'[b].shown[p] # 0 =>
        /\ page[b].shown[p] # 0
        /\ \E x \in log' : x.product = p /\ x.id = page'[b].shown[p]
  BY <1>0, <1>2, <1>3 DEF PageOK
<1> QED BY <1>0, <1>3, <1>6, <1>7, <1>8 DEF PageOK, r

\* Loading, connecting and losing the connection.
LEMMA ConnectionKeepsPage ==
  ASSUME DrainInv, BoardInv, PageInv, NEW b \in Pages, Load(b) \/ Connect(b) \/ Drop(b)
  PROVE  PageOK(b)'
<1> USE DEF database, drainers, channel, counts
<1>0. PageOK(b)
  BY DEF PageInv, PageOK
<1>1. page \in [Pages -> PageType] /\ page[b] \in PageType
  BY PageFacts
<1>2. UNCHANGED <<log, published, last_event>>
  BY DEF Load, Connect, Drop
<1>3. CASE Load(b)
  <2>1. PICK enabled \in SUBSET Products :
          page'[b] = [Away EXCEPT !.at = "loaded",
                        !.shown = [p \in Products |->
                                     IF p \in enabled THEN current[p] ELSE 0]]
    BY <1>1, <1>3 DEF Load
  <2>2. /\ \A p \in Products : page'[b].shown[p] \in {0, current[p]}
        /\ page'[b].pipe = <<>>
    BY <2>1 DEF Away
  <2>3. \A p \in Products, x \in log : x.product = p => ~(x.id > current[p])
    BY RowFacts DEF BoardInv, DrainInv, TypeOK
  <2>4. \A p \in Products : page'[b].shown[p] # 0 => Follows(b, p)'
    BY <1>2, <2>2, <2>3 DEF Follows, LastOnWay
  <2> QED BY <1>2, <2>2, <2>4 DEF PageOK, BoardInv
<1>4. CASE Connect(b)
  <2>1. page'[b] = [page[b] EXCEPT !.at = "open"]
    BY <1>1, <1>4 DEF Connect
  <2>2. /\ page'[b].shown = page[b].shown /\ page'[b].pipe = page[b].pipe
        /\ page'[b].missed = page[b].missed /\ page'[b].at = "open"
        /\ page[b].at # "away"
    BY <1>1, <1>4, <2>1 DEF Connect, PageType
  <2>3. \A p \in Products : Follows(b, p) => Follows(b, p)'
    BY <1>2, <2>2 DEF Follows, LastOnWay
  <2> QED BY <1>0, <1>2, <2>2, <2>3 DEF PageOK
<1>5. CASE Drop(b)
  <2> DEFINE m == page[b].missed \cup
                    {page[b].pipe[i].product : i \in DOMAIN page[b].pipe}
             e == << >>
  <2>1. page'[b] = [page[b] EXCEPT !.at = "dropped", !.pipe = e, !.missed = m]
    BY <1>1, <1>5 DEF Drop
  <2>2. /\ page'[b].shown = page[b].shown /\ page'[b].pipe = e
        /\ page'[b].missed = m /\ page[b].at = "open"
    BY <1>1, <1>5, <2>1 DEF Drop, PageType
  <2>3. ASSUME NEW p \in Products, p \notin m
        PROVE  p \notin page[b].missed
               /\ \A i \in DOMAIN page[b].pipe : page[b].pipe[i].product # p
    BY <2>3
  <2>4. DOMAIN page'[b].pipe = {} /\ page'[b].pipe = <<>>
    BY <2>2
  <2> HIDE DEF m, e
  <2>5. ASSUME NEW p \in Products, p \notin m, Follows(b, p) PROVE Follows(b, p)'
    BY <1>2, <2>2, <2>3, <2>4, <2>5 DEF Follows, LastOnWay
  <2> QED BY <1>0, <1>2, <2>2, <2>3, <2>4, <2>5 DEF PageOK
<1> QED BY <1>3, <1>4, <1>5

LEMMA PageStep ==
  ASSUME DrainInv, BoardInv, PageInv, [Next]_vars
  PROVE  PageInv'
<1> USE DEF database, drainers, channel, counts
<1>1. CASE UNCHANGED <<log, published, last_event, page>>
  BY <1>1 DEF PageInv, Follows, LastOnWay
<1>2. CASE Writing
  BY <1>2, WritingKeepsPages
<1>3. ASSUME NEW d \in Drainers, Drain(d) \/ SendFails(d) \/ Fail(d)
      PROVE  PageInv'
  <2>1. \/ UNCHANGED <<log, published, last_event, page>>
        \/ \E x \in NextOf(d) : OnChannel(x) /\ log' = log
    BY <1>3 DEF Drain, Select, Send, Mark, SendFails, Fail
  <2>2. ASSUME NEW x \in NextOf(d), OnChannel(x), log' = log PROVE PageInv'
    <3>1. x \in log
      BY NextIsOldest
    <3> QED BY <2>2, <3>1, EventKeepsPages
  <2> QED BY <1>1, <2>1, <2>2
<1>4. ASSUME NEW b \in Pages, View(b) \/ Load(b) \/ Drop(b)
      PROVE  PageInv'
  <2>1. PageOK(b)'
    BY <1>4, ReceiveKeepsPage, ConnectionKeepsPage DEF View
  <2>2. /\ UNCHANGED <<log, published, last_event>>
        /\ \A c \in Pages \ {b} : page'[c] = page[c]
    BY <1>4 DEF View, Connect, Receive, Load, Drop, DrainInv, TypeOK
  <2>3. ASSUME NEW c \in Pages, c # b PROVE PageOK(c)'
    <3>1. PageOK(c) /\ page'[c] = page[c]
      BY <2>2, <2>3 DEF PageInv, PageOK
    <3>2. \A p \in Products : Follows(c, p) => Follows(c, p)'
      BY <2>2, <3>1 DEF Follows, LastOnWay
    <3> QED BY <2>2, <3>1, <3>2 DEF PageOK
  <2> QED BY <2>1, <2>3 DEF PageInv, PageOK
<1>5. CASE UNCHANGED vars
  BY <1>1, <1>5 DEF vars
<1> QED BY <1>2, <1>3, <1>4, <1>5 DEF Next

-----------------------------------------------------------------------------
LEMMA QuietStep == QuietInv /\ [Next]_vars => QuietInv'
BY StepInv, BoardStep, PassStep, PageStep DEF QuietInv

LEMMA QuietInit == Init => QuietInv
<1> SUFFICES ASSUME Init PROVE QuietInv
  OBVIOUS
<1>1. DrainInv
  BY InitInv
<1>2. BoardInv
  BY DEF Init, BoardInv
<1>3. PassInv
  BY DEF Init, PassInv, OnePassInv, InTurn, NotAhead
<1>4. PageInv
  <2>1. \A b \in Pages : page[b].pipe = <<>> /\ page[b].at = "away"
                         /\ \A p \in Products : page[b].shown[p] = 0
    BY DEF Init, Away
  <2> QED BY <2>1 DEF PageInv
<1> QED BY <1>1, <1>2, <1>3, <1>4 DEF QuietInv

\* In a state of the invariant with every row marked, channel, board and the
\* pages that follow agree.
LEMMA QuietIsRight == QuietInv => QuietMeansCurrent
<1> SUFFICES ASSUME QuietInv, Pending = {}, ~overlapped
             PROVE  /\ last_event = current
                    /\ \A b \in Pages : page[b].pipe = <<>> =>
                         \A p \in Followed(b) : page[b].shown[p] = current[p]
  BY DEF QuietMeansCurrent
<1>0. DrainInv /\ BoardInv /\ PassInv /\ PageInv /\ OnePassInv
  BY DEF QuietInv, PassInv
<1>1. \A x \in log : /\ x.id \in delivered /\ x.id \in published
                     /\ x.id \in Nat /\ x.product \in Products
                     /\ x.id > 0
  <2>1. \A x \in log : x.id \in delivered
    BY DEF Pending
  <2> QED BY <2>1, <1>0, RowFacts DEF DrainInv, UniqueIds, TypeOK
<1>2. current \in [Products -> Nat] /\ last_event \in [Products -> Nat]
  BY <1>0 DEF DrainInv, TypeOK
<1>3. ASSUME NEW p \in Products PROVE last_event[p] = current[p]
  <2>1. last_event[p] # 0 => last_event[p] <= current[p]
    BY <1>0 DEF PassInv, BoardInv
  <2>2. current[p] # 0 => current[p] <= last_event[p]
    BY <1>0, <1>1, <1>2 DEF BoardInv, OnePassInv, NotAhead
  <2> QED BY <1>2, <2>1, <2>2
<1>4. last_event = current
  BY <1>2, <1>3
<1>5. ASSUME NEW b \in Pages, page[b].pipe = <<>>, NEW p \in Followed(b)
      PROVE  page[b].shown[p] = current[p]
  <2>1. page[b].shown \in [Products -> Nat] /\ DOMAIN page[b].pipe = {}
    BY <1>0, <1>5, PageFacts
  <2>2. p \in Products /\ page[b].shown[p] # 0 /\ p \notin page[b].missed
    BY DEF Followed
  <2>3. Follows(b, p)
    BY <1>0, <2>2 DEF PageInv
  <2>4. \/ page[b].shown[p] = last_event[p]
        \/ \A x \in log : x.product = p => ~(x.id > page[b].shown[p])
    BY <1>1, <2>1, <2>2, <2>3 DEF Follows
  <2>5. PICK x \in log : x.product = p /\ x.id = page[b].shown[p]
    BY <1>0, <2>2 DEF PageInv
  <2>6. page[b].shown[p] <= current[p] /\ page[b].shown[p] \in Nat /\ current[p] \in Nat
    BY <1>0, <1>2, <2>1, <2>2, <2>5 DEF BoardInv
  <2>7. PICK y \in log : y.product = p /\ y.id = current[p]
    BY <1>0, <2>2, <2>6 DEF BoardInv
  <2> QED BY <1>3, <2>2, <2>4, <2>6, <2>7
<1> QED BY <1>4, <1>5

\* End to end: once every row is marked and passes have not overlapped, customers
\* who followed the stream see the current rates (outbox_publisher.ts:9-24).
THEOREM QuietIsCurrent == Spec => []QuietMeansCurrent
BY QuietInit, QuietStep, QuietIsRight, PTL DEF Spec
=============================================================================
