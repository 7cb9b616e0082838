--------------------------- MODULE MarketFeedProofs ---------------------------
(***************************************************************************)
(* Theorems about MarketFeed, for any symbols, prices and thresholds, any  *)
(* window of remembered ids, and any number of faults.                     *)
(***************************************************************************)
EXTENDS MarketFeed, FiniteSetTheorems, SequenceTheorems, TLAPS

-----------------------------------------------------------------------------
(* The selection of a part of a sequence.                                  *)

\* The place of position i among the positions P, from zero.
Rank(P, i) == Cardinality({j \in P : j < i})

\* Each place is taken by one position.
LEMMA EveryPlaceTaken ==
  ASSUME NEW P \in SUBSET Int, IsFiniteSet(P), NEW k \in 1..Cardinality(P)
  PROVE  \E i \in P : Rank(P, i) = k - 1
<1> DEFINE n    == Cardinality(P)
           rank == [i \in P |-> Rank(P, i)]
<1>1. n \in Nat
  BY FS_CardinalityType
<1>2. ASSUME NEW i \in P PROVE Rank(P, i) \in 0..(n - 1)
  <2>1. /\ IsFiniteSet({j \in P : j < i})
        /\ Rank(P, i) <= n /\ (n = Rank(P, i) => P = {j \in P : j < i})
    BY FS_Subset DEF Rank
  <2>2. Rank(P, i) \in Nat
    BY <2>1, FS_CardinalityType DEF Rank
  <2>3. P # {j \in P : j < i}
    OBVIOUS
  <2> QED BY <1>1, <2>1, <2>2, <2>3
<1>3. ASSUME NEW i \in P, NEW j \in P, i < j PROVE Rank(P, i) < Rank(P, j)
  <2> DEFINE I == {x \in P : x < i}
             J == {x \in P : x < j}
  <2>1. IsFiniteSet(J)
    BY FS_Subset
  <2>0. I \in SUBSET J
    <3>1. i \in Int /\ j \in Int /\ \A x \in P : x \in Int
      OBVIOUS
    <3>2. \A x \in P : x < i => x < j
      BY <1>3, <3>1
    <3> QED BY <3>2
  <2>2. I # J
    BY <1>3
  <2>3. Cardinality(I) <= Cardinality(J) /\ Cardinality(I) # Cardinality(J)
    BY <2>0, <2>1, <2>2, FS_Subset
  <2>4. Rank(P, i) = Cardinality(I) /\ Rank(P, j) = Cardinality(J)
    BY DEF Rank
  <2> QED BY <1>2, <2>3, <2>4
<1>4. \A i, j \in P : rank[i] = rank[j] => i = j
  <2> SUFFICES ASSUME NEW i \in P, NEW j \in P, i # j PROVE Rank(P, i) # Rank(P, j)
    OBVIOUS
  <2>1. i < j \/ j < i
    OBVIOUS
  <2> QED BY <1>2, <1>3, <2>1
<1>5. rank \in Injection(P, 0..(n - 1))
  BY <1>2, <1>4 DEF Injection, IsInjective
<1>6. IsFiniteSet(0..(n - 1)) /\ Cardinality(0..(n - 1)) = n
  <2>1. n - 1 \in Int /\ 0 \in Int
    BY <1>1
  <2>2. /\ IsFiniteSet(0..(n - 1))
        /\ Cardinality(0..(n - 1)) = IF 0 > n - 1 THEN 0 ELSE (n - 1) - 0 + 1
    BY <2>1, FS_Interval
  <2> HIDE DEF n
  <2> QED BY <1>1, <2>2
<1>7. rank \in Surjection(P, 0..(n - 1))
  BY <1>5, <1>6, FS_Injection
<1>8. k - 1 \in 0..(n - 1)
  BY <1>1
<1>9. PICK i \in P : rank[i] = k - 1
  BY <1>7, <1>8 DEF Surjection
<1> QED BY <1>9

\* A part has elements of the sequence only, each position's once.
LEMMA PartOf ==
  ASSUME NEW S, NEW row \in Seq(S), NEW P \in SUBSET DOMAIN row
  PROVE  /\ Part(row, P) \in Seq(S)
         /\ \A k \in DOMAIN Part(row, P) : \E i \in P : Part(row, P)[k] = row[i]
         /\ \A k, l \in DOMAIN Part(row, P) : k # l =>
              \E i, j \in P : /\ i # j /\ Part(row, P)[k] = row[i]
                              /\ Part(row, P)[l] = row[j]
<1> DEFINE n     == Cardinality(P)
           at(k) == CHOOSE i \in P : Rank(P, i) = k - 1
<1>1. DOMAIN row = 1..Len(row) /\ Len(row) \in Nat /\ \A i \in DOMAIN row : row[i] \in S
  OBVIOUS
<1>2. IsFiniteSet(P) /\ n \in Nat /\ P \in SUBSET Int
  <2>1. IsFiniteSet(1..Len(row))
    BY <1>1, FS_Interval
  <2>2. IsFiniteSet(P)
    BY <1>1, <2>1, FS_Subset
  <2> QED BY <1>1, <2>2, FS_CardinalityType
<1>3. \A k \in 1..n : at(k) \in P /\ Rank(P, at(k)) = k - 1
  BY <1>2, EveryPlaceTaken
<1>4. Part(row, P) = [k \in 1..n |-> row[at(k)]]
  BY DEF Part, Rank
<1>5. \A k, l \in 1..n : k # l => at(k) # at(l)
  BY <1>3
<1> HIDE DEF n, at
<1>6. DOMAIN Part(row, P) = 1..n
  BY <1>4
<1>7. \A k \in 1..n : Part(row, P)[k] = row[at(k)] /\ row[at(k)] \in S
  BY <1>1, <1>3, <1>4
<1>8. Part(row, P) \in Seq(S)
  BY <1>2, <1>4, <1>7
<1> QED BY <1>3, <1>5, <1>6, <1>7, <1>8

\* One sequence after another.
LEMMA Joined ==
  ASSUME NEW S, NEW a \in Seq(S), NEW b \in Seq(S)
  PROVE  /\ a \o b \in Seq(S) /\ Len(a \o b) = Len(a) + Len(b)
         /\ DOMAIN (a \o b) = 1..(Len(a) + Len(b))
         /\ \A i \in 1..Len(a) : (a \o b)[i] = a[i]
         /\ \A i \in 1..(Len(a) + Len(b)) : ~(i <= Len(a)) =>
              i - Len(a) \in 1..Len(b) /\ (a \o b)[i] = b[i - Len(a)]
<1>1. Len(a) \in Nat /\ Len(b) \in Nat /\ a \o b \in Seq(S)
  OBVIOUS
<1>2. Len(a \o b) = Len(a) + Len(b)
  OBVIOUS
<1>3. DOMAIN (a \o b) = 1..(Len(a) + Len(b))
  BY <1>1, <1>2
<1>4. \A i \in 1..Len(a) : (a \o b)[i] = a[i]
  BY <1>1
<1>5. ASSUME NEW i \in 1..(Len(a) + Len(b)), ~(i <= Len(a))
      PROVE i - Len(a) \in 1..Len(b) /\ (a \o b)[i] = b[i - Len(a)]
  BY <1>1, <1>5
<1> QED BY <1>1, <1>2, <1>3, <1>4, <1>5

-----------------------------------------------------------------------------
(* What is ingested.                                                       *)

\* What is accepted passes, is part of what came, and has a symbol once if
\* what came has.
LEMMA AcceptedPasses ==
  ASSUME NEW payloads \in Seq(Quotes)
  PROVE  /\ Accepted(payloads) \in Seq(Quotes)
         /\ \A k \in DOMAIN Accepted(payloads) :
              /\ Passes(Accepted(payloads)[k])
              /\ \E i \in DOMAIN payloads : Accepted(payloads)[k] = payloads[i]
         /\ OnePerSymbol(payloads) => OnePerSymbol(Accepted(payloads))
<1> DEFINE P == {i \in DOMAIN payloads : Passes(payloads[i])}
<1>1. P \in SUBSET DOMAIN payloads
  OBVIOUS
<1>4. \A i \in P : i \in DOMAIN payloads /\ Passes(payloads[i])
  OBVIOUS
<1>3. Accepted(payloads) = Part(payloads, P)
  BY DEF Accepted
<1> HIDE DEF P
<1>2. /\ Part(payloads, P) \in Seq(Quotes)
      /\ \A k \in DOMAIN Part(payloads, P) :
           \E i \in P : Part(payloads, P)[k] = payloads[i]
      /\ \A k, l \in DOMAIN Part(payloads, P) : k # l =>
           \E i, j \in P : /\ i # j /\ Part(payloads, P)[k] = payloads[i]
                           /\ Part(payloads, P)[l] = payloads[j]
  BY <1>1, PartOf
<1> QED BY <1>2, <1>3, <1>4 DEF OnePerSymbol

LEMMA PlaceIsInt == ASSUME NEW q \in Quotes PROVE Place(q) \in Int
BY DEF Place, Quotes

LEMMA IdIsPair == ASSUME NEW q \in Quotes PROVE QuoteId(q) \in Int \X Nat
BY DEF QuoteId, Quotes

StreamType == [last : Quotes \cup {NoQuote}, recent : Seq(Int \X Nat)]

LEMMA RememberType ==
  ASSUME NEW known \in StreamType, NEW q \in Quotes, Len(known.recent) <= Window
  PROVE  /\ Remember(known, q) \in StreamType /\ Remember(known, q).last = q
         /\ Len(Remember(known, q).recent) <= Window
<1> DEFINE ids == Append(known.recent, QuoteId(q))
<1>1. known.recent \in Seq(Int \X Nat)
  BY DEF StreamType
<1>2. ids \in Seq(Int \X Nat) /\ Len(ids) = Len(known.recent) + 1
  BY <1>1, IdIsPair
<1>3. Tail(ids) \in Seq(Int \X Nat) /\ Len(Tail(ids)) = Len(ids) - 1
  <2> HIDE DEF ids
  <2>1. Len(ids) > 0
    BY <1>1, <1>2
  <2>2. ids # <<>>
    BY <2>1
  <2> QED BY <1>2, <2>2
<1>4. Len(known.recent) \in Nat /\ Window \in Nat
  BY <1>1, FeedAssumption
<1>5. Remember(known, q) =
        [last |-> q, recent |-> IF Len(ids) > Window THEN Tail(ids) ELSE ids]
  BY DEF Remember
<1> HIDE DEF ids
<1> QED BY <1>2, <1>3, <1>4, <1>5 DEF StreamType

\* A stream keeps its last quote or takes an accepted one, which is newer.
LEMMA StreamMoves ==
  ASSUME TypeOK, NEW payloads \in Seq(Quotes), OnePerSymbol(payloads)
  PROVE  /\ StreamAfter(payloads) \in [Symbols -> StreamType]
         /\ \A s \in Symbols : Len(StreamAfter(payloads)[s].recent) <= Window
         /\ \A s \in Symbols :
              \/ /\ StreamAfter(payloads)[s] = stream[s]
                 /\ \A k \in DOMAIN Accepted(payloads) : Accepted(payloads)[k].symbol # s
              \/ \E k \in DOMAIN Accepted(payloads) :
                   LET q == Accepted(payloads)[k] IN
                   /\ q.symbol = s /\ StreamAfter(payloads)[s].last = q
                   /\ stream[s].last # NoQuote => Place(stream[s].last) < Place(q)
<1> DEFINE news == Accepted(payloads)
<1>1. /\ news \in Seq(Quotes)
      /\ \A k \in DOMAIN news : Passes(news[k]) /\ news[k] \in Quotes
  BY AcceptedPasses
<1>2. /\ stream \in [Symbols -> StreamType]
      /\ \A s \in Symbols : Len(stream[s].recent) <= Window
  BY DEF TypeOK, StreamType
<1>3. StreamAfter(payloads) =
        [s \in Symbols |->
           IF \E k \in DOMAIN news : news[k].symbol = s
           THEN Remember(stream[s], CHOOSE q \in Range(news) : q.symbol = s)
           ELSE stream[s]]
  BY DEF StreamAfter
<1> HIDE DEF news
<1>4. ASSUME NEW s \in Symbols, NEW k \in DOMAIN news, news[k].symbol = s,
             stream[s].last # NoQuote
      PROVE  Place(stream[s].last) < Place(news[k])
  <2>1. /\ stream[s].last \in Quotes /\ news[k] \in Quotes
        /\ CompareOrdering(news[k], stream[s].last) = "newer"
    BY <1>1, <1>2, <1>4 DEF Passes, StreamType
  <2>2. Place(stream[s].last) \in Int /\ Place(news[k]) \in Int
    BY <2>1, PlaceIsInt
  <2> QED BY <2>1, <2>2 DEF CompareOrdering
<1>5. ASSUME NEW s \in Symbols, NEW k \in DOMAIN news, news[k].symbol = s
      PROVE  \E l \in DOMAIN news :
               /\ news[l].symbol = s
               /\ StreamAfter(payloads)[s] = Remember(stream[s], news[l])
  <2> DEFINE q == CHOOSE x \in Range(news) : x.symbol = s
  <2>1. q \in Range(news) /\ q.symbol = s
    BY <1>5 DEF Range
  <2>2. PICK l \in DOMAIN news : q = news[l]
    BY <2>1 DEF Range
  <2>3. StreamAfter(payloads)[s] = Remember(stream[s], q)
    BY <1>3, <1>5
  <2> HIDE DEF q
  <2> QED BY <2>1, <2>2, <2>3
<1>6. ASSUME NEW s \in Symbols
      PROVE  /\ StreamAfter(payloads)[s] \in StreamType
             /\ Len(StreamAfter(payloads)[s].recent) <= Window
             /\ \/ /\ StreamAfter(payloads)[s] = stream[s]
                   /\ \A k \in DOMAIN news : news[k].symbol # s
                \/ \E k \in DOMAIN news :
                     /\ news[k].symbol = s /\ StreamAfter(payloads)[s].last = news[k]
                     /\ stream[s].last # NoQuote =>
                          Place(stream[s].last) < Place(news[k])
  <2>1. CASE \A k \in DOMAIN news : news[k].symbol # s
    BY <1>2, <1>3, <2>1
  <2>2. ASSUME NEW k \in DOMAIN news, news[k].symbol = s
        PROVE  \E l \in DOMAIN news :
                 /\ news[l].symbol = s
                 /\ StreamAfter(payloads)[s] = Remember(stream[s], news[l])
    BY <1>5, <2>2
  <2>3. ASSUME NEW l \in DOMAIN news, news[l].symbol = s,
               StreamAfter(payloads)[s] = Remember(stream[s], news[l])
        PROVE  /\ StreamAfter(payloads)[s] \in StreamType
               /\ Len(StreamAfter(payloads)[s].recent) <= Window
               /\ StreamAfter(payloads)[s].last = news[l]
               /\ stream[s].last # NoQuote => Place(stream[s].last) < Place(news[l])
    BY <1>1, <1>2, <1>4, <2>3, RememberType
  <2> QED BY <2>1, <2>2, <2>3
<1>7. DOMAIN StreamAfter(payloads) = Symbols
  BY <1>3
<1>8. StreamAfter(payloads) \in [Symbols -> StreamType]
  <2>1. StreamAfter(payloads) = [s \in Symbols |-> StreamAfter(payloads)[s]]
    BY <1>3
  <2> QED BY <1>6, <2>1
<1> QED BY <1>6, <1>8 DEF news

-----------------------------------------------------------------------------
(* The order of what waits.                                                *)

\* No stream takes an older quote.
Grows ==
  \A s \in Symbols :
    \/ stream'[s].last = stream[s].last
    \/ /\ stream'[s].last \in Quotes
       /\ stream[s].last # NoQuote => Place(stream[s].last) < Place(stream'[s].last)

LEMMA NoQuoteIsNone == ASSUME NEW q \in Quotes PROVE q # NoQuote
BY FeedAssumption

LEMMA SnapshotType ==
  ASSUME NEW q \in Quotes PROVE Snapshot(q) \in Snapshots /\ Snapshot(q).quote = q
<1>1. \A age : ClassifyAge(age) \in Freshness
  BY DEF ClassifyAge, Freshness
<1> QED BY <1>1 DEF Snapshot, Snapshots

\* The snapshots of the quotes of a sequence.
LEMMA SnapshotsOf ==
  ASSUME NEW quotes \in Seq(Quotes)
  PROVE  LET more == [k \in DOMAIN quotes |-> Snapshot(quotes[k])] IN
         /\ more \in Seq(Snapshots) /\ Len(more) = Len(quotes)
         /\ \A k \in DOMAIN quotes : more[k].quote = quotes[k]
<1>1. DOMAIN quotes = 1..Len(quotes) /\ \A k \in DOMAIN quotes : quotes[k] \in Quotes
  OBVIOUS
<1>2. \A k \in DOMAIN quotes :
        Snapshot(quotes[k]) \in Snapshots /\ Snapshot(quotes[k]).quote = quotes[k]
  BY <1>1, SnapshotType
<1> QED BY <1>1, <1>2

LEMMA BacklogType ==
  ASSUME TypeOK
  PROVE  /\ Backlog \in Seq(Snapshots) /\ queue \in Seq(Snapshots)
         /\ poll.batch \in Seq(Snapshots)
         /\ \A i \in DOMAIN Backlog : /\ Backlog[i].quote \in Quotes
                                      /\ Backlog[i].quote.symbol \in Symbols
                                      /\ Place(Backlog[i].quote) \in Int
<1>1. queue \in Seq(Snapshots) /\ poll.batch \in Seq(Snapshots)
  BY DEF TypeOK
<1>2. Backlog \in Seq(Snapshots)
  BY <1>1 DEF Backlog
<1>3. ASSUME NEW i \in DOMAIN Backlog
      PROVE  Backlog[i].quote \in Quotes /\ Backlog[i].quote.symbol \in Symbols
  <2>1. Backlog[i] \in Snapshots
    BY <1>2
  <2>2. Backlog[i].quote \in Quotes
    BY <2>1 DEF Snapshots
  <2> QED BY <2>2 DEF Quotes
<1> QED BY <1>1, <1>2, <1>3, PlaceIsInt

\* A quote that is ingested is newer than the stream's last one, hence than all
\* that waits; and a delivery has one of each symbol.
LEMMA IngestKeepsOrder ==
  ASSUME TypeOK, BacklogInOrder, NEW payloads \in Seq(Quotes), OnePerSymbol(payloads),
         stream' = StreamAfter(payloads), UNCHANGED <<sequenced, handed>>,
         \/ Backlog' = Backlog
         \/ Backlog' = Backlog \o [k \in DOMAIN Accepted(payloads) |->
                                    Snapshot(Accepted(payloads)[k])]
  PROVE  BacklogInOrder' /\ Grows
<1> DEFINE news == Accepted(payloads)
           old(i)    == i \in DOMAIN Backlog /\ Backlog'[i] = Backlog[i]
           new(i, k) == i = Len(Backlog) + k /\ Backlog'[i].quote = news[k]
<1>1. /\ Backlog \in Seq(Snapshots) /\ Len(Backlog) \in Nat
      /\ DOMAIN Backlog = 1..Len(Backlog)
      /\ \A i \in DOMAIN Backlog : /\ Backlog[i].quote.symbol \in Symbols
                                   /\ Place(Backlog[i].quote) \in Int
  BY BacklogType
<1>2. /\ news \in Seq(Quotes) /\ OnePerSymbol(news)
      /\ Len(news) \in Nat /\ DOMAIN news = 1..Len(news)
      /\ \A k \in DOMAIN news : news[k] \in Quotes
  BY AcceptedPasses
<1>3. \A s \in Symbols :
        \/ /\ stream'[s] = stream[s]
           /\ \A k \in DOMAIN news : news[k].symbol # s
        \/ \E k \in DOMAIN news :
             /\ news[k].symbol = s /\ stream'[s].last = news[k]
             /\ stream[s].last # NoQuote => Place(stream[s].last) < Place(news[k])
  BY StreamMoves
<1>4. Backlog' = Backlog \/ Backlog' = Backlog \o [k \in DOMAIN news |-> Snapshot(news[k])]
  OBVIOUS
<1> HIDE DEF news
<1>5. \A i \in DOMAIN Backlog' : old(i) \/ \E k \in DOMAIN news : new(i, k)
  <2>1. CASE Backlog' = Backlog
    BY <2>1
  <2>2. CASE Backlog' = Backlog \o [k \in DOMAIN news |-> Snapshot(news[k])]
    <3> DEFINE more == [k \in DOMAIN news |-> Snapshot(news[k])]
    <3>1. /\ more \in Seq(Snapshots) /\ Len(more) = Len(news)
          /\ \A k \in DOMAIN news : more[k].quote = news[k]
      BY <1>2, SnapshotsOf
    <3>2. Backlog' = Backlog \o more
      BY <2>2
    <3> HIDE DEF more
    <3>3. /\ DOMAIN Backlog' = 1..(Len(Backlog) + Len(news))
          /\ \A i \in 1..Len(Backlog) : Backlog'[i] = Backlog[i]
          /\ \A i \in 1..(Len(Backlog) + Len(news)) : ~(i <= Len(Backlog)) =>
               /\ i - Len(Backlog) \in 1..Len(news)
               /\ Backlog'[i] = more[i - Len(Backlog)]
      <4>1. /\ Backlog \o more \in Seq(Snapshots)
            /\ Len(Backlog \o more) = Len(Backlog) + Len(more)
            /\ DOMAIN (Backlog \o more) = 1..(Len(Backlog) + Len(more))
            /\ \A i \in 1..Len(Backlog) : (Backlog \o more)[i] = Backlog[i]
            /\ \A i \in 1..(Len(Backlog) + Len(more)) : ~(i <= Len(Backlog)) =>
                 /\ i - Len(Backlog) \in 1..Len(more)
                 /\ (Backlog \o more)[i] = more[i - Len(Backlog)]
        <5>1. Backlog \in Seq(Snapshots) /\ more \in Seq(Snapshots)
          BY <1>1, <3>1
        <5> QED BY <5>1, Joined
      <4> QED BY <3>1, <3>2, <4>1
    <3>4. ASSUME NEW i \in 1..(Len(Backlog) + Len(news)), ~(i <= Len(Backlog))
          PROVE  i - Len(Backlog) \in DOMAIN news /\ new(i, i - Len(Backlog))
      <4>1. /\ i - Len(Backlog) \in DOMAIN news
            /\ Backlog'[i].quote = news[i - Len(Backlog)]
        BY <1>2, <3>1, <3>3, <3>4
      <4> QED BY <1>1, <4>1
    <3>5. ASSUME NEW i \in 1..(Len(Backlog) + Len(news)), i <= Len(Backlog)
          PROVE  old(i)
      BY <1>1, <1>2, <3>3, <3>5
    <3> QED BY <3>3, <3>4, <3>5
  <2> QED BY <1>4, <2>1, <2>2
<1>6. \A s \in Symbols : stream[s].last \in Quotes \cup {NoQuote}
  BY DEF TypeOK
<1>7. \A s \in Symbols : stream[s].last # NoQuote => Place(stream[s].last) \in Int
  BY <1>6, PlaceIsInt
<1>8. \A k \in DOMAIN news : /\ news[k].symbol \in Symbols /\ Place(news[k]) \in Int
                             /\ news[k] # NoQuote
  BY <1>2, PlaceIsInt, NoQuoteIsNone DEF Quotes
\* What the stream of a new quote's symbol does.
<1>9. ASSUME NEW k \in DOMAIN news
      PROVE  LET s == news[k].symbol IN
             /\ stream'[s].last = news[k]
             /\ stream[s].last # NoQuote => Place(stream[s].last) < Place(news[k])
  BY <1>2, <1>3, <1>8 DEF OnePerSymbol
<1>10. Grows
  BY <1>2, <1>3 DEF Grows
<1>11. ASSUME NEW s \in Symbols, stream[s].last # NoQuote
       PROVE  /\ stream'[s].last # NoQuote /\ Place(stream'[s].last) \in Int
              /\ Place(stream[s].last) <= Place(stream'[s].last)
  BY <1>3, <1>7, <1>8, <1>11
<1>12. \A q : Place(q)' = Place(q)
  BY DEF Place
<1>13. ASSUME NEW i \in DOMAIN Backlog
       PROVE  LET s == Backlog[i].quote.symbol IN
              /\ stream[s].last # NoQuote /\ s \in Symbols
              /\ Place(Backlog[i].quote) <= Place(stream[s].last)
              /\ handed[s] # NoQuote => Place(handed[s]) < Place(Backlog[i].quote)
  BY <1>1 DEF BacklogInOrder
<1>14. \A s \in Symbols : handed[s] # NoQuote =>
          /\ stream[s].last # NoQuote /\ Place(handed[s]) <= Place(stream[s].last)
          /\ Place(handed[s]) \in Int
  <2>1. \A s \in Symbols : handed[s] \in Quotes \cup {NoQuote}
    BY DEF TypeOK
  <2> QED BY <2>1, PlaceIsInt DEF BacklogInOrder
<1>15. ASSUME NEW i \in DOMAIN Backlog', NEW j \in DOMAIN Backlog', i < j,
              Backlog'[i].quote.symbol = Backlog'[j].quote.symbol
       PROVE  Place(Backlog'[i].quote) < Place(Backlog'[j].quote)
  <2>1. CASE old(i) /\ old(j)
    BY <1>15, <2>1 DEF BacklogInOrder
  <2>2. ASSUME old(i), NEW l \in DOMAIN news, new(j, l)
        PROVE  Place(Backlog'[i].quote) < Place(Backlog'[j].quote)
    <3>1. /\ stream[news[l].symbol].last # NoQuote
          /\ Place(Backlog[i].quote) <= Place(stream[news[l].symbol].last)
      BY <1>13, <1>15, <2>2
    <3> QED BY <1>1, <1>7, <1>8, <1>9, <2>2, <3>1
  <2>3. ASSUME NEW k \in DOMAIN news, new(i, k), old(j) PROVE FALSE
    BY <1>1, <1>2, <1>15, <2>3
  <2>4. ASSUME NEW k \in DOMAIN news, new(i, k), NEW l \in DOMAIN news, new(j, l)
        PROVE  FALSE
    <3>1. news[k].symbol = news[l].symbol
      BY <1>15, <2>4
    <3>2. k = l
      BY <1>2, <3>1 DEF OnePerSymbol
    <3> QED BY <1>1, <1>15, <2>4, <3>2
  <2> QED BY <1>5, <2>1, <2>2, <2>3, <2>4
<1>16. ASSUME NEW i \in DOMAIN Backlog'
       PROVE  LET s == Backlog'[i].quote.symbol IN
              /\ stream'[s].last # NoQuote
              /\ Place(Backlog'[i].quote) <= Place(stream'[s].last)
              /\ handed[s] # NoQuote => Place(handed[s]) < Place(Backlog'[i].quote)
  <2>1. CASE old(i)
    BY <1>1, <1>7, <1>11, <1>13, <2>1
  <2>2. ASSUME NEW k \in DOMAIN news, new(i, k)
        PROVE  LET s == Backlog'[i].quote.symbol IN
               /\ stream'[s].last # NoQuote
               /\ Place(Backlog'[i].quote) <= Place(stream'[s].last)
               /\ handed[s] # NoQuote => Place(handed[s]) < Place(Backlog'[i].quote)
    BY <1>7, <1>8, <1>9, <1>14, <2>2
  <2> QED BY <1>5, <2>1, <2>2
<1>17. ASSUME NEW s \in Symbols, handed[s] # NoQuote
       PROVE  stream'[s].last # NoQuote /\ Place(handed[s]) <= Place(stream'[s].last)
  BY <1>7, <1>11, <1>14, <1>17
<1> QED BY <1>10, <1>12, <1>15, <1>16, <1>17 DEF BacklogInOrder

-----------------------------------------------------------------------------
(* The steps of the provider.                                              *)

\* What a delivery to the service does.
LEMMA Delivered ==
  ASSUME BacklogInv, NEW payloads \in Seq(Quotes), OnePerSymbol(payloads),
         stream' = StreamAfter(payloads),
         UNCHANGED <<sequenced, handed>>,
         \/ queue' = QueueAfter(payloads) /\ poll'.batch = poll.batch
         \/ queue' = <<>> /\ poll.batch = <<>> /\ poll'.batch = QueueAfter(payloads)
  PROVE  /\ stream' \in [Symbols -> StreamType]
         /\ \A s \in Symbols : Len(stream'[s].recent) <= Window
         /\ queue' \in Seq(Snapshots) /\ poll'.batch \in Seq(Snapshots)
         /\ BacklogInOrder' /\ Grows
<1> DEFINE more == [k \in DOMAIN Accepted(payloads) |-> Snapshot(Accepted(payloads)[k])]
<1>1. more \in Seq(Snapshots)
  BY AcceptedPasses, SnapshotsOf
<1>2. QueueAfter(payloads) = IF attached THEN queue \o more ELSE queue
  BY DEF QueueAfter
<1>3. /\ TypeOK /\ queue \in Seq(Snapshots) /\ poll.batch \in Seq(Snapshots)
  BY BacklogType DEF BacklogInv
<1> HIDE DEF more
<1>4. QueueAfter(payloads) \in Seq(Snapshots)
  BY <1>1, <1>2, <1>3
<1>5. queue' \in Seq(Snapshots) /\ poll'.batch \in Seq(Snapshots)
  BY <1>3, <1>4
<1>6. Backlog' = Backlog \/ Backlog' = Backlog \o more
  <2>1. (poll.batch \o queue) \o more = poll.batch \o (queue \o more)
    <3> DEFINE batch == poll.batch
    <3>1. batch \in Seq(Snapshots) /\ queue \in Seq(Snapshots) /\ more \in Seq(Snapshots)
      BY <1>1, <1>3
    <3> HIDE DEF batch
    <3>2. (batch \o queue) \o more = batch \o (queue \o more)
      BY <3>1, ConcatAssociative
    <3> QED BY <3>2 DEF batch
  <2>2. CASE queue' = QueueAfter(payloads) /\ poll'.batch = poll.batch
    BY <1>2, <2>1, <2>2 DEF Backlog
  <2>3. CASE queue' = <<>> /\ poll.batch = <<>> /\ poll'.batch = QueueAfter(payloads)
    <3>1. Backlog = queue /\ Backlog' = QueueAfter(payloads)
      BY <1>3, <1>4, <2>3 DEF Backlog
    <3> QED BY <1>2, <3>1
  <2> QED BY <2>2, <2>3
<1>7. BacklogInOrder' /\ Grows
  BY <1>3, <1>6, IngestKeepsOrder DEF BacklogInv, more
<1> QED BY <1>3, <1>5, <1>7, StreamMoves

\* Nothing is delivered.
LEMMA NothingDelivered ==
  ASSUME BacklogInv, UNCHANGED <<stream, sequenced, handed, queue>>,
         poll'.batch = poll.batch
  PROVE  BacklogInOrder' /\ Grows
<1>1. Backlog' = Backlog
  BY DEF Backlog
<1>2. \A q : Place(q)' = Place(q)
  BY DEF Place
<1>3. Grows
  BY DEF Grows
<1> QED BY <1>1, <1>2, <1>3 DEF BacklogInv, BacklogInOrder

\* A publication of the provider, to a service that listens or does not.
LEMMA PublishKeeps ==
  ASSUME BacklogInv, NEW payloads \in Seq(Quotes), OnePerSymbol(payloads),
         Publish(payloads), UNCHANGED <<sequenced, handed>>, poll'.batch = poll.batch
  PROVE  /\ last_payload' \in [Symbols -> Quotes \cup {NoQuote}]
         /\ \A s \in Symbols : last_payload'[s] # NoQuote => last_payload'[s].symbol = s
         /\ stream' \in [Symbols -> StreamType]
         /\ \A s \in Symbols : Len(stream'[s].recent) <= Window
         /\ queue' \in Seq(Snapshots)
         /\ BacklogInOrder' /\ Grows
<1>1. /\ last_payload \in [Symbols -> Quotes \cup {NoQuote}]
      /\ stream \in [Symbols -> StreamType] /\ queue \in Seq(Snapshots)
      /\ \A s \in Symbols : Len(stream[s].recent) <= Window
      /\ \A s \in Symbols : last_payload[s] # NoQuote => last_payload[s].symbol = s
  BY DEF BacklogInv, TypeOK, Apart, StreamType
<1>2. \A i \in DOMAIN payloads : payloads[i] \in Quotes
  OBVIOUS
<1>3. ASSUME NEW s \in Symbols
      PROVE  \/ last_payload'[s] = last_payload[s]
             \/ last_payload'[s] \in Quotes /\ last_payload'[s].symbol = s
  <2>1. CASE \E i \in DOMAIN payloads : payloads[i].symbol = s
    <3> DEFINE q == CHOOSE x \in Range(payloads) : x.symbol = s
    <3>1. q \in Range(payloads) /\ q.symbol = s
      BY <2>1 DEF Range
    <3>2. q \in Quotes
      BY <1>2, <3>1 DEF Range
    <3>3. last_payload'[s] = q
      BY <2>1 DEF Publish
    <3> HIDE DEF q
    <3> QED BY <3>1, <3>2, <3>3
  <2>2. CASE ~ \E i \in DOMAIN payloads : payloads[i].symbol = s
    BY <2>2 DEF Publish
  <2> QED BY <2>1, <2>2
<1>4. last_payload' \in [Symbols -> Quotes \cup {NoQuote}]
  <2>1. last_payload' = [s \in Symbols |-> last_payload'[s]]
    BY DEF Publish
  <2> QED BY <1>1, <1>3, <2>1
<1>5. CASE serving
  BY <1>1, <1>3, <1>4, <1>5, Delivered DEF Publish
<1>6. CASE ~serving
  BY <1>1, <1>3, <1>4, <1>6, NothingDelivered DEF Publish
<1> QED BY <1>5, <1>6

LEMMA PayloadIsQuote ==
  ASSUME NEW s \in Symbols, NEW n \in Nat, NEW at \in Int, NEW m \in Nat
  PROVE  Payload(s, n, at, m) \in Quotes /\ Payload(s, n, at, m).symbol = s
BY DEF Payload, Quotes

\* The state apart from the quotes, and the quotes.
Around ==
  /\ now \in Nat /\ sequenced \in BOOLEAN /\ timed \in BOOLEAN
  /\ status \in Statuses /\ silent \in BOOLEAN /\ halted \in BOOLEAN
  /\ failing \in Nat /\ faults \in Nat
  /\ mid \in [Symbols -> Nat] /\ seq \in [Symbols -> Nat]
  /\ serving \in BOOLEAN
  /\ phase \in {"new", "running", "stopping", "stopped"}
  /\ leader \in BOOLEAN /\ ensured \in BOOLEAN /\ attached \in BOOLEAN

PollType == [pc : {"idle", "asking", "answered", "publishing"},
             answer : Seq(Quotes), batch : Seq(Snapshots)]

Within ==
  /\ last_payload \in [Symbols -> Quotes \cup {NoQuote}]
  /\ stream \in [Symbols -> StreamType]
  /\ \A s \in Symbols : Len(stream[s].recent) <= Window
  /\ queue \in Seq(Snapshots) /\ poll \in PollType
  /\ handed \in [Symbols -> Quotes \cup {NoQuote}]

LEMMA TypeParts == TypeOK <=> Around /\ Within
BY DEF TypeOK, Around, Within, StreamType, PollType

\* Nothing happens to the quotes.
LEMMA QuotesStay ==
  ASSUME BacklogInv, Around',
         UNCHANGED <<sequenced, last_payload, stream, queue, poll, handed>>
  PROVE  BacklogInv' /\ Grows
<1>1. Within'
  BY TypeParts DEF BacklogInv, Within
<1>2. Apart'
  BY DEF BacklogInv, Apart, OnePerSymbol
<1>3. TypeOK'
  BY <1>1, TypeParts DEF TypeOK, Around, Within, StreamType, PollType
<1> QED BY <1>2, <1>3, NothingDelivered DEF BacklogInv

\* The provider publishes, and no poll is concerned.
LEMMA PushKeeps ==
  ASSUME BacklogInv, NEW payloads \in Seq(Quotes), OnePerSymbol(payloads),
         Publish(payloads), Around', UNCHANGED <<sequenced, poll, handed>>
  PROVE  BacklogInv' /\ Grows
<1>1. Within /\ Apart
  BY TypeParts DEF BacklogInv
<1>2. /\ last_payload' \in [Symbols -> Quotes \cup {NoQuote}]
      /\ \A s \in Symbols : last_payload'[s] # NoQuote => last_payload'[s].symbol = s
      /\ stream' \in [Symbols -> StreamType]
      /\ \A s \in Symbols : Len(stream'[s].recent) <= Window
      /\ queue' \in Seq(Snapshots)
      /\ BacklogInOrder' /\ Grows
  BY PublishKeeps
<1>3. Within'
  BY <1>1, <1>2 DEF Within
<1>4. TypeOK'
  BY <1>3 DEF TypeOK, Around, Within, StreamType, PollType
<1>5. Apart'
  BY <1>1, <1>2 DEF Apart, OnePerSymbol
<1> QED BY <1>2, <1>4, <1>5 DEF BacklogInv

\* One payload.
LEMMA OnePayload ==
  ASSUME NEW q \in Quotes PROVE <<q>> \in Seq(Quotes) /\ OnePerSymbol(<<q>>)
BY DEF OnePerSymbol

LEMMA MovedIsStatus ==
  ASSUME NEW from \in Statuses, NEW to \in Statuses PROVE Moved(from, to) \in Statuses
BY DEF Moved

LEMMA ConnectTypes ==
  ASSUME Around, Connect PROVE status' \in Statuses /\ failing' \in Nat
<1>1. {"connecting", "error", "healthy"} \subseteq Statuses
  BY DEF Statuses
<1>2. Moved(status, "connecting") \in Statuses
  BY <1>1, MovedIsStatus DEF Around
<1>3. status' \in Statuses
  BY <1>1, <1>2, MovedIsStatus DEF Connect
<1> QED BY <1>3 DEF Connect, Around

LEMMA LinkKeeps == ASSUME BacklogInv, Link PROVE BacklogInv' /\ Grows
<1>1. Around
  BY TypeParts DEF BacklogInv
<1>2. {"disconnected", "stale", "healthy"} \subseteq Statuses
  BY DEF Statuses
<1>3. /\ Moved(status, "disconnected") \in Statuses
      /\ Moved(status, "stale") \in Statuses /\ Moved(status, "healthy") \in Statuses
  BY <1>1, <1>2, MovedIsStatus DEF Around
<1>4. /\ status' \in Statuses /\ failing' \in Nat /\ silent' \in BOOLEAN
      /\ halted' \in BOOLEAN /\ faults' \in Nat
  <2>1. CASE Reconnect
    BY <1>1, <2>1, ConnectTypes DEF Reconnect, Around
  <2>2. CASE Disconnect
    BY <1>1, <1>3, <2>2 DEF Disconnect, Fault, Around
  <2>3. CASE FailNext
    BY <1>1, <2>3 DEF FailNext, Fault, Around
  <2>5. CASE GoSilent
    BY <1>1, <2>5 DEF GoSilent, Fault, Around
  <2>6. CASE Resume
    BY <1>1, <2>6 DEF Resume, Around
  <2>4. CASE MarkStale \/ MarkHealthy
    BY <1>1, <1>3, <2>4 DEF MarkStale, MarkHealthy, Fault, Around
  <2> QED BY <2>1, <2>2, <2>3, <2>4, <2>5, <2>6 DEF Link
<1>5. UNCHANGED <<world, mid, seq, last_payload, service, poller, handed>>
  BY DEF Link, Disconnect, Reconnect, FailNext, GoSilent, Resume, MarkStale,
         MarkHealthy, Connection
<1>6. Around'
  BY <1>1, <1>4, <1>5 DEF Around, world, service, poller
<1> QED BY <1>5, <1>6, QuotesStay DEF world, service, poller

LEMMA PushedKeeps ==
  ASSUME BacklogInv, NEW q \in Quotes, Push(q),
         mid' \in [Symbols -> Nat], seq' \in [Symbols -> Nat], faults' \in Nat
  PROVE  BacklogInv' /\ Grows
<1>1. Around
  BY TypeParts DEF BacklogInv
<1>2. /\ Publish(<<q>>)
      /\ UNCHANGED <<world, status, silent, halted, failing, serving, phase, leader,
                     ensured, attached, poll, handed>>
  BY DEF Push
<1>3. Around'
  BY <1>1, <1>2 DEF Around, world
<1> QED BY <1>2, <1>3, OnePayload, PushKeeps DEF world

\* A payload for each symbol that is listed.
LEMMA WalkPublishes ==
  ASSUME BacklogInv, Walk
  PROVE  /\ mid' \in [Symbols -> Nat] /\ seq' \in [Symbols -> Nat]
         /\ \E payloads \in Seq(Quotes) : OnePerSymbol(payloads) /\ Publish(payloads)
<1>1. PICK prices \in [Symbols -> Prices] :
        /\ mid' = prices
        /\ Publish([i \in DOMAIN Listed |->
                      LET s == Listed[i] IN Payload(s, seq[s] + 1, now, prices[s])])
  BY DEF Walk
<1>2. Prices \subseteq Nat /\ Listed \in Seq(Symbols)
  BY FeedAssumption
<1>3. now \in Nat /\ seq \in [Symbols -> Nat]
  BY TypeParts DEF BacklogInv, Around
<1>4. \A s \in Symbols : prices[s] \in Nat
  BY <1>1, <1>2
<1> DEFINE payloads == [i \in DOMAIN Listed |->
                          Payload(Listed[i], seq[Listed[i]] + 1, now, prices[Listed[i]])]
<1>5. ASSUME NEW i \in DOMAIN Listed
      PROVE  payloads[i] \in Quotes /\ payloads[i].symbol = Listed[i]
  <2>1. Listed[i] \in Symbols
    BY <1>2
  <2>2. seq[Listed[i]] + 1 \in Nat /\ now \in Int /\ prices[Listed[i]] \in Nat
    BY <1>3, <1>4, <2>1
  <2> QED BY <2>1, <2>2, PayloadIsQuote
<1>6. DOMAIN payloads = 1..Len(Listed) /\ Len(Listed) \in Nat
      /\ DOMAIN payloads = DOMAIN Listed
  BY <1>2
<1>7. Publish(payloads)
  BY <1>1
<1>8. \A i, j \in DOMAIN Listed : Listed[i] = Listed[j] => i = j
  BY FeedAssumption
<1> HIDE DEF payloads
<1>9. payloads \in Seq(Quotes)
  <2>1. payloads = [i \in 1..Len(Listed) |-> payloads[i]]
    BY <1>6 DEF payloads
  <2>2. \A i \in 1..Len(Listed) : payloads[i] \in Quotes
    BY <1>5, <1>6
  <2> QED BY <1>6, <2>1, <2>2
<1>10. OnePerSymbol(payloads)
  BY <1>5, <1>6, <1>8 DEF OnePerSymbol
<1>11. mid' \in [Symbols -> Nat] /\ seq' \in [Symbols -> Nat]
  <2>1. seq' = [s \in Symbols |-> seq[s] + 1]
    BY DEF Walk
  <2> QED BY <1>1, <1>3, <1>4, <2>1
<1> QED BY <1>7, <1>9, <1>10, <1>11

\* The late copy of emit_out_of_order.
LEMMA CopyIsQuote ==
  ASSUME NEW q \in Quotes
  PROVE  [q EXCEPT !.n = IF q.n = 0 THEN 0 ELSE q.n - 1,
                   !.late = @ + 1, !.at = @ - 1] \in Quotes
<1> DEFINE q1 == [q EXCEPT !.n = IF q.n = 0 THEN 0 ELSE q.n - 1]
           q2 == [q1 EXCEPT !.late = @ + 1]
           q3 == [q2 EXCEPT !.at = @ - 1]
<1>1. q1 \in Quotes
  <2>1. (IF q.n = 0 THEN 0 ELSE q.n - 1) \in Nat
    BY DEF Quotes
  <2> QED BY <2>1 DEF Quotes
<1> HIDE DEF q1
<1>2. q2 \in Quotes
  <2>1. q1.late + 1 \in Nat
    BY <1>1 DEF Quotes
  <2> QED BY <1>1, <2>1 DEF Quotes
<1> HIDE DEF q2
<1>3. q3 \in Quotes
  <2>1. q2.at - 1 \in Int
    BY <1>2 DEF Quotes
  <2> QED BY <1>2, <2>1 DEF Quotes
<1> QED BY <1>3 DEF q1, q2

LEMMA EmissionKeeps == ASSUME BacklogInv, Emission PROVE BacklogInv' /\ Grows
<1>1. Around /\ Within /\ Apart
  BY TypeParts DEF BacklogInv
<1>2. CASE Tick
  <2>1. /\ Walk
        /\ UNCHANGED <<world, status, silent, halted, failing, serving, phase, leader,
                       ensured, attached, poll, handed, faults>>
    BY <1>2 DEF Tick
  <2>2. PICK payloads \in Seq(Quotes) : OnePerSymbol(payloads) /\ Publish(payloads)
    BY <2>1, WalkPublishes
  <2>3. Around'
    BY <1>1, <2>1, WalkPublishes DEF Around, world
  <2> QED BY <2>1, <2>2, <2>3, PushKeeps DEF world
<1>3. /\ mid \in [Symbols -> Nat] /\ seq \in [Symbols -> Nat] /\ faults \in Nat
      /\ now \in Nat /\ StaleAfter \in Nat /\ ExpiredAfter \in Nat
      /\ Prices \subseteq Nat
  BY <1>1, FeedAssumption DEF Around
<1>4. ASSUME Fault PROVE faults' \in Nat
  BY <1>3, <1>4 DEF Fault
<1>5. ASSUME NEW s \in Symbols, Numbered(s)
      PROVE  seq' \in [Symbols -> Nat] /\ seq[s] + 1 \in Nat
  BY <1>3, <1>5 DEF Numbered
<1>6. ASSUME NEW s \in Symbols, TickSymbol(s) PROVE BacklogInv' /\ Grows
  <2>1. PICK m \in Prices :
          /\ Numbered(s)
          /\ mid' = [mid EXCEPT ![s] = m]
          /\ Push(Payload(s, seq[s] + 1, now, m))
          /\ UNCHANGED faults
    BY <1>6 DEF TickSymbol
  <2>2. m \in Nat /\ mid' \in [Symbols -> Nat] /\ faults' \in Nat /\ now \in Int
    BY <1>3, <2>1
  <2> QED BY <1>5, <2>1, <2>2, PayloadIsQuote, PushedKeeps
<1>7. ASSUME NEW s \in Symbols, EmitDuplicate(s) PROVE BacklogInv' /\ Grows
  <2>1. last_payload[s] \in Quotes
    BY <1>1, <1>7 DEF Within, EmitDuplicate
  <2> QED BY <1>3, <1>4, <1>7, <2>1, PushedKeeps DEF EmitDuplicate
<1>8. ASSUME NEW s \in Symbols, EmitOutOfOrder(s) PROVE BacklogInv' /\ Grows
  <2>1. last_payload[s] \in Quotes
    BY <1>1, <1>8 DEF Within, EmitOutOfOrder
  <2> QED BY <1>3, <1>4, <1>8, <2>1, CopyIsQuote, PushedKeeps DEF EmitOutOfOrder
<1>9. ASSUME NEW s \in Symbols, EmitMalformed(s) PROVE BacklogInv' /\ Grows
  <2>1. Payload(s, seq[s], now, 0) \in Quotes
    BY <1>3, PayloadIsQuote
  <2> QED BY <1>3, <1>4, <1>9, <2>1, PushedKeeps DEF EmitMalformed
<1>10. ASSUME NEW s \in Symbols, EmitStale(s) PROVE BacklogInv' /\ Grows
  <2>1. PICK age \in {StaleAfter + 1, ExpiredAfter + 1} :
               Push(Payload(s, seq[s] + 1, now - age, mid[s]))
    BY <1>10 DEF EmitStale
  <2>2. Numbered(s) /\ Fault /\ UNCHANGED mid
    BY <1>10 DEF EmitStale
  <2>3. now - age \in Int /\ mid[s] \in Nat
    BY <1>3
  <2> QED BY <1>3, <1>4, <1>5, <2>1, <2>2, <2>3, PayloadIsQuote, PushedKeeps
<1>11. ASSUME NEW s \in Symbols, EmitImplausible(s) PROVE BacklogInv' /\ Grows
  <2>1. /\ Numbered(s) /\ Fault /\ UNCHANGED mid
        /\ Push(Payload(s, seq[s] + 1, now, mid[s] * 10))
    BY <1>11 DEF EmitImplausible
  <2>2. mid[s] * 10 \in Nat /\ now \in Int
    BY <1>3
  <2> QED BY <1>3, <1>4, <1>5, <2>1, <2>2, PayloadIsQuote, PushedKeeps
<1> QED
  BY <1>2, <1>6, <1>7, <1>8, <1>9, <1>10, <1>11 DEF Emission

-----------------------------------------------------------------------------
(* The steps of the service and of the poller.                             *)

LEMMA ServiceTypes ==
  ASSUME Around
  PROVE  /\ ServiceStart => /\ serving' \in BOOLEAN /\ status' \in Statuses
                            /\ failing' \in Nat /\ halted' \in BOOLEAN
         /\ ServiceStop => /\ serving' \in BOOLEAN /\ attached' \in BOOLEAN
                           /\ status' \in Statuses /\ silent' \in BOOLEAN
                           /\ halted' \in BOOLEAN
<1>1. "disconnected" \in Statuses /\ Moved(status, "disconnected") \in Statuses
  BY MovedIsStatus DEF Around, Statuses
<1>2. ASSUME ServiceStart
      PROVE  /\ serving' \in BOOLEAN /\ status' \in Statuses
             /\ failing' \in Nat /\ halted' \in BOOLEAN
  BY <1>2, ConnectTypes DEF ServiceStart, ProviderStart, Around
<1>3. ASSUME ServiceStop
      PROVE  /\ serving' \in BOOLEAN /\ attached' \in BOOLEAN
             /\ status' \in Statuses /\ silent' \in BOOLEAN /\ halted' \in BOOLEAN
  BY <1>1, <1>3 DEF ServiceStop, ProviderStop, Around
<1> QED BY <1>2, <1>3

LEMMA EnsureTypes ==
  ASSUME Around, EnsureServiceStarted
  PROVE  /\ ensured' \in BOOLEAN /\ attached' \in BOOLEAN /\ serving' \in BOOLEAN
         /\ status' \in Statuses /\ failing' \in Nat /\ halted' \in BOOLEAN
<1>1. ensured' \in BOOLEAN /\ attached' \in BOOLEAN
  BY DEF EnsureServiceStarted
<1>2. CASE ensured
  BY <1>1, <1>2 DEF EnsureServiceStarted, Around
<1>3. CASE ~ensured
  BY <1>1, <1>3, ServiceTypes DEF EnsureServiceStarted
<1> QED BY <1>2, <1>3

\* The steps that leave all quotes where they are.
LEMMA LifeKeeps ==
  ASSUME BacklogInv,
         \/ TimePasses \/ StartPoller \/ LeaseGained \/ LeaseLost
         \/ StopPoller \/ StopService
  PROVE  BacklogInv' /\ Grows
<1>1. Around
  BY TypeParts DEF BacklogInv
<1>2. UNCHANGED <<sequenced, last_payload, stream, queue, poll, handed>>
  BY DEF TimePasses, StartPoller, LeaseGained, LeaseLost, StopPoller, StopService,
         world, provider, service, poller
<1>3. ASSUME Fault PROVE faults' \in Nat
  <2>1. faults \in Nat
    BY <1>1 DEF Around
  <2> QED BY <1>3, <2>1 DEF Fault
<1>9. CASE TimePasses
  <2>1. Around'
    BY <1>1, <1>9 DEF TimePasses, Around, provider, service, poller
  <2> QED BY <1>2, <2>1, QuotesStay
<1>4. CASE StartPoller
  <2>1. Around'
    BY <1>1, <1>4 DEF StartPoller, Around, world, provider, service
  <2> QED BY <1>2, <2>1, QuotesStay
<1>5. CASE LeaseGained
  <2>1. /\ leader' \in BOOLEAN /\ faults' \in Nat
        /\ UNCHANGED <<now, sequenced, timed, silent, mid, seq, phase>>
    BY <1>1, <1>5 DEF LeaseGained, Fault, Around, world
  <2>2. Around'
    BY <1>1, <1>5, <2>1, EnsureTypes DEF LeaseGained, Around
  <2> QED BY <1>2, <2>2, QuotesStay
<1>6. CASE LeaseLost
  <2>1. leader' \in BOOLEAN /\ faults' \in Nat
    BY <1>3, <1>6 DEF LeaseLost
  <2>2. Around'
    BY <1>1, <1>6, <2>1 DEF LeaseLost, Around, world, provider, service
  <2> QED BY <1>2, <2>2, QuotesStay
<1>7. CASE StopPoller
  <2>1. /\ phase' = "stopping" /\ attached' \in BOOLEAN /\ faults' \in Nat
    BY <1>3, <1>7 DEF StopPoller
  <2>2. Around'
    BY <1>1, <1>7, <2>1 DEF StopPoller, Around, world, provider, service
  <2> QED BY <1>2, <2>2, QuotesStay
<1>8. CASE StopService
  <2>1. /\ phase' = "stopped" /\ leader' \in BOOLEAN /\ ensured' \in BOOLEAN
        /\ UNCHANGED <<now, sequenced, timed, failing, mid, seq, faults>>
    BY <1>8 DEF StopService, world
  <2>2. /\ serving' \in BOOLEAN /\ attached' \in BOOLEAN
        /\ status' \in Statuses /\ silent' \in BOOLEAN /\ halted' \in BOOLEAN
    <3>1. CASE ensured
      BY <1>1, <1>8, <3>1, ServiceTypes DEF StopService
    <3>2. CASE ~ensured
      BY <1>1, <1>8, <3>2 DEF StopService, Around
    <3> QED BY <3>1, <3>2
  <2>3. Around'
    BY <1>1, <2>1, <2>2 DEF Around
  <2> QED BY <1>2, <2>3, QuotesStay
<1> QED BY <1>4, <1>5, <1>6, <1>7, <1>8, <1>9

\* A poll goes on, with the same batch.
LEMMA PollGoesOn ==
  ASSUME BacklogInv, Around', poll' \in PollType, poll'.batch = poll.batch,
         OnePerSymbol(poll'.answer), poll'.pc # "publishing" => poll'.batch = <<>>,
         UNCHANGED <<sequenced, last_payload, stream, queue, handed>>
  PROVE  BacklogInv' /\ Grows
<1>1. Within'
  BY TypeParts DEF BacklogInv, Within
<1>2. Apart'
  BY DEF BacklogInv, Apart, OnePerSymbol
<1>3. TypeOK'
  BY <1>1 DEF TypeOK, Around, Within, StreamType, PollType
<1> QED BY <1>2, <1>3, NothingDelivered DEF BacklogInv

LEMMA NoPollType ==
  /\ NoPoll \in PollType /\ NoPoll.batch = <<>> /\ NoPoll.pc = "idle"
  /\ OnePerSymbol(NoPoll.answer) /\ NoPoll.answer = <<>>
BY DEF NoPoll, PollType, OnePerSymbol

LEMMA BeginKeeps == ASSUME BacklogInv, BeginPoll PROVE BacklogInv' /\ Grows
<1>1. Around /\ Within /\ Apart
  BY TypeParts DEF BacklogInv
<1>2. /\ poll' = [poll EXCEPT !.pc = "asking"] /\ poll \in PollType /\ poll.pc = "idle"
      /\ UNCHANGED <<world, silent, mid, seq, last_payload, stream, phase, leader,
                     queue, handed, faults>>
  BY <1>1 DEF BeginPoll, Within
<1>3. /\ poll' \in PollType /\ poll'.batch = poll.batch /\ poll'.answer = poll.answer
      /\ poll'.pc = "asking"
  BY <1>2 DEF PollType
<1>4. Around'
  BY <1>1, <1>2, EnsureTypes DEF BeginPoll, Around, world
<1> QED BY <1>1, <1>2, <1>3, <1>4, PollGoesOn DEF Apart, world

LEMMA EndKeeps == ASSUME BacklogInv, EndPoll PROVE BacklogInv' /\ Grows
<1>1. Around /\ Within
  BY TypeParts DEF BacklogInv
<1>2. Around'
  BY <1>1 DEF EndPoll, Around, world, provider, service
<1> QED BY <1>2, NoPollType, PollGoesOn DEF EndPoll, world, provider, service

\* A pull is answered with the last payload of each symbol.
LEMMA LatestOfEach ==
  ASSUME NEW payloads \in [Symbols -> Quotes \cup {NoQuote}],
         \A s \in Symbols : payloads[s] # NoQuote => payloads[s].symbol = s
  PROVE  Latest(payloads) \in Seq(Quotes) /\ OnePerSymbol(Latest(payloads))
<1> DEFINE row == [i \in DOMAIN Listed |-> payloads[Listed[i]]]
           P   == {i \in DOMAIN Listed : payloads[Listed[i]] # NoQuote}
           answer == Part(row, P)
<1>1. /\ Listed \in Seq(Symbols) /\ DOMAIN Listed = 1..Len(Listed) /\ Len(Listed) \in Nat
      /\ \A i \in DOMAIN Listed : Listed[i] \in Symbols
      /\ \A i, j \in DOMAIN Listed : Listed[i] = Listed[j] => i = j
  BY FeedAssumption
<1>2. /\ row \in Seq(Quotes \cup {NoQuote}) /\ DOMAIN row = DOMAIN Listed
      /\ P \in SUBSET DOMAIN row
  BY <1>1
<1>3. \A i \in P : row[i] \in Quotes /\ row[i].symbol = Listed[i] /\ i \in DOMAIN Listed
  BY <1>1
<1>4. Latest(payloads) = answer
  BY DEF Latest
<1> HIDE DEF row, P
<1>5. /\ answer \in Seq(Quotes \cup {NoQuote})
      /\ \A k \in DOMAIN answer : \E i \in P : answer[k] = row[i]
      /\ \A k, l \in DOMAIN answer : k # l =>
           \E i, j \in P : i # j /\ answer[k] = row[i] /\ answer[l] = row[j]
  BY <1>2, PartOf
<1> HIDE DEF answer
<1>6. \A k \in DOMAIN answer : answer[k] \in Quotes
  BY <1>3, <1>5
<1>7. answer \in Seq(Quotes)
  <2>1. /\ Len(answer) \in Nat /\ DOMAIN answer = 1..Len(answer)
        /\ answer = [k \in 1..Len(answer) |-> answer[k]]
    BY <1>5
  <2> QED BY <1>6, <2>1
<1>8. OnePerSymbol(answer)
  BY <1>1, <1>3, <1>5 DEF OnePerSymbol
<1> QED BY <1>4, <1>7, <1>8

LEMMA AskKeeps == ASSUME BacklogInv, Ask PROVE BacklogInv' /\ Grows
<1>1. /\ Around /\ Within /\ Apart /\ poll.pc = "asking" /\ poll \in PollType
      /\ poll.batch = <<>>
  BY TypeParts DEF BacklogInv, Within, Apart, Ask
<1>2. /\ UNCHANGED <<world, status, silent, halted, failing, serving, phase, leader,
                     ensured, attached, handed, faults>>
      /\ poll' = IF status \in {"disconnected", "error"} THEN NoPoll
                 ELSE [poll EXCEPT !.pc = "answered", !.answer = Latest(last_payload')]
  BY DEF Ask
<1>3. ASSUME last_payload' \in [Symbols -> Quotes \cup {NoQuote}],
             \A s \in Symbols : last_payload'[s] # NoQuote => last_payload'[s].symbol = s
      PROVE  /\ poll' \in PollType /\ poll'.batch = <<>> /\ poll'.pc # "publishing"
             /\ OnePerSymbol(poll'.answer)
  <2>1. /\ Latest(last_payload') \in Seq(Quotes)
        /\ OnePerSymbol(Latest(last_payload'))
    BY <1>3, LatestOfEach
  <2>2. CASE status \in {"disconnected", "error"}
    BY <1>2, <2>2, NoPollType
  <2>3. CASE status \notin {"disconnected", "error"}
    BY <1>1, <1>2, <2>1, <2>3 DEF PollType
  <2> QED BY <2>2, <2>3
<1>4. CASE Walk
  <2>1. PICK payloads \in Seq(Quotes) : OnePerSymbol(payloads) /\ Publish(payloads)
    BY <1>4, WalkPublishes
  <2>2. Around'
    BY <1>1, <1>2, <1>4, WalkPublishes DEF Around, world
  <2>3. /\ last_payload' \in [Symbols -> Quotes \cup {NoQuote}]
        /\ \A s \in Symbols : last_payload'[s] # NoQuote => last_payload'[s].symbol = s
        /\ stream' \in [Symbols -> StreamType]
        /\ \A s \in Symbols : Len(stream'[s].recent) <= Window
        /\ queue' \in Seq(Snapshots)
        /\ poll' \in PollType /\ poll'.pc # "publishing" /\ OnePerSymbol(poll'.answer)
        /\ poll'.batch = <<>>
        /\ BacklogInOrder' /\ Grows
    <3>1. poll'.batch = poll.batch
      <4>1. [poll EXCEPT !.pc = "answered", !.answer = Latest(last_payload')].batch
              = poll.batch
        BY <1>1 DEF PollType
      <4> QED BY <1>1, <1>2, <4>1, NoPollType
    <3> QED BY <1>1, <1>2, <1>3, <2>1, <3>1, PublishKeeps DEF world
  <2>4. Within'
    BY <1>1, <1>2, <2>3 DEF Within
  <2>5. TypeOK'
    BY <2>2, <2>4 DEF TypeOK, Around, Within, StreamType, PollType
  <2>6. Apart'
    BY <1>1, <1>2, <2>3 DEF Apart, OnePerSymbol
  <2> QED BY <2>3, <2>5, <2>6 DEF BacklogInv
<1>5. CASE UNCHANGED <<mid, seq, last_payload, stream, queue>>
  <2>1. Around'
    BY <1>1, <1>2, <1>5 DEF Around, world
  <2>2. /\ poll' \in PollType /\ poll'.batch = <<>> /\ poll'.pc # "publishing"
        /\ OnePerSymbol(poll'.answer)
    BY <1>1, <1>3, <1>5 DEF Within, Apart
  <2> QED BY <1>1, <1>2, <1>5, <2>1, <2>2, PollGoesOn DEF world
<1> QED BY <1>4, <1>5 DEF Ask

LEMMA IngestKeeps == ASSUME BacklogInv, PollIngest PROVE BacklogInv' /\ Grows
<1>1. /\ Around /\ Within /\ Apart /\ poll.pc = "answered" /\ poll \in PollType
      /\ poll.batch = <<>>
  BY TypeParts DEF BacklogInv, Within, Apart, PollIngest
<1>2. /\ stream' = StreamAfter(poll.answer) /\ queue' = <<>>
      /\ poll' = [NoPoll EXCEPT !.pc = "publishing", !.batch = QueueAfter(poll.answer)]
      /\ UNCHANGED <<world, provider, serving, phase, leader, ensured, attached,
                     handed, faults>>
  BY DEF PollIngest
<1>3. poll.answer \in Seq(Quotes) /\ OnePerSymbol(poll.answer)
  BY <1>1 DEF PollType, Apart
<1>4. /\ poll'.pc = "publishing" /\ poll'.answer = <<>>
      /\ poll'.batch = QueueAfter(poll.answer)
      /\ poll' = [pc |-> "publishing", answer |-> <<>>, batch |-> QueueAfter(poll.answer)]
  BY <1>2 DEF NoPoll
<1>5. /\ stream' \in [Symbols -> StreamType]
      /\ \A s \in Symbols : Len(stream'[s].recent) <= Window
      /\ queue' \in Seq(Snapshots) /\ poll'.batch \in Seq(Snapshots)
      /\ BacklogInOrder' /\ Grows
  <2>1. UNCHANGED <<sequenced, handed>>
    BY <1>2 DEF world
  <2> DEFINE payloads == poll.answer
  <2>2. /\ payloads \in Seq(Quotes) /\ OnePerSymbol(payloads)
        /\ stream' = StreamAfter(payloads) /\ poll'.batch = QueueAfter(payloads)
    BY <1>2, <1>3, <1>4
  <2> HIDE DEF payloads
  <2> QED BY <1>1, <1>2, <2>1, <2>2, Delivered
<1>6. poll' \in PollType
  BY <1>4, <1>5 DEF PollType
<1>7. Within'
  BY <1>1, <1>2, <1>5, <1>6 DEF Within, provider
<1>8. Around'
  BY <1>1, <1>2 DEF Around, world, provider
<1>9. TypeOK'
  BY <1>7, <1>8 DEF TypeOK, Around, Within, StreamType, PollType
<1>10. Apart'
  BY <1>1, <1>2, <1>4 DEF Apart, OnePerSymbol, provider
<1> QED BY <1>5, <1>9, <1>10 DEF BacklogInv

\* The backlog loses what is in front; the last of what went may have been
\* handed over.
LEMMA Shortened ==
  ASSUME BacklogInv, UNCHANGED <<stream, sequenced>>, Backlog' \in Seq(Snapshots),
         NEW d \in Nat,
         \A i \in DOMAIN Backlog' : i + d \in DOMAIN Backlog /\ Backlog'[i] = Backlog[i + d],
         \/ UNCHANGED handed
         \/ /\ d = 1 /\ 1 \in DOMAIN Backlog
            /\ handed' = [handed EXCEPT ![Backlog[1].quote.symbol] = Backlog[1].quote]
  PROVE  BacklogInOrder'
<1>1. /\ Backlog \in Seq(Snapshots)
      /\ \A i \in DOMAIN Backlog : /\ Backlog[i].quote \in Quotes
                                   /\ Backlog[i].quote.symbol \in Symbols
                                   /\ Place(Backlog[i].quote) \in Int
  BY BacklogType DEF BacklogInv
<1>2. \A q : Place(q)' = Place(q)
  BY DEF Place
<1>3. /\ \A i \in DOMAIN Backlog : i \in Int
      /\ \A i \in DOMAIN Backlog' : i \in Int /\ i > 0
  BY <1>1
<1>4. \A i, j \in DOMAIN Backlog :
        i < j /\ Backlog[i].quote.symbol = Backlog[j].quote.symbol
        => Place(Backlog[i].quote) < Place(Backlog[j].quote)
  BY DEF BacklogInv, BacklogInOrder
<1>5. \A i \in DOMAIN Backlog :
        LET s == Backlog[i].quote.symbol IN
        /\ stream[s].last # NoQuote
        /\ Place(Backlog[i].quote) <= Place(stream[s].last)
        /\ handed[s] # NoQuote => Place(handed[s]) < Place(Backlog[i].quote)
  BY DEF BacklogInv, BacklogInOrder
<1>6. ASSUME NEW i \in DOMAIN Backlog', NEW j \in DOMAIN Backlog', i < j,
             Backlog'[i].quote.symbol = Backlog'[j].quote.symbol
      PROVE  Place(Backlog'[i].quote) < Place(Backlog'[j].quote)
  <2>1. i + d < j + d
    BY <1>3, <1>6
  <2> QED BY <1>4, <1>6, <2>1
<1>7. ASSUME NEW i \in DOMAIN Backlog'
      PROVE  LET s == Backlog'[i].quote.symbol IN
             /\ stream[s].last # NoQuote
             /\ Place(Backlog'[i].quote) <= Place(stream[s].last)
             /\ handed'[s] # NoQuote => Place(handed'[s]) < Place(Backlog'[i].quote)
  <2>1. i + d \in DOMAIN Backlog /\ Backlog'[i] = Backlog[i + d]
    OBVIOUS
  <2>2. CASE UNCHANGED handed
    BY <1>5, <2>1, <2>2
  <2>3. CASE /\ d = 1 /\ 1 \in DOMAIN Backlog
             /\ handed' = [handed EXCEPT ![Backlog[1].quote.symbol] = Backlog[1].quote]
    <3> DEFINE s == Backlog'[i].quote.symbol
    <3>1. 1 < i + d
      BY <1>3, <2>3
    <3>2. CASE s = Backlog[1].quote.symbol
      <4>1. Place(Backlog[1].quote) < Place(Backlog'[i].quote)
        BY <1>4, <2>1, <2>3, <3>1, <3>2
      <4>2. handed'[s] = Backlog[1].quote
        <5>1. DOMAIN handed = Symbols /\ Backlog[1].quote.symbol \in Symbols
          BY <1>1, <2>3 DEF BacklogInv, TypeOK
        <5> QED BY <2>3, <3>2, <5>1
      <4> QED BY <1>5, <2>1, <4>1, <4>2
    <3>3. CASE s # Backlog[1].quote.symbol
      <4>1. handed'[s] = handed[s]
        BY <2>3, <3>3
      <4> QED BY <1>5, <2>1, <4>1
    <3> QED BY <3>2, <3>3
  <2> QED BY <2>2, <2>3
<1>8. ASSUME NEW s \in Symbols, handed'[s] # NoQuote
      PROVE  stream[s].last # NoQuote /\ Place(handed'[s]) <= Place(stream[s].last)
  <2>1. handed[s] # NoQuote =>
          stream[s].last # NoQuote /\ Place(handed[s]) <= Place(stream[s].last)
    BY DEF BacklogInv, BacklogInOrder
  <2>2. CASE handed'[s] = handed[s]
    BY <1>8, <2>1, <2>2
  <2>3. CASE handed'[s] # handed[s]
    <3>1. /\ 1 \in DOMAIN Backlog /\ s = Backlog[1].quote.symbol
          /\ handed'[s] = Backlog[1].quote
      <4>1. DOMAIN handed = Symbols
        BY DEF BacklogInv, TypeOK
      <4> QED BY <2>3, <4>1
    <3> QED BY <1>5, <3>1
  <2> QED BY <2>2, <2>3
<1> QED BY <1>2, <1>6, <1>7, <1>8 DEF BacklogInOrder

\* What a poll, and the queue, have in front.
LEMMA FrontOfBacklog ==
  ASSUME TypeOK, poll.batch # <<>>
  PROVE  /\ 1 \in DOMAIN Backlog /\ Backlog[1] = Head(poll.batch)
         /\ Head(poll.batch) \in Snapshots /\ Tail(poll.batch) \in Seq(Snapshots)
         /\ \A i \in DOMAIN (Tail(poll.batch) \o queue) :
              /\ i + 1 \in DOMAIN Backlog
              /\ (Tail(poll.batch) \o queue)[i] = Backlog[i + 1]
         /\ \A i \in DOMAIN queue : /\ i + Len(poll.batch) \in DOMAIN Backlog
                                    /\ queue[i] = Backlog[i + Len(poll.batch)]
<1> DEFINE batch == poll.batch
           rest  == Tail(batch)
<1>1. /\ batch \in Seq(Snapshots) /\ queue \in Seq(Snapshots) /\ batch # <<>>
      /\ Backlog = batch \o queue
  BY DEF TypeOK, Backlog
<1> SUFFICES /\ 1 \in DOMAIN (batch \o queue) /\ (batch \o queue)[1] = Head(batch)
             /\ Head(batch) \in Snapshots /\ Tail(batch) \in Seq(Snapshots)
             /\ \A i \in DOMAIN (Tail(batch) \o queue) :
                  /\ i + 1 \in DOMAIN (batch \o queue)
                  /\ (Tail(batch) \o queue)[i] = (batch \o queue)[i + 1]
             /\ \A i \in DOMAIN queue : /\ i + Len(batch) \in DOMAIN (batch \o queue)
                                        /\ queue[i] = (batch \o queue)[i + Len(batch)]
  BY <1>1
<1> HIDE DEF batch
<1>2. /\ Len(batch) \in Nat \ {0} /\ Len(queue) \in Nat
      /\ DOMAIN batch = 1..Len(batch) /\ DOMAIN queue = 1..Len(queue)
  BY <1>1
<1>3. /\ rest \in Seq(Snapshots) /\ Len(rest) = Len(batch) - 1
      /\ \A i \in 1..Len(rest) : rest[i] = batch[i + 1]
  BY <1>1, <1>2
<1>4. Head(batch) = batch[1] /\ batch[1] \in Snapshots
  BY <1>1, <1>2
<1> HIDE DEF rest
<1>5. /\ DOMAIN (batch \o queue) = 1..(Len(batch) + Len(queue))
      /\ \A i \in 1..Len(batch) : (batch \o queue)[i] = batch[i]
      /\ \A i \in 1..(Len(batch) + Len(queue)) : ~(i <= Len(batch)) =>
           (batch \o queue)[i] = queue[i - Len(batch)]
  BY <1>1, Joined
<1>6. /\ DOMAIN (rest \o queue) = 1..(Len(rest) + Len(queue))
      /\ \A i \in 1..Len(rest) : (rest \o queue)[i] = rest[i]
      /\ \A i \in 1..(Len(rest) + Len(queue)) : ~(i <= Len(rest)) =>
           (rest \o queue)[i] = queue[i - Len(rest)]
  <2>1. rest \in Seq(Snapshots) /\ queue \in Seq(Snapshots)
    BY <1>1, <1>3
  <2> QED BY <2>1, Joined
<1>7. ASSUME NEW i \in DOMAIN (rest \o queue)
      PROVE  /\ i + 1 \in DOMAIN (batch \o queue)
             /\ (rest \o queue)[i] = (batch \o queue)[i + 1]
  <2>1. i \in 1..(Len(rest) + Len(queue)) /\ i + 1 \in 1..(Len(batch) + Len(queue))
    BY <1>2, <1>3, <1>6
  <2>2. CASE i <= Len(rest)
    <3>1. i \in 1..Len(rest) /\ i + 1 \in 1..Len(batch)
      BY <1>2, <1>3, <2>1, <2>2
    <3> QED BY <1>3, <1>5, <1>6, <3>1
  <2>3. CASE ~(i <= Len(rest))
    <3>1. ~(i + 1 <= Len(batch)) /\ i - Len(rest) = (i + 1) - Len(batch)
      BY <1>2, <1>3, <2>1, <2>3
    <3> QED BY <1>5, <1>6, <2>1, <2>3, <3>1
  <2> QED BY <1>5, <2>1, <2>2, <2>3
<1>8. ASSUME NEW i \in DOMAIN queue
      PROVE  /\ i + Len(batch) \in DOMAIN (batch \o queue)
             /\ queue[i] = (batch \o queue)[i + Len(batch)]
  <2>1. /\ i + Len(batch) \in 1..(Len(batch) + Len(queue))
        /\ ~(i + Len(batch) <= Len(batch)) /\ (i + Len(batch)) - Len(batch) = i
    BY <1>2
  <2> QED BY <1>5, <2>1
<1>9. 1 \in DOMAIN (batch \o queue) /\ (batch \o queue)[1] = batch[1]
  <2>1. 1 \in 1..Len(batch) /\ 1 \in 1..(Len(batch) + Len(queue))
    BY <1>2
  <2> QED BY <1>5, <2>1
<1> QED BY <1>3, <1>4, <1>7, <1>8, <1>9 DEF rest

\* A publication: what was in front is handed over, unless it is expired.
LEMMA HandKeeps ==
  ASSUME BacklogInv, PublishNext
  PROVE  /\ BacklogInv' /\ UNCHANGED <<stream, sequenced>>
         /\ \/ UNCHANGED handed
            \/ /\ Backlog[1].quote \in Quotes /\ Backlog[1].quote.symbol \in Symbols
               /\ 1 \in DOMAIN Backlog
               /\ handed' = [handed EXCEPT ![Backlog[1].quote.symbol] = Backlog[1].quote]
<1>1. /\ TypeOK /\ Around /\ Within /\ Apart /\ poll.pc = "publishing"
      /\ poll \in PollType /\ poll.batch # <<>>
  BY TypeParts DEF BacklogInv, Within, PublishNext
<1>2. /\ handed' = IF Head(poll.batch).freshness = "expired" THEN handed
                   ELSE [handed EXCEPT ![Head(poll.batch).quote.symbol]
                                         = Head(poll.batch).quote]
      /\ poll' = [poll EXCEPT !.batch = Tail(poll.batch)]
      /\ UNCHANGED <<world, provider, service, phase, leader, ensured, attached,
                     queue, faults>>
  BY DEF PublishNext
<1>3. /\ 1 \in DOMAIN Backlog /\ Backlog[1] = Head(poll.batch)
      /\ Head(poll.batch) \in Snapshots /\ Tail(poll.batch) \in Seq(Snapshots)
      /\ \A i \in DOMAIN (Tail(poll.batch) \o queue) :
           /\ i + 1 \in DOMAIN Backlog
           /\ (Tail(poll.batch) \o queue)[i] = Backlog[i + 1]
  BY <1>1, FrontOfBacklog
<1>4. /\ Backlog[1].quote \in Quotes /\ Backlog[1].quote.symbol \in Symbols
  BY <1>1, <1>3, BacklogType
<1>5. /\ poll' \in PollType /\ poll'.batch = Tail(poll.batch)
      /\ poll'.pc = "publishing" /\ poll'.answer = poll.answer
  BY <1>1, <1>2, <1>3 DEF PollType
<1>6. Backlog' = Tail(poll.batch) \o queue
  BY <1>2, <1>5 DEF Backlog
<1>7. \/ UNCHANGED handed
      \/ handed' = [handed EXCEPT ![Backlog[1].quote.symbol] = Backlog[1].quote]
  BY <1>2, <1>3
<1>8. UNCHANGED <<stream, sequenced, last_payload, queue>>
  BY <1>2 DEF world, service, provider
<1>9. BacklogInOrder'
  <2>1. Backlog' \in Seq(Snapshots)
    <3> DEFINE rest == Tail(poll.batch)
    <3>1. rest \in Seq(Snapshots) /\ queue \in Seq(Snapshots) /\ Backlog' = rest \o queue
      BY <1>1, <1>3, <1>6 DEF Within
    <3> HIDE DEF rest
    <3> QED BY <3>1
  <2>2. \A i \in DOMAIN Backlog' : i + 1 \in DOMAIN Backlog /\ Backlog'[i] = Backlog[i + 1]
    BY <1>3, <1>6
  <2> QED BY <1>3, <1>7, <1>8, <2>1, <2>2, Shortened
<1>10. handed' \in [Symbols -> Quotes \cup {NoQuote}]
  BY <1>1, <1>4, <1>7 DEF Within
<1>11. Apart'
  <2>1. \A s \in Symbols : handed'[s] # NoQuote => handed'[s].symbol = s
    BY <1>1, <1>4, <1>7 DEF Apart, Within
  <2> QED BY <1>1, <1>5, <1>8, <2>1 DEF Apart, OnePerSymbol
<1>12. Around' /\ Within'
  BY <1>1, <1>2, <1>5, <1>8, <1>10 DEF Around, Within, world, provider, service
<1>13. TypeOK'
  BY <1>12 DEF TypeOK, Around, Within, StreamType, PollType
<1> QED BY <1>3, <1>4, <1>7, <1>8, <1>9, <1>11, <1>13 DEF BacklogInv

\* The rest of a batch is gone.
LEMMA FailureKeeps ==
  ASSUME BacklogInv, PublishFails PROVE BacklogInv' /\ Grows
<1>1. TypeOK /\ Around /\ Within /\ Apart /\ poll.batch # <<>>
  BY TypeParts DEF BacklogInv, PublishFails
<1>2. /\ poll' = NoPoll /\ Fault
      /\ UNCHANGED <<world, provider, service, phase, leader, ensured, attached,
                     queue, handed>>
  BY DEF PublishFails
<1>3. Backlog' = queue /\ queue \in Seq(Snapshots)
  <2>1. queue \in Seq(Snapshots) /\ poll'.batch = <<>>
    BY <1>1, <1>2, NoPollType DEF Within
  <2> QED BY <1>2, <2>1 DEF Backlog
<1>4. Len(poll.batch) \in Nat
  BY <1>1 DEF Within, PollType
<1>5. UNCHANGED <<stream, sequenced, last_payload, queue, handed>>
  BY <1>2 DEF world, service, provider
<1>6. BacklogInOrder'
  <2>1. \A i \in DOMAIN Backlog' : /\ i + Len(poll.batch) \in DOMAIN Backlog
                                   /\ Backlog'[i] = Backlog[i + Len(poll.batch)]
    BY <1>1, <1>3, FrontOfBacklog
  <2> QED BY <1>3, <1>4, <1>5, <2>1, Shortened
<1>7. Around' /\ Within'
  <2>1. faults' \in Nat
    BY <1>1, <1>2 DEF Fault, Around
  <2> QED BY <1>1, <1>2, <1>5, <2>1, NoPollType DEF Around, Within, world, provider, service
<1>8. TypeOK'
  BY <1>7 DEF TypeOK, Around, Within, StreamType, PollType
<1>9. Apart'
  BY <1>1, <1>2, <1>5, NoPollType DEF Apart, OnePerSymbol
<1>10. Grows
  BY <1>5 DEF Grows
<1> QED BY <1>6, <1>8, <1>9, <1>10 DEF BacklogInv

-----------------------------------------------------------------------------
(* The theorems.                                                           *)

LEMMA InitKeeps == ASSUME Init PROVE BacklogInv /\ Order!Init
<1>1. StartMid \in Nat
  BY FeedAssumption
<1>2. Unheard \in StreamType /\ Unheard.last = NoQuote /\ Len(Unheard.recent) = 0
  BY DEF Unheard, StreamType
<1>3. Window \in Nat
  BY FeedAssumption
<1>4. Around
  BY <1>1 DEF Init, Around, Statuses
<1>5. Within
  BY <1>2, <1>3, NoPollType DEF Init, Within
<1>6. Apart
  BY NoPollType DEF Init, Apart, OnePerSymbol
<1>7. Backlog = <<>> /\ \A s \in Symbols : handed[s] = NoQuote
  BY NoPollType DEF Init, Backlog
<1>8. BacklogInOrder
  BY <1>7 DEF BacklogInOrder
<1>9. Order!Init
  BY <1>2 DEF Init, Order!Init, PlaceOf
<1> QED BY <1>4, <1>5, <1>6, <1>8, <1>9, TypeParts DEF BacklogInv

\* Every step keeps the order; all but a publication leave alone what was
\* handed over, and no stream takes an older quote.
LEMMA StepKeeps ==
  ASSUME BacklogInv, [Next]_vars
  PROVE  /\ BacklogInv'
         /\ \/ Grows /\ UNCHANGED <<sequenced, handed>>
            \/ PublishNext
<1>1. CASE UNCHANGED vars
  <2>1. UNCHANGED <<sequenced, last_payload, stream, queue, poll, handed>>
    BY <1>1 DEF vars, world, provider, service, poller
  <2>2. Around'
    BY <1>1, TypeParts DEF BacklogInv, Around, vars, world, provider, service, poller
  <2> QED BY <2>1, <2>2, QuotesStay
<1>2. CASE Emission
  <2>1. UNCHANGED <<sequenced, handed>>
    BY <1>2 DEF Emission, Tick, TickSymbol, EmitDuplicate, EmitOutOfOrder,
                EmitMalformed, EmitStale, EmitImplausible, Push, world
  <2> QED BY <1>2, <2>1, EmissionKeeps
<1>3. CASE Link
  <2>1. UNCHANGED <<sequenced, handed>>
    BY <1>3 DEF Link, Disconnect, Reconnect, FailNext, GoSilent, Resume, MarkStale,
                MarkHealthy, Connection, world
  <2> QED BY <1>3, <2>1, LinkKeeps
<1>4. CASE \/ TimePasses \/ StartPoller \/ LeaseGained \/ LeaseLost
           \/ StopPoller \/ StopService
  <2>1. UNCHANGED <<sequenced, handed>>
    BY <1>4 DEF TimePasses, StartPoller, LeaseGained, LeaseLost, StopPoller,
                StopService, world
  <2> QED BY <1>4, <2>1, LifeKeeps
<1>5. CASE BeginPoll \/ Ask \/ PollIngest \/ EndPoll \/ PublishFails
  <2>1. UNCHANGED <<sequenced, handed>>
    BY <1>5 DEF BeginPoll, Ask, PollIngest, EndPoll, PublishFails, world
  <2> QED BY <1>5, <2>1, BeginKeeps, AskKeeps, IngestKeeps, EndKeeps, FailureKeeps
<1>6. CASE PublishNext
  BY <1>6, HandKeeps
<1> QED BY <1>1, <1>2, <1>3, <1>4, <1>5, <1>6 DEF Next, Polling

\* Whichever of the two ways a quote came, it waits once, in the vendor's
\* order, after what was handed over and not beyond what was accepted.
THEOREM BacklogInvariant == Spec => []BacklogInv
<1>1. Init => BacklogInv
  BY InitKeeps
<1>2. BacklogInv /\ [Next]_vars => BacklogInv'
  BY StepKeeps
<1> QED BY <1>1, <1>2, PTL DEF Spec

LEMMA PlaceOfType ==
  ASSUME NEW q \in Quotes \cup {NoQuote}
  PROVE  PlaceOf(q) \in Order!Places /\ (q # NoQuote => PlaceOf(q) # NoQuote)
<1>1. NoQuote \notin Int
  BY FeedAssumption
<1>2. q \in Quotes => Place(q) \in Int
  BY PlaceIsInt
<1> QED BY <1>1, <1>2 DEF PlaceOf, Order!Places

\* What is accepted.
LEMMA AcceptsInOrder ==
  ASSUME BacklogInv, BacklogInv', Grows, UNCHANGED <<sequenced, handed>>
  PROVE  Order!Accept
<1> DEFINE accepted == [s \in Symbols |-> PlaceOf(stream[s].last)]
<1>1. /\ \A s \in Symbols : stream[s].last \in Quotes \cup {NoQuote}
      /\ \A s \in Symbols : stream'[s].last \in Quotes \cup {NoQuote}
  BY DEF BacklogInv, TypeOK
<1>2. \A q : Place(q)' = Place(q) /\ PlaceOf(q)' = PlaceOf(q)
  BY DEF Place, PlaceOf
<1>3. accepted' = [s \in Symbols |-> PlaceOf(stream'[s].last)]
  BY <1>2 DEF PlaceOf, Place
<1>4. accepted' \in [Symbols -> Order!Places]
  BY <1>1, <1>3, PlaceOfType
<1>5. ASSUME NEW s \in Symbols
      PROVE  \/ accepted'[s] = accepted[s]
             \/ Order!Earlier(accepted[s], accepted'[s])
  <2>1. CASE stream'[s].last = stream[s].last
    BY <1>3, <2>1
  <2>2. CASE /\ stream'[s].last \in Quotes
             /\ stream[s].last # NoQuote =>
                  Place(stream[s].last) < Place(stream'[s].last)
    <3>1. stream'[s].last # NoQuote
      BY <2>2, NoQuoteIsNone
    <3>2. accepted'[s] = Place(stream'[s].last) /\ accepted'[s] # NoQuote
      BY <1>1, <1>3, <3>1, PlaceOfType DEF PlaceOf
    <3>3. CASE stream[s].last = NoQuote
      BY <3>2, <3>3 DEF Order!Earlier, PlaceOf
    <3>4. CASE stream[s].last # NoQuote
      BY <2>2, <3>2, <3>4 DEF Order!Earlier, PlaceOf
    <3> QED BY <3>3, <3>4
  <2> QED BY <2>1, <2>2 DEF Grows
<1>6. [s \in Symbols |-> PlaceOf(handed[s])]' = [s \in Symbols |-> PlaceOf(handed[s])]
  BY DEF PlaceOf, Place
<1> QED BY <1>4, <1>5, <1>6 DEF Order!Accept

\* What is handed over.
LEMMA HandsInOrder ==
  ASSUME BacklogInv, BacklogInv', PublishNext
  PROVE  [Order!Next]_<<[s \in Symbols |-> PlaceOf(stream[s].last)],
                        [s \in Symbols |-> PlaceOf(handed[s])]>>
<1> DEFINE accepted  == [s \in Symbols |-> PlaceOf(stream[s].last)]
           published == [s \in Symbols |-> PlaceOf(handed[s])]
           q == Backlog[1].quote
           s == Backlog[1].quote.symbol
<1>1. /\ UNCHANGED <<stream, sequenced>>
      /\ \/ UNCHANGED handed
         \/ /\ q \in Quotes /\ s \in Symbols /\ 1 \in DOMAIN Backlog
            /\ handed' = [handed EXCEPT ![s] = q]
  BY HandKeeps
<1>2. accepted' = accepted
  BY <1>1 DEF PlaceOf, Place
<1>3. CASE UNCHANGED handed
  <2>1. published' = published
    BY <1>1, <1>3 DEF PlaceOf, Place
  <2> QED BY <1>2, <2>1
<1>4. CASE /\ q \in Quotes /\ s \in Symbols /\ 1 \in DOMAIN Backlog
           /\ handed' = [handed EXCEPT ![s] = q]
  <2>1. published' = [t \in Symbols |-> PlaceOf(handed'[t])]
    BY <1>1 DEF PlaceOf, Place
  <2>2. /\ handed \in [Symbols -> Quotes \cup {NoQuote}]
        /\ handed' \in [Symbols -> Quotes \cup {NoQuote}]
    BY DEF BacklogInv, TypeOK
  <2>3. /\ stream[s].last # NoQuote /\ stream[s].last \in Quotes
        /\ Place(q) <= Place(stream[s].last)
        /\ handed[s] # NoQuote => Place(handed[s]) < Place(q)
    BY <1>4 DEF BacklogInv, BacklogInOrder, TypeOK
  <2>4. /\ handed'[s] = q /\ q # NoQuote
        /\ \A t \in Symbols \ {s} : handed'[t] = handed[t]
    BY <1>4, <2>2, NoQuoteIsNone
  <2> HIDE DEF q, s
  <2>5. /\ published'[s] = Place(q) /\ Place(q) # NoQuote
        /\ \A t \in Symbols \ {s} : published'[t] = published[t]
    BY <1>4, <2>1, <2>4, PlaceOfType DEF PlaceOf
  <2>6. published' \in [Symbols -> Order!Places]
    BY <2>1, <2>2, PlaceOfType
  <2>7. Order!Earlier(published[s], published'[s])
    BY <1>4, <2>3, <2>5 DEF Order!Earlier, PlaceOf
  <2>8. ~Order!Earlier(accepted[s], published'[s])
    <3>1. accepted[s] = Place(stream[s].last) /\ accepted[s] # NoQuote
      BY <1>4, <2>3, PlaceOfType DEF PlaceOf
    <3>2. Place(stream[s].last) \in Int /\ Place(q) \in Int
      BY <1>4, <2>3, PlaceIsInt
    <3> QED BY <2>3, <2>5, <3>1, <3>2 DEF Order!Earlier
  <2> QED BY <1>2, <1>4, <2>5, <2>6, <2>7, <2>8 DEF Order!Next, Order!Publish
<1> QED BY <1>1, <1>3, <1>4

\* What reaches publication moves forward, per symbol, whatever the provider,
\* the polls and the lease do.
THEOREM FeedImplementsOrder == Spec => ImplementsOrder
<1>1. Init => Order!Init
  BY InitKeeps
<1>2. BacklogInv /\ BacklogInv' /\ [Next]_vars =>
        [Order!Next]_<<[s \in Symbols |-> PlaceOf(stream[s].last)],
                       [s \in Symbols |-> PlaceOf(handed[s])]>>
  <2> SUFFICES ASSUME BacklogInv, BacklogInv', [Next]_vars
               PROVE  [Order!Next]_<<[s \in Symbols |-> PlaceOf(stream[s].last)],
                                     [s \in Symbols |-> PlaceOf(handed[s])]>>
    OBVIOUS
  <2>1. CASE Grows /\ UNCHANGED <<sequenced, handed>>
    BY <2>1, AcceptsInOrder DEF Order!Next
  <2>2. CASE PublishNext
    BY <2>2, HandsInOrder
  <2> QED BY <2>1, <2>2, StepKeeps
<1> QED BY <1>1, <1>2, BacklogInvariant, PTL DEF Spec, ImplementsOrder, Order!Spec

-----------------------------------------------------------------------------
(* Ready means priceable.                                                  *)

Unconnected ==
  Heard = {} /\ poll.answer = <<>> /\ \A s \in Symbols : last_payload[s] = NoQuote

\* An attempt ends, whatever it began with.
LEMMA ConnectEnds ==
  ASSUME Around, Connect PROVE status' \notin {"configured", "connecting"}
<1> DEFINE trying == Moved(status, "connecting")
           to == IF failing > 0 THEN "error" ELSE "healthy"
<1>1. status' = Moved(trying, to) /\ to \in {"error", "healthy"} /\ status \in Statuses
  BY DEF Connect, Around
<1>2. trying \in {"connecting", "healthy", "stale", "error"}
  BY <1>1 DEF Moved, AllowedTransitions, Statuses
<1> HIDE DEF trying, to
<1>3. CASE trying = "connecting"
  BY <1>1, <1>3 DEF Moved, AllowedTransitions
<1>4. CASE trying # "connecting"
  BY <1>1, <1>2, <1>4 DEF Moved
<1> QED BY <1>3, <1>4

\* Any other move leaves "configured" for what is not "connecting".
LEMMA MovedOn ==
  ASSUME status # "connecting", NEW to \in {"disconnected", "stale", "healthy"}
  PROVE  /\ Moved(status, to) # "connecting"
         /\ Moved(status, to) = "configured" => status = "configured"
BY DEF Moved

\* Where the life cycle goes in a step.
LEMMA StatusMoves ==
  ASSUME Around, [Next]_vars, status # "connecting"
  PROVE  /\ status' # "connecting"
         /\ status' = "configured" => status = "configured"
<1>1. ASSUME Connect PROVE status' # "connecting" /\ status' # "configured"
  BY <1>1, ConnectEnds
<1>2. ASSUME status' \in {Moved(status, to) : to \in {"disconnected", "stale", "healthy"}}
      PROVE  /\ status' # "connecting"
             /\ status' = "configured" => status = "configured"
  BY <1>2, MovedOn
<1>3. CASE Reconnect
  BY <1>1, <1>3 DEF Reconnect
<1>4. CASE Disconnect \/ MarkStale \/ MarkHealthy
  BY <1>2, <1>4 DEF Disconnect, MarkStale, MarkHealthy
<1>5. CASE LeaseGained \/ BeginPoll
  BY <1>1, <1>5 DEF LeaseGained, BeginPoll, EnsureServiceStarted, ServiceStart, ProviderStart
<1>6. CASE StopService
  BY <1>2, <1>6 DEF StopService, ServiceStop, ProviderStop
<1>7. CASE UNCHANGED status
  BY <1>7
<1> QED
  <2>1. \/ Reconnect \/ Disconnect \/ MarkStale \/ MarkHealthy \/ LeaseGained
        \/ BeginPoll \/ StopService \/ UNCHANGED status
    BY DEF Next, vars, provider, TimePasses, Emission, Tick, TickSymbol, EmitDuplicate,
           EmitOutOfOrder, EmitMalformed, EmitStale, EmitImplausible, Push, Link, FailNext,
           GoSilent, Resume, StartPoller, LeaseLost, Polling, Ask, PollIngest, PublishNext,
           EndPoll, PublishFails, StopPoller
  <2> QED BY <1>3, <1>4, <1>5, <1>6, <1>7, <2>1

\* Nothing of nothing.
LEMMA NothingAccepted == StreamAfter(<<>>) = [s \in Symbols |-> stream[s]]
<1>1. /\ <<>> \in Seq(Quotes) /\ DOMAIN <<>> = {}
  OBVIOUS
<1>2. \A k \in DOMAIN Accepted(<<>>) : \E i \in {} : TRUE
  BY <1>1, AcceptedPasses
<1> QED BY <1>2 DEF StreamAfter

\* Before it connects, the provider gives nothing.
LEMMA StaysUnconnected ==
  ASSUME TypeOK, [Next]_vars, status = "configured", status' = "configured", Unconnected
  PROVE  Unconnected'
<1>1. /\ ~CanEmit
      /\ stream \in [Symbols -> StreamType]
      /\ last_payload \in [Symbols -> Quotes \cup {NoQuote}]
  BY DEF CanEmit, TypeOK, StreamType
<1>2. ~Walk /\ \A q : ~Push(q)
  BY <1>1 DEF Walk, Push
<1>3. CASE UNCHANGED <<stream, last_payload>> /\ poll'.answer = <<>>
  BY <1>3 DEF Unconnected, Heard
<1>4. CASE PollIngest
  <2>1. poll.answer = <<>>
    BY DEF Unconnected
  <2>2. stream' = stream
    BY <1>1, <1>4, <2>1, NothingAccepted DEF PollIngest
  <2>3. poll'.answer = <<>> /\ UNCHANGED last_payload
    BY <1>4 DEF PollIngest, NoPoll, provider
  <2> QED BY <1>3, <2>2, <2>3
<1>5. CASE Ask
  <2>1. /\ UNCHANGED <<stream, last_payload>>
        /\ poll' = [poll EXCEPT !.pc = "answered", !.answer = Latest(last_payload)]
    BY <1>2, <1>5 DEF Ask
  <2>2. Latest(last_payload) = <<>>
    <3> DEFINE row == [i \in DOMAIN Listed |-> last_payload[Listed[i]]]
    <3>1. {i \in DOMAIN Listed : last_payload[Listed[i]] # NoQuote} = {}
      BY FeedAssumption DEF Unconnected
    <3>2. Latest(last_payload) = Part(row, {})
      BY <3>1 DEF Latest
    <3>3. row \in Seq(Quotes \cup {NoQuote})
      BY <1>1, FeedAssumption
    <3> HIDE DEF row
    <3>4. Part(row, {}) \in Seq(Quotes \cup {NoQuote}) /\ DOMAIN Part(row, {}) = {}
      BY <3>3, PartOf
    <3>5. Part(row, {}) = <<>>
      BY <3>4
    <3> QED BY <3>2, <3>5
  <2>3. poll'.answer = <<>>
    BY <2>1, <2>2 DEF TypeOK
  <2> QED BY <1>3, <2>1, <2>3
<1>6. CASE ~PollIngest /\ ~Ask
  <2>1. ~Emission
    BY <1>2 DEF Emission, Tick, TickSymbol, EmitDuplicate, EmitOutOfOrder, EmitMalformed,
                EmitStale, EmitImplausible
  <2>2. CASE BeginPoll \/ PublishNext
    <3>1. UNCHANGED <<stream, last_payload>>
      BY <2>2 DEF BeginPoll, PublishNext, provider, service
    <3>2. poll'.answer = poll.answer
      BY <2>2 DEF BeginPoll, PublishNext, TypeOK
    <3> QED BY <1>3, <3>1, <3>2 DEF Unconnected
  <2>3. CASE EndPoll \/ PublishFails
    <3>1. UNCHANGED <<stream, last_payload>> /\ poll' = NoPoll
      BY <2>3 DEF EndPoll, PublishFails, provider, service
    <3> QED BY <1>3, <3>1, NoPollType
  <2>4. CASE ~BeginPoll /\ ~PublishNext /\ ~EndPoll /\ ~PublishFails
    <3>1. UNCHANGED <<stream, last_payload, poll>>
      BY <1>6, <2>1, <2>4
         DEF Next, vars, Polling, Link, Disconnect, Reconnect, FailNext, GoSilent, Resume,
             MarkStale, MarkHealthy, Connection, TimePasses, StartPoller, LeaseGained,
             LeaseLost, StopPoller, StopService, provider, service, poller
    <3> QED BY <1>3, <3>1 DEF Unconnected
  <2> QED BY <2>2, <2>3, <2>4
<1> QED BY <1>4, <1>5, <1>6

\* A provider that never connected has not been heard.
THEOREM ConnectsFirst == Spec => []ConnectedFirst
<1>1. Init => ConnectedFirst
  BY NoPollType DEF Init, ConnectedFirst, Heard, Unheard
<1>2. BacklogInv /\ ConnectedFirst /\ [Next]_vars => ConnectedFirst'
  <2> SUFFICES ASSUME BacklogInv, ConnectedFirst, [Next]_vars PROVE ConnectedFirst'
    OBVIOUS
  <2>1. TypeOK /\ Around
    BY TypeParts DEF BacklogInv
  <2>2. status' # "connecting" /\ (status' = "configured" => status = "configured")
    BY <2>1, StatusMoves DEF ConnectedFirst
  <2>3. status = "configured" => Unconnected
    BY DEF ConnectedFirst, Unconnected
  <2>4. status' = "configured" => Unconnected'
    BY <2>1, <2>2, <2>3, StaysUnconnected
  <2> QED BY <2>2, <2>4 DEF ConnectedFirst, Unconnected
<1> QED BY <1>1, <1>2, BacklogInvariant, PTL DEF Spec

\* A replica that reports itself ready is connected and has a quote to price
\* from: the report and the resolver agree.
THEOREM ReadyIsPriceable == Spec => []ReadyMeansPriceable
<1>1. BacklogInv /\ ConnectedFirst => ReadyMeansPriceable
  <2> SUFFICES ASSUME BacklogInv, ConnectedFirst, PipelineHealth # "unhealthy"
               PROVE  status \in {"healthy", "stale"} /\ \E s \in Symbols : Usable(s)
    BY DEF ReadyMeansPriceable
  <2>1. /\ ProviderHealth \notin {"error", "disconnected"}
        /\ \E s \in Symbols : Usable(s)
    BY DEF PipelineHealth
  <2>2. Heard # {}
    BY <2>1 DEF Usable
  <2>3. status \notin {"connecting", "configured"}
    BY <2>2 DEF ConnectedFirst
  <2>4. status \notin {"error", "disconnected"}
    BY <2>1 DEF ProviderHealth
  <2> QED BY <2>1, <2>3, <2>4 DEF BacklogInv, TypeOK, Statuses
<1> QED BY <1>1, BacklogInvariant, ConnectsFirst, PTL
=============================================================================
