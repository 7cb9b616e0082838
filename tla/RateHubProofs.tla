----------------------------- MODULE RateHubProofs -----------------------------
(***************************************************************************)
(* That the hub's bookkeeping is right until shutdown, for any number of   *)
(* viewers, shops and channel objects: the counter is the number of        *)
(* attached listeners, and each of them listens to the channel that its    *)
(* shop has now.                                                           *)
(***************************************************************************)
EXTENDS RateHub, FiniteSetTheorems, TLAPS

LEMMA NoRequestType == ASSUME NEW s \in Shops PROVE NoRequest(s) \in Requests
BY HubAssumption DEF NoRequest, Requests

LEMMA BecomesType ==
  ASSUME TypeOK, NEW v \in Viewers, NEW r \in Requests, Becomes(v, r)
  PROVE  viewer' \in [Viewers -> Requests]
BY DEF TypeOK, Becomes

LEMMA StreamsType ==
  ASSUME TypeOK, NEW v \in Viewers, NEW c \in 0..MaxChannels,
         NEW at \in {"waiting", "attached"}
  PROVE  Streams(v, at, c) \in Requests
BY DEF TypeOK, Streams, Requests

LEMMA FiniteAttached == IsFiniteSet(Attached) /\ Cardinality(Attached) \in Nat
BY HubAssumption, FS_Subset, FS_CardinalityType DEF Attached

LEMMA InitInv == Init => HubInv
<1> SUFFICES ASSUME Init PROVE HubInv
  OBVIOUS
<1>1. \A s \in Shops : NoRequest(s) \in Requests /\ NoRequest(s).at = "away"
  BY NoRequestType DEF NoRequest
<1>2. TypeOK
  <2>1. viewer \in [Viewers -> Requests]
    BY <1>1 DEF Init
  <2>2. 0 \in 0..MaxChannels /\ 0 \in Int
    BY HubAssumption
  <2> QED BY <2>1, <2>2 DEF Init, TypeOK
<1>3. \A v \in Viewers : viewer[v].at = "away"
  BY <1>1 DEF Init
<1>4. Attached = {}
  BY <1>3 DEF Attached
<1>5. TotalIsAttached
  BY <1>4, FS_EmptySet DEF TotalIsAttached, Init
<1>6. ChannelsMatch
  BY <1>3 DEF Init, ChannelsMatch, Ids
<1>7. PendingIsAwaited
  BY DEF Init, PendingIsAwaited
<1> QED BY <1>2, <1>4, <1>5, <1>6, <1>7 DEF HubInv, AttachedIsListening

LEMMA TypeStep ==
  ASSUME TypeOK, [Next]_vars
  PROVE  TypeOK'
<1> USE DEF hub
<1>1. CASE UNCHANGED vars
  BY <1>1 DEF vars, TypeOK
<1>2. ASSUME NEW v \in Viewers, NEW s \in Shops, Request(v, s) PROVE TypeOK'
  <2>1. [NoRequest(s) EXCEPT !.at = "resolving"] \in Requests
    BY NoRequestType DEF Requests
  <2> QED BY <2>1, <1>2, BecomesType DEF Request, TypeOK
<1>3. ASSUME NEW v \in Viewers, LookupFails(v) \/ Retry(v) PROVE TypeOK'
  <2>1. NoRequest(viewer[v].shop) \in Requests
    BY NoRequestType DEF TypeOK, Requests
  <2> QED BY <2>1, <1>3, BecomesType DEF LookupFails, Retry, TypeOK
<1>4. ASSUME NEW v \in Viewers, Refuse(v) \/ LeavesEarly(v) PROVE TypeOK'
  <2>1. viewer[v] \in Requests
    BY DEF TypeOK
  <2>2. /\ [viewer[v] EXCEPT !.at = "refused", !.headers = TRUE] \in Requests
        /\ [viewer[v] EXCEPT !.gone = TRUE] \in Requests
    BY <2>1 DEF Requests
  <2> QED BY <2>2, <1>4, BecomesType DEF Refuse, LeavesEarly, TypeOK
<1>5. ASSUME NEW v \in Viewers, AttachFirst(v) PROVE TypeOK'
  <2>1. made + 1 \in Ids /\ made + 1 \in 0..MaxChannels
    BY <1>5, HubAssumption DEF TypeOK, AttachFirst, Ids
  <2>2. Streams(v, "waiting", made + 1) \in Requests
    BY <2>1, StreamsType
  <2>3. viewer' \in [Viewers -> Requests]
    BY <2>2, <1>5, BecomesType DEF AttachFirst
  <2> QED BY <2>1, <2>3, <1>5 DEF AttachFirst, TypeOK
<1>6. ASSUME NEW v \in Viewers, AttachWaiting(v) \/ AttachOpen(v) PROVE TypeOK'
  <2> DEFINE c == channels[viewer[v].shop]
  <2>1. c \in 0..MaxChannels
    BY DEF TypeOK, Requests
  <2>2. Streams(v, "waiting", c) \in Requests /\ Streams(v, "attached", c) \in Requests
    BY <2>1, StreamsType
  <2>3. viewer' \in [Viewers -> Requests]
    BY <2>2, <1>6, BecomesType DEF AttachWaiting, AttachOpen
  <2>4. CASE AttachWaiting(v)
    BY <2>3, <2>4 DEF AttachWaiting, TypeOK
  <2>5. CASE AttachOpen(v)
    <3>1. listeners' = [listeners EXCEPT ![c] = @ \cup {v}]
      BY <2>5 DEF AttachOpen
    <3> HIDE DEF c
    <3>2. listeners' \in [Ids -> SUBSET Viewers]
      BY <3>1 DEF TypeOK
    <3> QED BY <3>2, <2>3, <2>5 DEF AttachOpen, TypeOK
  <2> QED BY <1>6, <2>4, <2>5
<1>7. ASSUME NEW c \in Ids, SubscribeAnswers(c) PROVE TypeOK'
  <2>1. viewer' \in [Viewers -> Requests]
    <3>1. ASSUME NEW v \in Viewers PROVE [viewer[v] EXCEPT !.at = "attached"] \in Requests
      BY DEF TypeOK, Requests
    <3> QED BY <3>1, <1>7 DEF SubscribeAnswers, TypeOK
  <2>2. Waiting(c) \subseteq Viewers /\ Cardinality(Waiting(c)) \in Nat
    BY HubAssumption, FS_Subset, FS_CardinalityType DEF Waiting
  <2> QED BY <2>1, <2>2, <1>7 DEF SubscribeAnswers, TypeOK
<1>8. ASSUME NEW c \in Ids, SubscribeFails(c) PROVE TypeOK'
  <2>1. viewer' \in [Viewers -> Requests]
    <3>1. ASSUME NEW v \in Viewers PROVE NoRequest(viewer[v].shop) \in Requests
      BY NoRequestType DEF TypeOK, Requests
    <3> QED BY <3>1, <1>8 DEF SubscribeFails, Ended, TypeOK
  <2>2. channels' \in [Shops -> 0..MaxChannels]
    BY <1>8, HubAssumption DEF SubscribeFails, TypeOK
  <2> QED BY <2>1, <2>2, <1>8 DEF SubscribeFails, TypeOK
<1>9. ASSUME NEW v \in Viewers, StreamEnds(v) PROVE TypeOK'
  <2>1. viewer' \in [Viewers -> Requests]
    <3>1. NoRequest(viewer[v].shop) \in Requests
      BY NoRequestType DEF TypeOK, Requests
    <3> QED BY <3>1, <1>9, BecomesType DEF StreamEnds
  <2>2. /\ channels' \in [Shops -> 0..MaxChannels]
        /\ listeners' \in [Ids -> SUBSET Viewers]
        /\ total' \in Int
    <3> DEFINE s == viewer[v].shop
               c == channels[s]
    <3>1. s \in Shops /\ c \in 0..MaxChannels
      BY DEF TypeOK, Requests
    <3>2. CASE c = 0
      BY <3>2, <1>9 DEF StreamEnds, Detach, TypeOK
    <3>3. CASE c # 0
      <4>1. /\ listeners' = [listeners EXCEPT ![c] = @ \ {v}]
            /\ total' = IF v \in listeners[c] THEN total - 1 ELSE total
            /\ channels' = [channels EXCEPT ![s] = IF listeners[c] \ {v} = {} THEN 0
                                                                            ELSE @]
        BY <3>3, <1>9 DEF StreamEnds, Detach
      <4> HIDE DEF s, c
      <4>2. listeners' \in [Ids -> SUBSET Viewers]
        BY <4>1 DEF TypeOK
      <4>3. total' \in Int
        BY <4>1 DEF TypeOK
      <4>4. 0 \in 0..MaxChannels
        BY HubAssumption
      <4>5. channels' \in [Shops -> 0..MaxChannels]
        BY <4>1, <4>4 DEF TypeOK
      <4> QED BY <4>2, <4>3, <4>5
    <3> QED BY <3>2, <3>3
  <2> QED BY <2>1, <2>2, <1>9 DEF StreamEnds, TypeOK
<1>10. CASE Close
  BY <1>10, HubAssumption DEF Close, TypeOK
<1> QED BY <1>1, <1>2, <1>3, <1>4, <1>5, <1>6, <1>7, <1>8, <1>9, <1>10
  DEF Next, Attach, Subscribed

-----------------------------------------------------------------------------
\* Until shutdown, one lemma per kind of step.

Matching ==
  ChannelsMatch /\ PendingIsAwaited /\ TotalIsAttached /\ AttachedIsListening

\* Steps of requests that neither wait nor listen, before or after.
LEMMA AsideKeepsMatch ==
  ASSUME HubInv, UNCHANGED hub,
         \A v \in Viewers :
           \/ /\ viewer'[v].at = viewer[v].at /\ viewer'[v].shop = viewer[v].shop
              /\ viewer'[v].on = viewer[v].on
           \/ /\ viewer[v].at \notin {"waiting", "attached"}
              /\ viewer'[v].at \notin {"waiting", "attached"}
  PROVE  Matching'
<1>1. Attached' = Attached
  BY DEF Attached
<1>2. TotalIsAttached'
  BY <1>1 DEF HubInv, TotalIsAttached, hub
<1>3. ChannelsMatch'
  BY <1>1 DEF HubInv, ChannelsMatch, hub, Attached
<1>4. AttachedIsListening'
  BY <1>1 DEF HubInv, AttachedIsListening, hub, Attached
<1>5. PendingIsAwaited'
  BY DEF HubInv, PendingIsAwaited, hub
<1> QED BY <1>2, <1>3, <1>4, <1>5 DEF Matching

\* What was awaited still is, for a shop whose channel and waiters stay.
LEMMA StillAwaited ==
  ASSUME HubInv, ~closed, NEW s \in Shops, channels[s] # 0,
         subscription[channels[s]] = "pending",
         channels'[s] = channels[s],
         \A v \in Viewers : viewer[v].at = "waiting" /\ viewer[v].on = channels[s]
            => viewer'[v] = viewer[v]
  PROVE  \E v \in Viewers : /\ viewer'[v].at = "waiting" /\ viewer'[v].shop = s
                            /\ viewer'[v].on = channels'[s]
BY DEF HubInv, PendingIsAwaited

\* A step of a request by itself.
LEMMA RequestKeepsMatch ==
  ASSUME HubInv, NEW v \in Viewers,
         \/ \E s \in Shops : Request(v, s)
         \/ LookupFails(v) \/ Refuse(v) \/ LeavesEarly(v) \/ Retry(v)
  PROVE  Matching'
<1>0. viewer \in [Viewers -> Requests]
  BY DEF HubInv, TypeOK
<1>1. \A w \in Viewers \ {v} : viewer'[w] = viewer[w]
  BY <1>0 DEF Request, LookupFails, Refuse, LeavesEarly, Retry, Becomes
<1>2. UNCHANGED hub
  BY DEF Request, LookupFails, Refuse, LeavesEarly, Retry
<1>3. CASE LeavesEarly(v)
  <2>1. /\ viewer'[v].at = viewer[v].at /\ viewer'[v].shop = viewer[v].shop
        /\ viewer'[v].on = viewer[v].on
    BY <1>0, <1>3 DEF LeavesEarly, Becomes, Requests
  <2> QED BY <2>1, <1>1, <1>2, AsideKeepsMatch
<1>4. CASE ~LeavesEarly(v)
  <2>1. /\ viewer[v].at \notin {"waiting", "attached"}
        /\ viewer'[v].at \notin {"waiting", "attached"}
    <3>1. viewer[v] \in Requests
      BY <1>0
    <3>2. ASSUME NEW t \in Shops, Request(v, t)
          PROVE  viewer[v].at = "away" /\ viewer'[v].at = "resolving"
      BY <1>0, <3>2 DEF Request, Becomes, NoRequest
    <3>3. ASSUME LookupFails(v) \/ Retry(v)
          PROVE  viewer[v].at \in {"resolving", "refused"} /\ viewer'[v].at = "away"
      BY <1>0, <3>3 DEF LookupFails, Retry, Becomes, NoRequest
    <3>4. ASSUME Refuse(v)
          PROVE  viewer[v].at = "resolving" /\ viewer'[v].at = "refused"
      BY <1>0, <3>1, <3>4 DEF Refuse, Becomes, Requests
    <3> QED BY <1>4, <3>2, <3>3, <3>4
  <2> QED BY <2>1, <1>1, <1>2, AsideKeepsMatch
<1> QED BY <1>3, <1>4

\* A request that joins the channel of its shop: it waits or listens.
LEMMA AttachKeepsMatch ==
  ASSUME HubInv, ~closed, NEW v \in Viewers,
         AttachFirst(v) \/ AttachWaiting(v) \/ AttachOpen(v)
  PROVE  Matching'
<1> DEFINE s == viewer[v].shop
           c == channels'[s]
<1>0. TypeOK /\ ChannelsMatch /\ PendingIsAwaited /\ TotalIsAttached
      /\ AttachedIsListening
  BY DEF HubInv
<1>1. viewer[v] \in Requests /\ s \in Shops
  BY <1>0 DEF TypeOK, Requests
<1>2. viewer[v].at = "resolving" /\ v \notin Attached /\ ~closed'
  BY DEF AttachFirst, AttachWaiting, AttachOpen, hub, Attached
<1>3. CASE AttachFirst(v)
  <2>1. /\ c = made + 1 /\ c \in Ids /\ made' = c /\ c # 0
        /\ channels[s] = 0
        /\ \A t \in Shops \ {s} : channels'[t] = channels[t]
        /\ subscription'[c] = "pending"
        /\ \A d \in Ids \ {c} : subscription'[d] = subscription[d]
        /\ listeners' = listeners /\ total' = total
    BY <1>0, <1>1, <1>3, HubAssumption DEF AttachFirst, TypeOK, Ids
  <2>2. /\ viewer'[v].at = "waiting" /\ viewer'[v].on = c /\ viewer'[v].shop = s
        /\ \A w \in Viewers \ {v} : viewer'[w] = viewer[w]
    BY <1>0, <1>1, <1>3, <2>1 DEF AttachFirst, Becomes, Streams, TypeOK, Requests
  <2>3. Attached' = Attached
    BY <1>2, <2>2 DEF Attached
  <2>4. \A t \in Shops : channels[t] <= made /\ channels[t] \in Nat /\ made \in Nat
    BY <1>0, <1>2 DEF ChannelsMatch, TypeOK
  <2>5. \A w \in Viewers : viewer[w].at \in {"waiting", "attached"} =>
          viewer[w].shop \in Shops /\ viewer[w].shop # s
    BY <1>0, <1>2, <2>1 DEF ChannelsMatch, AttachedIsListening, Attached, TypeOK, Requests
  <2>6. \A w \in Viewers : viewer[w].at = "waiting" =>
          /\ viewer[w].on \in Ids /\ viewer[w].on # c
          /\ subscription[viewer[w].on] = "pending"
          /\ channels[viewer[w].shop] = viewer[w].on
    BY <1>0, <1>2, <2>1, <2>4, <2>5 DEF ChannelsMatch, TypeOK, Requests, Ids
  <2>7. ChannelsMatch'
    <3>1. \A w \in Viewers : viewer'[w].at = "waiting" =>
            /\ channels'[viewer'[w].shop] = viewer'[w].on
            /\ viewer'[w].on # 0 /\ subscription'[viewer'[w].on] = "pending"
      BY <1>0, <1>2, <2>1, <2>2, <2>5, <2>6 DEF ChannelsMatch
    <3>2. \A d \in Ids : \A w \in listeners'[d] :
            w \in Attached' /\ channels'[viewer'[w].shop] = d
      BY <1>0, <1>2, <2>1, <2>2, <2>3, <2>5 DEF ChannelsMatch, Attached, TypeOK
    <3>3. \A t \in Shops : channels'[t] <= made'
      BY <2>1, <2>4
    <3>4. \A t \in Shops : channels'[t] # 0 =>
            subscription'[channels'[t]] \in {"pending", "open"}
      <4> TAKE t \in Shops
      <4>1. CASE t = s
        BY <4>1, <2>1
      <4>2. CASE t # s
        <5>1. channels'[t] = channels[t] /\ channels[t] # c /\ channels[t] \in 0..MaxChannels
          BY <4>2, <2>1, <2>4, <1>0 DEF TypeOK
        <5> QED BY <5>1, <2>1, <1>0, <1>2 DEF ChannelsMatch, Ids
      <4> QED BY <4>1, <4>2
    <3>5. \A d \in Ids : d > made' => subscription'[d] = "none"
      <4> SUFFICES ASSUME NEW d \in Ids, d > made + 1 PROVE subscription'[d] = "none"
        BY <2>1
      <4>1. d > made /\ d # made + 1
        BY <2>4, HubAssumption, <1>0 DEF Ids, TypeOK
      <4>2. d # c
        BY <4>1, <2>1
      <4> QED BY <4>1, <4>2, <2>1, <1>0, <1>2 DEF ChannelsMatch
    <3> QED BY <3>1, <3>2, <3>3, <3>4, <3>5 DEF ChannelsMatch
  <2>8. AttachedIsListening'
    <3> SUFFICES ASSUME NEW w \in Attached
                 PROVE  LET d == channels'[viewer'[w].shop] IN
                        d # 0 /\ subscription'[d] = "open" /\ w \in listeners'[d]
      BY <2>3 DEF AttachedIsListening
    <3>1. viewer'[w] = viewer[w] /\ viewer[w].shop \in Shops \ {s}
      BY <1>2, <2>2, <2>5 DEF Attached
    <3>2. channels[viewer[w].shop] \in Ids \ {c}
      BY <3>1, <2>1, <2>4, <1>0, <1>2 DEF AttachedIsListening, TypeOK, Ids
    <3> QED BY <3>1, <3>2, <2>1, <1>0, <1>2 DEF AttachedIsListening
  <2>9. PendingIsAwaited'
    <3> SUFFICES ASSUME NEW t \in Shops, channels'[t] # 0,
                        subscription'[channels'[t]] = "pending"
                 PROVE  \E w \in Viewers :
                          /\ viewer'[w].at = "waiting" /\ viewer'[w].shop = t
                          /\ viewer'[w].on = channels'[t]
      BY DEF PendingIsAwaited
    <3>1. CASE t = s
      BY <3>1, <2>2
    <3>2. CASE t # s
      <4>1. channels'[t] = channels[t] /\ channels[t] \in Ids \ {c}
        BY <3>2, <2>1, <2>4, <1>0 DEF TypeOK, Ids
      <4> QED BY <4>1, <2>1, <2>2, <1>2, StillAwaited
    <3> QED BY <3>1, <3>2
  <2> QED BY <2>1, <2>3, <2>7, <2>8, <2>9, <1>0, <1>2 DEF Matching, TotalIsAttached
<1>4. CASE AttachWaiting(v)
  <2>1. /\ UNCHANGED hub /\ c # 0 /\ subscription[c] = "pending"
    BY <1>4 DEF AttachWaiting, hub
  <2>2. /\ viewer'[v].at = "waiting" /\ viewer'[v].on = c /\ viewer'[v].shop = s
        /\ \A w \in Viewers \ {v} : viewer'[w] = viewer[w]
    BY <1>0, <1>1, <1>4, <2>1 DEF AttachWaiting, Becomes, Streams, TypeOK, Requests, hub
  <2>3. Attached' = Attached
    BY <1>2, <2>2 DEF Attached
  <2>4. ChannelsMatch'
    BY <1>0, <1>2, <2>1, <2>2, <2>3 DEF ChannelsMatch, hub, Attached
  <2>5. AttachedIsListening'
    BY <1>0, <1>2, <2>1, <2>2, <2>3 DEF AttachedIsListening, hub, Attached
  <2>6. PendingIsAwaited'
    BY <2>1, <2>2, <1>2, StillAwaited DEF PendingIsAwaited, hub
  <2> QED BY <2>1, <2>3, <2>4, <2>5, <2>6, <1>0, <1>2
    DEF Matching, TotalIsAttached, hub
<1>5. CASE AttachOpen(v)
  <2>1. /\ c = channels[s] /\ c # 0 /\ c \in Ids /\ subscription[c] = "open"
        /\ UNCHANGED <<channels, made, subscription, closed>>
        /\ total' = total + 1
        /\ listeners'[c] = listeners[c] \cup {v}
        /\ \A d \in Ids \ {c} : listeners'[d] = listeners[d]
    BY <1>0, <1>1, <1>5 DEF AttachOpen, TypeOK, Ids
  <2>2. /\ viewer'[v].at = "attached" /\ viewer'[v].shop = s
        /\ \A w \in Viewers \ {v} : viewer'[w] = viewer[w]
    BY <1>0, <1>1, <1>5, <2>1 DEF AttachOpen, Becomes, Streams, TypeOK, Requests
  <2>3. Attached' = Attached \cup {v}
    BY <2>2 DEF Attached
  <2>4. TotalIsAttached'
    <3>1. Cardinality(Attached \cup {v}) = Cardinality(Attached) + 1
      BY <1>2, FiniteAttached, FS_AddElement
    <3>2. total = Cardinality(Attached)
      BY <1>0 DEF TotalIsAttached
    <3> HIDE DEF c
    <3> QED BY <2>1, <2>3, <3>1, <3>2 DEF TotalIsAttached
  <2>5. ChannelsMatch'
    <3>1. \A w \in Viewers : viewer'[w].at = "waiting" => viewer'[w] = viewer[w]
      BY <2>2
    <3>2. \A d \in Ids : \A w \in listeners'[d] :
            w \in Attached' /\ channels'[viewer'[w].shop] = d
      BY <1>0, <1>2, <2>1, <2>2, <2>3 DEF ChannelsMatch, Attached, TypeOK
    <3> QED BY <3>1, <3>2, <2>1, <1>0, <1>2 DEF ChannelsMatch
  <2>6. AttachedIsListening'
    <3> SUFFICES ASSUME NEW w \in Attached'
                 PROVE  LET d == channels'[viewer'[w].shop] IN
                        d # 0 /\ subscription'[d] = "open" /\ w \in listeners'[d]
      BY DEF AttachedIsListening
    <3>1. CASE w = v
      BY <3>1, <2>1, <2>2
    <3>2. CASE w # v
      <4>1. w \in Attached /\ viewer'[w] = viewer[w] /\ viewer[w].shop \in Shops
        BY <3>2, <2>2, <2>3, <1>0 DEF Attached, TypeOK, Requests
      <4>2. channels[viewer[w].shop] \in Ids
        BY <4>1, <1>0, <1>2 DEF AttachedIsListening, TypeOK, Ids
      <4> QED BY <4>1, <4>2, <2>1, <1>0, <1>2 DEF AttachedIsListening
    <3> QED BY <3>1, <3>2
  <2>7. PendingIsAwaited'
    BY <2>1, <2>2, <1>2, StillAwaited DEF PendingIsAwaited
  <2> QED BY <2>4, <2>5, <2>6, <2>7 DEF Matching
<1> QED BY <1>3, <1>4, <1>5

\* The subscription of a channel is open: all who waited listen.
LEMMA AnswerKeepsMatch ==
  ASSUME HubInv, ~closed, NEW c \in Ids, SubscribeAnswers(c)
  PROVE  Matching'
<1> DEFINE W == Waiting(c)
<1>0. TypeOK /\ ChannelsMatch /\ PendingIsAwaited /\ TotalIsAttached
      /\ AttachedIsListening
  BY DEF HubInv
<1>1. /\ subscription[c] = "pending" /\ subscription'[c] = "open"
      /\ \A d \in Ids \ {c} : subscription'[d] = subscription[d]
      /\ listeners'[c] = listeners[c] \cup W
      /\ \A d \in Ids \ {c} : listeners'[d] = listeners[d]
      /\ total' = total + Cardinality(W)
      /\ UNCHANGED <<channels, made, closed>>
  BY <1>0 DEF SubscribeAnswers, TypeOK
<1>2. \A v \in Viewers : /\ viewer'[v].shop = viewer[v].shop
                         /\ viewer'[v].on = viewer[v].on
                         /\ viewer'[v].at = IF v \in W THEN "attached" ELSE viewer[v].at
  <2> SUFFICES ASSUME NEW v \in Viewers
               PROVE  /\ viewer'[v].shop = viewer[v].shop
                      /\ viewer'[v].on = viewer[v].on
                      /\ viewer'[v].at = IF v \in W THEN "attached" ELSE viewer[v].at
    OBVIOUS
  <2>1. viewer[v] \in Requests
    BY <1>0 DEF TypeOK
  <2>2. viewer'[v] = IF v \in W THEN [viewer[v] EXCEPT !.at = "attached"] ELSE viewer[v]
    BY DEF SubscribeAnswers
  <2> QED BY <2>1, <2>2 DEF Requests
<1>3. \A v \in W : /\ v \in Viewers /\ viewer[v].at = "waiting" /\ viewer[v].on = c
                   /\ channels[viewer[v].shop] = c
  BY <1>0 DEF ChannelsMatch, Waiting
<1>4. \A v \in Viewers : viewer[v].at = "waiting" /\ v \notin W => viewer[v].on # c
  BY DEF Waiting
<1>5. Attached' = Attached \cup W /\ Attached \cap W = {}
  BY <1>2, <1>3 DEF Attached
<1>6. IsFiniteSet(W)
  BY HubAssumption, FS_Subset DEF Waiting
<1> HIDE DEF W
<1>7. TotalIsAttached'
  <2>1. Cardinality(Attached \cup W)
          = Cardinality(Attached) + Cardinality(W) - Cardinality(Attached \cap W)
    BY <1>6, FiniteAttached, FS_Union
  <2>2. Cardinality(Attached \cap W) = 0
    BY <1>5, FS_EmptySet
  <2>3. Cardinality(W) \in Nat /\ Cardinality(Attached) \in Nat
    BY <1>6, FiniteAttached, FS_CardinalityType
  <2>4. Cardinality(Attached \cup W) = Cardinality(Attached) + Cardinality(W)
    BY <2>1, <2>2, <2>3
  <2>5. total = Cardinality(Attached)
    BY <1>0 DEF TotalIsAttached
  <2> QED BY <2>4, <2>5, <1>1, <1>5 DEF TotalIsAttached
<1>8. ChannelsMatch'
  <2>1. ASSUME NEW v \in Viewers, viewer'[v].at = "waiting"
        PROVE  /\ channels'[viewer'[v].shop] = viewer'[v].on
               /\ viewer'[v].on # 0 /\ subscription'[viewer'[v].on] = "pending"
    <3>1. v \notin W /\ viewer[v].at = "waiting" /\ viewer[v].on # c
      BY <2>1, <1>2, <1>4
    <3>2. viewer[v].on \in Ids
      BY <3>1, <1>0 DEF ChannelsMatch, TypeOK, Requests, Ids
    <3> QED BY <3>1, <3>2, <1>0, <1>1, <1>2 DEF ChannelsMatch
  <2>2. \A d \in Ids : \A v \in listeners'[d] :
          v \in Attached' /\ channels'[viewer'[v].shop] = d
    BY <1>0, <1>1, <1>2, <1>3, <1>5 DEF ChannelsMatch, TypeOK
  <2>3. \A s \in Shops : channels'[s] # 0 =>
          subscription'[channels'[s]] \in {"pending", "open"}
    BY <1>0, <1>1 DEF ChannelsMatch, TypeOK, Ids
  <2>4. \A d \in Ids : d > made' => subscription'[d] = "none"
    BY <1>0, <1>1 DEF ChannelsMatch
  <2> QED BY <2>1, <2>2, <2>3, <2>4, <1>0, <1>1 DEF ChannelsMatch
<1>9. AttachedIsListening'
  <2> SUFFICES ASSUME NEW v \in Attached'
               PROVE  LET d == channels[viewer[v].shop] IN
                      d # 0 /\ subscription'[d] = "open" /\ v \in listeners'[d]
    BY <1>1, <1>2 DEF AttachedIsListening, Attached
  <2>1. CASE v \in W
    BY <2>1, <1>1, <1>3 DEF Ids
  <2>2. CASE v \in Attached
    <3>1. viewer[v].shop \in Shops /\ channels[viewer[v].shop] \in Ids \ {c}
      BY <2>2, <1>0, <1>1 DEF AttachedIsListening, Attached, TypeOK, Requests, Ids
    <3> QED BY <2>2, <3>1, <1>0, <1>1 DEF AttachedIsListening
  <2> QED BY <2>1, <2>2, <1>5
<1>10. PendingIsAwaited'
  <2> SUFFICES ASSUME NEW t \in Shops, channels[t] # 0,
                      subscription'[channels[t]] = "pending"
               PROVE  \E w \in Viewers :
                        /\ viewer'[w].at = "waiting" /\ viewer'[w].shop = t
                        /\ viewer'[w].on = channels'[t]
    BY <1>1 DEF PendingIsAwaited
  <2>1. channels[t] \in Ids \ {c}
    BY <1>0, <1>1 DEF TypeOK, Ids
  <2>2. ASSUME NEW w \in Viewers, viewer[w].at = "waiting", viewer[w].on = channels[t]
        PROVE  viewer'[w] = viewer[w]
    BY <2>1, <2>2, <1>3 DEF SubscribeAnswers, W
  <2> QED BY <2>1, <2>2, <1>1, StillAwaited
<1> QED BY <1>7, <1>8, <1>9, <1>10 DEF Matching

\* It fails: the shop has no channel, and nobody listened to the one it had.
LEMMA FailureKeepsMatch ==
  ASSUME HubInv, ~closed, NEW c \in Ids, SubscribeFails(c)
  PROVE  Matching'
<1> DEFINE W == Waiting(c)
<1>0. TypeOK /\ ChannelsMatch /\ PendingIsAwaited /\ TotalIsAttached
      /\ AttachedIsListening
  BY DEF HubInv
<1>1. /\ subscription[c] = "pending" /\ subscription'[c] = "failed"
      /\ \A d \in Ids \ {c} : subscription'[d] = subscription[d]
      /\ UNCHANGED <<made, listeners, total, closed>>
  BY <1>0 DEF SubscribeFails, TypeOK
<1>2. \A v \in Viewers : IF v \in W THEN viewer'[v].at = "away"
                                   ELSE viewer'[v] = viewer[v]
  BY DEF SubscribeFails, Ended, NoRequest
<1>3. \A v \in W : /\ viewer[v].at = "waiting" /\ viewer[v].shop \in Shops
                   /\ channels[viewer[v].shop] = c
  BY <1>0 DEF ChannelsMatch, Waiting, TypeOK, Requests
<1>4. \A s \in Shops : channels'[s] = IF \E v \in W : viewer[v].shop = s
                                     THEN 0 ELSE channels[s]
  BY DEF SubscribeFails
<1>5. \A v \in Viewers : viewer[v].at = "waiting" /\ v \notin W => viewer[v].on # c
  BY DEF Waiting
<1>6. Attached' = Attached
  BY <1>2, <1>3 DEF Attached
<1>7. \A v \in Attached : /\ v \in Viewers /\ viewer'[v] = viewer[v]
                         /\ viewer[v].shop \in Shops
                         /\ channels[viewer[v].shop] \in Ids \ {c}
                         /\ channels'[viewer[v].shop] = channels[viewer[v].shop]
  <2> TAKE v \in Attached
  <2>1. v \in Viewers /\ v \notin W /\ viewer[v].shop \in Shops
    BY <1>3, <1>0 DEF Attached, TypeOK, Requests
  <2>2. channels[viewer[v].shop] \in Ids \ {c}
    BY <2>1, <1>0, <1>1 DEF AttachedIsListening, TypeOK, Ids
  <2> QED BY <2>1, <2>2, <1>2, <1>3, <1>4
<1> HIDE DEF W
<1>8. TotalIsAttached'
  BY <1>0, <1>1, <1>6 DEF TotalIsAttached
<1>9. AttachedIsListening'
  BY <1>0, <1>1, <1>6, <1>7 DEF AttachedIsListening
<1>10. ChannelsMatch'
  <2>0. viewer \in [Viewers -> Requests] /\ channels \in [Shops -> 0..MaxChannels]
    BY <1>0 DEF TypeOK
  <2>1. ASSUME NEW v \in Viewers, viewer'[v].at = "waiting"
        PROVE  /\ channels'[viewer'[v].shop] = viewer'[v].on
               /\ viewer'[v].on # 0 /\ subscription'[viewer'[v].on] = "pending"
    <3>1. v \notin W /\ viewer'[v] = viewer[v]
      BY <2>1, <1>2
    <3>2. viewer[v].on # c /\ viewer[v].at = "waiting" /\ viewer[v].shop \in Shops
      BY <3>1, <2>0, <2>1, <1>5 DEF Requests
    <3>3. /\ channels[viewer[v].shop] = viewer[v].on /\ viewer[v].on \in Ids
          /\ subscription[viewer[v].on] = "pending" /\ viewer[v].on # 0
      BY <3>2, <2>0, <1>0 DEF ChannelsMatch, Requests, Ids
    <3>4. channels'[viewer[v].shop] = viewer[v].on
      BY <3>2, <3>3, <1>3, <1>4
    <3> QED BY <3>1, <3>2, <3>3, <3>4, <1>1
  <2>2. \A d \in Ids : \A v \in listeners'[d] :
          v \in Attached' /\ channels'[viewer'[v].shop] = d
    BY <1>0, <1>1, <1>6, <1>7 DEF ChannelsMatch
  <2>3. \A s \in Shops : channels'[s] <= made'
    BY <1>0, <1>1, <1>4 DEF ChannelsMatch, TypeOK
  <2>4. ASSUME NEW s \in Shops, channels'[s] # 0
        PROVE  subscription'[channels'[s]] \in {"pending", "open"}
    <3>1. channels'[s] = channels[s] /\ channels[s] \in Ids /\ channels[s] # 0
      BY <2>4, <2>0, <1>4 DEF Ids
    <3>2. channels[s] # c
      <4> SUFFICES ASSUME channels[s] = c PROVE FALSE
        OBVIOUS
      <4>1. \E v \in W : viewer[v].shop = s
        BY <1>0, <1>1, <2>4, <3>1 DEF PendingIsAwaited, W, Waiting
      <4> QED BY <4>1, <2>4, <1>4
    <3> QED BY <3>1, <3>2, <1>0, <1>1 DEF ChannelsMatch
  <2>5. \A d \in Ids : d > made' => subscription'[d] = "none"
    BY <1>0, <1>1 DEF ChannelsMatch
  <2> QED BY <2>1, <2>2, <2>3, <2>4, <2>5 DEF ChannelsMatch
<1>11. PendingIsAwaited'
  <2> SUFFICES ASSUME NEW t \in Shops, channels'[t] # 0,
                      subscription'[channels'[t]] = "pending"
               PROVE  \E w \in Viewers :
                        /\ viewer'[w].at = "waiting" /\ viewer'[w].shop = t
                        /\ viewer'[w].on = channels'[t]
    BY DEF PendingIsAwaited
  <2>1. channels'[t] = channels[t] /\ channels[t] \in Ids \ {c}
    BY <1>0, <1>1, <1>4 DEF TypeOK, Ids
  <2>2. ASSUME NEW w \in Viewers, viewer[w].at = "waiting", viewer[w].on = channels[t]
        PROVE  viewer'[w] = viewer[w]
    BY <2>1, <2>2, <1>2 DEF W, Waiting
  <2> QED BY <2>1, <2>2, <1>1, StillAwaited
<1> QED BY <1>8, <1>9, <1>10, <1>11 DEF Matching

\* A stream ends: the last listener takes the channel with it.
LEMMA DetachKeepsMatch ==
  ASSUME HubInv, ~closed, NEW v \in Viewers, StreamEnds(v)
  PROVE  Matching'
<1> DEFINE s == viewer[v].shop
           c == channels[s]
<1>0. TypeOK /\ ChannelsMatch /\ PendingIsAwaited /\ TotalIsAttached
      /\ AttachedIsListening
  BY DEF HubInv
<1>1. v \in Attached
  BY DEF StreamEnds, Attached
<1>2. /\ s \in Shops /\ c # 0 /\ c \in Ids /\ subscription[c] = "open"
      /\ v \in listeners[c]
  BY <1>0, <1>1 DEF AttachedIsListening, TypeOK, Requests, Ids
<1>3. /\ listeners' = [listeners EXCEPT ![c] = @ \ {v}]
      /\ total' = total - 1
      /\ channels' = [channels EXCEPT ![s] = IF listeners[c] \ {v} = {} THEN 0 ELSE @]
      /\ viewer' = [viewer EXCEPT ![v] = NoRequest(s)]
      /\ UNCHANGED <<made, subscription, closed>>
  BY <1>2 DEF StreamEnds, Detach, Becomes
<1> HIDE DEF s, c
<1>4. /\ listeners'[c] = listeners[c] \ {v}
      /\ \A d \in Ids \ {c} : listeners'[d] = listeners[d]
      /\ channels'[s] = IF listeners[c] \ {v} = {} THEN 0 ELSE channels[s]
      /\ \A t \in Shops \ {s} : channels'[t] = channels[t]
      /\ viewer'[v].at = "away"
      /\ \A w \in Viewers \ {v} : viewer'[w] = viewer[w]
  BY <1>0, <1>2, <1>3 DEF TypeOK, NoRequest
<1>5. Attached' = Attached \ {v}
  BY <1>4 DEF Attached
<1>6. c = channels[s] /\ viewer[v].shop = s
  BY DEF c, s
<1>7. TotalIsAttached'
  <2>1. Cardinality(Attached \ {v}) = Cardinality(Attached) - 1
    BY <1>1, FiniteAttached, FS_RemoveElement
  <2>2. total = Cardinality(Attached)
    BY <1>0 DEF TotalIsAttached
  <2> QED BY <2>1, <2>2, <1>3, <1>5 DEF TotalIsAttached
<1>8. AttachedIsListening'
  <2> SUFFICES ASSUME NEW w \in Attached'
               PROVE  LET d == channels'[viewer'[w].shop] IN
                      d # 0 /\ subscription[d] = "open" /\ w \in listeners'[d]
    BY <1>3 DEF AttachedIsListening
  <2>1. w \in Attached /\ w # v /\ viewer'[w] = viewer[w] /\ viewer[w].shop \in Shops
    BY <1>0, <1>4, <1>5 DEF Attached, TypeOK, Requests
  <2>2. LET d == channels[viewer[w].shop] IN
        d # 0 /\ d \in Ids /\ subscription[d] = "open" /\ w \in listeners[d]
    BY <2>1, <1>0 DEF AttachedIsListening, TypeOK, Ids
  <2>3. CASE viewer[w].shop = s
    BY <2>1, <2>2, <2>3, <1>4, <1>6
  <2>4. CASE viewer[w].shop # s
    BY <2>1, <2>2, <2>4, <1>4
  <2> QED BY <2>3, <2>4
<1>9. ChannelsMatch'
  <2>1. ASSUME NEW w \in Viewers, viewer'[w].at = "waiting"
        PROVE  /\ channels'[viewer'[w].shop] = viewer'[w].on
               /\ viewer'[w].on # 0 /\ subscription'[viewer'[w].on] = "pending"
    <3>1. w # v /\ viewer'[w] = viewer[w] /\ viewer[w].shop \in Shops
      BY <2>1, <1>0, <1>4 DEF TypeOK, Requests
    <3>2. /\ channels[viewer[w].shop] = viewer[w].on
          /\ viewer[w].on # 0 /\ subscription[viewer[w].on] = "pending"
      BY <3>1, <2>1, <1>0 DEF ChannelsMatch
    <3>3. viewer[w].shop # s
      BY <3>2, <1>2, <1>6
    <3> QED BY <3>1, <3>2, <3>3, <1>3, <1>4
  <2>2. ASSUME NEW d \in Ids, NEW w \in listeners'[d]
        PROVE  w \in Attached' /\ channels'[viewer'[w].shop] = d
    <3>1. w \in listeners[d] /\ w \in Attached /\ channels[viewer[w].shop] = d
      BY <1>0, <1>4 DEF ChannelsMatch
    <3>2. w # v
      BY <3>1, <1>4, <1>6
    <3>3. w \in Viewers /\ viewer'[w] = viewer[w] /\ viewer[w].shop \in Shops
      BY <3>1, <3>2, <1>0, <1>4 DEF Attached, TypeOK, Requests
    <3> QED BY <3>1, <3>2, <3>3, <1>4, <1>5, <1>6
  <2>3. \A t \in Shops : channels'[t] = 0 \/ channels'[t] = channels[t]
    BY <1>4
  <2>4. made' \in Nat /\ made' = made
    BY <1>0, <1>3 DEF TypeOK
  <2> QED BY <2>1, <2>2, <2>3, <2>4, <1>0, <1>3 DEF ChannelsMatch
<1>10. PendingIsAwaited'
  <2> SUFFICES ASSUME NEW t \in Shops, channels'[t] # 0,
                      subscription[channels'[t]] = "pending"
               PROVE  \E w \in Viewers :
                        /\ viewer'[w].at = "waiting" /\ viewer'[w].shop = t
                        /\ viewer'[w].on = channels'[t]
    BY <1>3 DEF PendingIsAwaited
  <2>1. channels'[t] = channels[t]
    BY <1>4
  <2>2. \A w \in Viewers : viewer[w].at = "waiting" => viewer'[w] = viewer[w]
    BY <1>1, <1>4 DEF Attached
  <2> QED BY <2>1, <2>2, StillAwaited
<1> QED BY <1>7, <1>8, <1>9, <1>10 DEF Matching

LEMMA StepInv == HubInv /\ [Next]_vars => HubInv'
<1> SUFFICES ASSUME HubInv, [Next]_vars PROVE HubInv'
  OBVIOUS
<1>1. TypeOK'
  BY TypeStep DEF HubInv
<1>2. CASE closed'
  BY <1>1, <1>2
  DEF HubInv, ChannelsMatch, PendingIsAwaited, TotalIsAttached, AttachedIsListening
<1>3. CASE ~closed'
  <2>1. CASE UNCHANGED vars
    <3>1. Matching'
      BY <2>1, AsideKeepsMatch DEF vars
    <3> QED BY <3>1, <1>1 DEF HubInv, Matching
  <2>2. CASE Next
    <3>1. ~closed
      <4>1. closed' = closed \/ Close
        BY <2>2 DEF Next, Request, LookupFails, Attach, Refuse, AttachFirst,
             AttachWaiting, AttachOpen, StreamEnds, LeavesEarly, Retry, Subscribed,
             SubscribeAnswers, SubscribeFails, hub
      <4> QED BY <4>1, <1>3 DEF Close
    <3>2. Matching'
      BY <2>2, <3>1, <1>3, RequestKeepsMatch, AttachKeepsMatch, AnswerKeepsMatch,
         FailureKeepsMatch, DetachKeepsMatch
      DEF Next, Attach, Subscribed, Close
    <3> QED BY <3>2, <1>1 DEF HubInv, Matching
  <2> QED BY <2>1, <2>2
<1> QED BY <1>2, <1>3

\* The hub's bookkeeping: what it counts, maps and awaits belongs together.
THEOREM HubInvariant == Spec => []HubInv
BY InitInv, StepInv, PTL DEF Spec

\* A viewer that is attached is heard: teardown by others never takes the
\* channel it listens to (rate_hub.ts:140-163).
THEOREM SharedChannelSurvives == Spec => []AttachedIsListening
<1>1. HubInv => AttachedIsListening
  BY DEF HubInv
<1> QED BY <1>1, HubInvariant, PTL

\* The counter that the capacity check reads is the number of listeners.
THEOREM CounterIsRight == Spec => []TotalIsAttached
<1>1. HubInv => TotalIsAttached
  BY DEF HubInv
<1> QED BY <1>1, HubInvariant, PTL

-----------------------------------------------------------------------------
\* After shutdown too: a shop's channel is usable or somebody waits for it.

Usable ==
  \A s \in Shops : channels[s] # 0 =>
    /\ channels[s] <= made
    /\ subscription[channels[s]] \in {"pending", "open"}
    /\ subscription[channels[s]] = "pending" =>
         \E v \in Viewers : /\ viewer[v].at = "waiting" /\ viewer[v].shop = s
                            /\ viewer[v].on = channels[s]

\* A step that opens no channel, settles no subscription and takes nobody out
\* of the queue for one.
LEMMA QueuesKeepUsable ==
  ASSUME TypeOK, Usable, made' = made, subscription' = subscription,
         \A s \in Shops : channels'[s] \in {0, channels[s]},
         \A v \in Viewers : viewer[v].at = "waiting" =>
           /\ viewer'[v].at = "waiting" /\ viewer'[v].shop = viewer[v].shop
           /\ viewer'[v].on = viewer[v].on
  PROVE  Usable'
BY DEF Usable

LEMMA FirstKeepsUsable ==
  ASSUME TypeOK, Usable, NEW v \in Viewers, AttachFirst(v)
  PROVE  Usable'
<1> DEFINE s == viewer[v].shop
           c == made + 1
<1>1. viewer[v] \in Requests /\ s \in Shops /\ viewer[v].at = "resolving"
      /\ c \in Ids /\ made \in Nat
  BY HubAssumption DEF TypeOK, Requests, AttachFirst, Ids
<1>2. /\ channels'[s] = c /\ made' = c /\ c # 0
      /\ \A t \in Shops \ {s} : channels'[t] = channels[t]
      /\ subscription'[c] = "pending"
      /\ \A d \in Ids \ {c} : subscription'[d] = subscription[d]
  BY <1>1 DEF AttachFirst, TypeOK
<1>3. /\ viewer'[v].at = "waiting" /\ viewer'[v].on = c /\ viewer'[v].shop = s
      /\ \A w \in Viewers \ {v} : viewer'[w] = viewer[w]
  BY <1>1 DEF AttachFirst, Becomes, Streams, TypeOK, Requests
<1> SUFFICES ASSUME NEW t \in Shops, channels'[t] # 0
             PROVE  /\ channels'[t] <= made'
                    /\ subscription'[channels'[t]] \in {"pending", "open"}
                    /\ subscription'[channels'[t]] = "pending" =>
                         \E w \in Viewers :
                           /\ viewer'[w].at = "waiting" /\ viewer'[w].shop = t
                           /\ viewer'[w].on = channels'[t]
  BY DEF Usable
<1>4. CASE t = s
  BY <1>1, <1>2, <1>3, <1>4
<1>5. CASE t # s
  <2>1. channels'[t] = channels[t] /\ channels[t] \in Ids /\ channels[t] <= made
    BY <1>2, <1>5, HubAssumption DEF Usable, TypeOK, Ids
  <2>2. channels[t] # c /\ channels[t] <= made'
    BY <1>1, <1>2, <2>1 DEF Ids
  <2>3. \A w \in Viewers : viewer[w].at = "waiting" => viewer'[w] = viewer[w]
    BY <1>1, <1>3
  <2> QED BY <1>2, <2>1, <2>2, <2>3 DEF Usable
<1> QED BY <1>4, <1>5

LEMMA AnswerKeepsUsable ==
  ASSUME TypeOK, Usable, NEW c \in Ids, SubscribeAnswers(c)
  PROVE  Usable'
<1>1. /\ subscription'[c] = "open"
      /\ \A d \in Ids \ {c} : subscription'[d] = subscription[d]
      /\ UNCHANGED <<channels, made>>
  BY DEF SubscribeAnswers, TypeOK
<1>2. \A v \in Viewers : viewer[v].on # c => viewer'[v] = viewer[v]
  BY DEF SubscribeAnswers, Waiting
<1>3. \A s \in Shops : channels[s] # 0 => channels[s] \in Ids
  BY HubAssumption DEF TypeOK, Ids
<1> QED BY <1>1, <1>2, <1>3 DEF Usable

\* Whoever fails with a subscription takes the channel of the shop away; that
\* someone does is what Usable says of a pending one.
LEMMA FailureKeepsUsable ==
  ASSUME TypeOK, Usable, NEW c \in Ids, SubscribeFails(c)
  PROVE  Usable'
<1>1. /\ subscription[c] = "pending"
      /\ \A d \in Ids \ {c} : subscription'[d] = subscription[d]
      /\ made' = made
  BY DEF SubscribeFails, TypeOK
<1>2. \A v \in Viewers : viewer[v].on # c => viewer'[v] = viewer[v]
  BY DEF SubscribeFails, Ended, Waiting
<1>3. ASSUME NEW s \in Shops, channels'[s] # 0
      PROVE  channels'[s] = channels[s] /\ channels[s] \in Ids /\ channels[s] # c
  <2>1. channels'[s] = channels[s]
    BY <1>3 DEF SubscribeFails
  <2>2. channels[s] \in Ids /\ channels[s] # 0
    BY <1>3, <2>1, HubAssumption DEF TypeOK, Ids
  <2>3. ASSUME channels[s] = c PROVE FALSE
    <3>1. \E v \in Waiting(c) : viewer[v].shop = s
      BY <1>1, <2>2, <2>3 DEF Usable, Waiting
    <3> QED BY <1>3, <3>1 DEF SubscribeFails
  <2> QED BY <2>1, <2>2, <2>3
<1> SUFFICES ASSUME NEW s \in Shops, channels'[s] # 0
             PROVE  /\ channels'[s] <= made'
                    /\ subscription'[channels'[s]] \in {"pending", "open"}
                    /\ subscription'[channels'[s]] = "pending" =>
                         \E v \in Viewers :
                           /\ viewer'[v].at = "waiting" /\ viewer'[v].shop = s
                           /\ viewer'[v].on = channels'[s]
  BY DEF Usable
<1>4. /\ channels'[s] = channels[s] /\ channels[s] \in Ids /\ channels[s] # c
      /\ channels[s] # 0
  BY <1>3
<1>5. subscription'[channels'[s]] = subscription[channels[s]]
  BY <1>1, <1>4
<1> QED BY <1>1, <1>2, <1>4, <1>5 DEF Usable

LEMMA UsableStep == TypeOK /\ Usable /\ [Next]_vars => Usable'
<1> SUFFICES ASSUME TypeOK, Usable, [Next]_vars PROVE Usable'
  OBVIOUS
<1>0. viewer \in [Viewers -> Requests] /\ channels \in [Shops -> 0..MaxChannels]
  BY DEF TypeOK
<1>1. CASE UNCHANGED vars
  BY <1>1, QueuesKeepUsable DEF vars, hub
<1>2. ASSUME NEW v \in Viewers,
             \/ \E s \in Shops : Request(v, s)
             \/ LookupFails(v) \/ Refuse(v) \/ Retry(v)
             \/ AttachWaiting(v) \/ AttachOpen(v)
      PROVE  Usable'
  <2>1. viewer[v].at # "waiting" /\ \A w \in Viewers \ {v} : viewer'[w] = viewer[w]
    BY <1>0, <1>2 DEF Request, LookupFails, Refuse, Retry, AttachWaiting,
                      AttachOpen, Becomes
  <2>2. UNCHANGED <<channels, made, subscription>>
    BY <1>2 DEF Request, LookupFails, Refuse, Retry, AttachWaiting, AttachOpen, hub
  <2> QED BY <2>1, <2>2, QueuesKeepUsable
<1>3. ASSUME NEW v \in Viewers, StreamEnds(v) PROVE Usable'
  <2>1. viewer[v].at # "waiting" /\ \A w \in Viewers \ {v} : viewer'[w] = viewer[w]
    BY <1>0, <1>3 DEF StreamEnds, Becomes
  <2>2. \A s \in Shops : channels'[s] \in {0, channels[s]}
    BY <1>0, <1>3 DEF StreamEnds, Detach
  <2> QED BY <2>1, <2>2, <1>3, QueuesKeepUsable DEF StreamEnds
<1>4. ASSUME NEW v \in Viewers, LeavesEarly(v) PROVE Usable'
  <2>1. \A w \in Viewers : /\ viewer'[w].at = viewer[w].at
                           /\ viewer'[w].shop = viewer[w].shop
                           /\ viewer'[w].on = viewer[w].on
    BY <1>0, <1>4 DEF LeavesEarly, Becomes, Requests
  <2> QED BY <2>1, <1>4, QueuesKeepUsable DEF LeavesEarly, hub
<1>5. CASE Close
  BY <1>0, <1>5, QueuesKeepUsable DEF Close
<1> QED BY <1>1, <1>2, <1>3, <1>4, <1>5, FirstKeepsUsable, AnswerKeepsUsable,
           FailureKeepsUsable
        DEF Next, Attach, Subscribed

\* After a failed SUBSCRIBE the next viewer of the shop gets a fresh attempt:
\* the channel a shop has is never one whose subscription failed, before or
\* after shutdown (rate_hub.ts:126-127).
THEOREM ShopNeverPoisoned == Spec => []ShopNotPoisoned
<1>1. Init => TypeOK /\ Usable
  BY InitInv DEF HubInv, Init, Usable
<1>2. TypeOK /\ Usable /\ [Next]_vars => (TypeOK /\ Usable)'
  BY TypeStep, UsableStep
<1>3. Usable => ShopNotPoisoned
  BY DEF Usable, ShopNotPoisoned
<1> QED BY <1>1, <1>2, <1>3, PTL DEF Spec
=============================================================================
