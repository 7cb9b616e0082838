------------------------------- MODULE RateHub -------------------------------
(***************************************************************************)
(* The fan-out of one replica: rate_hub.ts and the stream route of         *)
(* http/routes/public.ts that attaches a listener to it for every open     *)
(* page.                                                                   *)
(*                                                                         *)
(* JavaScript runs one callback at a time, so an action is what happens    *)
(* between two awaits that really wait: for the database, for the          *)
(* SUBSCRIBE of a channel.  A channel object is known by the number of its *)
(* creation; `channels' maps a shop to the current one, 0 for none.        *)
(***************************************************************************)
EXTENDS Integers, FiniteSets

CONSTANTS
  Viewers,        \* pages, each with one stream request at a time
  Shops,
  MaxListeners,   \* max_listeners, SSE_MAX_CONNECTIONS_PER_REPLICA
  MaxChannels     \* bound: channel objects created

ASSUME HubAssumption ==
  /\ IsFiniteSet(Viewers)
  /\ MaxListeners \in Nat \ {0} /\ MaxChannels \in Nat

VARIABLES
  channels,      \* shop |-> channel object
  made,          \* channel objects created so far
  subscription,  \* of a channel object: its promise
  listeners,     \* of a channel object
  total,         \* the hub's counter
  viewer,        \* the stream requests
  closed         \* close() has run

hub  == <<channels, made, subscription, listeners, total, closed>>
vars == <<hub, viewer>>

Ids == 1..MaxChannels

\* A stream request: `gone' when the client has closed the connection,
\* `headers' when the 200 and the first event are out, `on' the channel object
\* whose subscription it waits for.
Requests ==
  [at : {"away", "resolving", "waiting", "attached", "refused"}, shop : Shops,
   gone : BOOLEAN, headers : BOOLEAN, on : 0..MaxChannels]

NoRequest(s) == [at |-> "away", shop |-> s, gone |-> FALSE, headers |-> FALSE,
                 on |-> 0]

TypeOK ==
  /\ channels \in [Shops -> 0..MaxChannels]
  /\ made \in 0..MaxChannels
  /\ subscription \in [Ids -> {"none", "pending", "open", "failed"}]
  /\ listeners \in [Ids -> SUBSET Viewers]
  /\ total \in Int
  /\ viewer \in [Viewers -> Requests]
  /\ closed \in BOOLEAN

Init ==
  /\ channels = [s \in Shops |-> 0]
  /\ made = 0
  /\ subscription = [c \in Ids |-> "none"]
  /\ listeners = [c \in Ids |-> {}]
  /\ total = 0
  /\ viewer \in [Viewers -> {NoRequest(s) : s \in Shops}]
  /\ closed = FALSE

\* The request of one viewer changes.
Becomes(v, r) == viewer' = [viewer EXCEPT ![v] = r]

\* The headers are out, and the viewer is with channel object c.
Streams(v, at, c) ==
  [viewer[v] EXCEPT !.at = at, !.headers = TRUE, !.on = c]

-----------------------------------------------------------------------------
(* The route and attach().  Operators named X_... are faulty variants of X. *)

\* GET /shops/:slug/stream: the shop is looked up in the database.
Request(v, s) ==
  /\ viewer[v].at = "away"
  /\ Becomes(v, [NoRequest(s) EXCEPT !.at = "resolving"])
  /\ UNCHANGED hub

\* The shop is unknown or the database fails.
LookupFails(v) ==
  /\ viewer[v].at = "resolving"
  /\ Becomes(v, NoRequest(viewer[v].shop))
  /\ UNCHANGED hub

\* The headers are flushed, then attach() looks at the counter.
Refuse(v) ==
  /\ viewer[v].at = "resolving"
  /\ total >= MaxListeners
  /\ Becomes(v, [viewer[v] EXCEPT !.at = "refused", !.headers = TRUE])
  /\ UNCHANGED hub

\* The first viewer of a shop creates the channel and subscribes.
AttachFirst(v) ==
  /\ viewer[v].at = "resolving"
  /\ total < MaxListeners
  /\ channels[viewer[v].shop] = 0
  /\ made < MaxChannels
  /\ made' = made + 1
  /\ channels' = [channels EXCEPT ![viewer[v].shop] = made + 1]
  /\ subscription' = [subscription EXCEPT ![made + 1] = "pending"]
  /\ Becomes(v, Streams(v, "waiting", made + 1))
  /\ UNCHANGED <<listeners, total, closed>>

\* Another one waits for the same subscription.
AttachWaiting(v) ==
  LET c == channels[viewer[v].shop] IN
  /\ viewer[v].at = "resolving"
  /\ total < MaxListeners
  /\ c # 0 /\ subscription[c] = "pending"
  /\ Becomes(v, Streams(v, "waiting", c))
  /\ UNCHANGED hub

\* With the subscription open nothing is waited for.
AttachOpen(v) ==
  LET c == channels[viewer[v].shop] IN
  /\ viewer[v].at = "resolving"
  /\ total < MaxListeners
  /\ c # 0 /\ subscription[c] = "open"
  /\ listeners' = [listeners EXCEPT ![c] = @ \cup {v}]
  /\ total' = total + 1
  /\ Becomes(v, Streams(v, "attached", c))
  /\ UNCHANGED <<channels, made, subscription, closed>>

Waiting(c) == {v \in Viewers : viewer[v].at = "waiting" /\ viewer[v].on = c}

SubscribeAnswers_CountsOnce(c) ==
  /\ c \in Ids /\ subscription[c] = "pending"
  /\ subscription' = [subscription EXCEPT ![c] = "open"]
  /\ listeners' = [listeners EXCEPT ![c] = @ \cup Waiting(c)]
  /\ total' = total + 1
  /\ viewer' = [v \in Viewers |-> IF v \in Waiting(c)
                                  THEN [viewer[v] EXCEPT !.at = "attached"]
                                  ELSE viewer[v]]
  /\ UNCHANGED <<channels, made, closed>>

\* Everyone who waits is attached, and the capacity is not looked at again.
\* Only now does the route listen for the end of the connection: one that has
\* ended meanwhile is not noticed.
SubscribeAnswers(c) ==
  /\ c \in Ids /\ subscription[c] = "pending"
  /\ subscription' = [subscription EXCEPT ![c] = "open"]
  /\ listeners' = [listeners EXCEPT ![c] = @ \cup Waiting(c)]
  /\ total' = total + Cardinality(Waiting(c))
  /\ viewer' = [v \in Viewers |-> IF v \in Waiting(c)
                                  THEN [viewer[v] EXCEPT !.at = "attached"]
                                  ELSE viewer[v]]
  /\ UNCHANGED <<channels, made, closed>>

Ended(waiters) ==
  viewer' = [v \in Viewers |-> IF v \in waiters THEN NoRequest(viewer[v].shop)
                                                ELSE viewer[v]]

SubscribeFails_KeepsChannel(c) ==
  /\ c \in Ids /\ subscription[c] = "pending"
  /\ subscription' = [subscription EXCEPT ![c] = "failed"]
  /\ Ended(Waiting(c))
  /\ UNCHANGED <<channels, made, listeners, total, closed>>

\* The channel of the shop is forgotten, whichever it is by now, and the
\* streams that waited end.
SubscribeFails(c) ==
  /\ c \in Ids /\ subscription[c] = "pending"
  /\ subscription' = [subscription EXCEPT ![c] = "failed"]
  /\ channels' = [s \in Shops |-> IF \E v \in Waiting(c) : viewer[v].shop = s
                                  THEN 0 ELSE channels[s]]
  /\ Ended(Waiting(c))
  /\ UNCHANGED <<made, listeners, total, closed>>

-----------------------------------------------------------------------------
(* The end of a stream, and of the replica.                                *)

Detach_ForgetsChannel(v) ==
  LET s == viewer[v].shop
      c == channels[s] IN
  IF c = 0 THEN UNCHANGED <<channels, listeners, total>>
  ELSE /\ listeners' = [listeners EXCEPT ![c] = @ \ {v}]
       /\ total' = IF v \in listeners[c] THEN total - 1 ELSE total
       /\ channels' = [channels EXCEPT ![s] = 0]

\* The listener leaves the channel that its shop has now; the last one takes
\* the channel with it.  (The UNSUBSCRIBE that follows is Redis' business.)
Detach(v) ==
  LET s == viewer[v].shop
      c == channels[s] IN
  IF c = 0 THEN UNCHANGED <<channels, listeners, total>>
  ELSE /\ listeners' = [listeners EXCEPT ![c] = @ \ {v}]
       /\ total' = IF v \in listeners[c] THEN total - 1 ELSE total
       /\ channels' = [channels EXCEPT ![s] = IF listeners[c] \ {v} = {} THEN 0
                                                                         ELSE @]

\* The connection of an attached viewer ends: cleanup runs, once.
StreamEnds(v) ==
  /\ viewer[v].at = "attached" /\ ~viewer[v].gone
  /\ Detach(v)
  /\ Becomes(v, NoRequest(viewer[v].shop))
  /\ UNCHANGED <<made, subscription, closed>>

\* It ends before the route has registered cleanup.
LeavesEarly(v) ==
  /\ viewer[v].at \in {"resolving", "waiting"} /\ ~viewer[v].gone
  /\ Becomes(v, [viewer[v] EXCEPT !.gone = TRUE])
  /\ UNCHANGED hub

\* A viewer that was refused may come back.
Retry(v) ==
  /\ viewer[v].at = "refused"
  /\ Becomes(v, NoRequest(viewer[v].shop))
  /\ UNCHANGED hub

\* Shutdown.  A subscription that is still pending settles afterwards.
Close ==
  /\ ~closed
  /\ closed' = TRUE
  /\ channels' = [s \in Shops |-> 0]
  /\ total' = 0
  /\ listeners' = [c \in Ids |-> IF \E s \in Shops : channels[s] = c THEN {}
                                 ELSE listeners[c]]
  /\ UNCHANGED <<made, subscription, viewer>>

-----------------------------------------------------------------------------
Attach(v) ==
  Refuse(v) \/ AttachFirst(v) \/ AttachWaiting(v) \/ AttachOpen(v)

Subscribed(c) == SubscribeAnswers(c) \/ SubscribeFails(c)

Next ==
  \/ \E v \in Viewers, s \in Shops : Request(v, s)
  \/ \E v \in Viewers : \/ LookupFails(v) \/ Attach(v)
                        \/ StreamEnds(v) \/ LeavesEarly(v) \/ Retry(v)
  \/ \E c \in Ids : Subscribed(c)
  \/ Close

Spec == Init /\ [][Next]_vars

-----------------------------------------------------------------------------
(* Properties.                                                             *)

Attached == {v \in Viewers : viewer[v].at = "attached"}

\* What the capacity check, the health endpoint and the teardown rely on: the
\* counter is the number of attached listeners, through failed subscriptions,
\* refusals and detaches in any order (rate_hub.ts:58-59, 136, 149-151).
TotalIsAttached == ~closed => total = Cardinality(Attached)

\* The shared subscription is not torn down while someone is still using it
\* (rate_hub.test.ts:4-8): an attached viewer is a listener of the channel
\* that its shop has now, and that channel is subscribed.
AttachedIsListening ==
  ~closed => \A v \in Attached :
    LET c == channels[viewer[v].shop] IN
    c # 0 /\ subscription[c] = "open" /\ v \in listeners[c]

\* rate_hub.ts:126-127: after a failed subscribe the next viewer of the shop
\* gets a fresh attempt, whoever else was waiting.
ShopNotPoisoned ==
  \A s \in Shops : channels[s] # 0 => subscription[channels[s]] # "failed"

\* A channel object belongs to the viewers of one shop: those who wait for it
\* before it is open, those who listen afterwards.
ChannelsMatch ==
  ~closed =>
    /\ \A v \in Viewers : viewer[v].at = "waiting" =>
         /\ channels[viewer[v].shop] = viewer[v].on
         /\ viewer[v].on # 0 /\ subscription[viewer[v].on] = "pending"
    /\ \A c \in Ids : \A v \in listeners[c] :
         v \in Attached /\ channels[viewer[v].shop] = c
    /\ \A s \in Shops : channels[s] <= made
    /\ \A s \in Shops : channels[s] # 0 =>
         subscription[channels[s]] \in {"pending", "open"}
    /\ \A c \in Ids : c > made => subscription[c] = "none"

\* A subscription that is under way has someone waiting for it, so that its
\* failure takes the channel of that shop away.
PendingIsAwaited ==
  ~closed => \A s \in Shops :
    channels[s] # 0 /\ subscription[channels[s]] = "pending"
    => \E v \in Viewers : /\ viewer[v].at = "waiting" /\ viewer[v].shop = s
                          /\ viewer[v].on = channels[s]

HubInv ==
  TypeOK /\ ChannelsMatch /\ PendingIsAwaited /\ TotalIsAttached /\ AttachedIsListening

\* rate_hub.test.ts:7-8 has the hub avoid "a listener leaked after its
\* connection closed": no listener belongs to a client that has gone.
NoListenerLeaked == \A v \in Attached : ~viewer[v].gone
=============================================================================
