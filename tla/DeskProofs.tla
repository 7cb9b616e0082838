----------------------------- MODULE DeskProofs -----------------------------
(***************************************************************************)
(* Theorems about Desk, for any number of devices, requests and saves.     *)
(* What the dashboards promise needs of the types only which fields there  *)
(* are; the types themselves come last, for they need what is waited for.  *)
(***************************************************************************)
EXTENDS Desk, TLAPS

PageShape(page) ==
  /\ DOMAIN page = {"data", "version"}
  /\ "pricing" \in DOMAIN page.data

StoreShape ==
  /\ DOMAIN store = {"data", "version", "updated_by"}
  /\ \A s \in Sections : s \in DOMAIN store.data /\ DOMAIN store.data[s] = Fields[s]
  /\ store.version \in Nat

\* What VersionNamesContents says of one dashboard and of one request; and a
\* request carries the fields that its author changed, and no other.
Good(state) ==
  /\ DOMAIN state = DOMAIN Blank
  /\ PageShape(state.page)
  /\ state.phase = "ready" => Knows(state.page.version, state.page.data.pricing)

Sound(t) ==
  /\ DOMAIN t = DOMAIN Free
  /\ PageShape(t.view)
  /\ t.at = "answered" /\ t.answer = "ok" =>
       Knows(t.view.version, t.view.data.pricing)
  /\ t.at = "answered" /\ t.op = "load" => t.answer = "ok"
  /\ t.at = "sent" /\ t.op = "pricing" => Knows(t.expected, t.seen)
  /\ t.at = "sent" /\ t.op \in {"shop", "products"} => DOMAIN t.body = t.meant

Desks(desks) == DOMAIN desks = Devices /\ \A d \in Devices : Good(desks[d])
Requests(calls) == DOMAIN calls = Calls /\ \A c \in Calls : Sound(calls[c])

Inv == StoreShape /\ Desks(desk) /\ Requests(call)

LEMMA Initially == Init => Inv
  BY DEF Init, Inv, StoreShape, Desks, Requests, Good, Sound, PageShape, Blank, Fresh, Free,
         Sections, Fields, Knows, NoBody, Closed, Form

\* The store is left alone, as by every step of a device.
LEMMA StoreStays ==
  ASSUME Inv, UNCHANGED store, Desks(desk'), Requests(call')
  PROVE  Inv'
  BY DEF Inv, StoreShape, Desks, Requests, Good, Sound, Knows, PageShape, Free, Blank

LEMMA FreeIsSound == Sound(Free)
  BY DEF Sound, PageShape, Free, Fresh, Sections, Fields, NoBody

LEMMA BlankIsGood == ASSUME NEW phase, phase # "ready"
                     PROVE  Good([Blank EXCEPT !.phase = phase]) /\ Good(Blank)
  BY DEF Good, PageShape, Blank, Fresh, Sections, Fields, Closed, Form

LEMMA UnmountedIsSound ==
  ASSUME Requests(call), NEW d PROVE Requests(Unmounted(d)) /\ Requests(Abandoned(d))
<1>1. ASSUME NEW c \in Calls PROVE Sound([call[c] EXCEPT !.mounted = FALSE])
  BY <1>1 DEF Requests, Sound, Free
<1>2. ASSUME NEW c \in Calls PROVE Sound([call[c] EXCEPT !.mounted = FALSE, !.awaited = FALSE])
  BY <1>2 DEF Requests, Sound, Free
<1> QED
  BY <1>1, <1>2, FreeIsSound DEF Requests, Unmounted, Abandoned

LEMMA SendsIsSound ==
  ASSUME NEW calls, Requests(calls), NEW c \in Calls, NEW d
  PROVE  Requests(Sends(d, c, "load", calls))
<1>1. Sound([Free EXCEPT !.at = "sent", !.by = d, !.op = "load", !.awaited = TRUE])
  BY DEF Sound, PageShape, Free, Fresh, Sections, Fields, NoBody
<1> QED
  BY <1>1 DEF Requests, Sends

LEMMA DoneIsSound ==
  ASSUME Requests(call), NEW c \in Calls, Done(c) PROVE Requests(call')
  BY FreeIsSound DEF Requests, Done

-----------------------------------------------------------------------------
(* The devices.                                                            *)

LEMMA OpenKeeps == ASSUME Inv, NEW d \in Devices, Open(d) PROVE Inv'
<1>1. Requests(call')
  BY UnmountedIsSound, SendsIsSound DEF Open, Inv
<1>2. Good([Blank EXCEPT !.phase = "outside"]) /\ Good(Blank)
  BY BlankIsGood
<1>3. Desks(desk')
  BY <1>2 DEF Open, Inv, Desks
<1> QED
  BY <1>1, <1>3, StoreStays DEF Open

LEMMA TurnsIsGood ==
  ASSUME Desks(desk), NEW d \in Devices, NEW phase, phase # "ready", Turns(d, phase)
  PROVE  Desks(desk')
<1>1. Good([Blank EXCEPT !.phase = phase, !.tab = desk[d].tab])
  BY DEF Good, PageShape, Blank, Fresh, Sections, Fields, Closed, Form
<1> QED
  BY <1>1 DEF Desks, Turns

LEMMA ReloadKeeps == ASSUME Inv, NEW d \in Devices, Reload(d) PROVE Inv'
<1>1. Requests(call')
  BY UnmountedIsSound, SendsIsSound DEF Reload, Inv
<1>2. Good([desk[d] EXCEPT !.busy = TRUE])
  BY DEF Inv, Desks, Good, Blank
<1>3. Desks(desk')
  BY <1>2, TurnsIsGood DEF Reload, Inv, Desks
<1> QED
  BY <1>1, <1>3, StoreStays DEF Reload

LEMMA ShowsIsGood ==
  ASSUME NEW d, NEW state, Good(state), NEW s PROVE Good(Shows(d, state, s))
  BY DEF Good, Shows, Blank

LEMMA ChooseTabKeeps ==
  ASSUME Inv, NEW d \in Devices, NEW s \in Sections, ChooseTab(d, s) PROVE Inv'
<1>1. Requests(call')
  BY UnmountedIsSound DEF ChooseTab, Inv
<1>2. Desks(desk')
  BY ShowsIsGood DEF ChooseTab, Inv, Desks
<1> QED
  BY <1>1, <1>2, StoreStays DEF ChooseTab

LEMMA EditKeeps == ASSUME Inv, NEW d \in Devices, Edit(d) PROVE Inv'
<1>1. ASSUME NEW f PROVE Good([desk[d] EXCEPT !.form.values[f] = ~@])
  BY <1>1 DEF Inv, Desks, Good, Blank
<1>2. PICK f : desk' = [desk EXCEPT ![d].form.values[f] = ~@]
  BY DEF Edit
<1>3. Desks(desk')
  BY <1>1, <1>2 DEF Inv, Desks
<1> QED
  BY <1>3, StoreStays DEF Edit, Inv

LEMMA SaveKeeps ==
  ASSUME Inv, NEW d \in Devices, NEW body, NEW meant, Save(d, body, meant),
         desk[d].tab \in {"shop", "products"} => DOMAIN body = meant
  PROVE  Inv'
<1>1. Good([desk[d] EXCEPT !.lost = FALSE]) /\ Good([desk[d] EXCEPT !.saving = TRUE, !.lost = FALSE])
  BY DEF Inv, Desks, Good, Blank
<1>2. Desks(desk')
  BY <1>1 DEF Save, Inv, Desks
<1> DEFINE Request ==
      [Free EXCEPT !.at = "sent", !.by = d, !.op = desk[d].tab, !.body = body,
                   !.expected = IF desk[d].tab = "pricing" THEN desk[d].page.version ELSE 0,
                   !.seen = IF desk[d].tab = "pricing" THEN desk[d].page.data.pricing ELSE @,
                   !.meant = meant,
                   !.mounted = TRUE, !.awaited = TRUE]
<1>3. Sound(Request)
  <2>1. Knows(desk[d].page.version, desk[d].page.data.pricing)
    BY DEF Save, Inv, Desks, Good
  <2>2. DOMAIN Request = DOMAIN Free /\ Request.view = Fresh /\ Request.at = "sent"
    BY DEF Free
  <2>3. Request.op = "pricing" => Knows(Request.expected, Request.seen)
    BY <2>1 DEF Free
  <2>4. PageShape(Fresh)
    BY DEF PageShape, Fresh, Sections, Fields
  <2>5. Request.op = desk[d].tab /\ Request.body = body /\ Request.meant = meant
    BY DEF Free
  <2> QED
    BY <2>2, <2>3, <2>4, <2>5 DEF Sound
<1>4. Requests(call')
  BY <1>3 DEF Save, Inv, Requests
<1> QED
  BY <1>2, <1>4, StoreStays DEF Save

LEMMA DeviceKeeps == ASSUME Inv, NEW d \in Devices, Device(d) PROVE Inv'
<1>1. CASE SaveRule(d)
  BY <1>1, SaveKeeps DEF SaveRule
<1>2. CASE SaveShop(d)
  BY <1>2, SaveKeeps DEF SaveShop
<1>3. CASE SaveProduct(d)
  BY <1>3, SaveKeeps DEF SaveProduct
<1> QED
  BY <1>1, <1>2, <1>3, OpenKeeps, ReloadKeeps, ChooseTabKeeps, EditKeeps DEF Device

-----------------------------------------------------------------------------
(* The server.  A change of the rule leaves every version that anybody     *)
(* holds behind, but the one that it answers.                              *)

LEMMA StoredShape ==
  ASSUME Inv, NEW c \in Calls, store' = Stored(c)
  PROVE  /\ StoreShape'
         /\ store'.version = IF call[c].op = "pricing" THEN store.version + 1 ELSE store.version
         /\ \A s \in Sections : s # call[c].op => store'.data[s] = store.data[s]
         /\ call[c].op \in Sections =>
              store'.data[call[c].op] = Merged(store.data[call[c].op], call[c].body)
<1> USE DEF Inv, StoreShape
<1>1. /\ DOMAIN store' = DOMAIN store
      /\ store'.version = IF call[c].op = "pricing" THEN store.version + 1 ELSE store.version
  BY DEF Stored
<1>2. store'.data = [store.data EXCEPT ![call[c].op] = Merged(@, call[c].body)]
  BY DEF Stored
<1>3. \A s \in Sections : DOMAIN Merged(store.data[s], call[c].body) = Fields[s]
  BY DEF Merged
<1> QED
  BY <1>1, <1>2, <1>3

LEMMA PricingIsSection == "pricing" \in Sections
  BY DEF Sections, Fields

\* The store after a step of the server.
Writes(c) == store' = Stored(c) \/ UNCHANGED store

LEMMA KnowledgeStays ==
  ASSUME Inv, NEW c \in Calls, Writes(c), NEW version, NEW pricing,
         Knows(version, pricing)
  PROVE  Knows(version, pricing)'
<1>1. CASE UNCHANGED store
  BY <1>1 DEF Knows
<1>2. CASE store' = Stored(c)
  BY <1>2, StoredShape, PricingIsSection DEF Knows, Inv, StoreShape
<1> QED
  BY <1>1, <1>2 DEF Writes

LEMMA ServerStep ==
  ASSUME Inv, NEW c \in Calls, Writes(c), UNCHANGED desk,
         NEW t, call' = [call EXCEPT ![c] = t], Sound(t)'
  PROVE  Inv'
<1>1. StoreShape'
  BY StoredShape DEF Writes, StoreShape, Inv
<1>2. ASSUME NEW d \in Devices PROVE Good(desk[d])'
  <2>1. Good(desk[d])
    BY DEF Inv, Desks
  <2> QED
    BY <2>1, KnowledgeStays DEF Good, PageShape, Blank
<1>3. ASSUME NEW e \in Calls, e # c PROVE Sound(call[e])'
  <2>1. Sound(call[e]) /\ call'[e] = call[e]
    BY <1>3 DEF Inv, Requests
  <2> QED
    BY <2>1, KnowledgeStays DEF Sound, PageShape, Free
<1>4. Sound(call[c])' /\ DOMAIN call' = Calls
  BY DEF Inv, Requests
<1> QED
  BY <1>1, <1>2, <1>3, <1>4 DEF Inv, Desks, Requests

LEMMA AnswersKeep ==
  ASSUME Inv, NEW c \in Calls, Writes(c), UNCHANGED desk,
         NEW answer, Answers(c, answer), call[c].op = "load" => answer = "ok"
  PROVE  Inv'
<1>1. PageShape(Fresh) /\ PageShape(Copy(store'))
  BY StoredShape, PricingIsSection DEF PageShape, Fresh, Copy, Writes, Inv, StoreShape
<1>2. Knows(Copy(store).version, Copy(store).data.pricing)'
  BY StoredShape, PricingIsSection DEF Knows, Copy, Writes, Inv, StoreShape
<1>3. PICK t : /\ call' = [call EXCEPT ![c] = t]
               /\ DOMAIN t = DOMAIN Free
               /\ t.at # "sent"
               /\ PageShape(t.view)
               /\ t.at = "answered" /\ t.answer = "ok" => t.view = Copy(store')
               /\ t.at = "answered" /\ t.op = "load" => t.answer = "ok"
  <2> DEFINE u == [Free EXCEPT
                     !.at = "answered", !.by = call[c].by, !.op = call[c].op,
                     !.body = IF call[c].op = "pricing" /\ call[c].mounted
                              THEN call[c].body ELSE NoBody,
                     !.answer = answer,
                     !.view = IF answer = "ok" THEN Copy(store') ELSE Fresh,
                     !.mounted = call[c].mounted, !.awaited = call[c].awaited]
  <2>1. /\ DOMAIN u = DOMAIN Free /\ u.at = "answered" /\ u.answer = answer
        /\ u.op = call[c].op
        /\ u.view = IF answer = "ok" THEN Copy(store') ELSE Fresh
    BY DEF Free
  <2>2. DOMAIN Free = DOMAIN Free /\ Free.at = "free" /\ Free.view = Fresh
    BY DEF Free
  <2>3. call' = [call EXCEPT ![c] = u] \/ call' = [call EXCEPT ![c] = Free]
    BY DEF Answers, Becomes
  <2> HIDE DEF u
  <2> QED
    BY <1>1, <2>1, <2>2, <2>3
<1>4. Sound(t)'
  BY <1>2, <1>3 DEF Sound, PageShape, Copy, Free
<1> QED
  BY <1>3, <1>4, ServerStep

LEMMA ServerKeeps == ASSUME Inv, NEW c \in Calls, Server(c) PROVE Inv'
<1>1. CASE Read(c)
  BY <1>1, AnswersKeep DEF Read, Writes
<1>2. CASE UpdateRule(c)
  BY <1>2, AnswersKeep DEF UpdateRule, Writes
<1>3. CASE UpdateSettings(c)
  BY <1>3, AnswersKeep DEF UpdateSettings, Writes
<1>4. CASE UpdateProduct(c)
  <2>1. Sound([call[c] EXCEPT !.at = "written"])'
    BY <1>4 DEF UpdateProduct, Inv, Requests, Sound, Free
  <2> QED
    BY <1>4, <2>1, ServerStep DEF UpdateProduct, Writes
<1>5. CASE ViewProduct(c)
  BY <1>5, AnswersKeep DEF ViewProduct, Writes
<1> QED
  BY <1>1, <1>2, <1>3, <1>4, <1>5 DEF Server
-----------------------------------------------------------------------------
(* The answers.                                                            *)

LEMMA LoadAnsweredKeeps == ASSUME Inv, NEW c \in Calls, LoadAnswered(c) PROVE Inv'
<1> DEFINE d    == call[c].by
           view == call[c].view
<1>1. PageShape(view) /\ Knows(view.version, view.data.pricing)
  BY DEF LoadAnswered, Inv, Requests, Sound
<1>2. ASSUME NEW e \in Devices PROVE Good(desk'[e])
  <2>1. Good(desk[e])
    BY DEF Inv, Desks
  <2>2. Good([desk[e] EXCEPT !.page = view, !.busy = FALSE])
    BY <1>1, <2>1 DEF Good, Blank
  <2>3. Good([desk[e] EXCEPT !.page = view])
    BY <1>1, <2>1 DEF Good, Blank
  <2>4. Good(Shows(d, [desk[e] EXCEPT !.page = view], desk[e].tab))
    BY <2>3, ShowsIsGood
  <2>5. /\ Good([Shows(d, [desk[e] EXCEPT !.page = view], desk[e].tab) EXCEPT
                    !.phase = "ready", !.busy = FALSE])
    BY <1>1, <2>1, <2>4 DEF Good, Shows, Blank
  <2> QED
    BY <2>1, <2>2, <2>5 DEF LoadAnswered, Loaded, Inv, Desks
<1>3. DOMAIN desk' = Devices
  BY DEF LoadAnswered, Loaded, Inv, Desks
<1>4. Requests(call')
  BY DoneIsSound DEF LoadAnswered, Inv
<1> QED
  BY <1>2, <1>3, <1>4, StoreStays DEF LoadAnswered, Desks

LEMMA LoadFailedKeeps == ASSUME Inv, NEW c \in Calls, LoadFailed(c) PROVE Inv'
<1>1. Requests(call')
  BY UnmountedIsSound, FreeIsSound DEF LoadFailed, Inv, Requests
<1>2. PICK phase \in {"outside", "error"} : Turns(call[c].by, phase)
  BY DEF LoadFailed
<1>3. Good([Blank EXCEPT !.phase = phase, !.tab = desk[call[c].by].tab])
  BY DEF Good, PageShape, Blank, Fresh, Sections, Fields, Closed, Form
<1>4. Desks(desk')
  BY <1>2, <1>3 DEF Inv, Desks, Turns
<1> QED
  BY <1>1, <1>4, StoreStays DEF LoadFailed

LEMMA KeptKnows ==
  ASSUME NEW page, NEW copy, PageShape(page), PageShape(copy), NEW s,
         Knows(page.version, page.data.pricing), Knows(copy.version, copy.data.pricing)
  PROVE  /\ PageShape(Kept(page, s, copy))
         /\ Knows(Kept(page, s, copy).version, Kept(page, s, copy).data.pricing)
  BY DEF PageShape, Kept, Knows

LEMMA SaveAnsweredKeeps == ASSUME Inv, NEW c \in Calls, SaveAnswered(c) PROVE Inv'
<1> DEFINE d     == call[c].by
           s     == call[c].op
           page  == Kept(desk[d].page, s, call[c].view)
           state == IF desk[d].phase = "ready" THEN [desk[d] EXCEPT !.page = page] ELSE desk[d]
<1>1. ASSUME d \in Devices, call[c].answer = "ok"
      PROVE  Good(state)
  <2>1. Good(desk[d]) /\ Sound(call[c])
    BY <1>1 DEF Inv, Desks, Requests
  <2>2. CASE desk[d].phase = "ready"
    <3>1. PageShape(page) /\ Knows(page.version, page.data.pricing)
      BY <1>1, <2>1, <2>2, KeptKnows DEF SaveAnswered, Good, Sound
    <3> QED
      BY <2>1, <2>2, <3>1 DEF Good, Blank
  <2> QED
    BY <2>1, <2>2
<1>2. ASSUME d \in Devices, call[c].answer = "ok"
      PROVE  Good(Confirmed(c, state, page))
  BY <1>1, <1>2 DEF Good, Confirmed, Blank
<1>3. ASSUME d \in Devices PROVE Good([desk[d] EXCEPT !.saving = FALSE, !.lost = TRUE])
  BY <1>3 DEF Inv, Desks, Good, Blank
<1>4. ASSUME d \in Devices PROVE Good(desk'[d])
  BY <1>1, <1>2, <1>3, <1>4 DEF SaveAnswered, Inv, Desks
<1>5. Desks(desk')
  BY <1>4 DEF SaveAnswered, Inv, Desks
<1>6. Requests(call')
  BY DoneIsSound DEF SaveAnswered, Inv
<1> QED
  BY <1>5, <1>6, StoreStays DEF SaveAnswered

LEMMA ReleasedIsGood ==
  ASSUME Inv, NEW c \in Calls, Released(c) PROVE Desks(desk')
<1>1. ASSUME NEW d \in Devices, NEW b PROVE Good([desk[d] EXCEPT !.saving = b])
  BY <1>1 DEF Inv, Desks, Good, Blank
<1> QED
  BY <1>1 DEF Released, Inv, Desks

LEMMA SaveFailedKeeps == ASSUME Inv, NEW c \in Calls, SaveFailed(c) PROVE Inv'
  BY ReleasedIsGood, DoneIsSound, StoreStays DEF SaveFailed, Inv

LEMMA GiveUpKeeps == ASSUME Inv, NEW c \in Calls, GiveUp(c) PROVE Inv'
<1>1. Sound([call[c] EXCEPT !.mounted = FALSE, !.awaited = FALSE])
  BY DEF Inv, Requests, Sound, Free
<1>2. Requests(call')
  BY <1>1, FreeIsSound DEF GiveUp, Becomes, Inv, Requests
<1> QED
  BY <1>2, ReleasedIsGood, StoreStays DEF GiveUp

-----------------------------------------------------------------------------
(* The theorems.                                                           *)

LEMMA NextKeeps == ASSUME Inv, [Next]_vars PROVE Inv'
<1>1. CASE Next
  BY <1>1, DeviceKeeps, ServerKeeps, LoadAnsweredKeeps, LoadFailedKeeps, SaveAnsweredKeeps,
     SaveFailedKeeps, GiveUpKeeps DEF Next
<1>2. CASE UNCHANGED vars
  BY <1>2, StoreStays DEF vars, Inv
<1> QED
  BY <1>1, <1>2

LEMMA InvAlways == Spec => []Inv
  BY Initially, NextKeeps, PTL DEF Spec

\* Pages, answers and changes on their way hold true contents for the version
\* that they quote: load, save and conflict never mix two versions of a rule.
THEOREM VersionIsContents == Spec => []VersionNamesContents
<1>1. Inv => VersionNamesContents
  BY DEF Inv, Desks, Requests, Good, Sound, VersionNamesContents
<1> QED
  BY <1>1, InvAlways, PTL

LEMMA AnswerIsSent ==
  ASSUME NEW c, NEW answer, Answers(c, answer)
  PROVE  \E t : call' = [call EXCEPT ![c] = t] /\ t.at # "sent"
<1> DEFINE u == [Free EXCEPT
                   !.at = "answered", !.by = call[c].by, !.op = call[c].op,
                   !.body = IF call[c].op = "pricing" /\ call[c].mounted
                            THEN call[c].body ELSE NoBody,
                   !.answer = answer,
                   !.view = IF answer = "ok" THEN Copy(store') ELSE Fresh,
                   !.mounted = call[c].mounted, !.awaited = call[c].awaited]
<1>1. u.at # "sent" /\ Free.at # "sent"
  BY DEF Free
<1>2. call' = [call EXCEPT ![c] = u] \/ call' = [call EXCEPT ![c] = Free]
  BY DEF Answers, Becomes
<1> QED
  BY <1>1, <1>2

\* The store changes in the three updates only, and each ends its call.
LEMMA OnlyUpdates ==
  ASSUME Inv, Next, store' # store
  PROVE  \E c \in Calls :
           /\ store' = Stored(c) /\ call[c].at = "sent" /\ call[c].op \in Sections
           /\ call'[c] # call[c]
<1>1. ASSUME NEW d \in Devices, Device(d) PROVE FALSE
  BY <1>1 DEF Device, Open, Reload, ChooseTab, Edit, SaveRule, SaveShop, SaveProduct, Save
<1>2. PICK c \in Calls : UpdateRule(c) \/ UpdateSettings(c) \/ UpdateProduct(c)
  BY <1>1 DEF Next, Server, Read, ViewProduct, LoadAnswered, LoadFailed, SaveAnswered,
              SaveFailed, GiveUp
<1>3. store' = Stored(c) /\ call[c].at = "sent" /\ call[c].op \in Sections
  BY <1>2 DEF UpdateRule, UpdateSettings, UpdateProduct, Sections, Fields
<1>4. PICK t : call' = [call EXCEPT ![c] = t] /\ t.at # "sent"
  <2>1. CASE UpdateProduct(c)
    <3>1. [call[c] EXCEPT !.at = "written"].at # "sent"
      BY DEF Inv, Requests, Sound, Free
    <3> QED
      BY <2>1, <3>1 DEF UpdateProduct
  <2> QED
    BY <1>2, <2>1, AnswerIsSent DEF UpdateRule, UpdateSettings
<1>5. call'[c] # call[c]
  BY <1>3, <1>4 DEF Inv, Requests
<1> QED
  BY <1>3, <1>5

\* A save of the shop's details or of a product changes what its author has
\* changed and nothing else, however old the page is from which he saves
\* (ShopSettingsForm.tsx:13-17, tenant_products_service.ts:163-164).
THEOREM ChangesWhatIsMeant == Spec => OnlyWhatWasMeant
<1>1. ASSUME Inv, Next, NEW s \in {"shop", "products"}, Changes(s) # {}
      PROVE  \E c \in Calls : MeansToChange(c, s)
  <2>1. PICK c \in Calls : /\ store' = Stored(c) /\ call[c].at = "sent"
                           /\ call[c].op \in Sections /\ call'[c] # call[c]
    BY <1>1, OnlyUpdates DEF Changes
  <2>2. s \in Sections
    BY DEF Sections, Fields
  <2>3. s = call[c].op
    BY <1>1, <2>1, <2>2, StoredShape DEF Changes
  <2>4. Changes(s) \subseteq DOMAIN call[c].body
    <3>1. store'.data[s] = Merged(store.data[s], call[c].body)
      BY <1>1, <2>1, <2>3, StoredShape
    <3>2. DOMAIN store.data[s] = Fields[s]
      BY <1>1, <2>2 DEF Inv, StoreShape
    <3> QED
      BY <3>1, <3>2 DEF Changes, Merged
  <2>5. DOMAIN call[c].body = call[c].meant
    BY <1>1, <2>1, <2>3 DEF Inv, Requests, Sound
  <2> QED
    BY <2>1, <2>3, <2>4, <2>5 DEF MeansToChange
<1>2. Inv /\ [Next]_vars
        => [\A s \in {"shop", "products"} :
              Changes(s) # {} => \E c \in Calls : MeansToChange(c, s)]_vars
  BY <1>1
<1> QED
  BY <1>2, InvAlways, PTL DEF Spec, OnlyWhatWasMeant

-----------------------------------------------------------------------------
(* What is disabled waits for one request of its own.                      *)

\* What the requests of a device have to do with its page, state: a request is
\* of the form on the screen, and that form waits, as long as it is mounted.
Own(d, calls) == {c \in Calls : calls[c].at # "free" /\ calls[c].by = d}

Waits(d, state, calls) ==
  /\ state.saving => \E c \in Own(d, calls) :
       calls[c].op = state.tab /\ calls[c].mounted /\ calls[c].awaited
  /\ state.busy => \E c \in Own(d, calls) : calls[c].op = "load" /\ calls[c].awaited
  /\ \A c1, c2 \in Own(d, calls) : calls[c1].mounted /\ calls[c2].mounted => c1 = c2
  /\ \A c \in Own(d, calls) :
       /\ calls[c].op = "load" => calls[c].awaited /\ ~calls[c].mounted
       /\ calls[c].at = "answered" => calls[c].answer \in {"ok", "conflict"}
       /\ calls[c].mounted =>
            /\ calls[c].awaited /\ state.saving
            /\ state.phase = "ready" /\ state.tab = calls[c].op

WaitInv ==
  /\ \A d \in Devices : Waits(d, desk[d], call)
  /\ \A c \in Calls : call[c].at # "free" => call[c].by \in Devices

\* A step in which one device and its requests change.
LEMMA OneDevice ==
  ASSUME WaitInv, NEW d \in Devices, \A e \in Devices \ {d} : desk'[e] = desk[e],
         \A c \in Calls :
           \/ call'[c] = call[c]
           \/ /\ call[c].at = "free" \/ call[c].by = d
              /\ call'[c].at = "free" \/ call'[c].by = d,
         Waits(d, desk'[d], call')
  PROVE  WaitInv'
<1>1. ASSUME NEW e \in Devices, e # d PROVE Waits(e, desk'[e], call')
  <2>1. Own(e, call') = Own(e, call)
    BY <1>1 DEF Own
  <2>2. \A c \in Own(e, call) : call'[c] = call[c]
    BY <1>1 DEF Own
  <2> QED
    BY <1>1, <2>1, <2>2 DEF WaitInv, Waits
<1>2. \A c \in Calls : call'[c].at # "free" => call'[c].by \in Devices
  BY DEF WaitInv
<1> QED
  BY <1>1, <1>2 DEF WaitInv

\* A device whose form is gone waits for no save.
LEMMA NobodyMounted ==
  ASSUME NEW d, NEW state, NEW calls, ~state.saving,
         state.busy => \E c \in Own(d, calls) : calls[c].op = "load" /\ calls[c].awaited,
         \A c \in Own(d, calls) :
           /\ ~calls[c].mounted
           /\ calls[c].op = "load" => calls[c].awaited
           /\ calls[c].at = "answered" => calls[c].answer \in {"ok", "conflict"}
  PROVE  Waits(d, state, calls)
  BY DEF Waits

LEMMA UnmountedFacts ==
  ASSUME Inv, NEW d
  PROVE  \A c \in Calls :
           /\ c \notin Own(d, call) => Unmounted(d)[c] = call[c]
           /\ c \in Own(d, call) =>
                /\ ~Unmounted(d)[c].mounted /\ Unmounted(d)[c].at = call[c].at
                /\ Unmounted(d)[c].by = d /\ Unmounted(d)[c].op = call[c].op
                /\ Unmounted(d)[c].awaited = call[c].awaited
                /\ Unmounted(d)[c].answer = call[c].answer
  BY DEF Unmounted, Own, Of, Inv, Requests, Sound, Free

LEMMA AbandonedFacts ==
  ASSUME Inv, NEW d
  PROVE  \A c \in Calls :
           /\ c \notin Own(d, call) => Abandoned(d)[c] = call[c]
           /\ c \in Own(d, call) =>
                \/ Abandoned(d)[c].at = "free"
                \/ /\ ~Abandoned(d)[c].mounted /\ Abandoned(d)[c].by = d
                   /\ Abandoned(d)[c].op # "load" /\ Abandoned(d)[c].at # "answered"
  BY DEF Abandoned, Own, Of, Inv, Requests, Sound, Free

\* What a load looks like when it is sent.
Load(d) == [Free EXCEPT !.at = "sent", !.by = d, !.op = "load", !.awaited = TRUE]

LEMMA LoadFacts ==
  ASSUME NEW d
  PROVE  /\ Load(d).at = "sent" /\ Load(d).by = d /\ Load(d).op = "load"
         /\ Load(d).awaited /\ ~Load(d).mounted
  BY DEF Load, Free

LEMMA BlankFacts ==
  ASSUME NEW phase, NEW tab
  PROVE  /\ ~Blank.saving /\ ~Blank.busy
         /\ ~[Blank EXCEPT !.phase = phase].saving
         /\ ~[Blank EXCEPT !.phase = phase].busy
         /\ ~[Blank EXCEPT !.phase = phase, !.tab = tab].saving
         /\ ~[Blank EXCEPT !.phase = phase, !.tab = tab].busy
  BY DEF Blank

LEMMA OpenWaits == ASSUME Inv, WaitInv, NEW d \in Devices, Open(d) PROVE WaitInv'
<1>1. /\ \A e \in Devices \ {d} : desk'[e] = desk[e]
      /\ ~desk'[d].saving /\ ~desk'[d].busy
  BY BlankFacts DEF Open, Inv, Desks
<1>2. CASE call' = Abandoned(d)
  <2>1. Waits(d, desk'[d], call')
    BY <1>1, <1>2, AbandonedFacts, NobodyMounted DEF Own
  <2> QED
    BY <1>1, <1>2, <2>1, AbandonedFacts, OneDevice DEF Own
<1>3. ASSUME NEW c \in Calls, call[c].at = "free", call' = Sends(d, c, "load", Abandoned(d))
      PROVE  WaitInv'
  <2>1. /\ call'[c] = Load(d)
        /\ \A e \in Calls \ {c} : call'[e] = Abandoned(d)[e]
    BY <1>3 DEF Sends, Load, Abandoned
  <2>2. Waits(d, desk'[d], call')
    BY <1>1, <2>1, AbandonedFacts, LoadFacts, NobodyMounted DEF Own
  <2> QED
    BY <1>1, <1>3, <2>1, <2>2, AbandonedFacts, LoadFacts, OneDevice DEF Own
<1> QED
  BY <1>2, <1>3 DEF Open

LEMMA ReloadWaits == ASSUME Inv, WaitInv, NEW d \in Devices, Reload(d) PROVE WaitInv'
<1>0. Waits(d, desk[d], call)
  BY DEF WaitInv
<1>1. CASE Turns(d, "outside") /\ call' = Unmounted(d)
  <2>1. /\ \A e \in Devices \ {d} : desk'[e] = desk[e]
        /\ ~desk'[d].saving /\ ~desk'[d].busy
    BY <1>1, BlankFacts DEF Turns, Inv, Desks
  <2>2. Waits(d, desk'[d], call')
    BY <1>0, <1>1, <2>1, UnmountedFacts, NobodyMounted DEF Own, Waits
  <2> QED
    BY <1>1, <2>1, <2>2, UnmountedFacts, OneDevice DEF Own
<1>2. ASSUME NEW c \in Calls, call[c].at = "free",
             desk' = [desk EXCEPT ![d].busy = TRUE], call' = Sends(d, c, "load", call)
      PROVE  WaitInv'
  <2>1. /\ \A e \in Devices \ {d} : desk'[e] = desk[e]
        /\ desk'[d].saving = desk[d].saving /\ desk'[d].tab = desk[d].tab
        /\ desk'[d].phase = desk[d].phase
    BY <1>2 DEF Inv, Desks, Good, Blank
  <2>2. call'[c] = Load(d) /\ \A e \in Calls \ {c} : call'[e] = call[e]
    BY <1>2 DEF Sends, Load, Inv, Requests
  <2>3. Own(d, call') = Own(d, call) \cup {c} /\ c \notin Own(d, call)
    BY <1>2, <2>2, LoadFacts DEF Own
  <2>4. Waits(d, desk'[d], call')
    <3>1. desk'[d].saving => \E e \in Own(d, call') :
            call'[e].op = desk'[d].tab /\ call'[e].mounted /\ call'[e].awaited
      BY <1>0, <2>1, <2>2, <2>3 DEF Waits, Own
    <3>2. \E e \in Own(d, call') : call'[e].op = "load" /\ call'[e].awaited
      BY <2>2, <2>3, LoadFacts
    <3>3. \A e \in Own(d, call') :
            \/ e \in Own(d, call) /\ call'[e] = call[e]
            \/ call'[e] = Load(d)
      BY <2>2, <2>3 DEF Own
    <3> QED
      BY <1>0, <2>1, <3>1, <3>2, <3>3, LoadFacts DEF Waits
  <2>5. call[c].at = "free" /\ call'[c].by = d
    BY <1>2, <2>2, LoadFacts
  <2> QED
    BY <2>1, <2>2, <2>4, <2>5, OneDevice
<1> QED
  BY <1>1, <1>2 DEF Reload

LEMMA ChooseTabWaits ==
  ASSUME Inv, WaitInv, NEW d \in Devices, NEW s \in Sections, ChooseTab(d, s)
  PROVE  WaitInv'
<1>0. Waits(d, desk[d], call)
  BY DEF WaitInv
<1>1. /\ \A e \in Devices \ {d} : desk'[e] = desk[e]
      /\ ~desk'[d].saving /\ desk'[d].busy = desk[d].busy
  BY DEF ChooseTab, Shows, Inv, Desks, Good, Blank
<1>2. call' = Unmounted(d)
  BY DEF ChooseTab
<1>3. Waits(d, desk'[d], call')
  BY <1>0, <1>1, <1>2, UnmountedFacts, NobodyMounted DEF Own, Waits
<1> QED
  BY <1>1, <1>2, <1>3, UnmountedFacts, OneDevice DEF Own

LEMMA SaveWaits ==
  ASSUME Inv, WaitInv, NEW d \in Devices, NEW body, NEW meant, Save(d, body, meant),
         desk[d].tab # "load"
  PROVE  WaitInv'
<1>0. Waits(d, desk[d], call)
  BY DEF WaitInv
<1>1. CASE desk' = [desk EXCEPT ![d].lost = FALSE] /\ UNCHANGED <<call, saves>>
  <2>1. /\ \A e \in Devices \ {d} : desk'[e] = desk[e]
        /\ desk'[d].saving = desk[d].saving /\ desk'[d].busy = desk[d].busy
        /\ desk'[d].tab = desk[d].tab /\ desk'[d].phase = desk[d].phase
    BY <1>1 DEF Inv, Desks, Good, Blank
  <2>2. Waits(d, desk'[d], call')
    BY <1>0, <1>1, <2>1 DEF Waits
  <2> QED
    BY <1>1, <2>1, <2>2, OneDevice
<1> DEFINE Request ==
      [Free EXCEPT !.at = "sent", !.by = d, !.op = desk[d].tab, !.body = body,
                   !.expected = IF desk[d].tab = "pricing" THEN desk[d].page.version ELSE 0,
                   !.seen = IF desk[d].tab = "pricing" THEN desk[d].page.data.pricing ELSE @,
                   !.meant = meant,
                   !.mounted = TRUE, !.awaited = TRUE]
<1>2. ASSUME NEW c \in Calls, call[c].at = "free", call' = [call EXCEPT ![c] = Request],
             desk' = [desk EXCEPT ![d].saving = TRUE, ![d].lost = FALSE]
      PROVE  WaitInv'
  <2>1. /\ \A e \in Devices \ {d} : desk'[e] = desk[e]
        /\ desk'[d].saving /\ desk'[d].busy = desk[d].busy
        /\ desk'[d].tab = desk[d].tab /\ desk'[d].phase = "ready"
    BY <1>2 DEF Save, Inv, Desks, Good, Blank
  <2>2. /\ Request.at = "sent" /\ Request.by = d /\ Request.op = desk[d].tab
        /\ Request.mounted /\ Request.awaited
    BY DEF Free
  <2> HIDE DEF Request
  <2>3. call'[c] = Request /\ \A e \in Calls \ {c} : call'[e] = call[e]
    BY <1>2 DEF Inv, Requests
  <2>4. Own(d, call') = Own(d, call) \cup {c} /\ c \notin Own(d, call)
    BY <1>2, <2>2, <2>3 DEF Own
  <2>5. \A e \in Own(d, call) : ~call[e].mounted /\ call'[e] = call[e]
    BY <1>0, <2>3, <2>4 DEF Save, Waits, Own
  <2>6. Waits(d, desk'[d], call')
    <3>1. desk'[d].busy =>
            \E e \in Own(d, call') : call'[e].op = "load" /\ call'[e].awaited
      BY <1>0, <2>1, <2>4, <2>5 DEF Waits
    <3> QED
      BY <1>0, <2>1, <2>2, <2>3, <2>4, <2>5, <3>1 DEF Waits
  <2>7. call[c].at = "free" /\ call'[c].by = d
    BY <1>2, <2>2, <2>3
  <2>8. \A e \in Devices \ {d} : desk'[e] = desk[e]
    BY <2>1
  <2>9. \A e \in Calls \ {c} : call'[e] = call[e]
    BY <2>3
  <2> QED
    BY <2>6, <2>7, <2>8, <2>9, OneDevice
<1> QED
  BY <1>1, <1>2 DEF Save

LEMMA EditWaits == ASSUME Inv, WaitInv, NEW d \in Devices, Edit(d) PROVE WaitInv'
<1>1. PICK f : desk' = [desk EXCEPT ![d].form.values[f] = ~@]
  BY DEF Edit
<1>2. /\ \A e \in Devices \ {d} : desk'[e] = desk[e]
      /\ desk'[d].saving = desk[d].saving /\ desk'[d].busy = desk[d].busy
      /\ desk'[d].tab = desk[d].tab /\ desk'[d].phase = desk[d].phase
  BY <1>1 DEF Inv, Desks, Good, Blank
<1>3. Waits(d, desk'[d], call')
  BY <1>2 DEF WaitInv, Waits, Edit
<1> QED
  BY <1>2, <1>3, OneDevice DEF Edit

\* The server answers, or nobody listens to it any more.
LEMMA AnsweredWaits ==
  ASSUME WaitInv, UNCHANGED desk, NEW c \in Calls, call[c].at # "free",
         \A e \in Calls \ {c} : call'[e] = call[e],
         \/ call'[c].at = "free" /\ ~call[c].awaited
         \/ /\ call'[c].at \in {"written", "answered"} /\ call'[c].by = call[c].by
            /\ call'[c].op = call[c].op /\ call'[c].mounted = call[c].mounted
            /\ call'[c].awaited = call[c].awaited
            /\ call'[c].at = "answered" => call'[c].answer \in {"ok", "conflict"}
  PROVE  WaitInv'
<1> DEFINE d == call[c].by
<1>1. d \in Devices /\ Waits(d, desk[d], call) /\ c \in Own(d, call)
  BY DEF WaitInv, Own
<1>2. CASE call'[c].at = "free"
  <2>1. Own(d, call') = Own(d, call) \ {c} /\ ~call[c].awaited
    BY <1>2 DEF Own
  <2>2. Waits(d, desk'[d], call')
    BY <1>1, <2>1 DEF Waits, Own
  <2> QED
    BY <1>1, <1>2, <2>2, OneDevice
<1>3. CASE call'[c].at # "free"
  <2>1. Own(d, call') = Own(d, call)
    BY <1>3 DEF Own
  <2>2. Waits(d, desk'[d], call')
    BY <1>1, <1>3, <2>1 DEF Waits, Own
  <2> QED
    BY <1>1, <1>3, <2>2, OneDevice
<1> QED
  BY <1>2, <1>3

LEMMA AnswersWaits ==
  ASSUME Inv, WaitInv, UNCHANGED desk, NEW c \in Calls, call[c].at # "free",
         NEW answer \in {"ok", "conflict"}, Answers(c, answer)
  PROVE  WaitInv'
<1> DEFINE u == [Free EXCEPT
                   !.at = "answered", !.by = call[c].by, !.op = call[c].op,
                   !.body = IF call[c].op = "pricing" /\ call[c].mounted
                            THEN call[c].body ELSE NoBody,
                   !.answer = answer,
                   !.view = IF answer = "ok" THEN Copy(store') ELSE Fresh,
                   !.mounted = call[c].mounted, !.awaited = call[c].awaited]
<1>1. /\ u.at = "answered" /\ u.by = call[c].by /\ u.op = call[c].op
      /\ u.mounted = call[c].mounted /\ u.awaited = call[c].awaited
      /\ u.answer = answer /\ Free.at = "free"
  BY DEF Free
<1>2. \/ call' = [call EXCEPT ![c] = u]
      \/ call' = [call EXCEPT ![c] = Free] /\ ~u.awaited
  BY DEF Answers, Becomes
<1> HIDE DEF u
<1>3. /\ \A e \in Calls \ {c} : call'[e] = call[e]
      /\ call'[c] = u \/ (call'[c] = Free /\ ~call[c].awaited)
  BY <1>1, <1>2 DEF Inv, Requests
<1> QED
  BY <1>1, <1>3, AnsweredWaits

LEMMA ServerWaits == ASSUME Inv, WaitInv, NEW c \in Calls, Server(c) PROVE WaitInv'
<1>1. CASE Read(c)
  BY <1>1, AnswersWaits DEF Read
<1>2. CASE UpdateRule(c)
  BY <1>2, AnswersWaits DEF UpdateRule
<1>3. CASE UpdateSettings(c)
  BY <1>3, AnswersWaits DEF UpdateSettings
<1>4. CASE UpdateProduct(c)
  <2>1. /\ call'[c].at = "written" /\ call'[c].by = call[c].by
        /\ call'[c].op = call[c].op /\ call'[c].mounted = call[c].mounted
        /\ call'[c].awaited = call[c].awaited
        /\ \A e \in Calls \ {c} : call'[e] = call[e]
    BY <1>4 DEF UpdateProduct, Inv, Requests, Sound, Free
  <2> QED
    BY <1>4, <2>1, AnsweredWaits DEF UpdateProduct
<1>5. CASE ViewProduct(c)
  BY <1>5, AnswersWaits DEF ViewProduct
<1> QED
  BY <1>1, <1>2, <1>3, <1>4, <1>5 DEF Server

LEMMA LoadAnsweredWaits ==
  ASSUME Inv, WaitInv, NEW c \in Calls, LoadAnswered(c) PROVE WaitInv'
<1> DEFINE d == call[c].by
<1>1. d \in Devices /\ Waits(d, desk[d], call) /\ c \in Own(d, call)
  BY DEF WaitInv, Own, LoadAnswered
<1>2. /\ \A e \in Devices \ {d} : desk'[e] = desk[e]
      /\ ~desk'[d].busy
      /\ desk[d].phase = "ready" =>
           /\ desk'[d].saving = desk[d].saving /\ desk'[d].tab = desk[d].tab
           /\ desk'[d].phase = "ready"
      /\ desk[d].phase # "ready" => ~desk'[d].saving
  BY <1>1 DEF LoadAnswered, Loaded, Shows, Inv, Desks, Good, Blank
<1>3. /\ call'[c].at = "free" /\ call[c].op = "load"
      /\ \A e \in Calls \ {c} : call'[e] = call[e]
  BY DEF LoadAnswered, Done, Free, Inv, Requests
<1>4. Own(d, call') = Own(d, call) \ {c}
  BY <1>3 DEF Own
<1>5. \A e \in Own(d, call') : call'[e] = call[e] /\ e \in Own(d, call)
  BY <1>3, <1>4 DEF Own
<1>6. CASE desk[d].phase = "ready"
  <2>1. desk'[d].saving => \E e \in Own(d, call') :
          call'[e].op = desk'[d].tab /\ call'[e].mounted /\ call'[e].awaited
    BY <1>1, <1>2, <1>3, <1>4, <1>5, <1>6 DEF Waits
  <2>2. Waits(d, desk'[d], call')
    BY <1>1, <1>2, <1>5, <1>6, <2>1 DEF Waits
  <2> QED
    BY <1>1, <1>2, <1>3, <2>2, OneDevice
<1>7. CASE desk[d].phase # "ready"
  <2>1. Waits(d, desk'[d], call')
    BY <1>1, <1>2, <1>5, <1>7, NobodyMounted DEF Waits
  <2> QED
    BY <1>1, <1>2, <1>3, <2>1, OneDevice
<1> QED
  BY <1>6, <1>7

LEMMA LoadFailedWaits ==
  ASSUME Inv, WaitInv, NEW c \in Calls, LoadFailed(c) PROVE WaitInv'
<1> DEFINE d == call[c].by
<1>1. d \in Devices /\ Waits(d, desk[d], call) /\ c \in Own(d, call)
  BY DEF WaitInv, Own, LoadFailed
<1>2. /\ \A e \in Devices \ {d} : desk'[e] = desk[e]
      /\ ~desk'[d].saving /\ ~desk'[d].busy
  BY <1>1, BlankFacts DEF LoadFailed, Turns, Inv, Desks
<1>3. call'[c].at = "free" /\ \A e \in Calls \ {c} : call'[e] = Unmounted(d)[e]
  BY DEF LoadFailed, Free, Unmounted
<1>4. Waits(d, desk'[d], call')
  BY <1>1, <1>2, <1>3, UnmountedFacts, NobodyMounted DEF Own, Waits
<1> QED
  BY <1>1, <1>2, <1>3, <1>4, UnmountedFacts, OneDevice DEF Own

\* The end of a save, for the form that sent it: if that form has gone, the
\* one on the screen waits on for its own.
LEMMA SaveSettles ==
  ASSUME Inv, WaitInv, NEW c \in Calls, call[c].at # "free", call[c].op # "load",
         NEW d, d = call[c].by,
         \A e \in Calls \ {c} : call'[e] = call[e],
         \/ call'[c].at = "free"
         \/ /\ call'[c].by = d /\ call'[c].op # "load" /\ ~call'[c].mounted
            /\ call'[c].at # "answered",
         \A e \in Devices \ {d} : desk'[e] = desk[e],
         desk'[d].busy = desk[d].busy,
         desk'[d].saving <=> desk[d].saving /\ ~call[c].mounted,
         ~call[c].mounted => /\ desk'[d].tab = desk[d].tab
                             /\ desk'[d].phase = desk[d].phase
  PROVE  WaitInv'
<1>1. d \in Devices /\ Waits(d, desk[d], call) /\ c \in Own(d, call)
  BY DEF WaitInv, Own
<1>2. \A e \in Own(d, call') :
        \/ e # c /\ e \in Own(d, call) /\ call'[e] = call[e]
        \/ e = c /\ call'[e].op # "load" /\ ~call'[e].mounted
                 /\ call'[e].at # "answered"
  BY DEF Own
<1>3. \A e \in Own(d, call) : e # c => e \in Own(d, call') /\ call'[e] = call[e]
  BY DEF Own
<1>4. desk'[d].busy =>
        \E e \in Own(d, call') : call'[e].op = "load" /\ call'[e].awaited
  BY <1>1, <1>3 DEF Waits
<1>5. CASE call[c].mounted
  <2>1. \A e \in Own(d, call') : ~call'[e].mounted
    BY <1>1, <1>2, <1>5 DEF Waits
  <2>2. Waits(d, desk'[d], call')
    BY <1>1, <1>2, <1>4, <1>5, <2>1, NobodyMounted DEF Waits
  <2> QED
    BY <1>1, <2>2, OneDevice
<1>6. CASE ~call[c].mounted
  <2>1. desk'[d].saving => \E e \in Own(d, call') :
          call'[e].op = desk'[d].tab /\ call'[e].mounted /\ call'[e].awaited
    BY <1>1, <1>3, <1>6 DEF Waits
  <2>2. Waits(d, desk'[d], call')
    BY <1>1, <1>2, <1>4, <1>6, <2>1 DEF Waits
  <2> QED
    BY <1>1, <2>2, OneDevice
<1> QED
  BY <1>5, <1>6

LEMMA SaveAnsweredWaits ==
  ASSUME Inv, WaitInv, NEW c \in Calls, SaveAnswered(c) PROVE WaitInv'
<1> DEFINE d     == call[c].by
           s     == call[c].op
           page  == Kept(desk[d].page, s, call[c].view)
           state == IF desk[d].phase = "ready" THEN [desk[d] EXCEPT !.page = page] ELSE desk[d]
<1>1. /\ d \in Devices /\ Waits(d, desk[d], call) /\ c \in Own(d, call)
      /\ call[c].at = "answered" /\ call[c].op # "load"
  BY DEF WaitInv, Own, SaveAnswered
<1>2. call[c].answer \in {"ok", "conflict"} /\ (call[c].mounted => desk[d].saving)
  BY <1>1 DEF Waits
<1>3. /\ call'[c].at = "free" /\ \A e \in Calls \ {c} : call'[e] = call[e]
      /\ \A e \in Devices \ {d} : desk'[e] = desk[e]
  BY DEF SaveAnswered, Done, Free, Inv, Requests, Desks
<1>4. DOMAIN desk[d] = DOMAIN Blank
  BY <1>1 DEF Inv, Desks, Good
<1>5. /\ state.busy = desk[d].busy /\ state.saving = desk[d].saving
      /\ state.tab = desk[d].tab /\ state.phase = desk[d].phase
      /\ DOMAIN state = DOMAIN Blank
  BY <1>4 DEF Blank
<1>6. desk'[d] = CASE call[c].answer = "ok" /\ call[c].mounted -> Confirmed(c, state, page)
                   [] call[c].answer = "ok" /\ ~call[c].mounted -> state
                   [] call[c].answer = "conflict" /\ call[c].mounted ->
                        [desk[d] EXCEPT !.saving = FALSE, !.lost = TRUE]
                   [] OTHER -> desk[d]
  BY <1>1 DEF SaveAnswered, Inv, Desks
<1> HIDE DEF state, page, d, s
<1>7. CASE call[c].mounted
  <2>1. ~desk'[d].saving /\ desk'[d].busy = desk[d].busy
    BY <1>2, <1>4, <1>5, <1>6, <1>7 DEF Confirmed, Blank
  <2> QED
    BY <1>1, <1>3, <1>7, <2>1, SaveSettles DEF d
<1>8. CASE ~call[c].mounted
  <2>1. desk'[d] = state \/ desk'[d] = desk[d]
    BY <1>2, <1>6, <1>8
  <2> QED
    BY <1>1, <1>3, <1>5, <1>8, <2>1, SaveSettles DEF d
<1> QED
  BY <1>7, <1>8

LEMMA ReleasedFacts ==
  ASSUME Inv, WaitInv, NEW c \in Calls, call[c].at # "free", Released(c)
  PROVE  LET d == call[c].by IN
         /\ \A e \in Devices \ {d} : desk'[e] = desk[e]
         /\ desk'[d].busy = desk[d].busy /\ desk'[d].tab = desk[d].tab
         /\ desk'[d].phase = desk[d].phase
         /\ desk'[d].saving <=> desk[d].saving /\ ~call[c].mounted
  BY DEF Released, WaitInv, Inv, Desks, Good, Blank

LEMMA SaveFailedWaits ==
  ASSUME Inv, WaitInv, NEW c \in Calls, SaveFailed(c) PROVE WaitInv'
<1>1. call'[c].at = "free" /\ \A e \in Calls \ {c} : call'[e] = call[e]
  BY DEF SaveFailed, Done, Free, Inv, Requests
<1> QED
  BY <1>1, ReleasedFacts, SaveSettles DEF SaveFailed

LEMMA GiveUpWaits == ASSUME Inv, WaitInv, NEW c \in Calls, GiveUp(c) PROVE WaitInv'
<1> DEFINE t == [call[c] EXCEPT !.mounted = FALSE, !.awaited = FALSE]
<1>1. /\ t.at = call[c].at /\ t.by = call[c].by /\ t.op = call[c].op
      /\ ~t.mounted /\ ~t.awaited
  BY DEF Inv, Requests, Sound, Free
<1>2. call' = [call EXCEPT ![c] = IF t.at = "answered" /\ ~t.awaited THEN Free ELSE t]
  BY DEF GiveUp, Becomes
<1> HIDE DEF t
<1>3. /\ \A e \in Calls \ {c} : call'[e] = call[e]
      /\ call'[c].at = "free" \/ (call'[c] = t /\ t.at # "answered")
  BY <1>1, <1>2 DEF Inv, Requests, Free
<1> QED
  BY <1>1, <1>3, ReleasedFacts, SaveSettles DEF GiveUp

LEMMA NextWaits == ASSUME Inv, WaitInv, [Next]_vars PROVE WaitInv'
<1>1. ASSUME NEW d \in Devices, Device(d) PROVE WaitInv'
  <2>1. CASE SaveRule(d)
    BY <2>1, SaveWaits DEF SaveRule
  <2>2. CASE SaveShop(d)
    BY <2>2, SaveWaits DEF SaveShop
  <2>3. CASE SaveProduct(d)
    BY <2>3, SaveWaits DEF SaveProduct
  <2> QED
    BY <1>1, <2>1, <2>2, <2>3, OpenWaits, ReloadWaits, ChooseTabWaits, EditWaits DEF Device
<1>2. CASE UNCHANGED vars
  BY <1>2 DEF vars, WaitInv, Waits, Own
<1> QED
  BY <1>1, <1>2, ServerWaits, LoadAnsweredWaits, LoadFailedWaits, SaveAnsweredWaits,
     SaveFailedWaits, GiveUpWaits DEF Next

LEMMA WaitAlways == Spec => []WaitInv
<1>1. Init => WaitInv
  BY DEF Init, WaitInv, Waits, Own, Blank, Free
<1> QED
  BY <1>1, InvAlways, NextWaits, PTL DEF Spec

\* Whatever is given up, loaded again or answered late, a form or a button that
\* is disabled has a request of its own to wait for, and no other one releases
\* it.
THEOREM NobodyWaitsInVain == Spec => []WaitIsForOne
<1>1. WaitInv => WaitIsForOne
  BY DEF WaitInv, Waits, WaitIsForOne, Own, Of
<1> QED
  BY <1>1, WaitAlways, PTL

-----------------------------------------------------------------------------
(* Types.                                                                  *)

\* A form on the screen is of its tab; the editor of a rule sends, and goes on
\* with, a whole rule.
FormOf(s) == [start : [Fields[s] -> BOOLEAN], values : [Fields[s] -> BOOLEAN]]

DeskFits(state) ==
  state \in DeskType /\ (state.phase = "ready" => state.form \in FormOf(state.tab))

CallFits(t) ==
  /\ t \in CallType
  /\ t.at = "sent" /\ t.op # "load" => t.body \in Bodies(t.op)
  /\ t.at = "written" => t.op = "products"
  /\ t.op = "pricing" /\ (t.at = "sent" \/ (t.at = "answered" /\ t.mounted))
       => t.body \in [Fields.pricing -> BOOLEAN]

StoreFits == store \in [data : Contents, version : Nat, updated_by : Devices \cup {NoDevice}]

DesksFit(desks) ==
  desks \in [Devices -> DeskType] /\ \A d \in Devices : DeskFits(desks[d])
CallsFit(calls) ==
  calls \in [Calls -> CallType] /\ \A c \in Calls : CallFits(calls[c])

TypeInv == StoreFits /\ DesksFit(desk) /\ CallsFit(call) /\ saves \in 0..MaxSaves

LEMMA SectionNames ==
  /\ Sections = {"pricing", "products", "shop"}
  /\ \A s \in Sections : s # "load"
BY DEF Sections, Fields

\* One section of the contents.
LEMMA SectionOf ==
  ASSUME NEW data \in Contents, NEW s \in Sections
  PROVE  /\ data[s] \in [Fields[s] -> BOOLEAN]
         /\ \A v \in [Fields[s] -> BOOLEAN] : [data EXCEPT ![s] = v] \in Contents
BY SectionNames DEF Contents, Fields

LEMMA MergedFits ==
  ASSUME NEW s \in Sections, NEW old \in [Fields[s] -> BOOLEAN], NEW body \in Bodies(s)
  PROVE  Merged(old, body) \in [Fields[s] -> BOOLEAN]
<1>1. PICK fs \in SUBSET Fields[s] : body \in [fs -> BOOLEAN]
  BY DEF Bodies
<1> QED BY <1>1 DEF Merged

\* A whole section is a body.
LEMMA WholeIsBody ==
  ASSUME NEW s \in Sections, NEW fs \in SUBSET Fields[s], NEW body \in [fs -> BOOLEAN]
  PROVE  /\ body \in Bodies(s) /\ body \in UNION {Bodies(r) : r \in Sections}
         /\ fs \in SUBSET UNION {Fields[r] : r \in Sections}
<1>1. body \in Bodies(s)
  BY DEF Bodies
<1> QED BY <1>1

LEMMA FreshFits == Fresh \in Copies /\ Fresh.data \in Contents /\ Fresh.version = 1
BY SectionNames DEF Fresh, Copies, Contents, Fields

LEMMA FormFits ==
  ASSUME NEW page \in Copies, NEW s \in Sections
  PROVE  Form(page, s) \in FormOf(s)
<1>1. page.data \in Contents
  BY DEF Copies
<1>2. page.data[s] \in [Fields[s] -> BOOLEAN]
  BY <1>1, SectionOf
<1> QED BY <1>2 DEF Form, FormOf

LEMMA NoBodyFits == NoBody \in UNION {Bodies(s) : s \in Sections}
<1>1. "pricing" \in Sections /\ NoBody \in [{} -> BOOLEAN] /\ {} \in SUBSET Fields["pricing"]
  BY SectionNames DEF NoBody
<1> QED BY <1>1, WholeIsBody

LEMMA FreeFits == CallFits(Free) /\ Free \in CallType
<1>1. Fresh.data.pricing \in [Fields.pricing -> BOOLEAN]
  BY FreshFits, SectionNames, SectionOf
<1>2. Free \in CallType
  BY <1>1, FreshFits, NoBodyFits DEF Free, CallType
<1>3. Free.at = "free"
  BY DEF Free
<1> QED BY <1>2, <1>3 DEF CallFits, Free

LEMMA BlankFits ==
  ASSUME NEW phase \in Phases, NEW tab \in Sections, phase # "ready"
  PROVE  /\ DeskFits(Blank) /\ DeskFits([Blank EXCEPT !.phase = phase])
         /\ DeskFits([Blank EXCEPT !.phase = phase, !.tab = tab])
<1>1. Closed \in FormOf("pricing") /\ "pricing" \in Sections
  BY FreshFits, FormFits, SectionNames DEF Closed
<1>2. Closed \in UNION {[start : [Fields[s] -> BOOLEAN], values : [Fields[s] -> BOOLEAN]]
                          : s \in Sections}
  BY <1>1 DEF FormOf
<1>3. Blank \in DeskType /\ Blank.phase = "loading"
  BY <1>1, <1>2, FreshFits DEF Blank, DeskType, Phases
<1> HIDE DEF Blank
<1>4. DOMAIN Blank = {"phase", "page", "tab", "busy", "form", "saving", "lost"}
  BY DEF Blank
<1> QED BY <1>3, <1>4 DEF DeskFits, DeskType

LEMMA InitFits == ASSUME Init PROVE TypeInv
<1>1. DeskFits(Blank)
  BY BlankFits, SectionNames DEF Phases
<1>2. 0 \in 0..MaxSaves
  BY DeskAssumption
<1>3. StoreFits
  BY FreshFits DEF Init, StoreFits
<1> QED BY <1>1, <1>2, <1>3, FreeFits DEF Init, TypeInv, DesksFit, CallsFit, DeskFits

\* One dashboard changes; one request does.
LEMMA DeskSet ==
  ASSUME DesksFit(desk), NEW d, NEW state, d \in Devices => DeskFits(state),
         desk' = [desk EXCEPT ![d] = state]
  PROVE  DesksFit(desk')
BY DEF DesksFit, DeskFits

LEMMA CallSet ==
  ASSUME NEW calls, CallsFit(calls), NEW c \in Calls, NEW t, CallFits(t)
  PROVE  CallsFit([calls EXCEPT ![c] = t])
BY DEF CallsFit, CallFits

LEMMA TypeStep ==
  ASSUME TypeInv, UNCHANGED <<store, saves>>, DesksFit(desk'), CallsFit(call')
  PROVE  TypeInv'
BY DEF TypeInv, StoreFits, DesksFit, CallsFit, DeskFits, CallFits

\* The fields that change on their own.
LEMMA StateParts ==
  ASSUME NEW state, DeskFits(state), NEW copy \in Copies, NEW b \in BOOLEAN
  PROVE  /\ DeskFits([state EXCEPT !.saving = b])
         /\ DeskFits([state EXCEPT !.saving = b, !.lost = TRUE])
         /\ DeskFits([state EXCEPT !.saving = TRUE, !.lost = FALSE])
         /\ DeskFits([state EXCEPT !.lost = FALSE])
         /\ DeskFits([state EXCEPT !.busy = TRUE])
         /\ DeskFits([state EXCEPT !.page = copy])
         /\ DeskFits([state EXCEPT !.page = copy, !.busy = FALSE])
<1>1. DeskFits([state EXCEPT !.saving = b])
  BY DEF DeskFits, DeskType
<1>2. DeskFits([state EXCEPT !.saving = b, !.lost = TRUE])
  BY DEF DeskFits, DeskType
<1>3. DeskFits([state EXCEPT !.saving = TRUE, !.lost = FALSE])
  BY DEF DeskFits, DeskType
<1>4. DeskFits([state EXCEPT !.lost = FALSE])
  BY DEF DeskFits, DeskType
<1>5. DeskFits([state EXCEPT !.busy = TRUE])
  BY DEF DeskFits, DeskType
<1>6. DeskFits([state EXCEPT !.page = copy])
  BY DEF DeskFits, DeskType
<1>7. DeskFits([state EXCEPT !.page = copy, !.busy = FALSE])
  BY DEF DeskFits, DeskType
<1> QED BY <1>1, <1>2, <1>3, <1>4, <1>5, <1>6, <1>7

LEMMA FormInType ==
  ASSUME NEW s \in Sections, NEW form \in FormOf(s)
  PROVE  form \in UNION {[start : [Fields[r] -> BOOLEAN], values : [Fields[r] -> BOOLEAN]]
                           : r \in Sections}
BY DEF FormOf

LEMMA ShowsFits ==
  ASSUME NEW d, NEW state, DeskFits(state), NEW s \in Sections
  PROVE  /\ DeskFits(Shows(d, state, s))
         /\ DeskFits([Shows(d, state, s) EXCEPT !.phase = "ready", !.busy = FALSE])
<1>1. Form(state.page, s) \in FormOf(s)
  BY FormFits DEF DeskFits, DeskType
<1>2. Form(state.page, s) \in
        UNION {[start : [Fields[r] -> BOOLEAN], values : [Fields[r] -> BOOLEAN]]
                 : r \in Sections}
  BY <1>1, FormInType
<1>3. /\ Shows(d, state, s) \in DeskType /\ Shows(d, state, s).tab = s
      /\ Shows(d, state, s).form = Form(state.page, s)
  BY <1>2 DEF DeskFits, DeskType, Shows
<1>4. [Shows(d, state, s) EXCEPT !.phase = "ready", !.busy = FALSE] \in DeskType
  BY <1>3 DEF DeskType, Phases
<1>5. /\ [Shows(d, state, s) EXCEPT !.phase = "ready", !.busy = FALSE].tab = s
      /\ [Shows(d, state, s) EXCEPT !.phase = "ready", !.busy = FALSE].form
           = Form(state.page, s)
  BY <1>3 DEF DeskType
<1> QED BY <1>1, <1>3, <1>4, <1>5 DEF DeskFits

\* A request without its form, or without anybody who waits.
LEMMA LeftAloneFits ==
  ASSUME NEW t, CallFits(t)
  PROVE  /\ CallFits([t EXCEPT !.mounted = FALSE])
         /\ CallFits([t EXCEPT !.mounted = FALSE, !.awaited = FALSE])
<1>1. CallFits([t EXCEPT !.mounted = FALSE])
  BY DEF CallFits, CallType
<1>2. CallFits([t EXCEPT !.mounted = FALSE, !.awaited = FALSE])
  BY DEF CallFits, CallType
<1> QED BY <1>1, <1>2

LEMMA UnmountedFits ==
  ASSUME CallsFit(call), NEW d PROVE CallsFit(Unmounted(d)) /\ CallsFit(Abandoned(d))
<1>1. \A c \in Calls : /\ CallFits(call[c])
                       /\ CallFits([call[c] EXCEPT !.mounted = FALSE])
                       /\ CallFits([call[c] EXCEPT !.mounted = FALSE, !.awaited = FALSE])
  BY LeftAloneFits DEF CallsFit
<1>2. \A c \in Calls : CallFits(Unmounted(d)[c]) /\ CallFits(Abandoned(d)[c])
  BY <1>1, FreeFits DEF Unmounted, Abandoned
<1>3. \A t : CallFits(t) => t \in CallType
  BY DEF CallFits
<1>4. /\ Unmounted(d) = [c \in Calls |-> Unmounted(d)[c]]
      /\ Abandoned(d) = [c \in Calls |-> Abandoned(d)[c]]
  BY DEF Unmounted, Abandoned
<1>5. CallsFit(Unmounted(d))
  BY <1>2, <1>3, <1>4 DEF CallsFit
<1>6. CallsFit(Abandoned(d))
  BY <1>2, <1>3, <1>4 DEF CallsFit
<1> QED BY <1>5, <1>6

LEMMA SendsFits ==
  ASSUME NEW calls, CallsFit(calls), NEW c \in Calls, NEW d \in Devices
  PROVE  CallsFit(Sends(d, c, "load", calls))
<1> DEFINE t == [Free EXCEPT !.at = "sent", !.by = d, !.op = "load", !.awaited = TRUE]
<1>1. t \in CallType /\ t.op = "load" /\ t.at = "sent"
  BY FreeFits DEF CallType
<1>2. CallFits(t)
  BY <1>1 DEF CallFits
<1> QED BY <1>2, CallSet DEF Sends

LEMMA OpenFits == ASSUME TypeInv, NEW d \in Devices, Open(d) PROVE TypeInv'
<1>1. DeskFits(Blank) /\ DeskFits([Blank EXCEPT !.phase = "outside"])
  BY BlankFits, SectionNames DEF Phases
<1>2. DesksFit(desk')
  BY <1>1, DeskSet DEF Open, TypeInv
<1>3. CallsFit(call')
  BY UnmountedFits, SendsFits DEF Open, TypeInv
<1> QED BY <1>2, <1>3, TypeStep DEF Open

LEMMA TurnsFits ==
  ASSUME DesksFit(desk), NEW d, NEW phase \in {"outside", "error"}, Turns(d, phase)
  PROVE  DesksFit(desk')
<1>1. d \in Devices => desk[d].tab \in Sections
  BY DEF DesksFit, DeskType
<1>2. d \in Devices => DeskFits([Blank EXCEPT !.phase = phase, !.tab = desk[d].tab])
  BY <1>1, BlankFits DEF Phases
<1> QED BY <1>2, DeskSet DEF Turns

LEMMA ReloadFits == ASSUME TypeInv, NEW d \in Devices, Reload(d) PROVE TypeInv'
<1>1. DeskFits([desk[d] EXCEPT !.busy = TRUE])
  BY StateParts, FreshFits DEF TypeInv, DesksFit
<1>2. desk' = [desk EXCEPT ![d].busy = TRUE] => DesksFit(desk')
  BY <1>1, DeskSet DEF TypeInv
<1>3. DesksFit(desk')
  BY <1>2, TurnsFits DEF Reload, TypeInv
<1>4. CallsFit(call')
  BY UnmountedFits, SendsFits DEF Reload, TypeInv
<1> QED BY <1>3, <1>4, TypeStep DEF Reload

LEMMA ChooseTabFits ==
  ASSUME TypeInv, NEW d \in Devices, NEW s \in Sections, ChooseTab(d, s) PROVE TypeInv'
<1>1. DeskFits(Shows(d, desk[d], s))
  BY ShowsFits DEF TypeInv, DesksFit
<1>2. DesksFit(desk')
  BY <1>1, DeskSet DEF ChooseTab, TypeInv
<1> QED BY <1>2, UnmountedFits, TypeStep DEF ChooseTab, TypeInv

\* One box of a form.
LEMMA BoxFits ==
  ASSUME NEW s \in Sections, NEW form \in FormOf(s), NEW f \in Fields[s]
  PROVE  [form EXCEPT !.values[f] = ~@] \in FormOf(s)
BY DEF FormOf

LEMMA EditFits == ASSUME TypeInv, NEW d \in Devices, Edit(d) PROVE TypeInv'
<1>1. /\ desk[d] \in DeskType /\ desk[d].phase = "ready" /\ desk[d].tab \in Sections
      /\ desk[d].form \in FormOf(desk[d].tab) /\ desk \in [Devices -> DeskType]
  BY DEF Edit, TypeInv, DesksFit, DeskFits, DeskType
<1>2. PICK f \in Fields[desk[d].tab] : desk' = [desk EXCEPT ![d].form.values[f] = ~@]
  BY DEF Edit
<1> DEFINE form == [desk[d].form EXCEPT !.values[f] = ~@]
<1>3. form \in FormOf(desk[d].tab)
  BY <1>1, BoxFits
<1>4. desk' = [desk EXCEPT ![d] = [desk[d] EXCEPT !.form = form]]
  BY <1>1, <1>2
<1> HIDE DEF form
<1>5. form \in UNION {[start : [Fields[r] -> BOOLEAN], values : [Fields[r] -> BOOLEAN]]
                        : r \in Sections}
  BY <1>1, <1>3, FormInType
<1>6. [desk[d] EXCEPT !.form = form] \in DeskType
  BY <1>1, <1>5 DEF DeskType
<1>7. DeskFits([desk[d] EXCEPT !.form = form])
  BY <1>1, <1>3, <1>6 DEF DeskFits, DeskType
<1>8. DesksFit(desk')
  BY <1>4, <1>7, DeskSet DEF TypeInv
<1> QED BY <1>8, TypeStep DEF Edit, TypeInv

\* The fields of the form on the screen.
LEMMA FormOnScreen ==
  ASSUME TypeInv, NEW d \in Devices, desk[d].phase = "ready"
  PROVE  LET s == desk[d].tab IN
         /\ s \in Sections /\ desk[d].form.values \in [Fields[s] -> BOOLEAN]
         /\ Changed(desk[d].form) \in SUBSET Fields[s]
<1>1. desk[d].tab \in Sections /\ desk[d].form \in FormOf(desk[d].tab)
  BY DEF TypeInv, DesksFit, DeskFits, DeskType
<1> QED BY <1>1 DEF FormOf, Changed

\* A save, of a whole rule or of some fields.
LEMMA SaveFits ==
  ASSUME TypeInv, NEW d \in Devices, NEW fs \in SUBSET Fields[desk[d].tab],
         NEW body \in [fs -> BOOLEAN], NEW meant \in SUBSET Fields[desk[d].tab],
         desk[d].tab = "pricing" => fs = Fields[desk[d].tab],
         Save(d, body, meant)
  PROVE  TypeInv'
<1>1. /\ desk[d] \in DeskType /\ DeskFits(desk[d]) /\ desk[d].tab \in Sections
      /\ desk[d].lost \in BOOLEAN /\ desk[d].page \in Copies
  BY DEF TypeInv, DesksFit, DeskType
<1>2. /\ body \in Bodies(desk[d].tab) /\ body \in UNION {Bodies(r) : r \in Sections}
      /\ meant \in SUBSET UNION {Fields[r] : r \in Sections}
  BY <1>1, WholeIsBody, SectionNames
<1>3. CASE desk' = [desk EXCEPT ![d].lost = FALSE] /\ UNCHANGED <<call, saves>>
  <2>1. DesksFit(desk')
    BY <1>1, <1>3, StateParts, DeskSet DEF TypeInv
  <2> QED BY <1>3, <2>1, TypeStep DEF Save, TypeInv
<1> DEFINE expected == IF desk[d].tab = "pricing" THEN desk[d].page.version ELSE 0
           seen == IF desk[d].tab = "pricing" THEN desk[d].page.data.pricing
                   ELSE Free.seen
           request ==
             [Free EXCEPT !.at = "sent", !.by = d, !.op = desk[d].tab, !.body = body,
                          !.expected = expected, !.seen = seen,
                          !.meant = meant,
                          !.mounted = TRUE, !.awaited = TRUE]
<1>4. expected \in Nat /\ seen \in [Fields.pricing -> BOOLEAN]
  <2>1. desk[d].page.version \in Nat /\ desk[d].page.data \in Contents
    BY <1>1 DEF Copies
  <2>2. desk[d].page.data.pricing \in [Fields.pricing -> BOOLEAN]
    BY <2>1 DEF Contents
  <2> QED BY <2>1, <2>2, FreeFits DEF CallType
<1> HIDE DEF expected, seen
<1>5. request \in CallType
  BY <1>1, <1>2, <1>4, FreeFits DEF CallType
<1>6. request.at = "sent" /\ request.op = desk[d].tab /\ request.body = body
  BY DEF Free
<1>7. CallFits(request)
  BY <1>1, <1>2, <1>5, <1>6 DEF CallFits
<1>8. ASSUME NEW c \in Calls, call' = [call EXCEPT ![c] = request],
             saves < MaxSaves, saves' = saves + 1,
             desk' = [desk EXCEPT ![d].saving = TRUE, ![d].lost = FALSE], UNCHANGED store
      PROVE  TypeInv'
  <2>1. desk' = [desk EXCEPT ![d] = [desk[d] EXCEPT !.saving = TRUE, !.lost = FALSE]]
    BY <1>8 DEF TypeInv, DesksFit
  <2>2. DesksFit(desk')
    BY <1>1, <2>1, StateParts, FreshFits, DeskSet DEF TypeInv
  <2>3. CallsFit(call')
    BY <1>7, <1>8, CallSet DEF TypeInv
  <2>4. saves' \in 0..MaxSaves
    BY <1>8, DeskAssumption DEF TypeInv
  <2> QED
    BY <1>8, <2>2, <2>3, <2>4 DEF TypeInv, StoreFits, DesksFit, CallsFit, DeskFits, CallFits
<1> QED BY <1>3, <1>8 DEF Save, expected, seen

LEMMA DeviceFits == ASSUME TypeInv, NEW d \in Devices, Device(d) PROVE TypeInv'
<1>1. CASE SaveRule(d)
  <2>1. desk[d].phase = "ready" /\ desk[d].tab = "pricing"
    BY <1>1 DEF SaveRule, Save
  <2> QED BY <1>1, <2>1, FormOnScreen, SaveFits DEF SaveRule
<1>2. CASE SaveShop(d)
  <2> DEFINE dirty == Changed(desk[d].form)
             body  == [f \in dirty |-> desk[d].form.values[f]]
  <2>1. desk[d].phase = "ready" /\ desk[d].tab = "shop" /\ Save(d, body, dirty)
    BY <1>2 DEF SaveShop
  <2>2. dirty \in SUBSET Fields[desk[d].tab] /\ body \in [dirty -> BOOLEAN]
    BY <2>1, FormOnScreen
  <2> QED BY <2>1, <2>2, SaveFits
<1>3. CASE SaveProduct(d)
  <2>1. PICK f \in Fields.products :
          Save(d, [g \in {f} |-> ~desk[d].form.values[f]], {f})
    BY <1>3 DEF SaveProduct
  <2> DEFINE body == [g \in {f} |-> ~desk[d].form.values[f]]
  <2>2. desk[d].tab = "products" /\ {f} \in SUBSET Fields[desk[d].tab]
    BY <1>3 DEF SaveProduct
  <2>3. body \in [{f} -> BOOLEAN]
    OBVIOUS
  <2> QED BY <2>1, <2>2, <2>3, SaveFits
<1>4. CASE \E s \in Sections : ChooseTab(d, s)
  BY <1>4, ChooseTabFits
<1> QED
  BY <1>1, <1>2, <1>3, <1>4, OpenFits, ReloadFits, EditFits DEF Device

\* What the server makes of the store.
LEMMA StoredFits ==
  ASSUME TypeInv, NEW c \in Calls, call[c].at = "sent", call[c].op # "load",
         store' = Stored(c)
  PROVE  StoreFits'
<1> DEFINE s == call[c].op
           section == Merged(store.data[s], call[c].body)
<1>1. /\ call[c] \in CallType /\ s \in Sections /\ call[c].body \in Bodies(s)
      /\ call[c].by \in Devices \cup {NoDevice}
  BY DEF TypeInv, CallsFit, CallFits, CallType
<1>2. store.data \in Contents /\ store.version \in Nat
  BY DEF TypeInv, StoreFits
<1>3. section \in [Fields[s] -> BOOLEAN]
  BY <1>1, <1>2, SectionOf, MergedFits
<1>4. store' = [store EXCEPT !.data = [store.data EXCEPT ![s] = section],
                             !.version = IF s = "pricing" THEN store.version + 1 ELSE @,
                             !.updated_by = IF s = "pricing" THEN call[c].by ELSE @]
  BY DEF Stored, TypeInv, StoreFits
<1> HIDE DEF section, s
<1>5. [store.data EXCEPT ![s] = section] \in Contents
  BY <1>1, <1>2, <1>3, SectionOf
<1>6. store.version + 1 \in Nat
  BY <1>2
<1> QED BY <1>1, <1>4, <1>5, <1>6 DEF TypeInv, StoreFits

LEMMA AnswersFit ==
  ASSUME TypeInv, StoreFits', UNCHANGED <<desk, saves>>, NEW c \in Calls,
         call[c].at \in {"sent", "written"}, NEW answer \in {"ok", "conflict"},
         Answers(c, answer)
  PROVE  TypeInv'
<1> DEFINE body == IF call[c].op = "pricing" /\ call[c].mounted
                   THEN call[c].body ELSE NoBody
           view == IF answer = "ok" THEN Copy(store') ELSE Fresh
           t == [Free EXCEPT !.at = "answered", !.by = call[c].by, !.op = call[c].op,
                             !.body = body, !.answer = answer, !.view = view,
                             !.mounted = call[c].mounted, !.awaited = call[c].awaited]
<1>1. call[c] \in CallType /\ CallFits(call[c])
  BY DEF TypeInv, CallsFit
<1>2. view \in Copies
  BY FreshFits DEF StoreFits, Copy, Copies
<1>3. body \in UNION {Bodies(r) : r \in Sections}
  BY <1>1, NoBodyFits DEF CallType
<1>4. call[c].op = "pricing" /\ call[c].mounted => body \in [Fields.pricing -> BOOLEAN]
  BY <1>1 DEF CallFits
<1> HIDE DEF body, view
<1>5. t \in CallType
  BY <1>1, <1>2, <1>3, FreeFits DEF CallType
<1>6. /\ t.at = "answered" /\ t.op = call[c].op /\ t.mounted = call[c].mounted
      /\ t.body = body
  BY DEF Free
<1>7. CallFits(t)
  BY <1>4, <1>5, <1>6 DEF CallFits
<1>8. call' = [call EXCEPT ![c] = t] \/ call' = [call EXCEPT ![c] = Free]
  BY DEF Answers, Becomes, body, view
<1>9. CallsFit(call')
  BY <1>7, <1>8, FreeFits, CallSet DEF TypeInv
<1> QED
  BY <1>9 DEF TypeInv, StoreFits, DesksFit, CallsFit, DeskFits, CallFits

LEMMA ServerFits == ASSUME TypeInv, NEW c \in Calls, Server(c) PROVE TypeInv'
<1>0. ASSUME UNCHANGED store PROVE StoreFits'
  BY <1>0 DEF TypeInv, StoreFits
<1>1. CASE Read(c)
  BY <1>0, <1>1, AnswersFit DEF Read
<1>2. CASE UpdateRule(c)
  BY <1>0, <1>2, StoredFits, AnswersFit DEF UpdateRule
<1>3. CASE UpdateSettings(c)
  BY <1>3, StoredFits, AnswersFit DEF UpdateSettings
<1>4. CASE UpdateProduct(c)
  <2>1. CallFits([call[c] EXCEPT !.at = "written"])
    <3>1. call[c] \in CallType /\ call[c].op = "products"
      BY <1>4 DEF UpdateProduct, TypeInv, CallsFit
    <3> QED BY <3>1 DEF CallFits, CallType
  <2>2. CallsFit(call')
    BY <1>4, <2>1, CallSet DEF UpdateProduct, TypeInv
  <2>3. StoreFits'
    BY <1>4, StoredFits DEF UpdateProduct
  <2> QED
    BY <1>4, <2>2, <2>3
       DEF UpdateProduct, TypeInv, StoreFits, DesksFit, CallsFit, DeskFits, CallFits
<1>5. CASE ViewProduct(c)
  BY <1>0, <1>5, AnswersFit DEF ViewProduct
<1> QED BY <1>1, <1>2, <1>3, <1>4, <1>5 DEF Server

LEMMA DoneFits == ASSUME TypeInv, NEW c \in Calls, Done(c) PROVE CallsFit(call')
BY FreeFits, CallSet DEF Done, TypeInv

LEMMA LoadAnsweredFits ==
  ASSUME TypeInv, NEW c \in Calls, LoadAnswered(c) PROVE TypeInv'
<1> DEFINE d    == call[c].by
           copy == call[c].view
           page == [desk[d] EXCEPT !.page = copy]
<1>1. copy \in Copies
  BY DEF TypeInv, CallsFit, CallType
<1>2. ASSUME d \in Devices
      PROVE  /\ DeskFits([desk[d] EXCEPT !.page = copy, !.busy = FALSE])
             /\ DeskFits([Shows(d, page, desk[d].tab) EXCEPT
                            !.phase = "ready", !.busy = FALSE])
  <2>1. DeskFits(desk[d]) /\ desk[d].tab \in Sections
    BY <1>2 DEF TypeInv, DesksFit, DeskType
  <2>2. DeskFits(page)
    BY <1>1, <2>1, StateParts
  <2> HIDE DEF page
  <2>3. DeskFits([Shows(d, page, desk[d].tab) EXCEPT !.phase = "ready", !.busy = FALSE])
    BY <2>1, <2>2, ShowsFits
  <2> QED BY <1>1, <2>1, <2>3, StateParts
<1>3. DesksFit(desk')
  BY <1>2, DeskSet DEF LoadAnswered, Loaded, TypeInv
<1> QED BY <1>3, DoneFits, TypeStep DEF LoadAnswered

LEMMA LoadFailedFits == ASSUME TypeInv, NEW c \in Calls, LoadFailed(c) PROVE TypeInv'
<1>1. CallsFit(call')
  BY UnmountedFits, FreeFits, CallSet DEF LoadFailed, TypeInv
<1>2. DesksFit(desk')
  BY TurnsFits DEF LoadFailed, TypeInv
<1> QED BY <1>1, <1>2, TypeStep DEF LoadFailed

LEMMA KeptFits ==
  ASSUME NEW page \in Copies, NEW s \in Sections, NEW copy \in Copies
  PROVE  Kept(page, s, copy) \in Copies
<1>1. /\ page.data \in Contents /\ copy.data[s] \in [Fields[s] -> BOOLEAN]
      /\ page.version \in Nat /\ copy.version \in Nat
  BY SectionOf DEF Copies
<1>2. [page.data EXCEPT ![s] = copy.data[s]] \in Contents
  BY <1>1, SectionOf
<1>3. Kept(page, s, copy) =
        [page EXCEPT !.data = [page.data EXCEPT ![s] = copy.data[s]],
                     !.version = IF s = "pricing" THEN copy.version ELSE page.version]
  BY DEF Kept, Copies
<1> QED BY <1>1, <1>2, <1>3 DEF Copies

\* The form that has sent the request is on the screen, and takes the answer.
LEMMA ConfirmedFits ==
  ASSUME TypeInv, NEW c \in Calls, call[c].op \in Sections, call[c].mounted,
         call[c].at = "answered", NEW state, DeskFits(state), NEW page \in Copies,
         state.phase = "ready", state.tab = call[c].op
  PROVE  DeskFits(Confirmed(c, state, page))
<1> DEFINE s    == call[c].op
           form == IF s = "pricing" THEN [state.form EXCEPT !.start = call[c].body]
                   ELSE Form(page, s)
<1>1. state \in DeskType /\ state.form \in FormOf(s)
  BY DEF DeskFits
<1>2. s = "pricing" => call[c].body \in [Fields[s] -> BOOLEAN]
  BY DEF TypeInv, CallsFit, CallFits
<1>3. form \in FormOf(s)
  <2>1. CASE s = "pricing"
    BY <1>1, <1>2, <2>1 DEF FormOf
  <2>2. CASE s # "pricing"
    BY <2>2, FormFits
  <2> QED BY <2>1, <2>2
<1>4. Confirmed(c, state, page) = [state EXCEPT !.saving = FALSE, !.form = form]
  BY DEF Confirmed
<1> HIDE DEF form
<1>5. form \in UNION {[start : [Fields[r] -> BOOLEAN], values : [Fields[r] -> BOOLEAN]]
                        : r \in Sections}
  BY <1>3, FormInType
<1>6. [state EXCEPT !.saving = FALSE, !.form = form] \in DeskType
  BY <1>1, <1>5 DEF DeskType
<1>7. /\ [state EXCEPT !.saving = FALSE, !.form = form].tab = s
      /\ [state EXCEPT !.saving = FALSE, !.form = form].form = form
  BY <1>1 DEF DeskType
<1> QED BY <1>3, <1>4, <1>6, <1>7 DEF DeskFits

LEMMA SaveAnsweredFits ==
  ASSUME TypeInv, WaitInv, NEW c \in Calls, SaveAnswered(c) PROVE TypeInv'
<1> DEFINE d     == call[c].by
           s     == call[c].op
           page  == Kept(desk[d].page, s, call[c].view)
           state == IF desk[d].phase = "ready" THEN [desk[d] EXCEPT !.page = page] ELSE desk[d]
<1>1. /\ call[c] \in CallType /\ call[c].at = "answered" /\ s # "load" /\ s \in Sections
      /\ call[c].view \in Copies
  BY DEF SaveAnswered, TypeInv, CallsFit, CallType
<1>2. d \in Devices /\ Waits(d, desk[d], call) /\ c \in Own(d, call)
  BY <1>1 DEF WaitInv, Own
<1>3. DeskFits(desk[d]) /\ desk[d].page \in Copies /\ desk[d] \in DeskType
  BY <1>2 DEF TypeInv, DesksFit, DeskType
<1>4. page \in Copies
  BY <1>1, <1>3, KeptFits
<1> HIDE DEF page
<1>5. /\ DeskFits(state) /\ state.phase = desk[d].phase /\ state.tab = desk[d].tab
  BY <1>3, <1>4, StateParts DEF DeskType
<1>6. call[c].mounted => desk[d].phase = "ready" /\ desk[d].tab = s
  BY <1>2 DEF Waits
<1> HIDE DEF state
<1>7. call[c].mounted => DeskFits(Confirmed(c, state, page))
  BY <1>1, <1>4, <1>5, <1>6, ConfirmedFits
<1>8. DeskFits([desk[d] EXCEPT !.saving = FALSE, !.lost = TRUE])
  BY <1>1, <1>3, StateParts
<1>9. desk' = [desk EXCEPT ![d] =
        CASE call[c].answer = "ok" /\ call[c].mounted -> Confirmed(c, state, page)
          [] call[c].answer = "ok" /\ ~call[c].mounted -> state
          [] call[c].answer = "conflict" /\ call[c].mounted ->
               [desk[d] EXCEPT !.saving = FALSE, !.lost = TRUE]
          [] OTHER -> desk[d]]
  BY DEF SaveAnswered, page, state
<1>10. PICK new : desk' = [desk EXCEPT ![d] = new] /\ DeskFits(new)
  BY <1>3, <1>5, <1>7, <1>8, <1>9
<1>11. DesksFit(desk')
  BY <1>10, DeskSet DEF TypeInv
<1> QED BY <1>11, DoneFits, TypeStep DEF SaveAnswered

LEMMA ReleasedFits ==
  ASSUME TypeInv, NEW c \in Calls, Released(c) PROVE DesksFit(desk')
<1> DEFINE d == call[c].by
<1>1. d \in Devices => DeskFits([desk[d] EXCEPT !.saving = @ /\ ~call[c].mounted])
  <2> SUFFICES ASSUME d \in Devices
               PROVE  DeskFits([desk[d] EXCEPT !.saving = @ /\ ~call[c].mounted])
    OBVIOUS
  <2>1. DeskFits(desk[d]) /\ (desk[d].saving /\ ~call[c].mounted) \in BOOLEAN
    BY DEF TypeInv, DesksFit
  <2> QED BY <2>1, FreshFits, StateParts
<1>2. desk' = [desk EXCEPT ![d] = [desk[d] EXCEPT !.saving = @ /\ ~call[c].mounted]]
  BY DEF Released, TypeInv, DesksFit
<1> QED BY <1>1, <1>2, DeskSet DEF TypeInv

LEMMA SaveFailedFits == ASSUME TypeInv, NEW c \in Calls, SaveFailed(c) PROVE TypeInv'
BY ReleasedFits, DoneFits, TypeStep DEF SaveFailed

LEMMA GiveUpFits == ASSUME TypeInv, NEW c \in Calls, GiveUp(c) PROVE TypeInv'
<1> DEFINE t == [call[c] EXCEPT !.mounted = FALSE, !.awaited = FALSE]
<1>1. CallFits(t)
  BY LeftAloneFits DEF TypeInv, CallsFit
<1>2. call' = [call EXCEPT ![c] = t] \/ call' = [call EXCEPT ![c] = Free]
  BY DEF GiveUp, Becomes
<1> HIDE DEF t
<1>3. CallsFit(call')
  BY <1>1, <1>2, FreeFits, CallSet DEF TypeInv
<1> QED BY <1>3, ReleasedFits, TypeStep DEF GiveUp

\* What is stored, shown, sent and answered keeps its shape: an answer fills
\* the form that asked for it, or none.
THEOREM TypeCorrect == Spec => []TypeOK
<1>1. TypeInv /\ WaitInv /\ [Next]_vars => TypeInv'
  <2> SUFFICES ASSUME TypeInv, WaitInv, [Next]_vars PROVE TypeInv'
    OBVIOUS
  <2>1. CASE UNCHANGED vars
    BY <2>1, TypeStep DEF vars, TypeInv
  <2>2. CASE Next
    BY <2>2, DeviceFits, ServerFits, LoadAnsweredFits, LoadFailedFits, SaveAnsweredFits,
       SaveFailedFits, GiveUpFits DEF Next
  <2> QED BY <2>1, <2>2
<1>2. TypeInv => TypeOK
  BY DEF TypeInv, StoreFits, DesksFit, CallsFit, TypeOK
<1> QED
  BY <1>1, <1>2, InitFits, WaitAlways, PTL DEF Spec
=============================================================================
