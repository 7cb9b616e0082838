-------------------------------- MODULE Desk --------------------------------
(***************************************************************************)
(* A shopkeeper's dashboard, open on several devices, and the routes it    *)
(* saves through (apps/web: page.tsx of the dashboard, its three forms,    *)
(* lib/api.ts, lib/auth.ts; apps/api: update_rule, update_settings,        *)
(* update_product).                                                        *)
(*                                                                         *)
(* One shop with one product.  A section of what the dashboard edits has   *)
(* fields, and each field two values.  A tab mounts a form, which copies   *)
(* what the page has loaded and then lives on its own: that copy, the      *)
(* page's and the server's are three.  A call is one request of a device:  *)
(* the server may still execute what the device has given up.              *)
(*                                                                         *)
(* A transaction of the server is one step: what overlaps inside it, and   *)
(* its retries, are in PricingRules (whose abstraction, RuleHistory, is    *)
(* what happens here).  The rates that it recomputes are RatePublication's.*)
(***************************************************************************)
EXTENDS Integers

CONSTANTS
  Devices,
  RuleFields, \* what the editor of a rule holds: its adjustment, its rounding
  Calls,      \* bound: requests on their way at a time
  MaxSaves,   \* bound: saves in all; none of the devices types after them
  NoDevice

ASSUME DeskAssumption == NoDevice \notin Devices /\ MaxSaves \in Nat

Fields ==
  [pricing  |-> RuleFields,
   products |-> {"is_enabled", "display_unit"},
   shop     |-> {"tagline", "phone"}]
Sections == DOMAIN Fields

Contents == [pricing  : [Fields.pricing -> BOOLEAN],
             products : [Fields.products -> BOOLEAN],
             shop     : [Fields.shop -> BOOLEAN]]

\* The fields that a request carries; an absent one is left alone.
NoBody    == [f \in {} |-> TRUE]
Bodies(s) == UNION {[fs -> BOOLEAN] : fs \in SUBSET Fields[s]}

VARIABLES
  store,   \* what the shop has stored, with the version of its rule
  desk,    \* the dashboards
  call,    \* the requests
  saves    \* how many saves were sent

vars == <<store, desk, call, saves>>

\* What is answered of the store.
Copies == [data : Contents, version : Nat]
Copy(s) == [data |-> s.data, version |-> s.version]

Fresh ==
  [data |-> [s \in Sections |-> [f \in Fields[s] |-> TRUE]], version |-> 1]

\* "outside" is signed_out or needs_shop.
Phases == {"loading", "outside", "error", "ready"}

\* values: what the boxes show.  start: what they showed when the form was
\* mounted or last confirmed, which is the user's idea of what is stored; the
\* form of the shop's details keeps it too (saved_state).
Form(page, s) == [start |-> page.data[s], values |-> page.data[s]]
Changed(form) == {f \in DOMAIN form.start : form.values[f] # form.start[f]}

Closed == Form(Fresh, "pricing")

DeskType ==
  [phase : Phases, page : Copies, tab : Sections, busy : BOOLEAN,
   form : UNION {[start : [Fields[s] -> BOOLEAN], values : [Fields[s] -> BOOLEAN]] : s \in Sections},
   saving : BOOLEAN, lost : BOOLEAN]

\* by: who asks; op: for a section, or the load.  expected, seen: the version
\* of the rule that the device quotes and what it has of it; meant: the fields
\* that the user changed; view: what is answered; mounted: the form that sent
\* it is still there; awaited: the device still listens.
Free ==
  [at |-> "free", by |-> NoDevice, op |-> "load", body |-> NoBody, expected |-> 0,
   seen |-> Fresh.data.pricing, meant |-> {}, view |-> Fresh, answer |-> "none",
   mounted |-> FALSE, awaited |-> FALSE]

CallType ==
  [at : {"free", "sent", "written", "answered"},
   by : Devices \cup {NoDevice}, op : Sections \cup {"load"},
   body : UNION {Bodies(s) : s \in Sections}, expected : Nat,
   seen : [Fields.pricing -> BOOLEAN], meant : SUBSET UNION {Fields[s] : s \in Sections},
   view : Copies, answer : {"none", "ok", "conflict"},
   mounted : BOOLEAN, awaited : BOOLEAN]

Blank ==
  [phase |-> "loading", page |-> Fresh, tab |-> "pricing",
   busy |-> FALSE, form |-> Closed, saving |-> FALSE, lost |-> FALSE]

Init ==
  /\ store = [data |-> Fresh.data, version |-> Fresh.version, updated_by |-> NoDevice]
  /\ desk = [d \in Devices |-> Blank]
  /\ call = [c \in Calls |-> Free]
  /\ saves = 0

-----------------------------------------------------------------------------
(* The page.  A faulty variant of X is named X_...: for the bugs that the  *)
(* properties are known to exclude.                                        *)

Of(d) == {c \in Calls : call[c].at # "free" /\ call[c].by = d}

\* bound: when all saves are sent, only a device with one under way goes on.
Active(d) ==
  saves < MaxSaves \/ \E c \in Of(d) : call[c].at \in {"sent", "written"} /\ call[c].op # "load"

\* The calls once the form of d is gone; and once its whole page is.
Unmounted(d) ==
  [c \in Calls |-> IF c \in Of(d) THEN [call[c] EXCEPT !.mounted = FALSE] ELSE call[c]]
Abandoned(d) ==
  [c \in Calls |->
     IF c \notin Of(d) THEN call[c]
     ELSE IF call[c].at = "answered" \/ call[c].op = "load" THEN Free
     ELSE [call[c] EXCEPT !.mounted = FALSE, !.awaited = FALSE]]

Sends(d, c, op, calls) ==
  [calls EXCEPT ![c] = [Free EXCEPT !.at = "sent", !.by = d, !.op = op, !.awaited = TRUE]]

\* The form of section s, new, and the calls without the one before it.
Shows(d, state, s) ==
  [state EXCEPT !.tab = s, !.form = Form(state.page, s), !.saving = FALSE, !.lost = FALSE]

\* A phase without forms; a load that succeeds goes on with the same tab.
Turns(d, phase) ==
  desk' = [desk EXCEPT ![d] = [Blank EXCEPT !.phase = phase, !.tab = desk[d].tab]]

\* The page is opened or opened again: after a redirect to the provider, by
\* the callback, or by hand.  The browser drops what was under way; without a
\* token (acquire_token) there is nothing to load with.
Open(d) ==
  /\ Active(d)
  /\ \/ /\ desk' = [desk EXCEPT ![d] = [Blank EXCEPT !.phase = "outside"]]
        /\ call' = Abandoned(d)
     \/ \E c \in Calls :
          /\ call[c].at = "free"
          /\ desk' = [desk EXCEPT ![d] = Blank]
          /\ call' = Sends(d, c, "load", Abandoned(d))
  /\ UNCHANGED <<store, saves>>

\* "Refresh", "Reload current values", "Try again": load() once more.
Reload(d) ==
  /\ Active(d)
  /\ \/ desk[d].phase = "error"
     \/ /\ desk[d].phase = "ready" /\ desk[d].tab = "pricing"
        /\ ~desk[d].busy \/ desk[d].lost
  /\ \/ /\ Turns(d, "outside")
        /\ call' = Unmounted(d)
     \/ \E c \in Calls :
          /\ call[c].at = "free"
          /\ desk' = [desk EXCEPT ![d].busy = TRUE]
          /\ call' = Sends(d, c, "load", call)
  /\ UNCHANGED <<store, saves>>

ChooseTab(d, s) ==
  /\ Active(d)
  /\ desk[d].phase = "ready" /\ desk[d].tab # s
  /\ desk' = [desk EXCEPT ![d] = Shows(d, desk[d], s)]
  /\ call' = Unmounted(d)
  /\ UNCHANGED <<store, saves>>

-----------------------------------------------------------------------------
(* The forms.                                                              *)

\* Typing goes on while a save is under way.
Edit(d) ==
  /\ desk[d].phase = "ready" /\ desk[d].tab \in {"pricing", "shop"}
  /\ saves < MaxSaves
  /\ \E f \in Fields[desk[d].tab] : desk' = [desk EXCEPT ![d].form.values[f] = ~@]
  /\ UNCHANGED <<store, call, saves>>

\* on_save: with a fresh token, or the error that there is none.
Save(d, body, meant) ==
  /\ desk[d].phase = "ready" /\ ~desk[d].saving
  /\ \/ /\ desk' = [desk EXCEPT ![d].lost = FALSE]
        /\ UNCHANGED <<call, saves>>
     \/ /\ saves < MaxSaves
        /\ saves' = saves + 1
        /\ desk' = [desk EXCEPT ![d].saving = TRUE, ![d].lost = FALSE]
        /\ \E c \in Calls :
             /\ call[c].at = "free"
             /\ call' = [call EXCEPT ![c] =
                  [Free EXCEPT !.at = "sent", !.by = d, !.op = desk[d].tab, !.body = body,
                               !.expected = IF desk[d].tab = "pricing" THEN desk[d].page.version ELSE 0,
                               !.seen = IF desk[d].tab = "pricing" THEN desk[d].page.data.pricing ELSE @,
                               !.meant = meant, !.mounted = TRUE, !.awaited = TRUE]]
  /\ UNCHANGED store

\* The editor of a rule sends the whole rule.
SaveRule(d) ==
  /\ desk[d].tab = "pricing"
  /\ Save(d, desk[d].form.values, Changed(desk[d].form))

SaveShop_SendsAll(d) ==
  /\ desk[d].tab = "shop" /\ Changed(desk[d].form) # {}
  /\ Save(d, desk[d].form.values, Changed(desk[d].form))

\* diff().
SaveShop(d) ==
  LET dirty == Changed(desk[d].form) IN
  /\ desk[d].phase = "ready" /\ desk[d].tab = "shop" /\ dirty # {}
  /\ Save(d, [f \in dirty |-> desk[d].form.values[f]], dirty)

\* Each control of a product saves on change; a product that is off has only
\* the switch.
SaveProduct(d) ==
  /\ desk[d].phase = "ready" /\ desk[d].tab = "products"
  /\ \E f \in Fields.products :
       /\ f = "is_enabled" \/ desk[d].form.values["is_enabled"]
       /\ Save(d, [g \in {f} |-> ~desk[d].form.values[f]], {f})

-----------------------------------------------------------------------------
(* The server.                                                             *)

\* A call that nobody awaits any more is over when the server is.
Becomes(c, t) == call' = [call EXCEPT ![c] = IF t.at = "answered" /\ ~t.awaited THEN Free ELSE t]

\* body: the editor of a rule goes on with what it has sent.
Answers(c, answer) ==
  Becomes(c, [Free EXCEPT !.at = "answered", !.by = call[c].by, !.op = call[c].op,
                          !.body = IF call[c].op = "pricing" /\ call[c].mounted
                                   THEN call[c].body ELSE NoBody,
                          !.answer = answer, !.view = IF answer = "ok" THEN Copy(store') ELSE Fresh,
                          !.mounted = call[c].mounted, !.awaited = call[c].awaited])

\* GET /me and the three lists.  They are separate requests; nothing on the
\* page relates the sections.
Read(c) ==
  /\ call[c].at = "sent" /\ call[c].op = "load"
  /\ UNCHANGED store
  /\ Answers(c, "ok")
  /\ UNCHANGED <<desk, saves>>

Merged_OnlyBody(old, body) == body
Merged(old, body) ==
  [f \in DOMAIN old |-> IF f \in DOMAIN body THEN body[f] ELSE old[f]]

Stored(c) ==
  [store EXCEPT !.data[call[c].op] = Merged(@, call[c].body),
                !.version = IF call[c].op = "pricing" THEN @ + 1 ELSE @,
                !.updated_by = IF call[c].op = "pricing" THEN call[c].by ELSE @]

\* update_rule: If-Match decides.
UpdateRule(c) ==
  /\ call[c].at = "sent" /\ call[c].op = "pricing"
  /\ \/ /\ store.version = call[c].expected
        /\ store' = Stored(c)
        /\ Answers(c, "ok")
     \/ /\ store.version # call[c].expected
        /\ UNCHANGED store
        /\ Answers(c, "conflict")
  /\ UNCHANGED <<desk, saves>>

\* update_settings: the fields of the request, whatever the others are now.
UpdateSettings(c) ==
  /\ call[c].at = "sent" /\ call[c].op = "shop"
  /\ store' = Stored(c)
  /\ Answers(c, "ok")
  /\ UNCHANGED <<desk, saves>>

\* update_product, in its transaction; and the list that it answers from, in
\* another.
UpdateProduct(c) ==
  /\ call[c].at = "sent" /\ call[c].op = "products"
  /\ store' = Stored(c)
  /\ call' = [call EXCEPT ![c].at = "written"]
  /\ UNCHANGED <<desk, saves>>

ViewProduct(c) ==
  /\ call[c].at = "written"
  /\ UNCHANGED store
  /\ Answers(c, "ok")
  /\ UNCHANGED <<desk, saves>>

-----------------------------------------------------------------------------
(* The answers.                                                            *)

Done(c) == call' = [call EXCEPT ![c] = Free]

\* A form that is there stays as it is: the loaded values only pass it by.
Loaded(d, copy) ==
  desk' = [desk EXCEPT ![d] =
    IF desk[d].phase = "ready" THEN [desk[d] EXCEPT !.page = copy, !.busy = FALSE]
    ELSE [Shows(d, [desk[d] EXCEPT !.page = copy], desk[d].tab) EXCEPT
            !.phase = "ready", !.busy = FALSE]]

LoadAnswered(c) ==
  /\ call[c].at = "answered" /\ call[c].op = "load"
  /\ Loaded(call[c].by, call[c].view)
  /\ Done(c)
  /\ UNCHANGED <<store, saves>>

\* The token is refused, the shop suspended, the request or the database fails,
\* the ten seconds of api_request are over.
LoadFailed(c) ==
  /\ call[c].at = "sent" /\ call[c].op = "load"
  /\ \E phase \in {"outside", "error"} : Turns(call[c].by, phase)
  /\ call' = [Unmounted(call[c].by) EXCEPT ![c] = Free]
  /\ UNCHANGED <<store, saves>>

\* What the page keeps of an answer: the section that was saved.
Kept_VersionOnly(page, s, copy) ==
  IF s = "pricing" THEN [page EXCEPT !.version = copy.version]
  ELSE [page EXCEPT !.data[s] = copy.data[s]]
Kept(page, s, copy) ==
  [page EXCEPT !.data[s] = copy.data[s],
               !.version = IF s = "pricing" THEN copy.version ELSE @]

\* The editor of a rule goes on showing what was sent; the other forms show
\* what the server says.
Confirmed(c, state, page) ==
  LET s == call[c].op IN
  [state EXCEPT !.saving = FALSE,
     !.form = IF s = "pricing" THEN [state.form EXCEPT !.start = call[c].body]
              ELSE Form(page, s)]

SaveAnswered(c) ==
  LET d == call[c].by
      s == call[c].op
      page == Kept(desk[d].page, s, call[c].view)
      state == IF desk[d].phase = "ready" THEN [desk[d] EXCEPT !.page = page] ELSE desk[d]
  IN
  /\ call[c].at = "answered" /\ s # "load"
  /\ desk' = [desk EXCEPT ![d] =
       CASE call[c].answer = "ok" /\ call[c].mounted -> Confirmed(c, state, page)
         [] call[c].answer = "ok" /\ ~call[c].mounted -> state
         [] call[c].answer = "conflict" /\ call[c].mounted ->
              [desk[d] EXCEPT !.saving = FALSE, !.lost = TRUE]
         [] OTHER -> desk[d]]
  /\ Done(c)
  /\ UNCHANGED <<store, saves>>

Released_Never(c) == desk' = desk
Released(c) == desk' = [desk EXCEPT ![call[c].by].saving = @ /\ ~call[c].mounted]

\* Refused, or failed: the transaction is undone (or only its answer is lost).
SaveFailed(c) ==
  /\ call[c].at \in {"sent", "written"} /\ call[c].op # "load"
  /\ Released(c)
  /\ Done(c)
  /\ UNCHANGED <<store, saves>>

\* api_request gives up, after ten seconds or because the network is gone; the
\* server may be at work, or may have answered.
GiveUp(c) ==
  /\ call[c].at # "free" /\ call[c].op # "load" /\ call[c].awaited
  /\ Released(c)
  /\ Becomes(c, [call[c] EXCEPT !.mounted = FALSE, !.awaited = FALSE])
  /\ UNCHANGED <<store, saves>>

-----------------------------------------------------------------------------
Device(d) ==
  \/ Open(d) \/ Reload(d) \/ \E s \in Sections : ChooseTab(d, s)
  \/ Edit(d) \/ SaveRule(d) \/ SaveShop(d) \/ SaveProduct(d)

Server(c) ==
  \/ Read(c) \/ UpdateRule(c) \/ UpdateSettings(c) \/ UpdateProduct(c) \/ ViewProduct(c)

Next ==
  \/ \E d \in Devices : Device(d)
  \/ \E c \in Calls : \/ Server(c)
                       \/ LoadAnswered(c) \/ LoadFailed(c)
                       \/ SaveAnswered(c) \/ SaveFailed(c) \/ GiveUp(c)

Spec == Init /\ [][Next]_vars

-----------------------------------------------------------------------------
(* Properties.                                                             *)

TypeOK ==
  /\ store \in [data : Contents, version : Nat, updated_by : Devices \cup {NoDevice}]
  /\ desk \in [Devices -> DeskType]
  /\ call \in [Calls -> CallType]
  /\ saves \in 0..MaxSaves

\* What is held as version v of the rule is version v: the current one if v is
\* current.  It is so for a page, for an answer that is on its way to one, and
\* for a change on its way to the server.  If-Match speaks of the version only,
\* so this is what lets it stand for the contents (page.tsx:192, "Replace
\* the saved rule in place").
Knows(version, pricing) ==
  /\ version \in Nat /\ version <= store.version
  /\ version = store.version => pricing = store.data.pricing

VersionNamesContents ==
  /\ \A d \in Devices : desk[d].phase = "ready" =>
       Knows(desk[d].page.version, desk[d].page.data.pricing)
  /\ \A c \in Calls :
       /\ call[c].at = "answered" /\ call[c].answer = "ok" =>
            Knows(call[c].view.version, call[c].view.data.pricing)
       /\ call[c].at = "sent" /\ call[c].op = "pricing" =>
            Knows(call[c].expected, call[c].seen)

\* Two people who change different things do not overwrite each other
\* (ShopSettingsForm.tsx:13-17, tenant_products_service.ts:163-164): of the
\* shop's details and its products, a save changes what its author changed.
Changes(s) == {f \in Fields[s] : store'.data[s][f] # store.data[s][f]}

MeansToChange(c, s) ==
  call[c].op = s /\ call'[c] # call[c] /\ Changes(s) \subseteq call[c].meant

OnlyWhatWasMeant ==
  [][\A s \in {"shop", "products"} :
       Changes(s) # {} => \E c \in Calls : MeansToChange(c, s)]_vars

\* api.ts:203: "`If-Match` carries the version the shopkeeper was looking at".
\* So of a rule that another device has saved, a save changes what its author
\* changed in the boxes, and replaces nothing that they never showed him.
NoBlindOverwrite ==
  [][Changes("pricing") # {} =>
       \E c \in Calls : /\ call[c].op = "pricing" /\ call'[c] # call[c]
                       /\ store.updated_by # call[c].by =>
                            Changes("pricing") \subseteq call[c].meant]_vars

\* What is disabled while it waits (the buttons of a form, "Refresh") waits for
\* a request that has the timeout of lib/api.ts, and of one that is its own:
\* an answer for a form that is gone does not release, or fill, its successor.
WaitIsForOne ==
  \A d \in Devices :
    /\ desk[d].saving =>
         \E c \in Of(d) : call[c].op = desk[d].tab /\ call[c].mounted /\ call[c].awaited
    /\ desk[d].busy => \E c \in Of(d) : call[c].op = "load" /\ call[c].awaited
    /\ \A c1, c2 \in Of(d) : call[c1].mounted /\ call[c2].mounted => c1 = c2
=============================================================================
