---------------------------- MODULE PricingRules ----------------------------
(***************************************************************************)
(* Creating, changing and deactivating pricing rules                       *)
(* (modules/pricing/pricing_rule_service.ts), with replay of repeated      *)
(* requests (modules/idempotency) and the audit trail (modules/audit).     *)
(*                                                                         *)
(* One shop and one product, so at most one rule may be active.  An        *)
(* attempt is one HTTP request in progress; a client that got no answer    *)
(* sends the same request again, perhaps while the first is still under    *)
(* way.  PostgreSQL runs the transactions READ COMMITTED: a row or a       *)
(* unique key that a transaction has written and not committed makes other *)
(* writers of it wait.  What an attempt has written is its entry, so the   *)
(* locks follow from where the attempts stand.                             *)
(*                                                                         *)
(* Keys are not purged here: retries come within the retention time.       *)
(* A client quotes any version (If-Match), also one that no rule has had.  *)
(* The rate that an update publishes in the same transaction is in         *)
(* RatePublication.                                                        *)
(***************************************************************************)
EXTENDS Integers, FiniteSets

CONSTANTS
  Attempts,     \* HTTP requests that may be in progress at a time
  Rules,        \* rule ids
  Keys,         \* idempotency keys
  Terms,        \* what a rule may say: kind, amount, rounding
  NoRule, NoKey, NoTerms,
  MaxVersion,   \* bound: versions of a rule, and those that clients quote
  MaxChanges    \* bound: no request is made once there are so many audit entries

ASSUME RulesAssumption ==
  /\ NoRule \notin Rules
  /\ NoKey \notin Keys
  /\ NoTerms \notin Terms
  /\ MaxVersion \in Nat /\ MaxChanges \in Nat

VARIABLES
  rule,    \* tenant_pricing_rules
  audit,   \* audit_logs
  keys,    \* idempotency_keys: what each key was used for, and the response
  tx       \* the attempts

vars == <<rule, audit, keys, tx>>

History == INSTANCE RuleHistory

Absent == [version |-> 0, active |-> FALSE, terms |-> NoTerms]

RuleRows == [version : Nat, active : BOOLEAN, terms : Terms \cup {NoTerms}]

\* What is fingerprinted: method and path give op and rule, the body gives the
\* terms.  If-Match is a header, and no part of it.
Prints == [op : {"create", "update", "deactivate"}, rule : Rules \cup {NoRule},
           terms : Terms \cup {NoTerms}]

\* print, key and guess are not columns of audit_logs; the properties speak of
\* them.  A request is a guess if it quotes a version that its rule did not have
\* yet when it arrived, and that nobody can have been told.
Entries == [rule : Rules, old : RuleRows, new : RuleRows,
            print : Prints, key : Keys \cup {NoKey}, guess : BOOLEAN]

NoPrint  == [op |-> "create", rule |-> NoRule, terms |-> NoTerms]
NoStored == [used |-> FALSE, print |-> NoPrint, rule |-> NoRule, response |-> Absent]
Stored   == [used : BOOLEAN, print : Prints, rule : Rules \cup {NoRule},
             response : RuleRows]

\* Where an attempt stands, what it asks for, the rule as it has read it, what
\* it has written (lock: the row; the rest as in an audit entry), its answer.
Idle ==
  [at |-> "idle", print |-> NoPrint, key |-> NoKey, expected |-> 0,
   guess |-> FALSE, before |-> Absent, lock |-> NoRule, new |-> Absent, answer |-> "none"]

TxType ==
  [at : {"idle", "lookup", "work", "write", "store", "commit", "answered"},
   print : Prints, key : Keys \cup {NoKey}, expected : Nat, guess : BOOLEAN,
   before : RuleRows, lock : Rules \cup {NoRule}, new : RuleRows,
   answer : {"none", "ok", "conflict"}]

TypeOK ==
  /\ rule \in [Rules -> RuleRows]
  /\ audit \subseteq Entries
  /\ keys \in [Keys -> Stored]
  /\ tx \in [Attempts -> TxType]

Init ==
  /\ rule = [r \in Rules |-> Absent]
  /\ audit = {}
  /\ keys = [k \in Keys |-> NoStored]
  /\ tx = [a \in Attempts |-> Idle]

Becomes(a, t) == tx' = [tx EXCEPT ![a] = t]

\* The transaction of an attempt is rolled back and the client told why.
Refuse(a) == Becomes(a, [Idle EXCEPT !.at = "answered", !.answer = "conflict"])

-----------------------------------------------------------------------------
(* Requests.  Operators named X_... are faulty variants of X.              *)

Request(a, print, key, expected, guess) ==
  /\ tx[a].at = "idle"
  /\ Cardinality(audit) < MaxChanges
  /\ Becomes(a, [Idle EXCEPT !.at = IF key = NoKey THEN "work" ELSE "lookup",
                             !.print = print, !.key = key,
                             !.expected = expected, !.guess = guess])
  /\ UNCHANGED <<rule, audit, keys>>

\* POST, PATCH and DELETE on /pricing-rules.
Post(a, key, terms) ==
  Request(a, [op |-> "create", rule |-> NoRule, terms |-> terms], key, 0, FALSE)

Patch(a, key, r, version, terms) ==
  Request(a, [op |-> "update", rule |-> r, terms |-> terms], key,
          version, version > rule[r].version)

Delete(a, key, r, version) ==
  Request(a, [op |-> "deactivate", rule |-> r, terms |-> NoTerms], key,
          version, version > rule[r].version)

-----------------------------------------------------------------------------
(* run_mutation: the stored response, the work, the new stored response.   *)

Replay(a, stored) ==
  Becomes(a, [tx[a] EXCEPT !.at = "answered", !.lock = stored.rule,
                           !.new = stored.response, !.answer = "ok"])

FindStored_AnyPrint(a) ==
  LET stored == keys[tx[a].key] IN
  /\ tx[a].at = "lookup"
  /\ \/ /\ ~stored.used
        /\ Becomes(a, [tx[a] EXCEPT !.at = "work"])
     \/ /\ stored.used
        /\ Replay(a, stored)
  /\ UNCHANGED <<rule, audit, keys>>

\* find_stored_response: a key seen with another fingerprint is refused.
FindStored(a) ==
  LET stored == keys[tx[a].key] IN
  /\ tx[a].at = "lookup"
  /\ \/ /\ ~stored.used
        /\ Becomes(a, [tx[a] EXCEPT !.at = "work"])
     \/ /\ stored.used /\ stored.print = tx[a].print
        /\ Replay(a, stored)
     \/ /\ stored.used /\ stored.print # tx[a].print
        /\ Refuse(a)
  /\ UNCHANGED <<rule, audit, keys>>

SomeActive == \E r \in Rules : rule[r].active

\* create_rule looks for an active rule of the product.
CheckNoActive(a) ==
  /\ tx[a].at = "work" /\ tx[a].print.op = "create"
  /\ IF SomeActive THEN Refuse(a)
                   ELSE Becomes(a, [tx[a] EXCEPT !.at = "write"])
  /\ UNCHANGED <<rule, audit, keys>>

\* update_rule and deactivate_rule read the rule: the audit's old_value.
LoadBefore(a) ==
  LET r == tx[a].print.rule IN
  /\ tx[a].at = "work" /\ tx[a].print.op # "create"
  /\ IF rule[r] = Absent THEN Refuse(a)
     ELSE Becomes(a, [tx[a] EXCEPT !.at = "write", !.before = rule[r]])
  /\ UNCHANGED <<rule, audit, keys>>

\* The attempts that have written a row and not ended.
Writing == {b \in Attempts : tx[b].at \in {"store", "commit"}}

RowBusy(a, r) == \E b \in Writing \ {a} : tx[b].lock = r

\* Someone else has written a row that is, or was, in the unique index of
\* active rules.
IndexBusy(a) ==
  \E b \in Writing \ {a} : rule[tx[b].lock].active \/ tx[b].new.active

\* A write that succeeded, with its audit entry; then the response is stored.
Wrote(a, r, new) ==
  Becomes(a, [tx[a] EXCEPT !.at = IF tx[a].key = NoKey THEN "commit" ELSE "store",
                           !.lock = r, !.new = new])

Insert_NoIndex(a) ==
  /\ tx[a].at = "write" /\ tx[a].print.op = "create"
  /\ \E r \in Rules :
       /\ rule[r] = Absent /\ ~RowBusy(a, r)
       /\ Wrote(a, r, [version |-> 1, active |-> TRUE, terms |-> tx[a].print.terms])
  /\ UNCHANGED <<rule, audit, keys>>

\* The INSERT of create_rule: uq_tenant_pricing_rules_active decides.
Insert(a) ==
  /\ tx[a].at = "write" /\ tx[a].print.op = "create"
  /\ ~IndexBusy(a)
  /\ IF SomeActive THEN Refuse(a)
     ELSE \E r \in Rules :
            /\ rule[r] = Absent /\ ~RowBusy(a, r)
            /\ Wrote(a, r, [version |-> 1, active |-> TRUE,
                            terms |-> tx[a].print.terms])
  /\ UNCHANGED <<rule, audit, keys>>

Updated(row, print) ==
  [version |-> row.version + 1,
   active  |-> row.active /\ print.op = "update",
   terms   |-> IF print.op = "update" THEN print.terms ELSE row.terms]

\* The WHERE of the conditional UPDATE.
Matches(a) ==
  LET now == rule[tx[a].print.rule] IN
  /\ now.version = tx[a].expected
  /\ tx[a].print.op = "deactivate" => now.active

Update(a) ==
  LET r == tx[a].print.rule IN Wrote(a, r, Updated(rule[r], tx[a].print))

UpdateWhere_NoWait(a) ==
  /\ tx[a].at = "write" /\ tx[a].print.op # "create"
  /\ IF Matches(a) THEN Update(a) ELSE Refuse(a)
  /\ UNCHANGED <<rule, audit, keys>>

UpdateWhere_AnyVersion(a) ==
  /\ tx[a].at = "write" /\ tx[a].print.op # "create"
  /\ ~RowBusy(a, tx[a].print.rule)
  /\ Update(a)
  /\ UNCHANGED <<rule, audit, keys>>

\* The conditional UPDATE: where it finds a row it waits for it, and looks again
\* at what has become of it.
UpdateWhere(a) ==
  /\ tx[a].at = "write" /\ tx[a].print.op # "create"
  /\ \/ ~Matches(a) /\ Refuse(a)
     \/ Matches(a) /\ ~RowBusy(a, tx[a].print.rule) /\ Update(a)
  /\ UNCHANGED <<rule, audit, keys>>

KeyBusy(a) ==
  \E b \in Attempts \ {a} : tx[b].at = "commit" /\ tx[b].key = tx[a].key

Store_Upserts(a) ==
  /\ tx[a].at = "store"
  /\ ~KeyBusy(a)
  /\ Becomes(a, [tx[a] EXCEPT !.at = "commit"])
  /\ UNCHANGED <<rule, audit, keys>>

\* store_response: the primary key decides between concurrent requests.
Store(a) ==
  /\ tx[a].at = "store"
  /\ ~KeyBusy(a)
  /\ IF keys[tx[a].key].used THEN Refuse(a)
                             ELSE Becomes(a, [tx[a] EXCEPT !.at = "commit"])
  /\ UNCHANGED <<rule, audit, keys>>

Entry(t) == [rule |-> t.lock, old |-> t.before, new |-> t.new,
             print |-> t.print, key |-> t.key, guess |-> t.guess]

\* The rule, its audit entry and the stored response become visible at once.
Commit(a) ==
  LET t == tx[a] IN
  /\ t.at = "commit"
  /\ rule' = [rule EXCEPT ![t.lock] = t.new]
  /\ audit' = audit \cup {Entry(t)}
  /\ keys' = IF t.key = NoKey THEN keys
             ELSE [keys EXCEPT ![t.key] = [used |-> TRUE, print |-> t.print,
                                           rule |-> t.lock, response |-> t.new]]
  /\ Becomes(a, [t EXCEPT !.at = "answered", !.answer = "ok"])

\* A statement fails, the transaction times out or the process dies.
Abort(a) ==
  /\ tx[a].at \notin {"idle", "answered"}
  /\ Becomes(a, Idle)
  /\ UNCHANGED <<rule, audit, keys>>

\* The client has the answer, or will never have it.
Finish(a) ==
  /\ tx[a].at = "answered"
  /\ Becomes(a, Idle)
  /\ UNCHANGED <<rule, audit, keys>>

-----------------------------------------------------------------------------
Ask(a) ==
  \E key \in Keys \cup {NoKey} :
    \/ \E terms \in Terms : Post(a, key, terms)
    \/ \E r \in Rules, version \in 0..(MaxVersion - 1) :
         \/ \E terms \in Terms : Patch(a, key, r, version, terms)
         \/ Delete(a, key, r, version)

Serve(a) ==
  \/ FindStored(a) \/ CheckNoActive(a) \/ LoadBefore(a)
  \/ Insert(a) \/ UpdateWhere(a) \/ Store(a) \/ Commit(a)

Next == \E a \in Attempts : Ask(a) \/ Serve(a) \/ Abort(a) \/ Finish(a)

Spec == Init /\ [][Next]_vars

-----------------------------------------------------------------------------
(* Properties.                                                             *)

\* Every commit is one change of RuleHistory: nothing is half done, nothing is
\* changed without its audit entry, and the entry starts from the rule that
\* the change really replaced, although it was read before the row was locked.
\* The exception is a client that guessed the version of a change still under
\* way: its entry may start from the rule as it was before that change.
ImplementsHistory == History!Spec

\* audit_service.ts:6, "An audit row exists if and only if the mutation it
\* describes committed": the trail of a rule explains every version of it.
AuditExplainsRules == History!Explained

\* A product never has two active rules, whoever creates and deactivates rules
\* at the same time (uq_tenant_pricing_rules_active).
OneActiveRule == History!AtMostOneActive(rule)

\* idempotency_service.ts:33-40: a key is executed once, also when a retry
\* overlaps the request it repeats.
OncePerKey ==
  \A x \in audit, y \in audit : x.key = y.key /\ x.key # NoKey => x = y

\* A client that is told its change succeeded, now or by replay, asked for
\* exactly that change, and the answer is the rule as that change left it: a
\* key reused for something else never lets a client "believe a change was
\* applied that never was" (idempotency_service.ts:39-41).
AnswerIsTrue ==
  \A a \in Attempts :
    tx[a].answer = "ok" =>
      \E x \in audit : /\ x.print = tx[a].print /\ x.key = tx[a].key
                       /\ x.rule = tx[a].lock /\ x.new = tx[a].new

\* What a key stands for: it is used exactly when some entry carries it, and
\* the stored response is the rule as that entry left it.
KeyInv(k) ==
  /\ keys[k].used <=> \E x \in audit : x.key = k
  /\ keys[k].used =>
       \E x \in audit : /\ x.key = k /\ x.print = keys[k].print
                        /\ x.rule = keys[k].rule /\ x.new = keys[k].response

\* What an attempt has read.  The rule may be out of date by now, but not with
\* the same version; if the client has quoted a version it was told, not before
\* that version.
ReadInv(a) ==
  LET t == tx[a]
      r == t.print.rule
      now == rule[r] IN
  /\ t.before # Absent /\ \E x \in audit : x.rule = r /\ x.new = t.before
  /\ t.before.version <= now.version
  /\ t.before.version = now.version => t.before = now
  /\ ~t.guess => t.expected <= t.before.version

\* What it holds: from its write on nobody else can write the row, the place in
\* the index or, at the end, the key.
HoldsInv(a) ==
  LET t == tx[a]
      now == rule[t.lock] IN
  /\ t.lock \in Rules /\ ~RowBusy(a, t.lock)
  /\ t.new.version = now.version + 1
  /\ ~t.guess => t.before = now
  /\ t.guess => \E x \in audit : x.rule = t.lock /\ x.new = t.before
  /\ t.print.op # "create" /\ t.new.active => now.active
  /\ t.print.op = "create" =>
       now = Absent /\ t.new.active /\ ~SomeActive /\ ~IndexBusy(a)

AttemptInv(a) ==
  LET t == tx[a] IN
  /\ t.at \in {"lookup", "work", "write", "store", "commit"} =>
       /\ t.answer = "none"
       /\ t.print.op = "create" => t.print.rule = NoRule /\ ~t.guess
       /\ t.print.op # "create" =>
            /\ t.print.rule \in Rules
            /\ ~t.guess => t.expected <= rule[t.print.rule].version
  /\ t.at \in {"lookup", "work"} => t.before = Absent
  /\ t.at = "write" =>
       IF t.print.op = "create" THEN t.before = Absent ELSE ReadInv(a)
  /\ a \in Writing => HoldsInv(a)
  /\ t.at \in {"lookup", "store"} => t.key # NoKey
  /\ t.at = "commit" /\ t.key # NoKey => ~keys[t.key].used /\ ~KeyBusy(a)
  /\ t.answer # "none" => t.at = "answered"

\* The states in which every commit is one change of RuleHistory.
RulesInv ==
  /\ TypeOK
  /\ OneActiveRule /\ OncePerKey /\ AnswerIsTrue
  /\ \A r \in Rules : rule[r] # Absent => \E x \in audit : x.rule = r /\ x.new = rule[r]
  /\ \A k \in Keys : KeyInv(k)
  /\ \A a \in Attempts : AttemptInv(a)
=============================================================================
