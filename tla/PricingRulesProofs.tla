------------------------- MODULE PricingRulesProofs -------------------------
(***************************************************************************)
(* That the transactions of PricingRules, however they interleave and      *)
(* whenever they fail, are the changes of RuleHistory.  The argument is    *)
(* RulesInv: an attempt that has written a row still sees it as it read    *)
(* it, unless its client has guessed the version, because the version it   *)
(* was asked to replace was still the current one, and nobody else can     *)
(* write the row, activate another rule or use the same key before it      *)
(* ends.                                                                   *)
(***************************************************************************)
EXTENDS PricingRules, TLAPS

LEMMA IdleIsTx == /\ Idle \in TxType
                  /\ Absent \in RuleRows /\ NoPrint \in Prints
                  /\ NoStored \in Stored
BY DEF Idle, TxType, NoPrint, Prints, Absent, RuleRows, NoStored, Stored

LEMMA RefusedIsTx == [Idle EXCEPT !.at = "answered", !.answer = "conflict"] \in TxType
BY IdleIsTx DEF Idle, TxType

\* An attempt takes a step of its own and commits nothing: what remains to be
\* seen is that it respects what the others hold.
LEMMA LocalStep ==
  ASSUME RulesInv, NEW a \in Attempts, NEW t \in TxType,
         Becomes(a, t), UNCHANGED <<rule, audit, keys>>,
         t.at \in {"store", "commit"} =>
           \A b \in Writing \ {a} :
             /\ tx[b].lock # t.lock
             /\ tx[b].print.op = "create" => ~rule[t.lock].active /\ ~t.new.active,
         t.at = "commit" /\ t.key # NoKey =>
           \A b \in Attempts \ {a} : tx[b].at = "commit" => tx[b].key # t.key,
         AttemptInv(a)',
         t.answer = "ok" =>
           \E x \in audit : /\ x.print = t.print /\ x.key = t.key
                            /\ x.rule = t.lock /\ x.new = t.new
  PROVE  RulesInv'
<1>1. /\ tx' \in [Attempts -> TxType] /\ tx'[a] = t
      /\ \A b \in Attempts \ {a} : tx'[b] = tx[b]
  BY DEF Becomes, RulesInv, TypeOK
<1>2. TypeOK'
  BY <1>1 DEF RulesInv, TypeOK
<1>3. /\ OneActiveRule' /\ OncePerKey' /\ \A k \in Keys : KeyInv(k)'
      /\ \A r \in Rules : rule'[r] # Absent =>
           \E x \in audit' : x.rule = r /\ x.new = rule'[r]
  BY DEF RulesInv, OneActiveRule, History!AtMostOneActive, OncePerKey, KeyInv
<1>4. AnswerIsTrue'
  <2> SUFFICES ASSUME NEW b \in Attempts, tx'[b].answer = "ok"
               PROVE \E x \in audit' :
                       /\ x.print = tx'[b].print /\ x.key = tx'[b].key
                       /\ x.rule = tx'[b].lock /\ x.new = tx'[b].new
    BY DEF AnswerIsTrue
  <2>1. CASE b = a
    BY <1>1, <2>1
  <2>2. CASE b # a
    BY <1>1, <2>2 DEF RulesInv, AnswerIsTrue
  <2> QED BY <2>1, <2>2
<1>5. ASSUME NEW b \in Attempts \ {a} PROVE AttemptInv(b)'
  <2>1. tx'[b] = tx[b] /\ AttemptInv(b)
    BY <1>1 DEF RulesInv
  <2>2. /\ b \in Writing' <=> b \in Writing
        /\ SomeActive' <=> SomeActive
    BY <2>1 DEF Writing, SomeActive
  <2>3. ASSUME b \in Writing PROVE ~RowBusy(b, tx[b].lock)'
    <3>1. ~RowBusy(b, tx[b].lock)
      BY <2>1, <2>3 DEF AttemptInv, HoldsInv
    <3> QED BY <1>1, <2>1, <2>3, <3>1 DEF RowBusy, Writing
  <2>4. ASSUME b \in Writing, tx[b].print.op = "create" PROVE ~IndexBusy(b)'
    <3>1. ~IndexBusy(b)
      BY <2>1, <2>4 DEF AttemptInv, HoldsInv
    <3> QED BY <1>1, <2>1, <2>4, <3>1 DEF IndexBusy, Writing
  <2>5. ASSUME tx[b].at = "commit", tx[b].key # NoKey PROVE ~KeyBusy(b)'
    <3>1. ~KeyBusy(b)
      BY <2>1, <2>5 DEF AttemptInv
    <3> QED BY <1>1, <2>1, <2>5, <3>1 DEF KeyBusy
  <2>6. HoldsInv(b) /\ b \in Writing => HoldsInv(b)'
    BY <2>1, <2>2, <2>3, <2>4 DEF HoldsInv
  <2>7. ReadInv(b) => ReadInv(b)'
    BY <2>1 DEF ReadInv
  <2> QED BY <2>1, <2>2, <2>5, <2>6, <2>7 DEF AttemptInv
<1> QED BY <1>2, <1>3, <1>4, <1>5 DEF RulesInv

\* An attempt that ends or begins holds nothing.
LEMMA RestStep ==
  ASSUME RulesInv, NEW a \in Attempts, NEW t \in TxType,
         Becomes(a, t), UNCHANGED <<rule, audit, keys>>,
         t.at \in {"idle", "answered"},
         t.answer # "none" => t.at = "answered", t.answer # "ok"
  PROVE  RulesInv'
<1>1. tx'[a] = t
  BY DEF Becomes, RulesInv, TypeOK
<1>2. AttemptInv(a)'
  BY <1>1 DEF AttemptInv, Writing
<1> QED BY <1>2, LocalStep

LEMMA RefuseStep ==
  ASSUME RulesInv, NEW a \in Attempts, Refuse(a), UNCHANGED <<rule, audit, keys>>
  PROVE  RulesInv'
<1> DEFINE t == [Idle EXCEPT !.at = "answered", !.answer = "conflict"]
<1>1. t \in TxType /\ t.at = "answered" /\ t.answer = "conflict"
  BY RefusedIsTx DEF Idle
<1> HIDE DEF t
<1> QED BY <1>1, RestStep DEF Refuse, t

\* An attempt that goes on without having written anything.
LEMMA ReadStep ==
  ASSUME RulesInv, NEW a \in Attempts, NEW t \in TxType,
         Becomes(a, t), UNCHANGED <<rule, audit, keys>>,
         t.at \in {"lookup", "work", "write"}, t.answer = "none",
         t.at = "lookup" => t.key # NoKey,
         t.print.op = "create" => t.print.rule = NoRule /\ ~t.guess,
         t.print.op # "create" =>
           /\ t.print.rule \in Rules
           /\ ~t.guess => t.expected <= rule[t.print.rule].version,
         t.at \in {"lookup", "work"} \/ t.print.op = "create" => t.before = Absent,
         t.at = "write" /\ t.print.op # "create" =>
           t.before = rule[t.print.rule] /\ t.before # Absent
  PROVE  RulesInv'
<1>1. tx'[a] = t
  BY DEF Becomes, RulesInv, TypeOK
<1>2. a \notin Writing'
  BY <1>1 DEF Writing
<1>3. ASSUME t.at = "write", t.print.op # "create" PROVE ReadInv(a)'
  <2>1. t.print.rule \in Rules /\ rule[t.print.rule].version \in Nat
    BY <1>3 DEF RulesInv, TypeOK, RuleRows
  <2>2. \E x \in audit : x.rule = t.print.rule /\ x.new = t.before
    BY <1>3, <2>1 DEF RulesInv
  <2> QED BY <1>1, <1>3, <2>1, <2>2 DEF ReadInv
<1>5. AttemptInv(a)'
  BY <1>1, <1>2, <1>3 DEF AttemptInv
<1> QED BY <1>5, LocalStep

LEMMA RequestStep ==
  ASSUME RulesInv, NEW a \in Attempts, NEW print \in Prints,
         NEW key \in Keys \cup {NoKey}, NEW expected \in Nat, NEW guess \in BOOLEAN,
         Request(a, print, key, expected, guess),
         print.op = "create" => print.rule = NoRule /\ ~guess,
         print.op # "create" =>
           print.rule \in Rules /\ (~guess => expected <= rule[print.rule].version)
  PROVE  RulesInv'
<1> DEFINE t == [Idle EXCEPT !.at = IF key = NoKey THEN "work" ELSE "lookup",
                             !.print = print, !.key = key,
                             !.expected = expected, !.guess = guess]
<1>1. t \in TxType
  BY IdleIsTx DEF Idle, TxType
<1>2. /\ t.at \in {"lookup", "work"} /\ (t.at = "lookup" => t.key # NoKey)
      /\ t.print = print /\ t.expected = expected /\ t.guess = guess
      /\ t.before = Absent /\ t.answer = "none"
  BY DEF Idle
<1>3. Becomes(a, t) /\ UNCHANGED <<rule, audit, keys>>
  BY DEF Request
<1> HIDE DEF t
<1> QED BY <1>1, <1>2, <1>3, ReadStep

LEMMA AskStep ==
  ASSUME RulesInv, NEW a \in Attempts, Ask(a)
  PROVE  RulesInv'
<1>1. PICK key \in Keys \cup {NoKey} :
        \/ \E terms \in Terms : Post(a, key, terms)
        \/ \E r \in Rules, version \in 0..(MaxVersion - 1) :
             \/ \E terms \in Terms : Patch(a, key, r, version, terms)
             \/ Delete(a, key, r, version)
  BY DEF Ask
<1>2. ASSUME NEW terms \in Terms, Post(a, key, terms) PROVE RulesInv'
  <2> DEFINE print == [op |-> "create", rule |-> NoRule, terms |-> terms]
  <2>1. print \in Prints /\ print.op = "create" /\ print.rule = NoRule
    BY DEF Prints
  <2>2. Request(a, print, key, 0, FALSE)
    BY <1>2 DEF Post
  <2> HIDE DEF print
  <2> QED BY <2>1, <2>2, RequestStep
<1>3. ASSUME NEW r \in Rules, NEW version \in 0..(MaxVersion - 1)
      PROVE  /\ version \in Nat /\ (version > rule[r].version) \in BOOLEAN
             /\ ~(version > rule[r].version) => version <= rule[r].version
  BY RulesAssumption DEF RulesInv, TypeOK, RuleRows
<1>4. ASSUME NEW r \in Rules, NEW version \in 0..(MaxVersion - 1), NEW terms \in Terms,
             Patch(a, key, r, version, terms)
      PROVE RulesInv'
  <2> DEFINE print == [op |-> "update", rule |-> r, terms |-> terms]
             guess == version > rule[r].version
  <2>1. print \in Prints /\ print.op = "update" /\ print.rule = r
    BY DEF Prints
  <2>2. Request(a, print, key, version, guess)
    BY <1>4 DEF Patch
  <2>3. /\ version \in Nat /\ guess \in BOOLEAN
        /\ ~guess => version <= rule[r].version
    BY <1>3
  <2> HIDE DEF print, guess
  <2> QED BY <2>1, <2>2, <2>3, RequestStep
<1>5. ASSUME NEW r \in Rules, NEW version \in 0..(MaxVersion - 1),
             Delete(a, key, r, version)
      PROVE RulesInv'
  <2> DEFINE print == [op |-> "deactivate", rule |-> r, terms |-> NoTerms]
             guess == version > rule[r].version
  <2>1. print \in Prints /\ print.op = "deactivate" /\ print.rule = r
    BY DEF Prints
  <2>2. Request(a, print, key, version, guess)
    BY <1>5 DEF Delete
  <2>3. /\ version \in Nat /\ guess \in BOOLEAN
        /\ ~guess => version <= rule[r].version
    BY <1>3
  <2> HIDE DEF print, guess
  <2> QED BY <2>1, <2>2, <2>3, RequestStep
<1> QED BY <1>1, <1>2, <1>4, <1>5

LEMMA FindStoredStep ==
  ASSUME RulesInv, NEW a \in Attempts, FindStored(a)
  PROVE  RulesInv'
<1> DEFINE stored == keys[tx[a].key]
<1>1. /\ tx[a] \in TxType /\ AttemptInv(a) /\ tx[a].at = "lookup"
      /\ tx[a].key \in Keys /\ stored \in Stored /\ KeyInv(tx[a].key)
  BY DEF FindStored, RulesInv, TypeOK, AttemptInv, TxType
<1>2. CASE ~stored.used /\ Becomes(a, [tx[a] EXCEPT !.at = "work"])
  <2> DEFINE t == [tx[a] EXCEPT !.at = "work"]
  <2>1. /\ t \in TxType /\ t.at = "work" /\ t.answer = tx[a].answer
        /\ t.print = tx[a].print /\ t.expected = tx[a].expected
        /\ t.before = tx[a].before /\ t.guess = tx[a].guess
    BY <1>1 DEF TxType
  <2>2. Becomes(a, t) /\ UNCHANGED <<rule, audit, keys>>
    BY <1>2 DEF FindStored
  <2> HIDE DEF t
  <2> QED BY <1>1, <2>1, <2>2, ReadStep DEF AttemptInv
<1>3. CASE stored.used /\ stored.print = tx[a].print /\ Replay(a, stored)
  <2> DEFINE t == [tx[a] EXCEPT !.at = "answered", !.lock = stored.rule,
                                !.new = stored.response, !.answer = "ok"]
  <2>1. /\ t \in TxType /\ t.at = "answered" /\ t.answer = "ok"
        /\ t.print = tx[a].print /\ t.key = tx[a].key
        /\ t.lock = stored.rule /\ t.new = stored.response
    BY <1>1 DEF TxType, Stored
  <2>2. Becomes(a, t) /\ UNCHANGED <<rule, audit, keys>>
    BY <1>3 DEF FindStored, Replay
  <2> HIDE DEF t
  <2>3. tx'[a] = t
    BY <2>2 DEF Becomes, RulesInv, TypeOK
  <2>4. AttemptInv(a)'
    BY <2>1, <2>3 DEF AttemptInv, Writing
  <2>5. \E x \in audit : /\ x.print = t.print /\ x.key = t.key
                         /\ x.rule = t.lock /\ x.new = t.new
    BY <1>1, <1>3, <2>1 DEF KeyInv
  <2> QED BY <2>1, <2>2, <2>4, <2>5, LocalStep
<1>4. CASE Refuse(a)
  BY <1>4, RefuseStep DEF FindStored
<1> QED BY <1>2, <1>3, <1>4 DEF FindStored

LEMMA CheckNoActiveStep ==
  ASSUME RulesInv, NEW a \in Attempts, CheckNoActive(a)
  PROVE  RulesInv'
<1>1. CASE SomeActive
  BY <1>1, RefuseStep DEF CheckNoActive
<1>2. CASE ~SomeActive
  <2> DEFINE t == [tx[a] EXCEPT !.at = "write"]
  <2>1. tx[a] \in TxType /\ AttemptInv(a) /\ tx[a].at = "work" /\ tx[a].print.op = "create"
    BY DEF CheckNoActive, RulesInv, TypeOK
  <2>2. /\ t \in TxType /\ t.at = "write" /\ t.answer = tx[a].answer
        /\ t.print = tx[a].print /\ t.before = tx[a].before
        /\ t.guess = tx[a].guess
    BY <2>1 DEF TxType
  <2>3. Becomes(a, t) /\ UNCHANGED <<rule, audit, keys>>
    BY <1>2 DEF CheckNoActive
  <2> HIDE DEF t
  <2> QED BY <2>1, <2>2, <2>3, ReadStep DEF AttemptInv
<1> QED BY <1>1, <1>2

LEMMA LoadBeforeStep ==
  ASSUME RulesInv, NEW a \in Attempts, LoadBefore(a)
  PROVE  RulesInv'
<1> DEFINE now == rule[tx[a].print.rule]
           t == [tx[a] EXCEPT !.at = "write", !.before = now]
<1>1. tx[a] \in TxType /\ AttemptInv(a) /\ tx[a].at = "work" /\ tx[a].print.op # "create"
  BY DEF LoadBefore, RulesInv, TypeOK
<1>2. CASE now = Absent
  BY <1>2, RefuseStep DEF LoadBefore
<1>3. CASE now # Absent
  <2>1. now \in RuleRows
    BY <1>1 DEF AttemptInv, RulesInv, TypeOK
  <2>2. /\ t \in TxType /\ t.at = "write" /\ t.answer = tx[a].answer
        /\ t.print = tx[a].print /\ t.expected = tx[a].expected /\ t.before = now
        /\ t.guess = tx[a].guess
    BY <1>1, <2>1 DEF TxType
  <2>3. Becomes(a, t) /\ UNCHANGED <<rule, audit, keys>>
    BY <1>3 DEF LoadBefore
  <2> HIDE DEF t
  <2> QED BY <1>1, <1>3, <2>2, <2>3, ReadStep DEF AttemptInv
<1> QED BY <1>2, <1>3

\* A write takes the row, as the attempt has read it if it was no guess, and from
\* then on the attempt holds it.
LEMMA WroteStep ==
  ASSUME RulesInv, NEW a \in Attempts, NEW r \in Rules, NEW new \in RuleRows,
         tx[a].at = "write", Wrote(a, r, new), UNCHANGED <<rule, audit, keys>>,
         ~RowBusy(a, r), ~tx[a].guess => tx[a].before = rule[r],
         tx[a].guess => \E x \in audit : x.rule = r /\ x.new = tx[a].before,
         new.version = rule[r].version + 1,
         tx[a].print.op # "create" /\ new.active => rule[r].active,
         tx[a].print.op = "create" =>
           rule[r] = Absent /\ new.active /\ ~SomeActive /\ ~IndexBusy(a)
  PROVE  RulesInv'
<1> DEFINE t == [tx[a] EXCEPT !.at = IF tx[a].key = NoKey THEN "commit" ELSE "store",
                              !.lock = r, !.new = new]
<1>1. tx[a] \in TxType /\ AttemptInv(a)
  BY DEF RulesInv, TypeOK
<1>2. /\ t \in TxType /\ t.at \in {"store", "commit"}
      /\ t.at = "commit" <=> t.key = NoKey
      /\ t.print = tx[a].print /\ t.key = tx[a].key /\ t.expected = tx[a].expected
      /\ t.before = tx[a].before /\ t.lock = r /\ t.new = new
      /\ t.guess = tx[a].guess /\ t.answer = tx[a].answer
  BY <1>1 DEF TxType
<1>3. Becomes(a, t)
  BY DEF Wrote
<1> HIDE DEF t
<1>4. /\ tx'[a] = t
      /\ \A b \in Attempts \ {a} : tx'[b] = tx[b]
  BY <1>3 DEF Becomes, RulesInv, TypeOK
<1>5. /\ Writing' \ {a} = Writing \ {a}
      /\ SomeActive' <=> SomeActive
  BY <1>4 DEF Writing, SomeActive
<1>6. \A b \in Writing \ {a} : tx[b].lock # r
  BY DEF RowBusy
<1>7. ~RowBusy(a, r)' /\ (IndexBusy(a)' <=> IndexBusy(a))
  BY <1>4, <1>5, <1>6 DEF RowBusy, IndexBusy, Writing
<1>8. ASSUME NEW b \in Writing \ {a}, tx[b].print.op = "create"
      PROVE ~rule[t.lock].active /\ ~t.new.active
  <2>1. AttemptInv(b) /\ b \in Writing
    BY <1>8 DEF RulesInv, Writing
  <2>2. ~SomeActive /\ tx[b].new.active
    BY <1>8, <2>1 DEF AttemptInv, HoldsInv
  <2>3. tx[a].print.op # "create"
    BY <2>2, <1>8 DEF IndexBusy
  <2>4. ~rule[r].active
    BY <2>2 DEF SomeActive
  <2> QED BY <1>2, <2>3, <2>4
<1>9. HoldsInv(a)'
  BY <1>2, <1>4, <1>5, <1>7 DEF HoldsInv
<1>10. t.answer # "ok" /\ AttemptInv(a)'
  BY <1>1, <1>2, <1>4, <1>9 DEF AttemptInv
<1> QED BY <1>2, <1>3, <1>6, <1>8, <1>9, <1>10, LocalStep

LEMMA InsertStep ==
  ASSUME RulesInv, NEW a \in Attempts, Insert(a)
  PROVE  RulesInv'
<1>1. /\ tx[a] \in TxType /\ AttemptInv(a)
      /\ tx[a].at = "write" /\ tx[a].print.op = "create" /\ ~IndexBusy(a)
  BY DEF Insert, RulesInv, TypeOK
<1>2. CASE SomeActive
  BY <1>2, RefuseStep DEF Insert
<1>3. CASE ~SomeActive
  <2> DEFINE new == [version |-> 1, active |-> TRUE, terms |-> tx[a].print.terms]
  <2>1. PICK r \in Rules : rule[r] = Absent /\ ~RowBusy(a, r) /\ Wrote(a, r, new)
    BY <1>3 DEF Insert
  <2>2. new \in RuleRows /\ new.version = 1 /\ new.active
    BY <1>1 DEF RuleRows, TxType, Prints
  <2>3. tx[a].before = Absent /\ Absent.version = 0 /\ ~tx[a].guess
    BY <1>1 DEF AttemptInv, Absent
  <2> HIDE DEF new
  <2> QED BY <1>1, <1>3, <2>1, <2>2, <2>3, WroteStep DEF Insert
<1> QED BY <1>2, <1>3

LEMMA UpdateWhereStep ==
  ASSUME RulesInv, NEW a \in Attempts, UpdateWhere(a)
  PROVE  RulesInv'
<1> DEFINE r == tx[a].print.rule
           new == Updated(rule[r], tx[a].print)
<1>1. /\ tx[a] \in TxType /\ AttemptInv(a)
      /\ tx[a].at = "write" /\ tx[a].print.op # "create"
  BY DEF UpdateWhere, RulesInv, TypeOK
<1>2. r \in Rules /\ rule[r] \in RuleRows
  BY <1>1 DEF AttemptInv, RulesInv, TypeOK
<1>3. CASE Matches(a) /\ ~RowBusy(a, r) /\ Update(a)
  <2>1. /\ rule[r].version = tx[a].expected /\ Wrote(a, r, new) /\ ReadInv(a)
        /\ ~RowBusy(a, r)
    BY <1>1, <1>3 DEF Matches, Update, AttemptInv
  <2>2. /\ ~tx[a].guess => tx[a].before = rule[r]
        /\ \E x \in audit : x.rule = r /\ x.new = tx[a].before
    <3>1. rule[r].version \in Nat /\ tx[a].before.version \in Nat
      BY <1>1, <1>2 DEF RuleRows, TxType
    <3> QED BY <2>1, <3>1 DEF ReadInv
  <2>3. /\ new \in RuleRows /\ new.version = rule[r].version + 1
        /\ new.active => rule[r].active
    BY <1>1, <1>2 DEF Updated, RuleRows, TxType, Prints
  <2> HIDE DEF new
  <2>4. UNCHANGED <<rule, audit, keys>>
    BY DEF UpdateWhere
  <2> QED BY <1>1, <1>2, <2>1, <2>2, <2>3, <2>4, WroteStep
<1>4. CASE Refuse(a)
  BY <1>4, RefuseStep DEF UpdateWhere
<1> QED BY <1>3, <1>4 DEF UpdateWhere

LEMMA StoreStep ==
  ASSUME RulesInv, NEW a \in Attempts, Store(a)
  PROVE  RulesInv'
<1>1. CASE keys[tx[a].key].used
  BY <1>1, RefuseStep DEF Store
<1>2. CASE ~keys[tx[a].key].used
  <2> DEFINE t == [tx[a] EXCEPT !.at = "commit"]
  <2>1. /\ tx[a] \in TxType /\ AttemptInv(a)
        /\ tx[a].at = "store" /\ a \in Writing /\ ~KeyBusy(a)
    BY DEF Store, RulesInv, TypeOK, Writing
  <2>2. /\ t \in TxType /\ t.at = "commit" /\ t.print = tx[a].print
        /\ t.key = tx[a].key /\ t.expected = tx[a].expected
        /\ t.before = tx[a].before /\ t.lock = tx[a].lock
        /\ t.new = tx[a].new /\ t.answer = tx[a].answer /\ t.guess = tx[a].guess
    BY <2>1 DEF TxType
  <2>3. Becomes(a, t) /\ UNCHANGED <<rule, audit, keys>>
    BY <1>2 DEF Store
  <2> HIDE DEF t
  <2>4. /\ tx'[a] = t
        /\ \A b \in Attempts \ {a} : tx'[b] = tx[b]
    BY <2>3 DEF Becomes, RulesInv, TypeOK
  <2>5. Writing' = Writing /\ (SomeActive' <=> SomeActive)
    BY <2>1, <2>2, <2>3, <2>4 DEF Writing, SomeActive
  <2>6. /\ RowBusy(a, tx[a].lock)' <=> RowBusy(a, tx[a].lock)
        /\ IndexBusy(a)' <=> IndexBusy(a)
    BY <2>2, <2>3, <2>4, <2>5 DEF RowBusy, IndexBusy, Writing
  <2>7. KeyBusy(a)' <=> KeyBusy(a)
    BY <2>2, <2>4 DEF KeyBusy
  <2>8. ASSUME NEW b \in Writing \ {a}
        PROVE /\ tx[b].lock # t.lock
              /\ tx[b].print.op = "create" => ~rule[t.lock].active /\ ~t.new.active
    <3>1. AttemptInv(b) /\ b \in Writing
      BY <2>8 DEF RulesInv, Writing
    <3>2. tx[b].lock # t.lock
      BY <2>1, <2>2, <2>8 DEF AttemptInv, HoldsInv, RowBusy
    <3>3. ASSUME tx[b].print.op = "create" PROVE ~rule[t.lock].active /\ ~t.new.active
      <4>1. ~IndexBusy(b)
        BY <3>1, <3>3 DEF AttemptInv, HoldsInv
      <4> QED BY <2>1, <2>2, <2>8, <4>1 DEF IndexBusy
    <3> QED BY <3>2, <3>3
  <2>9. \A b \in Attempts \ {a} : tx[b].at = "commit" => tx[b].key # t.key
    BY <2>1, <2>2 DEF KeyBusy
  <2>12. HoldsInv(a)'
    BY <2>1, <2>2, <2>3, <2>4, <2>5, <2>6 DEF AttemptInv, HoldsInv
  <2>10. AttemptInv(a)'
    BY <1>2, <2>1, <2>2, <2>3, <2>4, <2>5, <2>7, <2>12 DEF AttemptInv
  <2>11. t.answer # "ok"
    BY <2>1, <2>2 DEF AttemptInv
  <2> QED BY <2>2, <2>3, <2>8, <2>9, <2>10, <2>11, LocalStep
<1> QED BY <1>1, <1>2

\* A commit: the rule, its entry and the response of its key at once.
LEMMA CommitStep ==
  ASSUME RulesInv, NEW a \in Attempts, Commit(a)
  PROVE  RulesInv' /\ History!Change
<1> DEFINE t == tx[a]
           r == t.lock
           e == Entry(t)
           done == [t EXCEPT !.at = "answered", !.answer = "ok"]
<1>1. /\ t \in TxType /\ AttemptInv(a) /\ t.at = "commit" /\ a \in Writing
      /\ HoldsInv(a) /\ r \in Rules
  BY DEF Commit, RulesInv, TypeOK, Writing, AttemptInv, HoldsInv
<1>2. /\ e \in Entries /\ e.rule = r /\ e.old = t.before /\ e.new = t.new
      /\ e.print = t.print /\ e.key = t.key /\ e.guess = t.guess
  BY <1>1 DEF Entry, Entries, TxType
<1>3. /\ done \in TxType /\ done.at = "answered" /\ done.answer = "ok"
      /\ done.print = t.print /\ done.key = t.key
      /\ done.lock = r /\ done.new = t.new
  BY <1>1 DEF TxType
<1>4. Becomes(a, done) /\ audit' = audit \cup {e}
  BY DEF Commit
<1> HIDE DEF done, e
<1>5. /\ tx'[a] = done
      /\ \A b \in Attempts \ {a} : tx'[b] = tx[b]
      /\ tx' \in [Attempts -> TxType]
  BY <1>3, <1>4 DEF Becomes, RulesInv, TypeOK
<1>6. /\ rule' \in [Rules -> RuleRows] /\ rule'[r] = t.new
      /\ \A s \in Rules \ {r} : rule'[s] = rule[s]
  BY <1>1 DEF Commit, RulesInv, TypeOK, TxType
<1>7. /\ t.new.version = rule[r].version + 1 /\ rule[r].version \in Nat
      /\ \/ t.before = rule[r]
         \/ t.guess /\ \E x \in audit : x.rule = r /\ x.new = t.before
  <2>1. rule[r].version \in Nat
    BY <1>1 DEF RulesInv, TypeOK, RuleRows
  <2>2. /\ t.new.version = rule[r].version + 1
        /\ ~t.guess => t.before = rule[r]
        /\ t.guess => \E x \in audit : x.rule = r /\ x.new = t.before
    BY <1>1 DEF HoldsInv
  <2>3. CASE t.guess
    BY <2>1, <2>2, <2>3
  <2>4. CASE ~t.guess
    BY <2>1, <2>2, <2>4
  <2> QED BY <2>3, <2>4
<1> DEFINE stored == [used |-> TRUE, print |-> t.print, rule |-> r, response |-> t.new]
<1>8. stored \in Stored
  BY <1>1 DEF Stored, TxType
<1>9. /\ stored.used /\ stored.print = t.print
      /\ stored.rule = r /\ stored.response = t.new
  OBVIOUS
<1>10. keys' = IF t.key = NoKey THEN keys ELSE [keys EXCEPT ![t.key] = stored]
  BY DEF Commit
<1> HIDE DEF stored
<1>11. /\ keys' \in [Keys -> Stored]
       /\ t.key # NoKey => t.key \in Keys /\ keys'[t.key] = stored
       /\ \A k \in Keys \ {t.key} : keys'[k] = keys[k]
  BY <1>1, <1>8, <1>10, RulesAssumption DEF RulesInv, TypeOK, TxType
<1>12. t.key # NoKey => \A x \in audit : x.key # t.key
  BY <1>1, <1>11 DEF AttemptInv, RulesInv, KeyInv
<1>13. TypeOK'
  BY <1>2, <1>4, <1>5, <1>6, <1>11 DEF RulesInv, TypeOK
<1>14. OneActiveRule'
  <2> SUFFICES ASSUME NEW s \in Rules, s # r, rule[s].active, t.new.active PROVE FALSE
    BY <1>1, <1>6 DEF RulesInv, OneActiveRule, History!AtMostOneActive
  <2>1. CASE t.print.op = "create"
    BY <1>1, <2>1 DEF HoldsInv, SomeActive
  <2>2. CASE t.print.op # "create"
    <3>1. rule[r].active
      BY <1>1, <2>2 DEF HoldsInv
    <3> QED BY <1>1, <3>1 DEF RulesInv, OneActiveRule, History!AtMostOneActive
  <2> QED BY <2>1, <2>2
<1>15. OncePerKey'
  BY <1>2, <1>4, <1>12 DEF RulesInv, OncePerKey
<1>16. AnswerIsTrue'
  <2> SUFFICES ASSUME NEW b \in Attempts, tx'[b].answer = "ok"
               PROVE \E x \in audit' :
                       /\ x.print = tx'[b].print /\ x.key = tx'[b].key
                       /\ x.rule = tx'[b].lock /\ x.new = tx'[b].new
    BY DEF AnswerIsTrue
  <2>1. CASE b = a
    BY <1>2, <1>3, <1>4, <1>5, <2>1
  <2>2. CASE b # a
    BY <1>4, <1>5, <2>2 DEF RulesInv, AnswerIsTrue
  <2> QED BY <2>1, <2>2
<1>17. ASSUME NEW k \in Keys PROVE KeyInv(k)'
  <2>1. KeyInv(k)
    BY DEF RulesInv
  <2>2. CASE k = t.key
    <3>1. keys'[k] = stored
      BY <1>11, <2>2, RulesAssumption
    <3> QED BY <1>2, <1>4, <1>9, <2>2, <3>1 DEF KeyInv
  <2>3. CASE k # t.key
    <3>1. keys'[k] = keys[k]
      BY <1>11, <2>3
    <3> QED BY <1>2, <1>4, <2>1, <2>3, <3>1 DEF KeyInv
  <2> QED BY <2>2, <2>3
<1>18. AttemptInv(a)'
  BY <1>3, <1>5 DEF AttemptInv, Writing
<1>19. ASSUME NEW b \in Attempts \ {a} PROVE AttemptInv(b)'
  <2>1. tx'[b] = tx[b] /\ AttemptInv(b) /\ tx[b] \in TxType
    BY <1>5 DEF RulesInv, TypeOK
  <2>2. Writing' = Writing \ {a} /\ Writing \subseteq Attempts
    BY <1>3, <1>5 DEF Writing
  <2>3. \A s \in Rules : /\ rule[s].version \in Nat /\ rule'[s].version \in Nat
                         /\ rule[s].version <= rule'[s].version
                         /\ rule[s].version = rule'[s].version => rule'[s] = rule[s]
    BY <1>6, <1>7 DEF RulesInv, TypeOK, RuleRows
  <2>4. ASSUME tx[b].at = "write", tx[b].print.op # "create"
        PROVE ReadInv(b)'
    <3>1. tx[b].print.rule \in Rules /\ tx[b].expected \in Nat
          /\ tx[b].before.version \in Nat
      BY <2>1, <2>4 DEF AttemptInv, TxType, RuleRows
    <3>2. ReadInv(b)
      BY <2>1, <2>4 DEF AttemptInv
    <3> DEFINE s == tx[b].print.rule
    <3>3. /\ rule[s].version \in Nat /\ rule'[s].version \in Nat
          /\ rule[s].version <= rule'[s].version
          /\ rule[s].version = rule'[s].version => rule'[s] = rule[s]
      BY <2>3, <3>1
    <3>4. tx[b].before.version <= rule'[s].version
      BY <3>1, <3>2, <3>3 DEF ReadInv
    <3>5. tx[b].before.version = rule'[s].version => tx[b].before = rule'[s]
      BY <3>1, <3>2, <3>3 DEF ReadInv
    <3>6. \E x \in audit' : x.rule = s /\ x.new = tx[b].before
      BY <1>4, <3>2 DEF ReadInv
    <3> QED BY <2>1, <3>2, <3>4, <3>5, <3>6 DEF ReadInv
  <2>5. ASSUME b \in Writing
        PROVE rule'[tx[b].lock] = rule[tx[b].lock] /\ ~RowBusy(b, tx[b].lock)'
    <3>1. tx[b].lock \in Rules /\ ~RowBusy(b, tx[b].lock)
      BY <2>1, <2>5 DEF AttemptInv, HoldsInv
    <3>2. tx[b].lock # r
      BY <1>1, <3>1 DEF RowBusy
    <3> QED BY <1>5, <1>6, <2>1, <2>2, <3>1, <3>2 DEF RowBusy
  <2>6. ASSUME b \in Writing, tx[b].print.op = "create"
        PROVE ~SomeActive' /\ ~IndexBusy(b)'
    <3>1. ~SomeActive /\ ~IndexBusy(b)
      BY <2>1, <2>6 DEF AttemptInv, HoldsInv
    <3>2. ~t.new.active
      BY <1>1, <3>1 DEF IndexBusy
    <3>3. ~SomeActive'
      BY <1>6, <3>1, <3>2 DEF SomeActive
    <3>4. ASSUME NEW c \in Writing' \ {b}
          PROVE ~rule'[tx'[c].lock].active /\ ~tx'[c].new.active
      <4>1. c \in Writing \ {a, b} /\ tx'[c] = tx[c] /\ AttemptInv(c)
        BY <1>5, <2>2, <3>4 DEF RulesInv
      <4>2. tx[c].lock \in Rules /\ ~tx[c].new.active
        BY <3>1, <4>1 DEF IndexBusy, AttemptInv, HoldsInv
      <4> QED BY <3>3, <4>1, <4>2 DEF SomeActive
    <3> QED BY <3>3, <3>4 DEF IndexBusy
  <2>7. ASSUME tx[b].at = "commit", tx[b].key # NoKey
        PROVE ~keys'[tx[b].key].used /\ ~KeyBusy(b)'
    <3>1. ~keys[tx[b].key].used /\ ~KeyBusy(b) /\ tx[b].key \in Keys
      BY <2>1, <2>7 DEF AttemptInv, TxType
    <3>2. tx[b].key # t.key
      BY <1>1, <3>1 DEF KeyBusy
    <3>3. keys'[tx[b].key] = keys[tx[b].key]
      BY <1>11, <3>1, <3>2
    <3>4. ~KeyBusy(b)'
      BY <1>3, <1>5, <3>1 DEF KeyBusy
    <3> QED BY <3>1, <3>3, <3>4
  <2>8. tx[b].print.rule \in Rules =>
          \A n \in Nat : n <= rule[tx[b].print.rule].version
                           => n <= rule'[tx[b].print.rule].version
    BY <2>3
  <2>9. b \in Writing' <=> b \in Writing
    BY <2>2
  <2>10. ASSUME b \in Writing PROVE HoldsInv(b)'
    <3>1. HoldsInv(b)
      BY <2>1, <2>10 DEF AttemptInv
    <3>2. tx[b].guess => \E x \in audit' : x.rule = tx[b].lock /\ x.new = tx[b].before
      BY <1>4, <3>1 DEF HoldsInv
    <3> QED BY <2>1, <2>5, <2>6, <2>10, <3>1, <3>2 DEF HoldsInv
  <2>11. tx[b].expected \in Nat
    BY <2>1 DEF TxType
  <2> QED BY <2>1, <2>4, <2>7, <2>8, <2>9, <2>10, <2>11 DEF AttemptInv
<1>20. History!Change
  <2>1. rule' = [rule EXCEPT ![e.rule] = e.new]
    BY <1>2 DEF Commit
  <2>2. /\ e.rule \in Rules /\ e.new.version = rule[e.rule].version + 1
        /\ \/ e.old = rule[e.rule]
           \/ e.guess /\ \E x \in audit : x.rule = e.rule /\ x.new = e.old
        /\ e.key # NoKey => \A x \in audit : x.key # e.key
    BY <1>1, <1>2, <1>7, <1>12
  <2> QED BY <1>4, <1>14, <2>1, <2>2 DEF History!Change, OneActiveRule
<1>21. ASSUME NEW s \in Rules, rule'[s] # Absent
       PROVE  \E x \in audit' : x.rule = s /\ x.new = rule'[s]
  BY <1>2, <1>4, <1>6, <1>21 DEF RulesInv
<1> QED BY <1>13, <1>14, <1>15, <1>16, <1>17, <1>18, <1>19, <1>20, <1>21 DEF RulesInv

LEMMA EndStep ==
  ASSUME RulesInv, NEW a \in Attempts, Abort(a) \/ Finish(a)
  PROVE  RulesInv'
<1>1. Idle.at = "idle" /\ Idle.answer = "none"
  BY DEF Idle
<1> QED BY <1>1, IdleIsTx, RestStep DEF Abort, Finish

-----------------------------------------------------------------------------
LEMMA RulesStep ==
  ASSUME RulesInv, [Next]_vars
  PROVE  RulesInv' /\ [History!Change]_<<rule, audit>>
<1>1. CASE Next
  <2>1. PICK a \in Attempts : Ask(a) \/ Serve(a) \/ Abort(a) \/ Finish(a)
    BY <1>1 DEF Next
  <2>2. CASE Ask(a)
    BY <2>2, AskStep DEF Ask, Post, Patch, Delete, Request
  <2>3. CASE FindStored(a) \/ CheckNoActive(a) \/ LoadBefore(a)
    <3>1. RulesInv'
      BY <2>3, FindStoredStep, CheckNoActiveStep, LoadBeforeStep
    <3> QED BY <2>3, <3>1 DEF FindStored, CheckNoActive, LoadBefore
  <2>4. CASE Insert(a) \/ UpdateWhere(a) \/ Store(a)
    <3>1. RulesInv'
      BY <2>4, InsertStep, UpdateWhereStep, StoreStep
    <3> QED BY <2>4, <3>1 DEF Insert, UpdateWhere, Store
  <2>5. CASE Commit(a)
    BY <2>5, CommitStep
  <2>6. CASE Abort(a) \/ Finish(a)
    BY <2>6, EndStep DEF Abort, Finish
  <2> QED BY <2>1, <2>2, <2>3, <2>4, <2>5, <2>6 DEF Serve
<1>2. CASE UNCHANGED vars
  <2>1. /\ rule' = rule /\ audit' = audit /\ keys' = keys /\ tx' = tx
    BY <1>2 DEF vars
  <2>2. TypeOK' /\ OneActiveRule' /\ OncePerKey' /\ AnswerIsTrue'
    BY <2>1 DEF RulesInv, TypeOK, OneActiveRule, History!AtMostOneActive,
                OncePerKey, AnswerIsTrue
  <2>3. /\ \A k \in Keys : KeyInv(k)'
        /\ \A r \in Rules : rule'[r] # Absent =>
             \E x \in audit' : x.rule = r /\ x.new = rule'[r]
    BY <2>1 DEF RulesInv, KeyInv
  <2>4. Writing' = Writing /\ (SomeActive' <=> SomeActive)
    BY <2>1 DEF Writing, SomeActive
  <2>5. \A a \in Attempts : AttemptInv(a)'
    BY <2>1, <2>4 DEF RulesInv, AttemptInv, HoldsInv, ReadInv, RowBusy, IndexBusy, KeyBusy
  <2> QED BY <2>1, <2>2, <2>3, <2>5 DEF RulesInv
<1> QED BY <1>1, <1>2

LEMMA RulesStart == Init => RulesInv /\ History!Init
<1> SUFFICES ASSUME Init PROVE RulesInv /\ History!Init
  OBVIOUS
<1>1. History!Init
  BY DEF Init, History!Init, Absent, History!Absent
<1>2. TypeOK
  BY IdleIsTx DEF Init, TypeOK
<1>3. ~Absent.active /\ Idle.at = "idle" /\ Idle.answer = "none" /\ ~NoStored.used
  BY DEF Absent, Idle, NoStored
<1>4. OneActiveRule /\ OncePerKey /\ AnswerIsTrue /\ \A k \in Keys : KeyInv(k)
  BY <1>3 DEF Init, OneActiveRule, History!AtMostOneActive, OncePerKey,
              AnswerIsTrue, KeyInv
<1>6. \A r \in Rules : rule[r] = Absent
  BY DEF Init
<1>5. \A a \in Attempts : AttemptInv(a)
  BY <1>3 DEF Init, AttemptInv, Writing
<1> QED BY <1>1, <1>2, <1>4, <1>5, <1>6 DEF RulesInv

-----------------------------------------------------------------------------
\* However requests, retries and failures interleave, the state is one in
\* which every commit is one change (run rules_retries checks it on a small instance).
THEOREM RulesInvariant == Spec => []RulesInv
<1>1. Init => RulesInv
  BY RulesStart
<1>2. RulesInv /\ [Next]_vars => RulesInv'
  BY RulesStep
<1> QED BY <1>1, <1>2, PTL DEF Spec

\* The transactions implement RuleHistory: a rule changes at one instant, with
\* its audit entry, once per key, and from what the entry calls the old value
\* unless the client has quoted a version that did not exist when it asked
\* (pricing_rule_service.ts:314 reads the rule before 319-335 locks it).
THEOREM RulesImplementHistory == Spec => ImplementsHistory
<1>1. Init => History!Init
  BY RulesStart
<1>2. RulesInv /\ [Next]_vars => [History!Change]_<<rule, audit>>
  BY RulesStep
<1> QED BY <1>1, <1>2, RulesInvariant, PTL DEF Spec, ImplementsHistory, History!Spec

\* uq_tenant_pricing_rules_active: a product never has two active rules.
THEOREM OneActive == Spec => []OneActiveRule
<1>1. RulesInv => OneActiveRule
  BY DEF RulesInv
<1> QED BY <1>1, RulesInvariant, PTL

\* idempotency_service.ts: a key is executed once, whatever overlaps.
THEOREM KeyExecutedOnce == Spec => []OncePerKey
<1>1. RulesInv => OncePerKey
  BY DEF RulesInv
<1> QED BY <1>1, RulesInvariant, PTL

\* A success that is reported, or replayed, is the change that was asked for.
THEOREM AnswersAreTrue == Spec => []AnswerIsTrue
<1>1. RulesInv => AnswerIsTrue
  BY DEF RulesInv
<1> QED BY <1>1, RulesInvariant, PTL

-----------------------------------------------------------------------------
(* What RuleHistory implies for the audit trail, carried over.             *)

\* What Explained says of one rule and its trail.
Explains(trail, row) ==
  /\ {x.new.version : x \in trail} = 1..row.version
  /\ \A x \in trail, y \in trail : x.new.version = y.new.version => x = y
  /\ \A x \in trail :
       \/ x.new.version = 1 /\ x.old = Absent
       \/ \E y \in trail :
            /\ y.new.version < x.new.version /\ x.old = y.new
            /\ ~x.guess => y.new.version = x.new.version - 1
  /\ row = Absent \/ \E x \in trail : x.new = row

LEMMA ExplainsEach ==
  History!Explained <=> \A r \in Rules : Explains({x \in audit : x.rule = r}, rule[r])
BY DEF History!Explained, Explains, History!Absent, Absent

LEMMA ExplainsIf ==
  ASSUME NEW trail, NEW row,
         {x.new.version : x \in trail} = 1..row.version,
         \A x \in trail, y \in trail : x.new.version = y.new.version => x = y,
         \A x \in trail :
           \/ x.new.version = 1 /\ x.old = Absent
           \/ \E y \in trail : /\ y.new.version < x.new.version /\ x.old = y.new
                               /\ ~x.guess => y.new.version = x.new.version - 1,
         \E x \in trail : x.new = row
  PROVE  Explains(trail, row)
BY DEF Explains

\* The next version of a rule, with an entry for it.
LEMMA NextVersion ==
  ASSUME NEW trail, NEW row \in RuleRows, Explains(trail, row), NEW e,
         e.new.version = row.version + 1,
         e.old = row \/ (e.guess /\ \E x \in trail : x.new = e.old)
  PROVE  Explains(trail \cup {e}, e.new)
<1> DEFINE now == trail \cup {e}
<1>1. row.version \in Nat
  BY DEF RuleRows
<1>2. \A x \in trail : x.new.version \in 1..row.version
  BY DEF Explains
<1>3. {x.new.version : x \in now} = 1..e.new.version
  <2>1. {x.new.version : x \in now} = {x.new.version : x \in trail} \cup {row.version + 1}
    OBVIOUS
  <2>2. {x.new.version : x \in trail} = 1..row.version
    BY DEF Explains
  <2>3. 1..e.new.version = (1..row.version) \cup {row.version + 1}
    BY <1>1
  <2> QED BY <2>1, <2>2, <2>3
<1>4. \A x \in now, y \in now : x.new.version = y.new.version => x = y
  BY <1>1, <1>2 DEF Explains
<1>5. \/ e.new.version = 1 /\ e.old = Absent
      \/ \E y \in trail : /\ y.new.version < e.new.version /\ e.old = y.new
                          /\ ~e.guess => y.new.version = e.new.version - 1
  <2>1. CASE e.old = row /\ row = Absent
    BY <2>1 DEF Absent
  <2>2. CASE e.old = row /\ row # Absent
    BY <1>1, <2>2 DEF Explains
  <2>3. CASE e.guess /\ \E x \in trail : x.new = e.old
    BY <1>1, <1>2, <2>3
  <2> QED BY <2>1, <2>2, <2>3
<1>6. \A x \in now :
        \/ x.new.version = 1 /\ x.old = Absent
        \/ \E y \in now : /\ y.new.version < x.new.version /\ x.old = y.new
                          /\ ~x.guess => y.new.version = x.new.version - 1
  BY <1>5 DEF Explains
<1>7. \E x \in now : x.new = e.new
  OBVIOUS
<1> HIDE DEF now
<1>8. Explains(now, e.new)
  BY <1>3, <1>4, <1>6, <1>7, ExplainsIf
<1> QED BY <1>8 DEF now

LEMMA ChangeKeepsExplained ==
  ASSUME TypeOK, History!Explained, [History!Change]_<<rule, audit>>
  PROVE  History!Explained'
<1>1. CASE UNCHANGED <<rule, audit>>
  BY <1>1 DEF History!Explained
<1>2. CASE History!Change
  <2>1. PICK e \in audit' :
          /\ audit' = audit \cup {e}
          /\ e.rule \in Rules
          /\ e.new.version = rule[e.rule].version + 1
          /\ \/ e.old = rule[e.rule]
             \/ e.guess /\ \E x \in audit : x.rule = e.rule /\ x.new = e.old
          /\ rule' = [rule EXCEPT ![e.rule] = e.new]
    BY <1>2 DEF History!Change
  <2>2. /\ rule'[e.rule] = e.new
        /\ \A r \in Rules \ {e.rule} : rule'[r] = rule[r]
    BY <2>1 DEF TypeOK
  <2>3. ASSUME NEW r \in Rules PROVE Explains({x \in audit' : x.rule = r}, rule'[r])
    <3> DEFINE trail == {x \in audit : x.rule = r}
               now == {x \in audit' : x.rule = r}
    <3>1. Explains(trail, rule[r]) /\ rule[r] \in RuleRows
      BY ExplainsEach DEF TypeOK
    <3>2. CASE r # e.rule
      <4>1. now = trail /\ rule'[r] = rule[r]
        BY <2>1, <2>2, <3>2
      <4> QED BY <3>1, <4>1
    <3>3. CASE r = e.rule
      <4>1. now = trail \cup {e} /\ rule'[r] = e.new
        BY <2>1, <2>2, <3>3
      <4>2. /\ e.new.version = rule[r].version + 1
            /\ e.old = rule[r] \/ (e.guess /\ \E x \in trail : x.new = e.old)
        BY <2>1, <3>3
      <4> HIDE DEF now, trail
      <4>3. Explains(trail \cup {e}, e.new)
        BY <3>1, <4>2, NextVersion
      <4> QED BY <4>1, <4>3 DEF now
    <3> QED BY <3>2, <3>3
  <2>4. (\A r \in Rules : Explains({x \in audit' : x.rule = r}, rule'[r]))
        => History!Explained'
    BY DEF History!Explained, Explains, History!Absent, Absent
  <2> QED BY <2>3, <2>4
<1> QED BY <1>1, <1>2

\* audit_service.ts:6: the audit trail explains every version of every rule: one
\* entry per version, each from what the one before it left, but for guesses.
THEOREM AuditExplains == Spec => []AuditExplainsRules
<1>1. Init => History!Explained
  BY DEF Init, History!Explained, History!Absent, Absent
<1>2. RulesInv /\ RulesInv' /\ [Next]_vars /\ History!Explained => History!Explained'
  BY RulesStep, ChangeKeepsExplained DEF RulesInv
<1>3. History!Explained => AuditExplainsRules
  BY DEF AuditExplainsRules
<1> QED BY <1>1, <1>2, <1>3, RulesInvariant, PTL DEF Spec
=============================================================================
