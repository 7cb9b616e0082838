----------------------------- MODULE RuleHistory -----------------------------
(***************************************************************************)
(* What the pricing-rule API promises to a shop that edits the rules of a  *)
(* product: each change happens at once, is numbered by the next version   *)
(* of its rule, is recorded in the audit trail exactly when it happens,    *)
(* and happens once per idempotency key.                                   *)
(***************************************************************************)
EXTENDS Integers

CONSTANTS Rules, NoKey, NoTerms

VARIABLES rule, audit

Absent == [version |-> 0, active |-> FALSE, terms |-> NoTerms]

Init ==
  /\ rule = [r \in Rules |-> Absent]
  /\ audit = {}

AtMostOneActive(state) ==
  \A r, s \in Rules : state[r].active /\ state[s].active => r = s

\* One rule becomes what the new audit entry says it became, as its next version
\* and from what the entry says it was; the entry of a client that has guessed
\* the version says what the rule was, then or at some time before.
Change ==
  /\ audit \subseteq audit'
  /\ \E e \in audit' :
       /\ audit' = audit \cup {e}
       /\ e.rule \in Rules
       /\ e.new.version = rule[e.rule].version + 1
       /\ \/ e.old = rule[e.rule]
          \/ e.guess /\ \E x \in audit : x.rule = e.rule /\ x.new = e.old
       /\ rule' = [rule EXCEPT ![e.rule] = e.new]
       /\ e.key # NoKey => \A x \in audit : x.key # e.key
  /\ AtMostOneActive(rule')

Spec == Init /\ [][Change]_<<rule, audit>>

\* The trail of a rule has one entry for each of its versions, and the last tells
\* what the rule is.  Each entry starts from what the one of the version before
\* it left, the first from nothing; that of a guess, from what some version
\* before it left.
Explained ==
  \A r \in Rules :
    LET trail == {x \in audit : x.rule = r} IN
    /\ {x.new.version : x \in trail} = 1..rule[r].version
    /\ \A x \in trail, y \in trail : x.new.version = y.new.version => x = y
    /\ \A x \in trail :
         \/ x.new.version = 1 /\ x.old = Absent
         \/ \E y \in trail :
              /\ y.new.version < x.new.version /\ x.old = y.new
              /\ ~x.guess => y.new.version = x.new.version - 1
    /\ rule[r] = Absent \/ \E x \in trail : x.new = rule[r]
=============================================================================
