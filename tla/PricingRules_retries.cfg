SPECIFICATION Spec
CONSTANTS
  Attempts = {a1, a2, a3}
  Rules = {r1, r2}
  Keys = {k1}
  Terms = {t1, t2}
  NoRule = NoRule
  NoKey = NoKey
  NoTerms = NoTerms
  MaxVersion = 3
  MaxChanges = 2
INVARIANTS RulesInv AuditExplainsRules OncePerKey AnswerIsTrue
PROPERTY ImplementsHistory
SYMMETRY Symmetry
CHECK_DEADLOCK FALSE
