---------------------------- MODULE PricingProofs ----------------------------
(***************************************************************************)
(* Theorems about Pricing, for all scales, units, purities, amounts,       *)
(* margins and settings: first what rounding does, then what the engine    *)
(* makes of it, then the row on the board.                                 *)
(***************************************************************************)
EXTENDS Pricing, TLAPS

-----------------------------------------------------------------------------
(* Division and rounding.                                                  *)

LEMMA Division ==
  ASSUME NEW n \in Nat, NEW d \in Nat \ {0}
  PROVE  /\ n \div d \in Nat /\ n % d \in Nat /\ n % d < d
         /\ n = (n \div d) * d + (n % d)
  OBVIOUS

LEMMA Quotient ==
  ASSUME NEW d \in Nat \ {0}, NEW q \in Nat, NEW r \in Nat, r < d
  PROVE  (q * d + r) \div d = q /\ (q * d + r) % d = r
  OBVIOUS

LEMMA QuotientInt ==
  ASSUME NEW d \in Nat \ {0}, NEW q \in Int
  PROVE  (q * d) \div d = q /\ (q * d) % d = 0
  OBVIOUS

LEMMA Truncation ==
  ASSUME NEW n \in Int, NEW d \in Nat \ {0}
  PROVE  /\ Truncated(n, d) \in Int
         /\ n >= 0 => Truncated(n, d) * d <= n /\ n < Truncated(n, d) * d + d
         /\ n < 0 => Truncated(n, d) * d - d < n /\ n <= Truncated(n, d) * d
         /\ n = 0 => Truncated(n, d) * d = 0
<1>1. CASE n >= 0
  BY <1>1, Division DEF Truncated
<1>2. CASE n < 0
  <2>1. -n \in Nat
    BY <1>2
  <2> DEFINE k == (-n) \div d
  <2>2. k \in Nat /\ k * d <= -n /\ -n < k * d + d
    BY <2>1, Division
  <2>3. Truncated(n, d) = -k
    BY <1>2 DEF Truncated
  <2>4. (-k) * d = -(k * d)
    BY <2>2
  <2> QED
    BY <1>2, <2>2, <2>3, <2>4
<1> QED
  BY <1>1, <1>2

\* The reference for a step of one, with r * d as one number, at.
Rounds(r, at, n, d, mode) ==
  /\ mode = "floor" => at <= n /\ n < at + d
  /\ mode = "ceil" => at - d < n /\ n <= at
  /\ mode \in {"half_up", "half_even"} =>
       2 * at - d <= 2 * n /\ 2 * n <= 2 * at + d
  /\ mode = "half_up" => /\ 2 * n = 2 * at + d => n < 0
                         /\ 2 * n = 2 * at - d => n > 0
  /\ mode = "half_even" /\ (2 * n = 2 * at + d \/ 2 * n = 2 * at - d) => r % 2 = 0

LEMMA Parity ==
  ASSUME NEW q \in Int, q % 2 # 0
  PROVE  (q + 1) % 2 = 0 /\ (q - 1) % 2 = 0
  OBVIOUS

\* Between the quotient q of truncation and its neighbour away from zero.
LEMMA Chosen ==
  ASSUME NEW n \in Int, NEW d \in Nat \ {0}, NEW mode \in Modes,
         NEW q \in Int, NEW at \in Int,
         n >= 0 => at <= n /\ n < at + d,
         n < 0 => at - d < n /\ n <= at,
         n = 0 => at = 0,
         NEW away \in Int, q % 2 # 0 => away % 2 = 0,
         NEW beyond \in Int, n >= 0 => beyond = at + d, n < 0 => beyond = at - d,
         NEW doubled \in Int,
         n >= 0 => doubled = 2 * (n - at), n < 0 => doubled = 2 * (at - n)
  PROVE  LET up == \/ mode = "ceil" /\ n > 0
                   \/ mode = "floor" /\ n < 0
                   \/ mode = "half_up" /\ doubled >= d
                   \/ mode = "half_even" /\ doubled > d
                   \/ mode = "half_even" /\ doubled = d /\ q % 2 # 0
         IN  /\ doubled # 0 /\ up => Rounds(away, beyond, n, d, mode)
             /\ ~(doubled # 0 /\ up) => Rounds(q, at, n, d, mode)
<1>1. CASE mode = "ceil"
  BY <1>1 DEF Rounds
<1>2. CASE mode = "floor"
  BY <1>2 DEF Rounds
<1>3. CASE mode = "half_up"
  BY <1>3 DEF Rounds
<1>4. CASE mode = "half_even"
  BY <1>4 DEF Rounds
<1> QED
  BY <1>1, <1>2, <1>3, <1>4 DEF Modes

LEMMA ResolveRounds ==
  ASSUME NEW n \in Int, NEW d \in Nat \ {0}, NEW mode \in Modes
  PROVE  /\ Resolve(n, d, mode) \in Int
         /\ Rounds(Resolve(n, d, mode), Resolve(n, d, mode) * d, n, d, mode)
<1> DEFINE q == Truncated(n, d)
           at == q * d
           away == IF n < 0 THEN q - 1 ELSE q + 1
           beyond == away * d
           doubled == 2 * Magnitude(n - at)
           up == \/ mode = "ceil" /\ n > 0
                 \/ mode = "floor" /\ n < 0
                 \/ mode = "half_up" /\ doubled >= d
                 \/ mode = "half_even" /\ doubled > d
                 \/ mode = "half_even" /\ doubled = d /\ q % 2 # 0
<1>1. /\ q \in Int /\ at \in Int
      /\ n >= 0 => at <= n /\ n < at + d
      /\ n < 0 => at - d < n /\ n <= at
      /\ n = 0 => at = 0
  BY Truncation
<1>2. /\ away \in Int /\ beyond \in Int
      /\ n >= 0 => beyond = at + d
      /\ n < 0 => beyond = at - d
  BY <1>1
<1>3. Resolve(n, d, mode) = IF doubled # 0 /\ up THEN away ELSE q
  BY DEF Resolve
<1>4. q % 2 # 0 => away % 2 = 0
  BY <1>1, Parity
<1>5. /\ doubled \in Int
      /\ n >= 0 => doubled = 2 * (n - at)
      /\ n < 0 => doubled = 2 * (at - n)
  BY <1>1 DEF Magnitude
<1>6. /\ doubled # 0 /\ up => Rounds(away, beyond, n, d, mode)
      /\ ~(doubled # 0 /\ up) => Rounds(q, at, n, d, mode)
  <2> HIDE DEF at, q, away, beyond, doubled
  <2> QED
    BY <1>1, <1>2, <1>4, <1>5, Chosen
<1> HIDE DEF q, up, away, doubled
<1> QED
  BY <1>1, <1>2, <1>3, <1>6

LEMMA PositiveProduct ==
  ASSUME NEW a \in Nat \ {0}, NEW b \in Nat \ {0} PROVE a * b \in Nat \ {0}
  OBVIOUS

LEMMA DivideIsResolve ==
  ASSUME NEW n \in Int, NEW d \in Nat \ {0}, NEW mode
  PROVE  DivideAndRound(n, d, mode) = Resolve(n, d, mode)
  BY DEF DivideAndRound

\* round_rational_to_step returns the multiple of the step that the mode means.
LEMMA StepRounds ==
  ASSUME NEW num \in Int, NEW den \in Nat \ {0}, NEW step \in Nat \ {0}, NEW mode \in Modes
  PROVE  /\ RoundRationalToStep(num, den, step, mode) \in Int
         /\ IsRounding(RoundRationalToStep(num, den, step, mode), num, den, step, mode)
<1> DEFINE d == den * step
           q == Resolve(num, d, mode)
           r == q * step
<1>1. d \in Nat \ {0}
  BY PositiveProduct
<1>2. RoundRationalToStep(num, den, step, mode) = r
  BY <1>1, DivideIsResolve DEF RoundRationalToStep
<1>3. q \in Int /\ r \in Int /\ Rounds(q, q * d, num, d, mode)
  BY <1>1, ResolveRounds
<1> DEFINE at == q * d
<1> HIDE DEF q
<1>4. /\ r % step = 0 /\ r \div step = q
  BY <1>3, QuotientInt
<1>5. /\ at \in Int
      /\ r * den = at
      /\ (r + step) * den = at + d
      /\ (r - step) * den = at - d
      /\ (2 * r - step) * den = 2 * at - d
      /\ (2 * r + step) * den = 2 * at + d
  BY <1>3
<1>6. Rounds(q, at, num, d, mode)
  BY <1>3
<1> HIDE DEF r, d, at
<1>7. IsRounding(r, num, den, step, mode)
  <2>1. mode \in {"floor", "ceil"} => IsRounding(r, num, den, step, mode)
    BY <1>1, <1>4, <1>5, <1>6 DEF IsRounding, Rounds
  <2>2. mode = "half_up" => IsRounding(r, num, den, step, mode)
    BY <1>1, <1>4, <1>5, <1>6 DEF IsRounding, Rounds
  <2>3. mode = "half_even" => IsRounding(r, num, den, step, mode)
    BY <1>1, <1>4, <1>5, <1>6 DEF IsRounding, Rounds
  <2> QED
    BY <2>1, <2>2, <2>3 DEF Modes
<1> QED
  BY <1>2, <1>3, <1>7

-----------------------------------------------------------------------------
(* The engine.                                                             *)

IsRational(x) == x.num \in Int /\ x.den \in Nat \ {0}

LEMMA RatioIsPositive ==
  ASSUME NEW p \in Products
  PROVE  LET ratio == PurityRatio(p.from, p.to, p.basis)
         IN  ratio.num \in Nat \ {0} /\ ratio.den \in Nat \ {0}
  BY PricingAssumption, PositiveProduct DEF PurityRatio, Rational

LEMMA Exact ==
  ASSUME NEW p \in Products, NEW mid \in Nat \ {0}, NEW r \in Rules
  PROVE  /\ IsRational(RawBase(p, mid)) /\ RawBase(p, mid).num > 0
         /\ IsRational(AdjustmentAmount(RawBase(p, mid), r))
         /\ IsRational(RawCustomer(p, mid, r))
<1> DEFINE base == RawBase(p, mid)
           margin == AdjustmentAmount(base, r)
<1>1. base.num \in Nat \ {0} /\ base.den \in Nat \ {0}
  BY RatioIsPositive, PositiveProduct DEF RawBase, Rational
<1> HIDE DEF base
<1>2. margin.num \in Int /\ margin.den \in Nat \ {0}
  <2>1. CASE r.kind = "absolute"
    BY <2>1 DEF AdjustmentAmount, Rational, Rules
  <2>2. CASE r.kind = "percentage"
    <3>1. base.den * BpsScale \in Nat \ {0}
      BY <1>1, PricingAssumption, PositiveProduct
    <3>2. r.bps \in Int
      BY PricingAssumption DEF Rules
    <3>3. base.num * r.bps \in Int
      BY <1>1, <3>2
    <3> QED
      BY <2>2, <3>1, <3>3 DEF AdjustmentAmount, Rational
  <2> QED
    BY <2>1, <2>2 DEF Rules
<1> HIDE DEF margin
<1>3. AddRational(base, margin).num \in Int /\ AddRational(base, margin).den \in Nat \ {0}
  BY <1>1, <1>2, PositiveProduct DEF AddRational, Rational
<1> QED
  BY <1>1, <1>2, <1>3 DEF base, margin, IsRational, RawCustomer

\* What a displayed amount is, in integers.
DisplayOf(amount, x, u, step, mode) ==
  /\ amount \in Int
  /\ x.num * Grams[u] \in Int /\ x.den * RateScale \in Nat \ {0}
  /\ IsRounding(amount, x.num * Grams[u], x.den * RateScale, step, mode)

LEMMA DisplayRounds ==
  ASSUME NEW x, IsRational(x), NEW u \in Units, NEW step \in Nat \ {0}, NEW mode \in Modes
  PROVE  DisplayOf(ToDisplay(x, u, step, mode), x, u, step, mode)
<1>1. x.num * Grams[u] \in Int /\ x.den * RateScale \in Nat \ {0}
  BY PricingAssumption, PositiveProduct DEF IsRational
<1> QED
  BY <1>1, StepRounds DEF DisplayOf, ToDisplay

LEMMA EngineRounds ==
  ASSUME NEW p \in Products, NEW mid \in Nat \ {0}, NEW r \in Rules, NEW u \in Units
  PROVE  LET result == ComputeCustomerRate(p, mid, r, u)
             base   == RawBase(p, mid)
         IN  /\ DisplayOf(result.base_display, base, u, r.precision, "half_even")
             /\ DisplayOf(result.adjustment_display, AdjustmentAmount(base, r), u,
                          r.precision, "half_even")
             /\ DisplayOf(result.rate_display, RawCustomer(p, mid, r), u, r.step, r.mode)
             /\ result.rounding_delta = result.rate_display - result.base_display
                                          - result.adjustment_display
<1>1. r.step \in Nat \ {0} /\ r.precision \in Nat \ {0} /\ r.mode \in Modes
      /\ "half_even" \in Modes
  BY DEF Rules, Modes
<1> QED
  BY <1>1, Exact, DisplayRounds DEF ComputeCustomerRate, Result

-----------------------------------------------------------------------------
(* What the proofs need of any row and any rule: the row on the board is   *)
(* what the engine makes of what the row says it was computed from.        *)

LEMMA RupeesAreIntegers ==
  ASSUME NEW text \in Texts PROVE FromRupees(text) \in Int /\ Scaled(text) \in Int
  BY PricingAssumption DEF Texts, FromRupees, Scaled

LEMMA RowComputed ==
  ASSUME NEW mid \in Nat \ {0}, NEW r \in Rules, NEW u \in Units, product \in Products,
         product' = product,
         row' = ComputeCustomerRate(product, mid, r, u)
  PROVE  /\ RowInv'
         /\ row' # None => row'.mid \in Nat \ {0} /\ row'.rule \in Rules /\ row'.unit \in Units
<1>1. row'.mid = mid /\ row'.rule = r /\ row'.unit = u
  BY DEF ComputeCustomerRate, Result
<1> QED
  BY <1>1 DEF RowInv

LEMMA Initially == Init => PriceInv
<1> SUFFICES ASSUME Init PROVE PriceInv
  OBVIOUS
<1>1. rule \in Rules /\ rule.value = 0
  BY PricingAssumption DEF Init, Rule, Rules, Modes
<1>2. typed \in Texts /\ FromRupees(typed) = 0
  BY PricingAssumption DEF Init, Nothing, Texts, FromRupees
<1>3. TypeOK /\ RowInv
  BY <1>1, <1>2 DEF Init, TypeOK, RowInv
<1>4. FromRupees(typed) * RateScale = 0
  BY <1>2, PricingAssumption
<1> QED
  BY <1>1, <1>3, <1>4 DEF PriceInv

RowStep == row' = row \/ \E mid \in Nat \ {0}, r \in Rules, u \in Units :
                            row' = ComputeCustomerRate(product, mid, r, u)

LEMMA RowStepKeeps ==
  ASSUME PriceInv, RowStep, product' = product
  PROVE  /\ RowInv'
         /\ row' # None => row'.mid \in Nat \ {0} /\ row'.rule \in Rules /\ row'.unit \in Units
<1>1. CASE row' = row
  BY <1>1 DEF PriceInv, TypeOK, RowInv
<1>2. CASE row' # row
  BY <1>2, RowComputed DEF RowStep, PriceInv, TypeOK
<1> QED
  BY <1>1, <1>2

LEMMA QuoteKeeps == ASSUME PriceInv, Quote PROVE PriceInv'
<1>1. PICK text \in Amounts :
        /\ RatePerGram(text, SourceUnit) > 0
        /\ quote' = RatePerGram(text, SourceUnit)
        /\ row' = IF Outcome(quote', rule, unit) = "published"
                  THEN ComputeCustomerRate(product, quote', rule, unit) ELSE row
        /\ behind' = FALSE
        /\ UNCHANGED <<product, unit, typed, rule>>
  BY DEF Quote
<1>2. quote' \in Nat \ {0}
  <2>1. text \in Texts /\ Grams[SourceUnit] \in Nat \ {0}
    BY PricingAssumption
  <2>2. Scaled(text) \in Int
    BY <2>1, RupeesAreIntegers
  <2>3. RatePerGram(text, SourceUnit) \in Int
    BY <2>1, <2>2 DEF RatePerGram
  <2> QED
    BY <1>1, <2>3
<1>3. RowStep
  BY <1>1, <1>2 DEF RowStep, PriceInv, TypeOK
<1> QED
  BY <1>1, <1>2, <1>3, RowStepKeeps DEF PriceInv, TypeOK

LEMMA RecomputeSteps ==
  ASSUME PriceInv, NEW r \in Rules, NEW u \in Units, Recompute(r, u)
  PROVE  RowStep /\ behind' \in BOOLEAN
  BY DEF Recompute, RowStep, PriceInv, TypeOK

LEMMA RuleTyped ==
  ASSUME NEW kind \in {"absolute", "percentage"}, NEW value \in Int,
         NEW bps \in -BpsScale .. BpsScale, NEW s \in Settings
  PROVE  Rule(kind, value, bps, s) \in Rules
  BY PricingAssumption DEF Rule, Rules

LEMMA SaveRuleKeeps ==
  ASSUME PriceInv, NEW r \in Rules, NEW text \in Texts, SaveRule(r, text),
         r.kind = "absolute" => r.value = FromRupees(text) * RateScale
  PROVE  PriceInv'
<1>1. RowStep /\ behind' \in BOOLEAN
  BY RecomputeSteps DEF SaveRule, PriceInv, TypeOK
<1> QED
  BY <1>1, RowStepKeeps DEF SaveRule, PriceInv, TypeOK

LEMMA NextKeeps == ASSUME PriceInv, [Next]_vars PROVE PriceInv'
<1>1. CASE Quote
  BY <1>1, QuoteKeeps
<1>2. CASE SaveMargin
  <2>1. PICK text \in Margins, s \in Settings :
          SaveRule(Rule("absolute", FromRupees(text) * RateScale, 0, s), text)
    BY <1>2 DEF SaveMargin
  <2> DEFINE value == FromRupees(text) * RateScale
             r == Rule("absolute", value, 0, s)
  <2>2. text \in Texts /\ value \in Int /\ 0 \in -BpsScale .. BpsScale
    BY PricingAssumption, RupeesAreIntegers
  <2>3. r \in Rules
    BY <2>2, RuleTyped
  <2>4. r.value = value
    BY DEF Rule
  <2> QED
    BY <2>1, <2>2, <2>3, <2>4, SaveRuleKeeps
<1>3. CASE SaveShare
  <2>1. PICK bps \in Shares, s \in Settings :
          SaveRule(Rule("percentage", 0, bps, s), Nothing)
    BY <1>3 DEF SaveShare
  <2>2. Rule("percentage", 0, bps, s) \in Rules
    BY PricingAssumption, RuleTyped
  <2>3. Nothing \in Texts /\ Rule("percentage", 0, bps, s).kind = "percentage"
    BY DEF Nothing, Texts, Rule
  <2> QED
    BY <2>1, <2>2, <2>3, SaveRuleKeeps
<1>4. CASE SetUnit
  <2>1. PICK u \in Units : /\ unit' = u /\ Recompute(rule, u)
                           /\ UNCHANGED <<product, typed, rule, quote>>
    BY <1>4 DEF SetUnit
  <2>2. RowStep /\ behind' \in BOOLEAN
    BY <2>1, RecomputeSteps DEF PriceInv, TypeOK
  <2> QED
    BY <2>1, <2>2, RowStepKeeps DEF PriceInv, TypeOK
<1>5. CASE UNCHANGED vars
  BY <1>5 DEF vars, PriceInv, TypeOK, RowInv, PriceInv
<1> QED
  BY <1>1, <1>2, <1>3, <1>4, <1>5 DEF Next

LEMMA PriceInvariant == Spec => []PriceInv
  BY Initially, NextKeeps, PTL DEF Spec

-----------------------------------------------------------------------------
(* The theorems.                                                           *)

\* The type invariant of a shop's price.
THEOREM TypeCorrect == Spec => []TypeOK
  BY PriceInvariant, PTL DEF PriceInv

\* The board holds the price of the last quote under the rule and the unit in
\* force, whichever changed last, if the change found a quote that it could use.
THEOREM NothingStaleOnTheBoard == Spec => []BoardIsCurrent
<1>1. Init => BoardIsCurrent
  BY DEF Init, BoardIsCurrent
<1>2. ASSUME BoardIsCurrent, [Next]_vars PROVE BoardIsCurrent'
  <2>1. CASE Quote
    BY <2>1 DEF Quote, BoardIsCurrent, Outcome
  <2>2. ASSUME NEW r, NEW text, SaveRule(r, text) PROVE BoardIsCurrent'
    BY <2>2 DEF SaveRule, Recompute, BoardIsCurrent, Outcome
  <2>3. CASE SetUnit
    BY <2>3 DEF SetUnit, Recompute, BoardIsCurrent, Outcome
  <2>4. CASE UNCHANGED vars
    BY <1>2, <2>4 DEF vars, BoardIsCurrent, Outcome
  <2> QED
    BY <1>2, <2>1, <2>2, <2>3, <2>4 DEF Next, SaveMargin, SaveShare
<1> QED
  BY <1>1, <1>2, PTL DEF Spec

LEMMA RowRounds ==
  ASSUME PriceInv, row # None
  PROVE  LET base == RawBase(product, row.mid)
         IN  /\ DisplayOf(row.base_display, base, row.unit, row.rule.precision, "half_even")
             /\ DisplayOf(row.adjustment_display, AdjustmentAmount(base, row.rule), row.unit,
                          row.rule.precision, "half_even")
             /\ DisplayOf(row.rate_display, RawCustomer(product, row.mid, row.rule), row.unit,
                          row.rule.step, row.rule.mode)
             /\ row.rounding_delta = row.rate_display - row.base_display
                                       - row.adjustment_display
<1> DEFINE mid == row.mid
           r == row.rule
           u == row.unit
<1>1. /\ product \in Products /\ mid \in Nat \ {0} /\ r \in Rules /\ u \in Units
      /\ row = ComputeCustomerRate(product, mid, r, u)
  BY DEF PriceInv, TypeOK, RowInv
<1> HIDE DEF mid, r, u
<1>2. LET base == RawBase(product, mid)
      IN  /\ DisplayOf(row.base_display, base, u, r.precision, "half_even")
          /\ DisplayOf(row.adjustment_display, AdjustmentAmount(base, r), u,
                       r.precision, "half_even")
          /\ DisplayOf(row.rate_display, RawCustomer(product, mid, r), u, r.step, r.mode)
          /\ row.rounding_delta = row.rate_display - row.base_display
                                    - row.adjustment_display
  BY <1>1, EngineRounds
<1> QED
  BY <1>2 DEF mid, r, u

\* For all scales, purities, units, quotes and settings, the customer rate is
\* the multiple of the step that the mode means for the exact total.
THEOREM CustomerRateRoundedOnce == Spec => []RoundedOnce
<1>1. PriceInv => RoundedOnce
  BY RowRounds DEF RoundedOnce, DisplayOf
<1> QED
  BY <1>1, PriceInvariant, PTL

LEMMA Divide ==
  ASSUME NEW m \in Nat, NEW a \in Nat \ {0}, NEW b \in Nat \ {0}
  PROVE  /\ (m * b) \div (a * b) = m \div a
         /\ ((m * b) % (a * b)) \div b = m % a
<1> DEFINE q == m \div a
           r == m % a
<1>1. q \in Nat /\ r \in Nat /\ r < a /\ m = q * a + r
  BY Division
<1> HIDE DEF q, r
<1>2. a * b \in Nat \ {0} /\ r * b \in Nat
  BY <1>1, PositiveProduct
<1>3. r * b < a * b
  BY <1>1
<1>4. m * b = q * (a * b) + r * b
  BY <1>1
<1>5. (m * b) \div (a * b) = q /\ (m * b) % (a * b) = r * b
  <2> DEFINE d == a * b
             s == r * b
  <2>1. q \in Nat /\ d \in Nat \ {0} /\ s \in Nat /\ s < d /\ m * b = q * d + s
    BY <1>1, <1>2, <1>3, <1>4
  <2> HIDE DEF d, s
  <2>2. (m * b) \div d = q /\ (m * b) % d = s
    BY <2>1, Quotient
  <2> QED
    BY <2>2 DEF d, s
<1>6. (r * b) \div b = r
  BY <1>1, QuotientInt
<1> QED
  BY <1>5, <1>6 DEF q, r

\* What is stored as milli-paise per gram is shown again as it was typed, and
\* any amount of paise is shown as what it is.
LEMMA RupeesRoundTrip ==
  ASSUME NEW amount \in Int
  PROVE  /\ FromRupees(MilliPaiseToRupees(amount * RateScale)) = amount
         /\ FromRupees(ToRupees(amount)) = amount
<1> DEFINE m == Magnitude(amount)
<1>1. m \in Nat /\ amount = IF amount < 0 THEN -m ELSE m
  BY DEF Magnitude
<1>2. Magnitude(amount * RateScale) = m * RateScale /\ (amount * RateScale < 0 <=> amount < 0)
  BY PricingAssumption DEF Magnitude
<1>3. (m \div PaisePerRupee) * PaisePerRupee + (m % PaisePerRupee) = m
  BY <1>1, Division, PricingAssumption
<1> HIDE DEF m
<1>4. FromRupees(ToRupees(amount)) = IF amount < 0 THEN -m ELSE m
  BY <1>3 DEF FromRupees, ToRupees, m
<1>5. /\ (m * RateScale) \div (PaisePerRupee * RateScale) = m \div PaisePerRupee
      /\ ((m * RateScale) % (PaisePerRupee * RateScale)) \div RateScale = m % PaisePerRupee
  BY <1>1, Divide, PricingAssumption
<1>6. FromRupees(MilliPaiseToRupees(amount * RateScale)) = IF amount < 0 THEN -m ELSE m
  BY <1>2, <1>3, <1>5 DEF FromRupees, MilliPaiseToRupees
<1> QED
  BY <1>1, <1>4, <1>6

LEMMA Order ==
  ASSUME NEW x \in Int, NEW y \in Int, NEW c \in Nat \ {0}
  PROVE  (x <= y <=> x * c <= y * c) /\ (x < y <=> x * c < y * c)
  OBVIOUS

\* A factor that a fraction's two sides share plays no part in its rounding.
LEMMA SameFraction ==
  ASSUME NEW n \in Int, NEW d \in Nat \ {0}, NEW amount \in Int, NEW p \in Nat \ {0},
         IsRounding(amount, n * d, d, p, "half_even")
  PROVE  IsRounding(amount, n, 1, p, "half_even")
<1> DEFINE low  == 2 * amount - p
           high == 2 * amount + p
<1>1. /\ low * d <= 2 * (n * d) /\ 2 * (n * d) <= high * d
      /\ amount % p = 0
      /\ 2 * (n * d) \in {high * d, low * d} => (amount \div p) % 2 = 0
  BY DEF IsRounding
<1>2. 2 * (n * d) = (2 * n) * d /\ low \in Int /\ high \in Int
  OBVIOUS
<1> HIDE DEF low, high
<1>3. low <= 2 * n /\ 2 * n <= high
  BY <1>1, <1>2, Order
<1>4. 2 * n \in {high * 1, low * 1} => (amount \div p) % 2 = 0
  BY <1>1, <1>2
<1> QED
  BY <1>1, <1>2, <1>3, <1>4 DEF IsRounding, low, high

\* A multiple of the precision is shown as it is.
LEMMA MultipleStays ==
  ASSUME NEW n \in Int, NEW amount \in Int, NEW p \in Nat \ {0}, n % p = 0,
         IsRounding(amount, n, 1, p, "half_even")
  PROVE  amount = n
<1> DEFINE k == n \div p
           q == amount \div p
<1>1. k \in Int /\ q \in Int /\ n = k * p /\ amount = q * p
  BY DEF IsRounding
<1>2. 2 * amount - p <= 2 * n /\ 2 * n <= 2 * amount + p
  BY DEF IsRounding
<1> HIDE DEF k, q
<1>3. (2 * q - 1) * p <= (2 * k) * p /\ (2 * k) * p <= (2 * q + 1) * p
  BY <1>1, <1>2
<1>4. 2 * q - 1 <= 2 * k /\ 2 * k <= 2 * q + 1
  BY <1>1, <1>3, Order
<1> QED
  BY <1>1, <1>4

\* The margin that was typed is the margin that the editor shows, and that the
\* page shows to the precision of its lines, for every amount, unit and scale.
THEOREM MarginShownAsTyped == Spec => []MarginAsTyped
<1>1. ASSUME PriceInv, rule.kind = "absolute"
      PROVE  FromRupees(MilliPaiseToRupees(rule.value)) = FromRupees(typed)
  BY <1>1, RupeesAreIntegers, RupeesRoundTrip DEF PriceInv, TypeOK
<1>2. ASSUME PriceInv, row # None, row.rule = rule, rule.kind = "absolute"
      PROVE  LET shown == FromRupees(ToRupees(row.adjustment_display))
                 meant == FromRupees(typed) * Grams[row.unit]
             IN  /\ IsRounding(shown, meant, 1, rule.precision, "half_even")
                 /\ meant % rule.precision = 0 => shown = meant
  <2> DEFINE t == FromRupees(typed)
             g == Grams[row.unit]
             p == rule.precision
             amount == row.adjustment_display
             x == AdjustmentAmount(RawBase(product, row.mid), row.rule)
  <2>1. t \in Int /\ g \in Nat \ {0} /\ t * g \in Int /\ p \in Nat \ {0}
    BY <1>2, RupeesAreIntegers, PricingAssumption DEF PriceInv, TypeOK, Rules
  <2>2. x.num = t * RateScale /\ x.den = 1
    BY <1>2 DEF AdjustmentAmount, Rational, PriceInv
  <2>3. /\ amount \in Int
        /\ IsRounding(amount, x.num * g, x.den * RateScale, p, "half_even")
    BY <1>2, RowRounds DEF DisplayOf
  <2>4. FromRupees(ToRupees(amount)) = amount
    BY <2>3, RupeesRoundTrip
  <2> HIDE DEF t, g, x, p, amount
  <2>5. x.num * g = (t * g) * RateScale /\ x.den * RateScale = RateScale
    BY <2>1, <2>2, PricingAssumption
  <2>6. IsRounding(amount, t * g, 1, p, "half_even")
    <3> DEFINE n == t * g
               d == RateScale
    <3>1. IsRounding(amount, n * d, d, p, "half_even")
      BY <2>3, <2>5 DEF n, d
    <3>2. n \in Int /\ d \in Nat \ {0}
      BY <2>1, PricingAssumption
    <3> HIDE DEF n, d
    <3>3. IsRounding(amount, n, 1, p, "half_even")
      BY <2>1, <2>3, <3>1, <3>2, SameFraction
    <3> QED
      BY <3>3 DEF n
  <2>7. (t * g) % p = 0 => amount = t * g
    BY <2>1, <2>3, <2>6, MultipleStays
  <2> QED
    BY <2>4, <2>6, <2>7 DEF t, g, p, amount
<1>3. PriceInv => MarginAsTyped
  BY <1>1, <1>2 DEF MarginAsTyped
<1> QED
  BY <1>3, PriceInvariant, PTL

-----------------------------------------------------------------------------
(* The line that is called rounding.                                       *)

\* How far a rounding of num / den is from it, in halves of a step.
LEMMA RoundingIsNear ==
  ASSUME NEW r \in Int, NEW num \in Int, NEW den \in Nat \ {0}, NEW step \in Nat \ {0},
         NEW mode \in Modes, IsRounding(r, num, den, step, mode)
  PROVE  LET off == 2 * (r * den) - 2 * num
         IN  IF mode \in {"ceil", "floor"}
             THEN -(2 * (step * den)) < off /\ off < 2 * (step * den)
             ELSE -(step * den) <= off /\ off <= step * den
<1>1. /\ r * den \in Int /\ step * den \in Nat
      /\ (r + step) * den = r * den + step * den
      /\ (r - step) * den = r * den - step * den
      /\ (2 * r - step) * den = 2 * (r * den) - step * den
      /\ (2 * r + step) * den = 2 * (r * den) + step * den
  OBVIOUS
<1> DEFINE at == r * den
           s  == step * den
<1> HIDE DEF at, s
<1>2. mode \in {"ceil", "floor"}
        => -(2 * s) < 2 * at - 2 * num /\ 2 * at - 2 * num < 2 * s
  BY <1>1 DEF IsRounding, at, s
<1>3. mode \notin {"ceil", "floor"}
        => -s <= 2 * at - 2 * num /\ 2 * at - 2 * num <= s
  BY <1>1 DEF IsRounding, at, s, Modes
<1> QED
  BY <1>2, <1>3 DEF at, s

\* The distance of a component, over the denominator c of the sum.
LEMMA ComponentIsNear ==
  ASSUME NEW amount \in Int, NEW n \in Int, NEW a \in Nat \ {0}, NEW b \in Nat \ {0},
         NEW p \in Nat \ {0}, IsRounding(amount, n, a, p, "half_even")
  PROVE  LET c == a * b
         IN  /\ -(p * c) <= 2 * (amount * c) - 2 * (n * b)
             /\ 2 * (amount * c) - 2 * (n * b) <= p * c
<1> DEFINE c == a * b
           off == 2 * (amount * a) - 2 * n
<1>1. -(p * a) <= off /\ off <= p * a /\ off \in Int /\ p * a \in Int /\ -(p * a) \in Int
  BY RoundingIsNear DEF Modes
<1>2. off * b = 2 * (amount * c) - 2 * (n * b)
  OBVIOUS
<1>3. (p * a) * b = p * c /\ (-(p * a)) * b = -(p * c)
  OBVIOUS
<1> HIDE DEF off
<1>4. (-(p * a)) * b <= off * b /\ off * b <= (p * a) * b
  BY <1>1, Order
<1> QED
  BY <1>2, <1>3, <1>4

\* The rounded sum of n1 / d1 and n2 / d2 against the two, rounded.
LEMMA SumIsNear ==
  ASSUME NEW a, IsRational(a), NEW b, IsRational(b), NEW u \in Units,
         NEW step \in Nat \ {0}, NEW precision \in Nat \ {0}, NEW mode \in Modes,
         NEW base, DisplayOf(base, a, u, precision, "half_even"),
         NEW margin, DisplayOf(margin, b, u, precision, "half_even"),
         NEW rate, DisplayOf(rate, AddRational(a, b), u, step, mode)
  PROVE  LET slack == IF mode \in {"ceil", "floor"} THEN 2 * step - 1 ELSE step
         IN  2 * Magnitude(rate - base - margin) <= slack + 2 * precision
<1> DEFINE n1 == a.num
           d1 == a.den
           n2 == b.num
           d2 == b.den
           g  == Grams[u]
           k  == RateScale
           d  == (d1 * d2) * k
           N1 == (n1 * g) * d2
           N2 == (n2 * g) * d1
           delta == rate - base - margin
           R == rate * d
           B == base * d
           M == margin * d
           s == step * d
           p == precision * d
<1>0. /\ n1 \in Int /\ d1 \in Nat \ {0} /\ n2 \in Int /\ d2 \in Nat \ {0}
      /\ g \in Nat \ {0} /\ k \in Nat \ {0}
      /\ rate \in Int /\ base \in Int /\ margin \in Int
      /\ IsRounding(base, n1 * g, d1 * k, precision, "half_even")
      /\ IsRounding(margin, n2 * g, d2 * k, precision, "half_even")
      /\ IsRounding(rate, (n1 * d2 + n2 * d1) * g, d, step, mode)
  BY PricingAssumption DEF IsRational, DisplayOf, AddRational, Rational
<1> HIDE DEF n1, d1, n2, d2, g, k
<1>1. d1 * k \in Nat \ {0} /\ d2 * k \in Nat \ {0} /\ d \in Nat \ {0}
      /\ (d1 * k) * d2 = d /\ (d2 * k) * d1 = d
      /\ n1 * g \in Int /\ n2 * g \in Int /\ N1 \in Int /\ N2 \in Int
  BY <1>0, PositiveProduct
<1>2. -p <= 2 * B - 2 * N1 /\ 2 * B - 2 * N1 <= p
  BY <1>0, <1>1, ComponentIsNear
<1>3. -p <= 2 * M - 2 * N2 /\ 2 * M - 2 * N2 <= p
  BY <1>0, <1>1, ComponentIsNear
<1>4. (n1 * d2 + n2 * d1) * g = N1 + N2 /\ N1 + N2 \in Int
  BY <1>0, <1>1
<1>5. LET off == 2 * R - 2 * (N1 + N2)
      IN  IF mode \in {"ceil", "floor"} THEN -(2 * s) < off /\ off < 2 * s
          ELSE -s <= off /\ off <= s
  <2>1. IsRounding(rate, N1 + N2, d, step, mode)
    BY <1>0, <1>4
  <2> QED
    BY <1>0, <1>1, <1>4, <2>1, RoundingIsNear
<1>6. /\ R \in Int /\ B \in Int /\ M \in Int /\ s \in Int /\ p \in Int
      /\ delta \in Int /\ (2 * delta) * d = 2 * R - 2 * B - 2 * M
      /\ (step + 2 * precision) * d = s + 2 * p
      /\ (-(step + 2 * precision)) * d = -(s + 2 * p)
      /\ (2 * step + 2 * precision) * d = 2 * s + 2 * p
      /\ (-(2 * step + 2 * precision)) * d = -(2 * s + 2 * p)
  BY <1>0, <1>1
<1> HIDE DEF d, N1, N2, delta, R, B, M, s, p
<1>7. CASE mode \in {"ceil", "floor"}
  <2>1. /\ (-(2 * step + 2 * precision)) * d < (2 * delta) * d
        /\ (2 * delta) * d < (2 * step + 2 * precision) * d
    BY <1>1, <1>2, <1>3, <1>5, <1>6, <1>7
  <2>2. -(2 * step + 2 * precision) < 2 * delta /\ 2 * delta < 2 * step + 2 * precision
    BY <1>1, <1>6, <2>1, Order
  <2> QED
    BY <1>6, <1>7, <2>2 DEF Magnitude, delta
<1>8. CASE mode \notin {"ceil", "floor"}
  <2>1. /\ (-(step + 2 * precision)) * d <= (2 * delta) * d
        /\ (2 * delta) * d <= (step + 2 * precision) * d
    BY <1>1, <1>2, <1>3, <1>5, <1>6, <1>8
  <2>2. -(step + 2 * precision) <= 2 * delta /\ 2 * delta <= step + 2 * precision
    BY <1>1, <1>6, <2>1, Order
  <2> QED
    BY <1>6, <1>8, <2>2 DEF Magnitude, delta
<1> QED
  BY <1>7, <1>8

\* Whatever is quoted and set, the line that is called rounding is less than a
\* step of the rate and a step of each component.
THEOREM ResidualBounded == Spec => []ResidualIsRounding
<1>1. ASSUME PriceInv, row # None
      PROVE  2 * Magnitude(row.rounding_delta)
               <= (IF row.rule.mode \in {"ceil", "floor"} THEN 2 * row.rule.step - 1
                   ELSE row.rule.step) + 2 * row.rule.precision
  <2> DEFINE a == RawBase(product, row.mid)
             b == AdjustmentAmount(a, row.rule)
             r == row.rule
  <2>1. IsRational(a) /\ IsRational(b) /\ row.unit \in Units /\ r \in Rules
    BY <1>1, Exact DEF PriceInv, TypeOK
  <2>2. /\ DisplayOf(row.base_display, a, row.unit, r.precision, "half_even")
        /\ DisplayOf(row.adjustment_display, b, row.unit, r.precision, "half_even")
        /\ DisplayOf(row.rate_display, AddRational(a, b), row.unit, r.step, r.mode)
        /\ row.rounding_delta = row.rate_display - row.base_display - row.adjustment_display
    BY <1>1, RowRounds DEF RawCustomer
  <2>3. r.step \in Nat \ {0} /\ r.precision \in Nat \ {0} /\ r.mode \in Modes
    BY <2>1 DEF Rules
  <2> HIDE DEF a, b, r
  <2>4. 2 * Magnitude(row.rate_display - row.base_display - row.adjustment_display)
          <= (IF r.mode \in {"ceil", "floor"} THEN 2 * r.step - 1 ELSE r.step)
             + 2 * r.precision
    BY <2>1, <2>2, <2>3, SumIsNear
  <2> QED
    BY <2>2, <2>4 DEF r
<1>2. PriceInv => ResidualIsRounding
  BY <1>1 DEF ResidualIsRounding
<1> QED
  BY <1>2, PriceInvariant, PTL

-----------------------------------------------------------------------------
(* The board follows the market.                                           *)

\* Rounding never turns an order round.
LEMMA RoundsInOrder ==
  ASSUME NEW n1 \in Int, NEW n2 \in Int, n1 <= n2, NEW d \in Nat \ {0}, NEW mode \in Modes
  PROVE  Resolve(n1, d, mode) <= Resolve(n2, d, mode)
<1> DEFINE r1 == Resolve(n1, d, mode)
           r2 == Resolve(n2, d, mode)
           at1 == r1 * d
           at2 == r2 * d
<1>1. r1 \in Int /\ r2 \in Int /\ Rounds(r1, at1, n1, d, mode) /\ Rounds(r2, at2, n2, d, mode)
  BY ResolveRounds
<1> HIDE DEF r1, r2
<1>2. SUFFICES ASSUME r2 < r1 PROVE FALSE
  BY <1>1 DEF r1, r2
<1>3. at1 \in Int /\ at2 \in Int /\ at2 + d <= at1
  <2>1. (r2 + 1) * d <= r1 * d
    BY <1>1, <1>2, Order
  <2> QED
    BY <1>1, <2>1
<1>4. r1 = r2 + 1 => ~(r1 % 2 = 0 /\ r2 % 2 = 0)
  BY <1>1
<1>5. at1 = at2 + d => r1 = r2 + 1
  <2>1. r2 + 1 < r1 => (r2 + 1) * d < r1 * d
    BY <1>1, Order
  <2> QED
    BY <1>1, <1>2, <2>1
<1> HIDE DEF at1, at2
<1> QED
  BY <1>1, <1>3, <1>4, <1>5 DEF Rounds, Modes

\* With a percentage of -100 at worst, the exact total grows with the quote.
LEMMA TotalGrows ==
  ASSUME NEW p \in Products, NEW m1 \in Nat \ {0}, NEW m2 \in Nat \ {0}, m1 <= m2,
         NEW r \in Rules
  PROVE  /\ RawCustomer(p, m1, r).num <= RawCustomer(p, m2, r).num
         /\ RawCustomer(p, m1, r).den = RawCustomer(p, m2, r).den
<1> DEFINE ratio == PurityRatio(p.from, p.to, p.basis)
           k == ratio.num
           e == ratio.den
<1>1. k \in Nat \ {0} /\ e \in Nat \ {0}
  BY RatioIsPositive
<1>2. \A m : RawBase(p, m).num = m * k /\ RawBase(p, m).den = e
  BY DEF RawBase, Rational
<1> HIDE DEF k, e
<1>3. CASE r.kind = "absolute"
  <2>1. \A m : /\ RawCustomer(p, m, r).num = (m * k) * 1 + r.value * e
               /\ RawCustomer(p, m, r).den = e * 1
    BY <1>2, <1>3 DEF RawCustomer, AddRational, AdjustmentAmount, Rational
  <2>2. r.value * e \in Int
    BY <1>1 DEF Rules
  <2>3. m1 * k <= m2 * k
    BY <1>1, Order
  <2> QED
    BY <1>1, <2>1, <2>2, <2>3
<1>4. CASE r.kind = "percentage"
  <2>1. \A m : /\ RawCustomer(p, m, r).num
                    = (m * k) * (e * BpsScale) + ((m * k) * r.bps) * e
               /\ RawCustomer(p, m, r).den = e * (e * BpsScale)
    BY <1>2, <1>4 DEF RawCustomer, AddRational, AdjustmentAmount, Rational
  <2> DEFINE c == (k * e) * (BpsScale + r.bps)
  <2>2. c \in Nat
    BY <1>1, PricingAssumption DEF Rules
  <2>3. \A m \in Nat : (m * k) * (e * BpsScale) + ((m * k) * r.bps) * e = m * c
    BY <1>1, PricingAssumption DEF Rules
  <2> HIDE DEF c
  <2>4. m1 * c <= m2 * c
    BY <2>2
  <2> QED
    BY <2>1, <2>3, <2>4
<1> QED
  BY <1>3, <1>4 DEF Rules

LEMMA RateGrows ==
  ASSUME NEW p \in Products, NEW m1 \in Nat \ {0}, NEW m2 \in Nat \ {0}, m1 <= m2,
         NEW r \in Rules, NEW u \in Units
  PROVE  ComputeCustomerRate(p, m1, r, u).rate_display
           <= ComputeCustomerRate(p, m2, r, u).rate_display
<1> DEFINE x1 == RawCustomer(p, m1, r)
           x2 == RawCustomer(p, m2, r)
           g  == Grams[u]
           d  == (x1.den * RateScale) * r.step
<1>1. /\ x1.num \in Int /\ x2.num \in Int /\ x1.den \in Nat \ {0} /\ g \in Nat \ {0}
      /\ r.step \in Nat \ {0} /\ r.mode \in Modes
  BY Exact, PricingAssumption DEF IsRational, Rules
<1>2. x1.num <= x2.num /\ x2.den = x1.den
  BY TotalGrows
<1> HIDE DEF x1, x2, g
<1>3. /\ x1.num * g \in Int /\ x2.num * g \in Int /\ x1.num * g <= x2.num * g
      /\ d \in Nat \ {0}
  BY <1>1, <1>2, Order, PositiveProduct, PricingAssumption
<1> HIDE DEF d
<1>4. /\ Resolve(x1.num * g, d, r.mode) \in Int /\ Resolve(x2.num * g, d, r.mode) \in Int
      /\ Resolve(x1.num * g, d, r.mode) <= Resolve(x2.num * g, d, r.mode)
  BY <1>1, <1>3, RoundsInOrder, ResolveRounds
<1>5. /\ ComputeCustomerRate(p, m1, r, u).rate_display
             = Resolve(x1.num * g, d, r.mode) * r.step
      /\ ComputeCustomerRate(p, m2, r, u).rate_display
             = Resolve(x2.num * g, d, r.mode) * r.step
  <2>1. \A n \in Int : DivideAndRound(n, d, r.mode) = Resolve(n, d, r.mode)
    BY <1>3, DivideIsResolve
  <2> QED
    BY <1>2, <1>3, <2>1 DEF ComputeCustomerRate, Result, ToDisplay, RoundRationalToStep, x1, x2, g, d
<1> QED
  BY <1>1, <1>4, <1>5, Order

\* Under one rule and one unit a higher quote never makes a lower rate.
THEOREM RateFollowsMarket == Spec => FollowsMarket
<1>1. ASSUME PriceInv, PriceInv', row # None, row' # None, product' = product,
             row'.rule = row.rule, row'.unit = row.unit, row'.mid >= row.mid
      PROVE  row'.rate_display >= row.rate_display
  <2> DEFINE r == row.rule
             u == row.unit
             m1 == row.mid
             m2 == row'.mid
  <2>1. /\ product \in Products /\ m1 \in Nat \ {0} /\ m2 \in Nat \ {0} /\ m1 <= m2
        /\ r \in Rules /\ u \in Units
    BY <1>1 DEF PriceInv, TypeOK
  <2>2. /\ row = ComputeCustomerRate(product, m1, r, u)
        /\ row' = ComputeCustomerRate(product, m2, r, u)
    BY <1>1 DEF PriceInv, RowInv
  <2>3. /\ ComputeCustomerRate(product, m1, r, u).rate_display \in Int
        /\ ComputeCustomerRate(product, m2, r, u).rate_display \in Int
    <3> HIDE DEF m1, m2, r, u
    <3> QED
      BY <2>1, EngineRounds DEF DisplayOf
  <2> HIDE DEF m1, m2, r, u
  <2> QED
    BY <2>1, <2>2, <2>3, RateGrows
<1>2. [Next]_vars => product' = product
  BY DEF Next, vars, Quote, SaveMargin, SaveShare, SaveRule, SetUnit
<1>3. PriceInv /\ PriceInv' /\ [Next]_vars
        => [(row # None /\ row' # None /\ row'.rule = row.rule /\ row'.unit = row.unit
             /\ row'.mid >= row.mid) => row'.rate_display >= row.rate_display]_vars
  BY <1>1, <1>2
<1> QED
  BY <1>3, PriceInvariant, PTL DEF Spec, FollowsMarket
=============================================================================
