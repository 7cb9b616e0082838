------------------------------ MODULE Pricing ------------------------------
(***************************************************************************)
(* The price of one product of one shop: what the vendor quotes, what the  *)
(* shopkeeper types, what the engine makes of both, what the database      *)
(* accepts and what a page shows (platform/money.ts, modules/pricing,      *)
(* publish_one and recompute_rule_in_transaction of                        *)
(* publication_service.ts, lib/money.ts of the web application).           *)
(*                                                                         *)
(* Amounts are the integers of the code; its scales are parameters, so     *)
(* that small numbers meet every rounding.  An amount in rupees as text is *)
(* a sign, rupees and paise.  Which transaction comes first is             *)
(* RatePublication's matter: here each takes effect at once.               *)
(***************************************************************************)
EXTENDS Integers

CONSTANTS
  RateScale,     \* money.ts: RATE_SCALE
  PaisePerRupee, \* money.ts: PAISE_PER_RUPEE
  BpsScale,      \* adjustment.ts: BPS_SCALE
  Units, Grams,  \* money.ts: DISPLAY_UNIT_GRAMS
  Products,      \* purities and basis, as the catalogue has them
  Amounts,       \* texts of amounts that a vendor may quote, per SourceUnit
  SourceUnit,
  Margins,       \* texts of amounts that a shopkeeper may type, per gram
  Shares,        \* percentages that he may type, in basis points
  MaxValue,      \* MAX_ABSOLUTE_ADJUSTMENT
  Settings,      \* display settings that may be chosen together
  None           \* no quote, no row

Modes == {"half_up", "half_even", "ceil", "floor"}
Texts == [negative : BOOLEAN, whole : Nat, fraction : Nat]

ASSUME PricingAssumption ==
  /\ RateScale \in Nat \ {0} /\ PaisePerRupee \in Nat \ {0} /\ BpsScale \in Nat \ {0}
  /\ Grams \in [Units -> Nat \ {0}] /\ SourceUnit \in Units
  /\ \A p \in Products :
       /\ p.from.num \in Nat \ {0} /\ p.from.den \in Nat \ {0}
       /\ p.to.num \in Nat \ {0} /\ p.to.den \in Nat \ {0}
       /\ p.basis \in {"market_convention", "fine_ratio"}
  /\ Amounts \subseteq Texts /\ Margins \subseteq Texts
  /\ Shares \subseteq -BpsScale .. BpsScale /\ MaxValue \in Nat
  /\ Settings \subseteq [step : Nat \ {0}, mode : Modes, precision : Nat \ {0}]
  /\ None \notin Int /\ None \notin [mid : Int]

VARIABLES
  product,       \* the product: it stays
  unit,          \* tenant_products.display_unit
  typed,         \* what the shopkeeper typed for the rule in force
  rule,          \* the rule in force
  quote,         \* mid of the last quote, milli-paise per gram
  row,           \* published_rates, with what it was computed from
  behind         \* history: the last change found no quote that it could use

vars == <<product, unit, typed, rule, quote, row, behind>>

-----------------------------------------------------------------------------
(* Rounding.                                                               *)

Magnitude(x) == IF x < 0 THEN -x ELSE x

\* Division of bigints truncates toward zero.
Truncated(n, d) == IF n >= 0 THEN n \div d ELSE -((-n) \div d)

\* A faulty variant of X is named X_...: for the bugs that the properties are
\* known to exclude.
Resolve_SwapsHalves(n, d, mode) ==
  LET quotient == Truncated(n, d)
      doubled  == 2 * Magnitude(n - quotient * d)
      away     == IF n < 0 THEN quotient - 1 ELSE quotient + 1
  IN CASE mode \in {"half_up", "half_even"} /\ doubled \in 1 .. d -> away
       [] mode = "ceil" /\ n > 0 /\ doubled # 0 -> away
       [] mode = "floor" /\ n < 0 /\ doubled # 0 -> away
       [] OTHER -> quotient

\* For d > 0: the quotient of truncation and, away from zero, its neighbour.
Resolve(n, d, mode) ==
  LET quotient == Truncated(n, d)
      doubled  == 2 * Magnitude(n - quotient * d)
      away     == IF n < 0 THEN quotient - 1 ELSE quotient + 1
      up       == \/ mode = "ceil" /\ n > 0
                  \/ mode = "floor" /\ n < 0
                  \/ mode = "half_up" /\ doubled >= d
                  \/ mode = "half_even" /\ doubled > d
                  \/ mode = "half_even" /\ doubled = d /\ quotient % 2 # 0
  IN IF doubled # 0 /\ up THEN away ELSE quotient

DivideAndRound(n, d, mode) ==
  IF d < 0 THEN Resolve(-n, -d, mode) ELSE Resolve(n, d, mode)

RoundRationalToStep(num, den, step, mode) ==
  DivideAndRound(num, den * step, mode) * step

-----------------------------------------------------------------------------
(* Amounts as text.                                                        *)

\* from_rupees.
FromRupees(text) ==
  LET total == text.whole * PaisePerRupee + text.fraction IN
  IF text.negative THEN -total ELSE total

\* to_rupees_string, and split_paise in the browser.
ToRupees(paise) ==
  [negative |-> paise < 0,
   whole |-> Magnitude(paise) \div PaisePerRupee,
   fraction |-> Magnitude(paise) % PaisePerRupee]

\* milli_paise_to_rupee_string.
MilliPaiseToRupees(value) ==
  [negative |-> value < 0,
   whole |-> Magnitude(value) \div (PaisePerRupee * RateScale),
   fraction |-> (Magnitude(value) % (PaisePerRupee * RateScale)) \div RateScale]

\* rate_from_rupees_per_unit: it throws if the division leaves a remainder.
Scaled(text) == FromRupees(text) * RateScale
Convertible(text, u) == Scaled(text) % Grams[u] = 0
RatePerGram(text, u) == Scaled(text) \div Grams[u]

-----------------------------------------------------------------------------
(* The engine.                                                             *)

Rational(num, den) == [num |-> num, den |-> den]
AddRational(a, b)  == Rational(a.num * b.den + b.num * a.den, a.den * b.den)

PurityRatio(from, to, basis) ==
  IF basis = "market_convention" THEN Rational(to.num, to.den)
  ELSE Rational(to.num * from.den, to.den * from.num)

AdjustmentAmount(base, r) ==
  IF r.kind = "absolute" THEN Rational(r.value, 1)
  ELSE Rational(base.num * r.bps, base.den * BpsScale)

ToDisplay(value, u, precision, mode) ==
  RoundRationalToStep(value.num * Grams[u], value.den * RateScale, precision, mode)

\* rational_to_rate.
ToRate(value) == DivideAndRound(value.num, value.den, "half_even")

RawBase(p, mid) ==
  LET ratio == PurityRatio(p.from, p.to, p.basis) IN
  Rational(mid * ratio.num, ratio.den)

RawCustomer(p, mid, r) ==
  AddRational(RawBase(p, mid), AdjustmentAmount(RawBase(p, mid), r))

Result(p, mid, r, u, base, adjustment, rate) ==
  [mid |-> mid, unit |-> u, rule |-> r,
   raw_base_rate |-> ToRate(RawBase(p, mid)),
   raw_adjustment |-> ToRate(AdjustmentAmount(RawBase(p, mid), r)),
   raw_customer_rate |-> ToRate(RawCustomer(p, mid, r)),
   base_display |-> base, adjustment_display |-> adjustment,
   rounding_delta |-> rate - base - adjustment, rate_display |-> rate]

\* The design before ADR-0005: the margin is what the rounded total leaves.
ComputeCustomerRate_DerivesMargin(p, mid, r, u) ==
  LET rate == ToDisplay(RawCustomer(p, mid, r), u, r.step, r.mode)
      base == ToDisplay(RawBase(p, mid), u, r.precision, "half_even")
  IN Result(p, mid, r, u, base, rate - base, rate)

\* The margin per gram, whatever the unit of the page.
ComputeCustomerRate_MarginPerGram(p, mid, r, u) ==
  LET margin  == AdjustmentAmount(RawBase(p, mid), r)
      perUnit == Rational(margin.num, margin.den * Grams[u])
  IN Result(p, mid, r, u,
            ToDisplay(RawBase(p, mid), u, r.precision, "half_even"),
            ToDisplay(perUnit, u, r.precision, "half_even"),
            ToDisplay(RawCustomer(p, mid, r), u, r.step, r.mode))

\* Rounding at every stage.
ComputeCustomerRate_RoundsTwice(p, mid, r, u) ==
  LET paise == ToDisplay(RawCustomer(p, mid, r), u, r.precision, "half_even")
  IN Result(p, mid, r, u,
            ToDisplay(RawBase(p, mid), u, r.precision, "half_even"),
            ToDisplay(AdjustmentAmount(RawBase(p, mid), r), u, r.precision, "half_even"),
            RoundRationalToStep(paise, 1, r.step, r.mode))

ComputeCustomerRate(p, mid, r, u) ==
  Result(p, mid, r, u,
         ToDisplay(RawBase(p, mid), u, r.precision, "half_even"),
         ToDisplay(AdjustmentAmount(RawBase(p, mid), r), u, r.precision, "half_even"),
         ToDisplay(RawCustomer(p, mid, r), u, r.step, r.mode))

-----------------------------------------------------------------------------
(* Publication.                                                            *)

\* Of the constraints of published_rates, the one that the engine does not
\* meet by construction.
Balanced(result) ==
  result.raw_base_rate + result.raw_adjustment = result.raw_customer_rate

\* publish_one: the engine refuses a price that is not positive, and the old
\* row stands; a row that the database refuses fails the transaction.
Outcome(mid, r, u) ==
  LET result == ComputeCustomerRate(product, mid, r, u) IN
  CASE result.rate_display <= 0 -> "rejected"
    [] result.rate_display > 0 /\ Balanced(result) -> "published"
    [] OTHER -> "failed"

Rule(kind, value, bps, s) ==
  [step |-> s.step, mode |-> s.mode, precision |-> s.precision,
   value |-> value, kind |-> kind, bps |-> bps]

Nothing == [negative |-> FALSE, whole |-> 0, fraction |-> 0]

Init ==
  /\ product \in Products /\ unit \in Units
  /\ typed = Nothing
  /\ \E s \in Settings : rule = Rule("absolute", 0, 0, s)
  /\ quote = None /\ row = None /\ behind = FALSE

\* recompute_rule_in_transaction, within the transaction of the change.  With
\* no quote yet, or an expired one, the change stands and the row stays.
Recompute(r, u) ==
  \/ /\ row' = row /\ behind' = TRUE
  \/ /\ quote # None /\ Outcome(quote, r, u) # "failed"
     /\ row' = IF Outcome(quote, r, u) = "published"
               THEN ComputeCustomerRate(product, quote, r, u) ELSE row
     /\ behind' = FALSE

\* The poller's transaction: the quote stays with the replica in any case.
\* parse_quote and the stream let a positive amount through.
Quote ==
  \E text \in Amounts :
    /\ Convertible(text, SourceUnit) /\ RatePerGram(text, SourceUnit) > 0
    /\ quote' = RatePerGram(text, SourceUnit)
    /\ row' = IF Outcome(quote', rule, unit) = "published"
              THEN ComputeCustomerRate(product, quote', rule, unit) ELSE row
    /\ behind' = FALSE
    /\ UNCHANGED <<product, unit, typed, rule>>

\* update_rule, with to_adjustment_columns.
SaveRule(r, text) ==
  /\ rule' = r /\ typed' = text
  /\ Recompute(r, unit)
  /\ UNCHANGED <<product, unit, quote>>

SaveMargin ==
  \E text \in Margins, s \in Settings :
    LET value == FromRupees(text) * RateScale IN
    /\ Magnitude(value) <= MaxValue
    /\ SaveRule(Rule("absolute", value, 0, s), text)

SaveShare ==
  \E bps \in Shares, s \in Settings : SaveRule(Rule("percentage", 0, bps, s), Nothing)

\* update_product, of the unit.
SetUnit_NoRecompute ==
  \E u \in Units \ {unit} :
    /\ unit' = u
    /\ UNCHANGED <<product, typed, rule, quote, row, behind>>

SetUnit ==
  \E u \in Units \ {unit} :
    /\ unit' = u
    /\ Recompute(rule, u)
    /\ UNCHANGED <<product, typed, rule, quote>>

Next == Quote \/ SaveMargin \/ SaveShare \/ SetUnit

Spec == Init /\ [][Next]_vars

-----------------------------------------------------------------------------
(* Properties.                                                             *)

Rules ==
  [step : Nat \ {0}, mode : Modes, precision : Nat \ {0},
   value : Int, kind : {"absolute", "percentage"}, bps : -BpsScale .. BpsScale]

TypeOK ==
  /\ product \in Products /\ unit \in Units /\ typed \in Texts
  /\ rule \in Rules
  /\ quote \in (Nat \ {0}) \cup {None}
  /\ row # None => row.mid \in Nat \ {0} /\ row.rule \in Rules /\ row.unit \in Units
  /\ behind \in BOOLEAN

\* The board holds the price of the last quote under the rule and the unit in
\* force, whichever of the three changed last: unless the engine or the database
\* refuses that price, or a change found no quote that it could use and no quote
\* has come since (publication_service.ts:442-461).
BoardIsCurrent ==
  (~behind /\ quote # None /\ Outcome(quote, rule, unit) = "published") =>
    row = ComputeCustomerRate(product, quote, rule, unit)

\* What the proofs need of any row and any rule: a row is the engine's own, of
\* the quote, the rule and the unit that it stands for, and a rule that adds an
\* amount holds the one that was typed.
RowInv == row # None => row = ComputeCustomerRate(product, row.mid, row.rule, row.unit)
PriceInv ==
  /\ TypeOK /\ RowInv
  /\ rule.kind = "absolute" => rule.value = FromRupees(typed) * RateScale

\* The reference: the multiple r of step that a mode means for num / den.
IsRounding(r, num, den, step, mode) ==
  /\ r % step = 0
  /\ mode = "floor" => r * den <= num /\ num < (r + step) * den
  /\ mode = "ceil"  => (r - step) * den < num /\ num <= r * den
  /\ mode \in {"half_up", "half_even"} =>
       (2 * r - step) * den <= 2 * num /\ 2 * num <= (2 * r + step) * den
  /\ mode = "half_up" =>
       /\ 2 * num = (2 * r + step) * den => num < 0
       /\ 2 * num = (2 * r - step) * den => num > 0
  /\ mode = "half_even" /\ 2 * num \in {(2 * r + step) * den, (2 * r - step) * den}
       => (r \div step) % 2 = 0

\* The customer rate is rounded once, from the exact total: it is the multiple
\* of the shop's step that the shop's mode picks for mid * purity + margin
\* (pricing_engine.ts:161-169).
RoundedOnce ==
  row # None =>
    LET exact == RawCustomer(product, row.mid, row.rule) IN
    IsRounding(row.rate_display, exact.num * Grams[row.unit],
               exact.den * RateScale, row.rule.step, row.rule.mode)

\* The margin that the shopkeeper typed is the one that the editor shows him
\* again, and the one that the page shows, in the page's unit and to the
\* precision of its lines, whatever the rate is rounded to (adjustment.ts:68-80,
\* ADR-0005).  At a precision of one paisa, or a divisor of the margin, it is
\* shown exactly; 2.50 to a precision of 100 paise is shown as 2.00.
MarginAsTyped ==
  /\ rule.kind = "absolute" => FromRupees(MilliPaiseToRupees(rule.value)) = FromRupees(typed)
  /\ (row # None /\ row.rule = rule /\ rule.kind = "absolute") =>
       LET shown == FromRupees(ToRupees(row.adjustment_display))
           meant == FromRupees(typed) * Grams[row.unit]
       IN  /\ IsRounding(shown, meant, 1, rule.precision, "half_even")
           /\ meant % rule.precision = 0 => shown = meant

\* The line that is called rounding is nothing but rounding: less than a step
\* of the rate and a step of each component.
ResidualIsRounding ==
  row # None =>
    LET slack == IF row.rule.mode \in {"ceil", "floor"} THEN 2 * row.rule.step - 1
                 ELSE row.rule.step
    IN 2 * Magnitude(row.rounding_delta) <= slack + 2 * row.rule.precision

\* The board follows the market: under one rule and one unit, a higher quote
\* never makes a lower rate.
FollowsMarket ==
  [][(row # None /\ row' # None /\ row'.rule = row.rule /\ row'.unit = row.unit
      /\ row'.mid >= row.mid) => row'.rate_display >= row.rate_display]_vars

\* migrations/20260920150000_pricing_breakdown_semantics/migration.sql:50
\* "The raw tier must reconcile exactly, with no residual at all".
RawTierBalances ==
  quote # None /\ Outcome(quote, rule, unit) # "rejected"
    => Balanced(ComputeCustomerRate(product, quote, rule, unit))
=============================================================================
