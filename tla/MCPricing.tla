----------------------------- MODULE MCPricing -----------------------------
(* Pricing with scales so small that every tie and every remainder occurs. *)
EXTENDS Pricing

SomeUnits == {"per_gram", "per_10_gram"}
SomeGrams == [u \in SomeUnits |-> IF u = "per_gram" THEN 1 ELSE 2]

Fineness(n) == [num |-> n, den |-> 10]

\* Karat jewellery by convention, bullion by the ratio of the finenesses.
SomeProducts ==
  {[from |-> Fineness(9), to |-> Fineness(7), basis |-> "market_convention"],
   [from |-> Fineness(9), to |-> Fineness(8), basis |-> "fine_ratio"]}

Rupees(sign, n) == [negative |-> sign, whole |-> n \div 4, fraction |-> n % 4]
SomeAmounts == {Rupees(FALSE, n) : n \in {0, 5, 6, 7}}
SomeMargins == {Rupees(FALSE, 3), Rupees(TRUE, 6)}
Setting(step, mode, precision) ==
  [step |-> step, mode |-> mode, precision |-> precision]
SomeSettings == {Setting(1, "half_even", 1), Setting(3, "half_up", 1),
                 Setting(3, "ceil", 2), Setting(2, "floor", 1), Setting(2, "half_even", 3)}
SomeShares  == {-1, 3}
=============================================================================
