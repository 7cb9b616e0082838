SPECIFICATION Spec
CONSTANTS
  RateScale = 2
  PaisePerRupee = 4
  BpsScale = 4
  Units <- SomeUnits
  Grams <- SomeGrams
  Products <- SomeProducts
  Amounts <- SomeAmounts
  SourceUnit = "per_10_gram"
  Margins <- SomeMargins
  Shares <- SomeShares
  MaxValue = 100
  Settings <- SomeSettings
  None = None
INVARIANT RawTierBalances
