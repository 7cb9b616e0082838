SPECIFICATION Spec
CONSTANTS
  Replicas = {r1, r2}
  Requests = {c1, c2}
  Products = {p1}
  NoOne = NoOne
  NoProduct = NoProduct
  MaxQuote = 2
  MaxRev = 3
  Lag = 1
  MaxHandovers = 1
  MaxAborts = 1
  MaxRestarts = 0
  Unpriceable <- SomeUnpriceable
INVARIANTS BoardIsNewestEntry RatesOfCommittedRules
PROPERTIES ImplementsLog 
SYMMETRY Symmetry
