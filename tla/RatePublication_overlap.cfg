SPECIFICATION FairSpec
CONSTANTS
  Replicas = {r1, r2}
  Requests = {}
  Products = {p1, p2}
  NoOne = NoOne
  NoProduct = NoProduct
  MaxQuote = 1
  MaxRev = 1
  Lag = 0
  MaxHandovers = 2
  MaxAborts = 1
  MaxRestarts = 1
  Unpriceable = {}
INVARIANT LogInv
PROPERTY WorkEnds
