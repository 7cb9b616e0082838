SPECIFICATION FairSpec
CONSTANTS
  Products = {p1, p2}
  Drainers = {d1, d2}
  Pages = {}
  BatchSize = 2
  MaxId = 4
  MaxFailures = 1
  MaxDrops = 0
INVARIANTS DrainInv NoOvertaking
PROPERTY EveryRateDelivered
CHECK_DEADLOCK FALSE
