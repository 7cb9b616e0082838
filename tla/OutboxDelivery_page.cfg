SPECIFICATION FairSpec
CONSTANTS
  Products = {p1}
  Drainers = {d1, d2}
  Pages = {b1}
  BatchSize = 2
  MaxId = 3
  MaxFailures = 1
  MaxDrops = 1
INVARIANT QuietMeansCurrent
PROPERTY FollowersCatchUp
CHECK_DEADLOCK FALSE
