CONSTANTS
  r1 = r1
  r2 = r2
  Replicas = {r1, r2}
  NoHolder = NoHolder
  Ttl = 8
  RenewInterval = 1
  RetryInterval = 4
  MaxDelay = 1
  MaxFailures = 1
  MaxFence = 3
SPECIFICATION FairSpec
INVARIANTS LeaseInv LeaderHoldsLease FencingTokensDiffer
PROPERTIES SuccessorUndisturbed SomeoneLeads
