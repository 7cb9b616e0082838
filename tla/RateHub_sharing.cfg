SPECIFICATION Spec
CONSTANTS
  Viewers = {v1, v2, v3}
  Shops = {s1, s2}
  MaxListeners = 2
  MaxChannels = 3
INVARIANTS HubInv AttachedIsListening ShopNotPoisoned
CHECK_DEADLOCK FALSE
