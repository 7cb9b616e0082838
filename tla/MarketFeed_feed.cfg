SPECIFICATION FairSpec
CONSTANTS
  gold = gold
  silver = silver
  NoQuote = NoQuote
  Listed <- OneMetal
  Prices <- FewPrices
  StartMid = 1000
  MaxMove = 500
  Drift = 15
  Window = 1
  StaleAfter = 0
  ExpiredAfter = 1
  MaxSeq = 2
  MaxTime = 2
  MaxFaults = 2
INVARIANTS BacklogInv ReadyMeansPriceable
PROPERTIES ImplementsOrder BacklogDrains
CHECK_DEADLOCK FALSE
