---------------------------- MODULE MCMarketFeed ----------------------------
(* MarketFeed with two symbols and prices a drift, and a jump, apart. *)
EXTENDS MarketFeed

CONSTANTS gold, silver

TwoMetals == <<gold, silver>>
OneMetal  == <<gold>>
FewPrices == {1000, 1001, 1100}
=============================================================================
