---------------------------- MODULE MCBinanceFeed ----------------------------
(* Values for the constants of BinanceFeed.                                 *)
EXTENDS BinanceFeed

CONSTANTS btc, eth

OneSymbol  == <<btc>>
TwoSymbols == <<btc, eth>>
=============================================================================
