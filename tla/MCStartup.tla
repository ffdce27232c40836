------------------------------ MODULE MCStartup ------------------------------
(* Values for the constants of Startup.                                     *)
EXTENDS Startup

CONSTANTS btc, eth

KrakenOnly    == {<<Kraken>>}
EitherOrder   == {<<Kraken, Binance>>, <<Binance, Kraken>>}
=============================================================================
