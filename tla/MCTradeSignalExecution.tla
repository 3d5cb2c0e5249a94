----------------------- MODULE MCTradeSignalExecution -----------------------
(* Three signals: two on one account and symbol, one on another; values for  *)
(* the constants that a configuration file cannot write.                     *)
EXTENDS TradeSignalExecution

TwoKeys == [s \in Signals |-> IF s = 2 THEN "acc:ETH" ELSE "acc:BTC"]
=============================================================================
