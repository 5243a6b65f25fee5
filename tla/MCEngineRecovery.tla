-------------------------- MODULE MCEngineRecovery --------------------------
EXTENDS EngineRecovery

CONSTANTS OrderIds, Prices, Lots

(* All orders come from participant 1.                                     *)
Someone == [who |-> 1, desk |-> 0]

MCFrames ==
  [cancel : {FALSE}, id : OrderIds, own : {TRUE}, side : {"buy", "sell"},
   price : Prices, lots : Lots, tif : {"GTC"}, from : {Someone}]
  \cup [cancel : {TRUE}, id : OrderIds, from : {Someone}]
=============================================================================
