------------------------------ MODULE MCGateSM ------------------------------
(* Instance of GateSM: a travel of 4 units, commands 3 apart, 10 units of  *)
(* time, enough for two whole travels and a reversal in each.              *)
EXTENDS GateSM
=============================================================================
