----------------------------- MODULE MCRelaySetup -----------------------------
(* A small instance of RelaySetup; the addresses are in the .cfg file.     *)
EXTENDS RelaySetup
==============================================================================
