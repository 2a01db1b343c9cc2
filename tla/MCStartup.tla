------------------------------ MODULE MCStartup ------------------------------
(* A small instance of Startup; the bounds are in the .cfg files.          *)
EXTENDS Startup
==============================================================================
