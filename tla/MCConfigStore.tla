---------------------------- MODULE MCConfigStore ----------------------------
(* A small instance of ConfigStore; the bounds are in the .cfg file. *)
EXTENDS ConfigStore
==============================================================================
