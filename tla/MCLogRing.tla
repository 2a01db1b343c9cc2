------------------------------ MODULE MCLogRing ------------------------------
(* A small instance of LogRing.                                            *)
EXTENDS LogRing

CONSTANTS httpd, main
==============================================================================
