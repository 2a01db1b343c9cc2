----------------------------- MODULE MCGateRace -----------------------------
(* Instances of GateRace; the .cfg files choose the scheduling. *)
EXTENDS GateRace

Horizon == now = MaxTime /\ UNCHANGED vars

MCSpec == Init /\ [][Next \/ Horizon]_vars
=============================================================================
