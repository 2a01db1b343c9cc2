---------------------------- MODULE MCGateSystem ----------------------------
(***************************************************************************)
(* Instances of GateSystem; the .cfg files choose the timing and the       *)
(* bounds.  The exploration ends at MaxTime; that time never gets stuck    *)
(* before it, with a task due that cannot run, is what TLC's deadlock      *)
(* check shows of this specification.                                      *)
(***************************************************************************)
EXTENDS GateSystem

Horizon == now = MaxTime /\ UNCHANGED vars

MCSpec == Init /\ [][Next \/ Horizon]_vars
=============================================================================
