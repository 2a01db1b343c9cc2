----------------------------- MODULE ResetButton -----------------------------
(***************************************************************************)
(* main/reset_btn_sm.c: the state machine of the factory-reset button, fed *)
(* with the button's level and the time at every poll.  Only the           *)
(* difference now_ms - press_start_ms is ever used; it is kept as "held",  *)
(* up to the threshold.                                                    *)
(***************************************************************************)
EXTENDS Naturals

CONSTANT Hold     \* hold_threshold_ms

ASSUME HoldAssumption == Hold \in Nat \ {0}

Machines == [prev_pressed : BOOLEAN, held : 0 .. Hold, fired : BOOLEAN]

(* Defective variants. *)
StaysPressed(sm) == [sm EXCEPT !.fired = FALSE]

Blank == [prev_pressed |-> FALSE, held |-> 0, fired |-> FALSE]

(* d has passed since the last poll. *)
Aged(sm, d) == [sm EXCEPT !.held = IF @ + d < Hold THEN @ + d ELSE Hold]

Released(sm) == [sm EXCEPT !.prev_pressed = FALSE, !.fired = FALSE]
PressBegins(sm) == [sm EXCEPT !.prev_pressed = TRUE, !.held = 0]

Fires(sm, pressed) == pressed /\ sm.prev_pressed /\ ~sm.fired /\ sm.held >= Hold

(* The machine after reset_btn_sm_update(sm, pressed, now). *)
Update(sm, pressed) ==
  IF ~pressed THEN Released(sm)
  ELSE IF ~sm.prev_pressed THEN PressBegins(sm)
  ELSE [sm EXCEPT !.fired = @ \/ Fires(sm, pressed)]
==============================================================================
