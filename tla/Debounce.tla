------------------------------ MODULE Debounce ------------------------------
(***************************************************************************)
(* What a debounced input promises, without a candidate: it holds a level  *)
(* and gives it up for the other one at the DebounceSamples-th reading in  *)
(* a row that contradicts it, no earlier and no later.                     *)
(***************************************************************************)
EXTENDS Naturals

CONSTANT DebounceSamples

VARIABLES
  seeded,        \* the first reading was taken
  stable_open,   \* the level reported
  run            \* how many readings in a row contradicted it

vars == <<seeded, stable_open, run>>

Init == seeded = FALSE /\ stable_open = FALSE /\ run = 0

First(raw_open) ==
  /\ ~seeded /\ seeded' = TRUE
  /\ stable_open' = raw_open
  /\ run' = 0

Agrees(raw_open) ==
  /\ raw_open = stable_open
  /\ run' = 0 /\ UNCHANGED stable_open

Contradicts(raw_open) ==
  /\ raw_open # stable_open
  /\ IF run + 1 = DebounceSamples
       THEN stable_open' = raw_open /\ run' = 0
       ELSE run' = run + 1 /\ UNCHANGED stable_open

Next ==
  \E raw_open \in BOOLEAN :
    \/ First(raw_open)
    \/ seeded /\ UNCHANGED seeded /\ (Agrees(raw_open) \/ Contradicts(raw_open))

Spec == Init /\ [][Next]_vars
=============================================================================
