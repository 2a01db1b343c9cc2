--------------------------- MODULE StatusReadings ---------------------------
(***************************************************************************)
(* StatusInput with the readings it was given: recent holds the last       *)
(* DebounceSamples of them, the newest at 1, so that what the loop reports *)
(* is compared with the line itself rather than with the loop's counters.  *)
(***************************************************************************)
EXTENDS StatusInput

VARIABLE recent

Level(raw_open) == IF raw_open THEN "OPEN" ELSE "NOT_OPEN"

ReadInit == StatusInit /\ recent = [i \in 1 .. DebounceSamples |-> "UNREAD"]

Remember(raw_open) ==
  recent' = [i \in 1 .. DebounceSamples |->
               IF i = 1 THEN Level(raw_open) ELSE recent[i - 1]]

ReadNext ==
  \E raw_open \in BOOLEAN :
    (Seed(raw_open) \/ Sample(raw_open)) /\ Remember(raw_open)

ReadSpec == ReadInit /\ [][ReadNext]_<<status_vars, recent>>

-----------------------------------------------------------------------------
(* A steady line is never missed, whatever chatter came before it: once    *)
(* the last DebounceSamples readings agree the reported level is theirs.   *)
SteadyLineReported ==
  \A raw_open \in BOOLEAN :
    (\A i \in 1 .. DebounceSamples : recent[i] = Level(raw_open)) =>
      stable_open = raw_open
=============================================================================
