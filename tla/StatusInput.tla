---------------------------- MODULE StatusInput ----------------------------
(***************************************************************************)
(* The debouncer of main/status_input.c: a task that reads the status line *)
(* once at boot and then at every poll, and reports an edge once           *)
(* DebounceSamples consecutive readings agree on it.                       *)
(*                                                                         *)
(* The line is read as a Boolean, TRUE when the contact is closed (the     *)
(* gate is fully open); the polls are the steps of this module, how far    *)
(* apart they are is GateSystem's.                                         *)
(***************************************************************************)
EXTENDS Naturals

CONSTANT DebounceSamples    \* DEBOUNCE_SAMPLES

ASSUME DebounceAssumption ==
  DebounceSamples \in Nat /\ DebounceSamples >= 2

VARIABLES
  seeded,           \* the task has taken its first reading
  stable_open,      \* stable_open
  candidate_open,   \* candidate_open
  candidate_count   \* candidate_count

status_vars == <<seeded, stable_open, candidate_open, candidate_count>>

-----------------------------------------------------------------------------
(* Defective variants. *)

ConfirmsEarly(raw_open) ==
  /\ raw_open # stable_open
  /\ raw_open = candidate_open
  /\ candidate_count + 2 >= DebounceSamples
RestartsOnEveryReading(raw_open) ==
  /\ raw_open # stable_open /\ raw_open = candidate_open
  /\ candidate_count + 1 < DebounceSamples
  /\ candidate_count' = 1
  /\ UNCHANGED <<stable_open, candidate_open>>
CandidateNotSeeded(raw_open) ==
  /\ ~seeded /\ seeded' = TRUE
  /\ stable_open' = raw_open /\ candidate_open' = TRUE
  /\ candidate_count' = 1

-----------------------------------------------------------------------------
(* Before the task runs; a static initial value is never read. *)
StatusInit ==
  /\ seeded = FALSE
  /\ stable_open = FALSE /\ candidate_open = FALSE /\ candidate_count = 0

(* The reading before the loop: fed to the state machine as it is. *)
Seed(raw_open) ==
  /\ ~seeded
  /\ seeded' = TRUE
  /\ stable_open' = raw_open /\ candidate_open' = raw_open
  /\ candidate_count' = 0

(* The reading that confirms an edge and feeds it to the state machine. *)
Confirms(raw_open) ==
  /\ raw_open # stable_open
  /\ raw_open = candidate_open
  /\ candidate_count + 1 >= DebounceSamples

Unchanging(raw_open) ==
  /\ raw_open = stable_open
  /\ candidate_count' = 0
  /\ UNCHANGED <<stable_open, candidate_open>>

NewCandidate(raw_open) ==
  /\ raw_open # stable_open /\ raw_open # candidate_open
  /\ candidate_open' = raw_open
  /\ candidate_count' = 1
  /\ UNCHANGED stable_open

StillCandidate(raw_open) ==
  /\ raw_open # stable_open /\ raw_open = candidate_open
  /\ ~Confirms(raw_open)
  /\ candidate_count' = candidate_count + 1
  /\ UNCHANGED <<stable_open, candidate_open>>

Edge(raw_open) ==
  /\ Confirms(raw_open)
  /\ stable_open' = candidate_open
  /\ candidate_count' = 0
  /\ UNCHANGED candidate_open

(* One turn of the loop. *)
Sample(raw_open) ==
  /\ seeded
  /\ \/ Unchanging(raw_open)
     \/ NewCandidate(raw_open)
     \/ StillCandidate(raw_open)
     \/ Edge(raw_open)
  /\ UNCHANGED seeded

StatusNext == \E raw_open \in BOOLEAN : Seed(raw_open) \/ Sample(raw_open)

StatusSpec == StatusInit /\ [][StatusNext]_status_vars

-----------------------------------------------------------------------------
(* The fields have their types and a pending edge contradicts the reported *)
(* level, so the count never speaks of a candidate already accepted.       *)
StatusTypeOK ==
  /\ seeded \in BOOLEAN /\ stable_open \in BOOLEAN /\ candidate_open \in BOOLEAN
  /\ candidate_count \in 0 .. DebounceSamples - 1
  /\ candidate_count > 0 => candidate_open # stable_open

(* What the task promises: the level reported changes exactly when the     *)
(* last DebounceSamples readings all contradict it.  Refined by this loop  *)
(* although the loop keeps a candidate and counts, rather than readings.   *)
Promise == INSTANCE Debounce WITH run <- candidate_count
Debounces == Promise!Spec
=============================================================================
