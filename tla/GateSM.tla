------------------------------- MODULE GateSM -------------------------------
(***************************************************************************)
(* The gate state machine of main/gate_sm.c.  The gate controller exposes  *)
(* one bit ("the gate is fully open"), so the state is reconstructed from  *)
(* that bit, from the commands accepted and from a travel timer.           *)
(*                                                                         *)
(* OnCmd, OnStatusChange and OnTick are the handlers: they take the time   *)
(* stamp their caller read and constrain the fields of gate_sm_t only, so  *)
(* that GateSystem and GateRace build on the same definitions.  The        *)
(* actions below them call a handler with the current time, which is the   *)
(* contract of gate_sm.h: one caller at a time and a monotonic clock.      *)
(***************************************************************************)
EXTENDS Naturals

CONSTANTS
  TravelTimeout,   \* config.travel_timeout_ms
  MinSpacing,      \* config.min_cmd_spacing_ms
  ClockMod,        \* 2^64: time stamps are uint64_t and so is their difference
  MaxTime          \* bound: how long one boot is explored

ASSUME GateSMAssumption ==
  /\ TravelTimeout \in Nat
  /\ MinSpacing \in Nat
  /\ MaxTime \in Nat
  /\ ClockMod \in Nat
  /\ MaxTime < ClockMod

VARIABLES
  state,           \* sm->state
  last_cmd,        \* sm->last_cmd
  last_cmd_ms,     \* sm->last_cmd_ms
  travel_start_ms, \* sm->travel_start_ms
  now,             \* the millisecond clock of this boot
  contact,         \* history: the status last fed to gate_sm_on_status_change
  contact_ms,      \* history: when it was fed
  entered          \* history: when state last changed

sm == <<state, last_cmd, last_cmd_ms, travel_start_ms>>
history == <<contact, contact_ms, entered>>
vars == <<sm, now, history>>

Cmds     == {"OPEN", "CLOSE"}
States   == {"UNKNOWN", "CLOSED", "OPENING", "OPEN", "CLOSING", "STOPPED"}
Contacts == {"UNREAD", "MADE", "BROKEN"}
Moving   == {"OPENING", "CLOSING"}
Level(is_fully_open) == IF is_fully_open THEN "MADE" ELSE "BROKEN"

-----------------------------------------------------------------------------
(* Defective variants, each the code with one plausible bug. *)

ReversesAtOnce(t) ==
  state \in Moving \/ last_cmd = "NONE" \/ (t - last_cmd_ms) >= MinSpacing
ExpiredEarly(t) == (t - travel_start_ms) + 1 >= TravelTimeout
AssumesOpened(s) == IF s = "OPENING" THEN "OPEN" ELSE "CLOSED"
RetryRestartsTravel(t) ==
  travel_start_ms' = t /\ UNCHANGED <<state, last_cmd, last_cmd_ms>>
OpenIgnoredOnceClosed == state' = IF state = "CLOSED" THEN "CLOSED" ELSE "OPEN"

-----------------------------------------------------------------------------
(* The handlers. *)

(* now_ms - stamp in uint64_t: a stamp later than the caller's now wraps.   *)
Elapsed(t, stamp) == IF stamp <= t THEN t - stamp ELSE (t + ClockMod) - stamp

CmdSpacingOk(t) == last_cmd = "NONE" \/ Elapsed(t, last_cmd_ms) >= MinSpacing

HeadingFor(cmd) == IF cmd = "OPEN" THEN "OPENING" ELSE "CLOSING"

(* The states in which the gate is there, or heading there, already. *)
Satisfying(cmd) ==
  IF cmd = "OPEN" THEN {"OPEN", "OPENING"} ELSE {"CLOSED", "CLOSING"}

CmdResult(cmd, t) ==
  CASE state \in Satisfying(cmd) -> "IDEMPOTENT"
    [] state \notin Satisfying(cmd) /\ ~CmdSpacingOk(t) -> "THROTTLED"
    [] OTHER -> "ACCEPTED"

Refused(t) == UNCHANGED sm

(* gate_sm_on_cmd_open and gate_sm_on_cmd_close. *)
OnCmd(cmd, t) ==
  \/ /\ CmdResult(cmd, t) = "ACCEPTED"
     /\ state' = HeadingFor(cmd)
     /\ last_cmd' = cmd
     /\ last_cmd_ms' = t
     /\ travel_start_ms' = t
  \/ CmdResult(cmd, t) # "ACCEPTED" /\ Refused(t)

BecomesOpen == state' = "OPEN"

LeavesOpen(t) == state' = "CLOSING" /\ travel_start_ms' = t

OnStatusChange(is_fully_open, t) ==
  /\ UNCHANGED <<last_cmd, last_cmd_ms>>
  /\ \/ is_fully_open /\ BecomesOpen /\ UNCHANGED travel_start_ms
     \/ ~is_fully_open /\ state = "OPEN" /\ LeavesOpen(t)
     \/ /\ ~is_fully_open /\ state = "UNKNOWN"
        /\ state' = "CLOSED" /\ UNCHANGED travel_start_ms
     \/ /\ ~is_fully_open /\ state \notin {"OPEN", "UNKNOWN"}
        /\ UNCHANGED <<state, travel_start_ms>>

Expired(t) == Elapsed(t, travel_start_ms) >= TravelTimeout

(* An opening that never reached the contact stopped; a closing is assumed *)
(* to have closed, no sensor can tell.                                     *)
SettlesAs(s) == IF s = "OPENING" THEN "STOPPED" ELSE "CLOSED"

OnTick(t) ==
  /\ UNCHANGED <<last_cmd, last_cmd_ms, travel_start_ms>>
  /\ \/ state \in Moving /\ Expired(t) /\ state' = SettlesAs(state)
     \/ ~(state \in Moving /\ Expired(t)) /\ UNCHANGED state

(* gate_sm_init. *)
Blank(s, cmd, cmd_ms, travel_ms) ==
  s = "UNKNOWN" /\ cmd = "NONE" /\ cmd_ms = 0 /\ travel_ms = 0

-----------------------------------------------------------------------------
(* The machine driven as gate_sm.h asks. *)

Init ==
  /\ Blank(state, last_cmd, last_cmd_ms, travel_start_ms)
  /\ now = 0 /\ entered = 0
  /\ contact = "UNREAD" /\ contact_ms = 0

Stamp == entered' = IF state' = state THEN entered ELSE now

Cmd(cmd) ==
  /\ OnCmd(cmd, now) /\ Stamp
  /\ UNCHANGED <<now, contact, contact_ms>>

(* The first reading after boot, then every edge. *)
StatusChange(is_fully_open) ==
  /\ contact # Level(is_fully_open)
  /\ OnStatusChange(is_fully_open, now) /\ Stamp
  /\ contact' = Level(is_fully_open) /\ contact_ms' = now
  /\ UNCHANGED now

Tick ==
  /\ OnTick(now) /\ Stamp
  /\ UNCHANGED <<now, contact, contact_ms>>

Advance ==
  /\ now < MaxTime
  /\ now' = now + 1
  /\ UNCHANGED <<sm, history>>

(* A reset starts the program over, its clock included. *)
Restart ==
  /\ Blank(state', last_cmd', last_cmd_ms', travel_start_ms')
  /\ now' = 0 /\ entered' = 0
  /\ contact' = "UNREAD" /\ contact_ms' = 0

Next ==
  \/ \E cmd \in Cmds : Cmd(cmd)
  \/ \E is_fully_open \in BOOLEAN : StatusChange(is_fully_open)
  \/ Tick
  \/ Advance
  \/ Restart

Spec == Init /\ [][Next]_vars

-----------------------------------------------------------------------------
(* Properties. *)

(* Every field has its type and every time stamp is a time of this boot. *)
TypeOK ==
  /\ state \in States
  /\ last_cmd \in Cmds \union {"NONE"}
  /\ contact \in Contacts
  /\ now \in 0 .. MaxTime
  /\ last_cmd_ms \in 0 .. now
  /\ travel_start_ms \in 0 .. now
  /\ contact_ms \in 0 .. now
  /\ entered \in 0 .. now

(* The bit is the only evidence of OPEN: no command and no timer reports a *)
(* gate open whose contact is not made.                                    *)
OpenMeansContact == state = "OPEN" => contact = "MADE"

(* While the contact is made the machine reports anything but OPEN only    *)
(* because a command was accepted after the contact made: neither an old   *)
(* command nor the timer of an earlier leg can hide an arrival.            *)
OnlyACommandMasksContact ==
  contact = "MADE" /\ state # "OPEN" =>
    last_cmd # "NONE" /\ contact_ms <= last_cmd_ms

(* Every leg is timed from the moment the gate set off on it, also when it *)
(* reverses under way or is moved by a keypad the program never hears of.  *)
TravelTimedFromItsStart == state \in Moving => travel_start_ms = entered

(* STOPPED accuses the gate: it is reported only for an OPEN command that  *)
(* is the latest command and had the whole travel time to be answered.     *)
StoppedMeansUnanswered ==
  state = "STOPPED" =>
    /\ last_cmd = "OPEN"
    /\ entered - last_cmd_ms >= TravelTimeout

(* A moving gate is never settled by the timer before it has been moving   *)
(* that way for the whole travel time.                                     *)
NeverSettledEarly ==
  [][(state \in Moving /\ state' \in {"STOPPED", "CLOSED"})
       => now - entered >= TravelTimeout]_vars

(* Two commands accepted in one boot, whatever happened between them (an   *)
(* edge, a timeout, refused commands), are MinSpacing apart.               *)
CommandsSpaced ==
  [][last_cmd # "NONE" /\ now' = now /\ last_cmd_ms' # last_cmd_ms
       => last_cmd_ms' - last_cmd_ms >= MinSpacing]_vars
=============================================================================
