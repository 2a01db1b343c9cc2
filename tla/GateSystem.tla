----------------------------- MODULE GateSystem -----------------------------
(***************************************************************************)
(* The gate path of the firmware: the status task polls and debounces the  *)
(* status line, app_main ticks the state machine, the HTTP server's one    *)
(* task accepts commands and pulses the relays over I2C, and the board may *)
(* be reset between any two steps.  Composes GateSM and StatusInput with   *)
(* the tasks of main.c, http_api.c and relay_i2c.c and with the relays.    *)
(*                                                                         *)
(* A task that is due runs up to Jitter later, which stands for the work   *)
(* of other tasks and for tick rounding.  Each call of a gate_sm handler   *)
(* is one step here; GateRace takes the calls apart.                       *)
(***************************************************************************)
EXTENDS StatusInput    \* its variables are those of status_input_task

CONSTANTS
  TravelTimeout, MinSpacing, ClockMod, MaxTime,   \* as in GateSM
  PollInterval,    \* POLL_INTERVAL_MS
  TickPeriod,      \* the delay of app_main's loop
  BootTime,        \* app_main reaches its loop within this time
  PulseTime,       \* cfg.pulse_ms
  DefaultPulse,    \* the initial value of s_pulse_ms
  XferTimeout,     \* RELAY_XFER_TIMEOUT_MS
  Jitter,          \* how late a due task may run
  MaxMoves,        \* bound: moves of the status line in one behaviour
  MaxFaults        \* bound: failed transmits and resets in one behaviour

ASSUME GateSystemAssumption ==
  /\ {TravelTimeout, MinSpacing, ClockMod, MaxTime} \subseteq Nat
  /\ MaxTime < ClockMod
  /\ {PollInterval, TickPeriod, BootTime, PulseTime, DefaultPulse,
      XferTimeout, Jitter, MaxMoves, MaxFaults} \subseteq Nat

VARIABLES
  state, last_cmd, last_cmd_ms, travel_start_ms,          \* gate_sm_t
  now, contact_ms, entered,                               \* as in GateSM
  line,        \* the level of the status line (TRUE: contact closed)
  line_ms,     \* history: since when it has it
  moves,       \* how often it moved
  next_poll,   \* when the status task is due
  booted,      \* app_main has reached its loop
  next_tick,   \* when app_main is due
  attached,    \* the relays relay_i2c_init attached
  handler,     \* httpd task: "idle", or transmitting "on", or in the "hold"
  pulsing,     \* httpd task: the relay being pulsed
  due,         \* httpd task: when that call is due to end
  answer,      \* the last HTTP answer to a command
  relay,       \* the relays' contacts (TRUE: closed); they outlive a reset
  closed_ms,   \* history: when a contact closed last in this boot, {} if never
  pulsed,      \* history: the contact of the latest command has closed
  faults       \* history: failed transmits and resets

Cmds == {"OPEN", "CLOSE"}

core   == <<state, last_cmd, last_cmd_ms, travel_start_ms, contact_ms, entered>>
input  == <<seeded, stable_open, candidate_open, candidate_count, next_poll>>
wire   == <<line, line_ms, moves>>
main   == <<booted, next_tick, attached>>
httpd  == <<handler, pulsing, due, answer>>
relays == <<relay, closed_ms, pulsed>>
vars   == <<core, now, input, wire, main, httpd, relays, faults>>

contact == IF ~seeded THEN "UNREAD" ELSE IF stable_open THEN "MADE" ELSE "BROKEN"

SM == INSTANCE GateSM

-----------------------------------------------------------------------------
(* Defective variants. *)

ServesWhilePulsing == TRUE
PollsSlowly == now + 3 * PollInterval
HoldsForSpacing == now + PulseTime + MinSpacing
OffErrorSwallowed == "accepted"
EveryReading == TRUE

-----------------------------------------------------------------------------
Init ==
  /\ StatusInit /\ SM!Init
  /\ line \in BOOLEAN /\ line_ms = 0 /\ moves = 0 /\ next_poll = 0
  /\ booted = FALSE /\ next_tick = BootTime /\ attached = {}
  /\ handler = "idle" /\ pulsing = "none" /\ due = 0 /\ answer = "none"
  /\ relay = [c \in Cmds |-> FALSE]
  /\ closed_ms = {} /\ pulsed = FALSE
  /\ faults = 0

(* The gate reaches or leaves the fully open position, or the contact      *)
(* chatters; the program does not see this happen.                         *)
LineMoves ==
  /\ moves < MaxMoves /\ moves' = moves + 1
  /\ line' = ~line /\ line_ms' = now
  /\ UNCHANGED <<core, now, input, main, httpd, relays, faults>>

(* status_input_task, its first reading: created with a higher priority    *)
(* than app_main's, the task takes it before app_main goes on.             *)
SeedStatus ==
  /\ Seed(line)
  /\ SM!OnStatusChange(line, now) /\ SM!Stamp /\ contact_ms' = now
  /\ next_poll' = now + PollInterval
  /\ UNCHANGED <<now, wire, main, httpd, relays, faults>>

NextPoll == now + PollInterval

EdgeConfirmed == Confirms(line)

(* status_input_task, one turn of its loop. *)
Poll ==
  /\ seeded /\ now >= next_poll
  /\ Sample(line)
  /\ next_poll' = NextPoll
  /\ IF EdgeConfirmed
       THEN SM!OnStatusChange(stable_open', now) /\ SM!Stamp /\ contact_ms' = now
       ELSE UNCHANGED core
  /\ UNCHANGED <<now, wire, main, httpd, relays, faults>>

(* app_main from i2c_bus_init_and_scan to its loop: relay_i2c_init attaches *)
(* OPEN, then CLOSE, and gives up at the first that fails.                 *)
Boot ==
  /\ ~booted /\ seeded
  /\ booted' = TRUE /\ next_tick' = now
  /\ attached' \in {{}, {"OPEN"}, Cmds}
  /\ UNCHANGED <<core, now, input, wire, httpd, relays, faults>>

NextTick == now + TickPeriod

(* app_main, one turn of its loop. *)
Tick ==
  /\ booted /\ now >= next_tick
  /\ SM!OnTick(now) /\ SM!Stamp /\ UNCHANGED contact_ms
  /\ next_tick' = NextTick
  /\ UNCHANGED <<now, input, wire, booted, attached, httpd, relays, faults>>

HandlerFree == handler = "idle"

(* POST /open and POST /close from an authorised client: the state machine *)
(* decides, and only an accepted command goes on to the relay.             *)
Accept(c) ==
  /\ booted /\ HandlerFree
  /\ SM!CmdResult(c, now) = "ACCEPTED"
  /\ SM!OnCmd(c, now) /\ SM!Stamp /\ UNCHANGED contact_ms
  /\ handler' = "on" /\ pulsing' = c /\ due' = now + XferTimeout
  /\ answer' = "none" /\ pulsed' = FALSE
  /\ UNCHANGED <<now, input, wire, main, relay, closed_ms, faults>>

Refuse(c) ==
  /\ booted /\ HandlerFree
  /\ SM!CmdResult(c, now) # "ACCEPTED"
  /\ SM!OnCmd(c, now) /\ SM!Stamp /\ UNCHANGED contact_ms
  /\ answer' = IF SM!CmdResult(c, now) = "IDEMPOTENT" THEN "idempotent" ELSE "throttled"
  /\ UNCHANGED <<now, input, wire, main, handler, pulsing, due, relays, faults>>

Answered(a) == handler' = "idle" /\ pulsing' = "none" /\ due' = 0 /\ answer' = a

Closes(c) ==
  /\ relay' = [relay EXCEPT ![c] = TRUE]
  /\ closed_ms' = {now}
  /\ pulsed' = TRUE

(* s_pulse_ms, configured only when both relays attached. *)
Width == IF attached = Cmds THEN PulseTime ELSE DefaultPulse

HoldEnds == now + Width

(* pulse(): a relay that is not attached fails at once. *)
PulseUnattached ==
  /\ handler = "on" /\ pulsing \notin attached
  /\ Answered("failed")
  /\ UNCHANGED <<core, now, input, wire, main, relays, faults>>

(* pulse(): the ON transmit succeeds and the hold begins. *)
OnSent ==
  /\ handler = "on" /\ pulsing \in attached
  /\ Closes(pulsing)
  /\ handler' = "hold" /\ due' = HoldEnds
  /\ UNCHANGED <<core, now, input, wire, main, pulsing, answer, faults>>

(* pulse(): the ON transmit fails, whether or not the relay took the byte; *)
(* no OFF is sent.                                                         *)
OnFailed ==
  /\ faults < MaxFaults /\ faults' = faults + 1
  /\ handler = "on" /\ pulsing \in attached
  /\ Closes(pulsing) \/ UNCHANGED relays
  /\ Answered("failed")
  /\ UNCHANGED <<core, now, input, wire, main>>

Opens(c) == relay' = [relay EXCEPT ![c] = FALSE]

(* pulse(): after the hold the OFF transmit succeeds. *)
OffSent ==
  /\ handler = "hold" /\ now >= due
  /\ Opens(pulsing)
  /\ Answered("accepted")
  /\ UNCHANGED <<core, now, input, wire, main, closed_ms, pulsed, faults>>

OffFailure == "failed"

(* pulse(): the OFF transmit fails, whether or not the relay took it. *)
OffFailed ==
  /\ faults < MaxFaults /\ faults' = faults + 1
  /\ handler = "hold" /\ now >= due
  /\ Opens(pulsing) \/ UNCHANGED relay
  /\ Answered(OffFailure)
  /\ UNCHANGED <<core, now, input, wire, main, closed_ms, pulsed>>

(* A reset: POST /reboot, an OTA install, the factory-reset button, a      *)
(* crash, or the power failing.  The program starts over; the relay boards *)
(* keep their contacts unless their own power went too.                    *)
Restart ==
  /\ faults < MaxFaults /\ faults' = faults + 1
  /\ SM!Blank(state', last_cmd', last_cmd_ms', travel_start_ms')
  /\ now' = 0 /\ contact_ms' = 0 /\ entered' = 0
  /\ seeded' = FALSE /\ stable_open' = FALSE
  /\ candidate_open' = FALSE /\ candidate_count' = 0
  /\ next_poll' = 0 /\ line_ms' = 0
  /\ booted' = FALSE /\ next_tick' = BootTime /\ attached' = {}
  /\ Answered("none")
  /\ closed_ms' = {} /\ pulsed' = FALSE
  /\ relay' \in {relay, [c \in Cmds |-> FALSE]}
  /\ UNCHANGED <<line, moves>>

(* Time passes while nobody is overdue. *)
Advance ==
  /\ now < MaxTime
  /\ now < next_poll + Jitter
  /\ now < next_tick + IF booted THEN Jitter ELSE 0
  /\ handler = "on"   => now < due + Jitter
  /\ handler = "hold" => now < due + XferTimeout + Jitter
  /\ now' = now + 1
  /\ UNCHANGED <<core, input, wire, main, httpd, relays, faults>>

Next ==
  \/ LineMoves \/ SeedStatus \/ Poll \/ Boot \/ Tick
  \/ \E c \in Cmds : Accept(c) \/ Refuse(c)
  \/ PulseUnattached \/ OnSent \/ OnFailed \/ OffSent \/ OffFailed
  \/ Restart \/ Advance

Spec == Init /\ [][Next]_vars

-----------------------------------------------------------------------------
(* Properties. *)

(* The gate path is the state machine driven as gate_sm.h asks: a seed     *)
(* first, then only edges, commands and ticks, each with the current time. *)
ImplementsGateSM == SM!Spec

(* No travel is reported for ever: app_main's loop settles every leg       *)
(* within one of its periods of the travel time, however often clients     *)
(* repeat their commands meanwhile; a leg that began while app_main was    *)
(* still busy with the bus scan may have to wait for the loop to begin.    *)
TravelBounded ==
  state \in SM!Moving =>
    \/ now <= entered + TravelTimeout + TickPeriod + Jitter
    \/ now <= BootTime + Jitter

LineSteady ==
  seeded /\ now > line_ms + DebounceSamples * (PollInterval + Jitter)

(* The line reaches the state machine: once it has been steady for the     *)
(* debounce time, OPEN is reported of an open gate unless a command came   *)
(* after that was noticed, and never of a gate that is not open.           *)
LineReported ==
  LineSteady =>
    IF line
      THEN state = "OPEN" \/ (last_cmd # "NONE" /\ contact_ms <= last_cmd_ms)
      ELSE state # "OPEN"

(* Without a failed transmit or a reset a relay's contact is closed only   *)
(* in the hold of its own pulse, so the two are never closed together.     *)
ClosedOnlyInPulse ==
  faults = 0 =>
    \A c \in Cmds : relay[c] => handler = "hold" /\ pulsing = c

(* "accepted" is answered only for a press the gate controller can have    *)
(* seen: the contact closed for the whole pulse and is open again.         *)
AcceptedMeansPressed ==
  [][(handler = "hold" /\ handler' = "idle" /\ answer' = "accepted") =>
       /\ ~relay'[pulsing]
       /\ \A t \in closed_ms : now >= t + Width]_vars

(* The gate motor is spared: two presses in one boot are MinSpacing apart  *)
(* up to the time a transmit may take, whatever became of the first one.   *)
PressesSpaced ==
  [][closed_ms' # closed_ms =>
       \A s \in closed_ms, t \in closed_ms' :
         t + XferTimeout + Jitter >= s + MinSpacing]_vars

(* The HTTP server's only task is held up by a command for no longer than  *)
(* two transmits and a pulse.                                              *)
AnsweredInTime ==
  handler # "idle" =>
    now <= last_cmd_ms + 2 * (XferTimeout + Jitter)
             + (IF PulseTime >= DefaultPulse THEN PulseTime ELSE DefaultPulse)

(* "idempotent" is answered to an OPEN because the gate is under way only  *)
(* after the press that set it off (gate_sm.h:75), unless the relay is     *)
(* missing or the pulse failed.                                            *)
IdempotentMeansPressed ==
  faults = 0 /\ "OPEN" \in attached /\ answer = "idempotent" /\ state = "OPENING" => pulsed
=============================================================================
