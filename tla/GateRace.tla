------------------------------ MODULE GateRace ------------------------------
(***************************************************************************)
(* The calls of GateSM taken apart.  gate_sm_t is a static of app_main     *)
(* that three tasks use with no lock: app_main ticks it (priority 1), the  *)
(* status task feeds it (3) and the HTTP server's task commands it (5).    *)
(* Here a call is the loads, tests and stores of its code: the time stamp  *)
(* is read before the call, each field is loaded where the code loads it,  *)
(* and the stores of one call reach memory one by one, in any order the    *)
(* compiler may choose for plain fields.                                   *)
(*                                                                         *)
(* overlap says which calls may overlap: on "two cores" any; on "one core" *)
(* a task runs only while no higher priority one is in a call; and         *)
(* "serial" lets none overlap, to show that the calls taken apart are the  *)
(* handlers of GateSM.  A behaviour keeps the one it starts with.          *)
(***************************************************************************)
EXTENDS Naturals

CONSTANTS
  TravelTimeout, MinSpacing, ClockMod, MaxTime,   \* as in GateSM
  Overlaps,    \* some of "serial", "one core" and "two cores"
  EdgeSpacing, \* the debounce: time from one edge to the next
  Skew         \* bound: the clock advances this much within one call

ASSUME GateRaceAssumption ==
  /\ {TravelTimeout, MinSpacing, ClockMod, MaxTime, EdgeSpacing, Skew} \subseteq Nat
  /\ MaxTime < ClockMod
  /\ Overlaps \subseteq {"serial", "one core", "two cores"}

VARIABLES
  overlap,                                         \* which calls may overlap
  state, last_cmd, last_cmd_ms, travel_start_ms,   \* gate_sm_t
  now, contact, contact_ms, entered,               \* as in GateSM
  at,        \* where each task is in its call
  stamp,     \* the time each task read before its call
  arg,       \* the argument of each task's call
  loaded,    \* the state app_main's tick has loaded
  todo,      \* the stores each task has yet to make: field -> value
  hasty,     \* history: a tick settled a leg well before its time
  before     \* history, of serial calls: the machine when the call began

Tasks  == {"main", "status", "httpd"}

sm    == <<state, last_cmd, last_cmd_ms, travel_start_ms>>
fed   == <<contact, contact_ms>>
local == <<at, stamp, arg, loaded, todo>>
vars  == <<overlap, sm, now, fed, entered, local, hasty, before>>

Idle(task) == at[task] = "idle"
Quiet == \A task \in Tasks : Idle(task)

Machine == [state |-> state, last_cmd |-> last_cmd, last_cmd_ms |-> last_cmd_ms,
            travel_start_ms |-> travel_start_ms, contact |-> contact,
            contact_ms |-> contact_ms, entered |-> entered]
Seen == IF Quiet THEN Machine ELSE before

SM == INSTANCE GateSM
Serial == INSTANCE GateSM WITH
  state <- Seen.state, last_cmd <- Seen.last_cmd,
  last_cmd_ms <- Seen.last_cmd_ms, travel_start_ms <- Seen.travel_start_ms,
  contact <- Seen.contact, contact_ms <- Seen.contact_ms, entered <- Seen.entered

-----------------------------------------------------------------------------
(* Defective variants. *)

LeavesClockRunning(t) == [f \in {"state"} |-> "CLOSING"]

-----------------------------------------------------------------------------
Init ==
  /\ overlap \in Overlaps
  /\ SM!Init
  /\ at = [task \in Tasks |-> "idle"]
  /\ stamp = [task \in Tasks |-> 0]
  /\ arg = [task \in Tasks |-> "none"]
  /\ loaded = "none"
  /\ todo = [task \in Tasks |-> << >>]
  /\ hasty = FALSE
  /\ before = Machine

Priority(task) == CASE task = "main" -> 1 [] task = "status" -> 3 [] task = "httpd" -> 5

CanRun(task) ==
  CASE overlap = "serial"    -> \A other \in Tasks \ {task} : Idle(other)
    [] overlap = "one core"  -> \A other \in Tasks :
                                  Priority(other) > Priority(task) => Idle(other)
    [] overlap = "two cores" -> TRUE

Call(task, argument) ==
  /\ CanRun(task) /\ Idle(task)
  /\ at' = [at EXCEPT ![task] = "entry"]
  /\ stamp' = [stamp EXCEPT ![task] = now]
  /\ arg' = [arg EXCEPT ![task] = argument]
  /\ before' = IF overlap = "serial" THEN Machine ELSE before
  /\ UNCHANGED <<overlap, sm, now, fed, entered, loaded, todo, hasty>>

Return(task) ==
  /\ at' = [at EXCEPT ![task] = "idle"]
  /\ stamp' = [stamp EXCEPT ![task] = 0]
  /\ arg' = [arg EXCEPT ![task] = "none"]
  /\ todo' = [todo EXCEPT ![task] = << >>]

GoTo(task, place) == at' = [at EXCEPT ![task] = place] /\ UNCHANGED <<stamp, arg, todo>>

(* From here on the call only has these stores left. *)
Stores(task, fields) ==
  /\ at' = [at EXCEPT ![task] = "stores"]
  /\ todo' = [todo EXCEPT ![task] = fields]
  /\ UNCHANGED <<stamp, arg>>

Quietly == UNCHANGED <<overlap, sm, now, fed, entered, hasty, before>>

(* One pending store reaches memory; the last one ends the call. *)
Store(task) ==
  /\ CanRun(task) /\ at[task] = "stores"
  /\ \E f \in DOMAIN todo[task] :
       LET v == todo[task][f]
           rest == DOMAIN todo[task] \ {f} IN
       /\ state' = IF f = "state" THEN v ELSE state
       /\ last_cmd' = IF f = "last_cmd" THEN v ELSE last_cmd
       /\ last_cmd_ms' = IF f = "last_cmd_ms" THEN v ELSE last_cmd_ms
       /\ travel_start_ms' = IF f = "travel_start_ms" THEN v ELSE travel_start_ms
       /\ IF rest = {}
            THEN Return(task)
            ELSE /\ todo' = [todo EXCEPT ![task] = [g \in rest |-> todo[task][g]]]
                 /\ UNCHANGED <<at, stamp, arg>>
       /\ IF rest = {} /\ task = "status"
            THEN contact' = arg[task] /\ contact_ms' = now
            ELSE UNCHANGED fed
  /\ entered' = IF state' # state THEN now ELSE entered
  /\ hasty' = (hasty \/ (task = "main" /\ state \in SM!Moving
                           /\ now + Skew < entered + TravelTimeout))
  /\ UNCHANGED <<overlap, now, loaded, before>>

-----------------------------------------------------------------------------
(* app_main: gate_sm_on_tick. *)

(* app_main reaches its loop after the status task's first reading. *)
TickCall == contact # "UNREAD" /\ Call("main", "none")

TickLoadsState ==
  /\ CanRun("main") /\ at["main"] = "entry"
  /\ IF state \in SM!Moving
       THEN GoTo("main", "start") /\ loaded' = state
       ELSE Return("main") /\ UNCHANGED loaded
  /\ Quietly

TickLoadsStart ==
  /\ CanRun("main") /\ at["main"] = "start"
  /\ IF SM!Expired(stamp["main"]) THEN GoTo("main", "again") ELSE Return("main")
  /\ UNCHANGED loaded
  /\ Quietly

(* The second test of the state: of the value loaded, or loaded again. *)
TickChooses ==
  /\ CanRun("main") /\ at["main"] = "again"
  /\ \E s \in {loaded, state} :
       Stores("main", [f \in {"state"} |-> SM!SettlesAs(s)])
  /\ loaded' = "none"
  /\ Quietly

(* status_input_task: gate_sm_on_status_change, for the first reading and  *)
(* for every edge after it.                                                *)

StatusCall(is_fully_open) ==
  /\ contact # SM!Level(is_fully_open)
  /\ contact # "UNREAD" => now >= contact_ms + EdgeSpacing
  /\ Call("status", SM!Level(is_fully_open))

Leaving(t) ==
  [f \in {"state", "travel_start_ms"} |-> IF f = "state" THEN "CLOSING" ELSE t]

StatusLoadsState ==
  /\ CanRun("status") /\ at["status"] = "entry"
  /\ CASE arg["status"] = "MADE" -> Stores("status", [f \in {"state"} |-> "OPEN"])
       [] arg["status"] = "BROKEN" /\ state = "UNKNOWN" ->
            Stores("status", [f \in {"state"} |-> "CLOSED"])
       [] arg["status"] = "BROKEN" /\ state = "OPEN" ->
            Stores("status", Leaving(stamp["status"]))
       [] OTHER -> Return("status")
  /\ IF at'["status"] = "idle"
       THEN contact' = arg["status"] /\ contact_ms' = now
       ELSE UNCHANGED fed
  /\ UNCHANGED <<overlap, sm, now, entered, loaded, hasty, before>>

(* The HTTP server's task: gate_sm_on_cmd_open and gate_sm_on_cmd_close.   *)
(* No other task stores last_cmd and last_cmd_ms.                          *)

CmdCall(cmd) == contact # "UNREAD" /\ Call("httpd", cmd)

Accepting(cmd, t) ==
  [f \in {"state", "last_cmd", "last_cmd_ms", "travel_start_ms"} |->
     CASE f = "state" -> SM!HeadingFor(cmd)
       [] f = "last_cmd" -> cmd
       [] OTHER -> t]

CmdLoadsState ==
  /\ CanRun("httpd") /\ at["httpd"] = "entry"
  /\ IF SM!CmdResult(arg["httpd"], stamp["httpd"]) = "ACCEPTED"
       THEN Stores("httpd", Accepting(arg["httpd"], stamp["httpd"]))
       ELSE Return("httpd")
  /\ UNCHANGED loaded
  /\ Quietly

-----------------------------------------------------------------------------
Advance ==
  /\ now < MaxTime
  /\ \A task \in Tasks : ~Idle(task) =>
       overlap # "serial" /\ now < stamp[task] + Skew
  /\ now' = now + 1
  /\ UNCHANGED <<overlap, sm, fed, entered, local, hasty, before>>

Next ==
  \/ TickCall \/ TickLoadsState \/ TickLoadsStart \/ TickChooses
  \/ \E is_fully_open \in BOOLEAN : StatusCall(is_fully_open)
  \/ StatusLoadsState
  \/ \E cmd \in SM!Cmds : CmdCall(cmd)
  \/ CmdLoadsState
  \/ \E task \in Tasks : Store(task)
  \/ Advance

Spec == Init /\ [][Next]_vars

-----------------------------------------------------------------------------
(* Properties. *)

(* Calls that do not overlap are the handlers of GateSM: the loads and     *)
(* stores of a call add up to its one step there.                          *)
SerialCallsImplementGateSM ==
  /\ overlap = "serial" => Serial!Init
  /\ [][overlap = "serial" => Serial!Next]_(Serial!vars)

(* Whatever overlaps, no race makes the machine report an open gate whose  *)
(* contact is not made: at rest OPEN agrees with the last edge fed.        *)
OpenNeedsContact ==
  state = "OPEN" /\ Idle("status") => contact = "MADE"

(* Whatever overlaps, no leg is left with the clock of an earlier one: at  *)
(* rest a moving gate is timed from when it set off or from before that,   *)
(* by the length of two calls at the most.                                 *)
TravelClockNear ==
  Quiet /\ state \in SM!Moving =>
    /\ entered <= travel_start_ms + 2 * Skew
    /\ travel_start_ms <= entered

-----------------------------------------------------------------------------
(* Claims of comments in the code that this model refutes. *)

(* gate_sm.h:126: the tick is "Safe to call as often as you like;          *)
(* internally it only acts when in a moving state and the timeout has      *)
(* elapsed."  No tick ends a leg that is more than the length of a call    *)
(* short of its travel time.                                               *)
TickWaitsForTimeout == ~hasty
=============================================================================
