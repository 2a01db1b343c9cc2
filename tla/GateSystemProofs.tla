-------------------------- MODULE GateSystemProofs --------------------------
(***************************************************************************)
(* Proofs about GateSystem for every timing, and about the debouncer that  *)
(* is a part of it for every number of samples: the gate path implements   *)
(* GateSM, a travel is settled in time, a press is long enough, alone and  *)
(* spaced from the one before it, and a steady line is reported.           *)
(***************************************************************************)
EXTENDS GateSystem, StatusReadings, TLAPS

(* What the proofs need of the types. *)
Types ==
  /\ now \in Nat /\ entered \in 0 .. now
  /\ last_cmd_ms \in 0 .. now /\ travel_start_ms \in 0 .. now
  /\ line \in BOOLEAN /\ stable_open \in BOOLEAN
  /\ next_tick \in Nat /\ due \in Nat /\ faults \in Nat
  /\ handler \in {"idle", "on", "hold"}
  /\ handler # "idle" => pulsing \in Cmds
  /\ relay \in [Cmds -> BOOLEAN]
  /\ closed_ms \in SUBSET Nat

(* GateSM's invariant, needed here to read a timeout off travel_start_ms.  *)
TravelTimed == state \in SM!Moving => travel_start_ms = entered

(* app_main is never later than Jitter, and its next turn comes within a   *)
(* period of the end of the travel time, or else is its first one.         *)
TickSoon ==
  /\ next_tick <= now + TickPeriod \/ next_tick <= BootTime
  /\ now <= next_tick + IF booted THEN Jitter ELSE 0
  /\ state \in SM!Moving =>
       \/ next_tick <= entered + TravelTimeout + TickPeriod
       \/ next_tick <= BootTime

(* Where a command's call is, in time. *)
CallTimed ==
  /\ handler # "idle" => booted
  /\ handler = "on" => due = last_cmd_ms + XferTimeout /\ now <= due + Jitter
  /\ handler = "hold" =>
       /\ \A t \in closed_ms : due = t + Width
       /\ due <= last_cmd_ms + XferTimeout + Jitter
                   + (IF PulseTime >= DefaultPulse THEN PulseTime ELSE DefaultPulse)
       /\ now <= due + XferTimeout + Jitter

(* The latest press belongs to the latest command, or to the one before it *)
(* while the latest command is still to be sent.                           *)
PressTimed ==
  /\ last_cmd = "NONE" => handler = "idle" /\ closed_ms = {}
  /\ \A s \in closed_ms :
       IF handler = "on"
         THEN s + MinSpacing <= last_cmd_ms + XferTimeout + Jitter
         ELSE s <= last_cmd_ms + XferTimeout + Jitter

Safety == Types /\ TravelTimed /\ TickSoon /\ CallTimed /\ PressTimed /\ ClosedOnlyInPulse

-----------------------------------------------------------------------------
(* Each step of the gate path is a step of GateSM, or leaves it alone. *)

LEMMA PollRefines ==
  ASSUME Types, Poll
  PROVE  SM!Next \/ UNCHANGED SM!vars
<1>1. CASE EdgeConfirmed
  <2>1. stable_open # line /\ stable_open' = line
    BY <1>1 DEF EdgeConfirmed, Poll, Sample, Confirms, Unchanging,
                NewCandidate, StillCandidate, Edge
  <2>2. seeded /\ seeded'
    BY DEF Poll, Sample
  <2>3. contact # SM!Level(line) /\ contact' = SM!Level(line)
    BY <2>1, <2>2 DEF Types, contact, SM!Level
  <2>4. SM!OnStatusChange(line, now) /\ SM!Stamp /\ contact_ms' = now /\ now' = now
    BY <1>1, <2>1 DEF Poll
  <2>5. SM!StatusChange(line)
    BY <2>3, <2>4 DEF SM!StatusChange
  <2> QED
    BY <2>5 DEF SM!Next, Types
<1>2. CASE ~EdgeConfirmed
  <2>1. UNCHANGED stable_open /\ UNCHANGED seeded
    BY <1>2 DEF EdgeConfirmed, Poll, Sample, Unchanging,
                NewCandidate, StillCandidate, Edge
  <2>2. UNCHANGED contact
    BY <2>1 DEF contact
  <2> QED
    BY <1>2, <2>2 DEF Poll, core, SM!vars, SM!sm, SM!history
<1> QED
  BY <1>1, <1>2

LEMMA NextRefines ==
  ASSUME Types, [Next]_vars
  PROVE  [SM!Next]_(SM!vars)
<1>1. CASE SeedStatus
  <2>1. contact = "UNREAD" /\ contact' = SM!Level(line)
    BY <1>1 DEF SeedStatus, Seed, contact, SM!Level
  <2>2. contact # SM!Level(line)
    BY <2>1 DEF SM!Level
  <2>3. SM!StatusChange(line)
    BY <1>1, <2>1, <2>2 DEF SeedStatus, SM!StatusChange
  <2> QED
    BY <2>3 DEF SM!Next, Types
<1>2. CASE Poll
  BY <1>2, PollRefines
<1>3. CASE Tick
  <2>1. UNCHANGED contact
    BY <1>3 DEF Tick, input, contact
  <2>2. SM!Tick
    BY <1>3, <2>1 DEF Tick, SM!Tick
  <2> QED
    BY <2>2 DEF SM!Next
<1>4. ASSUME NEW c \in Cmds, Accept(c) \/ Refuse(c) PROVE SM!Next
  <2>1. UNCHANGED contact
    BY <1>4 DEF Accept, Refuse, input, contact
  <2>2. SM!Cmd(c)
    BY <1>4, <2>1 DEF Accept, Refuse, SM!Cmd
  <2> QED
    BY <2>2 DEF SM!Next, SM!Cmds, Cmds
<1>5. CASE Restart
  <2>1. contact' = "UNREAD"
    BY <1>5 DEF Restart, contact
  <2>2. SM!Restart
    BY <1>5, <2>1 DEF Restart, SM!Restart
  <2> QED
    BY <2>2 DEF SM!Next
<1>6. CASE Advance
  <2>1. UNCHANGED contact
    BY <1>6 DEF Advance, input, contact
  <2>2. SM!Advance
    BY <1>6, <2>1 DEF Advance, core, SM!Advance, SM!sm, SM!history
  <2> QED
    BY <2>2 DEF SM!Next
<1>7. CASE UNCHANGED <<core, now, input>>
  <2>1. UNCHANGED contact
    BY <1>7 DEF input, contact
  <2> QED
    BY <1>7, <2>1 DEF core, SM!vars, SM!sm, SM!history
<1>8. CASE LineMoves \/ Boot \/ PulseUnattached \/ OnSent \/ OnFailed
             \/ OffSent \/ OffFailed \/ UNCHANGED vars
  BY <1>7, <1>8 DEF LineMoves, Boot, PulseUnattached, OnSent, OnFailed,
                    OffSent, OffFailed, vars
<1> QED
  BY <1>1, <1>2, <1>3, <1>4, <1>5, <1>6, <1>8 DEF Next

-----------------------------------------------------------------------------
(* What the handlers of GateSM do to the machine, as the steps below use it. *)

LEMMA CmdFacts ==
  ASSUME Types, NEW c \in Cmds, SM!OnCmd(c, now), SM!Stamp
  PROVE  \/ /\ SM!CmdResult(c, now) = "ACCEPTED" /\ SM!CmdSpacingOk(now)
            /\ state' \in SM!Moving /\ state' # state
            /\ last_cmd' = c
            /\ last_cmd_ms' = now /\ travel_start_ms' = now /\ entered' = now
         \/ /\ SM!CmdResult(c, now) # "ACCEPTED"
            /\ UNCHANGED <<state, last_cmd, last_cmd_ms, travel_start_ms, entered>>
<1>1. CASE SM!CmdResult(c, now) = "ACCEPTED"
  <2>1. state \notin SM!Satisfying(c) /\ SM!CmdSpacingOk(now)
    BY <1>1 DEF SM!CmdResult
  <2>2. /\ state' = SM!HeadingFor(c) /\ last_cmd' = c
        /\ last_cmd_ms' = now /\ travel_start_ms' = now
    BY <1>1 DEF SM!OnCmd
  <2>3. state' \in SM!Moving /\ state' # state
    BY <2>1, <2>2 DEF SM!Satisfying, SM!HeadingFor, SM!Moving
  <2> QED
    BY <1>1, <2>1, <2>2, <2>3 DEF SM!Stamp
<1>2. CASE SM!CmdResult(c, now) # "ACCEPTED"
  BY <1>2 DEF SM!OnCmd, SM!Refused, SM!sm, SM!Stamp
<1> QED
  BY <1>1, <1>2

LEMMA StatusFacts ==
  ASSUME Types, NEW b \in BOOLEAN, SM!OnStatusChange(b, now), SM!Stamp
  PROVE  /\ UNCHANGED <<last_cmd, last_cmd_ms>>
         /\ \/ UNCHANGED <<state, travel_start_ms, entered>>
            \/ /\ entered' = now
               /\ \/ state' = "CLOSING" /\ travel_start_ms' = now
                  \/ state' \in {"OPEN", "CLOSED"} /\ UNCHANGED travel_start_ms
<1>1. state' = state => entered' = entered
  BY DEF SM!Stamp
<1>2. state' # state => entered' = now
  BY DEF SM!Stamp
<1> QED
  BY <1>1, <1>2
     DEF SM!OnStatusChange, SM!BecomesOpen, SM!LeavesOpen

LEMMA TickFacts ==
  ASSUME Types, TravelTimed, SM!OnTick(now), SM!Stamp
  PROVE  /\ UNCHANGED <<last_cmd, last_cmd_ms, travel_start_ms>>
         /\ \/ state' \in {"STOPPED", "CLOSED"} /\ entered' = now
            \/ /\ UNCHANGED <<state, entered>>
               /\ state \in SM!Moving => now < entered + TravelTimeout
<1>1. UNCHANGED <<last_cmd, last_cmd_ms, travel_start_ms>>
  BY DEF SM!OnTick
<1>2. CASE state \in SM!Moving /\ SM!Expired(now) /\ state' = SM!SettlesAs(state)
  BY <1>1, <1>2 DEF SM!SettlesAs, SM!Moving, SM!Stamp
<1>3. CASE ~(state \in SM!Moving /\ SM!Expired(now)) /\ UNCHANGED state
  BY <1>1, <1>3, GateSystemAssumption
     DEF SM!Expired, SM!Elapsed, SM!Stamp, Types, TravelTimed
<1> QED
  BY <1>2, <1>3 DEF SM!OnTick

-----------------------------------------------------------------------------
(* The invariant, one step at a time. *)

LEMMA InitSafety == Init => Safety
<1> SUFFICES ASSUME Init PROVE Safety
  OBVIOUS
<1>1. /\ state = "UNKNOWN" /\ last_cmd = "NONE" /\ last_cmd_ms = 0
      /\ travel_start_ms = 0 /\ now = 0 /\ entered = 0
  BY DEF Init, SM!Init, SM!Blank
<1>2. Types
  <2>1. line \in BOOLEAN /\ stable_open \in BOOLEAN
    BY Zenon DEF Init, StatusInit
  <2>2. relay \in [Cmds -> BOOLEAN]
    BY Zenon DEF Init
  <2> QED
    BY <1>1, <2>1, <2>2, GateSystemAssumption DEF Init, Types
<1>3. TravelTimed /\ TickSoon
  BY <1>1, GateSystemAssumption DEF Init, TravelTimed, TickSoon, SM!Moving
<1>4. CallTimed /\ PressTimed /\ ClosedOnlyInPulse
  BY <1>1 DEF Init, CallTimed, PressTimed, ClosedOnlyInPulse
<1> QED
  BY <1>2, <1>3, <1>4 DEF Safety

LEMMA TypesStep ==
  ASSUME Types, TravelTimed, [Next]_vars
  PROVE  Types' /\ TravelTimed'
<1> USE GateSystemAssumption
<1>1. CASE SeedStatus
  <2>1. stable_open' = line /\ now' = now
    BY <1>1 DEF SeedStatus, Seed
  <2> QED
    BY <1>1, <2>1, StatusFacts
       DEF SeedStatus, wire, main, httpd, relays, Types, TravelTimed, SM!Moving
<1>2. CASE Poll
  <2>1. stable_open' \in BOOLEAN
    BY <1>2, Zenon DEF Types, Poll, Sample, Unchanging, NewCandidate,
                StillCandidate, Edge, Confirms
  <2>2. CASE EdgeConfirmed
    BY <1>2, <2>1, <2>2, StatusFacts
       DEF Poll, wire, main, httpd, relays, Types, TravelTimed, SM!Moving
  <2>3. CASE ~EdgeConfirmed
    BY <1>2, <2>1, <2>3
       DEF Poll, core, wire, main, httpd, relays, Types, TravelTimed
  <2> QED
    BY <2>2, <2>3
<1>3. CASE Tick
  BY <1>3, TickFacts
     DEF Tick, NextTick, input, wire, httpd, relays, Types, TravelTimed, SM!Moving
<1>4. ASSUME NEW c \in Cmds, Accept(c) PROVE Types' /\ TravelTimed'
  BY <1>4, CmdFacts DEF Accept, input, wire, main, Types, TravelTimed
<1>5. ASSUME NEW c \in Cmds, Refuse(c) PROVE Types' /\ TravelTimed'
  BY <1>5, CmdFacts DEF Refuse, input, wire, main, relays, Types, TravelTimed
<1>6. CASE Restart
  <2>1. /\ state' = "UNKNOWN" /\ last_cmd_ms' = 0 /\ travel_start_ms' = 0
        /\ now' = 0 /\ entered' = 0 /\ next_tick' = BootTime /\ closed_ms' = {}
        /\ faults' = faults + 1 /\ handler' = "idle" /\ due' = 0 /\ line' = line
    BY <1>6 DEF Restart, SM!Blank, Answered
  <2>2. stable_open' \in BOOLEAN /\ relay' \in [Cmds -> BOOLEAN]
    BY <1>6, Zenon DEF Restart, Types
  <2> QED
    BY <2>1, <2>2 DEF Types, TravelTimed, SM!Moving
<1>7. CASE Advance
  BY <1>7 DEF Advance, core, input, wire, main, httpd, relays, Types, TravelTimed
<1>8. CASE LineMoves
  BY <1>8 DEF LineMoves, core, input, main, httpd, relays, Types, TravelTimed
<1>9. CASE Boot
  BY <1>9 DEF Boot, core, input, wire, httpd, relays, Types, TravelTimed
<1>10. CASE PulseUnattached
  BY <1>10 DEF PulseUnattached, Answered, core, input, wire, main, relays,
               Types, TravelTimed
<1>11. CASE OnSent
  BY <1>11 DEF OnSent, Closes, HoldEnds, Width, core, input, wire, main,
               Types, TravelTimed
<1>12. CASE OnFailed
  <2>1. relay' \in [Cmds -> BOOLEAN] /\ closed_ms' \in SUBSET Nat
    <3>1. CASE Closes(pulsing)
      BY <3>1 DEF Closes, Types
    <3>2. CASE UNCHANGED relays
      BY <3>2 DEF relays, Types
    <3> QED
      BY <1>12, <3>1, <3>2 DEF OnFailed
  <2> QED
    BY <1>12, <2>1 DEF OnFailed, Answered, core, input, wire, main, Types, TravelTimed
<1>13. CASE OffSent
  BY <1>13 DEF OffSent, Opens, Answered, core, input, wire, main,
               Types, TravelTimed
<1>14. CASE OffFailed
  <2>1. relay' \in [Cmds -> BOOLEAN]
    <3>1. CASE Opens(pulsing)
      BY <3>1 DEF Opens, Types
    <3>2. CASE UNCHANGED relay
      BY <3>2 DEF Types
    <3> QED
      BY <1>14, <3>1, <3>2 DEF OffFailed
  <2> QED
    BY <1>14, <2>1 DEF OffFailed, Answered, core, input, wire, main, Types, TravelTimed
<1>15. CASE UNCHANGED vars
  BY <1>15 DEF vars, core, input, wire, main, httpd, relays, Types, TravelTimed
<1> QED
  BY <1>1, <1>2, <1>3, <1>4, <1>5, <1>6, <1>7, <1>8, <1>9, <1>10, <1>11,
     <1>12, <1>13, <1>14, <1>15 DEF Next

LEMMA TickSoonStep ==
  ASSUME Types, TravelTimed, TickSoon, Types', [Next]_vars
  PROVE  TickSoon'
<1> USE GateSystemAssumption
<1>1. CASE SeedStatus
  BY <1>1, StatusFacts DEF SeedStatus, main, Types, TickSoon, SM!Moving
<1>2. CASE Poll
  <2>1. CASE EdgeConfirmed
    <3>1. stable_open' \in BOOLEAN
      BY DEF Types
    <3> QED
      BY <1>2, <2>1, <3>1, StatusFacts DEF Poll, main, Types, TickSoon, SM!Moving
  <2>2. CASE ~EdgeConfirmed
    BY <1>2, <2>2 DEF Poll, core, main, TickSoon
  <2> QED
    BY <2>1, <2>2
<1>3. CASE Tick
  BY <1>3, TickFacts DEF Tick, NextTick, Types, TickSoon, SM!Moving
<1>4. ASSUME NEW c \in Cmds, Accept(c) \/ Refuse(c) PROVE TickSoon'
  <2>1. SM!OnCmd(c, now) /\ SM!Stamp /\ UNCHANGED <<now, main>>
    BY <1>4 DEF Accept, Refuse
  <2>2. \/ entered' = now
        \/ UNCHANGED <<state, entered>>
    BY <2>1, CmdFacts
  <2> QED
    BY <2>1, <2>2 DEF main, Types, TickSoon
<1>5. CASE Restart
  BY <1>5 DEF Restart, SM!Blank, TickSoon, SM!Moving
<1>6. CASE Advance
  BY <1>6 DEF Advance, core, main, Types, TickSoon
<1>7. CASE Boot
  BY <1>7 DEF Boot, core, Types, TickSoon
<1>8. CASE UNCHANGED <<core, now, main>>
  BY <1>8 DEF core, main, TickSoon
<1> QED
  BY <1>1, <1>2, <1>3, <1>4, <1>5, <1>6, <1>7, <1>8
     DEF Next, LineMoves, PulseUnattached, OnSent, OnFailed, OffSent, OffFailed, vars

LEMMA CallStep ==
  ASSUME Types, CallTimed, PressTimed, ClosedOnlyInPulse, Types', [Next]_vars
  PROVE  CallTimed' /\ PressTimed' /\ ClosedOnlyInPulse'
<1> USE GateSystemAssumption
<1> DEFINE Inv == CallTimed /\ PressTimed /\ ClosedOnlyInPulse
<1>1. ASSUME UNCHANGED <<last_cmd, last_cmd_ms, booted, attached, httpd, relays, faults, now>>
      PROVE  Inv'
  BY <1>1 DEF httpd, relays, CallTimed, PressTimed, ClosedOnlyInPulse, Width
<1>2. CASE SeedStatus
  BY <1>1, <1>2, StatusFacts DEF SeedStatus, main, Types
<1>3. CASE Poll
  <2>1. CASE EdgeConfirmed
    <3>1. stable_open' \in BOOLEAN
      BY DEF Types
    <3> QED
      BY <1>1, <1>3, <2>1, <3>1, StatusFacts DEF Poll, main
  <2>2. CASE ~EdgeConfirmed
    BY <1>1, <1>3, <2>2 DEF Poll, core, main
  <2> QED
    BY <2>1, <2>2
<1>4. CASE Tick
  BY <1>1, <1>4 DEF Tick, SM!OnTick
<1>5. ASSUME NEW c \in Cmds, Refuse(c) PROVE Inv'
  BY <1>5, CmdFacts
     DEF Refuse, HandlerFree, main, relays, CallTimed, PressTimed, ClosedOnlyInPulse
<1>6. ASSUME NEW c \in Cmds, Accept(c) PROVE Inv'
  <2>1. /\ handler = "idle" /\ handler' = "on" /\ booted'
        /\ due' = now + XferTimeout /\ now' = now
        /\ UNCHANGED <<relay, closed_ms, faults>>
    BY <1>6 DEF Accept, HandlerFree, main
  <2>2. /\ last_cmd' = c /\ last_cmd_ms' = now /\ SM!CmdSpacingOk(now)
    BY <1>6, CmdFacts DEF Accept
  <2>3. last_cmd = "NONE" \/ last_cmd_ms + MinSpacing <= now
    BY <2>2 DEF SM!CmdSpacingOk, SM!Elapsed, Types
  <2>4. CallTimed' /\ ClosedOnlyInPulse'
    BY <2>1, <2>2 DEF Types, CallTimed, ClosedOnlyInPulse
  <2>5. ASSUME NEW s \in closed_ms
        PROVE  s + MinSpacing <= now + XferTimeout + Jitter
    <3>1. s \in Nat /\ s <= last_cmd_ms + XferTimeout + Jitter
      BY <2>1 DEF Types, PressTimed
    <3>2. last_cmd_ms + MinSpacing <= now
      BY <2>1, <2>3 DEF PressTimed
    <3>3. last_cmd_ms \in Nat /\ now \in Nat
      BY DEF Types
    <3> QED
      BY <3>1, <3>2, <3>3
  <2>6. last_cmd' # "NONE"
    BY <2>2 DEF Cmds
  <2>7. PressTimed'
    BY <2>1, <2>2, <2>5, <2>6 DEF PressTimed
  <2> QED
    BY <2>4, <2>7
<1>7. CASE Restart
  BY <1>7 DEF Restart, Answered, SM!Blank, Types, CallTimed, PressTimed, ClosedOnlyInPulse
<1>8. CASE Advance
  BY <1>8 DEF Advance, core, main, httpd, relays, Types,
              CallTimed, PressTimed, ClosedOnlyInPulse, Width
<1>9. CASE LineMoves
  BY <1>1, <1>9 DEF LineMoves, core, main
<1>10. CASE Boot
  BY <1>10 DEF Boot, core, httpd, relays, CallTimed, PressTimed, ClosedOnlyInPulse
<1>11. CASE PulseUnattached
  BY <1>11 DEF PulseUnattached, Answered, core, relays, Types,
               CallTimed, PressTimed, ClosedOnlyInPulse
<1>12. CASE OnSent
  <2>1. /\ handler = "on" /\ handler' = "hold" /\ now' = now
        /\ relay' = [relay EXCEPT ![pulsing] = TRUE] /\ closed_ms' = {now}
        /\ due' = now + Width /\ Width' = Width
        /\ UNCHANGED <<pulsing, last_cmd, last_cmd_ms, booted, faults>>
    BY <1>12 DEF OnSent, Closes, HoldEnds, Width, core, main
  <2>2. Width \in Nat /\ Width <= IF PulseTime >= DefaultPulse THEN PulseTime ELSE DefaultPulse
    BY DEF Width
  <2>3. last_cmd_ms + XferTimeout + Jitter >= now /\ booted
    BY <2>1 DEF Types, CallTimed
  <2>4. CallTimed'
    BY <2>1, <2>2, <2>3 DEF Types, CallTimed
  <2>5. PressTimed'
    BY <2>1, <2>3 DEF Types, PressTimed
  <2>6. ClosedOnlyInPulse'
    BY <2>1 DEF Types, ClosedOnlyInPulse
  <2> QED
    BY <2>4, <2>5, <2>6
<1>13. CASE OnFailed
  <2>1. /\ handler = "on" /\ handler' = "idle" /\ now' = now /\ faults' = faults + 1
        /\ UNCHANGED <<last_cmd, last_cmd_ms>>
        /\ closed_ms' = {now} \/ closed_ms' = closed_ms
    BY <1>13 DEF OnFailed, Closes, Answered, core, relays
  <2>2. CallTimed' /\ ClosedOnlyInPulse'
    BY <2>1 DEF Types, CallTimed, ClosedOnlyInPulse
  <2>3. last_cmd' # "NONE" /\ now <= last_cmd_ms + XferTimeout + Jitter
    BY <2>1 DEF Types, PressTimed, CallTimed
  <2>4. CASE closed_ms' = {now}
    BY <2>1, <2>2, <2>3, <2>4 DEF Types, PressTimed
  <2>5. CASE closed_ms' = closed_ms
    BY <2>1, <2>2, <2>3, <2>5 DEF Types, PressTimed
  <2> QED
    BY <2>1, <2>4, <2>5
<1>14. CASE OffSent
  BY <1>14 DEF OffSent, Opens, Answered, core, Types,
               CallTimed, PressTimed, ClosedOnlyInPulse
<1>15. CASE OffFailed
  BY <1>15 DEF OffFailed, Opens, Answered, core, Types,
               CallTimed, PressTimed, ClosedOnlyInPulse
<1>16. CASE UNCHANGED vars
  BY <1>1, <1>16 DEF vars, core, main
<1> QED
  BY <1>2, <1>3, <1>4, <1>5, <1>6, <1>7, <1>8, <1>9, <1>10, <1>11,
     <1>12, <1>13, <1>14, <1>15, <1>16 DEF Next

(* The inductive invariant holds in every reachable state. *)
THEOREM SafetyHolds == Spec => []Safety
<1>1. ASSUME Safety, [Next]_vars PROVE Safety'
  <2>1. Types' /\ TravelTimed'
    BY <1>1, TypesStep DEF Safety
  <2>2. TickSoon'
    BY <1>1, <2>1, TickSoonStep DEF Safety
  <2>3. CallTimed' /\ PressTimed' /\ ClosedOnlyInPulse'
    BY <1>1, <2>1, CallStep DEF Safety
  <2> QED
    BY <2>1, <2>2, <2>3 DEF Safety
<1> QED
  BY <1>1, InitSafety, PTL DEF Spec

-----------------------------------------------------------------------------
(* The three tasks with their clocks, the debouncer and the resets drive   *)
(* the state machine as gate_sm.h asks: what GateSMProofs proves of GateSM *)
(* holds of the gate path.                                                 *)
THEOREM GateSMImplemented == Spec => ImplementsGateSM
<1>1. Init => SM!Init
  BY DEF Init
<1>2. Safety /\ [Next]_vars => [SM!Next]_(SM!vars)
  BY NextRefines DEF Safety
<1> QED
  BY <1>1, <1>2, SafetyHolds, PTL DEF Spec, ImplementsGateSM, SM!Spec

(* A moving gate is settled within a loop period of its travel time, or    *)
(* when app_main reaches its loop, however long the bus scan took.         *)
THEOREM TravelsAreBounded == Spec => []TravelBounded
<1>1. Safety => TravelBounded
  BY GateSystemAssumption DEF Safety, Types, TickSoon, TravelBounded
<1> QED
  BY <1>1, SafetyHolds, PTL

(* Without faults a contact is closed only in its own pulse.               *)
THEOREM PressedAlone == Spec => []ClosedOnlyInPulse
<1>1. Safety => ClosedOnlyInPulse
  BY DEF Safety
<1> QED
  BY <1>1, SafetyHolds, PTL

(* A command holds the HTTP server up for two transmits and a pulse.       *)
THEOREM AnswersAreTimely == Spec => []AnsweredInTime
<1>1. Safety => AnsweredInTime
  BY GateSystemAssumption DEF Safety, Types, CallTimed, AnsweredInTime
<1> QED
  BY <1>1, SafetyHolds, PTL

(* "accepted" is answered only after a whole press.                        *)
THEOREM AcceptedPresses == Spec => AcceptedMeansPressed
<1> DEFINE A == (handler = "hold" /\ handler' = "idle" /\ answer' = "accepted") =>
                  /\ ~relay'[pulsing]
                  /\ \A t \in closed_ms : now >= t + Width
<1>1. ASSUME Safety, [Next]_vars PROVE [A]_vars
  <2> SUFFICES ASSUME handler = "hold", handler' = "idle", answer' = "accepted"
               PROVE  /\ ~relay'[pulsing]
                      /\ \A t \in closed_ms : now >= t + Width
    OBVIOUS
  <2>1. CASE OffSent
    <3>1. now >= due /\ relay' = [relay EXCEPT ![pulsing] = FALSE]
      BY <2>1 DEF OffSent, Opens
    <3>2. ~relay'[pulsing]
      BY <1>1, <3>1 DEF Safety, Types
    <3>3. \A t \in closed_ms : now >= t + Width
      BY <1>1, <3>1 DEF Safety, CallTimed
    <3> QED
      BY <3>2, <3>3
  <2>2. OffSent
    BY <1>1 DEF Next, LineMoves, SeedStatus, Poll, Boot, Tick, Accept, Refuse,
                HandlerFree, PulseUnattached, OnSent, OnFailed, OffFailed,
                OffFailure, Restart, Advance, Answered, httpd, vars
  <2> QED
    BY <2>1, <2>2
<1> QED
  BY <1>1, SafetyHolds, PTL DEF Spec, AcceptedMeansPressed

(* Two presses of one boot are MinSpacing apart up to a transmit.          *)
THEOREM PressesAreSpaced == Spec => PressesSpaced
<1> DEFINE A == closed_ms' # closed_ms =>
                  \A s \in closed_ms, t \in closed_ms' :
                    t + XferTimeout + Jitter >= s + MinSpacing
<1>1. ASSUME Safety, [Next]_vars PROVE [A]_vars
  <2> SUFFICES ASSUME closed_ms' # closed_ms,
                      NEW s \in closed_ms, NEW t \in closed_ms'
               PROVE  t + XferTimeout + Jitter >= s + MinSpacing
    OBVIOUS
  <2>1. closed_ms' = {now} /\ handler = "on"
    <3>1. ~Restart
      BY DEF Restart
    <3> QED
      BY <1>1, <3>1
         DEF Next, LineMoves, SeedStatus, Poll, Boot, Tick, Accept, Refuse,
             PulseUnattached, OnSent, OnFailed, OffSent, OffFailed, Advance,
             Closes, relays, vars
  <2>2. s + MinSpacing <= last_cmd_ms + XferTimeout + Jitter
    BY <1>1, <2>1 DEF Safety, PressTimed
  <2>3. t = now /\ last_cmd_ms <= now
    BY <1>1, <2>1 DEF Safety, Types
  <2> QED
    BY <1>1, <2>2, <2>3, GateSystemAssumption DEF Safety, Types
<1> QED
  BY <1>1, SafetyHolds, PTL DEF Spec, PressesSpaced
-----------------------------------------------------------------------------
(* The debouncer, by itself.                                               *)

LEMMA SampleTypeOK ==
  ASSUME StatusTypeOK, NEW raw_open \in BOOLEAN, Sample(raw_open)
  PROVE  StatusTypeOK'
<1> USE DebounceAssumption DEF StatusTypeOK, Sample
<1>1. CASE Unchanging(raw_open)
  BY <1>1 DEF Unchanging
<1>2. CASE NewCandidate(raw_open)
  BY <1>2 DEF NewCandidate
<1>3. CASE StillCandidate(raw_open)
  BY <1>3 DEF StillCandidate, Confirms
<1>4. CASE Edge(raw_open)
  BY <1>4 DEF Edge, Confirms
<1> QED
  BY <1>1, <1>2, <1>3, <1>4

LEMMA DebouncerInitTypeOK == StatusInit => StatusTypeOK
<1> SUFFICES ASSUME StatusInit PROVE StatusTypeOK
  OBVIOUS
<1>1. seeded \in BOOLEAN /\ stable_open \in BOOLEAN /\ candidate_open \in BOOLEAN
  BY Zenon DEF StatusInit
<1>2. candidate_count = 0
  BY DEF StatusInit
<1>3. candidate_count \in 0 .. DebounceSamples - 1 /\ ~(candidate_count > 0)
  BY <1>2, DebounceAssumption
<1> QED
  BY <1>1, <1>3, Zenon DEF StatusTypeOK

LEMMA DebouncerTypesStep ==
  ASSUME StatusTypeOK, [StatusNext]_(status_vars)
  PROVE  StatusTypeOK'
<1>1. CASE UNCHANGED status_vars
  BY <1>1 DEF status_vars, StatusTypeOK
<1>2. ASSUME NEW raw_open \in BOOLEAN, Seed(raw_open) PROVE StatusTypeOK'
  BY <1>2, DebounceAssumption DEF Seed, StatusTypeOK
<1> QED
  BY <1>1, <1>2, SampleTypeOK DEF StatusNext

(* The loop's variables keep their types, and a count in progress is of a  *)
(* candidate that contradicts the level reported.                          *)
THEOREM StatusTypeCorrect == StatusSpec => []StatusTypeOK
  BY DebouncerInitTypeOK, DebouncerTypesStep, PTL DEF StatusSpec

(* One turn of the loop is one reading of the debouncer.  That a candidate *)
(* is never confirmed by its first reading, and that a new candidate is    *)
(* met with no count in progress, is where two samples or more are needed. *)
LEMMA SampleDebounces ==
  ASSUME StatusTypeOK, NEW raw_open \in BOOLEAN, Sample(raw_open)
  PROVE  /\ seeded /\ UNCHANGED seeded
         /\ Promise!Agrees(raw_open) \/ Promise!Contradicts(raw_open)
<1> USE DebounceAssumption DEF StatusTypeOK, Promise!Agrees, Promise!Contradicts
<1>1. seeded /\ UNCHANGED seeded
  BY DEF Sample
<1>2. CASE Unchanging(raw_open)
  BY <1>1, <1>2 DEF Unchanging
<1>3. CASE NewCandidate(raw_open)
  <2>1. candidate_count = 0 /\ candidate_count' = 1
    BY <1>3 DEF NewCandidate
  <2> QED
    BY <1>1, <1>3, <2>1 DEF NewCandidate
<1>4. CASE StillCandidate(raw_open)
  BY <1>1, <1>4 DEF StillCandidate, Confirms
<1>5. CASE Edge(raw_open)
  <2>1. candidate_count + 1 = DebounceSamples
    BY <1>5 DEF Edge, Confirms
  <2> QED
    BY <1>1, <1>5, <2>1 DEF Edge, Confirms
<1> QED
  BY <1>1, <1>2, <1>3, <1>4, <1>5 DEF Sample

(* status_input.c:46-88 implements Debounce: an edge is reported exactly   *)
(* at the DebounceSamples-th reading in a row that contradicts the level.  *)
THEOREM LoopDebounces == StatusSpec => Debounces
<1>1. StatusInit => Promise!Init
  BY DEF StatusInit, Promise!Init
<1>2. ASSUME StatusTypeOK, [StatusNext]_(status_vars) PROVE [Promise!Next]_(Promise!vars)
  <2>1. CASE UNCHANGED status_vars
    BY <2>1 DEF status_vars, Promise!vars
  <2>2. ASSUME NEW raw_open \in BOOLEAN, Seed(raw_open) PROVE Promise!Next
    BY <2>2 DEF Seed, Promise!Next, Promise!First
  <2>3. ASSUME NEW raw_open \in BOOLEAN, Sample(raw_open) PROVE Promise!Next
    BY <1>2, <2>3, SampleDebounces DEF Promise!Next
  <2> QED
    BY <1>2, <2>1, <2>2, <2>3 DEF StatusNext
<1> QED
  BY <1>1, <1>2, StatusTypeCorrect, PTL DEF StatusSpec, Debounces, Promise!Spec

(* What the loop's counter says of the readings themselves: while no edge  *)
(* is pending the newest one agrees with the reported level; otherwise the *)
(* newest candidate_count contradict it and the one before them does not.  *)
CountsReadings ==
  /\ ~seeded => candidate_count = 0 /\ recent[1] = "UNREAD"
  /\ seeded /\ candidate_count = 0 => recent[1] = Level(stable_open)
  /\ candidate_count > 0 =>
       /\ \A i \in 1 .. candidate_count :
            recent[i] = Level(candidate_open)
       /\ recent[candidate_count + 1] # Level(candidate_open)

LEMMA LevelsDiffer ==
  \A a, b \in BOOLEAN : Level(a) = Level(b) => a = b
  BY DEF Level

LEMMA RememberFacts ==
  ASSUME NEW raw_open, Remember(raw_open)
  PROVE  /\ recent'[1] = Level(raw_open)
         /\ \A i \in 2 .. DebounceSamples : recent'[i] = recent[i - 1]
  BY DebounceAssumption DEF Remember

LEMMA SampleCounts ==
  ASSUME StatusTypeOK, CountsReadings, NEW raw_open \in BOOLEAN,
         Sample(raw_open), Remember(raw_open)
  PROVE  CountsReadings'
<1>1. seeded' /\ seeded
  BY DEF Sample
<1>2. CASE Unchanging(raw_open)
  <2>1. candidate_count' = 0 /\ raw_open = stable_open /\ stable_open' = stable_open
    BY <1>2 DEF Unchanging
  <2>2. recent'[1] = Level(stable_open')
    BY <2>1, RememberFacts
  <2> QED
    BY <1>1, <2>1, <2>2 DEF CountsReadings
<1>3. CASE NewCandidate(raw_open)
  <2>1. /\ candidate_count = 0 /\ candidate_count' = 1
        /\ raw_open # stable_open /\ candidate_open' = raw_open
    BY <1>3, DebounceAssumption DEF NewCandidate, StatusTypeOK
  <2>2. recent'[1] = Level(raw_open) /\ recent'[2] = recent[1]
    BY RememberFacts, DebounceAssumption
  <2>3. recent[1] = Level(stable_open)
    BY <1>1, <2>1 DEF CountsReadings
  <2>4. recent'[2] # Level(raw_open)
    BY <2>1, <2>2, <2>3, LevelsDiffer DEF StatusTypeOK
  <2> QED
    BY <1>1, <2>1, <2>2, <2>4 DEF CountsReadings
<1>4. CASE StillCandidate(raw_open)
  <2>1. /\ candidate_count \in 0 .. DebounceSamples - 2
        /\ candidate_count' = candidate_count + 1
        /\ raw_open # stable_open
        /\ raw_open = candidate_open /\ candidate_open' = candidate_open
    BY <1>4, DebounceAssumption DEF StillCandidate, Confirms, StatusTypeOK
  <2>2. recent[candidate_count + 1] # Level(candidate_open)
    BY <1>1, <2>1, LevelsDiffer DEF CountsReadings, StatusTypeOK
  <2>3. recent'[candidate_count' + 1] # Level(candidate_open')
    BY <2>1, <2>2, RememberFacts, DebounceAssumption
  <2>4. ASSUME NEW i \in 1 .. candidate_count'
        PROVE  recent'[i] = Level(candidate_open')
    <3>1. CASE i = 1
      BY <2>1, <3>1, RememberFacts
    <3>2. CASE i \in 2 .. candidate_count + 1
      <4>1. recent'[i] = recent[i - 1] /\ i - 1 \in 1 .. candidate_count
        BY <2>1, <3>2, RememberFacts, DebounceAssumption
      <4>2. candidate_count > 0
        BY <2>1, <3>2
      <4> QED
        BY <2>1, <4>1, <4>2 DEF CountsReadings
    <3> QED
      BY <2>1, <3>1, <3>2
  <2> QED
    BY <1>1, <2>1, <2>3, <2>4 DEF CountsReadings
<1>5. CASE Edge(raw_open)
  <2>1. candidate_count' = 0 /\ stable_open' = raw_open
    BY <1>5 DEF Edge, Confirms
  <2> QED
    BY <1>1, <2>1, RememberFacts DEF CountsReadings
<1> QED
  BY <1>2, <1>3, <1>4, <1>5 DEF Sample

LEMMA CountsReadingsStep ==
  ASSUME StatusTypeOK, CountsReadings,
         [ReadNext]_<<status_vars, recent>>
  PROVE  StatusTypeOK' /\ CountsReadings'
<1>1. CASE UNCHANGED <<status_vars, recent>>
  BY <1>1 DEF status_vars, StatusTypeOK, CountsReadings, Level
<1>2. ASSUME NEW raw_open \in BOOLEAN, Remember(raw_open), Seed(raw_open)
      PROVE  StatusTypeOK' /\ CountsReadings'
  <2>1. StatusTypeOK'
    BY <1>2, DebouncerTypesStep DEF StatusNext
  <2>2. seeded' /\ candidate_count' = 0 /\ stable_open' = raw_open
    BY <1>2 DEF Seed
  <2> QED
    BY <1>2, <2>1, <2>2, RememberFacts DEF CountsReadings
<1>3. ASSUME NEW raw_open \in BOOLEAN, Remember(raw_open), Sample(raw_open)
      PROVE  StatusTypeOK' /\ CountsReadings'
  BY <1>3, SampleTypeOK, SampleCounts
<1> QED
  BY <1>1, <1>2, <1>3 DEF ReadNext

(* Whatever the line did before, a level it holds for DebounceSamples      *)
(* readings is the one reported: status_input.c:60-88 never misses it.     *)
THEOREM SteadyLevelIsReported ==
  ReadSpec => []SteadyLineReported
<1>1. ReadInit => StatusTypeOK /\ CountsReadings
  <2> SUFFICES ASSUME ReadInit PROVE StatusTypeOK /\ CountsReadings
    OBVIOUS
  <2>1. StatusInit
    BY DEF ReadInit
  <2>2. ~seeded /\ candidate_count = 0
    BY <2>1 DEF StatusInit
  <2>3. recent[1] = "UNREAD"
    <3>1. recent = [i \in 1 .. DebounceSamples |-> "UNREAD"]
      BY DEF ReadInit
    <3>2. 1 \in 1 .. DebounceSamples
      BY DebounceAssumption
    <3> QED
      BY <3>1, <3>2
  <2> QED
    BY <2>1, <2>2, <2>3, DebouncerInitTypeOK DEF CountsReadings
<1>2. StatusTypeOK /\ CountsReadings => SteadyLineReported
  <2> SUFFICES ASSUME StatusTypeOK, CountsReadings, NEW raw_open \in BOOLEAN,
                      \A i \in 1 .. DebounceSamples :
                        recent[i] = Level(raw_open)
               PROVE  stable_open = raw_open
    BY DEF SteadyLineReported
  <2>1. recent[1] = Level(raw_open)
    BY DebounceAssumption
  <2>2. seeded
    BY <2>1 DEF CountsReadings, Level
  <2>3. CASE candidate_count = 0
    BY <2>1, <2>2, <2>3, LevelsDiffer DEF CountsReadings, StatusTypeOK
  <2>4. CASE candidate_count > 0
    <3>1. /\ candidate_count + 1 \in 1 .. DebounceSamples
          /\ 1 \in 1 .. candidate_count
      BY <2>4, DebounceAssumption DEF StatusTypeOK
    <3>2. recent[1] = Level(candidate_open)
      BY <2>4, <3>1 DEF CountsReadings
    <3>3. recent[candidate_count + 1] = Level(candidate_open)
      BY <2>1, <3>1, <3>2
    <3> QED
      BY <2>4, <3>3 DEF CountsReadings
  <2> QED
    BY <2>3, <2>4 DEF StatusTypeOK
<1> QED
  BY <1>1, <1>2, CountsReadingsStep, PTL DEF ReadSpec
-----------------------------------------------------------------------------
(* The state machine through the refinement: what it has been fed agrees   *)
(* with what it reports.  GateSMProofs has the same facts of GateSM!Spec;  *)
(* here they are facts about every step of the gate path.                  *)

Sensed ==
  /\ SM!OpenMeansContact /\ SM!OnlyACommandMasksContact
  /\ contact_ms \in 0 .. now

LEMMA SensedStep ==
  ASSUME Types, Sensed, [SM!Next]_(SM!vars), now' \in Nat
  PROVE  Sensed'
<1> USE DEF Sensed, SM!OpenMeansContact, SM!OnlyACommandMasksContact, Types
<1>1. ASSUME NEW cmd \in SM!Cmds, SM!Cmd(cmd) PROVE Sensed'
  <2>1. SM!OnCmd(cmd, now) /\ SM!Stamp /\ UNCHANGED <<now, contact, contact_ms>>
    BY <1>1 DEF SM!Cmd
  <2>2. \/ state' \in SM!Moving /\ last_cmd' = cmd /\ last_cmd_ms' = now
        \/ UNCHANGED <<state, last_cmd, last_cmd_ms>>
    BY <1>1, <2>1, CmdFacts DEF SM!Cmds, Cmds
  <2> QED
    BY <2>1, <2>2 DEF SM!Moving, SM!Cmds
<1>2. ASSUME NEW is_fully_open \in BOOLEAN, SM!StatusChange(is_fully_open) PROVE Sensed'
  <2>1. /\ contact' = SM!Level(is_fully_open) /\ contact_ms' = now /\ now' = now
        /\ state' = "OPEN" <=> is_fully_open
    BY <1>2 DEF SM!StatusChange, SM!OnStatusChange, SM!BecomesOpen, SM!LeavesOpen
  <2> QED
    BY <2>1 DEF SM!Level
<1>3. CASE SM!Tick
  <2>1. /\ UNCHANGED <<last_cmd, last_cmd_ms, now, contact, contact_ms>>
        /\ state' = state \/ (state \in SM!Moving /\ state' \in {"STOPPED", "CLOSED"})
    BY <1>3 DEF SM!Tick, SM!OnTick, SM!SettlesAs
  <2> QED
    BY <2>1 DEF SM!Moving
<1>4. CASE SM!Advance
  BY <1>4 DEF SM!Advance, SM!sm, SM!history
<1>5. CASE SM!Restart
  BY <1>5 DEF SM!Restart, SM!Blank
<1>6. CASE UNCHANGED SM!vars
  BY <1>6 DEF SM!vars, SM!sm, SM!history
<1> QED
  BY <1>1, <1>2, <1>3, <1>4, <1>5, <1>6 DEF SM!Next

-----------------------------------------------------------------------------
(* The line, as the status task gets to know it.                           *)

(* The longest time from one reading to the next. *)
Turn == PollInterval + Jitter

(* The status task is never later than Jitter.                             *)
PollSoon == next_poll <= now + PollInterval /\ now <= next_poll + Jitter

(* While the level reported is not the line's, every reading since the     *)
(* line moved was counted: the next one comes within a turn for each.      *)
Behind ==
  seeded /\ stable_open # line =>
    next_poll + Jitter <= line_ms + (candidate_count + 1) * Turn

Followed ==
  /\ StatusTypeOK /\ next_poll \in Nat /\ line_ms \in 0 .. now
  /\ PollSoon /\ Behind

LEMMA Turns ==
  ASSUME NEW Q \in Nat, NEW c \in Nat, NEW n \in Nat, c < n
  PROVE  /\ (c + 1 + 1) * Q = (c + 1) * Q + Q
         /\ Q <= (c + 1) * Q
         /\ (c + 1) * Q <= n * Q
         /\ (c + 1) * Q \in Nat /\ n * Q \in Nat
<1>1. /\ (c + 1 + 1) * Q = (c + 1) * Q + Q
      /\ (c + 1) * Q \in Nat /\ n * Q \in Nat /\ c * Q \in Nat /\ (c + 1) * Q = c * Q + Q
  OBVIOUS
<1> DEFINE d == n - (c + 1)
<1>2. d \in Nat /\ n = (c + 1) + d
  OBVIOUS
<1> HIDE DEF d
<1>3. n * Q = (c + 1) * Q + d * Q
  BY <1>2
<1>4. d * Q \in Nat
  BY <1>2
<1> QED
  BY <1>1, <1>3, <1>4

LEMMA CountTurns ==
  ASSUME StatusTypeOK
  PROVE  /\ Turn \in Nat /\ candidate_count \in Nat
         /\ (candidate_count + 1 + 1) * Turn = (candidate_count + 1) * Turn + Turn
         /\ Turn <= (candidate_count + 1) * Turn
         /\ (candidate_count + 1) * Turn <= DebounceSamples * Turn
         /\ (candidate_count + 1) * Turn \in Nat /\ DebounceSamples * Turn \in Nat
<1>1. /\ candidate_count \in Nat /\ DebounceSamples \in Nat
      /\ candidate_count < DebounceSamples
  BY GateSystemAssumption, DebounceAssumption DEF StatusTypeOK
<1>2. Turn \in Nat
  BY GateSystemAssumption, DebounceAssumption DEF Turn
<1> QED
  BY <1>1, <1>2, Turns

(* What a reading comes to: the level reported is the line's, or one more  *)
(* reading that contradicts it has been counted.                           *)
LEMMA ReadingCounts ==
  ASSUME StatusTypeOK, line \in BOOLEAN, Sample(line)
  PROVE  /\ seeded' = seeded
         /\ \/ stable_open' = line
            \/ /\ stable_open # line /\ stable_open' = stable_open
               /\ candidate_count' = candidate_count + 1
<1> USE GateSystemAssumption, DebounceAssumption DEF StatusTypeOK
<1>1. seeded' = seeded
  BY DEF Sample
<1>2. CASE Unchanging(line)
  BY <1>1, <1>2 DEF Unchanging
<1>3. CASE NewCandidate(line)
  BY <1>1, <1>3 DEF NewCandidate
<1>4. CASE StillCandidate(line)
  BY <1>1, <1>4 DEF StillCandidate
<1>5. CASE Edge(line)
  BY <1>1, <1>5 DEF Edge, Confirms
<1> QED
  BY <1>2, <1>3, <1>4, <1>5 DEF Sample

LEMMA FollowedStep ==
  ASSUME Types, Types', Followed, [Next]_vars
  PROVE  Followed'
<1> USE GateSystemAssumption, DebounceAssumption
<1>1. CASE SeedStatus
  <2>1. /\ stable_open' = line /\ line' = line /\ line_ms' = line_ms /\ now' = now
        /\ next_poll' = now + PollInterval
    BY <1>1 DEF SeedStatus, Seed, wire
  <2>2. StatusTypeOK'
    BY <1>1 DEF SeedStatus, Seed, StatusTypeOK, Types
  <2> QED
    BY <2>1, <2>2 DEF Followed, PollSoon, Behind, Types
<1>2. CASE Poll
  <2>1. /\ Sample(line) /\ next_poll' = now + PollInterval /\ now' = now
        /\ UNCHANGED <<line, line_ms>> /\ seeded
    BY <1>2 DEF Poll, NextPoll, wire
  <2>2. StatusTypeOK'
    BY <2>1, SampleTypeOK DEF Followed, Types
  <2>3. Behind'
    <3>1. CASE stable_open' = line
      BY <2>1, <3>1 DEF Behind
    <3>2. CASE stable_open # line /\ candidate_count' = candidate_count + 1
      <4>1. next_poll + Jitter <= line_ms + (candidate_count + 1) * Turn
        BY <2>1, <3>2 DEF Followed, Behind
      <4>2. now <= next_poll + Jitter
        BY DEF Followed, PollSoon
      <4>3. now + PollInterval + Jitter
              <= line_ms + ((candidate_count + 1) * Turn + Turn)
        BY <4>1, <4>2, CountTurns DEF Followed, Types, Turn
      <4> QED
        BY <2>1, <3>2, <4>3, CountTurns DEF Followed, Behind
    <3> QED
      BY <2>1, <3>1, <3>2, ReadingCounts DEF Followed, Types
  <2> QED
    BY <2>1, <2>2, <2>3 DEF Followed, PollSoon, Types
<1>3. CASE LineMoves
  <2>1. line_ms' = now /\ UNCHANGED <<now, input>>
    BY <1>3 DEF LineMoves
  <2>2. StatusTypeOK'
    BY <2>1 DEF input, StatusTypeOK, Followed
  <2>3. next_poll + Jitter <= now + Turn
    BY DEF Followed, PollSoon, Types, Turn
  <2>4. Behind'
    BY <2>1, <2>3, CountTurns DEF input, Behind, Followed, Types
  <2> QED
    BY <2>1, <2>2, <2>4 DEF input, Followed, PollSoon, Types
<1>4. CASE Restart
  <2>1. /\ seeded' = FALSE /\ stable_open' = FALSE /\ candidate_open' = FALSE
        /\ candidate_count' = 0 /\ next_poll' = 0 /\ now' = 0 /\ line_ms' = 0
    BY <1>4 DEF Restart
  <2>2. candidate_count' \in 0 .. DebounceSamples - 1 /\ ~(candidate_count' > 0)
    BY <2>1
  <2>3. StatusTypeOK'
    BY <1>4, <2>2, Zenon DEF Restart, StatusTypeOK, Followed
  <2> QED
    BY <2>1, <2>3 DEF Followed, PollSoon, Behind
<1>5. CASE Advance
  <2>1. UNCHANGED <<input, wire>> /\ now' = now + 1 /\ now < next_poll + Jitter
    BY <1>5 DEF Advance
  <2>2. StatusTypeOK' /\ Behind'
    BY <2>1 DEF input, wire, StatusTypeOK, Behind, Followed
  <2> QED
    BY <2>1, <2>2 DEF input, wire, Followed, PollSoon, Types
<1>6. CASE UNCHANGED <<now, input, wire>>
  <2>1. StatusTypeOK' /\ Behind'
    BY <1>6 DEF input, wire, StatusTypeOK, Behind, Followed
  <2> QED
    BY <1>6, <2>1 DEF input, wire, Followed, PollSoon
<1> QED
  BY <1>1, <1>2, <1>3, <1>4, <1>5, <1>6
     DEF Next, Boot, Tick, Accept, Refuse, PulseUnattached, OnSent, OnFailed,
         OffSent, OffFailed, vars

LEMMA InitLine == Init => Sensed /\ Followed
<1> SUFFICES ASSUME Init PROVE Sensed /\ Followed
  OBVIOUS
<1>1. /\ now = 0 /\ next_poll = 0 /\ line_ms = 0 /\ contact_ms = 0
      /\ state = "UNKNOWN" /\ ~seeded /\ contact = "UNREAD"
  BY DEF Init, StatusInit, SM!Init, SM!Blank, contact
<1>2. StatusTypeOK
  BY DebouncerInitTypeOK DEF Init
<1> QED
  BY <1>1, <1>2, GateSystemAssumption, DebounceAssumption
     DEF Sensed, SM!OpenMeansContact, SM!OnlyACommandMasksContact,
         Followed, PollSoon, Behind

(* A line that was steady for the debounce time is reported: the status    *)
(* task has taken all the readings it needs since the line moved.          *)
THEOREM LineIsReported == Spec => []LineReported
<1>1. ASSUME Safety, Safety', Sensed, Followed, [Next]_vars
      PROVE  Sensed' /\ Followed'
  <2>1. now' \in Nat
    BY <1>1 DEF Safety, Types
  <2> QED
    BY <1>1, <2>1, NextRefines, SensedStep, FollowedStep DEF Safety
<1>2. ASSUME Safety, Sensed, Followed PROVE LineReported
  <2> SUFFICES ASSUME LineSteady
               PROVE  IF line
                        THEN state = "OPEN" \/ (last_cmd # "NONE" /\ contact_ms <= last_cmd_ms)
                        ELSE state # "OPEN"
    BY DEF LineReported
  <2>1. now > line_ms + DebounceSamples * Turn /\ seeded
    BY DEF LineSteady, Turn
  <2>2. stable_open = line
    <3> SUFFICES ASSUME stable_open # line PROVE FALSE
      OBVIOUS
    <3>1. now <= line_ms + (candidate_count + 1) * Turn
      BY <1>2, <2>1, CountTurns, GateSystemAssumption, DebounceAssumption
         DEF Safety, Types, Followed, PollSoon, Behind
    <3> QED
      BY <1>2, <2>1, <3>1, CountTurns DEF Safety, Types, Followed
  <2>3. contact = IF line THEN "MADE" ELSE "BROKEN"
    BY <2>1, <2>2 DEF contact
  <2> QED
    BY <1>2, <2>3 DEF Sensed, SM!OpenMeansContact, SM!OnlyACommandMasksContact
<1> QED
  BY <1>1, <1>2, InitLine, SafetyHolds, PTL DEF Spec

-----------------------------------------------------------------------------
(* An opening gate was pressed, or its press is still to be sent. *)
OpeningPressed ==
  /\ state = "OPENING" =>
       /\ booted
       /\ faults = 0 /\ "OPEN" \in attached =>
            pulsed \/ (handler = "on" /\ pulsing = "OPEN")
  /\ handler # "idle" => answer = "none"

LEMMA OpeningPressedStep ==
  ASSUME Types, Types', OpeningPressed, [Next]_vars
  PROVE  OpeningPressed'
<1> USE DEF Types, OpeningPressed
<1>1. ASSUME UNCHANGED <<booted, attached, httpd, pulsed, faults>>,
             state' = state \/ state' # "OPENING"
      PROVE  OpeningPressed'
  BY <1>1 DEF httpd
<1>2. CASE SeedStatus
  BY <1>1, <1>2, StatusFacts DEF SeedStatus, main, relays
<1>3. CASE Poll
  BY <1>1, <1>3, StatusFacts DEF Poll, core, main, relays
<1>4. CASE Tick
  BY <1>1, <1>4 DEF Tick, SM!OnTick, SM!SettlesAs, relays
<1>5. ASSUME NEW c \in Cmds, Accept(c) PROVE OpeningPressed'
  <2>1. /\ state' = SM!HeadingFor(c) /\ handler' = "on" /\ pulsing' = c
        /\ answer' = "none" /\ booted'
    BY <1>5 DEF Accept, SM!OnCmd, main
  <2> QED
    BY <2>1 DEF SM!HeadingFor, Cmds
<1>6. ASSUME NEW c \in Cmds, Refuse(c) PROVE OpeningPressed'
  BY <1>6, CmdFacts DEF Refuse, HandlerFree, main, relays
<1>7. CASE Boot
  BY <1>7 DEF Boot, core, httpd, relays
<1>8. CASE PulseUnattached
  BY <1>8 DEF PulseUnattached, Answered, core, main, relays
<1>9. CASE OnSent
  BY <1>9 DEF OnSent, Closes, core, main
<1>10. CASE OnFailed
  BY <1>10 DEF OnFailed, Answered, core, main
<1>11. CASE OffSent
  BY <1>11 DEF OffSent, Answered, core, main
<1>12. CASE OffFailed
  BY <1>12 DEF OffFailed, Answered, core, main
<1>13. CASE Restart
  BY <1>13 DEF Restart, SM!Blank, Answered
<1>14. CASE LineMoves \/ Advance \/ UNCHANGED vars
  BY <1>1, <1>14 DEF LineMoves, Advance, core, main, relays, vars
<1> QED
  BY <1>2, <1>3, <1>4, <1>5, <1>6, <1>7, <1>8, <1>9, <1>10, <1>11, <1>12,
     <1>13, <1>14 DEF Next

(* "idempotent" is answered to an OPEN that is under way after its press.  *)
THEOREM IdempotentAfterPress == Spec => []IdempotentMeansPressed
<1>1. Init => OpeningPressed
  BY DEF Init, SM!Init, SM!Blank, OpeningPressed
<1>2. Safety /\ Safety' /\ OpeningPressed /\ [Next]_vars => OpeningPressed'
  BY OpeningPressedStep DEF Safety
<1>3. OpeningPressed => IdempotentMeansPressed
  BY DEF OpeningPressed, IdempotentMeansPressed
<1> QED
  BY <1>1, <1>2, <1>3, SafetyHolds, PTL DEF Spec
=============================================================================
