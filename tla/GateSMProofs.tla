---------------------------- MODULE GateSMProofs ----------------------------
(***************************************************************************)
(* Proofs about GateSM for every travel time, command spacing and length   *)
(* of a boot.  Safety is the inductive invariant: the invariants TLC       *)
(* checks, and OpeningIsCommanded, which StoppedMeansUnanswered needs.     *)
(***************************************************************************)
EXTENDS GateSM, TLAPS

(* A gate reported opening was told to, and is timed from the command.     *)
OpeningIsCommanded ==
  state = "OPENING" => last_cmd = "OPEN" /\ travel_start_ms = last_cmd_ms

Safety ==
  /\ TypeOK
  /\ OpenMeansContact
  /\ OnlyACommandMasksContact
  /\ TravelTimedFromItsStart
  /\ OpeningIsCommanded
  /\ StoppedMeansUnanswered

-----------------------------------------------------------------------------
(* A difference of two time stamps taken in order is the time between      *)
(* them: the wrap of uint64_t never shows (gate_sm.c:11 and :131).         *)
LEMMA ElapsedInOrder ==
  ASSUME NEW t \in Nat, NEW stamp \in 0 .. t
  PROVE  Elapsed(t, stamp) = t - stamp /\ Elapsed(t, stamp) \in Nat
  BY DEF Elapsed

LEMMA InitSafety == Init => Safety
  BY GateSMAssumption
     DEF Init, Blank, Safety, TypeOK, States, Cmds, Contacts, Moving,
         OpenMeansContact, OnlyACommandMasksContact, TravelTimedFromItsStart,
         OpeningIsCommanded, StoppedMeansUnanswered

(* The command handler: an accepted command starts a leg now, a refused    *)
(* one leaves the machine alone.                                           *)
LEMMA CmdSafety ==
  ASSUME Safety, NEW cmd \in Cmds, Cmd(cmd)
  PROVE  Safety'
<1> USE DEF Safety
<1>1. CASE CmdResult(cmd, now) = "ACCEPTED"
  <2>1. /\ state' = HeadingFor(cmd) /\ last_cmd' = cmd
        /\ last_cmd_ms' = now /\ travel_start_ms' = now
        /\ UNCHANGED <<now, contact, contact_ms>>
        /\ entered' = IF state' = state THEN entered ELSE now
    BY <1>1 DEF Cmd, OnCmd, Stamp
  <2>2. state \notin Satisfying(cmd)
    BY <1>1 DEF CmdResult
  <2>3. state' \in Moving /\ state' # state
    BY <2>1, <2>2 DEF HeadingFor, Satisfying, Moving
  <2>4. entered' = now
    BY <2>1, <2>3
  <2> QED
    BY <2>1, <2>3, <2>4
       DEF TypeOK, States, Cmds, Moving, HeadingFor, OpenMeansContact,
           OnlyACommandMasksContact, TravelTimedFromItsStart,
           OpeningIsCommanded, StoppedMeansUnanswered
<1>2. CASE CmdResult(cmd, now) # "ACCEPTED"
  <2>1. UNCHANGED vars
    BY <1>2 DEF Cmd, OnCmd, Refused, Stamp, sm, vars, history, TypeOK
  <2> QED
    BY <2>1
       DEF vars, sm, history, TypeOK, OpenMeansContact,
           OnlyACommandMasksContact, TravelTimedFromItsStart,
           OpeningIsCommanded, StoppedMeansUnanswered
<1> QED
  BY <1>1, <1>2

(* The status handler, for a first reading and for an edge. *)
LEMMA StatusChangeSafety ==
  ASSUME Safety, NEW is_fully_open \in BOOLEAN, StatusChange(is_fully_open)
  PROVE  Safety'
<1> USE DEF Safety
<1>1. /\ UNCHANGED <<last_cmd, last_cmd_ms, now>>
      /\ contact' = Level(is_fully_open) /\ contact_ms' = now
      /\ entered' = IF state' = state THEN entered ELSE now
  BY DEF StatusChange, OnStatusChange, Stamp
<1>2. CASE is_fully_open
  <2>1. state' = "OPEN" /\ UNCHANGED travel_start_ms /\ contact' = "MADE"
    BY <1>1, <1>2 DEF StatusChange, OnStatusChange, BecomesOpen, Level
  <2> QED
    BY <1>1, <2>1
       DEF TypeOK, States, Contacts, Moving, OpenMeansContact,
           OnlyACommandMasksContact, TravelTimedFromItsStart,
           OpeningIsCommanded, StoppedMeansUnanswered
<1>3. CASE ~is_fully_open
  <2>1. contact' = "BROKEN"
    BY <1>1, <1>3 DEF Level
  <2>2. CASE state = "OPEN" /\ LeavesOpen(now)
    BY <1>1, <2>1, <2>2
       DEF LeavesOpen, TypeOK, States, Contacts, Moving, OpenMeansContact,
           OnlyACommandMasksContact, TravelTimedFromItsStart,
           OpeningIsCommanded, StoppedMeansUnanswered
  <2>3. CASE state = "UNKNOWN" /\ state' = "CLOSED" /\ UNCHANGED travel_start_ms
    BY <1>1, <2>1, <2>3
       DEF TypeOK, States, Contacts, Moving, OpenMeansContact,
           OnlyACommandMasksContact, TravelTimedFromItsStart,
           OpeningIsCommanded, StoppedMeansUnanswered
  <2>4. CASE /\ state \notin {"OPEN", "UNKNOWN"}
             /\ UNCHANGED <<state, travel_start_ms>>
    BY <1>1, <2>1, <2>4
       DEF TypeOK, States, Contacts, Moving, OpenMeansContact,
           OnlyACommandMasksContact, TravelTimedFromItsStart,
           OpeningIsCommanded, StoppedMeansUnanswered
  <2> QED
    BY <1>3, <2>2, <2>3, <2>4 DEF StatusChange, OnStatusChange
<1> QED
  BY <1>2, <1>3

(* The tick: only a leg whose time has run settles. *)
LEMMA TickSafety ==
  ASSUME Safety, Tick
  PROVE  Safety'
<1> USE DEF Safety
<1>1. /\ UNCHANGED <<last_cmd, last_cmd_ms, travel_start_ms, now, contact, contact_ms>>
      /\ entered' = IF state' = state THEN entered ELSE now
  BY DEF Tick, OnTick, Stamp
<1>2. CASE state \in Moving /\ Expired(now) /\ state' = SettlesAs(state)
  <2>1. now - travel_start_ms >= TravelTimeout
    BY <1>2, ElapsedInOrder DEF Expired, TypeOK
  <2>2. entered' = now
    BY <1>1, <1>2 DEF SettlesAs, Moving
  <2>3. CASE state = "OPENING"
    BY <1>1, <1>2, <2>1, <2>2, <2>3, GateSMAssumption
       DEF SettlesAs, TypeOK, States, Moving, OpenMeansContact,
           OnlyACommandMasksContact, TravelTimedFromItsStart,
           OpeningIsCommanded, StoppedMeansUnanswered
  <2>4. CASE state = "CLOSING"
    BY <1>1, <1>2, <2>2, <2>4
       DEF SettlesAs, TypeOK, States, Moving, OpenMeansContact,
           OnlyACommandMasksContact, TravelTimedFromItsStart,
           OpeningIsCommanded, StoppedMeansUnanswered
  <2> QED
    BY <1>2, <2>3, <2>4 DEF Moving
<1>3. CASE UNCHANGED state
  BY <1>1, <1>3
     DEF TypeOK, OpenMeansContact, OnlyACommandMasksContact,
         TravelTimedFromItsStart, OpeningIsCommanded, StoppedMeansUnanswered
<1> QED
  BY <1>2, <1>3 DEF Tick, OnTick

(* Every step preserves Safety. *)
LEMMA NextSafety ==
  ASSUME Safety, [Next]_vars
  PROVE  Safety'
<1>1. CASE \E cmd \in Cmds : Cmd(cmd)
  BY <1>1, CmdSafety
<1>2. CASE \E is_fully_open \in BOOLEAN : StatusChange(is_fully_open)
  BY <1>2, StatusChangeSafety
<1>3. CASE Tick
  BY <1>3, TickSafety
<1>4. CASE Advance
  BY <1>4, GateSMAssumption
     DEF Advance, sm, history, Safety, TypeOK, OpenMeansContact,
         OnlyACommandMasksContact, TravelTimedFromItsStart,
         OpeningIsCommanded, StoppedMeansUnanswered
<1>5. CASE Restart
  BY <1>5, GateSMAssumption
     DEF Restart, Blank, Safety, TypeOK, States, Contacts, Moving,
         OpenMeansContact, OnlyACommandMasksContact, TravelTimedFromItsStart,
         OpeningIsCommanded, StoppedMeansUnanswered
<1>6. CASE UNCHANGED vars
  BY <1>6
     DEF vars, sm, history, Safety, TypeOK, OpenMeansContact,
         OnlyACommandMasksContact, TravelTimedFromItsStart,
         OpeningIsCommanded, StoppedMeansUnanswered
<1> QED
  BY <1>1, <1>2, <1>3, <1>4, <1>5, <1>6 DEF Next

(* The inductive invariant holds in every reachable state. *)
THEOREM SafetyHolds == Spec => []Safety
  BY InitSafety, NextSafety, PTL DEF Spec

-----------------------------------------------------------------------------
(* gate_sm_t keeps its types, and its time stamps are times of this boot.  *)
THEOREM TypeCorrect == Spec => []TypeOK
<1>1. Safety => TypeOK
  BY DEF Safety
<1> QED
  BY <1>1, SafetyHolds, PTL

(* A gate is reported OPEN only while its contact is made.                 *)
THEOREM OpenIsSensed == Spec => []OpenMeansContact
<1>1. Safety => OpenMeansContact
  BY DEF Safety
<1> QED
  BY <1>1, SafetyHolds, PTL

(* Only a command accepted after the contact made hides it.                *)
THEOREM MaskingNeedsCommand == Spec => []OnlyACommandMasksContact
<1>1. Safety => OnlyACommandMasksContact
  BY DEF Safety
<1> QED
  BY <1>1, SafetyHolds, PTL

(* Every leg is timed from the moment it began.                            *)
THEOREM TravelTimed == Spec => []TravelTimedFromItsStart
<1>1. Safety => TravelTimedFromItsStart
  BY DEF Safety
<1> QED
  BY <1>1, SafetyHolds, PTL

(* STOPPED is reported only of an OPEN that went unanswered for the whole  *)
(* travel time.                                                            *)
THEOREM StoppedJustified == Spec => []StoppedMeansUnanswered
<1>1. Safety => StoppedMeansUnanswered
  BY DEF Safety
<1> QED
  BY <1>1, SafetyHolds, PTL

-----------------------------------------------------------------------------
(* Only the tick settles a moving gate, and it waited: every other step    *)
(* that ends a leg reports OPEN, turns the gate round or is a reset.       *)
THEOREM SettlesOnTime == Spec => NeverSettledEarly
<1> DEFINE A == (state \in Moving /\ state' \in {"STOPPED", "CLOSED"})
                  => now - entered >= TravelTimeout
<1>1. ASSUME Safety, [Next]_vars PROVE [A]_vars
  <2> SUFFICES ASSUME state \in Moving, state' \in {"STOPPED", "CLOSED"}
               PROVE  now - entered >= TravelTimeout
    OBVIOUS
  <2>1. ASSUME NEW cmd \in Cmds, Cmd(cmd) PROVE FALSE
    BY <2>1 DEF Cmd, OnCmd, Refused, sm, HeadingFor, Moving
  <2>2. ASSUME NEW b \in BOOLEAN, StatusChange(b) PROVE FALSE
    BY <2>2 DEF StatusChange, OnStatusChange, BecomesOpen, LeavesOpen, Moving
  <2>3. CASE Tick
    <3>1. Expired(now)
      BY <2>3 DEF Tick, OnTick, Moving
    <3>2. now - travel_start_ms >= TravelTimeout
      BY <1>1, <3>1, ElapsedInOrder DEF Expired, Safety, TypeOK
    <3> QED
      BY <1>1, <3>2 DEF Safety, TravelTimedFromItsStart
  <2>4. CASE Advance
    BY <2>4 DEF Advance, sm, Moving
  <2>5. CASE Restart
    BY <2>5 DEF Restart, Blank
  <2>6. CASE UNCHANGED vars
    BY <2>6 DEF vars, sm, Moving
  <2> QED
    BY <1>1, <2>1, <2>2, <2>3, <2>4, <2>5, <2>6 DEF Next
<1> QED
  BY <1>1, SafetyHolds, PTL DEF Spec, NeverSettledEarly

(* Accepted commands are MinSpacing apart whatever happens between them.   *)
THEOREM CommandsAreSpaced == Spec => CommandsSpaced
<1> DEFINE A == (last_cmd # "NONE" /\ now' = now /\ last_cmd_ms' # last_cmd_ms)
                  => last_cmd_ms' - last_cmd_ms >= MinSpacing
<1>1. ASSUME Safety, [Next]_vars PROVE [A]_vars
  <2> SUFFICES ASSUME last_cmd # "NONE", now' = now, last_cmd_ms' # last_cmd_ms
               PROVE  last_cmd_ms' - last_cmd_ms >= MinSpacing
    OBVIOUS
  <2>1. ASSUME NEW cmd \in Cmds, Cmd(cmd)
        PROVE  last_cmd_ms' - last_cmd_ms >= MinSpacing
    <3>1. CmdResult(cmd, now) = "ACCEPTED" /\ last_cmd_ms' = now
      BY <2>1 DEF Cmd, OnCmd, Refused, sm
    <3>2. CmdSpacingOk(now)
      BY <3>1 DEF CmdResult
    <3> QED
      BY <1>1, <3>1, <3>2, ElapsedInOrder DEF CmdSpacingOk, Safety, TypeOK
  <2>2. ASSUME NEW b \in BOOLEAN, StatusChange(b) PROVE FALSE
    BY <2>2 DEF StatusChange, OnStatusChange
  <2>3. CASE Tick
    BY <2>3 DEF Tick, OnTick
  <2>4. CASE Advance
    BY <2>4 DEF Advance, sm
  <2>5. CASE Restart
    BY <1>1, <2>5 DEF Restart, Blank, Safety, TypeOK
  <2>6. CASE UNCHANGED vars
    BY <2>6 DEF vars, sm
  <2> QED
    BY <1>1, <2>1, <2>2, <2>3, <2>4, <2>5, <2>6 DEF Next
<1> QED
  BY <1>1, SafetyHolds, PTL DEF Spec, CommandsSpaced
=============================================================================
