--------------------------- MODULE GateRaceProofs ---------------------------
(***************************************************************************)
(* Proofs about GateRace, for any travel time, spacing and length of a     *)
(* call, and whatever calls overlap: no race reports a gate open that is   *)
(* not, or times a leg by the clock of an earlier one; calls that do not   *)
(* overlap are the handlers of GateSM, and then no tick is hasty.          *)
(***************************************************************************)
EXTENDS GateRace, TLAPS

Places == {"idle", "entry", "start", "again", "stores"}
Args == {"none", "MADE", "BROKEN", "OPEN", "CLOSE"}

(* The task has the store of this field still to make. *)
Owes(t, f) == at[t] = "stores" /\ f \in DOMAIN todo[t]

(* The task is to report a gate that sets off. *)
SetsOff(t) == Owes(t, "state") /\ todo[t]["state"] \in SM!Moving

Types ==
  /\ now \in Nat /\ entered \in 0 .. now /\ travel_start_ms \in 0 .. now
  /\ at \in [Tasks -> Places] /\ stamp \in [Tasks -> Nat]
  /\ arg \in [Tasks -> Args]
  /\ todo = [t \in Tasks |-> todo[t]]
  /\ \A t \in Tasks : ~Idle(t) => stamp[t] <= now /\ now <= stamp[t] + Skew

(* What the stores of a call have in common. *)
StoresTyped ==
  \A t \in Tasks :
    /\ Owes(t, "travel_start_ms") => todo[t]["travel_start_ms"] = stamp[t]
    /\ Owes(t, "state") /\ DOMAIN todo[t] # {"state"} => SetsOff(t)

(* A travel clock later than the leg belongs to a call that is still to    *)
(* store its state: it found another state than its own, so if they are    *)
(* the same now the leg began since.                                       *)
NotLater ==
  /\ \A t \in Tasks : SetsOff(t) /\ state = todo[t]["state"] => stamp[t] <= entered
  /\ \A t \in Tasks : at[t] = "stores" /\ ~Owes(t, "state") => stamp[t] <= entered
  /\ state \in SM!Moving =>
       \/ travel_start_ms <= entered
       \/ \E t \in Tasks : Owes(t, "state") /\ travel_start_ms <= stamp[t]

(* A leg is left with the clock of an earlier one only until the call that *)
(* reported it has stored its own; who overwrites that one began at most a *)
(* call before.                                                            *)
NotEarlier ==
  /\ \A t \in Tasks : SetsOff(t) /\ ~Owes(t, "travel_start_ms") =>
       stamp[t] <= travel_start_ms + Skew
  /\ state \in SM!Moving =>
       \/ entered <= travel_start_ms + 2 * Skew
       \/ \E t \in Tasks : Owes(t, "travel_start_ms")

(* Only the status task reports OPEN, and only of a contact made.          *)
OpenFed ==
  /\ at["status"] \in {"idle", "entry", "stores"}
  /\ at["status"] # "idle" => arg["status"] \in {"MADE", "BROKEN"}
  /\ \A t \in Tasks : Owes(t, "state") /\ todo[t]["state"] = "OPEN" =>
       t = "status" /\ arg["status"] = "MADE"
  /\ IF at["status"] = "stores"
       THEN arg["status"] = "BROKEN" /\ ~Owes("status", "state") => state # "OPEN"
       ELSE state = "OPEN" => contact = "MADE"

Races == Types /\ StoresTyped /\ NotLater /\ NotEarlier /\ OpenFed

(* A call taken apart, while no other goes on: it has the machine it found *)
(* (before) and the stores it has made so far.                             *)
One ==
  \A t, u \in Tasks : ~Idle(t) /\ ~Idle(u) => t = u

Untouched ==
  state = before.state /\ last_cmd = before.last_cmd
    /\ last_cmd_ms = before.last_cmd_ms /\ travel_start_ms = before.travel_start_ms
    /\ entered = before.entered

(* Each field of gate_sm_t has the value found, until the call's is stored. *)
Halfway(t, s, cmd, cmd_ms, travel) ==
  /\ state = IF Owes(t, "state") THEN before.state ELSE s
  /\ last_cmd = IF Owes(t, "last_cmd") THEN before.last_cmd ELSE cmd
  /\ last_cmd_ms = IF Owes(t, "last_cmd_ms") THEN before.last_cmd_ms ELSE cmd_ms
  /\ travel_start_ms = IF Owes(t, "travel_start_ms") THEN before.travel_start_ms ELSE travel
  /\ entered = IF state = before.state THEN before.entered ELSE now
  /\ Owes(t, "state") => todo[t]["state"] = s
  /\ Owes(t, "last_cmd") => todo[t]["last_cmd"] = cmd
  /\ Owes(t, "last_cmd_ms") => todo[t]["last_cmd_ms"] = cmd_ms
  /\ Owes(t, "travel_start_ms") => todo[t]["travel_start_ms"] = travel

TickApart ==
  /\ at["main"] \in {"entry", "start", "again"} => Untouched
  /\ at["main"] \in {"start", "again"} => loaded = state /\ state \in SM!Moving
  /\ at["main"] = "again" => SM!Expired(now)
  /\ at["main"] = "stores" =>
       /\ before.state \in SM!Moving /\ SM!Elapsed(now, before.travel_start_ms) >= TravelTimeout
       /\ Halfway("main", SM!SettlesAs(before.state), before.last_cmd,
                  before.last_cmd_ms, before.travel_start_ms)
  /\ at["main"] = "stores" => DOMAIN todo["main"] = {"state"}

StatusApart ==
  /\ at["status"] # "idle" => arg["status"] # before.contact
  /\ at["status"] = "entry" => Untouched
  /\ at["status"] = "stores" =>
       \/ arg["status"] = "MADE"
            /\ Halfway("status", "OPEN", before.last_cmd, before.last_cmd_ms,
                       before.travel_start_ms)
       \/ arg["status"] = "BROKEN" /\ before.state = "UNKNOWN"
            /\ Halfway("status", "CLOSED", before.last_cmd, before.last_cmd_ms,
                       before.travel_start_ms)
       \/ arg["status"] = "BROKEN" /\ before.state = "OPEN"
            /\ Halfway("status", "CLOSING", before.last_cmd, before.last_cmd_ms, now)

CmdApart ==
  /\ at["httpd"] # "idle" => arg["httpd"] \in SM!Cmds
  /\ at["httpd"] = "entry" => Untouched
  /\ at["httpd"] \in {"idle", "entry", "stores"}
  /\ at["httpd"] = "stores" =>
       /\ before.state \notin SM!Satisfying(arg["httpd"])
       /\ before.last_cmd = "NONE" \/ SM!Elapsed(now, before.last_cmd_ms) >= MinSpacing
       /\ Halfway("httpd", SM!HeadingFor(arg["httpd"]), arg["httpd"], now, now)

Apart ==
  overlap = "serial" =>
    /\ One
    /\ \A t \in Tasks : ~Idle(t) => stamp[t] = now
    /\ ~Quiet => contact = before.contact /\ contact_ms = before.contact_ms
    /\ TickApart /\ StatusApart /\ CmdApart

-----------------------------------------------------------------------------
(* What one store does: to memory, and to what its call still owes. *)
LEMMA StoreFacts ==
  ASSUME Types, NEW task \in Tasks, Store(task)
  PROVE  \E f \in DOMAIN todo[task] :
           /\ Owes(task, f)
           /\ state' = IF f = "state" THEN todo[task][f] ELSE state
           /\ last_cmd' = IF f = "last_cmd" THEN todo[task][f] ELSE last_cmd
           /\ last_cmd_ms' = IF f = "last_cmd_ms" THEN todo[task][f] ELSE last_cmd_ms
           /\ travel_start_ms' = IF f = "travel_start_ms" THEN todo[task][f]
                                                          ELSE travel_start_ms
           /\ entered' = IF state' # state THEN now ELSE entered
           /\ now' = now
           /\ \A t \in Tasks : at'[t] = "stores" => at[t] = "stores" /\ stamp'[t] = stamp[t]
           /\ \A t \in Tasks : \A g :
                /\ Owes(t, g)' <=> Owes(t, g) /\ ~(t = task /\ g = f)
                /\ Owes(t, g)' => todo'[t][g] = todo[t][g]
           /\ f = "state" /\ at'[task] = "stores" => DOMAIN todo[task] # {"state"}
           /\ \A t \in Tasks :
                Owes(t, "state")' /\ DOMAIN todo'[t] # {"state"} => DOMAIN todo[t] # {"state"}
<1> USE DEF Types
<1> DEFINE rest(f) == DOMAIN todo[task] \ {f}
<1>1. PICK f \in DOMAIN todo[task] :
        /\ state' = IF f = "state" THEN todo[task][f] ELSE state
        /\ last_cmd' = IF f = "last_cmd" THEN todo[task][f] ELSE last_cmd
        /\ last_cmd_ms' = IF f = "last_cmd_ms" THEN todo[task][f] ELSE last_cmd_ms
        /\ travel_start_ms' = IF f = "travel_start_ms" THEN todo[task][f]
                                                       ELSE travel_start_ms
        /\ IF rest(f) = {}
             THEN Return(task)
             ELSE /\ todo' = [todo EXCEPT ![task] = [g \in rest(f) |-> todo[task][g]]]
                  /\ UNCHANGED <<at, stamp, arg>>
  BY Zenon DEF Store
<1>2. /\ at[task] = "stores" /\ now' = now
      /\ entered' = IF state' # state THEN now ELSE entered
  BY DEF Store
<1>3. CASE rest(f) = {}
  <2>1. /\ at' = [at EXCEPT ![task] = "idle"] /\ stamp' = [stamp EXCEPT ![task] = 0]
        /\ todo' = [todo EXCEPT ![task] = << >>]
    BY <1>1, <1>3 DEF Return
  <2>2. at'[task] = "idle"
    BY <2>1
  <2>3. \A t \in Tasks : t # task =>
          at'[t] = at[t] /\ stamp'[t] = stamp[t] /\ todo'[t] = todo[t]
    BY <2>1
  <2>4. \A g : Owes(task, g) => g = f
    BY <1>3 DEF Owes
  <2> QED
    BY <1>1, <1>2, <2>2, <2>3, <2>4 DEF Owes
<1>4. CASE rest(f) # {}
  <2>1. /\ todo' = [todo EXCEPT ![task] = [g \in rest(f) |-> todo[task][g]]]
        /\ at' = at /\ stamp' = stamp
    BY <1>1, <1>4
  <2>2. todo'[task] = [g \in rest(f) |-> todo[task][g]]
    BY <2>1
  <2>3. \A t \in Tasks : t # task => todo'[t] = todo[t]
    BY <2>1
  <2>4. DOMAIN todo'[task] = rest(f) /\ \A g \in rest(f) : todo'[task][g] = todo[task][g]
    BY <2>2
  <2>5. DOMAIN todo[task] # {f}
    BY <1>4
  <2>6. f # "state" /\ "state" \in rest(f) => DOMAIN todo[task] # {"state"}
    BY <1>1
  <2> QED
    BY <1>1, <1>2, <2>1, <2>3, <2>4, <2>5, <2>6 DEF Owes
<1> QED
  BY <1>3, <1>4

LEMMA StoreClocks ==
  ASSUME Types, StoresTyped, NotLater, NotEarlier, NEW task \in Tasks, Store(task)
  PROVE  StoresTyped' /\ NotLater' /\ NotEarlier'
<1>1. PICK f \in DOMAIN todo[task] :
        /\ Owes(task, f)
        /\ state' = IF f = "state" THEN todo[task][f] ELSE state
        /\ travel_start_ms' = IF f = "travel_start_ms" THEN todo[task][f]
                                                       ELSE travel_start_ms
        /\ entered' = IF state' # state THEN now ELSE entered
        /\ now' = now
        /\ \A t \in Tasks : at'[t] = "stores" => at[t] = "stores" /\ stamp'[t] = stamp[t]
        /\ \A t \in Tasks : \A g :
             /\ Owes(t, g)' <=> Owes(t, g) /\ ~(t = task /\ g = f)
             /\ Owes(t, g)' => todo'[t][g] = todo[t][g]
        /\ f = "state" /\ at'[task] = "stores" => DOMAIN todo[task] # {"state"}
        /\ \A t \in Tasks :
             Owes(t, "state")' /\ DOMAIN todo'[t] # {"state"} => DOMAIN todo[t] # {"state"}
  BY StoreFacts
<1>2. \A t \in Tasks : SetsOff(t)' => SetsOff(t) /\ todo'[t]["state"] = todo[t]["state"]
                                       /\ ~(t = task /\ f = "state")
  BY <1>1 DEF SetsOff
<1>3. /\ Skew \in Nat /\ now \in Nat /\ entered \in Nat /\ entered' \in Nat
      /\ travel_start_ms \in Nat /\ travel_start_ms <= now
      /\ entered <= now /\ entered <= entered' /\ entered' <= now
  <2>1. entered' = now \/ entered' = entered
    BY <1>1
  <2>2. Skew \in Nat
    BY GateRaceAssumption
  <2>3. /\ now \in Nat /\ entered \in Nat /\ entered <= now
        /\ travel_start_ms \in Nat /\ travel_start_ms <= now
    BY DEF Types
  <2> QED
    BY <2>1, <2>2, <2>3
<1>11. ASSUME NEW t \in Tasks, at[t] = "stores"
       PROVE  stamp[t] \in Nat /\ stamp[t] <= now /\ now <= stamp[t] + Skew
  BY <1>11 DEF Types, Idle
<1>4. StoresTyped'
  <2>1. ASSUME NEW t \in Tasks, Owes(t, "travel_start_ms")'
        PROVE  (todo[t]["travel_start_ms"] = stamp[t])'
    BY <1>1, <2>1 DEF StoresTyped, Owes
  <2>2. ASSUME NEW t \in Tasks, Owes(t, "state")', DOMAIN todo'[t] # {"state"}
        PROVE  SetsOff(t)'
    BY <1>1, <2>2 DEF StoresTyped, SetsOff
  <2> QED
    BY <2>1, <2>2 DEF StoresTyped
<1>5. \A t \in Tasks : SetsOff(t)' /\ state' = todo'[t]["state"] => stamp'[t] <= entered'
  <2> TAKE t \in Tasks
  <2> HAVE SetsOff(t)' /\ state' = todo'[t]["state"]
  <2>1. SetsOff(t) /\ at[t] = "stores" /\ stamp'[t] = stamp[t] /\ state' = todo[t]["state"]
    BY <1>1, <1>2 DEF SetsOff, Owes
  <2> QED
    BY <1>1, <1>3, <1>11, <2>1 DEF NotLater
(* A call that has stored its state set the gate off, then or before.     *)
<1>6. f = "state" /\ SetsOff(task) => stamp[task] <= entered'
  BY <1>1, <1>3, <1>11 DEF NotLater, Owes
<1>7. \A t \in Tasks : at'[t] = "stores" /\ ~Owes(t, "state")' => stamp'[t] <= entered'
  <2> TAKE t \in Tasks
  <2> HAVE at'[t] = "stores" /\ ~Owes(t, "state")'
  <2>1. at[t] = "stores" /\ stamp'[t] = stamp[t]
    BY <1>1
  <2>2. CASE ~Owes(t, "state")
    BY <1>3, <1>11, <2>1, <2>2 DEF NotLater
  <2>3. CASE Owes(t, "state")
    <3>1. t = task /\ f = "state"
      BY <1>1, <2>3
    <3>2. SetsOff(task)
      BY <1>1, <2>3, <3>1 DEF StoresTyped
    <3> QED
      BY <1>6, <2>1, <3>1, <3>2
  <2> QED
    BY <2>2, <2>3
<1>8. state' \in SM!Moving =>
        \/ travel_start_ms' <= entered'
        \/ \E t \in Tasks : Owes(t, "state")' /\ travel_start_ms' <= stamp'[t]
  <2> HAVE state' \in SM!Moving
  <2>1. CASE f = "state"
    <3>1. SetsOff(task) /\ travel_start_ms' = travel_start_ms
      BY <1>1, <2>1 DEF SetsOff
    <3>2. CASE state' # state
      BY <1>1, <1>3, <3>1, <3>2
    <3>3. CASE state' = state
      <4>1. stamp[task] <= entered
        BY <1>1, <2>1, <3>1, <3>3 DEF NotLater
      <4>2. CASE travel_start_ms <= entered
        BY <1>3, <3>1, <4>2
      <4>3. ASSUME NEW t \in Tasks, Owes(t, "state"), travel_start_ms <= stamp[t]
            PROVE  \/ travel_start_ms' <= entered'
                   \/ \E u \in Tasks : Owes(u, "state")' /\ travel_start_ms' <= stamp'[u]
        <5>1. CASE t = task
          <6>1. stamp[task] \in Nat
            BY <1>11, <4>3, <5>1 DEF Owes
          <6> QED
            BY <1>3, <3>1, <4>1, <4>3, <5>1, <6>1
        <5>2. CASE t # task
          <6>1. Owes(t, "state")' /\ stamp'[t] = stamp[t]
            BY <1>1, <4>3, <5>2 DEF Owes
          <6> QED
            BY <3>1, <4>3, <6>1
        <5> QED
          BY <5>1, <5>2
      <4> QED
        BY <3>3, <4>2, <4>3 DEF NotLater
    <3> QED
      BY <3>2, <3>3
  <2>2. CASE f = "travel_start_ms"
    <3>1. travel_start_ms' = stamp[task] /\ state' = state /\ entered' = entered
      BY <1>1, <2>2 DEF StoresTyped
    <3>2. CASE Owes(task, "state")
      <4>1. Owes(task, "state")' /\ stamp'[task] = stamp[task]
        BY <1>1, <2>2, <3>2 DEF Owes
      <4>2. travel_start_ms' <= stamp'[task]
        BY <1>1, <1>11, <3>1, <4>1 DEF Owes
      <4> QED
        BY <4>1, <4>2
    <3>3. CASE ~Owes(task, "state")
      <4>1. stamp[task] <= entered
        BY <1>1, <3>3 DEF NotLater, Owes
      <4> QED
        BY <3>1, <4>1
    <3> QED
      BY <3>2, <3>3
  <2>3. CASE f \notin {"state", "travel_start_ms"}
    <3>1. UNCHANGED <<state, travel_start_ms, entered>>
      BY <1>1, <2>3
    <3>2. \A t \in Tasks : Owes(t, "state") => Owes(t, "state")' /\ stamp'[t] = stamp[t]
      BY <1>1, <2>3 DEF Owes
    <3> QED
      BY <3>1, <3>2 DEF NotLater
  <2> QED
    BY <2>1, <2>2, <2>3
<1>9. \A t \in Tasks : SetsOff(t)' /\ ~Owes(t, "travel_start_ms")' =>
        stamp'[t] <= travel_start_ms' + Skew
  <2> TAKE t \in Tasks
  <2> HAVE SetsOff(t)' /\ ~Owes(t, "travel_start_ms")'
  <2>1. SetsOff(t) /\ at[t] = "stores" /\ stamp'[t] = stamp[t]
    BY <1>1, <1>2 DEF SetsOff, Owes
  <2>2. CASE f = "travel_start_ms"
    <3>1. travel_start_ms' = stamp[task] /\ at[task] = "stores"
      BY <1>1, <2>2 DEF StoresTyped, Owes
    <3> QED
      BY <1>3, <1>11, <2>1, <3>1
  <2>3. CASE f # "travel_start_ms"
    <3>1. ~Owes(t, "travel_start_ms") /\ travel_start_ms' = travel_start_ms
      BY <1>1, <2>3
    <3> QED
      BY <2>1, <3>1 DEF NotEarlier
  <2> QED
    BY <2>2, <2>3
<1>10. state' \in SM!Moving =>
         \/ entered' <= travel_start_ms' + 2 * Skew
         \/ \E t \in Tasks : Owes(t, "travel_start_ms")'
  <2> HAVE state' \in SM!Moving
  <2>1. CASE f = "travel_start_ms"
    <3>1. travel_start_ms' = stamp[task] /\ at[task] = "stores"
      BY <1>1, <2>1 DEF StoresTyped, Owes
    <3> QED
      BY <1>3, <1>11, <3>1
  <2>2. CASE f # "travel_start_ms"
    <3>1. \A t \in Tasks : Owes(t, "travel_start_ms") => Owes(t, "travel_start_ms")'
      BY <1>1, <2>2
    <3>2. travel_start_ms' = travel_start_ms
      BY <1>1, <2>2
    <3>3. CASE state' = state
      BY <1>1, <3>1, <3>2, <3>3 DEF NotEarlier
    <3>4. CASE state' # state
      <4>1. f = "state" /\ SetsOff(task) /\ entered' = now /\ at[task] = "stores"
        BY <1>1, <3>4 DEF SetsOff, Owes
      <4>2. CASE Owes(task, "travel_start_ms")
        BY <3>1, <4>2
      <4>3. CASE ~Owes(task, "travel_start_ms")
        <5>1. stamp[task] <= travel_start_ms + Skew
          BY <4>1, <4>3 DEF NotEarlier
        <5> QED
          BY <1>3, <1>11, <3>2, <4>1, <5>1
      <4> QED
        BY <4>2, <4>3
    <3> QED
      BY <3>3, <3>4
  <2> QED
    BY <2>1, <2>2
<1> QED
  BY <1>4, <1>5, <1>7, <1>8, <1>9, <1>10 DEF NotLater, NotEarlier

-----------------------------------------------------------------------------
(* A call that begins, loads or returns leaves memory and the other calls  *)
(* alone.                                                                  *)

OthersStay(task) ==
  \A t \in Tasks \ {task} :
    at'[t] = at[t] /\ stamp'[t] = stamp[t] /\ arg'[t] = arg[t] /\ todo'[t] = todo[t]

CallTypes ==
  /\ at \in [Tasks -> Places] /\ stamp \in [Tasks -> Nat] /\ arg \in [Tasks -> Args]
  /\ todo = [t \in Tasks |-> todo[t]]
  /\ \A t \in Tasks : ~Idle(t) => stamp[t] <= now /\ now <= stamp[t] + Skew

LEMMA CallMovesOn ==
  ASSUME Types, NEW task \in Tasks, ~Idle(task), now' = now,
         NEW place \in {"start", "again"}, NEW fields,
         Return(task) \/ GoTo(task, place) \/ Stores(task, fields)
  PROVE  /\ CallTypes' /\ OthersStay(task)
         /\ at'[task] = "stores" =>
              stamp'[task] = stamp[task] /\ arg'[task] = arg[task] /\ todo'[task] = fields
         /\ at'[task] \in {"idle", "start", "again", "stores"}
<1> USE DEF Types, CallTypes, OthersStay, Idle, Places
<1>1. CASE Return(task)
  BY <1>1 DEF Return, Args
<1>2. CASE GoTo(task, place)
  BY <1>2 DEF GoTo
<1>3. CASE Stores(task, fields)
  BY <1>3 DEF Stores
<1> QED
  BY <1>1, <1>2, <1>3

LEMMA CallBegins ==
  ASSUME Types, NEW task \in Tasks, NEW argument \in Args, Call(task, argument), Skew \in Nat
  PROVE  /\ CallTypes' /\ OthersStay(task) /\ Idle(task)
         /\ at'[task] = "entry" /\ arg'[task] = argument /\ stamp'[task] = now
  BY DEF Types, CallTypes, OthersStay, Idle, Places, Call

(* The stores a call begins are those of a gate that sets off, the clock   *)
(* of the leg included, unless the state is all it stores; and it does not *)
(* set off where it is already going.                                      *)
StoresWell(task) ==
  at'[task] = "stores" =>
    /\ stamp'[task] = stamp[task] /\ "state" \in DOMAIN todo'[task]
    /\ "travel_start_ms" \in DOMAIN todo'[task] =>
         todo'[task]["travel_start_ms"] = stamp[task]
    /\ DOMAIN todo'[task] # {"state"} \/ todo'[task]["state"] \in SM!Moving =>
         /\ todo'[task]["state"] \in SM!Moving /\ todo'[task]["state"] # state
         /\ "travel_start_ms" \in DOMAIN todo'[task]

LEMMA LoadClocks ==
  ASSUME Types, StoresTyped, NotLater, NotEarlier, NEW task \in Tasks,
         at[task] # "stores", OthersStay(task), StoresWell(task),
         UNCHANGED <<state, travel_start_ms, entered>>
  PROVE  StoresTyped' /\ NotLater' /\ NotEarlier'
<1>1. \A t \in Tasks \ {task} :
        /\ \A f : Owes(t, f)' <=> Owes(t, f)
        /\ at'[t] = at[t] /\ stamp'[t] = stamp[t] /\ todo'[t] = todo[t]
        /\ SetsOff(t)' <=> SetsOff(t)
  BY DEF OthersStay, Owes, SetsOff
<1>2. /\ ~SetsOff(task) /\ \A f : ~Owes(task, f)
      /\ at'[task] = "stores" => Owes(task, "state")'
  BY DEF Owes, SetsOff, StoresWell
<1>3. /\ SetsOff(task)' => Owes(task, "travel_start_ms")' /\ todo'[task]["state"] # state
      /\ Owes(task, "travel_start_ms")' => (todo[task]["travel_start_ms"] = stamp[task])'
      /\ Owes(task, "state")' /\ DOMAIN todo'[task] # {"state"} => SetsOff(task)'
  BY DEF Owes, SetsOff, StoresWell
<1>4. StoresTyped'
  BY <1>1, <1>3 DEF StoresTyped
<1>5. NotLater'
  <2>1. \A t \in Tasks : SetsOff(t)' /\ state' = todo'[t]["state"] => stamp'[t] <= entered'
    BY <1>1, <1>3 DEF NotLater
  <2>2. \A t \in Tasks : at'[t] = "stores" /\ ~Owes(t, "state")' => stamp'[t] <= entered'
    BY <1>1, <1>2 DEF NotLater
  <2>3. state \in SM!Moving =>
          \/ travel_start_ms' <= entered'
          \/ \E t \in Tasks : Owes(t, "state")' /\ travel_start_ms' <= stamp'[t]
    BY <1>1, <1>2 DEF NotLater
  <2> QED
    BY <2>1, <2>2, <2>3 DEF NotLater
<1>6. NotEarlier'
  BY <1>1, <1>2, <1>3 DEF NotEarlier
<1> QED
  BY <1>4, <1>5, <1>6

-----------------------------------------------------------------------------
(* Every step that is not a store or the clock's is one of those. *)

Calls == TickCall \/ (\E b \in BOOLEAN : StatusCall(b)) \/ (\E c \in SM!Cmds : CmdCall(c))
Loads == TickLoadsState \/ TickLoadsStart \/ TickChooses \/ StatusLoadsState \/ CmdLoadsState

LEMMA CallKeeps ==
  ASSUME Races, Calls
  PROVE  Races'
<1>1. Skew \in Nat
  BY GateRaceAssumption
<1>2. PICK task \in Tasks, argument \in Args :
        /\ Call(task, argument)
        /\ task = "status" => argument \in {"MADE", "BROKEN"}
  BY DEF Calls, TickCall, StatusCall, CmdCall, SM!Level, SM!Cmds, Tasks, Args
<1>3. /\ UNCHANGED <<state, travel_start_ms, entered, now, contact>>
  BY <1>2 DEF Call, sm, fed
<1>4. /\ CallTypes' /\ OthersStay(task) /\ Idle(task)
      /\ at'[task] = "entry" /\ arg'[task] = argument
  BY <1>1, <1>2, CallBegins DEF Races
<1>5. Types'
  BY <1>3, <1>4 DEF Races, Types, CallTypes, Idle
<1>6. StoresTyped' /\ NotLater' /\ NotEarlier'
  <2>1. StoresWell(task) /\ at[task] # "stores"
    BY <1>4 DEF StoresWell, Idle
  <2> QED
    BY <1>3, <1>4, <2>1, LoadClocks DEF Races
<1>7. OpenFed'
  <2>1. \A t \in Tasks \ {task} :
          /\ \A f : Owes(t, f)' <=> Owes(t, f)
          /\ at'[t] = at[t] /\ arg'[t] = arg[t] /\ todo'[t] = todo[t]
    BY <1>4 DEF OthersStay, Owes
  <2>2. \A f : ~Owes(task, f)'
    BY <1>4 DEF Owes
  <2>3. CASE task = "status"
    BY <1>2, <1>3, <1>4, <2>1, <2>2, <2>3 DEF Races, OpenFed, Tasks, Idle
  <2>4. CASE task # "status"
    <3>1. "status" \in Tasks \ {task}
      BY <2>4 DEF Tasks
    <3> QED
      BY <1>3, <1>4, <2>1, <2>2, <3>1 DEF Races, OpenFed, Tasks
  <2> QED
    BY <2>3, <2>4
<1> QED
  BY <1>5, <1>6, <1>7 DEF Races

(* How a call goes on from a load. *)
LEMMA LoadFacts ==
  ASSUME Races, Loads
  PROVE  \E task \in Tasks :
           /\ ~Idle(task) /\ at[task] # "stores"
           /\ CallTypes' /\ OthersStay(task) /\ StoresWell(task)
           /\ UNCHANGED <<state, travel_start_ms, entered, now>>
           /\ at'[task] \in {"idle", "start", "again", "stores"}
           /\ IF task = "status"
                THEN /\ at["status"] = "entry" /\ at'["status"] \in {"idle", "stores"}
                     /\ at'["status"] = "idle" =>
                          contact' = arg["status"]
                            /\ (arg["status"] = "BROKEN" => state # "OPEN")
                     /\ at'["status"] = "stores" =>
                          /\ arg'["status"] = arg["status"]
                          /\ todo'["status"]["state"] = "OPEN" => arg["status"] = "MADE"
                ELSE contact' = contact
                     /\ (at'[task] = "stores" => todo'[task]["state"] # "OPEN")
<1> USE DEF Quietly, sm, fed
<1>1. Types /\ OpenFed
  BY DEF Races
<1>2. CASE TickLoadsState
  <2>1. /\ at["main"] = "entry"
        /\ UNCHANGED <<state, travel_start_ms, entered, now, contact>>
        /\ GoTo("main", "start") \/ Return("main")
    BY <1>2 DEF TickLoadsState
  <2>2. /\ CallTypes' /\ OthersStay("main") /\ at'["main"] # "stores"
        /\ at'["main"] \in {"idle", "start", "again"}
    <3>1. at'["main"] # "stores"
      BY <1>1, <2>1 DEF GoTo, Return, Types, Tasks
    <3> QED
      BY <1>1, <2>1, <3>1, CallMovesOn DEF Tasks, Idle
  <2> QED
    BY <2>1, <2>2 DEF StoresWell, Tasks, Idle
<1>3. CASE TickLoadsStart
  <2>1. /\ at["main"] = "start"
        /\ UNCHANGED <<state, travel_start_ms, entered, now, contact>>
        /\ GoTo("main", "again") \/ Return("main")
    BY <1>3 DEF TickLoadsStart
  <2>2. /\ CallTypes' /\ OthersStay("main") /\ at'["main"] # "stores"
        /\ at'["main"] \in {"idle", "start", "again"}
    <3>1. at'["main"] # "stores"
      BY <1>1, <2>1 DEF GoTo, Return, Types, Tasks
    <3> QED
      BY <1>1, <2>1, <3>1, CallMovesOn DEF Tasks, Idle
  <2> QED
    BY <2>1, <2>2 DEF StoresWell, Tasks, Idle
<1>4. CASE TickChooses
  <2>1. PICK s \in {loaded, state} : Stores("main", [f \in {"state"} |-> SM!SettlesAs(s)])
    BY <1>4 DEF TickChooses
  <2>2. /\ at["main"] = "again"
        /\ UNCHANGED <<state, travel_start_ms, entered, now, contact>>
    BY <1>4 DEF TickChooses
  <2> DEFINE fields == [f \in {"state"} |-> SM!SettlesAs(s)]
  <2>3. /\ DOMAIN fields = {"state"} /\ fields["state"] \notin SM!Moving
        /\ fields["state"] # "OPEN"
    BY DEF SM!SettlesAs, SM!Moving
  <2> HIDE DEF fields
  <2>4. /\ CallTypes' /\ OthersStay("main") /\ at'["main"] \in {"idle", "start", "again", "stores"}
        /\ at'["main"] = "stores" => stamp'["main"] = stamp["main"] /\ todo'["main"] = fields
    BY <1>1, <2>1, <2>2, CallMovesOn DEF Tasks, Idle, fields
  <2> QED
    BY <2>2, <2>3, <2>4 DEF StoresWell, Tasks, Idle
<1>5. CASE CmdLoadsState
  <2> DEFINE fields == Accepting(arg["httpd"], stamp["httpd"])
  <2>1. /\ at["httpd"] = "entry"
        /\ UNCHANGED <<state, travel_start_ms, entered, now, contact>>
    BY <1>5 DEF CmdLoadsState
  <2>2. /\ DOMAIN fields = {"state", "last_cmd", "last_cmd_ms", "travel_start_ms"}
        /\ fields["state"] = SM!HeadingFor(arg["httpd"])
        /\ fields["travel_start_ms"] = stamp["httpd"]
    BY DEF Accepting
  <2>3. CASE SM!CmdResult(arg["httpd"], stamp["httpd"]) = "ACCEPTED" /\ Stores("httpd", fields)
    <3>1. state \notin SM!Satisfying(arg["httpd"])
      BY <2>3 DEF SM!CmdResult
    <3>2. fields["state"] \in SM!Moving /\ fields["state"] # state
      BY <2>2, <3>1 DEF SM!Satisfying, SM!HeadingFor, SM!Moving
    <3> HIDE DEF fields
    <3>3. /\ CallTypes' /\ OthersStay("httpd")
          /\ at'["httpd"] \in {"idle", "start", "again", "stores"}
          /\ at'["httpd"] = "stores" => stamp'["httpd"] = stamp["httpd"] /\ todo'["httpd"] = fields
      BY <1>1, <2>1, <2>3, CallMovesOn DEF Tasks, Idle
    <3> QED
      BY <2>1, <2>2, <3>2, <3>3 DEF StoresWell, Tasks, Idle, SM!Moving
  <2>4. CASE Return("httpd")
    <3>1. at'["httpd"] = "idle"
      BY <1>1, <2>4 DEF Return, Types, Tasks
    <3>2. CallTypes' /\ OthersStay("httpd")
      BY <1>1, <2>1, <2>4, CallMovesOn DEF Tasks, Idle
    <3> QED
      BY <2>1, <3>1, <3>2 DEF StoresWell, Tasks, Idle
  <2> QED
    BY <1>5, <2>3, <2>4 DEF CmdLoadsState
<1>6. CASE StatusLoadsState
  <2>1. /\ at["status"] = "entry"
        /\ UNCHANGED <<state, travel_start_ms, entered, now>>
        /\ at'["status"] = "idle" => contact' = arg["status"]
        /\ arg["status"] \in {"MADE", "BROKEN"}
    BY <1>1, <1>6 DEF StatusLoadsState, OpenFed
  <2>2. ASSUME NEW fields, Stores("status", fields),
               "state" \in DOMAIN fields,
               fields["state"] = "OPEN" => arg["status"] = "MADE",
               \/ DOMAIN fields = {"state"} /\ fields["state"] \notin SM!Moving
               \/ /\ "travel_start_ms" \in DOMAIN fields
                  /\ fields["travel_start_ms"] = stamp["status"]
                  /\ fields["state"] \in SM!Moving /\ fields["state"] # state
        PROVE  /\ CallTypes' /\ OthersStay("status") /\ StoresWell("status")
               /\ at'["status"] = "stores" /\ arg'["status"] = arg["status"]
               /\ todo'["status"]["state"] = "OPEN" => arg["status"] = "MADE"
    <3>1. at'["status"] = "stores"
      BY <1>1, <2>2 DEF Stores, Types, Tasks
    <3>2. /\ CallTypes' /\ OthersStay("status")
          /\ stamp'["status"] = stamp["status"] /\ todo'["status"] = fields
          /\ arg'["status"] = arg["status"]
      BY <1>1, <2>1, <2>2, <3>1, CallMovesOn DEF Tasks, Idle
    <3> QED
      BY <2>2, <3>1, <3>2 DEF StoresWell
  <2>3. CASE arg["status"] = "MADE"
    <3>1. Stores("status", [f \in {"state"} |-> "OPEN"])
      BY <1>6, <2>3 DEF StatusLoadsState
    <3>2. /\ CallTypes' /\ OthersStay("status") /\ StoresWell("status")
          /\ at'["status"] = "stores" /\ arg'["status"] = arg["status"]
      BY <2>2, <2>3, <3>1 DEF SM!Moving
    <3> QED
      BY <2>1, <2>3, <3>2 DEF Tasks, Idle
  <2>4. CASE arg["status"] = "BROKEN" /\ state = "UNKNOWN"
    <3>1. Stores("status", [f \in {"state"} |-> "CLOSED"])
      BY <1>6, <2>4 DEF StatusLoadsState
    <3> DEFINE fields == [f \in {"state"} |-> "CLOSED"]
    <3>2. DOMAIN fields = {"state"} /\ fields["state"] = "CLOSED"
      OBVIOUS
    <3> HIDE DEF fields
    <3>3. /\ CallTypes' /\ OthersStay("status") /\ StoresWell("status")
          /\ at'["status"] = "stores" /\ arg'["status"] = arg["status"]
          /\ todo'["status"]["state"] = "OPEN" => arg["status"] = "MADE"
      BY <2>2, <3>1, <3>2 DEF SM!Moving, fields
    <3> QED
      BY <2>1, <2>4, <3>3 DEF Tasks, Idle
  <2>5. CASE arg["status"] = "BROKEN" /\ state = "OPEN"
    <3>1. Stores("status", Leaving(stamp["status"]))
      BY <1>6, <2>5 DEF StatusLoadsState
    <3> DEFINE fields == Leaving(stamp["status"])
    <3>2. /\ DOMAIN fields = {"state", "travel_start_ms"} /\ fields["state"] = "CLOSING"
          /\ fields["travel_start_ms"] = stamp["status"]
      BY DEF Leaving
    <3> HIDE DEF fields
    <3>3. Stores("status", fields)
      BY <3>1 DEF fields
    <3>4. /\ CallTypes' /\ OthersStay("status") /\ StoresWell("status")
          /\ at'["status"] = "stores" /\ arg'["status"] = arg["status"]
          /\ todo'["status"]["state"] = "OPEN" => arg["status"] = "MADE"
      BY <2>2, <2>5, <3>2, <3>3 DEF SM!Moving
    <3> QED
      BY <2>1, <2>5, <3>4 DEF Tasks, Idle
  <2>6. CASE arg["status"] = "BROKEN" /\ state \notin {"UNKNOWN", "OPEN"}
    <3>1. Return("status")
      BY <1>6, <2>6 DEF StatusLoadsState
    <3>2. at'["status"] = "idle"
      BY <1>1, <3>1 DEF Return, Types, Tasks
    <3>3. CallTypes' /\ OthersStay("status")
      BY <1>1, <2>1, <3>1, CallMovesOn DEF Tasks, Idle
    <3> QED
      BY <2>1, <2>6, <3>2, <3>3 DEF StoresWell, Tasks, Idle
  <2> QED
    BY <2>1, <2>3, <2>4, <2>5, <2>6
<1> QED
  BY <1>2, <1>3, <1>4, <1>5, <1>6 DEF Loads

LEMMA LoadKeeps ==
  ASSUME Races, Loads
  PROVE  Races'
<1>1. PICK task \in Tasks :
        /\ ~Idle(task) /\ at[task] # "stores"
        /\ CallTypes' /\ OthersStay(task) /\ StoresWell(task)
        /\ UNCHANGED <<state, travel_start_ms, entered, now>>
        /\ at'[task] \in {"idle", "start", "again", "stores"}
        /\ IF task = "status"
             THEN /\ at["status"] = "entry" /\ at'["status"] \in {"idle", "stores"}
                  /\ at'["status"] = "idle" =>
                       contact' = arg["status"]
                         /\ (arg["status"] = "BROKEN" => state # "OPEN")
                  /\ at'["status"] = "stores" =>
                       /\ arg'["status"] = arg["status"]
                       /\ todo'["status"]["state"] = "OPEN" => arg["status"] = "MADE"
             ELSE contact' = contact
                  /\ (at'[task] = "stores" => todo'[task]["state"] # "OPEN")
  BY LoadFacts, Zenon
<1>2. Types'
  BY <1>1 DEF Races, Types, CallTypes, Idle
<1>3. StoresTyped' /\ NotLater' /\ NotEarlier'
  BY <1>1, LoadClocks DEF Races
<1>4. OpenFed'
  <2>1. \A t \in Tasks \ {task} :
          /\ \A f : Owes(t, f)' <=> Owes(t, f)
          /\ at'[t] = at[t] /\ arg'[t] = arg[t] /\ todo'[t] = todo[t]
    BY <1>1 DEF OthersStay, Owes
  <2>2. at'[task] = "stores" => Owes(task, "state")'
    BY <1>1 DEF StoresWell, Owes
  <2>3. OpenFed
    BY DEF Races
  <2>4. CASE task = "status"
    <3>1. at'["status"] # "idle" => arg'["status"] \in {"MADE", "BROKEN"}
      BY <1>1, <2>3, <2>4 DEF OpenFed
    <3>2. \A t \in Tasks : Owes(t, "state")' /\ todo'[t]["state"] = "OPEN" =>
            t = "status" /\ arg'["status"] = "MADE"
      BY <1>1, <2>1, <2>3, <2>4 DEF OpenFed, Owes
    <3>3. at'["status"] = "idle" => (state' = "OPEN" => contact' = "MADE")
      BY <1>1, <2>3, <2>4 DEF OpenFed
    <3> QED
      BY <1>1, <2>2, <2>4, <3>1, <3>2, <3>3 DEF OpenFed
  <2>5. CASE task # "status"
    <3>1. "status" \in Tasks \ {task}
      BY <2>5 DEF Tasks
    <3>2. \A t \in Tasks : Owes(t, "state")' /\ todo'[t]["state"] = "OPEN" =>
            t = "status" /\ arg'["status"] = "MADE"
      BY <1>1, <2>1, <2>3, <2>5, <3>1 DEF OpenFed, Owes
    <3> QED
      BY <1>1, <2>1, <2>3, <2>5, <3>1, <3>2 DEF OpenFed
  <2> QED
    BY <2>4, <2>5
<1> QED
  BY <1>2, <1>3, <1>4 DEF Races

(* The other half of what a store does: the bookkeeping of its call, and   *)
(* with the last store of the status task the edge is fed.                 *)
LEMMA StoreEnds ==
  ASSUME Types, NEW task \in Tasks, Store(task)
  PROVE  /\ CallTypes' /\ OthersStay(task) /\ UNCHANGED now
         /\ entered' \in {entered, now}
         /\ \/ at'[task] = "stores" /\ arg' = arg /\ UNCHANGED fed
            \/ /\ at'[task] = "idle"
               /\ IF task = "status" THEN contact' = arg[task] /\ contact_ms' = now
                                     ELSE UNCHANGED fed
<1> USE DEF Types, CallTypes, OthersStay, Idle, Places
<1>1. PICK f \in DOMAIN todo[task] :
        LET rest == DOMAIN todo[task] \ {f} IN
        /\ IF rest = {}
             THEN Return(task)
             ELSE /\ todo' = [todo EXCEPT ![task] = [g \in rest |-> todo[task][g]]]
                  /\ UNCHANGED <<at, stamp, arg>>
        /\ IF rest = {} /\ task = "status"
             THEN contact' = arg[task] /\ contact_ms' = now
             ELSE UNCHANGED fed
  BY Zenon DEF Store
<1>2. at[task] = "stores" /\ UNCHANGED now /\ entered' \in {entered, now}
  BY DEF Store
<1>3. CASE DOMAIN todo[task] \ {f} = {}
  <2>1. /\ Return(task)
        /\ IF task = "status" THEN contact' = arg[task] /\ contact_ms' = now
                              ELSE UNCHANGED fed
    BY <1>1, <1>3
  <2>2. /\ at' = [at EXCEPT ![task] = "idle"] /\ stamp' = [stamp EXCEPT ![task] = 0]
        /\ arg' = [arg EXCEPT ![task] = "none"] /\ todo' = [todo EXCEPT ![task] = << >>]
    BY <2>1 DEF Return
  <2>3. CallTypes' /\ OthersStay(task) /\ at'[task] = "idle"
    BY <1>2, <2>2 DEF Args
  <2> QED
    BY <1>2, <2>1, <2>3
<1>4. CASE DOMAIN todo[task] \ {f} # {}
  BY <1>1, <1>2, <1>4
<1> QED
  BY <1>3, <1>4

LEMMA StoreKeeps ==
  ASSUME Races, NEW task \in Tasks, Store(task)
  PROVE  Races'
<1>1. /\ CallTypes' /\ OthersStay(task) /\ UNCHANGED now
      /\ entered' \in {entered, now}
      /\ \/ at'[task] = "stores" /\ arg' = arg /\ UNCHANGED fed
         \/ /\ at'[task] = "idle"
            /\ IF task = "status" THEN contact' = arg[task] ELSE UNCHANGED fed
  BY StoreEnds DEF Races
<1>2. PICK f \in DOMAIN todo[task] :
        /\ Owes(task, f)
        /\ state' = IF f = "state" THEN todo[task][f] ELSE state
        /\ travel_start_ms' = IF f = "travel_start_ms" THEN todo[task][f]
                                                       ELSE travel_start_ms
        /\ \A t \in Tasks : \A g :
             /\ Owes(t, g)' <=> Owes(t, g) /\ ~(t = task /\ g = f)
             /\ Owes(t, g)' => todo'[t][g] = todo[t][g]
  BY StoreFacts DEF Races
<1>3. Types'
  <2>1. travel_start_ms' \in 0 .. now
    <3>1. CASE f = "travel_start_ms"
      <4>1. travel_start_ms' = stamp[task] /\ ~Idle(task)
        BY <1>2, <3>1 DEF Races, StoresTyped, Owes, Idle
      <4> QED
        BY <4>1 DEF Races, Types
    <3>2. CASE f # "travel_start_ms"
      BY <1>2, <3>2 DEF Races, Types
    <3> QED
      BY <3>1, <3>2
  <2> QED
    BY <1>1, <2>1 DEF Races, Types, CallTypes
<1>4. StoresTyped' /\ NotLater' /\ NotEarlier'
  BY StoreClocks DEF Races
<1>5. OpenFed'
  <2>1. OpenFed
    BY DEF Races
  <2>2. \A t \in Tasks : Owes(t, "state")' /\ todo'[t]["state"] = "OPEN" =>
          Owes(t, "state") /\ todo[t]["state"] = "OPEN"
    BY <1>2
  <2>3. CASE task # "status"
    <3>1. "status" \in Tasks \ {task} /\ UNCHANGED contact
      BY <1>1, <2>3 DEF Tasks, fed
    <3>2. at'["status"] = at["status"] /\ arg'["status"] = arg["status"]
      BY <1>1, <3>1 DEF OthersStay
    <3>3. state' = "OPEN" => state = "OPEN"
      BY <1>2, <2>1, <2>3 DEF OpenFed
    <3>4. Owes("status", "state")' <=> Owes("status", "state")
      BY <1>2, <3>1
    <3> QED
      BY <2>1, <2>2, <3>1, <3>2, <3>3, <3>4 DEF OpenFed
  <2>4. CASE task = "status"
    <3>1. at["status"] = "stores" /\ arg["status"] \in {"MADE", "BROKEN"}
      BY <1>2, <2>1, <2>4 DEF OpenFed, Owes
    <3>2. arg["status"] = "BROKEN" /\ ~Owes("status", "state")' => state' # "OPEN"
      BY <1>2, <2>1, <2>4, <3>1 DEF OpenFed
    <3>3. at'["status"] = "idle" => ~Owes("status", "state")'
      BY DEF Owes
    <3>4. CASE at'["status"] = "stores" /\ arg' = arg
      BY <2>1, <2>2, <3>1, <3>2, <3>4 DEF OpenFed
    <3>5. CASE at'["status"] = "idle" /\ contact' = arg["status"]
      <4>1. \A t \in Tasks : Owes(t, "state")' /\ todo'[t]["state"] = "OPEN" => FALSE
        BY <2>1, <2>2, <3>3, <3>5 DEF OpenFed
      <4> QED
        BY <3>1, <3>2, <3>3, <3>5, <4>1 DEF OpenFed
    <3> QED
      BY <1>1, <2>4, <3>4, <3>5
  <2> QED
    BY <2>3, <2>4
<1> QED
  BY <1>3, <1>4, <1>5 DEF Races

LEMMA AdvanceKeeps ==
  ASSUME Races, Advance
  PROVE  Races'
<1>1. /\ now' = now + 1
      /\ UNCHANGED <<state, travel_start_ms, entered, contact, at, stamp, arg, todo>>
  BY DEF Advance, sm, fed, local
<1>2. \A t \in Tasks : ~Idle(t) => now < stamp[t] + Skew
  BY DEF Advance
<1>3. Skew \in Nat
  BY GateRaceAssumption
<1>4. Types'
  BY <1>1, <1>2, <1>3 DEF Races, Types, Idle
<1>5. \A t \in Tasks : \A f : /\ Owes(t, f)' <=> Owes(t, f)
                              /\ SetsOff(t)' <=> SetsOff(t)
  BY <1>1 DEF Owes, SetsOff
<1>6. StoresTyped'
  BY <1>1, <1>5 DEF Races, StoresTyped
<1>7. NotLater'
  BY <1>1, <1>5 DEF Races, NotLater
<1>8. NotEarlier'
  BY <1>1, <1>5 DEF Races, NotEarlier
<1>9. OpenFed'
  BY <1>1, <1>5 DEF Races, OpenFed, Tasks
<1> QED
  BY <1>4, <1>6, <1>7, <1>8, <1>9 DEF Races

LEMMA RacesStay ==
  ASSUME Races, UNCHANGED vars
  PROVE  Races'
<1>1. UNCHANGED <<state, travel_start_ms, entered, now, contact, at, stamp, arg, todo>>
  BY DEF vars, sm, fed, local
<1>2. \A t \in Tasks : \A f : /\ Owes(t, f)' <=> Owes(t, f)
                              /\ SetsOff(t)' <=> SetsOff(t)
  BY <1>1 DEF Owes, SetsOff
<1>3. Types'
  BY <1>1 DEF Races, Types, Idle
<1>4. StoresTyped'
  BY <1>1, <1>2 DEF Races, StoresTyped
<1>5. NotLater'
  BY <1>1, <1>2 DEF Races, NotLater
<1>6. NotEarlier'
  BY <1>1, <1>2 DEF Races, NotEarlier
<1>7. OpenFed'
  BY <1>1, <1>2 DEF Races, OpenFed, Tasks
<1> QED
  BY <1>3, <1>4, <1>5, <1>6, <1>7 DEF Races

LEMMA RacesInit == Init => Races
  BY DEF Init, SM!Init, SM!Blank, Races, Types, StoresTyped, NotLater, NotEarlier, OpenFed,
         Owes, SetsOff, Idle, Places, Args, Tasks, SM!Moving

(* Whatever calls overlap, the invariant of the clocks and of the contact  *)
(* holds.                                                                  *)
THEOREM RacesHold == Spec => []Races
<1>1. Races /\ [Next]_vars => Races'
  <2>1. SUFFICES ASSUME Races, [Next]_vars PROVE Races'
    OBVIOUS
  <2>2. CASE Calls
    BY <2>1, <2>2, CallKeeps
  <2>3. CASE Loads
    BY <2>1, <2>3, LoadKeeps
  <2>4. CASE \E task \in Tasks : Store(task)
    BY <2>1, <2>4, StoreKeeps
  <2>5. CASE Advance
    BY <2>1, <2>5, AdvanceKeeps
  <2>6. CASE UNCHANGED vars
    BY <2>1, <2>6, RacesStay
  <2> QED
    BY <2>1, <2>2, <2>3, <2>4, <2>5, <2>6, Zenon DEF Next, Calls, Loads
<1> QED
  BY RacesInit, <1>1, PTL DEF Spec

(* Whatever calls overlap, at rest OPEN agrees with the last edge fed      *)
(* (gate_sm_on_status_change against the tick and the commands).           *)
THEOREM OpenIsFed == Spec => []OpenNeedsContact
<1>1. Races => OpenNeedsContact
  BY DEF Races, OpenFed, OpenNeedsContact, Idle
<1> QED
  BY RacesHold, <1>1, PTL

(* Whatever calls overlap, a leg at rest has the clock of its own call or  *)
(* of one that began two calls before at the most (travel_start_ms).       *)
THEOREM LegsHaveTheirClock == Spec => []TravelClockNear
<1>1. ASSUME Races, Quiet, state \in SM!Moving
      PROVE  entered <= travel_start_ms + 2 * Skew /\ travel_start_ms <= entered
  <2>1. \A t \in Tasks : \A f : ~Owes(t, f)
    BY <1>1 DEF Quiet, Idle, Owes
  <2> QED
    BY <1>1, <2>1 DEF Races, NotLater, NotEarlier
<1>2. Races => TravelClockNear
  BY <1>1 DEF TravelClockNear
<1> QED
  BY RacesHold, <1>2, PTL

-----------------------------------------------------------------------------
(* Calls that do not overlap.  What Serial sees is the machine while no    *)
(* call goes on, and the machine the call found while one does.            *)

Shown ==
  /\ Seen.state = state /\ Seen.last_cmd = last_cmd
  /\ Seen.last_cmd_ms = last_cmd_ms /\ Seen.travel_start_ms = travel_start_ms
  /\ Seen.contact = contact /\ Seen.contact_ms = contact_ms /\ Seen.entered = entered

Held ==
  /\ Seen.state = before.state /\ Seen.last_cmd = before.last_cmd
  /\ Seen.last_cmd_ms = before.last_cmd_ms
  /\ Seen.travel_start_ms = before.travel_start_ms
  /\ Seen.contact = before.contact /\ Seen.contact_ms = before.contact_ms
  /\ Seen.entered = before.entered

Follows == Serial!Next \/ UNCHANGED Serial!vars

LEMMA SeenFields ==
  /\ (Quiet => Shown) /\ (~Quiet => Held)
  /\ (Quiet' => Shown') /\ (~Quiet' => Held')
  BY DEF Shown, Held, Seen, Machine

(* Within a call nothing is seen to happen. *)
LEMMA InCallStutters ==
  ASSUME ~Quiet, ~Quiet', UNCHANGED <<before, now>>
  PROVE  Follows
<1>1. Held /\ Held'
  BY SeenFields
<1> QED
  BY <1>1 DEF Held, Follows, Serial!vars, Serial!sm, Serial!history

(* Nor at the end of one that leaves all as it found it. *)
LEMMA IdleCallStutters ==
  ASSUME ~Quiet, Quiet', Untouched', UNCHANGED <<before, now>>,
         contact' = before.contact, contact_ms' = before.contact_ms
  PROVE  Follows
<1>1. Held /\ Shown'
  BY SeenFields
<1> QED
  BY <1>1 DEF Held, Shown, Untouched, Follows, Serial!vars, Serial!sm, Serial!history

LEMMA AllIdleApart ==
  ASSUME \A t \in Tasks : at'[t] = "idle"
  PROVE  Apart' /\ Quiet'
  BY DEF Apart, One, Idle, Quiet, TickApart, StatusApart, CmdApart, Tasks

LEMMA Alone ==
  ASSUME overlap = "serial", NEW task \in Tasks, CanRun(task)
  PROVE  \A t \in Tasks \ {task} : at[t] = "idle"
  BY DEF CanRun, Idle

LEMMA SerialCalls ==
  ASSUME Races, Calls, overlap = "serial"
  PROVE  Apart' /\ Follows
<1>1. PICK task \in Tasks, argument \in Args :
        /\ Call(task, argument)
        /\ task = "status" => argument # contact
        /\ task = "httpd" => argument \in SM!Cmds
  BY DEF Calls, TickCall, StatusCall, CmdCall, SM!Level, SM!Cmds, Tasks, Args
<1>2. \A t \in Tasks : at[t] = "idle"
  BY <1>1, Alone DEF Call, Idle
<1>3. /\ before' = Machine
      /\ UNCHANGED <<state, last_cmd, last_cmd_ms, travel_start_ms, entered,
                     contact, contact_ms, now, overlap>>
      /\ at' = [at EXCEPT ![task] = "entry"] /\ stamp' = [stamp EXCEPT ![task] = now]
      /\ arg' = [arg EXCEPT ![task] = argument]
  BY <1>1 DEF Call, sm, fed
<1>4. /\ at'[task] = "entry" /\ stamp'[task] = now /\ arg'[task] = argument
      /\ \A t \in Tasks \ {task} : at'[t] = "idle"
  BY <1>2, <1>3 DEF Races, Types
<1>5. Untouched' /\ contact' = before'.contact /\ contact_ms' = before'.contact_ms
  BY <1>3 DEF Untouched, Machine
<1>6. Apart'
  <2>1. One' /\ (\A t \in Tasks : ~Idle(t) => stamp[t] = now)'
    BY <1>3, <1>4 DEF One, Idle
  <2>2. TickApart'
    BY <1>4, <1>5 DEF TickApart, Tasks
  <2>3. StatusApart'
    BY <1>1, <1>3, <1>4, <1>5 DEF StatusApart, Tasks
  <2>4. CmdApart'
    BY <1>1, <1>4, <1>5 DEF CmdApart, Tasks
  <2> QED
    BY <1>5, <2>1, <2>2, <2>3, <2>4 DEF Apart
<1>7. Follows
  <2>1. Quiet /\ ~Quiet'
    BY <1>2, <1>4 DEF Quiet, Idle
  <2>2. Shown /\ Held'
    BY <2>1, SeenFields
  <2> QED
    BY <1>3, <2>2 DEF Held, Shown, Machine, Follows, Serial!vars, Serial!sm, Serial!history
<1> QED
  BY <1>6, <1>7

LEMMA SerialAdvance ==
  ASSUME Advance, overlap = "serial"
  PROVE  Apart' /\ Follows
<1>1. /\ Quiet /\ now < MaxTime /\ now' = now + 1
      /\ UNCHANGED <<state, last_cmd, last_cmd_ms, travel_start_ms, entered,
                     contact, contact_ms, at>>
  BY DEF Advance, sm, fed, local, Quiet
<1>2. Apart' /\ Quiet'
  <2>1. \A t \in Tasks : at'[t] = "idle"
    BY <1>1 DEF Quiet, Idle
  <2> QED
    BY <2>1, AllIdleApart
<1>3. Serial!Advance
  <2>1. Shown /\ Shown'
    BY <1>1, <1>2, SeenFields
  <2> QED
    BY <1>1, <2>1 DEF Shown, Serial!Advance, Serial!sm, Serial!history
<1> QED
  BY <1>2, <1>3 DEF Follows, Serial!Next

(* A call that goes on, and one that returns with nothing stored. *)
LEMMA SerialGoesOn ==
  ASSUME Types, Apart, overlap = "serial", NEW task \in Tasks, CanRun(task), ~Idle(task),
         UNCHANGED <<state, last_cmd, last_cmd_ms, travel_start_ms, entered, now,
                     contact, contact_ms, before>>,
         OthersStay(task), at'[task] # "idle", stamp'[task] = stamp[task]
  PROVE  /\ \A t \in Tasks \ {task} : at'[t] = "idle"
         /\ One' /\ (\A t \in Tasks : ~Idle(t) => stamp[t] = now)'
         /\ contact' = before'.contact /\ contact_ms' = before'.contact_ms
         /\ Untouched => Untouched'
         /\ Follows
<1>1. \A t \in Tasks \ {task} : at'[t] = "idle"
  BY Alone DEF OthersStay
<1>2. ~Quiet /\ ~Quiet'
  BY DEF Quiet, Idle
<1>3. contact = before.contact /\ contact_ms = before.contact_ms /\ stamp[task] = now
  BY <1>2 DEF Apart
<1>4. One' /\ (\A t \in Tasks : ~Idle(t) => stamp[t] = now)'
  BY <1>1, <1>3 DEF One, Idle
<1>5. Untouched => Untouched'
  BY DEF Untouched
<1> QED
  BY <1>1, <1>2, <1>3, <1>4, <1>5, InCallStutters

LEMMA SerialReturns ==
  ASSUME Types, Apart, overlap = "serial", NEW task \in Tasks, CanRun(task), ~Idle(task),
         UNCHANGED <<state, last_cmd, last_cmd_ms, travel_start_ms, entered, now, before>>,
         Return(task), Untouched
  PROVE  /\ Apart' /\ Quiet' /\ Held /\ Shown'
         /\ contact = before.contact /\ contact_ms = before.contact_ms
         /\ UNCHANGED <<contact, contact_ms>> => Follows
<1>1. at'[task] = "idle" /\ \A t \in Tasks \ {task} : at'[t] = at[t]
  BY DEF Return, Types
<1>2. Apart' /\ Quiet'
  <2>1. \A t \in Tasks : at'[t] = "idle"
    BY <1>1, Alone
  <2> QED
    BY <2>1, AllIdleApart
<1>3. ~Quiet /\ Untouched'
  BY DEF Quiet, Untouched
<1>4. contact = before.contact /\ contact_ms = before.contact_ms
  BY <1>3 DEF Apart
<1> QED
  BY <1>2, <1>3, <1>4, SeenFields, IdleCallStutters

LEMMA SerialTickLoads ==
  ASSUME Races, Apart, overlap = "serial",
         TickLoadsState \/ TickLoadsStart \/ TickChooses
  PROVE  Apart' /\ Follows
<1> DEFINE Same == UNCHANGED <<state, last_cmd, last_cmd_ms, travel_start_ms, entered,
                               now, contact, contact_ms, before, overlap>>
<1>1. /\ CanRun("main") /\ at["main"] \in {"entry", "start", "again"} /\ Same
      /\ Types /\ "main" \in Tasks /\ ~Idle("main")
  BY DEF TickLoadsState, TickLoadsStart, TickChooses, Quietly, sm, fed, Races, Tasks, Idle
<1>2. TickApart /\ Untouched /\ stamp["main"] = now
  BY <1>1 DEF Apart, TickApart
<1>3. CASE Return("main")
  BY <1>1, <1>2, <1>3, SerialReturns
<1>4. ASSUME OthersStay("main"), at'["main"] \in {"start", "again", "stores"},
             stamp'["main"] = stamp["main"], TickApart'
      PROVE  Apart' /\ Follows
  <2>1. /\ \A t \in Tasks \ {"main"} : at'[t] = "idle"
        /\ One' /\ (\A t \in Tasks : ~Idle(t) => stamp[t] = now)'
        /\ contact' = before'.contact /\ contact_ms' = before'.contact_ms
        /\ Follows
    BY <1>1, <1>4, SerialGoesOn
  <2>2. at'["status"] = "idle" /\ at'["httpd"] = "idle"
    BY <2>1 DEF Tasks
  <2>3. StatusApart' /\ CmdApart'
    BY <2>2 DEF StatusApart, CmdApart
  <2> QED
    BY <1>4, <2>1, <2>3 DEF Apart
<1>5. ASSUME NEW place \in {"start", "again"}, GoTo("main", place)
      PROVE  /\ OthersStay("main") /\ at'["main"] = place
             /\ stamp'["main"] = stamp["main"] /\ Untouched'
  BY <1>1, <1>2, <1>5 DEF GoTo, OthersStay, Types, Untouched
<1>6. CASE TickLoadsState
  <2>1. CASE state \in SM!Moving /\ GoTo("main", "start") /\ loaded' = state
    <3>1. TickApart'
      BY <1>1, <1>5, <2>1 DEF TickApart
    <3> QED
      BY <1>4, <1>5, <2>1, <3>1
  <2> QED
    BY <1>3, <1>6, <2>1 DEF TickLoadsState
<1>7. CASE TickLoadsStart
  <2>1. CASE SM!Expired(stamp["main"]) /\ GoTo("main", "again") /\ UNCHANGED loaded
    <3>1. at["main"] = "start"
      BY <1>7 DEF TickLoadsStart
    <3>2. SM!Expired(now)'
      BY <1>1, <1>2, <2>1 DEF SM!Expired
    <3>3. (loaded = state /\ state \in SM!Moving)'
      BY <1>1, <1>2, <2>1, <3>1 DEF TickApart
    <3>4. TickApart'
      BY <1>5, <2>1, <3>2, <3>3 DEF TickApart
    <3> QED
      BY <1>4, <1>5, <2>1, <3>4
  <2> QED
    BY <1>3, <1>7, <2>1 DEF TickLoadsStart
<1>8. CASE TickChooses
  <2>1. at["main"] = "again" /\ loaded = state /\ state \in SM!Moving /\ SM!Expired(now)
    BY <1>2, <1>8 DEF TickChooses, TickApart
  <2>2. Stores("main", [f \in {"state"} |-> SM!SettlesAs(state)])
    BY <1>8, <2>1 DEF TickChooses
  <2>3. /\ OthersStay("main") /\ at'["main"] = "stores" /\ stamp'["main"] = stamp["main"]
        /\ todo'["main"] = [f \in {"state"} |-> SM!SettlesAs(state)]
    BY <1>1, <2>2 DEF Stores, OthersStay, Types
  <2>4. DOMAIN todo'["main"] = {"state"} /\ todo'["main"]["state"] = SM!SettlesAs(state)
    BY <2>3
  <2>5. state = before.state /\ before'.state = before.state
    BY <1>1, <1>2 DEF Untouched
  <2>6. Halfway("main", SM!SettlesAs(before.state), before.last_cmd,
                before.last_cmd_ms, before.travel_start_ms)'
    BY <1>1, <1>2, <2>3, <2>4, <2>5 DEF Halfway, Untouched, Owes
  <2>7. SM!Elapsed(now, before.travel_start_ms)' >= TravelTimeout
    BY <1>1, <1>2, <2>1 DEF Untouched, SM!Expired
  <2>8. TickApart'
    BY <1>1, <2>1, <2>3, <2>4, <2>5, <2>6, <2>7 DEF TickApart
  <2> QED
    BY <1>4, <2>3, <2>8
<1> QED
  BY <1>6, <1>7, <1>8

LEMMA SerialStatusLoads ==
  ASSUME Races, Apart, overlap = "serial", StatusLoadsState
  PROVE  Apart' /\ Follows
<1>1. /\ CanRun("status") /\ at["status"] = "entry" /\ Types
      /\ "status" \in Tasks /\ ~Idle("status") /\ arg["status"] \in {"MADE", "BROKEN"}
      /\ UNCHANGED <<state, last_cmd, last_cmd_ms, travel_start_ms, entered,
                     now, before, overlap>>
      /\ IF at'["status"] = "idle"
           THEN contact' = arg["status"] /\ contact_ms' = now
           ELSE UNCHANGED <<contact, contact_ms>>
  BY DEF StatusLoadsState, sm, fed, Races, OpenFed, Tasks, Idle
<1>2. Untouched /\ stamp["status"] = now /\ arg["status"] # before.contact
  BY <1>1 DEF Apart, StatusApart
<1>3. CASE Return("status") /\ arg["status"] = "BROKEN" /\ state \notin {"OPEN", "UNKNOWN"}
  <2>1. Apart' /\ Quiet' /\ Held /\ Shown'
    BY <1>1, <1>2, <1>3, SerialReturns
  <2>2. at'["status"] = "idle"
    BY <1>1, <1>3 DEF Return, Types
  <2>3. Serial!StatusChange(FALSE)
    BY <1>1, <1>2, <1>3, <2>1, <2>2
       DEF Held, Shown, Untouched, Serial!StatusChange, Serial!OnStatusChange,
           Serial!Level, Serial!Stamp
  <2> QED
    BY <2>1, <2>3 DEF Follows, Serial!Next
<1>4. ASSUME NEW fields, Stores("status", fields),
             StatusApart'
      PROVE  Apart' /\ Follows
  <2>1. OthersStay("status") /\ at'["status"] = "stores" /\ stamp'["status"] = stamp["status"]
    BY <1>1, <1>4 DEF Stores, OthersStay, Types
  <2>2. /\ \A t \in Tasks \ {"status"} : at'[t] = "idle"
        /\ One' /\ (\A t \in Tasks : ~Idle(t) => stamp[t] = now)'
        /\ contact' = before'.contact /\ contact_ms' = before'.contact_ms
        /\ Follows
    BY <1>1, <2>1, SerialGoesOn
  <2>3. at'["main"] = "idle" /\ at'["httpd"] = "idle"
    BY <2>2 DEF Tasks
  <2>4. TickApart' /\ CmdApart'
    BY <2>3 DEF TickApart, CmdApart
  <2> QED
    BY <1>4, <2>2, <2>4 DEF Apart
<1>5. ASSUME NEW fields, Stores("status", fields)
      PROVE  at'["status"] = "stores" /\ todo'["status"] = fields /\ arg' = arg
  BY <1>1, <1>5 DEF Stores, Types
<1>6. CASE arg["status"] = "MADE"
  <2>1. Stores("status", [f \in {"state"} |-> "OPEN"])
    BY <1>6 DEF StatusLoadsState
  <2>2. Halfway("status", "OPEN", before.last_cmd, before.last_cmd_ms,
                before.travel_start_ms)'
    BY <1>1, <1>2, <1>5, <2>1 DEF Halfway, Untouched, Owes
  <2>3. StatusApart'
    BY <1>1, <1>2, <1>5, <1>6, <2>1, <2>2 DEF StatusApart
  <2> QED
    BY <1>4, <2>1, <2>3
<1>7. CASE arg["status"] = "BROKEN" /\ state = "UNKNOWN"
  <2>1. Stores("status", [f \in {"state"} |-> "CLOSED"])
    BY <1>7 DEF StatusLoadsState
  <2>2. Halfway("status", "CLOSED", before.last_cmd, before.last_cmd_ms,
                before.travel_start_ms)'
    BY <1>1, <1>2, <1>5, <2>1 DEF Halfway, Untouched, Owes
  <2>3. StatusApart'
    BY <1>1, <1>2, <1>5, <1>7, <2>1, <2>2 DEF StatusApart, Untouched
  <2> QED
    BY <1>4, <2>1, <2>3
<1>8. CASE arg["status"] = "BROKEN" /\ state = "OPEN"
  <2>1. Stores("status", Leaving(now))
    BY <1>2, <1>8 DEF StatusLoadsState
  <2>2. Halfway("status", "CLOSING", before.last_cmd, before.last_cmd_ms, now)'
    BY <1>1, <1>2, <1>5, <2>1 DEF Halfway, Untouched, Owes, Leaving
  <2>3. StatusApart'
    BY <1>1, <1>2, <1>5, <1>8, <2>1, <2>2 DEF StatusApart, Untouched
  <2> QED
    BY <1>4, <2>1, <2>3
<1>9. CASE arg["status"] = "BROKEN" /\ state \notin {"OPEN", "UNKNOWN"}
  <2>1. Return("status")
    BY <1>9 DEF StatusLoadsState
  <2> QED
    BY <1>3, <1>9, <2>1
<1> QED
  BY <1>1, <1>6, <1>7, <1>8, <1>9

LEMMA SerialCmdLoads ==
  ASSUME Races, Apart, overlap = "serial", CmdLoadsState
  PROVE  Apart' /\ Follows
<1>1. /\ CanRun("httpd") /\ at["httpd"] = "entry" /\ Types
      /\ "httpd" \in Tasks /\ ~Idle("httpd")
      /\ UNCHANGED <<state, last_cmd, last_cmd_ms, travel_start_ms, entered,
                     now, contact, contact_ms, before, overlap>>
  BY DEF CmdLoadsState, Quietly, sm, fed, Races, Tasks, Idle
<1>2. Untouched /\ stamp["httpd"] = now /\ arg["httpd"] \in SM!Cmds
  BY <1>1 DEF Apart, CmdApart
<1>3. CASE Return("httpd")
  BY <1>1, <1>2, <1>3, SerialReturns
<1>4. CASE SM!CmdResult(arg["httpd"], now) = "ACCEPTED"
             /\ Stores("httpd", Accepting(arg["httpd"], now))
  <2>1. /\ at'["httpd"] = "stores" /\ arg' = arg /\ OthersStay("httpd")
        /\ stamp'["httpd"] = stamp["httpd"]
        /\ todo'["httpd"] = Accepting(arg["httpd"], now)
    BY <1>1, <1>4 DEF Stores, OthersStay, Types
  <2>2. /\ \A t \in Tasks \ {"httpd"} : at'[t] = "idle"
        /\ One' /\ (\A t \in Tasks : ~Idle(t) => stamp[t] = now)'
        /\ contact' = before'.contact /\ contact_ms' = before'.contact_ms
        /\ Follows
    BY <1>1, <2>1, SerialGoesOn
  <2>3. at'["main"] = "idle" /\ at'["status"] = "idle"
    BY <2>2 DEF Tasks
  <2>4. TickApart' /\ StatusApart'
    BY <2>3 DEF TickApart, StatusApart
  <2>5. /\ state \notin SM!Satisfying(arg["httpd"])
        /\ last_cmd = "NONE" \/ SM!Elapsed(now, last_cmd_ms) >= MinSpacing
    BY <1>4 DEF SM!CmdResult, SM!CmdSpacingOk
  <2>6. Halfway("httpd", SM!HeadingFor(arg["httpd"]), arg["httpd"], now, now)'
    BY <1>1, <1>2, <2>1 DEF Halfway, Untouched, Owes, Accepting
  <2>7. CmdApart'
    BY <1>1, <1>2, <2>1, <2>5, <2>6 DEF CmdApart, Untouched
  <2> QED
    BY <2>2, <2>4, <2>7 DEF Apart
<1> QED
  BY <1>2, <1>3, <1>4 DEF CmdLoadsState

(* A store brings its field to the value the call is to leave. *)
LEMMA HalfwayStored ==
  ASSUME Types, NEW task \in Tasks, Store(task), UNCHANGED before,
         NEW s, NEW cmd, NEW cmd_ms, NEW travel,
         Halfway(task, s, cmd, cmd_ms, travel)
  PROVE  Halfway(task, s, cmd, cmd_ms, travel)'
<1>1. PICK f \in DOMAIN todo[task] :
        /\ Owes(task, f)
        /\ state' = IF f = "state" THEN todo[task][f] ELSE state
        /\ last_cmd' = IF f = "last_cmd" THEN todo[task][f] ELSE last_cmd
        /\ last_cmd_ms' = IF f = "last_cmd_ms" THEN todo[task][f] ELSE last_cmd_ms
        /\ travel_start_ms' = IF f = "travel_start_ms" THEN todo[task][f]
                                                       ELSE travel_start_ms
        /\ entered' = IF state' # state THEN now ELSE entered
        /\ now' = now
        /\ \A t \in Tasks : \A g :
             /\ Owes(t, g)' <=> Owes(t, g) /\ ~(t = task /\ g = f)
             /\ Owes(t, g)' => todo'[t][g] = todo[t][g]
  BY StoreFacts
<1>2. \A g : /\ Owes(task, g)' <=> Owes(task, g) /\ g # f
             /\ Owes(task, g)' => todo'[task][g] = todo[task][g]
  BY <1>1
<1> QED
  BY <1>1, <1>2 DEF Halfway

(* With the last store the call has left the machine as it was to.        *)
LEMMA HalfwayDone ==
  ASSUME NEW task \in Tasks, at'[task] = "idle", UNCHANGED <<before, now>>,
         NEW s, NEW cmd, NEW cmd_ms, NEW travel,
         Halfway(task, s, cmd, cmd_ms, travel)', Shown', Held
  PROVE  /\ Seen'.state = s /\ Seen'.last_cmd = cmd
         /\ Seen'.last_cmd_ms = cmd_ms /\ Seen'.travel_start_ms = travel
         /\ Seen'.entered = IF Seen'.state = Seen.state THEN Seen.entered ELSE now
         /\ Seen'.contact = contact' /\ Seen'.contact_ms = contact_ms'
<1>1. \A g : ~Owes(task, g)'
  BY DEF Owes
<1> QED
  BY <1>1 DEF Halfway, Shown, Held

LEMMA SerialStores ==
  ASSUME Races, Apart, overlap = "serial", NEW task \in Tasks, Store(task)
  PROVE  Apart' /\ Follows
<1>1. /\ CanRun(task) /\ at[task] = "stores" /\ ~Idle(task) /\ Types
      /\ UNCHANGED <<before, now, overlap>>
  BY DEF Store, Races, Idle
<1>2. /\ CallTypes' /\ OthersStay(task)
      /\ \/ at'[task] = "stores" /\ arg' = arg /\ UNCHANGED fed
         \/ /\ at'[task] = "idle"
            /\ IF task = "status" THEN contact' = arg[task] /\ contact_ms' = now
                                  ELSE UNCHANGED fed
  BY <1>1, StoreEnds
<1>3. /\ \A t \in Tasks \ {task} : at'[t] = "idle"
      /\ ~Quiet /\ contact = before.contact /\ contact_ms = before.contact_ms
      /\ stamp[task] = now /\ Held
  <2>1. ~Quiet
    BY <1>1 DEF Quiet
  <2> QED
    BY <1>1, <1>2, <2>1, Alone, SeenFields DEF OthersStay, Apart
<1>4. at'[task] = "stores" => stamp'[task] = stamp[task] /\ DOMAIN todo[task] # {"state"}
  <2>1. PICK f \in DOMAIN todo[task] :
          /\ \A t \in Tasks : at'[t] = "stores" => at[t] = "stores" /\ stamp'[t] = stamp[t]
          /\ \A t \in Tasks : \A g : Owes(t, g)' <=> Owes(t, g) /\ ~(t = task /\ g = f)
          /\ f = "state" /\ at'[task] = "stores" => DOMAIN todo[task] # {"state"}
    BY <1>1, StoreFacts
  <2> QED
    BY <2>1
<1>5. CASE at'[task] = "idle"
  <2>1. Apart' /\ Quiet' /\ Shown'
    BY <1>3, <1>5, AllIdleApart, SeenFields
  <2>2. CASE task = "main"
    <3>1. /\ before.state \in SM!Moving
          /\ SM!Elapsed(now, before.travel_start_ms) >= TravelTimeout
          /\ Halfway("main", SM!SettlesAs(before.state), before.last_cmd,
                     before.last_cmd_ms, before.travel_start_ms)
      BY <1>1, <2>2 DEF Apart, TickApart
    <3>2. PICK s, cmd, cmd_ms, travel :
            /\ s = SM!SettlesAs(before.state) /\ cmd = before.last_cmd
            /\ cmd_ms = before.last_cmd_ms /\ travel = before.travel_start_ms
      OBVIOUS
    <3>3. Halfway("main", s, cmd, cmd_ms, travel)'
      BY <1>1, <2>2, <3>1, <3>2, HalfwayStored
    <3>4. /\ Seen'.state = s /\ Seen'.last_cmd = cmd
          /\ Seen'.last_cmd_ms = cmd_ms /\ Seen'.travel_start_ms = travel
          /\ Seen'.entered = IF Seen'.state = Seen.state THEN Seen.entered ELSE now
          /\ Seen'.contact = contact' /\ Seen'.contact_ms = contact_ms'
      BY <1>1, <1>3, <1>5, <2>1, <2>2, <3>3, HalfwayDone
    <3>5. UNCHANGED <<contact, contact_ms>>
      BY <1>2, <1>5, <2>2 DEF fed
    <3>6. Serial!Tick
      BY <1>1, <1>3, <3>1, <3>2, <3>4, <3>5
         DEF Held, Serial!Tick, Serial!OnTick, Serial!Stamp, Serial!Expired,
             Serial!Elapsed, SM!Elapsed, Serial!SettlesAs, SM!SettlesAs,
             Serial!Moving, SM!Moving
    <3> QED
      BY <2>1, <3>6 DEF Follows, Serial!Next
  <2>3. CASE task = "status"
    <3>1. /\ contact' = arg["status"] /\ contact_ms' = now
          /\ arg["status"] # before.contact /\ StatusApart
      BY <1>1, <1>2, <1>5, <2>3 DEF Apart, StatusApart
    <3>2. PICK cmd, cmd_ms, travel :
            /\ cmd = before.last_cmd
            /\ cmd_ms = before.last_cmd_ms /\ travel = before.travel_start_ms
      OBVIOUS
    <3>3. PICK t0 : t0 = now
      OBVIOUS
    <3>4. ASSUME NEW s, NEW trav, Halfway("status", s, cmd, cmd_ms, trav)
          PROVE  /\ Seen'.state = s /\ Seen'.last_cmd = cmd
                 /\ Seen'.last_cmd_ms = cmd_ms /\ Seen'.travel_start_ms = trav
                 /\ Seen'.entered = IF Seen'.state = Seen.state THEN Seen.entered ELSE now
                 /\ Seen'.contact = contact' /\ Seen'.contact_ms = contact_ms'
      <4>1. Halfway("status", s, cmd, cmd_ms, trav)'
        BY <1>1, <2>3, <3>4, HalfwayStored
      <4> QED
        BY <1>1, <1>3, <1>5, <2>1, <2>3, <4>1, HalfwayDone
    <3>5. CASE arg["status"] = "MADE" /\ Halfway("status", "OPEN", cmd, cmd_ms, travel)
      <4>1. Serial!StatusChange(TRUE)
        BY <1>1, <1>3, <3>1, <3>2, <3>4, <3>5
           DEF Held, Serial!StatusChange, Serial!OnStatusChange, Serial!Stamp,
               Serial!Level, Serial!BecomesOpen
      <4> QED
        BY <2>1, <4>1 DEF Follows, Serial!Next
    <3>6. CASE /\ arg["status"] = "BROKEN" /\ before.state = "UNKNOWN"
               /\ Halfway("status", "CLOSED", cmd, cmd_ms, travel)
      <4>1. Serial!StatusChange(FALSE)
        BY <1>1, <1>3, <3>1, <3>2, <3>4, <3>6
           DEF Held, Serial!StatusChange, Serial!OnStatusChange, Serial!Stamp,
               Serial!Level
      <4> QED
        BY <2>1, <4>1 DEF Follows, Serial!Next
    <3>7. CASE /\ arg["status"] = "BROKEN" /\ before.state = "OPEN"
               /\ Halfway("status", "CLOSING", cmd, cmd_ms, t0)
      <4>1. Serial!StatusChange(FALSE)
        BY <1>1, <1>3, <3>1, <3>2, <3>3, <3>4, <3>7
           DEF Held, Serial!StatusChange, Serial!OnStatusChange, Serial!Stamp,
               Serial!Level, Serial!LeavesOpen
      <4> QED
        BY <2>1, <4>1 DEF Follows, Serial!Next
    <3> QED
      BY <1>1, <2>3, <3>1, <3>2, <3>3, <3>5, <3>6, <3>7 DEF StatusApart
  <2>4. CASE task = "httpd"
    <3>1. /\ arg["httpd"] \in SM!Cmds
          /\ before.state \notin SM!Satisfying(arg["httpd"])
          /\ before.last_cmd = "NONE" \/ SM!Elapsed(now, before.last_cmd_ms) >= MinSpacing
          /\ Halfway("httpd", SM!HeadingFor(arg["httpd"]), arg["httpd"], now, now)
      BY <1>1, <2>4 DEF Apart, CmdApart
    <3>2. PICK s, cmd, t0 :
            s = SM!HeadingFor(arg["httpd"]) /\ cmd = arg["httpd"] /\ t0 = now
      OBVIOUS
    <3>3. Halfway("httpd", s, cmd, t0, t0)'
      BY <1>1, <2>4, <3>1, <3>2, HalfwayStored
    <3>4. /\ Seen'.state = s /\ Seen'.last_cmd = cmd
          /\ Seen'.last_cmd_ms = t0 /\ Seen'.travel_start_ms = t0
          /\ Seen'.entered = IF Seen'.state = Seen.state THEN Seen.entered ELSE now
          /\ Seen'.contact = contact' /\ Seen'.contact_ms = contact_ms'
      BY <1>1, <1>3, <1>5, <2>1, <2>4, <3>3, HalfwayDone
    <3>5. UNCHANGED <<contact, contact_ms>>
      BY <1>2, <1>5, <2>4 DEF fed
    <3>6. Serial!CmdResult(cmd, now) = "ACCEPTED"
      BY <1>3, <3>1, <3>2
         DEF Held, Serial!CmdResult, Serial!CmdSpacingOk, Serial!Satisfying, SM!Satisfying,
             Serial!Elapsed, SM!Elapsed
    <3>7. Serial!Cmd(cmd)
      BY <1>1, <1>3, <3>2, <3>4, <3>5, <3>6
         DEF Held, Serial!Cmd, Serial!OnCmd, Serial!Stamp, Serial!HeadingFor, SM!HeadingFor
    <3> QED
      BY <2>1, <3>1, <3>2, <3>7 DEF Follows, Serial!Next, Serial!Cmds, SM!Cmds
  <2> QED
    BY <2>2, <2>3, <2>4 DEF Tasks
<1>6. CASE at'[task] = "stores" /\ arg' = arg /\ UNCHANGED fed
  <2>1. /\ One' /\ (\A t \in Tasks : ~Idle(t) => stamp[t] = now)'
        /\ contact' = before'.contact /\ contact_ms' = before'.contact_ms
    BY <1>1, <1>3, <1>4, <1>6 DEF One, Idle, fed
  <2>2. Follows
    <3>1. ~Quiet'
      BY <1>6 DEF Quiet, Idle
    <3> QED
      BY <1>1, <1>3, <3>1, InCallStutters
  <2>3. task # "main"
    BY <1>1, <1>4, <1>6 DEF Apart, TickApart
  <2>4. CASE task = "status"
    <3>1. at'["main"] = "idle" /\ at'["httpd"] = "idle"
      BY <1>3, <2>4 DEF Tasks
    <3>2. TickApart' /\ CmdApart'
      BY <3>1 DEF TickApart, CmdApart
    <3>3. StatusApart
      BY DEF Apart
    <3>4. PICK cmd, cmd_ms, travel, t0 :
            /\ cmd = before.last_cmd /\ t0 = now
            /\ cmd_ms = before.last_cmd_ms /\ travel = before.travel_start_ms
      OBVIOUS
    <3>5. ASSUME NEW s, NEW trav, Halfway("status", s, cmd, cmd_ms, trav)
          PROVE  Halfway("status", s, cmd, cmd_ms, trav)'
      BY <1>1, <2>4, <3>5, HalfwayStored
    <3>6. StatusApart'
      BY <1>1, <1>6, <2>4, <3>3, <3>4, <3>5 DEF StatusApart
    <3> QED
      BY <2>1, <2>2, <3>2, <3>6 DEF Apart
  <2>5. CASE task = "httpd"
    <3>1. at'["main"] = "idle" /\ at'["status"] = "idle"
      BY <1>3, <2>5 DEF Tasks
    <3>2. TickApart' /\ StatusApart'
      BY <3>1 DEF TickApart, StatusApart
    <3>3. CmdApart
      BY DEF Apart
    <3>4. PICK s, cmd, t0 :
            s = SM!HeadingFor(arg["httpd"]) /\ cmd = arg["httpd"] /\ t0 = now
      OBVIOUS
    <3>5. Halfway("httpd", s, cmd, t0, t0)
      BY <1>1, <2>5, <3>3, <3>4 DEF CmdApart
    <3>6. Halfway("httpd", s, cmd, t0, t0)'
      BY <1>1, <2>5, <3>5, HalfwayStored
    <3>7. CmdApart'
      BY <1>1, <1>6, <2>5, <3>3, <3>4, <3>6 DEF CmdApart
    <3> QED
      BY <2>1, <2>2, <3>2, <3>7 DEF Apart
  <2> QED
    BY <2>3, <2>4, <2>5 DEF Tasks
<1> QED
  BY <1>2, <1>5, <1>6

LEMMA SerialStays ==
  ASSUME Apart, UNCHANGED vars
  PROVE  Apart' /\ Follows
<1>1. UNCHANGED <<overlap, state, last_cmd, last_cmd_ms, travel_start_ms, now, contact,
                  contact_ms, entered, at, stamp, arg, loaded, todo, before>>
  BY DEF vars, sm, fed, local
<1>2. /\ \A t \in Tasks : Idle(t)' <=> Idle(t)
      /\ Quiet' <=> Quiet
      /\ \A t, f : Owes(t, f)' <=> Owes(t, f)
      /\ Untouched' <=> Untouched
  BY <1>1 DEF Idle, Quiet, Owes, Untouched
<1>3. overlap = "serial" => TickApart' /\ StatusApart' /\ CmdApart'
  <2>1. TickApart => TickApart'
    BY <1>1, <1>2 DEF TickApart, Halfway, SM!Expired
  <2>2. StatusApart => StatusApart'
    BY <1>1, <1>2 DEF StatusApart, Halfway
  <2>3. CmdApart => CmdApart'
    BY <1>1, <1>2 DEF CmdApart, Halfway
  <2> QED
    BY <2>1, <2>2, <2>3 DEF Apart
<1>4. Apart'
  BY <1>1, <1>2, <1>3 DEF Apart, One
<1>5. Follows
  BY <1>1, <1>2 DEF Follows, Seen, Machine, Serial!vars, Serial!sm, Serial!history
<1> QED
  BY <1>4, <1>5

LEMMA SerialInit == Init => Apart /\ (overlap = "serial" => Serial!Init)
<1>1. SUFFICES ASSUME Init PROVE Apart /\ Serial!Init
  OBVIOUS
<1>2. Quiet /\ \A t \in Tasks : at[t] = "idle"
  BY <1>1 DEF Init, Quiet, Idle
<1>3. Apart
  BY <1>2 DEF Apart, One, Idle, TickApart, StatusApart, CmdApart, Tasks
<1>4. Serial!Init
  BY <1>1, <1>2, SeenFields
     DEF Init, Shown, Serial!Init, SM!Init, Serial!Blank, SM!Blank
<1> QED
  BY <1>3, <1>4

LEMMA SerialKept ==
  Races /\ Apart /\ [Next]_vars =>
    /\ Apart' /\ overlap' = overlap
    /\ overlap = "serial" => Follows
<1>1. SUFFICES ASSUME Races, Apart, [Next]_vars
               PROVE  Apart' /\ overlap' = overlap /\ (overlap = "serial" => Follows)
  OBVIOUS
<1>2. overlap' = overlap
  BY <1>1 DEF Next, TickCall, TickLoadsState, TickLoadsStart, TickChooses, StatusCall,
              StatusLoadsState, CmdCall, CmdLoadsState, Store, Advance, Call, Quietly, vars
<1>3. CASE UNCHANGED vars
  BY <1>1, <1>2, <1>3, SerialStays
<1>4. CASE Next /\ overlap # "serial"
  BY <1>2, <1>4 DEF Apart
<1>5. CASE Next /\ overlap = "serial"
  <2>1. CASE Calls
    BY <1>1, <1>2, <1>5, <2>1, SerialCalls
  <2>2. CASE TickLoadsState \/ TickLoadsStart \/ TickChooses
    BY <1>1, <1>2, <1>5, <2>2, SerialTickLoads
  <2>3. CASE StatusLoadsState
    BY <1>1, <1>2, <1>5, <2>3, SerialStatusLoads
  <2>4. CASE CmdLoadsState
    BY <1>1, <1>2, <1>5, <2>4, SerialCmdLoads
  <2>5. CASE \E task \in Tasks : Store(task)
    BY <1>1, <1>2, <1>5, <2>5, SerialStores
  <2>6. CASE Advance
    BY <1>2, <1>5, <2>6, SerialAdvance
  <2> QED
    BY <1>5, <2>1, <2>2, <2>3, <2>4, <2>5, <2>6, Zenon DEF Next, Calls
<1> QED
  BY <1>1, <1>3, <1>4, <1>5

(* Calls that do not overlap are the handlers of gate_sm.c: their loads    *)
(* and stores add up to the one step of GateSM.                            *)
THEOREM SerialCallsAreHandlers == Spec => SerialCallsImplementGateSM
<1>1. Races /\ Apart /\ [Next]_vars =>
        Apart' /\ [overlap = "serial" => Serial!Next]_(Serial!vars)
  BY SerialKept DEF Follows
<1> QED
  BY SerialInit, <1>1, RacesHold, PTL DEF Spec, SerialCallsImplementGateSM

-----------------------------------------------------------------------------
(* What the race costs the tick: alone, it waits. *)

Timely == Seen.state \in SM!Moving => Seen.travel_start_ms = Seen.entered

(* A step of GateSM starts a leg and its clock together. *)
LEMMA TimelyKept ==
  ASSUME Follows, Timely
  PROVE  Timely'
<1>1. CASE UNCHANGED Serial!vars
  BY <1>1 DEF Timely, Serial!vars, Serial!sm, Serial!history
<1>2. ASSUME NEW cmd \in Serial!Cmds, Serial!Cmd(cmd) PROVE Timely'
  <2>1. CASE Serial!CmdResult(cmd, now) = "ACCEPTED"
    <3>1. Seen.state \notin Serial!Satisfying(cmd)
      BY <2>1 DEF Serial!CmdResult
    <3>2. /\ Seen'.state = Serial!HeadingFor(cmd) /\ Seen'.travel_start_ms = now
          /\ Seen'.entered = IF Seen'.state = Seen.state THEN Seen.entered ELSE now
      BY <1>2, <2>1 DEF Serial!Cmd, Serial!OnCmd, Serial!Stamp
    <3>3. Seen'.state # Seen.state
      BY <3>1, <3>2 DEF Serial!Satisfying, Serial!HeadingFor, Serial!Cmds
    <3> QED
      BY <3>2, <3>3 DEF Timely
  <2>2. CASE Serial!CmdResult(cmd, now) # "ACCEPTED"
    BY <1>2, <2>2 DEF Timely, Serial!Cmd, Serial!OnCmd, Serial!Refused, Serial!Stamp, Serial!sm
  <2> QED
    BY <2>1, <2>2
<1>3. ASSUME NEW is_fully_open \in BOOLEAN, Serial!StatusChange(is_fully_open)
      PROVE  Timely'
  BY <1>3 DEF Timely, Serial!StatusChange, Serial!OnStatusChange, Serial!Stamp,
              Serial!BecomesOpen, Serial!LeavesOpen, SM!Moving
<1>4. CASE Serial!Tick
  BY <1>4 DEF Timely, Serial!Tick, Serial!OnTick, Serial!SettlesAs, Serial!Stamp, SM!Moving
<1>5. CASE Serial!Advance \/ Serial!Restart
  BY <1>5 DEF Timely, Serial!Advance, Serial!Restart, Serial!Blank, Serial!sm,
              Serial!history, SM!Moving
<1> QED
  BY <1>1, <1>2, <1>3, <1>4, <1>5, Zenon DEF Follows, Serial!Next

LEMMA LoneTickWaits ==
  ASSUME Races, Apart, overlap = "serial", Timely, ~hasty,
         NEW task \in Tasks, Store(task)
  PROVE  ~hasty'
<1>1. CASE task # "main"
  BY <1>1 DEF Store
<1>2. CASE task = "main"
  <2>1. at["main"] = "stores" /\ Held
    <3>1. at["main"] = "stores"
      BY <1>2 DEF Store
    <3>2. ~Quiet
      BY <3>1 DEF Quiet, Idle, Tasks
    <3> QED
      BY <3>1, <3>2, SeenFields
  <2>2. /\ before.state \in SM!Moving
        /\ SM!Elapsed(now, before.travel_start_ms) >= TravelTimeout
        /\ state = before.state /\ entered = before.entered
    BY <2>1 DEF Apart, TickApart, Halfway, Owes
  <2>3. before.travel_start_ms = entered
    BY <2>1, <2>2 DEF Held, Timely
  <2>4. now \in Nat /\ entered \in 0 .. now /\ TravelTimeout \in Nat /\ Skew \in Nat
    BY GateRaceAssumption DEF GateRaceAssumption, Races, Types
  <2>5. now - entered >= TravelTimeout
    BY <2>2, <2>3, <2>4 DEF SM!Elapsed
  <2>6. ~(now + Skew < entered + TravelTimeout)
    BY <2>4, <2>5
  <2> QED
    BY <2>6 DEF Store
<1> QED
  BY <1>1, <1>2

(* What gate_sm.h:126 says of the tick is true of calls that do not        *)
(* overlap: then no leg is settled before its travel time is over.  The    *)
(* counterexample to TickWaitsForTimeout is the work of the race alone.    *)
THEOREM LoneTicksWait == Spec => [](overlap = "serial" => TickWaitsForTimeout)
<1> DEFINE Waits == overlap = "serial" => Timely /\ ~hasty
<1>1. Init => Waits
  <2>1. SUFFICES ASSUME Init PROVE Timely /\ ~hasty
    OBVIOUS
  <2>2. Quiet /\ state = "UNKNOWN"
    BY <2>1 DEF Init, Quiet, Idle, SM!Init, SM!Blank
  <2> QED
    BY <2>1, <2>2, SeenFields DEF Init, Shown, Timely, SM!Moving
<1>2. Races /\ Apart /\ Waits /\ [Next]_vars => Waits'
  <2>1. SUFFICES ASSUME Races, Apart, Waits, [Next]_vars, overlap' = "serial"
                 PROVE  Timely' /\ ~hasty'
    OBVIOUS
  <2>2. overlap = "serial" /\ Follows
    BY <2>1, SerialKept
  <2>3. Timely'
    BY <2>1, <2>2, TimelyKept
  <2>4. CASE \E task \in Tasks : Store(task)
    BY <2>1, <2>2, <2>3, <2>4, LoneTickWaits
  <2>5. CASE ~\E task \in Tasks : Store(task)
    <3>1. hasty' = hasty
      BY <2>1, <2>5 DEF Next, TickCall, TickLoadsState, TickLoadsStart, TickChooses,
           StatusCall, StatusLoadsState, CmdCall, CmdLoadsState, Advance, Call, Quietly, vars
    <3> QED
      BY <2>1, <2>2, <2>3, <3>1, Zenon
  <2> QED
    BY <2>4, <2>5
<1>3. Waits => (overlap = "serial" => TickWaitsForTimeout)
  BY DEF TickWaitsForTimeout
<1>4. Races /\ Apart /\ [Next]_vars => Apart'
  BY SerialKept
<1> QED
  BY SerialInit, RacesHold, <1>1, <1>2, <1>3, <1>4, PTL DEF Spec
=============================================================================
