---------------------------- MODULE StartupProofs ----------------------------
(***************************************************************************)
(* Proofs about Startup, for any number of updates and outages: whatever   *)
(* the order of start-up, events, timer, updates, crashes and power        *)
(* losses, only images that work are confirmed, and one is always kept to  *)
(* fall back to.                                                           *)
(*                                                                         *)
(* Safety is inductive and has four parts: the types, what the event queue *)
(* can hold, the states the two images can be in together, and whom the    *)
(* watchdog may restart.                                                   *)
(***************************************************************************)
EXTENDS Startup, SequenceTheorems, TLAPS

-----------------------------------------------------------------------------
(* The invariant. *)

FlashTypes ==
  /\ image \in [Slots -> {"none", "new", "pending", "valid", "aborted"}]
  /\ bootSlot \in Slots /\ running \in Slots
  /\ works \in [Slots -> BOOLEAN]

PlaceTypes ==
  /\ stage \in {"off", "wifi", "scan", "rollback", "register", "loop"}
  /\ mode \in {"off", "STA", "AP"}
  /\ link \in {"off", "idle", "connecting", "ip"}
  /\ dispatch \in {"none", "confirm", "stop timer"}
  /\ led \in {"off", "ap", "connecting", "connected", "lost", "update"}
  /\ timer \in {"none", "armed"}
  /\ update \in {"none", "pulling", "writing", "reboot"}

FlagTypes == network \in BOOLEAN /\ s_sta_got_ip \in BOOLEAN /\ watched \in BOOLEAN

BoundTypes == updates \in 0 .. MaxUpdates /\ outages \in 0 .. MaxOutages

Types == FlashTypes /\ PlaceTypes /\ FlagTypes /\ BoundTypes

(* The driver posts the end of one attempt, and starts the next one when   *)
(* that was dispatched.                                                    *)
Queue ==
  /\ link \in {"off", "connecting"} => events = <<>>
  /\ link = "ip" => events \in {<<>>, <<"GOT_IP">>}
  /\ link = "idle" => events \in {<<>>, <<"STA_START">>, <<"AP_START">>,
                                  <<"DISCONNECTED">>, <<"GOT_IP", "DISCONNECTED">>}

(* The running image has been on the network in this boot.                 *)
Joined == link = "ip" \/ dispatch # "none" \/ (events # <<>> /\ Head(events) = "GOT_IP")

Images ==
  /\ OnlyWorkingConfirmed
  /\ \A s \in Slots : image[s] \in {"new", "pending"} => image[1 - s] = "valid"
  /\ stage # "off" => image[running] \in {"pending", "valid"}
  /\ update # "none" => stage # "off"
  /\ update \in {"writing", "reboot"} => image[running] = "valid"
  /\ Joined => stage # "off" /\ works[running]
  /\ stage \in {"off", "wifi"} => link = "off"

Watchdog == timer = "armed" => stage # "off" /\ (Pending \/ dispatch = "stop timer")

Safety == Types /\ Queue /\ Images /\ Watchdog

-----------------------------------------------------------------------------
(* What the queue's few shapes look like from outside. *)

LEMMA Shapes ==
  /\ \A e : <<e>> # <<>> /\ Head(<<e>>) = e /\ Tail(<<e>>) = <<>> /\ Append(<<>>, e) = <<e>>
  /\ \A e, f : <<e, f>> # <<>> /\ Head(<<e, f>>) = e /\ Tail(<<e, f>>) = <<f>>
  /\ Append(<<"GOT_IP">>, "DISCONNECTED") = <<"GOT_IP", "DISCONNECTED">>
<1>1. \A e : <<e>> # <<>> /\ Head(<<e>>) = e /\ Tail(<<e>>) = <<>> /\ Append(<<>>, e) = <<e>>
  OBVIOUS
<1>2. \A e, f : <<e, f>> # <<>> /\ Head(<<e, f>>) = e /\ Tail(<<e, f>>) = <<f>>
  OBVIOUS
<1>3. Append(<<"GOT_IP">>, "DISCONNECTED") = <<"GOT_IP", "DISCONNECTED">>
  <2> DEFINE s == <<"GOT_IP">>  t == Append(s, "DISCONNECTED")  u == <<"GOT_IP", "DISCONNECTED">>
         S == {"GOT_IP", "DISCONNECTED"}
  <2>1. s \in Seq(S) /\ Len(s) = 1 /\ s[1] = "GOT_IP"
    OBVIOUS
  <2>2. u \in Seq(S) /\ Len(u) = 2 /\ u[1] = "GOT_IP" /\ u[2] = "DISCONNECTED"
    OBVIOUS
  <2>3. /\ t \in Seq(S) /\ Len(t) = 2 /\ t[2] = "DISCONNECTED"
        /\ \A i \in 1 .. 1 : t[i] = s[i]
    <3>1. t \in Seq(S)
      OBVIOUS
    <3>2. Len(t) = 2
      OBVIOUS
    <3>3. t[2] = "DISCONNECTED" /\ t[1] = s[1]
      OBVIOUS
    <3> HIDE DEF t, s, S
    <3>4. \A i \in 1 .. 1 : i = 1
      OBVIOUS
    <3> QED BY <3>1, <3>2, <3>3, <3>4
  <2>4. \A i \in 1 .. Len(t) : t[i] = u[i]
    <3> HIDE DEF s, t, u
    <3> SUFFICES ASSUME NEW i \in 1 .. 2 PROVE t[i] = u[i]
      BY <2>3
    <3>1. i = 1 \/ i = 2
      OBVIOUS
    <3> QED BY <3>1, <2>1, <2>2, <2>3
  <2> HIDE DEF s, t, u, S
  <2>5. t = u
    BY <2>2, <2>3, <2>4, SeqEqual
  <2> QED BY <2>5 DEF s, t, u
<1> QED BY <1>1, <1>2, <1>3

(* An event is dispatched in one state of the driver only, but for an      *)
(* address that was lost again at once.                                    *)
LEMMA Dispatched ==
  ASSUME Queue, Types, NEW e, Arrives(e)
  PROVE  /\ e = "GOT_IP" => \/ link = "ip" /\ events' = <<>>
                            \/ link = "idle" /\ events' = <<"DISCONNECTED">>
         /\ e # "GOT_IP" => link = "idle" /\ events' = <<>>
<1>1. events # <<>> /\ Head(events) = e /\ events' = Tail(events)
  BY DEF Arrives
<1>2. link \in {"off", "idle", "connecting", "ip"}
  BY DEF Types, PlaceTypes
<1>3. CASE link = "ip"
  <2>1. events = <<"GOT_IP">>
    BY <1>1, <1>3 DEF Queue
  <2>2. Head(events) = "GOT_IP" /\ Tail(events) = <<>>
    BY <2>1
  <2>3. e = "GOT_IP" /\ events' = <<>>
    BY <2>2, <1>1
  <2> QED BY <2>3, <1>3
<1>4. CASE link = "idle"
  <2>1. events \in {<<"STA_START">>, <<"AP_START">>, <<"DISCONNECTED">>,
                    <<"GOT_IP", "DISCONNECTED">>}
    BY <1>1, <1>4 DEF Queue
  <2>2. CASE events = <<"GOT_IP", "DISCONNECTED">>
    BY <2>2, <1>1, <1>4, Shapes
  <2>3. CASE events # <<"GOT_IP", "DISCONNECTED">>
    BY <2>1, <2>3, <1>1, <1>4, Shapes
  <2> QED BY <2>2, <2>3
<1> QED BY <1>1, <1>2, <1>3, <1>4 DEF Queue

-----------------------------------------------------------------------------
LEMMA InitSafe == Init => Safety
<1> SUFFICES ASSUME Init PROVE Safety
  OBVIOUS
<1> USE StartupAssumption DEF StartupAssumption
<1>1. Types
  <2>1. FlashTypes
    BY DEF Init, FlashTypes, Slots
  <2>2. PlaceTypes
    BY DEF Init, PlaceTypes
  <2>3. FlagTypes
    BY DEF Init, FlagTypes
  <2>4. BoundTypes
    BY DEF Init, BoundTypes
  <2> QED BY <2>1, <2>2, <2>3, <2>4 DEF Types
<1>2. Queue
  BY DEF Init, Queue
<1>3. Images
  BY DEF Init, Images, OnlyWorkingConfirmed, Joined, Slots
<1>4. Watchdog
  BY DEF Init, Watchdog
<1> QED BY <1>1, <1>2, <1>3, <1>4 DEF Safety

LEMMA FlashTypesKept ==
  ASSUME FlashTypes, [Next]_vars PROVE FlashTypes'
<1>1. CASE Boot
  BY <1>1 DEF FlashTypes, Boot, Selects, Slots
<1>2. CASE RollbackCheck
  BY <1>2 DEF FlashTypes, RollbackCheck, ArmsWatchdog, flash
<1>3. CASE Confirm
  BY <1>3 DEF FlashTypes, Confirm, Slots
<1>4. CASE UpdateBegins
  BY <1>4 DEF FlashTypes, UpdateBegins, OtherSlot, Slots
<1>5. CASE UpdateDone
  BY <1>5 DEF FlashTypes, UpdateDone, OtherSlot, Slots
<1>6. CASE UpdateReboots \/ RollbackTimer \/ Outage \/ Panic
  BY <1>6 DEF FlashTypes, UpdateReboots, RollbackTimer, Outage, Panic, Restart,
     flash
<1>7. CASE WifiStart \/ ScanDone \/ Register \/ OnStaStart \/ OnDisconnected
           \/ OnApStart \/ OnGotIp \/ StopTimer \/ NetworkFlips
           \/ Joins \/ Drops \/ PullBegins \/ UpdateFails \/ UNCHANGED vars
  BY <1>7 DEF FlashTypes, WifiStart, ScanDone, Register, OnStaStart, OnDisconnected,
     OnApStart, OnGotIp, StopTimer, NetworkFlips, Joins, Drops, PullBegins, UpdateFails,
     vars, flash
<1> QED BY <1>1, <1>2, <1>3, <1>4, <1>5, <1>6, <1>7
        DEF Next, AppMain, EventTask, Update

LEMMA PlaceTypesKept ==
  ASSUME PlaceTypes, [Next]_vars PROVE PlaceTypes'
<1>1. CASE Boot
  BY <1>1 DEF PlaceTypes, Boot, watchdog
<1>2. CASE WifiStart \/ ScanDone \/ Register
  BY <1>2 DEF PlaceTypes, WifiStart, ScanDone, Register, watchdog
<1>3. CASE RollbackCheck
  BY <1>3 DEF PlaceTypes, RollbackCheck, ArmsWatchdog, StartOnce, watchdog
<1>4. CASE OnStaStart \/ OnApStart \/ OnGotIp
  BY <1>4 DEF PlaceTypes, OnStaStart, OnApStart, OnGotIp, Shows, watchdog
<1>5. CASE OnDisconnected
  BY <1>5 DEF PlaceTypes, OnDisconnected, Shows, ShowsLost, Connects, watchdog
<1>6. CASE Confirm \/ StopTimer
  BY <1>6 DEF PlaceTypes, Confirm, StopTimer, StopsTimer, watchdog
<1>7. CASE NetworkFlips \/ Joins \/ Drops
  BY <1>7 DEF PlaceTypes, NetworkFlips, Joins, Drops, watchdog
<1>8. CASE PullBegins \/ UpdateBegins \/ UpdateFails \/ UpdateDone
  BY <1>8 DEF PlaceTypes, PullBegins, UpdateBegins, Asked, UpdateFails, UpdateDone, Shows, watchdog
<1>9. CASE UpdateReboots \/ RollbackTimer \/ Outage \/ Panic
  BY <1>9 DEF PlaceTypes, UpdateReboots, RollbackTimer, Outage, Panic, Restart
<1>10. CASE UNCHANGED vars
  <2>1. /\ stage' = stage /\ mode' = mode /\ link' = link /\ dispatch' = dispatch
        /\ led' = led /\ timer' = timer /\ update' = update
    BY <1>10 DEF vars, watchdog
  <2>2. /\ stage' \in {"off", "wifi", "scan", "rollback", "register", "loop"}
        /\ mode' \in {"off", "STA", "AP"}
        /\ link' \in {"off", "idle", "connecting", "ip"}
    BY <2>1 DEF PlaceTypes
  <2>3. /\ dispatch' \in {"none", "confirm", "stop timer"}
        /\ led' \in {"off", "ap", "connecting", "connected", "lost", "update"}
        /\ timer' \in {"none", "armed"}
        /\ update' \in {"none", "pulling", "writing", "reboot"}
    BY <2>1 DEF PlaceTypes
  <2> QED BY <2>2, <2>3 DEF PlaceTypes
<1> QED BY <1>1, <1>2, <1>3, <1>4, <1>5, <1>6, <1>7, <1>8, <1>9, <1>10
        DEF Next, AppMain, EventTask, Update

LEMMA FlagTypesKept ==
  ASSUME FlagTypes, [Next]_vars PROVE FlagTypes'
<1>1. CASE NetworkFlips
  BY <1>1 DEF FlagTypes, NetworkFlips, watchdog
<1>2. CASE OnGotIp \/ OnDisconnected
  BY <1>2 DEF FlagTypes, OnGotIp, OnDisconnected, watchdog
<1>3. CASE Register \/ StopTimer
  BY <1>3 DEF FlagTypes, Register, StopTimer, watchdog
<1>4. CASE RollbackCheck
  BY <1>4 DEF FlagTypes, RollbackCheck, ArmsWatchdog, watchdog
<1>5. CASE UpdateReboots \/ RollbackTimer \/ Outage \/ Panic
  BY <1>5 DEF FlagTypes, UpdateReboots, RollbackTimer, Outage, Panic, Restart
<1>6. CASE WifiStart \/ ScanDone \/ OnStaStart \/ OnApStart \/ Confirm
           \/ Joins \/ Drops \/ PullBegins \/ UpdateBegins \/ UpdateFails
           \/ UpdateDone \/ Boot \/ UNCHANGED vars
  BY <1>6 DEF FlagTypes, WifiStart, ScanDone, OnStaStart, OnApStart, Confirm, Joins,
     Drops, PullBegins, UpdateBegins, UpdateFails, UpdateDone, Boot, vars, watchdog
<1> QED BY <1>1, <1>2, <1>3, <1>4, <1>5, <1>6
        DEF Next, AppMain, EventTask, Update

LEMMA BoundTypesKept ==
  ASSUME BoundTypes, [Next]_vars PROVE BoundTypes'
<1>1. CASE PullBegins \/ UpdateBegins
  <2>1. /\ outages' = outages
        /\ updates' = updates \/ (updates < MaxUpdates /\ updates' = updates + 1)
    BY <1>1 DEF PullBegins, UpdateBegins, Asked
  <2> QED BY <2>1, StartupAssumption DEF BoundTypes, StartupAssumption
<1>2. CASE Outage \/ Confirm
  <2>1. /\ updates' = updates
        /\ outages' = outages \/ (outages < MaxOutages /\ outages' = outages + 1)
    BY <1>2 DEF Outage, Confirm
  <2> QED BY <2>1, StartupAssumption DEF BoundTypes, StartupAssumption
<1>3. CASE WifiStart \/ ScanDone \/ RollbackCheck \/ Register \/ OnStaStart
           \/ OnDisconnected \/ OnApStart \/ OnGotIp
           \/ StopTimer \/ NetworkFlips \/ Joins \/ Drops
           \/ UpdateFails \/ UpdateDone \/ UpdateReboots
           \/ RollbackTimer \/ Panic \/ Boot \/ UNCHANGED vars
  BY <1>3 DEF BoundTypes, WifiStart, ScanDone, RollbackCheck, Register, OnStaStart,
     OnDisconnected, OnApStart, OnGotIp, StopTimer, NetworkFlips, Joins,
     Drops, UpdateFails, UpdateDone, UpdateReboots, RollbackTimer, Panic, Boot, vars,
     bounds
<1> QED BY <1>1, <1>2, <1>3
        DEF Next, AppMain, EventTask, Update

LEMMA QueueKept ==
  ASSUME Types, Queue, Images, [Next]_vars PROVE Queue'
<1>1. CASE WifiStart
  <2>1. link = "off" /\ events = <<>>
    BY <1>1 DEF WifiStart, Images, Queue
  <2>2. link' = "idle" /\ events' \in {<<"STA_START">>, <<"AP_START">>}
    BY <1>1, <2>1, Shapes DEF WifiStart, Posts
  <2> QED BY <2>2 DEF Queue
<1>2. CASE OnStaStart
  <2>1. events' = <<>> /\ link' = "connecting"
    BY <1>2, Dispatched DEF OnStaStart
  <2> QED BY <2>1 DEF Queue
<1>3. CASE OnDisconnected
  <2>1. events' = <<>> /\ link' = "connecting"
    BY <1>3, Dispatched DEF OnDisconnected, Connects
  <2> QED BY <2>1 DEF Queue
<1>4. CASE OnApStart
  <2>1. events' = <<>> /\ link' = "idle"
    BY <1>4, Dispatched DEF OnApStart
  <2> QED BY <2>1 DEF Queue
<1>5. CASE OnGotIp
  <2>1. \/ link' = "ip" /\ events' = <<>>
        \/ link' = "idle" /\ events' = <<"DISCONNECTED">>
    BY <1>5, Dispatched DEF OnGotIp
  <2> QED BY <2>1 DEF Queue
<1>6. CASE Joins
  <2>1. link' = "ip" /\ events' = <<"GOT_IP">>
    BY <1>6, Shapes DEF Joins, Posts, Queue
  <2> QED BY <2>1 DEF Queue
<1>7. CASE Drops
  <2>1. events \in {<<>>, <<"GOT_IP">>}
    BY <1>7 DEF Drops, Queue
  <2>2. link' = "idle" /\ events' \in {<<"DISCONNECTED">>, <<"GOT_IP", "DISCONNECTED">>}
    BY <1>7, <2>1, Shapes DEF Drops, Posts
  <2> QED BY <2>2 DEF Queue
<1>8. CASE RollbackTimer \/ Outage \/ Panic \/ UpdateReboots
  <2>1. link' = "off" /\ events' = <<>>
    BY <1>8 DEF RollbackTimer, Outage, Panic, UpdateReboots, Restart
  <2> QED BY <2>1 DEF Queue
<1>9. CASE Boot \/ ScanDone \/ RollbackCheck \/ Register \/ Confirm \/ StopTimer
           \/ NetworkFlips \/ PullBegins \/ UpdateBegins \/ UpdateFails \/ UpdateDone
           \/ UNCHANGED vars
  <2>1. UNCHANGED <<link, events>>
    BY <1>9 DEF Boot, ScanDone, RollbackCheck, Register, Confirm, StopTimer, NetworkFlips,
       PullBegins, UpdateBegins, UpdateFails, UpdateDone, vars
  <2> QED BY <2>1 DEF Queue
<1> QED BY <1>1, <1>2, <1>3, <1>4, <1>5, <1>6, <1>7, <1>8, <1>9
        DEF Next, AppMain, EventTask, Update

-----------------------------------------------------------------------------
(* Joined is set by an image that works, and cleared by restarts.          *)
LEMMA JoinedKept ==
  ASSUME Types, Queue, Images, [Next]_vars, Joined'
  PROVE  (Joined \/ Joins) /\ stage' # "off" /\ UNCHANGED running
<1>1. CASE WifiStart
  <2>1. link = "off" /\ events = <<>> /\ stage' # "off" /\ UNCHANGED running
    BY <1>1 DEF WifiStart, Images, Queue, flash
  <2>2. link' = "idle" /\ dispatch' = dispatch /\ events' \in {<<"STA_START">>, <<"AP_START">>}
    BY <1>1, <2>1, Shapes DEF WifiStart, Posts
  <2>3. Head(events') # "GOT_IP"
    BY <2>2, Shapes
  <2> QED BY <2>1, <2>2, <2>3 DEF Joined
<1>2. CASE OnStaStart \/ OnDisconnected \/ OnApStart
  <2>1. events' = <<>> /\ link' # "ip" /\ UNCHANGED <<dispatch, running, stage>>
    BY <1>2, Dispatched DEF OnStaStart, OnDisconnected, OnApStart, Connects, flash
  <2>2. Joined /\ dispatch # "none"
    BY <2>1 DEF Joined
  <2> QED BY <2>1, <2>2 DEF Images
<1>3. CASE OnGotIp
  <2>1. Joined /\ UNCHANGED <<running, stage>>
    BY <1>3 DEF OnGotIp, Arrives, Joined, flash
  <2> QED BY <2>1 DEF Images
<1>4. CASE Joins
  <2>1. UNCHANGED <<running, stage>> /\ link = "connecting"
    BY <1>4 DEF Joins, flash
  <2> QED BY <1>4, <2>1 DEF Images
<1>5. CASE Drops
  <2>1. UNCHANGED <<running, stage, dispatch>> /\ link \in {"connecting", "ip"} /\ link' = "idle"
    BY <1>5 DEF Drops, flash
  <2>2. CASE link = "connecting"
    <3>1. events' = <<"DISCONNECTED">>
      BY <1>5, <2>2, Shapes DEF Drops, Queue, Posts
    <3>2. Head(events') # "GOT_IP"
      BY <3>1, Shapes
    <3>3. Joined
      BY <2>1, <3>2 DEF Joined
    <3> QED BY <2>1, <3>3 DEF Images
  <2>3. CASE link = "ip"
    BY <2>1, <2>3 DEF Joined, Images
  <2> QED BY <2>1, <2>2, <2>3
<1>6. CASE RollbackTimer \/ Outage \/ Panic \/ UpdateReboots
  <2>1. link' = "off" /\ events' = <<>> /\ dispatch' = "none"
    BY <1>6 DEF RollbackTimer, Outage, Panic, UpdateReboots, Restart
  <2> QED BY <2>1 DEF Joined
<1>7. CASE Boot
  <2>1. UNCHANGED <<link, events, dispatch>> /\ stage = "off"
    BY <1>7 DEF Boot
  <2>2. Joined
    BY <2>1 DEF Joined
  <2> QED BY <2>1, <2>2 DEF Images
<1>8. CASE ScanDone \/ RollbackCheck \/ Register \/ UNCHANGED vars \/ NetworkFlips
           \/ PullBegins \/ UpdateBegins \/ UpdateFails \/ UpdateDone
  <2>1. UNCHANGED <<link, events, dispatch, running>>
    BY <1>8 DEF ScanDone, RollbackCheck, Register, NetworkFlips, PullBegins, UpdateBegins,
       UpdateFails, UpdateDone, vars, flash
  <2>2. stage # "off" => stage' # "off"
    BY <1>8 DEF ScanDone, RollbackCheck, Register, NetworkFlips, PullBegins, UpdateBegins,
       UpdateFails, UpdateDone, vars
  <2>3. Joined
    BY <2>1 DEF Joined
  <2> QED BY <2>1, <2>2, <2>3 DEF Images
<1>9. CASE Confirm \/ StopTimer
  <2>1. dispatch # "none" /\ UNCHANGED <<stage, running>>
    BY <1>9 DEF Confirm, StopTimer, flash
  <2> QED BY <2>1 DEF Joined, Images
<1> QED BY <1>1, <1>2, <1>3, <1>4, <1>5, <1>6, <1>7, <1>8, <1>9
        DEF Next, AppMain, EventTask, Update

(* The images, one conjunct after another. *)

PairFit == \A s \in Slots : image[s] \in {"new", "pending"} => image[1 - s] = "valid"

RunningFit ==
  /\ stage # "off" => image[running] \in {"pending", "valid"}
  /\ update # "none" => stage # "off"
  /\ update \in {"writing", "reboot"} => image[running] = "valid"

(* What changes neither the images nor which of them runs.                 *)
LEMMA ImagesUntouched ==
  ASSUME Images, UNCHANGED <<image, works, running>>,
         \/ UNCHANGED update /\ stage # "off" /\ stage' # "off"
         \/ update' = "pulling" /\ stage # "off" /\ UNCHANGED stage
         \/ UNCHANGED <<update, stage>>
         \/ update' = "none" /\ (stage' # "off" => stage # "off")
  PROVE  OnlyWorkingConfirmed' /\ PairFit' /\ RunningFit'
BY DEF Images, OnlyWorkingConfirmed, PairFit, RunningFit

LEMMA ImagePartsKept ==
  ASSUME Types, Images, [Next]_vars
  PROVE  OnlyWorkingConfirmed' /\ PairFit' /\ RunningFit'
<1>1. CASE Boot
  <2>1. PICK s \in Slots : s = bootSlot /\ Selects(s)
    BY <1>1 DEF Boot, Types, FlashTypes
  <2>2. stage = "off" /\ update' = update /\ works' = works /\ update = "none"
    BY <1>1 DEF Boot, Images
  <2>3. CASE image[s] = "valid" /\ running' = s /\ image' = image
    BY <2>2, <2>3 DEF Images, OnlyWorkingConfirmed, PairFit, RunningFit
  <2>4. CASE image[s] = "new" /\ running' = s /\ image' = [image EXCEPT ![s] = "pending"]
    BY <2>2, <2>4 DEF Images, OnlyWorkingConfirmed, PairFit, RunningFit, Types, FlashTypes, Slots
  <2>5. CASE /\ image[s] = "pending" /\ image[1 - s] = "valid" /\ running' = 1 - s
             /\ image' = [image EXCEPT ![s] = "aborted"]
    BY <2>2, <2>5 DEF Images, OnlyWorkingConfirmed, PairFit, RunningFit, Types, FlashTypes, Slots
  <2> QED BY <2>1, <2>3, <2>4, <2>5 DEF Selects
<1>2. CASE Confirm
  <2>1. /\ works[running] /\ stage # "off"
        /\ image' = [image EXCEPT ![running] = "valid"] \/ UNCHANGED image
    BY <1>2 DEF Confirm, Images, Joined
  <2>2. UNCHANGED <<works, running, stage, update>>
    BY <1>2 DEF Confirm
  <2> QED BY <2>1, <2>2
          DEF Images, OnlyWorkingConfirmed, PairFit, RunningFit, Types, FlashTypes, Slots
<1>3. CASE UpdateBegins
  <2>1. /\ stage # "off" /\ image[running] = "valid"
        /\ image' = [image EXCEPT ![OtherSlot] = "none"]
    BY <1>3 DEF UpdateBegins, Asked, MayReplaceOther, Pending, Images
  <2>2. UNCHANGED <<works, running, stage>>
    BY <1>3 DEF UpdateBegins
  <2> QED BY <2>1, <2>2
          DEF Images, OnlyWorkingConfirmed, PairFit, RunningFit, OtherSlot, Types, FlashTypes, Slots
<1>4. CASE UpdateDone
  <2>1. stage # "off" /\ image[running] = "valid" /\ UNCHANGED <<running, stage>>
    BY <1>4 DEF UpdateDone, Images
  <2>2. PICK w \in BOOLEAN : works' = [works EXCEPT ![OtherSlot] = w]
    BY <1>4 DEF UpdateDone
  <2>3. image' = [image EXCEPT ![OtherSlot] = "new"]
    BY <1>4 DEF UpdateDone
  <2> QED BY <2>1, <2>2, <2>3
          DEF Images, OnlyWorkingConfirmed, PairFit, RunningFit, OtherSlot, Types, FlashTypes, Slots
<1>5. CASE WifiStart \/ ScanDone \/ RollbackCheck \/ Register
  <2>1. stage # "off" /\ stage' # "off" /\ UNCHANGED <<image, works, running, update>>
    BY <1>5 DEF WifiStart, ScanDone, RollbackCheck, Register, ArmsWatchdog, flash
  <2> QED BY <2>1, ImagesUntouched
<1>6. CASE OnStaStart \/ OnDisconnected \/ OnApStart \/ OnGotIp \/ StopTimer
           \/ NetworkFlips \/ Joins \/ Drops \/ UNCHANGED vars
  <2>1. UNCHANGED <<image, works, running, update, stage>>
    BY <1>6 DEF OnStaStart, OnDisconnected, OnApStart, OnGotIp, StopTimer, NetworkFlips,
       Joins, Drops, vars, flash
  <2> QED BY <2>1, ImagesUntouched
<1>7. CASE UpdateFails \/ UpdateReboots \/ RollbackTimer \/ Outage \/ Panic
  <2>1. /\ UNCHANGED <<image, works, running>> /\ update' = "none"
        /\ stage' # "off" => stage # "off"
    BY <1>7 DEF UpdateFails, UpdateReboots, RollbackTimer, Outage, Panic, Restart, flash
  <2> QED BY <2>1, ImagesUntouched
<1>8. CASE PullBegins
  <2>1. /\ UNCHANGED <<image, works, running, stage>> /\ update' = "pulling"
        /\ stage # "off"
    BY <1>8 DEF PullBegins, Asked, flash
  <2> QED BY <2>1, ImagesUntouched
<1> QED BY <1>1, <1>2, <1>3, <1>4, <1>5, <1>6, <1>7, <1>8 DEF Next, AppMain, EventTask, Update

(* Which image works changes only for the slot that does not run.          *)
LEMMA RunningWorks ==
  ASSUME Types, [Next]_vars, works[running], UNCHANGED running
  PROVE  works'[running']
<1>1. CASE UpdateDone
  BY <1>1 DEF UpdateDone, OtherSlot, Types, FlashTypes, Slots
<1>2. CASE ~UpdateDone
  <2>1. UNCHANGED works
    BY <1>2 DEF Next, AppMain, Boot, WifiStart, ScanDone, RollbackCheck, Register, EventTask,
       OnStaStart, OnDisconnected, OnApStart, OnGotIp, Confirm, StopTimer, NetworkFlips, Joins,
       Drops, Update, PullBegins, UpdateBegins, UpdateFails, UpdateReboots, RollbackTimer, Outage,
       Panic, Restart, flash, vars
  <2> QED BY <2>1
<1> QED BY <1>1, <1>2

LEMMA LinkOffUntilStarted ==
  ASSUME Types, Queue, Images, [Next]_vars
  PROVE  (stage \in {"off", "wifi"} => link = "off")'
<1> SUFFICES ASSUME stage' \in {"off", "wifi"} PROVE link' = "off"
  OBVIOUS
<1>1. CASE Boot
  BY <1>1 DEF Boot, Images
<1>2. CASE WifiStart \/ ScanDone \/ RollbackCheck \/ Register
  BY <1>2 DEF WifiStart, ScanDone, RollbackCheck, Register
<1>3. CASE UpdateReboots \/ RollbackTimer \/ Outage \/ Panic
  BY <1>3 DEF UpdateReboots, RollbackTimer, Outage, Panic, Restart
<1>4. CASE OnStaStart \/ OnDisconnected \/ OnApStart \/ OnGotIp \/ Joins \/ Drops
  <2>1. stage' = stage /\ link # "off"
    BY <1>4, Dispatched DEF OnStaStart, OnDisconnected, OnApStart, OnGotIp, Joins, Drops
  <2> QED BY <2>1 DEF Images
<1>5. CASE Confirm \/ StopTimer \/ NetworkFlips \/ PullBegins \/ UpdateBegins \/ UpdateFails
           \/ UpdateDone \/ UNCHANGED vars
  <2>1. UNCHANGED <<stage, link>>
    BY <1>5 DEF Confirm, StopTimer, NetworkFlips, PullBegins, UpdateBegins, UpdateFails,
       UpdateDone, vars
  <2> QED BY <2>1 DEF Images
<1> QED BY <1>1, <1>2, <1>3, <1>4, <1>5 DEF Next, AppMain, EventTask, Update

LEMMA ImagesKept ==
  ASSUME Types, Queue, Images, [Next]_vars PROVE Images'
<1>1. OnlyWorkingConfirmed' /\ PairFit' /\ RunningFit'
  BY ImagePartsKept
<1>2. (stage \in {"off", "wifi"} => link = "off")'
  BY LinkOffUntilStarted
<1>3. Joined' => stage' # "off" /\ works'[running']
  <2> SUFFICES ASSUME Joined' PROVE stage' # "off" /\ works'[running']
    OBVIOUS
  <2>1. (Joined \/ Joins) /\ stage' # "off" /\ UNCHANGED running
    BY JoinedKept
  <2>2. works[running]
    BY <2>1 DEF Images, Joins
  <2> QED BY <2>1, <2>2, RunningWorks
<1> QED BY <1>1, <1>2, <1>3 DEF Images, PairFit, RunningFit

(* The timer runs only while the image is on trial, or while the event     *)
(* task that confirmed it is about to stop the timer.                      *)
LEMMA WatchdogKept ==
  ASSUME Types, Queue, Images, Watchdog, [Next]_vars PROVE Watchdog'
<1> SUFFICES ASSUME timer' = "armed"
             PROVE  stage' # "off" /\ (Pending' \/ dispatch' = "stop timer")
  BY DEF Watchdog
<1>1. CASE RollbackCheck
  BY <1>1 DEF RollbackCheck, ArmsWatchdog, Pending, watchdog, Watchdog
<1>2. CASE Confirm
  BY <1>2 DEF Confirm, watchdog, Watchdog
<1>3. CASE UpdateReboots \/ RollbackTimer \/ Outage \/ Panic \/ StopTimer
  BY <1>3 DEF UpdateReboots, RollbackTimer, Outage, Panic, Restart, StopTimer, StopsTimer
<1>4. CASE Boot
  BY <1>4 DEF Boot, watchdog, Watchdog
<1>5. CASE OnStaStart \/ OnDisconnected \/ OnApStart \/ OnGotIp
  <2>1. /\ UNCHANGED <<image, running, stage, timer>>
        /\ dispatch = "none"
    BY <1>5 DEF OnStaStart, OnDisconnected, OnApStart, OnGotIp, Arrives, flash, watchdog
  <2> QED BY <2>1 DEF Watchdog, Pending
<1>6. CASE UpdateBegins \/ UpdateDone
  <2>1. UNCHANGED <<running, stage, timer, dispatch>> /\ image'[running] = image[running]
    BY <1>6 DEF UpdateBegins, UpdateDone, OtherSlot, watchdog, Types, FlashTypes, Slots
  <2> QED BY <2>1 DEF Watchdog, Pending
<1>7. CASE WifiStart \/ ScanDone \/ Register \/ NetworkFlips \/ Joins \/ Drops \/ PullBegins
           \/ UpdateFails \/ UNCHANGED vars
  <2>1. UNCHANGED <<image, running, timer, dispatch>> /\ (stage # "off" => stage' # "off")
    BY <1>7 DEF WifiStart, ScanDone, Register, NetworkFlips, Joins, Drops, PullBegins, UpdateFails,
       vars, flash, watchdog
  <2> QED BY <2>1 DEF Watchdog, Pending
<1> QED BY <1>1, <1>2, <1>3, <1>4, <1>5, <1>6, <1>7 DEF Next, AppMain, EventTask, Update

-----------------------------------------------------------------------------
(* Every behaviour is safe: types, queue, images and watchdog.             *)
THEOREM SafetyHolds == Spec => []Safety
<1>1. Init => Safety
  BY InitSafe
<1>2. Safety /\ [Next]_vars => Safety'
  <2> SUFFICES ASSUME Safety, [Next]_vars PROVE Safety'
    OBVIOUS
  <2>1. Types /\ Queue /\ Images /\ Watchdog
    BY DEF Safety
  <2>2. Types'
    BY <2>1, FlashTypesKept, PlaceTypesKept, FlagTypesKept, BoundTypesKept DEF Types
  <2>3. Queue' /\ Images' /\ Watchdog'
    BY <2>1, QueueKept, ImagesKept, WatchdogKept
  <2> QED BY <2>2, <2>3 DEF Safety
<1> QED BY <1>1, <1>2, PTL DEF Spec

(* Type correctness, with at most two events waiting.                      *)
THEOREM StartupTypeCorrect == Spec => []TypeOK
<1>1. Safety => TypeOK
  <2> SUFFICES ASSUME Safety PROVE TypeOK
    OBVIOUS
  <2>1. /\ events \in Seq({"STA_START", "AP_START", "DISCONNECTED", "GOT_IP"})
        /\ Len(events) <= 2
    <3>1. events \in {<<>>, <<"STA_START">>, <<"AP_START">>, <<"DISCONNECTED">>, <<"GOT_IP">>,
                      <<"GOT_IP", "DISCONNECTED">>}
      BY DEF Safety, Types, PlaceTypes, Queue
    <3> DEFINE E == {"STA_START", "AP_START", "DISCONNECTED", "GOT_IP"}
    <3>2. <<>> \in Seq(E) /\ Len(<<>>) = 0
      BY EmptySeq
    <3>3. \A e \in E : <<e>> \in Seq(E) /\ Len(<<e>>) = 1
      OBVIOUS
    <3>4. \A e, f \in E : <<e, f>> \in Seq(E) /\ Len(<<e, f>>) = 2
      OBVIOUS
    <3>5. "STA_START" \in E /\ "AP_START" \in E /\ "DISCONNECTED" \in E /\ "GOT_IP" \in E
      OBVIOUS
    <3> HIDE DEF E
    <3>6. CASE events = <<>>
      BY <3>2, <3>6 DEF E
    <3>7. CASE events = <<"GOT_IP", "DISCONNECTED">>
      <4>1. events \in Seq(E) /\ Len(events) = 2
        BY <3>4, <3>5, <3>7
      <4> QED BY <4>1 DEF E
    <3>8. CASE events \in {<<"STA_START">>, <<"AP_START">>, <<"DISCONNECTED">>, <<"GOT_IP">>}
      <4>1. events \in Seq(E) /\ Len(events) = 1
        BY <3>3, <3>5, <3>8
      <4> QED BY <4>1 DEF E
    <3> QED BY <3>1, <3>6, <3>7, <3>8
  <2>2. FlashTypes /\ PlaceTypes /\ FlagTypes /\ BoundTypes
    BY DEF Safety, Types
  <2> QED BY <2>1, <2>2, Zenon DEF FlashTypes, PlaceTypes, FlagTypes, BoundTypes, TypeOK
<1> QED BY <1>1, SafetyHolds, PTL

(* While an image is on trial the other one is valid and works.            *)
THEOREM FallbackIsKept == Spec => []FallbackKept
<1>1. Safety => FallbackKept
  <2> SUFFICES ASSUME Safety, NEW s \in Slots, image[s] = "pending"
               PROVE  image[1 - s] = "valid" /\ works[1 - s]
    BY DEF FallbackKept
  <2>1. image[1 - s] = "valid" /\ 1 - s \in Slots
    BY DEF Safety, Images, Slots
  <2> QED BY <2>1 DEF Safety, Images, OnlyWorkingConfirmed
<1> QED BY <1>1, SafetyHolds, PTL

(* An image that cannot join the network is never committed.               *)
THEOREM OnlyWorkingIsConfirmed == Spec => []OnlyWorkingConfirmed
<1>1. Safety => OnlyWorkingConfirmed
  BY DEF Safety, Images
<1> QED BY <1>1, SafetyHolds, PTL

(* The watchdog restarts only an image on trial, or one that was confirmed *)
(* while on_got_ip has yet to stop the timer.                              *)
THEOREM ConfirmedIsNotRestarted == Spec => ConfirmedNotRestarted
<1>1. Safety => (RollbackTimer => Pending \/ dispatch = "stop timer")
  BY DEF Safety, Watchdog, RollbackTimer
<1>2. Safety /\ [Next]_vars => [RollbackTimer => Pending \/ dispatch = "stop timer"]_vars
  BY <1>1
<1> QED BY <1>2, SafetyHolds, PTL DEF Spec, ConfirmedNotRestarted
==============================================================================
