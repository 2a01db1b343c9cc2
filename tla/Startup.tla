------------------------------- MODULE Startup -------------------------------
(***************************************************************************)
(* From a reset to a confirmed image: app_main's order of start-up         *)
(* (main/main.c), the Wi-Fi events (main/wifi.c), the rollback watchdog    *)
(* (main/ota.c) and the LED they share with a running update.              *)
(*                                                                         *)
(* Three tasks meet here.  app_main starts Wi-Fi, scans the I2C bus, and   *)
(* only then lets ota_init look at the running image; the system's event   *)
(* task dispatches what the Wi-Fi driver posts, in order; the timer's task *)
(* restarts the device.  The bootloader keeps a state of each image and    *)
(* falls back to the other slot when a new one was not confirmed.          *)
(***************************************************************************)
EXTENDS Naturals, Sequences

CONSTANTS
  MaxUpdates,   \* bounds the updates begun,
  MaxOutages    \* the restarts nobody here asks for and the markings that fail

ASSUME StartupAssumption == MaxUpdates \in Nat /\ MaxOutages \in Nat

VARIABLES
  image, works,     \* of each slot: its state, whether it can join a network
  bootSlot, running,
  stage,            \* app_main's place, or "off"
  mode,             \* the Wi-Fi mode
  network,          \* the access point is in reach
  link, events,     \* the driver, and what it posted
  dispatch,         \* the event task: the handler it is in
  s_sta_got_ip, led,
  timer, watched,   \* s_rollback_timer, and on_got_ip's registration
  update,           \* an update, as Ota has it in detail
  updates, outages

flash == <<image, works, bootSlot, running>>
watchdog == <<timer, watched>>
bounds == <<updates, outages>>
vars == <<flash, stage, mode, network, link, events, dispatch, s_sta_got_ip, led,
          watchdog, update, bounds>>

Slots == {0, 1}
OtherSlot == 1 - running
Pending == image[running] = "pending"

-----------------------------------------------------------------------------
(* Defective variants. *)

ConfirmsAtOnce == image' = [image EXCEPT ![running] = "valid"] /\ UNCHANGED watchdog
TimerLeftRunning == UNCHANGED timer
OverPending == TRUE
NoReconnect(lnk) == lnk' = "idle"
LedKept == UNCHANGED led
NotArmed == "created"

-----------------------------------------------------------------------------
Init ==
  /\ image = [s \in Slots |-> IF s = 0 THEN "valid" ELSE "none"]
  /\ works = [s \in Slots |-> s = 0]
  /\ bootSlot = 0 /\ running = 0
  /\ stage = "off" /\ mode = "off" /\ network \in BOOLEAN
  /\ link = "off" /\ events = <<>> /\ dispatch = "none"
  /\ s_sta_got_ip = FALSE /\ led = "off"
  /\ timer = "none" /\ watched = FALSE
  /\ update = "none" /\ updates = 0 /\ outages = 0

(* RAM is lost, the image states stay.                                     *)
Restart ==
  /\ stage' = "off" /\ mode' = "off" /\ link' = "off" /\ events' = <<>> /\ dispatch' = "none"
  /\ s_sta_got_ip' = FALSE /\ led' = "off"
  /\ timer' = "none" /\ watched' = FALSE /\ update' = "none"
  /\ UNCHANGED <<flash, network>>

Outage ==
  /\ stage # "off" /\ outages < MaxOutages /\ outages' = outages + 1
  /\ Restart /\ UNCHANGED updates

(* A bad image may crash wherever it is.                                   *)
Panic == stage # "off" /\ ~works[running] /\ Restart /\ UNCHANGED bounds

(* The bootloader: a new image is on trial, and one still on trial failed. *)
Selects(s) ==
  \/ image[s] = "valid" /\ running' = s /\ UNCHANGED <<image, bootSlot>>
  \/ /\ image[s] = "new" /\ running' = s
     /\ image' = [image EXCEPT ![s] = "pending"] /\ UNCHANGED bootSlot
  \/ /\ image[s] = "pending" /\ image[1 - s] = "valid" /\ running' = 1 - s
     /\ image' = [image EXCEPT ![s] = "aborted"] /\ bootSlot' = 1 - s

(* Up to wifi_start: with an SSID stored the device is a station.          *)
Boot ==
  /\ stage = "off" /\ Selects(bootSlot) /\ stage' = "wifi"
  /\ mode' \in {"STA", "AP"}
  /\ UNCHANGED <<works, network, link, events, dispatch, s_sta_got_ip, led, watchdog,
                 update, bounds>>

Posts(e) == events' = Append(events, e)

WifiStart ==
  /\ stage = "wifi" /\ stage' = "scan"
  /\ link' = "idle" /\ Posts(IF mode = "STA" THEN "STA_START" ELSE "AP_START")
  /\ UNCHANGED <<flash, mode, network, dispatch, s_sta_got_ip, led, watchdog, update, bounds>>

(* The bus scan, the relays, and in station mode the HTTP server and mDNS; *)
(* without an SSID ota_init is never called.                               *)
ScanDone ==
  /\ stage = "scan"
  /\ stage' = IF mode = "STA" THEN "rollback" ELSE "loop"
  /\ UNCHANGED <<flash, mode, network, link, events, dispatch, s_sta_got_ip, led, watchdog,
                 update, bounds>>

StartOnce == "armed"
ArmsWatchdog == timer' = StartOnce /\ UNCHANGED <<image, watched>>

RollbackCheck ==
  /\ stage = "rollback"
  /\ \/ Pending /\ ArmsWatchdog /\ stage' = "register"
     \/ ~Pending /\ UNCHANGED <<image, watchdog>> /\ stage' = "loop"
  /\ UNCHANGED <<works, bootSlot, running, mode, network, link, events, dispatch,
                 s_sta_got_ip, led, update, bounds>>

(* Registering waits for the loop's mutex, which a dispatch holds.         *)
Register ==
  /\ stage = "register" /\ dispatch = "none"
  /\ watched' = TRUE /\ stage' = "loop"
  /\ UNCHANGED <<flash, mode, network, link, events, dispatch, s_sta_got_ip, led, timer,
                 update, bounds>>

-----------------------------------------------------------------------------
(* The network and the driver. *)

NetworkFlips ==
  /\ network' = ~network
  /\ UNCHANGED <<flash, stage, mode, link, events, dispatch, s_sta_got_ip, led, watchdog,
                 update, bounds>>

Joins ==
  /\ link = "connecting" /\ network /\ works[running]
  /\ link' = "ip" /\ Posts("GOT_IP")
  /\ UNCHANGED <<flash, stage, mode, network, dispatch, s_sta_got_ip, led, watchdog, update,
                 bounds>>

Drops ==
  /\ \/ link = "connecting" /\ ~(network /\ works[running])
     \/ link = "ip" /\ ~network
  /\ link' = "idle" /\ Posts("DISCONNECTED")
  /\ UNCHANGED <<flash, stage, mode, network, dispatch, s_sta_got_ip, led, watchdog, update,
                 bounds>>

-----------------------------------------------------------------------------
(* The event task. *)

Arrives(e) == dispatch = "none" /\ events # <<>> /\ Head(events) = e /\ events' = Tail(events)

Connects(lnk) == lnk' = "connecting"
Shows(colour) == led' = colour
ShowsLost == Shows("lost")

OnStaStart ==
  /\ Arrives("STA_START") /\ Shows("connecting") /\ link' = "connecting"
  /\ UNCHANGED <<flash, stage, mode, network, dispatch, s_sta_got_ip, watchdog, update, bounds>>

OnDisconnected ==
  /\ Arrives("DISCONNECTED") /\ s_sta_got_ip' = FALSE /\ ShowsLost /\ Connects(link)
  /\ UNCHANGED <<flash, stage, mode, network, dispatch, watchdog, update, bounds>>

OnApStart ==
  /\ Arrives("AP_START") /\ Shows("ap")
  /\ UNCHANGED <<flash, stage, mode, network, link, dispatch, s_sta_got_ip, watchdog, update,
                 bounds>>

(* on_wifi_event first, then on_got_ip if it is registered by now.         *)
OnGotIp ==
  /\ Arrives("GOT_IP") /\ s_sta_got_ip' = TRUE /\ Shows("connected")
  /\ dispatch' = IF watched THEN "confirm" ELSE "none"
  /\ UNCHANGED <<flash, stage, mode, network, link, watchdog, update, bounds>>

(* Whether the image could be marked valid is not asked: the timer is      *)
(* stopped either way.                                                     *)
Confirm ==
  /\ dispatch = "confirm" /\ dispatch' = "stop timer"
  /\ \/ image' = [image EXCEPT ![running] = "valid"] /\ UNCHANGED outages
     \/ UNCHANGED image /\ outages < MaxOutages /\ outages' = outages + 1
  /\ UNCHANGED <<works, bootSlot, running, stage, mode, network, link, events, s_sta_got_ip,
                 led, watchdog, update, updates>>

StopsTimer == timer' = "none"

StopTimer ==
  /\ dispatch = "stop timer" /\ dispatch' = "none" /\ StopsTimer
  /\ UNCHANGED <<flash, stage, mode, network, link, events, s_sta_got_ip, led, watched, update,
                 bounds>>

EventTask == OnStaStart \/ OnDisconnected \/ OnApStart \/ OnGotIp \/ Confirm \/ StopTimer

(* 120 s are over.                                                         *)
RollbackTimer == timer = "armed" /\ Restart /\ UNCHANGED bounds

-----------------------------------------------------------------------------
(* An update, as far as the images and the LED see it. *)

Asked ==
  /\ stage \in {"rollback", "register", "loop"} /\ mode = "STA" /\ link = "ip"
  /\ update = "none" /\ updates < MaxUpdates /\ updates' = updates + 1
  /\ Shows("update")

(* A pull shows itself before it has asked for the other slot, a push only *)
(* when it has it.                                                         *)
PullBegins ==
  /\ Asked /\ update' = "pulling"
  /\ UNCHANGED <<flash, stage, mode, network, link, events, dispatch, s_sta_got_ip, watchdog,
                 outages>>

(* esp_ota_begin refuses while the running image is not confirmed.         *)
MayReplaceOther == ~Pending

UpdateBegins ==
  /\ Asked \/ (update = "pulling" /\ UNCHANGED <<updates, led>>)
  /\ MayReplaceOther
  /\ update' = "writing"
  /\ image' = [image EXCEPT ![OtherSlot] = "none"]
  /\ UNCHANGED <<works, bootSlot, running, stage, mode, network, link, events, dispatch,
                 s_sta_got_ip, watchdog, outages>>

(* Refused, or it fails on the way.                                        *)
UpdateFails ==
  /\ update \in {"pulling", "writing"} /\ update' = "none" /\ Shows("connected")
  /\ UNCHANGED <<flash, stage, mode, network, link, events, dispatch, s_sta_got_ip, watchdog,
                 bounds>>

UpdateDone ==
  /\ update = "writing" /\ update' = "reboot"
  /\ image' = [image EXCEPT ![OtherSlot] = "new"] /\ bootSlot' = OtherSlot
  /\ \E w \in BOOLEAN : works' = [works EXCEPT ![OtherSlot] = w]
  /\ UNCHANGED <<running, stage, mode, network, link, events, dispatch, s_sta_got_ip, led,
                 watchdog, bounds>>

UpdateReboots == update = "reboot" /\ Restart /\ UNCHANGED bounds

Update == PullBegins \/ UpdateBegins \/ UpdateFails \/ UpdateDone \/ UpdateReboots

AppMain == Boot \/ WifiStart \/ ScanDone \/ RollbackCheck \/ Register

Next ==
  \/ AppMain \/ EventTask \/ RollbackTimer
  \/ NetworkFlips \/ Joins \/ Drops
  \/ Update \/ Outage \/ Panic

Spec == Init /\ [][Next]_vars

(* The tasks run, the timer expires, and the driver reports how every      *)
(* attempt to connect ends.                                                *)
FairSpec ==
  /\ Spec
  /\ WF_vars(AppMain) /\ WF_vars(EventTask) /\ WF_vars(RollbackTimer)
  /\ WF_vars(Joins \/ Drops) /\ WF_vars(UpdateReboots)

-----------------------------------------------------------------------------
(* Properties. *)

(* The types of the variables.                                             *)
TypeOK ==
  /\ image \in [Slots -> {"none", "new", "pending", "valid", "aborted"}]
  /\ works \in [Slots -> BOOLEAN] /\ bootSlot \in Slots /\ running \in Slots
  /\ stage \in {"off", "wifi", "scan", "rollback", "register", "loop"}
  /\ mode \in {"off", "STA", "AP"} /\ network \in BOOLEAN
  /\ link \in {"off", "idle", "connecting", "ip"} /\ Len(events) <= 2
  /\ events \in Seq({"STA_START", "AP_START", "DISCONNECTED", "GOT_IP"})
  /\ dispatch \in {"none", "confirm", "stop timer"}
  /\ s_sta_got_ip \in BOOLEAN
  /\ led \in {"off", "ap", "connecting", "connected", "lost", "update"}
  /\ timer \in {"none", "armed"} /\ watched \in BOOLEAN
  /\ update \in {"none", "pulling", "writing", "reboot"}
  /\ updates \in 0 .. MaxUpdates /\ outages \in 0 .. MaxOutages

(* README, "Rollback": "the previous working firmware" is there to go back *)
(* to as long as an image is on trial: no update overwrites it.            *)
FallbackKept ==
  \A s \in Slots : image[s] = "pending" => image[1 - s] = "valid" /\ works[1 - s]

(* sdkconfig.defaults: an image that cannot join the network is never      *)
(* committed, however the events and the start-up interleave.              *)
OnlyWorkingConfirmed == \A s \in Slots : image[s] = "valid" => works[s]

(* The watchdog restarts nothing that was confirmed, unless it expires     *)
(* inside on_got_ip, before the timer is stopped.                          *)
ConfirmedNotRestarted ==
  [][RollbackTimer => Pending \/ dispatch = "stop timer"]_vars

(* Every image on trial in station mode is confirmed or given up, but for  *)
(* one whose marking failed unnoticed: the timer is stopped all the same,  *)
(* so the trial goes on until the next address or restart.                 *)
Unmarked == Pending /\ watched /\ timer = "none"
TrialEnds == (Pending /\ mode = "STA") ~> (image[running] = "valid" \/ mode # "STA" \/ Unmarked)

(* wifi.h: "auto-reconnect on disconnect".  A station in reach of its      *)
(* network ends up on it and stays, after any bad update.                  *)
EndsOnline == <>[](network /\ mode \in {"off", "STA"}) => <>[]s_sta_got_ip

(* A failed update turns the LED green whatever Wi-Fi does (ota.c); the    *)
(* next failed attempt to reconnect corrects it.                           *)
LedHeals == <>[](~network /\ mode = "STA") => <>[](led # "connected")

(* README, "Rollback": the device goes back only if the new firmware       *)
(* "fails to get an IP address within 120 seconds".                        *)
RollbackMeansNoIp == [][RollbackTimer => ~s_sta_got_ip \/ ~Pending]_vars
==============================================================================
