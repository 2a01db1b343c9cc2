------------------------------ MODULE OtaProofs ------------------------------
(***************************************************************************)
(* What TLAPS proves of Ota, for any number of tasks, redirects and        *)
(* buffers and any configuration.                                          *)
(***************************************************************************)
EXTENDS Ota, Integers, Sequences, TLAPS

USE DEF Actors, Writers, Starters

(* What the provers need to know of the counters' ranges. *)
LEMMA Ranges ==
  /\ 0 \in 0 .. MaxOpens /\ 0 \in 0 .. Chunks
  /\ \A n \in 0 .. MaxOpens : n < MaxOpens => n + 1 \in 0 .. MaxOpens
  /\ \A n \in 0 .. Chunks : n < Chunks => n + 1 \in 0 .. Chunks
  /\ (Interval > 0) \in BOOLEAN
<1> QED
  BY OtaAssumption

LEMMA InitTypes == Init => TypeOK
<1> SUFFICES ASSUME Init PROVE TypeOK
  OBVIOUS
<1>1. opens \in [Tasks -> 0 .. MaxOpens] /\ written \in [Writers -> 0 .. Chunks]
  BY OtaAssumption DEF Init
<1>2. armed \in BOOLEAN /\ auto_check \in BOOLEAN
  BY OtaAssumption DEF Init
<1> QED
  BY <1>1, <1>2 DEF Init, TypeOK, States, Reporters, Places, Unfinished

LEMMA TypesStep == TypeOK /\ [Next]_vars => TypeOK'
<1> SUFFICES ASSUME TypeOK, [Next]_vars PROVE TypeOK'
  OBVIOUS
<1> USE DEF TypeOK, Places, Unfinished, States, Goes, At
<1>1. ASSUME NEW what \in {"check", "install"}, Request(what) PROVE TypeOK'
  BY <1>1 DEF Request, reported, flash
<1>2. CASE TimerBusy
  <2>1. armed' \in BOOLEAN
    BY <1>2, Ranges, Zenon DEF TimerBusy, BusyReschedules, Rescheduled
  <2> QED
    BY <1>2, <2>1 DEF TimerBusy, reported, flash
<1>3. CASE TimerFires
  BY <1>3 DEF TimerFires, reported, flash
<1>4. ASSUME NEW a \in Starters, Claim(a) PROVE TypeOK'
  BY <1>4 DEF Claim, Claimed, reported, flash
<1>5. ASSUME NEW a \in Starters, Create(a) PROVE TypeOK'
  <2>1. armed' \in BOOLEAN
    BY <1>5, Ranges, Zenon DEF Create, Rescheduled
  <2>2. /\ s_ota_in_progress' \in BOOLEAN
        /\ UNCHANGED <<reported, flash, reboot_due, auto_check>>
    BY <1>5 DEF Create, CreateFailure
  <2>3. pc' \in [Actors -> Places] /\ job' \in [Actors -> {"check", "install"}]
    BY <1>5 DEF Create
  <2> QED
    BY <2>1, <2>2, <2>3 DEF reported, flash
<1>6. ASSUME NEW t \in Tasks, TaskStep(t) PROVE TypeOK'
  <2>1. CASE StartTask(t)
    BY <2>1 DEF StartTask, Enters, flash, Reporters
  <2>2. CASE QueryDone(t)
    BY <2>2 DEF QueryDone, Enters, flash, Reporters
  <2>3. CASE QueryNewer(t)
    <3>1. opens' \in [Tasks -> 0 .. MaxOpens]
      BY <2>3, Ranges, Zenon DEF QueryNewer
    <3> QED
      BY <2>3, <3>1 DEF QueryNewer, Enters, flash, Reporters
  <2>4. CASE Open(t)
    <3>1. opens' \in [Tasks -> 0 .. MaxOpens]
      BY <2>4, Ranges, Zenon DEF Open, MayOpen
    <3>2. /\ pc' \in [Actors -> Places]
          /\ connected' \in [Tasks -> BOOLEAN]
      BY <2>4 DEF Open
    <3>3. UNCHANGED <<auto_check, s_state, last_error, report, reporter, s_ota_in_progress,
                      armed, job, written, spoiled, slot, boot_next, reboot_due>>
      BY <2>4 DEF Open, reported
    <3> QED
      BY <3>1, <3>2, <3>3
  <2>5. CASE OutOfOpens(t)
    BY <2>5 DEF OutOfOpens, reported, flash
  <2>6. CASE Exit(t)
    <3>1. opens' \in [Tasks -> 0 .. MaxOpens]
      BY <2>6, Ranges, Zenon DEF Exit
    <3> QED
      BY <2>6, <3>1 DEF Exit, Released, reported
  <2> QED
    BY <1>6, <2>1, <2>2, <2>3, <2>4, <2>5, <2>6 DEF TaskStep
<1>7. ASSUME NEW w \in Writers, FlashStep(w) PROVE TypeOK'
  <2>1. CASE Begin(w)
    <3>1. written' \in [Writers -> 0 .. Chunks]
      BY <2>1, Ranges, Zenon DEF Begin
    <3> QED
      BY <2>1, <3>1 DEF Begin, reported
  <2>2. CASE Write(w)
    <3>1. written' \in [Writers -> 0 .. Chunks]
      BY <2>2, Ranges, Zenon DEF Write
    <3>2. spoiled' \in [Writers -> BOOLEAN]
      BY <2>2 DEF Write, SameImage
    <3> QED
      BY <2>2, <3>1, <3>2 DEF Write, reported
  <2>3. CASE Received(w)
    BY <2>3 DEF Received, reported, flash
  <2>4. CASE End(w)
    <3>1. written' \in [Writers -> 0 .. Chunks] /\ spoiled' \in [Writers -> BOOLEAN]
      BY <2>4, Ranges, Zenon DEF End, Closes
    <3> QED
      BY <2>4, <3>1 DEF End, reported
  <2>5. CASE SetBoot(w)
    BY <2>5 DEF SetBoot, reported
  <2>6. CASE Fail(w)
    <3>1. written' \in [Writers -> 0 .. Chunks] /\ spoiled' \in [Writers -> BOOLEAN]
      BY <2>6, Ranges, Zenon DEF Fail, Closes
    <3>2. pc' \in [Actors -> Places]
      BY <2>6 DEF Fail
    <3> QED
      BY <2>6, <3>1, <3>2 DEF Fail, Failure, Fails, Reporters
  <2> QED
    BY <1>7, <2>1, <2>2, <2>3, <2>4, <2>5, <2>6 DEF FlashStep
<1>8. ASSUME NEW w \in Writers, Reports(w) PROVE TypeOK'
  BY <1>8 DEF Reports, StoresError, flash
<1>9. CASE Push
  BY <1>9 DEF Push, Enters, flash, Reporters
<1>10. CASE PushReboot
  BY <1>10 DEF PushReboot, flash, Reporters
<1>11. CASE RebootRequest
  BY <1>11 DEF RebootRequest, reported, flash
<1>12. CASE Reset
  <2>1. opens' \in [Tasks -> 0 .. MaxOpens] /\ written' \in [Writers -> 0 .. Chunks]
    BY <1>12, Ranges, Zenon DEF Reset
  <2>2. armed' \in BOOLEAN
    BY <1>12, OtaAssumption DEF Reset
  <2>3. pc' \in [Actors -> Places]
    BY <1>12 DEF Reset
  <2>4. job' \in [Actors -> {"check", "install"}]
    BY <1>12 DEF Reset
  <2>5. slot' \in {"old", "partial", "whole"}
    BY <1>12 DEF Reset
  <2>6. /\ s_state' \in States
        /\ report' \in [Writers -> {"done", "clear", "set"}]
        /\ connected' \in [Tasks -> BOOLEAN] /\ spoiled' \in [Writers -> BOOLEAN]
    BY <1>12 DEF Reset
  <2> QED
    BY <1>12, <2>1, <2>2, <2>3, <2>4, <2>5, <2>6 DEF Reset, Reporters
<1>13. CASE UNCHANGED vars
  BY <1>13 DEF vars, reported, flash
<1> QED
  BY <1>1, <1>2, <1>3, <1>4, <1>5, <1>6, <1>7, <1>8, <1>9, <1>10, <1>11,
     <1>12, <1>13 DEF Next

(* Every variable has its type, whatever the configuration.                *)
THEOREM TypeCorrect == Spec => []TypeOK
<1> QED
  BY InitTypes, TypesStep, PTL DEF Spec

-----------------------------------------------------------------------------
(* What each step does to the places of the actors. *)

LEMMA BackedStep == TypeOK /\ FlagBacked /\ [Next]_vars => FlagBacked'
<1> SUFFICES ASSUME TypeOK, FlagBacked, [Next]_vars PROVE FlagBacked'
  OBVIOUS
<1> USE DEF FlagBacked, Live, Goes, At, TypeOK
<1>1. ASSUME UNCHANGED <<pc, s_ota_in_progress>> PROVE FlagBacked'
  BY <1>1
<1>2. ASSUME NEW what \in {"check", "install"}, Request(what) PROVE FlagBacked'
  BY <1>2 DEF Request
<1>3. CASE TimerFires
  BY <1>3 DEF TimerFires
<1>4. ASSUME NEW a \in Starters, Claim(a) PROVE FlagBacked'
  BY <1>4 DEF Claim
<1>5. ASSUME NEW a \in Starters, Create(a) PROVE FlagBacked'
  <2>1. CASE s_ota_in_progress' = FALSE
    BY <2>1
  <2>2. ASSUME NEW t \in Tasks \ Live,
               pc' = [pc EXCEPT ![a] = "idle", ![t] = "start"] PROVE FlagBacked'
    <3>1. pc'[t] = "start"
      BY <2>2
    <3> QED
      BY <3>1
  <2> QED
    BY <1>5, <2>1, <2>2 DEF Create, CreateFailure
<1>6. ASSUME NEW t \in Tasks, TaskStep(t) PROVE FlagBacked'
  <2>1. CASE Exit(t)
    BY <2>1 DEF Exit, Released
  <2>2. CASE ~Exit(t)
    <3>1. /\ UNCHANGED s_ota_in_progress
          /\ pc[t] # "none" /\ pc'[t] # "none"
          /\ \A a \in Starters : pc'[a] = pc[a]
      BY <1>6, <2>2, OtaAssumption
         DEF TaskStep, StartTask, QueryDone, QueryNewer, Open, OutOfOpens
    <3> QED
      BY <3>1
  <2> QED
    BY <2>1, <2>2
<1>7. ASSUME NEW w \in Writers, FlashStep(w) PROVE FlagBacked'
  <2>1. /\ UNCHANGED s_ota_in_progress
        /\ w \in Tasks => pc'[w] # "none"
        /\ \A a \in Actors : a # w => pc'[a] = pc[a]
        /\ pc[w] # "create"
    BY <1>7, OtaAssumption
       DEF FlashStep, Begin, Write, Received, End, SetBoot, Fail, Unfinished
  <2> QED
    BY <2>1
<1>8. CASE Push
  BY <1>8 DEF Push
<1>9. CASE PushReboot
  BY <1>9 DEF PushReboot
<1>10. CASE Reset
  BY <1>10 DEF Reset
<1> QED
  BY <1>1, <1>2, <1>3, <1>4, <1>5, <1>6, <1>7, <1>8, <1>9, <1>10
     DEF Next, TimerBusy, Reports, RebootRequest, vars

(* The flag is never stranded, even when two starters pass its test.       *)
THEOREM FlagIsBacked == Spec => []FlagBacked
<1>1. Init => FlagBacked
  BY DEF Init, FlagBacked
<1> QED
  BY <1>1, BackedStep, TypeCorrect, PTL DEF Spec

-----------------------------------------------------------------------------
(* A busy state is the latest store of its reporter, who has another one   *)
(* to make, or a reboot.                                                   *)

LEMMA BusyStep == TypeOK /\ NeverStuckBusy /\ [Next]_vars => NeverStuckBusy'
<1> SUFFICES ASSUME TypeOK, NeverStuckBusy, [Next]_vars PROVE NeverStuckBusy'
  OBVIOUS
<1> USE DEF NeverStuckBusy, Goes, At, TypeOK, Unfinished
<1>1. ASSUME UNCHANGED <<pc, s_state, reporter, reboot_due>> PROVE NeverStuckBusy'
  BY <1>1
(* A step of somebody else, or one on the reporter's way. *)
<1>2. ASSUME UNCHANGED <<s_state, reporter, reboot_due>>,
             \A w \in Writers : pc[w] \in Unfinished \union {"reboot"} =>
                                 pc'[w] \in Unfinished \union {"reboot"}
      PROVE NeverStuckBusy'
  BY <1>2
<1>3. ASSUME NEW what \in {"check", "install"}, Request(what) PROVE NeverStuckBusy'
  BY <1>2, <1>3 DEF Request, reported
<1>4. CASE TimerFires
  BY <1>2, <1>4, OtaAssumption DEF TimerFires, reported
<1>5. ASSUME NEW a \in Starters, Claim(a) PROVE NeverStuckBusy'
  BY <1>2, <1>5 DEF Claim, reported
<1>6. ASSUME NEW a \in Starters, Create(a) PROVE NeverStuckBusy'
  BY <1>2, <1>6 DEF Create, Live, reported
<1>7. ASSUME NEW t \in Tasks, TaskStep(t) PROVE NeverStuckBusy'
  <2>1. CASE StartTask(t)
    BY <2>1 DEF StartTask, Enters
  <2>2. CASE QueryDone(t)
    BY <2>2 DEF QueryDone, Enters, Busy
  <2>3. CASE QueryNewer(t)
    BY <2>3 DEF QueryNewer, Enters
  <2>4. CASE Open(t)
    BY <1>2, <2>4 DEF Open, reported
  <2>5. CASE OutOfOpens(t)
    BY <1>2, <2>5 DEF OutOfOpens, reported
  <2>6. CASE Exit(t)
    BY <1>2, <2>6 DEF Exit, reported
  <2> QED
    BY <1>7, <2>1, <2>2, <2>3, <2>4, <2>5, <2>6 DEF TaskStep
<1>8. ASSUME NEW w \in Writers, FlashStep(w) PROVE NeverStuckBusy'
  <2>1. CASE Fail(w)
    BY <2>1 DEF Fail, Failure, Fails, Busy
  <2>2. CASE SetBoot(w) \/ Begin(w) \/ Write(w) \/ Received(w) \/ End(w)
    <3>1. /\ pc'[w] \in Unfinished \union {"reboot"}
          /\ \A v \in Writers : v # w => pc'[v] = pc[v]
      BY <2>2 DEF SetBoot, Begin, Write, Received, End
    <3>2. UNCHANGED <<s_state, reporter, reboot_due>>
      BY <2>2 DEF SetBoot, Begin, Write, Received, End, reported
    <3> QED
      BY <1>2, <3>1, <3>2
  <2> QED
    BY <1>8, <2>1, <2>2 DEF FlashStep
<1>9. CASE Push
  BY <1>9 DEF Push, Enters
<1>10. CASE PushReboot
  <2>0. reboot_due => reboot_due'
    BY <1>10, Zenon DEF PushReboot
  <2>1. CASE reboot_due'
    BY <2>1
  <2>2. CASE reporter = "httpd" /\ ~reboot_due'
    <3>1. reporter' = "no reboot"
      BY <1>10, <2>2 DEF PushReboot
    <3> QED
      BY <3>1
  <2>3. CASE reporter # "httpd" /\ ~reboot_due'
    <3>1. UNCHANGED <<s_state, reporter>>
      BY <1>10, <2>3, Zenon DEF PushReboot
    <3>2. \A w \in Tasks : pc'[w] = pc[w]
      BY <1>10, OtaAssumption DEF PushReboot
    <3> QED
      BY <2>0, <2>3, <3>1, <3>2
  <2> QED
    BY <2>1, <2>2, <2>3
<1>11. CASE Reset
  BY <1>11 DEF Reset, Busy
<1>12. ASSUME NEW w \in Writers, Reports(w) PROVE NeverStuckBusy'
  BY <1>1, <1>12 DEF Reports
<1>13. CASE RebootRequest
  <2>1. UNCHANGED <<pc, s_state, reporter>>
    BY <1>13 DEF RebootRequest, reported
  <2>2. reboot_due => reboot_due'
    BY <1>13, Zenon DEF RebootRequest
  <2> QED
    BY <2>1, <2>2
<1> QED
  BY <1>1, <1>3, <1>4, <1>5, <1>6, <1>7, <1>8, <1>9, <1>10, <1>11, <1>12, <1>13
     DEF Next, TimerBusy, reported, vars

(* The reported state is busy only while its reporter has something to     *)
(* report, or a reboot is due, unless the reboot of a push could not be    *)
(* created (ota_enter_state, ota_fail, ota_push_from_http).                *)
THEOREM BusyIsTrue == Spec => []NeverStuckBusy
<1>1. Init => NeverStuckBusy
  BY DEF Init, NeverStuckBusy, Busy
<1> QED
  BY <1>1, BusyStep, TypeCorrect, PTL DEF Spec

-----------------------------------------------------------------------------
(* The setting lives in NVS and no step changes it. *)
LEMMA SettingKept == [Next]_vars => auto_check' = auto_check
<1> QED
  BY DEF Next, vars, Request, TimerBusy, TimerFires, Claim, Create, TaskStep,
         StartTask, QueryDone, QueryNewer, Open, OutOfOpens, Exit, FlashStep,
         Begin, Write, Received, End, SetBoot, Fail, Reports, Push, PushReboot,
         RebootRequest, Reset

LEMMA TimerStep == TypeOK /\ TimerAlive /\ [Next]_vars => TimerAlive'
<1> SUFFICES ASSUME TypeOK, TimerAlive, [Next]_vars, auto_check', Interval > 0
             PROVE armed' \/ pc'["timer"] # "idle"
  BY DEF TimerAlive
<1>1. armed \/ pc["timer"] # "idle"
  BY SettingKept DEF TimerAlive
<1> USE DEF Goes, At, TypeOK
<1>2. ASSUME Rescheduled PROVE armed'
  BY <1>2 DEF Rescheduled
<1>3. ASSUME UNCHANGED armed, pc'["timer"] = pc["timer"]
      PROVE armed' \/ pc'["timer"] # "idle"
  BY <1>1, <1>3
<1>4. CASE TimerBusy
  BY <1>2, <1>4 DEF TimerBusy, BusyReschedules
<1>5. CASE TimerFires
  BY <1>5 DEF TimerFires
<1>6. ASSUME NEW a \in Starters, Claim(a) PROVE armed' \/ pc'["timer"] # "idle"
  BY <1>1, <1>6 DEF Claim
<1>7. ASSUME NEW a \in Starters, Create(a) PROVE armed' \/ pc'["timer"] # "idle"
  <2>1. CASE a = "timer"
    BY <1>2, <1>7, <2>1 DEF Create
  <2>2. CASE a = "httpd"
    <3>1. UNCHANGED armed /\ pc'["timer"] = pc["timer"]
      BY <1>7, <2>2, OtaAssumption DEF Create
    <3> QED
      BY <1>3, <3>1
  <2> QED
    BY <2>1, <2>2
<1>8. ASSUME NEW t \in Tasks, TaskStep(t) PROVE armed' \/ pc'["timer"] # "idle"
  BY <1>3, <1>8, OtaAssumption
     DEF TaskStep, StartTask, QueryDone, QueryNewer, Open, OutOfOpens, Exit
<1>9. ASSUME NEW w \in Writers, FlashStep(w) PROVE armed' \/ pc'["timer"] # "idle"
  BY <1>3, <1>9, OtaAssumption
     DEF FlashStep, Begin, Write, Received, End, SetBoot, Fail
<1>10. CASE Reset
  <2>1. armed' = auto_check /\ auto_check
    BY <1>10, SettingKept DEF Reset
  <2> QED
    BY <2>1
<1> QED
  BY <1>3, <1>4, <1>5, <1>6, <1>7, <1>8, <1>9, <1>10
     DEF Next, Request, Push, PushReboot, Reports, RebootRequest, vars

(* The periodic check is always scheduled or on its way.                   *)
THEOREM TimerNeverDies == Spec => []TimerAlive
<1>1. Init => TimerAlive
  BY DEF Init, TimerAlive
<1> QED
  BY <1>1, TimerStep, TypeCorrect, PTL DEF Spec

-----------------------------------------------------------------------------
(* Without the check timer there is one starter, and its test is enough.   *)

Alone ==
  /\ armed = FALSE /\ pc["timer"] = "idle"
  /\ (Live # {} \/ pc["httpd"] = "create") => s_ota_in_progress
  /\ pc["httpd"] \in {"claim", "create"} => Live = {}
  /\ OneTask

LEMMA AloneStep ==
  TypeOK /\ ~auto_check /\ Alone /\ [Next]_vars => Alone'
<1> SUFFICES ASSUME TypeOK, ~auto_check, Alone, [Next]_vars PROVE Alone'
  OBVIOUS
<1> USE DEF Alone, OneTask, Live, Goes, At, TypeOK
<1>1. ASSUME UNCHANGED <<pc, s_ota_in_progress, armed>> PROVE Alone'
  BY <1>1
<1>2. ASSUME NEW what \in {"check", "install"}, Request(what) PROVE Alone'
  BY <1>2, OtaAssumption DEF Request, NotBusy
<1>3. ASSUME NEW a \in Starters, Claim(a) PROVE Alone'
  BY <1>3, OtaAssumption DEF Claim, Claimed
<1>4. ASSUME NEW a \in Starters, Create(a) PROVE Alone'
  <2>1. a = "httpd" /\ Live = {} /\ UNCHANGED armed
    BY <1>4 DEF Create
  <2>2. CASE Goes("httpd", "idle")
    BY <2>1, <2>2, OtaAssumption
  <2>3. ASSUME NEW t \in Tasks, UNCHANGED s_ota_in_progress,
               pc' = [pc EXCEPT !["httpd"] = "idle", ![t] = "start"] PROVE Alone'
    <3>1. s_ota_in_progress
      BY <1>4, <2>1 DEF Create
    <3> QED
      BY <2>1, <2>3, <3>1, OtaAssumption
  <2> QED
    BY <1>4, <2>1, <2>2, <2>3 DEF Create
<1>5. ASSUME NEW t \in Tasks, TaskStep(t) PROVE Alone'
  <2>1. CASE Exit(t)
    BY <2>1, OtaAssumption DEF Exit, reported
  <2>2. CASE ~Exit(t)
    <3>1. /\ UNCHANGED <<s_ota_in_progress, armed>>
          /\ pc[t] # "none" /\ pc'[t] # "none"
          /\ \A a \in Actors \ {t} : pc'[a] = pc[a]
      BY <1>5, <2>2
         DEF TaskStep, StartTask, QueryDone, QueryNewer, Open, OutOfOpens
    <3> QED
      BY <3>1, OtaAssumption
  <2> QED
    BY <2>1, <2>2
<1>6. ASSUME NEW w \in Writers, FlashStep(w) PROVE Alone'
  <2>1. /\ UNCHANGED <<s_ota_in_progress, armed>>
        /\ pc[w] # "none" /\ pc'[w] \notin {"none", "claim", "create"}
        /\ \A a \in Actors \ {w} : pc'[a] = pc[a]
    BY <1>6, OtaAssumption
       DEF FlashStep, Begin, Write, Received, End, SetBoot, Fail, Unfinished
  <2> QED
    BY <2>1, OtaAssumption
<1>7. CASE Push
  BY <1>7, OtaAssumption DEF Push
<1>8. CASE PushReboot
  BY <1>8, OtaAssumption DEF PushReboot
<1>9. CASE Reset
  BY <1>9, OtaAssumption DEF Reset
<1>10. ASSUME NEW w \in Writers, Reports(w) PROVE Alone'
  BY <1>1, <1>10 DEF Reports
<1> QED
  BY <1>1, <1>2, <1>3, <1>4, <1>5, <1>6, <1>7, <1>8, <1>9, <1>10
     DEF Next, TimerBusy, TimerFires, RebootRequest, vars

(* The guard of ota_check_now and ota_pull_now does what their comments    *)
(* say as long as the timer does not start checks too.                     *)
THEOREM RequestsStartOneTask == Spec => []OneStarterOneTask
<1> DEFINE Inv == ~auto_check => Alone
<1>1. Init => Inv
  BY OtaAssumption DEF Init, Alone, Live, OneTask
<1>2. TypeOK /\ Inv /\ [Next]_vars => Inv'
  BY AloneStep, SettingKept
<1>3. Inv => OneStarterOneTask
  BY DEF Alone, OneStarterOneTask
<1> QED
  BY <1>1, <1>2, <1>3, TypeCorrect, PTL DEF Spec

-----------------------------------------------------------------------------
(* Operations that do not overlap: the HTTP server only starts tasks, the  *)
(* one task reports both of its stores before it goes on, and once it has  *)
(* set the boot choice it waits for the reset.                             *)

HttpdOnlyStarts ==
  pc["httpd"] \in {"idle", "claim", "create"} /\ report["httpd"] = "done"

ReportsInTurn ==
  /\ \A t \in Tasks : pc[t] = "none" => report[t] = "done"
  /\ \A t \in Tasks : /\ report[t] = "clear" => s_state # "FAILED"
                      /\ report[t] = "set" => s_state = "FAILED"
  /\ (\A t \in Tasks : report[t] = "done") => (s_state = "FAILED" <=> last_error)

WaitsForReset ==
  boot_next => slot = "whole" /\ \E t \in Tasks : pc[t] = "reboot"

Orderly == HttpdOnlyStarts /\ ReportsInTurn /\ WaitsForReset

(* A step that leaves what is reported and flashed alone, and the tasks    *)
(* that there are where they were.                                         *)
LEMMA OrderlyStays ==
  ASSUME TypeOK, Orderly, UNCHANGED <<reported, slot, boot_next>>,
         \A t \in Tasks : pc[t] # "none" => pc'[t] = pc[t],
         pc'["httpd"] \in {"idle", "claim", "create"}
  PROVE  Orderly'
<1>1. HttpdOnlyStarts' /\ WaitsForReset'
  BY DEF Orderly, HttpdOnlyStarts, WaitsForReset, reported
<1>2. ReportsInTurn'
  BY DEF Orderly, ReportsInTurn, reported
<1> QED
  BY <1>1, <1>2 DEF Orderly

(* A store of the one task, or a step of it that reports nothing. *)
LEMMA TaskReports ==
  ASSUME TypeOK, Alone, Orderly, NEW t \in Tasks, pc[t] # "none", report[t] = "done",
         \/ (\E s \in States \ {"FAILED"} : Enters(t, s)) \/ Fails(t)
         \/ UNCHANGED reported,
         \A a \in Actors \ {t} : pc'[a] = pc[a],
         pc'[t] = "none" => UNCHANGED reported
  PROVE  HttpdOnlyStarts' /\ ReportsInTurn'
<1> USE DEF Orderly, HttpdOnlyStarts, ReportsInTurn, TypeOK
<1>1. \A u \in Tasks \ {t} : pc[u] = "none" /\ report[u] = "done"
  BY DEF Alone, OneTask, Live
<1>2. CASE UNCHANGED reported
  BY <1>1, <1>2, OtaAssumption DEF reported
<1>3. ASSUME NEW s \in States \ {"FAILED"}, Enters(t, s)
      PROVE  HttpdOnlyStarts' /\ ReportsInTurn'
  BY <1>1, <1>3, OtaAssumption DEF Enters, reported
<1>4. CASE Fails(t)
  BY <1>1, <1>4, OtaAssumption DEF Fails, reported
<1> QED
  BY <1>2, <1>3, <1>4

LEMMA OrderlyStep ==
  TypeOK /\ Undisturbed /\ Alone /\ Orderly /\ [Next]_vars => Orderly'
<1> SUFFICES ASSUME TypeOK, Undisturbed, Alone, Orderly, [Next]_vars PROVE Orderly'
  OBVIOUS
<1>1. ~Pushes /\ HttpdOnlyStarts
  BY DEF Undisturbed, Orderly
<1>2. ASSUME UNCHANGED <<pc, reported, slot, boot_next>> PROVE Orderly'
  BY <1>1, <1>2, OrderlyStays DEF HttpdOnlyStarts
<1>3. ASSUME NEW what \in {"check", "install"}, Request(what) PROVE Orderly'
  BY <1>1, <1>3, OrderlyStays, OtaAssumption DEF Request, Goes, TypeOK, flash
<1>4. ASSUME NEW a \in Starters, Claim(a) PROVE Orderly'
  BY <1>1, <1>4, OrderlyStays, OtaAssumption DEF Claim, At, Goes, TypeOK, flash, HttpdOnlyStarts
<1>5. ASSUME NEW a \in Starters, Create(a) PROVE Orderly'
  BY <1>1, <1>5, OrderlyStays, OtaAssumption
     DEF Create, At, Goes, TypeOK, flash, Live, HttpdOnlyStarts
<1>6. ASSUME NEW t \in Tasks, TaskStep(t) PROVE Orderly'
  <2>1. /\ pc[t] \notin {"none", "reboot"} /\ report[t] = "done"
        /\ UNCHANGED <<slot, boot_next>>
        /\ \A a \in Actors \ {t} : pc'[a] = pc[a]
        /\ \/ \E s \in States \ {"FAILED"} : Enters(t, s)
           \/ UNCHANGED reported
        /\ pc'[t] = "none" => UNCHANGED reported
    BY <1>6
       DEF TaskStep, StartTask, QueryDone, QueryNewer, Open, OutOfOpens, Exit,
           At, Goes, TypeOK, flash, States
  <2>2. HttpdOnlyStarts' /\ ReportsInTurn'
    BY <2>1, TaskReports
  <2>3. WaitsForReset'
    BY <2>1 DEF Orderly, WaitsForReset
  <2> QED
    BY <2>2, <2>3 DEF Orderly
<1>7. ASSUME NEW w \in Writers, FlashStep(w) PROVE Orderly'
  <2>1. w \in Tasks /\ pc[w] \notin {"none", "reboot"}
    BY <1>1, <1>7
       DEF FlashStep, Begin, Write, Received, End, SetBoot, Fail, Unfinished, At,
           HttpdOnlyStarts
  <2>2. /\ report[w] = "done" /\ pc'[w] # "none"
        /\ \A a \in Actors \ {w} : pc'[a] = pc[a]
        /\ Fails(w) \/ UNCHANGED reported
    BY <1>7, <2>1
       DEF FlashStep, Begin, Write, Received, End, SetBoot, Fail, Failure, Unfinished,
           At, Goes, TypeOK
  <2>3. HttpdOnlyStarts' /\ ReportsInTurn'
    BY <2>1, <2>2, TaskReports
  <2>4. WaitsForReset'
    <3>1. ~boot_next
      BY <2>1 DEF Orderly, WaitsForReset, Alone, OneTask, Live
    <3>2. boot_next' => SetBoot(w)
      BY <1>7, <3>1 DEF FlashStep, Begin, Write, Received, End, Fail, flash
    <3>3. SetBoot(w) => slot' = "whole" /\ pc'[w] = "reboot"
      BY DEF SetBoot, Goes, TypeOK
    <3> QED
      BY <2>1, <3>2, <3>3 DEF WaitsForReset
  <2> QED
    BY <2>3, <2>4 DEF Orderly
<1>8. ASSUME NEW w \in Writers, Reports(w) PROVE Orderly'
  <2>1. /\ w \in Tasks /\ report[w] \in {"clear", "set"}
        /\ last_error' = (report[w] = "set") /\ report' = [report EXCEPT ![w] = "done"]
        /\ UNCHANGED <<s_state, pc, slot, boot_next>>
    BY <1>1, <1>8 DEF Reports, StoresError, flash, HttpdOnlyStarts, TypeOK
  <2>2. HttpdOnlyStarts' /\ WaitsForReset'
    BY <2>1, OtaAssumption DEF Orderly, HttpdOnlyStarts, WaitsForReset, TypeOK
  <2>3. \A u \in Tasks \ {w} : report[u] = "done"
    BY <2>1 DEF Orderly, ReportsInTurn, Alone, OneTask, Live
  <2>4. ReportsInTurn'
    BY <2>1, <2>3 DEF Orderly, ReportsInTurn, TypeOK
  <2> QED
    BY <2>2, <2>4 DEF Orderly
<1>9. CASE Push \/ PushReboot
  BY <1>1, <1>9 DEF Push, PushReboot, At, HttpdOnlyStarts
<1>10. CASE Reset
  BY <1>10, OtaAssumption
     DEF Reset, Orderly, HttpdOnlyStarts, ReportsInTurn, WaitsForReset
<1> QED
  BY <1>2, <1>3, <1>4, <1>5, <1>6, <1>7, <1>8, <1>9, <1>10
     DEF Next, TimerBusy, TimerFires, RebootRequest, Alone, vars, flash

LEMMA OrderlyHolds == Spec => [](Undisturbed => Orderly)
<1>1. Init => Orderly
  BY OtaAssumption DEF Init, Orderly, HttpdOnlyStarts, ReportsInTurn, WaitsForReset
<1>2. Init => (~auto_check => Alone)
  BY OtaAssumption DEF Init, Alone, Live, OneTask
<1>3. TypeOK /\ (~auto_check => Alone) /\ [Next]_vars => (~auto_check => Alone)'
  BY AloneStep, SettingKept
<1>4. /\ TypeOK /\ (~auto_check => Alone) /\ (Undisturbed => Orderly) /\ [Next]_vars
      => (Undisturbed => Orderly)'
  BY OrderlyStep, SettingKept DEF Undisturbed
<1> QED
  BY <1>1, <1>2, <1>3, <1>4, TypeCorrect, PTL DEF Spec

(* Between the reports of operations that do not overlap, the error        *)
(* message is there if and only if the state is FAILED (ota_fail,          *)
(* ota_enter_state).                                                       *)
THEOREM ErrorsAreReported == Spec => []FailedHasError
<1>1. (Undisturbed => Orderly) => FailedHasError
  BY DEF Orderly, ReportsInTurn, FailedHasError
<1> QED
  BY <1>1, OrderlyHolds, PTL

(* Nothing damages the image that is set to boot, if neither the timer nor *)
(* a push interferes: the flag that the task never clears keeps every      *)
(* request out until the reset.                                            *)
THEOREM InstalledImageKept == Spec => []InstallKept
<1>1. (Undisturbed => Orderly) => InstallKept
  BY DEF Orderly, WaitsForReset, InstallKept, SlotWhole
<1> QED
  BY <1>1, OrderlyHolds, PTL

-----------------------------------------------------------------------------
(* Which release is newer. *)

(* Digits below the base: the first that differs decides. *)
LEMMA FirstDigitDecides ==
  ASSUME NEW base \in Nat, NEW x \in Nat, NEW y \in Nat, x > y,
         NEW u \in Nat, NEW v \in Nat, u < base, v < base
  PROVE  x * base + u > y * base + v
<1>1. PICK k \in Nat : x = y + 1 + k
  <2>1. x - y - 1 \in Nat /\ x = y + 1 + (x - y - 1)
    OBVIOUS
  <2> QED
    BY <2>1
<1>2. x * base = y * base + base + k * base
  BY <1>1
<1>3. k * base \in Nat /\ y * base \in Nat
  OBVIOUS
<1> QED
  BY <1>2, <1>3

LEMMA RankDecides ==
  ASSUME NEW base \in Nat,
         NEW a1 \in Nat, NEW a2 \in Nat, NEW a3 \in Nat,
         NEW b1 \in Nat, NEW b2 \in Nat, NEW b3 \in Nat,
         a2 < base, a3 < base, b2 < base, b3 < base
  PROVE  (a1 * base + a2) * base + a3 > (b1 * base + b2) * base + b3 <=>
           \/ a1 > b1
           \/ a1 = b1 /\ a2 > b2
           \/ a1 = b1 /\ a2 = b2 /\ a3 > b3
<1> DEFINE a == a1 * base + a2
           b == b1 * base + b2
<1>1. a \in Nat /\ b \in Nat
  BY SMT
<1>2. /\ a1 > b1 => a > b
      /\ b1 > a1 => b > a
      /\ a1 = b1 => (a > b <=> a2 > b2) /\ (b > a <=> b2 > a2)
  <2>1. a1 > b1 => a > b
    BY FirstDigitDecides
  <2>2. b1 > a1 => b > a
    BY FirstDigitDecides
  <2>3. a1 = b1 => (a > b <=> a2 > b2) /\ (b > a <=> b2 > a2)
    <3>1. b1 * base \in Nat
      OBVIOUS
    <3> QED
      BY <3>1
  <2> QED
    BY <2>1, <2>2, <2>3
<1> HIDE DEF a, b
<1>3. /\ a > b => a * base + a3 > b * base + b3
      /\ b > a => b * base + b3 > a * base + a3
      /\ a = b => (a * base + a3 > b * base + b3 <=> a3 > b3)
  <2>1. a > b => a * base + a3 > b * base + b3
    BY <1>1, FirstDigitDecides
  <2>2. b > a => b * base + b3 > a * base + a3
    BY <1>1, FirstDigitDecides
  <2>3. a = b => (a * base + a3 > b * base + b3 <=> a3 > b3)
    <3>1. a * base \in Nat /\ b * base \in Nat
      BY <1>1
    <3> QED
      BY <3>1
  <2> QED
    BY <2>1, <2>2, <2>3
<1>4. a * base \in Nat /\ b * base \in Nat
  BY <1>1
<1>5. a * base + a3 > b * base + b3 <=> a > b \/ (a = b /\ a3 > b3)
  <2> DEFINE p == a * base + a3
             q == b * base + b3
  <2>1. p \in Nat /\ q \in Nat
    BY <1>4
  <2>2. (a > b => p > q) /\ (b > a => q > p) /\ (a = b => (p > q <=> a3 > b3))
    BY <1>3
  <2> HIDE DEF p, q
  <2>3. p > q <=> a > b \/ (a = b /\ a3 > b3)
    BY <1>1, <2>1, <2>2
  <2> QED
    BY <2>3 DEF p, q
<1>6. a = b <=> a1 = b1 /\ a2 = b2
  <2>1. a = b => ~(a > b) /\ ~(b > a)
    BY <1>1
  <2>2. a1 = b1 /\ a2 = b2 => a = b
    BY DEF a, b
  <2> QED
    BY <1>2, <2>1, <2>2
<1>7. a * base + a3 > b * base + b3 <=>
           \/ a1 > b1
           \/ a1 = b1 /\ a2 > b2
           \/ a1 = b1 /\ a2 = b2 /\ a3 > b3
  BY <1>1, <1>2, <1>5, <1>6
<1> QED
  BY <1>7 DEF a, b

LEMMA VersionsAreOrdered == \A top \in Nat : Releases!OrdersVersions(top)
<1> SUFFICES ASSUME NEW top \in Nat, NEW v \in Releases!Versions(top),
                    NEW w \in Releases!Versions(top)
             PROVE  Releases!semver_cmp(v, w) > 0 <=>
                      /\ Releases!Parses(v) /\ Releases!Parses(w)
                      /\ Releases!Rank(v, top) > Releases!Rank(w, top)
  BY DEF Releases!OrdersVersions
<1> DEFINE a == Releases!Parsed(v)
           b == Releases!Parsed(w)
           d == Releases!Differing(a, b)
           i == CHOOSE k \in d : \A j \in d : k <= j
           base == top + 1
<1>1. ASSUME NEW x \in Releases!Versions(top)
      PROVE  /\ Releases!Parsed(x)[1] \in 0 .. top
             /\ Releases!Parsed(x)[2] \in 0 .. top
             /\ Releases!Parsed(x)[3] \in 0 .. top
  <2>1. PICK k \in 0 .. 3 : x \in [1 .. k -> 0 .. top]
    BY DEF Releases!Versions
  <2>2. Len(x) = k
    BY <2>1
  <2>3. ASSUME NEW n \in 1 .. 3 PROVE Releases!Parsed(x)[n] \in 0 .. top
    BY <2>1, <2>2 DEF Releases!Parsed
  <2> QED
    BY <2>3
<1>2. /\ a[1] \in Nat /\ a[2] \in Nat /\ a[3] \in Nat /\ a[2] < base /\ a[3] < base
      /\ b[1] \in Nat /\ b[2] \in Nat /\ b[3] \in Nat /\ b[2] < base /\ b[3] < base
      /\ base \in Nat
  <2>1. a[1] \in 0 .. top /\ a[2] \in 0 .. top /\ a[3] \in 0 .. top
    BY <1>1
  <2>2. b[1] \in 0 .. top /\ b[2] \in 0 .. top /\ b[3] \in 0 .. top
    BY <1>1
  <2> HIDE DEF a, b
  <2> QED
    BY <2>1, <2>2
<1>3. Releases!Rank(v, top) > Releases!Rank(w, top) <=>
        \/ a[1] > b[1]
        \/ a[1] = b[1] /\ a[2] > b[2]
        \/ a[1] = b[1] /\ a[2] = b[2] /\ a[3] > b[3]
  <2>1. /\ Releases!Rank(v, top) = (a[1] * base + a[2]) * base + a[3]
        /\ Releases!Rank(w, top) = (b[1] * base + b[2]) * base + b[3]
    BY DEF Releases!Rank
  <2> HIDE DEF a, b, base
  <2>2. PICK a1 \in Nat, a2 \in Nat, a3 \in Nat, b1 \in Nat, b2 \in Nat, b3 \in Nat :
          /\ a1 = a[1] /\ a2 = a[2] /\ a3 = a[3]
          /\ b1 = b[1] /\ b2 = b[2] /\ b3 = b[3]
    BY <1>2
  <2>3. /\ base \in Nat /\ a2 < base /\ a3 < base /\ b2 < base /\ b3 < base
    BY <1>2, <2>2
  <2>4. (a1 * base + a2) * base + a3 > (b1 * base + b2) * base + b3 <=>
           \/ a1 > b1
           \/ a1 = b1 /\ a2 > b2
           \/ a1 = b1 /\ a2 = b2 /\ a3 > b3
    BY <2>3, RankDecides
  <2> QED
    BY <2>1, <2>2, <2>4
<1>4. Releases!semver_cmp(v, w) =
        IF ~Releases!Parses(v) \/ ~Releases!Parses(w) \/ d = {} THEN 0 ELSE a[i] - b[i]
  BY DEF Releases!semver_cmp
<1>5. /\ d = {n \in {1, 2, 3} : a[n] # b[n]}
      /\ d # {} => i = IF a[1] # b[1] THEN 1 ELSE IF a[2] # b[2] THEN 2 ELSE 3
  <2>1. d = {n \in 1 .. 3 : a[n] # b[n]}
    BY DEF Releases!Differing
  <2> HIDE DEF a, b, d
  <2>2. d = {n \in {1, 2, 3} : a[n] # b[n]}
    BY <2>1
  <2>3. CASE a[1] # b[1]
    <3>1. 1 \in d /\ \A j \in d : 1 <= j
      BY <2>2, <2>3
    <3>2. \A k \in d : (\A j \in d : k <= j) => k = 1
      BY <2>2, <3>1
    <3> QED
      BY <2>2, <2>3, <3>1, <3>2
  <2>4. CASE a[1] = b[1] /\ a[2] # b[2]
    <3>1. 2 \in d /\ \A j \in d : 2 <= j
      BY <2>2, <2>4
    <3>2. \A k \in d : (\A j \in d : k <= j) => k = 2
      BY <2>2, <3>1
    <3> QED
      BY <2>2, <2>4, <3>1, <3>2
  <2>5. CASE a[1] = b[1] /\ a[2] = b[2]
    <3>1. \A k \in d : k = 3
      BY <2>2, <2>5
    <3>2. d # {} => i = 3
      <4> HAVE d # {}
      <4>1. 3 \in d /\ \A j \in d : 3 <= j
        BY <3>1
      <4> QED
        BY <3>1, <4>1
    <3> QED
      BY <2>2, <2>5, <3>2
  <2> QED
    BY <2>3, <2>4, <2>5
<1> QED
  <2> HIDE DEF a, b, d, i, base
  <2>1. CASE d = {}
    BY <1>2, <1>3, <1>4, <1>5, <2>1
  <2>2. CASE d # {}
    BY <1>2, <1>3, <1>4, <1>5, <2>2
  <2> QED
    BY <2>1, <2>2

(* Versions of any numbers are compared by their parts from the left, and  *)
(* what cannot be read is never newer (semver_cmp).                        *)
THEOREM NewerIsByNumbers == Spec => []NewerByNumbers
<1>1. Releases!OrdersVersions(MaxPart)
  BY VersionsAreOrdered, OtaAssumption
<1>2. NewerByNumbers
  BY <1>1 DEF NewerByNumbers
<1> QED
  BY <1>2, PTL
=============================================================================
