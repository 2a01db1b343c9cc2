--------------------------------- MODULE Ota ---------------------------------
(***************************************************************************)
(* Firmware updates, main/ota.c: a check or pull asked for over HTTP, the  *)
(* periodic check timer, the one-shot tasks they create, an image pushed   *)
(* over HTTP, and the flash slot, the boot choice and the reported state   *)
(* they all share without a lock.  s_ota_in_progress is read and then set  *)
(* in two steps, and so are the state and its error message.               *)
(*                                                                         *)
(* The HTTP server's one task ("httpd") serves one request at a time.  Any *)
(* step of the server or of the network may fail.  A reset clears the RAM; *)
(* the slot survives it.                                                   *)
(***************************************************************************)
EXTENDS Naturals

CONSTANTS
  Tasks,        \* bound: the check tasks there is memory for at one time
  MaxOpens,     \* the tries of download_and_flash's redirect loop
  Chunks,       \* bound: the buffers a firmware image fills
  AutoChecks,   \* the settings of ota_auto_check to consider
  AutoInstall,  \* cfg.ota_auto_install # 0
  Interval,     \* cfg.ota_check_interval_s
  Pushes,       \* bound: whether clients also push images
  MaxPart       \* bound: the greatest part of a version's number

ASSUME OtaAssumption ==
  /\ MaxOpens \in Nat /\ Chunks \in Nat /\ Interval \in Nat /\ MaxPart \in Nat
  /\ AutoInstall \in BOOLEAN /\ Pushes \in BOOLEAN
  /\ \A b \in AutoChecks : b \in BOOLEAN
  /\ "httpd" \notin Tasks /\ "timer" \notin Tasks

VARIABLES
  auto_check,            \* cfg.ota_auto_check # 0, as stored in NVS
  s_state, last_error,   \* last_error: s_last_error is not empty
  s_ota_in_progress,
  armed,                 \* s_check_timer is running
  pc,                    \* where each actor is
  job,                   \* what the starter or the task is to do
  report,                \* an actor between the stores of s_state and s_last_error
  reporter,              \* history: who stored the busy state that s_state shows
  opens,                 \* a download: connections opened so far
  connected,             \* a download: the last one answered 200
  written,               \* a flash: buffers written since esp_ota_begin
  spoiled,               \* a flash: another image's data came in between
  slot,                  \* the update slot: "old", "partial" or a "whole" new image
  boot_next,             \* the slot is set to be booted next
  reboot_due             \* a delayed reboot task runs

Writers  == Tasks \union {"httpd"}
Starters == {"httpd", "timer"}
Actors   == Tasks \union Starters

flash    == <<opens, connected, written, spoiled, slot, boot_next>>
reported == <<s_state, last_error, report, reporter>>
vars == <<reported, s_ota_in_progress, armed, pc, job, flash, reboot_due,
          auto_check>>

Live == {t \in Tasks : pc[t] # "none"}

(* Where an actor still has a state to report before it is done. *)
Unfinished == {"query", "open", "begin", "write", "end", "set boot"}

Busy == {"CHECKING", "DOWNLOADING"}

-----------------------------------------------------------------------------
(* Defective variants. *)

CreateKeepsFlag == UNCHANGED s_ota_in_progress
BusyForgetsTimer == armed' = FALSE
NeverBusy == TRUE
QuietFailure(w) == UNCHANGED reported
ExitKeepsFlag == UNCHANGED s_ota_in_progress
ErrorKept(w) == last_error' = (last_error \/ report[w] = "set")
ClaimForgotten == UNCHANGED s_ota_in_progress

-----------------------------------------------------------------------------
Init ==
  /\ auto_check \in AutoChecks
  /\ s_state = "IDLE" /\ last_error = FALSE
  /\ s_ota_in_progress = FALSE
  /\ armed = auto_check
  /\ pc = [a \in Actors |-> IF a \in Tasks THEN "none" ELSE "idle"]
  /\ job = [a \in Actors |-> "check"]
  /\ report = [w \in Writers |-> "done"] /\ reporter = "none"
  /\ opens = [t \in Tasks |-> 0] /\ connected = [t \in Tasks |-> FALSE]
  /\ written = [w \in Writers |-> 0] /\ spoiled = [w \in Writers |-> FALSE]
  /\ slot = "old" /\ boot_next = FALSE /\ reboot_due = FALSE

Goes(a, place) == pc' = [pc EXCEPT ![a] = place]

(* ota_enter_state and ota_fail store the state first. *)
Enters(w, s) ==
  /\ s_state' = s /\ report' = [report EXCEPT ![w] = "clear"]
  /\ reporter' = IF s \in Busy THEN w ELSE "none"
  /\ UNCHANGED last_error
Fails(w) ==
  /\ s_state' = "FAILED" /\ report' = [report EXCEPT ![w] = "set"]
  /\ reporter' = "none"
  /\ UNCHANGED last_error

StoresError(w) == last_error' = (report[w] = "set")

(* Their second store. *)
Reports(w) ==
  /\ report[w] # "done"
  /\ StoresError(w) /\ report' = [report EXCEPT ![w] = "done"]
  /\ UNCHANGED <<s_state, reporter, s_ota_in_progress, armed, pc, job, flash,
                 reboot_due, auto_check>>

At(a, place) == pc[a] = place /\ (a \in Writers => report[a] = "done")

-----------------------------------------------------------------------------
(* Starting a check task. *)

NotBusy == ~s_ota_in_progress

(* ota_check_now and ota_pull_now find the flag clear.  If they do not,    *)
(* the request is answered 409 and changes nothing.                        *)
Request(what) ==
  /\ At("httpd", "idle") /\ NotBusy
  /\ Goes("httpd", "claim") /\ job' = [job EXCEPT !["httpd"] = what]
  /\ UNCHANGED <<reported, s_ota_in_progress, armed, flash, reboot_due,
                 auto_check>>

(* schedule_next_check. *)
Rescheduled == armed' = (Interval > 0)

BusyReschedules == Rescheduled

(* check_timer_cb. *)
TimerBusy ==
  /\ pc["timer"] = "idle" /\ armed /\ s_ota_in_progress
  /\ BusyReschedules
  /\ UNCHANGED <<reported, s_ota_in_progress, pc, job, flash, reboot_due,
                 auto_check>>

TimerFires ==
  /\ pc["timer"] = "idle" /\ armed /\ ~s_ota_in_progress
  /\ armed' = FALSE
  /\ Goes("timer", "claim")
  /\ job' = [job EXCEPT !["timer"] = IF AutoInstall THEN "install" ELSE "check"]
  /\ UNCHANGED <<reported, s_ota_in_progress, flash, reboot_due, auto_check>>

Claimed == s_ota_in_progress' = TRUE

Claim(a) ==
  /\ At(a, "claim")
  /\ Claimed /\ Goes(a, "create")
  /\ UNCHANGED <<reported, armed, job, flash, reboot_due, auto_check>>

CreateFailure == s_ota_in_progress' = FALSE

(* xTaskCreate, and for the timer the next check's schedule. *)
Create(a) ==
  /\ At(a, "create")
  /\ IF a = "timer" THEN Rescheduled ELSE UNCHANGED armed
  /\ \/ /\ \E t \in Tasks \ Live :
             /\ pc' = [pc EXCEPT ![a] = "idle", ![t] = "start"]
             /\ job' = [job EXCEPT ![t] = job[a], ![a] = "check"]
        /\ UNCHANGED s_ota_in_progress
     \/ CreateFailure /\ Goes(a, "idle") /\ job' = [job EXCEPT ![a] = "check"]
  /\ UNCHANGED <<reported, flash, reboot_due, auto_check>>

-----------------------------------------------------------------------------
(* ota_check_task. *)

StartTask(t) ==
  /\ At(t, "start")
  /\ Enters(t, "CHECKING") /\ Goes(t, "query")
  /\ UNCHANGED <<s_ota_in_progress, armed, job, flash, reboot_due, auto_check>>

(* The release is not newer, or it is and nobody asked to install it. *)
QueryDone(t) ==
  /\ At(t, "query")
  /\ Enters(t, "IDLE") /\ Goes(t, "exit")
  /\ UNCHANGED <<s_ota_in_progress, armed, job, flash, reboot_due, auto_check>>

Asked(t) == job[t] = "install"

(* download_and_flash begins. *)
QueryNewer(t) ==
  /\ At(t, "query") /\ Asked(t)
  /\ Enters(t, "DOWNLOADING") /\ Goes(t, "open")
  /\ opens' = [opens EXCEPT ![t] = 0] /\ connected' = [connected EXCEPT ![t] = FALSE]
  /\ UNCHANGED <<s_ota_in_progress, armed, job, written, spoiled, slot,
                 boot_next, reboot_due, auto_check>>

MayOpen(t) == opens[t] < MaxOpens

(* One turn of the redirect loop: 200, or a redirection to follow. *)
Open(t) ==
  /\ At(t, "open") /\ MayOpen(t)
  /\ opens' = [opens EXCEPT ![t] = @ + 1]
  /\ \/ connected' = [connected EXCEPT ![t] = TRUE] /\ Goes(t, "begin")
     \/ UNCHANGED <<connected, pc>>
  /\ UNCHANGED <<reported, s_ota_in_progress, armed, job, written, spoiled,
                 slot, boot_next, reboot_due, auto_check>>

(* The loop ends of itself, and the code goes on as after a 200. *)
OutOfOpens(t) ==
  /\ At(t, "open") /\ opens[t] >= MaxOpens
  /\ Goes(t, "begin")
  /\ UNCHANGED <<reported, s_ota_in_progress, armed, job, flash, reboot_due,
                 auto_check>>

Released == s_ota_in_progress' = FALSE

(* The task deletes itself, and its locals with it. *)
Exit(t) ==
  /\ At(t, "exit")
  /\ Released /\ Goes(t, "none")
  /\ job' = [job EXCEPT ![t] = "check"]
  /\ opens' = [opens EXCEPT ![t] = 0] /\ connected' = [connected EXCEPT ![t] = FALSE]
  /\ UNCHANGED <<reported, armed, written, spoiled, slot, boot_next,
                 reboot_due, auto_check>>

-----------------------------------------------------------------------------
(* Flashing: download_and_flash by a task, ota_push_from_http by httpd.    *)

Push ==
  /\ Pushes /\ At("httpd", "idle")
  /\ Enters("httpd", "DOWNLOADING") /\ Goes("httpd", "begin")
  /\ UNCHANGED <<s_ota_in_progress, armed, job, flash, reboot_due, auto_check>>

(* esp_ota_begin: sectors are erased only as they are written. *)
Begin(w) ==
  /\ At(w, "begin") /\ Goes(w, "write")
  /\ written' = [written EXCEPT ![w] = 0] /\ spoiled' = [spoiled EXCEPT ![w] = FALSE]
  /\ UNCHANGED <<reported, s_ota_in_progress, armed, job, opens, connected,
                 slot, boot_next, reboot_due, auto_check>>

(* Two downloads bring the same release, so they do not spoil each other. *)
SameImage(v, w) == v = "httpd" <=> w = "httpd"

(* One buffer received and written, which spoils what another writer wrote *)
(* of another image; who has yet to write will erase what is there.        *)
Write(w) ==
  /\ At(w, "write") /\ written[w] < Chunks
  /\ w \in Tasks => connected[w]
  /\ written' = [written EXCEPT ![w] = @ + 1]
  /\ slot' = "partial"
  /\ spoiled' = [v \in Writers |->
                  spoiled[v] \/ (written[v] > 0 /\ ~SameImage(v, w))]
  /\ UNCHANGED <<reported, s_ota_in_progress, armed, pc, job, opens, connected,
                 boot_next, reboot_due, auto_check>>

(* The sender has no more to send, be it a whole image or not. *)
Received(w) ==
  /\ At(w, "write") /\ Goes(w, "end")
  /\ UNCHANGED <<reported, s_ota_in_progress, armed, job, flash, reboot_due,
                 auto_check>>

(* The handle is given up, by esp_ota_end or esp_ota_abort. *)
Closes(w) ==
  written' = [written EXCEPT ![w] = 0] /\ spoiled' = [spoiled EXCEPT ![w] = FALSE]

(* esp_ota_end verifies the slot. *)
End(w) ==
  /\ At(w, "end") /\ written[w] = Chunks /\ ~spoiled[w]
  /\ slot' = "whole" /\ Goes(w, "set boot") /\ Closes(w)
  /\ UNCHANGED <<reported, s_ota_in_progress, armed, job, opens, connected,
                 boot_next, reboot_due, auto_check>>

(* esp_ota_set_boot_partition verifies it once more. *)
SetBoot(w) ==
  /\ At(w, "set boot") /\ slot = "whole"
  /\ boot_next' = TRUE /\ Goes(w, "reboot")
  /\ UNCHANGED <<reported, s_ota_in_progress, armed, job, opens, connected,
                 written, spoiled, slot, reboot_due, auto_check>>

(* Any call on the way fails.  A push is answered and over; a task cleans  *)
(* up and exits.                                                           *)
Failure(w) == Fails(w)

Fail(w) ==
  /\ \E place \in Unfinished : At(w, place)
  /\ Failure(w) /\ Goes(w, IF w = "httpd" THEN "idle" ELSE "exit")
  /\ Closes(w)
  /\ UNCHANGED <<s_ota_in_progress, armed, job, opens, connected, slot,
                 boot_next,
                 reboot_due, auto_check>>

(* The push has answered "rebooting"; its reboot task may not be created   *)
(* (then nobody is left to report after the push), and so may that of      *)
(* POST /reboot.                                                           *)
PushReboot ==
  /\ At("httpd", "reboot") /\ Goes("httpd", "idle")
  /\ reboot_due' \in {TRUE, reboot_due}
  /\ reporter' = IF ~reboot_due' /\ reporter = "httpd" THEN "no reboot" ELSE reporter
  /\ UNCHANGED <<s_state, last_error, report, s_ota_in_progress, armed, job, flash,
                 auto_check>>

RebootRequest ==
  /\ At("httpd", "idle")
  /\ reboot_due' \in {TRUE, reboot_due}
  /\ UNCHANGED <<reported, s_ota_in_progress, armed, pc, job, flash,
                 auto_check>>

(* esp_restart.  The bootloader boots the slot if it is to and can.        *)
Reset ==
  /\ reboot_due \/ \E t \in Tasks : pc[t] = "reboot"
  /\ s_state' = "IDLE" /\ last_error' = FALSE /\ s_ota_in_progress' = FALSE
  /\ armed' = auto_check
  /\ pc' = [a \in Actors |-> IF a \in Tasks THEN "none" ELSE "idle"]
  /\ job' = [a \in Actors |-> "check"]
  /\ report' = [w \in Writers |-> "done"] /\ reporter' = "none"
  /\ opens' = [t \in Tasks |-> 0] /\ connected' = [t \in Tasks |-> FALSE]
  /\ written' = [w \in Writers |-> 0] /\ spoiled' = [w \in Writers |-> FALSE]
  /\ slot' = IF boot_next /\ slot = "whole" THEN "old" ELSE slot
  /\ boot_next' = FALSE /\ reboot_due' = FALSE
  /\ UNCHANGED auto_check

-----------------------------------------------------------------------------
TaskStep(t) ==
  \/ StartTask(t) \/ QueryDone(t) \/ QueryNewer(t) \/ Open(t) \/ OutOfOpens(t)
  \/ Exit(t)

FlashStep(w) ==
  Begin(w) \/ Write(w) \/ Received(w) \/ End(w) \/ SetBoot(w) \/ Fail(w)

Next ==
  \/ \E what \in {"check", "install"} : Request(what)
  \/ TimerBusy \/ TimerFires
  \/ \E a \in Starters : Claim(a) \/ Create(a)
  \/ \E t \in Tasks : TaskStep(t)
  \/ \E w \in Writers : FlashStep(w) \/ Reports(w)
  \/ Push \/ PushReboot \/ RebootRequest \/ Reset

Spec == Init /\ [][Next]_vars

(* Tasks that exist run, and what they wait for times out (15 s for the    *)
(* query, 30 s for the download); a reboot that is due comes.  A client    *)
(* need not send the rest of its push, nor any request at all.             *)
FairSpec ==
  /\ Spec
  /\ \A t \in Tasks : WF_vars(TaskStep(t) \/ FlashStep(t) \/ Reports(t))
  /\ \A a \in Starters : WF_vars(Claim(a) \/ Create(a))
  /\ WF_vars(Reports("httpd")) /\ WF_vars(PushReboot) /\ WF_vars(Reset)

-----------------------------------------------------------------------------
(* Properties. *)

States == {"IDLE", "CHECKING", "DOWNLOADING", "FAILED"}
Reporters == Writers \union {"none", "no reboot"}
Places == {"none", "start", "exit", "idle", "claim", "create", "reboot"} \union Unfinished

(* The types of the variables.                                             *)
TypeOK ==
  /\ auto_check \in BOOLEAN
  /\ s_state \in States /\ last_error \in BOOLEAN
  /\ s_ota_in_progress \in BOOLEAN /\ armed \in BOOLEAN
  /\ boot_next \in BOOLEAN /\ reboot_due \in BOOLEAN
  /\ pc \in [Actors -> Places]
  /\ job \in [Actors -> {"check", "install"}]
  /\ report \in [Writers -> {"done", "clear", "set"}]
  /\ reporter \in Reporters
  /\ opens \in [Tasks -> 0 .. MaxOpens] /\ connected \in [Tasks -> BOOLEAN]
  /\ written \in [Writers -> 0 .. Chunks] /\ spoiled \in [Writers -> BOOLEAN]
  /\ slot \in {"old", "partial", "whole"}

(* s_ota_in_progress is never left set with nobody to clear it, which      *)
(* would refuse every later check and update until the next reset: it is   *)
(* set only while a task lives or one is being created, even when two      *)
(* starters have both passed its test.                                     *)
FlagBacked ==
  s_ota_in_progress => Live # {} \/ \E a \in Starters : pc[a] = "create"

(* The periodic check never dies out, whether its callback found an update *)
(* in progress, or no memory for a task.                                   *)
TimerAlive ==
  auto_check /\ Interval > 0 => armed \/ pc["timer"] # "idle"

(* GET /update/status shows "checking" or "downloading" only while the     *)
(* actor that reported it has still to report how it ended, or is about to *)
(* reboot the device, or while another reboot is due.  The one exception   *)
(* is a push whose reboot task could not be created (ota.c:238): what that *)
(* push reported stays until somebody reports something else.              *)
NeverStuckBusy ==
  s_state \in Busy =>
    \/ reboot_due \/ reporter = "no reboot"
    \/ reporter \in Writers /\ pc[reporter] \in Unfinished \union {"reboot"}

(* Whoever sets s_ota_in_progress, it is cleared again: no path through a  *)
(* check or a download, failing or not, keeps it.                          *)
FlagReleased == s_ota_in_progress ~> ~s_ota_in_progress

OneTask == \A t, u \in Live : t = u

(* As long as the timer starts no checks, the test of s_ota_in_progress is *)
(* enough: requests start one task at a time, pushes or not.               *)
OneStarterOneTask == ~auto_check => OneTask

Undisturbed == ~auto_check /\ ~Pushes

(* ota.h:44: "last operation failed; last_error is populated", and         *)
(* ota.h:50: the error message is the "empty string if state is not        *)
(* FAILED".  So it is, between the reports of operations that do not       *)
(* overlap.                                                                *)
FailedHasError ==
  Undisturbed /\ (\A w \in Writers : report[w] = "done") =>
    (s_state = "FAILED" <=> last_error)

SlotWhole == boot_next => slot = "whole"

(* Where operations do not overlap, no later request damages the image     *)
(* that is set to boot: the flag stays set until the reset.                *)
InstallKept == Undisturbed => SlotWhole

Releases == INSTANCE Semver

(* Which release is "newer", the choice QueryNewer leaves open: versions   *)
(* are ordered by their numbers from the left, a missing part is zero, and *)
(* what cannot be read is never installed (ota.c, semver_cmp).             *)
NewerByNumbers == Init => Releases!OrdersVersions(MaxPart)
=============================================================================
