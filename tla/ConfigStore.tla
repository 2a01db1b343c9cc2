----------------------------- MODULE ConfigStore -----------------------------
(***************************************************************************)
(* The stored configuration and the two tasks that rewrite it: the         *)
(* provisioning server's task (main/wifi.c) and the factory-reset button's *)
(* (main/reset_button.c), both through main/config.c, which saves one NVS  *)
(* key after another.  A restart may come between any two steps: a power   *)
(* loss or POST /reboot, the reboot three seconds after provisioning, or   *)
(* the button's.                                                           *)
(*                                                                         *)
(* The credentials of the n-th provisioning are the number n, and 0 is the *)
(* empty string; the keys that no code ever changes (host name, timings,   *)
(* updates, relays) are one, "settings".                                   *)
(***************************************************************************)
EXTENDS ResetButton, Sequences

CONSTANTS
  MaxTokens,   \* bounds the tokens minted,
  MaxOutages,  \* the restarts nobody here asks for,
  MaxFaults,   \* and the NVS or task operations that fail
  Late,        \* how long a poll of the button may take
  FormChars,   \* the characters of a form; bounds the length
  MaxForm, MaxName, MaxField   \* of a form, of a name, of a buffer

ASSUME ConfigAssumption ==
  /\ MaxTokens \in Nat /\ MaxOutages \in Nat /\ MaxFaults \in Nat /\ Late \in Nat \ {0}
  /\ FormChars \subseteq 1 .. 255
  /\ MaxForm \in Nat /\ MaxName \in Nat /\ MaxField \in Nat

VARIABLES
  nvs,       \* the namespace "doorking"
  mode,      \* the Wi-Fi mode; "off" until app_main has loaded the configuration
  pc, cfg, at,  \* of each saver: where it is, the struct it saves, the next key
  rebooting, \* a reboot_task waits
  tokens,    \* the tokens minted
  shown,     \* the last one a success page showed
  pressed,   \* the button
  sm,        \* its state machine
  outages, faults,
  alone, torn,  \* history: nobody saved meanwhile; a save left a mixture
  sinceUp    \* history: time since a poll saw the button released

saves == <<pc, cfg, at>>
button == <<pressed, sm, sinceUp>>
history == <<alone, torn>>
vars == <<nvs, saves, mode, rebooting, tokens, shown, button, outages, faults, history>>

Savers == {"httpd", "button"}
Keys == {"ssid", "psk", "token", "settings"}
Creds == {"ssid", "psk", "token"}
Configs == [ssid : 0 .. MaxTokens, psk : 0 .. MaxTokens, token : 0 .. MaxTokens,
            settings : {"default", "stored"}]

-----------------------------------------------------------------------------
(* Defective variants. *)

SsidLast == <<"psk", "token", "settings", "ssid">>
StopsAtOnce == TRUE
OnlyIfCleared(done) == IF done THEN "flush" ELSE "poll"

-----------------------------------------------------------------------------
Defaults == [ssid |-> 0, psk |-> 0, token |-> 0, settings |-> "default"]

Init ==
  /\ nvs \in {Defaults, [Defaults EXCEPT !.settings = "stored"]}
  /\ mode = "off"
  /\ pc = [httpd |-> "idle", button |-> "poll"]
  /\ cfg = [p \in Savers |-> Defaults] /\ at = [p \in Savers |-> 1]
  /\ rebooting = FALSE /\ tokens = 0 /\ shown = 0
  /\ pressed = FALSE /\ sm = Blank /\ sinceUp = 0
  /\ outages = 0 /\ faults = 0
  /\ alone = [p \in Savers |-> TRUE] /\ torn = FALSE

Fault == faults < MaxFaults /\ faults' = faults + 1
NoFault == UNCHANGED faults

Goes(p, place) == pc' = [pc EXCEPT ![p] = place]
Saving(p) == pc[p] = "save"
Other(p) == CHOOSE q \in Savers : q # p

HasWifi(c) == c.ssid # 0

(* config_load: a key that cannot be read keeps its default.               *)
Loads(c) ==
  \/ c = nvs /\ NoFault
  \/ \E k \in Keys : c = [nvs EXCEPT ![k] = Defaults[k]] /\ Fault

(* init_nvs erases a partition it cannot use; config_load; wifi_start.     *)
Boot ==
  /\ mode = "off"
  /\ \/ /\ UNCHANGED nvs
        /\ \E c \in Configs : Loads(c) /\ mode' = IF HasWifi(c) THEN "STA" ELSE "AP"
     \/ nvs' = Defaults /\ mode' = "AP" /\ Fault
  /\ UNCHANGED <<saves, rebooting, tokens, shown, button, outages, history>>

(* Whatever was being saved stays as far as it came.                       *)
CutShort ==
  torn' = (torn \/ Saving("httpd") \/ (Saving("button") /\ ~alone["button"]))

Restart ==
  /\ mode' = "off"
  /\ pc' = [httpd |-> "idle", button |-> "poll"]
  /\ cfg' = [p \in Savers |-> Defaults] /\ at' = [p \in Savers |-> 1]
  /\ rebooting' = FALSE
  /\ sm' = Blank /\ sinceUp' = 0
  /\ CutShort /\ alone' = [p \in Savers |-> TRUE]
  /\ UNCHANGED <<nvs, tokens, shown, pressed, faults>>

(* A power loss at any time; POST /reboot, an update or a panic do no more.*)
Outage ==
  /\ mode # "off" /\ outages < MaxOutages /\ outages' = outages + 1
  /\ Restart

-----------------------------------------------------------------------------
(* config_save, by either task. *)

SaveOrder == <<"ssid", "psk", "token", "settings">>

BeginsSave(p, c) ==
  /\ Goes(p, "save")
  /\ cfg' = [cfg EXCEPT ![p] = c] /\ at' = [at EXCEPT ![p] = 1]
  /\ alone' = IF Saving(Other(p)) THEN [q \in Savers |-> FALSE]
                                  ELSE [alone EXCEPT ![p] = TRUE]

WriteKey(p) ==
  /\ Saving(p) /\ at[p] <= Len(SaveOrder)
  /\ LET k == SaveOrder[at[p]] IN nvs' = [nvs EXCEPT ![k] = cfg[p][k]]
  /\ at' = [at EXCEPT ![p] = @ + 1]
  /\ UNCHANGED <<pc, cfg, mode, rebooting, tokens, shown, button, outages, faults, history>>

(* The handler shows the token; the watcher reboots, saved or not.         *)
AfterClear(done) == "flush"
AfterSave(p, done) ==
  IF p = "button" THEN AfterClear(done) ELSE IF done THEN "reply" ELSE "idle"

Commit(p) ==
  /\ Saving(p) /\ at[p] > Len(SaveOrder)
  /\ Goes(p, AfterSave(p, TRUE))
  /\ torn' = ~alone[p]
  /\ UNCHANGED <<nvs, cfg, at, mode, rebooting, tokens, shown, button, outages, faults, alone>>

(* SAVE_OR_FAIL leaves what was written.                                   *)
SaveFails(p) ==
  /\ Saving(p) /\ Fault
  /\ Goes(p, AfterSave(p, FALSE))
  /\ torn' = (torn \/ p = "httpd" \/ ~alone[p])
  /\ UNCHANGED <<nvs, cfg, at, mode, rebooting, tokens, shown, button, outages, alone>>

-----------------------------------------------------------------------------
(* The provisioning server: one request at a time, in AP mode only.        *)
PostProvision ==
  /\ mode = "AP" /\ pc["httpd"] = "idle" /\ Goes("httpd", "recv")
  /\ UNCHANGED <<nvs, cfg, at, mode, rebooting, tokens, shown, button, outages, faults, history>>

(* No body, or a field is missing.                                         *)
BadForm ==
  /\ pc["httpd"] = "recv" /\ Goes("httpd", "idle")
  /\ UNCHANGED <<nvs, cfg, at, mode, rebooting, tokens, shown, button, outages, faults, history>>

(* The stored configuration with the form's credentials, an SSID that may  *)
(* be empty, and a fresh token.                                            *)
Provision ==
  /\ pc["httpd"] = "recv" /\ tokens < MaxTokens
  /\ \E c \in Configs, typed \in {0, tokens + 1} :
       /\ Loads(c)
       /\ BeginsSave("httpd", [c EXCEPT !.ssid = typed, !.psk = tokens + 1,
                                        !.token = tokens + 1])
  /\ tokens' = tokens + 1
  /\ UNCHANGED <<nvs, mode, rebooting, shown, button, outages, torn>>

(* The page; creating reboot_task may fail unnoticed.                      *)
Reply ==
  /\ pc["httpd"] = "reply" /\ Goes("httpd", "idle")
  /\ shown' = cfg["httpd"].token
  /\ \/ rebooting' = TRUE /\ NoFault
     \/ UNCHANGED rebooting /\ Fault
  /\ UNCHANGED <<nvs, cfg, at, mode, tokens, button, outages, history>>

(* httpd_stop returns once the handler under way has.                      *)
ServerStops == pc["httpd"] = "idle"

RebootTask ==
  /\ rebooting /\ ServerStops
  /\ Restart /\ UNCHANGED outages

-----------------------------------------------------------------------------
(* The button's watcher. *)
Finger ==
  /\ pressed' = ~pressed
  /\ UNCHANGED <<nvs, saves, mode, rebooting, tokens, shown, sm, sinceUp, outages, faults, history>>

Cleared(c) == [c EXCEPT !.ssid = 0, !.psk = 0, !.token = 0]

(* Beyond this a longer time without release makes no difference.          *)
Capped(n) == IF n > Hold + 1 THEN Hold + 1 ELSE n

ButtonPoll ==
  /\ mode # "off" /\ pc["button"] = "poll"
  /\ \E d \in 1 .. Late :
       LET now == Aged(sm, d) IN
         /\ sm' = Update(now, pressed)
         /\ sinceUp' = IF pressed THEN Capped(sinceUp + d) ELSE 0
         /\ IF Fires(now, pressed)
              THEN \/ \E c \in Configs : Loads(c) /\ BeginsSave("button", Cleared(c))
                   \/ /\ Fault /\ Goes("button", AfterClear(FALSE))
                      /\ UNCHANGED <<cfg, at, alone>>
              ELSE NoFault /\ UNCHANGED <<saves, alone>>
  /\ UNCHANGED <<nvs, mode, rebooting, tokens, shown, pressed, outages, torn>>

ButtonRestart ==
  /\ pc["button"] = "flush"
  /\ Restart /\ UNCHANGED outages

Next ==
  \/ Boot \/ Outage
  \/ (\E p \in Savers : WriteKey(p) \/ Commit(p) \/ SaveFails(p))
  \/ PostProvision \/ BadForm \/ Provision \/ Reply \/ RebootTask
  \/ Finger \/ ButtonPoll \/ ButtonRestart

Spec == Init /\ [][Next]_vars

(* The tasks run: the watcher's loop and config_save wait for nothing.     *)
FairSpec ==
  /\ Spec
  /\ WF_vars(Boot) /\ WF_vars(ButtonPoll) /\ WF_vars(ButtonRestart)
  /\ WF_vars(WriteKey("button") \/ Commit("button"))

-----------------------------------------------------------------------------
(* Properties. *)

(* The types of the variables.                                             *)
TypeOK ==
  /\ nvs \in Configs /\ mode \in {"off", "AP", "STA"}
  /\ pc \in [httpd : {"idle", "recv", "save", "reply"}, button : {"poll", "save", "flush"}]
  /\ cfg \in [Savers -> Configs] /\ at \in [Savers -> 1 .. Len(SaveOrder) + 1]
  /\ rebooting \in BOOLEAN /\ tokens \in 0 .. MaxTokens /\ shown \in 0 .. MaxTokens
  /\ pressed \in BOOLEAN /\ sm \in Machines /\ sinceUp \in 0 .. Hold + 1
  /\ outages \in 0 .. MaxOutages /\ faults \in 0 .. MaxFaults
  /\ alone \in [Savers -> BOOLEAN] /\ torn \in BOOLEAN

(* A stored SSID sends the next boot into station mode, where nothing but  *)
(* the token opens the API.  A factory reset that is interrupted or fails  *)
(* at any key never leaves an SSID without the token it was stored with:   *)
(* only a provisioning can, when it is itself cut short or crossed by a    *)
(* reset.                                                                  *)
NoLockOut ==
  ~torn /\ ~Saving("httpd") /\ nvs.ssid # 0
    => nvs.psk = nvs.ssid /\ nvs.token = nvs.ssid

(* The reboot after provisioning waits for a second form that is being     *)
(* handled: the token on the last page shown is the one that is stored     *)
(* when the device comes back (wifi.c, "it is not shown again").           *)
TokenStands ==
  [][(RebootTask /\ ~torn /\ pc["button"] = "poll") => nvs'.token = shown]_vars

(* config.h, config_clear_wifi: "Gate timings and hostname are preserved": *)
(* while nothing fails no save of either task changes the settings.        *)
SettingsKept == [][(faults' = 0) => (nvs'.settings = nvs.settings)]_vars

(* reset_btn_sm.h: the credentials are cleared only after the button was   *)
(* seen held for the whole threshold, within this boot.                    *)
ClearsOnlyWhenHeld ==
  [][(pc["button"] = "poll" /\ pc'["button"] \in {"save", "flush"}) => sinceUp' > Hold]_vars

Form == INSTANCE FormFields

(* The strings a provisioning stores are those the owner typed (wifi.c,    *)
(* form_get), whatever the form, the field and the size of its buffer.     *)
FormsReadAsTyped ==
  Init => Form!ReadsAsTyped(Form!Strings(FormChars, MaxForm),
                            Form!Strings(FormChars, MaxName), 1 .. MaxField)

(* README, "Factory reset": whoever holds the button gets out of station   *)
(* mode for good, though clearing may fail or be cut short on the way.     *)
HeldLeavesStation == <>[]pressed => <>[](mode # "STA")
==============================================================================
