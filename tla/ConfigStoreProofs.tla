-------------------------- MODULE ConfigStoreProofs --------------------------
(***************************************************************************)
(* Proofs about ConfigStore, for any number of provisionings, outages and  *)
(* failures and any threshold of the button: a factory reset locks nobody  *)
(* out wherever it stops, and the token shown last is the one stored.      *)
(*                                                                         *)
(* The argument follows one save at a time.  A save that was alone from    *)
(* its first key has written exactly the keys before the next one; two     *)
(* saves that met are known to have met until one of them ends, and then   *)
(* the store counts as torn.  The order of the keys matters: clearing      *)
(* takes the SSID away first.                                              *)
(*                                                                         *)
(* The last part is about forms of any length, by induction: the named     *)
(* field is found, and decoded in place to what was typed.                 *)
(***************************************************************************)
EXTENDS ConfigStore, SequenceTheorems, WellFoundedInduction, TLAPS

-----------------------------------------------------------------------------
(* The invariant. *)

StoreTypes == nvs \in Configs /\ cfg \in [Savers -> Configs]

PlaceTypes ==
  /\ pc \in [httpd : {"idle", "recv", "save", "reply"}, button : {"poll", "save", "flush"}]
  /\ mode \in {"off", "AP", "STA"}

AtTypes == at \in [Savers -> 1 .. 5]

FlagTypes == rebooting \in BOOLEAN /\ torn \in BOOLEAN /\ alone \in [Savers -> BOOLEAN]

CountTypes ==
  /\ tokens \in 0 .. MaxTokens /\ shown \in 0 .. MaxTokens
  /\ outages \in 0 .. MaxOutages /\ faults \in 0 .. MaxFaults

ButtonTypes == pressed \in BOOLEAN /\ sm \in Machines /\ sinceUp \in 0 .. Hold + 1

Types ==
  StoreTypes /\ PlaceTypes /\ AtTypes /\ FlagTypes /\ CountTypes /\ ButtonTypes

(* Before the configuration was loaded no task is at work.                 *)
Quiet == mode = "off" => pc.httpd = "idle" /\ pc.button = "poll" /\ ~rebooting

(* What each of them saves.                                                *)
Contents ==
  /\ Saving("button") =>
       cfg["button"].ssid = 0 /\ cfg["button"].psk = 0 /\ cfg["button"].token = 0
  /\ pc.httpd \in {"save", "reply"} =>
       /\ cfg["httpd"].psk = cfg["httpd"].token
       /\ cfg["httpd"].ssid \in {0, cfg["httpd"].token}

(* How far a save that was alone has come.                                 *)
Progress ==
  \A p \in Savers : Saving(p) /\ alone[p] =>
    /\ at[p] > 1 => nvs.ssid = cfg[p].ssid
    /\ at[p] > 2 => nvs.psk = cfg[p].psk
    /\ at[p] > 3 => nvs.token = cfg[p].token

(* Saves that meet know it, and leave a torn store.                        *)
Meeting ==
  /\ Saving("httpd") /\ Saving("button") => ~alone["httpd"] /\ ~alone["button"]
  /\ Saving("button") /\ ~alone["button"] /\ ~Saving("httpd") => torn

(* The token of the last page.                                             *)
Tokens ==
  ~torn /\ pc.button = "poll" =>
    /\ pc.httpd = "reply" => nvs.token = cfg["httpd"].token
    /\ rebooting /\ pc.httpd \in {"idle", "recv"} => nvs.token = shown

Settings == faults = 0 => \A p \in Savers : Saving(p) => cfg[p].settings = nvs.settings

(* The button has been down for longer than its machine has counted.       *)
Pressing == sm.prev_pressed => sinceUp > sm.held

Safety ==
  /\ Types /\ Quiet /\ Contents /\ Progress /\ Meeting /\ NoLockOut /\ Tokens
  /\ Settings /\ Pressing

-----------------------------------------------------------------------------
(* The steps, in the terms of the invariant. *)

LEMMA Pairs ==
  /\ "httpd" \in Savers /\ "button" \in Savers /\ "httpd" # "button"
  /\ \A p \in Savers : p = "httpd" \/ p = "button"
  /\ \A p, q \in Savers : p # q => Other(p) = q
<1>1. /\ "httpd" \in Savers /\ "button" \in Savers /\ "httpd" # "button"
      /\ \A p \in Savers : p = "httpd" \/ p = "button"
  BY DEF Savers
<1>2. ASSUME NEW p \in Savers, NEW q \in Savers, p # q PROVE Other(p) = q
  <2>1. \A r \in Savers : r # p => r = q
    BY <1>1, <1>2
  <2>2. Other(p) \in Savers /\ Other(p) # p
    BY <1>2 DEF Other
  <2> QED BY <2>1, <2>2
<1> QED BY <1>1, <1>2

LEMMA Forms ==
  /\ Defaults \in Configs
  /\ \A c \in Configs : /\ Cleared(c) \in Configs /\ Cleared(c).settings = c.settings
                        /\ Cleared(c).ssid = 0 /\ Cleared(c).psk = 0 /\ Cleared(c).token = 0
<1>1. 0 \in 0 .. MaxTokens
  BY ConfigAssumption DEF ConfigAssumption
<1>2. Defaults \in Configs
  BY <1>1 DEF Defaults, Configs
<1>3. ASSUME NEW c \in Configs
      PROVE  /\ Cleared(c) \in Configs /\ Cleared(c).settings = c.settings
             /\ Cleared(c).ssid = 0 /\ Cleared(c).psk = 0 /\ Cleared(c).token = 0
  <2>1. PICK N : N = 0 .. MaxTokens
    OBVIOUS
  <2>2. /\ c \in [ssid : N, psk : N, token : N, settings : {"default", "stored"}] /\ 0 \in N
    BY <1>1, <2>1 DEF Configs
  <2>3. Cleared(c) \in [ssid : N, psk : N, token : N, settings : {"default", "stored"}]
    BY <2>2 DEF Cleared
  <2>4. Cleared(c).settings = c.settings
    BY <2>2 DEF Cleared
  <2>5. Cleared(c).ssid = 0 /\ Cleared(c).psk = 0 /\ Cleared(c).token = 0
    BY <2>2 DEF Cleared
  <2> QED BY <2>1, <2>3, <2>4, <2>5 DEF Configs
<1> QED BY <1>2, <1>3

LEMMA Moves ==
  ASSUME PlaceTypes, NEW p \in Savers, NEW place, Goes(p, place)
  PROVE  /\ pc'[p] = place
         /\ \A q \in Savers : q # p => pc'[q] = pc[q]
BY DEF Goes, PlaceTypes, Savers

LEMMA WriteEffects ==
  ASSUME Types, NEW p \in Savers, WriteKey(p)
  PROVE  /\ Saving(p) /\ at[p] \in 1 .. 4
         /\ nvs' \in Configs
         /\ nvs'.ssid = IF at[p] = 1 THEN cfg[p].ssid ELSE nvs.ssid
         /\ nvs'.psk = IF at[p] = 2 THEN cfg[p].psk ELSE nvs.psk
         /\ nvs'.token = IF at[p] = 3 THEN cfg[p].token ELSE nvs.token
         /\ nvs'.settings = IF at[p] = 4 THEN cfg[p].settings ELSE nvs.settings
         /\ at'[p] = at[p] + 1
         /\ \A q \in Savers : q # p => at'[q] = at[q]
<1>1. Saving(p) /\ at[p] \in 1 .. 4
  BY DEF WriteKey, SaveOrder, Types, AtTypes
<1>2. nvs \in Configs /\ cfg[p] \in Configs
  BY DEF Types, StoreTypes
<1>3. at'[p] = at[p] + 1 /\ \A q \in Savers : q # p => at'[q] = at[q]
  BY DEF WriteKey, Types, AtTypes
<1>4. PICK k : k = SaveOrder[at[p]] /\ nvs' = [nvs EXCEPT ![k] = cfg[p][k]]
  BY DEF WriteKey
<1>5. CASE at[p] = 1
  <2>1. k = "ssid"
    BY <1>4, <1>5 DEF SaveOrder
  <2>2. nvs' = [nvs EXCEPT !.ssid = cfg[p].ssid]
    BY <1>4, <2>1
  <2> QED BY <1>1, <1>2, <1>3, <1>5, <2>2 DEF Configs
<1>6. CASE at[p] = 2
  <2>1. k = "psk"
    BY <1>4, <1>6 DEF SaveOrder
  <2>2. nvs' = [nvs EXCEPT !.psk = cfg[p].psk]
    BY <1>4, <2>1
  <2> QED BY <1>1, <1>2, <1>3, <1>6, <2>2 DEF Configs
<1>7. CASE at[p] = 3
  <2>1. k = "token"
    BY <1>4, <1>7 DEF SaveOrder
  <2>2. nvs' = [nvs EXCEPT !.token = cfg[p].token]
    BY <1>4, <2>1
  <2> QED BY <1>1, <1>2, <1>3, <1>7, <2>2 DEF Configs
<1>8. CASE at[p] = 4
  <2>1. k = "settings"
    BY <1>4, <1>8 DEF SaveOrder
  <2>2. nvs' = [nvs EXCEPT !.settings = cfg[p].settings]
    BY <1>4, <2>1
  <2> QED BY <1>1, <1>2, <1>3, <1>8, <2>2 DEF Configs
<1> QED BY <1>1, <1>5, <1>6, <1>7, <1>8

LEMMA CommitEffects ==
  ASSUME Types, NEW p \in Savers, Commit(p)
  PROVE  /\ Saving(p) /\ at[p] = 5 /\ torn' = ~alone[p]
         /\ pc'[p] = IF p = "button" THEN "flush" ELSE "reply"
         /\ \A q \in Savers : q # p => pc'[q] = pc[q]
<1>1. Saving(p) /\ at[p] = 5 /\ torn' = ~alone[p]
  BY DEF Commit, SaveOrder, Types, AtTypes
<1>2. Goes(p, IF p = "button" THEN "flush" ELSE "reply")
  BY DEF Commit, AfterSave, AfterClear
<1> QED BY <1>1, <1>2, Moves DEF Types

LEMMA FailEffects ==
  ASSUME Types, NEW p \in Savers, SaveFails(p)
  PROVE  /\ Saving(p) /\ torn' = (torn \/ p = "httpd" \/ ~alone[p])
         /\ pc'[p] = IF p = "button" THEN "flush" ELSE "idle"
         /\ \A q \in Savers : q # p => pc'[q] = pc[q]
<1>1. Saving(p) /\ torn' = (torn \/ p = "httpd" \/ ~alone[p])
  BY DEF SaveFails
<1>2. Goes(p, IF p = "button" THEN "flush" ELSE "idle")
  BY DEF SaveFails, AfterSave, AfterClear
<1> QED BY <1>1, <1>2, Moves DEF Types

LEMMA BeginEffects ==
  ASSUME Types, NEW p \in Savers, NEW q \in Savers, p # q, NEW c \in Configs,
         BeginsSave(p, c)
  PROVE  /\ pc'[p] = "save" /\ pc'[q] = pc[q]
         /\ cfg'[p] = c /\ cfg'[q] = cfg[q] /\ cfg' \in [Savers -> Configs]
         /\ at'[p] = 1 /\ at'[q] = at[q] /\ at' \in [Savers -> 1 .. 5]
         /\ Saving(q) => ~alone'[p] /\ ~alone'[q]
         /\ ~Saving(q) => alone'[p] /\ alone'[q] = alone[q]
         /\ alone' \in [Savers -> BOOLEAN]
<1>1. pc'[p] = "save" /\ pc'[q] = pc[q]
  BY Moves DEF BeginsSave, Types
<1>2. cfg'[p] = c /\ cfg'[q] = cfg[q] /\ cfg' \in [Savers -> Configs]
  BY DEF BeginsSave, Types, StoreTypes
<1>3. at'[p] = 1 /\ at'[q] = at[q] /\ at' \in [Savers -> 1 .. 5]
  BY DEF BeginsSave, Types, AtTypes
<1>4. alone' = IF Saving(q) THEN [r \in Savers |-> FALSE] ELSE [alone EXCEPT ![p] = TRUE]
  BY Pairs DEF BeginsSave
<1>5. alone \in [Savers -> BOOLEAN]
  BY DEF Types, FlagTypes
<1>6. CASE Saving(q)
  <2>1. alone' = [r \in Savers |-> FALSE]
    BY <1>4, <1>6
  <2> QED BY <1>1, <1>2, <1>3, <1>6, <2>1
<1>7. CASE ~Saving(q)
  <2>1. alone' = [alone EXCEPT ![p] = TRUE]
    BY <1>4, <1>7
  <2>2. alone' \in [Savers -> BOOLEAN] /\ alone'[p] /\ alone'[q] = alone[q]
    BY <2>1, <1>5
  <2> QED BY <1>1, <1>2, <1>3, <1>7, <2>2
<1> QED BY <1>6, <1>7

(* A poll of the button does nothing, begins to clear, or fails to load.   *)
LEMMA PollEffects ==
  ASSUME ButtonPoll
  PROVE  /\ pc["button"] = "poll" /\ mode # "off"
         /\ UNCHANGED <<nvs, mode, rebooting, tokens, shown, pressed, outages, torn>>
         /\ \/ \E c \in Configs : Loads(c) /\ BeginsSave("button", Cleared(c))
            \/ Fault /\ Goes("button", "flush") /\ UNCHANGED <<cfg, at, alone>>
            \/ UNCHANGED <<faults, pc, cfg, at, alone>>
BY DEF ButtonPoll, AfterClear, NoFault, saves

LEMMA ProvisionEffects ==
  ASSUME Types, Provision
  PROVE  /\ pc["httpd"] = "recv" /\ tokens' = tokens + 1 /\ tokens' \in 0 .. MaxTokens
         /\ UNCHANGED <<nvs, mode, rebooting, shown, button, outages, torn>>
         /\ \E c, d \in Configs :
              /\ Loads(c) /\ BeginsSave("httpd", d)
              /\ d.psk = d.token /\ d.ssid \in {0, d.token} /\ d.settings = c.settings
<1>1. PICK c \in Configs, typed \in {0, tokens + 1} :
        /\ Loads(c)
        /\ BeginsSave("httpd", [c EXCEPT !.ssid = typed, !.psk = tokens + 1,
                                         !.token = tokens + 1])
  BY DEF Provision
<1>2. tokens \in Nat /\ tokens < MaxTokens /\ tokens' = tokens + 1
  BY ConfigAssumption DEF Provision, Types, CountTypes, ConfigAssumption
<1>3. tokens + 1 \in 0 .. MaxTokens /\ typed \in 0 .. MaxTokens
  <2>1. MaxTokens \in Nat
    BY ConfigAssumption DEF ConfigAssumption
  <2>2. tokens + 1 \in 0 .. MaxTokens /\ 0 \in 0 .. MaxTokens
    BY <1>2, <2>1
  <2>3. typed = 0 \/ typed = tokens + 1
    OBVIOUS
  <2> QED BY <2>2, <2>3
<1> DEFINE d == [c EXCEPT !.ssid = typed, !.psk = tokens + 1, !.token = tokens + 1]
<1>4. /\ d \in Configs /\ d.settings = c.settings
      /\ d.ssid = typed /\ d.psk = tokens + 1 /\ d.token = tokens + 1
  <2>1. PICK N, u : N = 0 .. MaxTokens /\ u = tokens + 1
    OBVIOUS
  <2>2. /\ c \in [ssid : N, psk : N, token : N, settings : {"default", "stored"}]
        /\ u \in N /\ typed \in N
    BY <1>3, <2>1 DEF Configs
  <2>3. d = [c EXCEPT !.ssid = typed, !.psk = u, !.token = u]
    BY <2>1
  <2> HIDE DEF d
  <2>4. /\ d \in [ssid : N, psk : N, token : N, settings : {"default", "stored"}]
        /\ d.settings = c.settings /\ d.ssid = typed /\ d.psk = u /\ d.token = u
    BY <2>2, <2>3
  <2> QED BY <2>1, <2>4 DEF Configs
<1>5. BeginsSave("httpd", d) /\ Loads(c)
  BY <1>1
<1> HIDE DEF d
<1>6. d.psk = d.token /\ d.ssid \in {0, d.token}
  BY <1>4
<1>7. pc["httpd"] = "recv" /\ UNCHANGED <<nvs, mode, rebooting, shown, button, outages, torn>>
  BY DEF Provision
<1> QED BY <1>2, <1>3, <1>4, <1>5, <1>6, <1>7

LEMMA RestartEffects ==
  ASSUME Outage \/ RebootTask \/ ButtonRestart
  PROVE  /\ Restart
         /\ pc'["httpd"] = "idle" /\ pc'["button"] = "poll" /\ ~rebooting' /\ mode' = "off"
         /\ nvs' = nvs /\ shown' = shown /\ faults' = faults
         /\ torn' = (torn \/ Saving("httpd") \/ (Saving("button") /\ ~alone["button"]))
BY DEF Outage, RebootTask, ButtonRestart, Restart, CutShort

(* The server's steps between saves. *)
LEMMA ServeEffects ==
  ASSUME Types, PostProvision \/ BadForm \/ Reply
  PROVE  /\ pc["httpd"] # "save" /\ pc'["httpd"] \notin {"save", "reply"}
         /\ pc'["button"] = pc["button"]
         /\ UNCHANGED <<nvs, cfg, at, mode, alone, torn>>
<1>1. PICK place \in {"recv", "idle"} : Goes("httpd", place)
  BY DEF PostProvision, BadForm, Reply
<1>2. pc'["httpd"] = place /\ pc'["button"] = pc["button"]
  BY <1>1, Moves, Pairs DEF Types
<1>3. pc["httpd"] # "save" /\ UNCHANGED <<nvs, cfg, at, mode, alone, torn>>
  BY DEF PostProvision, BadForm, Reply, history
<1> QED BY <1>1, <1>2, <1>3

LEMMA InitSafe == Init => Safety
<1> SUFFICES ASSUME Init PROVE Safety
  OBVIOUS
<1>1. Types
  <2>1. StoreTypes
    <3>1. Defaults \in Configs
      BY Forms
    <3>2. [Defaults EXCEPT !.settings = "stored"] \in Configs
      BY ConfigAssumption DEF ConfigAssumption, Defaults, Configs
    <3> QED BY <3>1, <3>2 DEF Init, StoreTypes
  <2>2. PlaceTypes
    BY DEF Init, PlaceTypes
  <2>3. AtTypes /\ CountTypes
    <3>1. at = [p \in Savers |-> 1]
      BY DEF Init
    <3>2. CountTypes
      BY ConfigAssumption DEF Init, CountTypes, ConfigAssumption
    <3> QED BY <3>1, <3>2 DEF AtTypes
  <2>4. FlagTypes
    BY DEF Init, FlagTypes
  <2>5. ButtonTypes
    <3>1. Blank \in Machines
      <4>1. 0 \in 0 .. Hold
        BY HoldAssumption DEF HoldAssumption
      <4> QED BY <4>1 DEF Blank, Machines
    <3>2. sinceUp \in 0 .. Hold + 1
      BY HoldAssumption DEF Init, HoldAssumption
    <3> QED BY <3>1, <3>2 DEF Init, ButtonTypes
  <2> QED BY <2>1, <2>2, <2>3, <2>4, <2>5 DEF Types
<1>2. Quiet /\ Contents /\ Progress /\ Meeting /\ Settings
  BY DEF Init, Quiet, Contents, Progress, Meeting, Settings, Saving, Savers
<1>3. NoLockOut
  BY DEF Init, NoLockOut, Defaults
<1>4. Tokens
  BY DEF Init, Tokens
<1>5. Pressing
  BY DEF Init, Pressing, Blank
<1> QED BY <1>1, <1>2, <1>3, <1>4, <1>5 DEF Safety

-----------------------------------------------------------------------------
(* Types. *)

LEMMA StoreTypesKept ==
  ASSUME Types, [Next]_vars PROVE StoreTypes'
<1>1. CASE Boot
  <2>1. cfg' = cfg /\ (nvs' = nvs \/ nvs' = Defaults)
    BY <1>1 DEF Boot, saves
  <2> QED BY <2>1, Forms DEF Types, StoreTypes
<1>2. ASSUME NEW p \in Savers, WriteKey(p) PROVE StoreTypes'
  <2>1. nvs' \in Configs
    BY <1>2, WriteEffects
  <2> QED BY <1>2, <2>1 DEF WriteKey, Types, StoreTypes
<1>3. CASE Provision
  <2>1. PICK d \in Configs : BeginsSave("httpd", d)
    BY <1>3, ProvisionEffects
  <2>2. cfg' \in [Savers -> Configs]
    BY <2>1, BeginEffects, Pairs
  <2>3. nvs' = nvs
    BY <1>3 DEF Provision
  <2> QED BY <2>2, <2>3 DEF StoreTypes, Types
<1>4. CASE ButtonPoll
  <2>1. ASSUME NEW c \in Configs, BeginsSave("button", Cleared(c))
        PROVE  cfg' \in [Savers -> Configs]
    <3>1. Cleared(c) \in Configs
      BY Forms
    <3> QED BY <2>1, <3>1, BeginEffects, Pairs
  <2> QED BY <1>4, <2>1, PollEffects DEF StoreTypes, Types
<1>5. CASE Outage \/ RebootTask \/ ButtonRestart
  <2>1. nvs' = nvs /\ cfg' = [p \in Savers |-> Defaults]
    BY <1>5, RestartEffects DEF Restart
  <2> QED BY <2>1, Forms DEF StoreTypes, Types
<1>6. CASE (\E p \in Savers : Commit(p) \/ SaveFails(p)) \/ PostProvision \/ BadForm \/ Reply
           \/ Finger \/ UNCHANGED vars
  <2>1. UNCHANGED <<nvs, cfg>>
    BY <1>6 DEF Commit, SaveFails, PostProvision, BadForm, Reply, Finger, saves, vars
  <2> QED BY <2>1 DEF StoreTypes, Types
<1> QED BY <1>1, <1>2, <1>3, <1>4, <1>5, <1>6 DEF Next

LEMMA Placed ==
  ASSUME PlaceTypes, mode' = mode, NEW p \in Savers, NEW place, Goes(p, place),
         \/ p = "httpd" /\ place \in {"idle", "recv", "save", "reply"}
         \/ p = "button" /\ place \in {"poll", "save", "flush"}
  PROVE  PlaceTypes'
BY DEF PlaceTypes, Goes

LEMMA PlaceTypesKept ==
  ASSUME Types, [Next]_vars PROVE PlaceTypes'
<1> PlaceTypes
  BY DEF Types
<1>1. CASE Boot
  <2>1. pc' = pc /\ mode' \in {"AP", "STA"}
    BY <1>1 DEF Boot, saves
  <2> QED BY <2>1 DEF PlaceTypes
<1>2. CASE Outage \/ RebootTask \/ ButtonRestart
  BY <1>2, RestartEffects DEF PlaceTypes, Restart
<1>3. ASSUME NEW p \in Savers, Commit(p) \/ SaveFails(p) PROVE PlaceTypes'
  <2>1. mode' = mode
    BY <1>3 DEF Commit, SaveFails
  <2>2. PICK place : /\ Goes(p, place)
                     /\ \/ p = "httpd" /\ place \in {"idle", "reply"}
                        \/ p = "button" /\ place = "flush"
    BY <1>3, Pairs DEF Commit, SaveFails, AfterSave, AfterClear
  <2> QED BY <2>1, <2>2, Placed
<1>4. CASE PostProvision \/ BadForm \/ Reply
  <2>1. PICK place \in {"recv", "idle"} : Goes("httpd", place) /\ mode' = mode
    BY <1>4 DEF PostProvision, BadForm, Reply
  <2> QED BY <2>1, Placed, Pairs
<1>5. CASE Provision
  <2>1. Goes("httpd", "save") /\ mode' = mode
    BY <1>5 DEF Provision, BeginsSave
  <2> QED BY <2>1, Placed, Pairs
<1>6. CASE ButtonPoll
  <2>1. mode' = mode /\ (pc' = pc \/ \E place \in {"save", "flush"} : Goes("button", place))
    BY <1>6, PollEffects DEF BeginsSave
  <2>2. CASE pc' = pc
    BY <2>1, <2>2 DEF PlaceTypes
  <2>3. CASE \E place \in {"save", "flush"} : Goes("button", place)
    BY <2>1, <2>3, Placed, Pairs
  <2> QED BY <2>1, <2>2, <2>3
<1>7. CASE (\E p \in Savers : WriteKey(p)) \/ Finger \/ UNCHANGED vars
  <2>1. UNCHANGED <<pc, mode>>
    BY <1>7 DEF WriteKey, Finger, saves, vars
  <2> QED BY <2>1 DEF PlaceTypes
<1> QED BY <1>1, <1>2, <1>3, <1>4, <1>5, <1>6, <1>7 DEF Next

LEMMA AtTypesKept ==
  ASSUME Types, [Next]_vars PROVE AtTypes'
<1>1. CASE Boot \/ (\E p \in Savers : Commit(p) \/ SaveFails(p)) \/ PostProvision \/ BadForm
           \/ Reply \/ Finger \/ UNCHANGED vars
  <2>1. UNCHANGED at
    BY <1>1 DEF Boot, Commit, SaveFails, PostProvision, BadForm, Reply, Finger, saves, vars
  <2> QED BY <2>1 DEF AtTypes, Types
<1>2. ASSUME NEW p \in Savers, WriteKey(p) PROVE AtTypes'
  <2>1. at' = [at EXCEPT ![p] = at[p] + 1]
    BY <1>2 DEF WriteKey
  <2>2. at[p] + 1 \in 1 .. 5
    BY <1>2, WriteEffects
  <2> QED BY <2>1, <2>2 DEF AtTypes, Types
<1>3. CASE Provision
  <2>1. PICK d \in Configs : BeginsSave("httpd", d)
    BY <1>3, ProvisionEffects
  <2> QED BY <2>1, BeginEffects, Pairs DEF AtTypes
<1>4. CASE ButtonPoll
  <2>1. ASSUME NEW c \in Configs, BeginsSave("button", Cleared(c)) PROVE AtTypes'
    <3>1. Cleared(c) \in Configs
      BY Forms
    <3> QED BY <2>1, <3>1, BeginEffects, Pairs DEF AtTypes
  <2> QED BY <1>4, <2>1, PollEffects DEF AtTypes, Types
<1>5. CASE Outage \/ RebootTask \/ ButtonRestart
  <2>1. at' = [p \in Savers |-> 1]
    BY <1>5, RestartEffects DEF Restart
  <2> QED BY <2>1 DEF AtTypes
<1> QED BY <1>1, <1>2, <1>3, <1>4, <1>5 DEF Next

LEMMA FlagTypesKept ==
  ASSUME Types, [Next]_vars PROVE FlagTypes'
<1> FlagTypes
  BY DEF Types
<1>1. CASE UNCHANGED <<rebooting, torn, alone>>
  BY <1>1 DEF FlagTypes
<1>2. ASSUME NEW p \in Savers, Commit(p) \/ SaveFails(p) PROVE FlagTypes'
  <2>1. UNCHANGED <<rebooting, alone>> /\ torn' \in BOOLEAN
    BY <1>2, CommitEffects, FailEffects DEF Commit, SaveFails
  <2> QED BY <2>1 DEF FlagTypes
<1>3. CASE Reply
  <2>1. UNCHANGED <<torn, alone>> /\ (rebooting' = TRUE \/ rebooting' = rebooting)
    BY <1>3 DEF Reply, history
  <2> QED BY <2>1 DEF FlagTypes
<1>4. CASE Provision
  <2>1. PICK d \in Configs : BeginsSave("httpd", d)
    BY <1>4, ProvisionEffects
  <2>2. alone' \in [Savers -> BOOLEAN]
    BY <2>1, BeginEffects, Pairs
  <2>3. UNCHANGED <<rebooting, torn>>
    BY <1>4 DEF Provision
  <2> QED BY <2>2, <2>3 DEF FlagTypes
<1>5. CASE ButtonPoll
  <2>1. UNCHANGED <<rebooting, torn>>
    BY <1>5, PollEffects
  <2>2. ASSUME NEW c \in Configs, BeginsSave("button", Cleared(c))
        PROVE  alone' \in [Savers -> BOOLEAN]
    <3>1. Cleared(c) \in Configs
      BY Forms
    <3> QED BY <2>2, <3>1, BeginEffects, Pairs
  <2>3. alone' \in [Savers -> BOOLEAN]
    BY <1>5, <2>2, PollEffects DEF FlagTypes
  <2> QED BY <2>1, <2>3 DEF FlagTypes
<1>6. CASE Outage \/ RebootTask \/ ButtonRestart
  <2>1. rebooting' = FALSE /\ alone' = [p \in Savers |-> TRUE]
    BY <1>6, RestartEffects DEF Restart
  <2>2. torn' \in BOOLEAN
    BY <1>6, RestartEffects
  <2> QED BY <2>1, <2>2 DEF FlagTypes
<1>7. CASE Boot \/ (\E p \in Savers : WriteKey(p)) \/ PostProvision \/ BadForm \/ Finger
           \/ UNCHANGED vars
  <2>1. UNCHANGED <<rebooting, torn, alone>>
    BY <1>7 DEF Boot, WriteKey, PostProvision, BadForm, Finger, history, vars
  <2> QED BY <2>1, <1>1
<1> QED BY <1>2, <1>3, <1>4, <1>5, <1>6, <1>7 DEF Next

LEMMA Faulty ==
  ASSUME Types, Fault \/ UNCHANGED faults PROVE faults' \in 0 .. MaxFaults
BY ConfigAssumption DEF ConfigAssumption, Types, CountTypes, Fault

LEMMA CountTypesKept ==
  ASSUME Types, [Next]_vars PROVE CountTypes'
<1> CountTypes
  BY DEF Types
<1>1. Fault \/ UNCHANGED faults
  BY DEF Next, Boot, Loads, Outage, RebootTask, ButtonRestart, Restart, WriteKey, Commit, SaveFails,
     PostProvision, BadForm, Provision, Reply, Finger, ButtonPoll, NoFault, vars
<1>2. faults' \in 0 .. MaxFaults
  BY <1>1, Faulty
<1>3. CASE Provision
  <2>1. tokens' \in 0 .. MaxTokens /\ UNCHANGED <<shown, outages>>
    BY <1>3, ProvisionEffects
  <2> QED BY <1>2, <2>1 DEF CountTypes
<1>4. CASE Reply
  <2>1. shown' = cfg["httpd"].token /\ UNCHANGED <<tokens, outages>>
    BY <1>4 DEF Reply
  <2>2. cfg["httpd"].token \in 0 .. MaxTokens
    BY Pairs DEF Types, StoreTypes, Configs
  <2> QED BY <1>2, <2>1, <2>2 DEF CountTypes
<1>5. CASE Outage
  <2>1. outages < MaxOutages /\ outages' = outages + 1 /\ UNCHANGED <<tokens, shown>>
    BY <1>5 DEF Outage, Restart
  <2>2. outages' \in 0 .. MaxOutages
    BY <2>1, ConfigAssumption DEF ConfigAssumption, CountTypes
  <2> QED BY <1>2, <2>1, <2>2 DEF CountTypes
<1>6. CASE \/ Boot \/ RebootTask \/ ButtonRestart \/ PostProvision \/ BadForm \/ Finger \/ ButtonPoll
           \/ (\E p \in Savers : WriteKey(p) \/ Commit(p) \/ SaveFails(p)) \/ UNCHANGED vars
  <2>1. UNCHANGED <<tokens, shown, outages>>
    BY <1>6 DEF Boot, RebootTask, ButtonRestart, Restart, PostProvision, BadForm, Finger, ButtonPoll,
       WriteKey, Commit, SaveFails, vars
  <2> QED BY <1>2, <2>1 DEF CountTypes
<1> QED BY <1>3, <1>4, <1>5, <1>6 DEF Next

(* The machine of the button ages and is fed.                              *)
LEMMA Aging ==
  ASSUME NEW m \in Machines, NEW d \in Nat
  PROVE  /\ Aged(m, d) \in Machines /\ Aged(m, d).prev_pressed = m.prev_pressed
         /\ Aged(m, d).held = IF m.held + d < Hold THEN m.held + d ELSE Hold
<1>1. m.held \in 0 .. Hold
  BY DEF Machines
<1>2. PICK N, h : N = 0 .. Hold /\ h = IF m.held + d < Hold THEN m.held + d ELSE Hold
  OBVIOUS
<1>3. h \in N
  BY <1>1, <1>2, HoldAssumption DEF HoldAssumption
<1>4. m \in [prev_pressed : BOOLEAN, held : N, fired : BOOLEAN]
  BY <1>2 DEF Machines
<1>5. Aged(m, d) = [m EXCEPT !.held = h]
  BY <1>2 DEF Aged
<1>6. /\ Aged(m, d) \in [prev_pressed : BOOLEAN, held : N, fired : BOOLEAN]
      /\ Aged(m, d).prev_pressed = m.prev_pressed /\ Aged(m, d).held = h
  BY <1>3, <1>4, <1>5
<1> QED BY <1>2, <1>6 DEF Machines

LEMMA Feeding ==
  ASSUME NEW m \in Machines, NEW p \in BOOLEAN
  PROVE  /\ Update(m, p) \in Machines
         /\ ~p => ~Update(m, p).prev_pressed
         /\ p /\ ~m.prev_pressed => Update(m, p).held = 0
         /\ p /\ m.prev_pressed => Update(m, p).held = m.held
<1>1. PICK N : N = 0 .. Hold
  OBVIOUS
<1>2. m \in [prev_pressed : BOOLEAN, held : N, fired : BOOLEAN] /\ 0 \in N
  BY <1>1, HoldAssumption DEF Machines, HoldAssumption
<1>3. CASE ~p
  <2>1. Update(m, p) = Released(m)
    BY <1>3 DEF Update
  <2>2. /\ Released(m) \in [prev_pressed : BOOLEAN, held : N, fired : BOOLEAN]
        /\ ~Released(m).prev_pressed
    BY <1>2 DEF Released
  <2> QED BY <1>1, <1>3, <2>1, <2>2 DEF Machines
<1>4. CASE p /\ ~m.prev_pressed
  <2>1. Update(m, p) = PressBegins(m)
    BY <1>4 DEF Update
  <2>2. /\ PressBegins(m) \in [prev_pressed : BOOLEAN, held : N, fired : BOOLEAN]
        /\ PressBegins(m).held = 0
    BY <1>2 DEF PressBegins
  <2> QED BY <1>1, <1>4, <2>1, <2>2 DEF Machines
<1>5. CASE p /\ m.prev_pressed
  <2>1. PICK f \in BOOLEAN : f = (m.fired \/ Fires(m, p))
    OBVIOUS
  <2>2. Update(m, p) = [m EXCEPT !.fired = f]
    BY <1>5, <2>1 DEF Update
  <2>3. /\ Update(m, p) \in [prev_pressed : BOOLEAN, held : N, fired : BOOLEAN]
        /\ Update(m, p).held = m.held
    BY <1>2, <2>2
  <2> QED BY <1>1, <1>5, <2>3 DEF Machines
<1> QED BY <1>3, <1>4, <1>5

LEMMA ButtonKept ==
  ASSUME Types, Pressing, [Next]_vars PROVE ButtonTypes' /\ Pressing'
<1> ButtonTypes
  BY DEF Types
<1>1. CASE UNCHANGED button
  <2>1. UNCHANGED <<pressed, sm, sinceUp>>
    BY <1>1 DEF button
  <2> QED BY <2>1 DEF ButtonTypes, Pressing
<1>2. CASE Finger
  <2>1. UNCHANGED <<sm, sinceUp>> /\ pressed' \in BOOLEAN
    BY <1>2 DEF Finger
  <2> QED BY <2>1 DEF ButtonTypes, Pressing
<1>3. CASE Outage \/ RebootTask \/ ButtonRestart
  <2>1. pressed' = pressed /\ sm' = Blank /\ sinceUp' = 0
    BY <1>3, RestartEffects DEF Restart
  <2>2. Blank \in Machines /\ ~Blank.prev_pressed
    <3>1. 0 \in 0 .. Hold
      BY HoldAssumption DEF HoldAssumption
    <3> QED BY <3>1 DEF Blank, Machines
  <2>3. sinceUp' \in 0 .. Hold + 1
    BY <2>1, HoldAssumption DEF HoldAssumption
  <2> QED BY <2>1, <2>2, <2>3 DEF ButtonTypes, Pressing
<1>4. CASE ButtonPoll
  <2>1. PICK d \in 1 .. Late : /\ sm' = Update(Aged(sm, d), pressed)
                              /\ sinceUp' = IF pressed THEN Capped(sinceUp + d) ELSE 0
    BY <1>4 DEF ButtonPoll
  <2>2. pressed' = pressed
    BY <1>4 DEF ButtonPoll
  <2>3. d \in Nat /\ d >= 1 /\ Hold \in Nat /\ sinceUp \in 0 .. Hold + 1 /\ sm.held \in 0 .. Hold
    BY <2>1, HoldAssumption, ConfigAssumption
       DEF HoldAssumption, ConfigAssumption, ButtonTypes, Machines
  <2>4. sinceUp' \in 0 .. Hold + 1
    BY <2>1, <2>3 DEF Capped
  <2>5. sm' \in Machines
    BY <2>1, <2>3, Aging, Feeding DEF ButtonTypes
  <2>6. Pressing'
    <3> SUFFICES ASSUME sm'.prev_pressed PROVE sinceUp' > sm'.held
      BY DEF Pressing
    <3> DEFINE m == Aged(sm, d)
    <3>1. /\ m \in Machines /\ m.prev_pressed = sm.prev_pressed
          /\ m.held = IF sm.held + d < Hold THEN sm.held + d ELSE Hold
      BY <2>3, Aging DEF ButtonTypes
    <3>2. sm' = Update(m, pressed)
      BY <2>1
    <3> HIDE DEF m
    <3>3. pressed
      BY <3>1, <3>2, Feeding DEF ButtonTypes
    <3>4. sinceUp' = Capped(sinceUp + d)
      BY <2>1, <3>3
    <3>5. CASE ~m.prev_pressed
      <4>1. sm'.held = 0
        BY <3>1, <3>2, <3>3, <3>5, Feeding DEF ButtonTypes
      <4> QED BY <2>3, <3>4, <4>1 DEF Capped
    <3>6. CASE m.prev_pressed
      <4>1. sm'.held = m.held
        BY <3>1, <3>2, <3>3, <3>6, Feeding DEF ButtonTypes
      <4>2. sinceUp > sm.held
        BY <3>1, <3>6 DEF Pressing
      <4> QED BY <2>3, <3>1, <3>4, <4>1, <4>2 DEF Capped
    <3> QED BY <3>5, <3>6
  <2> QED BY <2>2, <2>4, <2>5, <2>6 DEF ButtonTypes
<1>5. CASE \/ Boot \/ PostProvision \/ BadForm \/ Provision \/ Reply \/ UNCHANGED vars
           \/ (\E p \in Savers : WriteKey(p) \/ Commit(p) \/ SaveFails(p))
  <2>1. UNCHANGED button
    BY <1>5 DEF Boot, PostProvision, BadForm, Provision, Reply, WriteKey, Commit, SaveFails, vars
  <2> QED BY <1>1, <2>1
<1> QED BY <1>2, <1>3, <1>4, <1>5 DEF Next

LEMMA TypesKept ==
  ASSUME Types, Pressing, [Next]_vars PROVE Types' /\ Pressing'
BY StoreTypesKept, PlaceTypesKept, AtTypesKept, FlagTypesKept, CountTypesKept, ButtonKept DEF Types

-----------------------------------------------------------------------------
(* Who is at work, what is saved, and how far it has come. *)

LEMMA BootEffects ==
  ASSUME Boot
  PROVE  /\ mode = "off" /\ mode' # "off"
         /\ UNCHANGED <<pc, cfg, at, rebooting, shown, alone, torn>>
         /\ nvs' = nvs \/ (nvs' = Defaults /\ Fault)
BY DEF Boot, saves, history

LEMMA RestEffects ==
  ASSUME Finger \/ UNCHANGED vars
  PROVE  UNCHANGED <<nvs, mode, pc, cfg, at, rebooting, shown, faults, alone, torn>>
BY DEF Finger, saves, history, vars

LEMMA QuietKept ==
  ASSUME Types, Quiet, [Next]_vars PROVE Quiet'
<1>1. CASE Boot
  BY <1>1, BootEffects DEF Quiet
<1>2. CASE Outage \/ RebootTask \/ ButtonRestart
  BY <1>2, RestartEffects DEF Quiet
<1>3. ASSUME NEW p \in Savers, WriteKey(p) \/ Commit(p) \/ SaveFails(p) PROVE Quiet'
  <2>1. pc[p] = "save" /\ mode' = mode
    BY <1>3 DEF WriteKey, Commit, SaveFails, Saving
  <2>2. mode # "off"
    BY <2>1, Pairs DEF Quiet
  <2> QED BY <2>1, <2>2 DEF Quiet
<1>4. CASE PostProvision \/ BadForm \/ Provision \/ Reply
  <2>1. mode' = mode /\ mode # "off"
    BY <1>4 DEF PostProvision, BadForm, Provision, Reply, Quiet
  <2> QED BY <2>1 DEF Quiet
<1>5. CASE ButtonPoll
  BY <1>5, PollEffects DEF Quiet
<1>6. CASE Finger \/ UNCHANGED vars
  BY <1>6, RestEffects DEF Quiet
<1> QED BY <1>1, <1>2, <1>3, <1>4, <1>5, <1>6 DEF Next

LEMMA ContentsKept ==
  ASSUME Types, Quiet, Contents, [Next]_vars PROVE Contents'
<1>1. CASE Boot
  BY <1>1, BootEffects DEF Contents, Saving
<1>2. CASE Outage \/ RebootTask \/ ButtonRestart
  BY <1>2, RestartEffects DEF Contents, Saving
<1>3. ASSUME NEW p \in Savers, WriteKey(p) PROVE Contents'
  <2>1. UNCHANGED <<pc, cfg>>
    BY <1>3 DEF WriteKey
  <2> QED BY <2>1 DEF Contents, Saving
<1>4. ASSUME NEW p \in Savers, Commit(p) \/ SaveFails(p) PROVE Contents'
  <2>1. UNCHANGED cfg
    BY <1>4 DEF Commit, SaveFails
  <2>2. /\ pc[p] = "save" /\ pc'[p] # "save"
        /\ \A q \in Savers : q # p => pc'[q] = pc[q]
    BY <1>4, CommitEffects, FailEffects DEF Saving
  <2>3. CASE p = "httpd"
    BY <2>1, <2>2, <2>3, Pairs DEF Contents, Saving
  <2>4. CASE p = "button"
    BY <2>1, <2>2, <2>4, Pairs DEF Contents, Saving
  <2> QED BY <2>3, <2>4, Pairs
<1>5. CASE PostProvision \/ BadForm \/ Reply
  BY <1>5, ServeEffects DEF Contents, Saving
<1>6. CASE Provision
  <2>1. PICK d \in Configs :
          BeginsSave("httpd", d) /\ d.psk = d.token /\ d.ssid \in {0, d.token}
    BY <1>6, ProvisionEffects
  <2>2. pc'["button"] = pc["button"] /\ cfg'["httpd"] = d /\ cfg'["button"] = cfg["button"]
    BY <2>1, BeginEffects, Pairs
  <2> QED BY <2>1, <2>2 DEF Contents, Saving
<1>7. CASE ButtonPoll
  <2>1. ASSUME NEW c \in Configs, BeginsSave("button", Cleared(c)) PROVE Contents'
    <3>1. /\ Cleared(c) \in Configs
          /\ Cleared(c).ssid = 0 /\ Cleared(c).psk = 0 /\ Cleared(c).token = 0
      BY Forms
    <3>2. /\ pc'["httpd"] = pc["httpd"] /\ cfg'["button"] = Cleared(c)
          /\ cfg'["httpd"] = cfg["httpd"]
      BY <2>1, <3>1, BeginEffects, Pairs
    <3> QED BY <3>1, <3>2 DEF Contents, Saving
  <2>2. ASSUME Goes("button", "flush"), UNCHANGED cfg PROVE Contents'
    <3>1. pc'["button"] = "flush" /\ pc'["httpd"] = pc["httpd"]
      BY <2>2, Moves, Pairs DEF Types
    <3> QED BY <2>2, <3>1 DEF Contents, Saving
  <2>3. CASE UNCHANGED <<pc, cfg>>
    BY <2>3 DEF Contents, Saving
  <2> QED BY <1>7, <2>1, <2>2, <2>3, PollEffects
<1>8. CASE Finger \/ UNCHANGED vars
  BY <1>8, RestEffects DEF Contents, Saving
<1> QED BY <1>1, <1>2, <1>3, <1>4, <1>5, <1>6, <1>7, <1>8 DEF Next

LEMMA MeetingKept ==
  ASSUME Types, Quiet, Meeting, [Next]_vars PROVE Meeting'
<1>1. CASE Boot
  BY <1>1, BootEffects DEF Meeting, Saving
<1>2. CASE Outage \/ RebootTask \/ ButtonRestart
  BY <1>2, RestartEffects DEF Meeting, Saving
<1>3. ASSUME NEW p \in Savers, WriteKey(p) PROVE Meeting'
  <2>1. UNCHANGED <<pc, alone, torn>>
    BY <1>3 DEF WriteKey, history
  <2> QED BY <2>1 DEF Meeting, Saving
<1>4. ASSUME NEW p \in Savers, Commit(p) \/ SaveFails(p) PROVE Meeting'
  <2>1. UNCHANGED alone
    BY <1>4 DEF Commit, SaveFails
  <2>2. /\ pc[p] = "save" /\ pc'[p] # "save"
        /\ \A q \in Savers : q # p => pc'[q] = pc[q]
        /\ ~alone[p] => torn'
    BY <1>4, CommitEffects, FailEffects DEF Saving
  <2>3. CASE p = "httpd"
    <3>1. pc["httpd"] = "save" /\ pc'["httpd"] # "save" /\ pc'["button"] = pc["button"]
      BY <2>2, <2>3, Pairs
    <3> QED BY <2>1, <2>2, <2>3, <3>1 DEF Meeting, Saving
  <2>4. CASE p = "button"
    <3>1. pc'["button"] # "save"
      BY <2>2, <2>4
    <3> QED BY <3>1 DEF Meeting, Saving
  <2> QED BY <2>3, <2>4, Pairs
<1>5. CASE PostProvision \/ BadForm \/ Reply
  BY <1>5, ServeEffects DEF Meeting, Saving
<1>6. CASE Provision
  <2>1. PICK d \in Configs : BeginsSave("httpd", d)
    BY <1>6, ProvisionEffects
  <2>2. /\ pc'["httpd"] = "save" /\ pc'["button"] = pc["button"]
        /\ Saving("button") => ~alone'["httpd"] /\ ~alone'["button"]
    BY <2>1, BeginEffects, Pairs
  <2> QED BY <2>2 DEF Meeting, Saving
<1>7. CASE ButtonPoll
  <2>1. ASSUME NEW c \in Configs, BeginsSave("button", Cleared(c)) PROVE Meeting'
    <3>1. Cleared(c) \in Configs
      BY Forms
    <3>2. /\ pc'["httpd"] = pc["httpd"]
          /\ Saving("httpd") => ~alone'["httpd"] /\ ~alone'["button"]
          /\ ~Saving("httpd") => alone'["button"]
      BY <2>1, <3>1, BeginEffects, Pairs
    <3> QED BY <3>2 DEF Meeting, Saving
  <2>2. ASSUME Goes("button", "flush") PROVE Meeting'
    <3>1. pc'["button"] = "flush"
      BY <2>2, Moves, Pairs DEF Types
    <3> QED BY <3>1 DEF Meeting, Saving
  <2>3. CASE UNCHANGED <<pc, alone, torn>>
    BY <2>3 DEF Meeting, Saving
  <2> QED BY <1>7, <2>1, <2>2, <2>3, PollEffects
<1>8. CASE Finger \/ UNCHANGED vars
  BY <1>8, RestEffects DEF Meeting, Saving
<1> QED BY <1>1, <1>2, <1>3, <1>4, <1>5, <1>6, <1>7, <1>8 DEF Next

LEMMA ProgressKept ==
  ASSUME Types, Quiet, Progress, Meeting, [Next]_vars PROVE Progress'
<1> DEFINE Come(q) == /\ at[q] > 1 => nvs.ssid = cfg[q].ssid
                      /\ at[q] > 2 => nvs.psk = cfg[q].psk
                      /\ at[q] > 3 => nvs.token = cfg[q].token
<1> SUFFICES ASSUME NEW q \in Savers, Saving(q)', alone'[q] PROVE Come(q)'
  BY DEF Progress
<1>1. CASE Boot
  BY <1>1, BootEffects, Pairs DEF Quiet, Saving
<1>2. CASE Outage \/ RebootTask \/ ButtonRestart
  BY <1>2, RestartEffects, Pairs DEF Saving
<1>3. ASSUME NEW p \in Savers, WriteKey(p) PROVE Come(q)'
  <2>1. UNCHANGED <<pc, cfg, alone>>
    BY <1>3 DEF WriteKey, history
  <2>2. Saving(p) /\ Saving(q) /\ alone[q]
    BY <1>3, <2>1, WriteEffects DEF Saving
  <2>3. p = q
    BY <2>2, Pairs DEF Meeting
  <2>4. Come(q)
    BY <2>2 DEF Progress
  <2>5. /\ at[q] \in 1 .. 4 /\ at'[q] = at[q] + 1
        /\ nvs'.ssid = IF at[q] = 1 THEN cfg[q].ssid ELSE nvs.ssid
        /\ nvs'.psk = IF at[q] = 2 THEN cfg[q].psk ELSE nvs.psk
        /\ nvs'.token = IF at[q] = 3 THEN cfg[q].token ELSE nvs.token
    BY <1>3, <2>3, WriteEffects
  <2> QED BY <2>1, <2>4, <2>5
<1>4. ASSUME NEW p \in Savers, Commit(p) \/ SaveFails(p) PROVE Come(q)'
  <2>1. UNCHANGED <<nvs, cfg, at, alone>>
    BY <1>4 DEF Commit, SaveFails
  <2>2. pc'[p] # "save" /\ (q # p => pc'[q] = pc[q])
    BY <1>4, CommitEffects, FailEffects
  <2>3. Saving(q) /\ alone[q]
    BY <2>1, <2>2 DEF Saving
  <2> QED BY <2>1, <2>3 DEF Progress
<1>5. CASE PostProvision \/ BadForm \/ Reply
  <2>1. UNCHANGED <<nvs, cfg, at, alone>>
    BY <1>5, ServeEffects
  <2>2. Saving(q) /\ alone[q]
    BY <1>5, <2>1, ServeEffects, Pairs DEF Saving
  <2> QED BY <2>1, <2>2 DEF Progress
<1>6. ASSUME NEW p \in Savers, NEW r \in Savers, p # r, NEW d \in Configs, BeginsSave(p, d),
             nvs' = nvs
      PROVE  Come(q)'
  <2>1. CASE q = p
    <3>1. at'[q] = 1
      BY <1>6, <2>1, BeginEffects
    <3> QED BY <3>1
  <2>2. CASE q = r
    <3>1. ~Saving(r)
      BY <1>6, <2>2, BeginEffects
    <3>2. pc'[r] = pc[r]
      BY <1>6, BeginEffects
    <3> QED BY <2>2, <3>1, <3>2 DEF Saving
  <2> QED BY <1>6, <2>1, <2>2, Pairs
<1>7. CASE Provision
  <2>1. PICK d \in Configs : BeginsSave("httpd", d)
    BY <1>7, ProvisionEffects
  <2>2. nvs' = nvs
    BY <1>7 DEF Provision
  <2> QED BY <1>6, <2>1, <2>2, Pairs
<1>8. CASE ButtonPoll
  <2>1. nvs' = nvs
    BY <1>8, PollEffects
  <2>2. ASSUME NEW c \in Configs, BeginsSave("button", Cleared(c)) PROVE Come(q)'
    <3>1. Cleared(c) \in Configs
      BY Forms
    <3> QED BY <1>6, <2>1, <2>2, <3>1, Pairs
  <2>3. ASSUME Goes("button", "flush"), UNCHANGED <<cfg, at, alone>> PROVE Come(q)'
    <3>1. pc'["button"] = "flush" /\ pc'["httpd"] = pc["httpd"]
      BY <2>3, Moves, Pairs DEF Types
    <3>2. Saving(q) /\ alone[q]
      BY <2>3, <3>1, Pairs DEF Saving
    <3> QED BY <2>1, <2>3, <3>2 DEF Progress
  <2>4. CASE UNCHANGED <<pc, cfg, at, alone>>
    BY <2>1, <2>4 DEF Progress, Saving
  <2> QED BY <1>8, <2>2, <2>3, <2>4, PollEffects
<1>9. CASE Finger \/ UNCHANGED vars
  BY <1>9, RestEffects DEF Progress, Saving
<1> QED BY <1>1, <1>2, <1>3, <1>4, <1>5, <1>7, <1>8, <1>9 DEF Next

(* A save that was alone to its end is in the store.                       *)
LEMMA Saved ==
  ASSUME Types, Progress, NEW p \in Savers, Commit(p), ~torn'
  PROVE  nvs.ssid = cfg[p].ssid /\ nvs.psk = cfg[p].psk /\ nvs.token = cfg[p].token
<1>1. Saving(p) /\ alone[p] /\ at[p] = 5
  BY CommitEffects
<1> QED BY <1>1 DEF Progress

LEMMA NoLockOutKept ==
  ASSUME Types, Quiet, Contents, Progress, Meeting, NoLockOut, [Next]_vars PROVE NoLockOut'
<1> SUFFICES ASSUME ~torn', ~Saving("httpd")', nvs'.ssid # 0
             PROVE  nvs'.psk = nvs'.ssid /\ nvs'.token = nvs'.ssid
  BY DEF NoLockOut
<1>1. CASE UNCHANGED <<nvs, torn>> /\ pc["httpd"] # "save"
  BY <1>1 DEF NoLockOut, Saving
<1>2. CASE Boot
  <2>1. nvs' # Defaults
    BY DEF Defaults
  <2> QED BY <1>1, <1>2, <2>1, BootEffects DEF Saving
<1>3. CASE Outage \/ RebootTask \/ ButtonRestart
  <2>1. nvs' = nvs /\ ~torn /\ ~Saving("httpd")
    BY <1>3, RestartEffects
  <2> QED BY <2>1 DEF NoLockOut
<1>4. ASSUME NEW p \in Savers, WriteKey(p)
      PROVE  nvs'.psk = nvs'.ssid /\ nvs'.token = nvs'.ssid
  <2>1. UNCHANGED <<pc, torn>> /\ Saving(p)
    BY <1>4, WriteEffects DEF WriteKey, history
  <2>2. p = "button"
    BY <2>1, Pairs DEF Saving
  <2>3. Saving("button") /\ alone["button"] /\ cfg["button"].ssid = 0
    BY <2>1, <2>2 DEF Meeting, Contents, Saving
  <2>4. /\ at["button"] \in 1 .. 4
        /\ nvs'.ssid = IF at["button"] = 1 THEN cfg["button"].ssid ELSE nvs.ssid
    BY <1>4, <2>2, WriteEffects
  <2>5. at["button"] > 1 => nvs.ssid = 0
    BY <2>3, Pairs DEF Progress
  <2>6. nvs'.ssid = 0
    BY <2>3, <2>4, <2>5
  <2> QED BY <2>6
<1>5. ASSUME NEW p \in Savers, Commit(p)
      PROVE  nvs'.psk = nvs'.ssid /\ nvs'.token = nvs'.ssid
  <2>1. nvs' = nvs /\ Saving(p)
    BY <1>5 DEF Commit
  <2>2. nvs.ssid = cfg[p].ssid /\ nvs.psk = cfg[p].psk /\ nvs.token = cfg[p].token
    BY <1>5, Saved
  <2>3. p # "button"
    BY <2>1, <2>2 DEF Contents
  <2>4. p = "httpd"
    BY <2>3, Pairs
  <2>5. cfg["httpd"].psk = cfg["httpd"].token /\ cfg["httpd"].ssid \in {0, cfg["httpd"].token}
    BY <2>1, <2>4 DEF Contents, Saving
  <2> QED BY <2>1, <2>2, <2>4, <2>5
<1>6. ASSUME NEW p \in Savers, SaveFails(p)
      PROVE  nvs'.psk = nvs'.ssid /\ nvs'.token = nvs'.ssid
  <2>1. p # "httpd" /\ ~torn
    BY <1>6, FailEffects
  <2>2. pc'["httpd"] = pc["httpd"] /\ nvs' = nvs
    BY <1>6, <2>1, FailEffects, Pairs DEF SaveFails
  <2> QED BY <2>1, <2>2 DEF NoLockOut, Saving
<1>7. CASE PostProvision \/ BadForm \/ Reply
  BY <1>1, <1>7, ServeEffects
<1>8. CASE Provision
  <2>1. PICK d \in Configs : BeginsSave("httpd", d)
    BY <1>8, ProvisionEffects
  <2>2. pc'["httpd"] = "save"
    BY <2>1, BeginEffects, Pairs
  <2> QED BY <2>2 DEF Saving
<1>9. CASE ButtonPoll
  <2>1. ASSUME NEW c \in Configs, BeginsSave("button", Cleared(c))
        PROVE  pc'["httpd"] = pc["httpd"]
    <3>1. Cleared(c) \in Configs
      BY Forms
    <3> QED BY <2>1, <3>1, BeginEffects, Pairs
  <2>2. ASSUME Goes("button", "flush") PROVE pc'["httpd"] = pc["httpd"]
    BY <2>2, Moves, Pairs DEF Types
  <2>3. UNCHANGED <<nvs, torn>> /\ pc'["httpd"] = pc["httpd"]
    BY <1>9, <2>1, <2>2, PollEffects
  <2> QED BY <1>1, <2>3 DEF Saving
<1>10. CASE Finger \/ UNCHANGED vars
  BY <1>1, <1>10, RestEffects DEF Saving
<1> QED BY <1>2, <1>3, <1>4, <1>5, <1>6, <1>7, <1>8, <1>9, <1>10 DEF Next

LEMMA TokensKept ==
  ASSUME Types, Quiet, Progress, Tokens, [Next]_vars PROVE Tokens'
<1> SUFFICES ASSUME ~torn', pc'["button"] = "poll"
             PROVE  /\ pc'["httpd"] = "reply" => nvs'.token = cfg'["httpd"].token
                    /\ rebooting' /\ pc'["httpd"] \in {"idle", "recv"} => nvs'.token = shown'
  BY DEF Tokens
<1>1. CASE UNCHANGED <<nvs, pc, cfg, rebooting, shown, torn>>
  BY <1>1 DEF Tokens
<1>2. CASE Boot
  BY <1>2, BootEffects DEF Quiet
<1>3. CASE Outage \/ RebootTask \/ ButtonRestart
  BY <1>3, RestartEffects
<1>4. ASSUME NEW p \in Savers, WriteKey(p) PROVE pc'["httpd"] = "save"
  <2>1. pc' = pc /\ pc[p] = "save"
    BY <1>4 DEF WriteKey, Saving
  <2> QED BY <2>1, Pairs
<1>5. ASSUME NEW p \in Savers, Commit(p)
      PROVE  pc'["httpd"] = "reply" /\ nvs'.token = cfg'["httpd"].token
  <2>1. p = "httpd"
    BY <1>5, CommitEffects, Pairs
  <2>2. pc'["httpd"] = "reply" /\ nvs' = nvs /\ cfg' = cfg
    BY <1>5, <2>1, CommitEffects, Pairs DEF Commit
  <2> QED BY <1>5, <2>1, <2>2, Saved
<1>6. ASSUME NEW p \in Savers, SaveFails(p) PROVE FALSE
  <2>1. p # "httpd" /\ p # "button"
    BY <1>6, FailEffects
  <2> QED BY <2>1, Pairs
<1>7. CASE PostProvision \/ BadForm
  <2>1. UNCHANGED <<nvs, rebooting, shown, torn>> /\ pc["httpd"] \in {"idle", "recv"}
    BY <1>7 DEF PostProvision, BadForm, history
  <2>2. pc'["button"] = pc["button"] /\ pc'["httpd"] # "reply"
    BY <1>7, ServeEffects
  <2> QED BY <2>1, <2>2 DEF Tokens
<1>8. CASE Reply
  <2>1. UNCHANGED <<nvs, torn>> /\ pc["httpd"] = "reply" /\ shown' = cfg["httpd"].token
    BY <1>8 DEF Reply, history
  <2>2. pc'["button"] = pc["button"] /\ pc'["httpd"] # "reply"
    BY <1>8, ServeEffects
  <2> QED BY <2>1, <2>2 DEF Tokens
<1>9. CASE Provision
  <2>1. PICK d \in Configs : BeginsSave("httpd", d)
    BY <1>9, ProvisionEffects
  <2>2. pc'["httpd"] = "save"
    BY <2>1, BeginEffects, Pairs
  <2> QED BY <2>2
<1>10. CASE ButtonPoll
  <2>1. ASSUME NEW c \in Configs, BeginsSave("button", Cleared(c)) PROVE FALSE
    <3>1. Cleared(c) \in Configs
      BY Forms
    <3>2. pc'["button"] = "save"
      BY <2>1, <3>1, BeginEffects, Pairs
    <3> QED BY <3>2
  <2>2. ASSUME Goes("button", "flush") PROVE FALSE
    <3>1. pc'["button"] = "flush"
      BY <2>2, Moves, Pairs DEF Types
    <3> QED BY <3>1
  <2> QED BY <1>1, <1>10, <2>1, <2>2, PollEffects
<1>11. CASE Finger \/ UNCHANGED vars
  BY <1>1, <1>11, RestEffects
<1> QED BY <1>2, <1>3, <1>4, <1>5, <1>6, <1>7, <1>8, <1>9, <1>10, <1>11 DEF Next

LEMMA Unfailing == Types /\ faults' = 0 => ~Fault
BY ConfigAssumption DEF ConfigAssumption, Types, CountTypes, Fault

LEMMA SameSettings ==
  ASSUME Types, Quiet, Settings, [Next]_vars
  PROVE  /\ faults' = 0 => nvs'.settings = nvs.settings
         /\ Settings'
<1> SUFFICES ASSUME faults' = 0
             PROVE  /\ nvs'.settings = nvs.settings
                    /\ \A q \in Savers : Saving(q)' => cfg'[q].settings = nvs'.settings
  BY DEF Settings
<1>1. ~Fault
  BY Unfailing
<1>2. CASE Boot
  <2>1. nvs' = nvs
    BY <1>1, <1>2, BootEffects
  <2> QED BY <1>2, <2>1, BootEffects, Pairs DEF Quiet, Saving
<1>3. CASE Outage \/ RebootTask \/ ButtonRestart
  BY <1>3, RestartEffects, Pairs DEF Saving
<1>4. ASSUME NEW p \in Savers, WriteKey(p)
      PROVE  /\ nvs'.settings = nvs.settings
             /\ \A q \in Savers : Saving(q)' => cfg'[q].settings = nvs'.settings
  <2>1. UNCHANGED <<pc, cfg, faults>> /\ Saving(p)
    BY <1>4, WriteEffects DEF WriteKey
  <2>2. \A q \in Savers : Saving(q) => cfg[q].settings = nvs.settings
    BY <2>1 DEF Settings
  <2>3. nvs'.settings = IF at[p] = 4 THEN cfg[p].settings ELSE nvs.settings
    BY <1>4, WriteEffects
  <2> QED BY <2>1, <2>2, <2>3 DEF Saving
<1>5. ASSUME NEW p \in Savers, Commit(p) \/ SaveFails(p)
      PROVE  /\ nvs'.settings = nvs.settings
             /\ \A q \in Savers : Saving(q)' => cfg'[q].settings = nvs'.settings
  <2>1. Commit(p)
    BY <1>1, <1>5 DEF SaveFails
  <2>2. UNCHANGED <<nvs, cfg, faults>>
    BY <2>1 DEF Commit
  <2>3. pc'[p] # "save" /\ \A q \in Savers : q # p => pc'[q] = pc[q]
    BY <2>1, CommitEffects
  <2> QED BY <2>2, <2>3 DEF Settings, Saving
<1>6. CASE PostProvision \/ BadForm \/ Reply
  <2>1. UNCHANGED <<nvs, cfg>>
    BY <1>6, ServeEffects
  <2>2. UNCHANGED faults
    BY <1>1, <1>6 DEF PostProvision, BadForm, Reply, NoFault
  <2>3. \A q \in Savers : Saving(q)' => Saving(q)
    BY <1>6, ServeEffects, Pairs DEF Saving
  <2> QED BY <2>1, <2>2, <2>3 DEF Settings
<1>7. ASSUME NEW p \in Savers, NEW r \in Savers, p # r, NEW d \in Configs, NEW c \in Configs,
             BeginsSave(p, d), Loads(c), d.settings = c.settings, nvs' = nvs
      PROVE  \A q \in Savers : Saving(q)' => cfg'[q].settings = nvs'.settings
  <2>1. c = nvs /\ faults' = faults
    BY <1>1, <1>7 DEF Loads, NoFault
  <2>2. cfg'[p] = d /\ cfg'[r] = cfg[r] /\ pc'[r] = pc[r]
    BY <1>7, BeginEffects
  <2>3. Saving(r) => cfg[r].settings = nvs.settings
    BY <2>1 DEF Settings
  <2>4. \A q \in Savers : q = p \/ q = r
    BY <1>7, Pairs
  <2> QED BY <1>7, <2>1, <2>2, <2>3, <2>4 DEF Saving
<1>8. CASE Provision
  <2>1. PICK c, d \in Configs : Loads(c) /\ BeginsSave("httpd", d) /\ d.settings = c.settings
    BY <1>8, ProvisionEffects
  <2>2. nvs' = nvs
    BY <1>8 DEF Provision
  <2> QED BY <1>7, <2>1, <2>2, Pairs
<1>9. CASE ButtonPoll
  <2>1. nvs' = nvs
    BY <1>9, PollEffects
  <2>2. ASSUME NEW c \in Configs, Loads(c), BeginsSave("button", Cleared(c))
        PROVE  \A q \in Savers : Saving(q)' => cfg'[q].settings = nvs'.settings
    <3>1. Cleared(c) \in Configs /\ Cleared(c).settings = c.settings
      BY Forms
    <3> QED BY <1>7, <2>1, <2>2, <3>1, Pairs
  <2>3. CASE UNCHANGED <<faults, pc, cfg>>
    BY <2>1, <2>3 DEF Settings, Saving
  <2> QED BY <1>1, <1>9, <2>1, <2>2, <2>3, PollEffects
<1>10. CASE Finger \/ UNCHANGED vars
  BY <1>10, RestEffects DEF Settings, Saving
<1> QED BY <1>2, <1>3, <1>4, <1>5, <1>6, <1>8, <1>9, <1>10 DEF Next

-----------------------------------------------------------------------------
(* What follows for every behaviour. *)

(* The invariant holds of the two savers, the store and the button, with   *)
(* any failures and restarts in between.                                   *)
THEOREM SafetyHolds == Spec => []Safety
<1>1. Init => Safety
  BY InitSafe
<1>2. Safety /\ [Next]_vars => Safety'
  <2> SUFFICES ASSUME Safety, [Next]_vars PROVE Safety'
    OBVIOUS
  <2>1. Types /\ Quiet /\ Contents /\ Progress /\ Meeting
    BY DEF Safety
  <2>2. NoLockOut /\ Tokens /\ Settings /\ Pressing
    BY DEF Safety
  <2>3. Types' /\ Quiet' /\ Contents' /\ Progress' /\ Meeting'
    BY <2>1, <2>2, TypesKept, QuietKept, ContentsKept, ProgressKept, MeetingKept
  <2>4. NoLockOut' /\ Tokens' /\ Settings' /\ Pressing'
    BY <2>1, <2>2, TypesKept, NoLockOutKept, TokensKept, SameSettings
  <2> QED BY <2>3, <2>4 DEF Safety
<1> QED BY <1>1, <1>2, PTL DEF Spec

(* The store, the savers and the button keep their types: no save writes   *)
(* past its last key.                                                      *)
THEOREM ConfigTypeCorrect == Spec => []TypeOK
<1>1. Safety => TypeOK
  <2>1. Len(SaveOrder) + 1 = 5
    BY DEF SaveOrder
  <2>2. Types => TypeOK
    BY <2>1 DEF Types, StoreTypes, PlaceTypes, AtTypes, FlagTypes, CountTypes, ButtonTypes, TypeOK
  <2> QED BY <2>2 DEF Safety
<1> QED BY <1>1, SafetyHolds, PTL

(* A factory reset never leaves an SSID without the token it was stored    *)
(* with, wherever it is interrupted or fails (config_save, key by key).    *)
THEOREM NobodyLockedOut == Spec => []NoLockOut
<1>1. Safety => NoLockOut
  BY DEF Safety
<1> QED BY <1>1, SafetyHolds, PTL

(* The reboot after provisioning finds the token of the last page shown in *)
(* the store (reboot_task, provision_post_handler).                        *)
THEOREM TokenIsStored == Spec => TokenStands
<1>1. Safety /\ [Next]_vars
        => [(RebootTask /\ ~torn /\ pc["button"] = "poll") => nvs'.token = shown]_vars
  <2> SUFFICES ASSUME Tokens, RebootTask, ~torn, pc["button"] = "poll"
               PROVE  nvs'.token = shown
    BY DEF Safety
  <2>1. rebooting /\ pc["httpd"] = "idle" /\ nvs' = nvs
    BY DEF RebootTask, ServerStops, Restart
  <2> QED BY <2>1 DEF Tokens
<1> QED BY <1>1, SafetyHolds, PTL DEF Spec, TokenStands

(* While nothing fails, neither provisioning nor a factory reset, nor both *)
(* at once, changes a setting (config_clear_wifi).                         *)
THEOREM SettingsAreKept == Spec => SettingsKept
<1>1. Safety /\ [Next]_vars => [(faults' = 0) => (nvs'.settings = nvs.settings)]_vars
  BY SameSettings DEF Safety
<1> QED BY <1>1, SafetyHolds, PTL DEF Spec, SettingsKept

(* The watcher clears only after it saw the button down, at every poll,    *)
(* for longer than the threshold (reset_btn_sm_update).                    *)
THEOREM ClearsWhenHeld == Spec => ClearsOnlyWhenHeld
<1>1. Safety /\ [Next]_vars
        => [(pc["button"] = "poll" /\ pc'["button"] \in {"save", "flush"}) => sinceUp' > Hold]_vars
  <2> SUFFICES ASSUME Types, Pressing, Next,
                      pc["button"] = "poll", pc'["button"] \in {"save", "flush"}
               PROVE  sinceUp' > Hold
    BY DEF Safety
  <2>1. CASE ButtonPoll
    <3>1. PICK d \in 1 .. Late :
            /\ sinceUp' = IF pressed THEN Capped(sinceUp + d) ELSE 0
            /\ ~Fires(Aged(sm, d), pressed) => UNCHANGED saves
      BY <2>1 DEF ButtonPoll
    <3>2. Fires(Aged(sm, d), pressed)
      BY <3>1 DEF saves
    <3>3. d \in Nat /\ Hold \in Nat /\ sinceUp \in 0 .. Hold + 1 /\ sm \in Machines
      BY HoldAssumption, ConfigAssumption DEF HoldAssumption, ConfigAssumption, Types, ButtonTypes
    <3>4. pressed /\ Aged(sm, d).prev_pressed /\ Aged(sm, d).held >= Hold
      BY <3>2 DEF Fires
    <3>5. sm.held \in 0 .. Hold /\ sm.held + d >= Hold /\ sm.prev_pressed
      <4>1. sm.held \in 0 .. Hold
        BY <3>3 DEF Machines
      <4>2. Aged(sm, d).prev_pressed = sm.prev_pressed
        BY <3>3, Aging
      <4>3. Aged(sm, d).held = IF sm.held + d < Hold THEN sm.held + d ELSE Hold
        BY <3>3, Aging
      <4>4. sm.held + d >= Hold
        BY <3>3, <3>4, <4>1, <4>3
      <4> QED BY <3>4, <4>1, <4>2, <4>4
    <3>6. sinceUp > sm.held
      BY <3>5 DEF Pressing
    <3>7. sinceUp' = Capped(sinceUp + d)
      BY <3>1, <3>4
    <3> QED BY <3>3, <3>5, <3>6, <3>7 DEF Capped
  <2>2. CASE Outage \/ RebootTask \/ ButtonRestart
    BY <2>2, RestartEffects
  <2>3. CASE PostProvision \/ BadForm \/ Reply
    BY <2>3, ServeEffects
  <2>4. CASE Provision
    <3>1. PICK d \in Configs : BeginsSave("httpd", d)
      BY <2>4, ProvisionEffects
    <3> QED BY <3>1, BeginEffects, Pairs
  <2>5. ASSUME NEW p \in Savers, WriteKey(p) \/ Commit(p) \/ SaveFails(p) PROVE FALSE
    <3>1. pc[p] = "save" /\ (pc' = pc \/ \A q \in Savers : q # p => pc'[q] = pc[q])
      BY <2>5, CommitEffects, FailEffects DEF WriteKey, Saving
    <3> QED BY <3>1, Pairs
  <2>6. CASE Boot \/ Finger
    BY <2>6, BootEffects, RestEffects
  <2> QED BY <2>1, <2>2, <2>3, <2>4, <2>5, <2>6 DEF Next
<1> QED BY <1>1, SafetyHolds, PTL DEF Spec, ClearsOnlyWhenHeld

-----------------------------------------------------------------------------
(* Forms of any length (FormFields).  The library's induction theorems     *)
(* speak of operators; a set that holds with every number its successor    *)
(* needs none.                                                             *)

LEMMA LessIsWellFounded ==
  IsWellFoundedOn({p \in Nat \X Nat : p[1] < p[2]}, Nat)
  BY NatLessThanWellFounded DEF OpToRel

LEMMA LeastNat ==
  ASSUME NEW T, T \subseteq Nat, T # {}
  PROVE  \E x \in T : \A y \in T : x <= y
<1> DEFINE R == {p \in Nat \X Nat : p[1] < p[2]}
<1>1. IsWellFoundedOn(R, Nat)
  BY LessIsWellFounded
<1> HIDE DEF R
<1>2. PICK x \in T : \A y \in T : ~(<<y, x>> \in R)
  BY <1>1, WFMin
<1>3. ASSUME NEW y \in T PROVE x <= y
  <2>1. x \in Nat /\ y \in Nat /\ <<y, x>> \in Nat \X Nat /\ ~(<<y, x>> \in R)
    BY <1>2
  <2> QED
    BY <2>1 DEF R
<1> QED
  BY <1>3

LEMMA SetInduction ==
  ASSUME NEW S, 0 \in S, \A n \in Nat : n \in S => n + 1 \in S
  PROVE  \A n \in Nat : n \in S
<1> SUFFICES ASSUME Nat \ S # {} PROVE FALSE
  OBVIOUS
<1>1. PICK x \in Nat \ S : \A y \in Nat \ S : x <= y
  BY LeastNat
<1>2. x # 0 /\ x - 1 \in Nat /\ x - 1 < x /\ (x - 1) + 1 = x
  BY <1>1
<1>3. x - 1 \in S
  BY <1>1, <1>2
<1> QED
  BY <1>1, <1>2, <1>3

LEMMA FirstIsLeast ==
  ASSUME NEW T, T \subseteq Nat, T # {}
  PROVE  /\ Form!First(T) \in T
         /\ \A i \in T : Form!First(T) <= i
         /\ \A i \in T : (\A j \in T : i <= j) => Form!First(T) = i
<1>1. \E i \in T : \A j \in T : i <= j
  BY LeastNat
<1>2. Form!First(T) \in T /\ \A j \in T : Form!First(T) <= j
  BY <1>1 DEF Form!First
<1>3. ASSUME NEW i \in T, \A j \in T : i <= j PROVE Form!First(T) = i
  <2> DEFINE f == Form!First(T)
  <2>1. f \in Nat /\ i \in Nat /\ f <= i /\ i <= f
    BY <1>2, <1>3
  <2> HIDE DEF f
  <2>2. f = i
    BY <2>1
  <2> QED
    BY <2>2 DEF f
<1> QED
  BY <1>2, <1>3

(* The three recursive definitions have the values they are written with.  *)

LEMMA TurnsDefined ==
  ASSUME NEW s, Len(s) \in Nat
  PROVE  Form!Turns(s) =
           [n \in 0 .. Len(s) |->
              IF n = 0 THEN [buf |-> s, r |-> 1, w |-> 1]
              ELSE Form!Turn(Form!Turns(s)[n - 1])]
<1> DEFINE Start == [buf |-> s, r |-> 1, w |-> 1]
           Upto(f, k) == f = [n \in 0 .. k |-> IF n = 0 THEN Start ELSE Form!Turn(f[n - 1])]
           S == {k \in Nat : \E f : Upto(f, k)}
<1>1. 0 \in S
  <2>1. \A n \in 0 .. 0 : n = 0
    OBVIOUS
  <2>2. Upto([n \in 0 .. 0 |-> Start], 0)
    BY <2>1
  <2> QED
    BY <2>2
<1>2. ASSUME NEW k \in Nat, k \in S PROVE k + 1 \in S
  <2>1. PICK f : Upto(f, k)
    BY <1>2
  <2> DEFINE g == [n \in 0 .. k + 1 |-> IF n = k + 1 THEN Form!Turn(f[k]) ELSE f[n]]
  <2>2. ASSUME NEW n \in 0 .. k + 1
        PROVE  g[n] = IF n = 0 THEN Start ELSE Form!Turn(g[n - 1])
    <3>1. CASE n = 0
      BY <2>1, <3>1
    <3>2. CASE n \in 1 .. k
      <4>1. n - 1 \in 0 .. k + 1 /\ n - 1 # k + 1 /\ n # k + 1 /\ n \in 0 .. k /\ n # 0
        BY <3>2
      <4> QED
        BY <2>1, <4>1
    <3>3. CASE n = k + 1
      <4>1. k \in 0 .. k + 1 /\ k # k + 1 /\ n - 1 = k /\ n # 0
        BY <3>3
      <4> QED
        BY <3>3, <4>1
    <3> QED
      BY <3>1, <3>2, <3>3
  <2> HIDE DEF Start
  <2>3. Upto(g, k + 1)
    BY <2>2
  <2> HIDE DEF Upto, g
  <2> QED
    BY <2>3
<1> HIDE DEF S, Upto
<1>3. Len(s) \in S
  BY <1>1, <1>2, SetInduction
<1>4. PICK f : Upto(f, Len(s))
  BY <1>3 DEF S
<1> QED
  BY <1>4 DEF Upto, Form!Turns

LEMMA WidthFits ==
  ASSUME NEW s, Len(s) \in Nat, NEW i \in 1 .. Len(s)
  PROVE  /\ Form!Width(s, i) \in {1, 3}
         /\ i + Form!Width(s, i) \in i + 1 .. Len(s) + 1
  BY DEF Form!Width, Form!Escapes

LEMMA MeaningsDefined ==
  ASSUME NEW s, Len(s) \in Nat
  PROVE  Form!Meanings(s) =
           [i \in 1 .. Len(s) + 1 |->
              IF i > Len(s) THEN << >>
              ELSE <<Form!Meant(s, i)>> \o Form!Meanings(s)[i + Form!Width(s, i)]]
<1> DEFINE L == Len(s)
           Meaning(f, i) == IF i > L THEN << >>
                            ELSE <<Form!Meant(s, i)>> \o f[i + Form!Width(s, i)]
           From(f, m) == f = [i \in m .. L + 1 |-> Meaning(f, i)]
           S == {k \in Nat : k <= L => \E f : From(f, L + 1 - k)}
<1>0. L \in Nat
  OBVIOUS
<1>1. 0 \in S
  <2>1. From([i \in L + 1 .. L + 1 |-> << >>], L + 1)
    BY <1>0
  <2>2. 0 <= L => \E f : From(f, L + 1 - 0)
    <3> HIDE DEF From
    <3>1. L + 1 - 0 = L + 1
      BY <1>0
    <3> QED
      BY <2>1, <3>1
  <2> QED
    BY <2>2
<1>2. ASSUME NEW k \in Nat, k \in S PROVE k + 1 \in S
  <2> SUFFICES ASSUME k + 1 <= L PROVE \E f : From(f, L - k)
    BY <1>0
  <2>1. PICK f : From(f, L + 1 - k)
    BY <1>0, <1>2
  <2> DEFINE m == L - k
             g == [i \in m .. L + 1 |-> IF i = m THEN Meaning(f, m) ELSE f[i]]
  <2>2. m \in 1 .. L /\ L + 1 - k = m + 1
    BY <1>0
  <2>6. \A i \in m + 1 .. L + 1 : f[i] = Meaning(f, i)
    <3> HIDE DEF Meaning
    <3> QED
      BY <2>1, <2>2
  <2>3. ASSUME NEW i \in m .. L, NEW w \in {1, 3}, i + w \in i + 1 .. L + 1
        PROVE  g[i + w] = f[i + w]
    BY <1>0, <2>2, <2>3
  <2>4. ASSUME NEW i \in m .. L + 1 PROVE g[i] = Meaning(g, i)
    <3>1. CASE i = m
      <4>1. g[i] = <<Form!Meant(s, i)>> \o f[i + Form!Width(s, i)]
        BY <1>0, <2>2, <3>1
      <4>2. f[i + Form!Width(s, i)] = g[i + Form!Width(s, i)]
        BY <1>0, <2>2, <2>3, <3>1, WidthFits
      <4> QED
        BY <1>0, <2>2, <3>1, <4>1, <4>2
    <3>2. CASE i = L + 1
      BY <1>0, <2>1, <2>2, <3>2
    <3>3. CASE i \in m + 1 .. L
      <4>1. g[i] = f[i] /\ i # m /\ ~(i > L)
        BY <1>0, <2>2, <3>3
      <4>2. f[i] = <<Form!Meant(s, i)>> \o f[i + Form!Width(s, i)]
        <5>1. f[i] = Meaning(f, i)
          <6> HIDE DEF Meaning
          <6> QED
            BY <2>6, <3>3
        <5> QED
          BY <4>1, <5>1
      <4>3. f[i + Form!Width(s, i)] = g[i + Form!Width(s, i)]
        BY <1>0, <2>2, <2>3, <3>3, WidthFits
      <4> QED
        BY <4>1, <4>2, <4>3
    <3> QED
      BY <1>0, <2>2, <3>1, <3>2, <3>3
  <2> HIDE DEF Meaning
  <2>5. From(g, m)
    BY <2>4
  <2> HIDE DEF From, g
  <2> QED
    BY <2>5
<1>3. L \in S
  <2> HIDE DEF S
  <2> QED
  BY <1>0, <1>1, <1>2, SetInduction
<1>4. PICK f : From(f, 1)
  BY <1>0, <1>3
<1> QED
  BY <1>4 DEF Form!Meanings

LEMMA StopFits ==
  ASSUME NEW body, Len(body) \in Nat, NEW p \in 1 .. Len(body) + 1
  PROVE  /\ Form!Stop(body, p) \in p .. Len(body) + 1
         /\ Form!Stop(body, p) <= Len(body) => body[Form!Stop(body, p)] = Form!Ampersand
         /\ \A i \in p .. Len(body) :
              body[i] = Form!Ampersand => Form!Stop(body, p) <= i
<1> DEFINE T == {i \in p .. Len(body) : body[i] = Form!Ampersand} \union {Len(body) + 1}
<1>1. /\ T \subseteq Nat /\ T # {} /\ T \subseteq p .. Len(body) + 1
      /\ \A i \in T : i <= Len(body) => body[i] = Form!Ampersand
      /\ \A i \in p .. Len(body) : body[i] = Form!Ampersand => i \in T
  OBVIOUS
<1>2. Form!Stop(body, p) = Form!First(T)
  BY DEF Form!Stop
<1> HIDE DEF T
<1>3. Form!First(T) \in T /\ \A i \in T : Form!First(T) <= i
  BY <1>1, FirstIsLeast
<1> QED
  BY <1>1, <1>2, <1>3

LEMMA SkipFits ==
  ASSUME NEW body, Len(body) \in Nat, NEW p \in 1 .. Len(body)
  PROVE  Form!Skip(body, p) \in p + 1 .. Len(body) + 1
<1> DEFINE stop == Form!Stop(body, p)
<1>1. stop \in p .. Len(body) + 1
  BY StopFits
<1>2. Form!Skip(body, p) = IF stop > Len(body) THEN Len(body) + 1 ELSE stop + 1
  BY DEF Form!Skip
<1> HIDE DEF stop
<1> QED
  BY <1>1, <1>2

Copied(body, p, name, out_size) ==
  Form!DecodedInPlace(Form!Take(Form!Raw(body, p, name), out_size - 1))

LEMMA FoundDefined ==
  ASSUME NEW body, NEW name, NEW out_size, Len(body) \in Nat
  PROVE  Form!Found(body, name, out_size) =
           [p \in 1 .. Len(body) + 1 |->
              IF p > Len(body) THEN Form!Absent
              ELSE IF Form!IsField(body, p, name) THEN Copied(body, p, name, out_size)
              ELSE Form!Found(body, name, out_size)[Form!Skip(body, p)]]
<1> DEFINE L == Len(body)
           Entry(f, p) == IF p > L THEN Form!Absent
                         ELSE IF Form!IsField(body, p, name)
                           THEN Copied(body, p, name, out_size)
                         ELSE f[Form!Skip(body, p)]
           From(f, m) == f = [p \in m .. L + 1 |-> Entry(f, p)]
           S == {k \in Nat : k <= L => \E f : From(f, L + 1 - k)}
<1>0. L \in Nat
  OBVIOUS
<1>1. 0 \in S
  <2>1. From([p \in L + 1 .. L + 1 |-> Form!Absent], L + 1)
    BY <1>0
  <2>2. 0 <= L => \E f : From(f, L + 1 - 0)
    <3> HIDE DEF From
    <3>1. L + 1 - 0 = L + 1
      BY <1>0
    <3> QED
      BY <2>1, <3>1
  <2> QED
    BY <2>2
<1>2. ASSUME NEW k \in Nat, k \in S PROVE k + 1 \in S
  <2> SUFFICES ASSUME k + 1 <= L PROVE \E f : From(f, L - k)
    BY <1>0
  <2>1. PICK f : From(f, L + 1 - k)
    BY <1>0, <1>2
  <2> DEFINE m == L - k
             g == [p \in m .. L + 1 |-> IF p = m THEN Entry(f, m) ELSE f[p]]
  <2>2. m \in 1 .. L /\ L + 1 - k = m + 1
    BY <1>0
  <2>3. \A p \in m + 1 .. L + 1 : f[p] = Entry(f, p)
    <3> HIDE DEF Entry
    <3> QED
      BY <2>1, <2>2
  <2>4. ASSUME NEW p \in m .. L PROVE Entry(g, p) = Entry(f, p)
    <3>1. Form!Skip(body, p) \in m + 1 .. L + 1
      BY <1>0, <2>2, SkipFits
    <3>2. g[Form!Skip(body, p)] = f[Form!Skip(body, p)]
      BY <1>0, <2>2, <3>1
    <3> QED
      BY <3>2
  <2>5. Entry(g, L + 1) = Entry(f, L + 1)
    BY <1>0
  <2>6. ASSUME NEW p \in m .. L + 1 PROVE g[p] = Entry(g, p)
    <3>1. Entry(g, p) = Entry(f, p)
      <4>1. p \in m .. L \/ p = L + 1
        BY <1>0, <2>2
      <4> HIDE DEF Entry, g
      <4> QED
        BY <2>4, <2>5, <4>1
    <3>2. p = m \/ p \in m + 1 .. L + 1
      BY <1>0, <2>2
    <3>3. g[p] = Entry(f, p)
      <4> HIDE DEF Entry
      <4> QED
        BY <1>0, <2>2, <2>3, <3>2
    <3> HIDE DEF Entry, g
    <3> QED
      BY <3>1, <3>3
  <2> HIDE DEF Entry
  <2>7. From(g, m)
    BY <2>6
  <2> HIDE DEF From, g
  <2> QED
    BY <2>7
<1>3. L \in S
  <2> HIDE DEF S
  <2> QED
    BY <1>0, <1>1, <1>2, SetInduction
<1>4. PICK f : From(f, 1)
  BY <1>0, <1>3
<1> QED
  BY <1>4 DEF Form!Found, Copied

LEMMA DigitTyped == \A c \in Form!Digits : Form!Digit(c) \in 0 .. 15
  BY DEF Form!Digits, Form!Digit

LEMMA HexTyped ==
  ASSUME NEW a, NEW b
  PROVE  Form!Hex(a, b) \in Nat
<1> DEFINE x == Form!Digit(a)
           y == Form!Digit(b)
<1>1. (a \in Form!Digits => x \in 0 .. 15) /\ (b \in Form!Digits => y \in 0 .. 15)
  BY DigitTyped
<1>2. Form!Hex(a, b) = IF a \in Form!Digits THEN IF b \in Form!Digits THEN 16 * x + y ELSE x
                       ELSE IF b \notin Form!Digits THEN 0
                       ELSE IF a \in {Form!Plus} \union Form!Blanks THEN y
                       ELSE IF a = Form!Minus THEN (256 - y) % 256 ELSE 0
  BY Zenon DEF Form!Hex
<1> HIDE DEF x, y
<1>3. CASE a \in Form!Digits
  BY <1>1, <1>2, <1>3
<1>4. CASE a \notin Form!Digits /\ b \in Form!Digits
  <2>1. (256 - y) % 256 \in Nat /\ y \in Nat
    BY <1>1, <1>4
  <2> QED
    BY <1>2, <1>4, <2>1
<1>5. CASE a \notin Form!Digits /\ b \notin Form!Digits
  BY <1>2, <1>5
<1> QED
  BY <1>3, <1>4, <1>5

LEMMA MeantTyped ==
  ASSUME NEW s \in Seq(Nat), NEW i \in 1 .. Len(s)
  PROVE  Form!Meant(s, i) \in Nat
<1>3. s[i] \in Nat
  OBVIOUS
<1>4. CASE Form!Escapes(s, i)
  <2>1. s[i + 1] \in Nat /\ s[i + 2] \in Nat
    BY <1>4 DEF Form!Escapes
  <2> QED
    BY <1>4, HexTyped DEF Form!Meant, Form!Space
<1>5. CASE ~Form!Escapes(s, i)
  BY <1>3, <1>5 DEF Form!Meant, Form!Space
<1> QED
  BY <1>4, <1>5

LEMMA MeaningsAt ==
  ASSUME NEW s, Len(s) \in Nat
  PROVE  /\ Form!Meanings(s)[Len(s) + 1] = << >>
         /\ \A i \in 1 .. Len(s) :
              Form!Meanings(s)[i] =
                <<Form!Meant(s, i)>> \o Form!Meanings(s)[i + Form!Width(s, i)]
<1> DEFINE L == Len(s)
           M == Form!Meanings(s)
<1>1. M = [i \in 1 .. L + 1 |->
             IF i > L THEN << >>
             ELSE <<Form!Meant(s, i)>> \o M[i + Form!Width(s, i)]]
  BY MeaningsDefined
<1>2. L \in Nat
  OBVIOUS
<1> HIDE DEF M, L
<1>3. L + 1 \in 1 .. L + 1 /\ L + 1 > L /\ \A i \in 1 .. L : i \in 1 .. L + 1 /\ ~(i > L)
  BY <1>2
<1>4. M[L + 1] = << >> /\ \A i \in 1 .. L : M[i] = <<Form!Meant(s, i)>> \o M[i + Form!Width(s, i)]
  BY <1>1, <1>3
<1> QED
  BY <1>4 DEF M, L

LEMMA MeaningsTyped ==
  ASSUME NEW s \in Seq(Nat)
  PROVE  \A i \in 1 .. Len(s) + 1 : Form!Meanings(s)[i] \in Seq(Nat)
<1> DEFINE L == Len(s)
           M == Form!Meanings(s)
           S == {k \in Nat : k <= L => \A i \in L + 1 - k .. L + 1 : M[i] \in Seq(Nat)}
<1>1. L \in Nat
  OBVIOUS
<1>2. /\ M[L + 1] = << >>
      /\ \A i \in 1 .. L : M[i] = <<Form!Meant(s, i)>> \o M[i + Form!Width(s, i)]
  BY <1>1, MeaningsAt
<1> HIDE DEF M
<1>3. 0 \in S
  <2>1. \A i \in L + 1 - 0 .. L + 1 : i = L + 1
    BY <1>1
  <2>2. << >> \in Seq(Nat)
    OBVIOUS
  <2> QED
    BY <1>2, <2>1, <2>2
<1>4. ASSUME NEW k \in Nat, k \in S PROVE k + 1 \in S
  <2> SUFFICES ASSUME k + 1 <= L, NEW i \in L - k .. L + 1 PROVE M[i] \in Seq(Nat)
    BY <1>1
  <2>1. \A j \in L - k + 1 .. L + 1 : M[j] \in Seq(Nat)
    BY <1>1, <1>4
  <2>2. CASE i = L - k
    <3>1. i \in 1 .. L /\ i + Form!Width(s, i) \in L - k + 1 .. L + 1
      BY <1>1, <2>2, WidthFits
    <3>2. Form!Meant(s, i) \in Nat /\ M[i + Form!Width(s, i)] \in Seq(Nat)
      BY <2>1, <3>1, MeantTyped
    <3>3. M[i] = <<Form!Meant(s, i)>> \o M[i + Form!Width(s, i)]
      BY <1>2, <3>1
    <3> HIDE DEF L
    <3> QED
      BY <3>2, <3>3
  <2> QED
    BY <1>1, <2>1, <2>2
<1>5. L \in S
  <2> HIDE DEF S
  <2> QED
    BY <1>1, <1>3, <1>4, SetInduction
<1> QED
  BY <1>1, <1>5 DEF M

(* Turn by turn, what was written in front of w and what still stands from *)
(* r on mean the same as the whole did: nothing is read after it was       *)
(* overwritten, since w never overtakes r.                                 *)
Decodes(d, s, n) ==
  /\ d.buf \in Seq(Nat) /\ Len(d.buf) = Len(s)
  /\ d.r \in 1 .. Len(s) + 1 /\ d.w \in 1 .. d.r
  /\ n < d.r \/ d.r = Len(s) + 1
  /\ \A i \in d.r .. Len(s) : d.buf[i] = s[i]
  /\ SubSeq(d.buf, 1, d.w - 1) \o Form!Meanings(s)[d.r] = Form!Decoded(s)

LEMMA PrefixGrows ==
  ASSUME NEW b \in Seq(Nat), NEW w \in 1 .. Len(b), NEW c \in Nat
  PROVE  /\ [b EXCEPT ![w] = c] \in Seq(Nat) /\ Len([b EXCEPT ![w] = c]) = Len(b)
         /\ SubSeq(b, 1, w - 1) \in Seq(Nat)
         /\ SubSeq([b EXCEPT ![w] = c], 1, w) = SubSeq(b, 1, w - 1) \o <<c>>
<1> DEFINE e == [b EXCEPT ![w] = c]
           p == SubSeq(b, 1, w - 1)
           q == SubSeq(e, 1, w)
<1>1. /\ e \in Seq(Nat) /\ Len(e) = Len(b) /\ e[w] = c
      /\ \A i \in 1 .. w - 1 : e[i] = b[i]
  BY ExceptSeq
<1> HIDE DEF e
<1>2. w \in Nat /\ w >= 1
  OBVIOUS
<1>3. p \in Seq(Nat) /\ Len(p) = w - 1 /\ \A i \in 1 .. w - 1 : p[i] = b[i]
  BY <1>2
<1>4. q \in Seq(Nat) /\ Len(q) = w /\ \A i \in 1 .. w : q[i] = e[i]
  BY <1>1, <1>2
<1> HIDE DEF p, q
<1>5. p \o <<c>> \in Seq(Nat) /\ Len(p \o <<c>>) = w
  BY <1>2, <1>3
<1>6. \A i \in 1 .. w : (p \o <<c>>)[i] = q[i]
  <2> SUFFICES ASSUME NEW i \in 1 .. w PROVE (p \o <<c>>)[i] = q[i]
    OBVIOUS
  <2>1. CASE i = w
    BY <1>1, <1>2, <1>3, <1>4, <2>1
  <2>2. CASE i \in 1 .. w - 1
    <3>1. (p \o <<c>>)[i] = p[i]
      BY <1>2, <1>3, <2>2, ConcatProperties
    <3>2. q[i] = e[i] /\ e[i] = b[i] /\ p[i] = b[i]
      BY <1>1, <1>3, <1>4, <2>2
    <3> QED
      BY <3>1, <3>2
  <2>3. i = w \/ i \in 1 .. w - 1
    BY <1>2
  <2> QED
    BY <2>1, <2>2, <2>3
<1>7. q = p \o <<c>>
  BY <1>4, <1>5, <1>6, SeqEqual
<1> QED
  BY <1>1, <1>3, <1>7 DEF e, p, q

LEMMA MeansTheSame ==
  ASSUME NEW s, Len(s) \in Nat, NEW b, Len(b) = Len(s), NEW r \in 1 .. Len(s),
         \A i \in r .. Len(s) : b[i] = s[i]
  PROVE  Form!Meant(b, r) = Form!Meant(s, r) /\ Form!Width(b, r) = Form!Width(s, r)
<1>1. b[r] = s[r]
  OBVIOUS
<1>2. r + 2 <= Len(s) => r + 1 \in r .. Len(s) /\ r + 2 \in r .. Len(s)
  OBVIOUS
<1>3. r + 2 <= Len(s) => b[r + 1] = s[r + 1] /\ b[r + 2] = s[r + 2]
  BY <1>2
<1>4. CASE Form!Escapes(s, r)
  <2>1. Form!Escapes(b, r) /\ r + 2 <= Len(s)
    BY <1>1, <1>4 DEF Form!Escapes
  <2> QED
    BY <1>1, <1>3, <1>4, <2>1 DEF Form!Meant, Form!Width
<1>5. CASE ~Form!Escapes(s, r)
  <2>1. ~Form!Escapes(b, r)
    BY <1>1, <1>5 DEF Form!Escapes
  <2> QED
    BY <1>1, <1>5, <2>1 DEF Form!Meant, Form!Width
<1> QED
  BY <1>4, <1>5

LEMMA MovesCharacter ==
  ASSUME NEW p \in Seq(Nat), NEW c \in Nat, NEW m \in Seq(Nat)
  PROVE  (p \o <<c>>) \o m = p \o (<<c>> \o m)
<1>1. <<c>> \in Seq(Nat)
  OBVIOUS
<1> QED
  BY <1>1, ConcatAssociative

LEMMA TurnDecodes ==
  ASSUME NEW s \in Seq(Nat), NEW d, NEW n \in Nat, Decodes(d, s, n)
  PROVE  Decodes(Form!Turn(d), s, n + 1)
<1> DEFINE L == Len(s)
           M == Form!Meanings(s)
           c == Form!Meant(s, d.r)
           r2 == d.r + Form!Width(s, d.r)
           e == [d.buf EXCEPT ![d.w] = c]
<1>1. /\ L \in Nat /\ Len(d.buf) = L /\ d.r \in 1 .. L + 1 /\ d.w \in 1 .. d.r
      /\ n < d.r \/ d.r = L + 1
      /\ \A i \in d.r .. L : d.buf[i] = s[i]
  <2>1. Len(s) \in Nat
    OBVIOUS
  <2> QED
    BY <2>1, Zenon DEF Decodes
<1>2. CASE d.r > L
  <2>1. Form!Turn(d) = d
    BY <1>1, <1>2 DEF Form!Turn
  <2>2. d.r = L + 1
    BY <1>1, <1>2
  <2> QED
    BY <2>1, <2>2 DEF Decodes
<1>3. CASE ~(d.r > L)
  <2>1. d.r \in 1 .. L /\ d.w \in 1 .. L
    BY <1>1, <1>3
  <2>3. Form!Meant(d.buf, d.r) = c /\ Form!Width(d.buf, d.r) = Form!Width(s, d.r)
    <3> DEFINE b == d.buf
               r == d.r
    <3>1. r \in 1 .. L /\ Len(b) = L /\ \A i \in r .. L : b[i] = s[i]
      BY <1>1, <2>1
    <3> HIDE DEF b, r
    <3>2. Form!Meant(b, r) = Form!Meant(s, r) /\ Form!Width(b, r) = Form!Width(s, r)
      BY <1>1, <3>1, MeansTheSame
    <3> QED
      BY <3>2 DEF b, r
  <2>4. Form!Turn(d) = [buf |-> e, r |-> r2, w |-> d.w + 1]
    BY <1>1, <1>3, <2>3 DEF Form!Turn
  <2>5. c \in Nat
    BY <2>1, MeantTyped
  <2>6. r2 \in d.r + 1 .. L + 1
    BY <1>1, <2>1, WidthFits
  <2>7. /\ e \in Seq(Nat) /\ Len(e) = L
        /\ \A i \in r2 .. L : e[i] = s[i]
    <3> HIDE DEF c, r2
    <3>1. d.buf \in Seq(Nat)
      BY DEF Decodes
    <3>2. /\ e \in Seq(Nat) /\ Len(e) = L
          /\ \A j \in 1 .. L : e[j] = IF j = d.w THEN c ELSE d.buf[j]
      BY <1>1, <2>1, <2>5, <3>1, ExceptSeq
    <3> HIDE DEF e
    <3>3. ASSUME NEW i \in r2 .. L PROVE e[i] = s[i]
      <4>1. i \in 1 .. L /\ i # d.w /\ i \in d.r .. L
        BY <1>1, <2>1, <2>6
      <4> QED
        BY <1>1, <3>2, <4>1
    <3> QED
      BY <3>2, <3>3
  <2>8. /\ SubSeq(d.buf, 1, d.w - 1) \in Seq(Nat)
        /\ SubSeq(e, 1, d.w) = SubSeq(d.buf, 1, d.w - 1) \o <<c>>
    <3> HIDE DEF c
    <3> QED
      BY <1>1, <2>1, <2>5, PrefixGrows DEF Decodes
  <2>9. M[d.r] = <<c>> \o M[r2] /\ M[r2] \in Seq(Nat)
    <3>1. M[r2] \in Seq(Nat)
      BY <1>1, <2>6, MeaningsTyped
    <3> QED
      BY <1>1, <2>1, <3>1, MeaningsAt
  <2>10. SubSeq(e, 1, d.w) \o M[r2] = Form!Decoded(s)
    <3> DEFINE p == SubSeq(d.buf, 1, d.w - 1)
               q == SubSeq(e, 1, d.w)
               m == M[d.r]
               m2 == M[r2]
    <3>1. p \o m = Form!Decoded(s)
      BY DEF Decodes
    <3>2. /\ p \in Seq(Nat) /\ q = p \o <<c>>
          /\ m = <<c>> \o m2 /\ m2 \in Seq(Nat)
      BY <2>8, <2>9
    <3> HIDE DEF c, p, q, m, m2
    <3>3. (p \o <<c>>) \o m2 = p \o (<<c>> \o m2)
      BY <2>5, <3>2, MovesCharacter
    <3>4. q \o m2 = Form!Decoded(s)
      BY <3>1, <3>2, <3>3
    <3> QED
      BY <3>4 DEF q, m2
  <2> HIDE DEF e, r2, c, M
  <2>11. d.w + 1 \in 1 .. r2 /\ (n + 1 < r2 \/ r2 = L + 1) /\ (d.w + 1) - 1 = d.w
    <3>1. d.r \in Nat /\ d.w \in Nat /\ 1 <= d.w /\ d.w <= d.r /\ n < d.r
      BY <1>1, <2>1
    <3>2. r2 \in Nat /\ d.r + 1 <= r2
      BY <2>1, <2>6
    <3> QED
      BY <3>1, <3>2
  <2>12. r2 \in 1 .. L + 1
    BY <1>1, <2>6
  <2> DEFINE t == Form!Turn(d)
  <2>13. t.buf = e /\ t.r = r2 /\ t.w = d.w + 1
    BY <2>4
  <2> HIDE DEF t
  <2>14. Decodes(t, s, n + 1)
    BY <2>7, <2>10, <2>11, <2>12, <2>13 DEF Decodes, M
  <2> QED
    BY <2>14 DEF t
<1> QED
  BY <1>2, <1>3

LEMMA InPlaceDecodes ==
  ASSUME NEW s \in Seq(Nat)
  PROVE  /\ Form!DecodedInPlace(s) = Form!CString(Form!Decoded(s))
         /\ Form!Decoded(s) \in Seq(Nat) /\ Len(Form!Decoded(s)) <= Len(s)
<1> DEFINE L == Len(s)
           t == Form!Turns(s)
           S == {n \in Nat : n <= L => Decodes(t[n], s, n)}
<1>1. L \in Nat
  OBVIOUS
<1>2. /\ t[0] = [buf |-> s, r |-> 1, w |-> 1]
      /\ \A n \in 1 .. L : t[n] = Form!Turn(t[n - 1])
  <2>1. t = [n \in 0 .. L |-> IF n = 0 THEN [buf |-> s, r |-> 1, w |-> 1]
                              ELSE Form!Turn(t[n - 1])]
    BY <1>1, TurnsDefined
  <2> HIDE DEF t, L
  <2>2. \A n \in 1 .. L : n \in 0 .. L /\ n # 0
    BY <1>1
  <2>3. 0 \in 0 .. L
    BY <1>1
  <2> QED
    BY <2>1, <2>2, <2>3
<1> HIDE DEF t
<1>3. Form!Decoded(s) \in Seq(Nat)
  BY <1>1, MeaningsTyped DEF Form!Decoded
<1>4. 0 \in S
  <2>1. SubSeq(s, 1, 0) \o Form!Decoded(s) = Form!Decoded(s)
    BY <1>3, SubSeqEmpty, ConcatEmptySeq
  <2>2. Decodes(t[0], s, 0)
    BY <1>1, <1>2, <2>1 DEF Decodes, Form!Decoded
  <2> QED
    BY <2>2
<1>5. ASSUME NEW n \in Nat, n \in S PROVE n + 1 \in S
  <2> SUFFICES ASSUME n + 1 <= L PROVE Decodes(t[n + 1], s, n + 1)
    OBVIOUS
  <2>1. Decodes(t[n], s, n)
    BY <1>1, <1>5
  <2>2. t[n + 1] = Form!Turn(t[n])
    <3>1. n + 1 \in 1 .. L /\ (n + 1) - 1 = n
      BY <1>1
    <3> QED
      BY <1>2, <3>1
  <2> QED
    BY <2>1, <2>2, TurnDecodes
<1>6. Decodes(t[L], s, L)
  <2>1. L \in S
    <3> HIDE DEF S
    <3> QED
      BY <1>1, <1>4, <1>5, SetInduction
  <2> QED
    BY <1>1, <2>1
<1> DEFINE b == t[L].buf
           w == t[L].w
<1>7. /\ b \in Seq(Nat) /\ Len(b) = L /\ w \in 1 .. L + 1
      /\ SubSeq(b, 1, w - 1) \o << >> = Form!Decoded(s)
  <2>1. t[L].r = L + 1
    BY <1>1, <1>6 DEF Decodes
  <2>2. Form!Meanings(s)[L + 1] = << >>
    BY <1>1, MeaningsAt
  <2> QED
    BY <1>1, <1>6, <2>1, <2>2 DEF Decodes
<1> HIDE DEF b, w
<1>8. SubSeq(b, 1, w - 1) \in Seq(Nat) /\ Len(SubSeq(b, 1, w - 1)) = w - 1
  BY <1>1, <1>7
<1>9. Form!Decoded(s) = SubSeq(b, 1, w - 1)
  BY <1>7, <1>8, ConcatEmptySeq
<1>10. Form!Take(b, w - 1) = SubSeq(b, 1, w - 1)
  <2>1. (IF w - 1 < Len(b) THEN w - 1 ELSE Len(b)) = w - 1
    BY <1>1, <1>7
  <2> QED
    BY <2>1 DEF Form!Take
<1>11. Form!DecodedInPlace(s) = Form!CString(Form!Take(b, w - 1))
  BY DEF Form!DecodedInPlace, b, w, t
<1>12. w - 1 <= L
  BY <1>1, <1>7
<1>13. Len(Form!Decoded(s)) <= L
  BY <1>8, <1>9, <1>12
<1> QED
  BY <1>3, <1>9, <1>10, <1>11, <1>13


(* Between where a search stands and where Skip takes it, no field starts. *)
LEMMA SkipLeadsToField ==
  ASSUME NEW body \in Seq(Nat), NEW p \in 1 .. Len(body)
  PROVE  /\ Form!Skip(body, p) \in Form!FieldStarts(body) \union {Len(body) + 1}
         /\ \A q \in Form!FieldStarts(body) : p < q => Form!Skip(body, p) <= q
<1> DEFINE L == Len(body)
           stop == Form!Stop(body, p)
           skip == Form!Skip(body, p)
<1>1. L \in Nat /\ DOMAIN body = 1 .. L /\ p \in 1 .. L
  OBVIOUS
<1>2. /\ stop \in p .. L + 1
      /\ stop <= L => body[stop] = Form!Ampersand
      /\ \A i \in p .. L : body[i] = Form!Ampersand => stop <= i
  BY StopFits
<1>3. skip = IF stop > L THEN L + 1 ELSE stop + 1
  BY DEF Form!Skip
<1>4. Form!FieldStarts(body) = {1} \union {i + 1 : i \in {j \in 1 .. L : body[j] = Form!Ampersand}}
  BY <1>1 DEF Form!FieldStarts
<1> HIDE DEF L, stop, skip
<1>5. skip \in Form!FieldStarts(body) \union {L + 1}
  <2>1. CASE stop > L
    BY <1>3, <2>1
  <2>2. CASE ~(stop > L)
    <3>1. stop \in {j \in 1 .. L : body[j] = Form!Ampersand}
      BY <1>1, <1>2, <2>2
    <3> QED
      BY <1>3, <1>4, <2>2, <3>1
  <2> QED
    BY <2>1, <2>2
<1>6. ASSUME NEW q \in Form!FieldStarts(body), p < q PROVE skip <= q
  <2>1. PICK i \in 1 .. L : body[i] = Form!Ampersand /\ q = i + 1
    BY <1>1, <1>4, <1>6
  <2>2. i \in p .. L
    BY <1>1, <1>6, <2>1
  <2>3. stop <= i
    BY <1>2, <2>1, <2>2
  <2> QED
    BY <1>1, <1>2, <1>3, <2>1, <2>3
<1> QED
  BY <1>5, <1>6 DEF L, skip

(* The search from the start of the form ends at the first of its fields   *)
(* that has the name, whatever else the form holds.                        *)
LEMMA FirstFieldIsFound ==
  ASSUME NEW body \in Seq(Nat), NEW name \in Seq(Nat), NEW out_size,
         NEW starts,
         starts = {p \in Form!FieldStarts(body) : Form!IsField(body, p, name)}
  PROVE  /\ starts \subseteq 1 .. Len(body)
         /\ Form!form_get(body, name, out_size) =
              IF starts = {} THEN Form!Absent
              ELSE Copied(body, Form!First(starts), name, out_size)
<1> DEFINE L == Len(body)
           F == Form!Found(body, name, out_size)
           places == Form!FieldStarts(body) \union {L + 1}
           Least(q, p) == q >= p /\ \A x \in starts : x >= p => q <= x
           Claim(p) ==
             /\ (\A q \in starts : q < p) => F[p] = Form!Absent
             /\ \A q \in starts : Least(q, p) => F[p] = Copied(body, q, name, out_size)
           S == {k \in Nat : k <= L => \A p \in places : p >= L + 1 - k => Claim(p)}
<1>1. L \in Nat /\ DOMAIN body = 1 .. L
  OBVIOUS
<1>2. places \subseteq 1 .. L + 1 /\ 1 \in places
  BY <1>1 DEF Form!FieldStarts
<1>3. \A p \in 1 .. L + 1 : Form!IsField(body, p, name) => p \in 1 .. L
  BY <1>1 DEF Form!IsField
<1>4. starts \subseteq places /\ starts \subseteq 1 .. L
  BY <1>2, <1>3
<1>5. /\ F[L + 1] = Form!Absent
      /\ \A p \in 1 .. L :
           F[p] = IF Form!IsField(body, p, name) THEN Copied(body, p, name, out_size)
                  ELSE F[Form!Skip(body, p)]
  <2>1. F = [p \in 1 .. L + 1 |->
               IF p > L THEN Form!Absent
               ELSE IF Form!IsField(body, p, name) THEN Copied(body, p, name, out_size)
               ELSE F[Form!Skip(body, p)]]
    BY <1>1, FoundDefined
  <2> HIDE DEF F, L
  <2>2. L + 1 \in 1 .. L + 1 /\ L + 1 > L /\ \A p \in 1 .. L : p \in 1 .. L + 1 /\ ~(p > L)
    BY <1>1
  <2> QED
    BY <2>1, <2>2
<1> HIDE DEF F
<1>6. 0 \in S
  <2>1. \A p \in places : p >= L + 1 - 0 => p = L + 1
    BY <1>1, <1>2
  <2>2. Claim(L + 1)
    BY <1>1, <1>4, <1>5
  <2> HIDE DEF Claim
  <2> QED
    BY <2>1, <2>2
<1>7. ASSUME NEW k \in Nat, k \in S PROVE k + 1 \in S
  <2> SUFFICES ASSUME k + 1 <= L, NEW p \in places, p >= L - k PROVE Claim(p)
    BY <1>1
  <2>1. \A x \in places : x >= L - k + 1 => Claim(x)
    BY <1>1, <1>7
  <2>2. CASE p >= L - k + 1
    <3> HIDE DEF Claim
    <3> QED
      BY <2>1, <2>2
  <2>3. CASE p = L - k
    <3>1. p \in 1 .. L /\ p \in Form!FieldStarts(body)
      <4> HIDE DEF L
      <4>1. L - k \in 1 .. L /\ L - k # L + 1
        BY <1>1
      <4> QED
        BY <2>3, <4>1
    <3>2. CASE Form!IsField(body, p, name)
      <4>1. p \in starts /\ F[p] = Copied(body, p, name, out_size)
        BY <1>5, <3>1, <3>2
      <4>2. \A q \in starts : Least(q, p) => q = p
        BY <1>4, <3>1, <4>1
      <4>3. ~(\A q \in starts : q < p)
        BY <3>1, <4>1
      <4> HIDE DEF Least
      <4> QED
        BY <4>1, <4>2, <4>3
    <3>3. CASE ~Form!IsField(body, p, name)
      <4> DEFINE skip == Form!Skip(body, p)
      <4>1. /\ F[p] = F[skip] /\ p \notin starts
            /\ skip \in p + 1 .. L + 1 /\ skip \in places
            /\ \A q \in starts : p < q => skip <= q
        BY <1>1, <1>5, <3>1, <3>3, SkipFits, SkipLeadsToField
      <4> HIDE DEF skip
      <4>2. Claim(skip)
        <5>1. skip >= L - k + 1
          <6> HIDE DEF L
          <6>1. L - k \in Int /\ skip \in L - k + 1 .. L + 1
            BY <1>1, <2>3, <4>1
          <6> QED
            BY <1>1, <6>1
        <5> HIDE DEF Claim, places
        <5> QED
          BY <2>1, <4>1, <5>1
      <4>3. \A q \in starts : q >= p <=> q >= skip
        BY <1>4, <3>1, <4>1
      <4>4. (\A q \in starts : q < p) => \A q \in starts : q < skip
        BY <1>4, <3>1, <4>1
      <4>5. \A q \in starts : Least(q, p) => Least(q, skip)
        BY <4>3
      <4> HIDE DEF Least
      <4> QED
        BY <4>1, <4>2, <4>4, <4>5
    <3> QED
      BY <3>2, <3>3
  <2> HIDE DEF Claim, L
  <2>4. p >= L - k + 1 \/ p = L - k
    <3>1. p \in 1 .. L + 1
      BY <1>2
    <3> HIDE DEF places
    <3> QED
      BY <1>1, <3>1
  <2> QED
    BY <2>2, <2>3, <2>4
<1>8. Claim(1)
  <2>1. L \in S
    <3> HIDE DEF S
    <3> QED
      BY <1>1, <1>6, <1>7, SetInduction
  <2> HIDE DEF Claim
  <2> QED
    BY <1>1, <1>2, <2>1
<1>9. Form!form_get(body, name, out_size) = F[1]
  BY DEF Form!form_get, F
<1>10. CASE starts = {}
  BY <1>4, <1>8, <1>9, <1>10
<1>11. CASE starts # {}
  <2>1. Form!First(starts) \in starts /\ \A x \in starts : Form!First(starts) <= x
    <3>1. starts \subseteq Nat
      BY <1>4
    <3> QED
      BY <1>11, <3>1, FirstIsLeast
  <2>2. Least(Form!First(starts), 1)
    BY <1>1, <1>4, <2>1
  <2> HIDE DEF Least
  <2> QED
    BY <1>4, <1>8, <1>9, <1>11, <2>1, <2>2
<1> QED
  BY <1>4, <1>10, <1>11

LEMMA CharactersAreNumbers ==
  ASSUME NEW s \in Seq(1 .. 255)
  PROVE  s \in Seq(Nat) /\ \A i \in 1 .. Len(s) : s[i] \in 1 .. 255
<1> DEFINE C == 1 .. 255
<1>1. C \subseteq Nat
  OBVIOUS
<1> HIDE DEF C
<1>2. s \in Seq(C)
  BY DEF C
<1>3. PICK n \in Nat : s \in [1 .. n -> C]
  BY <1>2, SeqDef
<1>4. s \in [1 .. n -> Nat]
  BY <1>1, <1>3
<1>5. s \in Seq(Nat)
  BY <1>4, SeqDef
<1>6. \A i \in 1 .. Len(s) : s[i] \in C
  BY <1>2
<1> QED
  BY <1>5, <1>6 DEF C

LEMMA TakeFits ==
  ASSUME NEW v \in Seq(Nat), NEW n \in Nat
  PROVE  /\ Form!Take(v, n) \in Seq(Nat)
         /\ Len(Form!Take(v, n)) <= n /\ Len(Form!Take(v, n)) <= Len(v)
         /\ Len(v) <= n => Form!Take(v, n) = v
<1> DEFINE m == IF n < Len(v) THEN n ELSE Len(v)
<1>1. Len(v) \in Nat /\ m \in 0 .. Len(v) /\ m <= n /\ (Len(v) <= n => m = Len(v))
  OBVIOUS
<1>2. Form!Take(v, n) = SubSeq(v, 1, m)
  BY DEF Form!Take
<1> HIDE DEF m
<1>3. /\ SubSeq(v, 1, m) \in Seq(Nat) /\ Len(SubSeq(v, 1, m)) = m
      /\ \A i \in 1 .. m : SubSeq(v, 1, m)[i] = v[i]
  BY <1>1
<1>4. ASSUME Len(v) <= n PROVE SubSeq(v, 1, m) = v
  BY <1>1, <1>3, <1>4, SeqEqual
<1> QED
  BY <1>1, <1>2, <1>3, <1>4

LEMMA CStringFits ==
  ASSUME NEW v \in Seq(Nat)
  PROVE  Len(Form!CString(v)) <= Len(v)
<1> DEFINE T == {i \in DOMAIN v : v[i] = 0} \union {Len(v) + 1}
<1>1. T \subseteq 1 .. Len(v) + 1 /\ T \subseteq Nat /\ T # {}
  OBVIOUS
<1>2. Form!CString(v) = Form!Take(v, Form!First(T) - 1)
  BY DEF Form!CString
<1> HIDE DEF T
<1>3. Form!First(T) \in T
  BY <1>1, FirstIsLeast
<1>4. Form!First(T) - 1 \in Nat
  <2>1. Form!First(T) \in 1 .. Len(v) + 1
    BY <1>1, <1>3
  <2>2. \A x \in 1 .. Len(v) + 1 : x - 1 \in Nat
    OBVIOUS
  <2> QED
    BY <2>1, <2>2
<1> QED
  BY <1>2, <1>4, TakeFits

LEMMA RawTyped ==
  ASSUME NEW body \in Seq(1 .. 255), NEW name \in Seq(Nat), NEW p \in 1 .. Len(body),
         Form!IsField(body, p, name)
  PROVE  Form!Raw(body, p, name) \in Seq(Nat) /\ Form!Raw(body, p, name) # Form!Absent
<1> DEFINE L == Len(body)
           first == p + Len(name) + 1
           last == Form!Stop(body, first) - 1
           raw == Form!Raw(body, p, name)
<1>1. L \in Nat /\ p \in 1 .. L /\ first \in 1 .. L + 1 /\ \A i \in 1 .. L : body[i] \in 1 .. 255
  <2>1. p + Len(name) <= Len(body) /\ Len(name) \in Nat /\ Len(body) \in Nat
    BY DEF Form!IsField
  <2>2. first \in 1 .. L + 1
    BY <2>1
  <2> HIDE DEF first
  <2> QED
    BY <2>1, <2>2, CharactersAreNumbers
<1>2. Form!Stop(body, first) \in first .. L + 1
  BY <1>1, StopFits
<1>3. raw = SubSeq(body, first, last)
  BY DEF Form!Raw
<1> HIDE DEF first, L, raw
<1>4. first \in Int /\ last \in Int /\ \A i \in first .. last : i \in 1 .. L
  BY <1>1, <1>2
<1> HIDE DEF last
<1>5. raw \in Seq(1 .. 255)
  BY <1>1, <1>3, <1>4, SubSeqProperties
<1>6. Form!Absent \notin Seq(1 .. 255)
  <2>1. Len(Form!Absent) = 1 /\ Form!Absent[1] = 256
    BY DEF Form!Absent
  <2> SUFFICES ASSUME Form!Absent \in Seq(1 .. 255) PROVE FALSE
    OBVIOUS
  <2>2. \A i \in 1 .. Len(Form!Absent) : Form!Absent[i] \in 1 .. 255
    BY CharactersAreNumbers
  <2>3. 1 \in 1 .. Len(Form!Absent)
    BY <2>1
  <2>4. Form!Absent[1] \in 1 .. 255
    BY <2>2, <2>3, Zenon
  <2>5. 256 \in 1 .. 255
    BY <2>1, <2>4, Zenon
  <2> QED
    BY <2>5
<1>7. raw \in Seq(Nat)
  BY <1>5, CharactersAreNumbers
<1> QED
  BY <1>5, <1>6, <1>7 DEF raw

(* One field of one form: found by its name, read as it was typed if it    *)
(* fits, and never longer than its buffer holds.                           *)
LEMMA ReadAsTyped ==
  ASSUME NEW body \in Seq(1 .. 255), NEW name \in Seq(Nat), NEW out_size \in Nat \ {0},
         NEW v, v = Form!Value(body, name),
         NEW out, out = Form!form_get(body, name, out_size)
  PROVE  IF v = Form!Absent THEN out = Form!Absent
         ELSE /\ Len(v) < out_size => out = Form!CString(Form!Decoded(v))
              /\ Len(out) < out_size
<1> DEFINE starts == {p \in Form!FieldStarts(body) : Form!IsField(body, p, name)}
           p == Form!First(starts)
           room == out_size - 1
           taken == Form!Take(v, room)
<1>1. body \in Seq(Nat)
  BY CharactersAreNumbers
<1>2. /\ starts \subseteq 1 .. Len(body)
      /\ out = IF starts = {} THEN Form!Absent ELSE Copied(body, p, name, out_size)
  BY <1>1, FirstFieldIsFound
<1>3. v = IF starts = {} THEN Form!Absent ELSE Form!Raw(body, p, name)
  BY DEF Form!Value
<1>4. CASE starts = {}
  BY <1>2, <1>3, <1>4
<1>5. CASE starts # {}
  <2>1. starts \subseteq Nat
    BY <1>2
  <2>2. p \in starts
    BY <1>5, <2>1, FirstIsLeast
  <2>3. p \in 1 .. Len(body) /\ Form!IsField(body, p, name)
    BY <1>2, <2>2
  <2> HIDE DEF p, starts
  <2>4. v \in Seq(Nat) /\ v # Form!Absent
    BY <1>3, <1>5, <2>3, RawTyped
  <2>5. out = Form!DecodedInPlace(taken)
    BY <1>2, <1>3, <1>5 DEF Copied
  <2>6. room \in Nat /\ \A x \in Nat : x < out_size <=> x <= room
    OBVIOUS
  <2> HIDE DEF room
  <2>7. taken \in Seq(Nat) /\ Len(taken) <= room /\ (Len(v) <= room => taken = v)
    BY <2>4, <2>6, TakeFits
  <2> HIDE DEF taken
  <2>8. /\ out = Form!CString(Form!Decoded(taken))
        /\ Form!Decoded(taken) \in Seq(Nat) /\ Len(Form!Decoded(taken)) <= Len(taken)
    BY <2>5, <2>7, InPlaceDecodes
  <2>9. Len(out) <= Len(Form!Decoded(taken))
    BY <2>8, CStringFits
  <2>10. Len(out) \in Nat /\ Len(v) \in Nat /\ Len(out) <= room
    BY <2>6, <2>7, <2>8, <2>9
  <2> QED
    BY <2>4, <2>6, <2>7, <2>8, <2>10
<1> QED
  BY <1>4, <1>5

LEMMA StringsAreCharacters ==
  ASSUME NEW chars, chars \subseteq 1 .. 255, NEW n \in Nat
  PROVE  Form!Strings(chars, n) \subseteq Seq(1 .. 255)
<1> DEFINE C == 1 .. 255
<1>0. chars \subseteq C
  OBVIOUS
<1> HIDE DEF C
<1>1. ASSUME NEW s \in Form!Strings(chars, n) PROVE s \in Seq(C)
  <2>1. PICK k \in 0 .. n : s \in [1 .. k -> chars]
    BY DEF Form!Strings
  <2>2. k \in Nat
    OBVIOUS
  <2>3. s \in [1 .. k -> C]
    BY <1>0, <2>1
  <2> QED
    BY <2>2, <2>3, SeqDef
<1> QED
  BY <1>1 DEF C

(* FormsReadAsTyped for forms, names and buffers of every size: the field  *)
(* of a form that has the name asked for (form_get) is found wherever it   *)
(* stands, is decoded in place (url_decode_inplace) to what the owner      *)
(* typed if it fits its buffer, and never runs over that buffer.           *)
THEOREM FormsAreReadAsTyped == Spec => []FormsReadAsTyped
<1>1. FormsReadAsTyped
  <2> SUFFICES ASSUME NEW body \in Form!Strings(FormChars, MaxForm),
                      NEW name \in Form!Strings(FormChars, MaxName),
                      NEW out_size \in 1 .. MaxField,
                      NEW v, v = Form!Value(body, name),
                      NEW out, out = Form!form_get(body, name, out_size)
               PROVE  IF v = Form!Absent THEN out = Form!Absent
                      ELSE /\ Len(v) < out_size => out = Form!CString(Form!Decoded(v))
                           /\ Len(out) < out_size
    BY DEF FormsReadAsTyped, Form!ReadsAsTyped
  <2>1. /\ FormChars \subseteq 1 .. 255
        /\ MaxForm \in Nat /\ MaxName \in Nat /\ MaxField \in Nat
    BY ConfigAssumption DEF ConfigAssumption
  <2>2. body \in Seq(1 .. 255) /\ name \in Seq(1 .. 255)
    BY <2>1, StringsAreCharacters
  <2>3. name \in Seq(Nat)
    BY <2>2, CharactersAreNumbers
  <2>4. out_size \in Nat \ {0}
    BY <2>1
  <2> QED
    BY <2>2, <2>3, <2>4, ReadAsTyped
<1> QED
  BY <1>1, PTL
==============================================================================
