------------------------------ MODULE RelaySetup ------------------------------
(***************************************************************************)
(* Both Qwiic relays leave the factory at one address.  README, "Reassign- *)
(* ing relay addresses", tells the owner how to part them: plug in the one *)
(* for CLOSE alone, move it with POST /i2c/relay-address, look with GET    *)
(* /i2c/scan when in doubt, then plug in the other.  The owner here does   *)
(* that, may mistype either address, reads in the answer which move was    *)
(* made, and starts over when it was another one or the answer is bad or   *)
(* lost; the firmware is handle_i2c_relay_address and handle_i2c_scan      *)
(* (http_api.c) over i2c_bus.c.  Transmits fail before or after the relay  *)
(* obeyed, the relay is deaf while it stores its address or does not store *)
(* it at all, and the device may restart.                                  *)
(***************************************************************************)
EXTENDS Naturals

CONSTANTS
  OpenAddr, CloseAddr,   \* relay_open_addr, also the factory's, and relay_close_addr
  Low, High,             \* the addresses a request may name, 0x07 and 0x78
  ScanEnd,               \* the scan ends before it, 0x78
  Typed,                 \* what may be typed for "from" and for "to"
  MaxFaults              \* bounds what goes wrong

ASSUME RelaySetupAssumption ==
  /\ {OpenAddr, CloseAddr} \subseteq Low .. High /\ OpenAddr # CloseAddr
  /\ Typed \subseteq Nat
  /\ Low \in Nat /\ High \in Nat /\ MaxFaults \in Nat

VARIABLES
  addr,       \* the relays' addresses, in their EEPROM
  bus,        \* the relays that are plugged in
  deaf,       \* those that re-initialise
  pc,         \* the HTTP server's task
  from, to, new_ok,
  answer,     \* of the server; that of a move repeats "from" and "to"
  owner,      \* the step the owner is at
  faults

firmware == <<pc, from, to, new_ok>>
vars == <<addr, bus, deaf, firmware, answer, owner, faults>>

Relays == {"open", "close"}
At(a) == {r \in bus : addr[r] = a}

-----------------------------------------------------------------------------
(* Defective variants. *)

Trusts(new, gone) == "ok"
ScanStopsEarly == 1 .. CloseAddr - 1

-----------------------------------------------------------------------------
Init ==
  /\ addr = [r \in Relays |-> OpenAddr] /\ bus = {"close"} /\ deaf = {}
  /\ pc = "idle" /\ from = OpenAddr /\ to = CloseAddr /\ new_ok = FALSE
  /\ answer = "none" /\ owner = "move" /\ faults = 0

Fault == faults < MaxFaults /\ faults' = faults + 1
NoFault == UNCHANGED faults

(* A device that is plugged in and not deaf acknowledges its address.      *)
Acks(a) == At(a) \ deaf # {}

(* i2c_master_probe, which may also fail on its own.                       *)
Probe(a, ok) == (ok = Acks(a) /\ NoFault) \/ (~ok /\ Acks(a) /\ Fault)

Goes(place) == pc' = place
Answers(a) == answer' = a /\ Goes("idle")

(* The owner asks to move what is at "from" to "to".                       *)
Parses(a) == Low <= a /\ a <= High

Post ==
  /\ owner = "move" /\ pc = "idle"
  /\ \E a, b \in Typed :
       /\ from' = a /\ to' = b /\ owner' = "wait"
       /\ IF Parses(a) /\ Parses(b) THEN Goes("probe") /\ answer' = "none"
                                    ELSE Answers("bad request")
  /\ UNCHANGED <<addr, bus, deaf, new_ok, faults>>

ProbeFrom ==
  /\ pc = "probe"
  /\ \E ok \in BOOLEAN :
       /\ Probe(from, ok)
       /\ IF ok THEN Goes("transmit") /\ UNCHANGED answer ELSE Answers("not found")
  /\ UNCHANGED <<addr, bus, deaf, from, to, new_ok, owner>>

(* Every relay at the address obeys, stores the new one and is deaf for a  *)
(* while; or it does not store it.                                         *)
Obey(relays) ==
  /\ addr' = [r \in Relays |-> IF r \in relays THEN to ELSE addr[r]]
  /\ deaf' = deaf \union relays

Transmit ==
  /\ pc = "transmit"
  /\ LET heard == At(from) \ deaf IN
       \/ heard # {} /\ Obey(heard) /\ NoFault /\ Goes("settle") /\ UNCHANGED answer
       \/ heard # {} /\ Obey({}) /\ Fault /\ Goes("settle") /\ UNCHANGED answer
       \/ (Obey(heard) \/ Obey({})) /\ Fault /\ Answers("failed")
       \/ heard = {} /\ Obey({}) /\ NoFault /\ Answers("failed")
  /\ UNCHANGED <<bus, from, to, new_ok, owner>>

(* 250 ms, long enough or not.                                             *)
Settle ==
  /\ pc = "settle" /\ Goes("verify")
  /\ UNCHANGED <<addr, bus, deaf, from, to, new_ok, answer, owner, faults>>

VerifyNew ==
  /\ pc = "verify" /\ Goes("verify old")
  /\ \E ok \in BOOLEAN : Probe(to, ok) /\ new_ok' = ok
  /\ UNCHANGED <<addr, bus, deaf, from, to, answer, owner>>

Verdict(new, gone) == IF new /\ gone THEN "ok" ELSE "not ok"

VerifyOld ==
  /\ pc = "verify old"
  /\ \E ok \in BOOLEAN : Probe(from, ok) /\ Answers(Verdict(new_ok, ~ok))
  /\ UNCHANGED <<addr, bus, deaf, from, to, new_ok, owner>>

(* A restart in the middle: the connection is lost.                        *)
Restart ==
  /\ pc # "idle" /\ Fault /\ Answers("lost")
  /\ UNCHANGED <<addr, bus, deaf, from, to, new_ok, owner>>

Hears ==
  /\ deaf # {} /\ deaf' = {}
  /\ UNCHANGED <<addr, bus, firmware, answer, owner, faults>>

-----------------------------------------------------------------------------
(* The owner. *)

(* A move to CloseAddr is what was wanted; one to elsewhere is undone by   *)
(* another.                                                                *)
ReadAnswer ==
  /\ owner = "wait" /\ pc = "idle"
  /\ owner' = IF answer # "ok" THEN "look" ELSE IF to = CloseAddr THEN "plug" ELSE "move"
  /\ UNCHANGED <<addr, bus, deaf, firmware, answer, faults>>

Scanned == 1 .. ScanEnd - 1
Scan == {a \in Scanned : Acks(a)}

(* Moved already, or to be moved from where it is, or nothing answers yet. *)
Look ==
  /\ owner = "look" /\ pc = "idle"
  /\ owner' = CASE Scan = {CloseAddr} -> "plug"
                [] Scan = {} -> "look"
                [] OTHER -> "move"
  /\ UNCHANGED <<addr, bus, deaf, firmware, answer, faults>>

PlugOther ==
  /\ owner = "plug" /\ owner' = "done" /\ bus' = Relays
  /\ UNCHANGED <<addr, deaf, firmware, answer, faults>>

Firmware == ProbeFrom \/ Transmit \/ Settle \/ VerifyNew \/ VerifyOld
Owner == Post \/ ReadAnswer \/ Look \/ PlugOther

Next == Firmware \/ Restart \/ Hears \/ Owner

Spec == Init /\ [][Next]_vars

(* Both addresses typed right.                                             *)
RightMove == Post /\ from' = addr["close"] /\ to' = CloseAddr

(* The server and the relay go on, and so does the owner, who comes to     *)
(* "move" only with the relay's address in hand, the factory's, an         *)
(* answer's or a scan's, and sooner or later types both right.             *)
FairSpec ==
  /\ Spec
  /\ WF_vars(Firmware) /\ WF_vars(Hears) /\ WF_vars(Owner)
  /\ SF_vars(RightMove)

-----------------------------------------------------------------------------
(* Properties. *)

(* The types of the variables; no address out of range goes on the bus.    *)
TypeOK ==
  /\ addr \in [Relays -> Low .. High] /\ bus \subseteq Relays /\ deaf \subseteq bus
  /\ pc \in {"idle", "probe", "transmit", "settle", "verify", "verify old"}
  /\ {from, to} \subseteq Typed \union {OpenAddr, CloseAddr} /\ new_ok \in BOOLEAN
  /\ pc # "idle" => {from, to} \subseteq Low .. High
  /\ answer \in {"none", "bad request", "not found", "failed", "ok", "not ok", "lost"}
  /\ owner \in {"move", "wait", "look", "plug", "done"} /\ faults \in 0 .. MaxFaults

(* README: "the two coexist".  Once the owner is done a command presses    *)
(* its own relay and no other, whatever was mistyped for either address,   *)
(* failed, was retried or half done on the way.                            *)
Presses(a) == At(a)
Separated == owner = "done" => Presses(OpenAddr) = {"open"} /\ Presses(CloseAddr) = {"close"}

(* An owner who follows README gets there, but for one mistyped address:   *)
(* the greatest that the handler accepts is one that no scan shows, and a  *)
(* relay that went there without an answer is not found again.             *)
SetupEnds == <>(owner = "done") \/ <>[](addr["close"] = High)
==============================================================================
