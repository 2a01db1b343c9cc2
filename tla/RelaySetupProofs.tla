--------------------------- MODULE RelaySetupProofs ---------------------------
(***************************************************************************)
(* Proofs about RelaySetup, for any two addresses, anything typed for      *)
(* "from" and for "to" and any number of failures: an owner who follows    *)
(* README, and compares the address in the answer with the wanted one,     *)
(* never ends with a command that presses the wrong relay or none.         *)
(*                                                                         *)
(* The argument: the relay for OPEN is not on the bus before the owner     *)
(* plugs it in; until then whatever acknowledges an address is the relay   *)
(* for CLOSE, so "ok" says that it is at the answer's "to", and the owner  *)
(* goes on only when that, or the one address of a scan, is CloseAddr.     *)
(***************************************************************************)
EXTENDS RelaySetup, TLAPS

-----------------------------------------------------------------------------
(* The invariant. *)

BusTypes ==
  /\ addr \in [Relays -> Low .. High] /\ bus \subseteq Relays /\ deaf \subseteq {"close"}

TaskTypes ==
  /\ pc \in {"idle", "probe", "transmit", "settle", "verify", "verify old"}
  /\ {from, to} \subseteq Typed \union {OpenAddr, CloseAddr} /\ new_ok \in BOOLEAN
  /\ pc # "idle" => {from, to} \subseteq Low .. High

OwnerTypes ==
  /\ answer \in {"none", "bad request", "not found", "failed", "ok", "not ok", "lost"}
  /\ owner \in {"move", "wait", "look", "plug", "done"}

FaultTypes == faults \in 0 .. MaxFaults

(* The relay for OPEN keeps its address and stays off the bus until the    *)
(* end; a request is served only while the owner waits for it.             *)
Alone ==
  /\ addr["open"] = OpenAddr
  /\ bus = IF owner = "done" THEN Relays ELSE {"close"}
  /\ pc # "idle" => owner = "wait"

ClosesAt(a) == addr["close"] = a

(* Whatever makes the owner go on rests on an answer from the new address. *)
Evidence ==
  /\ pc = "verify old" /\ new_ok => ClosesAt(to)
  /\ owner = "wait" /\ pc = "idle" /\ answer = "ok" => ClosesAt(to)
  /\ owner \in {"plug", "done"} => ClosesAt(CloseAddr)

Safety == BusTypes /\ TaskTypes /\ OwnerTypes /\ FaultTypes /\ Alone /\ Evidence

-----------------------------------------------------------------------------
(* What acknowledges an address is the relay for CLOSE. *)
LEMMA Answering ==
  ASSUME Alone, owner # "done", NEW a, Acks(a) PROVE ClosesAt(a)
<1>1. PICK r \in bus : addr[r] = a
  BY DEF Acks, At
<1>2. r = "close"
  BY <1>1 DEF Alone
<1> QED BY <1>1, <1>2 DEF ClosesAt

LEMMA InitSafe == Init => Safety
<1> SUFFICES ASSUME Init PROVE Safety
  OBVIOUS
<1>1. BusTypes
  BY RelaySetupAssumption DEF Init, BusTypes, Relays, RelaySetupAssumption
<1>2. TaskTypes /\ OwnerTypes
  BY RelaySetupAssumption DEF Init, TaskTypes, OwnerTypes, RelaySetupAssumption
<1>3. FaultTypes
  BY RelaySetupAssumption DEF Init, FaultTypes, RelaySetupAssumption
<1>4. Alone /\ Evidence
  BY DEF Init, Alone, Evidence, Relays
<1> QED BY <1>1, <1>2, <1>3, <1>4 DEF Safety

LEMMA FaultTypesKept ==
  ASSUME FaultTypes, [Next]_vars PROVE FaultTypes'
<1>1. Fault \/ UNCHANGED faults
  BY DEF Next, Firmware, Owner, Post, ProbeFrom, Probe, Transmit, Settle, VerifyNew, VerifyOld,
     Restart, Hears, ReadAnswer, Look, PlugOther, NoFault, vars
<1> QED BY <1>1, RelaySetupAssumption DEF RelaySetupAssumption, FaultTypes, Fault

(* What a transmit can do to the relays on the bus.                        *)
LEMMA Obeying ==
  ASSUME BusTypes, TaskTypes, Alone, owner # "done", Transmit
  PROVE  /\ BusTypes' /\ addr'["open"] = OpenAddr
         /\ UNCHANGED <<bus, from, to, new_ok, owner>>
<1>1. PICK relays : relays \subseteq {"close"} /\ Obey(relays)
  BY DEF Transmit, At, Alone
<1>2. UNCHANGED <<bus, from, to, new_ok, owner>>
  BY DEF Transmit
<1>3. addr' \in [Relays -> Low .. High] /\ addr'["open"] = OpenAddr
  <2>1. to \in Low .. High
    BY DEF Transmit, TaskTypes
  <2> QED BY <1>1, <2>1 DEF Obey, BusTypes, Alone, Relays
<1>4. deaf' \subseteq {"close"}
  BY <1>1 DEF Obey, BusTypes
<1> QED BY <1>2, <1>3, <1>4 DEF BusTypes

LEMMA SafetyKept ==
  ASSUME Safety, [Next]_vars
  PROVE  BusTypes' /\ TaskTypes' /\ OwnerTypes' /\ Alone' /\ Evidence'
<1> USE DEF Safety
<1>1. CASE Post
  <2>1. PICK a \in Typed, b \in Typed :
          /\ from' = a /\ to' = b /\ owner' = "wait"
          /\ IF Parses(a) /\ Parses(b) THEN Goes("probe") /\ answer' = "none"
                                       ELSE Answers("bad request")
    BY <1>1 DEF Post
  <2>2. owner = "move" /\ UNCHANGED <<addr, bus, deaf, new_ok, faults>>
    BY <1>1 DEF Post
  <2>3. /\ Parses(a) => a \in Low .. High
        /\ Parses(b) => b \in Low .. High
    BY RelaySetupAssumption DEF RelaySetupAssumption, Parses
  <2>4. \/ pc' = "probe" /\ answer' = "none" /\ {a, b} \subseteq Low .. High
        \/ pc' = "idle" /\ answer' = "bad request"
    BY <2>1, <2>3 DEF Goes, Answers
  <2> QED
    BY <2>1, <2>2, <2>4 DEF BusTypes, TaskTypes, OwnerTypes, Alone, Evidence
<1>2. CASE ProbeFrom
  <2>1. /\ pc = "probe" /\ UNCHANGED <<addr, bus, deaf, from, to, new_ok, owner>>
        /\ \/ pc' = "transmit" /\ answer' = answer
           \/ pc' = "idle" /\ answer' = "not found"
    BY <1>2 DEF ProbeFrom, Goes, Answers
  <2> QED
    BY <2>1 DEF BusTypes, TaskTypes, OwnerTypes, Alone, Evidence, ClosesAt
<1>3. CASE Transmit
  <2>1. /\ pc = "transmit"
        /\ \/ pc' = "settle" /\ answer' = answer
           \/ pc' = "idle" /\ answer' = "failed"
    BY <1>3 DEF Transmit, Goes, Answers
  <2>2. owner = "wait"
    BY <2>1 DEF Alone
  <2>3. BusTypes' /\ addr'["open"] = OpenAddr /\ UNCHANGED <<bus, from, to, new_ok, owner>>
    BY <1>3, <2>2, Obeying
  <2> QED
    BY <2>1, <2>2, <2>3 DEF TaskTypes, OwnerTypes, Alone, Evidence, ClosesAt
<1>4. CASE Settle
  BY <1>4 DEF Settle, Goes, BusTypes, TaskTypes, OwnerTypes, Alone, Evidence, ClosesAt
<1>5. CASE VerifyNew
  <2>0. PICK ok \in BOOLEAN : Probe(to, ok) /\ new_ok' = ok
    BY <1>5 DEF VerifyNew
  <2>1. /\ pc = "verify" /\ pc' = "verify old"
        /\ UNCHANGED <<addr, bus, deaf, from, to, answer, owner>>
        /\ new_ok' \in BOOLEAN /\ (new_ok' => Acks(to))
    <3>1. ok => Acks(to)
      BY <2>0, Zenon DEF Probe
    <3> QED BY <1>5, <2>0, <3>1 DEF VerifyNew, Goes
  <2>2. owner = "wait" /\ (new_ok' => ClosesAt(to))
    BY <2>1, Answering DEF Alone
  <2> QED
    BY <2>1, <2>2 DEF BusTypes, TaskTypes, OwnerTypes, Alone, Evidence, ClosesAt
<1>6. CASE VerifyOld
  <2>1. /\ pc = "verify old" /\ pc' = "idle"
        /\ UNCHANGED <<addr, bus, deaf, from, to, new_ok, owner>>
        /\ \/ answer' = "ok" /\ new_ok
           \/ answer' = "not ok"
    BY <1>6 DEF VerifyOld, Verdict, Answers, Goes
  <2> QED
    BY <2>1 DEF BusTypes, TaskTypes, OwnerTypes, Alone, Evidence, ClosesAt
<1>7. CASE Restart
  BY <1>7 DEF Restart, Answers, Goes, BusTypes, TaskTypes, OwnerTypes, Alone, Evidence, ClosesAt
<1>8. CASE Hears
  BY <1>8 DEF Hears, firmware, BusTypes, TaskTypes, OwnerTypes, Alone, Evidence, ClosesAt
<1>9. CASE ReadAnswer
  BY <1>9 DEF ReadAnswer, firmware, BusTypes, TaskTypes, OwnerTypes, Alone, Evidence, ClosesAt
<1>10. CASE Look
  <2>1. /\ owner = "look" /\ pc = "idle"
        /\ UNCHANGED <<addr, bus, deaf, pc, from, to, new_ok, answer>>
        /\ owner' \in {"move", "look"} \/ (owner' = "plug" /\ Scan = {CloseAddr})
    BY <1>10 DEF Look, firmware
  <2>2. CloseAddr \in Scan => ClosesAt(CloseAddr)
    BY <2>1, Answering DEF Scan
  <2> QED
    BY <2>1, <2>2 DEF BusTypes, TaskTypes, OwnerTypes, Alone, Evidence, ClosesAt
<1>11. CASE PlugOther
  BY <1>11 DEF PlugOther, firmware, BusTypes, TaskTypes, OwnerTypes, Alone, Evidence, ClosesAt
<1>12. CASE UNCHANGED vars
  BY <1>12 DEF vars, firmware, BusTypes, TaskTypes, OwnerTypes, Alone, Evidence, ClosesAt
<1> QED
  BY <1>1, <1>2, <1>3, <1>4, <1>5, <1>6, <1>7, <1>8, <1>9, <1>10, <1>11, <1>12
     DEF Next, Firmware, Owner

-----------------------------------------------------------------------------
(* What follows for every behaviour. *)

(* The invariant of the owner's way, the relays and the server.            *)
THEOREM SafetyHolds == Spec => []Safety
<1>1. Safety /\ [Next]_vars => Safety'
  BY SafetyKept, FaultTypesKept DEF Safety
<1> QED BY <1>1, InitSafe, PTL DEF Spec

(* The types, among them that no address out of range goes on the bus      *)
(* (parse_i2c_addr).                                                       *)
THEOREM SetupTypeCorrect == Spec => []TypeOK
<1>1. Safety => TypeOK
  BY DEF Safety, BusTypes, TaskTypes, OwnerTypes, FaultTypes, Alone, Relays, TypeOK
<1> QED BY <1>1, SafetyHolds, PTL

(* Once the owner is done each address presses its own relay and no other, *)
(* whatever was typed for either address on the way, since the owner goes  *)
(* on only when the answer's "to" is the wanted one                        *)
(* (handle_i2c_relay_address, handle_i2c_scan; README, "Reassigning relay  *)
(* addresses").                                                            *)
THEOREM RelaysAreSeparated == Spec => []Separated
<1>1. Safety => Separated
  <2> SUFFICES ASSUME Safety, owner = "done"
               PROVE  At(OpenAddr) = {"open"} /\ At(CloseAddr) = {"close"}
    BY DEF Separated, Presses
  <2>1. bus = {"open", "close"} /\ addr["open"] = OpenAddr /\ addr["close"] = CloseAddr
    BY DEF Safety, Alone, Evidence, ClosesAt, Relays
  <2>2. OpenAddr # CloseAddr
    BY RelaySetupAssumption DEF RelaySetupAssumption
  <2> QED BY <2>1, <2>2 DEF At
<1> QED BY <1>1, SafetyHolds, PTL
==============================================================================
