--------------------------- MODULE BluetoothManager ---------------------------
(***************************************************************************)
(* BluetoothManager (core/bluetooth_manager.py): the calls that find, pair,   *)
(* trust, re-pair and connect devices, which are coroutines on one event loop  *)
(* and take turns at every await; the pairing agent that BlueZ calls back for  *)
(* a PIN; the timeout that gives a call up; and close().                      *)
(*                                                                          *)
(* A call is one step per answer of BlueZ that it waits for.  One call at a   *)
(* time runs for a device; calls for different devices share the agent, the   *)
(* discovery session and the manager.  BlueZ and the devices are external:    *)
(* they answer as the code expects them to, in any order, or not at all.      *)
(***************************************************************************)
EXTENDS Naturals

CONSTANTS
  Devices, Pins,
  NoPin,           (* no PIN                                                  *)
  Calls,           (* the calls made for each device: operation and PIN        *)
  Far,             (* bound: devices that are never in range                  *)
  ClaimsDefault,   (* claim_default_agent                                     *)
  MaxRetries       (* connect_device(max_retries)                             *)

ASSUME ConstantsAssumption ==
  /\ Far \subseteq Devices
  /\ NoPin \notin Pins /\ ClaimsDefault \in BOOLEAN /\ MaxRetries \in Nat \ {0}
  /\ Calls \in [Devices -> SUBSET ({"ensure", "repair", "connect", "disconnect"} \X (Pins \cup {NoPin}))]

VARIABLES
  manager,    (* "new", "open" (bus and loop), "closing" or "closed"          *)
  agent,      (* is the agent registered with BlueZ?                          *)
  call,       (* the last call for each device: what, with which PIN, where    *)
              (* it is, discovery_started, the attempts, its outcome, and     *)
              (* whether the device had a bond when it began                  *)
  cache,      (* _introspection_cache: none, or the object as it was read      *)
  recorded,   (* _pending_pins                                                *)
  dev,        (* BlueZ: the object, the bond's PIN (and whether the running     *)
              (* call found that bond), trusted, connected, the device's own   *)
              (* PIN; who started the pairing in progress, the agent's answer *)
  discovery,  (* BlueZ: this bus connection's discovery session                *)
  neglected   (* history: was a call ever given up?                           *)

bluez == <<dev, discovery>>
vars == <<manager, agent, call, cache, recorded, bluez, neglected>>

At(d, where) == call[d].at = where
InFlight(d) == ~At(d, "idle")
OnLoop(d, where) == manager \in {"open", "closing"} /\ At(d, where)
Goes(d, where) == call' = [call EXCEPT ![d].at = where]
Ends(d, outcome) == call' = [call EXCEPT ![d].at = "idle", ![d].outcome = outcome, ![d].scanning = FALSE]

-----------------------------------------------------------------------------
(* Faulty forms of definitions below: plausible bugs that the properties must  *)
(* exclude.  No specification uses them.                                     *)

PinKept(d) ==
  /\ OnLoop(d, "pairing")
  /\ call' = [call EXCEPT ![d].at = "idle", ![d].outcome = "pair"]
  /\ neglected' = TRUE
  /\ UNCHANGED <<manager, agent, cache, recorded, bluez>>

AlreadyBonded(d) == "trust"

ScanLeftOn(d) ==
  /\ OnLoop(d, "sleep") /\ Ends(d, "wait")
  /\ UNCHANGED <<manager, agent, cache, recorded, bluez, neglected>>

-----------------------------------------------------------------------------
(* __init__ and _async_init; the agent is exported before it is registered      *)
Open ==
  /\ manager = "new" /\ manager' = "open" /\ agent' = TRUE
  /\ UNCHANGED <<call, cache, recorded, bluez, neglected>>

FirstStep == [ensure |-> {"known", "wait"}, repair |-> {"remove"}, connect |-> {"connect"},
              disconnect |-> {"disconnect"}]

(* _run_async dispatches the coroutine, to a stopped loop as well.  connect_device *)
(* takes a PIN only if this manager claims to be the default agent.             *)
Begin(d, op, pin) ==
  /\ ~InFlight(d) /\ manager # "new"
  /\ op \in {"ensure", "repair"} => pin # NoPin
  /\ op = "connect" /\ pin # NoPin => ClaimsDefault
  /\ op = "disconnect" => pin = NoPin
  /\ \E first \in FirstStep[op] :
       call' = [call EXCEPT ![d] = [op |-> op, pin |-> pin, at |-> first, scanning |-> FALSE,
                                    tries |-> 0, outcome |-> "none", had |-> dev[d].bond # NoPin]]
  /\ dev' = [dev EXCEPT ![d].old = dev[d].bond # NoPin]
  /\ UNCHANGED <<manager, agent, cache, recorded, discovery, neglected>>

(* find_device_by_name: among the known devices, else discover.  An error of    *)
(* BlueZ, such as a session already in progress, also stops the discovery.       *)
FindKnown(d) ==
  /\ OnLoop(d, "known")
  /\ \/ dev[d].object # "absent" /\ Goes(d, "wait") /\ UNCHANGED discovery
     \/ dev[d].object = "absent" /\ ~discovery /\ Goes(d, "scan") /\ discovery' = TRUE
     \/ dev[d].object = "absent" /\ Ends(d, "find") /\ discovery' = FALSE
  /\ UNCHANGED <<manager, agent, cache, recorded, dev, neglected>>

ScanOver(d) ==
  /\ OnLoop(d, "scan")
  /\ IF dev[d].object # "absent" THEN Goes(d, "wait") ELSE Ends(d, "find")
  /\ discovery' = FALSE
  /\ UNCHANGED <<manager, agent, cache, recorded, dev, neglected>>

(* _invalidate_device_cache, then _get_introspection                           *)
Reread(d) == cache' = [cache EXCEPT ![d] = IF dev[d].object = "absent" THEN "none" ELSE dev[d].object]
Introspected(d) ==
  IF cache[d] = "none" THEN Reread(d) ELSE UNCHANGED cache

(* _async_wait_for_device_interface: poll until Device1 is there; a discovery      *)
(* that cannot be started is tried again at the next poll                       *)
InterfaceThere(d) ==
  /\ OnLoop(d, "wait") /\ dev[d].object = "full"
  /\ Reread(d)
  /\ call' = [call EXCEPT ![d].at = "pair", ![d].scanning = FALSE]
  /\ discovery' = (discovery /\ ~call[d].scanning)
  /\ UNCHANGED <<manager, agent, recorded, dev, neglected>>

InterfaceMissing(d) ==
  /\ OnLoop(d, "wait") /\ dev[d].object # "full"
  /\ Reread(d)
  /\ \/ ~call[d].scanning /\ discovery' = TRUE
        /\ call' = [call EXCEPT ![d].at = "sleep", ![d].scanning = TRUE]
     \/ UNCHANGED discovery /\ Goes(d, "sleep")
  /\ UNCHANGED <<manager, agent, recorded, dev, neglected>>

PollAgain(d) ==
  /\ OnLoop(d, "sleep") /\ Goes(d, "wait")
  /\ UNCHANGED <<manager, agent, cache, recorded, bluez, neglected>>

DeadlinePassed(d) ==
  /\ OnLoop(d, "sleep") /\ Ends(d, "wait")
  /\ discovery' = (discovery /\ ~call[d].scanning)
  /\ UNCHANGED <<manager, agent, cache, recorded, dev, neglected>>

(* force_repair, remove stage: a device that is not known is no error; a reply     *)
(* need not mean that the removal took effect                                   *)
Forgotten(d) == [object |-> "absent", bond |-> NoPin, old |-> FALSE, trusted |-> FALSE,
                 connected |-> FALSE, pin |-> dev[d].pin, by |-> "none", answer |-> NoPin]

RemoveBond(d) ==
  /\ OnLoop(d, "remove") /\ Goes(d, "wait")
  /\ \/ dev[d].object = "absent" /\ UNCHANGED <<cache, dev>>
     \/ dev[d].object # "absent" /\ cache' = [cache EXCEPT ![d] = "none"]
        /\ \/ dev' = [dev EXCEPT ![d] = Forgotten(d)]
           \/ UNCHANGED dev
  /\ UNCHANGED <<manager, agent, recorded, discovery, neglected>>

RemoveFails(d) ==
  /\ OnLoop(d, "remove") /\ Ends(d, "remove")
  /\ UNCHANGED <<manager, agent, cache, recorded, bluez, neglected>>

(* _async_pair_device up to Pair(): a bonded device is left alone, which is a     *)
(* success for ensure_device_ready and a failure of force_repair's pair stage   *)
BondExists(d) == IF call[d].op = "repair" THEN "idle" ELSE "trust"

FoundBonded(d) ==
  /\ OnLoop(d, "pair") /\ dev[d].object = "full" /\ dev[d].bond # NoPin
  /\ Reread(d)
  /\ IF BondExists(d) = "idle" THEN Ends(d, "pair") ELSE Goes(d, BondExists(d))
  /\ UNCHANGED <<manager, agent, recorded, bluez, neglected>>

(* the PIN is recorded and Pair() sent, which BlueZ refuses while it is pairing    *)
SendPair(d) ==
  /\ OnLoop(d, "pair") /\ dev[d].object = "full" /\ dev[d].bond = NoPin
  /\ Reread(d)
  /\ recorded' = [recorded EXCEPT ![d] = call[d].pin]
  /\ IF dev[d].by = "none"
       THEN Goes(d, "pairing") /\ dev' = [dev EXCEPT ![d].by = "call"]
       ELSE Goes(d, "refused") /\ UNCHANGED dev
  /\ UNCHANGED <<manager, agent, discovery, neglected>>

(* an error of BlueZ, such as the interface being gone                           *)
StepFails(d) ==
  /\ OnLoop(d, "pair") \/ OnLoop(d, "check") \/ OnLoop(d, "trust")
  /\ IF At(d, "check") THEN UNCHANGED cache ELSE Reread(d)
  /\ Ends(d, IF At(d, "trust") THEN "trust" ELSE "pair")
  /\ UNCHANGED <<manager, agent, recorded, bluez, neglected>>

Pop(d) == recorded' = [recorded EXCEPT ![d] = NoPin]

PairReplied(d) ==
  /\ OnLoop(d, "paired") /\ Pop(d) /\ Goes(d, "check")
  /\ UNCHANGED <<manager, agent, cache, bluez, neglected>>

PairRefused(d) ==
  /\ OnLoop(d, "refused") /\ Pop(d) /\ Ends(d, "pair")
  /\ UNCHANGED <<manager, agent, cache, bluez, neglected>>

(* _PAIRING_TIMEOUT: BlueZ never answered, and may go on with the pairing          *)
PairTimesOut(d) ==
  /\ OnLoop(d, "pairing") /\ Pop(d)
  /\ call' = [call EXCEPT ![d].at = "idle", ![d].outcome = "pair"]
  /\ neglected' = TRUE
  /\ UNCHANGED <<manager, agent, cache, bluez>>

(* Paired is read again, and a disagreement only logged                         *)
CheckPaired(d) ==
  /\ OnLoop(d, "check") /\ dev[d].object = "full" /\ Goes(d, "trust")
  /\ UNCHANGED <<manager, agent, cache, recorded, bluez, neglected>>

TrustDevice(d) ==
  /\ OnLoop(d, "trust") /\ dev[d].object = "full"
  /\ Reread(d) /\ Ends(d, "done")
  /\ dev' = [dev EXCEPT ![d].trusted = TRUE]
  /\ UNCHANGED <<manager, agent, recorded, discovery, neglected>>

(* connect_device: what was cached is not read anew; the PIN is recorded for all   *)
(* attempts, and only NotAvailable is tried again                                *)
Usable(d) == dev[d].object = "full" /\ cache'[d] = "full"

StartConnect(d) ==
  /\ OnLoop(d, "connect") /\ Introspected(d)
  /\ \/ ~Usable(d) /\ Ends(d, "connect") /\ UNCHANGED recorded
     \/ Usable(d) /\ dev[d].connected /\ Ends(d, "done") /\ UNCHANGED recorded
     \/ Usable(d) /\ ~dev[d].connected
        /\ call' = [call EXCEPT ![d].at = "connecting", ![d].tries = 1]
        /\ recorded' = [recorded EXCEPT ![d] = call[d].pin]
  /\ UNCHANGED <<manager, agent, bluez, neglected>>

ConnectReplied(d) ==
  /\ OnLoop(d, "connecting") /\ dev[d].object = "full" /\ Pop(d) /\ Ends(d, "done")
  /\ dev' = [dev EXCEPT ![d].connected = TRUE]
  /\ UNCHANGED <<manager, agent, cache, discovery, neglected>>

NotAvailable(d) ==
  /\ OnLoop(d, "connecting") /\ call[d].tries < MaxRetries /\ Goes(d, "retry")
  /\ UNCHANGED <<manager, agent, cache, recorded, bluez, neglected>>

ConnectFails(d) ==
  /\ OnLoop(d, "connecting") /\ Pop(d) /\ Ends(d, "connect")
  /\ UNCHANGED <<manager, agent, cache, bluez, neglected>>

ConnectAgain(d) ==
  /\ OnLoop(d, "retry")
  /\ call' = [call EXCEPT ![d].at = "connecting", ![d].tries = @ + 1]
  /\ UNCHANGED <<manager, agent, cache, recorded, bluez, neglected>>

DisconnectDevice(d) ==
  /\ OnLoop(d, "disconnect") /\ Introspected(d)
  /\ IF Usable(d) THEN Ends(d, "done") /\ dev' = [dev EXCEPT ![d].connected = FALSE]
                  ELSE Ends(d, "disconnect") /\ UNCHANGED dev
  /\ UNCHANGED <<manager, agent, recorded, discovery, neglected>>

(* _run_async gives up and cancels: finally clauses run, if the loop still does,   *)
(* and a discovery stays on                                                    *)
GiveUp(d) ==
  /\ InFlight(d)
  /\ call' = [call EXCEPT ![d].at = "idle", ![d].outcome = "cut", ![d].scanning = FALSE]
  /\ IF manager = "closed" THEN UNCHANGED recorded ELSE Pop(d)
  /\ neglected' = TRUE
  /\ UNCHANGED <<manager, agent, cache, bluez>>

(* close(): unregister the agent, which may fail, then leave the bus and stop the   *)
(* loop; BlueZ drops what this connection had under way                          *)
UnregisterAgent ==
  /\ manager = "open" /\ manager' = "closing" /\ agent' \in BOOLEAN
  /\ UNCHANGED <<call, cache, recorded, bluez, neglected>>

StopLoop ==
  /\ manager = "closing" /\ manager' = "closed" /\ agent' = FALSE
  /\ discovery' = FALSE
  /\ dev' = [d \in Devices |-> IF dev[d].by = "call" THEN [dev[d] EXCEPT !.by = "none", !.answer = NoPin] ELSE dev[d]]
  /\ UNCHANGED <<call, cache, recorded, neglected>>

-----------------------------------------------------------------------------
(* _PairingAgent.RequestPinCode: the PIN recorded for that device path, or         *)
(* rejected (which fails the pairing)                                           *)
RequestPinCode(d) ==
  /\ agent /\ dev[d].by # "none" /\ dev[d].answer = NoPin
  /\ recorded[d] # NoPin /\ dev' = [dev EXCEPT ![d].answer = recorded[d]]
  /\ UNCHANGED <<manager, agent, call, cache, recorded, discovery, neglected>>

(* BlueZ and the devices                                                      *)
Replies(d, how) ==
  IF dev[d].by = "call" /\ At(d, "pairing") THEN Goes(d, how) ELSE UNCHANGED call

Bonds(d) ==
  /\ dev[d].answer = dev[d].pin
  /\ dev' = [dev EXCEPT ![d].bond = dev[d].answer, ![d].old = FALSE, ![d].by = "none", ![d].answer = NoPin]
  /\ Replies(d, "paired")
  /\ UNCHANGED <<manager, agent, cache, recorded, discovery, neglected>>

PairingFails(d) ==
  /\ dev[d].by # "none" /\ dev[d].answer # dev[d].pin
  /\ dev' = [dev EXCEPT ![d].by = "none", ![d].answer = NoPin]
  /\ Replies(d, "refused")
  /\ UNCHANGED <<manager, agent, cache, recorded, discovery, neglected>>

CallerLess(d) ==
  /\ dev[d].object = "full" /\ dev[d].bond = NoPin /\ dev[d].by = "none"
  /\ dev' = [dev EXCEPT ![d].by = "remote"]
  /\ UNCHANGED <<manager, agent, call, cache, recorded, discovery, neglected>>

ObjectChanges(d) ==
  /\ d \notin Far /\ dev[d].by = "none"
  /\ \/ dev[d].object = "absent" /\ dev' = [dev EXCEPT ![d].object = "stub"]
     \/ dev[d].object = "stub" /\ dev' = [dev EXCEPT ![d].object = "full"]
     \/ dev[d].object = "full" /\ dev' = [dev EXCEPT ![d].object = "stub", ![d].connected = FALSE]
  /\ UNCHANGED <<manager, agent, call, cache, recorded, discovery, neglected>>

-----------------------------------------------------------------------------
Init ==
  /\ manager = "new" /\ agent = FALSE /\ discovery = FALSE /\ neglected = FALSE
  /\ call = [d \in Devices |-> [op |-> "none", pin |-> NoPin, at |-> "idle", scanning |-> FALSE,
                                tries |-> 0, outcome |-> "none", had |-> FALSE]]
  /\ cache = [d \in Devices |-> "none"] /\ recorded = [d \in Devices |-> NoPin]
  /\ dev \in [Devices -> [object : {"absent", "full"}, bond : Pins \cup {NoPin}, old : {FALSE},
                          trusted : {FALSE}, connected : {FALSE}, pin : Pins, by : {"none"},
                          answer : {NoPin}]]
  /\ \A d \in Devices : dev[d].object = "absent" \/ d \in Far => dev[d].object = "absent" /\ dev[d].bond = NoPin

Step(d) ==
  \/ FindKnown(d) \/ ScanOver(d) \/ InterfaceThere(d) \/ InterfaceMissing(d) \/ PollAgain(d)
  \/ DeadlinePassed(d) \/ RemoveBond(d) \/ RemoveFails(d) \/ FoundBonded(d) \/ SendPair(d)
  \/ StepFails(d) \/ PairReplied(d) \/ PairRefused(d) \/ PairTimesOut(d) \/ CheckPaired(d)
  \/ TrustDevice(d) \/ StartConnect(d) \/ ConnectReplied(d) \/ NotAvailable(d) \/ ConnectFails(d)
  \/ ConnectAgain(d) \/ DisconnectDevice(d)
Bluez(d) == RequestPinCode(d) \/ Bonds(d) \/ PairingFails(d) \/ CallerLess(d) \/ ObjectChanges(d)

Next ==
  \/ Open \/ UnregisterAgent \/ StopLoop
  \/ \E d \in Devices : \/ \E c \in Calls[d] : Begin(d, c[1], c[2])
                        \/ Step(d) \/ GiveUp(d) \/ Bluez(d)

Spec == Init /\ [][Next]_vars

-----------------------------------------------------------------------------
(* Properties.                                                               *)

TypeOK ==
  /\ manager \in {"new", "open", "closing", "closed"} /\ {agent, discovery, neglected} \subseteq BOOLEAN
  /\ recorded \in [Devices -> Pins \cup {NoPin}]
  /\ cache \in [Devices -> {"none", "stub", "full"}]
  /\ \A d \in Devices : call[d].tries \in 0 .. MaxRetries

(* The agent answers a request for a PIN with the PIN of the call that is in       *)
(* flight for that device, never with one left over from an earlier call nor       *)
(* with another device's; without such a call the pairing is rejected.            *)
AnswersInFlight ==
  [][\A d \in Devices :
       dev'[d].answer # dev[d].answer /\ dev'[d].answer # NoPin =>
         (call[d].at \in {"pairing", "refused", "paired", "connecting", "retry"}
          /\ dev'[d].answer = call[d].pin)]_vars

(* What the caller of force_repair can conclude: it succeeded, or failed in the       *)
(* trust stage: the bond is one made with the new PIN.  It failed in the remove      *)
(* stage on an answer of BlueZ: the bond is the old one, if there was one.  And       *)
(* ensure_device_ready: the device has a bond and is trusted.                      *)
OutcomeTells ==
  TypeOK /\ \A d \in Devices : ~InFlight(d) =>
    /\ call[d].op = "repair" /\ call[d].outcome \in {"trust", "done"} => dev[d].bond = call[d].pin /\ ~dev[d].old
    /\ call[d].op = "repair" /\ call[d].outcome = "remove" /\ call[d].had => dev[d].old
    /\ call[d].op = "ensure" /\ call[d].outcome = "done" => dev[d].bond # NoPin /\ dev[d].trusted

(* Discovery does not outlast the calls that need it, unless one was given up.     *)
ScanStops ==
  discovery /\ ~neglected => \E d \in Devices : InFlight(d)
=============================================================================
