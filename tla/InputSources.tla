----------------------------- MODULE InputSources -----------------------------
(***************************************************************************)
(* The input source of a hub: the input thread of core/broadcast_hub.py, its *)
(* reconnection with backoff, the four kinds of input it can drive           *)
(* (core/input_sources/), and BroadcastHub.stop in another thread, whose     *)
(* join can give up while the input is in a long connect().                  *)
(*                                                                          *)
(* The kinds differ in what disconnect() may interrupt, in when the new       *)
(* socket, port or link becomes visible to it, and in what a read error       *)
(* leaves open; an object that nothing refers to any more is closed.          *)
(***************************************************************************)
EXTENDS Integers

CONSTANTS
  Kinds,                               (* kinds of input that are tried        *)
  InitialDelay, MaxDelay, Multiplier,  (* ReconnectPolicy                      *)
  MaxFailures                          (* bound: failures counted in a row     *)

ASSUME KindsAssumption  == Kinds \subseteq {"tcp", "serial", "bluetooth", "ntrip"}
ASSUME PolicyAssumption ==
  /\ InitialDelay \in Nat \ {0} /\ Multiplier \in Nat \ {0, 1}
  /\ MaxDelay \in Nat /\ InitialDelay <= MaxDelay
ASSUME BoundAssumption  == MaxFailures \in Nat
(* The two laws that define ^, of which the provers know nothing               *)
ASSUME PowerAssumption ==
  /\ Multiplier ^ 0 = 1
  /\ \A n \in 0 .. MaxFailures : Multiplier ^ n \in Nat /\ Multiplier ^ (n + 1) = Multiplier ^ n * Multiplier

VARIABLES
  kind,       (* the configured kind                                          *)
  active,     (* hub: _running and not _stop_event                            *)
  tpc,        (* where the input thread is                                    *)
  spc,        (* where BroadcastHub.stop is                                   *)
  connected,  (* InputSource._connected                                       *)
  held,       (* the object's socket, port or link: none, live, or broken,    *)
              (* that is open without a usable connection                     *)
  fresh,      (* does the connect() in progress hold a socket of its own?     *)
  btManager,  (* Bluetooth: bt_manager is open                                *)
  overtaken,  (* NTRIP: _generation moved since connect() read it             *)
  pending,    (* NTRIP: bytes that came with the reply wait in _pending       *)
  persistent, (* last_failure_persistent                                      *)
  delay,      (* the wait that _reconnect_input computes                      *)
  peer,       (* the station: up, down, or refuses (also: channel busy)       *)
  failures,   (* history: failures since _reconnect_input was entered         *)
  refusedFor, (* history: was one of them persistent?                         *)
  gaveUp      (* history: did stop() give up its join?                        *)

sourceVars == <<connected, held, fresh, btManager, overtaken, pending, persistent>>
hubVars   == <<active, spc, gaveUp>>
waitVars  == <<delay, failures, refusedFor>>
inputVars == <<kind, peer, tpc, sourceVars, hubVars, waitVars>>

Moves(from, to) == tpc = from /\ tpc' = to
Least(a, b) == IF a < b THEN a ELSE b
Closed == IF held = "none" THEN "none" ELSE "broken"

-----------------------------------------------------------------------------
(* Faulty forms of definitions below: plausible bugs that the properties must  *)
(* exclude.  No specification uses them.                                     *)

InstallUnchecked ==
  /\ kind = "ntrip" /\ Moves("install", "loop")
  /\ fresh' = FALSE /\ held' = "live" /\ connected' = TRUE
  /\ pending' \in BOOLEAN
  /\ UNCHANGED <<kind, peer, btManager, overtaken, persistent, hubVars, waitVars>>

WaitUncapped ==
  /\ tpc = "wait" /\ tpc' = IF active THEN "attempt" ELSE "loop"
  /\ delay' = delay * Multiplier
  /\ UNCHANGED <<kind, peer, sourceVars, hubVars, failures, refusedFor>>

ErrorUnnoticed ==
  /\ Moves("read", "loop") /\ held # "live"
  /\ UNCHANGED <<kind, peer, sourceVars, hubVars, waitVars>>

-----------------------------------------------------------------------------
(* NtripInputSource.disconnect: everything under the lock, the socket it took  *)
(* is closed after it.                                                        *)
NtripDropped ==
  /\ held' = "none" /\ pending' = FALSE /\ connected' = FALSE /\ overtaken' = TRUE

(* _input_thread_worker: reconnect while the input is down, else read           *)
Loop ==
  /\ tpc = "loop"
  /\ tpc' = IF ~active THEN "off" ELSE IF connected THEN "read" ELSE "attempt"
  /\ IF active /\ ~connected
       THEN delay' = InitialDelay /\ failures' = 0 /\ refusedFor' = FALSE
       ELSE UNCHANGED waitVars
  /\ UNCHANGED <<kind, peer, sourceVars, hubVars>>

(* _reconnect_input and the start of connect(): TCP replaces its socket before  *)
(* it connects, NTRIP first disconnects, Bluetooth makes a manager              *)
Attempt ==
  /\ active /\ tpc = "attempt"
  /\ \/ kind = "tcp" /\ tpc' = "open" /\ held' = "broken"
        /\ UNCHANGED <<connected, btManager, overtaken, pending, persistent>>
     \/ kind = "serial" /\ tpc' = "open" /\ UNCHANGED sourceVars
     \/ kind = "bluetooth" /\ tpc' = "prepare" /\ btManager' = TRUE
        /\ UNCHANGED <<connected, held, overtaken, pending, persistent>>
     \/ kind = "ntrip" /\ tpc' = "generation" /\ NtripDropped
        /\ UNCHANGED <<btManager, persistent>>
  /\ UNCHANGED <<kind, peer, fresh, hubVars, waitVars>>

AttemptAfterStop ==
  /\ ~active /\ Moves("attempt", "off")
  /\ UNCHANGED <<kind, peer, sourceVars, hubVars, waitVars>>

ReadGeneration ==
  /\ Moves("generation", "open")
  /\ overtaken' = FALSE /\ persistent' = FALSE /\ fresh' = TRUE
  /\ UNCHANGED <<kind, peer, connected, held, btManager, pending, hubVars, waitVars>>

(* ensure_device_ready, then the RFCOMM socket of open_rfcomm_link              *)
PrepareDevice ==
  /\ btManager /\ peer # "down" /\ Moves("prepare", "open")
  /\ fresh' = TRUE
  /\ UNCHANGED <<kind, peer, connected, held, btManager, overtaken, pending, persistent, hubVars, waitVars>>

(* EBUSY: close the socket, wait, and try with another one                     *)
RetryBusy ==
  /\ kind = "bluetooth" /\ peer = "refuses" /\ tpc = "open"
  /\ UNCHANGED inputVars

(* serial.Serial(exclusive=True): the port cannot be opened while this process   *)
(* still has it open, whoever refers to it                                     *)
Opens == peer = "up" /\ (kind = "serial" => held = "none") /\ (kind = "tcp" => held # "none")

OpenTcp ==
  /\ kind = "tcp" /\ Opens /\ Moves("open", "loop")
  /\ held' = "live" /\ connected' = TRUE
  /\ UNCHANGED <<kind, peer, fresh, btManager, overtaken, pending, persistent, hubVars, waitVars>>

(* the port is visible to disconnect() before its health check is over          *)
OpenSerial ==
  /\ kind = "serial" /\ Opens /\ Moves("open", "health")
  /\ held' = "live"
  /\ UNCHANGED <<kind, peer, connected, fresh, btManager, overtaken, pending, persistent, hubVars, waitVars>>

PortHealthy ==
  /\ held = "live" /\ Moves("health", "loop")
  /\ connected' = TRUE
  /\ UNCHANGED <<kind, peer, held, fresh, btManager, overtaken, pending, persistent, hubVars, waitVars>>

(* the link replaces the one a read error left behind                          *)
OpenBluetooth ==
  /\ kind = "bluetooth" /\ Opens /\ Moves("open", "loop")
  /\ fresh' = FALSE /\ held' = "live" /\ connected' = TRUE
  /\ UNCHANGED <<kind, peer, btManager, overtaken, pending, persistent, hubVars, waitVars>>

(* the caster accepted the request                                            *)
OpenNtrip ==
  /\ kind = "ntrip" /\ Opens /\ Moves("open", "install")
  /\ UNCHANGED <<kind, peer, sourceVars, hubVars, waitVars>>

Install ==
  /\ kind = "ntrip" /\ tpc = "install"
  /\ fresh' = FALSE
  /\ IF overtaken
       THEN tpc' = "failed" /\ UNCHANGED <<connected, held, pending>>
       ELSE tpc' = "loop" /\ held' = "live" /\ connected' = TRUE /\ pending' \in BOOLEAN
  /\ IF overtaken THEN failures' = Least(failures + 1, MaxFailures) ELSE UNCHANGED failures
  /\ UNCHANGED <<kind, peer, btManager, overtaken, persistent, hubVars, delay, refusedFor>>

(* A failure raises and is counted.  The TCP socket and the serial port stay     *)
(* where they were assigned; Bluetooth forgets its link and keeps the manager;   *)
(* the caster's refusal may be one that lasts.                                *)
Fails(kept) ==
  /\ tpc' = "failed"
  /\ fresh' = FALSE /\ connected' = FALSE /\ held' = kept
  /\ failures' = Least(failures + 1, MaxFailures)
  /\ refusedFor' = (refusedFor \/ persistent')
  /\ UNCHANGED <<kind, peer, btManager, overtaken, pending, hubVars, delay>>

TcpFails ==
  kind = "tcp" /\ tpc = "open" /\ ~Opens /\ UNCHANGED persistent /\ Fails(held)

SerialFails ==
  /\ kind = "serial" /\ tpc \in {"open", "health"} /\ (tpc = "open" => ~Opens) /\ (tpc = "health" => held # "live")
  /\ UNCHANGED persistent /\ Fails(held)

BluetoothFails ==
  /\ kind = "bluetooth"
  /\ tpc = "open" => ~Opens
  /\ tpc = "prepare" => ~btManager \/ peer = "down"
  /\ tpc \in {"open", "prepare"}
  /\ UNCHANGED persistent /\ Fails("none")

NtripFails ==
  /\ kind = "ntrip" /\ tpc = "open" /\ ~Opens
  /\ persistent' \in (IF peer = "refuses" THEN BOOLEAN ELSE {persistent})
  /\ Fails(held)

(* the rest of the loop of _reconnect_input                                    *)
BackOff ==
  /\ Moves("failed", "wait")
  /\ delay' = IF persistent THEN MaxDelay ELSE delay
  /\ UNCHANGED <<kind, peer, sourceVars, hubVars, failures, refusedFor>>

WaitOver ==
  /\ tpc = "wait" /\ tpc' = IF active THEN "attempt" ELSE "loop"
  /\ delay' = Least(delay * Multiplier, MaxDelay)
  /\ UNCHANGED <<kind, peer, sourceVars, hubVars, failures, refusedFor>>

(* read_data: bytes off the connection, or none within the timeout               *)
ReadOrTimeOut ==
  /\ ~pending /\ Moves("read", "loop")
  /\ UNCHANGED <<kind, peer, sourceVars, hubVars, waitVars>>

(* end of stream or a read error: TCP, serial and Bluetooth only note it, and     *)
(* what they hold stays open                                                  *)
NoteError ==
  /\ Moves("read", "loop") /\ held # "live"
  /\ connected' = FALSE
  /\ UNCHANGED <<kind, peer, held, fresh, btManager, overtaken, pending, persistent, hubVars, waitVars>>

ReadTcp       == kind = "tcp" /\ (ReadOrTimeOut \/ NoteError)
ReadSerial    == kind = "serial" /\ (ReadOrTimeOut \/ NoteError)
ReadBluetooth == kind = "bluetooth" /\ (ReadOrTimeOut \/ NoteError)

(* NTRIP first hands on what came with the reply                               *)
ReadPending ==
  /\ pending /\ Moves("read", "loop")
  /\ pending' = FALSE
  /\ UNCHANGED <<kind, peer, connected, held, fresh, btManager, overtaken, persistent, hubVars, waitVars>>

(* NTRIP: _lose_connection, or _fail, after which the hub disconnects once more   *)
LoseConnection ==
  /\ Moves("read", "loop") /\ kind = "ntrip" /\ ~pending /\ held # "live"
  /\ NtripDropped
  /\ UNCHANGED <<kind, peer, fresh, btManager, persistent, hubVars, waitVars>>

ReadNtrip == kind = "ntrip" /\ (ReadPending \/ ReadOrTimeOut \/ LoseConnection)

-----------------------------------------------------------------------------
(* BroadcastHub.stop, as far as it meets the input                            *)

Stop ==
  /\ spc = "idle" /\ spc' = "join"
  /\ active' = FALSE
  /\ UNCHANGED <<kind, peer, tpc, sourceVars, gaveUp, waitVars>>

(* join(timeout=5.0): only a connect() can last longer                         *)
Join ==
  /\ spc = "join" /\ spc' = "disconnect"
  /\ \/ tpc = "off" /\ UNCHANGED gaveUp
     \/ tpc \in {"prepare", "open"} /\ gaveUp' = TRUE
  /\ UNCHANGED <<kind, peer, tpc, active, sourceVars, waitVars>>

(* disconnect(): close and forget, then the flag.  A TCP socket that is still      *)
(* connecting is only forgotten; connect() then fails and lets it go.            *)
Forget ==
  /\ spc = "disconnect" /\ spc' = "clear" /\ held' = "none"
  /\ UNCHANGED <<kind, peer, tpc, active, gaveUp, connected, fresh, overtaken, pending, persistent, waitVars>>

CloseTcp    == kind = "tcp" /\ Forget /\ UNCHANGED btManager
CloseSerial == kind = "serial" /\ Forget /\ UNCHANGED btManager

(* the device, the socket and the manager, which is also there without a link     *)
CloseBluetooth == kind = "bluetooth" /\ Forget /\ btManager' = FALSE

ClearConnected ==
  /\ spc = "clear" /\ spc' = "done"
  /\ connected' = FALSE
  /\ UNCHANGED <<kind, peer, tpc, active, gaveUp, held, fresh, btManager, overtaken, pending, persistent, waitVars>>

DisconnectNtrip ==
  /\ kind = "ntrip" /\ spc = "disconnect" /\ spc' = "done"
  /\ NtripDropped
  /\ UNCHANGED <<kind, peer, tpc, active, gaveUp, fresh, btManager, persistent, waitVars>>

(* The station                                                                *)
PeerChanges ==
  /\ peer' \in {"up", "down", "refuses"} \ {peer}
  /\ held' = IF peer = "up" THEN Closed ELSE held
  /\ UNCHANGED <<kind, tpc, connected, fresh, btManager, overtaken, pending, persistent, hubVars, waitVars>>

-----------------------------------------------------------------------------
InputInit ==
  /\ kind \in Kinds /\ peer \in {"up", "down", "refuses"}
  /\ active = TRUE /\ tpc = "loop" /\ spc = "idle"
  /\ connected = FALSE /\ held = "none" /\ fresh = FALSE /\ btManager = FALSE
  /\ overtaken = FALSE /\ pending = FALSE /\ persistent = FALSE
  /\ delay = InitialDelay /\ failures = 0 /\ refusedFor = FALSE /\ gaveUp = FALSE

Connecting ==
  \/ Attempt \/ AttemptAfterStop \/ ReadGeneration \/ PrepareDevice
  \/ OpenTcp \/ OpenSerial \/ PortHealthy \/ OpenBluetooth \/ OpenNtrip \/ Install
  \/ TcpFails \/ SerialFails \/ BluetoothFails \/ NtripFails \/ BackOff \/ WaitOver
Reading == ReadTcp \/ ReadSerial \/ ReadBluetooth \/ ReadNtrip
StopSteps == Join \/ CloseTcp \/ CloseSerial \/ CloseBluetooth \/ ClearConnected \/ DisconnectNtrip

InputNext == Loop \/ Connecting \/ RetryBusy \/ Reading \/ Stop \/ StopSteps \/ PeerChanges

InputSpec == InputInit /\ [][InputNext]_inputVars

(* The input thread runs on, a call on a broken connection ends in its error, and  *)
(* stop() goes on.  Nothing obliges anyone to stop the hub or the station to be up. *)
FairInputSpec ==
  /\ InputSpec
  /\ WF_inputVars(Loop \/ Connecting \/ Reading) /\ WF_inputVars(StopSteps)
  /\ SF_inputVars(kind # "ntrip" /\ NoteError) /\ SF_inputVars(LoseConnection)

-----------------------------------------------------------------------------
(* Properties.                                                               *)

InputTypeOK ==
  /\ kind \in Kinds /\ peer \in {"up", "down", "refuses"}
  /\ active \in BOOLEAN /\ gaveUp \in BOOLEAN
  /\ tpc \in {"off", "loop", "attempt", "generation", "prepare", "open", "health", "install",
              "failed", "wait", "read"}
  /\ spc \in {"idle", "join", "disconnect", "clear", "done"}
  /\ held \in {"none", "broken", "live"}
  /\ {connected, fresh, btManager, overtaken, pending, persistent, refusedFor} \subseteq BOOLEAN
  /\ delay \in Nat /\ failures \in 0 .. MaxFailures

(* The hub reads only from an input that has something to read, and never holds a   *)
(* connection it does not know of (is_connected is FALSE and so a second one       *)
(* would be made): _connected and the socket agree whenever the input thread        *)
(* looks at them, until stop() disconnects.  Once it has, and the input thread       *)
(* has ended, nothing is open: not for an NTRIP or a TCP input either whose          *)
(* connect() outlived the join of stop(), since _generation tells the one, and      *)
(* the missing socket the other.                                               *)
ConnectedIsOpen ==
  /\ InputTypeOK
  /\ spc \in {"idle", "join"} /\ tpc \in {"loop", "read"} =>
       /\ connected => held # "none"
       /\ held = "live" => connected
  /\ spc = "done" /\ tpc = "off" /\ (kind \in {"ntrip", "tcp"} \/ ~gaveUp) => held = "none" /\ ~fresh

(* The n-th wait of one outage is the policy's: initial * multiplier^(n-1) up to the  *)
(* maximum, and the maximum from the first persistent failure on.                *)
Backoff ==
  tpc = "wait" /\ failures < MaxFailures =>
    delay = IF refusedFor THEN MaxDelay
            ELSE Least(InitialDelay * Multiplier ^ (failures - 1), MaxDelay)

(* An input whose station is up for good ends up connected for good, whatever        *)
(* happened before; not a serial one, which still holds the port it lost.          *)
Reconnects ==
  kind # "serial" /\ <>[](active /\ peer = "up") => <>[](connected /\ held = "live")

=============================================================================
