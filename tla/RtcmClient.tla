------------------------------ MODULE RtcmClient ------------------------------
(***************************************************************************)
(* The connection of a Sure-Path destination (core/rtcm_client.py behind     *)
(* core/destinations/surepath_destination.py): the run loop thread connects  *)
(* and sends, a heartbeat monitor thread reads, and a caller stops the       *)
(* destination and starts it again.  All of them end connections.            *)
(*                                                                          *)
(* RTCMClient._lock guards single assignments to state; every method that    *)
(* spans several of them is here one action per block or per shared read.    *)
(* What several threads run (HeartbeatMonitor.stop, _cleanup_connection,     *)
(* _on_connection_lost, disconnect) is written once, for a thread t, and     *)
(* goal[t] says whose call _cleanup_connection returns to.                   *)
(***************************************************************************)
EXTENDS Integers

CONSTANTS
  Monitors,        (* heartbeat monitor threads that can be alive at once     *)
  RunLoop, Caller, (* the other two threads                                   *)
  None,            (* no thread                                               *)
  MaxSockets,      (* bound: connection attempts                              *)
  MaxDelay,        (* config.retry_max_delay, in units of the initial delay   *)
  JoinMayTimeOut   (* may stop() give up its join of a run loop in a long call? *)

ASSUME ThreadsAssumption ==
  RunLoop # Caller /\ None \notin {RunLoop, Caller} /\ Monitors \cap {RunLoop, Caller, None} = {}
ASSUME BoundsAssumption  == MaxSockets \in Nat /\ MaxDelay \in Nat \ {0}
ASSUME JoinAssumption    == JoinMayTimeOut \in BOOLEAN

VARIABLES
  state,       (* RTCMClient.state                                             *)
  socket,      (* RTCMClient.socket: the number of the attempt, 0 for None     *)
  attempts,    (* connection attempts made                                     *)
  closed,      (* sockets that were closed                                     *)
  gone,        (* sockets whose server went away                               *)
  delay,       (* _current_retry_delay                                         *)
  running,     (* HeartbeatMonitor.running                                     *)
  monitor,     (* HeartbeatMonitor.thread                                      *)
  watched,     (* HeartbeatMonitor.socket                                      *)
  reading,     (* the socket each monitor thread blocks on                     *)
  pc,          (* where each thread is                                         *)
  goal,        (* what it cleans up for                                        *)
  wanted,      (* BaseDestination._running                                     *)
  gaveUp,      (* history: did stop() give up its join?                        *)
  trampled     (* history: did a loss overwrite the state of a newer attempt?  *)

clientVars  == <<state, socket, attempts, closed, delay>>
monitorVars == <<running, monitor, watched>>
threadVars  == <<pc, goal, reading>>
otherVars   == <<gone, wanted, gaveUp, trampled>>
vars == <<clientVars, monitorVars, threadVars, otherVars>>

Threads == Monitors \cup {RunLoop, Caller}
Sockets == 1 .. MaxSockets
Alive(t)   == pc[t] # "off"
Usable(s)  == s # 0 /\ s \notin closed \cup gone
At(t, at)  == pc[t] = at
Goes(t, from, to) == At(t, from) /\ pc' = [pc EXCEPT ![t] = to]
EndingAt == {"stopMonitor", "join", "shut", "clear", "mark", "lost", "disconnect", "down"}
Places == EndingAt \cup
  {"off", "idle", "joinRunLoop", "loop", "create", "dial", "authenticate", "greet", "adopt",
   "watch", "spawn", "send", "check", "arm", "recv"}
CleanUp(t, from, why) ==
  /\ Goes(t, from, "shut")
  /\ goal' = [goal EXCEPT ![t] = why]

(* the delay that _update_retry_delay computes                                 *)
Doubled == IF 2 * delay < MaxDelay THEN 2 * delay ELSE MaxDelay
AfterCleanUp == [replace |-> "create", failed |-> "loop", lost |-> "lost", disconnect |-> "down"]

-----------------------------------------------------------------------------
(* Faulty forms of definitions below: plausible bugs that the properties must  *)
(* exclude.  No specification uses them.                                     *)

MonitorFlagKept(t) ==
  /\ Goes(t, "stopMonitor", IF monitor \in {None, t} \/ ~Alive(monitor) THEN "shut" ELSE "join")
  /\ watched' = 0
  /\ UNCHANGED <<clientVars, running, monitor, goal, reading, otherVars>>

JoinWithoutTimeout(t) ==
  /\ Goes(t, "join", "shut") /\ ~Alive(monitor)
  /\ UNCHANGED <<clientVars, monitorVars, goal, reading, otherVars>>

ReferenceKept(t) ==
  /\ Goes(t, "clear", "mark")
  /\ UNCHANGED <<clientVars, monitorVars, goal, reading, otherVars>>

AttemptNotMarked(t) ==
  /\ Goes(t, "mark", AfterCleanUp[goal[t]])
  /\ state' = IF state = "connected" THEN "error" ELSE state
  /\ UNCHANGED <<socket, attempts, closed, delay, monitorVars, goal, reading, otherVars>>

AlarmWithoutCallback(m) ==
  /\ Goes(m, "recv", "off")
  /\ reading' = [reading EXCEPT ![m] = 0]
  /\ UNCHANGED <<clientVars, monitorVars, goal, otherVars>>

-----------------------------------------------------------------------------
(* HeartbeatMonitor.stop, for the calls in _on_connection_lost and disconnect *)

StopMonitor(t) ==
  /\ Goes(t, "stopMonitor", IF monitor \in {None, t} \/ ~Alive(monitor) THEN "shut" ELSE "join")
  /\ running' = FALSE /\ watched' = 0
  /\ UNCHANGED <<clientVars, monitor, goal, reading, otherVars>>

(* join(timeout=5.0): the thread wakes every second and ends when it was told   *)
(* to; the join gives up on one that start() has told to go on                 *)
JoinMonitor(t) ==
  /\ Goes(t, "join", "shut")
  /\ ~Alive(monitor) \/ running
  /\ UNCHANGED <<clientVars, monitorVars, goal, reading, otherVars>>

(* _cleanup_connection: shutdown and close, drop the reference, note the state *)
CloseSocket(t) ==
  /\ Goes(t, "shut", IF socket = 0 THEN "mark" ELSE "clear")
  /\ closed' = closed \cup ({socket} \ {0})
  /\ UNCHANGED <<state, socket, attempts, delay, monitorVars, goal, reading, otherVars>>

ClearSocket(t) ==
  /\ Goes(t, "clear", "mark")
  /\ socket' = 0
  /\ UNCHANGED <<state, attempts, closed, delay, monitorVars, goal, reading, otherVars>>

MarkError(t) ==
  /\ Goes(t, "mark", AfterCleanUp[goal[t]])
  /\ state' = IF state \in {"disconnected", "stopping"} THEN state ELSE "error"
  /\ UNCHANGED <<socket, attempts, closed, delay, monitorVars, goal, reading, otherVars>>

(* the rest of _on_connection_lost; a monitor thread then leaves its loop, and *)
(* the run loop, whose send failed, goes on to disconnect()                   *)
ConnectionLost(t) ==
  /\ Goes(t, "lost", IF t = RunLoop THEN "disconnect" ELSE "off")
  /\ delay' = Doubled
  /\ state' = "disconnected"
  /\ trampled' = (trampled \/ state \in {"connecting", "authenticating", "connected"})
  /\ UNCHANGED <<socket, attempts, closed, monitorVars, goal, reading, gone, wanted, gaveUp>>

(* disconnect()                                                            *)
Return(t) == IF t = RunLoop THEN "loop" ELSE "idle"

Disconnect(t) ==
  /\ \/ /\ state = "disconnected"
        /\ Goes(t, "disconnect", Return(t))
        /\ UNCHANGED <<state, goal>>
     \/ /\ state # "disconnected"
        /\ Goes(t, "disconnect", "stopMonitor")
        /\ state' = "stopping"
        /\ goal' = [goal EXCEPT ![t] = "disconnect"]
  /\ UNCHANGED <<socket, attempts, closed, delay, monitorVars, reading, otherVars>>

Disconnected(t) ==
  /\ Goes(t, "down", Return(t))
  /\ state' = "disconnected"
  /\ UNCHANGED <<socket, attempts, closed, delay, monitorVars, goal, reading, otherVars>>

-----------------------------------------------------------------------------
(* The run loop: SurePathDestination._attempt_connect, once the retry delay  *)
(* is over, and RTCMClient.connect.                                          *)

Connect ==
  /\ wanted /\ state # "connected" /\ attempts < MaxSockets
  /\ \/ /\ state \in {"connecting", "authenticating"}
        /\ At(RunLoop, "loop") /\ UNCHANGED <<state, pc, goal>>
     \/ /\ state \notin {"connecting", "authenticating"}
        /\ state' = "connecting"
        /\ IF socket = 0 THEN Goes(RunLoop, "loop", "create") /\ UNCHANGED goal
                         ELSE CleanUp(RunLoop, "loop", "replace")
  /\ UNCHANGED <<socket, attempts, closed, delay, monitorVars, reading, otherVars>>

CreateSocket ==
  /\ Goes(RunLoop, "create", "dial")
  /\ attempts' = attempts + 1 /\ socket' = attempts + 1
  /\ UNCHANGED <<state, closed, delay, monitorVars, goal, reading, otherVars>>

Dial ==
  /\ Usable(socket) /\ Goes(RunLoop, "dial", "authenticate")
  /\ UNCHANGED <<clientVars, monitorVars, goal, reading, otherVars>>

Authenticate ==
  /\ socket # 0 /\ Goes(RunLoop, "authenticate", "greet")
  /\ state' = "authenticating"
  /\ UNCHANGED <<socket, attempts, closed, delay, monitorVars, goal, reading, otherVars>>

Greeted ==
  /\ Usable(socket) /\ Goes(RunLoop, "greet", "adopt")
  /\ UNCHANGED <<clientVars, monitorVars, goal, reading, otherVars>>

(* refused, timed out, reset, closed by another thread, or already None: the   *)
(* exception handlers and the failed authentication all clean up              *)
ConnectFails ==
  /\ \E at \in {"dial", "authenticate", "greet"} :
       /\ at = "authenticate" => socket = 0
       /\ CleanUp(RunLoop, at, "failed")
  /\ UNCHANGED <<clientVars, monitorVars, reading, otherVars>>

Adopt ==
  /\ Goes(RunLoop, "adopt", "watch")
  /\ state' = "connected" /\ delay' = 1
  /\ UNCHANGED <<socket, attempts, closed, monitorVars, goal, reading, gone, wanted, gaveUp, trampled>>

(* HeartbeatMonitor.start: nothing while running is set                        *)
WatchSocket ==
  /\ Goes(RunLoop, "watch", IF running THEN "loop" ELSE "spawn")
  /\ watched' = IF running THEN watched ELSE socket
  /\ UNCHANGED <<clientVars, running, monitor, goal, reading, otherVars>>

SpawnMonitor ==
  /\ running' = TRUE
  /\ \E m \in Monitors :
       /\ ~Alive(m)
       /\ monitor' = m
       /\ At(RunLoop, "spawn") /\ pc' = [pc EXCEPT ![RunLoop] = "loop", ![m] = "check"]
  /\ UNCHANGED <<clientVars, watched, goal, reading, otherVars>>

(* send_rtcm_data: is_connected and self.socket are read before sendall          *)
BeginSend ==
  /\ wanted /\ state = "connected"
  /\ Goes(RunLoop, "loop", "send")
  /\ UNCHANGED <<clientVars, monitorVars, goal, reading, otherVars>>

SendOk ==
  /\ socket # 0 /\ socket \notin closed
  /\ Goes(RunLoop, "send", "loop")
  /\ UNCHANGED <<clientVars, monitorVars, goal, reading, otherVars>>

SendLost ==
  /\ socket \in closed \cup gone
  /\ Goes(RunLoop, "send", "stopMonitor")
  /\ goal' = [goal EXCEPT ![RunLoop] = "lost"]
  /\ UNCHANGED <<clientVars, monitorVars, reading, otherVars>>

SendRefused ==
  /\ socket = 0
  /\ Goes(RunLoop, "send", "disconnect")
  /\ UNCHANGED <<clientVars, monitorVars, goal, reading, otherVars>>

LeaveRunLoop ==
  /\ ~wanted /\ Goes(RunLoop, "loop", "off")
  /\ UNCHANGED <<clientVars, monitorVars, goal, reading, otherVars>>

-----------------------------------------------------------------------------
(* HeartbeatMonitor._monitor_loop in thread m.                              *)

MonitorCheck(m) ==
  /\ Goes(m, "check", IF running /\ watched # 0 THEN "arm" ELSE "off")
  /\ UNCHANGED <<clientVars, monitorVars, goal, reading, otherVars>>

(* settimeout and recv on self.socket, which stop() may have set to None        *)
MonitorRead(m) ==
  /\ watched # 0 /\ Goes(m, "arm", "recv")
  /\ reading' = [reading EXCEPT ![m] = watched]
  /\ UNCHANGED <<clientVars, monitorVars, goal, otherVars>>

(* data, or nothing for one second and no heartbeat overdue: round the loop      *)
MonitorWakes(m) ==
  /\ Usable(reading[m]) /\ Goes(m, "recv", "check")
  /\ reading' = [reading EXCEPT ![m] = 0]
  /\ UNCHANGED <<clientVars, monitorVars, goal, otherVars>>

(* the callback _on_heartbeat_timeout: end of stream, an error, or an overdue    *)
(* heartbeat, be the server there or not                                      *)
MonitorAlarm(m) ==
  /\ \/ Goes(m, "recv", "stopMonitor")
     \/ watched = 0 /\ Goes(m, "arm", "stopMonitor")
  /\ goal' = [goal EXCEPT ![m] = "lost"]
  /\ reading' = [reading EXCEPT ![m] = 0]
  /\ UNCHANGED <<clientVars, monitorVars, otherVars>>

-----------------------------------------------------------------------------
(* The caller: BaseDestination.start and stop; and the server.               *)

StartDestination ==
  /\ ~wanted /\ At(Caller, "idle") /\ ~Alive(RunLoop)
  /\ wanted' = TRUE
  /\ Goes(RunLoop, "off", "loop")
  /\ UNCHANGED <<clientVars, monitorVars, goal, reading, gone, gaveUp, trampled>>

StopDestination ==
  /\ wanted /\ Goes(Caller, "idle", "joinRunLoop")
  /\ wanted' = FALSE
  /\ UNCHANGED <<clientVars, monitorVars, goal, reading, gone, gaveUp, trampled>>

JoinRunLoop ==
  /\ Goes(Caller, "joinRunLoop", "disconnect")
  /\ \/ ~Alive(RunLoop) /\ UNCHANGED gaveUp
     \/ JoinMayTimeOut /\ pc[RunLoop] \in {"dial", "greet", "send"} /\ gaveUp' = TRUE
  /\ UNCHANGED <<clientVars, monitorVars, goal, reading, gone, wanted, trampled>>

ServerGone ==
  /\ socket # 0 /\ gone' = gone \cup {socket} /\ gone' # gone
  /\ UNCHANGED <<clientVars, monitorVars, threadVars, wanted, gaveUp, trampled>>

-----------------------------------------------------------------------------
Init ==
  /\ state = "disconnected" /\ socket = 0 /\ attempts = 0 /\ closed = {} /\ gone = {}
  /\ delay = 1
  /\ running = FALSE /\ monitor = None /\ watched = 0
  /\ reading = [m \in Monitors |-> 0]
  /\ pc = [t \in Threads |-> IF t = Caller THEN "idle" ELSE "off"]
  /\ goal = [t \in Threads |-> "failed"]
  /\ wanted = FALSE /\ gaveUp = FALSE /\ trampled = FALSE

SharedSteps(t) ==
  \/ StopMonitor(t) \/ JoinMonitor(t) \/ CloseSocket(t) \/ ClearSocket(t) \/ MarkError(t)
  \/ ConnectionLost(t) \/ Disconnect(t) \/ Disconnected(t)
ConnectSteps ==
  \/ CreateSocket \/ Dial \/ Authenticate \/ Greeted \/ ConnectFails
  \/ Adopt \/ WatchSocket \/ SpawnMonitor
SendSteps == SendOk \/ SendLost \/ SendRefused
RunLoopSteps ==
  SharedSteps(RunLoop) \/ ConnectSteps \/ SendSteps \/ LeaveRunLoop
MonitorSteps(m) ==
  SharedSteps(m) \/ MonitorCheck(m) \/ MonitorRead(m) \/ MonitorWakes(m) \/ MonitorAlarm(m)

Next ==
  \/ \E m \in Monitors : MonitorSteps(m)
  \/ RunLoopSteps \/ Connect \/ BeginSend
  \/ SharedSteps(Caller) \/ JoinRunLoop
  \/ StartDestination \/ StopDestination
  \/ ServerGone

Spec == Init /\ [][Next]_vars

(* Every thread runs on: sockets have timeouts, joins return.  Nothing obliges  *)
(* the input to deliver a chunk (Connect, BeginSend), a caller to call, or a     *)
(* server to stay or to go.                                                   *)
FairSpec ==
  /\ Spec
  /\ WF_vars(RunLoopSteps)
  /\ WF_vars(SharedSteps(Caller) \/ JoinRunLoop)
  /\ \A m \in Monitors : WF_vars(MonitorSteps(m))

-----------------------------------------------------------------------------
(* Properties.                                                             *)

(* The state has its type; the retry delay never exceeds the configured one.    *)
TypeOK ==
  /\ state \in {"disconnected", "connecting", "authenticating", "connected", "error", "stopping"}
  /\ socket \in {0, attempts} /\ attempts \in 0 .. MaxSockets
  /\ closed \subseteq 1 .. attempts /\ gone \subseteq 1 .. attempts
  /\ delay \in 1 .. MaxDelay
  /\ running \in BOOLEAN /\ monitor \in Monitors \cup {None} /\ watched \in 0 .. attempts
  /\ reading \in [Monitors -> 0 .. attempts]
  /\ pc \in [Threads -> Places]
  /\ goal \in [Threads -> DOMAIN AfterCleanUp]
  /\ wanted \in BOOLEAN
  /\ gaveUp \in BOOLEAN /\ trampled \in BOOLEAN

(* Between attempts the client is not left in the middle of one: connect()      *)
(* would answer "already in progress" to every later call.                      *)
NeverStuck == pc[RunLoop] \in {"off", "loop"} => state \notin {"connecting", "authenticating"}

(* The next three hold as long as every stop() waited for the run loop, and no   *)
(* _on_connection_lost wrote its "disconnected" over a newer attempt.            *)
Orderly == ~gaveUp /\ ~trampled
Quiet ==
  /\ At(Caller, "idle") /\ pc[RunLoop] \in {"off", "loop"}
  /\ \A m \in Monitors : pc[m] \notin EndingAt

Down == socket = 0 /\ ~running /\ \A m \in Monitors : ~At(m, "recv")

(* When no thread is in the middle of a change, state tells whether there is an   *)
(* open socket: is_connected, which decides between connecting and sending, is   *)
(* right; and once stop() has returned there is no socket, and nothing reads one. *)
StateTellsSocket ==
  /\ TypeOK
  /\ Quiet /\ Orderly =>
       /\ state = "connected" => socket # 0 /\ socket \notin closed
       /\ state \in {"disconnected", "error"} => socket = 0
  /\ At(Caller, "idle") /\ ~wanted /\ ~Alive(RunLoop) /\ Orderly => Down

(* A connection that stands has its heartbeat monitor, and nothing else is read:   *)
(* HeartbeatMonitor.stop waits, so the monitor of an old connection has ended      *)
(* before the next one reads.                                                  *)
Watched ==
  /\ Quiet /\ Orderly =>
       /\ state = "connected" => running /\ Alive(monitor)
       /\ \A m \in Monitors : At(m, "recv") => m = monitor /\ reading[m] = socket
  /\ ~gaveUp => \A m, n \in Monitors : At(m, "recv") /\ At(n, "recv") => m = n

(* A connection whose server went away does not stay "connected", also when       *)
(* nothing is sent, and whatever an old monitor did to the new one.               *)
LossNoticed ==
  \A s \in Sockets :
    (state = "connected" /\ socket = s /\ s \in gone)
      ~> (state # "connected" \/ socket # s \/ gaveUp)

(* stop() returns: no two threads wait for each other.                          *)
StopReturns == (~wanted /\ ~At(Caller, "idle")) ~> At(Caller, "idle")

=============================================================================
