--------------------------- MODULE RtcmClientProofs ---------------------------
(***************************************************************************)
(* For any number of attempts and of heartbeat monitor threads: connect()     *)
(* never leaves the client in the middle of an attempt, whoever closes its     *)
(* socket; and as long as stop() waits and no loss is written over a newer     *)
(* attempt, state tells whether there is an open socket, which has the one     *)
(* monitor that reads.                                                       *)
(***************************************************************************)
EXTENDS RtcmClient, TLAPS

(* Where the threads are, and what they clean up for.                         *)
ThreadsOK ==
  /\ pc \in [Threads -> Places]
  /\ goal \in [Threads -> {"replace", "failed", "lost", "disconnect"}]

(* An attempt that has set CONNECTING ends in CONNECTED or in the clean-up    *)
(* that marks the error; a clean-up for anything else is never in the middle   *)
(* of an attempt.  Only the run loop begins an attempt.                       *)
Attempting ==
  state \in {"connecting", "authenticating"} =>
    \/ pc[RunLoop] \in {"create", "dial", "authenticate", "greet", "adopt"}
    \/ pc[RunLoop] \in {"shut", "clear", "mark"} /\ goal[RunLoop] \in {"replace", "failed"}

LEMMA GoesKeepsType ==
  ASSUME pc \in [Threads -> Places], NEW t \in Threads, NEW from, NEW to \in Places,
         Goes(t, from, to)
  PROVE  pc' \in [Threads -> Places] /\ \A u \in Threads : u # t => pc'[u] = pc[u]
  BY DEF Goes

LEMMA GoalKeepsType ==
  ASSUME goal \in [Threads -> {"replace", "failed", "lost", "disconnect"}], NEW t \in Threads,
         NEW why \in {"replace", "failed", "lost", "disconnect"},
         goal' = [goal EXCEPT ![t] = why]
  PROVE  /\ goal' \in [Threads -> {"replace", "failed", "lost", "disconnect"}]
         /\ \A u \in Threads : u # t => goal'[u] = goal[u]
  OBVIOUS

LEMMA InitOK == Init => ThreadsOK /\ Attempting
  BY DEF Init, ThreadsOK, Attempting, Places, EndingAt

(* What the shared methods do in any thread.                                   *)
LEMMA SharedKeepsThreads ==
  ASSUME ThreadsOK, NEW t \in Threads, SharedSteps(t)
  PROVE  ThreadsOK' /\ \A u \in Threads : u # t => pc'[u] = pc[u] /\ goal'[u] = goal[u]
  <1> DEFINE Other == \A u \in Threads : u # t => pc'[u] = pc[u] /\ goal'[u] = goal[u]
  <1>1. \A at \in EndingAt \cup {"off", "loop", "idle", "create"} : at \in Places
    BY DEF Places
  <1>2. ASSUME NEW from, NEW to \in Places, Goes(t, from, to), UNCHANGED goal
        PROVE  ThreadsOK' /\ Other
    BY <1>2, GoesKeepsType DEF ThreadsOK
  <1>3. CASE StopMonitor(t)
    BY <1>1, <1>2, <1>3 DEF StopMonitor, EndingAt
  <1>4. CASE JoinMonitor(t)
    BY <1>1, <1>2, <1>4 DEF JoinMonitor, EndingAt
  <1>5. CASE CloseSocket(t)
    BY <1>1, <1>2, <1>5 DEF CloseSocket, EndingAt
  <1>6. CASE ClearSocket(t)
    BY <1>1, <1>2, <1>6 DEF ClearSocket, EndingAt
  <1>7. CASE MarkError(t)
    <2>1. AfterCleanUp[goal[t]] \in {"create", "loop", "lost", "down"}
      BY DEF AfterCleanUp, ThreadsOK
    <2> QED  BY <1>1, <1>2, <1>7, <2>1 DEF MarkError, EndingAt
  <1>8. CASE ConnectionLost(t)
    BY <1>1, <1>2, <1>8 DEF ConnectionLost, EndingAt
  <1>9. CASE Disconnect(t)
    <2>1. Return(t) \in Places /\ "stopMonitor" \in Places
      BY <1>1 DEF Return, EndingAt
    <2>2. CASE state = "disconnected"
      BY <1>2, <1>9, <2>1, <2>2 DEF Disconnect
    <2>3. CASE state # "disconnected"
      BY <1>9, <2>1, <2>3, GoesKeepsType, GoalKeepsType DEF Disconnect, ThreadsOK
    <2> QED  BY <2>2, <2>3
  <1>10. CASE Disconnected(t)
    BY <1>1, <1>2, <1>10 DEF Disconnected, Return
  <1> QED
    BY <1>3, <1>4, <1>5, <1>6, <1>7, <1>8, <1>9, <1>10 DEF SharedSteps

(* None of them begins an attempt, and none but the clean-up of a failed one   *)
(* lets the run loop go on in the middle of it.                               *)
LEMMA SharedKeepsAttempting ==
  ASSUME ThreadsOK, Attempting, NEW t \in Threads, SharedSteps(t)
  PROVE  Attempting'
  <1>1. \/ state' = state
        \/ state' \in {"error", "disconnected", "stopping"}
    BY DEF SharedSteps, StopMonitor, JoinMonitor, CloseSocket, ClearSocket, MarkError,
           ConnectionLost, Disconnect, Disconnected, clientVars
  <1>2. CASE state' \in {"error", "disconnected", "stopping"}
    BY <1>2 DEF Attempting
  <1>3. CASE state' = state /\ t # RunLoop
    <2>1. RunLoop \in Threads
      BY DEF Threads
    <2> QED  BY <1>3, <2>1, SharedKeepsThreads DEF Attempting
  <1>4. CASE state' = state /\ t = RunLoop /\ state \in {"connecting", "authenticating"}
    <2>1. pc[t] \in {"shut", "clear", "mark"} /\ goal[t] \in {"replace", "failed"}
      BY <1>4 DEF Attempting, SharedSteps, StopMonitor, JoinMonitor, CloseSocket, ClearSocket,
                  MarkError, ConnectionLost, Disconnect, Disconnected, Goes, At
    <2>2. CloseSocket(t) \/ ClearSocket(t)
      BY <1>4, <2>1 DEF SharedSteps, StopMonitor, JoinMonitor, MarkError,
                  ConnectionLost, Disconnect, Disconnected, Goes, At
    <2>3. goal' = goal /\ pc'[t] \in {"clear", "mark"}
      BY <2>2 DEF CloseSocket, ClearSocket, Goes, ThreadsOK
    <2> QED  BY <1>4, <2>1, <2>3 DEF Attempting
  <1> QED  BY <1>1, <1>2, <1>3, <1>4 DEF Attempting

(* The steps of connect() in the run loop.                                     *)
LEMMA ConnectKeeps ==
  ASSUME ThreadsOK, Attempting, Connect \/ ConnectSteps
  PROVE  ThreadsOK' /\ Attempting'
  <1>0. RunLoop \in Threads
    BY DEF Threads
  <1> DEFINE Moves(to) == pc' = [pc EXCEPT ![RunLoop] = to] /\ to \in Places
  <1>1. ASSUME NEW to \in {"create", "dial", "authenticate", "greet", "adopt"},
               pc' = [pc EXCEPT ![RunLoop] = to], goal' = goal
        PROVE  ThreadsOK' /\ Attempting'
    BY <1>0, <1>1 DEF ThreadsOK, Attempting, Places
  <1>2. ASSUME NEW why \in {"replace", "failed"}, NEW from, CleanUp(RunLoop, from, why)
        PROVE  ThreadsOK' /\ Attempting'
    <2>1. pc' = [pc EXCEPT ![RunLoop] = "shut"] /\ goal' = [goal EXCEPT ![RunLoop] = why]
      BY <1>2 DEF CleanUp, Goes
    <2> QED  BY <1>0, <1>2, <2>1 DEF ThreadsOK, Attempting, Places, EndingAt
  <1>3. CASE Connect
    <2>1. CASE state \in {"connecting", "authenticating"}
      BY <1>3, <2>1 DEF Connect, ThreadsOK, Attempting, clientVars
    <2>2. CASE state \notin {"connecting", "authenticating"} /\ socket = 0
      BY <1>1, <1>3, <2>2 DEF Connect, Goes
    <2>3. CASE state \notin {"connecting", "authenticating"} /\ socket # 0
      BY <1>2, <1>3, <2>3 DEF Connect
    <2> QED  BY <2>1, <2>2, <2>3
  <1>4. CASE CreateSocket \/ Dial \/ Authenticate \/ Greeted
    BY <1>1, <1>4 DEF CreateSocket, Dial, Authenticate, Greeted, Goes
  <1>5. CASE ConnectFails
    BY <1>2, <1>5 DEF ConnectFails
  <1>6. CASE Adopt
    BY <1>0, <1>6 DEF Adopt, Goes, ThreadsOK, Attempting, Places
  <1>7. CASE WatchSocket
    BY <1>0, <1>7 DEF WatchSocket, Goes, At, ThreadsOK, Attempting, Places, clientVars
  <1>8. CASE SpawnMonitor
    <2>1. PICK m \in Monitors : pc' = [pc EXCEPT ![RunLoop] = "loop", ![m] = "check"]
      BY <1>8, Zenon DEF SpawnMonitor
    <2>2. pc[RunLoop] = "spawn" /\ UNCHANGED <<state, goal>>
      BY <1>8 DEF SpawnMonitor, At, clientVars
    <2>3. pc' \in [Threads -> Places]
      BY <2>1 DEF ThreadsOK, Places
    <2> QED  BY <2>2, <2>3 DEF ThreadsOK, Attempting
  <1> QED  BY <1>3, <1>4, <1>5, <1>6, <1>7, <1>8 DEF ConnectSteps

(* Sending and leaving, where no attempt is in progress.                       *)
LEMMA SendKeeps ==
  ASSUME ThreadsOK, Attempting, SendSteps \/ BeginSend \/ LeaveRunLoop
  PROVE  ThreadsOK' /\ Attempting'
  <1>1. RunLoop \in Threads
    BY DEF Threads
  <1>2. state' = state /\ pc[RunLoop] \in {"send", "loop"}
    BY DEF SendSteps, SendOk, SendLost, SendRefused, BeginSend, LeaveRunLoop, Goes, At, clientVars
  <1>3. \E to \in {"loop", "stopMonitor", "disconnect", "send", "off"} :
          pc' = [pc EXCEPT ![RunLoop] = to]
    BY DEF SendSteps, SendOk, SendLost, SendRefused, BeginSend, LeaveRunLoop, Goes
  <1>4. goal' = goal \/ goal' = [goal EXCEPT ![RunLoop] = "lost"]
    BY DEF SendSteps, SendOk, SendLost, SendRefused, BeginSend, LeaveRunLoop
  <1>5. ThreadsOK'
    BY <1>1, <1>3, <1>4 DEF ThreadsOK, Places, EndingAt
  <1> QED  BY <1>2, <1>5 DEF Attempting

(* The monitor loop, the caller and the server, which are not the run loop.    *)
LEMMA OthersKeep ==
  ASSUME ThreadsOK, Attempting, NEW t \in Threads \ {RunLoop},
         \/ MonitorCheck(t) \/ MonitorRead(t) \/ MonitorWakes(t) \/ MonitorAlarm(t)
         \/ t = Caller /\ (JoinRunLoop \/ StopDestination)
  PROVE  ThreadsOK' /\ Attempting'
  <1>1. \E to \in {"check", "arm", "recv", "off", "stopMonitor", "disconnect", "joinRunLoop"} :
          pc' = [pc EXCEPT ![t] = to]
    BY DEF MonitorCheck, MonitorRead, MonitorWakes, MonitorAlarm, JoinRunLoop, StopDestination, Goes
  <1>2. goal' = goal \/ goal' = [goal EXCEPT ![t] = "lost"]
    BY DEF MonitorCheck, MonitorRead, MonitorWakes, MonitorAlarm, JoinRunLoop, StopDestination
  <1>3. state' = state
    BY DEF MonitorCheck, MonitorRead, MonitorWakes, MonitorAlarm, JoinRunLoop, StopDestination, clientVars
  <1>4. ThreadsOK'
    BY <1>1, <1>2 DEF ThreadsOK, Places, EndingAt
  <1>5. RunLoop \in Threads /\ pc'[RunLoop] = pc[RunLoop] /\ goal'[RunLoop] = goal[RunLoop]
    BY <1>1, <1>2 DEF ThreadsOK, Threads
  <1> QED  BY <1>3, <1>4, <1>5 DEF Attempting

LEMMA AttemptingStep == ThreadsOK /\ Attempting /\ [Next]_vars => ThreadsOK' /\ Attempting'
  <1> SUFFICES ASSUME ThreadsOK, Attempting, [Next]_vars PROVE ThreadsOK' /\ Attempting'
    OBVIOUS
  <1>1. \A t \in Threads : SharedSteps(t) => ThreadsOK' /\ Attempting'
    BY SharedKeepsThreads, SharedKeepsAttempting
  <1>2. RunLoop \in Threads /\ Caller \in Threads \ {RunLoop} /\ Monitors \subseteq Threads \ {RunLoop}
    BY ThreadsAssumption DEF Threads
  <1>3. CASE UNCHANGED vars
    BY <1>3 DEF vars, clientVars, threadVars, ThreadsOK, Attempting
  <1>4. ASSUME NEW m \in Monitors, MonitorSteps(m) PROVE ThreadsOK' /\ Attempting'
    BY <1>1, <1>2, <1>4, OthersKeep DEF MonitorSteps
  <1>5. CASE RunLoopSteps \/ Connect \/ BeginSend
    BY <1>1, <1>2, <1>5, ConnectKeeps, SendKeeps DEF RunLoopSteps
  <1>6. CASE SharedSteps(Caller) \/ JoinRunLoop \/ StopDestination
    BY <1>1, <1>2, <1>6, OthersKeep
  <1>7. CASE StartDestination
    BY <1>2, <1>7 DEF StartDestination, Goes, At, ThreadsOK, Attempting, Places, clientVars
  <1>8. CASE ServerGone
    BY <1>8 DEF ServerGone, threadVars, clientVars, ThreadsOK, Attempting
  <1> QED  BY <1>3, <1>4, <1>5, <1>6, <1>7, <1>8 DEF Next

(* For every set of monitor threads and every number of attempts: whenever the  *)
(* run loop is between attempts, or has ended, the client is not CONNECTING or  *)
(* AUTHENTICATING, so the next connect() is not refused as "already in          *)
(* progress".                                                                 *)
THEOREM AttemptsEnd == Spec => []NeverStuck
  <1>1. Init => ThreadsOK /\ Attempting
    BY InitOK
  <1>2. ThreadsOK /\ Attempting /\ [Next]_vars => (ThreadsOK /\ Attempting)'
    BY AttemptingStep
  <1>3. Attempting => NeverStuck
    BY DEF Attempting, NeverStuck
  <1> QED  BY <1>1, <1>2, <1>3, PTL DEF Spec

-----------------------------------------------------------------------------
(* The values of the variables, and which thread can be where.               *)

Values ==
  /\ state \in {"disconnected", "connecting", "authenticating", "connected", "error", "stopping"}
  /\ attempts \in 0 .. MaxSockets /\ socket \in {0, attempts}
  /\ closed \subseteq 1 .. attempts /\ gone \subseteq 1 .. attempts
  /\ delay \in 1 .. MaxDelay
  /\ running \in BOOLEAN /\ monitor \in Monitors \cup {None} /\ watched \in 0 .. attempts
  /\ reading \in [Monitors -> 0 .. attempts]
  /\ wanted \in BOOLEAN /\ gaveUp \in BOOLEAN /\ trampled \in BOOLEAN

(* The places of _cleanup_connection and of the HeartbeatMonitor.stop before it. *)
Cleaning == {"stopMonitor", "join", "shut", "clear", "mark"}

(* A monitor thread cleans up after a loss only, the caller in disconnect()     *)
(* only, and an attempt that is about to create its socket is one of the bound.  *)
Roles ==
  /\ \A m \in Monitors :
       /\ pc[m] \in Cleaning \cup {"off", "check", "arm", "recv", "lost"}
       /\ pc[m] \in Cleaning => goal[m] = "lost"
  /\ pc[RunLoop] \notin {"idle", "joinRunLoop", "check", "arm", "recv"}
  /\ pc[RunLoop] \in {"stopMonitor", "join"} => goal[RunLoop] \in {"lost", "disconnect"}
  /\ pc[Caller] \in Cleaning \cup {"idle", "joinRunLoop", "disconnect", "down"}
  /\ pc[Caller] \in Cleaning => goal[Caller] = "disconnect"
  /\ \/ pc[RunLoop] = "create"
     \/ pc[RunLoop] \in {"shut", "clear", "mark"} /\ goal[RunLoop] = "replace"
     => attempts < MaxSockets

TypeInv == ThreadsOK /\ Values /\ Roles

(* A thread moves, the others stay where they are.                            *)
Moved(t, from, to) ==
  /\ pc[t] = from /\ pc'[t] = to
  /\ \A u \in Threads : u # t => pc'[u] = pc[u]

LEMMA Distinct ==
  /\ RunLoop \in Threads /\ Caller \in Threads /\ Monitors \subseteq Threads
  /\ RunLoop # Caller /\ RunLoop \notin Monitors /\ Caller \notin Monitors /\ None \notin Monitors
  /\ \A t \in Threads : t = RunLoop \/ t = Caller \/ t \in Monitors
  BY ThreadsAssumption DEF Threads

LEMMA GoesMoves ==
  ASSUME ThreadsOK, NEW t \in Threads, NEW from, NEW to, Goes(t, from, to)
  PROVE  Moved(t, from, to)
  BY DEF Goes, At, Moved, ThreadsOK

LEMMA GoalMoves ==
  ASSUME ThreadsOK, NEW t \in Threads, NEW why, goal' = [goal EXCEPT ![t] = why]
  PROVE  goal'[t] = why /\ \A u \in Threads : u # t => goal'[u] = goal[u]
  BY DEF ThreadsOK

LEMMA AfterGoal ==
  /\ AfterCleanUp["replace"] = "create" /\ AfterCleanUp["failed"] = "loop"
  /\ AfterCleanUp["lost"] = "lost" /\ AfterCleanUp["disconnect"] = "down"
  /\ DOMAIN AfterCleanUp = {"replace", "failed", "lost", "disconnect"}
  BY DEF AfterCleanUp

LEMMA InitTyped == Init => TypeInv
  <1> SUFFICES ASSUME Init PROVE ThreadsOK /\ Values /\ Roles
    BY DEF TypeInv
  <1>1. reading \in [Monitors -> 0 .. attempts] /\ attempts = 0
    BY DEF Init
  <1>2. Values
    <2>1. delay \in 1 .. MaxDelay /\ attempts \in 0 .. MaxSockets
      BY BoundsAssumption DEF Init
    <2>2. running \in BOOLEAN /\ wanted \in BOOLEAN /\ gaveUp \in BOOLEAN /\ trampled \in BOOLEAN
      BY DEF Init
    <2>3. /\ socket \in {0, attempts} /\ watched \in 0 .. attempts
          /\ closed \subseteq 1 .. attempts /\ gone \subseteq 1 .. attempts
      BY <1>1 DEF Init
    <2>4. state = "disconnected" /\ monitor = None
      BY DEF Init
    <2> QED  BY <1>1, <2>1, <2>2, <2>3, <2>4, Zenon DEF Values
  <1>3. pc[RunLoop] = "off" /\ pc[Caller] = "idle" /\ \A m \in Monitors : pc[m] = "off"
    BY Distinct DEF Init
  <1> QED  BY <1>2, <1>3, InitOK DEF Roles, Cleaning

-----------------------------------------------------------------------------
(* Every step keeps the values in their sets.                                *)

LEMMA SharedValues ==
  ASSUME TypeInv, NEW t \in Threads, SharedSteps(t)
  PROVE  Values'
  <1> USE DEF TypeInv, Values, monitorVars, clientVars, otherVars
  <1>1. CASE StopMonitor(t)
    <2>1. 0 \in 0 .. attempts
      BY BoundsAssumption
    <2> QED  BY <1>1, <2>1 DEF StopMonitor
  <1>2. CASE JoinMonitor(t)
    BY <1>2 DEF JoinMonitor
  <1>3. CASE CloseSocket(t)
    BY <1>3 DEF CloseSocket
  <1>4. CASE ClearSocket(t)
    BY <1>4 DEF ClearSocket
  <1>5. CASE MarkError(t)
    BY <1>5 DEF MarkError
  <1>6. CASE ConnectionLost(t)
    <2>1. Doubled \in 1 .. MaxDelay
      BY BoundsAssumption DEF Doubled
    <2> QED  BY <1>6, <2>1 DEF ConnectionLost
  <1>7. CASE Disconnect(t)
    BY <1>7 DEF Disconnect
  <1>8. CASE Disconnected(t)
    BY <1>8 DEF Disconnected
  <1> QED  BY <1>1, <1>2, <1>3, <1>4, <1>5, <1>6, <1>7, <1>8 DEF SharedSteps

LEMMA RunLoopValues ==
  ASSUME TypeInv, Connect \/ ConnectSteps \/ BeginSend \/ SendSteps \/ LeaveRunLoop
  PROVE  Values'
  <1> USE DEF TypeInv, Values, monitorVars, clientVars, otherVars
  <1>1. CASE Connect
    BY <1>1 DEF Connect
  <1>2. CASE CreateSocket
    <2>1. attempts < MaxSockets
      BY <1>2 DEF CreateSocket, Goes, At, Roles
    <2>2. attempts' = attempts + 1 /\ attempts' \in 0 .. MaxSockets
      BY <1>2, <2>1, BoundsAssumption DEF CreateSocket
    <2>3. 0 .. attempts \subseteq 0 .. attempts' /\ 1 .. attempts \subseteq 1 .. attempts'
      BY <2>2
    <2> QED  BY <1>2, <2>2, <2>3 DEF CreateSocket
  <1>3. CASE Dial \/ Greeted \/ ConnectFails
    BY <1>3 DEF Dial, Greeted, ConnectFails
  <1>4. CASE Authenticate
    BY <1>4 DEF Authenticate
  <1>5. CASE Adopt
    BY <1>5, BoundsAssumption DEF Adopt
  <1>6. CASE WatchSocket
    BY <1>6 DEF WatchSocket
  <1>7. CASE SpawnMonitor
    BY <1>7 DEF SpawnMonitor
  <1>8. CASE BeginSend \/ SendSteps \/ LeaveRunLoop
    BY <1>8 DEF BeginSend, SendSteps, SendOk, SendLost, SendRefused, LeaveRunLoop
  <1> QED  BY <1>1, <1>2, <1>3, <1>4, <1>5, <1>6, <1>7, <1>8 DEF ConnectSteps

LEMMA OtherValues ==
  ASSUME TypeInv,
         \/ \E m \in Monitors : MonitorCheck(m) \/ MonitorRead(m) \/ MonitorWakes(m) \/ MonitorAlarm(m)
         \/ JoinRunLoop \/ StartDestination \/ StopDestination \/ ServerGone
  PROVE  Values'
  <1> USE DEF TypeInv, Values, monitorVars, clientVars, otherVars
  <1>1. ASSUME NEW m \in Monitors, MonitorCheck(m)  PROVE Values'
    BY <1>1 DEF MonitorCheck
  <1>2. ASSUME NEW m \in Monitors, MonitorRead(m)  PROVE Values'
    BY <1>2 DEF MonitorRead
  <1>3. ASSUME NEW m \in Monitors, MonitorWakes(m) \/ MonitorAlarm(m)  PROVE Values'
    <2>1. 0 \in 0 .. attempts
      BY BoundsAssumption
    <2> QED  BY <1>3, <2>1 DEF MonitorWakes, MonitorAlarm
  <1>4. CASE JoinRunLoop
    BY <1>4 DEF JoinRunLoop
  <1>5. CASE StartDestination \/ StopDestination
    BY <1>5 DEF StartDestination, StopDestination
  <1>6. CASE ServerGone
    <2>1. {socket} \subseteq 1 .. attempts
      BY <1>6, BoundsAssumption DEF ServerGone
    <2> QED  BY <1>6, <2>1 DEF ServerGone, threadVars
  <1> QED  BY <1>1, <1>2, <1>3, <1>4, <1>5, <1>6

-----------------------------------------------------------------------------
(* Every step keeps the threads in their roles.                              *)

LEMMA SharedRoles ==
  ASSUME TypeInv, NEW t \in Threads, SharedSteps(t)
  PROVE  Roles'
  <1> USE Distinct DEF TypeInv, clientVars
  <1>1. CASE StopMonitor(t)
    <2>1. \E to \in {"shut", "join"} : Moved(t, "stopMonitor", to)
      BY <1>1, GoesMoves DEF StopMonitor
    <2> QED  BY <1>1, <2>1 DEF StopMonitor, Roles, Moved, Cleaning
  <1>2. CASE JoinMonitor(t)
    <2>1. Moved(t, "join", "shut")
      BY <1>2, GoesMoves DEF JoinMonitor
    <2> QED  BY <1>2, <2>1 DEF JoinMonitor, Roles, Moved, Cleaning
  <1>3. CASE CloseSocket(t)
    <2>1. \E to \in {"mark", "clear"} : Moved(t, "shut", to)
      BY <1>3, GoesMoves DEF CloseSocket
    <2> QED  BY <1>3, <2>1 DEF CloseSocket, Roles, Moved, Cleaning
  <1>4. CASE ClearSocket(t)
    <2>1. Moved(t, "clear", "mark")
      BY <1>4, GoesMoves DEF ClearSocket
    <2> QED  BY <1>4, <2>1 DEF ClearSocket, Roles, Moved, Cleaning
  <1>5. CASE MarkError(t)
    <2>1. Moved(t, "mark", AfterCleanUp[goal[t]])
      BY <1>5, GoesMoves DEF MarkError
    <2>2. goal[t] \in {"replace", "failed", "lost", "disconnect"}
      BY DEF ThreadsOK
    <2> QED  BY <1>5, <2>1, <2>2, AfterGoal DEF MarkError, Roles, Moved, Cleaning
  <1>6. CASE ConnectionLost(t)
    <2>1. Moved(t, "lost", IF t = RunLoop THEN "disconnect" ELSE "off")
      BY <1>6, GoesMoves DEF ConnectionLost
    <2> QED  BY <1>6, <2>1 DEF ConnectionLost, Roles, Moved, Cleaning
  <1>7. CASE Disconnect(t) /\ state = "disconnected"
    <2>1. Moved(t, "disconnect", Return(t)) /\ goal' = goal
      BY <1>7, GoesMoves DEF Disconnect
    <2> QED  BY <1>7, <2>1 DEF Disconnect, Return, Roles, Moved, Cleaning
  <1>8. CASE Disconnect(t) /\ state # "disconnected"
    <2>1. Moved(t, "disconnect", "stopMonitor") /\ goal' = [goal EXCEPT ![t] = "disconnect"]
      BY <1>8, GoesMoves DEF Disconnect
    <2>2. goal'[t] = "disconnect" /\ \A u \in Threads : u # t => goal'[u] = goal[u]
      BY <2>1, GoalMoves
    <2> QED  BY <1>8, <2>1, <2>2 DEF Disconnect, Roles, Moved, Cleaning
  <1>9. CASE Disconnected(t)
    <2>1. Moved(t, "down", Return(t))
      BY <1>9, GoesMoves DEF Disconnected
    <2> QED  BY <1>9, <2>1 DEF Disconnected, Return, Roles, Moved, Cleaning
  <1> QED  BY <1>1, <1>2, <1>3, <1>4, <1>5, <1>6, <1>7, <1>8, <1>9 DEF SharedSteps

LEMMA RunLoopRoles ==
  ASSUME TypeInv, Connect \/ ConnectSteps \/ BeginSend \/ SendSteps \/ LeaveRunLoop
  PROVE  Roles'
  <1> USE Distinct DEF TypeInv, clientVars
  <1>1. ASSUME NEW from, NEW why \in {"replace", "failed"}, CleanUp(RunLoop, from, why),
               attempts' = attempts, why = "replace" => attempts < MaxSockets
        PROVE  Roles'
    <2>1. Moved(RunLoop, from, "shut")
      BY <1>1, GoesMoves DEF CleanUp
    <2>2. goal'[RunLoop] = why /\ \A u \in Threads : u # RunLoop => goal'[u] = goal[u]
      BY <1>1, GoalMoves DEF CleanUp
    <2> QED  BY <1>1, <2>1, <2>2 DEF Roles, Moved
  <1>2. ASSUME NEW from, NEW to, Goes(RunLoop, from, to), goal' = goal, attempts' = attempts,
               to \in {"dial", "authenticate", "greet", "adopt", "watch", "spawn", "loop",
                       "send", "disconnect", "off"}
        PROVE  Roles'
    <2>1. Moved(RunLoop, from, to)
      BY <1>2, GoesMoves
    <2> QED  BY <1>2, <2>1 DEF Roles, Moved
  <1>3. CASE Connect
    <2>1. CASE state \in {"connecting", "authenticating"}
      BY <1>3, <2>1 DEF Connect, Roles
    <2>2. CASE state \notin {"connecting", "authenticating"} /\ socket = 0
      <3>1. Moved(RunLoop, "loop", "create") /\ goal' = goal
        BY <1>3, <2>2, GoesMoves DEF Connect
      <3> QED  BY <1>3, <3>1 DEF Connect, Roles, Moved
    <2>3. CASE state \notin {"connecting", "authenticating"} /\ socket # 0
      BY <1>1, <1>3, <2>3 DEF Connect
    <2> QED  BY <2>1, <2>2, <2>3
  <1>4. CASE CreateSocket
    <2>1. Moved(RunLoop, "create", "dial") /\ goal' = goal
      BY <1>4, GoesMoves DEF CreateSocket
    <2> QED  BY <2>1 DEF Roles, Moved
  <1>5. CASE Dial \/ Authenticate \/ Greeted \/ Adopt \/ WatchSocket
    BY <1>2, <1>5 DEF Dial, Authenticate, Greeted, Adopt, WatchSocket
  <1>6. CASE ConnectFails
    BY <1>1, <1>6 DEF ConnectFails
  <1>7. CASE SpawnMonitor
    <2>1. PICK m \in Monitors : /\ pc' = [pc EXCEPT ![RunLoop] = "loop", ![m] = "check"]
                                /\ pc[RunLoop] = "spawn" /\ goal' = goal /\ attempts' = attempts
      BY <1>7 DEF SpawnMonitor, At
    <2>2. pc'[RunLoop] = "loop" /\ pc'[m] = "check"
      BY <2>1 DEF ThreadsOK
    <2>3. \A u \in Threads : u \notin {m, RunLoop} => pc'[u] = pc[u]
      BY <2>1 DEF ThreadsOK
    <2> QED  BY <2>1, <2>2, <2>3 DEF Roles, Cleaning
  <1>8. CASE BeginSend \/ SendOk \/ SendRefused \/ LeaveRunLoop
    BY <1>2, <1>8 DEF BeginSend, SendOk, SendRefused, LeaveRunLoop
  <1>9. CASE SendLost
    <2>1. Moved(RunLoop, "send", "stopMonitor") /\ goal' = [goal EXCEPT ![RunLoop] = "lost"]
      BY <1>9, GoesMoves DEF SendLost
    <2>2. goal'[RunLoop] = "lost" /\ \A u \in Threads : u # RunLoop => goal'[u] = goal[u]
      BY <2>1, GoalMoves
    <2> QED  BY <1>9, <2>1, <2>2 DEF SendLost, Roles, Moved
  <1> QED
    BY <1>3, <1>4, <1>5, <1>6, <1>7, <1>8, <1>9 DEF ConnectSteps, SendSteps

LEMMA MonitorRoles ==
  ASSUME TypeInv, NEW m \in Monitors,
         MonitorCheck(m) \/ MonitorRead(m) \/ MonitorWakes(m) \/ MonitorAlarm(m)
  PROVE  Roles'
  <1> USE Distinct DEF TypeInv, clientVars
  <1>1. CASE MonitorCheck(m) \/ MonitorRead(m) \/ MonitorWakes(m)
    <2>1. \E from, to \in {"off", "check", "arm", "recv"} : Moved(m, from, to)
      BY <1>1, GoesMoves DEF MonitorCheck, MonitorRead, MonitorWakes
    <2>2. goal' = goal /\ attempts' = attempts
      BY <1>1 DEF MonitorCheck, MonitorRead, MonitorWakes
    <2> QED  BY <2>1, <2>2 DEF Roles, Moved, Cleaning
  <1>2. CASE MonitorAlarm(m)
    <2>1. \E from \in {"arm", "recv"} : Moved(m, from, "stopMonitor")
      BY <1>2, GoesMoves DEF MonitorAlarm
    <2>2. goal'[m] = "lost" /\ \A u \in Threads : u # m => goal'[u] = goal[u]
      BY <1>2, GoalMoves DEF MonitorAlarm
    <2> QED  BY <1>2, <2>1, <2>2 DEF MonitorAlarm, Roles, Moved, Cleaning
  <1> QED  BY <1>1, <1>2

LEMMA CallerRoles ==
  ASSUME TypeInv, JoinRunLoop \/ StartDestination \/ StopDestination \/ ServerGone
  PROVE  Roles'
  <1> USE Distinct DEF TypeInv, clientVars
  <1>1. CASE JoinRunLoop \/ StopDestination
    <2>1. \E from, to \in {"idle", "joinRunLoop", "disconnect"} : Moved(Caller, from, to)
      BY <1>1, GoesMoves DEF JoinRunLoop, StopDestination
    <2>2. goal' = goal /\ attempts' = attempts
      BY <1>1 DEF JoinRunLoop, StopDestination
    <2> QED  BY <2>1, <2>2 DEF Roles, Moved, Cleaning
  <1>2. CASE StartDestination
    <2>1. Moved(RunLoop, "off", "loop")
      BY <1>2, GoesMoves DEF StartDestination
    <2> QED  BY <1>2, <2>1 DEF StartDestination, Roles, Moved
  <1>3. CASE ServerGone
    BY <1>3 DEF ServerGone, threadVars, Roles
  <1> QED  BY <1>1, <1>2, <1>3

LEMMA TypeStep == TypeInv /\ Attempting /\ [Next]_vars => TypeInv' /\ Attempting'
  <1> SUFFICES ASSUME TypeInv, Attempting, [Next]_vars PROVE TypeInv' /\ Attempting'
    OBVIOUS
  <1>1. ThreadsOK' /\ Attempting'
    BY AttemptingStep DEF TypeInv
  <1>2. CASE UNCHANGED vars
    BY <1>2 DEF vars, clientVars, monitorVars, threadVars, otherVars,
                TypeInv, Values, Roles, ThreadsOK, Attempting
  <1>3. CASE Next
    <2>1. \A t \in Threads : SharedSteps(t) => Values' /\ Roles'
      BY SharedValues, SharedRoles
    <2>2. \A m \in Monitors : MonitorSteps(m) => Values' /\ Roles'
      BY <2>1, Distinct, OtherValues, MonitorRoles DEF MonitorSteps
    <2>3. RunLoopSteps \/ Connect \/ BeginSend => Values' /\ Roles'
      BY <2>1, Distinct, RunLoopValues, RunLoopRoles DEF RunLoopSteps
    <2>4. \/ SharedSteps(Caller) \/ JoinRunLoop \/ StartDestination \/ StopDestination \/ ServerGone
          => Values' /\ Roles'
      BY <2>1, Distinct, OtherValues, CallerRoles
    <2> QED  BY <1>1, <1>3, <2>2, <2>3, <2>4 DEF Next, TypeInv
  <1> QED  BY <1>1, <1>2, <1>3

-----------------------------------------------------------------------------
(* As long as every stop() waited for the run loop, the caller and the run      *)
(* loop take turns, and one monitor thread at a time reads.                    *)

Turns ==
  ~gaveUp =>
    /\ pc[Caller] = "idle" /\ ~wanted => pc[RunLoop] = "off"
    /\ pc[Caller] # "idle" => ~wanted
    /\ pc[Caller] \notin {"idle", "joinRunLoop"} => pc[RunLoop] = "off"

(* Where a monitor thread has not yet stopped the monitor itself.               *)
Watching == {"check", "arm", "recv", "stopMonitor"}
Joining  == pc[RunLoop] = "join" \/ pc[Caller] = "join"

(* A thread that watches is the latest one, and once it was told to end, the    *)
(* run loop or the caller waits for it.                                       *)
OneAtATime ==
  ~gaveUp =>
    /\ \A m \in Monitors :
         pc[m] # "join" /\ (pc[m] \in Watching => m = monitor /\ (running \/ Joining))
    /\ Joining \/ pc[RunLoop] = "spawn" => ~running

(* What the shared methods do to the places of the threads.                    *)
LEMMA SharedMoves ==
  ASSUME TypeInv, NEW t \in Threads, SharedSteps(t)
  PROVE  /\ \E from \in EndingAt, to \in Places :
              /\ Moved(t, from, to) /\ (t = RunLoop => to # "off") /\ to # "spawn"
              /\ \/ StopMonitor(t) \/ JoinMonitor(t)
                 \/ /\ from \notin {"stopMonitor", "join"} /\ UNCHANGED <<running, monitor>>
                    /\ t \in Monitors => to \in {"clear", "mark", "lost", "off"}
                    /\ to \notin {"check", "arm", "recv", "join"}
         /\ wanted' = wanted /\ gaveUp' = gaveUp
  <1> USE Distinct DEF TypeInv, Places, EndingAt, otherVars, monitorVars
  <1>1. CASE StopMonitor(t)
    BY <1>1, GoesMoves DEF StopMonitor
  <1>2. CASE JoinMonitor(t)
    BY <1>2, GoesMoves DEF JoinMonitor
  <1>3. CASE CloseSocket(t)
    BY <1>3, GoesMoves DEF CloseSocket
  <1>4. CASE ClearSocket(t)
    BY <1>4, GoesMoves DEF ClearSocket
  <1>5. CASE MarkError(t)
    <2>1. Moved(t, "mark", AfterCleanUp[goal[t]])
      BY <1>5, GoesMoves DEF MarkError
    <2>2. AfterCleanUp[goal[t]] \in {"create", "loop", "lost", "down"}
      BY AfterGoal DEF ThreadsOK
    <2>3. t \in Monitors => AfterCleanUp[goal[t]] = "lost"
      BY <2>1, AfterGoal DEF Roles, Moved, Cleaning
    <2> QED  BY <1>5, <2>1, <2>2, <2>3 DEF MarkError
  <1>6. CASE ConnectionLost(t)
    <2>1. Moved(t, "lost", IF t = RunLoop THEN "disconnect" ELSE "off")
      BY <1>6, GoesMoves DEF ConnectionLost
    <2> QED  BY <1>6, <2>1 DEF ConnectionLost
  <1>7. CASE Disconnect(t)
    <2>1. \E to \in {Return(t), "stopMonitor"} : Moved(t, "disconnect", to)
      BY <1>7, GoesMoves DEF Disconnect
    <2>2. t \notin Monitors
      BY <2>1 DEF Roles, Moved, Cleaning
    <2> QED  BY <1>7, <2>1, <2>2 DEF Disconnect, Return
  <1>8. CASE Disconnected(t)
    <2>1. Moved(t, "down", Return(t))
      BY <1>8, GoesMoves DEF Disconnected
    <2>2. t \notin Monitors
      BY <2>1 DEF Roles, Moved, Cleaning
    <2> QED  BY <1>8, <2>1, <2>2 DEF Disconnected, Return
  <1> QED  BY <1>1, <1>2, <1>3, <1>4, <1>5, <1>6, <1>7, <1>8 DEF SharedSteps

LEMMA SharedKeepsOne ==
  ASSUME TypeInv, Turns, OneAtATime, NEW t \in Threads, SharedSteps(t)
  PROVE  Turns' /\ OneAtATime'
  <1> USE Distinct
  <1>1. PICK from \in EndingAt, to \in Places :
          /\ Moved(t, from, to) /\ (t = RunLoop => to # "off") /\ to # "spawn"
          /\ \/ StopMonitor(t) \/ JoinMonitor(t)
             \/ /\ from \notin {"stopMonitor", "join"} /\ UNCHANGED <<running, monitor>>
                /\ t \in Monitors => to \in {"clear", "mark", "lost", "off"}
                /\ to \notin {"check", "arm", "recv", "join"}
    BY SharedMoves
  <1>2. wanted' = wanted /\ gaveUp' = gaveUp
    BY SharedMoves
  <1>3. Turns'
    <2>1. t = RunLoop => pc[RunLoop] # "off" /\ pc'[RunLoop] # "off"
      BY <1>1 DEF EndingAt, Moved
    <2>2. t = Caller => pc[Caller] \notin {"idle", "joinRunLoop"}
      BY <1>1 DEF EndingAt, Moved
    <2> QED  BY <1>1, <1>2, <2>1, <2>2 DEF Turns, Moved
  <1>4. CASE StopMonitor(t)
    <2>1. Moved(t, "stopMonitor", IF monitor \in {None, t} \/ ~Alive(monitor) THEN "shut" ELSE "join")
      BY <1>4, GoesMoves DEF StopMonitor, TypeInv
    <2>2. running' = FALSE /\ monitor' = monitor
      BY <1>4 DEF StopMonitor
    <2>3. monitor \in Monitors \cup {None}
      BY DEF TypeInv, Values
    <2>4. ASSUME ~gaveUp, \A m \in Monitors : pc'[m] # "join"
                                             /\ (pc'[m] \in Watching => m = monitor /\ Joining')
          PROVE  OneAtATime'
      BY <1>2, <2>2, <2>4 DEF OneAtATime
    <2>5. CASE t \in Monitors /\ ~gaveUp
      <3>1. t = monitor /\ pc'[t] = "shut"
            /\ \A m \in Monitors : m # t => pc[m] \notin Watching \cup {"join"}
        BY <2>1, <2>5 DEF OneAtATime, Watching, Moved
      <3>2. \A m \in Monitors : pc'[m] \notin Watching \cup {"join"}
        BY <2>1, <3>1 DEF Watching, Moved
      <3> QED  BY <1>3, <2>5, <2>4, <3>2
    <2>6. CASE t \notin Monitors /\ ~gaveUp
      <3>1. \A m \in Monitors : pc'[m] \in Watching => m = monitor /\ pc'[t] = "join"
        BY <2>1, <2>3, <2>6 DEF OneAtATime, Watching, Moved, Alive
      <3>2. \A m \in Monitors : pc'[m] # "join"
        BY <2>1, <2>6 DEF OneAtATime, Moved
      <3>3. pc'[t] = "join" => Joining'
        BY <2>6 DEF Joining
      <3> QED  BY <1>3, <2>6, <2>4, <3>1, <3>2, <3>3
    <2> QED  BY <1>3, <1>2, <2>5, <2>6 DEF OneAtATime
  <1>5. CASE JoinMonitor(t)
    <2>1. Moved(t, "join", "shut") /\ (~Alive(monitor) \/ running)
      BY <1>5, GoesMoves DEF JoinMonitor, TypeInv
    <2>2. running' = running /\ monitor' = monitor
      BY <1>5 DEF JoinMonitor, monitorVars
    <2>3. CASE ~gaveUp
      <3>1. t \notin Monitors /\ ~running
        BY <2>1, <2>3 DEF OneAtATime, Joining, Moved
      <3>2. \A m \in Monitors : pc[m] \notin Watching \cup {"join"}
        BY <2>1, <2>3, <3>1 DEF OneAtATime, Watching, Alive
      <3>3. \A m \in Monitors : pc'[m] \notin Watching \cup {"join"}
        BY <2>1, <3>1, <3>2 DEF Moved
      <3> QED  BY <1>3, <2>2, <3>1, <3>3 DEF OneAtATime
    <2> QED  BY <1>3, <1>2, <2>3 DEF OneAtATime
  <1>6. CASE /\ from \notin {"stopMonitor", "join"} /\ UNCHANGED <<running, monitor>>
             /\ t \in Monitors => to \in {"clear", "mark", "lost", "off"}
             /\ to \notin {"check", "arm", "recv", "join"}
    <2>1. t \in Monitors => pc'[t] \notin Watching \cup {"join"}
      BY <1>1, <1>6 DEF Watching, Moved
    <2>2. \A m \in Monitors : pc'[m] \in Watching \cup {"join"} => pc'[m] = pc[m]
      BY <1>1, <2>1 DEF Moved
    <2>3. Joining' = Joining /\ (pc'[RunLoop] = "spawn" => pc[RunLoop] = "spawn")
      BY <1>1, <1>6 DEF Joining, Moved
    <2> QED  BY <1>3, <1>2, <1>6, <2>2, <2>3 DEF OneAtATime
  <1> QED  BY <1>1, <1>3, <1>4, <1>5, <1>6

LEMMA RunLoopKeepsOne ==
  ASSUME TypeInv, Turns, OneAtATime, Connect \/ ConnectSteps \/ BeginSend \/ SendSteps \/ LeaveRunLoop
  PROVE  Turns' /\ OneAtATime'
  <1> USE Distinct DEF TypeInv
  <1>1. wanted' = wanted /\ gaveUp' = gaveUp
    BY DEF Connect, ConnectSteps, CreateSocket, Dial, Authenticate, Greeted, ConnectFails, Adopt,
           WatchSocket, SpawnMonitor, BeginSend, SendSteps, SendOk, SendLost, SendRefused,
           LeaveRunLoop, otherVars
  <1>2. ASSUME NEW from \in Places \ {"join", "off"}, NEW to \in Places \ {"join", "off"},
               Moved(RunLoop, from, to), UNCHANGED <<running, monitor>>,
               to = "spawn" => ~running
        PROVE  Turns' /\ OneAtATime'
    BY <1>1, <1>2 DEF Turns, OneAtATime, Joining, Moved
  <1>3. CASE Connect
    <2>1. CASE UNCHANGED <<state, pc, goal>>
      BY <1>1, <1>3, <2>1 DEF Connect, monitorVars, Turns, OneAtATime, Joining
    <2>2. CASE ~UNCHANGED <<state, pc, goal>>
      <3>1. \E to \in {"create", "shut"} : Goes(RunLoop, "loop", to)
        BY <1>3, <2>2 DEF Connect, CleanUp
      <3>2. UNCHANGED <<running, monitor>>
        BY <1>3 DEF Connect, monitorVars
      <3> QED  BY <1>2, <3>1, <3>2, GoesMoves DEF Places, EndingAt
    <2> QED  BY <2>1, <2>2
  <1>4. CASE CreateSocket \/ Dial \/ Authenticate \/ Greeted \/ ConnectFails \/ Adopt
    <2>1. \E from \in {"create", "dial", "authenticate", "greet", "adopt"},
             to \in {"dial", "authenticate", "greet", "adopt", "watch", "shut"} :
            Goes(RunLoop, from, to)
      BY <1>4 DEF CreateSocket, Dial, Authenticate, Greeted, ConnectFails, Adopt, CleanUp
    <2>2. UNCHANGED <<running, monitor>>
      BY <1>4 DEF CreateSocket, Dial, Authenticate, Greeted, ConnectFails, Adopt, monitorVars
    <2> QED  BY <1>2, <2>1, <2>2, GoesMoves DEF Places, EndingAt
  <1>5. CASE WatchSocket
    <2>1. Moved(RunLoop, "watch", IF running THEN "loop" ELSE "spawn") /\ UNCHANGED <<running, monitor>>
      BY <1>5, GoesMoves DEF WatchSocket
    <2> QED  BY <1>2, <2>1 DEF Places
  <1>6. CASE SpawnMonitor
    <2>1. PICK m \in Monitors :
            /\ pc' = [pc EXCEPT ![RunLoop] = "loop", ![m] = "check"]
            /\ pc[RunLoop] = "spawn" /\ monitor' = m /\ running' = TRUE
      BY <1>6 DEF SpawnMonitor, At
    <2>2. /\ pc'[RunLoop] = "loop" /\ pc'[m] = "check"
          /\ \A u \in Threads : u \notin {m, RunLoop} => pc'[u] = pc[u]
      BY <2>1 DEF ThreadsOK
    <2>3. ~gaveUp => /\ \A n \in Monitors : pc[n] \notin Watching
                     /\ pc[Caller] # "join"
      BY <2>1 DEF OneAtATime, Turns, Joining
    <2>4. Turns'
      BY <1>1, <2>1, <2>2 DEF Turns
    <2> QED  BY <1>1, <2>1, <2>2, <2>3, <2>4 DEF OneAtATime, Joining
  <1>7. CASE BeginSend \/ SendSteps
    <2>1. \E from \in {"loop", "send"}, to \in {"loop", "send", "stopMonitor", "disconnect"} :
            Goes(RunLoop, from, to)
      BY <1>7 DEF BeginSend, SendSteps, SendOk, SendLost, SendRefused
    <2>2. UNCHANGED <<running, monitor>>
      BY <1>7 DEF BeginSend, SendSteps, SendOk, SendLost, SendRefused, monitorVars
    <2> QED  BY <1>2, <2>1, <2>2, GoesMoves DEF Places, EndingAt
  <1>8. CASE LeaveRunLoop
    <2>1. Moved(RunLoop, "loop", "off") /\ ~wanted /\ UNCHANGED <<running, monitor>>
      BY <1>8, GoesMoves DEF LeaveRunLoop, monitorVars
    <2> QED  BY <1>1, <2>1 DEF Turns, OneAtATime, Joining, Moved
  <1> QED  BY <1>3, <1>4, <1>5, <1>6, <1>7, <1>8 DEF ConnectSteps

LEMMA OthersKeepOne ==
  ASSUME TypeInv, Turns, OneAtATime,
         \/ \E m \in Monitors : MonitorCheck(m) \/ MonitorRead(m) \/ MonitorWakes(m) \/ MonitorAlarm(m)
         \/ JoinRunLoop \/ StartDestination \/ StopDestination \/ ServerGone
  PROVE  Turns' /\ OneAtATime'
  <1> USE Distinct DEF TypeInv, monitorVars, otherVars
  <1>1. ASSUME NEW m \in Monitors,
               MonitorCheck(m) \/ MonitorRead(m) \/ MonitorWakes(m) \/ MonitorAlarm(m)
        PROVE  Turns' /\ OneAtATime'
    <2>1. \E from \in Watching, to \in Watching \cup {"off"} : Moved(m, from, to)
      BY <1>1, GoesMoves DEF MonitorCheck, MonitorRead, MonitorWakes, MonitorAlarm, Watching
    <2>2. UNCHANGED <<running, monitor, wanted, gaveUp>>
      BY <1>1 DEF MonitorCheck, MonitorRead, MonitorWakes, MonitorAlarm
    <2> QED  BY <2>1, <2>2 DEF Turns, OneAtATime, Joining, Moved, Watching
  <1>2. CASE JoinRunLoop
    <2>1. Moved(Caller, "joinRunLoop", "disconnect") /\ UNCHANGED <<running, monitor, wanted>>
      BY <1>2, GoesMoves DEF JoinRunLoop
    <2>2. gaveUp' \/ (gaveUp' = gaveUp /\ pc[RunLoop] = "off")
      BY <1>2 DEF JoinRunLoop, Alive
    <2> QED  BY <2>1, <2>2 DEF Turns, OneAtATime, Joining, Moved
  <1>3. CASE StartDestination
    <2>1. Moved(RunLoop, "off", "loop") /\ UNCHANGED <<running, monitor, gaveUp>>
      BY <1>3, GoesMoves DEF StartDestination
    <2> QED  BY <1>3, <2>1 DEF StartDestination, At, Turns, OneAtATime, Joining, Moved
  <1>4. CASE StopDestination
    <2>1. Moved(Caller, "idle", "joinRunLoop") /\ UNCHANGED <<running, monitor, gaveUp>>
      BY <1>4, GoesMoves DEF StopDestination
    <2> QED  BY <1>4, <2>1 DEF StopDestination, Turns, OneAtATime, Joining, Moved
  <1>5. CASE ServerGone
    BY <1>5 DEF ServerGone, threadVars, Turns, OneAtATime, Joining
  <1> QED  BY <1>1, <1>2, <1>3, <1>4, <1>5

-----------------------------------------------------------------------------
(* What stands while every stop() waited and no loss was written over a newer    *)
(* attempt: whose connection it is, and what state says about it.              *)

Busy == Watching \cup {"shut", "clear", "mark"}
Open == socket # 0 /\ socket \notin closed

(* A monitor thread that is busy with a connection is the latest one, its        *)
(* connection is the present one, and no newer attempt has begun.               *)
Present ==
  \A m \in Monitors :
    /\ pc[m] \in Busy =>
         /\ m = monitor
         /\ pc[RunLoop] \in {"loop", "send", "disconnect", "stopMonitor", "join", "off"}
         /\ pc[Caller] \in {"idle", "joinRunLoop", "disconnect", "stopMonitor", "join"}
    /\ pc[m] = "recv" => reading[m] = socket
    /\ pc[m] = "mark" => socket = 0

(* A running monitor watches the open connection.                              *)
WatchesOpen ==
  /\ running =>
       /\ watched = socket /\ Open
       /\ monitor \in Monitors /\ pc[monitor] \in Watching
       /\ pc[RunLoop] \in {"loop", "send", "disconnect", "stopMonitor", "off"}
       /\ pc[Caller] \in {"idle", "joinRunLoop", "disconnect", "stopMonitor"}
       /\ state = "connected" \/ pc[RunLoop] = "stopMonitor" \/ pc[Caller] = "stopMonitor"
  /\ watched # 0 => running \/ pc[RunLoop] = "spawn"

(* Who answers for a connection that state claims.                             *)
ConnectedBy ==
  state = "connected" =>
    /\ \/ pc[RunLoop] \in {"watch", "spawn", "join", "shut", "clear", "mark"}
       \/ running
       \/ \E m \in Monitors : pc[m] \in {"stopMonitor", "shut", "clear", "mark"}
    /\ pc[Caller] \in {"idle", "joinRunLoop", "disconnect"}
    /\ ~(pc[RunLoop] = "off" /\ pc[Caller] = "idle")

(* Where there is no socket any more: past clearing it, and between attempts in  *)
(* every state but CONNECTED.                                                 *)
NoSocket ==
  /\ pc[RunLoop] \in {"create", "mark", "lost", "down"} \/ pc[Caller] \in {"mark", "down"} => socket = 0
  /\ /\ pc[RunLoop] \in {"loop", "send", "disconnect", "off"}
     /\ pc[Caller] \in {"idle", "joinRunLoop", "disconnect"}
     /\ state # "connected"
     => socket = 0 /\ ~running /\ \A m \in Monitors : pc[m] \notin Busy

(* Nobody but the run loop closes the socket of an attempt in progress.         *)
HasSocket ==
  /\ pc[RunLoop] \in {"dial", "authenticate", "greet", "adopt", "watch", "spawn"} => Open
  /\ pc[RunLoop] \in {"watch", "spawn"} => state = "connected"
  /\ pc[RunLoop] = "spawn" => watched = socket

Standing == Present /\ WatchesOpen /\ ConnectedBy /\ NoSocket /\ HasSocket
Good == TypeInv /\ Turns /\ OneAtATime /\ Orderly /\ Standing

LEMMA MonitorKeepsStanding ==
  ASSUME Good, NEW m \in Monitors, MonitorSteps(m), Orderly'
  PROVE  Standing'
  <1> USE Distinct DEF Good, Standing, clientVars, monitorVars, otherVars,
          Moved, Present, WatchesOpen, ConnectedBy, NoSocket, HasSocket, Busy, Watching, Open
  <1>0. m \in Threads /\ TypeInv /\ ThreadsOK
    BY DEF TypeInv
  <1>1. CASE StopMonitor(m)
    <2>1. m = monitor /\ Moved(m, "stopMonitor", "shut")
      BY <1>0, <1>1, GoesMoves DEF StopMonitor, Goes, At
    <2> QED  BY <1>1, <2>1 DEF StopMonitor
  <1>2. ~JoinMonitor(m) /\ ~Disconnect(m) /\ ~Disconnected(m)
    BY <1>0 DEF JoinMonitor, Disconnect, Disconnected, Goes, At, OneAtATime, Orderly, TypeInv, Roles, Cleaning
  <1>3. CASE CloseSocket(m)
    <2>1. m = monitor /\ Moved(m, "shut", IF socket = 0 THEN "mark" ELSE "clear")
      BY <1>0, <1>3, GoesMoves DEF CloseSocket
    <2> QED  BY <1>3, <2>1 DEF CloseSocket
  <1>4. CASE ClearSocket(m)
    <2>1. m = monitor /\ Moved(m, "clear", "mark")
      BY <1>0, <1>4, GoesMoves DEF ClearSocket
    <2> QED  BY <1>4, <2>1 DEF ClearSocket
  <1>5. CASE MarkError(m)
    <2>1. m = monitor /\ Moved(m, "mark", "lost")
      BY <1>0, <1>5, GoesMoves, AfterGoal DEF MarkError, TypeInv, Roles, Cleaning
    <2> QED  BY <1>5, <2>1 DEF MarkError
  <1>6. CASE ConnectionLost(m)
    <2>1. Moved(m, "lost", "off")
      BY <1>0, <1>6, GoesMoves DEF ConnectionLost
    <2>2. state \notin {"connecting", "authenticating", "connected"}
      BY <1>6 DEF ConnectionLost, Orderly
    <2> QED  BY <1>6, <2>1, <2>2 DEF ConnectionLost
  <1>7. CASE MonitorCheck(m)
    <2>1. m = monitor /\ Moved(m, "check", IF running /\ watched # 0 THEN "arm" ELSE "off")
      BY <1>0, <1>7, GoesMoves DEF MonitorCheck
    <2> QED  BY <1>7, <2>1 DEF MonitorCheck
  <1>8. CASE MonitorRead(m)
    <2>1. m = monitor /\ Moved(m, "arm", "recv")
      BY <1>0, <1>8, GoesMoves DEF MonitorRead
    <2>2. reading'[m] = watched /\ \A n \in Monitors : n # m => reading'[n] = reading[n]
      BY <1>8 DEF MonitorRead, TypeInv, Values
    <2> QED  BY <1>8, <2>1, <2>2 DEF MonitorRead
  <1>9. CASE MonitorWakes(m)
    <2>1. m = monitor /\ Moved(m, "recv", "check")
      BY <1>0, <1>9, GoesMoves DEF MonitorWakes
    <2>2. \A n \in Monitors : n # m => reading'[n] = reading[n]
      BY <1>9 DEF MonitorWakes, TypeInv, Values
    <2> QED  BY <1>9, <2>1, <2>2 DEF MonitorWakes
  <1>10. CASE MonitorAlarm(m)
    <2>1. m = monitor /\ \E from \in {"arm", "recv"} : Moved(m, from, "stopMonitor")
      BY <1>0, <1>10, GoesMoves DEF MonitorAlarm
    <2>2. \A n \in Monitors : n # m => reading'[n] = reading[n]
      BY <1>10 DEF MonitorAlarm, TypeInv, Values
    <2> QED  BY <1>10, <2>1, <2>2 DEF MonitorAlarm
  <1> QED
    BY <1>1, <1>2, <1>3, <1>4, <1>5, <1>6, <1>7, <1>8, <1>9, <1>10 DEF MonitorSteps, SharedSteps

LEMMA RunLoopCleansUp ==
  ASSUME Good, SharedSteps(RunLoop), Orderly'
  PROVE  Standing'
  <1> USE Distinct DEF Good, Standing, clientVars, monitorVars, otherVars,
          Moved, Present, WatchesOpen, ConnectedBy, NoSocket, HasSocket, Busy, Watching, Open
  <1>0. TypeInv /\ ThreadsOK
    BY DEF TypeInv
  <1>1. CASE StopMonitor(RunLoop)
    <2>1. Moved(RunLoop, "stopMonitor",
                IF monitor \in {None, RunLoop} \/ ~Alive(monitor) THEN "shut" ELSE "join")
      BY <1>0, <1>1, GoesMoves DEF StopMonitor
    <2> QED  BY <1>1, <2>1 DEF StopMonitor, Alive, TypeInv, Values
  <1>2. CASE JoinMonitor(RunLoop)
    <2>1. Moved(RunLoop, "join", "shut")
      BY <1>0, <1>2, GoesMoves DEF JoinMonitor
    <2> QED  BY <1>2, <2>1 DEF JoinMonitor, Alive
  <1>3. CASE CloseSocket(RunLoop)
    <2>1. Moved(RunLoop, "shut", IF socket = 0 THEN "mark" ELSE "clear")
      BY <1>0, <1>3, GoesMoves DEF CloseSocket
    <2> QED  BY <1>3, <2>1 DEF CloseSocket
  <1>4. CASE ClearSocket(RunLoop)
    <2>1. Moved(RunLoop, "clear", "mark")
      BY <1>0, <1>4, GoesMoves DEF ClearSocket
    <2> QED  BY <1>4, <2>1 DEF ClearSocket
  <1>5. CASE MarkError(RunLoop)
    <2>1. \E to \in {"create", "loop", "lost", "down"} : Moved(RunLoop, "mark", to)
      BY <1>0, <1>5, GoesMoves, AfterGoal DEF MarkError, ThreadsOK, TypeInv, Roles, Cleaning
    <2> QED  BY <1>5, <2>1 DEF MarkError
  <1>6. CASE ConnectionLost(RunLoop)
    <2>1. Moved(RunLoop, "lost", "disconnect")
      BY <1>0, <1>6, GoesMoves DEF ConnectionLost
    <2> QED  BY <1>6, <2>1 DEF ConnectionLost
  <1>7. CASE Disconnect(RunLoop)
    <2>1. \/ Moved(RunLoop, "disconnect", Return(RunLoop)) /\ state = "disconnected" /\ state' = state
          \/ Moved(RunLoop, "disconnect", "stopMonitor") /\ state' = "stopping"
      BY <1>0, <1>7, GoesMoves DEF Disconnect
    <2> QED  BY <1>7, <2>1 DEF Disconnect, Return
  <1>8. CASE Disconnected(RunLoop)
    <2>1. Moved(RunLoop, "down", Return(RunLoop))
      BY <1>0, <1>8, GoesMoves DEF Disconnected
    <2> QED  BY <1>8, <2>1 DEF Disconnected, Return
  <1> QED  BY <1>1, <1>2, <1>3, <1>4, <1>5, <1>6, <1>7, <1>8 DEF SharedSteps


LEMMA CallerCleansUp ==
  ASSUME Good, SharedSteps(Caller), Orderly'
  PROVE  Standing'
  <1> USE Distinct DEF Good, Standing, clientVars, monitorVars, otherVars,
          Moved, Present, WatchesOpen, ConnectedBy, NoSocket, HasSocket, Busy, Watching, Open
  <1>0. TypeInv /\ ThreadsOK
    BY DEF TypeInv
  <1>turn. pc[RunLoop] = "off" \/ pc[Caller] \in {"idle", "joinRunLoop"}
    BY DEF Turns, Orderly
  <1>1. CASE StopMonitor(Caller)
    <2>1. Moved(Caller, "stopMonitor",
                IF monitor \in {None, Caller} \/ ~Alive(monitor) THEN "shut" ELSE "join")
      BY <1>turn, <1>0, <1>1, GoesMoves DEF StopMonitor
    <2> QED  BY <1>turn, <1>1, <2>1 DEF StopMonitor, Alive, TypeInv, Values
  <1>2. CASE JoinMonitor(Caller)
    <2>1. Moved(Caller, "join", "shut")
      BY <1>turn, <1>0, <1>2, GoesMoves DEF JoinMonitor
    <2> QED  BY <1>turn, <1>2, <2>1 DEF JoinMonitor, Alive
  <1>3. CASE CloseSocket(Caller)
    <2>1. Moved(Caller, "shut", IF socket = 0 THEN "mark" ELSE "clear")
      BY <1>turn, <1>0, <1>3, GoesMoves DEF CloseSocket
    <2> QED  BY <1>turn, <1>3, <2>1 DEF CloseSocket
  <1>4. CASE ClearSocket(Caller)
    <2>1. Moved(Caller, "clear", "mark")
      BY <1>turn, <1>0, <1>4, GoesMoves DEF ClearSocket
    <2> QED  BY <1>turn, <1>4, <2>1 DEF ClearSocket
  <1>5. CASE MarkError(Caller)
    <2>1. \E to \in {"down"} : Moved(Caller, "mark", to)
      BY <1>turn, <1>0, <1>5, GoesMoves, AfterGoal DEF MarkError, ThreadsOK, TypeInv, Roles, Cleaning
    <2> QED  BY <1>turn, <1>5, <2>1 DEF MarkError
  <1>6. CASE Disconnect(Caller)
    <2>1. \/ Moved(Caller, "disconnect", Return(Caller)) /\ state = "disconnected" /\ state' = state
          \/ Moved(Caller, "disconnect", "stopMonitor") /\ state' = "stopping"
      BY <1>turn, <1>0, <1>6, GoesMoves DEF Disconnect
    <2> QED  BY <1>turn, <1>6, <2>1 DEF Disconnect, Return
  <1>7. CASE Disconnected(Caller)
    <2>1. Moved(Caller, "down", Return(Caller))
      BY <1>turn, <1>0, <1>7, GoesMoves DEF Disconnected
    <2> QED  BY <1>turn, <1>7, <2>1 DEF Disconnected, Return
  <1>8. ~ConnectionLost(Caller)
    BY <1>0 DEF ConnectionLost, Goes, At, TypeInv, Roles, Cleaning
  <1> QED  BY <1>1, <1>2, <1>3, <1>4, <1>5, <1>6, <1>7, <1>8 DEF SharedSteps


LEMMA RunLoopConnects ==
  ASSUME Good, Connect \/ ConnectSteps \/ BeginSend \/ SendSteps \/ LeaveRunLoop
  PROVE  Standing'
  <1> USE Distinct DEF Good, Standing, clientVars, monitorVars, otherVars,
          Moved, Present, WatchesOpen, ConnectedBy, NoSocket, HasSocket, Busy, Watching, Open
  <1>0. TypeInv /\ ThreadsOK
    BY DEF TypeInv
  <1>turn. pc[Caller] \in {"idle", "joinRunLoop"} \/ pc[RunLoop] = "off"
    BY DEF Turns, Orderly
  <1>1. CASE Connect
    <2>1. CASE state \in {"connecting", "authenticating"}
      BY <1>1, <2>1 DEF Connect
    <2>2. CASE state \notin {"connecting", "authenticating"}
      <3>1. \E to \in {"create", "shut"} : Moved(RunLoop, "loop", to) /\ (to = "create" => socket = 0)
        BY <1>0, <1>1, <2>2, GoesMoves DEF Connect, CleanUp
      <3> QED  BY <1>1, <1>turn, <2>2, <3>1 DEF Connect
    <2> QED  BY <2>1, <2>2
  <1>2. CASE CreateSocket
    <2>1. Moved(RunLoop, "create", "dial")
      BY <1>0, <1>2, GoesMoves DEF CreateSocket
    <2> QED  BY <1>2, <2>1, <1>turn DEF CreateSocket, TypeInv, Values
  <1>3. CASE Dial
    <2>1. Moved(RunLoop, "dial", "authenticate")
      BY <1>0, <1>3, GoesMoves DEF Dial
    <2> QED  BY <1>3, <2>1, <1>turn DEF Dial
  <1>4. CASE Authenticate
    <2>1. Moved(RunLoop, "authenticate", "greet")
      BY <1>0, <1>4, GoesMoves DEF Authenticate
    <2> QED  BY <1>4, <2>1, <1>turn DEF Authenticate
  <1>5. CASE Greeted
    <2>1. Moved(RunLoop, "greet", "adopt")
      BY <1>0, <1>5, GoesMoves DEF Greeted
    <2> QED  BY <1>5, <2>1, <1>turn DEF Greeted
  <1>6. CASE ConnectFails
    <2>1. \E from \in {"dial", "authenticate", "greet"} : Moved(RunLoop, from, "shut")
      BY <1>0, <1>6, GoesMoves DEF ConnectFails, CleanUp
    <2> QED  BY <1>6, <1>turn, <2>1 DEF ConnectFails
  <1>7. CASE Adopt
    <2>1. Moved(RunLoop, "adopt", "watch")
      BY <1>0, <1>7, GoesMoves DEF Adopt
    <2> QED  BY <1>7, <2>1, <1>turn DEF Adopt
  <1>8. CASE WatchSocket
    <2>1. Moved(RunLoop, "watch", IF running THEN "loop" ELSE "spawn")
      BY <1>0, <1>8, GoesMoves DEF WatchSocket
    <2> QED  BY <1>8, <2>1, <1>turn DEF WatchSocket
  <1>9. CASE SpawnMonitor
    <2>1. PICK m \in Monitors :
            /\ pc' = [pc EXCEPT ![RunLoop] = "loop", ![m] = "check"]
            /\ pc[RunLoop] = "spawn" /\ monitor' = m /\ running' = TRUE
      BY <1>9 DEF SpawnMonitor, At
    <2>2. /\ pc'[RunLoop] = "loop" /\ pc'[m] = "check"
          /\ \A u \in Threads : u \notin {m, RunLoop} => pc'[u] = pc[u]
      BY <1>0, <2>1 DEF ThreadsOK
    <2>3. UNCHANGED <<state, socket, closed, watched, reading>>
      BY <1>9 DEF SpawnMonitor
    <2> QED  BY <1>turn, <2>1, <2>2, <2>3
  <1>10. CASE BeginSend
    <2>1. Moved(RunLoop, "loop", "send")
      BY <1>0, <1>10, GoesMoves DEF BeginSend
    <2> QED  BY <1>10, <2>1 DEF BeginSend
  <1>11. CASE SendOk
    <2>1. Moved(RunLoop, "send", "loop")
      BY <1>0, <1>11, GoesMoves DEF SendOk
    <2> QED  BY <1>11, <2>1 DEF SendOk
  <1>12. CASE SendLost
    <2>1. Moved(RunLoop, "send", "stopMonitor")
      BY <1>0, <1>12, GoesMoves DEF SendLost
    <2> QED  BY <1>12, <2>1 DEF SendLost
  <1>13. CASE SendRefused
    <2>1. Moved(RunLoop, "send", "disconnect")
      BY <1>0, <1>13, GoesMoves DEF SendRefused
    <2> QED  BY <1>13, <2>1 DEF SendRefused
  <1>14. CASE LeaveRunLoop
    <2>1. Moved(RunLoop, "loop", "off")
      BY <1>0, <1>14, GoesMoves DEF LeaveRunLoop
    <2> QED  BY <1>14, <2>1, <1>turn DEF LeaveRunLoop, Turns, Orderly
  <1> QED
    BY <1>1, <1>2, <1>3, <1>4, <1>5, <1>6, <1>7, <1>8, <1>9, <1>10, <1>11,
       <1>12, <1>13, <1>14 DEF ConnectSteps, SendSteps


LEMMA CallerKeepsStanding ==
  ASSUME Good, JoinRunLoop \/ StartDestination \/ StopDestination \/ ServerGone, Orderly'
  PROVE  Standing'
  <1> USE Distinct DEF Good, Standing, clientVars, monitorVars, otherVars,
          Moved, Present, WatchesOpen, ConnectedBy, NoSocket, HasSocket, Busy, Watching, Open
  <1>0. TypeInv /\ ThreadsOK
    BY DEF TypeInv
  <1>1. CASE JoinRunLoop
    <2>1. Moved(Caller, "joinRunLoop", "disconnect") /\ pc[RunLoop] = "off"
      BY <1>0, <1>1, GoesMoves DEF JoinRunLoop, Alive, Orderly
    <2> QED  BY <1>1, <2>1 DEF JoinRunLoop
  <1>2. CASE StartDestination
    <2>1. Moved(RunLoop, "off", "loop") /\ pc[Caller] = "idle"
      BY <1>0, <1>2, GoesMoves DEF StartDestination, At
    <2> QED  BY <1>2, <2>1 DEF StartDestination
  <1>3. CASE StopDestination
    <2>1. Moved(Caller, "idle", "joinRunLoop")
      BY <1>0, <1>3, GoesMoves DEF StopDestination
    <2> QED  BY <1>3, <2>1 DEF StopDestination
  <1>4. CASE ServerGone
    BY <1>4 DEF ServerGone, threadVars
  <1> QED  BY <1>1, <1>2, <1>3, <1>4

-----------------------------------------------------------------------------
(* The inductive invariant, and the two theorems.                            *)

Inv ==
  /\ TypeInv /\ Attempting /\ Turns /\ OneAtATime
  /\ Orderly => Standing

LEMMA InitInv == Init => Inv
  <1> SUFFICES ASSUME Init PROVE Inv
    OBVIOUS
  <1>1. TypeInv /\ Attempting
    BY InitTyped, InitOK
  <1>2. pc[RunLoop] = "off" /\ pc[Caller] = "idle" /\ \A m \in Monitors : pc[m] = "off"
    BY Distinct DEF Init
  <1>3. Turns /\ OneAtATime
    BY <1>2 DEF Init, Turns, OneAtATime, Watching, Joining
  <1>4. Standing
    BY <1>2 DEF Init, Standing, Present, WatchesOpen, ConnectedBy, NoSocket, HasSocket, Busy, Watching
  <1> QED  BY <1>1, <1>3, <1>4 DEF Inv

(* stop() does not take back that it gave up, nor a loss that it trampled.       *)
LEMMA OrderlyBefore == ASSUME TypeInv, [Next]_vars, Orderly' PROVE Orderly
  <1>1. (gaveUp' = gaveUp \/ gaveUp') /\ (trampled' = trampled \/ (trampled => trampled'))
    BY DEF Next, MonitorSteps, RunLoopSteps, SharedSteps, ConnectSteps, SendSteps, StopMonitor, JoinMonitor,
           CloseSocket, ClearSocket, MarkError, ConnectionLost, Disconnect, Disconnected, Connect,
           CreateSocket, Dial, Authenticate, Greeted, ConnectFails, Adopt, WatchSocket, SpawnMonitor,
           BeginSend, SendOk, SendLost, SendRefused, LeaveRunLoop, MonitorCheck, MonitorRead,
           MonitorWakes, MonitorAlarm, StartDestination, StopDestination, JoinRunLoop, ServerGone,
           otherVars, vars
  <1> QED  BY <1>1 DEF Orderly, TypeInv, Values

LEMMA OneStep ==
  ASSUME TypeInv, Turns, OneAtATime, [Next]_vars
  PROVE  Turns' /\ OneAtATime'
  <1>1. CASE UNCHANGED vars
    BY <1>1 DEF vars, monitorVars, threadVars, otherVars, Turns, OneAtATime, Joining
  <1>2. \A t \in Threads : SharedSteps(t) => Turns' /\ OneAtATime'
    BY SharedKeepsOne
  <1>3. \A m \in Monitors : MonitorSteps(m) => Turns' /\ OneAtATime'
    BY <1>2, Distinct, OthersKeepOne DEF MonitorSteps
  <1>4. RunLoopSteps \/ Connect \/ BeginSend => Turns' /\ OneAtATime'
    BY <1>2, Distinct, RunLoopKeepsOne DEF RunLoopSteps
  <1>5. \/ SharedSteps(Caller) \/ JoinRunLoop \/ StartDestination \/ StopDestination \/ ServerGone
        => Turns' /\ OneAtATime'
    BY <1>2, Distinct, OthersKeepOne
  <1> QED  BY <1>1, <1>3, <1>4, <1>5 DEF Next

LEMMA StandingStep ==
  ASSUME Good, [Next]_vars, Orderly'
  PROVE  Standing'
  <1>1. CASE UNCHANGED vars
    BY <1>1 DEF Good, vars, clientVars, monitorVars, threadVars, otherVars, Standing, Present,
                WatchesOpen, ConnectedBy, NoSocket, HasSocket, Open
  <1>2. \A m \in Monitors : MonitorSteps(m) => Standing'
    BY MonitorKeepsStanding
  <1>3. RunLoopSteps \/ Connect \/ BeginSend => Standing'
    BY RunLoopCleansUp, RunLoopConnects DEF RunLoopSteps
  <1>4. \/ SharedSteps(Caller) \/ JoinRunLoop \/ StartDestination \/ StopDestination \/ ServerGone
        => Standing'
    BY CallerCleansUp, CallerKeepsStanding
  <1> QED  BY <1>1, <1>2, <1>3, <1>4 DEF Next

LEMMA InvStep == Inv /\ [Next]_vars => Inv'
  <1> SUFFICES ASSUME Inv, [Next]_vars PROVE Inv'
    OBVIOUS
  <1>1. TypeInv /\ Attempting /\ Turns /\ OneAtATime
    BY DEF Inv
  <1>2. TypeInv' /\ Attempting'
    BY <1>1, TypeStep
  <1>3. Turns' /\ OneAtATime'
    BY <1>1, OneStep
  <1>4. ASSUME Orderly' PROVE Standing'
    <2>1. Orderly
      BY <1>1, <1>4, OrderlyBefore
    <2>2. Good
      BY <1>1, <2>1 DEF Inv, Good
    <2> QED  BY <1>4, <2>2, StandingStep
  <1> QED  BY <1>2, <1>3, <1>4 DEF Inv

LEMMA InvTellsSocket == Inv => StateTellsSocket
  <1> SUFFICES ASSUME Inv PROVE StateTellsSocket
    OBVIOUS
  <1>1. TypeOK
    BY AfterGoal DEF Inv, TypeInv, ThreadsOK, Values, TypeOK
  <1>2. ASSUME Quiet, Orderly
        PROVE  /\ state = "connected" => socket # 0 /\ socket \notin closed
               /\ state \in {"disconnected", "error"} => socket = 0
    <2>1. /\ pc[Caller] = "idle" /\ pc[RunLoop] \in {"off", "loop"}
          /\ \A m \in Monitors : pc[m] \notin EndingAt
      BY <1>2 DEF Quiet, At
    <2>2. state = "connected" => running
      BY <1>2, <2>1 DEF Inv, Standing, ConnectedBy, EndingAt
    <2> QED  BY <1>2, <2>1, <2>2 DEF Inv, Standing, WatchesOpen, NoSocket, Open
  <1>3. ASSUME At(Caller, "idle"), ~Alive(RunLoop), Orderly PROVE Down
    <2>1. state # "connected"
      BY <1>3 DEF Inv, Standing, ConnectedBy, At, Alive
    <2> QED  BY <1>3, <2>1 DEF Inv, Standing, NoSocket, Down, At, Alive, Busy, Watching
  <1> QED  BY <1>1, <1>2, <1>3 DEF StateTellsSocket

LEMMA InvWatched == Inv => Watched
  <1> SUFFICES ASSUME Inv PROVE Watched
    OBVIOUS
  <1>1. ASSUME Quiet, Orderly
        PROVE  /\ state = "connected" => running /\ Alive(monitor)
               /\ \A m \in Monitors : At(m, "recv") => m = monitor /\ reading[m] = socket
    <2>1. /\ pc[RunLoop] \in {"off", "loop"}
          /\ \A m \in Monitors : pc[m] \notin EndingAt
      BY <1>1 DEF Quiet, At
    <2>2. state = "connected" => running
      BY <1>1, <2>1 DEF Inv, Standing, ConnectedBy, EndingAt
    <2>3. running => Alive(monitor)
      BY <1>1 DEF Inv, Standing, WatchesOpen, Watching, Alive
    <2> QED  BY <1>1, <2>2, <2>3 DEF Inv, Standing, Present, At, Busy, Watching
  <1>2. ASSUME ~gaveUp PROVE \A m, n \in Monitors : At(m, "recv") /\ At(n, "recv") => m = n
    BY <1>2 DEF Inv, OneAtATime, Watching, At
  <1> QED  BY <1>1, <1>2 DEF Watched

(* For every number of attempts and of heartbeat monitor threads, as long as    *)
(* every stop() waited for the run loop and no loss was written over a newer     *)
(* attempt: when no thread is in the middle of a change, CONNECTED means an open  *)
(* socket, DISCONNECTED and ERROR mean none, and after stop() nothing is left.   *)
THEOREM StateIsTrue == Spec => []StateTellsSocket
  BY InitInv, InvStep, InvTellsSocket, PTL DEF Spec

(* For every number of attempts and of heartbeat monitor threads: a connection    *)
(* that stands is read by its own monitor thread, the latest one, and two monitor *)
(* threads never read at the same time, because HeartbeatMonitor.stop waits.    *)
THEOREM OneMonitorReads == Spec => []Watched
  BY InitInv, InvStep, InvWatched, PTL DEF Spec
=============================================================================
