----------------------------- MODULE BroadcastHub -----------------------------
(***************************************************************************)
(* The relay between its input and its destinations: RelayEngine.start() and *)
(* stop() (engine.py), the BroadcastHub each start() creates, and the hub's  *)
(* input thread and broadcast thread (core/broadcast_hub.py).                *)
(*                                                                          *)
(* Every start of the engine makes a new hub with a new input source, so the *)
(* state of a hub is a function of the run r that made it: threads of an old *)
(* hub can outlive the stop() that should have ended them.  The destinations *)
(* of a hub are one flag here; HubRegistry has their list and Destination    *)
(* their queues.  Chunks are numbered in the order they are read.            *)
(***************************************************************************)
EXTENDS Integers, Sequences, FiniteSets

CONSTANTS
  InputQueueSize,     (* capacity of _input_queue (INPUT_QUEUE_SIZE is 10)     *)
  MaxRuns,            (* bound: calls of engine.start()                        *)
  MaxChunks,          (* bound: chunks the input delivers                      *)
  ConnectMayOutlast   (* can a connect() outlast the 5 s join of stop()?  TCP  *)
                      (* and NTRIP inputs wait 10 s by default.                *)

ASSUME InputQueueAssumption == InputQueueSize \in Nat \ {0}
ASSUME RunsAssumption       == MaxRuns \in Nat /\ MaxChunks \in Nat
ASSUME OutlastAssumption    == ConnectMayOutlast \in BOOLEAN

Run     == 1 .. MaxRuns
Chunk   == 1 .. MaxChunks
Pill    == 0
Nothing == 0

VARIABLES
  engine,       (* RelayEngine._running                                        *)
  run,          (* the hub in RelayEngine._hub; 0 before the first start()      *)
  mpc,          (* where the thread that calls the engine is                   *)
  raised,       (* has queue.Full escaped from BroadcastHub.stop()?            *)
  gaveUp,       (* has a join of the input thread given up after 5 s?          *)
  active,       (* hub: _running and not _stop_event.  The two change a        *)
                (* statement apart, and the loops test both.                   *)
  serving,      (* hub: its destinations were started and not stopped          *)
  connected,    (* input: is_connected, and the port or socket is held         *)
  queue,        (* hub: _input_queue                                           *)
  ipc, inHand,  (* input thread: where it is, the chunk it read                *)
  bpc, outHand, (* broadcast thread: where it is, the chunk it took            *)
  read,         (* chunks read so far                                          *)
  distributed,  (* history: chunks handed to the destinations, in order         *)
  lost          (* history: how each chunk that was given up on was lost       *)

mainVars    == <<engine, run, mpc, raised, gaveUp>>
inputVars   == <<ipc, inHand, read>>
bcastVars   == <<bpc, outHand, distributed>>
vars == <<mainVars, active, serving, connected, queue, inputVars, bcastVars, lost>>

LossKinds == {"overflow", "evicted", "drained"}
Lost(kind, c) == lost' = [lost EXCEPT ![kind] = @ \cup ({c} \ {Pill})]
Full(r) == Len(queue[r]) = InputQueueSize
Put(r, x) == ~Full(r) /\ queue' = [queue EXCEPT ![r] = Append(@, x)]
Take(r)   == queue[r] # <<>> /\ queue' = [queue EXCEPT ![r] = Tail(@)]

MainGoes(from, to)   == mpc = from /\ mpc' = to
InputGoes(r, from, to) == ipc[r] = from /\ ipc' = [ipc EXCEPT ![r] = to]
BcastGoes(r, from, to) == bpc[r] = from /\ bpc' = [bpc EXCEPT ![r] = to]

-----------------------------------------------------------------------------
(* Faulty forms of actions below: plausible bugs that the properties must    *)
(* exclude.  No specification uses them.                                     *)

DrainSkipped ==
  /\ MainGoes("drain", "idle") /\ engine' = FALSE
  /\ UNCHANGED <<run, raised, gaveUp, active, serving, connected, queue, inputVars, bcastVars, lost>>

BroadcastWhileConnected(r) ==
  /\ BcastGoes(r, "loop", IF active[r] /\ connected[r] THEN "get" ELSE "off")
  /\ UNCHANGED <<mainVars, active, serving, connected, queue, inputVars, outHand, distributed, lost>>

BroadcastUntilPill(r) ==
  /\ BcastGoes(r, "loop", "get")
  /\ UNCHANGED <<mainVars, active, serving, connected, queue, inputVars, outHand, distributed, lost>>

GetWithoutRemoving(r) ==
  /\ queue[r] # <<>> /\ Head(queue[r]) # Pill
  /\ BcastGoes(r, "get", "distribute")
  /\ outHand' = [outHand EXCEPT ![r] = Head(queue[r])]
  /\ UNCHANGED <<mainVars, active, serving, connected, queue, inputVars, distributed, lost>>

-----------------------------------------------------------------------------
(* The thread that calls the engine.                                       *)

(* engine.start(): a new input source and a new hub                        *)
EngineStart ==
  /\ ~engine /\ run < MaxRuns
  /\ MainGoes("idle", "connect")
  /\ run' = run + 1
  /\ UNCHANGED <<engine, raised, gaveUp, active, serving, connected, queue, inputVars, bcastVars, lost>>

(* BroadcastHub.start(): a failed connect() leaves engine and hub stopped   *)
ConnectInput ==
  /\ \/ MainGoes("connect", "launch") /\ connected' = [connected EXCEPT ![run] = TRUE]
     \/ MainGoes("connect", "idle")   /\ UNCHANGED connected
  /\ UNCHANGED <<engine, run, raised, gaveUp, active, serving, queue, inputVars, bcastVars, lost>>

(* the destinations, then the flags, then the two threads                   *)
Launch ==
  /\ MainGoes("launch", "idle")
  /\ engine' = TRUE
  /\ serving' = [serving EXCEPT ![run] = TRUE]
  /\ active'  = [active EXCEPT ![run] = TRUE]
  /\ ipc' = [ipc EXCEPT ![run] = "loop"]
  /\ bpc' = [bpc EXCEPT ![run] = "loop"]
  /\ UNCHANGED <<run, raised, gaveUp, connected, queue, inHand, read, outHand, distributed, lost>>

(* engine.stop(): BroadcastHub.stop() returns at once if the hub is stopped  *)
EngineStop ==
  /\ engine
  /\ \/ active[run] /\ MainGoes("idle", "pill") /\ UNCHANGED engine
     \/ ~active[run] /\ MainGoes("idle", "idle") /\ engine' = FALSE
  /\ active' = [active EXCEPT ![run] = FALSE]
  /\ UNCHANGED <<run, raised, gaveUp, serving, connected, queue, inputVars, bcastVars, lost>>

PutPill ==
  /\ \/ MainGoes("pill", "joinInput") /\ Put(run, Pill)
     \/ MainGoes("pill", "evict") /\ Full(run) /\ UNCHANGED queue
  /\ UNCHANGED <<engine, run, raised, gaveUp, active, serving, connected, inputVars, bcastVars, lost>>

(* get_nowait; Empty is caught, and then there is no pill                    *)
Evict ==
  /\ \/ MainGoes("evict", "refill") /\ Take(run) /\ Lost("evicted", Head(queue[run]))
     \/ MainGoes("evict", "joinInput") /\ queue[run] = <<>> /\ UNCHANGED <<queue, lost>>
  /\ UNCHANGED <<engine, run, raised, gaveUp, active, serving, connected, inputVars, bcastVars>>

(* the second put_nowait: its queue.Full is not caught and leaves both stop()s *)
PutPillAgain ==
  /\ \/ MainGoes("refill", "joinInput") /\ Put(run, Pill) /\ UNCHANGED raised
     \/ MainGoes("refill", "idle") /\ Full(run) /\ raised' = TRUE /\ UNCHANGED queue
  /\ UNCHANGED <<engine, run, gaveUp, active, serving, connected, inputVars, bcastVars, lost>>

(* join(timeout=5.0): everything the input thread waits for is shorter, but  *)
(* for connect()                                                            *)
JoinInput ==
  /\ MainGoes("joinInput", "joinBroadcast")
  /\ \/ ipc[run] = "off" /\ UNCHANGED gaveUp
     \/ ipc[run] = "connect" /\ ConnectMayOutlast /\ gaveUp' = TRUE
  /\ UNCHANGED <<engine, run, raised, active, serving, connected, queue, inputVars, bcastVars, lost>>

JoinBroadcast ==
  /\ MainGoes("joinBroadcast", "destinations")
  /\ bpc[run] = "off"
  /\ UNCHANGED <<engine, run, raised, gaveUp, active, serving, connected, queue, inputVars, bcastVars, lost>>

StopDestinations ==
  /\ MainGoes("destinations", "disconnect")
  /\ serving' = [serving EXCEPT ![run] = FALSE]
  /\ UNCHANGED <<engine, run, raised, gaveUp, active, connected, queue, inputVars, bcastVars, lost>>

DisconnectInput ==
  /\ MainGoes("disconnect", "drain")
  /\ connected' = [connected EXCEPT ![run] = FALSE]
  /\ UNCHANGED <<engine, run, raised, gaveUp, active, serving, queue, inputVars, bcastVars, lost>>

(* get_nowait until Empty, then both stop()s return                          *)
Drain ==
  /\ \/ MainGoes("drain", "drain") /\ Take(run) /\ Lost("drained", Head(queue[run]))
        /\ UNCHANGED engine
     \/ MainGoes("drain", "idle") /\ queue[run] = <<>> /\ engine' = FALSE
        /\ UNCHANGED <<queue, lost>>
  /\ UNCHANGED <<run, raised, gaveUp, active, serving, connected, inputVars, bcastVars>>

-----------------------------------------------------------------------------
(* _input_thread_worker and _reconnect_input of the hub of run r.           *)

InputLoop(r) ==
  /\ InputGoes(r, "loop", IF ~active[r] THEN "off"
                          ELSE IF connected[r] THEN "read" ELSE "reconnect")
  /\ UNCHANGED <<mainVars, active, serving, connected, queue, inHand, read, bcastVars, lost>>

(* while self._running and not self._stop_event.is_set()                     *)
Reconnect(r) ==
  /\ InputGoes(r, "reconnect", IF active[r] THEN "connect" ELSE "loop")
  /\ UNCHANGED <<mainVars, active, serving, connected, queue, inHand, read, bcastVars, lost>>

(* a connect() that succeeds goes on to read without looking at the flags     *)
ReconnectOk(r) ==
  /\ InputGoes(r, "connect", "read")
  /\ connected' = [connected EXCEPT ![r] = TRUE]
  /\ UNCHANGED <<mainVars, active, serving, queue, inHand, read, bcastVars, lost>>

ReconnectFail(r) ==
  /\ InputGoes(r, "connect", "wait")
  /\ UNCHANGED <<mainVars, active, serving, connected, queue, inHand, read, bcastVars, lost>>

(* _reconnect_wait(delay): the delay passes, or the stop event ends it        *)
ReconnectWait(r) ==
  /\ InputGoes(r, "wait", IF active[r] THEN "reconnect" ELSE "loop")
  /\ UNCHANGED <<mainVars, active, serving, connected, queue, inHand, read, bcastVars, lost>>

ReadChunk(r) ==
  /\ connected[r] /\ read < MaxChunks
  /\ InputGoes(r, "read", "put")
  /\ read' = read + 1
  /\ inHand' = [inHand EXCEPT ![r] = read + 1]
  /\ UNCHANGED <<mainVars, active, serving, connected, queue, bcastVars, lost>>

(* no data within the timeout, or not connected any more                     *)
ReadNothing(r) ==
  /\ InputGoes(r, "read", "loop")
  /\ UNCHANGED <<mainVars, active, serving, connected, queue, inHand, read, bcastVars, lost>>

(* the peer closed, or the read failed: the input is not connected any more   *)
ReadError(r) ==
  /\ connected[r]
  /\ InputGoes(r, "read", "loop")
  /\ connected' = [connected EXCEPT ![r] = FALSE]
  /\ UNCHANGED <<mainVars, active, serving, queue, inHand, read, bcastVars, lost>>

(* put(data, timeout=0.5); on Full the chunk is dropped                       *)
PutChunk(r) ==
  /\ InputGoes(r, "put", "loop")
  /\ inHand' = [inHand EXCEPT ![r] = Nothing]
  /\ \/ Put(r, inHand[r]) /\ UNCHANGED lost
     \/ Full(r) /\ Lost("overflow", inHand[r]) /\ UNCHANGED queue
  /\ UNCHANGED <<mainVars, active, serving, connected, read, bcastVars>>

-----------------------------------------------------------------------------
(* _broadcast_loop of the hub of run r.                                     *)

BroadcastLoop(r) ==
  /\ BcastGoes(r, "loop", IF active[r] THEN "get" ELSE "off")
  /\ UNCHANGED <<mainVars, active, serving, connected, queue, inputVars, outHand, distributed, lost>>

(* _input_queue.get(timeout=1.0)                                             *)
GetEmpty(r) ==
  /\ queue[r] = <<>>
  /\ BcastGoes(r, "get", "loop")
  /\ UNCHANGED <<mainVars, active, serving, connected, queue, inputVars, outHand, distributed, lost>>

GetPill(r) ==
  /\ Take(r) /\ Head(queue[r]) = Pill
  /\ BcastGoes(r, "get", "off")
  /\ UNCHANGED <<mainVars, active, serving, connected, inputVars, outHand, distributed, lost>>

GetChunk(r) ==
  /\ Take(r) /\ Head(queue[r]) # Pill
  /\ BcastGoes(r, "get", "distribute")
  /\ outHand' = [outHand EXCEPT ![r] = Head(queue[r])]
  /\ UNCHANGED <<mainVars, active, serving, connected, inputVars, distributed, lost>>

(* _distribute_raw or _distribute_filtered; neither blocks                   *)
Distribute(r) ==
  /\ BcastGoes(r, "distribute", "loop")
  /\ distributed' = Append(distributed, outHand[r])
  /\ outHand' = [outHand EXCEPT ![r] = Nothing]
  /\ UNCHANGED <<mainVars, active, serving, connected, queue, inputVars, lost>>

-----------------------------------------------------------------------------
Init ==
  /\ engine = FALSE /\ run = 0 /\ mpc = "idle" /\ raised = FALSE /\ gaveUp = FALSE
  /\ active    = [r \in Run |-> FALSE]
  /\ serving   = [r \in Run |-> FALSE]
  /\ connected = [r \in Run |-> FALSE]
  /\ queue     = [r \in Run |-> <<>>]
  /\ ipc = [r \in Run |-> "off"] /\ inHand  = [r \in Run |-> Nothing]
  /\ bpc = [r \in Run |-> "off"] /\ outHand = [r \in Run |-> Nothing]
  /\ read = 0 /\ distributed = <<>>
  /\ lost = [k \in LossKinds |-> {}]

StartSteps == ConnectInput \/ Launch
StopSteps ==
  \/ PutPill \/ Evict \/ PutPillAgain \/ JoinInput \/ JoinBroadcast
  \/ StopDestinations \/ DisconnectInput \/ Drain
InputSteps(r) ==
  \/ InputLoop(r) \/ Reconnect(r) \/ ReconnectOk(r) \/ ReconnectFail(r) \/ ReconnectWait(r)
  \/ ReadChunk(r) \/ ReadNothing(r) \/ ReadError(r) \/ PutChunk(r)
BroadcastSteps(r) ==
  BroadcastLoop(r) \/ GetEmpty(r) \/ GetPill(r) \/ GetChunk(r) \/ Distribute(r)

(* nobody starts the engine again                                            *)
Stopped == mpc = "idle" /\ ~engine
Rest    == Stopped /\ run = MaxRuns /\ UNCHANGED vars

Next ==
  \/ Rest
  \/ EngineStart \/ EngineStop \/ StartSteps \/ StopSteps
  \/ \E r \in Run : InputSteps(r) \/ BroadcastSteps(r)

Spec == Init /\ [][Next]_vars

(* Both threads run, every connect() and read_data() returns, and a caller   *)
(* inside start() or stop() goes on.  Nobody has to call start() or stop().   *)
FairSpec ==
  /\ Spec
  /\ WF_vars(StartSteps) /\ WF_vars(StopSteps)
  /\ \A r \in Run : WF_vars(InputSteps(r)) /\ WF_vars(BroadcastSteps(r))

-----------------------------------------------------------------------------
(* Properties.                                                             *)

Queued(r, n) == \E i \in 1 .. Len(queue[r]) : queue[r][i] = n
InFlight(n)  == \E r \in Run : n \in {inHand[r], outHand[r]} \/ Queued(r, n)
WasDistributed(n) == \E i \in 1 .. Len(distributed) : distributed[i] = n

(* Every chunk read is on its way, was handed to the destinations, or was    *)
(* lost in exactly one of the ways the code has; the input queue keeps to its *)
(* capacity; and unless a stop() gave up, the destinations of a run get its    *)
(* chunks in the order they were read, a later run nothing of an earlier one.  *)
ChunkAccounted ==
  /\ \A n \in 1 .. read :
       Cardinality({p \in {"flight", "distributed"} \cup LossKinds :
                      CASE p = "flight"      -> InFlight(n)
                        [] p = "distributed" -> WasDistributed(n)
                        [] OTHER             -> n \in lost[p]}) = 1
  /\ \A r \in Run : Len(queue[r]) <= InputQueueSize
  /\ ~raised /\ ~gaveUp => \A i, j \in 1 .. Len(distributed) : i < j => distributed[i] < distributed[j]

HubEnded(r) ==
  /\ ipc[r] = "off" /\ bpc[r] = "off"
  /\ ~serving[r] /\ ~connected[r] /\ queue[r] = <<>>

(* When engine.stop() has returned both threads are gone, the destinations    *)
(* are stopped, nothing waits in the queue, and the input is released.        *)
StopReleases == Stopped /\ ~raised /\ ~gaveUp => \A r \in Run : HubEnded(r)

(* engine.stop() returns, and the threads of a stopped hub end, with or without *)
(* a pill in the queue.                                                      *)
StopEnds ==
  /\ (mpc \in {"pill", "evict", "refill", "joinInput", "joinBroadcast"}) ~> mpc = "idle"
  /\ \A r \in Run : ~active[r] ~> (active[r] \/ (ipc[r] = "off" /\ bpc[r] = "off"))

(* The chunks of a running hub reach its destinations: an input that is down  *)
(* or silent does not hold them back.                                        *)
ChunksDistributed ==
  \A r \in Run, n \in Chunk : (active[r] /\ Queued(r, n)) ~> (~active[r] \/ ~Queued(r, n))

=============================================================================
