----------------------------- MODULE Destination -----------------------------
(***************************************************************************)
(* One destination of the relay (core/destinations/base_destination.py) and *)
(* the two parties that use it: the hub's broadcast thread, which enqueues   *)
(* chunks, and a caller of stop_destination() / start_destination()          *)
(* (core/broadcast_hub.py).                                                  *)
(*                                                                          *)
(* One action is one step between two points where another thread can run:   *)
(* a call on the thread-safe queue, a read or write of the _running flag, or *)
(* one call of _connect(), _send_data() or _disconnect().  Chunks are        *)
(* numbered from 1 in the order the hub reads them; the poison pill that     *)
(* stop() puts in the queue (None in the code) is 0.                         *)
(***************************************************************************)
EXTENDS Integers, Sequences, FiniteSets

CONSTANTS
  QueueSize,       (* capacity of _queue (DEFAULT_QUEUE_SIZE is 100)              *)
  Workers,         (* identities of run-loop threads that can be alive together   *)
  NoWorker,        (* _thread before the first start()                            *)
  MaxChunks,       (* bound: chunks the broadcast thread reads                    *)
  MaxStarts,       (* bound: calls of start_destination()                         *)
  JoinMayTimeOut   (* can a connect or send outlast the 5 s join of stop()?       *)

ASSUME QueueSizeAssumption == QueueSize \in Nat \ {0}
ASSUME WorkersAssumption   == NoWorker \notin Workers
ASSUME BoundsAssumption    == MaxChunks \in Nat /\ MaxStarts \in Nat
ASSUME JoinAssumption      == JoinMayTimeOut \in BOOLEAN

Pill     == 0
Nothing  == 0
Chunk    == 1 .. MaxChunks

VARIABLES
  queue,      (* _queue                                                        *)
  running,    (* _running                                                      *)
  enabled,    (* enabled, set by the hub and read by its broadcast thread      *)
  connected,  (* what _is_connected() answers                                  *)
  thread,     (* _thread: the last thread start() created                      *)
  wpc,        (* where each run-loop thread is; "off": not started, or ended   *)
  item,       (* the chunk each run-loop thread took from the queue            *)
  cpc,        (* where the API caller is inside stop() or start()              *)
  raised,     (* has queue.Full escaped from stop()?                           *)
  gaveUp,     (* has stop() gone on with the thread still alive after 5 s?     *)
  offered,    (* chunks the broadcast thread has read                          *)
  hand,       (* the chunk it is about to enqueue, or Nothing                  *)
  starts,     (* start_destination() calls so far                              *)
  sent,       (* history: the chunks _send_data() delivered, in order          *)
  lost,       (* history: how each chunk that was given up on was lost         *)
  dropped,    (* stats.messages_dropped                                        *)
  epoch       (* history of the last connect: the chunks enqueued before it,   *)
              (* and the chunk that made the run loop connect                  *)

threadVars == <<running, thread, wpc, item>>
hubVars    == <<offered, hand, enabled>>
callVars   == <<cpc, raised, gaveUp, starts>>
history    == <<sent, lost, dropped, epoch>>
vars == <<queue, connected, threadVars, hubVars, callVars, history>>

LossKinds == {"skipped", "full", "evicted", "cleared", "unconnected", "failed"}
Lost(kind, chunks) == lost' = [lost EXCEPT ![kind] = @ \cup (chunks \ {Pill})]
Items(q)  == {q[i] : i \in 1 .. Len(q)}
Alive(w)  == wpc[w] # "off"
Stopping  == cpc \in {"stop", "pill", "evict", "refill", "join", "disconnect"}
Settled   == IF hand = Nothing THEN offered ELSE offered - 1

Goto(w, from, to) == wpc[w] = from /\ wpc' = [wpc EXCEPT ![w] = to]

-----------------------------------------------------------------------------
(* Faulty forms of actions below: plausible bugs that the properties must    *)
(* exclude.  No specification uses them.                                     *)

StartUnchecked ==
  /\ cpc = "start" /\ cpc' = "spawn"
  /\ running' = TRUE
  /\ UNCHANGED <<queue, connected, thread, wpc, item, hubVars, raised, gaveUp, starts, history>>

DisconnectForgotten ==
  /\ cpc = "disconnect" /\ cpc' = "idle"
  /\ UNCHANGED <<queue, connected, threadVars, hubVars, raised, gaveUp, starts, history>>

RunUntilPill(w) ==
  /\ Goto(w, "loop", "get")
  /\ UNCHANGED <<queue, connected, running, thread, item, hubVars, callVars, history>>

GetWithoutRemoving(w) ==
  /\ queue # <<>> /\ Head(queue) # Pill
  /\ Goto(w, "get", "check")
  /\ item' = [item EXCEPT ![w] = Head(queue)]
  /\ UNCHANGED <<queue, connected, running, thread, hubVars, callVars, history>>

ClearSkipped(w) ==
  /\ Goto(w, "clear", "recheck")
  /\ UNCHANGED <<queue, connected, running, thread, item, hubVars, callVars, history>>

SendRepeated(w) ==
  /\ connected /\ Goto(w, "send", "check")
  /\ sent' = Append(sent, item[w])
  /\ UNCHANGED <<queue, connected, running, thread, item, hubVars, callVars, lost, dropped, epoch>>

SendFailureEndsThread(w) ==
  /\ Goto(w, "send", "off") /\ connected' = FALSE
  /\ Lost("failed", {item[w]})
  /\ item' = [item EXCEPT ![w] = Nothing]
  /\ UNCHANGED <<queue, running, thread, hubVars, callVars, sent, dropped, epoch>>

-----------------------------------------------------------------------------
(* The hub's broadcast thread.                                             *)

(* BroadcastHub._distribute_raw: the next chunk reaches this destination   *)
(* and dest.enabled is read; a disabled destination is skipped.            *)
Offer ==
  /\ hand = Nothing /\ offered < MaxChunks
  /\ offered' = offered + 1
  /\ \/ enabled  /\ hand' = offered + 1 /\ UNCHANGED lost
     \/ ~enabled /\ Lost("skipped", {offered + 1}) /\ UNCHANGED hand
  /\ UNCHANGED <<queue, connected, enabled, threadVars, callVars, sent, dropped, epoch>>

(* BaseDestination.enqueue: put_nowait, the newest chunk is dropped on Full *)
Enqueue ==
  /\ hand # Nothing
  /\ \/ /\ Len(queue) < QueueSize
        /\ queue' = Append(queue, hand)
        /\ UNCHANGED <<lost, dropped>>
     \/ /\ Len(queue) = QueueSize
        /\ Lost("full", {hand})
        /\ dropped' = dropped + 1
        /\ UNCHANGED queue
  /\ hand' = Nothing
  /\ UNCHANGED <<connected, offered, enabled, threadVars, callVars, sent, epoch>>

-----------------------------------------------------------------------------
(* The API caller: BroadcastHub.start_destination and BaseDestination.start. *)

StartDestination ==
  /\ cpc = "idle" /\ starts < MaxStarts
  /\ starts' = starts + 1
  /\ enabled' = TRUE
  /\ cpc' = "start"
  /\ UNCHANGED <<queue, connected, threadVars, offered, hand, raised, gaveUp, history>>

(* "already running" is an early return *)
Start ==
  /\ cpc = "start"
  /\ running' = TRUE
  /\ cpc' = IF running THEN "idle" ELSE "spawn"
  /\ UNCHANGED <<queue, connected, thread, wpc, item, hubVars, raised, gaveUp, starts, history>>

Spawn ==
  /\ cpc = "spawn"
  /\ \E w \in Workers :
       /\ ~Alive(w)
       /\ thread' = w
       /\ wpc' = [wpc EXCEPT ![w] = "loop"]
  /\ cpc' = "idle"
  /\ UNCHANGED <<queue, connected, running, item, hubVars, raised, gaveUp, starts, history>>

(* BroadcastHub.stop_destination, then BaseDestination.stop.               *)
StopDestination ==
  /\ cpc = "idle"
  /\ enabled' = FALSE
  /\ cpc' = "stop"
  /\ UNCHANGED <<queue, connected, threadVars, offered, hand, raised, gaveUp, starts, history>>

Stop ==
  /\ cpc = "stop"
  /\ running' = FALSE
  /\ cpc' = IF running THEN "pill" ELSE "idle"
  /\ UNCHANGED <<queue, connected, thread, wpc, item, hubVars, raised, gaveUp, starts, history>>

(* the pill wakes the run loop; on Full one item is taken out first          *)
PutPill ==
  /\ cpc = "pill"
  /\ IF Len(queue) < QueueSize
       THEN queue' = Append(queue, Pill) /\ cpc' = "join"
       ELSE cpc' = "evict" /\ UNCHANGED queue
  /\ UNCHANGED <<connected, threadVars, hubVars, raised, gaveUp, starts, history>>

(* get_nowait; queue.Empty is caught, and then there is no pill               *)
Evict ==
  /\ cpc = "evict"
  /\ IF queue = <<>>
       THEN cpc' = "join" /\ UNCHANGED <<queue, lost>>
       ELSE /\ Lost("evicted", {Head(queue)})
            /\ queue' = Tail(queue)
            /\ cpc' = "refill"
  /\ UNCHANGED <<connected, threadVars, hubVars, raised, gaveUp, starts, sent, dropped, epoch>>

(* the second put_nowait: a queue.Full here is not caught and leaves stop()   *)
PutPillAgain ==
  /\ cpc = "refill"
  /\ IF Len(queue) < QueueSize
       THEN queue' = Append(queue, Pill) /\ cpc' = "join" /\ UNCHANGED raised
       ELSE cpc' = "idle" /\ raised' = TRUE /\ UNCHANGED queue
  /\ UNCHANGED <<connected, threadVars, hubVars, gaveUp, starts, history>>

Join ==
  /\ cpc = "join"
  /\ cpc' = "disconnect"
  /\ \/ /\ thread = NoWorker \/ ~Alive(thread)
        /\ UNCHANGED gaveUp
     \/ /\ JoinMayTimeOut /\ thread # NoWorker /\ Alive(thread)
        /\ gaveUp' = TRUE
  /\ UNCHANGED <<queue, connected, threadVars, hubVars, raised, starts, history>>

Disconnect ==
  /\ cpc = "disconnect"
  /\ connected' = FALSE
  /\ cpc' = "idle"
  /\ UNCHANGED <<queue, threadVars, hubVars, raised, gaveUp, starts, history>>

-----------------------------------------------------------------------------
(* BaseDestination._run_loop, in each thread start() created.              *)

(* while self._running                                                     *)
CheckRunning(w) ==
  /\ Goto(w, "loop", IF running THEN "get" ELSE "off")
  /\ UNCHANGED <<queue, connected, running, thread, item, hubVars, callVars, history>>

(* queue.get(timeout=1.0): Empty goes round the loop, the pill ends it       *)
GetEmpty(w) ==
  /\ queue = <<>>
  /\ Goto(w, "get", "loop")
  /\ UNCHANGED <<queue, connected, running, thread, item, hubVars, callVars, history>>

GetPill(w) ==
  /\ queue # <<>> /\ Head(queue) = Pill
  /\ Goto(w, "get", "off")
  /\ queue' = Tail(queue)
  /\ UNCHANGED <<connected, running, thread, item, hubVars, callVars, history>>

GetChunk(w) ==
  /\ queue # <<>> /\ Head(queue) # Pill
  /\ Goto(w, "get", "check")
  /\ queue' = Tail(queue)
  /\ item' = [item EXCEPT ![w] = Head(queue)]
  /\ UNCHANGED <<connected, running, thread, hubVars, callVars, history>>

(* if not self._is_connected(): self._attempt_connect()                       *)
CheckConnected(w) ==
  /\ Goto(w, "check", IF connected THEN "send" ELSE "connect")
  /\ UNCHANGED <<queue, connected, running, thread, item, hubVars, callVars, history>>

ConnectOk(w) ==
  /\ Goto(w, "connect", "clear")
  /\ connected' = TRUE
  /\ epoch' = [backlog |-> Settled, trigger |-> item[w]]
  /\ UNCHANGED <<queue, running, thread, item, hubVars, callVars, sent, lost, dropped>>

(* _connect() failed or raised, or the retry delay of a subclass is not over  *)
ConnectFail(w) ==
  /\ Goto(w, "connect", "recheck")
  /\ UNCHANGED <<queue, connected, running, thread, item, hubVars, callVars, history>>

(* clear_queue: get_nowait until Empty; a poison pill is swallowed too        *)
ClearOne(w) ==
  /\ wpc[w] = "clear" /\ queue # <<>>
  /\ Lost("cleared", {Head(queue)})
  /\ queue' = Tail(queue)
  /\ UNCHANGED <<connected, threadVars, hubVars, callVars, sent, dropped, epoch>>

ClearDone(w) ==
  /\ queue = <<>>
  /\ Goto(w, "clear", "recheck")
  /\ UNCHANGED <<queue, connected, running, thread, item, hubVars, callVars, history>>

(* the second _is_connected(): still down, the chunk is dropped               *)
Recheck(w) ==
  /\ \/ /\ connected
        /\ Goto(w, "recheck", "send")
        /\ UNCHANGED <<item, lost, dropped>>
     \/ /\ ~connected
        /\ Goto(w, "recheck", "loop")
        /\ Lost("unconnected", {item[w]})
        /\ dropped' = dropped + 1
        /\ item' = [item EXCEPT ![w] = Nothing]
  /\ UNCHANGED <<queue, connected, running, thread, hubVars, callVars, sent, epoch>>

SendOk(w) ==
  /\ connected
  /\ Goto(w, "send", "loop")
  /\ sent' = Append(sent, item[w])
  /\ item' = [item EXCEPT ![w] = Nothing]
  /\ UNCHANGED <<queue, connected, running, thread, hubVars, callVars, lost, dropped, epoch>>

(* _send_data() raised: the error is counted and the connection closed        *)
SendFail(w) ==
  /\ Goto(w, "send", "loop")
  /\ connected' = FALSE
  /\ Lost("failed", {item[w]})
  /\ item' = [item EXCEPT ![w] = Nothing]
  /\ UNCHANGED <<queue, running, thread, hubVars, callVars, sent, dropped, epoch>>

(* the peer or the heartbeat monitor of a subclass ends the connection        *)
PeerDisconnect ==
  /\ connected /\ connected' = FALSE
  /\ UNCHANGED <<queue, threadVars, hubVars, callVars, history>>

-----------------------------------------------------------------------------
Init ==
  /\ queue = <<>>
  /\ running = FALSE /\ enabled = TRUE /\ connected = FALSE
  /\ thread = NoWorker
  /\ wpc = [w \in Workers |-> "off"]
  /\ item = [w \in Workers |-> Nothing]
  /\ cpc = "idle" /\ raised = FALSE /\ gaveUp = FALSE /\ starts = 0
  /\ offered = 0 /\ hand = Nothing
  /\ sent = <<>> /\ dropped = 0
  /\ lost = [k \in LossKinds |-> {}]
  /\ epoch = [backlog |-> 0, trigger |-> Nothing]

Hub    == Offer \/ Enqueue
StopSteps  == Stop \/ PutPill \/ Evict \/ PutPillAgain \/ Join \/ Disconnect
StartSteps == Start \/ Spawn
WorkerSteps(w) ==
  \/ CheckRunning(w) \/ GetEmpty(w) \/ GetPill(w) \/ GetChunk(w)
  \/ CheckConnected(w) \/ ConnectOk(w) \/ ConnectFail(w)
  \/ ClearOne(w) \/ ClearDone(w) \/ Recheck(w) \/ SendOk(w) \/ SendFail(w)

Next ==
  \/ Hub
  \/ StartDestination \/ StopDestination
  \/ StartSteps \/ StopSteps
  \/ \E w \in Workers : WorkerSteps(w)
  \/ PeerDisconnect

Spec == Init /\ [][Next]_vars

(* Every thread that can run does: a get() wakes after 1 s, sockets time out, *)
(* a join returns.  Nothing obliges anyone to call the API or the input to    *)
(* deliver chunks.                                                            *)
FairSpec ==
  /\ Spec
  /\ WF_vars(Enqueue)
  /\ WF_vars(StartSteps) /\ WF_vars(StopSteps)
  /\ \A w \in Workers : WF_vars(WorkerSteps(w))

-----------------------------------------------------------------------------
(* Properties.                                                             *)

(* The state has its type; in particular the queue never exceeds the bound   *)
(* that isolates the hub from a slow destination.                           *)
TypeOK ==
  /\ queue \in Seq(Chunk \cup {Pill}) /\ Len(queue) <= QueueSize
  /\ running \in BOOLEAN /\ enabled \in BOOLEAN /\ connected \in BOOLEAN
  /\ thread \in Workers \cup {NoWorker}
  /\ wpc \in [Workers -> {"off", "loop", "get", "check", "connect", "clear", "recheck", "send"}]
  /\ item \in [Workers -> Chunk \cup {Nothing}]
  /\ cpc \in {"idle", "start", "spawn", "stop", "pill", "evict", "refill", "join", "disconnect"}
  /\ raised \in BOOLEAN /\ gaveUp \in BOOLEAN /\ starts \in 0 .. MaxStarts
  /\ offered \in 0 .. MaxChunks /\ hand \in {Nothing, offered}
  /\ sent \in Seq(Chunk) /\ dropped \in Nat
  /\ lost \in [LossKinds -> SUBSET Chunk]
  /\ epoch \in [backlog : 0 .. MaxChunks, trigger : Chunk \cup {Nothing}]

(* No chunk reaches the peer twice, whatever overlaps: two run loops after a *)
(* join that timed out, a reconnect, an exception that leaves stop().        *)
SentOnce == \A i, j \in 1 .. Len(sent) : i # j => sent[i] # sent[j]

InQueue(n)  == \E i \in 1 .. Len(queue) : queue[i] = n
InHand(n)   == n = hand \/ \E w \in Workers : item[w] = n
InFlight(n) == InQueue(n) \/ InHand(n)

(* Every chunk read is in flight, delivered, or lost in exactly one of the   *)
(* ways the code has: none vanishes between two threads, and none that was   *)
(* given up on is delivered later; messages_dropped counts those that a full   *)
(* queue refused or that found the destination unable to connect.             *)
NoSilentLoss ==
  /\ TypeOK
  /\ \A n \in 1 .. offered :
       Cardinality({p \in {"flight", "sent"} \cup LossKinds :
                      CASE p = "flight" -> InFlight(n)
                        [] p = "sent"   -> n \in Items(sent)
                        [] OTHER        -> n \in lost[p]}) = 1
  /\ dropped = Cardinality(lost["full"] \cup lost["unconnected"])

(* A restart never puts a second run loop on the queue and the connection.   *)
SingleWorker == ~raised /\ ~gaveUp => \A v, w \in Workers : Alive(v) /\ Alive(w) => v = w

(* Once stop() has returned the thread is gone and the connection closed.    *)
CleanStop ==
  cpc = "idle" /\ ~running /\ ~raised /\ ~gaveUp => ~connected /\ \A w \in Workers : ~Alive(w)

SendsFresh ==
  Len(sent') > Len(sent) /\ ~raised /\ ~gaveUp =>
    /\ sent'[Len(sent')] > epoch.backlog \/ sent'[Len(sent')] = epoch.trigger
    /\ \A i \in 1 .. Len(sent) : sent[i] < sent'[Len(sent')]

(* DR-2: of the chunks queued before a (re)connect only the one that made    *)
(* the run loop connect is sent on the new connection; and chunks reach the   *)
(* peer in the order the hub read them, also across stop and restart.         *)
BacklogDiscarded == [][SendsFresh]_vars

(* Every run loop ends after stop(), also when no pill reached it because    *)
(* the queue was full, or a reconnect cleared the pill away; and so the join   *)
(* of a stop() that was called returns.                                      *)
StopEnds ==
  /\ Stopping ~> cpc = "idle"
  /\ ~running ~> (running \/ \A w \in Workers : ~Alive(w))

(* While the destination runs, no chunk stays in its queue for ever, until it  *)
(* is started again (RestartServes, below, says what may happen then).          *)
QueueDrains ==
  \A n \in Chunk : (running /\ starts = 1 /\ InQueue(n)) ~> (~running \/ starts > 1 \/ ~InQueue(n))

(* The destination implements the abstract relay: no interleaving of the      *)
(* hub, the API caller and the run loops delivers a chunk that was not        *)
(* accepted, or one that was lost or delivered before.                        *)
Relay == INSTANCE LossyRelay WITH
  accepted  <- offered,
  pending   <- {n \in 1 .. offered : InFlight(n)},
  delivered <- sent
ImplementsRelay == Relay!Spec

(* What the documentation promises, and the code does not keep.               *)

(* broadcast_hub.py:247: a stopped destination "can be restarted": when       *)
(* start() has returned, a run loop is there to serve the queue.              *)
RestartServes == running /\ cpc = "idle" => \E w \in Workers : Alive(w)
=============================================================================
