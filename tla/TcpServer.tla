------------------------------ MODULE TcpServer ------------------------------
(***************************************************************************)
(* The TCP server destination (core/destinations/tcp_server_destination.py):  *)
(* its thread runs an asyncio loop of its own, with one task that broadcasts   *)
(* and one handler per client, and another thread calls start() and stop().    *)
(* Tasks take turns: one action is what a task does between two awaits.        *)
(* Chunks are numbered in the order the hub enqueues them, the None of stop()   *)
(* is 0.  The steps of stop() before its join are in Destination; a start()     *)
(* while the thread of an earlier one lives, or after it died, is left out.     *)
(***************************************************************************)
EXTENDS Integers, Sequences, SequencesExt, FiniteSets

CONSTANTS
  Clients,     (* the clients that may come, each once                         *)
  Nobody,      (* no client                                                   *)
  Limits,      (* the values of max_clients that are tried                     *)
  QueueSize,   (* capacity of _queue                                          *)
  MaxChunks,   (* bound: chunks the hub enqueues                               *)
  MaxStarts    (* bound: calls of start()                                     *)

ASSUME TcpServerAssumption ==
  /\ Nobody \notin Clients /\ Limits \subseteq Nat \ {0} /\ QueueSize \in Nat \ {0}
  /\ MaxChunks \in Nat /\ MaxStarts \in Nat

VARIABLES
  limit,       (* _max_clients                                                *)
  queue, running,  (* _queue, _running                                        *)
  loop,        (* the thread: off, bind, run, or in the finally of its run:     *)
               (* "close" the clients, "server"                               *)
  halt,        (* has another thread called loop.stop()?                        *)
  listening,   (* is _server bound?                                           *)
  task,        (* where the broadcast task is                                  *)
  item,        (* the chunk it has                                            *)
  todo,        (* the clients it has still to write to                          *)
  failed,      (* those it has to drop                                        *)
  awaited,     (* whom it waits for, in drain() or wait_closed()                 *)
  closing,     (* those that _close_all_clients has still to close, and whom it   *)
               (* waits for                                                   *)
  clients,     (* _clients                                                    *)
  handler,     (* where each client's handler is                               *)
  conn,        (* the connection: away, open, "stalled" with a full buffer, gone  *)
  closed,      (* the connections whose writer was closed here                   *)
  cpc,         (* where the caller of start() and stop() is                     *)
  early,       (* history: has a stop() gone on before its thread had ended?      *)
  starts, offered,
  counted,     (* what the last broadcast has added to stats.messages_sent        *)
  served,      (* history: the drain() calls of this broadcast that succeeded     *)
  churn,       (* history: did another task change _clients during this broadcast? *)
  written      (* history: the last chunk written to each client, 0 before one     *)

caller == <<limit, running, cpc, early, starts>>
hub    == <<offered>>
bcast  == <<task, item, todo, failed, awaited, served>>
peers  == <<conn, handler, churn>>
thread == <<loop, halt, listening, closing>>
stats  == <<counted, written>>
vars == <<queue, caller, hub, bcast, peers, clients, closed, thread, stats>>

Pill == 0
Live == loop \in {"run", "close", "server"}    (* the loop turns                *)
Broadcasting == task \in {"send", "drain", "drop", "dropped"}
Quiet(c) == conn[c] # "stalled"                (* its buffer empties: wait_closed() returns *)
Dead(c) == conn[c] = "gone" \/ c \in closed
Goes(from, to) == Live /\ task = from /\ task' = to

-----------------------------------------------------------------------------
(* Faulty forms of actions below: plausible bugs that the properties must      *)
(* exclude.  No specification uses them.                                     *)

EntersUnchecked(c) ==
  /\ Live /\ handler[c] = "new"
  /\ handler' = [handler EXCEPT ![c] = "reading"]
  /\ clients' = clients \cup {c} /\ churn' = Broadcasting
  /\ UNCHANGED <<queue, caller, hub, bcast, conn, closed, thread, stats>>

FailedKeptInSet ==
  /\ Live /\ task = "drop" /\ failed # {}
  /\ \E c \in failed :
       /\ awaited' = c /\ failed' = failed \ {c}
       /\ closed' = closed \cup {c}
  /\ task' = "dropped"
  /\ UNCHANGED <<queue, caller, hub, item, todo, served, peers, clients, thread, stats>>

UntilPill ==
  /\ Goes("check", "get") /\ loop = "run"
  /\ UNCHANGED <<queue, caller, hub, item, todo, failed, awaited, served, peers, clients, closed, thread, stats>>

-----------------------------------------------------------------------------
(* BaseDestination.enqueue(), start() and stop() in other threads.              *)

Enqueue ==
  /\ offered < MaxChunks /\ offered' = offered + 1
  /\ queue' = IF Len(queue) < QueueSize THEN Append(queue, offered + 1) ELSE queue
  /\ UNCHANGED <<caller, bcast, peers, clients, closed, thread, stats>>

Start ==
  /\ cpc = "idle" /\ ~running /\ loop = "off" /\ ~listening /\ starts < MaxStarts
  /\ running' = TRUE /\ starts' = starts + 1 /\ loop' = "bind" /\ halt' = FALSE
  /\ UNCHANGED <<limit, queue, cpc, early, hub, bcast, peers, clients, closed, listening, closing, stats>>

(* the flag and the None; queue.Full may leave the call                        *)
Stop ==
  /\ cpc = "idle" /\ running /\ running' = FALSE
  /\ \/ /\ queue' = Append(IF Len(queue) < QueueSize THEN queue ELSE Tail(queue), Pill)
        /\ cpc' = "join" /\ UNCHANGED early
     \/ /\ Len(queue) = QueueSize
        /\ early' = TRUE /\ UNCHANGED <<queue, cpc>>
  /\ UNCHANGED <<limit, starts, hub, bcast, peers, clients, closed, thread, stats>>

(* five seconds; then _disconnect() asks whether the loop is running           *)
Join ==
  /\ cpc = "join"
  /\ \/ loop = "off" /\ cpc' = "idle" /\ UNCHANGED early
     \/ loop # "off" /\ early' = TRUE /\ cpc' = IF Live THEN "halt" ELSE "idle"
  /\ UNCHANGED <<limit, queue, running, starts, hub, bcast, peers, clients, closed, thread, stats>>

(* call_soon_threadsafe(loop.stop), or an exception when the loop is gone by now *)
Halt ==
  /\ cpc = "halt" /\ cpc' = "idle"
  /\ halt' = Live
  /\ UNCHANGED <<limit, queue, running, early, starts, hub, bcast, peers, clients, closed, loop, listening, closing, stats>>

-----------------------------------------------------------------------------
(* _run_loop()                                                              *)

Finally == closing' = [left |-> clients, on |-> Nobody] /\ loop' = "close"

(* start_server(); a port that is taken ends the thread, with _running still set *)
Bind ==
  /\ loop = "bind"
  /\ \/ /\ loop' = "run" /\ listening' = TRUE /\ task' = "check" /\ UNCHANGED closing
     \/ /\ Finally /\ UNCHANGED <<listening, task>>
  /\ UNCHANGED <<queue, caller, hub, item, todo, failed, awaited, served, peers, clients, closed, halt, stats>>

(* run_until_complete() returns, or raises when the loop was stopped under it:   *)
(* the task is then still there and goes on as long as the loop turns            *)
Leave ==
  /\ loop = "run"
  /\ \/ task = "end" /\ task' = "off" /\ UNCHANGED halt
     \/ halt /\ halt' = FALSE /\ UNCHANGED task
  /\ Finally
  /\ UNCHANGED <<queue, caller, hub, item, todo, failed, awaited, served, peers, clients, closed, listening, stats>>

(* _close_all_clients(), one writer after the other                            *)
CloseClient ==
  /\ loop = "close" /\ closing.on = Nobody
  /\ \E c \in closing.left :
       /\ closing' = [left |-> closing.left \ {c}, on |-> c]
       /\ closed' = closed \cup {c}
  /\ UNCHANGED <<queue, caller, hub, bcast, peers, clients, loop, halt, listening, stats>>

ClientClosed ==
  /\ loop = "close" /\ closing.on # Nobody /\ Quiet(closing.on)
  /\ closing' = [closing EXCEPT !.on = Nobody]
  /\ UNCHANGED <<queue, caller, hub, bcast, peers, clients, closed, loop, halt, listening, stats>>

CloseServer ==
  /\ loop = "close" /\ closing.on = Nobody /\ closing.left = {}
  /\ clients' = {} /\ churn' = Broadcasting /\ listening' = FALSE /\ loop' = "server"
  /\ UNCHANGED <<queue, caller, hub, bcast, conn, handler, closed, halt, closing, stats>>

(* what is left of the tasks of a loop that has ended never runs again           *)
TasksGone ==
  /\ task' = "off" /\ item' = Pill /\ todo' = {} /\ failed' = {} /\ awaited' = Nobody /\ served' = 0
  /\ handler' = [c \in Clients |-> IF handler[c] = "away" THEN "away" ELSE "done"]

(* wait_closed() of the server (Python 3.12: when the connections are closed),   *)
(* and loop.close()                                                           *)
CloseLoop ==
  /\ loop = "server" /\ loop' = "off" /\ TasksGone
  /\ UNCHANGED <<queue, caller, hub, conn, churn, clients, closed, halt, listening, closing, stats>>

(* the loop is stopped under the finally: the exception ends the thread there    *)
Die ==
  /\ loop \in {"close", "server"} /\ halt
  /\ loop' = "off" /\ halt' = FALSE /\ TasksGone
  /\ UNCHANGED <<queue, caller, hub, conn, churn, clients, closed, listening, closing, stats>>

-----------------------------------------------------------------------------
(* _broadcast_loop() and _broadcast_to_clients()                              *)

Check ==
  /\ Goes("check", IF running THEN "get" ELSE "end")
  /\ counted' = 0
  /\ UNCHANGED <<queue, caller, hub, item, todo, failed, awaited, served, peers, clients, closed, thread, written>>

(* queue.get(timeout=1.0) in an executor thread                               *)
Get ==
  /\ \/ queue # <<>> /\ Goes("get", "got") /\ item' = Head(queue) /\ queue' = Tail(queue)
     \/ queue = <<>> /\ Goes("get", "check") /\ UNCHANGED <<item, queue>>
  /\ UNCHANGED <<caller, hub, todo, failed, awaited, served, peers, clients, closed, thread, stats>>

Broadcast ==
  /\ \/ /\ (item = Pill \/ clients = {}) /\ Goes("got", "check")
        /\ item' = Pill /\ UNCHANGED todo
     \/ /\ item # Pill /\ clients # {} /\ Goes("got", "send")
        /\ todo' = clients /\ UNCHANGED item
  /\ UNCHANGED <<queue, caller, hub, failed, awaited, served, peers, clients, closed, thread, stats>>

(* write(), and the drain() that is awaited; a closed transport takes no more     *)
Write ==
  /\ Goes("send", "drain")
  /\ \E c \in todo :
       /\ todo' = todo \ {c} /\ awaited' = c
       /\ written' = IF Dead(c) THEN written ELSE [written EXCEPT ![c] = item]
  /\ UNCHANGED <<queue, caller, hub, item, failed, served, peers, clients, closed, thread, counted>>

(* a stalled client costs five seconds                                        *)
Drain ==
  /\ Goes("drain", IF todo = {} THEN "drop" ELSE "send")
  /\ \/ conn[awaited] = "open" /\ written[awaited] = item
        /\ served' = served + 1 /\ UNCHANGED failed
     \/ (conn[awaited] = "stalled" \/ Dead(awaited))
        /\ failed' = failed \cup {awaited} /\ UNCHANGED served
  /\ awaited' = Nobody
  /\ UNCHANGED <<queue, caller, hub, item, todo, peers, clients, closed, thread, stats>>

Drop ==
  /\ Goes("drop", "dropped")
  /\ \E c \in failed :
       /\ failed' = failed \ {c} /\ awaited' = c
       /\ clients' = clients \ {c} /\ closed' = closed \cup {c}
  /\ UNCHANGED <<queue, caller, hub, item, todo, served, peers, thread, stats>>

(* wait_closed() has no time limit                                            *)
Dropped ==
  /\ Goes("dropped", "drop") /\ Quiet(awaited) /\ awaited' = Nobody
  /\ UNCHANGED <<queue, caller, hub, item, todo, failed, served, peers, clients, closed, thread, stats>>

(* the statistics count the clients that are there by now                      *)
Count ==
  /\ failed = {} /\ Goes("drop", "check")
  /\ counted' = Cardinality(clients)
  /\ item' = Pill /\ served' = 0 /\ churn' = FALSE
  /\ UNCHANGED <<queue, caller, hub, todo, failed, awaited, conn, handler, clients, closed, thread, written>>

-----------------------------------------------------------------------------
(* _handle_client()                                                          *)

(* the limit, the set and the first test of _running, without an await between   *)
Enter(c) ==
  /\ Live /\ handler[c] = "new"
  /\ \/ /\ running /\ Cardinality(clients) < limit
        /\ clients' = clients \cup {c} /\ churn' = Broadcasting
        /\ handler' = [handler EXCEPT ![c] = "reading"] /\ UNCHANGED closed
     \/ /\ ~(running /\ Cardinality(clients) < limit)
        /\ handler' = [handler EXCEPT ![c] = "closing"]
        /\ closed' = closed \cup {c} /\ UNCHANGED <<clients, churn>>
  /\ UNCHANGED <<queue, caller, hub, bcast, conn, thread, stats>>

(* the reader sees the end, or data when the destination is stopping             *)
Exit(c) ==
  /\ Live /\ handler[c] = "reading"
  /\ \/ conn[c] = "gone" \/ (c \in closed /\ Quiet(c)) \/ (~running /\ conn[c] = "open")
  /\ churn' = (churn \/ (Broadcasting /\ c \in clients))
  /\ clients' = clients \ {c} /\ closed' = closed \cup {c}
  /\ handler' = [handler EXCEPT ![c] = "closing"]
  /\ UNCHANGED <<queue, caller, hub, bcast, conn, thread, stats>>

Exited(c) ==
  /\ Live /\ handler[c] = "closing" /\ Quiet(c)
  /\ handler' = [handler EXCEPT ![c] = "done"]
  /\ UNCHANGED <<queue, caller, hub, bcast, conn, churn, clients, closed, thread, stats>>

-----------------------------------------------------------------------------
(* The clients.  A connection that was closed here ends when its buffer is empty. *)

Connect(c) ==
  /\ listening /\ Live /\ conn[c] = "away"
  /\ conn' = [conn EXCEPT ![c] = "open"] /\ handler' = [handler EXCEPT ![c] = "new"]
  /\ UNCHANGED <<queue, caller, hub, bcast, churn, clients, closed, thread, stats>>

Stall(c) ==
  /\ conn[c] = "open" /\ written[c] # 0 /\ c \notin closed /\ conn' = [conn EXCEPT ![c] = "stalled"]
  /\ UNCHANGED <<queue, caller, hub, bcast, handler, churn, clients, closed, thread, stats>>

StallEnds(c) ==
  /\ conn[c] = "stalled"
  /\ \E state \in {"open", "gone"} : conn' = [conn EXCEPT ![c] = state]
  /\ UNCHANGED <<queue, caller, hub, bcast, handler, churn, clients, closed, thread, stats>>

Hangup(c) ==
  /\ conn[c] = "open" /\ c \notin closed /\ conn' = [conn EXCEPT ![c] = "gone"]
  /\ UNCHANGED <<queue, caller, hub, bcast, handler, churn, clients, closed, thread, stats>>

-----------------------------------------------------------------------------
Init ==
  /\ limit \in Limits
  /\ queue = <<>> /\ running = FALSE
  /\ loop = "off" /\ halt = FALSE /\ listening = FALSE /\ closing = [left |-> {}, on |-> Nobody]
  /\ task = "off" /\ item = Pill /\ todo = {} /\ failed = {} /\ awaited = Nobody /\ served = 0
  /\ clients = {} /\ closed = {} /\ churn = FALSE
  /\ handler = [c \in Clients |-> "away"] /\ conn = [c \in Clients |-> "away"]
  /\ cpc = "idle" /\ early = FALSE /\ starts = 0 /\ offered = 0
  /\ counted = 0 /\ written = [c \in Clients |-> 0]

RunLoop == Bind \/ Leave \/ CloseClient \/ ClientClosed \/ CloseServer \/ CloseLoop \/ Die
Task == Check \/ Get \/ Broadcast \/ Write \/ Drain \/ Drop \/ Dropped \/ Count
Handler(c) == Enter(c) \/ Exit(c) \/ Exited(c)

Next ==
  \/ Enqueue \/ Start \/ Stop \/ Join \/ Halt \/ RunLoop \/ Task
  \/ \E c \in Clients : Handler(c) \/ Connect(c) \/ Stall(c) \/ StallEnds(c) \/ Hangup(c)

Spec == Init /\ [][Next]_vars

(* The thread and the tasks of its loop run, and a stop() goes on.  That a client *)
(* does not stall for ever is an assumption: wait_closed() has no time limit.     *)
FairSpec ==
  /\ Spec
  /\ WF_vars(RunLoop) /\ WF_vars(Task) /\ WF_vars(Join \/ Halt)
  /\ \A c \in Clients : WF_vars(StallEnds(c))

-----------------------------------------------------------------------------
(* Properties.                                                               *)

(* Never more clients than max_clients; each one in the set has a handler that    *)
(* is to take it out again, so no slot is lost; and when stop() has returned      *)
(* after its thread, the set is empty, the port is free and no handler reads.     *)
ClientsHandled ==
  /\ Cardinality(clients) <= limit
  /\ Live => \A c \in clients : handler[c] = "reading"
  /\ cpc = "idle" /\ ~running /\ ~early =>
       loop = "off" /\ clients = {} /\ ~listening /\ \A c \in Clients : handler[c] \in {"away", "done"}

(* A chunk is written once to a client, and after those before it; and unless     *)
(* another task changed the set during the broadcast, every client that is still    *)
(* in the set was written to, and messages_sent grows by the writes that succeeded. *)
Fairly ==
  /\ \A c \in Clients : written'[c] # written[c] => written[c] < item
  /\ task = "drop" /\ task' = "check" /\ ~churn =>
       /\ counted' = served
       /\ \A c \in clients : item = written[c]
BroadcastFair == [][Fairly]_vars

(* The thread ends after stop(); and while the server listens the broadcast task   *)
(* comes back for the next chunk, if clients that stall come back or go away.     *)
Progress ==
  /\ ~running ~> (running \/ loop = "off")
  /\ (running /\ listening) ~> (~running \/ task = "get")
=============================================================================
