---------------------------- MODULE TcpServerProofs ----------------------------
(***************************************************************************)
(* Theorems about TcpServer for every set of clients, every limit and every     *)
(* number of chunks and of starts (the run of TLC starts the server once).      *)
(***************************************************************************)
EXTENDS TcpServer, FiniteSetTheorems, TLAPS

TypeOK ==
  /\ limit \in Nat \ {0} /\ running \in BOOLEAN /\ halt \in BOOLEAN /\ listening \in BOOLEAN
  /\ early \in BOOLEAN /\ churn \in BOOLEAN
  /\ loop \in {"off", "bind", "run", "close", "server"} /\ cpc \in {"idle", "join", "halt"}
  /\ task \in {"off", "check", "get", "got", "send", "drain", "drop", "dropped", "end"}
  /\ handler \in [Clients -> {"away", "new", "reading", "closing", "done"}]
  /\ conn \in [Clients -> {"away", "open", "stalled", "gone"}]
  /\ offered \in Nat /\ item \in Nat /\ served \in Nat
  /\ queue \in Seq(Nat) /\ Len(queue) <= QueueSize
  /\ written \in [Clients -> Nat]
  /\ IsFiniteSet(clients) /\ clients \subseteq Clients
  /\ todo \subseteq Clients /\ failed \subseteq Clients
  /\ task \in {"drain", "dropped"} => awaited \in Clients

(* Why each client in the set has a handler.  A handler that enters while the       *)
(* destination runs sees a loop that listens: the finally of the run comes after a    *)
(* stop(), or after a bind that failed, when no client can have come.               *)
NoHandler == \A c \in Clients : handler[c] \in {"away", "done"}
Handled ==
  /\ Cardinality(clients) <= limit
  /\ Live => \A c \in clients : handler[c] = "reading"
  /\ ~listening => clients = {}
  /\ loop = "off" => NoHandler
  /\ loop = "bind" => NoHandler /\ ~listening
  /\ loop = "run" => listening
  /\ loop = "server" => ~listening
  /\ loop \in {"close", "server"} /\ running => ~listening /\ NoHandler
  /\ loop \in {"off", "bind"} => task = "off"
  /\ halt \/ cpc # "idle" \/ task = "end" => ~running
(* A connection that has not come has no handler.                              *)
Known == \A c \in Clients : conn[c] = "away" => handler[c] = "away"

(* What stop() has waited for, unless one went on before its thread had ended.       *)
Waited ==
  ~early =>
    /\ ~halt /\ cpc # "halt"
    /\ loop = "off" => ~listening
    /\ cpc = "idle" /\ ~running => loop = "off"

(* Why a client is written a chunk once, and in order: what is queued is newer than   *)
(* the chunk in hand, and that is newer than what the clients still to serve got.     *)
Queued ==
  \A i \in 1 .. Len(queue) : queue[i] # Pill =>
     /\ queue[i] <= offered /\ item < queue[i] /\ \A c \in Clients : written[c] < queue[i]
     /\ \A j \in 1 .. Len(queue) : i < j /\ queue[j] # Pill => queue[i] < queue[j]
InHand ==
  /\ item <= offered /\ \A c \in Clients : written[c] <= offered
  /\ task = "got" /\ item # Pill => \A c \in Clients : written[c] < item
  /\ Broadcasting => item # Pill /\ \A c \in todo : written[c] < item
  /\ ~Broadcasting => todo = {} /\ failed = {} /\ served = 0
  /\ task \in {"drop", "dropped"} => todo = {}
  /\ ~Broadcasting /\ task # "got" => item = Pill
Newer == Queued /\ InHand

(* The clients served so far by a broadcast during which the set was left alone.      *)
Serving == clients \ (todo \cup failed \cup (IF task = "drain" THEN {awaited} ELSE {}))
Counted ==
  Broadcasting /\ ~churn =>
    /\ todo \subseteq clients /\ failed \subseteq clients /\ todo \cap failed = {}
    /\ task = "drain" => awaited \in clients /\ awaited \notin todo \cup failed
    /\ served = Cardinality(Serving)
    /\ \A c \in Serving : written[c] = item

-----------------------------------------------------------------------------
USE DEF Pill

(* Lemmas about sequences, for the queue.                                       *)
LEMMA AppendFacts ==
  ASSUME NEW q \in Seq(Nat), NEW x \in Nat
  PROVE  /\ Append(q, x) \in Seq(Nat) /\ Len(q) \in Nat /\ Len(Append(q, x)) = Len(q) + 1
         /\ \A i \in 1 .. Len(q) : Append(q, x)[i] = q[i]
         /\ Append(q, x)[Len(q) + 1] = x
         /\ \A i \in 1 .. Len(Append(q, x)) : i \in 1 .. Len(q) \/ i = Len(q) + 1
  <1>1. Len(q) \in Nat /\ Len(Append(q, x)) = Len(q) + 1
    OBVIOUS
  <1> QED  BY <1>1

LEMMA TailFacts ==
  ASSUME NEW q \in Seq(Nat), q # <<>>
  PROVE  /\ Tail(q) \in Seq(Nat) /\ Len(q) \in Nat \ {0} /\ Len(Tail(q)) = Len(q) - 1
         /\ \A i \in 1 .. Len(Tail(q)) : Tail(q)[i] = q[i + 1] /\ i + 1 \in 1 .. Len(q)
         /\ Head(q) = q[1] /\ q[1] \in Nat /\ 1 \in 1 .. Len(q)
  <1>1. Tail(q) \in Seq(Nat) /\ Len(q) \in Nat \ {0} /\ Len(Tail(q)) = Len(q) - 1
    OBVIOUS
  <1>2. \A i \in 1 .. Len(Tail(q)) : i + 1 \in 1 .. Len(q)
    BY <1>1
  <1> QED  BY <1>1, <1>2

(* What a step does to the queue: the hub adds a chunk, stop() a pill in the place    *)
(* of the oldest if it must, and the broadcast task takes the oldest.               *)
WithRoom == IF Len(queue) < QueueSize THEN queue ELSE Tail(queue)

LEMMA TypeInit == Init => TypeOK
  <1> SUFFICES ASSUME Init PROVE TypeOK
    OBVIOUS
  <1>1. queue \in Seq(Nat) /\ Len(queue) = 0 /\ Len(queue) <= QueueSize
    BY TcpServerAssumption DEF Init
  <1>2. limit \in Nat \ {0}
    BY TcpServerAssumption DEF Init
  <1>3. IsFiniteSet(clients)
    BY FS_EmptySet DEF Init
  <1> QED  BY <1>1, <1>2, <1>3 DEF Init, TypeOK

LEMMA QueueStep == TypeOK /\ [Next]_vars => queue' \in Seq(Nat) /\ Len(queue') <= QueueSize
  <1> SUFFICES ASSUME TypeOK, [Next]_vars PROVE queue' \in Seq(Nat) /\ Len(queue') <= QueueSize
    OBVIOUS
  <1>1. CASE queue' = queue
    BY <1>1 DEF TypeOK
  <1>2. CASE Enqueue
    BY <1>2, AppendFacts, TcpServerAssumption DEF Enqueue, TypeOK
  <1>3. CASE Stop
    <2>1. WithRoom \in Seq(Nat) /\ Len(WithRoom) < QueueSize
      <3>1. CASE Len(queue) < QueueSize
        BY <3>1 DEF WithRoom, TypeOK
      <3>2. CASE ~(Len(queue) < QueueSize)
        <4>1. queue # <<>> /\ Len(queue) = QueueSize /\ WithRoom = Tail(queue)
          BY <3>2, TcpServerAssumption DEF TypeOK, WithRoom
        <4> QED  BY <4>1, TailFacts, TcpServerAssumption DEF TypeOK
      <3> QED  BY <3>1, <3>2
    <2>2. queue' = Append(WithRoom, Pill) \/ queue' = queue
      BY <1>3 DEF Stop, WithRoom
    <2> QED  BY <1>1, <2>1, <2>2, AppendFacts, TcpServerAssumption
  <1>4. CASE Get /\ queue # <<>>
    <2>1. queue' = Tail(queue) /\ queue # <<>> /\ queue \in Seq(Nat) /\ Len(queue) <= QueueSize
      BY <1>4 DEF Get, TypeOK
    <2>2. Tail(queue) \in Seq(Nat) /\ Len(queue) \in Nat /\ Len(Tail(queue)) = Len(queue) - 1
      BY <2>1, TailFacts
    <2> QED  BY <2>1, <2>2, TcpServerAssumption
  <1> QED  BY <1>1, <1>2, <1>3, <1>4 DEF Next, vars, Start, Join, Halt, RunLoop, Bind, Leave, CloseClient, ClientClosed,
              CloseServer, CloseLoop, Die, Task, Check, Get, Broadcast, Write, Drain, Drop, Dropped, Count,
              Handler, Enter, Exit, Exited, Connect, Stall, StallEnds, Hangup

LEMMA ServeStep ==
  ASSUME TypeOK, [Next]_vars
  PROVE  /\ task' \in {"off", "check", "get", "got", "send", "drain", "drop", "dropped", "end"}
         /\ task' \in {"drain", "dropped"} => awaited' \in Clients
         /\ item' \in Nat /\ served' \in Nat /\ offered' \in Nat /\ written' \in [Clients -> Nat]
  <1>1. CASE Task
    <2>1. CASE Check \/ Broadcast \/ Dropped \/ Count
      BY <2>1 DEF Check, Broadcast, Dropped, Count, Goes, hub, stats, TypeOK
    <2>2. CASE Get
      <3>1. item' \in Nat
        BY <2>2, TailFacts DEF Get, TypeOK
      <3> QED  BY <2>2, <3>1 DEF Get, Goes, hub, stats, TypeOK
    <2>3. CASE Write
      <3>1. written' \in [Clients -> Nat]
        BY <2>3 DEF Write, TypeOK
      <3> QED  BY <2>3, <3>1 DEF Write, Goes, hub, TypeOK
    <2>4. CASE Drain
      BY <2>4 DEF Drain, Goes, hub, stats, TypeOK
    <2>5. CASE Drop
      BY <2>5 DEF Drop, Goes, hub, stats, TypeOK
    <2> QED  BY <1>1, <2>1, <2>2, <2>3, <2>4, <2>5 DEF Task
  <1>2. CASE CloseLoop \/ Die
    BY <1>2 DEF CloseLoop, Die, TasksGone, hub, stats, TypeOK
  <1>3. CASE Bind \/ Leave
    BY <1>3 DEF Bind, Leave, hub, stats, TypeOK
  <1>4. CASE UNCHANGED bcast /\ UNCHANGED written /\ offered' \in Nat
    BY <1>4 DEF bcast, TypeOK
  <1> QED  BY <1>1, <1>2, <1>3, <1>4 DEF TypeOK, Next, vars, bcast, hub, stats, Enqueue, Start, Stop, Join, Halt, RunLoop, CloseClient,
              ClientClosed, CloseServer, Handler, Enter, Exit, Exited, Connect, Stall, StallEnds, Hangup

LEMMA ControlStep ==
  ASSUME TypeOK, [Next]_vars
  PROVE  /\ limit' = limit /\ running' \in BOOLEAN /\ halt' \in BOOLEAN /\ listening' \in BOOLEAN
         /\ early' \in BOOLEAN /\ churn' \in BOOLEAN
         /\ loop' \in {"off", "bind", "run", "close", "server"} /\ cpc' \in {"idle", "join", "halt"}
         /\ handler' \in [Clients -> {"away", "new", "reading", "closing", "done"}]
         /\ conn' \in [Clients -> {"away", "open", "stalled", "gone"}]
  <1>0. Live \in BOOLEAN /\ Broadcasting \in BOOLEAN
    BY DEF Live, Broadcasting
  <1>1. CASE Enqueue \/ Start \/ Stop \/ Join \/ Halt
    <2>1. CASE Enqueue
      BY <2>1 DEF Enqueue, caller, peers, thread, TypeOK
    <2>2. CASE Start
      BY <2>2 DEF Start, peers, TypeOK
    <2>3. CASE Stop
      BY <2>3 DEF Stop, peers, thread, TypeOK
    <2>4. CASE Join
      BY <2>4 DEF Join, peers, thread, TypeOK
    <2>5. CASE Halt
      BY <1>0, <2>5 DEF Halt, peers, TypeOK
    <2> QED  BY <1>1, <2>1, <2>2, <2>3, <2>4, <2>5
  <1>2. CASE RunLoop
    <2>1. CASE Bind
      BY <2>1 DEF Bind, Finally, caller, peers, TypeOK
    <2>2. CASE CloseLoop \/ Die
      BY <2>2 DEF CloseLoop, Die, TasksGone, caller, TypeOK
    <2>3. CASE Leave
      BY <2>3 DEF Leave, Finally, caller, peers, TypeOK
    <2>4. CASE CloseClient \/ ClientClosed
      BY <2>4 DEF CloseClient, ClientClosed, caller, peers, TypeOK
    <2>5. CASE CloseServer
      BY <1>0, <2>5 DEF CloseServer, caller, TypeOK
    <2> QED  BY <1>2, <2>1, <2>2, <2>3, <2>4, <2>5 DEF RunLoop
  <1>3. CASE Task
    <2>1. UNCHANGED <<caller, thread, handler, conn>> /\ (churn' = churn \/ churn' = FALSE)
      BY <1>3 DEF Task, Check, Get, Broadcast, Write, Drain, Drop, Dropped, Count, peers
    <2> QED  BY <2>1 DEF caller, thread, TypeOK
  <1>4. ASSUME NEW c \in Clients, Handler(c) \/ Connect(c) \/ Stall(c) \/ StallEnds(c) \/ Hangup(c)
        PROVE  /\ UNCHANGED <<caller, thread>> /\ churn' \in BOOLEAN
               /\ handler' \in [Clients -> {"away", "new", "reading", "closing", "done"}]
               /\ conn' \in [Clients -> {"away", "open", "stalled", "gone"}]
    <2>1. CASE Enter(c)
      BY <1>0, <2>1 DEF Enter, TypeOK
    <2>2. CASE Exit(c)
      <3>1. churn' \in BOOLEAN
        BY <2>2 DEF Exit
      <3> QED  BY <2>2, <3>1 DEF Exit, TypeOK
    <2>3. CASE Exited(c) \/ Connect(c) \/ Stall(c) \/ StallEnds(c) \/ Hangup(c)
      BY <2>3 DEF Exited, Connect, Stall, StallEnds, Hangup, TypeOK
    <2> QED  BY <1>4, <2>1, <2>2, <2>3 DEF Handler
  <1>5. CASE UNCHANGED vars
    BY <1>5 DEF vars, caller, peers, thread, TypeOK
  <1> QED  BY <1>1, <1>2, <1>3, <1>4, <1>5 DEF Next, TypeOK, caller, thread

LEMMA ClientsStep ==
  TypeOK /\ [Next]_vars => IsFiniteSet(clients') /\ clients' \subseteq Clients /\ todo' \subseteq Clients /\ failed' \subseteq Clients
  <1> SUFFICES ASSUME TypeOK, [Next]_vars
               PROVE  IsFiniteSet(clients') /\ clients' \subseteq Clients /\ todo' \subseteq Clients /\ failed' \subseteq Clients
    OBVIOUS
  <1>1. /\ \/ clients' = clients \/ clients' = {}
           \/ \E c \in Clients : clients' = clients \cup {c} \/ clients' = clients \ {c}
           \/ \E c \in failed : clients' = clients \ {c}
        /\ todo' = todo \/ todo' = {} \/ todo' = clients \/ \E c \in todo : todo' = todo \ {c}
    BY DEF Next, vars, bcast, Enqueue, Start, Stop, Join, Halt, RunLoop, Bind, Leave, CloseClient, ClientClosed,
              CloseServer, CloseLoop, Die, TasksGone, Task, Check, Get, Broadcast, Write, Drain, Drop, Dropped, Count,
              Handler, Enter, Exit, Exited, Connect, Stall, StallEnds, Hangup
  <1>2. failed' = failed \/ failed' = {} \/ (\E c \in failed : failed' = failed \ {c}) \/ Drain
    BY DEF Next, vars, bcast, Enqueue, Start, Stop, Join, Halt, RunLoop, Bind, Leave, CloseClient, ClientClosed,
              CloseServer, CloseLoop, Die, TasksGone, Task, Check, Get, Broadcast, Write, Drop, Dropped, Count,
              Handler, Enter, Exit, Exited, Connect, Stall, StallEnds, Hangup
  <1>3. IsFiniteSet(clients')
    <2>1. \A c : IsFiniteSet(clients \cup {c}) /\ IsFiniteSet(clients \ {c})
      BY FS_AddElement, FS_RemoveElement DEF TypeOK
    <2> QED  BY <1>1, <2>1, FS_EmptySet DEF TypeOK
  <1>4. clients' \subseteq Clients /\ todo' \subseteq Clients
    BY <1>1 DEF TypeOK
  <1>5. failed' \subseteq Clients
    <2>1. Drain => failed' \subseteq failed \cup {awaited} /\ awaited \in Clients
      BY DEF TypeOK, Drain, Goes
    <2> QED  BY <1>2, <2>1 DEF TypeOK
  <1> QED  BY <1>3, <1>4, <1>5

LEMMA TypeStep == TypeOK /\ [Next]_vars => TypeOK'
  BY QueueStep, ServeStep, ControlStep, ClientsStep DEF TypeOK

-----------------------------------------------------------------------------
LEMMA HandledInit == Init => Known /\ Handled /\ Waited
  <1> SUFFICES ASSUME Init PROVE Known /\ Handled /\ Waited
    OBVIOUS
  <1>1. Cardinality(clients) = 0 /\ limit \in Nat
    BY FS_EmptySet, TcpServerAssumption DEF Init
  <1> QED  BY <1>1 DEF Init, Known, Handled, Waited, NoHandler, Live

LEMMA LimitKept ==
  ASSUME TypeOK, Handled, [Next]_vars
  PROVE  Cardinality(clients') <= limit'
  <1>0. IsFiniteSet(clients) /\ Cardinality(clients) \in Nat /\ Cardinality(clients) <= limit /\ limit \in Nat /\ limit' = limit
    BY FS_CardinalityType, ControlStep DEF TypeOK, Handled
  <1>1. CASE clients' \subseteq clients
    BY <1>0, <1>1, FS_Subset, FS_CardinalityType
  <1>2. CASE \E c \in Clients : clients' = clients \cup {c} /\ Cardinality(clients) < limit
    BY <1>0, <1>2, FS_AddElement
  <1>3. \/ clients' = clients \/ clients' = {}
        \/ \E c : clients' = clients \ {c}
        \/ \E c \in Clients : clients' = clients \cup {c} /\ Cardinality(clients) < limit
    BY DEF Next, vars, peers, bcast, Enqueue, Start, Stop, Join, Halt, RunLoop, Bind, Leave, CloseClient, ClientClosed,
              CloseServer, CloseLoop, Die, Task, Check, Get, Broadcast, Write, Drain, Drop, Dropped, Count,
              Handler, Enter, Exit, Exited, Connect, Stall, StallEnds, Hangup
  <1> QED  BY <1>1, <1>2, <1>3

LEMMA KnownStep == TypeOK /\ Known /\ [Next]_vars => Known'
  <1> SUFFICES ASSUME TypeOK, Known, [Next]_vars, NEW c \in Clients, conn'[c] = "away" PROVE handler'[c] = "away"
    BY DEF Known
  <1>1. CASE UNCHANGED peers \/ UNCHANGED <<conn, handler>>
    BY <1>1 DEF peers, Known
  <1>2. CASE CloseLoop \/ Die
    BY <1>2 DEF CloseLoop, Die, TasksGone, Known
  <1>3. ASSUME NEW d \in Clients, Handler(d) \/ Connect(d) \/ Stall(d) \/ StallEnds(d) \/ Hangup(d)
        PROVE  handler'[c] = "away"
    <2>1. CASE Handler(d)
      BY <1>3, <2>1 DEF Handler, Enter, Exit, Exited, Known, TypeOK
    <2>2. CASE Connect(d)
      BY <1>3, <2>2 DEF Connect, Known, TypeOK
    <2>3. CASE Stall(d) \/ StallEnds(d) \/ Hangup(d)
      BY <1>3, <2>3 DEF Stall, StallEnds, Hangup, Known, TypeOK
    <2> QED  BY <1>3, <2>1, <2>2, <2>3
  <1> QED  BY <1>1, <1>2, <1>3 DEF Next, vars, Enqueue, Start, Stop, Join, Halt, RunLoop, Bind, Leave, CloseClient, ClientClosed,
              CloseServer, Task, Check, Get, Broadcast, Write, Drain, Drop, Dropped, Count, peers

LEMMA HandledStep == TypeOK /\ Known /\ Handled /\ [Next]_vars => Handled'
  <1> SUFFICES ASSUME TypeOK, Known, Handled, [Next]_vars PROVE Handled'
    OBVIOUS
  <1>l. Cardinality(clients') <= limit'
    BY LimitKept
  <1> USE DEF Live, NoHandler, caller, peers, thread
  <1>1. CASE Enqueue \/ UNCHANGED vars
    BY <1>1, <1>l DEF Enqueue, vars, bcast, Handled
  <1>2. CASE Start
    BY <1>2, <1>l DEF Start, bcast, Handled
  <1>3. CASE Stop
    BY <1>3, <1>l DEF Stop, bcast, Handled
  <1>4. CASE Join
    BY <1>4, <1>l DEF Join, bcast, Handled
  <1>5. CASE Halt
    BY <1>5, <1>l DEF Halt, bcast, Handled
  <1>6. CASE Bind
    BY <1>6, <1>l DEF Bind, Finally, Handled, TypeOK
  <1>7. CASE Leave
    BY <1>7, <1>l DEF Leave, Finally, Handled
  <1>8. CASE CloseClient \/ ClientClosed
    BY <1>8, <1>l DEF CloseClient, ClientClosed, bcast, Handled
  <1>9. CASE CloseServer
    BY <1>9, <1>l DEF CloseServer, bcast, Handled
  <1>10. CASE CloseLoop
    BY <1>10, <1>l DEF CloseLoop, TasksGone, Handled, TypeOK
  <1>11. CASE Die
    BY <1>11, <1>l DEF Die, TasksGone, Handled, TypeOK
  <1>12. CASE Task
    <2>1. /\ UNCHANGED <<caller, thread, handler>> /\ Live
          /\ clients' \subseteq clients /\ (task' = "end" => ~running)
      BY <1>12 DEF Task, Check, Get, Broadcast, Write, Drain, Drop, Dropped, Count, Goes, Handled
    <2> QED  BY <1>l, <2>1 DEF Handled
  <1>13. ASSUME NEW c \in Clients, Enter(c)
         PROVE  Handled'
    <2>1. ~NoHandler /\ Live /\ UNCHANGED <<caller, thread, task>>
      BY <1>13 DEF Enter, bcast
    <2>2. CASE running
      <3>1. loop = "run"
        BY <2>1, <2>2 DEF Handled
      <3>2. \A d \in clients' : handler'[d] = "reading"
        BY <1>13, <3>1 DEF Enter, Handled, TypeOK
      <3> QED  BY <1>l, <2>1, <3>1, <3>2 DEF Handled
    <2>3. CASE ~running
      <3>1. clients' = clients /\ \A d \in Clients : d # c => handler'[d] = handler[d]
        BY <1>13, <2>3 DEF Enter, TypeOK
      <3>2. c \notin clients
        BY <1>13, <2>1 DEF Enter, Handled
      <3> QED  BY <1>l, <2>1, <2>3, <3>1, <3>2 DEF Handled, TypeOK
    <2> QED  BY <2>2, <2>3
  <1>14. ASSUME NEW c \in Clients, Exit(c)
         PROVE  Handled'
    <2>1. ~NoHandler /\ Live /\ UNCHANGED <<caller, thread, task>>
      BY <1>14 DEF Exit, bcast
    <2>2. clients' = clients \ {c} /\ \A d \in Clients : d # c => handler'[d] = handler[d]
      BY <1>14 DEF Exit, TypeOK
    <2> QED  BY <1>l, <2>1, <2>2 DEF Handled, TypeOK
  <1>15. ASSUME NEW c \in Clients, Exited(c)
         PROVE  Handled'
    <2>1. ~NoHandler /\ Live /\ UNCHANGED <<caller, thread, task, clients>> /\ c \notin clients
      BY <1>15 DEF Exited, bcast, Handled
    <2>2. \A d \in Clients : d # c => handler'[d] = handler[d]
      BY <1>15 DEF Exited, TypeOK
    <2> QED  BY <1>l, <2>1, <2>2 DEF Handled, TypeOK
  <1>16. ASSUME NEW c \in Clients, Connect(c)
         PROVE  Handled'
    <2>1. listening /\ Live /\ UNCHANGED <<caller, thread, task, clients>>
      BY <1>16 DEF Connect, bcast
    <2>2. \A d \in Clients : d # c => handler'[d] = handler[d]
      BY <1>16 DEF Connect, TypeOK
    <2>3. c \notin clients
      BY <1>16, <2>1 DEF Handled, Known, Connect
    <2>4. loop = "run" \/ ~running
      BY <2>1 DEF Handled
    <2> QED  BY <1>l, <2>1, <2>2, <2>3, <2>4 DEF Handled, TypeOK
  <1>17. ASSUME NEW c \in Clients, Stall(c) \/ StallEnds(c) \/ Hangup(c)
         PROVE  Handled'
    BY <1>17, <1>l DEF Stall, StallEnds, Hangup, bcast, Handled
  <1> QED  BY <1>1, <1>2, <1>3, <1>4, <1>5, <1>6, <1>7, <1>8, <1>9, <1>10, <1>11, <1>12, <1>13, <1>14, <1>15,
              <1>16, <1>17 DEF Next, RunLoop, Handler

LEMMA WaitedStep == TypeOK /\ Handled /\ Waited /\ [Next]_vars => Waited'
  <1> SUFFICES ASSUME TypeOK, Handled, Waited, [Next]_vars PROVE Waited'
    OBVIOUS
  <1> USE DEF Live, caller, thread, Waited
  <1>1. CASE Enqueue \/ UNCHANGED vars
    BY <1>1 DEF Enqueue, vars
  <1>2. CASE Start \/ Stop \/ Join \/ Halt
    BY <1>2 DEF Start, Stop, Join, Halt
  <1>3. CASE Bind \/ Leave \/ Die
    BY <1>3 DEF Bind, Leave, Die, Finally, Handled
  <1>4. CASE CloseClient \/ ClientClosed \/ CloseServer \/ CloseLoop
    BY <1>4 DEF CloseClient, ClientClosed, CloseServer, CloseLoop, Handled
  <1>5. CASE Task
    BY <1>5 DEF Task, Check, Get, Broadcast, Write, Drain, Drop, Dropped, Count
  <1>6. ASSUME NEW c \in Clients, Handler(c) \/ Connect(c) \/ Stall(c) \/ StallEnds(c) \/ Hangup(c)
        PROVE  Waited'
    BY <1>6 DEF Handler, Enter, Exit, Exited, Connect, Stall, StallEnds, Hangup
  <1> QED  BY <1>1, <1>2, <1>3, <1>4, <1>5, <1>6 DEF Next, RunLoop

(* ClientsHandled, for every limit, set of clients and number of starts: the set never  *)
(* outgrows the limit, every client in it has a handler that will take it out, and      *)
(* unless a stop() went on before its thread had ended, a stopped server holds no         *)
(* client, no port and no handler that reads.                                     *)
THEOREM EveryClientHandled == Spec => []ClientsHandled
  <1> DEFINE IInv == TypeOK /\ Known /\ Handled /\ Waited
  <1>1. Init => IInv
    BY TypeInit, HandledInit
  <1>2. IInv /\ [Next]_vars => IInv'
    BY TypeStep, KnownStep, HandledStep, WaitedStep
  <1>3. IInv => ClientsHandled
    BY DEF Handled, Waited, NoHandler, ClientsHandled
  <1> QED  BY <1>1, <1>2, <1>3, PTL DEF Spec

-----------------------------------------------------------------------------
LEMMA NewerInit == Init => Newer /\ Counted
  <1> SUFFICES ASSUME Init PROVE Newer /\ Counted
    OBVIOUS
  <1>1. Len(queue) = 0 /\ 1 .. Len(queue) = {}
    BY DEF Init
  <1> QED  BY <1>1 DEF Init, Newer, Queued, InHand, Counted, Broadcasting

(* The steps that change what Newer speaks of.                                  *)
NewerVars == <<queue, offered, item, task, todo, failed, served, written>>

LEMMA NewerKinds ==
  ASSUME [Next]_vars
  PROVE  \/ Enqueue \/ Stop \/ Bind \/ Leave \/ CloseLoop \/ Die \/ Task
         \/ UNCHANGED NewerVars
  BY DEF Next, NewerVars, vars, hub, bcast, stats, Start, Join, Halt, RunLoop, CloseClient, ClientClosed, CloseServer,
         Handler, Enter, Exit, Exited, Connect, Stall, StallEnds, Hangup

LEMMA QueuedStep == TypeOK /\ Newer /\ [Next]_vars => Queued'
  <1> SUFFICES ASSUME TypeOK, Newer, [Next]_vars,
                      NEW i \in 1 .. Len(queue'), queue'[i] # Pill,
                      NEW j \in 1 .. Len(queue')
               PROVE  /\ queue'[i] <= offered' /\ item' < queue'[i] /\ \A c \in Clients : written'[c] < queue'[i]
                      /\ i < j /\ queue'[j] # Pill => queue'[i] < queue'[j]
    BY DEF Queued
  <1>t. /\ queue \in Seq(Nat) /\ Len(queue) \in Nat /\ offered \in Nat /\ item \in Nat /\ written \in [Clients -> Nat]
        /\ item <= offered /\ \A c \in Clients : written[c] <= offered
    BY DEF TypeOK, Newer, InHand
  <1>e. \A k \in 1 .. Len(queue) : queue[k] \in Nat
    BY <1>t
  <1>q. \A k \in 1 .. Len(queue) : queue[k] # Pill =>
           /\ queue[k] <= offered /\ item < queue[k] /\ \A c \in Clients : written[c] < queue[k]
           /\ \A l \in 1 .. Len(queue) : k < l /\ queue[l] # Pill => queue[k] < queue[l]
    BY DEF Newer, Queued
  <1>1. CASE queue' = queue /\ item' \in {item, Pill} /\ offered' \in {offered, offered + 1} /\ written' = written
    BY <1>1, <1>t, <1>e, <1>q
  <1>2. CASE Enqueue /\ queue' # queue
    <2>1. queue' = Append(queue, offered + 1) /\ offered' = offered + 1 /\ item' = item /\ written' = written
      BY <1>2 DEF Enqueue, bcast, stats
    <2>2. offered + 1 \in Nat
      BY <1>t
    <2>3. /\ Len(queue') = Len(queue) + 1 /\ queue'[Len(queue) + 1] = offered + 1
          /\ \A k \in 1 .. Len(queue) : queue'[k] = queue[k]
          /\ \A k \in 1 .. Len(queue') : k \in 1 .. Len(queue) \/ k = Len(queue) + 1
      BY <1>t, <2>1, <2>2, AppendFacts
    <2>4. CASE i \in 1 .. Len(queue)
      BY <1>t, <1>e, <1>q, <2>1, <2>3, <2>4
    <2>5. CASE i = Len(queue) + 1
      <3>1. ~(i < j)
        BY <1>t, <2>3, <2>5
      <3> QED  BY <1>t, <2>1, <2>3, <2>5, <3>1
    <2> QED  BY <2>3, <2>4, <2>5
  <1>3. CASE Stop /\ queue' # queue
    <2>1. queue' = Append(WithRoom, Pill) /\ offered' = offered /\ item' = item /\ written' = written
      BY <1>3 DEF Stop, WithRoom, hub, bcast, stats
    <2>2. WithRoom \in Seq(Nat) /\ (WithRoom = queue \/ (WithRoom = Tail(queue) /\ queue # <<>>))
      <3>1. CASE Len(queue) < QueueSize
        <4>1. WithRoom = queue
          BY <3>1 DEF WithRoom
        <4> QED  BY <1>t, <4>1
      <3>2. CASE ~(Len(queue) < QueueSize)
        <4>1. queue # <<>> /\ WithRoom = Tail(queue)
          BY <1>t, <3>2, TcpServerAssumption DEF WithRoom
        <4> QED  BY <1>t, <4>1, TailFacts
      <3> QED  BY <3>1, <3>2
    <2>3. /\ Len(queue') = Len(WithRoom) + 1 /\ queue'[Len(WithRoom) + 1] = Pill /\ Len(WithRoom) \in Nat
          /\ \A k \in 1 .. Len(WithRoom) : queue'[k] = WithRoom[k]
          /\ \A k \in 1 .. Len(queue') : k \in 1 .. Len(WithRoom) \/ k = Len(WithRoom) + 1
      BY <2>1, <2>2, AppendFacts
    <2>4. i \in 1 .. Len(WithRoom) /\ queue'[i] = WithRoom[i]
      BY <2>3
    <2>5. queue'[j] # Pill => j \in 1 .. Len(WithRoom) /\ queue'[j] = WithRoom[j]
      BY <2>3
    <2>6. CASE WithRoom = queue
      BY <1>t, <1>e, <1>q, <2>1, <2>4, <2>5, <2>6
    <2>7. CASE WithRoom = Tail(queue) /\ queue # <<>>
      <3>1. \A k \in 1 .. Len(WithRoom) : WithRoom[k] = queue[k + 1] /\ k + 1 \in 1 .. Len(queue)
        BY <1>t, <2>7, TailFacts
      <3>2. queue'[i] = queue[i + 1] /\ i + 1 \in 1 .. Len(queue)
        BY <2>4, <3>1
      <3>3. queue'[j] # Pill => queue'[j] = queue[j + 1] /\ j + 1 \in 1 .. Len(queue)
        BY <2>5, <3>1
      <3>4. i < j => i + 1 < j + 1
        OBVIOUS
      <3> QED  BY <1>q, <2>1, <3>2, <3>3, <3>4
    <2> QED  BY <2>2, <2>6, <2>7
  <1>4. CASE Get /\ queue # <<>>
    <2>1. queue' = Tail(queue) /\ item' = Head(queue) /\ offered' = offered /\ written' = written
      BY <1>4 DEF Get, hub, stats
    <2>2. \A k \in 1 .. Len(queue') : queue'[k] = queue[k + 1] /\ k + 1 \in 1 .. Len(queue)
      BY <1>t, <1>4, <2>1, TailFacts
    <2>3. item' = queue[1] /\ queue[1] \in Nat /\ 1 \in 1 .. Len(queue)
      BY <1>t, <1>4, <2>1, TailFacts
    <2>4. i + 1 \in 1 .. Len(queue) /\ j + 1 \in 1 .. Len(queue) /\ queue'[i] = queue[i + 1] /\ queue'[j] = queue[j + 1]
      BY <2>2
    <2>5. 1 < i + 1 /\ (i < j => i + 1 < j + 1)
      OBVIOUS
    <2>6. item' < queue'[i]
      BY <1>e, <1>q, <2>3, <2>4, <2>5
    <2> QED  BY <1>q, <2>1, <2>4, <2>5, <2>6
  <1>5. CASE Write
    <2>1. /\ queue' = queue /\ item' = item /\ offered' = offered
          /\ \A c \in Clients : written'[c] = written[c] \/ written'[c] = item
      BY <1>5, <1>t DEF Write, hub
    <2> QED  BY <1>t, <1>e, <1>q, <2>1
  <1>6. Enqueue /\ queue' = queue => item' = item /\ offered' = offered + 1 /\ written' = written
    BY DEF Enqueue, bcast, stats
  <1>7. Stop => item' = item /\ offered' = offered /\ written' = written
    BY DEF Stop, hub, bcast, stats
  <1>8. Bind \/ Leave \/ CloseLoop \/ Die => queue' = queue /\ item' \in {item, Pill} /\ offered' = offered /\ written' = written
    BY DEF Bind, Leave, CloseLoop, Die, TasksGone, hub, stats
  <1>9. Task /\ ~Write /\ ~(Get /\ queue # <<>>) =>
          queue' = queue /\ item' \in {item, Pill} /\ offered' = offered /\ written' = written
    BY DEF Task, Check, Get, Broadcast, Drain, Drop, Dropped, Count, hub, stats
  <1> QED  BY <1>1, <1>2, <1>3, <1>4, <1>5, <1>6, <1>7, <1>8, <1>9, NewerKinds DEF NewerVars

LEMMA InHandStep == TypeOK /\ Handled /\ Newer /\ [Next]_vars => InHand'
  <1> SUFFICES ASSUME TypeOK, Handled, Newer, [Next]_vars PROVE InHand'
    OBVIOUS
  <1>t. /\ offered \in Nat /\ item \in Nat /\ written \in [Clients -> Nat]
        /\ todo \subseteq Clients /\ clients \subseteq Clients
    BY DEF TypeOK
  <1>i. InHand
    BY DEF Newer
  <1> USE DEF Broadcasting
  <1>1. CASE UNCHANGED NewerVars
    BY <1>i, <1>1 DEF NewerVars, InHand
  <1>2. CASE Enqueue
    BY <1>i, <1>t, <1>2 DEF Enqueue, bcast, stats, InHand
  <1>3. CASE Stop
    BY <1>i, <1>3 DEF Stop, hub, bcast, stats, InHand
  <1>4. CASE CloseLoop \/ Die
    BY <1>i, <1>t, <1>4 DEF CloseLoop, Die, TasksGone, hub, stats, InHand
  <1>5. CASE Bind \/ Leave
    BY <1>i, <1>5 DEF Bind, Leave, hub, stats, InHand, Handled
  <1>6. CASE Get /\ queue # <<>>
    <2>1. /\ task = "get" /\ task' = "got" /\ item' = Head(queue)
          /\ UNCHANGED <<offered, todo, failed, served, written>>
      BY <1>6 DEF Get, Goes, hub, stats
    <2>2. item' = queue[1] /\ queue[1] \in Nat /\ 1 \in 1 .. Len(queue)
      BY <1>6, <2>1, TailFacts DEF TypeOK
    <2>3. item' # Pill => item' <= offered /\ \A c \in Clients : written[c] < item'
      BY <2>2 DEF Newer, Queued
    <2> QED  BY <1>i, <1>t, <2>1, <2>3 DEF InHand
  <1>7. CASE Get /\ queue = <<>>
    BY <1>i, <1>7 DEF Get, Goes, hub, stats, InHand
  <1>8. CASE Write
    <2>1. PICK c \in todo : /\ todo' = todo \ {c}
                            /\ written' = written \/ written' = [written EXCEPT ![c] = item]
      BY <1>8 DEF Write
    <2>2. task = "send" /\ task' = "drain" /\ UNCHANGED <<offered, item, failed, served>>
      BY <1>8 DEF Write, Goes, hub
    <2>3. \A d \in Clients : written'[d] <= offered /\ (d # c => written'[d] = written[d])
      BY <1>i, <1>t, <2>1 DEF InHand
    <2> QED  BY <1>i, <1>t, <2>1, <2>2, <2>3 DEF InHand
  <1>9. CASE Check \/ Broadcast
    BY <1>i, <1>t, <1>9 DEF Check, Broadcast, Goes, hub, stats, InHand
  <1>10. CASE Drain \/ Drop \/ Dropped
    BY <1>i, <1>10 DEF Drain, Drop, Dropped, Goes, hub, stats, InHand
  <1>11. CASE Count
    BY <1>i, <1>t, <1>11 DEF Count, Goes, hub, stats, InHand
  <1> QED  BY <1>1, <1>2, <1>3, <1>4, <1>5, <1>6, <1>7, <1>8, <1>9, <1>10, <1>11, NewerKinds DEF Task

LEMMA NewerStep == TypeOK /\ Handled /\ Newer /\ [Next]_vars => Newer'
  BY QueuedStep, InHandStep DEF Newer

(* What a broadcast has served, step by step.  A change of the set by another task is  *)
(* noted in churn, so what is left are the steps of the broadcast task itself.         *)
LEMMA CountedStep == TypeOK /\ Newer /\ Counted /\ [Next]_vars => Counted'
  <1> SUFFICES ASSUME TypeOK, InHand, Counted, [Next]_vars, Broadcasting', churn' = FALSE
               PROVE  /\ todo' \subseteq clients' /\ failed' \subseteq clients' /\ todo' \cap failed' = {}
                      /\ task' = "drain" => awaited' \in clients' /\ awaited' \notin todo' \cup failed'
                      /\ served' = Cardinality(Serving') /\ \A c \in Serving' : written'[c] = item'
    BY ControlStep DEF Counted, Newer
  <1>t. /\ IsFiniteSet(clients) /\ clients \subseteq Clients /\ written \in [Clients -> Nat]
        /\ served \in Nat /\ item \in Nat
    BY DEF TypeOK
  <1>1. CASE UNCHANGED <<clients, churn, bcast, written>>
    BY <1>1 DEF bcast, Counted, Broadcasting, Serving
  <1>2. CASE Broadcast
    <2>1. /\ task' = "send" /\ ~Broadcasting /\ clients' = clients
          /\ todo' = clients /\ failed' = failed /\ served' = served
      BY <1>2 DEF Broadcast, Goes, Broadcasting
    <2>2. failed = {} /\ served = 0
      BY <2>1 DEF InHand
    <2>3. Serving' = {}
      BY <2>1, <2>2 DEF Serving
    <2> QED  BY <2>1, <2>2, <2>3, FS_EmptySet
  <1>3. CASE Task /\ ~Broadcast
    <2>1. Broadcasting /\ churn = FALSE
      BY <1>3 DEF Task, Check, Get, Write, Drain, Drop, Dropped, Count, Goes, peers, Broadcasting
    <2>2. /\ todo \subseteq clients /\ failed \subseteq clients /\ todo \cap failed = {}
          /\ task = "drain" => awaited \in clients /\ awaited \notin todo \cup failed
          /\ served = Cardinality(Serving) /\ \A c \in Serving : written[c] = item
      BY <2>1 DEF Counted
    <2>3. Serving \subseteq clients /\ IsFiniteSet(Serving)
      BY <1>t, FS_Subset DEF Serving
    <2>4. CASE Write
      <3>1. PICK c \in todo : /\ todo' = todo \ {c} /\ awaited' = c
                              /\ written' = written \/ written' = [written EXCEPT ![c] = item]
        BY <2>4 DEF Write
      <3>2. task = "send" /\ task' = "drain" /\ UNCHANGED <<item, failed, served, clients>>
        BY <2>4 DEF Write, Goes
      <3>3. \A d \in Clients : d # c => written'[d] = written[d]
        BY <1>t, <3>1
      <3>4. Serving' = Serving /\ c \notin Serving
        BY <2>2, <3>1, <3>2 DEF Serving
      <3> QED  BY <1>t, <2>2, <2>3, <3>1, <3>2, <3>3, <3>4
    <2>5. CASE Drain
      <3>1. /\ task = "drain" /\ task' \in {"drop", "send"} /\ UNCHANGED <<item, todo, clients, written>>
        BY <2>5 DEF Drain, Goes, stats
      <3>2. \/ failed' = failed /\ served' = served + 1 /\ written[awaited] = item
            \/ failed' = failed \cup {awaited} /\ served' = served
        BY <2>5 DEF Drain
      <3>3. CASE failed' = failed /\ served' = served + 1 /\ written[awaited] = item
        <4>1. Serving' = Serving \cup {awaited} /\ awaited \notin Serving
          BY <2>2, <3>1, <3>3 DEF Serving
        <4>2. Cardinality(Serving') = Cardinality(Serving) + 1
          BY <2>3, <4>1, FS_AddElement
        <4> QED  BY <2>2, <3>1, <3>3, <4>1, <4>2
      <3>4. CASE failed' = failed \cup {awaited} /\ served' = served
        <4>1. Serving' = Serving
          BY <2>2, <3>1, <3>4 DEF Serving
        <4> QED  BY <2>2, <3>1, <3>4, <4>1
      <3> QED  BY <3>2, <3>3, <3>4
    <2>6. CASE Drop
      <3>1. PICK c \in failed : failed' = failed \ {c} /\ clients' = clients \ {c}
        BY <2>6 DEF Drop
      <3>2. task = "drop" /\ task' = "dropped" /\ UNCHANGED <<item, todo, served, written>>
        BY <2>6 DEF Drop, Goes, stats
      <3>3. Serving' = Serving
        BY <2>2, <3>1, <3>2 DEF Serving
      <3> QED  BY <2>2, <3>1, <3>2, <3>3
    <2>7. CASE Dropped
      <3>1. task = "dropped" /\ task' = "drop" /\ UNCHANGED <<item, todo, failed, served, clients, written>>
        BY <2>7 DEF Dropped, Goes, stats
      <3>2. Serving' = Serving
        BY <3>1 DEF Serving
      <3> QED  BY <2>2, <3>1, <3>2
    <2> QED  BY <1>3, <2>4, <2>5, <2>6, <2>7 DEF Task, Check, Get, Count, Goes, Broadcasting
  <1>4. ASSUME NEW c \in Clients, Handler(c) \/ Connect(c) \/ Stall(c) \/ StallEnds(c) \/ Hangup(c)
        PROVE  UNCHANGED <<clients, churn, bcast, written>>
    <2>1. UNCHANGED <<bcast, written>> /\ Broadcasting
      BY <1>4 DEF Handler, Enter, Exit, Exited, Connect, Stall, StallEnds, Hangup, stats, bcast, Broadcasting
    <2>2. CASE Enter(c)
      BY <2>1, <2>2 DEF Enter
    <2>3. CASE Exit(c)
      <3>1. churn' = (churn \/ c \in clients) /\ clients' = clients \ {c}
        BY <2>1, <2>3 DEF Exit
      <3>2. ~churn /\ c \notin clients
        BY <3>1
      <3>3. churn = FALSE /\ clients' = clients
        BY <3>1, <3>2 DEF TypeOK
      <3> QED  BY <2>1, <3>3
    <2>4. CASE Exited(c) \/ Connect(c) \/ Stall(c) \/ StallEnds(c) \/ Hangup(c)
      BY <2>1, <2>4 DEF Exited, Connect, Stall, StallEnds, Hangup
    <2> QED  BY <1>4, <2>2, <2>3, <2>4 DEF Handler
  <1>5. CASE RunLoop
    <2>1. ~CloseLoop /\ ~Die /\ ~CloseServer
      BY DEF CloseLoop, Die, TasksGone, CloseServer, Broadcasting, bcast
    <2> QED  BY <1>1, <1>5, <2>1 DEF RunLoop, Bind, Leave, CloseClient, ClientClosed, Broadcasting, peers, stats, bcast
  <1>6. CASE Enqueue \/ Start \/ Stop \/ Join \/ Halt \/ UNCHANGED vars
    BY <1>1, <1>6 DEF Enqueue, Start, Stop, Join, Halt, vars, peers, stats
  <1> QED  BY <1>1, <1>2, <1>3, <1>4, <1>5, <1>6 DEF Next

(* BroadcastFair, for every set of clients and every number of chunks: no client is     *)
(* written a chunk twice or an older one, and a broadcast during which no other task     *)
(* changed the set has written to all who are left, and counts them.                 *)
THEOREM EveryBroadcastFair == Spec => BroadcastFair
  <1> DEFINE IInv == TypeOK /\ Known /\ Handled /\ Newer /\ Counted
  <1>1. Init => IInv
    BY TypeInit, HandledInit, NewerInit
  <1>2. IInv /\ [Next]_vars => IInv'
    BY TypeStep, KnownStep, HandledStep, NewerStep, CountedStep
  <1>3. IInv /\ [Next]_vars => [Fairly]_vars
    <2> SUFFICES ASSUME TypeOK, Handled, Newer, Counted, [Next]_vars PROVE Fairly \/ UNCHANGED vars
      OBVIOUS
    <2>1. ASSUME NEW c \in Clients, written'[c] # written[c]
          PROVE  written[c] < item
      <3>1. Write
        BY <2>1, NewerKinds DEF NewerVars, Enqueue, Stop, Bind, Leave, CloseLoop, Die, Task, Check, Get, Broadcast,
                  Drain, Drop, Dropped, Count, stats
      <3>2. c \in todo /\ Broadcasting
        BY <2>1, <3>1 DEF Write, Goes, Broadcasting, TypeOK
      <3> QED  BY <3>2 DEF Newer, InHand
    <2>2. ASSUME task = "drop", task' = "check", ~churn
          PROVE  counted' = served /\ \A c \in clients : item = written[c]
      <3>1. Count
        BY <2>2, NewerKinds DEF NewerVars, Enqueue, Stop, Bind, Leave, CloseLoop, Die, TasksGone, Task, Check, Get,
                  Broadcast, Write, Drain, Drop, Dropped, bcast, Goes, Handled
      <3>2. todo = {} /\ failed = {} /\ counted' = Cardinality(clients) /\ Broadcasting
        BY <2>2, <3>1 DEF Count, Newer, InHand, Broadcasting
      <3>3. Serving = clients
        BY <2>2, <3>2 DEF Serving
      <3> QED  BY <2>2, <3>2, <3>3 DEF Counted
    <2> QED  BY <2>1, <2>2 DEF Fairly
  <1> QED  BY <1>1, <1>2, <1>3, PTL DEF Spec, BroadcastFair
=============================================================================
