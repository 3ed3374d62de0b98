--------------------------- MODULE BroadcastHubProofs ---------------------------
(***************************************************************************)
(* Theorems about BroadcastHub for every capacity of the input queue, every     *)
(* number of starts of the engine and every number of chunks.                  *)
(***************************************************************************)
EXTENDS BroadcastHub, FiniteSetTheorems, TLAPS

Starting == {"connect", "launch"}
Stopping == {"pill", "evict", "refill", "joinInput", "joinBroadcast", "destinations", "disconnect", "drain"}

TypeOK ==
  /\ engine \in BOOLEAN /\ raised \in BOOLEAN /\ gaveUp \in BOOLEAN
  /\ run \in 0 .. MaxRuns /\ mpc \in {"idle"} \cup Starting \cup Stopping
  /\ engine \/ mpc # "idle" => run \in Run
  /\ active \in [Run -> BOOLEAN] /\ serving \in [Run -> BOOLEAN] /\ connected \in [Run -> BOOLEAN]
  /\ queue \in [Run -> Seq(Chunk \cup {Pill})]
  /\ \A r \in Run : Len(queue[r]) <= InputQueueSize
  /\ ipc \in [Run -> {"off", "loop", "reconnect", "connect", "wait", "read", "put"}]
  /\ bpc \in [Run -> {"off", "loop", "get", "distribute"}]
  /\ inHand \in [Run -> Chunk \cup {Nothing}] /\ outHand \in [Run -> Chunk \cup {Nothing}]
  /\ \A r \in Run : (ipc[r] = "put" <=> inHand[r] # Nothing) /\ (bpc[r] = "distribute" <=> outHand[r] # Nothing)
  /\ \A r \in Run : r > run \/ (r = run /\ mpc \in Starting) => ipc[r] = "off" /\ bpc[r] = "off"
  /\ read \in 0 .. MaxChunks
  /\ distributed \in Seq(Chunk) /\ lost \in [LossKinds -> SUBSET Chunk]

(* Why a stop() that returns has released everything.  The hubs of earlier runs   *)
(* have ended; the hub of this one is active between start() and stop() only, and   *)
(* what each step of stop() waited for or did is still so at the later ones.        *)
Released ==
  ~raised /\ ~gaveUp =>
    /\ \A r \in Run : r # run => HubEnded(r) /\ ~active[r]
    /\ mpc \in Starting => ~engine
    /\ mpc \in Stopping => engine
    /\ run \in Run =>
         /\ active[run] <=> mpc = "idle" /\ engine
         /\ mpc = "idle" /\ ~engine => HubEnded(run)
         /\ mpc = "connect" => HubEnded(run)
         /\ mpc = "launch" => queue[run] = <<>> /\ ~serving[run]
         /\ mpc \in {"launch", "joinBroadcast", "destinations", "disconnect", "drain"} => ipc[run] = "off"
         /\ mpc \in {"launch", "destinations", "disconnect", "drain"} => bpc[run] = "off"
         /\ mpc \in {"disconnect", "drain"} => ~serving[run]
         /\ mpc = "drain" => ~connected[run]

(* Where a chunk is: with the input thread, in the queue or with the broadcast      *)
(* thread of the hub of run r, or (r = 0) distributed or lost.                     *)
Kinds   == {"in", "queue", "out", "distributed"} \cup LossKinds
Holders == Run \cup {0}
At(n, k, r) == CASE k = "in"          -> r \in Run /\ inHand[r] = n
                 [] k = "queue"       -> r \in Run /\ Queued(r, n)
                 [] k = "out"         -> r \in Run /\ outHand[r] = n
                 [] k = "distributed" -> r = 0 /\ WasDistributed(n)
                 [] OTHER             -> r = 0 /\ n \in lost[k]

(* A chunk that was read is in one place, one that was not is in none; and none is   *)
(* twice in a queue.                                                           *)
Placed == \A n \in Chunk : \A k \in Kinds : \A r \in Holders :
  At(n, k, r) => n <= read /\ \A l \in Kinds : \A s \in Holders : At(n, l, s) => k = l /\ r = s
Covered == \A n \in 1 .. read : \E k \in Kinds : \E r \in Holders : At(n, k, r)
QueuedOnce == \A r \in Run : \A i, j \in 1 .. Len(queue[r]) :
  queue[r][i] = queue[r][j] /\ queue[r][i] # Pill => i = j
Accounted == Placed /\ Covered /\ QueuedOnce

(* Why the chunks of a run come in order: what the broadcast thread holds was read   *)
(* after all that was distributed, what is queued after that, and what the input      *)
(* thread holds was read last.                                                  *)
Ordered ==
  ~raised /\ ~gaveUp =>
    /\ \A i, j \in 1 .. Len(distributed) : i < j => distributed[i] < distributed[j]
    /\ \A r \in Run :
         /\ inHand[r] # Nothing => inHand[r] = read
         /\ outHand[r] # Nothing => \A n \in Chunk : WasDistributed(n) => n < outHand[r]
         /\ \A i \in 1 .. Len(queue[r]) : queue[r][i] # Pill =>
              /\ \A n \in Chunk : WasDistributed(n) => n < queue[r][i]
              /\ outHand[r] < queue[r][i]
              /\ \A j \in 1 .. Len(queue[r]) : i < j /\ queue[r][j] # Pill => queue[r][i] < queue[r][j]

-----------------------------------------------------------------------------
USE DEF Pill, Nothing, Run, Chunk

LEMMA AtDef ==
  /\ \A n, r : At(n, "in", r) <=> r \in Run /\ inHand[r] = n
  /\ \A n, r : At(n, "queue", r) <=> r \in Run /\ Queued(r, n)
  /\ \A n, r : At(n, "out", r) <=> r \in Run /\ outHand[r] = n
  /\ \A n, r : At(n, "distributed", r) <=> r = 0 /\ WasDistributed(n)
  /\ \A n, r : \A k \in LossKinds : At(n, k, r) <=> r = 0 /\ n \in lost[k]
  BY DEF At, LossKinds

LEMMA AtDefNext ==
  /\ \A n, r : At(n, "in", r)' <=> r \in Run /\ inHand'[r] = n
  /\ \A n, r : At(n, "queue", r)' <=> r \in Run /\ Queued(r, n)'
  /\ \A n, r : At(n, "out", r)' <=> r \in Run /\ outHand'[r] = n
  /\ \A n, r : At(n, "distributed", r)' <=> r = 0 /\ WasDistributed(n)'
  /\ \A n, r : \A k \in LossKinds : At(n, k, r)' <=> r = 0 /\ n \in lost'[k]
  BY DEF At, LossKinds

LEMMA ElementIn ==
  ASSUME NEW S, NEW s \in Seq(S), NEW i \in 1 .. Len(s)
  PROVE  s[i] \in S
  OBVIOUS

(* What Put() and Take() do to the queues.                                      *)
LEMMA PutQueue ==
  ASSUME TypeOK, NEW r \in Run, NEW x \in Chunk \cup {Pill}, Put(r, x)
  PROVE  /\ queue' \in [Run -> Seq(Chunk \cup {Pill})]
         /\ \A s \in Run : Len(queue'[s]) <= InputQueueSize
         /\ \A s \in Run : s # r => queue'[s] = queue[s]
         /\ Len(queue[r]) \in Nat /\ Len(queue'[r]) = Len(queue[r]) + 1
         /\ \A i \in 1 .. Len(queue[r]) : queue'[r][i] = queue[r][i]
         /\ queue'[r][Len(queue[r]) + 1] = x
         /\ \A n : \A s \in Run : Queued(s, n)' <=> Queued(s, n) \/ (s = r /\ n = x)
  <1>1. queue'[r] = Append(queue[r], x) /\ queue[r] \in Seq(Chunk \cup {Pill}) /\ Len(queue[r]) <= InputQueueSize
    BY DEF Put, TypeOK
  <1>2. /\ queue' \in [Run -> Seq(Chunk \cup {Pill})]
        /\ \A s \in Run : s # r => queue'[s] = queue[s]
    BY <1>1 DEF Put, TypeOK
  <1>3. /\ Len(queue[r]) \in Nat /\ Len(queue'[r]) = Len(queue[r]) + 1
        /\ \A i \in 1 .. Len(queue[r]) : queue'[r][i] = queue[r][i]
        /\ queue'[r][Len(queue[r]) + 1] = x
    BY <1>1
  <1>4. Len(queue'[r]) <= InputQueueSize
    BY <1>1, <1>3, InputQueueAssumption DEF Put, Full
  <1>5. \A s \in Run : Len(queue'[s]) <= InputQueueSize
    BY <1>2, <1>4 DEF TypeOK
  <1>6. \A i \in 1 .. Len(queue'[r]) : i \in 1 .. Len(queue[r]) \/ i = Len(queue[r]) + 1
    BY <1>3
  <1>7. ASSUME NEW n
        PROVE  Queued(r, n)' <=> Queued(r, n) \/ n = x
    <2>1. Queued(r, n)' => Queued(r, n) \/ n = x
      BY <1>3, <1>6 DEF Queued
    <2>2. Queued(r, n) => Queued(r, n)'
      BY <1>3 DEF Queued
    <2>3. Len(queue[r]) + 1 \in 1 .. Len(queue'[r])
      BY <1>3
    <2> QED  BY <1>3, <2>1, <2>2, <2>3 DEF Queued
  <1>8. \A n : \A s \in Run : s # r => (Queued(s, n)' <=> Queued(s, n))
    BY <1>2 DEF Queued
  <1> QED  BY <1>2, <1>3, <1>5, <1>7, <1>8

LEMMA TakeQueue ==
  ASSUME TypeOK, QueuedOnce, NEW r \in Run, Take(r)
  PROVE  /\ queue' \in [Run -> Seq(Chunk \cup {Pill})]
         /\ \A s \in Run : Len(queue'[s]) <= InputQueueSize
         /\ \A s \in Run : s # r => queue'[s] = queue[s]
         /\ Len(queue[r]) \in Nat \ {0} /\ Len(queue'[r]) = Len(queue[r]) - 1
         /\ \A i \in 1 .. Len(queue'[r]) : queue'[r][i] = queue[r][i + 1]
         /\ Head(queue[r]) = queue[r][1] /\ Head(queue[r]) \in Chunk \cup {Pill} /\ Queued(r, Head(queue[r]))
         /\ \A n \in Chunk : \A s \in Run : Queued(s, n)' <=> Queued(s, n) /\ ~(s = r /\ n = Head(queue[r]))
  <1>1. queue'[r] = Tail(queue[r]) /\ queue[r] \in Seq(Chunk \cup {Pill}) /\ queue[r] # <<>> /\ Len(queue[r]) <= InputQueueSize
    BY DEF Take, TypeOK
  <1>2. Tail(queue[r]) \in Seq(Chunk \cup {Pill})
    BY <1>1
  <1>3. /\ queue' \in [Run -> Seq(Chunk \cup {Pill})]
        /\ \A s \in Run : s # r => queue'[s] = queue[s]
    BY <1>1, <1>2 DEF Take, TypeOK
  <1>4. /\ Len(queue[r]) \in Nat \ {0} /\ Len(queue'[r]) = Len(queue[r]) - 1
        /\ \A i \in 1 .. Len(queue'[r]) : queue'[r][i] = queue[r][i + 1]
        /\ Head(queue[r]) = queue[r][1] /\ Head(queue[r]) \in Chunk \cup {Pill}
    BY <1>1
  <1>5. \A s \in Run : Len(queue'[s]) <= InputQueueSize
    BY <1>1, <1>3, <1>4, InputQueueAssumption DEF TypeOK
  <1>6. /\ \A i \in 1 .. Len(queue'[r]) : i + 1 \in 1 .. Len(queue[r]) /\ i + 1 # 1
        /\ \A i \in 1 .. Len(queue[r]) : i # 1 => i - 1 \in 1 .. Len(queue'[r]) /\ queue'[r][i - 1] = queue[r][i]
        /\ 1 \in 1 .. Len(queue[r])
    BY <1>4
  <1>7. ASSUME NEW n \in Chunk
        PROVE  Queued(r, n)' <=> Queued(r, n) /\ n # queue[r][1]
    <2>0. n # Pill
      BY RunsAssumption
    <2>1. Queued(r, n)' => Queued(r, n) /\ n # queue[r][1]
      <3> SUFFICES ASSUME NEW i \in 1 .. Len(queue'[r]), queue'[r][i] = n
                   PROVE  Queued(r, n) /\ n # queue[r][1]
        BY DEF Queued
      <3>1. queue[r][i + 1] = n /\ i + 1 \in 1 .. Len(queue[r]) /\ i + 1 # 1 /\ 1 \in 1 .. Len(queue[r])
        BY <1>4, <1>6
      <3> QED  BY <2>0, <3>1 DEF Queued, QueuedOnce
    <2>2. Queued(r, n) /\ n # queue[r][1] => Queued(r, n)'
      BY <1>6 DEF Queued
    <2> QED  BY <2>1, <2>2
  <1>8. \A n : \A s \in Run : s # r => (Queued(s, n)' <=> Queued(s, n))
    BY <1>3 DEF Queued
  <1>9. Queued(r, queue[r][1])
    BY <1>6 DEF Queued
  <1> QED  BY <1>3, <1>4, <1>5, <1>7, <1>8, <1>9

LEMMA StillQueue ==
  ASSUME queue' = queue
  PROVE  \A r, n : Queued(r, n)' <=> Queued(r, n)
  BY DEF Queued

LEMMA AppendDistributed ==
  ASSUME distributed \in Seq(Chunk), NEW x \in Chunk, distributed' = Append(distributed, x)
  PROVE  /\ distributed' \in Seq(Chunk) /\ Len(distributed) \in Nat
         /\ \A i \in 1 .. Len(distributed') : i \in 1 .. Len(distributed) \/ i = Len(distributed) + 1
         /\ \A i \in 1 .. Len(distributed) : distributed'[i] = distributed[i]
         /\ distributed'[Len(distributed) + 1] = x
         /\ \A n : WasDistributed(n)' <=> WasDistributed(n) \/ n = x
  <1>1. /\ distributed' \in Seq(Chunk) /\ Len(distributed) \in Nat /\ Len(distributed') = Len(distributed) + 1
        /\ \A i \in 1 .. Len(distributed) : distributed'[i] = distributed[i]
        /\ distributed'[Len(distributed) + 1] = x
    OBVIOUS
  <1>2. \A i \in 1 .. Len(distributed') : i \in 1 .. Len(distributed) \/ i = Len(distributed) + 1
    BY <1>1
  <1>3. \A n : WasDistributed(n)' <=> \E i \in 1 .. Len(distributed') : distributed'[i] = n
    BY DEF WasDistributed
  <1> QED  BY <1>1, <1>2, <1>3 DEF WasDistributed

(* Either the chunks stay where they are, or one goes to a place (q, t), from         *)
(* another or, when it is new, from none.                                       *)
LEMMA ChunksStay ==
  ASSUME Placed, Covered, read \in 0 .. MaxChunks, read' = read,
         \A n \in Chunk : \A k \in Kinds : \A r \in Holders : At(n, k, r)' <=> At(n, k, r)
  PROVE  Placed' /\ Covered'
  <1>1. ASSUME NEW n \in Chunk, NEW k \in Kinds, NEW l \in Kinds, NEW r \in Holders, NEW s \in Holders,
               At(n, k, r)', At(n, l, s)'
        PROVE  n <= read' /\ k = l /\ r = s
    <2>1. At(n, k, r) /\ At(n, l, s)
      BY <1>1
    <2> QED  BY <2>1 DEF Placed
  <1>2. Placed'
    BY <1>1 DEF Placed
  <1>3. ASSUME NEW n \in 1 .. read
        PROVE  \E k \in Kinds : \E r \in Holders : At(n, k, r)'
    <2>1. n \in Chunk
      BY RunsAssumption
    <2> QED  BY <2>1 DEF Covered
  <1> QED  BY <1>2, <1>3 DEF Covered

LEMMA ChunkGoes ==
  ASSUME Placed, Covered, read \in 0 .. MaxChunks, read' \in 0 .. MaxChunks,
         NEW h \in Chunk, NEW q \in Kinds, NEW t \in Holders,
         h <= read', \A n \in 1 .. read' : n \in 1 .. read \/ n = h, read <= read',
         \A k \in Kinds : \A r \in Holders : At(h, k, r)' <=> k = q /\ r = t,
         \A n \in Chunk : \A k \in Kinds : \A r \in Holders : n # h => (At(n, k, r)' <=> At(n, k, r))
  PROVE  Placed' /\ Covered'
  <1>1. ASSUME NEW n \in Chunk, NEW k \in Kinds, NEW l \in Kinds, NEW r \in Holders, NEW s \in Holders,
               At(n, k, r)', At(n, l, s)'
        PROVE  n <= read' /\ k = l /\ r = s
    <2>1. CASE n = h
      BY <1>1, <2>1
    <2>2. CASE n # h
      <3>1. At(n, k, r) /\ At(n, l, s)
        BY <1>1, <2>2
      <3>2. n <= read /\ k = l /\ r = s
        BY <3>1 DEF Placed
      <3> QED  BY <3>2
    <2> QED  BY <2>1, <2>2
  <1>2. Placed'
    BY <1>1 DEF Placed
  <1>3. ASSUME NEW n \in 1 .. read'
        PROVE  \E k \in Kinds : \E r \in Holders : At(n, k, r)'
    <2>1. CASE n = h
      BY <2>1
    <2>2. CASE n # h
      <3>1. n \in 1 .. read /\ n \in Chunk
        BY <2>2, RunsAssumption
      <3>2. \E k \in Kinds : \E r \in Holders : At(n, k, r)
        BY <3>1 DEF Covered
      <3> QED  BY <3>1, <3>2, <2>2
    <2> QED  BY <2>1, <2>2
  <1> QED  BY <1>2, <1>3 DEF Covered

-----------------------------------------------------------------------------
(* What the steps do to the chunks.                                            *)
Others == UNCHANGED <<inHand, outHand, read, distributed>>
Adds(r)       == Put(r, Pill) /\ Others /\ lost' = lost
GivesUp(r, k) == Take(r) /\ Lost(k, Head(queue[r])) /\ Others
Skips(r)      == Take(r) /\ Head(queue[r]) = Pill /\ Others /\ lost' = lost
Still         == UNCHANGED <<queue, lost>> /\ Others

LEMMA StepKinds ==
  ASSUME TypeOK, [Next]_vars
  PROVE  \/ \E r \in Run : Adds(r) \/ Skips(r) \/ ReadChunk(r) \/ PutChunk(r) \/ GetChunk(r) \/ Distribute(r)
         \/ \E r \in Run : \E k \in LossKinds : GivesUp(r, k)
         \/ Still
  <1>1. CASE UNCHANGED vars
    BY <1>1 DEF vars, inputVars, bcastVars, Still, Others
  <1>2. CASE EngineStart \/ EngineStop \/ StartSteps
    BY <1>2 DEF EngineStart, EngineStop, StartSteps, ConnectInput, Launch, inputVars, bcastVars, Still, Others
  <1>3. CASE StopSteps
    <2>1. run \in Run
      BY <1>3 DEF TypeOK, StopSteps, PutPill, Evict, PutPillAgain, JoinInput, JoinBroadcast,
                  StopDestinations, DisconnectInput, Drain, MainGoes
    <2>2. \/ Adds(run) \/ Still
          \/ \E k \in LossKinds : GivesUp(run, k)
      BY <1>3 DEF StopSteps, PutPill, Evict, PutPillAgain, JoinInput, JoinBroadcast, LossKinds,
                  StopDestinations, DisconnectInput, Drain, inputVars, bcastVars, Adds, GivesUp, Still, Others
    <2> QED  BY <2>1, <2>2
  <1>4. ASSUME NEW r \in Run, InputSteps(r)
        PROVE  Still \/ ReadChunk(r) \/ PutChunk(r)
    BY <1>4 DEF InputSteps, InputLoop, Reconnect, ReconnectOk, ReconnectFail, ReconnectWait, ReadNothing,
                ReadError, bcastVars, Still, Others
  <1>5. ASSUME NEW r \in Run, BroadcastSteps(r)
        PROVE  Still \/ Skips(r) \/ GetChunk(r) \/ Distribute(r)
    BY <1>5 DEF BroadcastSteps, BroadcastLoop, GetEmpty, GetPill, inputVars, Skips, Still, Others
  <1> QED  BY <1>1, <1>2, <1>3, <1>4, <1>5 DEF Next, Rest

LEMMA TypeInit == Init => TypeOK
  <1> SUFFICES ASSUME Init PROVE TypeOK
    OBVIOUS
  <1>1. /\ queue \in [Run -> Seq(Chunk \cup {Pill})] /\ \A r \in Run : Len(queue[r]) = 0
    BY DEF Init
  <1>2. /\ active \in [Run -> BOOLEAN] /\ serving \in [Run -> BOOLEAN] /\ connected \in [Run -> BOOLEAN]
        /\ lost \in [LossKinds -> SUBSET Chunk] /\ distributed \in Seq(Chunk)
    BY DEF Init
  <1>3. /\ ipc \in [Run -> {"off", "loop", "reconnect", "connect", "wait", "read", "put"}]
        /\ bpc \in [Run -> {"off", "loop", "get", "distribute"}]
        /\ inHand \in [Run -> Chunk \cup {Nothing}] /\ outHand \in [Run -> Chunk \cup {Nothing}]
        /\ \A r \in Run : ipc[r] = "off" /\ inHand[r] = Nothing /\ bpc[r] = "off" /\ outHand[r] = Nothing
    BY DEF Init
  <1>4. /\ engine \in BOOLEAN /\ raised \in BOOLEAN /\ gaveUp \in BOOLEAN
        /\ ~(engine \/ mpc # "idle") /\ mpc = "idle"
    BY DEF Init
  <1>5. run \in 0 .. MaxRuns /\ read \in 0 .. MaxChunks
    BY RunsAssumption DEF Init
  <1>6. \A r \in Run : Len(queue[r]) <= InputQueueSize
    BY <1>1, InputQueueAssumption
  <1> QED  BY <1>1, <1>2, <1>3, <1>4, <1>5, <1>6 DEF TypeOK

(* TypeOK in three parts: the caller, the threads and the chunks.                 *)
CallerOK ==
  /\ engine \in BOOLEAN /\ raised \in BOOLEAN /\ gaveUp \in BOOLEAN
  /\ run \in 0 .. MaxRuns /\ mpc \in {"idle"} \cup Starting \cup Stopping
  /\ engine \/ mpc # "idle" => run \in Run
  /\ active \in [Run -> BOOLEAN] /\ serving \in [Run -> BOOLEAN] /\ connected \in [Run -> BOOLEAN]
ThreadsOK ==
  /\ ipc \in [Run -> {"off", "loop", "reconnect", "connect", "wait", "read", "put"}]
  /\ bpc \in [Run -> {"off", "loop", "get", "distribute"}]
  /\ \A r \in Run : (ipc[r] = "put" <=> inHand[r] # Nothing) /\ (bpc[r] = "distribute" <=> outHand[r] # Nothing)
  /\ \A r \in Run : r > run \/ (r = run /\ mpc \in Starting) => ipc[r] = "off" /\ bpc[r] = "off"
ChunksOK ==
  /\ queue \in [Run -> Seq(Chunk \cup {Pill})]
  /\ \A r \in Run : Len(queue[r]) <= InputQueueSize
  /\ inHand \in [Run -> Chunk \cup {Nothing}] /\ outHand \in [Run -> Chunk \cup {Nothing}]
  /\ read \in 0 .. MaxChunks
  /\ distributed \in Seq(Chunk) /\ lost \in [LossKinds -> SUBSET Chunk]

LEMMA CallerStep == TypeOK /\ [Next]_vars => CallerOK'
  <1> SUFFICES ASSUME TypeOK, [Next]_vars PROVE CallerOK'
    OBVIOUS
  <1>1. CASE UNCHANGED vars
    BY <1>1 DEF vars, mainVars, TypeOK, CallerOK
  <1>2. CASE EngineStart
    BY <1>2, RunsAssumption DEF EngineStart, MainGoes, TypeOK, CallerOK, Starting
  <1>3. CASE EngineStop
    BY <1>3 DEF EngineStop, MainGoes, TypeOK, CallerOK, Stopping
  <1>4. CASE StartSteps
    BY <1>4 DEF StartSteps, ConnectInput, Launch, MainGoes, TypeOK, CallerOK, Starting
  <1>5. CASE StopSteps
    BY <1>5 DEF StopSteps, PutPill, Evict, PutPillAgain, JoinInput, JoinBroadcast, StopDestinations,
                DisconnectInput, Drain, MainGoes, TypeOK, CallerOK, Stopping
  <1>6. ASSUME NEW r \in Run, InputSteps(r) \/ BroadcastSteps(r)
        PROVE  CallerOK'
    <2>1. /\ UNCHANGED <<mainVars, active, serving>>
          /\ \/ connected' = connected
             \/ connected' = [connected EXCEPT ![r] = TRUE]
             \/ connected' = [connected EXCEPT ![r] = FALSE]
      BY <1>6 DEF InputSteps, InputLoop, Reconnect, ReconnectOk, ReconnectFail, ReconnectWait, ReadChunk,
                  ReadNothing, ReadError, PutChunk, BroadcastSteps, BroadcastLoop, GetEmpty, GetPill, GetChunk, Distribute
    <2>2. connected' \in [Run -> BOOLEAN]
      BY <2>1 DEF TypeOK
    <2>3. UNCHANGED <<engine, raised, gaveUp, run, mpc, active, serving>>
      BY <2>1 DEF mainVars
    <2> QED  BY <2>2, <2>3 DEF TypeOK, CallerOK
  <1> QED  BY <1>1, <1>2, <1>3, <1>4, <1>5, <1>6 DEF Next, Rest

LEMMA ThreadsStep == TypeOK /\ [Next]_vars => ThreadsOK'
  <1> SUFFICES ASSUME TypeOK, [Next]_vars PROVE ThreadsOK'
    OBVIOUS
  <1> DEFINE Fresh(r) == r > run \/ (r = run /\ mpc \in Starting)
  <1>0. \A r \in Run : Fresh(r)' => Fresh(r) \/ (EngineStart /\ r = run')
    <2>1. CASE UNCHANGED <<run, mpc>>
      BY <2>1
    <2>2. CASE EngineStart
      BY <2>2 DEF EngineStart, TypeOK
    <2>3. (run' = run /\ mpc' \notin Starting) \/ ConnectInput \/ EngineStart \/ UNCHANGED <<run, mpc>>
      BY DEF Next, Rest, vars, mainVars, EngineStop, StartSteps, Launch, StopSteps, PutPill, Evict, PutPillAgain,
             JoinInput, JoinBroadcast, StopDestinations, DisconnectInput, Drain, MainGoes, Starting,
             InputSteps, InputLoop, Reconnect, ReconnectOk, ReconnectFail, ReconnectWait, ReadChunk,
             ReadNothing, ReadError, PutChunk, BroadcastSteps, BroadcastLoop, GetEmpty, GetPill, GetChunk, Distribute
    <2>4. CASE ConnectInput
      BY <2>4 DEF ConnectInput, MainGoes, Starting
    <2> QED  BY <2>1, <2>2, <2>3, <2>4
  <1>1. CASE UNCHANGED <<ipc, bpc, inHand, outHand>>
    <2>1. \A r \in Run : Fresh(r)' => ipc[r] = "off" /\ bpc[r] = "off"
      BY <1>0 DEF TypeOK, EngineStart
    <2> QED  BY <1>1, <2>1 DEF TypeOK, ThreadsOK
  <1>2. CASE Launch
    <2>1. /\ ipc' = [ipc EXCEPT ![run] = "loop"] /\ bpc' = [bpc EXCEPT ![run] = "loop"] /\ UNCHANGED <<inHand, outHand, run>>
          /\ run \in Run /\ mpc \in Starting /\ mpc' \notin Starting
      BY <1>2 DEF Launch, MainGoes, TypeOK, Starting
    <2>2. inHand[run] = Nothing /\ outHand[run] = Nothing
      BY <2>1 DEF TypeOK
    <2>3. \A r \in Run : (ipc'[r] = "put" <=> inHand'[r] # Nothing) /\ (bpc'[r] = "distribute" <=> outHand'[r] # Nothing)
      BY <2>1, <2>2 DEF TypeOK
    <2>4. \A r \in Run : Fresh(r)' => ipc'[r] = "off" /\ bpc'[r] = "off"
      BY <2>1 DEF TypeOK
    <2>5. /\ ipc' \in [Run -> {"off", "loop", "reconnect", "connect", "wait", "read", "put"}]
          /\ bpc' \in [Run -> {"off", "loop", "get", "distribute"}]
      BY <2>1 DEF TypeOK
    <2> QED  BY <2>3, <2>4, <2>5 DEF ThreadsOK
  <1>3. ASSUME NEW r \in Run, InputSteps(r)
        PROVE  ThreadsOK'
    <2>1. /\ UNCHANGED <<bpc, outHand, run, mpc>>
          /\ \E to \in {"off", "loop", "reconnect", "connect", "wait", "read", "put"} :
            /\ ipc[r] # "off" /\ ipc' = [ipc EXCEPT ![r] = to]
            /\ \/ to # "put" /\ ipc[r] # "put" /\ inHand' = inHand
               \/ to = "put" /\ inHand' = [inHand EXCEPT ![r] = read + 1]
               \/ to # "put" /\ inHand' = [inHand EXCEPT ![r] = Nothing]
      BY <1>3 DEF InputSteps, InputLoop, Reconnect, ReconnectOk, ReconnectFail, ReconnectWait, ReadChunk,
                  ReadNothing, ReadError, PutChunk, InputGoes, bcastVars, mainVars
    <2>2. read + 1 # Nothing
      BY DEF TypeOK
    <2>3. ipc' \in [Run -> {"off", "loop", "reconnect", "connect", "wait", "read", "put"}]
      BY <2>1 DEF TypeOK
    <2>4. ipc[r] # "off" /\ \A s \in Run : s # r => ipc'[s] = ipc[s] /\ inHand'[s] = inHand[s]
      BY <2>1 DEF TypeOK
    <2>5. ipc'[r] = "put" <=> inHand'[r] # Nothing
      BY <2>1, <2>2 DEF TypeOK
    <2>6. \A s \in Run : ipc'[s] = "put" <=> inHand'[s] # Nothing
      BY <2>4, <2>5 DEF TypeOK
    <2> QED  BY <2>1, <2>3, <2>4, <2>6 DEF TypeOK, ThreadsOK
  <1>4. ASSUME NEW r \in Run, BroadcastSteps(r)
        PROVE  ThreadsOK'
    <2>1. /\ UNCHANGED <<ipc, inHand, run, mpc>>
          /\ \E to \in {"off", "loop", "get", "distribute"} :
            /\ bpc[r] # "off" /\ bpc' = [bpc EXCEPT ![r] = to]
            /\ \/ to # "distribute" /\ bpc[r] # "distribute" /\ outHand' = outHand
               \/ to = "distribute" /\ Head(queue[r]) # Pill /\ outHand' = [outHand EXCEPT ![r] = Head(queue[r])]
               \/ to # "distribute" /\ outHand' = [outHand EXCEPT ![r] = Nothing]
      BY <1>4 DEF BroadcastSteps, BroadcastLoop, GetEmpty, GetPill, GetChunk, Distribute, BcastGoes, inputVars, mainVars
    <2>3. bpc' \in [Run -> {"off", "loop", "get", "distribute"}]
      BY <2>1 DEF TypeOK
    <2>4. bpc[r] # "off" /\ \A s \in Run : s # r => bpc'[s] = bpc[s] /\ outHand'[s] = outHand[s]
      BY <2>1 DEF TypeOK
    <2>5. bpc'[r] = "distribute" <=> outHand'[r] # Nothing
      BY <2>1 DEF TypeOK
    <2>6. \A s \in Run : bpc'[s] = "distribute" <=> outHand'[s] # Nothing
      BY <2>4, <2>5 DEF TypeOK
    <2> QED  BY <2>1, <2>3, <2>4, <2>6 DEF TypeOK, ThreadsOK
  <1> QED  BY <1>1, <1>2, <1>3, <1>4 DEF Next, Rest, vars, inputVars, bcastVars, EngineStart, EngineStop, StartSteps,
              ConnectInput, StopSteps, PutPill, Evict, PutPillAgain, JoinInput, JoinBroadcast, StopDestinations,
              DisconnectInput, Drain

LEMMA ChunksStep == TypeOK /\ QueuedOnce /\ [Next]_vars => ChunksOK'
  <1> SUFFICES ASSUME TypeOK, QueuedOnce, [Next]_vars PROVE ChunksOK'
    OBVIOUS
  <1>1. ASSUME NEW r \in Run, Adds(r)
        PROVE  ChunksOK'
    BY <1>1, PutQueue DEF Adds, Others, TypeOK, ChunksOK
  <1>2. ASSUME NEW r \in Run, Skips(r)
        PROVE  ChunksOK'
    BY <1>2, TakeQueue DEF Skips, Others, TypeOK, ChunksOK
  <1>3. ASSUME NEW r \in Run, ReadChunk(r)
        PROVE  ChunksOK'
    BY <1>3, RunsAssumption DEF ReadChunk, bcastVars, TypeOK, ChunksOK
  <1>4. ASSUME NEW r \in Run, PutChunk(r)
        PROVE  ChunksOK'
    <2>1. inHand[r] \in Chunk
      BY <1>4 DEF PutChunk, InputGoes, TypeOK
    <2>2. lost' \in [LossKinds -> SUBSET Chunk]
      BY <1>4, <2>1 DEF PutChunk, Lost, TypeOK
    <2>3. queue' \in [Run -> Seq(Chunk \cup {Pill})] /\ \A s \in Run : Len(queue'[s]) <= InputQueueSize
      <3>1. CASE Put(r, inHand[r])
        BY <2>1, <3>1, PutQueue
      <3>2. CASE queue' = queue
        BY <3>2 DEF TypeOK
      <3> QED  BY <1>4, <3>1, <3>2 DEF PutChunk
    <2> QED  BY <1>4, <2>2, <2>3 DEF PutChunk, bcastVars, TypeOK, ChunksOK
  <1>5. ASSUME NEW r \in Run, GetChunk(r)
        PROVE  ChunksOK'
    <2>1. Head(queue[r]) \in Chunk \cup {Pill}
      BY <1>5, TakeQueue DEF GetChunk
    <2>2. outHand' \in [Run -> Chunk \cup {Nothing}]
      BY <1>5, <2>1 DEF GetChunk, TypeOK
    <2>3. queue' \in [Run -> Seq(Chunk \cup {Pill})] /\ \A s \in Run : Len(queue'[s]) <= InputQueueSize
      BY <1>5, TakeQueue DEF GetChunk
    <2> QED  BY <1>5, <2>2, <2>3 DEF GetChunk, inputVars, TypeOK, ChunksOK
  <1>6. ASSUME NEW r \in Run, Distribute(r)
        PROVE  ChunksOK'
    <2>1. outHand[r] \in Chunk /\ outHand' \in [Run -> Chunk \cup {Nothing}]
      BY <1>6 DEF Distribute, BcastGoes, TypeOK
    <2>2. distributed' \in Seq(Chunk)
      BY <1>6, <2>1, AppendDistributed DEF Distribute, TypeOK
    <2> QED  BY <1>6, <2>1, <2>2 DEF Distribute, inputVars, TypeOK, ChunksOK
  <1>7. ASSUME NEW r \in Run, NEW k \in LossKinds, GivesUp(r, k)
        PROVE  ChunksOK'
    <2>1. /\ queue' \in [Run -> Seq(Chunk \cup {Pill})] /\ \A s \in Run : Len(queue'[s]) <= InputQueueSize
          /\ Head(queue[r]) \in Chunk \cup {Pill}
      BY <1>7, TakeQueue DEF GivesUp
    <2>2. lost' \in [LossKinds -> SUBSET Chunk]
      BY <1>7, <2>1 DEF GivesUp, Lost, TypeOK
    <2> QED  BY <1>7, <2>1, <2>2 DEF GivesUp, Others, TypeOK, ChunksOK
  <1>8. CASE Still
    BY <1>8 DEF Still, Others, TypeOK, ChunksOK
  <1> QED  BY <1>1, <1>2, <1>3, <1>4, <1>5, <1>6, <1>7, <1>8, StepKinds

LEMMA TypeStep == TypeOK /\ QueuedOnce /\ [Next]_vars => TypeOK'
  BY CallerStep, ThreadsStep, ChunksStep DEF TypeOK, CallerOK, ThreadsOK, ChunksOK

-----------------------------------------------------------------------------
LEMMA AccountedInit == Init => Accounted
  <1> SUFFICES ASSUME Init PROVE Accounted
    OBVIOUS
  <1>1. /\ \A r \in Run : Len(queue[r]) = 0 /\ inHand[r] = Nothing /\ outHand[r] = Nothing
        /\ Len(distributed) = 0 /\ read = 0 /\ \A k \in LossKinds : lost[k] = {}
    BY DEF Init
  <1>2. \A n \in Chunk : \A k \in Kinds : \A r \in Holders : ~At(n, k, r)
    BY <1>1, AtDef, RunsAssumption DEF Kinds, Queued, WasDistributed
  <1>3. Placed
    BY <1>2 DEF Placed
  <1>4. Covered
    BY <1>1 DEF Covered
  <1>5. QueuedOnce
    BY <1>1 DEF QueuedOnce
  <1> QED  BY <1>3, <1>4, <1>5 DEF Accounted

(* A chunk or a pill that comes to, or goes from, the queue of one hub.            *)
LEMMA QueuedOnceFor ==
  ASSUME QueuedOnce, NEW r \in Run, \A s \in Run : s # r => queue'[s] = queue[s],
         \A i, j \in 1 .. Len(queue'[r]) : queue'[r][i] = queue'[r][j] /\ queue'[r][i] # Pill => i = j
  PROVE  QueuedOnce'
  <1> SUFFICES ASSUME NEW s \in Run, NEW i \in 1 .. Len(queue'[s]), NEW j \in 1 .. Len(queue'[s]),
                      queue'[s][i] = queue'[s][j], queue'[s][i] # Pill
               PROVE  i = j
    BY DEF QueuedOnce
  <1> QED  BY DEF QueuedOnce

LEMMA QueuedOncePut ==
  ASSUME TypeOK, QueuedOnce, NEW r \in Run, NEW x \in Chunk \cup {Pill}, Put(r, x), x # Pill => ~Queued(r, x)
  PROVE  QueuedOnce'
  <1>1. /\ Len(queue[r]) \in Nat /\ Len(queue'[r]) = Len(queue[r]) + 1
        /\ \A i \in 1 .. Len(queue[r]) : queue'[r][i] = queue[r][i]
        /\ queue'[r][Len(queue[r]) + 1] = x
        /\ \A s \in Run : s # r => queue'[s] = queue[s]
    BY PutQueue
  <1>2. \A i \in 1 .. Len(queue'[r]) : i \in 1 .. Len(queue[r]) \/ i = Len(queue[r]) + 1
    BY <1>1
  <1>3. x # Pill => \A i \in 1 .. Len(queue[r]) : queue[r][i] # x
    BY DEF Queued
  <1>4. \A i, j \in 1 .. Len(queue'[r]) : queue'[r][i] = queue'[r][j] /\ queue'[r][i] # Pill => i = j
    <2> SUFFICES ASSUME NEW i \in 1 .. Len(queue'[r]), NEW j \in 1 .. Len(queue'[r]),
                        queue'[r][i] = queue'[r][j], queue'[r][i] # Pill
                 PROVE  i = j
      OBVIOUS
    <2>1. CASE i \in 1 .. Len(queue[r]) /\ j \in 1 .. Len(queue[r])
      BY <1>1, <2>1 DEF QueuedOnce
    <2>2. CASE i = Len(queue[r]) + 1 \/ j = Len(queue[r]) + 1
      BY <1>1, <1>2, <1>3, <2>2
    <2> QED  BY <1>2, <2>1, <2>2
  <1> QED  BY <1>1, <1>4, QueuedOnceFor

LEMMA QueuedOnceTake ==
  ASSUME TypeOK, QueuedOnce, NEW r \in Run, Take(r)
  PROVE  QueuedOnce' /\ ~(Head(queue[r]) # Pill /\ \E i \in 1 .. Len(queue'[r]) : queue'[r][i] = queue[r][1])
  <1>1. /\ Len(queue[r]) \in Nat \ {0} /\ Len(queue'[r]) = Len(queue[r]) - 1
        /\ \A i \in 1 .. Len(queue'[r]) : queue'[r][i] = queue[r][i + 1]
        /\ \A s \in Run : s # r => queue'[s] = queue[s]
        /\ Head(queue[r]) = queue[r][1]
    BY TakeQueue
  <1>2. \A i \in 1 .. Len(queue'[r]) : i + 1 \in 1 .. Len(queue[r]) /\ i + 1 # 1 /\ 1 \in 1 .. Len(queue[r])
    BY <1>1
  <1>3. \A i, j \in 1 .. Len(queue'[r]) : queue'[r][i] = queue'[r][j] /\ queue'[r][i] # Pill => i = j
    <2> SUFFICES ASSUME NEW i \in 1 .. Len(queue'[r]), NEW j \in 1 .. Len(queue'[r]),
                        queue'[r][i] = queue'[r][j], queue'[r][i] # Pill
                 PROVE  i = j
      OBVIOUS
    <2>1. /\ queue[r][i + 1] = queue[r][j + 1] /\ queue[r][i + 1] # Pill
          /\ i + 1 \in 1 .. Len(queue[r]) /\ j + 1 \in 1 .. Len(queue[r])
      BY <1>1, <1>2
    <2>2. i + 1 = j + 1
      BY <2>1 DEF QueuedOnce
    <2> QED  BY <2>2
  <1>4. QueuedOnce'
    BY <1>1, <1>3, QueuedOnceFor
  <1>5. Head(queue[r]) # Pill => \A i \in 1 .. Len(queue'[r]) : queue'[r][i] # queue[r][1]
    BY <1>1, <1>2 DEF QueuedOnce
  <1> QED  BY <1>4, <1>5

LEMMA AccountedStep == TypeOK /\ Accounted /\ [Next]_vars => Accounted'
  <1> SUFFICES ASSUME TypeOK, Accounted, [Next]_vars PROVE Accounted'
    OBVIOUS
  <1>t. /\ Placed /\ Covered /\ QueuedOnce /\ read \in 0 .. MaxChunks
        /\ \A n \in Chunk : n # 0
        /\ \A r \in Run : r # 0 /\ r \in Holders
        /\ 0 \in Holders
    BY RunsAssumption DEF Accounted, TypeOK, Holders
  (* a pill comes, or goes                                                      *)
  <1>1. ASSUME NEW r \in Run, Adds(r)
        PROVE  Accounted'
    <2>1. QueuedOnce'
      BY <1>1, <1>t, QueuedOncePut DEF Adds
    <2>2. \A n \in Chunk : \A s \in Run : Queued(s, n)' <=> Queued(s, n)
      BY <1>1, <1>t, PutQueue DEF Adds
    <2>3. \A n \in Chunk : \A k \in Kinds : \A s \in Holders : At(n, k, s)' <=> At(n, k, s)
      BY <1>1, <2>2, AtDef, AtDefNext DEF Adds, Others, Kinds, WasDistributed
    <2> QED  BY <1>1, <1>t, <2>1, <2>3, ChunksStay DEF Adds, Others, Accounted
  <1>2. ASSUME NEW r \in Run, Take(r), Head(queue[r]) = Pill, Others, lost' = lost
        PROVE  Accounted'
    <2>1. QueuedOnce'
      BY <1>2, <1>t, QueuedOnceTake
    <2>2. \A n \in Chunk : \A s \in Run : Queued(s, n)' <=> Queued(s, n)
      BY <1>2, <1>t, TakeQueue
    <2>3. \A n \in Chunk : \A k \in Kinds : \A s \in Holders : At(n, k, s)' <=> At(n, k, s)
      BY <1>2, <2>2, AtDef, AtDefNext DEF Others, Kinds, WasDistributed
    <2> QED  BY <1>2, <1>t, <2>1, <2>3, ChunksStay DEF Others, Accounted
  (* stop() takes a chunk off the queue: evicted or drained                       *)
  <1>3. ASSUME NEW r \in Run, NEW q \in LossKinds, GivesUp(r, q)
        PROVE  Accounted'
    <2>1. QueuedOnce'
      BY <1>3, <1>t, QueuedOnceTake DEF GivesUp
    <2>2. CASE Head(queue[r]) = Pill
      <3>1. lost' = lost
        BY <1>3, <2>2 DEF GivesUp, Lost, TypeOK
      <3> QED  BY <1>2, <1>3, <2>2, <3>1 DEF GivesUp
    <2>3. CASE Head(queue[r]) # Pill
      <3>1. PICK h \in Chunk : h = Head(queue[r])
        BY <1>3, <1>t, <2>3, TakeQueue DEF GivesUp
      <3>2. /\ \A n \in Chunk : \A s \in Run : Queued(s, n)' <=> Queued(s, n) /\ ~(s = r /\ n = h)
            /\ Queued(r, h)
        BY <1>3, <1>t, <3>1, TakeQueue DEF GivesUp
      <3>3. \A n \in Chunk : \A k \in LossKinds : n \in lost'[k] <=> n \in lost[k] \/ (n = h /\ k = q)
        BY <1>3, <3>1, <1>t DEF GivesUp, Lost, TypeOK
      <3>4. h <= read /\ \A k \in Kinds : \A s \in Holders : At(h, k, s) <=> k = "queue" /\ s = r
        <4>1. At(h, "queue", r) /\ "queue" \in Kinds
          BY <3>2, AtDef DEF Kinds
        <4> QED  BY <1>t, <4>1 DEF Placed
      <3>5. \A k \in Kinds : \A s \in Holders : At(h, k, s)' <=> k = q /\ s = 0
        BY <1>3, <1>t, <3>2, <3>3, <3>4, AtDef, AtDefNext DEF GivesUp, Others, Kinds, LossKinds, WasDistributed
      <3>6. \A n \in Chunk : \A k \in Kinds : \A s \in Holders : n # h => (At(n, k, s)' <=> At(n, k, s))
        BY <1>3, <3>2, <3>3, AtDef, AtDefNext DEF GivesUp, Others, Kinds, WasDistributed
      <3>7. /\ read' \in 0 .. MaxChunks /\ h <= read' /\ read <= read' /\ q \in Kinds
            /\ \A n \in 1 .. read' : n \in 1 .. read \/ n = h
        BY <1>3, <1>t, <3>4 DEF GivesUp, Others, Kinds
      <3> QED  BY <1>t, <2>1, <3>5, <3>6, <3>7, ChunkGoes DEF Accounted
    <2> QED  BY <2>2, <2>3
  (* the input thread reads a new chunk, then puts it in the queue or drops it      *)
  <1>4. ASSUME NEW r \in Run, ReadChunk(r)
        PROVE  Accounted'
    <2> PICK h \in Chunk : h = read + 1
      BY <1>4, RunsAssumption DEF ReadChunk, TypeOK
    <2>1. /\ read' = h /\ inHand' = [inHand EXCEPT ![r] = h] /\ inHand[r] = Nothing
          /\ UNCHANGED <<queue, outHand, distributed, lost>>
          /\ read' \in 0 .. MaxChunks /\ h <= read' /\ read <= read' /\ "in" \in Kinds
          /\ \A n \in 1 .. read' : n \in 1 .. read \/ n = h
      BY <1>4, RunsAssumption DEF ReadChunk, InputGoes, bcastVars, TypeOK, Kinds
    <2>2. \A k \in Kinds : \A s \in Holders : ~At(h, k, s)
      BY <1>t, <2>1 DEF Placed
    <2>3. \A n \in Chunk : \A s \in Run : inHand'[s] = n <=> inHand[s] = n \/ (s = r /\ n = h)
      BY <1>t, <2>1 DEF TypeOK
    <2>4. \A n \in Chunk : \A k \in Kinds : \A s \in Holders : At(n, k, s)' <=> At(n, k, s) \/ (n = h /\ k = "in" /\ s = r)
      BY <2>1, <2>3, AtDef, AtDefNext DEF Kinds, Queued, WasDistributed
    <2>5. Placed' /\ Covered'
      <3>1. \A k \in Kinds : \A s \in Holders : At(h, k, s)' <=> k = "in" /\ s = r
        BY <2>2, <2>4
      <3>2. \A n \in Chunk : \A k \in Kinds : \A s \in Holders : n # h => (At(n, k, s)' <=> At(n, k, s))
        BY <2>4
      <3> QED  BY <1>t, <2>1, <3>1, <3>2, ChunkGoes
    <2>6. QueuedOnce'
      BY <1>t, <2>1 DEF QueuedOnce
    <2> QED  BY <2>5, <2>6 DEF Accounted
  <1>5. ASSUME NEW r \in Run, PutChunk(r)
        PROVE  Accounted'
    <2>1. PICK h \in Chunk : h = inHand[r]
      BY <1>5 DEF PutChunk, InputGoes, TypeOK
    <2>2. h <= read /\ \A k \in Kinds : \A s \in Holders : At(h, k, s) <=> k = "in" /\ s = r
      <3>1. At(h, "in", r) /\ "in" \in Kinds
        BY <2>1, AtDef DEF Kinds
      <3> QED  BY <1>t, <3>1 DEF Placed
    <2>3. \A n \in Chunk : \A s \in Run : inHand'[s] = n <=> inHand[s] = n /\ ~(s = r /\ n = h)
      BY <1>5, <1>t, <2>1 DEF PutChunk, TypeOK
    <2>4. /\ UNCHANGED <<outHand, distributed>> /\ read' \in 0 .. MaxChunks /\ h <= read' /\ read <= read'
          /\ \A n \in 1 .. read' : n \in 1 .. read \/ n = h
      BY <1>5, <1>t, <2>2 DEF PutChunk, bcastVars
    <2>5. CASE Put(r, h) /\ lost' = lost
      <3>1. \A n \in Chunk : \A s \in Run : Queued(s, n)' <=> Queued(s, n) \/ (s = r /\ n = h)
        BY <2>5, PutQueue
      <3>2. QueuedOnce'
        BY <1>t, <2>2, <2>5, AtDef, QueuedOncePut DEF Kinds
      <3>3. \A k \in Kinds : \A s \in Holders : At(h, k, s)' <=> k = "queue" /\ s = r
        BY <1>t, <2>2, <2>3, <2>4, <2>5, <3>1, AtDef, AtDefNext DEF Kinds, LossKinds, WasDistributed
      <3>4. \A n \in Chunk : \A k \in Kinds : \A s \in Holders : n # h => (At(n, k, s)' <=> At(n, k, s))
        BY <2>3, <2>4, <2>5, <3>1, AtDef, AtDefNext DEF Kinds, WasDistributed
      <3>5. "queue" \in Kinds
        BY DEF Kinds
      <3> QED  BY <1>t, <2>4, <3>2, <3>3, <3>4, <3>5, ChunkGoes DEF Accounted
    <2>6. CASE Lost("overflow", h) /\ queue' = queue
      <3>1. \A n \in Chunk : \A k \in LossKinds : n \in lost'[k] <=> n \in lost[k] \/ (n = h /\ k = "overflow")
        BY <1>t, <2>6 DEF Lost, TypeOK
      <3>2. QueuedOnce'
        BY <1>t, <2>6 DEF QueuedOnce
      <3>3. \A k \in Kinds : \A s \in Holders : At(h, k, s)' <=> k = "overflow" /\ s = 0
        BY <1>t, <2>2, <2>3, <2>4, <2>6, <3>1, StillQueue, AtDef, AtDefNext DEF Kinds, LossKinds, WasDistributed
      <3>4. \A n \in Chunk : \A k \in Kinds : \A s \in Holders : n # h => (At(n, k, s)' <=> At(n, k, s))
        BY <2>3, <2>4, <2>6, <3>1, StillQueue, AtDef, AtDefNext DEF Kinds, WasDistributed
      <3>5. "overflow" \in Kinds
        BY DEF Kinds, LossKinds
      <3> QED  BY <1>t, <2>4, <3>2, <3>3, <3>4, <3>5, ChunkGoes DEF Accounted
    <2> QED  BY <1>5, <2>1, <2>5, <2>6 DEF PutChunk
  (* the broadcast thread takes a chunk, then hands it to the destinations          *)
  <1>6. ASSUME NEW r \in Run, GetChunk(r)
        PROVE  Accounted'
    <2>1. Take(r) /\ Head(queue[r]) # Pill /\ outHand[r] = Nothing /\ UNCHANGED <<inHand, read, distributed, lost>>
      BY <1>6 DEF GetChunk, BcastGoes, inputVars, TypeOK
    <2>2. PICK h \in Chunk : h = Head(queue[r])
      BY <1>t, <2>1, TakeQueue
    <2>3. /\ \A n \in Chunk : \A s \in Run : Queued(s, n)' <=> Queued(s, n) /\ ~(s = r /\ n = h)
          /\ Queued(r, h)
      BY <1>t, <2>1, <2>2, TakeQueue
    <2>4. \A n \in Chunk : \A s \in Run : outHand'[s] = n <=> outHand[s] = n \/ (s = r /\ n = h)
      BY <1>6, <1>t, <2>1, <2>2 DEF GetChunk, TypeOK
    <2>5. h <= read /\ \A k \in Kinds : \A s \in Holders : At(h, k, s) <=> k = "queue" /\ s = r
      <3>1. At(h, "queue", r) /\ "queue" \in Kinds
        BY <2>3, AtDef DEF Kinds
      <3> QED  BY <1>t, <3>1 DEF Placed
    <2>6. \A k \in Kinds : \A s \in Holders : At(h, k, s)' <=> k = "out" /\ s = r
      BY <1>t, <2>1, <2>3, <2>4, <2>5, AtDef, AtDefNext DEF Kinds, LossKinds, WasDistributed
    <2>7. \A n \in Chunk : \A k \in Kinds : \A s \in Holders : n # h => (At(n, k, s)' <=> At(n, k, s))
      BY <2>1, <2>3, <2>4, AtDef, AtDefNext DEF Kinds, WasDistributed
    <2>8. /\ read' \in 0 .. MaxChunks /\ h <= read' /\ read <= read' /\ "out" \in Kinds
          /\ \A n \in 1 .. read' : n \in 1 .. read \/ n = h
      BY <1>t, <2>1, <2>5 DEF Kinds
    <2> QED  BY <1>t, <2>1, <2>6, <2>7, <2>8, ChunkGoes, QueuedOnceTake DEF Accounted
  <1>7. ASSUME NEW r \in Run, Distribute(r)
        PROVE  Accounted'
    <2>1. PICK h \in Chunk : h = outHand[r]
      BY <1>7 DEF Distribute, BcastGoes, TypeOK
    <2>2. UNCHANGED <<inHand, read, queue, lost>>
      BY <1>7 DEF Distribute, inputVars
    <2>3. \A n \in Chunk : \A s \in Run : outHand'[s] = n <=> outHand[s] = n /\ ~(s = r /\ n = h)
      BY <1>7, <1>t, <2>1 DEF Distribute, TypeOK
    <2>4. \A n : WasDistributed(n)' <=> WasDistributed(n) \/ n = h
      BY <1>7, <2>1, AppendDistributed DEF Distribute, TypeOK
    <2>5. h <= read /\ \A k \in Kinds : \A s \in Holders : At(h, k, s) <=> k = "out" /\ s = r
      <3>1. At(h, "out", r) /\ "out" \in Kinds
        BY <2>1, AtDef DEF Kinds
      <3> QED  BY <1>t, <3>1 DEF Placed
    <2>6. \A k \in Kinds : \A s \in Holders : At(h, k, s)' <=> k = "distributed" /\ s = 0
      BY <1>t, <2>2, <2>3, <2>4, <2>5, StillQueue, AtDef, AtDefNext DEF Kinds, LossKinds
    <2>7. \A n \in Chunk : \A k \in Kinds : \A s \in Holders : n # h => (At(n, k, s)' <=> At(n, k, s))
      BY <2>2, <2>3, <2>4, StillQueue, AtDef, AtDefNext DEF Kinds
    <2>8. /\ read' \in 0 .. MaxChunks /\ h <= read' /\ read <= read' /\ "distributed" \in Kinds
          /\ \A n \in 1 .. read' : n \in 1 .. read \/ n = h
      BY <1>t, <2>2, <2>5 DEF Kinds
    <2>9. QueuedOnce'
      BY <1>t, <2>2 DEF QueuedOnce
    <2> QED  BY <1>t, <2>6, <2>7, <2>8, <2>9, ChunkGoes DEF Accounted
  <1>8. CASE Still
    <2>1. \A n \in Chunk : \A k \in Kinds : \A s \in Holders : At(n, k, s)' <=> At(n, k, s)
      BY <1>8, StillQueue, AtDef, AtDefNext DEF Still, Others, Kinds, WasDistributed
    <2> QED  BY <1>8, <1>t, <2>1, ChunksStay DEF Still, Others, Accounted, QueuedOnce
  <1> QED  BY <1>1, <1>2, <1>3, <1>4, <1>5, <1>6, <1>7, <1>8, StepKinds DEF Skips

-----------------------------------------------------------------------------
LEMMA ReleasedInit == Init => Released
  BY DEF Init, Released, HubEnded, Starting, Stopping

LEMMA NothingForgotten ==
  ASSUME TypeOK, [Next]_vars
  PROVE  (raised => raised') /\ (gaveUp => gaveUp')
  BY DEF TypeOK, Next, Rest, vars, mainVars, EngineStart, EngineStop, StartSteps, ConnectInput, Launch,
         StopSteps, PutPill, Evict, PutPillAgain, JoinInput, JoinBroadcast, StopDestinations, DisconnectInput, Drain,
         InputSteps, InputLoop, Reconnect, ReconnectOk, ReconnectFail, ReconnectWait, ReadChunk, ReadNothing,
         ReadError, PutChunk, BroadcastSteps, BroadcastLoop, GetEmpty, GetPill, GetChunk, Distribute

(* What Released says of a stop() that has not given up.                          *)
Clean ==
  /\ \A r \in Run : r # run => HubEnded(r) /\ ~active[r]
  /\ mpc \in Starting => ~engine
  /\ mpc \in Stopping => engine
  /\ run \in Run =>
       /\ active[run] <=> mpc = "idle" /\ engine
       /\ mpc = "idle" /\ ~engine => HubEnded(run)
       /\ mpc = "connect" => HubEnded(run)
       /\ mpc = "launch" => queue[run] = <<>> /\ ~serving[run]
       /\ mpc \in {"launch", "joinBroadcast", "destinations", "disconnect", "drain"} => ipc[run] = "off"
       /\ mpc \in {"launch", "destinations", "disconnect", "drain"} => bpc[run] = "off"
       /\ mpc \in {"disconnect", "drain"} => ~serving[run]
       /\ mpc = "drain" => ~connected[run]

LEMMA ReleasedStep == TypeOK /\ Released /\ [Next]_vars => Released'
  <1> SUFFICES ASSUME TypeOK, [Next]_vars, Clean, ~raised, ~gaveUp, ~raised', ~gaveUp'
               PROVE  Clean'
    BY NothingForgotten DEF Released, Clean
  <1> USE DEF Clean, Starting, Stopping
  <1>1. CASE UNCHANGED vars
    BY <1>1 DEF vars, mainVars, inputVars, bcastVars, HubEnded
  <1>2. CASE EngineStart
    <2>1. /\ mpc = "idle" /\ ~engine /\ mpc' = "connect" /\ run' = run + 1 /\ run' \in Run /\ run # run'
          /\ UNCHANGED <<engine, active, serving, connected, queue, ipc, bpc>>
      BY <1>2, RunsAssumption DEF EngineStart, MainGoes, TypeOK, inputVars, bcastVars
    <2>2. \A r \in Run : HubEnded(r)' <=> HubEnded(r)
      BY <2>1 DEF HubEnded
    <2>3. \A r \in Run : HubEnded(r) /\ ~active[r]
      BY <2>1 DEF TypeOK
    <2>4. HubEnded(run')
      BY <2>1, <2>3
    <2>5. ipc'[run'] = "off" /\ ~active'[run']
      BY <2>1, <2>3 DEF HubEnded
    <2> QED  BY <2>1, <2>2, <2>3, <2>5
  <1>3. CASE StartSteps
    <2>1. run \in Run /\ run' = run /\ \A r \in Run : r # run => HubEnded(r)' /\ ~active'[r]
      <3>1. run \in Run /\ run' = run
        BY <1>3 DEF StartSteps, ConnectInput, Launch, MainGoes, TypeOK
      <3>2. /\ UNCHANGED queue
            /\ \A r \in Run : r # run => /\ ipc'[r] = ipc[r] /\ bpc'[r] = bpc[r] /\ serving'[r] = serving[r]
                                        /\ connected'[r] = connected[r] /\ active'[r] = active[r]
        <4>1. CASE ConnectInput
          BY <4>1 DEF ConnectInput, TypeOK, inputVars, bcastVars
        <4>2. CASE Launch
          BY <4>2 DEF Launch, TypeOK
        <4> QED  BY <1>3, <4>1, <4>2 DEF StartSteps
      <3> QED  BY <3>1, <3>2 DEF HubEnded
    <2>2. CASE ConnectInput
      BY <2>1, <2>2 DEF ConnectInput, MainGoes, TypeOK, HubEnded, inputVars, bcastVars
    <2>3. CASE Launch
      BY <2>1, <2>3 DEF Launch, MainGoes, TypeOK
    <2> QED  BY <1>3, <2>2, <2>3 DEF StartSteps
  <1>4. CASE EngineStop
    <2>1. /\ run \in Run /\ engine /\ mpc = "idle" /\ active[run] /\ mpc' = "pill"
          /\ active' = [active EXCEPT ![run] = FALSE]
          /\ UNCHANGED <<engine, run, serving, connected, queue, ipc, bpc>>
      BY <1>4 DEF EngineStop, MainGoes, TypeOK, inputVars, bcastVars
    <2> QED  BY <2>1 DEF TypeOK, HubEnded
  <1>5. CASE StopSteps
    <2>1. /\ run \in Run /\ run' = run /\ mpc \in Stopping /\ engine /\ ~active[run] /\ active' = active
          /\ \A r \in Run : r # run => HubEnded(r)' /\ ~active'[r]
      <3>1. /\ run' = run /\ mpc \in Stopping /\ active' = active /\ UNCHANGED <<ipc, bpc>>
        BY <1>5 DEF StopSteps, PutPill, Evict, PutPillAgain, JoinInput, JoinBroadcast, StopDestinations,
                    DisconnectInput, Drain, MainGoes, Stopping, inputVars, bcastVars
      <3>2. run \in Run /\ engine /\ ~active[run]
        BY <3>1 DEF TypeOK, Stopping
      <3>3. \A r \in Run : r # run => queue'[r] = queue[r] /\ serving'[r] = serving[r] /\ connected'[r] = connected[r]
        BY <1>5, <3>2 DEF StopSteps, PutPill, Evict, PutPillAgain, JoinInput, JoinBroadcast, StopDestinations,
                    DisconnectInput, Drain, Put, Take, TypeOK
      <3> QED  BY <3>1, <3>2, <3>3 DEF HubEnded
    <2>2. CASE PutPill \/ Evict \/ PutPillAgain
      BY <2>1, <2>2 DEF PutPill, Evict, PutPillAgain, MainGoes
    <2>3. CASE JoinInput \/ JoinBroadcast
      BY <2>1, <2>3 DEF JoinInput, JoinBroadcast, MainGoes, inputVars, bcastVars
    <2>4. CASE StopDestinations
      BY <2>1, <2>4 DEF StopDestinations, MainGoes, inputVars, bcastVars, TypeOK
    <2>5. CASE DisconnectInput
      BY <2>1, <2>5 DEF DisconnectInput, MainGoes, inputVars, bcastVars, TypeOK
    <2>6. CASE Drain
      BY <2>1, <2>6 DEF Drain, MainGoes, inputVars, bcastVars, HubEnded
    <2> QED  BY <1>5, <2>2, <2>3, <2>4, <2>5, <2>6 DEF StopSteps
  <1>6. ASSUME NEW r \in Run, InputSteps(r)
        PROVE  Clean'
    <2>0. ipc[r] # "off" /\ UNCHANGED <<engine, run, mpc, active, serving, bpc>>
      BY <1>6 DEF InputSteps, InputLoop, Reconnect, ReconnectOk, ReconnectFail, ReconnectWait, ReadChunk, ReadNothing,
                  ReadError, PutChunk, InputGoes, mainVars, bcastVars
    <2>1. /\ ipc[r] # "off" /\ UNCHANGED <<engine, run, mpc, active, serving, bpc>>
          /\ \A s \in Run : s # r => ipc'[s] = ipc[s] /\ connected'[s] = connected[s] /\ queue'[s] = queue[s]
      BY <1>6, <2>0 DEF InputSteps, InputLoop, Reconnect, ReconnectOk, ReconnectFail, ReconnectWait, ReadChunk, ReadNothing,
                  ReadError, PutChunk, InputGoes, Put, TypeOK, mainVars, bcastVars
    <2>2. r = run /\ run \in Run /\ ~HubEnded(run)
      BY <2>1 DEF HubEnded
    <2>3. \A s \in Run : s # run => HubEnded(s)'
      BY <2>1, <2>2 DEF HubEnded
    <2>4. mpc \notin {"connect", "launch", "joinBroadcast", "destinations", "disconnect", "drain"} /\ (mpc = "idle" => engine)
      BY <2>1, <2>2
    <2> QED  BY <2>1, <2>2, <2>3, <2>4
  <1>7. ASSUME NEW r \in Run, BroadcastSteps(r)
        PROVE  Clean'
    <2>1. /\ bpc[r] # "off" /\ UNCHANGED <<engine, run, mpc, active, serving, connected, ipc>>
          /\ \A s \in Run : s # r => bpc'[s] = bpc[s] /\ queue'[s] = queue[s]
      BY <1>7 DEF BroadcastSteps, BroadcastLoop, GetEmpty, GetPill, GetChunk, Distribute, BcastGoes, Take,
                  TypeOK, mainVars, inputVars
    <2>2. r = run /\ run \in Run /\ ~HubEnded(run)
      BY <2>1 DEF HubEnded
    <2>3. \A s \in Run : s # run => HubEnded(s)'
      BY <2>1, <2>2 DEF HubEnded
    <2>4. mpc \notin {"connect", "launch", "destinations", "disconnect", "drain"} /\ (mpc = "idle" => engine)
      BY <2>1, <2>2
    <2> QED  BY <2>1, <2>2, <2>3, <2>4
  <1> QED  BY <1>1, <1>2, <1>3, <1>4, <1>5, <1>6, <1>7 DEF Next, Rest

(* StopReleases, for every capacity, number of starts and number of chunks: unless    *)
(* queue.Full escaped from a stop() or a join gave up, an engine that is stopped has   *)
(* released the input and the destinations of every hub it ever made, and neither     *)
(* thread of any of them lives.                                                 *)
THEOREM StoppedHoldsNothing == Spec => []StopReleases
  <1> DEFINE IInv == TypeOK /\ Accounted /\ Released
  <1>1. Init => IInv
    BY TypeInit, AccountedInit, ReleasedInit
  <1>2. IInv /\ [Next]_vars => IInv'
    BY TypeStep, AccountedStep, ReleasedStep DEF Accounted
  <1>3. IInv => StopReleases
    BY DEF Released, StopReleases, Stopped, TypeOK
  <1> QED  BY <1>1, <1>2, <1>3, PTL DEF Spec

-----------------------------------------------------------------------------
(* What Ordered says of a run whose stop() calls have not given up.                *)
Sorted == \A i, j \in 1 .. Len(distributed) : i < j => distributed[i] < distributed[j]
QueueInOrder(r) ==
  \A i \in 1 .. Len(queue[r]) : queue[r][i] # Pill =>
    /\ \A n \in Chunk : WasDistributed(n) => n < queue[r][i]
    /\ outHand[r] < queue[r][i]
    /\ \A j \in 1 .. Len(queue[r]) : i < j /\ queue[r][j] # Pill => queue[r][i] < queue[r][j]
RunInOrder(r) ==
  /\ inHand[r] # Nothing => inHand[r] = read
  /\ outHand[r] # Nothing => \A n \in Chunk : WasDistributed(n) => n < outHand[r]
  /\ QueueInOrder(r)
InOrder == Sorted /\ \A r \in Run : RunInOrder(r)

LEMMA OrderedInit == Init => Ordered
  <1> SUFFICES ASSUME Init PROVE Ordered
    OBVIOUS
  <1>1. /\ \A r \in Run : Len(queue[r]) = 0 /\ inHand[r] = Nothing /\ outHand[r] = Nothing
        /\ Len(distributed) = 0
    BY DEF Init
  <1> QED  BY <1>1 DEF Ordered

LEMMA OrderedStep ==
  TypeOK /\ Accounted /\ Released /\ Ordered /\ [Next]_vars => Ordered'
  <1> SUFFICES ASSUME TypeOK, Accounted, Clean, InOrder, [Next]_vars
               PROVE  InOrder'
    BY NothingForgotten DEF Released, Clean, Ordered, InOrder, Sorted, RunInOrder, QueueInOrder
  <1>t. /\ Placed /\ QueuedOnce /\ \A n \in Chunk : n # 0 /\ n \in Nat
        /\ \A r \in Run : r \in Holders
        /\ 0 \in Holders /\ {"in", "queue", "out", "distributed"} \subseteq Kinds
    BY RunsAssumption DEF Accounted, Holders, Kinds
  <1>h. \A r \in Run : \A i \in 1 .. Len(queue[r]) : queue[r][i] \in Chunk \cup {Pill}
    BY DEF TypeOK
  (* only the threads of this run's hub hold or queue anything                     *)
  <1>r. \A r \in Run : r # run => Len(queue[r]) = 0 /\ inHand[r] = Nothing /\ outHand[r] = Nothing /\ ipc[r] = "off" /\ bpc[r] = "off"
    BY DEF Clean, HubEnded, TypeOK
  <1>1. ASSUME NEW r \in Run, Put(r, Pill), Others
        PROVE  InOrder'
    <2>1. /\ Len(queue[r]) \in Nat /\ Len(queue'[r]) = Len(queue[r]) + 1
          /\ \A i \in 1 .. Len(queue[r]) : queue'[r][i] = queue[r][i]
          /\ queue'[r][Len(queue[r]) + 1] = Pill
          /\ \A s \in Run : s # r => queue'[s] = queue[s]
      BY <1>1, PutQueue
    <2>2. \A i \in 1 .. Len(queue'[r]) : i \in 1 .. Len(queue[r]) \/ i = Len(queue[r]) + 1
      BY <2>1
    <2>3. \A i \in 1 .. Len(queue'[r]) : queue'[r][i] # Pill => i \in 1 .. Len(queue[r]) /\ queue'[r][i] = queue[r][i]
      BY <2>1, <2>2
    <2>4. UNCHANGED <<inHand, outHand, read, distributed>> /\ \A n : WasDistributed(n)' <=> WasDistributed(n)
      BY <1>1 DEF Others, WasDistributed
    <2>5. QueueInOrder(r)'
      BY <2>3, <2>4 DEF InOrder, RunInOrder, QueueInOrder
    <2>6. \A s \in Run : s # r => QueueInOrder(s)'
      BY <2>1, <2>4 DEF InOrder, RunInOrder, QueueInOrder
    <2> QED  BY <2>4, <2>5, <2>6 DEF InOrder, RunInOrder, Sorted
  <1>2. ASSUME NEW r \in Run, Take(r), Others
        PROVE  InOrder'
    <2>1. /\ Len(queue[r]) \in Nat /\ Len(queue'[r]) = Len(queue[r]) - 1
          /\ \A i \in 1 .. Len(queue'[r]) : queue'[r][i] = queue[r][i + 1]
          /\ \A s \in Run : s # r => queue'[s] = queue[s]
      BY <1>2, <1>t, TakeQueue
    <2>2. \A i, j \in 1 .. Len(queue'[r]) : i + 1 \in 1 .. Len(queue[r]) /\ (i < j => i + 1 < j + 1)
      BY <2>1
    <2>3. UNCHANGED <<inHand, outHand, read, distributed>> /\ \A n : WasDistributed(n)' <=> WasDistributed(n)
      BY <1>2 DEF Others, WasDistributed
    <2>4. QueueInOrder(r)'
      <3> SUFFICES ASSUME NEW i \in 1 .. Len(queue'[r]), queue'[r][i] # Pill
                   PROVE  /\ \A n \in Chunk : WasDistributed(n) => n < queue'[r][i]
                          /\ outHand[r] < queue'[r][i]
                          /\ \A j \in 1 .. Len(queue'[r]) : i < j /\ queue'[r][j] # Pill => queue'[r][i] < queue'[r][j]
        BY <2>3 DEF QueueInOrder
      <3>1. queue'[r][i] = queue[r][i + 1] /\ i + 1 \in 1 .. Len(queue[r]) /\ QueueInOrder(r)
        BY <2>1, <2>2 DEF InOrder, RunInOrder
      <3>2. \A j \in 1 .. Len(queue'[r]) : i < j => queue'[r][j] = queue[r][j + 1] /\ j + 1 \in 1 .. Len(queue[r]) /\ i + 1 < j + 1
        BY <2>1, <2>2
      <3> QED  BY <3>1, <3>2 DEF QueueInOrder
    <2>5. \A s \in Run : s # r => QueueInOrder(s)'
      BY <2>1, <2>3 DEF InOrder, RunInOrder, QueueInOrder
    <2> QED  BY <2>3, <2>4, <2>5 DEF InOrder, RunInOrder, Sorted
  <1>3. ASSUME NEW r \in Run, ReadChunk(r)
        PROVE  InOrder'
    <2>1. r = run
      BY <1>3, <1>r DEF ReadChunk, InputGoes
    <2>2. \A s \in Run : inHand'[s] # Nothing => inHand'[s] = read'
      BY <1>3, <1>r, <2>1 DEF ReadChunk, TypeOK
    <2>3. UNCHANGED <<queue, outHand, distributed>> /\ \A n : WasDistributed(n)' <=> WasDistributed(n)
      BY <1>3 DEF ReadChunk, bcastVars, WasDistributed
    <2>4. Sorted' /\ \A s \in Run : QueueInOrder(s)'
      BY <2>3 DEF InOrder, RunInOrder, QueueInOrder, Sorted
    <2> QED  BY <2>2, <2>3, <2>4 DEF InOrder, RunInOrder
  <1>4. ASSUME NEW r \in Run, PutChunk(r)
        PROVE  InOrder'
    <2>1. PICK h \in Chunk : h = inHand[r]
      BY <1>4 DEF PutChunk, InputGoes, TypeOK
    <2>2. h = read /\ At(h, "in", r)
      BY <2>1, <1>t, AtDef DEF InOrder, RunInOrder
    <2>3. \A n \in Chunk : WasDistributed(n) \/ Queued(r, n) \/ outHand[r] = n => n < h
      <3>1. ASSUME NEW n \in Chunk, NEW k \in Kinds, NEW s \in Holders, At(n, k, s), k # "in"
            PROVE  n < h
        <4>1. n <= read /\ n # h
          BY <3>1, <2>2, <1>t DEF Placed
        <4> QED  BY <4>1, <2>2, <1>t
      <3> QED  BY <1>t, <3>1, AtDef
    <2>4. /\ \A s \in Run : inHand'[s] # Nothing => inHand'[s] = read'
          /\ UNCHANGED <<outHand, distributed>> /\ \A n : WasDistributed(n)' <=> WasDistributed(n)
      BY <1>4 DEF PutChunk, bcastVars, WasDistributed, InOrder, RunInOrder, TypeOK
    <2>5. CASE Put(r, h)
      <3>1. /\ Len(queue[r]) \in Nat /\ Len(queue'[r]) = Len(queue[r]) + 1
            /\ \A i \in 1 .. Len(queue[r]) : queue'[r][i] = queue[r][i]
            /\ queue'[r][Len(queue[r]) + 1] = h
            /\ \A s \in Run : s # r => queue'[s] = queue[s]
        BY <2>5, PutQueue
      <3>2. \A i \in 1 .. Len(queue'[r]) : i \in 1 .. Len(queue[r]) \/ i = Len(queue[r]) + 1
        BY <3>1
      <3>3. \A i \in 1 .. Len(queue[r]) : queue[r][i] # Pill => queue[r][i] < h
        BY <1>h, <2>3 DEF Queued
      <3>4. outHand[r] < h
        BY <1>t, <2>3 DEF TypeOK
      <3>5. QueueInOrder(r)'
        <4> SUFFICES ASSUME NEW i \in 1 .. Len(queue'[r]), queue'[r][i] # Pill
                     PROVE  /\ \A n \in Chunk : WasDistributed(n) => n < queue'[r][i]
                            /\ outHand[r] < queue'[r][i]
                            /\ \A j \in 1 .. Len(queue'[r]) : i < j /\ queue'[r][j] # Pill => queue'[r][i] < queue'[r][j]
          BY <2>4 DEF QueueInOrder
        <4>1. CASE i \in 1 .. Len(queue[r])
          BY <3>1, <3>2, <3>3, <4>1 DEF InOrder, RunInOrder, QueueInOrder
        <4>2. CASE i = Len(queue[r]) + 1
          BY <2>3, <3>1, <3>2, <3>4, <4>2
        <4> QED  BY <3>2, <4>1, <4>2
      <3>6. \A s \in Run : s # r => QueueInOrder(s)'
        BY <2>4, <3>1 DEF InOrder, RunInOrder, QueueInOrder
      <3> QED  BY <2>4, <3>5, <3>6 DEF InOrder, RunInOrder, Sorted
    <2>6. CASE queue' = queue
      BY <2>4, <2>6 DEF InOrder, RunInOrder, QueueInOrder, Sorted
    <2> QED  BY <1>4, <2>1, <2>5, <2>6 DEF PutChunk
  <1>5. ASSUME NEW r \in Run, GetChunk(r)
        PROVE  InOrder'
    <2>1. /\ Len(queue[r]) \in Nat \ {0} /\ Len(queue'[r]) = Len(queue[r]) - 1
          /\ \A i \in 1 .. Len(queue'[r]) : queue'[r][i] = queue[r][i + 1]
          /\ \A s \in Run : s # r => queue'[s] = queue[s]
          /\ queue[r][1] # Pill /\ outHand' = [outHand EXCEPT ![r] = queue[r][1]]
      BY <1>5, <1>t, TakeQueue DEF GetChunk
    <2>2. \A i, j \in 1 .. Len(queue'[r]) :
            i + 1 \in 1 .. Len(queue[r]) /\ 1 \in 1 .. Len(queue[r]) /\ 1 < i + 1 /\ (i < j => i + 1 < j + 1)
      BY <2>1
    <2>0. 1 \in 1 .. Len(queue[r])
      BY <2>1
    <2>3. UNCHANGED <<inHand, read, distributed>> /\ \A n : WasDistributed(n)' <=> WasDistributed(n)
      BY <1>5 DEF GetChunk, inputVars, WasDistributed
    <2>4. outHand'[r] = queue[r][1] /\ \A s \in Run : s # r => outHand'[s] = outHand[s]
      BY <2>1 DEF TypeOK
    <2>5. \A i \in 1 .. Len(queue'[r]) : queue'[r][i] # Pill =>
            /\ \A n \in Chunk : WasDistributed(n) => n < queue'[r][i]
            /\ queue[r][1] < queue'[r][i]
            /\ \A j \in 1 .. Len(queue'[r]) : i < j /\ queue'[r][j] # Pill => queue'[r][i] < queue'[r][j]
      <3> SUFFICES ASSUME NEW i \in 1 .. Len(queue'[r]), queue'[r][i] # Pill
                   PROVE  /\ \A n \in Chunk : WasDistributed(n) => n < queue'[r][i]
                          /\ queue[r][1] < queue'[r][i]
                          /\ \A j \in 1 .. Len(queue'[r]) : i < j /\ queue'[r][j] # Pill => queue'[r][i] < queue'[r][j]
        OBVIOUS
      <3>1. queue'[r][i] = queue[r][i + 1] /\ i + 1 \in 1 .. Len(queue[r]) /\ 1 < i + 1 /\ QueueInOrder(r)
        BY <2>1, <2>2 DEF InOrder, RunInOrder
      <3>2. \A j \in 1 .. Len(queue'[r]) : i < j => queue'[r][j] = queue[r][j + 1] /\ j + 1 \in 1 .. Len(queue[r]) /\ i + 1 < j + 1
        BY <2>1, <2>2
      <3> QED  BY <2>0, <2>1, <3>1, <3>2 DEF QueueInOrder
    <2>6. \A n \in Chunk : WasDistributed(n) => n < queue[r][1]
      BY <2>0, <2>1 DEF InOrder, RunInOrder, QueueInOrder
    <2>7. RunInOrder(r)'
      BY <2>3, <2>4, <2>5, <2>6 DEF InOrder, RunInOrder, QueueInOrder
    <2>8. \A s \in Run : s # r => RunInOrder(s)'
      BY <2>1, <2>3, <2>4 DEF InOrder, RunInOrder, QueueInOrder
    <2> QED  BY <2>3, <2>7, <2>8 DEF InOrder, Sorted
  <1>6. ASSUME NEW r \in Run, Distribute(r)
        PROVE  InOrder'
    <2>1. PICK h \in Chunk : h = outHand[r]
      BY <1>6 DEF Distribute, BcastGoes, TypeOK
    <2>2. r = run /\ UNCHANGED <<inHand, read, queue>> /\ outHand'[r] = Nothing /\ \A s \in Run : s # r => outHand'[s] = outHand[s]
      BY <1>6, <1>r DEF Distribute, BcastGoes, inputVars, TypeOK
    <2>3. /\ Len(distributed) \in Nat
          /\ \A i \in 1 .. Len(distributed') : i \in 1 .. Len(distributed) \/ i = Len(distributed) + 1
          /\ \A i \in 1 .. Len(distributed) : distributed'[i] = distributed[i]
          /\ distributed'[Len(distributed) + 1] = h
          /\ \A n : WasDistributed(n)' <=> WasDistributed(n) \/ n = h
      BY <1>6, <2>1, AppendDistributed DEF Distribute, TypeOK
    <2>4. \A i \in 1 .. Len(distributed) : distributed[i] \in Chunk /\ WasDistributed(distributed[i]) /\ distributed[i] < h
      <3>1. ASSUME NEW i \in 1 .. Len(distributed)
            PROVE  distributed[i] \in Chunk /\ WasDistributed(distributed[i])
        <4>1. distributed \in Seq(Chunk)
          BY DEF TypeOK
        <4>2. distributed[i] \in Chunk
          BY <4>1, ElementIn
        <4> QED  BY <4>2 DEF WasDistributed
      <3>2. h # Nothing
        BY <1>t
      <3> QED  BY <2>1, <3>1, <3>2 DEF InOrder, RunInOrder
    <2>5. \A i, j \in 1 .. Len(distributed') : i < j => distributed'[i] < distributed'[j]
      <3> SUFFICES ASSUME NEW i \in 1 .. Len(distributed'), NEW j \in 1 .. Len(distributed'), i < j
                   PROVE  distributed'[i] < distributed'[j]
        OBVIOUS
      <3>1. i \in 1 .. Len(distributed)
        BY <2>3
      <3> QED  BY <2>3, <2>4, <3>1 DEF InOrder, Sorted
    <2>6. \A i \in 1 .. Len(queue[r]) : queue[r][i] # Pill => h < queue[r][i] /\ 0 < queue[r][i]
      BY <1>t, <1>h, <2>1 DEF InOrder, RunInOrder, QueueInOrder
    <2>7. \A s \in Run : s # r => Len(queue[s]) = 0 /\ outHand[s] = Nothing
      BY <1>r, <2>2
    <2>8. RunInOrder(r)'
      BY <2>2, <2>3, <2>6 DEF InOrder, RunInOrder, QueueInOrder
    <2>9. \A s \in Run : s # r => RunInOrder(s)'
      BY <2>2, <2>7 DEF InOrder, RunInOrder, QueueInOrder
    <2> QED  BY <2>5, <2>8, <2>9 DEF InOrder, Sorted
  <1>7. CASE Still
    <2>1. UNCHANGED <<queue, inHand, outHand, read, distributed>> /\ \A n : WasDistributed(n)' <=> WasDistributed(n)
      BY <1>7 DEF Still, Others, WasDistributed
    <2> QED  BY <2>1 DEF InOrder, RunInOrder, QueueInOrder, Sorted
  <1> QED  BY <1>1, <1>2, <1>3, <1>4, <1>5, <1>6, <1>7, StepKinds DEF Adds, Skips, GivesUp

(* ChunkAccounted, for every capacity, number of starts and number of chunks: a chunk   *)
(* that was read is on its way in one place, was distributed once, or was lost in one   *)
(* of the three ways the code has; no input queue outgrows its capacity; and unless a    *)
(* stop() gave up, chunks are distributed in the order they were read, whatever hubs      *)
(* came and went between them.                                                   *)
THEOREM EveryChunkAccounted == Spec => []ChunkAccounted
  <1> DEFINE IInv == TypeOK /\ Accounted /\ Released /\ Ordered
  <1>1. Init => IInv
    BY TypeInit, AccountedInit, ReleasedInit, OrderedInit
  <1>2. IInv /\ [Next]_vars => IInv'
    BY TypeStep, AccountedStep, ReleasedStep, OrderedStep DEF Accounted
  <1>3. IInv => ChunkAccounted
    <2> SUFFICES ASSUME IInv PROVE ChunkAccounted
      OBVIOUS
    <2> DEFINE Fates(n) == {p \in {"flight", "distributed"} \cup LossKinds :
                              CASE p = "flight"      -> InFlight(n)
                                [] p = "distributed" -> WasDistributed(n)
                                [] OTHER             -> n \in lost[p]}
               Fate(k) == IF k \in {"in", "queue", "out"} THEN "flight" ELSE k
    <2>1. ASSUME NEW n \in 1 .. read
          PROVE  Cardinality(Fates(n)) = 1
      <3>1. n \in Chunk
        BY RunsAssumption DEF TypeOK
      <3>2. PICK k \in Kinds, r \in Holders : At(n, k, r)
        BY DEF Accounted, Covered
      <3>3. \A l \in Kinds : \A s \in Holders : At(n, l, s) => l = k
        BY <3>1, <3>2 DEF Accounted, Placed
      <3>4. /\ InFlight(n) <=> \E s \in Holders : At(n, "in", s) \/ At(n, "queue", s) \/ At(n, "out", s)
            /\ WasDistributed(n) <=> \E s \in Holders : At(n, "distributed", s)
            /\ \A l \in LossKinds : n \in lost[l] <=> \E s \in Holders : At(n, l, s)
        BY AtDef DEF InFlight, Holders
      <3>5. \A p \in {"flight", "distributed"} \cup LossKinds : p \in Fates(n) <=> p = Fate(k)
        BY <3>2, <3>3, <3>4 DEF Kinds, LossKinds
      <3>6. Fates(n) = {Fate(k)}
        BY <3>5 DEF Kinds, LossKinds
      <3> QED  BY <3>6, FS_Singleton
    <2> QED  BY <2>1 DEF ChunkAccounted, TypeOK, Ordered
  <1> QED  BY <1>1, <1>2, <1>3, PTL DEF Spec
-----------------------------------------------------------------------------
(* The hub as a relay: what it promises its destinations is what each of them      *)
(* promises its peer.                                                         *)
Relay == INSTANCE LossyRelay WITH
  accepted  <- read,
  pending   <- {n \in 1 .. read : InFlight(n)},
  delivered <- distributed

Pending == {n \in 1 .. read : InFlight(n)}
Settled(n) == WasDistributed(n) \/ \E k \in LossKinds : n \in lost[k]

(* A chunk that was read is pending until it is settled.                          *)
LEMMA PendingTillSettled ==
  TypeOK /\ Accounted => /\ \A n \in 1 .. read : InFlight(n) <=> ~Settled(n)
                         /\ \A n \in Chunk : Settled(n) => n <= read
  <1> SUFFICES ASSUME TypeOK, Accounted, NEW n \in Chunk
               PROVE  /\ n <= read => (InFlight(n) <=> ~Settled(n))
                      /\ Settled(n) => n <= read
    BY RunsAssumption DEF TypeOK
  <1>1. InFlight(n) <=> \E r \in Run : At(n, "in", r) \/ At(n, "queue", r) \/ At(n, "out", r)
    BY AtDef DEF InFlight
  <1>2. Settled(n) <=> At(n, "distributed", 0) \/ \E k \in LossKinds : At(n, k, 0)
    BY AtDef DEF Settled
  <1>3. \A k \in Kinds : \A r \in Holders : At(n, k, r) =>
          /\ n <= read
          /\ \/ k \in {"in", "queue", "out"} /\ r \in Run
             \/ k \in {"distributed"} \cup LossKinds /\ r = 0
    BY AtDef DEF Accounted, Placed, Kinds
  <1>4. Settled(n) => n <= read
    BY <1>2, <1>3 DEF Kinds, Holders
  <1>5. ~(InFlight(n) /\ Settled(n))
    BY <1>1, <1>2 DEF Accounted, Placed, Kinds, Holders, LossKinds
  <1>6. n <= read => InFlight(n) \/ Settled(n)
    <2> SUFFICES ASSUME n <= read PROVE InFlight(n) \/ Settled(n)
      OBVIOUS
    <2>1. n \in 1 .. read
      BY RunsAssumption DEF TypeOK
    <2>2. PICK k \in Kinds, r \in Holders : At(n, k, r)
      BY <2>1 DEF Accounted, Covered
    <2> QED BY <1>1, <1>2, <1>3, <2>2
  <1> QED BY <1>4, <1>5, <1>6

(* Every step of the hub reads a chunk, settles one that was pending, or neither.   *)
LEMMA HubRefines ==
  ASSUME TypeOK, Accounted, [Next]_vars
  PROVE  \/ read' = read + 1 /\ Pending' = Pending \cup {read + 1} /\ distributed' = distributed
         \/ read' = read /\ \E n \in Pending : Pending' = Pending \ {n} /\ distributed' = distributed
         \/ read' = read /\ \E n \in Pending : /\ Pending' = Pending \ {n}
                                              /\ distributed' = Append(distributed, n)
         \/ read' = read /\ Pending' = Pending /\ distributed' = distributed
  <1>1. TypeOK' /\ Accounted'
    BY TypeStep, AccountedStep DEF Accounted
  <1>2. /\ \A n \in 1 .. read : InFlight(n) <=> ~Settled(n)
        /\ \A n \in Chunk : Settled(n) => n <= read
    BY PendingTillSettled
  <1>3. (\A n \in 1 .. read : InFlight(n) <=> ~Settled(n))'
    <2>1. (TypeOK /\ Accounted => \A n \in 1 .. read : InFlight(n) <=> ~Settled(n))'
      BY PendingTillSettled, PTL
    <2> QED BY <1>1, <2>1
  <1>4. read \in Nat /\ read' \in Nat /\ Chunk \subseteq Nat \ {0} /\ 1 .. read \subseteq Chunk /\ 1 .. read' \subseteq Chunk
    BY <1>1, RunsAssumption DEF TypeOK
  <1>5. Pending = {n \in 1 .. read : ~Settled(n)} /\ Pending' = {n \in 1 .. read' : ~Settled(n)'}
    BY <1>2, <1>3 DEF Pending
  <1>6. ASSUME UNCHANGED <<read, distributed, lost>> PROVE Pending' = Pending
    <2>1. \A n : Settled(n)' <=> Settled(n)
      BY <1>6 DEF Settled, WasDistributed
    <2> QED BY <1>5, <1>6, <2>1
  <1>7. ASSUME NEW h \in Pending, read' = read, \A n \in Chunk : Settled(n)' <=> Settled(n) \/ n = h
        PROVE  Pending' = Pending \ {h}
    BY <1>4, <1>5, <1>7
  <1>8. ASSUME NEW h \in Pending, NEW k \in LossKinds, Lost(k, h), read' = read, distributed' = distributed
        PROVE  Pending' = Pending \ {h}
    <2>1. h \in Chunk /\ h # Pill
      BY <1>4 DEF Pending
    <2>2. \A n \in Chunk : \A q \in LossKinds : n \in lost'[q] <=> n \in lost[q] \/ (n = h /\ q = k)
      BY <1>8, <2>1 DEF Lost, TypeOK
    <2>3. \A n \in Chunk : Settled(n)' <=> Settled(n) \/ n = h
      BY <1>8, <2>2 DEF Settled, WasDistributed
    <2> QED BY <1>7, <1>8, <2>3
  <1>9. ASSUME NEW n \in Chunk, InFlight(n) PROVE n \in Pending
    <2>1. \E r \in Run : At(n, "in", r) \/ At(n, "queue", r) \/ At(n, "out", r)
      BY <1>9, AtDef DEF InFlight
    <2>2. n <= read
      BY <2>1 DEF Accounted, Placed, Kinds, Holders
    <2> QED BY <1>4, <1>9, <2>2 DEF Pending
  <1>10. CASE Still
    BY <1>6, <1>10 DEF Still, Others
  <1>11. ASSUME NEW r \in Run, Adds(r) \/ Skips(r) \/ GetChunk(r)
         PROVE  read' = read /\ Pending' = Pending /\ distributed' = distributed
    BY <1>6, <1>11 DEF Adds, Skips, GetChunk, Others, inputVars
  <1>12. ASSUME NEW r \in Run, ReadChunk(r)
         PROVE  read' = read + 1 /\ Pending' = Pending \cup {read + 1} /\ distributed' = distributed
    <2>1. read' = read + 1 /\ UNCHANGED <<distributed, lost>>
      BY <1>12 DEF ReadChunk, bcastVars
    <2>2. \A n : Settled(n)' <=> Settled(n)
      BY <2>1 DEF Settled, WasDistributed
    <2>3. ~Settled(read + 1)
      BY <1>2, <1>4, <2>1
    <2> QED BY <1>4, <1>5, <2>1, <2>2, <2>3
  <1>13. ASSUME NEW r \in Run, PutChunk(r)
         PROVE  /\ read' = read /\ distributed' = distributed
                /\ Pending' = Pending \/ \E n \in Pending : Pending' = Pending \ {n}
    <2>1. read' = read /\ distributed' = distributed
      BY <1>13 DEF PutChunk, bcastVars
    <2>2. PICK h \in Chunk : h = inHand[r]
      BY <1>13 DEF PutChunk, InputGoes, TypeOK
    <2>3. h \in Pending
      BY <1>9, <2>2 DEF InFlight
    <2>4. lost' = lost \/ Lost("overflow", h)
      BY <1>13, <2>2 DEF PutChunk
    <2> QED BY <1>6, <1>8, <2>1, <2>3, <2>4 DEF LossKinds
  <1>14. ASSUME NEW r \in Run, NEW k \in LossKinds, GivesUp(r, k)
         PROVE  /\ read' = read /\ distributed' = distributed
                /\ Pending' = Pending \/ \E n \in Pending : Pending' = Pending \ {n}
    <2>1. /\ read' = read /\ distributed' = distributed /\ Lost(k, Head(queue[r]))
          /\ Head(queue[r]) \in Chunk \cup {Pill} /\ Queued(r, Head(queue[r]))
      BY <1>14, TakeQueue DEF GivesUp, Others, Accounted
    <2>2. CASE Head(queue[r]) = Pill
      <3>1. lost' = lost
        BY <2>1, <2>2, <1>14 DEF Lost, TypeOK
      <3> QED BY <1>6, <2>1, <3>1
    <2>3. CASE Head(queue[r]) # Pill
      <3>1. Head(queue[r]) \in Pending
        BY <1>9, <2>1, <2>3 DEF InFlight
      <3> QED BY <1>8, <2>1, <3>1
    <2> QED BY <2>2, <2>3
  <1>15. ASSUME NEW r \in Run, Distribute(r)
         PROVE  read' = read /\ \E n \in Pending : Pending' = Pending \ {n} /\ distributed' = Append(distributed, n)
    <2>1. PICK h \in Chunk : h = outHand[r]
      BY <1>15 DEF Distribute, BcastGoes, TypeOK
    <2>2. h \in Pending
      BY <1>9, <2>1 DEF InFlight
    <2>3. read' = read /\ lost' = lost /\ distributed' = Append(distributed, h)
      BY <1>15, <2>1 DEF Distribute, inputVars
    <2>4. \A n : WasDistributed(n)' <=> WasDistributed(n) \/ n = h
      BY <2>3, AppendDistributed DEF TypeOK
    <2>5. \A n \in Chunk : Settled(n)' <=> Settled(n) \/ n = h
      BY <2>3, <2>4 DEF Settled
    <2> QED BY <1>7, <2>2, <2>3, <2>5
  <1> QED BY <1>10, <1>11, <1>12, <1>13, <1>14, <1>15, StepKinds

(* BroadcastHub implements LossyRelay, for every capacity, number of starts and        *)
(* number of chunks: whatever engine runs, stops and reconnects come between, the      *)
(* destinations are handed chunks that were read, each once, and none that was given     *)
(* up on.                                                                    *)
THEOREM HubImplementsRelay == Spec => Relay!Spec
  <1> DEFINE IInv == TypeOK /\ Accounted
  <1>1. Init => IInv
    BY TypeInit, AccountedInit
  <1>2. IInv /\ [Next]_vars => IInv'
    BY TypeStep, AccountedStep DEF Accounted
  <1>3. Init => Relay!Init
    BY DEF Init, Relay!Init
  <1>4. IInv /\ [Next]_vars => [Relay!Next]_(Relay!vars)
    BY HubRefines DEF Pending, Relay!Next, Relay!vars, Relay!Accept, Relay!Lose, Relay!Deliver
  <1> QED  BY <1>1, <1>2, <1>3, <1>4, PTL DEF Spec, Relay!Spec
=============================================================================
