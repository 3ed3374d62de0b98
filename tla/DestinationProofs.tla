-------------------------- MODULE DestinationProofs --------------------------
(***************************************************************************)
(* Theorems about Destination for every queue size, every set of run-loop    *)
(* threads and every number of chunks, with joins that may time out and      *)
(* chunks offered while stop() runs.                                         *)
(***************************************************************************)
EXTENDS Destination, FiniteSetTheorems, TLAPS

USE DEF Pill, Nothing, Chunk

(* The actions, one disjunct each: proofs split on this.                     *)
Step ==
  \/ Offer \/ Enqueue
  \/ StartDestination \/ Start \/ Spawn
  \/ StopDestination \/ Stop \/ PutPill \/ Evict \/ PutPillAgain \/ Join \/ Disconnect
  \/ \E w \in Workers :
       \/ CheckRunning(w) \/ GetEmpty(w) \/ GetPill(w) \/ GetChunk(w)
       \/ CheckConnected(w) \/ ConnectOk(w) \/ ConnectFail(w)
       \/ ClearOne(w) \/ ClearDone(w) \/ Recheck(w) \/ SendOk(w) \/ SendFail(w)
  \/ PeerDisconnect

LEMMA NextIsStep == Next => Step
  BY DEF Next, Step, Hub, StartSteps, StopSteps, WorkerSteps

(* A run-loop thread holds a chunk exactly between get() and the end of its  *)
(* round.                                                                    *)
Holding(w) == wpc[w] \in {"check", "connect", "clear", "recheck", "send"}
HoldsItem  == \A w \in Workers : Holding(w) <=> item[w] # Nothing

TypeInv == TypeOK /\ HoldsItem

(* The parts of TypeOK: what the queue, the record of losses and the other    *)
(* variables may be.                                                         *)
Entry   == Chunk \cup {Pill}
QueueOK == queue \in Seq(Entry) /\ Len(queue) <= QueueSize
LostOK  == lost \in [LossKinds -> SUBSET Chunk]
RestOK  ==
  /\ running \in BOOLEAN /\ enabled \in BOOLEAN /\ connected \in BOOLEAN
  /\ thread \in Workers \cup {NoWorker}
  /\ wpc \in [Workers -> {"off", "loop", "get", "check", "connect", "clear", "recheck", "send"}]
  /\ item \in [Workers -> Chunk \cup {Nothing}]
  /\ cpc \in {"idle", "start", "spawn", "stop", "pill", "evict", "refill", "join", "disconnect"}
  /\ raised \in BOOLEAN /\ gaveUp \in BOOLEAN /\ starts \in 0 .. MaxStarts
  /\ offered \in 0 .. MaxChunks /\ hand \in {Nothing, offered}
  /\ sent \in Seq(Chunk) /\ dropped \in Nat
  /\ epoch \in [backlog : 0 .. MaxChunks, trigger : Chunk \cup {Nothing}]

LEMMA TypeParts == TypeOK <=> QueueOK /\ LostOK /\ RestOK
  BY DEF TypeOK, QueueOK, LostOK, RestOK, Entry

(* Everything that happens to the queue: an item is put at its end when there *)
(* is room, or the first is taken out.                                       *)
Put(x) == Len(queue) < QueueSize /\ queue' = Append(queue, x)
Take   == queue # <<>> /\ queue' = Tail(queue)

QueueMove == queue' = queue \/ (Put(hand) /\ hand # Nothing) \/ Put(Pill) \/ Take

LEMMA QueueMoves == Next => QueueMove
  <1> SUFFICES ASSUME Next PROVE QueueMove
    OBVIOUS
  <1>1. Enqueue => QueueMove
    BY DEF Enqueue, QueueMove, Put
  <1>2. PutPill \/ PutPillAgain => QueueMove
    BY DEF PutPill, PutPillAgain, QueueMove, Put
  <1>3. Evict => QueueMove
    BY DEF Evict, QueueMove, Take
  <1>4. ASSUME NEW w \in Workers, GetPill(w) \/ GetChunk(w) \/ ClearOne(w) PROVE QueueMove
    BY <1>4 DEF GetPill, GetChunk, ClearOne, QueueMove, Take
  <1> QED
    BY <1>1, <1>2, <1>3, <1>4, NextIsStep
       DEF Step, QueueMove, Offer, StartDestination, Start, Spawn, StopDestination, Stop, Join,
           Disconnect, CheckRunning, GetEmpty, CheckConnected, ConnectOk, ConnectFail, ClearDone,
           Recheck, SendOk, SendFail, PeerDisconnect

LEMMA QueueType == QueueOK /\ RestOK /\ Next => QueueOK'
  <1> SUFFICES ASSUME QueueOK, RestOK, Next PROVE QueueOK'
    OBVIOUS
  <1>1. hand # Nothing => hand \in Entry
    BY BoundsAssumption DEF RestOK, Entry
  <1>2. Pill \in Entry
    BY DEF Entry
  <1>3. ASSUME NEW x \in Entry, Put(x) PROVE QueueOK'
    BY <1>3, QueueSizeAssumption DEF QueueOK, Put
  <1>4. CASE Take
    BY <1>4, QueueSizeAssumption DEF QueueOK, Take
  <1>5. CASE queue' = queue
    BY <1>5 DEF QueueOK
  <1> QED
    BY <1>1, <1>2, <1>3, <1>4, <1>5, QueueMoves DEF QueueMove

(* Everything that happens to the record of losses.                          *)
LEMMA LostType == QueueOK /\ LostOK /\ RestOK /\ Next => LostOK'
  <1> SUFFICES ASSUME QueueOK, LostOK, RestOK, Next PROVE LostOK'
    OBVIOUS
  <1>1. ASSUME NEW kind \in LossKinds, NEW S \in SUBSET (Chunk \cup {Pill}), Lost(kind, S)
        PROVE  LostOK'
    BY <1>1 DEF Lost, LostOK
  <1>2. queue # <<>> => Head(queue) \in Chunk \cup {Pill}
    BY DEF QueueOK, Entry
  <1>3. CASE UNCHANGED lost
    BY <1>3 DEF LostOK
  <1>4. CASE Offer
    <2>1. offered + 1 \in Chunk
      BY <1>4, BoundsAssumption DEF Offer, RestOK
    <2> QED  BY <1>1, <1>3, <1>4, <2>1 DEF Offer, LossKinds
  <1>5. CASE Enqueue
    <2>1. hand \in Chunk
      BY <1>5, BoundsAssumption DEF Enqueue, RestOK
    <2> QED  BY <1>1, <1>3, <1>5, <2>1 DEF Enqueue, LossKinds
  <1>6. CASE Evict
    BY <1>1, <1>2, <1>3, <1>6 DEF Evict, LossKinds
  <1>7. ASSUME NEW w \in Workers, ClearOne(w) PROVE LostOK'
    BY <1>1, <1>2, <1>7 DEF ClearOne, LossKinds
  <1>8. ASSUME NEW w \in Workers, Recheck(w) PROVE LostOK'
    <2>1. item[w] \in Chunk \cup {Pill}
      BY <1>8 DEF RestOK
    <2> QED  BY <1>1, <1>3, <1>8, <2>1 DEF Recheck, LossKinds
  <1>9. ASSUME NEW w \in Workers, SendFail(w) PROVE LostOK'
    <2>1. item[w] \in Chunk \cup {Pill}
      BY <1>9 DEF RestOK
    <2> QED  BY <1>1, <1>9, <2>1 DEF SendFail, LossKinds
  <1> QED
    BY <1>3, <1>4, <1>5, <1>6, <1>7, <1>8, <1>9, NextIsStep
       DEF Step, StartDestination, Start, Spawn, StopDestination, Stop, PutPill, PutPillAgain,
           Join, Disconnect, CheckRunning, GetEmpty, GetPill, GetChunk, CheckConnected, ConnectOk,
           ConnectFail, ClearDone, SendOk, PeerDisconnect, history

LEMMA TypeInit == Init => TypeInv
  <1> SUFFICES ASSUME Init PROVE TypeInv
    OBVIOUS
  <1> USE QueueSizeAssumption, WorkersAssumption, BoundsAssumption DEF Init
  <1>1. QueueOK
    BY DEF QueueOK
  <1>2. LostOK
    BY DEF LostOK
  <1>3. epoch \in [backlog : 0 .. MaxChunks, trigger : Chunk \cup {Nothing}] /\ sent \in Seq(Chunk)
    OBVIOUS
  <1>4. /\ wpc \in [Workers -> {"off", "loop", "get", "check", "connect", "clear", "recheck", "send"}]
        /\ item \in [Workers -> Chunk \cup {Nothing}]
    OBVIOUS
  <1>5. HoldsItem
    BY DEF HoldsItem, Holding
  <1>6. /\ 0 \in 0 .. MaxStarts /\ 0 \in 0 .. MaxChunks
    OBVIOUS
  <1>7. RestOK
    BY <1>3, <1>4, <1>6, Zenon DEF RestOK
  <1> QED
    BY <1>1, <1>2, <1>5, <1>7, TypeParts DEF TypeInv

LEMMA RestType == TypeInv /\ Next => RestOK' /\ HoldsItem'
  <1> SUFFICES ASSUME QueueOK, RestOK, HoldsItem, Next PROVE RestOK' /\ HoldsItem'
    BY TypeParts DEF TypeInv
  <1> USE BoundsAssumption DEF RestOK, HoldsItem, Holding, Goto
  <1> USE DEF threadVars, hubVars, callVars, history
  <1>1. CASE Offer
    BY <1>1 DEF Offer
  <1>2. CASE Enqueue
    BY <1>2 DEF Enqueue
  <1>3. CASE StartDestination
    BY <1>3 DEF StartDestination
  <1>4. CASE Start
    BY <1>4 DEF Start
  <1>5. CASE Spawn
    BY <1>5 DEF Spawn, Alive
  <1>6. CASE StopDestination
    BY <1>6 DEF StopDestination
  <1>7. CASE Stop
    BY <1>7 DEF Stop
  <1>8. CASE PutPill
    BY <1>8 DEF PutPill
  <1>9. CASE Evict
    BY <1>9 DEF Evict
  <1>10. CASE PutPillAgain
    BY <1>10 DEF PutPillAgain
  <1>11. CASE Join
    BY <1>11 DEF Join
  <1>12. CASE Disconnect
    BY <1>12 DEF Disconnect
  <1>13. ASSUME NEW w \in Workers, CheckRunning(w) PROVE RestOK' /\ HoldsItem'
    BY <1>13 DEF CheckRunning
  <1>14. ASSUME NEW w \in Workers, GetEmpty(w) PROVE RestOK' /\ HoldsItem'
    BY <1>14 DEF GetEmpty
  <1>15. ASSUME NEW w \in Workers, GetPill(w) PROVE RestOK' /\ HoldsItem'
    BY <1>15 DEF GetPill
  <1>16. ASSUME NEW w \in Workers, GetChunk(w) PROVE RestOK' /\ HoldsItem'
    <2>1. Head(queue) \in Chunk
      BY <1>16 DEF GetChunk, QueueOK, Entry
    <2> QED  BY <1>16, <2>1 DEF GetChunk
  <1>17. ASSUME NEW w \in Workers, CheckConnected(w) PROVE RestOK' /\ HoldsItem'
    BY <1>17 DEF CheckConnected
  <1>18. ASSUME NEW w \in Workers, ConnectOk(w) PROVE RestOK' /\ HoldsItem'
    BY <1>18 DEF ConnectOk, Settled
  <1>19. ASSUME NEW w \in Workers, ConnectFail(w) PROVE RestOK' /\ HoldsItem'
    BY <1>19 DEF ConnectFail
  <1>20. ASSUME NEW w \in Workers, ClearOne(w) PROVE RestOK' /\ HoldsItem'
    BY <1>20 DEF ClearOne
  <1>21. ASSUME NEW w \in Workers, ClearDone(w) PROVE RestOK' /\ HoldsItem'
    BY <1>21 DEF ClearDone
  <1>22. ASSUME NEW w \in Workers, Recheck(w) PROVE RestOK' /\ HoldsItem'
    BY <1>22 DEF Recheck
  <1>23. ASSUME NEW w \in Workers, SendOk(w) PROVE RestOK' /\ HoldsItem'
    BY <1>23 DEF SendOk
  <1>24. ASSUME NEW w \in Workers, SendFail(w) PROVE RestOK' /\ HoldsItem'
    BY <1>24 DEF SendFail
  <1>25. CASE PeerDisconnect
    BY <1>25 DEF PeerDisconnect
  <1> QED
    BY <1>1, <1>2, <1>3, <1>4, <1>5, <1>6, <1>7, <1>8, <1>9, <1>10, <1>11, <1>12, <1>13, <1>14, <1>15, <1>16, <1>17, <1>18, <1>19, <1>20, <1>21, <1>22, <1>23, <1>24, <1>25,
       NextIsStep DEF Step

LEMMA TypeStep == TypeInv /\ [Next]_vars => TypeInv'
  <1>1. CASE UNCHANGED vars
    BY <1>1 DEF TypeInv, TypeOK, HoldsItem, Holding, vars, threadVars, hubVars, callVars, history
  <1>2. ASSUME TypeInv, Next PROVE QueueOK' /\ LostOK' /\ RestOK' /\ HoldsItem'
    BY <1>2, TypeParts, QueueType, LostType, RestType DEF TypeInv
  <1>3. QueueOK' /\ LostOK' /\ RestOK' => TypeOK'
    BY DEF TypeOK, QueueOK, LostOK, RestOK, Entry
  <1> QED
    BY <1>1, <1>2, <1>3 DEF TypeInv

(* The state keeps its type; in particular a destination's queue never holds *)
(* more than QueueSize items (BaseDestination.enqueue, stop).                *)
THEOREM TypeCorrect == Spec => []TypeOK
  <1>1. TypeInv => TypeOK  BY DEF TypeInv
  <1> QED  BY TypeInit, TypeStep, <1>1, PTL DEF Spec

-----------------------------------------------------------------------------
(* The steps that move a chunk, in the terms the arguments need; what is     *)
(* given up on is lost in one of the ways the code has.                      *)
Kept == UNCHANGED <<lost, dropped>>
Loses(n) ==
  \E k \in LossKinds :
    /\ lost' = [lost EXCEPT ![k] = @ \cup {n}]
    /\ dropped' = IF k \in {"full", "unconnected"} THEN dropped + 1 ELSE dropped

Idle == UNCHANGED <<queue, offered, hand, item, sent>> /\ Kept
Read == /\ hand = Nothing /\ offered' = offered + 1 /\ offered' \in Chunk
        /\ (hand' = Nothing /\ Loses(offered + 1)) \/ (hand' = offered' /\ Kept)
        /\ UNCHANGED <<queue, item, sent>>
Admit == /\ hand # Nothing /\ hand' = Nothing
         /\ (Put(hand) /\ Kept) \/ (queue' = queue /\ Loses(hand))
         /\ UNCHANGED <<offered, item, sent>>
PillIn  == Put(Pill) /\ UNCHANGED <<offered, hand, item, sent>> /\ Kept
Discard == /\ Take /\ UNCHANGED <<offered, hand, item, sent>>
           /\ IF Head(queue) = Pill THEN Kept ELSE Loses(Head(queue))
Fetch(w) == /\ Take /\ Head(queue) # Nothing /\ item[w] = Nothing
            /\ item' = [item EXCEPT ![w] = Head(queue)]
            /\ UNCHANGED <<offered, hand, sent>> /\ Kept
Release(w) == /\ item[w] # Nothing /\ item' = [item EXCEPT ![w] = Nothing]
              /\ (sent' = sent /\ Loses(item[w])) \/ (sent' = Append(sent, item[w]) /\ Kept)
              /\ UNCHANGED <<queue, offered, hand>>
Move == \/ Idle \/ Read \/ Admit \/ PillIn \/ Discard
        \/ \E w \in Workers : Fetch(w) \/ Release(w)

(* Lost(kind, {n}) for a chunk, and for the pill.                            *)
LEMMA LostLoses ==
  ASSUME LostOK, NEW k \in LossKinds, NEW n, Lost(k, {n})
  PROVE  /\ n = Pill => lost' = lost
         /\ n # Pill => lost' = [lost EXCEPT ![k] = @ \cup {n}]
  BY DEF LostOK, Lost

LEMMA ChunkMoves == TypeInv /\ [Next]_vars => Move
  <1> SUFFICES ASSUME QueueOK, LostOK, RestOK, HoldsItem, [Next]_vars PROVE Move
    BY TypeParts DEF TypeInv
  <1> USE DEF threadVars, hubVars, callVars, history
  <1>1. CASE Offer
    <2>1. offered + 1 \in Chunk /\ offered + 1 # Pill
      BY <1>1, BoundsAssumption DEF Offer, RestOK
    <2>2. Lost("skipped", {offered + 1}) /\ dropped' = dropped => Loses(offered + 1)
      BY <2>1, LostLoses DEF Loses, LossKinds
    <2> QED  BY <1>1, <2>1, <2>2 DEF Offer, Read, Move, Kept
  <1>2. ASSUME Enqueue PROVE Admit
    <2>1. Lost("full", {hand}) /\ dropped' = dropped + 1 => Loses(hand)
      BY <1>2, LostLoses DEF Enqueue, Loses, LossKinds
    <2> QED  BY <1>2, <2>1 DEF Enqueue, Admit, Put, Kept
  <1>3. PutPill \/ PutPillAgain => PillIn \/ Idle
    BY DEF PutPill, PutPillAgain, PillIn, Put, Idle, Kept
  <1>4. ASSUME Evict PROVE Discard \/ Idle
    <2>1. CASE queue = <<>>
      BY <1>4, <2>1 DEF Evict, Idle, Kept
    <2>2. CASE queue # <<>>
      <3>1. Lost("evicted", {Head(queue)}) /\ dropped' = dropped
        BY <1>4, <2>2 DEF Evict
      <3>2. IF Head(queue) = Pill THEN Kept ELSE Loses(Head(queue))
        BY <3>1, LostLoses DEF Kept, Loses, LossKinds
      <3> QED  BY <1>4, <2>2, <3>2 DEF Evict, Discard, Take
    <2> QED  BY <2>1, <2>2
  <1>5. ASSUME NEW w \in Workers, GetPill(w) PROVE Discard
    BY <1>5 DEF GetPill, Discard, Take, Kept
  <1>6. ASSUME NEW w \in Workers, ClearOne(w) PROVE Discard
    <2>1. Lost("cleared", {Head(queue)}) /\ dropped' = dropped
      BY <1>6 DEF ClearOne
    <2>2. IF Head(queue) = Pill THEN Kept ELSE Loses(Head(queue))
      BY <2>1, LostLoses DEF Kept, Loses, LossKinds
    <2> QED  BY <1>6, <2>2 DEF ClearOne, Discard, Take
  <1>7. ASSUME NEW w \in Workers, GetChunk(w) PROVE Fetch(w)
    <2>1. item[w] = Nothing
      BY <1>7 DEF GetChunk, Goto, HoldsItem, Holding
    <2> QED  BY <1>7, <2>1 DEF GetChunk, Fetch, Take, Kept
  <1>8. ASSUME NEW w \in Workers, Recheck(w) \/ SendOk(w) \/ SendFail(w) PROVE Release(w) \/ Idle
    <2>1. item[w] # Nothing
      BY <1>8 DEF Recheck, SendOk, SendFail, Goto, HoldsItem, Holding
    <2>2. Lost("unconnected", {item[w]}) /\ dropped' = dropped + 1 => Loses(item[w])
      BY <2>1, LostLoses DEF Loses, LossKinds
    <2>3. Lost("failed", {item[w]}) /\ dropped' = dropped => Loses(item[w])
      BY <2>1, LostLoses DEF Loses, LossKinds
    <2> QED  BY <1>8, <2>1, <2>2, <2>3 DEF Recheck, SendOk, SendFail, Release, Idle, Kept
  <1>9. CASE UNCHANGED vars
    BY <1>9 DEF vars, Idle, Move, Kept
  <1> QED
    BY <1>1, <1>2, <1>3, <1>4, <1>5, <1>6, <1>7, <1>8, <1>9, NextIsStep
       DEF Move, Idle, Kept, Step, StartDestination, Start, Spawn, StopDestination, Stop, Join,
           Disconnect, CheckRunning, GetEmpty, CheckConnected, ConnectOk, ConnectFail, ClearDone,
           PeerDisconnect

(* A chunk is in one place at most: in the queue once, or held by one thread, *)
(* or sent; and the one in the broadcast thread's hand is newer than those.   *)
QueueDistinct ==
  \A i, j \in 1 .. Len(queue) : i # j /\ queue[i] # Pill => queue[i] # queue[j]
QueueFresh ==
  \A i \in 1 .. Len(queue) :
    /\ queue[i] <= Settled
    /\ \A k \in 1 .. Len(sent) : sent[k] # queue[i]
    /\ \A w \in Workers : item[w] # Nothing => item[w] # queue[i]
ItemFresh ==
  \A w \in Workers :
    /\ item[w] <= Settled
    /\ \A k \in 1 .. Len(sent) : sent[k] # item[w]
    /\ \A v \in Workers : v # w /\ item[w] # Nothing => item[v] # item[w]
SentFresh == \A k \in 1 .. Len(sent) : sent[k] <= Settled
Distinct  == QueueDistinct /\ QueueFresh /\ ItemFresh /\ SentFresh /\ SentOnce

(* What Append and Tail do to the queue, index by index.                     *)
LEMMA PutQueue ==
  ASSUME NEW x \in Entry, QueueOK, Put(x)
  PROVE  /\ Len(queue') = Len(queue) + 1
         /\ \A i \in 1 .. Len(queue) : queue'[i] = queue[i]
         /\ queue'[Len(queue) + 1] = x
  BY DEF QueueOK, Put

LEMMA TakeQueue ==
  ASSUME QueueOK, Take
  PROVE  /\ Len(queue) \in Nat \ {0} /\ Len(queue') = Len(queue) - 1
         /\ \A i \in 1 .. Len(queue') : queue'[i] = queue[i + 1]
         /\ Head(queue) = queue[1]
  BY DEF QueueOK, Take

LEMMA DistinctStep == TypeInv /\ Distinct /\ [Next]_vars => Distinct'
  <1> SUFFICES ASSUME TypeInv, QueueOK, RestOK, Distinct, Move PROVE Distinct'
    BY ChunkMoves, TypeParts DEF TypeInv
  <1>0. /\ Len(queue) \in Nat /\ Len(sent) \in Nat /\ offered \in Nat /\ hand \in {Nothing, offered}
        /\ \A i \in 1 .. Len(queue) : queue[i] \in Entry
        /\ \A k \in 1 .. Len(sent) : sent[k] \in Chunk
        /\ \A w \in Workers : item[w] \in Chunk \cup {Nothing}
    BY BoundsAssumption DEF QueueOK, RestOK
  <1> USE BoundsAssumption DEF Distinct, QueueDistinct, QueueFresh, ItemFresh, SentFresh, SentOnce,
                               Settled, Entry
  <1>1. CASE Idle
    BY <1>1 DEF Idle
  <1>2. CASE Read
    BY <1>0, <1>2 DEF Read
  <1>3. CASE Admit
    <2>1. CASE queue' = queue
      BY <1>0, <1>3, <2>1 DEF Admit
    <2>2. CASE Put(hand)
      <3>1. hand \in Entry
        BY <1>3, BoundsAssumption DEF Admit, RestOK
      <3>2. QueueDistinct'
        BY <1>0, <1>3, <2>2, <3>1, PutQueue DEF Admit
      <3>3. QueueFresh'
        <4>1. hand = offered /\ Settled = offered - 1 /\ Settled' = offered
          BY <1>0, <1>3 DEF Admit
        <4>2. ASSUME NEW i \in 1 .. Len(queue') PROVE i \in 1 .. Len(queue) \/ queue'[i] = hand
          BY <1>0, <2>2, <3>1, PutQueue
        <4>3. \A i \in 1 .. Len(queue) : queue'[i] = queue[i]
          BY <2>2, <3>1, PutQueue
        <4> QED  BY <1>0, <1>3, <4>1, <4>2, <4>3 DEF Admit
      <3> QED  BY <1>0, <1>3, <3>2, <3>3 DEF Admit
    <2> QED  BY <1>3, <2>1, <2>2 DEF Admit
  <1>4. CASE PillIn
    BY <1>0, <1>4, PutQueue DEF PillIn
  <1>5. ASSUME Take, UNCHANGED <<offered, hand, sent>>, Discard \/ \E w \in Workers : Fetch(w)
        PROVE  Distinct'
    <2>1. \A i \in 1 .. Len(queue') : i + 1 \in 1 .. Len(queue) /\ queue'[i] = queue[i + 1]
      BY <1>0, <1>5, TakeQueue
    <2>2. QueueDistinct'
      BY <2>1, \A i, j \in Int : i # j => i + 1 # j + 1
    <2>3. ASSUME NEW i \in 1 .. Len(queue')
          PROVE  queue'[i] <= Settled' /\ \A k \in 1 .. Len(sent') : sent'[k] # queue'[i]
      BY <1>5, <2>1
    <2>4. CASE Discard
      <3>1. QueueFresh'
        BY <2>1, <2>3, <2>4 DEF Discard
      <3> QED  BY <2>2, <2>4, <3>1 DEF Discard
    <2>5. ASSUME NEW w \in Workers, Fetch(w) PROVE Distinct'
      <3>1. /\ 1 \in 1 .. Len(queue) /\ Head(queue) = queue[1] /\ queue[1] # Nothing
            /\ item' = [item EXCEPT ![w] = queue[1]]
        BY <1>0, <2>5, TakeQueue DEF Fetch
      <3>2. \A v \in Workers : item'[v] = IF v = w THEN queue[1] ELSE item[v]
        BY <3>1 DEF RestOK
      <3>3. QueueFresh'
        <4>1. \A i \in 1 .. Len(queue') : queue'[i] # queue[1]
          BY <2>1, <3>1
        <4>2. ASSUME NEW i \in 1 .. Len(queue'), NEW v \in Workers, item'[v] # Nothing
              PROVE  item'[v] # queue'[i]
          BY <2>1, <3>2, <4>1, <4>2
        <4> QED  BY <2>3, <4>2
      <3>4. ItemFresh'
        BY <1>5, <3>1, <3>2
      <3> QED  BY <1>5, <2>2, <3>3, <3>4
    <2> QED  BY <1>5, <2>4, <2>5
  <1>6. ASSUME NEW w \in Workers, Release(w) PROVE Distinct'
    <2>1. \A v \in Workers : item'[v] = IF v = w THEN Nothing ELSE item[v]
      BY <1>6 DEF Release, RestOK
    <2>2. \A k \in 1 .. Len(sent') : (k \in 1 .. Len(sent) /\ sent'[k] = sent[k])
                                  \/ (k = Len(sent) + 1 /\ sent'[k] = item[w])
      <3>1. CASE sent' = sent
        BY <1>0, <3>1
      <3>2. CASE sent' = Append(sent, item[w])
        BY <1>0, <3>2 DEF RestOK
      <3> QED  BY <1>6, <3>1, <3>2 DEF Release
    <2>3. QueueDistinct' /\ QueueFresh'
      BY <1>6, <2>1, <2>2 DEF Release
    <2>4. ASSUME NEW v \in Workers
          PROVE  /\ item'[v] <= Settled' /\ \A k \in 1 .. Len(sent') : sent'[k] # item'[v]
                 /\ \A u \in Workers : u # v /\ item'[v] # Nothing => item'[u] # item'[v]
      <3>1. Settled' = Settled /\ Settled \in Nat /\ item[w] \in Chunk
        BY <1>0, <1>6 DEF Release
      <3>2. CASE v = w
        <4>1. item'[v] = Nothing
          BY <2>1, <3>2
        <4>2. \A k \in 1 .. Len(sent') : sent'[k] \in Chunk
          BY <1>0, <2>2, <3>1
        <4>3. \A k \in 1 .. Len(sent') : sent'[k] # Nothing
          BY <4>2
        <4> QED  BY <3>1, <4>1, <4>3
      <3>3. CASE v # w
        <4>1. item'[v] = item[v] /\ \A u \in Workers : u # v /\ item[v] # Nothing => item[u] # item[v]
          BY <2>1, <3>3
        <4>2. \A k \in 1 .. Len(sent') : sent'[k] # item'[v]
          <5>1. item[v] # Nothing => item[w] # item[v]
            BY <3>3, <4>1
          <5> QED  BY <1>0, <2>2, <3>1, <4>1, <5>1
        <4> QED  BY <2>1, <3>1, <4>1, <4>2
      <3> QED  BY <3>2, <3>3
    <2>5. Settled' = Settled /\ \A k \in 1 .. Len(sent) : sent[k] # item[w]
      BY <1>6 DEF Release
    <2>6. SentFresh'
      BY <2>2, <2>5
    <2>7. ASSUME NEW i \in 1 .. Len(sent'), NEW j \in 1 .. Len(sent'), i # j PROVE sent'[i] # sent'[j]
      BY <2>2, <2>5, <2>7
    <2> QED  BY <2>3, <2>4, <2>6, <2>7
  <1> QED
    BY <1>1, <1>2, <1>3, <1>4, <1>5, <1>6 DEF Move, Discard, Fetch

LEMMA DistinctInit == Init => Distinct
  BY DEF Init, Distinct, QueueDistinct, QueueFresh, ItemFresh, SentFresh, SentOnce, Settled

LEMMA Inductive == Spec => [](TypeInv /\ Distinct)
  BY TypeInit, TypeStep, DistinctInit, DistinctStep, PTL DEF Spec

(* No chunk is delivered twice, with any number of run loops, joins that time *)
(* out, and stop() raising (BaseDestination._run_loop, stop).                *)
THEOREM DeliveredOnce == Spec => []SentOnce
  <1>1. Distinct => SentOnce  BY DEF Distinct
  <1> QED  BY Inductive, <1>1, PTL

-----------------------------------------------------------------------------
(* The destination implements LossyRelay: each move is a step of it or none.  *)
Pending == {n \in 1 .. offered : InFlight(n)}

LEMMA PutInQueue ==
  ASSUME NEW x \in Entry, QueueOK, Put(x), NEW n
  PROVE  InQueue(n)' <=> InQueue(n) \/ n = x
  <1>1. Len(queue) \in Nat
    BY DEF QueueOK
  <1> QED  BY <1>1, PutQueue DEF InQueue

LEMMA TakeInQueue ==
  ASSUME QueueOK, QueueDistinct, Take, NEW n, n # Pill
  PROVE  /\ InQueue(n)' <=> InQueue(n) /\ n # Head(queue)
         /\ InQueue(Head(queue))
  <1>1. /\ 1 \in 1 .. Len(queue) /\ Head(queue) = queue[1]
        /\ \A i \in 1 .. Len(queue') : i + 1 \in 1 .. Len(queue) /\ queue'[i] = queue[i + 1]
        /\ \A i \in 1 .. Len(queue) : i # 1 => i - 1 \in 1 .. Len(queue') /\ queue'[i - 1] = queue[i]
    BY TakeQueue
  <1>2. ASSUME InQueue(n)' PROVE InQueue(n) /\ n # queue[1]
    <2>1. PICK i \in 1 .. Len(queue') : queue'[i] = n
      BY <1>2 DEF InQueue
    <2>2. i + 1 \in 1 .. Len(queue) /\ queue[i + 1] = n /\ i + 1 # 1
      BY <1>1, <2>1
    <2>3. queue[i + 1] # queue[1]
      BY <1>1, <2>2 DEF QueueDistinct
    <2> QED  BY <2>2, <2>3 DEF InQueue
  <1>3. ASSUME InQueue(n), n # queue[1] PROVE InQueue(n)'
    BY <1>1, <1>3 DEF InQueue
  <1> QED  BY <1>1, <1>2, <1>3 DEF InQueue

LEMMA MoveRefines ==
  ASSUME TypeInv, Distinct, Move
  PROVE  \/ offered' = offered /\ Pending' = Pending /\ sent' = sent /\ Kept
         \/ /\ offered' = offered + 1 /\ sent' = sent /\ offered + 1 \in Chunk /\ offered + 1 \notin Pending
            /\ (Pending' = Pending /\ Loses(offered + 1)) \/ (Pending' = Pending \cup {offered + 1} /\ Kept)
         \/ /\ offered' = offered
            /\ \E n \in Pending : /\ Pending' = Pending \ {n}
                                  /\ (sent' = sent /\ Loses(n)) \/ (sent' = Append(sent, n) /\ Kept)
  <1>0. /\ QueueOK /\ RestOK
        /\ Len(queue) \in Nat /\ offered \in Nat /\ hand \in {Nothing, offered}
        /\ \A i \in 1 .. Len(queue) : queue[i] \in Entry /\ queue[i] <= Settled
        /\ \A w \in Workers : item[w] \in Chunk \cup {Nothing} /\ item[w] <= Settled
    BY TypeParts, BoundsAssumption DEF TypeInv, QueueOK, RestOK, Distinct, QueueFresh, ItemFresh
  <1>1. CASE Idle
    BY <1>1 DEF Idle, Pending, InFlight, InQueue, InHand
  <1>2. CASE Read
    <2>1. hand = Nothing /\ hand' \in {Nothing, offered + 1} /\ offered' = offered + 1
      BY <1>2 DEF Read
    <2>2. Settled = offered
      BY <2>1 DEF Settled
    <2>3. ~InQueue(offered + 1) /\ \A w \in Workers : item[w] # offered + 1
      <3>1. \A i \in 1 .. Len(queue) : queue[i] # offered + 1
        <4>1. \A i \in 1 .. Len(queue) : queue[i] \in Int /\ queue[i] <= offered
          BY <1>0, <2>2 DEF Entry
        <4> QED  BY <1>0, <4>1
      <3>2. \A w \in Workers : item[w] # offered + 1
        BY <1>0, <2>2
      <3> QED  BY <3>1, <3>2 DEF InQueue
    <2>4. \A n : InQueue(n)' <=> InQueue(n)
      BY <1>2 DEF Read, InQueue
    <2>5. \A n \in 1 .. offered : InFlight(n)' <=> InFlight(n)
      BY <1>0, <1>2, <2>1, <2>4 DEF Read, InFlight, InHand
    <2>6. \A n : n = offered + 1 => (InFlight(n)' <=> hand' = n)
      BY <1>2, <2>3, <2>4 DEF Read, InFlight, InHand
    <2>7. 1 .. offered' = (1 .. offered) \cup {offered + 1}
      BY <1>0, <2>1
    <2>8. Pending' = {n \in 1 .. offered' : InFlight(n)'}
      BY DEF Pending
    <2>9. \A n : n \in Pending' <=> n \in Pending \/ (n = offered + 1 /\ hand' = n)
      BY <2>5, <2>6, <2>7, <2>8 DEF Pending
    <2>10. Pending' = IF hand' = offered + 1 THEN Pending \cup {offered + 1} ELSE Pending
      BY <2>9
    <2>11. offered + 1 \notin Pending /\ offered + 1 # Nothing
      BY <1>0 DEF Pending
    <2>12. \/ Pending' = Pending /\ Loses(offered + 1)
           \/ Pending' = Pending \cup {offered + 1} /\ Kept
      <3>1. \/ hand' = Nothing /\ Loses(offered + 1)
            \/ hand' = offered + 1 /\ Kept
        BY <1>2 DEF Read
      <3> QED  BY <2>10, <2>11, <3>1
    <2>13. offered' = offered + 1 /\ sent' = sent /\ offered + 1 \in Chunk
      BY <1>2 DEF Read
    <2> QED  BY <2>11, <2>12, <2>13
  <1>3. CASE Admit
    <2>1. hand = offered /\ hand \in 1 .. offered /\ hand \in Entry
      BY <1>0, <1>3, BoundsAssumption DEF Admit, RestOK, Entry
    <2>2. CASE queue' = queue
      <3>1. ~InQueue(hand) /\ \A w \in Workers : item[w] # hand
        BY <1>0, <2>1 DEF InQueue, Settled
      <3>2. Pending' = Pending \ {hand} /\ hand \in Pending
        BY <1>3, <2>1, <2>2, <3>1 DEF Admit, Pending, InFlight, InHand, InQueue
      <3>3. Loses(hand) /\ offered' = offered /\ sent' = sent
        <4>1. ~Put(hand)
          BY <1>0, <2>1, <2>2, PutQueue
        <4> QED  BY <1>3, <4>1 DEF Admit
      <3> QED  BY <3>2, <3>3
    <2>3. CASE Put(hand)
      <3>1. \A n : InQueue(n)' <=> InQueue(n) \/ n = hand
        BY <1>0, <2>1, <2>3, PutInQueue
      <3>2. \A n \in 1 .. offered : InFlight(n)' <=> InFlight(n)
        BY <1>3, <3>1 DEF Admit, InFlight, InHand
      <3>3. Kept /\ offered' = offered /\ sent' = sent
        <4>1. queue' # queue
          BY <1>0, <2>1, <2>3, PutQueue
        <4> QED  BY <1>3, <4>1 DEF Admit
      <3>4. Pending' = Pending
        BY <3>2, <3>3 DEF Pending
      <3> QED  BY <3>3, <3>4
    <2> QED  BY <1>3, <2>2, <2>3 DEF Admit
  <1>4. CASE PillIn
    <2>1. \A n : n # Pill => (InQueue(n)' <=> InQueue(n))
      BY <1>0, <1>4, PutInQueue DEF PillIn, Entry
    <2> QED  BY <1>4, <2>1 DEF PillIn, Pending, InFlight, InHand
  <1>5. CASE Discard
    <2>1. \A n : n # Pill => (InQueue(n)' <=> InQueue(n) /\ n # Head(queue))
      BY <1>0, <1>5, TakeInQueue DEF Discard, Distinct
    <2>2. /\ 1 \in 1 .. Len(queue) /\ Head(queue) = queue[1]
      BY <1>0, <1>5, TakeQueue DEF Discard
    <2>3. CASE Head(queue) = Pill
      BY <1>5, <2>1, <2>3 DEF Discard, Pending, InFlight, InHand
    <2>4. CASE Head(queue) # Pill
      <3>1. Head(queue) # hand /\ \A w \in Workers : item[w] # Head(queue)
        BY <1>0, <2>2, <2>4 DEF Distinct, QueueFresh, Settled
      <3>2. Head(queue) \in 1 .. offered /\ InQueue(Head(queue))
        BY <1>0, <2>2, <2>4 DEF Entry, Settled, InQueue
      <3>3. Pending' = Pending \ {Head(queue)} /\ Head(queue) \in Pending
        BY <1>5, <2>1, <3>1, <3>2 DEF Discard, Pending, InFlight, InHand
      <3>4. Loses(Head(queue)) /\ offered' = offered /\ sent' = sent
        BY <1>5, <2>4 DEF Discard
      <3> QED  BY <3>3, <3>4
    <2> QED  BY <2>3, <2>4
  <1>6. ASSUME NEW w \in Workers, Fetch(w) PROVE Pending' = Pending
    <2>1. /\ \A n : n # Pill => (InQueue(n)' <=> InQueue(n) /\ n # Head(queue))
          /\ InQueue(Head(queue))
      BY <1>0, <1>6, TakeInQueue DEF Fetch, Distinct
    <2>2. \A v \in Workers : item'[v] = IF v = w THEN Head(queue) ELSE item[v]
      BY <1>0, <1>6 DEF Fetch, RestOK
    <2>3. \A n \in 1 .. offered : InHand(n)' <=> InHand(n) \/ n = Head(queue)
      BY <1>6, <2>2 DEF Fetch, InHand
    <2>4. \A n \in 1 .. offered : InFlight(n)' <=> InFlight(n)
      BY <2>1, <2>3 DEF InFlight
    <2> QED  BY <1>6, <2>4 DEF Fetch, Pending
  <1>7. ASSUME NEW w \in Workers, Release(w)
        PROVE  Pending' = Pending \ {item[w]} /\ item[w] \in Pending
    <2>1. \A v \in Workers : item'[v] = IF v = w THEN Nothing ELSE item[v]
      BY <1>0, <1>7 DEF Release, RestOK
    <2>2. item[w] # hand /\ ~InQueue(item[w]) /\ \A v \in Workers : v # w => item[v] # item[w]
      BY <1>0, <1>7 DEF Release, Distinct, QueueFresh, ItemFresh, InQueue, Settled
    <2>3. item[w] \in 1 .. offered
      BY <1>0, <1>7 DEF Release, Settled
    <2>4. \A n \in 1 .. offered : InFlight(n)' <=> InFlight(n) /\ n # item[w]
      BY <1>7, <2>1, <2>2 DEF Release, InFlight, InHand, InQueue
    <2>5. InFlight(item[w])
      BY DEF InFlight, InHand
    <2> QED  BY <1>7, <2>3, <2>4, <2>5 DEF Release, Pending
  <1> QED
    BY <1>1, <1>2, <1>3, <1>4, <1>5, <1>6, <1>7 DEF Move, Fetch, Release

(* Destination implements LossyRelay: what reaches the peer is what the hub   *)
(* offered, minus losses, without duplicates or resurrections.               *)
THEOREM DestinationImplementsRelay == Spec => ImplementsRelay
  <1>1. Init => Relay!Init
    BY DEF Init, Relay!Init, InFlight, InHand, InQueue
  <1>2. TypeInv /\ Distinct /\ [Next]_vars => [Relay!Next]_(Relay!vars)
    <2> SUFFICES ASSUME TypeInv, Distinct, [Next]_vars PROVE [Relay!Next]_(Relay!vars)
      OBVIOUS
    <2>1. Move
      BY ChunkMoves
    <2> QED
      BY <2>1, MoveRefines
         DEF Pending, Relay!Next, Relay!vars, Relay!Accept, Relay!Lose, Relay!Deliver
  <1> QED
    BY <1>1, <1>2, Inductive, PTL DEF Spec, ImplementsRelay, Relay!Spec

-----------------------------------------------------------------------------
(* Where each chunk is: the places that NoSilentLoss counts.                   *)
Places == {"flight", "sent"} \cup LossKinds
At(n, p) ==
  CASE p = "flight" -> InFlight(n)
    [] p = "sent"   -> n \in Items(sent)
    [] OTHER        -> n \in lost[p]

(* A chunk that was read is in one place, one that was not is in none but      *)
(* flight (0 is in nobody's hand); and each loss messages_dropped speaks of is   *)
(* counted.                                                                  *)
Placed ==
  \A n \in 1 .. offered : \E p \in Places : At(n, p) /\ \A q \in Places : At(n, q) => q = p
Later == \A k \in LossKinds : lost[k] \subseteq 1 .. offered
Droppings == lost["full"] \cup lost["unconnected"]
Counted == IsFiniteSet(Droppings) /\ dropped = Cardinality(Droppings)
Accounted == Placed /\ Later /\ Counted

LEMMA AtPlaces ==
  ASSUME NEW n
  PROVE  /\ At(n, "flight") <=> InFlight(n)
         /\ At(n, "sent") <=> n \in Items(sent)
         /\ \A k \in LossKinds : At(n, k) <=> n \in lost[k]
  BY DEF At, LossKinds

LEMMA AtPlacesLater ==
  ASSUME NEW n
  PROVE  /\ At(n, "flight")' <=> InFlight(n)'
         /\ At(n, "sent")' <=> n \in Items(sent')
         /\ \A k \in LossKinds : At(n, k)' <=> n \in lost'[k]
  BY DEF At, LossKinds

(* What a loss does to the record.                                           *)
LEMMA LosesOne ==
  ASSUME LostOK, Counted, NEW n \in Chunk, Loses(n), \A k \in LossKinds : n \notin lost[k]
  PROVE  /\ Counted'
         /\ \E k \in LossKinds : /\ lost'[k] = lost[k] \cup {n}
                                 /\ \A j \in LossKinds : j # k => lost'[j] = lost[j]
  <1>1. PICK k \in LossKinds : /\ lost' = [lost EXCEPT ![k] = @ \cup {n}]
                               /\ dropped' = IF k \in {"full", "unconnected"} THEN dropped + 1 ELSE dropped
    BY DEF Loses
  <1>2. lost'[k] = lost[k] \cup {n} /\ \A j \in LossKinds : j # k => lost'[j] = lost[j]
    BY <1>1 DEF LostOK
  <1>3. "full" \in LossKinds /\ "unconnected" \in LossKinds
    BY DEF LossKinds
  <1>4. n \notin Droppings
    BY <1>3 DEF Droppings
  <1>5. CASE k \in {"full", "unconnected"}
    <2>1. Droppings' = Droppings \cup {n}
      BY <1>2, <1>3, <1>5 DEF Droppings
    <2> QED  BY <1>1, <1>2, <1>4, <1>5, <2>1, FS_AddElement DEF Counted
  <1>6. CASE k \notin {"full", "unconnected"}
    <2>1. Droppings' = Droppings /\ dropped' = dropped
      BY <1>1, <1>2, <1>3, <1>6 DEF Droppings
    <2> QED  BY <1>2, <2>1 DEF Counted
  <1> QED  BY <1>5, <1>6

(* Chunk h comes to the place g, from another or, when it is new, from none.   *)
LEMMA ChunkComes ==
  ASSUME Placed, NEW h \in Chunk, NEW g \in Places,
         \A n \in 1 .. offered' : n \in 1 .. offered \/ n = h,
         \A p \in Places : At(h, p)' <=> p = g,
         \A n \in 1 .. offered' : n # h => \A p \in Places : At(n, p)' <=> At(n, p)
  PROVE  Placed'
  <1> SUFFICES ASSUME NEW n \in 1 .. offered'
               PROVE  \E p \in Places : At(n, p)' /\ \A q \in Places : At(n, q)' => q = p
    BY DEF Placed
  <1>1. CASE n = h
    BY <1>1
  <1>2. CASE n # h
    <2>1. n \in 1 .. offered
      BY <1>2
    <2>2. PICK p \in Places : At(n, p) /\ \A q \in Places : At(n, q) => q = p
      BY <2>1 DEF Placed
    <2> QED  BY <1>2, <2>2
  <1> QED  BY <1>1, <1>2

LEMMA AccountedInit == Init => Accounted
  <1> SUFFICES ASSUME Init PROVE Accounted
    OBVIOUS
  <1>1. 1 .. offered = {} /\ \A k \in LossKinds : lost[k] = {}
    BY DEF Init
  <1>2. Droppings = {} /\ dropped = 0
    BY <1>1 DEF Init, Droppings, LossKinds
  <1>3. Counted
    BY <1>2, FS_EmptySet DEF Counted
  <1> QED  BY <1>1, <1>3 DEF Accounted, Placed, Later

LEMMA AppendItems ==
  ASSUME NEW q \in Seq(Chunk), NEW x \in Chunk
  PROVE  Items(Append(q, x)) = Items(q) \cup {x}
  <1>1. /\ Len(q) \in Nat /\ Len(Append(q, x)) = Len(q) + 1 /\ Append(q, x)[Len(q) + 1] = x
        /\ \A i \in 1 .. Len(q) : Append(q, x)[i] = q[i]
    OBVIOUS
  <1>2. /\ \A i \in 1 .. (Len(q) + 1) : i \in 1 .. Len(q) \/ i = Len(q) + 1
        /\ \A i \in 1 .. Len(q) : i \in 1 .. (Len(q) + 1)
        /\ Len(q) + 1 \in 1 .. (Len(q) + 1)
    BY <1>1
  <1> QED  BY <1>1, <1>2 DEF Items

LEMMA AccountedStep == TypeInv /\ Distinct /\ Accounted /\ [Next]_vars => Accounted'
  <1> SUFFICES ASSUME TypeInv, LostOK, RestOK, Distinct, Accounted, Move PROVE Accounted'
    BY ChunkMoves, TypeParts DEF TypeInv
  <1>0. /\ offered \in Nat /\ sent \in Seq(Chunk)
        /\ \A n \in 1 .. offered : n \in Chunk /\ (n \in Pending <=> InFlight(n))
        /\ Placed /\ Later /\ Counted
    BY BoundsAssumption DEF RestOK, Pending, Accounted
  <1>1. CASE offered' = offered /\ Pending' = Pending /\ sent' = sent /\ Kept
    <2>1. \A n \in 1 .. offered : \A p \in Places : At(n, p)' <=> At(n, p)
      <3>1. \A n \in 1 .. offered : InFlight(n)' <=> InFlight(n)
        BY <1>0, <1>1 DEF Pending
      <3> QED  BY <1>1, <3>1, AtPlaces, AtPlacesLater DEF Kept, Places
    <2>2. Placed'
      BY <1>0, <1>1, <2>1 DEF Placed
    <2> QED  BY <1>0, <1>1, <2>2 DEF Kept, Later, Counted, Droppings, Accounted
  <1>2. CASE /\ offered' = offered + 1 /\ sent' = sent /\ offered + 1 \in Chunk /\ offered + 1 \notin Pending
             /\ (Pending' = Pending /\ Loses(offered + 1)) \/ (Pending' = Pending \cup {offered + 1} /\ Kept)
    <2>1. PICK h \in Chunk : h = offered + 1
      BY <1>2
    <2>2. \A k \in LossKinds : h \notin lost[k]
      BY <1>0, <2>1 DEF Later
    <2>3. h \notin Items(sent)
      <3>1. \A i \in 1 .. Len(sent) : sent[i] <= Settled /\ sent[i] \in Nat
        BY <1>0, BoundsAssumption DEF Distinct, SentFresh
      <3> QED  BY <1>0, <2>1, <3>1 DEF Items, Settled
    <2>4. \A n \in 1 .. offered' : n \in 1 .. offered \/ n = h
      BY <1>0, <1>2, <2>1
    <2>5. \A n \in 1 .. offered : n # h /\ n \in 1 .. offered'
      BY <1>0, <1>2, <2>1
    <2>6. \A n \in 1 .. offered : InFlight(n)' <=> InFlight(n)
      <3>1. \A n \in 1 .. offered : n \in Pending' <=> n \in Pending
        BY <1>2, <2>1, <2>5
      <3>2. Pending' = {n \in 1 .. offered' : InFlight(n)'}
        BY DEF Pending
      <3> QED  BY <1>0, <2>5, <3>1, <3>2
    <2>7. InFlight(h)' <=> h \in Pending'
      <3>1. h \in 1 .. offered'
        BY <1>0, <1>2, <2>1
      <3> QED  BY <3>1 DEF Pending
    <2>8. CASE Pending' = Pending /\ Loses(h)
      <3>1. Counted' /\ \E k \in LossKinds : /\ lost'[k] = lost[k] \cup {h}
                                            /\ \A j \in LossKinds : j # k => lost'[j] = lost[j]
        BY <1>0, <2>2, <2>8, LosesOne
      <3>2. PICK k \in LossKinds : /\ lost'[k] = lost[k] \cup {h}
                                   /\ \A j \in LossKinds : j # k => lost'[j] = lost[j]
        BY <3>1
      <3>3. \A p \in Places : At(h, p)' <=> p = k
        BY <1>2, <2>1, <2>2, <2>3, <2>7, <2>8, <3>2, AtPlacesLater DEF Places, LossKinds
      <3>4. \A m \in 1 .. offered' : m # h => \A p \in Places : At(m, p)' <=> At(m, p)
        BY <1>2, <2>4, <2>6, <3>2, AtPlaces, AtPlacesLater DEF Places
      <3>5. Placed'
        BY <1>0, <2>4, <3>3, <3>4, ChunkComes DEF Places
      <3>6. Later'
        BY <1>0, <1>2, <2>1, <3>2 DEF Later
      <3> QED  BY <3>1, <3>5, <3>6 DEF Accounted
    <2>9. CASE Pending' = Pending \cup {h} /\ Kept
      <3>1. \A p \in Places : At(h, p)' <=> p = "flight"
        BY <1>2, <2>2, <2>3, <2>7, <2>9, AtPlacesLater DEF Places, LossKinds, Kept
      <3>2. \A m \in 1 .. offered' : m # h => \A p \in Places : At(m, p)' <=> At(m, p)
        BY <1>2, <2>4, <2>6, <2>9, AtPlaces, AtPlacesLater DEF Places, Kept
      <3>3. Placed'
        BY <1>0, <2>4, <3>1, <3>2, ChunkComes DEF Places
      <3>4. Later' /\ Counted'
        BY <1>0, <1>2, <2>9 DEF Later, Counted, Droppings, Kept
      <3> QED  BY <3>3, <3>4 DEF Accounted
    <2> QED  BY <1>2, <2>1, <2>8, <2>9
  <1>3. ASSUME offered' = offered, NEW n \in Pending, Pending' = Pending \ {n},
               (sent' = sent /\ Loses(n)) \/ (sent' = Append(sent, n) /\ Kept)
        PROVE  Accounted'
    <2>1. n \in 1 .. offered /\ n \in Chunk /\ At(n, "flight") /\ "flight" \in Places
      BY <1>0, AtPlaces DEF Pending, Places
    <2>2. \A q \in Places : At(n, q) => q = "flight"
      BY <1>0, <2>1 DEF Placed
    <2>3. n \notin Items(sent) /\ \A k \in LossKinds : n \notin lost[k]
      BY <2>2, AtPlaces DEF Places, LossKinds
    <2>4. \A m \in 1 .. offered : InFlight(m)' <=> InFlight(m) /\ m # n
      BY <1>0, <1>3 DEF Pending
    <2>5. CASE sent' = sent /\ Loses(n)
      <3>1. Counted' /\ \E k \in LossKinds : /\ lost'[k] = lost[k] \cup {n}
                                            /\ \A j \in LossKinds : j # k => lost'[j] = lost[j]
        BY <1>0, <2>1, <2>3, <2>5, LosesOne
      <3>2. PICK k \in LossKinds : /\ lost'[k] = lost[k] \cup {n}
                                   /\ \A j \in LossKinds : j # k => lost'[j] = lost[j]
        BY <3>1
      <3>3. \A p \in Places : At(n, p)' <=> p = k
        BY <2>1, <2>3, <2>4, <2>5, <3>2, AtPlacesLater DEF Places, LossKinds
      <3>4. \A m \in 1 .. offered' : m # n => \A p \in Places : At(m, p)' <=> At(m, p)
        BY <1>3, <2>4, <2>5, <3>2, AtPlaces, AtPlacesLater DEF Places
      <3>5. Placed'
        BY <1>0, <1>3, <2>1, <3>3, <3>4, ChunkComes DEF Places
      <3>6. Later'
        BY <1>0, <1>3, <2>1, <3>2 DEF Later
      <3> QED  BY <3>1, <3>5, <3>6 DEF Accounted
    <2>6. CASE sent' = Append(sent, n) /\ Kept
      <3>1. Items(sent') = Items(sent) \cup {n} /\ lost' = lost /\ dropped' = dropped
        BY <1>0, <2>1, <2>6, AppendItems DEF Kept
      <3>2. \A p \in Places : At(n, p)' <=> p = "sent"
        BY <2>1, <2>3, <2>4, <3>1, AtPlacesLater DEF Places, LossKinds
      <3>3. \A m \in 1 .. offered' : m # n => \A p \in Places : At(m, p)' <=> At(m, p)
        BY <1>3, <2>4, <3>1, AtPlaces, AtPlacesLater DEF Places
      <3>4. Placed'
        BY <1>0, <1>3, <2>1, <3>2, <3>3, ChunkComes DEF Places
      <3> QED  BY <1>0, <1>3, <3>1, <3>4 DEF Accounted, Later, Counted, Droppings
    <2> QED  BY <1>3, <2>5, <2>6
  <1> QED  BY <1>1, <1>2, <1>3, MoveRefines

(* NoSilentLoss, for every capacity, set of run loops, number of chunks and of *)
(* starts: each chunk the broadcast thread read is in flight, delivered, or    *)
(* lost in exactly one way, and messages_dropped counts what a full queue      *)
(* refused or found the destination unable to connect.                        *)
THEOREM NothingLostSilently == Spec => []NoSilentLoss
  <1>1. Spec => [](TypeInv /\ Distinct /\ Accounted)
    BY TypeInit, TypeStep, DistinctInit, DistinctStep, AccountedInit, AccountedStep, PTL DEF Spec
  <1>2. TypeInv /\ Accounted => NoSilentLoss
    <2> SUFFICES ASSUME TypeInv, Accounted PROVE NoSilentLoss
      OBVIOUS
    <2>1. ASSUME NEW n \in 1 .. offered
          PROVE  Cardinality({p \in Places : At(n, p)}) = 1
      <3>1. PICK p \in Places : At(n, p) /\ \A q \in Places : At(n, q) => q = p
        BY DEF Accounted, Placed
      <3>2. {q \in Places : At(n, q)} = {p}
        BY <3>1
      <3> QED  BY <3>2, FS_Singleton
    <2>2. TypeOK /\ dropped = Cardinality(lost["full"] \cup lost["unconnected"])
      BY DEF TypeInv, Accounted, Counted, Droppings
    <2> QED  BY <2>1, <2>2 DEF NoSilentLoss, Places, At
  <1> QED  BY <1>1, <1>2, PTL

-----------------------------------------------------------------------------
(* What stop() leaves behind: as long as no join has timed out and no exception *)
(* has left stop(), a restart never runs two loops, and a stopped destination   *)
(* has no thread and no connection.                                          *)
Prompt    == ~raised /\ ~gaveUp
NoneAlive == \A w \in Workers : ~Alive(w)

(* Where the caller is decides what the threads can be doing: from the join   *)
(* to the next spawn there is no thread, and outside stop() a destination     *)
(* that does not run is also disconnected.                                   *)
Lifecycle ==
  Prompt =>
    /\ \A w \in Workers : Alive(w) => w = thread
    /\ cpc \in {"pill", "evict", "refill", "join", "disconnect"} => ~running
    /\ cpc = "spawn" => running
    /\ cpc \in {"spawn", "disconnect"} => NoneAlive
    /\ cpc \in {"idle", "start", "stop"} /\ ~running => NoneAlive /\ ~connected

LEMMA LifecycleInit == Init => Lifecycle
  BY DEF Init, Lifecycle, NoneAlive, Alive

(* A run loop that is alive can go from place to place or end; no loop begins. *)
LEMMA WorkerKeepsLife ==
  ASSUME RestOK, NEW w \in Workers, WorkerSteps(w)
  PROVE  /\ Alive(w)
         /\ \A v \in Workers : Alive(v)' => Alive(v)
         /\ UNCHANGED <<running, thread, cpc, raised, gaveUp>>
  <1>1. ASSUME NEW to, wpc[w] # "off", wpc' = [wpc EXCEPT ![w] = to]
        PROVE  Alive(w) /\ \A v \in Workers : Alive(v)' => Alive(v)
    BY <1>1 DEF RestOK, Alive
  <1>2. wpc[w] # "off" /\ (wpc' = wpc \/ \E to : wpc' = [wpc EXCEPT ![w] = to])
    BY DEF WorkerSteps, CheckRunning, GetEmpty, GetPill, GetChunk, CheckConnected, ConnectOk,
           ConnectFail, ClearOne, ClearDone, Recheck, SendOk, SendFail, Goto, threadVars
  <1>3. UNCHANGED <<running, thread, cpc, raised, gaveUp>>
    BY DEF WorkerSteps, CheckRunning, GetEmpty, GetPill, GetChunk, CheckConnected, ConnectOk,
           ConnectFail, ClearOne, ClearDone, Recheck, SendOk, SendFail, threadVars, callVars
  <1>4. wpc' = wpc => Alive(w) /\ \A v \in Workers : Alive(v)' => Alive(v)
    BY <1>2 DEF Alive
  <1> QED  BY <1>1, <1>2, <1>3, <1>4

LEMMA LifecycleStep == TypeInv /\ Lifecycle /\ [Next]_vars => Lifecycle'
  <1> SUFFICES ASSUME RestOK, Lifecycle, [Next]_vars PROVE Lifecycle'
    BY TypeParts DEF TypeInv
  <1> USE DEF Lifecycle, Prompt, NoneAlive, threadVars, hubVars, callVars, history
  <1>1. CASE UNCHANGED vars
    BY <1>1 DEF vars, Alive
  <1>2. CASE Offer \/ Enqueue \/ StartDestination \/ StopDestination
    BY <1>2 DEF Offer, Enqueue, StartDestination, StopDestination, Alive
  <1>3. CASE Start
    BY <1>3 DEF Start, Alive
  <1>4. CASE Spawn
    <2>1. PICK w \in Workers : thread' = w /\ wpc' = [wpc EXCEPT ![w] = "loop"]
      BY <1>4, Zenon DEF Spawn
    <2>2. \A v \in Workers : v # w => (Alive(v)' <=> Alive(v))
      BY <2>1 DEF RestOK, Alive
    <2>3. Prompt => running
      BY <1>4 DEF Spawn
    <2> QED  BY <1>4, <2>1, <2>2 DEF Spawn
  <1>5. CASE Stop
    BY <1>5 DEF Stop, Alive
  <1>6. CASE PutPill \/ Evict \/ PutPillAgain
    BY <1>6 DEF PutPill, Evict, PutPillAgain, Alive
  <1>7. CASE Join
    BY <1>7, WorkersAssumption DEF Join, Alive, RestOK
  <1>8. CASE Disconnect
    BY <1>8 DEF Disconnect, Alive
  <1>9. ASSUME NEW w \in Workers, WorkerSteps(w) PROVE Lifecycle'
    BY <1>9, WorkerKeepsLife
  <1>10. CASE PeerDisconnect
    BY <1>10 DEF PeerDisconnect, Alive
  <1> QED
    BY <1>1, <1>2, <1>3, <1>4, <1>5, <1>6, <1>7, <1>8, <1>9, <1>10
       DEF Next, Hub, StartSteps, StopSteps

LEMMA AlwaysLifecycle == Spec => []Lifecycle
  BY LifecycleInit, TypeInit, TypeStep, LifecycleStep, PTL DEF Spec

(* A restart never puts a second run loop on the queue (start(), stop()).     *)
THEOREM OneWorker == Spec => []SingleWorker
  <1>1. Lifecycle => SingleWorker
    BY DEF Lifecycle, Prompt, SingleWorker
  <1> QED  BY AlwaysLifecycle, <1>1, PTL

(* When stop() has returned its thread is gone and the connection closed.     *)
THEOREM StopIsClean == Spec => []CleanStop
  <1>1. Lifecycle => CleanStop
    BY DEF Lifecycle, Prompt, NoneAlive, CleanStop
  <1> QED  BY AlwaysLifecycle, <1>1, PTL

-----------------------------------------------------------------------------
(* What is sent is fresh and in order.  The queue is in the order in which the  *)
(* hub read the chunks, what a run loop holds is older than what is queued, and *)
(* what was sent is older than both, while there is one run loop.               *)
QueueOrdered ==
  \A i, j \in 1 .. Len(queue) : i < j /\ queue[i] # Pill /\ queue[j] # Pill => queue[i] < queue[j]
ItemsOlder ==
  \A w \in Workers : \A j \in 1 .. Len(queue) : item[w] # Nothing /\ queue[j] # Pill => item[w] < queue[j]
SentOlder ==
  \A k \in 1 .. Len(sent) :
    /\ \A j \in 1 .. Len(queue) : queue[j] # Pill => sent[k] < queue[j]
    /\ Prompt => \A w \in Workers : item[w] # Nothing => sent[k] < item[w]
Ordered == QueueOrdered /\ ItemsOlder /\ SentOlder

(* After a connect, until the queue has been emptied, the run loop holds the    *)
(* chunk that made it connect; from then on, while the connection lasts, what    *)
(* is queued or held was enqueued after the connect, up to that chunk.          *)
Fresh ==
  /\ epoch.backlog <= Settled
  /\ Prompt =>
       /\ \A w \in Workers : wpc[w] = "clear" => item[w] = epoch.trigger
       /\ connected /\ (\A w \in Workers : wpc[w] # "clear") =>
            /\ \A i \in 1 .. Len(queue) : queue[i] # Pill => queue[i] > epoch.backlog
            /\ \A w \in Workers : item[w] # Nothing => item[w] = epoch.trigger \/ item[w] > epoch.backlog

LEMMA OrderInit == Init => Ordered /\ Fresh
  BY DEF Init, Ordered, QueueOrdered, ItemsOlder, SentOlder, Fresh, Settled

(* While stop() has been prompt, one run loop holds a chunk.                    *)
LEMMA OneHolds ==
  ASSUME TypeInv, Lifecycle, Prompt, NEW v \in Workers, NEW w \in Workers, item[v] # Nothing, item[w] # Nothing
  PROVE  v = w
  <1>1. Holding(v) /\ Holding(w)
    BY DEF TypeInv, HoldsItem
  <1>2. Alive(v) /\ Alive(w)
    BY <1>1 DEF Holding, Alive
  <1> QED  BY <1>2 DEF Lifecycle

(* A stop() that raised, or gave up a join, is remembered.                      *)
LEMMA PromptBefore == RestOK /\ [Next]_vars /\ Prompt' => Prompt
  BY DEF Next, Hub, StartSteps, StopSteps, WorkerSteps, Offer, Enqueue, StartDestination, Start, Spawn,
         StopDestination, Stop, PutPill, Evict, PutPillAgain, Join, Disconnect, CheckRunning, GetEmpty,
         GetPill, GetChunk, CheckConnected, ConnectOk, ConnectFail, ClearOne, ClearDone, Recheck, SendOk,
         SendFail, PeerDisconnect, Prompt, callVars, vars, RestOK

(* Only a connect, and the end of the clearing after it, begin or end a clearing. *)
LEMMA SameClear ==
  ASSUME RestOK, [Next]_vars, ~(\E w \in Workers : ConnectOk(w) \/ ClearDone(w))
  PROVE  /\ epoch' = epoch /\ (connected' => connected)
         /\ \A w \in Workers : (wpc'[w] = "clear" <=> wpc[w] = "clear")
  <1> USE DEF threadVars, hubVars, callVars, history
  <1>1. ASSUME NEW w \in Workers, WorkerSteps(w)
        PROVE  /\ epoch' = epoch /\ (connected' => connected)
               /\ \A v \in Workers : (wpc'[v] = "clear" <=> wpc[v] = "clear")
    <2>1. epoch' = epoch /\ (connected' => connected)
      BY <1>1 DEF WorkerSteps, CheckRunning, GetEmpty, GetPill, GetChunk, CheckConnected, ConnectFail, ClearOne,
             Recheck, SendOk, SendFail
    <2>2. wpc' = wpc \/ \E to \in {"get", "off", "loop", "check", "send", "connect", "recheck"} :
                          wpc[w] # "clear" /\ wpc' = [wpc EXCEPT ![w] = to]
      BY <1>1 DEF WorkerSteps, CheckRunning, GetEmpty, GetPill, GetChunk, CheckConnected, ConnectFail, ClearOne,
             Recheck, SendOk, SendFail, Goto
    <2> QED  BY <2>1, <2>2 DEF RestOK
  <1>2. CASE Spawn
    BY <1>2 DEF Spawn, Alive, RestOK
  <1> QED
    BY <1>1, <1>2 DEF Next, Hub, StartSteps, StopSteps, Offer, Enqueue, StartDestination, Start, StopDestination,
       Stop, PutPill, Evict, PutPillAgain, Join, Disconnect, PeerDisconnect, vars

LEMMA OrderStep == TypeInv /\ Distinct /\ Lifecycle /\ Ordered /\ [Next]_vars => Ordered'
  <1> SUFFICES ASSUME TypeInv, QueueOK, RestOK, Distinct, Lifecycle, Ordered, [Next]_vars PROVE Ordered'
    BY TypeParts DEF TypeInv
  <1>0. /\ Len(queue) \in Nat /\ Len(sent) \in Nat /\ offered \in Nat /\ hand \in {Nothing, offered}
        /\ \A i \in 1 .. Len(queue) : queue[i] \in Nat /\ queue[i] <= Settled
        /\ \A k \in 1 .. Len(sent) : sent[k] \in Nat /\ sent[k] <= Settled
        /\ \A w \in Workers : item[w] \in Nat /\ item[w] <= Settled
        /\ sent \in Seq(Chunk)
    BY BoundsAssumption DEF QueueOK, RestOK, Entry, Distinct, QueueFresh, ItemFresh, SentFresh
  <1>1. Prompt' => Prompt
    BY PromptBefore
  <1>2. Move
    BY ChunkMoves
  <1>3. CASE Idle \/ Read
    BY <1>1, <1>3 DEF Idle, Read, Ordered, QueueOrdered, ItemsOlder, SentOlder
  <1>4. ASSUME NEW x \in Entry, Put(x), x = Pill \/ x > Settled, UNCHANGED <<item, sent>>
        PROVE  Ordered'
    <2>1. \A i \in 1 .. Len(queue') : \/ i \in 1 .. Len(queue) /\ queue'[i] = queue[i]
                                      \/ i = Len(queue) + 1 /\ queue'[i] = x
      BY <1>0, <1>4, PutQueue
    <2>2. x \in Nat /\ Settled \in Int /\ \A i \in 1 .. Len(queue) : x # Pill => queue[i] < x
      BY <1>0, <1>4, BoundsAssumption DEF Entry, Settled
    <2>3. QueueOrdered'
      <3> SUFFICES ASSUME NEW i \in 1 .. Len(queue'), NEW j \in 1 .. Len(queue'), i < j,
                          queue'[i] # Pill, queue'[j] # Pill
                   PROVE  queue'[i] < queue'[j]
        BY DEF QueueOrdered
      <3>1. i \in 1 .. Len(queue) /\ queue'[i] = queue[i]
        BY <1>0, <2>1
      <3>2. CASE j \in 1 .. Len(queue) /\ queue'[j] = queue[j]
        BY <3>1, <3>2 DEF Ordered, QueueOrdered
      <3>3. CASE queue'[j] = x
        BY <2>2, <3>1, <3>3
      <3> QED  BY <2>1, <3>2, <3>3
    <2>4. ItemsOlder'
      <3> SUFFICES ASSUME NEW w \in Workers, NEW j \in 1 .. Len(queue'), item[w] # Nothing, queue'[j] # Pill
                   PROVE  item[w] < queue'[j]
        BY <1>4 DEF ItemsOlder
      <3>1. item[w] <= Settled /\ item[w] \in Nat
        BY <1>0
      <3> QED  BY <1>4, <2>1, <2>2, <3>1 DEF Ordered, ItemsOlder
    <2>5. ASSUME NEW k \in 1 .. Len(sent), NEW j \in 1 .. Len(queue'), queue'[j] # Pill
          PROVE  sent[k] < queue'[j]
      <3>1. sent[k] <= Settled /\ sent[k] \in Nat
        BY <1>0
      <3> QED  BY <1>4, <2>1, <2>2, <2>5, <3>1 DEF Ordered, SentOlder
    <2>6. SentOlder'
      BY <1>1, <1>4, <2>5 DEF Ordered, SentOlder
    <2> QED  BY <2>3, <2>4, <2>6 DEF Ordered
  <1>5. CASE Admit
    <2>1. hand = offered /\ hand \in Entry /\ hand > Settled
      BY <1>0, <1>5, BoundsAssumption DEF Admit, RestOK, Entry, Settled
    <2>2. CASE queue' = queue
      BY <1>1, <1>5, <2>2 DEF Admit, Ordered, QueueOrdered, ItemsOlder, SentOlder
    <2>3. CASE Put(hand)
      BY <1>4, <1>5, <2>1, <2>3 DEF Admit
    <2> QED  BY <1>5, <2>2, <2>3 DEF Admit
  <1>6. ASSUME Take
        PROVE  /\ QueueOrdered' /\ 1 \in 1 .. Len(queue) /\ Head(queue) = queue[1]
               /\ \A i \in 1 .. Len(queue') : i + 1 \in 1 .. Len(queue) /\ queue'[i] = queue[i + 1] /\ 1 < i + 1
    <2>1. /\ \A i \in 1 .. Len(queue') : i + 1 \in 1 .. Len(queue) /\ queue'[i] = queue[i + 1] /\ 1 < i + 1
          /\ 1 \in 1 .. Len(queue) /\ Head(queue) = queue[1]
      BY <1>6, TakeQueue
    <2>2. ASSUME NEW i \in 1 .. Len(queue'), NEW j \in 1 .. Len(queue'), i < j, queue'[i] # Pill, queue'[j] # Pill
          PROVE  queue'[i] < queue'[j]
      <3>1. i + 1 < j + 1
        BY <2>2
      <3> QED  BY <2>1, <2>2, <3>1 DEF Ordered, QueueOrdered
    <2> QED  BY <2>1, <2>2 DEF QueueOrdered
  <1>7. CASE Discard
    <2>1. ItemsOlder'
      BY <1>6, <1>7 DEF Discard, Ordered, ItemsOlder
    <2>2. SentOlder'
      BY <1>1, <1>6, <1>7 DEF Discard, Ordered, SentOlder
    <2> QED  BY <1>6, <1>7, <2>1, <2>2 DEF Discard, Ordered
  <1>8. ASSUME NEW w \in Workers, Fetch(w) PROVE Ordered'
    <2>1. /\ Take /\ queue[1] # Nothing /\ Head(queue) = queue[1] /\ 1 \in 1 .. Len(queue) /\ sent' = sent
          /\ \A v \in Workers : item'[v] = IF v = w THEN queue[1] ELSE item[v]
          /\ \A i \in 1 .. Len(queue') : i + 1 \in 1 .. Len(queue) /\ queue'[i] = queue[i + 1] /\ 1 < i + 1
      BY <1>6, <1>8 DEF Fetch, RestOK
    <2>2. ASSUME NEW v \in Workers, NEW j \in 1 .. Len(queue'), item'[v] # Nothing, queue'[j] # Pill
          PROVE  item'[v] < queue'[j]
      <3>1. CASE v = w
        BY <2>1, <2>2, <3>1 DEF Ordered, QueueOrdered
      <3>2. CASE v # w
        BY <2>1, <2>2, <3>2 DEF Ordered, ItemsOlder
      <3> QED  BY <3>1, <3>2
    <2>3. ASSUME NEW k \in 1 .. Len(sent), NEW j \in 1 .. Len(queue'), queue'[j] # Pill
          PROVE  sent[k] < queue'[j]
      BY <2>1, <2>3 DEF Ordered, SentOlder
    <2>4. ASSUME NEW k \in 1 .. Len(sent), Prompt', NEW v \in Workers, item'[v] # Nothing
          PROVE  sent[k] < item'[v]
      BY <1>1, <2>1, <2>4 DEF Ordered, SentOlder
    <2>5. ItemsOlder' /\ SentOlder'
      BY <2>1, <2>2, <2>3, <2>4 DEF ItemsOlder, SentOlder
    <2> QED  BY <1>6, <2>1, <2>5 DEF Ordered
  <1>9. ASSUME NEW w \in Workers, Release(w) PROVE Ordered'
    <2>1. /\ queue' = queue /\ item[w] # Nothing
          /\ \A v \in Workers : item'[v] = IF v = w THEN Nothing ELSE item[v]
      BY <1>9 DEF Release, RestOK
    <2>2. \A k \in 1 .. Len(sent') : (k \in 1 .. Len(sent) /\ sent'[k] = sent[k])
                                  \/ (k = Len(sent) + 1 /\ sent'[k] = item[w])
      <3>1. CASE sent' = sent
        BY <1>0, <3>1
      <3>2. CASE sent' = Append(sent, item[w])
        BY <1>0, <3>2 DEF RestOK
      <3> QED  BY <1>9, <3>1, <3>2 DEF Release
    <2>3. QueueOrdered' /\ ItemsOlder'
      BY <2>1 DEF Ordered, QueueOrdered, ItemsOlder
    <2>4. ASSUME NEW k \in 1 .. Len(sent'), NEW j \in 1 .. Len(queue'), queue'[j] # Pill
          PROVE  sent'[k] < queue'[j]
      BY <2>1, <2>2, <2>4 DEF Ordered, SentOlder, ItemsOlder
    <2>5. ASSUME NEW k \in 1 .. Len(sent'), Prompt', NEW v \in Workers, item'[v] # Nothing
          PROVE  FALSE
      <3>1. v # w /\ item[v] # Nothing
        BY <2>1, <2>5
      <3> QED  BY <1>1, <2>1, <2>5, <3>1, OneHolds
    <2>6. SentOlder'
      BY <2>4, <2>5 DEF SentOlder
    <2> QED  BY <2>3, <2>6 DEF Ordered
  <1>10. CASE PillIn
    BY <1>4, <1>10 DEF PillIn, Entry
  <1> QED  BY <1>2, <1>3, <1>5, <1>7, <1>8, <1>9, <1>10 DEF Move

LEMMA FreshStep == TypeInv /\ Distinct /\ Lifecycle /\ Fresh /\ [Next]_vars => Fresh'
  <1> SUFFICES ASSUME TypeInv, QueueOK, RestOK, Distinct, Lifecycle, Fresh, [Next]_vars PROVE Fresh'
    BY TypeParts DEF TypeInv
  <1>0. /\ Len(queue) \in Nat /\ offered \in Nat /\ hand \in {Nothing, offered} /\ epoch.backlog \in Nat
        /\ \A i \in 1 .. Len(queue) : queue[i] \in Nat
        /\ \A w \in Workers : item[w] \in Nat
    BY BoundsAssumption DEF QueueOK, RestOK, Entry
  <1> USE DEF threadVars, hubVars, callVars, history
  <1>1. Settled <= Settled'
    <2>1. Move
      BY ChunkMoves
    <2> QED  BY <1>0, <2>1 DEF Move, Idle, Read, Admit, PillIn, Discard, Fetch, Release, Settled
  <1>2. Prompt' => Prompt
    BY PromptBefore
  <1>3. CASE \E w \in Workers : ConnectOk(w)
    <2>1. PICK w \in Workers : ConnectOk(w)
      BY <1>3
    <2>2. /\ wpc' = [wpc EXCEPT ![w] = "clear"] /\ wpc[w] = "connect"
          /\ epoch'.backlog = Settled /\ epoch'.trigger = item[w] /\ item' = item /\ Settled' = Settled
      BY <2>1 DEF ConnectOk, Goto, Settled
    <2>3. wpc'[w] = "clear" /\ \A v \in Workers : v # w => wpc'[v] = wpc[v]
      BY <2>2 DEF RestOK
    <2>4. ASSUME Prompt', NEW v \in Workers, wpc'[v] = "clear" PROVE v = w
      <3>1. Alive(v) /\ Alive(w)
        BY <2>2, <2>3, <2>4 DEF Alive
      <3> QED  BY <1>2, <2>4, <3>1 DEF Lifecycle
    <2>5. epoch'.backlog <= Settled'
      BY <1>0, <2>2 DEF Settled
    <2> QED  BY <2>2, <2>3, <2>4, <2>5 DEF Fresh
  <1>4. CASE \E w \in Workers : ClearDone(w)
    <2>1. PICK w \in Workers : ClearDone(w)
      BY <1>4
    <2>2. /\ wpc' = [wpc EXCEPT ![w] = "recheck"] /\ wpc[w] = "clear" /\ queue = <<>>
          /\ UNCHANGED <<queue, item, epoch, connected>> /\ Settled' = Settled
      BY <2>1 DEF ClearDone, Goto, Settled
    <2>3. wpc'[w] = "recheck" /\ \A v \in Workers : v # w => wpc'[v] = wpc[v]
      BY <2>2 DEF RestOK
    <2>4. \A v \in Workers : wpc'[v] = "clear" => wpc[v] = "clear"
      BY <2>3
    <2>5. 1 .. Len(queue) = {} /\ item[w] # Nothing
      BY <2>2 DEF TypeInv, HoldsItem, Holding
    <2>6. ASSUME Prompt', NEW v \in Workers, item[v] # Nothing PROVE item[v] = epoch.trigger
      <3>1. v = w
        BY <1>2, <2>5, <2>6, OneHolds
      <3> QED  BY <1>2, <2>2, <2>6, <3>1 DEF Fresh
    <2> QED  BY <1>2, <2>2, <2>4, <2>5, <2>6 DEF Fresh
  <1>5. CASE ~(\E w \in Workers : ConnectOk(w) \/ ClearDone(w))
    <2>1. /\ epoch' = epoch /\ (connected' => connected)
          /\ \A w \in Workers : (wpc'[w] = "clear" <=> wpc[w] = "clear")
      BY <1>5, SameClear
    <2>2. ASSUME NEW i \in 1 .. Len(queue'), queue'[i] # Pill
          PROVE  (\E j \in 1 .. Len(queue) : queue'[i] = queue[j]) \/ queue'[i] > Settled
      <3>1. Move
        BY ChunkMoves
      <3>2. CASE queue' = queue
        BY <2>2, <3>2
      <3>3. CASE Take
        <4>1. i + 1 \in 1 .. Len(queue) /\ queue'[i] = queue[i + 1]
          BY <3>3, TakeQueue
        <4> QED  BY <4>1
      <3>4. ASSUME NEW x \in Entry, Put(x), x = Pill \/ x > Settled
            PROVE  (\E j \in 1 .. Len(queue) : queue'[i] = queue[j]) \/ queue'[i] > Settled
        <4>1. i \in 1 .. Len(queue) \/ i = Len(queue) + 1
          BY <1>0, <3>4, PutQueue
        <4>2. i \in 1 .. Len(queue) => queue'[i] = queue[i]
          BY <3>4, PutQueue
        <4>3. i = Len(queue) + 1 => queue'[i] = x
          BY <3>4, PutQueue
        <4> QED  BY <2>2, <3>4, <4>1, <4>2, <4>3
      <3>5. CASE Admit
        <4>1. hand \in Entry /\ hand > Settled
          BY <1>0, <3>5, BoundsAssumption DEF Admit, RestOK, Entry, Settled
        <4> QED  BY <3>2, <3>4, <3>5, <4>1 DEF Admit
      <3>6. CASE PillIn
        <4>1. Pill \in Entry
          BY DEF Entry
        <4> QED  BY <3>4, <3>6, <4>1 DEF PillIn
      <3> QED  BY <3>1, <3>2, <3>3, <3>5, <3>6 DEF Move, Idle, Read, Discard, Fetch, Release
    <2>3. ASSUME NEW w \in Workers
          PROVE  /\ item'[w] # Nothing => item'[w] = item[w] \/ \E j \in 1 .. Len(queue) : item'[w] = queue[j]
                 /\ wpc[w] = "clear" => item'[w] = item[w]
      <3>1. CASE item' = item
        BY <3>1
      <3>2. ASSUME NEW v \in Workers, Fetch(v)
            PROVE  /\ item'[w] # Nothing => item'[w] = item[w] \/ \E j \in 1 .. Len(queue) : item'[w] = queue[j]
                   /\ wpc[w] = "clear" => item'[w] = item[w]
        <4>1. item' = [item EXCEPT ![v] = queue[1]] /\ 1 \in 1 .. Len(queue) /\ item[v] = Nothing
          BY <3>2, TakeQueue DEF Fetch
        <4>2. wpc[v] # "clear"
          BY <4>1 DEF TypeInv, HoldsItem, Holding
        <4>3. item'[w] = IF w = v THEN queue[1] ELSE item[w]
          BY <4>1 DEF RestOK
        <4> QED  BY <4>1, <4>2, <4>3
      <3>3. ASSUME NEW v \in Workers, Release(v)
            PROVE  /\ item'[w] # Nothing => item'[w] = item[w]
                   /\ w # v => item'[w] = item[w]
        BY <3>3 DEF Release, RestOK
      <3>4. ASSUME wpc[w] = "clear" PROVE wpc'[w] = "clear" /\ item'[w] # Nothing
        <4>1. wpc'[w] = "clear" /\ HoldsItem'
          BY <2>1, <3>4, TypeStep DEF TypeInv
        <4> QED  BY <4>1 DEF HoldsItem, Holding
      <3> QED  BY <3>1, <3>2, <3>3, <3>4, ChunkMoves DEF Move, Idle, Read, Admit, PillIn, Discard
    <2>4. epoch'.backlog <= Settled' /\ Settled \in Int /\ Settled' \in Int
      BY <1>0, <1>1, <2>1, ChunkMoves DEF Fresh, Settled, Move, Idle, Read, Admit, PillIn, Discard, Fetch, Release
    <2>5. ASSUME Prompt', NEW w \in Workers, wpc'[w] = "clear" PROVE item'[w] = epoch'.trigger
      BY <1>2, <2>1, <2>3, <2>5 DEF Fresh
    <2>6. ASSUME Prompt', connected', \A w \in Workers : wpc'[w] # "clear"
          PROVE  /\ \A i \in 1 .. Len(queue') : queue'[i] # Pill => queue'[i] > epoch'.backlog
                 /\ \A w \in Workers : item'[w] # Nothing => item'[w] = epoch'.trigger \/ item'[w] > epoch'.backlog
      <3>1. /\ epoch' = epoch
            /\ \A i \in 1 .. Len(queue) : queue[i] # Pill => queue[i] > epoch.backlog
            /\ \A w \in Workers : item[w] # Nothing => item[w] = epoch.trigger \/ item[w] > epoch.backlog
        BY <1>2, <2>1, <2>6 DEF Fresh
      <3>2. \A i \in 1 .. Len(queue') : queue'[i] # Pill => queue'[i] > epoch.backlog
        <4> SUFFICES ASSUME NEW i \in 1 .. Len(queue'), queue'[i] # Pill PROVE queue'[i] > epoch.backlog
          OBVIOUS
        <4>1. CASE \E j \in 1 .. Len(queue) : queue'[i] = queue[j]
          BY <3>1, <4>1
        <4>2. CASE queue'[i] > Settled
          <5>1. epoch.backlog <= Settled /\ queue'[i] \in Int
            <6>1. QueueOK'
              BY TypeStep, TypeParts DEF TypeInv, TypeOK, QueueOK, Entry
            <6> QED  BY <6>1 DEF Fresh, QueueOK, Entry
          <5> QED  BY <1>0, <2>4, <4>2, <5>1
        <4> QED  BY <2>2, <4>1, <4>2
      <3> QED  BY <2>3, <3>1, <3>2
    <2> QED  BY <2>4, <2>5, <2>6 DEF Fresh
  <1> QED  BY <1>3, <1>4, <1>5

(* BacklogDiscarded, for every capacity, number of chunks and of starts, and    *)
(* every set of run loops: until stop() has raised or given up a join, of the     *)
(* chunks queued before a connect only the one that made the run loop connect is  *)
(* sent on the new connection, and chunks reach the peer in the order in which     *)
(* the hub read them.                                                        *)
THEOREM OnlyFreshIsSent == Spec => BacklogDiscarded
  <1>1. Spec => [](TypeInv /\ Distinct /\ Lifecycle /\ Ordered /\ Fresh)
    BY TypeInit, TypeStep, DistinctInit, DistinctStep, LifecycleInit, LifecycleStep, OrderInit, OrderStep, FreshStep,
       PTL DEF Spec
  <1>2. TypeInv /\ Lifecycle /\ Ordered /\ Fresh /\ [Next]_vars => [SendsFresh]_vars
    <2> SUFFICES ASSUME TypeInv, RestOK, LostOK, Lifecycle, Ordered, Fresh, [Next]_vars,
                        Len(sent') > Len(sent), Prompt
                 PROVE  /\ sent'[Len(sent')] > epoch.backlog \/ sent'[Len(sent')] = epoch.trigger
                        /\ \A i \in 1 .. Len(sent) : sent[i] < sent'[Len(sent')]
      BY TypeParts DEF TypeInv, SendsFresh, Prompt
    <2>1. PICK w \in Workers : SendOk(w)
      <3>1. CASE \E w \in Workers : SendOk(w)
        BY <3>1
      <3>2. CASE sent' = sent
        BY <3>2 DEF RestOK
      <3> QED
        BY <3>1, <3>2, NextIsStep
           DEF Step, Offer, Enqueue, StartDestination, Start, Spawn, StopDestination, Stop, PutPill, Evict,
               PutPillAgain, Join, Disconnect, CheckRunning, GetEmpty, GetPill, GetChunk, CheckConnected,
               ConnectOk, ConnectFail, ClearOne, ClearDone, Recheck, SendFail, PeerDisconnect, history, vars
    <2>2. sent' = Append(sent, item[w]) /\ connected /\ wpc[w] = "send" /\ item[w] # Nothing /\ item[w] \in Chunk
      BY <2>1 DEF SendOk, Goto, TypeInv, HoldsItem, Holding, RestOK
    <2>3. sent'[Len(sent')] = item[w]
      BY <2>2 DEF RestOK
    <2>4. \A v \in Workers : wpc[v] # "clear"
      BY <2>2 DEF Lifecycle, Alive
    <2> QED  BY <2>2, <2>3, <2>4 DEF Ordered, SentOlder, Fresh
  <1> QED  BY <1>1, <1>2, PTL DEF Spec, BacklogDiscarded
=============================================================================
