------------------------ MODULE FrameSubscriptionProofs ------------------------
(***************************************************************************)
(* Theorems about FrameSubscription for every capacity, every set of threads   *)
(* that close and every number of Frames.                                     *)
(***************************************************************************)
EXTENDS FrameSubscription, FiniteSetTheorems, TLAPS

TypeOK ==
  /\ queue \in Seq(Frame \cup {WakeUp}) /\ Len(queue) <= QueueSize
  /\ closed \in BOOLEAN /\ dropped \in Nat
  /\ offered \in 0 .. MaxFrames /\ hand \in {Nothing, offered}
  /\ cpc \in [Closers -> {"start", "set", "wake", "done"}]
  /\ got \in Seq(Frame)
  /\ refused \in [Reasons -> SUBSET Frame]
  /\ early \subseteq Frame

(* Where a Frame is: the places that FrameAccounted counts.                    *)
Fates == {"flight", "got"} \cup Reasons
At(n, p) == CASE p = "flight" -> Queued(n) \/ hand = n
              [] p = "got"    -> \E i \in 1 .. Len(got) : got[i] = n
              [] OTHER        -> n \in refused[p]

(* A Frame that was offered is in one place, one that was not is in none; and a   *)
(* Frame in flight is in the queue once, or in the hand of the broadcast thread.  *)
Placed == \A n \in Frame :
  \A p \in Fates : At(n, p) => n <= offered /\ \A q \in Fates : At(n, q) => p = q
Covered == \A n \in 1 .. offered : \E p \in Fates : At(n, p)
QueuedOnce ==
  /\ \A i, j \in 1 .. Len(queue) : queue[i] = queue[j] /\ queue[i] # WakeUp => i = j
  /\ hand # Nothing => ~Queued(hand)
DroppedCounted == IsFiniteSet(refused["full"]) /\ dropped = Cardinality(refused["full"])
Accounted == Placed /\ Covered /\ QueuedOnce /\ DroppedCounted

(* Why a reader that is told of the end has all the earlier Frames: the queue       *)
(* holds no wake-up before the subscription is closed, and none of the Frames from    *)
(* before comes after one.                                                     *)
EarlyFirst ==
  /\ ~closed => /\ early = {} /\ ~Queued(WakeUp)
                /\ \A c \in Closers : cpc[c] # "wake"
  /\ hand # Nothing => hand \notin early
  /\ \A n \in early : n <= offered
  /\ \A i, j \in 1 .. Len(queue) : i < j /\ queue[i] = WakeUp => queue[j] \notin early

-----------------------------------------------------------------------------
USE DEF WakeUp, Nothing, Frame

LEMMA AtDef ==
  /\ \A n : At(n, "flight") <=> Queued(n) \/ hand = n
  /\ \A n : At(n, "got") <=> \E i \in 1 .. Len(got) : got[i] = n
  /\ \A n : \A p \in Reasons : At(n, p) <=> n \in refused[p]
  BY DEF At, Reasons

LEMMA AtDefNext ==
  /\ \A n : At(n, "flight")' <=> Queued(n)' \/ hand' = n
  /\ \A n : At(n, "got")' <=> \E i \in 1 .. Len(got') : got'[i] = n
  /\ \A n : \A p \in Reasons : At(n, p)' <=> n \in refused'[p]
  BY DEF At, Reasons

(* What the actions do to the queue and to the Frames that were read.            *)
Put(x) == Len(queue) < QueueSize /\ queue' = Append(queue, x)
Take   == queue # <<>> /\ queue' = Tail(queue)

LEMMA PutQueue ==
  ASSUME TypeOK, NEW x \in Frame \cup {WakeUp}, Put(x)
  PROVE  /\ queue' \in Seq(Frame \cup {WakeUp}) /\ Len(queue') <= QueueSize
         /\ Len(queue) \in Nat /\ Len(queue') = Len(queue) + 1
         /\ \A i \in 1 .. Len(queue) : queue'[i] = queue[i]
         /\ queue'[Len(queue) + 1] = x
         /\ \A n : Queued(n)' <=> Queued(n) \/ n = x
  <1>1. /\ queue' \in Seq(Frame \cup {WakeUp}) /\ Len(queue) \in Nat /\ Len(queue') = Len(queue) + 1
        /\ \A i \in 1 .. Len(queue) : queue'[i] = queue[i]
        /\ queue'[Len(queue) + 1] = x
    BY DEF TypeOK, Put
  <1>2. \A i \in 1 .. Len(queue') : i \in 1 .. Len(queue) \/ i = Len(queue) + 1
    BY <1>1
  <1>3. \A n : Queued(n)' <=> Queued(n) \/ n = x
    BY <1>1, <1>2 DEF Queued
  <1> QED  BY <1>1, <1>3, QueueSizeAssumption DEF Put

LEMMA TakeQueue ==
  ASSUME TypeOK, QueuedOnce, Take
  PROVE  /\ queue' \in Seq(Frame \cup {WakeUp}) /\ Len(queue') <= QueueSize
         /\ Len(queue) \in Nat \ {0} /\ Len(queue') = Len(queue) - 1
         /\ \A i \in 1 .. Len(queue') : queue'[i] = queue[i + 1]
         /\ Head(queue) = queue[1] /\ Head(queue) \in Frame \cup {WakeUp} /\ Queued(Head(queue))
         /\ \A n \in Frame : Queued(n)' <=> Queued(n) /\ n # Head(queue)
         /\ Queued(WakeUp)' => Queued(WakeUp)
  <1>1. /\ queue' \in Seq(Frame \cup {WakeUp}) /\ Len(queue) \in Nat \ {0} /\ Len(queue') = Len(queue) - 1
        /\ \A i \in 1 .. Len(queue') : queue'[i] = queue[i + 1]
        /\ Head(queue) = queue[1] /\ Head(queue) \in Frame \cup {WakeUp}
    BY DEF TypeOK, Take
  <1>2. /\ \A i \in 1 .. Len(queue') : i + 1 \in 1 .. Len(queue) /\ i + 1 # 1
        /\ \A i \in 1 .. Len(queue) : i # 1 => i - 1 \in 1 .. Len(queue') /\ queue'[i - 1] = queue[i]
        /\ 1 \in 1 .. Len(queue)
    BY <1>1
  <1>3. \A n \in Frame : Queued(n)' <=> Queued(n) /\ n # Head(queue)
    <2> SUFFICES ASSUME NEW n \in Frame PROVE Queued(n)' <=> Queued(n) /\ n # queue[1]
      BY <1>1
    <2>0. n # WakeUp
      BY FramesAssumption
    <2>1. Queued(n)' => Queued(n) /\ n # queue[1]
      BY <1>1, <1>2, <2>0 DEF Queued, QueuedOnce
    <2>2. Queued(n) /\ n # queue[1] => Queued(n)'
      BY <1>2 DEF Queued
    <2> QED  BY <2>1, <2>2
  <1>4. Queued(WakeUp)' => Queued(WakeUp)
    BY <1>1, <1>2 DEF Queued
  <1> QED  BY <1>1, <1>2, <1>3, <1>4, QueueSizeAssumption DEF TypeOK, Queued

LEMMA AppendGot ==
  ASSUME got \in Seq(Frame), NEW x \in Frame, got' = Append(got, x)
  PROVE  /\ got' \in Seq(Frame) /\ got' # got
         /\ \A n : At(n, "got")' <=> At(n, "got") \/ n = x
  <1>1. /\ got' \in Seq(Frame) /\ Len(got) \in Nat /\ Len(got') = Len(got) + 1
        /\ \A i \in 1 .. Len(got) : got'[i] = got[i]
        /\ got'[Len(got) + 1] = x
    OBVIOUS
  <1>2. \A i \in 1 .. Len(got') : i \in 1 .. Len(got) \/ i = Len(got) + 1
    BY <1>1
  <1>3. \A n : At(n, "got")' <=> \E i \in 1 .. Len(got') : got'[i] = n
    BY DEF At
  <1> QED  BY <1>1, <1>2, <1>3, AtDef

(* Either the Frames stay where they are, or one goes to a place q, from another     *)
(* or, when it is new, from none.                                              *)
LEMMA FramesStay ==
  ASSUME Placed, Covered, offered \in 0 .. MaxFrames, offered' = offered,
         \A n \in Frame : \A p \in Fates : At(n, p)' <=> At(n, p)
  PROVE  Placed' /\ Covered'
  <1>1. ASSUME NEW n \in Frame, NEW p \in Fates, NEW q \in Fates, At(n, p)', At(n, q)'
        PROVE  n <= offered' /\ p = q
    <2>1. At(n, p) /\ At(n, q)
      BY <1>1
    <2> QED  BY <2>1 DEF Placed
  <1>2. Placed'
    BY <1>1 DEF Placed
  <1>3. ASSUME NEW n \in 1 .. offered
        PROVE  \E p \in Fates : At(n, p)'
    <2>1. n \in Frame
      BY FramesAssumption
    <2> QED  BY <2>1 DEF Covered
  <1> QED  BY <1>2, <1>3 DEF Covered

LEMMA FrameGoes ==
  ASSUME Placed, Covered, offered \in 0 .. MaxFrames, offered' \in 0 .. MaxFrames,
         NEW h \in Frame, NEW q \in Fates,
         h <= offered', \A n \in 1 .. offered' : n \in 1 .. offered \/ n = h, offered <= offered',
         \A p \in Fates : At(h, p)' <=> p = q,
         \A n \in Frame : \A p \in Fates : n # h => (At(n, p)' <=> At(n, p))
  PROVE  Placed' /\ Covered'
  <1>1. ASSUME NEW n \in Frame, NEW p \in Fates, NEW r \in Fates, At(n, p)', At(n, r)'
        PROVE  n <= offered' /\ p = r
    <2>1. CASE n = h
      BY <1>1, <2>1
    <2>2. CASE n # h
      <3>1. At(n, p) /\ At(n, r)
        BY <1>1, <2>2
      <3>2. n <= offered /\ p = r
        BY <3>1 DEF Placed
      <3> QED  BY <3>2
    <2> QED  BY <2>1, <2>2
  <1>2. Placed'
    BY <1>1 DEF Placed
  <1>3. ASSUME NEW n \in 1 .. offered'
        PROVE  \E p \in Fates : At(n, p)'
    <2>1. CASE n = h
      BY <2>1
    <2>2. CASE n # h
      <3>1. n \in 1 .. offered /\ n \in Frame
        BY <2>2, FramesAssumption
      <3> QED  BY <3>1, <2>2 DEF Covered
    <2> QED  BY <2>1, <2>2
  <1> QED  BY <1>2, <1>3 DEF Covered

-----------------------------------------------------------------------------
LEMMA TypeInit == Init => TypeOK
  <1> SUFFICES ASSUME Init PROVE TypeOK
    OBVIOUS
  <1>1. queue \in Seq(Frame \cup {WakeUp}) /\ got \in Seq(Frame) /\ Len(queue) = 0
    BY DEF Init
  <1>2. refused \in [Reasons -> SUBSET Frame] /\ cpc \in [Closers -> {"start", "set", "wake", "done"}]
    BY DEF Init
  <1>3. Len(queue) <= QueueSize
    BY <1>1, QueueSizeAssumption
  <1>4. dropped \in Nat /\ offered \in 0 .. MaxFrames /\ hand \in {Nothing, offered}
    BY FramesAssumption DEF Init
  <1>5. early \subseteq Frame /\ closed \in BOOLEAN
    BY DEF Init
  <1> QED  BY <1>1, <1>2, <1>3, <1>4, <1>5 DEF TypeOK

(* What a step does to the places of the Frames.  Every other action of Next leaves *)
(* them alone.                                                                *)
Still == UNCHANGED <<queue, got, hand, offered, refused, dropped>>

LEMMA StepKinds ==
  ASSUME [Next]_vars
  PROVE  \/ Offer \/ PutFrame \/ TakeFrame \/ TakeWakeUp \/ DrainOne
         \/ \E c \in Closers : Wake(c)
         \/ Still
  BY DEF Next, ReaderSteps, vars, hubVars, readerVars, Still, CallGetFrame, Iterate, TimeOut,
         PollEmpty, TestClosed, Drain, DrainDone, Close, SetClosed

LEMMA TypeStep == TypeOK /\ [Next]_vars => TypeOK'
  <1> SUFFICES ASSUME TypeOK, [Next]_vars PROVE TypeOK'
    OBVIOUS
  <1>1. closed' \in BOOLEAN /\ cpc' \in [Closers -> {"start", "set", "wake", "done"}]
    BY DEF TypeOK, Next, ReaderSteps, vars, hubVars, readerVars, Offer, PutFrame, TakeFrame, TakeWakeUp,
           DrainOne, Wake, CallGetFrame, Iterate, TimeOut, PollEmpty, TestClosed, Drain, DrainDone,
           Close, SetClosed
  <1>2. early' \subseteq Frame
    <2>1. early' = early \/ early' = {queue[i] : i \in 1 .. Len(queue)} \ {WakeUp}
      BY DEF Next, ReaderSteps, vars, hubVars, readerVars, Offer, PutFrame, TakeFrame, TakeWakeUp,
             DrainOne, Wake, CallGetFrame, Iterate, TimeOut, PollEmpty, TestClosed, Drain, DrainDone,
             Close, SetClosed
    <2>2. \A i \in 1 .. Len(queue) : queue[i] \in Frame \cup {WakeUp}
      BY DEF TypeOK
    <2> QED  BY <2>1, <2>2 DEF TypeOK
  <1>3. CASE Offer
    <2>1. offered' = offered + 1 /\ offered' \in Frame
      BY <1>3, FramesAssumption DEF Offer, TypeOK
    <2>2. refused' \in [Reasons -> SUBSET Frame]
      BY <1>3, <2>1 DEF Offer, Refuse, TypeOK
    <2>3. /\ queue' \in Seq(Frame \cup {WakeUp}) /\ Len(queue') <= QueueSize /\ dropped' \in Nat
          /\ hand' \in {Nothing, offered'} /\ got' \in Seq(Frame)
      BY <1>3, <2>1 DEF Offer, readerVars, TypeOK
    <2> QED  BY <2>1, <2>2, <2>3, <1>1, <1>2, FramesAssumption DEF TypeOK
  <1>4. CASE PutFrame
    <2>1. hand \in Frame
      BY <1>4, FramesAssumption DEF PutFrame, TypeOK
    <2>2. refused' \in [Reasons -> SUBSET Frame] /\ dropped' \in Nat
      BY <1>4, <2>1 DEF PutFrame, Refuse, TypeOK
    <2>3. queue' \in Seq(Frame \cup {WakeUp}) /\ Len(queue') <= QueueSize
      <3>1. CASE Put(hand)
        BY <2>1, <3>1, PutQueue
      <3>2. CASE queue' = queue
        BY <3>2 DEF TypeOK
      <3> QED  BY <1>4, <3>1, <3>2 DEF PutFrame, Put
    <2>4. hand' \in {Nothing, offered'} /\ got' \in Seq(Frame) /\ offered' \in 0 .. MaxFrames
      BY <1>4 DEF PutFrame, readerVars, TypeOK
    <2> QED  BY <2>2, <2>3, <2>4, <1>1, <1>2 DEF TypeOK
  <1>5. CASE TakeFrame \/ TakeWakeUp \/ DrainOne
    <2>1. /\ queue' = Tail(queue) /\ queue # <<>>
          /\ got' = got \/ (Head(queue) # WakeUp /\ got' = Append(got, Head(queue)))
      BY <1>5 DEF TakeFrame, TakeWakeUp, DrainOne
    <2>2. /\ queue' \in Seq(Frame \cup {WakeUp}) /\ Len(queue') <= QueueSize
          /\ Head(queue) \in Frame \cup {WakeUp}
      BY <2>1, QueueSizeAssumption DEF TypeOK
    <2>3. got' \in Seq(Frame)
      <3>1. CASE got' = got
        BY <3>1 DEF TypeOK
      <3>2. CASE Head(queue) # WakeUp /\ got' = Append(got, Head(queue))
        BY <3>2, <2>2, AppendGot DEF TypeOK
      <3> QED  BY <2>1, <3>1, <3>2
    <2> QED  BY <1>5, <2>2, <2>3, <1>1, <1>2 DEF TypeOK, TakeFrame, TakeWakeUp, DrainOne, hubVars
  <1>6. ASSUME NEW c \in Closers, Wake(c)
        PROVE  TypeOK'
    <2>1. CASE Put(WakeUp)
      BY <1>6, <2>1, <1>1, <1>2, PutQueue DEF TypeOK, Wake, hubVars, readerVars
    <2>2. CASE queue' = queue
      BY <1>6, <2>2, <1>1, <1>2 DEF TypeOK, Wake, hubVars, readerVars
    <2> QED  BY <1>6, <2>1, <2>2 DEF Wake, Put
  <1>7. CASE Still
    BY <1>7, <1>1, <1>2 DEF TypeOK, Still
  <1> QED  BY <1>3, <1>4, <1>5, <1>6, <1>7, StepKinds
-----------------------------------------------------------------------------
LEMMA AccountedInit == Init => Accounted
  <1> SUFFICES ASSUME Init PROVE Accounted
    OBVIOUS
  <1>1. Len(queue) = 0 /\ Len(got) = 0 /\ offered = 0 /\ hand = Nothing /\ dropped = 0
    BY DEF Init
  <1>2. \A p \in Reasons : refused[p] = {}
    BY DEF Init
  <1>3. \A n \in Frame : \A p \in Fates : ~At(n, p)
    BY <1>1, <1>2, AtDef, FramesAssumption DEF Fates, Queued
  <1>4. Placed
    BY <1>3 DEF Placed
  <1>5. Covered
    BY <1>1 DEF Covered
  <1>6. QueuedOnce
    BY <1>1 DEF QueuedOnce
  <1>7. DroppedCounted
    BY <1>1, <1>2, FS_EmptySet DEF DroppedCounted, Reasons
  <1> QED  BY <1>4, <1>5, <1>6, <1>7 DEF Accounted

LEMMA AccountedStep == TypeOK /\ Accounted /\ [Next]_vars => Accounted'
  <1> SUFFICES ASSUME TypeOK, Accounted, [Next]_vars PROVE Accounted'
    OBVIOUS
  <1>t. Placed /\ Covered /\ QueuedOnce /\ DroppedCounted /\ TypeOK' /\ offered \in 0 .. MaxFrames
    BY TypeStep DEF Accounted, TypeOK
  (* offer() refuses the new Frame, or takes it in hand                          *)
  <1>1. CASE Offer
    <2> DEFINE h == offered + 1
    <2>1. /\ h \in Frame /\ offered' = h /\ hand = Nothing /\ UNCHANGED <<queue, got, dropped>>
          /\ offered' \in 0 .. MaxFrames /\ h <= offered' /\ offered <= offered'
          /\ \A n \in 1 .. offered' : n \in 1 .. offered \/ n = h
          /\ \A n \in Frame : n # 0
      BY <1>1, FramesAssumption DEF Offer, readerVars, TypeOK
    <2>2. \A p \in Fates : ~At(h, p)
      BY <1>t, <2>1 DEF Placed
    <2>3. QueuedOnce'
      <3>1. \A n \in Frame : Queued(n)' <=> Queued(n)
        BY <2>1 DEF Queued
      <3>2. hand' # Nothing => hand' = h /\ ~Queued(h)
        BY <1>1, <2>1, <2>2, AtDef DEF Offer, Fates
      <3> QED  BY <1>t, <2>1, <3>1, <3>2 DEF QueuedOnce
    <2>4. CASE \E q \in {"closed", "unwanted"} : Refuse(q, h) /\ hand' = hand
      <3>1. PICK q \in {"closed", "unwanted"} : Refuse(q, h) /\ hand' = hand
        BY <2>4
      <3>2. \A n \in Frame : \A p \in Reasons : n \in refused'[p] <=> n \in refused[p] \/ (n = h /\ p = q)
        BY <3>1 DEF Refuse, TypeOK, Reasons
      <3>3. refused'["full"] = refused["full"]
        BY <3>1 DEF Refuse, TypeOK, Reasons
      <3>4. \A n \in Frame : \A p \in Fates : At(n, p)' <=> At(n, p) \/ (n = h /\ p = q)
        BY <2>1, <3>1, <3>2, AtDef, AtDefNext DEF Fates, Reasons, Queued
      <3>5. Placed' /\ Covered'
        BY <1>t, <2>1, <2>2, <3>4, FrameGoes DEF Fates, Reasons
      <3> QED  BY <1>t, <2>1, <2>3, <3>3, <3>5 DEF Accounted, DroppedCounted
    <2>5. CASE hand' = h /\ refused' = refused
      <3>1. \A n \in Frame : \A p \in Fates : At(n, p)' <=> At(n, p) \/ (n = h /\ p = "flight")
        BY <2>1, <2>5, AtDef, AtDefNext DEF Fates, Reasons, Queued
      <3>2. Placed' /\ Covered'
        BY <1>t, <2>1, <2>2, <3>1, FrameGoes DEF Fates
      <3> QED  BY <1>t, <2>1, <2>3, <2>5, <3>2 DEF Accounted, DroppedCounted
    <2> QED  BY <1>1, <2>4, <2>5 DEF Offer
  (* put_nowait() takes it from the hand to the queue, or drops it               *)
  <1>2. CASE PutFrame
    <2>1. /\ hand \in Frame /\ hand' = Nothing /\ UNCHANGED <<got, offered>>
          /\ \A n \in Frame : n # 0
      BY <1>2, FramesAssumption DEF PutFrame, readerVars, TypeOK
    <2>0. hand <= offered /\ \A p \in Fates : At(hand, p) <=> p = "flight"
      BY <1>t, <2>1, AtDef DEF Placed, Fates
    <2>2. CASE Put(hand) /\ UNCHANGED <<dropped, refused>>
      <3>1. /\ Len(queue) \in Nat /\ Len(queue') = Len(queue) + 1
            /\ \A i \in 1 .. Len(queue) : queue'[i] = queue[i]
            /\ queue'[Len(queue) + 1] = hand
            /\ \A n : Queued(n)' <=> Queued(n) \/ n = hand
        BY <2>1, <2>2, PutQueue
      <3>2. \A n \in Frame : \A p \in Fates : At(n, p)' <=> At(n, p)
        BY <2>1, <2>2, <3>1, AtDef, AtDefNext DEF Fates, Reasons
      <3>3. QueuedOnce'
        <4>1. ~Queued(hand)
          BY <1>t, <2>1 DEF QueuedOnce
        <4>2. \A i \in 1 .. Len(queue') : i \in 1 .. Len(queue) \/ i = Len(queue) + 1
          BY <3>1
        <4>3. \A i \in 1 .. Len(queue) : queue[i] # hand
          BY <4>1 DEF Queued
        <4> QED  BY <1>t, <2>1, <3>1, <4>2, <4>3 DEF QueuedOnce
      <3> QED  BY <1>t, <2>1, <2>2, <3>2, <3>3, FramesStay DEF Accounted, DroppedCounted
    <2>3. CASE queue' = queue /\ dropped' = dropped + 1 /\ Refuse("full", hand)
      <3> PICK h \in Frame : h = hand
        BY <2>1
      <3>1. /\ \A n \in Frame : \A p \in Reasons : n \in refused'[p] <=> n \in refused[p] \/ (n = h /\ p = "full")
            /\ refused'["full"] = refused["full"] \cup {h}
        BY <2>3 DEF Refuse, TypeOK, Reasons
      <3>2. ~Queued(hand) /\ hand \notin refused["full"]
        BY <1>t, <2>0, <2>1, AtDef DEF QueuedOnce, Fates, Reasons
      <3>3. \A p \in Fates : At(h, p)' <=> p = "full"
        BY <2>0, <2>1, <2>3, <3>1, <3>2, AtDef, AtDefNext DEF Fates, Reasons, Queued
      <3>4. \A n \in Frame : \A p \in Fates : n # h => (At(n, p)' <=> At(n, p))
        BY <2>1, <2>3, <3>1, AtDef, AtDefNext DEF Fates, Reasons, Queued
      <3>5. Placed' /\ Covered'
        <4>1. /\ offered' \in 0 .. MaxFrames /\ h <= offered' /\ offered <= offered'
              /\ \A n \in 1 .. offered' : n \in 1 .. offered \/ n = h
              /\ "full" \in Fates
          BY <1>t, <2>0, <2>1 DEF Fates, Reasons
        <4> QED  BY <1>t, <2>1, <3>3, <3>4, <4>1, FrameGoes
      <3>6. DroppedCounted'
        BY <1>t, <2>3, <3>1, <3>2, FS_AddElement DEF DroppedCounted
      <3>7. QueuedOnce'
        BY <1>t, <2>1, <2>3 DEF QueuedOnce
      <3> QED  BY <3>5, <3>6, <3>7 DEF Accounted
    <2> QED  BY <1>2, <2>2, <2>3 DEF PutFrame, Put
  (* a reader takes a Frame or a wake-up                                         *)
  <1>3. CASE TakeFrame \/ TakeWakeUp \/ DrainOne
    <2>1. /\ Take /\ UNCHANGED <<offered, hand, refused, dropped>>
          /\ got' = IF Head(queue) = WakeUp THEN got ELSE Append(got, Head(queue))
      BY <1>3 DEF TakeFrame, TakeWakeUp, DrainOne, Take, hubVars
    <2>2. /\ Len(queue) \in Nat \ {0} /\ Len(queue') = Len(queue) - 1
          /\ \A i \in 1 .. Len(queue') : queue'[i] = queue[i + 1]
          /\ Head(queue) \in Frame \cup {WakeUp} /\ Queued(Head(queue))
          /\ \A n \in Frame : Queued(n)' <=> Queued(n) /\ n # Head(queue)
      BY <1>t, <2>1, TakeQueue
    <2>3. QueuedOnce'
      <3>1. \A i \in 1 .. Len(queue') : i + 1 \in 1 .. Len(queue)
        BY <2>2
      <3>2. \A i, j \in 1 .. Len(queue') : queue'[i] = queue'[j] /\ queue'[i] # WakeUp => i = j
        <4> SUFFICES ASSUME NEW i \in 1 .. Len(queue'), NEW j \in 1 .. Len(queue'),
                            queue'[i] = queue'[j], queue'[i] # WakeUp
                     PROVE  i = j
          OBVIOUS
        <4>1. i + 1 = j + 1
          BY <1>t, <2>2, <3>1 DEF QueuedOnce
        <4> QED  BY <4>1
      <3>3. hand' # Nothing => hand \in Frame
        BY <2>1, FramesAssumption DEF TypeOK
      <3> QED  BY <1>t, <2>1, <2>2, <3>2, <3>3 DEF QueuedOnce
    <2>4. DroppedCounted'
      BY <1>t, <2>1 DEF DroppedCounted
    <2>5. CASE Head(queue) = WakeUp
      <3>1. \A n \in Frame : \A p \in Fates : At(n, p)' <=> At(n, p)
        BY <2>1, <2>2, <2>5, AtDef, AtDefNext, FramesAssumption DEF Fates, Reasons
      <3> QED  BY <1>t, <2>1, <2>3, <2>4, <3>1, FramesStay DEF Accounted
    <2>6. CASE Head(queue) # WakeUp
      <3> PICK h \in Frame : h = Head(queue)
        BY <2>2, <2>6
      <3>1. h \in Frame /\ got \in Seq(Frame) /\ got' = Append(got, h)
        BY <2>1, <2>2, <2>6 DEF TypeOK
      <3>2. \A n : At(n, "got")' <=> At(n, "got") \/ n = h
        BY <3>1, AppendGot
      <3>3. h <= offered /\ \A p \in Fates : At(h, p) <=> p = "flight"
        BY <1>t, <2>2, <3>1, AtDef DEF Placed, Fates
      <3>4. hand' # h
        BY <1>t, <2>1, <2>2, <2>6 DEF QueuedOnce
      <3>5. \A n \in Frame : Queued(n)' <=> Queued(n) /\ n # h
        BY <2>2
      <3>6. \A p \in Fates : At(h, p)' <=> p = "got"
        BY <2>1, <3>1, <3>2, <3>3, <3>4, <3>5, AtDef, AtDefNext DEF Fates, Reasons
      <3>7. \A n \in Frame : \A p \in Fates : n # h => (At(n, p)' <=> At(n, p))
        BY <2>1, <3>2, <3>5, AtDef, AtDefNext DEF Fates, Reasons
      <3>8. Placed' /\ Covered'
        <4>1. /\ offered' \in 0 .. MaxFrames /\ h <= offered' /\ offered <= offered'
              /\ \A n \in 1 .. offered' : n \in 1 .. offered \/ n = h
              /\ "got" \in Fates
          BY <1>t, <2>1, <3>3 DEF Fates
        <4> QED  BY <1>t, <3>1, <3>6, <3>7, <4>1, FrameGoes
      <3> QED  BY <2>3, <2>4, <3>8 DEF Accounted
    <2> QED  BY <2>5, <2>6
  (* close() adds a wake-up, which is no Frame                                   *)
  <1>4. ASSUME NEW c \in Closers, Wake(c)
        PROVE  Accounted'
    <2>1. UNCHANGED <<offered, hand, refused, dropped, got>>
      BY <1>4 DEF Wake, hubVars, readerVars
    <2>2. CASE Put(WakeUp)
      <3>1. /\ Len(queue) \in Nat /\ Len(queue') = Len(queue) + 1
            /\ \A i \in 1 .. Len(queue) : queue'[i] = queue[i]
            /\ queue'[Len(queue) + 1] = WakeUp
            /\ \A n : Queued(n)' <=> Queued(n) \/ n = WakeUp
        BY <2>2, PutQueue
      <3>2. \A i \in 1 .. Len(queue') : i \in 1 .. Len(queue) \/ i = Len(queue) + 1
        BY <3>1
      <3>3. QueuedOnce'
        BY <1>t, <2>1, <3>1, <3>2 DEF QueuedOnce
      <3>4. \A n \in Frame : \A p \in Fates : At(n, p)' <=> At(n, p)
        BY <2>1, <3>1, AtDef, AtDefNext, FramesAssumption DEF Fates, Reasons
      <3> QED  BY <1>t, <2>1, <3>3, <3>4, FramesStay DEF Accounted, DroppedCounted
    <2>3. CASE queue' = queue
      <3>1. \A n \in Frame : \A p \in Fates : At(n, p)' <=> At(n, p)
        BY <2>1, <2>3 DEF At, Queued
      <3> QED  BY <1>t, <2>1, <2>3, <3>1, FramesStay DEF Accounted, QueuedOnce, DroppedCounted, Queued
    <2> QED  BY <1>4, <2>2, <2>3 DEF Wake, Put
  <1>5. CASE Still
    <2>1. \A n \in Frame : \A p \in Fates : At(n, p)' <=> At(n, p)
      BY <1>5 DEF At, Queued, Still
    <2> QED  BY <1>t, <1>5, <2>1, FramesStay DEF Accounted, QueuedOnce, DroppedCounted, Queued, Still
  <1> QED  BY <1>1, <1>2, <1>3, <1>4, <1>5, StepKinds
-----------------------------------------------------------------------------
(* FrameAccounted, for every capacity, number of Frames and set of closers: every    *)
(* Frame that offer() counted is on its way, read, or refused for one reason, and     *)
(* dropped counts those that a full queue refused, however the reader's calls, the    *)
(* broadcast thread and the close() calls interleave.                             *)
THEOREM EveryFrameAccounted == Spec => []FrameAccounted
  <1>1. Init => TypeOK /\ Accounted
    BY TypeInit, AccountedInit
  <1>2. TypeOK /\ Accounted /\ [Next]_vars => TypeOK' /\ Accounted'
    BY TypeStep, AccountedStep
  <1>3. TypeOK /\ Accounted => FrameAccounted
    <2> SUFFICES ASSUME TypeOK, Accounted PROVE FrameAccounted
      OBVIOUS
    <2> DEFINE Places(n) == {p \in {"flight", "got"} \cup Reasons :
                      CASE p = "flight" -> Queued(n) \/ hand = n
                        [] p = "got"    -> \E i \in 1 .. Len(got) : got[i] = n
                        [] OTHER        -> n \in refused[p]}
    <2>1. ASSUME NEW n \in 1 .. offered
          PROVE  Cardinality(Places(n)) = 1
      <3>1. Places(n) = {p \in Fates : At(n, p)}
        BY DEF Fates, At
      <3>2. n \in Frame
        BY FramesAssumption DEF TypeOK
      <3>3. PICK p \in Fates : At(n, p)
        BY DEF Accounted, Covered
      <3>4. \A q \in Fates : At(n, q) => q = p
        BY <3>2, <3>3 DEF Accounted, Placed
      <3>5. {q \in Fates : At(n, q)} = {p}
        BY <3>3, <3>4
      <3> QED  BY <3>1, <3>5, FS_Singleton
    <2> QED  BY <2>1 DEF FrameAccounted, TypeOK, Accounted, DroppedCounted
  <1> QED  BY <1>1, <1>2, <1>3, PTL DEF Spec

-----------------------------------------------------------------------------
LEMMA EarlyFirstInit == Init => EarlyFirst
  <1> SUFFICES ASSUME Init PROVE EarlyFirst
    OBVIOUS
  <1>1. Len(queue) = 0 /\ hand = Nothing /\ early = {} /\ \A c \in Closers : cpc[c] # "wake"
    BY DEF Init
  <1> QED  BY <1>1 DEF EarlyFirst, Queued

LEMMA EarlyFirstStep ==
  TypeOK /\ Accounted /\ EarlyFirst /\ [Next]_vars => EarlyFirst'
  <1> SUFFICES ASSUME TypeOK, Accounted, EarlyFirst, [Next]_vars PROVE EarlyFirst'
    OBVIOUS
  <1>t. QueuedOnce /\ Placed /\ Covered /\ TypeOK'
    BY TypeStep DEF Accounted
  <1>1. CASE Offer \/ PutFrame
    <2>1. UNCHANGED <<closed, early, cpc>>
      BY <1>1 DEF Offer, PutFrame
    <2>2. \A n \in early : n # 0 /\ n <= offered /\ n \in Frame
      BY FramesAssumption DEF EarlyFirst, TypeOK
    <2>3. CASE queue' = queue
      <3>1. hand' # Nothing => hand' = offered + 1
        BY <1>1 DEF Offer, PutFrame
      <3>2. hand' \notin early /\ \A n \in early : n <= offered'
        BY <1>1, <2>2, <3>1 DEF Offer, PutFrame, TypeOK
      <3> QED  BY <2>1, <2>3, <3>2 DEF EarlyFirst, Queued
    <2>4. CASE queue' # queue
      <3>1. /\ PutFrame /\ Put(hand) /\ hand' = Nothing /\ offered' = offered /\ hand \in Frame
        BY <1>1, <2>4, FramesAssumption DEF Offer, PutFrame, Put, TypeOK
      <3>2. /\ Len(queue) \in Nat /\ Len(queue') = Len(queue) + 1
            /\ \A i \in 1 .. Len(queue) : queue'[i] = queue[i]
            /\ queue'[Len(queue) + 1] = hand
            /\ \A n : Queued(n)' <=> Queued(n) \/ n = hand
        BY <3>1, PutQueue
      <3>3. hand # 0 /\ hand \notin early
        BY <3>1, FramesAssumption DEF EarlyFirst
      <3>4. ~closed' => early' = {} /\ ~Queued(WakeUp)' /\ \A c \in Closers : cpc'[c] # "wake"
        BY <2>1, <3>2, <3>3 DEF EarlyFirst
      <3>5. \A i, j \in 1 .. Len(queue') : i < j /\ queue'[i] = WakeUp => queue'[j] \notin early
        <4> SUFFICES ASSUME NEW i \in 1 .. Len(queue'), NEW j \in 1 .. Len(queue'), i < j, queue'[i] = WakeUp
                     PROVE  queue'[j] \notin early
          OBVIOUS
        <4>1. i \in 1 .. Len(queue) /\ (j \in 1 .. Len(queue) \/ j = Len(queue) + 1)
          BY <3>2
        <4> QED  BY <3>2, <3>3, <4>1 DEF EarlyFirst
      <3> QED  BY <2>1, <2>2, <3>1, <3>4, <3>5 DEF EarlyFirst
    <2> QED  BY <2>3, <2>4
  <1>2. CASE TakeFrame \/ TakeWakeUp \/ DrainOne
    <2>1. Take /\ UNCHANGED <<closed, early, cpc, hand, offered>>
      BY <1>2 DEF TakeFrame, TakeWakeUp, DrainOne, Take, hubVars
    <2>2. /\ Len(queue) \in Nat \ {0} /\ Len(queue') = Len(queue) - 1
          /\ \A i \in 1 .. Len(queue') : queue'[i] = queue[i + 1]
          /\ Queued(WakeUp)' => Queued(WakeUp)
      BY <1>t, <2>1, TakeQueue
    <2>3. \A i, j \in 1 .. Len(queue') : i < j /\ queue'[i] = WakeUp => queue'[j] \notin early
      <3> SUFFICES ASSUME NEW i \in 1 .. Len(queue'), NEW j \in 1 .. Len(queue'), i < j, queue'[i] = WakeUp
                   PROVE  queue'[j] \notin early
        OBVIOUS
      <3>1. i + 1 \in 1 .. Len(queue) /\ j + 1 \in 1 .. Len(queue) /\ i + 1 < j + 1
        BY <2>2
      <3> QED  BY <2>2, <3>1 DEF EarlyFirst
    <2> QED  BY <2>1, <2>2, <2>3 DEF EarlyFirst
  <1>3. ASSUME NEW c \in Closers, SetClosed(c)
        PROVE  EarlyFirst'
    <2>1. /\ closed' /\ UNCHANGED <<queue, hand, offered>>
      BY <1>3 DEF SetClosed, hubVars
    <2>2. CASE closed
      BY <1>3, <2>1, <2>2 DEF EarlyFirst, SetClosed
    <2>3. CASE ~closed
      <3>1. \A n : n \in early' <=> Queued(n) /\ n # WakeUp
        BY <1>3, <2>3 DEF SetClosed, Queued
      <3>2. hand # Nothing => hand \notin early'
        BY <1>t, <3>1 DEF QueuedOnce
      <3>3. \A n \in early' : n <= offered
        <4> SUFFICES ASSUME NEW n \in early' PROVE n <= offered
          OBVIOUS
        <4>1. n \in Frame /\ At(n, "flight") /\ "flight" \in Fates
          BY <1>t, <3>1, AtDef DEF TypeOK, Fates
        <4> QED  BY <1>t, <4>1 DEF Placed
      <3>4. \A i \in 1 .. Len(queue) : queue[i] # WakeUp
        BY <2>3 DEF EarlyFirst, Queued
      <3> QED  BY <2>1, <3>2, <3>3, <3>4 DEF EarlyFirst
    <2> QED  BY <2>2, <2>3
  <1>4. ASSUME NEW c \in Closers, Wake(c)
        PROVE  EarlyFirst'
    <2>1. UNCHANGED <<closed, early, hand, offered>> /\ closed
      BY <1>4 DEF Wake, EarlyFirst, hubVars
    <2>2. CASE Put(WakeUp)
      <3>1. /\ Len(queue) \in Nat /\ Len(queue') = Len(queue) + 1
            /\ \A i \in 1 .. Len(queue) : queue'[i] = queue[i]
            /\ queue'[Len(queue) + 1] = WakeUp
        BY <2>2, PutQueue
      <3>2. WakeUp \notin early
        BY FramesAssumption DEF TypeOK
      <3>3. \A i, j \in 1 .. Len(queue') : i < j /\ queue'[i] = WakeUp => queue'[j] \notin early
        <4> SUFFICES ASSUME NEW i \in 1 .. Len(queue'), NEW j \in 1 .. Len(queue'), i < j, queue'[i] = WakeUp
                     PROVE  queue'[j] \notin early
          OBVIOUS
        <4>1. i \in 1 .. Len(queue) /\ (j \in 1 .. Len(queue) \/ j = Len(queue) + 1)
          BY <3>1
        <4> QED  BY <3>1, <3>2, <4>1 DEF EarlyFirst
      <3> QED  BY <2>1, <3>3 DEF EarlyFirst
    <2>3. CASE queue' = queue
      BY <2>1, <2>3 DEF EarlyFirst
    <2> QED  BY <1>4, <2>2, <2>3 DEF Wake, Put
  <1>5. CASE UNCHANGED <<queue, closed, early, hand, offered, cpc>>
    BY <1>5 DEF EarlyFirst, Queued
  <1>6. ASSUME NEW c \in Closers, Close(c)
        PROVE  EarlyFirst'
    <2>1. UNCHANGED <<queue, closed, early, hand, offered>> /\ \A d \in Closers : cpc'[d] = "wake" => cpc[d] = "wake"
      BY <1>6 DEF Close, hubVars, TypeOK
    <2> QED  BY <2>1 DEF EarlyFirst, Queued
  <1> QED  BY <1>1, <1>2, <1>3, <1>4, <1>5, <1>6
           DEF Next, ReaderSteps, vars, hubVars, readerVars, CallGetFrame, Iterate, TimeOut,
               PollEmpty, TestClosed, Drain, DrainDone

(* ClosedMeansEmpty: when get_frame() reports the end (it polled an empty queue or     *)
(* took a wake-up), no Frame queued before the close is left, for every number of       *)
(* threads that close and wherever their wake-ups land in the queue.                   *)
THEOREM EndAfterEarlyFrames == Spec => ClosedMeansEmpty
  <1> DEFINE Step == got' = got /\ rpc' # rpc /\ rpc \in {"poll", "wait"} => ~EarlyLeft'
             IInv == TypeOK /\ Accounted /\ EarlyFirst
  <1>1. Init => IInv
    BY TypeInit, AccountedInit, EarlyFirstInit
  <1>2. IInv /\ [Next]_vars => IInv'
    BY TypeStep, AccountedStep, EarlyFirstStep
  <1>3. IInv /\ [Next]_vars => [Step]_vars
    <2> SUFFICES ASSUME IInv, [Next]_vars, got' = got, rpc' # rpc, rpc \in {"poll", "wait"}
                 PROVE  ~EarlyLeft'
      OBVIOUS
    <2>1. TakeFrame => FALSE
      BY AppendGot DEF TakeFrame, TypeOK, Getting
    <2>2. TakeWakeUp \/ PollEmpty
      BY <2>1 DEF Next, ReaderSteps, vars, hubVars, readerVars, CallGetFrame, Iterate, TimeOut, Offer, PutFrame,
               TestClosed, Drain, DrainDone, DrainOne, Close, SetClosed, Wake, Goes
    <2>3. CASE PollEmpty
      <3>1. Len(queue') = 0
        BY <2>3 DEF PollEmpty
      <3> QED  BY <3>1 DEF EarlyLeft, Queued
    <2>4. CASE TakeWakeUp
      <3>1. /\ Take /\ early' = early /\ Head(queue) = WakeUp /\ QueuedOnce
        BY <2>4 DEF TakeWakeUp, Take, Accounted
      <3>2. /\ Len(queue) \in Nat \ {0} /\ Len(queue') = Len(queue) - 1
            /\ \A i \in 1 .. Len(queue') : queue'[i] = queue[i + 1]
            /\ queue[1] = WakeUp
        BY <3>1, TakeQueue
      <3>3. \A i \in 1 .. Len(queue') : i + 1 \in 1 .. Len(queue) /\ 1 \in 1 .. Len(queue) /\ 1 < i + 1
        BY <3>2
      <3>4. \A i \in 1 .. Len(queue') : queue'[i] \notin early'
        BY <3>1, <3>2, <3>3 DEF EarlyFirst
      <3> QED  BY <3>4 DEF EarlyLeft, Queued
    <2> QED  BY <2>2, <2>3, <2>4
  <1> QED  BY <1>1, <1>2, <1>3, PTL DEF Spec, ClosedMeansEmpty

-----------------------------------------------------------------------------
(* The subscription as a LossyRelay: a Frame is pending while it is in the hand of   *)
(* the broadcast thread or in the queue, and delivered when the reader got it.       *)
Relay == INSTANCE LossyRelay WITH
  accepted  <- offered,
  pending   <- {n \in 1 .. offered : Queued(n) \/ hand = n},
  delivered <- got

Pending == {n \in 1 .. offered : Queued(n) \/ hand = n}
Settled(n) == (\E i \in 1 .. Len(got) : got[i] = n) \/ \E k \in Reasons : n \in refused[k]

(* A Frame that was offered is pending until it is settled.                         *)
LEMMA PendingTillSettled ==
  TypeOK /\ Accounted => /\ \A n \in 1 .. offered : Queued(n) \/ hand = n <=> ~Settled(n)
                         /\ \A n \in Frame : Queued(n) \/ hand = n \/ Settled(n) => n <= offered
  <1> SUFFICES ASSUME TypeOK, Accounted, NEW n \in Frame
               PROVE  /\ n <= offered => (Queued(n) \/ hand = n <=> ~Settled(n))
                      /\ Queued(n) \/ hand = n \/ Settled(n) => n <= offered
    BY FramesAssumption DEF TypeOK
  <1>1. Queued(n) \/ hand = n <=> At(n, "flight")
    BY AtDef
  <1>2. Settled(n) <=> \E p \in {"got"} \cup Reasons : At(n, p)
    BY AtDef DEF Settled
  <1>3. \A p \in Fates : At(n, p) => n <= offered /\ \A q \in Fates : At(n, q) => p = q
    BY DEF Accounted, Placed
  <1>4. n <= offered => \E p \in Fates : At(n, p)
    <2>1. n <= offered => n \in 1 .. offered
      BY FramesAssumption DEF TypeOK
    <2> QED  BY <2>1 DEF Accounted, Covered
  <1> QED  BY <1>1, <1>2, <1>3, <1>4 DEF Fates, Reasons

(* Every step refuses a new Frame, takes one in hand, settles one that was pending, or  *)
(* does nothing to a Frame.                                                    *)
LEMMA SubscriptionRefines ==
  ASSUME TypeOK, Accounted, [Next]_vars
  PROVE  \/ offered' = offered + 1 /\ Pending' \in {Pending, Pending \cup {offered + 1}} /\ got' = got
         \/ offered' = offered /\ \E n \in Pending : Pending' = Pending \ {n} /\ got' = got
         \/ offered' = offered /\ \E n \in Pending : /\ Pending' = Pending \ {n}
                                                    /\ got' = Append(got, n)
         \/ offered' = offered /\ Pending' = Pending /\ got' = got
  <1>1. TypeOK' /\ Accounted'
    BY TypeStep, AccountedStep
  <1>2. /\ \A n \in 1 .. offered : Queued(n) \/ hand = n <=> ~Settled(n)
        /\ \A n \in Frame : Queued(n) \/ hand = n \/ Settled(n) => n <= offered
    BY PendingTillSettled
  <1>3. (\A n \in 1 .. offered : Queued(n) \/ hand = n <=> ~Settled(n))'
    <2>1. (TypeOK /\ Accounted => \A n \in 1 .. offered : Queued(n) \/ hand = n <=> ~Settled(n))'
      BY PendingTillSettled, PTL
    <2> QED  BY <1>1, <2>1
  <1>4. /\ offered \in Nat /\ offered' \in Nat /\ Frame \subseteq Nat \ {0}
        /\ 1 .. offered \subseteq Frame /\ 1 .. offered' \subseteq Frame
    BY <1>1, FramesAssumption DEF TypeOK
  <1>5. Pending = {n \in 1 .. offered : ~Settled(n)} /\ Pending' = {n \in 1 .. offered' : ~Settled(n)'}
    BY <1>2, <1>3 DEF Pending
  <1>6. ASSUME UNCHANGED <<offered, got, refused>> PROVE Pending' = Pending
    <2>1. \A n : Settled(n)' <=> Settled(n)
      BY <1>6 DEF Settled
    <2> QED  BY <1>5, <1>6, <2>1
  <1>7. ASSUME NEW h \in Frame, Queued(h) \/ hand = h, offered' = offered,
               \A n \in Frame : Settled(n)' <=> Settled(n) \/ n = h
        PROVE  h \in Pending /\ Pending' = Pending \ {h}
    <2>1. h \in Pending
      BY <1>2, <1>4, <1>7 DEF Pending
    <2> QED  BY <1>4, <1>5, <1>7, <2>1
  <1>8. CASE Offer
    <2>1. offered' = offered + 1 /\ UNCHANGED <<queue, got>> /\ offered + 1 \in 1 .. offered' /\ hand = Nothing
      BY <1>4, <1>8 DEF Offer, readerVars
    <2>2. \A n : Queued(n)' <=> Queued(n)
      BY <2>1 DEF Queued
    <2>3. hand' \in {Nothing, offered + 1}
      BY <1>8 DEF Offer
    <2>4. ~Queued(offered + 1)
      BY <1>2, <1>4, <2>1
    <2>5. Pending' = {n \in 1 .. offered + 1 : Queued(n) \/ hand' = n}
      BY <2>1, <2>2 DEF Pending
    <2>6. Pending' = Pending \/ Pending' = Pending \cup {offered + 1}
      BY <1>4, <2>1, <2>3, <2>4, <2>5 DEF Pending
    <2> QED  BY <2>1, <2>6
  <1>9. CASE PutFrame
    <2>1. offered' = offered /\ got' = got /\ hand \in Frame
      BY <1>9, FramesAssumption DEF PutFrame, readerVars, TypeOK
    <2>2. CASE refused' = refused
      BY <1>6, <2>1, <2>2
    <2>3. CASE Refuse("full", hand)
      <3>1. \A n \in Frame : \A k \in Reasons : n \in refused'[k] <=> n \in refused[k] \/ (n = hand /\ k = "full")
        BY <2>3 DEF Refuse, TypeOK
      <3>2. \A n \in Frame : Settled(n)' <=> Settled(n) \/ n = hand
        BY <2>1, <3>1 DEF Settled, Reasons
      <3> QED  BY <1>7, <2>1, <3>2
    <2> QED  BY <1>9, <2>2, <2>3 DEF PutFrame
  <1>10. CASE TakeFrame \/ TakeWakeUp \/ DrainOne
    <2>1. Take /\ UNCHANGED <<offered, refused>>
      BY <1>10 DEF TakeFrame, TakeWakeUp, DrainOne, Take, hubVars
    <2>2. Head(queue) \in Frame \cup {WakeUp} /\ Queued(Head(queue))
      BY <2>1, TakeQueue DEF Accounted
    <2>3. CASE Head(queue) = WakeUp
      <3>1. got' = got
        BY <1>10, <2>3 DEF TakeFrame, TakeWakeUp, DrainOne
      <3> QED  BY <1>6, <2>1, <3>1
    <2>4. CASE Head(queue) # WakeUp
      <3> PICK h \in Frame : h = Head(queue)
        BY <2>2, <2>4
      <3>1. got' = Append(got, h)
        BY <1>10, <2>4 DEF TakeFrame, TakeWakeUp, DrainOne
      <3>2. \A n : At(n, "got")' <=> At(n, "got") \/ n = h
        BY <3>1, AppendGot DEF TypeOK
      <3>3. \A n : Settled(n)' <=> Settled(n) \/ n = h
        BY <2>1, <3>2, AtDef, AtDefNext DEF Settled
      <3> QED  BY <1>7, <2>1, <2>2, <3>1, <3>3
    <2> QED  BY <2>3, <2>4
  <1>11. ASSUME NEW c \in Closers, Wake(c)
         PROVE  offered' = offered /\ Pending' = Pending /\ got' = got
    BY <1>6, <1>11 DEF Wake, hubVars, readerVars
  <1>12. CASE Still
    BY <1>6, <1>12 DEF Still
  <1> QED  BY <1>8, <1>9, <1>10, <1>11, <1>12, StepKinds

(* FrameSubscription implements LossyRelay, for every capacity, number of Frames and    *)
(* set of closers: whichever way the Frames are read and whoever closes meanwhile, the   *)
(* reader gets Frames that offer() took, each once, and none that it refused.            *)
THEOREM SubscriptionImplementsRelay == Spec => Relay!Spec
  <1> DEFINE IInv == TypeOK /\ Accounted
  <1>1. Init => IInv
    BY TypeInit, AccountedInit
  <1>2. IInv /\ [Next]_vars => IInv'
    BY TypeStep, AccountedStep
  <1>3. Init => Relay!Init
    BY DEF Init, Relay!Init
  <1>4. IInv /\ [Next]_vars => [Relay!Next]_(Relay!vars)
    BY SubscriptionRefines DEF Pending, Relay!Next, Relay!vars, Relay!Accept, Relay!Lose, Relay!Deliver
  <1> QED  BY <1>1, <1>2, <1>3, <1>4, PTL DEF Spec, Relay!Spec
=============================================================================
