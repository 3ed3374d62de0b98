------------------------------- MODULE EventBus -------------------------------
(***************************************************************************)
(* The event bus (core/events.py): any thread emits, one thread reads each     *)
(* subscription by get_event(), iteration or drain(), its owner closes it and   *)
(* one thread may clear the bus.  Only the list of subscribers has a lock; the   *)
(* queues are bounded and nobody blocks on putting.                           *)
(***************************************************************************)
EXTENDS Integers, Sequences, SequencesExt, FiniteSetsExt

CONSTANTS
  Emitters,    (* threads that call emit()                                    *)
  Subs,        (* subscriptions                                               *)
  Clearer,     (* the thread that calls clear(), once                         *)
  QueueSize,   (* capacity of a subscription's queue                          *)
  RingSize,    (* length of the ring of recent events                         *)
  MaxEvents    (* bound: events emitted                                         *)

ASSUME EventBusAssumption ==
  /\ QueueSize \in Nat \ {0} /\ RingSize \in Nat \ {0} /\ MaxEvents \in Nat
  /\ Clearer \notin Subs

VARIABLES
  subscribers, (* _subscribers                                                *)
  ring,        (* _ring_buffer                                                *)
  dropped,     (* _total_events_dropped; the events emitted are emitter's n      *)
  queue,       (* a subscription's _queue                                     *)
  closed,      (* its _closed                                                 *)
  emitter,     (* emit(): where it is, its n-th event, whom it still serves       *)
  joined,      (* the subscriptions whose consumer reads: it asked get_recent()     *)
  ender,       (* close() of each subscription, and clear(): where it is, and     *)
               (* whom it still has to tell                                   *)
  born,        (* history: subscriptions made                                  *)
  past,        (* history: what get_recent() showed a new subscriber, or showed    *)
               (* no more because the ring had moved on                         *)
  forgotten,   (* history: events that left the ring                           *)
  got, evicted, (* history: what a subscription read, and what it lost to a None   *)
  refused,     (* history: the events not delivered, with the subscription          *)
  untold       (* history: subscriptions whose None could not be put            *)

fates == <<got, refused, evicted>>
bus   == <<subscribers, ring, forgotten>>
ends  == <<ender, untold>>
vars == <<bus, dropped, queue, closed, emitter, joined, ends, born, past, fates>>

Pill == [by |-> Clearer, n |-> 0]
Enders == Subs \cup {Clearer}
EventOf(e) == [by |-> e, n |-> emitter[e].n]
SumEmitted == MapThenSumSet(LAMBDA e : emitter[e].n, Emitters)
Served(e) == Head(emitter[e].left)
Told(t) == Head(ender[t].left)
EmitterTo(e, at, left) == emitter' = [emitter EXCEPT ![e].at = IF left = <<>> THEN "idle" ELSE at, ![e].left = left]
EnderTo(t, at) == ender' = [ender EXCEPT ![t].at = at]
NextToTell(t) == ender' = [ender EXCEPT ![t].left = Tail(@), ![t].at = IF Len(ender[t].left) = 1 THEN "last" ELSE "pill"]
Full(s) == Len(queue[s]) = QueueSize

-----------------------------------------------------------------------------
(* Faulty forms of actions below: plausible bugs that the properties must      *)
(* exclude.  No specification uses them.                                     *)

CopiedBeforeRing(e) ==
  \/ /\ emitter[e].at = "idle" /\ SumEmitted < MaxEvents
     /\ emitter' = [emitter EXCEPT ![e] = [at |-> "copied", n |-> @.n + 1, left |-> subscribers]]
     /\ UNCHANGED <<bus, dropped, queue, closed, joined, ends, born, past, fates>>
  \/ /\ emitter[e].at = "copied" /\ EmitterTo(e, "deliver", emitter[e].left)
     /\ ring' = Append(IF Len(ring) = RingSize THEN Tail(ring) ELSE ring, EventOf(e))
     /\ forgotten' = forgotten \cup (IF Len(ring) = RingSize THEN {Head(ring)} ELSE {})
     /\ UNCHANGED <<subscribers, dropped, queue, closed, joined, ends, born, past, fates>>

PutAgainWhenTaken(e) ==
  /\ emitter[e].at = "put"
  /\ \/ Full(Served(e)) /\ UNCHANGED <<queue, emitter>>
     \/ /\ ~Full(Served(e))
        /\ queue' = [queue EXCEPT ![Served(e)] = Append(@, EventOf(e))]
        /\ \/ EmitterTo(e, "deliver", Tail(emitter[e].left))
           \/ UNCHANGED emitter
  /\ UNCHANGED <<bus, dropped, closed, joined, ends, born, past, fates>>

ClearedWithoutRemoving ==
  /\ ender[Clearer].at = "idle"
  /\ ender' = [ender EXCEPT ![Clearer] = [at |-> IF subscribers = <<>> THEN "last" ELSE "pill", left |-> subscribers]]
  /\ UNCHANGED <<bus, dropped, queue, closed, emitter, joined, untold, born, past, fates>>

-----------------------------------------------------------------------------
(* EventBus.subscribe(), and the get_recent() of a consumer that joins late.    *)

Subscribe(s) ==
  /\ s \notin born /\ born' = born \cup {s}
  /\ subscribers' = Append(subscribers, s)
  /\ UNCHANGED <<ring, forgotten, dropped, queue, closed, emitter, joined, ends, past, fates>>

GetRecent(s) ==
  /\ s \in born /\ s \notin joined /\ joined' = joined \cup {s}
  /\ past' = [past EXCEPT ![s] = Range(ring) \cup forgotten]
  /\ UNCHANGED <<bus, dropped, queue, closed, emitter, ends, born, fates>>

-----------------------------------------------------------------------------
(* EventBus.emit()                                                           *)

(* the ring and the total                                                    *)
Emit(e) ==
  /\ emitter[e].at = "idle" /\ SumEmitted < MaxEvents
  /\ emitter' = [emitter EXCEPT ![e].at = "snapshot", ![e].n = @ + 1]
  /\ ring' = Append(IF Len(ring) = RingSize THEN Tail(ring) ELSE ring, EventOf(e)')
  /\ forgotten' = forgotten \cup (IF Len(ring) = RingSize THEN {Head(ring)} ELSE {})
  /\ UNCHANGED <<subscribers, dropped, queue, closed, joined, ends, born, past, fates>>

(* the copy of the list, under its lock                                       *)
Snapshot(e) ==
  /\ emitter[e].at = "snapshot" /\ EmitterTo(e, "deliver", subscribers)
  /\ UNCHANGED <<bus, dropped, queue, closed, joined, ends, born, past, fates>>

Refuse(e) ==
  /\ dropped' = dropped + 1
  /\ refused' = refused \cup {<<Served(e), EventOf(e)>>}
  /\ EmitterTo(e, "deliver", Tail(emitter[e].left))

(* EventSubscription.deliver(): the test of _closed, then put_nowait()         *)
Deliver(e) ==
  /\ emitter[e].at = "deliver"
  /\ \/ closed[Served(e)] /\ Refuse(e)
     \/ ~closed[Served(e)] /\ EmitterTo(e, "put", emitter[e].left) /\ UNCHANGED <<dropped, refused>>
  /\ UNCHANGED <<bus, queue, closed, joined, ends, born, past, got, evicted>>

Put(e) ==
  /\ emitter[e].at = "put"
  /\ \/ Full(Served(e)) /\ Refuse(e) /\ UNCHANGED queue
     \/ /\ ~Full(Served(e))
        /\ queue' = [queue EXCEPT ![Served(e)] = Append(@, EventOf(e))]
        /\ EmitterTo(e, "deliver", Tail(emitter[e].left))
        /\ UNCHANGED <<dropped, refused>>
  /\ UNCHANGED <<bus, closed, joined, ends, born, past, got, evicted>>

-----------------------------------------------------------------------------
(* Reading: get_event() and __next__() look at _closed and wait for an item, each  *)
(* get_nowait() of drain() takes one whether closed or not.  As drain() may be    *)
(* called at any time, the look at _closed excludes nothing; a return with empty   *)
(* hands changes nothing.                                                    *)
Take(s) ==
  /\ s \in joined /\ queue[s] # <<>>
  /\ queue' = [queue EXCEPT ![s] = Tail(@)]
  /\ \/ /\ Head(queue[s]) = Pill
        /\ closed' = [closed EXCEPT ![s] = TRUE] /\ UNCHANGED got
     \/ /\ Head(queue[s]) # Pill
        /\ got' = [got EXCEPT ![s] = Append(@, Head(queue[s]))] /\ UNCHANGED closed
  /\ UNCHANGED <<bus, dropped, emitter, joined, ends, born, past, refused, evicted>>

-----------------------------------------------------------------------------
(* EventSubscription.close() and EventBus.clear().                             *)

Close(s) ==
  /\ s \in born /\ ender[s].at = "idle" /\ ~closed[s]
  /\ closed' = [closed EXCEPT ![s] = TRUE] /\ EnderTo(s, "remove")
  /\ UNCHANGED <<bus, dropped, queue, emitter, joined, untold, born, past, fates>>

Unsubscribe(s) ==
  /\ ender[s].at = "remove"
  /\ \/ /\ \E i \in DOMAIN subscribers : subscribers[i] = s /\ subscribers' = RemoveAt(subscribers, i)
        /\ ender' = [ender EXCEPT ![s] = [at |-> "pill", left |-> <<s>>]]
     \/ /\ s \notin Range(subscribers) /\ UNCHANGED subscribers
        /\ ender' = [ender EXCEPT ![s] = [at |-> "done", left |-> <<>>]]
  /\ UNCHANGED <<ring, forgotten, dropped, queue, closed, emitter, joined, untold, born, past, fates>>

Clear ==
  /\ ender[Clearer].at = "idle"
  /\ ender' = [ender EXCEPT ![Clearer] = [at |-> IF subscribers = <<>> THEN "last" ELSE "pill", left |-> subscribers]]
  /\ subscribers' = <<>>
  /\ UNCHANGED <<ring, forgotten, dropped, queue, closed, emitter, joined, untold, born, past, fates>>

(* send_poison_pill(): put_nowait(); when full get_nowait() and put_nowait()     *)
SendPill(t) ==
  /\ ender[t].at = "pill"
  /\ \/ Full(Told(t)) /\ EnderTo(t, "room") /\ UNCHANGED queue
     \/ /\ ~Full(Told(t))
        /\ queue' = [queue EXCEPT ![Told(t)] = Append(@, Pill)]
        /\ NextToTell(t)
  /\ UNCHANGED <<bus, dropped, closed, emitter, joined, untold, born, past, fates>>

MakeRoom(t) ==
  /\ ender[t].at = "room"
  /\ \/ /\ queue[Told(t)] = <<>>                         (* queue.Empty: nothing is put *)
        /\ untold' = untold \cup {Told(t)} /\ NextToTell(t)
        /\ UNCHANGED <<queue, evicted>>
     \/ /\ queue[Told(t)] # <<>>
        /\ queue' = [queue EXCEPT ![Told(t)] = Tail(@)]
        /\ evicted' = [evicted EXCEPT ![Told(t)] = @ \cup {Head(queue[Told(t)])}]
        /\ EnderTo(t, "again") /\ UNCHANGED untold
  /\ UNCHANGED <<bus, dropped, closed, emitter, joined, born, past, got, refused>>

SendAgain(t) ==
  /\ ender[t].at = "again"
  /\ \/ /\ Full(Told(t))                                 (* queue.Full leaves the call *)
        /\ untold' = untold \cup Range(ender[t].left)
        /\ ender' = [ender EXCEPT ![t] = [at |-> "done", left |-> <<>>]]
        /\ UNCHANGED queue
     \/ /\ ~Full(Told(t))
        /\ queue' = [queue EXCEPT ![Told(t)] = Append(@, Pill)]
        /\ NextToTell(t) /\ UNCHANGED untold
  /\ UNCHANGED <<bus, dropped, closed, emitter, joined, born, past, fates>>

(* clear() empties the ring last                                              *)
End(t) ==
  /\ ender[t].at = "last" /\ EnderTo(t, "done")
  /\ IF t = Clearer
     THEN ring' = <<>> /\ forgotten' = forgotten \cup Range(ring)
     ELSE UNCHANGED <<ring, forgotten>>
  /\ UNCHANGED <<subscribers, dropped, queue, closed, emitter, joined, untold, born, past, fates>>

-----------------------------------------------------------------------------
Init ==
  /\ subscribers = <<>> /\ ring = <<>> /\ dropped = 0
  /\ queue = [s \in Subs |-> <<>>] /\ closed = [s \in Subs |-> FALSE]
  /\ emitter = [e \in Emitters |-> [at |-> "idle", n |-> 0, left |-> <<>>]]
  /\ ender = [t \in Enders |-> [at |-> "idle", left |-> <<>>]]
  /\ born = {} /\ joined = {} /\ past = [s \in Subs |-> {}] /\ forgotten = {} /\ untold = {}
  /\ got = [s \in Subs |-> <<>>] /\ refused = {} /\ evicted = [s \in Subs |-> {}]

Next ==
  \/ \E e \in Emitters : Emit(e) \/ Snapshot(e) \/ Deliver(e) \/ Put(e)
  \/ \E s \in Subs : \/ Subscribe(s) \/ GetRecent(s) \/ Take(s) \/ Close(s) \/ Unsubscribe(s)
  \/ Clear
  \/ \E t \in Enders : SendPill(t) \/ MakeRoom(t) \/ SendAgain(t) \/ End(t)

Spec == Init /\ [][Next]_vars

-----------------------------------------------------------------------------
(* Properties.                                                               *)

Emitted(e) == {[by |-> e, n |-> i] : i \in 1 .. emitter[e].n}
Events(s) == got[s] \o queue[s]                  (* with the None, if it is there *)
Pending(e, s) == \/ emitter[e].at = "snapshot"
                 \/ s \in Range(emitter[e].left)

(* A consumer that subscribes and then asks get_recent() misses nothing: an      *)
(* event that emit() has delivered everywhere is in what the ring showed, or     *)
(* left the ring before, or it was offered to the subscription (queued, read,     *)
(* evicted for the None, or refused, which the bus counts), unless the            *)
(* subscription was ended.  emit() enters the ring before it copies the list.    *)
NoneMissed ==
  \A s \in joined : s \in Range(subscribers) =>
    \A e \in Emitters : \A x \in Emitted(e) :
      \/ x.n = emitter[e].n /\ Pending(e, s)
      \/ x \in past[s] \cup Range(Events(s)) \cup evicted[s] \/ <<s, x>> \in refused
NoGap == NoneMissed /\ dropped = Cardinality(refused)

(* A subscription gets the events of one thread in the order it emitted them,    *)
(* none twice, whatever was dropped between them.                              *)
InOrder ==
  \A s \in Subs : \A i, j \in DOMAIN Events(s) :
    LET x == Events(s)[i]
        y == Events(s)[j]
    IN i < j /\ x # Pill /\ y # Pill /\ x.by = y.by => x.n < y.n

(* A subscription that the bus no longer lists has been told: it is closed, or    *)
(* a None waits in its queue behind the events, or the thread that took it off     *)
(* the list is still to put one.  The exceptions are the two ends of              *)
(* send_poison_pill() that give up.  And a closed one is listed only while the    *)
(* close() that marked it runs.                                               *)
EndIsTold ==
  \A s \in born :
    /\ s \notin Range(subscribers) =>
         \/ closed[s] \/ Pill \in Range(queue[s]) \/ s \in untold
         \/ \E t \in Enders : s \in Range(ender[t].left)
    /\ closed[s] /\ s \in Range(subscribers) => ender[s].at = "remove"
=============================================================================
