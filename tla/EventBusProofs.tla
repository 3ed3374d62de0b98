---------------------------- MODULE EventBusProofs ----------------------------
(***************************************************************************)
(* Theorems about EventBus for every number of emitters and subscriptions, and  *)
(* every size of the queues and of the ring.                                  *)
(***************************************************************************)
EXTENDS EventBus, SequenceTheorems, FiniteSetTheorems, TLAPS

Event == [by : Emitters \cup {Clearer}, n : Nat]
EmitterState == [at : {"idle", "snapshot", "deliver", "put"}, n : Nat, left : Seq(Subs)]
EnderState == [at : {"idle", "remove", "pill", "room", "again", "last", "done"}, left : Seq(Subs)]

TypeInv ==
  /\ subscribers \in Seq(Subs) /\ ring \in Seq(Event)
  /\ queue \in [Subs -> Seq(Event)] /\ got \in [Subs -> Seq(Event)]
  /\ refused \subseteq Subs \X Event /\ evicted \in [Subs -> SUBSET Event] /\ past \in [Subs -> SUBSET Event]
  /\ forgotten \subseteq Event /\ closed \in [Subs -> BOOLEAN]
  /\ emitter \in [Emitters -> EmitterState] /\ ender \in [Enders -> EnderState]
  /\ born \subseteq Subs /\ joined \subseteq born
PlaceInv ==
  /\ \A e \in Emitters : /\ emitter[e].at \in {"deliver", "put"} <=> emitter[e].left # <<>>
                         /\ emitter[e].at # "idle" => emitter[e].n # 0
  /\ \A t \in Enders : ender[t].at \in {"pill", "room", "again"} <=> ender[t].left # <<>>
TypeOK == TypeInv /\ PlaceInv

Distinct(q) == \A i, j \in 1 .. Len(q) : q[i] = q[j] => i = j

(* Why whoever is taken off the list is told: it is listed once, so one thread at     *)
(* most takes it off and has to tell it; until that has put the None nobody has, and    *)
(* afterwards nobody makes room in its queue.                                     *)
Listed == Distinct(subscribers) /\ Range(subscribers) \subseteq born
TellOnce ==
  \A t \in Enders :
    /\ Distinct(ender[t].left)
    /\ \A s \in Range(ender[t].left) :
         /\ s \in born /\ s \notin Range(subscribers) /\ Pill \notin Range(queue[s])
         /\ \A u \in Enders : u # t => s \notin Range(ender[u].left)
PillLast ==
  \A s \in Subs : /\ Pill \in Range(queue[s]) => s \in born /\ s \notin Range(subscribers)
                  /\ closed[s] => s \in born

(* Why the events of a thread stay in order: what a subscription has of them is not    *)
(* newer than the one in hand, and older while that is still to be delivered to it.     *)
InTurn ==
  \A e \in Emitters :
    /\ Distinct(emitter[e].left)
    /\ \A s \in Subs : \A x \in Range(got[s]) \cup Range(queue[s]) : x # Pill /\ x.by = e =>
         x.n <= emitter[e].n /\ (Pending(e, s) => x.n < emitter[e].n)
Before(x, y) == x # Pill /\ y # Pill /\ x.by = y.by => x.n < y.n
Sorted(q) == \A i, j \in 1 .. Len(q) : i < j => Before(q[i], q[j])
Ordered ==
  \A s \in Subs :
    /\ Sorted(got[s]) /\ Sorted(queue[s])
    /\ \A x \in Range(got[s]), y \in Range(queue[s]) : Before(x, y)

(* Why nothing is counted twice: what a subscription was refused of a thread's events is    *)
(* older than the one in hand while that is still to be delivered to it.               *)
RefusedOnce ==
  \A e \in Emitters, s \in Subs, x \in Event : <<s, x>> \in refused /\ x.by = e =>
    x.n <= emitter[e].n /\ (Pending(e, s) => x.n < emitter[e].n)
Counted == IsFiniteSet(refused) /\ dropped = Cardinality(refused)

(* Why get_recent() shows all that a subscriber will not be offered.                *)
Recorded == \A e \in Emitters : Emitted(e) \subseteq Range(ring) \cup forgotten

-----------------------------------------------------------------------------
(* Lemmas about sequences.                                                     *)
LEMMA AppendFacts ==
  ASSUME NEW S, NEW q \in Seq(S), NEW x \in S
  PROVE  /\ Append(q, x) \in Seq(S) /\ Append(q, x) # <<>>
         /\ Range(Append(q, x)) = Range(q) \cup {x}
         /\ Len(q) \in Nat /\ Len(Append(q, x)) = Len(q) + 1
         /\ Append(q, x)[Len(q) + 1] = x
         /\ \A i \in 1 .. Len(q) : Append(q, x)[i] = q[i] /\ q[i] \in Range(q)
         /\ \A i \in 1 .. Len(Append(q, x)) : i \in 1 .. Len(q) \/ i = Len(q) + 1
  <1>1. Len(q) \in Nat /\ Append(q, x) \in Seq(S) /\ Append(q, x) # <<>> /\ Len(Append(q, x)) = Len(q) + 1
    OBVIOUS
  <1>2. DOMAIN q = 1 .. Len(q) /\ DOMAIN Append(q, x) = 1 .. (Len(q) + 1)
    BY <1>1
  <1>3. \A i \in 1 .. Len(q) : Append(q, x)[i] = q[i]
    OBVIOUS
  <1>4. Append(q, x)[Len(q) + 1] = x
    OBVIOUS
  <1>5. \A i \in 1 .. (Len(q) + 1) : i \in 1 .. Len(q) \/ i = Len(q) + 1
    BY <1>1
  <1>6. 1 .. Len(q) \subseteq 1 .. (Len(q) + 1) /\ Len(q) + 1 \in 1 .. (Len(q) + 1)
    BY <1>1
  <1>7. Range(Append(q, x)) = Range(q) \cup {x}
    BY <1>2, <1>3, <1>4, <1>5, <1>6 DEF Range
  <1>8. \A i \in 1 .. Len(q) : q[i] \in Range(q)
    BY <1>2 DEF Range
  <1> QED  BY <1>1, <1>3, <1>4, <1>5, <1>7, <1>8

LEMMA TailFacts ==
  ASSUME NEW S, NEW q \in Seq(S), q # <<>>
  PROVE  /\ Tail(q) \in Seq(S) /\ Len(q) \in Nat \ {0} /\ Len(Tail(q)) = Len(q) - 1
         /\ Head(q) = q[1] /\ Head(q) \in S /\ Head(q) \in Range(q) /\ 1 \in 1 .. Len(q)
         /\ Range(q) = {Head(q)} \cup Range(Tail(q))
         /\ \A i \in 1 .. Len(Tail(q)) : i + 1 \in 1 .. Len(q) /\ Tail(q)[i] = q[i + 1] /\ 1 < i + 1
  <1>1. Tail(q) \in Seq(S) /\ Len(q) \in Nat \ {0} /\ Len(Tail(q)) = Len(q) - 1 /\ Head(q) = q[1]
    OBVIOUS
  <1>2. DOMAIN q = 1 .. Len(q) /\ DOMAIN Tail(q) = 1 .. (Len(q) - 1) /\ 1 \in 1 .. Len(q)
    BY <1>1
  <1>3. \A i \in 1 .. (Len(q) - 1) : i + 1 \in 1 .. Len(q) /\ 1 < i + 1
    BY <1>1
  <1>4. \A i \in 1 .. (Len(q) - 1) : Tail(q)[i] = q[i + 1]
    OBVIOUS
  <1>5. \A i \in 1 .. Len(q) : i = 1 \/ (i - 1 \in 1 .. (Len(q) - 1) /\ (i - 1) + 1 = i)
    BY <1>1
  <1>6. \A i \in 1 .. Len(q) : i = 1 \/ q[i] \in Range(Tail(q))
    <2> SUFFICES ASSUME NEW i \in 1 .. Len(q), i # 1 PROVE q[i] \in Range(Tail(q))
      OBVIOUS
    <2>1. i - 1 \in DOMAIN Tail(q) /\ (i - 1) + 1 = i
      BY <1>2, <1>5
    <2>2. Tail(q)[i - 1] = q[i]
      BY <1>2, <1>4, <2>1
    <2> QED  BY <2>1, <2>2 DEF Range
  <1>7. Range(q) = {Head(q)} \cup Range(Tail(q))
    <2>1. Range(q) \subseteq {Head(q)} \cup Range(Tail(q))
      BY <1>1, <1>2, <1>6 DEF Range
    <2>2. Range(Tail(q)) \subseteq Range(q)
      BY <1>2, <1>3, <1>4 DEF Range
    <2>3. Head(q) \in Range(q)
      BY <1>1, <1>2 DEF Range
    <2> QED  BY <2>1, <2>2, <2>3
  <1>8. Head(q) \in S
    BY <1>1, <1>2
  <1> QED  BY <1>1, <1>2, <1>3, <1>4, <1>7, <1>8

LEMMA EmptyFacts ==
  ASSUME NEW q, q = <<>>
  PROVE  Range(q) = {} /\ Len(q) = 0 /\ Distinct(q) /\ Sorted(q)
  <1>1. Len(q) = 0 /\ 1 .. Len(q) = {} /\ DOMAIN q = {}
    OBVIOUS
  <1> QED  BY <1>1 DEF Range, Distinct, Sorted

LEMMA SingleFacts ==
  ASSUME NEW S, NEW x \in S
  PROVE  <<x>> \in Seq(S) /\ <<x>> # <<>> /\ Range(<<x>>) = {x} /\ Distinct(<<x>>) /\ Len(<<x>>) = 1
  <1>1. <<x>> \in Seq(S) /\ Len(<<x>>) = 1 /\ DOMAIN <<x>> = {1} /\ <<x>>[1] = x /\ 1 .. 1 = {1}
    OBVIOUS
  <1>2. <<x>> # <<>>
    OBVIOUS
  <1> QED  BY <1>1, <1>2 DEF Range, Distinct

LEMMA DistinctAppend ==
  ASSUME NEW S, NEW q \in Seq(S), NEW x \in S, Distinct(q), x \notin Range(q)
  PROVE  Distinct(Append(q, x))
  BY AppendFacts DEF Distinct

LEMMA DistinctTail ==
  ASSUME NEW S, NEW q \in Seq(S), q # <<>>, Distinct(q)
  PROVE  Distinct(Tail(q)) /\ Head(q) \notin Range(Tail(q))
  <1>1. \A i \in 1 .. Len(Tail(q)) : i + 1 \in 1 .. Len(q) /\ Tail(q)[i] = q[i + 1] /\ 1 < i + 1
    BY TailFacts
  <1>2. Distinct(Tail(q))
    <2> SUFFICES ASSUME NEW i \in 1 .. Len(Tail(q)), NEW j \in 1 .. Len(Tail(q)), Tail(q)[i] = Tail(q)[j] PROVE i = j
      BY DEF Distinct
    <2>1. i + 1 = j + 1
      BY <1>1 DEF Distinct
    <2> QED  BY <2>1
  <1>3. Head(q) = q[1] /\ 1 \in 1 .. Len(q) /\ DOMAIN Tail(q) = 1 .. Len(Tail(q))
    BY TailFacts
  <1>4. ASSUME Head(q) \in Range(Tail(q)) PROVE FALSE
    <2>1. PICK i \in 1 .. Len(Tail(q)) : Head(q) = Tail(q)[i]
      BY <1>3, <1>4 DEF Range
    <2>2. 1 = i + 1
      BY <1>1, <1>3, <2>1 DEF Distinct
    <2> QED  BY <1>1, <2>2
  <1> QED  BY <1>2, <1>4

LEMMA SortedAppend ==
  ASSUME NEW S, NEW q \in Seq(S), NEW x \in S, Sorted(q), \A y \in Range(q) : Before(y, x)
  PROVE  Sorted(Append(q, x))
  <1> SUFFICES ASSUME NEW i \in 1 .. Len(Append(q, x)), NEW j \in 1 .. Len(Append(q, x)), i < j
               PROVE  Before(Append(q, x)[i], Append(q, x)[j])
    BY DEF Sorted
  <1>1. i \in 1 .. Len(q)
    BY AppendFacts
  <1>2. CASE j \in 1 .. Len(q)
    BY <1>1, <1>2, AppendFacts DEF Sorted
  <1>3. CASE j = Len(q) + 1
    BY <1>1, <1>3, AppendFacts
  <1> QED  BY <1>2, <1>3, AppendFacts

LEMMA SortedTail ==
  ASSUME NEW S, NEW q \in Seq(S), q # <<>>, Sorted(q)
  PROVE  Sorted(Tail(q)) /\ \A y \in Range(Tail(q)) : Before(Head(q), y)
  <1>1. \A i \in 1 .. Len(Tail(q)) : i + 1 \in 1 .. Len(q) /\ Tail(q)[i] = q[i + 1] /\ 1 < i + 1
    BY TailFacts
  <1>2. Sorted(Tail(q))
    <2> SUFFICES ASSUME NEW i \in 1 .. Len(Tail(q)), NEW j \in 1 .. Len(Tail(q)), i < j
                 PROVE  Before(Tail(q)[i], Tail(q)[j])
      BY DEF Sorted
    <2>1. i + 1 < j + 1
      OBVIOUS
    <2> QED  BY <1>1, <2>1 DEF Sorted
  <1>3. Head(q) = q[1] /\ 1 \in 1 .. Len(q) /\ DOMAIN Tail(q) = 1 .. Len(Tail(q))
    BY TailFacts
  <1>4. \A y \in Range(Tail(q)) : Before(Head(q), y)
    BY <1>1, <1>3 DEF Range, Sorted
  <1> QED  BY <1>2, <1>4

LEMMA RemoveFacts ==
  ASSUME NEW S, NEW q \in Seq(S), NEW i \in 1 .. Len(q)
  PROVE  /\ RemoveAt(q, i) \in Seq(S)
         /\ Distinct(q) => Distinct(RemoveAt(q, i)) /\ Range(RemoveAt(q, i)) = Range(q) \ {q[i]}
  <1> DEFINE r == RemoveAt(q, i)
             up(k) == IF k < i THEN k ELSE k + 1
  <1>1. Len(q) \in Nat /\ DOMAIN q = 1 .. Len(q)
    OBVIOUS
  <1>2. r \in Seq(S) /\ Len(r) = Len(q) - 1 /\ \A k \in 1 .. Len(r) : r[k] = q[up(k)]
    <2> DEFINE a == SubSeq(q, 1, i - 1)
               b == SubSeq(q, i + 1, Len(q))
    <2>1. a \in Seq(S) /\ Len(a) = i - 1 /\ \A k \in 1 .. (i - 1) : a[k] = q[k]
      BY <1>1
    <2>2. b \in Seq(S) /\ Len(b) = Len(q) - i /\ \A k \in 1 .. (Len(q) - i) : b[k] = q[i + k]
      <3>1. i + 1 \in 1 .. Len(q) + 1 /\ Len(q) \in i + 1 - 1 .. Len(q) /\ Len(q) - (i + 1) + 1 = Len(q) - i
        BY <1>1
      <3>2. /\ b \in Seq(S) /\ Len(b) = (IF i + 1 <= Len(q) THEN Len(q) - (i + 1) + 1 ELSE 0)
            /\ \A k \in 1 .. Len(q) - (i + 1) + 1 : b[k] = q[(i + 1) + k - 1]
        BY <1>1, <3>1, SubSeqProperties
      <3> HIDE DEF b
      <3>3. Len(b) = Len(q) - i
        <4>1. CASE i + 1 <= Len(q)
          BY <3>1, <3>2, <4>1
        <4>2. CASE ~(i + 1 <= Len(q))
          <5>1. Len(q) = i
            <6>1. Len(q) \in Nat /\ i \in Nat /\ i <= Len(q)
              BY <1>1
            <6> QED  BY <4>2, <6>1
          <5>2. Len(q) - i = 0
            BY <1>1, <5>1
          <5> QED  BY <3>2, <4>2, <5>2
        <4> QED  BY <4>1, <4>2
      <3>4. ASSUME NEW k \in 1 .. (Len(q) - i) PROVE b[k] = q[i + k]
        <4>1. b[k] = q[(i + 1) + k - 1]
          BY <3>1, <3>2
        <4>2. (i + 1) + k - 1 = i + k
          BY <1>1
        <4> QED  BY <4>1, <4>2
      <3> QED  BY <3>2, <3>3, <3>4
    <2>3. r = a \o b
      BY DEF RemoveAt
    <2> HIDE DEF a, b, r
    <2>4. r \in Seq(S) /\ Len(r) = Len(q) - 1
      <3>1. r \in Seq(S) /\ Len(r) = Len(a) + Len(b)
        BY <2>1, <2>2, <2>3, ConcatProperties
      <3> QED  BY <1>1, <2>1, <2>2, <3>1
    <2>5. \A k \in 1 .. Len(r) : r[k] = IF k < i THEN a[k] ELSE b[k - (i - 1)]
      BY <1>1, <2>1, <2>2, <2>3, <2>4
    <2>6. \A k \in 1 .. Len(r) : k < i => k \in 1 .. (i - 1)
      BY <1>1, <2>4
    <2>7. \A k \in 1 .. Len(r) : ~(k < i) => k - (i - 1) \in 1 .. (Len(q) - i) /\ i + (k - (i - 1)) = k + 1
      BY <1>1, <2>4
    <2> QED  BY <2>1, <2>2, <2>4, <2>5, <2>6, <2>7
  <1>3. \A k \in 1 .. Len(r) : up(k) \in 1 .. Len(q) /\ up(k) # i
    BY <1>1, <1>2
  <1>4. \A k \in 1 .. Len(r), l \in 1 .. Len(r) : up(k) = up(l) => k = l
    BY <1>1, <1>2
  <1>5. \A m \in 1 .. Len(q) : m # i => \E k \in 1 .. Len(r) : up(k) = m
    <2> SUFFICES ASSUME NEW m \in 1 .. Len(q), m # i PROVE \E k \in 1 .. Len(r) : up(k) = m
      OBVIOUS
    <2>1. CASE m < i
      <3>1. m \in 1 .. Len(r) /\ up(m) = m
        BY <1>1, <1>2, <2>1
      <3> QED  BY <3>1
    <2>2. CASE ~(m < i)
      <3>1. m - 1 \in 1 .. Len(r) /\ up(m - 1) = m
        BY <1>1, <1>2, <2>2
      <3> QED  BY <3>1
    <2> QED  BY <2>1, <2>2
  <1>6. DOMAIN r = 1 .. Len(r)
    BY <1>2
  <1> HIDE DEF r, up
  <1>7. ASSUME Distinct(q) PROVE Distinct(r) /\ Range(r) = Range(q) \ {q[i]}
    <2>1. Distinct(r)
      BY <1>2, <1>3, <1>4, <1>7 DEF Distinct
    <2>2. Range(r) \subseteq Range(q) \ {q[i]}
      BY <1>1, <1>2, <1>3, <1>6, <1>7 DEF Distinct, Range
    <2>3. Range(q) \ {q[i]} \subseteq Range(r)
      <3> SUFFICES ASSUME NEW m \in 1 .. Len(q), q[m] # q[i] PROVE q[m] \in Range(r)
        BY <1>1 DEF Range
      <3>1. PICK k \in 1 .. Len(r) : up(k) = m
        BY <1>5
      <3>2. r[k] = q[m] /\ k \in DOMAIN r
        BY <1>2, <1>6, <3>1
      <3> QED  BY <3>2 DEF Range
    <2> QED  BY <2>1, <2>2, <2>3
  <1> QED  BY <1>2, <1>7 DEF r

-----------------------------------------------------------------------------
LEMMA TypeInit == Init => TypeOK /\ Listed /\ TellOnce /\ PillLast /\ InTurn /\ Ordered /\ Recorded /\ EndIsTold
  <1> SUFFICES ASSUME Init
               PROVE  TypeOK /\ Listed /\ TellOnce /\ PillLast /\ InTurn /\ Ordered /\ Recorded /\ EndIsTold
    OBVIOUS
  <1>1. <<>> \in Seq(Subs) /\ <<>> \in Seq(Event)
    OBVIOUS
  <1>2. emitter \in [Emitters -> EmitterState] /\ ender \in [Enders -> EnderState]
    BY <1>1 DEF Init, EmitterState, EnderState
  <1>3. /\ \A e \in Emitters : emitter[e] = [at |-> "idle", n |-> 0, left |-> <<>>]
        /\ \A t \in Enders : ender[t] = [at |-> "idle", left |-> <<>>]
    BY DEF Init
  <1>4. TypeOK
    BY <1>1, <1>2, <1>3 DEF Init, TypeOK, TypeInv, PlaceInv
  <1>5. Range(<<>>) = {} /\ Distinct(<<>>) /\ Sorted(<<>>)
    BY EmptyFacts
  <1>6. subscribers = <<>> /\ born = {} /\ \A s \in Subs : queue[s] = <<>> /\ got[s] = <<>> /\ ~closed[s]
    BY DEF Init
  <1>7. Recorded
    BY <1>3 DEF Recorded, Emitted
  <1> QED  BY <1>3, <1>4, <1>5, <1>6, <1>7 DEF Listed, TellOnce, PillLast, InTurn, Ordered, EndIsTold

(* What a step of emit() does to its thread.                                    *)
EmitterSteps(e) == Emit(e) \/ Snapshot(e) \/ Deliver(e) \/ Put(e)
Delivers(e) == emitter[e].at \in {"deliver", "put"}

LEMMA EmitterType ==
  ASSUME TypeOK, NEW e \in Emitters
  PROVE  /\ emitter[e].at \in {"idle", "snapshot", "deliver", "put"} /\ emitter[e].n \in Nat
         /\ emitter[e].left \in Seq(Subs) /\ EventOf(e) \in Event
         /\ Delivers(e) => Served(e) \in Subs /\ emitter[e].left # <<>> /\ Tail(emitter[e].left) \in Seq(Subs)
         /\ emitter[e].left = <<>> \/ Delivers(e)
  <1>1. emitter[e] \in EmitterState
    BY DEF TypeOK, TypeInv, PlaceInv
  <1>2. emitter[e].at \in {"idle", "snapshot", "deliver", "put"} /\ emitter[e].n \in Nat /\ emitter[e].left \in Seq(Subs)
    BY <1>1 DEF EmitterState
  <1>3. EventOf(e) \in Event
    BY <1>2 DEF EventOf, Event
  <1>4. emitter[e].left # <<>> => Served(e) \in Subs /\ Tail(emitter[e].left) \in Seq(Subs)
    BY <1>2, TailFacts DEF Served
  <1>5. Delivers(e) <=> emitter[e].left # <<>>
    BY DEF TypeOK, TypeInv, PlaceInv, Delivers
  <1> QED  BY <1>2, <1>3, <1>4, <1>5

LEMMA EmitterDeeds ==
  ASSUME TypeOK, NEW e \in Emitters, EmitterSteps(e)
  PROVE  /\ emitter' \in [Emitters -> EmitterState] /\ \A f \in Emitters \ {e} : emitter'[f] = emitter[f]
         /\ Delivers(e)' <=> emitter'[e].left # <<>>
         /\ Emit(e) => /\ emitter'[e].at = "snapshot" /\ emitter'[e].n = emitter[e].n + 1 /\ emitter'[e].left = <<>>
                       /\ emitter[e].left = <<>> /\ emitter[e].at = "idle"
         /\ ~Emit(e) => emitter'[e].n = emitter[e].n /\ emitter'[e].at # "snapshot"
         /\ Snapshot(e) => emitter'[e].left = subscribers /\ emitter[e].at = "snapshot"
         /\ Deliver(e) \/ Put(e) => Delivers(e) /\ emitter'[e].left \in {emitter[e].left, Tail(emitter[e].left)}
         /\ Put(e) => emitter'[e].left = Tail(emitter[e].left)
         /\ Deliver(e) => \/ emitter'[e].left = emitter[e].left /\ UNCHANGED <<refused, dropped>>
                          \/ emitter'[e].left = Tail(emitter[e].left) /\ Refuse(e)
  <1> DEFINE D(at, left) == [at |-> IF left = <<>> THEN "idle" ELSE at, n |-> emitter[e].n, left |-> left]
  <1>0. /\ emitter[e] \in EmitterState /\ emitter \in [Emitters -> EmitterState]
        /\ emitter[e].at \in {"idle", "snapshot", "deliver", "put"} /\ emitter[e].n \in Nat /\ emitter[e].left \in Seq(Subs)
        /\ emitter[e] = [at |-> emitter[e].at, n |-> emitter[e].n, left |-> emitter[e].left]
        /\ Delivers(e) => emitter[e].left # <<>> /\ Tail(emitter[e].left) \in Seq(Subs)
        /\ emitter[e].left = <<>> \/ Delivers(e)
        /\ subscribers \in Seq(Subs)
    BY EmitterType DEF TypeOK, TypeInv, PlaceInv, EmitterState
  <1>1. CASE Emit(e)
    <2>1. emitter[e].at = "idle" /\ emitter[e].left = <<>>
      BY <1>0, <1>1 DEF Emit, Delivers
    <2>2. emitter' = [emitter EXCEPT ![e] = [at |-> "snapshot", n |-> emitter[e].n + 1, left |-> <<>>]]
      BY <1>0, <1>1, <2>1 DEF Emit
    <2>3. [at |-> "snapshot", n |-> emitter[e].n + 1, left |-> <<>>] \in EmitterState
      BY <1>0 DEF EmitterState
    <2>4. ~Snapshot(e) /\ ~Deliver(e) /\ ~Put(e)
      BY <2>1 DEF Snapshot, Deliver, Put
    <2> QED  BY <1>0, <1>1, <2>1, <2>2, <2>3, <2>4 DEF Delivers
  <1>2. ASSUME NEW at \in {"deliver", "put"}, NEW left \in Seq(Subs), EmitterTo(e, at, left)
        PROVE  /\ emitter' \in [Emitters -> EmitterState] /\ \A f \in Emitters \ {e} : emitter'[f] = emitter[f]
               /\ emitter'[e].n = emitter[e].n /\ emitter'[e].left = left /\ emitter'[e].at # "snapshot"
               /\ Delivers(e)' <=> emitter'[e].left # <<>>
    <2>1. emitter' = [emitter EXCEPT ![e] = D(at, left)]
      <3>1. PICK r \in EmitterState : r = emitter[e]
        BY <1>0
      <3>2. PICK a \in {"idle", "deliver", "put"} : a = IF left = <<>> THEN "idle" ELSE at
        OBVIOUS
      <3>3. PICK t : t = [r EXCEPT !.at = a, !.left = left]
        OBVIOUS
      <3>4. t = [at |-> a, n |-> r.n, left |-> left]
        BY <3>3 DEF EmitterState
      <3>5. emitter' = [emitter EXCEPT ![e].at = a, ![e].left = left]
        BY <1>2, <3>2 DEF EmitterTo
      <3>6. emitter' = [emitter EXCEPT ![e] = t]
        BY <1>0, <3>1, <3>3, <3>5
      <3> QED  BY <3>1, <3>2, <3>4, <3>6
    <2>2. D(at, left) \in EmitterState
      BY <1>0, <1>2 DEF EmitterState
    <2> QED  BY <1>0, <1>2, <2>1, <2>2 DEF Delivers
  <1>3. CASE Snapshot(e)
    <2>1. PICK left \in Seq(Subs) : left = subscribers
      BY <1>0
    <2>2. EmitterTo(e, "deliver", left) /\ emitter[e].at = "snapshot"
      BY <1>3, <2>1 DEF Snapshot, EmitterTo
    <2>3. ~Emit(e) /\ ~Deliver(e) /\ ~Put(e)
      BY <2>2 DEF Emit, Deliver, Put
    <2>4. "deliver" \in {"deliver", "put"}
      OBVIOUS
    <2>5. /\ emitter' \in [Emitters -> EmitterState] /\ \A f \in Emitters \ {e} : emitter'[f] = emitter[f]
          /\ emitter'[e].n = emitter[e].n /\ emitter'[e].left = left /\ emitter'[e].at # "snapshot"
          /\ Delivers(e)' <=> emitter'[e].left # <<>>
      BY <1>2, <2>2, <2>4
    <2> QED  BY <2>1, <2>2, <2>3, <2>5
  <1>4. CASE Deliver(e) \/ Put(e)
    <2>1. Delivers(e) /\ ~Emit(e) /\ ~Snapshot(e)
      BY <1>4 DEF Deliver, Put, Delivers, Emit, Snapshot
    <2>2. \E at \in {"deliver", "put"}, left \in {emitter[e].left, Tail(emitter[e].left)} :
            /\ EmitterTo(e, at, left) /\ (Put(e) => left = Tail(emitter[e].left))
            /\ Deliver(e) => \/ left = emitter[e].left /\ UNCHANGED <<refused, dropped>>
                             \/ left = Tail(emitter[e].left) /\ Refuse(e)
      <3>1. Deliver(e) => ~Put(e)
        BY DEF Deliver, Put
      <3> QED  BY <1>4, <3>1 DEF Deliver, Put, Refuse
    <2>3. PICK at \in {"deliver", "put"}, left \in {emitter[e].left, Tail(emitter[e].left)} :
            /\ EmitterTo(e, at, left) /\ (Put(e) => left = Tail(emitter[e].left))
            /\ Deliver(e) => \/ left = emitter[e].left /\ UNCHANGED <<refused, dropped>>
                             \/ left = Tail(emitter[e].left) /\ Refuse(e)
      BY <2>2
    <2>4. left \in Seq(Subs)
      BY <1>0, <2>1
    <2>5. /\ emitter' \in [Emitters -> EmitterState] /\ \A f \in Emitters \ {e} : emitter'[f] = emitter[f]
          /\ emitter'[e].n = emitter[e].n /\ emitter'[e].left = left /\ emitter'[e].at # "snapshot"
          /\ Delivers(e)' <=> emitter'[e].left # <<>>
      BY <1>2, <2>3, <2>4
    <2> QED  BY <2>1, <2>3, <2>5
  <1> QED  BY <1>1, <1>3, <1>4 DEF EmitterSteps

(* What a step of close() or clear() does to its thread.                          *)
EnderSteps(t) ==
  \/ t \in Subs /\ (Close(t) \/ Unsubscribe(t))
  \/ t = Clearer /\ Clear
  \/ SendPill(t) \/ MakeRoom(t) \/ SendAgain(t) \/ End(t)
Tells(t) == ender[t].at \in {"pill", "room", "again"}

LEMMA EnderType ==
  ASSUME TypeOK, NEW t \in Enders
  PROVE  /\ ender[t] \in EnderState /\ ender[t].left \in Seq(Subs)
         /\ ender[t].left = <<>> \/ Tells(t)
         /\ Tells(t) => /\ Told(t) \in Subs /\ Told(t) \in Range(ender[t].left) /\ ender[t].left # <<>>
                        /\ Tail(ender[t].left) \in Seq(Subs)
                        /\ Tail(ender[t].left) = <<>> <=> Len(ender[t].left) = 1
                        /\ Range(ender[t].left) = {Told(t)} \cup Range(Tail(ender[t].left))
  <1>1. ender[t] \in EnderState /\ ender[t].left \in Seq(Subs)
    BY DEF TypeOK, TypeInv, PlaceInv, EnderState
  <1>2. Tells(t) <=> ender[t].left # <<>>
    BY DEF TypeOK, TypeInv, PlaceInv, Tells
  <1>3. ASSUME ender[t].left # <<>>
        PROVE  /\ Told(t) \in Subs /\ Told(t) \in Range(ender[t].left) /\ Tail(ender[t].left) \in Seq(Subs)
               /\ Tail(ender[t].left) = <<>> <=> Len(ender[t].left) = 1
               /\ Range(ender[t].left) = {Told(t)} \cup Range(Tail(ender[t].left))
    <2> DEFINE q == ender[t].left
    <2>1. /\ q \in Seq(Subs) /\ Tail(q) \in Seq(Subs) /\ Len(q) \in Nat \ {0} /\ Len(Tail(q)) = Len(q) - 1
          /\ Head(q) \in Subs /\ Head(q) \in Range(q) /\ Range(q) = {Head(q)} \cup Range(Tail(q))
      BY <1>1, <1>3, TailFacts
    <2> HIDE DEF q
    <2>2. Tail(q) = <<>> => Len(q) = 1
      <3>1. Tail(q) = <<>> => Len(Tail(q)) = 0
        BY EmptyFacts, Zenon
      <3> QED  BY <2>1, <3>1
    <2>3. Len(q) = 1 => Tail(q) = <<>>
      <3>1. Len(q) = 1 => Len(Tail(q)) = 0
        BY <2>1
      <3> QED  BY <2>1, <3>1, EmptySeq
    <2> QED  BY <2>1, <2>2, <2>3 DEF Told, q
  <1> QED  BY <1>1, <1>2, <1>3

EnderMovesTo(t, at, left) ==
  \/ ender' = [ender EXCEPT ![t] = [at |-> at, left |-> left]]
  \/ ender' = [ender EXCEPT ![t].left = left, ![t].at = at]
  \/ ender' = [ender EXCEPT ![t].at = at] /\ ender[t].left = left

LEMMA EnderMoves ==
  ASSUME TypeOK, NEW t \in Enders, NEW at \in {"idle", "remove", "pill", "room", "again", "last", "done"},
         NEW left \in Seq(Subs), EnderMovesTo(t, at, left)
  PROVE  /\ ender' \in [Enders -> EnderState] /\ \A u \in Enders \ {t} : ender'[u] = ender[u]
         /\ ender'[t].at = at /\ ender'[t].left = left
  <1>1. PICK r \in EnderState : r = ender[t]
    BY DEF TypeOK, TypeInv, PlaceInv
  <1>2. [at |-> at, left |-> left] \in EnderState /\ ender \in [Enders -> EnderState]
    BY DEF EnderState, TypeOK, TypeInv, PlaceInv
  <1>3. PICK x : x = [r EXCEPT !.left = left, !.at = at]
    OBVIOUS
  <1>4. PICK y : y = [r EXCEPT !.at = at]
    OBVIOUS
  <1>5. x = [at |-> at, left |-> left]
    BY <1>3 DEF EnderState
  <1>6. y = [at |-> at, left |-> r.left]
    BY <1>4 DEF EnderState
  <1>7. \/ ender' = [ender EXCEPT ![t] = [at |-> at, left |-> left]] \/ ender' = [ender EXCEPT ![t] = x]
        \/ (ender' = [ender EXCEPT ![t] = y] /\ r.left = left)
    <2>1. ender' = [ender EXCEPT ![t].left = left, ![t].at = at] => ender' = [ender EXCEPT ![t] = x]
      BY <1>1, <1>2, <1>3
    <2>2. ender' = [ender EXCEPT ![t].at = at] => ender' = [ender EXCEPT ![t] = y]
      BY <1>1, <1>2, <1>4
    <2> QED  BY <1>1, <2>1, <2>2 DEF EnderMovesTo
  <1>8. ender' = [ender EXCEPT ![t] = [at |-> at, left |-> left]]
    BY <1>5, <1>6, <1>7
  <1> QED  BY <1>2, <1>8

(* The steps of EnderTo and NextToTell.                                         *)
LEMMA EnderGoes ==
  ASSUME TypeOK, NEW t \in Enders, NEW at \in {"idle", "remove", "pill", "room", "again", "last", "done"}, EnderTo(t, at)
  PROVE  /\ ender' \in [Enders -> EnderState] /\ \A u \in Enders \ {t} : ender'[u] = ender[u]
         /\ ender'[t].at = at /\ ender'[t].left = ender[t].left
  <1>1. PICK left \in Seq(Subs) : left = ender[t].left
    BY EnderType
  <1>2. ender' = [ender EXCEPT ![t].at = at] /\ ender[t].left = left
    BY <1>1 DEF EnderTo
  <1>3. /\ ender' \in [Enders -> EnderState] /\ \A u \in Enders \ {t} : ender'[u] = ender[u]
        /\ ender'[t].at = at /\ ender'[t].left = left
    <2>1. EnderMovesTo(t, at, left)
      BY <1>2 DEF EnderMovesTo
    <2> QED  BY <2>1, EnderMoves
  <1> QED  BY <1>1, <1>3

LEMMA EnderNext ==
  ASSUME TypeOK, NEW t \in Enders, Tells(t), NextToTell(t)
  PROVE  /\ ender' \in [Enders -> EnderState] /\ \A u \in Enders \ {t} : ender'[u] = ender[u]
         /\ ender'[t].at = (IF Tail(ender[t].left) = <<>> THEN "last" ELSE "pill") /\ ender'[t].left = Tail(ender[t].left)
  <1>1. PICK left \in Seq(Subs) : left = Tail(ender[t].left)
    BY EnderType
  <1>2. PICK at \in {"last", "pill"} : at = IF Tail(ender[t].left) = <<>> THEN "last" ELSE "pill"
    OBVIOUS
  <1>3. ender' = [ender EXCEPT ![t].left = Tail(@), ![t].at = at]
    BY <1>2, EnderType DEF NextToTell
  <1>4. ender' = [ender EXCEPT ![t].left = left, ![t].at = at]
    BY <1>1, <1>3
  <1>5. at \in {"idle", "remove", "pill", "room", "again", "last", "done"}
    BY <1>2
  <1>6. /\ ender' \in [Enders -> EnderState] /\ \A u \in Enders \ {t} : ender'[u] = ender[u]
        /\ ender'[t].at = at /\ ender'[t].left = left
    <2>1. EnderMovesTo(t, at, left)
      BY <1>4 DEF EnderMovesTo
    <2> QED  BY <1>5, <2>1, EnderMoves
  <1> QED  BY <1>1, <1>2, <1>6

(* Where a step of close() or clear() leads, and whom its thread still has to tell then.  *)
Leads(t, at, left) ==
  /\ ender' \in [Enders -> EnderState] /\ \A u \in Enders \ {t} : ender'[u] = ender[u]
  /\ ender'[t].at = at /\ ender'[t].left = left
  /\ at \in {"pill", "room", "again"} <=> left # <<>>

LEMMA EnderDeeds ==
  ASSUME TypeOK, NEW t \in Enders
  PROVE  /\ t \in Subs /\ Close(t) => Leads(t, "remove", <<>>)
         /\ t \in Subs /\ Unsubscribe(t) =>
              \/ t \in Range(subscribers) /\ Leads(t, "pill", <<t>>)
              \/ t \notin Range(subscribers) /\ Leads(t, "done", <<>>)
         /\ t = Clearer /\ Clear =>
              ender[t].left = <<>> /\ Leads(t, IF subscribers = <<>> THEN "last" ELSE "pill", subscribers)
         /\ SendPill(t) => \/ queue' = queue /\ Leads(t, "room", ender[t].left)
                           \/ /\ queue' = [queue EXCEPT ![Told(t)] = Append(@, Pill)]
                              /\ Leads(t, IF Tail(ender[t].left) = <<>> THEN "last" ELSE "pill", Tail(ender[t].left))
         /\ MakeRoom(t) => \/ /\ queue' = queue /\ Told(t) \in untold'
                              /\ Leads(t, IF Tail(ender[t].left) = <<>> THEN "last" ELSE "pill", Tail(ender[t].left))
                           \/ /\ queue[Told(t)] # <<>> /\ queue' = [queue EXCEPT ![Told(t)] = Tail(@)]
                              /\ Leads(t, "again", ender[t].left)
         /\ SendAgain(t) => \/ queue' = queue /\ Range(ender[t].left) \subseteq untold' /\ Leads(t, "done", <<>>)
                            \/ /\ queue' = [queue EXCEPT ![Told(t)] = Append(@, Pill)]
                               /\ Leads(t, IF Tail(ender[t].left) = <<>> THEN "last" ELSE "pill", Tail(ender[t].left))
         /\ End(t) => Leads(t, "done", <<>>)
  <1>1. ASSUME NEW s \in Subs, s = t, Close(s) PROVE Leads(t, "remove", <<>>)
    <2>1. EnderTo(t, "remove") /\ ender[t].at = "idle"
      BY <1>1 DEF Close
    <2> QED  BY <2>1, EnderGoes, EnderType DEF Leads, Tells
  <1>2. ASSUME t \in Subs, Unsubscribe(t)
        PROVE  \/ t \in Range(subscribers) /\ Leads(t, "pill", <<t>>)
               \/ t \notin Range(subscribers) /\ Leads(t, "done", <<>>)
    <2>1. <<t>> \in Seq(Subs) /\ <<t>> # <<>> /\ <<>> \in Seq(Subs)
      BY <1>2
    <2>2. \/ t \in Range(subscribers) /\ ender' = [ender EXCEPT ![t] = [at |-> "pill", left |-> <<t>>]]
          \/ t \notin Range(subscribers) /\ ender' = [ender EXCEPT ![t] = [at |-> "done", left |-> <<>>]]
      BY <1>2 DEF Unsubscribe, Range
    <2>3. CASE t \in Range(subscribers) /\ ender' = [ender EXCEPT ![t] = [at |-> "pill", left |-> <<t>>]]
      <3>1. Leads(t, "pill", <<t>>)
        BY <2>1, <2>3 DEF TypeOK, TypeInv, PlaceInv, Leads, EnderState
      <3> QED  BY <2>3, <3>1
    <2>4. CASE t \notin Range(subscribers) /\ ender' = [ender EXCEPT ![t] = [at |-> "done", left |-> <<>>]]
      <3>1. Leads(t, "done", <<>>)
        BY <2>1, <2>4 DEF TypeOK, TypeInv, PlaceInv, Leads, EnderState
      <3> QED  BY <2>4, <3>1
    <2> QED  BY <2>2, <2>3, <2>4
  <1>3. ASSUME t = Clearer, Clear
        PROVE  ender[t].left = <<>> /\ Leads(t, IF subscribers = <<>> THEN "last" ELSE "pill", subscribers)
    <2>1. ender[t].left = <<>>
      BY <1>3, EnderType DEF Clear, Tells
    <2>2. ender' = [ender EXCEPT ![t] = [at |-> IF subscribers = <<>> THEN "last" ELSE "pill", left |-> subscribers]]
      BY <1>3 DEF Clear
    <2> QED  BY <2>1, <2>2 DEF TypeOK, TypeInv, PlaceInv, Leads, EnderState
  <1>4. ASSUME Tells(t), NextToTell(t)
        PROVE  Leads(t, IF Tail(ender[t].left) = <<>> THEN "last" ELSE "pill", Tail(ender[t].left))
    BY <1>4, EnderNext DEF Leads
  <1>5. ASSUME Tells(t), NEW at \in {"room", "again"}, EnderTo(t, at)
        PROVE  Leads(t, at, ender[t].left)
    BY <1>5, EnderGoes, EnderType DEF Leads
  <1>6. ASSUME SendPill(t)
        PROVE  \/ queue' = queue /\ Leads(t, "room", ender[t].left)
               \/ /\ queue' = [queue EXCEPT ![Told(t)] = Append(@, Pill)]
                  /\ Leads(t, IF Tail(ender[t].left) = <<>> THEN "last" ELSE "pill", Tail(ender[t].left))
    BY <1>4, <1>5, <1>6 DEF SendPill, Tells
  <1>7. ASSUME MakeRoom(t)
        PROVE  \/ /\ queue' = queue /\ Told(t) \in untold'
                  /\ Leads(t, IF Tail(ender[t].left) = <<>> THEN "last" ELSE "pill", Tail(ender[t].left))
               \/ /\ queue[Told(t)] # <<>> /\ queue' = [queue EXCEPT ![Told(t)] = Tail(@)]
                  /\ Leads(t, "again", ender[t].left)
    BY <1>4, <1>5, <1>7 DEF MakeRoom, Tells
  <1>8. ASSUME SendAgain(t)
        PROVE  \/ queue' = queue /\ Range(ender[t].left) \subseteq untold' /\ Leads(t, "done", <<>>)
               \/ /\ queue' = [queue EXCEPT ![Told(t)] = Append(@, Pill)]
                  /\ Leads(t, IF Tail(ender[t].left) = <<>> THEN "last" ELSE "pill", Tail(ender[t].left))
    <2>1. CASE ender' = [ender EXCEPT ![t] = [at |-> "done", left |-> <<>>]]
      <3>1. Leads(t, "done", <<>>)
        BY <2>1 DEF TypeOK, TypeInv, PlaceInv, Leads, EnderState
      <3> QED  BY <1>4, <1>8, <3>1 DEF SendAgain, Tells
    <2> QED  BY <1>4, <1>8, <2>1 DEF SendAgain, Tells
  <1>9. ASSUME End(t) PROVE Leads(t, "done", <<>>)
    <2>1. EnderTo(t, "done") /\ ender[t].at = "last"
      BY <1>9 DEF End
    <2> QED  BY <2>1, EnderGoes, EnderType DEF Leads, Tells
  <1> QED  BY <1>1, <1>2, <1>3, <1>6, <1>7, <1>8, <1>9

-----------------------------------------------------------------------------
LEMMA EmitterTypeStep ==
  ASSUME TypeOK, NEW e \in Emitters, EmitterSteps(e)
  PROVE  TypeOK'
  <1>1. /\ emitter' \in [Emitters -> EmitterState] /\ \A f \in Emitters \ {e} : emitter'[f] = emitter[f]
        /\ Delivers(e)' <=> emitter'[e].left # <<>>
    BY EmitterDeeds
  <1>2. emitter'[e].at # "idle" => emitter'[e].n # 0
    <2>1. CASE Emit(e)
      <3>1. emitter'[e].n = emitter[e].n + 1
        BY <2>1, EmitterDeeds
      <3> QED  BY <3>1, EmitterType
    <2>2. CASE ~Emit(e)
      <3>1. emitter'[e].n = emitter[e].n /\ emitter[e].at # "idle"
        BY <2>2, EmitterDeeds DEF EmitterSteps, Snapshot, Deliver, Put
      <3> QED  BY <3>1 DEF TypeOK, TypeInv, PlaceInv
    <2> QED  BY <2>1, <2>2
  <1>3. \A f \in Emitters : /\ emitter'[f].at \in {"deliver", "put"} <=> emitter'[f].left # <<>>
                            /\ emitter'[f].at # "idle" => emitter'[f].n # 0
    <2> SUFFICES ASSUME NEW f \in Emitters
                 PROVE  /\ emitter'[f].at \in {"deliver", "put"} <=> emitter'[f].left # <<>>
                        /\ emitter'[f].at # "idle" => emitter'[f].n # 0
      OBVIOUS
    <2>1. CASE f = e
      BY <1>1, <1>2, <2>1 DEF Delivers
    <2>2. CASE f # e
      BY <1>1, <2>2 DEF TypeOK, TypeInv, PlaceInv
    <2> QED  BY <2>1, <2>2
  <1>4. /\ UNCHANGED <<subscribers, got, evicted, past, closed, ender, born, joined>>
    BY DEF EmitterSteps, Emit, Snapshot, Deliver, Put, bus, ends, fates
  <1>5. queue' \in [Subs -> Seq(Event)] /\ refused' \subseteq Subs \X Event
    <2>1. Delivers(e) => /\ Served(e) \in Subs /\ EventOf(e) \in Event
                         /\ Append(queue[Served(e)], EventOf(e)) \in Seq(Event)
                         /\ <<Served(e), EventOf(e)>> \in Subs \X Event
      <3>1. Delivers(e) => Served(e) \in Subs /\ EventOf(e) \in Event
        BY EmitterType
      <3> QED  BY <3>1, AppendFacts DEF TypeOK, TypeInv, PlaceInv
    <2>2. queue' = queue \/ (Delivers(e) /\ queue' = [queue EXCEPT ![Served(e)] = Append(@, EventOf(e))])
      BY DEF EmitterSteps, Emit, Snapshot, Deliver, Put, Delivers
    <2>3. refused' = refused \/ (Delivers(e) /\ refused' = refused \cup {<<Served(e), EventOf(e)>>})
      BY DEF EmitterSteps, Emit, Snapshot, Deliver, Put, Refuse, Delivers, fates
    <2>4. queue' \in [Subs -> Seq(Event)]
      BY <2>1, <2>2 DEF TypeOK, TypeInv, PlaceInv
    <2>5. refused' \subseteq Subs \X Event
      BY <2>1, <2>3 DEF TypeOK, TypeInv, PlaceInv
    <2> QED  BY <2>4, <2>5
  <1>6. ring' \in Seq(Event) /\ forgotten' \subseteq Event
    <2>1. CASE Emit(e)
      <3> DEFINE room == IF Len(ring) = RingSize THEN Tail(ring) ELSE ring
      <3>1. ring \in Seq(Event) /\ EventOf(e)' \in Event /\ forgotten \subseteq Event
        <4>1. emitter'[e].n \in Nat
          BY <2>1, EmitterDeeds, EmitterType
        <4> QED  BY <4>1 DEF TypeOK, TypeInv, PlaceInv, EventOf, Event
      <3>2. CASE Len(ring) = RingSize
        <4>1. ring # <<>>
          BY <3>2, EventBusAssumption
        <4>2. Tail(ring) \in Seq(Event) /\ Head(ring) \in Event
          BY <3>1, <4>1, TailFacts
        <4>3. ring' = Append(Tail(ring), EventOf(e)') /\ forgotten' = forgotten \cup {Head(ring)}
          BY <2>1, <3>2 DEF Emit
        <4> QED  BY <3>1, <4>2, <4>3
      <3>3. CASE Len(ring) # RingSize
        <4>1. ring' = Append(ring, EventOf(e)') /\ forgotten' = forgotten \cup {}
          BY <2>1, <3>3 DEF Emit
        <4> QED  BY <3>1, <4>1
      <3> QED  BY <3>2, <3>3
    <2>2. CASE ~Emit(e)
      BY <2>2 DEF EmitterSteps, Snapshot, Deliver, Put, bus, TypeOK, TypeInv, PlaceInv
    <2> QED  BY <2>1, <2>2
  <1>7. joined' \subseteq born' /\ born' \subseteq Subs /\ subscribers' \in Seq(Subs)
    BY <1>4 DEF TypeOK, TypeInv, PlaceInv
  <1>8. /\ got' \in [Subs -> Seq(Event)] /\ evicted' \in [Subs -> SUBSET Event] /\ past' \in [Subs -> SUBSET Event]
        /\ closed' \in [Subs -> BOOLEAN] /\ ender' \in [Enders -> EnderState]
        /\ \A t \in Enders : ender'[t].at \in {"pill", "room", "again"} <=> ender'[t].left # <<>>
    BY <1>4 DEF TypeOK, TypeInv, PlaceInv
  <1>9. TypeInv'
    BY <1>1, <1>5, <1>6, <1>7, <1>8 DEF TypeInv
  <1>10. PlaceInv'
    BY <1>3, <1>8 DEF PlaceInv
  <1> QED  BY <1>9, <1>10 DEF TypeOK

LEMMA EnderTypeStep ==
  ASSUME TypeOK, NEW t \in Enders, EnderSteps(t)
  PROVE  TypeOK'
  <1>1. \E at, left : Leads(t, at, left)
    BY EnderDeeds DEF EnderSteps
  <1>2. \A u \in Enders : ender'[u].at \in {"pill", "room", "again"} <=> ender'[u].left # <<>>
    BY <1>1 DEF Leads, TypeOK, TypeInv, PlaceInv
  <1>3. ender' \in [Enders -> EnderState]
    BY <1>1 DEF Leads
  <1>4. UNCHANGED <<emitter, got, refused, past, born, joined>>
    BY DEF EnderSteps, Close, Unsubscribe, Clear, SendPill, MakeRoom, SendAgain, End, bus, fates
  <1>5. queue' \in [Subs -> Seq(Event)]
    <2>1. Pill \in Event
      BY DEF Pill, Event
    <2>2. \/ queue' = queue
          \/ (Tells(t) /\ queue' = [queue EXCEPT ![Told(t)] = Append(@, Pill)])
          \/ (Tells(t) /\ queue[Told(t)] # <<>> /\ queue' = [queue EXCEPT ![Told(t)] = Tail(@)])
      BY DEF EnderSteps, Close, Unsubscribe, Clear, SendPill, MakeRoom, SendAgain, End, Tells
    <2>3. Tells(t) => Told(t) \in Subs
      BY EnderType
    <2>4. \A s \in Subs : /\ Append(queue[s], Pill) \in Seq(Event)
                          /\ queue[s] # <<>> => Tail(queue[s]) \in Seq(Event)
      BY <2>1, AppendFacts, TailFacts DEF TypeOK, TypeInv, PlaceInv
    <2>5. queue \in [Subs -> Seq(Event)]
      BY DEF TypeOK, TypeInv, PlaceInv
    <2> QED  BY <2>2, <2>3, <2>4, <2>5
  <1>6. closed' \in [Subs -> BOOLEAN]
    BY DEF EnderSteps, Close, Unsubscribe, Clear, SendPill, MakeRoom, SendAgain, End, TypeOK, TypeInv, PlaceInv
  <1>7. subscribers' \in Seq(Subs)
    <2>1. CASE t \in Subs /\ Unsubscribe(t)
      <3>1. subscribers' = subscribers \/ \E i \in 1 .. Len(subscribers) : subscribers' = RemoveAt(subscribers, i)
        BY <2>1 DEF Unsubscribe, TypeOK, TypeInv, PlaceInv
      <3> QED  BY <3>1, RemoveFacts DEF TypeOK, TypeInv, PlaceInv
    <2>2. CASE Clear
      BY <2>2 DEF Clear
    <2>3. CASE ~(t \in Subs /\ Unsubscribe(t)) /\ ~Clear
      BY <2>3 DEF EnderSteps, Close, SendPill, MakeRoom, SendAgain, End, bus, TypeOK, TypeInv, PlaceInv
    <2> QED  BY <2>1, <2>2, <2>3
  <1>8. evicted' \in [Subs -> SUBSET Event]
    <2>1. CASE MakeRoom(t) /\ queue[Told(t)] # <<>>
      <3>1. Told(t) \in Subs
        BY <2>1, EnderType DEF MakeRoom, Tells
      <3>2. Head(queue[Told(t)]) \in Event
        BY <2>1, <3>1, TailFacts DEF TypeOK, TypeInv, PlaceInv
      <3>3. evicted' = [evicted EXCEPT ![Told(t)] = @ \cup {Head(queue[Told(t)])}]
        BY <2>1 DEF MakeRoom
      <3> QED  BY <3>1, <3>2, <3>3 DEF TypeOK, TypeInv, PlaceInv
    <2>2. CASE ~(MakeRoom(t) /\ queue[Told(t)] # <<>>)
      BY <2>2 DEF EnderSteps, Close, Unsubscribe, Clear, SendPill, MakeRoom, SendAgain, End, fates, TypeOK, TypeInv, PlaceInv
    <2> QED  BY <2>1, <2>2
  <1>9. ring' \in Seq(Event) /\ forgotten' \subseteq Event
    <2>1. Range(ring) \subseteq Event
      BY DEF TypeOK, TypeInv, PlaceInv, Range
    <2>2. /\ ring' = ring \/ ring' = <<>>
          /\ forgotten' = forgotten \/ forgotten' = forgotten \cup Range(ring)
      BY DEF EnderSteps, Close, Unsubscribe, Clear, SendPill, MakeRoom, SendAgain, End, bus
    <2>3. ring \in Seq(Event) /\ <<>> \in Seq(Event) /\ forgotten \subseteq Event
      BY DEF TypeOK, TypeInv, PlaceInv
    <2> QED  BY <2>1, <2>2, <2>3
  <1>10. TypeOK => born' \subseteq Subs /\ joined' \subseteq born'
    BY <1>4 DEF TypeOK, TypeInv, PlaceInv
  <1> QED  BY <1>2, <1>3, <1>4, <1>5, <1>6, <1>7, <1>8, <1>9, <1>10 DEF TypeOK, TypeInv, PlaceInv

(* The steps of a subscription's own thread, other than close().                  *)
SubSteps(s) == Subscribe(s) \/ GetRecent(s) \/ Take(s)

LEMMA SubTypeStep ==
  ASSUME TypeOK, NEW s \in Subs, SubSteps(s)
  PROVE  TypeOK'
  <1>1. UNCHANGED <<ring, forgotten, emitter, ender, refused, evicted>>
    BY DEF SubSteps, Subscribe, GetRecent, Take, bus, ends, fates
  <1>2. subscribers' \in Seq(Subs)
    <2>1. subscribers' = subscribers \/ subscribers' = Append(subscribers, s)
      BY DEF SubSteps, Subscribe, GetRecent, Take, bus
    <2>2. subscribers \in Seq(Subs)
      BY DEF TypeOK, TypeInv, PlaceInv
    <2> QED  BY <2>1, <2>2, AppendFacts
  <1>3. queue' \in [Subs -> Seq(Event)] /\ got' \in [Subs -> Seq(Event)]
    <2>1. CASE Take(s)
      <3>1. Tail(queue[s]) \in Seq(Event) /\ Head(queue[s]) \in Event
        BY <2>1, TailFacts DEF Take, TypeOK, TypeInv, PlaceInv
      <3>2. queue' = [queue EXCEPT ![s] = Tail(@)] /\ (got' = got \/ got' = [got EXCEPT ![s] = Append(@, Head(queue[s]))])
        BY <2>1 DEF Take
      <3>3. Append(got[s], Head(queue[s])) \in Seq(Event)
        BY <3>1, AppendFacts DEF TypeOK, TypeInv, PlaceInv
      <3>4. queue \in [Subs -> Seq(Event)] /\ got \in [Subs -> Seq(Event)]
        BY DEF TypeOK, TypeInv, PlaceInv
      <3> QED  BY <3>1, <3>2, <3>3, <3>4
    <2>2. CASE ~Take(s)
      BY <2>2 DEF SubSteps, Subscribe, GetRecent, fates, TypeOK, TypeInv, PlaceInv
    <2> QED  BY <2>1, <2>2
  <1>4. past' \in [Subs -> SUBSET Event]
    <2>1. Range(ring) \subseteq Event /\ forgotten \subseteq Event
      BY DEF TypeOK, TypeInv, PlaceInv, Range
    <2> QED  BY <2>1 DEF SubSteps, Subscribe, GetRecent, Take, TypeOK, TypeInv, PlaceInv
  <1>5. closed' \in [Subs -> BOOLEAN]
    BY DEF SubSteps, Subscribe, GetRecent, Take, TypeOK, TypeInv, PlaceInv
  <1>6. born' \subseteq Subs /\ joined' \subseteq born'
    BY DEF SubSteps, Subscribe, GetRecent, Take, TypeOK, TypeInv, PlaceInv
  <1> QED  BY <1>1, <1>2, <1>3, <1>4, <1>5, <1>6 DEF TypeOK, TypeInv, PlaceInv

LEMMA StepKinds ==
  ASSUME [Next]_vars
  PROVE  \/ \E e \in Emitters : EmitterSteps(e)
         \/ \E s \in Subs : SubSteps(s)
         \/ \E t \in Enders : EnderSteps(t)
         \/ UNCHANGED vars
  BY DEF Next, EmitterSteps, SubSteps, EnderSteps, Enders

LEMMA TypeStep == TypeOK /\ [Next]_vars => TypeOK'
  <1> SUFFICES ASSUME TypeOK, [Next]_vars PROVE TypeOK'
    OBVIOUS
  <1>1. CASE UNCHANGED vars
    BY <1>1 DEF vars, bus, ends, fates, TypeOK, TypeInv, PlaceInv
  <1> QED  BY <1>1, StepKinds, EmitterTypeStep, SubTypeStep, EnderTypeStep

-----------------------------------------------------------------------------
(* What a put and a take do to a queue.                                         *)
LEMMA QueueGrows ==
  ASSUME TypeOK, NEW s \in Subs, NEW x \in Event, queue' = [queue EXCEPT ![s] = Append(@, x)]
  PROVE  /\ queue'[s] = Append(queue[s], x) /\ Range(queue'[s]) = Range(queue[s]) \cup {x}
         /\ \A r \in Subs \ {s} : queue'[r] = queue[r]
  <1>1. queue'[s] = Append(queue[s], x) /\ \A r \in Subs \ {s} : queue'[r] = queue[r]
    BY DEF TypeOK, TypeInv
  <1>2. queue[s] \in Seq(Event)
    BY DEF TypeOK, TypeInv
  <1> QED  BY <1>1, <1>2, AppendFacts

LEMMA QueueShrinks ==
  ASSUME TypeOK, NEW s \in Subs, queue[s] # <<>>, queue' = [queue EXCEPT ![s] = Tail(@)]
  PROVE  /\ queue'[s] = Tail(queue[s]) /\ Range(queue[s]) = {Head(queue[s])} \cup Range(queue'[s])
         /\ Head(queue[s]) \in Event
         /\ \A r \in Subs \ {s} : queue'[r] = queue[r]
  <1>1. queue'[s] = Tail(queue[s]) /\ \A r \in Subs \ {s} : queue'[r] = queue[r]
    BY DEF TypeOK, TypeInv
  <1>2. queue[s] \in Seq(Event)
    BY DEF TypeOK, TypeInv
  <1> QED  BY <1>1, <1>2, TailFacts

TellInv == Listed /\ TellOnce /\ PillLast /\ EndIsTold

(* A step that touches neither the list nor an ender: no None comes into a queue, and    *)
(* one that leaves a queue closes the subscription.                               *)
LEMMA TellQuiet ==
  ASSUME TypeOK, TellInv, UNCHANGED <<subscribers, ender, born, untold>>,
         \A s \in Subs : /\ Pill \in Range(queue'[s]) => Pill \in Range(queue[s])
                         /\ Pill \in Range(queue[s]) => Pill \in Range(queue'[s]) \/ closed'[s]
                         /\ closed[s] => closed'[s]
                         /\ closed'[s] => closed[s] \/ Pill \in Range(queue[s])
  PROVE  TellInv'
  <1>1. Listed'
    BY DEF TellInv, Listed
  <1>2. PillLast'
    BY DEF TellInv, PillLast
  <1>3. \A t \in Enders : Range(ender[t].left) \subseteq Subs
    BY EnderType DEF Range
  <1>4. TellOnce'
    BY <1>3 DEF TellInv, TellOnce
  <1>5. EndIsTold'
    BY DEF TellInv, EndIsTold, PillLast, TypeOK, TypeInv
  <1> QED  BY <1>1, <1>2, <1>4, <1>5 DEF TellInv

LEMMA TellEmitter ==
  ASSUME TypeOK, TellInv, NEW e \in Emitters, EmitterSteps(e)
  PROVE  TellInv'
  <1>1. UNCHANGED <<subscribers, ender, born, untold, closed>>
    BY DEF EmitterSteps, Emit, Snapshot, Deliver, Put, bus, ends
  <1>2. CASE queue' = queue
    BY <1>1, <1>2, TellQuiet
  <1>3. CASE queue' # queue
    <2>1. Put(e) /\ queue' = [queue EXCEPT ![Served(e)] = Append(@, EventOf(e))]
      BY <1>3 DEF EmitterSteps, Emit, Snapshot, Deliver, Put
    <2>2. PICK s \in Subs : s = Served(e)
      BY <2>1, EmitterType DEF Put, Delivers
    <2>3. PICK x \in Event : x = EventOf(e)
      BY EmitterType
    <2>4. x # Pill
      <3>1. emitter[e].n # 0
        BY <2>1 DEF Put, TypeOK, PlaceInv
      <3> QED  BY <2>3, <3>1 DEF EventOf, Pill
    <2>5. /\ Range(queue'[s]) = Range(queue[s]) \cup {x}
          /\ \A r \in Subs \ {s} : queue'[r] = queue[r]
      BY <2>1, <2>2, <2>3, QueueGrows
    <2>6. \A r \in Subs : Pill \in Range(queue'[r]) <=> Pill \in Range(queue[r])
      BY <2>4, <2>5
    <2> QED  BY <1>1, <2>6, TellQuiet
  <1> QED  BY <1>2, <1>3

LEMMA TellSub ==
  ASSUME TypeOK, TellInv, NEW s \in Subs, SubSteps(s)
  PROVE  TellInv'
  <1>1. CASE GetRecent(s)
    <2>1. UNCHANGED <<subscribers, ender, born, untold, closed, queue>>
      BY <1>1 DEF GetRecent, bus, ends
    <2> QED  BY <2>1, TellQuiet
  <1>2. CASE Take(s)
    <2>1. /\ UNCHANGED <<subscribers, ender, born, untold>> /\ queue[s] # <<>>
          /\ queue' = [queue EXCEPT ![s] = Tail(@)]
      BY <1>2 DEF Take, bus, ends
    <2>2. /\ Range(queue[s]) = {Head(queue[s])} \cup Range(queue'[s])
          /\ \A r \in Subs \ {s} : queue'[r] = queue[r]
      BY <2>1, QueueShrinks
    <2>3. /\ \A r \in Subs \ {s} : closed'[r] = closed[r]
          /\ Head(queue[s]) = Pill => closed'[s] = TRUE
          /\ Head(queue[s]) # Pill => closed'[s] = closed[s]
      BY <1>2 DEF Take, TypeOK, TypeInv
    <2>4. \A r \in Subs : /\ Pill \in Range(queue'[r]) => Pill \in Range(queue[r])
                          /\ Pill \in Range(queue[r]) => Pill \in Range(queue'[r]) \/ closed'[r]
                          /\ closed[r] => closed'[r]
                          /\ closed'[r] => closed[r] \/ Pill \in Range(queue[r])
      BY <2>2, <2>3
    <2> QED  BY <2>1, <2>4, TellQuiet
  <1>3. CASE Subscribe(s)
    <2>1. /\ s \notin born /\ born' = born \cup {s} /\ UNCHANGED <<ender, queue, closed, untold>>
          /\ subscribers' = Append(subscribers, s) /\ subscribers \in Seq(Subs)
      BY <1>3 DEF Subscribe, ends, TypeOK, TypeInv
    <2>2. Range(subscribers') = Range(subscribers) \cup {s}
      BY <2>1, AppendFacts
    <2>3. s \notin Range(subscribers)
      BY <2>1 DEF TellInv, Listed
    <2>4. Listed'
      BY <2>1, <2>2, <2>3, DistinctAppend DEF TellInv, Listed
    <2>5. PillLast'
      BY <2>1, <2>2 DEF TellInv, PillLast
    <2>6. TellOnce'
      BY <2>1, <2>2 DEF TellInv, TellOnce
    <2>7. ~closed[s]
      BY <2>1 DEF TellInv, PillLast
    <2>8. EndIsTold'
      BY <2>1, <2>2, <2>7 DEF TellInv, EndIsTold
    <2> QED  BY <2>4, <2>5, <2>6, <2>8 DEF TellInv
  <1> QED  BY <1>1, <1>2, <1>3 DEF SubSteps

(* The steps of close() and clear(), by what they do to the list and to the queue of the  *)
(* subscription in hand.                                                       *)
LEMMA TellLists ==
  ASSUME TypeOK, TellInv, NEW t \in Enders, UNCHANGED <<queue, born, closed, untold>>,
         \/ t \in Subs /\ Unsubscribe(t)
         \/ t = Clearer /\ Clear
  PROVE  TellInv'
  <1> DEFINE now == Range(ender'[t].left)
  <1>1. /\ \A u \in Enders \ {t} : ender'[u] = ender[u]
        /\ Distinct(ender'[t].left) /\ now \subseteq Range(subscribers)
        /\ Distinct(subscribers') /\ Range(subscribers') = Range(subscribers) \ now
        /\ ender[t].left = <<>> /\ Range(ender[t].left) = {}
        /\ t \in Subs => t \notin Range(subscribers')
        /\ ender[t].at # "remove" => Range(subscribers') = {}
    <2>1. CASE t \in Subs /\ Unsubscribe(t) /\ t \in Range(subscribers)
      <3>1. Leads(t, "pill", <<t>>)
        BY <2>1, EnderDeeds
      <3>2. PICK i \in 1 .. Len(subscribers) : subscribers[i] = t /\ subscribers' = RemoveAt(subscribers, i)
        BY <2>1 DEF Unsubscribe, TypeOK, TypeInv
      <3>3. Distinct(subscribers') /\ Range(subscribers') = Range(subscribers) \ {t}
        BY <3>2, RemoveFacts DEF TypeOK, TypeInv, TellInv, Listed
      <3>4. Distinct(<<t>>) /\ Range(<<t>>) = {t}
        BY <2>1, SingleFacts
      <3>5. ender[t].left = <<>> /\ ender[t].at = "remove"
        BY <2>1, EnderType DEF Unsubscribe, Tells
      <3> QED  BY <2>1, <3>1, <3>3, <3>4, <3>5, EmptyFacts DEF Leads
    <2>2. CASE t \in Subs /\ Unsubscribe(t) /\ t \notin Range(subscribers)
      <3>1. Leads(t, "done", <<>>)
        BY <2>2, EnderDeeds
      <3>2. subscribers' = subscribers /\ ender[t].left = <<>> /\ ender[t].at = "remove"
        BY <2>2, EnderType DEF Unsubscribe, Tells, Range
      <3>3. Distinct(<<>>) /\ Range(<<>>) = {}
        BY EmptyFacts
      <3> QED  BY <2>2, <3>1, <3>2, <3>3 DEF Leads, TellInv, Listed
    <2>3. CASE t = Clearer /\ Clear
      <3>1. ender'[t].left = subscribers /\ \A u \in Enders \ {t} : ender'[u] = ender[u]
        BY <2>3, EnderDeeds DEF Leads
      <3>2. subscribers' = <<>> /\ ender[t].left = <<>>
        BY <2>3, EnderDeeds DEF Clear
      <3>3. Distinct(<<>>) /\ Range(<<>>) = {}
        BY EmptyFacts
      <3>4. t \notin Subs
        BY <2>3, EventBusAssumption
      <3> QED  BY <2>3, <3>1, <3>2, <3>3, <3>4 DEF TellInv, Listed
    <2> QED  BY <2>1, <2>2, <2>3
  <1> HIDE DEF now
  <1>2. Listed'
    BY <1>1 DEF TellInv, Listed
  <1>3. PillLast'
    BY <1>1 DEF TellInv, PillLast
  <1>4. TellOnce'
    <2>1. /\ \A s \in now : /\ s \in born /\ s \notin Range(subscribers') /\ Pill \notin Range(queue[s])
                            /\ \A u \in Enders : u # t => s \notin Range(ender'[u].left)
      BY <1>1 DEF TellInv, Listed, TellOnce, PillLast, TypeOK, TypeInv
    <2>2. \A u \in Enders : u # t =>
            /\ Distinct(ender'[u].left)
            /\ \A s \in Range(ender'[u].left) :
                 /\ s \in born /\ s \notin Range(subscribers') /\ Pill \notin Range(queue[s]) /\ s \notin now
                 /\ \A v \in Enders : v # u /\ v # t => s \notin Range(ender'[v].left)
      BY <1>1 DEF TellInv, TellOnce
    <2> QED  BY <1>1, <2>1, <2>2 DEF TellOnce, now
  <1>5. EndIsTold'
    <2> SUFFICES ASSUME NEW s \in born
                 PROVE  /\ s \notin Range(subscribers') =>
                             \/ closed[s] \/ Pill \in Range(queue[s]) \/ s \in untold
                             \/ \E u \in Enders : s \in Range(ender'[u].left)
                        /\ closed[s] /\ s \in Range(subscribers') => ender'[s].at = "remove"
      BY DEF EndIsTold
    <2>1. CASE s \in now
      BY <1>1, <2>1 DEF now
    <2>2. CASE s \notin now
      <3>1. s \in Range(subscribers') <=> s \in Range(subscribers)
        BY <1>1, <2>2
      <3>2. \A u \in Enders : s \in Range(ender[u].left) => s \in Range(ender'[u].left)
        BY <1>1
      <3>3. closed[s] /\ s \in Range(subscribers') => ender'[s].at = "remove"
        <4>1. s \in Enders /\ (s = t => s \notin Range(subscribers'))
          BY <1>1 DEF Enders, TypeOK, TypeInv
        <4> QED  BY <1>1, <3>1, <4>1 DEF TellInv, EndIsTold
      <3> QED  BY <3>1, <3>2, <3>3 DEF TellInv, EndIsTold
    <2> QED  BY <2>1, <2>2
  <1> QED  BY <1>2, <1>3, <1>4, <1>5 DEF TellInv

(* The steps of close() and clear() that leave the list alone: whoever leaves the hand of   *)
(* the thread t has a None then or is given up.                                    *)
Passes(t) ==
  /\ UNCHANGED <<subscribers, born>> /\ untold \subseteq untold'
  /\ \A u \in Enders \ {t} : ender'[u] = ender[u]
  /\ Distinct(ender'[t].left) /\ Range(ender'[t].left) \subseteq Range(ender[t].left)
  /\ t \in born /\ ender[t].at = "remove" => ender'[t].at = "remove"
  /\ \A s \in Subs :
       /\ Pill \in Range(queue'[s]) =>
            Pill \in Range(queue[s]) \/ (s \in Range(ender[t].left) /\ s \notin Range(ender'[t].left))
       /\ Pill \in Range(queue[s]) => Pill \in Range(queue'[s])
       /\ s \in Range(ender[t].left) =>
            s \in Range(ender'[t].left) \/ Pill \in Range(queue'[s]) \/ s \in untold'
       /\ closed[s] => closed'[s]
       /\ closed'[s] => closed[s] \/ (s = t /\ s \in born /\ ender'[t].at = "remove")

LEMMA TellPasses ==
  ASSUME TypeOK, TellInv, NEW t \in Enders, Passes(t)
  PROVE  TellInv'
  <1> USE DEF Passes
  <1>1. Listed'
    BY DEF TellInv, Listed
  <1>2. \A u \in Enders : /\ Range(ender'[u].left) \subseteq Range(ender[u].left) /\ Distinct(ender'[u].left)
                          /\ Range(ender[u].left) \subseteq Subs
    <2>1. \A u \in Enders : Range(ender[u].left) \subseteq Subs
      BY EnderType DEF Range
    <2> QED  BY <2>1 DEF TellInv, TellOnce
  <1>3. PillLast'
    BY DEF TellInv, PillLast, TellOnce
  <1>4. TellOnce'
    <2> SUFFICES ASSUME NEW u \in Enders, NEW s \in Range(ender'[u].left)
                 PROVE  /\ s \in born /\ s \notin Range(subscribers) /\ Pill \notin Range(queue'[s])
                        /\ \A v \in Enders : v # u => s \notin Range(ender'[v].left)
      BY <1>2 DEF TellOnce
    <2>1. /\ s \in born /\ s \notin Range(subscribers) /\ Pill \notin Range(queue[s]) /\ s \in Subs
          /\ \A v \in Enders : v # u => s \notin Range(ender[v].left)
      BY <1>2 DEF TellInv, TellOnce
    <2>2. Pill \notin Range(queue'[s])
      BY <2>1
    <2> QED  BY <1>2, <2>1, <2>2
  <1>5. EndIsTold'
    <2> SUFFICES ASSUME NEW s \in born
                 PROVE  /\ s \notin Range(subscribers) =>
                             \/ closed'[s] \/ Pill \in Range(queue'[s]) \/ s \in untold'
                             \/ \E u \in Enders : s \in Range(ender'[u].left)
                        /\ closed'[s] /\ s \in Range(subscribers) => ender'[s].at = "remove"
      BY DEF EndIsTold
    <2>1. s \in Subs /\ s \in Enders
      BY DEF TypeOK, TypeInv, Enders
    <2>2. \A u \in Enders : s \in Range(ender[u].left) =>
            s \in Range(ender'[u].left) \/ Pill \in Range(queue'[s]) \/ s \in untold'
      BY <2>1
    <2>3. s \notin Range(subscribers) =>
             \/ closed'[s] \/ Pill \in Range(queue'[s]) \/ s \in untold'
             \/ \E u \in Enders : s \in Range(ender'[u].left)
      BY <2>1, <2>2 DEF TellInv, EndIsTold
    <2>4. closed'[s] /\ s \in Range(subscribers) => ender'[s].at = "remove"
      BY <2>1 DEF TellInv, EndIsTold
    <2> QED  BY <2>3, <2>4
  <1> QED  BY <1>1, <1>3, <1>4, <1>5 DEF TellInv

LEMMA TellEnder ==
  ASSUME TypeOK, TellInv, NEW t \in Enders, EnderSteps(t)
  PROVE  TellInv'
  <1>0. /\ ender[t].left \in Seq(Subs) /\ Distinct(ender[t].left)
        /\ Distinct(<<>>) /\ Range(<<>>) = {}
    BY EnderType, EmptyFacts DEF TellInv, TellOnce
  <1>1. CASE (t \in Subs /\ Unsubscribe(t)) \/ (t = Clearer /\ Clear)
    <2>1. UNCHANGED <<queue, born, closed, untold>>
      BY <1>1 DEF Unsubscribe, Clear
    <2> QED  BY <1>1, <2>1, TellLists
  <1>2. CASE t \in Subs /\ Close(t)
    <2>1. /\ UNCHANGED <<subscribers, born, queue, untold>> /\ t \in born /\ ender[t].left = <<>>
          /\ closed'[t] = TRUE /\ \A r \in Subs \ {t} : closed'[r] = closed[r]
      BY <1>2, EnderType DEF Close, bus, TypeOK, TypeInv, Tells
    <2>2. /\ \A u \in Enders \ {t} : ender'[u] = ender[u]
          /\ ender'[t].left = <<>> /\ ender'[t].at = "remove"
      BY <1>2, EnderDeeds DEF Leads
    <2>3. Passes(t)
      BY <1>0, <2>1, <2>2 DEF Passes
    <2> QED  BY <2>3, TellPasses
  <1>3. CASE End(t)
    <2>1. UNCHANGED <<subscribers, born, queue, untold, closed>> /\ ender[t].left = <<>> /\ ender[t].at # "remove"
      BY <1>3, EnderType DEF End, Tells
    <2>2. (\A u \in Enders \ {t} : ender'[u] = ender[u]) /\ ender'[t].left = <<>>
      BY <1>3, EnderDeeds DEF Leads
    <2>3. Passes(t)
      BY <1>0, <2>1, <2>2 DEF Passes
    <2> QED  BY <2>3, TellPasses
  <1>4. CASE SendPill(t) \/ MakeRoom(t) \/ SendAgain(t)
    <2>1. /\ UNCHANGED <<subscribers, born, closed>> /\ Tells(t) /\ ender[t].at # "remove" /\ untold \subseteq untold'
      BY <1>4 DEF SendPill, MakeRoom, SendAgain, bus, Tells
    <2>2. PICK s \in Subs : s = Told(t)
      BY <2>1, EnderType
    <2>3. /\ s \in Range(ender[t].left) /\ Pill \notin Range(queue[s])
          /\ Range(ender[t].left) = {s} \cup Range(Tail(ender[t].left))
          /\ s \notin Range(Tail(ender[t].left)) /\ Distinct(Tail(ender[t].left))
      BY <1>0, <2>1, <2>2, EnderType, DistinctTail DEF TellInv, TellOnce, Told
    <2>4. CASE ender'[t].left = Tail(ender[t].left) /\ queue' = [queue EXCEPT ![Told(t)] = Append(@, Pill)]
               /\ \A u \in Enders \ {t} : ender'[u] = ender[u]
      <3>1. Pill \in Event
        BY DEF Pill, Event
      <3>2. Range(queue'[s]) = Range(queue[s]) \cup {Pill} /\ \A r \in Subs \ {s} : queue'[r] = queue[r]
        BY <2>2, <2>4, <3>1, QueueGrows
      <3>3. Passes(t)
        BY <2>1, <2>3, <2>4, <3>2 DEF Passes
      <3> QED  BY <3>3, TellPasses
    <2>5. CASE ender'[t].left = Tail(ender[t].left) /\ queue' = queue /\ Told(t) \in untold'
               /\ \A u \in Enders \ {t} : ender'[u] = ender[u]
      <3>1. Passes(t)
        BY <2>1, <2>2, <2>3, <2>5 DEF Passes
      <3> QED  BY <3>1, TellPasses
    <2>6. CASE ender'[t].left = <<>> /\ queue' = queue /\ Range(ender[t].left) \subseteq untold'
               /\ \A u \in Enders \ {t} : ender'[u] = ender[u]
      <3>1. Passes(t)
        BY <1>0, <2>1, <2>6 DEF Passes
      <3> QED  BY <3>1, TellPasses
    <2>7. CASE ender'[t].left = ender[t].left /\ queue' = queue
               /\ \A u \in Enders \ {t} : ender'[u] = ender[u]
      <3>1. Passes(t)
        BY <1>0, <2>1, <2>7 DEF Passes
      <3> QED  BY <3>1, TellPasses
    <2>8. CASE ender'[t].left = ender[t].left /\ queue[Told(t)] # <<>> /\ queue' = [queue EXCEPT ![Told(t)] = Tail(@)]
               /\ \A u \in Enders \ {t} : ender'[u] = ender[u]
      <3>1. /\ Range(queue[s]) = {Head(queue[s])} \cup Range(queue'[s])
            /\ \A r \in Subs \ {s} : queue'[r] = queue[r]
        BY <2>2, <2>8, QueueShrinks
      <3>2. \A r \in Subs : Pill \in Range(queue'[r]) <=> Pill \in Range(queue[r])
        BY <2>3, <3>1
      <3>3. Passes(t)
        BY <1>0, <2>1, <2>8, <3>2 DEF Passes
      <3> QED  BY <3>3, TellPasses
    <2> QED  BY <1>4, <2>4, <2>5, <2>6, <2>7, <2>8, EnderDeeds DEF Leads
  <1> QED  BY <1>1, <1>2, <1>3, <1>4 DEF EnderSteps

LEMMA TellStep == TypeOK /\ TellInv /\ [Next]_vars => TellInv'
  <1> SUFFICES ASSUME TypeOK, TellInv, [Next]_vars PROVE TellInv'
    OBVIOUS
  <1>1. CASE UNCHANGED vars
    BY <1>1 DEF vars, bus, ends, TellInv, Listed, TellOnce, PillLast, EndIsTold
  <1> QED  BY <1>1, StepKinds, TellEmitter, TellSub, TellEnder

(* EndIsTold, for every number of subscriptions and emitters and every size of the queues:   *)
(* whoever the bus no longer lists is closed, has a None waiting, or is in the hand of a      *)
(* thread that is still to put one, up to the two ways in which send_poison_pill() gives up.  *)
THEOREM WhoeverLeavesIsTold == Spec => []EndIsTold
  <1>1. Init => TypeOK /\ TellInv
    BY TypeInit DEF TellInv
  <1>2. TypeOK /\ TellInv /\ [Next]_vars => (TypeOK /\ TellInv)'
    BY TypeStep, TellStep
  <1>3. TypeOK /\ TellInv => EndIsTold
    BY DEF TellInv
  <1> QED  BY <1>1, <1>2, <1>3, PTL DEF Spec

-----------------------------------------------------------------------------
(* What a subscription holds or has read.                                        *)
Had(s) == Range(got[s]) \cup Range(queue[s])

(* What the steps do to a subscription's queue and to what it has read.               *)
LEMMA TakesOne ==
  ASSUME TypeOK, NEW s \in Subs, Take(s)
  PROVE  /\ queue[s] # <<>> /\ queue'[s] = Tail(queue[s]) /\ Head(queue[s]) \in Event
         /\ Range(queue[s]) = {Head(queue[s])} \cup Range(queue'[s])
         /\ \/ got'[s] = got[s] /\ Head(queue[s]) = Pill
            \/ got'[s] = Append(got[s], Head(queue[s])) /\ Range(got'[s]) = Range(got[s]) \cup {Head(queue[s])}
         /\ \A r \in Subs \ {s} : queue'[r] = queue[r] /\ got'[r] = got[r]
  <1>1. queue[s] # <<>> /\ queue' = [queue EXCEPT ![s] = Tail(@)]
    BY DEF Take
  <1>2. /\ queue'[s] = Tail(queue[s]) /\ Head(queue[s]) \in Event
        /\ Range(queue[s]) = {Head(queue[s])} \cup Range(queue'[s]) /\ \A r \in Subs \ {s} : queue'[r] = queue[r]
    BY <1>1, QueueShrinks
  <1>3. \/ got' = got /\ Head(queue[s]) = Pill
        \/ got' = [got EXCEPT ![s] = Append(got[s], Head(queue[s]))]
    BY DEF Take
  <1>4. got \in [Subs -> Seq(Event)] /\ got[s] \in Seq(Event)
    BY DEF TypeOK, TypeInv
  <1>5. Range(Append(got[s], Head(queue[s]))) = Range(got[s]) \cup {Head(queue[s])}
    BY <1>2, <1>4, AppendFacts
  <1> QED  BY <1>1, <1>2, <1>3, <1>4, <1>5

LEMMA EnderQueues ==
  ASSUME TypeOK, NEW t \in Enders, EnderSteps(t), NEW s \in Subs
  PROVE  \/ queue'[s] = queue[s]
         \/ queue'[s] = Append(queue[s], Pill) /\ Range(queue'[s]) = Range(queue[s]) \cup {Pill}
         \/ queue[s] # <<>> /\ queue'[s] = Tail(queue[s]) /\ Range(queue[s]) = {Head(queue[s])} \cup Range(queue'[s])
  <1>1. Pill \in Event /\ queue[s] \in Seq(Event) /\ queue \in [Subs -> Seq(Event)]
    BY DEF Pill, Event, TypeOK, TypeInv
  <1>2. \/ queue' = queue \/ queue' = [queue EXCEPT ![Told(t)] = Append(@, Pill)]
        \/ (queue[Told(t)] # <<>> /\ queue' = [queue EXCEPT ![Told(t)] = Tail(@)])
    BY DEF EnderSteps, Close, Unsubscribe, Clear, SendPill, MakeRoom, SendAgain, End
  <1>3. queue'[s] = queue[s] \/ queue'[s] = Append(queue[s], Pill) \/ (queue[s] # <<>> /\ queue'[s] = Tail(queue[s]))
    BY <1>1, <1>2
  <1>4. Range(Append(queue[s], Pill)) = Range(queue[s]) \cup {Pill}
    BY <1>1, AppendFacts
  <1>5. queue[s] # <<>> => Range(queue[s]) = {Head(queue[s])} \cup Range(Tail(queue[s]))
    BY <1>1, TailFacts
  <1> QED  BY <1>3, <1>4, <1>5

LEMMA EmitterQueues ==
  ASSUME TypeOK, NEW e \in Emitters, EmitterSteps(e), queue' # queue
  PROVE  \E s \in Subs, x \in Event :
           /\ Put(e) /\ s = Served(e) /\ x = EventOf(e)
           /\ queue'[s] = Append(queue[s], x) /\ Range(queue'[s]) = Range(queue[s]) \cup {x}
           /\ \A r \in Subs \ {s} : queue'[r] = queue[r]
  <1>1. Put(e) /\ queue' = [queue EXCEPT ![Served(e)] = Append(@, EventOf(e))]
    BY DEF EmitterSteps, Emit, Snapshot, Deliver, Put
  <1>2. PICK s \in Subs : s = Served(e)
    BY <1>1, EmitterType DEF Put, Delivers
  <1>3. PICK x \in Event : x = EventOf(e)
    BY EmitterType
  <1>4. /\ queue'[s] = Append(queue[s], x) /\ Range(queue'[s]) = Range(queue[s]) \cup {x}
        /\ \A r \in Subs \ {s} : queue'[r] = queue[r]
    BY <1>1, <1>2, <1>3, QueueGrows
  <1> QED  BY <1>1, <1>2, <1>3, <1>4

(* A step that leaves the emitters alone gives nobody an event.                      *)
LEMMA InTurnQuiet ==
  ASSUME InTurn, UNCHANGED emitter, \A s \in Subs : Had(s)' \subseteq Had(s) \cup {Pill}
  PROVE  InTurn'
  BY DEF InTurn, Pending, Had

(* Whom emit() is still to serve before and after a step.                            *)
LEMMA PendingSteps ==
  ASSUME TypeOK, Listed, InTurn, NEW e \in Emitters, EmitterSteps(e)
  PROVE  /\ Distinct(emitter'[e].left) /\ emitter'[e].n \in {emitter[e].n, emitter[e].n + 1}
         /\ \A s \in Subs : Pending(e, s)' => Pending(e, s) \/ emitter'[e].n = emitter[e].n + 1
         /\ \A s \in Subs : (Deliver(e) \/ Put(e)) /\ emitter'[e].left = Tail(emitter[e].left) /\ s = Served(e) =>
                              ~Pending(e, s)' /\ Pending(e, s)
  <1>1. CASE Emit(e)
    <2>1. emitter'[e].n = emitter[e].n + 1 /\ emitter'[e].left = <<>> /\ ~Put(e) /\ ~Deliver(e)
      BY <1>1, EmitterDeeds DEF Put, Deliver, Emit
    <2> QED  BY <2>1, EmptyFacts
  <1>2. CASE Snapshot(e)
    <2>1. emitter'[e].n = emitter[e].n /\ emitter'[e].left = subscribers /\ emitter[e].at = "snapshot" /\ ~Put(e) /\ ~Deliver(e)
      BY <1>2, EmitterDeeds DEF Snapshot, Put, Deliver, Emit
    <2> QED  BY <2>1 DEF Listed, Pending
  <1>3. CASE Deliver(e) \/ Put(e)
    <2>1. /\ Delivers(e) /\ emitter'[e].left \in {emitter[e].left, Tail(emitter[e].left)}
          /\ emitter'[e].n = emitter[e].n /\ emitter'[e].at # "snapshot" /\ emitter[e].at # "snapshot"
          /\ Put(e) => emitter'[e].left = Tail(emitter[e].left)
      BY <1>3, EmitterDeeds DEF Deliver, Put, Emit
    <2>2. /\ Distinct(emitter[e].left) /\ emitter[e].left # <<>>
          /\ Distinct(Tail(emitter[e].left)) /\ Served(e) \notin Range(Tail(emitter[e].left))
          /\ Range(emitter[e].left) = {Served(e)} \cup Range(Tail(emitter[e].left))
      BY <2>1, EmitterType, TailFacts, DistinctTail DEF InTurn, Served
    <2> QED  BY <2>1, <2>2 DEF Pending
  <1> QED  BY <1>1, <1>2, <1>3 DEF EmitterSteps

LEMMA InTurnStep == TypeOK /\ Listed /\ InTurn /\ [Next]_vars => InTurn'
  <1> SUFFICES ASSUME TypeOK, Listed, InTurn, [Next]_vars PROVE InTurn'
    OBVIOUS
  <1>1. ASSUME NEW e \in Emitters, EmitterSteps(e)
        PROVE  InTurn'
    <2>1. got' = got /\ \A f \in Emitters \ {e} : emitter'[f] = emitter[f]
      BY <1>1, EmitterDeeds DEF EmitterSteps, Emit, Snapshot, Deliver, Put, fates
    <2>2. \A s \in Subs : got[s] \in Seq(Event) /\ queue[s] \in Seq(Event) /\ \A x \in Had(s) : x \in Event /\ x.n \in Nat
      <3>1. \A s \in Subs : got[s] \in Seq(Event) /\ queue[s] \in Seq(Event)
        BY DEF TypeOK, TypeInv
      <3>2. \A q \in Seq(Event) : Range(q) \subseteq Event
        BY DEF Range
      <3> QED  BY <3>1, <3>2 DEF Had, Event
    <2>3. emitter[e].n \in Nat /\ emitter[e].left \in Seq(Subs)
      BY EmitterType
    <2>4. /\ Distinct(emitter'[e].left) /\ emitter'[e].n \in {emitter[e].n, emitter[e].n + 1}
          /\ \A s \in Subs : Pending(e, s)' => Pending(e, s) \/ emitter'[e].n = emitter[e].n + 1
          /\ \A s \in Subs : Put(e) /\ s = Served(e) => ~Pending(e, s)' /\ Pending(e, s)
      BY <1>1, PendingSteps, EmitterDeeds
    <2>5. \A f \in Emitters : Distinct(emitter'[f].left)
      BY <2>1, <2>4 DEF InTurn
    <2> SUFFICES ASSUME NEW f \in Emitters, NEW s \in Subs, NEW x \in Had(s)', x # Pill, x.by = f
                 PROVE  x.n <= emitter'[f].n /\ (Pending(f, s)' => x.n < emitter'[f].n)
      BY <2>5 DEF InTurn, Had
    <2>6. \A y \in Had(s) : y # Pill /\ y.by = f => y.n <= emitter[f].n /\ (Pending(f, s) => y.n < emitter[f].n)
      BY DEF InTurn, Had
    <2>7. CASE x \in Had(s)
      <3>1. x.n \in Nat /\ x.n <= emitter[f].n /\ (Pending(f, s) => x.n < emitter[f].n)
        BY <2>2, <2>6, <2>7
      <3>2. CASE f = e
        BY <2>3, <2>4, <3>1, <3>2
      <3>3. CASE f # e
        <4>1. emitter'[f] = emitter[f] /\ (Pending(f, s)' <=> Pending(f, s))
          BY <2>1, <3>3 DEF Pending
        <4> QED  BY <3>1, <4>1
      <3> QED  BY <3>2, <3>3
    <2>8. CASE x \notin Had(s)
      <3>1. queue' # queue
        BY <2>1, <2>8 DEF Had
      <3>2. PICK r \in Subs, y \in Event :
              /\ Put(e) /\ r = Served(e) /\ y = EventOf(e) /\ Range(queue'[r]) = Range(queue[r]) \cup {y}
              /\ \A u \in Subs \ {r} : queue'[u] = queue[u]
        BY <1>1, <3>1, EmitterQueues
      <3>3. s = r /\ x = y
        BY <2>1, <2>8, <3>2 DEF Had
      <3>4. f = e /\ x.n = emitter[e].n
        BY <3>2, <3>3 DEF EventOf
      <3>5. ~Pending(e, s)' /\ Put(e)
        BY <2>4, <3>2, <3>3
      <3>6. emitter'[e].n = emitter[e].n
        BY <3>2, <1>1, EmitterDeeds DEF Put, Emit
      <3> QED  BY <2>3, <3>4, <3>5, <3>6
    <2> QED  BY <2>7, <2>8
  <1>2. ASSUME NEW s \in Subs, SubSteps(s)
        PROVE  InTurn'
    <2>1. UNCHANGED emitter
      BY <1>2 DEF SubSteps, Subscribe, GetRecent, Take
    <2>2. CASE Take(s)
      <3>1. \A r \in Subs : Had(r)' \subseteq Had(r) \cup {Pill}
        BY <2>2, TakesOne DEF Had
      <3> QED  BY <2>1, <3>1, InTurnQuiet
    <2>3. CASE ~Take(s)
      <3>1. queue' = queue /\ got' = got
        BY <1>2, <2>3 DEF SubSteps, Subscribe, GetRecent, fates
      <3> QED  BY <2>1, <3>1, InTurnQuiet DEF Had
    <2> QED  BY <2>2, <2>3
  <1>3. ASSUME NEW t \in Enders, EnderSteps(t)
        PROVE  InTurn'
    <2>1. UNCHANGED <<emitter, got>>
      BY <1>3 DEF EnderSteps, Close, Unsubscribe, Clear, SendPill, MakeRoom, SendAgain, End, fates
    <2>2. \A s \in Subs : Range(queue'[s]) \subseteq Range(queue[s]) \cup {Pill}
      BY <1>3, EnderQueues
    <2>3. \A s \in Subs : Had(s)' \subseteq Had(s) \cup {Pill}
      BY <2>1, <2>2 DEF Had
    <2> QED  BY <2>1, <2>3, InTurnQuiet
  <1>4. CASE UNCHANGED vars
    BY <1>4, InTurnQuiet DEF vars, fates, Had
  <1> QED  BY <1>1, <1>2, <1>3, <1>4, StepKinds

LEMMA OrderedStep == TypeOK /\ InTurn /\ Ordered /\ [Next]_vars => Ordered'
  <1> DEFINE Good(g, q) == Sorted(g) /\ Sorted(q) /\ \A x \in Range(g), y \in Range(q) : Before(x, y)
  <1> SUFFICES ASSUME TypeOK, InTurn, Ordered, [Next]_vars, NEW s \in Subs
               PROVE  Good(got'[s], queue'[s])
    BY DEF Ordered
  <1>0. Good(got[s], queue[s]) /\ got[s] \in Seq(Event) /\ queue[s] \in Seq(Event)
    BY DEF Ordered, TypeOK, TypeInv
  <1>1. ASSUME NEW e \in Emitters, EmitterSteps(e)
        PROVE  Good(got'[s], queue'[s])
    <2>1. got' = got
      BY <1>1 DEF EmitterSteps, Emit, Snapshot, Deliver, Put, fates
    <2>2. CASE queue'[s] = queue[s]
      BY <1>0, <2>1, <2>2
    <2>3. CASE queue'[s] # queue[s]
      <3>1. queue' # queue
        BY <2>3
      <3>2. PICK r \in Subs, x \in Event :
              /\ Put(e) /\ r = Served(e) /\ x = EventOf(e) /\ queue'[r] = Append(queue[r], x)
              /\ Range(queue'[r]) = Range(queue[r]) \cup {x}
              /\ \A u \in Subs \ {r} : queue'[u] = queue[u]
        BY <1>1, <3>1, EmitterQueues
      <3>3. r = s
        BY <2>3, <3>2
      <3>4. Pending(e, s)
        <4>1. Delivers(e) /\ Served(e) \in Range(emitter[e].left)
          BY <3>2, EmitterType, TailFacts DEF Put, Delivers, Served
        <4> QED  BY <3>2, <3>3, <4>1 DEF Pending
      <3>5. \A y \in Had(s) : Before(y, x)
        <4>1. \A y \in Had(s) : y # Pill /\ y.by = e => y.n < emitter[e].n
          BY <3>4 DEF InTurn, Had
        <4>2. x.by = e /\ x.n = emitter[e].n
          BY <3>2 DEF EventOf
        <4> QED  BY <4>1, <4>2 DEF Before
      <3>6. Sorted(Append(queue[s], x))
        BY <1>0, <3>5, SortedAppend DEF Had
      <3> QED  BY <1>0, <2>1, <3>2, <3>3, <3>5, <3>6 DEF Had
    <2> QED  BY <2>2, <2>3
  <1>2. ASSUME NEW r \in Subs, SubSteps(r)
        PROVE  Good(got'[s], queue'[s])
    <2>1. CASE Take(r) /\ r = s
      <3>1. /\ queue[s] # <<>> /\ queue'[s] = Tail(queue[s]) /\ Head(queue[s]) \in Event
            /\ Range(queue[s]) = {Head(queue[s])} \cup Range(queue'[s])
            /\ \/ got'[s] = got[s]
               \/ got'[s] = Append(got[s], Head(queue[s])) /\ Range(got'[s]) = Range(got[s]) \cup {Head(queue[s])}
        BY <2>1, TakesOne
      <3>2. Sorted(Tail(queue[s])) /\ \A y \in Range(Tail(queue[s])) : Before(Head(queue[s]), y)
        BY <1>0, <3>1, SortedTail
      <3>3. CASE got'[s] = got[s]
        BY <1>0, <3>1, <3>2, <3>3
      <3>4. CASE got'[s] = Append(got[s], Head(queue[s])) /\ Range(got'[s]) = Range(got[s]) \cup {Head(queue[s])}
        <4>1. \A y \in Range(got[s]) : Before(y, Head(queue[s]))
          BY <1>0, <3>1
        <4>2. Sorted(Append(got[s], Head(queue[s])))
          BY <1>0, <3>1, <4>1, SortedAppend
        <4> QED  BY <1>0, <3>1, <3>2, <3>4, <4>2
      <3> QED  BY <3>1, <3>3, <3>4
    <2>2. CASE ~(Take(r) /\ r = s)
      <3>1. queue'[s] = queue[s] /\ got'[s] = got[s]
        <4>1. CASE Take(r)
          BY <2>2, <4>1, TakesOne
        <4>2. CASE ~Take(r)
          BY <1>2, <4>2 DEF SubSteps, Subscribe, GetRecent, fates
        <4> QED  BY <4>1, <4>2
      <3> QED  BY <1>0, <3>1
    <2> QED  BY <2>1, <2>2
  <1>3. ASSUME NEW t \in Enders, EnderSteps(t)
        PROVE  Good(got'[s], queue'[s])
    <2>1. got' = got
      BY <1>3 DEF EnderSteps, Close, Unsubscribe, Clear, SendPill, MakeRoom, SendAgain, End, fates
    <2>2. CASE queue'[s] = queue[s]
      BY <1>0, <2>1, <2>2
    <2>3. CASE queue'[s] = Append(queue[s], Pill) /\ Range(queue'[s]) = Range(queue[s]) \cup {Pill}
      <3>1. Pill \in Event /\ \A y : Before(y, Pill)
        BY DEF Pill, Event, Before
      <3>2. Sorted(Append(queue[s], Pill))
        BY <1>0, <3>1, SortedAppend
      <3> QED  BY <1>0, <2>1, <2>3, <3>1, <3>2
    <2>4. CASE queue[s] # <<>> /\ queue'[s] = Tail(queue[s]) /\ Range(queue[s]) = {Head(queue[s])} \cup Range(queue'[s])
      <3>1. Sorted(Tail(queue[s]))
        BY <1>0, <2>4, SortedTail
      <3> QED  BY <1>0, <2>1, <2>4, <3>1
    <2> QED  BY <1>3, <2>2, <2>3, <2>4, EnderQueues
  <1>4. CASE UNCHANGED vars
    BY <1>0, <1>4 DEF vars, fates
  <1> QED  BY <1>1, <1>2, <1>3, <1>4, StepKinds

(* What is read and what is queued, one behind the other.                            *)
LEMMA OrderedEvents == TypeOK /\ Ordered => InOrder
  <1> SUFFICES ASSUME TypeOK, Ordered, NEW s \in Subs, NEW i \in DOMAIN Events(s), NEW j \in DOMAIN Events(s), i < j
               PROVE  Before(Events(s)[i], Events(s)[j])
    BY DEF InOrder, Before
  <1> DEFINE g == got[s]
             q == queue[s]
  <1>1. g \in Seq(Event) /\ q \in Seq(Event) /\ Len(g) \in Nat /\ Len(q) \in Nat
    BY DEF TypeOK, TypeInv
  <1>2. Sorted(g) /\ Sorted(q) /\ \A x \in Range(g), y \in Range(q) : Before(x, y)
    BY DEF Ordered
  <1>3. Events(s) = g \o q
    BY DEF Events
  <1> HIDE DEF g, q
  <1>4. /\ Len(g \o q) = Len(g) + Len(q) /\ DOMAIN (g \o q) = 1 .. (Len(g) + Len(q))
        /\ \A k \in 1 .. (Len(g) + Len(q)) : (g \o q)[k] = IF k <= Len(g) THEN g[k] ELSE q[k - Len(g)]
    BY <1>1, ConcatProperties
  <1>5. i \in 1 .. (Len(g) + Len(q)) /\ j \in 1 .. (Len(g) + Len(q)) /\ i \in Int /\ j \in Int
    BY <1>1, <1>3, <1>4
  <1>6. /\ \A k \in 1 .. Len(g) : g[k] \in Range(g)
        /\ \A k \in 1 .. Len(q) : q[k] \in Range(q)
    BY <1>1 DEF Range
  <1>7. CASE j <= Len(g)
    <2>1. i \in 1 .. Len(g) /\ j \in 1 .. Len(g) /\ i <= Len(g)
      BY <1>1, <1>5, <1>7
    <2>2. (g \o q)[i] = g[i] /\ (g \o q)[j] = g[j]
      BY <1>4, <1>5, <1>7, <2>1
    <2> QED  BY <1>2, <1>3, <2>1, <2>2 DEF Sorted
  <1>8. CASE i <= Len(g) /\ ~(j <= Len(g))
    <2>1. i \in 1 .. Len(g) /\ j - Len(g) \in 1 .. Len(q)
      BY <1>1, <1>5, <1>8
    <2>2. (g \o q)[i] = g[i] /\ (g \o q)[j] = q[j - Len(g)]
      BY <1>4, <1>5, <1>8
    <2> QED  BY <1>2, <1>3, <1>6, <2>1, <2>2
  <1>9. CASE ~(i <= Len(g)) /\ ~(j <= Len(g))
    <2>1. i - Len(g) \in 1 .. Len(q) /\ j - Len(g) \in 1 .. Len(q) /\ i - Len(g) < j - Len(g)
      BY <1>1, <1>5, <1>9
    <2>2. (g \o q)[i] = q[i - Len(g)] /\ (g \o q)[j] = q[j - Len(g)]
      BY <1>4, <1>5, <1>9
    <2> QED  BY <1>2, <1>3, <2>1, <2>2 DEF Sorted
  <1>10. i <= Len(g) \/ ~(j <= Len(g))
    BY <1>1, <1>5
  <1> QED  BY <1>7, <1>8, <1>9, <1>10

(* InOrder, for every number of emitters and subscriptions and every size of the queues:     *)
(* whatever is refused, evicted or read in between, a subscription has the events of one       *)
(* thread in the order in which it emitted them, and none twice.                         *)
THEOREM EventsKeepTheirOrder == Spec => []InOrder
  <1> DEFINE IInv == TypeOK /\ TellInv /\ InTurn /\ Ordered
  <1>1. Init => IInv
    BY TypeInit DEF TellInv
  <1>2. IInv /\ [Next]_vars => IInv'
    BY TypeStep, TellStep, InTurnStep, OrderedStep DEF TellInv
  <1>3. IInv => InOrder
    BY OrderedEvents
  <1> QED  BY <1>1, <1>2, <1>3, PTL DEF Spec

-----------------------------------------------------------------------------
LEMMA RecordedStep == TypeOK /\ Recorded /\ [Next]_vars => Recorded'
  <1> SUFFICES ASSUME TypeOK, Recorded, [Next]_vars PROVE Recorded'
    OBVIOUS
  <1>0. ring \in Seq(Event)
    BY DEF TypeOK, TypeInv
  <1>1. ASSUME UNCHANGED emitter, Range(ring) \cup forgotten \subseteq Range(ring') \cup forgotten'
        PROVE  Recorded'
    BY <1>1 DEF Recorded, Emitted
  <1>2. ASSUME NEW e \in Emitters, EmitterSteps(e)
        PROVE  Recorded'
    <2>1. CASE ~Emit(e)
      <3>1. UNCHANGED <<ring, forgotten>> /\ \A f \in Emitters : emitter'[f].n = emitter[f].n
        BY <1>2, <2>1, EmitterDeeds DEF EmitterSteps, Snapshot, Deliver, Put, bus
      <3> QED  BY <3>1 DEF Recorded, Emitted
    <2>2. CASE Emit(e)
      <3>1. /\ emitter'[e].n = emitter[e].n + 1 /\ emitter[e].n \in Nat
            /\ \A f \in Emitters \ {e} : emitter'[f] = emitter[f]
        BY <1>2, <2>2, EmitterDeeds, EmitterType
      <3>2. PICK x : x = EventOf(e)'
        OBVIOUS
      <3>3. x \in Event /\ x = [by |-> e, n |-> emitter[e].n + 1]
        BY <3>1, <3>2 DEF EventOf, Event
      <3>4. Range(ring) \cup forgotten \cup {x} \subseteq Range(ring') \cup forgotten'
        <4>1. CASE Len(ring) = RingSize
          <5>1. ring # <<>>
            BY <4>1, EventBusAssumption
          <5>2. ring' = Append(Tail(ring), x) /\ forgotten' = forgotten \cup {Head(ring)}
            BY <2>2, <3>2, <4>1 DEF Emit
          <5>3. Tail(ring) \in Seq(Event) /\ Range(ring) = {Head(ring)} \cup Range(Tail(ring))
            BY <1>0, <5>1, TailFacts
          <5>4. PICK q \in Seq(Event) : q = Tail(ring)
            BY <5>3
          <5>5. Range(Append(q, x)) = Range(q) \cup {x}
            BY <3>3, AppendFacts
          <5> QED  BY <5>2, <5>3, <5>4, <5>5
        <4>2. CASE Len(ring) # RingSize
          <5>1. ring' = Append(ring, x) /\ forgotten' = forgotten
            BY <2>2, <3>2, <4>2 DEF Emit
          <5> QED  BY <1>0, <3>3, <5>1, AppendFacts
        <4> QED  BY <4>1, <4>2
      <3>5. \A f \in Emitters : Emitted(f)' \subseteq Emitted(f) \cup {x}
        <4> SUFFICES ASSUME NEW f \in Emitters, NEW i \in 1 .. emitter'[f].n
                     PROVE  [by |-> f, n |-> i] \in Emitted(f) \cup {x}
          BY DEF Emitted
        <4>1. CASE f = e
          <5>1. i \in 1 .. emitter[e].n \/ i = emitter[e].n + 1
            BY <3>1, <4>1
          <5> QED  BY <3>3, <4>1, <5>1 DEF Emitted
        <4>2. CASE f # e
          BY <3>1, <4>2 DEF Emitted
        <4> QED  BY <4>1, <4>2
      <3> QED  BY <3>4, <3>5 DEF Recorded
    <2> QED  BY <2>1, <2>2
  <1>3. ASSUME NEW t \in Enders, EnderSteps(t)
        PROVE  Recorded'
    <2>1. UNCHANGED emitter
      BY <1>3 DEF EnderSteps, Close, Unsubscribe, Clear, SendPill, MakeRoom, SendAgain, End
    <2>2. UNCHANGED <<ring, forgotten>> \/ forgotten' = forgotten \cup Range(ring)
      BY <1>3 DEF EnderSteps, Close, Unsubscribe, Clear, SendPill, MakeRoom, SendAgain, End, bus
    <2> QED  BY <1>1, <2>1, <2>2
  <1>4. ASSUME NEW s \in Subs, SubSteps(s)
        PROVE  Recorded'
    BY <1>1, <1>4 DEF SubSteps, Subscribe, GetRecent, Take, bus
  <1>5. CASE UNCHANGED vars
    BY <1>1, <1>5 DEF vars, bus
  <1> QED  BY <1>2, <1>3, <1>4, <1>5, StepKinds

(* Where an event that a subscription need no longer be offered is: nothing but a None       *)
(* leaves these places.                                                       *)
RefusedBy(s) == {x \in Event : <<s, x>> \in refused}
Accounted(s) == past[s] \cup Had(s) \cup RefusedBy(s) \cup evicted[s]

LEMMA AccountedGrows ==
  ASSUME TypeOK, [Next]_vars, NEW s \in joined
  PROVE  Accounted(s) \subseteq Accounted(s)' \cup {Pill}
  <1>0. s \in Subs /\ evicted \in [Subs -> SUBSET Event] /\ past \in [Subs -> SUBSET Event]
    BY DEF TypeOK, TypeInv
  <1>1. ASSUME NEW e \in Emitters, EmitterSteps(e)
        PROVE  Accounted(s) \subseteq Accounted(s)'
    <2>1. UNCHANGED <<got, past, evicted>>
      BY <1>1 DEF EmitterSteps, Emit, Snapshot, Deliver, Put, fates
    <2>2. RefusedBy(s) \subseteq RefusedBy(s)'
      <3>1. refused \subseteq refused'
        BY <1>1 DEF EmitterSteps, Emit, Snapshot, Deliver, Put, Refuse, fates
      <3> QED  BY <3>1 DEF RefusedBy
    <2>3. Range(queue[s]) \subseteq Range(queue'[s])
      BY <1>0, <1>1, EmitterQueues
    <2> QED  BY <2>1, <2>2, <2>3 DEF Accounted, RefusedBy, Had
  <1>2. ASSUME NEW r \in Subs, SubSteps(r)
        PROVE  Accounted(s) \subseteq Accounted(s)' \cup {Pill}
    <2>1. UNCHANGED <<refused, evicted>> /\ past'[s] = past[s]
      BY <1>0, <1>2 DEF SubSteps, Subscribe, GetRecent, Take, fates
    <2>2. CASE Take(r)
      <3>1. Had(s) \subseteq Had(s)' \cup {Pill}
        BY <1>0, <2>2, TakesOne DEF Had
      <3> QED  BY <2>1, <3>1 DEF Accounted, RefusedBy
    <2>3. CASE ~Take(r)
      BY <1>2, <2>1, <2>3 DEF SubSteps, Subscribe, GetRecent, fates, Accounted, RefusedBy, Had
    <2> QED  BY <2>2, <2>3
  <1>3. ASSUME NEW t \in Enders, EnderSteps(t)
        PROVE  Accounted(s) \subseteq Accounted(s)'
    <2>1. UNCHANGED <<got, refused, past>>
      BY <1>3 DEF EnderSteps, Close, Unsubscribe, Clear, SendPill, MakeRoom, SendAgain, End, fates
    <2>2. CASE MakeRoom(t) /\ queue[Told(t)] # <<>>
      <3>1. PICK r \in Subs : r = Told(t)
        BY <2>2, EnderType DEF MakeRoom, Tells
      <3>2. /\ queue' = [queue EXCEPT ![r] = Tail(@)]
            /\ evicted' = [evicted EXCEPT ![r] = @ \cup {Head(queue[r])}]
        BY <2>2, <3>1 DEF MakeRoom
      <3>3. Range(queue[r]) = {Head(queue[r])} \cup Range(queue'[r]) /\ \A u \in Subs \ {r} : queue'[u] = queue[u]
        BY <2>2, <3>1, <3>2, QueueShrinks
      <3>4. /\ evicted'[r] = evicted[r] \cup {Head(queue[r])} /\ \A u \in Subs \ {r} : evicted'[u] = evicted[u]
        BY <1>0, <3>1, <3>2
      <3>5. Range(queue[s]) \cup evicted[s] \subseteq Range(queue'[s]) \cup evicted'[s]
        BY <1>0, <3>3, <3>4
      <3> QED  BY <2>1, <3>5 DEF Accounted, RefusedBy, Had
    <2>3. CASE ~(MakeRoom(t) /\ queue[Told(t)] # <<>>)
      <3>1. /\ evicted' = evicted
            /\ queue' = queue \/ (Told(t) \in Subs /\ queue' = [queue EXCEPT ![Told(t)] = Append(@, Pill)])
        BY <1>3, <2>3, EnderType DEF EnderSteps, Close, Unsubscribe, Clear, SendPill, MakeRoom, SendAgain, End, fates, Tells
      <3>2. Range(queue[s]) \subseteq Range(queue'[s])
        <4>1. CASE queue' = queue
          BY <4>1
        <4>2. CASE Told(t) \in Subs /\ queue' = [queue EXCEPT ![Told(t)] = Append(@, Pill)]
          <5>1. PICK r \in Subs : r = Told(t)
            BY <4>2
          <5>2. Pill \in Event
            BY DEF Pill, Event
          <5> QED  BY <1>0, <4>2, <5>1, <5>2, QueueGrows
        <4> QED  BY <3>1, <4>1, <4>2
      <3> QED  BY <2>1, <3>1, <3>2 DEF Accounted, RefusedBy, Had
    <2> QED  BY <2>2, <2>3
  <1>4. CASE UNCHANGED vars
    BY <1>4 DEF vars, fates, Accounted, RefusedBy, Had
  <1> QED  BY <1>1, <1>2, <1>3, <1>4, StepKinds

(* An event that leaves the hand of emit() for a subscription is queued or refused.        *)
LEMMA HandedOn ==
  ASSUME TypeOK, NEW e \in Emitters, Deliver(e) \/ Put(e), emitter'[e].left # emitter[e].left
  PROVE  \E s \in Subs, x \in Event :
           s = Served(e) /\ x = EventOf(e) /\ x \in Range(queue'[s]) \cup RefusedBy(s)'
  <1>1. Delivers(e)
    BY DEF Deliver, Put, Delivers
  <1>2. PICK s \in Subs, x \in Event : s = Served(e) /\ x = EventOf(e)
    BY <1>1, EmitterType
  <1>3. EmitterSteps(e) /\ ~Emit(e) /\ ~Snapshot(e)
    BY DEF EmitterSteps, Deliver, Put, Emit, Snapshot
  <1>4. CASE queue' # queue
    <2>1. PICK r \in Subs, y \in Event : r = Served(e) /\ y = EventOf(e) /\ Range(queue'[r]) = Range(queue[r]) \cup {y}
      BY <1>3, <1>4, EmitterQueues
    <2> QED  BY <1>2, <2>1
  <1>5. CASE queue' = queue
    <2>1. Put(e) => \/ Refuse(e) \/ queue' = [queue EXCEPT ![Served(e)] = Append(@, EventOf(e))]
      BY DEF Put
    <2>2. ASSUME queue' = [queue EXCEPT ![Served(e)] = Append(@, EventOf(e))] PROVE FALSE
      <3>1. queue'[s] = Append(queue[s], x) /\ queue[s] \in Seq(Event)
        BY <1>2, <2>2, QueueGrows DEF TypeOK, TypeInv
      <3>2. Len(queue'[s]) = Len(queue[s]) + 1 /\ Len(queue[s]) \in Nat
        BY <3>1, AppendFacts
      <3> QED  BY <1>5, <3>2
    <2>3. Refuse(e)
      BY <1>3, <2>1, <2>2, EmitterDeeds
    <2>4. refused' = refused \cup {<<s, x>>}
      BY <1>2, <2>3 DEF Refuse
    <2>5. x \in RefusedBy(s)'
      BY <2>4 DEF RefusedBy
    <2> QED  BY <1>2, <2>5
  <1> QED  BY <1>4, <1>5

(* Nothing is missed by one subscription.                                          *)
AllServed(s) == \A e \in Emitters : \A x \in Emitted(e) : (x.n = emitter[e].n /\ Pending(e, s)) \/ x \in Accounted(s)

LEMMA EmittedType == TypeOK => \A e \in Emitters : \A x \in Emitted(e) : x \in Event /\ x # Pill /\ x.by = e /\ x.n \in 1 .. emitter[e].n /\ (x.n = emitter[e].n => x = EventOf(e))
  <1> SUFFICES ASSUME TypeOK, NEW e \in Emitters, NEW i \in 1 .. emitter[e].n, NEW x, x = [by |-> e, n |-> i]
               PROVE  x \in Event /\ x # Pill /\ x.by = e /\ x.n \in 1 .. emitter[e].n /\ (x.n = emitter[e].n => x = EventOf(e))
    BY DEF Emitted
  <1>1. emitter[e].n \in Nat /\ i \in Nat /\ i # 0
    BY EmitterType
  <1> QED  BY <1>1 DEF Event, Pill, EventOf

LEMMA ServedStep ==
  ASSUME TypeOK, [Next]_vars, NEW s \in joined, s \in Range(subscribers), AllServed(s)
  PROVE  AllServed(s)'
  <1>0. Accounted(s) \subseteq Accounted(s)' \cup {Pill}
    BY AccountedGrows
  <1>1. ASSUME UNCHANGED emitter
        PROVE  AllServed(s)'
    BY <1>0, <1>1, EmittedType DEF AllServed, Emitted, Pending
  <1>2. ASSUME NEW e \in Emitters, EmitterSteps(e)
        PROVE  AllServed(s)'
    <2>1. \A f \in Emitters \ {e} : emitter'[f] = emitter[f]
      BY <1>2, EmitterDeeds
    <2>2. ASSUME NEW f \in Emitters, f # e, NEW x \in Emitted(f)'
          PROVE  (x.n = emitter'[f].n /\ Pending(f, s)') \/ x \in Accounted(s)'
      <3>1. x \in Emitted(f) /\ emitter'[f] = emitter[f] /\ (Pending(f, s)' <=> Pending(f, s))
        BY <2>1, <2>2 DEF Emitted, Pending
      <3> QED  BY <1>0, <3>1, EmittedType DEF AllServed
    <2>3. ASSUME NEW x \in Emitted(e)'
          PROVE  (x.n = emitter'[e].n /\ Pending(e, s)') \/ x \in Accounted(s)'
      <3>1. CASE Emit(e)
        <4>1. /\ emitter'[e].at = "snapshot" /\ emitter'[e].n = emitter[e].n + 1 /\ emitter[e].n \in Nat
              /\ emitter[e].left = <<>> /\ emitter[e].at = "idle"
          BY <1>2, <3>1, EmitterDeeds, EmitterType
        <4>2. ~Pending(e, s) /\ Pending(e, s)'
          BY <4>1, EmptyFacts DEF Pending
        <4>3. PICK i \in 1 .. emitter'[e].n : x = [by |-> e, n |-> i]
          BY <2>3 DEF Emitted
        <4>4. i = emitter'[e].n \/ i \in 1 .. emitter[e].n
          BY <4>1, <4>3
        <4>5. CASE i = emitter'[e].n
          BY <4>2, <4>3, <4>5
        <4>6. CASE i \in 1 .. emitter[e].n
          <5>1. x \in Emitted(e)
            BY <4>3, <4>6 DEF Emitted
          <5> QED  BY <1>0, <4>2, <5>1, EmittedType DEF AllServed
        <4> QED  BY <4>4, <4>5, <4>6
      <3>2. CASE ~Emit(e)
        <4>1. emitter'[e].n = emitter[e].n
          BY <1>2, <3>2, EmitterDeeds
        <4>2. x \in Emitted(e)
          BY <2>3, <4>1 DEF Emitted
        <4>3. CASE x \in Accounted(s)
          BY <1>0, <4>2, <4>3, EmittedType
        <4>4. CASE x.n = emitter[e].n /\ Pending(e, s)
          <5>1. CASE Snapshot(e)
            BY <1>2, <4>1, <4>4, <5>1, EmitterDeeds DEF Pending
          <5>2. CASE Deliver(e) \/ Put(e)
            <6>1. /\ Delivers(e) /\ emitter'[e].left \in {emitter[e].left, Tail(emitter[e].left)}
                  /\ emitter[e].at # "snapshot"
              BY <1>2, <5>2, EmitterDeeds DEF Delivers, Deliver, Put
            <6>2. s \in Range(emitter[e].left)
              BY <4>4, <6>1 DEF Pending
            <6>3. Range(emitter[e].left) = {Served(e)} \cup Range(Tail(emitter[e].left))
              BY <6>1, EmitterType, TailFacts DEF Served
            <6>4. CASE s \in Range(emitter'[e].left)
              BY <4>1, <4>4, <6>4 DEF Pending
            <6>5. CASE s \notin Range(emitter'[e].left)
              <7>1. s = Served(e) /\ emitter'[e].left # emitter[e].left
                BY <6>1, <6>2, <6>3, <6>5
              <7>2. PICK r \in Subs, y \in Event : r = Served(e) /\ y = EventOf(e) /\ y \in Range(queue'[r]) \cup RefusedBy(r)'
                BY <5>2, <7>1, HandedOn
              <7>3. x = y /\ s = r
                BY <4>2, <4>4, <7>1, <7>2, EmittedType
              <7> QED  BY <7>2, <7>3 DEF Accounted, RefusedBy, Had
            <6> QED  BY <6>4, <6>5
          <5> QED  BY <1>2, <3>2, <5>1, <5>2 DEF EmitterSteps
        <4> QED  BY <4>2, <4>3, <4>4 DEF AllServed
      <3> QED  BY <3>1, <3>2
    <2> QED  BY <2>2, <2>3 DEF AllServed
  <1>3. ASSUME NEW r \in Subs, SubSteps(r)
        PROVE  UNCHANGED emitter
    BY <1>3 DEF SubSteps, Subscribe, GetRecent, Take
  <1>4. ASSUME NEW t \in Enders, EnderSteps(t)
        PROVE  UNCHANGED emitter
    BY <1>4 DEF EnderSteps, Close, Unsubscribe, Clear, SendPill, MakeRoom, SendAgain, End
  <1> QED  BY <1>1, <1>2, <1>3, <1>4, StepKinds DEF vars

ListedServed == \A s \in joined : s \in Range(subscribers) => AllServed(s)

LEMMA MissedStep == TypeOK /\ Listed /\ Recorded /\ ListedServed /\ [Next]_vars => ListedServed'
  <1> SUFFICES ASSUME TypeOK, Listed, Recorded, ListedServed, [Next]_vars, NEW s \in joined', s \in Range(subscribers')
               PROVE  AllServed(s)'
    BY DEF ListedServed
  <1>1. CASE s \in joined
    <2>1. s \in born /\ s \in Subs
      BY <1>1 DEF TypeOK, TypeInv
    <2>2. s \in Range(subscribers)
      <3>1. subscribers \in Seq(Subs) /\ Distinct(subscribers) /\ DOMAIN subscribers = 1 .. Len(subscribers)
        BY DEF TypeOK, TypeInv, Listed
      <3>2. ASSUME NEW r \in Subs, SubSteps(r), subscribers' # subscribers
            PROVE  s \in Range(subscribers)
        <4>1. r \notin born /\ subscribers' = Append(subscribers, r)
          BY <3>2 DEF SubSteps, Subscribe, GetRecent, Take, bus
        <4>2. Range(subscribers') = Range(subscribers) \cup {r}
          BY <3>1, <4>1, AppendFacts
        <4> QED  BY <2>1, <4>1, <4>2
      <3>3. ASSUME NEW t \in Enders, EnderSteps(t), subscribers' # subscribers
            PROVE  s \in Range(subscribers)
        <4>1. \/ subscribers' = <<>>
              \/ \E i \in DOMAIN subscribers : subscribers' = RemoveAt(subscribers, i)
          BY <3>3 DEF EnderSteps, Close, Unsubscribe, Clear, SendPill, MakeRoom, SendAgain, End, bus
        <4>2. CASE subscribers' = <<>>
          BY <4>2, EmptyFacts
        <4>3. ASSUME NEW i \in 1 .. Len(subscribers), subscribers' = RemoveAt(subscribers, i)
              PROVE  s \in Range(subscribers)
          <5>1. Range(RemoveAt(subscribers, i)) = Range(subscribers) \ {subscribers[i]}
            BY <3>1, RemoveFacts
          <5> QED  BY <4>3, <5>1
        <4> QED  BY <3>1, <4>1, <4>2, <4>3
      <3>4. ASSUME NEW e \in Emitters, EmitterSteps(e)
            PROVE  subscribers' = subscribers
        BY <3>4 DEF EmitterSteps, Emit, Snapshot, Deliver, Put, bus
      <3> QED  BY <3>2, <3>3, <3>4, StepKinds DEF vars, bus
    <2> QED  BY <1>1, <2>2, ServedStep DEF ListedServed
  <1>2. CASE s \notin joined
    <2>1. joined' # joined
      BY <1>2
    <2>2. GetRecent(s) /\ s \in Subs
      <3>1. PICK r \in Subs : GetRecent(r)
        BY <2>1, StepKinds DEF vars, EmitterSteps, Emit, Snapshot, Deliver, Put, SubSteps, Subscribe, Take,
           EnderSteps, Close, Unsubscribe, Clear, SendPill, MakeRoom, SendAgain, End
      <3>2. joined' = joined \cup {r}
        BY <3>1 DEF GetRecent
      <3> QED  BY <1>2, <3>1, <3>2
    <2>3. past'[s] = Range(ring) \cup forgotten /\ UNCHANGED emitter
      BY <2>2 DEF GetRecent, TypeOK, TypeInv
    <2>4. \A e \in Emitters : Emitted(e)' \subseteq past'[s]
      BY <2>3 DEF Recorded, Emitted
    <2> QED  BY <2>4 DEF AllServed, Accounted
  <1> QED  BY <1>1, <1>2

LEMMA EventsRange == TypeOK => \A s \in Subs : Range(Events(s)) = Had(s)
  <1> SUFFICES ASSUME TypeOK, NEW s \in Subs PROVE Range(Events(s)) = Had(s)
    OBVIOUS
  <1>1. got[s] \in Seq(Event) /\ queue[s] \in Seq(Event)
    BY DEF TypeOK, TypeInv
  <1> DEFINE g == got[s]
             q == queue[s]
  <1>2. Len(g) \in Nat /\ Len(q) \in Nat /\ DOMAIN g = 1 .. Len(g) /\ DOMAIN q = 1 .. Len(q)
    BY <1>1
  <1>3. g \in Seq(Event) /\ q \in Seq(Event)
    BY <1>1
  <1> HIDE DEF g, q
  <1>4. /\ DOMAIN (g \o q) = 1 .. (Len(g) + Len(q))
        /\ \A k \in 1 .. (Len(g) + Len(q)) : (g \o q)[k] = IF k <= Len(g) THEN g[k] ELSE q[k - Len(g)]
    BY <1>3, ConcatProperties
  <1>5. Range(g \o q) \subseteq Range(g) \cup Range(q)
    <2> SUFFICES ASSUME NEW k \in 1 .. (Len(g) + Len(q)) PROVE (g \o q)[k] \in Range(g) \cup Range(q)
      BY <1>4 DEF Range
    <2>1. k <= Len(g) => k \in 1 .. Len(g)
      BY <1>2
    <2>2. ~(k <= Len(g)) => k - Len(g) \in 1 .. Len(q)
      BY <1>2
    <2> QED  BY <1>2, <1>4, <2>1, <2>2 DEF Range
  <1>6. \A k \in 1 .. Len(g) : k \in 1 .. (Len(g) + Len(q)) /\ k <= Len(g)
    BY <1>2
  <1>7. \A k \in 1 .. Len(q) : /\ k + Len(g) \in 1 .. (Len(g) + Len(q)) /\ ~(k + Len(g) <= Len(g))
                               /\ (k + Len(g)) - Len(g) = k
    BY <1>2
  <1>8. Range(g) \subseteq Range(g \o q)
    BY <1>2, <1>4, <1>6 DEF Range
  <1>9. Range(q) \subseteq Range(g \o q)
    <2> SUFFICES ASSUME NEW k \in 1 .. Len(q) PROVE q[k] \in Range(g \o q)
      BY <1>2 DEF Range
    <2>1. (g \o q)[k + Len(g)] = q[k] /\ k + Len(g) \in DOMAIN (g \o q)
      BY <1>4, <1>7
    <2> QED  BY <2>1 DEF Range
  <1>10. Range(g \o q) = Range(g) \cup Range(q)
    BY <1>5, <1>8, <1>9
  <1> QED  BY <1>10 DEF g, q, Events, Had

(* What a refusal does, and to whom.                                            *)
LEMMA Refusals ==
  ASSUME TypeOK, Listed, InTurn, NEW e \in Emitters, EmitterSteps(e)
  PROVE  \/ UNCHANGED <<refused, dropped>>
         \/ \E s \in Subs, x \in Event :
              /\ x = EventOf(e) /\ Pending(e, s) /\ ~Pending(e, s)' /\ emitter'[e].n = emitter[e].n
              /\ refused' = refused \cup {<<s, x>>} /\ dropped' = dropped + 1
  <1>1. \/ UNCHANGED <<refused, dropped>>
        \/ (Deliver(e) \/ Put(e)) /\ Refuse(e) /\ emitter'[e].left = Tail(emitter[e].left) /\ emitter'[e].n = emitter[e].n
    <2>1. CASE Emit(e) \/ Snapshot(e)
      BY <2>1 DEF Emit, Snapshot, fates
    <2>2. CASE Deliver(e)
      <3>1. ~Emit(e)
        BY <2>2 DEF Deliver, Emit
      <3> QED  BY <2>2, <3>1, EmitterDeeds
    <2>3. CASE Put(e)
      <3>1. ~Emit(e) /\ (Refuse(e) \/ UNCHANGED <<refused, dropped>>)
        BY <2>3 DEF Put, Emit
      <3> QED  BY <2>3, <3>1, EmitterDeeds
    <2> QED  BY <2>1, <2>2, <2>3 DEF EmitterSteps
  <1>2. CASE UNCHANGED <<refused, dropped>>
    BY <1>2
  <1>3. CASE (Deliver(e) \/ Put(e)) /\ Refuse(e) /\ emitter'[e].left = Tail(emitter[e].left) /\ emitter'[e].n = emitter[e].n
    <2>1. Delivers(e)
      BY <1>3 DEF Deliver, Put, Delivers
    <2>2. PICK s \in Subs, x \in Event : s = Served(e) /\ x = EventOf(e)
      BY <2>1, EmitterType
    <2>3. refused' = refused \cup {<<s, x>>} /\ dropped' = dropped + 1
      BY <1>3, <2>2 DEF Refuse
    <2>4. Pending(e, s) /\ ~Pending(e, s)'
      BY <1>3, <2>2, PendingSteps
    <2> QED  BY <1>3, <2>2, <2>3, <2>4
  <1> QED  BY <1>1, <1>2, <1>3

LEMMA CountedStep == TypeOK /\ Listed /\ InTurn /\ RefusedOnce /\ Counted /\ [Next]_vars => RefusedOnce' /\ Counted'
  <1> SUFFICES ASSUME TypeOK, Listed, InTurn, RefusedOnce, Counted, [Next]_vars
               PROVE  RefusedOnce' /\ Counted'
    OBVIOUS
  <1>1. ASSUME UNCHANGED <<refused, dropped, emitter>>
        PROVE  RefusedOnce' /\ Counted'
    BY <1>1 DEF RefusedOnce, Counted, Pending
  <1>2. ASSUME NEW e \in Emitters, EmitterSteps(e)
        PROVE  RefusedOnce' /\ Counted'
    <2>1. \A f \in Emitters \ {e} : emitter'[f] = emitter[f] /\ \A s \in Subs : Pending(f, s)' <=> Pending(f, s)
      BY <1>2, EmitterDeeds DEF Pending
    <2>2. emitter[e].n \in Nat /\ \A x \in Event : x.n \in Nat
      BY EmitterType DEF Event
    <2>3. CASE UNCHANGED <<refused, dropped>>
      <3>1. Counted'
        BY <2>3 DEF Counted
      <3>2. /\ emitter'[e].n \in {emitter[e].n, emitter[e].n + 1}
            /\ \A s \in Subs : Pending(e, s)' => Pending(e, s) \/ emitter'[e].n = emitter[e].n + 1
        BY <1>2, PendingSteps
      <3>3. ASSUME NEW s \in Subs, NEW x \in Event, <<s, x>> \in refused, x.by = e
            PROVE  x.n <= emitter'[e].n /\ (Pending(e, s)' => x.n < emitter'[e].n)
        <4>1. x.n \in Nat /\ x.n <= emitter[e].n /\ (Pending(e, s) => x.n < emitter[e].n)
          BY <2>2, <3>3 DEF RefusedOnce
        <4> QED  BY <2>2, <3>2, <4>1
      <3>4. ASSUME NEW f \in Emitters, f # e, NEW s \in Subs, NEW x \in Event, <<s, x>> \in refused, x.by = f
            PROVE  x.n <= emitter'[f].n /\ (Pending(f, s)' => x.n < emitter'[f].n)
        BY <2>1, <3>4 DEF RefusedOnce
      <3>5. RefusedOnce'
        BY <2>3, <3>3, <3>4 DEF RefusedOnce
      <3> QED  BY <3>1, <3>5
    <2>4. ASSUME NEW s \in Subs, NEW x \in Event,
                 x = EventOf(e), Pending(e, s), ~Pending(e, s)', emitter'[e].n = emitter[e].n,
                 refused' = refused \cup {<<s, x>>}, dropped' = dropped + 1
          PROVE  RefusedOnce' /\ Counted'
      <3>1. x.by = e /\ x.n = emitter[e].n
        BY <2>4 DEF EventOf
      <3>2. <<s, x>> \notin refused
        BY <2>2, <2>4, <3>1 DEF RefusedOnce
      <3>3. Counted'
        BY <2>4, <3>2, FS_AddElement DEF Counted
      <3>4. ASSUME NEW r \in Subs, NEW y \in Event, <<r, y>> \in refused', y.by = e
            PROVE  y.n <= emitter'[e].n /\ (Pending(e, r)' => y.n < emitter'[e].n)
        <4>1. CASE <<r, y>> = <<s, x>>
          BY <2>2, <2>4, <3>1, <4>1
        <4>2. CASE <<r, y>> # <<s, x>>
          <5>1. y.n <= emitter[e].n /\ (Pending(e, r) => y.n < emitter[e].n)
            BY <2>4, <3>4, <4>2 DEF RefusedOnce
          <5>2. Pending(e, r)' => Pending(e, r)
            BY <1>2, <2>2, <2>4, PendingSteps
          <5> QED  BY <2>4, <5>1, <5>2
        <4> QED  BY <4>1, <4>2
      <3>5. ASSUME NEW f \in Emitters, f # e, NEW r \in Subs, NEW y \in Event, <<r, y>> \in refused', y.by = f
            PROVE  y.n <= emitter'[f].n /\ (Pending(f, r)' => y.n < emitter'[f].n)
        <4>1. <<r, y>> \in refused
          BY <2>4, <3>1, <3>5
        <4> QED  BY <2>1, <3>5, <4>1 DEF RefusedOnce
      <3>6. RefusedOnce'
        BY <3>4, <3>5 DEF RefusedOnce
      <3> QED  BY <3>3, <3>6
    <2> QED  BY <1>2, <2>3, <2>4, Refusals
  <1>3. ASSUME NEW s \in Subs, SubSteps(s)
        PROVE  UNCHANGED <<refused, dropped, emitter>>
    BY <1>3 DEF SubSteps, Subscribe, GetRecent, Take, fates
  <1>4. ASSUME NEW t \in Enders, EnderSteps(t)
        PROVE  UNCHANGED <<refused, dropped, emitter>>
    BY <1>4 DEF EnderSteps, Close, Unsubscribe, Clear, SendPill, MakeRoom, SendAgain, End, fates
  <1>5. CASE UNCHANGED vars
    BY <1>1, <1>5 DEF vars, fates
  <1> QED  BY <1>1, <1>2, <1>3, <1>4, <1>5, StepKinds

(* NoGap, for every number of emitters and subscriptions and every size of the queues and of    *)
(* the ring: a consumer that subscribes and then asks get_recent() misses nothing that emit()    *)
(* has delivered everywhere, and get_stats() counts every refusal exactly once.              *)
THEOREM NothingMissed == Spec => []NoGap
  <1> DEFINE IInv == TypeOK /\ TellInv /\ InTurn /\ Recorded /\ ListedServed /\ RefusedOnce /\ Counted
  <1>1. Init => IInv
    <2>1. Init => ListedServed
      BY DEF Init, ListedServed
    <2>2. Init => RefusedOnce
      BY DEF Init, RefusedOnce
    <2>3. Init => Counted
      BY FS_EmptySet DEF Init, Counted
    <2> QED  BY <2>1, <2>2, <2>3, TypeInit DEF TellInv
  <1>2. IInv /\ [Next]_vars => IInv'
    BY TypeStep, TellStep, InTurnStep, RecordedStep, MissedStep, CountedStep DEF TellInv
  <1>3. IInv => NoGap
    <2> SUFFICES ASSUME IInv, NEW s \in joined, s \in Range(subscribers)
                 PROVE  \A e \in Emitters : \A x \in Emitted(e) :
                          \/ x.n = emitter[e].n /\ Pending(e, s)
                          \/ x \in past[s] \cup Range(Events(s)) \cup evicted[s] \/ <<s, x>> \in refused
      BY DEF NoGap, NoneMissed, Counted
    <2>1. s \in Subs
      BY DEF TypeOK, TypeInv
    <2>2. Range(Events(s)) = Had(s)
      BY <2>1, EventsRange
    <2> QED  BY <2>2 DEF ListedServed, AllServed, Accounted, RefusedBy
  <1> QED  BY <1>1, <1>2, <1>3, PTL DEF Spec
=============================================================================
