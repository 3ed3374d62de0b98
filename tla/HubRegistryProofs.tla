--------------------------- MODULE HubRegistryProofs ---------------------------
(***************************************************************************)
(* Theorems about HubRegistry for every set of destinations, subscriptions     *)
(* and API threads, whatever names the destinations have and however many      *)
(* chunks the broadcast thread handles.                                       *)
(***************************************************************************)
EXTENDS HubRegistry, TLAPS

(* What the threads carry from one step to the next: a caller has a            *)
(* destination or a subscription in hand, according to where it is; stop()      *)
(* walks over destinations and then over subscriptions; between two chunks the   *)
(* broadcast thread has one.                                                  *)
WithDest == {"added", "start", "stop", "disable", "enable"}
WithSub  == {"closing", "detach"}
InHand ==
  /\ \A c \in Callers : /\ cpc[c] \in WithDest => arg[c] \in Dests
                        /\ cpc[c] \in WithSub => arg[c] \in Subs
  /\ mpc = "stopDests" => todo \subseteq Dests
  /\ mpc = "closeSubs" => todo \subseteq Subs
  /\ bpc \notin {"loop", "off"} => chunk \in 1 .. MaxChunks
TypeInv == TypeOK /\ InHand

(* Why no subscription is left open.  One that is not closed is listed, unless   *)
(* the call that made it is on its way to close it; stop() has cleared _running   *)
(* before it copies the list, so that the list grows no more; and only a         *)
(* subscription that is closed is taken off the list.  A stop() that raised       *)
(* leaves the list as it is.                                                  *)
SubsTracked ==
  /\ running <=> mpc = "running"
  /\ \A s \in issued : s \in closed \cup subs \/ \E c \in Callers : cpc[c] = "closing" /\ arg[c] = s
  /\ \A c \in Callers : cpc[c] = "detach" => arg[c] \in closed
  /\ mpc = "closeSubs" \/ (mpc = "stopped" /\ ~raised) => subs \subseteq closed \cup todo
  /\ mpc = "stopped" /\ ~raised => todo = {}
  /\ mpc = "failed" => raised

(* Why a subscriber misses no chunk.  While one that was offered a Frame is open   *)
(* it is listed, so the flag is set and no chunk takes the raw path; and it was    *)
(* offered the Frames of every chunk since its first one that has been distributed. *)
Done == IF bpc \in {"loop", "off"} THEN chunk ELSE chunk - 1
FlagCurrent == needs = Parsing(listed, subs)
SeenSoFar ==
  \A s \in Subs : \A n \in seen[s] :
    /\ n <= Done
    /\ \A m \in seen[s] : n .. m \subseteq seen[s]
    /\ s \notin closed =>
         /\ s \in subs /\ n .. Done \subseteq seen[s]
         /\ bpc \notin {"copyRaw", "raw"}
         /\ bpc = "frames" => s \in snapshot.subs
SnapshotListed == bpc = "frames" => snapshot.subs \subseteq subs \cup closed
NoFrameSkipped == FlagCurrent /\ SeenSoFar /\ SnapshotListed

(* As long as the calls do not overlap, a destination whose thread runs is listed   *)
(* or about to be stopped, and one that should run does or is about to be started.  *)
UniqueNames == \A d, e \in listed : NameOf[d] = NameOf[e] => d = e
OneCallAtATime == \A c, o \in Callers : cpc[c] # "idle" /\ cpc[o] # "idle" => c = o
ThreadsOwned ==
  ~overlapped =>
    /\ OneCallAtATime
    /\ \A c \in Callers : cpc[c] \in {"added", "start", "disable", "enable"} => arg[c] \in listed
    /\ \A c \in Callers : cpc[c] = "stop" => arg[c] \notin listed \cap enabled
    /\ \A d \in started : d \in listed \/ \E c \in Callers : cpc[c] = "stop" /\ arg[c] = d
    /\ mpc = "running" => \A d \in listed \cap enabled :
         d \in started \/ \E c \in Callers : cpc[c] \in {"added", "start"} /\ arg[c] = d

-----------------------------------------------------------------------------
(* The actions, one disjunct each: proofs split on this.                      *)
Places == {"idle"} \cup WithDest \cup WithSub

LEMMA CallerMoves ==
  ASSUME TypeOK, NEW c \in Callers, NEW from, NEW to \in Places, Goes(c, from, to)
  PROVE  /\ cpc[c] = from /\ cpc'[c] = to
         /\ cpc' \in [Callers -> Places]
         /\ \A o \in Callers \ {c} : cpc'[o] = cpc[o]
         /\ overlapped' \in BOOLEAN /\ (overlapped => overlapped')
         /\ ~overlapped' => \A o \in Callers \ {c} : cpc[o] = "idle"
  BY DEF Goes, TypeOK, Places, WithDest, WithSub

LEMMA ArgMoves ==
  ASSUME TypeOK, NEW c \in Callers, NEW x \in Dests \cup Subs \cup {None},
         arg' = [arg EXCEPT ![c] = x]
  PROVE  /\ arg' \in [Callers -> Dests \cup Subs \cup {None}]
         /\ arg'[c] = x /\ \A o \in Callers \ {c} : arg'[o] = arg[o]
  BY DEF TypeOK

LEMMA RecalculateType ==
  ASSUME TypeOK, Recalculate
  PROVE  needs' \in BOOLEAN /\ tail' \in 0 .. MaxChunks
  BY ChunksAssumption DEF TypeOK, Recalculate, Parsing

LEMMA TypeInit == Init => TypeInv
  <1> SUFFICES ASSUME Init PROVE TypeInv
    OBVIOUS
  <1>1. /\ snapshot \in [dests : SUBSET Dests, subs : SUBSET Subs]
        /\ seen \in [Subs -> SUBSET (1 .. MaxChunks)]
    BY DEF Init, NoSnapshot
  <1>2. /\ cpc \in [Callers -> {"idle"}] /\ arg \in [Callers -> {None}]
        /\ chunk \in 0 .. MaxChunks /\ tail \in 0 .. MaxChunks /\ needs \in BOOLEAN
    BY ChunksAssumption DEF Init, Parsing
  <1>3. InHand
    BY <1>2 DEF Init, InHand, WithDest, WithSub
  <1>4. TypeOK
    BY <1>1, <1>2, DestsAssumption DEF Init, TypeOK
  <1> QED  BY <1>3, <1>4 DEF TypeInv

(* The steps of the API threads.                                              *)
LEMMA CallerType ==
  ASSUME TypeInv, NEW c \in Callers, CallerSteps(c)
  PROVE  TypeInv'
  <1> USE DEF TypeInv, InHand
  <1>0. TypeOK
    OBVIOUS
  <1> DEFINE Rest0 == UNCHANGED <<stopVars, bcastVars>>
             ListsOK == /\ listed' \subseteq Dests /\ fresh' \subseteq Dests
                        /\ enabled' \subseteq Dests /\ started' \subseteq Dests
                        /\ subs' \subseteq Subs /\ closed' \subseteq Subs /\ issued' \subseteq Subs
                        /\ needs' \in BOOLEAN /\ tail' \in 0 .. MaxChunks
  <1>1. ASSUME NEW from, NEW to \in Places, Goes(c, from, to),
               NEW x \in Dests \cup Subs \cup {None},
               arg' = [arg EXCEPT ![c] = x] \/ (arg' = arg /\ x = arg[c]),
               to \in WithDest => x \in Dests, to \in WithSub => x \in Subs,
               Rest0, ListsOK
        PROVE  TypeInv'
    <2>1. /\ cpc'[c] = to /\ cpc' \in [Callers -> Places] /\ overlapped' \in BOOLEAN
          /\ \A o \in Callers \ {c} : cpc'[o] = cpc[o]
      BY <1>0, <1>1, CallerMoves
    <2>2. /\ arg' \in [Callers -> Dests \cup Subs \cup {None}]
          /\ arg'[c] = x /\ \A o \in Callers \ {c} : arg'[o] = arg[o]
      BY <1>0, <1>1, ArgMoves DEF TypeOK
    <2>3. /\ \A o \in Callers : /\ cpc'[o] \in WithDest => arg'[o] \in Dests
                                /\ cpc'[o] \in WithSub => arg'[o] \in Subs
      BY <1>1, <2>1, <2>2
    <2>4. TypeOK'
      BY <1>0, <1>1, <2>1, <2>2 DEF TypeOK, Places, WithDest, WithSub, stopVars, bcastVars
    <2> QED  BY <1>1, <2>3, <2>4 DEF stopVars, bcastVars
  <1>2. /\ \A p \in WithDest \cup WithSub \cup {"idle"} : p \in Places
        /\ WithDest \cap WithSub = {} /\ "idle" \notin WithDest \cup WithSub
    BY DEF Places, WithDest, WithSub
  <1>3. CASE AddDestination(c)
    BY <1>0, <1>1, <1>2, <1>3, RecalculateType DEF AddDestination, Calls, Begins, TypeOK, subVars, WithDest
  <1>4. CASE AddCheckRunning(c)
    <2>1. cpc[c] = "added" /\ arg[c] \in Dests /\ UNCHANGED <<stopVars, destVars, subVars, needs, bcastVars, tail>>
      BY <1>4 DEF AddCheckRunning, Goes, Returns, WithDest
    <2>2. ListsOK
      BY <1>0, <2>1 DEF TypeOK, destVars, subVars
    <2> QED  BY <1>1, <1>2, <1>4, <2>1, <2>2 DEF AddCheckRunning, Returns, WithDest
  <1>5. CASE StartThread(c) \/ StopThread(c)
    <2>1. arg[c] \in Dests
      BY <1>5 DEF StartThread, StopThread, Goes, Returns, WithDest
    <2>2. ListsOK
      BY <1>0, <1>5, <2>1 DEF StartThread, StopThread, TypeOK, subVars
    <2> QED  BY <1>1, <1>2, <1>5, <2>2 DEF StartThread, StopThread, Returns, WithDest
  <1>6. CASE RemoveDestination(c)
    BY <1>0, <1>1, <1>2, <1>6, RecalculateType DEF RemoveDestination, Calls, Begins, TypeOK, subVars, WithDest
  <1>7. CASE FindDestination(c)
    BY <1>0, <1>1, <1>2, <1>7 DEF FindDestination, Calls, Begins, TypeOK, destVars, subVars, WithDest
  <1>8. CASE StopDestination(c) \/ StartDestination(c)
    <2>1. arg[c] \in Dests
      BY <1>8 DEF StopDestination, StartDestination, Goes, WithDest
    <2>2. ListsOK
      BY <1>0, <1>8, <2>1 DEF StopDestination, StartDestination, TypeOK, subVars
    <2> QED  BY <1>1, <1>2, <1>8, <2>1, <2>2 DEF StopDestination, StartDestination, WithDest
  <1>9. CASE AddFrameSubscriber(c)
    <2>1. ListsOK
      BY <1>0, <1>9, RecalculateType DEF AddFrameSubscriber, TypeOK, destVars
    <2> QED  BY <1>1, <1>2, <1>9, <2>1 DEF AddFrameSubscriber, Calls, Begins, WithSub
  <1>10. CASE CloseSubscription(c)
    BY <1>0, <1>1, <1>2, <1>10 DEF CloseSubscription, Begins, TypeOK, destVars, subVars, WithSub
  <1>11. CASE SetClosed(c)
    <2>1. arg[c] \in Subs
      BY <1>11 DEF SetClosed, Goes, WithSub
    <2>2. ListsOK
      BY <1>0, <1>11, <2>1 DEF SetClosed, TypeOK, destVars
    <2> QED  BY <1>1, <1>2, <1>11, <2>1, <2>2 DEF SetClosed, WithSub
  <1>12. CASE RemoveFrameSubscriber(c)
    <2>1. ListsOK
      BY <1>0, <1>12, RecalculateType DEF RemoveFrameSubscriber, TypeOK, destVars
    <2> QED  BY <1>1, <1>2, <1>12, <2>1 DEF RemoveFrameSubscriber, Returns, WithSub
  <1> QED
    BY <1>3, <1>4, <1>5, <1>6, <1>7, <1>8, <1>9, <1>10, <1>11, <1>12 DEF CallerSteps

(* The steps of stop() and of the broadcast thread.                            *)
LEMMA HubType ==
  ASSUME TypeInv, StopSteps \/ BroadcastSteps
  PROVE  TypeInv'
  <1> USE DEF TypeInv, InHand, TypeOK
  <1> USE DEF stopVars, destVars, subVars, callVars, bcastVars
  <1>1. CASE Stop \/ StopRaises \/ JoinBroadcast \/ Unlock \/ CollectSubscribers \/ StopAgain
    BY <1>1 DEF Stop, StopRaises, JoinBroadcast, Unlock, CollectSubscribers, StopAgain
  <1>2. CASE StopOne \/ StopOneRaises
    BY <1>2 DEF StopOne, StopOneRaises
  <1>3. CASE CloseOne
    BY <1>3, RecalculateType DEF CloseOne
  <1>4. CASE Stopped
    BY <1>4, ChunksAssumption DEF Stopped
  <1>5. CASE TakeChunk
    BY <1>5, ChunksAssumption DEF TakeChunk, BcastGoes
  <1>6. CASE BroadcastEnds \/ ReadNeeds
    BY <1>6 DEF BroadcastEnds, ReadNeeds, BcastGoes
  <1>7. CASE ParseFrames
    BY <1>7, ChunksAssumption DEF ParseFrames, BcastGoes
  <1>8. CASE CopyLists
    BY <1>8 DEF CopyLists, BcastGoes
  <1>9. CASE DistributeRaw
    BY <1>9 DEF DistributeRaw, BcastGoes, NoSnapshot
  <1>10. CASE DistributeFiltered
    <2>1. chunk \in 1 .. MaxChunks
      BY <1>10 DEF DistributeFiltered, BcastGoes
    <2>2. seen' \in [Subs -> SUBSET (1 .. MaxChunks)]
      BY <1>10, <2>1 DEF DistributeFiltered
    <2>3. snapshot' \in [dests : SUBSET Dests, subs : SUBSET Subs]
      BY <1>10 DEF DistributeFiltered, NoSnapshot
    <2> QED  BY <1>10, <2>2, <2>3 DEF DistributeFiltered, BcastGoes
  <1> QED
    BY <1>1, <1>2, <1>3, <1>4, <1>5, <1>6, <1>7, <1>8, <1>9, <1>10 DEF StopSteps, BroadcastSteps

LEMMA TypeStep == TypeInv /\ [Next]_vars => TypeInv'
  <1>1. UNCHANGED vars /\ TypeInv => TypeInv'
    BY DEF vars, stopVars, destVars, subVars, callVars, bcastVars, TypeInv, TypeOK, InHand
  <1> QED  BY <1>1, CallerType, HubType DEF Next, Rest

-----------------------------------------------------------------------------
(* Subscriptions.                                                            *)

LEMMA SubsByCaller ==
  ASSUME TypeInv, SubsTracked, NEW c \in Callers, CallerSteps(c)
  PROVE  SubsTracked'
  <1> USE DEF SubsTracked
  <1>0. TypeOK
    BY DEF TypeInv
  <1>1. UNCHANGED <<mpc, todo, running, raised>>
    BY DEF CallerSteps, AddDestination, AddCheckRunning, StartThread, RemoveDestination, StopThread,
           FindDestination, StopDestination, StartDestination, AddFrameSubscriber,
           CloseSubscription, SetClosed, RemoveFrameSubscriber, stopVars
  <1>2. CASE \/ AddDestination(c) \/ AddCheckRunning(c) \/ StartThread(c)
             \/ RemoveDestination(c) \/ StopThread(c)
             \/ FindDestination(c) \/ StopDestination(c) \/ StartDestination(c)
    <2>1. /\ \E from, to \in Places : Goes(c, from, to) /\ "detach" # to /\ "closing" # from
          /\ \A o \in Callers \ {c} : arg'[o] = arg[o]
          /\ UNCHANGED subVars
      BY <1>0, <1>2, ArgMoves
         DEF AddDestination, AddCheckRunning, StartThread, RemoveDestination, StopThread,
             FindDestination, StopDestination, StartDestination, Calls, Begins, Returns, TypeOK, subVars,
             Places, WithDest
    <2> QED  BY <1>0, <1>1, <2>1, CallerMoves DEF subVars
  <1>3. CASE AddFrameSubscriber(c)
    <2>1. PICK s \in Subs \ issued :
            /\ issued' = issued \cup {s} /\ closed' = closed
            /\ \/ running  /\ subs' = subs \cup {s} /\ Calls(c, None, "idle")
               \/ ~running /\ UNCHANGED subs /\ Calls(c, s, "closing")
      BY <1>3 DEF AddFrameSubscriber
    <2>2. CASE running
      <3>1. \A o \in Callers : cpc'[o] = cpc[o] /\ (o # c => arg'[o] = arg[o])
        BY <1>0, <2>1, <2>2, CallerMoves, ArgMoves DEF Calls, Begins, Places
      <3>2. cpc[c] = "idle"
        BY <2>1, <2>2 DEF Calls, Begins, Goes
      <3> QED  BY <1>1, <2>1, <2>2, <3>1, <3>2
    <2>3. CASE ~running
      <3>1. /\ cpc[c] = "idle" /\ cpc'[c] = "closing" /\ arg'[c] = s
            /\ \A o \in Callers \ {c} : cpc'[o] = cpc[o] /\ arg'[o] = arg[o]
        BY <1>0, <2>1, <2>3, CallerMoves, ArgMoves DEF Calls, Begins, Places, WithSub
      <3> QED  BY <1>1, <2>1, <2>3, <3>1
    <2> QED  BY <2>2, <2>3
  <1>4. CASE CloseSubscription(c)
    <2>1. PICK s \in issued \ closed : Begins(c, s, "closing")
      BY <1>4 DEF CloseSubscription
    <2>2. /\ cpc[c] = "idle" /\ cpc'[c] = "closing"
          /\ \A o \in Callers \ {c} : cpc'[o] = cpc[o] /\ arg'[o] = arg[o]
      BY <1>0, <2>1, CallerMoves, ArgMoves DEF Calls, Begins, Places, WithSub, TypeOK
    <2> QED  BY <1>1, <1>4, <2>2 DEF CloseSubscription, subVars
  <1>5. CASE SetClosed(c)
    <2>1. /\ cpc[c] = "closing" /\ cpc'[c] = "detach" /\ arg' = arg
          /\ \A o \in Callers \ {c} : cpc'[o] = cpc[o]
      BY <1>0, <1>5, CallerMoves DEF SetClosed, Places, WithSub
    <2> QED  BY <1>1, <1>5, <2>1 DEF SetClosed
  <1>6. CASE RemoveFrameSubscriber(c)
    <2>1. /\ cpc[c] = "detach" /\ cpc'[c] = "idle"
          /\ \A o \in Callers \ {c} : cpc'[o] = cpc[o] /\ arg'[o] = arg[o]
      BY <1>0, <1>6, CallerMoves, ArgMoves DEF RemoveFrameSubscriber, Returns, Places
    <2> QED  BY <1>1, <1>6, <2>1 DEF RemoveFrameSubscriber
  <1> QED  BY <1>2, <1>3, <1>4, <1>5, <1>6 DEF CallerSteps

LEMMA SubsByHub ==
  ASSUME TypeInv, SubsTracked, StopSteps \/ BroadcastSteps
  PROVE  SubsTracked'
  <1> USE DEF SubsTracked, stopVars, destVars, subVars, callVars, bcastVars
  <1>1. CASE Stop
    BY <1>1 DEF Stop
  <1>2. CASE StopRaises \/ JoinBroadcast \/ Unlock \/ CollectSubscribers
    BY <1>2 DEF StopRaises, JoinBroadcast, Unlock, CollectSubscribers
  <1>3. CASE StopOne \/ StopOneRaises \/ Stopped \/ StopAgain
    BY <1>3 DEF StopOne, StopOneRaises, Stopped, StopAgain
  <1>4. CASE CloseOne
    BY <1>4 DEF CloseOne
  <1>5. CASE BroadcastSteps
    BY <1>5 DEF BroadcastSteps, TakeChunk, BroadcastEnds, ReadNeeds, ParseFrames, CopyLists,
                DistributeRaw, DistributeFiltered
  <1> QED  BY <1>1, <1>2, <1>3, <1>4, <1>5 DEF StopSteps

LEMMA SubsStep == TypeInv /\ SubsTracked /\ [Next]_vars => SubsTracked'
  <1>1. UNCHANGED vars /\ SubsTracked => SubsTracked'
    BY DEF vars, stopVars, subVars, callVars, SubsTracked
  <1> QED  BY <1>1, SubsByCaller, SubsByHub DEF Next, Rest

LEMMA SubsInit == Init => SubsTracked
  BY DEF Init, SubsTracked

LEMMA AlwaysTracked == Spec => [](TypeInv /\ SubsTracked)
  BY TypeInit, TypeStep, SubsInit, SubsStep, PTL DEF Spec

(* Whatever callers add and close subscriptions before, during and after stop():  *)
(* when no call is under way, every open one is in the hub's list, and when       *)
(* stop() has returned none is open at all, unless queue.Full had left it         *)
(* (BroadcastHub.add_frame_subscriber, stop, FrameSubscription.close).           *)
THEOREM NoSubscriptionLeftOpen == Spec => []SubscriptionsEnd
  <1>1. SubsTracked => SubscriptionsEnd
    BY DEF SubsTracked, SubscriptionsEnd, CallersIdle
  <1> QED  BY AlwaysTracked, <1>1, PTL

-----------------------------------------------------------------------------
(* Frames.                                                                   *)

LEMMA FlagStep == FlagCurrent /\ [Next]_vars => FlagCurrent'
  <1> SUFFICES ASSUME FlagCurrent, [Next]_vars PROVE FlagCurrent'
    OBVIOUS
  <1> USE DEF FlagCurrent, stopVars, destVars, subVars, callVars, bcastVars
  <1>1. Recalculate => FlagCurrent'
    BY DEF Recalculate
  <1>2. UNCHANGED <<listed, subs, needs>> => FlagCurrent'
    OBVIOUS
  <1>3. ASSUME NEW c \in Callers, CallerSteps(c) PROVE FlagCurrent'
    BY <1>1, <1>2, <1>3
       DEF CallerSteps, AddDestination, AddCheckRunning, StartThread, RemoveDestination, StopThread,
           FindDestination, StopDestination, StartDestination, AddFrameSubscriber,
           CloseSubscription, SetClosed, RemoveFrameSubscriber
  <1>4. CASE StopSteps
    BY <1>1, <1>2, <1>4 DEF StopSteps, Stop, StopRaises, JoinBroadcast, StopOne, StopOneRaises,
           Unlock, CollectSubscribers, CloseOne, Stopped, StopAgain
  <1>5. CASE BroadcastSteps
    BY <1>2, <1>5 DEF BroadcastSteps, TakeChunk, BroadcastEnds, ReadNeeds, ParseFrames, CopyLists,
                DistributeRaw, DistributeFiltered
  <1> QED  BY <1>2, <1>3, <1>4, <1>5 DEF Next, Rest, vars

(* What other threads do to the lists between two steps of the broadcast thread:  *)
(* a subscription that leaves the list is closed.                               *)
LEMMA ListShrinksClosed ==
  ASSUME TypeInv, SubsTracked, (\E c \in Callers : CallerSteps(c)) \/ StopSteps
  PROVE  subs \subseteq subs' \cup closed' /\ closed \subseteq closed' /\ UNCHANGED bcastVars
  <1> USE DEF stopVars, destVars, subVars, callVars
  <1>1. ASSUME NEW c \in Callers, CallerSteps(c), ~RemoveFrameSubscriber(c)
        PROVE  subs \subseteq subs' /\ closed \subseteq closed' /\ UNCHANGED bcastVars
    BY <1>1
       DEF CallerSteps, AddDestination, AddCheckRunning, StartThread, RemoveDestination, StopThread,
           FindDestination, StopDestination, StartDestination, AddFrameSubscriber,
           CloseSubscription, SetClosed
  <1>2. ASSUME NEW c \in Callers, RemoveFrameSubscriber(c)
        PROVE  subs \subseteq subs' \cup closed' /\ closed' = closed /\ UNCHANGED bcastVars
    BY <1>2 DEF RemoveFrameSubscriber, Returns, Goes, SubsTracked
  <1>3. CASE StopSteps
    BY <1>3 DEF StopSteps, Stop, StopRaises, JoinBroadcast, StopOne, StopOneRaises,
           Unlock, CollectSubscribers, CloseOne, Stopped, StopAgain
  <1> QED  BY <1>1, <1>2, <1>3

LEMMA FrameByOthers ==
  ASSUME TypeInv, SubsTracked, NoFrameSkipped, (\E c \in Callers : CallerSteps(c)) \/ StopSteps
  PROVE  SeenSoFar' /\ SnapshotListed'
  <1>1. subs \subseteq subs' \cup closed' /\ closed \subseteq closed' /\ UNCHANGED bcastVars
    BY ListShrinksClosed
  <1> QED
    BY <1>1 DEF NoFrameSkipped, SeenSoFar, SnapshotListed, Done, bcastVars

LEMMA FrameByBroadcast ==
  ASSUME TypeInv, NoFrameSkipped, BroadcastSteps
  PROVE  SeenSoFar' /\ SnapshotListed'
  <1> USE DEF NoFrameSkipped, SeenSoFar, SnapshotListed, Done, BcastGoes,
              stopVars, destVars, subVars, callVars
  <1>0. /\ chunk \in Nat /\ \A s \in Subs : seen[s] \subseteq Nat
        /\ bpc \notin {"loop", "off"} => chunk \in 1 .. MaxChunks
    BY ChunksAssumption DEF TypeInv, TypeOK, InHand
  <1>1. CASE TakeChunk
    BY <1>0, <1>1 DEF TakeChunk
  <1>2. CASE BroadcastEnds
    BY <1>0, <1>2 DEF BroadcastEnds
  <1>3. CASE ReadNeeds
    BY <1>0, <1>3 DEF ReadNeeds, FlagCurrent, Parsing
  <1>4. CASE ParseFrames
    BY <1>0, <1>4 DEF ParseFrames
  <1>5. CASE CopyLists
    BY <1>0, <1>5 DEF CopyLists
  <1>6. CASE DistributeRaw
    <2>1. \A s \in Subs : seen[s] # {} => s \in closed
      BY <1>6 DEF DistributeRaw
    <2>2. \A s \in Subs : \A n \in seen[s] : n <= chunk
      BY <1>0, <1>6 DEF DistributeRaw
    <2> QED  BY <1>0, <1>6, <2>1, <2>2 DEF DistributeRaw
  <1>7. CASE DistributeFiltered
    <2>1. bpc = "frames" /\ bpc' = "loop" /\ chunk' = chunk /\ subs' = subs /\ closed' = closed
      BY <1>7 DEF DistributeFiltered
    <2>2. ASSUME NEW s \in Subs PROVE seen'[s] = IF s \in snapshot.subs \ closed THEN seen[s] \cup {chunk} ELSE seen[s]
      BY <1>7 DEF DistributeFiltered
    <2>3. ASSUME NEW s \in Subs, s \in snapshot.subs \ closed
          PROVE  /\ \A n \in seen[s] : n .. chunk - 1 \subseteq seen[s] /\ n <= chunk - 1
                 /\ s \in subs
      BY <2>1, <2>3
    <2>4. ASSUME NEW s \in Subs, NEW n \in seen'[s]
          PROVE  /\ n <= chunk /\ \A m \in seen'[s] : n .. m \subseteq seen'[s]
                 /\ s \notin closed => s \in subs /\ n .. chunk \subseteq seen'[s]
      <3>1. CASE s \in snapshot.subs \ closed
        <4>1. seen'[s] = seen[s] \cup {chunk} /\ chunk \in Nat /\ seen[s] \subseteq Nat
          BY <1>0, <2>2, <3>1
        <4>2. n <= chunk /\ n .. chunk \subseteq seen'[s]
          BY <2>3, <2>4, <3>1, <4>1
        <4>3. \A m \in seen'[s] : m <= chunk
          BY <2>3, <3>1, <4>1
        <4>4. \A m \in seen'[s] : n .. m \subseteq n .. chunk
          BY <2>4, <4>1, <4>3
        <4> QED  BY <2>3, <3>1, <4>2, <4>4
      <3>2. CASE s \notin snapshot.subs \ closed
        <4>1. seen'[s] = seen[s]
          BY <2>2, <3>2
        <4>2. s \in closed
          BY <2>1, <2>4, <3>2, <4>1
        <4> QED  BY <1>0, <2>1, <2>4, <4>1, <4>2
      <3> QED  BY <3>1, <3>2
    <2> QED  BY <2>1, <2>4
  <1> QED  BY <1>1, <1>2, <1>3, <1>4, <1>5, <1>6, <1>7 DEF BroadcastSteps

LEMMA FrameStep == TypeInv /\ SubsTracked /\ NoFrameSkipped /\ [Next]_vars => NoFrameSkipped'
  <1> SUFFICES ASSUME TypeInv, SubsTracked, NoFrameSkipped, [Next]_vars
               PROVE  SeenSoFar' /\ SnapshotListed'
    BY FlagStep DEF NoFrameSkipped
  <1>1. CASE UNCHANGED vars
    BY <1>1 DEF NoFrameSkipped, SeenSoFar, SnapshotListed, Done, vars, subVars, bcastVars
  <1> QED  BY <1>1, FrameByOthers, FrameByBroadcast DEF Next, Rest

LEMMA FrameInit == Init => NoFrameSkipped
  BY DEF Init, NoFrameSkipped, FlagCurrent, SeenSoFar, SnapshotListed, NoSnapshot

(* The cached flag always agrees with the lists, so that a subscriber is offered   *)
(* every chunk between the first and the last it saw, whatever other callers do     *)
(* (BroadcastHub._recalculate_needs_parsing, _broadcast_loop).                   *)
THEOREM NoFrameMissed == Spec => []SubscriberSeesAll
  <1>1. NoFrameSkipped => SubscriberSeesAll
    BY DEF NoFrameSkipped, FlagCurrent, SeenSoFar, SubscriberSeesAll
  <1> QED  BY AlwaysTracked, FrameInit, FrameStep, <1>1, PTL DEF Spec

-----------------------------------------------------------------------------
(* Destinations.                                                             *)

LEMMA NamesStep == UniqueNames /\ [Next]_vars => UniqueNames'
  <1> SUFFICES ASSUME UniqueNames, [Next]_vars PROVE UniqueNames'
    OBVIOUS
  <1> USE DEF UniqueNames, stopVars, destVars, subVars, callVars, bcastVars
  <1>1. ASSUME NEW c \in Callers, CallerSteps(c) PROVE UniqueNames'
    <2>1. CASE AddDestination(c)
      BY <2>1 DEF AddDestination
    <2>2. CASE ~AddDestination(c)
      BY <1>1, <2>2
         DEF CallerSteps, AddCheckRunning, StartThread, RemoveDestination, StopThread,
             FindDestination, StopDestination, StartDestination, AddFrameSubscriber,
             CloseSubscription, SetClosed, RemoveFrameSubscriber
    <2> QED  BY <2>1, <2>2
  <1>2. CASE StopSteps
    BY <1>2 DEF StopSteps, Stop, StopRaises, JoinBroadcast, StopOne, StopOneRaises,
           Unlock, CollectSubscribers, CloseOne, Stopped, StopAgain
  <1>3. CASE BroadcastSteps
    BY <1>3 DEF BroadcastSteps, TakeChunk, BroadcastEnds, ReadNeeds, ParseFrames, CopyLists,
                DistributeRaw, DistributeFiltered
  <1> QED  BY <1>1, <1>2, <1>3 DEF Next, Rest, vars

(* A step of a caller, when no other caller is in a call.                       *)
LEMMA ThreadsByCaller ==
  ASSUME TypeInv, SubsTracked, ThreadsOwned, NEW c \in Callers, CallerSteps(c)
  PROVE  ThreadsOwned'
  <1> SUFFICES ASSUME ~overlapped' PROVE ThreadsOwned'
    BY DEF ThreadsOwned
  <1>0. TypeOK
    BY DEF TypeInv
  <1>1. PICK from, to \in Places : Goes(c, from, to)
    BY DEF CallerSteps, AddDestination, AddCheckRunning, StartThread, RemoveDestination, StopThread,
           FindDestination, StopDestination, StartDestination, AddFrameSubscriber,
           CloseSubscription, SetClosed, RemoveFrameSubscriber, Calls, Begins, Returns,
           Places, WithDest, WithSub
  <1>2. /\ cpc[c] = from /\ cpc'[c] = to /\ ~overlapped
        /\ \A o \in Callers \ {c} : cpc[o] = "idle" /\ cpc'[o] = "idle"
    BY <1>0, <1>1, CallerMoves
  <1>3. UNCHANGED <<mpc, running>>
    BY DEF CallerSteps, AddDestination, AddCheckRunning, StartThread, RemoveDestination, StopThread,
           FindDestination, StopDestination, StartDestination, AddFrameSubscriber,
           CloseSubscription, SetClosed, RemoveFrameSubscriber, stopVars
  (* what the claim says when the caller is the only one in a call             *)
  <1> DEFINE Owned(at, x, ls, en, st) ==
        /\ at \in {"added", "start", "disable", "enable"} => x \in ls
        /\ at = "stop" => x \notin ls \cap en
        /\ \A d \in st : d \in ls \/ (at = "stop" /\ x = d)
        /\ mpc = "running" => \A d \in ls \cap en : d \in st \/ (at \in {"added", "start"} /\ x = d)
  <1>4. Owned(cpc[c], arg[c], listed, enabled, started)
    BY <1>2 DEF ThreadsOwned
  <1>5. Owned(cpc'[c], arg'[c], listed', enabled', started') => ThreadsOwned'
    BY <1>2, <1>3 DEF ThreadsOwned, OneCallAtATime
  <1>6. /\ \A p : cpc' = [cpc EXCEPT ![c] = p] => cpc'[c] = p
        /\ \A x : arg' = [arg EXCEPT ![c] = x] => arg'[c] = x
        /\ running <=> mpc = "running"
    BY <1>0 DEF TypeOK, SubsTracked
  <1> HIDE DEF Owned
  <1>7. CASE AddDestination(c)
    <2>1. PICK d \in fresh :
            /\ cpc[c] = "idle" /\ UNCHANGED <<enabled, started>>
            /\ \/ cpc'[c] = "added" /\ arg'[c] = d /\ listed' = listed \cup {d}
               \/ cpc'[c] = "idle" /\ listed' = listed
      BY <1>6, <1>7 DEF AddDestination, Calls, Begins, Goes
    <2> QED  BY <1>4, <1>5, <2>1 DEF Owned
  <1>8. CASE AddCheckRunning(c)
    <2>1. /\ cpc[c] = "added" /\ UNCHANGED <<listed, enabled, started>>
          /\ \/ cpc'[c] = "start" /\ arg' = arg
             \/ mpc # "running" /\ cpc'[c] = "idle"
      BY <1>6, <1>8 DEF AddCheckRunning, Goes, Returns, destVars
    <2> QED  BY <1>4, <1>5, <2>1 DEF Owned
  <1>9. CASE StartThread(c)
    <2>1. /\ cpc[c] = "start" /\ cpc'[c] = "idle" /\ UNCHANGED <<listed, enabled>>
          /\ started' = started \cup {arg[c]}
      BY <1>6, <1>9 DEF StartThread, Goes, Returns
    <2> QED  BY <1>4, <1>5, <2>1 DEF Owned
  <1>10. CASE RemoveDestination(c)
    <2>1. PICK d \in listed : /\ cpc[c] = "idle" /\ cpc'[c] = "stop" /\ arg'[c] = d
                              /\ listed' = listed \ {d} /\ UNCHANGED <<enabled, started>>
      BY <1>6, <1>10 DEF RemoveDestination, Goes, Calls, Begins
    <2> QED  BY <1>4, <1>5, <2>1 DEF Owned
  <1>11. CASE StopThread(c)
    <2>1. /\ cpc[c] = "stop" /\ cpc'[c] = "idle" /\ UNCHANGED <<listed, enabled>>
          /\ started' = started \ {arg[c]}
      BY <1>6, <1>11 DEF StopThread, Goes, Returns
    <2> QED  BY <1>4, <1>5, <2>1 DEF Owned
  <1>12. CASE FindDestination(c)
    <2>1. /\ cpc[c] = "idle" /\ cpc'[c] \in {"disable", "enable"} /\ arg'[c] \in listed
          /\ UNCHANGED <<listed, enabled, started>>
      BY <1>6, <1>12 DEF FindDestination, Goes, Calls, Begins, destVars
    <2> QED  BY <1>4, <1>5, <2>1 DEF Owned
  <1>13. CASE StopDestination(c)
    <2>1. /\ cpc[c] = "disable" /\ cpc'[c] = "stop" /\ UNCHANGED <<arg, listed, started>>
          /\ enabled' = enabled \ {arg[c]}
      BY <1>6, <1>13 DEF StopDestination, Goes
    <2> QED  BY <1>4, <1>5, <2>1 DEF Owned
  <1>14. CASE StartDestination(c)
    <2>1. /\ cpc[c] = "enable" /\ cpc'[c] = "start" /\ UNCHANGED <<arg, listed, started>>
          /\ enabled' = enabled \cup {arg[c]}
      BY <1>6, <1>14 DEF StartDestination, Goes
    <2> QED  BY <1>4, <1>5, <2>1 DEF Owned
  <1>15. CASE AddFrameSubscriber(c) \/ CloseSubscription(c) \/ SetClosed(c) \/ RemoveFrameSubscriber(c)
    <2>1. /\ cpc[c] \in {"idle", "closing", "detach"} /\ cpc'[c] \in {"idle", "closing", "detach"}
          /\ UNCHANGED <<listed, enabled, started>>
      BY <1>6, <1>15 DEF AddFrameSubscriber, CloseSubscription, SetClosed, RemoveFrameSubscriber,
                  Calls, Begins, Returns, Goes, destVars
    <2> QED  BY <1>4, <1>5, <2>1 DEF Owned
  <1> QED
    BY <1>7, <1>8, <1>9, <1>10, <1>11, <1>12, <1>13, <1>14, <1>15 DEF CallerSteps

LEMMA ThreadsByHub ==
  ASSUME ThreadsOwned, StopSteps \/ BroadcastSteps
  PROVE  ThreadsOwned'
  <1> USE DEF ThreadsOwned, OneCallAtATime, stopVars, destVars, subVars, callVars, bcastVars
  <1>1. CASE StopOne \/ StopOneRaises
    BY <1>1 DEF StopOne, StopOneRaises
  <1>2. CASE StopSteps /\ ~StopOne /\ ~StopOneRaises
    BY <1>2 DEF StopSteps, Stop, StopRaises, JoinBroadcast, Unlock,
           CollectSubscribers, CloseOne, Stopped, StopAgain
  <1>3. CASE BroadcastSteps
    BY <1>3 DEF BroadcastSteps, TakeChunk, BroadcastEnds, ReadNeeds, ParseFrames, CopyLists,
                DistributeRaw, DistributeFiltered
  <1> QED  BY <1>1, <1>2, <1>3

LEMMA ThreadsStep == TypeInv /\ SubsTracked /\ ThreadsOwned /\ [Next]_vars => ThreadsOwned'
  <1>1. UNCHANGED vars /\ ThreadsOwned => ThreadsOwned'
    BY DEF vars, stopVars, destVars, callVars, ThreadsOwned, OneCallAtATime
  <1> QED  BY <1>1, ThreadsByCaller, ThreadsByHub DEF Next, Rest

LEMMA DestsInit == Init => UniqueNames /\ ThreadsOwned
  BY NamesAssumption DEF Init, UniqueNames, ThreadsOwned, OneCallAtATime

(* The state has its type, two destinations never share a name, and as long as     *)
(* calls do not overlap, exactly the listed destinations have threads that run     *)
(* (BroadcastHub.add_destination, remove_destination, start_ and stop_destination). *)
THEOREM ThreadsFollow == Spec => []ThreadsFollowList
  <1>1. TypeInv /\ UniqueNames /\ ThreadsOwned => ThreadsFollowList
    BY DEF TypeInv, UniqueNames, ThreadsOwned, ThreadsFollowList, CallersIdle
  <1> QED  BY AlwaysTracked, NamesStep, ThreadsStep, DestsInit, <1>1, PTL DEF Spec
=============================================================================
