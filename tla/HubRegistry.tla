----------------------------- MODULE HubRegistry -----------------------------
(***************************************************************************)
(* The list of destinations and Frame subscribers of one running hub         *)
(* (core/broadcast_hub.py), changed by any number of API threads through the *)
(* engine, read by the broadcast thread, and taken down by BroadcastHub      *)
(* .stop().  engine.start() returns before any call can reach the hub, so    *)
(* the model begins with the hub running; the engine accepts calls until     *)
(* stop() has returned.  queue.Full may leave stop() half way; the next       *)
(* stop() then returns at once.                                              *)
(*                                                                          *)
(* A block under _destinations_lock is one action.  The only one that lasts, *)
(* the loop of stop() over the destinations, holds the lock while mpc is     *)
(* "stopDests".  A destination is two flags here: Destination has the rest.  *)
(***************************************************************************)
EXTENDS Integers, FiniteSets

CONSTANTS
  Dests,         (* destination objects                                        *)
  NameOf,        (* their names; two objects may have the same                 *)
  Filtered,      (* those whose message_filter.requires_parsing                *)
  Initial,       (* those the engine was started with                          *)
  Enabled,       (* those whose configuration says enabled                     *)
  Subs,          (* Frame subscription objects                                 *)
  Callers,       (* threads that call the engine's API                         *)
  None,          (* no destination or subscription                             *)
  MaxChunks      (* bound: chunks the broadcast thread handles                 *)

ASSUME DestsAssumption   == 
  Filtered \subseteq Dests /\ Initial \subseteq Dests /\ Enabled \subseteq Dests
ASSUME NamesAssumption   == \A d, e \in Initial : NameOf[d] = NameOf[e] => d = e
ASSUME NoneAssumption    == None \notin Dests \cup Subs /\ Dests \cap Subs = {}
ASSUME ChunksAssumption  == MaxChunks \in Nat

VARIABLES
  mpc,        (* the thread in BroadcastHub.stop(): "running" before the call   *)
  todo,       (* what is left of the loop it is in                             *)
  running,    (* hub._running                                                  *)
  raised,     (* history: has queue.Full left stop()?                          *)
  listed,     (* _destinations                                                 *)
  fresh,      (* destination objects no caller has added yet                   *)
  enabled,    (* dest.enabled                                                  *)
  started,    (* dest._running: its thread was started and not stopped         *)
  subs,       (* _frame_subscribers                                            *)
  closed,     (* subscriptions whose _closed event is set                      *)
  issued,     (* subscription objects that a caller created                    *)
  needs,      (* _any_needs_parsing                                            *)
  cpc, arg,   (* where each caller is, and the object it works on               *)
  overlapped, (* history: were two callers ever in a call at once?              *)
  bpc,        (* where the broadcast thread is                                 *)
  chunk,      (* number of the chunk it handles                                *)
  snapshot,   (* destinations and subscribers it copied under the lock          *)
  tail,       (* the chunk whose incomplete Frame is in _frame_buffer, or 0     *)
  seen        (* history: the chunks whose Frames each subscriber was offered   *)

stopVars   == <<mpc, todo, running, raised>>
destVars   == <<listed, fresh, enabled, started>>
subVars    == <<subs, closed, issued>>
callVars   == <<cpc, arg, overlapped>>
bcastVars  == <<bpc, chunk, snapshot, seen>>
vars == <<stopVars, destVars, subVars, needs, callVars, bcastVars, tail>>

NoSnapshot == [dests |-> {}, subs |-> {}]
LockFree == mpc # "stopDests"
Goes(c, from, to) ==
  /\ cpc[c] = from /\ cpc' = [cpc EXCEPT ![c] = to]
  /\ overlapped' = (overlapped \/ \E o \in Callers \ {c} : cpc[o] # "idle")
Begins(c, x, to)  == Goes(c, "idle", to) /\ arg' = [arg EXCEPT ![c] = x]
Calls(c, x, to)   == Begins(c, x, to) /\ mpc # "stopped"
Returns(c, from)  == Goes(c, from, "idle") /\ arg' = [arg EXCEPT ![c] = None]
BcastGoes(from, to) == bpc = from /\ bpc' = to

(* _recalculate_needs_parsing, for the lists as the action leaves them        *)
Parsing(dests, frameSubs) == frameSubs # {} \/ dests \cap Filtered # {}
Recalculate ==
  /\ needs' = Parsing(listed', subs')
  /\ tail' = IF needs /\ ~needs' THEN 0 ELSE tail

-----------------------------------------------------------------------------
(* Faulty forms of actions below: plausible bugs that the properties must    *)
(* exclude.  No specification uses them.                                     *)

RemoveForgettingSubscribers(c) ==
  \E d \in listed :
    /\ LockFree /\ Calls(c, d, "stop")
    /\ listed' = listed \ {d}
    /\ needs' = Parsing(listed', {}) /\ tail' = 0
    /\ UNCHANGED <<subVars, fresh, enabled, started, stopVars, bcastVars>>

RemoveWithoutStop(c) ==
  /\ Returns(c, "stop")
  /\ UNCHANGED <<stopVars, destVars, subVars, needs, bcastVars, tail>>

SubscribeUnchecked(c) ==
  \E s \in Subs \ issued :
    /\ LockFree /\ Calls(c, None, "idle")
    /\ issued' = issued \cup {s} /\ subs' = subs \cup {s}
    /\ UNCHANGED <<closed, destVars, stopVars, bcastVars>>
    /\ Recalculate

-----------------------------------------------------------------------------
(* The calls of the API threads.                                           *)

(* add_destination: the duplicate check and the append are one locked block,  *)
(* then _running is read, then dest.start() is called                         *)
AddDestination(c) ==
  \E d \in fresh :
    /\ LockFree
    /\ fresh' = fresh \ {d}
    /\ \/ /\ \A e \in listed : NameOf[e] # NameOf[d]
          /\ Calls(c, d, "added")
          /\ listed' = listed \cup {d}
       \/ /\ \E e \in listed : NameOf[e] = NameOf[d]
          /\ Calls(c, None, "idle")
          /\ UNCHANGED listed
    /\ UNCHANGED <<subVars, enabled, started, stopVars, bcastVars>>
    /\ Recalculate

AddCheckRunning(c) ==
  /\ \/ running  /\ Goes(c, "added", "start") /\ UNCHANGED arg
     \/ ~running /\ Returns(c, "added")
  /\ UNCHANGED <<stopVars, destVars, subVars, needs, bcastVars, tail>>

(* dest.start() at the end of add_destination and of start_destination        *)
StartThread(c) ==
  /\ Returns(c, "start")
  /\ started' = started \cup {arg[c]}
  /\ UNCHANGED <<stopVars, listed, fresh, enabled, subVars, needs, bcastVars, tail>>

(* remove_destination: popped under the lock, stopped after it               *)
RemoveDestination(c) ==
  \E d \in listed :
    /\ LockFree
    /\ Calls(c, d, "stop")
    /\ listed' = listed \ {d}
    /\ UNCHANGED <<subVars, fresh, enabled, started, stopVars, bcastVars>>
    /\ Recalculate

(* dest.stop() at the end of remove_destination and of stop_destination       *)
StopThread(c) ==
  /\ Returns(c, "stop")
  /\ started' = started \ {arg[c]}
  /\ UNCHANGED <<stopVars, listed, fresh, enabled, subVars, needs, bcastVars, tail>>

(* stop_destination and start_destination look the name up under the lock,    *)
(* set enabled, and then call dest.stop() or dest.start()                     *)
FindDestination(c) ==
  \E d \in listed, to \in {"disable", "enable"} :
    /\ LockFree
    /\ Calls(c, d, to)
    /\ UNCHANGED <<stopVars, destVars, subVars, needs, bcastVars, tail>>

StopDestination(c) ==
  /\ Goes(c, "disable", "stop")
  /\ enabled' = enabled \ {arg[c]}
  /\ UNCHANGED <<stopVars, listed, fresh, started, subVars, needs, arg, bcastVars, tail>>

StartDestination(c) ==
  /\ Goes(c, "enable", "start")
  /\ enabled' = enabled \cup {arg[c]}
  /\ UNCHANGED <<stopVars, listed, fresh, started, subVars, needs, arg, bcastVars, tail>>

(* subscribe_frames and add_frame_subscriber: _running is read under the lock *)
AddFrameSubscriber(c) ==
  \E s \in Subs \ issued :
    /\ LockFree
    /\ issued' = issued \cup {s}
    /\ \/ running  /\ subs' = subs \cup {s} /\ Calls(c, None, "idle")
       \/ ~running /\ UNCHANGED subs /\ Calls(c, s, "closing")
    /\ UNCHANGED <<closed, destVars, stopVars, bcastVars>>
    /\ IF running THEN Recalculate ELSE UNCHANGED <<needs, tail>>

(* FrameSubscription.close: the test of _closed, its set(), and then          *)
(* remove_frame_subscriber; it needs no engine                               *)
CloseSubscription(c) ==
  \E s \in issued \ closed :
    /\ Begins(c, s, "closing")
    /\ UNCHANGED <<stopVars, destVars, subVars, needs, bcastVars, tail>>

SetClosed(c) ==
  /\ Goes(c, "closing", "detach")
  /\ closed' = closed \cup {arg[c]}
  /\ UNCHANGED <<stopVars, destVars, subs, issued, needs, arg, bcastVars, tail>>

RemoveFrameSubscriber(c) ==
  /\ LockFree
  /\ Returns(c, "detach")
  /\ subs' = subs \ {arg[c]}
  /\ UNCHANGED <<stopVars, destVars, closed, issued, bcastVars>>
  /\ Recalculate

-----------------------------------------------------------------------------
(* BroadcastHub.stop().                                                     *)

Stop ==
  /\ mpc = "running" /\ mpc' = "join"
  /\ running' = FALSE
  /\ UNCHANGED <<todo, raised, destVars, subVars, needs, callVars, bcastVars, tail>>

(* the input thread refills the slot that was freed for the pill: queue.Full      *)
(* leaves stop(), and the engine still counts as running                      *)
StopRaises ==
  /\ mpc = "join" /\ mpc' = "failed" /\ raised' = TRUE
  /\ UNCHANGED <<todo, running, destVars, subVars, needs, callVars, bcastVars, tail>>

(* the broadcast thread is joined, then the lock is taken for the loop        *)
JoinBroadcast ==
  /\ mpc = "join" /\ mpc' = "stopDests"
  /\ bpc = "off"
  /\ todo' = listed
  /\ UNCHANGED <<running, raised, destVars, subVars, needs, callVars, bcastVars, tail>>

StopOne ==
  /\ mpc = "stopDests"
  /\ \E d \in todo : todo' = todo \ {d} /\ started' = started \ {d}
  /\ UNCHANGED <<mpc, running, raised, listed, fresh, enabled, subVars, needs, callVars, bcastVars, tail>>

(* dest.stop() raises queue.Full as well, when a caller that stops the same       *)
(* destination has filled the slot it freed (base_destination.py:209-211)       *)
StopOneRaises ==
  /\ mpc = "stopDests" /\ mpc' = "failed" /\ raised' = TRUE /\ todo' = {}
  /\ \E d \in todo \cap started :
       /\ \E c \in Callers : cpc[c] = "stop" /\ arg[c] = d
       /\ started' = started \ {d}
  /\ UNCHANGED <<running, listed, fresh, enabled, subVars, needs, callVars, bcastVars, tail>>

(* the lock is released and taken again to copy the subscribers              *)
Unlock ==
  /\ mpc = "stopDests" /\ todo = {} /\ mpc' = "collect"
  /\ UNCHANGED <<todo, running, raised, destVars, subVars, needs, callVars, bcastVars, tail>>

CollectSubscribers ==
  /\ mpc = "collect" /\ mpc' = "closeSubs"
  /\ todo' = subs
  /\ UNCHANGED <<running, raised, destVars, subVars, needs, callVars, bcastVars, tail>>

(* sub.close(), a no-op if it is closed already                              *)
CloseOne ==
  /\ mpc = "closeSubs"
  /\ \E s \in todo :
       /\ todo' = todo \ {s}
       /\ closed' = closed \cup {s}
       /\ subs' = IF s \in closed THEN subs ELSE subs \ {s}
  /\ UNCHANGED <<mpc, running, raised, destVars, issued, callVars, bcastVars>>
  /\ Recalculate

(* the frame buffer is cleared, stop() returns and the engine has stopped     *)
Stopped ==
  /\ mpc = "closeSubs" /\ todo = {} /\ mpc' = "stopped"
  /\ tail' = 0
  /\ UNCHANGED <<todo, running, raised, destVars, subVars, needs, callVars, bcastVars>>

(* engine.stop() after one that raised: hub.stop() returns at once                *)
StopAgain ==
  /\ mpc = "failed" /\ mpc' = "stopped"
  /\ UNCHANGED <<todo, running, raised, destVars, subVars, needs, callVars, bcastVars, tail>>

-----------------------------------------------------------------------------
(* The broadcast thread.                                                   *)

TakeChunk ==
  /\ running /\ chunk < MaxChunks
  /\ BcastGoes("loop", "flag")
  /\ chunk' = chunk + 1
  /\ UNCHANGED <<stopVars, destVars, subVars, needs, callVars, snapshot, seen, tail>>

BroadcastEnds ==
  /\ ~running
  /\ BcastGoes("loop", "off")
  /\ UNCHANGED <<stopVars, destVars, subVars, needs, callVars, chunk, snapshot, seen, tail>>

(* if self._any_needs_parsing, read without the lock                         *)
ReadNeeds ==
  /\ BcastGoes("flag", IF needs THEN "parse" ELSE "copyRaw")
  /\ UNCHANGED <<stopVars, destVars, subVars, needs, callVars, chunk, snapshot, seen, tail>>

(* _parse_frames: the chunk is appended to the buffer, complete Frames are    *)
(* taken out, and a partial one may stay                                     *)
ParseFrames ==
  /\ BcastGoes("parse", "copy")
  /\ tail' \in {0, chunk}
  /\ UNCHANGED <<stopVars, destVars, subVars, needs, callVars, chunk, snapshot, seen>>

CopyLists ==
  /\ LockFree
  /\ \/ BcastGoes("copy", "frames") \/ BcastGoes("copyRaw", "raw")
  /\ snapshot' = [dests |-> listed, subs |-> subs]
  /\ UNCHANGED <<stopVars, destVars, subVars, needs, callVars, chunk, seen, tail>>

(* _distribute_raw: every enabled destination gets the chunk                 *)
DistributeRaw ==
  /\ BcastGoes("raw", "loop")
  /\ snapshot' = NoSnapshot
  /\ UNCHANGED <<stopVars, destVars, subVars, needs, callVars, chunk, seen, tail>>

(* _distribute_filtered: open subscribers get the Frames, unfiltered enabled  *)
(* destinations the chunk, filtered ones the Frames that pass                 *)
DistributeFiltered ==
  /\ BcastGoes("frames", "loop")
  /\ seen' = [s \in Subs |-> IF s \in snapshot.subs \ closed THEN seen[s] \cup {chunk} ELSE seen[s]]
  /\ snapshot' = NoSnapshot
  /\ UNCHANGED <<stopVars, destVars, subVars, needs, callVars, chunk, tail>>

-----------------------------------------------------------------------------
Init ==
  /\ mpc = "running" /\ todo = {} /\ running = TRUE /\ raised = FALSE
  /\ listed = Initial /\ fresh = Dests \ Initial
  /\ enabled = Enabled /\ started = Initial
  /\ subs = {} /\ closed = {} /\ issued = {}
  /\ needs = Parsing(Initial, {})
  /\ cpc = [c \in Callers |-> "idle"] /\ arg = [c \in Callers |-> None]
  /\ overlapped = FALSE
  /\ bpc = "loop" /\ chunk = 0 /\ snapshot = NoSnapshot
  /\ tail = 0 /\ seen = [s \in Subs |-> {}]

CallerSteps(c) ==
  \/ AddDestination(c) \/ AddCheckRunning(c) \/ StartThread(c)
  \/ RemoveDestination(c) \/ StopThread(c)
  \/ FindDestination(c) \/ StopDestination(c) \/ StartDestination(c)
  \/ AddFrameSubscriber(c) \/ CloseSubscription(c) \/ SetClosed(c) \/ RemoveFrameSubscriber(c)
StopSteps ==
  \/ Stop \/ StopRaises \/ JoinBroadcast \/ StopOne \/ StopOneRaises
  \/ Unlock \/ CollectSubscribers \/ CloseOne \/ Stopped \/ StopAgain
BroadcastSteps ==
  \/ TakeChunk \/ BroadcastEnds \/ ReadNeeds \/ ParseFrames
  \/ CopyLists \/ DistributeRaw \/ DistributeFiltered
CallersIdle == \A c \in Callers : cpc[c] = "idle"
Rest == mpc = "stopped" /\ CallersIdle /\ UNCHANGED vars

Next == (\E c \in Callers : CallerSteps(c)) \/ StopSteps \/ BroadcastSteps \/ Rest
Spec == Init /\ [][Next]_vars

-----------------------------------------------------------------------------
(* Properties.                                                             *)

TypeOK ==
  /\ mpc \in {"running", "join", "stopDests", "collect", "closeSubs", "stopped", "failed"}
  /\ todo \subseteq Dests \cup Subs /\ running \in BOOLEAN /\ raised \in BOOLEAN
  /\ listed \subseteq Dests /\ fresh \subseteq Dests
  /\ enabled \subseteq Dests /\ started \subseteq Dests
  /\ subs \subseteq Subs /\ closed \subseteq Subs /\ issued \subseteq Subs
  /\ needs \in BOOLEAN
  /\ cpc \in [Callers -> {"idle", "added", "start", "stop", "disable", "enable",
                          "closing", "detach"}]
  /\ arg \in [Callers -> Dests \cup Subs \cup {None}] /\ overlapped \in BOOLEAN
  /\ bpc \in {"loop", "flag", "parse", "copy", "copyRaw", "raw", "frames", "off"}
  /\ chunk \in 0 .. MaxChunks /\ tail \in 0 .. MaxChunks
  /\ snapshot \in [dests : SUBSET Dests, subs : SUBSET Subs]
  /\ seen \in [Subs -> SUBSET (1 .. MaxChunks)]

(* "A subscription added while the hub is stopping is either ended by stop() or    *)
(* refused here, never left open" (broadcast_hub.py:326), as long as queue.Full did   *)
(* not leave stop().  If it did, those that were added before stop() began may stay    *)
(* open, but they are listed still: none is open that the hub has forgotten.           *)
SubscriptionsEnd ==
  CallersIdle =>
    /\ issued \ closed \subseteq subs
    /\ mpc = "stopped" /\ ~raised => issued \subseteq closed

(* The cached flag always agrees with the lists it is derived from, and so a   *)
(* subscriber misses no chunk between the first and the last whose Frames it   *)
(* was offered: other callers' changes never put the hub back on the raw path.  *)
SubscriberSeesAll ==
  /\ needs = Parsing(listed, subs)
  /\ \A s \in Subs : \A n \in seen[s], m \in seen[s] : n .. m \subseteq seen[s]

(* Names stay unique when two callers add the same one.  And as long as no two  *)
(* calls overlap, a destination that was removed has no thread that runs,       *)
(* whatever stop() and the broadcast thread do meanwhile, and an enabled one of  *)
(* a running hub has.                                                        *)
ThreadsFollowList ==
  /\ TypeOK
  /\ \A d, e \in listed : NameOf[d] = NameOf[e] => d = e
  /\ CallersIdle /\ ~overlapped => started \subseteq listed
  /\ CallersIdle /\ mpc = "running" /\ ~overlapped => listed \cap enabled \subseteq started
=============================================================================
