------------------------------- MODULE Service -------------------------------
(***************************************************************************)
(* The relay service (main.py): it loads its configuration, builds and starts *)
(* the parts, runs until it is told to stop, and stops them.                  *)
(*                                                                          *)
(* Everything here is the main thread.  A signal handler runs on top of        *)
(* whatever that thread is doing, so the thread is a stack of frames: main()   *)
(* at the bottom, one more for each signal; only the top one moves.  A lock     *)
(* that a lower frame holds is never released while a higher one wants it.      *)
(* The hub's and the destinations' own threads appear as what start() and       *)
(* stop() leave running.                                                     *)
(***************************************************************************)
EXTENDS Configuration

CONSTANTS
  Files,       (* the configuration files that are tried                     *)
  Envs,        (* the environments that are tried                            *)
  MaxSignals   (* bound: SIGTERM and SIGINT received                         *)

ASSUME ServiceAssumption == MaxSignals \in Nat
ASSUME FilesAssumption ==              (* what from_dict looks for, missing or not *)
  \A f \in Files :
    /\ DOMAIN f = {"v1", "source", "input", "destinations", "metrics"}
    /\ \A i \in DOMAIN f.destinations :
         /\ DOMAIN f.destinations[i] = {"name", "type", "enabled", "mode", "ids", "config"}
         /\ f.destinations[i].ids \subseteq {"id", "outside"}

VARIABLES
  file, env,  (* what the service was started with, until it is built        *)
  conf,       (* what is left of it: is the input an NTRIP client, how many    *)
              (* destinations, metrics                                     *)
  frames,     (* the main thread: where each frame is, the lock it holds, and   *)
              (* how the process ends when it returns                        *)
  running,    (* _running                                                   *)
  shutdown,   (* _shutdown_requested                                        *)
  hub,        (* the hub: none, "idle" (not _running) or "running"            *)
  dests,      (* the destinations whose threads run                          *)
  input,      (* is the input source connected?                              *)
  metrics,    (* is the metrics server marked as running?                     *)
  exit,       (* how the process ended: not yet, "ok" (0) or "error" (1)      *)
  signals,    (* history: signals received                                   *)
  orderly,    (* history: did every signal find main() in its run loop?        *)
  swallowed   (* history: did _update_metrics catch the error of a stop()?       *)

conditions == <<file, env, conf>>
parts == <<hub, dests, input, metrics>>
history == <<signals, orderly, swallowed>>
serviceVars == <<conditions, frames, running, shutdown, parts, exit, history>>

NoFile == [v1 |-> FALSE, source |-> "read", input |-> NoFields, destinations |-> <<>>, metrics |-> "off"]
NoEnv == [source |-> "unset", input |-> {}, destinations |-> {}]
Top == frames[Len(frames)]
InMain == Len(frames) = 1
AtTop(label) == exit = "none" /\ Top.at = label
To(label) == frames' = [frames EXCEPT ![Len(frames)].at = label, ![Len(frames)].lock = "none"]
Holding(lock, label) == frames' = [frames EXCEPT ![Len(frames)].at = label, ![Len(frames)].lock = lock]
HeldBelow(lock) == \E i \in 1 .. Len(frames) - 1 : frames[i].lock = lock
Exit(how) == exit' = how /\ UNCHANGED frames

Starting == {"load", "metrics", "input", "destinations", "connect", "starting", "launch", "started", "begin",
             "cleanup"}
Looping  == {"check", "update", "updating", "sleep"}
Stopping == {"stop", "hubStop", "join", "stopDests", "disconnect", "drain", "again", "unlock",
             "metricsStop", "lower", "stopped"}

-----------------------------------------------------------------------------
(* An exception (SystemExit from a handler, "ok"; an error, "error") leaves the  *)
(* handlers and reaches main().  In run() it ends the loop, and finally calls     *)
(* stop(), but _update_metrics catches an error and the loop goes on; start()     *)
(* cleans up after an error; nothing else on the way has a handler.             *)
MainAt(label, how) == frames' = <<[at |-> label, lock |-> "none", ends |-> how]>> /\ UNCHANGED exit
Unwind(how) ==
  LET at == IF InMain THEN "none" ELSE frames[1].at
  IN  \/ how = "error" /\ at = "updating" /\ MainAt("sleep", "ok")
      \/ how = "error" /\ at = "begin" /\ MainAt("cleanup", "error")
      \/ at \in Looping /\ (how = "error" => at # "updating") /\ MainAt("stop", how)
      \/ at \notin Looping /\ Exit(how)

(* Faulty forms of definitions below: plausible bugs that the properties must  *)
(* exclude.  No specification uses them.                                     *)

HubLeftRunning ==
  /\ AtTop("hubStop") /\ To("again")
  /\ UNCHANGED <<conditions, running, shutdown, parts, exit, history>>

StopWaitsForLoop ==
  /\ AtTop("stop") /\ frames[1].at \notin Looping
  /\ IF running THEN To("hubStop") ELSE To("stopped")
  /\ shutdown' = (shutdown \/ running)
  /\ UNCHANGED <<conditions, running, parts, exit, history>>

-----------------------------------------------------------------------------
(* main(): the configuration is loaded, then SPBaseRelayService.start()        *)

LoadConfig ==
  /\ AtTop("load")
  /\ \E loaded \in {Overridden(file, env)} :
       IF Accepted(loaded)
       THEN /\ file' = loaded
            /\ To("metrics") /\ UNCHANGED exit
       ELSE /\ Exit("error") /\ UNCHANGED file
  /\ UNCHANGED <<env, conf, running, shutdown, parts, history>>

(* --validate                                                                *)
ValidateOnly ==
  /\ AtTop("load") /\ Accepted(Overridden(file, env)) /\ Exit("ok")
  /\ UNCHANGED <<conditions, running, shutdown, parts, history>>

StartMetrics ==
  /\ AtTop("metrics")
  /\ \/ file.metrics = "off" /\ To("input") /\ UNCHANGED metrics
     \/ file.metrics = "on" /\ To("input") /\ metrics' = TRUE
     \/ file.metrics = "on" /\ To("cleanup") /\ UNCHANGED metrics     (* the port is taken *)
  /\ UNCHANGED <<conditions, running, shutdown, hub, dests, input, exit, history>>

CreateInput ==
  /\ AtTop("input")
  /\ To(IF InputBuilds(file.source, file.input) THEN "destinations" ELSE "cleanup")
  /\ UNCHANGED <<conditions, running, shutdown, parts, exit, history>>

CreateDestinations ==
  /\ AtTop("destinations")
  /\ \/ /\ \A i \in DOMAIN file.destinations : DestinationBuilds(file.destinations[i])
        /\ To("connect")
        /\ conf' = [ntrip |-> file.source = "ntrip", count |-> Len(file.destinations)]
     \/ /\ \E i \in DOMAIN file.destinations : ~DestinationBuilds(file.destinations[i])
        /\ To("cleanup") /\ UNCHANGED conf
  /\ UNCHANGED <<file, env, running, shutdown, parts, exit, history>>

(* _start_hub and BroadcastHub.start: from here on the files no longer matter    *)
ConnectInput ==
  /\ AtTop("connect") /\ hub' = "idle"
  /\ \/ input' = TRUE /\ Holding("destinations", "starting")
     \/ input' = FALSE /\ To("cleanup")
  /\ file' = NoFile /\ env' = NoEnv
  /\ UNCHANGED <<conf, running, shutdown, dests, metrics, exit, history>>

StartDestination ==
  /\ AtTop("starting")
  /\ \E d \in 1 .. conf.count \ dests :
       \/ dests' = dests \cup {d} /\ UNCHANGED frames
       \/ To("cleanup") /\ UNCHANGED dests                     (* no thread to be had *)
  /\ UNCHANGED <<conditions, running, shutdown, hub, input, metrics, exit, history>>

Launch ==
  /\ AtTop("starting") /\ dests = 1 .. conf.count
  /\ To("launch")
  /\ UNCHANGED <<conditions, running, shutdown, parts, exit, history>>

HubStarted ==
  /\ AtTop("launch") /\ To("started") /\ hub' = "running"
  /\ UNCHANGED <<conditions, running, shutdown, dests, input, metrics, exit, history>>

Started ==
  /\ AtTop("started") /\ To("begin") /\ running' = TRUE
  /\ UNCHANGED <<conditions, shutdown, parts, exit, history>>

(* start() returns, and run() enters its loop                                  *)
EnterLoop ==
  /\ AtTop("begin") /\ To("check")
  /\ UNCHANGED <<conditions, running, shutdown, parts, exit, history>>

(* _cleanup: hub.stop() finds a hub that does not run                          *)
Cleanup ==
  /\ AtTop("cleanup") /\ Exit("error")
  /\ input' = FALSE /\ metrics' = FALSE
  /\ UNCHANGED <<conditions, running, shutdown, hub, dests, history>>

-----------------------------------------------------------------------------
(* run()                                                                    *)

Check ==
  /\ AtTop("check")
  /\ To(IF shutdown THEN "stop" ELSE "update")
  /\ UNCHANGED <<conditions, running, shutdown, parts, exit, history>>

(* _update_metrics, inside its try: the depth of a queue and the state of a client *)
(* are read under their locks, the rest without                                *)
Update ==
  /\ AtTop("update")
  /\ IF metrics THEN \E lock \in {"none", "stats"} : Holding(lock, "updating") ELSE To("sleep")
  /\ UNCHANGED <<conditions, running, shutdown, parts, exit, history>>

Updated ==
  /\ AtTop("updating") /\ To("sleep")
  /\ UNCHANGED <<conditions, running, shutdown, parts, exit, history>>

Sleep ==
  /\ AtTop("sleep") /\ To("check")
  /\ UNCHANGED <<conditions, running, shutdown, parts, exit, history>>

-----------------------------------------------------------------------------
(* stop(), and BroadcastHub.stop() inside it                                  *)

StopService ==
  /\ AtTop("stop")
  /\ \/ running /\ shutdown' = TRUE /\ To("hubStop")
     \/ ~running /\ UNCHANGED shutdown /\ To("stopped")
  /\ UNCHANGED <<conditions, running, parts, exit, history>>

HubStop ==
  /\ AtTop("hubStop")
  /\ \/ hub = "running" /\ hub' = "idle" /\ To("join")
     \/ hub # "running" /\ UNCHANGED hub /\ To("again")
  /\ UNCHANGED <<conditions, running, shutdown, dests, input, metrics, exit, history>>

(* queue.Full from the second put of the pill: stop() raises a ServiceError      *)
HubStopRaises ==
  /\ AtTop("join") /\ Unwind("error")
  /\ swallowed' = (swallowed \/ frames[1].at = "updating")
  /\ UNCHANGED <<conditions, running, shutdown, parts, signals, orderly>>

(* the joins return or give up; then the destinations, under the lock            *)
JoinHub ==
  /\ AtTop("join") /\ ~HeldBelow("destinations")
  /\ Holding("destinations", "stopDests")
  /\ UNCHANGED <<conditions, running, shutdown, parts, exit, history>>

(* a pill is put in the queue and the client is disconnected, under their locks   *)
StopDestination ==
  /\ AtTop("stopDests") /\ ~HeldBelow("stats")
  /\ \E d \in dests : dests' = dests \ {d}
  /\ UNCHANGED <<conditions, frames, running, shutdown, hub, input, metrics, exit, history>>

DestinationsStopped ==
  /\ AtTop("stopDests") /\ dests = {} /\ To("disconnect")
  /\ UNCHANGED <<conditions, running, shutdown, parts, exit, history>>

(* the input is disconnected by hub.stop() ("disconnect") and again by stop()     *)
(* ("again"); an NTRIP input does it under its lock                            *)
Disconnect ==
  /\ AtTop("disconnect") \/ AtTop("again")
  /\ input' = FALSE
  /\ \E after \in {IF Top.at = "disconnect" THEN "drain" ELSE "unlock"} :
       \/ conf.ntrip /\ ~HeldBelow("source") /\ Holding("source", after)
       \/ ~conf.ntrip /\ To(after)
  /\ UNCHANGED <<conditions, running, shutdown, hub, dests, metrics, exit, history>>

Disconnected ==
  /\ \/ AtTop("drain") /\ To("again")
     \/ AtTop("unlock") /\ To("metricsStop")
  /\ UNCHANGED <<conditions, running, shutdown, parts, exit, history>>

StopMetrics ==
  /\ AtTop("metricsStop") /\ metrics' = FALSE /\ To("lower")
  /\ UNCHANGED <<conditions, running, shutdown, hub, dests, input, exit, history>>

Lower ==
  /\ AtTop("lower") /\ running' = FALSE /\ To("stopped")
  /\ UNCHANGED <<conditions, shutdown, parts, exit, history>>

(* main() returns; a handler calls sys.exit(0)                                 *)
Return ==
  /\ AtTop("stopped") /\ Unwind(Top.ends)
  /\ UNCHANGED <<conditions, running, shutdown, parts, history>>

(* signal_handler, once setup_signal_handlers has run                          *)
Signal ==
  /\ exit = "none" /\ Top.at # "load" /\ signals < MaxSignals
  /\ frames' = Append(frames, [at |-> "stop", lock |-> "none", ends |-> "ok"])
  /\ signals' = signals + 1
  /\ orderly' = (orderly /\ InMain /\ Top.at \in Looping)
  /\ UNCHANGED <<conditions, running, shutdown, parts, exit, swallowed>>

-----------------------------------------------------------------------------
ServiceInit ==
  /\ file \in Files /\ env \in Envs /\ conf = [ntrip |-> FALSE, count |-> 0]
  /\ frames = <<[at |-> "load", lock |-> "none", ends |-> "ok"]>>
  /\ running = FALSE /\ shutdown = FALSE
  /\ hub = "none" /\ dests = {} /\ input = FALSE /\ metrics = FALSE
  /\ exit = "none" /\ signals = 0 /\ orderly = TRUE /\ swallowed = FALSE

Main ==
  \/ LoadConfig \/ ValidateOnly \/ StartMetrics \/ CreateInput \/ CreateDestinations
  \/ ConnectInput \/ StartDestination \/ Launch \/ HubStarted \/ Started \/ EnterLoop \/ Cleanup
  \/ Check \/ Update \/ Updated \/ Sleep
  \/ StopService \/ HubStop \/ HubStopRaises \/ JoinHub \/ StopDestination \/ DestinationsStopped
  \/ Disconnect \/ Disconnected \/ StopMetrics \/ Lower \/ Return
ServiceNext == Main \/ Signal

ServiceSpec == ServiceInit /\ [][ServiceNext]_serviceVars

(* the main thread runs; nobody has to send a signal                           *)
FairServiceSpec == ServiceSpec /\ WF_serviceVars(Main)

-----------------------------------------------------------------------------
(* Properties.                                                             *)

Frame == [at : Starting \cup Looping \cup Stopping,
          lock : {"none", "destinations", "stats", "source"}, ends : {"ok", "error"}]

(* "graceful shutdown" (main.py:385): when a signal stops the service in its run    *)
(* loop, the hub has stopped, the input is closed and so is the metrics server by    *)
(* the time the process ends, even after a stop() that raised; and with code 0 every  *)
(* destination has stopped too, unless _update_metrics caught that error.  A service  *)
(* that could not start releases what it had taken, whichever part failed: _cleanup   *)
(* runs on every error of start().                                            *)
TidyExit ==
  /\ \A i \in DOMAIN frames : frames[i] \in Frame
  /\ exit # "none" /\ orderly /\ shutdown =>
       /\ hub = "idle" /\ ~input /\ ~metrics
       /\ exit = "ok" /\ ~swallowed => dests = {}
  /\ exit = "error" /\ ~shutdown => hub # "running" /\ ~input /\ ~metrics

(* A configuration that was accepted can be built, except for the two checks that   *)
(* config.py leaves to the constructors: the settings of a Bluetooth input and      *)
(* the range of message numbers.                                              *)
AcceptedBuilds ==
  AtTop("cleanup") /\ file.source # "read" =>
    \/ file.metrics = "on" /\ ~metrics
    \/ file.source = "bluetooth"
    \/ \E i \in DOMAIN file.destinations : "outside" \in file.destinations[i].ids

(* Overrides that the documentation allows, of the fields of their own destinations *)
(* or of the input in use, leave a good file good: each value fits its field, and    *)
(* what the variables and the file then say of one destination goes together.       *)
(* Variables of another input kind and destinations whose name begins another's      *)
(* name are the exceptions.                                                   *)
Says(class, v) == IF v.value \in InRange /\ class[v.field] \notin {"number", "choice"} THEN "text" ELSE v.value
Fits(class, v) == v.field \in DOMAIN class /\ Valid(Says(class, v), class[v.field])
ClassOf(type) ==
  CASE type = "surepath" -> SurePathDestinationConfig [] type = "ntrip" -> NtripDestinationConfig
    [] OTHER -> TcpServerDestinationConfig
Meant(dest, field, default) ==
  LET given == {v \in env.destinations : Matches(dest.name, v) /\ v.field = field}
  IN  IF given = {} THEN {Get(dest.config, field, default)} ELSE {Says(ClassOf(dest.type), v) : v \in given}
GoTogether(dest) ==
  /\ \A first \in Meant(dest, "retry_initial_delay", "num"), longest \in Meant(dest, "retry_max_delay", "num") :
       InOrder(first, longest)
  /\ dest.type = "ntrip" =>
       \A version \in Meant(dest, "version", "text"), username \in Meant(dest, "username", "empty") :
         version = "v1" \/ username \in {"text", "v1"}
Sensible ==
  /\ env.source = "unset"
  /\ \A v \in env.input :
       /\ v.group = IF file.source = "usb_serial" THEN "serial" ELSE file.source
       /\ Fits(IF v.group = "tcp" THEN TCPInputConfig ELSE SerialInputConfig, v)
  /\ \A i \in DOMAIN file.destinations :
       /\ \A v \in env.destinations : Matches(file.destinations[i].name, v) =>
            file.destinations[i].name = v.parts /\ Fits(ClassOf(file.destinations[i].type), v)
       /\ GoTogether(file.destinations[i])
OverridesHarmless ==
  Top.at = "load" /\ exit = "error" /\ Sensible => ~Accepted(file)

(* Every signal ends the process, unless it caught main() with a lock that         *)
(* stopping needs: the statistics of a destination, or the lock of an NTRIP input.  *)
Caught == exit = "none" /\ \E i \in 1 .. Len(frames) - 1 : frames[i].lock \in {"stats", "source"}
SignalEnds == signals > 0 ~> exit # "none" \/ Caught
=============================================================================
