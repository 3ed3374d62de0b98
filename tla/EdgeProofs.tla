------------------------------ MODULE EdgeProofs ------------------------------
(***************************************************************************)
(* Theorems about the edges of the relay: the input (InputSources), the        *)
(* Bluetooth devices behind it (BluetoothManager) and the process that runs it *)
(* all (Service).                                                            *)
(***************************************************************************)
EXTENDS BluetoothManager, InputSources, Service, SequenceTheorems, TLAPS

(***************************************************************************)
(* 1. The input source, for every kind of input, every policy and every number *)
(* of failures.                                                             *)
(***************************************************************************)
(* Where a thread can be: each kind has its own way through connect(); stop() has   *)
(* cleared the flag, and what is still under way after its join is the connect()     *)
(* that it gave up, or what comes after that.                                  *)
Setup   == {"attempt", "generation", "prepare", "open", "install"}
Stopped == {"disconnect", "clear", "done"}
Places ==
  /\ active <=> spc = "idle"
  /\ tpc \in {"generation", "install"} => kind = "ntrip"
  /\ tpc = "prepare" => kind = "bluetooth"
  /\ tpc = "health" => kind = "serial"
  /\ fresh => tpc \in {"open", "install"} /\ kind \in {"bluetooth", "ntrip"}
  /\ spc = "clear" => kind # "ntrip"
  /\ gaveUp => spc \in Stopped
  /\ spc \in Stopped =>
       /\ tpc \notin {"attempt", "generation", "read"}
       /\ ~gaveUp => tpc = "off"

(* Until stop() disconnects: between connect() calls flag and connection agree, and     *)
(* during one there is neither, but for the port that is being tested.             *)
Agrees ==
  spc \in {"idle", "join"} =>
    /\ tpc \in {"loop", "read", "off"} => (connected => held # "none") /\ (held = "live" => connected)
    /\ tpc \in Setup \cup {"health", "failed", "wait"} => ~connected
    /\ tpc \in Setup \cup {"failed", "wait"} => held # "live"

(* Once stop() has disconnected: nothing is held, and a connect() that outlived the join  *)
(* of stop() will see that it was overtaken, or that its socket is gone.             *)
Released ==
  /\ spc \in {"clear", "done"} /\ (kind \in {"tcp", "ntrip"} \/ ~gaveUp) => held = "none"
  /\ spc = "done" /\ kind = "ntrip" => overtaken

ConnInv == InputTypeOK /\ Places /\ Agrees /\ Released

(* The delay while an attempt is under way is the one the next failure will wait, and   *)
(* afterwards the one it waits.                                                 *)
Policy(n) == Least(InitialDelay * Multiplier ^ n, MaxDelay)
Waiting ==
  /\ tpc \in Setup \cup {"health"} =>
       IF refusedFor THEN delay = MaxDelay ELSE failures < MaxFailures => delay = Policy(failures)
  /\ tpc \in {"failed", "wait"} /\ failures < MaxFailures => failures >= 1
  /\ tpc = "failed" /\ ~persistent =>
       IF refusedFor THEN delay = MaxDelay ELSE failures < MaxFailures => delay = Policy(failures - 1)
  /\ tpc = "wait" =>
       IF refusedFor THEN delay = MaxDelay ELSE failures < MaxFailures => delay = Policy(failures - 1)
  /\ tpc = "failed" /\ persistent => refusedFor
  /\ kind # "ntrip" \/ tpc \in {"open", "install"} => ~persistent

(* Sums and products under a maximum                                          *)
LEMMA Counted == \A n \in 0 .. MaxFailures : Least(n + 1, MaxFailures) \in 0 .. MaxFailures
BY BoundAssumption DEF Least

LEMMA Grows == \A x, m \in Nat : m >= 1 => x * m \in Nat /\ x * m >= x
OBVIOUS

(* Every step keeps the types ...                                              *)
LEMMA TypeStep == InputTypeOK /\ [InputNext]_inputVars => InputTypeOK'
  <1> SUFFICES ASSUME InputTypeOK, [InputNext]_inputVars PROVE InputTypeOK'
    OBVIOUS
  <1> USE PolicyAssumption, BoundAssumption DEF InputTypeOK, Moves, sourceVars, hubVars, waitVars
  <1>1. CASE Loop
    <2>1. CASE active /\ ~connected
      <3>1. failures' \in 0 .. MaxFailures /\ delay' \in Nat
        BY <1>1, <2>1 DEF Loop
      <3>. QED
        BY <1>1, <2>1, <3>1 DEF Loop
    <2>2. CASE ~(active /\ ~connected)
      BY <1>1, <2>2 DEF Loop
    <2>. QED
      BY <2>1, <2>2
  <1>2. CASE Attempt
    BY <1>2 DEF Attempt, NtripDropped
  <1>3. CASE AttemptAfterStop
    BY <1>3 DEF AttemptAfterStop
  <1>4. CASE ReadGeneration
    BY <1>4 DEF ReadGeneration
  <1>5. CASE PrepareDevice
    BY <1>5 DEF PrepareDevice
  <1>6. CASE OpenTcp
    BY <1>6 DEF OpenTcp, Opens
  <1>7. CASE OpenSerial
    BY <1>7 DEF OpenSerial, Opens
  <1>8. CASE PortHealthy
    BY <1>8 DEF PortHealthy
  <1>9. CASE OpenBluetooth
    BY <1>9 DEF OpenBluetooth, Opens
  <1>10. CASE OpenNtrip
    BY <1>10 DEF OpenNtrip, Opens
  <1>11. CASE Install
    BY <1>11, Counted DEF Install
  <1>12. CASE TcpFails
    BY <1>12, Counted DEF TcpFails, Opens, Fails
  <1>13. CASE SerialFails
    BY <1>13, Counted DEF SerialFails, Opens, Fails
  <1>14. CASE BluetoothFails
    BY <1>14, Counted DEF BluetoothFails, Opens, Fails
  <1>15. CASE NtripFails
    BY <1>15, Counted DEF NtripFails, Opens, Fails
  <1>16. CASE BackOff
    BY <1>16 DEF BackOff
  <1>17. CASE WaitOver
    BY <1>17, Grows DEF WaitOver, Least
  <1>18. CASE RetryBusy
    BY <1>18 DEF RetryBusy, inputVars
  <1>19. CASE ReadTcp
    BY <1>19 DEF ReadTcp, ReadOrTimeOut, NoteError
  <1>20. CASE ReadSerial
    BY <1>20 DEF ReadSerial, ReadOrTimeOut, NoteError
  <1>21. CASE ReadBluetooth
    BY <1>21 DEF ReadBluetooth, ReadOrTimeOut, NoteError
  <1>22. CASE ReadNtrip
    BY <1>22 DEF ReadNtrip, ReadPending, ReadOrTimeOut, LoseConnection, NtripDropped
  <1>23. CASE Stop
    BY <1>23 DEF Stop
  <1>24. CASE Join
    BY <1>24 DEF Join
  <1>25. CASE CloseTcp
    BY <1>25 DEF CloseTcp, Forget
  <1>26. CASE CloseSerial
    BY <1>26 DEF CloseSerial, Forget
  <1>27. CASE CloseBluetooth
    BY <1>27 DEF CloseBluetooth, Forget
  <1>28. CASE ClearConnected
    BY <1>28 DEF ClearConnected
  <1>29. CASE DisconnectNtrip
    BY <1>29 DEF DisconnectNtrip, NtripDropped
  <1>30. CASE PeerChanges
    BY <1>30 DEF PeerChanges, Closed
  <1>31. CASE UNCHANGED inputVars
    BY <1>31 DEF inputVars
  <1>. QED
    BY <1>1, <1>2, <1>3, <1>4, <1>5, <1>6, <1>7, <1>8, <1>9, <1>10, <1>11, <1>12, <1>13, <1>14, <1>15, <1>16,
       <1>17, <1>18, <1>19, <1>20, <1>21, <1>22, <1>23, <1>24, <1>25, <1>26, <1>27, <1>28, <1>29, <1>30, <1>31
       DEF InputNext, Connecting, Reading, StopSteps

(* ... keeps flag and connection in agreement, and what stop() released released ... *)
LEMMA ConnStep == ConnInv /\ [InputNext]_inputVars => Places' /\ Agrees' /\ Released'
  <1> SUFFICES ASSUME ConnInv, [InputNext]_inputVars PROVE Places' /\ Agrees' /\ Released'
    OBVIOUS
  <1> USE DEF ConnInv, InputTypeOK, Places, Agrees, Released, Setup, Stopped, Moves, sourceVars, hubVars, waitVars
  <1>1. CASE Loop
    BY <1>1 DEF Loop
  <1>2. CASE Attempt
    BY <1>2 DEF Attempt, NtripDropped
  <1>3. CASE AttemptAfterStop
    BY <1>3 DEF AttemptAfterStop
  <1>4. CASE ReadGeneration
    BY <1>4 DEF ReadGeneration
  <1>5. CASE PrepareDevice
    BY <1>5 DEF PrepareDevice
  <1>6. CASE OpenTcp
    BY <1>6 DEF OpenTcp, Opens
  <1>7. CASE OpenSerial
    BY <1>7 DEF OpenSerial, Opens
  <1>8. CASE PortHealthy
    BY <1>8 DEF PortHealthy
  <1>9. CASE OpenBluetooth
    BY <1>9 DEF OpenBluetooth, Opens
  <1>10. CASE OpenNtrip
    BY <1>10 DEF OpenNtrip, Opens
  <1>11. CASE Install
    BY <1>11 DEF Install
  <1>12. CASE TcpFails
    BY <1>12 DEF TcpFails, Opens, Fails
  <1>13. CASE SerialFails
    BY <1>13 DEF SerialFails, Opens, Fails
  <1>14. CASE BluetoothFails
    BY <1>14 DEF BluetoothFails, Opens, Fails
  <1>15. CASE NtripFails
    BY <1>15 DEF NtripFails, Opens, Fails
  <1>16. CASE BackOff
    BY <1>16 DEF BackOff
  <1>17. CASE WaitOver
    BY <1>17 DEF WaitOver
  <1>18. CASE RetryBusy
    BY <1>18 DEF RetryBusy, inputVars
  <1>19. CASE ReadTcp
    BY <1>19 DEF ReadTcp, ReadOrTimeOut, NoteError
  <1>20. CASE ReadSerial
    BY <1>20 DEF ReadSerial, ReadOrTimeOut, NoteError
  <1>21. CASE ReadBluetooth
    BY <1>21 DEF ReadBluetooth, ReadOrTimeOut, NoteError
  <1>22. CASE ReadNtrip
    BY <1>22 DEF ReadNtrip, ReadPending, ReadOrTimeOut, LoseConnection, NtripDropped
  <1>23. CASE Stop
    BY <1>23 DEF Stop
  <1>24. CASE Join
    BY <1>24 DEF Join
  <1>25. CASE CloseTcp
    BY <1>25 DEF CloseTcp, Forget
  <1>26. CASE CloseSerial
    BY <1>26 DEF CloseSerial, Forget
  <1>27. CASE CloseBluetooth
    BY <1>27 DEF CloseBluetooth, Forget
  <1>28. CASE ClearConnected
    BY <1>28 DEF ClearConnected
  <1>29. CASE DisconnectNtrip
    BY <1>29 DEF DisconnectNtrip, NtripDropped
  <1>30. CASE PeerChanges
    BY <1>30 DEF PeerChanges, Closed
  <1>31. CASE UNCHANGED inputVars
    BY <1>31 DEF inputVars
  <1>. QED
    BY <1>1, <1>2, <1>3, <1>4, <1>5, <1>6, <1>7, <1>8, <1>9, <1>10, <1>11, <1>12, <1>13, <1>14, <1>15, <1>16,
       <1>17, <1>18, <1>19, <1>20, <1>21, <1>22, <1>23, <1>24, <1>25, <1>26, <1>27, <1>28, <1>29, <1>30, <1>31
       DEF InputNext, Connecting, Reading, StopSteps

(* A cap before a product makes no difference to a cap after it: so one step of       *)
(* WaitOver is one step of the policy.                                        *)
LEMMA Capped ==
  \A a, m, c \in Nat : m >= 1 => Least(Least(a, c) * m, c) = Least(a * m, c)
  <1> SUFFICES ASSUME NEW a \in Nat, NEW m \in Nat, NEW c \in Nat, m >= 1
               PROVE  Least(Least(a, c) * m, c) = Least(a * m, c)
    OBVIOUS
  <1>1. CASE a < c
    BY <1>1 DEF Least
  <1>2. CASE c <= a
    <2>1. c * m >= c /\ a * m >= a /\ c * m \in Nat /\ a * m \in Nat
      BY Grows
    <2>. QED
      BY <1>2, <2>1 DEF Least
  <1>. QED
    BY <1>1, <1>2

LEMMA PowerStep ==
  \A n \in 0 .. MaxFailures : Policy(n) \in Nat /\ Least(Policy(n) * Multiplier, MaxDelay) = Policy(n + 1)
  <1> SUFFICES ASSUME NEW n \in 0 .. MaxFailures
               PROVE  Policy(n) \in Nat /\ Least(Policy(n) * Multiplier, MaxDelay) = Policy(n + 1)
    OBVIOUS
  <1> DEFINE p == Multiplier ^ n
             a == InitialDelay * p
  <1>1. p \in Nat /\ Multiplier ^ (n + 1) = p * Multiplier
    BY PowerAssumption
  <1>2. a \in Nat /\ InitialDelay * (p * Multiplier) = a * Multiplier
    BY <1>1, PolicyAssumption
  <1>3. Least(Least(a, MaxDelay) * Multiplier, MaxDelay) = Least(a * Multiplier, MaxDelay)
    BY <1>2, Capped, PolicyAssumption
  <1>4. Least(a, MaxDelay) \in Nat
    BY <1>2, PolicyAssumption DEF Least
  <1>. QED
    BY <1>1, <1>2, <1>3, <1>4 DEF Policy

(* The first wait of an outage, the next count of failures, the wait at the maximum    *)
LEMMA FirstWait == Policy(0) = InitialDelay
BY PowerAssumption, PolicyAssumption DEF Policy, Least

LEMMA OneMore ==
  \A n \in 0 .. MaxFailures : Least(n + 1, MaxFailures) < MaxFailures =>
    Least(n + 1, MaxFailures) = n + 1 /\ Least(n + 1, MaxFailures) - 1 = n /\ n < MaxFailures
BY BoundAssumption DEF Least

LEMMA MaxStays == Least(MaxDelay * Multiplier, MaxDelay) = MaxDelay
BY PolicyAssumption, Grows DEF Least

(* ... and keeps the delay that of the policy.                                  *)
LEMMA WaitStep == ConnInv /\ Waiting /\ [InputNext]_inputVars => Waiting'
  <1> SUFFICES ASSUME ConnInv, Waiting, [InputNext]_inputVars PROVE Waiting'
    OBVIOUS
  <1>t. InputTypeOK /\ InputTypeOK'
    BY TypeStep DEF ConnInv
  <1>f. failures \in 0 .. MaxFailures /\ failures' \in 0 .. MaxFailures /\ refusedFor \in BOOLEAN /\ persistent \in BOOLEAN
    BY <1>t DEF InputTypeOK
  <1>p. Places
    BY DEF ConnInv
  <1> USE <1>f DEF Waiting, Setup, Moves, sourceVars, hubVars, waitVars
  <1>1. CASE Loop
    BY <1>1, FirstWait DEF Loop
  <1>2. CASE Attempt
    BY <1>2 DEF Attempt, NtripDropped
  <1>3. CASE AttemptAfterStop
    BY <1>3 DEF AttemptAfterStop
  <1>4. CASE ReadGeneration
    BY <1>4 DEF ReadGeneration
  <1>5. CASE PrepareDevice
    BY <1>5, <1>p DEF Places, PrepareDevice
  <1>6. CASE OpenTcp
    BY <1>6 DEF OpenTcp, Opens
  <1>7. CASE OpenSerial
    BY <1>7 DEF OpenSerial, Opens
  <1>8. CASE PortHealthy
    BY <1>8 DEF PortHealthy
  <1>9. CASE OpenBluetooth
    BY <1>9 DEF OpenBluetooth, Opens
  <1>10. CASE OpenNtrip
    BY <1>10 DEF OpenNtrip, Opens
  <1>11. CASE Install
    BY <1>11, OneMore DEF Install
  <1>12. CASE TcpFails
    BY <1>12, OneMore DEF TcpFails, Opens, Fails
  <1>13. CASE SerialFails
    BY <1>13, OneMore DEF SerialFails, Opens, Fails
  <1>14. CASE BluetoothFails
    BY <1>14, OneMore DEF BluetoothFails, Opens, Fails
  <1>15. CASE NtripFails
    BY <1>15, OneMore DEF NtripFails, Opens, Fails
  <1>16. CASE BackOff
    BY <1>16 DEF BackOff
  <1>17. CASE WaitOver
    <2>1. CASE refusedFor
      BY <1>17, <2>1, MaxStays DEF WaitOver
    <2>2. CASE ~refusedFor
      <3>1. failures < MaxFailures => delay' = Policy(failures)
        <4>. SUFFICES ASSUME failures < MaxFailures PROVE delay' = Policy(failures)
          OBVIOUS
        <4>1. failures - 1 \in 0 .. MaxFailures /\ (failures - 1) + 1 = failures /\ delay = Policy(failures - 1)
          <5>1. failures >= 1 /\ delay = Policy(failures - 1)
            BY <1>17, <2>2 DEF WaitOver
          <5>. QED
            BY <5>1, BoundAssumption
        <4>. QED
          BY <1>17, <4>1, PowerStep DEF WaitOver
      <3>. QED
        BY <1>17, <2>2, <3>1 DEF WaitOver
    <2>. QED
      BY <2>1, <2>2
  <1>18. CASE RetryBusy
    BY <1>18 DEF RetryBusy, inputVars
  <1>19. CASE ReadTcp
    BY <1>19 DEF ReadTcp, ReadOrTimeOut, NoteError
  <1>20. CASE ReadSerial
    BY <1>20 DEF ReadSerial, ReadOrTimeOut, NoteError
  <1>21. CASE ReadBluetooth
    BY <1>21 DEF ReadBluetooth, ReadOrTimeOut, NoteError
  <1>22. CASE ReadNtrip
    BY <1>22 DEF ReadNtrip, ReadPending, ReadOrTimeOut, LoseConnection, NtripDropped
  <1>23. CASE Stop
    BY <1>23 DEF Stop
  <1>24. CASE Join
    BY <1>24 DEF Join
  <1>25. CASE CloseTcp
    BY <1>25 DEF CloseTcp, Forget
  <1>26. CASE CloseSerial
    BY <1>26 DEF CloseSerial, Forget
  <1>27. CASE CloseBluetooth
    BY <1>27 DEF CloseBluetooth, Forget
  <1>28. CASE ClearConnected
    BY <1>28 DEF ClearConnected
  <1>29. CASE DisconnectNtrip
    BY <1>29 DEF DisconnectNtrip, NtripDropped
  <1>30. CASE PeerChanges
    BY <1>30 DEF PeerChanges, Closed
  <1>31. CASE UNCHANGED inputVars
    BY <1>31 DEF inputVars
  <1>. QED
    BY <1>1, <1>2, <1>3, <1>4, <1>5, <1>6, <1>7, <1>8, <1>9, <1>10, <1>11, <1>12, <1>13, <1>14, <1>15, <1>16,
       <1>17, <1>18, <1>19, <1>20, <1>21, <1>22, <1>23, <1>24, <1>25, <1>26, <1>27, <1>28, <1>29, <1>30, <1>31
       DEF InputNext, Connecting, Reading, StopSteps

LEMMA InputInvHolds == InputSpec => [](ConnInv /\ Waiting)
  <1>1. InputInit => ConnInv /\ Waiting
    <2>. SUFFICES ASSUME InputInit PROVE ConnInv /\ Waiting
      OBVIOUS
    <2>1. delay \in Nat /\ failures \in 0 .. MaxFailures
      BY PolicyAssumption, BoundAssumption DEF InputInit
    <2>2. InputTypeOK
      BY <2>1 DEF InputInit, InputTypeOK
    <2>. QED
      BY <2>2 DEF InputInit, ConnInv, Places, Agrees, Released, Waiting, Setup, Stopped
  <1>2. ConnInv /\ Waiting /\ [InputNext]_inputVars => ConnInv' /\ Waiting'
    BY TypeStep, ConnStep, WaitStep DEF ConnInv
  <1>. QED
    BY <1>1, <1>2, PTL DEF InputSpec

(* ConnectedIsOpen for every kind of input: _connected says whether there is something  *)
(* to read from, and an input that was stopped holds nothing, even when its connect()   *)
(* went on after the join of stop().                                            *)
THEOREM ConnectionsAreKnown == InputSpec => []ConnectedIsOpen
  <1>1. ConnInv => ConnectedIsOpen
    BY DEF ConnInv, Places, Agrees, Released, ConnectedIsOpen, InputTypeOK
  <1>. QED
    BY <1>1, InputInvHolds, PTL

(* Backoff for every policy and every number of failures: the n-th wait of an outage is  *)
(* initial_delay * multiplier^(n-1) up to max_delay, and max_delay once the station    *)
(* has refused for good.                                                      *)
THEOREM WaitsFollowPolicy == InputSpec => []Backoff
  <1>1. ConnInv /\ Waiting => Backoff
    BY DEF ConnInv, Waiting, Backoff, Policy
  <1>. QED
    BY <1>1, InputInvHolds, PTL

-----------------------------------------------------------------------------
(***************************************************************************)
(* 2. The service, for every configuration file, every environment and any     *)
(* number of signals.                                                        *)
(***************************************************************************)
(* What is past the first test of stop().                                       *)
Past == Stopping \ {"stop", "stopped"}

(* The frames: only the lowest can be main() outside stop().                       *)
Shape ==
  /\ frames \in Seq(Frame) /\ Len(frames) \in Nat /\ Len(frames) >= 1
  /\ \A i \in 2 .. Len(frames) : frames[i].at \in Stopping

(* Whoever is inside stop(), or ends with its error, has set _shutdown_requested; and   *)
(* an error comes back to no place but stop() and _cleanup.                        *)
Raised ==
  \A i \in 1 .. Len(frames) :
    /\ frames[i].at \in Past => shutdown
    /\ frames[i].ends = "error" => shutdown /\ frames[i].at \in Stopping \cup {"cleanup"}

(* Before anything was taken nobody interrupts, and the hub runs only at the end of    *)
(* start().                                                                  *)
Begins ==
  /\ frames[1].at = "load" => Len(frames) = 1 /\ ~input /\ ~metrics /\ ~shutdown
  /\ frames[1].at \in Starting \ {"started", "begin", "cleanup"} => hub # "running"
  /\ frames[1].at = "cleanup" => hub # "running" \/ shutdown

(* A stop() that a signal began in the run loop: how far each of its places has got.    *)
(* Destinations are left over where a stop() raised before it came to them.           *)
Tidied == hub = "idle" /\ ~input /\ ~metrics
Emptied(ends) == dests = {} \/ swallowed \/ ends = "error"
Stage(at, ends) ==
  /\ at = "stop" => running \/ (Tidied /\ Emptied(ends))
  /\ at \in Past => running
  /\ at \in {"stop", "hubStop"} => hub = "running" \/ (hub = "idle" /\ Emptied(ends))
  /\ at \in (Past \ {"hubStop"}) \cup {"stopped"} => hub = "idle"
  /\ at \in {"disconnect", "drain", "again", "unlock", "metricsStop", "lower", "stopped"} => Emptied(ends)
  /\ at \in {"unlock", "metricsStop", "lower", "stopped"} => ~input
  /\ at \in {"lower", "stopped"} => ~metrics

(* While every signal has found main() in its run loop: at most one handler, on a relay  *)
(* that runs or whose hub stopped with an error that was caught; and main() comes to     *)
(* stop() only after the hub has stopped.                                        *)
Tidy ==
  orderly /\ exit = "none" =>
    /\ Len(frames) <= 2
    /\ Len(frames) = 2 => /\ frames[1].at \in Looping /\ frames[2].ends = "ok"
                          /\ Stage(frames[2].at, "ok")
    /\ Len(frames) = 1 /\ frames[1].at \in Starting => ~shutdown
    /\ Len(frames) = 1 /\ frames[1].at \in {"started", "begin"} => hub = "running"
    /\ Len(frames) = 1 /\ frames[1].at = "begin" => running
    /\ Len(frames) = 1 /\ frames[1].at \in Looping =>
         running /\ ((hub = "running" /\ ~shutdown) \/ (hub = "idle" /\ swallowed))
    /\ Len(frames) = 1 /\ frames[1].at \in Stopping =>
         /\ hub = "idle" /\ frames[1].at \notin {"join", "stopDests", "disconnect", "drain"}
         /\ Stage(frames[1].at, frames[1].ends)

ReleasedAtExit ==
  /\ exit # "none" /\ orderly /\ shutdown => Tidied /\ (exit = "ok" /\ ~swallowed => dests = {})
  /\ exit = "error" /\ ~shutdown => hub # "running" /\ ~input /\ ~metrics
TidyInv == Shape /\ Raised /\ Begins /\ Tidy /\ ReleasedAtExit

(* The top frame moves to label, and the others stay where they are.                 *)
Moved(label) ==
  /\ frames' \in Seq(Frame) /\ Len(frames') = Len(frames)
  /\ frames'[Len(frames)].at = label /\ frames'[Len(frames)].ends = frames[Len(frames)].ends
  /\ \A i \in 1 .. Len(frames) : i # Len(frames) => frames'[i] = frames[i]

LEMMA HoldingMoves ==
  ASSUME Shape, NEW lock \in {"none", "destinations", "stats", "source"},
         NEW label \in Starting \cup Looping \cup Stopping, Holding(lock, label)
  PROVE  Moved(label)
  <1> DEFINE n == Len(frames)
             f == [frames[n] EXCEPT !.at = label, !.lock = lock]
  <1>1. n \in 1 .. Len(frames) /\ frames[n] \in Frame
    BY DEF Shape
  <1>2. f \in Frame /\ f.at = label /\ f.ends = frames[n].ends
    BY <1>1 DEF Frame
  <1>3. frames' = [frames EXCEPT ![n] = f]
    BY <1>1 DEF Holding, Shape, Frame
  <1> HIDE DEF f
  <1>4. /\ frames' \in Seq(Frame) /\ Len(frames') = Len(frames) /\ frames'[n] = f
        /\ \A i \in 1 .. Len(frames) : i # n => frames'[i] = frames[i]
    BY <1>1, <1>2, <1>3, ExceptSeq DEF Shape
  <1>. QED
    BY <1>2, <1>4 DEF Moved

LEMMA ToMoves ==
  ASSUME Shape, NEW label \in Starting \cup Looping \cup Stopping, To(label)
  PROVE  Moved(label)
BY HoldingMoves DEF To, Holding

(* What an exception does: it brings main() back into its loop, into cleaning up or into *)
(* stop(), or ends the process.                                                *)
Restarted(label, how) ==
  /\ frames' \in Seq(Frame) /\ Len(frames') = 1 /\ exit' = exit
  /\ frames'[1].at = label /\ frames'[1].ends = how
LEMMA MainRestarts ==
  ASSUME NEW label \in Starting \cup Looping \cup Stopping, NEW how \in {"ok", "error"}, MainAt(label, how)
  PROVE  Restarted(label, how)
  <1> DEFINE f == [at |-> label, lock |-> "none", ends |-> how]
  <1>1. frames' = <<f>> /\ exit' = exit
    BY DEF MainAt
  <1>2. f \in Frame /\ f.at = label /\ f.ends = how
    BY DEF Frame
  <1> HIDE DEF f
  <1>3. frames' \in Seq(Frame) /\ Len(frames') = 1 /\ frames'[1] = f
    BY <1>1, <1>2
  <1>. QED
    BY <1>1, <1>2, <1>3 DEF Restarted

LEMMA UnwindCases ==
  ASSUME NEW how \in {"ok", "error"}, Unwind(how)
  PROVE  \/ Len(frames) # 1 /\ frames[1].at = "updating" /\ how = "error" /\ Restarted("sleep", "ok")
         \/ Len(frames) # 1 /\ frames[1].at = "begin" /\ how = "error" /\ Restarted("cleanup", "error")
         \/ /\ Len(frames) # 1 /\ frames[1].at \in Looping /\ (how = "error" => frames[1].at # "updating")
            /\ Restarted("stop", how)
         \/ ~(Len(frames) # 1 /\ frames[1].at \in Looping) /\ frames' = frames /\ exit' = how
  <1> DEFINE at == IF InMain THEN "none" ELSE frames[1].at
  <1>1. \/ how = "error" /\ at = "updating" /\ MainAt("sleep", "ok")
        \/ how = "error" /\ at = "begin" /\ MainAt("cleanup", "error")
        \/ at \in Looping /\ (how = "error" => at # "updating") /\ MainAt("stop", how)
        \/ at \notin Looping /\ Exit(how)
    BY DEF Unwind
  <1>2. /\ MainAt("sleep", "ok") => Restarted("sleep", "ok")
        /\ MainAt("cleanup", "error") => Restarted("cleanup", "error")
        /\ MainAt("stop", how) => Restarted("stop", how)
    BY MainRestarts DEF Starting, Looping, Stopping
  <1>3. (Len(frames) # 1 => at = frames[1].at) /\ (Len(frames) = 1 => at = "none")
    BY DEF InMain
  <1>4. Exit(how) => frames' = frames /\ exit' = how
    BY DEF Exit
  <1> HIDE DEF at
  <1>. QED
    BY <1>1, <1>2, <1>3, <1>4 DEF Looping

(* main() or a handler returns: the end of a handler that interrupted the run loop       *)
(* brings main() into stop() again.                                             *)
LEMMA ReturnStep ==
  ASSUME TidyInv, Return
  PROVE  TidyInv'
  <1> DEFINE n == Len(frames)
  <1>1. frames \in Seq(Frame) /\ n \in Nat /\ n >= 1 /\ Top = frames[n] /\ Top \in Frame
    BY DEF TidyInv, Shape, Top
  <1>2. Top.at = "stopped" /\ Top.ends \in {"ok", "error"} /\ exit = "none" /\ Unwind(Top.ends)
    BY <1>1 DEF Return, AtTop, Frame
  <1>3. Top.ends = "error" => shutdown
    BY <1>1 DEF TidyInv, Raised
  <1>4. orderly => n <= 2 /\ (n = 2 => frames[1].at \in Looping /\ Top.ends = "ok")
    BY <1>1, <1>2 DEF TidyInv, Tidy
  <1>5. orderly => Tidied /\ Emptied(Top.ends)
    <2>1. orderly /\ n = 2 => Stage("stopped", "ok") /\ Top.ends = "ok"
      BY <1>1, <1>2 DEF TidyInv, Tidy
    <2>2. orderly /\ n = 1 => Stage("stopped", Top.ends)
      BY <1>1, <1>2 DEF TidyInv, Tidy, Stopping
    <2>3. orderly => n = 1 \/ n = 2
      <3>1. n \in Nat /\ n >= 1 /\ (orderly => n <= 2)
        BY <1>1, <1>4
      <3> HIDE DEF n
      <3>. QED
        BY <3>1
    <2>4. \A ends : Stage("stopped", ends) => Tidied /\ Emptied(ends)
      BY DEF Stage, Tidied
    <2>. QED
      BY <2>1, <2>2, <2>3, <2>4
  <1>7. UNCHANGED <<running, shutdown, hub, dests, input, metrics, orderly, swallowed>>
    BY DEF Return, parts, history
  <1>8. CASE Len(frames) # 1 /\ frames[1].at = "updating" /\ Top.ends = "error" /\ Restarted("sleep", "ok")
    <2>1. ~orderly
      <3>1. n \in Nat /\ n >= 1 /\ n # 1 /\ (orderly => n <= 2 /\ n # 2)
        BY <1>1, <1>4, <1>8
      <3> HIDE DEF n
      <3>. QED
        BY <3>1
    <2>. QED
      BY <1>2, <1>7, <1>8, <2>1 DEF TidyInv, Restarted, Shape, Raised, Begins, Tidy, ReleasedAtExit, Past, Looping, Starting, Stopping
  <1>9. CASE Len(frames) # 1 /\ frames[1].at = "begin" /\ Top.ends = "error" /\ Restarted("cleanup", "error")
    <2>1. ~orderly
      <3>1. n \in Nat /\ n >= 1 /\ n # 1 /\ (orderly => n <= 2 /\ n # 2)
        BY <1>1, <1>4, <1>9 DEF Looping
      <3> HIDE DEF n
      <3>. QED
        BY <3>1
    <2>. QED
      BY <1>2, <1>3, <1>7, <1>9, <2>1 DEF TidyInv, Restarted, Shape, Raised, Begins, Tidy, ReleasedAtExit, Past, Looping, Starting
  <1>10. CASE Len(frames) # 1 /\ frames[1].at \in Looping /\ Restarted("stop", Top.ends)
    <2>1. Shape' /\ Raised' /\ Begins'
      BY <1>3, <1>7, <1>10 DEF Restarted, Shape, Raised, Begins, Past, Starting, Looping, Stopping
    <2>2. orderly => Stage("stop", Top.ends)
      BY <1>5 DEF Stage, Tidied, Past
    <2>3. orderly => hub = "idle"
      BY <1>5 DEF Tidied
    <2>4. Tidy'
      BY <1>7, <1>10, <2>2, <2>3 DEF Restarted, Tidy, Stage, Tidied, Emptied, Starting, Looping, Past
    <2>5. ReleasedAtExit'
      BY <1>2, <1>10 DEF Restarted, ReleasedAtExit
    <2>. QED
      BY <2>1, <2>4, <2>5 DEF TidyInv
  <1>11. CASE frames' = frames /\ exit' = Top.ends
    <2>1. Shape' /\ Raised' /\ Begins'
      BY <1>7, <1>11 DEF TidyInv, Shape, Raised, Begins
    <2>2. Tidy'
      BY <1>2, <1>11 DEF Tidy
    <2>3. ReleasedAtExit'
      BY <1>2, <1>3, <1>5, <1>7, <1>11 DEF ReleasedAtExit, Tidied, Emptied
    <2>. QED
      BY <2>1, <2>2, <2>3 DEF TidyInv
  <1>. QED
    BY <1>2, <1>8, <1>9, <1>10, <1>11, UnwindCases

(* stop() raises: _update_metrics may catch the error, otherwise it ends the loop, the    *)
(* start or the process.                                                       *)
LEMMA RaiseStep ==
  ASSUME TidyInv, HubStopRaises
  PROVE  TidyInv'
  <1> DEFINE n == Len(frames)
  <1>1. frames \in Seq(Frame) /\ n \in Nat /\ n >= 1 /\ Top = frames[n] /\ Top \in Frame
    BY DEF TidyInv, Shape, Top
  <1>2. Top.at = "join" /\ exit = "none" /\ Unwind("error")
    BY DEF HubStopRaises, AtTop
  <1>3. shutdown
    BY <1>1, <1>2 DEF TidyInv, Raised, Past, Stopping
  <1>4. /\ UNCHANGED <<running, shutdown, hub, dests, input, metrics, orderly>>
        /\ swallowed' = (swallowed \/ frames[1].at = "updating")
    BY DEF HubStopRaises, parts
  <1>5. orderly => n = 2 /\ frames[1].at \in Looping /\ Stage("join", "ok")
    <2>1. orderly => n <= 2 /\ n # 1 /\ (n = 2 => frames[1].at \in Looping /\ Stage("join", "ok"))
      BY <1>1, <1>2 DEF TidyInv, Tidy, Stopping
    <2>2. n \in Nat /\ n >= 1
      BY <1>1
    <2> HIDE DEF n
    <2>3. orderly => n = 2
      BY <2>1, <2>2
    <2>. QED
      BY <2>1, <2>3
  <1>6. orderly => running /\ hub = "idle"
    BY <1>5 DEF Stage, Past, Stopping
  <1>7. CASE frames[1].at = "updating" /\ Restarted("sleep", "ok")
    <2>1. Shape' /\ Raised' /\ Begins'
      BY <1>3, <1>4, <1>7 DEF Restarted, Shape, Raised, Begins, Past, Starting, Looping, Stopping
    <2>2. Tidy'
      <3>1. "sleep" \in Looping /\ "sleep" \notin Starting /\ "sleep" \notin Stopping
        BY DEF Starting, Looping, Stopping
      <3>2. orderly' => running' /\ hub' = "idle"
        BY <1>4, <1>6
      <3>3. swallowed'
        BY <1>4, <1>7
      <3>. QED
        BY <1>7, <3>1, <3>2, <3>3 DEF Restarted, Tidy
    <2>3. ReleasedAtExit'
      BY <1>2, <1>7 DEF Restarted, ReleasedAtExit
    <2>. QED
      BY <2>1, <2>2, <2>3 DEF TidyInv
  <1>8. CASE frames[1].at = "begin" /\ Restarted("cleanup", "error")
    <2>1. Shape' /\ Raised' /\ Begins'
      BY <1>3, <1>4, <1>8 DEF Restarted, Shape, Raised, Begins, Past, Starting, Looping, Stopping
    <2>2. ~orderly'
      BY <1>4, <1>5, <1>8 DEF Looping
    <2>3. Tidy'
      BY <2>2 DEF Tidy
    <2>4. ReleasedAtExit'
      BY <1>2, <1>8 DEF Restarted, ReleasedAtExit
    <2>. QED
      BY <2>1, <2>3, <2>4 DEF TidyInv
  <1>9. CASE frames[1].at \in Looping /\ Restarted("stop", "error")
    <2>1. Shape' /\ Raised' /\ Begins'
      BY <1>3, <1>4, <1>9 DEF Restarted, Shape, Raised, Begins, Past, Starting, Looping, Stopping
    <2>2. Tidy'
      BY <1>4, <1>6, <1>9 DEF Restarted, Tidy, Stage, Emptied, Starting, Looping, Past
    <2>3. ReleasedAtExit'
      BY <1>2, <1>9 DEF Restarted, ReleasedAtExit
    <2>. QED
      BY <2>1, <2>2, <2>3 DEF TidyInv
  <1>10. CASE ~(Len(frames) # 1 /\ frames[1].at \in Looping) /\ frames' = frames /\ exit' = "error"
    <2>1. ~orderly
      <3>1. ~(n # 1 /\ frames[1].at \in Looping)
        BY <1>10
      <3> HIDE DEF n
      <3>. QED
        BY <1>5, <3>1
    <2>. QED
      BY <1>3, <1>4, <1>10, <2>1 DEF TidyInv, Shape, Raised, Begins, Tidy, ReleasedAtExit
  <1>. QED
    BY <1>2, <1>7, <1>8, <1>9, <1>10, UnwindCases

(* A handler begins.                                                          *)
LEMMA SignalStep ==
  ASSUME TidyInv, Signal
  PROVE  TidyInv'
  <1> DEFINE n == Len(frames)
             f == [at |-> "stop", lock |-> "none", ends |-> "ok"]
  <1>1. frames \in Seq(Frame) /\ n \in Nat /\ n >= 1
    BY DEF TidyInv, Shape
  <1>2. exit = "none" /\ frames[n].at # "load" /\ frames' = Append(frames, f)
    BY DEF Signal, Top
  <1>3. /\ UNCHANGED <<running, shutdown, hub, dests, input, metrics, exit, swallowed>>
        /\ orderly' = (orderly /\ n = 1 /\ frames[n].at \in Looping)
    BY DEF Signal, parts, InMain, Top
  <1>4. f \in Frame /\ f.at = "stop" /\ f.ends = "ok"
    BY DEF Frame, Stopping
  <1> HIDE DEF f
  <1>5. /\ frames' \in Seq(Frame) /\ Len(frames') = n + 1 /\ frames'[n + 1] = f
        /\ \A i \in 1 .. n : frames'[i] = frames[i]
    BY <1>1, <1>2, <1>4
  <1>6. Shape'
    BY <1>1, <1>4, <1>5 DEF TidyInv, Shape, Stopping
  <1>7. Raised'
    BY <1>1, <1>3, <1>4, <1>5 DEF TidyInv, Raised, Past, Stopping
  <1>8. Begins'
    BY <1>1, <1>2, <1>3, <1>5 DEF TidyInv, Begins
  <1>9. Tidy'
    <2>. SUFFICES ASSUME orderly' PROVE Tidy'
      BY DEF Tidy
    <2>1. orderly /\ n = 1 /\ frames[1].at \in Looping
      BY <1>3
    <2>2. running /\ (hub = "running" \/ (hub = "idle" /\ swallowed))
      BY <1>2, <2>1 DEF TidyInv, Tidy
    <2>3. Len(frames') = 2 /\ frames'[2] = f /\ frames'[1].at \in Looping
      BY <1>5, <2>1
    <2>4. Stage("stop", "ok")'
      BY <1>3, <1>4, <2>2, <2>3 DEF Stage, Past, Emptied
    <2>. QED
      BY <1>4, <2>3, <2>4 DEF Tidy, Looping
  <1>10. ReleasedAtExit'
    <2>1. exit' = "none"
      BY <1>2, <1>3, Zenon
    <2>. QED
      BY <2>1 DEF ReleasedAtExit
  <1>. QED
    BY <1>6, <1>7, <1>8, <1>9, <1>10 DEF TidyInv

(* Outside stop() there is only main().                                           *)
LEMMA MainOnTop ==
  ASSUME Shape
  PROVE  \A label : AtTop(label) /\ label \notin Stopping =>
           exit = "none" /\ Len(frames) = 1 /\ frames[1].at = label
  <1>1. Len(frames) # 1 => Top.at \in Stopping
    <2>. SUFFICES ASSUME Len(frames) # 1 PROVE Top.at \in Stopping
      OBVIOUS
    <2> DEFINE n == Len(frames)
    <2>0. n \in Nat /\ n >= 1 /\ n # 1
      BY DEF Shape
    <2> HIDE DEF n
    <2>1. n \in 2 .. n
      BY <2>0
    <2>. QED
      BY <2>1 DEF Shape, Top, n
  <1>2. Len(frames) = 1 => Top = frames[1]
    BY DEF Top
  <1>. QED
    BY <1>1, <1>2 DEF AtTop

(* Every step keeps the invariant behind TidyExit.                                *)
LEMMA TidyStep == TidyInv /\ [ServiceNext]_serviceVars => TidyInv'
  <1> SUFFICES ASSUME TidyInv, [ServiceNext]_serviceVars PROVE TidyInv'
    OBVIOUS
  <1>m. \A label \in Starting \cup Looping \cup Stopping : To(label) => Moved(label)
    BY ToMoves DEF TidyInv
  <1>h. \A label \in Starting \cup Looping \cup Stopping, lock \in {"none", "destinations", "stats", "source"} :
          Holding(lock, label) => Moved(label)
    BY HoldingMoves DEF TidyInv
  <1>t. \A label : AtTop(label) /\ label \notin Stopping =>
          exit = "none" /\ Len(frames) = 1 /\ frames[1].at = label
    BY MainOnTop DEF TidyInv
  <1> USE DEF TidyInv, Shape, Raised, Begins, Tidy, ReleasedAtExit, Stage, Tidied, Emptied, Past, Moved,
              Starting, Looping, Stopping, AtTop, Top, InMain, conditions, parts, history
  <1>1. CASE LoadConfig
    <2>1. Moved("metrics") \/ Exit("error")
      BY <1>1, <1>m, <1>h DEF LoadConfig
    <2>. QED
      BY <1>1, <2>1 DEF LoadConfig, Exit
  <1>2. CASE ValidateOnly
    BY <1>2 DEF ValidateOnly, Exit
  <1>3. CASE StartMetrics
    <2>1. Moved("input") \/ Moved("cleanup")
      BY <1>3, <1>m, <1>h DEF StartMetrics
    <2>. QED
      BY <1>3, <2>1 DEF StartMetrics
  <1>4. CASE CreateInput
    <2>1. Moved("destinations") \/ Moved("cleanup")
      BY <1>4, <1>m, <1>h DEF CreateInput
    <2>. QED
      BY <1>4, <2>1 DEF CreateInput
  <1>5. CASE CreateDestinations
    <2>1. Moved("connect") \/ Moved("cleanup")
      BY <1>5, <1>m, <1>h DEF CreateDestinations
    <2>. QED
      BY <1>5, <2>1 DEF CreateDestinations
  <1>6. CASE ConnectInput
    <2>1. Moved("starting") \/ Moved("cleanup")
      BY <1>6, <1>m, <1>h DEF ConnectInput
    <2>. QED
      BY <1>6, <2>1 DEF ConnectInput
  <1>7. CASE StartDestination
    <2>1. Moved("cleanup") \/ UNCHANGED frames
      BY <1>7, <1>m, <1>h DEF StartDestination
    <2>. QED
      BY <1>7, <2>1 DEF StartDestination
  <1>8. CASE Launch
    <2>1. Moved("launch")
      BY <1>8, <1>m, <1>h DEF Launch
    <2>. QED
      BY <1>8, <2>1 DEF Launch
  <1>9. CASE HubStarted
    <2>1. Moved("started")
      BY <1>9, <1>m, <1>h DEF HubStarted
    <2>. QED
      BY <1>9, <2>1 DEF HubStarted
  <1>10. CASE Started
    <2>1. Moved("begin")
      BY <1>10, <1>m, <1>h DEF Started
    <2>. QED
      BY <1>10, <2>1 DEF Started
  <1>29. CASE EnterLoop
    <2>1. Moved("check") /\ AtTop("begin")
      BY <1>29, <1>m, <1>h DEF EnterLoop
    <2>2. UNCHANGED <<running, shutdown, hub, dests, input, metrics, exit, orderly, swallowed>>
      BY <1>29 DEF EnterLoop
    <2>3. exit = "none" /\ Len(frames) = 1 /\ frames[1].at = "begin"
      BY <2>1, <1>t
    <2>4. Shape' /\ Raised'
      BY <2>1, <2>2
    <2>5. Begins' /\ ReleasedAtExit'
      BY <2>1, <2>2, <2>3
    <2>6. orderly => running /\ hub = "running" /\ ~shutdown
      BY <2>3
    <2>7. Tidy'
      <3>1. Len(frames') = 1 /\ frames'[1].at = "check"
        BY <2>1, <2>3
      <3>. QED
        BY <2>2, <2>6, <3>1
    <2>. QED
      BY <2>4, <2>5, <2>7
  <1>11. CASE Cleanup
    <2>1. Len(frames) = 1 /\ frames[1].at = "cleanup" /\ exit = "none"
      BY <1>11, <1>t DEF Cleanup
    <2>2. exit' = "error" /\ ~input' /\ ~metrics' /\ UNCHANGED <<frames, running, shutdown, hub, dests, orderly, swallowed>>
      BY <1>11 DEF Cleanup, Exit
    <2>3. Shape' /\ Raised' /\ Begins'
      BY <2>1, <2>2
    <2>4. exit' # "none"
      BY <2>2
    <2>5. Tidy'
      BY <2>4
    <2>6. ReleasedAtExit'
      BY <2>1, <2>2
    <2>. QED
      BY <2>3, <2>5, <2>6
  <1>12. CASE Check
    <2>1. (shutdown /\ Moved("stop")) \/ (~shutdown /\ Moved("update"))
      BY <1>12, <1>m, <1>h DEF Check
    <2>. QED
      BY <1>12, <2>1 DEF Check
  <1>13. CASE Update
    <2>1. Moved("updating") \/ Moved("sleep")
      BY <1>13, <1>m, <1>h DEF Update
    <2>. QED
      BY <1>13, <2>1 DEF Update
  <1>14. CASE Updated
    <2>1. Moved("sleep")
      BY <1>14, <1>m, <1>h DEF Updated
    <2>. QED
      BY <1>14, <2>1 DEF Updated
  <1>15. CASE Sleep
    <2>1. Moved("check")
      BY <1>15, <1>m, <1>h DEF Sleep
    <2>. QED
      BY <1>15, <2>1 DEF Sleep
  <1>16. CASE StopService
    <2>1. \/ running /\ shutdown' = TRUE /\ Moved("hubStop")
          \/ ~running /\ shutdown' = shutdown /\ Moved("stopped")
      BY <1>16, <1>m, <1>h DEF StopService
    <2>. QED
      BY <1>16, <2>1 DEF StopService
  <1>17. CASE HubStop
    <2>1. \/ hub = "running" /\ hub' = "idle" /\ Moved("join")
          \/ hub # "running" /\ hub' = hub /\ Moved("again")
      BY <1>17, <1>m, <1>h DEF HubStop
    <2>0. AtTop("hubStop")
      BY <1>17 DEF HubStop
    <2>3. CASE hub = "running" /\ hub' = "idle" /\ Moved("join")
      BY <1>17, <2>0, <2>3 DEF HubStop
    <2>4. CASE hub # "running" /\ hub' = hub /\ Moved("again")
      <3>1. Shape'
        BY <1>17, <2>0, <2>4 DEF HubStop
      <3>2. Raised'
        BY <1>17, <2>0, <2>4 DEF HubStop
      <3>3. Begins'
        BY <1>17, <2>0, <2>4 DEF HubStop
      <3>4. Tidy'
        BY <1>17, <2>0, <2>4 DEF HubStop
      <3>5. ReleasedAtExit'
        BY <1>17, <2>0, <2>4 DEF HubStop
      <3>. QED
        BY <3>1, <3>2, <3>3, <3>4, <3>5
    <2>. QED
      BY <2>1, <2>3, <2>4
  <1>18. CASE HubStopRaises
    BY <1>18, RaiseStep
  <1>19. CASE JoinHub
    <2>1. Moved("stopDests")
      BY <1>19, <1>m, <1>h DEF JoinHub
    <2>. QED
      BY <1>19, <2>1 DEF JoinHub
  <1>20. CASE StopDestination
    BY <1>20 DEF StopDestination
  <1>21. CASE DestinationsStopped
    <2>1. Moved("disconnect")
      BY <1>21, <1>m, <1>h DEF DestinationsStopped
    <2>. QED
      BY <1>21, <2>1 DEF DestinationsStopped
  <1>22. CASE Disconnect
    <2>1. (AtTop("disconnect") /\ Moved("drain")) \/ (AtTop("again") /\ Moved("unlock"))
      BY <1>22, <1>m, <1>h DEF Disconnect
    <2>2. ~input' /\ UNCHANGED <<running, shutdown, hub, dests, metrics, exit, orderly, swallowed>>
      BY <1>22 DEF Disconnect
    <2>3. CASE AtTop("disconnect") /\ Moved("drain")
      BY <2>2, <2>3
    <2>4. CASE AtTop("again") /\ Moved("unlock")
      BY <2>2, <2>4
    <2>. QED
      BY <2>1, <2>3, <2>4
  <1>23. CASE Disconnected
    <2>1. (AtTop("drain") /\ Moved("again")) \/ (AtTop("unlock") /\ Moved("metricsStop"))
      BY <1>23, <1>m, <1>h DEF Disconnected
    <2>2. UNCHANGED <<running, shutdown, hub, dests, input, metrics, exit, orderly, swallowed>>
      BY <1>23 DEF Disconnected
    <2>3. CASE AtTop("drain") /\ Moved("again")
      BY <2>2, <2>3
    <2>4. CASE AtTop("unlock") /\ Moved("metricsStop")
      BY <2>2, <2>4
    <2>. QED
      BY <2>1, <2>3, <2>4
  <1>24. CASE StopMetrics
    <2>1. Moved("lower")
      BY <1>24, <1>m, <1>h DEF StopMetrics
    <2>. QED
      BY <1>24, <2>1 DEF StopMetrics
  <1>25. CASE Lower
    <2>1. Moved("stopped")
      BY <1>25, <1>m, <1>h DEF Lower
    <2>. QED
      BY <1>25, <2>1 DEF Lower
  <1>26. CASE Return
    BY <1>26, ReturnStep
  <1>27. CASE Signal
    BY <1>27, SignalStep
  <1>28. CASE UNCHANGED serviceVars
    BY <1>28 DEF serviceVars
  <1>. QED
    BY <1>1, <1>2, <1>3, <1>4, <1>5, <1>6, <1>7, <1>8, <1>9, <1>10, <1>11, <1>12, <1>13, <1>14,
       <1>15, <1>16, <1>17, <1>18, <1>19, <1>20, <1>21, <1>22, <1>23, <1>24, <1>25, <1>26, <1>27, <1>28, <1>29
       DEF ServiceNext, Main

(* What is converted to a number is what a section wants to be one, or any value that    *)
(* is not empty; what it wants chosen from a list stays text.                       *)
ClassOK(class) ==
  \A f \in DOMAIN class : /\ class[f] = "number" => f \in Numeric
                          /\ class[f] = "choice" => f \notin Numeric /\ f \in {"version", "parity"}
                          /\ f \in {"version", "parity"} => class[f] = "choice"
                          /\ f \in {"retry_initial_delay", "retry_max_delay"} => class[f] = "number"
                          /\ class[f] \in {"number", "needed", "choice", "free"}
LEMMA ClassesOK ==
  /\ ClassOK(TCPInputConfig) /\ ClassOK(SerialInputConfig)
  /\ \A type : ClassOK(ClassOf(type))
  <1> USE DEF ClassOK, Numbers, Needed, Chosen, Free, ++, Numeric
  <1>1. ClassOK(TCPInputConfig)
    BY SMTT(20) DEF TCPInputConfig
  <1>2. ClassOK(SerialInputConfig)
    BY SMTT(20) DEF SerialInputConfig
  <1>3. ClassOK(SurePathDestinationConfig)
    BY SMTT(20) DEF SurePathDestinationConfig
  <1>4. ClassOK(NtripDestinationConfig)
    BY SMTT(20) DEF NtripDestinationConfig
  <1>5. ClassOK(TcpServerDestinationConfig)
    BY SMTT(20) DEF TcpServerDestinationConfig
  <1> HIDE DEF ClassOK
  <1>. QED
    BY <1>1, <1>2, <1>3, <1>4, <1>5 DEF ClassOf

(* A section of which only fields are replaced, by values that fit, still constructs if    *)
(* its delays are in order.                                                    *)
DelaysInOrder(section) ==
  InOrder(Get(section, "retry_initial_delay", "num"), Get(section, "retry_max_delay", "num"))
LEMMA StillConstructs ==
  ASSUME NEW class, NEW required, NEW section, NEW changed, Constructs(class, required, section),
         \A f \in DOMAIN changed : f \in DOMAIN class /\ Valid(changed[f], class[f]),
         DelaysInOrder(changed ++ section)
  PROVE  Constructs(class, required, changed ++ section)
  <1> DEFINE new == changed ++ section
  <1>1. DOMAIN new = DOMAIN changed \cup DOMAIN section
    BY DEF ++
  <1>2. \A f \in DOMAIN new : new[f] = IF f \in DOMAIN changed THEN changed[f] ELSE section[f]
    BY DEF ++
  <1> HIDE DEF new
  <1>3. required \subseteq DOMAIN new /\ DOMAIN new \subseteq DOMAIN class
    BY <1>1 DEF Constructs
  <1>4. \A f \in DOMAIN new : Valid(new[f], class[f])
    BY <1>1, <1>2 DEF Constructs
  <1>5. DelaysInOrder(new)
    BY DEF new
  <1>. QED
    BY <1>3, <1>4, <1>5 DEF Constructs, DelaysInOrder, new
LEMMA NoDelays ==
  ASSUME NEW class, NEW section, DOMAIN section \subseteq DOMAIN class,
         "retry_initial_delay" \notin DOMAIN class, "retry_max_delay" \notin DOMAIN class
  PROVE  DelaysInOrder(section)
BY DEF DelaysInOrder, InOrder, Get

LEMMA ConvertedFits ==
  ASSUME NEW class, ClassOK(class), NEW v, Fits(class, v)
  PROVE  v.field \in DOMAIN class /\ Valid(Converted(v.field, v.value), class[v.field])
BY DEF Fits, Says, ClassOK, Converted, Valid, InRange

(* The variables of the input.                                                 *)
Picked(given, group, f) == CHOOSE v \in given : v.group = group /\ v.field = f
InputChanges(given, group) ==
  [f \in {v.field : v \in {x \in given : x.group = group}} |-> Converted(f, Picked(given, group, f).value)]
LEMMA InputChanged ==
  \A section, given, group : InputOverridden(section, given, group) = InputChanges(given, group) ++ section
BY DEF InputOverridden, InputChanges, Picked

LEMMA PickedHits ==
  ASSUME NEW given, NEW group, NEW f \in DOMAIN InputChanges(given, group)
  PROVE  /\ Picked(given, group, f) \in given /\ Picked(given, group, f).group = group
         /\ Picked(given, group, f).field = f
         /\ InputChanges(given, group)[f] = Converted(f, Picked(given, group, f).value)
  <1>1. \E v \in given : v.group = group /\ v.field = f
    BY DEF InputChanges
  <1>2. InputChanges(given, group)[f] = Converted(f, Picked(given, group, f).value)
    BY DEF InputChanges
  <1>. QED
    BY <1>1, <1>2 DEF Picked

(* Variables that fit leave a good section good; those of another group leave it alone.  *)
LEMMA InputKept ==
  ASSUME NEW class, NEW required, NEW section, NEW given, NEW group, ClassOK(class),
         "retry_initial_delay" \notin DOMAIN class, "retry_max_delay" \notin DOMAIN class,
         Constructs(class, required, section),
         \A v \in given : v.group = group => Fits(class, v)
  PROVE  Constructs(class, required, InputOverridden(section, given, group))
  <1>1. \A f \in DOMAIN InputChanges(given, group) :
          f \in DOMAIN class /\ Valid(InputChanges(given, group)[f], class[f])
    <2>. TAKE f \in DOMAIN InputChanges(given, group)
    <2>. QED
      BY PickedHits, ConvertedFits
  <1>2. DOMAIN (InputChanges(given, group) ++ section) \subseteq DOMAIN class
    BY <1>1 DEF Constructs, ++
  <1>. QED
    BY <1>1, <1>2, InputChanged, NoDelays, StillConstructs

LEMMA InputUntouched ==
  ASSUME NEW section, NEW given, NEW group, \A v \in given : v.group # group
  PROVE  \A class, required, f, default :
           /\ Constructs(class, required, section) => Constructs(class, required, InputOverridden(section, given, group))
           /\ Get(InputOverridden(section, given, group), f, default) = Get(section, f, default)
  <1>1. DOMAIN InputChanges(given, group) = {}
    BY DEF InputChanges
  <1>2. InputOverridden(section, given, group) = InputChanges(given, group) ++ section
    BY InputChanged
  <1> DEFINE new == InputOverridden(section, given, group)
  <1>3. DOMAIN new = DOMAIN section /\ \A x \in DOMAIN section : new[x] = section[x]
    BY <1>1, <1>2 DEF ++
  <1> HIDE DEF new
  <1>4. \A f, default : Get(new, f, default) = Get(section, f, default)
    BY <1>3 DEF Get
  <1>5. \A class, required : Constructs(class, required, section) => Constructs(class, required, new)
    BY <1>3, <1>4 DEF Constructs
  <1>. QED
    BY <1>4, <1>5 DEF new

(* The variables of one destination, when none of them is taken for another's. *)
Hit(dest, given, f) == CHOOSE v \in {x \in given : Matches(dest.name, x)} : FieldOf(dest.name, v) = f
DestChanges(dest, given) ==
  [f \in {FieldOf(dest.name, v) : v \in {x \in given : Matches(dest.name, x)}} |->
     Converted(Hit(dest, given, f).field, Hit(dest, given, f).value)]
LEMMA DestChanged ==
  \A dest, given :
    DestinationOverridden(dest, given) =
      IF dest.name = <<>> THEN dest ELSE [dest EXCEPT !.config = DestChanges(dest, given) ++ @]
BY DEF DestinationOverridden, DestChanges, Hit

Given == env.destinations
Apt(dest) ==
  /\ \A v \in Given : Matches(dest.name, v) => dest.name = v.parts /\ Fits(ClassOf(dest.type), v)
  /\ GoTogether(dest)

LEMMA HitHits ==
  ASSUME NEW dest, Apt(dest), NEW f \in DOMAIN DestChanges(dest, Given)
  PROVE  LET v == Hit(dest, Given, f)
         IN  /\ v \in Given /\ Matches(dest.name, v) /\ v.field = f /\ Fits(ClassOf(dest.type), v)
             /\ DestChanges(dest, Given)[f] = Converted(f, v.value)
  <1> DEFINE v == Hit(dest, Given, f)
  <1>1. \E x \in {y \in Given : Matches(dest.name, y)} : FieldOf(dest.name, x) = f
    BY DEF DestChanges
  <1>2. DestChanges(dest, Given)[f] = Converted(v.field, v.value)
    BY DEF DestChanges
  <1>3. v \in Given /\ Matches(dest.name, v) /\ FieldOf(dest.name, v) = f
    BY <1>1 DEF Hit
  <1>4. dest.name = v.parts /\ Fits(ClassOf(dest.type), v)
    BY <1>3 DEF Apt
  <1>5. v.field = f
    BY <1>3, <1>4 DEF FieldOf
  <1>. QED
    BY <1>2, <1>3, <1>4, <1>5

(* What a field of the overridden section is, the variables and the file say together:   *)
(* a delay, a version or a user name is what a variable says of it, or what was there.   *)
LEMMA MeantGot ==
  ASSUME NEW dest, Apt(dest), NEW f, NEW default, "config" \in DOMAIN dest
  PROVE  LET got == Get(DestChanges(dest, Given) ++ dest.config, f, default)
         IN  \E m \in Meant(dest, f, default) :
               \/ got = m
               \/ \E v \in Given : /\ v.field = f /\ Fits(ClassOf(dest.type), v)
                                   /\ m = Says(ClassOf(dest.type), v) /\ got = Converted(f, v.value)
  <1> DEFINE changed == DestChanges(dest, Given)
             got == Get(changed ++ dest.config, f, default)
             given == {v \in Given : Matches(dest.name, v) /\ v.field = f}
  <1>1. CASE f \in DOMAIN changed
    <2>1. PICK v \in Given : /\ Matches(dest.name, v) /\ v.field = f /\ Fits(ClassOf(dest.type), v)
                             /\ changed[f] = Converted(f, v.value)
      BY <1>1, HitHits
    <2>2. Says(ClassOf(dest.type), v) \in Meant(dest, f, default)
      BY <2>1 DEF Meant, Given
    <2>3. got = Converted(f, v.value)
      BY <1>1, <2>1 DEF Get, ++
    <2>. QED
      BY <2>1, <2>2, <2>3
  <1>2. CASE f \notin DOMAIN changed
    <2>1. given = {}
      <3>. SUFFICES ASSUME NEW v \in given PROVE FALSE
        OBVIOUS
      <3>1. Matches(dest.name, v) /\ FieldOf(dest.name, v) = f
        BY DEF Apt, FieldOf
      <3>. QED
        BY <1>2, <3>1 DEF DestChanges
    <2>2. Get(dest.config, f, default) \in Meant(dest, f, default)
      BY <2>1 DEF Meant, Given
    <2>3. got = Get(dest.config, f, default)
      BY <1>2 DEF Get, ++
    <2>. QED
      BY <2>2, <2>3
  <1>. QED
    BY <1>1, <1>2

(* The checks across fields survive too: the delays stay in order, and a version 2        *)
(* destination keeps a user name.                                                *)
LEMMA TypedStill ==
  ASSUME NEW dest, Apt(dest), TypedConfig(dest.type, dest.config), "config" \in DOMAIN dest
  PROVE  TypedConfig(dest.type, DestChanges(dest, Given) ++ dest.config)
  <1> DEFINE changed == DestChanges(dest, Given)
             class == ClassOf(dest.type)
             new == changed ++ dest.config
  <1>0. ClassOK(class)
    BY ClassesOK
  <1>1. \A f \in DOMAIN changed : f \in DOMAIN class /\ Valid(changed[f], class[f])
    <2>. TAKE f \in DOMAIN changed
    <2>. QED
      BY <1>0, HitHits, ConvertedFits
  <1>2. \A f \in {"retry_initial_delay", "retry_max_delay"} : Get(new, f, "num") \in Meant(dest, f, "num")
    <2>. TAKE f \in {"retry_initial_delay", "retry_max_delay"}
    <2>1. ASSUME NEW v \in Given, v.field = f, Fits(class, v)
          PROVE  Says(class, v) = Converted(f, v.value)
      BY <1>0, <2>1 DEF Fits, Says, ClassOK, Converted, Numeric
    <2>. QED
      BY <2>1, MeantGot
  <1>3. DelaysInOrder(new)
    BY <1>2 DEF Apt, GoTogether, DelaysInOrder
  <1>4. \A required : Constructs(class, required, dest.config) => Constructs(class, required, new)
    BY <1>1, <1>3, StillConstructs
  <1>5. CASE dest.type = "ntrip"
    <2> DEFINE version == Get(new, "version", "text")
               username == Get(new, "username", "empty")
    <2>1. version \in Meant(dest, "version", "text")
      <3>1. ASSUME NEW v \in Given, v.field = "version", Fits(class, v)
            PROVE  Says(class, v) = Converted("version", v.value)
        BY <1>0, <3>1 DEF ClassOK, Fits, Says, Converted
      <3>. QED
        BY <3>1, MeantGot
    <2>2. PICK m \in Meant(dest, "username", "empty") : m \in {"text", "v1"} => username \in {"text", "v1"}
      <3>1. ASSUME NEW v \in Given, v.field = "username", Says(class, v) \in {"text", "v1"}
            PROVE  Converted("username", v.value) \in {"text", "v1"}
        BY <3>1 DEF Says, Converted, Numeric, InRange
      <3>. QED
        BY <3>1, MeantGot
    <2>3. version = "v1" \/ m \in {"text", "v1"}
      BY <1>5, <2>1 DEF Apt, GoTogether
    <2>4. Constructs(class, {"caster", "mountpoint", "password"}, new)
      BY <1>4, <1>5 DEF TypedConfig, ClassOf
    <2>. QED
      BY <1>5, <2>2, <2>3, <2>4 DEF TypedConfig, ClassOf
  <1>6. CASE dest.type # "ntrip"
    BY <1>4, <1>6 DEF TypedConfig, ClassOf
  <1>. QED
    BY <1>5, <1>6

LEMMA DestinationStill ==
  ASSUME NEW dest, Apt(dest), DestinationAccepted(dest), "config" \in DOMAIN dest
  PROVE  /\ DestinationAccepted(DestinationOverridden(dest, Given))
         /\ DestinationOverridden(dest, Given).name = dest.name
         /\ DestinationOverridden(dest, Given).enabled = dest.enabled
  <1> DEFINE new == [dest EXCEPT !.config = DestChanges(dest, Given) ++ @]
  <1>1. DestinationOverridden(dest, Given) = new
    BY DestChanged DEF DestinationAccepted
  <1>2. TypedConfig(dest.type, DestChanges(dest, Given) ++ dest.config)
    BY TypedStill DEF DestinationAccepted
  <1>3. /\ new.config = DestChanges(dest, Given) ++ dest.config
        /\ new.name = dest.name /\ new.type = dest.type /\ new.enabled = dest.enabled
        /\ new.mode = dest.mode /\ new.ids = dest.ids
    OBVIOUS
  <1> HIDE DEF new
  <1>. QED
    BY <1>1, <1>2, <1>3 DEF DestinationAccepted

(* The whole file.                                                            *)
LEMMA Parts ==
  ASSUME file \in Files
  PROVE  LET new == Overridden(file, env)
         IN  /\ new.v1 = file.v1 /\ new.metrics = file.metrics
             /\ new.source = IF env.source = "unset" THEN file.source ELSE env.source
             /\ new.input = InputOverridden(InputOverridden(file.input, env.input, "tcp"), env.input, "serial")
             /\ DOMAIN new.destinations = DOMAIN file.destinations
             /\ \A i \in DOMAIN file.destinations :
                  new.destinations[i] = DestinationOverridden(file.destinations[i], env.destinations)
  <1>1. DOMAIN file = {"v1", "source", "input", "destinations", "metrics"}
    BY FilesAssumption
  <1>. QED
    BY <1>1 DEF Overridden

LEMMA InputFields ==
  {"retry_initial_delay", "retry_max_delay"} \cap (DOMAIN TCPInputConfig \cup DOMAIN SerialInputConfig) = {}
BY DEF TCPInputConfig, SerialInputConfig, Numbers, Needed, Chosen, Free, ++

LEMMA InputStill ==
  ASSUME Sensible, InputAccepted(file.source, file.input)
  PROVE  InputAccepted(file.source,
           InputOverridden(InputOverridden(file.input, env.input, "tcp"), env.input, "serial"))
  <1> DEFINE first == InputOverridden(file.input, env.input, "tcp")
             second == InputOverridden(first, env.input, "serial")
  <1>1. \A v \in env.input :
          /\ v.group = IF file.source = "usb_serial" THEN "serial" ELSE file.source
          /\ Fits(IF v.group = "tcp" THEN TCPInputConfig ELSE SerialInputConfig, v)
    BY DEF Sensible
  <1>2. CASE file.source = "tcp"
    <2>1. Constructs(TCPInputConfig, {"host", "port"}, file.input)
      BY <1>2 DEF InputAccepted
    <2>2. Constructs(TCPInputConfig, {"host", "port"}, first)
      BY <1>1, <2>1, ClassesOK, InputFields, InputKept
    <2>3. Constructs(TCPInputConfig, {"host", "port"}, second)
      BY <1>1, <1>2, <2>2, InputUntouched
    <2>. QED
      BY <1>2, <2>3 DEF InputAccepted
  <1>3. CASE file.source \in {"serial", "usb_serial"}
    <2>1. Constructs(SerialInputConfig, {"port", "baudrate"}, file.input)
      BY <1>3 DEF InputAccepted
    <2>2. Constructs(SerialInputConfig, {"port", "baudrate"}, first)
      BY <1>1, <1>3, <2>1, InputUntouched
    <2>3. \A v \in env.input : v.group = "serial" => Fits(SerialInputConfig, v)
      BY <1>1
    <2>4. Constructs(SerialInputConfig, {"port", "baudrate"}, second)
      BY <2>2, <2>3, ClassesOK, InputFields, InputKept
    <2>. QED
      BY <1>3, <2>4 DEF InputAccepted
  <1>4. CASE file.source = "ntrip"
    <2>1. \A v \in env.input : v.group # "tcp" /\ v.group # "serial"
      BY <1>1, <1>4
    <2>2. /\ Constructs(NtripInputConfig, {"caster", "mountpoint"}, file.input)
          /\ Get(file.input, "tls", "zero") = "zero" \/ Get(file.input, "version", "text") # "v1"
      BY <1>4 DEF InputAccepted
    <2>3. Constructs(NtripInputConfig, {"caster", "mountpoint"}, second)
      BY <2>1, <2>2, InputUntouched
    <2>4. \A f, default : Get(second, f, default) = Get(file.input, f, default)
      BY <2>1, InputUntouched
    <2>. QED
      BY <1>4, <2>2, <2>3, <2>4 DEF InputAccepted
  <1>5. CASE file.source = "bluetooth"
    BY <1>5 DEF InputAccepted
  <1>. QED
    BY <1>2, <1>3, <1>4, <1>5 DEF InputAccepted

(* Sensible overrides leave an accepted file accepted.                             *)
LEMMA AcceptedStill ==
  ASSUME file \in Files, env \in Envs, Sensible, Accepted(file)
  PROVE  Accepted(Overridden(file, env))
  <1> DEFINE new == Overridden(file, env)
             old == file.destinations
  <1>1. new.source = file.source /\ InputAccepted(new.source, new.input)
    BY Parts, InputStill DEF Sensible, Accepted
  <1>2. \A i \in DOMAIN old : /\ DestinationAccepted(new.destinations[i])
                              /\ new.destinations[i].name = old[i].name
                              /\ new.destinations[i].enabled = old[i].enabled
    <2>. TAKE i \in DOMAIN old
    <2>1. Apt(old[i])
      BY DEF Sensible, Apt, Given
    <2>2. "config" \in DOMAIN old[i] /\ DestinationAccepted(old[i])
      BY FilesAssumption DEF Accepted
    <2>. QED
      BY <2>1, <2>2, DestinationStill, Parts DEF Given
  <1>3. DOMAIN new.destinations = DOMAIN old /\ new.v1 = file.v1 /\ new.metrics = file.metrics
    BY Parts
  <1>4. \E i \in DOMAIN old : old[i].enabled = "yes"
    BY DEF Accepted
  <1>5. new.destinations # <<>>
    BY <1>3, <1>4
  <1>e. new = Overridden(file, env)
    OBVIOUS
  <1> HIDE DEF new
  <1>6. /\ ~new.v1 /\ new.source \in InputSourcesKnown /\ new.metrics \in {"on", "off"}
        /\ \A i \in DOMAIN new.destinations : DestinationAccepted(new.destinations[i])
    BY <1>1, <1>2, <1>3 DEF Accepted
  <1>7. \E i \in DOMAIN new.destinations : new.destinations[i].enabled = "yes"
    BY <1>2, <1>3, <1>4
  <1>8. \A i, j \in DOMAIN new.destinations :
          new.destinations[i].name = new.destinations[j].name => i = j
    BY <1>2, <1>3 DEF Accepted
  <1>. QED
    BY <1>1, <1>5, <1>6, <1>7, <1>8, <1>e DEF Accepted

(* What is known of the file at each place of start().                             *)
Excused ==
  \/ file.source \in {"read", "bluetooth"}
  \/ file.metrics = "on" /\ ~metrics
  \/ \E i \in DOMAIN file.destinations : "outside" \in file.destinations[i].ids
KnownIds(f) == \A i \in DOMAIN f.destinations : f.destinations[i].ids \subseteq {"id", "outside"}
Loading ==
  /\ KnownIds(file)
  /\ frames[1].at = "load" => /\ file \in Files /\ env \in Envs
                              /\ exit = "error" => ~Accepted(Overridden(file, env))
  /\ frames[1].at \in {"metrics", "input", "destinations"} => Accepted(file)
  /\ frames[1].at = "metrics" => ~metrics
  /\ frames[1].at \in {"starting", "launch", "started", "begin"} => file.source = "read"
  /\ frames[1].at = "cleanup" => Excused

LEMMA KnownStill ==
  ASSUME file \in Files
  PROVE  KnownIds(file) /\ KnownIds(Overridden(file, env))
  <1>1. KnownIds(file)
    BY FilesAssumption DEF KnownIds
  <1>2. \A i \in DOMAIN file.destinations :
          DestinationOverridden(file.destinations[i], env.destinations).ids = file.destinations[i].ids
    <2>. TAKE i \in DOMAIN file.destinations
    <2> DEFINE d == file.destinations[i]
    <2>1. d.name = <<>> => DestinationOverridden(d, env.destinations) = d
      BY DestChanged
    <2>2. d.name # <<>> => DestinationOverridden(d, env.destinations)
                           = [d EXCEPT !.config = DestChanges(d, env.destinations) ++ @]
      BY DestChanged
    <2> HIDE DEF d
    <2>3. DestinationOverridden(d, env.destinations).ids = d.ids
      <3>1. CASE d.name = <<>>
        BY <2>1, <3>1
      <3>2. CASE d.name # <<>>
        <4> DEFINE new == [d EXCEPT !.config = DestChanges(d, env.destinations) ++ @]
        <4>1. new.ids = d.ids
          OBVIOUS
        <4>. QED
          BY <2>2, <3>2, <4>1
      <3>. QED
        BY <3>1, <3>2
    <2>. QED
      BY <2>3 DEF d
  <1>. QED
    BY <1>1, <1>2, Parts DEF KnownIds

LEMMA LoadStep == TidyInv /\ Loading /\ [ServiceNext]_serviceVars => Loading'
  <1> SUFFICES ASSUME TidyInv, Loading, [ServiceNext]_serviceVars PROVE Loading'
    OBVIOUS
  <1>s. /\ frames \in Seq(Frame) /\ Len(frames) \in Nat /\ Len(frames) >= 1
        /\ \A i \in 2 .. Len(frames) : frames[i].at \in Stopping
    BY DEF TidyInv, Shape
  <1>b. frames[1].at = "load" => Len(frames) = 1 /\ ~metrics
    BY DEF TidyInv, Begins
  <1>m. \A label \in Starting \cup Looping \cup Stopping : To(label) => Moved(label)
    BY ToMoves DEF TidyInv
  <1>h. \A label \in Starting \cup Looping \cup Stopping, lock \in {"none", "destinations", "stats", "source"} :
          Holding(lock, label) => Moved(label)
    BY HoldingMoves DEF TidyInv
  <1>t. \A label : AtTop(label) /\ label \notin Stopping =>
          exit = "none" /\ Len(frames) = 1 /\ frames[1].at = label
    BY MainOnTop DEF TidyInv
  <1> USE <1>s, <1>b DEF Loading, Excused, Moved, Starting, Looping, Stopping, AtTop, Top, InMain, conditions, parts, history
  <1>1. CASE LoadConfig
    <2>1. exit = "none" /\ Len(frames) = 1 /\ frames[1].at = "load" /\ ~metrics /\ file \in Files
      BY <1>1, <1>t DEF LoadConfig
    <2>2. UNCHANGED <<env, metrics>>
      BY <1>1 DEF LoadConfig
    <2>3. CASE Accepted(Overridden(file, env))
      <3>1. file' = Overridden(file, env) /\ Moved("metrics")
        BY <1>1, <2>3, <1>m DEF LoadConfig
      <3>2. KnownIds(file')
        BY <2>1, <3>1, KnownStill
      <3>. QED
        BY <2>1, <2>2, <2>3, <3>1, <3>2 DEF KnownIds
    <2>4. CASE ~Accepted(Overridden(file, env))
      <3>1. UNCHANGED <<file, frames>>
        BY <1>1, <2>4 DEF LoadConfig, Exit
      <3>. QED
        BY <2>1, <2>2, <2>4, <3>1 DEF KnownIds
    <2>. QED
      BY <2>3, <2>4
  <1>2. CASE ValidateOnly
    BY <1>2 DEF ValidateOnly, Exit
  <1>3. CASE StartMetrics
    <2>1. Len(frames) = 1 /\ frames[1].at = "metrics" /\ UNCHANGED <<file, env>>
      BY <1>3, <1>t DEF StartMetrics
    <2>2. \/ Moved("input")
          \/ Moved("cleanup") /\ file.metrics = "on" /\ metrics' = metrics
      BY <1>3, <1>m DEF StartMetrics
    <2>. QED
      BY <2>1, <2>2 DEF KnownIds
  <1>4. CASE CreateInput
    <2>1. Len(frames) = 1 /\ frames[1].at = "input" /\ UNCHANGED <<file, env, metrics>>
      BY <1>4, <1>t DEF CreateInput
    <2>2. Moved("destinations") \/ (Moved("cleanup") /\ file.source = "bluetooth")
      BY <1>4, <1>m DEF CreateInput, InputBuilds
    <2>. QED
      BY <2>1, <2>2 DEF KnownIds
  <1>5. CASE CreateDestinations
    <2>1. Len(frames) = 1 /\ frames[1].at = "destinations" /\ UNCHANGED <<file, env, metrics>>
      BY <1>5, <1>t DEF CreateDestinations
    <2>2. ASSUME NEW i \in DOMAIN file.destinations, ~DestinationBuilds(file.destinations[i])
          PROVE  "outside" \in file.destinations[i].ids
      <3>1. FilterAccepted(file.destinations[i].mode, file.destinations[i].ids)
        BY <2>1 DEF Accepted, DestinationAccepted
      <3>. QED
        BY <2>2, <3>1 DEF KnownIds, DestinationBuilds, FilterBuilds, FilterAccepted
    <2>3. \/ Moved("connect")
          \/ Moved("cleanup") /\ \E i \in DOMAIN file.destinations : "outside" \in file.destinations[i].ids
      BY <1>5, <1>m, <2>2 DEF CreateDestinations
    <2>. QED
      BY <2>1, <2>3 DEF KnownIds
  <1>6. CASE ConnectInput
    <2>1. Moved("starting") \/ Moved("cleanup")
      BY <1>6, <1>m, <1>h DEF ConnectInput
    <2>. QED
      BY <1>6, <2>1, <1>t DEF ConnectInput, NoFile, KnownIds
  <1>7. CASE StartDestination
    <2>1. Moved("cleanup") \/ UNCHANGED frames
      BY <1>7, <1>m, <1>h DEF StartDestination
    <2>. QED
      BY <1>7, <2>1 DEF StartDestination
  <1>8. CASE Launch
    <2>1. Moved("launch")
      BY <1>8, <1>m, <1>h DEF Launch
    <2>. QED
      BY <1>8, <2>1 DEF Launch
  <1>9. CASE HubStarted
    <2>1. Moved("started")
      BY <1>9, <1>m, <1>h DEF HubStarted
    <2>. QED
      BY <1>9, <2>1 DEF HubStarted
  <1>10. CASE Started
    <2>1. Moved("begin")
      BY <1>10, <1>m, <1>h DEF Started
    <2>. QED
      BY <1>10, <2>1 DEF Started
  <1>29. CASE EnterLoop
    <2>1. Moved("check")
      BY <1>29, <1>m, <1>h DEF EnterLoop
    <2>. QED
      BY <1>29, <2>1 DEF EnterLoop
  <1>11. CASE Cleanup
    BY <1>11 DEF Cleanup, Exit
  <1>12. CASE Check
    <2>1. Moved("stop") \/ Moved("update")
      BY <1>12, <1>m, <1>h DEF Check
    <2>. QED
      BY <1>12, <2>1 DEF Check
  <1>13. CASE Update
    <2>1. Moved("updating") \/ Moved("sleep")
      BY <1>13, <1>m, <1>h DEF Update
    <2>. QED
      BY <1>13, <2>1 DEF Update
  <1>14. CASE Updated
    <2>1. Moved("sleep")
      BY <1>14, <1>m, <1>h DEF Updated
    <2>. QED
      BY <1>14, <2>1 DEF Updated
  <1>15. CASE Sleep
    <2>1. Moved("check")
      BY <1>15, <1>m, <1>h DEF Sleep
    <2>. QED
      BY <1>15, <2>1 DEF Sleep
  <1>16. CASE StopService
    <2>1. Moved("hubStop") \/ Moved("stopped")
      BY <1>16, <1>m, <1>h DEF StopService
    <2>. QED
      BY <1>16, <2>1 DEF StopService
  <1>17. CASE HubStop
    <2>1. Moved("join") \/ Moved("again")
      BY <1>17, <1>m, <1>h DEF HubStop
    <2>. QED
      BY <1>17, <2>1 DEF HubStop
  <1>18. CASE HubStopRaises
    <2>1. Unwind("error") /\ UNCHANGED <<file, env, metrics>>
      BY <1>18 DEF HubStopRaises
    <2>2. CASE frames' = frames /\ exit' = "error"
      <3>1. frames[1].at # "load"
        BY <1>18 DEF HubStopRaises
      <3>. QED
        BY <2>1, <2>2, <3>1 DEF KnownIds
    <2>3. ASSUME NEW label \in {"sleep", "stop"}, NEW how, Restarted(label, how) PROVE Loading'
      BY <2>1, <2>3 DEF Restarted, KnownIds
    <2>4. CASE frames[1].at = "begin" /\ Restarted("cleanup", "error")
      BY <2>1, <2>4 DEF Restarted, KnownIds
    <2>. QED
      BY <2>1, <2>2, <2>3, <2>4, UnwindCases
  <1>19. CASE JoinHub
    <2>1. Moved("stopDests")
      BY <1>19, <1>m, <1>h DEF JoinHub
    <2>. QED
      BY <1>19, <2>1 DEF JoinHub
  <1>20. CASE StopDestination
    BY <1>20 DEF StopDestination
  <1>21. CASE DestinationsStopped
    <2>1. Moved("disconnect")
      BY <1>21, <1>m, <1>h DEF DestinationsStopped
    <2>. QED
      BY <1>21, <2>1 DEF DestinationsStopped
  <1>22. CASE Disconnect
    <2>1. Moved("drain") \/ Moved("unlock")
      BY <1>22, <1>m, <1>h DEF Disconnect
    <2>. QED
      BY <1>22, <2>1 DEF Disconnect
  <1>23. CASE Disconnected
    <2>1. Moved("again") \/ Moved("metricsStop")
      BY <1>23, <1>m, <1>h DEF Disconnected
    <2>. QED
      BY <1>23, <2>1 DEF Disconnected
  <1>24. CASE StopMetrics
    <2>1. Moved("lower")
      BY <1>24, <1>m, <1>h DEF StopMetrics
    <2>. QED
      BY <1>24, <2>1 DEF StopMetrics
  <1>25. CASE Lower
    <2>1. Moved("stopped")
      BY <1>25, <1>m, <1>h DEF Lower
    <2>. QED
      BY <1>25, <2>1 DEF Lower
  <1>26. CASE Return
    <2>1. Unwind(Top.ends) /\ UNCHANGED <<file, env, metrics>>
      BY <1>26 DEF Return
    <2>2. Top.ends \in {"ok", "error"} /\ frames[1].at # "load"
      <3>1. Top.at = "stopped" /\ frames[Len(frames)] \in Frame
        BY <1>26 DEF Return
      <3>2. frames[1].at # "load"
        BY <3>1
      <3>. QED
        BY <3>1, <3>2 DEF Frame
    <2>3. CASE frames' = frames /\ exit' = Top.ends
      BY <2>1, <2>2, <2>3 DEF KnownIds
    <2>4. ASSUME NEW label \in {"sleep", "stop"}, NEW how, Restarted(label, how) PROVE Loading'
      BY <2>1, <2>4 DEF Restarted, KnownIds
    <2>5. CASE frames[1].at = "begin" /\ Restarted("cleanup", "error")
      BY <2>1, <2>5 DEF Restarted, KnownIds
    <2>. QED
      BY <2>1, <2>2, <2>3, <2>4, <2>5, UnwindCases
  <1>27. CASE Signal
    BY <1>27 DEF Signal
  <1>28. CASE UNCHANGED serviceVars
    BY <1>28 DEF serviceVars
  <1>. QED
    BY <1>1, <1>2, <1>3, <1>4, <1>5, <1>6, <1>7, <1>8, <1>9, <1>10, <1>11, <1>12, <1>13, <1>14,
       <1>15, <1>16, <1>17, <1>18, <1>19, <1>20, <1>21, <1>22, <1>23, <1>24, <1>25, <1>26, <1>27, <1>28, <1>29
       DEF ServiceNext, Main

LEMMA ServiceInvHolds == ServiceSpec => [](TidyInv /\ Loading)
  <1>1. ServiceInit => TidyInv /\ Loading
    <2>. SUFFICES ASSUME ServiceInit PROVE TidyInv /\ Loading
      OBVIOUS
    <2> DEFINE f == [at |-> "load", lock |-> "none", ends |-> "ok"]
    <2>1. f \in Frame /\ f.at = "load" /\ f.ends = "ok" /\ frames = <<f>>
      BY DEF ServiceInit, Frame, Starting
    <2> HIDE DEF f
    <2>2. frames \in Seq(Frame) /\ Len(frames) = 1 /\ frames[1] = f
      BY <2>1
    <2>3. TidyInv
      BY <2>1, <2>2 DEF ServiceInit, TidyInv, Shape, Raised, Begins, Tidy, ReleasedAtExit, Past, Stopping, Looping
    <2>4. Loading
      BY <2>1, <2>2, KnownStill DEF ServiceInit, Loading
    <2>. QED
      BY <2>3, <2>4
  <1>2. TidyInv /\ Loading /\ [ServiceNext]_serviceVars => TidyInv' /\ Loading'
    BY TidyStep, LoadStep
  <1>. QED
    BY <1>1, <1>2, PTL DEF ServiceSpec

(* TidyExit for any number of signals: a signal that finds the service in its run loop    *)
(* makes it stop the hub, the input and the metrics server before the process ends, and   *)
(* every destination before it ends with 0, unless _update_metrics caught the error of    *)
(* that stop(); and a start() that fails at any part leaves no hub running, no input     *)
(* connected and no metrics server.                                             *)
THEOREM ServiceEndsTidily == ServiceSpec => []TidyExit
  <1>1. TidyInv => TidyExit
    BY DEF TidyInv, Shape, ReleasedAtExit, Tidied, TidyExit
  <1>. QED
    BY <1>1, ServiceInvHolds, PTL

(* AcceptedBuilds for every configuration file and environment: what from_dict accepts,   *)
(* the factories build, but for the two checks that only the constructors make.        *)
THEOREM AcceptedIsBuilt == ServiceSpec => []AcceptedBuilds
  <1>1. TidyInv /\ Loading => AcceptedBuilds
    <2>. SUFFICES ASSUME TidyInv, Loading PROVE AcceptedBuilds
      OBVIOUS
    <2>1. Top.at = "cleanup" => frames[1].at = "cleanup"
      BY DEF TidyInv, Shape, Top, Stopping
    <2>. QED
      BY <2>1 DEF Loading, Excused, AcceptedBuilds, AtTop
  <1>. QED
    BY <1>1, ServiceInvHolds, PTL

(* OverridesHarmless for every configuration file and environment: variables that name    *)
(* fields of the input in use or of a destination, with values that fit, never make     *)
(* a file unacceptable that was acceptable without them.                            *)
THEOREM OverridesKeepFilesGood == ServiceSpec => []OverridesHarmless
  <1>1. TidyInv /\ Loading => OverridesHarmless
    <2>. SUFFICES ASSUME TidyInv, Loading PROVE OverridesHarmless
      OBVIOUS
    <2>1. Top.at = "load" => frames[1].at = "load"
      BY DEF TidyInv, Shape, Top, Stopping
    <2>. QED
      BY <2>1, AcceptedStill DEF Loading, OverridesHarmless
  <1>. QED
    BY <1>1, ServiceInvHolds, PTL

-----------------------------------------------------------------------------
(***************************************************************************)
(* 3. The Bluetooth manager, for every set of devices and of calls for them,   *)
(* any number of them in flight at once, and every number of retries.          *)
(***************************************************************************)
Where == {"idle", "known", "scan", "wait", "sleep", "remove", "pair", "pairing", "refused",
          "paired", "check", "trust", "connect", "connecting", "retry", "disconnect"}
Outcomes == {"none", "find", "wait", "remove", "pair", "trust", "connect", "disconnect",
             "done", "cut"}
CallRecord == [op : {"none", "ensure", "repair", "connect", "disconnect"}, pin : Pins \cup {NoPin},
               at : Where, scanning : BOOLEAN, tries : 0 .. MaxRetries, outcome : Outcomes,
               had : BOOLEAN]
DevRecord == [object : {"absent", "stub", "full"}, bond : Pins \cup {NoPin}, old : BOOLEAN,
              trusted : BOOLEAN, connected : BOOLEAN, pin : Pins, by : {"none", "call", "remote"},
              answer : Pins \cup {NoPin}]

TypeInv ==
  /\ manager \in {"new", "open", "closing", "closed"}
  /\ agent \in BOOLEAN /\ discovery \in BOOLEAN /\ neglected \in BOOLEAN
  /\ call \in [Devices -> CallRecord] /\ dev \in [Devices -> DevRecord]
  /\ recorded \in [Devices -> Pins \cup {NoPin}]
  /\ cache \in [Devices -> {"none", "stub", "full"}]

(* Where a call has recorded its PIN, and where its pairing has succeeded.       *)
Recording == {"pairing", "refused", "paired", "connecting", "retry"}
Bonding   == {"paired", "check", "trust"}

(* Which call can be where.                                                   *)
Ops(d) ==
  /\ call[d].at \in {"wait", "sleep", "pair", "pairing", "refused"} \cup Bonding =>
       call[d].op \in {"ensure", "repair"}
  /\ call[d].at \in {"known", "scan"} => call[d].op = "ensure"
  /\ call[d].at = "remove" => call[d].op = "repair"
  /\ call[d].at \in {"connect", "connecting", "retry"} => call[d].op = "connect"
  /\ call[d].at = "disconnect" => call[d].op = "disconnect"
  /\ call[d].op \in {"ensure", "repair"} => call[d].pin # NoPin
  /\ call[d].at = "retry" => call[d].tries < MaxRetries

(* BlueZ pairs only what has no bond, and the answer that the pairing of the      *)
(* call in flight has is that call's PIN.                                     *)
Pairings(d) ==
  /\ dev[d].by # "none" => dev[d].bond = NoPin
  /\ dev[d].by = "none" => dev[d].answer = NoPin
  /\ dev[d].by = "call" /\ call[d].at = "pairing" => dev[d].answer \in {NoPin, call[d].pin}
  /\ dev[d].old => dev[d].bond # NoPin

(* What a call has brought about so far, and what it can tell when it is over.    *)
Told(d) ==
  /\ call[d].op = "repair" /\ call[d].at = "remove" /\ call[d].had => dev[d].old
  /\ call[d].op = "repair" /\ call[d].at \in Bonding => dev[d].bond = call[d].pin /\ ~dev[d].old
  /\ call[d].op = "ensure" /\ call[d].at \in Bonding => dev[d].bond # NoPin
  /\ call[d].at = "idle" =>
       /\ call[d].op = "repair" /\ call[d].outcome \in {"trust", "done"} =>
            dev[d].bond = call[d].pin /\ ~dev[d].old
       /\ call[d].op = "repair" /\ call[d].outcome = "remove" /\ call[d].had => dev[d].old
       /\ call[d].op = "ensure" /\ call[d].outcome = "done" => dev[d].bond # NoPin /\ dev[d].trusted

(* While there is an agent, the PINs it finds are those of calls in flight.       *)
PinInFlight(d) == recorded[d] # NoPin => recorded[d] = call[d].pin /\ call[d].at \in Recording
AgentServed ==
  /\ agent => manager \in {"open", "closing"}
  /\ manager # "closed" => \A d \in Devices : PinInFlight(d)

(* Whoever turned discovery on is still there to turn it off.                  *)
Scanning(d) == call[d].at = "scan" \/ call[d].scanning
ScanOwned ==
  /\ \A d \in Devices : call[d].scanning => call[d].at \in {"wait", "sleep"}
  /\ discovery /\ ~neglected => \E d \in Devices : Scanning(d)

DeviceInv(d) == Ops(d) /\ Pairings(d) /\ Told(d)
Inv == TypeInv /\ AgentServed /\ ScanOwned /\ \A d \in Devices : DeviceInv(d)

-----------------------------------------------------------------------------
(* The call for d, alone, is at w now, with these flags, attempts and outcome.   *)
Became(f, g, d, w, s, n, o) ==
  /\ g \in [Devices -> CallRecord]
  /\ g[d].op = f[d].op /\ g[d].pin = f[d].pin /\ g[d].had = f[d].had
  /\ g[d].at = w /\ g[d].scanning = s /\ g[d].tries = n /\ g[d].outcome = o
  /\ \A e \in Devices \ {d} : g[e] = f[e]

(* The device d, alone, is this record now.                                   *)
Turned(f, g, d, r) ==
  /\ g \in [Devices -> DevRecord] /\ g[d] = r /\ \A e \in Devices \ {d} : g[e] = f[e]

-----------------------------------------------------------------------------
(* What a step of a call leaves in its record, and that it touches no other.     *)
LEMMA CallGoes ==
  ASSUME NEW f \in [Devices -> CallRecord], NEW d \in Devices, NEW w \in Where
  PROVE  Became(f, [f EXCEPT ![d].at = w], d, w, f[d].scanning, f[d].tries, f[d].outcome)
  <1>1. PICK r \in CallRecord : r = f[d]
    OBVIOUS
  <1>2. PICK t : t = [r EXCEPT !.at = w]
    OBVIOUS
  <1>3. t = [op |-> r.op, pin |-> r.pin, at |-> w, scanning |-> r.scanning, tries |-> r.tries,
             outcome |-> r.outcome, had |-> r.had]
    BY <1>2 DEF CallRecord
  <1>4. [f EXCEPT ![d].at = w] = [f EXCEPT ![d] = t]
    BY <1>1, <1>2
  <1>5. t \in CallRecord
    BY <1>3 DEF CallRecord
  <1>6. [f EXCEPT ![d] = t] \in [Devices -> CallRecord]
    BY <1>5
  <1> QED BY <1>1, <1>3, <1>4, <1>6 DEF Became

LEMMA CallEnds ==
  ASSUME NEW f \in [Devices -> CallRecord], NEW d \in Devices, NEW w \in Where,
         NEW s \in BOOLEAN, NEW o \in Outcomes
  PROVE  Became(f, [f EXCEPT ![d].at = w, ![d].outcome = o, ![d].scanning = s], d, w, s,
         f[d].tries, o)
  <1>1. PICK r \in CallRecord : r = f[d]
    OBVIOUS
  <1>2. PICK t : t = [r EXCEPT !.at = w, !.outcome = o, !.scanning = s]
    OBVIOUS
  <1>3. t = [op |-> r.op, pin |-> r.pin, at |-> w, scanning |-> s, tries |-> r.tries,
             outcome |-> o, had |-> r.had]
    BY <1>2 DEF CallRecord
  <1>4. [f EXCEPT ![d].at = w, ![d].outcome = o, ![d].scanning = s] = [f EXCEPT ![d] = t]
    BY <1>1, <1>2
  <1>5. t \in CallRecord
    BY <1>3 DEF CallRecord
  <1>6. [f EXCEPT ![d] = t] \in [Devices -> CallRecord]
    BY <1>5
  <1> QED BY <1>1, <1>3, <1>4, <1>6 DEF Became

LEMMA CallScans ==
  ASSUME NEW f \in [Devices -> CallRecord], NEW d \in Devices, NEW w \in Where, NEW s \in BOOLEAN
  PROVE  Became(f, [f EXCEPT ![d].at = w, ![d].scanning = s], d, w, s, f[d].tries, f[d].outcome)
  <1>1. PICK r \in CallRecord : r = f[d]
    OBVIOUS
  <1>2. PICK t : t = [r EXCEPT !.at = w, !.scanning = s]
    OBVIOUS
  <1>3. t = [op |-> r.op, pin |-> r.pin, at |-> w, scanning |-> s, tries |-> r.tries,
             outcome |-> r.outcome, had |-> r.had]
    BY <1>2 DEF CallRecord
  <1>4. [f EXCEPT ![d].at = w, ![d].scanning = s] = [f EXCEPT ![d] = t]
    BY <1>1, <1>2
  <1>5. t \in CallRecord
    BY <1>3 DEF CallRecord
  <1>6. [f EXCEPT ![d] = t] \in [Devices -> CallRecord]
    BY <1>5
  <1> QED BY <1>1, <1>3, <1>4, <1>6 DEF Became

LEMMA CallFails ==
  ASSUME NEW f \in [Devices -> CallRecord], NEW d \in Devices, NEW w \in Where, NEW o \in Outcomes
  PROVE  Became(f, [f EXCEPT ![d].at = w, ![d].outcome = o], d, w, f[d].scanning, f[d].tries, o)
  <1>1. PICK r \in CallRecord : r = f[d]
    OBVIOUS
  <1>2. PICK t : t = [r EXCEPT !.at = w, !.outcome = o]
    OBVIOUS
  <1>3. t = [op |-> r.op, pin |-> r.pin, at |-> w, scanning |-> r.scanning, tries |-> r.tries,
             outcome |-> o, had |-> r.had]
    BY <1>2 DEF CallRecord
  <1>4. [f EXCEPT ![d].at = w, ![d].outcome = o] = [f EXCEPT ![d] = t]
    BY <1>1, <1>2
  <1>5. t \in CallRecord
    BY <1>3 DEF CallRecord
  <1>6. [f EXCEPT ![d] = t] \in [Devices -> CallRecord]
    BY <1>5
  <1> QED BY <1>1, <1>3, <1>4, <1>6 DEF Became

LEMMA CallTries ==
  ASSUME NEW f \in [Devices -> CallRecord], NEW d \in Devices, NEW w \in Where,
         NEW n \in 0 .. MaxRetries
  PROVE  Became(f, [f EXCEPT ![d].at = w, ![d].tries = n], d, w, f[d].scanning, n, f[d].outcome)
  <1>1. PICK r \in CallRecord : r = f[d]
    OBVIOUS
  <1>2. PICK t : t = [r EXCEPT !.at = w, !.tries = n]
    OBVIOUS
  <1>3. t = [op |-> r.op, pin |-> r.pin, at |-> w, scanning |-> r.scanning, tries |-> n,
             outcome |-> r.outcome, had |-> r.had]
    BY <1>2 DEF CallRecord
  <1>4. [f EXCEPT ![d].at = w, ![d].tries = n] = [f EXCEPT ![d] = t]
    BY <1>1, <1>2
  <1>5. t \in CallRecord
    BY <1>3 DEF CallRecord
  <1>6. [f EXCEPT ![d] = t] \in [Devices -> CallRecord]
    BY <1>5
  <1> QED BY <1>1, <1>3, <1>4, <1>6 DEF Became

(* The same for BlueZ's record of a device.                                   *)
LEMMA DevPairs ==
  ASSUME NEW f \in [Devices -> DevRecord], NEW d \in Devices, NEW b \in {"none", "call", "remote"}
  PROVE  Turned(f, [f EXCEPT ![d].by = b], d,
           [object |-> f[d].object, bond |-> f[d].bond, old |-> f[d].old,
            trusted |-> f[d].trusted, connected |-> f[d].connected, pin |-> f[d].pin, by |-> b,
         answer |-> f[d].answer])
  <1>1. PICK r \in DevRecord : r = f[d]
    OBVIOUS
  <1>2. PICK t : t = [r EXCEPT !.by = b]
    OBVIOUS
  <1>3. t = [object |-> r.object, bond |-> r.bond, old |-> r.old, trusted |-> r.trusted,
             connected |-> r.connected, pin |-> r.pin, by |-> b, answer |-> r.answer]
    BY <1>2 DEF DevRecord
  <1>4. [f EXCEPT ![d].by = b] = [f EXCEPT ![d] = t]
    BY <1>1, <1>2
  <1>5. t \in DevRecord
    BY <1>3 DEF DevRecord
  <1>6. [f EXCEPT ![d] = t] \in [Devices -> DevRecord]
    BY <1>5
  <1> QED BY <1>1, <1>3, <1>4, <1>6 DEF Turned

LEMMA DevAnswers ==
  ASSUME NEW f \in [Devices -> DevRecord], NEW d \in Devices, NEW a \in Pins \cup {NoPin}
  PROVE  Turned(f, [f EXCEPT ![d].answer = a], d,
           [object |-> f[d].object, bond |-> f[d].bond, old |-> f[d].old,
            trusted |-> f[d].trusted, connected |-> f[d].connected, pin |-> f[d].pin,
         by |-> f[d].by, answer |-> a])
  <1>1. PICK r \in DevRecord : r = f[d]
    OBVIOUS
  <1>2. PICK t : t = [r EXCEPT !.answer = a]
    OBVIOUS
  <1>3. t = [object |-> r.object, bond |-> r.bond, old |-> r.old, trusted |-> r.trusted,
             connected |-> r.connected, pin |-> r.pin, by |-> r.by, answer |-> a]
    BY <1>2 DEF DevRecord
  <1>4. [f EXCEPT ![d].answer = a] = [f EXCEPT ![d] = t]
    BY <1>1, <1>2
  <1>5. t \in DevRecord
    BY <1>3 DEF DevRecord
  <1>6. [f EXCEPT ![d] = t] \in [Devices -> DevRecord]
    BY <1>5
  <1> QED BY <1>1, <1>3, <1>4, <1>6 DEF Turned

LEMMA DevBonds ==
  ASSUME NEW f \in [Devices -> DevRecord], NEW d \in Devices, NEW a \in Pins \cup {NoPin}
  PROVE  Turned(f, [f EXCEPT ![d].bond = a, ![d].old = FALSE, ![d].by = "none",
         ![d].answer = NoPin], d,
           [object |-> f[d].object, bond |-> a, old |-> FALSE, trusted |-> f[d].trusted,
            connected |-> f[d].connected, pin |-> f[d].pin, by |-> "none", answer |-> NoPin])
  <1>1. PICK r \in DevRecord : r = f[d]
    OBVIOUS
  <1>2. PICK t : t = [r EXCEPT !.bond = a, !.old = FALSE, !.by = "none", !.answer = NoPin]
    OBVIOUS
  <1>3. t = [object |-> r.object, bond |-> a, old |-> FALSE, trusted |-> r.trusted,
             connected |-> r.connected, pin |-> r.pin, by |-> "none", answer |-> NoPin]
    BY <1>2 DEF DevRecord
  <1>4. [f EXCEPT ![d].bond = a, ![d].old = FALSE, ![d].by = "none",
         ![d].answer = NoPin] = [f EXCEPT ![d] = t]
    BY <1>1, <1>2
  <1>5. t \in DevRecord
    BY <1>3 DEF DevRecord
  <1>6. [f EXCEPT ![d] = t] \in [Devices -> DevRecord]
    BY <1>5
  <1> QED BY <1>1, <1>3, <1>4, <1>6 DEF Turned

LEMMA DevFails ==
  ASSUME NEW f \in [Devices -> DevRecord], NEW d \in Devices
  PROVE  Turned(f, [f EXCEPT ![d].by = "none", ![d].answer = NoPin], d,
           [object |-> f[d].object, bond |-> f[d].bond, old |-> f[d].old,
            trusted |-> f[d].trusted, connected |-> f[d].connected, pin |-> f[d].pin,
         by |-> "none", answer |-> NoPin])
  <1>1. PICK r \in DevRecord : r = f[d]
    OBVIOUS
  <1>2. PICK t : t = [r EXCEPT !.by = "none", !.answer = NoPin]
    OBVIOUS
  <1>3. t = [object |-> r.object, bond |-> r.bond, old |-> r.old, trusted |-> r.trusted,
             connected |-> r.connected, pin |-> r.pin, by |-> "none", answer |-> NoPin]
    BY <1>2 DEF DevRecord
  <1>4. [f EXCEPT ![d].by = "none", ![d].answer = NoPin] = [f EXCEPT ![d] = t]
    BY <1>1, <1>2
  <1>5. t \in DevRecord
    BY <1>3 DEF DevRecord
  <1>6. [f EXCEPT ![d] = t] \in [Devices -> DevRecord]
    BY <1>5
  <1> QED BY <1>1, <1>3, <1>4, <1>6 DEF Turned

LEMMA DevTrusts ==
  ASSUME NEW f \in [Devices -> DevRecord], NEW d \in Devices
  PROVE  Turned(f, [f EXCEPT ![d].trusted = TRUE], d,
           [object |-> f[d].object, bond |-> f[d].bond, old |-> f[d].old, trusted |-> TRUE,
            connected |-> f[d].connected, pin |-> f[d].pin, by |-> f[d].by, answer |-> f[d].answer])
  <1>1. PICK r \in DevRecord : r = f[d]
    OBVIOUS
  <1>2. PICK t : t = [r EXCEPT !.trusted = TRUE]
    OBVIOUS
  <1>3. t = [object |-> r.object, bond |-> r.bond, old |-> r.old, trusted |-> TRUE,
             connected |-> r.connected, pin |-> r.pin, by |-> r.by, answer |-> r.answer]
    BY <1>2 DEF DevRecord
  <1>4. [f EXCEPT ![d].trusted = TRUE] = [f EXCEPT ![d] = t]
    BY <1>1, <1>2
  <1>5. t \in DevRecord
    BY <1>3 DEF DevRecord
  <1>6. [f EXCEPT ![d] = t] \in [Devices -> DevRecord]
    BY <1>5
  <1> QED BY <1>1, <1>3, <1>4, <1>6 DEF Turned

LEMMA DevConnects ==
  ASSUME NEW f \in [Devices -> DevRecord], NEW d \in Devices, NEW b \in BOOLEAN
  PROVE  Turned(f, [f EXCEPT ![d].connected = b], d,
           [object |-> f[d].object, bond |-> f[d].bond, old |-> f[d].old,
            trusted |-> f[d].trusted, connected |-> b, pin |-> f[d].pin, by |-> f[d].by,
         answer |-> f[d].answer])
  <1>1. PICK r \in DevRecord : r = f[d]
    OBVIOUS
  <1>2. PICK t : t = [r EXCEPT !.connected = b]
    OBVIOUS
  <1>3. t = [object |-> r.object, bond |-> r.bond, old |-> r.old, trusted |-> r.trusted,
             connected |-> b, pin |-> r.pin, by |-> r.by, answer |-> r.answer]
    BY <1>2 DEF DevRecord
  <1>4. [f EXCEPT ![d].connected = b] = [f EXCEPT ![d] = t]
    BY <1>1, <1>2
  <1>5. t \in DevRecord
    BY <1>3 DEF DevRecord
  <1>6. [f EXCEPT ![d] = t] \in [Devices -> DevRecord]
    BY <1>5
  <1> QED BY <1>1, <1>3, <1>4, <1>6 DEF Turned

LEMMA DevAged ==
  ASSUME NEW f \in [Devices -> DevRecord], NEW d \in Devices, NEW b \in BOOLEAN
  PROVE  Turned(f, [f EXCEPT ![d].old = b], d,
           [object |-> f[d].object, bond |-> f[d].bond, old |-> b, trusted |-> f[d].trusted,
            connected |-> f[d].connected, pin |-> f[d].pin, by |-> f[d].by, answer |-> f[d].answer])
  <1>1. PICK r \in DevRecord : r = f[d]
    OBVIOUS
  <1>2. PICK t : t = [r EXCEPT !.old = b]
    OBVIOUS
  <1>3. t = [object |-> r.object, bond |-> r.bond, old |-> b, trusted |-> r.trusted,
             connected |-> r.connected, pin |-> r.pin, by |-> r.by, answer |-> r.answer]
    BY <1>2 DEF DevRecord
  <1>4. [f EXCEPT ![d].old = b] = [f EXCEPT ![d] = t]
    BY <1>1, <1>2
  <1>5. t \in DevRecord
    BY <1>3 DEF DevRecord
  <1>6. [f EXCEPT ![d] = t] \in [Devices -> DevRecord]
    BY <1>5
  <1> QED BY <1>1, <1>3, <1>4, <1>6 DEF Turned

LEMMA DevObject ==
  ASSUME NEW f \in [Devices -> DevRecord], NEW d \in Devices, NEW b \in {"absent", "stub", "full"}
  PROVE  Turned(f, [f EXCEPT ![d].object = b], d,
           [object |-> b, bond |-> f[d].bond, old |-> f[d].old, trusted |-> f[d].trusted,
            connected |-> f[d].connected, pin |-> f[d].pin, by |-> f[d].by, answer |-> f[d].answer])
  <1>1. PICK r \in DevRecord : r = f[d]
    OBVIOUS
  <1>2. PICK t : t = [r EXCEPT !.object = b]
    OBVIOUS
  <1>3. t = [object |-> b, bond |-> r.bond, old |-> r.old, trusted |-> r.trusted,
             connected |-> r.connected, pin |-> r.pin, by |-> r.by, answer |-> r.answer]
    BY <1>2 DEF DevRecord
  <1>4. [f EXCEPT ![d].object = b] = [f EXCEPT ![d] = t]
    BY <1>1, <1>2
  <1>5. t \in DevRecord
    BY <1>3 DEF DevRecord
  <1>6. [f EXCEPT ![d] = t] \in [Devices -> DevRecord]
    BY <1>5
  <1> QED BY <1>1, <1>3, <1>4, <1>6 DEF Turned

LEMMA DevGone ==
  ASSUME NEW f \in [Devices -> DevRecord], NEW d \in Devices
  PROVE  Turned(f, [f EXCEPT ![d].object = "stub", ![d].connected = FALSE], d,
           [object |-> "stub", bond |-> f[d].bond, old |-> f[d].old, trusted |-> f[d].trusted,
            connected |-> FALSE, pin |-> f[d].pin, by |-> f[d].by, answer |-> f[d].answer])
  <1>1. PICK r \in DevRecord : r = f[d]
    OBVIOUS
  <1>2. PICK t : t = [r EXCEPT !.object = "stub", !.connected = FALSE]
    OBVIOUS
  <1>3. t = [object |-> "stub", bond |-> r.bond, old |-> r.old, trusted |-> r.trusted,
             connected |-> FALSE, pin |-> r.pin, by |-> r.by, answer |-> r.answer]
    BY <1>2 DEF DevRecord
  <1>4. [f EXCEPT ![d].object = "stub", ![d].connected = FALSE] = [f EXCEPT ![d] = t]
    BY <1>1, <1>2
  <1>5. t \in DevRecord
    BY <1>3 DEF DevRecord
  <1>6. [f EXCEPT ![d] = t] \in [Devices -> DevRecord]
    BY <1>5
  <1> QED BY <1>1, <1>3, <1>4, <1>6 DEF Turned

-----------------------------------------------------------------------------
(* The first attempt is within the bound; an answer is a PIN, or none.           *)
LEMMA OneTry == 1 \in 0 .. MaxRetries /\ "connecting" \in Where
  BY ConstantsAssumption DEF Where

LEMMA AnswerIsPin == ASSUME TypeInv, NEW d \in Devices PROVE dev[d].answer \in Pins \cup {NoPin}
  BY DEF TypeInv, DevRecord

(* A bond that BlueZ makes is a new one, made with a PIN.                       *)
LEMMA NewBond ==
  ASSUME Inv, NEW d \in Devices, Bonds(d)
  PROVE  dev[d].by # "none" /\ dev[d].bond = NoPin /\ ~dev[d].old /\ dev[d].answer # NoPin
         /\ (dev[d].by = "call" /\ At(d, "pairing") => dev[d].answer = call[d].pin)
  <1>1. dev[d].pin \in Pins
    BY DEF Inv, TypeInv, DevRecord
  <1> QED BY <1>1, ConstantsAssumption DEF Inv, DeviceInv, Pairings, Bonds, At

(* A step that concerns d alone: it touches no other call, device or PIN.        *)
Alone(d) ==
  /\ manager' = manager /\ agent' = agent
  /\ discovery' \in BOOLEAN /\ (neglected => neglected') /\ neglected' \in BOOLEAN
  /\ call' \in [Devices -> CallRecord] /\ dev' \in [Devices -> DevRecord]
  /\ recorded' \in [Devices -> Pins \cup {NoPin}]
  /\ cache' \in [Devices -> {"none", "stub", "full"}]
  /\ \A e \in Devices \ {d} : call'[e] = call[e] /\ dev'[e] = dev[e] /\ recorded'[e] = recorded[e]

(* What it has to leave true of d.                                            *)
Keeps(d) ==
  /\ Ops(d)' /\ Pairings(d)' /\ Told(d)'
  /\ manager # "closed" => PinInFlight(d)'
  /\ call'[d].scanning => call'[d].at \in {"wait", "sleep"}
  /\ discovery' /\ ~neglected' => Scanning(d)' \/ (discovery /\ ~Scanning(d))

LEMMA AloneKeepsInv ==
  ASSUME Inv, NEW d \in Devices, Alone(d), Keeps(d)
  PROVE  Inv'
  <1>1. TypeInv'
    BY DEF Inv, TypeInv, Alone
  <1>2. \A e \in Devices : DeviceInv(e)'
    <2>1. SUFFICES ASSUME NEW e \in Devices PROVE DeviceInv(e)'
      OBVIOUS
    <2>2. CASE e = d
      BY <2>2 DEF Keeps, DeviceInv
    <2>3. CASE e # d
      BY <2>3 DEF Inv, DeviceInv, Ops, Pairings, Told, Alone
    <2> QED BY <2>2, <2>3
  <1>3. AgentServed'
    <2>1. (agent => manager \in {"open", "closing"})'
      BY DEF Inv, AgentServed, Alone
    <2>2. ASSUME manager' # "closed", NEW e \in Devices PROVE PinInFlight(e)'
      <3>1. CASE e = d
        BY <2>2, <3>1 DEF Keeps, Alone
      <3>2. CASE e # d
        BY <2>2, <3>2 DEF Inv, AgentServed, PinInFlight, Alone
      <3> QED BY <3>1, <3>2
    <2> QED BY <2>1, <2>2 DEF AgentServed
  <1>4. ScanOwned'
    <2>1. \A e \in Devices : (call[e].scanning => call[e].at \in {"wait", "sleep"})'
      BY DEF Inv, ScanOwned, Keeps, Alone
    <2>2. ASSUME discovery', ~neglected' PROVE \E e \in Devices : Scanning(e)'
      <3>1. CASE Scanning(d)'
        BY <3>1
      <3>2. CASE ~Scanning(d)'
        <4>1. discovery /\ ~Scanning(d) /\ ~neglected
          BY <2>2, <3>2 DEF Keeps, Alone
        <4>2. PICK e \in Devices : Scanning(e)
          BY <4>1 DEF Inv, ScanOwned
        <4>3. e # d
          BY <4>1, <4>2
        <4> QED BY <4>2, <4>3 DEF Scanning, Alone
      <3> QED BY <3>1, <3>2
    <2> QED BY <2>1, <2>2 DEF ScanOwned
  <1> QED BY <1>1, <1>2, <1>3, <1>4 DEF Inv

-----------------------------------------------------------------------------
(* One lemma for each step that concerns one device.                          *)

(* find_device_by_name: found, discovering, or failed, which ends discovery.*)
LEMMA FindKnownKeeps == ASSUME Inv, NEW d \in Devices, FindKnown(d) PROVE Inv'
  <1>1. CASE dev[d].object # "absent" /\ Goes(d, "wait") /\ UNCHANGED discovery
    <2>1. Goes(d, "wait")
      BY <1>1, Zenon DEF FindKnown
    <2>2. Became(call, call', d, "wait", call[d].scanning, call[d].tries, call[d].outcome)
      BY <2>1, CallGoes, Zenon DEF Inv, TypeInv, Goes, Where, Outcomes
    <2>3. Alone(d)
      BY <1>1, <2>2 DEF Inv, TypeInv, FindKnown, bluez, Became, Alone
    <2>4. Keeps(d)
      BY <1>1, <2>2 DEF Inv, FindKnown, OnLoop, At, Pop, Became, bluez, Keeps, DeviceInv, Ops,
         Pairings, Told, AgentServed, PinInFlight, ScanOwned, Scanning, Recording, Bonding
    <2> QED BY <2>3, <2>4, AloneKeepsInv
  <1>2. CASE dev[d].object = "absent" /\ ~discovery /\ Goes(d, "scan") /\ discovery' = TRUE
    <2>1. Goes(d, "scan")
      BY <1>2, Zenon DEF FindKnown
    <2>2. Became(call, call', d, "scan", call[d].scanning, call[d].tries, call[d].outcome)
      BY <2>1, CallGoes, Zenon DEF Inv, TypeInv, Goes, Where, Outcomes
    <2>3. Alone(d)
      BY <1>2, <2>2 DEF Inv, TypeInv, FindKnown, bluez, Became, Alone
    <2>4. Keeps(d)
      BY <1>2, <2>2 DEF Inv, FindKnown, OnLoop, At, Pop, Became, bluez, Keeps, DeviceInv, Ops,
         Pairings, Told, AgentServed, PinInFlight, ScanOwned, Scanning, Recording, Bonding
    <2> QED BY <2>3, <2>4, AloneKeepsInv
  <1>3. CASE dev[d].object = "absent" /\ Ends(d, "find") /\ discovery' = FALSE
    <2>1. Ends(d, "find")
      BY <1>3, Zenon DEF FindKnown
    <2>2. Became(call, call', d, "idle", FALSE, call[d].tries, "find")
      BY <2>1, CallEnds, Zenon DEF Inv, TypeInv, Ends, Where, Outcomes
    <2>3. Alone(d)
      BY <1>3, <2>2 DEF Inv, TypeInv, FindKnown, bluez, Became, Alone
    <2>4. Keeps(d)
      BY <1>3, <2>2 DEF Inv, FindKnown, OnLoop, At, Pop, Became, bluez, Keeps, DeviceInv, Ops,
         Pairings, Told, AgentServed, PinInFlight, ScanOwned, Scanning, Recording, Bonding
    <2> QED BY <2>3, <2>4, AloneKeepsInv
  <1> QED BY <1>1, <1>2, <1>3 DEF FindKnown

(* The discovery is over, whether it found the device or not.               *)
LEMMA ScanOverKeeps == ASSUME Inv, NEW d \in Devices, ScanOver(d) PROVE Inv'
  <1>1. CASE dev[d].object # "absent"
    <2>1. Goes(d, "wait")
      BY <1>1, Zenon DEF ScanOver
    <2>2. Became(call, call', d, "wait", call[d].scanning, call[d].tries, call[d].outcome)
      BY <2>1, CallGoes, Zenon DEF Inv, TypeInv, Goes, Where, Outcomes
    <2>3. Alone(d)
      BY <1>1, <2>2 DEF Inv, TypeInv, ScanOver, bluez, Became, Alone
    <2>4. Keeps(d)
      BY <1>1, <2>2 DEF Inv, ScanOver, OnLoop, At, Pop, Became, bluez, Keeps, DeviceInv, Ops,
         Pairings, Told, AgentServed, PinInFlight, ScanOwned, Scanning, Recording, Bonding
    <2> QED BY <2>3, <2>4, AloneKeepsInv
  <1>2. CASE dev[d].object = "absent"
    <2>1. Ends(d, "find")
      BY <1>2, Zenon DEF ScanOver
    <2>2. Became(call, call', d, "idle", FALSE, call[d].tries, "find")
      BY <2>1, CallEnds, Zenon DEF Inv, TypeInv, Ends, Where, Outcomes
    <2>3. Alone(d)
      BY <1>2, <2>2 DEF Inv, TypeInv, ScanOver, bluez, Became, Alone
    <2>4. Keeps(d)
      BY <1>2, <2>2 DEF Inv, ScanOver, OnLoop, At, Pop, Became, bluez, Keeps, DeviceInv, Ops,
         Pairings, Told, AgentServed, PinInFlight, ScanOwned, Scanning, Recording, Bonding
    <2> QED BY <2>3, <2>4, AloneKeepsInv
  <1> QED BY <1>1, <1>2 DEF ScanOver

(* The device is there: whoever turned discovery on turns it off.           *)
LEMMA InterfaceThereKeeps == ASSUME Inv, NEW d \in Devices, InterfaceThere(d) PROVE Inv'
  <1>1. call' = [call EXCEPT ![d].at = "pair", ![d].scanning = FALSE]
    BY Zenon DEF InterfaceThere
  <1>2. Became(call, call', d, "pair", FALSE, call[d].tries, call[d].outcome)
    BY <1>1, CallScans, Zenon DEF Inv, TypeInv, Where, Outcomes
  <1>3. cache' \in [Devices -> {"none", "stub", "full"}]
    BY DEF Inv, TypeInv, InterfaceThere, Reread, DevRecord
  <1>4. Alone(d)
    BY <1>2, <1>3 DEF Inv, TypeInv, InterfaceThere, bluez, Became, Alone
  <1>5. Keeps(d)
    BY <1>2 DEF Inv, InterfaceThere, OnLoop, At, Pop, Became, bluez, TypeInv, Keeps, DeviceInv,
       Ops, Pairings, Told, AgentServed, PinInFlight, ScanOwned, Scanning, Recording, Bonding
  <1> QED BY <1>4, <1>5, AloneKeepsInv

(* It is not: discovery is turned on, by a call that remembers it.          *)
LEMMA InterfaceMissingKeeps == ASSUME Inv, NEW d \in Devices, InterfaceMissing(d) PROVE Inv'
  <1>1. CASE ~call[d].scanning /\ discovery' = TRUE
            /\ call' = [call EXCEPT ![d].at = "sleep", ![d].scanning = TRUE]
    <2>1. call' = [call EXCEPT ![d].at = "sleep", ![d].scanning = TRUE]
      BY <1>1, Zenon DEF InterfaceMissing
    <2>2. Became(call, call', d, "sleep", TRUE, call[d].tries, call[d].outcome)
      BY <2>1, CallScans, Zenon DEF Inv, TypeInv, Where, Outcomes
    <2>3. dev' = dev
      BY <1>1 DEF InterfaceMissing, bluez
    <2>4. cache' \in [Devices -> {"none", "stub", "full"}]
      BY <1>1 DEF Inv, TypeInv, InterfaceMissing, Reread, DevRecord
    <2>5. Alone(d)
      BY <1>1, <2>2, <2>3, <2>4 DEF Inv, TypeInv, InterfaceMissing, bluez, Became, Alone
    <2>6. Keeps(d)
      BY <1>1, <2>2, <2>3 DEF Inv, InterfaceMissing, OnLoop, At, Pop, Became, bluez, Keeps,
         DeviceInv, Ops, Pairings, Told, AgentServed, PinInFlight, ScanOwned, Scanning,
         Recording, Bonding
    <2> QED BY <2>5, <2>6, AloneKeepsInv
  <1>2. CASE UNCHANGED discovery /\ Goes(d, "sleep")
    <2>1. Goes(d, "sleep")
      BY <1>2, Zenon DEF InterfaceMissing
    <2>2. Became(call, call', d, "sleep", call[d].scanning, call[d].tries, call[d].outcome)
      BY <2>1, CallGoes, Zenon DEF Inv, TypeInv, Goes, Where, Outcomes
    <2>3. dev' = dev
      BY <1>2 DEF InterfaceMissing, bluez
    <2>4. cache' \in [Devices -> {"none", "stub", "full"}]
      BY <1>2 DEF Inv, TypeInv, InterfaceMissing, Reread, DevRecord
    <2>5. Alone(d)
      BY <1>2, <2>2, <2>3, <2>4 DEF Inv, TypeInv, InterfaceMissing, bluez, Became, Alone
    <2>6. Keeps(d)
      BY <1>2, <2>2, <2>3 DEF Inv, InterfaceMissing, OnLoop, At, Pop, Became, bluez, Keeps,
         DeviceInv, Ops, Pairings, Told, AgentServed, PinInFlight, ScanOwned, Scanning,
         Recording, Bonding
    <2> QED BY <2>5, <2>6, AloneKeepsInv
  <1> QED BY <1>1, <1>2 DEF InterfaceMissing

(* The poll goes round.                                                     *)
LEMMA PollAgainKeeps == ASSUME Inv, NEW d \in Devices, PollAgain(d) PROVE Inv'
  <1>1. Became(call, call', d, "wait", call[d].scanning, call[d].tries, call[d].outcome)
    BY CallGoes, Zenon DEF Inv, TypeInv, PollAgain, Goes, Where, Outcomes
  <1>2. Alone(d)
    BY <1>1 DEF Inv, TypeInv, PollAgain, bluez, Became, Alone
  <1>3. Keeps(d)
    BY <1>1 DEF Inv, PollAgain, OnLoop, At, Pop, Became, bluez, Keeps, DeviceInv, Ops, Pairings,
       Told, AgentServed, PinInFlight, ScanOwned, Scanning, Recording, Bonding
  <1> QED BY <1>2, <1>3, AloneKeepsInv

(* The poll is given up, and discovery with it.                             *)
LEMMA DeadlinePassedKeeps == ASSUME Inv, NEW d \in Devices, DeadlinePassed(d) PROVE Inv'
  <1>1. Became(call, call', d, "idle", FALSE, call[d].tries, "wait")
    BY CallEnds, Zenon DEF Inv, TypeInv, DeadlinePassed, Ends, Where, Outcomes
  <1>2. Alone(d)
    BY <1>1 DEF Inv, TypeInv, DeadlinePassed, bluez, Became, Alone
  <1>3. Keeps(d)
    <2>1. Ops(d)'
      BY <1>1 DEF Inv, DeadlinePassed, OnLoop, At, Pop, Became, Ops, DeviceInv, Bonding
    <2>2. Pairings(d)'
      BY <1>1 DEF Inv, DeadlinePassed, OnLoop, At, Pop, Became, Pairings, DeviceInv
    <2>3. Told(d)'
      BY <1>1 DEF Inv, DeadlinePassed, OnLoop, At, Pop, Became, Told, Pairings, DeviceInv,
         Bonding, Ops
    <2>4. manager # "closed" => PinInFlight(d)'
      BY <1>1 DEF Inv, DeadlinePassed, OnLoop, At, Pop, Became, AgentServed, PinInFlight, Recording
    <2>5. call'[d].scanning => call'[d].at \in {"wait", "sleep"}
      BY <1>1 DEF Inv, DeadlinePassed, OnLoop, At, Pop, Became, ScanOwned
    <2>6. discovery' /\ ~neglected' => Scanning(d)' \/ (discovery /\ ~Scanning(d))
      BY <1>1 DEF Inv, DeadlinePassed, OnLoop, At, Pop, Became, ScanOwned, Scanning
    <2> QED BY <2>1, <2>2, <2>3, <2>4, <2>5, <2>6 DEF Keeps
  <1> QED BY <1>2, <1>3, AloneKeepsInv

(* force_repair removes the bond, or only hears that it was removed.        *)
LEMMA RemoveBondKeeps == ASSUME Inv, NEW d \in Devices, RemoveBond(d) PROVE Inv'
  <1>1. CASE dev' = dev
    <2>1. Goes(d, "wait")
      BY <1>1, Zenon DEF RemoveBond
    <2>2. Became(call, call', d, "wait", call[d].scanning, call[d].tries, call[d].outcome)
      BY <2>1, CallGoes, Zenon DEF Inv, TypeInv, Goes, Where, Outcomes
    <2>3. cache' \in [Devices -> {"none", "stub", "full"}]
      BY <1>1 DEF Inv, TypeInv, RemoveBond, DevRecord
    <2>4. Alone(d)
      BY <1>1, <2>2, <2>3 DEF Inv, TypeInv, RemoveBond, bluez, Became, Alone
    <2>5. Keeps(d)
      BY <1>1, <2>2 DEF Inv, RemoveBond, OnLoop, At, Pop, Forgotten, Became, bluez, Keeps,
         DeviceInv, Ops, Pairings, Told, AgentServed, PinInFlight, ScanOwned, Scanning,
         Recording, Bonding
    <2> QED BY <2>4, <2>5, AloneKeepsInv
  <1>2. CASE dev[d].object # "absent" /\ dev' = [dev EXCEPT ![d] = Forgotten(d)]
    <2>1. Goes(d, "wait")
      BY <1>2, Zenon DEF RemoveBond
    <2>2. Became(call, call', d, "wait", call[d].scanning, call[d].tries, call[d].outcome)
      BY <2>1, CallGoes, Zenon DEF Inv, TypeInv, Goes, Where, Outcomes
    <2>3. dev' = [dev EXCEPT ![d] = Forgotten(d)]
      BY <1>2 DEF RemoveBond
    <2>4. Turned(dev, dev', d, Forgotten(d))
      BY <2>3 DEF Inv, TypeInv, Turned, Forgotten, DevRecord
    <2>5. cache' \in [Devices -> {"none", "stub", "full"}]
      BY <1>2 DEF Inv, TypeInv, RemoveBond, DevRecord
    <2>6. Alone(d)
      BY <1>2, <2>2, <2>4, <2>5 DEF Inv, TypeInv, RemoveBond, bluez, Became, Turned, Alone
    <2>7. Keeps(d)
      BY <1>2, <2>2, <2>4 DEF Inv, RemoveBond, OnLoop, At, Pop, Forgotten, Became, Turned, bluez,
         Keeps, DeviceInv, Ops, Pairings, Told, AgentServed, PinInFlight, ScanOwned, Scanning,
         Recording, Bonding
    <2> QED BY <2>6, <2>7, AloneKeepsInv
  <1> QED BY <1>1, <1>2 DEF RemoveBond

(* The removal fails: the old bond is still there.                          *)
LEMMA RemoveFailsKeeps == ASSUME Inv, NEW d \in Devices, RemoveFails(d) PROVE Inv'
  <1>1. Became(call, call', d, "idle", FALSE, call[d].tries, "remove")
    BY CallEnds, Zenon DEF Inv, TypeInv, RemoveFails, Ends, Where, Outcomes
  <1>2. Alone(d)
    BY <1>1 DEF Inv, TypeInv, RemoveFails, bluez, Became, Alone
  <1>3. Keeps(d)
    BY <1>1 DEF Inv, RemoveFails, OnLoop, At, Pop, Became, bluez, Keeps, DeviceInv, Ops,
       Pairings, Told, AgentServed, PinInFlight, ScanOwned, Scanning, Recording, Bonding
  <1> QED BY <1>2, <1>3, AloneKeepsInv

(* A bonded device is not paired again: an answer that ensure and repair read apart.*)
LEMMA FoundBondedKeeps == ASSUME Inv, NEW d \in Devices, FoundBonded(d) PROVE Inv'
  <1>1. CASE BondExists(d) = "idle"
    <2>1. Ends(d, "pair")
      BY <1>1, Zenon DEF FoundBonded
    <2>2. Became(call, call', d, "idle", FALSE, call[d].tries, "pair")
      BY <2>1, CallEnds, Zenon DEF Inv, TypeInv, Ends, Where, Outcomes
    <2>3. dev' = dev
      BY <1>1 DEF FoundBonded, bluez
    <2>4. cache' \in [Devices -> {"none", "stub", "full"}]
      BY <1>1 DEF Inv, TypeInv, FoundBonded, Reread, DevRecord
    <2>5. Alone(d)
      BY <1>1, <2>2, <2>3, <2>4 DEF Inv, TypeInv, FoundBonded, bluez, Became, Alone
    <2>6. Keeps(d)
      BY <1>1, <2>2, <2>3 DEF Inv, FoundBonded, OnLoop, At, Pop, Became, bluez, Keeps, DeviceInv,
         Ops, Pairings, Told, AgentServed, PinInFlight, ScanOwned, Scanning, Recording, Bonding
    <2> QED BY <2>5, <2>6, AloneKeepsInv
  <1>2. CASE BondExists(d) # "idle"
    <2>1. Goes(d, "trust")
      BY <1>2 DEF FoundBonded, Reread, BondExists
    <2>2. Became(call, call', d, "trust", call[d].scanning, call[d].tries, call[d].outcome)
      BY <2>1, CallGoes, Zenon DEF Inv, TypeInv, Goes, Where, Outcomes
    <2>3. dev' = dev
      BY <1>2 DEF FoundBonded, bluez
    <2>4. cache' \in [Devices -> {"none", "stub", "full"}]
      BY <1>2 DEF Inv, TypeInv, FoundBonded, Reread, DevRecord
    <2>5. Alone(d)
      BY <1>2, <2>2, <2>3, <2>4 DEF Inv, TypeInv, FoundBonded, bluez, Became, Alone
    <2>6. Keeps(d)
      <3>1. Ops(d)'
        BY <1>2, <2>2, <2>3 DEF Inv, FoundBonded, OnLoop, At, Pop, Became, Ops, DeviceInv, Bonding
      <3>2. Pairings(d)'
        BY <1>2, <2>2, <2>3 DEF Inv, FoundBonded, OnLoop, At, Pop, Became, Pairings, DeviceInv
      <3>3. Told(d)'
        BY <1>2, <2>2, <2>3 DEF Inv, FoundBonded, OnLoop, At, Pop, Became, bluez, Reread,
           BondExists, Told, Pairings, DeviceInv, Bonding, Ops
      <3>4. manager # "closed" => PinInFlight(d)'
        BY <1>2, <2>2, <2>3 DEF Inv, FoundBonded, OnLoop, At, Pop, Became, AgentServed,
           PinInFlight, Recording
      <3>5. call'[d].scanning => call'[d].at \in {"wait", "sleep"}
        BY <1>2, <2>2, <2>3 DEF Inv, FoundBonded, OnLoop, At, Pop, Became, ScanOwned
      <3>6. discovery' /\ ~neglected' => Scanning(d)' \/ (discovery /\ ~Scanning(d))
        BY <1>2, <2>2, <2>3 DEF Inv, FoundBonded, OnLoop, At, Pop, Became, bluez, Reread,
           BondExists, ScanOwned, Scanning
      <3> QED BY <3>1, <3>2, <3>3, <3>4, <3>5, <3>6 DEF Keeps
    <2> QED BY <2>5, <2>6, AloneKeepsInv
  <1> QED BY <1>1, <1>2 DEF FoundBonded

(* The PIN is recorded before Pair() is sent, and whether BlueZ takes it or not.*)
LEMMA SendPairKeeps == ASSUME Inv, NEW d \in Devices, SendPair(d) PROVE Inv'
  <1>1. CASE dev[d].by = "none"
    <2>1. Goes(d, "pairing")
      BY <1>1, Zenon DEF SendPair
    <2>2. Became(call, call', d, "pairing", call[d].scanning, call[d].tries, call[d].outcome)
      BY <2>1, CallGoes, Zenon DEF Inv, TypeInv, Goes, Where, Outcomes
    <2>3. dev' = [dev EXCEPT ![d].by = "call"]
      BY <1>1 DEF SendPair
    <2>4. Turned(dev, dev', d,
           [object |-> dev[d].object, bond |-> dev[d].bond, old |-> dev[d].old,
            trusted |-> dev[d].trusted,
            connected |-> dev[d].connected, pin |-> dev[d].pin, by |-> "call",
         answer |-> dev[d].answer])
      BY <2>3, DevPairs DEF Inv, TypeInv
    <2>5. cache' \in [Devices -> {"none", "stub", "full"}]
      BY <1>1 DEF Inv, TypeInv, SendPair, Reread, DevRecord
    <2>6. Alone(d)
      BY <1>1, <2>2, <2>4, <2>5, ConstantsAssumption DEF Inv, TypeInv, SendPair, bluez, Pop,
         CallRecord, DevRecord, Became, Turned, Alone, Reread
    <2>7. Keeps(d)
      <3>1. Ops(d)'
        BY <1>1, <2>2, <2>4 DEF Inv, SendPair, OnLoop, At, Pop, Became, Turned, Ops, DeviceInv,
           Bonding
      <3>2. Pairings(d)'
        <4>1. /\ dev'[d].by = "call" /\ dev'[d].bond = dev[d].bond
             /\ dev'[d].answer = dev[d].answer /\ dev'[d].old = dev[d].old
          BY <2>4 DEF Turned
        <4>2. dev[d].bond = NoPin /\ dev[d].answer = NoPin
          BY <1>1 DEF Inv, SendPair, DeviceInv, Pairings
        <4> QED BY <4>1, <4>2 DEF Inv, DeviceInv, Pairings
      <3>3. Told(d)'
        BY <1>1, <2>2, <2>4 DEF Inv, SendPair, OnLoop, At, Pop, Became, Turned, Told, Pairings,
           DeviceInv, Bonding, Ops
      <3>4. manager # "closed" => PinInFlight(d)'
        BY <1>1, <2>2, <2>4 DEF Inv, SendPair, OnLoop, At, Pop, Became, Turned, AgentServed,
           PinInFlight, Recording
      <3>5. call'[d].scanning => call'[d].at \in {"wait", "sleep"}
        BY <1>1, <2>2, <2>4 DEF Inv, SendPair, OnLoop, At, Pop, Became, Turned, ScanOwned
      <3>6. discovery' /\ ~neglected' => Scanning(d)' \/ (discovery /\ ~Scanning(d))
        BY <1>1, <2>2, <2>4 DEF Inv, SendPair, OnLoop, At, Pop, Became, Turned, ScanOwned, Scanning
      <3> QED BY <3>1, <3>2, <3>3, <3>4, <3>5, <3>6 DEF Keeps
    <2> QED BY <2>6, <2>7, AloneKeepsInv
  <1>2. CASE dev[d].by # "none"
    <2>1. Goes(d, "refused")
      BY <1>2, Zenon DEF SendPair
    <2>2. Became(call, call', d, "refused", call[d].scanning, call[d].tries, call[d].outcome)
      BY <2>1, CallGoes, Zenon DEF Inv, TypeInv, Goes, Where, Outcomes
    <2>3. dev' = dev
      BY <1>2 DEF SendPair, bluez
    <2>4. cache' \in [Devices -> {"none", "stub", "full"}]
      BY <1>2 DEF Inv, TypeInv, SendPair, Reread, DevRecord
    <2>5. Alone(d)
      BY <1>2, <2>2, <2>3, <2>4, ConstantsAssumption DEF Inv, TypeInv, SendPair, bluez, Pop,
         CallRecord, DevRecord, Became, Alone, Reread
    <2>6. Keeps(d)
      BY <1>2, <2>2, <2>3 DEF Inv, SendPair, OnLoop, At, Pop, Became, bluez, Keeps, DeviceInv,
         Ops, Pairings, Told, AgentServed, PinInFlight, ScanOwned, Scanning, Recording, Bonding
    <2> QED BY <2>5, <2>6, AloneKeepsInv
  <1> QED BY <1>1, <1>2 DEF SendPair

(* A step that fails ends the call.                                         *)
LEMMA StepFailsKeeps == ASSUME Inv, NEW d \in Devices, StepFails(d) PROVE Inv'
  <1>1. CASE call[d].at = "trust"
    <2>1. Ends(d, "trust")
      BY <1>1, ConstantsAssumption DEF StepFails, At, Reread
    <2>2. Became(call, call', d, "idle", FALSE, call[d].tries, "trust")
      BY <2>1, CallEnds, Zenon DEF Inv, TypeInv, Ends, Where, Outcomes
    <2>3. dev' = dev
      BY <1>1 DEF StepFails, bluez
    <2>4. cache' \in [Devices -> {"none", "stub", "full"}]
      BY <1>1 DEF Inv, TypeInv, StepFails, Reread, DevRecord
    <2>5. Alone(d)
      BY <1>1, <2>2, <2>3, <2>4 DEF Inv, TypeInv, StepFails, bluez, Became, Alone
    <2>6. Keeps(d)
      BY <1>1, <2>2, <2>3 DEF Inv, StepFails, OnLoop, At, Pop, Became, bluez, Keeps, DeviceInv,
         Ops, Pairings, Told, AgentServed, PinInFlight, ScanOwned, Scanning, Recording, Bonding
    <2> QED BY <2>5, <2>6, AloneKeepsInv
  <1>2. CASE call[d].at # "trust"
    <2>1. Ends(d, "pair")
      BY <1>2, ConstantsAssumption DEF StepFails, At, Reread
    <2>2. Became(call, call', d, "idle", FALSE, call[d].tries, "pair")
      BY <2>1, CallEnds, Zenon DEF Inv, TypeInv, Ends, Where, Outcomes
    <2>3. dev' = dev
      BY <1>2 DEF StepFails, bluez
    <2>4. cache' \in [Devices -> {"none", "stub", "full"}]
      BY <1>2 DEF Inv, TypeInv, StepFails, Reread, DevRecord
    <2>5. Alone(d)
      BY <1>2, <2>2, <2>3, <2>4 DEF Inv, TypeInv, StepFails, bluez, Became, Alone
    <2>6. Keeps(d)
      BY <1>2, <2>2, <2>3 DEF Inv, StepFails, OnLoop, At, Pop, Became, bluez, Keeps, DeviceInv,
         Ops, Pairings, Told, AgentServed, PinInFlight, ScanOwned, Scanning, Recording, Bonding
    <2> QED BY <2>5, <2>6, AloneKeepsInv
  <1> QED BY <1>1, <1>2 DEF StepFails

(* The finally clause of a pairing forgets the PIN.                         *)
LEMMA PairRepliedKeeps == ASSUME Inv, NEW d \in Devices, PairReplied(d) PROVE Inv'
  <1>1. Became(call, call', d, "check", call[d].scanning, call[d].tries, call[d].outcome)
    BY CallGoes, Zenon DEF Inv, TypeInv, PairReplied, Goes, Where, Outcomes
  <1>2. Alone(d)
    BY <1>1 DEF Inv, TypeInv, PairReplied, bluez, Pop, Became, Alone
  <1>3. Keeps(d)
    BY <1>1 DEF Inv, PairReplied, OnLoop, At, Pop, Became, bluez, TypeInv, Keeps, DeviceInv, Ops,
       Pairings, Told, AgentServed, PinInFlight, ScanOwned, Scanning, Recording, Bonding
  <1> QED BY <1>2, <1>3, AloneKeepsInv

(* The same when BlueZ refused.                                             *)
LEMMA PairRefusedKeeps == ASSUME Inv, NEW d \in Devices, PairRefused(d) PROVE Inv'
  <1>1. Became(call, call', d, "idle", FALSE, call[d].tries, "pair")
    BY CallEnds, Zenon DEF Inv, TypeInv, PairRefused, Ends, Where, Outcomes
  <1>2. Alone(d)
    BY <1>1 DEF Inv, TypeInv, PairRefused, bluez, Pop, Became, Alone
  <1>3. Keeps(d)
    BY <1>1 DEF Inv, PairRefused, OnLoop, At, Pop, Became, bluez, TypeInv, Keeps, DeviceInv, Ops,
       Pairings, Told, AgentServed, PinInFlight, ScanOwned, Scanning, Recording, Bonding
  <1> QED BY <1>2, <1>3, AloneKeepsInv

(* The same when BlueZ never answered.                                      *)
LEMMA PairTimesOutKeeps == ASSUME Inv, NEW d \in Devices, PairTimesOut(d) PROVE Inv'
  <1>1. Became(call, call', d, "idle", call[d].scanning, call[d].tries, "pair")
    BY CallFails, Zenon DEF Inv, TypeInv, PairTimesOut, Where, Outcomes
  <1>2. Alone(d)
    BY <1>1 DEF Inv, TypeInv, PairTimesOut, bluez, Pop, Became, Alone
  <1>3. Keeps(d)
    BY <1>1 DEF Inv, PairTimesOut, OnLoop, At, Pop, Became, bluez, TypeInv, Keeps, DeviceInv,
       Ops, Pairings, Told, AgentServed, PinInFlight, ScanOwned, Scanning, Recording, Bonding
  <1> QED BY <1>2, <1>3, AloneKeepsInv

(* Paired is read again.                                                    *)
LEMMA CheckPairedKeeps == ASSUME Inv, NEW d \in Devices, CheckPaired(d) PROVE Inv'
  <1>1. Became(call, call', d, "trust", call[d].scanning, call[d].tries, call[d].outcome)
    BY CallGoes, Zenon DEF Inv, TypeInv, CheckPaired, Goes, Where, Outcomes
  <1>2. Alone(d)
    BY <1>1 DEF Inv, TypeInv, CheckPaired, bluez, Became, Alone
  <1>3. Keeps(d)
    BY <1>1 DEF Inv, CheckPaired, OnLoop, At, Pop, Became, bluez, Keeps, DeviceInv, Ops,
       Pairings, Told, AgentServed, PinInFlight, ScanOwned, Scanning, Recording, Bonding
  <1> QED BY <1>2, <1>3, AloneKeepsInv

(* The device is trusted, and has the bond that this call found or made.    *)
LEMMA TrustDeviceKeeps == ASSUME Inv, NEW d \in Devices, TrustDevice(d) PROVE Inv'
  <1>1. Ends(d, "done")
    BY Zenon DEF TrustDevice
  <1>2. Became(call, call', d, "idle", FALSE, call[d].tries, "done")
    BY <1>1, CallEnds, Zenon DEF Inv, TypeInv, Ends, Where, Outcomes
  <1>3. dev' = [dev EXCEPT ![d].trusted = TRUE]
    BY DEF TrustDevice
  <1>4. Turned(dev, dev', d,
         [object |-> dev[d].object, bond |-> dev[d].bond, old |-> dev[d].old, trusted |-> TRUE,
          connected |-> dev[d].connected, pin |-> dev[d].pin, by |-> dev[d].by,
         answer |-> dev[d].answer])
    BY <1>3, DevTrusts DEF Inv, TypeInv
  <1>5. cache' \in [Devices -> {"none", "stub", "full"}]
    BY DEF Inv, TypeInv, TrustDevice, Reread, DevRecord
  <1>6. Alone(d)
    BY <1>2, <1>4, <1>5 DEF Inv, TypeInv, TrustDevice, bluez, Became, Turned, Alone
  <1>7. Keeps(d)
    BY <1>2, <1>4 DEF Inv, TrustDevice, OnLoop, At, Pop, Became, Turned, bluez, TypeInv, Keeps,
       DeviceInv, Ops, Pairings, Told, AgentServed, PinInFlight, ScanOwned, Scanning, Recording,
         Bonding
  <1> QED BY <1>6, <1>7, AloneKeepsInv

(* connect_device: unusable, connected already, or the first attempt.       *)
LEMMA StartConnectKeeps == ASSUME Inv, NEW d \in Devices, StartConnect(d) PROVE Inv'
  <1>1. CASE ~Usable(d) /\ Ends(d, "connect") /\ UNCHANGED recorded
    <2>1. Ends(d, "connect")
      BY <1>1, Zenon DEF StartConnect
    <2>2. Became(call, call', d, "idle", FALSE, call[d].tries, "connect")
      BY <2>1, CallEnds, Zenon DEF Inv, TypeInv, Ends, Where, Outcomes
    <2>3. dev' = dev
      BY <1>1 DEF StartConnect, bluez
    <2>4. cache' \in [Devices -> {"none", "stub", "full"}]
      BY <1>1 DEF Inv, TypeInv, StartConnect, Reread, Introspected, DevRecord
    <2>5. Alone(d)
      BY <1>1, <2>2, <2>3, <2>4 DEF Inv, TypeInv, StartConnect, bluez, Became, Alone
    <2>6. Keeps(d)
      BY <1>1, <2>2, <2>3 DEF Inv, StartConnect, OnLoop, At, Pop, Became, bluez, Keeps,
         DeviceInv, Ops, Pairings, Told, AgentServed, PinInFlight, ScanOwned, Scanning,
         Recording, Bonding
    <2> QED BY <2>5, <2>6, AloneKeepsInv
  <1>2. CASE Usable(d) /\ dev[d].connected /\ Ends(d, "done") /\ UNCHANGED recorded
    <2>1. Ends(d, "done")
      BY <1>2, Zenon DEF StartConnect
    <2>2. Became(call, call', d, "idle", FALSE, call[d].tries, "done")
      BY <2>1, CallEnds, Zenon DEF Inv, TypeInv, Ends, Where, Outcomes
    <2>3. dev' = dev
      BY <1>2 DEF StartConnect, bluez
    <2>4. cache' \in [Devices -> {"none", "stub", "full"}]
      BY <1>2 DEF Inv, TypeInv, StartConnect, Reread, Introspected, DevRecord
    <2>5. Alone(d)
      BY <1>2, <2>2, <2>3, <2>4 DEF Inv, TypeInv, StartConnect, bluez, Became, Alone
    <2>6. Keeps(d)
      BY <1>2, <2>2, <2>3 DEF Inv, StartConnect, OnLoop, At, Pop, Became, bluez, Keeps,
         DeviceInv, Ops, Pairings, Told, AgentServed, PinInFlight, ScanOwned, Scanning,
         Recording, Bonding
    <2> QED BY <2>5, <2>6, AloneKeepsInv
  <1>3. CASE /\ Usable(d) /\ ~dev[d].connected
            /\ call' = [call EXCEPT ![d].at = "connecting", ![d].tries = 1]
            /\ recorded' = [recorded EXCEPT ![d] = call[d].pin]
    <2>1. call' = [call EXCEPT ![d].at = "connecting", ![d].tries = 1]
      BY <1>3, Zenon DEF StartConnect
    <2>2. Became(call, call', d, "connecting", call[d].scanning, 1, call[d].outcome)
      BY <2>1, CallTries, OneTry, Zenon DEF Inv, TypeInv, Where, Outcomes
    <2>3. dev' = dev
      BY <1>3 DEF StartConnect, bluez
    <2>4. cache' \in [Devices -> {"none", "stub", "full"}]
      BY <1>3 DEF Inv, TypeInv, StartConnect, Reread, Introspected, DevRecord
    <2>5. Alone(d)
      BY <1>3, <2>2, <2>3, <2>4, ConstantsAssumption DEF Inv, TypeInv, StartConnect, bluez, Pop,
         CallRecord, DevRecord, Became, Alone, Reread, Introspected, Usable
    <2>6. Keeps(d)
      BY <1>3, <2>2, <2>3 DEF Inv, StartConnect, OnLoop, At, Pop, Became, bluez, Keeps,
         DeviceInv, Ops, Pairings, Told, AgentServed, PinInFlight, ScanOwned, Scanning,
         Recording, Bonding
    <2> QED BY <2>5, <2>6, AloneKeepsInv
  <1> QED BY <1>1, <1>2, <1>3 DEF StartConnect

(* Connected: the PIN is forgotten.                                         *)
LEMMA ConnectRepliedKeeps == ASSUME Inv, NEW d \in Devices, ConnectReplied(d) PROVE Inv'
  <1>1. Became(call, call', d, "idle", FALSE, call[d].tries, "done")
    BY CallEnds, Zenon DEF Inv, TypeInv, ConnectReplied, Ends, Where, Outcomes
  <1>2. dev' = [dev EXCEPT ![d].connected = TRUE]
    BY DEF ConnectReplied
  <1>3. Turned(dev, dev', d,
         [object |-> dev[d].object, bond |-> dev[d].bond, old |-> dev[d].old,
          trusted |-> dev[d].trusted,
          connected |-> TRUE, pin |-> dev[d].pin, by |-> dev[d].by, answer |-> dev[d].answer])
    BY <1>2, DevConnects DEF Inv, TypeInv
  <1>4. Alone(d)
    BY <1>1, <1>3 DEF Inv, TypeInv, ConnectReplied, bluez, Pop, Became, Turned, Alone
  <1>5. Keeps(d)
    BY <1>1, <1>3 DEF Inv, ConnectReplied, OnLoop, At, Pop, Became, Turned, TypeInv, CallRecord,
       DevRecord, bluez, Keeps, DeviceInv, Ops, Pairings, Told, AgentServed, PinInFlight,
       ScanOwned, Scanning, Recording, Bonding
  <1> QED BY <1>4, <1>5, AloneKeepsInv

(* The attempt failed and another is left.                                  *)
LEMMA NotAvailableKeeps == ASSUME Inv, NEW d \in Devices, NotAvailable(d) PROVE Inv'
  <1>1. Became(call, call', d, "retry", call[d].scanning, call[d].tries, call[d].outcome)
    BY CallGoes, Zenon DEF Inv, TypeInv, NotAvailable, Goes, Where, Outcomes
  <1>2. Alone(d)
    BY <1>1 DEF Inv, TypeInv, NotAvailable, bluez, Became, Alone
  <1>3. Keeps(d)
    BY <1>1 DEF Inv, NotAvailable, OnLoop, At, Pop, Became, bluez, Keeps, DeviceInv, Ops,
       Pairings, Told, AgentServed, PinInFlight, ScanOwned, Scanning, Recording, Bonding
  <1> QED BY <1>2, <1>3, AloneKeepsInv

(* No attempt is left, or the error is not one to try again.                *)
LEMMA ConnectFailsKeeps == ASSUME Inv, NEW d \in Devices, ConnectFails(d) PROVE Inv'
  <1>1. Became(call, call', d, "idle", FALSE, call[d].tries, "connect")
    BY CallEnds, Zenon DEF Inv, TypeInv, ConnectFails, Ends, Where, Outcomes
  <1>2. Alone(d)
    BY <1>1 DEF Inv, TypeInv, ConnectFails, bluez, Pop, Became, Alone
  <1>3. Keeps(d)
    BY <1>1 DEF Inv, ConnectFails, OnLoop, At, Pop, Became, bluez, TypeInv, Keeps, DeviceInv,
       Ops, Pairings, Told, AgentServed, PinInFlight, ScanOwned, Scanning, Recording, Bonding
  <1> QED BY <1>2, <1>3, AloneKeepsInv

(* The next attempt, with the PIN that is recorded still.                   *)
LEMMA ConnectAgainKeeps == ASSUME Inv, NEW d \in Devices, ConnectAgain(d) PROVE Inv'
  <1>1. Became(call, call', d, "connecting", call[d].scanning, call[d].tries + 1, call[d].outcome)
    BY CallTries, ConstantsAssumption DEF Inv, TypeInv, ConnectAgain, OnLoop, At, CallRecord,
       Ops, DeviceInv, Where, Outcomes
  <1>2. Alone(d)
    BY <1>1 DEF Inv, TypeInv, ConnectAgain, bluez, Became, Alone
  <1>3. Keeps(d)
    BY <1>1 DEF Inv, ConnectAgain, OnLoop, At, Pop, Became, bluez, Keeps, DeviceInv, Ops,
       Pairings, Told, AgentServed, PinInFlight, ScanOwned, Scanning, Recording, Bonding
  <1> QED BY <1>2, <1>3, AloneKeepsInv

(* disconnect_device never touches a bond.                                  *)
LEMMA DisconnectDeviceKeeps == ASSUME Inv, NEW d \in Devices, DisconnectDevice(d) PROVE Inv'
  <1>1. CASE Usable(d)
    <2>1. Ends(d, "done")
      BY <1>1, Zenon DEF DisconnectDevice
    <2>2. Became(call, call', d, "idle", FALSE, call[d].tries, "done")
      BY <2>1, CallEnds, Zenon DEF Inv, TypeInv, Ends, Where, Outcomes
    <2>3. dev' = [dev EXCEPT ![d].connected = FALSE]
      BY <1>1 DEF DisconnectDevice
    <2>4. Turned(dev, dev', d,
           [object |-> dev[d].object, bond |-> dev[d].bond, old |-> dev[d].old,
            trusted |-> dev[d].trusted,
            connected |-> FALSE, pin |-> dev[d].pin, by |-> dev[d].by, answer |-> dev[d].answer])
      BY <2>3, DevConnects DEF Inv, TypeInv
    <2>5. cache' \in [Devices -> {"none", "stub", "full"}]
      BY <1>1 DEF Inv, TypeInv, DisconnectDevice, Reread, Introspected, DevRecord
    <2>6. Alone(d)
      BY <1>1, <2>2, <2>4, <2>5 DEF Inv, TypeInv, DisconnectDevice, bluez, Became, Turned, Alone
    <2>7. Keeps(d)
      BY <1>1, <2>2, <2>4 DEF Inv, DisconnectDevice, OnLoop, At, Pop, Became, Turned, TypeInv,
         CallRecord, DevRecord, bluez, Reread, Introspected, Usable, Keeps, DeviceInv, Ops,
         Pairings, Told, AgentServed, PinInFlight, ScanOwned, Scanning, Recording, Bonding
    <2> QED BY <2>6, <2>7, AloneKeepsInv
  <1>2. CASE ~Usable(d)
    <2>1. Ends(d, "disconnect")
      BY <1>2, Zenon DEF DisconnectDevice
    <2>2. Became(call, call', d, "idle", FALSE, call[d].tries, "disconnect")
      BY <2>1, CallEnds, Zenon DEF Inv, TypeInv, Ends, Where, Outcomes
    <2>3. dev' = dev
      BY <1>2 DEF DisconnectDevice, bluez
    <2>4. cache' \in [Devices -> {"none", "stub", "full"}]
      BY <1>2 DEF Inv, TypeInv, DisconnectDevice, Reread, Introspected, DevRecord
    <2>5. Alone(d)
      BY <1>2, <2>2, <2>3, <2>4 DEF Inv, TypeInv, DisconnectDevice, bluez, Became, Alone
    <2>6. Keeps(d)
      BY <1>2, <2>2, <2>3 DEF Inv, DisconnectDevice, OnLoop, At, Pop, Became, bluez, Keeps,
         DeviceInv, Ops, Pairings, Told, AgentServed, PinInFlight, ScanOwned, Scanning,
         Recording, Bonding
    <2> QED BY <2>5, <2>6, AloneKeepsInv
  <1> QED BY <1>1, <1>2 DEF DisconnectDevice

(* _run_async gives the call up: the PIN goes, discovery may stay.          *)
LEMMA GiveUpKeeps == ASSUME Inv, NEW d \in Devices, GiveUp(d) PROVE Inv'
  <1>1. Became(call, call', d, "idle", FALSE, call[d].tries, "cut")
    BY CallEnds, Zenon DEF Inv, TypeInv, GiveUp, Ends, Where, Outcomes
  <1>2. Alone(d)
    BY <1>1 DEF Inv, TypeInv, GiveUp, bluez, Pop, Became, Alone
  <1>3. Keeps(d)
    BY <1>1 DEF Inv, GiveUp, At, Pop, Became, bluez, TypeInv, Keeps, DeviceInv, Ops, Pairings,
       Told, AgentServed, PinInFlight, ScanOwned, Scanning, Recording, Bonding
  <1> QED BY <1>2, <1>3, AloneKeepsInv

(* The agent answers with the PIN that is recorded, that of the call in flight.*)
LEMMA RequestPinCodeKeeps == ASSUME Inv, NEW d \in Devices, RequestPinCode(d) PROVE Inv'
  <1>1. dev' = [dev EXCEPT ![d].answer = recorded[d]]
    BY DEF RequestPinCode
  <1>2. Turned(dev, dev', d,
         [object |-> dev[d].object, bond |-> dev[d].bond, old |-> dev[d].old,
          trusted |-> dev[d].trusted,
          connected |-> dev[d].connected, pin |-> dev[d].pin, by |-> dev[d].by,
         answer |-> recorded[d]])
    BY <1>1, DevAnswers DEF Inv, TypeInv
  <1>3. Alone(d)
    BY <1>2 DEF Inv, TypeInv, RequestPinCode, bluez, Turned, Alone
  <1>4. Keeps(d)
    BY <1>2 DEF Inv, RequestPinCode, At, Pop, Turned, TypeInv, CallRecord, DevRecord, bluez,
       Keeps, DeviceInv, Ops, Pairings, Told, AgentServed, PinInFlight, ScanOwned, Scanning,
       Recording, Bonding
  <1> QED BY <1>3, <1>4, AloneKeepsInv

(* The device accepts the PIN: a new bond, made with the answer it was given.*)
LEMMA BondsKeeps == ASSUME Inv, NEW d \in Devices, Bonds(d) PROVE Inv'
  <1>1. CASE dev[d].by = "call" /\ At(d, "pairing")
    <2>1. Goes(d, "paired")
      BY <1>1 DEF Bonds, Replies
    <2>2. Became(call, call', d, "paired", call[d].scanning, call[d].tries, call[d].outcome)
      BY <2>1, CallGoes, Zenon DEF Inv, TypeInv, Goes, Where, Outcomes
    <2>3. dev' = [dev EXCEPT ![d].bond = dev[d].answer, ![d].old = FALSE, ![d].by = "none",
         ![d].answer = NoPin]
      BY <1>1 DEF Bonds
    <2>4. Turned(dev, dev', d,
           [object |-> dev[d].object, bond |-> dev[d].answer, old |-> FALSE,
            trusted |-> dev[d].trusted,
            connected |-> dev[d].connected, pin |-> dev[d].pin, by |-> "none", answer |-> NoPin])
      BY <2>3, AnswerIsPin, DevBonds DEF Inv, TypeInv
    <2>5. Alone(d)
      BY <1>1, <2>2, <2>4 DEF Inv, TypeInv, Bonds, bluez, Became, Turned, Alone
    <2>6. Keeps(d)
      <3>1. Ops(d)'
        BY <1>1, <2>2, <2>4, NewBond DEF Inv, Bonds, At, Pop, Became, Turned, Ops, DeviceInv,
           Bonding
      <3>2. Pairings(d)'
        BY <1>1, <2>2, <2>4, NewBond DEF Inv, At, Became, Turned, Ops, Pairings, DeviceInv
      <3>3. Told(d)'
        BY <1>1, <2>2, <2>4, NewBond DEF Inv, At, Became, Turned, Ops, Told, Pairings, DeviceInv,
           Bonding
      <3>4. manager # "closed" => PinInFlight(d)'
        BY <1>1, <2>2, <2>4, NewBond DEF Inv, Bonds, At, Pop, Became, Turned, AgentServed,
           PinInFlight, Recording
      <3>5. call'[d].scanning => call'[d].at \in {"wait", "sleep"}
        BY <1>1, <2>2, <2>4, NewBond DEF Inv, Bonds, At, Pop, Became, Turned, ScanOwned
      <3>6. discovery' /\ ~neglected' => Scanning(d)' \/ (discovery /\ ~Scanning(d))
        BY <1>1, <2>2, <2>4, NewBond DEF Inv, Bonds, At, Pop, Became, Turned, ScanOwned, Scanning
      <3> QED BY <3>1, <3>2, <3>3, <3>4, <3>5, <3>6 DEF Keeps
    <2> QED BY <2>5, <2>6, AloneKeepsInv
  <1>2. CASE ~(dev[d].by = "call" /\ At(d, "pairing"))
    <2>1. call' = call
      BY <1>2 DEF Bonds, Replies
    <2>2. dev' = [dev EXCEPT ![d].bond = dev[d].answer, ![d].old = FALSE, ![d].by = "none",
         ![d].answer = NoPin]
      BY <1>2 DEF Bonds
    <2>3. Turned(dev, dev', d,
           [object |-> dev[d].object, bond |-> dev[d].answer, old |-> FALSE,
            trusted |-> dev[d].trusted,
            connected |-> dev[d].connected, pin |-> dev[d].pin, by |-> "none", answer |-> NoPin])
      BY <2>2, AnswerIsPin, DevBonds DEF Inv, TypeInv
    <2>4. Alone(d)
      BY <1>2, <2>1, <2>3 DEF Inv, TypeInv, Bonds, bluez, Turned, Alone
    <2>5. Keeps(d)
      <3>1. Ops(d)'
        BY <1>2, <2>1, <2>3, NewBond DEF Inv, Bonds, At, Pop, Turned, Ops, DeviceInv, Bonding
      <3>2. Pairings(d)'
        BY <1>2, <2>1, <2>3, NewBond DEF Inv, At, Turned, Ops, Pairings, DeviceInv
      <3>3. Told(d)'
        BY <1>2, <2>1, <2>3, NewBond DEF Inv, At, Turned, Ops, Told, Pairings, DeviceInv, Bonding
      <3>4. manager # "closed" => PinInFlight(d)'
        BY <1>2, <2>1, <2>3, NewBond DEF Inv, Bonds, At, Pop, Turned, AgentServed, PinInFlight,
           Recording
      <3>5. call'[d].scanning => call'[d].at \in {"wait", "sleep"}
        BY <1>2, <2>1, <2>3, NewBond DEF Inv, Bonds, At, Pop, Turned, ScanOwned
      <3>6. discovery' /\ ~neglected' => Scanning(d)' \/ (discovery /\ ~Scanning(d))
        BY <1>2, <2>1, <2>3, NewBond DEF Inv, Bonds, At, Pop, Turned, ScanOwned, Scanning
      <3> QED BY <3>1, <3>2, <3>3, <3>4, <3>5, <3>6 DEF Keeps
    <2> QED BY <2>4, <2>5, AloneKeepsInv
  <1> QED BY <1>1, <1>2 DEF Bonds

(* It does not.                                                             *)
LEMMA PairingFailsKeeps == ASSUME Inv, NEW d \in Devices, PairingFails(d) PROVE Inv'
  <1>1. CASE dev[d].by = "call" /\ At(d, "pairing")
    <2>1. Goes(d, "refused")
      BY <1>1 DEF PairingFails, Replies
    <2>2. Became(call, call', d, "refused", call[d].scanning, call[d].tries, call[d].outcome)
      BY <2>1, CallGoes, Zenon DEF Inv, TypeInv, Goes, Where, Outcomes
    <2>3. dev' = [dev EXCEPT ![d].by = "none", ![d].answer = NoPin]
      BY <1>1 DEF PairingFails
    <2>4. Turned(dev, dev', d,
           [object |-> dev[d].object, bond |-> dev[d].bond, old |-> dev[d].old,
            trusted |-> dev[d].trusted,
            connected |-> dev[d].connected, pin |-> dev[d].pin, by |-> "none", answer |-> NoPin])
      BY <2>3, DevFails DEF Inv, TypeInv
    <2>5. Alone(d)
      BY <1>1, <2>2, <2>4 DEF Inv, TypeInv, PairingFails, bluez, Became, Turned, Alone
    <2>6. Keeps(d)
      BY <1>1, <2>2, <2>4 DEF Inv, PairingFails, At, Pop, Became, Turned, bluez, Keeps,
         DeviceInv, Ops, Pairings, Told, AgentServed, PinInFlight, ScanOwned, Scanning,
         Recording, Bonding
    <2> QED BY <2>5, <2>6, AloneKeepsInv
  <1>2. CASE ~(dev[d].by = "call" /\ At(d, "pairing"))
    <2>1. call' = call
      BY <1>2 DEF PairingFails, Replies
    <2>2. dev' = [dev EXCEPT ![d].by = "none", ![d].answer = NoPin]
      BY <1>2 DEF PairingFails
    <2>3. Turned(dev, dev', d,
           [object |-> dev[d].object, bond |-> dev[d].bond, old |-> dev[d].old,
            trusted |-> dev[d].trusted,
            connected |-> dev[d].connected, pin |-> dev[d].pin, by |-> "none", answer |-> NoPin])
      BY <2>2, DevFails DEF Inv, TypeInv
    <2>4. Alone(d)
      BY <1>2, <2>1, <2>3 DEF Inv, TypeInv, PairingFails, bluez, Turned, Alone
    <2>5. Keeps(d)
      BY <1>2, <2>1, <2>3 DEF Inv, PairingFails, At, Pop, Turned, bluez, Keeps, DeviceInv, Ops,
         Pairings, Told, AgentServed, PinInFlight, ScanOwned, Scanning, Recording, Bonding
    <2> QED BY <2>4, <2>5, AloneKeepsInv
  <1> QED BY <1>1, <1>2 DEF PairingFails

(* The device asks for a pairing of its own accord.                         *)
LEMMA CallerLessKeeps == ASSUME Inv, NEW d \in Devices, CallerLess(d) PROVE Inv'
  <1>1. dev' = [dev EXCEPT ![d].by = "remote"]
    BY DEF CallerLess
  <1>2. Turned(dev, dev', d,
         [object |-> dev[d].object, bond |-> dev[d].bond, old |-> dev[d].old,
          trusted |-> dev[d].trusted,
          connected |-> dev[d].connected, pin |-> dev[d].pin, by |-> "remote",
         answer |-> dev[d].answer])
    BY <1>1, DevPairs DEF Inv, TypeInv
  <1>3. Alone(d)
    BY <1>2 DEF Inv, TypeInv, CallerLess, bluez, Turned, Alone
  <1>4. Keeps(d)
    BY <1>2 DEF Inv, CallerLess, At, Pop, Turned, TypeInv, CallRecord, DevRecord, bluez, Keeps,
       DeviceInv, Ops, Pairings, Told, AgentServed, PinInFlight, ScanOwned, Scanning, Recording,
         Bonding
  <1> QED BY <1>3, <1>4, AloneKeepsInv

(* The object comes, fills and goes.                                        *)
LEMMA ObjectChangesKeeps == ASSUME Inv, NEW d \in Devices, ObjectChanges(d) PROVE Inv'
  <1>1. CASE dev' = [dev EXCEPT ![d].object = "stub"]
    <2>1. dev' = [dev EXCEPT ![d].object = "stub"]
      BY <1>1 DEF ObjectChanges
    <2>2. Turned(dev, dev', d,
           [object |-> "stub", bond |-> dev[d].bond, old |-> dev[d].old, trusted |-> dev[d].trusted,
            connected |-> dev[d].connected, pin |-> dev[d].pin, by |-> dev[d].by,
         answer |-> dev[d].answer])
      BY <2>1, DevObject DEF Inv, TypeInv
    <2>3. Alone(d)
      BY <1>1, <2>2 DEF Inv, TypeInv, ObjectChanges, bluez, Turned, Alone
    <2>4. Keeps(d)
      BY <1>1, <2>2 DEF Inv, ObjectChanges, At, Pop, Turned, TypeInv, CallRecord, DevRecord,
         bluez, Keeps, DeviceInv, Ops, Pairings, Told, AgentServed, PinInFlight, ScanOwned,
         Scanning, Recording, Bonding
    <2> QED BY <2>3, <2>4, AloneKeepsInv
  <1>2. CASE dev' = [dev EXCEPT ![d].object = "full"]
    <2>1. dev' = [dev EXCEPT ![d].object = "full"]
      BY <1>2 DEF ObjectChanges
    <2>2. Turned(dev, dev', d,
           [object |-> "full", bond |-> dev[d].bond, old |-> dev[d].old, trusted |-> dev[d].trusted,
            connected |-> dev[d].connected, pin |-> dev[d].pin, by |-> dev[d].by,
         answer |-> dev[d].answer])
      BY <2>1, DevObject DEF Inv, TypeInv
    <2>3. Alone(d)
      BY <1>2, <2>2 DEF Inv, TypeInv, ObjectChanges, bluez, Turned, Alone
    <2>4. Keeps(d)
      BY <1>2, <2>2 DEF Inv, ObjectChanges, At, Pop, Turned, TypeInv, CallRecord, DevRecord,
         bluez, Keeps, DeviceInv, Ops, Pairings, Told, AgentServed, PinInFlight, ScanOwned,
         Scanning, Recording, Bonding
    <2> QED BY <2>3, <2>4, AloneKeepsInv
  <1>3. CASE dev' = [dev EXCEPT ![d].object = "stub", ![d].connected = FALSE]
    <2>1. dev' = [dev EXCEPT ![d].object = "stub", ![d].connected = FALSE]
      BY <1>3 DEF ObjectChanges
    <2>2. Turned(dev, dev', d,
           [object |-> "stub", bond |-> dev[d].bond, old |-> dev[d].old, trusted |-> dev[d].trusted,
            connected |-> FALSE, pin |-> dev[d].pin, by |-> dev[d].by, answer |-> dev[d].answer])
      BY <2>1, DevGone DEF Inv, TypeInv
    <2>3. Alone(d)
      BY <1>3, <2>2 DEF Inv, TypeInv, ObjectChanges, bluez, Turned, Alone
    <2>4. Keeps(d)
      BY <1>3, <2>2 DEF Inv, ObjectChanges, At, Pop, Turned, bluez, Keeps, DeviceInv, Ops,
         Pairings, Told, AgentServed, PinInFlight, ScanOwned, Scanning, Recording, Bonding
    <2> QED BY <2>3, <2>4, AloneKeepsInv
  <1> QED BY <1>1, <1>2, <1>3 DEF ObjectChanges

(* A call begins with nothing told yet, and finds the bond it may remove: what   *)
(* BlueZ is pairing goes on, with an answer that is not this call's.            *)
LEMMA BeginKeeps ==
  ASSUME Inv, NEW d \in Devices, NEW c \in Calls[d], Begin(d, c[1], c[2])
  PROVE  Inv'
  <1>1. c[1] \in {"ensure", "repair", "connect", "disconnect"} /\ c[2] \in Pins \cup {NoPin}
    BY ConstantsAssumption
  <1>2. PICK first \in FirstStep[c[1]] :
          call' = [call EXCEPT ![d] = [op |-> c[1], pin |-> c[2], at |-> first, scanning |-> FALSE,
                                       tries |-> 0, outcome |-> "none",
         had |-> dev[d].bond # NoPin]]
    BY DEF Begin
  <1>3. /\ first \in Where \ ({"idle", "scan", "sleep", "pair", "pairing", "refused",
         "retry"} \cup Bonding)
        /\ c[1] = "ensure" => first \in {"known", "wait"}
        /\ c[1] = "repair" => first = "remove"
        /\ c[1] = "connect" => first = "connect"
        /\ c[1] = "disconnect" => first = "disconnect"
    BY <1>1 DEF FirstStep, Where, Bonding
  <1>4. PICK r \in CallRecord :
          r = [op |-> c[1], pin |-> c[2], at |-> first, scanning |-> FALSE,
               tries |-> 0, outcome |-> "none", had |-> dev[d].bond # NoPin]
    <2>1. PICK b \in BOOLEAN : b = (dev[d].bond # NoPin)
      OBVIOUS
    <2>2. first \in Where /\ 0 \in 0 .. MaxRetries /\ "none" \in Outcomes
      BY <1>3, ConstantsAssumption DEF Outcomes
    <2>3. [op |-> c[1], pin |-> c[2], at |-> first, scanning |-> FALSE, tries |-> 0,
           outcome |-> "none", had |-> b] \in CallRecord
      BY <1>1, <2>2 DEF CallRecord
    <2> QED BY <2>1, <2>3
  <1>5. /\ call' \in [Devices -> CallRecord] /\ call'[d] = r
        /\ \A e \in Devices \ {d} : call'[e] = call[e]
    BY <1>2, <1>4 DEF Inv, TypeInv
  <1>6. dev' = [dev EXCEPT ![d].old = dev[d].bond # NoPin]
    BY DEF Begin
  <1>7. Turned(dev, dev', d,
               [object |-> dev[d].object, bond |-> dev[d].bond, old |-> dev[d].bond # NoPin,
                trusted |-> dev[d].trusted,
                connected |-> dev[d].connected, pin |-> dev[d].pin, by |-> dev[d].by,
         answer |-> dev[d].answer])
    BY <1>6, DevAged DEF Inv, TypeInv
  <1>8. Alone(d)
    BY <1>5, <1>7 DEF Inv, TypeInv, Begin, Turned, Alone
  <1>9. call[d].at = "idle"
    BY DEF Begin, InFlight, At
  <1>10. Keeps(d)
    <2>1. Ops(d)'
      BY <1>1, <1>3, <1>4, <1>5 DEF Ops, Begin, Bonding
    <2>2. Pairings(d)'
      <3>1. /\ dev'[d].by = dev[d].by /\ dev'[d].bond = dev[d].bond /\ dev'[d].answer = dev[d].answer
            /\ dev'[d].old = (dev[d].bond # NoPin)
        BY <1>7 DEF Turned
      <3>2. call'[d].at # "pairing"
        BY <1>3, <1>4, <1>5
      <3> QED BY <3>1, <3>2 DEF Inv, Pairings, DeviceInv
    <2>3. Told(d)'
      BY <1>1, <1>3, <1>4, <1>5, <1>7 DEF Told, Turned, Bonding
    <2>4. manager # "closed" => PinInFlight(d)'
      BY <1>9 DEF Inv, AgentServed, PinInFlight, Recording, Begin
    <2>5. ~call'[d].scanning /\ ~call[d].scanning
      BY <1>4, <1>5, <1>9 DEF Inv, ScanOwned
    <2>6. discovery' /\ ~neglected' => discovery /\ ~Scanning(d)
      BY <1>9, <2>5 DEF Begin, Scanning
    <2> QED BY <2>1, <2>2, <2>3, <2>4, <2>5, <2>6 DEF Keeps
  <1> QED BY <1>8, <1>10, AloneKeepsInv

(* Opening and closing the manager.  StopLoop drops what this connection had     *)
(* BlueZ pair, and the agent is gone before the PINs of the dead calls.          *)
LEMMA OpenKeeps == ASSUME Inv, Open PROVE Inv'
  <1>1. TypeInv' /\ AgentServed' /\ ScanOwned'
    BY DEF Inv, TypeInv, AgentServed, ScanOwned, Open, bluez, PinInFlight, Scanning
  <1>2. \A e \in Devices : DeviceInv(e)'
    BY DEF Inv, DeviceInv, Open, bluez, Ops, Pairings, Told
  <1> QED BY <1>1, <1>2 DEF Inv

LEMMA UnregisterAgentKeeps == ASSUME Inv, UnregisterAgent PROVE Inv'
  <1>1. TypeInv' /\ AgentServed' /\ ScanOwned'
    BY DEF Inv, TypeInv, AgentServed, ScanOwned, UnregisterAgent, bluez, PinInFlight, Scanning
  <1>2. \A e \in Devices : DeviceInv(e)'
    BY DEF Inv, DeviceInv, UnregisterAgent, bluez, Ops, Pairings, Told
  <1> QED BY <1>1, <1>2 DEF Inv

LEMMA StopLoopKeeps == ASSUME Inv, StopLoop PROVE Inv'
  <1>1. \A e \in Devices :
          /\ dev'[e] \in DevRecord
          /\ dev'[e].bond = dev[e].bond /\ dev'[e].old = dev[e].old /\ dev'[e].trusted = dev[e].trusted
          /\ dev[e].by = "call" => dev'[e].by = "none" /\ dev'[e].answer = NoPin
          /\ dev[e].by # "call" => dev'[e].by = dev[e].by /\ dev'[e].answer = dev[e].answer
    <2>1. SUFFICES ASSUME NEW e \in Devices
                   PROVE  /\ dev'[e] \in DevRecord
                          /\ dev'[e].bond = dev[e].bond /\ dev'[e].old = dev[e].old
                          /\ dev'[e].trusted = dev[e].trusted
                          /\ dev[e].by = "call" => dev'[e].by = "none" /\ dev'[e].answer = NoPin
                          /\ dev[e].by # "call" => dev'[e].by = dev[e].by /\ dev'[e].answer = dev[e].answer
      OBVIOUS
    <2>2. PICK r \in DevRecord : r = dev[e]
      BY DEF Inv, TypeInv
    <2>3. PICK t : t = [r EXCEPT !.by = "none", !.answer = NoPin]
      OBVIOUS
    <2>4. t = [object |-> r.object, bond |-> r.bond, old |-> r.old, trusted |-> r.trusted,
               connected |-> r.connected, pin |-> r.pin, by |-> "none", answer |-> NoPin]
      BY <2>3 DEF DevRecord
    <2>5. dev'[e] = IF r.by = "call" THEN t ELSE r
      BY <2>2, <2>3 DEF StopLoop
    <2> QED BY <2>2, <2>4, <2>5 DEF DevRecord
  <1>2. dev' \in [Devices -> DevRecord]
    <2>1. \E g : dev' = [e \in Devices |-> g[e]]
      <3>1. PICK g : g = [e \in Devices |->
             IF dev[e].by = "call" THEN [dev[e] EXCEPT !.by = "none", !.answer = NoPin]
             ELSE dev[e]]
        OBVIOUS
      <3> QED BY <3>1 DEF StopLoop
    <2> QED BY <2>1, <1>1
  <1>3. TypeInv' /\ AgentServed' /\ ScanOwned'
    BY <1>2 DEF Inv, TypeInv, AgentServed, ScanOwned, StopLoop, Scanning
  <1>4. \A e \in Devices : DeviceInv(e)'
    <2>1. SUFFICES ASSUME NEW e \in Devices PROVE DeviceInv(e)'
      OBVIOUS
    <2>2. call' = call
      BY DEF StopLoop
    <2> QED BY <1>1, <2>2 DEF Inv, DeviceInv, Ops, Pairings, Told
  <1> QED BY <1>3, <1>4 DEF Inv

-----------------------------------------------------------------------------
LEMMA InitInv == Init => Inv
  <1> SUFFICES ASSUME Init PROVE Inv
    OBVIOUS
  <1>1. [op |-> "none", pin |-> NoPin, at |-> "idle", scanning |-> FALSE, tries |-> 0,
         outcome |-> "none", had |-> FALSE] \in CallRecord
    BY ConstantsAssumption DEF CallRecord, Where, Outcomes
  <1>2. call \in [Devices -> CallRecord]
    BY <1>1 DEF Init
  <1>3. \A e \in Devices :
          /\ dev[e] \in DevRecord /\ ~dev[e].old /\ dev[e].by = "none" /\ dev[e].answer = NoPin
    BY DEF Init, DevRecord
  <1>4. dev \in [Devices -> DevRecord]
    BY <1>3 DEF Init
  <1>5. \A e \in Devices : call[e].op = "none" /\ call[e].at = "idle" /\ ~call[e].scanning
    BY DEF Init
  <1>6. TypeInv
    BY <1>2, <1>4 DEF Init, TypeInv
  <1>7. AgentServed /\ ScanOwned
    BY <1>5 DEF Init, AgentServed, ScanOwned, PinInFlight
  <1>8. \A e \in Devices : DeviceInv(e)
    BY <1>3, <1>5 DEF DeviceInv, Ops, Pairings, Told, Bonding
  <1> QED BY <1>6, <1>7, <1>8 DEF Inv

LEMMA StepKeeps == ASSUME Inv, NEW d \in Devices, Step(d) \/ GiveUp(d) \/ Bluez(d) PROVE Inv'
  BY FindKnownKeeps, ScanOverKeeps, InterfaceThereKeeps, InterfaceMissingKeeps, PollAgainKeeps,
     DeadlinePassedKeeps, RemoveBondKeeps, RemoveFailsKeeps, FoundBondedKeeps, SendPairKeeps,
     StepFailsKeeps, PairRepliedKeeps, PairRefusedKeeps, PairTimesOutKeeps, CheckPairedKeeps,
     TrustDeviceKeeps, StartConnectKeeps, ConnectRepliedKeeps, NotAvailableKeeps, ConnectFailsKeeps,
     ConnectAgainKeeps, DisconnectDeviceKeeps, GiveUpKeeps, RequestPinCodeKeeps, BondsKeeps,
     PairingFailsKeeps, CallerLessKeeps, ObjectChangesKeeps, Zenon DEF Step, Bluez

LEMMA NextKeepsInv == Inv /\ [Next]_vars => Inv'
  <1> SUFFICES ASSUME Inv, [Next]_vars PROVE Inv'
    OBVIOUS
  <1>1. CASE Open
    BY <1>1, OpenKeeps
  <1>2. CASE UnregisterAgent
    BY <1>2, UnregisterAgentKeeps
  <1>3. CASE StopLoop
    BY <1>3, StopLoopKeeps
  <1>4. ASSUME NEW d \in Devices, NEW c \in Calls[d], Begin(d, c[1], c[2]) PROVE Inv'
    BY <1>4, BeginKeeps
  <1>5. ASSUME NEW d \in Devices, Step(d) \/ GiveUp(d) \/ Bluez(d) PROVE Inv'
    BY <1>5, StepKeeps
  <1>6. CASE UNCHANGED vars
    <2>1. TypeInv' /\ AgentServed' /\ ScanOwned'
      BY <1>6 DEF Inv, TypeInv, AgentServed, ScanOwned, vars, bluez, PinInFlight, Scanning
    <2>2. \A e \in Devices : DeviceInv(e)'
      BY <1>6 DEF Inv, DeviceInv, vars, bluez, Ops, Pairings, Told
    <2> QED BY <2>1, <2>2 DEF Inv
  <1> QED BY <1>1, <1>2, <1>3, <1>4, <1>5, <1>6, Zenon DEF Next

(* The inductive invariant holds of every reachable state.                    *)
THEOREM InvHolds == Spec => []Inv
  BY InitInv, NextKeepsInv, PTL DEF Spec

-----------------------------------------------------------------------------
LEMMA TypeIsOK == Inv => TypeOK
  BY DEF Inv, TypeInv, TypeOK, CallRecord

(* OutcomeTells, for every set of devices and calls: what the caller of            *)
(* force_repair and of ensure_device_ready concludes from the outcome is true of  *)
(* the bond that BlueZ has.                                                   *)
THEOREM OutcomesTell == Spec => []OutcomeTells
  <1>1. Inv => OutcomeTells
    BY TypeIsOK DEF Inv, DeviceInv, Told, OutcomeTells, InFlight, At
  <1> QED BY <1>1, InvHolds, PTL

(* ScanStops, likewise: the discovery that a call turned on does not outlast it,    *)
(* unless the call was given up.                                              *)
THEOREM DiscoveryEnds == Spec => []ScanStops
  <1>1. Inv => ScanStops
    BY DEF Inv, ScanOwned, Scanning, ScanStops, InFlight, At
  <1> QED BY <1>1, InvHolds, PTL

(* What one step may make of an answer.                                       *)
Answered ==
  \A d \in Devices :
    dev'[d].answer # dev[d].answer /\ dev'[d].answer # NoPin =>
      (call[d].at \in {"pairing", "refused", "paired", "connecting", "retry"}
       /\ dev'[d].answer = call[d].pin)

LEMMA RequestAnswers == ASSUME Inv, NEW d \in Devices, RequestPinCode(d) PROVE Answered
  <1>1. dev' = [dev EXCEPT ![d].answer = recorded[d]]
    BY DEF RequestPinCode
  <1>2. Turned(dev, dev', d,
               [object |-> dev[d].object, bond |-> dev[d].bond, old |-> dev[d].old,
                trusted |-> dev[d].trusted,
                connected |-> dev[d].connected, pin |-> dev[d].pin, by |-> dev[d].by,
         answer |-> recorded[d]])
    BY <1>1, DevAnswers DEF Inv, TypeInv
  <1>3. recorded[d] # NoPin /\ PinInFlight(d)
    BY DEF RequestPinCode, Inv, AgentServed
  <1> QED BY <1>2, <1>3 DEF Turned, Answered, PinInFlight, Recording

(* No other step gives an answer: it leaves that of every device or takes it away. *)
Silent == \A e \in Devices : dev'[e].answer \in {dev[e].answer, NoPin}

LEMMA StepIsSilent == ASSUME Inv, NEW d \in Devices, Step(d) PROVE Silent
  <1>1. CASE dev' = dev
    BY <1>1 DEF Silent
  <1>2. CASE dev' = [dev EXCEPT ![d] = Forgotten(d)]
    BY <1>2 DEF Inv, TypeInv, Silent, Forgotten
  <1>3. CASE dev' = [dev EXCEPT ![d].by = "call"]
    BY <1>3, DevPairs DEF Inv, TypeInv, Silent, Turned
  <1>4. CASE dev' = [dev EXCEPT ![d].trusted = TRUE]
    BY <1>4, DevTrusts DEF Inv, TypeInv, Silent, Turned
  <1>5. CASE dev' = [dev EXCEPT ![d].connected = TRUE]
    BY <1>5, DevConnects DEF Inv, TypeInv, Silent, Turned
  <1>6. CASE dev' = [dev EXCEPT ![d].connected = FALSE]
    BY <1>6, DevConnects DEF Inv, TypeInv, Silent, Turned
  <1>7. \/ dev' = dev \/ dev' = [dev EXCEPT ![d] = Forgotten(d)] \/ dev' = [dev EXCEPT ![d].by = "call"]
        \/ dev' = [dev EXCEPT ![d].trusted = TRUE] \/ dev' = [dev EXCEPT ![d].connected = TRUE]
        \/ dev' = [dev EXCEPT ![d].connected = FALSE]
    BY Zenon DEF Step, FindKnown, ScanOver, InterfaceThere, InterfaceMissing, PollAgain,
         DeadlinePassed,
       RemoveBond, RemoveFails, FoundBonded, SendPair, StepFails, PairReplied, PairRefused,
         PairTimesOut,
       CheckPaired, TrustDevice, StartConnect, ConnectReplied, NotAvailable, ConnectFails,
         ConnectAgain,
       DisconnectDevice, bluez
  <1> QED BY <1>1, <1>2, <1>3, <1>4, <1>5, <1>6, <1>7

LEMMA BluezIsSilent == ASSUME Inv, NEW d \in Devices, Bluez(d) PROVE RequestPinCode(d) \/ Silent
  <1>1. CASE Bonds(d)
    <2>1. dev' = [dev EXCEPT ![d].bond = dev[d].answer, ![d].old = FALSE, ![d].by = "none",
         ![d].answer = NoPin]
      BY <1>1 DEF Bonds
    <2>2. Turned(dev, dev', d,
                 [object |-> dev[d].object, bond |-> dev[d].answer, old |-> FALSE,
                  trusted |-> dev[d].trusted,
                  connected |-> dev[d].connected, pin |-> dev[d].pin, by |-> "none",
         answer |-> NoPin])
      BY <2>1, AnswerIsPin, DevBonds DEF Inv, TypeInv
    <2> QED BY <2>2 DEF Silent, Turned
  <1>2. CASE PairingFails(d)
    <2>1. dev' = [dev EXCEPT ![d].by = "none", ![d].answer = NoPin]
      BY <1>2 DEF PairingFails
    <2>2. Turned(dev, dev', d,
                 [object |-> dev[d].object, bond |-> dev[d].bond, old |-> dev[d].old,
                  trusted |-> dev[d].trusted,
                  connected |-> dev[d].connected, pin |-> dev[d].pin, by |-> "none",
         answer |-> NoPin])
      BY <2>1, DevFails DEF Inv, TypeInv
    <2> QED BY <2>2 DEF Silent, Turned
  <1>3. CASE CallerLess(d)
    <2>1. dev' = [dev EXCEPT ![d].by = "remote"]
      BY <1>3 DEF CallerLess
    <2> QED BY <2>1, DevPairs DEF Inv, TypeInv, Silent, Turned
  <1>4. CASE ObjectChanges(d)
    <2>1. CASE dev' = [dev EXCEPT ![d].object = "stub"]
      BY <2>1, DevObject DEF Inv, TypeInv, Silent, Turned
    <2>2. CASE dev' = [dev EXCEPT ![d].object = "full"]
      BY <2>2, DevObject DEF Inv, TypeInv, Silent, Turned
    <2>3. CASE dev' = [dev EXCEPT ![d].object = "stub", ![d].connected = FALSE]
      <3>1. Turned(dev, dev', d,
                 [object |-> "stub", bond |-> dev[d].bond, old |-> dev[d].old,
                  trusted |-> dev[d].trusted,
                  connected |-> FALSE, pin |-> dev[d].pin, by |-> dev[d].by,
         answer |-> dev[d].answer])
        BY <2>3, DevGone DEF Inv, TypeInv
      <3> QED BY <3>1 DEF Silent, Turned
    <2> QED BY <1>4, <2>1, <2>2, <2>3 DEF ObjectChanges
  <1> QED BY <1>1, <1>2, <1>3, <1>4 DEF Bluez

LEMMA StopLoopIsSilent == ASSUME Inv, StopLoop PROVE Silent
  <1> SUFFICES ASSUME NEW e \in Devices PROVE dev'[e].answer \in {dev[e].answer, NoPin}
    BY DEF Silent
  <1>1. PICK r \in DevRecord : r = dev[e]
    BY DEF Inv, TypeInv
  <1>2. [r EXCEPT !.by = "none", !.answer = NoPin].answer = NoPin
    BY DEF DevRecord
  <1>3. dev'[e] = IF r.by = "call" THEN [r EXCEPT !.by = "none", !.answer = NoPin] ELSE r
    BY <1>1 DEF StopLoop
  <1> QED BY <1>1, <1>2, <1>3

LEMMA NextAnswers == ASSUME Inv, Next PROVE Answered
  <1>1. Silent => Answered
    BY DEF Silent, Answered
  <1>2. CASE Open \/ UnregisterAgent
    BY <1>1, <1>2 DEF Open, UnregisterAgent, bluez, Silent
  <1>3. CASE StopLoop
    BY <1>1, <1>3, StopLoopIsSilent
  <1>4. ASSUME NEW d \in Devices, NEW c \in Calls[d], Begin(d, c[1], c[2]) PROVE Answered
    <2>1. dev' = [dev EXCEPT ![d].old = dev[d].bond # NoPin]
      BY <1>4 DEF Begin
    <2> QED BY <1>1, <2>1, DevAged DEF Inv, TypeInv, Turned, Silent
  <1>5. ASSUME NEW d \in Devices, Step(d) PROVE Answered
    BY <1>1, <1>5, StepIsSilent
  <1>6. ASSUME NEW d \in Devices, GiveUp(d) PROVE Answered
    BY <1>1, <1>6 DEF GiveUp, bluez, Silent
  <1>7. ASSUME NEW d \in Devices, Bluez(d) PROVE Answered
    BY <1>1, <1>7, BluezIsSilent, RequestAnswers
  <1> QED BY <1>2, <1>3, <1>4, <1>5, <1>6, <1>7, Zenon DEF Next

(* AnswersInFlight, likewise: whichever calls are under way, for whichever          *)
(* devices, the agent answers a device with the PIN of the call in flight for     *)
(* that device or not at all.                                                *)
THEOREM PinsStayWithCalls == Spec => AnswersInFlight
  <1>1. Inv /\ [Next]_vars => [Answered]_vars
    BY NextAnswers
  <1>2. Spec => [][Answered]_vars
    BY <1>1, InvHolds, PTL DEF Spec
  <1> QED BY <1>2 DEF AnswersInFlight, Answered
=============================================================================
