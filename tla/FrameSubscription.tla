--------------------------- MODULE FrameSubscription ---------------------------
(***************************************************************************)
(* One Frame subscription (core/frame_subscription.py): the hub's broadcast   *)
(* thread offers Frames, one subscriber thread reads them by get_frame(),     *)
(* iteration or drain(), and several threads may close it (the subscriber     *)
(* and BroadcastHub.stop()).  Frames are numbered in the order offered; the   *)
(* None that close() puts in the queue to wake a reader is 0.  That close()   *)
(* also detaches the subscription is in HubRegistry.                         *)
(***************************************************************************)
EXTENDS Integers, Sequences, FiniteSets

CONSTANTS
  QueueSize,   (* capacity of _queue (DEFAULT_FRAME_QUEUE_SIZE)                *)
  Closers,     (* threads that call close(), each once                         *)
  MaxFrames    (* bound: Frames offered                                        *)

ASSUME QueueSizeAssumption == QueueSize \in Nat \ {0}
ASSUME FramesAssumption    == MaxFrames \in Nat

WakeUp  == 0
Nothing == 0
Frame   == 1 .. MaxFrames

VARIABLES
  queue,     (* _queue                                                         *)
  closed,    (* _closed                                                        *)
  dropped,   (* _dropped                                                       *)
  offered,   (* Frames offered so far                                          *)
  hand,      (* the Frame offer() is about to put, or Nothing                  *)
  rpc,       (* where the reader is; "idle": between two calls                 *)
  mode,      (* what it called: "call" get_frame(), "iter" iteration, "drain"   *)
  cpc,       (* where each closer is                                           *)
  got,       (* history: the Frames the reader got, in order                    *)
  refused,   (* history: Frames offer() did not queue, by reason                *)
  early      (* history: Frames queued when the subscription was closed         *)

hubVars    == <<dropped, offered, hand, refused>>
readerVars == <<rpc, mode, got>>
vars == <<queue, closed, hubVars, readerVars, cpc, early>>

Reasons == {"closed", "unwanted", "full"}
Refuse(reason, n) == refused' = [refused EXCEPT ![reason] = @ \cup {n}]
Goes(from, to) == rpc \in from /\ rpc' = to
Getting == {"get", "wait", "poll"}

-----------------------------------------------------------------------------
(* Faulty forms of actions below: plausible bugs that the properties must    *)
(* exclude.  No specification uses them.                                     *)

ClosedReturnsNone ==
  /\ Goes({"poll"}, IF mode = "iter" THEN "test" ELSE "idle")
  /\ UNCHANGED <<queue, closed, hubVars, mode, got, cpc, early>>

WakeEvicting(c) ==
  /\ cpc[c] = "wake" /\ cpc' = [cpc EXCEPT ![c] = "done"]
  /\ queue' = Append(IF Len(queue) < QueueSize THEN queue ELSE Tail(queue), WakeUp)
  /\ UNCHANGED <<closed, hubVars, readerVars, early>>

WakeForgotten(c) ==
  /\ cpc[c] = "wake" /\ cpc' = [cpc EXCEPT ![c] = "done"]
  /\ UNCHANGED <<queue, closed, hubVars, readerVars, early>>

-----------------------------------------------------------------------------
(* offer(), in the broadcast thread.                                        *)

(* the tests: closed, then the message IDs that are wanted                    *)
Offer ==
  /\ hand = Nothing /\ offered < MaxFrames
  /\ offered' = offered + 1
  /\ \/ closed  /\ Refuse("closed", offered + 1) /\ UNCHANGED hand
     \/ ~closed /\ Refuse("unwanted", offered + 1) /\ UNCHANGED hand
     \/ ~closed /\ hand' = offered + 1 /\ UNCHANGED refused
  /\ UNCHANGED <<queue, closed, dropped, readerVars, cpc, early>>

(* put_nowait                                                               *)
PutFrame ==
  /\ hand # Nothing /\ hand' = Nothing
  /\ \/ /\ Len(queue) < QueueSize
        /\ queue' = Append(queue, hand)
        /\ UNCHANGED <<dropped, refused>>
     \/ /\ Len(queue) = QueueSize
        /\ dropped' = dropped + 1 /\ Refuse("full", hand)
        /\ UNCHANGED queue
  /\ UNCHANGED <<closed, offered, readerVars, cpc, early>>

-----------------------------------------------------------------------------
(* The reader.  get_frame() tests closed first: then it only polls; else it   *)
(* waits, for ever ("wait") or for half a second in an iteration ("get").     *)

CallGetFrame ==
  /\ Goes({"idle"}, IF closed THEN "poll" ELSE "wait")
  /\ mode' = "call"
  /\ UNCHANGED <<queue, closed, hubVars, got, cpc, early>>

Iterate ==
  /\ Goes({"idle", "again"}, IF closed THEN "poll" ELSE "get")
  /\ rpc = "idle" \/ mode = "iter"
  /\ mode' = "iter"
  /\ UNCHANGED <<queue, closed, hubVars, got, cpc, early>>

TakeFrame ==
  /\ queue # <<>> /\ Head(queue) # WakeUp
  /\ Goes(Getting, IF mode = "iter" THEN "again" ELSE "idle")
  /\ got' = Append(got, Head(queue)) /\ queue' = Tail(queue)
  /\ UNCHANGED <<closed, hubVars, mode, cpc, early>>

(* get_frame() returns None: the wake-up was taken                           *)
TakeWakeUp ==
  /\ queue # <<>> /\ Head(queue) = WakeUp
  /\ Goes(Getting, IF mode = "iter" THEN "test" ELSE "idle")
  /\ queue' = Tail(queue)
  /\ UNCHANGED <<closed, hubVars, mode, got, cpc, early>>

TimeOut ==
  /\ queue = <<>>
  /\ Goes({"get"}, "test")
  /\ UNCHANGED <<queue, closed, hubVars, mode, got, cpc, early>>

PollEmpty ==
  /\ queue = <<>>
  /\ Goes({"poll"}, IF mode = "iter" THEN "test" ELSE "idle")
  /\ UNCHANGED <<queue, closed, hubVars, mode, got, cpc, early>>

(* __iter__ after a None: ends if closed, else asks again                     *)
TestClosed ==
  /\ Goes({"test"}, IF closed THEN "idle" ELSE "again")
  /\ UNCHANGED <<queue, closed, hubVars, mode, got, cpc, early>>

(* drain(): get_nowait until Empty, skipping wake-ups                         *)
Drain ==
  /\ Goes({"idle"}, "drain")
  /\ mode' = "drain"
  /\ UNCHANGED <<queue, closed, hubVars, got, cpc, early>>

DrainOne ==
  /\ Goes({"drain"}, "drain")
  /\ queue # <<>> /\ queue' = Tail(queue)
  /\ got' = IF Head(queue) = WakeUp THEN got ELSE Append(got, Head(queue))
  /\ UNCHANGED <<closed, hubVars, mode, cpc, early>>

(* Empty, or max_frames reached: the caller may have asked for any number      *)
DrainDone ==
  /\ Goes({"drain"}, "idle")
  /\ UNCHANGED <<queue, closed, hubVars, mode, got, cpc, early>>

-----------------------------------------------------------------------------
(* close(): the test, the set(), and the wake-up, which a full queue refuses.  *)

Close(c) ==
  /\ cpc[c] = "start"
  /\ cpc' = [cpc EXCEPT ![c] = IF closed THEN "done" ELSE "set"]
  /\ UNCHANGED <<queue, closed, hubVars, readerVars, early>>

SetClosed(c) ==
  /\ cpc[c] = "set" /\ cpc' = [cpc EXCEPT ![c] = "wake"]
  /\ closed' = TRUE
  /\ early' = IF closed THEN early ELSE {queue[i] : i \in 1 .. Len(queue)} \ {WakeUp}
  /\ UNCHANGED <<queue, hubVars, readerVars>>

Wake(c) ==
  /\ cpc[c] = "wake" /\ cpc' = [cpc EXCEPT ![c] = "done"]
  /\ \/ Len(queue) < QueueSize /\ queue' = Append(queue, WakeUp)
     \/ Len(queue) = QueueSize /\ UNCHANGED queue
  /\ UNCHANGED <<closed, hubVars, readerVars, early>>

-----------------------------------------------------------------------------
Init ==
  /\ queue = <<>> /\ closed = FALSE /\ dropped = 0
  /\ offered = 0 /\ hand = Nothing
  /\ rpc = "idle" /\ mode = "call"
  /\ cpc = [c \in Closers |-> "start"]
  /\ got = <<>> /\ refused = [k \in Reasons |-> {}] /\ early = {}

ReaderSteps ==
  \/ TakeFrame \/ TakeWakeUp \/ TimeOut \/ PollEmpty \/ TestClosed \/ DrainOne \/ DrainDone
  \/ (rpc = "again" /\ Iterate)
Next ==
  \/ Offer \/ PutFrame
  \/ CallGetFrame \/ Iterate \/ Drain \/ ReaderSteps
  \/ \E c \in Closers : Close(c) \/ SetClosed(c) \/ Wake(c)

Spec == Init /\ [][Next]_vars

(* A reader inside a call and a closer inside close() go on, a loop over the   *)
(* subscription asks for the next Frame; nobody has to offer, read or close.   *)
FairSpec ==
  /\ Spec /\ WF_vars(PutFrame) /\ WF_vars(ReaderSteps)
  /\ \A c \in Closers : WF_vars(SetClosed(c) \/ Wake(c))

-----------------------------------------------------------------------------
(* Properties.                                                             *)

Queued(n) == \E i \in 1 .. Len(queue) : queue[i] = n

(* Every Frame offered is on its way, was read, or was refused for one reason, *)
(* and the counter counts the Frames refused by a full queue, whoever closes   *)
(* the subscription meanwhile; the queue keeps to its capacity.               *)
FrameAccounted ==
  /\ Len(queue) <= QueueSize
  /\ \A n \in 1 .. offered :
       Cardinality({p \in {"flight", "got"} \cup Reasons :
                      CASE p = "flight" -> Queued(n) \/ hand = n
                        [] p = "got"    -> \E i \in 1 .. Len(got) : got[i] = n
                        [] OTHER        -> n \in refused[p]}) = 1
  /\ dropped = Cardinality(refused["full"])

EarlyLeft == \E n \in early : Queued(n)

(* "Frames already queued can still be read, after which reads report closed": *)
(* a get_frame() that reports the end leaves no Frame from before the close.   *)
ClosedMeansEmpty ==
  [][got' = got /\ rpc' # rpc /\ rpc \in {"poll", "wait"} => ~EarlyLeft']_vars

(* "A missing wake-up is harmless": once the subscription is closed no reader  *)
(* stays blocked, and an iteration ends.                                     *)
ReaderReturns == (closed /\ rpc # "idle") ~> rpc = "idle"

=============================================================================
