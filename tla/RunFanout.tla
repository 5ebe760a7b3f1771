------------------------------ MODULE RunFanout ------------------------------
(***************************************************************************)
(* One agent run and the SSE clients attached to it: the publish side of   *)
(* RunManager (core/run_manager.py) and the generator that turns one       *)
(* subscriber queue into a stream (services/chat.py,                       *)
(* _stream_subscription).                                                  *)
(*                                                                         *)
(* The event loop is single-threaded, so an action is the code between two *)
(* awaits.  The last publishes of a run and RunManager.finish have no      *)
(* await between them and are one action here (EndWithDone and             *)
(* EndWithInterrupt).  An event is its position in `log`, the history of   *)
(* everything published; only its kind is kept.                            *)
(***************************************************************************)
EXTENDS Naturals, Sequences, Functions

CONSTANTS
  Client,      \* the HTTP streams that ever attach to the run
  Starter,     \* the stream agent_stream opens for the starting request
  Cap,         \* maxsize of a subscriber queue
  MaxDeltas    \* bound on the deltas of the run, for TLC

ASSUME StarterAssumption == Starter \in Client

\* The queue must hold both terminal events of an interrupted run.
ASSUME CapAssumption == Cap \in Nat /\ Cap >= 2

ASSUME MaxDeltasAssumption == MaxDeltas \in Nat

VARIABLES
  log,          \* history: the kind of every event published
  over,         \* ActiveRun.done, set when the run leaves the registry
  subscribers,  \* ActiveRun.subscribers
  queue,        \* the subscriber queue of each client
  stream,       \* where the client's generator is
  joined,       \* history: Len(log) when the client subscribed
  received,     \* history: the positions taken off the queue and emitted
  lagged        \* history: clients that met a publish with a full queue

vars == <<log, over, subscribers, queue, stream, joined, received, lagged>>

Delta    == "delta"
Terminal == {"interrupt", "done"}
Kind     == Terminal \cup {Delta}

\* The generator: not created, resolving the display preferences before its
\* `try`, in the wait loop, draining after `done` was seen, returned, or
\* closed by the client.
Stage   == {"idle", "opening", "live", "draining", "ended", "left"}
Running == {"opening", "live", "draining"}

Init ==
  /\ log = <<>>
  /\ over = FALSE
  /\ subscribers = {Starter}
  /\ queue = [c \in Client |-> <<>>]
  /\ stream = [c \in Client |-> IF c = Starter THEN "opening" ELSE "idle"]
  /\ joined = [c \in Client |-> 0]
  /\ received = [c \in Client |-> {}]
  /\ lagged = {}

-----------------------------------------------------------------------------
(* Publishing. *)

\* Mutants of Put: a terminal event is dropped like a delta; it is queued
\* beyond maxsize; a new event jumps the queue.
PutDropsTerminal(q, i, kind) == IF Len(q) < Cap THEN Append(q, i) ELSE q
PutOverflows(q, i, kind) ==
  IF Len(q) < Cap \/ kind \in Terminal THEN Append(q, i) ELSE q
PutInFront(q, i, kind) == IF Len(q) < Cap THEN <<i>> \o q ELSE q

\* put_nowait; on QueueFull a delta is dropped and a terminal event evicts
\* the oldest queued event.
Put(q, i, kind) ==
  IF Len(q) < Cap THEN Append(q, i)
  ELSE IF kind \in Terminal THEN Append(Tail(q), i)
  ELSE q

\* Every subscriber's queue after event i of the given kind.
FanOut(qs, i, kind) ==
  [c \in Client |-> IF c \in subscribers THEN Put(qs[c], i, kind) ELSE qs[c]]

\* The subscribers whose queue is full in qs.
Full(qs) == {c \in subscribers : Len(qs[c]) >= Cap}

\* The pump publishes one event of the running agent.
PublishDelta ==
  /\ ~over
  /\ Len(log) < MaxDeltas
  /\ log' = Append(log, Delta)
  /\ queue' = FanOut(queue, Len(log) + 1, Delta)
  /\ lagged' = lagged \cup Full(queue)
  /\ UNCHANGED <<over, subscribers, stream, joined, received>>

\* The run ends: a final `done`, then the finally block's finish.
EndWithDone ==
  /\ ~over
  /\ log' = Append(log, "done")
  /\ queue' = FanOut(queue, Len(log) + 1, "done")
  /\ over' = TRUE
  /\ lagged' = lagged \cup Full(queue)
  /\ UNCHANGED <<subscribers, stream, joined, received>>

\* The run pauses for human input: `interrupt`, `done`, finish.
EndWithInterrupt ==
  LET first == FanOut(queue, Len(log) + 1, "interrupt")
  IN /\ ~over
     /\ log' = log \o <<"interrupt", "done">>
     /\ queue' = FanOut(first, Len(log) + 2, "done")
     /\ over' = TRUE
     /\ lagged' = lagged \cup Full(queue) \cup Full(first)
     /\ UNCHANGED <<subscribers, stream, joined, received>>

-----------------------------------------------------------------------------
(* The clients. *)

\* A mutant of Attach: no check that the run is still going.
AttachAnyTime(c) ==
  /\ stream[c] = "idle"
  /\ subscribers' = subscribers \cup {c}
  /\ stream' = [stream EXCEPT ![c] = "opening"]
  /\ joined' = [joined EXCEPT ![c] = Len(log)]
  /\ UNCHANGED <<log, over, queue, received, lagged>>

\* attach_stream: Conflict unless the run is registered and not done.
Attach(c) ==
  /\ stream[c] = "idle"
  /\ ~over
  /\ subscribers' = subscribers \cup {c}
  /\ stream' = [stream EXCEPT ![c] = "opening"]
  /\ joined' = [joined EXCEPT ![c] = Len(log)]
  /\ UNCHANGED <<log, over, queue, received, lagged>>

\* The display preferences arrive and the generator enters its `try`.
Open(c) ==
  /\ stream[c] = "opening"
  /\ stream' = [stream EXCEPT ![c] = "live"]
  /\ UNCHANGED <<log, over, subscribers, queue, joined, received, lagged>>

\* Move the head of c's queue to the client.
TakeHead(c) ==
  /\ queue' = [queue EXCEPT ![c] = Tail(@)]
  /\ received' = [received EXCEPT ![c] = @ \cup {Head(queue[c])}]

\* The wait returned with an item and without `done`: emit it and loop.
Take(c) ==
  /\ stream[c] = "live"
  /\ queue[c] # <<>>
  /\ TakeHead(c)
  /\ UNCHANGED <<log, over, subscribers, stream, joined, lagged>>

\* A mutant of SeeDone: the item that came with `done` is thrown away.
SeeDoneDropsItem(c) ==
  /\ stream[c] = "live"
  /\ over
  /\ queue' = [queue EXCEPT ![c] = IF @ = <<>> THEN @ ELSE Tail(@)]
  /\ stream' = [stream EXCEPT ![c] = "draining"]
  /\ UNCHANGED <<log, over, subscribers, joined, received, lagged>>

\* The wait returned with `done`, and with an item when one was queued.
SeeDone(c) ==
  /\ stream[c] = "live"
  /\ over
  /\ stream' = [stream EXCEPT ![c] = "draining"]
  /\ IF queue[c] = <<>> THEN UNCHANGED <<queue, received>> ELSE TakeHead(c)
  /\ UNCHANGED <<log, over, subscribers, joined, lagged>>

\* get_nowait in the drain loop.
Drain(c) ==
  /\ stream[c] = "draining"
  /\ queue[c] # <<>>
  /\ TakeHead(c)
  /\ UNCHANGED <<log, over, subscribers, stream, joined, lagged>>

\* Mutants of EndStream: returns without draining; misses the empty queue.
EndStreamUndrained(c) ==
  /\ stream[c] = "draining"
  /\ stream' = [stream EXCEPT ![c] = "ended"]
  /\ subscribers' = subscribers \ {c}
  /\ UNCHANGED <<log, over, queue, joined, received, lagged>>
EndStreamNever(c) ==
  /\ stream[c] = "draining"
  /\ queue[c] # <<>>
  /\ EndStreamUndrained(c)

\* QueueEmpty: the generator returns and its `finally` unsubscribes.
EndStream(c) ==
  /\ stream[c] = "draining"
  /\ queue[c] = <<>>
  /\ stream' = [stream EXCEPT ![c] = "ended"]
  /\ subscribers' = subscribers \ {c}
  /\ UNCHANGED <<log, over, queue, joined, received, lagged>>

\* The client disconnects inside the `try`: the `finally` unsubscribes.
Detach(c) ==
  /\ stream[c] \in {"live", "draining"}
  /\ stream' = [stream EXCEPT ![c] = "left"]
  /\ subscribers' = subscribers \ {c}
  /\ UNCHANGED <<log, over, queue, joined, received, lagged>>

\* The client disconnects, or the preferences cannot be read, before the
\* generator is inside its `try`: nothing unsubscribes the queue.
DetachEarly(c) ==
  /\ stream[c] = "opening"
  /\ stream' = [stream EXCEPT ![c] = "left"]
  /\ UNCHANGED <<log, over, subscribers, queue, joined, received, lagged>>

\* What the server does for a stream that is open.
Serve(c) == Open(c) \/ Take(c) \/ SeeDone(c) \/ Drain(c) \/ EndStream(c)

Next ==
  \/ PublishDelta
  \/ EndWithDone
  \/ EndWithInterrupt
  \/ \E c \in Client :
       \/ Attach(c)
       \/ Open(c)
       \/ Take(c)
       \/ SeeDone(c)
       \/ Drain(c)
       \/ EndStream(c)
       \/ Detach(c)
       \/ DetachEarly(c)

Spec == Init /\ [][Next]_vars

\* The event loop serves every open stream; nothing makes the agent publish,
\* the run end, or a client attach or leave.
FairSpec == Spec /\ \A c \in Client : WF_vars(Serve(c))

-----------------------------------------------------------------------------
(* Properties. *)

\* Every variable has its type, and no queue exceeds its maxsize.
TypeOK ==
  /\ log \in Seq(Kind)
  /\ over \in BOOLEAN
  /\ subscribers \subseteq Client
  /\ queue \in [Client -> Seq(Nat)]
  /\ \A c \in Client : Len(queue[c]) <= Cap
  /\ stream \in [Client -> Stage]
  /\ joined \in [Client -> Nat]
  /\ received \in [Client -> SUBSET Nat]
  /\ lagged \subseteq Client

\* Queue q of a client that joined at lo and was given `got`, when hi events
\* are published: increasing, new to the client, and ahead of all it was given.
Ordered(q, lo, hi, got) ==
  /\ \A k \in DOMAIN q : lo < q[k] /\ q[k] <= hi
  /\ \A k \in DOMAIN q, i \in got : i < q[k]
  /\ \A k, m \in DOMAIN q : k < m => q[k] < q[m]

\* Delivery is in publication order whatever was dropped or evicted, and no
\* event is delivered twice (RunManager.publish).
DeliveredInOrder ==
  \A c \in Client : Ordered(queue[c], joined[c], Len(log), received[c])

\* The terminal events published since c attached.
Due(c) == {i \in (joined[c] + 1) .. Len(log) : log[i] \in Terminal}

\* However slow the client, a stream that is still open has been given, or
\* still has queued, every terminal event published since it attached: the
\* event evicted for `done` is never the `interrupt` before it
\* (run_manager.py, "Terminal events are delivered even to slow consumers").
TerminalEventsReachOpenStreams ==
  \A c \in Client : stream[c] \in Running => Due(c) \subseteq received[c] \cup Range(queue[c])

\* A stream the server ends has given its client the whole ending of the run,
\* the last event of which is `done` (_stream_subscription drains the queue
\* before it returns).
EndedStreamsSawTheEnding ==
  \A c \in Client :
    stream[c] = "ended" =>
      /\ Due(c) \subseteq received[c]
      /\ Len(log) \in received[c] /\ log[Len(log)] = "done"

\* Losing deltas is the price of a full queue and of nothing else: a client
\* whose queue had room at every publish misses no event, on either path out
\* of the wait loop.
OnlyFullQueuesLose ==
  \A c \in Client \ lagged :
    stream[c] \in Running \cup {"ended"} =>
      (joined[c] + 1) .. Len(log) \subseteq received[c] \cup Range(queue[c])

\* After the run every stream that is still open closes: the server drains it
\* to its end or the client goes away.
StreamsClose ==
  \A c \in Client :
    (over /\ stream[c] \in Running) ~> (stream[c] \in {"ended", "left"})

\* A client sees one phase where the generator has three.
Phase(s) ==
  CASE s = "idle"       -> "out"
    [] s \in Running    -> "watching"
    [] OTHER            -> s

\* The queues implement the log-and-readers contract.
Contract == INSTANCE RunStream WITH phase <- [c \in Client |-> Phase(stream[c])]

\* Every step of the queues is a step of RunStream or changes nothing in it:
\* order, no replay, and no stream that ends before its client saw the ending.
ImplementsRunStream == Contract!Spec
=============================================================================
