------------------------------- MODULE RunPump -------------------------------
(***************************************************************************)
(* The pump of _run_agent (services/chat.py): consumers of the run's       *)
(* projections put events into one bounded queue, the loop takes them out  *)
(* and publishes them until the sentinel or the stop event, and a client   *)
(* of POST /api/chat gets them through sdk_stream (SdkStream).  The        *)
(* client's own queue and what it loses are RunFanout's: here a delta      *)
(* reaches the translator or is lost on the way.                           *)
(***************************************************************************)
EXTENDS Naturals, SdkStream

CONSTANTS
  Cap,          \* the bound of the queue, 256
  MaxMessages,  \* bound: the messages of the run
  MaxCalls,     \* bound: its tool calls and its subagents
  MaxDeltas     \* bound: the deltas of one projection

Side == {"tool", "subagent"}

ASSUME PumpAssumption ==
  /\ Cap \in Nat \ {0}
  /\ {MaxMessages, MaxDeltas} \subseteq Nat /\ MaxCalls \in [Side -> Nat]

VARIABLES
  queue,      \* asyncio.Queue(maxsize=256) of events and the sentinel
  text, reasoning, messages,   \* consume_messages and its two pipes
  side,       \* consume_tool_calls and consume_subagents
  msg,        \* the number of the message being streamed
  deltas,     \* the deltas each projection has put of its current message or call
  calls,      \* the calls each side consumer has met
  producer,   \* drain(): "running", "drained" or "killed"
  pump,       \* the loop: "running", "sentinel", "cancelled", then "over"
  stop,       \* ActiveRun.stop
  sdk,        \* sdk_stream's variables
  view,       \* the client's message
  lost,       \* history: an event did not reach the translator
  mute        \* history: messages whose output could not be read

consumers == <<text, reasoning, messages, side, msg, deltas, calls>>
pumpVars == <<queue, consumers, producer, pump, stop, sdk, view, lost, mute>>

Sentinel == [name |-> "none", id |-> 0]
Ev(name, id) == [name |-> name, id |-> id]

PumpInit ==
  /\ queue = <<>>
  /\ text = "over" /\ reasoning = "over" /\ messages = "next"
  /\ side = [s \in Side |-> "next"]
  /\ msg = 0 /\ calls = [s \in Side |-> 0]
  /\ deltas = [p \in Side \cup {"text", "reasoning"} |-> 0]
  /\ producer = "running" /\ pump = "running" /\ stop = FALSE
  /\ sdk = FreshTranslator /\ view = FreshClient
  /\ lost = FALSE /\ mute = {}

\* await queue.put: waits while the queue is full.
Put(e) == Len(queue) < Cap /\ queue' = Append(queue, e)
Quiet  == UNCHANGED queue
Live   == producer = "running"
Delta(p) == deltas[p] < MaxDeltas /\ deltas' = [deltas EXCEPT ![p] = @ + 1]

Others == <<producer, pump, stop, sdk, view, lost>>

-----------------------------------------------------------------------------
(* consume_messages: pipe and pipe_reasoning run together, then the output is *)
(* awaited, saved and put.                                                    *)

NextMessage ==
  /\ Live /\ messages = "next"
  /\ \/ /\ msg < MaxMessages /\ msg' = msg + 1
        /\ messages' = "gather" /\ text' = "on" /\ reasoning' = "idle"
        /\ deltas' = [deltas EXCEPT !["text"] = 0, !["reasoning"] = 0]
        /\ Quiet
     \/ /\ messages' = "over" /\ (Quiet \/ Put(Ev("error", msg)))
        /\ UNCHANGED <<text, reasoning, msg, deltas>>
  /\ UNCHANGED <<side, calls, mute, Others>>

Pipe ==
  /\ Live /\ text = "on"
  /\ \/ Put(Ev("message_delta", msg)) /\ Delta("text") /\ UNCHANGED text
     \/ text' = "over" /\ (Quiet \/ Put(Ev("error", msg))) /\ UNCHANGED deltas
  /\ UNCHANGED <<reasoning, messages, side, msg, calls, mute, Others>>

\* A bracket around the deltas, ended however they end.
PipeReasoning ==
  /\ Live
  /\ \/ /\ reasoning = "idle" /\ Quiet /\ reasoning' = "over" /\ UNCHANGED deltas
     \/ /\ reasoning = "idle" /\ MaxDeltas > 0
        /\ Put(Ev("reasoning_start", msg)) /\ reasoning' = "first" /\ UNCHANGED deltas
     \/ /\ reasoning \in {"first", "on"}
        /\ Put(Ev("reasoning_delta", msg)) /\ Delta("reasoning") /\ reasoning' = "on"
     \/ /\ reasoning = "on"
        /\ Put(Ev("error", msg)) /\ reasoning' = "failed" /\ UNCHANGED deltas
     \/ /\ reasoning \in {"on", "failed"}
        /\ Put(Ev("reasoning_end", msg)) /\ reasoning' = "over" /\ UNCHANGED deltas
  /\ UNCHANGED <<text, messages, side, msg, calls, mute, Others>>

\* gather has returned; without an output there is no message event.  (With one it is
\* saved first, which RunLifecycle has.)
Output ==
  /\ Live /\ messages = "gather" /\ text = "over" /\ reasoning = "over"
  /\ \/ messages' = "put" /\ UNCHANGED mute
     \/ messages' = "next" /\ mute' = mute \cup {msg}
  /\ Quiet
  /\ UNCHANGED <<text, reasoning, side, msg, deltas, calls, Others>>

PutMessage ==
  /\ Live /\ messages = "put"
  /\ Put(Ev("message", msg)) /\ messages' = "next"
  /\ UNCHANGED <<text, reasoning, side, msg, deltas, calls, mute, Others>>

(* consume_tool_calls and consume_subagents: one call at a time.              *)

Opening(s) == IF s = "tool" THEN "tool_start" ELSE "subagent"
Closing(s) == IF s = "tool" THEN "tool_end" ELSE "subagent"
Within(s)  == IF s = "tool" THEN "tool_delta" ELSE "subagent_delta"

Consume(s) ==
  /\ Live
  /\ \/ /\ side[s] = "next" /\ calls[s] < MaxCalls[s]
        /\ Put(Ev(Opening(s), calls[s]))
        /\ side' = [side EXCEPT ![s] = "on"] /\ deltas' = [deltas EXCEPT ![s] = 0]
        /\ UNCHANGED calls
     \/ /\ side[s] = "on"
        /\ Put(Ev(Within(s), calls[s])) /\ Delta(s)
        /\ UNCHANGED <<side, calls>>
     \/ /\ side[s] = "on"
        /\ Put(Ev(Closing(s), calls[s]))
        /\ side' = [side EXCEPT ![s] = "next"] /\ calls' = [calls EXCEPT ![s] = @ + 1]
        /\ UNCHANGED deltas
     \/ /\ side[s] = "next" /\ (Quiet \/ Put(Ev("error", 0)))
        /\ side' = [side EXCEPT ![s] = "over"]
        /\ UNCHANGED <<deltas, calls>>
  /\ UNCHANGED <<text, reasoning, messages, msg, mute, Others>>

-----------------------------------------------------------------------------
AllOver == messages = "over" /\ \A s \in Side : side[s] = "over"

\* A mutant of Drain: it waits for the messages only.
DrainMessages ==
  /\ Live /\ messages = "over" /\ Put(Sentinel)
  /\ producer' = "drained"
  /\ UNCHANGED <<consumers, pump, stop, sdk, view, lost, mute>>

\* drain(): the sentinel follows what the consumers have put.  consume_values puts
\* nothing.
Drain ==
  /\ Live /\ AllOver /\ Put(Sentinel)
  /\ producer' = "drained"
  /\ UNCHANGED <<consumers, pump, stop, sdk, view, lost, mute>>

\* What reaches a client whose generator is still reading.
Deliver(e) ==
  /\ sdk' = IF sdk.over THEN sdk ELSE After(sdk, e)
  /\ view' = IF sdk.over THEN view ELSE Render(view, sdk, e)

Cancel ==
  /\ pump = "running" /\ ~stop /\ stop' = TRUE
  /\ UNCHANGED <<queue, consumers, producer, pump, sdk, view, lost, mute>>

\* A mutant of Pump: the stop event is looked at when an event comes.
PumpQueueFirst ==
  /\ pump = "running" /\ queue # <<>>
  /\ \/ /\ stop /\ pump' = "cancelled" /\ producer' = "killed"
        /\ queue' = <<>>
        /\ UNCHANGED <<sdk, view, lost>>
     \/ /\ ~stop /\ Head(queue) = Sentinel
        /\ queue' = Tail(queue) /\ pump' = "sentinel"
        /\ UNCHANGED <<producer, sdk, view, lost>>
     \/ /\ ~stop /\ Head(queue) # Sentinel
        /\ queue' = Tail(queue)
        /\ \/ Deliver(Head(queue)) /\ UNCHANGED lost
           \/ lost' = TRUE /\ UNCHANGED <<sdk, view>>
        /\ UNCHANGED <<pump, producer>>
  /\ UNCHANGED <<consumers, stop, mute>>

\* The loop waits for the queue and for the stop event and looks at the stop event
\* first; run_manager.publish never waits.  Between the break and producer.cancel()
\* nothing is awaited: the consumers get no further, and the queue is dropped.
Pump ==
  /\ pump = "running"
  /\ \/ /\ stop /\ pump' = "cancelled" /\ producer' = "killed"
        /\ queue' = <<>>
        /\ UNCHANGED <<sdk, view, lost>>
     \/ /\ ~stop /\ queue # <<>> /\ Head(queue) = Sentinel
        /\ queue' = Tail(queue) /\ pump' = "sentinel"
        /\ UNCHANGED <<producer, sdk, view, lost>>
     \/ /\ ~stop /\ queue # <<>> /\ Head(queue) # Sentinel
        /\ queue' = Tail(queue)
        /\ \/ Deliver(Head(queue)) /\ UNCHANGED lost
           \/ lost' = TRUE /\ UNCHANGED <<sdk, view>>
        /\ UNCHANGED <<pump, producer>>
  /\ UNCHANGED <<consumers, stop, mute>>

\* The run's ending, which RunLifecycle has in full: the full save, then the
\* terminal events.  `done` always gets through.
Finish ==
  /\ pump \in {"sentinel", "cancelled"} /\ pump' = "over"
  /\ \/ pump = "cancelled" /\ Deliver(Ev("done", "cancelled"))
     \/ pump = "sentinel" /\ Deliver(Ev("done", "plain"))
     \/ pump = "sentinel" /\ Deliver(Ev("error", "final"))
     \/ /\ pump = "sentinel" /\ ~sdk.over
        /\ sdk' = After(After(sdk, Ev("interrupt", "run")), Ev("done", "interrupted"))
        /\ view' = Render(view, After(sdk, Ev("interrupt", "run")), Ev("done", "interrupted"))
     \/ pump = "sentinel" /\ Deliver(Ev("done", "interrupted"))   \* the interrupt was lost
  /\ UNCHANGED <<queue, consumers, producer, stop, lost, mute>>

Consumer == NextMessage \/ Pipe \/ PipeReasoning \/ Output \/ PutMessage
            \/ \E s \in Side : Consume(s)

PumpNext == Consumer \/ Drain \/ Cancel \/ Pump \/ Finish

\* The event loop runs the pump; nothing is assumed of the model and its stream.
PumpFairness == WF_pumpVars(Pump) /\ WF_pumpVars(Finish)
PumpSpec == PumpInit /\ [][PumpNext]_pumpVars /\ PumpFairness

-----------------------------------------------------------------------------
\* A client never gets a text or reasoning chunk outside its part, a second start
\* or end, or anything after the ending, whatever was lost on the way and
\* whichever consumers interleave; only a tool's output can come without its input.
PartsAreWellFormed == view.misfits \subseteq (IF lost THEN {<<"tool", "end">>} ELSE {})

\* A client that lost nothing and is told of a finished run has no part left open,
\* but for a message whose output could not be read (services/chat.py:507).
FinishLeavesNothingOpen ==
  view.end = "finish" /\ ~lost /\ ~stop =>
    \A p \in view.open : p.kind = "text" /\ p.id \in mute

\* POST /threads/{id}/cancel ends the client's stream even when the agent says
\* nothing more and the queue is full (services/chat.py:638).
StopEndsTheStream == stop ~> sdk.over
=============================================================================
