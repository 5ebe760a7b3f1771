------------------------------ MODULE SdkStream ------------------------------
(***************************************************************************)
(* sdk_stream of services/ai_sdk_chat.py: the translation of a run's       *)
(* events into the chunks of the AI SDK's data-stream protocol, and the    *)
(* client's view of it: which parts are open, and which chunks it could    *)
(* not place.  Pure functions of a translator `t` and a client `c`; the    *)
(* state machine that feeds them is RunPump.                               *)
(***************************************************************************)
EXTENDS Sequences, FiniteSets, SequencesExt

\* The loop's variables: started_text, started_reasoning, emitted_error,
\* finished, interrupt_seen; `over` once the loop was left.
FreshTranslator == [text |-> {}, reasoning |-> {}, error |-> FALSE, interrupt |-> FALSE,
                    over |-> FALSE]

\* The parts of the client's message that are open and those that were closed, how
\* it ended, and the types of the chunks that had no place.
FreshClient == [open |-> {}, shut |-> {}, end |-> "none", misfits |-> {}]

Part(kind, id) == [kind |-> kind, id |-> id]

\* The protocol, as the docstring of the module has it: a part is started once,
\* takes its deltas, is ended, and nothing follows the ending but [DONE].
Accept(c, chunk) ==
  LET part == Part(chunk.kind, chunk.id)
      fits == /\ c.end = "none"
              /\ CASE chunk.type = "start" -> part \notin c.open \cup c.shut
                   [] chunk.type \in {"delta", "end"} -> part \in c.open
                   [] OTHER -> TRUE
  IN IF ~fits THEN [c EXCEPT !.misfits = @ \cup {<<chunk.kind, chunk.type>>}]
     ELSE CASE chunk.type = "start" -> [c EXCEPT !.open = @ \cup {part}]
            [] chunk.type = "end" -> [c EXCEPT !.open = @ \ {part}, !.shut = @ \cup {part}]
            [] chunk.kind = "ending" -> [c EXCEPT !.end = chunk.type]
            [] OTHER -> c

Chunk(kind, type, id) == <<[kind |-> kind, type |-> type, id |-> id]>>
If(p, chunks) == IF p THEN chunks ELSE <<>>

\* A mutant of Yield: a delta after a lost start has no start made up for it.
YieldNoFallback(t, e) ==
  CASE e.name = "message_delta" ->
         If(e.id \notin t.text, Chunk("text", "start", e.id)) \o Chunk("text", "delta", e.id)
    [] e.name = "reasoning_start" ->
         If(e.id \notin t.reasoning, Chunk("reasoning", "start", e.id))
    [] e.name = "reasoning_delta" -> Chunk("reasoning", "delta", e.id)
    [] e.name = "reasoning_end" -> If(e.id \in t.reasoning, Chunk("reasoning", "end", e.id))
    [] e.name = "message" -> If(e.id \in t.text, Chunk("text", "end", e.id))
    [] e.name = "error" -> Chunk("ending", "error", e.id)
    [] e.name = "done" -> Chunk("ending", "finish", e.id)
    [] OTHER -> <<>>

\* What is yielded for an event.  Tool chunks go by the tool call's id: the three
\* input chunks are its start, the output or the output error its end.
Yield(t, e) ==
  CASE e.name = "message_delta" ->
         If(e.id \notin t.text, Chunk("text", "start", e.id)) \o Chunk("text", "delta", e.id)
    [] e.name = "reasoning_start" ->
         If(e.id \notin t.reasoning, Chunk("reasoning", "start", e.id))
    [] e.name = "reasoning_delta" ->
         If(e.id \notin t.reasoning, Chunk("reasoning", "start", e.id))
           \o Chunk("reasoning", "delta", e.id)
    [] e.name = "reasoning_end" -> If(e.id \in t.reasoning, Chunk("reasoning", "end", e.id))
    [] e.name = "message" ->
         If(e.id \in t.reasoning, Chunk("reasoning", "end", e.id))
           \o If(e.id \in t.text, Chunk("text", "end", e.id))
    [] e.name = "tool_start" -> Chunk("tool", "start", e.id)
    [] e.name = "tool_end" -> Chunk("tool", "end", e.id)
    [] e.name \in {"subagent", "interrupt"} -> Chunk("custom", "custom", e.id)
    [] e.name = "error" -> Chunk("ending", "error", e.id)
    [] e.name = "done" ->
         IF e.id = "interrupted" /\ ~t.interrupt THEN Chunk("ending", "error", e.id)
         ELSE Chunk("ending", "finish", e.id)
    [] OTHER -> <<>>   \* tool_delta, subagent_delta: no chunk

\* The loop's variables after it.  A `message` takes nothing off started_text and
\* started_reasoning; an `error` or a `done` leaves the loop.
After(t, e) ==
  CASE e.name = "message_delta" -> [t EXCEPT !.text = @ \cup {e.id}]
    [] e.name \in {"reasoning_start", "reasoning_delta"} ->
         [t EXCEPT !.reasoning = @ \cup {e.id}]
    [] e.name = "reasoning_end" -> [t EXCEPT !.reasoning = @ \ {e.id}]
    [] e.name = "interrupt" -> [t EXCEPT !.interrupt = TRUE]
    [] e.name = "error" -> [t EXCEPT !.error = TRUE, !.over = TRUE]
    [] e.name = "done" ->
         [t EXCEPT !.error = (e.id = "interrupted" /\ ~t.interrupt), !.over = TRUE]
    [] OTHER -> t

\* What the client has made of an event that reached the translator.
Render(c, t, e) == FoldLeft(Accept, c, Yield(t, e))
=============================================================================
