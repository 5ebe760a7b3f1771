----------------------------- MODULE RunLifecycle -----------------------------
(***************************************************************************)
(* The life of agent runs: the registry (core/run_manager.py), the body of *)
(* a run task and the start-up reconciliation (services/chat.py), and the  *)
(* chat, resume and cancel endpoints (api/v1/endpoints/chat.py), with what *)
(* each leaves in the stores: the thread's metadata, its chat history and  *)
(* the graph's checkpoint.                                                 *)
(*                                                                         *)
(* A run is a task; an action is what it does between two awaits.  Its     *)
(* thread's metadata is written by no other task here (ThreadRecord has    *)
(* the requests that do).  The agent is the environment: it may finalize a *)
(* message, checkpoint, end, pause for input, fail to start or on its way, *)
(* or hang.                                                                *)
(***************************************************************************)
EXTENDS Naturals, Sequences, FiniteSets

CONSTANTS
  Thread,       \* conversation threads
  Unlisted,     \* threads reconcile_stale_runs does not see: those of guests,
                \* who are not in the user table, and those beyond the first
                \* page of a user's threads (asearch returns ten)
  Agent,        \* agent configurations
  Default,      \* the agent named "default"
  MaxRuns,      \* bound on the runs ever started
  MaxCrashes,   \* bound on process exits
  MaxFaults     \* bound on store failures while the process serves

ASSUME ThreadAssumption == Unlisted \subseteq Thread
ASSUME AgentAssumption == Default \in Agent
ASSUME BoundAssumption == MaxRuns \in Nat /\ MaxCrashes \in Nat /\ MaxFaults \in Nat

VARIABLES
  proc,        \* the server process
  pc,          \* where each thread's run task is; "none" when not registered
  run,         \* the arguments of each thread's run
  stop,        \* ActiveRun.stop
  killed,      \* the run task was cancelled by the shutdown
  finalized,   \* messages the stream finalized in this run
  stream,      \* the agent's stream: "open", "saving" a finalized message, or,
               \* with the sentinel of the consumers queued, "ended" or "broken"
  out,         \* the outcome the run task is about to record
  meta,        \* ("threads", user) in the store: status and agent
  history,     \* chat_messages: ids of the rows of each thread
  ckpt,        \* checkpoint: ids of the messages of each thread
  waiting,     \* checkpoint: the graph is paused on an interrupt
  pausedBy,    \* checkpoint: the agent whose graph paused
  asked,       \* resume requests that passed their checks, with their graph
  events,      \* history: the hub's events of each thread since start-up
  lost,        \* history: the last metadata write failed: "no", "now" (in this
               \* process) or "before"
  runs, crashes, faults

taskVars  == <<pc, run, stop, killed, finalized, stream, out>>
storeVars == <<meta, history, ckpt, waiting, pausedBy>>
counters  == <<runs, crashes, faults>>
vars == <<proc, taskVars, storeVars, asked, events, lost, counters>>

NoAgent  == "no agent"
NoMeta   == [status |-> "absent", agent |-> Default]
Terminal == {"completed", "interrupted", "cancelled", "failed"}

\* The consumers have drained the agent's stream.
Over == {"ended", "broken"}

\* The stages of the run task inside its outer `try`.
Guarded == {"starting", "streaming", "finalizing", "replacing", "closing", "recordEnd",
            "finishing"}
Stage   == Guarded \cup {"none", "recording", "seeding", "dead"}

\* Message ids: the human message and the agent's of the n-th run.
Human(n)   == <<n, "human">>
Answer(n)  == <<n, "ai">>
MessageIds == (1 .. MaxRuns) \X {"human", "ai"}

NoRun == [n |-> 0, agent |-> NoAgent, graph |-> NoAgent, resume |-> FALSE]

Init ==
  /\ proc = "up"
  /\ pc = [t \in Thread |-> "none"]
  /\ run = [t \in Thread |-> NoRun]
  /\ stop = [t \in Thread |-> FALSE]
  /\ killed = [t \in Thread |-> FALSE]
  /\ finalized = [t \in Thread |-> {}]
  /\ stream = [t \in Thread |-> "open"]
  /\ out = [t \in Thread |-> "running"]
  /\ meta = [t \in Thread |-> NoMeta]
  /\ history = [t \in Thread |-> {}]
  /\ ckpt = [t \in Thread |-> {}]
  /\ waiting = [t \in Thread |-> FALSE]
  /\ pausedBy = [t \in Thread |-> NoAgent]
  /\ asked = [t \in Thread |-> NoAgent]
  /\ events = [t \in Thread |-> <<>>]
  /\ lost = [t \in Thread |-> "no"]
  /\ runs = 0 /\ crashes = 0 /\ faults = 0

-----------------------------------------------------------------------------
(* Requests. *)

\* run_manager holds a run of the thread.
Registered(t) == pc[t] # "none"

\* agent_stream: Conflict when the thread has a run, else register and spawn.
Launch(t, agent, graph, resume) ==
  /\ proc = "up"
  /\ ~Registered(t)
  /\ runs < MaxRuns
  /\ runs' = runs + 1
  /\ pc' = [pc EXCEPT ![t] = "recording"]
  /\ run' = [run EXCEPT ![t] =
               [n |-> runs + 1, agent |-> agent, graph |-> graph, resume |-> resume]]
  /\ stop' = [stop EXCEPT ![t] = FALSE]
  /\ killed' = [killed EXCEPT ![t] = FALSE]
  /\ finalized' = [finalized EXCEPT ![t] = {}]
  /\ stream' = [stream EXCEPT ![t] = "open"]
  /\ out' = [out EXCEPT ![t] = "running"]
  /\ UNCHANGED <<proc, storeVars, events, lost, crashes, faults>>

\* POST /chat with an agent: its graph is resolved and recorded.
Chat(t, a) ==
  /\ Launch(t, a, a, FALSE)
  /\ UNCHANGED asked

\* POST /threads/{id}/resume up to its checks: the graph of the agent in the
\* metadata (_thread_agent; the default without any), which must be waiting for input.
CheckResume(t) ==
  /\ proc = "up"
  /\ asked[t] = NoAgent
  /\ waiting[t]
  /\ asked' = [asked EXCEPT ![t] = meta[t].agent]
  /\ UNCHANGED <<proc, taskVars, storeVars, events, lost, counters>>

\* ... and its agent_stream, which names no agent and so records "default".
Resume(t) ==
  /\ asked[t] # NoAgent
  /\ Launch(t, Default, asked[t], TRUE)
  /\ asked' = [asked EXCEPT ![t] = NoAgent]

\* The resume finds an active run: Conflict.
RefuseResume(t) ==
  /\ asked[t] # NoAgent
  /\ Registered(t)
  /\ asked' = [asked EXCEPT ![t] = NoAgent]
  /\ UNCHANGED <<proc, taskVars, storeVars, events, lost, counters>>

\* POST /threads/{id}/cancel: set the stop event once per run.
Cancel(t) ==
  /\ proc = "up"
  /\ Registered(t)
  /\ ~stop[t]
  /\ stop' = [stop EXCEPT ![t] = TRUE]
  /\ UNCHANGED <<proc, pc, run, killed, finalized, stream, out, storeVars, asked, events,
                 lost, counters>>

-----------------------------------------------------------------------------
(* The stores, as the run task uses them. *)

\* A call to a store fails.  The end of the lifespan closes the stores before
\* the loop cancels the run tasks, so while stopping any call may.
StoreFails ==
  \/ proc = "stopping" /\ UNCHANGED faults
  \/ proc # "stopping" /\ faults < MaxFaults /\ faults' = faults + 1

\* _record_thread_metadata of t's run; a failure is logged and swallowed.
RecordStatus(t, status) ==
  \/ /\ meta' = [meta EXCEPT ![t] = [status |-> status, agent |-> run[t].agent]]
     /\ lost' = [lost EXCEPT ![t] = "no"]
     /\ UNCHANGED faults
  \/ StoreFails /\ lost' = [lost EXCEPT ![t] = "now"] /\ UNCHANGED meta

\* _save_history: rows are deduped by message id; failures are swallowed too.
Save(t, messages) ==
  \/ /\ history' = [history EXCEPT ![t] = @ \cup messages]
     /\ UNCHANGED faults
  \/ StoreFails /\ messages # {} /\ UNCHANGED history

Goto(t, stage) == pc' = [pc EXCEPT ![t] = stage]

\* The event the task hands to the notification hub.
Notify(t, event) == events' = [events EXCEPT ![t] = Append(@, event)]

-----------------------------------------------------------------------------
(* The run task. *)

\* A mutant of RecordStart: only the notification, no metadata.
RecordStartSkipped(t) ==
  /\ pc[t] = "recording"
  /\ Notify(t, "started")
  /\ Goto(t, IF run[t].resume THEN "starting" ELSE "seeding")
  /\ UNCHANGED <<proc, run, stop, killed, finalized, stream, out, storeVars, asked, lost,
                 counters>>

\* Status `running` and the run_started event, before anything else.
RecordStart(t) ==
  /\ pc[t] = "recording"
  /\ RecordStatus(t, "running")
  /\ Notify(t, "started")
  /\ Goto(t, IF run[t].resume THEN "starting" ELSE "seeding")
  /\ UNCHANGED <<proc, run, stop, killed, finalized, stream, out, history, ckpt, waiting,
                 pausedBy, asked, runs, crashes>>

\* The human message is seeded into the history.
Seed(t) ==
  /\ pc[t] = "seeding"
  /\ Save(t, {Human(run[t].n)})
  /\ Goto(t, "starting")
  /\ UNCHANGED <<proc, run, stop, killed, finalized, stream, out, meta, ckpt, waiting,
                 pausedBy, asked, events, lost, runs, crashes>>

\* Skills are materialized and astream_events returns the stream.
Start(t) ==
  /\ pc[t] = "starting"
  /\ Goto(t, "streaming")
  /\ UNCHANGED <<proc, run, stop, killed, finalized, stream, out, storeVars, asked, events,
                 lost, counters>>

\* The task turns to one of its three unhappy endings.
Close(t, outcome) ==
  /\ Goto(t, "closing")
  /\ out' = [out EXCEPT ![t] = outcome]
  /\ UNCHANGED <<proc, run, stop, finalized, stream, asked, events, lost, runs, crashes>>

\* astream_events raises.
StartFails(t) ==
  /\ pc[t] = "starting"
  /\ Close(t, "failed")
  /\ UNCHANGED <<killed, storeVars, faults>>

\* A mutant of SeeStop: the stop event is looked at after an item only.
SeeStopAfterItem(t) ==
  /\ pc[t] = "streaming"
  /\ stop[t] /\ stream[t] \in Over
  /\ Close(t, "cancelled")
  /\ UNCHANGED <<killed, storeVars, faults>>

\* The pump sees the stop event: it wins over an item that is there as well.
SeeStop(t) ==
  /\ pc[t] = "streaming"
  /\ stop[t]
  /\ Close(t, "cancelled")
  /\ UNCHANGED <<killed, storeVars, faults>>

\* The pump sees the sentinel of the consumers.
SeeEnd(t) ==
  /\ pc[t] = "streaming"
  /\ stream[t] \in Over
  /\ ~stop[t]
  /\ Goto(t, "finalizing")
  /\ UNCHANGED <<proc, run, stop, killed, finalized, stream, out, storeVars, asked, events,
                 lost, counters>>

\* replace_messages, first statement: the thread's rows are deleted.
ReplaceDelete(t) ==
  /\ pc[t] = "finalizing"
  /\ stream[t] = "ended"
  /\ history' = [history EXCEPT ![t] = {}]
  /\ Goto(t, "replacing")
  /\ UNCHANGED <<proc, run, stop, killed, finalized, stream, out, meta, ckpt, waiting,
                 pausedBy, asked, events, lost, counters>>

\* A mutant of ReplaceAdd: the outcome is not worked out.
ReplaceAddNoOutcome(t) ==
  /\ pc[t] = "replacing"
  /\ history' = [history EXCEPT ![t] = ckpt[t]]
  /\ Goto(t, "recordEnd")
  /\ UNCHANGED <<proc, run, stop, killed, finalized, stream, out, meta, ckpt, waiting,
                 pausedBy, asked, events, lost, counters>>

\* Second statement: the messages of the final state are inserted.  A pending
\* interrupt in the snapshot makes the run `interrupted`.
ReplaceAdd(t) ==
  /\ pc[t] = "replacing"
  /\ history' = [history EXCEPT ![t] = ckpt[t]]
  /\ out' = [out EXCEPT ![t] = IF waiting[t] THEN "interrupted" ELSE "completed"]
  /\ Goto(t, "recordEnd")
  /\ UNCHANGED <<proc, run, stop, killed, finalized, stream, meta, ckpt, waiting, pausedBy,
                 asked, events, lost, counters>>

\* run.output() raises what broke the agent, or reading the final state or
\* replacing the rows raises.
FinalizeFails(t) ==
  /\ pc[t] \in {"finalizing", "replacing"}
  /\ (stream[t] = "broken" /\ UNCHANGED faults) \/ StoreFails
  /\ Close(t, "failed")
  /\ UNCHANGED <<killed, storeVars>>

\* A mutant of SaveRest: nothing but the rows saved as they landed.
SaveRestSkipped(t) ==
  /\ pc[t] = "closing"
  /\ Goto(t, "recordEnd")
  /\ UNCHANGED <<proc, run, stop, killed, finalized, stream, out, meta, history, ckpt,
                 waiting, pausedBy, asked, events, lost, counters>>

\* The unhappy endings save whatever was finalized.
SaveRest(t) ==
  /\ pc[t] = "closing"
  /\ Save(t, finalized[t])
  /\ Goto(t, "recordEnd")
  /\ UNCHANGED <<proc, run, stop, killed, finalized, stream, out, meta, ckpt, waiting,
                 pausedBy, asked, events, lost, runs, crashes>>

\* The terminal status, before anybody is told.
RecordEnd(t) ==
  /\ pc[t] = "recordEnd"
  /\ RecordStatus(t, out[t])
  /\ Goto(t, "finishing")
  /\ UNCHANGED <<proc, run, stop, killed, finalized, stream, out, history, ckpt, waiting,
                 pausedBy, asked, events, runs, crashes>>

\* A mutant of Finish: the hub is not told.
FinishSilently(t) ==
  /\ pc[t] = "finishing"
  /\ Goto(t, "none")
  /\ UNCHANGED <<proc, run, stop, killed, finalized, stream, out, storeVars, asked, events,
                 lost, counters>>

\* The run_<outcome> event, the terminal events of the stream and finish,
\* with no await between them.
Finish(t) ==
  /\ pc[t] = "finishing"
  /\ Notify(t, out[t])
  /\ Goto(t, "none")
  /\ UNCHANGED <<proc, run, stop, killed, finalized, stream, out, storeVars, asked, lost,
                 counters>>

-----------------------------------------------------------------------------
(* The agent, and the consumers of its stream. *)

\* What the graph has of this run: its input and what it produced.
OwnMessages(t) ==
  finalized[t] \cup (IF run[t].resume THEN {} ELSE {Human(run[t].n)})

Streaming(t) == pc[t] = "streaming" /\ stream[t] \notin Over

\* consume_messages: the message joins `finalized` ...
FinalizeMessage(t) ==
  /\ Streaming(t)
  /\ finalized[t] = {}
  /\ finalized' = [finalized EXCEPT ![t] = {Answer(run[t].n)}]
  /\ stream' = [stream EXCEPT ![t] = "saving"]
  /\ UNCHANGED <<proc, pc, run, stop, killed, out, storeVars, asked, events, lost,
                 counters>>

\* ... and is saved at once, unless a stop or a crash comes first.
SaveMessage(t) ==
  /\ pc[t] = "streaming" /\ stream[t] = "saving"
  /\ Save(t, finalized[t])
  /\ stream' = [stream EXCEPT ![t] = "open"]
  /\ UNCHANGED <<proc, pc, run, stop, killed, finalized, out, meta, ckpt, waiting, pausedBy,
                 asked, events, lost, runs, crashes>>

\* The graph writes a checkpoint on its way, which may be ahead of the
\* consumers or behind them.
Checkpoint(t) ==
  /\ Streaming(t)
  /\ \E more \in SUBSET {Answer(run[t].n)} :
       ckpt' = [ckpt EXCEPT ![t] = @ \cup OwnMessages(t) \cup more]
  /\ waiting' = [waiting EXCEPT ![t] = FALSE]
  /\ UNCHANGED <<proc, taskVars, meta, history, pausedBy, asked, events, lost, counters>>

\* The graph ends, or pauses for input, and its consumers drain the stream.
AgentEnds(t, pause) ==
  /\ pc[t] = "streaming" /\ stream[t] = "open"
  /\ stream' = [stream EXCEPT ![t] = "ended"]
  /\ ckpt' = [ckpt EXCEPT ![t] = @ \cup OwnMessages(t)]
  /\ waiting' = [waiting EXCEPT ![t] = pause]
  /\ pausedBy' = [pausedBy EXCEPT ![t] = IF pause THEN run[t].graph ELSE NoAgent]
  /\ UNCHANGED <<proc, pc, run, stop, killed, finalized, out, meta, history, asked,
                 events, lost, counters>>

\* The graph raises: its consumers report the error and drain the stream.
AgentFails(t) ==
  /\ pc[t] = "streaming" /\ stream[t] = "open"
  /\ stream' = [stream EXCEPT ![t] = "broken"]
  /\ UNCHANGED <<proc, pc, run, stop, killed, finalized, out, storeVars, asked, events,
                 lost, counters>>

-----------------------------------------------------------------------------
(* The process. *)

\* A graceful shutdown begins: no more requests.
Shutdown ==
  /\ proc = "up"
  /\ crashes < MaxCrashes
  /\ proc' = "stopping"
  /\ UNCHANGED <<taskVars, storeVars, asked, events, lost, counters>>

\* CancelledError reaches the task: inside its `try` it ends as cancelled,
\* before that it just dies.
KillTask(t) ==
  /\ proc = "stopping"
  /\ Registered(t) /\ ~killed[t] /\ pc[t] # "dead"
  /\ killed' = [killed EXCEPT ![t] = TRUE]
  /\ IF pc[t] \in Guarded
     THEN Close(t, "cancelled") /\ UNCHANGED <<storeVars, faults>>
     ELSE /\ Goto(t, "dead")
          /\ UNCHANGED <<proc, run, stop, finalized, stream, out, storeVars, asked, events,
                         lost, counters>>

\* The process is gone with everything it held in memory.
Vanish ==
  /\ proc' = "down"
  /\ crashes' = crashes + 1
  /\ pc' = [t \in Thread |-> "none"]
  /\ run' = [t \in Thread |-> NoRun]
  /\ stop' = [t \in Thread |-> FALSE]
  /\ killed' = [t \in Thread |-> FALSE]
  /\ finalized' = [t \in Thread |-> {}]
  /\ stream' = [t \in Thread |-> "open"]
  /\ out' = [t \in Thread |-> "running"]
  /\ asked' = [t \in Thread |-> NoAgent]
  /\ events' = [t \in Thread |-> <<>>]
  /\ lost' = [t \in Thread |-> IF lost[t] = "no" THEN "no" ELSE "before"]
  /\ UNCHANGED <<storeVars, runs, faults>>

Crash ==
  /\ proc \in {"up", "booting"}
  /\ crashes < MaxCrashes
  /\ Vanish

Exit ==
  /\ proc = "stopping"
  /\ Vanish

Boot ==
  /\ proc = "down"
  /\ proc' = "booting"
  /\ UNCHANGED <<taskVars, storeVars, asked, events, lost, counters>>

IsRunning(t) == meta[t].status = "running"

\* A mutant of Stale: reconciliation misses nothing but finds nothing.
StaleNever(t) == FALSE

\* What the loop of reconcile_stale_runs has yet to come to: it passes a thread
\* once, also when its write fails.
Stale(t) == t \notin Unlisted /\ IsRunning(t) /\ ~Registered(t) /\ lost[t] # "now"

\* One thread: cancelled, under the agent it had.  The write may fail, which
\* _record_thread_metadata swallows; the event is published all the same.
Reconcile(t) ==
  /\ proc = "booting"
  /\ Stale(t)
  /\ \/ /\ meta' = [meta EXCEPT ![t].status = "cancelled"]
        /\ lost' = [lost EXCEPT ![t] = "no"]
        /\ UNCHANGED faults
     \/ StoreFails /\ lost' = [lost EXCEPT ![t] = "now"] /\ UNCHANGED meta
  /\ Notify(t, "cancelled")
  /\ UNCHANGED <<proc, taskVars, history, ckpt, waiting, pausedBy, asked, runs, crashes>>

\* Listing the users or the threads of one fails and ends the loop: what is
\* stale by then stays so.
ReconcileFails ==
  /\ proc = "booting"
  /\ StoreFails
  /\ lost' = [t \in Thread |-> IF Stale(t) THEN "now" ELSE lost[t]]
  /\ proc' = "up"
  /\ UNCHANGED <<taskVars, storeVars, asked, events, runs, crashes>>

\* Start-up is over: requests are served.
Serve ==
  /\ proc = "booting"
  /\ \A t \in Thread : ~Stale(t)
  /\ proc' = "up"
  /\ UNCHANGED <<taskVars, storeVars, asked, events, lost, counters>>

-----------------------------------------------------------------------------
\* What the event loop does for a run without the agent's help.
RunStep(t) ==
  \/ RecordStart(t) \/ Seed(t) \/ Start(t) \/ StartFails(t)
  \/ SeeStop(t) \/ SeeEnd(t)
  \/ ReplaceDelete(t) \/ ReplaceAdd(t) \/ FinalizeFails(t)
  \/ SaveRest(t) \/ RecordEnd(t) \/ Finish(t)

Next ==
  \/ \E t \in Thread :
       \/ \E a \in Agent : Chat(t, a)
       \/ CheckResume(t) \/ Resume(t) \/ RefuseResume(t) \/ Cancel(t)
       \/ RecordStart(t) \/ Seed(t) \/ Start(t) \/ StartFails(t)
       \/ SeeStop(t) \/ SeeEnd(t)
       \/ ReplaceDelete(t) \/ ReplaceAdd(t) \/ FinalizeFails(t)
       \/ SaveRest(t) \/ RecordEnd(t) \/ Finish(t)
       \/ FinalizeMessage(t) \/ SaveMessage(t) \/ Checkpoint(t)
       \/ AgentFails(t) \/ \E pause \in BOOLEAN : AgentEnds(t, pause)
       \/ KillTask(t) \/ Reconcile(t)
  \/ Shutdown \/ Crash \/ Exit \/ Boot \/ ReconcileFails \/ Serve

Spec == Init /\ [][Next]_vars

\* The event loop runs every ready task and a supervisor restarts the process;
\* the calls that open the agent's stream and read its final state return or
\* raise.  Nothing else is assumed of the agent, of the users or of failures.
FairSpec ==
  /\ Spec
  /\ \A t \in Thread : WF_vars(RunStep(t)) /\ WF_vars(Reconcile(t))
  /\ WF_vars(Exit) /\ WF_vars(Boot) /\ WF_vars(Serve)

-----------------------------------------------------------------------------
(* Properties. *)

\* Every variable has its type.
TypeOK ==
  /\ proc \in {"up", "stopping", "down", "booting"}
  /\ pc \in [Thread -> Stage]
  /\ run \in [Thread -> [n : 0 .. MaxRuns, agent : Agent \cup {NoAgent},
                         graph : Agent \cup {NoAgent}, resume : BOOLEAN]]
  /\ stop \in [Thread -> BOOLEAN]
  /\ killed \in [Thread -> BOOLEAN]
  /\ finalized \in [Thread -> SUBSET MessageIds]
  /\ stream \in [Thread -> {"open", "saving"} \cup Over]
  /\ out \in [Thread -> Terminal \cup {"running"}]
  /\ meta \in [Thread -> [status : Terminal \cup {"running", "absent"}, agent : Agent]]
  /\ history \in [Thread -> SUBSET MessageIds]
  /\ ckpt \in [Thread -> SUBSET MessageIds]
  /\ waiting \in [Thread -> BOOLEAN]
  /\ pausedBy \in [Thread -> Agent \cup {NoAgent}]
  /\ asked \in [Thread -> Agent \cup {NoAgent}]
  /\ events \in [Thread -> Seq(Terminal \cup {"started"})]
  /\ lost \in [Thread -> {"no", "now", "before"}]
  /\ runs \in 0 .. MaxRuns /\ crashes \in 0 .. MaxCrashes /\ faults \in 0 .. MaxFaults

\* While the server serves, a listed thread that shows `running` has a run,
\* whatever crashes, shutdowns and cancels came before, unless the last write
\* of its metadata failed (reconcile_stale_runs, and every ending of the run
\* task records its status).
RunningThreadsHaveRuns ==
  proc = "up" =>
    \A t \in Thread \ Unlisted : IsRunning(t) /\ lost[t] # "now" => Registered(t)

\* A thread shown as `interrupted` can be resumed: its graph is paused, even
\* when the run that consumed the pause was lost in a crash (the run records
\* `running` before it gives the graph its input).
InterruptedMeansWaiting ==
  \A t \in Thread :
    meta[t].status = "interrupted" /\ lost[t] = "no" => waiting[t]

\* When the world is told that a run has ended, the stores already show it:
\* its status, and as long as they worked its input and every message that
\* was finalized, in all four endings ("before the terminal events, so GET
\* /threads and GET /threads/{id}/messages see the finished run").
StoredBeforeTold ==
  \A t \in Thread :
    pc[t] = "finishing" =>
      /\ lost[t] # "now" => meta[t] = [status |-> out[t], agent |-> run[t].agent]
      /\ proc = "up" /\ faults = 0 => OwnMessages(t) \subseteq history[t]

\* The notifications of a thread alternate between a start and an ending, and
\* the last one is a start exactly while there is a run: who follows them knows
\* what is running, across cancels, failures and shutdowns.
Starts(s) == {i \in 1 .. Len(s) : s[i] = "started"}
Alternates(s) == \A i \in 1 .. Len(s) - 1 : i \in Starts(s) <=> i + 1 \notin Starts(s)
NotificationsTellActivity ==
  \A t \in Thread :
    /\ Alternates(events[t])
    /\ pc[t] \notin {"recording", "dead"} =>
         (Len(events[t]) \in Starts(events[t]) <=> Registered(t))

\* A run whose cancellation was acknowledged ends, whatever its agent does.
CancelledRunsEnd == \A t \in Thread : stop[t] ~> pc[t] = "none"

-----------------------------------------------------------------------------
(* What the repository says and the code does not do. *)

\* The agent that the resume of an interrupted thread takes from its metadata
\* is the one whose graph paused, at the second pause of a conversation too
\* (_thread_agent: "The graph the thread was last run with").
ResumeUsesPausedGraph ==
  \A t \in Thread :
    ~Registered(t) /\ waiting[t] /\ meta[t].status = "interrupted"
      => meta[t].agent = pausedBy[t]

\* After a restart every thread left `running` is cancelled, whoever owns it
\* (reconcile_stale_runs: "after a restart every `running` thread with no
\* ActiveRun is stale").
EveryStaleRunIsReconciled ==
  proc = "up" => \A t \in Thread : IsRunning(t) /\ lost[t] # "now" => Registered(t)

\* The finalized messages that a completed run is about to delete are in the
\* state it writes in their place, those of earlier cancelled runs too; a run
\* whose agent failed deletes nothing
\* (_run_agent: "persist each finalized message as it lands ... so cancelled or
\* interrupted runs still leave readable history behind").
NothingIsReplacedAway ==
  \A t \in Thread, n \in 1 .. MaxRuns :
    pc[t] = "finalizing" /\ stream[t] = "ended" /\ Answer(n) \in history[t]
      => Answer(n) \in ckpt[t]
=============================================================================
