------------------------- MODULE RunLifecycle_proofs -------------------------
(***************************************************************************)
(* The safety of RunLifecycle, proved for any threads, agents and bounds:  *)
(* RunningThreadsHaveRuns, InterruptedMeansWaiting, StoredBeforeTold and   *)
(* NotificationsTellActivity.                                              *)
(*                                                                         *)
(* The inductive invariant says, stage by stage, what a run task knows to  *)
(* be stored (Tasks, Rows), what is registered while the process is not up *)
(* (Process) and what the followers of the notifications were told (Told). *)
(***************************************************************************)
EXTENDS RunLifecycle, TLAPS

\* A process that is down or booting has no task; only a process that may
\* still exit within the bound is stopping.
Process ==
  /\ proc \in {"down", "booting"} => \A t \in Thread : pc[t] = "none"
  /\ proc = "stopping" => crashes < MaxCrashes

\* What holds of a registered task at each of its stages.
Tasks ==
  \A t \in Thread :
    /\ pc[t] # "none" => run[t].n \in 1 .. MaxRuns /\ run[t].agent \in Agent
    /\ pc[t] \in {"seeding", "starting", "streaming"} /\ lost[t] = "no" => IsRunning(t)
    /\ pc[t] \in {"recording", "seeding", "starting"} => stream[t] = "open"
    /\ pc[t] = "closing" => out[t] \in {"cancelled", "failed"}
    /\ pc[t] \in {"recordEnd", "finishing"} => out[t] \in Terminal
    /\ pc[t] = "recordEnd" /\ out[t] = "interrupted" => waiting[t]
    /\ pc[t] = "finishing" /\ lost[t] # "now"
         => meta[t] = [status |-> out[t], agent |-> run[t].agent]

\* The last notification is a start exactly while a task is past its first
\* stage, and reconciliation comes before any notification of its thread.
LastIsStart(t) == Len(events[t]) \in Starts(events[t])
Told ==
  \A t \in Thread :
    /\ pc[t] \in Guarded \cup {"seeding"} => LastIsStart(t)
    /\ pc[t] \in {"none", "recording"} => ~LastIsStart(t)
    /\ proc = "down" \/ (proc = "booting" /\ IsRunning(t) /\ lost[t] # "now")
         => events[t] = <<>>
    /\ Alternates(events[t])

\* Where the messages of a run are while no store has failed.
Rows ==
  proc = "up" /\ faults = 0 =>
    \A t \in Thread :
      /\ pc[t] \in {"starting", "streaming", "finalizing", "closing"}
           => run[t].resume \/ Human(run[t].n) \in history[t]
      /\ pc[t] \in {"streaming", "finalizing", "replacing"} /\ stream[t] = "ended"
           => OwnMessages(t) \subseteq ckpt[t]
      /\ pc[t] = "replacing" => stream[t] = "ended"
      /\ pc[t] \in {"recordEnd", "finishing"} => OwnMessages(t) \subseteq history[t]

IInv == TypeOK /\ Process /\ Tasks /\ Told /\ Rows
          /\ RunningThreadsHaveRuns /\ InterruptedMeansWaiting

\* A metadata write, done or failed, of a status that a run records.
LEMMA StatusTyped ==
  ASSUME TypeOK, Tasks, NEW t \in Thread, pc[t] # "none",
         NEW s \in Terminal \cup {"running"}, RecordStatus(t, s)
  PROVE  /\ meta' \in [Thread -> [status : Terminal \cup {"running", "absent"}, agent : Agent]]
         /\ lost' \in [Thread -> {"no", "now", "before"}]
         /\ faults' \in 0 .. MaxFaults
<1>1. CASE /\ meta' = [meta EXCEPT ![t] = [status |-> s, agent |-> run[t].agent]]
           /\ lost' = [lost EXCEPT ![t] = "no"]
           /\ UNCHANGED faults
  <2>1. [status |-> s, agent |-> run[t].agent]
          \in [status : Terminal \cup {"running", "absent"}, agent : Agent]
    BY DEF Tasks
  <2>2. QED
    BY <1>1, <2>1 DEF TypeOK
<1>2. CASE StoreFails /\ lost' = [lost EXCEPT ![t] = "now"] /\ UNCHANGED meta
  BY <1>2, BoundAssumption DEF TypeOK, StoreFails
<1>3. QED
  BY <1>1, <1>2 DEF RecordStatus

\* A write of history rows, done or failed.
LEMMA SaveTyped ==
  ASSUME TypeOK, NEW t \in Thread, NEW m \in SUBSET MessageIds, Save(t, m)
  PROVE  history' \in [Thread -> SUBSET MessageIds] /\ faults' \in 0 .. MaxFaults
<1>1. CASE history' = [history EXCEPT ![t] = @ \cup m] /\ UNCHANGED faults
  <2>1. history[t] \cup m \in SUBSET MessageIds
    BY DEF TypeOK
  <2>2. QED
    BY <1>1, <2>1 DEF TypeOK
<1>2. CASE StoreFails /\ m # {} /\ UNCHANGED history
  BY <1>2, BoundAssumption DEF TypeOK, StoreFails
<1>3. QED
  BY <1>1, <1>2 DEF Save

\* A notification of the other kind, or the first one, keeps the alternation.
LEMMA AppendAlternates ==
  ASSUME NEW S, NEW s \in Seq(S), NEW e \in S, Alternates(s),
         s = <<>> \/ (e = "started" <=> Len(s) \notin Starts(s))
  PROVE  /\ Alternates(Append(s, e))
         /\ Len(Append(s, e)) \in Starts(Append(s, e)) <=> e = "started"
<1> DEFINE r == Append(s, e)
<1>1. Len(s) \in Nat /\ Len(r) = Len(s) + 1 /\ r[Len(s) + 1] = e
  OBVIOUS
<1>2. \A i \in 1 .. Len(s) : r[i] = s[i]
  OBVIOUS
<1>3. Len(r) \in Starts(r) <=> e = "started"
  BY <1>1 DEF Starts
<1>4. ASSUME NEW i \in 1 .. Len(r) - 1 PROVE i \in Starts(r) <=> i + 1 \notin Starts(r)
  <2>1. i \in 1 .. Len(s) /\ (i \in Starts(r) <=> i \in Starts(s))
    BY <1>1, <1>2 DEF Starts
  <2>2. CASE i = Len(s)
    BY <1>1, <1>3, <2>1, <2>2
  <2>3. CASE i # Len(s)
    <3>1. i \in 1 .. Len(s) - 1 /\ i + 1 \in 1 .. Len(s)
      BY <1>1, <2>1, <2>3
    <3>2. i + 1 \in Starts(r) <=> i + 1 \in Starts(s)
      BY <1>1, <1>2, <3>1 DEF Starts
    <3>3. QED
      BY <2>1, <3>1, <3>2 DEF Alternates
  <2>4. QED
    BY <2>2, <2>3
<1>5. QED
  BY <1>3, <1>4 DEF Alternates

\* Every step keeps the types.
LEMMA TypeStep ==
  ASSUME TypeOK, Process, Tasks, [Next]_vars
  PROVE  TypeOK'
<1> USE BoundAssumption, AgentAssumption DEF vars, taskVars, storeVars, counters, Goto
<1>1. ASSUME NEW t \in Thread, NEW a \in Agent, Chat(t, a) PROVE TypeOK'
  BY <1>1 DEF Chat, Launch, TypeOK, Stage
<1>2. ASSUME NEW t \in Thread, CheckResume(t) PROVE TypeOK'
  BY <1>2 DEF CheckResume, TypeOK
<1>3. ASSUME NEW t \in Thread, Resume(t) PROVE TypeOK'
  BY <1>3 DEF Resume, Launch, TypeOK, Stage
<1>4. ASSUME NEW t \in Thread, RefuseResume(t) PROVE TypeOK'
  BY <1>4 DEF RefuseResume, TypeOK
<1>5. ASSUME NEW t \in Thread, Cancel(t) PROVE TypeOK'
  BY <1>5 DEF Cancel, TypeOK
<1>6. ASSUME NEW t \in Thread, RecordStart(t) PROVE TypeOK'
  <2>1. pc[t] # "none" /\ "running" \in Terminal \cup {"running"} /\ RecordStatus(t, "running")
    BY <1>6 DEF RecordStart
  <2>2. /\ meta' \in [Thread -> [status : Terminal \cup {"running", "absent"}, agent : Agent]]
        /\ lost' \in [Thread -> {"no", "now", "before"}]
        /\ faults' \in 0 .. MaxFaults
    BY <2>1, StatusTyped
  <2>3. pc' \in [Thread -> Stage]
    BY <1>6 DEF RecordStart, TypeOK, Stage, Guarded
  <2>4. events' \in [Thread -> Seq(Terminal \cup {"started"})]
    BY <1>6 DEF RecordStart, TypeOK, Notify
  <2>5. QED
    BY <1>6, <2>2, <2>3, <2>4 DEF RecordStart, TypeOK
<1>7. ASSUME NEW t \in Thread, Seed(t) PROVE TypeOK'
  <2>1. {Human(run[t].n)} \in SUBSET MessageIds /\ Save(t, {Human(run[t].n)})
    BY <1>7 DEF Seed, TypeOK, Tasks, Human, MessageIds
  <2>2. history' \in [Thread -> SUBSET MessageIds] /\ faults' \in 0 .. MaxFaults
    BY <2>1, SaveTyped
  <2>3. QED
    BY <1>7, <2>2 DEF Seed, TypeOK, Stage, Guarded
<1>8. ASSUME NEW t \in Thread, Start(t) PROVE TypeOK'
  BY <1>8 DEF Start, TypeOK, Stage, Guarded
<1>9. ASSUME NEW t \in Thread, StartFails(t) PROVE TypeOK'
  BY <1>9 DEF StartFails, Close, TypeOK, Stage, Guarded, Terminal
<1>10. ASSUME NEW t \in Thread, SeeStop(t) PROVE TypeOK'
  BY <1>10 DEF SeeStop, Close, TypeOK, Stage, Guarded, Terminal
<1>11. ASSUME NEW t \in Thread, SeeEnd(t) PROVE TypeOK'
  BY <1>11 DEF SeeEnd, TypeOK, Stage, Guarded
<1>12. ASSUME NEW t \in Thread, ReplaceDelete(t) PROVE TypeOK'
  BY <1>12 DEF ReplaceDelete, TypeOK, Stage, Guarded
<1>13. ASSUME NEW t \in Thread, ReplaceAdd(t) PROVE TypeOK'
  BY <1>13 DEF ReplaceAdd, TypeOK, Stage, Guarded, Terminal
<1>14. ASSUME NEW t \in Thread, FinalizeFails(t) PROVE TypeOK'
  BY <1>14 DEF FinalizeFails, StoreFails, Close, TypeOK, Stage, Guarded, Terminal
<1>15. ASSUME NEW t \in Thread, SaveRest(t) PROVE TypeOK'
  <2>1. finalized[t] \in SUBSET MessageIds /\ Save(t, finalized[t])
    BY <1>15 DEF SaveRest, TypeOK
  <2>2. history' \in [Thread -> SUBSET MessageIds] /\ faults' \in 0 .. MaxFaults
    BY <2>1, SaveTyped
  <2>3. QED
    BY <1>15, <2>2 DEF SaveRest, TypeOK, Stage, Guarded
<1>16. ASSUME NEW t \in Thread, RecordEnd(t) PROVE TypeOK'
  <2>1. pc[t] # "none" /\ out[t] \in Terminal /\ RecordStatus(t, out[t])
    BY <1>16 DEF RecordEnd, Tasks
  <2>2. /\ meta' \in [Thread -> [status : Terminal \cup {"running", "absent"}, agent : Agent]]
        /\ lost' \in [Thread -> {"no", "now", "before"}]
        /\ faults' \in 0 .. MaxFaults
    BY <2>1, StatusTyped
  <2>3. QED
    BY <1>16, <2>2 DEF RecordEnd, TypeOK, Stage, Guarded
<1>17. ASSUME NEW t \in Thread, Finish(t) PROVE TypeOK'
  BY <1>17 DEF Finish, TypeOK, Tasks, Stage, Notify
<1>18. ASSUME NEW t \in Thread, FinalizeMessage(t) PROVE TypeOK'
  BY <1>18 DEF FinalizeMessage, Streaming, TypeOK, Tasks, MessageIds, Answer
<1>19. ASSUME NEW t \in Thread, SaveMessage(t) PROVE TypeOK'
  <2>1. finalized[t] \in SUBSET MessageIds /\ Save(t, finalized[t])
    BY <1>19 DEF SaveMessage, TypeOK
  <2>2. history' \in [Thread -> SUBSET MessageIds] /\ faults' \in 0 .. MaxFaults
    BY <2>1, SaveTyped
  <2>3. QED
    BY <1>19, <2>2 DEF SaveMessage, TypeOK
<1>20. ASSUME NEW t \in Thread, Checkpoint(t) PROVE TypeOK'
  BY <1>20 DEF Checkpoint, Streaming, TypeOK, Tasks, MessageIds, OwnMessages, Human, Answer
<1>21. ASSUME NEW t \in Thread, AgentFails(t) PROVE TypeOK'
  BY <1>21 DEF AgentFails, TypeOK, Over
<1>22. ASSUME NEW t \in Thread, NEW pause \in BOOLEAN, AgentEnds(t, pause) PROVE TypeOK'
  BY <1>22 DEF AgentEnds, TypeOK, Tasks, Over, MessageIds, OwnMessages, Human
<1>23. ASSUME NEW t \in Thread, KillTask(t) PROVE TypeOK'
  BY <1>23 DEF KillTask, Close, TypeOK, Stage, Guarded, Terminal
<1>24. ASSUME NEW t \in Thread, Reconcile(t) PROVE TypeOK'
  <2>1. [meta[t] EXCEPT !.status = "cancelled"]
          \in [status : Terminal \cup {"running", "absent"}, agent : Agent]
    BY ZenonT(40) DEF TypeOK, Terminal
  <2>2. meta' \in [Thread -> [status : Terminal \cup {"running", "absent"}, agent : Agent]]
    BY <1>24, <2>1 DEF Reconcile, TypeOK
  <2>3. lost' \in [Thread -> {"no", "now", "before"}] /\ faults' \in 0 .. MaxFaults
    <3>1. \/ lost' = [lost EXCEPT ![t] = "no"] /\ faults' = faults
          \/ StoreFails /\ lost' = [lost EXCEPT ![t] = "now"]
      BY <1>24, Zenon DEF Reconcile
    <3>2. lost' \in [Thread -> {"no", "now", "before"}]
      BY <3>1 DEF TypeOK
    <3>3. faults' \in 0 .. MaxFaults
      BY <3>1 DEF StoreFails, TypeOK
    <3>4. QED
      BY <3>2, <3>3
  <2>4. events' \in [Thread -> Seq(Terminal \cup {"started"})]
    <3>1. "cancelled" \in Terminal \cup {"started"}
      BY DEF Terminal
    <3>2. events' = [events EXCEPT ![t] = Append(events[t], "cancelled")]
      BY <1>24 DEF Reconcile, Notify
    <3>3. QED
      BY <3>1, <3>2 DEF TypeOK
  <2>5. QED
    BY <1>24, <2>2, <2>3, <2>4 DEF Reconcile, TypeOK
<1>25. CASE Shutdown
  BY <1>25 DEF Shutdown, TypeOK
<1>26. CASE Crash
  BY <1>26 DEF Crash, Vanish, TypeOK, NoRun, Stage
<1>27. CASE Exit
  BY <1>27 DEF Exit, Vanish, TypeOK, Process, NoRun, Stage
<1>28. CASE Boot
  BY <1>28 DEF Boot, TypeOK
<1>29. CASE ReconcileFails
  BY <1>29 DEF ReconcileFails, StoreFails, TypeOK
<1>30. CASE Serve
  BY <1>30 DEF Serve, TypeOK
<1>31. CASE UNCHANGED vars
  BY <1>31 DEF TypeOK
<1>32. QED
  BY <1>1, <1>2, <1>3, <1>4, <1>5, <1>6, <1>7, <1>8, <1>9, <1>10, <1>11, <1>12, <1>13,
         <1>14, <1>15, <1>16, <1>17, <1>18, <1>19, <1>20, <1>21, <1>22, <1>23, <1>24,
         <1>25, <1>26, <1>27, <1>28, <1>29, <1>30, <1>31 DEF Next

\* Every step keeps Process.
LEMMA ProcessStep ==
  ASSUME TypeOK, Process, [Next]_vars
  PROVE  Process'
<1> USE BoundAssumption, AgentAssumption DEF vars, taskVars, storeVars, counters, Goto
<1>1. ASSUME NEW t \in Thread, NEW a \in Agent, Chat(t, a) PROVE Process'
  BY <1>1 DEF Chat, Launch, Process
<1>2. ASSUME NEW t \in Thread, CheckResume(t) PROVE Process'
  BY <1>2 DEF CheckResume, Process
<1>3. ASSUME NEW t \in Thread, Resume(t) PROVE Process'
  BY <1>3 DEF Resume, Launch, Process
<1>4. ASSUME NEW t \in Thread, RefuseResume(t) PROVE Process'
  BY <1>4 DEF RefuseResume, Process
<1>5. ASSUME NEW t \in Thread, Cancel(t) PROVE Process'
  BY <1>5 DEF Cancel, Process
<1>6. ASSUME NEW t \in Thread, RecordStart(t) PROVE Process'
  BY <1>6 DEF RecordStart, Process
<1>7. ASSUME NEW t \in Thread, Seed(t) PROVE Process'
  BY <1>7 DEF Seed, Process
<1>8. ASSUME NEW t \in Thread, Start(t) PROVE Process'
  BY <1>8 DEF Start, Process
<1>9. ASSUME NEW t \in Thread, StartFails(t) PROVE Process'
  BY <1>9 DEF StartFails, Close, Process
<1>10. ASSUME NEW t \in Thread, SeeStop(t) PROVE Process'
  BY <1>10 DEF SeeStop, Close, Process
<1>11. ASSUME NEW t \in Thread, SeeEnd(t) PROVE Process'
  BY <1>11 DEF SeeEnd, Process
<1>12. ASSUME NEW t \in Thread, ReplaceDelete(t) PROVE Process'
  BY <1>12 DEF ReplaceDelete, Process
<1>13. ASSUME NEW t \in Thread, ReplaceAdd(t) PROVE Process'
  BY <1>13 DEF ReplaceAdd, Process
<1>14. ASSUME NEW t \in Thread, FinalizeFails(t) PROVE Process'
  BY <1>14 DEF FinalizeFails, Close, Process
<1>15. ASSUME NEW t \in Thread, SaveRest(t) PROVE Process'
  BY <1>15 DEF SaveRest, Process
<1>16. ASSUME NEW t \in Thread, RecordEnd(t) PROVE Process'
  BY <1>16 DEF RecordEnd, Process
<1>17. ASSUME NEW t \in Thread, Finish(t) PROVE Process'
  BY <1>17 DEF Finish, Process
<1>18. ASSUME NEW t \in Thread, FinalizeMessage(t) PROVE Process'
  BY <1>18 DEF FinalizeMessage, Process
<1>19. ASSUME NEW t \in Thread, SaveMessage(t) PROVE Process'
  BY <1>19 DEF SaveMessage, Process
<1>20. ASSUME NEW t \in Thread, Checkpoint(t) PROVE Process'
  BY <1>20 DEF Checkpoint, Process
<1>21. ASSUME NEW t \in Thread, AgentFails(t) PROVE Process'
  BY <1>21 DEF AgentFails, Process
<1>22. ASSUME NEW t \in Thread, NEW pause \in BOOLEAN, AgentEnds(t, pause) PROVE Process'
  BY <1>22 DEF AgentEnds, Process
<1>23. ASSUME NEW t \in Thread, KillTask(t) PROVE Process'
  BY <1>23 DEF KillTask, Close, Process
<1>24. ASSUME NEW t \in Thread, Reconcile(t) PROVE Process'
  BY <1>24 DEF Reconcile, Process
<1>25. CASE Shutdown
  BY <1>25 DEF Shutdown, Process
<1>26. CASE Crash
  BY <1>26 DEF Crash, Vanish, Process
<1>27. CASE Exit
  BY <1>27 DEF Exit, Vanish, Process
<1>28. CASE Boot
  BY <1>28 DEF Boot, Process
<1>29. CASE ReconcileFails
  BY <1>29 DEF ReconcileFails, Process
<1>30. CASE Serve
  BY <1>30 DEF Serve, Process
<1>31. CASE UNCHANGED vars
  BY <1>31 DEF Process
<1>32. QED
  BY <1>1, <1>2, <1>3, <1>4, <1>5, <1>6, <1>7, <1>8, <1>9, <1>10, <1>11, <1>12, <1>13,
         <1>14, <1>15, <1>16, <1>17, <1>18, <1>19, <1>20, <1>21, <1>22, <1>23, <1>24,
         <1>25, <1>26, <1>27, <1>28, <1>29, <1>30, <1>31 DEF Next

\* Every step keeps Tasks.
LEMMA TasksStep ==
  ASSUME TypeOK, Process, Tasks, [Next]_vars
  PROVE  Tasks'
<1> USE BoundAssumption, AgentAssumption DEF vars, taskVars, storeVars, counters, Goto
<1>1. ASSUME NEW t \in Thread, NEW a \in Agent, Chat(t, a) PROVE Tasks'
  BY <1>1 DEF Chat, Launch, TypeOK, Tasks, IsRunning
<1>2. ASSUME NEW t \in Thread, CheckResume(t) PROVE Tasks'
  BY <1>2 DEF CheckResume, Tasks, IsRunning
<1>3. ASSUME NEW t \in Thread, Resume(t) PROVE Tasks'
  BY <1>3 DEF Resume, Launch, TypeOK, Tasks, IsRunning
<1>4. ASSUME NEW t \in Thread, RefuseResume(t) PROVE Tasks'
  BY <1>4 DEF RefuseResume, Tasks, IsRunning
<1>5. ASSUME NEW t \in Thread, Cancel(t) PROVE Tasks'
  BY <1>5 DEF Cancel, Tasks, IsRunning
<1>6. ASSUME NEW t \in Thread, RecordStart(t) PROVE Tasks'
  BY <1>6 DEF RecordStart, RecordStatus, TypeOK, Tasks, IsRunning
<1>7. ASSUME NEW t \in Thread, Seed(t) PROVE Tasks'
  BY <1>7 DEF Seed, Tasks, IsRunning
<1>8. ASSUME NEW t \in Thread, Start(t) PROVE Tasks'
  BY <1>8 DEF Start, Tasks, IsRunning
<1>9. ASSUME NEW t \in Thread, StartFails(t) PROVE Tasks'
  BY <1>9 DEF StartFails, Close, TypeOK, Tasks, IsRunning
<1>10. ASSUME NEW t \in Thread, SeeStop(t) PROVE Tasks'
  BY <1>10 DEF SeeStop, Close, TypeOK, Tasks, IsRunning
<1>11. ASSUME NEW t \in Thread, SeeEnd(t) PROVE Tasks'
  BY <1>11 DEF SeeEnd, Tasks, IsRunning
<1>12. ASSUME NEW t \in Thread, ReplaceDelete(t) PROVE Tasks'
  BY <1>12 DEF ReplaceDelete, Tasks, IsRunning
<1>13. ASSUME NEW t \in Thread, ReplaceAdd(t) PROVE Tasks'
  BY <1>13 DEF ReplaceAdd, TypeOK, Terminal, Tasks, IsRunning
<1>14. ASSUME NEW t \in Thread, FinalizeFails(t) PROVE Tasks'
  BY <1>14 DEF FinalizeFails, Close, TypeOK, Tasks, IsRunning
<1>15. ASSUME NEW t \in Thread, SaveRest(t) PROVE Tasks'
  BY <1>15 DEF SaveRest, Terminal, Tasks, IsRunning
<1>16. ASSUME NEW t \in Thread, RecordEnd(t) PROVE Tasks'
  BY <1>16 DEF RecordEnd, RecordStatus, TypeOK, Tasks, IsRunning
<1>17. ASSUME NEW t \in Thread, Finish(t) PROVE Tasks'
  BY <1>17 DEF Finish, Tasks, IsRunning
<1>18. ASSUME NEW t \in Thread, FinalizeMessage(t) PROVE Tasks'
  BY <1>18 DEF FinalizeMessage, Streaming, Tasks, IsRunning
<1>19. ASSUME NEW t \in Thread, SaveMessage(t) PROVE Tasks'
  BY <1>19 DEF SaveMessage, Tasks, IsRunning
<1>20. ASSUME NEW t \in Thread, Checkpoint(t) PROVE Tasks'
  BY <1>20 DEF Checkpoint, Streaming, Tasks, IsRunning
<1>21. ASSUME NEW t \in Thread, AgentFails(t) PROVE Tasks'
  BY <1>21 DEF AgentFails, Tasks, IsRunning
<1>22. ASSUME NEW t \in Thread, NEW pause \in BOOLEAN, AgentEnds(t, pause) PROVE Tasks'
  BY <1>22 DEF AgentEnds, Tasks, IsRunning
<1>23. ASSUME NEW t \in Thread, KillTask(t) PROVE Tasks'
  <2>1. CASE pc[t] \in Guarded
    BY <1>23, <2>1 DEF KillTask, Close, TypeOK, Guarded, Tasks, IsRunning
  <2>2. CASE pc[t] \notin Guarded
    BY <1>23, <2>2 DEF KillTask, Registered, TypeOK, Tasks, IsRunning
  <2>3. QED
    BY <2>1, <2>2
<1>24. ASSUME NEW t \in Thread, Reconcile(t) PROVE Tasks'
  BY <1>24 DEF Reconcile, Process, Tasks
<1>25. CASE Shutdown
  BY <1>25 DEF Shutdown, Tasks, IsRunning
<1>26. CASE Crash
  BY <1>26 DEF Crash, Vanish, Tasks
<1>27. CASE Exit
  BY <1>27 DEF Exit, Vanish, Tasks
<1>28. CASE Boot
  BY <1>28 DEF Boot, Tasks, IsRunning
<1>29. CASE ReconcileFails
  BY <1>29 DEF ReconcileFails, Tasks, IsRunning
<1>30. CASE Serve
  BY <1>30 DEF Serve, Tasks, IsRunning
<1>31. CASE UNCHANGED vars
  BY <1>31 DEF Tasks, IsRunning
<1>32. QED
  BY <1>1, <1>2, <1>3, <1>4, <1>5, <1>6, <1>7, <1>8, <1>9, <1>10, <1>11, <1>12, <1>13,
         <1>14, <1>15, <1>16, <1>17, <1>18, <1>19, <1>20, <1>21, <1>22, <1>23, <1>24,
         <1>25, <1>26, <1>27, <1>28, <1>29, <1>30, <1>31 DEF Next

\* Every step keeps RunningThreadsHaveRuns.
LEMMA RunningStep ==
  ASSUME TypeOK, Process, Tasks, RunningThreadsHaveRuns, [Next]_vars
  PROVE  RunningThreadsHaveRuns'
<1> USE BoundAssumption, AgentAssumption DEF vars, taskVars, storeVars, counters, Goto
<1>1. ASSUME NEW t \in Thread, NEW a \in Agent, Chat(t, a) PROVE RunningThreadsHaveRuns'
  BY <1>1 DEF Chat, Launch, RunningThreadsHaveRuns, IsRunning, Registered
<1>2. ASSUME NEW t \in Thread, CheckResume(t) PROVE RunningThreadsHaveRuns'
  BY <1>2 DEF CheckResume, RunningThreadsHaveRuns, IsRunning, Registered
<1>3. ASSUME NEW t \in Thread, Resume(t) PROVE RunningThreadsHaveRuns'
  BY <1>3 DEF Resume, Launch, RunningThreadsHaveRuns, IsRunning, Registered
<1>4. ASSUME NEW t \in Thread, RefuseResume(t) PROVE RunningThreadsHaveRuns'
  BY <1>4 DEF RefuseResume, RunningThreadsHaveRuns, IsRunning, Registered
<1>5. ASSUME NEW t \in Thread, Cancel(t) PROVE RunningThreadsHaveRuns'
  BY <1>5 DEF Cancel, RunningThreadsHaveRuns, IsRunning, Registered
<1>6. ASSUME NEW t \in Thread, RecordStart(t) PROVE RunningThreadsHaveRuns'
  BY <1>6
     DEF RecordStart, RecordStatus, TypeOK, RunningThreadsHaveRuns, IsRunning, Registered
<1>7. ASSUME NEW t \in Thread, Seed(t) PROVE RunningThreadsHaveRuns'
  BY <1>7 DEF Seed, RunningThreadsHaveRuns, IsRunning, Registered
<1>8. ASSUME NEW t \in Thread, Start(t) PROVE RunningThreadsHaveRuns'
  BY <1>8 DEF Start, RunningThreadsHaveRuns, IsRunning, Registered
<1>9. ASSUME NEW t \in Thread, StartFails(t) PROVE RunningThreadsHaveRuns'
  BY <1>9 DEF StartFails, Close, RunningThreadsHaveRuns, IsRunning, Registered
<1>10. ASSUME NEW t \in Thread, SeeStop(t) PROVE RunningThreadsHaveRuns'
  BY <1>10 DEF SeeStop, Close, RunningThreadsHaveRuns, IsRunning, Registered
<1>11. ASSUME NEW t \in Thread, SeeEnd(t) PROVE RunningThreadsHaveRuns'
  BY <1>11 DEF SeeEnd, RunningThreadsHaveRuns, IsRunning, Registered
<1>12. ASSUME NEW t \in Thread, ReplaceDelete(t) PROVE RunningThreadsHaveRuns'
  BY <1>12 DEF ReplaceDelete, RunningThreadsHaveRuns, IsRunning, Registered
<1>13. ASSUME NEW t \in Thread, ReplaceAdd(t) PROVE RunningThreadsHaveRuns'
  BY <1>13 DEF ReplaceAdd, RunningThreadsHaveRuns, IsRunning, Registered
<1>14. ASSUME NEW t \in Thread, FinalizeFails(t) PROVE RunningThreadsHaveRuns'
  BY <1>14 DEF FinalizeFails, Close, RunningThreadsHaveRuns, IsRunning, Registered
<1>15. ASSUME NEW t \in Thread, SaveRest(t) PROVE RunningThreadsHaveRuns'
  BY <1>15 DEF SaveRest, RunningThreadsHaveRuns, IsRunning, Registered
<1>16. ASSUME NEW t \in Thread, RecordEnd(t) PROVE RunningThreadsHaveRuns'
  BY <1>16
     DEF RecordEnd, RecordStatus, TypeOK, RunningThreadsHaveRuns, IsRunning, Registered
<1>17. ASSUME NEW t \in Thread, Finish(t) PROVE RunningThreadsHaveRuns'
  <2>1. SUFFICES ASSUME proc = "up", NEW u \in Thread \ Unlisted, u = t, lost[t] # "now"
                 PROVE  ~IsRunning(t)
    BY <1>17 DEF Finish, RunningThreadsHaveRuns, IsRunning, Registered
  <2>2. pc[t] = "finishing" /\ t \in Thread
    BY <1>17 DEF Finish
  <2>3. meta[t] = [status |-> out[t], agent |-> run[t].agent] /\ out[t] \in Terminal
    BY <2>1, <2>2 DEF Tasks
  <2>4. QED
    BY <2>3 DEF Terminal, IsRunning
<1>18. ASSUME NEW t \in Thread, FinalizeMessage(t) PROVE RunningThreadsHaveRuns'
  BY <1>18 DEF FinalizeMessage, RunningThreadsHaveRuns, IsRunning, Registered
<1>19. ASSUME NEW t \in Thread, SaveMessage(t) PROVE RunningThreadsHaveRuns'
  BY <1>19 DEF SaveMessage, RunningThreadsHaveRuns, IsRunning, Registered
<1>20. ASSUME NEW t \in Thread, Checkpoint(t) PROVE RunningThreadsHaveRuns'
  BY <1>20 DEF Checkpoint, RunningThreadsHaveRuns, IsRunning, Registered
<1>21. ASSUME NEW t \in Thread, AgentFails(t) PROVE RunningThreadsHaveRuns'
  BY <1>21 DEF AgentFails, RunningThreadsHaveRuns, IsRunning, Registered
<1>22. ASSUME NEW t \in Thread, NEW pause \in BOOLEAN, AgentEnds(t, pause)
      PROVE RunningThreadsHaveRuns'
  BY <1>22 DEF AgentEnds, RunningThreadsHaveRuns, IsRunning, Registered
<1>23. ASSUME NEW t \in Thread, KillTask(t) PROVE RunningThreadsHaveRuns'
  BY <1>23 DEF KillTask, Close, RunningThreadsHaveRuns
<1>24. ASSUME NEW t \in Thread, Reconcile(t) PROVE RunningThreadsHaveRuns'
  BY <1>24 DEF Reconcile, RunningThreadsHaveRuns
<1>25. CASE Shutdown
  BY <1>25 DEF Shutdown, RunningThreadsHaveRuns
<1>26. CASE Crash
  BY <1>26 DEF Crash, Vanish, RunningThreadsHaveRuns
<1>27. CASE Exit
  BY <1>27 DEF Exit, Vanish, RunningThreadsHaveRuns
<1>28. CASE Boot
  BY <1>28 DEF Boot, RunningThreadsHaveRuns
<1>29. CASE ReconcileFails
  BY <1>29 DEF ReconcileFails, Stale, RunningThreadsHaveRuns, IsRunning, Registered
<1>30. CASE Serve
  BY <1>30 DEF Serve, Stale, RunningThreadsHaveRuns, IsRunning, Registered
<1>31. CASE UNCHANGED vars
  BY <1>31 DEF RunningThreadsHaveRuns, IsRunning, Registered
<1>32. QED
  BY <1>1, <1>2, <1>3, <1>4, <1>5, <1>6, <1>7, <1>8, <1>9, <1>10, <1>11, <1>12, <1>13,
         <1>14, <1>15, <1>16, <1>17, <1>18, <1>19, <1>20, <1>21, <1>22, <1>23, <1>24,
         <1>25, <1>26, <1>27, <1>28, <1>29, <1>30, <1>31 DEF Next

\* Every step keeps InterruptedMeansWaiting.
LEMMA WaitingStep ==
  ASSUME TypeOK, Process, Tasks, InterruptedMeansWaiting, [Next]_vars
  PROVE  InterruptedMeansWaiting'
<1> USE BoundAssumption, AgentAssumption DEF vars, taskVars, storeVars, counters, Goto
<1>1. ASSUME NEW t \in Thread, NEW a \in Agent, Chat(t, a) PROVE InterruptedMeansWaiting'
  BY <1>1 DEF Chat, Launch, InterruptedMeansWaiting
<1>2. ASSUME NEW t \in Thread, CheckResume(t) PROVE InterruptedMeansWaiting'
  BY <1>2 DEF CheckResume, InterruptedMeansWaiting
<1>3. ASSUME NEW t \in Thread, Resume(t) PROVE InterruptedMeansWaiting'
  BY <1>3 DEF Resume, Launch, InterruptedMeansWaiting
<1>4. ASSUME NEW t \in Thread, RefuseResume(t) PROVE InterruptedMeansWaiting'
  BY <1>4 DEF RefuseResume, InterruptedMeansWaiting
<1>5. ASSUME NEW t \in Thread, Cancel(t) PROVE InterruptedMeansWaiting'
  BY <1>5 DEF Cancel, InterruptedMeansWaiting
<1>6. ASSUME NEW t \in Thread, RecordStart(t) PROVE InterruptedMeansWaiting'
  <2>1. CASE /\ meta' = [meta EXCEPT ![t] = [status |-> "running", agent |-> run[t].agent]]
             /\ UNCHANGED waiting
    BY <1>6, <2>1 DEF RecordStart, TypeOK, InterruptedMeansWaiting, RecordStatus
  <2>2. CASE lost' = [lost EXCEPT ![t] = "now"] /\ UNCHANGED <<meta, waiting>>
    BY <1>6, <2>2 DEF InterruptedMeansWaiting
  <2>3. QED
    BY <1>6, <2>1, <2>2 DEF RecordStart, RecordStatus
<1>7. ASSUME NEW t \in Thread, Seed(t) PROVE InterruptedMeansWaiting'
  BY <1>7 DEF Seed, InterruptedMeansWaiting
<1>8. ASSUME NEW t \in Thread, Start(t) PROVE InterruptedMeansWaiting'
  BY <1>8 DEF Start, InterruptedMeansWaiting
<1>9. ASSUME NEW t \in Thread, StartFails(t) PROVE InterruptedMeansWaiting'
  BY <1>9 DEF StartFails, Close, InterruptedMeansWaiting
<1>10. ASSUME NEW t \in Thread, SeeStop(t) PROVE InterruptedMeansWaiting'
  BY <1>10 DEF SeeStop, Close, InterruptedMeansWaiting
<1>11. ASSUME NEW t \in Thread, SeeEnd(t) PROVE InterruptedMeansWaiting'
  BY <1>11 DEF SeeEnd, InterruptedMeansWaiting
<1>12. ASSUME NEW t \in Thread, ReplaceDelete(t) PROVE InterruptedMeansWaiting'
  BY <1>12 DEF ReplaceDelete, InterruptedMeansWaiting
<1>13. ASSUME NEW t \in Thread, ReplaceAdd(t) PROVE InterruptedMeansWaiting'
  BY <1>13 DEF ReplaceAdd, InterruptedMeansWaiting
<1>14. ASSUME NEW t \in Thread, FinalizeFails(t) PROVE InterruptedMeansWaiting'
  BY <1>14 DEF FinalizeFails, Close, InterruptedMeansWaiting
<1>15. ASSUME NEW t \in Thread, SaveRest(t) PROVE InterruptedMeansWaiting'
  BY <1>15 DEF SaveRest, InterruptedMeansWaiting
<1>16. ASSUME NEW t \in Thread, RecordEnd(t) PROVE InterruptedMeansWaiting'
  <2>1. CASE /\ meta' = [meta EXCEPT ![t] = [status |-> out[t], agent |-> run[t].agent]]
             /\ UNCHANGED waiting
    BY <1>16, <2>1 DEF RecordEnd, TypeOK, Tasks, InterruptedMeansWaiting, RecordStatus
  <2>2. CASE lost' = [lost EXCEPT ![t] = "now"] /\ UNCHANGED <<meta, waiting>>
    BY <1>16, <2>2 DEF InterruptedMeansWaiting
  <2>3. QED
    BY <1>16, <2>1, <2>2 DEF RecordEnd, RecordStatus
<1>17. ASSUME NEW t \in Thread, Finish(t) PROVE InterruptedMeansWaiting'
  BY <1>17 DEF Finish, InterruptedMeansWaiting
<1>18. ASSUME NEW t \in Thread, FinalizeMessage(t) PROVE InterruptedMeansWaiting'
  BY <1>18 DEF FinalizeMessage, InterruptedMeansWaiting
<1>19. ASSUME NEW t \in Thread, SaveMessage(t) PROVE InterruptedMeansWaiting'
  BY <1>19 DEF SaveMessage, InterruptedMeansWaiting
<1>20. ASSUME NEW t \in Thread, Checkpoint(t) PROVE InterruptedMeansWaiting'
  BY <1>20 DEF Checkpoint, Streaming, TypeOK, Tasks, InterruptedMeansWaiting, IsRunning
<1>21. ASSUME NEW t \in Thread, AgentFails(t) PROVE InterruptedMeansWaiting'
  BY <1>21 DEF AgentFails, InterruptedMeansWaiting
<1>22. ASSUME NEW t \in Thread, NEW pause \in BOOLEAN, AgentEnds(t, pause)
      PROVE InterruptedMeansWaiting'
  BY <1>22 DEF AgentEnds, TypeOK, Tasks, InterruptedMeansWaiting, IsRunning
<1>23. ASSUME NEW t \in Thread, KillTask(t) PROVE InterruptedMeansWaiting'
  BY <1>23 DEF KillTask, Close, InterruptedMeansWaiting
<1>24. ASSUME NEW t \in Thread, Reconcile(t) PROVE InterruptedMeansWaiting'
  BY <1>24 DEF Reconcile, InterruptedMeansWaiting, TypeOK
<1>25. CASE Shutdown
  BY <1>25 DEF Shutdown, InterruptedMeansWaiting
<1>26. CASE Crash
  BY <1>26 DEF Crash, Vanish, InterruptedMeansWaiting
<1>27. CASE Exit
  BY <1>27 DEF Exit, Vanish, InterruptedMeansWaiting
<1>28. CASE Boot
  BY <1>28 DEF Boot, InterruptedMeansWaiting
<1>29. CASE ReconcileFails
  BY <1>29 DEF ReconcileFails, InterruptedMeansWaiting
<1>30. CASE Serve
  BY <1>30 DEF Serve, InterruptedMeansWaiting
<1>31. CASE UNCHANGED vars
  BY <1>31 DEF InterruptedMeansWaiting
<1>32. QED
  BY <1>1, <1>2, <1>3, <1>4, <1>5, <1>6, <1>7, <1>8, <1>9, <1>10, <1>11, <1>12, <1>13,
         <1>14, <1>15, <1>16, <1>17, <1>18, <1>19, <1>20, <1>21, <1>22, <1>23, <1>24,
         <1>25, <1>26, <1>27, <1>28, <1>29, <1>30, <1>31 DEF Next

\* Every step keeps Rows.
LEMMA RowsStep ==
  ASSUME TypeOK, Process, Tasks, Rows, [Next]_vars
  PROVE  Rows'
<1> USE BoundAssumption, AgentAssumption DEF vars, taskVars, storeVars, counters, Goto
<1>1. ASSUME NEW t \in Thread, NEW a \in Agent, Chat(t, a) PROVE Rows'
  BY <1>1 DEF Chat, Launch, TypeOK, Rows, OwnMessages
<1>2. ASSUME NEW t \in Thread, CheckResume(t) PROVE Rows'
  BY <1>2 DEF CheckResume, Rows, OwnMessages
<1>3. ASSUME NEW t \in Thread, Resume(t) PROVE Rows'
  BY <1>3 DEF Resume, Launch, TypeOK, Rows, OwnMessages
<1>4. ASSUME NEW t \in Thread, RefuseResume(t) PROVE Rows'
  BY <1>4 DEF RefuseResume, Rows, OwnMessages
<1>5. ASSUME NEW t \in Thread, Cancel(t) PROVE Rows'
  BY <1>5 DEF Cancel, Rows, OwnMessages
<1>6. ASSUME NEW t \in Thread, RecordStart(t) PROVE Rows'
  <2>1. proc' = "up" /\ faults' = 0 => proc = "up" /\ faults = 0
    BY <1>6 DEF RecordStart, RecordStatus, StoreFails, TypeOK
  <2>2. QED
    BY <1>6, <2>1 DEF RecordStart, Rows, OwnMessages
<1>7. ASSUME NEW t \in Thread, Seed(t) PROVE Rows'
  BY <1>7 DEF Seed, Save, StoreFails, TypeOK, Rows, OwnMessages
<1>8. ASSUME NEW t \in Thread, Start(t) PROVE Rows'
  BY <1>8 DEF Start, TypeOK, Tasks, Rows, OwnMessages
<1>9. ASSUME NEW t \in Thread, StartFails(t) PROVE Rows'
  BY <1>9 DEF StartFails, Close, Rows, OwnMessages
<1>10. ASSUME NEW t \in Thread, SeeStop(t) PROVE Rows'
  BY <1>10 DEF SeeStop, Close, Rows, OwnMessages
<1>11. ASSUME NEW t \in Thread, SeeEnd(t) PROVE Rows'
  BY <1>11 DEF SeeEnd, Rows, OwnMessages
<1>12. ASSUME NEW t \in Thread, ReplaceDelete(t) PROVE Rows'
  BY <1>12 DEF ReplaceDelete, TypeOK, Rows, OwnMessages
<1>13. ASSUME NEW t \in Thread, ReplaceAdd(t) PROVE Rows'
  BY <1>13 DEF ReplaceAdd, TypeOK, Rows, OwnMessages
<1>14. ASSUME NEW t \in Thread, FinalizeFails(t) PROVE Rows'
  <2>1. SUFFICES ASSUME proc' = "up", faults' = 0
                 PROVE  Rows'
    BY DEF Rows
  <2>2. proc = "up" /\ faults = 0 /\ stream[t] = "broken"
    BY <1>14, <2>1 DEF FinalizeFails, Close, StoreFails, TypeOK
  <2>3. pc[t] = "finalizing"
    BY <1>14, <2>2 DEF FinalizeFails, Rows
  <2>4. QED
    BY <1>14, <2>2, <2>3 DEF FinalizeFails, Close, Rows, OwnMessages
<1>15. ASSUME NEW t \in Thread, SaveRest(t) PROVE Rows'
  <2>1. SUFFICES ASSUME proc' = "up", faults' = 0
                 PROVE  Rows'
    BY DEF Rows
  <2>2. proc = "up" /\ faults = 0 /\ history' = [history EXCEPT ![t] = @ \cup finalized[t]]
    BY <1>15, <2>1 DEF SaveRest, Save, StoreFails, TypeOK
  <2>3. QED
    BY <1>15, <2>2 DEF SaveRest, TypeOK, Rows, OwnMessages
<1>16. ASSUME NEW t \in Thread, RecordEnd(t) PROVE Rows'
  <2>1. proc' = "up" /\ faults' = 0 => proc = "up" /\ faults = 0
    BY <1>16 DEF RecordEnd, RecordStatus, StoreFails, TypeOK
  <2>2. QED
    BY <1>16, <2>1 DEF RecordEnd, Rows, OwnMessages
<1>17. ASSUME NEW t \in Thread, Finish(t) PROVE Rows'
  BY <1>17 DEF Finish, Rows, OwnMessages
<1>18. ASSUME NEW t \in Thread, FinalizeMessage(t) PROVE Rows'
  BY <1>18 DEF FinalizeMessage, Streaming, Over, Rows, OwnMessages
<1>19. ASSUME NEW t \in Thread, SaveMessage(t) PROVE Rows'
  <2>1. SUFFICES ASSUME proc' = "up", faults' = 0
                 PROVE  Rows'
    BY DEF Rows
  <2>2. proc = "up" /\ faults = 0 /\ history' = [history EXCEPT ![t] = @ \cup finalized[t]]
    BY <1>19, <2>1 DEF SaveMessage, Save, StoreFails, TypeOK
  <2>3. QED
    BY <1>19, <2>2 DEF SaveMessage, Rows, OwnMessages
<1>20. ASSUME NEW t \in Thread, Checkpoint(t) PROVE Rows'
  BY <1>20 DEF Checkpoint, Rows, OwnMessages
<1>21. ASSUME NEW t \in Thread, AgentFails(t) PROVE Rows'
  BY <1>21 DEF AgentFails, Rows, OwnMessages
<1>22. ASSUME NEW t \in Thread, NEW pause \in BOOLEAN, AgentEnds(t, pause) PROVE Rows'
  BY <1>22 DEF AgentEnds, TypeOK, Rows, OwnMessages
<1>23. ASSUME NEW t \in Thread, KillTask(t) PROVE Rows'
  BY <1>23 DEF KillTask, Close, Rows
<1>24. ASSUME NEW t \in Thread, Reconcile(t) PROVE Rows'
  BY <1>24 DEF Reconcile, Rows
<1>25. CASE Shutdown
  BY <1>25 DEF Shutdown, Rows
<1>26. CASE Crash
  BY <1>26 DEF Crash, Vanish, Rows
<1>27. CASE Exit
  BY <1>27 DEF Exit, Vanish, Rows
<1>28. CASE Boot
  BY <1>28 DEF Boot, Rows
<1>29. CASE ReconcileFails
  BY <1>29 DEF ReconcileFails, Process, Rows
<1>30. CASE Serve
  BY <1>30 DEF Serve, Process, Rows
<1>31. CASE UNCHANGED vars
  BY <1>31 DEF Rows, OwnMessages
<1>32. QED
  BY <1>1, <1>2, <1>3, <1>4, <1>5, <1>6, <1>7, <1>8, <1>9, <1>10, <1>11, <1>12, <1>13,
         <1>14, <1>15, <1>16, <1>17, <1>18, <1>19, <1>20, <1>21, <1>22, <1>23, <1>24,
         <1>25, <1>26, <1>27, <1>28, <1>29, <1>30, <1>31 DEF Next

\* Every step keeps Told.
LEMMA ToldStep ==
  ASSUME TypeOK, Process, Tasks, Told, [Next]_vars
  PROVE  Told'
<1> USE BoundAssumption, AgentAssumption DEF vars, taskVars, storeVars, counters, Goto
<1>1. ASSUME NEW t \in Thread, NEW a \in Agent, Chat(t, a) PROVE Told'
  BY <1>1 DEF Chat, Launch, Guarded, Told, LastIsStart, Registered
<1>2. ASSUME NEW t \in Thread, CheckResume(t) PROVE Told'
  BY <1>2 DEF CheckResume, Told, LastIsStart
<1>3. ASSUME NEW t \in Thread, Resume(t) PROVE Told'
  BY <1>3 DEF Resume, Launch, Guarded, Told, LastIsStart, Registered
<1>4. ASSUME NEW t \in Thread, RefuseResume(t) PROVE Told'
  BY <1>4 DEF RefuseResume, Told, LastIsStart, IsRunning
<1>5. ASSUME NEW t \in Thread, Cancel(t) PROVE Told'
  BY <1>5 DEF Cancel, Told, LastIsStart
<1>6. ASSUME NEW t \in Thread, RecordStart(t) PROVE Told'
  <2>1. Notify(t, "started") /\ "started" \in Terminal \cup {"started"}
    BY <1>6 DEF RecordStart
  <2>2. Alternates(events[t]) /\ (events[t] = <<>> \/ ~LastIsStart(t))
    BY <1>6 DEF RecordStart, Told
  <2>3. /\ events' = [events EXCEPT ![t] = Append(events[t], "started")]
        /\ events \in [Thread -> Seq(Terminal \cup {"started"})]
    BY <2>1 DEF Notify, TypeOK
  <2>4. Alternates(events'[t]) /\ (LastIsStart(t)' <=> "started" = "started")
    BY <2>1, <2>2, <2>3, AppendAlternates DEF LastIsStart
  <2>5. \A u \in Thread \ {t} : events'[u] = events[u]
    BY <2>3
  <2>6. QED
    BY <1>6, <2>4, <2>5 DEF RecordStart, Told, TypeOK, LastIsStart, Process
<1>7. ASSUME NEW t \in Thread, Seed(t) PROVE Told'
  BY <1>7 DEF Seed, Told, LastIsStart, IsRunning
<1>8. ASSUME NEW t \in Thread, Start(t) PROVE Told'
  BY <1>8 DEF Start, Guarded, Told, LastIsStart, IsRunning
<1>9. ASSUME NEW t \in Thread, StartFails(t) PROVE Told'
  BY <1>9 DEF StartFails, Close, Guarded, Told, LastIsStart, IsRunning
<1>10. ASSUME NEW t \in Thread, SeeStop(t) PROVE Told'
  BY <1>10 DEF SeeStop, Close, Guarded, Told, LastIsStart, IsRunning
<1>11. ASSUME NEW t \in Thread, SeeEnd(t) PROVE Told'
  BY <1>11 DEF SeeEnd, Guarded, Told, LastIsStart, IsRunning
<1>12. ASSUME NEW t \in Thread, ReplaceDelete(t) PROVE Told'
  BY <1>12 DEF ReplaceDelete, Guarded, Told, LastIsStart, IsRunning
<1>13. ASSUME NEW t \in Thread, ReplaceAdd(t) PROVE Told'
  BY <1>13 DEF ReplaceAdd, Guarded, Told, LastIsStart, IsRunning
<1>14. ASSUME NEW t \in Thread, FinalizeFails(t) PROVE Told'
  BY <1>14 DEF FinalizeFails, Close, Guarded, Told, LastIsStart, IsRunning
<1>15. ASSUME NEW t \in Thread, SaveRest(t) PROVE Told'
  BY <1>15 DEF SaveRest, Guarded, Told, LastIsStart, IsRunning
<1>16. ASSUME NEW t \in Thread, RecordEnd(t) PROVE Told'
  BY <1>16 DEF RecordEnd, Guarded, Process, Told, LastIsStart
<1>17. ASSUME NEW t \in Thread, Finish(t) PROVE Told'
  <2>1. Notify(t, out[t]) /\ out[t] \in Terminal \cup {"started"}
    BY <1>17 DEF Finish, Tasks
  <2>2. Alternates(events[t]) /\ (events[t] = <<>> \/ (out[t] = "started" <=> ~LastIsStart(t)))
    BY <1>17 DEF Finish, Told, Tasks, Guarded, Terminal
  <2>3. /\ events' = [events EXCEPT ![t] = Append(events[t], out[t])]
        /\ events \in [Thread -> Seq(Terminal \cup {"started"})]
    BY <2>1 DEF Notify, TypeOK
  <2>4. Alternates(events'[t]) /\ (LastIsStart(t)' <=> out[t] = "started")
    BY <2>1, <2>2, <2>3, AppendAlternates DEF LastIsStart
  <2>5. \A u \in Thread \ {t} : events'[u] = events[u]
    BY <2>3
  <2>6. QED
    BY <1>17, <2>4, <2>5 DEF Finish, Told, TypeOK, Guarded, Terminal, LastIsStart, Process
<1>18. ASSUME NEW t \in Thread, FinalizeMessage(t) PROVE Told'
  BY <1>18 DEF FinalizeMessage, Told, LastIsStart, IsRunning
<1>19. ASSUME NEW t \in Thread, SaveMessage(t) PROVE Told'
  BY <1>19 DEF SaveMessage, Told, LastIsStart, IsRunning
<1>20. ASSUME NEW t \in Thread, Checkpoint(t) PROVE Told'
  BY <1>20 DEF Checkpoint, Told, LastIsStart, IsRunning
<1>21. ASSUME NEW t \in Thread, AgentFails(t) PROVE Told'
  BY <1>21 DEF AgentFails, Told, LastIsStart, IsRunning
<1>22. ASSUME NEW t \in Thread, NEW pause \in BOOLEAN, AgentEnds(t, pause) PROVE Told'
  BY <1>22 DEF AgentEnds, Told, LastIsStart, IsRunning
<1>23. ASSUME NEW t \in Thread, KillTask(t) PROVE Told'
  BY <1>23 DEF KillTask, Close, TypeOK, Guarded, Told, LastIsStart
<1>24. ASSUME NEW t \in Thread, Reconcile(t) PROVE Told'
  <2>1. Notify(t, "cancelled") /\ "cancelled" \in Terminal \cup {"started"}
    BY <1>24 DEF Reconcile, Terminal
  <2>2. Alternates(events[t]) /\ (events[t] = <<>> \/ LastIsStart(t))
    BY <1>24 DEF Reconcile, Stale, Told
  <2>3. /\ events' = [events EXCEPT ![t] = Append(events[t], "cancelled")]
        /\ events \in [Thread -> Seq(Terminal \cup {"started"})]
    BY <2>1 DEF Notify, TypeOK
  <2>4. Alternates(events'[t]) /\ (LastIsStart(t)' <=> "cancelled" = "started")
    BY <2>1, <2>2, <2>3, AppendAlternates DEF LastIsStart
  <2>5. \A u \in Thread \ {t} : events'[u] = events[u]
    BY <2>3
  <2>6. /\ pc' = pc /\ proc' = proc /\ proc = "booting" /\ pc[t] = "none"
        /\ ~(IsRunning(t) /\ lost[t] # "now")'
        /\ \A u \in Thread \ {t} : meta'[u] = meta[u] /\ lost'[u] = lost[u]
    BY <1>24 DEF Reconcile, TypeOK, IsRunning, Process
  <2>7. QED
    BY <2>4, <2>5, <2>6 DEF Told, LastIsStart, IsRunning, Guarded
<1>25. CASE Shutdown
  BY <1>25 DEF Shutdown, Told, LastIsStart
<1>26. CASE Crash
  BY <1>26 DEF Crash, Vanish, Guarded, Told, LastIsStart, Alternates, Starts
<1>27. CASE Exit
  BY <1>27 DEF Exit, Vanish, Guarded, Told, LastIsStart, Alternates, Starts
<1>28. CASE Boot
  BY <1>28 DEF Boot, Told, LastIsStart
<1>29. CASE ReconcileFails
  BY <1>29 DEF ReconcileFails, Told, LastIsStart
<1>30. CASE Serve
  BY <1>30 DEF Serve, Told, LastIsStart
<1>31. CASE UNCHANGED vars
  BY <1>31 DEF Told, LastIsStart, IsRunning
<1>32. QED
  BY <1>1, <1>2, <1>3, <1>4, <1>5, <1>6, <1>7, <1>8, <1>9, <1>10, <1>11, <1>12, <1>13,
         <1>14, <1>15, <1>16, <1>17, <1>18, <1>19, <1>20, <1>21, <1>22, <1>23, <1>24,
         <1>25, <1>26, <1>27, <1>28, <1>29, <1>30, <1>31 DEF Next

\* The initial state satisfies the invariant.
LEMMA InitIInv == Init => IInv
<1> SUFFICES ASSUME Init PROVE IInv
  OBVIOUS
<1> USE BoundAssumption, AgentAssumption
<1>1. TypeOK
  BY DEF Init, TypeOK, NoRun, NoMeta, Stage, Terminal
<1>2. Process /\ Tasks
  BY DEF Init, Process, Tasks
<1>3. Told
  BY DEF Init, Told, LastIsStart, Alternates, Starts, Guarded
<1>4. Rows /\ RunningThreadsHaveRuns /\ InterruptedMeansWaiting
  BY DEF Init, Rows, RunningThreadsHaveRuns, InterruptedMeansWaiting, IsRunning, NoMeta
<1>5. QED
  BY <1>1, <1>2, <1>3, <1>4 DEF IInv

\* The inductive invariant holds in every behaviour: what each stage of a run
\* task knows to be stored, registered and told (_run_agent, reconcile_stale_runs).
THEOREM Invariance == Spec => []IInv
<1>1. IInv /\ [Next]_vars => IInv'
  BY TypeStep, ProcessStep, TasksStep, ToldStep, RowsStep, RunningStep, WaitingStep DEF IInv
<1>2. QED
  BY InitIInv, <1>1, PTL DEF Spec

\* The types of the registry, the task, the stores and the notifications.
THEOREM TypeCorrect == Spec => []TypeOK
<1>1. IInv => TypeOK
  BY DEF IInv
<1>2. QED
  BY Invariance, <1>1, PTL

\* A listed thread that shows `running` while the server serves has a run, for
\* any number of threads, runs, crashes and failures (reconcile_stale_runs).
THEOREM RunningIsRunning == Spec => []RunningThreadsHaveRuns
<1>1. IInv => RunningThreadsHaveRuns
  BY DEF IInv
<1>2. QED
  BY Invariance, <1>1, PTL

\* A thread shown as `interrupted` is paused on an interrupt (_run_agent).
THEOREM InterruptedIsWaiting == Spec => []InterruptedMeansWaiting
<1>1. IInv => InterruptedMeansWaiting
  BY DEF IInv
<1>2. QED
  BY Invariance, <1>1, PTL

\* In every ending the stores are written before the world is told (_run_agent).
THEOREM StoredFirst == Spec => []StoredBeforeTold
<1>1. IInv => StoredBeforeTold
  BY DEF IInv, Tasks, Rows, StoredBeforeTold
<1>2. QED
  BY Invariance, <1>1, PTL

\* The notifications of a thread tell whether it has a run (_run_event).
THEOREM NotificationsAreTrue == Spec => []NotificationsTellActivity
<1>1. IInv => NotificationsTellActivity
  <2> SUFFICES ASSUME IInv, NEW t \in Thread
               PROVE  /\ Alternates(events[t])
                      /\ pc[t] \notin {"recording", "dead"} => (LastIsStart(t) <=> Registered(t))
    BY DEF NotificationsTellActivity, LastIsStart
  <2>1. pc[t] \in Stage
    BY DEF IInv, TypeOK
  <2>2. QED
    BY <2>1 DEF IInv, Told, Stage, Registered
<1>2. QED
  BY Invariance, <1>1, PTL

=============================================================================
