# Formal verification of ai-backend

TLA+ models of the chat back end in this repository (FastAPI, asyncio,
langgraph), TLC configurations that check them on small instances, and TLAPS
proofs of the properties that matter most.  Paths below are relative to `src/`
of the repository; `core/`, `services/` and `api/` stand for `src/app/core/` etc.

The process is one asyncio event loop: code between two `await`s is atomic, and
everything else interleaves.  That is the unit of all the models: **an action is
what a handler or a task does between two awaits**, with the awaits of one step
merged only where nothing else touches the same state (the comment at the action
says so).  Worker threads (`asyncio.to_thread`) matter for git alone, and
`WorkspaceGit` has them; a second worker process is outside.

## 1. The system

| Part | State | Operations | Talks to |
|---|---|---|---|
| Run registry (`core/run_manager.py`) | `_runs`, and for each run the `stop` and `done` events and the subscriber queues | start, get, cancel, subscribe, unsubscribe, publish, finish | run task, streams, cancel/attach endpoints |
| Run task (`services/chat.py`, `_run_agent`) | its stage, `finalized`, the pump's queue | record status, seed history, start the agent, pump, four endings | registry, stores, notification hub, workspace, agent runtime |
| Streams (`_stream_subscription`) | position in the generator, the queue | open, emit, drain, detach | registry |
| Chat, resume, cancel, attach endpoints (`api/v1/endpoints/chat.py`) | none of their own | checks, then `agent_stream` / `cancel` / `attach_stream` | metadata, checkpoints, registry |
| Start-up reconciliation (`reconcile_stale_runs`) | none | marks stale threads cancelled | users, metadata, registry, hub |
| Thread metadata, titles, shares, deletion (`endpoints/chat.py`, `services/share.py`) | `("threads", user)` and the share namespace of the store | rename, title, follow-up, share, revoke, delete, delete all | run task (writes the same rows), LLM |
| Notification hub (`core/notification_hub.py`) | per user: ring buffer, sequence number, subscriber queues | publish, subscribe with replay, unsubscribe, recent | run task, notification stream |
| Chat history (`core/database.py`) | `chat_messages` rows | add (dedup by id), replace, delete, list | run task, endpoints |
| Workspace skills (`services/workspace.py`, `resources.py`) | skills in the store, the mirror directory, snapshot and generation per user, a lock per user | materialize, sync back, user CRUD | run task, agent's file tools, API |
| Run pump (`services/chat.py`, `consume_*`, `drain`) | a queue of 256, the consumers' brackets | put, take, stop, sentinel | agent runtime, run registry |
| AI SDK translation (`services/ai_sdk_chat.py`) | open parts of one stream | event to chunks | streams, client |
| Knowledge base (`endpoints/kb.py`, `services/kb/*`, `KbStore`) | bases, documents, vectors, quota | create, upload, ingest, reindex, delete | vector store, embeddings service, agent tool |
| Agent registry (`services/agent.py`) | graph cache | resolve, build, evict, invalidate | chat endpoints, connections, MCP |
| Provider connections (`services/connections.py`) | rows, resolved defaults of the process | create, update, delete, refresh | registry, vector store |
| Agent configs (`services/agent_configs.py`) | configs, skill snapshots | create, update, delete | skills, registry |
| Model allowlist (`services/model_allowlist.py`) | one setting | set, clear, check of a chat and of a config | configs, connections, accounts |
| Runtime settings (`services/settings.py`) | rows and a process-wide copy | partial update | agent tools |
| MCP sessions (`services/mcp.py`) | instances, sessions, owner tasks, close events per user | connect, get, reload, close | agent registry |
| Accounts (`endpoints/auth.py`, `core/dependencies.py`) | users, roles | register, update, delete, seed the admin | all endpoints |
| Login limiter (`core/rate_limit.py`) | times of failures per key | check, record | login |
| Preferences (`endpoints/preferences.py`, `setup.py`) | one row per user | set and clear keys, onboarding | streams, web search |
| Start-up and migrations (`main.py`, `Persistence`, `core/migrations.py`, `services/resources.py`) | pool, back end of every store, `schema_migrations`, legacy pools | start, fall back, migrate, fold, stop | all stores |
| Workspace git (`services/workspace.py`) | index, last commit, remote, lock files | commit at run ends and at user changes | run task, accounts |

What is hard about it:

* **Interleaving.** A run outlives its HTTP stream; clients attach, lag and leave
  while it publishes; cancels, resumes and deletions hit it at any await; runs of
  one user share a directory and a snapshot.
* **Stale reads.** The skills are read before the lock, the metadata before an LLM
  call, the waiting check before the resume.
* **Crash and shutdown.** Runs live in memory only; the stores keep what they wrote.
  The lifespan closes the stores *before* the loop cancels the run tasks.
* **Partial failure.** Metadata and history writes are swallowed when they fail;
  `replace_messages` is two statements; one skill's writeback may fail alone.
* **Statements without transactions.** Rows and vectors live in two stores; the
  default of a kind is cleared and set by two statements, a preference is read
  and written back; whether a list exists and what is on it are two reads.
* **Bounds.** Queues of 256 and 128, a replay ring of 200, pages of ten items.

What makes the parts correct: the ending of a run reaches everyone who watches it
(fan-out); what the stores and notifications say about a thread agrees with
whether it has a run, through every ending, crash and restart (run lifecycle);
no finalized message is lost (history); a run's end writes back the skills that
agents changed, all of them and nothing else (skills); a status or a share token
is not overwritten by a slow request (metadata); no vector without a document
(knowledge base); no graph built from connections or tools that were replaced
(registry); a snapshot that is what the config lists (configs); no grant that the
allowlist never gave; no session without an owner (MCP); always an enabled admin
(accounts); one back end for everything, whatever the start met (start-up); what
is on disk is in the last commit (git).
`PROJECT.json` lists the hazards, each at its line with the properties that
would catch it.

## 2. Modules

| Module | What it is | Run |
|---|---|---|
| `RunStream` | abstract: an append-only log with one ending, readers that see increasing positions and may miss deltas, and whose stream ends only after they saw every terminal event | (refined by `RunFanout`) |
| `RunFanout` | the queues of `RunManager` and the generator `_stream_subscription` | `RunFanout` |
| `RunFanout_proofs` | proofs about it | |
| `RunLifecycle` | chat, resume, cancel, the run task's stages, the process and its restart, with the stores they leave behind | `RunLifecycle` and three violations |
| `RunLifecycle_proofs` | proofs about it | |
| `ThreadRecord` | one thread's metadata row, share links, history and checkpoint under the requests that edit them | `ThreadRecord` and one violation |
| `MCThreadRecord` | symmetry and the constraint for its run | |
| `SkillSync` | the files of the skills in the store and their mirror directory under overlapping runs | `SkillSync` and one violation |
| `MCSkillSync` | symmetry for its run | |
| `ThreadRecord_proofs` | proofs about `ThreadRecord` | |
| `KnowledgeBase` | rows, vectors and quota under uploads, reindexes and deletions | `Services` and one violation |
| `KnowledgeBase_proofs`, `MCKnowledgeBase` | proofs about it; constants of the violation | |
| `SdkStream` | pure: events to chunks, chunks to the client's open parts | (used by `RunPump`) |
| `RunPump`, `RunPump_proofs` | consumers, bounded queue, loop, stop, and a client behind `SdkStream`; proofs | `Services` |
| `NotificationHub` | one user's ring, queues and reconnecting clients | `Services` |
| `Connections` | connection rows and the resolved defaults | `Services` |
| `AgentRegistry` | EXTENDS `Connections`: the graph cache over connections and tools | `Services` |
| `AgentConfigs` | a config and its skill snapshot | `Services` |
| `ModelAllowlist` | the list, and the two checks against it | `Services` |
| `AppSettings`, `MCAppSettings` | a setting's row, copy and effective values; constants | one violation |
| `McpSessions` | instances, sessions, owner tasks of one server | `Services` |
| `Agents_proofs` | proofs about `Connections`, `AgentRegistry`, `AgentConfigs`, `McpSessions` | |
| `Accounts` | user rows, authorised requests, the seeded admin | `Services` |
| `LoginLimiter` | the failures of one key and the logins around them | `Services` |
| `Preferences` | one user's row under patches and onboarding | `Services` |
| `Startup` | start, fall-back, migrations, legacy pools, stop and death | `Services` |
| `Services_proofs` | proofs about `Accounts`, `ModelAllowlist`, `Preferences`, `LoginLimiter`, `Startup`, `NotificationHub` | |
| `WorkspaceGit` | git commands of run ends and of user changes, with lock files | `Services` |
| `Workspace_proofs` | proofs about `SkillSync` and `WorkspaceGit` | |
| `MCServices` | the modules above in one run, one at a time | `Services` |

### RunFanout

`log` is the history of everything published; an event is its position, so order
and loss can be stated.  `over` is `ActiveRun.done` (and the absence from the
registry: `finish` flips both at once), `subscribers` and `queue` are the code's.
`stream` is where each client's generator is: not created, awaiting the display
preferences (before its `try`), waiting on queue or `done`, draining, returned,
or closed by the client.  The wait loop's `asyncio.wait` returns with an item
(`Take`), or with `done` and possibly an item (`SeeDone`).  The last publishes of
a run and `finish` have no await between them and are one action; an error event
before them is one of the deltas.  A client that leaves before the `try` stays
subscribed (`DetachEarly`), as in the code.

### RunLifecycle

`pc` is the await at which a thread's run task stands; `"none"` means that the
registry has no run.  `meta`, `history`, `ckpt`, `waiting` and `pausedBy` are what
survives a crash: the metadata's status and agent, the ids of the history rows,
those of the checkpoint, whether the graph waits on an interrupt and which
agent's graph it was.  Each store call is one action; `_record_thread_metadata`'s
read and write are one because only the run task writes the row here.  A store
call may fail (`StoreFails`, at most `MaxFaults` times while serving, any time
while the process is stopping, because the stores are closed by then) and the
failure is swallowed or turns the run to `failed`, as the code does.  `KillTask`
is the `CancelledError` of a shutdown: inside the `try` it ends the run as
cancelled, before it the task just dies and leaves `running` behind.  `Crash`
and `Exit` erase memory; `Boot`, `Reconcile`, `ReconcileFails` and `Serve` are
the lifespan's start.  `Reconcile` passes one thread: its write may fail, which is
swallowed, and the cancellation is published all the same; `ReconcileFails` is a
failing listing, which ends the loop for all threads that are left.  `lost` is a history variable: the last metadata write of
the thread failed in this process (`now`) or in an earlier one.

The agent is the environment: it may finalize a message (one per run), save it,
checkpoint ahead of its consumers or behind them, end, pause, break, fail to
start, or hang.  `run.output()` is taken to return the final state; the fall-back
to the finalized messages, for runtimes that raise `GraphInterrupt` there, is not
modelled.  A cancelled run's graph is taken to stop checkpointing with its consumers.

### ThreadRecord

`RunLifecycle` takes the run task to be the only writer of the metadata row;
`ThreadRecord` has the others, for one thread.  A request is the sequence `todo`
of the store calls it has yet to make, and `value` is the row it has read: every
writer reads the row, edits its copy and writes the whole back.  `Begin` is the
request up to its first wait after the read, so the guards (404) are those of the
read.  Rename, title and follow-up differ only in their guards, since the title
itself is not kept.  `Fail` ends a request at any call with an error; `Crash` ends
them all.  The run is `"starting"`, `"active"` or `"ending"` between the reads and
writes of `_record_thread_metadata`, and stores rows and checkpoints while active.

Four history variables say which of the accidents the code does not exclude have
happened, so that the properties can say what holds without them: `clobbered` (an
update of the row was lost), `crossed` (a share and the removal of a link were in
flight together), `cut` (a revocation ended between its two calls) and `strayed`
(a run beside a deletion, or one that failed to make its row).  None of them
guards an action.

### SkillSync

A tree gives each skill its files, SKILL.md and the bundled ones; the content of a
file is a version and, of SKILL.md, the skill that its frontmatter names.  `edits`
numbers the edits of agents and user, so equal contents mean equal files (the code
compares hashes).  `mirror` is `_skill_generations` and `_skill_snapshots`, `holder`
is the lock where it is held across an await.  `Read` is the store read before the
lock, `Materialize` the critical section, which a named agent's run enters with
another target directory.

The writeback merges, as the code does.  `BeginSync` reads the directory
(`_skills_on_disk`), `SyncOne` compares one skill with the snapshot and plans what
is to be written of it (`plan`), and `WriteFile` is one put or delete: SKILL.md first,
then the other files, then the removals, into the skill that the frontmatter names
(`Target`).  A bundled file that the store alone has is kept (`update_skill` keeps
unlisted files), unless the skill's directory is gone, which deletes all files of it.
`SyncOneFails` gives up the rest of a skill.  `UserWrites`, which takes no lock, and
`AgentWrites` of other runs come in between.  An agent may rename a skill in its
frontmatter and two directories may name one skill.  The store's default page of ten
items is taken to hold all files.  `MCSkillSync` adds the symmetry of the run.

### RunPump and SdkStream

`SdkStream` is `sdk_stream` as two pure functions, `Yield` (the chunks of an event)
and `After` (the loop's variables), and the protocol its docstring promises as a
third, `Accept`, which keeps the parts a client has open and notes every chunk that
has no place.  `RunPump` produces the events: `pipe` and `pipe_reasoning` of a
message side by side, tool calls and subagents beside it, all putting into one
bounded queue (`Put` waits while it is full), `drain` adding the sentinel when all
are over, and the loop taking out or stopping.  What a slow client's own queue
loses is `RunFanout`'s; here a delivered event may be lost (`lost`), the terminal
`done` never.  The three input chunks of a tool call are one start.  `mute` are
messages whose output could not be read: the code then sends no `message`.

### KnowledgeBase

A document is its base, path and how-manieth upload; a row has a status or is
`deleted`.  A request is its next call: `"file"` (the loop of an upload), `"start"`
(mark `processing`), `"ingest"` (parse, embed, upsert), `"ready"` or `"failed"` (the
last status), `"fetch"` and `"sweep"` (a reindex), `"row"` (a deletion whose vectors
are gone).  `pooled` says whether the rows are in Postgres, whose
`get_document_content` has no owner, so that a reindex ends between its sweep and
its ingest.  Any call to the vector store may fail, and a failed upsert may have
stored some chunks.  `exposed` notes the documents that two requests worked on at
once, `emptied` those a reindex swept and could not ingest, `crowded` that uploads
overlapped.

### NotificationHub

An event is its number.  `recent` is the ring, `inbox` the queue of a connected
client, `last` its `since`; `seen`, `first` and `missed` are history variables: what
it got, the first number it could get, and whether a full queue, a ring that had
turned over or a restart under an old `since` hit it.

### Connections and AgentRegistry

A row's content is the number of the write that made it, so a stale one can be
told.  A request is the code's sequence of statements: look again, clear the other
defaults, write, then for each kind ask for the default and store the answer.
`raced` notes that the writes of two requests crossed, `spoiled` that one ended
between its write and its refresh.  `AgentRegistry` adds the cache: a chat that
misses selects tools (connecting them when nobody has), resolves its model and
inserts; between these it awaits, and `invalidate` may pass (`overtaken`).  The key
covers the spec, so a graph can be stale only in connection and tools.

### AgentConfigs and ModelAllowlist

`AgentConfigs` has `sync_agent_skills` call by call: list the snapshot (a page),
delete it file by file, look up each skill, copy its SKILL.md, search (a page) and
copy the bundled files, and write the config last.  `exact` says that the last
request was neither disturbed nor cut.  `ModelAllowlist` has a chat's path: two
reads of the config, the role, whether there is a list, what is on it, and the
registry's second load.  Each request in flight carries what it lived through
(`Lived`): the models that were fit or off the list at some time, so that a check
on old values is told from a wrong one.

### McpSessions

Instances of `MCPServers`, each with its lock, cached session and owner task; a
session is opened under the lock and closed by telling its task and waiting.
A call that fails (the server is unknown by then, the transport does not come up, the
tool call breaks) closes whatever session is registered under the name before it
answers 502 (`GiveUp`, `Refuse`, `CallTool`); a client that goes away is no failure
that `call_tool` sees, and leaves a failed task registered (`Abandon`).
`slipped` are the sessions that were opening when all were closed.  The tools that
agents get from the same instances are `AgentRegistry`'s.

### Accounts and LoginLimiter

A request of an admin is authorised in one step and applied in a later one; `stale`
notes that its author was no enabled admin any more when it changed a row.  A
restart keeps the rows (`durable`) or loses them, and seeds or promotes the default
admin.  In `LoginLimiter` a login is checked, waits for the user's row and is
recorded; `since` and `blame` remember what the code's pruned list no longer has.

### AppSettings and Preferences

`AppSettings` takes a partial PUT over a row that may be absent, the copy in the
process cleared and filled again, and the effective value with its fall-back to the
environment.  `Preferences` sets a key in one statement and clears one in two.

### Startup

`backing` is what each of the eight stores keeps its rows in.  The steps of
`Persistence.start` are awaits at which the process may die or the step raise,
which falls back to memory; then the two legacy pools are searched, copied,
searched again and swept.  The database (`ran`, `versions`, `legacy`, `owned`)
outlives the process.  A migration file and its row in `schema_migrations` are one
transaction, hence one action.

### WorkspaceGit

A commit is a list of git commands, each of which takes the lock file of the index,
of the config or of HEAD, fails at once when it is taken, and leaves it behind when it
is killed after its 30 seconds.  `git commit` is two of them: it locks the index while it
refreshes it, having read HEAD, and releases it; then it reads the index, locks HEAD and
moves it, unless another commit has moved it meanwhile (`overtaken`), or there is nothing
to commit (`CommitNothing`).  So a commit can fail without meeting a lock file, and one
that finds nothing to do can pass another that is about to commit an older index;
`disturbed` notes either.  Runs commit from worker threads, user changes on the
event loop (nothing else happens on the loop meanwhile: `LoopFree`).  Staging is
not atomic: a file that changes while `add` scans may be seen or missed.

### MCServices

These services share no state, so their product would multiply states and show
nothing.  `focus` is chosen in the initial state and only that component takes
steps: the behaviours of the run are those of the components, one at a time.
`connections` explores the connection requests alone with wider bounds, `registry`
explores them under the cache with `RegistryBounds`.

## 3. Runs

| Run | Instance | States | Shows |
|---|---|---|---|
| `RunFanout` | 2 clients (one of the starting request), queue of 2, 4 deltas | 51 thousand | order, no lost ending, no silent loss, streams close, refinement of `RunStream` |
| `RunLifecycle` | 1 thread, 1 agent, 2 runs, 1 crash or shutdown, 1 store failure | 544 thousand | metadata and notifications agree with what runs; stored before told; cancelled runs end |
| `SkillSync` | 2 skills of 2 files, 2 own runs and 1 of a named agent, 2 edits by anyone | 1.5 million | only changed skills are rewritten, and every edit and deletion is stored |
| `ThreadRecord` | 2 requests at a time, any number after each other, 2 tokens, 1 crash, any number of failing calls | 4.1 million | links stay with their rows, shares repair, deletions leave nothing unlisted |
| `ThreadRecord_links` | the same without crashes | violation | a lost update leaves a link nobody can revoke |
| `RunLifecycle_resume` | 2 agents, 3 runs | violation | a resume records the agent `default` |
| `RunLifecycle_replace` | 2 runs, no crash, no failure | violation | a completed run deletes a cancelled run's message |
| `RunLifecycle_unlisted` | a thread reconciliation cannot see, 1 run, 1 crash | violation | it stays `running` |
| `SkillSync_named` | as `SkillSync` | violation | a named agent's run rewrites unchanged skills |
| `Services` | see below | 1.6 million | the twenty properties of the services |
| `KnowledgeBase_reindex` | 1 document, 2 requests one after the other | violation | a reindex under Postgres empties its documents |
| `AppSettings_partial` | 1 request at a time, `execute` enabled by the environment | violation | a partial update resets what it left unset |

Why the bounds are enough to meet the interesting cases.  A queue of two is the
smallest that can hold both events of a pausing ending (with one, `done` would
evict `interrupt`; the proof needs `Cap >= 2`, the code has 256), and four deltas
overflow it and let it drain again.  Clients do not interact except through the
publishing run, so a second one adds only the late attach.  Threads share the
process and nothing else, so one is enough; two runs give a resume after a pause,
a run after a cancelled one and a run after a restart, one crash every point at
which to stop.  Three runs are needed for the second resume.  In
`ThreadRecord` two requests in flight and the run are three writers of a row; two
tokens give a second share after a revocation, and requests and tokens are
interchangeable (`SYMMETRY`).  Its `CONSTRAINT` leaves out what follows a run astray
*and* a share crossed: both flags stay up, and they excuse the conclusions of
`NothingOutlivesItsRow`, `LinksAreNamed` and `AnswersResolve`.  Two own runs and a
named one give every overlap of generations; the store may hold skills from earlier, so
two edits give an agent's edit with a user's before, during or after its writeback, a
rename onto another skill, and a bundled file added and removed again.

`Services` gives each component the smallest instance in which its hazards meet.
Knowledge base: one base, a file with text and one without, sizes 1 and 2 against a
quota of 2 (so one upload can overshoot and two can crowd), two requests in flight,
three in all, one crash.  Pump: a queue of two, a message with text and reasoning, a
tool call, one delta each: the queue fills, every producer blocks, and the stop
finds every state.  Hub: a ring of three, a queue of two, five events, one restart:
the queue overflows, the ring turns over, numbers begin again.  Connections: two
names of two kinds, two requests, three writes.  Registry: two resolutions, a cache
of one (so it evicts), one tool change, two connection writes.  Configs: two skills
of two files and a page of three, which four files exceed; two requests.  Accounts:
root and one more, two requests in flight of four.  Tool servers: two requests, two
instances, two sessions, one change.  Start-up: two migration files, two legacy
names per pool and a page of one, three starts.  Allowlist: two models, a chat and a
config request in flight, two changes by admins.  Preferences: two keys, two
requests in flight of three.  Logins: two in flight, two attempts in a window of two
ticks, four ticks.  Git: one directory, two runs, two changes, one killed command.
Larger instances of single components hold as well: three tool-server requests over
three sessions (7.9 million states), three config requests (3.2 million), three admin
writes over two free allowlist requests (12 million), three accounts (358 thousand).

Deadlock is not checked: a server without requests (and a run that is over, in
`RunFanout`) may rest for ever.

### Fairness

`RunFanout`: weak fairness of the server's part of each open stream (`Serve`).  The
event loop runs every task that is ready; nothing obliges the agent to publish or
a client to stay.  `RunLifecycle`: weak fairness of the run task's own steps
(`RunStep`) and of restart and reconciliation.  This takes the calls that open the
agent's stream and read its final state to return or raise (they do not wait for
the model: the stream is consumed elsewhere).  No fairness for finalizing, ending,
failing or for any request: a cancelled run must end even when its agent hangs
(`CancelledRunsEnd`).  `RunPump`: weak fairness of the loop (`Pump`) and of the ending
(`Finish`), which the event loop runs when they are ready, and none of a consumer,
since the model may say nothing more: a stop must end the client's stream even so
(`StopEndsTheStream`).  The other services have safety properties only.

### Disagreements found

Seven runs end in a counterexample, each of a sentence of the repository; they are
listed with their traces' gist under `findings` in `PROJECT.json`: the agent recorded
by a resume, a share link that a lost update hides from its owner, the history of a
cancelled run, threads that reconciliation does not look at, named agents' runs that
rewrite the user's skills, a reindex that empties the vector store under Postgres,
and a partial settings update that turns `execute` off.

Beside them, every property that needs a history variable as its excuse names an
accident the code does not exclude; the excuse is as narrow as the model allows, and
the `hazards` of `PROJECT.json` say what happens then.

## 4. Proofs

Every safety property of a passing run is a theorem: the run shows it on the small
instance of section 3, the theorem for all values of the constants.

`RunFanout_proofs` proves, for every set of clients, every capacity of at least
two and every length of run: types with the queue bound (`TypeCorrect`), order
(`Order`), delivery of the terminal events (`TerminalDelivery`), complete endings
(`CompleteEnding`), no loss without a full queue (`Lossless`) and that `RunFanout`
implements `RunStream` (`Refinement`).  The inductive invariant is

    IInv == TypeOK /\ LogShape /\ IdleClean /\ Bookkeeping /\ (the three properties)

`LogShape` says that the log holds only deltas until it is over and ends with one
of the two endings; it is what makes the eviction safe: when `done` evicts the
head of a full queue, the head is an older event than the `interrupt` that was
queued last, because the queue holds two or more in increasing order (lemma
`HeadNotNewest`).  `Bookkeeping` bounds positions by the log, and `IdleClean` says
that a client that has not attached has nothing.  The refinement follows from the
same invariant: a step that takes an item is `See`, which needs order; the end of
a stream is `End`, which needs the delivered terminals; eviction and dropping are
stutters.  `OnlyFullQueuesLose` is inductive beside `IInv`, whose `Bookkeeping` says that
a stream that runs is subscribed and one that has ended ended after the log was whole.

`Workspace_proofs` proves of `SkillSync`, for any sets of skills and runs: types and the lock
(`TypeCorrect`), `OnlyChangedSkills` and `DirectoryIsStored`, both action properties,
from

    IInv == TypeOK /\ GenerationsAreUnique /\ SyncIsCurrent
                   /\ CleanSkillsAreKnown /\ PlanIsOfChanged /\ SyncedFilesAreStored

`GenerationsAreUnique`: no two runs hold the generation of the snapshot.
`SyncIsCurrent`: the run that syncs does, and nobody materializes meanwhile.
`CleanSkillsAreKnown`: unless a materialization failed half way, a skill no agent
wrote is on disk exactly as the snapshot of a default agent's run knows it; this is
the reason the diff is right, and it fails for named agents, which is the finding.
`PlanIsOfChanged`: what is planned belongs to directories that changed, and while a
skill is unlooked at nothing of it is planned.  `SyncedFilesAreStored`: a file that
a changed directory owes its target is stored, or still in the plan, or excused, or the
directory is still to come; a write for another directory can undo it only by naming
the same skill.

Of `WorkspaceGit` it proves `WorkspaceTheorem`, for any users, workers and edits, from
`GitTypeOK /\ LocksAreHeld /\ RunsHaveNoCommands /\ RestCommits`.  `LocksAreHeld` says
that only a command under way holds a lock file, the one it needs;
`RestCommits` what an undisturbed workspace still owes before it is at rest: whoever
has commands left will stage what the disk has (`TreeIsAdded`), a commit that has yet to
read the index, or holds HEAD's lock having read it as it is, will move HEAD to it
(`IndexIsCommitted`), and the last to have removed the remote will add it.  The two halves
are apart because a commit may find nothing to do while another still has to move HEAD
(lemma `CommitNothingHolds`).

`RunLifecycle_proofs` proves, for any threads, agents, listed users and bounds:
types (`TypeCorrect`), `RunningIsRunning`, `InterruptedIsWaiting`, `StoredFirst` and
`NotificationsAreTrue`, from

    IInv == TypeOK /\ Process /\ Tasks /\ Told /\ Rows
                   /\ RunningThreadsHaveRuns /\ InterruptedMeansWaiting

`Process` says in which states of the process there are tasks at all.  `Tasks` is
the heart: for each stage a task can be at, what the metadata row says by then
(running with the run's agent after the first write, the outcome once the ending
has recorded it) unless that write failed.  Without it `RunningThreadsHaveRuns` is
not inductive: that a run leaves the registry only after its terminal status is
written is a fact about the order of its stages.  `Told` ties the last
notification to the stage, which makes `Alternates` inductive (lemma
`AppendAlternates`), and `Rows` says which of a run's messages are in the history
at each stage.  There is one lemma for each conjunct, with a step for each action.

`ThreadRecord_proofs` proves, for any requests in flight, tokens and crashes, types
(`RecordTypeTheorem`), `LinksTheorem`, `AnswersTheorem` and `DeletionTheorem`, from

    RecordInv == Types /\ (\A r : RequestHolds(r)) /\ Crossing /\ Straying
                   /\ RunHasRow /\ Linked /\ NothingOutlivesItsRow

`RequestHolds` says, for each list of calls a request can have left, what it has read
and written by then; `Linked` that a link is named by the row or held by the request
that will remove it; `Crossing` and `Straying` tie the history variables to the
requests in flight, so that without an accident a name can leave the row only
through a revocation or a deletion.

`KnowledgeBase_proofs` proves, for any bases, paths, sizes, quota, slots and crashes,
`OrphanTheorem`, `ReadyTheorem`, `ProcessingTheorem` and `QuotaTheorem`, the first three
from

    KbInv == Shape /\ OverlapExposes /\ (\A s : SlotKnows(s)) /\ (\A d : DocHolds(d))
               /\ ProcessingIsWorkedOn

A document that is not exposed is touched by one request at most (`OverlapExposes`), so
what that request knows of it at each call (`SlotKnows`) is not disturbed, and its last
call leaves what must hold when nobody works on it (`DocHolds`).  Each action is
first shown to be a `StepOf` its slot, which is all that the other slots' facts need.

`QuotaTheorem` is about sums.  What is stored and what each slot may still store
(`Spare`) together stay within one quota a slot, and within one quota in all until two
uploads meet (`QuotaInv`): an upload begins with no more than the quota leaves, storing
a file moves bytes from one side to the other, and every other step is `Gainless`.
`TotalBytes` is the library's fold over a set, a recursive function, and nothing can be
shown of it by induction here; the section on sums shows that such functions exist,
agree, and add up as sums should by looking at the smallest set that would be an
exception, which needs well-founded sets only (lemmas `SmallestSubset` to
`TotalIsBounded`).

`RunPump_proofs` proves `PartsTheorem` and `FinishTheorem`, for any queue bound, number of
messages, calls and deltas, and losses on the way to the client, from

    PumpInv == PumpTypes /\ Phases /\ Ordered /\ Placed /\ Started /\ Owed
                 /\ PartsAreWellFormed /\ FinishLeavesNothingOpen

The argument follows the events through the queue.  `Ordered`: the events of a consumer
are queued in the order of their numbers and come before what it will put.  `Placed`:
the translator and the client agree on which parts there are, and an event that would
misfit is neither queued nor to come.  `Started`, unless an event was lost: the start of
a tool call is ahead of its end.  `Owed`, unless one was lost or the run stopped: each
part that is open, or that a queued event will open, has its end in the queue behind
it or a consumer about to put it.  The client folds `Accept` over the chunks of an
event, one or two, and the fold is computed for these lengths (`FoldTwo`).

`Agents_proofs` proves, for any connections, tools, skills, sessions and requests in
flight:

* `DefaultTheorem`, from `OneDefault` (a kind has one default, and between a request's
  clearing and its write none but that request's) and `Resolving` (a resolved value that
  is not the table's will be resolved again by a request under way).
* `GraphTheorem`, on top of that: a cached graph is `Fresh`, or a request that is under way
  will drop all graphs (`Dirty`); a graph being built is so too, or it was overtaken.
* `SnapshotTheorem`, from `Reached`: how far a request that nothing disturbed has come in
  deleting and copying; two requests at once are both disturbed (`Alone`), and no config
  is called exact while one copies (`CopyingIsSeen`).
* `SessionTheorem`, from what each call holds at its step and `InstanceHolds`: an
  instance's session is cached, or the request that opens it has the lock.

`Services_proofs` proves of the small services, for any constants:

* `AdminTheorem`; the property is not inductive, since that an author survives its own
  request rests on what was refused when it was authorised (`NotOneself`).
* `GrantTheorem` and `DenialTheorem`, from what a request `Knows` after each of its reads:
  a role, a list or a config that it read was so at some time while it was in flight.
* `PreferenceTheorem`, from `ClearingsAreCurrent`: what a clearing has read of the other
  keys is still so, or they are spoilt.
* `LoginTheorem`: the failures that count and the logins past the check share the room
  under the cap (`LoginInv`), a matter of the cardinality of sets of failures.
* `BackendTheorem` and `LegacyTheorem`, from `FilesInOrder` (the migration files that ran are
  a prefix, in order, and the versions are theirs), `OpenedSoFar` (what each phase of the
  start has entered) and `PageIsCopied` (what the sweep takes, the owner has).
* `NotificationTheorem`, from `RingIsLast`: the ring holds the last numbers given, without a
  gap, so a replay after `since` is the rest of what the client has missed.

Assumptions on constants, all named: `StarterAssumption`, `CapAssumption`,
`MaxDeltasAssumption`; `NamedAssumption`, `NoRunAssumption`, `MdAssumption`, `EditsAssumption`;
`NoTokenAssumption`, `CrashAssumption`, `NoRowAssumption`; those of `RunLifecycle`, on its
model values and bounds; `KbAssumption`, `PumpAssumption`, `HubAssumption`,
`ConnAssumption`, `RegistryAssumption`, `McpAssumption`, `AccountAssumption`,
`AllowAssumption`, `PrefAssumption`, `LoginAssumption`, `StartupAssumption` and
`GitAssumption`, which say that bounds are numbers, that sets that are counted are
finite, that model values for "none" are not among the things they stand for, that
the default admin is an account and that queues, caches and pages have room for one.

Model-checked only: the liveness properties (`StreamsClose`, `CancelledRunsEnd`,
`StopEndsTheStream`), since fairness and `ENABLED` are out of the prover's reach.  The
properties of the runs that expect a violation are false of the code, and have no
theorem.

## 5. Not modelled

* Text processing of the knowledge base (parsing, chunking, scoring, rewriting,
  paths), web search and page fetching, OpenUI, uploads and statistics: functions of
  their input and calls to other services, with no state that outlives a call but a
  cache of search answers that only expires.
* Routing, schemas, configuration, logging, encryption, password hashing and tokens:
  declarations and library calls.
* The library code of the agent runtime, of the vector store and of Postgres: they are
  the environment, and what they may do is in the actions that call them.
* The purge of a deleted account's data (`endpoints/auth.py:255`): a page of each
  namespace, after the row is gone.  A model would need the stores of several users
  and could only restate that nothing protects it; it is listed as a hazard.
* `hitl` in `AppSettings` (one field on the path of `execute`), the admins' global
  agent configs (which name no skills), the connection test and the configuration
  import of tool servers.
* Read-only requests, except where what they return is what a property is about.
* A second worker process: the registry, the hub, the limiter, the caches and the
  per-user locks are the memory of one process, and the code assumes one.

Worth adding next: an abstract specification of the hub (a log with a position per
client) that `NotificationHub` refines, one of the agent's caches (a value and who still
has to refresh it) that `Connections` and `AgentRegistry` both refine, and action
properties of the stores: which rows a request of one kind may write at all.
