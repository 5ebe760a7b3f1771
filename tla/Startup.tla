------------------------------- MODULE Startup -------------------------------
(***************************************************************************)
(* The life of the process: Persistence.start and stop (core/database.py), *)
(* the SQL migrations (core/migrations.py) and the lifespan of the app     *)
(* (main.py), which folds the legacy global skills and tool servers into   *)
(* the default admin's own (services/resources.py) before it serves.       *)
(*                                                                         *)
(* The database outlives the process.  Of the rest of the lifespan, the    *)
(* default admin is in Accounts, the resolved connections in Connections,  *)
(* the settings in AppSettings, the stale runs in RunLifecycle.            *)
(***************************************************************************)
EXTENDS Naturals, Sequences, FiniteSets

CONSTANTS
  Files,     \* the number of files in migrations/
  Legacy,    \* the number of legacy names of each kind
  Window,    \* the items one asearch returns
  MaxStarts, \* bound: starts of the process
  MaxOwned   \* bound: what the owner does to its items between the starts

ASSUME StartupAssumption ==
  /\ Files \in Nat /\ Legacy \in Nat /\ Window \in Nat \ {0}
  /\ MaxStarts \in Nat /\ MaxOwned \in Nat

Legend == 1 .. Legacy            \* in the order asearch returns them
Pools  == {"skills", "servers"}  \* migrated in this order
Managers == {"saver", "store"}
Stores == {"checkpointer", "store", "users", "history", "kb", "connections",
           "settings", "preferences"}

VARIABLES
  configured, \* DATABASE_URI is set
  ran,        \* the migration files the database has run, in order
  versions,   \* the rows of schema_migrations
  legacy,     \* of each kind, the names in the global namespace
  owned,      \* of each kind, what the owner has under each name
  phase,      \* what the process does
  pool,       \* the pool is open
  entered,    \* the context managers that are open
  backing,    \* what each store keeps its rows in
  backend,    \* backend_name
  todo,       \* what the loop that is running has left, to be taken in order
  starts, ownerWrites,
  forgone     \* history: the names of each kind that the owner deleted

startupVars == <<configured, ran, versions, legacy, owned, phase, pool, entered, backing,
                 backend, todo, starts, ownerWrites, forgone>>
database == <<configured, ran, versions, legacy, owned, ownerWrites, forgone>>
persisted == <<pool, entered, backing, backend>>

Everything(kept) == [s \in Stores |-> kept]

StartupInit ==
  /\ configured \in BOOLEAN
  /\ ran = <<>> /\ versions = {}
  /\ legacy = [k \in Pools |-> Legend]
  /\ owned \in [Pools -> [Legend -> {"none", "mine"}]]
  /\ phase = "down" /\ pool = FALSE /\ entered = {}
  /\ backing = Everything("none") /\ backend = "memory"
  /\ todo = {} /\ starts = 0 /\ ownerWrites = 0
  /\ forgone = [k \in Pools |-> {}]

StartProcess ==
  /\ phase = "down" /\ starts < MaxStarts /\ starts' = starts + 1
  /\ phase' = IF configured THEN "open" ELSE "stores"
  /\ UNCHANGED <<database, persisted, todo>>

OpenPool ==
  /\ phase = "open"
  /\ pool' = TRUE /\ phase' = "read"
  /\ UNCHANGED <<database, entered, backing, backend, todo, starts>>

\* _pending_migration_files.
ReadVersions ==
  /\ phase = "read"
  /\ todo' = (1 .. Files) \ versions /\ phase' = "apply"
  /\ UNCHANGED <<database, persisted, starts>>

\* The loop takes what comes first.
Take(i) == i \in todo /\ (\A j \in todo : i <= j) /\ todo' = todo \ {i}

\* One file and its row in one transaction.
ApplyFile == \E f \in todo :
  /\ phase = "apply" /\ Take(f)
  /\ ran' = Append(ran, f) /\ versions' = versions \cup {f}
  /\ UNCHANGED <<configured, legacy, owned, ownerWrites, forgone, phase, persisted, starts>>

\* The checkpointer, then the store: each is entered and set up.
Enter(c, from, to) ==
  /\ phase = from /\ todo = {}
  /\ entered' = entered \cup {c} /\ phase' = to
  /\ backing' = [backing EXCEPT ![IF c = "saver" THEN "checkpointer" ELSE "store"] = "postgres"]
  /\ backend' = IF c = "store" THEN "postgres" ELSE backend
  /\ UNCHANGED <<database, pool, todo, starts>>

\* Any of these steps raises, after what Enter did or before, or there is no
\* directory of migrations: the pool is closed and memory used.
FallBack ==
  /\ phase \in {"open", "read", "apply", "store"}
  /\ pool' = FALSE /\ todo' = {} /\ phase' = "stores"
  /\ \/ UNCHANGED <<entered, backing>>
     \/ \E c \in Managers :
          /\ c = IF phase = "store" THEN "store" ELSE "saver"
          /\ phase = "store" \/ (phase = "apply" /\ todo = {})
          /\ entered' = entered \cup {c}
          /\ backing' = [backing EXCEPT
               ![IF c = "saver" THEN "checkpointer" ELSE "store"] = "postgres"]
  /\ UNCHANGED <<database, backend, starts>>

\* A mutant of BindStores: in memory the checkpointer and the store stay.
BindTheRest ==
  /\ phase = "stores"
  /\ backing' = [s \in Stores |-> IF s \in {"checkpointer", "store"} THEN backing[s]
                                  ELSE IF pool THEN "postgres" ELSE "memory"]
  /\ backend' = IF pool THEN backend ELSE "memory"
  /\ phase' = "search skills"
  /\ UNCHANGED <<database, pool, entered, todo, starts>>

\* The stores are bound to the pool, or all to memory.
BindStores ==
  /\ phase = "stores"
  /\ backing' = [s \in Stores |-> IF pool THEN (IF s \in {"checkpointer", "store"}
                                                THEN backing[s] ELSE "postgres")
                                  ELSE "memory"]
  /\ backend' = IF pool THEN backend ELSE "memory"
  /\ phase' = "search skills"
  /\ UNCHANGED <<database, pool, entered, todo, starts>>

\* What the store holds: an InMemoryStore begins empty.
Held(k) == IF backing["store"] = "postgres" THEN legacy[k] ELSE {}
FirstPage(k) == {i \in Held(k) : Cardinality({j \in Held(k) : j < i}) < Window}

Search(k, from, to) ==
  /\ phase = from
  /\ todo' = FirstPage(k) /\ phase' = to
  /\ UNCHANGED <<database, persisted, starts>>

\* The first loop: a name the owner has is skipped.
CopyItem(k, from) == \E i \in todo :
  /\ phase = from /\ Take(i)
  /\ owned' = IF owned[k][i] # "none" THEN owned ELSE [owned EXCEPT ![k][i] = "legacy"]
  /\ UNCHANGED <<configured, ran, versions, legacy, ownerWrites, forgone, phase, persisted,
                 starts>>

Copied(k, from, to) == todo = {} /\ Search(k, from, to)

\* A mutant of SweepItem: the rest of the namespace goes with the page.
SweepRest(k, from) ==
  /\ phase = from /\ todo # {} /\ todo' = {}
  /\ legacy' = [legacy EXCEPT ![k] = {}]
  /\ UNCHANGED <<configured, ran, versions, owned, ownerWrites, forgone, phase, persisted,
                 starts>>

\* The second loop, over a search of its own.
SweepItem(k, from) == \E i \in todo :
  /\ phase = from /\ Take(i)
  /\ legacy' = [legacy EXCEPT ![k] = @ \ {i}]
  /\ UNCHANGED <<configured, ran, versions, owned, ownerWrites, forgone, phase, persisted,
                 starts>>

EndSweep(from, to) ==
  /\ phase = from /\ todo = {} /\ phase' = to
  /\ UNCHANGED <<database, persisted, todo, starts>>

\* migrate_global_skills, then migrate_global_tool_servers.
Migrate ==
  \/ Search("skills", "search skills", "copy skills")
  \/ CopyItem("skills", "copy skills")
  \/ Copied("skills", "copy skills", "sweep skills")
  \/ SweepItem("skills", "sweep skills")
  \/ EndSweep("sweep skills", "search servers")
  \/ Search("servers", "search servers", "copy servers")
  \/ CopyItem("servers", "copy servers")
  \/ Copied("servers", "copy servers", "sweep servers")
  \/ SweepItem("servers", "sweep servers")
  \/ EndSweep("sweep servers", "up")

\* One of its calls raises: this is logged and the app serves.
MigrateFails ==
  /\ phase \in {"search skills", "copy skills", "sweep skills",
               "search servers", "copy servers", "sweep servers"}
  /\ backing["store"] = "postgres"
  /\ phase' = "up" /\ todo' = {}
  /\ UNCHANGED <<database, persisted, starts>>

\* The owner's skills and servers under the legacy names, while the app serves.
OwnerWrites(k, i) ==
  /\ phase = "up" /\ backing["store"] = "postgres"
  /\ ownerWrites < MaxOwned /\ ownerWrites' = ownerWrites + 1
  /\ owned' = [owned EXCEPT ![k][i] = IF @ = "none" THEN "mine" ELSE "none"]
  /\ forgone' = [forgone EXCEPT ![k] = IF owned[k][i] = "none" THEN @ ELSE @ \cup {i}]
  /\ UNCHANGED <<configured, ran, versions, legacy, phase, persisted, todo, starts>>

\* The end of the lifespan: Persistence.stop, whose calls may raise and are caught.
StopProcess ==
  /\ phase = "up" /\ phase' = "down"
  /\ entered' = {} /\ pool' = FALSE
  /\ backing' = [s \in Stores |-> IF s \in {"checkpointer", "store"} THEN backing[s] ELSE "none"]
  /\ UNCHANGED <<database, backend, todo, starts>>

\* The process dies, or its start raises outside the guarded parts: all it held goes.
Die ==
  /\ phase # "down" /\ phase' = "down"
  /\ pool' = FALSE /\ entered' = {} /\ todo' = {}
  /\ backing' = Everything("none") /\ backend' = "memory"
  /\ UNCHANGED <<database, starts>>

StartupNext ==
  \/ StartProcess \/ OpenPool \/ ReadVersions \/ ApplyFile
  \/ Enter("saver", "apply", "store") \/ Enter("store", "store", "stores")
  \/ FallBack \/ BindStores
  \/ Migrate \/ MigrateFails
  \/ \E k \in Pools, i \in Legend : OwnerWrites(k, i)
  \/ StopProcess \/ Die

StartupSpec == StartupInit /\ [][StartupNext]_startupVars

-----------------------------------------------------------------------------

\* From the moment the stores are bound everything is in one place: in Postgres, whose
\* schema is then whole, each file having run once and in order, however often an
\* earlier start died or fell back half way; or in memory, with no pool left open
\* (Persistence.start, run_migrations).
BackendIsWhole ==
  phase \notin {"down", "open", "read", "apply", "store", "stores"} =>
    /\ backing = Everything(backend)
    /\ pool = (backend = "postgres")
    /\ pool => entered = Managers /\ ran = [f \in 1 .. Files |-> f]

\* A legacy skill or tool server is in the global namespace until the owner has one
\* of that name, whatever the searches leave out and wherever a start died; only the
\* owner makes it go away (migrate_global_skills, migrate_global_tool_servers).
LegacyIsKept == \A k \in Pools, i \in Legend :
  i \in legacy[k] \/ owned[k][i] # "none" \/ i \in forgone[k]
=============================================================================
