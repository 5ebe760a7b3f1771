----------------------------- MODULE WorkspaceGit -----------------------------
(***************************************************************************)
(* The git repository of the workspaces (services/workspace.py): every run *)
(* commits at its end, in a worker thread; creating and deleting a user    *)
(* changes its directory and commits, on the event loop.                   *)
(*                                                                         *)
(* Each git command is a process of its own, which takes the lock file of  *)
(* the index, of the config or of HEAD and fails when it is there.  `_git` *)
(* looks at no return code.  A commit locks the index while it refreshes   *)
(* it, having read HEAD, and lets it go; then it reads the index and, with *)
(* HEAD locked, moves HEAD, if that is still where it was.  What is        *)
(* uploaded meanwhile, which the end of the next run commits, is left out. *)
(***************************************************************************)
EXTENDS Naturals, Sequences

CONSTANTS
  Dir,          \* users, each with a directory of the workspace root
  Worker,       \* the runs that may be in flight at once
  MaxTreeEdits, \* bound: changes of the files
  MaxKills      \* bound: git commands that exceed their 30 seconds

EventLoop    == "event loop"
Thread  == Worker \cup {EventLoop}
NoDir   == 0
NoHolder == "free"
Stale   == "stale"
Unassigned == "no run"
Unseen  == [u \in Dir |-> NoDir]

ASSUME GitAssumption ==
  /\ Unassigned \notin Dir /\ {EventLoop, NoHolder, Stale} \cap Worker = {}
  /\ MaxTreeEdits \in Nat /\ MaxKills \in Nat

\* _git_commit: ensure_git and _configure_git on an existing repository with a remote
\* and a token, then the two that matter, of which the commit does two things.
Commands == <<"identity", "remove remote", "add remote", "helper", "add", "commit", "move HEAD">>
LockOf(c) == CASE c \in {"add", "commit"} -> "index"
               [] c = "move HEAD" -> "HEAD"
               [] OTHER -> "config"

VARIABLES
  tree,      \* the version of each user's files on disk
  index, head,
  remote,    \* origin is configured
  lockFile,  \* who holds each of the three locks
  commands,  \* the commands that each thread has left
  scan,      \* what the tree was when the thread's `add` began, or the index that its
             \* commit read
  overtaken, \* the threads in a commit that read HEAD before another one moved it
  runOf,     \* the user whose run each worker does
  fileEdits, kills,
  disturbed  \* history: since the workspace was last at rest a command found a lock
             \* taken or HEAD moved or was killed, or one with nothing to commit passed
             \* another that had read an older index, or it began with a stale lock

gitVars == <<tree, index, head, remote, lockFile, commands, scan, overtaken, runOf, fileEdits, kills,
             disturbed>>

GitInit ==
  /\ tree = [u \in Dir |-> 1] /\ index = tree /\ head = tree /\ remote = TRUE
  /\ lockFile = [l \in {"index", "config", "HEAD"} |-> NoHolder]
  /\ commands = [t \in Thread |-> <<>>] /\ scan = [t \in Thread |-> Unseen]
  /\ overtaken = {} /\ runOf = [t \in Worker |-> Unassigned]
  /\ fileEdits = 0 /\ kills = 0 /\ disturbed = FALSE

AtRest == (\A t \in Worker : runOf[t] = Unassigned) /\ \A t \in Thread : commands[t] = <<>>
LoopFree == commands[EventLoop] = <<>>
Wake == disturbed' = IF AtRest THEN \E l \in DOMAIN lockFile : lockFile[l] # NoHolder ELSE disturbed
Repo == <<index, head, remote, lockFile>>

BeginRun(t, u) ==
  /\ LoopFree /\ runOf[t] = Unassigned /\ commands[t] = <<>>
  /\ runOf' = [runOf EXCEPT ![t] = u] /\ Wake
  /\ UNCHANGED <<tree, Repo, commands, scan, overtaken, fileEdits, kills>>

\* The agent's tools write what is new, or what was there before; and make the directory
\* when it has gone.
EditFiles(t) ==
  /\ runOf[t] # Unassigned /\ fileEdits < MaxTreeEdits /\ fileEdits' = fileEdits + 1
  /\ \E v \in 1 .. fileEdits + 2 : tree' = [tree EXCEPT ![runOf[t]] = v]
  /\ UNCHANGED <<Repo, commands, scan, overtaken, runOf, kills, disturbed>>

\* git_commit, in the `finally` of the run.
EndRun(t) ==
  /\ LoopFree /\ runOf[t] # Unassigned
  /\ runOf' = [runOf EXCEPT ![t] = Unassigned]
  /\ commands' = [commands EXCEPT ![t] = Commands]
  /\ UNCHANGED <<tree, Repo, scan, overtaken, fileEdits, kills, disturbed>>

\* ensure_user_workspace, remove_user_workspace: an `add` of their own comes first.
ChangeUser(u) ==
  /\ LoopFree /\ fileEdits < MaxTreeEdits /\ fileEdits' = fileEdits + 1
  /\ tree' = [tree EXCEPT ![u] = IF @ = NoDir THEN fileEdits + 2 ELSE NoDir]
  /\ commands' = [commands EXCEPT ![EventLoop] = <<"add">> \o Commands] /\ Wake
  /\ UNCHANGED <<Repo, scan, overtaken, runOf, kills>>

Command(t) == Head(commands[t])
LockedBy(t) == lockFile[LockOf(Command(t))]

\* The next command of the thread is about to begin.
Ready(t) == commands[t] # <<>> /\ LockedBy(t) # t

\* "nothing to commit": the index that the commit reads is what HEAD has.
Clean(t) == Command(t) = "move HEAD" /\ index = head

\* "Unable to create index.lock", "could not lock config file", "cannot lock ref HEAD".
Refused(t) == LockedBy(t) # NoHolder \/ (Command(t) = "move HEAD" /\ t \in overtaken)

BeginCommand(t) ==
  /\ Ready(t) /\ ~Clean(t) /\ ~Refused(t)
  /\ lockFile' = [lockFile EXCEPT ![LockOf(Command(t))] = t]
  /\ scan' = CASE Command(t) = "add" -> [scan EXCEPT ![t] = tree]
               [] Command(t) = "move HEAD" -> [scan EXCEPT ![t] = index]
               [] OTHER -> scan
  /\ UNCHANGED <<tree, index, head, remote, commands, overtaken, runOf, fileEdits, kills, disturbed>>

\* On to the next one: after a failed `add` the commit, after a commit's first half none.
FailCommand(t) ==
  /\ Ready(t) /\ ~Clean(t) /\ Refused(t)
  /\ commands' = [commands EXCEPT ![t] = IF Command(t) = "commit" THEN <<>> ELSE Tail(@)]
  /\ overtaken' = overtaken \ {t} /\ disturbed' = TRUE
  /\ UNCHANGED <<tree, Repo, scan, runOf, fileEdits, kills>>

\* Another commit may be about to move HEAD to the index as it was before.
CommitNothing(t) ==
  /\ Ready(t) /\ Clean(t)
  /\ commands' = [commands EXCEPT ![t] = Tail(@)] /\ overtaken' = overtaken \ {t}
  /\ disturbed' = (disturbed \/ \E d \in Thread : lockFile["HEAD"] = d /\ scan[d] # index)
  /\ UNCHANGED <<tree, Repo, scan, runOf, fileEdits, kills>>

\* A mutant of Staged: files that are gone stay in the index.
StagedPresent(t, i) ==
  \A u \in Dir : i[u] \in {IF v = NoDir THEN index[u] ELSE v : v \in {scan[t][u], tree[u]}}

\* `add -A` may see or miss a change made while it scans.
Staged(t, i) == \A u \in Dir : i[u] \in {scan[t][u], tree[u]}

\* It has read HEAD and has not moved it.
Committing(t) ==
  /\ commands[t] # <<>>
  /\ Command(t) = "move HEAD" \/ (Command(t) = "commit" /\ LockedBy(t) = t)

EndCommand(t) ==
  /\ commands[t] # <<>> /\ LockedBy(t) = t
  /\ IF Command(t) = "add"
     THEN \E i \in [Dir -> 0 .. MaxTreeEdits + 1] : Staged(t, i) /\ index' = i
     ELSE UNCHANGED index
  /\ IF Command(t) = "move HEAD"
     THEN head' = scan[t] /\ overtaken' = {d \in Thread \ {t} : Committing(d)}
     ELSE UNCHANGED <<head, overtaken>>
  /\ remote' = CASE Command(t) = "remove remote" -> FALSE
                 [] Command(t) = "add remote" -> TRUE
                 [] OTHER -> remote
  /\ lockFile' = [lockFile EXCEPT ![LockOf(Command(t))] = NoHolder]
  /\ commands' = [commands EXCEPT ![t] = Tail(@)] /\ scan' = [scan EXCEPT ![t] = Unseen]
  /\ UNCHANGED <<tree, runOf, fileEdits, kills, disturbed>>

\* A timeout kills the command, whose lock stays; without its `add` no commit is tried.
KillCommand(t) ==
  /\ commands[t] # <<>> /\ LockedBy(t) = t /\ kills < MaxKills /\ kills' = kills + 1
  /\ lockFile' = [lockFile EXCEPT ![LockOf(Command(t))] = Stale]
  /\ commands' = [commands EXCEPT ![t] = IF Command(t) \in {"add", "commit"} THEN <<>> ELSE Tail(@)]
  /\ overtaken' = overtaken \ {t} /\ disturbed' = TRUE /\ scan' = [scan EXCEPT ![t] = Unseen]
  /\ UNCHANGED <<tree, index, head, remote, runOf, fileEdits>>

GitNext ==
  \/ \E t \in Worker : EditFiles(t) \/ EndRun(t) \/ \E u \in Dir : BeginRun(t, u)
  \/ \E u \in Dir : ChangeUser(u)
  \/ \E t \in Thread :
       BeginCommand(t) \/ FailCommand(t) \/ CommitNothing(t) \/ EndCommand(t) \/ KillCommand(t)

GitSpec == GitInit /\ [][GitNext]_gitVars

-----------------------------------------------------------------------------

\* Whenever no run and no commit is under way, the last commit holds the files of every
\* user as they are on disk and the remote is configured, however runs, their commits
\* and the changes of users overlapped, unless since the workspace was last at rest a git
\* command met the lock of another, or one that a killed command left behind, or the
\* second halves of two commits crossed
\* ("every run end auto-commits (all changes, best-effort)", services/workspace.py:22).
WorkspaceIsVersioned == AtRest /\ ~disturbed => head = tree /\ remote
=============================================================================
