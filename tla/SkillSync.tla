------------------------------ MODULE SkillSync ------------------------------
(***************************************************************************)
(* A user's own skills in the store and their mirror in the user's         *)
(* workspace directory (services/workspace.py).  A run materializes the    *)
(* skills before it starts, its agent edits the directory, and the run's   *)
(* end writes the edits back, file by file; runs of one user overlap, and  *)
(* the user edits the store through the API all the while.                 *)
(*                                                                         *)
(* A tree has the files of each skill, SKILL.md and the bundled ones.  The *)
(* content of a file is a version and the skill that the frontmatter of    *)
(* SKILL.md names.  The directory of a named agent's snapshot is never     *)
(* written back and is left out.                                           *)
(***************************************************************************)
EXTENDS Naturals

CONSTANTS
  Skill,        \* skill names, which are directories and keys of the store
  File,         \* the files of a skill
  Md,           \* SKILL.md
  Run,          \* the runs of the user
  Named,        \* those of an agent with its own snapshot of skills
  NoRun,
  MaxEdits      \* bound on the edits of agents and user together

ASSUME MdAssumption == Md \in File
ASSUME NamedAssumption == Named \subseteq Run
ASSUME NoRunAssumption == NoRun \notin Run
ASSUME EditsAssumption == MaxEdits \in Nat

VARIABLES
  store,      \* the user's namespace: the files of each skill
  disk,       \* skills/<name>/ in the workspace
  mirror,     \* _skill_snapshots: generation, and the files it wrote
  holder,     \* who holds the workspace lock across an await
  pc,         \* where each run is
  data,       \* what the run's asearch returned
  gen,        \* the generation of the run's materialization; 0 for None
  current,    \* the sync's reading of the directory
  todo,       \* the skills it has yet to look at
  plan,       \* what it still writes of the skill it is at: directory and file
  edits,      \* how many edits there were: the newest version
  dirty,      \* history: skills agents wrote since the last own materialization
  torn,       \* history: a materialization failed half way since then
  excused     \* history: files the user wrote, or that failed, in this sync

vars == <<store, disk, mirror, holder, pc, data, gen, current, todo, plan, edits, dirty, torn,
          excused>>

Absent  == <<>>
Content == {Absent} \cup ((0 .. MaxEdits) \X Skill)
Trees   == [Skill -> [File -> Content]]
NoFiles == [f \in File |-> Absent]
Nothing == [s \in Skill |-> NoFiles]

\* The part of a tree that is in the files of keep.
Part(tree, keep) ==
  [s \in Skill |-> [f \in File |-> IF <<s, f>> \in keep THEN tree[s][f] ELSE Absent]]

\* A skill is a directory with a SKILL.md.
Valid(tree) == {s \in Skill : tree[s][Md] # Absent}

\* An edit of file f of skill s, in the directory or in the store: it is written,
\* and SKILL.md may name another skill, or it is deleted.
Edit(tree, s, f) ==
  /\ edits < MaxEdits /\ edits' = edits + 1
  /\ \/ \E n \in Skill : (f # Md => n = s) /\ tree' = [tree EXCEPT ![s][f] = <<edits + 1, n>>]
     \/ tree[s][f] # Absent /\ tree' = [tree EXCEPT ![s][f] = Absent]

\* The user may have skills from earlier, which bundle no file yet.
Init ==
  /\ edits = 0
  /\ \E old \in SUBSET Skill : store = Part([s \in Skill |-> [f \in File |-> <<0, s>>]], old \X {Md})
  /\ disk = Nothing
  /\ mirror = [gen |-> 0, known |-> Nothing]
  /\ holder = NoRun
  /\ pc = [r \in Run |-> "new"]
  /\ data = [r \in Run |-> Nothing]
  /\ gen = [r \in Run |-> 0]
  /\ current = Nothing
  /\ todo = {} /\ plan = {}
  /\ dirty = {} /\ torn = FALSE /\ excused = {}

Goto(r, stage) == pc' = [pc EXCEPT ![r] = stage]

-----------------------------------------------------------------------------
(* materialize_skills. *)

\* The store is read before the lock is taken.
Read(r) ==
  /\ pc[r] = "new"
  /\ data' = [data EXCEPT ![r] = store]
  /\ Goto(r, "read")
  /\ UNCHANGED <<store, disk, mirror, holder, gen, current, todo, plan, edits, dirty, torn,
                 excused>>

\* Under the lock: the target directory is replaced and the snapshot taken.  A
\* named agent's target is its own subdirectory: the user's skills stay on disk
\* as they are, and the snapshot knows none of them.
Materialize(r) ==
  /\ pc[r] = "read"
  /\ holder = NoRun
  /\ gen' = [gen EXCEPT ![r] = mirror.gen + 1]
  /\ IF r \in Named
     THEN /\ mirror' = [gen |-> mirror.gen + 1, known |-> Nothing]
          /\ UNCHANGED <<disk, dirty, torn>>
     ELSE /\ mirror' = [gen |-> mirror.gen + 1, known |-> data[r]]
          /\ disk' = data[r]
          /\ dirty' = {} /\ torn' = FALSE
  /\ data' = [data EXCEPT ![r] = Nothing]
  /\ Goto(r, "running")
  /\ UNCHANGED <<store, holder, current, todo, plan, edits, excused>>

\* _replace_skill_files raises half way: the old files are partly removed, or
\* the new ones partly written.  The run goes on without a generation.
MaterializeFails(r) ==
  /\ pc[r] = "read" /\ r \notin Named
  /\ holder = NoRun
  /\ \E tree \in {disk, data[r]}, keep \in SUBSET (Skill \X File) : disk' = Part(tree, keep)
  /\ torn' = TRUE
  /\ data' = [data EXCEPT ![r] = Nothing]
  /\ Goto(r, "running")
  /\ UNCHANGED <<store, mirror, holder, gen, current, todo, plan, edits, dirty, excused>>

-----------------------------------------------------------------------------
(* The agent and the user. *)

\* The agent of a run writes or deletes a file of a skill in the directory.
AgentWrites(r, s, f) ==
  /\ pc[r] = "running"
  /\ Edit(disk, s, f)
  /\ dirty' = dirty \cup {s}
  /\ UNCHANGED <<store, mirror, holder, pc, data, gen, current, todo, plan, torn, excused>>

\* The user's requests put and delete files in the store one after the other
\* and take no lock.
UserWrites(s, f) ==
  /\ Edit(store, s, f)
  /\ excused' = IF holder = NoRun THEN excused ELSE excused \cup {<<s, f>>}
  /\ UNCHANGED <<disk, mirror, holder, pc, data, gen, current, todo, plan, dirty, torn>>

-----------------------------------------------------------------------------
(* sync_skills_to_store. *)

\* The skills a sync looks at, and those whose files are not the snapshot's.
Seen    == Valid(mirror.known) \cup Valid(current)
Changed == {s \in Seen : current[s] # mirror.known[s]}
Gone(s) == current[s][Md] = Absent

\* The skill of the store that directory s is written to: the one that its
\* SKILL.md names.
Target(s) == IF Gone(s) THEN s ELSE current[s][Md][2]

\* The files of directory s that the agent left or removed.
Mentioned(s) == {f \in File : current[s][f] # Absent \/ mirror.known[s][f] # Absent}

\* A mutant of Writes: files that the agent removed stay in the store.
WritesNoRemovals(s) ==
  IF Gone(s)
  THEN {f \in File : store[s][Md] # Absent /\ store[s][f] # Absent}
  ELSE {f \in File : current[s][f] # Absent}

\* What is written for directory s.  A skill that is gone is deleted with all
\* its files; otherwise files that the snapshot does not know are kept.
Writes(s) ==
  IF Gone(s)
  THEN {f \in File : store[s][Md] # Absent /\ store[s][f] # Absent}
  ELSE Mentioned(s)

\* No generation, or a stale one: nothing is written back.
SkipSync(r) ==
  /\ pc[r] = "running"
  /\ gen[r] = 0 \/ (holder = NoRun /\ mirror.gen # gen[r])
  /\ Goto(r, "done")
  /\ UNCHANGED <<store, disk, mirror, holder, data, gen, current, todo, plan, edits, dirty, torn,
                 excused>>

\* _skills_on_disk.
ReadDirectory ==
  /\ current' = [s \in Skill |-> IF s \in Valid(disk) THEN disk[s] ELSE NoFiles]
  /\ todo' = Valid(mirror.known) \cup Valid(disk)

\* A mutant of BeginSync: any run may write back, whatever its generation.
BeginSyncAnyGeneration(r) ==
  /\ pc[r] = "running"
  /\ gen[r] # 0 /\ holder = NoRun
  /\ holder' = r
  /\ ReadDirectory
  /\ Goto(r, "syncing")
  /\ UNCHANGED <<store, disk, mirror, data, gen, plan, edits, dirty, torn, excused>>

\* The lock is taken and the directory read.
BeginSync(r) ==
  /\ pc[r] = "running"
  /\ gen[r] # 0 /\ holder = NoRun /\ mirror.gen = gen[r]
  /\ holder' = r
  /\ ReadDirectory
  /\ Goto(r, "syncing")
  /\ UNCHANGED <<store, disk, mirror, data, gen, plan, edits, dirty, torn, excused>>

\* The next skill: it is untouched, or some files of it are to be written.
SyncOne(r, s) ==
  /\ pc[r] = "syncing" /\ plan = {} /\ s \in todo
  /\ todo' = todo \ {s}
  /\ plan' = IF s \in Changed THEN {s} \X Writes(s) ELSE {}
  /\ UNCHANGED <<store, disk, mirror, holder, pc, data, gen, current, edits, dirty, torn,
                 excused>>

\* One put or delete: SKILL.md before the other files, removals last.
WriteFile(r, s, f) ==
  /\ pc[r] = "syncing" /\ <<s, f>> \in plan
  /\ \A g \in File : <<s, g>> \in plan /\ current[s][g] # Absent =>
       current[s][f] # Absent /\ (g = Md => f = Md)
  /\ plan' = plan \ {<<s, f>>}
  /\ store' = [store EXCEPT ![Target(s)][f] = current[s][f]]
  /\ UNCHANGED <<disk, mirror, holder, pc, data, gen, current, todo, edits, dirty, torn,
                 excused>>

\* SKILL.md does not parse, the user deleted the skill in between, or the store
\* fails: logged, and on to the next skill.
SyncOneFails(r) ==
  /\ pc[r] = "syncing" /\ plan # {}
  /\ plan' = {}
  /\ excused' = excused \cup {<<Target(p[1]), f>> : p \in plan, f \in File}
  /\ UNCHANGED <<store, disk, mirror, holder, pc, data, gen, current, todo, edits, dirty, torn>>

\* A mutant of EndSync: the lock is never released.
EndSyncKeepsLock(r) ==
  /\ pc[r] = "syncing" /\ todo = {} /\ plan = {}
  /\ mirror' = [mirror EXCEPT !.known = disk]
  /\ current' = Nothing /\ excused' = {}
  /\ Goto(r, "done")
  /\ UNCHANGED <<store, disk, holder, data, gen, todo, plan, edits, dirty, torn>>

\* The directory is hashed again as the new snapshot; the lock is released.
EndSync(r) ==
  /\ pc[r] = "syncing" /\ todo = {} /\ plan = {}
  /\ mirror' = [mirror EXCEPT !.known = disk]
  /\ holder' = NoRun
  /\ current' = Nothing /\ excused' = {}
  /\ Goto(r, "done")
  /\ UNCHANGED <<store, disk, data, gen, todo, plan, edits, dirty, torn>>

Next ==
  \/ \E r \in Run :
       \/ Read(r) \/ Materialize(r) \/ MaterializeFails(r)
       \/ SkipSync(r) \/ BeginSync(r) \/ SyncOneFails(r) \/ EndSync(r)
       \/ \E s \in Skill :
            \/ SyncOne(r, s)
            \/ \E f \in File : AgentWrites(r, s, f) \/ WriteFile(r, s, f)
  \/ \E s \in Skill, f \in File : UserWrites(s, f)

Spec == Init /\ [][Next]_vars

-----------------------------------------------------------------------------
(* Properties. *)

\* Every variable has its type, and the lock is held by the run that syncs.
TypeOK ==
  /\ store \in Trees /\ disk \in Trees /\ current \in Trees
  /\ mirror \in [gen : Nat, known : Trees]
  /\ holder \in Run \cup {NoRun}
  /\ pc \in [Run -> {"new", "read", "running", "syncing", "done"}]
  /\ \A r \in Run : holder = r <=> pc[r] = "syncing"
  /\ data \in [Run -> Trees]
  /\ gen \in [Run -> Nat]
  /\ todo \subseteq Skill /\ dirty \subseteq Skill
  /\ plan \subseteq Skill \X File /\ excused \subseteq Skill \X File
  /\ edits \in 0 .. MaxEdits
  /\ torn \in BOOLEAN

\* The writeback of directory s changed the store in this step.
Rewrites(s) == (\E f \in File : <<s, f>> \in plan \ plan') /\ store' # store

\* The end of a run of the default agent writes to the store only from
\* directories an agent wrote since they were last materialized, whatever the
\* user and other runs did meanwhile (sync_skills_to_store: "unchanged skills
\* are never rewritten").
OwnRunsRewriteWhatChanged ==
  [][\A s \in Skill : holder \notin Named /\ ~torn /\ Rewrites(s) => s \in dirty]_vars

\* No other changed directory goes to the same skill.
Alone(s) == \A u \in Changed \ {s} : Target(u) # Target(s)

\* What the store owes a changed directory: that a skill which is gone has no
\* SKILL.md, and of another every file that is there or was removed.
Due(s) == IF Gone(s) THEN {Md} ELSE Mentioned(s)

\* The end of a run has stored every edit and every deletion it found in the
\* directory, unless the user wrote the same file or the write failed during
\* the sync, or two directories name the same skill.
SyncStoresTheDirectory ==
  [][\A r \in Run :
       pc[r] = "syncing" /\ pc'[r] = "done" =>
         \A s \in Changed : \A f \in Due(s) :
           Alone(s) /\ <<Target(s), f>> \notin excused =>
             store[Target(s)][f] = current[s][f]]_vars

-----------------------------------------------------------------------------
(* What the repository says and the code does not do. *)

\* The same of the runs of every agent: a named agent's run materializes none
\* of the user's skills, so none of them changed "since this run's
\* materialization" unless an agent wrote it.
RunsRewriteWhatChanged ==
  [][\A s \in Skill : ~torn /\ Rewrites(s) => s \in dirty]_vars
=============================================================================
