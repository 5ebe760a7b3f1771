-------------------------- MODULE Workspace_proofs ---------------------------
(***************************************************************************)
(* What holds of a user's workspace, for any skills, runs, threads and     *)
(* users: the mirror of the skills in it (SkillSync) and its git directory *)
(* (WorkspaceGit).                                                         *)
(*                                                                         *)
(* The runs of the default agent write back nothing but what an agent      *)
(* wrote, because the snapshot knows the directory up to the dirty skills  *)
(* as long as the run that took it is one of the default agent's, and,     *)
(* generations being given once and a sync holding the lock, the snapshot  *)
(* a sync reads is the one its own run took.  The directory is committed,  *)
(* because of the commands that the lock's holder still owes, RestCommits. *)
(***************************************************************************)
EXTENDS SkillSync, WorkspaceGit, FiniteSetTheorems, SequenceTheorems, TLAPS

-----------------------------------------------------------------------------
(* The skills. *)

\* Generations are numbered from 1, and no two runs have the same one.
GenerationsAreUnique ==
  /\ \A r \in Run : gen[r] <= mirror.gen
  /\ \A q, r \in Run : gen[q] = gen[r] /\ gen[q] # 0 => q = r

\* A run that syncs is the one whose materialization the snapshot describes.
SyncIsCurrent == \A r \in Run : pc[r] = "syncing" => gen[r] = mirror.gen /\ gen[r] # 0

\* The snapshot of a default agent's run knows every skill that is not dirty,
\* on the disk and in what a sync read of it.
CleanSkillsAreKnown ==
  \A r \in Run \ Named, s \in Skill :
    gen[r] = mirror.gen /\ gen[r] # 0 /\ ~torn /\ s \notin dirty =>
      /\ disk[s] = mirror.known[s]
      /\ pc[r] = "syncing" /\ s \in Seen => current[s] = mirror.known[s]

\* Only a sync has something to write, of a directory that differs from the
\* snapshot and that it has begun with.
PlanIsOfChanged ==
  /\ plan # {} => \E r \in Run : pc[r] = "syncing"
  /\ \A s \in Skill, f \in File : <<s, f>> \in plan => s \in Changed /\ s \notin todo

\* The files a sync has dealt with are in the store as it read them, where no
\* other directory, no request of the user and no failure came in between.
SyncedFilesAreStored ==
  \A r \in Run : pc[r] = "syncing" =>
    \A s \in Changed : \A f \in Due(s) :
      s \notin todo /\ <<s, f>> \notin plan /\ Alone(s) /\ <<Target(s), f>> \notin excused =>
        store[Target(s)][f] = current[s][f]

IInv ==
  /\ TypeOK
  /\ GenerationsAreUnique
  /\ SyncIsCurrent
  /\ CleanSkillsAreKnown
  /\ PlanIsOfChanged
  /\ SyncedFilesAreStored

-----------------------------------------------------------------------------
\* A part of a tree is a tree.
LEMMA PartsAreTrees == ASSUME NEW t \in Trees, NEW keep PROVE Part(t, keep) \in Trees
BY DEF Part, Trees, Content

LEMMA NothingIsATree == Nothing \in Trees
BY DEF Nothing, NoFiles, Trees, Content

\* An edit of a tree gives a tree, and changes the one file.
LEMMA EditsAreTrees ==
  ASSUME TypeOK, NEW t \in Trees, NEW u, NEW e, NEW s \in Skill, NEW f \in File,
         edits < MaxEdits, e = edits + 1,
         \/ \E n \in Skill : u = [t EXCEPT ![s][f] = <<edits + 1, n>>]
         \/ u = [t EXCEPT ![s][f] = Absent]
  PROVE  /\ u \in Trees /\ e \in 0 .. MaxEdits
         /\ \A r \in Skill : r # s => u[r] = t[r]
         /\ \A g \in File : g # f => u[s][g] = t[s][g]
<1>1. edits \in Nat /\ MaxEdits \in Nat /\ edits + 1 \in 0 .. MaxEdits
  BY EditsAssumption DEF TypeOK
<1>2. PICK c \in Content : u = [t EXCEPT ![s][f] = c]
  <2>1. CASE u = [t EXCEPT ![s][f] = Absent]
    BY <2>1 DEF Content
  <2>2. CASE \E n \in Skill : u = [t EXCEPT ![s][f] = <<edits + 1, n>>]
    <3>1. PICK n \in Skill : u = [t EXCEPT ![s][f] = <<edits + 1, n>>]
      BY <2>2
    <3>2. <<edits + 1, n>> \in Content
      BY <1>1 DEF Content
    <3> QED BY <3>1, <3>2
  <2> QED BY <2>1, <2>2
<1> QED BY <1>1, <1>2 DEF Trees

\* A directory is written to a skill of the store.
LEMMA TargetsAreSkills == ASSUME TypeOK, NEW s \in Skill PROVE Target(s) \in Skill
<1>1. current[s][Md] \in Content
  BY MdAssumption DEF TypeOK, Trees
<1> QED BY <1>1 DEF Target, Gone, Content

\* What a sync makes of its directories depends on what it read and on the
\* snapshot only.
LEMMA SameView ==
  ASSUME current' = current, mirror' = mirror
  PROVE  /\ Seen' = Seen /\ Changed' = Changed
         /\ \A s \in Skill : /\ Due(s)' = Due(s) /\ Target(s)' = Target(s)
                             /\ Alone(s)' = Alone(s)
BY DEF Seen, Changed, Due, Target, Alone, Gone, Mentioned, Valid

\* The initial states satisfy the invariant: no run has a generation yet.
THEOREM InitIInv == Init => IInv
<1> SUFFICES ASSUME Init PROVE IInv
  OBVIOUS
<1>1. TypeOK
  <2>1. Nothing \in Trees BY NothingIsATree
  <2>2. mirror \in [gen : Nat, known : Trees] BY <2>1 DEF Init
  <2>3. store \in Trees
    <3>1. [s \in Skill |-> [f \in File |-> <<0, s>>]] \in Trees
      BY EditsAssumption DEF Trees, Content
    <3> QED BY <3>1, PartsAreTrees DEF Init
  <2>4. edits \in 0 .. MaxEdits BY EditsAssumption DEF Init
  <2> QED BY <2>1, <2>2, <2>3, <2>4, NoRunAssumption DEF Init, TypeOK
<1>2. GenerationsAreUnique /\ SyncIsCurrent /\ CleanSkillsAreKnown
  BY DEF Init, GenerationsAreUnique, SyncIsCurrent, CleanSkillsAreKnown
<1>3. PlanIsOfChanged /\ SyncedFilesAreStored
  BY DEF Init, PlanIsOfChanged, SyncedFilesAreStored
<1> QED BY <1>1, <1>2, <1>3 DEF IInv

\* Read changes nothing the invariant speaks of but the stage and the data.
LEMMA ReadStep == ASSUME IInv, NEW r \in Run, Read(r) PROVE IInv'
<1> USE DEF IInv, Read, Goto
<1>1. TypeOK' BY NoRunAssumption DEF TypeOK
<1>2. current' = current /\ mirror' = mirror
  OBVIOUS
<1>3. \A q \in Run : pc'[q] = "syncing" <=> pc[q] = "syncing"
  BY DEF TypeOK
<1>4. GenerationsAreUnique' /\ SyncIsCurrent' /\ CleanSkillsAreKnown'
  BY <1>2, <1>3, SameView DEF GenerationsAreUnique, SyncIsCurrent, CleanSkillsAreKnown
<1>5. PlanIsOfChanged' /\ SyncedFilesAreStored'
  BY <1>2, <1>3, SameView DEF PlanIsOfChanged, SyncedFilesAreStored, Changed, Seen, Valid
<1> QED BY <1>1, <1>4, <1>5

\* A materialization takes a generation nobody has and knows what it wrote.
LEMMA MaterializeStep == ASSUME IInv, NEW r \in Run, Materialize(r) PROVE IInv'
<1> USE DEF IInv, Goto
<1>1. /\ mirror.gen \in Nat /\ mirror'.gen = mirror.gen + 1
      /\ gen' = [gen EXCEPT ![r] = mirror.gen + 1] /\ gen \in [Run -> Nat]
      /\ \A q \in Run : pc[q] # "syncing" /\ pc'[q] # "syncing"
      /\ plan = {} /\ plan' = {}
  BY NoRunAssumption DEF Materialize, TypeOK, PlanIsOfChanged
<1>2. TypeOK'
  <2>1. Nothing \in Trees BY NothingIsATree
  <2>2. data[r] \in Trees /\ mirror.gen + 1 \in Nat BY <1>1 DEF TypeOK
  <2>3. mirror' \in [gen : Nat, known : Trees]
    BY <2>1, <2>2 DEF Materialize
  <2>4. disk' \in Trees /\ dirty' \subseteq Skill /\ torn' \in BOOLEAN
    BY <2>2 DEF Materialize, TypeOK
  <2>5. gen' \in [Run -> Nat] /\ data' \in [Run -> Trees]
    BY <2>1, <2>2 DEF Materialize, TypeOK
  <2>6. \A q \in Run : holder' = q <=> pc'[q] = "syncing"
    BY <1>1 DEF Materialize, TypeOK
  <2>7. pc' \in [Run -> {"new", "read", "running", "syncing", "done"}]
    BY DEF Materialize, TypeOK
  <2> QED BY <2>3, <2>4, <2>5, <2>6, <2>7 DEF Materialize, TypeOK
<1>3. GenerationsAreUnique'
  BY <1>1 DEF GenerationsAreUnique
<1>4. SyncIsCurrent' /\ PlanIsOfChanged' /\ SyncedFilesAreStored'
  BY <1>1 DEF SyncIsCurrent, PlanIsOfChanged, SyncedFilesAreStored
<1>5. CleanSkillsAreKnown'
  <2> SUFFICES ASSUME NEW q \in Run \ Named, NEW s \in Skill, gen'[q] = mirror'.gen
               PROVE  disk'[s] = mirror'.known[s]
    BY <1>1 DEF CleanSkillsAreKnown
  <2>1. q = r
    BY <1>1 DEF GenerationsAreUnique
  <2> QED BY <2>1 DEF Materialize
<1> QED BY <1>2, <1>3, <1>4, <1>5

\* A failed materialization leaves the directory torn and no generation.
LEMMA MaterializeFailsStep == ASSUME IInv, NEW r \in Run, MaterializeFails(r) PROVE IInv'
<1> USE DEF IInv, MaterializeFails, Goto
<1>1. TypeOK'
  <2>1. disk' \in Trees
    BY PartsAreTrees DEF TypeOK
  <2>2. data' \in [Run -> Trees]
    BY NothingIsATree DEF TypeOK
  <2> QED BY <2>1, <2>2, NoRunAssumption DEF TypeOK
<1>2. /\ \A q \in Run : pc[q] # "syncing" /\ pc'[q] # "syncing"
      /\ plan = {} /\ plan' = {} /\ torn'
  BY NoRunAssumption DEF TypeOK, PlanIsOfChanged
<1>3. GenerationsAreUnique' /\ SyncIsCurrent' /\ CleanSkillsAreKnown'
  BY <1>2 DEF GenerationsAreUnique, SyncIsCurrent, CleanSkillsAreKnown
<1>4. PlanIsOfChanged' /\ SyncedFilesAreStored'
  BY <1>2 DEF PlanIsOfChanged, SyncedFilesAreStored
<1> QED BY <1>1, <1>3, <1>4

\* The run ends without a sync.
LEMMA SkipSyncStep == ASSUME IInv, NEW r \in Run, SkipSync(r) PROVE IInv'
<1> USE DEF IInv, SkipSync, Goto
<1>1. TypeOK' BY NoRunAssumption DEF TypeOK
<1>2. /\ current' = current /\ mirror' = mirror
      /\ \A q \in Run : pc'[q] = "syncing" <=> pc[q] = "syncing"
  BY DEF TypeOK
<1>3. GenerationsAreUnique' /\ SyncIsCurrent' /\ CleanSkillsAreKnown'
  BY <1>2, SameView DEF GenerationsAreUnique, SyncIsCurrent, CleanSkillsAreKnown
<1>4. PlanIsOfChanged' /\ SyncedFilesAreStored'
  BY <1>2, SameView DEF PlanIsOfChanged, SyncedFilesAreStored, Changed, Seen, Valid
<1> QED BY <1>1, <1>3, <1>4

\* The sync starts from a directory that differs from the snapshot in dirty
\* skills only.
LEMMA BeginSyncStep == ASSUME IInv, NEW r \in Run, BeginSync(r) PROVE IInv'
<1> USE DEF IInv, BeginSync, ReadDirectory, Goto
<1>1. TypeOK'
  <2>1. current' \in Trees
    BY DEF TypeOK, Trees, NoFiles, Content
  <2>2. todo' \subseteq Skill
    BY DEF Valid
  <2> QED BY <2>1, <2>2, NoRunAssumption DEF TypeOK
<1>2. /\ \A s \in Skill : current'[s] = IF s \in Valid(disk) THEN disk[s] ELSE NoFiles
      /\ NoFiles[Md] = Absent
  BY MdAssumption DEF NoFiles
<1>3. Seen' = todo'
  BY <1>2 DEF Seen, Valid
<1>4. GenerationsAreUnique' /\ SyncIsCurrent'
  BY DEF TypeOK, GenerationsAreUnique, SyncIsCurrent
<1>5. CleanSkillsAreKnown'
  <2> SUFFICES ASSUME NEW q \in Run \ Named, NEW s \in Skill,
                      gen[q] = mirror.gen, gen[q] # 0, ~torn, s \notin dirty
               PROVE  /\ disk[s] = mirror.known[s]
                      /\ s \in todo' => current'[s] = mirror.known[s]
    BY <1>3 DEF CleanSkillsAreKnown
  <2>1. disk[s] = mirror.known[s]
    BY DEF CleanSkillsAreKnown
  <2> QED BY <1>2, <2>1 DEF Valid
<1>6. PlanIsOfChanged' /\ SyncedFilesAreStored'
  <2>1. plan = {}
    BY NoRunAssumption DEF TypeOK, PlanIsOfChanged
  <2> QED BY <1>3, <2>1 DEF PlanIsOfChanged, SyncedFilesAreStored, Changed
<1> QED BY <1>1, <1>4, <1>5, <1>6

\* The sync comes to a directory: it is as the snapshot has it, or all that the
\* store is owed is planned.
LEMMA SyncOneStep ==
  ASSUME IInv, NEW r \in Run, NEW s \in Skill, SyncOne(r, s) PROVE IInv'
<1> USE DEF IInv, SyncOne
<1>1. TypeOK'
  <2>1. Writes(s) \subseteq File BY DEF Writes, Mentioned
  <2> QED BY <2>1 DEF TypeOK
<1>2. /\ current' = current /\ mirror' = mirror /\ store' = store /\ excused' = excused
      /\ pc' = pc /\ plan = {}
  OBVIOUS
<1>3. GenerationsAreUnique' /\ SyncIsCurrent' /\ CleanSkillsAreKnown'
  BY <1>2, SameView DEF GenerationsAreUnique, SyncIsCurrent, CleanSkillsAreKnown
<1>4. PlanIsOfChanged'
  <2>1. \A u \in Skill, f \in File : <<u, f>> \in plan' => u = s /\ s \in Changed
    OBVIOUS
  <2>2. s \notin todo' /\ Changed' = Changed
    BY <1>2, SameView
  <2> QED BY <2>1, <2>2 DEF PlanIsOfChanged
<1>5. SyncedFilesAreStored'
  <2> SUFFICES ASSUME NEW u \in Changed, NEW f \in Due(u), pc[r] = "syncing",
                      u \notin todo', <<u, f>> \notin plan', Alone(u),
                      <<Target(u), f>> \notin excused
               PROVE  store[Target(u)][f] = current[u][f]
    BY <1>2, SameView, NoRunAssumption DEF SyncedFilesAreStored, TypeOK, Changed, Seen, Valid
  <2>1. CASE u # s
    BY <1>2, <2>1 DEF SyncedFilesAreStored
  <2>2. CASE u = s
    <3>1. f \in File /\ f \notin Writes(s) /\ s \in Changed
      BY <2>2, MdAssumption DEF Due, Mentioned
    <3>2. Gone(s) /\ f = Md /\ store[s][Md] = Absent
      BY <2>2, <3>1 DEF Writes, Due
    <3> QED BY <2>2, <3>2 DEF Target, Gone
  <2> QED BY <2>1, <2>2
<1> QED BY <1>1, <1>3, <1>4, <1>5

\* One file is written: the store has it as the directory did, and where two
\* directories go to the same skill neither is owed anything.
LEMMA WriteFileStep ==
  ASSUME IInv, NEW r \in Run, NEW s \in Skill, NEW f \in File, WriteFile(r, s, f) PROVE IInv'
<1> USE DEF IInv
<1>1. /\ current' = current /\ mirror' = mirror /\ excused' = excused /\ todo' = todo
      /\ pc' = pc /\ pc[r] = "syncing"
      /\ <<s, f>> \in plan /\ plan' = plan \ {<<s, f>>}
      /\ store' = [store EXCEPT ![Target(s)][f] = current[s][f]]
  BY DEF WriteFile
<1>2. Target(s) \in Skill /\ store \in Trees /\ current[s][f] \in Content /\ s \in Changed
  BY <1>1, TargetsAreSkills DEF TypeOK, Trees, PlanIsOfChanged
<1>3. TypeOK'
  <2>1. store' \in Trees BY <1>1, <1>2 DEF Trees
  <2> QED BY <2>1, <1>1 DEF WriteFile, TypeOK
<1>4. GenerationsAreUnique' /\ SyncIsCurrent' /\ CleanSkillsAreKnown'
  BY <1>1, SameView DEF GenerationsAreUnique, SyncIsCurrent, CleanSkillsAreKnown, WriteFile
<1>5. PlanIsOfChanged'
  BY <1>1, SameView DEF PlanIsOfChanged
<1>6. SyncedFilesAreStored'
  <2> SUFFICES ASSUME NEW u \in Changed, NEW g \in Due(u),
                      u \notin todo, <<u, g>> \notin plan', Alone(u),
                      <<Target(u), g>> \notin excused
               PROVE  store'[Target(u)][g] = current[u][g]
    BY <1>1, SameView DEF SyncedFilesAreStored, TypeOK, Changed, Seen, Valid
  <2>1. u \in Skill /\ g \in File /\ Target(u) \in Skill
    BY TargetsAreSkills, MdAssumption DEF Changed, Seen, Valid, Due, Mentioned
  <2>2. CASE u = s /\ g = f
    BY <1>1, <1>2, <2>2 DEF Trees
  <2>3. CASE Target(u) = Target(s) /\ u # s
    BY <1>2, <2>3 DEF Alone
  <2>4. CASE <<u, g>> # <<s, f>> /\ (Target(u) = Target(s) => u = s)
    <3>1. store[Target(u)][g] = current[u][g]
      BY <1>1, <2>4 DEF SyncedFilesAreStored
    <3>2. store'[Target(u)][g] = store[Target(u)][g]
      BY <1>1, <1>2, <2>1, <2>4 DEF Trees
    <3> QED BY <3>1, <3>2
  <2> QED BY <2>2, <2>3, <2>4
<1> QED BY <1>3, <1>4, <1>5, <1>6

\* What was still to be written of the directory is excused.
LEMMA SyncOneFailsStep ==
  ASSUME IInv, NEW r \in Run, SyncOneFails(r) PROVE IInv'
<1> USE DEF IInv, SyncOneFails
<1>1. TypeOK'
  <2>1. \A p \in plan : Target(p[1]) \in Skill
    BY TargetsAreSkills DEF TypeOK
  <2> QED BY <2>1 DEF TypeOK
<1>2. /\ current' = current /\ mirror' = mirror /\ store' = store /\ todo' = todo /\ pc' = pc
      /\ excused' = excused \cup {<<Target(p[1]), f>> : p \in plan, f \in File}
  OBVIOUS
<1>3. GenerationsAreUnique' /\ SyncIsCurrent' /\ CleanSkillsAreKnown'
  BY <1>2, SameView DEF GenerationsAreUnique, SyncIsCurrent, CleanSkillsAreKnown
<1>4. PlanIsOfChanged'
  BY DEF PlanIsOfChanged
<1>5. SyncedFilesAreStored'
  <2> SUFFICES ASSUME NEW u \in Changed, NEW g \in Due(u),
                      u \notin todo, Alone(u), <<Target(u), g>> \notin excused'
               PROVE  store[Target(u)][g] = current[u][g]
    BY <1>2, SameView DEF SyncedFilesAreStored, TypeOK, Changed, Seen, Valid
  <2>1. g \in File
    BY MdAssumption DEF Due, Mentioned
  <2>2. <<Target(u), g>> \notin excused
    BY <1>2
  <2>3. <<u, g>> \notin plan
    <3> SUFFICES ASSUME <<u, g>> \in plan PROVE FALSE
      OBVIOUS
    <3>1. <<u, g>>[1] = u
      OBVIOUS
    <3> QED BY <1>2, <2>1, <3>1
  <2> QED BY <1>2, <2>2, <2>3 DEF SyncedFilesAreStored
<1> QED BY <1>1, <1>3, <1>4, <1>5

\* The new snapshot is the directory itself.
LEMMA EndSyncStep == ASSUME IInv, NEW r \in Run, EndSync(r) PROVE IInv'
<1> USE DEF IInv, EndSync, Goto
<1>1. TypeOK'
  <2>1. Nothing \in Trees BY NothingIsATree
  <2>2. mirror' \in [gen : Nat, known : Trees] BY DEF TypeOK
  <2>3. \A q \in Run : holder' = q <=> pc'[q] = "syncing"
    BY NoRunAssumption DEF TypeOK
  <2>4. pc' \in [Run -> {"new", "read", "running", "syncing", "done"}]
    BY DEF TypeOK
  <2> QED BY <2>1, <2>2, <2>3, <2>4 DEF TypeOK
<1>2. \A q \in Run : pc'[q] # "syncing"
  BY NoRunAssumption DEF TypeOK
<1>3. mirror'.gen = mirror.gen /\ mirror'.known = disk
  BY DEF TypeOK
<1>4. GenerationsAreUnique' /\ SyncIsCurrent' /\ CleanSkillsAreKnown'
  BY <1>2, <1>3 DEF GenerationsAreUnique, SyncIsCurrent, CleanSkillsAreKnown
<1>5. PlanIsOfChanged' /\ SyncedFilesAreStored'
  BY <1>2 DEF PlanIsOfChanged, SyncedFilesAreStored
<1> QED BY <1>1, <1>4, <1>5

\* What an agent writes is dirty.
LEMMA AgentWritesStep ==
  ASSUME IInv, NEW r \in Run, NEW s \in Skill, NEW f \in File, AgentWrites(r, s, f) PROVE IInv'
<1> USE DEF IInv
<1>1. /\ store' = store /\ mirror' = mirror /\ holder' = holder /\ pc' = pc /\ data' = data
      /\ gen' = gen /\ current' = current /\ todo' = todo /\ plan' = plan /\ torn' = torn
      /\ excused' = excused /\ dirty' = dirty \cup {s}
  BY DEF AgentWrites
<1>2. /\ disk' \in Trees /\ edits' \in 0 .. MaxEdits
      /\ \A u \in Skill : u # s => disk'[u] = disk[u]
  <2>1. disk \in Trees BY DEF TypeOK
  <2> QED BY <2>1, EditsAreTrees DEF AgentWrites, Edit
<1>3. TypeOK'
  BY <1>1, <1>2 DEF TypeOK
<1>4. GenerationsAreUnique' /\ SyncIsCurrent'
  BY <1>1 DEF GenerationsAreUnique, SyncIsCurrent
<1>5. PlanIsOfChanged' /\ SyncedFilesAreStored'
  BY <1>1, SameView DEF PlanIsOfChanged, SyncedFilesAreStored, Changed, Seen, Valid
<1>6. CleanSkillsAreKnown'
  BY <1>1, <1>2, SameView DEF CleanSkillsAreKnown
<1> QED BY <1>3, <1>4, <1>5, <1>6

\* What the user writes while a sync is under way is excused.
LEMMA UserWritesStep ==
  ASSUME IInv, NEW s \in Skill, NEW f \in File, UserWrites(s, f) PROVE IInv'
<1> USE DEF IInv
<1>1. /\ disk' = disk /\ mirror' = mirror /\ holder' = holder /\ pc' = pc /\ data' = data
      /\ gen' = gen /\ current' = current /\ todo' = todo /\ plan' = plan /\ torn' = torn
      /\ dirty' = dirty
      /\ excused' = IF holder = NoRun THEN excused ELSE excused \cup {<<s, f>>}
  BY DEF UserWrites
<1>2. /\ store' \in Trees /\ edits' \in 0 .. MaxEdits
      /\ \A u \in Skill : u # s => store'[u] = store[u]
      /\ \A g \in File : g # f => store'[s][g] = store[s][g]
  <2>1. store \in Trees BY DEF TypeOK
  <2> QED BY <2>1, EditsAreTrees DEF UserWrites, Edit
<1>3. TypeOK'
  BY <1>1, <1>2 DEF TypeOK
<1>4. GenerationsAreUnique' /\ SyncIsCurrent' /\ CleanSkillsAreKnown'
  BY <1>1, SameView DEF GenerationsAreUnique, SyncIsCurrent, CleanSkillsAreKnown
<1>5. PlanIsOfChanged'
  BY <1>1, SameView DEF PlanIsOfChanged
<1>6. SyncedFilesAreStored'
  <2> SUFFICES ASSUME NEW r \in Run, pc[r] = "syncing", NEW u \in Changed, NEW g \in Due(u),
                      u \notin todo, <<u, g>> \notin plan, Alone(u),
                      <<Target(u), g>> \notin excused'
               PROVE  store'[Target(u)][g] = current[u][g]
    BY <1>1, SameView DEF SyncedFilesAreStored, Changed, Seen, Valid
  <2>1. g \in File /\ Target(u) \in Skill
    BY TargetsAreSkills, MdAssumption DEF Due, Mentioned, Changed, Seen, Valid
  <2>2. excused' = excused \cup {<<s, f>>}
    BY <1>1, NoRunAssumption DEF TypeOK
  <2>3. store[Target(u)][g] = current[u][g]
    BY <2>2 DEF SyncedFilesAreStored
  <2> QED BY <1>2, <2>1, <2>2, <2>3
<1> QED BY <1>3, <1>4, <1>5, <1>6

\* Every step preserves the invariant.
LEMMA NextIInv == IInv /\ [Next]_vars => IInv'
<1> SUFFICES ASSUME IInv, [Next]_vars PROVE IInv'
  OBVIOUS
<1>1. CASE UNCHANGED vars
  <2>1. current' = current /\ mirror' = mirror
    BY <1>1 DEF vars
  <2>2. TypeOK' /\ GenerationsAreUnique' /\ SyncIsCurrent' /\ CleanSkillsAreKnown'
    BY <1>1, <2>1, SameView
       DEF vars, IInv, TypeOK, GenerationsAreUnique, SyncIsCurrent, CleanSkillsAreKnown
  <2>3. PlanIsOfChanged' /\ SyncedFilesAreStored'
    BY <1>1, <2>1, SameView
       DEF vars, IInv, PlanIsOfChanged, SyncedFilesAreStored, Changed, Seen, Valid
  <2> QED BY <2>2, <2>3 DEF IInv
<1>2. CASE Next
  BY <1>2, ReadStep, MaterializeStep, MaterializeFailsStep, SkipSyncStep, BeginSyncStep,
     SyncOneStep, WriteFileStep, SyncOneFailsStep, EndSyncStep, AgentWritesStep, UserWritesStep
     DEF Next
<1> QED BY <1>1, <1>2

\* The invariant of every reachable state of the mirror and the store.
THEOREM Invariance == Spec => []IInv
BY InitIInv, NextIInv, PTL DEF Spec

\* The variables keep their types, and the lock is held by the run that syncs.
THEOREM TypeCorrect == Spec => []TypeOK
<1>1. IInv => TypeOK BY DEF IInv
<1> QED BY <1>1, Invariance, PTL

-----------------------------------------------------------------------------
\* The end of a default agent's run writes to the store only from directories
\* an agent wrote since they were materialized.
THEOREM OnlyChangedSkills == Spec => OwnRunsRewriteWhatChanged
<1> DEFINE Good == \A s \in Skill : holder \notin Named /\ ~torn /\ Rewrites(s) => s \in dirty
<1>1. IInv /\ [Next]_vars => [Good]_vars
  <2> SUFFICES ASSUME IInv, Next, NEW s \in Skill,
                      holder \notin Named, ~torn, Rewrites(s)
               PROVE  s \in dirty
    OBVIOUS
  <2>1. store' # store /\ \E f \in File : <<s, f>> \in plan /\ <<s, f>> \notin plan'
    BY DEF Rewrites
  <2>2. PICK r \in Run, q \in Skill, f \in File : WriteFile(r, q, f)
    BY <2>1 DEF Next, Read, Materialize, MaterializeFails, SkipSync, BeginSync, EndSync,
                AgentWrites, UserWrites, SyncOne, SyncOneFails
  <2>3. q = s /\ pc[r] = "syncing" /\ <<s, f>> \in plan
    BY <2>1, <2>2 DEF WriteFile
  <2>4. s \in Seen /\ current[s] # mirror.known[s]
    BY <2>3 DEF IInv, PlanIsOfChanged, Changed
  <2>5. r \notin Named /\ gen[r] = mirror.gen /\ gen[r] # 0
    BY <2>3 DEF IInv, TypeOK, SyncIsCurrent
  <2> QED BY <2>3, <2>4, <2>5 DEF IInv, CleanSkillsAreKnown
<1>2. Spec => [][Good]_vars
  BY <1>1, Invariance, PTL DEF Spec
<1> QED BY <1>2 DEF OwnRunsRewriteWhatChanged

\* A run that ends with a sync has stored what it found in the directory, file
\* by file, but for the files that the user wrote meanwhile, the directories
\* that failed, and those that name one skill together.
THEOREM DirectoryIsStored == Spec => SyncStoresTheDirectory
<1> DEFINE Good == \A r \in Run :
       pc[r] = "syncing" /\ pc'[r] = "done" =>
         \A s \in Changed : \A f \in Due(s) :
           Alone(s) /\ <<Target(s), f>> \notin excused =>
             store[Target(s)][f] = current[s][f]
<1>1. IInv /\ [Next]_vars => [Good]_vars
  <2> SUFFICES ASSUME IInv, Next, NEW r \in Run, pc[r] = "syncing", pc'[r] = "done"
               PROVE  \A s \in Changed : \A f \in Due(s) :
                        Alone(s) /\ <<Target(s), f>> \notin excused =>
                          store[Target(s)][f] = current[s][f]
    OBVIOUS
  <2>1. pc' # pc /\ pc \in [Run -> {"new", "read", "running", "syncing", "done"}]
    BY DEF IInv, TypeOK
  <2>2. PICK q \in Run : \/ Read(q) \/ Materialize(q) \/ MaterializeFails(q)
                         \/ SkipSync(q) \/ BeginSync(q) \/ EndSync(q)
    <3>1. \A q \in Run : SyncOneFails(q) => pc' = pc
      BY DEF SyncOneFails
    <3>2. \A q \in Run, s \in Skill : SyncOne(q, s) => pc' = pc
      BY DEF SyncOne
    <3>3. \A q \in Run, s \in Skill, f \in File :
            AgentWrites(q, s, f) \/ WriteFile(q, s, f) => pc' = pc
      BY DEF AgentWrites, WriteFile
    <3>4. \A s \in Skill, f \in File : UserWrites(s, f) => pc' = pc
      BY DEF UserWrites
    <3> QED BY <2>1, <3>1, <3>2, <3>3, <3>4 DEF Next
  <2>3. q = r
    <3>1. \E v : pc' = [pc EXCEPT ![q] = v]
      BY <2>2 DEF Goto, Read, Materialize, MaterializeFails, SkipSync, BeginSync, EndSync
    <3> QED BY <2>1, <3>1
  <2>4. EndSync(r)
    BY <2>2, <2>3 DEF Read, Materialize, MaterializeFails, SkipSync, BeginSync
  <2> QED BY <2>4 DEF IInv, EndSync, SyncedFilesAreStored
<1>2. Spec => [][Good]_vars
  BY <1>1, Invariance, PTL DEF Spec
<1> QED BY <1>2 DEF SyncStoresTheDirectory

-----------------------------------------------------------------------------
(* The directory and its git repository. *)

\* What a thread may have left to do: the last n commands of the longest list.
Longest == <<"add", "identity", "remove remote", "add remote", "helper", "add", "commit", "move HEAD">>
Rest(n) == SubSeq(Longest, 9 - n, 8)
Word == {"add", "identity", "remove remote", "add remote", "helper", "commit", "move HEAD"}

LEMMA RestSteps ==
  /\ Rest(0) = <<>> /\ Rest(7) = Commands /\ Rest(8) = <<"add">> \o Commands
  /\ \A n \in 0 .. 8 : Len(Rest(n)) = n /\ Rest(n) \in Seq(Word)
  /\ \A n \in 1 .. 8 : Rest(n) # <<>> /\ Head(Rest(n)) = Longest[9 - n] /\ Tail(Rest(n)) = Rest(n - 1)
<1>1. Longest \in Seq(Word) /\ Len(Longest) = 8 /\ Commands \in Seq(Word) /\ Len(Commands) = 7
      /\ <<"add">> \in Seq(Word) /\ Len(<<"add">>) = 1
  BY DEF Longest, Commands, Word
<1>a. /\ Longest[1] = <<"add">>[1]
      /\ Longest[1 + 1] = Commands[1] /\ Longest[2] = Commands[2 - 1]
      /\ Longest[2 + 1] = Commands[2] /\ Longest[3] = Commands[3 - 1]
      /\ Longest[3 + 1] = Commands[3] /\ Longest[4] = Commands[4 - 1]
      /\ Longest[4 + 1] = Commands[4] /\ Longest[5] = Commands[5 - 1]
      /\ Longest[5 + 1] = Commands[5] /\ Longest[6] = Commands[6 - 1]
      /\ Longest[6 + 1] = Commands[6] /\ Longest[7] = Commands[7 - 1]
      /\ Longest[7 + 1] = Commands[7] /\ Longest[8] = Commands[8 - 1]
  BY DEF Longest, Commands
<1>2. ASSUME NEW n \in 0 .. 8
      PROVE  /\ Rest(n) \in Seq(Word) /\ Len(Rest(n)) = n
             /\ \A i \in 1 .. n : Rest(n)[i] = Longest[9 - n + i - 1]
  <2>1. \A i \in 9 - n .. 8 : i \in 1 .. 8
    OBVIOUS
  <2>2. \A i \in 1 .. 8 : Longest[i] \in Word
    BY <1>1, ElementOfSeq
  <2>3. 9 - n \in Int /\ 8 \in Int /\ 8 - (9 - n) + 1 = n /\ (IF 9 - n <= 8 THEN 8 - (9 - n) + 1 ELSE 0) = n
    OBVIOUS
  <2>4. /\ SubSeq(Longest, 9 - n, 8) \in Seq(Word)
        /\ Len(SubSeq(Longest, 9 - n, 8)) = IF 9 - n <= 8 THEN 8 - (9 - n) + 1 ELSE 0
        /\ \A i \in 1 .. 8 - (9 - n) + 1 : SubSeq(Longest, 9 - n, 8)[i] = Longest[9 - n + i - 1]
    <3>1. \A i \in 9 - n .. 8 : Longest[i] \in Word
      BY <2>1, <2>2
    <3> QED BY <2>3, <3>1, SubSeqProperties
  <2> QED BY <2>3, <2>4 DEF Rest
<1>3. Rest(0) = <<>>
  BY <1>2, EmptySeq
<1>4. Rest(7) = Commands
  <2>1. Rest(7) \in Seq(Word) /\ Len(Rest(7)) = 7 /\ \A i \in 1 .. 7 : Rest(7)[i] = Longest[i + 1]
    <3>1. 7 \in 0 .. 8 /\ \A i \in 1 .. 7 : 9 - 7 + i - 1 = i + 1
      OBVIOUS
    <3> QED BY <1>2, <3>1
  <2>2. \A i \in 1 .. 7 : Longest[i + 1] = Commands[i]
    <3> SUFFICES ASSUME NEW i \in 1 .. 7 PROVE Longest[i + 1] = Commands[i]
      OBVIOUS
    <3>1. i = 1 \/ i = 2 \/ i = 3 \/ i = 4 \/ i = 5 \/ i = 6 \/ i = 7
      OBVIOUS
    <3> QED BY <1>a, <3>1
  <2> DEFINE rest == Rest(7)
             all == Commands
  <2>3. rest \in Seq(Word) /\ all \in Seq(Word) /\ Len(rest) = Len(all) /\ Len(rest) = 7
    BY <1>1, <2>1
  <2>4. \A i \in 1 .. 7 : rest[i] = all[i]
    BY <2>1, <2>2
  <2> HIDE DEF rest, all
  <2>5. rest = all
    BY <2>3, <2>4, SeqEqual
  <2> QED BY <2>5 DEF rest, all
<1>5. Rest(8) = <<"add">> \o Commands
  <2>1. Rest(8) \in Seq(Word) /\ Len(Rest(8)) = 8 /\ \A i \in 1 .. 8 : Rest(8)[i] = Longest[i]
    <3>1. 8 \in 0 .. 8 /\ \A i \in 1 .. 8 : 9 - 8 + i - 1 = i
      OBVIOUS
    <3> QED BY <1>2, <3>1
  <2>2. /\ <<"add">> \o Commands \in Seq(Word) /\ Len(<<"add">> \o Commands) = 8
        /\ \A i \in 1 .. 8 : (<<"add">> \o Commands)[i] = IF i <= 1 THEN <<"add">>[i] ELSE Commands[i - 1]
    <3>1. /\ <<"add">> \o Commands \in Seq(Word)
          /\ Len(<<"add">> \o Commands) = Len(<<"add">>) + Len(Commands)
          /\ \A i \in 1 .. Len(<<"add">>) + Len(Commands) :
               (<<"add">> \o Commands)[i] = IF i <= Len(<<"add">>) THEN <<"add">>[i] ELSE Commands[i - Len(<<"add">>)]
      BY <1>1, ConcatProperties
    <3>2. 1 + 7 = 8
      OBVIOUS
    <3> HIDE DEF Commands
    <3> QED BY <1>1, <3>1, <3>2
  <2>3. \A i \in 1 .. 8 : Longest[i] = IF i <= 1 THEN <<"add">>[i] ELSE Commands[i - 1]
    <3> SUFFICES ASSUME NEW i \in 1 .. 8 PROVE Longest[i] = IF i <= 1 THEN <<"add">>[i] ELSE Commands[i - 1]
      OBVIOUS
    <3>1. i = 1 \/ i = 2 \/ i = 3 \/ i = 4 \/ i = 5 \/ i = 6 \/ i = 7 \/ i = 8
      OBVIOUS
    <3> QED BY <1>a, <3>1
  <2> DEFINE both == <<"add">> \o Commands
             full == Rest(8)
  <2>4. both \in Seq(Word) /\ full \in Seq(Word) /\ Len(full) = Len(both) /\ Len(full) = 8
    BY <2>1, <2>2
  <2>5. \A i \in 1 .. 8 : full[i] = both[i]
    BY <2>1, <2>2, <2>3
  <2> HIDE DEF both, full
  <2>6. full = both
    BY <2>4, <2>5, SeqEqual
  <2> QED BY <2>6 DEF both, full
<1>6. ASSUME NEW n \in 1 .. 8
      PROVE  Rest(n) # <<>> /\ Head(Rest(n)) = Longest[9 - n] /\ Tail(Rest(n)) = Rest(n - 1)
  <2>1. n \in 0 .. 8 /\ n - 1 \in 0 .. 8 /\ 9 - n \in 1 .. 8 /\ 8 \in 9 - n .. 8 /\ 9 - (n - 1) = 9 - n + 1
    OBVIOUS
  <2>2. Rest(n) # <<>>
    <3>1. Len(Rest(n)) = n
      BY <1>2, <2>1, Zenon
    <3>3. n # 0
      OBVIOUS
    <3>2. Len(<<>>) = 0
      OBVIOUS
    <3> QED BY <3>1, <3>2, <3>3
  <2>3. /\ Head(SubSeq(Longest, 9 - n, 8)) = Longest[9 - n]
        /\ Tail(SubSeq(Longest, 9 - n, 8)) = SubSeq(Longest, 9 - n + 1, 8)
    BY <1>1, <2>1, HeadTailOfSubSeq
  <2> QED BY <2>1, <2>2, <2>3 DEF Rest
<1> QED BY <1>2, <1>3, <1>4, <1>5, <1>6

Locks == {"index", "config", "HEAD"}

Running(t) == t \in Worker /\ runOf[t] # Unassigned

GitTypeOK ==
  /\ tree \in [Dir -> Nat] /\ index \in [Dir -> Nat] /\ head \in [Dir -> Nat]
  /\ lockFile \in [Locks -> Thread \cup {NoHolder, Stale}]
  /\ commands \in [Thread -> Seq(Word)] /\ \A t \in Thread : \E n \in 0 .. 8 : commands[t] = Rest(n)
  /\ scan \in [Thread -> [Dir -> Nat]] /\ runOf \in [Worker -> Dir \cup {Unassigned}]
  /\ fileEdits \in Nat /\ remote \in BOOLEAN /\ disturbed \in BOOLEAN

LocksAreHeld == \A t \in Thread, l \in Locks :
  lockFile[l] = t => commands[t] # <<>> /\ LockOf(Command(t)) = l

RunsHaveNoCommands == \A t \in Thread : Running(t) => commands[t] = <<>>

\* The thread has an `add` still to begin.
WillAdd(t) == \/ Running(t) \/ Len(commands[t]) >= 4
              \/ Len(commands[t]) = 3 /\ lockFile["index"] # t

\* Its last `add` is under way.
Adding(t) == lockFile["index"] = t /\ Len(commands[t]) = 3

TreeIsAdded == \/ \E t \in Thread : WillAdd(t)
               \/ \E t \in Thread : Adding(t) /\ scan[t] = tree
               \/ index = tree /\ \A t \in Thread : ~Adding(t)

\* The thread's commit has still to read the index.
WillCommit(t) == \/ Running(t) \/ Len(commands[t]) >= 2
                 \/ Len(commands[t]) = 1 /\ lockFile["HEAD"] # t

IndexIsCommitted == \/ \E t \in Thread : WillCommit(t)
                    \/ \E t \in Thread : lockFile["HEAD"] = t /\ scan[t] = index
                    \/ head = index /\ \A t \in Thread : lockFile["HEAD"] # t

\* What the threads have left makes up for what is not committed yet.
RestCommits == ~disturbed =>
  /\ \A l \in Locks : lockFile[l] # Stale
  /\ TreeIsAdded
  /\ IndexIsCommitted
  /\ remote \/ \E t \in Thread : Running(t) \/ Len(commands[t]) >= 5

GitInv == GitTypeOK /\ LocksAreHeld /\ RunsHaveNoCommands /\ RestCommits

LEMMA GitInitHolds == GitInit => GitInv
<1> SUFFICES ASSUME GitInit PROVE GitInv
  OBVIOUS
<1>1. /\ tree = [u \in Dir |-> 1] /\ index = tree /\ head = tree /\ remote = TRUE /\ disturbed = FALSE
      /\ lockFile = [l \in Locks |-> NoHolder] /\ fileEdits = 0
      /\ commands = [t \in Thread |-> <<>>] /\ scan = [t \in Thread |-> Unseen]
      /\ runOf = [t \in Worker |-> Unassigned]
  BY DEF GitInit, Locks
<1>2. NoHolder # Stale /\ NoHolder \notin Thread
  BY GitAssumption DEF NoHolder, Stale, Thread, EventLoop
<1>3. Unseen \in [Dir -> Nat]
  BY DEF Unseen, NoDir
<1>4. <<>> = Rest(0) /\ 0 \in 0 .. 8 /\ <<>> \in Seq(Word)
  BY RestSteps, EmptySeq
<1>5. GitTypeOK
  BY <1>1, <1>3, <1>4 DEF GitTypeOK
<1>6. LocksAreHeld /\ RunsHaveNoCommands
  BY <1>1, <1>2 DEF LocksAreHeld, RunsHaveNoCommands, Running
<1>7. \A t \in Thread : ~Adding(t) /\ lockFile["HEAD"] # t
  BY <1>1, <1>2 DEF Adding, Locks
<1>8. RestCommits
  BY <1>1, <1>2, <1>7 DEF RestCommits, TreeIsAdded, IndexIsCommitted
<1> QED BY <1>5, <1>6, <1>8 DEF GitInv

LEMMA CommandIs ==
  ASSUME GitTypeOK, NEW t \in Thread, commands[t] # <<>>
  PROVE  \E n \in 1 .. 8 :
           /\ commands[t] = Rest(n) /\ Len(commands[t]) = n /\ Tail(commands[t]) = Rest(n - 1)
           /\ Len(Tail(commands[t])) = n - 1 /\ Tail(commands[t]) \in Seq(Word)
           /\ Command(t) = "add" <=> n \in {3, 8}
           /\ Command(t) = "commit" <=> n = 2
           /\ Command(t) = "move HEAD" <=> n = 1
           /\ Command(t) = "remove remote" <=> n = 6
           /\ Command(t) = "add remote" <=> n = 5
<1>1. PICK n \in 0 .. 8 : commands[t] = Rest(n)
  BY DEF GitTypeOK
<1>2. n \in 1 .. 8 /\ n - 1 \in 0 .. 8
  <2>1. n # 0
    BY <1>1, RestSteps
  <2> QED BY <2>1
<1>3. Head(commands[t]) = Longest[9 - n] /\ Tail(commands[t]) = Rest(n - 1)
      /\ Len(commands[t]) = n /\ Len(Rest(n - 1)) = n - 1 /\ Rest(n - 1) \in Seq(Word)
  BY <1>1, <1>2, RestSteps
<1>4. n = 1 \/ n = 2 \/ n = 3 \/ n = 4 \/ n = 5 \/ n = 6 \/ n = 7 \/ n = 8
  BY <1>2
<1>5. /\ Longest[9 - 1] = "move HEAD" /\ Longest[9 - 2] = "commit" /\ Longest[9 - 3] = "add"
      /\ Longest[9 - 4] = "helper" /\ Longest[9 - 5] = "add remote"
      /\ Longest[9 - 6] = "remove remote" /\ Longest[9 - 7] = "identity" /\ Longest[9 - 8] = "add"
  BY DEF Longest
<1>6. /\ Command(t) = "add" <=> n \in {3, 8}
      /\ Command(t) = "commit" <=> n = 2
      /\ Command(t) = "move HEAD" <=> n = 1
      /\ Command(t) = "remove remote" <=> n = 6
      /\ Command(t) = "add remote" <=> n = 5
  BY <1>3, <1>4, <1>5 DEF Command
<1> QED BY <1>1, <1>2, <1>3, <1>6

\* Waking the workspace up: what a rest with every lock free makes of `disturbed`.
LEMMA WakeHolds ==
  ASSUME GitInv, Wake, lockFile' = lockFile, ~disturbed'
  PROVE  /\ \A l \in Locks : lockFile[l] # Stale
         /\ AtRest \/ (~disturbed /\ TreeIsAdded)
<1>1. CASE AtRest
  <2>1. \A l \in DOMAIN lockFile : lockFile[l] = NoHolder
    BY <1>1 DEF Wake
  <2>2. DOMAIN lockFile = Locks /\ NoHolder # Stale
    BY DEF GitInv, GitTypeOK, NoHolder, Stale
  <2> QED BY <1>1, <2>1, <2>2
<1>2. CASE ~AtRest
  <2>1. ~disturbed
    BY <1>2 DEF Wake
  <2> QED BY <2>1 DEF GitInv, RestCommits
<1> QED BY <1>1, <1>2

LEMMA WakeType == GitTypeOK /\ Wake => disturbed' \in BOOLEAN
BY DEF GitTypeOK, Wake

LEMMA BeginRunHolds ==
  ASSUME GitInv, NEW t \in Worker, NEW u \in Dir, BeginRun(t, u) PROVE GitInv'
<1>1. /\ tree' = tree /\ index' = index /\ head' = head /\ remote' = remote /\ lockFile' = lockFile
      /\ commands' = commands /\ scan' = scan /\ fileEdits' = fileEdits
      /\ runOf' = [runOf EXCEPT ![t] = u] /\ commands[t] = <<>> /\ Wake
  BY DEF BeginRun, Repo
<1>2. GitTypeOK
  BY DEF GitInv
<1>3. GitTypeOK'
  BY <1>1, <1>2, WakeType DEF GitTypeOK
<1>4. LocksAreHeld'
  BY <1>1 DEF GitInv, LocksAreHeld, Command
<1>5. RunsHaveNoCommands'
  BY <1>1, <1>2 DEF GitInv, GitTypeOK, RunsHaveNoCommands, Running
<1>6. t \in Thread /\ Running(t)' /\ ~AtRest'
  <2>1. runOf'[t] = u /\ u # Unassigned
    BY <1>1, <1>2, GitAssumption DEF GitTypeOK
  <2> QED BY <2>1 DEF Thread, Running, AtRest
<1>7. WillAdd(t)'
  BY <1>6 DEF WillAdd
<1>8. RestCommits'
  BY <1>1, <1>6, <1>7, WakeHolds DEF RestCommits, TreeIsAdded, IndexIsCommitted, WillCommit
<1> QED BY <1>3, <1>4, <1>5, <1>8 DEF GitInv

LEMMA EditFilesHolds ==
  ASSUME GitInv, NEW t \in Worker, EditFiles(t) PROVE GitInv'
<1>1. /\ index' = index /\ head' = head /\ remote' = remote /\ lockFile' = lockFile
      /\ commands' = commands /\ scan' = scan /\ disturbed' = disturbed /\ runOf' = runOf
      /\ fileEdits' = fileEdits + 1 /\ runOf[t] # Unassigned
      /\ \E v \in 1 .. fileEdits + 2 : tree' = [tree EXCEPT ![runOf[t]] = v]
  BY DEF EditFiles, Repo
<1>2. GitTypeOK
  BY DEF GitInv
<1>3. GitTypeOK'
  BY <1>1, <1>2 DEF GitTypeOK
<1>4. LocksAreHeld' /\ RunsHaveNoCommands'
  BY <1>1 DEF GitInv, LocksAreHeld, Command, RunsHaveNoCommands, Running
<1>5. t \in Thread /\ Running(t)' /\ ~AtRest'
  BY <1>1 DEF Thread, Running, AtRest
<1>6. TreeIsAdded' /\ IndexIsCommitted'
  BY <1>5 DEF TreeIsAdded, WillAdd, IndexIsCommitted, WillCommit
<1>7. RestCommits'
  BY <1>1, <1>5, <1>6 DEF GitInv, RestCommits
<1> QED BY <1>3, <1>4, <1>7 DEF GitInv

LEMMA EndRunHolds ==
  ASSUME GitInv, NEW t \in Worker, EndRun(t) PROVE GitInv'
<1>1. /\ tree' = tree /\ index' = index /\ head' = head /\ remote' = remote /\ lockFile' = lockFile
      /\ scan' = scan /\ disturbed' = disturbed /\ fileEdits' = fileEdits
      /\ runOf' = [runOf EXCEPT ![t] = Unassigned] /\ runOf[t] # Unassigned
      /\ commands' = [commands EXCEPT ![t] = Commands]
  BY DEF EndRun, Repo
<1>2. GitTypeOK /\ t \in Thread
  BY DEF GitInv, Thread
<1>3. Commands = Rest(7) /\ Len(Commands) = 7 /\ Commands # <<>> /\ Commands \in Seq(Word) /\ 7 \in 0 .. 8
  <2>1. 7 \in 0 .. 8 /\ 7 \in 1 .. 8
    OBVIOUS
  <2> QED BY <2>1, RestSteps
<1>4. commands'[t] = Commands /\ runOf'[t] = Unassigned /\ commands[t] = <<>>
      /\ \A d \in Thread \ {t} : commands'[d] = commands[d] /\ (Running(d)' <=> Running(d))
  BY <1>1, <1>2 DEF GitInv, GitTypeOK, RunsHaveNoCommands, Running
<1>5. GitTypeOK'
  BY <1>1, <1>2, <1>3 DEF GitTypeOK
<1>6. \A l \in Locks : lockFile[l] # t
  BY <1>2, <1>4 DEF GitInv, LocksAreHeld
<1>7. LocksAreHeld'
  BY <1>1, <1>4, <1>6 DEF GitInv, LocksAreHeld, Command
<1>8. RunsHaveNoCommands'
  BY <1>1, <1>4 DEF GitInv, RunsHaveNoCommands, Running
<1>9. WillAdd(t)' /\ WillCommit(t)' /\ Len(commands'[t]) >= 5 /\ ~AtRest'
  <2>1. Len(commands'[t]) = 7 /\ commands'[t] # <<>>
    BY <1>3, <1>4
  <2> QED BY <1>2, <2>1 DEF WillAdd, WillCommit, AtRest
<1>10. RestCommits'
  <2>1. TreeIsAdded' /\ IndexIsCommitted'
    BY <1>2, <1>9 DEF TreeIsAdded, IndexIsCommitted
  <2> QED BY <1>1, <1>2, <1>9, <2>1 DEF GitInv, RestCommits
<1> QED BY <1>5, <1>7, <1>8, <1>10 DEF GitInv

LEMMA ChangeUserHolds ==
  ASSUME GitInv, NEW u \in Dir, ChangeUser(u) PROVE GitInv'
<1> DEFINE t == EventLoop
           all == <<"add">> \o Commands
<1>1. /\ index' = index /\ head' = head /\ remote' = remote /\ lockFile' = lockFile
      /\ scan' = scan /\ runOf' = runOf /\ fileEdits' = fileEdits + 1
      /\ tree' = [tree EXCEPT ![u] = IF @ = NoDir THEN fileEdits + 2 ELSE NoDir]
      /\ commands[t] = <<>> /\ commands' = [commands EXCEPT ![t] = all] /\ Wake
  BY DEF ChangeUser, Repo, LoopFree
<1>2. GitTypeOK /\ t \in Thread /\ t \notin Worker
  BY GitAssumption DEF GitInv, Thread
<1>3. all = Rest(8) /\ Len(all) = 8 /\ all # <<>> /\ all \in Seq(Word) /\ 8 \in 0 .. 8
  <2>1. 8 \in 0 .. 8 /\ 8 \in 1 .. 8
    OBVIOUS
  <2>2. all = Rest(8) /\ Rest(8) \in Seq(Word) /\ Len(Rest(8)) = 8 /\ Rest(8) # <<>>
    BY <2>1, RestSteps
  <2> HIDE DEF all
  <2> QED BY <2>1, <2>2
<1> HIDE DEF all, t
<1>4. commands'[t] = all /\ \A d \in Thread \ {t} : commands'[d] = commands[d]
  BY <1>1, <1>2 DEF GitTypeOK
<1>5. GitTypeOK'
  <2>1. tree' \in [Dir -> Nat]
    BY <1>1, <1>2 DEF GitTypeOK, NoDir
  <2>2. commands' \in [Thread -> Seq(Word)] /\ \A d \in Thread : \E n \in 0 .. 8 : commands'[d] = Rest(n)
    BY <1>1, <1>2, <1>3 DEF GitTypeOK
  <2> QED BY <1>1, <1>2, <2>1, <2>2, WakeType DEF GitTypeOK
<1>6. \A l \in Locks : lockFile[l] # t
  BY <1>1, <1>2 DEF GitInv, LocksAreHeld
<1>7. LocksAreHeld'
  BY <1>1, <1>4, <1>6 DEF GitInv, LocksAreHeld, Command
<1>8. RunsHaveNoCommands'
  BY <1>1, <1>2, <1>4 DEF GitInv, RunsHaveNoCommands, Running
<1>9. WillAdd(t)' /\ WillCommit(t)' /\ Len(commands'[t]) >= 5 /\ ~AtRest'
  BY <1>2, <1>3, <1>4, SMTT(30) DEF WillAdd, WillCommit, AtRest
<1>10. RestCommits'
  BY <1>1, <1>2, <1>9, WakeHolds DEF RestCommits, TreeIsAdded, IndexIsCommitted
<1> QED BY <1>5, <1>7, <1>8, <1>10 DEF GitInv

LEMMA BeginCommandHolds ==
  ASSUME GitInv, NEW t \in Thread, BeginCommand(t) PROVE GitInv'
<1> DEFINE k == LockOf(Command(t))
<1>1. /\ tree' = tree /\ index' = index /\ head' = head /\ remote' = remote /\ runOf' = runOf
      /\ commands' = commands /\ disturbed' = disturbed /\ fileEdits' = fileEdits
      /\ commands[t] # <<>> /\ lockFile[k] = NoHolder /\ lockFile' = [lockFile EXCEPT ![k] = t]
      /\ Command(t) = "add" => scan' = [scan EXCEPT ![t] = tree]
      /\ Command(t) = "move HEAD" => scan' = [scan EXCEPT ![t] = index]
      /\ Command(t) \notin {"add", "move HEAD"} => scan' = scan
  BY DEF BeginCommand, LockedBy, Ready, Refused
<1>2. GitTypeOK /\ k \in Locks /\ (Command(t) = "add" => k = "index")
      /\ (Command(t) = "move HEAD" <=> k = "HEAD") /\ t # NoHolder /\ t # Stale
  BY GitAssumption DEF GitInv, LockOf, Locks, Thread, EventLoop, NoHolder, Stale
<1>a. scan' \in [Thread -> [Dir -> Nat]] /\ \A d \in Thread \ {t} : scan'[d] = scan[d]
  BY <1>1, <1>2 DEF GitTypeOK
<1>3. GitTypeOK'
  BY <1>1, <1>2, <1>a DEF GitTypeOK
<1>4. lockFile'[k] = t /\ \A l \in Locks \ {k} : lockFile'[l] = lockFile[l]
  BY <1>1, <1>2 DEF GitTypeOK
<1>5. LocksAreHeld'
  BY <1>1, <1>4 DEF GitInv, LocksAreHeld, Command, LockOf
<1>6. RunsHaveNoCommands'
  BY <1>1 DEF GitInv, RunsHaveNoCommands, Running
<1>7. ASSUME TreeIsAdded, ~disturbed PROVE TreeIsAdded'
  <2>1. PICK n \in 1 .. 8 : Len(commands[t]) = n /\ (Command(t) = "add" <=> n \in {3, 8})
    BY <1>1, <1>2, CommandIs
  <2>2. CASE \E d \in Thread : WillAdd(d)'
    BY <2>2 DEF TreeIsAdded
  <2>3. CASE ~\E d \in Thread : WillAdd(d)'
    <3>1. \A d \in Thread \ {t} : ~WillAdd(d)
      <4>1. \A d \in Thread \ {t} : lockFile'["index"] = d => lockFile["index"] = d
        BY <1>2, <1>4 DEF Locks
      <4> QED BY <1>1, <2>3, <4>1 DEF WillAdd, Running
    <3>2. CASE Command(t) = "add"
      <4>1. n = 3 /\ lockFile'["index"] = t /\ scan'[t] = tree
        <5>1. ~(Len(commands[t]) >= 4)
          BY <1>1, <2>3 DEF WillAdd
        <5>2. n = 3
          <6>1. n = 3 \/ n = 8
            BY <2>1, <3>2
          <6>2. ~(n >= 4)
            BY <2>1, <5>1
          <6> QED BY <6>1, <6>2
        <5> QED BY <1>1, <1>2, <1>4, <3>2, <5>2 DEF GitTypeOK
      <4> QED BY <1>1, <2>1, <4>1 DEF TreeIsAdded, Adding
    <3>3. CASE Command(t) # "add"
      <4>1. n # 3
        BY <2>1, <3>3
      <4>2. ~WillAdd(t)
        BY <1>1, <2>1, <2>3, <4>1 DEF WillAdd, Running
      <4>3. \A d \in Thread : Adding(d)' => d # t /\ Adding(d)
        BY <1>1, <1>2, <1>4, <2>1, <4>1 DEF Adding, Locks
      <4>4. \A d \in Thread : Adding(d) => Adding(d)'
        <5> SUFFICES ASSUME NEW d \in Thread, Adding(d) PROVE Adding(d)'
          OBVIOUS
        <5>1. d # NoHolder
          BY GitAssumption DEF Thread, EventLoop, NoHolder
        <5>2. k # "index"
          BY <1>1, <5>1 DEF Adding
        <5> QED BY <1>1, <1>4, <5>2 DEF Adding, Locks
      <4>5. \A d \in Thread : Adding(d) => scan'[d] = scan[d]
        BY <1>a, <2>1, <4>1 DEF Adding
      <4> QED BY <1>1, <1>7, <3>1, <4>2, <4>3, <4>4, <4>5 DEF TreeIsAdded
    <3> QED BY <3>2, <3>3
  <2> QED BY <2>2, <2>3
<1>9. ASSUME IndexIsCommitted PROVE IndexIsCommitted'
  <2>1. CASE Command(t) = "move HEAD"
    <3>1. lockFile'["HEAD"] = t /\ scan'[t] = index'
      BY <1>1, <1>2, <1>4, <2>1 DEF GitTypeOK
    <3> QED BY <3>1 DEF IndexIsCommitted
  <2>2. CASE Command(t) # "move HEAD"
    <3>1. lockFile'["HEAD"] = lockFile["HEAD"] /\ lockFile["HEAD"] # t
      BY <1>1, <1>2, <1>4, <2>2 DEF GitInv, LocksAreHeld, Locks
    <3>2. \A d \in Thread : WillCommit(d) => WillCommit(d)'
      BY <1>1, <3>1 DEF WillCommit, Running
    <3> QED BY <1>1, <1>9, <1>a, <3>1, <3>2 DEF IndexIsCommitted
  <2> QED BY <2>1, <2>2
<1>8. RestCommits'
  <2> SUFFICES ASSUME ~disturbed PROVE RestCommits'
    BY <1>1 DEF RestCommits
  <2>1. \A l \in Locks : lockFile'[l] # Stale
    BY <1>2, <1>4 DEF GitInv, RestCommits
  <2> QED BY <1>1, <1>7, <1>9, <2>1 DEF GitInv, RestCommits, Running
<1> QED BY <1>3, <1>5, <1>6, <1>8 DEF GitInv

\* Whether it gives the rest up or goes on, a thread has the end of the longest list left.
LEMMA RestIsLeft ==
  ASSUME GitTypeOK, NEW t \in Thread, commands[t] # <<>>
  PROVE  \A b \in BOOLEAN : \E m \in 0 .. 8 : (IF b THEN <<>> ELSE Tail(commands[t])) = Rest(m)
<1>1. PICK n \in 1 .. 8 : Tail(commands[t]) = Rest(n - 1)
  BY CommandIs
<1>2. n - 1 \in 0 .. 8 /\ 0 \in 0 .. 8 /\ <<>> = Rest(0)
  BY RestSteps
<1> QED BY <1>1, <1>2

\* A command found a lock taken or was killed: only the shape of the state is left.
LEMMA DisturbedHolds ==
  ASSUME GitInv, NEW t \in Thread, NEW n \in 0 .. 8, disturbed',
         commands' = [commands EXCEPT ![t] = Rest(n)],
         tree' = tree, index' = index, head' = head, remote' = remote, runOf' = runOf,
         fileEdits' = fileEdits, disturbed' \in BOOLEAN,
         scan' \in [Thread -> [Dir -> Nat]], commands[t] # <<>>,
         \/ lockFile' = lockFile /\ \A l \in Locks : lockFile[l] # t
         \/ \E k \in Locks :
              /\ lockFile' = [lockFile EXCEPT ![k] = Stale]
              /\ \A l \in Locks \ {k} : lockFile[l] # t
  PROVE  GitInv'
<1>1. GitTypeOK /\ Rest(n) \in Seq(Word)
  BY RestSteps DEF GitInv
<1>2. commands'[t] = Rest(n) /\ \A d \in Thread \ {t} : commands'[d] = commands[d]
  BY <1>1 DEF GitTypeOK
<1>3. lockFile' \in [Locks -> Thread \cup {NoHolder, Stale}]
  BY <1>1 DEF GitTypeOK
<1>4. GitTypeOK'
  BY <1>1, <1>3 DEF GitTypeOK
<1>5. \A d \in Thread : d # Stale
  BY GitAssumption DEF Thread, EventLoop, Stale
<1>6. \A d \in Thread, l \in Locks : lockFile'[l] = d => lockFile[l] = d /\ d # t
  BY <1>1, <1>5 DEF GitTypeOK
<1>7. LocksAreHeld'
  <2> SUFFICES ASSUME NEW d \in Thread, NEW l \in Locks, lockFile'[l] = d
               PROVE  commands'[d] # <<>> /\ LockOf(Head(commands'[d])) = l
    BY DEF LocksAreHeld, Command, LockOf
  <2>1. lockFile[l] = d /\ d # t /\ commands'[d] = commands[d]
    BY <1>2, <1>6
  <2> QED BY <2>1 DEF GitInv, LocksAreHeld, Command
<1>8. RunsHaveNoCommands'
  BY <1>2 DEF GitInv, RunsHaveNoCommands, Running
<1>9. RestCommits'
  BY DEF RestCommits
<1> QED BY <1>4, <1>7, <1>8, <1>9 DEF GitInv

LEMMA FailCommandHolds ==
  ASSUME GitInv, NEW t \in Thread, FailCommand(t) PROVE GitInv'
<1> DEFINE c == IF Command(t) = "commit" THEN <<>> ELSE Tail(commands[t])
<1>1. /\ tree' = tree /\ index' = index /\ head' = head /\ remote' = remote /\ runOf' = runOf
      /\ lockFile' = lockFile /\ scan' = scan /\ disturbed' = TRUE /\ fileEdits' = fileEdits
      /\ commands[t] # <<>> /\ lockFile[LockOf(Command(t))] # t
      /\ commands' = [commands EXCEPT ![t] = c]
  BY DEF FailCommand, LockedBy, Ready, Repo
<1>2. GitTypeOK
  BY DEF GitInv
<1>3. \E m \in 0 .. 8 : c = Rest(m)
  BY <1>1, <1>2, RestIsLeft
<1>4. scan' \in [Thread -> [Dir -> Nat]]
  BY <1>1, <1>2 DEF GitTypeOK
<1>5. \A l \in Locks : lockFile[l] # t
  BY <1>1 DEF GitInv, LocksAreHeld
<1> HIDE DEF c
<1> QED BY <1>1, <1>3, <1>4, <1>5, DisturbedHolds

LEMMA KillCommandHolds ==
  ASSUME GitInv, NEW t \in Thread, KillCommand(t) PROVE GitInv'
<1> DEFINE k == LockOf(Command(t))
           c == IF Command(t) \in {"add", "commit"} THEN <<>> ELSE Tail(commands[t])
<1>1. /\ tree' = tree /\ index' = index /\ head' = head /\ remote' = remote /\ runOf' = runOf
      /\ disturbed' = TRUE /\ fileEdits' = fileEdits
      /\ commands[t] # <<>> /\ lockFile' = [lockFile EXCEPT ![k] = Stale]
      /\ commands' = [commands EXCEPT ![t] = c] /\ scan' = [scan EXCEPT ![t] = Unseen]
  BY DEF KillCommand
<1>2. GitTypeOK /\ k \in Locks
  BY DEF GitInv, LockOf, Locks
<1>3. \E m \in 0 .. 8 : c = Rest(m)
  BY <1>1, <1>2, RestIsLeft
<1>5. scan' \in [Thread -> [Dir -> Nat]]
  BY <1>1, <1>2 DEF GitTypeOK, Unseen, NoDir
<1>6. \A l \in Locks \ {k} : lockFile[l] # t
  BY <1>1 DEF GitInv, LocksAreHeld
<1> HIDE DEF c, k
<1>7. PICK m \in 0 .. 8 : c = Rest(m)
  BY <1>3
<1> QED BY <1>1, <1>2, <1>5, <1>6, <1>7, DisturbedHolds

\* A commit that finds nothing to commit is done; one that is about to move HEAD has read
\* the index as it is, if no disturbance is noted.
LEMMA CommitNothingHolds ==
  ASSUME GitInv, NEW t \in Thread, CommitNothing(t) PROVE GitInv'
<1>1. /\ tree' = tree /\ index' = index /\ head' = head /\ remote' = remote /\ runOf' = runOf
      /\ lockFile' = lockFile /\ scan' = scan /\ fileEdits' = fileEdits
      /\ commands[t] # <<>> /\ lockFile[LockOf(Command(t))] # t
      /\ Command(t) = "move HEAD" /\ index = head
      /\ commands' = [commands EXCEPT ![t] = Tail(commands[t])]
      /\ disturbed' = (disturbed \/ \E d \in Thread : lockFile["HEAD"] = d /\ scan[d] # index)
  BY DEF CommitNothing, LockedBy, Ready, Clean, Repo
<1>2. GitTypeOK /\ \A l \in Locks : lockFile[l] # t
  BY <1>1 DEF GitInv, LocksAreHeld
<1>3. /\ Len(commands[t]) = 1 /\ Tail(commands[t]) = Rest(0) /\ Len(Tail(commands[t])) = 0
      /\ Tail(commands[t]) \in Seq(Word)
  <2>1. PICK n \in 1 .. 8 :
          /\ Len(commands[t]) = n /\ Tail(commands[t]) = Rest(n - 1)
          /\ Len(Tail(commands[t])) = n - 1 /\ Tail(commands[t]) \in Seq(Word)
          /\ Command(t) = "move HEAD" <=> n = 1
    BY <1>1, <1>2, CommandIs
  <2>2. n = 1
    BY <1>1, <2>1
  <2>3. n - 1 = 0
    BY <2>2
  <2> QED BY <2>1, <2>2, <2>3, Zenon
<1>4. commands'[t] = Tail(commands[t]) /\ \A d \in Thread \ {t} : commands'[d] = commands[d]
  BY <1>1, <1>2 DEF GitTypeOK
<1>5. GitTypeOK'
  <2>1. commands' \in [Thread -> Seq(Word)] /\ \A d \in Thread : \E m \in 0 .. 8 : commands'[d] = Rest(m)
    <3>1. 0 \in 0 .. 8
      OBVIOUS
    <3> QED BY <1>1, <1>2, <1>3, <1>4, <3>1 DEF GitTypeOK
  <2>2. disturbed' \in BOOLEAN
    BY <1>1, <1>2 DEF GitTypeOK
  <2>3. /\ tree \in [Dir -> Nat] /\ index \in [Dir -> Nat] /\ head \in [Dir -> Nat]
        /\ lockFile \in [Locks -> Thread \cup {NoHolder, Stale}]
        /\ scan \in [Thread -> [Dir -> Nat]] /\ runOf \in [Worker -> Dir \cup {Unassigned}]
        /\ fileEdits \in Nat /\ remote \in BOOLEAN
    BY <1>2, Zenon DEF GitTypeOK
  <2> QED BY <1>1, <2>1, <2>2, <2>3, Zenon DEF GitTypeOK
<1>6. LocksAreHeld'
  <2> SUFFICES ASSUME NEW d \in Thread, NEW l \in Locks, lockFile'[l] = d
               PROVE  commands'[d] # <<>> /\ l = LockOf(Command(d))'
    BY DEF LocksAreHeld
  <2>1. lockFile[l] = d /\ d # t
    BY <1>1, <1>2
  <2>2. commands[d] # <<>> /\ l = LockOf(Command(d))
    BY <1>2, <2>1 DEF GitInv, LocksAreHeld
  <2>3. commands'[d] = commands[d]
    BY <1>4, <2>1
  <2> QED BY <2>2, <2>3 DEF Command, LockOf
<1>7. RunsHaveNoCommands'
  BY <1>1, <1>3, <1>4, RestSteps DEF GitInv, RunsHaveNoCommands, Running
<1>8. RestCommits'
  <2> SUFFICES ASSUME ~disturbed'
               PROVE  /\ \A l \in Locks : lockFile'[l] # Stale
                      /\ TreeIsAdded' /\ IndexIsCommitted'
                      /\ remote' \/ \E d \in Thread : Running(d)' \/ Len(commands'[d]) >= 5
    BY DEF RestCommits
  <2>1. ~disturbed /\ \A d \in Thread : lockFile["HEAD"] = d => scan[d] = index
    BY <1>1
  <2>2. \A d \in Thread : /\ WillAdd(d) => WillAdd(d)'
                          /\ Adding(d) <=> Adding(d)'
                          /\ Len(commands[d]) >= 5 => Len(commands'[d]) >= 5
    <3> SUFFICES ASSUME NEW d \in Thread
                 PROVE  /\ WillAdd(d) => WillAdd(d)'
                        /\ Adding(d) <=> Adding(d)'
                        /\ Len(commands[d]) >= 5 => Len(commands'[d]) >= 5
      OBVIOUS
    <3>1. CASE d = t
      <4>1. Len(commands[d]) = 1 /\ Len(commands'[d]) = 0 /\ (Running(d)' <=> Running(d))
        BY <1>1, <1>3, <1>4, <3>1 DEF Running
      <4> QED BY <4>1 DEF WillAdd, Adding
    <3>2. CASE d # t
      BY <1>1, <1>4, <3>2 DEF WillAdd, Adding, Running
    <3> QED BY <3>1, <3>2
  <2>3. TreeIsAdded'
    BY <1>1, <2>1, <2>2 DEF GitInv, RestCommits, TreeIsAdded
  <2>4. IndexIsCommitted'
    BY <1>1, <2>1 DEF IndexIsCommitted
  <2> QED BY <1>1, <2>1, <2>2, <2>3, <2>4 DEF GitInv, RestCommits, Running
<1> QED BY <1>5, <1>6, <1>7, <1>8 DEF GitInv

LEMMA EndCommandHolds ==
  ASSUME GitInv, NEW t \in Thread, EndCommand(t) PROVE GitInv'
<1> DEFINE k == LockOf(Command(t))
<1>1. /\ tree' = tree /\ runOf' = runOf /\ disturbed' = disturbed /\ fileEdits' = fileEdits
      /\ commands[t] # <<>> /\ lockFile[k] = t /\ lockFile' = [lockFile EXCEPT ![k] = NoHolder]
      /\ commands' = [commands EXCEPT ![t] = Tail(commands[t])]
      /\ scan' = [scan EXCEPT ![t] = Unseen]
      /\ head' = (IF Command(t) = "move HEAD" THEN scan[t] ELSE head)
      /\ (Command(t) = "remove remote" => remote' = FALSE)
      /\ (Command(t) = "add remote" => remote' = TRUE)
      /\ (Command(t) \notin {"remove remote", "add remote"} => remote' = remote)
  BY DEF EndCommand, LockedBy
<1>2. /\ Command(t) # "add" => index' = index
      /\ Command(t) = "add" => /\ index' \in [Dir -> 0 .. MaxTreeEdits + 1]
                               /\ \A u \in Dir : index'[u] \in {scan[t][u], tree[u]}
  BY DEF EndCommand, Staged
<1>3. GitTypeOK /\ k \in Locks /\ (Command(t) \in {"add", "commit"} <=> k = "index")
      /\ (Command(t) = "move HEAD" <=> k = "HEAD")
      /\ \A d \in Thread : d # NoHolder /\ d # Stale
  BY GitAssumption DEF GitInv, LockOf, Locks, Thread, EventLoop, NoHolder, Stale
<1>4. PICK n \in 1 .. 8 :
        /\ commands[t] = Rest(n) /\ Len(commands[t]) = n /\ Tail(commands[t]) = Rest(n - 1)
        /\ Len(Tail(commands[t])) = n - 1 /\ Tail(commands[t]) \in Seq(Word)
        /\ Command(t) = "add" <=> n \in {3, 8}
        /\ Command(t) = "commit" <=> n = 2
        /\ Command(t) = "move HEAD" <=> n = 1
        /\ Command(t) = "remove remote" <=> n = 6
        /\ Command(t) = "add remote" <=> n = 5
  BY <1>1, <1>3, CommandIs
<1>5. lockFile'[k] = NoHolder /\ (\A l \in Locks \ {k} : lockFile'[l] = lockFile[l])
      /\ Len(commands'[t]) = n - 1 /\ commands'[t] = Rest(n - 1)
      /\ (\A d \in Thread \ {t} : commands'[d] = commands[d] /\ scan'[d] = scan[d])
  BY <1>1, <1>3, <1>4 DEF GitTypeOK
<1>6. n - 1 \in 0 .. 8 /\ (n - 1 = 0 <=> n = 1) /\ n \in Nat
  OBVIOUS
<1>a. Len(commands[t]) = n /\ (n \in {4, 5, 6, 7} => k = "config")
      /\ (n < 5 => Command(t) \notin {"remove remote", "add remote"})
  <2>1. Len(commands[t]) = n
    BY <1>4
  <2>2. n \in {4, 5, 6, 7} => Command(t) \notin {"add", "commit", "move HEAD"}
    <3>1. n \in {4, 5, 6, 7} => n \notin {3, 8} /\ n # 2 /\ n # 1
      OBVIOUS
    <3> QED BY <1>4, <3>1
  <2>3. n < 5 => Command(t) # "remove remote" /\ Command(t) # "add remote"
    <3>1. n < 5 => n # 5 /\ n # 6
      OBVIOUS
    <3> QED BY <1>4, <3>1
  <2> QED BY <2>1, <2>2, <2>3 DEF LockOf
<1>7. GitTypeOK'
  <2>1. index' \in [Dir -> Nat]
    <3>1. CASE Command(t) # "add"
      BY <1>2, <1>3, <3>1 DEF GitTypeOK
    <3>2. CASE Command(t) = "add"
      <4>1. \A v \in 0 .. MaxTreeEdits + 1 : v \in Nat
        BY GitAssumption
      <4>2. index' \in [Dir -> 0 .. MaxTreeEdits + 1]
        BY <1>2, <3>2
      <4> QED BY <4>1, <4>2
    <3> QED BY <3>1, <3>2
  <2>2. scan' \in [Thread -> [Dir -> Nat]]
    BY <1>1, <1>3 DEF GitTypeOK, Unseen, NoDir
  <2>3. commands' \in [Thread -> Seq(Word)]
    BY <1>1, <1>3, <1>4 DEF GitTypeOK
  <2>4. \A d \in Thread : \E m \in 0 .. 8 : commands'[d] = Rest(m)
    BY <1>3, <1>5, <1>6, ZenonT(40) DEF GitTypeOK
  <2>5. head' \in [Dir -> Nat] /\ remote' \in BOOLEAN
    <3>1. scan[t] \in [Dir -> Nat] /\ head \in [Dir -> Nat]
      BY <1>3 DEF GitTypeOK
    <3>2. head' \in [Dir -> Nat]
      BY <1>1, <3>1
    <3> QED BY <1>1, <1>3, <3>2 DEF GitTypeOK
  <2> QED BY <1>1, <1>3, <2>1, <2>2, <2>3, <2>4, <2>5 DEF GitTypeOK
<1>8. LocksAreHeld'
  <2> SUFFICES ASSUME NEW d \in Thread, NEW l \in Locks, lockFile'[l] = d
               PROVE  commands'[d] # <<>> /\ LockOf(Head(commands'[d])) = l
    BY DEF LocksAreHeld, Command, LockOf
  <2>1. l # k /\ lockFile[l] = d
    BY <1>3, <1>5
  <2>2. d # t
    BY <1>1, <1>3, <2>1 DEF GitInv, LocksAreHeld
  <2> QED BY <1>5, <2>1, <2>2 DEF GitInv, LocksAreHeld, Command
<1>9. RunsHaveNoCommands'
  BY <1>1, <1>5 DEF GitInv, RunsHaveNoCommands, Running
<1>10. ASSUME TreeIsAdded PROVE TreeIsAdded'
  <2>1. \A d \in Thread \ {t} : /\ WillAdd(d) => WillAdd(d)'
                                /\ Adding(d) => Command(t) \notin {"add", "commit"}
                                /\ Adding(d) <=> Adding(d)'
    <3> SUFFICES ASSUME NEW d \in Thread \ {t}
                 PROVE  /\ WillAdd(d) => WillAdd(d)'
                        /\ Adding(d) => k # "index"
                        /\ Adding(d) <=> Adding(d)'
      BY <1>3
    <3>1. lockFile'["index"] = d <=> lockFile["index"] = d
      BY <1>1, <1>3, <1>5 DEF Locks
    <3> QED BY <1>1, <1>3, <1>5, <3>1 DEF WillAdd, Adding, Running
  <2>2. ~Adding(t)' /\ (Adding(t) => n = 3)
    <3>1. Adding(t) => n = 3
      BY <1>a DEF Adding
    <3>2. lockFile'["index"] # t
      <4>1. CASE k = "index"
        BY <1>3, <1>5, <4>1
      <4>2. CASE k # "index"
        BY <1>1, <1>3, <1>5, <4>2 DEF GitInv, LocksAreHeld, Locks
      <4> QED BY <4>1, <4>2
    <3> QED BY <3>1, <3>2 DEF Adding
  <2>3. CASE \E d \in Thread : WillAdd(d)'
    BY <2>3 DEF TreeIsAdded
  <2>4. CASE ~\E d \in Thread : WillAdd(d)'
    <3>1. \A d \in Thread \ {t} : ~WillAdd(d)
      BY <2>1, <2>4
    <3>2. n <= 4
      <4>1. ~(n - 1 >= 4)
        BY <1>5, <2>4 DEF WillAdd
      <4> QED BY <1>6, <4>1
    <3>3. n # 4
      <4>1. n = 4 => WillAdd(t)'
        <5>1. n = 4 => k = "config" /\ lockFile'["index"] = lockFile["index"]
          BY <1>3, <1>a, <1>5 DEF Locks
        <5>2. n = 4 => lockFile["index"] # t
          BY <1>1, <5>1 DEF GitInv, LocksAreHeld, Locks
        <5> QED BY <1>5, <5>1, <5>2 DEF WillAdd
      <4> QED BY <2>4, <4>1
    <3>4. CASE n = 3
      <4>1. Command(t) = "add" /\ Adding(t) /\ \A d \in Thread \ {t} : ~Adding(d)
        BY <1>1, <1>3, <1>4, <2>1, <3>4 DEF Adding
      <4>2. ~WillAdd(t)
        BY <1>1, <1>4, <1>9, <3>4, <4>1 DEF WillAdd, Adding, GitInv, RunsHaveNoCommands
      <4>3. scan[t] = tree
        BY <1>10, <3>1, <4>1, <4>2 DEF TreeIsAdded
      <4>4. index' = tree
        BY <1>2, <1>3, <4>1, <4>3 DEF GitTypeOK
      <4> QED BY <1>1, <2>1, <2>2, <4>1, <4>4 DEF TreeIsAdded
    <3>5. CASE n \in {1, 2}
      <4>0. n # 3 /\ n # 8 /\ ~(n >= 4)
        BY <3>5
      <4>1. ~WillAdd(t) /\ ~Adding(t)
        <5>1. ~Running(t)
          BY <1>1 DEF GitInv, RunsHaveNoCommands
        <5> QED BY <1>a, <4>0, <5>1 DEF WillAdd, Adding
      <4>2. CASE \E d \in Thread : Adding(d) /\ scan[d] = tree
        <5>1. \E d \in Thread : Adding(d)' /\ scan'[d] = tree'
          BY <1>1, <1>5, <2>1, <4>1, <4>2
        <5> QED BY <5>1 DEF TreeIsAdded
      <4>3. CASE index = tree /\ \A d \in Thread : ~Adding(d)
        <5>1. index' = index
          BY <1>2, <1>4, <4>0
        <5> QED BY <1>1, <2>1, <2>2, <4>3, <5>1 DEF TreeIsAdded
      <4> QED BY <1>10, <3>1, <4>1, <4>2, <4>3 DEF TreeIsAdded
    <3> QED BY <1>6, <3>2, <3>3, <3>4, <3>5
  <2> QED BY <2>3, <2>4
<1>12. ASSUME IndexIsCommitted PROVE IndexIsCommitted'
  <2>1. \A d \in Thread \ {t} : /\ WillCommit(d) => WillCommit(d)'
                                /\ lockFile["HEAD"] = d => k # "HEAD"
                                /\ lockFile["HEAD"] = d <=> lockFile'["HEAD"] = d
    BY <1>1, <1>3, <1>5 DEF WillCommit, Running, Locks
  <2>2. lockFile'["HEAD"] # t
    <3>1. CASE k = "HEAD"
      BY <1>3, <1>5, <3>1
    <3>2. CASE k # "HEAD"
      BY <1>1, <1>3, <1>5, <3>2 DEF GitInv, LocksAreHeld, Locks
    <3> QED BY <3>1, <3>2
  <2>3. CASE n # 1
    <3>1. Len(commands'[t]) >= 2 \/ Len(commands'[t]) = 1
      BY <1>5, <1>6, <2>3
    <3>2. WillCommit(t)'
      BY <2>2, <3>1 DEF WillCommit
    <3> QED BY <3>2 DEF IndexIsCommitted
  <2>4. CASE n = 1
    <3>1. /\ Command(t) = "move HEAD" /\ k = "HEAD" /\ lockFile["HEAD"] = t
          /\ head' = scan[t] /\ index' = index
      BY <1>1, <1>2, <1>3, <1>4, <2>4
    <3>2. ~WillCommit(t)
      <4>1. ~Running(t)
        BY <1>1 DEF GitInv, RunsHaveNoCommands
      <4>2. Len(commands[t]) = 1
        BY <1>a, <2>4
      <4>3. ~(Len(commands[t]) >= 2)
        BY <4>2
      <4> QED BY <3>1, <4>1, <4>3, Zenon DEF WillCommit
    <3>3. \A d \in Thread : lockFile["HEAD"] = d => d = t
      BY <3>1
    <3>4. (\E d \in Thread \ {t} : WillCommit(d)) \/ scan[t] = index
      BY <1>12, <3>1, <3>2, <3>3 DEF IndexIsCommitted
    <3>5. \A d \in Thread : lockFile'["HEAD"] # d
      BY <1>3, <1>5, <3>1
    <3> QED BY <2>1, <3>1, <3>4, <3>5 DEF IndexIsCommitted
  <2> QED BY <2>3, <2>4
<1>11. RestCommits'
  <2> SUFFICES ASSUME ~disturbed PROVE RestCommits'
    BY <1>1 DEF RestCommits
  <2>1. \A l \in Locks : lockFile'[l] # Stale
    BY <1>3, <1>5 DEF GitInv, RestCommits, NoHolder, Stale
  <2>3. remote' \/ \E d \in Thread : Running(d)' \/ Len(commands'[d]) >= 5
    <3>1. CASE n = 5
      BY <1>1, <1>4, <3>1
    <3>2. CASE n >= 6
      <4>1. Len(commands'[t]) >= 5
        BY <1>5, <1>6, <3>2
      <4> QED BY <4>1
    <3>3. CASE n < 5
      <4>1. remote' = remote
        BY <1>1, <1>a, <3>3
      <4>2. ~(Len(commands[t]) >= 5)
        <5>1. Len(commands[t]) = n
          BY <1>a
        <5>2. ~(n >= 5)
          BY <1>6, <3>3
        <5> QED BY <5>1, <5>2
      <4> QED BY <1>1, <1>5, <4>1, <4>2 DEF GitInv, RestCommits, Running
    <3> QED BY <1>6, <3>1, <3>2, <3>3
  <2> QED BY <1>10, <1>12, <2>1, <2>3 DEF GitInv, RestCommits
<1> QED BY <1>7, <1>8, <1>9, <1>11 DEF GitInv

LEMMA GitStepHolds == GitInv /\ [GitNext]_gitVars => GitInv'
<1> SUFFICES ASSUME GitInv, [GitNext]_gitVars PROVE GitInv'
  OBVIOUS
<1>1. ASSUME NEW t \in Worker, EditFiles(t) PROVE GitInv'
  BY <1>1, EditFilesHolds
<1>2. ASSUME NEW t \in Worker, EndRun(t) PROVE GitInv'
  BY <1>2, EndRunHolds
<1>3. ASSUME NEW t \in Worker, NEW u \in Dir, BeginRun(t, u) PROVE GitInv'
  BY <1>3, BeginRunHolds
<1>4. ASSUME NEW u \in Dir, ChangeUser(u) PROVE GitInv'
  BY <1>4, ChangeUserHolds
<1>5. ASSUME NEW t \in Thread, BeginCommand(t) PROVE GitInv'
  BY <1>5, BeginCommandHolds
<1>6. ASSUME NEW t \in Thread, FailCommand(t) PROVE GitInv'
  BY <1>6, FailCommandHolds
<1>a. ASSUME NEW t \in Thread, CommitNothing(t) PROVE GitInv'
  BY <1>a, CommitNothingHolds
<1>7. ASSUME NEW t \in Thread, EndCommand(t) PROVE GitInv'
  BY <1>7, EndCommandHolds
<1>8. ASSUME NEW t \in Thread, KillCommand(t) PROVE GitInv'
  BY <1>8, KillCommandHolds
<1>9. CASE UNCHANGED gitVars
  BY <1>9 DEF gitVars, GitInv, GitTypeOK, LocksAreHeld, Command, RunsHaveNoCommands, Running,
              RestCommits, TreeIsAdded, WillAdd, Adding, IndexIsCommitted, WillCommit
<1> QED BY <1>a, <1>1, <1>2, <1>3, <1>4, <1>5, <1>6, <1>7, <1>8, <1>9 DEF GitNext

\* For any number of users and of runs that overlap: at rest, and unless a git command
\* met a lock since the workspace was last at rest, the last commit holds every user's
\* files and the remote is there (services/workspace.py:22).
THEOREM WorkspaceTheorem == GitSpec => []WorkspaceIsVersioned
<1>1. GitInv => WorkspaceIsVersioned
  <2> SUFFICES ASSUME GitInv, AtRest, ~disturbed PROVE head = tree /\ remote
    BY DEF WorkspaceIsVersioned
  <2>1. \A t \in Thread : ~Running(t) /\ Len(commands[t]) = 0
    BY DEF AtRest, Running
  <2>2. \A t \in Thread : /\ ~WillAdd(t) /\ ~Adding(t) /\ ~WillCommit(t)
                          /\ ~(Len(commands[t]) >= 5) /\ lockFile["HEAD"] # t
    <3>1. \A t \in Thread : lockFile["HEAD"] # t
      BY DEF AtRest, GitInv, LocksAreHeld, Locks
    <3> QED BY <2>1, <3>1 DEF WillAdd, Adding, WillCommit
  <2> QED BY <2>1, <2>2 DEF GitInv, RestCommits, TreeIsAdded, IndexIsCommitted
<1> QED BY <1>1, GitInitHolds, GitStepHolds, PTL DEF GitSpec
=============================================================================
