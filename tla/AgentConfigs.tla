----------------------------- MODULE AgentConfigs -----------------------------
(***************************************************************************)
(* One agent config of one user and its skill snapshot                     *)
(* (services/agent_configs.py, behind api/v1/endpoints/agents.py): the     *)
(* config names skills, the snapshot namespace holds copies of their       *)
(* files, and every request rewrites the snapshot file by file before it   *)
(* writes the config.  The user's own skills are changed by the requests   *)
(* of services/resources.py.  Only a user's own config may name skills.    *)
(*                                                                         *)
(* Every store call is an await; a search returns one page of the          *)
(* namespace, ten items that the store chooses.                            *)
(***************************************************************************)
EXTENDS Naturals, Sequences, FiniteSets

CONSTANTS
  Skill,
  ConfigSlot,  \* the config requests that may be in flight at once
  Page,        \* the items that asearch returns, 10
  MaxConfigs,  \* bound: config requests in all
  MaxEdits     \* bound: changes to the user's skill files

SkillFile == [skill : Skill, name : {"md", "aux"}]   \* SKILL.md and a bundled file
Md(k) == [skill |-> k, name |-> "md"]
FilesOf(ks) == {f \in SkillFile : f.skill \in ks}

VARIABLES
  own,       \* the files in ("user", "skills", username)
  snapshot,  \* the files in ("agent", "agent_skills", owner, name)
  config,    \* the skills the stored config lists, or NoConfig
  creq,      \* the request in each slot
  exact,     \* history: nothing disturbed the last request that ended, and it did
             \* not end half way
  copied,    \* history: the listed files there were when it ended
  configs, edits

configVars == <<own, snapshot, config, creq, exact, copied, configs, edits>>

NoConfig == {"no config"}
NoSkills == {}
Vacant == [op |-> "none", at |-> "idle", list |-> <<>>, left |-> <<>>, files |-> {},
           disturbed |-> FALSE]
Listed(r) == {r.list[i] : i \in 1..Len(r.list)}

ConfigInit ==
  /\ \E ks \in SUBSET Skill : own = FilesOf(ks)
  /\ snapshot = {} /\ config = NoConfig
  /\ creq = [s \in ConfigSlot |-> Vacant]
  /\ exact = TRUE /\ copied = {}
  /\ configs = 0 /\ edits = 0

Busy(s) == creq[s].op # "none"
Set(s, r) == creq' = [creq EXCEPT ![s] = r]
Quit(s) == Set(s, Vacant)

\* A page of a namespace: all of it, if there is no more than that.
PageOf(files) == {p \in SUBSET files :
  Cardinality(p) = IF Cardinality(files) <= Page THEN Cardinality(files) ELSE Page}

-----------------------------------------------------------------------------
\* create_skill, update_skill, delete_skill, delete_skill_file: one put or delete.
EditSkill == \E f \in SkillFile :
  /\ edits < MaxEdits /\ edits' = edits + 1
  /\ own' = IF f \in own THEN own \ {f} ELSE own \cup {f}
  /\ creq' = [s \in ConfigSlot |-> [creq[s] EXCEPT !.disturbed = Busy(s)]]
  /\ UNCHANGED <<snapshot, config, exact, copied, configs>>

\* create_config, update_config and delete_config up to the first write: whether the
\* name is taken or known, and whether each skill is the user's.  A refusal changes
\* nothing.
BeginConfig(s) ==
  /\ ~Busy(s) /\ configs < MaxConfigs /\ configs' = configs + 1
  /\ LET others == {t \in ConfigSlot \ {s} : Busy(t)} IN
     \E op \in {"create", "update", "delete"} :
     \E list \in {<<>>} \cup [{1} -> Skill] \cup [1..2 -> Skill] :
       /\ op = "create" <=> config = NoConfig
       /\ op = "delete" => list = <<>>
       /\ \A i, j \in 1..Len(list) : i # j => list[i] # list[j]
       /\ \A i \in 1..Len(list) : Md(list[i]) \in own
       /\ creq' = [t \in ConfigSlot |->
            IF t = s THEN [Vacant EXCEPT !.op = op, !.at = "list", !.list = list, !.left = list,
                                         !.disturbed = others # {}]
            ELSE [creq[t] EXCEPT !.disturbed = t \in others]]
  /\ UNCHANGED <<own, snapshot, config, exact, copied, edits>>

\* A mutant of ListSnapshot: what the snapshot has is left in it.
ListNothing(s) ==
  /\ creq[s].at = "list"
  /\ Set(s, [creq[s] EXCEPT !.at = "clear"])
  /\ UNCHANGED <<own, snapshot, config, exact, copied, configs, edits>>

\* The search of the snapshot's namespace, the first call of sync_agent_skills and
\* of the clearing in delete_config.
ListSnapshot(s) ==
  /\ creq[s].at = "list"
  /\ \E p \in PageOf(snapshot) :
       Set(s, [creq[s] EXCEPT !.at = "clear", !.files = p, !.disturbed = @ \/ p # snapshot])
  /\ UNCHANGED <<own, snapshot, config, exact, copied, configs, edits>>

ClearFile(s) ==
  /\ creq[s].at = "clear"
  /\ \/ \E f \in creq[s].files :
          /\ snapshot' = snapshot \ {f} /\ exact' = FALSE
          /\ Set(s, [creq[s] EXCEPT !.files = @ \ {f}])
     \/ /\ creq[s].files = {}
        /\ Set(s, [creq[s] EXCEPT !.at = IF creq[s].left = <<>> THEN "row" ELSE "look"])
        /\ UNCHANGED <<snapshot, exact>>
  /\ UNCHANGED <<own, config, copied, configs, edits>>

\* _skill_source again, and the value: a skill that has gone ends the request here,
\* with the snapshot half made and the config as it was.
LookUpSkill(s) ==
  /\ creq[s].at = "look"
  /\ IF Md(Head(creq[s].left)) \in own
     THEN Set(s, [creq[s] EXCEPT !.at = "md"]) /\ UNCHANGED exact
     ELSE Quit(s) /\ exact' = FALSE
  /\ UNCHANGED <<own, snapshot, config, copied, configs, edits>>

CopyMd(s) ==
  /\ creq[s].at = "md"
  /\ snapshot' = snapshot \cup {Md(Head(creq[s].left))} /\ exact' = FALSE
  /\ Set(s, [creq[s] EXCEPT !.at = "search"])
  /\ UNCHANGED <<own, config, copied, configs, edits>>

\* The bundled files are picked out of a page of all the user's skill files.
SearchFiles(s) ==
  /\ creq[s].at = "search"
  /\ \E p \in PageOf(own) :
       Set(s, [creq[s] EXCEPT !.at = "copy", !.disturbed = @ \/ p # own,
               !.files = {f \in p : f.skill = Head(creq[s].left) /\ f.name # "md"}])
  /\ UNCHANGED <<own, snapshot, config, exact, copied, configs, edits>>

CopyFile(s) ==
  /\ creq[s].at = "copy"
  /\ \/ \E f \in creq[s].files :
          /\ snapshot' = snapshot \cup {f}
          /\ Set(s, [creq[s] EXCEPT !.files = @ \ {f}])
     \/ /\ creq[s].files = {}
        /\ LET rest == Tail(creq[s].left) IN
           Set(s, [creq[s] EXCEPT !.left = rest, !.at = IF rest = <<>> THEN "row" ELSE "look"])
        /\ UNCHANGED snapshot
  /\ UNCHANGED <<own, config, exact, copied, configs, edits>>

\* The config is put or deleted, last; then the graphs are dropped.
PutConfig(s) ==
  /\ creq[s].at = "row"
  /\ config' = IF creq[s].op = "delete" THEN NoConfig ELSE Listed(creq[s])
  /\ exact' = ~creq[s].disturbed
  /\ copied' = own \cap FilesOf(Listed(creq[s]))
  /\ Quit(s)
  /\ UNCHANGED <<own, snapshot, configs, edits>>

ConfigNext ==
  \/ EditSkill
  \/ \E s \in ConfigSlot :
       \/ BeginConfig(s) \/ ListSnapshot(s) \/ ClearFile(s) \/ LookUpSkill(s) \/ CopyMd(s)
       \/ SearchFiles(s) \/ CopyFile(s) \/ PutConfig(s)

ConfigSpec == ConfigInit /\ [][ConfigNext]_configVars

-----------------------------------------------------------------------------
\* "the agent's SkillsMiddleware sees exactly the selected set"
\* (services/agent_configs.py:230-232): between requests the snapshot is the files
\* of the listed skills as they were copied, and empty without a config, however
\* earlier requests failed, overlapped or met a full page: the next one that is
\* undisturbed repairs what they left.
SnapshotIsTheSelection ==
  (\A s \in ConfigSlot : ~Busy(s)) /\ exact =>
    /\ snapshot = copied
    /\ config # NoConfig => {f.skill : f \in snapshot} = config
=============================================================================
