----------------------------- MODULE MCSkillSync -----------------------------
(***************************************************************************)
(* SkillSync for TLC: skills are alike, and so are the default agent's     *)
(* runs.  The properties are of states and steps, so the symmetry is sound.*)
(***************************************************************************)
EXTENDS SkillSync, TLC

Alike == Permutations(Skill) \cup Permutations(Run \ Named)
=============================================================================
