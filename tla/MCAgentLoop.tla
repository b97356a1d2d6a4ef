---------------------------- MODULE MCAgentLoop -----------------------------
(* Values and views of AgentLoop's runs. *)
EXTENDS AgentLoop, TLC

\* Different texts of one slug.
MCSlug == "Deploy it" :> "deploy-it" @@ "deploy it!" :> "deploy-it"

\* Texts with a slug each.
MCSlugs == "deploy" :> "deploy" @@ "report" :> "report"

MCBare == "fetch" :> "fetch" @@ "ghost" :> "ghost" @@ "srv::shell" :> "shell"

\* What the skill properties read of the history variables.
SkillView ==
  <<stack, runs, skills, approved, {r \in trail : r.action = "skill.create"}>>

\* All operator commands are alike.
Symmetry == Permutations(Operators)
=============================================================================
