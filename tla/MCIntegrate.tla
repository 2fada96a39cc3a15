---------------------------- MODULE MCIntegrate ----------------------------
(* Two markdown targets, one host for skills, two permissions and one       *)
(* ignored path.                                                            *)
EXTENDS Integrate, TLC

\* The second release ships another skill, the third none.
MCSkillText == [v \in {"v1", "v2", "v3"} |->
    CASE v = "v1" -> "text1" [] v = "v2" -> "text2" [] v = "v3" -> None]

\* One text with a final newline and one without, and a permission of ours
\* already allowed.
Established == {[f \in Files \ {Record} |->
    CASE f = "claude" -> 1 [] f = "agents" -> 0 [] f \in Skills -> None
      [] f = Settings -> {"p"} [] f = Gitignore -> {}]}

MCMarkdown == {"claude", "agents"}
MCOrder    == "claude" :> 1 @@ "agents" :> 2 @@ "skill" :> 3 @@ "settings" :> 4
              @@ "gitignore" :> 5 @@ "record" :> 6
=============================================================================
