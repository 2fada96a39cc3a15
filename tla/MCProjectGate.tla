--------------------------- MODULE MCProjectGate ---------------------------
(***************************************************************************)
(* The project gate over declarations and trees that differ from a sound   *)
(* repository in one respect each, on a complete machine, one that lacks   *)
(* two tools and an unsupported one, with one edit during the run.         *)
(***************************************************************************)
EXTENDS ProjectGate

AllFields == RuffFields \cup MypyFields \cup PyrightFields \cup ImportFields
                \cup DoxygenFields \cup PytestFields \cup MutationFields
                \cup BuildFields \cup InstallFields

MCSteps == <<"discipline-checks", "documentation", "mutation", "artifact-build",
             "clean-install">>
MCPaths == {"domain", "shared"}
MCMutants == {"m1", "m2"}

Sound == [wellFormed |-> TRUE, accepted |-> TRUE, fields |-> AllFields,
          domains |-> MCPaths, identity |-> "refpkg 1.0"]

MCDeclarations ==
    {Sound,
     [Sound EXCEPT !.wellFormed = FALSE, !.accepted = FALSE],
     [Sound EXCEPT !.fields = @ \ {"mutation.maximum_survival"}],
     [Sound EXCEPT !.domains = {"domain"}],
     [Sound EXCEPT !.identity = "refpkg 2.0"]}

Fate(domain, shared) == [p \in MCPaths |-> IF p = "domain" THEN domain ELSE shared]
Both(a, b) == [m \in MCMutants |-> IF m = "m1" THEN a ELSE b]

Every == {"discipline-checks", "documentation", "mutation", "artifact-build",
          "clean-install"}

Healthy == [symlink |-> FALSE, unreadable |-> FALSE, populated |-> Every, clean |-> Every,
            examined |-> Every, doxyfile |-> DoxyfileSettings, contracts |-> "sound",
            suite |-> "passes", fate |-> Fate(Both("killed", "killed"), Both("killed", "none"))]

MCTrees ==
    {Healthy,
     [Healthy EXCEPT !.symlink = TRUE, !.examined = {},
                       !.clean = @ \ {"discipline-checks"}],
     [Healthy EXCEPT !.unreadable = TRUE],
     [Healthy EXCEPT !.suite = "fails", !.clean = @ \ {"clean-install"}],
     [Healthy EXCEPT !.fate = Fate(Both("killed", "survived"), Both("killed", "none"))],
     [Healthy EXCEPT !.fate = Fate(Both("killed", "killed"), Both("none", "none")),
                       !.doxyfile = {}]}

MCHosts ==
    {[supported |-> TRUE, installed |-> Every],
     [supported |-> TRUE, installed |-> Every \ {"documentation", "artifact-build"}],
     [supported |-> FALSE, installed |-> Every]}

=============================================================================
