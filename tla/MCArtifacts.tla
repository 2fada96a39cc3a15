---------------------------- MODULE MCArtifacts ----------------------------
(***************************************************************************)
(* A corpus of five documents: a law with four rules (one decided by a     *)
(* check, one by a fitness function and a tool, one by review, one         *)
(* retired), a law of one rule, a fact, the glossary and PROVENANCE.md.    *)
(* What an editor may save differs from it in one respect each.            *)
(***************************************************************************)
EXTENDS Artifacts, SampleCorpus

Layering == Tag("check", "layering")
Shape    == Tag("fitness", "shape")
Types    == Tag("auto", "mypy")

A1 == Heading("ARCH", "ARCH-001", <<Binding, Layering>>)
A2 == [Heading("ARCH", "ARCH-002", <<Binding, Shape, Types>>) EXCEPT !.see = {"ARCH-001"}]
A3 == Heading("ARCH", "ARCH-003", <<Tag("ADVISORY", ""), Review>>)
A4 == [Heading("ARCH", "ARCH-004", <<Tag("RETIRED", "")>>) EXCEPT !.supersededBy = "ARCH-001"]
A5 == Heading("ARCH", "ARCH-005", <<Binding, Layering>>)
T1 == Heading("TEST", "TEST-001", <<Binding, Review>>)

Arch == [Doc("law", "ARCH", "law", 3700) EXCEPT !.headings = <<A1, A2, A3, A4>>,
            !.requires = {"law/TEST"}, !.grounds = {"fact/tools"}, !.keywords = {<<"kw", "layers">>}]
Test == [Doc("law", "TEST", "law", 1850) EXCEPT !.headings = <<T1>>]
Tools == [Doc("fact", "tools", "fact", 740) EXCEPT !.tools = {"mypy"}, !.decay = "months", !.age = 30]
Glossary == [Doc("meta", "GLOSSARY", "meta", 740) EXCEPT !.defines = {"layer"}, !.banned = {"layer"}]

MCRegistry ==
    ("ARCH-001" :> Record(<<Strategy("ARCH-001", Layering, "static")>>, "unchanged")) @@
    ("ARCH-002" :> Record(<<Strategy("ARCH-002", Shape, "behavioral"), Strategy("ARCH-002", Types, "tool")>>, "new")) @@
    ("ARCH-003" :> Record(<<Strategy("ARCH-003", Review, "structured-review")>>, "clarified")) @@
    ("ARCH-004" :> Record(<<>>, "superseded")) @@
    ("TEST-001" :> Record(<<Strategy("TEST-001", Review, "structured-review")>>, "unchanged"))

Witness(rule, m) == [rule |-> rule, mechanism |-> m]
MCEnforce == [checks |-> ("layering" :> {"ARCH-001"}), fitness |-> ("shape" :> {"ARCH-002"}),
              matrix |-> {Witness("ARCH-001", None), Witness("ARCH-002", Shape), Witness("ARCH-002", Types)}]

Line(is, words) == [is |-> is, words |-> words, level |-> 2]
MCDoctrine == <<Line("heading", {"1", "Summaries"}), Line("enumerated-claim", {"one"}),
                Line("fence", {}), Line("enumerated-claim", {"sample"}), Line("fence", {})>>
MCSources == [CD |-> MCDoctrine, TD |-> <<Line("heading", {"Tests"}), Line("tagged", {"must"})>>]
MCPolicies == ({"1", "Summaries"} :> 1)
MCExceptions == <<[source |-> "TD", needle |-> {"Tests"}, disposition |-> "superseded"]>>
MCTargets == [CD |-> {"law/TEST"}, TD |-> {}]

MCCorpus == [docs |-> <<Tools, Arch, Test, Glossary, RenderProvenance(Census(MCSources))>>,
             registry |-> MCRegistry,
             observed |-> ("V4E-001" :> [named |-> TRUE, blank |-> {}, locations |-> <<"one">>]),
             enforce |-> MCEnforce,
             declared |-> [layers |-> {<<"domain", "ARCH-001">>}, resolved |-> {}, blocked |-> {},
                           tensions |-> {<<"ARCH-001", "ARCH-003">>}, precedes |-> {}, artifacts |-> {}],
             triggers |-> {[id |-> <<"err", "E501">>, rules |-> {"ARCH-001", "GONE-001"}]},
             ledger |-> [database |-> Absent, broken |-> FALSE, learned |-> 0, used |-> 0]]

MCDocVersions ==
    {[Arch EXCEPT !.length = 5550],
     [Arch EXCEPT !.headings[1].fenced = TRUE],
     [Arch EXCEPT !.headings[1].tags = <<Binding, Tag("check", "absent")>>],
     [Test EXCEPT !.requires = {"law/ARCH"}],
     [Test EXCEPT !.headings = <<T1, A5>>, !.prefix = "ARCH"],
     [Test EXCEPT !.lawful = FALSE, !.tokens = None],
     [Tools EXCEPT !.age = 200, !.tools = {"mypy", "run"}]}

MCRegistries == {None,
                 [MCRegistry EXCEPT !["ARCH-003"] = Record(<<>>, "unchanged")],
                 [MCRegistry EXCEPT !["ARCH-001"].strategies = <<Strategy("ARCH-001", Layering, "tool")>>],
                 [MCRegistry EXCEPT !["ARCH-002"].strategies = <<@[1]>>]}
MCEnforcements == {[MCEnforce EXCEPT !.checks = ("layering" :> {})],
                   [MCEnforce EXCEPT !.matrix = {Witness("ARCH-002", None)}]}
MCSourceVersions == {[MCSources EXCEPT !.TD = Absent],
                     [MCSources EXCEPT !.TD = @ \o <<Line("heading", {"More"})>>],
                     [MCSources EXCEPT !.CD = @ \o <<Line("enumerated-claim", {"two"})>>]}
MCSkill == ("SKILL.md" :> "v1")
MCSkillVersions == {("OTHER.md" :> "v1")}

MCElsewhere == {[MCCorpus EXCEPT !.enforce.checks = <<>>]}
\* Only a module requires anything, so the order of the other ids decides nothing.
MCOrder == <<Id("fact/tools"), Id("law/ARCH"), Id("law/TEST"), Id("meta/GLOSSARY"), Id("meta/PROVENANCE")>>

=============================================================================
