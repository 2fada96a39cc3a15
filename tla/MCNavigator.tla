---------------------------- MODULE MCNavigator ----------------------------
(***************************************************************************)
(* Three laws, a fact and the glossary, with a trigger of every kind, and  *)
(* questions for every command.  The edited corpora differ in what a graph *)
(* may be stale about: a rule is gone, a force has changed, an id stands   *)
(* twice, the modules require each other in a circle.                      *)
(***************************************************************************)
EXTENDS Navigator, SampleCorpus

Layering == Tag("check", "layering")
A1 == [Heading("ARCH", "ARCH-001", <<Binding, Layering>>) EXCEPT !.see = {"TEST-001"}]
A2 == Heading("ARCH", "ARCH-002", <<Tag("ADVISORY", ""), Review>>)
A3 == [Heading("ARCH", "ARCH-003", <<Tag("RETIRED", "")>>) EXCEPT !.supersededBy = "ARCH-001"]
T1 == [Heading("TEST", "TEST-001", <<Binding, Review>>) EXCEPT !.see = {"OPS-001"}]
O1 == Heading("OPS", "OPS-001", <<Tag("OPEN", "")>>)

Arch == [Doc("law", "ARCH", "law", 7400) EXCEPT !.headings = <<A1, A2, A3>>,
            !.requires = {"law/TEST"}, !.keywords = {<<"kw", "layers">>}]
Test == [Doc("law", "TEST", "law", 3700) EXCEPT !.headings = <<T1>>, !.requires = {"law/OPS"},
            !.globs = {<<"glob", "tests">>}]
Ops  == [Doc("law", "OPS", "law", 1850) EXCEPT !.headings = <<O1>>, !.grounds = {"fact/tools"}]
Tools == Doc("fact", "tools", "fact", 740)

Strategies(id, mechanisms) ==
    [i \in DOMAIN mechanisms |->
       Strategy(id, mechanisms[i], IF mechanisms[i] = Review THEN "structured-review" ELSE "static")]
RecordOf(id, mechanisms) == Record(Strategies(id, mechanisms), "unchanged")

MCCorpus == [docs |-> <<Tools, Arch, Ops, Test>>,
             registry |-> ("ARCH-001" :> RecordOf("ARCH-001", <<Layering>>)) @@
                          ("ARCH-002" :> RecordOf("ARCH-002", <<Review>>)) @@
                          ("ARCH-003" :> Record(<<>>, "superseded")) @@
                          ("TEST-001" :> RecordOf("TEST-001", <<Review>>)) @@
                          ("OPS-001" :> RecordOf("OPS-001", <<>>)),
             observed |-> <<>>,
             enforce |-> [checks |-> ("layering" :> {"ARCH-001"}), fitness |-> <<>>, matrix |-> {}],
             declared |-> [layers |-> {<<"domain", "ARCH-001">>}, resolved |-> {<<"OPS-001", "D-1">>},
                           blocked |-> {}, tensions |-> {<<"ARCH-002", "OPS-001">>},
                           precedes |-> {}, artifacts |-> {}],
             triggers |-> {[id |-> <<"err", "E501">>, rules |-> {"ARCH-001", "TEST-001"}]},
             ledger |-> [database |-> Absent, broken |-> FALSE, learned |-> 0, used |-> 0]]

MCCorpora ==
    {[MCCorpus EXCEPT !.docs[2].headings = <<A2, A3>>],
     [MCCorpus EXCEPT !.docs[4].headings = <<[T1 EXCEPT !.tags = <<Tag("ADVISORY", ""), Review>>]>>],
     [MCCorpus EXCEPT !.docs[4].headings = <<T1, [A1 EXCEPT !.tags = <<Tag("OPEN", ""), Layering>>]>>],
     [MCCorpus EXCEPT !.docs[3].requires = {"law/ARCH"}]}

MCOrder == <<<<"err", "E501">>, <<"glob", "tests">>, Id("ARCH-001"), Id("ARCH-002"), Id("ARCH-003"),
             Id("D-1"), Id("OPS-001"), Id("TEST-001"), Id("fact/tools"), Id("law/ARCH"), Id("law/OPS"),
             Id("law/TEST"), <<"kw", "layers">>>>

MCWords == (<<"err", "E501">> :> {"e501"}) @@ (<<"glob", "tests">> :> {"tests"}) @@
           (<<"kw", "layers">> :> {"layer", "import", "between"})

NoText == [words |-> {}, literal |-> {}, rules |-> {}]
Ask(command) == [command |-> command, file |-> None, error |-> None, task |-> {}, rules |-> {},
                 depth |-> 1, budget |-> 2000, most |-> 2, envelope |-> {}, prose |-> NoText,
                 id |-> Id("TEST-001"), to |-> Id("ARCH-001"), types |-> ReadingExpansion,
                 undirected |-> FALSE, ids |-> {}]

File == [layers |-> {"domain"}, test |-> TRUE, globs |-> {<<"glob", "tests">>}]
Failure == [words |-> {"e501"}, literal |-> {<<"err", "E501">>, MechId(Layering)}, rules |-> {"ARCH-002", "GONE-001"}]

MCQueries ==
    {[Ask("context") EXCEPT !.file = File, !.depth = d, !.budget = b] : d \in 0..3, b \in {100, 2100, 2600}}
      \cup {[Ask("context") EXCEPT !.error = Failure, !.task = {"layer", "import"}, !.rules = {"OPS-001"}],
            [Ask("context") EXCEPT !.rules = {"OPS-001", "GONE-001"}, !.depth = 3, !.budget = 3700]}
      \cup {[Ask("diagnose") EXCEPT !.envelope = ids, !.prose = Failure] :
              ids \in {{}, {"ARCH-001", "GONE-001"}, {"ARCH-001", "ARCH-003", "law/TEST"}, {"GONE-001"}}}
      \cup {[Ask("path") EXCEPT !.id = Id(from), !.to = Id(to)] :
              from \in {"law/ARCH", "OPS-001"}, to \in {"OPS-001", "law/TEST", "D-1"}}
      \cup {[Ask("neighbors") EXCEPT !.id = Id("OPS-001"), !.depth = 2, !.undirected = u,
                                     !.types = ReadingExpansion \cup more] :
              u \in BOOLEAN, more \in {{}, {"resolved_by"}}}
      \cup {Ask("rule"), Ask("why"), Ask("stats"), [Ask("applies") EXCEPT !.file = File],
            [Ask("budget") EXCEPT !.ids = {Id("ARCH-001"), Id("ARCH-002"), Id("GONE-001")}]}

=============================================================================
