---------------------------- MODULE GraphBuilder ----------------------------
(***************************************************************************)
(* How build_graph derives the navigation graph from a corpus: modules,    *)
(* rules, their relations and mechanisms from the documents, terms and     *)
(* decisions from the ledgers, sources from the provenance document,       *)
(* triggers from the enforcement files, and the declared relations.        *)
(*                                                                         *)
(* The rendering sorts nodes by type and id and edges by type and ends, so *)
(* two graphs have the same text exactly when they are equal.              *)
(***************************************************************************)
EXTENDS Evidence, RuleGraph

Layers == {"domain", "app", "adapters", "shell", "ports"}

Id(name)        == <<"id", name>>
MechId(m)       == <<"mech", m.family, m.target>>
LayerId(layer)  == <<"layer", layer>>
TermId(term)    == <<"term", term>>
SourceId(tag)   == <<"source", tag>>

\* A graph of the given nodes (a function) with no edges, and one of edges alone.
NodesOf(ids, node(_)) == [EmptyGraph EXCEPT !.nodes = [id \in ids |-> node(id)]]
EdgesOf(edges)        == [EmptyGraph EXCEPT !.edges = edges]

\* What is added later replaces the node of an earlier step; edges accumulate.
Then(g, later) == [nodes |-> later.nodes @@ g.nodes, edges |-> g.edges \cup later.edges]
AllOf(graphs)  == FoldLeft(Then, EmptyGraph, graphs)

-----------------------------------------------------------------------------

AddLayers == NodesOf({LayerId(l) : l \in Layers}, LAMBDA id : Node("layer", "", 0, ""))

TriggerNode(kind) == Node("trigger", "", 0, kind)

ModuleEdges(doc) ==
    Then(NodesOf(doc.keywords \cup doc.globs, LAMBDA id : TriggerNode(id[1])),
         EdgesOf({Edge("requires", Id(doc.id), Id(t)) : t \in doc.requires}
                   \cup {Edge("grounds_on", Id(doc.id), Id(t)) : t \in doc.grounds}
                   \cup {Edge("triggered_by", Id(doc.id), t) : t \in doc.keywords \cup doc.globs}))

RuleEdges(doc, rule) ==
    Then(NodesOf({MechId(m) : m \in ToSet(rule.mechanisms)}, LAMBDA id : Node("mechanism", "", 0, id[2])),
         EdgesOf({Edge("contains", Id(doc.id), Id(rule.id))}
                   \cup {Edge("enforced_by", Id(rule.id), MechId(m)) : m \in ToSet(rule.mechanisms)}
                   \cup {Edge("cites", Id(rule.id), Id(t)) : t \in rule.see}
                   \cup {Edge("supersedes", Id(t), Id(rule.id)) : t \in {rule.supersededBy} \ {None}}
                   \cup {Edge("grounds_on", Id(rule.id), Id(t)) : t \in doc.grounds}))

\* A rule node keeps its module and force; the length of its statement is left out.
RuleNode(doc, rule) == NodesOf({Id(rule.id)}, LAMBDA id : Node("rule", doc.id, 0, rule.force))

ModuleNode(doc) == NodesOf({Id(doc.id)}, LAMBDA id : Node("module", doc.id, doc.tokens, doc.kind))

ModuleAndRules(doc) ==
    LET rules == ParseRules(doc)
    IN  IF doc.id = "" THEN EmptyGraph
        ELSE AllOf(<<ModuleNode(doc), ModuleEdges(doc)>>
                     \o Chain([i \in DOMAIN rules |-> <<RuleNode(doc, rules[i]), RuleEdges(doc, rules[i])>>]))

AddModulesAndRules(docs) == AllOf([i \in DOMAIN docs |-> ModuleAndRules(docs[i])])

AddTerms(docs) ==
    LET terms == UNION {doc.defines : doc \in {d \in ToSet(docs) : d.id = "meta/GLOSSARY"}}
    IN  Then(NodesOf({TermId(t) : t \in terms}, LAMBDA id : Node("term", "", 0, "")),
             EdgesOf({Edge("defines", Id("meta/GLOSSARY"), TermId(t)) : t \in terms}))

\* The two ledgers are read as files: a decision is a heading, or a row of a table.
AddDecisions(c) ==
    LET ledgers == {doc \in ToSet(c.docs) : doc.path.dir = "meta" /\ doc.path.stem \in {"CONFLICTS", "OPEN"}}
    IN  NodesOf({Id(d) : d \in UNION {doc.decisions : doc \in ledgers}}, LAMBDA id : Node("decision", "", 0, ""))

AddSources(c) ==
    LET record == {doc \in ToSet(c.docs) : doc.path.dir = "meta" /\ doc.path.stem = "PROVENANCE"}
    IN  NodesOf({SourceId(s) : s \in UNION {doc.sources : doc \in record}}, LAMBDA id : Node("source", "", 0, ""))

\* A check module is a mechanism whether or not a rule names it.
AddCheckModules(c) ==
    NodesOf({<<"mech", "check", t>> : t \in {x \in DOMAIN c.enforce.checks : c.enforce.checks[x] # Unknown}},
            LAMBDA id : Node("mechanism", "enforce", 0, id[2]))

\* The signatures of contracts, lint codes and signals, each with the rules it names.
AddTriggers(c, g) ==
    Then(NodesOf({t.id : t \in c.triggers}, LAMBDA id : TriggerNode("error")),
         EdgesOf(UNION {{Edge("triggered_by", Id(r), t.id) : r \in {x \in t.rules : Id(x) \in DOMAIN g.nodes}} :
                          t \in c.triggers}))

\* edges.yaml: nothing is checked here; an end that is no node is found by the validator.
AddDeclared(c) ==
    LET d == c.declared
    IN  Then(NodesOf({<<"artifact", a.path>> : a \in d.artifacts}, LAMBDA id : Node("artifact", "", 0, "")),
             EdgesOf({Declared("applies_to", Id(x[2]), LayerId(x[1])) : x \in d.layers}
                       \cup {Declared("resolved_by", Id(x[1]), Id(x[2])) : x \in d.resolved}
                       \cup {Declared("blocked_by", Id(x[1]), Id(x[2])) : x \in d.blocked}
                       \cup (UNION {{Declared("tensions_with", Id(x[1]), Id(x[2])),
                                     Declared("tensions_with", Id(x[2]), Id(x[1]))} : x \in d.tensions})
                       \cup {Declared("precedes", Id(x[1]), Id(x[2])) : x \in d.precedes}
                       \cup UNION {{Declared("applies_to", Id(r), <<"artifact", a.path>>) : r \in a.rules} :
                                     a \in d.artifacts}))

Build(c) ==
    LET docs   == Documents(c)
        corpus == AllOf(<<AddLayers, AddModulesAndRules(docs), AddTerms(docs), AddDecisions(c),
                          AddSources(c), AddCheckModules(c)>>)
    IN  AllOf(<<corpus, AddTriggers(c, corpus), AddDeclared(c)>>)

=============================================================================
