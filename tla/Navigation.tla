----------------------------- MODULE Navigation -----------------------------
(***************************************************************************)
(* What the rule navigator (nav.py) answers from a graph, the documents    *)
(* and the verification states: one operator per command.  A query carries *)
(* what its texts contain: the words, the labels found in them as they     *)
(* stand, and the globs a path matches.                                    *)
(***************************************************************************)
EXTENDS GraphBuilder

CONSTANTS Absent, Torn,     \* a file that is not there, a file whose writing was cut short
          Order,            \* the ids of the graph in sorted order
          Words             \* trigger -> the words of its label

Far == 99
Caveats == {"unbuilt", "undeclared", "structured-review", "retired"}

\* Half of a label's words, rounded up, must be asked for.
Needed(parts) == (Cardinality(parts) + 1) \div 2

AllTypes(g) == {e.type : e \in g.edges}

PositionOf(id) == SelectInSeq(Order, LAMBDA x : x = id)

\* Keys of a sort are sequences of numbers of the same length.
Precedes(k, l) == \E i \in DOMAIN k : k[i] < l[i] /\ \A j \in 1..i - 1 : k[j] = l[j]
Sorted(ids, Key(_)) ==
    SortSeq(SelectSeq(Order, LAMBDA id : id \in ids), LAMBDA a, b : Precedes(Key(a), Key(b)))

-----------------------------------------------------------------------------
(* Seeds: the ids a request names, each at 0 or 1 hops.                    *)

At(hops, ids) == [id \in ids |-> hops]
SourcesOf(g, targets, type) ==
    DOMAIN g.nodes \cap UNION {{e.src : e \in InEdges(g, t, {type})} : t \in targets}

Triggers(g, kind) == {t \in OfType(g, "trigger") : g.nodes[t].attr = kind}

SeedsForFile(g, file) ==
    LET layered == SourcesOf(g, {LayerId(l) : l \in file.layers}, "applies_to")
        testing == IF file.test
                   THEN {e.dst : e \in OutEdges(g, Id("law/TEST"), {"contains"})} \cap DOMAIN g.nodes
                   ELSE {}
        globbed == SourcesOf(g, Triggers(g, "glob") \cap file.globs, "triggered_by") \cap OfType(g, "module")
    IN  At(0, layered \cup testing) @@ At(1, globbed)

SeedBySignature(g, text) ==
    LET Matches(t) == \/ t \in text.literal
                      \/ Cardinality(Words[t]) > 1 /\ Words[t] \subseteq text.words
    IN  SourcesOf(g, {t \in Triggers(g, "error") : Matches(t)}, "triggered_by")

SeedsForError(g, text) ==
    LET quoted == {Id(r) : r \in text.rules} \cap DOMAIN g.nodes
        stems  == SourcesOf(g, OfType(g, "mechanism") \cap text.literal, "enforced_by")
    IN  At(0, SeedBySignature(g, text) \cup quoted) @@ At(1, stems)

SeedsForTask(g, asked) ==
    LET Matches(t) == Words[t] # {} /\ Cardinality(Words[t] \cap asked) >= Needed(Words[t])
    IN  At(0, SourcesOf(g, {t \in Triggers(g, "kw") : Matches(t)}, "triggered_by"))

\* What several channels name keeps the shortest of its distances.
GatherSeeds(g, q) ==
    LET found == <<IF q.file = None THEN <<>> ELSE SeedsForFile(g, q.file),
                   IF q.error = None THEN <<>> ELSE SeedsForError(g, q.error),
                   SeedsForTask(g, q.task),
                   At(0, {Id(r) : r \in q.rules} \cap DOMAIN g.nodes)>>
        named == UNION {DOMAIN found[i] : i \in DOMAIN found}
    IN  [id \in named |-> Min({found[i][id] : i \in {j \in DOMAIN found : id \in DOMAIN found[j]}})]

-----------------------------------------------------------------------------
(* context: what to read.                                                  *)

ForceRank(force) ==
    CASE force = "BINDING" -> 0 [] force = "OPEN" -> 1 [] force = "ADVISORY" -> 2 [] OTHER -> 3

\* A rule counts for the module that contains it, a module for itself.
ModuleRelevance(g, hits) ==
    LET rules   == DOMAIN hits \cap OfType(g, "rule")
        modules == DOMAIN hits \cap OfType(g, "module")
        Owned(m) == {r \in rules : Id(g.nodes[r].path) = m}
    IN  [m \in modules \cup {Id(g.nodes[r].path) : r \in rules} |->
           [hops  |-> Min({Far} \cup {hits[r] : r \in Owned(m) \cup ({m} \cap modules)}),
            count |-> Cardinality(Owned(m))]]

\* The first module is always read; a later one only while the budget lasts.
FitBudget(g, modules, budget) ==
    LET Pack(s, m) ==
            LET tokens == g.nodes[m].tokens
            IN  IF s.plan # <<>> /\ s.spent + tokens > budget
                THEN [s EXCEPT !.plan = Append(@, [id |-> m, status |-> "deferred", tokens |-> tokens])]
                ELSE [plan |-> Append(s.plan, [id |-> m, status |-> "read", tokens |-> tokens]),
                      spent |-> s.spent + tokens]
    IN  FoldLeft(Pack, [plan |-> <<>>, spent |-> 0], modules).plan

Caveat(states, id) ==
    IF id[2] \in DOMAIN states /\ states[id[2]] \in Caveats THEN states[id[2]] ELSE None

\* The hits within the depth: a seed keeps its own distance.
Context(g, states, q) ==
    LET seeds     == GatherSeeds(g, q)
        reached   == Expand(g, DOMAIN seeds, ReadingExpansion, q.depth, FALSE)
        kept      == {id \in DOMAIN reached \cap DOMAIN g.nodes : g.nodes[id].type \in {"rule", "module"}}
        hits      == seeds @@ [id \in kept |-> reached[id]]
        rules     == Sorted(DOMAIN hits \cap OfType(g, "rule"),
                            LAMBDA r : <<hits[r], ForceRank(g.nodes[r].attr), PositionOf(r)>>)
        relevance == ModuleRelevance(g, hits)
        ordered   == Sorted(DOMAIN relevance,
                            LAMBDA m : <<relevance[m].hops, -relevance[m].count, g.nodes[m].tokens, PositionOf(m)>>)
    IN  [hits |-> hits,
         rules |-> [i \in 1..Min({Len(rules), q.most}) |->
                      [id |-> rules[i], force |-> g.nodes[rules[i]].attr, caveat |-> Caveat(states, rules[i])]],
         total |-> Len(rules),
         plan |-> FitBudget(g, ordered, q.budget)]

-----------------------------------------------------------------------------
(* diagnose: the rules a failure names, in their own words.                *)

\* Ids the envelope carries, else whatever its prose suggests.
DiagnosticSeeds(g, q) ==
    LET named == {Id(r) : r \in q.envelope} \cap DOMAIN g.nodes
    IN  IF named # {} THEN At(0, named) ELSE SeedsForError(g, q.prose)

RuleAnswer(g, docs, states, id) ==
    [id |-> id, rule |-> RuleNamed(Rules(docs), id[2]), force |-> g.nodes[id].attr,
     caveat |-> Caveat(states, id)]

\* Mutant: an id is unresolved only when the graph does not know it.
Diagnose_known(g, docs, states, q) ==
    LET quoted == {id \in DOMAIN DiagnosticSeeds(g, q) \cap OfType(g, "rule") : id[2] \in RuleIds(Rules(docs))}
    IN  [rules |-> {RuleAnswer(g, docs, states, id) : id \in quoted},
         unresolved |-> {r \in q.envelope : Id(r) \notin DOMAIN g.nodes}]

Diagnose(g, docs, states, q) ==
    LET quoted == {id \in DOMAIN DiagnosticSeeds(g, q) \cap OfType(g, "rule") : id[2] \in RuleIds(Rules(docs))}
    IN  [rules |-> {RuleAnswer(g, docs, states, id) : id \in quoted},
         unresolved |-> {r \in q.envelope : Id(r) \notin quoted}]

-----------------------------------------------------------------------------
(* The other commands.                                                     *)

Neighborhood(g, q) == Expand(g, {q.id}, q.types, q.depth, q.undirected)

Applies(g, states, q) ==
    LET seeds == SeedsForFile(g, q.file)
    IN  [rules |-> {[id |-> r, caveat |-> Caveat(states, r)] : r \in DOMAIN seeds \cap OfType(g, "rule")},
         modules |-> DOMAIN seeds \cap OfType(g, "module")]

RuleView(g, states, q) ==
    [force |-> g.nodes[q.id].attr, caveat |-> Caveat(states, q.id),
     out |-> {<<e.type, e.dst>> : e \in {x \in g.edges : x.src = q.id}},
     in |-> {<<e.type, e.src>> : e \in {x \in g.edges : x.dst = q.id}}]

Why(g, q) ==
    [type \in {"resolved_by", "blocked_by", "grounds_on", "tensions_with"} |->
       {e.dst : e \in OutEdges(g, q.id, {type})}]

\* Mutant: only the direction asked for is tried.
PathBetween_oneWay(g, q) == ShortestPath(g, q.id, q.to, AllTypes(g))

\* The direction asked for, else the other one, listed backwards.
PathBetween(g, q) ==
    LET there == ShortestPath(g, q.id, q.to, AllTypes(g))
    IN  IF there # {} \/ q.id = q.to THEN there
        ELSE {Reverse(path) : path \in ShortestPath(g, q.to, q.id, AllTypes(g))}

\* Two rules of one module cost that module twice; an id the graph does not know costs nothing.
Budget(g, q) ==
    LET Owner(id) == IF g.nodes[id].type = "rule" THEN Id(g.nodes[id].path) ELSE id
        Tokens(id) == IF id \notin DOMAIN g.nodes THEN 0
                      ELSE IF Owner(id) \in DOMAIN g.nodes THEN g.nodes[Owner(id)].tokens ELSE 0
    IN  [tokens |-> MapThenSumSet(Tokens, q.ids), unknown |-> q.ids \ DOMAIN g.nodes]

Stats(g, q) ==
    LET unreachable == UnreachableFrom(g, OfType(g, "module"), "rule", q.depth, AllTypes(g))
    IN  [rules |-> Cardinality(OfType(g, "rule")), unreachable |-> unreachable]

=============================================================================
