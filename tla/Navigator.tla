------------------------------ MODULE Navigator ------------------------------
(***************************************************************************)
(* One invocation of nav.py after another beside an editor and the build   *)
(* commands.  An answer is put together from three generations of the      *)
(* corpus: graph.json as it was loaded, the documents as they are when     *)
(* diagnose parses them, and the verification states of rules.json as they *)
(* are when the answer is annotated.                                       *)
(***************************************************************************)
EXTENDS Navigation

CONSTANTS Corpora,       \* the corpora an editor may save; the first checkout is InitialCorpus
          InitialCorpus,
          Queries,       \* what is asked
          MaxEdits, MaxBuilds, MaxQuestions

VARIABLES corpus,    \* the corpus as it stands
          graph,     \* discipline/graph.json: a graph, Absent or Torn
          states,    \* the verification states of discipline/rules.json, Absent or Torn
          nav,       \* the running invocation
          used       \* edits, builds and questions so far

vars == <<corpus, graph, states, nav, used>>

Idle == [phase |-> "idle", query |-> None, graph |-> None, docs |-> <<>>,
         states |-> <<>>, answer |-> None]

Use(what, bound) == used[what] < bound /\ used' = [used EXCEPT ![what] = @ + 1]

StatesOf(c) ==
    LET rules == Rules(Documents(c))
    IN  [id \in RuleIds(rules) |-> VerificationState(RuleNamed(rules, id), c.registry[id], c.enforce)]

-----------------------------------------------------------------------------
(* The invocation.                                                         *)

\* A missing graph is derived in memory; one that does not parse ends the command.
Load ==
    /\ nav.phase = "idle" /\ Use("questions", MaxQuestions)
    /\ \E q \in Queries :
         nav' = [Idle EXCEPT !.query = q,
                    !.phase = IF graph = Torn THEN "failed" ELSE "loaded",
                    !.graph = IF graph \in {Absent, Torn} THEN Build(corpus) ELSE graph]
    /\ UNCHANGED <<corpus, graph, states>>

\* diagnose parses the documents of the corpus once its seeds are known.
ParseDocuments ==
    /\ nav.phase = "loaded" /\ nav.query.command = "diagnose"
    /\ nav' = [nav EXCEPT !.phase = "parsed", !.docs = Documents(corpus)]
    /\ UNCHANGED <<corpus, graph, states, used>>

\* rules.json that is missing or does not parse leaves an answer without caveats.
Overlay == IF states \in {Absent, Torn} THEN <<>> ELSE states

\* Asking about an id the graph does not know, or walking to one, ends the command.
Answerable(q, g) ==
    CASE q.command \in {"rule", "why"} -> q.id \in DOMAIN g.nodes
      [] q.command = "path"            -> {q.id, q.to} \subseteq DOMAIN g.nodes
      [] q.command = "neighbors"       -> /\ q.id \in DOMAIN g.nodes
                                          /\ DOMAIN Neighborhood(g, q) \subseteq DOMAIN g.nodes
      [] OTHER                         -> TRUE

Reply(q, g, docs) ==
    CASE q.command = "context"   -> Context(g, Overlay, q)
      [] q.command = "diagnose"  -> Diagnose(g, docs, Overlay, q)
      [] q.command = "rule"      -> RuleView(g, Overlay, q)
      [] q.command = "neighbors" -> Neighborhood(g, q)
      [] q.command = "applies"   -> Applies(g, Overlay, q)
      [] q.command = "why"       -> Why(g, q)
      [] q.command = "path"      -> PathBetween(g, q)
      [] q.command = "budget"    -> Budget(g, q)
      [] q.command = "stats"     -> Stats(g, q)

Answer ==
    /\ nav.phase = IF nav.query # None /\ nav.query.command = "diagnose" THEN "parsed" ELSE "loaded"
    /\ nav' = IF Answerable(nav.query, nav.graph)
              THEN [nav EXCEPT !.phase = "answered", !.states = states,
                               !.answer = Reply(nav.query, nav.graph, nav.docs)]
              ELSE [nav EXCEPT !.phase = "failed"]
    /\ UNCHANGED <<corpus, graph, states, used>>

Exit ==
    /\ nav.phase \in {"answered", "failed"}
    /\ nav' = Idle
    /\ UNCHANGED <<corpus, graph, states, used>>

-----------------------------------------------------------------------------
(* Everybody else.                                                         *)

Edit ==
    /\ Use("edits", MaxEdits)
    /\ \E c \in Corpora \ {corpus} : corpus' = c
    /\ UNCHANGED <<graph, states, nav>>

\* A build writes its file whole, is killed while writing it, or somebody deletes it.
BuildGraph ==
    /\ Use("builds", MaxBuilds)
    /\ graph' \in {Build(corpus), Torn, Absent}
    /\ UNCHANGED <<corpus, states, nav>>

BuildIndex ==
    /\ Use("builds", MaxBuilds)
    /\ states' \in {StatesOf(corpus), Torn, Absent}
    /\ UNCHANGED <<corpus, graph, nav>>

Init ==
    /\ corpus = InitialCorpus
    /\ graph = Build(InitialCorpus)
    /\ states = StatesOf(InitialCorpus)
    /\ nav = Idle
    /\ used = [edits |-> 0, builds |-> 0, questions |-> 0]

Next == Load \/ ParseDocuments \/ Answer \/ Exit \/ Edit \/ BuildGraph \/ BuildIndex

Spec == Init /\ [][Next]_vars

-----------------------------------------------------------------------------
(* Properties.  Each speaks of the answer just given.                      *)

Answered(command) == nav.phase = "answered" /\ nav.query.command = command

\* The type of every variable; a command never answers for an id it does not know.
TypeOK ==
    /\ corpus \in Corpora \cup {InitialCorpus}
    /\ nav.phase \in {"idle", "loaded", "parsed", "answered", "failed"}
    /\ nav.phase # "idle" => nav.query \in Queries
    /\ nav.phase = "parsed" => nav.query.command = "diagnose"
    /\ used.edits \in 0..MaxEdits /\ used.builds \in 0..MaxBuilds /\ used.questions \in 0..MaxQuestions
    /\ Answered("neighbors") => DOMAIN nav.answer \subseteq DOMAIN nav.graph.nodes

\* The ids at the end of a walk of exactly n edges from the seeds.
WalksTo(g, seeds, types, n) ==
    FoldLeft(LAMBDA ends, k : {e.dst : e \in {x \in g.edges : x.src \in ends /\ x.type \in types}},
             seeds, [k \in 1..n |-> k])

\* The breadth-first expansion of context loses nothing: every rule and module within the
\* depth of a seed is a hit, at its true distance, and the module of each is in the plan.
ContextIsComplete ==
    Answered("context") =>
        LET g     == nav.graph
            q     == nav.query
            a     == nav.answer
            seeds == GatherSeeds(g, q)
            Within(n) == {id \in WalksTo(g, DOMAIN seeds, ReadingExpansion, n) \cap DOMAIN g.nodes :
                            g.nodes[id].type \in {"rule", "module"}}
            listed == {a.plan[i].id : i \in DOMAIN a.plan}
        IN  /\ DOMAIN a.hits = DOMAIN seeds \cup UNION {Within(n) : n \in 0..q.depth}
            /\ \A id \in DOMAIN a.hits \ DOMAIN seeds :
                 \A n \in 0..q.depth : id \in Within(n) => a.hits[id] <= n
            /\ \A id \in DOMAIN a.hits \ DOMAIN seeds : id \in Within(a.hits[id])
            /\ \A id \in DOMAIN a.hits \cap OfType(g, "rule") : Id(g.nodes[id].path) \in listed

\* The plan spends no more than the budget unless a single module is all it reads, names
\* each module once, and defers none that what was left would have paid for.
PlanFitsBudget ==
    Answered("context") =>
        LET plan  == nav.answer.plan
            Spent(i) == FoldLeft(+, 0, [k \in 1..i |-> IF plan[k].status = "read" THEN plan[k].tokens ELSE 0])
        IN  /\ Spent(Len(plan)) <= nav.query.budget
                 \/ Cardinality({i \in DOMAIN plan : plan[i].status = "read"}) = 1
            /\ \A i \in DOMAIN plan :
                 plan[i].status = "deferred" <=> i > 1 /\ Spent(i - 1) + plan[i].tokens > nav.query.budget
            /\ \A i, j \in DOMAIN plan : plan[i].id = plan[j].id => i = j

\* What context answers: everything in reach of its seeds, and a plan the budget pays for.
ContextIsExact == ContextIsComplete /\ PlanFitsBudget

\* Whatever the graph still believes, each id of the envelope is either answered in the words
\* of a rule the documents had when they were parsed or reported as unresolved.
DiagnosisAccountsForEveryId ==
    Answered("diagnose") =>
        LET quoted == {r.id[2] : r \in nav.answer.rules}
        IN  /\ nav.query.envelope \subseteq quoted \cup nav.answer.unresolved
            /\ quoted \cap nav.answer.unresolved = {}
            /\ \A r \in nav.answer.rules : r.rule \in ToSet(Rules(nav.docs))

\* A path connects the two ids, is as short as any in its direction, and is found whenever
\* either direction has one.
PathIsShortest ==
    Answered("path") =>
        LET g == nav.graph
            q == nav.query
            Reaches(from, to) == {n \in 1..Cardinality(DOMAIN g.nodes) : to \in WalksTo(g, {from}, AllTypes(g), n)}
            there == Reaches(q.id, q.to)
            back  == Reaches(q.to, q.id)
        IN  /\ nav.answer = {} <=> (there \cup back = {} \/ q.id = q.to)
            /\ \A path \in nav.answer :
                 Len(path) = IF there # {} THEN Min(there) ELSE Min(back)

\* When the files were those of the corpus, the force and the caveat printed with a rule's
\* words are that rule's: the last heading of an id counts for all three of them.
OneGenerationAgrees ==
    (Answered("diagnose") /\ nav.graph = Build(corpus) /\ nav.docs = Documents(corpus)
                          /\ nav.states = StatesOf(corpus)) =>
        \A r \in nav.answer.rules :
            /\ r.force = r.rule.force
            /\ Id(r.rule.module) = Id(nav.graph.nodes[r.id].path)
            /\ r.rule.force = "RETIRED" => r.caveat = "retired"

\* The depth-first search finds a cycle of requires exactly when there is one, and what it
\* finds is a closed walk.
CyclesAreFound ==
    nav.phase = "loaded" =>
        LET g     == nav.graph
            found == CyclesIn(g, "requires", Order)
            Requires(a, b) == Edge("requires", a, b) \in g.edges
            Cyclic(id) == \E n \in 1..Cardinality(DOMAIN g.nodes) :
                             id \in WalksTo(g, {id}, {"requires"}, n)
        IN  /\ found # {} <=> \E id \in DOMAIN g.nodes : Cyclic(id)
            /\ \A cycle \in found : /\ cycle[1] = cycle[Len(cycle)]
                                    /\ \A i \in 1..Len(cycle) - 1 : Requires(cycle[i], cycle[i + 1])

\* What diagnose answers: nothing lost of the envelope, and each rule in its own words,
\* force and state when the three files are of one generation.
DiagnosisIsTrue == DiagnosisAccountsForEveryId /\ OneGenerationAgrees

\* What path answers and build_graph refuses: a shortest path, and a cycle of requires, are
\* found exactly when the edges have one.
SearchesAreExact == PathIsShortest /\ CyclesAreFound

=============================================================================
