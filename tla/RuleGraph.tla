----------------------------- MODULE RuleGraph -----------------------------
(***************************************************************************)
(* The navigation graph (graph_model): nodes under ids, typed edges        *)
(* between ids, and the traversals the navigator and the validator use.    *)
(*                                                                         *)
(* An id is a tuple: <<"id", name>> for what the documents name (modules,  *)
(* rules, decisions), <<"kw", word>>, <<"glob", glob>>, <<"err", text>>    *)
(* for triggers, <<"mech", family, target>> for mechanisms, and so on.     *)
(* An edge may end at an id that is no node.                               *)
(***************************************************************************)
EXTENDS Integers, Sequences, FiniteSets, SequencesExt

ReadingExpansion == {"requires", "grounds_on", "cites", "tensions_with"}

EmptyGraph == [nodes |-> <<>>, edges |-> {}]

Node(type, path, tokens, attr) == [type |-> type, path |-> path, tokens |-> tokens, attr |-> attr]
Edge(type, src, dst) == [type |-> type, src |-> src, dst |-> dst, origin |-> "derived"]
Declared(type, src, dst) == [Edge(type, src, dst) EXCEPT !.origin = "declared"]

OutEdges(g, id, types) == {e \in g.edges : e.src = id /\ e.type \in types}
InEdges(g, id, types)  == {e \in g.edges : e.dst = id /\ e.type \in types}

Neighbors(g, id, types, undirected) ==
    {e.dst : e \in OutEdges(g, id, types)}
      \cup (IF undirected THEN {e.src : e \in InEdges(g, id, types)} ELSE {})

OfType(g, type) == {id \in DOMAIN g.nodes : g.nodes[id].type = type}

-----------------------------------------------------------------------------
(* Traversals.                                                             *)

\* Mutant: a node met again on a later hop gets the later distance.
Expand_last(g, seeds, types, depth, undirected) ==
    LET reached[hop \in 0..depth] ==
            IF hop = 0 THEN [id \in seeds \cap DOMAIN g.nodes |-> 0]
            ELSE LET before == reached[hop - 1]
                 IN  [id \in UNION {Neighbors(g, n, types, undirected) : n \in DOMAIN before}
                        |-> hop] @@ before
    IN  reached[depth]

\* Breadth first: the hop at which each id is first met.
Expand(g, seeds, types, depth, undirected) ==
    LET reached[hop \in 0..depth] ==
            IF hop = 0 THEN [id \in seeds \cap DOMAIN g.nodes |-> 0]
            ELSE LET before   == reached[hop - 1]
                     frontier == {id \in DOMAIN before : before[id] = hop - 1}
                     met      == UNION {Neighbors(g, n, types, undirected) : n \in frontier}
                 IN  before @@ [id \in met \ DOMAIN before |-> hop]
    IN  reached[depth]

UnreachableFrom(g, seeds, type, depth, types) ==
    OfType(g, type) \ DOMAIN Expand(g, seeds, types, depth, TRUE)

\* The paths a breadth-first search can return: which one depends on the order of ids.
ShortestPath(g, src, dst, types) ==
    LET distance == Expand(g, {src}, types, Cardinality(DOMAIN g.nodes), FALSE)
        End(path) == IF path = <<>> THEN src ELSE path[Len(path)].dst
        Grow(paths, hop) ==
            UNION {{Append(path, e) : e \in {x \in OutEdges(g, End(path), types) : distance[x.dst] = hop}} :
                     path \in paths}
    IN  IF ~({src, dst} \subseteq DOMAIN g.nodes) \/ src = dst \/ dst \notin DOMAIN distance THEN {}
        ELSE {path \in FoldLeft(Grow, {<<>>}, [i \in 1..distance[dst] |-> i]) : End(path) = dst}

\* Depth first over one relation, in the given order of ids; white ids are not in colour.
\* The stack holds the calls that have not returned, each with the edges it has yet to follow.
Enter(g, type, order, id, s) ==
    LET call == [id |-> id, todo |-> SelectSeq(order, LAMBDA n : n \in Neighbors(g, id, {type}, FALSE))]
    IN  [s EXCEPT !.colour = (id :> "open") @@ @, !.stack = Append(@, call)]

\* The innermost call follows its next edge, or returns.
WalkOn(g, type, order, s) ==
    LET call == Last(s.stack)
        rest == Front(s.stack)
        dst  == Head(call.todo)
        on   == [s EXCEPT !.stack = Append(rest, [call EXCEPT !.todo = Tail(@)])]
        path == [i \in DOMAIN s.stack |-> s.stack[i].id]
        back == SubSeq(path, SelectInSeq(path, LAMBDA n : n = dst), Len(path)) \o <<dst>>
    IN  IF call.todo = <<>> THEN [s EXCEPT !.colour = (call.id :> "closed") @@ @, !.stack = rest]
        ELSE IF dst \notin DOMAIN s.colour THEN Enter(g, type, order, dst, on)
        ELSE IF s.colour[dst] = "open" THEN [on EXCEPT !.found = Append(@, back)]
        ELSE on

\* Every call returns once and follows each of its edges once, which bounds the steps.
Walk(g, type, order, id, s) ==
    FoldLeft(LAMBDA t, step : IF t.stack = <<>> THEN t ELSE WalkOn(g, type, order, t),
             Enter(g, type, order, id, s),
             [step \in 1..Len(order) + Cardinality({e \in g.edges : e.type = type}) |-> step])

CyclesIn(g, type, order) ==
    LET Visit(s, id) == IF id \in DOMAIN s.colour \/ id \notin DOMAIN g.nodes THEN s
                        ELSE Walk(g, type, order, id, s)
    IN  ToSet(FoldLeft(Visit, [colour |-> <<>>, stack |-> <<>>, found |-> <<>>], order).found)

Dangling(g) == {e \in g.edges : ~({e.src, e.dst} \subseteq DOMAIN g.nodes)}

=============================================================================
