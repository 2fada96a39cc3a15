----------------------------- MODULE Validator -----------------------------
(***************************************************************************)
(* What validate.py finds in a corpus: the set of its findings, each a     *)
(* code and what it is about, the graph file on disk and the ceiling of    *)
(* unbuilt mechanisms given.  A finding is an error unless its code is a   *)
(* warning's.                                                              *)
(***************************************************************************)
EXTENDS GraphBuilder

CONSTANTS Absent,      \* a file that is not there
          Torn,        \* a file whose writing was cut short
          Order        \* the ids of the graph in sorted order

WarningCodes == {"V024", "V051", "V060", "V080", "V082", "V097", "V098", "V107"}
DecayDays == [months |-> 120, quarters |-> 270, years |-> 730, none |-> 1000000]
ReachDepth == 3

When(condition, code, at) == IF condition THEN {<<code, at>>} ELSE {}

-----------------------------------------------------------------------------
(* Documents.                                                              *)

CheckFrontMatter(doc) ==
    When(~doc.lawful, "V002", doc.path)
      \cup When(doc.id # "" /\ doc.path.stem # "KERNEL" /\ doc.id # doc.path.id, "V003", doc.path)
      \cup When(doc.kind \in Kinds /\ doc.path.dir \in Kinds /\ doc.path.dir # doc.kind, "V004", doc.path)

CheckGenreConstraints(doc) ==
    IF doc.kind \notin Kinds THEN {}
    ELSE LET rules == ToSet(ParseRules(doc))
         IN  When(doc.kind \notin {"law", "ops"} /\ rules # {}, "V010", doc.path)
               \cup When(doc.kind = "frame" /\ \E r \in rules : r.force = "BINDING", "V011", doc.path)
               \cup When(doc.kind = "law" /\ doc.pins, "V012", doc.path)

CheckRules(docs, rules) ==
    LET Repeated(i) == \E j \in 1..i - 1 : rules[j].id = rules[i].id
        Partitioned(doc) == Len(doc.name) > 1 /\ doc.name[1] = RulePrefix(doc)
        PrefixAllowed(doc, r) == r.prefix = RulePrefix(doc) /\ (doc.prefix = None \/ Partitioned(doc))
        OfRule(r) ==
            When(r.force = "BINDING" /\ r.check = {}, "V022", r.id)
              \cup When(r.force = "BINDING" /\ r.mechanisms = <<>>, "V023", r.id)
              \cup When(r.long, "V024", r.id)
              \cup When(r.force = "RETIRED" /\ (r.mechanisms # <<>> \/ r.check # {} \/ r.noMechanism),
                        "V025", r.id)
    IN  {<<"V020", rules[i].id>> : i \in {j \in DOMAIN rules : Repeated(j)}}
          \cup (UNION {UNION {When(~PrefixAllowed(doc, r), "V021", r.id) : r \in ToSet(ParseRules(doc))} :
                         doc \in ToSet(docs)})
          \cup UNION {OfRule(r) : r \in ToSet(rules)}

\* The open ledger is read as a file, whether or not it parses as a document.
CheckLedgers(rules, c) ==
    LET open == UNION {doc.mentionsRules : doc \in {d \in ToSet(c.docs) : d.path.id = "meta/OPEN"}}
    IN  UNION {When(r.force = "ADVISORY" /\ ~r.noMechanism, "V030", r.id)
                 \cup When(r.force = "OPEN" /\ r.id \notin open, "V031", r.id) : r \in ToSet(rules)}

\* A file is mentioned by its directory and name, or by its name beside the document.
CheckXrefs(docs, rules, c) ==
    LET known == RuleIds(rules) \cup {doc.id : doc \in ToSet(docs)}
                   \cup {doc.path.id : doc \in {d \in ToSet(c.docs) : d.path.dir = "examples"}}
        External == {"README", "SKILL", "SUPERSEDED", "MEMORY"}
        Beside(doc) == {d.path.stem : d \in {d \in ToSet(c.docs) : d.path.dir = doc.path.dir}}
        there == {d.path.id : d \in ToSet(c.docs)} \cup External
    IN  UNION {When(~(doc.refs \subseteq known), "V040", doc.path)
                 \cup When(~(doc.mentions \subseteq there \cup Beside(doc)), "V041", doc.path) : doc \in ToSet(docs)}

CheckBudgets(docs) ==
    UNION {LET budget == BudgetFor(doc)
               actual == CountTokens(doc.length)
           IN  When(actual > budget, "V050", doc.path)
                 \cup When(actual <= budget /\ 10 * actual > 9 * budget /\ doc.path.stem = "KERNEL",
                           "V051", doc.path) : doc \in ToSet(docs)}

CheckFreshness(docs) ==
    UNION {When(doc.decay # None /\ doc.age # None /\ doc.age > DecayDays[doc.decay], "V060", doc.path) :
             doc \in {d \in ToSet(docs) : d.decay # None}}

\* The banned terms are those of the glossary file; it is not checked itself.
CheckGlossary(docs, c) ==
    LET banned == UNION {doc.banned : doc \in {d \in ToSet(c.docs) : d.path.id = "meta/GLOSSARY"}}
    IN  UNION {When(doc.bare \cap banned # {}, "V070", doc.path) :
                 doc \in {d \in ToSet(docs) : d.path.id # "meta/GLOSSARY"}}

CheckGrounding(docs) ==
    LET facts  == SelectSeq(docs, LAMBDA d : d.kind = "fact")
        pinned == UNION {f.tools : f \in ToSet(facts)}
        Owner(tool) == facts[SelectInSeq(facts, LAMBDA f : tool \in f.tools)].id
    IN  UNION {UNION {When(\E tool \in r.check \cap pinned : Owner(tool) \notin doc.grounds, "V095", r.id) :
                        r \in ToSet(ParseRules(doc))} :
                 doc \in {d \in ToSet(docs) : d.kind = "law"}}

-----------------------------------------------------------------------------
(* Mechanisms and the ceiling over them.                                   *)

CheckMechanisms(rules, c) == {<<"V080", pair[1]>> : pair \in UnbuiltPairs(rules, c.enforce)}

CheckV080Ratchet(rules, c, ceiling) ==
    LET current == Cardinality(UnbuiltPairs(rules, c.enforce))
    IN  When(current > ceiling, "V081", "baseline") \cup When(current < ceiling, "V082", "baseline")

CheckDiscriminationGap(rules, c) ==
    LET covered == DiscriminationCovered(c)
        gap == {r \in ToSet(rules) : /\ r.force = "BINDING"
                                           /\ r.id \notin covered
                                           /\ HasMechanicalClaim(r.mechanisms, c.enforce, r.id)}
    IN  IF covered = Unknown THEN {} ELSE When(gap # {}, "V098", "matrix")

-----------------------------------------------------------------------------
(* The graph: of the corpus as it is, and the file.                        *)

CheckGraph(c, file) ==
    LET graph == Build(c)
    IN  {<<IF e.origin = "declared" THEN "V093" ELSE "V090", e.src>> : e \in Dangling(graph)}
          \cup When(CyclesIn(graph, "requires", Order) # {}, "V091", "requires")
          \cup {<<"V092", id>> : id \in UnreachableFrom(graph, OfType(graph, "module"), "rule", ReachDepth,
                                                          {e.type : e \in graph.edges})}
          \cup When(file # Absent /\ file # graph, "V094", "graph.json")

-----------------------------------------------------------------------------
(* Evidence and learning.                                                  *)

EvidenceCode == [E001 |-> "V101", E002 |-> "V102", E003 |-> "V103", E004 |-> "V104", E005 |-> "V105",
                 E006 |-> "V105", E007 |-> "V105", E008 |-> "V106", E009 |-> "V107", E010 |-> "V108",
                 E011 |-> "V109", E012 |-> "V110", E013 |-> "V111"]

CheckEvidence(rules, c) ==
    LET registry     == LoadEvidence(c.registry)
        observations == LoadObservations(c.observed)
        witnesses    == DiscriminationWitnesses(c)
    IN  IF registry = Malformed THEN {<<"V100", "registry">>}
        ELSE When(observations = Malformed, "V109", "observations")
               \cup {<<EvidenceCode[f[1]], f[2]>> :
                       f \in ValidateEvidence(registry, rules,
                                              IF witnesses = Unknown THEN {} ELSE witnesses, observations)}

\* The database is compared with the ledger by the number of their events.
CheckLearning(c) ==
    LET l == c.ledger
    IN  IF l.database = Absent THEN {}
        ELSE When(l.broken \/ l.database = Torn \/ l.database # l.learned + l.used, "V096", "learning")

CheckLearningOutcomes(c) ==
    LET l == c.ledger
    IN  When(~l.broken /\ l.learned > 0 /\ 10 * l.used < l.learned, "V097", "learning")

-----------------------------------------------------------------------------

Findings(c, file, ceiling) ==
    LET docs  == Documents(c)
        rules == Rules(docs)
    IN  {<<"V001", doc.path>> : doc \in Unparsable(c)}
          \cup (UNION {CheckFrontMatter(doc) \cup CheckGenreConstraints(doc) : doc \in ToSet(docs)})
          \cup CheckRules(docs, rules)
          \cup CheckEvidence(rules, c)
          \cup CheckLedgers(rules, c)
          \cup CheckXrefs(docs, rules, c)
          \cup CheckBudgets(docs)
          \cup CheckFreshness(docs)
          \cup CheckGlossary(docs, c)
          \cup CheckMechanisms(rules, c)
          \cup CheckV080Ratchet(rules, c, ceiling)
          \cup CheckGraph(c, file)
          \cup CheckGrounding(docs)
          \cup CheckLearning(c)
          \cup CheckLearningOutcomes(c)
          \cup CheckDiscriminationGap(rules, c)

Errors(findings) == {f \in findings : f[1] \notin WarningCodes}

=============================================================================
