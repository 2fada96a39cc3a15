------------------------------ MODULE Evidence ------------------------------
(***************************************************************************)
(* The evidence registry (evidence_model): how the record of a rule is     *)
(* parsed, what its disagreements with the rule's heading are, and what    *)
(* verification state it gives the rule.                                   *)
(*                                                                         *)
(* A registry file is None (missing), Unknown (not JSON of the schema's    *)
(* version) or a function from rule ids to raw records.  A raw record      *)
(* holds its field names and its values; free text that must only be       *)
(* there is in the set `blank` when it is empty.                           *)
(***************************************************************************)
EXTENDS Corpus

CONSTANT Malformed     \* what parsing raises

RecordFields == {"units", "capabilities", "failure_mode", "warrants", "strategies",
                 "observations", "migration"}
Units        == {"application", "component"}
Dispositions == {"unchanged", "clarified", "superseded", "consolidated",
                 "capability-activated", "retired", "new"}
Withdrawn    == {"superseded", "consolidated", "retired"}
MechanismKinds == {"static", "tool", "behavioral", "generated-drift", "structured-review"}
Confidences  == {"high", "medium", "low"}
WarrantRelations == {"supports", "motivates", "limits", "observed-in"}

-----------------------------------------------------------------------------
(* Parsing.                                                                *)

Distinct(seq) == Len(seq) = Cardinality(ToSet(seq))

WarrantParses(w) == w.relation \in WarrantRelations /\ w.confidence \in Confidences

StrategyParses(s) ==
    /\ s.kind \in MechanismKinds
    /\ s.relation \in {"direct", "proxy"}
    /\ s.platforms # <<>>
    /\ Distinct(s.platforms)

RecordParses(raw) ==
    /\ raw.fields = RecordFields
    /\ raw.blank = {}
    /\ raw.units # <<>>
    /\ ToSet(raw.units) \subseteq Units
    /\ Distinct(raw.capabilities)
    /\ Distinct(raw.observations)
    /\ \A w \in ToSet(raw.warrants) : WarrantParses(w)
    /\ \A s \in ToSet(raw.strategies) : StrategyParses(s)
    /\ raw.disposition \in Dispositions

\* One record that does not parse refuses the whole registry.
LoadEvidence(file) ==
    IF \/ file \in {None, Unknown}
       \/ \E id \in DOMAIN file : ~RecordParses(file[id])
    THEN Malformed ELSE file

ObservationParses(o) == o.named /\ o.blank = {} /\ o.locations # <<>> /\ Distinct(o.locations)

LoadObservations(file) ==
    IF \/ file \in {None, Unknown}
       \/ \E id \in DOMAIN file : ~ObservationParses(file[id])
    THEN Malformed ELSE file

-----------------------------------------------------------------------------
(* Strategies.                                                             *)

IsAutomated(strategy) == strategy.kind # "structured-review"

Automated(record) == SelectSeq(record.strategies, IsAutomated)

ExpectedKind(mechanism) ==
    CASE mechanism.family = "check"   -> {"static", "generated-drift"}
      [] mechanism.family = "fitness" -> {"behavioral", "generated-drift"}
      [] mechanism.family = "auto"    -> {"tool"}
      [] mechanism = Review           -> {"structured-review"}
      [] OTHER                        -> {}

\* The matrix as the tree holds it: the set of rejections it lists, or Unknown when it
\* is missing or fails to import.
DiscriminationCovered(c) ==
    IF c.enforce.matrix = Unknown THEN Unknown ELSE {w.rule : w \in c.enforce.matrix}

\* A rejection names its strategy, or the rule has only one; anything else voids the list.
DiscriminationWitnesses(c) ==
    LET registry == LoadEvidence(c.registry)
        Candidates(w) ==
            IF w.rule \in DOMAIN registry
            THEN [i \in DOMAIN Automated(registry[w.rule]) |-> Automated(registry[w.rule])[i].mechanism]
            ELSE <<>>
        Ambiguous(w) ==
            /\ Candidates(w) # <<>>
            /\ IF w.mechanism = None THEN Len(Candidates(w)) # 1
                                     ELSE w.mechanism \notin ToSet(Candidates(w))
    IN  IF \/ c.enforce.matrix = Unknown
           \/ registry = Malformed
           \/ \E w \in c.enforce.matrix : Ambiguous(w)
        THEN Unknown
        ELSE {<<w.rule, IF w.mechanism = None THEN Candidates(w)[1] ELSE w.mechanism>> :
                w \in {x \in c.enforce.matrix : Candidates(x) # <<>>}}

-----------------------------------------------------------------------------
(* Disagreements between a rule's heading and its record.                  *)

RetirementFindings(rule, record) ==
    LET withdrawn == record.disposition \in Withdrawn
    IN  (IF withdrawn /\ record.strategies # <<>> THEN {"E005"} ELSE {})
          \cup (IF \/ withdrawn # (rule.force = "RETIRED")
                   \/ rule.supersededBy # None /\ ~withdrawn THEN {"E006"} ELSE {})
          \cup (IF rule.supersededBy = None /\ record.disposition \in {"superseded", "consolidated"}
                THEN {"E007"} ELSE {})

StrategyFindings(rule, s, witnesses) ==
    LET automated == IsAutomated(s)
    IN  (IF automated /\ s.rejects = None THEN {"E008"} ELSE {})
          \cup (IF automated /\ s.rejects # None /\ s.rejects # <<rule.id, s.mechanism>>
                THEN {"E012"} ELSE {})
          \cup (IF automated /\ s.vague THEN {"E013"} ELSE {})
          \cup (IF automated /\ <<rule.id, s.mechanism>> \notin witnesses THEN {"E009"} ELSE {})
          \cup (IF s.kind \notin ExpectedKind(s.mechanism) THEN {"E010"} ELSE {})

\* Mutant: mechanisms are compared as sets of families.
RecordFindings_families(rule, record, witnesses, observations) ==
    (IF {m.family : m \in ToSet(rule.mechanisms)} # {s.mechanism.family : s \in ToSet(record.strategies)}
     THEN {"E004"} ELSE {})
      \cup UNION {StrategyFindings(rule, s, witnesses) : s \in ToSet(record.strategies)}

RecordFindings(rule, record, witnesses, observations) ==
    (IF record.warrants = <<>> THEN {"E003"} ELSE {})
      \cup (IF observations # Malformed /\ ~(ToSet(record.observations) \subseteq DOMAIN observations)
            THEN {"E011"} ELSE {})
      \cup (IF ToBag(rule.mechanisms)
                 # ToBag([i \in DOMAIN record.strategies |-> record.strategies[i].mechanism])
            THEN {"E004"} ELSE {})
      \cup RetirementFindings(rule, record)
      \cup UNION {StrategyFindings(rule, s, witnesses) : s \in ToSet(record.strategies)}

\* Every finding, as the pair of its code and the rule it is about.
ValidateEvidence(registry, rules, witnesses, observations) ==
    {<<"E001", id>> : id \in RuleIds(rules) \ DOMAIN registry}
      \cup {<<"E002", id>> : id \in DOMAIN registry \ RuleIds(rules)}
      \cup UNION {{<<code, id>> : code \in RecordFindings(RuleNamed(rules, id), registry[id],
                                                          witnesses, observations)} :
                    id \in RuleIds(rules) \cap DOMAIN registry}

-----------------------------------------------------------------------------
(* The verification state of a rule, which the index and the navigator     *)
(* print beside its force.                                                 *)

VerificationState(rule, record, e) ==
    LET kinds == {s.kind : s \in ToSet(record.strategies)}
        mixed == "structured-review" \in kinds \/ ("tool" \in kinds /\ Cardinality(kinds) > 1)
    IN  IF record.disposition \in Withdrawn THEN "retired"
        ELSE IF record.strategies = <<>> THEN "undeclared"
        ELSE IF \E s \in ToSet(record.strategies) :
                  MechanismIsImplemented(s.mechanism, e, rule.id) = "no" THEN "unbuilt"
        ELSE IF kinds = {"structured-review"} THEN "structured-review"
        ELSE IF mixed THEN "mixed-verifiers"
        ELSE IF kinds = {"tool"} THEN "external-verifier"
        ELSE "local-verifier"

=============================================================================
