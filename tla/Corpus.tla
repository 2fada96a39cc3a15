------------------------------- MODULE Corpus -------------------------------
(***************************************************************************)
(* The discipline corpus as discipline_core reads it.                      *)
(*                                                                         *)
(* A corpus is a record:                                                   *)
(*   docs      the markdown documents, in the order of their paths         *)
(*   registry  the evidence registry (module Evidence), None when missing  *)
(*   observed  the observation registry                                    *)
(*   enforce   what stands under enforce/: the check modules and the rules *)
(*             each claims, the fitness functions and the rules each       *)
(*             decides, the rejections the discrimination matrix witnessed *)
(*   declared  the relations of discipline/meta/edges.yaml                 *)
(*   triggers  the signatures named by contracts, lint codes and signals   *)
(*   ledger    what the learning database holds                            *)
(* A document carries its front-matter and its rule headings; of its text  *)
(* only the length and the words the checks look for are kept.             *)
(***************************************************************************)
EXTENDS Integers, Sequences, FiniteSets, SequencesExt

CONSTANTS None,        \* a field that is not there
          Unknown      \* a check module whose claims cannot be read

Forces == {"BINDING", "ADVISORY", "OPEN", "RETIRED"}
Kinds  == {"law", "fact", "frame", "ops", "meta"}

-----------------------------------------------------------------------------
(* Rules.  A heading is a rule when it stands outside a code fence and     *)
(* carries the tag of a force; its other tags are its mechanisms.          *)

\* FlattenSeq of a sequence, not of a formula for it: TLC evaluates each of its elements once.
Chain(seqs) == FlattenSeq(<<>> \o seqs)

\* The elements of a sequence that pass a test, in their order.
Those(s, Test(_)) == Chain([i \in DOMAIN s |-> IF Test(s[i]) THEN <<s[i]>> ELSE <<>>])

IsForce(tag) == tag.family \in Forces

ForceFromTags(tags) ==
    LET forces == SelectSeq(tags, IsForce)
    IN  IF forces = <<>> THEN None ELSE forces[1].family

RuleOf(doc, heading) ==
    [id |-> heading.id, module |-> doc.id, path |-> doc.path,
     prefix |-> heading.prefix, long |-> heading.long,
     force |-> ForceFromTags(heading.tags),
     mechanisms |-> Those(heading.tags, LAMBDA tag : ~IsForce(tag)),
     check |-> heading.check, see |-> heading.see,
     noMechanism |-> heading.noMechanism, supersededBy |-> heading.supersededBy]

ParseRules(doc) ==
    LET IsRule(h) == ~h.fenced /\ ForceFromTags(h.tags) # None
        found == Those(doc.headings, IsRule)
    IN  [i \in DOMAIN found |-> RuleOf(doc, found[i])]

\* The documents that parse, in path order.  INDEX.md is generated and never read.
Documents(c) == Those(c.docs, LAMBDA doc : doc.parses)
Unparsable(c) == {doc \in ToSet(c.docs) : ~doc.parses}

Rules(docs) == Chain([i \in DOMAIN docs |-> ParseRules(docs[i])])
RuleIds(rules) == {rule.id : rule \in ToSet(rules)}

\* A dict built over the rules keeps the last heading of an id.
RuleNamed(rules, id) == rules[SelectLastInSeq(rules, LAMBDA rule : rule.id = id)]

\* A module's name is the sequence of its dash-separated parts; a rule prefix is one part.
RulePrefix(doc) ==
    IF doc.prefix # None THEN doc.prefix
    ELSE IF Len(doc.name) = 1 THEN doc.name[1] ELSE None

-----------------------------------------------------------------------------
(* Mechanisms.  A mechanism is [family, target]: check:x, fitness:y,       *)
(* auto:tool, or review.                                                   *)

Review == [family |-> "review", target |-> ""]

RulesClaimedBy(check, e) == e.checks[check]
RulesDeclaredBy(function, e) == e.fitness[function]

MechanismIsImplemented(mechanism, e, id) ==
    LET Answer(b) == IF b THEN "yes" ELSE "no"
    IN  CASE mechanism.family = "check" ->
               Answer(/\ mechanism.target \in DOMAIN e.checks
                      /\ \/ RulesClaimedBy(mechanism.target, e) = Unknown
                         \/ id \in RulesClaimedBy(mechanism.target, e))
          [] mechanism.family = "fitness" ->
               Answer(/\ mechanism.target \in DOMAIN e.fitness
                      /\ id \in RulesDeclaredBy(mechanism.target, e))
          [] OTHER -> "undecided"

\* How a rule is enforced, as the index and the ledgers print it.
EnforcementOf(mechanisms, e, id) ==
    LET resolved == {MechanismIsImplemented(m, e, id) : m \in ToSet(mechanisms)}
    IN  CASE mechanisms = <<>>                -> "unmechanized"
          [] "no" \in resolved                -> "unbuilt"
          [] resolved = {"yes"}               -> "mechanized"
          [] ToSet(mechanisms) = {Review}     -> "review"
          [] OTHER                            -> "external"

HasMechanicalClaim(mechanisms, e, id) ==
    \E m \in ToSet(mechanisms) : m # Review /\ MechanismIsImplemented(m, e, id) # "no"

\* The pairs of rule and mechanism nothing implements: what V080 counts.
UnbuiltPairs(rules, e) ==
    UNION {{<<rule.id, m>> : m \in {n \in ToSet(rule.mechanisms) :
                                      MechanismIsImplemented(n, e, rule.id) = "no"}} :
             rule \in ToSet(rules)}

-----------------------------------------------------------------------------
(* Tokens: an estimate from the length of the text, 3.7 characters each.   *)

CountTokens(length) == (20 * length + 37) \div 74

BudgetFor(doc) == IF doc.path.stem = "KERNEL" THEN 2000 ELSE 4000

=============================================================================
