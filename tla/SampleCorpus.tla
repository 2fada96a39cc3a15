---------------------------- MODULE SampleCorpus ----------------------------
(***************************************************************************)
(* How the checked instances write documents, headings and records down:   *)
(* each with the fewest fields set, the others being those of a document   *)
(* the validator has nothing to say about.                                 *)
(***************************************************************************)
EXTENDS Evidence

Doc(dir, stem, kind, length) ==
    [path |-> [dir |-> dir, stem |-> stem, id |-> dir \o "/" \o stem],
     parses |-> TRUE, lawful |-> TRUE, id |-> dir \o "/" \o stem, kind |-> kind,
     name |-> <<stem>>, prefix |-> None, requires |-> {}, grounds |-> {}, keywords |-> {}, globs |-> {},
     headings |-> <<>>, pins |-> FALSE, tools |-> {}, refs |-> {}, mentions |-> {},
     mentionsRules |-> {}, defines |-> {}, decisions |-> {}, sources |-> {}, bare |-> {},
     banned |-> {}, age |-> None, decay |-> "none", length |-> length,
     tokens |-> CountTokens(length), rows |-> {}]

Tag(family, target) == [family |-> family, target |-> target]
Binding == Tag("BINDING", "")
Heading(prefix, id, tags) ==
    [id |-> id, prefix |-> prefix, tags |-> tags, fenced |-> FALSE, long |-> FALSE,
     check |-> IF Binding \in ToSet(tags) THEN {"run"} ELSE {}, see |-> {},
     noMechanism |-> ToSet(tags) \cap {Tag("ADVISORY", "")} # {}, supersededBy |-> None]

Strategy(id, m, kind) ==
    [mechanism |-> m, kind |-> kind, relation |-> "direct", platforms |-> <<"any">>, vague |-> FALSE,
     rejects |-> IF kind = "structured-review" THEN None ELSE <<id, m>>]
Record(strategies, disposition) ==
    [fields |-> RecordFields, blank |-> {}, units |-> <<"component">>, capabilities |-> <<>>,
     observations |-> <<"V4E-001">>, warrants |-> <<[relation |-> "supports", confidence |-> "high"]>>,
     strategies |-> strategies, disposition |-> disposition]

=============================================================================
