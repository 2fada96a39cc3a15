----------------------------- MODULE Artifacts -----------------------------
(***************************************************************************)
(* The files derived from the corpus and the commands that write and check *)
(* them, over a corpus somebody goes on editing:                           *)
(*   index       build_index: token counts in the documents, then          *)
(*               INDEX.md, rules.json and ENFORCEMENT.md                   *)
(*   graph       build_graph: graph.json                                   *)
(*   extract     extract_sources: the census of the archived sources       *)
(*   provenance  build_provenance: PROVENANCE.md, itself a document of the *)
(*               corpus, and the claim ledger                              *)
(*   mirror      build_skill_mirror: the copies of the skill               *)
(*   validate    validate.py                                               *)
(*                                                                         *)
(* A command reads, computes and writes in that order, one file at a time; *)
(* it may be killed, leaving the file it was writing whole, old or torn.   *)
(* A derived file is represented by the values its text shows.             *)
(***************************************************************************)
EXTENDS Validator

CONSTANTS InitialCorpus, InitialSources, InitialSkill,
          DocVersions,       \* what an editor may save: documents,
          Registries,        \*   evidence registries,
          Enforcements,      \*   states of the enforcement directory,
          SourceVersions,    \*   states of the archive of sources,
          SkillVersions,     \*   states of the skill's directory
          Doctrine,          \* the lines of the commenting doctrine whose digest is pinned
          ClaimCount,        \* how many claims it is known to make
          Policies,          \* reviewed dispositions of its claims: section -> number of policies
          Exceptions,        \* reviewed exceptions to where a source's sections went
          Targets,           \* source -> the modules its sections went to by default
          Elsewhere,         \* other trees validate.py may be pointed at
          MaxEdits, MaxKills, MaxMoves, MaxUses   \* bounds on edits, kills, moved ceilings, and all three

\* A function with nothing else to it: two of them are equal when they agree on their domain.
IsFcn(f) == f = [x \in DOMAIN f |-> f[x]]

\* What the generators need of a document: it may be torn, and may declare no token count;
\* its headings are a sequence, and so are the tags of each.
IsDocument(doc) ==
    /\ {"path", "parses", "length", "tokens", "headings"} \subseteq DOMAIN doc
    /\ doc.parses \in BOOLEAN /\ doc.length \in Nat /\ doc.tokens \in Nat \cup {None}
    /\ doc.headings \in Seq(ToSet(doc.headings))
    /\ \A h \in ToSet(doc.headings) : h.tags \in Seq(ToSet(h.tags))

\* A registry that was read gives each rule a sequence of strategies.
IsRegistry(r) ==
    r \in {None, Unknown} \/ \A id \in DOMAIN r : r[id].strategies \in Seq(ToSet(r[id].strategies))

ProvenancePath == [dir |-> "meta", stem |-> "PROVENANCE", id |-> "meta/PROVENANCE"]

ASSUME NoneAssumption == None \notin Int

\* A corpus is a record, PROVENANCE.md is one of its documents, and no two have its path.
ASSUME CorpusAssumption ==
    /\ IsFcn(InitialCorpus)
    /\ DOMAIN InitialCorpus =
         {"docs", "registry", "observed", "enforce", "declared", "triggers", "ledger"}
    /\ InitialCorpus.docs \in Seq(ToSet(InitialCorpus.docs))
    /\ \A doc \in ToSet(InitialCorpus.docs) \cup DocVersions : IsDocument(doc)
    /\ \E i \in DOMAIN InitialCorpus.docs :
         /\ InitialCorpus.docs[i].path = ProvenancePath
         /\ \A j \in DOMAIN InitialCorpus.docs \ {i} : InitialCorpus.docs[j].path.id # "meta/PROVENANCE"

ASSUME RegistriesAssumption == \A r \in {InitialCorpus.registry} \cup Registries : IsRegistry(r)

\* An archive holds finitely many sources, and a source is a sequence of lines.
ASSUME SourcesAssumption ==
    \A archive \in {InitialSources} \cup SourceVersions :
        /\ IsFiniteSet(DOMAIN archive)
        /\ \A tag \in DOMAIN archive : archive[tag] # Absent => archive[tag] \in Seq(ToSet(archive[tag]))

\* A skill is finitely many files.
ASSUME SkillAssumption ==
    \A files \in {InitialSkill} \cup SkillVersions : IsFcn(files) /\ IsFiniteSet(DOMAIN files)

ASSUME BoundsAssumption == {MaxEdits, MaxKills, MaxMoves, MaxUses} \subseteq Nat

VARIABLES corpus,      \* the documents, the registries and the enforcement directory
          sources,     \* the archived source documents, by tag
          skill,       \* the files of the skill
          disk,        \* the derived files that are not documents
          ceiling,     \* the recorded number of unbuilt mechanisms
          job,         \* the running command
          green,       \* the checks that passed since anything last changed
          rounds,      \* documented build commands completed in order, with no check and no other writer between
          used         \* edits, kills and moved ceilings so far

vars == <<corpus, sources, skill, disk, ceiling, job, green, rounds, used>>

Documented == <<"index", "graph", "provenance", "mirror">>
Commands   == {"index", "graph", "extract", "provenance", "mirror", "validate"}
Modes      == {"write", "check"}
Mirrors    == {"claude", "agents"}

\* stale: an edit landed since the command began; refreshed: some count was out of date.
Idle == [command |-> "none", mode |-> "write", step |-> "done", todo |-> <<>>, orphans |-> {},
         docs |-> <<>>, text |-> None, refreshed |-> FALSE, stale |-> FALSE]

\* Count one more edit, kill or moved ceiling, within its bound and the bound on all of them.
Use(what, bound) ==
    /\ used[what] < bound
    /\ used.edits + used.kills + used.moves < MaxUses
    /\ used' = [used EXCEPT ![what] = @ + 1]

-----------------------------------------------------------------------------
(* build_index.                                                            *)

\* Mutant: a count is refreshed only when it shrank.
TokensStale_shrunk(doc) == doc.tokens = None \/ doc.tokens > CountTokens(doc.length) + 2

\* A declared count may be off by two before it is rewritten.
TokensStale(doc) ==
    \/ doc.tokens = None
    \/ doc.tokens > CountTokens(doc.length) + 2
    \/ CountTokens(doc.length) > doc.tokens + 2

\* A document without a tokens line is written back as it is.
Refreshed(doc) == IF doc.tokens = None THEN doc ELSE [doc EXCEPT !.tokens = CountTokens(doc.length)]

StatusOf(c, rule) == VerificationState(rule, c.registry[rule.id], c.enforce)

\* A registry that does not parse, or a rule without a record, ends the build.
Buildable(c) ==
    /\ Malformed \notin {LoadEvidence(c.registry), LoadObservations(c.observed)}
    /\ RuleIds(Rules(Documents(c))) \subseteq DOMAIN c.registry

Rejection(c, rule) ==
    LET covered == DiscriminationCovered(c)
    IN  IF Automated(c.registry[rule.id]) = <<>> THEN "n/a"
        ELSE IF covered = Unknown THEN "unknown"
        ELSE IF rule.id \in covered THEN "witnessed" ELSE "pending"

RuleRow(c, rule) ==
    LET record == c.registry[rule.id]
    IN  [id |-> rule.id, force |-> rule.force, state |-> StatusOf(c, rule),
         relations |-> {s.relation : s \in ToSet(record.strategies)},
         platforms |-> UNION {ToSet(s.platforms) : s \in ToSet(record.strategies)},
         rejection |-> Rejection(c, rule), field |-> record.observations]

BuildIndex(c) ==
    LET docs == Documents(c)
    IN  [modules |-> {[id |-> d.id, kind |-> d.kind, tokens |-> d.tokens, keywords |-> d.keywords,
                       rules |-> Len(ParseRules(d))] : d \in {x \in ToSet(docs) : x.kind \in Kinds \ {"meta"}}},
         rules |-> {RuleRow(c, r) : r \in ToSet(Rules(docs))}]

RulePayload(c, rule) ==
    [rule |-> rule, state |-> StatusOf(c, rule), record |-> c.registry[rule.id]]

BuildRulesJson(c) ==
    LET docs == Documents(c)
    IN  [modules |-> {[id |-> d.id, kind |-> d.kind, tokens |-> d.tokens, keywords |-> d.keywords,
                       requires |-> d.requires, grounds |-> d.grounds, decay |-> d.decay] :
                        d \in {x \in ToSet(docs) : x.id # ""}},
         observations |-> c.observed,
         rules |-> {RulePayload(c, r) : r \in ToSet(Rules(docs))}]

\* A mechanism is pending when no file implements it, whichever rules name it.
EvidenceCensus(c) ==
    LET rules == ToSet(Rules(Documents(c)))
        named == UNION {ToSet(r.mechanisms) : r \in rules}
        Local(m) == \/ m.family = "check" /\ m.target \notin DOMAIN c.enforce.checks
                    \/ m.family = "fitness" /\ m.target \notin DOMAIN c.enforce.fitness
    IN  [named |-> named, pending |-> {m \in named : Local(m)},
         unavailable |-> {r.id : r \in {x \in rules : x.force = "BINDING" /\ StatusOf(c, x) \in {"unbuilt", "undeclared"}}},
         strategies |-> UNION {{<<id, s.mechanism, s.relation>> : s \in ToSet(c.registry[id].strategies)} :
                                 id \in DOMAIN c.registry}]

BuildEnforcement(c) ==
    [census |-> EvidenceCensus(c), rules |-> {RuleRow(c, r) : r \in ToSet(Rules(Documents(c)))},
     advisory |-> {<<r.id, r.noMechanism>> : r \in {x \in ToSet(Rules(Documents(c))) : x.force = "ADVISORY"}}]

\* The three files in the order they are written.
IndexFiles(c) == <<<<"index", BuildIndex(c)>>, <<"rules", BuildRulesJson(c)>>,
                   <<"ledger", BuildEnforcement(c)>>>>


-----------------------------------------------------------------------------
(* extract_sources and build_provenance.  A source is a sequence of lines, *)
(* [is, words, level]; a statement's kind says which pattern it matches.   *)

Explicit   == {"tagged", "numbered-rule", "checklist"}
Commenting == {"enumerated-claim", "decision-table", "normative-prose"}
General    == {"rfc2119", "prohibition"}

\* Only the commenting doctrine (CD) has its bullets, table rows and modal sentences read.
CandidateIn(tag, line) ==
    line.is \in Explicit \cup General \/ (tag = "CD" /\ line.is \in Commenting)

\* Of the lines outside a code fence, the headings, and the statements under the last
\* heading of the second level.
Scan(tag, lines) ==
    LET Fences(i) == {k \in 1..i - 1 : lines[k].is = "fence"}
        open      == {i \in DOMAIN lines : lines[i].is # "fence" /\ Cardinality(Fences(i)) % 2 = 0}
        headings  == {i \in open : lines[i].is = "heading"}
        Major(i)  == {k \in headings : k < i /\ lines[k].level = 2}
    IN  [sections |-> {[source |-> tag, heading |-> lines[i].words, line |-> i] : i \in headings},
         candidates |-> {[source |-> tag, line |-> i, text |-> lines[i].words,
                          section |-> IF Major(i) = {} THEN {} ELSE lines[Max(Major(i))].words] :
                           i \in {k \in open \ headings : CandidateIn(tag, lines[k])}}]

\* A source that is missing is reported and left out of the census.
Census(archive) ==
    LET scanned == {Scan(tag, archive[tag]) : tag \in {t \in DOMAIN archive : archive[t] # Absent}}
    IN  [sections |-> UNION {s.sections : s \in scanned},
         candidates |-> UNION {s.candidates : s \in scanned}]

\* The longest reviewed needle found in a heading decides.
DispositionFor(section) ==
    LET found == SelectSeq(Exceptions, LAMBDA d : d.source = section.source /\ d.needle \subseteq section.heading)
        Longest(i) == /\ \A j \in DOMAIN found : Cardinality(found[j].needle) <= Cardinality(found[i].needle)
                      /\ \A j \in 1..i - 1 : Cardinality(found[j].needle) < Cardinality(found[i].needle)
    IN  IF found = <<>> THEN None
        ELSE found[CHOOSE i \in DOMAIN found : Longest(i)].disposition

BuildRows(sections) ==
    {[source |-> s.source, heading |-> s.heading,
      disposition |-> IF DispositionFor(s) # None THEN DispositionFor(s)
                      ELSE IF Targets[s.source] # {} THEN "migrated" ELSE "UNREVIEWED"] : s \in sections}

\* Each claim of the doctrine has exactly one policy, and all of its claims are there.
ClaimsReviewed(census) ==
    LET claims == {c \in census.candidates : c.source = "CD"}
    IN  /\ \A c \in claims : c.section \in DOMAIN Policies /\ Policies[c.section] = 1
        /\ Cardinality(claims) = ClaimCount

ProvenanceBuilds(archive, census) ==
    /\ archive["CD"] = Doctrine
    /\ census \notin {Absent, Torn}
    /\ ClaimsReviewed(census)

\* PROVENANCE.md is a document of the corpus: it has a length, a token count and the
\* source rows the graph reads.
RenderProvenance(census) ==
    LET rows   == BuildRows(census.sections)
        length == 370 * Cardinality(rows)
    IN  [path |-> ProvenancePath, parses |-> TRUE, lawful |-> TRUE, id |-> "meta/PROVENANCE", kind |-> "meta",
         name |-> <<"PROVENANCE">>, prefix |-> None, requires |-> {}, grounds |-> {},
         keywords |-> {<<"kw", "where did this come from">>}, globs |-> {}, headings |-> <<>>,
         pins |-> FALSE, tools |-> {}, refs |-> {}, mentions |-> {}, mentionsRules |-> {},
         defines |-> {}, decisions |-> {}, sources |-> {r.source : r \in rows},
         bare |-> {}, banned |-> {}, age |-> None, decay |-> "none",
         length |-> length, tokens |-> CountTokens(length), rows |-> rows]

ProvenanceAt == CHOOSE i \in DOMAIN corpus.docs : corpus.docs[i].path.id = "meta/PROVENANCE"

ClaimLedger(census) == {c \in census.candidates : c.source = "CD"}

-----------------------------------------------------------------------------
(* build_skill_mirror.                                                     *)

MirrorFiles(files) ==
    LET names == SetToSeq(DOMAIN files)
        Into(mirror) == [k \in DOMAIN names |-> <<"copy", <<mirror, names[k]>>, files[names[k]]>>]
    IN  Into("claude") \o Into("agents")

OrphanedFiles(files) ==
    UNION {{<<m, f>> : f \in DOMAIN disk.copies[m] \ DOMAIN files} : m \in Mirrors}

\* Mutant: a mirror is compared file by file, so a file the skill no longer has is not seen.
MirrorStale_noOrphans(files) ==
    \E m \in Mirrors, f \in DOMAIN files : f \notin DOMAIN disk.copies[m] \/ disk.copies[m][f] # files[f]

MirrorStale(files) == \E m \in Mirrors : disk.copies[m] # files

-----------------------------------------------------------------------------
(* Commands.                                                               *)

\* A directory after a file of it was written.
With(files, name, value) ==
    [f \in DOMAIN files \cup {name} |-> IF f = name THEN value ELSE files[f]]

Put(target, at, value) ==
    CASE target = "document" -> /\ corpus' = [corpus EXCEPT !.docs[at] = value]
                                /\ UNCHANGED disk
      [] target = "copy" -> /\ disk' = [disk EXCEPT !.copies[at[1]] = With(@, at[2], value)]
                            /\ UNCHANGED corpus
      [] OTHER -> /\ disk' = [disk EXCEPT ![target] = value]
                  /\ UNCHANGED corpus

\* Whatever changes a file voids the checks made before it.
Wrote == green' = {}

\* A command that only checks remembers that it found nothing out of date, unless an edit
\* landed while it ran.
Checked(command, fresh) ==
    /\ job' = Idle
    /\ green' = IF fresh THEN green \cup {command} ELSE green
    /\ rounds' = 0

\* A command that wrote all its files.
Completed ==
    /\ job' = Idle
    /\ rounds' = IF ~job.stale /\ rounds < 2 * Len(Documented)
                    /\ job.command = Documented[(rounds % Len(Documented)) + 1]
                 THEN rounds + 1 ELSE rounds

\* A command that ends with an error and has changed nothing.
Fail == job' = Idle /\ UNCHANGED <<green, rounds>>

\* Begin to write files one after another: each is <<what, where, value>>.
Writing(command, files) ==
    /\ job' = [Idle EXCEPT !.command = command, !.step = "write", !.todo = files,
                            !.stale = job.stale]
    /\ UNCHANGED <<green, rounds>>

Write ==
    /\ job.step = "write"
    /\ IF job.todo = <<>>
       THEN Completed /\ UNCHANGED <<corpus, disk, green>>
       ELSE /\ Put(job.todo[1][1], job.todo[1][2], job.todo[1][3])
            /\ job' = [job EXCEPT !.todo = Tail(@)]
            /\ Wrote
            /\ rounds' = IF job.command = "extract" THEN 0 ELSE rounds
    /\ UNCHANGED <<sources, skill, ceiling, used>>

-----------------------------------------------------------------------------
(* build_index: the documents are read, their counts are refreshed one by  *)
(* one, and when one was stale the documents are read again.               *)

IndexBegin ==
    /\ job.command = "none"
    /\ \E mode \in Modes :
         job' = [Idle EXCEPT !.command = "index", !.mode = mode, !.step = "refresh",
                             !.docs = corpus.docs, !.todo = [i \in DOMAIN corpus.docs |-> i]]
    /\ UNCHANGED <<corpus, sources, skill, disk, ceiling, green, rounds, used>>

\* On to the next stale document.  Its declared count was read before; the text it is
\* compared with is read now.
IndexMeasure ==
    /\ job.command = "index" /\ job.step = "refresh" /\ job.todo # <<>>
    /\ LET Stale(at) == job.docs[at].parses
                           /\ TokensStale([job.docs[at] EXCEPT !.length = corpus.docs[at].length])
           next == SelectInSeq(job.todo, Stale)
       IN  job' = IF next = 0 \/ job.mode = "check"
                  THEN [job EXCEPT !.todo = <<>>, !.refreshed = @ \/ next # 0]
                  ELSE [job EXCEPT !.step = "rewrite", !.todo = SubSeq(@, next, Len(@)),
                                   !.text = corpus.docs[job.todo[next]]]
    /\ UNCHANGED <<corpus, sources, skill, disk, ceiling, green, rounds, used>>

\* What was read a moment ago is written back with the new count.
IndexRewrite ==
    /\ job.command = "index" /\ job.step = "rewrite"
    /\ Put("document", job.todo[1], Refreshed(job.text))
    /\ job' = [job EXCEPT !.step = "refresh", !.todo = Tail(@), !.refreshed = TRUE, !.text = None]
    /\ green' = IF corpus' = corpus THEN green ELSE {}
    /\ UNCHANGED <<sources, skill, ceiling, rounds, used>>

IndexRender ==
    /\ job.command = "index" /\ job.step = "refresh" /\ job.todo = <<>>
    /\ LET seen  == IF job.refreshed /\ job.mode = "write" THEN corpus ELSE [corpus EXCEPT !.docs = job.docs]
           files == IndexFiles(seen)
       IN  IF ~Buildable(seen) THEN Fail
           ELSE IF job.mode = "check"
           THEN Checked("index", /\ ~job.stale /\ ~job.refreshed
                                 /\ \A k \in DOMAIN files : disk[files[k][1]] = files[k][2])
           ELSE Writing("index", [k \in DOMAIN files |-> <<files[k][1], None, files[k][2]>>])
    /\ UNCHANGED <<corpus, sources, skill, disk, ceiling, used>>

-----------------------------------------------------------------------------
(* The other commands compute everything first.                            *)

GraphRun ==
    /\ job.command = "none"
    /\ \E mode \in Modes :
         LET graph == Build(corpus)
         IN  IF mode = "check" THEN Checked("graph", disk.graph = graph)
             ELSE Writing("graph", <<<<"graph", None, graph>>>>)
    /\ UNCHANGED <<corpus, sources, skill, disk, ceiling, used>>

\* A missing source fails the command after the census was written without it.
ExtractRun ==
    /\ job.command = "none"
    /\ \E mode \in Modes :
         LET census  == Census(sources)
             missing == \E tag \in DOMAIN sources : sources[tag] = Absent
         IN  IF mode = "check" THEN Checked("extract", ~missing /\ disk.census = census)
             ELSE Writing("extract", <<<<"census", None, census>>>>)
    /\ UNCHANGED <<corpus, sources, skill, disk, ceiling, used>>

ProvenanceRun ==
    /\ job.command = "none"
    /\ ProvenanceBuilds(sources, disk.census)
    /\ \E mode \in Modes :
         LET document == RenderProvenance(disk.census)
             claims   == ClaimLedger(disk.census)
         IN  IF mode = "check"
             THEN Checked("provenance", corpus.docs[ProvenanceAt] = document /\ disk.claims = claims)
             ELSE Writing("provenance", <<<<"document", ProvenanceAt, document>>, <<"claims", None, claims>>>>)
    /\ UNCHANGED <<corpus, sources, skill, disk, ceiling, used>>

\* The copies are written, then the files the skill no longer has are deleted.
MirrorRun ==
    /\ job.command = "none"
    /\ \E mode \in Modes :
         IF mode = "check" THEN Checked("mirror", ~MirrorStale(skill))
         ELSE /\ job' = [Idle EXCEPT !.command = "mirror", !.step = "copy",
                                     !.todo = MirrorFiles(skill), !.orphans = OrphanedFiles(skill)]
              /\ UNCHANGED <<green, rounds>>
    /\ UNCHANGED <<corpus, sources, skill, disk, ceiling, used>>

MirrorCopy ==
    /\ job.step = "copy" /\ job.todo # <<>>
    /\ Put(job.todo[1][1], job.todo[1][2], job.todo[1][3])
    /\ job' = [job EXCEPT !.todo = Tail(@)]
    /\ Wrote
    /\ UNCHANGED <<sources, skill, ceiling, rounds, used>>

MirrorUnlink ==
    /\ job.step = "copy" /\ job.todo = <<>>
    /\ disk' = [disk EXCEPT !.copies = [m \in Mirrors |->
                   [f \in {g \in DOMAIN @[m] : <<m, g>> \notin job.orphans} |-> @[m][f]]]]
    /\ Completed /\ Wrote
    /\ UNCHANGED <<corpus, sources, skill, ceiling, used>>

ValidateRun ==
    /\ job.command = "none"
    /\ Checked("validate", Errors(Findings(corpus, disk.graph, ceiling)) = {})
    /\ UNCHANGED <<corpus, sources, skill, disk, ceiling, used>>

\* The ceiling moves to what the tree named on the command line holds.
UpdateBaseline ==
    /\ job.command = "none" /\ Use("moves", MaxMoves)
    /\ \E tree \in {corpus} \cup Elsewhere :
         ceiling' = Cardinality(UnbuiltPairs(Rules(Documents(tree)), tree.enforce))
    /\ Wrote
    /\ UNCHANGED <<corpus, sources, skill, disk, job, rounds>>

-----------------------------------------------------------------------------
(* Everybody else.                                                         *)

\* An edit lands while a command runs or between two; what the command read is old then.
Edited == /\ Use("edits", MaxEdits)
          /\ job' = IF job.command = "none" THEN job ELSE [job EXCEPT !.stale = TRUE]
          /\ rounds' = 0
          /\ Wrote
          /\ UNCHANGED <<disk, ceiling>>

EditDocument ==
    /\ Edited
    /\ \E doc \in DocVersions, i \in DOMAIN corpus.docs :
         /\ corpus.docs[i].path = doc.path
         /\ corpus.docs[i] # doc
         /\ corpus' = [corpus EXCEPT !.docs[i] = doc]
    /\ UNCHANGED <<sources, skill>>

EditRegistry ==
    /\ Edited
    /\ \E r \in Registries \ {corpus.registry} : corpus' = [corpus EXCEPT !.registry = r]
    /\ UNCHANGED <<sources, skill>>

EditEnforcement ==
    /\ Edited
    /\ \E e \in Enforcements \ {corpus.enforce} : corpus' = [corpus EXCEPT !.enforce = e]
    /\ UNCHANGED <<sources, skill>>

EditSources ==
    /\ Edited
    /\ \E s \in SourceVersions \ {sources} : sources' = s
    /\ UNCHANGED <<corpus, skill>>

EditSkill ==
    /\ Edited
    /\ \E s \in SkillVersions \ {skill} : skill' = s
    /\ UNCHANGED <<corpus, sources>>

\* The file being written is left as it was, or cut short; a command killed before it
\* wrote anything might as well not have been started.
Kill ==
    /\ job.step \in {"rewrite", "write", "copy"} /\ Use("kills", MaxKills)
    /\ job' = Idle
    /\ rounds' = 0
    /\ \/ UNCHANGED <<corpus, disk, green>>
       \/ /\ job.step # "rewrite" /\ job.todo # <<>>
          /\ job.todo[1][1] # "document"
          /\ Put(job.todo[1][1], job.todo[1][2], Torn)
          /\ Wrote
       \/ /\ job.step = "write" /\ job.todo # <<>> /\ job.todo[1][1] = "document"
          /\ corpus' = [corpus EXCEPT !.docs[job.todo[1][2]].parses = FALSE]
          /\ Wrote /\ UNCHANGED disk
       \/ /\ job.step = "rewrite"
          /\ corpus' = [corpus EXCEPT !.docs[job.todo[1]].parses = FALSE]
          /\ Wrote /\ UNCHANGED disk
    /\ UNCHANGED <<sources, skill, ceiling>>

-----------------------------------------------------------------------------

\* A checkout whose generated files are those of its documents.
Init ==
    /\ corpus = InitialCorpus /\ sources = InitialSources /\ skill = InitialSkill
    /\ disk = [index |-> BuildIndex(InitialCorpus), rules |-> BuildRulesJson(InitialCorpus),
                ledger |-> BuildEnforcement(InitialCorpus), graph |-> Build(InitialCorpus),
                census |-> Census(InitialSources), claims |-> ClaimLedger(Census(InitialSources)),
                copies |-> [m \in Mirrors |-> InitialSkill]]
    /\ ceiling = Cardinality(UnbuiltPairs(Rules(Documents(InitialCorpus)), InitialCorpus.enforce))
    /\ job = Idle /\ green = {} /\ rounds = 0
    /\ used = [edits |-> 0, kills |-> 0, moves |-> 0]

Next ==
    \/ IndexBegin \/ IndexMeasure \/ IndexRewrite \/ IndexRender
    \/ GraphRun \/ ExtractRun \/ ProvenanceRun \/ ValidateRun
    \/ MirrorRun \/ MirrorCopy \/ MirrorUnlink
    \/ Write
    \/ UpdateBaseline
    \/ EditDocument \/ EditRegistry \/ EditEnforcement \/ EditSources \/ EditSkill
    \/ Kill

Spec == Init /\ [][Next]_vars

-----------------------------------------------------------------------------
(* Properties.                                                             *)

\* The type of every variable; a document is only ever replaced by one of the same path.
TypeOK ==
    /\ Len(corpus.docs) = Len(InitialCorpus.docs)
    /\ \A i \in DOMAIN corpus.docs : corpus.docs[i].path = InitialCorpus.docs[i].path
    /\ DOMAIN disk = {"index", "rules", "ledger", "graph", "census", "claims", "copies"}
    /\ ceiling \in Nat
    /\ job.command \in Commands \cup {"none"} /\ job.mode \in Modes
    /\ job.step \in {"done", "refresh", "rewrite", "write", "copy"}
    /\ green \subseteq Commands
    /\ rounds \in 0..2 * Len(Documented)
    /\ used.edits \in 0..MaxEdits /\ used.kills \in 0..MaxKills /\ used.moves \in 0..MaxMoves

\* Running every documented build command again would change no file.
Settled ==
    /\ \A i \in DOMAIN corpus.docs :
         LET doc == corpus.docs[i]
         IN  doc.parses /\ doc.tokens # None => doc.tokens - CountTokens(doc.length) \in -2..2
    /\ Buildable(corpus)
    /\ \A k \in 1..3 : disk[IndexFiles(corpus)[k][1]] = IndexFiles(corpus)[k][2]
    /\ disk.graph = Build(corpus)
    /\ corpus.docs[ProvenanceAt] = RenderProvenance(disk.census)
    /\ disk.claims = ClaimLedger(disk.census)
    /\ \A m \in Mirrors : disk.copies[m] = skill

\* When every check passed and nothing changed since the first of them, the tree is settled,
\* its census is of the sources and the corpus is free of errors: no interleaving of edits,
\* kills and half-written files leaves the checks green over a stale file.
GreenIsSettled ==
    green = Commands => /\ Settled
                        /\ disk.census = Census(sources)
                        /\ Unparsable(corpus) = {}

\* Two rounds of the documented commands settle whatever they were begun from, torn files
\* and stale counts included: PROVENANCE.md is written after the index and the graph that
\* show it, so one round need not.
TwoRoundsSettle == rounds = 2 * Len(Documented) => Settled

\* A corpus the validator passes can be rebuilt, and what the registry says of a rule (the
\* state the navigator prints) agrees with what the headings say (the validator's own
\* classification of its mechanisms), although neither is computed from the other.
PassingCorpusAgrees ==
    "validate" \in green =>
        /\ Buildable(corpus)
        /\ \A rule \in ToSet(Rules(Documents(corpus))) :
             LET state    == StatusOf(corpus, rule)
                 enforced == EnforcementOf(rule.mechanisms, corpus.enforce, rule.id)
             IN  /\ (state = "retired") <=> (rule.force = "RETIRED")
                 /\ (state = "unbuilt") <=> (enforced = "unbuilt")
                 /\ (state = "local-verifier") <=> (enforced = "mechanized")
                 /\ (state = "structured-review") <=> (enforced = "review")
                 /\ state \in {"retired", "undeclared"} <=> enforced = "unmechanized"
                 /\ state \in {"external-verifier", "mixed-verifiers"} <=> enforced = "external"

=============================================================================
