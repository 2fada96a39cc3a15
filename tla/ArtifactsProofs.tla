-------------------------- MODULE ArtifactsProofs --------------------------
(***************************************************************************)
(* Theorems of Artifacts, for every corpus, archive and skill and for      *)
(* every edit that meets the module's assumptions.                         *)
(*                                                                         *)
(* GreenIsSettled and TwoRoundsSettle are about which state of the files   *)
(* each value was computed from: what the generators compute is never      *)
(* opened up.  PassingCorpusAgrees opens the validator and the evidence    *)
(* model.                                                                  *)
(***************************************************************************)
EXTENDS Artifacts, FiniteSetTheorems, WellFoundedInduction, TLAPS

-----------------------------------------------------------------------------
(* Sequences.                                                              *)

IsSeq(s) == s = [i \in 1..Len(s) |-> s[i]] /\ Len(s) \in Nat

LEMMA SeqIsSeq ==
    ASSUME NEW S, NEW s \in Seq(S)
    PROVE  IsSeq(s)
BY DEF IsSeq

LEMMA IsSeqSeq ==
    ASSUME NEW s, IsSeq(s)
    PROVE  s \in Seq({s[i] : i \in 1..Len(s)}) /\ DOMAIN s = 1..Len(s)
BY DEF IsSeq

LEMMA SeqsEqual ==
    ASSUME NEW s, NEW t, IsSeq(s), IsSeq(t), Len(s) = Len(t), \A i \in 1..Len(s) : s[i] = t[i]
    PROVE  s = t
BY DEF IsSeq

LEMMA TailSeq ==
    ASSUME NEW s, IsSeq(s), s # <<>>
    PROVE  /\ IsSeq(Tail(s)) /\ Len(Tail(s)) = Len(s) - 1 /\ Len(s) >= 1
           /\ \A i \in 1..Len(s) - 1 : Tail(s)[i] = s[i + 1]
<1>. DEFINE S == {s[i] : i \in 1..Len(s)}
<1>1. s \in Seq(S)
  BY IsSeqSeq
<1>. HIDE DEF S
<1>2. Tail(s) \in Seq(S) /\ Len(Tail(s)) = Len(s) - 1 /\ Len(s) >= 1
  BY <1>1
<1>3. \A i \in 1..Len(s) - 1 : Tail(s)[i] = s[i + 1]
  BY <1>1
<1>. QED
  BY <1>2, <1>3, SeqIsSeq

LEMMA TailItems ==
    ASSUME NEW s, IsSeq(s), s # <<>>
    PROVE  /\ IsSeq(Tail(s))
           /\ s[1] \in ToSet(s)
           /\ ToSet(s) = {s[1]} \cup ToSet(Tail(s))
<1>1. /\ IsSeq(Tail(s)) /\ Len(Tail(s)) = Len(s) - 1 /\ Len(s) >= 1
      /\ \A i \in 1..Len(s) - 1 : Tail(s)[i] = s[i + 1]
  BY TailSeq
<1>2. DOMAIN s = 1..Len(s) /\ DOMAIN Tail(s) = 1..Len(s) - 1 /\ Len(s) \in Nat
  BY <1>1, IsSeqSeq DEF IsSeq
<1>3. ASSUME NEW x \in ToSet(s) PROVE x \in {s[1]} \cup ToSet(Tail(s))
  <2>1. PICK i \in 1..Len(s) : x = s[i]
    BY <1>2 DEF ToSet
  <2>2. CASE i = 1
    BY <2>1, <2>2
  <2>3. CASE i # 1
    <3>1. i - 1 \in 1..Len(s) - 1 /\ Tail(s)[i - 1] = s[i]
      BY <1>1, <1>2, <2>3
    <3>. QED
      BY <1>2, <2>1, <3>1 DEF ToSet
  <2>. QED
    BY <2>2, <2>3
<1>4. ASSUME NEW x \in ToSet(Tail(s)) PROVE x \in ToSet(s)
  <2>1. PICK i \in 1..Len(s) - 1 : x = s[i + 1]
    BY <1>1, <1>2 DEF ToSet
  <2>. QED
    BY <1>2, <2>1 DEF ToSet
<1>5. s[1] \in ToSet(s)
  BY <1>1, <1>2 DEF ToSet
<1>. QED
  BY <1>1, <1>3, <1>4, <1>5

LEMMA NoItems ==
    ASSUME NEW s, IsSeq(s)
    PROVE  /\ s = <<>> => ToSet(s) = {}
           /\ s # <<>> => s[1] \in ToSet(s) /\ ToSet(s) # {}
<1>1. CASE s = <<>>
  BY <1>1 DEF ToSet
<1>2. CASE s # <<>>
  <2>1. s[1] \in ToSet(s)
    BY <1>2, TailItems
  <2>. QED
    BY <1>2, <2>1
<1>. QED
  BY <1>1, <1>2

LEMMA NatMin ==
    ASSUME NEW T, T \subseteq Nat, T # {}
    PROVE  \E x \in T : \A y \in T : x <= y
<1>. DEFINE R == {ss \in Nat \X Nat : ss[1] < ss[2]}
<1>1. IsWellFoundedOn(R, Nat)
  BY NatLessThanWellFounded DEF OpToRel
<1>2. PICK x \in T : \A y \in T : <<y, x>> \notin R
  <2>. HIDE DEF R
  <2>. QED
    BY <1>1, WFMin
<1>3. ASSUME NEW y \in T PROVE x <= y
  <2>1. x \in Nat /\ y \in Nat /\ ~(y < x)
    BY <1>2
  <2>. QED
    BY <2>1
<1>. QED
  BY <1>3

\* The first of a set of positions.
LEMMA FirstPosition ==
    ASSUME NEW I, I \subseteq Nat, I # {}
    PROVE  Min(I) \in I /\ \A i \in I : Min(I) <= i
<1>1. \E x \in I : \A y \in I : x =< y
  BY NatMin
<1>. QED
  BY <1>1 DEF Min

\* The values of a function on a finite set.
LEMMA ImageFinite ==
    ASSUME NEW S, IsFiniteSet(S), NEW f
    PROVE  IsFiniteSet({f[x] : x \in S})
<1>. DEFINE T == {f[x] : x \in S}
            g == [x \in S |-> f[x]]
<1>1. g \in Surjection(S, T)
  BY DEF Surjection
<1>. HIDE DEF T, g
<1>2. IsFiniteSet(T)
  BY <1>1, FS_Surjection
<1>. QED
  BY <1>2 DEF T

-----------------------------------------------------------------------------
(* The inductive invariant.  First the types: what an edit, a kill and a   *)
(* command under an edit can still leave.                                  *)

\* Where PROVENANCE.md stands, in every corpus the initial one becomes.
PA == CHOOSE i \in DOMAIN InitialCorpus.docs : InitialCorpus.docs[i].path.id = "meta/PROVENANCE"

\* A document whose token count build_index would leave as it is.
Fresh(doc) == doc.parses => doc.tokens = None \/ ~TokensStale(doc)

DocumentAt(i, doc) == IsDocument(doc) /\ doc.path = InitialCorpus.docs[i].path

DocsTyped(docs) ==
    /\ IsFcn(docs) /\ DOMAIN docs = DOMAIN InitialCorpus.docs
    /\ \A i \in DOMAIN docs : DocumentAt(i, docs[i])

CorpusTyped(c) ==
    /\ IsFcn(c) /\ DOMAIN c = DOMAIN InitialCorpus
    /\ DocsTyped(c.docs)
    /\ IsRegistry(c.registry)

\* A census that can be rendered is of finitely many sections.
CensusTyped(census) == census # Torn => IsFiniteSet(census.sections)

DiskFiles == {"index", "rules", "ledger", "graph", "census", "claims", "copies"}

DiskTyped(d) ==
    /\ IsFcn(d) /\ DOMAIN d = DiskFiles
    /\ CensusTyped(d.census)
    /\ IsFcn(d.copies) /\ DOMAIN d.copies = Mirrors
    /\ \A m \in Mirrors : IsFcn(d.copies[m])

FilesTyped ==
    /\ CorpusTyped(corpus)
    /\ DiskTyped(disk)
    /\ sources \in {InitialSources} \cup SourceVersions
    /\ skill \in {InitialSkill} \cup SkillVersions

\* What may be written, and where.
Storable(target, at, value) ==
    \/ target \in {"index", "rules", "ledger", "graph", "claims"}
    \/ target = "census" /\ CensusTyped(value)
    \/ target = "copy" /\ at[1] \in Mirrors
    \/ target = "document" /\ at \in DOMAIN InitialCorpus.docs /\ DocumentAt(at, value)

\* The files a command writes.
ItemTyped(command, item) ==
    /\ Storable(item[1], item[2], item[3])
    /\ \/ command = "index" /\ item[1] \in {"index", "rules", "ledger"}
       \/ command = "graph" /\ item[1] = "graph"
       \/ command = "extract" /\ item[1] = "census"
       \/ command = "provenance" /\ item[1] = "claims"
       \/ command = "provenance" /\ item[1] = "document" /\ item[2] = PA /\ Fresh(item[3])
       \/ command = "mirror" /\ item[1] = "copy"

\* The documents build_index has still to look at, after the first a.
RestOf(a) == [k \in 1..Len(InitialCorpus.docs) - a |-> k + a]

Refreshing(a) ==
    /\ job.step \in {"refresh", "rewrite"} /\ job.mode \in Modes
    /\ a \in 0..Len(InitialCorpus.docs) /\ job.todo = RestOf(a)
    /\ DocsTyped(job.docs)
    /\ job.step = "rewrite" =>
         job.mode = "write" /\ a < Len(InitialCorpus.docs) /\ DocumentAt(a + 1, job.text)

JobTyped ==
    /\ DOMAIN job = DOMAIN Idle
    /\ job.stale \in BOOLEAN /\ job.refreshed \in BOOLEAN
    /\ \/ job = Idle
       \/ job.command = "index" /\ \E a \in 0..Len(InitialCorpus.docs) : Refreshing(a)
       \/ /\ job.command \in {"index", "graph", "extract", "provenance"}
          /\ job.step = "write" /\ job.mode = "write"
          /\ IsSeq(job.todo) /\ \A item \in ToSet(job.todo) : ItemTyped(job.command, item)
       \/ /\ job.command = "mirror" /\ job.step = "copy" /\ job.mode = "write"
          /\ IsSeq(job.todo) /\ \A item \in ToSet(job.todo) : ItemTyped("mirror", item)

CountsTyped ==
    /\ green \subseteq Commands
    /\ rounds \in 0..2 * Len(Documented)
    /\ job.stale => rounds = 0

Typed == FilesTyped /\ JobTyped /\ CountsTyped

-----------------------------------------------------------------------------
(* Then what holds of a command no edit has overtaken: each file it writes *)
(* stands already or is still to be written, with the value it has for the *)
(* files as they are now.                                                  *)

AllFresh == \A i \in DOMAIN corpus.docs : Fresh(corpus.docs[i])

Goal(command) ==
    CASE command = "index"      -> {<<IndexFiles(corpus)[k][1], None, IndexFiles(corpus)[k][2]>> : k \in 1..3}
      [] command = "graph"      -> {<<"graph", None, Build(corpus)>>}
      [] command = "provenance" -> {<<"document", PA, RenderProvenance(disk.census)>>,
                                    <<"claims", None, ClaimLedger(disk.census)>>}
      [] command = "mirror"     -> {<<"copy", <<m, f>>, skill[f]>> : m \in Mirrors, f \in DOMAIN skill}
      [] OTHER                  -> {}

Stands(item) ==
    CASE item[1] = "document" -> corpus.docs[item[2]] = item[3]
      [] item[1] = "copy"     -> /\ item[2][2] \in DOMAIN disk.copies[item[2][1]]
                                 /\ disk.copies[item[2][1]][item[2][2]] = item[3]
      [] OTHER                -> disk[item[1]] = item[3]

Done(command) == \A item \in Goal(command) : Stands(item)

\* What build_index has looked at is fresh, and what it has read is what is there.
RefreshCurrent(a) ==
    /\ ~(job.mode = "check" /\ job.refreshed) => \A i \in 1..a : Fresh(corpus.docs[i])
    /\ \A i \in DOMAIN corpus.docs : i > a => job.docs[i] = corpus.docs[i]
    /\ job.mode = "check" \/ ~job.refreshed => job.docs = corpus.docs
    /\ (job.mode = "check" /\ ~job.refreshed) =>
          \A i \in 1..a : corpus.docs[i].parses => ~TokensStale(corpus.docs[i])
    /\ job.step = "rewrite" => /\ job.text = corpus.docs[a + 1]
                               /\ job.text.parses /\ TokensStale(job.text)

WriteCurrent ==
    /\ \A item \in Goal(job.command) : Stands(item) \/ item \in ToSet(job.todo)
    /\ ToSet(job.todo) \subseteq Goal(job.command)
    /\ job.command = "index" => AllFresh /\ Buildable(corpus)

\* What the mirrors hold and the skill does not is about to be deleted, and nothing else.
OrphansCurrent ==
    \A m \in Mirrors :
        /\ \A f \in DOMAIN disk.copies[m] \ DOMAIN skill : <<m, f>> \in job.orphans
        /\ \A f \in DOMAIN skill : <<m, f>> \notin job.orphans

JobCurrent ==
    ~job.stale =>
        /\ \A a \in 0..Len(InitialCorpus.docs) :
             job.command = "index" /\ Refreshing(a) => RefreshCurrent(a)
        /\ (job.step \in {"write", "copy"} /\ job.command # "extract") => WriteCurrent
        /\ job.step = "copy" => OrphansCurrent

-----------------------------------------------------------------------------
(* What the rounds have reached, and what the checks have seen.            *)

Milestones ==
    /\ rounds >= 1 => AllFresh
    /\ rounds >= 3 => Done("provenance")
    /\ rounds >= 4 => \A m \in Mirrors : disk.copies[m] = skill
    /\ rounds >= 5 => Buildable(corpus) /\ Done("index")
    /\ rounds >= 6 => Done("graph")

NoneStale == \A i \in DOMAIN corpus.docs : corpus.docs[i].parses => ~TokensStale(corpus.docs[i])

\* What a command that only checks has found.
Seen(command) ==
    CASE command = "index"      -> NoneStale /\ Buildable(corpus) /\ Done("index")
      [] command = "graph"      -> Done("graph")
      [] command = "extract"    -> disk.census = Census(sources)
      [] command = "provenance" -> Done("provenance")
      [] command = "mirror"     -> \A m \in Mirrors : disk.copies[m] = skill
      [] command = "validate"   -> Errors(Findings(corpus, disk.graph, ceiling)) = {}

ChecksHold == \A command \in green : Seen(command)

IInv == Typed /\ JobCurrent /\ Milestones /\ ChecksHold

-----------------------------------------------------------------------------
(* What the generators return.                                             *)

LEMMA DocCount ==
    /\ Len(InitialCorpus.docs) \in Nat
    /\ DOMAIN InitialCorpus.docs = 1..Len(InitialCorpus.docs)
    /\ DocsTyped(InitialCorpus.docs)
<1>. DEFINE docs == InitialCorpus.docs
            S == ToSet(docs)
<1>1. docs \in Seq(S) /\ \A doc \in S : IsDocument(doc)
  BY CorpusAssumption
<1>2. \A i \in DOMAIN docs : docs[i] \in S
  BY DEF ToSet
<1>. HIDE DEF S
<1>3. /\ Len(docs) \in Nat /\ DOMAIN docs = 1..Len(docs)
      /\ docs = [i \in DOMAIN docs |-> docs[i]]
  BY <1>1
<1>. QED
  BY <1>1, <1>2, <1>3 DEF DocsTyped, DocumentAt, IsFcn

LEMMA ProvenanceStands ==
    /\ PA \in DOMAIN InitialCorpus.docs
    /\ InitialCorpus.docs[PA].path = ProvenancePath
    /\ \A i \in DOMAIN InitialCorpus.docs : InitialCorpus.docs[i].path.id = "meta/PROVENANCE" => i = PA
<1>1. PICK i \in DOMAIN InitialCorpus.docs :
         /\ InitialCorpus.docs[i].path = ProvenancePath
         /\ \A j \in DOMAIN InitialCorpus.docs \ {i} : InitialCorpus.docs[j].path.id # "meta/PROVENANCE"
  BY CorpusAssumption
<1>2. InitialCorpus.docs[i].path.id = "meta/PROVENANCE"
  BY <1>1 DEF ProvenancePath
<1>3. PA \in DOMAIN InitialCorpus.docs /\ InitialCorpus.docs[PA].path.id = "meta/PROVENANCE"
  BY <1>2 DEF PA
<1>. QED
  BY <1>1, <1>3

LEMMA ProvenanceFound ==
    ASSUME CorpusTyped(corpus)
    PROVE  ProvenanceAt = PA
<1>1. /\ DOMAIN corpus.docs = DOMAIN InitialCorpus.docs
      /\ \A i \in DOMAIN corpus.docs : corpus.docs[i].path = InitialCorpus.docs[i].path
  BY DEF CorpusTyped, DocsTyped, DocumentAt
<1>2. PA \in DOMAIN corpus.docs /\ corpus.docs[PA].path.id = "meta/PROVENANCE"
  BY <1>1, ProvenanceStands DEF ProvenancePath
<1>3. ProvenanceAt \in DOMAIN corpus.docs /\ corpus.docs[ProvenanceAt].path.id = "meta/PROVENANCE"
  BY <1>2 DEF ProvenanceAt
<1>. QED
  BY <1>1, <1>3, ProvenanceStands

LEMMA TokensNat ==
    ASSUME NEW length \in Nat
    PROVE  CountTokens(length) \in Nat
BY DEF CountTokens

LEMMA RefreshedDocument ==
    ASSUME NEW i, NEW doc, DocumentAt(i, doc)
    PROVE  DocumentAt(i, Refreshed(doc)) /\ Fresh(Refreshed(doc))
<1>1. CASE doc.tokens = None
  BY <1>1 DEF Refreshed, Fresh
<1>2. CASE doc.tokens # None
  <2>. DEFINE count == CountTokens(doc.length)
  <2>1. count \in Nat
    BY TokensNat DEF DocumentAt, IsDocument
  <2>. HIDE DEF count
  <2>2. Refreshed(doc) = [doc EXCEPT !.tokens = count]
    BY <1>2 DEF Refreshed, count
  <2>3. /\ DOMAIN Refreshed(doc) = DOMAIN doc /\ Refreshed(doc).tokens = count
        /\ Refreshed(doc).path = doc.path /\ Refreshed(doc).parses = doc.parses
        /\ Refreshed(doc).length = doc.length /\ Refreshed(doc).headings = doc.headings
    BY <2>2 DEF DocumentAt, IsDocument
  <2>4. ~TokensStale(Refreshed(doc))
    BY <2>1, <2>3, NoneAssumption DEF TokensStale, count
  <2>. QED
    BY <2>1, <2>3, <2>4 DEF DocumentAt, IsDocument, Fresh
<1>. QED
  BY <1>1, <1>2

LEMMA ScanFinite ==
    ASSUME NEW tag, NEW lines, lines \in Seq(ToSet(lines))
    PROVE  IsFiniteSet(Scan(tag, lines).sections)
<1>. DEFINE Section(i) == [source |-> tag, heading |-> lines[i].words, line |-> i]
            Fences(i) == {k \in 1..i - 1 : lines[k].is = "fence"}
            open      == {i \in DOMAIN lines : lines[i].is # "fence" /\ Cardinality(Fences(i)) % 2 = 0}
            headings  == {i \in open : lines[i].is = "heading"}
<1>1. DOMAIN lines = 1..Len(lines) /\ Len(lines) \in Nat
  <2>. DEFINE S == ToSet(lines)
  <2>. HIDE DEF S
  <2>1. lines \in Seq(S)
    BY DEF S
  <2>. QED
    BY <2>1
<1>2. IsFiniteSet(DOMAIN lines)
  BY <1>1, FS_Interval
<1>3. IsFiniteSet(headings)
  <2>1. headings \in SUBSET (DOMAIN lines)
    OBVIOUS
  <2>. HIDE DEF headings
  <2>. QED
    BY <1>2, <2>1, FS_Subset
<1>4. Scan(tag, lines).sections = {Section(i) : i \in headings}
  BY DEF Scan
<1>. HIDE DEF headings, Section
<1>. DEFINE row == [i \in headings |-> Section(i)]
<1>5. IsFiniteSet({row[i] : i \in headings})
  <2>. HIDE DEF row
  <2>. QED
    BY <1>3, ImageFinite
<1>6. {row[i] : i \in headings} = {Section(i) : i \in headings}
  OBVIOUS
<1>. QED
  BY <1>4, <1>5, <1>6

LEMMA CensusFinite ==
    ASSUME NEW archive \in {InitialSources} \cup SourceVersions
    PROVE  CensusTyped(Census(archive))
<1>. DEFINE tags == {t \in DOMAIN archive : archive[t] # Absent}
            Of(tag) == Scan(tag, archive[tag])
            scanned == {Of(tag) : tag \in tags}
            Sections(s) == s.sections
<1>1. IsFiniteSet(tags)
  <2>1. IsFiniteSet(DOMAIN archive) /\ tags \in SUBSET (DOMAIN archive)
    BY SourcesAssumption
  <2>. HIDE DEF tags
  <2>. QED
    BY <2>1, FS_Subset
<1>2. \A tag \in tags : IsFiniteSet(Of(tag).sections)
  BY ScanFinite, SourcesAssumption
<1>3. Census(archive).sections = UNION {Sections(s) : s \in scanned}
  BY DEF Census
<1>4. \A s \in scanned : IsFiniteSet(Sections(s))
  BY <1>2
<1>. HIDE DEF tags, Of
<1>. DEFINE of == [tag \in tags |-> Of(tag)]
<1>5. IsFiniteSet({of[tag] : tag \in tags}) /\ {of[tag] : tag \in tags} = scanned
  <2>1. {of[tag] : tag \in tags} = scanned
    OBVIOUS
  <2>. HIDE DEF of
  <2>2. IsFiniteSet({of[tag] : tag \in tags})
    BY <1>1, ImageFinite
  <2>. QED
    BY <2>1, <2>2
<1>. HIDE DEF scanned, Sections, of
<1>. DEFINE sections == [s \in scanned |-> Sections(s)]
<1>6. IsFiniteSet({Sections(s) : s \in scanned})
  <2>1. {sections[s] : s \in scanned} = {Sections(s) : s \in scanned}
    OBVIOUS
  <2>. HIDE DEF sections
  <2>2. IsFiniteSet({sections[s] : s \in scanned})
    BY <1>5, ImageFinite
  <2>. QED
    BY <2>1, <2>2
<1>7. IsFiniteSet(UNION {Sections(s) : s \in scanned})
  BY <1>4, <1>6, FS_UNION
<1>. QED
  BY <1>3, <1>7 DEF CensusTyped

LEMMA RenderedDocument ==
    ASSUME NEW census, IsFiniteSet(census.sections)
    PROVE  DocumentAt(PA, RenderProvenance(census)) /\ Fresh(RenderProvenance(census))
<1>. DEFINE doc == RenderProvenance(census)
            Row(s) == [source |-> s.source, heading |-> s.heading,
                       disposition |-> IF DispositionFor(s) # None THEN DispositionFor(s)
                                       ELSE IF Targets[s.source] # {} THEN "migrated" ELSE "UNREVIEWED"]
            length == 370 * Cardinality(BuildRows(census.sections))
<1>1. IsFiniteSet(BuildRows(census.sections))
  <2>1. BuildRows(census.sections) = {Row(s) : s \in census.sections}
    BY DEF BuildRows
  <2>. HIDE DEF Row
  <2>. DEFINE row == [s \in census.sections |-> Row(s)]
  <2>2. {row[s] : s \in census.sections} = {Row(s) : s \in census.sections}
    OBVIOUS
  <2>. HIDE DEF row
  <2>3. IsFiniteSet({row[s] : s \in census.sections})
    BY ImageFinite
  <2>. QED
    BY <2>1, <2>2, <2>3
<1>2. length \in Nat
  BY <1>1, FS_CardinalityType
<1>3. /\ {"path", "parses", "length", "tokens", "headings"} \subseteq DOMAIN doc
      /\ doc.path = ProvenancePath /\ doc.parses = TRUE /\ doc.headings = <<>>
      /\ doc.length = length /\ doc.tokens = CountTokens(length)
  BY DEF RenderProvenance
<1>. HIDE DEF doc, length
<1>4. CountTokens(length) \in Nat
  BY <1>2, TokensNat
<1>5. DocumentAt(PA, doc)
  <2>1. <<>> \in Seq(ToSet(<<>>)) /\ ToSet(<<>>) = {}
    BY DEF ToSet
  <2>. QED
    BY <1>2, <1>3, <1>4, <2>1, ProvenanceStands DEF DocumentAt, IsDocument
<1>6. ~TokensStale(doc)
  BY <1>3, <1>4, NoneAssumption DEF TokensStale
<1>. QED
  BY <1>5, <1>6 DEF doc, Fresh

-----------------------------------------------------------------------------
(* What a step keeps when it leaves the files, or part of them, alone.     *)

LEMMA DoneSame ==
    ASSUME UNCHANGED <<corpus, disk, skill>>, NEW command
    PROVE  Goal(command)' = Goal(command) /\ Done(command)' = Done(command)
<1>1. Goal(command)' = Goal(command)
  BY DEF Goal
<1>2. \A item : Stands(item)' = Stands(item)
  BY DEF Stands
<1>. QED
  BY <1>1, <1>2 DEF Done

LEMMA SeenSame ==
    ASSUME UNCHANGED <<corpus, disk, skill, sources, ceiling>>, NEW command \in Commands
    PROVE  Seen(command)' = Seen(command)
<1>1. \A c : Done(c)' = Done(c)
  BY DoneSame
<1>2. NoneStale' = NoneStale
  BY DEF NoneStale
<1>. QED
  BY <1>1, <1>2 DEF Seen, Commands

LEMMA ChecksKept ==
    ASSUME UNCHANGED <<corpus, disk, skill, sources, ceiling>>, ChecksHold,
           green' \subseteq Commands, \A command \in green' : command \in green \/ Seen(command)
    PROVE  ChecksHold'
<1>1. \A command \in green' : Seen(command)
  BY DEF ChecksHold
<1>2. \A command \in green' : Seen(command)'
  BY <1>1, SeenSame
<1>. QED
  BY <1>2 DEF ChecksHold

LEMMA ChecksVoid ==
    ASSUME green' = {}
    PROVE  ChecksHold'
BY DEF ChecksHold

LEMMA MilestonesNone ==
    ASSUME rounds' = 0
    PROVE  Milestones'
BY DEF Milestones

LEMMA MilestonesKept ==
    ASSUME UNCHANGED <<corpus, disk, skill, rounds>>, Milestones
    PROVE  Milestones'
<1>1. \A c : Done(c)' = Done(c)
  BY DoneSame
<1>2. AllFresh' = AllFresh
  BY DEF AllFresh
<1>. QED
  BY <1>1, <1>2 DEF Milestones

LEMMA JobIdle ==
    ASSUME job' = Idle
    PROVE  JobTyped' /\ JobCurrent' /\ ~job'.stale
<1>1. JobTyped' /\ ~job'.stale
  BY DEF JobTyped, Idle
<1>2. JobCurrent'
  BY DEF JobCurrent, Idle
<1>. QED
  BY <1>1, <1>2

LEMMA JobStale ==
    ASSUME job'.stale
    PROVE  JobCurrent'
BY DEF JobCurrent

LEMMA JobKept ==
    ASSUME UNCHANGED <<corpus, disk, skill, job>>, JobTyped, JobCurrent
    PROVE  JobTyped' /\ JobCurrent'
<1>1. \A a : Refreshing(a)' = Refreshing(a) /\ RefreshCurrent(a)' = RefreshCurrent(a)
  BY DEF Refreshing, RefreshCurrent
<1>2. JobTyped'
  BY <1>1 DEF JobTyped
<1>3. WriteCurrent' = WriteCurrent
  <2>1. Goal(job.command)' = Goal(job.command) /\ \A item : Stands(item)' = Stands(item)
    BY DEF Goal, Stands
  <2>2. AllFresh' = AllFresh
    BY DEF AllFresh
  <2>. QED
    BY <2>1, <2>2 DEF WriteCurrent
<1>4. OrphansCurrent' = OrphansCurrent
  BY DEF OrphansCurrent
<1>. QED
  BY <1>1, <1>2, <1>3, <1>4 DEF JobCurrent

LEMMA FilesKept ==
    ASSUME UNCHANGED <<corpus, disk, sources, skill>>, FilesTyped
    PROVE  FilesTyped'
BY DEF FilesTyped

LEMMA NoJob ==
    ASSUME JobTyped, job.command = "none"
    PROVE  job = Idle
BY DEF JobTyped

\* A step of a command that ends it and changes no file.
LEMMA Ended ==
    ASSUME IInv, UNCHANGED <<corpus, disk, sources, skill, ceiling>>, job' = Idle,
           green' \subseteq Commands, \A command \in green' : command \in green \/ Seen(command),
           rounds' = 0 \/ rounds' = rounds
    PROVE  IInv'
<1>1. FilesTyped' /\ JobTyped' /\ JobCurrent' /\ ~job'.stale
  BY FilesKept, JobIdle DEF IInv, Typed
<1>2. CountsTyped'
  BY <1>1 DEF IInv, Typed, CountsTyped, Documented
<1>3. Milestones'
  BY MilestonesNone, MilestonesKept DEF IInv
<1>4. ChecksHold'
  BY ChecksKept DEF IInv
<1>. QED
  BY <1>1, <1>2, <1>3, <1>4 DEF IInv, Typed

\* A step that begins or continues a command and changes no file.
LEMMA Begun ==
    ASSUME IInv, UNCHANGED <<corpus, disk, sources, skill, ceiling, green, rounds>>,
           job'.stale = job.stale, JobTyped', JobCurrent'
    PROVE  IInv'
<1>1. FilesTyped'
  BY FilesKept DEF IInv, Typed
<1>2. CountsTyped'
  BY DEF IInv, Typed, CountsTyped
<1>3. Milestones'
  BY MilestonesKept DEF IInv
<1>4. ChecksHold'
  BY ChecksKept DEF IInv, Typed, CountsTyped
<1>. QED
  BY <1>1, <1>2, <1>3, <1>4 DEF IInv, Typed

-----------------------------------------------------------------------------
(* What a write does.                                                      *)

LEMMA PutTyped ==
    ASSUME FilesTyped, UNCHANGED <<sources, skill>>,
           NEW target, NEW at, NEW value, Storable(target, at, value), Put(target, at, value)
    PROVE  FilesTyped'
<1>1. CASE target = "document"
  <2>1. corpus' = [corpus EXCEPT !.docs[at] = value] /\ disk' = disk
    BY <1>1 DEF Put
  <2>2. at \in DOMAIN InitialCorpus.docs /\ DocumentAt(at, value)
    BY <1>1 DEF Storable
  <2>3. CorpusTyped(corpus)
    BY DEF FilesTyped
  <2>4. "docs" \in DOMAIN corpus
    BY <2>3, CorpusAssumption DEF CorpusTyped
  <2>5. corpus' = [corpus EXCEPT !.docs = [corpus.docs EXCEPT ![at] = value]]
    BY <2>1
  <2>6. DocsTyped([corpus.docs EXCEPT ![at] = value])
    BY <2>2, <2>3 DEF CorpusTyped, DocsTyped, IsFcn
  <2>7. CorpusTyped(corpus')
    BY <2>3, <2>4, <2>5, <2>6 DEF CorpusTyped, IsFcn
  <2>. QED
    BY <2>1, <2>7 DEF FilesTyped
<1>2. CASE target = "copy"
  <2>1. corpus' = corpus /\ disk' = [disk EXCEPT !.copies[at[1]] = With(@, at[2], value)]
    BY <1>2 DEF Put
  <2>2. at[1] \in Mirrors
    BY <1>2 DEF Storable
  <2>3. DiskTyped(disk)
    BY DEF FilesTyped
  <2>. DEFINE copied == With(disk.copies[at[1]], at[2], value)
  <2>4. IsFcn(copied)
    BY DEF IsFcn, With
  <2>. HIDE DEF copied
  <2>5. disk' = [disk EXCEPT !.copies = [disk.copies EXCEPT ![at[1]] = copied]]
    BY <2>1, <2>2, <2>3 DEF copied, DiskTyped
  <2>6. DiskTyped(disk')
    BY <2>2, <2>3, <2>4, <2>5 DEF DiskTyped, DiskFiles, IsFcn
  <2>. QED
    BY <2>1, <2>6 DEF FilesTyped
<1>3. CASE target \in {"index", "rules", "ledger", "graph", "claims", "census"}
  <2>1. corpus' = corpus /\ disk' = [disk EXCEPT ![target] = value]
    BY <1>3 DEF Put
  <2>2. target = "census" => CensusTyped(value)
    BY <1>3 DEF Storable
  <2>3. DiskTyped(disk')
    BY <1>3, <2>1, <2>2 DEF FilesTyped, DiskTyped, DiskFiles, IsFcn
  <2>. QED
    BY <2>1, <2>3 DEF FilesTyped
<1>. QED
  BY <1>1, <1>2, <1>3 DEF Storable

\* What stands already is written over with itself.
LEMMA PutStanding ==
    ASSUME FilesTyped, NEW command, NEW item, ItemTyped(command, item), Stands(item),
           Put(item[1], item[2], item[3])
    PROVE  UNCHANGED <<corpus, disk>>
<1>. DEFINE target == item[1]
            at == item[2]
            value == item[3]
<1>1. CASE target = "document"
  <2>1. corpus' = [corpus EXCEPT !.docs[at] = value] /\ disk' = disk
    BY <1>1 DEF Put
  <2>2. corpus.docs[at] = value
    BY <1>1 DEF Stands
  <2>3. IsFcn(corpus) /\ IsFcn(corpus.docs)
    BY DEF FilesTyped, CorpusTyped, DocsTyped
  <2>4. [corpus.docs EXCEPT ![at] = value] = corpus.docs
    BY <2>2, <2>3 DEF IsFcn
  <2>5. corpus' = [corpus EXCEPT !.docs = corpus.docs]
    BY <2>1, <2>4
  <2>. QED
    BY <2>1, <2>3, <2>5 DEF IsFcn
<1>2. CASE target = "copy"
  <2>. DEFINE copies == disk.copies[at[1]]
  <2>1. corpus' = corpus /\ disk' = [disk EXCEPT !.copies[at[1]] = With(@, at[2], value)]
    BY <1>2 DEF Put
  <2>2. at[1] \in Mirrors /\ at[2] \in DOMAIN copies /\ copies[at[2]] = value
    BY <1>2 DEF Stands, ItemTyped, Storable
  <2>3. DiskTyped(disk)
    BY DEF FilesTyped
  <2>4. IsFcn(copies)
    BY <2>2, <2>3 DEF DiskTyped
  <2>5. With(copies, at[2], value) = copies
    <3>1. DOMAIN With(copies, at[2], value) = DOMAIN copies
      BY <2>2 DEF With
    <3>2. \A x \in DOMAIN copies : With(copies, at[2], value)[x] = copies[x]
      BY <2>2 DEF With
    <3>3. IsFcn(With(copies, at[2], value))
      BY DEF IsFcn, With
    <3>. HIDE DEF copies
    <3>. QED
      BY <2>4, <3>1, <3>2, <3>3 DEF IsFcn
  <2>6. disk' = [disk EXCEPT !.copies = [disk.copies EXCEPT ![at[1]] = copies]]
    BY <2>1, <2>2, <2>3, <2>5 DEF DiskTyped
  <2>7. [disk.copies EXCEPT ![at[1]] = copies] = disk.copies
    BY <2>3 DEF DiskTyped, IsFcn
  <2>8. disk' = [disk EXCEPT !.copies = disk.copies]
    BY <2>6, <2>7
  <2>. QED
    BY <2>1, <2>3, <2>8 DEF DiskTyped, IsFcn
<1>3. CASE target \in {"index", "rules", "ledger", "graph", "claims", "census"}
  <2>1. corpus' = corpus /\ disk' = [disk EXCEPT ![target] = value]
    BY <1>3 DEF Put
  <2>2. disk[target] = value
    BY <1>3 DEF Stands
  <2>. QED
    BY <2>1, <2>2 DEF FilesTyped, DiskTyped, IsFcn
<1>. QED
  BY <1>1, <1>2, <1>3 DEF ItemTyped, Storable

-----------------------------------------------------------------------------
(* The commands that compute everything first.                             *)

LEMMA InitIInv == Init => IInv
<1>. SUFFICES ASSUME Init PROVE IInv
  OBVIOUS
<1>. USE DEF Init
<1>1. CorpusTyped(corpus)
  BY CorpusAssumption, RegistriesAssumption, DocCount DEF CorpusTyped
<1>2. CensusTyped(Census(InitialSources))
  BY CensusFinite
<1>3. IsFcn(InitialSkill)
  BY SkillAssumption
<1>4. /\ DOMAIN disk = DiskFiles /\ disk.census = Census(InitialSources)
      /\ disk.copies = [m \in Mirrors |-> InitialSkill]
  BY DEF DiskFiles
<1>5. IsFcn(disk)
  BY DEF IsFcn
<1>6. FilesTyped
  BY <1>1, <1>2, <1>3, <1>4, <1>5 DEF FilesTyped, DiskTyped, IsFcn
<1>7. JobTyped /\ ~job.stale
  BY DEF JobTyped, Idle
<1>8. CountsTyped
  BY <1>7 DEF CountsTyped, Documented
<1>9. JobCurrent
  BY DEF JobCurrent, Idle
<1>10. Milestones /\ ChecksHold
  BY DEF Milestones, ChecksHold
<1>. QED
  BY <1>6, <1>7, <1>8, <1>9, <1>10 DEF IInv, Typed

LEMMA CheckedStep ==
    ASSUME IInv, UNCHANGED <<corpus, sources, skill, disk, ceiling>>,
           NEW command \in Commands, job' = Idle, rounds' = 0,
           (green' = green) \/ (green' = green \cup {command} /\ Seen(command))
    PROVE  IInv'
<1>1. green' \subseteq Commands /\ \A c \in green' : c \in green \/ Seen(c)
  BY DEF IInv, Typed, CountsTyped
<1>. QED
  BY <1>1, Ended

LEMMA OneItem ==
    ASSUME NEW item
    PROVE  IsSeq(<<item>>) /\ ToSet(<<item>>) = {item}
BY DEF IsSeq, ToSet

LEMMA TwoItems ==
    ASSUME NEW x, NEW y
    PROVE  IsSeq(<<x, y>>) /\ ToSet(<<x, y>>) = {x, y}
<1>. DEFINE s == <<x, y>>
<1>1. DOMAIN s = {1, 2} /\ Len(s) = 2 /\ s[1] = x /\ s[2] = y
  OBVIOUS
<1>2. s = [i \in 1..2 |-> s[i]]
  OBVIOUS
<1>. QED
  BY <1>1, <1>2 DEF IsSeq, ToSet

LEMMA GraphRunStep == IInv /\ GraphRun => IInv'
<1>. SUFFICES ASSUME IInv, GraphRun PROVE IInv'
  OBVIOUS
<1>. DEFINE graph == Build(corpus)
            todo == <<<<"graph", None, graph>>>>
<1>1. job = Idle /\ UNCHANGED <<corpus, sources, skill, disk, ceiling>>
  BY NoJob DEF GraphRun, IInv, Typed
<1>2. CASE Checked("graph", disk.graph = graph)
  <2>1. disk.graph = graph => Seen("graph")
    BY DEF Seen, Done, Goal, Stands
  <2>2. /\ job' = Idle /\ rounds' = 0
        /\ green' = green \/ (green' = green \cup {"graph"} /\ Seen("graph"))
    BY <1>2, <2>1 DEF Checked
  <2>3. "graph" \in Commands
    BY DEF Commands
  <2>. QED
    BY <1>1, <2>2, <2>3, CheckedStep
<1>3. CASE Writing("graph", todo)
  <2>1. /\ job' = [Idle EXCEPT !.command = "graph", !.step = "write", !.todo = todo, !.stale = FALSE]
        /\ UNCHANGED <<green, rounds>>
    BY <1>1, <1>3 DEF Writing, Idle
  <2>2. /\ job'.command = "graph" /\ job'.step = "write" /\ job'.todo = todo /\ job'.stale = FALSE
        /\ job'.mode = "write" /\ job'.refreshed = FALSE /\ DOMAIN job' = DOMAIN Idle
    BY <2>1 DEF Idle
  <2>3. ToSet(job'.todo) = {<<"graph", None, graph>>} /\ IsSeq(job'.todo)
    BY <2>2, OneItem
  <2>4. ItemTyped("graph", <<"graph", None, graph>>)
    BY DEF ItemTyped, Storable
  <2>5. JobTyped'
    BY <2>2, <2>3, <2>4 DEF JobTyped, Idle
  <2>6. Goal("graph")' = {<<"graph", None, graph>>}
    BY <1>1 DEF Goal
  <2>7. JobCurrent'
    BY <2>2, <2>3, <2>6 DEF JobCurrent, WriteCurrent, Refreshing
  <2>. QED
    BY <1>1, <2>1, <2>2, <2>5, <2>7, Begun DEF Idle
<1>. QED
  BY <1>2, <1>3 DEF GraphRun

LEMMA ExtractRunStep == IInv /\ ExtractRun => IInv'
<1>. SUFFICES ASSUME IInv, ExtractRun PROVE IInv'
  OBVIOUS
<1>. DEFINE census == Census(sources)
            missing == \E tag \in DOMAIN sources : sources[tag] = Absent
            todo == <<<<"census", None, census>>>>
<1>1. job = Idle /\ UNCHANGED <<corpus, sources, skill, disk, ceiling>>
  BY NoJob DEF ExtractRun, IInv, Typed
<1>2. CASE Checked("extract", ~missing /\ disk.census = census)
  <2>1. disk.census = census => Seen("extract")
    BY DEF Seen
  <2>2. /\ job' = Idle /\ rounds' = 0
        /\ green' = green \/ (green' = green \cup {"extract"} /\ Seen("extract"))
    BY <1>2, <2>1 DEF Checked
  <2>3. "extract" \in Commands
    BY DEF Commands
  <2>. QED
    BY <1>1, <2>2, <2>3, CheckedStep
<1>3. CASE Writing("extract", todo)
  <2>1. /\ job' = [Idle EXCEPT !.command = "extract", !.step = "write", !.todo = todo, !.stale = FALSE]
        /\ UNCHANGED <<green, rounds>>
    BY <1>1, <1>3 DEF Writing, Idle
  <2>2. /\ job'.command = "extract" /\ job'.step = "write" /\ job'.todo = todo /\ job'.stale = FALSE
        /\ job'.mode = "write" /\ job'.refreshed = FALSE /\ DOMAIN job' = DOMAIN Idle
    BY <2>1 DEF Idle
  <2>3. ToSet(job'.todo) = {<<"census", None, census>>} /\ IsSeq(job'.todo)
    BY <2>2, OneItem
  <2>4. CensusTyped(census)
    BY CensusFinite DEF IInv, Typed, FilesTyped
  <2>5. ItemTyped("extract", <<"census", None, census>>)
    BY <2>4 DEF ItemTyped, Storable
  <2>6. JobTyped'
    BY <2>2, <2>3, <2>5 DEF JobTyped, Idle
  <2>7. JobCurrent'
    BY <2>2 DEF JobCurrent, Refreshing
  <2>. QED
    BY <1>1, <2>1, <2>2, <2>6, <2>7, Begun DEF Idle
<1>. QED
  BY <1>2, <1>3 DEF ExtractRun

LEMMA ProvenanceRunStep == IInv /\ ProvenanceRun => IInv'
<1>. SUFFICES ASSUME IInv, ProvenanceRun PROVE IInv'
  OBVIOUS
<1>. DEFINE document == RenderProvenance(disk.census)
            claims == ClaimLedger(disk.census)
            todo == <<<<"document", PA, document>>, <<"claims", None, claims>>>>
<1>1. job = Idle /\ UNCHANGED <<corpus, sources, skill, disk, ceiling>>
  BY NoJob DEF ProvenanceRun, IInv, Typed
<1>2. ProvenanceAt = PA
  BY ProvenanceFound DEF IInv, Typed, FilesTyped
<1>3. DocumentAt(PA, document) /\ Fresh(document)
  <2>1. IsFiniteSet(disk.census.sections)
    BY DEF IInv, Typed, FilesTyped, DiskTyped, CensusTyped, ProvenanceRun, ProvenanceBuilds
  <2>. QED
    BY <2>1, RenderedDocument
<1>4. Goal("provenance") = {<<"document", PA, document>>, <<"claims", None, claims>>}
  BY DEF Goal
<1>. HIDE DEF document, claims
<1>5. CASE Checked("provenance", corpus.docs[PA] = document /\ disk.claims = claims)
  <2>1. corpus.docs[PA] = document /\ disk.claims = claims => Seen("provenance")
    BY <1>4 DEF Seen, Done, Stands
  <2>2. /\ job' = Idle /\ rounds' = 0
        /\ green' = green \/ (green' = green \cup {"provenance"} /\ Seen("provenance"))
    BY <1>5, <2>1 DEF Checked
  <2>3. "provenance" \in Commands
    BY DEF Commands
  <2>. QED
    BY <1>1, <2>2, <2>3, CheckedStep
<1>6. CASE Writing("provenance", todo)
  <2>1. /\ job' = [Idle EXCEPT !.command = "provenance", !.step = "write", !.todo = todo, !.stale = FALSE]
        /\ UNCHANGED <<green, rounds>>
    BY <1>1, <1>6 DEF Writing, Idle
  <2>2. /\ job'.command = "provenance" /\ job'.step = "write" /\ job'.todo = todo /\ job'.stale = FALSE
        /\ job'.mode = "write" /\ job'.refreshed = FALSE /\ DOMAIN job' = DOMAIN Idle
    BY <2>1 DEF Idle
  <2>3. ToSet(job'.todo) = {<<"document", PA, document>>, <<"claims", None, claims>>} /\ IsSeq(job'.todo)
    BY <2>2, TwoItems
  <2>4. /\ ItemTyped("provenance", <<"document", PA, document>>)
        /\ ItemTyped("provenance", <<"claims", None, claims>>)
    BY <1>3, ProvenanceStands DEF ItemTyped, Storable
  <2>5. JobTyped'
    BY <2>2, <2>3, <2>4 DEF JobTyped, Idle
  <2>6. Goal("provenance")' = Goal("provenance")
    BY <1>1 DEF Goal
  <2>7. JobCurrent'
    BY <1>4, <2>2, <2>3, <2>6 DEF JobCurrent, WriteCurrent, Refreshing
  <2>. QED
    BY <1>1, <2>1, <2>2, <2>5, <2>7, Begun DEF Idle
<1>. QED
  BY <1>2, <1>5, <1>6 DEF ProvenanceRun, document, claims

LEMMA ValidateRunStep == IInv /\ ValidateRun => IInv'
<1>. SUFFICES ASSUME IInv, ValidateRun PROVE IInv'
  OBVIOUS
<1>1. Errors(Findings(corpus, disk.graph, ceiling)) = {} => Seen("validate")
  BY DEF Seen
<1>2. /\ job' = Idle /\ rounds' = 0
      /\ green' = green \/ (green' = green \cup {"validate"} /\ Seen("validate"))
  BY <1>1 DEF ValidateRun, Checked
<1>3. "validate" \in Commands /\ UNCHANGED <<corpus, sources, skill, disk, ceiling>>
  BY DEF ValidateRun, Commands
<1>. QED
  BY <1>2, <1>3, CheckedStep

LEMMA UpdateBaselineStep == IInv /\ UpdateBaseline => IInv'
<1>. SUFFICES ASSUME IInv, UpdateBaseline PROVE IInv'
  OBVIOUS
<1>1. green' = {} /\ UNCHANGED <<corpus, sources, skill, disk, job, rounds>>
  BY DEF UpdateBaseline, Wrote
<1>2. FilesTyped' /\ JobTyped' /\ JobCurrent'
  BY <1>1, FilesKept, JobKept DEF IInv, Typed
<1>3. CountsTyped'
  BY <1>1 DEF IInv, Typed, CountsTyped
<1>4. Milestones' /\ ChecksHold'
  BY <1>1, MilestonesKept, ChecksVoid DEF IInv
<1>. QED
  BY <1>2, <1>3, <1>4 DEF IInv, Typed

-----------------------------------------------------------------------------
(* The edits.                                                              *)

LEMMA EditedStep ==
    ASSUME IInv, Edited, CorpusTyped(corpus'),
           sources' \in {InitialSources} \cup SourceVersions, skill' \in {InitialSkill} \cup SkillVersions
    PROVE  IInv'
<1>1. rounds' = 0 /\ green' = {} /\ disk' = disk
  BY DEF Edited, Wrote
<1>2. FilesTyped'
  BY <1>1 DEF IInv, Typed, FilesTyped
<1>3. JobTyped' /\ JobCurrent'
  <2>1. CASE job.command = "none"
    <3>1. job' = Idle
      BY <2>1, NoJob DEF IInv, Typed, Edited
    <3>. QED
      BY <3>1, JobIdle
  <2>2. CASE job.command # "none"
    <3>1. job' = [job EXCEPT !.stale = TRUE] /\ job # Idle
      BY <2>2 DEF Edited, Idle
    <3>2. JobTyped
      BY DEF IInv, Typed
    <3>3. /\ DOMAIN job' = DOMAIN Idle /\ job'.stale = TRUE /\ job'.refreshed = job.refreshed
          /\ job'.command = job.command /\ job'.mode = job.mode /\ job'.step = job.step
          /\ job'.todo = job.todo /\ job'.docs = job.docs /\ job'.text = job.text
      BY <3>1, <3>2 DEF JobTyped, Idle
    <3>4. \A a : Refreshing(a)' = Refreshing(a)
      BY <3>3 DEF Refreshing
    <3>5. JobTyped'
      BY <3>1, <3>2, <3>3, <3>4 DEF JobTyped
    <3>. QED
      BY <3>3, <3>5, JobStale
  <2>. QED
    BY <2>1, <2>2
<1>4. CountsTyped' /\ Milestones' /\ ChecksHold'
  BY <1>1, MilestonesNone, ChecksVoid DEF CountsTyped, Documented
<1>. QED
  BY <1>2, <1>3, <1>4 DEF IInv, Typed

LEMMA EditDocumentStep == IInv /\ EditDocument => IInv'
<1>. SUFFICES ASSUME IInv, EditDocument PROVE IInv'
  OBVIOUS
<1>1. PICK doc \in DocVersions, i \in DOMAIN corpus.docs :
         corpus.docs[i].path = doc.path /\ corpus' = [corpus EXCEPT !.docs[i] = doc]
  BY DEF EditDocument
<1>2. CorpusTyped(corpus) /\ IsDocument(doc)
  BY CorpusAssumption DEF IInv, Typed, FilesTyped
<1>3. i \in DOMAIN InitialCorpus.docs /\ DocumentAt(i, doc)
  BY <1>1, <1>2 DEF CorpusTyped, DocsTyped, DocumentAt
<1>4. DocsTyped([corpus.docs EXCEPT ![i] = doc])
  BY <1>2, <1>3 DEF CorpusTyped, DocsTyped, IsFcn
<1>5. corpus' = [corpus EXCEPT !.docs = [corpus.docs EXCEPT ![i] = doc]]
  BY <1>1
<1>6. CorpusTyped(corpus')
  BY <1>2, <1>4, <1>5, CorpusAssumption DEF CorpusTyped, IsFcn
<1>7. UNCHANGED <<sources, skill>> /\ Edited
  BY DEF EditDocument
<1>. QED
  BY <1>6, <1>7, EditedStep DEF IInv, Typed, FilesTyped

LEMMA EditRegistryStep == IInv /\ EditRegistry => IInv'
<1>. SUFFICES ASSUME IInv, EditRegistry PROVE IInv'
  OBVIOUS
<1>1. PICK r \in Registries : corpus' = [corpus EXCEPT !.registry = r]
  BY DEF EditRegistry
<1>2. CorpusTyped(corpus')
  BY <1>1, RegistriesAssumption, CorpusAssumption DEF IInv, Typed, FilesTyped, CorpusTyped, IsFcn
<1>. QED
  BY <1>2, EditedStep DEF EditRegistry, IInv, Typed, FilesTyped

LEMMA EditEnforcementStep == IInv /\ EditEnforcement => IInv'
<1>. SUFFICES ASSUME IInv, EditEnforcement PROVE IInv'
  OBVIOUS
<1>1. PICK e : corpus' = [corpus EXCEPT !.enforce = e]
  BY DEF EditEnforcement
<1>2. CorpusTyped(corpus')
  BY <1>1 DEF IInv, Typed, FilesTyped, CorpusTyped, IsFcn
<1>. QED
  BY <1>2, EditedStep DEF EditEnforcement, IInv, Typed, FilesTyped

LEMMA EditSourcesStep == IInv /\ EditSources => IInv'
BY EditedStep DEF EditSources, IInv, Typed, FilesTyped

LEMMA EditSkillStep == IInv /\ EditSkill => IInv'
BY EditedStep DEF EditSkill, IInv, Typed, FilesTyped

-----------------------------------------------------------------------------
(* build_index.                                                            *)

LEMMA RestLen ==
    ASSUME NEW a \in 0..Len(InitialCorpus.docs)
    PROVE  /\ RestOf(a) \in Seq(Int) /\ Len(RestOf(a)) = Len(InitialCorpus.docs) - a
           /\ DOMAIN RestOf(a) = 1..Len(InitialCorpus.docs) - a
           /\ \A k \in 1..Len(InitialCorpus.docs) - a : RestOf(a)[k] = k + a
           /\ RestOf(a) = <<>> <=> a = Len(InitialCorpus.docs)
<1>. DEFINE n == Len(InitialCorpus.docs)
<1>1. n \in Nat /\ n - a \in Nat
  BY DocCount
<1>. HIDE DEF n
<1>2. RestOf(a) = [k \in 1..n - a |-> k + a]
  BY DEF RestOf, n
<1>3. RestOf(a) \in Seq(Int) /\ Len(RestOf(a)) = n - a
  BY <1>1, <1>2
<1>4. DOMAIN RestOf(a) = 1..n - a /\ \A k \in 1..n - a : RestOf(a)[k] = k + a
  BY <1>2
<1>5. RestOf(a) = <<>> <=> a = n
  BY <1>1, <1>3
<1>. QED
  BY <1>3, <1>4, <1>5 DEF n

LEMMA RestOne ==
    ASSUME NEW a \in 0..Len(InitialCorpus.docs), NEW b \in 0..Len(InitialCorpus.docs), RestOf(a) = RestOf(b)
    PROVE  a = b
<1>1. Len(InitialCorpus.docs) - a = Len(InitialCorpus.docs) - b
  BY RestLen
<1>. QED
  BY <1>1, DocCount

LEMMA RestTail ==
    ASSUME NEW a \in 0..Len(InitialCorpus.docs), a < Len(InitialCorpus.docs)
    PROVE  RestOf(a)[1] = a + 1 /\ Tail(RestOf(a)) = RestOf(a + 1)
<1>. DEFINE n == Len(InitialCorpus.docs)
            s == RestOf(a)
<1>1. /\ n \in Nat /\ s \in Seq(Int) /\ Len(s) = n - a
      /\ \A k \in 1..n - a : s[k] = k + a
  BY DocCount, RestLen
<1>2. /\ RestOf(a + 1) \in Seq(Int) /\ Len(RestOf(a + 1)) = n - (a + 1)
      /\ \A k \in 1..n - (a + 1) : RestOf(a + 1)[k] = k + (a + 1)
  <2>1. a + 1 \in 0..n
    BY DocCount
  <2>. QED
    BY <2>1, RestLen
<1>. HIDE DEF n, s
<1>3. s[1] = a + 1 /\ s # <<>>
  BY <1>1 DEF n
<1>4. Tail(s) \in Seq(Int) /\ Len(Tail(s)) = n - (a + 1) /\ \A k \in 1..n - (a + 1) : Tail(s)[k] = s[k + 1]
  BY <1>1, <1>3 DEF n
<1>5. \A k \in 1..n - (a + 1) : Tail(s)[k] = RestOf(a + 1)[k]
  BY <1>1, <1>2, <1>4 DEF n
<1>6. Tail(s) = RestOf(a + 1)
  BY <1>2, <1>4, <1>5, SeqsEqual, SeqIsSeq
<1>. QED
  BY <1>3, <1>6 DEF s

LEMMA RestFrom ==
    ASSUME NEW a \in 0..Len(InitialCorpus.docs), NEW k \in 1..Len(InitialCorpus.docs) - a
    PROVE  SubSeq(RestOf(a), k, Len(RestOf(a))) = RestOf(a + k - 1)
<1>. DEFINE n == Len(InitialCorpus.docs)
            s == RestOf(a)
            b == a + k - 1
<1>1. /\ n \in Nat /\ s \in Seq(Int) /\ Len(s) = n - a
      /\ \A i \in 1..n - a : s[i] = i + a
  BY DocCount, RestLen
<1>2. b \in 0..n
  BY <1>1
<1>3. RestOf(b) = [i \in 1..n - b |-> i + b]
  BY DEF RestOf
<1>4. RestOf(b) \in Seq(Int) /\ Len(RestOf(b)) = n - b
  BY <1>2, RestLen
<1>. HIDE DEF n, s
<1>5. /\ SubSeq(s, k, Len(s)) \in Seq(Int) /\ Len(SubSeq(s, k, Len(s))) = n - b
      /\ \A i \in 1..n - b : SubSeq(s, k, Len(s))[i] = s[i + k - 1]
  BY <1>1, <1>2 DEF n
<1>6. \A i \in 1..n - b : SubSeq(s, k, Len(s))[i] = RestOf(b)[i]
  BY <1>1, <1>2, <1>3, <1>5
<1>7. SubSeq(s, k, Len(s)) = RestOf(b)
  BY <1>4, <1>5, <1>6, SeqsEqual, SeqIsSeq
<1>. QED
  BY <1>7 DEF s

\* An invariant of the position reached is that of the job.
LEMMA Position ==
    ASSUME JobTyped, job.command = "index", job.step \in {"refresh", "rewrite"}
    PROVE  \E a \in 0..Len(InitialCorpus.docs) : Refreshing(a)
BY DEF JobTyped, Idle

LEMMA PositionNext ==
    ASSUME NEW a \in 0..Len(InitialCorpus.docs), job'.command = "index",
           DOMAIN job' = DOMAIN Idle, job'.stale \in BOOLEAN, job'.refreshed \in BOOLEAN,
           Refreshing(a)', ~job'.stale => RefreshCurrent(a)'
    PROVE  JobTyped' /\ JobCurrent'
<1>1. JobTyped'
  BY DEF JobTyped
<1>2. job'.todo = RestOf(a) /\ job'.step \in {"refresh", "rewrite"}
  BY DEF Refreshing
<1>3. ASSUME NEW b \in 0..Len(InitialCorpus.docs), Refreshing(b)' PROVE b = a
  <2>1. job'.todo = RestOf(b)
    BY <1>3 DEF Refreshing
  <2>. QED
    BY <1>2, <2>1, RestOne
<1>4. JobCurrent'
  BY <1>2, <1>3 DEF JobCurrent
<1>. QED
  BY <1>1, <1>4

LEMMA IndexBeginStep == IInv /\ IndexBegin => IInv'
<1>. SUFFICES ASSUME IInv, IndexBegin PROVE IInv'
  OBVIOUS
<1>1. PICK mode \in Modes :
         job' = [Idle EXCEPT !.command = "index", !.mode = mode, !.step = "refresh",
                             !.docs = corpus.docs, !.todo = [i \in DOMAIN corpus.docs |-> i]]
  BY DEF IndexBegin
<1>2. job = Idle /\ UNCHANGED <<corpus, sources, skill, disk, ceiling, green, rounds>>
  BY NoJob DEF IndexBegin, IInv, Typed
<1>3. DocsTyped(corpus.docs)
  BY DEF IInv, Typed, FilesTyped, CorpusTyped
<1>4. 0 \in 0..Len(InitialCorpus.docs) /\ [i \in DOMAIN corpus.docs |-> i] = RestOf(0)
  BY <1>3, DocCount DEF DocsTyped, RestOf
<1>. DEFINE todo == [i \in DOMAIN corpus.docs |-> i]
<1>. HIDE DEF todo
<1>5. /\ job'.command = "index" /\ job'.mode = mode /\ job'.step = "refresh" /\ job'.todo = todo
      /\ job'.docs = corpus.docs /\ job'.refreshed = FALSE /\ job'.stale = FALSE
      /\ DOMAIN job' = DOMAIN Idle
  BY <1>1 DEF Idle, todo
<1>6. Refreshing(0)'
  BY <1>3, <1>4, <1>5 DEF Refreshing, todo
<1>7. RefreshCurrent(0)'
  BY <1>2, <1>5 DEF RefreshCurrent
<1>8. JobTyped' /\ JobCurrent'
  BY <1>4, <1>5, <1>6, <1>7, PositionNext
<1>9. job'.stale = job.stale
  BY <1>2, <1>5 DEF Idle
<1>. QED
  BY <1>2, <1>8, <1>9, Begun

\* Between the position reached and the next document that is out of date none is.
LEMMA Measured ==
    ASSUME NEW a \in 0..Len(InitialCorpus.docs), NEW Skip, NEW I, NEW next,
           I \subseteq 1..Len(RestOf(a)), \A i \in 1..Len(RestOf(a)) : i \in I <=> RestOf(a)[i] \in Skip,
           next = IF I # {} THEN Min(I) ELSE 0
    PROVE  IF next = 0 THEN \A i \in a + 1..Len(InitialCorpus.docs) : i \notin Skip
           ELSE /\ next \in 1..Len(InitialCorpus.docs) - a /\ next + a \in Skip
                /\ \A i \in a + 1..a + next - 1 : i \notin Skip
<1>. DEFINE n == Len(InitialCorpus.docs)
<1>1. /\ n \in Nat /\ a \in Int
      /\ I \subseteq 1..n - a /\ \A i \in 1..n - a : i \in I <=> i + a \in Skip
  <2>1. /\ n \in Nat /\ Len(RestOf(a)) = n - a
        /\ \A k \in 1..n - a : RestOf(a)[k] = k + a
    BY DocCount, RestLen
  <2>. HIDE DEF n
  <2>. QED
    BY <2>1
<1>. HIDE DEF n
<1>2. CASE I = {}
  <2>1. ASSUME NEW i \in a + 1..n PROVE i \notin Skip
    <3>1. i - a \in 1..n - a /\ (i - a) + a = i
      BY <1>1
    <3>. QED
      BY <1>1, <1>2, <3>1
  <2>. QED
    BY <1>2, <2>1 DEF n
<1>3. CASE I # {}
  <2>1. next \in I /\ \A i \in I : next <= i
    <3>1. I \subseteq Nat
      BY <1>1
    <3>. QED
      BY <1>3, <3>1, FirstPosition
  <2>2. next \in 1..n - a /\ next + a \in Skip /\ next # 0
    BY <1>1, <2>1
  <2>3. ASSUME NEW i \in a + 1..a + next - 1 PROVE i \notin Skip
    <3>1. i - a \in 1..n - a /\ (i - a) + a = i /\ i - a < next
      <4>1. n \in Nat /\ a \in Int /\ next \in Int /\ next <= n - a
        BY <1>1, <2>2
      <4>. QED
        BY <4>1
    <3>2. ~(next <= i - a)
      BY <2>2, <3>1
    <3>3. i - a \notin I
      BY <2>1, <3>2
    <3>. QED
      BY <1>1, <3>1, <3>3
  <2>. QED
    BY <2>2, <2>3 DEF n
<1>. QED
  BY <1>2, <1>3

LEMMA IndexMeasureStep == IInv /\ IndexMeasure => IInv'
<1>. SUFFICES ASSUME IInv, IndexMeasure PROVE IInv'
  OBVIOUS
<1>. DEFINE n == Len(InitialCorpus.docs)
            Stale(at) == job.docs[at].parses
                            /\ TokensStale([job.docs[at] EXCEPT !.length = corpus.docs[at].length])
            Skip == {at \in 1..n : Stale(at)}
            next == SelectInSeq(job.todo, Stale)
<1>1. /\ job.command = "index" /\ job.step = "refresh" /\ job.todo # <<>>
      /\ UNCHANGED <<corpus, sources, skill, disk, ceiling, green, rounds>>
      /\ job' = IF next = 0 \/ job.mode = "check"
                THEN [job EXCEPT !.todo = <<>>, !.refreshed = @ \/ next # 0]
                ELSE [job EXCEPT !.step = "rewrite", !.todo = SubSeq(@, next, Len(@)),
                                 !.text = corpus.docs[job.todo[next]]]
  BY DEF IndexMeasure
<1>2. /\ JobTyped /\ JobCurrent /\ CorpusTyped(corpus)
      /\ DOMAIN job = DOMAIN Idle /\ job.stale \in BOOLEAN /\ job.refreshed \in BOOLEAN
  BY DEF IInv, Typed, JobTyped, FilesTyped
<1>3. PICK a \in 0..n : Refreshing(a)
  BY <1>1, <1>2, Position
<1>4. n \in Nat /\ job.todo = RestOf(a) /\ a < n /\ job.mode \in Modes /\ DocsTyped(job.docs)
  BY <1>1, <1>3, DocCount, RestLen DEF Refreshing
<1>5. /\ next = 0 => \A i \in a + 1..n : i \notin Skip
      /\ next # 0 => /\ next \in 1..n - a /\ next + a \in Skip
                     /\ \A i \in a + 1..a + next - 1 : i \notin Skip
  <2>. DEFINE I == {i \in 1..Len(RestOf(a)) : RestOf(a)[i] \in Skip}
  <2>1. I = {i \in 1..Len(job.todo) : Stale(job.todo[i])}
    <3>1. \A i \in 1..Len(RestOf(a)) : RestOf(a)[i] \in 1..n
      <4>1. /\ a \in 0..n /\ Len(RestOf(a)) = n - a
            /\ \A k \in 1..n - a : RestOf(a)[k] = k + a
        BY <1>3, RestLen
      <4>. HIDE DEF n
      <4>. QED
        BY <1>4, <4>1
    <3>. HIDE DEF Stale
    <3>. QED
      BY <1>4, <3>1
  <2>. HIDE DEF Stale, Skip
  <2>2. next = IF I # {} THEN Min(I) ELSE 0
    BY <2>1 DEF SelectInSeq
  <2>3. /\ I \subseteq 1..Len(RestOf(a))
        /\ \A i \in 1..Len(RestOf(a)) : i \in I <=> RestOf(a)[i] \in Skip
    BY DEF I
  <2>. HIDE DEF I, next
  <2>4. a \in 0..Len(InitialCorpus.docs)
    BY <1>3
  <2>5. IF next = 0 THEN \A i \in a + 1..n : i \notin Skip
        ELSE /\ next \in 1..n - a /\ next + a \in Skip
             /\ \A i \in a + 1..a + next - 1 : i \notin Skip
    <3>. HIDE DEF n
    <3>. QED
      BY <2>2, <2>3, <2>4, Measured DEF n
  <2>. QED
    BY <2>5
<1>6. ~job.stale => RefreshCurrent(a)
  BY <1>1, <1>2, <1>3 DEF JobCurrent
\* Of the documents it has not looked at the job read what is there.
<1>7. ASSUME ~job.stale, NEW i \in a + 1..n
      PROVE  i \in Skip <=> corpus.docs[i].parses /\ TokensStale(corpus.docs[i])
  <2>1. i \in 1..n /\ i > a
    BY <1>4, <1>7
  <2>2. job.docs[i] = corpus.docs[i]
    BY <1>2, <1>6, <1>7, <2>1, DocCount DEF RefreshCurrent, CorpusTyped, DocsTyped
  <2>. DEFINE doc == corpus.docs[i]
  <2>3. DocumentAt(i, doc)
    BY <1>2, <2>1, DocCount DEF CorpusTyped, DocsTyped
  <2>4. TokensStale([doc EXCEPT !.length = doc.length]) = TokensStale(doc)
    BY <2>3 DEF TokensStale, DocumentAt, IsDocument
  <2>. QED
    BY <2>1, <2>2, <2>4
<1>8. ASSUME ~job.stale, NEW i \in a + 1..n, i \notin Skip
      PROVE  Fresh(corpus.docs[i]) /\ (corpus.docs[i].parses => ~TokensStale(corpus.docs[i]))
  BY <1>7, <1>8 DEF Fresh
<1>. HIDE DEF Stale, Skip, next
<1>9. CASE next = 0 \/ job.mode = "check"
  <2>1. /\ DOMAIN job' = DOMAIN Idle /\ job'.todo = <<>> /\ job'.stale = job.stale
        /\ job'.refreshed = (job.refreshed \/ next # 0)
        /\ job'.command = "index" /\ job'.step = "refresh" /\ job'.mode = job.mode
        /\ job'.docs = job.docs /\ job'.text = job.text
    BY <1>1, <1>2, <1>9 DEF Idle
  <2>2. n \in 0..n /\ RestOf(n) = <<>>
    BY <1>4, RestLen
  <2>3. Refreshing(n)'
    BY <1>4, <2>1, <2>2 DEF Refreshing
  <2>4. ASSUME ~job.stale PROVE RefreshCurrent(n)'
    <3>1. RefreshCurrent(a)
      BY <1>6, <2>4
    <3>2. CASE next = 0
      <4>1. job'.refreshed = job.refreshed
        BY <1>2, <2>1, <3>2
      <4>2. ASSUME NEW i \in 1..n, i > a
            PROVE  Fresh(corpus.docs[i]) /\ (corpus.docs[i].parses => ~TokensStale(corpus.docs[i]))
        <5>1. i \in a + 1..n /\ i \notin Skip
          BY <1>4, <1>5, <3>2, <4>2
        <5>. QED
          BY <1>8, <2>4, <5>1
      <4>3. \A i \in 1..n : i \in 1..a \/ i > a
        BY <1>4
      <4>4. DOMAIN corpus.docs = 1..n
        BY <1>2, DocCount DEF CorpusTyped, DocsTyped
      <4>. QED
        BY <1>1, <1>4, <2>1, <3>1, <4>1, <4>2, <4>3, <4>4 DEF RefreshCurrent
    <3>3. CASE next # 0
      <4>1. job.mode = "check" /\ job'.refreshed = TRUE
        BY <1>9, <2>1, <3>3
      <4>2. DOMAIN corpus.docs = 1..n
        BY <1>2, DocCount DEF CorpusTyped, DocsTyped
      <4>. QED
        BY <1>1, <1>4, <2>1, <3>1, <4>1, <4>2 DEF RefreshCurrent
    <3>. QED
      BY <3>2, <3>3
  <2>5. JobTyped' /\ JobCurrent'
    BY <1>2, <2>1, <2>2, <2>3, <2>4, PositionNext
  <2>. QED
    BY <1>1, <2>1, <2>5, Begun
<1>10. CASE next # 0 /\ job.mode # "check"
  <2>1. PICK b : b = a + next - 1
    OBVIOUS
  <2>2. /\ next \in 1..n - a /\ next + a \in Skip /\ b \in 0..n /\ b < n /\ b + 1 = next + a
        /\ b + 1 \in a + 1..n /\ b + 1 \in 1..n /\ a <= b
        /\ \A i \in 1..b : i \in 1..a \/ i \in a + 1..a + next - 1
        /\ \A i \in a + 1..a + next - 1 : i \in a + 1..n
    BY <1>4, <1>5, <1>10, <2>1
  <2>3. SubSeq(job.todo, next, Len(job.todo)) = RestOf(b) /\ job.todo[next] = b + 1
    <3>1. SubSeq(RestOf(a), next, Len(RestOf(a))) = RestOf(a + next - 1)
      BY <2>2, RestFrom
    <3>2. RestOf(a)[next] = next + a
      BY <2>2, RestLen
    <3>. QED
      BY <1>4, <2>1, <2>2, <3>1, <3>2
  <2>4. /\ DOMAIN job' = DOMAIN Idle /\ job'.todo = RestOf(b) /\ job'.stale = job.stale
        /\ job'.refreshed = job.refreshed
        /\ job'.command = "index" /\ job'.step = "rewrite" /\ job'.mode = job.mode
        /\ job'.docs = job.docs /\ job'.text = corpus.docs[b + 1]
    BY <1>1, <1>2, <1>10, <2>3 DEF Idle
  <2>5. DocumentAt(b + 1, corpus.docs[b + 1]) /\ job.mode = "write"
    BY <1>2, <1>4, <1>10, <2>2, DocCount DEF CorpusTyped, DocsTyped, Modes
  <2>6. Refreshing(b)'
    BY <1>4, <2>2, <2>4, <2>5 DEF Refreshing
  <2>7. ASSUME ~job.stale PROVE RefreshCurrent(b)'
    <3>1. RefreshCurrent(a)
      BY <1>6, <2>7
    <3>2. \A i \in 1..b : Fresh(corpus.docs[i])
      <4>1. \A i \in 1..a : Fresh(corpus.docs[i])
        BY <2>5, <3>1 DEF RefreshCurrent
      <4>2. \A i \in a + 1..a + next - 1 : Fresh(corpus.docs[i])
        BY <1>5, <1>8, <1>10, <2>2, <2>7
      <4>. QED
        BY <2>2, <4>1, <4>2
    <3>3. corpus.docs[b + 1].parses /\ TokensStale(corpus.docs[b + 1])
      BY <1>7, <2>2, <2>7
    <3>4. \A i \in DOMAIN corpus.docs : i > b => i > a
      BY <1>2, <1>4, <2>2, DocCount DEF CorpusTyped, DocsTyped
    <3>. QED
      BY <1>1, <2>4, <2>5, <3>1, <3>2, <3>3, <3>4 DEF RefreshCurrent
  <2>8. JobTyped' /\ JobCurrent'
    BY <1>2, <2>2, <2>4, <2>6, <2>7, PositionNext
  <2>. QED
    BY <1>1, <2>4, <2>8, Begun
<1>. QED
  BY <1>9, <1>10

LEMMA IndexRewriteStep == IInv /\ IndexRewrite => IInv'
<1>. SUFFICES ASSUME IInv, IndexRewrite PROVE IInv'
  OBVIOUS
<1>. DEFINE n == Len(InitialCorpus.docs)
            new == Refreshed(job.text)
<1>1. /\ job.command = "index" /\ job.step = "rewrite"
      /\ Put("document", job.todo[1], new)
      /\ job' = [job EXCEPT !.step = "refresh", !.todo = Tail(@), !.refreshed = TRUE, !.text = None]
      /\ green' = IF corpus' = corpus THEN green ELSE {}
      /\ UNCHANGED <<sources, skill, ceiling, rounds>>
  BY DEF IndexRewrite
<1>2. /\ JobTyped /\ JobCurrent /\ FilesTyped /\ CountsTyped /\ Milestones /\ ChecksHold
      /\ DOMAIN job = DOMAIN Idle /\ job.stale \in BOOLEAN
  BY DEF IInv, Typed, JobTyped
<1>3. PICK a \in 0..n : Refreshing(a)
  BY <1>1, <1>2, Position
<1>4. /\ n \in Nat /\ job.todo = RestOf(a) /\ job.mode = "write" /\ a < n
      /\ DocsTyped(job.docs) /\ DocumentAt(a + 1, job.text)
  BY <1>1, <1>3, DocCount DEF Refreshing
<1>5. job.todo[1] = a + 1 /\ Tail(job.todo) = RestOf(a + 1) /\ a + 1 \in 0..n /\ a + 1 \in 1..n
  BY <1>4, RestTail
<1>6. DocumentAt(a + 1, new) /\ Fresh(new)
  BY <1>4, RefreshedDocument
<1>. HIDE DEF new
<1>7. corpus' = [corpus EXCEPT !.docs[a + 1] = new] /\ disk' = disk
  BY <1>1, <1>5 DEF Put
<1>8. /\ "docs" \in DOMAIN corpus /\ DOMAIN corpus.docs = 1..n /\ IsFcn(corpus) /\ IsFcn(corpus.docs)
  BY <1>2, CorpusAssumption, DocCount DEF FilesTyped, CorpusTyped, DocsTyped
<1>9. /\ DOMAIN corpus'.docs = 1..n /\ corpus'.docs[a + 1] = new
      /\ \A i \in 1..n : i # a + 1 => corpus'.docs[i] = corpus.docs[i]
  BY <1>5, <1>7, <1>8
<1>10. FilesTyped'
  <2>1. Storable("document", a + 1, new)
    BY <1>5, <1>6, DocCount DEF Storable
  <2>. QED
    BY <1>1, <1>2, <1>5, <2>1, PutTyped
<1>11. /\ DOMAIN job' = DOMAIN Idle /\ job'.todo = RestOf(a + 1) /\ job'.stale = job.stale
       /\ job'.refreshed = TRUE /\ job'.command = "index" /\ job'.step = "refresh"
       /\ job'.mode = "write" /\ job'.docs = job.docs
  BY <1>1, <1>2, <1>4, <1>5 DEF Idle
<1>12. JobTyped' /\ JobCurrent'
  <2>1. Refreshing(a + 1)'
    BY <1>4, <1>5, <1>11 DEF Refreshing, Modes
  <2>2. ASSUME ~job.stale PROVE RefreshCurrent(a + 1)'
    <3>1. RefreshCurrent(a)
      BY <1>1, <1>2, <1>3, <2>2 DEF JobCurrent
    <3>2. \A i \in 1..a : Fresh(corpus.docs[i])
      BY <1>4, <3>1 DEF RefreshCurrent
    <3>3. ASSUME NEW i \in 1..a + 1 PROVE Fresh(corpus'.docs[i])
      <4>1. CASE i = a + 1
        BY <1>6, <1>9, <4>1
      <4>2. CASE i # a + 1
        <5>1. i \in 1..a /\ i \in 1..n
          BY <1>4, <4>2
        <5>. QED
          BY <1>9, <3>2, <4>2, <5>1
      <4>. QED
        BY <4>1, <4>2
    <3>4. ASSUME NEW i \in 1..n, i > a + 1 PROVE job.docs[i] = corpus'.docs[i]
      <4>1. i # a + 1 /\ i > a
        BY <3>4
      <4>. QED
        BY <1>8, <1>9, <3>1, <4>1 DEF RefreshCurrent
    <3>. QED
      BY <1>9, <1>11, <3>3, <3>4 DEF RefreshCurrent
  <2>. QED
    BY <1>2, <1>5, <1>11, <2>1, <2>2, PositionNext
<1>13. CountsTyped'
  BY <1>1, <1>2, <1>11 DEF CountsTyped
\* Once a round began every count is right, and what is written back is what was read.
<1>14. Milestones'
  <2>1. CASE rounds = 0
    BY <1>1, <2>1, MilestonesNone
  <2>2. CASE rounds # 0
    <3>1. ~job.stale /\ rounds >= 1
      BY <1>2, <2>2 DEF CountsTyped
    <3>2. /\ job.text = corpus.docs[a + 1]
          /\ job.text.parses /\ TokensStale(job.text)
      BY <1>1, <1>2, <1>3, <3>1 DEF JobCurrent, RefreshCurrent
    <3>3. Fresh(corpus.docs[a + 1])
      BY <1>2, <1>5, <1>8, <3>1 DEF Milestones, AllFresh
    <3>4. job.text.tokens = None
      BY <3>2, <3>3 DEF Fresh
    <3>5. new = corpus.docs[a + 1]
      BY <3>2, <3>4 DEF new, Refreshed
    <3>6. [corpus.docs EXCEPT ![a + 1] = new] = corpus.docs
      BY <1>8, <3>5 DEF IsFcn
    <3>7. corpus' = [corpus EXCEPT !.docs = corpus.docs]
      BY <1>7, <3>6
    <3>8. corpus' = corpus
      BY <1>8, <3>7 DEF IsFcn
    <3>. QED
      BY <1>1, <1>2, <1>7, <3>8, MilestonesKept
  <2>. QED
    BY <2>1, <2>2
<1>15. ChecksHold'
  <2>1. CASE corpus' = corpus
    BY <1>1, <1>2, <1>7, <2>1, ChecksKept DEF CountsTyped
  <2>2. CASE corpus' # corpus
    BY <1>1, <2>2, ChecksVoid
  <2>. QED
    BY <2>1, <2>2
<1>. QED
  BY <1>10, <1>12, <1>13, <1>14, <1>15 DEF IInv, Typed

LEMMA ThreeFiles ==
    ASSUME NEW c
    PROVE  /\ DOMAIN IndexFiles(c) = 1..3
           /\ IndexFiles(c)[1] = <<"index", BuildIndex(c)>>
           /\ IndexFiles(c)[2] = <<"rules", BuildRulesJson(c)>>
           /\ IndexFiles(c)[3] = <<"ledger", BuildEnforcement(c)>>
           /\ \A k \in 1..3 : IndexFiles(c)[k][1] \in {"index", "rules", "ledger"}
<1>1. DOMAIN IndexFiles(c) = 1..3
  BY DEF IndexFiles
<1>2. /\ IndexFiles(c)[1] = <<"index", BuildIndex(c)>>
      /\ IndexFiles(c)[2] = <<"rules", BuildRulesJson(c)>>
      /\ IndexFiles(c)[3] = <<"ledger", BuildEnforcement(c)>>
  BY DEF IndexFiles
<1>. QED
  BY <1>1, <1>2

LEMMA IndexRenderStep == IInv /\ IndexRender => IInv'
<1>. SUFFICES ASSUME IInv, IndexRender PROVE IInv'
  OBVIOUS
<1>. DEFINE n == Len(InitialCorpus.docs)
            seen == IF job.refreshed /\ job.mode = "write" THEN corpus ELSE [corpus EXCEPT !.docs = job.docs]
            files == IndexFiles(seen)
            items == [k \in DOMAIN files |-> <<files[k][1], None, files[k][2]>>]
            fresh == /\ ~job.stale /\ ~job.refreshed
                     /\ \A k \in DOMAIN files : disk[files[k][1]] = files[k][2]
<1>1. /\ job.command = "index" /\ job.step = "refresh" /\ job.todo = <<>>
      /\ UNCHANGED <<corpus, sources, skill, disk, ceiling>>
      /\ IF ~Buildable(seen) THEN Fail
         ELSE IF job.mode = "check" THEN Checked("index", fresh) ELSE Writing("index", items)
  BY DEF IndexRender
<1>2. /\ JobTyped /\ JobCurrent /\ FilesTyped /\ CountsTyped /\ ChecksHold
      /\ job.stale \in BOOLEAN
  BY DEF IInv, Typed, JobTyped
<1>3. PICK a \in 0..n : Refreshing(a)
  BY <1>1, <1>2, Position
<1>4. a = n /\ n \in Nat /\ job.mode \in Modes
  BY <1>1, <1>3, RestLen, DocCount DEF Refreshing
<1>5. ~job.stale => RefreshCurrent(n)
  BY <1>1, <1>2, <1>3, <1>4 DEF JobCurrent
<1>6. DOMAIN corpus.docs = 1..n /\ IsFcn(corpus)
  BY <1>2, DocCount DEF FilesTyped, CorpusTyped, DocsTyped
\* Unless an edit overtook it, what it renders is what is there.
<1>7. ~job.stale => seen = corpus
  <2>1. CASE job.refreshed /\ job.mode = "write"
    BY <2>1
  <2>2. CASE ~(job.refreshed /\ job.mode = "write")
    <3>1. ~job.stale => job.docs = corpus.docs
      BY <1>4, <1>5, <2>2 DEF RefreshCurrent, Modes
    <3>. QED
      BY <1>6, <2>2, <3>1 DEF IsFcn
  <2>. QED
    BY <2>1, <2>2
<1>8. files = IndexFiles(seen) /\ DOMAIN files = 1..3
  BY ThreeFiles
<1>. HIDE DEF seen, files, fresh
<1>9. CASE Fail
  <2>1. job' = Idle /\ UNCHANGED <<green, rounds>>
    BY <1>9 DEF Fail
  <2>2. green' \subseteq Commands /\ \A command \in green' : command \in green
    BY <1>2, <2>1 DEF CountsTyped
  <2>. QED
    BY <1>1, <2>1, <2>2, Ended
<1>10. CASE Buildable(seen) /\ job.mode = "check" /\ Checked("index", fresh)
  <2>1. ASSUME fresh PROVE Seen("index")
    <3>1. ~job.stale /\ ~job.refreshed /\ \A k \in 1..3 : disk[files[k][1]] = files[k][2]
      BY <1>8, <2>1 DEF fresh
    <3>2. seen = corpus /\ files = IndexFiles(corpus)
      BY <1>7, <1>8, <3>1
    <3>3. NoneStale
      BY <1>5, <1>6, <1>10, <3>1 DEF RefreshCurrent, NoneStale
    <3>4. Done("index")
      BY <3>1, <3>2, ThreeFiles DEF Done, Goal, Stands
    <3>. QED
      BY <1>10, <3>2, <3>3, <3>4 DEF Seen
  <2>2. /\ job' = Idle /\ rounds' = 0
        /\ green' = green \/ (green' = green \cup {"index"} /\ Seen("index"))
    BY <1>10, <2>1 DEF Checked
  <2>3. "index" \in Commands
    BY DEF Commands
  <2>. QED
    BY <1>1, <2>2, <2>3, CheckedStep
<1>11. CASE Buildable(seen) /\ job.mode # "check" /\ Writing("index", items)
  <2>1. /\ job' = [Idle EXCEPT !.command = "index", !.step = "write", !.todo = items, !.stale = job.stale]
        /\ UNCHANGED <<green, rounds>>
    BY <1>11 DEF Writing
  <2>2. /\ job'.command = "index" /\ job'.step = "write" /\ job'.todo = items /\ job'.stale = job.stale
        /\ job'.mode = "write" /\ job'.refreshed = FALSE /\ DOMAIN job' = DOMAIN Idle
    BY <2>1 DEF Idle
  <2>3. IsSeq(items) /\ DOMAIN items = 1..3 /\ \A k \in 1..3 : items[k] = <<files[k][1], None, files[k][2]>>
    BY <1>8 DEF IsSeq
  <2>. HIDE DEF items
  <2>4. ToSet(items) = {<<files[k][1], None, files[k][2]>> : k \in 1..3}
    BY <2>3 DEF ToSet
  <2>5. ASSUME NEW item \in ToSet(items) PROVE ItemTyped("index", item)
    <3>1. PICK k \in 1..3 : item = <<files[k][1], None, files[k][2]>>
      BY <2>4
    <3>. QED
      BY <1>8, <3>1, ThreeFiles DEF ItemTyped, Storable
  <2>6. JobTyped'
    BY <1>2, <2>2, <2>3, <2>5 DEF JobTyped
  <2>7. ASSUME ~job.stale PROVE WriteCurrent'
    <3>1. seen = corpus /\ files = IndexFiles(corpus)
      BY <1>7, <1>8, <2>7
    <3>2. Goal("index")' = ToSet(items)
      BY <1>1, <2>4, <3>1 DEF Goal
    <3>3. AllFresh' /\ Buildable(corpus)'
      BY <1>1, <1>5, <1>6, <1>11, <2>7, <3>1 DEF AllFresh, RefreshCurrent
    <3>. QED
      BY <2>2, <3>2, <3>3 DEF WriteCurrent
  <2>8. JobCurrent'
    BY <2>2, <2>7 DEF JobCurrent, Refreshing
  <2>. QED
    BY <1>1, <2>1, <2>2, <2>6, <2>8, Begun
<1>. QED
  BY <1>1, <1>9, <1>10, <1>11

-----------------------------------------------------------------------------
(* Writing a command's files one after another.                            *)

\* One write of a command whose file belongs to its goal: the goal is the same and
\* nearer, for what stood stands and the new file stands.
LEMMA GoalNearer ==
    ASSUME FilesTyped, UNCHANGED skill,
           NEW command \in {"index", "graph", "provenance", "mirror"},
           NEW item \in Goal(command), ItemTyped(command, item), Put(item[1], item[2], item[3])
    PROVE  /\ Goal(command)' = Goal(command)
           /\ Stands(item)'
           /\ \A other \in Goal(command) : Stands(other) => Stands(other)'
<1>. DEFINE target == item[1]
            at == item[2]
            value == item[3]
<1>1. CASE command = "index"
  <2>1. /\ target \in {"index", "rules", "ledger"}
        /\ corpus' = corpus /\ disk' = [disk EXCEPT ![target] = value]
    BY <1>1 DEF ItemTyped, Put
  <2>2. Goal("index") = {<<IndexFiles(corpus)[k][1], None, IndexFiles(corpus)[k][2]>> : k \in 1..3}
    BY DEF Goal
  <2>3. Goal("index")' = Goal("index")
    BY <2>1 DEF Goal
  <2>4. PICK k \in 1..3 : item = <<IndexFiles(corpus)[k][1], None, IndexFiles(corpus)[k][2]>>
    BY <1>1, <2>2
  <2>5. DOMAIN disk = DiskFiles
    BY DEF FilesTyped, DiskTyped
  <2>6. Stands(item)'
    BY <2>1, <2>5 DEF Stands, DiskFiles
  <2>7. ASSUME NEW other \in Goal("index"), Stands(other) PROVE Stands(other)'
    <3>1. PICK j \in 1..3 : other = <<IndexFiles(corpus)[j][1], None, IndexFiles(corpus)[j][2]>>
      BY <2>2, <2>7
    <3>2. other[1] \in {"index", "rules", "ledger"} /\ (other[1] = target => other = item)
      BY <2>4, <3>1, ThreeFiles
    <3>3. disk[other[1]] = other[3]
      BY <2>7, <3>2 DEF Stands
    <3>4. disk'[other[1]] = other[3]
      BY <2>1, <2>5, <3>2, <3>3 DEF DiskFiles
    <3>. QED
      BY <3>2, <3>4 DEF Stands
  <2>. QED
    BY <1>1, <2>3, <2>6, <2>7
<1>2. CASE command = "graph"
  <2>1. Goal("graph") = {<<"graph", None, Build(corpus)>>}
    BY DEF Goal
  <2>2. item = <<"graph", None, Build(corpus)>>
    BY <1>2, <2>1
  <2>3. corpus' = corpus /\ disk' = [disk EXCEPT !["graph"] = value] /\ "graph" \in DOMAIN disk
    BY <2>2 DEF Put, FilesTyped, DiskTyped, DiskFiles
  <2>4. Goal("graph")' = Goal("graph")
    BY <2>3 DEF Goal
  <2>5. Stands(item)'
    BY <2>2, <2>3 DEF Stands
  <2>. QED
    BY <1>2, <2>1, <2>2, <2>4, <2>5
<1>3. CASE command = "provenance"
  <2>1. PICK document, claims : document = RenderProvenance(disk.census) /\ claims = ClaimLedger(disk.census)
    OBVIOUS
  <2>. DEFINE page == <<"document", PA, document>>
              ledger == <<"claims", None, claims>>
  <2>2. Goal("provenance") = {page, ledger}
    BY <2>1 DEF Goal
  <2>3. DOMAIN disk = DiskFiles /\ PA \in DOMAIN corpus.docs /\ "docs" \in DOMAIN corpus
    BY ProvenanceStands, CorpusAssumption DEF FilesTyped, DiskTyped, CorpusTyped, DocsTyped
  <2>4. CASE item = page
    <3>1. corpus' = [corpus EXCEPT !.docs[PA] = document] /\ disk' = disk
      BY <2>4 DEF Put
    <3>2. Goal("provenance")' = Goal("provenance")
      BY <3>1 DEF Goal
    <3>3. corpus'.docs[PA] = document
      BY <2>3, <3>1
    <3>4. Stands(page)' /\ (Stands(ledger) => Stands(ledger)')
      BY <3>1, <3>3 DEF Stands
    <3>. QED
      BY <1>3, <2>2, <2>4, <3>2, <3>4
  <2>5. CASE item = ledger
    <3>1. corpus' = corpus /\ disk' = [disk EXCEPT !["claims"] = claims]
      BY <2>5 DEF Put
    <3>2. disk'.census = disk.census /\ disk'.claims = claims
      BY <2>3, <3>1 DEF DiskFiles
    <3>3. Goal("provenance")' = Goal("provenance")
      BY <3>2 DEF Goal
    <3>4. Stands(ledger)' /\ (Stands(page) => Stands(page)')
      BY <3>1, <3>2 DEF Stands
    <3>. QED
      BY <1>3, <2>2, <2>5, <3>3, <3>4
  <2>. QED
    BY <1>3, <2>2, <2>4, <2>5
<1>4. CASE command = "mirror"
  <2>1. Goal("mirror") = {<<"copy", <<m, f>>, skill[f]>> : m \in Mirrors, f \in DOMAIN skill}
    BY DEF Goal
  <2>2. PICK m \in Mirrors, f \in DOMAIN skill : item = <<"copy", <<m, f>>, skill[f]>>
    BY <1>4, <2>1
  <2>3. corpus' = corpus /\ disk' = [disk EXCEPT !.copies[m] = With(@, f, skill[f])]
    BY <2>2 DEF Put
  <2>4. DOMAIN disk = DiskFiles /\ DOMAIN disk.copies = Mirrors
    BY DEF FilesTyped, DiskTyped
  <2>. DEFINE written == With(disk.copies[m], f, skill[f])
  <2>5. /\ DOMAIN written = DOMAIN disk.copies[m] \cup {f}
        /\ \A g \in DOMAIN written : written[g] = IF g = f THEN skill[f] ELSE disk.copies[m][g]
    BY DEF With
  <2>. HIDE DEF written
  <2>6. disk'.copies = [disk.copies EXCEPT ![m] = written]
    BY <2>3, <2>4 DEF DiskFiles, written
  <2>7. disk'.copies[m] = written /\ \A l \in Mirrors : l # m => disk'.copies[l] = disk.copies[l]
    BY <2>4, <2>6
  <2>8. Goal("mirror")' = Goal("mirror")
    BY DEF Goal
  <2>9. Stands(item)'
    BY <2>2, <2>5, <2>7 DEF Stands
  <2>10. ASSUME NEW other \in Goal("mirror"), Stands(other) PROVE Stands(other)'
    <3>1. PICK l \in Mirrors, g \in DOMAIN skill : other = <<"copy", <<l, g>>, skill[g]>>
      BY <2>1, <2>10
    <3>2. g \in DOMAIN disk.copies[l] /\ disk.copies[l][g] = skill[g]
      BY <2>10, <3>1 DEF Stands
    <3>3. g \in DOMAIN disk'.copies[l] /\ disk'.copies[l][g] = skill[g]
      BY <2>5, <2>7, <3>1, <3>2
    <3>. QED
      BY <3>1, <3>3 DEF Stands
  <2>. QED
    BY <1>4, <2>8, <2>9, <2>10
<1>. QED
  BY <1>1, <1>2, <1>3, <1>4

\* What a command writes is not looked at by the milestones before its own.
LEMMA OtherGoals ==
    ASSUME FilesTyped, UNCHANGED skill, NEW command, NEW item,
           ItemTyped(command, item), Put(item[1], item[2], item[3])
    PROVE  /\ command \in {"index", "graph", "mirror"} => corpus' = corpus /\ Done("provenance")' = Done("provenance")
           /\ command \in {"index", "graph", "provenance"} => disk'.copies = disk.copies
           /\ command = "graph" => Done("index")' = Done("index")
           /\ command = "provenance" /\ AllFresh => AllFresh'
<1>. DEFINE target == item[1]
            at == item[2]
            value == item[3]
<1>1. DOMAIN disk = DiskFiles
  BY DEF FilesTyped, DiskTyped
<1>2. CASE command \in {"index", "graph"}
  <2>1. /\ target \in {"index", "rules", "ledger", "graph"} /\ (command = "graph" => target = "graph")
        /\ corpus' = corpus /\ disk' = [disk EXCEPT ![target] = value]
    BY <1>2 DEF ItemTyped, Put
  <2>2. /\ disk'.census = disk.census /\ disk'.claims = disk.claims /\ disk'.copies = disk.copies
        /\ target = "graph" => /\ disk'.index = disk.index /\ disk'.rules = disk.rules
                               /\ disk'.ledger = disk.ledger
    BY <1>1, <2>1 DEF DiskFiles
  <2>3. Done("provenance")' = Done("provenance")
    BY <2>1, <2>2 DEF Done, Goal, Stands
  <2>4. ASSUME target = "graph" PROVE Done("index")' = Done("index")
    <3>1. Goal("index")' = Goal("index")
      BY <2>1 DEF Goal
    <3>2. ASSUME NEW goal \in Goal("index") PROVE Stands(goal)' = Stands(goal)
      <4>1. goal[1] \in {"index", "rules", "ledger"}
        BY <3>2, ThreeFiles DEF Goal
      <4>. QED
        <5>1. (Stands(goal) <=> disk[goal[1]] = goal[3]) /\ (Stands(goal)' <=> disk'[goal[1]] = goal[3])
          BY <4>1 DEF Stands
        <5>2. disk'[goal[1]] = disk[goal[1]]
          BY <2>2, <2>4, <4>1
        <5>. QED
          BY <5>1, <5>2 DEF Stands
    <3>. QED
      BY <3>1, <3>2 DEF Done
  <2>. QED
    BY <1>2, <2>1, <2>2, <2>3, <2>4
<1>3. CASE command = "mirror"
  <2>1. corpus' = corpus /\ disk' = [disk EXCEPT !.copies[at[1]] = With(@, at[2], value)]
    BY <1>3 DEF ItemTyped, Put
  <2>2. corpus' = corpus /\ disk'.census = disk.census /\ disk'.claims = disk.claims
    BY <1>1, <2>1 DEF DiskFiles
  <2>3. Done("provenance")' = Done("provenance")
    BY <2>2 DEF Done, Goal, Stands
  <2>. QED
    BY <1>3, <2>2, <2>3
<1>4. CASE command = "provenance"
  <2>1. CASE target = "claims"
    <3>1. corpus' = corpus /\ disk'.copies = disk.copies
      BY <1>1, <2>1 DEF Put, DiskFiles
    <3>. QED
      BY <1>4, <3>1 DEF AllFresh
  <2>2. CASE target = "document" /\ at = PA /\ Fresh(value)
    <3>1. corpus' = [corpus EXCEPT !.docs[PA] = value] /\ disk' = disk
      BY <2>2 DEF Put
    <3>2. PA \in DOMAIN corpus.docs /\ "docs" \in DOMAIN corpus
      BY ProvenanceStands, CorpusAssumption DEF FilesTyped, CorpusTyped, DocsTyped
    <3>3. /\ DOMAIN corpus'.docs = DOMAIN corpus.docs /\ corpus'.docs[PA] = value
          /\ \A i \in DOMAIN corpus.docs : i # PA => corpus'.docs[i] = corpus.docs[i]
      BY <3>1, <3>2
    <3>4. AllFresh => AllFresh'
      BY <2>2, <3>3 DEF AllFresh
    <3>. QED
      BY <1>4, <3>1, <3>4
  <2>. QED
    BY <1>4, <2>1, <2>2 DEF ItemTyped
<1>. QED
  BY <1>2, <1>3, <1>4

LEMMA MirroredStands ==
    ASSUME \A m \in Mirrors : disk.copies[m] = skill
    PROVE  Done("mirror")
BY DEF Done, Goal, Stands

\* A write takes nothing away from what the rounds have reached: what is already past its
\* command's milestone is written over with itself.
LEMMA MilestonesWritten ==
    ASSUME FilesTyped, Milestones, rounds \in Nat, UNCHANGED <<skill, rounds>>,
           NEW command \in {"index", "graph", "provenance", "mirror"},
           NEW item \in Goal(command), ItemTyped(command, item), Put(item[1], item[2], item[3])
    PROVE  Milestones'
<1>1. CASE Stands(item)
  <2>1. UNCHANGED <<corpus, disk>>
    BY <1>1, PutStanding
  <2>. QED
    BY <2>1, MilestonesKept
<1>2. CASE ~Stands(item)
  <2>1. ~Done(command)
    BY <1>2 DEF Done
  <2>2. CASE command = "index"
    <3>1. rounds < 5
      BY <2>1, <2>2 DEF Milestones
    <3>2. corpus' = corpus /\ Done("provenance")' = Done("provenance") /\ disk'.copies = disk.copies
      BY <2>2, OtherGoals
    <3>3. AllFresh' = AllFresh
      BY <3>2 DEF AllFresh
    <3>. QED
      BY <3>1, <3>2, <3>3 DEF Milestones
  <2>3. CASE command = "graph"
    <3>1. rounds < 6
      BY <2>1, <2>3 DEF Milestones
    <3>2. /\ corpus' = corpus /\ Done("provenance")' = Done("provenance") /\ disk'.copies = disk.copies
          /\ Done("index")' = Done("index")
      BY <2>3, OtherGoals
    <3>3. AllFresh' = AllFresh
      BY <3>2 DEF AllFresh
    <3>. QED
      BY <3>1, <3>2, <3>3 DEF Milestones
  <2>4. CASE command = "provenance"
    <3>1. rounds < 3
      BY <2>1, <2>4 DEF Milestones
    <3>2. AllFresh => AllFresh'
      BY <2>4, OtherGoals
    <3>. QED
      BY <3>1, <3>2 DEF Milestones
  <2>5. CASE command = "mirror"
    <3>1. rounds < 4
      BY <2>1, <2>5, MirroredStands DEF Milestones
    <3>2. corpus' = corpus /\ Done("provenance")' = Done("provenance")
      BY <2>5, OtherGoals
    <3>3. AllFresh' = AllFresh
      BY <3>2 DEF AllFresh
    <3>. QED
      BY <3>1, <3>2, <3>3 DEF Milestones
  <2>. QED
    BY <2>2, <2>3, <2>4, <2>5
<1>. QED
  BY <1>1, <1>2

\* The command that wrote a file of its goal and has the rest still to write.
LEMMA WriteNearer ==
    ASSUME FilesTyped, UNCHANGED skill,
           NEW command \in {"index", "graph", "provenance", "mirror"}, job.command = command,
           NEW todo, job.todo = todo, IsSeq(todo), todo # <<>>, WriteCurrent,
           ItemTyped(command, todo[1]), Put(todo[1][1], todo[1][2], todo[1][3]),
           job'.command = command, job'.todo = Tail(todo)
    PROVE  WriteCurrent'
<1>1. todo[1] \in ToSet(todo) /\ ToSet(todo) = {todo[1]} \cup ToSet(Tail(todo))
  BY TailItems
<1>2. ToSet(todo) \subseteq Goal(command) /\ \A goal \in Goal(command) : Stands(goal) \/ goal \in ToSet(todo)
  BY DEF WriteCurrent
<1>3. PICK item : item = todo[1]
  OBVIOUS
<1>4. /\ Goal(command)' = Goal(command) /\ Stands(item)'
      /\ \A goal \in Goal(command) : Stands(goal) => Stands(goal)'
  BY <1>1, <1>2, <1>3, GoalNearer
<1>5. ToSet(Tail(todo)) \subseteq Goal(command)'
  BY <1>1, <1>2, <1>4
<1>6. ASSUME NEW goal \in Goal(command) PROVE Stands(goal)' \/ goal \in ToSet(Tail(todo))
  <2>1. CASE goal = item
    BY <1>4, <2>1
  <2>2. CASE goal # item
    <3>1. Stands(goal) \/ goal \in ToSet(Tail(todo))
      BY <1>1, <1>2, <1>3, <2>2
    <3>. QED
      BY <1>4, <3>1
  <2>. QED
    BY <2>1, <2>2
<1>7. command = "index" => AllFresh' /\ Buildable(corpus)'
  <2>1. ASSUME command = "index" PROVE AllFresh' /\ Buildable(corpus)'
    <3>1. corpus' = corpus
      BY <1>3, <2>1, OtherGoals
    <3>. QED
      BY <2>1, <3>1 DEF WriteCurrent, AllFresh
  <2>. QED
    BY <2>1
<1>. QED
  BY <1>4, <1>5, <1>6, <1>7 DEF WriteCurrent

\* What the job of a step that writes is like.
LEMMA WritingJob ==
    ASSUME JobTyped, job.step \in {"write", "copy"}
    PROVE  /\ job.command \in {"index", "graph", "extract", "provenance", "mirror"}
           /\ (job.step = "copy") <=> (job.command = "mirror")
           /\ job.mode = "write" /\ IsSeq(job.todo)
           /\ \A item \in ToSet(job.todo) : ItemTyped(job.command, item)
BY DEF JobTyped, Idle, Refreshing

LEMMA WriteStep == IInv /\ Write => IInv'
<1>. SUFFICES ASSUME IInv, Write PROVE IInv'
  OBVIOUS
<1>1. /\ FilesTyped /\ JobTyped /\ CountsTyped /\ JobCurrent /\ Milestones /\ ChecksHold
      /\ DOMAIN job = DOMAIN Idle /\ job.stale \in BOOLEAN /\ job.refreshed \in BOOLEAN
      /\ rounds \in Nat
  BY DEF IInv, Typed, JobTyped, CountsTyped, Documented
<1>2. job.step = "write" /\ UNCHANGED <<sources, skill, ceiling>>
  BY DEF Write
<1>3. /\ job.command \in {"index", "graph", "extract", "provenance"}
      /\ job.mode = "write" /\ IsSeq(job.todo)
      /\ \A item \in ToSet(job.todo) : ItemTyped(job.command, item)
  BY <1>1, <1>2, WritingJob
<1>4. CASE job.todo = <<>>
  <2>1. Completed /\ UNCHANGED <<corpus, disk, green>>
    BY <1>4 DEF Write
  <2>2. FilesTyped' /\ JobTyped' /\ JobCurrent' /\ ~job'.stale
    BY <1>1, <1>2, <2>1, FilesKept, JobIdle DEF Completed
  <2>3. ChecksHold'
    BY <1>1, <1>2, <2>1, ChecksKept DEF CountsTyped
  <2>4. CASE rounds' = rounds
    BY <1>1, <1>2, <2>1, <2>2, <2>3, <2>4, MilestonesKept DEF IInv, Typed, CountsTyped
  <2>5. CASE rounds' # rounds
    <3>1. /\ ~job.stale /\ rounds < 8 /\ rounds' = rounds + 1
          /\ job.command = Documented[(rounds % 4) + 1]
      BY <2>1, <2>5 DEF Completed, Documented
    <3>2. rounds \in {0, 1, 2, 4, 5, 6}
      <4>1. rounds \in {0, 1, 2, 3, 4, 5, 6, 7}
        BY <1>1, <3>1
      <4>2. rounds # 3 /\ rounds # 7
        BY <1>3, <3>1 DEF Documented
      <4>. QED
        BY <4>1, <4>2
    <3>3. WriteCurrent
      <4>1. job.command # "extract"
        BY <3>1, <3>2 DEF Documented
      <4>. QED
        BY <1>1, <1>2, <3>1, <4>1 DEF JobCurrent
    <3>4. Done(job.command)
      BY <1>4, <3>3 DEF WriteCurrent, Done, ToSet
    <3>5. AllFresh' = AllFresh /\ \A c : Done(c)' = Done(c)
      BY <1>2, <2>1, DoneSame DEF AllFresh
    <3>6. Milestones'
      <4>1. CASE rounds = 0
        <5>1. job.command = "index"
          BY <3>1, <4>1 DEF Documented
        <5>. QED
          BY <3>1, <3>3, <3>5, <4>1, <5>1 DEF WriteCurrent, Milestones
      <4>2. CASE rounds = 1
        BY <1>1, <3>1, <3>5, <4>2 DEF Milestones
      <4>3. CASE rounds = 2
        <5>1. job.command = "provenance"
          BY <3>1, <4>3 DEF Documented
        <5>. QED
          BY <1>1, <3>1, <3>4, <3>5, <4>3, <5>1 DEF Milestones
      <4>4. CASE rounds = 4
        <5>1. job.command = "index"
          BY <3>1, <4>4 DEF Documented
        <5>. QED
          BY <1>1, <1>2, <2>1, <3>1, <3>3, <3>4, <3>5, <4>4, <5>1 DEF WriteCurrent, Milestones
      <4>5. CASE rounds = 5
        <5>1. job.command = "graph"
          BY <3>1, <4>5 DEF Documented
        <5>. QED
          BY <1>1, <1>2, <2>1, <3>1, <3>4, <3>5, <4>5, <5>1 DEF Milestones
      <4>6. CASE rounds = 6
        BY <1>1, <1>2, <2>1, <3>1, <3>5, <4>6 DEF Milestones
      <4>. QED
        BY <3>2, <4>1, <4>2, <4>3, <4>4, <4>5, <4>6
    <3>7. CountsTyped'
      BY <1>1, <2>1, <2>2, <3>1 DEF CountsTyped, Documented
    <3>. QED
      BY <2>2, <2>3, <3>6, <3>7 DEF IInv, Typed
  <2>. QED
    BY <2>4, <2>5
<1>5. CASE job.todo # <<>>
  <2>1. PICK todo, item, command : todo = job.todo /\ item = todo[1] /\ command = job.command
    OBVIOUS
  <2>2. /\ Put(item[1], item[2], item[3]) /\ job' = [job EXCEPT !.todo = Tail(todo)]
        /\ green' = {} /\ rounds' = IF command = "extract" THEN 0 ELSE rounds
    BY <1>5, <2>1 DEF Write, Wrote
  <2>3. /\ item \in ToSet(todo) /\ ToSet(todo) = {item} \cup ToSet(Tail(todo)) /\ IsSeq(Tail(todo))
        /\ ItemTyped(command, item)
    BY <1>3, <1>5, <2>1, TailItems
  <2>4. FilesTyped'
    BY <1>1, <1>2, <2>2, <2>3, PutTyped DEF ItemTyped
  <2>5. /\ DOMAIN job' = DOMAIN Idle /\ job'.todo = Tail(todo) /\ job'.stale = job.stale
        /\ job'.refreshed = job.refreshed /\ job'.command = command /\ job'.step = "write"
        /\ job'.mode = "write"
    BY <1>1, <1>2, <1>3, <2>1, <2>2 DEF Idle
  <2>6. JobTyped'
    BY <1>1, <1>3, <2>1, <2>3, <2>5 DEF JobTyped
  <2>7. JobCurrent'
    <3>1. ASSUME ~job.stale, command # "extract" PROVE WriteCurrent'
      <4>1. WriteCurrent
        BY <1>1, <1>2, <2>1, <3>1 DEF JobCurrent
      <4>2. command \in {"index", "graph", "provenance", "mirror"}
        BY <1>3, <2>1, <3>1
      <4>. QED
        BY <1>1, <1>2, <1>3, <1>5, <2>1, <2>2, <2>3, <2>5, <4>1, <4>2, WriteNearer
    <3>. QED
      BY <2>5, <3>1 DEF JobCurrent, Refreshing
  <2>8. CountsTyped'
    BY <1>1, <2>2, <2>5 DEF CountsTyped, Documented
  <2>9. Milestones'
    <3>1. CASE rounds' = 0
      BY <3>1, MilestonesNone
    <3>2. CASE rounds' # 0
      <4>1. command \in {"index", "graph", "provenance", "mirror"} /\ rounds' = rounds
        BY <1>3, <2>1, <2>2, <3>2
      <4>2. ~job.stale
        BY <1>1, <3>2, <4>1 DEF CountsTyped
      <4>3. item \in Goal(command)
        BY <1>1, <1>2, <2>1, <2>2, <2>3, <3>2, <4>2 DEF JobCurrent, WriteCurrent
      <4>. QED
        BY <1>1, <1>2, <2>2, <2>3, <4>1, <4>3, MilestonesWritten
    <3>. QED
      BY <3>1, <3>2
  <2>10. ChecksHold'
    BY <2>2, ChecksVoid
  <2>. QED
    BY <2>4, <2>6, <2>7, <2>8, <2>9, <2>10 DEF IInv, Typed
<1>. QED
  BY <1>4, <1>5

-----------------------------------------------------------------------------
(* build_skill_mirror.                                                     *)

\* A finite set is listed in full.
LEMMA Listed ==
    ASSUME NEW S, IsFiniteSet(S)
    PROVE  IsSeq(SetToSeq(S)) /\ ToSet(SetToSeq(S)) = S
<1>. DEFINE n == Cardinality(S)
            s == SetToSeq(S)
<1>1. n \in Nat
  BY FS_CardinalityType
<1>2. PICK f : f \in Bijection(1..n, S)
  BY FS_NatBijection, FS_CountingElements DEF ExistsBijection
<1>3. f \in [1..n -> S] /\ IsInjective(f)
  BY <1>2 DEF Bijection, Injection, IsInjective
<1>4. s \in [1..n -> S] /\ IsInjective(s)
  BY <1>3 DEF SetToSeq
<1>. HIDE DEF s
<1>5. s \in Injection(1..n, S)
  BY <1>4 DEF Injection, IsInjective
<1>6. IsFiniteSet(1..n) /\ Cardinality(1..n) = n
  BY <1>1, FS_Interval
<1>7. s \in Surjection(1..n, S)
  BY <1>5, <1>6, FS_Injection
<1>8. s \in Seq(S) /\ DOMAIN s = 1..n
  BY <1>1, <1>4
<1>9. ToSet(s) = S
  BY <1>4, <1>7, <1>8 DEF Surjection, ToSet
<1>10. IsSeq(s)
  BY <1>8, SeqIsSeq
<1>. QED
  BY <1>9, <1>10 DEF s

LEMMA Joined ==
    ASSUME NEW s, NEW t, IsSeq(s), IsSeq(t)
    PROVE  IsSeq(s \o t) /\ ToSet(s \o t) = ToSet(s) \cup ToSet(t)
<1>. DEFINE S == {s[i] : i \in 1..Len(s)} \cup {t[i] : i \in 1..Len(t)}
<1>1. /\ s \in Seq(S) /\ t \in Seq(S)
      /\ DOMAIN s = 1..Len(s) /\ DOMAIN t = 1..Len(t)
  <2>1. s \in Seq({s[i] : i \in 1..Len(s)}) /\ t \in Seq({t[i] : i \in 1..Len(t)})
    BY IsSeqSeq
  <2>. QED
    BY <2>1, IsSeqSeq
<1>. HIDE DEF S
<1>2. /\ s \o t \in Seq(S) /\ Len(s \o t) = Len(s) + Len(t)
      /\ Len(s) \in Nat /\ Len(t) \in Nat
      /\ \A i \in 1..Len(s) : (s \o t)[i] = s[i]
      /\ \A i \in Len(s) + 1..Len(s) + Len(t) : (s \o t)[i] = t[i - Len(s)]
  BY <1>1
<1>3. DOMAIN (s \o t) = 1..Len(s) + Len(t)
  BY <1>2
<1>4. ASSUME NEW x \in ToSet(s) \cup ToSet(t) PROVE x \in ToSet(s \o t)
  <2>1. CASE x \in ToSet(s)
    <3>1. PICK i \in 1..Len(s) : x = s[i]
      BY <1>1, <2>1 DEF ToSet
    <3>. QED
      BY <1>2, <1>3, <3>1 DEF ToSet
  <2>2. CASE x \in ToSet(t)
    <3>1. PICK i \in 1..Len(t) : x = t[i]
      BY <1>1, <2>2 DEF ToSet
    <3>2. i + Len(s) \in Len(s) + 1..Len(s) + Len(t) /\ (i + Len(s)) - Len(s) = i
          /\ i + Len(s) \in 1..Len(s) + Len(t)
      BY <1>2
    <3>. QED
      BY <1>2, <1>3, <3>1, <3>2 DEF ToSet
  <2>. QED
    BY <1>4, <2>1, <2>2
<1>5. ASSUME NEW x \in ToSet(s \o t) PROVE x \in ToSet(s) \cup ToSet(t)
  <2>1. PICK i \in 1..Len(s) + Len(t) : x = (s \o t)[i]
    BY <1>3 DEF ToSet
  <2>2. CASE i \in 1..Len(s)
    BY <1>1, <1>2, <2>1, <2>2 DEF ToSet
  <2>3. CASE i \notin 1..Len(s)
    <3>1. i \in Len(s) + 1..Len(s) + Len(t) /\ i - Len(s) \in 1..Len(t)
      BY <1>2, <2>3
    <3>. QED
      BY <1>1, <1>2, <2>1, <3>1 DEF ToSet
  <2>. QED
    BY <2>2, <2>3
<1>. QED
  BY <1>2, <1>4, <1>5, SeqIsSeq

LEMMA MirrorFilesAre ==
    ASSUME NEW files, IsFiniteSet(DOMAIN files)
    PROVE  /\ IsSeq(MirrorFiles(files))
           /\ ToSet(MirrorFiles(files)) = {<<"copy", <<m, f>>, files[f]>> : m \in Mirrors, f \in DOMAIN files}
<1>. DEFINE names == SetToSeq(DOMAIN files)
            Into(mirror) == [k \in DOMAIN names |-> <<"copy", <<mirror, names[k]>>, files[names[k]]>>]
<1>1. IsSeq(names) /\ ToSet(names) = DOMAIN files /\ DOMAIN names = 1..Len(names) /\ Len(names) \in Nat
  BY Listed, IsSeqSeq DEF IsSeq
<1>2. MirrorFiles(files) = Into("claude") \o Into("agents")
  BY DEF MirrorFiles
<1>. HIDE DEF names
<1>3. ASSUME NEW mirror
      PROVE  IsSeq(Into(mirror)) /\ ToSet(Into(mirror)) = {<<"copy", <<mirror, f>>, files[f]>> : f \in DOMAIN files}
  <2>1. IsSeq(Into(mirror))
    BY <1>1 DEF IsSeq
  <2>2. \A f \in DOMAIN files : \E k \in DOMAIN names : names[k] = f
    BY <1>1 DEF ToSet
  <2>3. \A k \in DOMAIN names : names[k] \in DOMAIN files
    BY <1>1 DEF ToSet
  <2>4. ToSet(Into(mirror)) = {<<"copy", <<mirror, names[k]>>, files[names[k]]>> : k \in DOMAIN names}
    BY DEF ToSet
  <2>5. {<<"copy", <<mirror, names[k]>>, files[names[k]]>> : k \in DOMAIN names}
          = {<<"copy", <<mirror, f>>, files[f]>> : f \in DOMAIN files}
    BY <2>2, <2>3
  <2>. QED
    BY <2>1, <2>4, <2>5
<1>. HIDE DEF Into
<1>4. /\ IsSeq(MirrorFiles(files))
      /\ ToSet(MirrorFiles(files)) = ToSet(Into("claude")) \cup ToSet(Into("agents"))
  BY <1>2, <1>3, Joined
<1>5. {<<"copy", <<m, f>>, files[f]>> : m \in Mirrors, f \in DOMAIN files}
        = {<<"copy", <<"claude", f>>, files[f]>> : f \in DOMAIN files}
            \cup {<<"copy", <<"agents", f>>, files[f]>> : f \in DOMAIN files}
  BY DEF Mirrors
<1>. QED
  BY <1>3, <1>4, <1>5

LEMMA MirrorRunStep == IInv /\ MirrorRun => IInv'
<1>. SUFFICES ASSUME IInv, MirrorRun PROVE IInv'
  OBVIOUS
<1>1. job = Idle /\ UNCHANGED <<corpus, sources, skill, disk, ceiling>>
  BY NoJob DEF MirrorRun, IInv, Typed
<1>2. CASE Checked("mirror", ~MirrorStale(skill))
  <2>1. ~MirrorStale(skill) => Seen("mirror")
    BY DEF Seen, MirrorStale
  <2>2. /\ job' = Idle /\ rounds' = 0
        /\ green' = green \/ (green' = green \cup {"mirror"} /\ Seen("mirror"))
    BY <1>2, <2>1 DEF Checked
  <2>3. "mirror" \in Commands
    BY DEF Commands
  <2>. QED
    BY <1>1, <2>2, <2>3, CheckedStep
<1>3. CASE /\ job' = [Idle EXCEPT !.command = "mirror", !.step = "copy",
                                  !.todo = MirrorFiles(skill), !.orphans = OrphanedFiles(skill)]
           /\ UNCHANGED <<green, rounds>>
  <2>1. /\ job'.command = "mirror" /\ job'.step = "copy" /\ job'.todo = MirrorFiles(skill)
        /\ job'.orphans = OrphanedFiles(skill) /\ job'.stale = FALSE
        /\ job'.mode = "write" /\ job'.refreshed = FALSE /\ DOMAIN job' = DOMAIN Idle
    BY <1>3 DEF Idle
  <2>2. IsFiniteSet(DOMAIN skill)
    BY SkillAssumption DEF IInv, Typed, FilesTyped
  <2>3. IsSeq(job'.todo) /\ ToSet(job'.todo) = Goal("mirror")
    BY <2>1, <2>2, MirrorFilesAre DEF Goal
  <2>4. ASSUME NEW item \in Goal("mirror") PROVE ItemTyped("mirror", item)
    BY DEF Goal, ItemTyped, Storable
  <2>5. JobTyped'
    BY <2>1, <2>3, <2>4 DEF JobTyped
  <2>6. Goal("mirror")' = Goal("mirror")
    BY <1>1 DEF Goal
  <2>7. OrphansCurrent'
    BY <1>1, <2>1 DEF OrphansCurrent, OrphanedFiles
  <2>8. JobCurrent'
    BY <2>1, <2>3, <2>6, <2>7 DEF JobCurrent, WriteCurrent
  <2>. QED
    BY <1>1, <1>3, <2>1, <2>5, <2>8, Begun DEF Idle
<1>. QED
  BY <1>2, <1>3 DEF MirrorRun

LEMMA MirrorCopyStep == IInv /\ MirrorCopy => IInv'
<1>. SUFFICES ASSUME IInv, MirrorCopy PROVE IInv'
  OBVIOUS
<1>1. /\ FilesTyped /\ JobTyped /\ CountsTyped /\ JobCurrent /\ Milestones
      /\ DOMAIN job = DOMAIN Idle /\ job.stale \in BOOLEAN /\ job.refreshed \in BOOLEAN
      /\ rounds \in Nat
  BY DEF IInv, Typed, JobTyped, CountsTyped, Documented
<1>2. job.step = "copy" /\ job.todo # <<>> /\ UNCHANGED <<sources, skill, ceiling, rounds>>
  BY DEF MirrorCopy
<1>3. /\ job.command = "mirror" /\ job.mode = "write" /\ IsSeq(job.todo)
      /\ \A item \in ToSet(job.todo) : ItemTyped("mirror", item)
  BY <1>1, <1>2, WritingJob
<1>4. PICK todo, item : todo = job.todo /\ item = todo[1]
  OBVIOUS
<1>5. Put(item[1], item[2], item[3]) /\ job' = [job EXCEPT !.todo = Tail(todo)] /\ green' = {}
  BY <1>4 DEF MirrorCopy, Wrote
<1>6. /\ item \in ToSet(todo) /\ ToSet(todo) = {item} \cup ToSet(Tail(todo)) /\ IsSeq(Tail(todo))
      /\ ItemTyped("mirror", item)
  BY <1>2, <1>3, <1>4, TailItems
<1>7. FilesTyped'
  BY <1>1, <1>2, <1>5, <1>6, PutTyped DEF ItemTyped
<1>8. /\ DOMAIN job' = DOMAIN Idle /\ job'.todo = Tail(todo) /\ job'.stale = job.stale
      /\ job'.refreshed = job.refreshed /\ job'.command = "mirror" /\ job'.step = "copy"
      /\ job'.mode = "write" /\ job'.orphans = job.orphans
  BY <1>1, <1>2, <1>3, <1>5 DEF Idle
<1>9. JobTyped'
  BY <1>1, <1>3, <1>4, <1>6, <1>8 DEF JobTyped
<1>10. ASSUME ~job.stale PROVE item \in Goal("mirror") /\ WriteCurrent' /\ OrphansCurrent'
  <2>1. WriteCurrent /\ OrphansCurrent
    BY <1>1, <1>2, <1>3, <1>10 DEF JobCurrent
  <2>2. item \in Goal("mirror")
    BY <1>3, <1>4, <1>6, <2>1 DEF WriteCurrent
  <2>3. WriteCurrent'
    BY <1>1, <1>2, <1>3, <1>4, <1>5, <1>6, <1>8, <2>1, WriteNearer
  <2>4. PICK m \in Mirrors, f \in DOMAIN skill : item = <<"copy", <<m, f>>, skill[f]>>
    BY <2>2 DEF Goal
  <2>5. disk' = [disk EXCEPT !.copies[m] = With(@, f, skill[f])]
    BY <1>5, <2>4 DEF Put
  <2>6. DOMAIN disk = DiskFiles /\ DOMAIN disk.copies = Mirrors
    BY <1>1 DEF FilesTyped, DiskTyped
  <2>. DEFINE written == With(disk.copies[m], f, skill[f])
  <2>7. DOMAIN written = DOMAIN disk.copies[m] \cup {f}
    BY DEF With
  <2>. HIDE DEF written
  <2>8. disk'.copies = [disk.copies EXCEPT ![m] = written]
    BY <2>5, <2>6 DEF DiskFiles, written
  <2>9. \A l \in Mirrors : DOMAIN disk'.copies[l] \subseteq DOMAIN disk.copies[l] \cup {f}
    BY <2>6, <2>7, <2>8
  <2>10. OrphansCurrent'
    BY <1>2, <1>8, <2>1, <2>9 DEF OrphansCurrent
  <2>. QED
    BY <2>2, <2>3, <2>10
<1>11. JobCurrent'
  BY <1>8, <1>10 DEF JobCurrent
<1>12. CountsTyped'
  BY <1>1, <1>2, <1>5, <1>8 DEF CountsTyped
<1>13. Milestones'
  <2>1. CASE rounds = 0
    BY <1>2, <2>1, MilestonesNone
  <2>2. CASE rounds # 0
    <3>1. item \in Goal("mirror")
      BY <1>1, <1>10, <2>2 DEF CountsTyped
    <3>. QED
      BY <1>1, <1>2, <1>5, <1>6, <3>1, MilestonesWritten
  <2>. QED
    BY <2>1, <2>2
<1>14. ChecksHold'
  BY <1>5, ChecksVoid
<1>. QED
  BY <1>7, <1>9, <1>11, <1>12, <1>13, <1>14 DEF IInv, Typed

LEMMA MirrorUnlinkStep == IInv /\ MirrorUnlink => IInv'
<1>. SUFFICES ASSUME IInv, MirrorUnlink PROVE IInv'
  OBVIOUS
<1>. DEFINE Kept(m) == {g \in DOMAIN disk.copies[m] : <<m, g>> \notin job.orphans}
            Left(m) == [f \in Kept(m) |-> disk.copies[m][f]]
<1>1. /\ FilesTyped /\ JobTyped /\ CountsTyped /\ JobCurrent /\ Milestones
      /\ rounds \in Nat
  BY DEF IInv, Typed, CountsTyped, Documented
<1>2. /\ job.step = "copy" /\ job.todo = <<>> /\ Completed /\ green' = {}
      /\ UNCHANGED <<corpus, sources, skill, ceiling>>
      /\ disk' = [disk EXCEPT !.copies = [m \in Mirrors |->
                     [f \in {g \in DOMAIN @[m] : <<m, g>> \notin job.orphans} |-> @[m][f]]]]
  BY DEF MirrorUnlink, Wrote
<1>3. job.command = "mirror"
  BY <1>1, <1>2, WritingJob
<1>4. DiskTyped(disk)
  BY <1>1 DEF FilesTyped
<1>5. disk' = [disk EXCEPT !.copies = [m \in Mirrors |-> Left(m)]]
  BY <1>2
<1>6. \A m \in Mirrors : DOMAIN Left(m) = Kept(m) /\ IsFcn(Left(m))
  BY DEF IsFcn
<1>. HIDE DEF Left
<1>7. /\ DOMAIN disk' = DiskFiles /\ IsFcn(disk') /\ disk'.copies = [m \in Mirrors |-> Left(m)]
      /\ \A file \in DiskFiles \ {"copies"} : disk'[file] = disk[file]
  BY <1>4, <1>5 DEF DiskTyped, DiskFiles, IsFcn
<1>8. FilesTyped'
  <2>1. DOMAIN disk'.copies = Mirrors /\ IsFcn(disk'.copies) /\ \A m \in Mirrors : IsFcn(disk'.copies[m])
    BY <1>6, <1>7 DEF IsFcn
  <2>2. CensusTyped(disk'.census)
    BY <1>4, <1>7 DEF DiskTyped, DiskFiles
  <2>3. DiskTyped(disk')
    BY <1>7, <2>1, <2>2 DEF DiskTyped
  <2>. QED
    BY <1>1, <1>2, <2>3 DEF FilesTyped
<1>9. JobTyped' /\ JobCurrent' /\ ~job'.stale
  BY <1>2, JobIdle DEF Completed
<1>10. CountsTyped'
  BY <1>1, <1>2, <1>9 DEF CountsTyped, Completed, Documented
<1>11. ASSUME ~job.stale PROVE \A m \in Mirrors : disk'.copies[m] = skill
  <2>1. WriteCurrent /\ OrphansCurrent
    BY <1>1, <1>2, <1>3, <1>11 DEF JobCurrent
  <2>2. ASSUME NEW m \in Mirrors, NEW f \in DOMAIN skill
        PROVE  f \in DOMAIN disk.copies[m] /\ disk.copies[m][f] = skill[f]
    <3>1. <<"copy", <<m, f>>, skill[f]>> \in Goal("mirror")
      BY DEF Goal
    <3>2. Stands(<<"copy", <<m, f>>, skill[f]>>)
      BY <1>2, <1>3, <2>1, <3>1 DEF WriteCurrent, ToSet
    <3>. QED
      BY <3>2 DEF Stands
  <2>3. \A m \in Mirrors : Kept(m) = DOMAIN skill
    BY <2>1, <2>2 DEF OrphansCurrent
  <2>4. IsFcn(skill)
    BY <1>1, SkillAssumption DEF FilesTyped
  <2>5. ASSUME NEW m \in Mirrors PROVE Left(m) = skill
    <3>1. DOMAIN Left(m) = DOMAIN skill /\ \A f \in DOMAIN skill : Left(m)[f] = skill[f]
      BY <2>2, <2>3 DEF Left
    <3>. QED
      BY <1>6, <2>4, <3>1 DEF IsFcn
  <2>. QED
    BY <1>7, <2>5
<1>12. Milestones'
  <2>1. CASE rounds' = 0
    BY <2>1, MilestonesNone
  <2>2. CASE rounds' # 0
    <3>1. /\ ~job.stale /\ rounds' \in {rounds, rounds + 1}
          /\ rounds' # rounds => rounds \in {3, 7}
      <4>1. ~job.stale
        BY <1>1, <1>2, <2>2 DEF CountsTyped, Completed
      <4>2. rounds' # rounds => rounds < 8 /\ rounds' = rounds + 1
                                /\ job.command = Documented[(rounds % 4) + 1]
        BY <1>2 DEF Completed, Documented
      <4>3. rounds' # rounds => rounds \in {0, 1, 2, 3, 4, 5, 6, 7}
        BY <1>1, <4>2
      <4>4. rounds' # rounds => rounds \in {3, 7}
        BY <1>3, <4>2, <4>3 DEF Documented
      <4>. QED
        BY <4>1, <4>2, <4>4
    <3>2. \A m \in Mirrors : disk'.copies[m] = skill'
      BY <1>2, <1>11, <3>1
    <3>3. AllFresh' = AllFresh
      BY <1>2 DEF AllFresh
    <3>4. Done("provenance")' = Done("provenance") /\ Done("graph")' = Done("graph")
      <4>1. disk'.census = disk.census /\ disk'.claims = disk.claims /\ disk'.graph = disk.graph
        BY <1>7 DEF DiskFiles
      <4>2. corpus' = corpus
        BY <1>2
      <4>. QED
        BY <4>1, <4>2 DEF Done, Goal, Stands
    <3>5. Done("index")' = Done("index")
      <4>1. Goal("index")' = Goal("index")
        BY <1>2 DEF Goal
      <4>2. ASSUME NEW goal \in Goal("index") PROVE Stands(goal)' = Stands(goal)
        <5>1. goal[1] \in {"index", "rules", "ledger"}
          BY <4>2, ThreeFiles DEF Goal
        <5>2. (Stands(goal) <=> disk[goal[1]] = goal[3]) /\ (Stands(goal)' <=> disk'[goal[1]] = goal[3])
          BY <5>1 DEF Stands
        <5>3. disk'[goal[1]] = disk[goal[1]]
          BY <1>7, <5>1 DEF DiskFiles
        <5>. QED
          BY <5>1, <5>2, <5>3 DEF Stands
      <4>. QED
        BY <4>1, <4>2 DEF Done
    <3>6. (rounds' >= 1 => rounds >= 1) /\ (rounds' >= 3 => rounds >= 3)
          /\ (rounds' >= 5 => rounds >= 5) /\ (rounds' >= 6 => rounds >= 6)
      BY <1>1, <3>1
    <3>. QED
      BY <1>1, <1>2, <3>2, <3>3, <3>4, <3>5, <3>6 DEF Milestones
  <2>. QED
    BY <2>1, <2>2
<1>13. ChecksHold'
  BY <1>2, ChecksVoid
<1>. QED
  BY <1>8, <1>9, <1>10, <1>12, <1>13 DEF IInv, Typed

-----------------------------------------------------------------------------
(* A kill, which may tear what was being written.                          *)

LEMMA TornDocument ==
    ASSUME FilesTyped, UNCHANGED <<disk, sources, skill>>,
           NEW i \in DOMAIN InitialCorpus.docs, corpus' = [corpus EXCEPT !.docs[i].parses = FALSE]
    PROVE  FilesTyped'
<1>1. /\ "docs" \in DOMAIN corpus /\ i \in DOMAIN corpus.docs /\ DocumentAt(i, corpus.docs[i])
      /\ CorpusTyped(corpus)
  BY CorpusAssumption DEF FilesTyped, CorpusTyped, DocsTyped
<1>. DEFINE torn == [corpus.docs[i] EXCEPT !.parses = FALSE]
<1>2. corpus' = [corpus EXCEPT !.docs = [corpus.docs EXCEPT ![i] = torn]]
  BY <1>1
<1>3. DocumentAt(i, torn)
  BY <1>1 DEF DocumentAt, IsDocument
<1>. HIDE DEF torn
<1>4. DocsTyped([corpus.docs EXCEPT ![i] = torn])
  BY <1>1, <1>3 DEF CorpusTyped, DocsTyped, IsFcn
<1>5. CorpusTyped(corpus')
  <2>1. corpus'.docs = [corpus.docs EXCEPT ![i] = torn] /\ corpus'.registry = corpus.registry
    BY <1>1, <1>2, CorpusAssumption DEF CorpusTyped
  <2>2. IsFcn(corpus') /\ DOMAIN corpus' = DOMAIN corpus
    BY <1>2 DEF IsFcn
  <2>. QED
    BY <1>1, <1>4, <2>1, <2>2 DEF CorpusTyped
<1>. QED
  BY <1>5 DEF FilesTyped

LEMMA KillStep == IInv /\ Kill => IInv'
<1>. SUFFICES ASSUME IInv, Kill PROVE IInv'
  OBVIOUS
<1>1. /\ FilesTyped /\ JobTyped /\ CountsTyped /\ ChecksHold
  BY DEF IInv, Typed
<1>2. /\ job.step \in {"rewrite", "write", "copy"} /\ job' = Idle /\ rounds' = 0
      /\ UNCHANGED <<sources, skill, ceiling>>
  BY DEF Kill
<1>3. CASE UNCHANGED <<corpus, disk, green>>
  <2>1. green' \subseteq Commands /\ \A command \in green' : command \in green
    BY <1>1, <1>3 DEF CountsTyped
  <2>. QED
    BY <1>2, <1>3, <2>1, Ended
<1>4. CASE FilesTyped' /\ green' = {}
  <2>1. JobTyped' /\ JobCurrent' /\ ~job'.stale
    BY <1>2, JobIdle
  <2>2. CountsTyped' /\ Milestones' /\ ChecksHold'
    BY <1>2, <1>4, <2>1, MilestonesNone, ChecksVoid DEF CountsTyped, Documented
  <2>. QED
    BY <1>4, <2>1, <2>2 DEF IInv, Typed
<1>5. CASE /\ job.step # "rewrite" /\ job.todo # <<>> /\ job.todo[1][1] # "document"
           /\ Put(job.todo[1][1], job.todo[1][2], Torn) /\ Wrote
  <2>1. IsSeq(job.todo) /\ \A item \in ToSet(job.todo) : ItemTyped(job.command, item)
    BY <1>1, <1>2, <1>5, WritingJob
  <2>2. ItemTyped(job.command, job.todo[1])
    BY <1>5, <2>1, TailItems
  <2>3. PICK target, at : target = job.todo[1][1] /\ at = job.todo[1][2]
    OBVIOUS
  <2>4. Storable(target, at, Torn)
    BY <1>5, <2>2, <2>3 DEF ItemTyped, Storable, CensusTyped
  <2>5. FilesTyped'
    BY <1>1, <1>2, <1>5, <2>3, <2>4, PutTyped
  <2>. QED
    BY <1>4, <1>5, <2>5 DEF Wrote
<1>6. CASE /\ job.step = "write" /\ job.todo # <<>> /\ job.todo[1][1] = "document"
           /\ corpus' = [corpus EXCEPT !.docs[job.todo[1][2]].parses = FALSE]
           /\ Wrote /\ UNCHANGED disk
  <2>1. IsSeq(job.todo) /\ \A item \in ToSet(job.todo) : ItemTyped(job.command, item)
    BY <1>1, <1>6, WritingJob
  <2>2. ItemTyped(job.command, job.todo[1])
    BY <1>6, <2>1, TailItems
  <2>3. PICK i : i = job.todo[1][2]
    OBVIOUS
  <2>4. i \in DOMAIN InitialCorpus.docs
    BY <1>6, <2>2, <2>3 DEF ItemTyped, Storable
  <2>5. FilesTyped'
    BY <1>1, <1>2, <1>6, <2>3, <2>4, TornDocument
  <2>. QED
    BY <1>4, <1>6, <2>5 DEF Wrote
<1>7. CASE /\ job.step = "rewrite"
           /\ corpus' = [corpus EXCEPT !.docs[job.todo[1]].parses = FALSE]
           /\ Wrote /\ UNCHANGED disk
  <2>1. job.command = "index"
    BY <1>1, <1>7 DEF JobTyped, Idle
  <2>2. PICK a \in 0..Len(InitialCorpus.docs) : Refreshing(a)
    BY <1>1, <1>7, <2>1, Position
  <2>3. job.todo = RestOf(a) /\ a < Len(InitialCorpus.docs)
    BY <1>7, <2>2 DEF Refreshing
  <2>4. job.todo[1] = a + 1 /\ a + 1 \in DOMAIN InitialCorpus.docs
    BY <2>3, RestTail, DocCount
  <2>5. FilesTyped'
    BY <1>1, <1>2, <1>7, <2>4, TornDocument
  <2>. QED
    BY <1>4, <1>7, <2>5 DEF Wrote
<1>. QED
  BY <1>3, <1>5, <1>6, <1>7 DEF Kill

-----------------------------------------------------------------------------
(* The theorems.                                                           *)

LEMMA StutterStep == IInv /\ UNCHANGED vars => IInv'
<1>. SUFFICES ASSUME IInv, UNCHANGED vars PROVE IInv'
  OBVIOUS
<1>1. UNCHANGED <<corpus, sources, skill, disk, ceiling, job, green, rounds>>
  BY DEF vars
<1>2. JobTyped' /\ JobCurrent'
  BY <1>1, JobKept DEF IInv, Typed
<1>. QED
  BY <1>1, <1>2, Begun

\* The inductive invariant holds of every behaviour: a command no edit has overtaken has
\* written, or is about to write, what its files have to be now, and the rounds and the
\* checks remember only what still holds.
THEOREM SpecIInv == Spec => []IInv
<1>1. IInv /\ [Next]_vars => IInv'
  BY IndexBeginStep, IndexMeasureStep, IndexRewriteStep, IndexRenderStep, GraphRunStep,
     ExtractRunStep, ProvenanceRunStep, ValidateRunStep, MirrorRunStep, MirrorCopyStep,
     MirrorUnlinkStep, WriteStep, UpdateBaselineStep, EditDocumentStep, EditRegistryStep,
     EditEnforcementStep, EditSourcesStep, EditSkillStep, KillStep, StutterStep
     DEF Next
<1>. QED
  BY <1>1, InitIInv, PTL DEF Spec

\* Files that are all the goals of their commands are settled.
LEMMA GoalsSettled ==
    ASSUME FilesTyped, AllFresh, Buildable(corpus), Done("index"), Done("graph"), Done("provenance"),
           \A m \in Mirrors : disk.copies[m] = skill
    PROVE  Settled
<1>1. ASSUME NEW i \in DOMAIN corpus.docs, corpus.docs[i].parses, corpus.docs[i].tokens # None
      PROVE  corpus.docs[i].tokens - CountTokens(corpus.docs[i].length) \in -2..2
  <2>1. DocumentAt(i, corpus.docs[i]) /\ ~TokensStale(corpus.docs[i])
    BY <1>1 DEF FilesTyped, CorpusTyped, DocsTyped, AllFresh, Fresh
  <2>. DEFINE tokens == corpus.docs[i].tokens
              count  == CountTokens(corpus.docs[i].length)
  <2>2. tokens \in Nat /\ count \in Nat
    BY <1>1, <2>1, TokensNat DEF DocumentAt, IsDocument
  <2>3. ~(tokens > count + 2) /\ ~(count > tokens + 2)
    BY <2>1 DEF TokensStale
  <2>. HIDE DEF tokens, count
  <2>4. tokens - count \in -2..2
    BY <2>2, <2>3
  <2>. QED
    BY <2>4 DEF tokens, count
<1>2. ASSUME NEW k \in 1..3 PROVE disk[IndexFiles(corpus)[k][1]] = IndexFiles(corpus)[k][2]
  <2>1. Stands(<<IndexFiles(corpus)[k][1], None, IndexFiles(corpus)[k][2]>>)
    BY DEF Done, Goal
  <2>2. IndexFiles(corpus)[k][1] \in {"index", "rules", "ledger"}
    BY ThreeFiles
  <2>. QED
    BY <2>1, <2>2 DEF Stands
<1>3. disk.graph = Build(corpus)
  <2>1. Stands(<<"graph", None, Build(corpus)>>)
    BY DEF Done, Goal
  <2>. QED
    BY <2>1 DEF Stands
<1>4. corpus.docs[PA] = RenderProvenance(disk.census) /\ disk.claims = ClaimLedger(disk.census)
  <2>1. /\ Stands(<<"document", PA, RenderProvenance(disk.census)>>)
        /\ Stands(<<"claims", None, ClaimLedger(disk.census)>>)
    BY DEF Done, Goal
  <2>. QED
    BY <2>1 DEF Stands
<1>5. ProvenanceAt = PA
  BY ProvenanceFound DEF FilesTyped
<1>. QED
  BY <1>1, <1>2, <1>3, <1>4, <1>5 DEF Settled

\* When every check passed and nothing was written since the first of them, the tree is
\* settled, its census is of the sources and every document parses: whatever edits, kills
\* and half-written files came before, and wherever the checks fell among them.
THEOREM ChecksSettle == Spec => []GreenIsSettled
<1>1. IInv => GreenIsSettled
  <2>1. ASSUME IInv, green = Commands PROVE Settled /\ disk.census = Census(sources) /\ Unparsable(corpus) = {}
    <3>1. \A command \in Commands : Seen(command)
      BY <2>1 DEF IInv, ChecksHold
    <3>2. NoneStale /\ Buildable(corpus) /\ Done("index")
      BY <3>1 DEF Seen, Commands
    <3>3. /\ Done("graph") /\ Done("provenance") /\ disk.census = Census(sources)
          /\ \A m \in Mirrors : disk.copies[m] = skill
          /\ Errors(Findings(corpus, disk.graph, ceiling)) = {}
      BY <3>1 DEF Seen, Commands
    <3>4. AllFresh
      BY <3>2 DEF NoneStale, AllFresh, Fresh
    <3>5. Settled
      BY <2>1, <3>2, <3>3, <3>4, GoalsSettled DEF IInv, Typed
    <3>6. Unparsable(corpus) = {}
      <4>1. \A doc \in Unparsable(corpus) : <<"V001", doc.path>> \in Findings(corpus, disk.graph, ceiling)
        BY DEF Findings
      <4>2. \A doc \in Unparsable(corpus) : <<"V001", doc.path>> \in Errors(Findings(corpus, disk.graph, ceiling))
        BY <4>1 DEF Errors, WarningCodes
      <4>. QED
        BY <3>3, <4>2
    <3>. QED
      BY <3>3, <3>5, <3>6
  <2>. QED
    BY <2>1 DEF GreenIsSettled
<1>. QED
  BY <1>1, SpecIInv, PTL

\* Two rounds of the four documented build commands settle the tree, whatever they were
\* begun from and however long a stale or torn file had stood.
THEOREM RoundsSettle == Spec => []TwoRoundsSettle
<1>1. IInv => TwoRoundsSettle
  <2>1. ASSUME IInv, rounds = 2 * Len(Documented) PROVE Settled
    <3>1. rounds = 8
      BY <2>1 DEF Documented
    <3>. QED
      BY <2>1, <3>1, GoalsSettled DEF IInv, Typed, Milestones
  <2>. QED
    BY <2>1 DEF TwoRoundsSettle
<1>. QED
  BY <1>1, SpecIInv, PTL

-----------------------------------------------------------------------------
(* What the parser reads out of the documents.                             *)

LEMMA SetInduction ==
    ASSUME NEW S, 0 \in S, \A n \in Nat : n \in S => n + 1 \in S
    PROVE  Nat \subseteq S
<1>. DEFINE T == Nat \ S
<1>1. ASSUME T # {} PROVE FALSE
  <2>1. PICK x \in T : \A y \in T : x <= y
    <3>1. T \subseteq Nat
      OBVIOUS
    <3>. HIDE DEF T
    <3>. QED
      BY <1>1, <3>1, NatMin
  <2>2. x # 0 /\ x \in Nat
    OBVIOUS
  <2>3. x - 1 \in Nat /\ x - 1 \notin T
    BY <2>1, <2>2
  <2>. QED
    BY <2>2, <2>3
<1>. QED
  BY <1>1

\* f joins the first sequences of seqs, one after the other.
Joins(f, seqs, n) == f = [i \in 1..n |-> IF i = 1 THEN seqs[i] ELSE f[i-1] \o seqs[i]]

LEMMA JoinsExist ==
    ASSUME NEW seqs, NEW m \in Nat
    PROVE  \E f : Joins(f, seqs, m)
<1>. DEFINE S == {n \in Nat : \E f : Joins(f, seqs, n)}
<1>1. 0 \in S
  <2>1. Joins([i \in 1..0 |-> 0], seqs, 0)
    BY DEF Joins
  <2>. QED
    BY <2>1
<1>2. ASSUME NEW n \in Nat, n \in S PROVE n + 1 \in S
  <2>1. PICK f : Joins(f, seqs, n)
    BY <1>2
  <2>. DEFINE last == IF n = 0 THEN seqs[1] ELSE f[n] \o seqs[n+1]
              h == [i \in 1..n+1 |-> IF i = n + 1 THEN last ELSE f[i]]
  <2>2. \A i \in 1..n : f[i] = IF i = 1 THEN seqs[i] ELSE f[i-1] \o seqs[i]
    BY <2>1 DEF Joins
  <2>3. ASSUME NEW i \in 1..n+1 PROVE h[i] = IF i = 1 THEN seqs[i] ELSE h[i-1] \o seqs[i]
    <3>1. CASE i = 1
      BY <2>2, <3>1
    <3>2. CASE i # 1
      <4>1. i - 1 \in 1..n /\ i - 1 # n + 1 /\ i - 1 \in 1..n+1
        BY <3>2
      <4>2. h[i-1] = f[i-1]
        BY <4>1
      <4>3. CASE i = n + 1
        <5>1. n # 0 /\ i - 1 = n
          BY <3>2, <4>3
        <5>. QED
          BY <3>2, <4>2, <4>3, <5>1
      <4>4. CASE i # n + 1
        <5>1. i \in 1..n
          BY <4>4
        <5>2. h[i] = f[i] /\ f[i] = f[i-1] \o seqs[i]
          BY <2>2, <3>2, <4>4, <5>1
        <5>. QED
          BY <3>2, <4>2, <5>2
      <4>. QED
        BY <4>3, <4>4
    <3>. QED
      BY <3>1, <3>2
  <2>4. Joins(h, seqs, n + 1)
    <3>1. h = [i \in 1..n+1 |-> h[i]]
      OBVIOUS
    <3>. HIDE DEF h
    <3>. QED
      BY <2>3, <3>1 DEF Joins
  <2>. QED
    BY <2>4
<1>3. m \in S
  <2>. HIDE DEF S
  <2>. QED
    BY <1>1, <1>2, SetInduction
<1>. QED
  BY <1>3

\* Sequences of elements of a set, joined, are such a sequence.
LEMMA FlattenInSeq ==
    ASSUME NEW S, NEW seqs, IsSeq(seqs), \A i \in 1..Len(seqs) : seqs[i] \in Seq(S)
    PROVE  FlattenSeq(seqs) \in Seq(S)
<1>. DEFINE n == Len(seqs)
            G(f) == f = [i \in 1..n |-> IF i = 1 THEN seqs[i] ELSE f[i-1] \o seqs[i]]
            join == CHOOSE f : G(f)
<1>1. n \in Nat /\ seqs = [i \in 1..n |-> seqs[i]]
  BY DEF IsSeq
<1>2. FlattenSeq(seqs) = IF n = 0 THEN seqs ELSE join[n]
  BY DEF FlattenSeq
<1>3. G(join)
  <2>1. PICK f : Joins(f, seqs, n)
    BY <1>1, JoinsExist
  <2>2. G(f)
    BY <2>1 DEF Joins
  <2>. HIDE DEF G
  <2>. QED
    BY <2>2
<1>4. \A i \in 1..n : join[i] = IF i = 1 THEN seqs[i] ELSE join[i-1] \o seqs[i]
  BY <1>3
<1>. HIDE DEF join
<1>5. CASE n = 0
  BY <1>1, <1>2, <1>5
<1>6. CASE n # 0
  <2>. DEFINE T == {i \in Nat : i \in 1..n => join[i] \in Seq(S)}
  <2>1. 0 \in T
    BY <1>1
  <2>2. ASSUME NEW i \in Nat, i \in T PROVE i + 1 \in T
    <3>. SUFFICES ASSUME i + 1 \in 1..n PROVE join[i+1] \in Seq(S)
      OBVIOUS
    <3>1. CASE i = 0
      BY <1>4, <3>1
    <3>2. CASE i # 0
      <4>1. join[i] \in Seq(S) /\ seqs[i+1] \in Seq(S)
        BY <1>1, <2>2, <3>2
      <4>2. i + 1 # 1 /\ (i + 1) - 1 = i
        BY <3>2
      <4>3. join[i+1] = join[(i+1)-1] \o seqs[i+1]
        BY <1>4, <4>2
      <4>. QED
        BY <4>1, <4>2, <4>3
    <3>. QED
      BY <3>1, <3>2
  <2>3. n \in T
    <3>. HIDE DEF T
    <3>. QED
      BY <1>1, <2>1, <2>2, SetInduction
  <2>. QED
    BY <1>1, <1>2, <1>6, <2>3
<1>. QED
  BY <1>5, <1>6

LEMMA ChainInSeq ==
    ASSUME NEW S, NEW seqs, IsSeq(seqs), \A i \in 1..Len(seqs) : seqs[i] \in Seq(S)
    PROVE  Chain(seqs) \in Seq(S)
<1>. DEFINE T == {seqs[i] : i \in 1..Len(seqs)}
            t == <<>> \o seqs
<1>1. seqs \in Seq(T) /\ DOMAIN seqs = 1..Len(seqs)
  BY IsSeqSeq
<1>. HIDE DEF T
<1>2. t \in Seq(T) /\ Len(t) = Len(seqs) /\ \A i \in 1..Len(seqs) : t[i] = seqs[i]
  BY <1>1
<1>. HIDE DEF t
<1>3. IsSeq(t) /\ \A i \in 1..Len(t) : t[i] \in Seq(S)
  BY <1>2, SeqIsSeq
<1>4. FlattenSeq(t) \in Seq(S)
  BY <1>3, FlattenInSeq
<1>. QED
  BY <1>4 DEF Chain, t

\* A part of a sequence, each element kept or dropped.
LEMMA KeptInSeq ==
    ASSUME NEW s, s \in Seq(ToSet(s)), NEW parts, parts = [i \in DOMAIN s |-> parts[i]],
           \A i \in DOMAIN s : parts[i] \in {<<s[i]>>, <<>>}
    PROVE  Chain(parts) \in Seq(ToSet(s))
<1>. DEFINE S == ToSet(s)
<1>1. \A i \in DOMAIN s : s[i] \in S
  BY DEF ToSet
<1>. HIDE DEF S
<1>2. DOMAIN s = 1..Len(s) /\ Len(s) \in Nat
  BY DEF S
<1>3. IsSeq(parts) /\ Len(parts) = Len(s)
  BY <1>2 DEF IsSeq
<1>4. ASSUME NEW i \in 1..Len(parts) PROVE parts[i] \in Seq(S)
  <2>1. i \in DOMAIN s /\ s[i] \in S
    BY <1>1, <1>2, <1>3
  <2>2. <<s[i]>> \in Seq(S) /\ <<>> \in Seq(S)
    BY <2>1
  <2>. QED
    BY <2>1, <2>2
<1>5. Chain(parts) \in Seq(S)
  BY <1>3, <1>4, ChainInSeq
<1>. QED
  BY <1>5 DEF S

\* A heading's mechanisms are a sequence.
LEMMA MechanismsInSeq ==
    ASSUME NEW doc, NEW h, h.tags \in Seq(ToSet(h.tags))
    PROVE  RuleOf(doc, h).mechanisms \in Seq(ToSet(h.tags))
<1>. DEFINE parts == [i \in DOMAIN h.tags |-> IF ~IsForce(h.tags[i]) THEN <<h.tags[i]>> ELSE <<>>]
<1>1. RuleOf(doc, h).mechanisms = Chain(parts)
  BY DEF RuleOf, Those
<1>2. parts = [i \in DOMAIN h.tags |-> parts[i]] /\ \A i \in DOMAIN h.tags : parts[i] \in {<<h.tags[i]>>, <<>>}
  OBVIOUS
<1>. HIDE DEF parts
<1>. QED
  BY <1>1, <1>2, KeptInSeq

\* The rules of a document are rules of its headings.
LEMMA RulesOfDocument ==
    ASSUME NEW doc, doc.headings \in Seq(ToSet(doc.headings))
    PROVE  ParseRules(doc) \in Seq({RuleOf(doc, h) : h \in ToSet(doc.headings)})
<1>. DEFINE s == doc.headings
            S == ToSet(s)
            IsRule(h) == ~h.fenced /\ ForceFromTags(h.tags) # None
            parts == [i \in DOMAIN s |-> IF IsRule(s[i]) THEN <<s[i]>> ELSE <<>>]
            found == Chain(parts)
            R == {RuleOf(doc, h) : h \in S}
<1>1. ParseRules(doc) = [i \in DOMAIN found |-> RuleOf(doc, found[i])]
  BY DEF ParseRules, Those
<1>2. found \in Seq(S)
  <2>1. parts = [i \in DOMAIN s |-> parts[i]] /\ \A i \in DOMAIN s : parts[i] \in {<<s[i]>>, <<>>}
    OBVIOUS
  <2>. HIDE DEF parts
  <2>. QED
    BY <2>1, KeptInSeq
<1>. HIDE DEF found, S
<1>3. \A i \in 1..Len(found) : RuleOf(doc, found[i]) \in R
  BY <1>2
<1>. HIDE DEF R
<1>4. [i \in DOMAIN found |-> RuleOf(doc, found[i])] \in Seq(R)
  BY <1>2, <1>3
<1>. QED
  BY <1>1, <1>4 DEF R, S

\* What the parser makes of the documents: a sequence of rules, each with a sequence of
\* mechanisms.
LEMMA RulesInSeq ==
    ASSUME NEW c, CorpusTyped(c)
    PROVE  /\ IsSeq(Rules(Documents(c)))
           /\ \A rule \in ToSet(Rules(Documents(c))) : IsSeq(rule.mechanisms)
<1>. DEFINE D == ToSet(c.docs)
            parts == [i \in DOMAIN c.docs |-> IF c.docs[i].parses THEN <<c.docs[i]>> ELSE <<>>]
            docs == Documents(c)
            Of(doc) == {RuleOf(doc, h) : h \in ToSet(doc.headings)}
            R == UNION {Of(doc) : doc \in D}
            rules == [i \in DOMAIN docs |-> ParseRules(docs[i])]
<1>1. c.docs \in Seq(D) /\ \A doc \in D : IsDocument(doc)
  <2>1. /\ c.docs = [i \in 1..Len(InitialCorpus.docs) |-> c.docs[i]]
        /\ DOMAIN c.docs = 1..Len(InitialCorpus.docs) /\ Len(InitialCorpus.docs) \in Nat
        /\ \A i \in DOMAIN c.docs : IsDocument(c.docs[i])
    BY DocCount DEF CorpusTyped, DocsTyped, DocumentAt, IsFcn
  <2>2. D = {c.docs[i] : i \in DOMAIN c.docs}
    BY DEF ToSet
  <2>. HIDE DEF D
  <2>3. \A i \in DOMAIN c.docs : c.docs[i] \in D
    BY <2>2
  <2>4. c.docs \in Seq(D)
    <3>. DEFINE n == Len(InitialCorpus.docs)
    <3>1. c.docs \in [1..n -> D] /\ n \in Nat
      BY <2>1, <2>3
    <3>. HIDE DEF n
    <3>. QED
      BY <3>1
  <2>5. ASSUME NEW doc \in D PROVE IsDocument(doc)
    <3>1. PICK i \in DOMAIN c.docs : doc = c.docs[i]
      BY <2>2
    <3>. QED
      BY <2>1, <3>1
  <2>. QED
    BY <2>4, <2>5
<1>2. docs \in Seq(D)
  <2>1. docs = Chain(parts)
    BY DEF Documents, Those
  <2>2. /\ parts = [i \in DOMAIN c.docs |-> parts[i]]
        /\ \A i \in DOMAIN c.docs : parts[i] \in {<<c.docs[i]>>, <<>>}
    OBVIOUS
  <2>. HIDE DEF parts
  <2>. QED
    BY <1>1, <2>1, <2>2, KeptInSeq
<1>. HIDE DEF docs, D
<1>3. \A doc \in D : ParseRules(doc) \in Seq(R)
  <2>. SUFFICES ASSUME NEW doc \in D PROVE ParseRules(doc) \in Seq(R)
    OBVIOUS
  <2>1. ParseRules(doc) \in Seq(Of(doc))
    BY <1>1, RulesOfDocument DEF IsDocument
  <2>2. Of(doc) \subseteq R
    OBVIOUS
  <2>. HIDE DEF Of, R
  <2>. QED
    BY <2>1, <2>2
<1>4. IsSeq(rules) /\ \A i \in 1..Len(rules) : rules[i] \in Seq(R)
  <2>1. DOMAIN docs = 1..Len(docs) /\ Len(docs) \in Nat /\ \A i \in 1..Len(docs) : docs[i] \in D
    BY <1>2
  <2>. HIDE DEF R
  <2>2. Len(rules) = Len(docs) /\ IsSeq(rules)
    BY <2>1 DEF IsSeq
  <2>. QED
    BY <1>3, <2>1, <2>2
<1>5. Chain(rules) \in Seq(R)
  <2>. HIDE DEF rules, R
  <2>. QED
    BY <1>4, ChainInSeq
<1>6. Rules(Documents(c)) \in Seq(R)
  BY <1>5 DEF Rules, docs
<1>7. \A rule \in R : IsSeq(rule.mechanisms)
  <2>. SUFFICES ASSUME NEW doc \in D, NEW h \in ToSet(doc.headings)
                PROVE  IsSeq(RuleOf(doc, h).mechanisms)
    OBVIOUS
  <2>1. h.tags \in Seq(ToSet(h.tags))
    BY <1>1 DEF IsDocument
  <2>. QED
    BY <2>1, MechanismsInSeq, SeqIsSeq
<1>. HIDE DEF R
<1>8. \A rule \in ToSet(Rules(Documents(c))) : rule \in R
  BY <1>6 DEF ToSet
<1>. QED
  BY <1>6, <1>7, <1>8, SeqIsSeq

-----------------------------------------------------------------------------
(* What a corpus without errors says of its rules.                         *)

\* A finding that is no error is a warning.
LEMMA NoErrors ==
    ASSUME NEW c, NEW file, NEW n, Errors(Findings(c, file, n)) = {}
    PROVE  /\ \A f \in CheckRules(Documents(c), Rules(Documents(c))) : f[1] \in WarningCodes
           /\ \A f \in CheckEvidence(Rules(Documents(c)), c) : f[1] \in WarningCodes
<1>1. \A f \in Findings(c, file, n) : f[1] \in WarningCodes
  BY DEF Errors
<1>2. /\ CheckRules(Documents(c), Rules(Documents(c))) \subseteq Findings(c, file, n)
      /\ CheckEvidence(Rules(Documents(c)), c) \subseteq Findings(c, file, n)
  BY Zenon DEF Findings
<1>. QED
  BY <1>1, <1>2

\* No error about the evidence: the registry is read, every rule has a record, and nothing
\* in it disagrees with the heading.
LEMMA EvidenceSound ==
    ASSUME NEW c, NEW file, NEW n, Errors(Findings(c, file, n)) = {}
    PROVE  /\ Buildable(c) /\ LoadEvidence(c.registry) = c.registry /\ c.registry \notin {None, Unknown}
           /\ \E W, O : \A id \in RuleIds(Rules(Documents(c))) :
                RecordFindings(RuleNamed(Rules(Documents(c)), id), c.registry[id], W, O)
                  \cap {"E004", "E005", "E006", "E010"} = {}
<1>. DEFINE rules == Rules(Documents(c))
            registry == LoadEvidence(c.registry)
            O == LoadObservations(c.observed)
            witnesses == DiscriminationWitnesses(c)
            W == IF witnesses = Unknown THEN {} ELSE witnesses
<1>1. \A f \in CheckEvidence(rules, c) : f[1] \in WarningCodes
  BY NoErrors
<1>2. "V100" \notin WarningCodes /\ "V109" \notin WarningCodes /\ "V101" \notin WarningCodes
      /\ "V104" \notin WarningCodes /\ "V105" \notin WarningCodes /\ "V108" \notin WarningCodes
  BY DEF WarningCodes
<1>3. registry # Malformed
  BY <1>1, <1>2 DEF CheckEvidence
<1>4. CheckEvidence(rules, c) =
        When(O = Malformed, "V109", "observations")
          \cup {<<EvidenceCode[f[1]], f[2]>> : f \in ValidateEvidence(registry, rules, W, O)}
  BY <1>3 DEF CheckEvidence
<1>5. O # Malformed
  <2>. SUFFICES ASSUME O = Malformed PROVE FALSE
    OBVIOUS
  <2>1. <<"V109", "observations">> \in When(O = Malformed, "V109", "observations")
    BY DEF When
  <2>2. <<"V109", "observations">> \in CheckEvidence(rules, c)
    BY <1>4, <2>1
  <2>3. <<"V109", "observations">>[1] \in WarningCodes
    BY <1>1, <2>2
  <2>. QED
    BY <1>2, <2>3
<1>6. c.registry \notin {None, Unknown} /\ registry = c.registry
  BY <1>3 DEF LoadEvidence
<1>. HIDE DEF rules, registry, W, O
<1>7. \A f \in ValidateEvidence(registry, rules, W, O) : EvidenceCode[f[1]] \in WarningCodes
  <2>. SUFFICES ASSUME NEW f \in ValidateEvidence(registry, rules, W, O) PROVE EvidenceCode[f[1]] \in WarningCodes
    OBVIOUS
  <2>1. <<EvidenceCode[f[1]], f[2]>> \in CheckEvidence(rules, c)
    BY <1>4
  <2>2. <<EvidenceCode[f[1]], f[2]>>[1] \in WarningCodes
    BY <1>1, <2>1
  <2>. QED
    BY <2>2
<1>8. \A code \in {"E001", "E004", "E005", "E006", "E010"} : EvidenceCode[code] \notin WarningCodes
  BY <1>2 DEF EvidenceCode
<1>9. RuleIds(rules) \subseteq DOMAIN registry
  <2>. SUFFICES ASSUME NEW id \in RuleIds(rules) \ DOMAIN registry PROVE FALSE
    OBVIOUS
  <2>1. <<"E001", id>> \in ValidateEvidence(registry, rules, W, O)
    BY DEF ValidateEvidence
  <2>. QED
    BY <1>7, <1>8, <2>1
<1>10. ASSUME NEW id \in RuleIds(rules)
       PROVE  RecordFindings(RuleNamed(rules, id), registry[id], W, O) \cap {"E004", "E005", "E006", "E010"} = {}
  <2>. SUFFICES ASSUME NEW code \in RecordFindings(RuleNamed(rules, id), registry[id], W, O),
                       code \in {"E004", "E005", "E006", "E010"}
                PROVE  FALSE
    OBVIOUS
  <2>1. <<code, id>> \in ValidateEvidence(registry, rules, W, O)
    BY <1>9 DEF ValidateEvidence
  <2>. QED
    BY <1>7, <1>8, <2>1
<1>. QED
  BY <1>3, <1>5, <1>6, <1>9, <1>10 DEF Buildable, rules, registry, O

\* No error about the rules: no two have the same id, so the one an id names is that rule.
LEMMA RuleFound ==
    ASSUME NEW c, NEW file, NEW n, Errors(Findings(c, file, n)) = {},
           IsSeq(Rules(Documents(c))), NEW rule \in ToSet(Rules(Documents(c)))
    PROVE  rule.id \in RuleIds(Rules(Documents(c))) /\ RuleNamed(Rules(Documents(c)), rule.id) = rule
<1>. DEFINE docs == Documents(c)
            rules == Rules(docs)
            I == {i \in 1..Len(rules) : rules[i].id = rule.id}
<1>1. \A f \in CheckRules(docs, rules) : f[1] \in WarningCodes
  BY NoErrors
<1>2. \A i \in DOMAIN rules : \A j \in 1..i - 1 : rules[j].id # rules[i].id
  <2>. SUFFICES ASSUME NEW i \in DOMAIN rules, NEW j \in 1..i - 1, rules[j].id = rules[i].id PROVE FALSE
    OBVIOUS
  <2>1. <<"V020", rules[i].id>> \in CheckRules(docs, rules)
    BY DEF CheckRules
  <2>. QED
    BY <1>1, <2>1 DEF WarningCodes
<1>3. DOMAIN rules = 1..Len(rules) /\ Len(rules) \in Nat
  BY DEF IsSeq
<1>4. PICK at \in 1..Len(rules) : rules[at] = rule
  BY <1>3 DEF ToSet
<1>5. RuleNamed(rules, rule.id) = rules[IF I # {} THEN Max(I) ELSE 0]
  BY DEF RuleNamed, SelectLastInSeq
<1>6. rule.id \in RuleIds(rules)
  BY DEF RuleIds
<1>. HIDE DEF rules
<1>7. I = {at}
  <2>. SUFFICES ASSUME NEW i \in 1..Len(rules), rules[i].id = rule.id, i # at PROVE FALSE
    BY <1>4
  <2>1. i < at \/ at < i
    BY <1>3
  <2>2. i \in 1..at - 1 \/ at \in 1..i - 1
    BY <1>3, <2>1
  <2>. QED
    BY <1>2, <1>3, <1>4, <2>2
<1>8. Max({at}) = at
  BY <1>4 DEF Max
<1>. QED
  BY <1>4, <1>5, <1>6, <1>7, <1>8 DEF rules

\* What a rule's mechanisms say of it and what its record says, when the two agree on the
\* mechanisms and each strategy is of a kind its mechanism can have.
Agree(rule, record, e) ==
    LET state    == VerificationState(rule, record, e)
        enforced == EnforcementOf(rule.mechanisms, e, rule.id)
    IN  /\ (state = "retired") <=> (rule.force = "RETIRED")
        /\ (state = "unbuilt") <=> (enforced = "unbuilt")
        /\ (state = "local-verifier") <=> (enforced = "mechanized")
        /\ (state = "structured-review") <=> (enforced = "review")
        /\ (state \in {"retired", "undeclared"}) <=> (enforced = "unmechanized")
        /\ (state \in {"external-verifier", "mixed-verifiers"}) <=> (enforced = "external")

Local == {"static", "behavioral", "generated-drift"}

\* What decides a mechanism, and the kinds a strategy for it may have.
LEMMA KindsDecide ==
    ASSUME NEW m, NEW e, NEW id, NEW kind, kind \in ExpectedKind(m)
    PROVE  \/ kind \in Local /\ m # Review /\ MechanismIsImplemented(m, e, id) \in {"yes", "no"}
           \/ kind = "tool" /\ m # Review /\ MechanismIsImplemented(m, e, id) = "undecided"
           \/ kind = "structured-review" /\ m = Review /\ MechanismIsImplemented(m, e, id) = "undecided"
<1>1. m = Review => m.family = "review"
  <2>1. Review.family = "review"
    BY DEF Review
  <2>. QED
    BY <2>1
<1>2. CASE m.family = "check"
  BY <1>1, <1>2 DEF ExpectedKind, MechanismIsImplemented, Local
<1>3. CASE m.family = "fitness"
  BY <1>1, <1>3 DEF ExpectedKind, MechanismIsImplemented, Local
<1>4. CASE m.family = "auto"
  BY <1>1, <1>4 DEF ExpectedKind, MechanismIsImplemented
<1>5. CASE m = Review
  BY <1>1, <1>5 DEF ExpectedKind, MechanismIsImplemented
<1>6. CASE m.family \notin {"check", "fitness", "auto"} /\ m # Review
  BY <1>6 DEF ExpectedKind
<1>. QED
  BY <1>2, <1>3, <1>4, <1>5, <1>6

LEMMA RecordAgrees ==
    ASSUME NEW rule, NEW record, NEW e, IsSeq(rule.mechanisms), IsSeq(record.strategies),
           ToSet(rule.mechanisms) = {s.mechanism : s \in ToSet(record.strategies)},
           \A s \in ToSet(record.strategies) : s.kind \in ExpectedKind(s.mechanism),
           record.disposition \in Withdrawn => record.strategies = <<>>,
           record.disposition \in Withdrawn <=> rule.force = "RETIRED"
    PROVE  Agree(rule, record, e)
<1>. DEFINE S == ToSet(record.strategies)
            M == ToSet(rule.mechanisms)
            Status(m) == MechanismIsImplemented(m, e, rule.id)
            kinds == {s.kind : s \in S}
            resolved == {Status(m) : m \in M}
            mixed == "structured-review" \in kinds \/ ("tool" \in kinds /\ Cardinality(kinds) > 1)
            state == VerificationState(rule, record, e)
            enforced == EnforcementOf(rule.mechanisms, e, rule.id)
            withdrawn == record.disposition \in Withdrawn
            OfStrategy(s) ==
                \/ s.kind \in Local /\ s.mechanism # Review /\ Status(s.mechanism) \in {"yes", "no"}
                \/ s.kind = "tool" /\ s.mechanism # Review /\ Status(s.mechanism) = "undecided"
                \/ s.kind = "structured-review" /\ s.mechanism = Review /\ Status(s.mechanism) = "undecided"
<1>1. /\ (record.strategies = <<>>) <=> (S = {})
      /\ (rule.mechanisms = <<>>) <=> (M = {})
      /\ (S = {}) <=> (M = {})
  BY NoItems
<1>2. \A s \in S : OfStrategy(s)
  BY KindsDecide
<1>3. state = IF withdrawn THEN "retired"
              ELSE IF record.strategies = <<>> THEN "undeclared"
              ELSE IF \E s \in S : Status(s.mechanism) = "no" THEN "unbuilt"
              ELSE IF kinds = {"structured-review"} THEN "structured-review"
              ELSE IF mixed THEN "mixed-verifiers"
              ELSE IF kinds = {"tool"} THEN "external-verifier"
              ELSE "local-verifier"
  BY DEF VerificationState
<1>4. /\ rule.mechanisms = <<>> => enforced = "unmechanized"
      /\ rule.mechanisms # <<>> /\ "no" \in resolved => enforced = "unbuilt"
      /\ resolved = {"yes"} => enforced = "mechanized"
      /\ rule.mechanisms # <<>> /\ "no" \notin resolved /\ resolved # {"yes"} /\ M = {Review}
           => enforced = "review"
      /\ rule.mechanisms # <<>> /\ "no" \notin resolved /\ resolved # {"yes"} /\ M # {Review}
           => enforced = "external"
  <2>1. enforced = CASE rule.mechanisms = <<>>  -> "unmechanized"
                     [] "no" \in resolved       -> "unbuilt"
                     [] resolved = {"yes"}      -> "mechanized"
                     [] M = {Review}            -> "review"
                     [] OTHER                   -> "external"
    BY DEF EnforcementOf
  <2>2. rule.mechanisms = <<>> => resolved = {}
    BY <1>1
  <2>3. M = {Review} => resolved = {"undecided"}
    <3>1. Status(Review) = "undecided"
      BY DEF MechanismIsImplemented, Review
    <3>. HIDE DEF Status
    <3>. QED
      BY <3>1
  <2>. HIDE DEF M, resolved, enforced
  <2>. QED
    BY <2>1, <2>2, <2>3
<1>5. ("no" \in resolved) <=> (\E s \in S : Status(s.mechanism) = "no")
  <2>. HIDE DEF Status
  <2>. QED
    OBVIOUS
<1>. HIDE DEF state, enforced, Status
<1>6. CASE withdrawn
  BY <1>1, <1>3, <1>4, <1>6 DEF Agree, state, enforced
<1>7. CASE ~withdrawn /\ record.strategies = <<>>
  BY <1>1, <1>3, <1>4, <1>7 DEF Agree, state, enforced
<1>8. CASE ~withdrawn /\ record.strategies # <<>> /\ "no" \in resolved
  BY <1>1, <1>3, <1>4, <1>5, <1>8 DEF Agree, state, enforced
<1>9. CASE ~withdrawn /\ record.strategies # <<>> /\ "no" \notin resolved
  <2>1. kinds \subseteq Local \cup {"tool", "structured-review"} /\ kinds # {}
    BY <1>1, <1>2, <1>9
  <2>2. ("tool" \in kinds /\ kinds # {"tool"}) => Cardinality(kinds) > 1
    <3>. SUFFICES ASSUME "tool" \in kinds, kinds # {"tool"} PROVE Cardinality(kinds) > 1
      OBVIOUS
    <3>. HIDE DEF kinds
    <3>1. IsFiniteSet(Local \cup {"tool", "structured-review"})
      <4>1. Local \cup {"tool", "structured-review"} =
              {"static"} \cup {"behavioral"} \cup {"generated-drift"} \cup {"tool"} \cup {"structured-review"}
        BY DEF Local
      <4>. QED
        BY <4>1, FS_Singleton, FS_Union
    <3>2. IsFiniteSet(kinds)
      BY <2>1, <3>1, FS_Subset
    <3>3. /\ Cardinality({"tool"}) = 1 /\ Cardinality(kinds) \in Nat
          /\ Cardinality({"tool"}) <= Cardinality(kinds)
          /\ (Cardinality(kinds) = 1 => {"tool"} = kinds)
      <4>1. {"tool"} \in SUBSET kinds
        OBVIOUS
      <4>. QED
        BY <3>2, <4>1, FS_Singleton, FS_Subset, FS_CardinalityType
    <3>. QED
      BY <3>3
  <2>10. /\ "tool" \notin Local /\ "structured-review" \notin Local
         /\ \A s \in S : Status(s.mechanism) \in resolved /\ s.mechanism \in M /\ s.kind \in kinds
         /\ \A m \in M : \E s \in S : s.mechanism = m
         /\ \A k \in kinds : \E s \in S : s.kind = k
         /\ \A r \in resolved : \E s \in S : Status(s.mechanism) = r
         /\ S # {} /\ M # {} /\ kinds # {} /\ resolved # {}
    BY <1>1, <1>9 DEF Local
  <2>11. \A s \in S : Status(s.mechanism) # "no"
    BY <1>9, <2>10
  <2>. HIDE DEF M, resolved, kinds, S
  <2>3. (resolved = {"yes"}) <=> (kinds \subseteq Local)
    <3>1. ASSUME resolved = {"yes"}, NEW k \in kinds PROVE k \in Local
      BY <1>2, <2>10, <3>1
    <3>2. ASSUME kinds \subseteq Local, NEW r \in resolved PROVE r = "yes"
      BY <1>2, <2>10, <2>11, <3>2
    <3>. QED
      BY <2>10, <3>1, <3>2
  <2>4. (M = {Review}) <=> (kinds = {"structured-review"})
    <3>1. ASSUME M = {Review}, NEW k \in kinds PROVE k = "structured-review"
      BY <1>2, <2>10, <3>1
    <3>2. ASSUME kinds = {"structured-review"}, NEW m \in M PROVE m = Review
      BY <1>2, <2>10, <3>2
    <3>. QED
      BY <2>10, <3>1, <3>2
  <2>5. rule.mechanisms # <<>> /\ rule.force # "RETIRED"
    BY <1>1, <1>9
  <2>6. CASE kinds \subseteq Local
    <3>1. "structured-review" \notin kinds /\ "tool" \notin kinds
      BY <2>6 DEF Local
    <3>2. state = "local-verifier" /\ enforced = "mechanized"
      BY <1>3, <1>4, <1>5, <1>9, <2>1, <2>3, <2>6, <3>1
    <3>. QED
      BY <2>5, <3>2 DEF Agree, state, enforced
  <2>7. CASE kinds = {"structured-review"}
    <3>1. ~(kinds \subseteq Local)
      BY <2>7 DEF Local
    <3>2. state = "structured-review" /\ enforced = "review"
      BY <1>3, <1>4, <1>5, <1>9, <2>3, <2>4, <2>5, <2>7, <3>1
    <3>. QED
      BY <2>5, <3>2 DEF Agree, state, enforced
  <2>8. CASE ~(kinds \subseteq Local) /\ kinds # {"structured-review"}
    <3>1. enforced = "external"
      BY <1>4, <1>9, <2>3, <2>4, <2>5, <2>8
    <3>2. mixed \/ kinds = {"tool"}
      BY <2>1, <2>2, <2>8
    <3>3. state \in {"external-verifier", "mixed-verifiers"}
      BY <1>3, <1>5, <1>9, <2>8, <3>2
    <3>. QED
      BY <2>5, <3>1, <3>3 DEF Agree, state, enforced
  <2>. QED
    BY <2>6, <2>7, <2>8
<1>. QED
  BY <1>6, <1>7, <1>8, <1>9

\* A corpus the validator passed agrees with itself.
LEMMA NoErrorsAgree ==
    ASSUME NEW c, NEW file, NEW n, CorpusTyped(c), Errors(Findings(c, file, n)) = {}
    PROVE  /\ Buildable(c)
           /\ \A rule \in ToSet(Rules(Documents(c))) : Agree(rule, c.registry[rule.id], c.enforce)
<1>. DEFINE rules == Rules(Documents(c))
<1>1. IsSeq(rules) /\ \A rule \in ToSet(rules) : IsSeq(rule.mechanisms)
  BY RulesInSeq
<1>2. /\ Buildable(c) /\ LoadEvidence(c.registry) = c.registry /\ c.registry \notin {None, Unknown}
      /\ RuleIds(rules) \subseteq DOMAIN c.registry
  BY EvidenceSound DEF Buildable
<1>3. PICK W, O : \A id \in RuleIds(rules) :
         RecordFindings(RuleNamed(rules, id), c.registry[id], W, O) \cap {"E004", "E005", "E006", "E010"} = {}
  BY EvidenceSound
<1>4. ASSUME NEW rule \in ToSet(rules) PROVE Agree(rule, c.registry[rule.id], c.enforce)
  <2>. DEFINE record == c.registry[rule.id]
              named == [i \in DOMAIN record.strategies |-> record.strategies[i].mechanism]
  <2>1. rule.id \in RuleIds(rules) /\ RuleNamed(rules, rule.id) = rule
    BY <1>1, RuleFound
  <2>2. \A code \in {"E004", "E005", "E006", "E010"} : code \notin RecordFindings(rule, record, W, O)
    BY <1>3, <2>1
  <2>3. IsSeq(record.strategies)
    <3>1. record.strategies \in Seq(ToSet(record.strategies))
      BY <1>2, <2>1 DEF CorpusTyped, IsRegistry
    <3>. QED
      BY <3>1, SeqIsSeq
  <2>. HIDE DEF record
  <2>4. ToBag(rule.mechanisms) = ToBag(named)
    BY <2>2 DEF RecordFindings
  <2>5. ToSet(rule.mechanisms) = {s.mechanism : s \in ToSet(record.strategies)}
    <3>1. Range(rule.mechanisms) = Range(named)
      BY <2>4 DEF ToBag
    <3>2. Range(rule.mechanisms) = ToSet(rule.mechanisms) /\ Range(named) = ToSet(named)
      BY DEF Range, ToSet
    <3>3. ToSet(named) = {s.mechanism : s \in ToSet(record.strategies)}
      BY DEF ToSet
    <3>. QED
      BY <3>1, <3>2, <3>3
  <2>6. \A code \in {"E005", "E006"} : code \notin RetirementFindings(rule, record)
    BY <2>2 DEF RecordFindings
  <2>7. /\ record.disposition \in Withdrawn => record.strategies = <<>>
        /\ record.disposition \in Withdrawn <=> rule.force = "RETIRED"
    BY <2>6 DEF RetirementFindings
  <2>8. ASSUME NEW s \in ToSet(record.strategies) PROVE s.kind \in ExpectedKind(s.mechanism)
    <3>1. "E010" \notin StrategyFindings(rule, s, W)
      BY <2>2 DEF RecordFindings
    <3>. QED
      BY <3>1 DEF StrategyFindings
  <2>9. IsSeq(rule.mechanisms)
    BY <1>1
  <2>. QED
    BY <2>3, <2>5, <2>7, <2>8, <2>9, RecordAgrees DEF record
<1>. QED
  BY <1>2, <1>4

\* A corpus the validator passes can be rebuilt, and what the registry says of a rule agrees
\* with what the headings say: the state build_index and the navigator print, and the
\* enforcement the validator works out from the mechanisms, for every corpus and registry an
\* editor can leave behind.
THEOREM PassingAgrees == Spec => []PassingCorpusAgrees
<1>1. IInv => PassingCorpusAgrees
  <2>. SUFFICES ASSUME IInv, "validate" \in green PROVE PassingCorpusAgrees
    BY DEF PassingCorpusAgrees
  <2>1. Errors(Findings(corpus, disk.graph, ceiling)) = {} /\ CorpusTyped(corpus)
    BY DEF IInv, ChecksHold, Seen, Typed, FilesTyped
  <2>2. /\ Buildable(corpus)
        /\ \A rule \in ToSet(Rules(Documents(corpus))) :
              Agree(rule, corpus.registry[rule.id], corpus.enforce)
    BY <2>1, NoErrorsAgree
  <2>. QED
    BY <2>2 DEF PassingCorpusAgrees, Agree, StatusOf
<1>. QED
  BY <1>1, SpecIInv, PTL
=============================================================================
