-------------------------- MODULE IntegrateProofs --------------------------
(***************************************************************************)
(* What integrate.py can take back, for every set of targets, history of   *)
(* releases, edits, partial and killed invocations.  Two facts hold of     *)
(* every file one by one, whether it has been written yet or not (Kept),   *)
(* so neither a half applied plan nor a kill disturbs them.  One relates   *)
(* the files to the record, and so holds of a whole plan only, as long as  *)
(* every invocation was whole (Exact).  What a plan is for is stated of    *)
(* the plan, and becomes true of the files when nothing is left to do.     *)
(***************************************************************************)
EXTENDS Integrate, TLAPS

Added(F, l) == load_record(F).added[l]
Skill(F, s) == load_record(F).skills[s]
Gap(F, t)   == load_record(F).gaps[t]

\* What the project has put there is there, and is not on record as ours.
Kept(F) ==
  /\ \A l \in Lists : native[l] \subseteq F[l] /\ native[l] \cap Added(F, l) = {}
  /\ \A s \in Skills : native[s] # None => F[s] = native[s]
  /\ \A s \in Skills : Skill(F, s) # None /\ Skill(F, s).created =>
        Skill(F, s).digest # Local /\ native[s] \in {None, Local}
  /\ \A t \in Markdown : native[t] # None => F[t] # None

\* No newline of the project's is lost.
Long(F) == \A t \in Markdown : native[t] # None => F[t].nl >= native[t]

\* What is there is the project's, or is on record as ours.
ExactLists(F) ==
  \A l \in Lists : /\ F[l] \subseteq native[l] \cup Added(F, l) \cup Header[l]
                   /\ Added(F, l) = {} => F[l] \subseteq native[l]
ExactSkills(F) ==
  \A s \in Skills : F[s] # native[s] =>
     /\ native[s] = None /\ Skill(F, s) # None
     /\ Skill(F, s).created /\ Skill(F, s).digest = F[s]
ExactTexts(F) ==
  \A t \in Markdown : native[t] # None =>
     /\ F[t].block = None => F[t].nl = native[t]
     /\ F[t].block # None => Gap(F, t) # None /\ F[t].nl = native[t] + Gap(F, t)

Exact(F) == ExactLists(F) /\ ExactSkills(F) /\ ExactTexts(F)

\* What a whole removal leaves.
Restored(F) ==
  /\ \A l \in Lists : F[l] = native[l]
  /\ \A s \in Skills : F[s] = native[s]
  /\ \A t \in Markdown : F[t] # None =>
        F[t].block = None /\ (native[t] # None => F[t].nl = native[t])

\* A skill file an install of the vendored release leaves alone.
Settled(f, e) ==
  LET source == SkillText[shipped] IN
  \/ source = None
  \/ f = source /\ e # None /\ e.digest = source
  \/ f # None /\ f # source /\ e # None /\ ~(e.created /\ e.digest = f)

\* What a whole install leaves.
Installed(F) ==
  /\ \A t \in Markdown : F[t] # None /\ F[t].block = shipped
  /\ \A l \in Lists : Unusable(l) \/ Entries[l] \subseteq F[l]
  /\ \A s \in Skills : Settled(F[s], Skill(F, s))
  /\ F[Record] # None

RunInv ==
  Running =>
    /\ Kept(run.plan) /\ (whole => Long(run.plan) /\ Exact(run.plan))
    /\ \A f \in Files : f \notin run.todo => files[f] = run.plan[f]
    /\ run.remove /\ whole => run.targets = Markdown /\ Restored(run.plan)
    /\ ~run.remove /\ run.targets = Markdown => Installed(run.plan)

IInv ==
  /\ TypeOK /\ Kept(files) /\ (whole => Long(files)) /\ (whole /\ ~Running => Exact(files))
  /\ RunInv

-----------------------------------------------------------------------------
(* What a plan holds, file by file.                                         *)

LEMMA Disjoint ==
  /\ \A t \in Markdown : t \in Files /\ t \notin Skills /\ t \notin Lists /\ t # Record
  /\ \A s \in Skills : s \in Files /\ s \notin Markdown /\ s \notin Lists /\ s # Record
  /\ \A l \in Lists : l \in Files /\ l \notin Markdown /\ l \notin Skills /\ l # Record
  /\ Record \in Files /\ Record \notin Markdown /\ Record \notin Skills /\ Record \notin Lists
  /\ \A l \in Lists : Entries[l] \cap Header[l] = {}
  BY IntegrateAssumption DEF Files, Lists, Entries, Header

LEMMA EmptyRecord ==
  /\ empty_record \in RecordFile
  /\ \A l \in Lists : empty_record.added[l] = {}
  /\ \A t \in Markdown : empty_record.gaps[t] = None
  /\ \A s \in Skills : empty_record.skills[s] = None
  BY DEF empty_record, RecordFile

LEMMA KnownType ==
  ASSUME NEW F, FileOK(F)
  PROVE  /\ load_record(F) \in RecordFile
         /\ \A l \in Lists : Added(F, l) \subseteq Entries[l]
         /\ \A t \in Markdown : Gap(F, t) \in Lines \cup {None}
         /\ \A s \in Skills : Skill(F, s) \in Ownership \cup {None}
<1>1. load_record(F) \in RecordFile
  BY EmptyRecord DEF FileOK, load_record
<1> QED
  BY <1>1 DEF FileOK, RecordFile, Added, Gap, Skill

LEMMA PlanFiles ==
  ASSUME NEW remove \in BOOLEAN, NEW targets \in SUBSET Markdown
  PROVE  LET plan == build_plan(remove, targets) IN
         /\ plan = [f \in Files |-> plan[f]]
         /\ \A t \in Markdown : plan[t] = IF t \in targets THEN MarkdownAfter(t, remove) ELSE files[t]
         /\ \A s \in Skills : plan[s] = SkillAfter(s, remove)
         /\ \A l \in Lists : plan[l] = ListAfter(l, remove)
         /\ plan[Record] = RecordAfter(remove, targets)
<1> DEFINE value(f) == IF f \in Markdown
                       THEN IF f \in targets THEN MarkdownAfter(f, remove) ELSE files[f]
                       ELSE IF f \in Skills THEN SkillAfter(f, remove)
                       ELSE IF f \in Lists THEN ListAfter(f, remove)
                       ELSE RecordAfter(remove, targets)
<1>1. build_plan(remove, targets) = [f \in Files |-> value(f)]
  BY DEF build_plan
<1> HIDE DEF value
<1>2. /\ build_plan(remove, targets) = [f \in Files |-> build_plan(remove, targets)[f]]
      /\ \A f \in Files : build_plan(remove, targets)[f] = value(f)
  BY <1>1
<1>3. /\ \A t \in Markdown : value(t) = IF t \in targets THEN MarkdownAfter(t, remove) ELSE files[t]
      /\ \A s \in Skills : value(s) = SkillAfter(s, remove)
      /\ \A l \in Lists : value(l) = ListAfter(l, remove)
      /\ value(Record) = RecordAfter(remove, targets)
  BY Disjoint DEF value
<1> QED
  BY <1>2, <1>3, Disjoint

LEMMA SkillEntryType ==
  ASSUME TypeOK, NEW s \in Skills
  PROVE  SkillEntry(s) \in Ownership \cup {None}
<1>1. known.skills[s] \in Ownership \cup {None} /\ files[s] \in Texts \cup {None}
  BY KnownType DEF TypeOK, known, Skill, FileOK
<1>2. SkillText[shipped] \in Texts \cup {None}
  BY IntegrateAssumption DEF TypeOK
<1>3. SkillEntry(s) = known.skills[s]
      \/ \E c \in BOOLEAN, d \in Texts \cup {None} : SkillEntry(s) = [created |-> c, digest |-> d]
  <2>1. CASE known.skills[s] = None
    BY <1>1, <1>2, <2>1 DEF SkillEntry
  <2>2. CASE known.skills[s] # None
    BY <1>1, <1>2, <2>2 DEF SkillEntry, Ownership
  <2> QED
    BY <2>1, <2>2
<1> QED
  BY <1>1, <1>3 DEF Ownership

LEMMA InstallRecord ==
  ASSUME TypeOK, NEW targets \in SUBSET Markdown
  PROVE  LET r == RecordAfter(FALSE, targets) IN
         /\ r \in RecordFile /\ r # None
         /\ \A l \in Lists : r.added[l] = known.added[l] \cup Missing(l)
         /\ \A t \in Markdown : r.gaps[t] = IF t \in targets /\ Inserts(t)
                                            THEN Separator(files[t].nl) ELSE known.gaps[t]
         /\ \A s \in Skills : r.skills[s] = SkillEntry(s)
<1> DEFINE added == [l \in Lists |-> known.added[l] \cup Missing(l)]
           gaps == [t \in Markdown |-> IF t \in targets /\ Inserts(t)
                                       THEN Separator(files[t].nl) ELSE known.gaps[t]]
           skills == [s \in Skills |-> SkillEntry(s)]
           r == RecordAfter(FALSE, targets)
<1>1. r = [added |-> added, gaps |-> gaps, skills |-> skills]
  BY DEF RecordAfter
<1>2. added \in [Lists -> SUBSET UNION {Entries[l] : l \in Lists}]
  <2>1. \A l \in Lists : known.added[l] \cup Missing(l) \subseteq Entries[l]
    BY KnownType DEF TypeOK, known, Added, Missing
  <2> QED
    BY <2>1
<1>3. gaps \in [Markdown -> Lines \cup {None}]
  <2> SUFFICES ASSUME NEW t \in Markdown
               PROVE  (IF t \in targets /\ Inserts(t)
                       THEN Separator(files[t].nl) ELSE known.gaps[t]) \in Lines \cup {None}
    OBVIOUS
  <2>1. known.gaps[t] \in Lines \cup {None}
    BY KnownType DEF TypeOK, known, Gap
  <2>2. ASSUME Inserts(t) PROVE Separator(files[t].nl) \in Lines
    <3>1. files[t] \in MarkdownFile
      BY <2>2 DEF TypeOK, FileOK, Inserts
    <3>2. files[t].nl \in 0..2
      BY <3>1 DEF MarkdownFile, Lines
    <3> QED
      BY <3>2 DEF Separator, Lines
  <2> QED
    BY <2>1, <2>2
<1>4. skills \in [Skills -> Ownership \cup {None}]
  BY SkillEntryType
<1> HIDE DEF added, gaps, skills, r
<1>5. r \in RecordFile
  BY <1>1, <1>2, <1>3, <1>4 DEF RecordFile
<1>6. r # None
  BY <1>5, NoneAssumption
<1>7. r.added = added /\ r.gaps = gaps /\ r.skills = skills
  BY <1>1
<1>8. /\ \A l \in Lists : r.added[l] = known.added[l] \cup Missing(l)
      /\ \A t \in Markdown : r.gaps[t] = IF t \in targets /\ Inserts(t)
                                         THEN Separator(files[t].nl) ELSE known.gaps[t]
      /\ \A s \in Skills : r.skills[s] = SkillEntry(s)
  BY <1>7 DEF added, gaps, skills
<1> QED
  BY <1>5, <1>6, <1>8 DEF r

\* The record of the plan, as a later invocation will read it.
LEMMA PlanRecord ==
  ASSUME TypeOK, NEW remove \in BOOLEAN, NEW targets \in SUBSET Markdown
  PROVE  LET plan == build_plan(remove, targets) IN
         /\ plan[Record] \in RecordFile \cup {None}
         /\ ~remove => plan[Record] # None
         /\ \A l \in Lists : Added(plan, l) = IF remove THEN {} ELSE known.added[l] \cup Missing(l)
         /\ \A t \in Markdown : Gap(plan, t) =
               IF remove THEN None
               ELSE IF t \in targets /\ Inserts(t) THEN Separator(files[t].nl) ELSE known.gaps[t]
         /\ \A s \in Skills : Skill(plan, s) = IF remove THEN None ELSE SkillEntry(s)
<1> DEFINE plan == build_plan(remove, targets)
<1>1. plan[Record] = RecordAfter(remove, targets)
  BY PlanFiles
<1> HIDE DEF plan
<1>2. CASE remove
  <2>1. plan[Record] \in {None, empty_record}
    BY <1>1, <1>2 DEF RecordAfter
  <2>2. load_record(plan) = empty_record
    BY <2>1 DEF load_record
  <2> QED
    BY <1>2, <2>1, <2>2, EmptyRecord DEF Added, Gap, Skill, plan
<1>3. CASE ~remove
  <2>1. plan[Record] = RecordAfter(FALSE, targets)
    BY <1>1, <1>3
  <2>2. load_record(plan) = RecordAfter(FALSE, targets)
    BY <2>1, InstallRecord DEF load_record
  <2> QED
    BY <1>3, <2>1, <2>2, InstallRecord DEF Added, Gap, Skill, plan
<1> QED
  BY <1>2, <1>3

LEMMA MarkdownAfterFacts ==
  ASSUME TypeOK, NEW t \in Markdown, NEW remove \in BOOLEAN
  PROVE  LET f == files[t]  m == MarkdownAfter(t, remove)  gap == known.gaps[t] IN
         /\ remove /\ f = None => m = None
         /\ ~remove \/ f # None => m \in MarkdownFile /\ m # None
         /\ ~remove => m.block = shipped
         /\ ~remove /\ f # None =>
              m.nl = IF f.block # None THEN f.nl ELSE f.nl + Separator(f.nl)
         /\ remove /\ f # None => m.block = None
         /\ remove /\ f # None =>
              m.nl = IF f.block # None /\ gap # None /\ f.nl >= gap THEN f.nl - gap ELSE f.nl
<1> DEFINE f == files[t]
           m == MarkdownAfter(t, remove)
           gap == known.gaps[t]
<1>1. f \in MarkdownFile \cup {None} /\ shipped \in Versions
  BY DEF TypeOK, FileOK
<1>2. gap \in 0..2 \cup {None}
  BY KnownType DEF TypeOK, known, Gap, Lines
<1>3. ASSUME f # None
      PROVE  /\ f.nl \in 0..2 /\ f = [nl |-> f.nl, block |-> f.block]
             /\ f.block \in Versions \cup {None}
  BY <1>1, <1>3 DEF MarkdownFile, Lines
<1>4. CASE remove /\ f = None
  BY <1>4 DEF MarkdownAfter
<1>5. CASE remove /\ f # None /\ f.block = None
  <2>1. m = f
    BY <1>5 DEF MarkdownAfter
  <2> HIDE DEF m
  <2>2. m \in MarkdownFile /\ m # None
    BY <1>1, <1>5, <2>1
  <2> QED
    BY <1>5, <2>1, <2>2 DEF m
<1>6. CASE remove /\ f # None /\ f.block # None
  <2> DEFINE n == IF gap # None /\ f.nl >= gap THEN f.nl - gap ELSE f.nl
  <2>1. m = [nl |-> n, block |-> None]
    BY <1>6 DEF MarkdownAfter
  <2>2. n \in 0..2
    BY <1>2, <1>3, <1>6
  <2> HIDE DEF m, n
  <2>3. m \in MarkdownFile /\ m.nl = n /\ m.block = None
    BY <2>1, <2>2 DEF MarkdownFile, Lines
  <2>4. m # None
    BY <2>3, NoneAssumption
  <2> QED
    BY <1>6, <2>3, <2>4 DEF m, n
<1>7. CASE ~remove
  <2> DEFINE n == IF f = None THEN 2 ELSE IF f.block # None THEN f.nl ELSE f.nl + Separator(f.nl)
  <2>1. m = [nl |-> n, block |-> shipped]
    <3>1. CASE f = None
      BY <1>7, <3>1 DEF MarkdownAfter
    <3>2. CASE f # None /\ f.block # None
      BY <1>3, <1>7, <3>2 DEF MarkdownAfter
    <3>3. CASE f # None /\ f.block = None
      BY <1>7, <3>3 DEF MarkdownAfter
    <3> QED
      BY <3>1, <3>2, <3>3
  <2>2. n \in 0..2
    BY <1>3 DEF Separator
  <2> HIDE DEF m, n
  <2>3. m \in MarkdownFile /\ m.nl = n /\ m.block = shipped
    BY <1>1, <2>1, <2>2 DEF MarkdownFile, Lines
  <2>4. m # None
    BY <2>3, NoneAssumption
  <2> QED
    BY <1>7, <2>3, <2>4 DEF m, n
<1> QED
  BY <1>4, <1>5, <1>6, <1>7

LEMMA PlanTyped ==
  ASSUME TypeOK, NEW remove \in BOOLEAN, NEW targets \in SUBSET Markdown
  PROVE  FileOK(build_plan(remove, targets))
<1> DEFINE plan == build_plan(remove, targets)
<1>1. /\ plan = [f \in Files |-> plan[f]]
      /\ \A t \in Markdown : plan[t] = IF t \in targets THEN MarkdownAfter(t, remove) ELSE files[t]
      /\ \A s \in Skills : plan[s] = SkillAfter(s, remove)
      /\ \A l \in Lists : plan[l] = ListAfter(l, remove)
  BY PlanFiles
<1>5. plan[Record] \in RecordFile \cup {None}
  BY PlanRecord
<1>6. \A l \in Lists : load_record(plan).added[l] \subseteq Entries[l]
  <2>1. \A l \in Lists : known.added[l] \cup Missing(l) \subseteq Entries[l]
    BY KnownType DEF TypeOK, known, Added, Missing
  <2>2. \A l \in Lists : Added(plan, l) \subseteq Entries[l]
    BY <2>1, PlanRecord
  <2> QED
    BY <2>2 DEF Added
<1> HIDE DEF plan
<1>2. \A t \in Markdown : plan[t] \in MarkdownFile \cup {None}
  <2> SUFFICES ASSUME NEW t \in Markdown PROVE plan[t] \in MarkdownFile \cup {None}
    OBVIOUS
  <2>1. MarkdownAfter(t, remove) \in MarkdownFile \cup {None}
    BY MarkdownAfterFacts
  <2>2. files[t] \in MarkdownFile \cup {None}
    BY DEF TypeOK, FileOK
  <2> QED
    BY <1>1, <2>1, <2>2
<1>3. \A s \in Skills : plan[s] \in Texts \cup {None}
  <2>1. SkillText[shipped] \in Texts \cup {None}
    BY IntegrateAssumption DEF TypeOK
  <2> QED
    BY <1>1, <2>1 DEF TypeOK, FileOK, SkillAfter
<1>4. \A l \in Lists : plan[l] \subseteq Entries[l] \cup Header[l]
  BY <1>1 DEF TypeOK, FileOK, ListAfter, Missing
<1>7. FileOK(plan)
  BY <1>1, <1>2, <1>3, <1>4, <1>5, <1>6 DEF FileOK
<1> QED
  BY <1>7 DEF plan

-----------------------------------------------------------------------------
(* What a plan keeps and what it is for.                                    *)

\* A skill file of the project's is never the installer's own.
LEMMA NotOwned ==
  ASSUME TypeOK, Kept(files), NEW s \in Skills, native[s] # None
  PROVE  ~Owned(s)
<1>1. files[s] = native[s]
  BY DEF Kept
<1>2. ASSUME known.skills[s] # None, known.skills[s].created
      PROVE  known.skills[s].digest # Local /\ native[s] = Local
  BY <1>2 DEF Kept, Skill, known
<1> QED
  BY <1>1, <1>2 DEF Owned

\* The entry of a skill file that holds what the release ships.
LEMMA MatchingEntry ==
  ASSUME NEW s \in Skills, SkillText[shipped] # None, files[s] # None, files[s] = SkillText[shipped]
  PROVE  /\ SkillEntry(s).digest = SkillText[shipped]
         /\ SkillEntry(s).created = (known.skills[s] # None /\ known.skills[s].created)
<1> DEFINE ours == known.skills[s] # None /\ known.skills[s].created
<1>1. SkillEntry(s) = [created |-> ours, digest |-> SkillText[shipped]]
  BY DEF SkillEntry
<1> HIDE DEF ours
<1>2. SkillEntry(s).digest = SkillText[shipped] /\ SkillEntry(s).created = ours
  BY <1>1
<1> QED
  BY <1>2 DEF ours

\* What the record of an install says of a skill file it calls its own.
LEMMA EntryApart ==
  ASSUME TypeOK, Kept(files), NEW s \in Skills,
         SkillEntry(s) # None, SkillEntry(s).created
  PROVE  SkillEntry(s).digest # Local /\ native[s] \in {None, Local}
<1> DEFINE source == SkillText[shipped]
           e == known.skills[s]
<1>1. source # Local
  BY IntegrateAssumption DEF TypeOK
<1>2. e # None /\ e.created => e.digest # Local /\ native[s] \in {None, Local}
  BY DEF Kept, Skill, known
<1>3. native[s] # None => files[s] = native[s] /\ ~Owned(s)
  BY NotOwned DEF Kept
<1>4. CASE source = None
  BY <1>2, <1>4 DEF SkillEntry
<1>5. CASE source # None /\ (files[s] = None \/ (files[s] # source /\ Owned(s)))
  <2>1. SkillEntry(s) = [created |-> TRUE, digest |-> source]
    BY <1>5 DEF SkillEntry
  <2>2. SkillEntry(s).digest = source
    BY <2>1
  <2>3. native[s] = None
    BY <1>3, <1>5
  <2> QED
    BY <1>1, <2>2, <2>3
<1>6. CASE source # None /\ files[s] # None /\ files[s] = source
  <2>1. SkillEntry(s).digest = source /\ SkillEntry(s).created = (e # None /\ e.created)
    BY <1>6, MatchingEntry
  <2>2. e # None /\ e.created
    BY <2>1
  <2> QED
    BY <1>1, <1>2, <2>1, <2>2
<1>7. CASE source # None /\ files[s] # None /\ files[s] # source /\ ~Owned(s)
  <2>1. SkillEntry(s) = IF e # None THEN e ELSE [created |-> FALSE, digest |-> files[s]]
    BY <1>7 DEF SkillEntry
  <2>2. CASE e # None
    BY <1>2, <2>1, <2>2
  <2>3. CASE e = None
    <3>1. SkillEntry(s).created = FALSE
      BY <2>1, <2>3
    <3> QED
      BY <3>1
  <2> QED
    BY <2>2, <2>3
<1> QED
  BY <1>4, <1>5, <1>6, <1>7

LEMMA PlanKept ==
  ASSUME TypeOK, Kept(files), NEW remove \in BOOLEAN, NEW targets \in SUBSET Markdown
  PROVE  Kept(build_plan(remove, targets))
<1> DEFINE plan == build_plan(remove, targets)
<1>1. /\ \A t \in Markdown : plan[t] = IF t \in targets THEN MarkdownAfter(t, remove) ELSE files[t]
      /\ \A s \in Skills : plan[s] = SkillAfter(s, remove)
      /\ \A l \in Lists : plan[l] = ListAfter(l, remove)
  BY PlanFiles
<1>2. /\ \A l \in Lists : Added(plan, l) = IF remove THEN {} ELSE known.added[l] \cup Missing(l)
      /\ \A s \in Skills : Skill(plan, s) = IF remove THEN None ELSE SkillEntry(s)
  BY PlanRecord
<1> HIDE DEF plan
<1>3. ASSUME NEW l \in Lists PROVE native[l] \subseteq plan[l] /\ native[l] \cap Added(plan, l) = {}
  <2>1. native[l] \subseteq files[l] /\ native[l] \cap known.added[l] = {} /\ native[l] \subseteq Entries[l]
    BY DEF Kept, TypeOK, Added, known
  <2>2. native[l] \cap Header[l] = {} /\ native[l] \cap Missing(l) = {}
    BY <2>1, Disjoint DEF Missing
  <2>3. native[l] \subseteq ListAfter(l, remove)
    BY <2>1, <2>2 DEF ListAfter
  <2> QED
    BY <1>1, <1>2, <2>1, <2>2, <2>3
<1>4. ASSUME NEW s \in Skills, native[s] # None PROVE plan[s] = native[s]
  <2>1. files[s] = native[s] /\ ~Owned(s)
    BY <1>4, NotOwned DEF Kept
  <2>2. SkillAfter(s, remove) = files[s]
    BY <1>4, <2>1 DEF SkillAfter
  <2> QED
    BY <1>1, <2>1, <2>2
<1>5. ASSUME NEW s \in Skills, Skill(plan, s) # None, Skill(plan, s).created
      PROVE  Skill(plan, s).digest # Local /\ native[s] \in {None, Local}
  <2>1. Skill(plan, s) = SkillEntry(s)
    BY <1>2, <1>5
  <2> QED
    BY <1>5, <2>1, EntryApart
<1>6. ASSUME NEW t \in Markdown, native[t] # None PROVE plan[t] # None
  <2>1. files[t] # None
    BY <1>6 DEF Kept
  <2>2. MarkdownAfter(t, remove) # None
    BY <2>1, MarkdownAfterFacts
  <2> QED
    BY <1>1, <2>1, <2>2
<1>7. Kept(plan)
  BY <1>3, <1>4, <1>5, <1>6 DEF Kept
<1> QED
  BY <1>7 DEF plan

\* With the files exact, no newline is lost and the plan is exact again.
LEMMA PlanMarkdown ==
  ASSUME TypeOK, Kept(files), Exact(files), NEW remove \in BOOLEAN, NEW targets \in SUBSET Markdown,
         remove => targets = Markdown, NEW t \in Markdown, native[t] # None
  PROVE  LET plan == build_plan(remove, targets) IN
         /\ plan[t].nl >= native[t]
         /\ plan[t].block = None => plan[t].nl = native[t]
         /\ plan[t].block # None => Gap(plan, t) # None /\ plan[t].nl = native[t] + Gap(plan, t)
         /\ remove => plan[t].block = None
<1> DEFINE plan == build_plan(remove, targets)
           f == files[t]
           gap == known.gaps[t]
<1>1. plan[t] = IF t \in targets THEN MarkdownAfter(t, remove) ELSE f
  BY PlanFiles
<1>2. Gap(plan, t) = IF remove THEN None
                     ELSE IF t \in targets /\ Inserts(t) THEN Separator(f.nl) ELSE gap
  BY PlanRecord
<1>3. native[t] \in 0..2 /\ f # None /\ f.nl \in 0..2 /\ gap \in 0..2 \cup {None}
  <2>1. gap \in Lines \cup {None}
    BY KnownType DEF TypeOK, known, Gap
  <2>2. f # None /\ f \in MarkdownFile
    BY DEF Kept, TypeOK, FileOK
  <2> QED
    BY <2>1, <2>2 DEF TypeOK, MarkdownFile, Lines
<1>4. /\ f.block = None => f.nl = native[t]
      /\ f.block # None => gap # None /\ f.nl = native[t] + gap
  BY DEF Exact, ExactLists, ExactSkills, ExactTexts, Gap, known
<1> DEFINE m == MarkdownAfter(t, remove)
<1>5. /\ ~remove => m.block = shipped /\ m.nl = IF f.block # None THEN f.nl ELSE f.nl + Separator(f.nl)
      /\ remove => /\ m.block = None
                   /\ m.nl = IF f.block # None /\ gap # None /\ f.nl >= gap THEN f.nl - gap ELSE f.nl
  BY <1>3, MarkdownAfterFacts
<1>6. shipped # None /\ None \notin 0..2
  BY NoneAssumption DEF TypeOK, Lines
<1> HIDE DEF plan, f, gap, m
<1>7. CASE remove
  <2>0. t \in targets
    BY <1>7
  <2>1. plan[t] = m /\ m.block = None
        /\ m.nl = IF f.block # None /\ gap # None /\ f.nl >= gap THEN f.nl - gap ELSE f.nl
    <3>1. plan[t] = m
      BY <1>1, <2>0 DEF m
    <3> QED
      BY <1>5, <1>7, <3>1
  <2>2. plan[t].nl = native[t]
    BY <1>3, <1>4, <2>1
  <2>3. plan[t].nl >= native[t] /\ plan[t].block = None
    BY <1>3, <2>1, <2>2
  <2> QED
    BY <2>2, <2>3 DEF plan
<1>8. CASE ~remove /\ t \notin targets
  BY <1>1, <1>2, <1>3, <1>4, <1>8 DEF m, plan
<1>9. CASE ~remove /\ t \in targets /\ f.block # None
  <2>1. ~Inserts(t)
    BY <1>9 DEF Inserts, f
  <2> QED
    BY <1>1, <1>2, <1>3, <1>4, <1>5, <1>6, <1>9, <2>1 DEF m, plan
<1>10. CASE ~remove /\ t \in targets /\ f.block = None
  <2>1. Inserts(t)
    BY <1>3, <1>10 DEF Inserts, f
  <2>2. Gap(plan, t) = 2 - f.nl /\ plan[t].nl = f.nl + (2 - f.nl) /\ plan[t].block = shipped
    BY <1>1, <1>2, <1>5, <1>10, <2>1 DEF Separator, m
  <2> QED
    BY <1>3, <1>4, <1>6, <1>10, <2>2 DEF plan
<1> QED
  BY <1>7, <1>8, <1>9, <1>10

LEMMA PlanExact ==
  ASSUME TypeOK, Kept(files), Exact(files), NEW remove \in BOOLEAN, NEW targets \in SUBSET Markdown,
         remove => targets = Markdown /\ ~broken
  PROVE  LET plan == build_plan(remove, targets) IN
         /\ Long(plan) /\ Exact(plan)
         /\ remove => Restored(plan)
<1> DEFINE plan == build_plan(remove, targets)
<1>1. /\ \A t \in Markdown : plan[t] = IF t \in targets THEN MarkdownAfter(t, remove) ELSE files[t]
      /\ \A s \in Skills : plan[s] = SkillAfter(s, remove)
      /\ \A l \in Lists : plan[l] = ListAfter(l, remove)
  BY PlanFiles
<1>2. /\ \A l \in Lists : Added(plan, l) = IF remove THEN {} ELSE known.added[l] \cup Missing(l)
      /\ \A s \in Skills : Skill(plan, s) = IF remove THEN None ELSE SkillEntry(s)
  BY PlanRecord
<1>3. \A t \in Markdown : native[t] # None =>
        /\ plan[t].nl >= native[t]
        /\ plan[t].block = None => plan[t].nl = native[t]
        /\ plan[t].block # None => Gap(plan, t) # None /\ plan[t].nl = native[t] + Gap(plan, t)
        /\ remove => plan[t].block = None
  BY PlanMarkdown
<1>4. Kept(plan)
  BY PlanKept
<1>5. ASSUME NEW l \in Lists
      PROVE  /\ plan[l] \subseteq native[l] \cup Added(plan, l) \cup Header[l]
             /\ Added(plan, l) = {} => plan[l] \subseteq native[l]
  <2>1. /\ files[l] \subseteq native[l] \cup known.added[l] \cup Header[l]
        /\ known.added[l] = {} => files[l] \subseteq native[l]
    BY DEF Exact, ExactLists, ExactSkills, ExactTexts, Added, known
  <2>2. CASE remove
    <3>1. plan[l] \subseteq native[l]
      BY <1>1, <2>1, <2>2 DEF ListAfter, Unusable
    <3> QED
      BY <3>1
  <2>3. CASE ~remove
    <3>1. \/ plan[l] = files[l] /\ Missing(l) = {}
          \/ plan[l] = files[l] \cup Missing(l) \cup Header[l] /\ Missing(l) # {}
      <4>1. Unusable(l) => Missing(l) = {}
        BY DEF Missing
      <4>2. ListAfter(l, remove) = IF Unusable(l) \/ Missing(l) = {} THEN files[l]
                                   ELSE files[l] \cup Missing(l) \cup Header[l]
        BY <2>3 DEF ListAfter
      <4>3. plan[l] = ListAfter(l, remove)
        BY <1>1
      <4> HIDE DEF plan
      <4> QED
        BY <4>1, <4>2, <4>3
    <3>2. Added(plan, l) = known.added[l] \cup Missing(l)
      BY <1>2, <2>3
    <3> QED
      BY <2>1, <3>1, <3>2
  <2> QED
    BY <2>2, <2>3
<1>6. ASSUME NEW s \in Skills
      PROVE  /\ plan[s] # native[s] =>
                   /\ native[s] = None /\ Skill(plan, s) # None
                   /\ Skill(plan, s).created /\ Skill(plan, s).digest = plan[s]
             /\ remove => plan[s] = native[s]
  <2> DEFINE source == SkillText[shipped]
             e == known.skills[s]
  <2>1. files[s] # native[s] => native[s] = None /\ e # None /\ e.created /\ e.digest = files[s]
    BY DEF Exact, ExactLists, ExactSkills, ExactTexts, Skill, known
  <2>2. native[s] # None => files[s] = native[s] /\ ~Owned(s)
    BY NotOwned DEF Kept
  <2>3. files[s] # native[s] => Owned(s)
    BY <2>1 DEF Owned
  <2>4. CASE remove
    <3>1. plan[s] = IF files[s] # None /\ Owned(s) THEN None ELSE files[s]
      BY <1>1, <2>4 DEF SkillAfter
    <3>2. plan[s] = native[s]
      BY <2>2, <2>3, <3>1
    <3> QED
      BY <3>2
  <2>5. CASE ~remove
    <3>1. plan[s] = IF source # None /\ (files[s] = None \/ Owned(s)) THEN source ELSE files[s]
      BY <1>1, <2>5 DEF SkillAfter
    <3>2. Skill(plan, s) = SkillEntry(s)
      BY <1>2, <2>5
    <3>3. CASE source = None
      <4>1. SkillEntry(s) = e /\ plan[s] = files[s]
        BY <3>1, <3>3 DEF SkillEntry
      <4> QED
        BY <2>1, <2>5, <3>2, <4>1
    <3>4. CASE source # None /\ (files[s] = None \/ (files[s] # source /\ Owned(s)))
      <4>1. SkillEntry(s) = [created |-> TRUE, digest |-> source] /\ plan[s] = source
        BY <3>1, <3>4 DEF SkillEntry
      <4>2. SkillEntry(s) # None
        <5>1. source \in Texts
          BY <3>4, IntegrateAssumption DEF TypeOK
        <5>2. SkillEntry(s) \in Ownership
          BY <4>1, <5>1 DEF Ownership
        <5> QED
          BY <5>2, NoneAssumption
      <4>3. SkillEntry(s).created /\ SkillEntry(s).digest = source
        BY <4>1
      <4>4. native[s] = None
        BY <2>2, <3>4
      <4> QED
        BY <2>5, <3>2, <4>1, <4>2, <4>3, <4>4
    <3>5. CASE source # None /\ files[s] # None /\ files[s] = source
      <4>1. SkillEntry(s) = [created |-> e # None /\ e.created, digest |-> source] /\ plan[s] = source
        BY <3>1, <3>5 DEF SkillEntry
      <4>2. SkillEntry(s) # None
        <5>1. source \in Texts
          BY <3>5, IntegrateAssumption DEF TypeOK
        <5>2. (e # None /\ e.created) \in BOOLEAN
          <6>1. e \in Ownership \cup {None}
            BY KnownType DEF TypeOK, known, Skill
          <6> QED
            BY <6>1 DEF Ownership
        <5>3. SkillEntry(s) \in Ownership
          BY <4>1, <5>1, <5>2 DEF Ownership
        <5> QED
          BY <5>3, NoneAssumption
      <4> DEFINE ours == e # None /\ e.created
      <4>0. files[s] # native[s] => ours /\ ours = TRUE
        BY <2>1
      <4> HIDE DEF ours
      <4>3. SkillEntry(s).created = ours /\ SkillEntry(s).digest = source
        BY <4>1 DEF ours
      <4> QED
        BY <2>1, <2>5, <3>2, <3>5, <4>0, <4>1, <4>2, <4>3
    <3>6. CASE source # None /\ files[s] # None /\ files[s] # source /\ ~Owned(s)
      <4>1. plan[s] = files[s] /\ files[s] = native[s]
        BY <2>3, <3>1, <3>6
      <4> QED
        BY <2>5, <4>1
    <3>7. \/ source = None
          \/ source # None /\ (files[s] = None \/ (files[s] # source /\ Owned(s)))
          \/ source # None /\ files[s] # None /\ files[s] = source
          \/ source # None /\ files[s] # None /\ files[s] # source /\ ~Owned(s)
      OBVIOUS
    <3> QED
      BY <3>3, <3>4, <3>5, <3>6, <3>7
  <2> QED
    BY <2>4, <2>5
<1>7. ASSUME remove PROVE Restored(plan)
  <2>1. \A l \in Lists : plan[l] = native[l]
    BY <1>2, <1>4, <1>5, <1>7 DEF Kept
  <2>2. ASSUME NEW t \in Markdown, plan[t] # None PROVE plan[t].block = None
    BY <1>1, <1>7, <2>2, MarkdownAfterFacts
  <2> HIDE DEF plan
  <2> QED
    BY <1>3, <1>6, <1>7, <2>1, <2>2 DEF Restored
<1> HIDE DEF plan
<1>8. Long(plan) /\ Exact(plan)
  BY <1>3, <1>5, <1>6 DEF Long, Exact, ExactLists, ExactSkills, ExactTexts
<1> QED
  BY <1>7, <1>8 DEF plan

\* An entry of an install, made up or taken over, is one a second install keeps.
LEMMA EntrySettled ==
  ASSUME TypeOK, NEW s \in Skills
  PROVE  Settled(SkillAfter(s, FALSE), SkillEntry(s))
<1> DEFINE source == SkillText[shipped]
           e == known.skills[s]
           after == SkillAfter(s, FALSE)
           entry == SkillEntry(s)
<1>1. after = IF source # None /\ (files[s] = None \/ Owned(s)) THEN source ELSE files[s]
  BY DEF SkillAfter
<1>2. source \in Texts \cup {None} /\ files[s] \in Texts \cup {None} /\ e \in Ownership \cup {None}
  BY IntegrateAssumption, KnownType DEF TypeOK, FileOK, known, Skill
<1>3. entry \in Ownership \cup {None}
  BY SkillEntryType
<1>4. CASE source = None
  BY <1>4 DEF Settled
<1>5. CASE source # None /\ (files[s] = None \/ (files[s] # source /\ Owned(s)))
  <2>1. entry = [created |-> TRUE, digest |-> source]
    BY <1>5 DEF SkillEntry
  <2>2. entry \in Ownership
    BY <1>2, <1>5, <2>1 DEF Ownership
  <2>3. entry # None /\ entry.digest = source /\ after = source
    <3>1. entry # None
      BY <2>2, NoneAssumption
    <3>2. after = source
      BY <1>1, <1>5
    <3>3. entry.digest = source
      BY <2>1
    <3> QED
      BY <3>1, <3>2, <3>3
  <2> QED
    BY <2>3 DEF Settled
<1>6. CASE source # None /\ files[s] # None /\ files[s] = source
  <2> DEFINE ours == e # None /\ e.created
  <2>1. ours \in BOOLEAN
    BY <1>2 DEF Ownership
  <2>2. entry = [created |-> ours, digest |-> source]
    BY <1>6 DEF SkillEntry
  <2> HIDE DEF ours
  <2>3. entry \in Ownership
    BY <1>2, <1>6, <2>1, <2>2 DEF Ownership
  <2>4. entry # None /\ entry.digest = source /\ after = source
    <3>1. entry # None
      BY <2>3, NoneAssumption
    <3>2. after = source
      BY <1>1, <1>6
    <3>3. entry.digest = source
      BY <2>2
    <3> QED
      BY <3>1, <3>2, <3>3
  <2> QED
    BY <2>4 DEF Settled
<1>7. CASE source # None /\ files[s] # None /\ files[s] # source /\ ~Owned(s)
  <2>1. after = files[s] /\ entry = IF e # None THEN e ELSE [created |-> FALSE, digest |-> files[s]]
    BY <1>1, <1>7 DEF SkillEntry
  <2>2. CASE e # None
    <3>1. entry = e /\ ~(e.created /\ e.digest = files[s])
      BY <1>7, <2>1, <2>2 DEF Owned
    <3> QED
      BY <1>7, <2>1, <2>2, <3>1 DEF Settled
  <2>3. CASE e = None
    <3>1. entry = [created |-> FALSE, digest |-> files[s]]
      BY <2>1, <2>3
    <3>2. entry.created = FALSE /\ entry \in Ownership
      BY <1>2, <1>7, <3>1 DEF Ownership
    <3>3. entry # None
      BY <3>2, NoneAssumption
    <3> QED
      BY <1>7, <2>1, <3>2, <3>3 DEF Settled
  <2> QED
    BY <2>2, <2>3
<1>8. \/ source = None
      \/ source # None /\ (files[s] = None \/ (files[s] # source /\ Owned(s)))
      \/ source # None /\ files[s] # None /\ files[s] = source
      \/ source # None /\ files[s] # None /\ files[s] # source /\ ~Owned(s)
  OBVIOUS
<1> QED
  BY <1>4, <1>5, <1>6, <1>7, <1>8

LEMMA PlanInstalled ==
  ASSUME TypeOK
  PROVE  Installed(build_plan(FALSE, Markdown))
<1> DEFINE plan == build_plan(FALSE, Markdown)
<1>1. /\ \A t \in Markdown : plan[t] = MarkdownAfter(t, FALSE)
      /\ \A s \in Skills : plan[s] = SkillAfter(s, FALSE)
      /\ \A l \in Lists : plan[l] = ListAfter(l, FALSE)
  BY PlanFiles
<1>2. plan[Record] # None /\ \A s \in Skills : Skill(plan, s) = SkillEntry(s)
  BY PlanRecord
<1> HIDE DEF plan
<1>3. \A t \in Markdown : plan[t] # None /\ plan[t].block = shipped
  <2> SUFFICES ASSUME NEW t \in Markdown PROVE plan[t] # None /\ plan[t].block = shipped
    OBVIOUS
  <2> DEFINE m == MarkdownAfter(t, FALSE)
  <2>1. m # None /\ m.block = shipped
    BY MarkdownAfterFacts
  <2>2. plan[t] = m
    BY <1>1
  <2> HIDE DEF m
  <2> QED
    BY <2>1, <2>2
<1>4. \A l \in Lists : Unusable(l) \/ Entries[l] \subseteq plan[l]
  BY <1>1 DEF ListAfter, Missing
<1>5. \A s \in Skills : Settled(plan[s], Skill(plan, s))
  BY <1>1, <1>2, EntrySettled
<1>6. Installed(plan)
  BY <1>2, <1>3, <1>4, <1>5 DEF Installed
<1> QED
  BY <1>6 DEF plan

\* A settled skill file and its entry stay as they are.
LEMMA SettledStays ==
  ASSUME TypeOK, NEW s \in Skills, Settled(files[s], known.skills[s])
  PROVE  SkillAfter(s, FALSE) = files[s] /\ SkillEntry(s) = known.skills[s]
<1> DEFINE source == SkillText[shipped]
           e == known.skills[s]
<1>1. e \in Ownership \cup {None}
  BY KnownType DEF TypeOK, known, Skill
<1>2. CASE source = None
  BY <1>2 DEF SkillAfter, SkillEntry
<1>3. CASE source # None /\ files[s] = source /\ e # None /\ e.digest = source
  <2>1. SkillAfter(s, FALSE) = files[s]
    BY <1>3 DEF SkillAfter
  <2>2. e = [created |-> e.created, digest |-> e.digest] /\ e.created \in BOOLEAN
    BY <1>1, <1>3 DEF Ownership
  <2> DEFINE ours == e # None /\ e.created
  <2>3. SkillEntry(s) = [created |-> ours, digest |-> source]
    BY <1>3 DEF SkillEntry
  <2>4. ours = e.created
    BY <1>3, <2>2
  <2> HIDE DEF ours
  <2>5. SkillEntry(s) = e
    BY <1>3, <2>2, <2>3, <2>4
  <2> QED
    BY <2>1, <2>5
<1>4. CASE source # None /\ files[s] # None /\ files[s] # source /\ e # None
           /\ ~(e.created /\ e.digest = files[s])
  <2>1. ~Owned(s)
    BY <1>4 DEF Owned
  <2> QED
    BY <1>4, <2>1 DEF SkillAfter, SkillEntry
<1> QED
  BY <1>2, <1>3, <1>4 DEF Settled

LEMMA InstalledStays ==
  ASSUME TypeOK, Installed(files)
  PROVE  build_plan(FALSE, Markdown) = files
<1> DEFINE plan == build_plan(FALSE, Markdown)
<1>1. /\ plan = [f \in Files |-> plan[f]]
      /\ \A t \in Markdown : plan[t] = MarkdownAfter(t, FALSE)
      /\ \A s \in Skills : plan[s] = SkillAfter(s, FALSE)
      /\ \A l \in Lists : plan[l] = ListAfter(l, FALSE)
      /\ plan[Record] = RecordAfter(FALSE, Markdown)
  BY PlanFiles
<1> HIDE DEF plan
<1>2. ASSUME NEW t \in Markdown PROVE MarkdownAfter(t, FALSE) = files[t] /\ ~Inserts(t)
  <2>1. files[t] \in MarkdownFile /\ files[t].block = shipped /\ files[t] # None /\ shipped # None
    BY NoneAssumption DEF Installed, TypeOK, FileOK
  <2>2. [files[t] EXCEPT !.block = shipped] = files[t]
    BY <2>1 DEF MarkdownFile
  <2> QED
    BY <2>1, <2>2 DEF MarkdownAfter, Inserts
<1>3. ASSUME NEW l \in Lists PROVE ListAfter(l, FALSE) = files[l] /\ Missing(l) = {}
  <2>1. Missing(l) = {}
    BY DEF Installed, Missing
  <2> QED
    BY <2>1 DEF ListAfter
<1>4. ASSUME NEW s \in Skills
      PROVE  SkillAfter(s, FALSE) = files[s] /\ SkillEntry(s) = known.skills[s]
  BY SettledStays DEF Installed, Skill, known
<1>5. plan[Record] = files[Record]
  <2> DEFINE r == RecordAfter(FALSE, Markdown)
  <2>1. files[Record] = known /\ known \in RecordFile
    BY KnownType DEF Installed, known, load_record, TypeOK
  <2>2. /\ r \in RecordFile
        /\ \A l \in Lists : r.added[l] = known.added[l] \cup Missing(l)
        /\ \A t \in Markdown : r.gaps[t] = IF t \in Markdown /\ Inserts(t)
                                           THEN Separator(files[t].nl) ELSE known.gaps[t]
        /\ \A s \in Skills : r.skills[s] = SkillEntry(s)
    BY InstallRecord
  <2> HIDE DEF r
  <2>3. /\ \A l \in Lists : r.added[l] = known.added[l]
        /\ \A t \in Markdown : r.gaps[t] = known.gaps[t]
        /\ \A s \in Skills : r.skills[s] = known.skills[s]
    BY <1>2, <1>3, <1>4, <2>2
  <2>4. r.added = known.added /\ r.gaps = known.gaps /\ r.skills = known.skills
    BY <2>1, <2>2, <2>3 DEF RecordFile
  <2>5. r = known
    BY <2>1, <2>2, <2>4 DEF RecordFile
  <2> QED
    BY <1>1, <2>1, <2>5 DEF r
<1>6. \A f \in Files : plan[f] = files[f]
  BY <1>1, <1>2, <1>3, <1>4, <1>5 DEF Files
<1>7. files = [f \in Files |-> files[f]]
  BY DEF TypeOK, FileOK
<1>8. plan = files
  BY <1>1, <1>6, <1>7
<1> QED
  BY <1>8 DEF plan

-----------------------------------------------------------------------------
(* Files written one by one.                                                *)

OnFiles(H) == H = [g \in Files |-> H[g]]

LEMMA MixedFiles ==
  ASSUME NEW F, NEW G, FileOK(F), FileOK(G), Kept(F), Kept(G), NEW H,
         OnFiles(H), \A g \in Files : H[g] \in {F[g], G[g]}
  PROVE  /\ FileOK(H) /\ Kept(H)
         /\ Long(F) /\ Long(G) => Long(H)
<1>1. H = [g \in Files |-> H[g]] /\ \A g \in Files : H[g] = F[g] \/ H[g] = G[g]
  BY DEF OnFiles
<1>2. load_record(H) = load_record(F) \/ load_record(H) = load_record(G)
  BY <1>1, Disjoint DEF load_record
<1>3. FileOK(H)
  <2>1. \A t \in Markdown : H[t] \in MarkdownFile \cup {None}
    BY <1>1, Disjoint DEF FileOK
  <2>2. \A s \in Skills : H[s] \in Texts \cup {None}
    BY <1>1, Disjoint DEF FileOK
  <2>3. \A l \in Lists : H[l] \subseteq Entries[l] \cup Header[l]
    BY <1>1, Disjoint DEF FileOK
  <2>4. H[Record] \in RecordFile \cup {None}
    BY <1>1, Disjoint DEF FileOK
  <2>5. \A l \in Lists : load_record(H).added[l] \subseteq Entries[l]
    BY <1>2 DEF FileOK
  <2> QED
    BY <1>1, <2>1, <2>2, <2>3, <2>4, <2>5 DEF FileOK
<1>4. Kept(H)
  <2>1. \A l \in Lists : native[l] \subseteq H[l] /\ native[l] \cap Added(H, l) = {}
    BY <1>1, <1>2, Disjoint DEF Kept, Added
  <2>2. \A s \in Skills : native[s] # None => H[s] = native[s]
    BY <1>1, Disjoint DEF Kept
  <2>3. \A s \in Skills : Skill(H, s) # None /\ Skill(H, s).created =>
          Skill(H, s).digest # Local /\ native[s] \in {None, Local}
    BY <1>2 DEF Kept, Skill
  <2>4. \A t \in Markdown : native[t] # None => H[t] # None
    BY <1>1, Disjoint DEF Kept
  <2> QED
    BY <2>1, <2>2, <2>3, <2>4 DEF Kept
<1>5. Long(F) /\ Long(G) => Long(H)
  BY <1>1, Disjoint DEF Long
<1> QED
  BY <1>3, <1>4, <1>5

\* A lost record takes nothing of the project's with it.
LEMMA RecordLost ==
  ASSUME NEW F, FileOK(F), Kept(F)
  PROVE  LET H == [F EXCEPT ![Record] = None] IN FileOK(H) /\ Kept(H)
<1> DEFINE H == [F EXCEPT ![Record] = None]
<1>1. H = [g \in Files |-> H[g]] /\ \A g \in Files : H[g] = IF g = Record THEN None ELSE F[g]
  <2>1. F = [g \in Files |-> F[g]]
    BY DEF FileOK
  <2> QED
    BY <2>1
<1> HIDE DEF H
<1>2. load_record(H) = empty_record
  BY <1>1, Disjoint DEF load_record
<1>3. FileOK(H)
  <2>1. \A l \in Lists : load_record(H).added[l] \subseteq Entries[l]
    BY <1>2, EmptyRecord
  <2>2. H[Record] \in RecordFile \cup {None}
    BY <1>1, Disjoint
  <2>3. /\ \A t \in Markdown : H[t] = F[t]
        /\ \A x \in Skills : H[x] = F[x]
        /\ \A l \in Lists : H[l] = F[l]
    BY <1>1, Disjoint
  <2> QED
    BY <1>1, <2>1, <2>2, <2>3 DEF FileOK
<1>4. Kept(H)
  <2>1. /\ \A t \in Markdown : H[t] = F[t]
        /\ \A x \in Skills : H[x] = F[x]
        /\ \A l \in Lists : H[l] = F[l]
    BY <1>1, Disjoint
  <2>2. /\ \A l \in Lists : Added(H, l) = {}
        /\ \A x \in Skills : Skill(H, x) = None
    BY <1>2, EmptyRecord DEF Added, Skill
  <2> QED
    BY <2>1, <2>2 DEF Kept
<1> QED
  BY <1>3, <1>4 DEF H

-----------------------------------------------------------------------------
(* The invariant and the steps of an invocation.                            *)

LEMMA IInvInit == Init => IInv
<1> SUFFICES ASSUME Init PROVE IInv
  OBVIOUS
<1>1. /\ files = [f \in Files |-> files[f]]
      /\ \A f \in Files : files[f] = IF f = Record THEN None
                                   ELSE IF f \in Markdown /\ native[f] # None
                                        THEN [nl |-> native[f], block |-> None] ELSE native[f]
  BY DEF Init
<1>2. /\ \A t \in Markdown : files[t] = IF native[t] # None THEN [nl |-> native[t], block |-> None] ELSE None
      /\ \A s \in Skills : files[s] = native[s]
      /\ \A l \in Lists : files[l] = native[l]
      /\ files[Record] = None
  BY <1>1, Disjoint
<1>3. /\ DOMAIN native = Files \ {Record}
      /\ \A t \in Markdown : native[t] \in Lines \cup {None}
      /\ \A s \in Skills : native[s] \in Texts \cup {None}
      /\ \A l \in Lists : native[l] \subseteq Entries[l]
  BY IntegrateAssumption DEF Init, Lines
<1>4. load_record(files) = empty_record
  BY <1>2 DEF load_record
<1>5. /\ \A l \in Lists : Added(files, l) = {}
      /\ \A s \in Skills : Skill(files, s) = None
  BY <1>4, EmptyRecord DEF Added, Skill
<1>6. ASSUME NEW t \in Markdown, native[t] # None
      PROVE  files[t] \in MarkdownFile /\ files[t] # None /\ files[t].nl = native[t] /\ files[t].block = None
             /\ native[t] \in 0..2
  <2>1. files[t] = [nl |-> native[t], block |-> None] /\ native[t] \in Lines
    BY <1>2, <1>3, <1>6
  <2>2. files[t] \in MarkdownFile
    BY <2>1 DEF MarkdownFile
  <2> QED
    BY <2>1, <2>2, NoneAssumption DEF Lines
<1>7. ~Running /\ run = Idle
  BY DEF Init, Running, Idle
<1>8. FileOK(files)
  <2>1. \A t \in Markdown : files[t] \in MarkdownFile \cup {None}
    BY <1>2, <1>6
  <2>2. \A l \in Lists : load_record(files).added[l] \subseteq Entries[l]
    BY <1>5 DEF Added
  <2> QED
    BY <1>1, <1>2, <1>3, <2>1, <2>2 DEF FileOK
<1>9. run \in Runs
  BY <1>7 DEF Runs, Idle
<1>10. TypeOK
  <2>1. broken \in BOOLEAN /\ whole \in BOOLEAN
    BY Zenon DEF Init
  <2>2. shipped \in Versions /\ edits \in 0..MaxEdits
    BY IntegrateAssumption DEF Init
  <2> QED
    BY <1>3, <1>7, <1>8, <1>9, <2>1, <2>2 DEF TypeOK
<1>11. Kept(files)
  BY <1>2, <1>5, <1>6 DEF Kept
<1>12. Long(files)
  BY <1>6 DEF Long
<1>13. Exact(files)
  BY <1>2, <1>5, <1>6 DEF Exact, ExactLists, ExactSkills, ExactTexts
<1> QED
  BY <1>7, <1>10, <1>11, <1>12, <1>13 DEF IInv, RunInv

LEMMA StartStep ==
  ASSUME IInv, NEW remove \in BOOLEAN, NEW targets \in SUBSET Markdown, targets # {},
         Start(remove, targets)
  PROVE  IInv'
<1> PICK plan : plan = build_plan(remove, targets)
  OBVIOUS
<1>1. TypeOK /\ Kept(files) /\ ~Running
  BY DEF IInv, Start
<1>2. FileOK(plan) /\ Kept(plan)
  BY <1>1, PlanTyped, PlanKept
<1>3. whole => Long(files) /\ Exact(files)
  BY <1>1 DEF IInv
<1>4. whole' => whole /\ (remove => targets = Markdown /\ ~broken)
  BY DEF Start
<1>5. whole' => Long(plan) /\ Exact(plan) /\ (remove => Restored(plan))
  BY <1>1, <1>3, <1>4, PlanExact
<1>6. ~remove /\ targets = Markdown => Installed(plan)
  <2>1. ASSUME ~remove, targets = Markdown PROVE plan = build_plan(FALSE, Markdown)
    BY <2>1
  <2> QED
    BY <1>1, <2>1, PlanInstalled
<1>7. /\ run' = [remove |-> remove, targets |-> targets, plan |-> plan,
                todo |-> {f \in Files : plan[f] # files[f]}]
      /\ UNCHANGED <<files, broken, shipped, native, edits>>
      /\ whole' \in BOOLEAN
  BY DEF Start
<1>8. /\ run'.remove = remove /\ run'.targets = targets /\ run'.plan = plan
      /\ run'.todo = {f \in Files : plan[f] # files[f]}
  BY <1>7
<1>9. run' \in Runs'
  BY <1>7, <1>8 DEF Runs
<1>10. TypeOK'
  <2>1. FileOK(files)' /\ FileOK(run.plan)'
    BY <1>1, <1>2, <1>7, <1>8 DEF TypeOK, FileOK, load_record
  <2> QED
    BY <1>1, <1>7, <1>9, <2>1 DEF TypeOK
<1>11. Kept(run.plan)'
  BY <1>2, <1>7, <1>8 DEF Kept, Added, Skill, load_record
<1>12. whole' => Long(run.plan)' /\ Exact(run.plan)'
  <2>1. ASSUME whole' PROVE Long(run.plan)'
    BY <1>5, <1>7, <1>8, <2>1 DEF Long
  <2>2. ASSUME whole' PROVE Exact(run.plan)'
    BY <1>5, <1>7, <1>8, <2>2 DEF Exact, ExactLists, ExactSkills, ExactTexts, Added, Skill, Gap,
           load_record
  <2> QED
    BY <2>1, <2>2
<1>13. run'.remove /\ whole' => run'.targets = Markdown /\ Restored(run.plan)'
  BY <1>4, <1>5, <1>7, <1>8 DEF Restored
<1>14. ~run'.remove /\ run'.targets = Markdown => Installed(run.plan)'
  BY <1>6, <1>7, <1>8 DEF Installed, Unusable, Settled, Skill, load_record
<1>15. \A f \in Files : f \notin run'.todo => files'[f] = run'.plan[f]
  BY <1>7, <1>8
<1>16. RunInv'
  BY <1>11, <1>12, <1>13, <1>14, <1>15 DEF RunInv
<1>17. Kept(files)' /\ (whole' => Long(files)')
  BY <1>1, <1>3, <1>4, <1>7 DEF Kept, Long, Added, Skill, load_record
<1>18. Running'
  BY <1>8 DEF Running
<1> QED
  BY <1>10, <1>16, <1>17, <1>18 DEF IInv

LEMMA ApplyStep == IInv /\ Apply => IInv'
<1> SUFFICES ASSUME IInv, Apply PROVE IInv'
  OBVIOUS
<1>1. TypeOK /\ Kept(files) /\ Running /\ RunInv /\ run \in Runs
  BY DEF IInv, Apply, TypeOK
<1>2. FileOK(files) /\ FileOK(run.plan) /\ Kept(run.plan)
  BY <1>1 DEF TypeOK, RunInv
<1>3. PICK f \in Earliest(run.todo) : /\ files' = [files EXCEPT ![f] = run.plan[f]]
                                      /\ run' = [run EXCEPT !.todo = run.todo \ {f}]
  BY DEF Apply
<1>4. /\ UNCHANGED <<broken, shipped, native, whole, edits>>
      /\ run'.plan = run.plan /\ run'.remove = run.remove /\ run'.targets = run.targets
      /\ run'.todo = run.todo \ {f} /\ run' \in Runs'
  BY <1>1, <1>3 DEF Apply, Runs
<1> PICK H : H = files'
  OBVIOUS
<1>5. H = [g \in Files |-> H[g]] /\ \A g \in Files : H[g] = IF g = f THEN run.plan[g] ELSE files[g]
  <2>1. f \in Files
    BY <1>1, <1>3 DEF Runs, Earliest
  <2>2. files = [g \in Files |-> files[g]]
    BY <1>2 DEF FileOK
  <2> QED
    BY <1>3, <2>1, <2>2
<1>6. /\ FileOK(H) /\ Kept(H)
      /\ Long(files) /\ Long(run.plan) => Long(H)
  <2>1. \A g \in Files : H[g] \in {files[g], run.plan[g]}
    BY <1>5
  <2>2. FileOK(files) /\ FileOK(run.plan) /\ Kept(files) /\ Kept(run.plan)
    BY <1>1, <1>2
  <2>3. OnFiles(H)
    BY <1>5 DEF OnFiles
  <2> QED
    BY <2>1, <2>2, <2>3, MixedFiles
<1>7. TypeOK'
  <2>1. FileOK(files)' /\ FileOK(run.plan)'
    BY <1>2, <1>4, <1>6 DEF FileOK, load_record
  <2> QED
    BY <1>1, <1>4, <2>1 DEF TypeOK
<1>8. Kept(files)' /\ Kept(run.plan)'
  BY <1>2, <1>4, <1>6 DEF Kept, Added, Skill, load_record
<1>9. whole' => Long(files)'
  <2>1. whole => Long(files) /\ Long(run.plan)
    BY <1>1 DEF IInv, RunInv
  <2> QED
    BY <1>4, <1>6, <2>1 DEF Long
<1>10. Running'
  BY <1>1, <1>4 DEF Running
<1>11. RunInv'
  <2>1. whole' => Long(run.plan)' /\ Exact(run.plan)'
    BY <1>1, <1>4 DEF RunInv, Long, Exact, ExactLists, ExactSkills, ExactTexts, Added, Skill,
           Gap, load_record
  <2>2. \A g \in Files : g \notin run'.todo => files'[g] = run'.plan[g]
    BY <1>1, <1>4, <1>5 DEF RunInv
  <2>3. run'.remove /\ whole' => run'.targets = Markdown /\ Restored(run.plan)'
    BY <1>1, <1>4 DEF RunInv, Restored
  <2>4. ~run'.remove /\ run'.targets = Markdown => Installed(run.plan)'
    BY <1>1, <1>4 DEF RunInv, Installed, Unusable, Settled, Skill, load_record
  <2> QED
    BY <1>8, <2>1, <2>2, <2>3, <2>4 DEF RunInv
<1> QED
  BY <1>7, <1>8, <1>9, <1>10, <1>11 DEF IInv

\* With nothing left to do the files are the plan.
LEMMA NothingLeft ==
  ASSUME IInv, Running, run.todo = {}
  PROVE  files = run.plan
<1>1. \A f \in Files : files[f] = run.plan[f]
  BY DEF IInv, RunInv
<1>2. files = [f \in Files |-> files[f]] /\ run.plan = [f \in Files |-> run.plan[f]]
  BY DEF IInv, TypeOK, FileOK
<1> QED
  BY <1>1, <1>2

LEMMA FinishStep == IInv /\ Finish => IInv'
<1> SUFFICES ASSUME IInv, Finish PROVE IInv'
  OBVIOUS
<1>1. UNCHANGED <<files, broken, shipped, native, whole, edits>> /\ run' = Idle
  BY DEF Finish
<1>2. ~Running' /\ run' \in Runs'
  BY <1>1 DEF Running, Idle, Runs
<1>3. TypeOK'
  BY <1>1, <1>2 DEF IInv, TypeOK, FileOK, load_record
<1>4. whole => Exact(files)
  BY NothingLeft DEF Finish, IInv, RunInv
<1>5. Kept(files)' /\ (whole' => Long(files)')
  BY <1>1 DEF IInv, Kept, Long, Added, Skill, load_record
<1>6. whole' => Exact(files)'
  BY <1>1, <1>4 DEF Exact, ExactLists, ExactSkills, ExactTexts, Added, Skill, Gap, load_record
<1> QED
  BY <1>2, <1>3, <1>5, <1>6 DEF IInv, RunInv

\* A step between invocations after which some are known not to be whole.
LEMMA BrokenStep ==
  ASSUME IInv, NEW H, FileOK(H), Kept(H), files' = H,
         UNCHANGED <<broken, shipped, native>>, edits' \in 0..MaxEdits, whole' = FALSE,
         run' = Idle \/ (UNCHANGED run /\ ~Running)
  PROVE  IInv'
<1>1. ~Running' /\ run' \in Runs'
  <2>1. CASE run' = Idle
    BY <2>1 DEF Running, Idle, Runs
  <2>2. CASE UNCHANGED run /\ ~Running
    BY <2>2 DEF Running, Runs, IInv, TypeOK
  <2> QED
    BY <2>1, <2>2
<1>2. TypeOK'
  <2>1. FileOK(files)'
    BY DEF FileOK, load_record
  <2> QED
    BY <1>1, <2>1 DEF IInv, TypeOK
<1>3. Kept(files)'
  BY DEF Kept, Added, Skill, load_record
<1> QED
  BY <1>1, <1>2, <1>3 DEF IInv, RunInv

LEMMA KillStep == IInv /\ Kill => IInv'
<1> SUFFICES ASSUME IInv, Kill PROVE IInv'
  OBVIOUS
<1>1. /\ run' = Idle /\ whole' = FALSE /\ UNCHANGED <<broken, shipped, native, edits>>
      /\ files' = files \/ files' = [files EXCEPT ![Record] = None]
      /\ edits' \in 0..MaxEdits
  BY DEF Kill, IInv, TypeOK
<1>2. FileOK(files) /\ Kept(files)
  BY DEF IInv, TypeOK
<1>3. CASE files' = files
  BY <1>1, <1>2, <1>3, BrokenStep
<1>4. CASE files' = [files EXCEPT ![Record] = None]
  <2> PICK H : H = [files EXCEPT ![Record] = None]
    OBVIOUS
  <2>1. FileOK(H) /\ Kept(H)
    BY <1>2, RecordLost
  <2> QED
    BY <1>1, <1>4, <2>1, BrokenStep
<1> QED
  BY <1>1, <1>3, <1>4

-----------------------------------------------------------------------------
(* What happens between invocations.                                        *)

\* One file other than the record gets another value.
LEMMA EditedFiles ==
  ASSUME IInv, NEW f \in Files \ {Record}, NEW v, files' = [files EXCEPT ![f] = v],
         Edit, UNCHANGED <<broken, shipped, whole>>,
         DOMAIN native' = DOMAIN native
  PROVE  /\ ~Running' /\ run' \in Runs' /\ edits' \in 0..MaxEdits
         /\ files' = [g \in Files |-> files'[g]]
         /\ files'[f] = v /\ \A g \in Files \ {f} : files'[g] = files[g]
         /\ load_record(files)' = load_record(files)
         /\ \A l \in Lists : Added(files, l)' = Added(files, l)
         /\ \A s \in Skills : Skill(files, s)' = Skill(files, s)
         /\ \A t \in Markdown : Gap(files, t)' = Gap(files, t)
<1>1. ~Running' /\ run' \in Runs'
  BY DEF Edit, Running, Runs, IInv, TypeOK
<1>2. edits' \in 0..MaxEdits
  BY IntegrateAssumption DEF Edit, IInv, TypeOK
<1>3. files = [g \in Files |-> files[g]]
  BY DEF IInv, TypeOK, FileOK
<1>4. /\ files' = [g \in Files |-> files'[g]]
      /\ files'[f] = v /\ \A g \in Files \ {f} : files'[g] = files[g]
  BY <1>3
<1>5. load_record(files)' = load_record(files)
  BY <1>4, Disjoint DEF load_record
<1>6. /\ \A l \in Lists : Added(files, l)' = Added(files, l)
      /\ \A s \in Skills : Skill(files, s)' = Skill(files, s)
      /\ \A t \in Markdown : Gap(files, t)' = Gap(files, t)
  BY <1>5 DEF Added, Skill, Gap
<1> QED
  BY <1>1, <1>2, <1>4, <1>5, <1>6

LEMMA UpgradeStep ==
  ASSUME IInv, Edit, broken' \in BOOLEAN, shipped' \in Versions,
         UNCHANGED <<files, native, whole>>
  PROVE  IInv'
<1>1. ~Running' /\ ~Running /\ run' \in Runs' /\ edits' \in 0..MaxEdits
  BY IntegrateAssumption DEF Edit, Running, Runs, IInv, TypeOK
<1>2. TypeOK'
  BY <1>1 DEF IInv, TypeOK, FileOK, load_record
<1>3. Kept(files)' /\ (whole' => Long(files)')
  BY DEF IInv, Kept, Long, Added, Skill, load_record
<1>4. whole' => Exact(files)'
  BY <1>1 DEF IInv, Exact, ExactLists, ExactSkills, ExactTexts, Added, Skill, Gap, load_record
<1> QED
  BY <1>1, <1>2, <1>3, <1>4 DEF IInv, RunInv

LEMMA ListEdit ==
  ASSUME IInv, NEW l \in Lists, NEW V, NEW N,
         files' = [files EXCEPT ![l] = V], native' = [native EXCEPT ![l] = N],
         Edit, UNCHANGED <<broken, shipped, whole>>,
         V \subseteq Entries[l] \cup Header[l], N \subseteq Entries[l] \cap V, N \cap Added(files, l) = {},
         whole => /\ V \subseteq N \cup Added(files, l) \cup Header[l]
                  /\ Added(files, l) = {} => V \subseteq N
  PROVE  IInv'
<1>1. /\ ~Running' /\ run' \in Runs' /\ edits' \in 0..MaxEdits
      /\ files' = [g \in Files |-> files'[g]]
      /\ files'[l] = V /\ \A g \in Files \ {l} : files'[g] = files[g]
      /\ load_record(files)' = load_record(files)
      /\ \A k \in Lists : Added(files, k)' = Added(files, k)
      /\ \A s \in Skills : Skill(files, s)' = Skill(files, s)
      /\ \A k \in Markdown : Gap(files, k)' = Gap(files, k)
  <2>1. l \in Files \ {Record} /\ DOMAIN native' = DOMAIN native
    BY Disjoint
  <2> QED
    BY <2>1, EditedFiles
<1>2. /\ native'[l] = N /\ DOMAIN native' = DOMAIN native
      /\ \A g \in (Files \ {Record}) \ {l} : native'[g] = native[g]
  BY Disjoint DEF IInv, TypeOK
<1>3. TypeOK /\ Kept(files) /\ (whole => Long(files) /\ Exact(files))
  BY DEF IInv, Edit
<1>4. /\ \A t \in Markdown : files'[t] = files[t] /\ native'[t] = native[t]
      /\ \A s \in Skills : files'[s] = files[s] /\ native'[s] = native[s]
      /\ \A k \in Lists \ {l} : files'[k] = files[k] /\ native'[k] = native[k]
      /\ files'[Record] = files[Record]
  BY <1>1, <1>2, Disjoint
<1>5. FileOK(files)'
  BY <1>1, <1>3, <1>4 DEF TypeOK, FileOK
<1>6. TypeOK'
  BY <1>1, <1>2, <1>3, <1>4, <1>5 DEF TypeOK
<1>7. Kept(files)' /\ (whole' => Long(files)')
  <2>1. Kept(files)'
    <3>1. \A k \in Lists : native'[k] \subseteq files'[k] /\ native'[k] \cap Added(files, k)' = {}
      BY <1>1, <1>2, <1>3, <1>4 DEF Kept, Added, Skill, load_record
    <3>2. \A s \in Skills : native'[s] # None => files'[s] = native'[s]
      BY <1>1, <1>2, <1>3, <1>4 DEF Kept, Added, Skill, load_record
    <3>3. \A s \in Skills : Skill(files, s)' # None /\ Skill(files, s)'.created =>
            Skill(files, s)'.digest # Local /\ native'[s] \in {None, Local}
      BY <1>1, <1>2, <1>3, <1>4 DEF Kept, Added, Skill, load_record
    <3>4. \A k \in Markdown : native'[k] # None => files'[k] # None
      BY <1>1, <1>2, <1>3, <1>4 DEF Kept, Added, Skill, load_record
    <3> QED
      BY <3>1, <3>2, <3>3, <3>4 DEF Kept
  <2>2. whole' => Long(files)'
    BY <1>1, <1>2, <1>3, <1>4 DEF Long
  <2> QED
    BY <2>1, <2>2
<1>8. whole' => Exact(files)'
  <2> SUFFICES ASSUME whole' PROVE Exact(files)'
    OBVIOUS
  <2>0. whole
    OBVIOUS
  <2>1. ExactLists(files)'
    BY <1>1, <1>2, <1>3, <1>4, <2>0 DEF Exact, ExactLists, Added, load_record
  <2>2. ExactSkills(files)'
    BY <1>1, <1>2, <1>3, <1>4, <2>0 DEF Exact, ExactSkills, Skill, load_record
  <2>3. ExactTexts(files)'
    BY <1>1, <1>2, <1>3, <1>4, <2>0 DEF Exact, ExactTexts, Gap, load_record
  <2> QED
    BY <2>1, <2>2, <2>3 DEF Exact
<1> QED
  BY <1>1, <1>6, <1>7, <1>8 DEF IInv, RunInv

LEMMA TextEdit ==
  ASSUME IInv, NEW t \in Markdown, NEW V, NEW N,
         files' = [files EXCEPT ![t] = V], native' = [native EXCEPT ![t] = N],
         Edit, UNCHANGED <<broken, shipped, whole>>,
         V \in MarkdownFile \cup {None}, N \in Lines \cup {None},
         N # None => V # None /\ V.nl = N /\ V.block = None
  PROVE  IInv'
<1>1. /\ ~Running' /\ run' \in Runs' /\ edits' \in 0..MaxEdits
      /\ files' = [g \in Files |-> files'[g]]
      /\ files'[t] = V /\ \A g \in Files \ {t} : files'[g] = files[g]
      /\ load_record(files)' = load_record(files)
      /\ \A k \in Lists : Added(files, k)' = Added(files, k)
      /\ \A s \in Skills : Skill(files, s)' = Skill(files, s)
      /\ \A k \in Markdown : Gap(files, k)' = Gap(files, k)
  <2>1. t \in Files \ {Record} /\ DOMAIN native' = DOMAIN native
    BY Disjoint
  <2> QED
    BY <2>1, EditedFiles
<1>2. /\ native'[t] = N /\ DOMAIN native' = DOMAIN native
      /\ \A g \in (Files \ {Record}) \ {t} : native'[g] = native[g]
  BY Disjoint DEF IInv, TypeOK
<1>3. TypeOK /\ Kept(files) /\ (whole => Long(files) /\ Exact(files))
  BY DEF IInv, Edit
<1>4. /\ \A l \in Lists : files'[l] = files[l] /\ native'[l] = native[l]
      /\ \A s \in Skills : files'[s] = files[s] /\ native'[s] = native[s]
      /\ \A k \in Markdown \ {t} : files'[k] = files[k] /\ native'[k] = native[k]
      /\ files'[Record] = files[Record]
  BY <1>1, <1>2, Disjoint
<1>5. FileOK(files)'
  BY <1>1, <1>3, <1>4 DEF TypeOK, FileOK
<1>6. TypeOK'
  BY <1>1, <1>2, <1>3, <1>4, <1>5 DEF TypeOK
<1>7. Kept(files)' /\ (whole' => Long(files)')
  <2>1. Kept(files)'
    <3>1. \A k \in Lists : native'[k] \subseteq files'[k] /\ native'[k] \cap Added(files, k)' = {}
      BY <1>1, <1>2, <1>3, <1>4 DEF Kept, Added, Skill, load_record
    <3>2. \A s \in Skills : native'[s] # None => files'[s] = native'[s]
      BY <1>1, <1>2, <1>3, <1>4 DEF Kept, Added, Skill, load_record
    <3>3. \A s \in Skills : Skill(files, s)' # None /\ Skill(files, s)'.created =>
            Skill(files, s)'.digest # Local /\ native'[s] \in {None, Local}
      BY <1>1, <1>2, <1>3, <1>4 DEF Kept, Added, Skill, load_record
    <3>4. \A k \in Markdown : native'[k] # None => files'[k] # None
      BY <1>1, <1>2, <1>3, <1>4 DEF Kept, Added, Skill, load_record
    <3> QED
      BY <3>1, <3>2, <3>3, <3>4 DEF Kept
  <2>2. whole' => Long(files)'
    BY <1>1, <1>2, <1>3, <1>4 DEF Long, Lines
  <2> QED
    BY <2>1, <2>2
<1>8. whole' => Exact(files)'
  <2> SUFFICES ASSUME whole' PROVE Exact(files)'
    OBVIOUS
  <2>0. whole
    OBVIOUS
  <2>1. ExactLists(files)'
    BY <1>1, <1>2, <1>3, <1>4, <2>0 DEF Exact, ExactLists, Added, load_record
  <2>2. ExactSkills(files)'
    BY <1>1, <1>2, <1>3, <1>4, <2>0 DEF Exact, ExactSkills, Skill, load_record
  <2>3. ExactTexts(files)'
    BY <1>1, <1>2, <1>3, <1>4, <2>0 DEF Exact, ExactTexts, Gap, load_record
  <2> QED
    BY <2>1, <2>2, <2>3 DEF Exact
<1> QED
  BY <1>1, <1>6, <1>7, <1>8 DEF IInv, RunInv

LEMMA SkillEdit ==
  ASSUME IInv, NEW x \in Skills, NEW V \in {Local, None}, NEW N, N = V,
         files' = [files EXCEPT ![x] = V], native' = [native EXCEPT ![x] = N],
         Edit, UNCHANGED <<broken, shipped, whole>>
  PROVE  IInv'
<1>1. /\ ~Running' /\ run' \in Runs' /\ edits' \in 0..MaxEdits
      /\ files' = [g \in Files |-> files'[g]]
      /\ files'[x] = V /\ \A g \in Files \ {x} : files'[g] = files[g]
      /\ load_record(files)' = load_record(files)
      /\ \A k \in Lists : Added(files, k)' = Added(files, k)
      /\ \A s \in Skills : Skill(files, s)' = Skill(files, s)
      /\ \A k \in Markdown : Gap(files, k)' = Gap(files, k)
  <2>1. x \in Files \ {Record} /\ DOMAIN native' = DOMAIN native
    BY Disjoint
  <2> QED
    BY <2>1, EditedFiles
<1>2. /\ native'[x] = N /\ DOMAIN native' = DOMAIN native
      /\ \A g \in (Files \ {Record}) \ {x} : native'[g] = native[g]
  BY Disjoint DEF IInv, TypeOK
<1>3. TypeOK /\ Kept(files) /\ (whole => Long(files) /\ Exact(files))
  BY DEF IInv, Edit
<1>4. /\ \A l \in Lists : files'[l] = files[l] /\ native'[l] = native[l]
      /\ \A t \in Markdown : files'[t] = files[t] /\ native'[t] = native[t]
      /\ \A k \in Skills \ {x} : files'[k] = files[k] /\ native'[k] = native[k]
      /\ files'[Record] = files[Record]
  BY <1>1, <1>2, Disjoint
<1>5. FileOK(files)'
  BY <1>1, <1>3, <1>4 DEF TypeOK, FileOK, Texts
<1>6. TypeOK'
  BY <1>1, <1>2, <1>3, <1>4, <1>5 DEF TypeOK, Texts
<1>7. Kept(files)' /\ (whole' => Long(files)')
  <2>1. Kept(files)'
    <3>1. \A k \in Lists : native'[k] \subseteq files'[k] /\ native'[k] \cap Added(files, k)' = {}
      BY <1>1, <1>2, <1>3, <1>4 DEF Kept, Added, Skill, load_record
    <3>2. \A s \in Skills : native'[s] # None => files'[s] = native'[s]
      BY <1>1, <1>2, <1>3, <1>4 DEF Kept, Added, Skill, load_record
    <3>3. \A s \in Skills : Skill(files, s)' # None /\ Skill(files, s)'.created =>
            Skill(files, s)'.digest # Local /\ native'[s] \in {None, Local}
      BY <1>1, <1>2, <1>3, <1>4 DEF Kept, Added, Skill, load_record
    <3>4. \A k \in Markdown : native'[k] # None => files'[k] # None
      BY <1>1, <1>2, <1>3, <1>4 DEF Kept, Added, Skill, load_record
    <3> QED
      BY <3>1, <3>2, <3>3, <3>4 DEF Kept
  <2>2. whole' => Long(files)'
    BY <1>1, <1>2, <1>3, <1>4 DEF Long
  <2> QED
    BY <2>1, <2>2
<1>8. whole' => Exact(files)'
  <2> SUFFICES ASSUME whole' PROVE Exact(files)'
    OBVIOUS
  <2>0. whole
    OBVIOUS
  <2>1. ExactLists(files)'
    BY <1>1, <1>2, <1>3, <1>4, <2>0 DEF Exact, ExactLists, Added, load_record
  <2>2. ExactSkills(files)'
    BY <1>1, <1>2, <1>3, <1>4, <2>0 DEF Exact, ExactSkills, Skill, load_record
  <2>3. ExactTexts(files)'
    BY <1>1, <1>2, <1>3, <1>4, <2>0 DEF Exact, ExactTexts, Gap, load_record
  <2> QED
    BY <2>1, <2>2, <2>3 DEF Exact
<1> QED
  BY <1>1, <1>6, <1>7, <1>8 DEF IInv, RunInv

LEMMA EntryStep ==
  ASSUME IInv, NEW l \in Lists, NEW e \in Entries[l], AddEntry(l, e) \/ DropEntry(l, e)
  PROVE  IInv'
<1>1. /\ native[l] \subseteq files[l] /\ native[l] \cap Added(files, l) = {}
      /\ native[l] \subseteq Entries[l] /\ files[l] \subseteq Entries[l] \cup Header[l]
      /\ known.added[l] = Added(files, l)
  BY DEF IInv, TypeOK, FileOK, Kept, Added, known
<1>2. ~Running
  BY DEF AddEntry, DropEntry, Edit
<1>3. whole => /\ files[l] \subseteq native[l] \cup Added(files, l) \cup Header[l]
               /\ Added(files, l) = {} => files[l] \subseteq native[l]
  BY <1>2 DEF IInv, Exact, ExactLists, ExactSkills, ExactTexts
<1>4. CASE AddEntry(l, e)
  <2> PICK V, N : V = files[l] \cup {e} /\ N = native[l] \cup ({e} \ Added(files, l))
    OBVIOUS
  <2>1. /\ files' = [files EXCEPT ![l] = V] /\ native' = [native EXCEPT ![l] = N]
        /\ Edit /\ UNCHANGED <<broken, shipped, whole>>
    BY <1>1, <1>4 DEF AddEntry
  <2>2. /\ V \subseteq Entries[l] \cup Header[l] /\ N \subseteq Entries[l] \cap V /\ N \cap Added(files, l) = {}
        /\ whole => /\ V \subseteq N \cup Added(files, l) \cup Header[l]
                    /\ Added(files, l) = {} => V \subseteq N
    BY <1>1, <1>3
  <2> QED
    BY <2>1, <2>2, ListEdit
<1>5. CASE DropEntry(l, e)
  <2> PICK V, N : V = files[l] \ {e} /\ N = native[l] \ {e}
    OBVIOUS
  <2>1. /\ files' = [files EXCEPT ![l] = V] /\ native' = [native EXCEPT ![l] = N]
        /\ Edit /\ UNCHANGED <<broken, shipped, whole>>
    BY <1>5 DEF DropEntry
  <2>2. /\ V \subseteq Entries[l] \cup Header[l] /\ N \subseteq Entries[l] \cap V /\ N \cap Added(files, l) = {}
        /\ whole => /\ V \subseteq N \cup Added(files, l) \cup Header[l]
                    /\ Added(files, l) = {} => V \subseteq N
    BY <1>1, <1>3
  <2> QED
    BY <2>1, <2>2, ListEdit
<1> QED
  BY <1>4, <1>5

LEMMA TextStep ==
  ASSUME IInv, NEW t \in Markdown, NEW nl \in Lines, CutBlock(t) \/ DeleteText(t) \/ WriteText(t, nl)
  PROVE  IInv'
<1>1. files[t] \in MarkdownFile \cup {None}
  BY DEF IInv, TypeOK, FileOK
<1>2. CASE CutBlock(t)
  <2>1. files[t] # None /\ files[t].nl \in Lines /\ files[t] = [nl |-> files[t].nl, block |-> files[t].block]
    BY <1>1, <1>2 DEF CutBlock, MarkdownFile
  <2> PICK V, N : V = [nl |-> files[t].nl, block |-> None] /\ N = files[t].nl
    OBVIOUS
  <2>2. V \in MarkdownFile /\ V.nl = N /\ V.block = None /\ N \in Lines
    BY <2>1 DEF MarkdownFile
  <2>3. V # None
    BY <2>2, NoneAssumption
  <2>4. files' = [files EXCEPT ![t] = V]
    <3>1. [files[t] EXCEPT !.block = None] = V
      BY <2>1
    <3>2. files' = [files EXCEPT ![t].block = None]
      BY <1>2 DEF CutBlock
    <3> QED
      BY <3>1, <3>2
  <2>5. native' = [native EXCEPT ![t] = N] /\ Edit /\ UNCHANGED <<broken, shipped, whole>>
    BY <1>2 DEF CutBlock
  <2> QED
    BY <2>2, <2>3, <2>4, <2>5, TextEdit
<1>3. CASE DeleteText(t)
  BY <1>3, TextEdit DEF DeleteText
<1>4. CASE WriteText(t, nl)
  <2> PICK b : b = IF files[t] = None THEN None ELSE files[t].block
    OBVIOUS
  <2> PICK V, N : V = [nl |-> nl, block |-> b]
                  /\ N = IF files[t] = None \/ files[t].block = None THEN nl ELSE None
    OBVIOUS
  <2>1. b \in Versions \cup {None}
    BY <1>1 DEF MarkdownFile
  <2>2. V \in MarkdownFile /\ V.nl = nl /\ V.block = b
    BY <2>1 DEF MarkdownFile
  <2>3. V # None
    BY <2>2, NoneAssumption
  <2>4. N \in Lines \cup {None} /\ (N # None => V.nl = N /\ V.block = None)
    BY <2>2
  <2>5. files' = [files EXCEPT ![t] = V] /\ native' = [native EXCEPT ![t] = N]
        /\ Edit /\ UNCHANGED <<broken, shipped, whole>>
    BY <1>4 DEF WriteText
  <2> QED
    BY <2>2, <2>3, <2>4, <2>5, TextEdit
<1> QED
  BY <1>2, <1>3, <1>4

LEMMA ElsewhereStep == IInv /\ Elsewhere => IInv'
<1> SUFFICES ASSUME IInv, Elsewhere PROVE IInv'
  OBVIOUS
<1>1. ASSUME NEW v \in Versions, Upgrade(v) PROVE IInv'
  <2>1. broken' \in BOOLEAN
    BY <1>1 DEF Upgrade, IInv, TypeOK
  <2> QED
    BY <1>1, <2>1, UpgradeStep DEF Upgrade
<1>2. ASSUME ToggleSettings PROVE IInv'
  <2>1. broken' \in BOOLEAN /\ shipped' \in Versions
    BY <1>2 DEF ToggleSettings, IInv, TypeOK
  <2> QED
    BY <1>2, <2>1, UpgradeStep DEF ToggleSettings
<1>3. ASSUME NEW s \in Skills, NEW c \in {Local, None}, WriteSkill(s, c) PROVE IInv'
  BY <1>3, SkillEdit DEF WriteSkill
<1>4. ASSUME DeleteRecord PROVE IInv'
  <2> PICK F : F = files
    OBVIOUS
  <2> PICK H : H = [F EXCEPT ![Record] = None]
    OBVIOUS
  <2>1. FileOK(F) /\ Kept(F)
    BY DEF IInv, TypeOK
  <2>2. FileOK(H) /\ Kept(H)
    BY <2>1, RecordLost
  <2>3. /\ files' = H /\ whole' = FALSE /\ UNCHANGED <<broken, shipped, native, run>> /\ ~Running
        /\ edits' \in 0..MaxEdits
    BY <1>4, IntegrateAssumption DEF DeleteRecord, Edit, IInv, TypeOK
  <2> QED
    BY <2>2, <2>3, BrokenStep
<1>5. ASSUME NEW l \in Lists, NEW e \in Entries[l], AddEntry(l, e) \/ DropEntry(l, e) PROVE IInv'
  BY <1>5, EntryStep
<1>6. ASSUME NEW t \in Markdown, CutBlock(t) \/ DeleteText(t) PROVE IInv'
  <2>1. 0 \in Lines
    BY DEF Lines
  <2> QED
    BY <1>6, <2>1, TextStep
<1>7. ASSUME NEW t \in Markdown, NEW nl \in Lines, WriteText(t, nl) PROVE IInv'
  BY <1>7, TextStep
<1> QED
  BY <1>1, <1>2, <1>3, <1>4, <1>5, <1>6, <1>7 DEF Elsewhere

LEMMA IInvNext == IInv /\ [Next]_vars => IInv'
<1> SUFFICES ASSUME IInv, [Next]_vars PROVE IInv'
  OBVIOUS
<1>1. CASE UNCHANGED vars
  <2>1. TypeOK' /\ Kept(files)' /\ (whole' => Long(files)') /\ (whole' /\ ~Running' => Exact(files)')
    BY <1>1 DEF vars, IInv, TypeOK, FileOK, Runs, Running, Kept, Long, Exact, ExactLists,
           ExactSkills, ExactTexts, Added, Skill, Gap, load_record
  <2>2. RunInv'
    BY <1>1 DEF vars, IInv, RunInv, Running, Kept, Long, Exact, ExactLists, ExactSkills,
           ExactTexts, Restored, Installed, Unusable, Settled,
                Added, Skill, Gap, load_record
  <2> QED
    BY <2>1, <2>2 DEF IInv
<1>2. CASE Invoke
  <2>1. PICK remove \in BOOLEAN, targets \in (SUBSET Markdown) \ {{}} : Start(remove, targets)
    BY <1>2 DEF Invoke
  <2>2. targets \in SUBSET Markdown /\ targets # {}
    BY <2>1
  <2> QED
    BY <2>1, <2>2, StartStep
<1> QED
  BY <1>1, <1>2, ApplyStep, FinishStep, KillStep, ElsewhereStep DEF Next

-----------------------------------------------------------------------------
(* The theorems.                                                            *)

\* Every file, and every plan, holds what its kind holds.
THEOREM TypeCorrect == Spec => []TypeOK
<1>1. IInv => TypeOK
  BY DEF IInv
<1> QED
  BY IInvInit, IInvNext, <1>1, PTL DEF Spec

\* "What the integrator adds it can take back, and nothing else": no install,
\* removal, upgrade, kill or lost record takes anything of the project's
\* (integrate.py: build_plan, apply).
THEOREM ProjectAlwaysSurvives == Spec => []ProjectSurvives
<1>1. IInv => ProjectSurvives
  BY DEF IInv, Kept, Long, ProjectSurvives
<1> QED
  BY IInvInit, IInvNext, <1>1, PTL DEF Spec

\* Over any number of whole installs, upgrades and edits, a removal leaves
\* exactly what is the project's (integrate.py: _settings_remove,
\* _gitignore_remove, remove_block, _skill_actions).
THEOREM RemoveAlwaysRestores == Spec => []RemoveRestores
<1>1. IInv => RemoveRestores
  BY NothingLeft DEF IInv, RunInv, RemoveRestores, Finished, Restored
<1> QED
  BY IInvInit, IInvNext, <1>1, PTL DEF Spec

\* A finished install leaves a second one nothing to do, whatever was half done
\* before it (integrate.py: build_plan, main --check).
THEOREM InstallAlwaysIdempotent == Spec => []InstallIsIdempotent
<1>1. IInv => InstallIsIdempotent
  <2> SUFFICES ASSUME IInv, Finished(FALSE) PROVE build_plan(FALSE, Markdown) = files
    BY DEF InstallIsIdempotent
  <2>1. files = run.plan /\ Installed(run.plan)
    BY NothingLeft DEF Finished, IInv, RunInv
  <2>2. Installed(files)
    BY <2>1
  <2> QED
    BY <2>2, InstalledStays DEF IInv
<1> QED
  BY IInvInit, IInvNext, <1>1, PTL DEF Spec

=============================================================================
