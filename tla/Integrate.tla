----------------------------- MODULE Integrate -----------------------------
(***************************************************************************)
(* tools/integrate.py: announcing the vendored discipline in files the     *)
(* project owns, and taking the announcement back out.  The whole plan is  *)
(* computed from the files as they are and then applied, one file after    *)
(* the other, without being looked at again; the integration record, which *)
(* says what a later --remove may take back, is written last.              *)
(*                                                                         *)
(* The project's people, and new releases of the corpus, change things     *)
(* between two invocations; an invocation may be killed between two files. *)
(***************************************************************************)
EXTENDS Naturals

CONSTANTS
    Markdown,    \* MARKDOWN_TARGETS
    Skills,      \* SKILL_TARGETS
    Order,       \* the place of every file in a plan
    Settings, Gitignore,  \* the two files that are lists of entries
    Record,      \* integration-record.json
    PERMISSIONS, GITIGNORE_ENTRIES, GITIGNORE_HEADER,
    Versions,    \* releases of the corpus
    FirstVersions, \* those a project may start with
    SkillText,   \* the skill each release ships, or None
    Local,       \* a skill file no release ships
    Projects,    \* what projects hold before the first invocation
    MaxEdits,    \* bound on what happens between invocations
    None

Lists   == {Settings, Gitignore}
Files   == Markdown \cup Skills \cup Lists \cup {Record}
Texts   == {SkillText[v] : v \in Versions} \cup {Local}
Entries == [l \in Lists |-> IF l = Settings THEN PERMISSIONS ELSE GITIGNORE_ENTRIES]
Header  == [l \in Lists |-> IF l = Settings THEN {} ELSE {GITIGNORE_HEADER}]

ASSUME IntegrateAssumption ==
    /\ Order \in [Files -> Nat]
    /\ Settings # Gitignore /\ Record \notin Markdown \cup Skills \cup Lists
    /\ Markdown \cap Skills = {} /\ (Markdown \cup Skills) \cap Lists = {}
    /\ GITIGNORE_HEADER \notin GITIGNORE_ENTRIES
    /\ SkillText \in [Versions -> Texts \cup {None}]
    /\ FirstVersions \subseteq Versions /\ MaxEdits \in Nat
    /\ \A v \in Versions : SkillText[v] # Local
    /\ \A p \in Projects :
          /\ DOMAIN p = Files \ {Record}
          /\ \A t \in Markdown : p[t] \in 0..2 \cup {None}
          /\ \A s \in Skills : p[s] \in Texts \cup {None}
          /\ \A l \in Lists : p[l] \subseteq Entries[l]

VARIABLES
    files,   \* the files an invocation may write
    broken,  \* settings.json does not parse
    shipped, \* the release that is vendored
    run,     \* the invocation in progress, or Idle
    native,  \* history: what the project itself has put in those files
    whole,   \* history: every invocation so far was complete
    edits    \* bound: what happened between invocations

vars == <<files, broken, shipped, run, native, whole, edits>>

-----------------------------------------------------------------------------
(* The values of the files.  A markdown file is the number of newlines the *)
(* text in front of the managed block ends with, and the release the block *)
(* names; text elsewhere is never touched and has no part here.  A list is *)
(* the set of its entries.  The record says which entries were absent,     *)
(* which separator was inserted, and which skill file was created.         *)

Lines == 0..2

MarkdownFile == [nl : Lines, block : Versions \cup {None}]
Ownership    == [created : BOOLEAN, digest : Texts \cup {None}]
RecordFile   == [added : [Lists -> SUBSET UNION {Entries[l] : l \in Lists}],
                 gaps : [Markdown -> Lines \cup {None}],
                 skills : [Skills -> Ownership \cup {None}]]

\* None stands for what is not there, and is none of these.
ASSUME NoneAssumption ==
    /\ None \notin Versions /\ None \notin Lines /\ None # Local
    /\ None \notin MarkdownFile /\ None \notin Ownership /\ None \notin RecordFile

empty_record == [added |-> [l \in Lists |-> {}], gaps |-> [t \in Markdown |-> None],
                 skills |-> [s \in Skills |-> None]]

\* load_record: a damaged record is no record, and no record owns nothing.
load_record(F) == IF F[Record] = None THEN empty_record ELSE F[Record]

record == files[Record]
known  == load_record(files)

-----------------------------------------------------------------------------
(* build_plan: what each file will hold after the invocation.              *)

\* exactly one blank line goes between existing text and an inserted block
Separator(nl) == 2 - nl

\* an insertion happens whether or not a block is there already
MarkdownAfter_growing(t, remove) ==
    LET f == files[t] gap == known.gaps[t] IN
    IF remove
    THEN IF f = None \/ f.block = None THEN f
         ELSE [nl |-> IF gap # None /\ f.nl >= gap THEN f.nl - gap ELSE f.nl,
               block |-> None]
    ELSE IF f = None THEN [nl |-> 1, block |-> shipped]
         ELSE [nl |-> f.nl + (IF f.nl = 2 THEN 0 ELSE 1), block |-> shipped]

MarkdownAfter(t, remove) ==
    LET f == files[t] gap == known.gaps[t] IN
    IF remove
    THEN IF f = None \/ f.block = None THEN f
         ELSE [nl |-> IF gap # None /\ f.nl >= gap THEN f.nl - gap ELSE f.nl,
               block |-> None]
    ELSE IF f = None THEN [nl |-> 2, block |-> shipped]
         ELSE IF f.block # None THEN [f EXCEPT !.block = shipped]
         ELSE [nl |-> f.nl + Separator(f.nl), block |-> shipped]

Inserts(t) == files[t] # None /\ files[t].block = None

\* the file is the one this installer wrote, untouched since
Owned(s) == LET e == known.skills[s] IN e # None /\ e.created /\ e.digest = files[s]

SkillAfter(s, remove) ==
    LET f == files[s] source == SkillText[shipped] IN
    IF remove THEN IF f # None /\ Owned(s) THEN None ELSE f
    ELSE IF source # None /\ (f = None \/ Owned(s)) THEN source ELSE f

SkillEntry(s) ==
    LET f == files[s] e == known.skills[s] source == SkillText[shipped] IN
    IF source = None THEN e
    ELSE IF f = None \/ (f # source /\ Owned(s)) THEN [created |-> TRUE, digest |-> source]
    ELSE IF f = source THEN [created |-> e # None /\ e.created, digest |-> source]
    ELSE IF e # None THEN e ELSE [created |-> FALSE, digest |-> f]

Unusable(l) == l = Settings /\ broken
Missing(l)  == IF Unusable(l) THEN {} ELSE Entries[l] \ files[l]

ListAfter(l, remove) ==
    LET f == files[l] added == known.added[l] IN
    IF Unusable(l) THEN f
    ELSE IF remove THEN IF added = {} THEN f ELSE f \ (added \cup Header[l])
    ELSE IF Missing(l) = {} THEN f ELSE f \cup Missing(l) \cup Header[l]

\* the absence test is dropped: everything of ours is recorded as added by us
RecordAfter_claimsAll(remove, targets) ==
    IF remove THEN IF record = None THEN None ELSE empty_record
    ELSE [added  |-> [l \in Lists |-> Entries[l]],
          gaps   |-> [t \in Markdown |-> IF t \in targets /\ Inserts(t)
                                         THEN Separator(files[t].nl) ELSE known.gaps[t]],
          skills |-> [s \in Skills |-> SkillEntry(s)]]

\* the record of a re-run replaces the earlier one instead of extending it
RecordAfter_forgets(remove, targets) ==
    IF remove THEN IF record = None THEN None ELSE empty_record
    ELSE [added  |-> [l \in Lists |-> Missing(l)],
          gaps   |-> [t \in Markdown |-> IF t \in targets /\ Inserts(t)
                                         THEN Separator(files[t].nl) ELSE known.gaps[t]],
          skills |-> [s \in Skills |-> SkillEntry(s)]]

\* _record_actions: emptied by any removal, never created by one.
RecordAfter(remove, targets) ==
    IF remove THEN IF record = None THEN None ELSE empty_record
    ELSE [added  |-> [l \in Lists |-> known.added[l] \cup Missing(l)],
          gaps   |-> [t \in Markdown |-> IF t \in targets /\ Inserts(t)
                                         THEN Separator(files[t].nl) ELSE known.gaps[t]],
          skills |-> [s \in Skills |-> SkillEntry(s)]]

build_plan(remove, targets) ==
    [f \in Files |->
        IF f \in Markdown
        THEN IF f \in targets THEN MarkdownAfter(f, remove) ELSE files[f]
        ELSE IF f \in Skills THEN SkillAfter(f, remove)
        ELSE IF f \in Lists THEN ListAfter(f, remove)
        ELSE RecordAfter(remove, targets)]

-----------------------------------------------------------------------------
(* An invocation.                                                          *)

Idle == [remove |-> FALSE, targets |-> {}, plan |-> << >>, todo |-> {}]
Running == run.targets # {}

Earliest(todo) == {f \in todo : \A g \in todo : Order[f] <= Order[g]}

Start(remove, targets) ==
    LET plan == build_plan(remove, targets) IN
    /\ ~Running
    /\ run' = [remove |-> remove, targets |-> targets, plan |-> plan,
               todo |-> {f \in Files : plan[f] # files[f]}]
    /\ whole' = (whole /\ (remove => targets = Markdown /\ ~broken))
    /\ UNCHANGED <<files, broken, shipped, native, edits>>

\* apply: the next changing file gets the text that was planned for it.
Apply ==
    /\ Running
    /\ \E f \in Earliest(run.todo) :
          /\ files' = [files EXCEPT ![f] = run.plan[f]]
          /\ run' = [run EXCEPT !.todo = run.todo \ {f}]
    /\ UNCHANGED <<broken, shipped, native, whole, edits>>

Finish ==
    /\ Running /\ run.todo = {}
    /\ run' = Idle
    /\ UNCHANGED <<files, broken, shipped, native, whole, edits>>

\* Killed between two files, or while writing the record, which then does not
\* parse and counts as none.
Kill ==
    /\ Running /\ run.todo # {}
    /\ run' = Idle /\ whole' = FALSE
    /\ \/ UNCHANGED files
       \/ Record \in Earliest(run.todo) /\ files' = [files EXCEPT ![Record] = None]
    /\ UNCHANGED <<broken, shipped, native, edits>>

-----------------------------------------------------------------------------
(* Between invocations.                                                    *)

Edit ==
    /\ ~Running /\ edits < MaxEdits /\ edits' = edits + 1
    /\ UNCHANGED run

\* vendor.py installs another release.
Upgrade(v) ==
    /\ Edit /\ v # shipped /\ shipped' = v
    /\ UNCHANGED <<files, broken, native, whole>>

\* An entry the project adds is its own unless the record vouches for it: the
\* values are the same, and only the record can tell them apart.
AddEntry(l, e) ==
    /\ Edit /\ ~Unusable(l) /\ e \in Entries[l] \ files[l]
    /\ files' = [files EXCEPT ![l] = @ \cup {e}]
    /\ native' = [native EXCEPT ![l] = @ \cup ({e} \ known.added[l])]
    /\ UNCHANGED <<broken, shipped, whole>>

DropEntry(l, e) ==
    /\ Edit /\ ~Unusable(l) /\ e \in files[l]
    /\ files' = [files EXCEPT ![l] = @ \ {e}]
    /\ native' = [native EXCEPT ![l] = @ \ {e}]
    /\ UNCHANGED <<broken, shipped, whole>>

\* settings.json stops being JSON, or is mended.
ToggleSettings ==
    /\ Edit /\ broken' = ~broken
    /\ UNCHANGED <<files, shipped, native, whole>>

\* The text in front of the block, or of a file without one, is rewritten.
\* Where a block stands, whose blank lines they are is not decidable any more.
WriteText(t, nl) ==
    /\ Edit /\ (files[t] # None => files[t].nl # nl)
    /\ files' = [files EXCEPT ![t] = [nl |-> nl, block |-> IF @ = None THEN None ELSE @.block]]
    /\ native' = [native EXCEPT ![t] = IF files[t] = None \/ files[t].block = None
                                       THEN nl ELSE None]
    /\ UNCHANGED <<broken, shipped, whole>>

\* The block is cut out by hand: the text, blank lines included, is now theirs.
CutBlock(t) ==
    /\ Edit /\ files[t] # None /\ files[t].block # None
    /\ files' = [files EXCEPT ![t].block = None]
    /\ native' = [native EXCEPT ![t] = files[t].nl]
    /\ UNCHANGED <<broken, shipped, whole>>

DeleteText(t) ==
    /\ Edit /\ files[t] # None
    /\ files' = [files EXCEPT ![t] = None] /\ native' = [native EXCEPT ![t] = None]
    /\ UNCHANGED <<broken, shipped, whole>>

\* A skill file is edited or deleted.  (A release's text put there by hand is
\* left out: nothing but the record could tell it from the installer's own.)
WriteSkill(s, c) ==
    /\ Edit /\ files[s] # c
    /\ files' = [files EXCEPT ![s] = c] /\ native' = [native EXCEPT ![s] = c]
    /\ UNCHANGED <<broken, shipped, whole>>

DeleteRecord ==
    /\ Edit /\ record # None
    /\ files' = [files EXCEPT ![Record] = None]
    /\ whole' = FALSE
    /\ UNCHANGED <<broken, shipped, native>>

Elsewhere ==
    \/ \E v \in Versions : Upgrade(v)
    \/ \E l \in Lists : \E e \in Entries[l] : AddEntry(l, e) \/ DropEntry(l, e)
    \/ \E t \in Markdown : CutBlock(t) \/ DeleteText(t) \/ \E nl \in Lines : WriteText(t, nl)
    \/ \E s \in Skills, c \in {Local, None} : WriteSkill(s, c)
    \/ ToggleSettings \/ DeleteRecord

-----------------------------------------------------------------------------
\* A project that has not been integrated yet, whatever it already holds.
Init ==
    /\ native \in Projects
    /\ files = [f \in Files |->
            IF f = Record THEN None
            ELSE IF f \in Markdown /\ native[f] # None
                 THEN [nl |-> native[f], block |-> None] ELSE native[f]]
    /\ broken = FALSE /\ shipped \in FirstVersions /\ run = Idle
    /\ whole = TRUE /\ edits = 0

Invoke == \E remove \in BOOLEAN, targets \in (SUBSET Markdown) \ {{}} : Start(remove, targets)

Next == Invoke \/ Apply \/ Finish \/ Kill \/ Elsewhere

Spec == Init /\ [][Next]_vars

-----------------------------------------------------------------------------
(* Properties.                                                             *)

\* Every file holds what its kind holds, now and in the plan, the record names
\* only entries the integrator may add, and the project's part is the project's.
FileOK(F) ==
    /\ F = [f \in Files |-> F[f]]
    /\ \A t \in Markdown : F[t] \in MarkdownFile \cup {None}
    /\ \A s \in Skills : F[s] \in Texts \cup {None}
    /\ \A l \in Lists : F[l] \subseteq Entries[l] \cup Header[l]
    /\ F[Record] \in RecordFile \cup {None}
    /\ \A l \in Lists : load_record(F).added[l] \subseteq Entries[l]

Runs == [remove : BOOLEAN, targets : SUBSET Markdown, plan : {run.plan}, todo : SUBSET Files]

TypeOK ==
    /\ FileOK(files)
    /\ broken \in BOOLEAN /\ shipped \in Versions /\ whole \in BOOLEAN /\ edits \in 0..MaxEdits
    /\ run \in Runs /\ (Running => FileOK(run.plan))
    /\ DOMAIN native = Files \ {Record}
    /\ \A t \in Markdown : native[t] \in Lines \cup {None}
    /\ \A s \in Skills : native[s] \in Texts \cup {None}
    /\ \A l \in Lists : native[l] \subseteq Entries[l]

\* "What the integrator adds it can take back, and nothing else": whatever was
\* installed, upgraded, removed or killed in whatever order, every entry and
\* skill file the project itself put there is still there; and so is every
\* newline its text ends with, unless a kill has left a separator on record
\* that is not the one in the file.
ProjectSurvives ==
    /\ \A l \in Lists : native[l] \subseteq files[l]
    /\ \A s \in Skills : native[s] # None => files[s] = native[s]
    /\ \A t \in Markdown : native[t] # None =>
          files[t] # None /\ (whole => files[t].nl >= native[t])

Finished(remove) == Running /\ run.todo = {} /\ run.remove = remove
                    /\ run.targets = Markdown

\* INTEGRATION.md:157-163: as long as no invocation was killed or partial, a
\* removal leaves exactly what the project itself has put in its files: entries
\* and header, skill files, blocks and blank lines, over any number of installs,
\* upgrades and edits before it.
RemoveRestores ==
    Finished(TRUE) /\ whole =>
        /\ \A l \in Lists : files[l] = native[l]
        /\ \A s \in Skills : files[s] = native[s]
        /\ \A t \in Markdown :
              files[t] # None => /\ files[t].block = None
                                 /\ native[t] # None => files[t].nl = native[t]

\* When an install ends, --check and a second install find nothing to change,
\* whatever an earlier invocation left half done.
InstallIsIdempotent ==
    Finished(FALSE) => build_plan(FALSE, Markdown) = files

=============================================================================
