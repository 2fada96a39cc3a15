------------------------------- MODULE Vendor -------------------------------
(***************************************************************************)
(* tools/vendor.py: copying an upstream checkout into a project's .agent/, *)
(* and judging afterwards how far the copy has drifted.  The upstream half *)
(* is replaced wholesale, the project half is created once and never       *)
(* touched again, and the manifest is published last.                      *)
(*                                                                         *)
(* A step is one file removed, copied or written, so an install may be     *)
(* killed anywhere; meanwhile the upstream checkout may move to another    *)
(* release, and the project's own people and tools go on working.          *)
(***************************************************************************)
EXTENDS Naturals, Sequences, FiniteSets

CONSTANTS
    Paths,          \* every file either side may hold
    DirOf,          \* the directory a path is in; a root-level file is in Root
    UPSTREAM,       \* the upstream directories, in order
    UPSTREAM_FILES, \* the root-level files copied
    PROJECT_OWNED,  \* the project's directories, in order
    LEARNING_SEED,  \* the files of learning/ an install may seed
    Derived,        \* caches and build products (SKIP_SUFFIXES, SKIP_DIRS)
    Contents,       \* what a file may hold
    Corpora,        \* the states the upstream checkout goes through
    Edits,          \* <<path, content>>: what people and tools do to .agent/
    Learning, Root, \* the directory learning/, and no directory at all
    Absent, Torn    \* no file; a file whose writing was cut short

Rng(s) == {s[i] : i \in 1..Len(s)}
In(d)  == {p \in Paths : DirOf[p] = d}
ProjectPaths  == {p \in Paths : DirOf[p] \in Rng(PROJECT_OWNED)}
UpstreamPaths == {p \in Paths : DirOf[p] \in Rng(UPSTREAM)} \cup UPSTREAM_FILES

ASSUME VendorAssumption ==
    /\ UPSTREAM \in Seq(Rng(UPSTREAM)) /\ PROJECT_OWNED \in Seq(Rng(PROJECT_OWNED))
    /\ DirOf \in [Paths -> Rng(UPSTREAM) \cup Rng(PROJECT_OWNED) \cup {Root}]
    /\ \A i, j \in 1..Len(UPSTREAM) : UPSTREAM[i] = UPSTREAM[j] => i = j
    /\ Rng(UPSTREAM) \cap Rng(PROJECT_OWNED) = {}
    /\ Root \notin Rng(UPSTREAM) \cup Rng(PROJECT_OWNED)
    /\ UPSTREAM_FILES \subseteq In(Root) /\ LEARNING_SEED \subseteq In(Learning)
    /\ Learning \in Rng(PROJECT_OWNED)
    /\ Absent \notin Contents /\ Torn \notin Contents /\ Absent # Torn
    /\ Corpora \subseteq [Paths -> Contents \cup {Absent}]
    /\ Edits \subseteq Paths \X (Contents \cup {Absent})

VARIABLES
    source,   \* the upstream checkout
    target,   \* .agent/ of the project, both halves
    owned,    \* the project directories that exist in it
    manifest, \* what MANIFEST.json records: paths to digests; Absent, or Torn
    run,      \* the install in progress
    kept      \* history: project files in place since the install began

vars == <<source, target, owned, manifest, run, kept>>

-----------------------------------------------------------------------------
(* iter_upstream, build_manifest and check.                                *)

Ships(d) == \E p \in In(d) : source[p] # Absent

iter_upstream == {p \in UpstreamPaths \ Derived : source[p] # Absent}

\* A digest stands for the content it was computed from.
build_manifest == [p \in iter_upstream |-> source[p]]

\* check: the version stamp is a hash of the recorded files, so equal versions
\* are equal records; a torn manifest does not even decode.
InStep(man) ==
    /\ man = build_manifest
    /\ \A p \in iter_upstream : target[p] = source[p]
    /\ owned = Rng(PROJECT_OWNED)

-----------------------------------------------------------------------------
(* The install: pc says what the next step does; at is the position in     *)
(* UPSTREAM or PROJECT_OWNED, todo the files still to treat, seed the file *)
(* found absent, built the manifest about to be published; steady is       *)
(* history: nobody else has changed a file since the install began.        *)

Pcs == {"idle", "enter", "remove", "copy", "roots", "scaffold", "seed", "place",
        "build", "empty", "publish"}

NoFiles == [p \in {} |-> Absent]

Idle == [pc |-> "idle", force |-> FALSE, at |-> 1, todo |-> {}, seed |-> Absent,
         built |-> NoFiles, steady |-> FALSE]

\* The files of learning and overrides are untouched by steps that use this.
Untouched == UNCHANGED <<source, kept>>

StartInstall(force) ==
    /\ run.pc = "idle"
    /\ run' = [Idle EXCEPT !.pc = "enter", !.force = force, !.steady = TRUE]
    /\ kept' = {p \in ProjectPaths : target[p] # Absent}
    /\ UNCHANGED <<source, target, owned, manifest>>

\* _replace_upstream: a directory missing from the source is left as it stands.
EnterDir ==
    /\ run.pc = "enter"
    /\ IF run.at > Len(UPSTREAM)
       THEN run' = [run EXCEPT !.pc = "roots", !.todo = UPSTREAM_FILES]
       ELSE IF Ships(UPSTREAM[run.at])
            THEN run' = [run EXCEPT !.pc = "remove"]
            ELSE run' = [run EXCEPT !.at = @ + 1]
    /\ UNCHANGED <<target, owned, manifest>> /\ Untouched

\* files are copied over the tree that is there
ListDir_noRmtree ==
    /\ run.pc = "remove"
    /\ run' = [run EXCEPT !.pc = "copy", !.todo = iter_upstream \cap In(UPSTREAM[run.at])]
    /\ UNCHANGED <<target, owned, manifest>> /\ Untouched

\* shutil.rmtree, one file at a time.
RemoveFile(p) ==
    /\ run.pc = "remove" /\ DirOf[p] = UPSTREAM[run.at] /\ target[p] # Absent
    /\ target' = [target EXCEPT ![p] = Absent]
    /\ UNCHANGED <<owned, manifest, run>> /\ Untouched

ListDir ==
    /\ run.pc = "remove" /\ \A p \in In(UPSTREAM[run.at]) : target[p] = Absent
    /\ run' = [run EXCEPT !.pc = "copy", !.todo = iter_upstream \cap In(UPSTREAM[run.at])]
    /\ UNCHANGED <<target, owned, manifest>> /\ Untouched

\* A listed file that has meanwhile gone from the source ends the command.
CopyFile(p) ==
    /\ run.pc = "copy" /\ p \in run.todo
    /\ IF source[p] = Absent
       THEN run' = Idle /\ UNCHANGED target
       ELSE /\ target' = [target EXCEPT ![p] = source[p]]
            /\ run' = [run EXCEPT !.todo = @ \ {p}]
    /\ UNCHANGED <<owned, manifest>> /\ Untouched

\* a root-level file is copied only when the target has none
CopyRoot_onlyNew(p) ==
    /\ run.pc = "roots" /\ p \in run.todo
    /\ target' = IF source[p] = Absent \/ target[p] # Absent
                 THEN target ELSE [target EXCEPT ![p] = source[p]]
    /\ run' = [run EXCEPT !.todo = @ \ {p}]
    /\ UNCHANGED <<owned, manifest>> /\ Untouched

NextDir ==
    /\ run.pc = "copy" /\ run.todo = {}
    /\ run' = [run EXCEPT !.pc = "enter", !.at = @ + 1]
    /\ UNCHANGED <<target, owned, manifest>> /\ Untouched

CopyRoot(p) ==
    /\ run.pc = "roots" /\ p \in run.todo
    /\ target' = IF source[p] = Absent THEN target ELSE [target EXCEPT ![p] = source[p]]
    /\ run' = [run EXCEPT !.todo = @ \ {p}]
    /\ UNCHANGED <<owned, manifest>> /\ Untouched

RootsDone ==
    /\ run.pc = "roots" /\ run.todo = {}
    /\ run' = [run EXCEPT !.pc = "scaffold", !.at = 1]
    /\ UNCHANGED <<target, owned, manifest>> /\ Untouched

\* an existing directory is skipped, forced or not
MakeProjectDir_ignoresForce ==
    /\ run.pc = "scaffold"
    /\ IF run.at > Len(PROJECT_OWNED)
       THEN run' = [run EXCEPT !.pc = "build"] /\ UNCHANGED owned
       ELSE LET name == PROJECT_OWNED[run.at] IN
            /\ owned' = owned \cup {name}
            /\ run' = IF name \in owned \/ name # Learning
                      THEN [run EXCEPT !.at = @ + 1]
                      ELSE [run EXCEPT !.pc = "seed", !.todo = LEARNING_SEED]
    /\ UNCHANGED <<target, manifest>> /\ Untouched

\* _seed_project_half: an existing directory is skipped whole unless forced,
\* and only learning/ receives seeds.
MakeProjectDir ==
    /\ run.pc = "scaffold"
    /\ IF run.at > Len(PROJECT_OWNED)
       THEN run' = [run EXCEPT !.pc = "build"] /\ UNCHANGED owned
       ELSE LET name == PROJECT_OWNED[run.at] IN
            /\ owned' = owned \cup {name}
            /\ run' = IF (name \in owned /\ ~run.force) \/ name # Learning
                      THEN [run EXCEPT !.at = @ + 1]
                      ELSE [run EXCEPT !.pc = "seed", !.todo = LEARNING_SEED]
    /\ UNCHANGED <<target, manifest>> /\ Untouched

\* the seed is copied whether or not the project has one
ConsiderSeed_overwrites(p) ==
    /\ run.pc = "seed" /\ p \in run.todo
    /\ run' = IF source[p] # Absent
              THEN [run EXCEPT !.pc = "place", !.seed = p, !.todo = @ \ {p}]
              ELSE [run EXCEPT !.todo = @ \ {p}]
    /\ UNCHANGED <<target, owned, manifest>> /\ Untouched

\* The test for a seed's absence...
ConsiderSeed(p) ==
    /\ run.pc = "seed" /\ p \in run.todo
    /\ run' = IF source[p] # Absent /\ target[p] = Absent
              THEN [run EXCEPT !.pc = "place", !.seed = p, !.todo = @ \ {p}]
              ELSE [run EXCEPT !.todo = @ \ {p}]
    /\ UNCHANGED <<target, owned, manifest>> /\ Untouched

\* ...and the copy that follows it.  Either directory may have gone meanwhile.
PlaceSeed ==
    /\ run.pc = "place"
    /\ IF source[run.seed] = Absent \/ Learning \notin owned
       THEN run' = Idle /\ UNCHANGED target
       ELSE /\ target' = [target EXCEPT ![run.seed] = source[run.seed]]
            /\ run' = [run EXCEPT !.pc = "seed", !.seed = Absent]
    /\ UNCHANGED <<owned, manifest>> /\ Untouched

SeedsDone ==
    /\ run.pc = "seed" /\ run.todo = {}
    /\ run' = [run EXCEPT !.pc = "scaffold", !.at = @ + 1]
    /\ UNCHANGED <<target, owned, manifest>> /\ Untouched

BuildManifest ==
    /\ run.pc = "build"
    /\ run' = [run EXCEPT !.pc = "empty", !.built = build_manifest]
    /\ UNCHANGED <<target, owned, manifest>> /\ Untouched

\* write_text opens the file, which empties it, and then writes.
EmptyManifest ==
    /\ run.pc = "empty"
    /\ manifest' = Torn
    /\ run' = [run EXCEPT !.pc = "publish"]
    /\ UNCHANGED <<target, owned>> /\ Untouched

PublishManifest ==
    /\ run.pc = "publish"
    /\ manifest' = run.built
    /\ run' = Idle
    /\ UNCHANGED <<target, owned>> /\ Untouched

\* Killed between two steps, or in the middle of copying a file.
Crash ==
    /\ run.pc # "idle" /\ run' = Idle
    /\ \/ UNCHANGED target
       \/ /\ run.pc \in {"copy", "roots"}
          /\ \E p \in run.todo : target' = [target EXCEPT ![p] = Torn]
       \/ /\ run.pc = "place" /\ Learning \in owned
          /\ target' = [target EXCEPT ![run.seed] = Torn]
    /\ UNCHANGED <<owned, manifest>> /\ Untouched

InstallStep ==
    \/ EnterDir \/ ListDir \/ NextDir \/ RootsDone
    \/ MakeProjectDir \/ PlaceSeed \/ SeedsDone
    \/ BuildManifest \/ EmptyManifest \/ PublishManifest \/ Crash
    \/ \E p \in Paths : RemoveFile(p) \/ CopyFile(p) \/ CopyRoot(p) \/ ConsiderSeed(p)

-----------------------------------------------------------------------------
(* Everyone else.                                                          *)

Disturbed == run' = [run EXCEPT !.steady = FALSE]

\* The upstream checkout is updated.
Release ==
    /\ source' \in Corpora \ {source}
    /\ Disturbed
    /\ UNCHANGED <<target, owned, manifest, kept>>

\* Somebody edits or deletes an upstream file in place, or a tool leaves a cache.
EditUpstream(p, c) ==
    /\ p \in UpstreamPaths /\ target[p] # c
    /\ target' = [target EXCEPT ![p] = c]
    /\ Disturbed
    /\ UNCHANGED <<source, owned, manifest, kept>>

\* The project creates, edits or deletes a file of its own half.
EditProject(p, c) ==
    /\ p \in ProjectPaths /\ DirOf[p] \in owned /\ target[p] # c
    /\ target' = [target EXCEPT ![p] = c]
    /\ kept' = IF c = Absent THEN kept \ {p} ELSE kept
    /\ Disturbed
    /\ UNCHANGED <<source, owned, manifest>>

\* The project makes one of its directories, or drops it with all it holds.
MakeOwned(d) ==
    /\ d \notin owned /\ owned' = owned \cup {d}
    /\ Disturbed
    /\ UNCHANGED <<source, target, manifest, kept>>

DropOwned(d) ==
    /\ d \in owned /\ owned' = owned \ {d}
    /\ target' = [p \in Paths |-> IF DirOf[p] = d THEN Absent ELSE target[p]]
    /\ kept' = kept \ In(d)
    /\ Disturbed
    /\ UNCHANGED <<source, manifest>>

Elsewhere ==
    \/ Release
    \/ \E e \in Edits : EditUpstream(e[1], e[2]) \/ EditProject(e[1], e[2])
    \/ \E d \in Rng(PROJECT_OWNED) : MakeOwned(d) \/ DropOwned(d)

-----------------------------------------------------------------------------
Init ==
    /\ source \in Corpora
    /\ target = [p \in Paths |-> Absent]
    /\ owned = {} /\ manifest = Absent
    /\ run = Idle /\ kept = {}

Next == (\E force \in BOOLEAN : StartInstall(force)) \/ InstallStep \/ Elsewhere

Spec == Init /\ [][Next]_vars

-----------------------------------------------------------------------------
(* Properties.                                                             *)

Manifests == UNION {[S -> Contents] : S \in SUBSET UpstreamPaths}

Runs == [pc : Pcs, force : BOOLEAN, at : Nat \ {0}, todo : SUBSET Paths,
         seed : LEARNING_SEED \cup {Absent}, built : Manifests, steady : BOOLEAN]

\* Everything has its type; what the manifest records, or is about to, are
\* upstream files and nothing else.
TypeOK ==
    /\ source \in [Paths -> Contents \cup {Absent}]
    /\ target \in [Paths -> Contents \cup {Absent, Torn}]
    /\ owned \subseteq Rng(PROJECT_OWNED)
    /\ manifest \in Manifests \cup {Absent, Torn}
    /\ run \in Runs
    /\ kept \subseteq ProjectPaths

\* What an install still has to write lies outside what has been in place in
\* the project half since the install began.
WritesElsewhere ==
    /\ kept \subseteq {p \in ProjectPaths : target[p] # Absent}
    /\ run.pc \in {"remove", "copy"} => run.at \in 1..Len(UPSTREAM)
    /\ run.pc \in {"copy", "roots"} => run.todo \subseteq UpstreamPaths
    /\ run.pc \in {"seed", "place"} => run.todo \subseteq LEARNING_SEED
    /\ run.pc = "place" => run.seed \in LEARNING_SEED \ kept

\* "Nothing there is overwritten or removed by either path": whatever the
\* install does, forced, interrupted or repeated, a file of learning/ or
\* overrides/ that has been there since it began keeps its content, no file
\* but a seed is ever made there, and no project directory is removed.
ProjectHalfSafe ==
    [][InstallStep =>
          /\ \A p \in ProjectPaths :
                p \in kept \/ p \notin LEARNING_SEED => target'[p] = target[p]
          /\ owned \subseteq owned']_vars

\* An install that runs to its end undisturbed leaves a target in which check
\* finds no difference, whatever half-done, edited or torn state it started from.
InstallConverges ==
    [][PublishManifest /\ run.steady => InStep(manifest)']_vars

\* check sees only the files the manifest records, so it cannot notice a file
\* that should have gone: an undisturbed install leaves none in a directory the
\* source ships, caches included.
NoRetiredSurvives ==
    [][PublishManifest /\ run.steady =>
          \A p \in Paths :
             DirOf[p] \in Rng(UPSTREAM) /\ Ships(DirOf[p]) /\ target'[p] # Absent
                => p \in iter_upstream]_vars

\* A forced install that ends undisturbed has every seed the source ships in
\* place: force repairs what an earlier, interrupted install left out.
ForceRestoresSeeds ==
    [][PublishManifest /\ run.steady /\ run.force =>
          \A p \in LEARNING_SEED : source[p] # Absent => target'[p] # Absent]_vars

=============================================================================
