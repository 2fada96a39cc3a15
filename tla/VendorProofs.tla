---------------------------- MODULE VendorProofs ----------------------------
(***************************************************************************)
(* The project half survives every install, for every corpus, every        *)
(* project and every interleaving: the invariant says that the install     *)
(* never holds a file to write that the project may still be relying on.   *)
(* An install nobody disturbs converges: the second invariant says, for    *)
(* each place it can be at, what it has put in place so far.               *)
(***************************************************************************)
EXTENDS Vendor, TLAPS

IInv == TypeOK /\ WritesElsewhere

\* What no step of an install may change: what the project has had in place
\* since it began, and everything in its half that is not a seed.
Protected == kept \cup (ProjectPaths \ LEARNING_SEED)

\* The two halves do not overlap.
LEMMA Halves ==
    /\ UpstreamPaths \cap ProjectPaths = {}
    /\ LEARNING_SEED \subseteq ProjectPaths
    /\ UpstreamPaths \subseteq Paths /\ ProjectPaths \subseteq Paths
  BY VendorAssumption DEF UpstreamPaths, ProjectPaths, In

\* No install running is a typed state.
LEMMA IdleTyped == Idle \in Runs /\ Idle.pc = "idle"
<1>1. NoFiles \in Manifests
  BY DEF NoFiles, Manifests
<1> QED
  BY <1>1 DEF Idle, Pcs, Runs

\* What build_manifest records of a typed source is a manifest.
LEMMA ManifestTyped ==
  ASSUME source \in [Paths -> Contents \cup {Absent}]
  PROVE  build_manifest \in Manifests
<1>1. iter_upstream \subseteq UpstreamPaths /\ \A p \in iter_upstream : source[p] \in Contents
  BY Halves DEF iter_upstream
<1> QED
  BY <1>1 DEF build_manifest, Manifests

\* The invariant holds at the start.
LEMMA IInvInit == Init => IInv
  BY IdleTyped, Halves, VendorAssumption DEF Init, IInv, TypeOK, WritesElsewhere

-----------------------------------------------------------------------------
(* The install's own steps.                                                *)

\* A step that changes only the install's own record.
LEMMA Bookkeeping ==
  ASSUME IInv, run' \in Runs, run'.pc \in Pcs,
         UNCHANGED <<source, target, owned, manifest, kept>>,
         run'.pc \in {"remove", "copy"} => run'.at \in 1..Len(UPSTREAM),
         run'.pc \in {"copy", "roots"} => run'.todo \subseteq UpstreamPaths,
         run'.pc \in {"seed", "place"} => run'.todo \subseteq LEARNING_SEED,
         run'.pc = "place" => run'.seed \in LEARNING_SEED \ kept
  PROVE  IInv'
  BY DEF IInv, TypeOK, WritesElsewhere

\* The steps that only move the install along.
LEMMA LoopSteps == IInv /\ (EnterDir \/ ListDir \/ NextDir \/ RootsDone \/ SeedsDone) => IInv'
<1> SUFFICES ASSUME IInv, EnterDir \/ ListDir \/ NextDir \/ RootsDone \/ SeedsDone PROVE IInv'
  OBVIOUS
<1>0. run \in Runs /\ WritesElsewhere
  BY DEF IInv, TypeOK
<1>1. CASE EnterDir
  <2>1. UPSTREAM_FILES \subseteq UpstreamPaths /\ UpstreamPaths \subseteq Paths
    BY Halves DEF UpstreamPaths
  <2>2. CASE run.at > Len(UPSTREAM)
    <3>1. run' = [run EXCEPT !.pc = "roots", !.todo = UPSTREAM_FILES]
      BY <1>1, <2>2 DEF EnterDir
    <3>2. run' \in Runs /\ run'.pc = "roots" /\ run'.todo = UPSTREAM_FILES
      BY <1>0, <2>1, <3>1 DEF Runs, Pcs
    <3> QED
      BY <1>1, <2>1, <3>2, Bookkeeping DEF EnterDir, Untouched, Runs
  <2>3. CASE ~(run.at > Len(UPSTREAM))
    <3>1. run.at \in 1..Len(UPSTREAM)
      BY <1>0, <2>3, VendorAssumption DEF Runs
    <3>2. run.pc = "enter"
          /\ (run' = [run EXCEPT !.pc = "remove"] \/ run' = [run EXCEPT !.at = @ + 1])
      BY <1>1, <2>3 DEF EnterDir
    <3>3. run' \in Runs /\ ((run'.pc = "remove" /\ run'.at = run.at) \/ run'.pc = "enter")
      BY <1>0, <3>2 DEF Runs, Pcs
    <3> QED
      BY <1>1, <3>1, <3>3, Bookkeeping DEF EnterDir, Untouched, Runs
  <2> QED
    BY <2>2, <2>3
<1>2. CASE ListDir
  <2>1. iter_upstream \subseteq UpstreamPaths /\ UpstreamPaths \subseteq Paths
    BY Halves DEF iter_upstream
  <2>2. run' \in Runs /\ run'.pc = "copy" /\ run'.at = run.at /\ run'.todo \subseteq UpstreamPaths
    BY <1>0, <1>2, <2>1 DEF ListDir, Runs, Pcs
  <2>3. run.at \in 1..Len(UPSTREAM)
    BY <1>0, <1>2 DEF ListDir, WritesElsewhere
  <2> QED
    BY <1>2, <2>2, <2>3, Bookkeeping DEF ListDir, Untouched, Runs
<1>3. CASE NextDir
  <2>1. run' = [run EXCEPT !.pc = "enter", !.at = @ + 1]
    BY <1>3 DEF NextDir
  <2>2. run'.at \in Nat \ {0}
    BY <1>0, <2>1 DEF Runs
  <2>3. run' \in Runs /\ run'.pc = "enter"
    BY <1>0, <2>1, <2>2 DEF Runs, Pcs
  <2> QED
    BY <1>3, <2>3, Bookkeeping DEF NextDir, Untouched, Runs
<1>4. CASE RootsDone
  <2>1. run' = [run EXCEPT !.pc = "scaffold", !.at = 1]
    BY <1>4 DEF RootsDone
  <2>2. run'.at \in Nat \ {0}
    BY <1>0, <2>1 DEF Runs
  <2>3. run' \in Runs /\ run'.pc = "scaffold"
    BY <1>0, <2>1, <2>2 DEF Runs, Pcs
  <2> QED
    BY <1>4, <2>3, Bookkeeping DEF RootsDone, Untouched, Runs
<1>5. CASE SeedsDone
  <2>1. run' = [run EXCEPT !.pc = "scaffold", !.at = @ + 1]
    BY <1>5 DEF SeedsDone
  <2>2. run'.at \in Nat \ {0}
    BY <1>0, <2>1 DEF Runs
  <2>3. run' \in Runs /\ run'.pc = "scaffold"
    BY <1>0, <2>1, <2>2 DEF Runs, Pcs
  <2> QED
    BY <1>5, <2>3, Bookkeeping DEF SeedsDone, Untouched, Runs
<1> QED
  BY <1>1, <1>2, <1>3, <1>4, <1>5

\* Steps that write under .agent/: the path they write is not one the project
\* half has had in place since the install began.
LEMMA WritingSteps ==
  ASSUME IInv, NEW p \in Paths, RemoveFile(p) \/ CopyFile(p) \/ CopyRoot(p) \/ PlaceSeed
  PROVE  IInv' /\ \A q \in Protected : target'[q] = target[q]
<1>0. run \in Runs /\ WritesElsewhere /\ target \in [Paths -> Contents \cup {Absent, Torn}]
      /\ source \in [Paths -> Contents \cup {Absent}] /\ kept \subseteq ProjectPaths
  BY DEF IInv, TypeOK
<1>1. ASSUME NEW q \in Paths \ Protected, NEW c \in Contents \cup {Absent, Torn},
             target' = [target EXCEPT ![q] = c],
             run' \in Runs, UNCHANGED <<source, owned, manifest, kept>>,
             \/ run'.pc = "idle"
             \/ run'.pc = run.pc /\ run'.at = run.at /\ run'.todo \subseteq run.todo
                /\ run'.seed = run.seed
             \/ run'.pc = "seed" /\ run'.todo \subseteq LEARNING_SEED
      PROVE  IInv' /\ \A r \in Protected : target'[r] = target[r]
  <2>1. \A r \in Protected : target'[r] = target[r]
    BY <1>0, <1>1, Halves DEF Protected
  <2>2. TypeOK'
    BY <1>0, <1>1 DEF IInv, TypeOK
  <2>3. WritesElsewhere'
    <3>1. kept' \subseteq {r \in ProjectPaths : target'[r] # Absent}
      BY <1>0, <1>1, <2>1 DEF WritesElsewhere, Protected
    <3> QED
      BY <1>0, <1>1, <3>1 DEF WritesElsewhere
  <2> QED
    BY <2>1, <2>2, <2>3 DEF IInv
<1>2. CASE RemoveFile(p)
  <2>1. run' = run /\ run.at \in 1..Len(UPSTREAM) /\ DirOf[p] = UPSTREAM[run.at]
        /\ target' = [target EXCEPT ![p] = Absent]
    BY <1>0, <1>2 DEF RemoveFile, WritesElsewhere
  <2>2. p \notin ProjectPaths
    BY <2>1, VendorAssumption DEF ProjectPaths, Rng
  <2>3. p \in Paths \ Protected
    BY <1>0, <2>2 DEF Protected
  <2>4. run' \in Runs /\ run'.todo \subseteq run.todo /\ run'.pc = run.pc /\ run'.at = run.at
        /\ run'.seed = run.seed
    BY <1>0, <2>1
  <2> QED
    BY <1>1, <1>2, <2>1, <2>3, <2>4 DEF RemoveFile, Untouched
<1>3. CASE CopyFile(p)
  <2>1. run.pc = "copy" /\ p \in run.todo /\ p \in Paths \ Protected
    BY <1>0, <1>3, Halves DEF CopyFile, WritesElsewhere, Protected
  <2>2. CASE source[p] = Absent
    <3>1. run' = Idle /\ UNCHANGED target
      BY <1>3, <2>2 DEF CopyFile
    <3> QED
      BY <1>3, <3>1, IdleTyped, Bookkeeping DEF CopyFile, Untouched, Runs
  <2>3. CASE source[p] # Absent
    <3>1. target' = [target EXCEPT ![p] = source[p]] /\ run' = [run EXCEPT !.todo = @ \ {p}]
      BY <1>3, <2>3 DEF CopyFile
    <3>2. run' \in Runs /\ run'.todo \subseteq run.todo /\ run'.pc = run.pc
          /\ run'.at = run.at /\ run'.seed = run.seed
      BY <1>0, <3>1 DEF Runs
    <3> QED
      BY <1>0, <1>1, <1>3, <2>1, <3>1, <3>2 DEF CopyFile, Untouched
  <2> QED
    BY <2>2, <2>3
<1>4. CASE CopyRoot(p)
  <2>1. run.pc = "roots" /\ p \in Paths \ Protected /\ run' = [run EXCEPT !.todo = @ \ {p}]
    BY <1>0, <1>4, Halves DEF CopyRoot, WritesElsewhere, Protected
  <2>2. run' \in Runs /\ run'.todo \subseteq run.todo /\ run'.pc = run.pc
        /\ run'.at = run.at /\ run'.seed = run.seed
    BY <1>0, <2>1 DEF Runs
  <2>3. CASE source[p] = Absent
    <3>1. UNCHANGED target
      BY <1>4, <2>3 DEF CopyRoot
    <3> QED
      BY <1>0, <1>4, <2>1, <2>2, <3>1, Bookkeeping DEF CopyRoot, Untouched, WritesElsewhere, Runs
  <2>4. CASE source[p] # Absent
    <3>1. target' = [target EXCEPT ![p] = source[p]]
      BY <1>4, <2>4 DEF CopyRoot
    <3> QED
      BY <1>0, <1>1, <1>4, <2>1, <2>2, <3>1 DEF CopyRoot, Untouched
  <2> QED
    BY <2>3, <2>4
<1>5. CASE PlaceSeed
  <2>1. run.seed \in Paths \ Protected
    BY <1>0, <1>5, Halves DEF PlaceSeed, WritesElsewhere, Protected
  <2>2. CASE source[run.seed] = Absent \/ Learning \notin owned
    <3>1. run' = Idle /\ UNCHANGED target
      BY <1>5, <2>2 DEF PlaceSeed
    <3> QED
      BY <1>5, <3>1, IdleTyped, Bookkeeping DEF PlaceSeed, Untouched, Runs
  <2>3. CASE ~(source[run.seed] = Absent \/ Learning \notin owned)
    <3>1. target' = [target EXCEPT ![run.seed] = source[run.seed]]
          /\ run' = [run EXCEPT !.pc = "seed", !.seed = Absent]
      BY <1>5, <2>3 DEF PlaceSeed
    <3>2. run' \in Runs /\ run'.pc = "seed" /\ run'.todo \subseteq LEARNING_SEED
      BY <1>0, <1>5, <3>1 DEF PlaceSeed, WritesElsewhere, Runs, Pcs
    <3> QED
      BY <1>0, <1>1, <1>5, <2>1, <3>1, <3>2 DEF PlaceSeed, Untouched
  <2> QED
    BY <2>2, <2>3
<1> QED
  BY <1>2, <1>3, <1>4, <1>5

\* Entering a project directory: it makes one of PROJECT_OWNED, and lists seeds only.
LEMMA ProjectDirStep ==
  ASSUME IInv, MakeProjectDir
  PROVE  IInv'
<1>0. run \in Runs /\ WritesElsewhere /\ TypeOK
  BY DEF IInv, TypeOK
<1>1. run' \in Runs
      /\ run'.pc \in {"build", "scaffold", "seed"}
      /\ (run'.pc = "seed" => run'.todo = LEARNING_SEED)
  <2>1. run.pc = "scaffold"
        /\ \/ run' = [run EXCEPT !.pc = "build"]
           \/ run' = [run EXCEPT !.at = @ + 1]
           \/ run' = [run EXCEPT !.pc = "seed", !.todo = LEARNING_SEED]
    BY DEF MakeProjectDir
  <2>2. CASE run' = [run EXCEPT !.pc = "build"]
    BY <1>0, <2>2 DEF Runs, Pcs
  <2>3. CASE run' = [run EXCEPT !.at = @ + 1]
    <3>1. run'.at \in Nat \ {0}
      BY <1>0, <2>3 DEF Runs
    <3> QED
      BY <1>0, <2>1, <2>3, <3>1 DEF Runs
  <2>4. CASE run' = [run EXCEPT !.pc = "seed", !.todo = LEARNING_SEED]
    BY <1>0, <2>4, Halves DEF Runs, Pcs
  <2> QED
    BY <2>1, <2>2, <2>3, <2>4
<1>2. owned' \subseteq Rng(PROJECT_OWNED)
  <2>1. CASE run.at > Len(PROJECT_OWNED)
    BY <1>0, <2>1 DEF MakeProjectDir, TypeOK
  <2>2. CASE ~(run.at > Len(PROJECT_OWNED))
    <3>1. run.at \in 1..Len(PROJECT_OWNED)
      BY <1>0, <2>2, VendorAssumption DEF Runs
    <3>2. owned' = owned \cup {PROJECT_OWNED[run.at]}
      BY <2>2 DEF MakeProjectDir
    <3> QED
      BY <1>0, <3>1, <3>2 DEF TypeOK, Rng
  <2> QED
    BY <2>1, <2>2
<1> QED
  BY <1>0, <1>1, <1>2 DEF MakeProjectDir, Untouched, IInv, TypeOK, WritesElsewhere

\* The test for a seed's absence: only a file the project has not kept is chosen.
LEMMA SeedingStep ==
  ASSUME IInv, NEW p \in Paths, ConsiderSeed(p)
  PROVE  IInv'
<1>0. run \in Runs /\ WritesElsewhere /\ TypeOK
  BY DEF IInv, TypeOK
<1>1. run.pc = "seed" /\ p \in LEARNING_SEED
  BY <1>0 DEF ConsiderSeed, WritesElsewhere
<1>2. CASE source[p] # Absent /\ target[p] = Absent
  <2>1. run' = [run EXCEPT !.pc = "place", !.seed = p, !.todo = @ \ {p}]
    BY <1>2 DEF ConsiderSeed
  <2>2. run' \in Runs /\ run'.pc = "place" /\ run'.todo \subseteq run.todo /\ run'.seed = p
    BY <1>0, <1>1, <2>1 DEF Runs, Pcs
  <2>3. p \notin kept
    BY <1>0, <1>2 DEF WritesElsewhere
  <2> QED
    BY <1>0, <1>1, <2>2, <2>3, Bookkeeping
    DEF ConsiderSeed, Untouched, WritesElsewhere, Runs
<1>3. CASE ~(source[p] # Absent /\ target[p] = Absent)
  <2>1. run' = [run EXCEPT !.todo = @ \ {p}]
    BY <1>3 DEF ConsiderSeed
  <2>2. run' \in Runs /\ run'.pc = "seed" /\ run'.todo \subseteq run.todo
    BY <1>0, <1>1, <2>1 DEF Runs
  <2> QED
    BY <1>0, <1>1, <2>2, Bookkeeping DEF ConsiderSeed, Untouched, WritesElsewhere, Runs
<1> QED
  BY <1>2, <1>3

\* The manifest is built, emptied and published outside both halves.
LEMMA PublishingSteps == IInv /\ (BuildManifest \/ EmptyManifest \/ PublishManifest) => IInv'
<1> SUFFICES ASSUME IInv, BuildManifest \/ EmptyManifest \/ PublishManifest PROVE IInv'
  OBVIOUS
<1>0. run \in Runs /\ WritesElsewhere /\ TypeOK
  BY DEF IInv, TypeOK
<1>1. CASE BuildManifest
  <2>1. run' = [run EXCEPT !.pc = "empty", !.built = build_manifest]
    BY <1>1 DEF BuildManifest
  <2>2. build_manifest \in Manifests
    BY <1>0, ManifestTyped DEF TypeOK
  <2>3. run' \in Runs /\ run'.pc = "empty"
    BY <1>0, <2>1, <2>2 DEF Runs, Pcs
  <2> QED
    BY <1>1, <2>3, Bookkeeping DEF BuildManifest, Untouched, Runs
<1>2. CASE EmptyManifest
  <2>1. run' \in Runs /\ run'.pc = "publish"
    BY <1>0, <1>2 DEF EmptyManifest, Runs, Pcs
  <2> QED
    BY <1>0, <1>2, <2>1 DEF EmptyManifest, Untouched, IInv, TypeOK, WritesElsewhere
<1>3. CASE PublishManifest
  <2>1. run.built \in Manifests
    BY <1>0 DEF Runs
  <2> QED
    BY <1>0, <1>3, <2>1, IdleTyped DEF PublishManifest, Untouched, IInv, TypeOK, WritesElsewhere
<1> QED
  BY <1>1, <1>2, <1>3

\* A kill tears at most the file being written, which is never a protected one.
LEMMA CrashStep == IInv /\ Crash => IInv' /\ \A q \in Protected : target'[q] = target[q]
<1> SUFFICES ASSUME IInv, Crash PROVE IInv' /\ \A q \in Protected : target'[q] = target[q]
  OBVIOUS
<1>0. WritesElsewhere /\ TypeOK /\ run' = Idle
      /\ UNCHANGED <<source, owned, manifest, kept>>
  BY DEF IInv, Crash, Untouched
<1>1. CASE UNCHANGED target
  BY <1>0, <1>1, IdleTyped DEF IInv, TypeOK, WritesElsewhere
<1>2. CASE \E p \in Paths \ Protected : target' = [target EXCEPT ![p] = Torn]
  <2>1. PICK p \in Paths \ Protected : target' = [target EXCEPT ![p] = Torn]
    BY <1>2
  <2>2. target' \in [Paths -> Contents \cup {Absent, Torn}]
        /\ \A q \in Protected : target'[q] = target[q]
    BY <1>0, <2>1, Halves DEF TypeOK, Protected
  <2> QED
    BY <1>0, <2>2, IdleTyped DEF IInv, TypeOK, WritesElsewhere, Protected
<1>3. UNCHANGED target \/ \E p \in Paths \ Protected : target' = [target EXCEPT ![p] = Torn]
  BY <1>0, Halves DEF Crash, WritesElsewhere, TypeOK, Protected
<1> QED
  BY <1>1, <1>2, <1>3

-----------------------------------------------------------------------------
(* Everyone else, and the whole next-state relation.                       *)

\* Releases and the project's own work preserve the invariant.
LEMMA OtherSteps ==
  ASSUME IInv, (\E force \in BOOLEAN : StartInstall(force)) \/ Elsewhere
  PROVE  IInv'
<1>0. run \in Runs /\ WritesElsewhere /\ TypeOK
  BY DEF IInv, TypeOK
<1>1. ASSUME Disturbed
      PROVE  run' \in Runs /\ run'.pc = run.pc /\ run'.at = run.at /\ run'.todo = run.todo
             /\ run'.seed = run.seed
  BY <1>0, <1>1 DEF Disturbed, Runs
<1>2. ASSUME NEW force \in BOOLEAN, StartInstall(force) PROVE IInv'
  <2>1. run' = [Idle EXCEPT !.pc = "enter", !.force = force, !.steady = TRUE]
    BY <1>2 DEF StartInstall
  <2>2. run' \in Runs /\ run'.pc = "enter"
    BY <2>1, IdleTyped DEF Runs, Pcs
  <2> QED
    BY <1>0, <1>2, <2>2 DEF StartInstall, IInv, TypeOK, WritesElsewhere
<1>3. ASSUME Release PROVE IInv'
  <2>1. source' \in [Paths -> Contents \cup {Absent}]
    BY <1>3, VendorAssumption DEF Release
  <2> QED
    BY <1>0, <1>1, <1>3, <2>1 DEF Release, IInv, TypeOK, WritesElsewhere
<1>4. ASSUME NEW e \in Edits, EditUpstream(e[1], e[2]) PROVE IInv'
  <2>1. e[1] \in UpstreamPaths /\ e[2] \in Contents \cup {Absent}
        /\ target' = [target EXCEPT ![e[1]] = e[2]]
    BY <1>4, VendorAssumption DEF EditUpstream
  <2>2. target' \in [Paths -> Contents \cup {Absent, Torn}]
        /\ \A q \in ProjectPaths : target'[q] = target[q]
    BY <1>0, <2>1, Halves DEF TypeOK
  <2> QED
    BY <1>0, <1>1, <1>4, <2>2 DEF EditUpstream, IInv, TypeOK, WritesElsewhere
<1>5. ASSUME NEW e \in Edits, EditProject(e[1], e[2]) PROVE IInv'
  <2>1. e[1] \in ProjectPaths /\ e[2] \in Contents \cup {Absent}
        /\ target' = [target EXCEPT ![e[1]] = e[2]]
        /\ kept' = (IF e[2] = Absent THEN kept \ {e[1]} ELSE kept)
    BY <1>5, VendorAssumption DEF EditProject
  <2>2. target' \in [Paths -> Contents \cup {Absent, Torn}]
        /\ target'[e[1]] = e[2] /\ \A q \in ProjectPaths \ {e[1]} : target'[q] = target[q]
    BY <1>0, <2>1, Halves DEF TypeOK
  <2>3. kept' \subseteq kept /\ kept' \subseteq {q \in ProjectPaths : target'[q] # Absent}
    BY <1>0, <2>1, <2>2 DEF WritesElsewhere
  <2> QED
    BY <1>0, <1>1, <1>5, <2>2, <2>3 DEF EditProject, IInv, TypeOK, WritesElsewhere
<1>6. ASSUME NEW d \in Rng(PROJECT_OWNED), MakeOwned(d) PROVE IInv'
  BY <1>0, <1>1, <1>6 DEF MakeOwned, IInv, TypeOK, WritesElsewhere
<1>7. ASSUME NEW d \in Rng(PROJECT_OWNED), DropOwned(d) PROVE IInv'
  <2>1. target' = [q \in Paths |-> IF DirOf[q] = d THEN Absent ELSE target[q]]
        /\ kept' = kept \ In(d)
    BY <1>7 DEF DropOwned
  <2>2. target' \in [Paths -> Contents \cup {Absent, Torn}]
    BY <1>0, <2>1 DEF TypeOK
  <2>3. kept' \subseteq kept /\ kept' \subseteq {q \in ProjectPaths : target'[q] # Absent}
    BY <1>0, <2>1, Halves DEF WritesElsewhere, In
  <2> QED
    BY <1>0, <1>1, <1>7, <2>2, <2>3 DEF DropOwned, IInv, TypeOK, WritesElsewhere
<1> QED
  BY <1>2, <1>3, <1>4, <1>5, <1>6, <1>7 DEF Elsewhere

\* Every step preserves the invariant.
LEMMA IInvNext == IInv /\ [Next]_vars => IInv'
<1> SUFFICES ASSUME IInv, [Next]_vars PROVE IInv'
  OBVIOUS
<1>1. CASE UNCHANGED vars
  BY <1>1 DEF vars, IInv, TypeOK, WritesElsewhere
<1>2. CASE (\E force \in BOOLEAN : StartInstall(force)) \/ Elsewhere
  BY <1>2, OtherSteps
<1>3. ASSUME NEW p \in Paths, RemoveFile(p) \/ CopyFile(p) \/ CopyRoot(p) \/ ConsiderSeed(p)
      PROVE  IInv'
  BY <1>3, WritingSteps, SeedingStep
<1>4. CASE EnterDir \/ ListDir \/ NextDir \/ RootsDone \/ SeedsDone
  BY <1>4, LoopSteps
<1>5. CASE BuildManifest \/ EmptyManifest \/ PublishManifest \/ Crash
  BY <1>5, PublishingSteps, CrashStep
<1>6. CASE PlaceSeed
  <2>1. run.seed \in Paths
    BY <1>6, Halves DEF IInv, WritesElsewhere, PlaceSeed
  <2> QED
    BY <1>6, <2>1, WritingSteps
<1>7. CASE MakeProjectDir
  BY <1>7, ProjectDirStep
<1> QED
  BY <1>1, <1>2, <1>3, <1>4, <1>5, <1>6, <1>7 DEF Next, InstallStep

\* TypeOK and the invariant behind it hold of every behaviour of vendor.py.
THEOREM TypeCorrect == Spec => [](TypeOK /\ WritesElsewhere)
<1>1. IInv => TypeOK /\ WritesElsewhere
  BY DEF IInv
<1> QED
  BY IInvInit, IInvNext, <1>1, PTL DEF Spec

\* ProjectHalfSafe holds of every behaviour: no install, forced, killed or
\* overlapped by the project's own work, overwrites or removes a project file
\* that was in place when it began (vendor.py:_seed_project_half, _replace_upstream).
THEOREM ProjectHalfAlwaysSafe == Spec => ProjectHalfSafe
<1>1. ASSUME IInv, InstallStep
      PROVE  /\ \A q \in ProjectPaths :
                   q \in kept \/ q \notin LEARNING_SEED => target'[q] = target[q]
             /\ owned \subseteq owned'
  <2>1. CASE \E p \in Paths : RemoveFile(p) \/ CopyFile(p) \/ CopyRoot(p)
    BY <1>1, <2>1, WritingSteps DEF Protected, RemoveFile, CopyFile, CopyRoot
  <2>2. CASE Crash
    BY <1>1, <2>2, CrashStep DEF Protected, Crash
  <2>3. CASE MakeProjectDir
    BY <2>3 DEF MakeProjectDir
  <2>4. CASE \/ EnterDir \/ ListDir \/ NextDir \/ RootsDone \/ SeedsDone
             \/ BuildManifest \/ EmptyManifest \/ PublishManifest
             \/ \E p \in Paths : ConsiderSeed(p)
    BY <2>4 DEF EnterDir, ListDir, NextDir, RootsDone, SeedsDone, BuildManifest,
                EmptyManifest, PublishManifest, ConsiderSeed
  <2>5. CASE PlaceSeed
    <3>1. \E p \in Paths : TRUE
      BY <1>1, <2>5, Halves DEF IInv, WritesElsewhere, PlaceSeed
    <3> QED
      BY <1>1, <2>5, <3>1, WritingSteps DEF Protected, PlaceSeed
  <2> QED
    BY <1>1, <2>1, <2>2, <2>3, <2>4, <2>5 DEF InstallStep
<1>2. IInv /\ [Next]_vars => [InstallStep =>
          /\ \A p \in ProjectPaths :
                p \in kept \/ p \notin LEARNING_SEED => target'[p] = target[p]
          /\ owned \subseteq owned']_vars
  BY <1>1
<1> QED
  BY IInvInit, IInvNext, <1>2, PTL DEF Spec, ProjectHalfSafe

-----------------------------------------------------------------------------
(***************************************************************************)
(* What an install that nobody has disturbed so far has put in place.      *)
(***************************************************************************)
Afterwards == {"roots", "scaffold", "seed", "place", "build", "empty", "publish"}
Ending == {"build", "empty", "publish"}
Scaffolding == {"scaffold", "seed", "place"}

\* Directory d holds what the source ships in it but for the files of todo, and nothing else.
Holds(d, todo) ==
    \A p \in In(d) : target[p] = IF p \in iter_upstream \ todo THEN source[p] ELSE Absent

DoneBelow(n) ==
    \A i \in 1..Len(UPSTREAM) : i < n /\ Ships(UPSTREAM[i]) => Holds(UPSTREAM[i], {})

Replaced == \A i \in 1..Len(UPSTREAM) : Ships(UPSTREAM[i]) => Holds(UPSTREAM[i], {})

RootsCopied(todo) ==
    \A p \in UPSTREAM_FILES \ todo : source[p] # Absent => target[p] = source[p]

MadeBelow(n) == \A i \in 1..Len(PROJECT_OWNED) : i < n => PROJECT_OWNED[i] \in owned

Seeded(todo) == \A p \in LEARNING_SEED \ todo : source[p] # Absent => target[p] # Absent

SeedInv ==
    run.force =>
      /\ run.pc \in Scaffolding
            /\ (\E i \in 1..Len(PROJECT_OWNED) : i < run.at /\ PROJECT_OWNED[i] = Learning)
         => Seeded({})
      /\ run.pc = "seed" => Seeded(run.todo)
      /\ run.pc = "place" => Seeded(run.todo \cup {run.seed})
      /\ run.pc \in Ending => Seeded({})

UpstreamInv ==
    /\ run.pc \in {"enter", "remove", "copy"} => DoneBelow(run.at)
    /\ run.pc = "copy" => /\ run.todo \subseteq iter_upstream \cap In(UPSTREAM[run.at])
                          /\ Holds(UPSTREAM[run.at], run.todo)
    /\ run.pc \in Afterwards => Replaced
    /\ run.pc = "roots" => run.todo \subseteq UPSTREAM_FILES /\ RootsCopied(run.todo)
    /\ run.pc \in Afterwards \ {"roots"} => RootsCopied({})

ScaffoldInv ==
    /\ run.pc \in Scaffolding => MadeBelow(run.at)
    /\ run.pc \in {"seed", "place"} => /\ run.at \in 1..Len(PROJECT_OWNED)
                                       /\ PROJECT_OWNED[run.at] = Learning
                                       /\ Learning \in owned
    /\ run.pc \in Ending => owned = Rng(PROJECT_OWNED)
    /\ run.pc \in {"empty", "publish"} => run.built = build_manifest

SteadyInv == run.steady => UpstreamInv /\ ScaffoldInv /\ SeedInv

-----------------------------------------------------------------------------
(* The upstream half, directory by directory.                              *)

\* A step after the upstream half that leaves it alone keeps what was put there.
LEMMA UpstreamKept ==
  ASSUME UpstreamInv, UNCHANGED source, \A p \in UpstreamPaths : target'[p] = target[p],
         run.pc \in Afterwards \ {"roots"}, run'.pc \in Afterwards \ {"roots"}
  PROVE  UpstreamInv'
<1>1. Replaced /\ RootsCopied({})
  BY DEF UpstreamInv, Afterwards
<1>2. Replaced'
  <2>1. \A i \in 1..Len(UPSTREAM) : In(UPSTREAM[i]) \subseteq UpstreamPaths
    BY DEF UpstreamPaths, In, Rng
  <2> QED
    BY <1>1, <2>1 DEF Replaced, Holds, Ships, iter_upstream
<1>3. RootsCopied({})'
  BY <1>1 DEF RootsCopied, UpstreamPaths
<1> QED
  BY <1>2, <1>3 DEF UpstreamInv, Afterwards

\* Entering a directory: one the source does not ship needs nothing.
LEMMA EnterDirKeeps ==
  ASSUME IInv, UpstreamInv, EnterDir
  PROVE  UpstreamInv'
<1>0. run \in Runs /\ DoneBelow(run.at) /\ run.at \in Nat \ {0} /\ UNCHANGED <<source, target>>
  BY DEF IInv, TypeOK, Runs, EnterDir, UpstreamInv, Untouched
<1>1. CASE run.at > Len(UPSTREAM)
  <2>1. run'.pc = "roots" /\ run'.todo = UPSTREAM_FILES
    BY <1>0, <1>1 DEF EnterDir, Runs
  <2>2. Replaced
    BY <1>0, <1>1, VendorAssumption DEF DoneBelow, Replaced
  <2>3. Replaced'
    BY <1>0, <2>2 DEF Replaced, Holds, Ships, iter_upstream
  <2>4. (run.todo \subseteq UPSTREAM_FILES /\ RootsCopied(run.todo))'
    BY <2>1 DEF RootsCopied
  <2> QED
    BY <2>1, <2>3, <2>4 DEF UpstreamInv, Afterwards
<1>2. CASE ~(run.at > Len(UPSTREAM)) /\ Ships(UPSTREAM[run.at])
  <2>1. run'.pc = "remove" /\ run'.at = run.at
    BY <1>0, <1>2 DEF EnterDir, Runs
  <2>2. DoneBelow(run.at)'
    BY <1>0, <2>1 DEF DoneBelow, Holds, Ships, iter_upstream
  <2> QED
    BY <2>1, <2>2 DEF UpstreamInv, Afterwards
<1>3. CASE ~(run.at > Len(UPSTREAM)) /\ ~Ships(UPSTREAM[run.at])
  <2>1. run'.pc = "enter" /\ run'.at = run.at + 1
    BY <1>0, <1>3 DEF EnterDir, Runs
  <2>2. DoneBelow(run.at + 1)
    BY <1>0, <1>3 DEF DoneBelow
  <2>3. DoneBelow(run.at)'
    BY <1>0, <2>1, <2>2 DEF DoneBelow, Holds, Ships, iter_upstream
  <2> QED
    BY <2>1, <2>3 DEF UpstreamInv, Afterwards
<1> QED
  BY <1>1, <1>2, <1>3

\* The directories below the one at hand are other directories.
LEMMA OthersKept ==
  ASSUME DoneBelow(run.at), run.at \in 1..Len(UPSTREAM), UNCHANGED source, run'.at = run.at,
         \A p \in Paths : DirOf[p] # UPSTREAM[run.at] => target'[p] = target[p]
  PROVE  DoneBelow(run.at)'
<1>1. ASSUME NEW i \in 1..Len(UPSTREAM), i < run.at, \E p \in In(UPSTREAM[i]) : source[p] # Absent
      PROVE  \A p \in In(UPSTREAM[i]) :
                target'[p] = IF p \in iter_upstream THEN source[p] ELSE Absent
  <2>1. UPSTREAM[i] # UPSTREAM[run.at]
    BY <1>1, VendorAssumption
  <2>2. Holds(UPSTREAM[i], {})
    BY <1>1 DEF DoneBelow, Ships
  <2> QED
    BY <2>1, <2>2 DEF Holds, In
<1> QED
  BY <1>1 DEF DoneBelow, Holds, Ships, iter_upstream

\* Clearing a directory and copying it again.
LEMMA DirSteps ==
  ASSUME IInv, UpstreamInv, NEW p, RemoveFile(p) \/ ListDir \/ CopyFile(p) \/ NextDir,
         run'.steady
  PROVE  UpstreamInv'
<1>0. run \in Runs /\ run.at \in 1..Len(UPSTREAM) /\ DoneBelow(run.at) /\ UNCHANGED source
      /\ target \in [Paths -> Contents \cup {Absent, Torn}]
  BY DEF IInv, TypeOK, WritesElsewhere, UpstreamInv, RemoveFile, ListDir, CopyFile, NextDir,
         Untouched
<1>1. CASE RemoveFile(p)
  <2>1. run' = run /\ run.pc = "remove"
        /\ \A q \in Paths : DirOf[q] # UPSTREAM[run.at] => target'[q] = target[q]
    BY <1>0, <1>1 DEF RemoveFile
  <2>2. DoneBelow(run.at)'
    BY <1>0, <2>1, OthersKept
  <2> QED
    BY <2>1, <2>2 DEF UpstreamInv, Afterwards
<1>2. CASE ListDir
  <2>1. run'.pc = "copy" /\ run'.at = run.at /\ target' = target
        /\ run'.todo = iter_upstream \cap In(UPSTREAM[run.at])
    BY <1>0, <1>2 DEF ListDir, Runs
  <2>2. DoneBelow(run.at)'
    BY <1>0, <2>1, OthersKept
  <2>3. Holds(UPSTREAM[run.at], run.todo)'
    BY <1>0, <1>2, <2>1 DEF Holds, ListDir, iter_upstream
  <2>4. (run.todo \subseteq iter_upstream \cap In(UPSTREAM[run.at]))'
    BY <1>0, <2>1 DEF iter_upstream
  <2> QED
    BY <2>1, <2>2, <2>3, <2>4 DEF UpstreamInv, Afterwards
<1>3. CASE CopyFile(p)
  <2>1. run.pc = "copy" /\ p \in run.todo
        /\ run.todo \subseteq iter_upstream \cap In(UPSTREAM[run.at])
        /\ Holds(UPSTREAM[run.at], run.todo)
    BY <1>3 DEF CopyFile, UpstreamInv
  <2>2. target' = [target EXCEPT ![p] = source[p]] /\ run' = [run EXCEPT !.todo = @ \ {p}]
    BY <1>3, <2>1 DEF CopyFile, iter_upstream
  <2>3. run'.pc = "copy" /\ run'.at = run.at /\ run'.todo = run.todo \ {p}
    BY <1>0, <2>1, <2>2 DEF Runs
  <2>4. p \in In(UPSTREAM[run.at]) /\ p \in iter_upstream
    BY <2>1
  <2>5. DoneBelow(run.at)'
    BY <1>0, <2>2, <2>3, <2>4, OthersKept DEF In
  <2>6. Holds(UPSTREAM[run.at], run.todo)'
    <3>1. \A q \in In(UPSTREAM[run.at]) :
             target'[q] = IF q \in iter_upstream \ (run.todo \ {p}) THEN source[q] ELSE Absent
      BY <1>0, <2>1, <2>2, <2>4 DEF Holds, In
    <3> QED
      BY <1>0, <2>3, <3>1 DEF Holds, iter_upstream
  <2>7. (run.todo \subseteq iter_upstream \cap In(UPSTREAM[run.at]))'
    BY <1>0, <2>1, <2>3 DEF iter_upstream
  <2> QED
    BY <2>3, <2>5, <2>6, <2>7 DEF UpstreamInv, Afterwards
<1>4. CASE NextDir
  <2>1. run.todo = {} /\ Holds(UPSTREAM[run.at], {})
    BY <1>4 DEF NextDir, UpstreamInv
  <2>2. run'.pc = "enter" /\ run'.at = run.at + 1 /\ target' = target
    BY <1>0, <1>4 DEF NextDir, Runs
  <2>3. DoneBelow(run.at + 1)
    BY <1>0, <2>1 DEF DoneBelow
  <2>4. DoneBelow(run.at)'
    BY <1>0, <2>2, <2>3 DEF DoneBelow, Holds, Ships, iter_upstream
  <2> QED
    BY <2>2, <2>4 DEF UpstreamInv, Afterwards
<1> QED
  BY <1>1, <1>2, <1>3, <1>4

\* The root-level files are in no directory.
LEMMA RootSteps ==
  ASSUME IInv, UpstreamInv, NEW p, CopyRoot(p) \/ RootsDone
  PROVE  UpstreamInv'
<1>0. run \in Runs /\ UNCHANGED source /\ Replaced
      /\ run.todo \subseteq UPSTREAM_FILES /\ RootsCopied(run.todo)
      /\ target \in [Paths -> Contents \cup {Absent, Torn}]
  BY DEF IInv, TypeOK, UpstreamInv, Afterwards, CopyRoot, RootsDone, Untouched
<1>1. CASE CopyRoot(p)
  <2>1. run'.pc = "roots" /\ run'.todo = run.todo \ {p} /\ p \in UPSTREAM_FILES
    BY <1>0, <1>1 DEF CopyRoot, Runs
  <2>2. target' = IF source[p] = Absent THEN target ELSE [target EXCEPT ![p] = source[p]]
    BY <1>1 DEF CopyRoot
  <2>3. \A i \in 1..Len(UPSTREAM) : \A q \in In(UPSTREAM[i]) : target'[q] = target[q]
    BY <1>0, <2>1, <2>2, VendorAssumption DEF In, Rng
  <2>4. Replaced'
    BY <1>0, <2>3 DEF Replaced, Holds, Ships, iter_upstream
  <2>5. RootsCopied(run.todo)'
    BY <1>0, <2>1, <2>2, VendorAssumption DEF RootsCopied, In
  <2> QED
    BY <1>0, <2>1, <2>4, <2>5 DEF UpstreamInv, Afterwards
<1>2. CASE RootsDone
  <2>1. run'.pc = "scaffold" /\ target' = target /\ run.todo = {}
    BY <1>0, <1>2 DEF RootsDone, Runs
  <2>2. Replaced'
    BY <1>0, <2>1 DEF Replaced, Holds, Ships, iter_upstream
  <2>3. RootsCopied({})'
    BY <1>0, <2>1 DEF RootsCopied
  <2> QED
    BY <2>1, <2>2, <2>3 DEF UpstreamInv, Afterwards
<1> QED
  BY <1>1, <1>2

-----------------------------------------------------------------------------
(* The project half, and the manifest.                                     *)

\* A step from before the scaffolding owes it nothing.
LEMMA NotYet ==
  ASSUME run'.pc \notin Scaffolding \cup Ending
  PROVE  (ScaffoldInv /\ SeedInv)'
  BY DEF ScaffoldInv, SeedInv, Scaffolding, Ending

\* Entering a project directory; when none is left, all of them are there.
LEMMA MakeProjectDirKeeps ==
  ASSUME IInv, ScaffoldInv, SeedInv, MakeProjectDir
  PROVE  (ScaffoldInv /\ SeedInv)'
<1>0. run \in Runs /\ run.pc = "scaffold" /\ MadeBelow(run.at) /\ run.at \in Nat \ {0}
      /\ owned \subseteq Rng(PROJECT_OWNED) /\ UNCHANGED <<source, target>>
      /\ (run.force /\ (\E i \in 1..Len(PROJECT_OWNED) : i < run.at /\ PROJECT_OWNED[i] = Learning)
             => Seeded({}))
  BY DEF IInv, TypeOK, Runs, MakeProjectDir, ScaffoldInv, SeedInv, Scaffolding, Untouched
<1>s. \A T \in SUBSET LEARNING_SEED : Seeded(T) =>
         \A q \in LEARNING_SEED \ T : source'[q] # Absent => target'[q] # Absent
  BY <1>0 DEF Seeded
<1>1. CASE run.at > Len(PROJECT_OWNED)
  <2>1. run'.pc = "build" /\ owned' = owned /\ run'.force = run.force
    BY <1>0, <1>1 DEF MakeProjectDir, Runs
  <2>2. owned = Rng(PROJECT_OWNED)
    <3>1. \A i \in 1..Len(PROJECT_OWNED) : PROJECT_OWNED[i] \in owned
      BY <1>0, <1>1, VendorAssumption DEF MadeBelow
    <3> QED
      BY <1>0, <3>1 DEF Rng
  <2>3. \E i \in 1..Len(PROJECT_OWNED) : i < run.at /\ PROJECT_OWNED[i] = Learning
    BY <1>0, <1>1, VendorAssumption DEF Rng
  <2>4. run.force => Seeded({})'
    BY <1>0, <1>s, <2>3 DEF Seeded
  <2> QED
    BY <2>1, <2>2, <2>4 DEF ScaffoldInv, SeedInv, Scaffolding, Ending
<1>2. CASE ~(run.at > Len(PROJECT_OWNED))
  <2>1. run.at \in 1..Len(PROJECT_OWNED) /\ owned' = owned \cup {PROJECT_OWNED[run.at]}
    BY <1>0, <1>2, VendorAssumption DEF MakeProjectDir
  <2>2. CASE (PROJECT_OWNED[run.at] \in owned /\ ~run.force) \/ PROJECT_OWNED[run.at] # Learning
    <3>1. run' = [run EXCEPT !.at = @ + 1]
      BY <1>2, <2>2 DEF MakeProjectDir
    <3>2. run'.pc = "scaffold" /\ run'.at = run.at + 1 /\ run'.force = run.force
      BY <1>0, <3>1 DEF Runs
    <3>3. MadeBelow(run.at)'
      BY <1>0, <2>1, <3>2 DEF MadeBelow
    <3>4. run.force /\ (\E i \in 1..Len(PROJECT_OWNED) : i < run.at + 1 /\ PROJECT_OWNED[i] = Learning)
             => Seeded({})'
      BY <1>0, <1>s, <2>1, <2>2 DEF Seeded
    <3> QED
      BY <3>2, <3>3, <3>4 DEF ScaffoldInv, SeedInv, Scaffolding, Ending
  <2>3. CASE ~((PROJECT_OWNED[run.at] \in owned /\ ~run.force) \/ PROJECT_OWNED[run.at] # Learning)
    <3>1. run' = [run EXCEPT !.pc = "seed", !.todo = LEARNING_SEED]
      BY <1>2, <2>3 DEF MakeProjectDir
    <3>2. run'.pc = "seed" /\ run'.at = run.at /\ run'.todo = LEARNING_SEED /\ run'.force = run.force
      BY <1>0, <3>1 DEF Runs
    <3>3. MadeBelow(run.at)'
      BY <1>0, <2>1, <3>2 DEF MadeBelow
    <3>4. Seeded(run.todo)'
      BY <3>2 DEF Seeded
    <3>5. PROJECT_OWNED[run.at] = Learning /\ Learning \in owned'
      BY <2>1, <2>3
    <3>6. run.force /\ (\E i \in 1..Len(PROJECT_OWNED) : i < run.at /\ PROJECT_OWNED[i] = Learning)
             => Seeded({})'
      BY <1>0, <1>s DEF Seeded
    <3> QED
      BY <2>1, <3>2, <3>3, <3>4, <3>5, <3>6 DEF ScaffoldInv, SeedInv, Scaffolding, Ending
  <2> QED
    BY <2>2, <2>3
<1> QED
  BY <1>1, <1>2

\* Seeds are placed one by one; none that the source ships is passed over.
LEMMA SeedSteps ==
  ASSUME IInv, ScaffoldInv, SeedInv, NEW p, ConsiderSeed(p) \/ PlaceSeed \/ SeedsDone,
         run'.steady
  PROVE  (ScaffoldInv /\ SeedInv)'
<1>0. run \in Runs /\ run.pc \in {"seed", "place"} /\ MadeBelow(run.at) /\ UNCHANGED <<source, owned>>
      /\ run.at \in 1..Len(PROJECT_OWNED) /\ PROJECT_OWNED[run.at] = Learning /\ Learning \in owned
      /\ target \in [Paths -> Contents \cup {Absent, Torn}]
      /\ source \in [Paths -> Contents \cup {Absent}]
  BY DEF IInv, TypeOK, Runs, ConsiderSeed, PlaceSeed, SeedsDone, ScaffoldInv, Scaffolding, Untouched
<1>1. ASSUME run'.at = run.at, run'.pc \in {"seed", "place"}, run'.force = run.force,
             \A q \in Paths : target[q] # Absent => target'[q] # Absent,
             run.force /\ run'.pc = "seed" => Seeded(run.todo)',
             run.force /\ run'.pc = "place" => Seeded(run.todo \cup {run.seed})'
      PROVE  (ScaffoldInv /\ SeedInv)'
  <2>1. MadeBelow(run.at)'
    BY <1>0, <1>1 DEF MadeBelow
  <2>2. run.force /\ (\E i \in 1..Len(PROJECT_OWNED) : i < run.at /\ PROJECT_OWNED[i] = Learning)
           => Seeded({})
    BY <1>0 DEF SeedInv, Scaffolding
  <2>3. Seeded({}) => Seeded({})'
    BY <1>0, <1>1, VendorAssumption DEF Seeded, In
  <2> QED
    BY <1>0, <1>1, <2>1, <2>2, <2>3 DEF ScaffoldInv, SeedInv, Scaffolding, Ending
<1>2. CASE ConsiderSeed(p) /\ source[p] # Absent /\ target[p] = Absent
  <2>1. run' = [run EXCEPT !.pc = "place", !.seed = p, !.todo = @ \ {p}] /\ run.pc = "seed"
        /\ target' = target
    BY <1>2 DEF ConsiderSeed
  <2>2. run'.pc = "place" /\ run'.at = run.at /\ run'.seed = p /\ run'.todo = run.todo \ {p}
        /\ run'.force = run.force
    BY <1>0, <2>1 DEF Runs
  <2>3. run.force => Seeded(run.todo \cup {run.seed})'
    BY <1>0, <2>1, <2>2 DEF SeedInv, Seeded
  <2> QED
    BY <1>1, <2>1, <2>2, <2>3
<1>3. CASE ConsiderSeed(p) /\ ~(source[p] # Absent /\ target[p] = Absent)
  <2>1. run' = [run EXCEPT !.todo = @ \ {p}] /\ run.pc = "seed" /\ target' = target
    BY <1>3 DEF ConsiderSeed
  <2>2. run'.pc = "seed" /\ run'.at = run.at /\ run'.todo = run.todo \ {p} /\ run'.force = run.force
    BY <1>0, <2>1 DEF Runs
  <2>3. run.force => Seeded(run.todo)'
    BY <1>0, <1>3, <2>1, <2>2 DEF SeedInv, Seeded
  <2> QED
    BY <1>1, <2>1, <2>2, <2>3
<1>4. CASE PlaceSeed
  <2>1. source[run.seed] # Absent
    BY <1>4 DEF PlaceSeed, Idle
  <2>2. target' = [target EXCEPT ![run.seed] = source[run.seed]]
        /\ run' = [run EXCEPT !.pc = "seed", !.seed = Absent] /\ run.pc = "place"
    BY <1>0, <1>4, <2>1 DEF PlaceSeed
  <2>3. run'.pc = "seed" /\ run'.at = run.at /\ run'.todo = run.todo /\ run'.force = run.force
    BY <1>0, <2>2 DEF Runs
  <2>4. \A q \in Paths : target[q] # Absent => target'[q] # Absent
    BY <1>0, <2>1, <2>2
  <2>5. run.seed \in LEARNING_SEED /\ LEARNING_SEED \subseteq Paths
    BY <2>2, Halves DEF IInv, WritesElsewhere
  <2>6. run.force => Seeded(run.todo)'
    BY <1>0, <2>1, <2>2, <2>3, <2>4, <2>5 DEF SeedInv, Seeded
  <2> QED
    BY <1>1, <2>3, <2>4, <2>6
<1>5. CASE SeedsDone
  <2>1. run' = [run EXCEPT !.pc = "scaffold", !.at = @ + 1] /\ run.pc = "seed" /\ run.todo = {}
        /\ target' = target
    BY <1>5 DEF SeedsDone
  <2>2. run'.pc = "scaffold" /\ run'.at = run.at + 1 /\ run'.force = run.force
    BY <1>0, <2>1 DEF Runs
  <2>3. MadeBelow(run.at)'
    BY <1>0, <2>2 DEF MadeBelow
  <2>4. run.force => Seeded({})'
    BY <1>0, <2>1 DEF SeedInv, Seeded
  <2> QED
    BY <2>2, <2>3, <2>4 DEF ScaffoldInv, SeedInv, Scaffolding, Ending
<1> QED
  BY <1>2, <1>3, <1>4, <1>5

\* Building and emptying the manifest change nothing it was built from.
LEMMA ManifestSteps ==
  ASSUME IInv, ScaffoldInv, SeedInv, BuildManifest \/ EmptyManifest
  PROVE  (ScaffoldInv /\ SeedInv)' /\ run.pc \in Ending /\ run'.pc \in Ending
<1>0. run \in Runs /\ UNCHANGED <<source, target, owned>> /\ run.pc \in {"build", "empty"}
      /\ owned = Rng(PROJECT_OWNED) /\ (run.force => Seeded({}))
  BY DEF IInv, TypeOK, BuildManifest, EmptyManifest, Untouched, ScaffoldInv, SeedInv, Ending
<1>1. /\ run'.pc \in {"empty", "publish"} /\ run'.force = run.force
      /\ run'.built = build_manifest
  BY <1>0 DEF Runs, BuildManifest, EmptyManifest, ScaffoldInv
<1>2. build_manifest' = build_manifest
  BY <1>0 DEF build_manifest, iter_upstream
<1>3. run.force => Seeded({})'
  BY <1>0 DEF Seeded
<1> QED
  BY <1>0, <1>1, <1>2, <1>3 DEF ScaffoldInv, SeedInv, Scaffolding, Ending

-----------------------------------------------------------------------------
(* Put together: what holds of an install as long as nobody disturbs it.   *)

\* A step that ends the install, disturbs it or begins one owes nothing.
LEMMA SteadyNext == IInv /\ SteadyInv /\ [Next]_vars => SteadyInv'
<1> SUFFICES ASSUME IInv, SteadyInv, [Next]_vars, run'.steady
             PROVE  (UpstreamInv /\ ScaffoldInv /\ SeedInv)'
  BY DEF SteadyInv
<1>0. run \in Runs /\ TypeOK /\ WritesElsewhere
  BY DEF IInv, TypeOK
<1>1. ~Idle.steady /\ run' # Idle
  BY DEF Idle
<1>2. CASE UNCHANGED vars
  <2>1. run.steady /\ UpstreamInv /\ ScaffoldInv /\ SeedInv /\ UNCHANGED <<source, target, owned, run>>
    BY <1>2 DEF vars, SteadyInv
  <2>2. UpstreamInv'
    BY <2>1 DEF UpstreamInv, DoneBelow, Holds, Ships, iter_upstream, Replaced, RootsCopied
  <2>3. (ScaffoldInv /\ SeedInv)'
    BY <2>1 DEF ScaffoldInv, SeedInv, MadeBelow, Seeded, build_manifest, iter_upstream
  <2> QED
    BY <2>2, <2>3
<1>3. ASSUME NEW force \in BOOLEAN, StartInstall(force)
      PROVE  (UpstreamInv /\ ScaffoldInv /\ SeedInv)'
  <2>1. run'.pc = "enter" /\ run'.at = 1
    BY <1>3 DEF StartInstall, Idle
  <2>2. DoneBelow(run.at)'
    BY <2>1 DEF DoneBelow
  <2> QED
    BY <2>1, <2>2, NotYet DEF UpstreamInv, Afterwards, Scaffolding, Ending
<1>4. ~Elsewhere
  BY <1>0 DEF Elsewhere, Release, EditUpstream, EditProject, MakeOwned, DropOwned, Disturbed, Runs
<1>5. ASSUME InstallStep PROVE (UpstreamInv /\ ScaffoldInv /\ SeedInv)'
  <2>0. run.steady /\ UpstreamInv /\ ScaffoldInv /\ SeedInv
    <3>1. run'.steady = run.steady
      BY <1>0, <1>1, <1>5
      DEF InstallStep, EnterDir, ListDir, NextDir, RootsDone, MakeProjectDir, PlaceSeed, SeedsDone,
          BuildManifest, EmptyManifest, PublishManifest, Crash, RemoveFile, CopyFile, CopyRoot,
          ConsiderSeed, Runs
    <3> QED
      BY <3>1 DEF SteadyInv
  <2>1. CASE EnterDir
    <3>1. run'.pc \in {"roots", "remove", "enter"}
      BY <1>0, <2>1 DEF EnterDir, Runs
    <3> QED
      BY <2>0, <2>1, <3>1, EnterDirKeeps, NotYet DEF Scaffolding, Ending
  <2>2. ASSUME NEW p, RemoveFile(p) \/ ListDir \/ CopyFile(p) \/ NextDir
        PROVE  (UpstreamInv /\ ScaffoldInv /\ SeedInv)'
    <3>1. run'.pc \in {"remove", "copy", "enter"}
      BY <1>0, <1>1, <2>2 DEF RemoveFile, ListDir, CopyFile, NextDir, Runs
    <3> QED
      BY <2>0, <2>2, <3>1, DirSteps, NotYet DEF Scaffolding, Ending
  <2>3. ASSUME NEW p, CopyRoot(p) PROVE (UpstreamInv /\ ScaffoldInv /\ SeedInv)'
    <3>1. run'.pc = "roots"
      BY <1>0, <2>3 DEF CopyRoot, Runs
    <3> QED
      BY <2>0, <2>3, <3>1, RootSteps, NotYet DEF Scaffolding, Ending
  <2>4. CASE RootsDone
    <3>1. run'.pc = "scaffold" /\ run'.at = 1 /\ UpstreamInv'
      BY <1>0, <2>0, <2>4, RootSteps DEF RootsDone, Runs
    <3>2. (ScaffoldInv /\ SeedInv)'
      BY <3>1 DEF ScaffoldInv, SeedInv, MadeBelow, Scaffolding, Ending
    <3> QED
      BY <3>1, <3>2
  <2>5. CASE MakeProjectDir
    <3>1. run.pc = "scaffold" /\ run'.pc \in {"build", "scaffold", "seed"}
          /\ UNCHANGED <<source, target>>
      BY <1>0, <2>5 DEF MakeProjectDir, Untouched, Runs
    <3> QED
      BY <2>0, <2>5, <3>1, MakeProjectDirKeeps, UpstreamKept DEF Afterwards
  <2>6. ASSUME NEW p, ConsiderSeed(p) \/ PlaceSeed \/ SeedsDone
        PROVE  (UpstreamInv /\ ScaffoldInv /\ SeedInv)'
    <3>1. run.pc \in {"seed", "place"} /\ run'.pc \in {"scaffold", "seed", "place"}
          /\ UNCHANGED source
      BY <1>0, <1>1, <2>6 DEF ConsiderSeed, PlaceSeed, SeedsDone, Untouched, Runs
    <3>2. \A q \in UpstreamPaths : target'[q] = target[q]
      BY <1>0, <1>1, <2>6, Halves
      DEF ConsiderSeed, PlaceSeed, SeedsDone, WritesElsewhere, TypeOK
    <3> QED
      BY <1>5, <2>0, <2>6, <3>1, <3>2, SeedSteps, UpstreamKept DEF Afterwards
  <2>7. CASE BuildManifest \/ EmptyManifest
    <3>1. UNCHANGED <<source, target>>
      BY <2>7 DEF BuildManifest, EmptyManifest, Untouched
    <3> QED
      BY <2>0, <2>7, <3>1, ManifestSteps, UpstreamKept DEF Afterwards, Ending
  <2>8. ~(PublishManifest \/ Crash)
    BY <1>1 DEF PublishManifest, Crash
  <2> QED
    BY <1>5, <2>1, <2>2, <2>3, <2>4, <2>5, <2>6, <2>7, <2>8 DEF InstallStep
<1> QED
  BY <1>2, <1>3, <1>4, <1>5 DEF Next

\* Nothing is owed before an install begins.
LEMMA SteadyInit == Init => SteadyInv
  BY DEF Init, Idle, SteadyInv

\* What an undisturbed install has achieved when it publishes its manifest.
LEMMA AtPublication ==
  ASSUME IInv, SteadyInv, PublishManifest, run.steady
  PROVE  /\ UNCHANGED <<source, target, owned>> /\ manifest' = build_manifest
         /\ Replaced /\ RootsCopied({}) /\ owned = Rng(PROJECT_OWNED)
         /\ run.force => Seeded({})
  BY DEF PublishManifest, Untouched, SteadyInv, UpstreamInv, ScaffoldInv, SeedInv,
         Afterwards, Ending

\* A directory that ships is one of UPSTREAM, and was replaced.
LEMMA ReplacedIsExact ==
  ASSUME Replaced, NEW p \in Paths, DirOf[p] \in Rng(UPSTREAM), Ships(DirOf[p])
  PROVE  target[p] = IF p \in iter_upstream THEN source[p] ELSE Absent
<1>1. PICK i \in 1..Len(UPSTREAM) : DirOf[p] = UPSTREAM[i]
  BY DEF Rng
<1> QED
  BY <1>1 DEF Replaced, Holds, In

\* InstallConverges holds of every behaviour: whatever the target was, an
\* install nobody disturbed ends with nothing for check to report
\* (vendor.py:install, check).
THEOREM InstallAlwaysConverges == Spec => InstallConverges
<1>1. ASSUME IInv, SteadyInv, PublishManifest, run.steady PROVE InStep(manifest)'
  <2>1. \A p \in iter_upstream : target[p] = source[p]
    <3> SUFFICES ASSUME NEW p \in iter_upstream PROVE target[p] = source[p]
      OBVIOUS
    <3>1. CASE p \in UPSTREAM_FILES
      BY <1>1, <3>1, AtPublication DEF RootsCopied, iter_upstream
    <3>2. CASE p \in Paths /\ DirOf[p] \in Rng(UPSTREAM)
      <4>1. Ships(DirOf[p])
        BY <3>2 DEF Ships, In, iter_upstream
      <4> QED
        BY <1>1, <3>2, <4>1, AtPublication, ReplacedIsExact
    <3> QED
      BY <3>1, <3>2 DEF iter_upstream, UpstreamPaths
  <2>2. build_manifest' = build_manifest /\ iter_upstream' = iter_upstream
    BY <1>1, AtPublication DEF build_manifest, iter_upstream
  <2>3. manifest' = build_manifest' /\ owned' = Rng(PROJECT_OWNED)
        /\ \A p \in iter_upstream' : target'[p] = source'[p]
    BY <1>1, <2>1, <2>2, AtPublication
  <2> QED
    BY <2>3 DEF InStep
<1>2. IInv /\ SteadyInv /\ [Next]_vars => [PublishManifest /\ run.steady => InStep(manifest)']_vars
  BY <1>1
<1> QED
  BY IInvInit, IInvNext, SteadyInit, SteadyNext, <1>2, PTL DEF Spec, InstallConverges

\* NoRetiredSurvives holds of every behaviour: a directory the source ships is
\* left with the source's files and no others (vendor.py:_replace_upstream).
THEOREM NoRetiredEverSurvives == Spec => NoRetiredSurvives
<1>1. ASSUME IInv, SteadyInv, PublishManifest, run.steady, NEW p \in Paths,
             DirOf[p] \in Rng(UPSTREAM), Ships(DirOf[p]), target'[p] # Absent
      PROVE  p \in iter_upstream
  BY <1>1, AtPublication, ReplacedIsExact
<1>2. IInv /\ SteadyInv /\ [Next]_vars =>
        [PublishManifest /\ run.steady =>
            \A p \in Paths :
               DirOf[p] \in Rng(UPSTREAM) /\ Ships(DirOf[p]) /\ target'[p] # Absent
                  => p \in iter_upstream]_vars
  BY <1>1
<1> QED
  BY IInvInit, IInvNext, SteadyInit, SteadyNext, <1>2, PTL DEF Spec, NoRetiredSurvives

\* ForceRestoresSeeds holds of every behaviour: an undisturbed install --force
\* leaves every seed the source ships in place (vendor.py:_seed_project_half).
THEOREM ForceAlwaysRestoresSeeds == Spec => ForceRestoresSeeds
<1>1. ASSUME IInv, SteadyInv, PublishManifest, run.steady, run.force,
             NEW p \in LEARNING_SEED, source[p] # Absent
      PROVE  target'[p] # Absent
  BY <1>1, AtPublication DEF Seeded
<1>2. IInv /\ SteadyInv /\ [Next]_vars =>
        [PublishManifest /\ run.steady /\ run.force =>
            \A p \in LEARNING_SEED : source[p] # Absent => target'[p] # Absent]_vars
  BY <1>1
<1> QED
  BY IInvInit, IInvNext, SteadyInit, SteadyNext, <1>2, PTL DEF Spec, ForceRestoresSeeds

=============================================================================
