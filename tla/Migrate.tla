------------------------------ MODULE Migrate ------------------------------
(***************************************************************************)
(* tools/migrate_v4.py and tools/migrate_v5.py: the two commands that bring *)
(* a project's declaration, the [tool.agent-discipline] table of            *)
(* pyproject.toml, from release 3 to 4 and from 4 to 5.  Each builds a plan *)
(* from what it reads, checks that the files it guards still are as         *)
(* planned, and replaces the changed ones one at a time, the declaration    *)
(* last.  Several people and jobs may run them, the project keeps editing   *)
(* its files meanwhile, and a run may die between any two of its steps.     *)
(*                                                                          *)
(* A declaration is abstracted to what the two planners look at: which of   *)
(* the fields of release 4 are there, whether the three fields of release 5 *)
(* are, the source roots, and everything else, which no planner may change. *)
(***************************************************************************)
EXTENDS Naturals

CONSTANTS
  Runs,        \* the command lines that may run one of the two migrations
  Roots,       \* source-root lists a project may have
  SafeRoots,   \* those that stay inside the repository
  SrcRoots,    \* the conventional list: src
  None,        \* no source roots named, no file, nothing read
  MaxEdits     \* bound on the project's own edits

ASSUME RootsAssumption == SafeRoots \subseteq Roots /\ SrcRoots \in SafeRoots /\ None \notin Roots
ASSUME BoundAssumption == MaxEdits \in Nat

VARIABLES
  disk,    \* the three files the migrations read and replace
  tree,    \* the source tree release 4's roles are inferred from
  run,     \* what each command line is doing
  edits    \* edits made so far: every edit is a new content

vars == <<disk, tree, run, edits>>

-----------------------------------------------------------------------------
(* The files.                                                               *)

Artifacts == {"model", "doxyfile"}
Files     == Artifacts \union {"pyproject"}

\* "none": no discipline table; "v3": fields of release 3 only; "some": a part of
\* release 4's; "main": its scalar fields; "all": capabilities and roles too.
\* roots: the build metadata's before release 4, the declared ones from then on.
FieldStages  == {"none", "v3", "some", "main", "all"}
Declarations == [fields : FieldStages, doxygen : BOOLEAN,
                 roots : Roots \union {None}, other : 0 .. MaxEdits]

\* A Doxyfile or documentation model is written by a migration from the
\* declared roots, or is the project's own.
Generated(roots) == [by |-> "migration", content |-> roots]
Own(n)           == [by |-> "project", content |-> n]
Contents         == {Generated(r) : r \in Roots} \union {Own(n) : n \in 0 .. MaxEdits}
Values           == Declarations \union Contents \union {None}

ASSUME NoneAssumption == None \notin Declarations \union Contents

\* A tree with or without src/, whose files all have a role and whose
\* registered imports all have one owner, or not.
Trees == [src : BOOLEAN, clear : BOOLEAN]

-----------------------------------------------------------------------------
(* The plans.                                                               *)

\* What release 4's migration takes the source roots to be.
DerivedRoots(decl, t) == IF decl.roots # None THEN decl.roots
                         ELSE IF t.src THEN SrcRoots ELSE None

Blocked4(decl, t, unitGiven) ==
  \/ ~unitGiven
  \/ decl.fields # "v3"
  \/ DerivedRoots(decl, t) \notin SafeRoots
  \/ ~t.clear

Migrated4(decl, t) == [decl EXCEPT !.fields = "all", !.roots = DerivedRoots(decl, t)]

Blocked5(decl) == decl.fields \notin {"main", "all"} \/ decl.roots \notin SafeRoots

Migrated5(decl) == [decl EXCEPT !.doxygen = TRUE]

\* A faulty planner: brings existing artifacts up to date.
Planned_refreshed(content, roots) == Generated(roots)

\* Capture what guards the write, and create only what was absent.
Planned(content, roots) == IF content = None THEN Generated(roots) ELSE content

Guarded(tool) == IF tool = "v4" THEN {"pyproject"} ELSE Files

\* The order files are read and compared in.
ReadOrder == [pyproject |-> 1, model |-> 2, doxyfile |-> 3]

\* A faulty order: the declaration before the artifacts it names.
PublishOrder_declarationFirst == [pyproject |-> 1, model |-> 2, doxyfile |-> 3]

PublishOrder == [model |-> 1, doxyfile |-> 2, pyproject |-> 3]

First(f, todo, order) == f \in todo /\ \A g \in todo : order[f] <= order[g]

-----------------------------------------------------------------------------
(* The runs.  moved, wrote and steady are history: the checked files someone *)
(* else changed since, the files this run replaced, and whether nobody else  *)
(* changed anything since it started.                                        *)

Nothing == [f \in Files |-> None]
Fresh   == [tool |-> "v4", at |-> "idle", todo |-> {}, before |-> Nothing, after |-> Nothing,
            moved |-> {}, wrote |-> {}, steady |-> FALSE]

Ended == {"idle", "done", "previewed", "blocked", "refused"}

\* A finished run keeps only what its outcome is judged by.
Finished(r, how) == [Fresh EXCEPT !.tool = r.tool, !.at = how, !.wrote = r.wrote, !.steady = r.steady]

\* What someone else's change of file f means for a run.
Checked(r) == IF r.at = "writing" THEN Guarded(r.tool)
              ELSE IF r.at = "checking" THEN Guarded(r.tool) \ r.todo
              ELSE {}
Seeing(r, f) == [r EXCEPT !.moved = @ \union ({f} \intersect Checked(r)), !.steady = FALSE]
OthersSee(p, f) == [q \in Runs |-> IF q = p THEN run[q] ELSE Seeing(run[q], f)]

\* What a planner found in a file, and what it wants there.
Capturing(r, f, content, desired) ==
  [r EXCEPT !.before = [r.before EXCEPT ![f] = content], !.after = [r.after EXCEPT ![f] = desired]]

Start(p) ==
  /\ run[p].at \in Ended
  /\ \E tool \in {"v4", "v5"} :
       run' = [run EXCEPT ![p] = [Fresh EXCEPT !.tool = tool, !.at = "reading", !.steady = TRUE]]
  /\ UNCHANGED <<disk, tree, edits>>

\* Release 4's planner: a declaration that has every field is left alone
\* before the unit or the tree is looked at.
ReadProject4(p) ==
  /\ run[p].tool = "v4" /\ run[p].at = "reading"
  /\ LET decl == disk["pyproject"]
     IN run' = [run EXCEPT ![p] = [Capturing(@, "pyproject", decl, decl)
                                     EXCEPT !.at = IF decl.fields = "all" THEN "planned" ELSE "inferring"]]
  /\ UNCHANGED <<disk, tree, edits>>

InferRoles4(p) ==
  /\ run[p].at = "inferring"
  /\ \E unitGiven \in BOOLEAN :
       LET decl == run[p].before["pyproject"]
       IN run' = [run EXCEPT ![p] = IF Blocked4(decl, tree, unitGiven) THEN Finished(@, "blocked")
                                    ELSE [Capturing(@, "pyproject", decl, Migrated4(decl, tree))
                                            EXCEPT !.at = "planned"]]
  /\ UNCHANGED <<disk, tree, edits>>

\* A faulty planner: a declaration of release 5 is taken for a finished migration.
ReadProject5_currentIsDone(p) ==
  /\ run[p].tool = "v5" /\ run[p].at = "reading"
  /\ LET decl == disk["pyproject"]
     IN run' = [run EXCEPT ![p] = IF Blocked5(decl) THEN Finished(@, "blocked")
                                  ELSE IF decl.doxygen THEN Finished(@, "done")
                                  ELSE [Capturing(@, "pyproject", decl, Migrated5(decl))
                                          EXCEPT !.todo = Artifacts, !.at = "artifacts"]]
  /\ UNCHANGED <<disk, tree, edits>>

\* Release 5's planner reads the declaration, then each artifact.
ReadProject5(p) ==
  /\ run[p].tool = "v5" /\ run[p].at = "reading"
  /\ LET decl == disk["pyproject"]
     IN run' = [run EXCEPT ![p] = IF Blocked5(decl) THEN Finished(@, "blocked")
                                  ELSE [Capturing(@, "pyproject", decl, Migrated5(decl))
                                          EXCEPT !.todo = Artifacts, !.at = "artifacts"]]
  /\ UNCHANGED <<disk, tree, edits>>

ReadArtifact(p) ==
  /\ run[p].at = "artifacts"
  /\ \E a \in Artifacts :
       /\ First(a, run[p].todo, ReadOrder)
       /\ LET desired == Planned(disk[a], run[p].before["pyproject"].roots)
              rest    == run[p].todo \ {a}
          IN run' = [run EXCEPT ![p] = [Capturing(@, a, disk[a], desired)
                                          EXCEPT !.todo = rest, !.at = IF rest = {} THEN "planned" ELSE "artifacts"]]
  /\ UNCHANGED <<disk, tree, edits>>

\* Without --apply the run ends with the diff on the screen.
Preview(p) ==
  /\ run[p].at = "planned"
  /\ run' = [run EXCEPT ![p] = Finished(@, "previewed")]
  /\ UNCHANGED <<disk, tree, edits>>

BeginApply(p) ==
  /\ run[p].at = "planned"
  /\ run' = [run EXCEPT ![p] = [@ EXCEPT !.todo = Guarded(run[p].tool), !.at = "checking"]]
  /\ UNCHANGED <<disk, tree, edits>>

\* A faulty application: each file is replaced as soon as its own check passes.
Check_replacesAtOnce(p, f) ==
  /\ run[p].at = "checking" /\ First(f, run[p].todo, ReadOrder)
  /\ LET rest == run[p].todo \ {f}
         r    == [run[p] EXCEPT !.todo = rest, !.wrote = @ \union {f}]
     IN IF disk[f] # run[p].before[f]
        THEN run' = [run EXCEPT ![p] = Finished(@, "refused")] /\ UNCHANGED disk
        ELSE /\ disk' = [disk EXCEPT ![f] = run[p].after[f]]
             /\ run' = [OthersSee(p, f) EXCEPT ![p] = IF rest = {} THEN Finished(r, "done") ELSE r]
  /\ UNCHANGED <<tree, edits>>

\* Every guarded file is compared with what the plan was made from, one file
\* at a time; the first that differs refuses the whole application.
Check(p, f) ==
  /\ run[p].at = "checking" /\ First(f, run[p].todo, ReadOrder)
  /\ LET rest == run[p].todo \ {f}
         due  == {g \in Guarded(run[p].tool) : run[p].before[g] # run[p].after[g]}
     IN run' = [run EXCEPT ![p] =
                  IF disk[f] # run[p].before[f] THEN Finished(@, "refused")
                  ELSE IF rest # {} THEN [@ EXCEPT !.todo = rest]
                  ELSE IF due = {} THEN Finished(@, "done")
                  ELSE [@ EXCEPT !.todo = due, !.at = "writing"]]
  /\ UNCHANGED <<disk, tree, edits>>

\* _atomic_write: one file replaced as a whole, the declaration last.
Publish(p, f) ==
  /\ run[p].at = "writing" /\ First(f, run[p].todo, PublishOrder)
  /\ disk' = [disk EXCEPT ![f] = run[p].after[f]]
  /\ LET rest == run[p].todo \ {f}
         r    == [run[p] EXCEPT !.todo = rest, !.wrote = @ \union {f}]
     IN run' = [OthersSee(p, f) EXCEPT ![p] = IF rest = {} THEN Finished(r, "done") ELSE r]
  /\ UNCHANGED <<tree, edits>>

\* The command is killed, or a read or a write fails: nothing is undone.
Die(p) ==
  /\ run[p].at \notin Ended
  /\ run' = [run EXCEPT ![p] = Finished(@, "idle")]
  /\ UNCHANGED <<disk, tree, edits>>

-----------------------------------------------------------------------------
(* The project, which works on its files whatever the migrations do.        *)

Edited(f, content) ==
  /\ edits < MaxEdits
  /\ edits' = edits + 1
  /\ disk' = [disk EXCEPT ![f] = content]
  /\ run' = [q \in Runs |-> Seeing(run[q], f)]
  /\ UNCHANGED tree

EditProject ==
  \E roots \in Roots \union {None} :
    Edited("pyproject", [disk["pyproject"] EXCEPT !.roots = roots, !.other = edits + 1])

WriteArtifact == \E a \in Artifacts : Edited(a, Own(edits + 1))

DropArtifact == \E a \in Artifacts : disk[a] # None /\ Edited(a, None)

\* Source files move or gain a role: no file a migration guards changes.
EditTree ==
  /\ edits < MaxEdits
  /\ edits' = edits + 1
  /\ tree' \in Trees \ {tree}
  /\ run' = [q \in Runs |-> [run[q] EXCEPT !.steady = FALSE]]
  /\ UNCHANGED disk

-----------------------------------------------------------------------------
(* A project of any earlier release, with or without artifacts of its own.  *)

Init ==
  /\ \E decl \in {d \in Declarations : ~d.doxygen /\ d.other = 0 /\ (d.fields \in {"main", "all"} => d.roots # None)},
        has \in SUBSET Artifacts :
       disk = [f \in Files |-> IF f = "pyproject" THEN decl ELSE IF f \in has THEN Own(0) ELSE None]
  /\ tree \in Trees
  /\ run = [p \in Runs |-> Fresh]
  /\ edits = 0

Step(p) ==
  \/ Start(p) \/ ReadProject4(p) \/ InferRoles4(p) \/ ReadProject5(p) \/ ReadArtifact(p)
  \/ Preview(p) \/ BeginApply(p) \/ Die(p)
  \/ \E f \in Files : Check(p, f) \/ Publish(p, f)

Next ==
  \/ \E p \in Runs : Step(p)
  \/ EditProject \/ WriteArtifact \/ DropArtifact \/ EditTree

Spec == Init /\ [][Next]_vars

-----------------------------------------------------------------------------
(* Properties.                                                              *)

Phases == Ended \union {"reading", "inferring", "artifacts", "planned", "checking", "writing"}

RunRecords ==
  [tool : {"v4", "v5"}, at : Phases, todo : SUBSET Files, before : [Files -> Values],
   after : [Files -> Values], moved : SUBSET Files, wrote : SUBSET Files, steady : BOOLEAN]

\* A declaration where one belongs and artifacts where they do.
WellPlaced(files) ==
  /\ files["pyproject"] \in Declarations \union {None}
  /\ \A a \in Artifacts : files[a] \in Contents \union {None}

RunType(r) ==
  /\ r \in RunRecords /\ WellPlaced(r.before) /\ WellPlaced(r.after)
  /\ r.at \in {"artifacts", "checking", "writing"} => r.todo # {}
  /\ r.after["pyproject"] # r.before["pyproject"] => r.after["pyproject"].roots \in SafeRoots

\* State has its types; a declaration a plan is going to publish names source
\* roots inside the repository, and a run with files to handle knows which.
TypeOK ==
  /\ disk \in [Files -> Values] /\ WellPlaced(disk) /\ disk["pyproject"] \in Declarations
  /\ tree \in Trees /\ edits \in 0 .. MaxEdits
  /\ run \in [Runs -> RunRecords] /\ \A p \in Runs : RunType(run[p])

\* The declaration "never points at artifacts that have not been created"
\* (apply in migrate_v5): whenever a run publishes it, with other runs at work
\* and after any number of killed ones, each artifact it names is the one the
\* plan showed, unless somebody changed that artifact after the run checked it.
DeclarationLast ==
  [][\A p \in Runs : Publish(p, "pyproject") /\ run[p].tool = "v5" =>
       \A a \in Artifacts : disk[a] = run[p].after[a] \/ a \in run[p].moved]_vars

\* What the project has written survives: a run replaces a file of its own
\* making or an absent one, and of the declaration only the fields of its
\* release, unless the file was changed after the run checked it.
ProjectBytesSurvive ==
  [][\A p \in Runs, f \in Files : Publish(p, f) /\ f \notin run[p].moved =>
       IF f = "pyproject"
       THEN /\ disk'[f].other = disk[f].other
            /\ disk[f].doxygen => disk'[f].doxygen
            /\ disk[f].fields \in {"main", "all"} => disk'[f].fields = disk[f].fields
                                                    /\ disk'[f].roots = disk[f].roots
       ELSE disk[f] = None]_vars

\* A run that refuses because a file drifted has written nothing at all.
RefusedMeansUntouched == \A p \in Runs : run[p].at = "refused" => run[p].wrote = {}

\* A project that has reached the release a migration brings it to, and in
\* which the same migration would find nothing to change.
Complete(tool, files) ==
  LET decl == files["pyproject"]
  IN IF tool = "v4"
     THEN decl.fields = "all"
     ELSE /\ ~Blocked5(decl) /\ Migrated5(decl) = decl
          /\ \A a \in Artifacts : Planned(files[a], decl.roots) = files[a]

\* A run that nobody disturbed and that says it applied its plan has completed
\* its release, artifacts included, whatever a killed run left behind.
MigrationConverges ==
  \A p \in Runs : run[p].at = "done" /\ run[p].steady => Complete(run[p].tool, disk)
=============================================================================
